------------------------------ MODULE FootholdConfig ------------------------------
(***************************************************************************)
(* The form over Foothold Config.lua (web-dashboard/src/app/foothold/      *)
(* config/page.tsx) and the two functions that read and rewrite the file   *)
(* (rust-web-dashboard/src/foothold.rs). Reading runs the file as Lua and  *)
(* flattens its tables into dotted keys; writing matches the file line by  *)
(* line against the keys it was sent. So a key is a sequence of names, and *)
(* the file a sequence of lines.                                           *)
(***************************************************************************)
EXTENDS Naturals, FiniteSets, SequencesExt

CONSTANTS
  Pages,
  MaxValue,   \* bound: the values of a field
  MaxEdits    \* bound: edits of all pages

BoundsAssumption == MaxValue \in Nat \ {0} /\ MaxEdits \in Nat

VARIABLES
  file,   \* Foothold Config.lua
  page,   \* per browser: the form
  save,   \* per browser: its POST /api/foothold/config
  edits   \* edits so far

vars == <<file, page, save, edits>>

Removed == 0              \* null: a row that was removed
Cleared == MaxValue + 1   \* NaN: a number field that was emptied
OnWire(v) == IF v = Cleared THEN Removed ELSE v

-----------------------------------------------------------------------------
(* The file                                                                *)

\* `key = {`, a closing brace, `key = value`, `key = {1, 2}`, a bare element;
\* and `table.key = value` and `table.key = {`, with the rows and the brace of
\* such a table: their key is all the names they set it by.
Line(kind, key, val, comma, note) ==
  [kind |-> kind, key |-> key, val |-> val, comma |-> comma, note |-> note]
Opening(key) == Line("open", key, <<>>, "no", "no")
Closing == Line("close", "", <<>>, "no", "no")
Row(key, v, comma, note) == Line("row", key, <<v>>, comma, note)
Dotted(key, v) == Line("dotted", key, <<v>>, "no", "no")
DottedOpening(key) == Line("under", key, <<>>, "no", "no")
InnerRow(key, v) == Line("inner", key, <<v>>, "yes", "no")
InnerClosing == Line("end", "", <<>>, "no", "no")

\* The kinds of entries such a file has; the mission's file is not in src/.
SampleFile ==
  <<Row("AiSkill", 1, "no", "yes"),
    Line("pair", "Reward", <<1, 1>>, "no", "no"),
    Opening("Prices"), Row("tank", 1, "yes", "no"), Row("jeep", 1, "yes", "yes"), Closing,
    Opening("Units"), Line("item", "1", <<1>>, "yes", "no"), Closing,
    Opening("Globals"), Closing, Dotted(<<"Globals", "scaling">>, 1),
    DottedOpening(<<"Globals", "caps">>), InnerRow(<<"Globals", "caps", "Era">>, 1),
    InnerClosing>>
\* The schema's, some with a dot in them.
Listed == {<<"AiSkill">>, <<"Era">>, <<"Reward">>, <<"Prices">>, <<"Units">>,
           <<"Globals", "scaling">>, <<"Globals", "caps">>}
NewNames == {"boat", "2"}
NotNames == {"1", "2"}    \* Lua wants these in brackets

\* Values with one of them set.
Put(values, key, v) == [k \in DOMAIN values \cup {key} |-> IF k = key THEN v ELSE values[k]]

\* ... and without what a key stood for before a dotted name set it.
Without(values, key) ==
  [k \in {j \in DOMAIN values : j # key /\ Front(j) # key} |-> values[k]]

\* What Lua makes of the lines, flattened: a line that does not follow a
\* comma or that assigns to a number is a syntax error, and so is one with
\* a dotted name in a table.
Reads(s, l) ==
  LET key == s.path \o <<l.key>>
      element == [s EXCEPT !.ok = @ /\ (s.path = <<>> \/ s.after = "yes") /\ l.key \notin NotNames,
                           !.after = l.comma]
      outside == [s EXCEPT !.ok = @ /\ s.path = <<>>, !.values = Without(@, l.key)]
      within == [s EXCEPT !.ok = @ /\ s.after = "yes", !.after = l.comma]
  IN CASE l.kind = "open"  -> [element EXCEPT !.path = key, !.after = "yes"]
       [] l.kind = "close" -> [s EXCEPT !.path = Front(@), !.after = l.comma]
       [] l.kind = "row"   -> [element EXCEPT !.values = Put(@, key, l.val[1])]
       [] l.kind = "item"  -> [within EXCEPT !.values = Put(@, key, l.val[1])]
       [] l.kind = "pair"  -> [element EXCEPT !.values =
                                 Put(Put(@, key \o <<"1">>, l.val[1]), key \o <<"2">>, l.val[2])]
       [] l.kind = "dotted" -> [outside EXCEPT !.values = Put(@, l.key, l.val[1])]
       [] l.kind = "under" -> [outside EXCEPT !.after = "yes"]
       [] l.kind = "inner" -> [within EXCEPT !.values = Put(@, l.key, l.val[1])]
       [] l.kind = "end"   -> [s EXCEPT !.after = l.comma]

Through(Op(_, _), start, lines) ==
  LET state[i \in 0 .. Len(lines)] ==
        IF i = 0 THEN start ELSE Op(state[i - 1], lines[i])
  IN state[Len(lines)]

Loaded(lines) ==
  Through(Reads, [path |-> <<>>, values |-> <<>>, after |-> "yes", ok |-> TRUE], lines)
Values(lines) == Loaded(lines).values
Readable(lines) == Loaded(lines).ok

\* The keys left that have no line of their own in the table that ends.
Unplaced(s) == {k \in DOMAIN s.left : s.path # <<>> /\ Front(k) = s.path /\ s.left[k] # Removed}
Inserted(s) == LET keys == SetToSeq(Unplaced(s))
               IN [i \in 1 .. Len(keys) |-> Row(Last(keys[i]), s.left[keys[i]], "yes", "no")]

Popped(path) == IF path = <<>> THEN path ELSE Front(path)

\* Fault: a line's value replaces that of the first line with its name.
RewritesByName(s, l) ==
  LET named == {k \in DOMAIN s.left : Last(k) = l.key}
  IN CASE l.kind = "close" -> [s EXCEPT !.path = Popped(@), !.out = @ \o Inserted(s) \o <<l>>]
       [] l.kind = "open"  -> [s EXCEPT !.path = @ \o <<l.key>>, !.out = @ \o <<l>>]
       [] l.kind \in {"row", "pair"} /\ named # {} ->
            LET key == CHOOSE k \in named : TRUE
            IN [s EXCEPT !.left = [k \in DOMAIN @ \ {key} |-> @[k]],
                         !.out = @ \o IF s.left[key] = Removed THEN <<>>
                                      ELSE <<Row(l.key, s.left[key], l.comma, l.note)>>]
       [] OTHER -> [s EXCEPT !.out = @ \o <<l>>]
\* update_foothold_config, for a line: the comma is kept when it ends the line.
\* A dotted name is none of its patterns: the line is left as it is, and the
\* rows of a table it opens are taken for fields outside of all tables.
Rewrites(s, l) ==
  LET key == s.path \o <<IF l.kind = "inner" THEN Last(l.key) ELSE l.key>>
      comma == IF l.note = "no" THEN l.comma ELSE "no"
      set == Line(IF l.kind = "inner" THEN "inner" ELSE "row", l.key, <<s.left[key]>>, comma, l.note)
  IN CASE l.kind \in {"close", "end"} ->
            [s EXCEPT !.path = Popped(@), !.out = @ \o Inserted(s) \o <<l>>]
       [] l.kind = "open"  -> [s EXCEPT !.path = key, !.out = @ \o <<l>>]
       [] l.kind \in {"row", "pair", "inner"} /\ key \in DOMAIN s.left ->
            [s EXCEPT !.left = [k \in DOMAIN @ \ {key} |-> @[k]],
                      !.out = @ \o IF s.left[key] = Removed THEN <<>> ELSE <<set>>]
       [] OTHER -> [s EXCEPT !.out = @ \o <<l>>]
Rewritten(lines, updates) ==
  Through(Rewrites, [path |-> <<>>, left |-> updates, out |-> <<>>], lines).out

-----------------------------------------------------------------------------
(* The form                                                                *)

NoSave == [at |-> "none", config |-> <<>>, updates |-> <<>>, read |-> <<>>]
Unloaded == [config |-> <<>>, original |-> <<>>, said |-> "none"]

Init ==
  /\ file = SampleFile /\ edits = 0
  /\ page = [p \in Pages |-> Unloaded]
  /\ save = [p \in Pages |-> NoSave]

\* The page mounts, after it was left if it was open; an answer to the save of
\* before finds nobody.
Open(p) ==
  /\ save[p].at \in {"none", "written"}
  /\ page' = [page EXCEPT ![p] =
       IF Readable(file) THEN [config |-> Values(file), original |-> Values(file), said |-> "none"]
       ELSE [Unloaded EXCEPT !.said = "error"]]
  /\ save' = [save EXCEPT ![p] = NoSave]
  /\ UNCHANGED <<file, edits>>

RowsOf(p, name) == {k \in DOMAIN page[p].config :
                      Front(k) = name /\ page[p].config[k] # Removed}
IsArray(p, name) == {name \o <<"1">>, name \o <<"2">>} \subseteq DOMAIN page[p].config
IsDictionary(p, name) ==
  RowsOf(p, name) # {} /\ name \notin DOMAIN page[p].config /\ ~IsArray(p, name)

\* The inputs of a name: its rows, its two elements, or one of its own.
Inputs(p, name) ==
  IF IsDictionary(p, name) THEN RowsOf(p, name)
  ELSE IF IsArray(p, name) THEN {name \o <<"1">>, name \o <<"2">>}
  ELSE {name}

\* handleChange
Change(p, key, v) ==
  /\ edits < MaxEdits /\ edits' = edits + 1
  /\ page' = [page EXCEPT ![p].config = Put(@, key, v)]
  /\ UNCHANGED <<file, save>>

Type(p) == \E name \in Listed, v \in 1 .. MaxValue + 1 :
  \E key \in Inputs(p, name) :
    /\ page[p].config # <<>>
    /\ key \notin DOMAIN page[p].config => v # Cleared   \* a text field
    /\ Change(p, key, v)

RemoveRow(p) == \E name \in Listed :
  /\ IsDictionary(p, name)
  /\ \E key \in RowsOf(p, name) : Change(p, key, Removed)

AddRow(p) == \E name \in Listed, new \in NewNames, v \in 1 .. MaxValue :
  IsDictionary(p, name) /\ Change(p, name \o <<new>>, v)

\* NaN differs from itself.
Modified(p) == {k \in DOMAIN page[p].config :
  \/ k \notin DOMAIN page[p].original
  \/ page[p].config[k] # page[p].original[k]
  \/ page[p].config[k] = Cleared}
Json(values) == [k \in DOMAIN values |-> OnWire(values[k])]
Unsaved(p) == Json(page[p].config) # Json(page[p].original)

\* handleSave, up to its request.
Save(p) ==
  /\ save[p].at = "none" /\ Unsaved(p)
  /\ save' = [save EXCEPT ![p] =
       [at |-> "sent", config |-> page[p].config, read |-> <<>>,
        updates |-> [k \in Modified(p) |-> OnWire(page[p].config[k])]]]
  /\ page' = [page EXCEPT ![p].said = "none"]
  /\ UNCHANGED <<file, edits>>

\* update_foothold_config reads the file, and writes it.
Read(p) ==
  /\ save[p].at = "sent"
  /\ save' = [save EXCEPT ![p].at = "read", ![p].read = file]
  /\ UNCHANGED <<file, page, edits>>
Write(p) ==
  /\ save[p].at = "read"
  /\ file' = Rewritten(save[p].read, save[p].updates)
  /\ save' = [save EXCEPT ![p].at = "written"]
  /\ UNCHANGED <<page, edits>>

\* setOriginalConfig, with the config of the click.
SavedIs(p) == save[p].config

Saved(p) ==
  /\ save[p].at = "written"
  /\ page' = [page EXCEPT ![p].original = SavedIs(p), ![p].said = "saved"]
  /\ save' = [save EXCEPT ![p] = NoSave]
  /\ UNCHANGED <<file, edits>>

\* The request or its answer is lost, or the file could not be read or written.
SaveFails(p) ==
  /\ save[p].at \in {"sent", "written"}
  /\ page' = [page EXCEPT ![p].said = "error"]
  /\ save' = [save EXCEPT ![p] = NoSave]
  /\ UNCHANGED <<file, edits>>

\* The message goes 3 s after a save that went well, whichever it is by then.
Fade(p) ==
  /\ page[p].said = "saved"
  /\ page' = [page EXCEPT ![p].said = "none"]
  /\ UNCHANGED <<file, save, edits>>

Next == \E p \in Pages :
  \/ Open(p) \/ Type(p) \/ RemoveRow(p) \/ AddRow(p) \/ Save(p)
  \/ Read(p) \/ Write(p) \/ Saved(p) \/ SaveFails(p) \/ Fade(p)

Spec == Init /\ [][Next]_vars

-----------------------------------------------------------------------------
(* Properties                                                              *)

TypeOK ==
  /\ edits \in 0 .. MaxEdits
  /\ \A p \in Pages : page[p].said \in {"none", "saved", "error"}
  /\ \A p \in Pages : save[p].at \in {"none", "sent", "read", "written"}

Holds(lines, key, v) ==
  IF v = Removed THEN key \notin DOMAIN Values(lines)
  ELSE key \in DOMAIN Values(lines) /\ Values(lines)[key] = v
\* What a dotted name has set, and what is in a table that one has opened.
IsApart(lines, key) == \E i \in DOMAIN lines :
  lines[i].kind \in {"dotted", "under"} /\ lines[i].key \in {key, Front(key)}
\* A key that is set, or a new one of a table with something in it.
HasPlace(lines, key) ==
  /\ ~IsApart(lines, key)
  /\ \E k \in DOMAIN Values(lines) :
       ~IsApart(lines, k) /\ (k = key \/ (Front(key) # <<>> /\ Front(k) = Front(key)))
\* No field that was sent has the name of a row in a table a dotted name opened.
IsClear(lines, updates) == \A i \in DOMAIN lines :
  lines[i].kind = "inner" => <<Last(lines[i].key)>> \notin DOMAIN updates
Writes(p) == save[p].at = "read" /\ save'[p].at = "written"

\* A save that leaves a file Lua can read has changed the keys it was sent that
\* have a place in it, and those only: the rows and plain fields among them read
\* as the form had them, new rows of the file's tables included, and any other
\* key reads as before, a namesake in another table too, unless that table was
\* opened by a dotted name (update_foothold_config). What dotted names have set
\* reads as before although it was edited; like the elements of a list, which
\* have no line of their own, it is SavedIsWritten's.
SavesWhatWasEdited == [][\A p \in Pages :
  Writes(p) /\ Readable(file') /\ IsClear(save[p].read, save[p].updates) =>
    /\ \A k \in DOMAIN save[p].updates :
         (HasPlace(save[p].read, k) /\ Last(k) \notin NotNames)
           => Holds(file', k, save[p].updates[k])
    /\ \A k \in DOMAIN Values(save[p].read) :
         (k \notin DOMAIN save[p].updates \/ IsApart(save[p].read, k))
           => Holds(file', k, Values(save[p].read)[k])
    /\ DOMAIN Values(file') \subseteq DOMAIN Values(save[p].read) \cup DOMAIN save[p].updates]_vars

\* A field edited while its page waited for a save counts as unsaved once the
\* save has succeeded: the button offers to save it (handleSave).
EditsOutliveTheSave == [][\A p \in Pages :
  save[p].at = "written" /\ page'[p].said = "saved" /\ page[p].said # "saved"
    => \A k \in DOMAIN page[p].config :
         OnWire(page[p].config[k]) # (IF k \in DOMAIN save[p].config
                                      THEN OnWire(save[p].config[k]) ELSE Removed)
           => Unsaved(p)']_vars

\* What a save was sent of the keys the file has is in the file once it is
\* written, before the page says "Configuration saved successfully!" (config/page.tsx:85).
SavedIsWritten == [][\A p \in Pages : Writes(p) =>
  \A k \in DOMAIN save[p].updates \cap DOMAIN Values(save[p].read) :
    Holds(file', k, save[p].updates[k])]_vars
===================================================================================
