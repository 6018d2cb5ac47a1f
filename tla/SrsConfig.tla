--------------------------------- MODULE SrsConfig ---------------------------------
(***************************************************************************)
(* The form over the SRS server's server.cfg: get_settings and             *)
(* post_settings in rust-web-dashboard/src/routes/srs.rs, and the          *)
(* configuration column of web-dashboard/src/app/srs/page.tsx. A value is  *)
(* text in the file, a boolean, a number or a text in the form, and text   *)
(* again when it is saved; a save sends every setting, and rewrites the    *)
(* lines of the settings it was sent.                                      *)
(***************************************************************************)
EXTENDS Naturals, Functions

CONSTANTS
  Pages,
  MaxEdits   \* bound: edits of all pages

EditsAssumption == MaxEdits \in Nat

VARIABLES
  file,   \* server.cfg: the text of each setting
  form,   \* per browser: the settings it shows, Unloaded before
  post,   \* per browser: its POST /api/srs/settings
  edits   \* edits so far

vars == <<file, form, post, edits>>

\* A setting is its section and its key; two sections have the same key.
Settings == {<<"General", "CLIENT_EXPORT">>, <<"General", "PORT">>,
             <<"Server", "PORT">>, <<"Server", "PASSWORD">>}
SampleFile == [s \in Settings |->
  IF s[2] = "CLIENT_EXPORT" THEN "True"
  ELSE IF s[2] = "PASSWORD" THEN "red" ELSE IF s[1] = "Server" THEN "01" ELSE "1"]

Value(is, v) == [is |-> is, v |-> v]
Words == {"", "red", "2", "true"}   \* what can be typed in a text field
NaN == Value("null", "null")        \* a number field that was emptied

\* get_settings, for a value: any case of true and false, any numeral.
Parsed(text) ==
  CASE text \in {"true", "True"} -> Value("boolean", "true")
    [] text = "false"            -> Value("boolean", "false")
    [] text \in {"1", "01"}      -> Value("number", "1")
    [] text = "2"                -> Value("number", "2")
    [] OTHER                     -> Value("string", text)

\* post_settings, for a value; null is not among the kinds it has an arm for.
Printed(value) == value.v

\* The section of the line and its key.
PostedFor(sent, s) == s

Unloaded == [s \in {} |-> NaN]
NoPost == [at |-> "none", sent |-> Unloaded, read |-> SampleFile]

Init ==
  /\ file = SampleFile /\ edits = 0
  /\ form = [p \in Pages |-> Unloaded]
  /\ post = [p \in Pages |-> NoPost]

\* The page mounts, and asks once.
Open(p) ==
  /\ post[p].at \in {"none", "written"}
  /\ form' = [form EXCEPT ![p] = [s \in Settings |-> Parsed(file[s])]]
  /\ post' = [post EXCEPT ![p] = NoPost]
  /\ UNCHANGED <<file, edits>>

\* The control of a setting is that of its value's type.
Typed(value) ==
  CASE value.is = "boolean" -> {Value("boolean", IF value.v = "true" THEN "false" ELSE "true")}
    [] value.is \in {"number", "null"} -> {Value("number", "1"), Value("number", "2"), NaN}
    [] OTHER -> {Value("string", w) : w \in Words}

\* updateSetting. An emptied number field holds NaN, a number to the form.
Edit(p) == \E s \in DOMAIN form[p] :
  /\ edits < MaxEdits /\ edits' = edits + 1
  /\ \E value \in Typed(form[p][s]) \ {form[p][s]} :
       form' = [form EXCEPT ![p][s] = value]
  /\ UNCHANGED <<file, post>>

\* handleSave
Save(p) ==
  /\ form[p] # Unloaded /\ post[p].at = "none"
  /\ post' = [post EXCEPT ![p].at = "sent", ![p].sent = form[p]]
  /\ UNCHANGED <<file, form, edits>>

\* post_settings reads the file, and writes it.
Read(p) ==
  /\ post[p].at = "sent"
  /\ post' = [post EXCEPT ![p].at = "read", ![p].read = file]
  /\ UNCHANGED <<file, form, edits>>

Write(p) ==
  /\ post[p].at = "read"
  /\ file' = [s \in Settings |-> IF s \in DOMAIN post[p].sent
                                  THEN Printed(post[p].sent[PostedFor(post[p].sent, s)])
                                  ELSE post[p].read[s]]
  /\ post' = [post EXCEPT ![p].at = "written"]
  /\ UNCHANGED <<form, edits>>

\* The answer; or it, or the request, is lost.
Answered(p) ==
  /\ post[p].at \in {"written", "sent"}
  /\ post' = [post EXCEPT ![p] = NoPost]
  /\ UNCHANGED <<file, form, edits>>

Next == \E p \in Pages : Open(p) \/ Edit(p) \/ Save(p) \/ Read(p) \/ Write(p) \/ Answered(p)

Spec == Init /\ [][Next]_vars

-----------------------------------------------------------------------------
(* Properties                                                              *)

TypeOK ==
  /\ edits \in 0 .. MaxEdits
  /\ \A p \in Pages : post[p].at \in {"none", "sent", "read", "written"}
  /\ \A p \in Pages : DOMAIN form[p] \in {{}, Settings}

\* A save of settings that are all filled in is read back as it was sent, each
\* one by the key of its own section, and one read as a text by the same type:
\* a page opened after it shows what the page that saved showed (get_settings
\* and post_settings). A text that spells a number or a boolean changes its
\* type; it is written as it was typed.
SavedIsReadBack == [][\A p \in Pages :
  post[p].at = "read" /\ post'[p].at = "written" =>
    \A s \in Settings : LET sent == post[p].sent[s] IN
      sent # NaN => /\ Parsed(file'[s]).v = sent.v
                    /\ sent.v \notin {"2", "true"} => Parsed(file'[s]) = sent]_vars
====================================================================================
