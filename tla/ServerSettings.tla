----------------------------- MODULE ServerSettings -----------------------------
(***************************************************************************)
(* serverSettings.lua, as the dashboard edits it: the Settings page loads  *)
(* all of it into a form and posts the form back                           *)
(* (web-dashboard/src/app/settings/page.tsx, settings_get and settings_post *)
(* in rust-web-dashboard/src/routes/system.rs), and the Mission page's     *)
(* queue actions read, parse and rewrite it (mission_action in             *)
(* src/routes/dcs.rs, mutate_queue in src/settings_lua.rs). Nothing locks  *)
(* the file or the form.                                                   *)
(*                                                                         *)
(* The text of the file is a value standing for all its settings, and the  *)
(* mission queue. The settings "error" stand for a text that holds nothing *)
(* but the message of a failed load.                                       *)
(***************************************************************************)
EXTENDS Sequences, SequencesExt, SharedFile

CONSTANTS
  Editors,    \* open Settings pages
  Admins,     \* queue actions at a time
  Edits,      \* what an editor may set
  Missions,   \* mission files
  Braced      \* those with a } in their names

ASSUME ClientsAssumption == Editors \cap Admins = {}
ASSUME SettingsAssumption == {"initial", "error", "nothing"} \cap Edits = {}
ASSUME BracedAssumption == Braced \subseteq Missions

VARIABLES
  file,     \* serverSettings.lua
  form,     \* form[p]: what a page loaded and its user edited
  job,      \* job[c]: a write of a page's or of a queue action's request
  saved,    \* history: the settings of the last save carried out
  queued,   \* history: the missions the queue actions carried out have asked for
  mishaps   \* history: what has happened that can spoil the file or its queue

vars == <<file, form, job, saved, queued, mishaps>>

Clients == Editors \cup Admins
Text == [settings : Edits \cup {"initial", "error"}, queue : Seq(Missions)]
IsText(text) == text \in Text
ErrorForm == [settings |-> "error", queue |-> <<>>]
NoJob == [at |-> "idle", new |-> Blank, saves |-> "nothing", queues |-> {}]

TypeOK ==
  /\ IsFile(file, IsText)
  /\ form \in [Editors -> Text \cup {<<>>}]
  /\ \A c \in Clients : /\ job[c].at \in {"idle", "writing", "filling"}
                        /\ IsFile(job[c].new, IsText)
                        /\ job[c].saves \in Edits \cup {"initial", "error", "nothing"}
                        /\ job[c].queues \subseteq Missions
  /\ saved \in Edits \cup {"initial", "error"}
  /\ queued \subseteq Missions
  /\ mishaps \subseteq {"overlap", "brace", "kill", "old list"}

Resting == \A c \in Clients : job[c].at = "idle"

\* Two requests that write are under way at once.
Overlap == IF Resting THEN {} ELSE {"overlap"}

\* An overlap covers all else.
Mishaps(more) == IF "overlap" \in mishaps \cup more THEN {"overlap"} ELSE mishaps \cup more

\* What is asked for is followed until requests that write overlap.
Writing(c, new, saves, queues) ==
  IF "overlap" \in mishaps \cup Overlap
  THEN /\ job' = [d \in Clients |->
                     IF d = c THEN [NoJob EXCEPT !.at = "writing", !.new = new]
                     ELSE [job[d] EXCEPT !.saves = "nothing", !.queues = {}]]
       /\ saved' = "initial" /\ queued' = {}
  ELSE /\ job' = [job EXCEPT ![c] = [at |-> "writing", new |-> new,
                                     saves |-> saves, queues |-> queues]]
       /\ UNCHANGED <<saved, queued>>

-----------------------------------------------------------------------------
(* The Settings page                                                       *)

\* The page is opened. An error answer is JSON too, and becomes the form: that
\* of a file that does not parse, or that cannot be read.
Load(p) ==
  /\ job[p].at = "idle"
  /\ \/ IsWhole(file) /\ form' = [form EXCEPT ![p] = file.text]
     \/ form' = [form EXCEPT ![p] = ErrorForm]
  /\ UNCHANGED <<file, job, saved, queued, mishaps>>

\* A field typed into the error form does not bring the other settings back.
Edit(p, edit) ==
  /\ form[p] \notin {<<>>, ErrorForm}
  /\ form' = [form EXCEPT ![p].settings = edit]
  /\ UNCHANGED <<file, job, saved, queued, mishaps>>

\* Save posts the whole form, mission queue included.
Save(p) ==
  /\ job[p].at = "idle"
  /\ form[p] # <<>>
  /\ Writing(p, Whole(form[p]), form[p].settings, ToSet(form[p].queue))
  /\ mishaps' = Mishaps(Overlap)
  /\ UNCHANGED <<file, form>>

-----------------------------------------------------------------------------
(* mutate_queue                                                            *)

\* Fault: a mission is added although it is in the queue.
AddedAgain(queue, m) == Append(queue, m)

Added(queue, m) == IF Contains(queue, m) THEN queue ELSE Append(queue, m)

Removed(queue, m) == RemoveFirst(queue, m)

\* Fault: the block is taken for the whole file.
BlockOnly(text, queue) == Whole([settings |-> "nothing", queue |-> queue])

\* Fault: the old block is taken to end with its first mission.
LeavesRest(text, queue) ==
  IF text.queue # <<>> THEN Torn ELSE Whole([text EXCEPT !.queue = queue])

HasBrace(queue) == ToSet(queue) \cap Braced # {}

\* The old block is taken to end at its first }: one in a mission's name leaves
\* the rest of the block behind the new one.
Rewritten(text, queue) ==
  IF HasBrace(text.queue) THEN Torn
  ELSE Whole([text EXCEPT !.queue = queue])

\* A request reads and parses the file; it fails on a file that does not parse
\* or has no queue, and adding a queued mission writes nothing.
Mutate(c, queue, queues) ==
  /\ job[c].at = "idle"
  /\ IsWhole(file) /\ file.text.settings # "error"
  /\ Writing(c, Rewritten(file.text, queue), "nothing", queues)
  /\ mishaps' = Mishaps(Overlap \cup (IF HasBrace(file.text.queue) THEN {"brace"} ELSE {}))
  /\ UNCHANGED <<file, form>>

AddToQueue(c, m) ==
  /\ IsWhole(file) /\ Added(file.text.queue, m) # file.text.queue
  /\ Mutate(c, Added(file.text.queue, m), queued \cup {m})

RemoveFromQueue(c, m) ==
  /\ IsWhole(file)
  /\ Mutate(c, Removed(file.text.queue, m), queued \ {m})

-----------------------------------------------------------------------------
(* Writing                                                                 *)

Truncate(c) ==
  /\ job[c].at = "writing"
  /\ file' = Blank
  /\ job' = [job EXCEPT ![c].at = "filling"]
  /\ UNCHANGED <<form, saved, queued, mishaps>>

\* The file cannot be opened, or the client is gone before it is.
GiveUp(c) ==
  /\ job[c].at = "writing"
  /\ job' = [job EXCEPT ![c] = NoJob]
  /\ UNCHANGED <<file, form, saved, queued, mishaps>>

\* The history of what is asked for: a save asks for its settings, a queue
\* action for a queue. A save may write another list than was asked for, the
\* one its page loaded.
Record(done) ==
  IF done.saves = "nothing"
  THEN queued' = done.queues /\ UNCHANGED <<saved, mishaps>>
  ELSE /\ saved' = done.saves
       /\ mishaps' = Mishaps(IF done.queues = queued THEN {} ELSE {"old list"})
       /\ UNCHANGED queued

\* Runs to its end also when the client is gone.
Fill(c) ==
  /\ job[c].at = "filling"
  /\ file' \in Overwritten(file, job[c].new)
  /\ IF "overlap" \in mishaps THEN UNCHANGED <<saved, queued, mishaps>> ELSE Record(job[c])
  /\ job' = [job EXCEPT ![c] = NoJob]
  /\ UNCHANGED form

\* The dashboard is killed; between truncating and filling, the text is gone.
Crash ==
  /\ ~Resting
  /\ job' = [c \in Clients |-> NoJob]
  /\ mishaps' = Mishaps(IF \E c \in Clients : job[c].at = "filling" THEN {"kill"} ELSE {})
  /\ UNCHANGED <<file, form, saved, queued>>

-----------------------------------------------------------------------------
Init ==
  /\ file = Whole([settings |-> "initial", queue |-> <<>>])
  /\ form = [p \in Editors |-> <<>>]
  /\ job = [c \in Clients |-> NoJob]
  /\ saved = "initial"
  /\ queued = {}
  /\ mishaps = {}

Next ==
  \/ \E p \in Editors : Load(p) \/ Save(p) \/ \E edit \in Edits : Edit(p, edit)
  \/ \E c \in Admins, m \in Missions : AddToQueue(c, m) \/ RemoveFromQueue(c, m)
  \/ \E c \in Clients : Truncate(c) \/ GiveUp(c) \/ Fill(c)
  \/ Crash

Spec == Init /\ [][Next]_vars

-----------------------------------------------------------------------------
(* Properties                                                              *)

\* No mission is queued twice, in the file or in a form, whatever interleaves
\* with the check of mutate_queue.
NoDuplicates ==
  /\ IsWhole(file) => IsInjective(file.text.queue)
  /\ \A p \in Editors : form[p] # <<>> => IsInjective(form[p].queue)

\* A queue action rewrites "only that block": as long as requests that write
\* came one at a time, the file's settings are those saved last, whatever old
\* forms, queue actions, given up and killed writes came between.
SettingsAreKept ==
  Resting /\ IsWhole(file) /\ "overlap" \notin mishaps =>
    file.text.settings = saved

\* Nobody has saved a page that had loaded another list than was asked for.
NoOldList == "old list" \notin mishaps

\* ... and, as long as no save has put an old list back as well, its queue holds
\* exactly the missions that the queue actions asked for.
QueueIsAsAsked ==
  Resting /\ IsWhole(file) /\ "overlap" \notin mishaps /\ NoOldList =>
    ToSet(file.text.queue) = queued

\* "The file stays diff-stable and DCS-compatible": between requests it parses,
\* unless requests overlapped, one was killed as it wrote, or a queue action met
\* a } in the name of a queued mission.
FileIsReadable == Resting /\ mishaps \subseteq {"old list"} => IsWhole(file)

\* A queue action leaves the settings as they were saved, and a save leaves the
\* queue as it was asked for if its page has the list that is in the file
\* (mutate_queue, serialize_settings). Any other save does not, QueueIsKept.
FileIsAsAsked == SettingsAreKept /\ QueueIsAsAsked

\* Missions that were queued one request at a time stay queued until a queue
\* action removes them, and those removed stay so: a save of settings is no
\* queue action (features.md:102, "edit the underlying serverSettings.lua file
\* safely"). It does not hold, as a save posts the list its page loaded, or none
\* if what it loaded is an error.
QueueIsKept ==
  Resting /\ IsWhole(file) /\ "overlap" \notin mishaps => ToSet(file.text.queue) = queued
=================================================================================
