-------------------------------- MODULE AuditLog --------------------------------
(***************************************************************************)
(* The audit trail of Discord logins: exchange_and_verify                  *)
(* (rust-web-dashboard/src/routes/auth.rs) asks Discord who the user is,   *)
(* records the outcome by rewriting one JSON file without a lock           *)
(* (append_audit in src/auth.rs), and then issues a session token. A log   *)
(* that does not parse counts as an empty one.                             *)
(*                                                                         *)
(* An entry is the number of its login in the order of their timestamps.   *)
(***************************************************************************)
EXTENDS Naturals, Sequences, SequencesExt, SharedFile

CONSTANTS
  Requests,   \* logins at a time
  MaxLogs,    \* MAX_AUDIT_LOGS
  MaxEntries  \* bound: logins that get recorded

LimitAssumption == MaxLogs \in Nat \ {0}

VARIABLES
  file,   \* the audit log, newest entry first
  login,  \* login[r]: a request, its entry and the log it is to write
  clock,  \* timestamps given out
  turns   \* history: whether logins were recorded one at a time

vars == <<file, login, clock, turns>>

Idle == [at |-> "idle", entry |-> 0, status |-> "none", logs |-> <<>>]

TypeOK ==
  /\ IsFile(file, LAMBDA logs : logs \in Seq(Nat) /\ Len(logs) <= MaxLogs)
  /\ \A r \in Requests :
       /\ login[r].at \in {"idle", "discord", "entry", "writing", "filling", "verdict"}
       /\ login[r].entry \in Nat
       /\ login[r].status \in {"none", "SUCCESS", "REJECTED"}
       /\ login[r].logs \in Seq(Nat) /\ Len(login[r].logs) <= MaxLogs
  /\ clock \in Nat
  /\ turns \in {"taken", "mixed up"}

Recording(r) == login[r].at \in {"entry", "writing", "filling"}

-----------------------------------------------------------------------------
(* exchange_and_verify                                                     *)

\* Discord redirects the browser back with a code.
Callback(r) ==
  /\ login[r].at = "idle"
  /\ login' = [login EXCEPT ![r] = [Idle EXCEPT !.at = "discord"]]
  /\ UNCHANGED <<file, clock, turns>>

\* The user is no member, lacks the role, or is let in: AuditLog::new.
Verify(r, status) ==
  /\ login[r].at = "discord"
  /\ clock < MaxEntries
  /\ turns' = IF \E s \in Requests : Recording(s) THEN "mixed up" ELSE turns
  /\ clock' = clock + 1
  /\ login' = [login EXCEPT ![r] = [Idle EXCEPT !.at = "entry", !.entry = clock + 1,
                                    !.status = status]]
  /\ UNCHANGED file

\* A request to Discord fails; nothing is recorded, no token is issued.
DiscordFails(r) ==
  /\ login[r].at = "discord"
  /\ login' = [login EXCEPT ![r] = Idle]
  /\ UNCHANGED <<file, clock, turns>>

\* A token for a success, an error for a rejection.
Respond(r) ==
  /\ login[r].at = "verdict"
  /\ login' = [login EXCEPT ![r] = Idle]
  /\ UNCHANGED <<file, clock, turns>>

-----------------------------------------------------------------------------
(* append_audit                                                            *)

Capped(logs) == IF Len(logs) > MaxLogs THEN SubSeq(logs, 1, MaxLogs) ELSE logs

\* Fault: the log is cut before the entry is put in.
CutFirst(logs, entry) == <<entry>> \o Capped(logs)

\* Fault: the newest entry goes to the end, where the cut may take it.
AtTheEnd(logs, entry) == Capped(Append(logs, entry))

Inserted(logs, entry) == Capped(<<entry>> \o logs)

\* A log that cannot be parsed is taken for an empty one.
Parsed == IF IsWhole(file) THEN file.text ELSE <<>>

Read(r) ==
  /\ login[r].at = "entry"
  /\ login' = [login EXCEPT ![r].at = "writing",
                            ![r].logs = Inserted(Parsed, login[r].entry)]
  /\ UNCHANGED <<file, clock, turns>>

Truncate(r) ==
  /\ login[r].at = "writing"
  /\ file' = Blank
  /\ login' = [login EXCEPT ![r].at = "filling"]
  /\ UNCHANGED <<clock, turns>>

Fill(r) ==
  /\ login[r].at = "filling"
  /\ file' \in Overwritten(file, Whole(login[r].logs))
  /\ login' = [login EXCEPT ![r].at = "verdict"]
  /\ UNCHANGED <<clock, turns>>

\* The log cannot be read or opened: that is logged, and the login goes on.
RecordFails(r) ==
  /\ login[r].at \in {"entry", "writing"}
  /\ login' = [login EXCEPT ![r].at = "verdict"]
  /\ UNCHANGED <<file, clock, turns>>

\* The browser is gone before the write has started.
Dropped(r) ==
  /\ login[r].at \in {"discord", "entry", "writing"}
  /\ login' = [login EXCEPT ![r] = Idle]
  /\ UNCHANGED <<file, clock, turns>>

\* Killed while the file is blank, the dashboard has lost the log.
Crash ==
  /\ login' = [r \in Requests |-> Idle]
  /\ UNCHANGED <<file, clock, turns>>

-----------------------------------------------------------------------------
Init ==
  /\ file = Whole(<<>>)
  /\ login = [r \in Requests |-> Idle]
  /\ clock = 0
  /\ turns = "taken"

Next ==
  \/ \E r \in Requests :
       \/ Callback(r) \/ DiscordFails(r) \/ Respond(r)
       \/ \E status \in {"SUCCESS", "REJECTED"} : Verify(r, status)
       \/ Read(r) \/ Truncate(r) \/ Fill(r) \/ RecordFails(r) \/ Dropped(r)
  \/ Crash

Spec == Init /\ [][Next]_vars

-----------------------------------------------------------------------------
(* Properties                                                              *)

\* "Append an audit entry": the log behaves as LoginTrail says, over failed and
\* dropped writes and crashes. An entry is taken for recorded when the file is
\* truncated for it, and the file for what it is about to hold.
Filling == {r \in Requests : login[r].at = "filling"}
Trail == INSTANCE LoginTrail WITH
  trail <- IF Filling = {} THEN Parsed ELSE login[CHOOSE r \in Filling : TRUE].logs,
  writing <- Filling # {}, Limit <- MaxLogs
EntriesAreAppended == Trail!Spec

\* The records are "newest-first in the log file", by their timestamps, as long
\* as logins are recorded one at a time; no entry is there twice even if not.
NewestFirst ==
  \A i, j \in DOMAIN Parsed : i < j =>
    IF turns = "taken" THEN Parsed[i] > Parsed[j] ELSE Parsed[i] # Parsed[j]
===============================================================================
