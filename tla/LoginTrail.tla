------------------------------- MODULE LoginTrail -------------------------------
(***************************************************************************)
(* What the audit log of logins promises: a list of the newest entries,    *)
(* newest first, which grows by one entry at a time and is cut at a limit. *)
(* A dashboard that is killed while it writes may lose the list, and once  *)
(* two logins have been recorded at a time nothing is promised.            *)
(***************************************************************************)
EXTENDS Naturals, Sequences

CONSTANT Limit

VARIABLES
  trail,    \* the entries, newest first
  writing,  \* is one being written?
  turns     \* "taken" until logins are recorded at the same time

trailVars == <<trail, writing, turns>>

Init == trail = <<>> /\ writing = FALSE /\ turns = "taken"

\* An entry newer than all the others comes first; the oldest may have to go.
Record(entry) ==
  /\ ~writing /\ writing' = TRUE
  /\ \A i \in DOMAIN trail : trail[i] < entry
  /\ Head(trail') = entry
  /\ Tail(trail') = IF Len(trail) < Limit THEN trail ELSE SubSeq(trail, 1, Limit - 1)
  /\ UNCHANGED turns

Written == writing /\ writing' = FALSE /\ UNCHANGED <<trail, turns>>
Lose == writing /\ writing' = FALSE /\ trail' = <<>> /\ UNCHANGED turns
MixUp == turns' = "mixed up" /\ UNCHANGED <<trail, writing>>
Unpromised == turns = "mixed up" /\ UNCHANGED turns

Next ==
  \/ turns = "taken" /\ (Written \/ Lose \/ MixUp)
  \/ turns = "taken" /\ trail' # <<>> /\ Record(Head(trail'))
  \/ Unpromised

Spec == Init /\ [][Next]_trailVars
=================================================================================
