------------------------------- MODULE SharedFile -------------------------------
(***************************************************************************)
(* A file the dashboard rewrites in place with tokio::fs::write: created   *)
(* or truncated in one step, filled in a later one, with no lock. Another  *)
(* request, or a crash, can come between the two. What is blank or torn    *)
(* does not parse.                                                         *)
(***************************************************************************)

Whole(text) == [is |-> "whole", text |-> text]

\* Truncated and not filled.
Blank == [is |-> "blank"]

\* No text a writer composed as it should be: the end of a longer text behind
\* a shorter one, for example.
Torn == [is |-> "torn"]

IsFile(file, IsText(_)) ==
  \/ file \in {Blank, Torn}
  \/ file.is = "whole" /\ file = Whole(file.text) /\ IsText(file.text)

IsWhole(file) == file.is = "whole"

\* Writing new from the start of a file that another writer may have filled
\* since it was truncated.
Overwritten(file, new) == {new} \cup (IF file \in {Blank, new} THEN {} ELSE {Torn})
=================================================================================
