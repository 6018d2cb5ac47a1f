--------------------------------- MODULE Filter ---------------------------------
(***************************************************************************)
(* Array.prototype.filter of the dashboard's lists, by the places of what  *)
(* it keeps: no recursion, so that proofs can expand it.                   *)
(***************************************************************************)
EXTENDS Integers, FiniteSets, Sequences

\* The entries of s that are in S, in their order.
Filtered(s, S) ==
  LET kept == {i \in 1..Len(s) : s[i] \in S}
      Nth(k) == CHOOSE i \in kept : Cardinality(kept \cap (1..i)) = k
  IN  [k \in 1..Cardinality(kept) |-> s[Nth(k)]]
=================================================================================
