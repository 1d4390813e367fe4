------------------------------ MODULE Sorting -------------------------------
(***************************************************************************)
(* The slices that the code sorts.  Every comparison it sorts by is a      *)
(* strict total order of the elements, so that the result does not depend  *)
(* on the order they had before: it is a function of the set.  This is     *)
(* SetToSortSeq of the community modules with a definition in terms of     *)
(* sets, which can be reasoned about; MCTopologies compares the two.       *)
(***************************************************************************)
EXTENDS Integers, Sequences, FiniteSets

(* An element has as many elements before it as come before it. *)
Sorted(S, before(_, _)) ==
  LET rank == [x \in S |-> Cardinality({y \in S : before(y, x)})]
  IN  [i \in 1 .. Cardinality(S) |-> CHOOSE x \in S : rank[x] = i - 1]

Ascending(S) == Sorted(S, <)

=============================================================================
