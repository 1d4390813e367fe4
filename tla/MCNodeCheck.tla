---------------------------- MODULE MCNodeCheck ----------------------------
(***************************************************************************)
(* Node checks on two nodes, of which one may have lost its GPUs.          *)
(***************************************************************************)
EXTENDS NodeCheck

CONSTANTS n1, n2

TwoNodes == {n1, n2}
OneOrBoth == SUBSET TwoNodes \ {{}}

(* In the states considered the pods of at most MaxUnwaited kinds were not *)
(* waited for.                                                             *)
MaxUnwaited == 1
FewUnwaited == Cardinality(unwaited) <= MaxUnwaited

=============================================================================
