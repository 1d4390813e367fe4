------------------------------- MODULE MCMesh -------------------------------
(***************************************************************************)
(* Meshes of two and three nodes.                                          *)
(***************************************************************************)
EXTENDS Mesh

ThreeNodes == 1 .. 3

(* Two nodes with the same two NICs in the same order, and a third one     *)
(* whose topology is missing.                                              *)
SameRails == 1 :> <<"a", "b">> @@ 2 :> <<"a", "b">>

(* Nodes whose NICs are in a different order, one of them with a name that *)
(* is not used.                                                            *)
CrossedRails == 1 :> <<"a", "b">> @@ 2 :> <<"b", "x", "a">>

(* Unequal numbers of NICs, of which two GPUs share one, and a third node  *)
(* without a usable NIC.                                                   *)
UnequalRails == 1 :> <<"a", "b">> @@ 2 :> <<"b", "b">> @@ 3 :> <<"x">>

(* Three node pairs, in three rounds, with one NIC pair each; the GPUs of  *)
(* the second node share their NIC.                                        *)
ThreePairs == 1 :> <<"a">> @@ 2 :> <<"a", "a">> @@ 3 :> <<"b">>

Clusters == {SameRails, CrossedRails, UnequalRails, ThreePairs}

=============================================================================
