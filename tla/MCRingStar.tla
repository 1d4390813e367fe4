----------------------------- MODULE MCRingStar -----------------------------
(***************************************************************************)
(* Two jobs on a ring of three nodes, from node 3 to the others, or from   *)
(* node 3 to node 2 and itself.                                            *)
(***************************************************************************)
EXTENDS RingStar

ThreeNodes == 1 .. 3
Ring == <<1, 2, 3>>
RingOrStar ==
  { [server |-> NoNode, clients |-> {}],
    [server |-> 3, clients |-> {}],
    [server |-> 3, clients |-> {2, 3}] }

(* The calls of the ring, and of the stars that node 3 serves.             *)
Groups3 == {<<1, {2}>>, <<2, {3}>>, <<3, {1}>>, <<3, {1, 2}>>, <<3, {2, 3}>>}
Tuples == {<<g[1], g[2], j>> : g \in Groups3, j \in 1 .. 2}
ServerOf == [t \in Tuples |-> t[1]]
ClientsOf == [t \in Tuples |-> t[2]]

(* In the states considered at most MaxLeft pods are left behind, all of   *)
(* the first group's calls.                                                *)
MaxLeft == 1
FewLeft == Cardinality(left) <= MaxLeft /\ \A p \in left : p[1] \in {CallAt(1), CallAt(2)}

=============================================================================
