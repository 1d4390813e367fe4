---------------------------- MODULE MCTopologies ----------------------------
(***************************************************************************)
(* Two nodes.  PCIe machines: every place of up to three GPUs and NICs in  *)
(* a tree with two NUMA nodes, the first with two switches, or without a   *)
(* known path; both nodes are alike.  Flat machines: every spread over two *)
(* NUMA nodes, beside a node with a PCIe tree.  And pairs of nodes that    *)
(* differ in the devices, in the fabric or in the group of a GPU.          *)
(***************************************************************************)
EXTENDS Topologies, SequencesExt

CONSTANTS n1, n2

ASSUME SortedAgrees ==
  \A S \in SUBSET (1 .. 5) : /\ Sorted(S, <) = SetToSortSeq(S, <)
                            /\ Sorted(S, >) = SetToSortSeq(S, >)

Place(numa, path) == [numa |-> numa, path |-> path]
SwitchA == Place(0, <<1, 2>>)
SwitchB == Place(0, <<1, 3>>)
SwitchC == Place(1, <<4, 5>>)
NoPath0 == Place(0, <<>>)
NoPath1 == Place(1, <<>>)
Hidden == Place(-1, <<>>)

(* A device at a place has a segment of its own at the end of its path. *)
At(place, own) ==
  [numa |-> place.numa, path |-> IF place.path = <<>> THEN <<>> ELSE Append(place.path, own)]
Gpu(place, g) == At(place, 10 + g)
Nic(place, c, fabric) ==
  LET d == At(place, 20 + c)
  IN  [numa |-> d.numa, path |-> d.path, dev |-> c, fabric |-> fabric]

MachineAt(gpus, nics, fabric) ==
  [gpus |-> [g \in DOMAIN gpus |-> Gpu(gpus[g], g)],
   nics |-> [c \in DOMAIN nics |-> Nic(nics[c], c, fabric)]]

Machines(places, g, c, fabric) ==
  {MachineAt(gpus, nics, fabric) : gpus \in [1 .. g -> places], nics \in [1 .. c -> places]}

Cluster(rdmaType, first, second) ==
  [rdmaType |-> rdmaType, machine |-> (n1 :> first @@ n2 :> second)]

Tree == {SwitchA, SwitchB, SwitchC, NoPath0}
Trees(g, c, fabric) == {m \in Machines(Tree, g, c, fabric) : ~Flat(m)}
Twins ==
  {Cluster("", m, m) :
     m \in Trees(2, 2, "ib") \cup Trees(3, 2, "ib") \cup Trees(2, 3, "ib")}
    \cup {Cluster("srd", m, m) : m \in Trees(2, 3, "srd")}

PCIe(fabric) == MachineAt(<<SwitchA, SwitchC>>, <<SwitchA, SwitchC>>, fabric)
Numa == {NoPath0, NoPath1}
FlatMachines ==
  (UNION {Machines(Numa, s[1], s[2], "roce") : s \in {<<2, 2>>, <<2, 1>>, <<1, 2>>}})
    \cup Machines({NoPath0}, 3, 2, "roce") \cup Machines({NoPath0}, 2, 3, "roce")
FlatBesides ==
  {Cluster("", m, PCIe("roce")) : m \in FlatMachines}
    \cup {Cluster("", m, m) : m \in Machines({NoPath0}, 1, 2, "roce")}

(* GPU 1 has two NICs and GPU 2 has one, or the other way round. *)
Uneven == {<<SwitchA, SwitchA, SwitchC>>, <<SwitchA, SwitchC, SwitchC>>}
EfaMachine(nics) == MachineAt(<<SwitchA, SwitchC>>, nics, "srd")
Mixed ==
  {Cluster(t, EfaMachine(a), EfaMachine(b)) : t \in {"", "srd"}, a \in Uneven, b \in Uneven}
    \cup {Cluster("srd", EfaMachine(a), PCIe("srd")) : a \in Uneven}
    \cup {Cluster(t, PCIe("ib"), PCIe("roce")) : t \in {"", "ib"}}
    \cup {Cluster("", PCIe(f), PCIe("Unknown")) : f \in {"Unknown", "ib"}}
    \cup {Cluster("", PCIe("ib"), MachineAt(<<SwitchB, SwitchA>>, <<SwitchA, SwitchB, SwitchC>>, "ib"))}

HardwareOf(kind) ==
  CASE kind = "numa_known" -> Twins \cup FlatBesides \cup Mixed
    [] kind = "numa_hidden" ->
         {Cluster("", m, m) : m \in Machines({Hidden}, 2, 1, "ib")}

CONSTANT Kind
MCClusters == HardwareOf(Kind)
=============================================================================
