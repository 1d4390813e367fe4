--------------------------- MODULE BandwidthPlan ----------------------------
(***************************************************************************)
(* The RDMA bandwidth jobs of a run: expandRDMAJobs and                    *)
(* expandEFABandwidthJobs (pkg/controller/bandwidth.go) replace the job    *)
(* "ib-write-bw" by jobs made from the topologies of the nodes; the        *)
(* fabric is resolved by ResolveRDMAType (pkg/checks/rdma/devices.go).     *)
(*                                                                         *)
(* topos maps the nodes whose topology is known to [pairs, nics], where    *)
(* nics[d] is the fabric of the node's device d and pairs has the GPU and  *)
(* the device of each pair.                                                *)
(*                                                                         *)
(* A job starts, on a node that serves as well as on one that is client,   *)
(* one process for each lane of that node; the process of lane i uses port *)
(* 18515 + i - 1, so that equal positions talk to each other.              *)
(***************************************************************************)
EXTENDS Sorting, Functions

Lane(p) == [gpu |-> p.gpu, dev |-> p.dev]

LowerGpu(a, b) == a.gpu < b.gpu \/ (a.gpu = b.gpu /\ a.dev < b.dev)

ByGpu(lanes) == Sorted(lanes, LowerGpu)

Lanes(topo) == {Lane(p) : p \in topo.pairs}

(* topo.Pairs, which are sorted by GPU and device. *)
PairSeq(topo) == ByGpu(Lanes(topo))

Plan(jobs, skips) == [jobs |-> jobs, skips |-> skips]

-----------------------------------------------------------------------------
(* ResolveRDMAType: the configured type, or the only fabric of the paired  *)
(* NICs, if it is one that can be tested; "none" is an error.              *)

(* What jobs.rdma_type may say, other than nothing (platform.go:105).      *)
Fabrics == {"ib", "roce", "srd"}

PairedFabrics(topos) ==
  UNION {{topos[n].nics[p.dev] : p \in topos[n].pairs} : n \in DOMAIN topos}

ResolveRDMAType(configured, topos) ==
  IF configured # "" THEN configured
  ELSE IF PairedFabrics(topos) \subseteq Fabrics /\ Cardinality(PairedFabrics(topos)) = 1
       THEN CHOOSE f \in PairedFabrics(topos) : TRUE
       ELSE "none"

-----------------------------------------------------------------------------
(* EFA: one PD job for each GPU, with all of its NICs on every node.       *)

(* Faulty variant: the last pair of the GPU replaces the ones before it. *)
LanesOfLastPair(topo, gpu) ==
  ByGpu({l \in Lanes(topo) : /\ l.gpu = gpu
                             /\ \A p \in topo.pairs : p.gpu = gpu => p.dev <= l.dev})

LanesOf(topo, gpu) == ByGpu({l \in Lanes(topo) : l.gpu = gpu})

GpusOf(topos, nodes) == UNION {{p.gpu : p \in topos[n].pairs} : n \in nodes}

(* A whole-run SKIP: a node without topology, without pairs or with a      *)
(* device in two pairs; or its pods would see fewer EFA devices than it    *)
(* needs.  efa[n] is the count that AutoEFACount gives, 0 if the node      *)
(* cannot be read or its GPUs are not known.                               *)
Unfit(topos, n, efa) ==
  \/ n \notin DOMAIN topos
  \/ topos[n].pairs = {}
  \/ Cardinality({p.dev : p \in topos[n].pairs}) < Cardinality(topos[n].pairs)
  \/ efa[n] < Cardinality(topos[n].pairs)

(* Faulty variant: any node with NICs for the GPU will do. *)
CompatibleIfPresent(topos, nodes, gpu) ==
  \A n \in nodes : LanesOf(topos[n], gpu) # <<>>

Compatible(topos, nodes, gpu) ==
  \A n, m \in nodes : /\ LanesOf(topos[n], gpu) # <<>>
                      /\ Len(LanesOf(topos[n], gpu)) = Len(LanesOf(topos[m], gpu))

(* The WEP job takes all lanes, GPU by GPU. *)
WepLanes(topo) == PairSeq(topo)

ExpandEFA(nodes, topos, efa) ==
  LET gpus == GpusOf(topos, nodes)
      good == {g \in gpus : Compatible(topos, nodes, g)}
      pd(g) == [kind |-> "PD", fabric |-> "srd",
                lanes |-> [n \in nodes |-> LanesOf(topos[n], g)]]
      wep == [kind |-> "WEP", fabric |-> "srd", lanes |-> [n \in nodes |-> WepLanes(topos[n])]]
      wide == good = gpus /\ \A n \in nodes : Len(wep.lanes[n]) > 1
  IN  IF \E n \in nodes : Unfit(topos, n, efa) THEN Plan({}, {<<"efa", 0>>})
      ELSE Plan({pd(g) : g \in good} \cup (IF wide THEN {wep} ELSE {}),
                {<<"gpu", g>> : g \in gpus \ good} \cup (IF wide THEN {} ELSE {<<"wep", 0>>}))

-----------------------------------------------------------------------------
(* InfiniBand and RoCE: one PD job for each pair of one topology, and a    *)
(* WEP job for its devices, each with the first GPU that uses it.  Every   *)
(* node runs with the same arguments.                                      *)

WepOfDevices(topo) ==
  LET pairs == PairSeq(topo)
      first == Ascending({i \in DOMAIN pairs : \A j \in 1 .. i - 1 :
                                                 pairs[j].dev # pairs[i].dev})
  IN  [i \in DOMAIN first |-> pairs[first[i]]]

ExpandIB(nodes, topo, fabric) ==
  LET same(lanes) == [n \in nodes |-> lanes]
      pd(l) == [kind |-> "PD", fabric |-> fabric, lanes |-> same(<<l>>)]
      wep == [kind |-> "WEP", fabric |-> fabric, lanes |-> same(WepOfDevices(topo))]
  IN  Plan({pd(Lane(p)) : p \in topo.pairs}
             \cup (IF Len(WepOfDevices(topo)) > 1 THEN {wep} ELSE {}), {})

-----------------------------------------------------------------------------
(* The placeholder itself: the tool picks a device, and no GPU is used.    *)
DefaultJob(nodes) ==
  [kind |-> "default", fabric |-> "any", lanes |-> [n \in nodes |-> <<>>]]

(* expandRDMAJobs.  "some" is the node whose topology the map yields first;*)
(* the fabric is resolved from the nodes of the run, the ones selected.    *)
ExpandRDMA(nodes, topos, some, configured, efa) ==
  LET selected == [n \in nodes \cap DOMAIN topos |-> topos[n]]
      fabric == ResolveRDMAType(configured, selected)
  IN  IF topos[some].pairs = {} \/ fabric = "none" THEN Plan({}, {<<"rdma", 0>>})
      ELSE IF fabric = "srd" THEN ExpandEFA(nodes, selected, efa)
      ELSE ExpandIB(nodes, topos[some], fabric)

(* Without any topology the jobs are left as they are registered. *)
ExpandRDMAJobs(nodes, topos, some, configured, efa) ==
  IF DOMAIN topos = {} THEN Plan({DefaultJob(nodes)}, {})
  ELSE ExpandRDMA(nodes, topos, some, configured, efa)

=============================================================================
