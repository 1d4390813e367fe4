----------------------------- MODULE Topologies -----------------------------
(***************************************************************************)
(* From the hardware of the nodes to the RDMA bandwidth jobs of a run: the *)
(* topology check of each node pairs GPUs and NICs (TopologyCheck.Run),    *)
(* the controller reads what arrives of it (checks.ExtractTopology), has   *)
(* the guessed pairs measured (phases.go:64-104), and makes the jobs       *)
(* (bandwidth.go).  Pairing and BandwidthPlan have the algorithms.         *)
(***************************************************************************)
EXTENDS Pairing, BandwidthPlan

CONSTANTS
  Nodes,
  Clusters,    \* the clusters considered: [rdmaType, machine]
  Speeds,      \* what the probe may measure, 0 if it cannot
  EfaCounts    \* the values of AutoEFACount considered

ASSUME TopologiesAssumption ==
  /\ IsFiniteSet(Nodes)
  /\ \A c \in Clusters : c.rdmaType \in {""} \cup Fabrics /\ c.machine \in [Nodes -> Hardware]
  /\ Speeds \subseteq Nat

VARIABLES
  cluster,   \* jobs.rdma_type and the hardware of each node
  stage,     \* "check", "collect", "probe", "plan", "done"
  topology,  \* topology[n]: what the check of node n found, then what was measured
  arrived,   \* nodes whose report the controller has
  measured,  \* measured[n]: the bandwidths its probe reported
  unprobed,  \* nodes whose probe is not over
  plan       \* the jobs and the SKIP rows

vars == <<cluster, stage, topology, arrived, measured, unprobed, plan>>

-----------------------------------------------------------------------------
(* discoverNICs keeps the NICs of the configured type. *)
Machine(n) ==
  LET nics == cluster.machine[n].nics
      kept == Ascending({i \in DOMAIN nics : cluster.rdmaType \in {"", nics[i].fabric}})
  IN  [cluster.machine[n] EXCEPT !.nics = [i \in DOMAIN kept |-> nics[kept[i]]]]

(* TopologyCheck.Run *)
StatusFor(m) ==
  IF Len(m.nics) = 0 \/ Len(m.gpus) > Len(m.nics) THEN "WARN" ELSE "PASS"

TopologyOf(m) ==
  LET strategy == Strategy(m, cluster.rdmaType)
  IN  [strategy |-> strategy, pairs |-> PairsBy(strategy, m), status |-> StatusFor(m)]

NoPlan == Plan({}, {})
NotMeasured == <<>>
NotChecked == [strategy |-> "none", pairs |-> {}, status |-> "none"]

(* GPUNICPair.UnmarshalJSON refuses a NUMA node -1, and ExtractTopology    *)
(* then knows no topology of the node.                                     *)
Readable(n) ==
  \A p \in topology[n].pairs :
    Machine(n).gpus[p.gpu].numa >= 0 /\ Machine(n).nics[p.nic].numa >= 0

Known == {n \in arrived : Readable(n)}

(* Faulty variant: also nodes whose report did not arrive. *)
ToProbeUnreported ==
  {n \in Nodes : topology[n].strategy = "numa_affinity" /\ topology[n].pairs # {}}

(* The nodes that deployLoopbackBWProbeJobs probes. *)
ToProbe ==
  {n \in Known : topology[n].strategy = "numa_affinity" /\ topology[n].pairs # {}}

(* What expandRDMAJobs sees of a node. *)
TopoOf(n) ==
  LET m == Machine(n)
  IN  [pairs |-> {[gpu |-> p.gpu, dev |-> m.nics[p.nic].dev] : p \in topology[n].pairs},
       nics |-> [d \in {m.nics[i].dev : i \in Nics(m)} |->
                   (CHOOSE c \in Range(m.nics) : c.dev = d).fabric]]

-----------------------------------------------------------------------------

Init ==
  /\ cluster \in Clusters
  /\ stage = "check"
  /\ topology = [n \in Nodes |-> NotChecked]
  /\ arrived = {}
  /\ measured = [n \in Nodes |-> NotMeasured]
  /\ unprobed = {}
  /\ plan = NoPlan

CheckNodes ==
  /\ stage = "check"
  /\ topology' = [n \in Nodes |-> TopologyOf(Machine(n))]
  /\ stage' = "collect"
  /\ UNCHANGED <<cluster, arrived, measured, unprobed, plan>>

(* The report of a node may be lost: its job failed, or its log. *)
Collect ==
  /\ stage = "collect"
  /\ arrived' \in SUBSET Nodes
  /\ UNCHANGED <<cluster, topology, measured, plan>>
  /\ unprobed' = ToProbe'
  /\ stage' = "probe"

(* ApplyBandwidthPairing for a node whose probe has results. *)
ProbeNode(n) ==
  /\ stage = "probe" /\ n \in unprobed
  /\ LET m == Machine(n)
     IN  \E bw \in [Gpus(m) \X Nics(m) -> Speeds] :
           /\ measured' = [measured EXCEPT ![n] = bw]
           /\ topology' = [topology EXCEPT
                ![n].pairs = BandwidthOptimalPairing(m, bw),
                ![n].strategy = "intra-host_bandwidth"]
  /\ unprobed' = unprobed \ {n}
  /\ UNCHANGED <<cluster, stage, arrived, plan>>

ProbeFails(n) ==
  /\ stage = "probe" /\ n \in unprobed
  /\ unprobed' = unprobed \ {n}
  /\ UNCHANGED <<cluster, stage, topology, arrived, measured, plan>>

(* Faulty variant: nodes are warned of only if no node was measured. *)
WarnedIfNoneMeasured(n) ==
  /\ n \in Known /\ topology[n].strategy = "numa_affinity" /\ Flat(Machine(n))
  /\ \A o \in Nodes : measured[o] = NotMeasured

(* WarnUnpairedFlatNodes *)
Warned(n) ==
  n \in Known /\ topology[n].strategy = "numa_affinity" /\ Flat(Machine(n))

EndProbe ==
  /\ stage = "probe" /\ unprobed = {}
  /\ topology' = [n \in Nodes |->
       IF Warned(n) THEN [topology[n] EXCEPT !.status = "WARN"] ELSE topology[n]]
  /\ stage' = "plan"
  /\ UNCHANGED <<cluster, arrived, measured, unprobed, plan>>

MakePlan ==
  /\ stage = "plan"
  /\ \E some \in (IF Known = {} THEN Nodes ELSE Known), efa \in [Nodes -> EfaCounts] :
       plan' = ExpandRDMAJobs(Nodes, [n \in Known |-> TopoOf(n)], some, cluster.rdmaType, efa)
  /\ stage' = "done"
  /\ UNCHANGED <<cluster, topology, arrived, measured, unprobed>>

Next ==
  \/ CheckNodes \/ Collect \/ EndProbe \/ MakePlan
  \/ \E n \in Nodes : ProbeNode(n) \/ ProbeFails(n)

Spec == Init /\ [][Next]_vars

-----------------------------------------------------------------------------
Strategies == {"none", "numa_affinity", "multi_nic_pcie", "pcie_distance",
               "numa_load_balance", "intra-host_bandwidth"}

(* The pairs of a node, as the lanes of jobs. *)
PairsOf(n) == TopoOf(n).pairs

TypeOK ==
  /\ cluster \in Clusters
  /\ stage \in {"check", "collect", "probe", "plan", "done"}
  /\ \A n \in Nodes :
       /\ topology[n].strategy \in Strategies
       /\ topology[n].status \in {"none", "PASS", "WARN"}
       /\ \A p \in topology[n].pairs : p.gpu \in Gpus(Machine(n)) /\ p.nic \in Nics(Machine(n))
  /\ arrived \subseteq Nodes /\ unprobed \subseteq Known
  /\ \A j \in plan.jobs : DOMAIN j.lanes = Nodes

(* Whatever the hardware looks like, however the pairs came about, and     *)
(* whether or not the probe replaced them: a machine with GPUs and NICs    *)
(* has each GPU in exactly one pair, or, if it has more NICs than GPUs and *)
(* all of them are wanted, each NIC in exactly one; and no NIC is shared   *)
(* when there are enough of them and the distance or the bandwidth decided *)
(* (topology.go:405-634, gpu_nic_lpbk_bw.go:154-283).                      *)
PairsComplete ==
  stage # "check" =>
    \A n \in Nodes :
      LET m == Machine(n)
          pairs == topology[n].pairs
          once(S, of(_)) == \A x \in S : Cardinality({p \in pairs : of(p) = x}) = 1
      IN  Len(m.gpus) > 0 /\ Len(m.nics) > 0 =>
            /\ IF topology[n].strategy = "multi_nic_pcie"
               THEN once(Nics(m), LAMBDA p : p.nic)
               ELSE once(Gpus(m), LAMBDA p : p.gpu)
            /\ /\ Len(m.gpus) <= Len(m.nics)
               /\ topology[n].strategy \in {"pcie_distance", "intra-host_bandwidth"}
               => Cardinality(PairedNics(pairs)) = Len(m.gpus)

(* The two phases of the distance pairing leave no GPU and NIC that would  *)
(* both be better off with each other: of any GPU and NIC that are not     *)
(* paired one has a partner that comes first, where a partner on the same  *)
(* NUMA node comes before any other, and the distance decides next         *)
(* (topology.go:519-576).                                                  *)
NoCloserPair ==
  \A n \in Nodes :
    topology[n].strategy = "pcie_distance" =>
      LET m == Machine(n)
          local(p) == SameNuma(m, p.gpu, p.nic)
          better(p, q) == IF local(p) = local(q) THEN Closer(p, q) ELSE local(p)
          offer(g, c) == PairOf(g, c, Dist(m, g, c) + (IF SameNuma(m, g, c) THEN 0
                                                       ELSE CrossNUMAPenalty))
      IN  \A g \in Gpus(m), c \in Nics(m) :
            \E p \in topology[n].pairs :
              (p.gpu = g \/ p.nic = c) /\ ~better(offer(g, c), p)

(* With more GPUs than NICs, no GPU leaves its NUMA node while that has a  *)
(* NIC, and the NICs of a NUMA node share its GPUs so that none has more   *)
(* than its share, rounded up: a NIC that is closest to all of them is not *)
(* given to all of them (topology.go:578-634).                             *)
Balanced ==
  \A n \in Nodes :
    topology[n].strategy = "numa_load_balance" =>
      LET m == Machine(n)
      IN  /\ \A p \in topology[n].pairs :
               SameNuma(m, p.gpu, p.nic) \/ NicsOn(m, m.gpus[p.gpu].numa) = {}
          /\ \A c \in Nics(m) :
               LET load == {p \in topology[n].pairs : p.nic = c /\ SameNuma(m, p.gpu, c)}
                   k == m.nics[c].numa
               IN  (Cardinality(load) - 1) * Cardinality(NicsOn(m, k))
                     < Cardinality(GpusOn(m, k))

(* A sum of natural numbers is the number of units that they have.         *)
Units(S, speed(_)) == UNION {{x} \X (1 .. speed(x)) : x \in S}
Total(S, speed(_)) == Cardinality(Units(S, speed))
Injections(S, T) == {f \in [S -> T] : \A x, y \in S : x # y => f[x] # f[y]}

(* What the greedy pairing by measured bandwidth is worth, against every   *)
(* other way to give each GPU a NIC of its own: never less than half of    *)
(* the best total, and the best total if each GPU is fastest with a NIC of *)
(* its own, the case for which the comment claims "optimal results"; with  *)
(* more GPUs than NICs no NIC is left out, and a GPU that could be         *)
(* measured gets a NIC it has no measurement for only if it need not share *)
(* that with another GPU that could be measured                            *)
(* (gpu_nic_lpbk_bw.go:148-283).                                           *)
ProbeQuality ==
  \A n \in {n \in Nodes : topology[n].strategy = "intra-host_bandwidth"} :
    LET m == Machine(n)
        bw == measured[n]
        pairs == topology[n].pairs
        total == Total(pairs, LAMBDA p : p.bw)
        best(f) == Total(Gpus(m), LAMBDA g : bw[<<g, f[g]>>])
        can(g) == \E c \in Nics(m) : bw[<<g, c>>] > 0
        dominant(f) == \A g \in Gpus(m) :
                         \A c \in Nics(m) \ {f[g]} : bw[<<g, c>>] < bw[<<g, f[g]>>]
    IN  IF Len(m.gpus) <= Len(m.nics)
        THEN \A f \in Injections(Gpus(m), Nics(m)) :
               best(f) <= 2 * total /\ (dominant(f) => best(f) <= total)
        ELSE /\ PairedNics(pairs) = Nics(m)
             /\ \A p \in pairs : p.bw = 0 /\ can(p.gpu) =>
                  \A q \in pairs \ {p} : q.nic = p.nic => ~can(q.gpu)

(* A pairing that was guessed from NUMA nodes is never reported as passed: *)
(* either it is replaced by one that was measured, or the probe failed,    *)
(* was skipped or never came to the node, and the result says WARN         *)
(* (topology_report.go:43-61, phases.go:64-104).                           *)
GuessNeverPasses ==
  \A n \in arrived :
    stage \in {"plan", "done"} /\ topology[n].strategy = "numa_affinity"
      => topology[n].status = "WARN"

(* The two ends of every job fit together, whichever node serves: as many  *)
(* lanes on each node, and at each position, which is a port, the same     *)
(* GPU; no device twice on one node; one fabric, the one that was resolved.*)
(* The lanes of an EFA job are pairs of the node itself                    *)
(* (bandwidth.go:58-192 and 194-346, efa_rma_bw_job.go:85-144).            *)
SameEndpoints ==
  \A j \in {j \in plan.jobs : j.kind # "default"} :
    /\ \A n, o \in Nodes :
         /\ Len(j.lanes[n]) = Len(j.lanes[o])
         /\ \A i \in DOMAIN j.lanes[n] : j.lanes[n][i].gpu = j.lanes[o][i].gpu
    /\ \A n \in Nodes : \A i, k \in DOMAIN j.lanes[n] :
         i # k => j.lanes[n][i].dev # j.lanes[n][k].dev
    /\ cluster.rdmaType \in {"", j.fabric}
    /\ j.fabric = "srd" => \A n \in Nodes : Range(j.lanes[n]) \subseteq PairsOf(n)
    /\ \E n \in Known : \A l \in PairsOf(n) : TopoOf(n).nics[l.dev] = j.fabric

(* "create one job per GPU-NIC pair so every NIC is tested": unless the    *)
(* whole test is skipped, with EFA each pair of each node is in exactly    *)
(* one PD job, or there is a SKIP row for its GPU; and if there is none,   *)
(* the WEP job, if any, has each of them.  With InfiniBand or RoCE the     *)
(* same holds of a node whose topology is known, and of all nodes with the *)
(* same pairs, and the WEP job has each device once: nodes with other      *)
(* devices are tested with the devices of that one                         *)
(* (bandwidth.go:56, 66-72, 129-160 and 283-345).                          *)
Tests(kind, n, l) == {j \in plan.jobs : j.kind = kind /\ l \in Range(j.lanes[n])}
PairTested(n, l) ==
  \/ Cardinality(Tests("PD", n, l)) = 1
  \/ <<"gpu", l.gpu>> \in plan.skips /\ Tests("PD", n, l) = {}
WepTested(n) ==
  \A j \in plan.jobs : j.kind = "WEP" =>
    \A l \in PairsOf(n) : \E i \in DOMAIN j.lanes[n] : j.lanes[n][i].dev = l.dev
AllTested(n) == WepTested(n) /\ \A l \in PairsOf(n) : PairTested(n, l)

EveryNICTested ==
  stage = "done" /\ Known # {} =>
    \/ plan.jobs = {}
    \/ Known = Nodes /\ \A n \in Nodes : AllTested(n)
    \/ /\ \A j \in plan.jobs : j.fabric # "srd"
       /\ \E n \in Known : \A o \in Known : PairsOf(o) = PairsOf(n) => AllTested(o)

(* "On VMs (NUMA hidden): GPU0<->mlx5_0(NUMA-1) ... The controller uses    *)
(* this mapping to set -d mlx5_X --use_cuda Y on RDMA bandwidth jobs"      *)
(* (README.md:209-215): if every report arrived and every node has pairs,  *)
(* no bandwidth job runs without a device and a GPU.                       *)
MappingReachesJobs ==
  arrived = Nodes /\ (\A n \in Nodes : topology[n].pairs # {}) =>
    \A j \in plan.jobs : j.kind # "default"

=============================================================================
