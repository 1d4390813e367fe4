------------------------------ MODULE Pairing -------------------------------
(***************************************************************************)
(* Which RDMA NIC belongs to which GPU of a machine: the strategies of     *)
(* buildPairs (pkg/checks/rdma/topology.go) and, where they had to guess,  *)
(* BandwidthOptimalPairing (gpu_nic_lpbk_bw.go).                           *)
(*                                                                         *)
(* A machine m has sequences m.gpus and m.nics of devices [numa, path]; a  *)
(* NIC also has a name, dev, and a fabric.  A GPU is its position, which   *)
(* is its ID; a NIC is its position in the order of the names, in which    *)
(* discoverNICs sorts them.  "path" lists the PCIe segments down to the    *)
(* device, and is empty if sysfs did not tell.                             *)
(***************************************************************************)
EXTENDS Sorting, FiniteSetsExt

Hardware ==
  [gpus : Seq([numa : Int, path : Seq(Int)]),
   nics : Seq([numa : Int, path : Seq(Int), dev : Int, fabric : STRING])]

Gpus(m) == DOMAIN m.gpus
Nics(m) == DOMAIN m.nics
Numas(m) == {m.gpus[g].numa : g \in Gpus(m)}
GpusOn(m, numa) == {g \in Gpus(m) : m.gpus[g].numa = numa}
NicsOn(m, numa) == {n \in Nics(m) : m.nics[n].numa = numa}
SameNuma(m, g, n) == m.gpus[g].numa = m.nics[n].numa

-----------------------------------------------------------------------------
(* PCIe distance. *)

UnknownPathPenalty == 50
CrossNUMAPenalty == 100

SharedPrefix(a, b) == Cardinality({i \in 1 .. Min({Len(a), Len(b)}) :
                                     \A j \in 1 .. i : a[j] = b[j]})

PCIeDistance(a, b) == (Len(a) - SharedPrefix(a, b)) + (Len(b) - SharedPrefix(a, b))

Dist(m, g, n) ==
  LET a == m.gpus[g].path  b == m.nics[n].path
  IN  IF Len(a) >= 2 /\ Len(b) >= 2 THEN PCIeDistance(a, b) ELSE UnknownPathPenalty

(* isFlat, which is the opposite of hasPCIePaths; buildPairs says the same *)
(* of a machine without GPUs or without NICs.                              *)
Flat(m) == \/ Len(m.gpus) = 0 \/ Len(m.nics) = 0
           \/ /\ \A g \in Gpus(m) : Len(m.gpus[g].path) <= 1
              /\ \A n \in Nics(m) : Len(m.nics[n].path) <= 1

-----------------------------------------------------------------------------
(* Greedy assignment: candidates in order, each taken if it is still free. *)

PairOf(g, n, hops) == [gpu |-> g, nic |-> n, hops |-> hops, bw |-> 0]

Closer(a, b) ==
  \/ a.hops < b.hops
  \/ a.hops = b.hops /\ a.gpu < b.gpu
  \/ a.hops = b.hops /\ a.gpu = b.gpu /\ a.nic < b.nic

NearestFirst(candidates) == Sorted(candidates, Closer)

(* Faulty variant: the candidates stay in the order they are listed in. *)
CandidatesUnsorted(m, G, N, penalty) ==
  Sorted({PairOf(g, n, Dist(m, g, n) + penalty) : g \in G, n \in N},
               LAMBDA a, b : a.gpu < b.gpu \/ (a.gpu = b.gpu /\ a.nic < b.nic))

(* buildCandidates *)
Candidates(m, G, N, penalty) ==
  NearestFirst({PairOf(g, n, Dist(m, g, n) + penalty) : g \in G, n \in N})

BothFree(pairs, c) == \A p \in pairs : p.gpu # c.gpu /\ p.nic # c.nic

(* The loop over the candidates: "room" says if there is room for another. *)
Greedy(candidates, room(_, _)) ==
  LET taken[k \in 0 .. Len(candidates)] ==
        IF k = 0 THEN {}
        ELSE LET pairs == taken[k - 1]
             IN  IF room(pairs, candidates[k]) THEN pairs \cup {candidates[k]} ELSE pairs
  IN  taken[Len(candidates)]

OneToOne(candidates) == Greedy(candidates, BothFree)

(* With room for "capacity" GPUs on each NIC. *)
Shared(candidates, capacity) ==
  Greedy(candidates,
         LAMBDA pairs, c : /\ \A p \in pairs : p.gpu # c.gpu
                           /\ Cardinality({p \in pairs : p.nic = c.nic}) < capacity)

PairedGpus(pairs) == {p.gpu : p \in pairs}
PairedNics(pairs) == {p.nic : p \in pairs}

-----------------------------------------------------------------------------
(* The strategies. *)

(* Faulty variant: what is left over is not paired across NUMA nodes. *)
PCIeDistancePairingWithinNUMA(m) ==
  UNION {OneToOne(Candidates(m, GpusOn(m, k), NicsOn(m, k), 0)) : k \in Numas(m)}

(* Within each NUMA node, then across NUMA nodes what is left over. *)
PCIeDistancePairing(m) ==
  LET within == UNION {OneToOne(Candidates(m, GpusOn(m, k), NicsOn(m, k), 0)) :
                         k \in Numas(m)}
      across == Candidates(m, Gpus(m) \ PairedGpus(within),
                              Nics(m) \ PairedNics(within), CrossNUMAPenalty)
  IN  within \cup OneToOne(across)

(* GPUs on a NUMA node without NICs take all NICs in turn. *)
Fallback(m, hops) ==
  LET rest == Ascending({g \in Gpus(m) : NicsOn(m, m.gpus[g].numa) = {}})
      nic(i) == ((i - 1) % Len(m.nics)) + 1
  IN  {PairOf(rest[i], nic(i), hops[<<rest[i], nic(i)>>]) : i \in DOMAIN rest}

(* The i-th GPU of a NUMA node takes its i-th NIC, round and round. *)
NUMAAffinityPairing(m) ==
  LET zipped(k) ==
        LET gpus == Ascending(GpusOn(m, k))
            nics == Ascending(NicsOn(m, k))
        IN  {PairOf(gpus[i], nics[((i - 1) % Len(nics)) + 1], 0) : i \in DOMAIN gpus}
  IN  (UNION {zipped(k) : k \in {k \in Numas(m) : NicsOn(m, k) # {}}})
        \cup Fallback(m, [gn \in Gpus(m) \X Nics(m) |-> CrossNUMAPenalty])

(* Faulty variant: one more, also if the division leaves no remainder. *)
CapacityOneMore(gpus, nics) == gpus \div nics + 1

Capacity(gpus, nics) == (gpus + nics - 1) \div nics

NUMALoadBalancePairing(m) ==
  LET balanced(k) ==
        Shared(Candidates(m, GpusOn(m, k), NicsOn(m, k), 0),
               Capacity(Cardinality(GpusOn(m, k)), Cardinality(NicsOn(m, k))))
  IN  (UNION {balanced(k) : k \in {k \in Numas(m) : NicsOn(m, k) # {}}})
        \cup Fallback(m, [gn \in Gpus(m) \X Nics(m) |->
                           Dist(m, gn[1], gn[2]) + CrossNUMAPenalty])

(* Each NIC goes to the closest GPU, of equals to the first.  The search   *)
(* starts from the first one at the distance of an unknown path, so that   *)
(* greater distances count as this.                                        *)
MultiNICPCIePairing(m) ==
  LET hops(g, n) ==
        IF Dist(m, g, n) < UnknownPathPenalty THEN Dist(m, g, n) ELSE UnknownPathPenalty
      offer(g, n) == PairOf(g, n, hops(g, n))
      nearest(n) == CHOOSE g \in Gpus(m) : \A h \in Gpus(m) : ~Closer(offer(h, n), offer(g, n))
  IN  {offer(nearest(n), n) : n \in Nics(m)}

(* buildPairs *)
Strategy(m, rdmaType) ==
  LET gpus == Len(m.gpus)  nics == Len(m.nics)
  IN  IF Flat(m) THEN "numa_affinity"
      ELSE IF gpus < nics /\ rdmaType = "srd" THEN "multi_nic_pcie"
      ELSE IF gpus <= nics THEN "pcie_distance" ELSE "numa_load_balance"

PairsBy(strategy, m) ==
  CASE Len(m.gpus) = 0 \/ Len(m.nics) = 0 -> {}
    [] OTHER -> CASE strategy = "numa_affinity" -> NUMAAffinityPairing(m)
                  [] strategy = "multi_nic_pcie" -> MultiNICPCIePairing(m)
                  [] strategy = "pcie_distance" -> PCIeDistancePairing(m)
                  [] strategy = "numa_load_balance" -> NUMALoadBalancePairing(m)

-----------------------------------------------------------------------------
(* BandwidthOptimalPairing.  The probe's script measures every GPU with    *)
(* every NIC: bw[<<g, n>>], which is 0 where the measurement failed.       *)

Faster(a, b) ==
  \/ a.bw > b.bw
  \/ a.bw = b.bw /\ a.gpu < b.gpu
  \/ a.bw = b.bw /\ a.gpu = b.gpu /\ a.nic < b.nic

Measured(m, bw) ==
  {[gpu |-> g, nic |-> n, hops |-> 0, bw |-> bw[<<g, n>>]] : g \in Gpus(m), n \in Nics(m)}

(* Faulty variant: rows are taken in the order in which they were measured. *)
ByBandwidthUnsorted(rows) == Sorted(rows, Closer)

ByBandwidth(rows) == Sorted(rows, Faster)

(* With more GPUs than NICs, a GPU left over takes its fastest NIC, or, if *)
(* it has none, the next one in the order in which they were assigned.     *)
BandwidthOptimalPairing(m, bw) ==
  LET rows == Measured(m, bw)
      first == OneToOne(ByBandwidth(rows))
      order == ByBandwidth(first)
      rest == Gpus(m) \ PairedGpus(first)
      fastest(g) == ByBandwidth({r \in rows : r.gpu = g})[1]
      stuck == Ascending({g \in rest : fastest(g).bw = 0})
      next(i) == order[((i - 1) % Len(order)) + 1].nic
  IN  first \cup {fastest(g) : g \in {g \in rest : fastest(g).bw > 0}}
            \cup {[gpu |-> stuck[i], nic |-> next(i), hops |-> 0, bw |-> 0] :
                    i \in DOMAIN stuck}

=============================================================================
