-------------------------- MODULE ControllerProofs --------------------------
(***************************************************************************)
(* Proofs of the properties of Run, for every set of nodes, any number of  *)
(* invocations and of failing calls: that no FAIL is lost on its way to    *)
(* the exit code; then its types, what it leaves in the cluster, which     *)
(* nodes must have reported before it succeeds, and of which run the       *)
(* topologies are that it tests.                                           *)
(***************************************************************************)
EXTENDS Controller, FiniteSetTheorems, TLAPS

(* The results that Run collects and stores have their types. *)
ResultsTyped ==
  /\ stored \in StoredReports
  /\ current \in StoredReports
  /\ gpuReports \in Reports
  /\ netReports \in Reports
  /\ failSeen \in BOOLEAN

BeforeTier1 == {"idle", "cleanPrevious", "namespace", "rbac", "config", "tier1"}
BeforeGpu   == BeforeTier1 \cup {"discover", "gpuDeploy", "gpuCollect"}
BeforeNet   == BeforeGpu \cup {"netDeploy", "netCollect"}
BeforeMesh  == BeforeNet \cup {"netDone", "probe", "meshTopology", "mesh"}
BeforeJobs  == BeforeMesh \cup {"bandwidth"}

(* A result is set in one step only, so that none replaces a FAIL. *)
SetOnce ==
  /\ step \in BeforeTier1 => current.cluster = "none"
  /\ step \in BeforeGpu => gpuReports = NoReports
  /\ step \in BeforeNet => netReports = NoReports
  /\ step \in BeforeMesh => current.mesh = "none"
  /\ step \in BeforeJobs => current.jobs = "none"

(* GPU check reports have no RDMA rows, which the merge would drop. *)
GpuRowsOnly == \A n \in Nodes : gpuReports[n].net = "none"

(* A FAIL that was seen is in one of the results. *)
FailKept ==
  failSeen => \/ "fail" \in {current.cluster, current.jobs, current.mesh}
              \/ HasFail(gpuReports)
              \/ HasFail(netReports)

(* From storeReport on the node reports are merged. *)
Merged == step = "verdict" => current.nodes = MergeNodeReports(gpuReports, netReports)

(* Run has not decided yet. *)
Undecided == step \notin {"idle", "cleanup"} => ret = "none"

Inv ==
  /\ ResultsTyped
  /\ SetOnce
  /\ GpuRowsOnly
  /\ FailKept
  /\ Merged
  /\ Undecided
  /\ FailIsReported

-----------------------------------------------------------------------------
(* Reports of nobody hold no FAIL. *)
LEMMA NoReportsTyped == NoReports \in Reports /\ ~HasFail(NoReports)
BY DEF NoReports, Reports, GpuRows, NetRows, HasFail

(* The report a run starts with is empty. *)
LEMMA EmptyReportTyped ==
  /\ EmptyReport \in StoredReports
  /\ EmptyReport.cluster = "none" /\ EmptyReport.mesh = "none" /\ EmptyReport.jobs = "none"
BY NoReportsTyped DEF EmptyReport, StoredReports, Verdicts

(* What the merge makes of two reports, and that a FAIL row of either is a *)
(* FAIL row of it.                                                         *)
LEMMA MergeKeepsFails ==
  ASSUME NEW gpu \in Reports, NEW net \in Reports
  PROVE  /\ MergeNodeReports(gpu, net) \in Reports
         /\ (\A n \in Nodes : gpu[n].net = "none") /\ (HasFail(gpu) \/ HasFail(net))
              => HasFail(MergeNodeReports(gpu, net))
<1> DEFINE merged == MergeNodeReports(gpu, net)
<1>1. \A n \in Nodes : /\ merged[n].gpu = MergeGpuRow(gpu[n].gpu, net[n].gpu)
                       /\ merged[n].net = net[n].net
                       /\ merged[n].run = net[n].run
  BY DEF MergeNodeReports
<1>2. ASSUME NEW n \in Nodes PROVE MergeGpuRow(gpu[n].gpu, net[n].gpu) \in GpuRows
  BY DEF MergeGpuRow, GpuRows
<1>3. merged \in Reports
  BY <1>2 DEF MergeNodeReports, Reports
<1> HIDE DEF merged
<1>4. ASSUME NEW n \in Nodes, gpu[n].gpu = "fail" \/ net[n].gpu = "fail"
      PROVE  merged[n].gpu = "fail"
  <2>1. MergeGpuRow(gpu[n].gpu, net[n].gpu) = "fail"
    BY <1>4 DEF MergeGpuRow
  <2> QED
    BY <1>1, <2>1
<1>5. ASSUME \A n \in Nodes : gpu[n].net = "none", HasFail(gpu) \/ HasFail(net)
      PROVE  HasFail(merged)
  <2>1. CASE HasFail(gpu)
    <3>1. PICK n \in Nodes : gpu[n].gpu = "fail"
      BY <1>5, <2>1 DEF HasFail
    <3> QED
      BY <3>1, <1>4 DEF HasFail
  <2>2. CASE HasFail(net)
    <3>1. PICK n \in Nodes : net[n].gpu = "fail" \/ net[n].net \in {"topoFail", "fail"}
      BY <2>2 DEF HasFail
    <3> QED
      BY <3>1, <1>1, <1>4 DEF HasFail
  <2> QED
    BY <1>5, <2>1, <2>2
<1> QED
  BY <1>3, <1>5 DEF merged

(* Merging with what is stored gives a report. *)
LEMMA PreservedTyped ==
  ASSUME NEW a \in StoredReports, NEW b \in StoredReports
  PROVE  MergePreserving(a, b) \in StoredReports
BY DEF MergePreserving, StoredReports

(* What is stored for the nodes with topology is a report. *)
LEMMA StoredTopologyTyped ==
  ASSUME ResultsTyped
  PROVE  StoredTopology \in Reports
<1>1. stored.nodes \in Reports
  BY DEF ResultsTyped, StoredReports
<1> QED
  BY <1>1, NoReportsTyped DEF StoredTopology, Reports

(* The reports that a phase collects. *)
LEMMA CollectedTyped ==
  ASSUME runs \in Nat
  PROVE
  /\ \A r \in Collect("gpu", GpuReportRows) :
       r \in Reports /\ \A n \in Nodes : r[n].net = "none"
  /\ \A r \in Collect("net", NetReportRows) : r \in Reports
<1>1. GpuReportRows \subseteq [gpu : GpuRows, net : {"none"}, run : Nat]
  BY ControllerAssumption DEF GpuReportRows, GpuRows
<1>2. NetReportRows \subseteq [gpu : GpuRows, net : NetRows, run : Nat]
  BY ControllerAssumption DEF NetReportRows, GpuRows, NetRows
<1> QED
  BY <1>1, <1>2 DEF Collect, Reports, NetRows

-----------------------------------------------------------------------------
(* The process ends: all that it had in memory is gone. *)
LEMMA ExitStep ==
  ASSUME Inv, NEW r, Exit(r), UNCHANGED stored
  PROVE  Inv'
BY NoReportsTyped, EmptyReportTyped
   DEF Inv, ResultsTyped, SetOnce, GpuRowsOnly, FailKept, Merged, Undecided, FailIsReported,
       Exit, Goto, BeforeTier1, BeforeGpu, BeforeNet, BeforeMesh, BeforeJobs, NoReports

(* A step that leaves the results alone and that neither ends a run nor    *)
(* skips a step in which a result is set.                                  *)
LEMMA QuietStep ==
  ASSUME Inv, UNCHANGED <<stored, current, gpuReports, netReports, failSeen, ret>>,
         step' \notin {"idle", "verdict"} \/ step' = step,
         step' \in BeforeTier1 => step \in BeforeTier1,
         step' \in BeforeGpu => step \in BeforeGpu,
         step' \in BeforeNet => step \in BeforeNet,
         step' \in BeforeMesh => step \in BeforeMesh,
         step' \in BeforeJobs => step \in BeforeJobs,
         step \in {"idle", "cleanup"} => step' \in {"idle", "cleanup"}
  PROVE  Inv'
<1>1. ResultsTyped' /\ GpuRowsOnly' /\ FailKept' /\ FailIsReported'
  BY DEF Inv, ResultsTyped, GpuRowsOnly, FailKept, FailIsReported, HasFail
<1>2. SetOnce' /\ Merged' /\ Undecided'
  BY DEF Inv, SetOnce, Merged, Undecided
<1> QED
  BY <1>1, <1>2 DEF Inv

(* The invariant holds at first, *)
LEMMA InvInit == Init => Inv
<1> SUFFICES ASSUME Init PROVE Inv
  OBVIOUS
<1> USE DEF Init
<1>1. ResultsTyped /\ GpuRowsOnly /\ FailKept /\ FailIsReported
  BY NoReportsTyped, EmptyReportTyped
     DEF ResultsTyped, GpuRowsOnly, FailKept, FailIsReported, NoReports
<1>2. SetOnce /\ Merged /\ Undecided
  BY EmptyReportTyped DEF SetOnce, Merged, Undecided
<1> QED
  BY <1>1, <1>2 DEF Inv

(* A return of Run, with "ok" only if no FAIL was seen. *)
LEMMA ReturnStep ==
  ASSUME Inv, UNCHANGED <<stored, current, gpuReports, netReports, failSeen>>,
         step' = "cleanup", ret' = "error" \/ ~failSeen
  PROVE  Inv'
<1>1. ResultsTyped' /\ GpuRowsOnly' /\ FailKept' /\ FailIsReported'
  BY DEF Inv, ResultsTyped, GpuRowsOnly, FailKept, FailIsReported, HasFail
<1>2. SetOnce' /\ Merged' /\ Undecided'
  BY DEF SetOnce, Merged, Undecided, BeforeTier1, BeforeGpu, BeforeNet, BeforeMesh, BeforeJobs
<1> QED
  BY <1>1, <1>2 DEF Inv

(* A step of Run that goes on: what the results must satisfy after it. *)
LEMMA OnwardStep ==
  ASSUME Undecided, step \notin {"idle", "cleanup"}, ret' = ret, step' \notin {"idle", "verdict"},
         ResultsTyped', SetOnce', GpuRowsOnly', FailKept'
  PROVE  Inv'
BY DEF Undecided, Inv, Merged, FailIsReported

(* Nothing was seen while no result is set. *)
LEMMA NothingSeen ==
  ASSUME SetOnce, FailKept, step \in BeforeGpu
  PROVE  failSeen => current.cluster = "fail"
BY NoReportsTyped
   DEF SetOnce, FailKept, BeforeTier1, BeforeGpu, BeforeNet, BeforeMesh, BeforeJobs

(* after the checks of the cluster, *)
LEMMA Tier1Step == Inv /\ Tier1 => Inv'
<1> SUFFICES ASSUME Inv, Tier1 PROVE Inv'
  OBVIOUS
<1> USE DEF Goto
<1>1. ~failSeen
  BY NothingSeen DEF Inv, Tier1, SetOnce, BeforeGpu, BeforeTier1
<1>2. PICK v \in {"pass", "fail", "none"} :
        /\ current' = [current EXCEPT !.cluster = v]
        /\ failSeen' = (failSeen \/ v = "fail")
  BY DEF Tier1
<1>3. /\ current' \in StoredReports
      /\ current'.cluster = v /\ current'.jobs = current.jobs /\ current'.mesh = current.mesh
  BY <1>2 DEF Inv, ResultsTyped, StoredReports, Verdicts
<1>4. ResultsTyped'
  BY <1>2, <1>3 DEF Inv, ResultsTyped, Tier1, clusterVars
<1>5. SetOnce'
  BY <1>3 DEF Inv, SetOnce, Tier1, BeforeTier1, BeforeGpu, BeforeNet, BeforeMesh, BeforeJobs
<1>6. GpuRowsOnly'
  BY DEF Inv, GpuRowsOnly, Tier1
<1>7. FailKept'
  BY <1>1, <1>2, <1>3 DEF FailKept
<1> QED
  BY <1>4, <1>5, <1>6, <1>7, OnwardStep DEF Inv, Tier1

(* after the GPU nodes are listed, *)
LEMMA DiscoverStep == Inv /\ DiscoverGPUNodes => Inv'
<1> SUFFICES ASSUME Inv, DiscoverGPUNodes PROVE Inv'
  OBVIOUS
<1> USE DEF Goto
<1>1. UNCHANGED <<stored, current, gpuReports, netReports, failSeen>> /\ step = "discover"
  BY DEF DiscoverGPUNodes, clusterVars, historyVars
<1>2. failSeen => current.cluster = "fail"
  BY <1>1, NothingSeen DEF Inv, BeforeGpu
<1>3. CASE step' = "cleanup"
  <2>1. ret' = "error" \/ ~failSeen
    BY <1>2, <1>3 DEF DiscoverGPUNodes, Return, AfterDiscovery
  <2> QED
    BY <1>1, <1>3, <2>1, ReturnStep
<1>4. CASE step' # "cleanup"
  <2>1. ret' = ret /\ step' \in {"gpuDeploy", "netDeploy", "meshTopology"}
    BY <1>4 DEF DiscoverGPUNodes, Return, AfterDiscovery
  <2>2. /\ gpuReports = NoReports /\ netReports = NoReports
        /\ current.mesh = "none" /\ current.jobs = "none"
    BY <1>1 DEF Inv, SetOnce, BeforeGpu, BeforeNet, BeforeMesh, BeforeJobs
  <2>3. ResultsTyped' /\ GpuRowsOnly' /\ FailKept'
    BY <1>1 DEF Inv, ResultsTyped, GpuRowsOnly, FailKept, HasFail
  <2>4. SetOnce'
    BY <1>1, <2>1, <2>2
       DEF SetOnce, BeforeTier1, BeforeGpu, BeforeNet, BeforeMesh, BeforeJobs
  <2> QED
    BY <1>1, <2>1, <2>3, <2>4, OnwardStep DEF Inv
<1> QED
  BY <1>3, <1>4

(* While the GPU reports are collected there are no others. *)
LEMMA GpuCollectStep == Inv /\ runs \in Nat /\ GpuCollect => Inv'
<1> SUFFICES ASSUME Inv, runs \in Nat, GpuCollect PROVE Inv'
  OBVIOUS
<1> USE DEF Goto
<1>1. /\ UNCHANGED <<stored, current, netReports, ret>>
      /\ step = "gpuCollect" /\ step' \in {"netDeploy", "meshTopology"}
      /\ failSeen' = (failSeen \/ HasFail(gpuReports'))
  BY DEF GpuCollect, AfterGpuChecks
<1>2. gpuReports' \in Reports /\ \A n \in Nodes : gpuReports'[n].net = "none"
  BY CollectedTyped DEF GpuCollect
<1>3. failSeen => current.cluster = "fail"
  BY <1>1, NothingSeen DEF Inv, BeforeGpu
<1>4. ResultsTyped' /\ GpuRowsOnly'
  <2>1. failSeen' \in BOOLEAN
    BY <1>1 DEF HasFail, Inv, ResultsTyped
  <2> QED
    BY <1>1, <1>2, <2>1 DEF Inv, ResultsTyped, GpuRowsOnly
<1>5. FailKept'
  BY <1>1, <1>3 DEF FailKept, HasFail
<1>6. SetOnce'
  BY <1>1 DEF Inv, SetOnce, BeforeTier1, BeforeGpu, BeforeNet, BeforeMesh, BeforeJobs
<1> QED
  BY <1>1, <1>4, <1>5, <1>6, OnwardStep DEF Inv

(* The net reports take the place of none. *)
LEMMA NetCollectStep == Inv /\ runs \in Nat /\ NetCollect => Inv'
<1> SUFFICES ASSUME Inv, runs \in Nat, NetCollect PROVE Inv'
  OBVIOUS
<1> USE DEF Goto
<1>1. /\ UNCHANGED <<stored, current, gpuReports, ret>>
      /\ step = "netCollect" /\ step' = "netDone"
      /\ failSeen' = (failSeen \/ HasFail(netReports'))
  BY DEF NetCollect, clusterVars
<1>2. netReports' \in Reports
  BY CollectedTyped DEF NetCollect
<1>3. ~HasFail(netReports)
  <2>1. netReports = NoReports
    BY <1>1 DEF Inv, SetOnce, BeforeNet
  <2> QED
    BY <2>1, NoReportsTyped
<1>4. ResultsTyped' /\ GpuRowsOnly'
  <2>1. failSeen' \in BOOLEAN
    BY <1>1 DEF HasFail, Inv, ResultsTyped
  <2> QED
    BY <1>1, <1>2, <2>1 DEF Inv, ResultsTyped, GpuRowsOnly
<1>5. FailKept'
  BY <1>1, <1>3 DEF Inv, FailKept, HasFail
<1>6. SetOnce'
  BY <1>1 DEF Inv, SetOnce, BeforeTier1, BeforeGpu, BeforeNet, BeforeMesh, BeforeJobs
<1> QED
  BY <1>1, <1>4, <1>5, <1>6, OnwardStep DEF Inv

(* The verdict on the mesh takes the place of none. *)
LEMMA MeshStep == Inv /\ (PingMeshTopology \/ PingMesh) => Inv'
<1> SUFFICES ASSUME Inv, PingMeshTopology \/ PingMesh PROVE Inv'
  OBVIOUS
<1>1. /\ UNCHANGED <<stored, gpuReports, netReports, ret>>
      /\ step \in {"meshTopology", "mesh"} /\ step' \in {"mesh", "bandwidth", "store"}
  BY DEF PingMeshTopology, PingMesh, clusterVars, RunPingMeshOn, SkipPingMesh, AfterPingMesh, Goto
<1>2. PICK v \in Verdicts :
        \/ UNCHANGED <<current, failSeen>>
        \/ current' = [current EXCEPT !.mesh = v] /\ failSeen' = (failSeen \/ v = "fail")
  <2>1. CASE PingMeshTopology
    <3>1. failSeen' = failSeen
      BY <2>1 DEF PingMeshTopology, historyVars
    <3>2. current' = current \/ current' = [current EXCEPT !.mesh = "skip"]
      BY <2>1 DEF PingMeshTopology, RunPingMeshOn, SkipPingMesh
    <3> QED
      BY <3>1, <3>2 DEF Verdicts, Inv, ResultsTyped
  <2>2. CASE PingMesh
    BY <2>2 DEF PingMesh, Verdicts
  <2> QED
    BY <2>1, <2>2
<1>3. current.mesh = "none" /\ current.jobs = "none"
  BY <1>1 DEF Inv, SetOnce, BeforeMesh, BeforeJobs
<1>4. /\ current' \in StoredReports
      /\ current'.cluster = current.cluster /\ current'.jobs = "none"
      /\ failSeen' \in BOOLEAN
      /\ failSeen' => failSeen \/ current'.mesh = "fail"
  <2>1. current \in StoredReports /\ failSeen \in BOOLEAN
    BY DEF Inv, ResultsTyped
  <2>2. CASE UNCHANGED <<current, failSeen>>
    BY <1>3, <2>1, <2>2
  <2>3. CASE current' = [current EXCEPT !.mesh = v] /\ failSeen' = (failSeen \/ v = "fail")
    BY <1>3, <2>1, <2>3 DEF StoredReports
  <2> QED
    BY <1>2, <2>2, <2>3
<1>5. ResultsTyped' /\ GpuRowsOnly'
  BY <1>1, <1>4 DEF Inv, ResultsTyped, GpuRowsOnly
<1>6. FailKept'
  BY <1>1, <1>3, <1>4 DEF Inv, FailKept, HasFail
<1>7. SetOnce'
  <2>1. step' = "mesh" => current'.mesh = "none"
    BY <1>2, <1>3 DEF PingMeshTopology, PingMesh, RunPingMeshOn, SkipPingMesh, AfterPingMesh, Goto
  <2> QED
    BY <1>1, <1>4, <2>1
       DEF SetOnce, BeforeTier1, BeforeGpu, BeforeNet, BeforeMesh, BeforeJobs
<1> QED
  BY <1>1, <1>5, <1>6, <1>7, OnwardStep DEF Inv

(* Stored reports take the place of the net reports only when no node      *)
(* reported, so that no FAIL row is among the replaced ones.               *)
LEMMA BandwidthStep == Inv /\ Bandwidth => Inv'
<1> SUFFICES ASSUME Inv, Bandwidth PROVE Inv'
  OBVIOUS
<1> USE DEF Goto
<1>1. /\ UNCHANGED <<stored, gpuReports, ret>> /\ step = "bandwidth" /\ step' = "store"
      /\ \/ UNCHANGED netReports
         \/ Reported(netReports) = {} /\ netReports' = StoredTopology
  BY DEF Bandwidth, BandwidthJobs
<1>2. PICK v \in {"none", "skip", "fail", "pass"} :
        current' = [current EXCEPT !.jobs = v] /\ failSeen' = (failSeen \/ v = "fail")
  BY DEF Bandwidth, BandwidthJobs
<1>3. current.jobs = "none"
  BY <1>1 DEF Inv, SetOnce, BeforeJobs
<1>4. /\ current' \in StoredReports
      /\ current'.cluster = current.cluster /\ current'.mesh = current.mesh /\ current'.jobs = v
  BY <1>2 DEF Inv, ResultsTyped, StoredReports, Verdicts
<1>5. netReports' \in Reports
  BY <1>1, StoredTopologyTyped DEF Inv, ResultsTyped
<1>6. ResultsTyped' /\ GpuRowsOnly'
  BY <1>1, <1>2, <1>4, <1>5 DEF Inv, ResultsTyped, GpuRowsOnly
<1>7. HasFail(netReports) => UNCHANGED netReports
  BY <1>1 DEF HasFail, Reported, NoReports
<1>8. FailKept'
  BY <1>1, <1>2, <1>3, <1>4, <1>7 DEF Inv, FailKept, HasFail
<1>9. SetOnce'
  BY <1>1 DEF SetOnce, BeforeTier1, BeforeGpu, BeforeNet, BeforeMesh, BeforeJobs
<1> QED
  BY <1>1, <1>6, <1>8, <1>9, OnwardStep DEF Inv

(* after the report is stored, *)
LEMMA StoreStep == Inv /\ StoreReport => Inv'
<1> SUFFICES ASSUME Inv, StoreReport PROVE Inv'
  OBVIOUS
<1> USE DEF Goto
<1> DEFINE nodes == MergeNodeReports(gpuReports, netReports)
<1>1. /\ UNCHANGED <<gpuReports, netReports, ret, failSeen>>
      /\ step = "store" /\ step' = "verdict"
      /\ current' = [current EXCEPT !.nodes = nodes]
      /\ stored' \in {stored, MergePreserving(current', stored)}
  BY DEF StoreReport, historyVars
<1>2. nodes \in Reports
  BY MergeKeepsFails DEF Inv, ResultsTyped
<1> HIDE DEF nodes
<1>3. /\ current' \in StoredReports
      /\ current'.cluster = current.cluster /\ current'.mesh = current.mesh
      /\ current'.jobs = current.jobs /\ current'.nodes = nodes
  BY <1>1, <1>2 DEF Inv, ResultsTyped, StoredReports
<1>4. stored' \in StoredReports
  BY <1>1, <1>3, PreservedTyped DEF Inv, ResultsTyped
<1>5. ResultsTyped' /\ GpuRowsOnly'
  BY <1>1, <1>3, <1>4 DEF Inv, ResultsTyped, GpuRowsOnly
<1>6. FailKept'
  BY <1>1, <1>3 DEF Inv, FailKept, HasFail
<1>7. Merged'
  <2>1. MergeNodeReports(gpuReports, netReports)' = nodes
    BY <1>1 DEF MergeNodeReports, MergeGpuRow, nodes
  <2> QED
    BY <1>3, <2>1 DEF Merged
<1>8. SetOnce' /\ Undecided' /\ FailIsReported'
  BY <1>1 DEF Inv, SetOnce, Undecided, FailIsReported,
              BeforeTier1, BeforeGpu, BeforeNet, BeforeMesh, BeforeJobs
<1> QED
  BY <1>5, <1>6, <1>7, <1>8 DEF Inv

(* Run returns nil only if the merged report has no FAIL, and then there   *)
(* was none to merge.                                                      *)
LEMMA VerdictStep == Inv /\ Verdict => Inv'
<1> SUFFICES ASSUME Inv, Verdict PROVE Inv'
  OBVIOUS
<1>1. /\ UNCHANGED <<stored, current, gpuReports, netReports, failSeen>>
      /\ step = "verdict" /\ step' = "cleanup"
      /\ ret' = IF RunSucceeds THEN "ok" ELSE "error"
  BY DEF Verdict, Return, Goto, clusterVars, processVars, resultVars, historyVars
<1>2. ASSUME RunSucceeds PROVE ~failSeen
  <2>1. ~Failures(current)
    BY <1>2 DEF RunSucceeds
  <2>2. current.nodes = MergeNodeReports(gpuReports, netReports)
    BY <1>1 DEF Inv, Merged
  <2>3. ~HasFail(current.nodes) /\ "fail" \notin {current.cluster, current.jobs, current.mesh}
    BY <2>1 DEF Failures
  <2>4. ~HasFail(gpuReports) /\ ~HasFail(netReports)
    BY <2>2, <2>3, MergeKeepsFails DEF Inv, GpuRowsOnly, ResultsTyped
  <2> QED
    BY <2>3, <2>4 DEF Inv, FailKept
<1> QED
  BY <1>1, <1>2, ReturnStep

(* The steps of Run that leave the results alone. *)
LEMMA OtherStep ==
  ASSUME Inv,
         CleanPrevious \/ EnsureNamespace \/ EnsureRBAC \/ EnsureConfig \/ GpuDeploy
           \/ NetDeploy \/ NetDone \/ Probe \/ DeferredCleanup
  PROVE  Inv'
<1> USE DEF Goto, BeforeTier1, BeforeGpu, BeforeNet, BeforeMesh, BeforeJobs,
            processVars, resultVars, historyVars
<1>1. CASE CleanPrevious
  BY <1>1, QuietStep DEF CleanPrevious
<1>2. CASE EnsureNamespace
  <2>1. CASE Exit("error")
    BY <1>2, <2>1, ExitStep DEF EnsureNamespace, clusterVars
  <2> QED
    BY <1>2, <2>1, QuietStep DEF EnsureNamespace, clusterVars
<1>3. CASE EnsureRBAC
  <2>1. CASE Exit("error")
    BY <1>3, <2>1, ExitStep DEF EnsureRBAC
  <2> QED
    BY <1>3, <2>1, QuietStep DEF EnsureRBAC
<1>4. CASE EnsureConfig
  <2>1. CASE Return("error")
    BY <1>4, <2>1, ReturnStep DEF EnsureConfig, Return
  <2> QED
    BY <1>4, <2>1, QuietStep DEF EnsureConfig
<1>5. CASE GpuDeploy
  <2>1. CASE Return("error")
    BY <1>5, <2>1, ReturnStep DEF GpuDeploy, Return
  <2> QED
    BY <1>5, <2>1, QuietStep DEF GpuDeploy, DeployNodeCheckJobs
<1>6. CASE NetDeploy
  <2>1. CASE Return("error")
    BY <1>6, <2>1, ReturnStep DEF NetDeploy, Return
  <2> QED
    BY <1>6, <2>1, QuietStep DEF NetDeploy, DeployNodeCheckJobs
<1>7. CASE NetDone
  BY <1>7, QuietStep DEF NetDone
<1>8. CASE Probe
  BY <1>8, QuietStep DEF Probe
<1>9. CASE DeferredCleanup
  BY <1>9, ExitStep DEF DeferredCleanup
<1> QED
  BY <1>1, <1>2, <1>3, <1>4, <1>5, <1>6, <1>7, <1>8, <1>9

(* An invocation begins with nothing in memory. *)
LEMMA StartStep ==
  ASSUME Inv, NEW m, NEW d, Start(m, d)
  PROVE  Inv'
<1> USE DEF Start, Goto, clusterVars, resultVars
<1>1. UNCHANGED <<stored, current, gpuReports, netReports, failSeen>>
      /\ step = "idle" /\ step' = "cleanPrevious" /\ ret' = "none"
  OBVIOUS
<1>2. ResultsTyped' /\ GpuRowsOnly' /\ FailKept'
  BY <1>1 DEF Inv, ResultsTyped, GpuRowsOnly, FailKept, HasFail
<1>3. SetOnce'
  BY <1>1 DEF Inv, SetOnce, BeforeTier1, BeforeGpu, BeforeNet, BeforeMesh, BeforeJobs
<1>4. Merged' /\ Undecided' /\ FailIsReported'
  BY <1>1 DEF Merged, Undecided, FailIsReported
<1> QED
  BY <1>2, <1>3, <1>4 DEF Inv

-----------------------------------------------------------------------------
(* and after every other step. *)
LEMMA InvStep == Inv /\ runs \in Nat /\ [Next]_vars => Inv'
<1> SUFFICES ASSUME Inv, runs \in Nat, [Next]_vars PROVE Inv'
  OBVIOUS
<1>1. CASE \E m \in Modes, d \in BOOLEAN : Start(m, d)
  BY <1>1, StartStep
<1>2. CASE RunStep
  BY <1>2, Tier1Step, DiscoverStep, GpuCollectStep, NetCollectStep, MeshStep, BandwidthStep,
     StoreStep, VerdictStep, OtherStep DEF RunStep
<1>3. CASE Cancel
  BY <1>3, QuietStep DEF Cancel, clusterVars, resultVars, historyVars
<1>4. CASE Kill
  BY <1>4, ExitStep DEF Kill
<1>5. CASE Cleanup
  BY <1>5, QuietStep DEF Cleanup, processVars, resultVars, historyVars
<1>6. CASE UNCHANGED vars
  BY <1>6, QuietStep DEF vars, clusterVars, processVars, resultVars, historyVars
<1> QED
  BY <1>1, <1>2, <1>3, <1>4, <1>5, <1>6 DEF Next

(* The runs are counted, as is the latest that stored net reports. *)
LEMMA RunsCounted ==
  ASSUME [Next]_vars
  PROVE  /\ runs' = runs \/ (runs < MaxRuns /\ runs' = runs + 1)
         /\ storedRun' \in {storedRun, runs}
BY DEF Next, RunStep, Start, CleanPrevious, EnsureNamespace, EnsureRBAC, EnsureConfig, Tier1,
       DiscoverGPUNodes, GpuDeploy, GpuCollect, NetDeploy, NetCollect, NetDone, Probe,
       PingMeshTopology, PingMesh, Bandwidth, BandwidthJobs, StoreReport, Verdict,
       DeferredCleanup, Cancel, Kill, Cleanup, Exit, processVars, historyVars, vars

(* A run or deploy that exits with zero saw no FAIL, in whichever order    *)
(* its results came and however often it was interrupted or run before.    *)
THEOREM NoFailIsLost == Spec => []FailIsReported
<1>1. Init => Inv /\ runs \in Nat
  BY InvInit DEF Init
<1>2. Inv /\ runs \in Nat /\ [Next]_vars => (Inv /\ runs \in Nat)'
  <2> SUFFICES ASSUME Inv, runs \in Nat, [Next]_vars PROVE (Inv /\ runs \in Nat)'
    OBVIOUS
  <2> QED
    BY InvStep, RunsCounted
<1>3. Inv => FailIsReported
  BY DEF Inv
<1> QED
  BY <1>1, <1>2, <1>3, PTL DEF Spec

-----------------------------------------------------------------------------
Objects == {"sa", "cr", "crb", "scc"}

(* The parts of TypeOK that Inv does not have. *)
ClusterTyped ==
  /\ jobs \subseteq Kinds \X Nodes
  /\ rbac \subseteq Objects
  /\ failuresCM \in BOOLEAN

ProcessTyped ==
  /\ step \in Steps
  /\ mode \in Modes \cup {"none"}
  /\ debug \in BOOLEAN
  /\ cancelled \in BOOLEAN
  /\ gpuNodes \subseteq Nodes
  /\ pmNetReports \in Reports
  /\ ret \in {"none", "ok", "error", "killed"}
  /\ collected \in [{"gpu", "net"} -> SUBSET Nodes]

BoundsTyped == runs \in 0 .. MaxRuns /\ storedRun \in 0 .. MaxRuns /\ faults \in 0 .. MaxFaults

TypeInv == Inv /\ ClusterTyped /\ ProcessTyped /\ BoundsTyped

-----------------------------------------------------------------------------
(* The typed parts are all of TypeOK. *)
LEMMA TypeInvImpliesTypeOK == TypeInv => TypeOK
BY DEF TypeInv, Inv, ResultsTyped, ClusterTyped, ProcessTyped, BoundsTyped, Objects, TypeOK

(* Deleting by label leaves no other jobs than there were, and all or some *)
(* of the selected ones only if a call failed.                             *)
LEMMA DeleteFacts ==
  ASSUME NEW present, NEW kinds, DeleteJobsOf(present, kinds)
  PROVE  /\ jobs' \subseteq present
         /\ faults' = faults \/ Fault
         /\ faults' = faults => jobs' = {j \in present : j[1] \notin kinds} \/ Fault
BY DEF DeleteJobsOf, NoFault

(* The objects created first are objects. *)
LEMMA OrderFacts ==
  \A k \in 0 .. 3 : FirstOf(CreateOrder, k) \subseteq Objects
BY DEF FirstOf, CreateOrder, Objects

(* Only nodes report. *)
LEMMA CollectedNodes == \A r : Reported(r) \subseteq Nodes
BY DEF Reported

(* The jobs in the cluster. *)
LEMMA JobsStep == TypeInv /\ [Next]_vars => jobs' \subseteq Kinds \X Nodes
<1> SUFFICES ASSUME TypeInv, [Next]_vars PROVE jobs' \subseteq Kinds \X Nodes
  OBVIOUS
<1>1. jobs \subseteq Kinds \X Nodes /\ gpuNodes \subseteq Nodes
  BY DEF TypeInv, ClusterTyped, ProcessTyped
<1>2. \A kind \in Kinds : \A S \in SUBSET Nodes : jobs \cup ({kind} \X S) \subseteq Kinds \X Nodes
  BY <1>1
<1>3. CASE CleanPrevious \/ Cleanup \/ DeferredCleanup
  <2>1. jobs' \subseteq jobs
    BY <1>3, DeleteFacts DEF CleanPrevious, Cleanup, DeferredCleanup, CleanupAll, DeleteJobs
  <2> QED
    BY <1>1, <2>1
<1>4. CASE GpuDeploy \/ NetDeploy
  <2>1. PICK kind \in {"gpu", "net"} : \E S \in SUBSET gpuNodes : jobs' = jobs \cup ({kind} \X S)
    BY <1>4 DEF GpuDeploy, NetDeploy, DeployNodeCheckJobs
  <2>2. kind \in Kinds
    BY DEF Kinds
  <2> QED
    BY <1>1, <1>2, <2>1, <2>2
<1>5. CASE GpuCollect \/ NetCollect \/ NetDone
  <2>1. jobs' \subseteq jobs
    BY <1>5, DeleteFacts DEF GpuCollect, NetCollect, NetDone, DeleteJobs, clusterVars
  <2> QED
    BY <1>1, <2>1
<1>6. CASE Probe
  <2>1. PICK probed \in SUBSET gpuNodes :
          \/ jobs' = jobs \cup ({"bwprobe"} \X probed)
          \/ DeleteJobsOf(jobs \cup ({"bwprobe"} \X probed), {"bwprobe"})
    BY <1>6 DEF Probe
  <2>2. jobs' \subseteq jobs \cup ({"bwprobe"} \X probed)
    BY <2>1, DeleteFacts
  <2>3. "bwprobe" \in Kinds /\ probed \subseteq Nodes
    BY <1>1 DEF Kinds
  <2> QED
    BY <1>2, <2>2, <2>3
<1>7. CASE PingMesh \/ Bandwidth
  <2>1. PICK kind \in {"pingmesh", "bandwidth"} : jobs' = jobs \/ JobsOfRunner(kind)
    BY <1>7 DEF PingMesh, Bandwidth, BandwidthJobs
  <2>2. jobs' \subseteq jobs \cup ({kind} \X gpuNodes)
    BY <2>1, DeleteFacts DEF JobsOfRunner
  <2>3. kind \in Kinds
    BY DEF Kinds
  <2> QED
    BY <1>1, <1>2, <2>2, <2>3
<1>8. CASE Kill
  <2>1. InFlight \subseteq Kinds
    BY DEF InFlight, Kinds
  <2> QED
    BY <1>1, <1>8, <2>1 DEF Kill
<1>9. CASE \/ EnsureNamespace \/ EnsureRBAC \/ EnsureConfig \/ Tier1 \/ DiscoverGPUNodes
           \/ PingMeshTopology \/ StoreReport \/ Verdict \/ Cancel
           \/ \E m \in Modes, d \in BOOLEAN : Start(m, d)
           \/ UNCHANGED vars
  <2>1. jobs' = jobs
    BY <1>9 DEF EnsureNamespace, EnsureRBAC, EnsureConfig, Tier1, DiscoverGPUNodes,
                PingMeshTopology, StoreReport, Verdict, Cancel, Start, clusterVars, vars
  <2> QED
    BY <1>1, <2>1
<1> QED
  BY <1>3, <1>4, <1>5, <1>6, <1>7, <1>8, <1>9 DEF Next, RunStep

(* The RBAC objects and the failures ConfigMap. *)
LEMMA ObjectsStep == TypeInv /\ [Next]_vars => rbac' \subseteq Objects /\ failuresCM' \in BOOLEAN
<1> SUFFICES ASSUME TypeInv, [Next]_vars PROVE rbac' \subseteq Objects /\ failuresCM' \in BOOLEAN
  OBVIOUS
<1>1. rbac \subseteq Objects /\ failuresCM \in BOOLEAN
  BY DEF TypeInv, ClusterTyped
<1>2. CASE EnsureRBAC
  BY <1>1, <1>2, OrderFacts DEF EnsureRBAC
<1>3. CASE EnsureConfig
  BY <1>1, <1>3 DEF EnsureConfig, Objects
<1>4. CASE Cleanup \/ DeferredCleanup
  BY <1>1, <1>4 DEF Cleanup, DeferredCleanup, CleanupAll
<1>5. CASE PingMesh
  <2>1. failuresCM' \in BOOLEAN
    <3>1. CASE UNCHANGED failuresCM
      BY <1>1, <3>1
    <3>2. CASE ~UNCHANGED failuresCM
      <4>1. PICK v \in {"skip", "pass", "warn", "fail"} : failuresCM' = (v \in {"warn", "fail"})
        BY <1>5, <3>2 DEF PingMesh
      <4> QED
        BY <4>1
    <3> QED
      BY <3>1, <3>2
  <2> QED
    BY <1>1, <1>5, <2>1 DEF PingMesh
<1>6. CASE \/ CleanPrevious \/ EnsureNamespace \/ Tier1 \/ DiscoverGPUNodes \/ GpuDeploy
           \/ GpuCollect \/ NetDeploy \/ NetCollect \/ NetDone \/ Probe \/ PingMeshTopology \/ Bandwidth
           \/ StoreReport \/ Verdict \/ Cancel \/ Kill
           \/ \E m \in Modes, d \in BOOLEAN : Start(m, d)
           \/ UNCHANGED vars
  <2>1. UNCHANGED <<rbac, failuresCM>>
    BY <1>6 DEF CleanPrevious, EnsureNamespace, Tier1, DiscoverGPUNodes, GpuDeploy, GpuCollect,
                NetDeploy, NetCollect, NetDone, Probe, PingMeshTopology, Bandwidth, BandwidthJobs,
                StoreReport,
                Verdict, Cancel, Kill, Start, clusterVars, vars
  <2> QED
    BY <1>1, <2>1
<1> QED
  BY <1>2, <1>3, <1>4, <1>5, <1>6 DEF Next, RunStep

(* The counters never exceed their bounds. *)
LEMMA BoundsStep == TypeInv /\ [Next]_vars => BoundsTyped'
<1> SUFFICES ASSUME TypeInv, [Next]_vars PROVE BoundsTyped'
  OBVIOUS
<1>1. runs \in 0 .. MaxRuns /\ storedRun \in 0 .. MaxRuns /\ faults \in 0 .. MaxFaults
  BY DEF TypeInv, BoundsTyped
<1>2. faults' = faults \/ Fault
  BY DeleteFacts
     DEF Next, RunStep, Start, CleanPrevious, EnsureNamespace, EnsureRBAC, EnsureConfig, Tier1,
         DiscoverGPUNodes, GpuDeploy, GpuCollect, NetDeploy, NetCollect, NetDone, Probe,
         PingMeshTopology, RunPingMeshOn, SkipPingMesh, PingMesh, Bandwidth, BandwidthJobs,
         StoreReport, Verdict,
         DeferredCleanup, Cancel, Kill, Cleanup, DeployNodeCheckJobs, DeleteJobs, CleanupAll,
         JobsOfRunner, CtxCallOK, CtxCallFails, NoFault, vars
<1> QED
  BY <1>1, <1>2, RunsCounted, ControllerAssumption DEF BoundsTyped, Fault

(* The process ends: what it had in memory is gone. *)
LEMMA ExitTyped ==
  ASSUME TypeInv, NEW r \in {"ok", "error", "killed", "none"}, Exit(r)
  PROVE  ProcessTyped'
<1>1. NoneCollected \in [{"gpu", "net"} -> SUBSET Nodes]
  BY DEF NoneCollected
<1> QED
  BY <1>1, NoReportsTyped DEF Exit, Goto, Steps, ProcessTyped

(* What a step of Run leaves alone keeps its type. *)
LEMMA StayTyped ==
  ASSUME TypeInv, UNCHANGED <<mode, debug, cancelled, gpuNodes, pmNetReports, collected>>,
         step' \in Steps, ret' \in {ret, "ok", "error", "none"}
  PROVE  ProcessTyped'
BY DEF TypeInv, ProcessTyped

(* A step keeps the types of the process. *)
LEMMA ProcessStep == TypeInv /\ [Next]_vars => ProcessTyped'
<1> SUFFICES ASSUME TypeInv, [Next]_vars PROVE ProcessTyped'
  OBVIOUS
<1> USE DEF processVars, optionVars, resultVars, historyVars, Goto, Return
<1>1. ProcessTyped /\ ret \in {"none", "ok", "error", "killed"}
  BY DEF TypeInv, ProcessTyped
<1>2. CASE \E m \in Modes, d \in BOOLEAN : Start(m, d)
  BY <1>1, <1>2 DEF Start, ProcessTyped, Steps
<1>3. CASE EnsureNamespace
  <2>1. CASE Exit("error")
    BY <2>1, ExitTyped
  <2> QED
    BY <1>3, <2>1, StayTyped DEF EnsureNamespace, Steps
<1>4. CASE EnsureRBAC
  <2>1. CASE Exit("error")
    BY <2>1, ExitTyped
  <2> QED
    BY <1>4, <2>1, StayTyped DEF EnsureRBAC, Steps
<1>5. CASE DeferredCleanup
  <2>1. CASE ret \in {"ok", "error", "killed", "none"}
    BY <1>5, <2>1, ExitTyped DEF DeferredCleanup
  <2> QED
    BY <1>1, <2>1
<1>6. CASE Kill
  BY <1>6, ExitTyped DEF Kill
<1>7. CASE CleanPrevious \/ EnsureConfig \/ Tier1 \/ GpuDeploy \/ NetDeploy
  BY <1>7, StayTyped
     DEF CleanPrevious, EnsureConfig, Tier1, GpuDeploy, NetDeploy, DeployNodeCheckJobs, Steps
<1>8. CASE NetDone \/ Probe \/ PingMesh \/ Bandwidth \/ StoreReport
  BY <1>8, StayTyped
     DEF NetDone, Probe, PingMesh, Bandwidth, BandwidthJobs, StoreReport, AfterPingMesh, Steps
<1>9. CASE Verdict
  BY <1>9, StayTyped DEF Verdict, Steps
<1>10. CASE Cleanup
  BY <1>1, <1>10, StayTyped DEF Cleanup, TypeInv, ProcessTyped
<1>11. CASE DiscoverGPUNodes
  <2>1. gpuNodes' \subseteq Nodes
    BY <1>1, <1>11, ControllerAssumption DEF DiscoverGPUNodes, ProcessTyped
  <2>2. step' \in Steps /\ ret' \in {ret, "ok", "error"}
    BY <1>11 DEF DiscoverGPUNodes, AfterDiscovery, Steps
  <2> QED
    BY <1>1, <1>11, <2>1, <2>2 DEF DiscoverGPUNodes, ProcessTyped
<1>12. CASE GpuCollect \/ NetCollect
  <2>1. PICK k \in {"gpu", "net"}, S \in SUBSET Nodes : collected' = [collected EXCEPT ![k] = S]
    BY <1>12, CollectedNodes DEF GpuCollect, NetCollect
  <2>2. collected' \in [{"gpu", "net"} -> SUBSET Nodes]
    BY <1>1, <2>1 DEF ProcessTyped
  <2>3. step' \in Steps
    BY <1>12 DEF GpuCollect, NetCollect, AfterGpuChecks, Steps
  <2> QED
    BY <1>1, <1>12, <2>2, <2>3 DEF GpuCollect, NetCollect, ProcessTyped
<1>13. CASE PingMeshTopology
  <2>1. pmNetReports' \in Reports
    BY <1>1, <1>13, StoredTopologyTyped
       DEF PingMeshTopology, RunPingMeshOn, SkipPingMesh, TypeInv, Inv, ResultsTyped, ProcessTyped
  <2>2. step' \in Steps
    BY <1>13 DEF PingMeshTopology, RunPingMeshOn, SkipPingMesh, AfterPingMesh, Steps
  <2> QED
    BY <1>1, <1>13, <2>1, <2>2 DEF PingMeshTopology, ProcessTyped
<1>14. CASE Cancel
  BY <1>1, <1>14 DEF Cancel, ProcessTyped
<1>15. CASE UNCHANGED vars
  BY <1>1, <1>15 DEF vars, ProcessTyped
<1> QED
  BY <1>2, <1>3, <1>4, <1>5, <1>6, <1>7, <1>8, <1>9, <1>10, <1>11, <1>12, <1>13, <1>14, <1>15
     DEF Next, RunStep

(* The types hold at first, *)
LEMMA TypeInvInit == Init => TypeInv
<1> SUFFICES ASSUME Init PROVE TypeInv
  OBVIOUS
<1>1. ClusterTyped /\ BoundsTyped
  <2>1. runs \in 0 .. MaxRuns /\ storedRun \in 0 .. MaxRuns /\ faults \in 0 .. MaxFaults
    BY ControllerAssumption DEF Init
  <2>2. jobs = {} /\ rbac = {} /\ failuresCM \in BOOLEAN
    BY DEF Init
  <2> QED
    BY <2>1, <2>2 DEF ClusterTyped, BoundsTyped
<1>2. ProcessTyped
  BY NoReportsTyped DEF Init, ProcessTyped, NoneCollected, Steps
<1> QED
  BY <1>1, <1>2, InvInit DEF TypeInv

(* and every step keeps them. *)
LEMMA TypeInvStep == TypeInv /\ [Next]_vars => TypeInv'
BY InvStep, JobsStep, ObjectsStep, BoundsStep, ProcessStep DEF TypeInv, ClusterTyped, BoundsTyped

(* The inductive invariant behind the theorems of this module. *)
THEOREM TypeInvariance == Spec => []TypeInv
BY TypeInvInit, TypeInvStep, PTL DEF Spec

(* The state of the cluster and of the process has its type, in every run  *)
(* of any sequence.                                                        *)
THEOREM TypeCorrect == Spec => []TypeOK
BY TypeInvariance, TypeInvImpliesTypeOK, PTL

-----------------------------------------------------------------------------
(* However a run returns once the cleanup is registered, whatever jobs it  *)
(* or an earlier run had created: they are gone, and so are the RBAC       *)
(* objects, unless it was killed, is for debugging, or a call fails.       *)
THEOREM NothingIsLeftBehind == Spec => NothingLeftBehind
<1>1. ASSUME TypeInv, [Next]_vars,
             step \notin {"idle", "cleanPrevious", "namespace", "rbac"},
             step' = "idle", ret' # "killed", ~debug, faults' = faults
      PROVE  jobs' = {} /\ rbac' = {}
  <2>1. ~Fault
    BY <1>1 DEF Fault, TypeInv, BoundsTyped
  <2>2. DeferredCleanup
    BY <1>1 DEF Next, RunStep, Start, CleanPrevious, EnsureNamespace, EnsureRBAC, EnsureConfig,
                Tier1, DiscoverGPUNodes, AfterDiscovery, GpuDeploy, NetDeploy,
                DeployNodeCheckJobs, GpuCollect, AfterGpuChecks, NetCollect, NetDone, Probe,
                PingMeshTopology, RunPingMeshOn, SkipPingMesh, PingMesh, AfterPingMesh, Bandwidth,
                BandwidthJobs,
                StoreReport, Verdict, Cancel, Kill, Cleanup, Exit, Return, Goto, vars
  <2>3. DeleteJobs(Kinds) /\ rbac' = {}
    BY <1>1, <2>1, <2>2 DEF DeferredCleanup, CleanupAll
  <2>4. jobs' = {j \in jobs : j[1] \notin Kinds}
    BY <1>1, <2>1, <2>3, DeleteFacts DEF DeleteJobs
  <2> QED
    BY <1>1, <2>3, <2>4 DEF TypeInv, ClusterTyped
<1>2. TypeInv /\ [Next]_vars =>
        [(/\ step \notin {"idle", "cleanPrevious", "namespace", "rbac"}
          /\ step' = "idle" /\ ret' # "killed" /\ ~debug /\ faults' = faults)
           => jobs' = {} /\ rbac' = {}]_vars
  BY <1>1
<1> QED
  BY <1>2, TypeInvariance, PTL DEF Spec, NothingLeftBehind

(* No run of any sequence, whatever it checks itself and wherever it is    *)
(* interrupted, takes the nodes, jobs or mesh section out of the stored    *)
(* report.                                                                 *)
THEOREM SectionsStay == Spec => StoredSectionsStay
<1> DEFINE Kept == /\ Reported(stored.nodes) # {} => Reported(stored'.nodes) # {}
                   /\ stored.jobs # "none" => stored'.jobs # "none"
                   /\ stored.mesh # "none" => stored'.mesh # "none"
<1>1. ASSUME TypeInv, [Next]_vars PROVE Kept
  <2>1. CASE stored' = stored
    BY <2>1
  <2>2. CASE stored' # stored
    <3>1. StoreReport
      BY <1>1, <2>2
         DEF Next, RunStep, Start, CleanPrevious, EnsureNamespace, EnsureRBAC, EnsureConfig, Tier1,
             DiscoverGPUNodes, GpuDeploy, GpuCollect, NetDeploy, NetCollect, NetDone, Probe,
             PingMeshTopology, PingMesh, Bandwidth, BandwidthJobs, Verdict, DeferredCleanup,
             Cancel, Kill,
             Cleanup, clusterVars, vars
    <3>2. stored' = MergePreserving(current', stored)
      BY <2>2, <3>1 DEF StoreReport
    <3>3. current' \in StoredReports
      BY <1>1, InvStep DEF TypeInv, BoundsTyped, Inv, ResultsTyped
    <3>4. /\ stored'.nodes = IF Reported(current'.nodes) = {} THEN stored.nodes ELSE current'.nodes
          /\ stored'.jobs = IF current'.jobs = "none" THEN stored.jobs ELSE current'.jobs
          /\ stored'.mesh = IF current'.mesh = "none" THEN stored.mesh ELSE current'.mesh
      BY <3>2, <3>3 DEF MergePreserving, StoredReports
    <3> QED
      BY <3>4
  <2> QED
    BY <2>1, <2>2
<1>2. TypeInv /\ [Next]_vars => [Kept]_vars
  BY <1>1
<1> QED
  BY <1>2, TypeInvariance, PTL DEF Spec, StoredSectionsStay

-----------------------------------------------------------------------------
(* Net reports of all GPU nodes that were loaded, not collected. *)
Loaded ==
  /\ collected["net"] = {}
  /\ Reported(netReports) = gpuNodes
  /\ TopologyCoversAllNodes(netReports, gpuNodes)

(* The nodes that reported are the ones whose reports are counted, but for *)
(* net reports that the bandwidth step took from storage.                  *)
Counted ==
  /\ collected["gpu"] = Reported(gpuReports)
  /\ step \in BeforeJobs \/ ~NeedBandwidth(mode) => collected["net"] = Reported(netReports)
  /\ collected["net"] = Reported(netReports) \/ Loaded

(* A run has nothing of the phases that its mode leaves out. *)
AsNeeded ==
  /\ ~NeedGpuChecks(mode) =>
       step \notin {"gpuDeploy", "gpuCollect"} /\ gpuReports = NoReports
  /\ ~NeedNetChecks(mode) =>
       step \notin {"netDeploy", "netCollect", "netDone", "probe"} /\ collected["net"] = {}
  /\ ~NeedPingMesh(mode) => step # "mesh" /\ current.mesh = "none"
  /\ ~NeedBandwidth(mode) => step # "bandwidth"

CountInv == TypeInv /\ Counted /\ AsNeeded

(* Nobody is in the report of nobody. *)
LEMMA NobodyReported == Reported(NoReports) = {}
BY DEF Reported

(* A stored topology that is loaded is that of all GPU nodes. *)
LEMMA StoredTopologyNodes ==
  ASSUME gpuNodes \subseteq Nodes, StoredTopologyComplete
  PROVE  Reported(StoredTopology) = gpuNodes
<1>1. \A n \in Nodes : StoredTopology[n] =
        IF n \in gpuNodes /\ ExtractTopology(stored.nodes[n]) THEN stored.nodes[n] ELSE NoReports[n]
  BY DEF StoredTopology
<1>2. \A n \in Nodes : ~ExtractTopology(NoReports[n])
  BY DEF ExtractTopology, NoReports
<1>3. \A n \in gpuNodes : ExtractTopology(StoredTopology[n])
  BY DEF StoredTopologyComplete, TopologyCoversAllNodes
<1>4. \A n \in gpuNodes : StoredTopology[n] # NoReports[n]
  BY <1>2, <1>3
<1> QED
  BY <1>1, <1>4 DEF Reported

(* A step keeps who was counted, *)
LEMMA CountedStep == CountInv /\ [Next]_vars => Counted'
<1> SUFFICES ASSUME CountInv, [Next]_vars PROVE Counted'
  OBVIOUS
<1> USE DEF processVars, optionVars, resultVars, historyVars, clusterVars, Goto, Return,
            BeforeTier1, BeforeGpu, BeforeNet, BeforeMesh, BeforeJobs
<1>1. Counted /\ collected \in [{"gpu", "net"} -> SUBSET Nodes]
  BY DEF CountInv, TypeInv, ProcessTyped
<1>2. ASSUME NEW r, Exit(r) PROVE Counted'
  BY <1>2, NobodyReported DEF Exit, Counted, NoneCollected
<1>3. CASE GpuCollect
  <2>1. collected' = [collected EXCEPT !["gpu"] = Reported(gpuReports')] /\ UNCHANGED netReports
    BY <1>3 DEF GpuCollect
  <2>2. Reported(netReports)' = Reported(netReports)
    BY <2>1 DEF Reported
  <2> QED
    BY <1>1, <1>3, <2>1, <2>2 DEF GpuCollect, AfterGpuChecks, Counted, Reported
<1>4. CASE NetCollect
  <2>1. collected' = [collected EXCEPT !["net"] = Reported(netReports')] /\ UNCHANGED gpuReports
    BY <1>4 DEF NetCollect
  <2> QED
    BY <1>1, <1>4, <2>1 DEF NetCollect, Counted, Reported
<1>5. CASE Bandwidth
  <2>1. /\ UNCHANGED <<collected, gpuReports, gpuNodes, mode>>
        /\ step = "bandwidth" /\ step' = "store" /\ NeedBandwidth(mode)
    BY <1>5 DEF Bandwidth, BandwidthJobs, CountInv, AsNeeded
  <2>2. Reported(gpuReports)' = Reported(gpuReports)
    BY <2>1 DEF Reported
  <2>3. collected["net"] = Reported(netReports)
    BY <1>1, <2>1 DEF Counted
  <2>4. CASE UNCHANGED netReports
    BY <1>1, <2>1, <2>2, <2>3, <2>4 DEF Counted, Reported
  <2>5. CASE Reported(netReports) = {} /\ StoredTopologyComplete /\ netReports' = StoredTopology
    <3>1. Reported(netReports)' = gpuNodes
      <4>1. Reported(netReports') = gpuNodes
        BY <2>5, StoredTopologyNodes DEF CountInv, TypeInv, ProcessTyped
      <4> QED
        BY <4>1 DEF Reported
    <3>2. Loaded'
      BY <2>1, <2>3, <2>5, <3>1
         DEF Loaded, StoredTopologyComplete, TopologyCoversAllNodes
    <3> QED
      BY <1>1, <2>1, <2>2, <3>2 DEF Counted
  <2> QED
    BY <1>5, <2>4, <2>5 DEF Bandwidth
<1>6. ASSUME UNCHANGED <<collected, gpuReports, netReports>>,
             step' \in BeforeJobs => step \in BeforeJobs,
             UNCHANGED <<mode, gpuNodes>> \/ step \in BeforeJobs
      PROVE  Counted'
  BY <1>1, <1>6 DEF Counted, Loaded, TopologyCoversAllNodes, Reported
<1>7. CASE \E m \in Modes, d \in BOOLEAN : Start(m, d)
  BY <1>6, <1>7 DEF Start
<1>8. CASE CleanPrevious \/ EnsureConfig \/ Tier1 \/ DiscoverGPUNodes \/ GpuDeploy \/ NetDeploy
  BY <1>6, <1>8 DEF CleanPrevious, EnsureConfig, Tier1, DiscoverGPUNodes, AfterDiscovery,
                    GpuDeploy,
                    NetDeploy, DeployNodeCheckJobs
<1>9. CASE NetDone \/ Probe \/ PingMeshTopology \/ PingMesh
  BY <1>6, <1>9 DEF NetDone, Probe, PingMeshTopology, RunPingMeshOn, SkipPingMesh, AfterPingMesh,
                    PingMesh
<1>10. CASE StoreReport \/ Verdict \/ Cancel \/ Cleanup \/ UNCHANGED vars
  BY <1>6, <1>10 DEF StoreReport, Verdict, Cancel, Cleanup, vars
<1>11. CASE EnsureNamespace \/ EnsureRBAC \/ DeferredCleanup \/ Kill
  BY <1>2, <1>6, <1>11 DEF EnsureNamespace, EnsureRBAC, DeferredCleanup, Kill
<1> QED
  BY <1>3, <1>4, <1>5, <1>7, <1>8, <1>9, <1>10, <1>11 DEF Next, RunStep

(* and that a run has nothing of the phases that its mode leaves out. *)
LEMMA AsNeededStep == CountInv /\ [Next]_vars => AsNeeded'
<1> SUFFICES ASSUME CountInv, [Next]_vars PROVE AsNeeded'
  OBVIOUS
<1> USE DEF processVars, optionVars, resultVars, historyVars, clusterVars, Goto, Return,
            BeforeTier1, BeforeGpu, BeforeNet, BeforeMesh, BeforeJobs
<1>1. AsNeeded /\ SetOnce /\ current \in StoredReports
  BY DEF CountInv, TypeInv, Inv, ResultsTyped
<1>2. ASSUME NEW r, Exit(r) PROVE AsNeeded'
  BY <1>2 DEF Exit, AsNeeded, NoneCollected, EmptyReport
<1>3. ASSUME UNCHANGED <<mode, gpuReports, collected>>, current'.mesh = current.mesh,
             \/ step' = step
             \/ /\ ~NeedGpuChecks(mode) => step' \notin {"gpuDeploy", "gpuCollect"}
                /\ ~NeedNetChecks(mode) =>
                     step' \notin {"netDeploy", "netCollect", "netDone", "probe"}
                /\ ~NeedPingMesh(mode) => step' # "mesh"
                /\ ~NeedBandwidth(mode) => step' # "bandwidth"
      PROVE  AsNeeded'
  BY <1>1, <1>3 DEF AsNeeded
<1>4. CASE \E m \in Modes, d \in BOOLEAN : Start(m, d)
  <2>1. collected["net"] = {}
    BY <1>1, <1>4, NobodyReported DEF Start, SetOnce, CountInv, Counted
  <2> QED
    BY <1>1, <1>4, <2>1 DEF Start, AsNeeded, SetOnce
<1>5. CASE CleanPrevious \/ EnsureConfig
  BY <1>3, <1>5 DEF CleanPrevious, EnsureConfig
<1>6. CASE Tier1
  <2>1. current'.mesh = current.mesh
    BY <1>1, <1>6 DEF Tier1, StoredReports
  <2> QED
    BY <1>3, <1>6, <2>1 DEF Tier1
<1>7. CASE DiscoverGPUNodes
  BY <1>3, <1>7 DEF DiscoverGPUNodes, AfterDiscovery
<1>8. CASE GpuDeploy \/ NetDeploy
  BY <1>1, <1>3, <1>8 DEF GpuDeploy, NetDeploy, DeployNodeCheckJobs, AsNeeded
<1>9. CASE GpuCollect
  <2>1. NeedGpuChecks(mode) /\ collected'["net"] = collected["net"]
    BY <1>1, <1>9 DEF GpuCollect, AsNeeded, CountInv, TypeInv, ProcessTyped
  <2> QED
    BY <1>1, <1>9, <2>1 DEF GpuCollect, AfterGpuChecks, AsNeeded
<1>10. CASE NetCollect
  <2>1. NeedNetChecks(mode)
    BY <1>1, <1>10 DEF NetCollect, AsNeeded
  <2> QED
    BY <1>1, <1>10, <2>1 DEF NetCollect, AsNeeded
<1>11. CASE NetDone \/ Probe
  BY <1>1, <1>3, <1>11 DEF NetDone, Probe, AsNeeded
<1>12. CASE PingMeshTopology
  <2>1. ~NeedPingMesh(mode) => UNCHANGED current
    BY <1>12 DEF PingMeshTopology
  <2>2. step' \in {"mesh", "bandwidth", "store"} /\ (step' = "bandwidth" => NeedBandwidth(mode))
        /\ (step' = "mesh" => NeedPingMesh(mode))
    BY <1>12 DEF PingMeshTopology, RunPingMeshOn, SkipPingMesh, AfterPingMesh
  <2> QED
    BY <1>1, <1>12, <2>1, <2>2 DEF PingMeshTopology, AsNeeded
<1>13. CASE PingMesh
  <2>1. NeedPingMesh(mode) /\ step' \in {"bandwidth", "store"}
        /\ (step' = "bandwidth" => NeedBandwidth(mode))
    BY <1>1, <1>13 DEF PingMesh, AfterPingMesh, AsNeeded
  <2> QED
    BY <1>1, <1>13, <2>1 DEF PingMesh, AsNeeded
<1>14. CASE Bandwidth \/ StoreReport
  <2>1. current'.mesh = current.mesh
    BY <1>1, <1>14 DEF Bandwidth, BandwidthJobs, StoreReport, StoredReports
  <2> QED
    BY <1>3, <1>14, <2>1 DEF Bandwidth, BandwidthJobs, StoreReport
<1>15. CASE Verdict \/ Cancel \/ Cleanup \/ UNCHANGED vars
  BY <1>1, <1>3, <1>15 DEF Verdict, Cancel, Cleanup, vars, AsNeeded
<1>16. CASE EnsureNamespace \/ EnsureRBAC \/ DeferredCleanup \/ Kill
  BY <1>2, <1>3, <1>16 DEF EnsureNamespace, EnsureRBAC, DeferredCleanup, Kill
<1> QED
  BY <1>4, <1>5, <1>6, <1>7, <1>8, <1>9, <1>10, <1>11, <1>12, <1>13, <1>14, <1>15, <1>16
     DEF Next, RunStep

(* Together with the types: "collected" is what the reports name, unless   *)
(* they were loaded, and phases that the mode leaves out leave nothing.    *)
THEOREM CountInvariance == Spec => []CountInv
<1>1. Init => CountInv
  BY TypeInvInit, NobodyReported, EmptyReportTyped
     DEF CountInv, Init, Counted, AsNeeded, NoneCollected
<1>2. CountInv /\ [Next]_vars => CountInv'
  BY TypeInvStep, CountedStep, AsNeededStep DEF CountInv
<1> QED
  BY <1>1, <1>2, PTL DEF Spec

(* A set of nodes that is counted as large as the GPU nodes, and has no    *)
(* other nodes, has all of them.                                           *)
LEMMA AllReported ==
  ASSUME NEW S, NEW T, IsFiniteSet(T), S \subseteq T, Cardinality(S) >= Cardinality(T)
  PROVE  S = T
<1>1. /\ Cardinality(S) <= Cardinality(T)
      /\ Cardinality(S) = Cardinality(T) => S = T
      /\ IsFiniteSet(S)
  BY FS_Subset, Zenon
<1>2. Cardinality(S) \in Nat /\ Cardinality(T) \in Nat
  BY <1>1, FS_CardinalityType
<1> QED
  BY <1>1, <1>2

(* What the verdict of a run with one kind of node check says.             *)
LEMMA VerdictCounts ==
  ASSUME CountInv, RunSucceeds, mode \in {"gpu", "rdma-node"}
  PROVE  LET nodes == collected[IF mode = "gpu" THEN "gpu" ELSE "net"]
         IN  nodes \subseteq gpuNodes => nodes = gpuNodes
<1> DEFINE nodes == collected[IF mode = "gpu" THEN "gpu" ELSE "net"]
<1>1. IsFiniteSet(gpuNodes)
  BY ControllerAssumption, FS_Subset DEF CountInv, TypeInv, ProcessTyped
<1>2. current.mesh = "none"
  BY DEF CountInv, AsNeeded, NeedPingMesh
<1>3. Cardinality(gpuNodes) \in Nat
  BY <1>1, FS_CardinalityType
<1>4. Cardinality({}) = 0
  BY FS_EmptySet
<1>5. Cardinality(nodes) \in Nat
  <2>1. nodes \subseteq Nodes
    BY DEF CountInv, TypeInv, ProcessTyped
  <2> QED
    BY <2>1, ControllerAssumption, FS_Subset, FS_CardinalityType
<1>6. ActualReports = Cardinality(nodes) /\ ExpectedReports = Cardinality(gpuNodes)
  <2>1. CASE mode = "gpu"
    <3>1. Reported(netReports) = {} /\ nodes = Reported(gpuReports)
      BY <2>1 DEF CountInv, AsNeeded, Counted, NeedNetChecks, NeedBandwidth
    <3> QED
      BY <2>1, <3>1, <1>3, <1>4, <1>5
         DEF ActualReports, ExpectedReports, NeedGpuChecks, NeedNetChecks
  <2>2. CASE mode = "rdma-node"
    <3>1. Reported(gpuReports) = {} /\ nodes = Reported(netReports)
      BY <2>2, NobodyReported DEF CountInv, AsNeeded, Counted, NeedGpuChecks, NeedBandwidth
    <3> QED
      BY <2>2, <3>1, <1>3, <1>4, <1>5
         DEF ActualReports, ExpectedReports, NeedGpuChecks, NeedNetChecks
  <2> QED
    BY <2>1, <2>2
<1> HIDE DEF nodes
<1>7. Cardinality(nodes) >= Cardinality(gpuNodes)
  BY <1>2, <1>3, <1>5, <1>6 DEF RunSucceeds
<1>8. nodes \subseteq gpuNodes => nodes = gpuNodes
  BY <1>1, <1>7, AllReported
<1> QED
  BY <1>8 DEF nodes

(* A gpu or rdma-node run succeeds only if every GPU node reported to it,  *)
(* whichever reports were lost and whatever an earlier run left, unless    *)
(* jobs of other nodes were counted.                                       *)
THEOREM AllNodesReported == Spec => []EveryNodeReported
<1>1. Init => EveryNodeReported
  BY DEF Init, EveryNodeReported
<1>2. CountInv /\ EveryNodeReported /\ [Next]_vars => EveryNodeReported'
  <2> SUFFICES ASSUME CountInv, EveryNodeReported, [Next]_vars,
                      ret' = "ok", mode' \in {"gpu", "rdma-node"}
               PROVE  EveryNodeReported'
    BY DEF EveryNodeReported
  <2> USE DEF processVars, optionVars, resultVars, historyVars, clusterVars, Goto, Return
  <2>1. CASE Verdict
    <3>1. RunSucceeds /\ step = "verdict" /\ UNCHANGED <<mode, collected, gpuNodes>>
      BY <2>1 DEF Verdict
    <3>2. LET nodes == collected[IF mode = "gpu" THEN "gpu" ELSE "net"]
          IN  nodes \subseteq gpuNodes => nodes = gpuNodes
      BY <3>1, VerdictCounts
    <3> QED
      BY <3>1, <3>2 DEF EveryNodeReported
  <2>2. CASE DiscoverGPUNodes
    <3>1. gpuNodes' = {}
      BY <2>2 DEF DiscoverGPUNodes, CountInv, TypeInv, Inv, Undecided
    <3> QED
      BY <3>1 DEF EveryNodeReported
  <2>3. CASE ~Verdict /\ ~DiscoverGPUNodes
    <3>1. UNCHANGED <<ret, mode, collected, gpuNodes>>
      BY <2>3
         DEF Next, RunStep, Start, CleanPrevious, EnsureNamespace, EnsureRBAC, EnsureConfig, Tier1,
             GpuDeploy, NetDeploy, DeployNodeCheckJobs, GpuCollect, NetCollect, NetDone, Probe,
             PingMeshTopology, PingMesh, Bandwidth, BandwidthJobs, StoreReport, DeferredCleanup,
             Cancel, Kill,
             Cleanup, Exit, CountInv, TypeInv, Inv, Undecided, vars
    <3> QED
      BY <3>1 DEF EveryNodeReported
  <2> QED
    BY <2>1, <2>2, <2>3
<1> QED
  BY <1>1, <1>2, CountInvariance, PTL DEF Spec

-----------------------------------------------------------------------------
(* What the verdict says of a run in which some node reported. *)
LEMMA PartialVerdict ==
  ASSUME CountInv, RunSucceeds,
         collected["gpu"] \cup collected["net"] # {},
         collected["gpu"] \cup collected["net"] \subseteq gpuNodes
  PROVE  /\ NeedGpuChecks(mode) => collected["gpu"] = gpuNodes
         /\ NeedNetChecks(mode) =>
              \/ collected["net"] = gpuNodes
              \/ collected["net"] = {} /\ TopologyCoversAllNodes(netReports, gpuNodes)
<1> DEFINE gpu == Reported(gpuReports)
           net == Reported(netReports)
<1>1. IsFiniteSet(gpuNodes) /\ Cardinality(gpuNodes) \in Nat
  BY ControllerAssumption, FS_Subset, FS_CardinalityType DEF CountInv, TypeInv, ProcessTyped
<1>2. /\ collected["gpu"] = gpu
      /\ collected["net"] = net \/ (collected["net"] = {} /\ net = gpuNodes
                                     /\ TopologyCoversAllNodes(netReports, gpuNodes))
  BY DEF CountInv, Counted, Loaded
<1> HIDE DEF gpu, net
<1>3. gpu \subseteq gpuNodes /\ net \subseteq gpuNodes /\ gpu \cup net # {}
  BY <1>2
<1>4. /\ Cardinality(gpu) \in Nat /\ Cardinality(gpu) <= Cardinality(gpuNodes)
      /\ Cardinality(net) \in Nat /\ Cardinality(net) <= Cardinality(gpuNodes)
  BY <1>1, <1>3, FS_Subset, FS_CardinalityType
<1>5. Cardinality(gpu) + Cardinality(net) > 0
  <2>1. ASSUME NEW S, S \subseteq gpuNodes, Cardinality(S) = 0 PROVE S = {}
    BY <1>1, <2>1, FS_Subset, FS_EmptySet
  <2>2. gpu # {} \/ net # {}
    BY <1>3
  <2>3. Cardinality(gpu) # 0 \/ Cardinality(net) # 0
    BY <1>3, <2>1, <2>2
  <2> QED
    BY <1>4, <2>3
<1>6. Cardinality(gpu) + Cardinality(net) >= ExpectedReports
  <2>1. ActualReports = Cardinality(gpu) + Cardinality(net)
    BY DEF ActualReports, gpu, net
  <2>2. ExpectedReports \in Int
    BY <1>1 DEF ExpectedReports
  <2> QED
    BY <1>4, <1>5, <2>1, <2>2 DEF RunSucceeds
<1>7. ASSUME NeedGpuChecks(mode), NeedNetChecks(mode) PROVE gpu = gpuNodes /\ net = gpuNodes
  <2>1. ExpectedReports = 2 * Cardinality(gpuNodes)
    BY <1>1, <1>7 DEF ExpectedReports
  <2>2. Cardinality(gpu) >= Cardinality(gpuNodes) /\ Cardinality(net) >= Cardinality(gpuNodes)
    BY <1>1, <1>4, <1>6, <2>1
  <2> QED
    BY <1>1, <1>3, <2>2, AllReported
<1>8. ASSUME NeedGpuChecks(mode), ~NeedNetChecks(mode) PROVE gpu = gpuNodes
  <2>1. ExpectedReports = Cardinality(gpuNodes)
    BY <1>1, <1>8 DEF ExpectedReports
  <2>2. ~NeedBandwidth(mode)
    BY <1>8 DEF NeedGpuChecks, NeedNetChecks, NeedBandwidth
  <2>3. net = {}
    BY <1>8, <2>2 DEF CountInv, Counted, AsNeeded, net
  <2>4. Cardinality(gpu) >= Cardinality(gpuNodes)
    BY <1>1, <1>4, <1>6, <2>1, <2>3, FS_EmptySet
  <2> QED
    BY <1>1, <1>3, <2>4, AllReported
<1>9. ASSUME ~NeedGpuChecks(mode), NeedNetChecks(mode) PROVE net = gpuNodes
  <2>1. ExpectedReports = Cardinality(gpuNodes)
    BY <1>1, <1>9 DEF ExpectedReports
  <2>2. gpu = {}
    BY <1>9, NobodyReported DEF CountInv, AsNeeded, gpu
  <2>3. Cardinality(net) >= Cardinality(gpuNodes)
    BY <1>1, <1>4, <1>6, <2>1, <2>2, FS_EmptySet
  <2> QED
    BY <1>1, <1>3, <2>3, AllReported
<1> QED
  BY <1>2, <1>7, <1>8, <1>9

(* A run in which some node reported succeeds only if every GPU node did,  *)
(* in each phase that its mode asks for, whichever reports were lost and   *)
(* whatever the bandwidth step took from storage; loaded reports may stand *)
(* in for a whole phase only.                                              *)
THEOREM PartialResultsAreErrors == Spec => []PartialResultsFail
<1>1. Init => PartialResultsFail
  BY DEF Init, PartialResultsFail
<1>2. CountInv /\ PartialResultsFail /\ [Next]_vars => PartialResultsFail'
  <2> SUFFICES ASSUME CountInv, PartialResultsFail, [Next]_vars, ret' = "ok"
               PROVE  PartialResultsFail'
    BY DEF PartialResultsFail
  <2> USE DEF processVars, optionVars, resultVars, historyVars, clusterVars, Goto, Return
  <2>1. CASE Verdict
    <3>1. RunSucceeds /\ UNCHANGED <<mode, collected, gpuNodes, netReports>>
      BY <2>1 DEF Verdict
    <3>2. TopologyCoversAllNodes(netReports, gpuNodes)' = TopologyCoversAllNodes(netReports, gpuNodes)
      BY <3>1 DEF TopologyCoversAllNodes
    <3> QED
      BY <3>1, <3>2, PartialVerdict DEF PartialResultsFail
  <2>2. CASE DiscoverGPUNodes
    <3>1. gpuNodes' = {}
      BY <2>2 DEF DiscoverGPUNodes, CountInv, TypeInv, Inv, Undecided
    <3> QED
      BY <3>1 DEF PartialResultsFail
  <2>3. ASSUME NEW r, Exit(r) PROVE PartialResultsFail'
    BY <2>3 DEF Exit, NoneCollected, PartialResultsFail
  <2>4. ASSUME UNCHANGED <<ret, mode, collected, gpuNodes, netReports>>
        PROVE  PartialResultsFail'
    BY <2>4 DEF PartialResultsFail, TopologyCoversAllNodes
  <2>5. CASE EnsureNamespace \/ EnsureRBAC \/ DeferredCleanup \/ Kill
    BY <2>3, <2>4, <2>5 DEF EnsureNamespace, EnsureRBAC, DeferredCleanup, Kill
  <2>6. CASE ~(Verdict \/ DiscoverGPUNodes \/ EnsureNamespace \/ EnsureRBAC
                 \/ DeferredCleanup \/ Kill)
    <3>1. UNCHANGED <<ret, mode, collected, gpuNodes, netReports>>
      BY <2>6
         DEF Next, RunStep, Start, CleanPrevious, EnsureConfig, Tier1, GpuDeploy, NetDeploy,
             DeployNodeCheckJobs, GpuCollect, NetCollect, NetDone, Probe, PingMeshTopology,
             PingMesh, Bandwidth, BandwidthJobs, StoreReport, Cancel, Cleanup, CountInv,
             TypeInv, Inv, Undecided, vars
    <3> QED
      BY <2>4, <3>1
  <2> QED
    BY <2>1, <2>2, <2>5, <2>6
<1> QED
  BY <1>1, <1>2, CountInvariance, PTL DEF Spec

-----------------------------------------------------------------------------
(* The topologies in the stored report are those of the latest run that    *)
(* stored any.                                                             *)
StoredDated ==
  \A n \in Nodes : ExtractTopology(stored.nodes[n]) => stored.nodes[n].run = storedRun

(* The mesh has no topologies before its step. *)
NoMeshYet == step \in BeforeNet => pmNetReports = NoReports

DateInv == CountInv /\ StoredDated /\ NoMeshYet /\ TopologyIsLatest

(* Rows with a topology in reports that Run holds are of the run r. *)
DatedAs(reports, r) == \A n \in Nodes : ExtractTopology(reports[n]) => reports[n].run = r

(* Reports of nobody are of any run. *)
LEMMA NobodyDated == \A r : DatedAs(NoReports, r)
BY DEF DatedAs, ExtractTopology, NoReports

(* What is loaded is of the run that was stored last. *)
LEMMA StoredTopologyDated ==
  ASSUME StoredDated
  PROVE  DatedAs(StoredTopology, storedRun)
BY DEF StoredDated, DatedAs, StoredTopology, ExtractTopology, NoReports

(* What is collected is of this run. *)
LEMMA CollectedDated ==
  ASSUME NEW r \in Collect("net", NetReportRows)
  PROVE  /\ DatedAs(r, runs)
         /\ Reported(r) = {} => \A n \in Nodes : ~ExtractTopology(r[n])
BY DEF Collect, NetReportRows, DatedAs, ExtractTopology, Reported, NoReports

(* Which run the topologies must be of. *)
Latest == IF collected["net"] # {} THEN runs ELSE storedRun

(* The property in terms of the above. *)
LEMMA LatestDated ==
  TopologyIsLatest <=> DatedAs(netReports, Latest) /\ DatedAs(pmNetReports, Latest)
BY DEF TopologyIsLatest, DatedAs, Latest

(* A node that reported to the net check reports in the merged reports,    *)
(* and its topology there is that of its net check.                        *)
LEMMA MergedDated ==
  ASSUME NEW gpu \in Reports, NEW net \in Reports, NEW r, DatedAs(net, r)
  PROVE  /\ DatedAs(MergeNodeReports(gpu, net), r)
         /\ Reported(net) \subseteq Reported(MergeNodeReports(gpu, net))
<1> DEFINE merged == MergeNodeReports(gpu, net)
<1>1. \A n \in Nodes : /\ merged[n].gpu = MergeGpuRow(gpu[n].gpu, net[n].gpu)
                       /\ merged[n].net = net[n].net
                       /\ merged[n].run = net[n].run
  BY DEF MergeNodeReports
<1> HIDE DEF merged
<1>2. DatedAs(merged, r)
  BY <1>1 DEF DatedAs, ExtractTopology
<1>3. ASSUME NEW n \in Reported(net) PROVE n \in Reported(merged)
  <2>1. n \in Nodes /\ net[n] \in [gpu : GpuRows, net : NetRows, run : Nat]
    BY DEF Reported, Reports
  <2>2. net[n].gpu # "none" \/ net[n].net # "none" \/ net[n].run # 0
    BY <2>1 DEF Reported, NoReports
  <2>3. net[n].gpu # "none" => merged[n].gpu # "none"
    BY <1>1, <2>1 DEF MergeGpuRow
  <2> QED
    BY <1>1, <2>1, <2>2, <2>3 DEF Reported, NoReports
<1> QED
  BY <1>2, <1>3 DEF merged

(* After the report is stored, *)
LEMMA StoreDated == DateInv /\ StoreReport => StoredDated' /\ TopologyIsLatest'
<1> SUFFICES ASSUME DateInv, StoreReport PROVE StoredDated' /\ TopologyIsLatest'
  OBVIOUS
<1> DEFINE nodes == MergeNodeReports(gpuReports, netReports)
<1>1. /\ UNCHANGED <<netReports, pmNetReports, collected, runs>>
      /\ current' = [current EXCEPT !.nodes = nodes]
      /\ stored' \in {stored, MergePreserving(current', stored)}
      /\ storedRun' = IF stored' # stored /\ collected["net"] # {} THEN runs ELSE storedRun
  BY DEF StoreReport
<1>2. DatedAs(netReports, Latest) /\ DatedAs(pmNetReports, Latest)
  BY LatestDated DEF DateInv
<1>3. DatedAs(nodes, Latest) /\ Reported(netReports) \subseteq Reported(nodes)
  BY <1>2, MergedDated DEF DateInv, CountInv, TypeInv, Inv, ResultsTyped
<1> HIDE DEF nodes
<1>4. Latest' = Latest
  BY <1>1 DEF Latest
<1>5. TopologyIsLatest'
  BY <1>1, <1>2, <1>4, LatestDated DEF TopologyIsLatest, DatedAs, Latest
<1>6. CASE stored' = stored
  BY <1>1, <1>5, <1>6 DEF DateInv, StoredDated
<1>7. CASE stored' # stored
  <2>1. /\ current \in StoredReports /\ stored \in StoredReports
        /\ current'.nodes = nodes
    BY <1>1 DEF DateInv, CountInv, TypeInv, Inv, ResultsTyped, StoredReports
  <2>2. stored' = MergePreserving(current', stored)
    BY <1>1, <1>7
  <2>3. current' \in StoredReports
    BY InvStep
       DEF DateInv, CountInv, TypeInv, BoundsTyped, Inv, ResultsTyped, Next, RunStep
  <2>4. stored'.nodes = IF Reported(nodes) = {} THEN stored.nodes ELSE nodes
    BY <2>1, <2>2, <2>3 DEF MergePreserving, StoredReports
  <2>5. CASE collected["net"] = {}
    <3>1. storedRun' = storedRun /\ Latest = storedRun
      BY <1>1, <2>5 DEF Latest
    <3> QED
      BY <1>3, <1>5, <2>4, <3>1 DEF DateInv, StoredDated, DatedAs
  <2>6. CASE collected["net"] # {}
    <3>1. storedRun' = runs /\ Latest = runs
      BY <1>1, <1>7, <2>6 DEF Latest
    <3>2. Reported(nodes) # {}
      BY <1>3, <2>6 DEF DateInv, CountInv, Counted, Loaded
    <3> QED
      BY <1>3, <1>5, <2>4, <3>1, <3>2 DEF StoredDated, DatedAs
  <2> QED
    BY <2>5, <2>6
<1> QED
  BY <1>6, <1>7

(* and after every other step, the topologies are of the latest run.       *)
LEMMA DateStep == DateInv /\ [Next]_vars => (StoredDated /\ NoMeshYet /\ TopologyIsLatest)'
<1> SUFFICES ASSUME DateInv, [Next]_vars PROVE (StoredDated /\ NoMeshYet /\ TopologyIsLatest)'
  OBVIOUS
<1> USE DEF processVars, optionVars, resultVars, historyVars, clusterVars, Goto, Return,
            BeforeTier1, BeforeGpu, BeforeNet
<1>1. /\ StoredDated /\ NoMeshYet /\ AsNeeded /\ Counted
      /\ DatedAs(netReports, Latest) /\ DatedAs(pmNetReports, Latest)
  BY LatestDated DEF DateInv, CountInv
<1>2. ASSUME UNCHANGED <<stored, storedRun>> PROVE StoredDated'
  BY <1>1, <1>2 DEF StoredDated
<1>3. ASSUME DatedAs(netReports', Latest'), DatedAs(pmNetReports', Latest')
      PROVE  TopologyIsLatest'
  BY <1>3 DEF TopologyIsLatest, DatedAs, Latest
<1>4. ASSUME NEW r, Exit(r), UNCHANGED stored
      PROVE  (StoredDated /\ NoMeshYet /\ TopologyIsLatest)'
  BY <1>2, <1>3, <1>4, NobodyDated DEF Exit, NoMeshYet
<1>5. ASSUME UNCHANGED <<stored, storedRun, runs, collected, netReports, pmNetReports>>,
             step' \in BeforeNet => step \in BeforeNet
      PROVE  (StoredDated /\ NoMeshYet /\ TopologyIsLatest)'
  BY <1>1, <1>2, <1>3, <1>5 DEF NoMeshYet, Latest
<1>6. CASE \E m \in Modes, d \in BOOLEAN : Start(m, d)
  <2>1. netReports' = NoReports /\ pmNetReports' = NoReports /\ UNCHANGED <<stored, storedRun>>
    BY <1>1, <1>6 DEF Start, NoMeshYet, DateInv, CountInv, TypeInv, Inv, SetOnce
  <2> QED
    BY <1>2, <1>3, <2>1, NobodyDated DEF NoMeshYet
<1>7. CASE GpuCollect
  <2>1. collected'["net"] = collected["net"]
    BY <1>7 DEF GpuCollect, DateInv, CountInv, TypeInv, ProcessTyped
  <2>2. UNCHANGED <<stored, storedRun, runs, netReports, pmNetReports>> /\ step \in BeforeNet
    BY <1>7 DEF GpuCollect
  <2> QED
    BY <1>1, <1>2, <1>3, <2>1, <2>2 DEF NoMeshYet, Latest
<1>8. CASE NetCollect
  <2>1. /\ UNCHANGED <<stored, storedRun, runs>> /\ pmNetReports' = NoReports
        /\ netReports' \in Collect("net", NetReportRows)
        /\ collected'["net"] = Reported(netReports')
        /\ step' = "netDone"
    BY <1>1, <1>8 DEF NetCollect, NoMeshYet, DateInv, CountInv, TypeInv, ProcessTyped
  <2>2. DatedAs(netReports', Latest')
    BY <2>1, CollectedDated DEF DatedAs, Latest
  <2> QED
    BY <1>2, <1>3, <2>1, <2>2, NobodyDated DEF NoMeshYet
<1>9. CASE PingMeshTopology
  <2>1. /\ UNCHANGED <<stored, storedRun, runs, collected, netReports>>
        /\ step = "meshTopology" /\ step' \in {"mesh", "bandwidth", "store"}
        /\ \/ UNCHANGED pmNetReports
           \/ pmNetReports' = netReports
           \/ /\ ~NeedNetChecks(mode) \/ Reported(netReports) = {}
              /\ pmNetReports' = StoredTopology
    BY <1>9 DEF PingMeshTopology, RunPingMeshOn, SkipPingMesh, AfterPingMesh
  <2>2. pmNetReports' = StoredTopology => DatedAs(pmNetReports', Latest) \/ pmNetReports' = netReports
    <3>1. ASSUME ~NeedNetChecks(mode) \/ Reported(netReports) = {} PROVE collected["net"] = {}
      BY <1>1, <2>1, <3>1 DEF AsNeeded, Counted, BeforeJobs, BeforeMesh
    <3> QED
      BY <1>1, <2>1, <3>1, StoredTopologyDated DEF Latest
  <2>3. DatedAs(pmNetReports', Latest)
    BY <1>1, <2>1, <2>2
  <2>4. Latest' = Latest
    BY <2>1 DEF Latest
  <2> QED
    BY <1>1, <1>2, <1>3, <2>1, <2>3, <2>4 DEF NoMeshYet
<1>10. CASE Bandwidth
  <2>1. /\ UNCHANGED <<stored, storedRun, runs, collected, pmNetReports>>
        /\ step = "bandwidth" /\ step' = "store"
        /\ \/ UNCHANGED netReports
           \/ Reported(netReports) = {} /\ netReports' = StoredTopology
    BY <1>10 DEF Bandwidth, BandwidthJobs
  <2>2. Latest' = Latest
    BY <2>1 DEF Latest
  <2>3. DatedAs(netReports', Latest)
    <3>1. Reported(netReports) = {} => collected["net"] = {}
      BY <1>1, <2>1 DEF Counted, BeforeJobs
    <3> QED
      BY <1>1, <2>1, <3>1, StoredTopologyDated DEF Latest
  <2> QED
    BY <1>1, <1>2, <1>3, <2>1, <2>2, <2>3 DEF NoMeshYet
<1>11. CASE StoreReport
  <2>1. step' = "verdict"
    BY <1>11 DEF StoreReport
  <2> QED
    BY <1>11, <2>1, StoreDated DEF NoMeshYet
<1>12. CASE EnsureNamespace \/ EnsureRBAC \/ DeferredCleanup \/ Kill
  BY <1>4, <1>5, <1>12 DEF EnsureNamespace, EnsureRBAC, DeferredCleanup, Kill
<1>13. CASE \/ CleanPrevious \/ EnsureConfig \/ Tier1 \/ DiscoverGPUNodes \/ GpuDeploy
            \/ NetDeploy
  BY <1>5, <1>13 DEF CleanPrevious, EnsureConfig, Tier1, DiscoverGPUNodes, GpuDeploy, NetDeploy,
                     DeployNodeCheckJobs
<1>14. CASE NetDone \/ Probe \/ PingMesh \/ Verdict \/ Cancel \/ Cleanup \/ UNCHANGED vars
  BY <1>5, <1>14 DEF NetDone, Probe, PingMesh, AfterPingMesh, Verdict, Cancel, Cleanup, vars
<1> QED
  BY <1>6, <1>7, <1>8, <1>9, <1>10, <1>11, <1>12, <1>13, <1>14 DEF Next, RunStep

(* The mesh and the bandwidth jobs are never built from topologies of more *)
(* than one run, nor from older ones than there are, over any number of    *)
(* runs, whichever nodes reported to which of them.                        *)
THEOREM TopologiesAreLatest == Spec => []TopologyIsLatest
<1>1. Init => CountInv /\ StoredDated /\ NoMeshYet /\ TopologyIsLatest
  <2>1. Init => StoredDated /\ NoMeshYet
    BY DEF Init, StoredDated, NoMeshYet, EmptyReport, NoReports, ExtractTopology
  <2>2. Init => TopologyIsLatest
    BY DEF Init, TopologyIsLatest, NoReports, ExtractTopology
  <2>3. Init => CountInv
    BY TypeInvInit, NobodyReported, EmptyReportTyped
       DEF CountInv, Init, Counted, AsNeeded, NoneCollected
  <2> QED
    BY <2>1, <2>2, <2>3
<1>2. DateInv /\ [Next]_vars => DateInv'
  BY TypeInvStep, CountedStep, AsNeededStep, DateStep DEF DateInv, CountInv
<1> QED
  BY <1>1, <1>2, PTL DEF Spec, DateInv

=============================================================================
