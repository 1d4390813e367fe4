----------------------------- MODULE Controller -----------------------------
(***************************************************************************)
(* Controller.Run (pkg/controller/controller.go) and the commands around   *)
(* it, invoked again and again on one cluster.  What an invocation leaves  *)
(* in the cluster (jobs, RBAC objects, the report ConfigMap, the pingmesh  *)
(* failures ConfigMap) is what the next one starts from.                   *)
(*                                                                         *)
(* Each step of Run is an action, so that ^C, a failed API call or a       *)
(* killed process can come between two of them.  What the jobs of a phase  *)
(* report is chosen freely; RunJob and Pairwise model how jobs are run.    *)
(***************************************************************************)
EXTENDS NodeReports, Integers, Sequences

CONSTANTS
  Modes,       \* the values of Options.CheckMode tried
  NodeSets,    \* the results of discoverGPUNodes tried
  GpuOutcomes, \* the rows a GPU check job may come back with
  NetOutcomes, \* the rows an RDMA node check job may come back with
  OpenShift,   \* platform = PlatformOCP
  MaxRuns,     \* bound: invocations
  MaxFaults    \* bound: API calls that fail or lose their reply

ASSUME ControllerAssumption ==
  /\ Modes \subseteq {"gpu", "network", "rdma", "rdma-node", "rdma-ping",
                      "rdma-bandwidth", "all"}
  /\ NodeSets \subseteq SUBSET Nodes
  /\ IsFiniteSet(Nodes)
  /\ GpuOutcomes \subseteq GpuRows
  /\ NetOutcomes \subseteq NetRows
  /\ OpenShift \in BOOLEAN
  /\ MaxRuns \in Nat
  /\ MaxFaults \in Nat

NeedGpuChecks(m)  == m \in {"gpu", "all"}
NeedNetChecks(m)  == m \in {"rdma", "rdma-node", "all"}
NeedPingMesh(m)   == m \in {"rdma", "rdma-ping", "all"}
NeedBandwidth(m)  == m \in {"network", "rdma", "rdma-bandwidth", "all"}

(* The label selectors of deleteJobsBySelector. *)
Kinds == {"gpu", "net", "bwprobe", "bandwidth", "pingmesh"}

(* In the order in which EnsureRBAC and EnsureOpenShiftSCC create them, and *)
(* in the order in which cleanupAll deletes them.                          *)
CreateOrderWithNamespace == <<"namespace", "sa", "cr", "crb">> \* faulty: not skipped
CreateOrder == <<"sa", "cr", "crb", "scc">>
DeleteOrder == <<"sa", "crb", "scc", "cr">>
FirstOf(order, k) == {order[i] : i \in 1 .. k}

Steps == {"idle", "cleanPrevious", "namespace", "rbac", "config", "tier1",
          "discover", "gpuDeploy", "gpuCollect", "netDeploy", "netCollect",
          "netDone", "probe", "meshTopology", "mesh", "bandwidth", "store",
          "verdict", "cleanup"}

VARIABLES
  jobs,       \* <<k, n>>: node n has a job with label k
  rbac,       \* RBAC objects that exist
  stored,     \* report.json of the report ConfigMap, EmptyReport if there is none
  failuresCM, \* whether the pingmesh failures ConfigMap exists
  step,       \* where the invocation is, "idle" between invocations
  mode,       \* Options.CheckMode
  debug,      \* Options.Debug
  cancelled,  \* ctx.Done(): SIGINT or SIGTERM was received
  gpuNodes,   \* the discovered GPU nodes
  current,    \* clusterResults, jobResults, pingmeshReport, and at the end allReports
  gpuReports,
  netReports,
  pmNetReports,
  ret,        \* what the latest invocation returned
  collected,  \* nodes whose GPU, whose net job reported in this invocation (history)
  failSeen,   \* some check of this invocation came out FAIL (history)
  runs,
  storedRun,  \* the latest run that stored net reports it collected (history)
  faults

clusterVars == <<jobs, rbac, stored, failuresCM>>
optionVars  == <<mode, debug>>
resultVars  == <<gpuNodes, current, gpuReports, netReports, pmNetReports>>
historyVars == <<collected, failSeen, runs, storedRun>>
processVars == <<optionVars, cancelled, resultVars, historyVars>>
vars == <<clusterVars, step, processVars, ret, faults>>

TypeOK ==
  /\ jobs \subseteq Kinds \X Nodes
  /\ rbac \subseteq {"sa", "cr", "crb", "scc"}
  /\ stored \in StoredReports
  /\ failuresCM \in BOOLEAN
  /\ step \in Steps
  /\ mode \in Modes \cup {"none"}
  /\ debug \in BOOLEAN
  /\ cancelled \in BOOLEAN
  /\ gpuNodes \subseteq Nodes
  /\ current \in StoredReports
  /\ {gpuReports, netReports, pmNetReports} \subseteq Reports
  /\ ret \in {"none", "ok", "error", "killed"}
  /\ collected \in [{"gpu", "net"} -> SUBSET Nodes]
  /\ failSeen \in BOOLEAN
  /\ runs \in 0 .. MaxRuns
  /\ storedRun \in 0 .. MaxRuns
  /\ faults \in 0 .. MaxFaults

NoneCollected == [k \in {"gpu", "net"} |-> {}]

Init ==
  /\ jobs = {}
  /\ rbac = {}
  /\ stored = EmptyReport
  /\ failuresCM = FALSE
  /\ step = "idle"
  /\ mode = "none"
  /\ debug = FALSE
  /\ cancelled = FALSE
  /\ gpuNodes = {}
  /\ current = EmptyReport
  /\ gpuReports = NoReports
  /\ netReports = NoReports
  /\ pmNetReports = NoReports
  /\ ret = "none"
  /\ collected = NoneCollected
  /\ failSeen = FALSE
  /\ runs = 0
  /\ storedRun = 0
  /\ faults = 0

(* An API call may fail, or be carried out and lose its reply. *)
Fault == faults < MaxFaults /\ faults' = faults + 1
NoFault == UNCHANGED faults

(* A call given the ctx fails once ctx is done, before it reaches the API. *)
CtxCallOK == ~cancelled /\ NoFault
CtxCallFails == IF cancelled THEN NoFault ELSE Fault

Goto(s) == step' = s

(* The process ends, and with it all that it had in memory. *)
Exit(r) ==
  /\ Goto("idle")
  /\ ret' = r
  /\ mode' = "none"
  /\ debug' = FALSE
  /\ cancelled' = FALSE
  /\ gpuNodes' = {}
  /\ current' = EmptyReport
  /\ gpuReports' = NoReports
  /\ netReports' = NoReports
  /\ pmNetReports' = NoReports
  /\ collected' = NoneCollected
  /\ failSeen' = FALSE
  /\ UNCHANGED <<runs, storedRun>>

(* A return of Run once the defer statement was reached. *)
Return(r) == Goto("cleanup") /\ ret' = r

Start(m, d) ==
  /\ step = "idle"
  /\ runs < MaxRuns
  /\ runs' = runs + 1
  /\ mode' = m
  /\ debug' = d
  /\ ret' = "none"
  /\ Goto("cleanPrevious")
  /\ UNCHANGED <<clusterVars, cancelled, resultVars, collected, failSeen, storedRun, faults>>

(* deleteJobsBySelector, which uses its own context, for each label.  A    *)
(* List that fails is reported as success, and a failed Delete only logged. *)
DeleteJobsOf(present, kinds) ==
  LET selected == {j \in present : j[1] \in kinds}
  IN  \/ jobs' = present \ selected /\ NoFault
      \/ \E rest \in SUBSET selected :
           rest # {} /\ jobs' = (present \ selected) \cup rest /\ Fault

DeleteJobs(kinds) == DeleteJobsOf(jobs, kinds)

CleanPrevious ==
  /\ step = "cleanPrevious"
  /\ DeleteJobs(Kinds)
  /\ Goto("namespace")
  /\ UNCHANGED <<rbac, stored, failuresCM, processVars, ret>>

EnsureNamespace ==
  /\ step = "namespace"
  /\ \/ CtxCallOK /\ Goto("rbac") /\ UNCHANGED <<processVars, ret>>
     \/ CtxCallFails /\ Exit("error")
  /\ UNCHANGED clusterVars

(* An object that exists is left alone. *)
EnsureRBAC ==
  /\ step = "rbac"
  /\ \/ /\ CtxCallOK
        /\ rbac' = rbac \cup FirstOf(CreateOrder, 3)
        /\ Goto("config")
        /\ UNCHANGED <<processVars, ret>>
     \/ /\ CtxCallFails
        /\ \E k \in 0 .. 3 : rbac' = rbac \cup FirstOf(CreateOrder, k)
        /\ Exit("error")
  /\ UNCHANGED <<jobs, stored, failuresCM>>

(* detectAndCreateConfig, whose error is fatal, and on OpenShift the SCC   *)
(* binding, whose error is a warning.                                      *)
EnsureConfig ==
  /\ step = "config"
  /\ \/ /\ CtxCallOK
        /\ rbac' = rbac \cup (IF OpenShift THEN {"scc"} ELSE {})
        /\ Goto("tier1")
        /\ UNCHANGED ret
     \/ CtxCallFails /\ OpenShift /\ rbac' \in {rbac, rbac \cup {"scc"}} /\ Goto("tier1") /\ UNCHANGED ret
     \/ CtxCallFails /\ Return("error") /\ UNCHANGED rbac
  /\ UNCHANGED <<jobs, stored, failuresCM, processVars>>

(* RunCRDChecks and RunOperatorChecks return rows, never an error. *)
Tier1 ==
  /\ step = "tier1"
  /\ \E v \in IF mode = "all" THEN {"pass", "fail"} ELSE {"none"} :
       /\ current' = [current EXCEPT !.cluster = v]
       /\ failSeen' = (failSeen \/ v = "fail")
  /\ Goto("discover")
  /\ UNCHANGED <<clusterVars, optionVars, cancelled, gpuNodes, gpuReports, netReports,
                 pmNetReports, ret, collected, runs, storedRun, faults>>

AfterDiscovery == IF NeedGpuChecks(mode) THEN "gpuDeploy"
                  ELSE IF NeedNetChecks(mode) THEN "netDeploy" ELSE "meshTopology"

(* Without GPU nodes the cluster checks alone decide, and are not stored. *)
DiscoverGPUNodes ==
  /\ step = "discover"
  /\ \/ /\ CtxCallOK
        /\ gpuNodes' \in NodeSets
        /\ IF gpuNodes' = {}
             THEN Return(IF current.cluster = "fail" THEN "error" ELSE "ok")
             ELSE Goto(AfterDiscovery) /\ UNCHANGED ret
     \/ CtxCallFails /\ Return("error") /\ UNCHANGED gpuNodes
  /\ UNCHANGED <<clusterVars, optionVars, cancelled, current, gpuReports, netReports,
                 pmNetReports, historyVars>>

(* deployNodeCheckJobs: one job per GPU node, in a loop that the first     *)
(* error ends; a leftover job of the same name is such an error.           *)
DeployNodeCheckJobs(kind, next) ==
  \/ /\ CtxCallOK
     /\ jobs \cap ({kind} \X gpuNodes) = {}
     /\ jobs' = jobs \cup ({kind} \X gpuNodes)
     /\ Goto(next)
     /\ UNCHANGED ret
  \/ /\ IF jobs \cap ({kind} \X gpuNodes) # {} THEN NoFault ELSE CtxCallFails
     /\ \E done \in SUBSET gpuNodes : jobs' = jobs \cup ({kind} \X done)
     /\ Return("error")

(* waitAndCollectJobsBySelector: jobs are counted and read by their label, *)
(* the completed ones after a timeout or ^C.  Errors are only logged.      *)
Collect(kind, rows) ==
  LET listed == {n \in Nodes : <<kind, n>> \in jobs}
  IN  {r \in [Nodes -> rows] : \A n \in Nodes \ listed : r[n] = NoReports[n]}

GpuReportRows ==
  {[gpu |-> v, net |-> "none", run |-> 0] : v \in GpuOutcomes \cup {"none"}}

NetReportRows ==
  {[gpu |-> "none", net |-> v, run |-> IF v = "none" THEN 0 ELSE runs] :
     v \in NetOutcomes \cup {"none"}}

GpuDeploy ==
  /\ step = "gpuDeploy"
  /\ DeployNodeCheckJobs("gpu", "gpuCollect")
  /\ UNCHANGED <<rbac, stored, failuresCM, processVars>>

AfterGpuChecks == IF NeedNetChecks(mode) THEN "netDeploy" ELSE "meshTopology"

GpuCollect ==
  /\ step = "gpuCollect"
  /\ gpuReports' \in Collect("gpu", GpuReportRows)
  /\ collected' = [collected EXCEPT !["gpu"] = Reported(gpuReports')]
  /\ failSeen' = (failSeen \/ HasFail(gpuReports'))
  /\ IF debug THEN NoFault /\ UNCHANGED jobs ELSE DeleteJobs({"gpu"})
  /\ Goto(AfterGpuChecks)
  /\ UNCHANGED <<rbac, stored, failuresCM, optionVars, cancelled, gpuNodes, current,
                 netReports, pmNetReports, ret, runs, storedRun>>

NetDeploy ==
  /\ step = "netDeploy"
  /\ DeployNodeCheckJobs("net", "netCollect")
  /\ UNCHANGED <<rbac, stored, failuresCM, processVars>>

NetCollect ==
  /\ step = "netCollect"
  /\ netReports' \in Collect("net", NetReportRows)
  /\ collected' = [collected EXCEPT !["net"] = Reported(netReports')]
  /\ failSeen' = (failSeen \/ HasFail(netReports'))
  /\ Goto("netDone")
  /\ UNCHANGED <<clusterVars, optionVars, cancelled, gpuNodes, current, gpuReports,
                 pmNetReports, ret, runs, storedRun, faults>>

(* On a flat PCIe topology (a part of the report that is left open here)   *)
(* the net check jobs make room for the bandwidth probe, even in debug.    *)
NetDone ==
  /\ step = "netDone"
  /\ \/ /\ \E n \in Nodes : ExtractTopology(netReports[n])
        /\ DeleteJobs({"net"})
        /\ Goto("probe")
     \/ /\ IF debug THEN NoFault /\ UNCHANGED jobs ELSE DeleteJobs({"net"})
        /\ Goto("meshTopology")
  /\ UNCHANGED <<rbac, stored, failuresCM, processVars, ret>>

(* The probe changes which GPU is paired with which NIC; no error of it    *)
(* ends the run.  Its jobs are deleted unless deploying them failed, which *)
(* a leftover job of the same name also makes it do.                       *)
Probe ==
  /\ step = "probe"
  /\ \E probed \in SUBSET {n \in gpuNodes : ExtractTopology(netReports[n])} :
       LET present == jobs \cup ({"bwprobe"} \X probed)
       IN  \/ CtxCallFails /\ jobs' = present
           \/ jobs \cap ({"bwprobe"} \X Nodes) # {} /\ NoFault /\ jobs' = present
           \/ CtxCallOK /\ debug /\ jobs' = present
           \/ ~cancelled /\ ~debug /\ DeleteJobsOf(present, {"bwprobe"})
  /\ Goto("meshTopology")
  /\ UNCHANGED <<rbac, stored, failuresCM, processVars, ret>>

(* loadTopologyFromReport: all GPU nodes of the stored report, or an error. *)
StoredTopology ==
  [n \in Nodes |-> IF n \in gpuNodes /\ ExtractTopology(stored.nodes[n])
                     THEN stored.nodes[n] ELSE NoReports[n]]

StoredTopologyComplete == TopologyCoversAllNodes(StoredTopology, gpuNodes)

AfterPingMesh == IF NeedBandwidth(mode) /\ Cardinality(gpuNodes) >= 2
                   THEN "bandwidth" ELSE "store"

SkipPingMesh ==
  /\ current' = [current EXCEPT !.mesh = "skip"]
  /\ Goto(AfterPingMesh)
  /\ UNCHANGED pmNetReports

RunPingMeshOn(reports) ==
  /\ pmNetReports' = reports
  /\ Goto("mesh")
  /\ UNCHANGED current

(* Which topology the mesh is built from, if it is to run. *)
PingMeshTopology ==
  /\ step = "meshTopology"
  /\ IF ~NeedPingMesh(mode) \/ Cardinality(gpuNodes) < 2
       THEN Goto(AfterPingMesh) /\ NoFault /\ UNCHANGED <<current, pmNetReports>>
     ELSE IF ~NeedNetChecks(mode) \/ Reported(netReports) = {}
       THEN \/ CtxCallOK /\ StoredTopologyComplete /\ RunPingMeshOn(StoredTopology)
            \/ CtxCallOK /\ ~StoredTopologyComplete /\ SkipPingMesh
            \/ CtxCallFails /\ SkipPingMesh
     ELSE /\ NoFault
          /\ IF TopologyCoversAllNodes(netReports, gpuNodes)
               THEN RunPingMeshOn(netReports)
               ELSE SkipPingMesh
  /\ UNCHANGED <<clusterVars, optionVars, cancelled, gpuNodes, gpuReports, netReports,
                 ret, historyVars>>

(* RunJob deletes the jobs it created, except in debug and when calls fail. *)
JobsOfRunner(kind) ==
  LET own == {kind} \X gpuNodes
  IN  \/ ~debug /\ DeleteJobsOf(jobs \cup own, {kind})
      \/ debug /\ NoFault /\ jobs' = jobs \cup own

(* runPingMesh returns without a report when there is no RDMA type or no   *)
(* pair to test.  A mesh of which no attempt gave a row is SKIP.  "warn"   *)
(* and "fail" have failures, which are kept; without any, older ones go.   *)
PingMesh ==
  /\ step = "mesh"
  /\ \/ UNCHANGED <<jobs, failuresCM, current, failSeen, faults>>
     \/ \E v \in {"skip", "pass", "warn", "fail"} :
          /\ current' = [current EXCEPT !.mesh = v]
          /\ failSeen' = (failSeen \/ v = "fail")
          /\ IF cancelled THEN UNCHANGED failuresCM
                          ELSE failuresCM' \in {(v \in {"warn", "fail"}), failuresCM}
          /\ JobsOfRunner("pingmesh")
  /\ Goto(AfterPingMesh)
  /\ UNCHANGED <<rbac, stored, optionVars, cancelled, gpuNodes, gpuReports, netReports,
                 pmNetReports, ret, collected, runs, storedRun>>

(* What the jobs of the bandwidth phase come to. *)
BandwidthJobs ==
  /\ \E v \in {"none", "skip", "fail"} \cup (IF cancelled THEN {} ELSE {"pass"}) :
       /\ current' = [current EXCEPT !.jobs = v]
       /\ failSeen' = (failSeen \/ v = "fail")
  /\ JobsOfRunner("bandwidth")
  /\ Goto("store")
  /\ UNCHANGED <<rbac, stored, failuresCM, optionVars, cancelled, gpuNodes, gpuReports,
                 pmNetReports, ret, collected, runs, storedRun>>

(* Faulty: reports of some of the nodes are replaced by the stored ones. *)
BandwidthOrStored ==
  /\ step = "bandwidth"
  /\ \/ UNCHANGED netReports
     \/ /\ ~TopologyCoversAllNodes(netReports, gpuNodes)
        /\ ~cancelled /\ StoredTopologyComplete
        /\ netReports' = StoredTopology
  /\ BandwidthJobs

(* If no net report was collected, the stored topology is taken, when it   *)
(* can be had.  RunRing and RunStar are never skipped for want of it.      *)
(* There are no rows on an AMD cluster, SKIP rows for RDMA jobs that need  *)
(* a NIC, and a FAIL row for every job that ^C prevents.                   *)
Bandwidth ==
  /\ step = "bandwidth"
  /\ \/ UNCHANGED netReports
     \/ /\ Reported(netReports) = {} /\ ~cancelled /\ StoredTopologyComplete
        /\ netReports' = StoredTopology
  /\ BandwidthJobs

(* storeReport.  report.Build puts the run's own results together, and     *)
(* MergePreserving adds to them.  An error is only a warning.              *)
StoreReport ==
  /\ step = "store"
  /\ current' = [current EXCEPT !.nodes = MergeNodeReports(gpuReports, netReports)]
  /\ LET merged == MergePreserving(current', stored)
     IN  \/ CtxCallOK /\ stored' = merged
         \/ CtxCallFails /\ stored' \in {stored} \cup (IF cancelled THEN {} ELSE {merged})
  /\ storedRun' = IF stored' # stored /\ collected["net"] # {} THEN runs ELSE storedRun
  /\ Goto("verdict")
  /\ UNCHANGED <<jobs, rbac, failuresCM, optionVars, cancelled, gpuNodes, gpuReports,
                 netReports, pmNetReports, ret, collected, failSeen, runs>>

ActualReports == Cardinality(Reported(gpuReports)) + Cardinality(Reported(netReports))

ExpectedReports ==
  Cardinality(gpuNodes) * ((IF NeedGpuChecks(mode) THEN 1 ELSE 0)
                           + (IF NeedNetChecks(mode) THEN 1 ELSE 0))

(* Faulty: the comparison with the expected number is dropped. *)
SucceedsWithAnyReport ==
  ~ (ActualReports = 0 /\ current.mesh = "none") /\ ~ Failures(current)

(* What Run returns nil for: its three error returns after the report. *)
RunSucceeds ==
  /\ ~ (ActualReports = 0 /\ current.mesh = "none")
  /\ ~ (ActualReports > 0 /\ ActualReports < ExpectedReports)
  /\ ~ Failures(current)

Verdict ==
  /\ step = "verdict"
  /\ Return(IF RunSucceeds THEN "ok" ELSE "error")
  /\ UNCHANGED <<clusterVars, processVars, faults>>

(* Faulty: the selector of the bandwidth probe is left out. *)
CleanupForgetsProbe ==
  /\ DeleteJobs(Kinds \ {"bwprobe"})
  /\ rbac' = {}

(* cleanupAll: the jobs, then the RBAC objects up to the first error. *)
CleanupAll ==
  \/ DeleteJobs(Kinds) /\ rbac' = {}
  \/ /\ Fault
     /\ \E k \in 0 .. 3 : rbac' = rbac \ FirstOf(DeleteOrder, k)
     /\ jobs' = {}

(* The deferred call of Run. *)
DeferredCleanup ==
  /\ step = "cleanup"
  /\ IF debug THEN NoFault /\ UNCHANGED <<jobs, rbac>> ELSE CleanupAll
  /\ Exit(ret)
  /\ UNCHANGED <<stored, failuresCM>>

-----------------------------------------------------------------------------
(* SIGINT or SIGTERM (main.go: signal.NotifyContext); a second one is not  *)
(* noticed.                                                                *)
Cancel ==
  /\ step \notin {"idle", "cleanup"}
  /\ ~cancelled
  /\ cancelled' = TRUE
  /\ UNCHANGED <<clusterVars, step, optionVars, resultVars, ret, historyVars, faults>>

(* The kinds of the jobs that exist in the middle of a step. *)
InFlight == CASE step = "probe"     -> {"bwprobe"}
              [] step = "mesh"      -> {"pingmesh"}
              [] step = "bandwidth" -> {"bandwidth"}
              [] OTHER              -> {}

(* SIGKILL, or the machine that the CLI runs on goes away. *)
Kill ==
  /\ step # "idle"
  /\ jobs' \in {jobs, jobs \cup (InFlight \X gpuNodes)}
  /\ Exit("killed")
  /\ UNCHANGED <<rbac, stored, failuresCM, faults>>

(* The clean command. *)
Cleanup ==
  /\ step = "idle"
  /\ runs > 0
  /\ CleanupAll
  /\ failuresCM' = FALSE
  /\ UNCHANGED <<stored, step, processVars, ret>>

RunStep ==
  \/ CleanPrevious \/ EnsureNamespace \/ EnsureRBAC \/ EnsureConfig \/ Tier1
  \/ DiscoverGPUNodes \/ GpuDeploy \/ GpuCollect \/ NetDeploy \/ NetCollect
  \/ NetDone \/ Probe \/ PingMeshTopology \/ PingMesh \/ Bandwidth
  \/ StoreReport \/ Verdict \/ DeferredCleanup

Next ==
  \/ \E m \in Modes, d \in BOOLEAN : Start(m, d)
  \/ RunStep
  \/ Cancel
  \/ Kill
  \/ Cleanup

Spec == Init /\ [][Next]_vars

-----------------------------------------------------------------------------
(* "Exit codes -- both run and deploy exit non-zero if any check reported  *)
(* FAIL" (docs/dev.md:322): a FAIL seen at any step of the run is neither  *)
(* lost in a merge, nor replaced by stored reports, nor dropped with a     *)
(* phase that ended in a warning.                                          *)
FailIsReported == ret = "ok" => ~failSeen

(* The gpu and rdma-node commands succeed only if every GPU node reported, *)
(* unless jobs of other nodes, left by an earlier run, were counted        *)
(* (controller.go:360-371; nodejobs.go:155-188 counts by label).           *)
EveryNodeReported ==
  (ret = "ok" /\ mode \in {"gpu", "rdma-node"}) =>
     LET nodes == collected[IF mode = "gpu" THEN "gpu" ELSE "net"]
     IN  nodes \subseteq gpuNodes => nodes = gpuNodes

(* The gpu and the net reports are counted together, and net reports that  *)
(* the bandwidth step loaded are counted too (controller.go:306-315 and    *)
(* 359-371).  Even so a run in which some node reported succeeds only if   *)
(* every GPU node did, in each phase; loaded reports may stand in for a    *)
(* phase in which no node reported, never for some of its nodes.  (Jobs of *)
(* other nodes, left by an earlier run, are excepted as above.)            *)
PartialResultsFail ==
  LET heard == collected["gpu"] \cup collected["net"]
      loaded == collected["net"] = {} /\ TopologyCoversAllNodes(netReports, gpuNodes)
  IN  ret = "ok" /\ heard # {} /\ heard \subseteq gpuNodes =>
        /\ NeedGpuChecks(mode) => collected["gpu"] = gpuNodes
        /\ NeedNetChecks(mode) => collected["net"] = gpuNodes \/ loaded

(* The topologies that the mesh and the bandwidth jobs are built from were *)
(* collected by one run: by this one if any node reported to it, otherwise *)
(* by the latest run that stored any.  No node's topology is filled in     *)
(* from an older run, with NICs that may have been replaced or renamed     *)
(* since, when its report is lost or other nodes have GPUs now             *)
(* (controller.go:275-315, pingmesh.go:187-242, report.go:95-98).          *)
TopologyIsLatest ==
  \A reports \in {netReports, pmNetReports} : \A n \in Nodes :
    ExtractTopology(reports[n]) =>
      reports[n].run = IF collected["net"] # {} THEN runs ELSE storedRun

(* "Partial runs preserve sections produced by earlier runs"               *)
(* (docs/testing.md:212): the nodes, job_results and pingmesh sections of  *)
(* the stored report, once there, stay.                                    *)
StoredSectionsStay ==
  [][/\ Reported(stored.nodes) # {} => Reported(stored'.nodes) # {}
     /\ stored.jobs # "none" => stored'.jobs # "none"
     /\ stored.mesh # "none" => stored'.mesh # "none"]_vars

(* Whichever way a run returns from the config step on, neither its jobs   *)
(* nor its RBAC objects, nor those of an earlier run, are left, unless it  *)
(* was killed, is for debugging, or an API call of the cleanup fails       *)
(* (controller.go:172-182).                                                *)
NothingLeftBehind ==
  [][(/\ step \notin {"idle", "cleanPrevious", "namespace", "rbac"}
      /\ step' = "idle" /\ ret' # "killed" /\ ~debug /\ faults' = faults)
        => jobs' = {} /\ rbac' = {}]_vars

-----------------------------------------------------------------------------
(* What the documentation says and the code does not do.                   *)

(* network needs no RDMA and no prior run (docs/testing.md:20, 54): with   *)
(* tests that pass and no FAIL row anywhere, it succeeds.                  *)
NetworkRunSucceeds ==
  [][(step = "verdict" /\ mode = "network" /\ current.jobs = "pass" /\ ~Failures(current))
       => ret' # "error"]_vars

(* "Partial runs preserve sections produced by earlier runs"               *)
(* (docs/testing.md:212): only a run that checks the CRDs and operators    *)
(* replaces the cluster_checks section.                                    *)
ClusterChecksStay ==
  [][stored.cluster # "none" => stored'.cluster # "none"]_vars

=============================================================================
