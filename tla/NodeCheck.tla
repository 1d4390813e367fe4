----------------------------- MODULE NodeCheck -----------------------------
(***************************************************************************)
(* The node check jobs and the bandwidth probe of Run (nodejobs.go,        *)
(* bwprobe.go, phases.go, cleanup.go in pkg/controller), with their pods.  *)
(*                                                                         *)
(* Each of these pods asks for all the GPUs of its node, so that a        *)
(* phase can work only after the pods of the phase before have gone.  The  *)
(* jobs and pods of an earlier run, which was killed or whose cleanup gave *)
(* up, may still be there when the run begins ("old"; its own are "new").  *)
(* Kubernetes is external.                                                 *)
(***************************************************************************)
EXTENDS Integers, FiniteSets

CONSTANTS
  Nodes,        \* nodes that have or had GPUs
  GpuNodeSets,  \* the results of discoverGPUNodes tried
  LeftKinds     \* the kinds of jobs an earlier run may have left behind

(* The values of the label that deleteJobsBySelector selects by. *)
Kinds == {"gpu", "net", "bwprobe"}
Runs == {"old", "new"}

ASSUME NodeCheckAssumption ==
  /\ IsFiniteSet(Nodes)
  /\ GpuNodeSets \subseteq SUBSET Nodes \ {{}}
  /\ LeftKinds \subseteq Kinds

Pods == Kinds \X Nodes \X Runs

(* "Terminating" was running when it was deleted, "Leaving" had completed. *)
PodPhases == {"absent", "Pending", "Running", "Completed", "Terminating", "Leaving"}
HoldingGPUs == {"Running", "Terminating"}
Finished == {"Completed", "Leaving"}
OfAJob == {"Pending", "Running", "Completed"}

VARIABLES
  stage,      \* the part of Run: "previous" is step 1, "final" is cleanupAll
  step,       \* in that part
  kind,       \* the kind of job it is busy with
  needed,     \* which of needGpuChecks and needNetChecks hold
  debug,      \* Options.Debug
  cancelled,  \* ctx.Done()
  gpuNodes,
  flat,       \* nodes whose report says that GPU and NIC were paired by NUMA affinity
  job,        \* job[k][n]: whose job of kind k for node n exists
  pod,        \* pod[p]: phase of a pod, as the API server has it
  report,     \* report[n]: what the latest step read for node n came from
  unwaited,   \* kinds whose latest cleanup returned with pods still there (history)
  undeleted   \* kinds whose latest cleanup returned with jobs still there (history)

historyVars == <<unwaited, undeleted>>
programVars == <<stage, step, kind, flat, report, historyVars>>
optionVars  == <<needed, debug, gpuNodes>>
vars == <<programVars, optionVars, cancelled, job, pod>>

(* "early" is the log of a pod that had not finished.  "none" also stands  *)
(* for the FAIL rows of a log that could not be read or parsed.            *)
Sources == {"none", "old", "new", "early"}
NoReports == [n \in Nodes |-> "none"]

TypeOK ==
  /\ stage \in {"previous", "gpu", "net", "probe", "final"}
  /\ step \in {"delete", "wait", "deploy", "poll", "done"}
  /\ kind \in Kinds
  /\ needed \in SUBSET {"gpu", "net"} \ {{}}
  /\ debug \in BOOLEAN
  /\ cancelled \in BOOLEAN
  /\ gpuNodes \in GpuNodeSets
  /\ flat \subseteq Nodes
  /\ job \in [Kinds -> [Nodes -> Runs \cup {"none"}]]
  /\ pod \in [Pods -> PodPhases]
  /\ \A p \in Pods : pod[p] \in OfAJob <=> job[p[1]][p[2]] = p[3]
  /\ report \in [Nodes -> Sources]
  /\ unwaited \subseteq Kinds
  /\ undeleted \subseteq Kinds

(* An earlier run left jobs with their pods, and pods of deleted jobs.     *)
(* The GPUs of a node are held by one pod.                                 *)
LeftOver ==
  \E left \in [LeftKinds \X Nodes -> PodPhases] :
    /\ \A n \in Nodes :
         Cardinality({k \in LeftKinds : left[<<k, n>>] \in HoldingGPUs}) <= 1
    /\ pod = [p \in Pods |-> IF p[1] \in LeftKinds /\ p[3] = "old"
                               THEN left[<<p[1], p[2]>>] ELSE "absent"]
    /\ job = [k \in Kinds |-> [n \in Nodes |->
                IF pod[<<k, n, "old">>] \in OfAJob
                  THEN "old" ELSE "none"]]

Init ==
  /\ stage = "previous" /\ step = "delete" /\ kind = "gpu"
  /\ needed \in SUBSET {"gpu", "net"} \ {{}}
  /\ debug \in BOOLEAN
  /\ cancelled = FALSE
  /\ gpuNodes \in GpuNodeSets
  /\ flat = {}
  /\ LeftOver
  /\ report = NoReports
  /\ unwaited = {}
  /\ undeleted = {}

Present(k) == {p \in Pods : p[1] = k /\ pod[p] # "absent"}
Listed(k) == {n \in Nodes : job[k][n] # "none"}

-----------------------------------------------------------------------------
(* Where Run goes next. *)

Goto(st, s, k) == stage' = st /\ step' = s /\ kind' = k

(* The deferred cleanup, which --debug leaves out. *)
Finish == IF debug THEN Goto("final", "done", kind) ELSE Goto("final", "delete", "gpu")

AfterGpuChecks == IF "net" \in needed THEN Goto("net", "deploy", "net") ELSE Finish

Targets(k, nodes) == IF k = "bwprobe" THEN nodes \cap gpuNodes ELSE gpuNodes

Probe == IF Targets("bwprobe", flat) = {} THEN Finish ELSE Goto("probe", "deploy", "bwprobe")

(* cleanupGpuCheckJobs, cleanupNetCheckJobs and cleanupLoopbackBWProbeJobs *)
(* follow each other at the beginning and at the end.                      *)
AfterCleanup ==
  \/ stage \in {"previous", "final"} /\ kind = "gpu" /\ Goto(stage, "delete", "net")
  \/ stage \in {"previous", "final"} /\ kind = "net" /\ Goto(stage, "delete", "bwprobe")
  \/ /\ stage = "previous" /\ kind = "bwprobe"
     /\ IF "gpu" \in needed THEN Goto("gpu", "deploy", "gpu") ELSE AfterGpuChecks
  \/ stage = "final" /\ kind = "bwprobe" /\ Goto("final", "done", kind)
  \/ stage = "gpu" /\ AfterGpuChecks
  \/ stage = "net" /\ IF flat = {} THEN Finish ELSE Probe
  \/ stage = "probe" /\ Finish

-----------------------------------------------------------------------------
(* deleteJobsBySelector. *)

(* Faulty variant: the propagation policy orphans the pods. *)
PodOrphaned(phase) == phase

(* The pod of a deleted job goes too, at once if it was not scheduled. *)
PodDeleted(phase) ==
  CASE phase = "Pending"   -> "absent"
    [] phase = "Running"   -> "Terminating"
    [] phase = "Completed" -> "Leaving"
    [] OTHER               -> phase

(* Delete fails for some jobs, with a warning. *)
DeleteJobs ==
  /\ step = "delete"
  /\ Listed(kind) # {}
  /\ \E D \in SUBSET Listed(kind) :
       /\ pod' = [p \in Pods |-> IF p[1] = kind /\ p[2] \in D /\ job[kind][p[2]] = p[3]
                                   THEN PodDeleted(pod[p]) ELSE pod[p]]
       /\ job' = [job EXCEPT ![kind] = [n \in Nodes |-> IF n \in D THEN "none" ELSE @[n]]]
  /\ step' = "wait"
  /\ report' = NoReports
  /\ UNCHANGED <<stage, kind, flat, historyVars, optionVars, cancelled>>

(* The cleanup returns, when all pods have gone or while some are there.   *)
Gone ==
  /\ unwaited' = unwaited \ {kind}
  /\ undeleted' = undeleted \ {kind}

StillThere ==
  /\ unwaited' = unwaited \cup {kind}
  /\ undeleted' = IF Listed(kind) = {} THEN undeleted \ {kind} ELSE undeleted \cup {kind}

(* List fails or finds no job: true is returned, and pods of jobs that are *)
(* already deleted are not waited for.                                     *)
NothingToDelete ==
  /\ step = "delete"
  /\ IF Present(kind) = {} THEN Gone ELSE StillThere
  /\ AfterCleanup
  /\ report' = NoReports
  /\ UNCHANGED <<flat, optionVars, cancelled, job, pod>>

(* Faulty variant: the pods of a cleanup are not waited for. *)
PodsNotWaitedFor ==
  /\ step = "wait"
  /\ Gone
  /\ AfterCleanup
  /\ report' = NoReports
  /\ UNCHANGED <<flat, optionVars, cancelled, job, pod>>

PodsGone ==
  /\ step = "wait"
  /\ Present(kind) = {}
  /\ Gone
  /\ AfterCleanup
  /\ report' = NoReports
  /\ UNCHANGED <<flat, optionVars, cancelled, job, pod>>

(* Faulty variant: polling goes on until there is no pod left. *)
NeverStopWaiting ==
  /\ step = "wait"
  /\ Present(kind) = {}
  /\ StillThere
  /\ AfterCleanup
  /\ report' = NoReports
  /\ UNCHANGED <<flat, optionVars, cancelled, job, pod>>

(* After 30 polls, before the probe also the 60 s of waitForPodsGone, or   *)
(* when listing pods fails.                                                *)
StopWaiting ==
  /\ step = "wait"
  /\ Present(kind) # {}
  /\ StillThere
  /\ AfterCleanup
  /\ report' = NoReports
  /\ UNCHANGED <<flat, optionVars, cancelled, job, pod>>

-----------------------------------------------------------------------------
(* deployNodeCheckJobs and deployLoopbackBWProbeJobs. *)

Created(n) ==
  /\ job[kind][n] = "none"
  /\ job' = [job EXCEPT ![kind][n] = "new"]
  /\ pod' = [pod EXCEPT ![<<kind, n, "new">>] = "Pending"]

CreateJob ==
  /\ step = "deploy"
  /\ ~cancelled
  /\ \E n \in Targets(kind, flat) :
       /\ Created(n)
       /\ step' = IF \A m \in Targets(kind, flat) \ {n} : job[kind][m] = "new"
                    THEN "poll" ELSE "deploy"
  /\ report' = NoReports
  /\ UNCHANGED <<stage, kind, flat, historyVars, optionVars, cancelled>>

(* An error, of which a name that exists is one, ends the loop and, unless *)
(* it is about the probe, the run; the Job may have been created.          *)
CreateFails ==
  /\ step = "deploy"
  /\ \/ UNCHANGED <<job, pod>>
     \/ \E n \in Targets(kind, flat) : Created(n)
  /\ Finish
  /\ report' = NoReports
  /\ UNCHANGED <<flat, historyVars, optionVars, cancelled>>

-----------------------------------------------------------------------------
(* waitAndCollectJobsBySelector and waitAndCollectLoopbackBWProbeJobs. *)

(* The job's Succeeded or Failed count is not zero. *)
CompletedJobs(k) == {n \in Listed(k) : pod[<<k, n, job[k][n]>>] = "Completed"}

(* collectFromJobs reads the log of the first pod that has the job's name, *)
(* which need not be a pod of this job.  If no pod is found, no report is  *)
(* made.                                                                   *)
LogsOf(k, n) ==
  {"none"} \cup {IF pod[<<k, n, r>>] \in Finished THEN r ELSE "early" :
                    r \in {s \in Runs : pod[<<k, n, s>>] # "absent"}}

ReadLogs(k, nodes) ==
  report' \in {read \in [Nodes -> Sources] :
    \A n \in Nodes : read[n] \in IF n \in nodes THEN LogsOf(k, n) ELSE {"none"}}

(* Faulty variant: after a timeout every job is read. *)
CollectListed ==
  \/ /\ ~cancelled
     /\ Cardinality(CompletedJobs(kind)) >= Cardinality(gpuNodes)
     /\ ReadLogs(kind, Listed(kind))
  \/ ReadLogs(kind, Listed(kind))

(* All jobs are read as soon as as many of them have completed as there    *)
(* are GPU nodes; the completed ones after the timeout or ^C.              *)
Collect ==
  \/ /\ ~cancelled
     /\ Cardinality(CompletedJobs(kind)) >= Cardinality(gpuNodes)
     /\ ReadLogs(kind, Listed(kind))
  \/ ReadLogs(kind, CompletedJobs(kind))

GpuCollect ==
  /\ stage = "gpu" /\ step = "poll"
  /\ Collect
  /\ IF debug THEN AfterGpuChecks ELSE Goto("gpu", "delete", "gpu")
  /\ UNCHANGED <<flat, historyVars, optionVars, cancelled, job, pod>>

(* Faulty variant: --debug also keeps the net check jobs of flat nodes. *)
NetCollectKeepsForDebug ==
  /\ stage = "net" /\ step = "poll"
  /\ Collect
  /\ flat' \in SUBSET {n \in Nodes : report'[n] \in Runs}
  /\ IF ~debug THEN Goto("net", "delete", "net")
     ELSE IF flat' \cap gpuNodes = {} THEN Finish ELSE Goto("probe", "deploy", "bwprobe")
  /\ UNCHANGED <<historyVars, optionVars, cancelled, job, pod>>

(* Nodes with a topology may be flat.  For the probe, which is only done   *)
(* on NVIDIA GPUs, the net check jobs are deleted even with --debug.       *)
NetCollect ==
  /\ stage = "net" /\ step = "poll"
  /\ Collect
  /\ flat' \in SUBSET {n \in Nodes : report'[n] \in Runs}
  /\ IF flat' = {} /\ debug THEN Finish ELSE Goto("net", "delete", "net")
  /\ UNCHANGED <<historyVars, optionVars, cancelled, job, pod>>

(* After the probe's timeout the logs of unfinished pods are read as well. *)
ProbeCollect ==
  /\ stage = "probe" /\ step = "poll"
  /\ ReadLogs("bwprobe", Listed("bwprobe"))
  /\ IF debug THEN Finish ELSE Goto("probe", "delete", "bwprobe")
  /\ UNCHANGED <<flat, historyVars, optionVars, cancelled, job, pod>>

RunStep ==
  \/ DeleteJobs \/ NothingToDelete \/ PodsGone \/ StopWaiting
  \/ CreateJob \/ CreateFails
  \/ GpuCollect \/ NetCollect \/ ProbeCollect

-----------------------------------------------------------------------------
(* The scheduler starts a pod on its node when no other one has the GPUs. *)
PodStart(p) ==
  /\ pod[p] = "Pending"
  /\ \A q \in Pods : q[2] = p[2] => pod[q] \notin HoldingGPUs
  /\ pod' = [pod EXCEPT ![p] = "Running"]

PodEnd(p) ==
  \/ pod[p] = "Running" /\ pod' = [pod EXCEPT ![p] = "Completed"]
  \/ pod[p] \in {"Terminating", "Leaving"} /\ pod' = [pod EXCEPT ![p] = "absent"]

Cluster ==
  /\ \E p \in Pods : PodStart(p) \/ PodEnd(p)
  /\ UNCHANGED <<programVars, optionVars, cancelled, job>>

Cancel ==
  /\ step # "done"
  /\ ~cancelled
  /\ cancelled' = TRUE
  /\ UNCHANGED <<programVars, optionVars, job, pod>>

Next == RunStep \/ Cluster \/ Cancel

Spec == Init /\ [][Next]_vars

(* Run waits only with a timer or a bound on the number of polls; pods and *)
(* signals may do as they like.                                            *)
FairSpec == Spec /\ WF_vars(RunStep)

-----------------------------------------------------------------------------
(* "Clean up net-check jobs cluster-wide to free GPU/RDMA device resources *)
(* for the BW probe (which needs all GPUs on each flat node)"              *)
(* (phases.go:73-75): there is no pod of a net check job, running or       *)
(* ending, beside a probe, with and without --debug, unless the wait for   *)
(* their end was given up.                                                 *)
ProbeHasRoom ==
  Present("bwprobe") \cap {p \in Pods : p[3] = "new"} # {} /\ stage = "probe"
    => Present("net") = {} \/ "net" \in unwaited

(* A report is read from a pod of an earlier run, which has the same name  *)
(* label, only if the cleanup before the deployment returned while such    *)
(* pods were still there (cleanup.go:40-75, nodejobs.go:198-206).          *)
ReportsAreFresh ==
  [][\A n \in Nodes : report[n] # "old" /\ report'[n] = "old" => kind \in unwaited]_vars

(* Nobody is blamed for a check that was not finished: FAIL rows for the   *)
(* log of an unfinished pod come about only beside pods of an earlier run, *)
(* which are counted or read instead (nodejobs.go:169-188, 254-261).       *)
UnfinishedIsNoFail ==
  [][\A n \in Nodes :
       kind \in {"gpu", "net"} /\ report[n] # "early" /\ report'[n] = "early"
         => \E p \in Present(kind) : p[3] = "old"]_vars

(* When Run is over, and was not for debugging, the GPUs are free again or *)
(* about to be, also after a failed deployment of the probe and for all    *)
(* that an earlier run left.  A cleanup that gives up leaves pods that     *)
(* later ones neither see nor wait for (they look for jobs, and return     *)
(* true if there is none: cleanup.go:47-53, 64-75); these must be ending.  *)
(* A pod that will start or go on holding a GPU, because its job is there, *)
(* is left only if the API server refused to list or delete that job the   *)
(* last time the run cleaned up its kind.                                  *)
ReleasesGPUs ==
  step = "done" /\ ~debug =>
    \A p \in Pods :
      /\ pod[p] \in {"Pending", "Running"} => p[1] \in undeleted
      /\ pod[p] = "Terminating" => p[1] \in unwaited

(* Run gets to its end whatever happens to the pods. *)
Terminates == <>(step = "done")

=============================================================================
