-------------------------- MODULE NodeCheckProofs ---------------------------
(***************************************************************************)
(* Proofs about the node checks and the bandwidth probe, for every set of  *)
(* nodes, whatever an earlier run left and however pods behave: types, the *)
(* room for the probe, the GPUs at the end, and whose logs are read.       *)
(***************************************************************************)
EXTENDS NodeCheck, FiniteSetTheorems, TLAPS

Olds == {p \in Pods : p[3] = "old" /\ pod[p] # "absent"}

(* The latest cleanup of a kind left no pod and no job, or is known to     *)
(* have done so; the same of pods of an earlier run.                       *)
Clean(k) == /\ Present(k) = {} \/ k \in unwaited
            /\ Listed(k) = {} \/ k \in undeleted
CleanOfOld(k) == (\A p \in Olds : p[1] # k) \/ k \in unwaited

(* Which kinds a stage is busy with, and what it does with them. *)
Stages ==
  /\ stage = "gpu" => kind = "gpu"
  /\ stage = "net" => kind = "net"
  /\ stage = "probe" => kind = "bwprobe"
  /\ stage = "previous" => step \in {"delete", "wait"}
  /\ stage = "final" => step \in {"delete", "wait", "done"}
  /\ step = "done" => stage = "final"

(* What the cleanups up to here have achieved. *)
Cleaned ==
  /\ stage = "probe" => Clean("net")
  /\ stage = "final" /\ step # "done" /\ kind \in {"net", "bwprobe"} => Clean("gpu")
  /\ stage = "final" /\ step # "done" /\ kind = "bwprobe" => Clean("net")
  /\ step = "done" /\ ~debug => \A k \in Kinds : Clean(k)

(* The same of what an earlier run left. *)
OldCleaned ==
  /\ stage # "previous" => \A k \in Kinds : CleanOfOld(k)
  /\ kind \in {"net", "bwprobe"} => CleanOfOld("gpu")
  /\ kind = "bwprobe" => CleanOfOld("net")

(* This run has jobs on GPU nodes only. *)
OnGPUNodes == \A p \in Pods : p[3] = "new" /\ pod[p] # "absent" => p[2] \in gpuNodes

Inv == TypeOK /\ Stages /\ Cleaned /\ OldCleaned /\ OnGPUNodes

-----------------------------------------------------------------------------
(* A pod is a kind, a node and a run. *)
LEMMA PodFacts ==
  /\ \A k \in Kinds, n \in Nodes, r \in Runs : <<k, n, r>> \in Pods
  /\ \A p \in Pods : /\ p[1] \in Kinds /\ p[2] \in Nodes /\ p[3] \in Runs
                     /\ p = <<p[1], p[2], p[3]>>
BY DEF Pods

(* The job of a pod is counted as long as the pod is.  *)
LEMMA DeletedPhase ==
  \A f \in PodPhases : /\ PodDeleted(f) \in PodPhases
                       /\ f \in OfAJob => PodDeleted(f) \notin OfAJob
                       /\ f = "absent" => PodDeleted(f) = "absent"
BY DEF PodDeleted, PodPhases, OfAJob

(* Where a step goes. *)
LEMMA Going ==
  ASSUME TypeOK, Stages, AfterCleanup \/ Finish
  PROVE  /\ stage' \in {"previous", "gpu", "net", "probe", "final"}
         /\ step' \in {"delete", "wait", "deploy", "poll", "done"}
         /\ kind' \in Kinds
         /\ Stages'
BY DEF TypeOK, Stages, AfterCleanup, Finish, AfterGpuChecks, Probe, Goto, Kinds

(* The invariant holds at first, *)
LEMMA InvInit == Init => Inv
<1> SUFFICES ASSUME Init PROVE Inv
  OBVIOUS
<1>1. PICK left \in [LeftKinds \X Nodes -> PodPhases] :
        /\ pod = [p \in Pods |-> IF p[1] \in LeftKinds /\ p[3] = "old"
                                   THEN left[<<p[1], p[2]>>] ELSE "absent"]
        /\ job = [k \in Kinds |-> [n \in Nodes |->
                    IF pod[<<k, n, "old">>] \in OfAJob THEN "old" ELSE "none"]]
  BY DEF Init, LeftOver
<1>2. pod \in [Pods -> PodPhases]
  BY <1>1, PodFacts DEF PodPhases
<1>3. job \in [Kinds -> [Nodes -> Runs \cup {"none"}]]
  BY <1>1 DEF Runs
<1>4. \A p \in Pods : pod[p] \in OfAJob <=> job[p[1]][p[2]] = p[3]
  <2> SUFFICES ASSUME NEW p \in Pods PROVE pod[p] \in OfAJob <=> job[p[1]][p[2]] = p[3]
    OBVIOUS
  <2>1. job[p[1]][p[2]] = IF pod[<<p[1], p[2], "old">>] \in OfAJob THEN "old" ELSE "none"
    BY <1>1, PodFacts
  <2>2. CASE p[3] = "old"
    BY <2>1, <2>2, PodFacts
  <2>3. CASE p[3] = "new"
    <3>1. pod[p] = "absent"
      BY <1>1, <2>3
    <3> QED
      BY <2>1, <2>3, <3>1 DEF OfAJob
  <2> QED
    BY <2>2, <2>3, PodFacts DEF Runs
<1>5. TypeOK
  BY <1>2, <1>3, <1>4 DEF Init, TypeOK, Kinds, NoReports, Sources
<1>6. Stages /\ Cleaned /\ OldCleaned
  BY DEF Init, Stages, Cleaned, OldCleaned
<1>7. OnGPUNodes
  BY <1>1 DEF OnGPUNodes
<1> QED
  BY <1>5, <1>6, <1>7 DEF Inv

-----------------------------------------------------------------------------
(* Jobs and pods. *)
PodsTyped ==
  /\ job \in [Kinds -> [Nodes -> Runs \cup {"none"}]]
  /\ pod \in [Pods -> PodPhases]
  /\ \A p \in Pods : pod[p] \in OfAJob <=> job[p[1]][p[2]] = p[3]

(* Deleting removes jobs of the kind, and adds no pod. *)
LEMMA DeleteStep ==
  ASSUME TypeOK, DeleteJobs
  PROVE  /\ PodsTyped'
         /\ \A p \in Pods : pod[p] = "absent" => pod'[p] = "absent"
         /\ \A k \in Kinds, n \in Nodes : job[k][n] = "none" => job'[k][n] = "none"
<1>1. PICK D \in SUBSET Listed(kind) :
        /\ pod' = [p \in Pods |-> IF p[1] = kind /\ p[2] \in D /\ job[kind][p[2]] = p[3]
                                    THEN PodDeleted(pod[p]) ELSE pod[p]]
        /\ job' = [job EXCEPT ![kind] = [n \in Nodes |-> IF n \in D THEN "none" ELSE @[n]]]
  BY DEF DeleteJobs
<1>2. kind \in Kinds /\ PodsTyped
  BY DEF TypeOK, PodsTyped
<1>3. pod' \in [Pods -> PodPhases]
  BY <1>1, <1>2, DeletedPhase DEF PodsTyped
<1>4. \A k \in Kinds : \A n \in Nodes :
        job'[k][n] = IF k = kind /\ n \in D THEN "none" ELSE job[k][n]
  BY <1>1, <1>2 DEF PodsTyped
<1>5. job' \in [Kinds -> [Nodes -> Runs \cup {"none"}]]
  BY <1>1, <1>2 DEF PodsTyped
<1>6. ASSUME NEW p \in Pods PROVE pod'[p] \in OfAJob <=> job'[p[1]][p[2]] = p[3]
  <2>1. /\ p[1] \in Kinds /\ p[2] \in Nodes /\ p[3] \in Runs
        /\ pod[p] \in OfAJob <=> job[p[1]][p[2]] = p[3]
    BY <1>2, PodFacts DEF PodsTyped
  <2>2. CASE p[1] = kind /\ p[2] \in D
    <3>1. job'[p[1]][p[2]] = "none"
      BY <1>4, <2>1, <2>2
    <3>2. pod'[p] \notin OfAJob
      BY <1>1, <1>2, <2>1, <2>2, DeletedPhase DEF PodsTyped
    <3> QED
      BY <2>1, <3>1, <3>2 DEF Runs
  <2>3. CASE ~(p[1] = kind /\ p[2] \in D)
    BY <1>1, <1>4, <2>1, <2>3
  <2> QED
    BY <2>2, <2>3
<1>7. \A p \in Pods : pod[p] = "absent" => pod'[p] = "absent"
  BY <1>1, DeletedPhase DEF PodPhases
<1> QED
  BY <1>3, <1>4, <1>5, <1>6, <1>7 DEF PodsTyped

(* Creating adds one job with its pod, which are this run's. *)
LEMMA CreateStep ==
  ASSUME TypeOK, NEW n \in Nodes, Created(n)
  PROVE  /\ PodsTyped'
         /\ \A p \in Pods : p # <<kind, n, "new">> => pod'[p] = pod[p]
         /\ \A k \in Kinds, m \in Nodes : k # kind => job'[k][m] = job[k][m]
<1>1. kind \in Kinds /\ PodsTyped /\ <<kind, n, "new">> \in Pods
  BY PodFacts DEF TypeOK, PodsTyped, Runs
<1>2. /\ job[kind][n] = "none"
      /\ job' = [job EXCEPT ![kind][n] = "new"]
      /\ pod' = [pod EXCEPT ![<<kind, n, "new">>] = "Pending"]
  BY DEF Created
<1>3. pod' \in [Pods -> PodPhases] /\ job' \in [Kinds -> [Nodes -> Runs \cup {"none"}]]
  BY <1>1, <1>2 DEF PodsTyped, PodPhases, Runs
<1>4. \A p \in Pods : p # <<kind, n, "new">> => pod'[p] = pod[p]
  BY <1>1, <1>2 DEF PodsTyped
<1>5. \A k \in Kinds : \A m \in Nodes : job'[k][m] = IF k = kind /\ m = n THEN "new" ELSE job[k][m]
  BY <1>1, <1>2 DEF PodsTyped
<1>6. ASSUME NEW p \in Pods PROVE pod'[p] \in OfAJob <=> job'[p[1]][p[2]] = p[3]
  <2>1. /\ p[1] \in Kinds /\ p[2] \in Nodes /\ p[3] \in Runs /\ p = <<p[1], p[2], p[3]>>
        /\ pod[p] \in OfAJob <=> job[p[1]][p[2]] = p[3]
    BY <1>1, PodFacts DEF PodsTyped
  <2>2. CASE p = <<kind, n, "new">>
    BY <1>1, <1>2, <1>5, <2>1, <2>2 DEF PodsTyped, OfAJob
  <2>3. CASE p # <<kind, n, "new">> /\ p[1] = kind /\ p[2] = n
    <3>1. p[3] = "old"
      BY <2>1, <2>3 DEF Runs
    <3>2. job[p[1]][p[2]] = "none" /\ job'[p[1]][p[2]] = "new"
      BY <1>2, <1>5, <2>1, <2>3
    <3> QED
      BY <1>4, <2>1, <2>3, <3>1, <3>2
  <2>4. CASE ~(p[1] = kind /\ p[2] = n)
    BY <1>4, <1>5, <2>1, <2>4
  <2> QED
    BY <2>2, <2>3, <2>4
<1> QED
  BY <1>3, <1>4, <1>5, <1>6 DEF PodsTyped

(* A pod that starts or ends does not change which job it is of. *)
LEMMA ClusterStep ==
  ASSUME TypeOK, Cluster
  PROVE  /\ PodsTyped'
         /\ \A p \in Pods : pod[p] = "absent" => pod'[p] = "absent"
<1>1. PICK q \in Pods : PodStart(q) \/ PodEnd(q)
  BY DEF Cluster
<1>2. PICK f \in PodPhases :
        /\ pod' = [pod EXCEPT ![q] = f]
        /\ pod[q] # "absent"
        /\ f \in OfAJob <=> pod[q] \in OfAJob
  BY <1>1 DEF PodStart, PodEnd, PodPhases, OfAJob
<1> QED
  BY <1>2 DEF Cluster, TypeOK, PodsTyped

(* A step keeps the types of the pods. *)
LEMMA PodsTypedStep == TypeOK /\ [Next]_vars => PodsTyped'
<1> SUFFICES ASSUME TypeOK, [Next]_vars PROVE PodsTyped'
  OBVIOUS
<1>1. PodsTyped
  BY DEF TypeOK, PodsTyped
<1>2. CASE CreateJob \/ CreateFails
  <2>1. UNCHANGED <<job, pod>> \/ \E n \in Targets(kind, flat) : Created(n)
    BY <1>2 DEF CreateJob, CreateFails
  <2>2. Targets(kind, flat) \subseteq Nodes
    BY NodeCheckAssumption DEF Targets, TypeOK
  <2>3. CASE UNCHANGED <<job, pod>>
    BY <1>1, <2>3 DEF PodsTyped
  <2> QED
    BY <2>1, <2>2, <2>3, CreateStep
<1>3. CASE NothingToDelete \/ PodsGone \/ StopWaiting \/ GpuCollect \/ NetCollect \/ ProbeCollect
           \/ Cancel \/ UNCHANGED vars
  <2>1. UNCHANGED <<job, pod>>
    BY <1>3 DEF NothingToDelete, PodsGone, StopWaiting, GpuCollect, NetCollect, ProbeCollect,
                Cancel, vars
  <2> QED
    BY <1>1, <2>1 DEF PodsTyped
<1> QED
  BY <1>2, <1>3, DeleteStep, ClusterStep DEF Next, RunStep

(* What is read from the logs is a report. *)
LEMMA LogsTyped ==
  ASSUME NEW k, NEW nodes, ReadLogs(k, nodes)
  PROVE  report' \in [Nodes -> Sources]
BY DEF ReadLogs

(* The rest of the types, and where the run is. *)
LEMMA TypeStep == TypeOK /\ Stages /\ [Next]_vars => TypeOK' /\ Stages'
<1> SUFFICES ASSUME TypeOK, Stages, [Next]_vars PROVE TypeOK' /\ Stages'
  OBVIOUS
<1> DEFINE Placed == /\ stage \in {"previous", "gpu", "net", "probe", "final"}
                     /\ step \in {"delete", "wait", "deploy", "poll", "done"}
                     /\ kind \in Kinds
                     /\ Stages
<1>1. Placed' /\ UNCHANGED optionVars
  <2>1. CASE AfterCleanup \/ Finish
    BY <2>1, Going
       DEF Next, RunStep, DeleteJobs, NothingToDelete, PodsGone, StopWaiting, CreateJob,
           CreateFails, GpuCollect, NetCollect, ProbeCollect, Cluster, Cancel, vars
  <2>2. CASE ~AfterCleanup /\ ~Finish
    BY <2>2
       DEF Next, RunStep, DeleteJobs, NothingToDelete, PodsGone, StopWaiting, CreateJob,
           CreateFails, GpuCollect, NetCollect, ProbeCollect, Cluster, Cancel, vars, TypeOK,
           Stages, programVars, historyVars, optionVars, AfterGpuChecks, Goto, Kinds
  <2> QED
    BY <2>1, <2>2
<1>2. cancelled' \in BOOLEAN
  BY DEF Next, RunStep, DeleteJobs, NothingToDelete, PodsGone, StopWaiting, CreateJob,
         CreateFails, GpuCollect, NetCollect, ProbeCollect, Cluster, Cancel, vars, TypeOK
<1>3. flat' \subseteq Nodes
  BY DEF Next, RunStep, DeleteJobs, NothingToDelete, PodsGone, StopWaiting, CreateJob,
         CreateFails, GpuCollect, NetCollect, ProbeCollect, Cluster, Cancel, vars, TypeOK,
         programVars, historyVars
<1>4. unwaited' \subseteq Kinds /\ undeleted' \subseteq Kinds
  BY DEF Next, RunStep, DeleteJobs, NothingToDelete, PodsGone, StopWaiting, CreateJob,
         CreateFails, GpuCollect, NetCollect, ProbeCollect, Cluster, Cancel, vars, TypeOK,
         programVars, historyVars, Gone, StillThere
<1>5. report' \in [Nodes -> Sources]
  <2>1. NoReports \in [Nodes -> Sources] /\ report \in [Nodes -> Sources]
    BY DEF NoReports, Sources, TypeOK
  <2>2. CASE GpuCollect \/ NetCollect \/ ProbeCollect
    BY <2>2, LogsTyped DEF GpuCollect, NetCollect, ProbeCollect, Collect
  <2>3. CASE ~(GpuCollect \/ NetCollect \/ ProbeCollect)
    <3>1. report' = NoReports \/ report' = report
      BY <2>3 DEF Next, RunStep, DeleteJobs, NothingToDelete, PodsGone, StopWaiting, CreateJob,
                  CreateFails, Cluster, Cancel, vars, programVars, historyVars
    <3> QED
      BY <2>1, <3>1
  <2> QED
    BY <2>2, <2>3
<1>6. PodsTyped'
  BY PodsTypedStep
<1>7. needed' \in SUBSET {"gpu", "net"} \ {{}} /\ debug' \in BOOLEAN /\ gpuNodes' \in GpuNodeSets
  BY <1>1 DEF optionVars, TypeOK
<1> QED
  BY <1>1, <1>2, <1>3, <1>4, <1>5, <1>6, <1>7 DEF TypeOK, PodsTyped

-----------------------------------------------------------------------------
(* What a step does to pods and jobs: none appears but one of this run, of *)
(* the kind that is being deployed, on a GPU node.                         *)
LEMMA PodsAppear ==
  ASSUME TypeOK, Stages, [Next]_vars
  PROVE  /\ \A p \in Pods : pod[p] = "absent" /\ pod'[p] # "absent" =>
              step = "deploy" /\ p[1] = kind /\ p[3] = "new" /\ p[2] \in gpuNodes
         /\ \A k \in Kinds, n \in Nodes : job[k][n] = "none" /\ job'[k][n] # "none" =>
              step = "deploy" /\ k = kind
<1>1. CASE CreateJob \/ CreateFails
  <2>1. CASE UNCHANGED <<job, pod>>
    BY <2>1
  <2>2. CASE ~UNCHANGED <<job, pod>>
    <3>1. PICK n \in Targets(kind, flat) : Created(n)
      BY <1>1, <2>2 DEF CreateJob, CreateFails
    <3>2. n \in gpuNodes /\ n \in Nodes
      BY NodeCheckAssumption DEF Targets, TypeOK
    <3>3. /\ \A p \in Pods : p # <<kind, n, "new">> => pod'[p] = pod[p]
          /\ \A k \in Kinds, m \in Nodes : k # kind => job'[k][m] = job[k][m]
      BY <3>1, <3>2, CreateStep
    <3> QED
      BY <1>1, <3>2, <3>3 DEF CreateJob, CreateFails
  <2> QED
    BY <2>1, <2>2
<1>2. CASE DeleteJobs
  BY <1>2, DeleteStep
<1>3. CASE Cluster
  BY <1>3, ClusterStep DEF Cluster
<1>4. CASE NothingToDelete \/ PodsGone \/ StopWaiting \/ GpuCollect \/ NetCollect \/ ProbeCollect
           \/ Cancel \/ UNCHANGED vars
  <2>1. UNCHANGED <<job, pod>>
    BY <1>4 DEF NothingToDelete, PodsGone, StopWaiting, GpuCollect, NetCollect, ProbeCollect,
                Cancel, vars
  <2> QED
    BY <2>1
<1> QED
  BY <1>1, <1>2, <1>3, <1>4 DEF Next, RunStep

(* A kind is taken from the unwaited ones only when no pod of it is there, *)
(* from the undeleted ones when no job is, and a cleanup that returns      *)
(* leaves its kind clean.                                                  *)
LEMMA CleanupFacts ==
  ASSUME TypeOK, [Next]_vars
  PROVE  /\ \A k \in Kinds : k \in unwaited /\ k \notin unwaited' =>
              k = kind /\ Present(k) = {} /\ UNCHANGED pod
         /\ \A k \in Kinds : k \in undeleted /\ k \notin undeleted' =>
              k = kind /\ Listed(k) = {} /\ UNCHANGED job
         /\ NothingToDelete \/ PodsGone \/ StopWaiting =>
              /\ UNCHANGED <<job, pod>>
              /\ Present(kind) = {} \/ kind \in unwaited'
              /\ Listed(kind) = {} \/ kind \in undeleted'
<1>1. Present(kind) = {} => Listed(kind) = {}
  <2> SUFFICES ASSUME Present(kind) = {}, NEW n \in Listed(kind) PROVE FALSE
    OBVIOUS
  <2>1. n \in Nodes /\ kind \in Kinds /\ job[kind][n] \in Runs
    BY DEF Listed, TypeOK
  <2>2. <<kind, n, job[kind][n]>> \in Pods /\ pod[<<kind, n, job[kind][n]>>] \in OfAJob
    BY <2>1, PodFacts DEF TypeOK
  <2> QED
    BY <2>1, <2>2 DEF Present, OfAJob
<1>2. CASE NothingToDelete \/ PodsGone \/ StopWaiting
  <2>1. /\ UNCHANGED <<job, pod>>
        /\ StillThere \/ (Gone /\ Present(kind) = {})
    BY <1>2 DEF NothingToDelete, PodsGone, StopWaiting
  <2> QED
    BY <1>1, <1>2, <2>1 DEF Gone, StillThere
<1>3. CASE ~(NothingToDelete \/ PodsGone \/ StopWaiting)
  <2>1. unwaited' = unwaited /\ undeleted' = undeleted
    BY <1>3 DEF Next, RunStep, DeleteJobs, CreateJob, CreateFails, GpuCollect, NetCollect,
                ProbeCollect, Cluster, Cancel, vars, programVars, historyVars
  <2> QED
    BY <1>3, <2>1
<1> QED
  BY <1>2, <1>3

(* A kind that is clean stays clean unless it is being deployed. *)
LEMMA CleanStays ==
  ASSUME TypeOK, Stages, [Next]_vars, NEW k \in Kinds, Clean(k), step # "deploy" \/ kind # k
  PROVE  Clean(k)'
<1>1. Present(k) = {} => Present(k)' = {}
  BY PodsAppear DEF Present
<1>2. Listed(k) = {} => Listed(k)' = {}
  BY PodsAppear DEF Listed
<1>3. k \in unwaited /\ k \notin unwaited' => Present(k)' = {}
  BY <1>1, CleanupFacts
<1>4. k \in undeleted /\ k \notin undeleted' => Listed(k)' = {}
  BY <1>2, CleanupFacts
<1> QED
  BY <1>1, <1>2, <1>3, <1>4 DEF Clean

(* A kind that is known to have no old job stays so. *)
LEMMA CleanOfOldStays ==
  ASSUME TypeOK, Stages, [Next]_vars, NEW k \in Kinds, CleanOfOld(k)
  PROVE  CleanOfOld(k)'
<1>1. Olds' \subseteq Olds
  BY PodsAppear DEF Olds
<1>2. CASE k \in unwaited /\ k \notin unwaited'
  <2>1. \A p \in Olds' : p[1] # k
    BY <1>1, <1>2, CleanupFacts DEF Olds, Present
  <2> QED
    BY <2>1 DEF CleanOfOld
<1> QED
  BY <1>1, <1>2 DEF CleanOfOld

(* A cleanup that returns. *)
LEMMA CleanupReturns ==
  ASSUME TypeOK, [Next]_vars, NothingToDelete \/ PodsGone \/ StopWaiting,
         NEW k \in Kinds, k = kind
  PROVE  Clean(k)' /\ CleanOfOld(k)'
BY CleanupFacts DEF Clean, CleanOfOld, Present, Listed, Olds

(* A step keeps what the latest cleanup is known to have done, *)
LEMMA CleanedStep == TypeOK /\ Stages /\ Cleaned /\ [Next]_vars => Cleaned'
<1> SUFFICES ASSUME TypeOK, Stages, Cleaned, [Next]_vars PROVE Cleaned'
  OBVIOUS
<1>1. debug' = debug
  BY DEF Next, RunStep, DeleteJobs, NothingToDelete, PodsGone, StopWaiting, CreateJob, CreateFails,
         GpuCollect, NetCollect, ProbeCollect, Cluster, Cancel, vars, optionVars
<1>2. "gpu" \in Kinds /\ "net" \in Kinds /\ "bwprobe" \in Kinds
      /\ \A k \in Kinds : k \in {"gpu", "net", "bwprobe"}
  BY DEF Kinds
<1>3. CASE NothingToDelete \/ PodsGone \/ StopWaiting
  <2>1. AfterCleanup /\ step \in {"delete", "wait"}
    BY <1>3 DEF NothingToDelete, PodsGone, StopWaiting
  <2>2. \A k \in Kinds : k = kind \/ Clean(k) => Clean(k)'
    BY <1>3, <2>1, CleanupReturns, CleanStays
  <2> HIDE DEF Clean
  <2>3. stage' = "probe" => Clean("net")'
    BY <1>2, <2>1, <2>2 DEF AfterCleanup, AfterGpuChecks, Probe, Finish, Goto, Stages
  <2>4. stage' = "final" /\ step' # "done" /\ kind' \in {"net", "bwprobe"} => Clean("gpu")'
    BY <1>2, <2>1, <2>2 DEF AfterCleanup, AfterGpuChecks, Probe, Finish, Goto, Stages, Cleaned
  <2>5. stage' = "final" /\ step' # "done" /\ kind' = "bwprobe" => Clean("net")'
    BY <1>2, <2>1, <2>2 DEF AfterCleanup, AfterGpuChecks, Probe, Finish, Goto, Stages, Cleaned
  <2>6. step' = "done" /\ ~debug => \A k \in Kinds : Clean(k)'
    BY <1>2, <2>1, <2>2 DEF AfterCleanup, AfterGpuChecks, Probe, Finish, Goto, Stages, Cleaned
  <2> QED
    BY <1>1, <2>3, <2>4, <2>5, <2>6 DEF Cleaned
<1>4. CASE CreateJob \/ CreateFails \/ GpuCollect \/ NetCollect \/ ProbeCollect
  <2>1. /\ stage \in {"gpu", "net", "probe"}
        /\ step' = "done" => debug
        /\ stage' = "final" /\ step' # "done" => kind' = "gpu"
        /\ stage' = "probe" => stage = "probe"
    BY <1>4 DEF CreateJob, CreateFails, GpuCollect, NetCollect, ProbeCollect, AfterGpuChecks,
                Finish, Goto, Stages, TypeOK
  <2>2. stage = "probe" => Clean("net")'
    BY <1>2, CleanStays DEF Cleaned, Stages
  <2> QED
    BY <1>1, <2>1, <2>2 DEF Cleaned
<1>5. CASE DeleteJobs \/ Cluster \/ Cancel \/ UNCHANGED vars
  <2>1. UNCHANGED <<stage, kind>> /\ (step' = "done" <=> step = "done")
    BY <1>5 DEF DeleteJobs, Cluster, Cancel, vars, programVars, historyVars
  <2>2. \A k \in Kinds : Clean(k) /\ (step # "deploy" \/ kind # k) => Clean(k)'
    BY CleanStays
  <2>3. stage = "final" => step # "deploy"
    BY DEF Stages
  <2>4. step = "done" => step # "deploy"
    OBVIOUS
  <2>5. stage = "probe" => kind = "bwprobe"
    BY DEF Stages
  <2> QED
    BY <1>1, <1>2, <2>1, <2>2, <2>3, <2>4, <2>5 DEF Cleaned
<1> QED
  BY <1>3, <1>4, <1>5 DEF Next, RunStep

(* the same of the pods of an earlier run. *)
LEMMA OldCleanedStep == TypeOK /\ Stages /\ OldCleaned /\ [Next]_vars => OldCleaned'
<1> SUFFICES ASSUME TypeOK, Stages, OldCleaned, [Next]_vars PROVE OldCleaned'
  OBVIOUS
<1>1. "gpu" \in Kinds /\ "net" \in Kinds /\ "bwprobe" \in Kinds
      /\ \A k \in Kinds : k \in {"gpu", "net", "bwprobe"}
  BY DEF Kinds
<1>2. \A k \in Kinds : CleanOfOld(k) => CleanOfOld(k)'
  BY CleanOfOldStays
<1>3. CASE stage # "previous"
  <2>1. \A k \in Kinds : CleanOfOld(k)'
    BY <1>2, <1>3 DEF OldCleaned
  <2> QED
    BY <1>1, <2>1 DEF OldCleaned
<1>4. CASE stage = "previous" /\ (NothingToDelete \/ PodsGone \/ StopWaiting)
  <2>1. AfterCleanup /\ kind \in Kinds
    BY <1>4 DEF NothingToDelete, PodsGone, StopWaiting, TypeOK
  <2>2. \A k \in Kinds : k = kind \/ CleanOfOld(k) => CleanOfOld(k)'
    BY <1>2, <1>4, CleanupReturns
  <2>3. CASE kind = "gpu"
    <3>1. stage' = "previous" /\ kind' = "net"
      BY <1>4, <2>1, <2>3 DEF AfterCleanup, Goto
    <3> QED
      BY <1>1, <2>2, <2>3, <3>1 DEF OldCleaned
  <2>4. CASE kind = "net"
    <3>1. stage' = "previous" /\ kind' = "bwprobe"
      BY <1>4, <2>1, <2>4 DEF AfterCleanup, Goto
    <3> QED
      BY <1>1, <2>2, <2>4, <3>1 DEF OldCleaned
  <2>5. CASE kind = "bwprobe"
    <3>1. \A k \in Kinds : CleanOfOld(k)'
      BY <1>1, <2>2, <2>5 DEF OldCleaned
    <3> QED
      BY <1>1, <3>1 DEF OldCleaned
  <2> QED
    BY <1>1, <2>1, <2>3, <2>4, <2>5
<1>5. CASE stage = "previous" /\ ~(NothingToDelete \/ PodsGone \/ StopWaiting)
  <2>1. UNCHANGED <<stage, kind>>
    BY <1>5 DEF Next, RunStep, DeleteJobs, CreateJob, CreateFails, GpuCollect, NetCollect,
                ProbeCollect, Cluster, Cancel, vars, programVars, historyVars, Stages
  <2> QED
    BY <1>1, <1>2, <1>5, <2>1 DEF OldCleaned
<1> QED
  BY <1>3, <1>4, <1>5

(* and every step keeps it. *)
LEMMA InvStep == Inv /\ [Next]_vars => Inv'
<1> SUFFICES ASSUME Inv, [Next]_vars PROVE Inv'
  OBVIOUS
<1>1. TypeOK' /\ Stages' /\ Cleaned' /\ OldCleaned'
  BY TypeStep, CleanedStep, OldCleanedStep DEF Inv
<1>2. gpuNodes' = gpuNodes
  BY DEF Next, RunStep, DeleteJobs, NothingToDelete, PodsGone, StopWaiting, CreateJob, CreateFails,
         GpuCollect, NetCollect, ProbeCollect, Cluster, Cancel, vars, optionVars
<1>3. OnGPUNodes'
  BY <1>2, PodsAppear DEF Inv, OnGPUNodes
<1> QED
  BY <1>1, <1>3 DEF Inv

(* The inductive invariant behind the theorems of this module. *)
THEOREM Invariance == Spec => []Inv
BY InvInit, InvStep, PTL DEF Spec

(* Jobs, pods and the program's place keep their types, and a job exists   *)
(* exactly as long as its pod is not on its way out.                       *)
THEOREM TypeCorrect == Spec => []TypeOK
<1>1. Inv => TypeOK
  BY DEF Inv
<1> QED
  BY <1>1, Invariance, PTL

(* Beside a probe there is no pod of a net check, unless the wait for its  *)
(* end was given up: with and without --debug, whatever was left before.   *)
THEOREM ProbesHaveRoom == Spec => []ProbeHasRoom
<1>1. Inv => ProbeHasRoom
  BY DEF Inv, Cleaned, Clean, ProbeHasRoom
<1> QED
  BY <1>1, Invariance, PTL

(* At the end of a run no pod will start or go on holding a GPU, unless    *)
(* its job could not be listed or deleted, and the pods that still hold    *)
(* one are ending: also after a failed deployment, also what others left,  *)
(* and also pods of a cleanup that gave up, which later ones do not see.   *)
THEOREM GPUsAreReleased == Spec => []ReleasesGPUs
<1>1. ASSUME Inv, step = "done", ~debug, NEW p \in Pods
      PROVE  /\ pod[p] \in {"Pending", "Running"} => p[1] \in undeleted
             /\ pod[p] = "Terminating" => p[1] \in unwaited
  <2>1. Clean(p[1]) /\ p[1] \in Kinds /\ p[2] \in Nodes /\ p[3] \in Runs
    BY <1>1, PodFacts DEF Inv, Cleaned
  <2>2. pod[p] \in {"Pending", "Running"} => p[2] \in Listed(p[1])
    BY <1>1, <2>1 DEF Inv, TypeOK, OfAJob, Runs, Listed
  <2>3. pod[p] = "Terminating" => p \in Present(p[1])
    BY DEF Present
  <2> QED
    BY <2>1, <2>2, <2>3 DEF Clean
<1>2. Inv => ReleasesGPUs
  BY <1>1 DEF ReleasesGPUs
<1> QED
  BY <1>2, Invariance, PTL

-----------------------------------------------------------------------------
(* A step that puts something new into the reports has read logs. *)
LEMMA OnlyCollectReads ==
  ASSUME TypeOK, [Next]_vars, NEW n \in Nodes, report'[n] # report[n], report'[n] # "none"
  PROVE  /\ GpuCollect \/ NetCollect \/ ProbeCollect
         /\ UNCHANGED <<job, pod, gpuNodes, unwaited>>
<1>1. report' # report /\ report' # NoReports
  BY DEF NoReports, TypeOK
<1> QED
  BY <1>1 DEF Next, RunStep, DeleteJobs, NothingToDelete, PodsGone, StopWaiting, CreateJob,
              CreateFails, GpuCollect, NetCollect, ProbeCollect, Cluster, Cancel, vars,
              programVars, historyVars, optionVars

(* What was read for a node, if anything, is a log of one of its pods. *)
LEMMA WhatIsRead ==
  ASSUME NEW k \in Kinds, NEW nodes, ReadLogs(k, nodes), NEW n \in Nodes, report'[n] # "none"
  PROVE  /\ n \in nodes
         /\ \E r \in Runs : /\ pod[<<k, n, r>>] # "absent"
                            /\ report'[n] = IF pod[<<k, n, r>>] \in Finished THEN r ELSE "early"
BY DEF ReadLogs, LogsOf

(* A report comes from a pod of an earlier run only if the cleanup before  *)
(* the deployment returned while such pods were there.                     *)
THEOREM ReportsComeFromThisRun == Spec => ReportsAreFresh
<1>1. ASSUME Inv, [Next]_vars, NEW n \in Nodes, report[n] # "old", report'[n] = "old"
      PROVE  kind \in unwaited
  <2>1. GpuCollect \/ NetCollect \/ ProbeCollect
    BY <1>1, OnlyCollectReads DEF Inv
  <2>2. kind \in Kinds /\ stage # "previous"
    BY <1>1, <2>1 DEF Inv, TypeOK, GpuCollect, NetCollect, ProbeCollect
  <2>3. \E nodes : ReadLogs(kind, nodes)
    BY <1>1, <2>1 DEF GpuCollect, NetCollect, ProbeCollect, Collect, Inv, Stages
  <2>4. pod[<<kind, n, "old">>] # "absent"
    BY <1>1, <2>2, <2>3, WhatIsRead DEF Runs
  <2>5. <<kind, n, "old">> \in Olds
    BY <2>2, <2>4, PodFacts DEF Olds, Runs
  <2> QED
    BY <1>1, <2>2, <2>5 DEF Inv, OldCleaned, CleanOfOld
<1>2. Inv /\ [Next]_vars =>
        [\A n \in Nodes : report[n] # "old" /\ report'[n] = "old" => kind \in unwaited]_vars
  BY <1>1
<1> QED
  BY <1>2, Invariance, PTL DEF Spec, ReportsAreFresh

(* As many completed jobs as there are GPU nodes, none of them of an       *)
(* earlier run: then the job of every GPU node has completed.              *)
LEMMA AllCompleted ==
  ASSUME Inv, NEW k \in Kinds, \A p \in Present(k) : p[3] # "old",
         Cardinality(CompletedJobs(k)) >= Cardinality(gpuNodes)
  PROVE  \A n \in gpuNodes : pod[<<k, n, "new">>] = "Completed"
<1>1. \A n \in CompletedJobs(k) : n \in gpuNodes /\ pod[<<k, n, "new">>] = "Completed"
  <2> SUFFICES ASSUME NEW n \in CompletedJobs(k)
               PROVE  n \in gpuNodes /\ pod[<<k, n, "new">>] = "Completed"
    OBVIOUS
  <2>1. n \in Nodes /\ job[k][n] # "none" /\ pod[<<k, n, job[k][n]>>] = "Completed"
    BY DEF CompletedJobs, Listed
  <2>2. job[k][n] \in Runs
    BY <2>1 DEF Inv, TypeOK
  <2>3. <<k, n, job[k][n]>> \in Present(k)
    BY <2>1, <2>2, PodFacts DEF Present
  <2>4. job[k][n] = "new"
    BY <2>2, <2>3 DEF Runs
  <2> QED
    BY <2>1, <2>2, <2>4, PodFacts DEF Inv, OnGPUNodes
<1>2. IsFiniteSet(gpuNodes)
  BY NodeCheckAssumption, FS_Subset DEF Inv, TypeOK
<1>3. CompletedJobs(k) \subseteq gpuNodes
  BY <1>1
<1>4. /\ Cardinality(CompletedJobs(k)) <= Cardinality(gpuNodes)
      /\ Cardinality(CompletedJobs(k)) = Cardinality(gpuNodes) => CompletedJobs(k) = gpuNodes
      /\ Cardinality(CompletedJobs(k)) \in Nat /\ Cardinality(gpuNodes) \in Nat
  BY <1>2, <1>3, FS_Subset, FS_CardinalityType
<1>5. CompletedJobs(k) = gpuNodes
  BY <1>4
<1> QED
  BY <1>1, <1>5

(* The log of an unfinished check is read only beside pods of an earlier   *)
(* run: whether all reports were there, or time was up, or ^C came.        *)
THEOREM NobodyIsBlamedEarly == Spec => UnfinishedIsNoFail
<1>1. ASSUME Inv, [Next]_vars, NEW n \in Nodes, kind \in {"gpu", "net"},
             report[n] # "early", report'[n] = "early"
      PROVE  \E p \in Present(kind) : p[3] = "old"
  <2> SUFFICES ASSUME \A p \in Present(kind) : p[3] # "old" PROVE FALSE
    OBVIOUS
  <2>1. GpuCollect \/ NetCollect
    <3>1. GpuCollect \/ NetCollect \/ ProbeCollect
      BY <1>1, OnlyCollectReads DEF Inv
    <3> QED
      BY <1>1, <3>1 DEF ProbeCollect, Inv, Stages
  <2>2. kind \in Kinds /\ Collect
    BY <1>1, <2>1 DEF GpuCollect, NetCollect, Kinds
  <2>3. PICK nodes \in {Listed(kind), CompletedJobs(kind)} :
          /\ ReadLogs(kind, nodes)
          /\ \/ nodes = CompletedJobs(kind)
             \/ Cardinality(CompletedJobs(kind)) >= Cardinality(gpuNodes)
    BY <2>2 DEF Collect
  <2>4. PICK r \in Runs : /\ n \in nodes
                          /\ pod[<<kind, n, r>>] # "absent"
                          /\ report'[n] = IF pod[<<kind, n, r>>] \in Finished THEN r ELSE "early"
    BY <1>1, <2>2, <2>3, WhatIsRead
  <2>5. r = "new" /\ pod[<<kind, n, "new">>] \notin Finished /\ n \in gpuNodes
    <3>1. <<kind, n, r>> \in Present(kind) /\ <<kind, n, r>> \in Pods
      BY <2>2, <2>4, PodFacts DEF Present
    <3>2. r = "new"
      BY <3>1 DEF Runs
    <3>3. pod[<<kind, n, "new">>] \notin Finished
      BY <1>1, <2>4, <3>2
    <3> QED
      BY <1>1, <2>4, <3>1, <3>2, <3>3 DEF Inv, OnGPUNodes
  <2>6. CASE nodes = CompletedJobs(kind)
    <3>1. job[kind][n] \in Runs /\ pod[<<kind, n, job[kind][n]>>] = "Completed"
      BY <1>1, <2>2, <2>4, <2>6 DEF CompletedJobs, Listed, Inv, TypeOK
    <3>2. <<kind, n, job[kind][n]>> \in Present(kind)
      BY <2>2, <3>1, PodFacts DEF Present
    <3>3. job[kind][n] = "new"
      BY <3>1, <3>2 DEF Runs
    <3> QED
      BY <2>5, <3>1, <3>3 DEF Finished
  <2>7. CASE Cardinality(CompletedJobs(kind)) >= Cardinality(gpuNodes)
    BY <1>1, <2>2, <2>5, <2>7, AllCompleted DEF Finished
  <2> QED
    BY <2>3, <2>6, <2>7
<1>2. Inv /\ [Next]_vars =>
        [\A n \in Nodes :
           kind \in {"gpu", "net"} /\ report[n] # "early" /\ report'[n] = "early"
             => \E p \in Present(kind) : p[3] = "old"]_vars
  BY <1>1
<1> QED
  BY <1>2, Invariance, PTL DEF Spec, UnfinishedIsNoFail

=============================================================================
