---------------------------- MODULE RunJobProofs ----------------------------
(***************************************************************************)
(* What a step of RunJob does, whoever calls it: lemmas for the proofs     *)
(* about RunPairwise (PairwiseProofs) and about RunRing and RunStar        *)
(* (RingStarProofs).                                                       *)
(***************************************************************************)
EXTENDS RunJob, TLAPS

Outside == {"idle", "done"}

(* A call has an attempt number, and its createdJobs are jobs of its task. *)
JobPlaced ==
  \A t \in Tasks :
    /\ created[t] \subseteq JobsOf(t)
    /\ step[t] \notin Outside => attempt[t] # 0

(* A pod that no call left behind is in the createdJobs of a call in       *)
(* progress, of the latest attempt of its task.                            *)
Owned ==
  \A p \in Live \ left :
    /\ step[p[1]] \notin {"idle", "server", "returned", "done"}
    /\ p[2] = attempt[p[1]]
    /\ p[3] \in created[p[1]]

JobInv == JobTypeOK /\ JobPlaced /\ Owned

-----------------------------------------------------------------------------
(* A pod is determined by its task, attempt, role and node. *)
LEMMA PodIsATriple ==
  ASSUME NEW p \in Pods
  PROVE  /\ p[1] \in Tasks /\ p[2] \in Attempts
         /\ p[3] \in JobsOf(p[1]) /\ p[3][2] \in Hosts(p[1])
         /\ p = <<p[1], p[2], p[3]>>
<1>1. /\ p[1] \in Tasks /\ p[2] \in Attempts /\ p[3] \in JobsOf(p[1])
      /\ p = <<p[1], p[2], p[3]>>
  BY DEF Pods
<1>2. p[3][2] \in Hosts(p[1])
  BY <1>1 DEF JobsOf, ServerJob, ClientJob, Hosts
<1> QED
  BY <1>1, <1>2

(* The jobs of a call have a role and a node. *)
LEMMA JobsAreTyped ==
  ASSUME NEW t \in Tasks
  PROVE  JobsOf(t) \subseteq Roles \X Nodes
BY TaskAssumption DEF JobsOf, ServerJob, ClientJob, Roles

(* The job of a call in progress is a pod of the model. *)
LEMMA JobIsAPod ==
  ASSUME JobTypeOK, JobPlaced, NEW t \in Tasks, step[t] \notin Outside, NEW j \in JobsOf(t)
  PROVE  Job(t, j) \in Pods
<1>1. attempt[t] \in Attempts
  BY TaskAssumption DEF JobTypeOK, JobPlaced, Attempts
<1>2. j \in Roles \X Nodes
  BY JobsAreTyped
<1> QED
  BY <1>1, <1>2 DEF Job, Pods

(* The running jobs of a call are among the pods that live. *)
LEMMA OwnLiveArePods ==
  ASSUME JobTypeOK, JobPlaced, NEW t \in Tasks, step[t] \notin Outside
  PROVE  OwnLive(t) \subseteq Live
<1>1. \A j \in created[t] : Job(t, j) \in Pods
  BY JobIsAPod DEF JobPlaced
<1> QED
  BY <1>1 DEF OwnLive, Live

(* The invariant of the job runner holds at first, *)
LEMMA JobInvInit == JobInit => JobInv
<1> SUFFICES ASSUME JobInit PROVE JobInv
  OBVIOUS
<1>1. 0 \in 0 .. MaxAttempts /\ {} \in SUBSET Nodes /\ {} \in SUBSET Pods
      /\ {} \in SUBSET (Roles \X Nodes)
  BY TaskAssumption
<1>2. "idle" \in Steps /\ "absent" \in Phases
  BY DEF Steps, Phases
<1>3. JobTypeOK
  BY <1>1, <1>2 DEF JobInit, JobTypeOK
<1>4. JobPlaced /\ Owned
  BY DEF JobInit, JobPlaced, Owned, Outside, Live
<1> QED
  BY <1>3, <1>4 DEF JobInv

-----------------------------------------------------------------------------
(* Types. *)
LEMMA JobTypeStep ==
  ASSUME JobTypeOK, JobPlaced, NEW t \in Tasks, RunJobStep(t), UNCHANGED debug
  PROVE  JobTypeOK'
<1> USE TaskAssumption DEF JobTypeOK
<1>1. CASE CreateServer(t)
  <2>1. Job(t, ServerJob(t)) \in Pods
    BY <1>1, JobIsAPod DEF CreateServer, JobsOf, Outside
  <2>2. pod' \in [Pods -> Phases] /\ left' \in SUBSET Pods
    BY <1>1, <2>1 DEF CreateServer, CreateOK, CreateError, Phases
  <2>3. step' \in [Tasks -> Steps] /\ ret' \in [Tasks -> {"none", "error", "rows"}]
    BY <1>1 DEF CreateServer, CreateOK, CreateError, Fail, Goto, Steps
  <2>4. created' \in [Tasks -> SUBSET (Roles \X Nodes)]
    <3>1. created[t] \cup {ServerJob(t)} \in SUBSET (Roles \X Nodes)
      BY JobsAreTyped DEF JobsOf
    <3> QED
      BY <1>1, <3>1 DEF CreateServer, CreateOK, CreateError
  <2> QED
    BY <1>1, <2>2, <2>3, <2>4 DEF CreateServer
<1>2. CASE WaitForPodIP(t)
  BY <1>2 DEF WaitForPodIP, Fail, Goto, Steps
<1>3. CASE Settle(t)
  BY <1>3 DEF Settle, Fail, Goto, Steps
<1>4. CASE CreateClient(t)
  <2>1. PICK j \in JobsOf(t) \ created[t] :
          \/ /\ CreateOK(t, j)
             /\ Goto(t, IF JobsOf(t) \subseteq created[t] \cup {j}
                        THEN "waitjobs" ELSE "clients")
             /\ UNCHANGED ret
          \/ CreateError(t, j)
    BY <1>4 DEF CreateClient
  <2>2. Job(t, j) \in Pods
    BY <1>4, JobIsAPod DEF CreateClient, Outside
  <2>3. pod' \in [Pods -> Phases] /\ left' \in SUBSET Pods
    BY <2>1, <2>2 DEF CreateOK, CreateError, Phases
  <2>4. step' \in [Tasks -> Steps] /\ ret' \in [Tasks -> {"none", "error", "rows"}]
    BY <2>1 DEF CreateError, Fail, Goto, Steps
  <2>5. created' \in [Tasks -> SUBSET (Roles \X Nodes)]
    <3>1. created[t] \cup {j} \in SUBSET (Roles \X Nodes)
      BY JobsAreTyped
    <3> QED
      BY <2>1, <3>1 DEF CreateOK, CreateError
  <2> QED
    BY <1>4, <2>3, <2>4, <2>5 DEF CreateClient
<1>5. CASE WaitForJobs(t)
  BY <1>5 DEF WaitForJobs, Fail, Goto, Steps
<1>6. CASE Collect(t)
  BY <1>6 DEF Collect, Completed, Goto, Steps
<1>7. CASE KeepForDebug(t)
  BY <1>7, OwnLiveArePods DEF KeepForDebug, Live, Goto, Steps, Outside
<1>8. CASE DeleteJobs(t)
  BY <1>8 DEF DeleteJobs, Goto, Steps, Phases
<1>9. CASE PollGone(t)
  BY <1>9 DEF PollGone, Goto, Steps
<1>10. CASE GiveUp(t)
  BY <1>10, OwnLiveArePods DEF GiveUp, Live, Goto, Steps, Outside
<1> QED
  BY <1>1, <1>2, <1>3, <1>4, <1>5, <1>6, <1>7, <1>8, <1>9, <1>10 DEF RunJobStep

(* A step of RunJob by t's goroutine starts and ends inside the call, moves *)
(* no other goroutine, and creates jobs of t only.                          *)
LEMMA RunJobStepIsLocal ==
  ASSUME JobTypeOK, JobPlaced, NEW t \in Tasks, RunJobStep(t)
  PROVE  /\ step[t] \notin Outside \cup {"returned"}
         /\ step'[t] \notin Outside \cup {"server"}
         /\ \A u \in Tasks \ {t} : step'[u] = step[u] /\ created'[u] = created[u]
         /\ created'[t] \subseteq JobsOf(t)
         /\ UNCHANGED <<attempt, cancelled>>
<1> USE DEF JobTypeOK, Outside, Goto, Fail, JobPlaced
<1>1. CASE CreateServer(t)
  BY <1>1 DEF CreateServer, CreateOK, CreateError, JobsOf
<1>2. CASE WaitForPodIP(t)
  BY <1>2 DEF WaitForPodIP
<1>3. CASE Settle(t)
  BY <1>3 DEF Settle
<1>4. CASE CreateClient(t)
  BY <1>4 DEF CreateClient, CreateOK, CreateError
<1>5. CASE WaitForJobs(t)
  BY <1>5 DEF WaitForJobs
<1>6. CASE Collect(t)
  BY <1>6 DEF Collect
<1>7. CASE KeepForDebug(t)
  BY <1>7 DEF KeepForDebug
<1>8. CASE DeleteJobs(t)
  BY <1>8 DEF DeleteJobs
<1>9. CASE PollGone(t)
  BY <1>9 DEF PollGone
<1>10. CASE GiveUp(t)
  BY <1>10 DEF GiveUp
<1> QED
  BY <1>1, <1>2, <1>3, <1>4, <1>5, <1>6, <1>7, <1>8, <1>9, <1>10 DEF RunJobStep

(* A pod that starts to be, or ceases to be left out, belongs to the call  *)
(* that creates it; a call that ends has deleted or given up all of its    *)
(* pods.                                                                   *)
LEMMA OwnedJobStep ==
  ASSUME JobTypeOK, JobPlaced, Owned, NEW t \in Tasks, RunJobStep(t)
  PROVE  Owned'
<1> DEFINE Unowned(q) == q \in Live /\ q \notin left
<1> USE DEF Outside
<1>local. /\ step[t] \notin Outside \cup {"returned"}
          /\ step'[t] \notin Outside \cup {"server"}
          /\ \A u \in Tasks \ {t} : step'[u] = step[u] /\ created'[u] = created[u]
          /\ UNCHANGED attempt
  BY RunJobStepIsLocal
<1>own. ASSUME NEW q \in Live, q \notin left, q[1] = t
        PROVE  q \in OwnLive(t) /\ q[3] \in created[t] /\ q[2] = attempt[t]
               /\ step[t] \notin {"idle", "server", "returned", "done"}
  <2>1. q[2] = attempt[t] /\ q[3] \in created[t]
        /\ step[t] \notin {"idle", "server", "returned", "done"}
    BY <1>own DEF Owned
  <2>2. q = Job(t, q[3]) /\ pod[q] # "absent"
    BY <1>own, <2>1, PodIsATriple DEF Live, Job
  <2> QED
    BY <2>1, <2>2 DEF OwnLive
<1>1. CASE CreateServer(t) \/ CreateClient(t)
  <2>1. PICK j \in JobsOf(t) :
          /\ CreateOK(t, j) \/ CreateError(t, j)
          /\ step'[t] # "returned"
    BY <1>1 DEF CreateServer, CreateClient, CreateError, JobsOf, Fail, Goto, JobTypeOK
  <2>2. Job(t, j) \in Pods
    BY JobIsAPod, <1>local
  <2>3. ASSUME NEW q \in Live', q \notin left'
        PROVE  (q \in Live /\ q \notin left) \/ (q = Job(t, j) /\ CreateOK(t, j))
    BY <2>1, <2>2, <2>3 DEF CreateOK, CreateError, Live, JobTypeOK
  <2>4. created[t] \subseteq created'[t] /\ (CreateOK(t, j) => j \in created'[t])
    BY <2>1 DEF CreateOK, CreateError, JobTypeOK
  <2>5. ASSUME NEW q \in Live', q \notin left'
        PROVE  /\ step'[q[1]] \notin {"idle", "server", "returned", "done"}
               /\ q[2] = attempt'[q[1]]
               /\ q[3] \in created'[q[1]]
    <3>1. CASE q \in Live /\ q \notin left /\ q[1] = t
      BY <3>1, <1>own, <1>local, <2>1, <2>4
    <3>2. CASE q \in Live /\ q \notin left /\ q[1] # t
      BY <3>2, <1>local, PodIsATriple DEF Owned, Live
    <3>3. CASE q = Job(t, j) /\ CreateOK(t, j)
      BY <3>3, <1>local, <2>1, <2>4 DEF Job
    <3> QED
      BY <2>3, <2>5, <3>1, <3>2, <3>3
  <2> QED
    BY <2>5 DEF Owned
<1>2. CASE WaitForPodIP(t) \/ Settle(t) \/ WaitForJobs(t) \/ Collect(t) \/ DeleteJobs(t)
  <2>1. Live' = Live
    BY <1>2, OwnLiveArePods, <1>local
       DEF WaitForPodIP, Settle, WaitForJobs, Collect, DeleteJobs, Live
  <2>2. UNCHANGED <<left, created>> /\ step'[t] # "returned"
    BY <1>2 DEF WaitForPodIP, Settle, WaitForJobs, Collect, DeleteJobs, Goto, Fail, JobTypeOK
  <2> QED
    BY <2>1, <2>2, <1>local, <1>own, PodIsATriple DEF Owned, Live
<1>3. CASE KeepForDebug(t) \/ PollGone(t) \/ GiveUp(t)
  <2>1. Live' = Live
    BY <1>3 DEF KeepForDebug, PollGone, GiveUp, Live
  <2>2. left \subseteq left' /\ OwnLive(t) \subseteq left'
    BY <1>3 DEF KeepForDebug, PollGone, GiveUp
  <2>3. \A q \in Live' \ left' : q \in Live /\ q \notin left /\ q[1] # t
    BY <2>1, <2>2, <1>own
  <2> QED
    BY <2>3, <1>local, PodIsATriple DEF Owned, Live
<1> QED
  BY <1>1, <1>2, <1>3 DEF RunJobStep

-----------------------------------------------------------------------------
(* The invariant of every step that a caller of RunJob, the kubelets or    *)
(* the signal handler may take.                                            *)
LEMMA JobInvStep ==
  ASSUME JobInv, NEW t \in Tasks, RunJobStep(t), UNCHANGED debug
  PROVE  JobInv'
<1>1. JobTypeOK' /\ Owned'
  BY JobTypeStep, OwnedJobStep DEF JobInv
<1>2. JobPlaced'
  BY RunJobStepIsLocal DEF JobInv, JobPlaced, JobsOf, ServerJob
<1> QED
  BY <1>1, <1>2 DEF JobInv

(* The caller moves t where t holds no pod. *)
LEMMA OwnedElsewhere ==
  ASSUME JobInv, NEW t \in Tasks, step[t] \in {"idle", "returned"},
         UNCHANGED <<created, pod, left>>,
         \A u \in Tasks \ {t} : step'[u] = step[u] /\ attempt'[u] = attempt[u]
  PROVE  Owned'
<1>1. \A q \in Live \ left : q[1] # t
  BY DEF JobInv, Owned
<1> QED
  BY <1>1, PodIsATriple DEF JobInv, Owned, Live

(* when RunJob is called, *)
LEMMA JobInvCall ==
  ASSUME JobInv, NEW t \in Tasks, step[t] = "idle", Call(t), UNCHANGED debug
  PROVE  JobInv'
<1>1. JobTypeOK'
  BY TaskAssumption DEF JobInv, JobTypeOK, Call, Goto, Steps
<1>2. JobPlaced'
  BY TaskAssumption DEF JobInv, JobTypeOK, JobPlaced, Call, Goto, Outside, JobsOf, ServerJob
<1>3. Owned'
  BY OwnedElsewhere DEF JobInv, JobTypeOK, Call, Goto
<1> QED
  BY <1>1, <1>2, <1>3 DEF JobInv

(* when its result is taken, *)
LEMMA JobInvConsume ==
  ASSUME JobInv, NEW t \in Tasks, step[t] = "returned", NEW s \in Outside,
         Consume(t, s), UNCHANGED debug
  PROVE  JobInv'
<1>1. JobTypeOK'
  BY DEF JobInv, JobTypeOK, Consume, Goto, Steps, Outside
<1>2. JobPlaced'
  BY DEF JobInv, JobTypeOK, JobPlaced, Consume, Goto, JobsOf, ServerJob
<1>3. Owned'
  BY OwnedElsewhere DEF JobInv, JobTypeOK, Consume, Goto
<1> QED
  BY <1>1, <1>2, <1>3 DEF JobInv

(* when a pod changes its phase, *)
LEMMA JobInvPodStep ==
  ASSUME JobInv, NEW p \in Live, PodStep(p), UNCHANGED debug
  PROVE  JobInv'
<1>1. PICK e \in PodPhaseSteps : pod' = [pod EXCEPT ![p] = e[2]]
  BY DEF PodStep
<1>2. e[2] \in Phases
  BY DEF PodPhaseSteps, Phases
<1>3. JobTypeOK'
  BY <1>1, <1>2 DEF JobInv, JobTypeOK, PodStep, runVars
<1>4. Live' \subseteq Live
  BY <1>1 DEF JobInv, JobTypeOK, Live
<1> QED
  BY <1>3, <1>4 DEF JobInv, JobPlaced, Owned, PodStep, runVars, JobsOf, ServerJob

(* when the ctx is cancelled, *)
LEMMA JobInvCancel ==
  ASSUME JobInv, Cancel, UNCHANGED debug
  PROVE  JobInv'
BY DEF JobInv, JobTypeOK, JobPlaced, Owned, Live, JobsOf, ServerJob, Cancel, runVars

(* and when nothing of it changes. *)
LEMMA JobInvStutter ==
  ASSUME JobInv, UNCHANGED jobVars
  PROVE  JobInv'
BY DEF JobInv, JobTypeOK, JobPlaced, Owned, Live, JobsOf, ServerJob, jobVars

=============================================================================
