------------------------------- MODULE RunJob -------------------------------
(***************************************************************************)
(* One call of Runner.RunJob (pkg/jobrunner/runner.go): deploy a server   *)
(* job, wait for its pod's IP, deploy the client jobs, wait for them, read *)
(* their logs, and, in a deferred call, delete what was created.           *)
(*                                                                         *)
(* A task is whatever calls RunJob: a node pair of RunPairwise, or one job *)
(* of one round of RunRing and RunStar.  Pairwise and RingStar extend this *)
(* module with the loops that make the calls.  The Kubernetes API and the  *)
(* kubelets are external: a Job has backoffLimit 0, so it is modelled by   *)
(* the phase of its only pod.                                              *)
(***************************************************************************)
EXTENDS Integers, Sequences, FiniteSets

CONSTANTS
  Nodes,        \* node names
  Tasks,        \* the callers of RunJob
  Server,       \* Server[t]: the serverNode argument of t's calls
  Clients,      \* Clients[t]: the set of t's clientNodes
  MaxAttempts   \* how often a task may call RunJob

ASSUME TaskAssumption ==
  /\ Server \in [Tasks -> Nodes]
  /\ Clients \in [Tasks -> SUBSET Nodes]
  /\ \A t \in Tasks : Clients[t] # {}
  /\ MaxAttempts \in Nat \ {0}

Attempts == 1 .. MaxAttempts

Hosts(t) == {Server[t]} \cup Clients[t]

(* The jobs of one call.  A node may have one in each role: --client-nodes *)
(* may name the server's node.                                             *)
Roles == {"server", "client"}
ServerJob(t) == <<"server", Server[t]>>
ClientJob(n) == <<"client", n>>
JobsOf(t) == {ServerJob(t)} \cup {ClientJob(n) : n \in Clients[t]}

(* The jobs a task may create: the job and its node, the role and the      *)
(* attempt (SetNameSuffix) make the name.                                  *)
Pods == {p \in Tasks \X Attempts \X (Roles \X Nodes) : p[3] \in JobsOf(p[1])}

(* Nothing below tells Succeeded from Failed: waitForJobs counts both, and *)
(* the log is read whatever the exit code was.                             *)
Phases == {"absent", "Pending", "Running", "Completed", "Terminating"}

(* "idle" is outside RunJob, before a call; "returned" just after one.     *)
(* "done" is a task that makes no more calls.                              *)
Steps == {"idle", "server", "waitip", "settle", "clients", "waitjobs",
          "collect", "cleanup", "polling", "returned", "done"}

VARIABLES
  debug,      \* Runner.debug: keep the pods
  step,       \* step[t]: where t's goroutine is
  attempt,    \* attempt[t]: number of t's current or latest call
  created,    \* created[t]: createdJobs, the jobs whose Create succeeded
  ret,        \* ret[t]: what the call returns, "none" while undecided
  passed,     \* passed[t]: clients whose row is PASS when ret[t] = "rows"
  cancelled,  \* ctx.Done() (SIGINT or SIGTERM)
  pod,        \* pod[p]: phase of job p's pod, as the API server has it
  left        \* pods that a returned call left behind (history)

runVars == <<step, attempt, created, ret, passed>>
jobVars == <<debug, step, attempt, created, ret, passed, cancelled, pod, left>>

JobTypeOK ==
  /\ debug \in BOOLEAN
  /\ step \in [Tasks -> Steps]
  /\ attempt \in [Tasks -> 0 .. MaxAttempts]
  /\ created \in [Tasks -> SUBSET (Roles \X Nodes)]
  /\ ret \in [Tasks -> {"none", "error", "rows"}]
  /\ passed \in [Tasks -> SUBSET Nodes]
  /\ cancelled \in BOOLEAN
  /\ pod \in [Pods -> Phases]
  /\ left \in SUBSET Pods

JobInit ==
  /\ debug \in BOOLEAN
  /\ step = [t \in Tasks |-> "idle"]
  /\ attempt = [t \in Tasks |-> 0]
  /\ created = [t \in Tasks |-> {}]
  /\ ret = [t \in Tasks |-> "none"]
  /\ passed = [t \in Tasks |-> {}]
  /\ cancelled = FALSE
  /\ pod = [p \in Pods |-> "absent"]
  /\ left = {}

Job(t, j) == <<t, attempt[t], j>>
Live == {p \in Pods : pod[p] # "absent"}
Goto(t, s) == step' = [step EXCEPT ![t] = s]

-----------------------------------------------------------------------------
(* The steps of RunJob. *)

(* An early return: the deferred cleanup runs next. *)
Fail(t) ==
  /\ Goto(t, "cleanup")
  /\ ret' = [ret EXCEPT ![t] = "error"]

(* Jobs().Create answers: the Job exists and createdJobs remembers it.  A  *)
(* cancelled ctx never gets an answer, and an existing name is refused.    *)
CreateOK(t, j) ==
  /\ ~cancelled
  /\ pod[Job(t, j)] = "absent"
  /\ pod' = [pod EXCEPT ![Job(t, j)] = "Pending"]
  /\ created' = [created EXCEPT ![t] = @ \cup {j}]
  /\ UNCHANGED left

(* Create returns an error: nothing was created, or the reply was lost on  *)
(* the way (the connection broke, or the ctx was cancelled with the        *)
(* request in flight: the Cancel step follows) and the Job exists without  *)
(* being in createdJobs.  A request is never sent with a cancelled ctx.    *)
CreateError(t, j) ==
  /\ Fail(t)
  /\ \/ UNCHANGED <<pod, left>>
     \/ /\ ~cancelled
        /\ pod[Job(t, j)] = "absent"
        /\ pod' = [pod EXCEPT ![Job(t, j)] = "Pending"]
        /\ left' = left \cup {Job(t, j)}
  /\ UNCHANGED created

CreateServer(t) ==
  /\ step[t] = "server"
  /\ \/ CreateOK(t, ServerJob(t)) /\ Goto(t, "waitip") /\ UNCHANGED ret
     \/ CreateError(t, ServerJob(t))
  /\ UNCHANGED <<attempt, passed, cancelled>>

(* waitForPodIP: the pod is seen Running, or it has failed, or the timer   *)
(* or ctx.Done fires; the timer may fire at any moment.                    *)
WaitForPodIP(t) ==
  /\ step[t] = "waitip"
  /\ \/ /\ ~cancelled
        /\ pod[Job(t, ServerJob(t))] = "Running"
        /\ Goto(t, "settle")
        /\ UNCHANGED ret
     \/ Fail(t)
  /\ UNCHANGED <<attempt, created, passed, cancelled, pod, left>>

(* The three seconds given to the server process to start listening. *)
Settle(t) ==
  /\ step[t] = "settle"
  /\ \/ Goto(t, "clients") /\ UNCHANGED ret
     \/ cancelled /\ Fail(t)
  /\ UNCHANGED <<attempt, created, passed, cancelled, pod, left>>

CreateClient(t) ==
  /\ step[t] = "clients"
  /\ \E j \in JobsOf(t) \ created[t] :
       \/ /\ CreateOK(t, j)
          /\ Goto(t, IF JobsOf(t) \subseteq created[t] \cup {j}
                     THEN "waitjobs" ELSE "clients")
          /\ UNCHANGED ret
       \/ CreateError(t, j)
  /\ UNCHANGED <<attempt, passed, cancelled>>

Completed(t) == {n \in Clients[t] : pod[Job(t, ClientJob(n))] = "Completed"}

(* Faulty variant: no timer in waitForJobs. *)
WaitForJobsForever(t) ==
  /\ step[t] = "waitjobs"
  /\ \/ /\ ~cancelled
        /\ Completed(t) = Clients[t]
        /\ Goto(t, "collect")
        /\ UNCHANGED ret
     \/ cancelled /\ Fail(t)
  /\ UNCHANGED <<attempt, created, passed, cancelled, pod, left>>

(* waitForJobs: every client completed, or the timer or ctx.Done fires and *)
(* the call returns without any row.                                       *)
WaitForJobs(t) ==
  /\ step[t] = "waitjobs"
  /\ \/ /\ ~cancelled
        /\ Completed(t) = Clients[t]
        /\ Goto(t, "collect")
        /\ UNCHANGED ret
     \/ Fail(t)
  /\ UNCHANGED <<attempt, created, passed, cancelled, pod, left>>

(* getJobLogs and ParseResult of every client.  A row is PASS only if the  *)
(* log could be read and says so; a log that cannot be read or parsed, and *)
(* every log after ctx.Done, gives a FAIL row.                             *)
Collect(t) ==
  /\ step[t] = "collect"
  /\ \E S \in SUBSET Completed(t) :
       /\ cancelled => S = {}
       /\ passed' = [passed EXCEPT ![t] = S]
  /\ Goto(t, "cleanup")
  /\ ret' = [ret EXCEPT ![t] = "rows"]
  /\ UNCHANGED <<attempt, created, cancelled, pod, left>>

-----------------------------------------------------------------------------
(* cleanup, deferred by RunJob and run with context.Background().          *)

OwnLive(t) == {Job(t, j) : j \in {k \in created[t] : pod[Job(t, k)] # "absent"}}

KeepForDebug(t) ==
  /\ step[t] = "cleanup" /\ debug
  /\ Goto(t, "returned")
  /\ left' = left \cup OwnLive(t)
  /\ created' = [created EXCEPT ![t] = {}]
  /\ UNCHANGED <<attempt, ret, passed, cancelled, pod>>

(* The delete loop: a Delete that fails is only warned about. *)
DeleteJobs(t) ==
  /\ step[t] = "cleanup" /\ ~debug
  /\ \E D \in SUBSET OwnLive(t) :
       pod' = [p \in Pods |-> IF p \in D THEN "Terminating" ELSE pod[p]]
  /\ Goto(t, "polling")
  /\ UNCHANGED <<attempt, created, ret, passed, cancelled, left>>

(* Faulty variant: the poll loop looks at the jobs only, which background  *)
(* propagation removes before their pods.                                  *)
PollJobsOnly(t) ==
  /\ step[t] = "polling"
  /\ Goto(t, "returned")
  /\ created' = [created EXCEPT ![t] = {}]
  /\ UNCHANGED <<attempt, ret, passed, cancelled, pod, left>>

(* The poll loop ends when every job and pod is gone, or after its 60th    *)
(* poll, with a warning, whatever remains.                                 *)
PollGone(t) ==
  /\ step[t] = "polling"
  /\ OwnLive(t) = {}
  /\ Goto(t, "returned")
  /\ created' = [created EXCEPT ![t] = {}]
  /\ UNCHANGED <<attempt, ret, passed, cancelled, pod, left>>

GiveUp(t) ==
  /\ step[t] = "polling"
  /\ OwnLive(t) # {}
  /\ Goto(t, "returned")
  /\ left' = left \cup OwnLive(t)
  /\ created' = [created EXCEPT ![t] = {}]
  /\ UNCHANGED <<attempt, ret, passed, cancelled, pod>>

RunJobStep(t) ==
  \/ CreateServer(t)
  \/ WaitForPodIP(t)
  \/ Settle(t)
  \/ CreateClient(t)
  \/ WaitForJobs(t)
  \/ Collect(t)
  \/ KeepForDebug(t)
  \/ DeleteJobs(t)
  \/ PollGone(t)
  \/ GiveUp(t)

(* Faulty variant: attempt <= maxAttempts is tested before the increment. *)
CallOnceMore(t) ==
  /\ attempt[t] <= MaxAttempts
  /\ attempt' = [attempt EXCEPT ![t] = @ + 1]
  /\ Goto(t, "server")
  /\ UNCHANGED <<created, ret, passed, cancelled, pod, left>>

(* The caller enters RunJob. *)
Call(t) ==
  /\ attempt[t] < MaxAttempts
  /\ attempt' = [attempt EXCEPT ![t] = @ + 1]
  /\ Goto(t, "server")
  /\ UNCHANGED <<created, ret, passed, cancelled, pod, left>>

(* The caller has taken what RunJob returned and goes to step s. *)
Consume(t, s) ==
  /\ Goto(t, s)
  /\ ret' = [ret EXCEPT ![t] = "none"]
  /\ passed' = [passed EXCEPT ![t] = {}]
  /\ UNCHANGED <<attempt, created, cancelled, pod, left>>

-----------------------------------------------------------------------------
(* The environment: kubelets move pods, a signal cancels the context. *)

PodPhaseSteps ==
  { <<"Pending", "Running">>, <<"Pending", "Completed">>,
    <<"Running", "Completed">>, <<"Terminating", "absent">> }

PodStep(p) ==
  /\ \E e \in PodPhaseSteps : pod[p] = e[1] /\ pod' = [pod EXCEPT ![p] = e[2]]
  /\ UNCHANGED <<runVars, cancelled, left>>

Cancel ==
  /\ ~cancelled
  /\ cancelled' = TRUE
  /\ UNCHANGED <<runVars, pod, left>>

=============================================================================
