------------------------------ MODULE Pairwise ------------------------------
(***************************************************************************)
(* Runner.RunPairwise (pkg/jobrunner/runner.go): the rounds of a           *)
(* round-robin schedule, one goroutine per pair of the round, up to        *)
(* maxAttempts calls of RunJob in each, and wg.Wait() between rounds.      *)
(***************************************************************************)
EXTENDS RunJob

CONSTANT Schedule   \* the rounds: Schedule[r] is the set of pairs with a job

ASSUME ScheduleAssumption ==
  /\ Schedule \in Seq(SUBSET Tasks)
  /\ \A r \in DOMAIN Schedule : \A t, u \in Schedule[r] :
       t # u => Hosts(t) \cap Hosts(u) = {}
  /\ \A r, s \in DOMAIN Schedule : r # s => Schedule[r] \cap Schedule[s] = {}

VARIABLES
  round,    \* index of the current round, Len(Schedule) + 1 when finished
  results   \* results[t]: one outcome per call, in the order they were appended

vars == <<jobVars, round, results>>

(* "ERROR" is the FAIL row appended for a RunJob error: it has no Details. *)
Outcomes == {"PASS", "FAIL", "ERROR"}

Finished == round > Len(Schedule)
InRound(t) == ~Finished /\ t \in Schedule[round]

TypeOK ==
  /\ JobTypeOK
  /\ round \in 1 .. Len(Schedule) + 1
  /\ results \in [Tasks -> Seq(Outcomes)]

Init ==
  /\ JobInit
  /\ round = 1
  /\ results = [t \in Tasks |-> <<>>]

(* The head of the attempt loop: ctx.Err() or the last attempt ends it. *)
StartAttempt(t) ==
  /\ InRound(t) /\ step[t] = "idle"
  /\ ~cancelled
  /\ Call(t)
  /\ UNCHANGED <<round, results>>

StopAttempts(t) ==
  /\ InRound(t) /\ step[t] = "idle"
  /\ cancelled \/ attempt[t] = MaxAttempts
  /\ Goto(t, "done")
  /\ UNCHANGED <<attempt, created, ret, passed, cancelled, pod, left, round, results>>

Outcome(t) ==
  IF ret[t] = "error" THEN "ERROR"
  ELSE IF passed[t] = Clients[t] THEN "PASS" ELSE "FAIL"

(* Faulty variant: a PASS does not break out of the attempt loop. *)
RecordWithoutBreak(t) ==
  /\ InRound(t) /\ step[t] = "returned"
  /\ results' = [results EXCEPT ![t] = Append(@, Outcome(t))]
  /\ Consume(t, "idle")
  /\ UNCHANGED round

(* Faulty variant: an error breaks out of the attempt loop. *)
RecordErrorBreaks(t) ==
  /\ InRound(t) /\ step[t] = "returned"
  /\ results' = [results EXCEPT ![t] = Append(@, Outcome(t))]
  /\ Consume(t, IF Outcome(t) = "FAIL" THEN "idle" ELSE "done")
  /\ UNCHANGED round

(* After RunJob: append the outcome, then retry or, if all rows PASS, stop. *)
Record(t) ==
  /\ InRound(t) /\ step[t] = "returned"
  /\ results' = [results EXCEPT ![t] = Append(@, Outcome(t))]
  /\ Consume(t, IF Outcome(t) = "PASS" THEN "done" ELSE "idle")
  /\ UNCHANGED round

(* Faulty variant: the loop goes on without wg.Wait(). *)
EndRoundWithoutWait ==
  /\ ~Finished
  /\ round' = round + 1
  /\ UNCHANGED <<jobVars, results>>

(* wg.Wait() returns when every goroutine of the round has. *)
EndRound ==
  /\ ~Finished
  /\ \A t \in Schedule[round] : step[t] = "done"
  /\ round' = round + 1
  /\ UNCHANGED <<jobVars, results>>

Goroutine(t) ==
  /\ \/ StartAttempt(t)
     \/ StopAttempts(t)
     \/ Record(t)
     \/ RunJobStep(t) /\ UNCHANGED <<round, results>>
  /\ UNCHANGED debug

Environment ==
  /\ \/ \E p \in Live : PodStep(p)
     \/ ~Finished /\ Cancel
  /\ UNCHANGED <<debug, round, results>>

(* RunPairwise has returned and the pods have come to rest. *)
Rest ==
  /\ Finished
  /\ \A p \in Pods : pod[p] \in {"absent", "Completed"}
  /\ UNCHANGED vars

Next == (\E t \in Tasks : Goroutine(t)) \/ EndRound \/ Environment \/ Rest

Spec == Init /\ [][Next]_vars

(* Every wait of a goroutine has a timer, so it always takes a next step;  *)
(* nothing is assumed of the pods or of the API server.                    *)
Fairness == WF_vars(EndRound) /\ \A t \in Tasks : WF_vars(Goroutine(t))
FairSpec == Spec /\ Fairness

-----------------------------------------------------------------------------
(* Every pod that no call left behind belongs to a call in progress: the   *)
(* current attempt of a pair of the current round, which still holds the   *)
(* job in createdJobs and will delete it.  Nothing is forgotten without a  *)
(* lost Create reply, a cleanup that gave up, or --debug (RunJob's         *)
(* deferred cleanup, runner.go:283-288 and 581-618).                       *)
PodsHaveAnOwner ==
  \A p \in Live \ left :
    /\ InRound(p[1]) /\ step[p[1]] \notin {"idle", "server", "returned", "done"}
    /\ p[2] = attempt[p[1]]
    /\ p[3] \in created[p[1]]

(* Two pods on one node that no call left behind are of the same attempt   *)
(* of the same pair: neither another pair of the round, nor the next round *)
(* nor a retry shares the node's NICs and extended resources with a test   *)
(* that is running or terminating (runner.go:95-96, 579-580).              *)
NodeExclusive ==
  \A p, q \in Live \ left :
    LET node(r) == r[3][2]
    IN  node(p) = node(q) => p[1] = q[1] /\ p[2] = q[2]

(* Unless the run was cancelled, every pair with a job has been tried      *)
(* until it passed or used up all its attempts when RunPairwise returns.   *)
EveryPairTried ==
  Finished /\ ~cancelled =>
    \A r \in DOMAIN Schedule : \A t \in Schedule[r] :
      LET n == Len(results[t])
      IN  n = MaxAttempts \/ (n > 0 /\ results[t][n] = "PASS")

(* RunPairwise returns, whatever pods and API server do: every wait in     *)
(* RunJob and in cleanup is bounded.                                       *)
Terminates == <>Finished

(* PairTesting sees the variables of the same names; pods, goroutines and  *)
(* createdJobs are hidden from it.                                         *)
Abstract == INSTANCE PairTesting
  WITH Tasks <- Tasks, MaxAttempts <- MaxAttempts, schedule <- Schedule,
       round <- round, results <- results, cancelled <- cancelled

(* RunPairwise, with its goroutines, pods and barriers, does nothing to    *)
(* round and results that PairTesting does not do, and makes its progress. *)
ImplementsPairTesting == Abstract!Spec

=============================================================================
