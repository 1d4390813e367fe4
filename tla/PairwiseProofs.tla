--------------------------- MODULE PairwiseProofs ---------------------------
(***************************************************************************)
(* Proofs about RunPairwise, for every set of nodes, every schedule of     *)
(* node-disjoint rounds and every maxAttempts: its types, the ownership of *)
(* pods, the exclusive use of nodes, the retries, and the refinement of    *)
(* PairTesting's steps.                                                    *)
(***************************************************************************)
EXTENDS Pairwise, RunJobProofs

Settled(t) == Abstract!Settled(t)

(* A goroutine is in a call only in the round of its pair. *)
Placed == \A t \in Tasks : step[t] \notin Outside => InRound(t)

(* There is one outcome per finished call, and a PASS ends the calls. *)
Counted ==
  \A t \in Tasks :
    /\ Len(results[t]) = IF step[t] \in Outside THEN attempt[t] ELSE attempt[t] - 1
    /\ step[t] # "done" => ~Abstract!Passed(t)
    /\ step[t] = "done" => cancelled \/ Settled(t)

(* The rounds that are over were completed. *)
RoundsSettled ==
  \A r \in DOMAIN Schedule : r < round =>
    \A t \in Schedule[r] : cancelled \/ Settled(t)

Inv == TypeOK /\ JobInv /\ Placed /\ Counted /\ RoundsSettled

-----------------------------------------------------------------------------
(* The rounds are sets of pairs, and no pair is in two of them. *)
LEMMA ScheduleFacts ==
  /\ Len(Schedule) \in Nat
  /\ DOMAIN Schedule = 1 .. Len(Schedule)
  /\ \A r \in DOMAIN Schedule : Schedule[r] \subseteq Tasks
  /\ \A r, s \in DOMAIN Schedule : \A t \in Schedule[r] : t \in Schedule[s] => r = s
BY ScheduleAssumption

(* The round a goroutine runs in is one of the schedule. *)
LEMMA CurrentRound ==
  ASSUME TypeOK, ~Finished
  PROVE  round \in DOMAIN Schedule /\ round \in Int
BY ScheduleFacts DEF TypeOK, Finished

-----------------------------------------------------------------------------
(* What is known of single calls (RunJobProofs) holds after every step. *)
LEMMA JobStep ==
  ASSUME Inv, [Next]_vars
  PROVE  JobInv'
<1>debug. JobInv /\ debug' = debug
  BY DEF Inv, Next, Goroutine, EndRound, Environment, Rest, vars, jobVars
<1>1. ASSUME UNCHANGED jobVars PROVE JobInv'
  BY <1>debug, <1>1, JobInvStutter
<1>2. ASSUME NEW t \in Tasks, StartAttempt(t) PROVE JobInv'
  BY <1>debug, <1>2, JobInvCall DEF StartAttempt
<1>3. ASSUME NEW t \in Tasks, StopAttempts(t) PROVE JobInv'
  <2>1. Owned'
    BY <1>3, <1>debug, OwnedElsewhere DEF StopAttempts, Goto, JobInv, JobTypeOK
  <2>2. JobTypeOK' /\ JobPlaced'
    BY <1>3, <1>debug
       DEF StopAttempts, Goto, JobInv, JobTypeOK, JobPlaced, Outside, Steps, JobsOf, ServerJob
  <2> QED
    BY <2>1, <2>2 DEF JobInv
<1>4. ASSUME NEW t \in Tasks, Record(t) PROVE JobInv'
  BY <1>debug, <1>4, JobInvConsume DEF Record, Outside
<1>5. ASSUME NEW t \in Tasks, RunJobStep(t) PROVE JobInv'
  BY <1>debug, <1>5, JobInvStep
<1>6. CASE Environment
  BY <1>debug, <1>6, JobInvPodStep, JobInvCancel DEF Environment
<1> QED
  BY <1>1, <1>2, <1>3, <1>4, <1>5, <1>6 DEF Next, Goroutine, EndRound, Rest, vars

(* A step keeps the types, *)
LEMMA TypeStep ==
  ASSUME Inv, [Next]_vars
  PROVE  TypeOK'
<1>1. JobTypeOK'
  BY JobStep DEF JobInv
<1>2. round' \in 1 .. Len(Schedule) + 1
  <2>1. CASE EndRound
    BY <2>1, ScheduleAssumption DEF Inv, TypeOK, EndRound, Finished
  <2>2. CASE ~EndRound
    BY <2>2 DEF Inv, TypeOK, Next, Goroutine, StartAttempt, StopAttempts, Record, Environment,
                Rest, vars
  <2> QED
    BY <2>1, <2>2
<1>3. results' \in [Tasks -> Seq(Outcomes)]
  <2>1. ASSUME NEW t \in Tasks, Record(t) PROVE results' \in [Tasks -> Seq(Outcomes)]
    <3>1. Outcome(t) \in Outcomes
      BY DEF Outcome, Outcomes
    <3> QED
      BY <2>1, <3>1 DEF Inv, TypeOK, Record
  <2>2. CASE \A t \in Tasks : ~Record(t)
    BY <2>2 DEF Inv, TypeOK, Next, Goroutine, StartAttempt, StopAttempts, EndRound, Environment,
                Rest, vars
  <2> QED
    BY <2>1, <2>2
<1> QED
  BY <1>1, <1>2, <1>3 DEF TypeOK

-----------------------------------------------------------------------------
(* the place of each call in the rounds, *)
LEMMA PlacedStep ==
  ASSUME Inv, [Next]_vars
  PROVE  Placed'
<1> USE DEF Inv, TypeOK, JobInv, JobTypeOK, Placed, Outside, InRound, Finished, Hosts
<1>1. CASE UNCHANGED vars
  BY <1>1 DEF vars, jobVars
<1>2. ASSUME NEW t \in Tasks, StartAttempt(t) PROVE Placed'
  BY <1>2, TaskAssumption DEF StartAttempt, Call, Goto
<1>3. ASSUME NEW t \in Tasks, StopAttempts(t) PROVE Placed'
  BY <1>3 DEF StopAttempts, Goto
<1>4. ASSUME NEW t \in Tasks, Record(t) PROVE Placed'
  BY <1>4 DEF Record, Consume, Goto
<1>5. ASSUME NEW t \in Tasks, RunJobStep(t), UNCHANGED <<round, results>> PROVE Placed'
  BY <1>5, RunJobStepIsLocal
<1>6. CASE EndRound
  <2>1. \A t \in Tasks : step[t] \in Outside
    BY <1>6 DEF EndRound
  <2> QED
    BY <1>6, <2>1 DEF EndRound, jobVars
<1>7. CASE Environment
  BY <1>7 DEF Environment, PodStep, Cancel, runVars
<1>8. CASE Rest
  BY <1>8 DEF Rest, vars, jobVars
<1> HIDE DEF Inv, Placed
<1> QED
  BY <1>1, <1>2, <1>3, <1>4, <1>5, <1>6, <1>7, <1>8 DEF Next, Goroutine

-----------------------------------------------------------------------------
(* and the number of its attempts. *)
LEMMA CountedStep ==
  ASSUME Inv, [Next]_vars
  PROVE  Counted'
<1> USE DEF Inv, TypeOK, JobTypeOK, Outside, Settled, Abstract!Settled, Abstract!Passed
<1>1. CASE UNCHANGED vars
  BY <1>1 DEF vars, jobVars, Counted
<1>2. ASSUME NEW t \in Tasks, StartAttempt(t) PROVE Counted'
  BY <1>2 DEF StartAttempt, Call, Goto, Counted
<1>3. ASSUME NEW t \in Tasks, StopAttempts(t) PROVE Counted'
  BY <1>3 DEF StopAttempts, Goto, Counted
<1>4. ASSUME NEW t \in Tasks, Record(t) PROVE Counted'
  <2>1. Outcome(t) \in Outcomes
    BY DEF Outcome, Outcomes
  <2>2. /\ Len(results'[t]) = Len(results[t]) + 1
        /\ results'[t] # <<>>
        /\ results'[t][Len(results'[t])] = Outcome(t)
    <3>1. results'[t] = Append(results[t], Outcome(t)) /\ results[t] \in Seq(Outcomes)
      BY <1>4 DEF Record
    <3> HIDE DEF Inv, TypeOK
    <3> QED
      BY <2>1, <3>1
  <2>3. Len(results[t]) = attempt[t] - 1
    BY <1>4 DEF Record, Counted
  <2>4. \A u \in Tasks \ {t} : UNCHANGED <<results[u], step[u], attempt[u]>>
    BY <1>4 DEF Record, Consume, Goto
  <2>5. /\ UNCHANGED <<attempt, cancelled>>
        /\ step'[t] = IF Outcome(t) = "PASS" THEN "done" ELSE "idle"
    BY <1>4 DEF Record, Consume, Goto
  <2> QED
    BY <2>2, <2>3, <2>4, <2>5 DEF Counted
<1>5. ASSUME NEW t \in Tasks, RunJobStep(t), UNCHANGED <<round, results>> PROVE Counted'
  BY <1>5, RunJobStepIsLocal DEF Counted, JobInv
<1>6. CASE EndRound
  BY <1>6 DEF EndRound, jobVars, Counted
<1>7. CASE Environment
  BY <1>7 DEF Environment, PodStep, Cancel, runVars, Counted
<1>8. CASE Rest
  BY <1>8 DEF Rest, vars, jobVars, Counted
<1> HIDE DEF Inv
<1> QED
  BY <1>1, <1>2, <1>3, <1>4, <1>5, <1>6, <1>7, <1>8 DEF Next, Goroutine

(* The results of a round that is over never change, and a round ends only *)
(* when each of its goroutines has.                                        *)
LEMMA CompletedStep ==
  ASSUME Inv, [Next]_vars
  PROVE  RoundsSettled'
<1> USE DEF Inv, TypeOK, JobTypeOK, Settled, Abstract!Settled, Abstract!Passed
<1>same. ASSUME UNCHANGED <<round, results>>, cancelled => cancelled'
         PROVE  RoundsSettled'
  BY <1>same DEF RoundsSettled
<1>1. CASE UNCHANGED vars
  BY <1>1, <1>same DEF vars, jobVars
<1>2. ASSUME NEW t \in Tasks, StartAttempt(t) \/ StopAttempts(t) PROVE RoundsSettled'
  BY <1>2, <1>same DEF StartAttempt, StopAttempts, Call
<1>4. ASSUME NEW t \in Tasks, Record(t) PROVE RoundsSettled'
  <2>1. t \in Schedule[round] /\ round \in DOMAIN Schedule
    BY <1>4, CurrentRound DEF Record, InRound
  <2>2. \A r \in DOMAIN Schedule : r < round => t \notin Schedule[r]
    BY <2>1, ScheduleFacts
  <2>3. \A u \in Tasks \ {t} : results'[u] = results[u]
    BY <1>4 DEF Record
  <2> QED
    BY <1>4, ScheduleFacts, <2>2, <2>3 DEF Record, Consume, RoundsSettled
<1>5. ASSUME NEW t \in Tasks, RunJobStep(t), UNCHANGED <<round, results>>
      PROVE  RoundsSettled'
  BY <1>5, <1>same, RunJobStepIsLocal DEF JobInv
<1>6. CASE EndRound
  <2>1. \A t \in Schedule[round] : cancelled \/ Settled(t)
    BY <1>6, CurrentRound, ScheduleFacts DEF EndRound, Counted
  <2>2. \A r \in DOMAIN Schedule : r < round' => r < round \/ r = round
    BY <1>6, ScheduleFacts DEF EndRound
  <2> QED
    BY <1>6, <2>1, <2>2 DEF EndRound, jobVars, RoundsSettled
<1>7. CASE Environment
  BY <1>7, <1>same DEF Environment, PodStep, Cancel
<1>8. CASE Rest
  BY <1>8, <1>same DEF Rest, vars, jobVars
<1> HIDE DEF Inv
<1> QED
  BY <1>1, <1>2, <1>4, <1>5, <1>6, <1>7, <1>8 DEF Next, Goroutine

(* The invariant holds at first. *)
LEMMA InitInv == Init => Inv
<1> SUFFICES ASSUME Init PROVE Inv
  OBVIOUS
<1>1. TypeOK /\ JobInv
  <2>1. JobInv /\ JobTypeOK
    BY JobInvInit DEF Init, JobInv
  <2>2. round \in 1 .. Len(Schedule) + 1
    <3>1. Len(Schedule) \in Nat
      BY ScheduleFacts
    <3>2. 1 \in 1 .. Len(Schedule) + 1
      BY <3>1
    <3> QED
      BY <3>2 DEF Init
  <2>3. results \in [Tasks -> Seq(Outcomes)]
    BY DEF Init
  <2> QED
    BY <2>1, <2>2, <2>3 DEF TypeOK
<1>2. Placed
  BY DEF Init, JobInit, Placed, Outside
<1>3. Counted
  BY DEF Init, JobInit, Counted, Outside, Abstract!Passed
<1>4. RoundsSettled
  BY ScheduleAssumption DEF Init, RoundsSettled
<1> QED
  BY <1>1, <1>2, <1>3, <1>4 DEF Inv

(* The inductive invariant. *)
THEOREM Invariance == Spec => []Inv
<1>1. Inv /\ [Next]_vars => Inv'
  <2> SUFFICES ASSUME Inv, [Next]_vars PROVE Inv'
    OBVIOUS
  <2> QED
    BY TypeStep, JobStep, PlacedStep, CountedStep, CompletedStep DEF Inv
<1> QED
  BY InitInv, <1>1, PTL DEF Spec

-----------------------------------------------------------------------------
(* Types: in particular no pair is tried more than maxAttempts times. *)
THEOREM TypeCorrect == Spec => []TypeOK
<1>1. Inv => TypeOK
  BY DEF Inv
<1> QED
  BY <1>1, Invariance, PTL

(* No pod is forgotten: it belongs to a call in progress, unless a lost    *)
(* Create reply, a cleanup that gave up or --debug left it behind.         *)
THEOREM EveryPodHasAnOwner == Spec => []PodsHaveAnOwner
<1>1. Inv => PodsHaveAnOwner
  BY PodIsATriple DEF Inv, JobInv, Owned, Placed, PodsHaveAnOwner, Live, Outside
<1> QED
  BY <1>1, Invariance, PTL

(* No node is shared between pairs or between attempts. *)
THEOREM NodesAreExclusive == Spec => []NodeExclusive
<1>1. Inv => NodeExclusive
  <2> SUFFICES ASSUME Inv, NEW p \in Live \ left, NEW q \in Live \ left, p[3][2] = q[3][2]
               PROVE  p[1] = q[1] /\ p[2] = q[2]
    BY DEF NodeExclusive
  <2>1. InRound(p[1]) /\ InRound(q[1]) /\ p[2] = attempt[p[1]] /\ q[2] = attempt[q[1]]
    BY PodIsATriple DEF Inv, JobInv, Owned, Placed, Live, Outside
  <2>2. p[3][2] \in Hosts(p[1]) \cap Hosts(q[1])
    BY PodIsATriple DEF Live
  <2>3. round \in DOMAIN Schedule
    BY <2>1, ScheduleAssumption DEF Inv, TypeOK, InRound, Finished
  <2>4. p[1] = q[1]
    BY <2>1, <2>2, <2>3, ScheduleAssumption DEF InRound
  <2> QED
    BY <2>1, <2>4
<1> QED
  BY <1>1, Invariance, PTL

(* A run that is not cancelled has settled every pair when it returns. *)
THEOREM PairsAreTried == Spec => []EveryPairTried
<1>1. Inv => EveryPairTried
  <2> SUFFICES ASSUME Inv, Finished, ~cancelled,
                      NEW r \in DOMAIN Schedule, NEW t \in Schedule[r]
               PROVE  \/ Len(results[t]) = MaxAttempts
                      \/ /\ Len(results[t]) > 0
                         /\ results[t][Len(results[t])] = "PASS"
    BY DEF EveryPairTried
  <2>1. r < round /\ t \in Tasks
    BY ScheduleAssumption DEF Inv, TypeOK, Finished
  <2>2. Settled(t)
    BY <2>1 DEF Inv, RoundsSettled
  <2> QED
    BY <2>1, <2>2 DEF Inv, TypeOK, Settled, Abstract!Settled, Abstract!Passed
<1> QED
  BY <1>1, Invariance, PTL

(* Every step of RunPairwise, its goroutines, pods and barriers included,  *)
(* is a step of PairTesting or changes nothing that PairTesting speaks of. *)
THEOREM RefinesPairTesting == Spec => Abstract!SafeSpec
<1>1. Init => Abstract!Init
  BY ScheduleAssumption DEF Init, JobInit, Abstract!Init
<1>2. Inv /\ [Next]_vars => [Abstract!Next]_(Abstract!vars)
  <2> SUFFICES ASSUME Inv, [Next]_vars
               PROVE  Abstract!Next \/ UNCHANGED Abstract!vars
    OBVIOUS
  <2> USE DEF Abstract!vars
  <2>1. CASE UNCHANGED vars
    BY <2>1 DEF vars, jobVars
  <2>2. ASSUME NEW t \in Tasks, StartAttempt(t) \/ StopAttempts(t)
        PROVE  UNCHANGED Abstract!vars
    BY <2>2 DEF StartAttempt, StopAttempts, Call
  <2>3. ASSUME NEW t \in Tasks, Record(t) PROVE Abstract!Next
    <3>1. ~Abstract!Settled(t)
      BY <2>3, TaskAssumption
         DEF Inv, TypeOK, JobTypeOK, Counted, Outside, Record, Abstract!Settled
    <3>2. Outcome(t) \in Abstract!Outcomes
      BY DEF Outcome, Abstract!Outcomes
    <3>3. round <= Len(Schedule) /\ t \in Schedule[round]
      BY <2>3, CurrentRound, ScheduleFacts DEF Inv, Record, InRound
    <3>4. /\ results' = [results EXCEPT ![t] = Append(@, Outcome(t))]
          /\ UNCHANGED <<round, cancelled>>
      BY <2>3 DEF Record, Consume
    <3>5. Abstract!Report(t)
      BY <3>1, <3>2, <3>3, <3>4 DEF Abstract!Report
    <3> QED
      BY <3>5 DEF Abstract!Next
  <2>4. ASSUME NEW t \in Tasks, RunJobStep(t), UNCHANGED <<round, results>>
        PROVE  UNCHANGED Abstract!vars
    BY <2>4, RunJobStepIsLocal DEF Inv, JobInv
  <2>5. CASE EndRound
    <3>1. \A t \in Schedule[round] : cancelled \/ Abstract!Settled(t)
      BY <2>5, CurrentRound, ScheduleFacts DEF Inv, EndRound, Counted, Settled
    <3>2. Abstract!EndRound
      BY <2>5, <3>1, CurrentRound, ScheduleFacts
         DEF Inv, EndRound, jobVars, Abstract!EndRound
    <3> QED
      BY <3>2 DEF Abstract!Next
  <2>6. CASE Environment
    BY <2>6 DEF Environment, PodStep, Cancel, Abstract!Next, Abstract!Cancel
  <2>7. CASE Rest
    BY <2>7 DEF Rest, vars, jobVars
  <2> QED
    BY <2>1, <2>2, <2>3, <2>4, <2>5, <2>6, <2>7 DEF Next, Goroutine
<1> QED
  BY <1>1, <1>2, Invariance, PTL DEF Spec, Abstract!SafeSpec

=============================================================================
