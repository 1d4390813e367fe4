--------------------------- MODULE RingStarProofs ---------------------------
(***************************************************************************)
(* Proofs about RunRing and RunStar, for every list of nodes, every number *)
(* of jobs and all options: types, that the calls do not overlap, and that *)
(* the report has a row for every node and job.                            *)
(***************************************************************************)
EXTENDS RingStar, RunJobProofs

(* Only the call of the loop is in progress. *)
OnlyCurrent == \A t \in Tasks : step[t] \notin Outside => ~Finished /\ t = Current

(* The rows of a call name all its clients. *)
RowsName(k) == \A n \in CallAt(k)[2] : \E row \in results[k] : n \in row.nodes
Recorded == \A k \in DOMAIN results : RowsName(k)

Inv == TypeOK /\ JobInv /\ OnlyCurrent /\ Recorded

-----------------------------------------------------------------------------
(* The list of calls. *)

(* The groups are a sequence. *)
LEMMA GroupFacts ==
  ASSUME NEW o \in Choices
  PROVE  /\ DOMAIN GroupsFor(o) = 1 .. Len(GroupsFor(o))
         /\ Len(GroupsFor(o)) \in Nat
<1>1. CASE o.server = NoNode /\ o.clients = {}
  <2>1. GpuNodes \in Seq(Nodes)
    BY RingAssumption
  <2>2. DOMAIN RingGroups = 1 .. Len(GpuNodes) /\ Len(GpuNodes) \in Nat
    BY <2>1 DEF RingGroups
  <2>3. Len(RingGroups) = Len(GpuNodes)
    BY <2>2 DEF RingGroups
  <2> QED
    BY <1>1, <2>2, <2>3 DEF GroupsFor
<1>2. CASE ~(o.server = NoNode /\ o.clients = {})
  BY <1>2 DEF GroupsFor
<1> QED
  BY <1>1, <1>2

(* The index of a call tells its group and its job. *)
LEMMA Division ==
  ASSUME NEW J \in Nat, NEW G \in Nat, NEW k \in 1 .. G * J
  PROVE  /\ J # 0
         /\ ((k - 1) \div J) + 1 \in 1 .. G
         /\ ((k - 1) % J) + 1 \in 1 .. J
<1>1. J # 0
  OBVIOUS
<1> DEFINE i == k - 1
<1>2. i \in Nat /\ i < G * J
  OBVIOUS
<1> HIDE DEF i
<1>3. i \div J \in Int /\ i \div J >= 0
  BY <1>1, <1>2
<1>4. i \div J <= G - 1
  BY <1>1, <1>2
<1>5. i % J \in 0 .. J - 1
  BY <1>1, <1>2
<1>6. (i \div J) + 1 \in 1 .. G /\ (i % J) + 1 \in 1 .. J
  BY <1>3, <1>4, <1>5
<1> QED
  BY <1>1, <1>6 DEF i

(* Each call of the loop is one of a task, *)
LEMMA CallIsATask ==
  ASSUME options \in Choices, NEW k \in 1 .. Total
  PROVE  CallAt(k) \in Tasks
<1>1. JobCount \in Nat /\ Len(Groups) \in Nat /\ DOMAIN Groups = 1 .. Len(Groups)
  BY GroupFacts, RingAssumption DEF Groups
<1>2. /\ ((k - 1) \div JobCount) + 1 \in DOMAIN Groups
      /\ ((k - 1) % JobCount) + 1 \in 1 .. JobCount
  BY <1>1, Division DEF Total
<1> DEFINE g == Groups[((k - 1) \div JobCount) + 1]
           j == ((k - 1) % JobCount) + 1
<1>3. g \in Range(GroupsFor(options)) /\ j \in 1 .. JobCount
  BY <1>2 DEF Groups, Range
<1>4. CallAt(k) = <<g[1], g[2], j>>
  BY DEF CallAt
<1> HIDE DEF g, j
<1> QED
  BY <1>3, <1>4, CallAssumption

(* and so is the current one. *)
LEMMA CurrentIsATask ==
  ASSUME TypeOK, ~Finished
  PROVE  /\ Current \in Tasks
         /\ Len(results) \in Nat /\ Total \in Nat /\ Len(results) + 1 <= Total
<1>1. JobCount \in Nat /\ Len(Groups) \in Nat
  BY GroupFacts, RingAssumption DEF Groups, TypeOK
<1>2. Total \in Nat
  BY <1>1 DEF Total
<1>3. Len(results) \in Nat /\ Len(results) <= Total
  BY DEF TypeOK
<1>4. Len(results) + 1 \in 1 .. Total
  BY <1>2, <1>3 DEF Finished
<1> QED
  BY <1>2, <1>3, <1>4, CallIsATask DEF Current, TypeOK

-----------------------------------------------------------------------------
(* A step keeps the invariant of the job runner, *)
LEMMA JobStep ==
  ASSUME Inv, [Next]_vars
  PROVE  JobInv'
<1>1. JobInv /\ debug' = debug
  BY DEF Inv, Next, Loop, Environment, Rest, vars, jobVars
<1>2. ~Finished => Current \in Tasks
  BY CurrentIsATask DEF Inv
<1>3. CASE StartCall
  BY <1>1, <1>2, <1>3, JobInvCall DEF StartCall
<1>4. CASE EndCall
  BY <1>1, <1>2, <1>4, JobInvConsume DEF EndCall, Outside
<1>5. CASE ~Finished /\ RunJobStep(Current)
  BY <1>1, <1>2, <1>5, JobInvStep
<1>6. CASE Environment
  BY <1>1, <1>6, JobInvPodStep, JobInvCancel DEF Environment
<1>7. CASE UNCHANGED vars
  BY <1>1, <1>7, JobInvStutter DEF vars
<1> QED
  BY <1>3, <1>4, <1>5, <1>6, <1>7 DEF Next, Loop, Rest

(* What the end of a call does to the results. *)
LEMMA EndCallAppends ==
  ASSUME Inv, EndCall
  PROVE  /\ results' \in Seq(SUBSET Rows)
         /\ Len(results') = Len(results) + 1
         /\ \A k \in DOMAIN results : k \in DOMAIN results' /\ results'[k] = results[k]
         /\ DOMAIN results' = DOMAIN results \cup {Len(results) + 1}
         /\ results'[Len(results) + 1] = RowsOf(Current)
         /\ \A n \in Clients[Current] : \E row \in RowsOf(Current) : n \in row.nodes
<1>1. Current \in Tasks
  BY CurrentIsATask DEF Inv, EndCall
<1>2. RowsOf(Current) \in SUBSET Rows
  BY <1>1, TaskAssumption DEF RowsOf, Rows
<1>3. results \in Seq(SUBSET Rows) /\ results' = Append(results, RowsOf(Current))
  BY DEF Inv, TypeOK, EndCall
<1>4. ASSUME NEW n \in Clients[Current] PROVE \E row \in RowsOf(Current) : n \in row.nodes
  <2>1. CASE ret[Current] = "error"
    BY <2>1 DEF RowsOf
  <2>2. CASE ret[Current] # "error"
    <3> DEFINE row == [nodes |-> {n},
                       status |-> IF n \in passed[Current] THEN "PASS" ELSE "FAIL"]
    <3>1. row \in RowsOf(Current)
      BY <2>2 DEF RowsOf
    <3>2. n \in row.nodes
      OBVIOUS
    <3> QED
      BY <3>1, <3>2
  <2> QED
    BY <2>1, <2>2
<1> QED
  BY <1>2, <1>3, <1>4

(* the types, *)
LEMMA TypeStep ==
  ASSUME Inv, [Next]_vars
  PROVE  TypeOK'
<1>1. JobTypeOK'
  BY JobStep DEF JobInv
<1>2. options' = options
  BY DEF Next, Loop, StartCall, EndCall, Environment, Rest, vars
<1>3. Total' = Total
  BY <1>2 DEF Total, Groups
<1>4. CASE EndCall
  <2>1. Len(results) + 1 <= Total
    BY <1>4, CurrentIsATask DEF Inv, EndCall
  <2>2. results' \in Seq(SUBSET Rows) /\ Len(results') <= Total'
    BY <1>3, <1>4, <2>1, EndCallAppends
  <2> QED
    BY <1>1, <1>2, <2>2 DEF Inv, TypeOK
<1>5. CASE ~EndCall
  <2>1. results' = results
    BY <1>5 DEF Next, Loop, StartCall, Environment, Rest, vars
  <2> QED
    BY <1>1, <1>2, <1>3, <2>1 DEF Inv, TypeOK
<1> QED
  BY <1>4, <1>5

(* that only the current call is under way, *)
LEMMA OnlyCurrentStep ==
  ASSUME Inv, [Next]_vars
  PROVE  OnlyCurrent'
<1> USE DEF Outside
<1>1. options' = options
  BY DEF Next, Loop, StartCall, EndCall, Environment, Rest, vars
<1>2. ASSUME UNCHANGED results PROVE Current' = Current /\ Finished' = Finished
  BY <1>1, <1>2 DEF Current, Finished, CallAt, Total, Groups
<1>3. ~Finished => Current \in Tasks
  BY CurrentIsATask DEF Inv
<1>4. CASE StartCall
  <2>1. \A u \in Tasks \ {Current} : step'[u] = step[u]
    BY <1>3, <1>4 DEF StartCall, Call, Goto, Inv, JobInv, JobTypeOK
  <2> QED
    BY <1>2, <1>4, <2>1 DEF StartCall, OnlyCurrent, Inv
<1>5. CASE EndCall
  BY <1>3, <1>5 DEF EndCall, Consume, Goto, OnlyCurrent, Inv, JobInv, JobTypeOK
<1>6. CASE ~Finished /\ RunJobStep(Current) /\ UNCHANGED <<options, results>>
  BY <1>2, <1>3, <1>6, RunJobStepIsLocal DEF OnlyCurrent, Inv, JobInv
<1>7. CASE Environment
  BY <1>2, <1>7 DEF Environment, PodStep, Cancel, runVars, OnlyCurrent, Inv
<1>8. CASE UNCHANGED vars
  BY <1>2, <1>8 DEF vars, jobVars, OnlyCurrent, Inv
<1> QED
  BY <1>4, <1>5, <1>6, <1>7, <1>8 DEF Next, Loop, Rest

(* and that the results are those of the calls made. *)
LEMMA RecordedStep ==
  ASSUME Inv, [Next]_vars
  PROVE  Recorded'
<1>1. options' = options
  BY DEF Next, Loop, StartCall, EndCall, Environment, Rest, vars
<1>2. \A k : CallAt(k)' = CallAt(k)
  BY <1>1 DEF CallAt, Groups
<1>3. CASE EndCall
  <2>1. Current \in Tasks
    BY <1>3, CurrentIsATask DEF Inv, EndCall
  <2>2. Clients[Current] = CallAt(Len(results) + 1)[2]
    BY <2>1, EndsAssumption DEF Current
  <2>3. ASSUME NEW k \in DOMAIN results' PROVE RowsName(k)'
    <3>1. CASE k \in DOMAIN results
      BY <1>2, <1>3, <3>1, EndCallAppends DEF Inv, Recorded, RowsName
    <3>2. CASE k = Len(results) + 1
      BY <1>2, <1>3, <2>2, <3>2, EndCallAppends DEF RowsName
    <3> QED
      BY <1>3, <2>3, <3>1, <3>2, EndCallAppends
  <2> QED
    BY <2>3 DEF Recorded
<1>4. CASE ~EndCall
  <2>1. results' = results
    BY <1>4 DEF Next, Loop, StartCall, Environment, Rest, vars
  <2> QED
    BY <1>2, <2>1 DEF Inv, Recorded, RowsName
<1> QED
  BY <1>3, <1>4

(* The inductive invariant: types, the ownership of pods by calls, one     *)
(* call at a time, and rows for all clients of the calls that are over.    *)
THEOREM Invariance == Spec => []Inv
<1>1. Init => Inv
  <2> SUFFICES ASSUME Init PROVE Inv
    OBVIOUS
  <2>1. JobInv
    BY JobInvInit DEF Init
  <2>2. Total \in Nat
    BY GroupFacts, RingAssumption DEF Init, Total, Groups
  <2>3. TypeOK
    BY <2>1, <2>2 DEF Init, TypeOK, JobInv
  <2>4. OnlyCurrent /\ Recorded
    BY DEF Init, JobInit, OnlyCurrent, Recorded, Outside
  <2> QED
    BY <2>1, <2>3, <2>4 DEF Inv
<1>2. Inv /\ [Next]_vars => Inv'
  BY JobStep, TypeStep, OnlyCurrentStep, RecordedStep DEF Inv
<1> QED
  BY <1>1, <1>2, PTL DEF Spec

-----------------------------------------------------------------------------
(* Types: the loop leaves as many sets of rows as it makes calls at most.  *)
THEOREM TypeCorrect == Spec => []TypeOK
<1>1. Inv => TypeOK
  BY DEF Inv
<1> QED
  BY <1>1, Invariance, PTL

(* No pod of an earlier call of the loop, but those left behind, lives     *)
(* beside a later one's.                                                   *)
THEOREM CallsDoNotOverlap == Spec => []OneCallAtATime
<1>1. Inv => OneCallAtATime
  BY PodIsATriple DEF Inv, JobInv, Owned, OnlyCurrent, OneCallAtATime, Live, Outside
<1> QED
  BY <1>1, Invariance, PTL

(* The call of the j-th job on group g. *)
LEMMA CallOf ==
  ASSUME options \in Choices, NEW g \in DOMAIN Groups, NEW j \in 1 .. JobCount
  PROVE  \E k \in 1 .. Total : CallAt(k) = <<Groups[g][1], Groups[g][2], j>>
<1>1. JobCount \in Nat /\ Len(Groups) \in Nat /\ g \in 1 .. Len(Groups)
  BY GroupFacts, RingAssumption DEF Groups
<1> DEFINE k == (g - 1) * JobCount + j
<1>2. k \in 1 .. Total
  <2> DEFINE before == (g - 1) * JobCount
             all == Len(Groups) * JobCount
  <2>1. before \in Nat /\ all \in Nat
    BY <1>1
  <2>2. before + JobCount <= all
    BY <1>1
  <2> HIDE DEF before, all
  <2>3. before + j \in 1 .. all
    BY <1>1, <2>1, <2>2
  <2> QED
    BY <2>3 DEF before, all, Total
<1>3. (k - 1) \div JobCount = g - 1 /\ (k - 1) % JobCount = j - 1
  <2> DEFINE h == g - 1
             i == j - 1
  <2>1. h \in Nat /\ i \in 0 .. JobCount - 1 /\ JobCount \in Nat \ {0}
    BY <1>1
  <2>2. k - 1 = h * JobCount + i
    BY <1>1
  <2> HIDE DEF h, i, k
  <2>3. (h * JobCount + i) \div JobCount = h
    BY <2>1
  <2>4. (h * JobCount + i) % JobCount = i
    BY <2>1
  <2> QED
    BY <2>2, <2>3, <2>4 DEF h, i
<1> HIDE DEF k
<1>4. ((k - 1) \div JobCount) + 1 = g /\ ((k - 1) % JobCount) + 1 = j
  BY <1>1, <1>3
<1> QED
  BY <1>2, <1>4 DEF CallAt

(* On a ring every node is the client of the one before it. *)
LEMMA RingClients ==
  ASSUME NEW i \in DOMAIN GpuNodes
  PROVE  \E p \in DOMAIN RingGroups : RingGroups[p][2] = {GpuNodes[i]}
<1>1. Len(GpuNodes) \in Nat \ {0} /\ DOMAIN GpuNodes = 1 .. Len(GpuNodes)
  BY RingAssumption
<1> DEFINE p == IF i = 1 THEN Len(GpuNodes) ELSE i - 1
<1>2. p \in DOMAIN GpuNodes
  BY <1>1
<1>3. (p % Len(GpuNodes)) + 1 = i
  <2>1. CASE i = 1
    BY <1>1, <2>1
  <2>2. CASE i # 1
    <3>1. i - 1 \in 0 .. Len(GpuNodes) - 1
      BY <1>1, <2>2
    <3> QED
      BY <1>1, <2>2, <3>1
  <2> QED
    BY <2>1, <2>2
<1> HIDE DEF p
<1> QED
  BY <1>2, <1>3 DEF RingGroups

(* When the loop returns every node that was to be a client is in a row of *)
(* each job, and on a ring each node has served each job, whatever failed. *)
THEOREM NodesAreMeasured == Spec => []EveryNodeMeasured
<1>1. Inv => EveryNodeMeasured
  <2> SUFFICES ASSUME Inv, Finished, NEW j \in 1 .. JobCount
               PROVE  /\ \A g \in DOMAIN Groups : \A n \in Groups[g][2] : Reported(n, j)
                      /\ OnRing => \A i \in DOMAIN GpuNodes :
                                     Served(GpuNodes[i], j) /\ Reported(GpuNodes[i], j)
    BY DEF EveryNodeMeasured
  <2>1. DOMAIN results = 1 .. Total
    BY DEF Inv, TypeOK, Finished
  <2>2. \A g \in DOMAIN Groups : \E k \in DOMAIN results :
          CallAt(k) = <<Groups[g][1], Groups[g][2], j>>
    BY <2>1, CallOf DEF Inv, TypeOK
  <2>3. \A g \in DOMAIN Groups : \A n \in Groups[g][2] : Reported(n, j)
    BY <2>2 DEF Inv, Recorded, RowsName, Reported
  <2>4. \A g \in DOMAIN Groups : Served(Groups[g][1], j)
    BY <2>2 DEF Served
  <2>5. ASSUME OnRing, NEW i \in DOMAIN GpuNodes
        PROVE  Served(GpuNodes[i], j) /\ Reported(GpuNodes[i], j)
    <3>1. Groups = RingGroups
      BY <2>5 DEF OnRing, Groups, GroupsFor
    <3>2. i \in DOMAIN RingGroups /\ RingGroups[i][1] = GpuNodes[i]
      BY DEF RingGroups
    <3>3. PICK p \in DOMAIN RingGroups : RingGroups[p][2] = {GpuNodes[i]}
      BY RingClients
    <3> QED
      BY <2>3, <2>4, <3>1, <3>2, <3>3
  <2> QED
    BY <2>3, <2>5
<1> QED
  BY <1>1, Invariance, PTL

=============================================================================
