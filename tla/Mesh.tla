-------------------------------- MODULE Mesh --------------------------------
(***************************************************************************)
(* The connectivity mesh of one run: runPingMesh builds a job map from the *)
(* topologies, RunPairwise tries every pair of the map, the rows of all    *)
(* attempts are merged into a report by ClassifyPingMeshResults, and the   *)
(* failures ConfigMap is written or deleted (pkg/controller/pingmesh.go,   *)
(* pkg/checks/rdma/pingmesh_classify.go and pingmesh_job.go).              *)
(*                                                                         *)
(* RunPairwise appears here by its steps in PairTesting, the specification *)
(* that Pairwise implements, with an attempt's rows for its outcome.       *)
(***************************************************************************)
EXTENDS Integers, Sequences, FiniteSets, FiniteSetsExt, SequencesExt

CONSTANTS
  Nodes,        \* node names, numbers in the order of the names
  Devices,      \* NIC device names
  BadNames,     \* the device names that ValidDeviceName rejects
  Topologies,   \* the topology maps considered: node |-> NIC of each pair
  MaxAttempts   \* the argument of RunPairwise

ASSUME MeshAssumption ==
  /\ Nodes \subseteq Int /\ IsFiniteSet(Nodes)
  /\ IsFiniteSet(Devices) /\ BadNames \subseteq Devices
  /\ \A topo \in Topologies :
       /\ DOMAIN topo \subseteq Nodes
       /\ \A n \in DOMAIN topo : topo[n] \in Seq(Devices)
  /\ MaxAttempts \in Nat \ {0}

RR == INSTANCE RoundRobin

Tasks == {t \in Nodes \X Nodes : t[1] < t[2]}   \* <<server, client>>

VARIABLES
  topo,       \* topoMap, the topologies of the nodes that have one
  schedule,   \* the rounds of RunPairwise, the job map's pairs only
  round,      \* the current round
  attempts,   \* attempts[t]: what each attempt of pair t returned
  cancelled,  \* ctx.Done()
  phase,      \* "testing", "tested", "classified", "done"
  report,     \* pingmeshReport.Summary and the failures found
  stored      \* the failures ConfigMap

vars == <<topo, schedule, round, attempts, cancelled, phase, report, stored>>

-----------------------------------------------------------------------------
(* The job map. *)

(* DevicesFromTopology and NewPingMeshJob: names are taken once and the    *)
(* invalid ones dropped.                                                   *)
DevicesOf(n) == Range(topo[n]) \ BadNames

(* Pairs with topology and NICs on both sides have a job. *)
Testable ==
  {t \in Tasks : /\ t[1] \in DOMAIN topo /\ t[2] \in DOMAIN topo
                 /\ DevicesOf(t[1]) # {} /\ DevicesOf(t[2]) # {}}

(* On EFA a pair is also left out when its server node cannot be read or   *)
(* offers no EFA device; without any job the mesh is not run.              *)
JobMaps == SUBSET Testable \ {{}}

(* RunPairwise: the nodes of the job map, sorted, in the rounds of the     *)
(* circle method; a pair of a round without a job is skipped.              *)
ScheduleOf(jobs) ==
  LET used == UNION {{t[1], t[2]} : t \in jobs}
      place(n) == Cardinality({o \in used : o <= n})   \* of n in the sorted list
      rounds == RR!Rounds(Cardinality(used))
  IN  [r \in DOMAIN rounds |->
         {t \in jobs : [server |-> place(t[1]), client |-> place(t[2])] \in rounds[r]}]

Jobs == UNION Range(schedule)

-----------------------------------------------------------------------------
(* One attempt.  The client probes every pair of a client device with a    *)
(* server device; the row's Details are the pairs probed.  A row has no    *)
(* Details when RunJob failed or the log could not be read or parsed; the  *)
(* Details are empty when the client lost its results file.                *)

NicPairs(t) == DevicesOf(t[2]) \X DevicesOf(t[1])   \* <<src, dst>>
NoDetails == [details |-> FALSE, probed |-> {}, passed |-> {}]

AttemptsOf(t) ==
  {NoDetails}
    \cup {[details |-> TRUE, probed |-> {}, passed |-> {}]}
    \cup {[details |-> TRUE, probed |-> NicPairs(t), passed |-> S] :
            S \in SUBSET NicPairs(t)}

(* ParseResult: PASS if something was probed and everything passed. *)
OutcomeOf(a) ==
  IF ~a.details THEN "ERROR"
  ELSE IF a.probed # {} /\ a.passed = a.probed THEN "PASS" ELSE "FAIL"

OutcomesOf(t) == [i \in DOMAIN attempts[t] |-> OutcomeOf(attempts[t][i])]
AllOutcomes == [t \in Tasks |-> OutcomesOf(t)]

(* The caller's view of RunPairwise. *)
Tester == INSTANCE PairTesting
  WITH Tasks <- Tasks, MaxAttempts <- MaxAttempts, schedule <- schedule,
       round <- round, cancelled <- cancelled,
       results <- AllOutcomes

-----------------------------------------------------------------------------
(* ClassifyPingMeshResults. *)

(* BuildRailMap: a NIC that several GPUs share is on the last one's rail. *)
RailOf(n, dev) == Max({i \in DOMAIN topo[n] : topo[n][i] = dev})

IsRail(t, nics) == RailOf(t[2], nics[1]) = RailOf(t[1], nics[2])

Probes(t) == {i \in DOMAIN attempts[t] : attempts[t][i].probed # {}}
Seen(t) == UNION {attempts[t][i].probed : i \in Probes(t)}

(* Faulty variant: the last attempt decides. *)
BestIsLatest(t, nics) ==
  LET seen == {i \in Probes(t) : nics \in attempts[t][i].probed}
  IN  nics \in attempts[t][Max(seen)].passed

(* bestResult: a NIC pair passes if it succeeded in any attempt. *)
Best(t, nics) == \E i \in Probes(t) : nics \in attempts[t][i].passed

LastFailed(t, nics) ==
  Max({i \in Probes(t) : nics \in attempts[t][i].probed \ attempts[t][i].passed})

(* Faulty variant: every attempt adds to the totals. *)
CountEveryAttempt(rail) ==
  LET seen == {p \in UNION {{t} \X NicPairs(t) \X Probes(t) : t \in Jobs} :
                 IsRail(p[1], p[2]) = rail}
      good == {p \in seen : Best(p[1], p[2])}
  IN  [passed |-> Cardinality(good), total |-> Cardinality(seen)]

(* The counts of one category over all node pairs. *)
Count(rail) ==
  LET seen == {p \in UNION {{t} \X Seen(t) : t \in Jobs} : IsRail(p[1], p[2]) = rail}
      good == {p \in seen : Best(p[1], p[2])}
  IN  [passed |-> Cardinality(good), total |-> Cardinality(seen)]

(* PingMeshStatus *)
StatusOf(count) ==
  IF count.total = 0 THEN "SKIP"
  ELSE IF count.passed = count.total THEN "PASS"
  ELSE IF count.passed > 0 THEN "WARN" ELSE "FAIL"

Failures ==
  UNION {{[pair |-> t, nics |-> nics, rail |-> IsRail(t, nics),
           attempt |-> LastFailed(t, nics)] :
             nics \in {n \in Seen(t) : ~Best(t, n)}} : t \in Jobs}

NoReport == [rail |-> [passed |-> 0, total |-> 0], railStatus |-> "none",
             xrail |-> [passed |-> 0, total |-> 0], xrailStatus |-> "none",
             failures |-> {}]

-----------------------------------------------------------------------------
(* A ConfigMap that an earlier mesh left. *)
NoConfigMap == [present |-> FALSE, failures |-> {}]
EarlierConfigMap ==
  [present |-> TRUE,
   failures |-> {[pair |-> <<>>, nics |-> <<>>, rail |-> TRUE, attempt |-> 0]}]

Init ==
  /\ topo \in Topologies
  /\ \E jobs \in JobMaps : schedule = ScheduleOf(jobs)
  /\ round = 1
  /\ attempts = [t \in Tasks |-> <<>>]
  /\ cancelled = FALSE
  /\ phase = "testing"
  /\ report = NoReport
  /\ stored \in {NoConfigMap, EarlierConfigMap}

(* Faulty variant: a pair is retried until it passes. *)
AttemptUntilPassed(t) ==
  /\ phase = "testing"
  /\ round <= Len(schedule) /\ t \in schedule[round]
  /\ ~cancelled /\ ~Tester!Passed(t) /\ Len(attempts[t]) <= MaxAttempts
  /\ \E a \in AttemptsOf(t) : attempts' = [attempts EXCEPT ![t] = Append(@, a)]
  /\ UNCHANGED <<topo, schedule, round, cancelled, phase, report, stored>>

(* An attempt of a pair of the current round ends; the next one starts     *)
(* unless it passed.  An attempt that ^C ends leaves a row without         *)
(* Details: it is taken to end just before the Cancel step.                *)
Attempt(t) ==
  /\ phase = "testing"
  /\ round <= Len(schedule) /\ t \in schedule[round]
  /\ ~cancelled /\ ~Tester!Settled(t)
  /\ \E a \in AttemptsOf(t) : attempts' = [attempts EXCEPT ![t] = Append(@, a)]
  /\ UNCHANGED <<topo, schedule, round, cancelled, phase, report, stored>>

(* Faulty variant: a round waits for its pairs to be settled, also when    *)
(* the ctx has been cancelled and they will not be tried again.            *)
EndRoundSettled ==
  /\ phase = "testing" /\ round <= Len(schedule)
  /\ \A t \in schedule[round] : Tester!Settled(t)
  /\ round' = round + 1
  /\ phase' = IF round = Len(schedule) THEN "tested" ELSE "testing"
  /\ UNCHANGED <<topo, schedule, attempts, cancelled, report, stored>>

(* wg.Wait() of a round; after the last one RunPairwise returns. *)
EndRound ==
  /\ phase = "testing" /\ round <= Len(schedule)
  /\ cancelled \/ \A t \in schedule[round] : Tester!Settled(t)
  /\ round' = round + 1
  /\ phase' = IF round = Len(schedule) THEN "tested" ELSE "testing"
  /\ UNCHANGED <<topo, schedule, attempts, cancelled, report, stored>>

Classify ==
  /\ phase = "tested"
  /\ report' = [rail |-> Count(TRUE), railStatus |-> StatusOf(Count(TRUE)),
                xrail |-> Count(FALSE), xrailStatus |-> StatusOf(Count(FALSE)),
                failures |-> Failures]
  /\ phase' = "classified"
  /\ UNCHANGED <<topo, schedule, round, attempts, cancelled, stored>>

(* storePingMeshFailures, or the deletion of what an earlier mesh stored.  *)
(* A call that fails, as all do with a cancelled ctx, is only warned of.   *)
Publish ==
  /\ phase = "classified"
  /\ \/ UNCHANGED stored
     \/ /\ ~cancelled
        /\ stored' = IF report.failures = {} THEN NoConfigMap
                     ELSE [present |-> TRUE, failures |-> report.failures]
  /\ phase' = "done"
  /\ UNCHANGED <<topo, schedule, round, attempts, cancelled, report>>

Cancel ==
  /\ ~cancelled /\ phase # "done"
  /\ cancelled' = TRUE
  /\ UNCHANGED <<topo, schedule, round, attempts, phase, report, stored>>

Step == (\E t \in Tasks : Attempt(t)) \/ EndRound \/ Classify \/ Publish

Next == Step \/ Cancel

Spec == Init /\ [][Next]_vars

(* Every attempt is bounded by RunJob's timers, and the rest runs through. *)
FairSpec ==
  /\ Spec
  /\ WF_vars(EndRound) /\ WF_vars(Classify) /\ WF_vars(Publish)
  /\ \A t \in Tasks : WF_vars(Attempt(t))

-----------------------------------------------------------------------------
TypeOK ==
  /\ topo \in Topologies
  /\ schedule \in Seq(SUBSET Tasks)
  /\ round \in 1 .. Len(schedule) + 1
  /\ \A t \in Tasks : attempts[t] # <<>> =>
       t \in Testable /\ attempts[t] \in Seq(AttemptsOf(t))
  /\ \A t \in Tasks : Len(attempts[t]) <= MaxAttempts
  /\ cancelled \in BOOLEAN
  /\ phase \in {"testing", "tested", "classified", "done"}
  /\ stored.present \in BOOLEAN

Classified == phase \in {"classified", "done"}

(* The rails a node can be reached on. *)
Rails(n) == {RailOf(n, dev) : dev \in DevicesOf(n)}

(* However often a node pair was retried and whatever each attempt         *)
(* reported, each of its NIC pairs is counted once, on the rail exactly    *)
(* when both NICs have the same position; GPUs that share a NIC and names  *)
(* that were dropped do not count twice; and what did not pass is in the   *)
(* list of failures (pingmesh_classify.go:88-166).                         *)
CountedOnce ==
  Classified =>
    LET tested == {t \in Jobs : Probes(t) # {}}
        failed(rail) == Cardinality({f \in report.failures : f.rail = rail})
    IN  /\ report.rail.total =
             MapThenSumSet(LAMBDA t : Cardinality(Rails(t[1]) \cap Rails(t[2])), tested)
        /\ report.rail.total + report.xrail.total =
             MapThenSumSet(LAMBDA t : Cardinality(DevicesOf(t[1]) \X DevicesOf(t[2])),
                           tested)
        /\ failed(TRUE) = report.rail.total - report.rail.passed
        /\ failed(FALSE) = report.xrail.total - report.xrail.passed

(* A node pair that RunPairwise stopped retrying because it passed has no  *)
(* failure in the report, whatever its earlier attempts said; and a        *)
(* failure that is listed was seen in every attempt that probed, the last  *)
(* of which is the one it names (pingmesh_classify.go:92-117).             *)
PassWins ==
  Classified =>
    \A f \in report.failures :
      /\ ~Tester!Passed(f.pair)
      /\ \A i \in Probes(f.pair) : f.nics \notin attempts[f.pair][i].passed
      /\ f.attempt = Max(Probes(f.pair))

(* The mesh ends, with its results classified.                             *)
Reported == <>(phase = "done" /\ report.railStatus # "none")

(* "updated on failure, deleted on full success" (cleanup.go:35, and       *)
(* pingmesh.go:139): the list of an earlier mesh goes away only when every *)
(* pair has passed.                                                        *)
DeletedOnFullSuccess ==
  [][stored.present /\ ~stored'.present => \A t \in Jobs : Tester!Passed(t)]_vars

=============================================================================
