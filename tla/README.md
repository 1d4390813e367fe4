# Formal model of rhaii-cluster-validation

TLA+ modules, TLC configurations and TLAPS proofs about the cluster validation
CLI in `src/`. Every definition is translated from the Go code; `PROJECT.json`
("map") gives the lines of each. A definition whose comment begins with "Faulty"
is a plausible bug, kept beside the correct operator to show that the properties
notice it. It is never part of a specification.

## 1. The system

The CLI runs on an administrator's machine and drives a Kubernetes cluster. Its
only shared state is the cluster: Jobs and their pods, RBAC objects, and three
ConfigMaps (configuration, report, pingmesh failures).

| Component | State | Operations | Correct when |
|---|---|---|---|
| `pkg/controller` `Controller.Run` | in the process: GPU nodes, collected reports, results; in the cluster: all of the above | 9 numbered steps, a deferred cleanup, `clean` | every FAIL reaches the exit code; success means that all nodes reported; nothing is left behind; partial runs add to the stored report |
| node check jobs (`nodejobs.go`, `bwprobe.go`) | one Job per node and kind | deploy, poll, collect, delete | a node's result is read once, from this run's job; a probe gets the GPUs that the checks before it held |
| `pkg/jobrunner` `RunJob` | `createdJobs`, pods | create server, wait for its IP, create clients, wait, collect, cleanup | it always returns; it deletes what it created and nothing else |
| `RunPairwise` / `RunRing` / `RunStar` | schedule, attempts, results per pair | rounds of goroutines with retries / sequential loops | a node serves one test at a time; every pair is tested; every pair is retried until PASS or the limit |
| `roundRobinSchedule` | seating | circle method | disjoint rounds; every two nodes meet once |
| `pkg/report`, `MergeNodeReports` | report sections | build, merge, count | no FAIL lost in a merge; sections of earlier runs preserved |
| `deploy/rbac.go` | ServiceAccount, ClusterRole, two bindings | ensure, delete | all or an error; deleted at the end |
| `pkg/checks/rdma` classification and pairing | rows of attempts; GPU and NIC lists | merge attempts per NIC pair; greedy pairing | a pass in any attempt counts; every GPU has a NIC, and a near one; a guess is never reported as PASS |
| `bandwidth.go`, `efa.go` | job list | expand one job into jobs per pair | every pair is tested; the two ends of a job fit together |
| `pkg/checks/crd`, `operator` | - | versions, pods of operators | a FAIL is not hidden by a WARN |
| single checks, log parsers, agent, flags, config | - | one command and one row each | (not modelled) |

Interactions: `Run` calls the node check functions and the runner; the runner's
goroutines act on the API concurrently and share only the results map (under a
mutex) and the nodes' hardware. Invocations interact through what they leave in
the cluster: jobs found by label, RBAC objects, the stored report with the
topology that `rdma-ping` and `rdma-bandwidth` need.

What is hard: goroutines that must not meet on a node; cleanup on every early
return; replies lost when the context is cancelled with a request in flight;
bounded waits on pods that never end; collection errors that are only logged; a
killed CLI; a sequence of partial runs against a changing cluster. `PROJECT.json`
("hazards") lists each at its line with the properties that cover it, or with the
reason why none does.

## 2. Modules

The job runner:

- **RunJob** - one call of `RunJob`. A variable per fact of the call (`step`,
  `attempt`, `created` = `createdJobs`, `ret`, `passed`), the pods as the API
  server has them (`pod`), `cancelled` = `ctx.Done()`, and a history variable
  `left`: the pods that a returned call left behind. One action per step of the
  code; each wait may end by success, by its timer or by cancellation. A Create
  may lose its reply, a Delete may fail, and the poll at the end may give up.
- **Pairwise** (extends RunJob) - `RunPairwise`: the attempt loop
  (`StartAttempt`, `StopAttempts`, `Record`) and the barrier (`EndRound`).
- **RingStar** (extends RunJob) - `RunRing` and `RunStar`: the list of calls that
  `runJobsOnPair` makes for the options of a run, one after the other, and the rows
  that each leaves in the report (`RowsOf`).
- **PairTesting** - the abstract specification of `RunPairwise`: no pods, no
  goroutines, only outcomes per pair and round.
- **RoundRobin** - `roundRobinSchedule` as functions. **RoundRobinLoop** - its
  loop, one step per round, for every length of the node list.

The controller:

- **NodeReports** - what a report says and how reports are merged:
  `MergeNodeReports`, `MergePreserving`, `ExtractTopology`, the FAIL count.
- **Controller** (extends NodeReports) - `Run` for every check mode, one action
  per step, with the deferred cleanup (`DeferredCleanup`), `clean` (`Cleanup`),
  ^C (`Cancel`), a killed process (`Kill`) and API calls that fail (`Fault`).
  Invocations follow each other; between them `step = "idle"`, and the process'
  memory is reset by `Exit`. `collected`, `failSeen` and `storedRun` are history
  variables, and a report row carries the number of the run that collected it.
  What jobs find is chosen freely. A report row is reduced to "has a FAIL" and
  "carries a topology". Not an action here: mode `deps`, whose function `RunDeps`
  creates and stores nothing. `none` as the verdict of the bandwidth jobs also
  stands for an AMD cluster, where no RDMA job is registered.
- **NodeCheck** - the two phases of node checks and the bandwidth probe seen from
  the pods: deployment job by job, `deleteJobsBySelector` (`DeleteJobs`,
  `NothingToDelete`, `PodsGone`, `StopWaiting`), collection (`Collect`, `ReadLogs`),
  the scheduler that gives a node's GPUs to one pod at a time (external), and jobs
  and pods of an earlier run. The cleanup before the probe and the wait of 60 s
  after it (`waitForPodsGone`) are one wait that may be given up at any time. On an
  AMD cluster `flat` is empty. History: `unwaited` and `undeleted`, the kinds whose
  latest cleanup returned with pods, or with jobs, still there; `report` keeps only
  what the latest step read.

The mesh and the RDMA jobs:

- **Mesh** - `runPingMesh`: which node pairs have a job (`Testable`, `JobMaps`), the
  rows of each attempt (`AttemptsOf`: which NIC pairs were probed, which passed),
  `ClassifyPingMeshResults` (`Best`, `Count`, `Failures`), and the failures ConfigMap
  (`Publish`). `RunPairwise` appears here as what `PairTesting` promises, over the
  rounds of `RoundRobin`.
- **Sorting** - slices that the code sorts. Each comparison it sorts by is a strict total
  order of the elements (a tie is always broken by a name or an index), so the result is a
  function of the set: `Sorted` puts an element at the position of its rank.
  `SortedAgrees` in MCTopologies compares it with `SetToSortSeq` of the community modules.
- **Pairing** (extends Sorting) - the algorithms that give a GPU its NIC: the strategies of
  `buildPairs`, and `BandwidthOptimalPairing` for measured speeds. A machine is a
  sequence of GPUs and one of NICs, each with a NUMA node and a PCIe path.
- **BandwidthPlan** (extends Sorting) - `expandRDMAJobs` and `expandEFABandwidthJobs`: the jobs, the
  lanes they have on each node, and the SKIP rows.
- **Topologies** (extends Pairing and BandwidthPlan) - the way from the hardware to the jobs:
  `TopologyCheck.Run` on every node, reports that may be lost, what the controller
  can read of them (`Readable`), the probe with any measured speeds, the WARN of
  nodes whose pairing stays a guess, and the jobs that come out.

**MCPairwise**, **MCRingStar**, **MCMesh**, **MCTopologies**, **MCController** and
**MCNodeCheck** are the instances for TLC. **RunJobProofs**, **PairwiseProofs**,
**RingStarProofs**, **RoundRobinProofs**, **MeshProofs**, **TopologiesProofs**,
**ControllerProofs** and **NodeCheckProofs** hold theorems and proofs.

How the parts meet:

- `Pairwise` implements `PairTesting` (`Abstract == INSTANCE PairTesting WITH ...`,
  property `ImplementsPairTesting`): pods, goroutines and `createdJobs` are hidden.
  `Mesh`, which needs `RunPairwise` only for outcomes and order, is written with the
  definitions of the same abstract specification (`Tester == INSTANCE PairTesting WITH
  ...`, where an attempt is seen as its outcome): its attempts and its barrier are those
  of `PairTesting`, which `Pairwise` is shown to implement. So what holds of the mesh
  holds of it with the real runner.
- The rounds of a mesh satisfy the assumption on `Schedule` that `Pairwise` makes, for
  every job map, and have exactly its pairs: theorem `RoundsFit`. It takes what the
  theorem `Tournament` says of the numbers 1 to n to the names of the nodes.
- `RingStar` runs what `Topologies` plans: its `JobCount` is the length of that list.
- `NodeCheck` justifies that `Controller` chooses the collected rows freely, and tells
  when a row may be stale. `Controller` takes from the runner that its jobs are gone or
  left (`JobsOfRunner`) and that it may yield any verdict. `RunJob`, `Pairwise` and
  `RingStar` justify that: `Terminates` says that the step ends, `PodsHaveAnOwner` and
  `OneCallAtATime` that jobs stay behind only after a lost reply, a failed cleanup or
  `--debug`. `Controller`'s steps `mesh` and `bandwidth` are the modules `Mesh` and
  `RingStar`, of which it keeps the status.

## 3. Runs

Passing:

| Run | Instance | Shows |
|---|---|---|
| `pairwise` | 4 nodes; pairs 1-4 and 2-3 in one round and 1-2 later; 2 attempts | `PodsHaveAnOwner`, `NodeExclusive`, `EveryPairTried` with lost replies, pods that outlive the cleanup, cancellation |
| `pairwise_live` | 2 nodes, 2 attempts, with and without `--debug` | `Terminates`; the refinement of `PairTesting` with its fairness |
| `ring_star` | a ring of 3 nodes and stars with 2 clients, of which the server may be one; 2 jobs each | `OneCallAtATime`, `EveryNodeMeasured`, `Terminates` |
| `round_robin` | every list of 0 to 15 nodes | `DisjointRounds`, `MeetOnce` |
| `mesh` | 4 clusters of 2 or 3 nodes: rails in the same and in another order, NICs shared, missing or with an unusable name; every job map; 2 attempts | `CountedOnce`, `PassWins`, `Reported` |
| `gpu_nic` | 2 nodes; machines described below | `PairsComplete`, `NoCloserPair`, `Balanced`, `ProbeQuality`, `GuessNeverPasses`, `SameEndpoints`, `EveryNICTested` |
| `controller` | 3 invocations, 7 modes, 0 to 2 GPU nodes that may differ between them, 1 failing call | `FailIsReported`, `EveryNodeReported`, `PartialResultsFail`, `TopologyIsLatest`, `NothingLeftBehind`, `StoredSectionsStay` |
| `node_check` | two nodes, one or both with GPUs; GPU and net check jobs and pods of an earlier run in any phase | `ProbeHasRoom`, `ReleasesGPUs`, `ReportsAreFresh`, `UnfinishedIsNoFail`, `Terminates` |

Each but `pairwise_live` also checks the type invariant of its module.

Four of these need a word more. `TopologyIsLatest`: the topologies that the mesh and the
bandwidth jobs are built from are those of one run, this one or the latest that stored
any; no node's is filled in from an older run when its report is lost or the GPU nodes
change. `PartialResultsFail`: in every mode, a run to which some nodes reported and some
did not fails, although the reports of both phases, and stored ones that were loaded, are
counted together. `ProbeHasRoom` leaves out pods whose cleanup gave up waiting;
`ReleasesGPUs` says what must hold of them: at the end of a run they are ending, or their
job could not be deleted. No pod runs on that no cleanup sees any more.

Runs that find the code at odds with what it or its documentation says
(`PROJECT.json`, "findings", quotes the lines):

- `network_run` - the `network` command on a cluster without a stored report
  returns "failed to collect any reports" although all tests passed, since it
  has neither node reports nor a pingmesh report.
- `cluster_checks` - `MergePreserving` does not take `cluster_checks` from the
  previous report: a `gpu` run after an `all` run drops the stored CRD rows.
- `mesh_deleted` - a mesh in which no attempt returned results, as when no server pod
  starts, has an empty list of failures and deletes the failures ConfigMap of an earlier
  mesh, which the comments say happens "on full success". (Not after ^C: the Delete is
  given the cancelled context and fails.)
- `numa_hidden` - where the machine hides its NUMA nodes the pairs carry -1, which
  `GPUNICPair.UnmarshalJSON` rejects: the controller knows no topology of the node,
  probes nothing, warns of nothing, and `ib-write-bw` runs without device and GPU.

Other things that the models show and that contradict no line of the repository:

- Node reports are replaced as a whole: a `gpu` run after `rdma-node` drops the stored
  topology, and the next `rdma-ping` is skipped.
- In `all` and `rdma` with no node report at all, the skipped mesh counts as a report
  and `Run` returns success (`controller.go:353`). `EveryNodeReported` is about the
  two modes with one kind of node check.
- In `all` and `rdma` with a stored topology, a run to which no RDMA node check reported
  loads the stored reports before the bandwidth jobs and counts them as collected, and may
  return success. The comment there, "If net checks didn't run this session", describes
  the intended case; the condition is that none was collected (`controller.go:309`).
  `PartialResultsFail` names this case as its one exception (`loaded`).
- A cleanup that finds no job returns true while pods of deleted jobs are still ending
  (`cleanup.go:51`), so the comment "Returns true if all pods terminated within the
  timeout" is not true of it.
- A node pair all of whose attempts ended in an error is in no total of the mesh, which may
  be PASS on the others.
- With more NICs than GPUs on InfiniBand or RoCE, the NICs that no GPU was paired with
  are in no job; nodes unlike the one whose topology the map yields first are tested
  with that node's pairs (`bandwidth.go:68`). `EveryNICTested` says what is left: the
  pairs, and the nodes with the same ones.

### Bounds

- `pairwise`: three pairs suffice for two goroutines in one round and a third, in a
  later round, that meets both on a node. With two attempts there is a retry after
  each kind of outcome; a third (`runPingMesh` passes 3) adds no new predecessor.
- `FewLeft` (in MCPairwise and MCRingStar): at most `MaxLeft` = 1 pod left behind, so
  that states with abandoned pods exist but do not multiply. Abandoned pods are not
  looked at by any action but `PodStep` and the refused Create. The proofs have no
  such bound.
- `ring_star`: on three nodes a node is server, client and neither, or both on a star whose
  `--client-nodes` name the server; the index of the last client wraps around; the second
  job follows the first on the same group and precedes the first on the next.
- `MaxNodes` = 15: all residues of the padding and rotation several times over;
  the theorem has no bound (TLC's constant only bounds the initial states).
- `mesh`: two devices and one name that is dropped; three nodes give three rounds with
  a bye. Every set of probed and passed NIC pairs that a job can report is tried.
- `gpu_nic`: PCIe trees (`Twins`) with every place of 2 or 3 GPUs and 2 or 3 NICs over
  two switches of one NUMA node, one of another and an unknown path, as many as, fewer
  and more GPUs than NICs; flat machines beside one with a tree (`FlatBesides`), with
  every matrix over `Speeds` = {0, 1, 2}, which has failures, ties and orders; unlike
  nodes (`Mixed`): uneven EFA groups, two fabrics, one that cannot be tested, other devices.
  `EfaCounts` = {2, 3} is less than and as many as the NICs of a node. `Kind` is `numa_known` here and
  `numa_hidden` in the run of that name. `gpu_nic` leaves such machines out because the
  controller cannot read their pairs, so that `GuessNeverPasses` fails on them too, for
  the reason which that run reports.
- `MaxRuns` = 3: a run that collects on some nodes, one that collects on others, and one
  that uses what they stored. `MaxFaults` = 1: the code reacts to each failed call on its
  own. `SecondRuns`: the second run is followed in five modes only, after a run that stored
  no cluster checks, and while no node check has failed; FAILs are seen in first runs.
  `ThirdRuns`: the third run is `rdma-ping`, which only uses topologies. The proofs have no
  such bound.
- `FewUnwaited` (`node_check`): states in which the pods of more than `MaxUnwaited` = 1
  kind were not waited for are not followed further. Each property is about one kind
  at a time.
- Two nodes in `controller` and `node_check`: the smallest cluster with a mesh, and with
  a partial result. Symmetry over the nodes (`controller`) is sound: node sets and
  initial state are symmetric, and the run checks no liveness.

### Fairness

`Pairwise`, `RingStar`, `Mesh` and `NodeCheck` are checked for liveness. In `Pairwise`,
`WF` of each goroutine and of the barrier is justified because every wait of a goroutine
is a `select` with a timer (`waitForPodIP`, `waitForJobs`) or a loop with a bound
(`cleanup`, 60 polls), and a goroutine that is not waiting is run by the Go scheduler.
`RingStar` has the same of its one loop. Nothing is assumed of pods or of the API
server: a pod may stay Pending forever. `Mesh` assumes of each attempt, and of the
barrier, what `Pairwise` shows of them, and that the code after them runs. In
`NodeCheck` the same holds of the controller's steps: each of its waits has a timer
(`waitAndCollectJobsBySelector`, the probe's timeout) or a number of polls
(`deleteJobsBySelector`, 30). API calls are taken to return, with or without an error.
Deadlock is not checked in the runs of `NodeCheck`, `Mesh` and `Topologies`, since
those programs end.

## 4. Proofs

Every theorem holds for all values of the constants that satisfy the named assumptions
of its module; TLC evaluates these assumptions in the runs. Every invariant and every
action property that a passing run checks is a theorem, and so is the safety part of the
refinement.

`RunJobProofs` - lemmas about a step of `RunJob`, whoever calls it. What every step
keeps is `JobInv == JobTypeOK /\ JobPlaced /\ Owned`: a call has an attempt number and
jobs on the nodes of its task, and every pod that no call left behind is in the
`createdJobs` of a call in progress.

`PairwiseProofs` - for every set of nodes, every schedule that satisfies
`ScheduleAssumption`, every `MaxAttempts`, with and without `--debug`:
`TypeCorrect`, `EveryPodHasAnOwner`, `NodesAreExclusive`, `PairsAreTried`,
and `RefinesPairTesting` (the safety part of the refinement), from

    Inv == TypeOK /\ JobInv /\ Placed /\ Counted /\ RoundsSettled

`NodeExclusive` is not inductive: that two live pods on one node are of one
attempt follows from every live pod being owned by a call in progress (`Owned`),
calls being only in pairs of the current round (`Placed`), and rounds being
disjoint (`ScheduleAssumption`). `EveryPairTried` needs the number of outcomes to
agree with the number of calls (`Counted`) and to stay so for rounds that are over
(`RoundsSettled`).

`RingStarProofs` - for every list of nodes, number of jobs and set of options whose
calls are tasks (`CallAssumption`): `TypeCorrect`, `CallsDoNotOverlap` and
`NodesAreMeasured`. Only the loop's call is in progress (`OnlyCurrent`), and the rows of
a call that is over name all its clients (`Recorded`). That every node has its row then
rests on the arithmetic of the list of calls: the index of a call tells its group and
its job (`Division`), every group and job has an index (`CallOf`), and the ring
makes each node a client once (`RingClients`).

`RoundRobinProofs` - for every number of nodes: `RoundsAreDisjoint` and
`EveryPairMeetsOnce` of the loop, the same of the function `Rounds` (`Tournament`), and
that the loop returns `Rounds(n)` (`LoopReturnsRounds`). All rest on a closed form of
the seating after r rotations, `SeatAt` (`SeatingInvariance`): two nodes face each other
in round r exactly if their numbers sum to a value that r determines modulo m - 1, and
the values of the m - 1 rounds are distinct.

`MeshProofs` - for every finite set of nodes, any topologies, every job map and number
of attempts: `TypeCorrect`, `APassWins`, `EachCountedOnce` and `RoundsFit`, that the
schedule is one that `PairwiseProofs` is about. An attempt probes all NIC pairs
or none (`AttemptFacts`), so a pair that passed has a row that passed for each of them;
that the report still agrees with the attempts at the end is `Reporting`.

`EachCountedOnce` compares numbers that the code finds in two ways: counters incremented
row by row, and the sizes that the hardware implies. A sum over node pairs is the size of
the union of their NIC pairs, each tagged with its node pair (`SumIsSize`, by induction
over the node pairs), and two finite sets have the same size when a bijection relates
them: the NIC pairs on the rail of two nodes and the positions that both have
(`RailPairs`), the listed failures and the NIC pairs whose best row is no pass
(`NotGood`).

`TopologiesProofs` - for every set of nodes, every hardware and every measurement, under
`TopologiesAssumption` (paths and NUMA nodes are numbers, there are finitely many nodes):
`TypesOK`, `EachDeviceOnce`, `NoBetterPartner`, `LoadIsBalanced`, `HalfTheBestTotal`,
`EndsFit` and `AllPairsTested`, from

    IInv == Shape /\ EachSettled /\ Probes /\ GuessesWarned /\ PlanFollows

The properties speak of topologies and jobs, but what a step of the controller leaves of
them depends on where they came from, so the invariant keeps their origin: every topology
is the result of the node's own strategy, or of the bandwidths that its probe measured
(`EachSettled`), and the jobs are those of the topologies at the end (`PlanFollows`). The
properties then follow from what the algorithms compute:

- sorting: in a finite set with a strict total order the ranks are the numbers from 0 to
  the size less one (`Ranks`, `Listed`), so `Sorted` is a list of the set
  in that order;
- the greedy loop of `topology.go` and `gpu_nic_lpbk_bw.go`, a recursive function over the
  sorted candidates: it takes a candidate exactly if nothing it took before is in its way
  (`OneToOneLoop`); it ends with a maximal matching, or with every NIC at its share;
- `NoBetterPartner`: a candidate that was not taken is blocked by one that came earlier in
  the order, which is the definition of a stable matching. That the NICs of the same NUMA
  node are served in a first phase makes them come first in the order of the whole;
- `LoadIsBalanced`: the share of a NIC is the number of GPUs over that of NICs, rounded up,
  and a NUMA node with shares left has no GPU left;
- `HalfTheBestTotal`: charge each GPU of the other assignment to the pair that took its GPU
  or its NIC at a speed no lower; a pair is charged at most twice. If each GPU is fastest
  with a NIC of its own, no pair blocks another, and the total is the best;
- the plan: a job's lanes on two nodes fit together because the nodes have as many NICs for
  each GPU it uses (`CompatibleLanes`), and the default job, the WEP job and the PD jobs
  have each pair in its place.

`GuessIsWarnedOf` (`GuessNeverPasses`) has a hypothesis, `NumaKnown`: sysfs tells the NUMA
node of every device. It is needed. Where it is hidden, the controller cannot read the
pairs and warns of nothing, which is what the run `numa_hidden` shows. The instance
`gpu_nic` satisfies it.

The proof changed two properties. `ProbeQuality` said that, with more GPUs than NICs, a GPU
that could be measured never shares a NIC it has no measurement for. That is false with 4
GPUs and 2 NICs, which is outside the instance that TLC checks: a GPU that could not be
measured may be given the same NIC in the second phase. It now says that two GPUs that
could be measured do not share such a NIC. `NoCloserPair` compared distances with the
penalty for another NUMA node added; in a PCIe tree deeper than the penalty that is not the
order in which the code pairs, which takes the same NUMA node first.

`ControllerProofs` - for every set of nodes, any rows that the jobs report, and any
number of invocations and failing calls: `NoFailIsLost`, that a run which returned
success saw no FAIL. `FailIsReported` speaks of the returned value only; the
invariant says where a FAIL is until then:

    Inv == ResultsTyped /\ SetOnce /\ GpuRowsOnly /\ FailKept /\ Merged
           /\ Undecided /\ FailIsReported

A FAIL that was seen is in one of the five results (`FailKept`). It stays there
because each result is still unset when the step that sets it is reached
(`SetOnce`), which covers every check mode at once; the one result that is
replaced, the net reports by stored topology, is replaced only when no node
reported. The merge keeps the FAIL rows because GPU jobs report no RDMA rows, which
it would drop (`GpuRowsOnly`, `MergeKeepsFails`), and at the verdict the report
examined is that merge (`Merged`).

The same module has the other properties of `Controller`: `TypeCorrect`,
`NothingIsLeftBehind`, `SectionsStay`, `AllNodesReported`, `PartialResultsAreErrors` and
`TopologiesAreLatest`. `AllNodesReported` needs that the reports counted at the verdict name
the nodes that reported
(`Counted`) and that a run with one kind of node check has no reports of the other kind
and no mesh to count (`OnePhase`); as many reports as GPU nodes are then the reports
of all of them (`AllReported`). `PartialResultsAreErrors` counts the reports of both phases:
neither has more than there are GPU nodes, so if the sum reaches the expected number both
have all (`PartialVerdict`); it needs that a phase which the mode does not have collected
nothing (`AsNeeded`). The invariant of `TopologiesAreLatest` is

    DateInv == CountInv /\ StoredDated /\ NoMeshYet /\ TopologyIsLatest

The stored topologies are all of the run `storedRun` (`StoredDated`), which
`MergePreserving` keeps since it takes the nodes of either the current or the previous
report, never of both.

`NodeCheckProofs` - for every finite set of nodes, whatever an earlier run left and
however pods behave: `TypeCorrect`, `ProbesHaveRoom`, `GPUsAreReleased`,
`ReportsComeFromThisRun`, `NobodyIsBlamedEarly`, from

    Inv == TypeOK /\ Stages /\ Cleaned /\ OldCleaned /\ OnGPUNodes

`Cleaned` says for each stage which kinds have no pods and no jobs any more, or are known
to have been given up; `OldCleaned` the same for pods of an earlier run. `NobodyIsBlamedEarly`
is a counting argument: where logs are read because as many jobs completed as there are
GPU nodes, and no job of an earlier run is counted, the jobs of all GPU nodes have
completed (`AllCompleted`).

Only model-checked: liveness (`Terminates`, `Reported`, and the fairness part of the
refinement), since the prover reasons neither about fairness nor about ENABLED; and the
four disagreements of section 3, each a counterexample. The assumption `SortedAgrees`
compares two definitions of sorting on small sets only: one of them is recursive.

The theorems of the library that state induction take a predicate as a parameter, which the
installed provers do not instantiate. `TopologiesProofs` and `MeshProofs` have induction with
a set in its place (`Induction`, `SetInduction`, `LeastSubset`), from the well-foundedness of
`<` and of inclusion: to show P(n) for all n, show that {n \in Nat : P(n)} has 0 and is closed
under successors. That covers recursive functions, sizes of sets, and the sums of
`MapThenSumSet`, which the library defines as a recursive function. `Total` is stated as
a size from the start.

## 5. Not modelled

- Log parsers, sysfs readers, the agent, GPU checks, `tcplat`, flags, tables and JSON
  layout: sequential code with one input and one output, where a unit test says as much.
- The comparison of CRD versions (`compareSemver` compares pre-releases as strings) and
  the order in which `crd.go` sets statuses: pure functions of two strings. Their result
  is a free choice in `Controller`.
- Pod specs, shell scripts and resource requests: `RunJob` abstracts a Job to the phase
  of its only pod (`backoffLimit` 0). The names of jobs, which are cut at 63
  characters, are taken to be unique, and `--client-nodes` to name no node twice.
- Numbers: bandwidths against thresholds, the sum of a WEP job, the sum of the probes'
  timeouts against the timeout of their job.
- A second process beside the first in one namespace. The code has no lock against it and
  promises nothing about it.
- The API server, the scheduler and the kubelets are modelled from how the code uses
  them and marked external.

## 6. State of the plan

Done: the job runner with all three loops, the round robin, the controller over
several invocations, node checks, the mesh, pairing and the plan of bandwidth jobs;
proofs of every invariant and action property of these. What could follow: the version
comparison as operators against a reference order, a second invocation beside the first in
`Controller`, and the names of jobs with their limit of 63 characters.
