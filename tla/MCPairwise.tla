----------------------------- MODULE MCPairwise -----------------------------
(***************************************************************************)
(* RunPairwise over the schedule that roundRobinSchedule gives, for a few  *)
(* job maps.  runPingMesh leaves a pair out of the map when its NICs or    *)
(* its server's EFA devices cannot be had (pkg/controller/pingmesh.go:     *)
(* 62-117), and RunPairwise then skips it (runner.go:129), so any subset   *)
(* of the pairs is a job map.                                              *)
(***************************************************************************)
EXTENDS Pairwise

RR == INSTANCE RoundRobin

(* The pair of server a and client b, a < b, is the task 10 * a + b. *)
TaskOf(pair) == 10 * pair.server + pair.client
ServerOf(tasks) == [t \in tasks |-> t \div 10]
ClientOf(tasks) == [t \in tasks |-> {t % 10}]
ScheduleOf(n, tasks) ==
  LET rounds == RR!Rounds(n)
  IN  [r \in DOMAIN rounds |-> {TaskOf(p) : p \in rounds[r]} \cap tasks]

(* Four nodes: two pairs run side by side, then one that shares a node     *)
(* with each of them.                                                      *)
FourNodes == 1 .. 4
FourNodeTasks == {14, 23, 12}
FourNodeServer == ServerOf(FourNodeTasks)
FourNodeClients == ClientOf(FourNodeTasks)
FourNodeSchedule == <<{14, 23}, {}, {12}>>

(* Two nodes, one pair: the smallest map with a retry. *)
TwoNodes == 1 .. 2
TwoNodeTasks == {12}
TwoNodeServer == ServerOf(TwoNodeTasks)
TwoNodeClients == ClientOf(TwoNodeTasks)
TwoNodeSchedule == <<{12}>>

ASSUME SchedulesAreRoundRobin ==
  /\ FourNodeSchedule = ScheduleOf(4, FourNodeTasks)
  /\ TwoNodeSchedule = ScheduleOf(2, TwoNodeTasks)

(* In the states considered at most MaxLeft pods are left behind, all of   *)
(* one task of the first round.                                            *)
MaxLeft == 1
FewLeft == Cardinality(left) <= MaxLeft /\ \A p \in left : p[1] = 14

=============================================================================
