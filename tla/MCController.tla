---------------------------- MODULE MCController ----------------------------
(***************************************************************************)
(* Successive invocations of the CLI on a cluster with two nodes.          *)
(***************************************************************************)
EXTENDS Controller, TLC

CONSTANTS n1, n2

TwoNodes == {n1, n2}

(* None, one or both nodes have GPUs when a run looks for them. *)
SomeNodeSets == SUBSET TwoNodes
BothNodes == {TwoNodes}

(* A second run considered is in one of these modes, follows a run that    *)
(* stored no cluster checks, and every node check has passed.  A third one *)
(* is rdma-ping, with no jobs left and nothing stored but node reports.    *)
SecondModes == {"rdma-node", "rdma-ping", "rdma", "rdma-bandwidth", "gpu"}
SecondRuns ==
  runs = 2 =>
    /\ mode \in SecondModes \cup {"none"}
    /\ stored.cluster = "none"
    /\ \A r \in {stored.nodes, gpuReports, netReports} : ~HasFail(r)

ThirdRuns ==
  runs = 3 =>
    /\ mode = "rdma-ping" /\ ~debug /\ ~cancelled
    /\ jobs = {} /\ ~failuresCM
    /\ stored.cluster = "none" /\ stored.jobs = "none" /\ stored.mesh = "none"
    /\ ~HasFail(stored.nodes)

Symmetry == Permutations(TwoNodes)

=============================================================================
