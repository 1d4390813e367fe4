---------------------------- MODULE NodeReports ----------------------------
(***************************************************************************)
(* The node reports that the controller collects, merges and stores: per   *)
(* node, what the GPU check and what the RDMA node check found.            *)
(* (pkg/checks/check.go, pkg/report/report.go)                             *)
(*                                                                         *)
(* A report is reduced to what the controller looks at: whether it has a   *)
(* FAIL row, whether its gpu_nic_topology row carries a topology, and (not *)
(* in the program's data) which run collected that row.                    *)
(***************************************************************************)
EXTENDS FiniteSets, Naturals

CONSTANT Nodes

GpuRows == {"none", "pass", "fail"}

(* "skip" has no FAIL row and no topology (discovery failed: topology.go   *)
(* 52-64), "fail" a FAIL row and no topology (unparseable log).            *)
NetRows == {"none", "topo", "topoFail", "skip", "fail"}

Reports == [Nodes -> [gpu : GpuRows, net : NetRows, run : Nat]]

NoReports == [n \in Nodes |-> [gpu |-> "none", net |-> "none", run |-> 0]]

(* A slice of NodeReport has one entry for every node in Reported(r). *)
Reported(r) == {n \in Nodes : r[n] # NoReports[n]}

ExtractTopology(row) == row.net \in {"topo", "topoFail"}

TopologyCoversAllNodes(r, gpuNodes) == \A n \in gpuNodes : ExtractTopology(r[n])

HasFail(r) == \E n \in Nodes : r[n].gpu = "fail" \/ r[n].net \in {"topoFail", "fail"}

(* The Results of the two reports of a node are appended.  The first       *)
(* argument holds GPU check reports, which have no net rows.               *)
MergeGpuRow(a, b) == CASE "fail" \in {a, b} -> "fail"
                       [] {a, b} = {"none"} -> "none"
                       [] OTHER -> "pass"

(* Faulty: a node's second report replaces its first. *)
MergeReplacing(gpu, net) ==
  [n \in Nodes |-> IF n \in Reported(net) THEN net[n] ELSE gpu[n]]

MergeNodeReports(gpu, net) ==
  [n \in Nodes |-> [gpu |-> MergeGpuRow(gpu[n].gpu, net[n].gpu),
                    net |-> net[n].net, run |-> net[n].run]]

-----------------------------------------------------------------------------
(* What a section of the report says, if it is there. *)
Verdicts == {"none", "skip", "pass", "warn", "fail"}

StoredReports == [cluster : Verdicts, nodes : Reports, jobs : Verdicts, mesh : Verdicts]

EmptyReport == [cluster |-> "none", nodes |-> NoReports, jobs |-> "none", mesh |-> "none"]

(* Faulty: the tests for missing sections are dropped. *)
MergeNothing(current, previous) == current

(* Faulty: nodes that did not report keep their stored reports. *)
MergeFillingNodes(current, previous) ==
  [current EXCEPT
     !.nodes = [n \in Nodes |-> IF n \in Reported(@) THEN @[n] ELSE previous.nodes[n]],
     !.jobs  = IF @ = "none" THEN previous.jobs ELSE @,
     !.mesh  = IF @ = "none" THEN previous.mesh ELSE @]

(* ClusterChecks are not among the sections taken from the previous report. *)
MergePreserving(current, previous) ==
  [current EXCEPT
     !.nodes = IF Reported(@) = {} THEN previous.nodes ELSE @,
     !.jobs  = IF @ = "none" THEN previous.jobs ELSE @,
     !.mesh  = IF @ = "none" THEN previous.mesh ELSE @]

(* report.ReadinessStatus is NOT READY: CountStatuses finds a FAIL. *)
Failures(report) == \/ "fail" \in {report.cluster, report.jobs, report.mesh}
                    \/ HasFail(report.nodes)

=============================================================================
