------------------------------ MODULE RingStar ------------------------------
(***************************************************************************)
(* Runner.RunRing and Runner.RunStar (pkg/jobrunner/runner.go), called by  *)
(* runBandwidthJobs (pkg/controller/bandwidth.go): every job of the list   *)
(* on one group of nodes after another, each by one call of RunJob, and    *)
(* one report row per client, or one row for the whole call if it failed.  *)
(*                                                                         *)
(* A task of RunJob is <<server, clients, j>>, the call of the j-th job.   *)
(***************************************************************************)
EXTENDS RunJob, Functions

CONSTANTS
  GpuNodes,   \* the sequence gpuNodes of the run
  JobCount,   \* the number of jobs, c.jobs after their expansion
  NoNode,     \* --server-node is not given
  Choices     \* the --server-node and --client-nodes options considered

ASSUME RingAssumption ==
  /\ GpuNodes \in Seq(Nodes) /\ Len(GpuNodes) >= 2
  /\ \A i, j \in DOMAIN GpuNodes : i # j => GpuNodes[i] # GpuNodes[j]
  /\ JobCount \in Nat
  /\ NoNode \notin Nodes
  /\ Choices \subseteq [server : Nodes \cup {NoNode}, clients : SUBSET Nodes]

VARIABLES
  options,  \* --server-node and --client-nodes
  results   \* one set of rows per finished call, in the order of the calls

vars == <<jobVars, options, results>>

-----------------------------------------------------------------------------
(* The calls a run makes. *)

(* Every node is the server once, and the next node its client. *)
RingGroups ==
  [i \in DOMAIN GpuNodes |->
     <<GpuNodes[i], {GpuNodes[(i % Len(GpuNodes)) + 1]}>>]

(* resolveStarNodes: the first node serves, all the others are clients,    *)
(* unless the options name them.                                           *)
StarGroup(o) ==
  LET server == IF o.server = NoNode THEN GpuNodes[1] ELSE o.server
      others == {GpuNodes[i] : i \in DOMAIN GpuNodes} \ {server}
  IN  <<server, IF o.clients = {} THEN others ELSE o.clients>>

GroupsFor(o) ==
  IF o.server = NoNode /\ o.clients = {} THEN RingGroups ELSE <<StarGroup(o)>>

(* The calls that any of the options asks for are among the tasks. *)
ASSUME CallAssumption ==
  \A o \in Choices, j \in 1 .. JobCount : \A g \in Range(GroupsFor(o)) : <<g[1], g[2], j>> \in Tasks

ASSUME EndsAssumption == \A t \in Tasks : Server[t] = t[1] /\ Clients[t] = t[2]

OnRing == options.server = NoNode /\ options.clients = {}
Groups == GroupsFor(options)

(* runJobsOnPair takes the jobs in order, for one group after the other. *)
Total == Len(Groups) * JobCount
CallAt(i) ==
  LET g == Groups[((i - 1) \div JobCount) + 1]
  IN  <<g[1], g[2], ((i - 1) % JobCount) + 1>>

Finished == Len(results) = Total
Current == CallAt(Len(results) + 1)

-----------------------------------------------------------------------------
Rows == [nodes : SUBSET Nodes, status : {"PASS", "FAIL"}]

TypeOK ==
  /\ JobTypeOK
  /\ options \in Choices
  /\ results \in Seq(SUBSET Rows) /\ Len(results) <= Total

Init ==
  /\ JobInit
  /\ options \in Choices
  /\ results = <<>>

(* The next job of the loop; the ctx is not looked at. *)
StartCall ==
  /\ ~Finished
  /\ step[Current] = "idle"
  /\ Call(Current)
  /\ UNCHANGED <<options, results>>

(* Faulty variant: the row of a failed call has a status of its own. *)
RowsOfErrorStatus(t) ==
  IF ret[t] = "error" THEN {[nodes |-> Clients[t], status |-> "ERROR"]}
  ELSE {[nodes |-> {n}, status |-> IF n \in passed[t] THEN "PASS" ELSE "FAIL"] :
          n \in Clients[t]}

(* Faulty variant: a call that failed leaves no row. *)
RowsOfErrorDropped(t) ==
  IF ret[t] = "error" THEN {}
  ELSE {[nodes |-> {n}, status |-> IF n \in passed[t] THEN "PASS" ELSE "FAIL"] :
          n \in Clients[t]}

(* What the call leaves in the report: after an error, one FAIL row that   *)
(* names all clients, whatever some of them have completed; otherwise a    *)
(* row for each client.                                                    *)
RowsOf(t) ==
  IF ret[t] = "error" THEN {[nodes |-> Clients[t], status |-> "FAIL"]}
  ELSE {[nodes |-> {n}, status |-> IF n \in passed[t] THEN "PASS" ELSE "FAIL"] :
          n \in Clients[t]}

EndCall ==
  /\ ~Finished
  /\ step[Current] = "returned"
  /\ results' = Append(results, RowsOf(Current))
  /\ Consume(Current, "done")
  /\ UNCHANGED options

Loop ==
  /\ \/ StartCall
     \/ EndCall
     \/ ~Finished /\ RunJobStep(Current) /\ UNCHANGED <<options, results>>
  /\ UNCHANGED debug

Environment ==
  /\ \/ \E p \in Live : PodStep(p)
     \/ ~Finished /\ Cancel
  /\ UNCHANGED <<debug, options, results>>

(* The jobs are over and the pods have come to rest. *)
Rest ==
  /\ Finished
  /\ \A p \in Pods : pod[p] \in {"absent", "Completed"}
  /\ UNCHANGED vars

Next == Loop \/ Environment \/ Rest

Spec == Init /\ [][Next]_vars

(* Every wait of the loop has a timer; nothing is assumed of the pods. *)
FairSpec == Spec /\ WF_vars(Loop)

-----------------------------------------------------------------------------
(* At any time the pods that no call left behind are those of the call in  *)
(* progress: the node that was client in one round of the ring and is the  *)
(* server of the next has given its NICs and extended resources back, and  *)
(* no job's traffic disturbs the next job's measurement (RunJob's deferred *)
(* cleanup, runner.go:283-288, and its wait, 596-618).                     *)
OneCallAtATime == \A p \in Live \ left : ~Finished /\ p[1] = Current

(* When the loop returns, also after ^C, each job has a row for every node *)
(* that was to be a client: one of its own, or the FAIL row of its call.   *)
(* On a ring each node has also been the server of each job.  A job that   *)
(* fails, or one client of several that never completes, takes no node out *)
(* of the report (runner.go:63-92 and 258-278).                            *)
Reported(n, j) ==
  \E k \in DOMAIN results : CallAt(k)[3] = j /\ \E row \in results[k] : n \in row.nodes
Served(n, j) ==
  \E k \in DOMAIN results : CallAt(k)[3] = j /\ CallAt(k)[1] = n

EveryNodeMeasured ==
  Finished =>
    \A j \in 1 .. JobCount :
      /\ \A g \in DOMAIN Groups : \A n \in Groups[g][2] : Reported(n, j)
      /\ OnRing => \A i \in DOMAIN GpuNodes :
                     Served(GpuNodes[i], j) /\ Reported(GpuNodes[i], j)

(* The loop returns, whatever pods and API server do. *)
Terminates == <>Finished

=============================================================================
