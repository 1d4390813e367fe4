--------------------------- MODULE RoundRobinLoop ---------------------------
(***************************************************************************)
(* The loop of roundRobinSchedule, one step per round, for a list of n     *)
(* nodes that the initial state chooses.                                   *)
(***************************************************************************)
EXTENDS RoundRobin

CONSTANT MaxNodes   \* the longest list considered

ASSUME MaxNodesAssumption == MaxNodes \in Nat

VARIABLES
  n,        \* len(nodes)
  working,  \* who sits where
  rounds    \* the rounds emitted so far, each a set of pairs

vars == <<n, working, rounds>>

Init ==
  /\ n \in 0 .. MaxNodes
  /\ working = StartSeating(n)
  /\ rounds = <<>>

More == n >= 2 /\ Len(rounds) < Seats(n) - 1

EmitRound ==
  /\ More
  /\ rounds' = Append(rounds, PairsOf(n, working))
  /\ working' = Rotate(n, working)
  /\ UNCHANGED n

Return == ~More /\ UNCHANGED vars

Next == EmitRound \/ Return

Spec == Init /\ [][Next]_vars

AllPairs == {p \in [server : 1 .. n, client : 1 .. n] : p.server < p.client}

-----------------------------------------------------------------------------
(* n, the seats and the emitted pairs have their types: in particular the  *)
(* bye is in no pair, and the server of a pair is its smaller node.        *)
TypeOK ==
  /\ n \in 0 .. MaxNodes
  /\ working \in [1 .. Seats(n) -> 1 .. Seats(n)]
  /\ rounds \in Seq(SUBSET AllPairs)

(* The goroutines of one round share no node, which is what makes the      *)
(* unlocked SetNameSuffix and the exclusive use of a node's devices safe   *)
(* (runner.go:136).                                                        *)
DisjointRounds ==
  \A r \in DOMAIN rounds : \A p, q \in rounds[r] :
    p # q => {p.server, p.client} \cap {q.server, q.client} = {}

(* No pair meets twice, and when the loop ends every pair of nodes has met *)
(* once: the N-choose-2 pairs that RunPairwise promises (runner.go:94).    *)
MeetOnce ==
  /\ \A r, s \in DOMAIN rounds : r # s => rounds[r] \cap rounds[s] = {}
  /\ ~More /\ n >= 2 => UNION {rounds[r] : r \in DOMAIN rounds} = AllPairs

=============================================================================
