----------------------------- MODULE RoundRobin -----------------------------
(***************************************************************************)
(* The circle method of roundRobinSchedule (pkg/jobrunner/runner.go).      *)
(* RunPairwise sorts the node names first, so a node is its rank 1 .. n,   *)
(* and the empty string that pads an odd list, the bye, is n + 1.          *)
(***************************************************************************)
EXTENDS Integers, Sequences, FiniteSets

Bye(n) == n + 1

(* len(working): n, padded to an even number. *)
Seats(n) == IF n % 2 = 0 THEN n ELSE n + 1

StartSeating(n) == [i \in 1 .. Seats(n) |-> i]

(* One pair of a round: the lexicographically smaller node is the server. *)
NodePair(a, b) ==
  IF a > b THEN [server |-> b, client |-> a] ELSE [server |-> a, client |-> b]

(* Faulty variant: the bye is not skipped. *)
PairsOfWithBye(n, w) ==
  { NodePair(w[i], w[Seats(n) + 1 - i]) : i \in 1 .. Seats(n) \div 2 }

(* Faulty variant: the second half of the table is taken to start one seat *)
(* early, and is not read backwards.                                       *)
PairsOfHalves(n, w) ==
  LET opposite(j) == w[Seats(n) \div 2 + j - 1]
  IN  { NodePair(w[i], opposite(i)) :
          i \in { j \in 1 .. Seats(n) \div 2 :
                    w[j] # opposite(j) /\ Bye(n) \notin {w[j], opposite(j)} } }

(* Seats i and m + 1 - i meet; whoever meets the bye sits out. *)
PairsOf(n, w) ==
  { NodePair(w[i], w[Seats(n) + 1 - i]) :
      i \in { j \in 1 .. Seats(n) \div 2 :
                w[j] # Bye(n) /\ w[Seats(n) + 1 - j] # Bye(n) } }

(* Faulty variant: the copy also moves the first seat. *)
RotateEverySeat(n, w) ==
  [i \in 1 .. Seats(n) |-> IF i = 1 THEN w[Seats(n)] ELSE w[i - 1]]

(* The first seat stays; the last one moves to the second, the rest shift. *)
Rotate(n, w) ==
  [i \in 1 .. Seats(n) |->
     IF i = 1 THEN w[1] ELSE IF i = 2 THEN w[Seats(n)] ELSE w[i - 1]]

(* The seating before round r, and all the rounds of n nodes. *)
SeatingOf(n) ==
  LET seating[r \in 0 .. Seats(n) - 1] ==
        IF r = 0 THEN StartSeating(n) ELSE Rotate(n, seating[r - 1])
  IN  seating

Rounds(n) ==
  IF n < 2 THEN <<>>
  ELSE [r \in 1 .. Seats(n) - 1 |-> PairsOf(n, SeatingOf(n)[r - 1])]

=============================================================================
