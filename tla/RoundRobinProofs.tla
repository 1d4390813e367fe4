-------------------------- MODULE RoundRobinProofs --------------------------
(***************************************************************************)
(* roundRobinSchedule is a tournament for a list of any length: the rounds *)
(* are disjoint and every pair meets exactly once.  The argument is a      *)
(* closed form of the seating: after r rotations, the node in seat i > 1   *)
(* is i - r, counted cyclically over the seats 2 .. m.                     *)
(***************************************************************************)
EXTENDS RoundRobinLoop, NaturalsInduction, WellFoundedInduction, TLAPS

SeatAt(m, r, i) ==
  IF i = 1 THEN 1 ELSE IF i - r >= 2 THEN i - r ELSE i - r + (m - 1)

Seating(k, r) == [i \in 1 .. Seats(k) |-> SeatAt(Seats(k), r, i)]

(* The closed form holds before every round, and names every past round. *)
SeatingInv ==
  /\ n \in 0 .. MaxNodes
  /\ rounds \in Seq(SUBSET AllPairs)
  /\ Len(rounds) <= IF n < 2 THEN 0 ELSE Seats(n) - 1
  /\ working = Seating(n, Len(rounds))
  /\ \A r \in DOMAIN rounds : rounds[r] = PairsOf(n, Seating(n, r - 1))

(* There are as many seats as nodes, or one more, and an even number. *)
LEMMA SeatsAreEven ==
  ASSUME NEW k \in Nat
  PROVE  /\ Seats(k) \in Nat
         /\ Seats(k) \div 2 \in Nat
         /\ Seats(k) = 2 * (Seats(k) \div 2)
         /\ k <= Seats(k) /\ Seats(k) <= k + 1
         /\ Bye(k) > k
BY DEF Seats, Bye

(* Nodes that meet the same partner, or different partners, in seats that  *)
(* differ are different: a round is a permutation of the seats.            *)
LEMMA SeatAtIsInjective ==
  ASSUME NEW m \in Nat, NEW r \in Nat, r < m,
         NEW i \in 1 .. m, NEW j \in 1 .. m, SeatAt(m, r, i) = SeatAt(m, r, j)
  PROVE  i = j
BY DEF SeatAt

(* A node that moves stays within the seats. *)
LEMMA SeatAtIsASeat ==
  ASSUME NEW m \in Nat, NEW r \in Nat, r < m, NEW i \in 1 .. m
  PROVE  SeatAt(m, r, i) \in 1 .. m
BY DEF SeatAt

(* One rotation moves the closed form from r to r + 1. *)
LEMMA RotateSeating ==
  ASSUME NEW k \in Nat, k >= 2, NEW r \in Nat, r < Seats(k) - 1
  PROVE  Rotate(k, Seating(k, r)) = Seating(k, r + 1)
<1> DEFINE m == Seats(k)
<1>1. m \in Nat /\ m >= 2
  BY SeatsAreEven
<1>2. \A i \in 1 .. m :
        (IF i = 1 THEN Seating(k, r)[1]
         ELSE IF i = 2 THEN Seating(k, r)[m] ELSE Seating(k, r)[i - 1])
        = SeatAt(m, r + 1, i)
  BY <1>1 DEF Seating, SeatAt
<1> QED
  BY <1>2 DEF Rotate, Seating

(* The pair p is made by seats i and m + 1 - i after r rotations. *)
MadeBySeats(k, r, i, p) ==
  /\ p = NodePair(SeatAt(Seats(k), r, i), SeatAt(Seats(k), r, Seats(k) + 1 - i))
  /\ {p.server, p.client} =
       {SeatAt(Seats(k), r, i), SeatAt(Seats(k), r, Seats(k) + 1 - i)}

(* A pair of a round sits on opposite seats, the smaller node serving. *)
LEMMA PairHasSeats ==
  ASSUME NEW k \in Nat, NEW r \in Nat, r < Seats(k), NEW p \in PairsOf(k, Seating(k, r))
  PROVE  /\ \E i \in 1 .. Seats(k) \div 2 : MadeBySeats(k, r, i, p)
         /\ p \in [server : 1 .. k, client : 1 .. k]
         /\ p.server < p.client
<1> DEFINE m == Seats(k)
<1>1. /\ m \in Nat /\ m \div 2 \in Nat /\ m = 2 * (m \div 2) /\ k <= m /\ m <= k + 1
      /\ Bye(k) = k + 1
  BY SeatsAreEven DEF Bye
<1>2. PICK i \in 1 .. m \div 2 :
        /\ p = NodePair(Seating(k, r)[i], Seating(k, r)[m + 1 - i])
        /\ Seating(k, r)[i] # Bye(k) /\ Seating(k, r)[m + 1 - i] # Bye(k)
  BY DEF PairsOf
<1> DEFINE a == SeatAt(m, r, i)
           b == SeatAt(m, r, m + 1 - i)
<1>3. i \in 1 .. m /\ m + 1 - i \in 1 .. m /\ i # m + 1 - i
  BY <1>1
<1>4. Seating(k, r)[i] = a /\ Seating(k, r)[m + 1 - i] = b
  BY <1>3 DEF Seating
<1>5. a \in 1 .. m /\ b \in 1 .. m /\ a # b
  BY <1>1, <1>3, SeatAtIsASeat, SeatAtIsInjective
<1>6. a \in 1 .. k /\ b \in 1 .. k
  BY <1>1, <1>2, <1>4, <1>5
<1>7. p = NodePair(a, b)
  BY <1>2, <1>4
<1>8. ASSUME NEW x \in 1 .. k, NEW y \in 1 .. k, x # y, p = NodePair(x, y)
      PROVE  /\ p.server < p.client /\ {p.server, p.client} = {x, y}
             /\ p \in [server : 1 .. k, client : 1 .. k]
  BY <1>8 DEF NodePair
<1>9. /\ p.server < p.client /\ {p.server, p.client} = {a, b}
      /\ p \in [server : 1 .. k, client : 1 .. k]
  <2> HIDE DEF a, b
  <2> QED
    BY <1>5, <1>6, <1>7, <1>8
<1>10. MadeBySeats(k, r, i, p)
  BY <1>7, <1>9 DEF MadeBySeats
<1> QED
  BY <1>9, <1>10

(* Two pairs of a round share no node. *)
LEMMA PairsOfARoundAreDisjoint ==
  ASSUME NEW k \in Nat, NEW r \in Nat, r < Seats(k),
         NEW p \in PairsOf(k, Seating(k, r)), NEW q \in PairsOf(k, Seating(k, r)), p # q
  PROVE  {p.server, p.client} \cap {q.server, q.client} = {}
<1> DEFINE m == Seats(k)
           At(i) == SeatAt(m, r, i)
<1>1. m \in Nat /\ m \div 2 \in Nat /\ m = 2 * (m \div 2)
  BY SeatsAreEven
<1>2. PICK i \in 1 .. m \div 2 :
        /\ p = NodePair(At(i), At(m + 1 - i))
        /\ {p.server, p.client} = {At(i), At(m + 1 - i)}
  BY PairHasSeats DEF MadeBySeats
<1>3. PICK j \in 1 .. m \div 2 :
        /\ q = NodePair(At(j), At(m + 1 - j))
        /\ {q.server, q.client} = {At(j), At(m + 1 - j)}
  BY PairHasSeats DEF MadeBySeats
<1>4. i # j
  BY <1>2, <1>3
<1>5. /\ {i, j, m + 1 - i, m + 1 - j} \subseteq 1 .. m
      /\ i # m + 1 - j /\ m + 1 - i # j /\ m + 1 - i # m + 1 - j
  BY <1>1, <1>4
<1>6. \A x, y \in 1 .. m : At(x) = At(y) => x = y
  BY <1>1, SeatAtIsInjective
<1> HIDE DEF At, m
<1> QED
  BY <1>2, <1>3, <1>4, <1>5, <1>6

(* The nodes of two seats that face each other add up to m + 1 - 2r, up to *)
(* multiples of m - 1.                                                     *)
LEMMA SumOfAPair ==
  ASSUME NEW m \in Nat, m >= 2, NEW r \in Nat, r < m - 1, NEW i \in 1 .. m, i > 1, i < m
  PROVE  LET sum == SeatAt(m, r, i) + SeatAt(m, r, m + 1 - i)
         IN  \/ sum = m + 1 - 2 * r
             \/ sum = m + 1 - 2 * r + (m - 1)
             \/ sum = m + 1 - 2 * r + (m - 1) + (m - 1)
BY DEF SeatAt

(* No pair is in two rounds. *)
LEMMA NoSecondMeeting ==
  ASSUME NEW k \in Nat, NEW r \in Nat, NEW s \in Nat,
         r < Seats(k) - 1, s < Seats(k) - 1,
         NEW p \in PairsOf(k, Seating(k, r)), p \in PairsOf(k, Seating(k, s))
  PROVE  r = s
<1> DEFINE m == Seats(k)
<1>1. m \in Nat /\ m \div 2 \in Nat /\ m = 2 * (m \div 2)
  BY SeatsAreEven
<1>rs. r < Seats(k) /\ s < Seats(k)
  BY <1>1
<1>2. PICK i \in 1 .. Seats(k) \div 2 : MadeBySeats(k, r, i, p)
  BY <1>rs, PairHasSeats
<1>3. PICK j \in 1 .. Seats(k) \div 2 : MadeBySeats(k, s, j, p)
  BY <1>rs, PairHasSeats
<1>half. PICK h \in Nat : m = 2 * h /\ i \in 1 .. h /\ j \in 1 .. h
  BY <1>1
<1> DEFINE a == SeatAt(m, r, i)
           b == SeatAt(m, r, m + 1 - i)
           c == SeatAt(m, s, j)
           d == SeatAt(m, s, m + 1 - j)
<1>4. (a = c /\ b = d) \/ (a = d /\ b = c)
  BY <1>2, <1>3 DEF MadeBySeats
<1>seats. m \in Nat /\ r < m - 1 /\ s < m - 1
  BY <1>1
<1> HIDE DEF m
<1>5. CASE i = 1 /\ j = 1
  BY <1>4, <1>5, <1>half, <1>seats DEF SeatAt
<1>6. CASE i = 1 /\ j # 1
  <2>1. a = 1 /\ c # 1 /\ d # 1
    BY <1>6, <1>half, <1>seats DEF SeatAt
  <2> QED
    BY <2>1, <1>4
<1>7. CASE i # 1 /\ j = 1
  <2>1. c = 1 /\ a # 1 /\ b # 1
    BY <1>7, <1>half, <1>seats DEF SeatAt
  <2> QED
    BY <2>1, <1>4
<1>8. CASE i # 1 /\ j # 1
  <2>0. i \in 1 .. m /\ 1 < i /\ i < m /\ j \in 1 .. m /\ 1 < j /\ j < m /\ m >= 2
    BY <1>8, <1>half
  <2>1. \/ a + b = m + 1 - 2 * r
        \/ a + b = m + 1 - 2 * r + (m - 1)
        \/ a + b = m + 1 - 2 * r + (m - 1) + (m - 1)
    BY <2>0, <1>seats, SumOfAPair
  <2>2. \/ c + d = m + 1 - 2 * s
        \/ c + d = m + 1 - 2 * s + (m - 1)
        \/ c + d = m + 1 - 2 * s + (m - 1) + (m - 1)
    BY <2>0, <1>seats, SumOfAPair
  <2>3. a \in Int /\ b \in Int /\ c \in Int /\ d \in Int
    BY <1>seats, <1>half DEF SeatAt
  <2> HIDE DEF a, b, c, d
  <2>4. a + b = c + d
    BY <1>4, <2>3
  <2> QED
    BY <2>1, <2>2, <2>3, <2>4, <1>half, <1>seats
<1> QED
  BY <1>5, <1>6, <1>7, <1>8

(* Two seats that face each other make a pair of the round, unless the bye *)
(* is in one of them.                                                      *)
LEMMA FacingSeatsMeet ==
  ASSUME NEW k \in Nat, NEW r \in Nat, r < Seats(k),
         NEW x \in 1 .. Seats(k), NEW y \in 1 .. Seats(k), x + y = Seats(k) + 1,
         NEW a \in 1 .. k, NEW b \in 1 .. k, a < b,
         a = SeatAt(Seats(k), r, x), b = SeatAt(Seats(k), r, y)
  PROVE  [server |-> a, client |-> b] \in PairsOf(k, Seating(k, r))
<1> DEFINE m == Seats(k)
           w == Seating(k, r)
<1>1. m \in Nat /\ m \div 2 \in Nat /\ m = 2 * (m \div 2) /\ Bye(k) = k + 1
  BY SeatsAreEven DEF Bye
<1>2. w[x] = a /\ w[y] = b /\ a # Bye(k) /\ b # Bye(k)
  BY <1>1 DEF Seating
<1>3. /\ NodePair(a, b) = [server |-> a, client |-> b]
      /\ NodePair(b, a) = [server |-> a, client |-> b]
  BY DEF NodePair
<1>4. CASE x \in 1 .. m \div 2
  <2>1. y = m + 1 - x
    BY <1>1
  <2> QED
    BY <1>2, <1>3, <1>4, <2>1 DEF PairsOf
<1>5. CASE y \in 1 .. m \div 2
  <2>1. x = m + 1 - y
    BY <1>1
  <2> QED
    BY <1>2, <1>3, <1>5, <2>1 DEF PairsOf
<1> QED
  BY <1>1, <1>4, <1>5

(* The round in which a and b meet, and their seats in it. *)
LEMMA SeatsForEveryPair ==
  ASSUME NEW h \in Nat, NEW a \in 1 .. 2 * h, NEW b \in 1 .. 2 * h, a < b
  PROVE  \E r \in 0 .. 2 * h - 2 : \E x, y \in 1 .. 2 * h :
           /\ x + y = 2 * h + 1
           /\ a = SeatAt(2 * h, r, x) /\ b = SeatAt(2 * h, r, y)
<1> DEFINE m == 2 * h
<1>1. CASE a = 1
  <2>1. /\ m - b \in 0 .. m - 2
        /\ 1 + m = m + 1
        /\ a = SeatAt(m, m - b, 1) /\ b = SeatAt(m, m - b, m)
        /\ 1 \in 1 .. m /\ m \in 1 .. m
    BY <1>1 DEF SeatAt
  <2> QED
    BY <2>1
<1>2. CASE a # 1
  <2>1. \E r \in 0 .. m - 2 :
          \/ a + b + 2 * r = m + 1
          \/ a + b + 2 * r = m + 1 + (m - 1)
          \/ a + b + 2 * r = m + 1 + (m - 1) + (m - 1)
    <3> DEFINE s == m + 1 - a - b
    <3>1. PICK u \in Int : s = 2 * u \/ s = 2 * u + 1
      <4>1. s \div 2 \in Int /\ (s = 2 * (s \div 2) \/ s = 2 * (s \div 2) + 1)
        OBVIOUS
      <4> HIDE DEF s
      <4> QED
        BY <4>1
    <3>2. CASE s = 2 * u /\ u >= 0
      <4>1. u \in 0 .. m - 2
        BY <1>2, <3>2
      <4> QED
        BY <3>2, <4>1
    <3>3. CASE s = 2 * u /\ u < 0
      <4>1. u + m - 1 \in 0 .. m - 2 /\ a + b + 2 * (u + m - 1) = m + 1 + (m - 1) + (m - 1)
        BY <1>2, <3>3
      <4> QED
        BY <4>1
    <3>4. CASE s = 2 * u + 1
      <4>1. u + h \in 0 .. m - 2 /\ a + b + 2 * (u + h) = m + 1 + (m - 1)
        BY <1>2, <3>4
      <4> QED
        BY <4>1
    <3> QED
      BY <3>1, <3>2, <3>3, <3>4
  <2>2. PICK r \in 0 .. m - 2 :
          \/ a + b + 2 * r = m + 1
          \/ a + b + 2 * r = m + 1 + (m - 1)
          \/ a + b + 2 * r = m + 1 + (m - 1) + (m - 1)
    BY <2>1
  <2> DEFINE Seat(c) == IF c + r <= m THEN c + r ELSE c + r - (m - 1)
  <2>3. /\ Seat(a) \in 1 .. m /\ Seat(b) \in 1 .. m
        /\ a = SeatAt(m, r, Seat(a)) /\ b = SeatAt(m, r, Seat(b))
    BY <1>2 DEF SeatAt
  <2>4. Seat(a) + Seat(b) = m + 1
    BY <1>2, <2>2
  <2> QED
    BY <2>3, <2>4
<1> QED
  BY <1>1, <1>2

(* Any two nodes sit opposite each other in some round. *)
LEMMA AllPairsMeet ==
  ASSUME NEW k \in Nat, NEW a \in 1 .. k, NEW b \in 1 .. k, a < b
  PROVE  \E r \in 0 .. Seats(k) - 2 :
           [server |-> a, client |-> b] \in PairsOf(k, Seating(k, r))
<1>1. PICK h \in Nat : Seats(k) = 2 * h /\ k <= 2 * h
  BY SeatsAreEven
<1>2. a \in 1 .. 2 * h /\ b \in 1 .. 2 * h
  BY <1>1
<1>3. PICK r \in 0 .. 2 * h - 2, x \in 1 .. 2 * h, y \in 1 .. 2 * h :
        /\ x + y = 2 * h + 1
        /\ a = SeatAt(2 * h, r, x) /\ b = SeatAt(2 * h, r, y)
  BY <1>2, SeatsForEveryPair
<1>4. [server |-> a, client |-> b] \in PairsOf(k, Seating(k, r))
  <2>1. /\ r \in Nat /\ r < Seats(k)
        /\ x \in 1 .. Seats(k) /\ y \in 1 .. Seats(k) /\ x + y = Seats(k) + 1
        /\ a = SeatAt(Seats(k), r, x) /\ b = SeatAt(Seats(k), r, y)
    BY <1>1, <1>3
  <2> QED
    BY <2>1, FacingSeatsMeet
<1> QED
  BY <1>1, <1>3, <1>4

-----------------------------------------------------------------------------
(* A round is a set of pairs of nodes. *)
LEMMA RoundIsTyped ==
  ASSUME NEW k \in Nat, NEW r \in Nat, r < Seats(k)
  PROVE  PairsOf(k, Seating(k, r)) \subseteq
           {p \in [server : 1 .. k, client : 1 .. k] : p.server < p.client}
BY PairHasSeats

(* The loop starts with the seats in order, *)
LEMMA SeatingInvInit == Init => SeatingInv
<1> SUFFICES ASSUME Init PROVE SeatingInv
  OBVIOUS
<1>1. n \in Nat /\ Seats(n) \in Nat /\ n <= Seats(n)
  BY MaxNodesAssumption, SeatsAreEven DEF Init
<1>2. working = Seating(n, 0)
  BY <1>1 DEF Init, StartSeating, Seating, SeatAt
<1>3. rounds = <<>> /\ Len(rounds) = 0 /\ DOMAIN rounds = {}
  BY DEF Init
<1> QED
  BY <1>1, <1>2, <1>3 DEF Init, SeatingInv

(* and each of its steps rotates them. *)
LEMMA SeatingInvStep == SeatingInv /\ [Next]_vars => SeatingInv'
<1> SUFFICES ASSUME SeatingInv, EmitRound PROVE SeatingInv'
  BY DEF Next, Return, vars, SeatingInv, AllPairs
<1> DEFINE r == Len(rounds)
<1>1. n \in Nat /\ n >= 2 /\ r \in Nat /\ r < Seats(n) - 1 /\ n' = n /\ Seats(n) \in Nat
  BY MaxNodesAssumption, SeatsAreEven DEF SeatingInv, EmitRound, More
<1>2. working' = Seating(n', r + 1)
  BY <1>1, RotateSeating DEF SeatingInv, EmitRound
<1>3. rounds' = Append(rounds, PairsOf(n, Seating(n, r)))
  BY DEF SeatingInv, EmitRound
<1>4. PairsOf(n, Seating(n, r)) \in SUBSET AllPairs
  BY <1>1, RoundIsTyped DEF AllPairs
<1>5. /\ rounds' \in Seq(SUBSET AllPairs)
      /\ Len(rounds') = r + 1
      /\ \A k \in DOMAIN rounds' : rounds'[k] = PairsOf(n, Seating(n, k - 1))
  BY <1>3, <1>4 DEF SeatingInv
<1>6. AllPairs' = AllPairs
  BY <1>1 DEF AllPairs
<1> QED
  BY <1>1, <1>2, <1>5, <1>6 DEF SeatingInv

(* The closed form of the seating holds throughout the loop. *)
THEOREM SeatingInvariance == Spec => []SeatingInv
BY SeatingInvInit, SeatingInvStep, PTL DEF Spec

(* The rounds emitted are those of the first seatings. *)
LEMMA RoundNumbers ==
  ASSUME SeatingInv, NEW r \in DOMAIN rounds
  PROVE  /\ n \in Nat /\ r - 1 \in Nat /\ r - 1 < Seats(n) - 1 /\ Seats(n) \in Nat
         /\ rounds[r] = PairsOf(n, Seating(n, r - 1))
<1>1. n \in Nat /\ Seats(n) \in Nat
  BY MaxNodesAssumption, SeatsAreEven DEF SeatingInv
<1> QED
  BY <1>1 DEF SeatingInv

(* For every n, the seats hold nodes and the bye, and only nodes meet. *)
THEOREM ScheduleIsTyped == Spec => []TypeOK
<1>1. SeatingInv => TypeOK
  <2> SUFFICES ASSUME SeatingInv PROVE TypeOK
    OBVIOUS
  <2>1. n \in Nat /\ Seats(n) \in Nat /\ Len(rounds) \in Nat
    BY MaxNodesAssumption, SeatsAreEven DEF SeatingInv
  <2>2. Seats(n) = 0 \/ Len(rounds) < Seats(n)
    <3>1. CASE n >= 2
      BY <2>1, <3>1 DEF SeatingInv
    <3>2. CASE n < 2
      <4>1. Seats(n) = 0 \/ Seats(n) > 0
        BY <2>1
      <4> QED
        BY <2>1, <3>2, <4>1 DEF SeatingInv
    <3> QED
      BY <2>1, <3>1, <3>2
  <2>3. ASSUME NEW i \in 1 .. Seats(n)
        PROVE  SeatAt(Seats(n), Len(rounds), i) \in 1 .. Seats(n)
    <3>1. Len(rounds) < Seats(n)
      BY <2>1, <2>2
    <3> QED
      BY <2>1, <3>1, SeatAtIsASeat
  <2> QED
    BY <2>3 DEF SeatingInv, Seating, TypeOK
<1> QED
  BY <1>1, SeatingInvariance, PTL

(* For every n, no two pairs of a round share a node. *)
THEOREM RoundsAreDisjoint == Spec => []DisjointRounds
<1>1. SeatingInv => DisjointRounds
  BY RoundNumbers, PairsOfARoundAreDisjoint DEF DisjointRounds
<1> QED
  BY <1>1, SeatingInvariance, PTL

(* For every n, all the pairs of n nodes meet, each of them once. *)
THEOREM EveryPairMeetsOnce == Spec => []MeetOnce
<1>1. SeatingInv => MeetOnce
  <2> SUFFICES ASSUME SeatingInv PROVE MeetOnce
    OBVIOUS
  <2>1. ASSUME NEW r \in DOMAIN rounds, NEW s \in DOMAIN rounds, r # s
        PROVE  rounds[r] \cap rounds[s] = {}
    <3>1. \A p \in rounds[r] : p \in rounds[s] => r - 1 = s - 1
      BY RoundNumbers, NoSecondMeeting
    <3> QED
      BY <2>1, <3>1 DEF SeatingInv
  <2>2. ASSUME ~More, n >= 2 PROVE UNION {rounds[r] : r \in DOMAIN rounds} = AllPairs
    <3>1. UNION {rounds[r] : r \in DOMAIN rounds} \subseteq AllPairs
      BY DEF SeatingInv
    <3>2. ASSUME NEW p \in AllPairs PROVE \E r \in DOMAIN rounds : p \in rounds[r]
      <4>1. n \in Nat /\ Seats(n) \in Nat
        BY MaxNodesAssumption, SeatsAreEven DEF SeatingInv
      <4>2. /\ p = [server |-> p.server, client |-> p.client]
            /\ p.server \in 1 .. n /\ p.client \in 1 .. n /\ p.server < p.client
        BY DEF AllPairs
      <4>3. PICK r \in 0 .. Seats(n) - 2 : p \in PairsOf(n, Seating(n, r))
        BY <4>1, <4>2, AllPairsMeet
      <4>4. DOMAIN rounds = 1 .. Seats(n) - 1
        BY <2>2, <4>1 DEF SeatingInv, More
      <4>5. r + 1 \in DOMAIN rounds /\ rounds[r + 1] = PairsOf(n, Seating(n, r))
        BY <4>1, <4>4 DEF SeatingInv
      <4> QED
        BY <4>3, <4>5
    <3> QED
      BY <3>1, <3>2
  <2> QED
    BY <2>1, <2>2 DEF MeetOnce
<1> QED
  BY <1>1, SeatingInvariance, PTL

-----------------------------------------------------------------------------
(* The rounds as a function of the number of nodes. *)

(* A nonempty set of natural numbers has a least element. *)
LEMMA Least ==
  ASSUME NEW T \in SUBSET Nat, T # {}
  PROVE  \E x \in T : \A y \in T : x <= y
<1> DEFINE R == {p \in Nat \X Nat : p[1] < p[2]}
<1>1. IsWellFoundedOn(R, Nat)
  BY NatLessThanWellFounded DEF OpToRel
<1>2. \E x \in T : \A y \in T : ~(<<y, x>> \in R)
  <2> HIDE DEF R
  <2> QED
    BY <1>1, WFMin
<1>3. \A x, y \in T : ~(<<y, x>> \in R) => x <= y
  OBVIOUS
<1> HIDE DEF R
<1> QED
  BY <1>2, <1>3

(* A table of seatings, each the rotation of the one before. *)
Rotates(k, w) ==
  w = [r \in 0 .. Seats(k) - 1 |-> IF r = 0 THEN StartSeating(k) ELSE Rotate(k, w[r - 1])]

(* There is only one such table, and it has the closed form. *)
LEMMA ClosedForm ==
  ASSUME NEW k \in Nat, k >= 2, NEW w, Rotates(k, w), NEW r \in 0 .. Seats(k) - 1
  PROVE  w[r] = Seating(k, r)
<1>1. Seats(k) \in Nat /\ Seats(k) >= 2
  BY SeatsAreEven
<1> DEFINE Wrong == {q \in 0 .. Seats(k) - 1 : w[q] # Seating(k, q)}
           next(q) == IF q = 0 THEN StartSeating(k) ELSE Rotate(k, w[q - 1])
<1>2. \A q \in 0 .. Seats(k) - 1 : w[q] = next(q)
  <2>1. w = [q \in 0 .. Seats(k) - 1 |-> next(q)]
    BY DEF Rotates
  <2> HIDE DEF next
  <2> QED
    BY <2>1
<1>3. w[0] = Seating(k, 0)
  <2>1. StartSeating(k) = Seating(k, 0)
    BY <1>1 DEF StartSeating, Seating, SeatAt
  <2> QED
    BY <1>1, <1>2, <2>1
<1>4. ASSUME NEW q \in 1 .. Seats(k) - 1, w[q - 1] = Seating(k, q - 1)
      PROVE  w[q] = Seating(k, q)
  <2>1. w[q] = Rotate(k, Seating(k, q - 1))
    BY <1>1, <1>2, <1>4
  <2>2. q - 1 \in Nat /\ q - 1 < Seats(k) - 1 /\ (q - 1) + 1 = q
    BY <1>1
  <2> QED
    BY <2>1, <2>2, RotateSeating
<1>5. ASSUME Wrong # {} PROVE FALSE
  <2>0. Wrong \in SUBSET Nat
    BY <1>1
  <2>1. PICK x \in Wrong : \A y \in Wrong : x <= y
    <3> HIDE DEF Wrong
    <3> QED
      BY <1>5, <2>0, Least
  <2>2. x # 0 /\ x \in 0 .. Seats(k) - 1
    BY <1>3, <2>1
  <2>3. x \in 1 .. Seats(k) - 1 /\ x - 1 \in 0 .. Seats(k) - 1 /\ ~(x <= x - 1)
    BY <1>1, <2>2
  <2>4. w[x - 1] = Seating(k, x - 1)
    BY <2>1, <2>3
  <2> QED
    BY <1>4, <2>1, <2>3, <2>4
<1> QED
  BY <1>5

(* Round r + 1 is what the closed form says. *)
LEMMA RoundsAre ==
  ASSUME NEW k \in Nat, k >= 2
  PROVE  Rounds(k) = [r \in 1 .. Seats(k) - 1 |-> PairsOf(k, Seating(k, r - 1))]
<1>1. Seats(k) \in Nat /\ Seats(k) >= 2
  BY SeatsAreEven
<1> DEFINE g == [r \in 0 .. Seats(k) - 1 |-> Seating(k, r)]
<1>2. Rotates(k, g)
  <2>1. StartSeating(k) = Seating(k, 0)
    BY <1>1 DEF StartSeating, Seating, SeatAt
  <2>2. ASSUME NEW r \in 0 .. Seats(k) - 1
        PROVE  Seating(k, r) = IF r = 0 THEN StartSeating(k) ELSE Rotate(k, g[r - 1])
    <3>1. CASE r = 0
      BY <2>1, <3>1
    <3>2. CASE r # 0
      <4>1. r - 1 \in Nat /\ r - 1 < Seats(k) - 1 /\ (r - 1) + 1 = r
        BY <1>1, <3>2
      <4>2. g[r - 1] = Seating(k, r - 1)
        BY <1>1, <4>1
      <4> HIDE DEF g
      <4> QED
        BY <3>2, <4>1, <4>2, RotateSeating
    <3> QED
      BY <3>1, <3>2
  <2> QED
    BY <2>2 DEF Rotates
<1> DEFINE w == CHOOSE t : Rotates(k, t)
<1>3. Rotates(k, w)
  <2> HIDE DEF g
  <2> QED
    BY <1>2
<1>4. SeatingOf(k) = w
  BY DEF SeatingOf, Rotates
<1> HIDE DEF w, g
<1>5. \A r \in 0 .. Seats(k) - 1 : SeatingOf(k)[r] = Seating(k, r)
  BY <1>3, <1>4, ClosedForm
<1>6. Rounds(k) = [r \in 1 .. Seats(k) - 1 |-> PairsOf(k, SeatingOf(k)[r - 1])]
  BY DEF Rounds
<1>7. \A r \in 1 .. Seats(k) - 1 : r - 1 \in 0 .. Seats(k) - 1
  BY <1>1
<1>8. \A r \in 1 .. Seats(k) - 1 : SeatingOf(k)[r - 1] = Seating(k, r - 1)
  BY <1>5, <1>7
<1> QED
  BY <1>6, <1>8

(* roundRobinSchedule as a whole, for any number of nodes: the rounds are  *)
(* sets of pairs of nodes, the pairs of a round share no node, no pair is  *)
(* in two rounds, and all pairs are in some round (runner.go:216-255).     *)
THEOREM Tournament ==
  ASSUME NEW k \in Nat
  PROVE  LET s == Rounds(k)
             all == {p \in [server : 1 .. k, client : 1 .. k] : p.server < p.client}
         IN  /\ \E l \in Nat : DOMAIN s = 1 .. l
             /\ \A r \in DOMAIN s : s[r] \subseteq all
             /\ \A r \in DOMAIN s : \A p, q \in s[r] :
                  p # q => {p.server, p.client} \cap {q.server, q.client} = {}
             /\ \A r, t \in DOMAIN s : r # t => s[r] \cap s[t] = {}
             /\ \A p \in all : \E r \in DOMAIN s : p \in s[r]
<1> DEFINE s == Rounds(k)
           all == {p \in [server : 1 .. k, client : 1 .. k] : p.server < p.client}
<1>1. CASE k < 2
  <2>1. s = <<>> /\ DOMAIN s = {} /\ DOMAIN s = 1 .. 0
    BY <1>1 DEF Rounds
  <2>2. all = {}
    BY <1>1
  <2> HIDE DEF s, all
  <2>3. 0 \in Nat
    OBVIOUS
  <2> QED
    BY <2>1, <2>2, <2>3 DEF s, all
<1>2. CASE k >= 2
  <2>1. Seats(k) \in Nat /\ Seats(k) - 1 \in Nat
    BY <1>2, SeatsAreEven
  <2>2. DOMAIN s = 1 .. Seats(k) - 1
    BY <1>2, RoundsAre
  <2>3. ASSUME NEW r \in DOMAIN s
        PROVE  /\ r - 1 \in Nat /\ r - 1 < Seats(k) - 1 /\ r - 1 < Seats(k)
               /\ s[r] = PairsOf(k, Seating(k, r - 1))
    BY <1>2, <2>1, <2>2, RoundsAre
  <2> HIDE DEF s
  <2>4. \A r \in DOMAIN s : s[r] \subseteq all
    BY <2>3, RoundIsTyped
  <2>5. \A r \in DOMAIN s : \A p, q \in s[r] :
          p # q => {p.server, p.client} \cap {q.server, q.client} = {}
    BY <2>3, PairsOfARoundAreDisjoint
  <2>6. ASSUME NEW r \in DOMAIN s, NEW t \in DOMAIN s, r # t
        PROVE  s[r] \cap s[t] = {}
    <3>1. \A p \in s[r] : p \in s[t] => r - 1 = t - 1
      BY <2>3, NoSecondMeeting
    <3> QED
      BY <2>2, <2>6, <3>1
  <2>7. ASSUME NEW p \in all
        PROVE  \E r \in DOMAIN s : p \in s[r]
    <3>1. /\ p = [server |-> p.server, client |-> p.client]
          /\ p.server \in 1 .. k /\ p.client \in 1 .. k /\ p.server < p.client
      OBVIOUS
    <3>2. PICK r \in 0 .. Seats(k) - 2 : p \in PairsOf(k, Seating(k, r))
      BY <3>1, AllPairsMeet
    <3>3. r + 1 \in DOMAIN s /\ (r + 1) - 1 = r
      BY <2>1, <2>2
    <3> QED
      BY <2>3, <3>2, <3>3
  <2> HIDE DEF all
  <2> QED
    BY <2>1, <2>2, <2>4, <2>5, <2>6, <2>7 DEF s, all
<1> QED
  BY <1>1, <1>2

(* The loop returns that function of the number of nodes, which is what    *)
(* the other modules take for roundRobinSchedule.                          *)
THEOREM LoopReturnsRounds == Spec => [](~More => rounds = Rounds(n))
<1>1. SeatingInv => (~More => rounds = Rounds(n))
  <2> SUFFICES ASSUME SeatingInv, ~More PROVE rounds = Rounds(n)
    OBVIOUS
  <2>1. n \in Nat /\ Seats(n) \in Nat /\ Len(rounds) \in Nat
    BY MaxNodesAssumption, SeatsAreEven DEF SeatingInv
  <2>2. CASE n < 2
    BY <2>1, <2>2 DEF SeatingInv, Rounds
  <2>3. CASE n >= 2
    <3>1. Len(rounds) = Seats(n) - 1
      BY <2>1, <2>3 DEF SeatingInv, More
    <3>2. rounds = [r \in 1 .. Seats(n) - 1 |-> rounds[r]]
      BY <3>1 DEF SeatingInv
    <3>3. \A r \in 1 .. Seats(n) - 1 : rounds[r] = PairsOf(n, Seating(n, r - 1))
      BY <3>1 DEF SeatingInv
    <3>4. Rounds(n) = [r \in 1 .. Seats(n) - 1 |-> PairsOf(n, Seating(n, r - 1))]
      BY <2>1, <2>3, RoundsAre
    <3> QED
      BY <3>2, <3>3, <3>4
  <2> QED
    BY <2>1, <2>2, <2>3
<1> QED
  BY <1>1, SeatingInvariance, PTL

=============================================================================
