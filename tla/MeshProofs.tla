----------------------------- MODULE MeshProofs -----------------------------
(***************************************************************************)
(* Proofs about the connectivity mesh, for every set of nodes, every       *)
(* topology and every number of attempts: the rounds fit the job map, a    *)
(* pass outweighs failed attempts, and each NIC pair is counted once.      *)
(***************************************************************************)
EXTENDS Mesh, FiniteSetTheorems, TLAPS

Typed ==
  /\ topo \in Topologies
  /\ schedule \in Seq(SUBSET Tasks)
  /\ round \in 1 .. Len(schedule) + 1
  /\ cancelled \in BOOLEAN
  /\ phase \in {"testing", "tested", "classified", "done"}
  /\ stored.present \in BOOLEAN

(* Only pairs with a job are tried, MaxAttempts times at most. *)
Tried ==
  /\ DOMAIN attempts = Tasks
  /\ \A t \in Tasks : /\ attempts[t] \in Seq(AttemptsOf(t))
                      /\ Len(attempts[t]) <= MaxAttempts
                      /\ attempts[t] # <<>> => t \in Testable
  /\ \A r \in DOMAIN schedule : schedule[r] \subseteq Testable

(* The report is made of the attempts, of which there are no more then. *)
Reporting ==
  Classified => /\ report.failures = Failures
                /\ report.rail = Count(TRUE)
                /\ report.xrail = Count(FALSE)

Inv == Typed /\ Tried /\ Reporting

-----------------------------------------------------------------------------
(* What an attempt probes is everything or nothing. *)
LEMMA AttemptFacts ==
  ASSUME NEW t, NEW a \in AttemptsOf(t)
  PROVE  /\ a.probed \in {{}, NicPairs(t)}
         /\ a.passed \subseteq a.probed
         /\ OutcomeOf(a) \in {"PASS", "FAIL", "ERROR"}
         /\ OutcomeOf(a) = "PASS" => a.probed = NicPairs(t) /\ a.passed = NicPairs(t)
<1>1. a.probed \in {{}, NicPairs(t)} /\ a.passed \subseteq a.probed
  BY DEF AttemptsOf, NoDetails
<1>2. OutcomeOf(a) = "PASS" => a.probed # {} /\ a.passed = a.probed
  BY DEF OutcomeOf
<1>3. OutcomeOf(a) \in {"PASS", "FAIL", "ERROR"}
  BY DEF OutcomeOf
<1> QED
  BY <1>1, <1>2, <1>3

(* What RoundRobinProofs shows of roundRobinSchedule. *)
RRP == INSTANCE RoundRobinProofs WITH MaxNodes <- 0, n <- 0, working <- <<>>, rounds <- <<>>

(* It is the same function here. *)
LEMMA SameRounds ==
  ASSUME NEW k
  PROVE  RR!Rounds(k) = RRP!Rounds(k)
<1>1. \A l : RR!Seats(l) = RRP!Seats(l) /\ RR!Bye(l) = RRP!Bye(l)
  BY DEF RR!Seats, RRP!Seats, RR!Bye, RRP!Bye
<1>2. \A a, b : RR!NodePair(a, b) = RRP!NodePair(a, b)
  BY DEF RR!NodePair, RRP!NodePair
<1>3. \A l, w : RR!PairsOf(l, w) = RRP!PairsOf(l, w)
  BY <1>1, <1>2 DEF RR!PairsOf, RRP!PairsOf
<1>4. \A l, w : RR!Rotate(l, w) = RRP!Rotate(l, w)
  BY <1>1 DEF RR!Rotate, RRP!Rotate
<1>5. \A l : RR!StartSeating(l) = RRP!StartSeating(l)
  BY <1>1 DEF RR!StartSeating, RRP!StartSeating
<1>6. \A l : RR!SeatingOf(l) = RRP!SeatingOf(l)
  BY <1>1, <1>4, <1>5 DEF RR!SeatingOf, RRP!SeatingOf
<1> QED
  BY <1>1, <1>3, <1>6 DEF RR!Rounds, RRP!Rounds

(* Positions in a sorted list are numbers from 1 on, in the order of the   *)
(* elements.                                                               *)
PlaceIn(S, n) == Cardinality({o \in S : o <= n})

LEMMA PlaceFacts ==
  ASSUME NEW S \in SUBSET Int, IsFiniteSet(S)
  PROVE  /\ Cardinality(S) \in Nat
         /\ \A a \in S : PlaceIn(S, a) \in 1 .. Cardinality(S)
         /\ \A a, b \in S : a < b => PlaceIn(S, a) < PlaceIn(S, b)
<1> DEFINE UpTo(n) == {o \in S : o <= n}
<1>1. Cardinality(S) \in Nat
  BY FS_CardinalityType
<1>2. ASSUME NEW n
      PROVE  /\ IsFiniteSet(UpTo(n)) /\ Cardinality(UpTo(n)) \in Nat
             /\ Cardinality(UpTo(n)) <= Cardinality(S)
  <2>1. UpTo(n) \in SUBSET S
    OBVIOUS
  <2> HIDE DEF UpTo
  <2> QED
    BY <2>1, FS_Subset, FS_CardinalityType
<1>3. ASSUME NEW a \in S
      PROVE  Cardinality(UpTo(a)) # 0
  <2>1. a \in UpTo(a)
    OBVIOUS
  <2> HIDE DEF UpTo
  <2> QED
    BY <1>2, <2>1, FS_EmptySet
<1>4. ASSUME NEW a \in S, NEW b \in S, a < b
      PROVE  Cardinality(UpTo(a)) < Cardinality(UpTo(b))
  <2>1. UpTo(a) \in SUBSET UpTo(b) /\ b \in UpTo(b) /\ b \notin UpTo(a)
    <3>1. a \in Int /\ b \in Int /\ \A o \in S : o \in Int
      OBVIOUS
    <3>2. \A o \in S : o <= a => o <= b
      BY <1>4, <3>1
    <3>3. b <= b /\ ~(b <= a)
      BY <1>4, <3>1
    <3> QED
      BY <3>2, <3>3
  <2> HIDE DEF UpTo
  <2>2. Cardinality(UpTo(a)) <= Cardinality(UpTo(b))
        /\ Cardinality(UpTo(a)) # Cardinality(UpTo(b))
    BY <1>2, <2>1, FS_Subset
  <2> QED
    BY <1>2, <2>2
<1>5. \A n : PlaceIn(S, n) = Cardinality(UpTo(n))
  BY DEF PlaceIn
<1> HIDE DEF UpTo
<1>6. \A a \in S : Cardinality(UpTo(a)) \in 1 .. Cardinality(S)
  BY <1>1, <1>2, <1>3
<1> QED
  BY <1>1, <1>4, <1>5, <1>6

(* What RunPairwise asks of its rounds (Pairwise, ScheduleAssumption): the *)
(* pairs of a round share no node, and no pair is in two rounds.           *)
Fits(rounds) ==
  /\ rounds \in Seq(SUBSET Tasks)
  /\ \A r \in DOMAIN rounds : \A t, u \in rounds[r] :
       t # u => {t[1], t[2]} \cap {u[1], u[2]} = {}
  /\ \A r, q \in DOMAIN rounds : r # q => rounds[r] \cap rounds[q] = {}

(* The rounds made of a job map have exactly the pairs of the map.         *)
LEMMA ScheduleFacts ==
  ASSUME topo \in Topologies, NEW jobs \in JobMaps
  PROVE  Fits(ScheduleOf(jobs)) /\ UNION Range(ScheduleOf(jobs)) = jobs
<1> DEFINE used == UNION {{t[1], t[2]} : t \in jobs}
           k == Cardinality(used)
           rounds == RR!Rounds(k)
           all == {p \in [server : 1 .. k, client : 1 .. k] : p.server < p.client}
           seats(t) == [server |-> PlaceIn(used, t[1]), client |-> PlaceIn(used, t[2])]
           s == ScheduleOf(jobs)
<1>1. jobs \subseteq Tasks
  BY DEF JobMaps, Testable
<1>2. \A t \in jobs : t = <<t[1], t[2]>> /\ t[1] \in used /\ t[2] \in used /\ t[1] < t[2]
  BY <1>1 DEF Tasks
<1>3. used \in SUBSET Int /\ IsFiniteSet(used)
  <2>1. used \in SUBSET Nodes
    BY <1>1 DEF Tasks
  <2> HIDE DEF used
  <2> QED
    BY <2>1, MeshAssumption, FS_Subset
<1>4. s = [r \in DOMAIN rounds |-> {t \in jobs : seats(t) \in rounds[r]}]
  BY DEF ScheduleOf, PlaceIn
<1> HIDE DEF used
<1>5. /\ k \in Nat
      /\ \A a \in used : PlaceIn(used, a) \in 1 .. k
      /\ \A a, b \in used : a < b => PlaceIn(used, a) < PlaceIn(used, b)
  BY <1>3, PlaceFacts
<1>6. ASSUME NEW a \in used, NEW b \in used, PlaceIn(used, a) = PlaceIn(used, b)
      PROVE  a = b
  <2>1. a \in Int /\ b \in Int /\ PlaceIn(used, a) \in Int /\ PlaceIn(used, b) \in Int
    BY <1>3, <1>5
  <2>2. ~(a < b) /\ ~(b < a)
    BY <1>5, <1>6, <2>1
  <2> QED
    BY <2>1, <2>2
<1>7. \A t \in jobs : seats(t) \in all
  BY <1>2, <1>5
<1>8. /\ \E l \in Nat : DOMAIN rounds = 1 .. l
      /\ \A r \in DOMAIN rounds : \A p, q \in rounds[r] :
           p # q => {p.server, p.client} \cap {q.server, q.client} = {}
      /\ \A r, t \in DOMAIN rounds : r # t => rounds[r] \cap rounds[t] = {}
      /\ \A p \in all : \E r \in DOMAIN rounds : p \in rounds[r]
  <2>1. rounds = RRP!Rounds(k)
    BY SameRounds
  <2>2. 0 \in Nat
    OBVIOUS
  <2> HIDE DEF k, rounds
  <2> QED
    BY <1>5, <2>1, <2>2, RRP!Tournament
<1> HIDE DEF k, rounds, all, s
<1>9. /\ DOMAIN s = DOMAIN rounds
      /\ \A r \in DOMAIN rounds : s[r] = {t \in jobs : seats(t) \in rounds[r]}
  BY <1>4
<1>10. s \in Seq(SUBSET Tasks)
  <2>1. PICK l \in Nat : DOMAIN rounds = 1 .. l
    BY <1>8
  <2>2. s \in [1 .. l -> SUBSET Tasks]
    <3>1. s = [r \in 1 .. l |-> {t \in jobs : seats(t) \in rounds[r]}]
      BY <1>4, <2>1
    <3>2. \A r \in 1 .. l : {t \in jobs : seats(t) \in rounds[r]} \in SUBSET Tasks
      BY <1>1
    <3> HIDE DEF seats
    <3> QED
      BY <3>1, <3>2
  <2> QED
    BY <2>1, <2>2
<1>11. ASSUME NEW r \in DOMAIN s, NEW t \in s[r], NEW u \in s[r], t # u
       PROVE  {t[1], t[2]} \cap {u[1], u[2]} = {}
  <2>1. t \in jobs /\ u \in jobs /\ seats(t) \in rounds[r] /\ seats(u) \in rounds[r]
    BY <1>9
  <2>2. seats(t) # seats(u)
    <3>1. seats(t) = seats(u) => PlaceIn(used, t[1]) = PlaceIn(used, u[1])
                                 /\ PlaceIn(used, t[2]) = PlaceIn(used, u[2])
      OBVIOUS
    <3> QED
      BY <1>2, <1>6, <1>11, <2>1, <3>1
  <2>3. {seats(t).server, seats(t).client} \cap {seats(u).server, seats(u).client} = {}
    <3> HIDE DEF seats
    <3> QED
      BY <1>8, <1>9, <2>1, <2>2
  <2>4. \A x \in {t[1], t[2]} : \A y \in {u[1], u[2]} : PlaceIn(used, x) # PlaceIn(used, y)
    BY <2>3
  <2> QED
    BY <2>4
<1>12. ASSUME NEW r \in DOMAIN s, NEW q \in DOMAIN s, r # q
       PROVE  s[r] \cap s[q] = {}
  <2> HIDE DEF seats
  <2> QED
    BY <1>8, <1>9, <1>12
<1>13. UNION Range(s) = jobs
  <2>1. \A t \in jobs : \E r \in DOMAIN s : t \in s[r]
    <3> HIDE DEF seats
    <3> QED
      BY <1>7, <1>8, <1>9
  <2>2. \A r \in DOMAIN s : s[r] \subseteq jobs
    BY <1>9
  <2>3. Range(s) = {s[r] : r \in DOMAIN s}
    BY DEF Range
  <2> QED
    BY <2>1, <2>2, <2>3
<1> QED
  BY <1>10, <1>11, <1>12, <1>13 DEF Fits, s

(* The schedule of a job map is one of pairs that have a job. *)
LEMMA ScheduleTyped ==
  ASSUME topo \in Topologies, NEW jobs \in JobMaps
  PROVE  /\ ScheduleOf(jobs) \in Seq(SUBSET Tasks)
         /\ \A r \in DOMAIN ScheduleOf(jobs) : ScheduleOf(jobs)[r] \subseteq Testable
<1>1. jobs \subseteq Testable
  BY DEF JobMaps
<1>2. \A r \in DOMAIN ScheduleOf(jobs) : ScheduleOf(jobs)[r] \subseteq UNION Range(ScheduleOf(jobs))
  BY DEF Range
<1> QED
  BY <1>1, <1>2, ScheduleFacts DEF Fits

(* The outcomes of the attempts of a pair, and when it is not tried again. *)
LEMMA OutcomeFacts ==
  ASSUME Tried, NEW t \in Tasks
  PROVE  /\ OutcomesOf(t) \in Seq(Tester!Outcomes)
         /\ Len(OutcomesOf(t)) = Len(attempts[t])
         /\ Tester!Passed(t) <=>
              attempts[t] # <<>> /\ OutcomeOf(attempts[t][Len(attempts[t])]) = "PASS"
         /\ Tester!Settled(t) <=> Tester!Passed(t) \/ Len(attempts[t]) = MaxAttempts
<1> DEFINE s == attempts[t]
<1>1. s \in Seq(AttemptsOf(t))
  BY DEF Tried
<1>2. \A i \in DOMAIN s : OutcomeOf(s[i]) \in {"PASS", "FAIL", "ERROR"}
  BY <1>1, AttemptFacts
<1>3. OutcomesOf(t) = [i \in DOMAIN s |-> OutcomeOf(s[i])]
  BY DEF OutcomesOf
<1> HIDE DEF s
<1>4. Len(s) \in Nat /\ DOMAIN s = 1 .. Len(s)
  BY <1>1
<1>5. OutcomesOf(t) \in Seq(Tester!Outcomes) /\ Len(OutcomesOf(t)) = Len(s)
  BY <1>2, <1>3, <1>4 DEF Tester!Outcomes
<1>6. s # <<>> <=> Len(s) # 0
  BY <1>1
<1>7. OutcomesOf(t) # <<>> <=> Len(s) # 0
  BY <1>5
<1>8. Tester!Passed(t) <=> OutcomesOf(t) # <<>> /\ OutcomesOf(t)[Len(OutcomesOf(t))] = "PASS"
  BY DEF Tester!Passed, AllOutcomes
<1>9. Tester!Passed(t) <=> s # <<>> /\ OutcomeOf(s[Len(s)]) = "PASS"
  BY <1>3, <1>4, <1>5, <1>6, <1>7, <1>8
<1>10. Tester!Settled(t) <=> Tester!Passed(t) \/ Len(s) = MaxAttempts
  BY <1>5 DEF Tester!Settled, AllOutcomes
<1> QED
  BY <1>5, <1>9, <1>10 DEF s

(* Once a pair has passed, each of its NIC pairs has; and what never       *)
(* passed has failed in every attempt that probed.                         *)
LEMMA FailuresFacts ==
  ASSUME Typed, Tried, NEW f \in Failures
  PROVE  /\ ~Tester!Passed(f.pair)
         /\ \A i \in Probes(f.pair) : f.nics \notin attempts[f.pair][i].passed
         /\ f.attempt = Max(Probes(f.pair))
<1>1. PICK t \in Jobs : \E nics \in Seen(t) :
        /\ ~Best(t, nics)
        /\ f = [pair |-> t, nics |-> nics, rail |-> IsRail(t, nics),
                attempt |-> LastFailed(t, nics)]
  BY DEF Failures
<1>2. PICK nics \in Seen(t) :
        /\ ~Best(t, nics)
        /\ f = [pair |-> t, nics |-> nics, rail |-> IsRail(t, nics),
                attempt |-> LastFailed(t, nics)]
  BY <1>1
<1>3. t \in Tasks
  BY DEF Jobs, Typed, Range
<1>4. \A i \in DOMAIN attempts[t] : attempts[t][i] \in AttemptsOf(t)
  BY <1>3 DEF Tried
<1>5. \A i \in Probes(t) : attempts[t][i].probed = NicPairs(t)
  BY <1>4, AttemptFacts DEF Probes
<1>6. nics \in NicPairs(t)
  BY <1>2, <1>5 DEF Seen
<1>7. \A i \in Probes(t) : nics \notin attempts[t][i].passed
  BY <1>2 DEF Best
<1>8. {i \in Probes(t) : nics \in attempts[t][i].probed \ attempts[t][i].passed} = Probes(t)
  BY <1>5, <1>6, <1>7
<1>9. f.attempt = Max(Probes(t))
  BY <1>2, <1>8 DEF LastFailed
<1>10. ~Tester!Passed(t)
  <2> SUFFICES ASSUME Tester!Passed(t) PROVE FALSE
    OBVIOUS
  <2> DEFINE last == Len(attempts[t])
  <2>1. attempts[t] # <<>> /\ OutcomeOf(attempts[t][last]) = "PASS"
    BY <1>3, OutcomeFacts
  <2>2. last \in DOMAIN attempts[t]
    BY <1>3, <2>1 DEF Tried
  <2>3. attempts[t][last].probed = NicPairs(t) /\ attempts[t][last].passed = NicPairs(t)
    BY <1>4, <2>1, <2>2, AttemptFacts
  <2>4. last \in Probes(t)
    BY <1>6, <2>2, <2>3 DEF Probes
  <2> QED
    BY <1>6, <1>7, <2>3, <2>4
<1> QED
  BY <1>2, <1>7, <1>9, <1>10

-----------------------------------------------------------------------------
(* Sizes and sums. *)

(* Among subsets of a finite set one is least. *)
LEMMA LeastSubset ==
  ASSUME NEW S, IsFiniteSet(S), NEW B, B \subseteq SUBSET S, B # {}
  PROVE  \E M \in B : \A U \in B : U \subseteq M => U = M
<1> DEFINE R == {p \in (SUBSET S) \X (SUBSET S) : p[1] \subseteq p[2] /\ p[1] # p[2]}
<1>1. FiniteSubsetsOf(S) = SUBSET S
  BY FS_FiniteSubsetsOfFinite
<1>2. IsWellFoundedOn(R, SUBSET S)
  BY <1>1, FS_StrictSubsetOrderingWellFounded DEF StrictSubsetOrdering
<1>3. PICK M \in B : \A U \in B : ~(<<U, M>> \in R)
  <2> HIDE DEF R
  <2> QED
    BY <1>2, WFMin
<1>4. \A U \in B : U \subseteq M => U = M
  BY <1>3
<1> QED
  BY <1>4

(* A nonempty finite set of integers has a greatest element. *)
LEMMA MaxFacts ==
  ASSUME NEW S \in SUBSET Int, IsFiniteSet(S), S # {}
  PROVE  Max(S) \in S /\ \A y \in S : Max(S) >= y
<1> DEFINE B == {U \in SUBSET S : U # {} /\ \A x \in S : \E y \in U : x <= y}
<1>1. S \in B
  OBVIOUS
<1>2. PICK M \in B : \A U \in B : U \subseteq M => U = M
  <2>1. B \subseteq SUBSET S
    OBVIOUS
  <2> HIDE DEF B
  <2>2. B # {}
    BY <1>1
  <2>3. ASSUME NEW A, IsFiniteSet(A), B \subseteq SUBSET A
        PROVE  \E M \in B : \A U \in B : U \subseteq M => U = M
    BY <2>2, <2>3, LeastSubset
  <2> QED
    BY <2>1, <2>3
<1>3. PICK a \in M : TRUE
  OBVIOUS
<1>4. ASSUME NEW b \in M, NEW c \in M, b < c PROVE FALSE
  <2>1. \A x \in S : \E y \in M \ {b} : x <= y
    <3> TAKE x \in S
    <3>1. PICK y \in M : x <= y
      OBVIOUS
    <3>2. CASE y = b
      <4>1. x <= c /\ c \in M \ {b}
        BY <1>4, <3>1, <3>2
      <4> QED
        BY <4>1
    <3> QED
      BY <3>1, <3>2
  <2>2. M \ {b} \in B
    BY <1>4, <2>1
  <2> QED
    BY <1>2, <2>2
<1>5. \A y \in M : y = a
  BY <1>3, <1>4
<1>6. a \in S /\ \A y \in S : a >= y
  BY <1>3, <1>5
<1>7. \E x \in S : \A y \in S : x >= y
  BY <1>6
<1> QED
  BY <1>7 DEF Max

(* Sets of the same size. *)
LEMMA SameSize ==
  ASSUME NEW S, IsFiniteSet(S), NEW T, NEW f \in [S -> T],
         \A x, y \in S : f[x] = f[y] => x = y,
         \A z \in T : \E x \in S : f[x] = z
  PROVE  IsFiniteSet(T) /\ Cardinality(T) = Cardinality(S)
<1>1. f \in Bijection(S, T)
  BY DEF Bijection, Injection, Surjection, IsInjective
<1>2. ExistsBijection(S, T)
  BY <1>1 DEF ExistsBijection
<1> QED
  BY <1>2, FS_Bijection

(* Two sets that do not meet. *)
LEMMA SizeOfTwo ==
  ASSUME NEW S, IsFiniteSet(S), NEW T, IsFiniteSet(T), S \cap T = {}
  PROVE  Cardinality(S \cup T) = Cardinality(S) + Cardinality(T)
<1>1. Cardinality(S \cap T) = 0
  BY FS_EmptySet
<1>2. Cardinality(S) \in Nat /\ Cardinality(T) \in Nat
  BY FS_CardinalityType
<1>3. Cardinality(S \cup T) = Cardinality(S) + Cardinality(T) - Cardinality(S \cap T)
  BY FS_Union
<1> QED
  BY <1>1, <1>2, <1>3

(* Finite sets that do not meet. *)
Apart(X, T) ==
  /\ IsFiniteSet(T)
  /\ \A t \in T : IsFiniteSet(X[t])
  /\ \A s, t \in T : s # t => X[s] \cap X[t] = {}

SizeOf(X, s) == Cardinality(UNION {X[t] : t \in s})

(* One set more. *)
LEMMA OneMore ==
  ASSUME NEW T, NEW X, Apart(X, T), NEW s \in SUBSET T, NEW x \in s
  PROVE  SizeOf(X, s) = Cardinality(X[x]) + SizeOf(X, s \ {x}) /\ SizeOf(X, s) \in Nat
<1> DEFINE rest == UNION {X[t] : t \in s \ {x}}
<1>1. UNION {X[t] : t \in s} = X[x] \cup rest /\ X[x] \cap rest = {}
  BY DEF Apart
<1>2. IsFiniteSet(X[x]) /\ IsFiniteSet(s \ {x})
  BY FS_Subset DEF Apart
<1>3. IsFiniteSet(rest)
  <2>1. IsFiniteSet({X[t] : t \in s \ {x}})
    <3> DEFINE P == {X[t] : t \in s \ {x}}
               f == [t \in s \ {x} |-> X[t]]
    <3>1. f \in Surjection(s \ {x}, P)
      BY DEF Surjection
    <3> HIDE DEF P, f
    <3>2. IsFiniteSet(P)
      BY <1>2, <3>1, FS_Surjection
    <3> QED
      BY <3>2 DEF P
  <2>2. \A P \in {X[t] : t \in s \ {x}} : IsFiniteSet(P)
    BY DEF Apart
  <2> QED
    BY <2>1, <2>2, FS_UNION
<1> HIDE DEF rest
<1>4. Cardinality(X[x]) \in Nat /\ Cardinality(rest) \in Nat
  BY <1>2, <1>3, FS_CardinalityType
<1>5. Cardinality(X[x] \cup rest) = Cardinality(X[x]) + Cardinality(rest)
  BY <1>1, <1>2, <1>3, SizeOfTwo
<1>6. SizeOf(X, s) = Cardinality(X[x] \cup rest) /\ SizeOf(X, s \ {x}) = Cardinality(rest)
  BY <1>1, Zenon DEF SizeOf, rest
<1> QED
  BY <1>4, <1>5, <1>6

(* The recursion of MapThenSumSet. *)
Adds(f, T, size) ==
  f = [s \in SUBSET T |->
         IF s = {} THEN 0
         ELSE size[CHOOSE x \in s : TRUE] + f[s \ {CHOOSE x \in s : TRUE}]]

(* Summing the sizes of finite sets that do not meet gives the size of     *)
(* their union.                                                            *)
LEMMA SumIsSize ==
  ASSUME NEW T, NEW X, Apart(X, T), NEW size, \A t \in T : size[t] = Cardinality(X[t])
  PROVE  /\ \E f : Adds(f, T, size)
         /\ \A f : Adds(f, T, size) => f[T] = SizeOf(X, T)
<1>0. SizeOf(X, {}) = 0
  BY FS_EmptySet DEF SizeOf
<1>1. \E f : Adds(f, T, size)
  <2> DEFINE g == [s \in SUBSET T |-> SizeOf(X, s)]
             G(s) == IF s = {} THEN 0
                     ELSE size[CHOOSE x \in s : TRUE] + g[s \ {CHOOSE x \in s : TRUE}]
  <2>1. ASSUME NEW s \in SUBSET T PROVE SizeOf(X, s) = G(s)
    <3>1. CASE s = {}
      BY <1>0, <3>1
    <3>2. CASE s # {}
      <4> DEFINE x == CHOOSE x \in s : TRUE
      <4>1. x \in s
        BY <3>2
      <4> HIDE DEF x
      <4>2. s \ {x} \in SUBSET T /\ x \in T
        BY <4>1
      <4>3. SizeOf(X, s) = Cardinality(X[x]) + SizeOf(X, s \ {x})
        BY <4>1, OneMore
      <4>4. SizeOf(X, s) = size[x] + g[s \ {x}]
        BY <4>2, <4>3
      <4> QED
        BY <3>2, <4>4 DEF x
    <3> QED
      BY <3>1, <3>2
  <2>2. g = [s \in SUBSET T |-> G(s)]
    BY <2>1
  <2>3. Adds(g, T, size)
    BY <2>2 DEF Adds
  <2> QED
    BY <2>3
<1>2. ASSUME NEW f, Adds(f, T, size) PROVE f[T] = SizeOf(X, T)
  <2> DEFINE B == {s \in SUBSET T : f[s] # SizeOf(X, s)}
  <2> SUFFICES ASSUME B # {} PROVE FALSE
    OBVIOUS
  <2>1. PICK s \in B : \A u \in B : u \subseteq s => u = s
    <3>1. B \in SUBSET SUBSET T /\ IsFiniteSet(T)
      BY DEF Apart
    <3> HIDE DEF B
    <3> QED
      BY <3>1, LeastSubset
  <2>2. s \in SUBSET T /\ f[s] # SizeOf(X, s)
    OBVIOUS
  <2> DEFINE x == CHOOSE x \in s : TRUE
  <2>3. f[s] = IF s = {} THEN 0 ELSE size[x] + f[s \ {x}]
    BY <1>2, <2>2 DEF Adds
  <2>4. s # {}
    BY <1>0, <2>2, <2>3
  <2>5. x \in s
    BY <2>4
  <2> HIDE DEF x
  <2>6. f[s \ {x}] = SizeOf(X, s \ {x})
    BY <2>1, <2>2, <2>5
  <2>7. size[x] = Cardinality(X[x])
    BY <2>2, <2>5
  <2>8. SizeOf(X, s) = Cardinality(X[x]) + SizeOf(X, s \ {x})
    BY <2>2, <2>5, OneMore
  <2> QED
    BY <2>2, <2>3, <2>4, <2>6, <2>7, <2>8
<1> QED
  BY <1>1, <1>2

-----------------------------------------------------------------------------
(* What the report counts. *)

(* The node pairs of which some attempt probed. *)
Tested == {t \in Jobs : Probes(t) # {}}

NicsOnRail(t, rail) == {nics \in NicPairs(t) : IsRail(t, nics) = rail}

(* The devices of a node with a topology, and their rails. *)
LEMMA DeviceFacts ==
  ASSUME Typed, NEW n \in DOMAIN topo
  PROVE  /\ IsFiniteSet(DevicesOf(n))
         /\ \A dev \in DevicesOf(n) : RailOf(n, dev) \in DOMAIN topo[n] /\ topo[n][RailOf(n, dev)] = dev
<1>1. topo[n] \in Seq(Devices) /\ IsFiniteSet(Devices)
  BY MeshAssumption DEF Typed
<1>2. DevicesOf(n) \subseteq Devices
  BY <1>1 DEF DevicesOf, Range
<1>3. IsFiniteSet(DevicesOf(n))
  BY <1>1, <1>2, FS_Subset
<1>4. ASSUME NEW dev \in DevicesOf(n)
      PROVE  RailOf(n, dev) \in DOMAIN topo[n] /\ topo[n][RailOf(n, dev)] = dev
  <2> DEFINE places == {i \in DOMAIN topo[n] : topo[n][i] = dev}
  <2>1. Len(topo[n]) \in Nat /\ DOMAIN topo[n] = 1 .. Len(topo[n])
    BY <1>1
  <2>2. IsFiniteSet(1 .. Len(topo[n]))
    BY <2>1, FS_Interval
  <2>3. IsFiniteSet(places)
    BY <2>1, <2>2, FS_Subset
  <2>4. places # {}
    BY <1>4 DEF DevicesOf, Range
  <2>5. places \in SUBSET Int
    BY <2>1
  <2>6. RailOf(n, dev) = Max(places)
    BY DEF RailOf
  <2>7. Max(places) \in places
    <3> HIDE DEF places
    <3> QED
      BY <2>3, <2>4, <2>5, MaxFacts
  <2> QED
    BY <2>6, <2>7
<1> QED
  BY <1>3, <1>4

(* The node pairs and NIC pairs of a tested pair. *)
LEMMA TestedFacts ==
  ASSUME Typed, Tried
  PROVE  /\ IsFiniteSet(Jobs) /\ IsFiniteSet(Tested)
         /\ \A t \in Jobs : t \in Tasks
         /\ \A t \in Tested : t[1] \in DOMAIN topo /\ t[2] \in DOMAIN topo
         /\ \A t \in Tested : Seen(t) = NicPairs(t)
         /\ \A t \in Jobs \ Tested : Seen(t) = {}
<1>1. \A t \in Jobs : t \in Tasks
  BY DEF Jobs, Typed, Range
<1>2. IsFiniteSet(Nodes \X Nodes)
  BY MeshAssumption, FS_Product
<1>3. IsFiniteSet(Jobs) /\ IsFiniteSet(Tested)
  <2>1. Jobs \subseteq Nodes \X Nodes /\ Tested \subseteq Nodes \X Nodes
    BY <1>1 DEF Tasks, Tested
  <2> QED
    BY <1>2, <2>1, FS_Subset
<1>4. ASSUME NEW t \in Tested
      PROVE  t[1] \in DOMAIN topo /\ t[2] \in DOMAIN topo
  <2>1. t \in Tasks /\ Probes(t) # {}
    BY <1>1 DEF Tested
  <2>2. attempts[t] # <<>>
    BY <2>1 DEF Probes
  <2>3. t \in Testable
    BY <2>1, <2>2 DEF Tried
  <2> QED
    BY <2>3 DEF Testable
<1>5. ASSUME NEW t \in Tested PROVE Seen(t) = NicPairs(t)
  <2>1. t \in Tasks /\ Probes(t) # {}
    BY <1>1 DEF Tested
  <2>2. \A i \in DOMAIN attempts[t] : attempts[t][i] \in AttemptsOf(t)
    BY <2>1 DEF Tried
  <2>3. \A i \in Probes(t) : attempts[t][i].probed = NicPairs(t)
    BY <2>2, AttemptFacts DEF Probes
  <2> QED
    BY <2>1, <2>3 DEF Seen
<1>6. ASSUME NEW t \in Jobs \ Tested PROVE Seen(t) = {}
  BY <1>6 DEF Tested, Seen
<1> QED
  BY <1>1, <1>3, <1>4, <1>5, <1>6

(* The NIC pairs of a node pair that are on the rail are as many as the    *)
(* rails both nodes have.                                                  *)
LEMMA RailPairs ==
  ASSUME Typed, Tried, NEW t \in Tested
  PROVE  /\ IsFiniteSet(NicPairs(t))
         /\ \A rail \in BOOLEAN : IsFiniteSet(NicsOnRail(t, rail))
         /\ Cardinality(NicsOnRail(t, TRUE)) = Cardinality(Rails(t[1]) \cap Rails(t[2]))
         /\ Cardinality(NicPairs(t)) = Cardinality(DevicesOf(t[1]) \X DevicesOf(t[2]))
<1> DEFINE server == t[1]
           client == t[2]
           D(n) == DevicesOf(n)
           R(n, dev) == RailOf(n, dev)
<1>1. server \in DOMAIN topo /\ client \in DOMAIN topo
  BY TestedFacts
<1>2. /\ IsFiniteSet(D(server)) /\ IsFiniteSet(D(client))
      /\ \A dev \in D(server) : topo[server][R(server, dev)] = dev
      /\ \A dev \in D(client) : topo[client][R(client, dev)] = dev
  BY <1>1, DeviceFacts
<1>3. NicPairs(t) = D(client) \X D(server)
  BY DEF NicPairs
<1>4. /\ \A nics : IsRail(t, nics) <=> R(client, nics[1]) = R(server, nics[2])
      /\ Rails(server) = {R(server, dev) : dev \in D(server)}
      /\ Rails(client) = {R(client, dev) : dev \in D(client)}
  BY DEF IsRail, Rails
<1> HIDE DEF D, R, server, client
<1>5. /\ IsFiniteSet(D(client) \X D(server))
      /\ Cardinality(D(client) \X D(server)) = Cardinality(D(client)) * Cardinality(D(server))
      /\ Cardinality(D(server) \X D(client)) = Cardinality(D(server)) * Cardinality(D(client))
  BY <1>2, FS_Product
<1>6. IsFiniteSet(NicPairs(t)) /\ Cardinality(NicPairs(t)) = Cardinality(D(server) \X D(client))
  <2>1. Cardinality(D(client)) \in Nat /\ Cardinality(D(server)) \in Nat
    BY <1>2, FS_CardinalityType
  <2>2. Cardinality(D(client)) * Cardinality(D(server))
          = Cardinality(D(server)) * Cardinality(D(client))
    BY <2>1
  <2> QED
    BY <1>3, <1>5, <2>2
<1>7. ASSUME NEW rail \in BOOLEAN PROVE IsFiniteSet(NicsOnRail(t, rail))
  <2>1. NicsOnRail(t, rail) \subseteq NicPairs(t)
    BY DEF NicsOnRail
  <2> QED
    BY <1>6, <2>1, FS_Subset
<1>8. Cardinality(NicsOnRail(t, TRUE)) = Cardinality(Rails(server) \cap Rails(client))
  <2> DEFINE S == NicsOnRail(t, TRUE)
             T == Rails(server) \cap Rails(client)
             f == [nics \in S |-> R(client, nics[1])]
  <2>1. \A nics \in S : /\ nics[1] \in D(client) /\ nics[2] \in D(server)
                        /\ nics = <<nics[1], nics[2]>>
                        /\ R(client, nics[1]) = R(server, nics[2])
    BY <1>3, <1>4 DEF NicsOnRail
  <2>2. f \in [S -> T]
    <3>1. \A nics \in S : R(client, nics[1]) \in T
      BY <1>4, <2>1
    <3> QED
      BY <3>1
  <2>3. ASSUME NEW x \in S, NEW y \in S, f[x] = f[y] PROVE x = y
    <3>1. R(client, x[1]) = R(client, y[1]) /\ R(server, x[2]) = R(server, y[2])
      BY <2>1, <2>3
    <3>2. x[1] = y[1] /\ x[2] = y[2]
      <4>1. topo[client][R(client, x[1])] = x[1] /\ topo[client][R(client, y[1])] = y[1]
        BY <1>2, <2>1
      <4>2. topo[server][R(server, x[2])] = x[2] /\ topo[server][R(server, y[2])] = y[2]
        BY <1>2, <2>1
      <4> QED
        BY <3>1, <4>1, <4>2
    <3> QED
      BY <2>1, <3>2
  <2>4. ASSUME NEW r \in T PROVE \E x \in S : f[x] = r
    <3>1. PICK dev \in D(client) : R(client, dev) = r
      BY <1>4
    <3>2. PICK dev2 \in D(server) : R(server, dev2) = r
      BY <1>4
    <3>3. <<dev, dev2>> \in S
      BY <1>3, <1>4, <3>1, <3>2 DEF NicsOnRail
    <3> QED
      BY <3>1, <3>3
  <2>5. IsFiniteSet(S)
    BY <1>7
  <2> HIDE DEF S, T, f
  <2>6. Cardinality(T) = Cardinality(S)
    BY <2>2, <2>3, <2>4, <2>5, SameSize
  <2> QED
    BY <2>6 DEF S, T
<1> QED
  BY <1>6, <1>7, <1>8 DEF D, server, client

(* What Count counts for one rail category, and how much of it passed. *)
Counted(rail) == {p \in UNION {{t} \X Seen(t) : t \in Jobs} : IsRail(p[1], p[2]) = rail}
Good(rail) == {p \in Counted(rail) : Best(p[1], p[2])}

OnRail(t) == Cardinality(Rails(t[1]) \cap Rails(t[2]))
InAll(t) == Cardinality(DevicesOf(t[1]) \X DevicesOf(t[2]))

(* Count gives the sizes of the two. *)
LEMMA CountIs ==
  ASSUME NEW rail
  PROVE  Count(rail).total = Cardinality(Counted(rail)) /\ Count(rail).passed = Cardinality(Good(rail))
BY DEF Count, Counted, Good

(* The NIC pairs counted are those of the tested pairs, by category. *)
LEMMA CountedParts ==
  ASSUME Typed, Tried
  PROVE  /\ \A rail \in BOOLEAN :
              Counted(rail) = UNION {{t} \X NicsOnRail(t, rail) : t \in Tested}
         /\ Counted(TRUE) \cup Counted(FALSE) = UNION {{t} \X NicPairs(t) : t \in Tested}
         /\ Counted(TRUE) \cap Counted(FALSE) = {}
<1>1. UNION {{t} \X Seen(t) : t \in Jobs} = UNION {{t} \X NicPairs(t) : t \in Tested}
  <2>1. \A t \in Tested : Seen(t) = NicPairs(t) /\ t \in Jobs
    BY TestedFacts DEF Tested
  <2>2. \A t \in Jobs \ Tested : Seen(t) = {}
    BY TestedFacts
  <2> QED
    BY <2>1, <2>2
<1>2. \A rail \in BOOLEAN :
         Counted(rail) = {p \in UNION {{t} \X NicPairs(t) : t \in Tested} : IsRail(p[1], p[2]) = rail}
  BY <1>1 DEF Counted
<1>3. ASSUME NEW rail \in BOOLEAN
      PROVE  Counted(rail) = UNION {{t} \X NicsOnRail(t, rail) : t \in Tested}
  BY <1>2 DEF NicsOnRail
<1>4. \A t, nics : IsRail(t, nics) \in BOOLEAN
  BY DEF IsRail
<1>5. /\ Counted(TRUE) \cup Counted(FALSE) = UNION {{t} \X NicPairs(t) : t \in Tested}
      /\ Counted(TRUE) \cap Counted(FALSE) = {}
  BY <1>2, <1>4
<1> QED
  BY <1>3, <1>5

(* NIC pairs that are kept apart by their node pairs. *)
LEMMA TaggedApart ==
  ASSUME Typed, Tried, NEW N, \A t \in Tested : IsFiniteSet(N[t])
  PROVE  LET X == [t \in Tested |-> {t} \X N[t]]
         IN  /\ Apart(X, Tested)
             /\ \A t \in Tested : Cardinality(X[t]) = Cardinality(N[t])
             /\ IsFiniteSet(UNION {X[t] : t \in Tested})
<1> DEFINE X == [t \in Tested |-> {t} \X N[t]]
<1>1. ASSUME NEW t \in Tested
      PROVE  IsFiniteSet(X[t]) /\ Cardinality(X[t]) = Cardinality(N[t])
  <2>1. IsFiniteSet({t}) /\ Cardinality({t}) = 1
    BY FS_Singleton
  <2>2. IsFiniteSet(N[t]) /\ Cardinality(N[t]) \in Nat
    BY FS_CardinalityType
  <2>3. IsFiniteSet({t} \X N[t]) /\ Cardinality({t} \X N[t]) = Cardinality({t}) * Cardinality(N[t])
    BY <2>1, <2>2, FS_Product
  <2> QED
    BY <2>1, <2>2, <2>3
<1>2. \A s, t \in Tested : s # t => X[s] \cap X[t] = {}
  OBVIOUS
<1>3. IsFiniteSet(Tested)
  BY TestedFacts
<1>4. IsFiniteSet({X[t] : t \in Tested})
  <2> DEFINE P == {X[t] : t \in Tested}
  <2>1. X \in Surjection(Tested, P)
    BY DEF Surjection
  <2> HIDE DEF P, X
  <2>2. IsFiniteSet(P)
    BY <1>3, <2>1, FS_Surjection
  <2> QED
    BY <2>2 DEF P
<1> HIDE DEF X
<1>5. IsFiniteSet(UNION {X[t] : t \in Tested})
  BY <1>1, <1>4, FS_UNION
<1>6. Apart(X, Tested)
  BY <1>1, <1>2, <1>3 DEF Apart
<1> QED
  BY <1>1, <1>5, <1>6 DEF X

(* The sums of CountedOnce are sizes of unions. *)
LEMMA SumOnRail ==
  ASSUME NEW T, NEW X, Apart(X, T), \A t \in T : OnRail(t) = Cardinality(X[t])
  PROVE  MapThenSumSet(LAMBDA t : Cardinality(Rails(t[1]) \cap Rails(t[2])), T) = SizeOf(X, T)
<1> DEFINE size == [t \in T |-> OnRail(t)]
           Sums(f) == f = [s \in SUBSET T |->
                             IF s = {} THEN 0
                             ELSE OnRail(CHOOSE x \in s : TRUE) + f[s \ {CHOOSE x \in s : TRUE}]]
           f == CHOOSE f : Sums(f)
<1>1. MapThenSumSet(LAMBDA t : Cardinality(Rails(t[1]) \cap Rails(t[2])), T) = f[T]
  BY DEF MapThenSumSet, MapThenFoldSet, OnRail
<1>2. ASSUME NEW g PROVE Sums(g) <=> Adds(g, T, size)
  <2>1. \A s \in SUBSET T : s # {} => size[CHOOSE x \in s : TRUE] = OnRail(CHOOSE x \in s : TRUE)
    OBVIOUS
  <2> HIDE DEF size
  <2> QED
    BY <2>1 DEF Adds
<1>3. \A t \in T : size[t] = Cardinality(X[t])
  OBVIOUS
<1> HIDE DEF size, Sums
<1>4. (\E g : Adds(g, T, size)) /\ \A g : Adds(g, T, size) => g[T] = SizeOf(X, T)
  BY <1>3, SumIsSize
<1>5. Sums(f)
  BY <1>2, <1>4
<1> HIDE DEF f
<1> QED
  BY <1>1, <1>2, <1>4, <1>5

(* The same for the other sum. *)
LEMMA SumInAll ==
  ASSUME NEW T, NEW X, Apart(X, T), \A t \in T : InAll(t) = Cardinality(X[t])
  PROVE  MapThenSumSet(LAMBDA t : Cardinality(DevicesOf(t[1]) \X DevicesOf(t[2])), T) = SizeOf(X, T)
<1> DEFINE size == [t \in T |-> InAll(t)]
           Sums(f) == f = [s \in SUBSET T |->
                             IF s = {} THEN 0
                             ELSE InAll(CHOOSE x \in s : TRUE) + f[s \ {CHOOSE x \in s : TRUE}]]
           f == CHOOSE f : Sums(f)
<1>1. MapThenSumSet(LAMBDA t : Cardinality(DevicesOf(t[1]) \X DevicesOf(t[2])), T) = f[T]
  BY DEF MapThenSumSet, MapThenFoldSet, InAll
<1>2. ASSUME NEW g PROVE Sums(g) <=> Adds(g, T, size)
  <2>1. \A s \in SUBSET T : s # {} => size[CHOOSE x \in s : TRUE] = InAll(CHOOSE x \in s : TRUE)
    OBVIOUS
  <2> HIDE DEF size
  <2> QED
    BY <2>1 DEF Adds
<1>3. \A t \in T : size[t] = Cardinality(X[t])
  OBVIOUS
<1> HIDE DEF size, Sums
<1>4. (\E g : Adds(g, T, size)) /\ \A g : Adds(g, T, size) => g[T] = SizeOf(X, T)
  BY <1>3, SumIsSize
<1>5. Sums(f)
  BY <1>2, <1>4
<1> HIDE DEF f
<1> QED
  BY <1>1, <1>2, <1>4, <1>5

(* The totals. *)
LEMMA Totals ==
  ASSUME Typed, Tried
  PROVE  /\ IsFiniteSet(Counted(TRUE)) /\ IsFiniteSet(Counted(FALSE))
         /\ Cardinality(Counted(TRUE)) =
              MapThenSumSet(LAMBDA t : Cardinality(Rails(t[1]) \cap Rails(t[2])), Tested)
         /\ Cardinality(Counted(TRUE)) + Cardinality(Counted(FALSE)) =
              MapThenSumSet(LAMBDA t : Cardinality(DevicesOf(t[1]) \X DevicesOf(t[2])), Tested)
<1> DEFINE N == [t \in Tested |-> NicPairs(t)]
           Q == [t \in Tested |-> NicsOnRail(t, TRUE)]
           X == [t \in Tested |-> {t} \X N[t]]
           Y == [t \in Tested |-> {t} \X Q[t]]
<1>1. \A t \in Tested : IsFiniteSet(N[t]) /\ IsFiniteSet(Q[t])
  BY RailPairs
<1>2. \A t \in Tested : Cardinality(N[t]) = InAll(t) /\ Cardinality(Q[t]) = OnRail(t)
  BY RailPairs DEF InAll, OnRail
<1>3. /\ UNION {X[t] : t \in Tested} = UNION {{t} \X NicPairs(t) : t \in Tested}
      /\ UNION {Y[t] : t \in Tested} = UNION {{t} \X NicsOnRail(t, TRUE) : t \in Tested}
  OBVIOUS
<1> HIDE DEF N, Q
<1>4. /\ Apart(X, Tested) /\ \A t \in Tested : Cardinality(X[t]) = Cardinality(N[t])
      /\ IsFiniteSet(UNION {X[t] : t \in Tested})
  BY <1>1, TaggedApart
<1>5. /\ Apart(Y, Tested) /\ \A t \in Tested : Cardinality(Y[t]) = Cardinality(Q[t])
  BY <1>1, TaggedApart
<1> HIDE DEF X, Y
<1>6. /\ UNION {X[t] : t \in Tested} = Counted(TRUE) \cup Counted(FALSE)
      /\ UNION {Y[t] : t \in Tested} = Counted(TRUE)
      /\ Counted(TRUE) \cap Counted(FALSE) = {}
  BY <1>3, CountedParts
<1>7. IsFiniteSet(Counted(TRUE)) /\ IsFiniteSet(Counted(FALSE))
  <2>1. IsFiniteSet(Counted(TRUE) \cup Counted(FALSE))
    BY <1>4, <1>6
  <2> QED
    BY <2>1, FS_Subset
<1>8. /\ SizeOf(Y, Tested) = Cardinality(Counted(TRUE))
      /\ SizeOf(X, Tested) = Cardinality(Counted(TRUE) \cup Counted(FALSE))
  BY <1>6 DEF SizeOf
<1>9. Cardinality(Counted(TRUE) \cup Counted(FALSE))
        = Cardinality(Counted(TRUE)) + Cardinality(Counted(FALSE))
  BY <1>6, <1>7, SizeOfTwo
<1>10. \A t \in Tested : OnRail(t) = Cardinality(Y[t]) /\ InAll(t) = Cardinality(X[t])
  BY <1>2, <1>4, <1>5
<1>11. MapThenSumSet(LAMBDA t : Cardinality(Rails(t[1]) \cap Rails(t[2])), Tested)
         = SizeOf(Y, Tested)
  BY <1>5, <1>10, SumOnRail
<1>12. MapThenSumSet(LAMBDA t : Cardinality(DevicesOf(t[1]) \X DevicesOf(t[2])), Tested)
         = SizeOf(X, Tested)
  BY <1>4, <1>10, SumInAll
<1> QED
  BY <1>7, <1>8, <1>9, <1>11, <1>12

(* What did not pass is listed. *)
LEMMA NotGood ==
  ASSUME Typed, Tried, NEW rail \in BOOLEAN
  PROVE  Cardinality({f \in Failures : f.rail = rail})
           = Cardinality(Counted(rail)) - Cardinality(Good(rail))
<1> DEFINE S == Counted(rail) \ Good(rail)
           T == {f \in Failures : f.rail = rail}
           row(t, nics) == [pair |-> t, nics |-> nics, rail |-> IsRail(t, nics),
                            attempt |-> LastFailed(t, nics)]
           g == [p \in S |-> row(p[1], p[2])]
<1>1. IsFiniteSet(Counted(rail))
  BY Totals
<1>2. Counted(rail) \cap Good(rail) = Good(rail)
  BY DEF Good
<1>3. IsFiniteSet(S) /\ Cardinality(S) = Cardinality(Counted(rail)) - Cardinality(Good(rail))
  BY <1>1, <1>2, FS_Difference
<1>4. \A p \in S : /\ p[1] \in Jobs /\ p[2] \in Seen(p[1]) /\ p = <<p[1], p[2]>>
                   /\ ~Best(p[1], p[2]) /\ IsRail(p[1], p[2]) = rail
  BY DEF Counted, Good
<1>5. \A t \in Jobs : \A nics \in Seen(t) :
        ~Best(t, nics) /\ IsRail(t, nics) = rail => <<t, nics>> \in S
  BY DEF Counted, Good
<1>6. \A f : f \in T <=> \E t \in Jobs : \E nics \in Seen(t) :
                           /\ ~Best(t, nics) /\ IsRail(t, nics) = rail
                           /\ f = row(t, nics)
  <2>1. \A f : f \in Failures <=> \E t \in Jobs : \E nics \in Seen(t) :
                                    ~Best(t, nics) /\ f = row(t, nics)
    BY DEF Failures
  <2>2. \A t, nics : row(t, nics).rail = IsRail(t, nics)
    OBVIOUS
  <2> HIDE DEF row
  <2> QED
    BY <2>1, <2>2
<1>7. \A t, nics : row(t, nics).pair = t /\ row(t, nics).nics = nics
  OBVIOUS
<1> HIDE DEF S, T, row
<1>8. g \in [S -> T]
  BY <1>4, <1>6
<1>9. \A x, y \in S : g[x] = g[y] => x = y
  <2> SUFFICES ASSUME NEW x \in S, NEW y \in S, g[x] = g[y] PROVE x = y
    OBVIOUS
  <2>1. row(x[1], x[2]) = row(y[1], y[2])
    OBVIOUS
  <2>2. x[1] = y[1] /\ x[2] = y[2]
    BY <1>7, <2>1
  <2> QED
    BY <1>4, <2>2
<1>10. \A f \in T : \E x \in S : g[x] = f
  <2> SUFFICES ASSUME NEW f \in T PROVE \E x \in S : g[x] = f
    OBVIOUS
  <2>1. PICK t \in Jobs : \E nics \in Seen(t) :
          ~Best(t, nics) /\ IsRail(t, nics) = rail /\ f = row(t, nics)
    BY <1>6
  <2>2. PICK nics \in Seen(t) : ~Best(t, nics) /\ IsRail(t, nics) = rail /\ f = row(t, nics)
    BY <2>1
  <2>3. <<t, nics>> \in S
    BY <1>5, <2>2
  <2>4. g[<<t, nics>>] = f
    BY <2>2, <2>3
  <2> QED
    BY <2>3, <2>4
<1> HIDE DEF g
<1>11. Cardinality(T) = Cardinality(S)
  BY <1>3, <1>8, <1>9, <1>10, SameSize
<1> QED
  BY <1>3, <1>11 DEF T

(* What the report counts, from the attempts that it is made of. *)
LEMMA CountedFacts ==
  ASSUME Typed, Tried, Reporting
  PROVE  CountedOnce
<1> SUFFICES ASSUME Classified PROVE CountedOnce
  BY DEF CountedOnce
<1>1. /\ report.failures = Failures /\ report.rail = Count(TRUE) /\ report.xrail = Count(FALSE)
  BY DEF Reporting
<1>2. /\ report.rail.total = Cardinality(Counted(TRUE))
      /\ report.rail.passed = Cardinality(Good(TRUE))
      /\ report.xrail.total = Cardinality(Counted(FALSE))
      /\ report.xrail.passed = Cardinality(Good(FALSE))
  BY <1>1, CountIs
<1>3. /\ Cardinality({f \in report.failures : f.rail = TRUE})
           = report.rail.total - report.rail.passed
      /\ Cardinality({f \in report.failures : f.rail = FALSE})
           = report.xrail.total - report.xrail.passed
  BY <1>1, <1>2, NotGood
<1>4. /\ report.rail.total =
           MapThenSumSet(LAMBDA t : Cardinality(Rails(t[1]) \cap Rails(t[2])), Tested)
      /\ report.rail.total + report.xrail.total =
           MapThenSumSet(LAMBDA t : Cardinality(DevicesOf(t[1]) \X DevicesOf(t[2])), Tested)
  BY <1>2, Totals
<1> QED
  BY <1>3, <1>4 DEF CountedOnce, Tested

-----------------------------------------------------------------------------
(* The invariant. *)

(* The two ConfigMaps a mesh may find. *)
LEMMA NoConfigMapFacts == NoConfigMap.present = FALSE /\ EarlierConfigMap.present = TRUE
BY DEF NoConfigMap, EarlierConfigMap

(* The invariant holds at first, *)
LEMMA InvInit == Init => Inv
<1> SUFFICES ASSUME Init PROVE Inv
  OBVIOUS
<1> USE DEF Init
<1>1. PICK jobs \in JobMaps : schedule = ScheduleOf(jobs)
  OBVIOUS
<1>2. /\ schedule \in Seq(SUBSET Tasks)
      /\ \A r \in DOMAIN schedule : schedule[r] \subseteq Testable
  BY <1>1, ScheduleTyped
<1>3. Typed
  <2>1. stored.present \in BOOLEAN
    BY NoConfigMapFacts
  <2>2. Len(schedule) \in Nat
    BY <1>2
  <2>3. round \in 1 .. Len(schedule) + 1
    BY <2>2
  <2>4. topo \in Topologies /\ cancelled \in BOOLEAN /\ phase = "testing"
    OBVIOUS
  <2> QED
    BY <1>2, <2>1, <2>3, <2>4, Zenon DEF Typed
<1>4. Tried
  BY <1>2, MeshAssumption DEF Tried
<1> QED
  BY <1>3, <1>4 DEF Inv, Reporting, Classified

(* A pair that is tried once more. *)
LEMMA AttemptStep ==
  ASSUME Inv, NEW t \in Tasks, Attempt(t)
  PROVE  Inv'
<1> USE DEF Attempt
<1>1. PICK a \in AttemptsOf(t) : attempts' = [attempts EXCEPT ![t] = Append(@, a)]
  OBVIOUS
<1>2. Typed' /\ Reporting'
  BY DEF Inv, Typed, Reporting, Classified
<1>3. attempts[t] \in Seq(AttemptsOf(t)) /\ Len(attempts[t]) <= MaxAttempts
  BY DEF Inv, Tried
<1>4. Len(attempts[t]) # MaxAttempts
  BY OutcomeFacts DEF Inv
<1>5. t \in Testable
  BY DEF Inv, Typed, Tried
<1>6. /\ Append(attempts[t], a) \in Seq(AttemptsOf(t))
      /\ Len(Append(attempts[t], a)) <= MaxAttempts
  BY <1>3, <1>4, MeshAssumption
<1>7. AttemptsOf(t)' = AttemptsOf(t) /\ Testable' = Testable
  BY DEF AttemptsOf, NicPairs, DevicesOf, Testable
<1>8. \A s \in Tasks : AttemptsOf(s)' = AttemptsOf(s)
  BY DEF AttemptsOf, NicPairs, DevicesOf
<1>9. DOMAIN attempts = Tasks
  BY DEF Inv, Tried
<1>10. \A s \in Tasks : attempts'[s] = IF s = t THEN Append(attempts[t], a) ELSE attempts[s]
  BY <1>1, <1>9
<1>11. \A s \in Tasks : /\ attempts'[s] \in Seq(AttemptsOf(s)')
                        /\ Len(attempts'[s]) <= MaxAttempts
                        /\ attempts'[s] # <<>> => s \in Testable'
  BY <1>5, <1>6, <1>7, <1>8, <1>10 DEF Inv, Tried
<1>12. Tried'
  BY <1>1, <1>7, <1>9, <1>11 DEF Inv, Tried
<1> QED
  BY <1>2, <1>12 DEF Inv

(* Any other step leaves the attempts alone. *)
LEMMA OtherStep ==
  ASSUME Inv, UNCHANGED <<topo, schedule, attempts>>, Typed', Reporting'
  PROVE  Inv'
<1>1. Testable' = Testable /\ \A t \in Tasks : AttemptsOf(t)' = AttemptsOf(t)
  BY DEF AttemptsOf, NicPairs, DevicesOf, Testable
<1>2. Tried'
  BY <1>1 DEF Inv, Tried
<1> QED
  BY <1>2 DEF Inv

(* The failures and the counts depend on the attempts only. *)
LEMMA ReportStays ==
  ASSUME UNCHANGED <<topo, schedule, attempts>>
  PROVE  /\ Failures' = Failures
         /\ Count(TRUE)' = Count(TRUE) /\ Count(FALSE)' = Count(FALSE)
<1>1. Failures' = Failures
  BY DEF Failures, Jobs, Seen, Best, Probes, IsRail, RailOf, LastFailed
<1>2. Count(TRUE)' = Count(TRUE) /\ Count(FALSE)' = Count(FALSE)
  BY DEF Count, Jobs, Seen, Best, Probes, IsRail, RailOf
<1> QED
  BY <1>1, <1>2

(* and every step keeps it. *)
LEMMA InvStep == Inv /\ [Next]_vars => Inv'
<1> SUFFICES ASSUME Inv, [Next]_vars PROVE Inv'
  OBVIOUS
<1>1. ASSUME NEW t \in Tasks, Attempt(t) PROVE Inv'
  BY <1>1, AttemptStep
<1>2. CASE EndRound
  <2>1. Typed' /\ Reporting'
    BY <1>2 DEF EndRound, Inv, Typed, Reporting, Classified
  <2> QED
    BY <1>2, <2>1, OtherStep DEF EndRound
<1>3. CASE Classify
  <2>1. /\ Failures' = Failures
        /\ Count(TRUE)' = Count(TRUE) /\ Count(FALSE)' = Count(FALSE)
    BY <1>3, ReportStays DEF Classify
  <2>2. Typed' /\ Reporting'
    BY <1>3, <2>1 DEF Classify, Inv, Typed, Reporting, Classified
  <2> QED
    BY <1>3, <2>2, OtherStep DEF Classify
<1>4. CASE Publish
  <2>1. /\ Failures' = Failures
        /\ Count(TRUE)' = Count(TRUE) /\ Count(FALSE)' = Count(FALSE)
    BY <1>4, ReportStays DEF Publish
  <2>2. stored'.present \in BOOLEAN
    <3>1. stored' \in {stored, NoConfigMap, [present |-> TRUE, failures |-> report.failures]}
      BY <1>4 DEF Publish
    <3>2. CASE stored' = stored
      BY <3>2 DEF Inv, Typed
    <3>3. CASE stored' = NoConfigMap
      BY <3>3, NoConfigMapFacts
    <3>4. CASE stored' = [present |-> TRUE, failures |-> report.failures]
      BY <3>4
    <3> QED
      BY <3>1, <3>2, <3>3, <3>4
  <2>3. Typed' /\ Reporting'
    BY <1>4, <2>1, <2>2 DEF Publish, Inv, Typed, Reporting, Classified
  <2> QED
    BY <1>4, <2>3, OtherStep DEF Publish
<1>5. CASE Cancel \/ UNCHANGED vars
  <2>1. /\ Failures' = Failures
        /\ Count(TRUE)' = Count(TRUE) /\ Count(FALSE)' = Count(FALSE)
    BY <1>5, ReportStays DEF Cancel, vars
  <2>2. Typed' /\ Reporting'
    BY <1>5, <2>1 DEF Cancel, vars, Inv, Typed, Reporting, Classified
  <2> QED
    BY <1>5, <2>2, OtherStep DEF Cancel, vars
<1> QED
  BY <1>1, <1>2, <1>3, <1>4, <1>5 DEF Next, Step

(* The inductive invariant: only pairs with a job are tried, MaxAttempts   *)
(* times at most, and the report is made of all attempts.                  *)
THEOREM Invariance == Spec => []Inv
BY InvInit, InvStep, PTL DEF Spec

(* The rounds are those that RunPairwise needs, throughout the mesh and for *)
(* every job map: no node is in two tests of a round, every pair with a    *)
(* job is in exactly one round and no other pair is (runner.go:94-121).    *)
THEOREM RoundsFit == Spec => [](Fits(schedule) /\ Jobs \in JobMaps)
<1> DEFINE Fit == Fits(schedule) /\ Jobs \in JobMaps
<1>1. Init => Fit
  <2> SUFFICES ASSUME Init PROVE Fit
    OBVIOUS
  <2>1. PICK jobs \in JobMaps : schedule = ScheduleOf(jobs)
    BY DEF Init
  <2>2. topo \in Topologies
    BY DEF Init
  <2> QED
    BY <2>1, <2>2, ScheduleFacts DEF Jobs
<1>2. Fit /\ [Next]_vars => Fit'
  <2> SUFFICES ASSUME Fit, [Next]_vars PROVE Fit'
    OBVIOUS
  <2>1. topo' = topo /\ schedule' = schedule
    BY DEF Next, Step, Attempt, EndRound, Classify, Publish, Cancel, vars
  <2>2. Jobs' = Jobs
    BY <2>1 DEF Jobs, Range
  <2>3. JobMaps' = JobMaps
    BY <2>1 DEF JobMaps, Testable, DevicesOf, Range
  <2> QED
    BY <2>1, <2>2, <2>3 DEF Fits
<1> QED
  BY <1>1, <1>2, PTL DEF Spec

(* The mesh keeps its types: what it holds of a pair are rows that the     *)
(* pair's devices allow, and only of pairs with a job.                     *)
THEOREM TypeCorrect == Spec => []TypeOK
<1>1. Inv => TypeOK
  BY DEF Inv, Typed, Tried, TypeOK
<1> QED
  BY <1>1, Invariance, PTL

(* However many attempts there are, in whichever order they pass or fail:  *)
(* a pair that passed has no failure in the report, and a failure that is  *)
(* listed was seen in each attempt that probed.                            *)
THEOREM APassWins == Spec => []PassWins
<1>1. Inv => PassWins
  BY FailuresFacts DEF Inv, Reporting, PassWins
<1> QED
  BY <1>1, Invariance, PTL

(* However often a pair was retried, each of its NIC pairs is counted once,*)
(* on the rail exactly when both NICs have the same position, and what did *)
(* not pass is in the list of failures.                                    *)
THEOREM EachCountedOnce == Spec => []CountedOnce
<1>1. Inv => CountedOnce
  BY CountedFacts DEF Inv
<1> QED
  BY <1>1, Invariance, PTL

=============================================================================
