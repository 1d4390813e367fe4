-------------------------- MODULE TopologiesProofs --------------------------
(***************************************************************************)
(* Proofs of the properties of Topologies for every cluster: machines with *)
(* any number of GPUs and NICs, any PCIe tree, any measured bandwidths.    *)
(* The sections are: induction; sorting; the greedy loop; machines; the    *)
(* strategies of buildPairs; the pairing by bandwidth, and what it is      *)
(* worth; the invariant of a run; its properties; the bandwidth jobs.      *)
(***************************************************************************)
EXTENDS Topologies, FiniteSetTheorems, TLAPS

-----------------------------------------------------------------------------
(* Induction.  The library's induction theorems take a predicate as an     *)
(* operator, which the provers cannot instantiate; these take a set.       *)

(* A nonempty set of natural numbers has a least element. *)
LEMMA Least ==
  ASSUME NEW T \in SUBSET Nat, T # {}
  PROVE  \E x \in T : \A y \in T : x <= y
<1> DEFINE R == {p \in Nat \X Nat : p[1] < p[2]}
<1>1. IsWellFoundedOn(R, Nat)
  BY NatLessThanWellFounded DEF OpToRel
<1>2. \E x \in T : \A y \in T : ~(<<y, x>> \in R)
  <2> HIDE DEF R
  <2> QED
    BY <1>1, WFMin
<1>3. \A x, y \in T : ~(<<y, x>> \in R) => x <= y
  OBVIOUS
<1> HIDE DEF R
<1> QED
  BY <1>2, <1>3

(* Induction over the natural numbers. *)
LEMMA Induction ==
  ASSUME NEW T, 0 \in T, \A n \in Nat : n \in T => n + 1 \in T
  PROVE  Nat \subseteq T
<1> SUFFICES ASSUME Nat \ T # {} PROVE FALSE
  OBVIOUS
<1>1. PICK x \in Nat \ T : \A y \in Nat \ T : x <= y
  BY Least
<1>2. x # 0 /\ x - 1 \in Nat
  OBVIOUS
<1>3. x - 1 \in T
  BY <1>1, <1>2
<1>4. (x - 1) + 1 \in T
  BY <1>2, <1>3
<1> QED
  BY <1>1, <1>4

(* Induction over a finite set, element by element. *)
LEMMA SetInduction ==
  ASSUME NEW S, IsFiniteSet(S), NEW F, {} \in F,
         \A T \in SUBSET S : \A x \in S \ T : T \in F => T \cup {x} \in F
  PROVE  S \in F
<1> DEFINE B == (SUBSET S) \ F
           R == {p \in (SUBSET S) \X (SUBSET S) : p[1] \subseteq p[2] /\ p[1] # p[2]}
<1> SUFFICES ASSUME S \notin F PROVE FALSE
  OBVIOUS
<1>1. FiniteSubsetsOf(S) = SUBSET S
  BY FS_FiniteSubsetsOfFinite
<1>2. IsWellFoundedOn(R, SUBSET S)
  BY <1>1, FS_StrictSubsetOrderingWellFounded DEF StrictSubsetOrdering
<1>3. S \in B /\ B \subseteq SUBSET S
  OBVIOUS
<1>4. PICK M \in B : \A U \in B : ~(<<U, M>> \in R)
  <2> HIDE DEF B, R
  <2> QED
    BY <1>2, <1>3, WFMin
<1>5. PICK x \in M : TRUE
  OBVIOUS
<1>6. M \ {x} \in SUBSET S /\ <<M \ {x}, M>> \in R
  BY <1>5
<1>7. M \ {x} \in F
  <2> HIDE DEF R
  <2> QED
    BY <1>4, <1>6
<1>8. x \in S \ (M \ {x})
  BY <1>5
<1>9. (M \ {x}) \cup {x} \in F
  BY <1>6, <1>7, <1>8
<1>10. (M \ {x}) \cup {x} = M
  BY <1>5
<1> QED
  BY <1>9, <1>10

(* A nonempty finite set of integers has a greatest element. *)
LEMMA Greatest ==
  ASSUME NEW S \in SUBSET Int, IsFiniteSet(S), S # {}
  PROVE  \E x \in S : \A y \in S : y <= x
<1> DEFINE F == {T \in SUBSET S : T = {} \/ \E x \in T : \A y \in T : y <= x}
<1>1. {} \in F
  OBVIOUS
<1>2. ASSUME NEW T \in SUBSET S, NEW z \in S \ T, T \in F
      PROVE  T \cup {z} \in F
  <2>1. CASE T = {}
    BY <2>1
  <2>2. CASE T # {}
    <3>1. PICK x \in T : \A y \in T : y <= x
      BY <1>2, <2>2
    <3>2. x \in Int /\ z \in Int /\ \A y \in T : y \in Int
      OBVIOUS
    <3>3. CASE z <= x
      BY <3>1, <3>3
    <3>4. CASE x <= z
      <4>1. \A y \in T \cup {z} : y <= z
        BY <3>1, <3>2, <3>4
      <4> QED
        BY <4>1
    <3> QED
      BY <3>2, <3>3, <3>4
  <2> QED
    BY <2>1, <2>2
<1> HIDE DEF F
<1>3. S \in F
  BY <1>1, <1>2, SetInduction
<1> QED
  BY <1>3 DEF F

(* A loop with n iterations: f[k] is its state after k of them. *)
Iterates(f, n, S, base, step) ==
  /\ f \in [0 .. n -> S]
  /\ f[0] = base
  /\ \A i \in 1 .. n : f[i] = step[<<i, f[i - 1]>>]

(* A function that is given by its value at 0 and a step is what the       *)
(* recursive definition says: the recursion of the greedy loop unfolds.    *)
LEMMA Iterations ==
  ASSUME NEW n \in Nat, NEW S, NEW base \in S, NEW step \in [(1 .. n) \X S -> S]
  PROVE  \E f : Iterates(f, n, S, base, step)
<1> DEFINE Done(f, k) == Iterates(f, k, S, base, step)
           T == {k \in Nat : k <= n => \E f : Done(f, k)}
<1>1. \E f : Done(f, 0)
  <2>1. Done([i \in 0 .. 0 |-> base], 0)
    BY DEF Iterates
  <2> QED
    BY <2>1
<1>2. ASSUME NEW k \in Nat, k < n, NEW f, Done(f, k)
      PROVE  \E g : Done(g, k + 1)
  <2> DEFINE next == step[<<k + 1, f[k]>>]
             g == [i \in 0 .. k + 1 |-> IF i = k + 1 THEN next ELSE f[i]]
  <2>1. k + 1 \in 1 .. n /\ f[k] \in S
    BY <1>2 DEF Iterates
  <2>2. next \in S
    BY <2>1
  <2>3. g \in [0 .. k + 1 -> S]
    BY <2>2, <1>2 DEF Iterates
  <2>4. ASSUME NEW i \in 1 .. k + 1
        PROVE  g[i] = step[<<i, g[i - 1]>>]
    <3>1. i - 1 \in 0 .. k /\ g[i - 1] = f[i - 1]
      OBVIOUS
    <3>2. CASE i = k + 1
      <4>1. g[i] = next /\ i - 1 = k
        BY <3>2
      <4> QED
        BY <3>1, <4>1, <3>2
    <3>3. CASE i \in 1 .. k
      BY <3>1, <3>3, <1>2 DEF Iterates
    <3> QED
      BY <3>2, <3>3
  <2>5. g[0] = base
    BY <1>2 DEF Iterates
  <2> HIDE DEF g
  <2>6. Done(g, k + 1)
    BY <2>3, <2>4, <2>5 DEF Iterates
  <2> QED
    BY <2>6
<1> HIDE DEF Done
<1>3. 0 \in T
  BY <1>1
<1>4. \A k \in Nat : k \in T => k + 1 \in T
  BY <1>2
<1>5. n \in T
  <2> HIDE DEF T
  <2> QED
    BY <1>3, <1>4, Induction
<1> QED
  BY <1>5 DEF Done

-----------------------------------------------------------------------------
(* Sorting. *)

(* A sequence that has each element of a finite set once. *)
Lists(s, S) ==
  /\ s \in [1 .. Cardinality(S) -> S] /\ Cardinality(S) \in Nat
  /\ \A x \in S : \E i \in 1 .. Cardinality(S) : s[i] = x

(* A strict total order. *)
Orders(R, S) ==
  /\ \A x \in S : <<x, x>> \notin R
  /\ \A x, y, z \in S : <<x, y>> \in R /\ <<y, z>> \in R => <<x, z>> \in R
  /\ \A x, y \in S : x = y \/ <<x, y>> \in R \/ <<y, x>> \in R

Rank(R, S) == [x \in S |-> Cardinality({y \in S : <<y, x>> \in R})]

ByRank(rank, S) == [i \in 1 .. Cardinality(S) |-> CHOOSE x \in S : rank[x] = i - 1]

(* The rank of an element is its place. *)
Placed(rank, R, S) ==
  LET n == Cardinality(S)
  IN  /\ n \in Nat
      /\ rank \in [S -> 0 .. n - 1]
      /\ \A x, y \in S : <<x, y>> \in R => rank[x] < rank[y]
      /\ \A i \in 0 .. n - 1 : \E x \in S : rank[x] = i

(* The elements of a finite set under a strict total order, by the number  *)
(* of elements that come before them: each once, in order.                 *)
LEMMA Ranks ==
  ASSUME NEW S, IsFiniteSet(S), NEW R,
         Orders(R, S)
  PROVE  Placed(Rank(R, S), R, S)
<1> DEFINE n == Cardinality(S)
           below(x) == {y \in S : <<y, x>> \in R}
           rank == [x \in S |-> Cardinality(below(x))]
<1>0. /\ \A x \in S : <<x, x>> \notin R
      /\ \A x, y, z \in S : <<x, y>> \in R /\ <<y, z>> \in R => <<x, z>> \in R
      /\ \A x, y \in S : x = y \/ <<x, y>> \in R \/ <<y, x>> \in R
  BY DEF Orders
<1>1. n \in Nat
  BY FS_CardinalityType
<1>2. ASSUME NEW x \in S
      PROVE  rank[x] \in 0 .. n - 1 /\ IsFiniteSet(below(x)) /\ rank[x] = Cardinality(below(x))
  <2>1. rank[x] = Cardinality(below(x))
    OBVIOUS
  <2>2. below(x) \in SUBSET S /\ below(x) # S
    BY <1>0
  <2> HIDE DEF below, rank
  <2>3. IsFiniteSet(below(x)) /\ Cardinality(below(x)) <= n /\ Cardinality(below(x)) # n
    BY <2>2, FS_Subset
  <2>4. Cardinality(below(x)) \in Nat
    BY <2>3, FS_CardinalityType
  <2> QED
    BY <2>1, <2>3, <2>4, <1>1
<1>3. ASSUME NEW x \in S, NEW y \in S, <<x, y>> \in R
      PROVE  rank[x] < rank[y]
  <2>1. below(x) \in SUBSET below(y) /\ below(x) # below(y)
    BY <1>0, <1>3
  <2> HIDE DEF below, rank
  <2>2. Cardinality(below(x)) <= Cardinality(below(y))
        /\ Cardinality(below(x)) # Cardinality(below(y))
    BY <2>1, <1>2, FS_Subset
  <2> QED
    BY <2>2, <1>1, <1>2
<1>4. rank \in [S -> 0 .. n - 1]
  <2>1. rank = [x \in S |-> rank[x]]
    OBVIOUS
  <2> HIDE DEF rank, n
  <2> QED
    BY <2>1, <1>2
<1> HIDE DEF rank, n, below
<1>5. \A x, y \in S : rank[x] = rank[y] => x = y
  <2> SUFFICES ASSUME NEW x \in S, NEW y \in S, rank[x] = rank[y], x # y
               PROVE  FALSE
    OBVIOUS
  <2>1. rank[x] < rank[y] \/ rank[y] < rank[x]
    BY <1>0, <1>3
  <2>2. rank[x] \in Int /\ rank[y] \in Int
    BY <1>2
  <2> QED
    BY <2>1, <2>2
<1>6. IsFiniteSet(0 .. n - 1) /\ Cardinality(0 .. n - 1) = n
  BY <1>1, FS_Interval
<1>7. \A i \in 0 .. n - 1 : \E x \in S : rank[x] = i
  <2>1. rank \in Injection(S, 0 .. n - 1)
    BY <1>4, <1>5 DEF Injection, IsInjective
  <2>2. rank \in Surjection(S, 0 .. n - 1)
    BY <2>1, <1>6, FS_Injection DEF n
  <2> QED
    BY <2>2 DEF Surjection
<1>8. \A x, y \in S : <<x, y>> \in R => rank[x] < rank[y]
  BY <1>3
<1> QED
  BY <1>1, <1>4, <1>7, <1>8 DEF rank, n, below, Rank, Placed

(* The element of rank i - 1 is the one that ByRank chooses for place i,   *)
(* and it is the only one.                                                 *)
LEMMA Places ==
  ASSUME NEW S, NEW R, Orders(R, S), NEW rank, Placed(rank, R, S)
  PROVE  LET s == ByRank(rank, S)
         IN  /\ Lists(s, S)
             /\ \A i, j \in 1 .. Cardinality(S) : i < j => <<s[i], s[j]>> \in R
<1> DEFINE n == Cardinality(S)
           s == [i \in 1 .. n |-> CHOOSE x \in S : rank[x] = i - 1]
<1>0. /\ n \in Nat /\ rank \in [S -> 0 .. n - 1]
      /\ \A x, y \in S : x = y \/ <<x, y>> \in R \/ <<y, x>> \in R
      /\ \A x, y \in S : <<x, y>> \in R => rank[x] < rank[y]
      /\ \A i \in 0 .. n - 1 : \E x \in S : rank[x] = i
  BY DEF Placed, Orders
<1> HIDE DEF n
<1>1. \A i \in 1 .. n : s[i] \in S /\ rank[s[i]] = i - 1
  <2> TAKE i \in 1 .. n
  <2>1. i - 1 \in 0 .. n - 1
    BY <1>0
  <2>2. \E x \in S : rank[x] = i - 1
    BY <1>0, <2>1
  <2> QED
    BY <2>2
<1>2. s \in [1 .. n -> S]
  BY <1>1
<1> HIDE DEF s
<1>3. \A x \in S : rank[x] \in 0 .. n - 1
  BY <1>0
<1>4. ASSUME NEW x \in S
      PROVE  rank[x] + 1 \in 1 .. n /\ s[rank[x] + 1] = x
  <2> DEFINE i == rank[x] + 1
  <2>1. i \in 1 .. n /\ rank[x] = i - 1
    BY <1>0, <1>3
  <2> HIDE DEF i
  <2>2. s[i] \in S /\ rank[s[i]] = rank[x]
    BY <2>1, <1>1
  <2>3. ~(rank[s[i]] < rank[x]) /\ ~(rank[x] < rank[s[i]])
    BY <2>2, <1>3
  <2>4. s[i] = x
    BY <1>0, <2>2, <2>3
  <2> QED
    BY <2>1, <2>4 DEF i
<1>5. ASSUME NEW i \in 1 .. n, NEW j \in 1 .. n, i < j
      PROVE  <<s[i], s[j]>> \in R
  <2>1. s[i] \in S /\ s[j] \in S /\ rank[s[i]] = i - 1 /\ rank[s[j]] = j - 1
    BY <1>1
  <2>2. s[i] # s[j] /\ ~(rank[s[j]] < rank[s[i]])
    BY <2>1, <1>5, <1>0
  <2> QED
    BY <2>1, <2>2, <1>0
<1>6. \A x \in S : \E i \in 1 .. n : s[i] = x
  BY <1>4
<1> QED
  BY <1>0, <1>2, <1>5, <1>6 DEF s, n, ByRank, Lists

(* ByRank lists a finite set once, in the order of R. *)
LEMMA Listed ==
  ASSUME NEW S, IsFiniteSet(S), NEW R, Orders(R, S)
  PROVE  LET s == ByRank(Rank(R, S), S)
         IN  /\ Lists(s, S)
             /\ \A i, j \in 1 .. Cardinality(S) : i < j => <<s[i], s[j]>> \in R
BY Ranks, Places

(* The facts about a list that the proofs below use. *)
LEMMA ListFacts ==
  ASSUME NEW s, NEW S, Lists(s, S)
  PROVE  /\ s \in Seq(S) /\ Len(s) = Cardinality(S) /\ DOMAIN s = 1 .. Cardinality(S)
         /\ \A i \in DOMAIN s : s[i] \in S
         /\ \A x \in S : \E i \in DOMAIN s : s[i] = x
BY DEF Lists

(* Ascending (sort.Ints, and the filters that keep the order) lists the    *)
(* set in increasing order, each element once.                             *)
LEMMA AscendingFacts ==
  ASSUME NEW S \in SUBSET Int, IsFiniteSet(S)
  PROVE  /\ Lists(Ascending(S), S)
         /\ \A i, j \in 1 .. Cardinality(S) : i < j => Ascending(S)[i] < Ascending(S)[j]
         /\ \A i, j \in 1 .. Cardinality(S) : Ascending(S)[i] = Ascending(S)[j] => i = j
<1> DEFINE R == {p \in S \X S : p[1] < p[2]}
           rank == [x \in S |-> Cardinality({y \in S : y < x})]
<1>1. Ascending(S) = ByRank(rank, S)
  BY DEF Ascending, Sorted, ByRank
<1>2. \A x, y \in S : <<x, y>> \in R <=> x < y
  OBVIOUS
<1> HIDE DEF R
<1>3. \A x \in S : {y \in S : y < x} = {y \in S : <<y, x>> \in R}
  BY <1>2
<1>4. rank = Rank(R, S)
  BY <1>3 DEF Rank
<1>5. Orders(R, S)
  BY <1>2 DEF Orders
<1> HIDE DEF rank
<1>6. /\ Lists(Ascending(S), S)
      /\ \A i, j \in 1 .. Cardinality(S) : i < j => <<Ascending(S)[i], Ascending(S)[j]>> \in R
  BY <1>1, <1>4, <1>5, Listed
<1> DEFINE s == Ascending(S)
           n == Cardinality(S)
<1> HIDE DEF s, n
<1>7. /\ n \in Nat /\ \A i \in 1 .. n : s[i] \in S
      /\ \A i, j \in 1 .. n : i < j => s[i] < s[j]
  BY <1>2, <1>6 DEF Lists, s, n
<1>8. ASSUME NEW i \in 1 .. n, NEW j \in 1 .. n, s[i] = s[j]
      PROVE  i = j
  <2>1. s[i] \in Int /\ s[j] \in Int
    BY <1>7
  <2>2. ~(i < j) /\ ~(j < i)
    BY <1>7, <1>8, <2>1
  <2> QED
    BY <1>7, <2>2
<1> QED
  BY <1>6, <1>7, <1>8 DEF s, n

Candidate == [gpu : Int, nic : Int, hops : Int, bw : {0}]

(* The sort of buildCandidates lists the candidates once each, a closer    *)
(* one first.                                                              *)
LEMMA NearestFirstFacts ==
  ASSUME NEW S \in SUBSET Candidate, IsFiniteSet(S)
  PROVE  /\ Lists(NearestFirst(S), S)
         /\ \A i, j \in 1 .. Cardinality(S) : i < j => Closer(NearestFirst(S)[i], NearestFirst(S)[j])
<1> DEFINE R == {p \in S \X S : Closer(p[1], p[2])}
           rank == [x \in S |-> Cardinality({y \in S : Closer(y, x)})]
<1>1. NearestFirst(S) = ByRank(rank, S)
  BY DEF NearestFirst, Sorted, ByRank
<1>2. \A x, y \in S : <<x, y>> \in R <=> Closer(x, y)
  OBVIOUS
<1> HIDE DEF R
<1>3. \A x \in S : {y \in S : Closer(y, x)} = {y \in S : <<y, x>> \in R}
  BY <1>2
<1>4. rank = Rank(R, S)
  BY <1>3 DEF Rank
<1>5. Orders(R, S)
  BY <1>2 DEF Orders, Closer, Candidate
<1> HIDE DEF rank
<1>6. /\ Lists(NearestFirst(S), S)
      /\ \A i, j \in 1 .. Cardinality(S) : i < j => <<NearestFirst(S)[i], NearestFirst(S)[j]>> \in R
  BY <1>1, <1>4, <1>5, Listed
<1> QED
  BY <1>2, <1>6 DEF Lists

Row == [gpu : Int, nic : Int, hops : {0}, bw : Int]

(* The sort of BandwidthOptimalPairing lists the measured rows once each,  *)
(* a faster one first.                                                     *)
LEMMA ByBandwidthFacts ==
  ASSUME NEW S \in SUBSET Row, IsFiniteSet(S)
  PROVE  /\ Lists(ByBandwidth(S), S)
         /\ \A i, j \in 1 .. Cardinality(S) : i < j => Faster(ByBandwidth(S)[i], ByBandwidth(S)[j])
<1> DEFINE R == {p \in S \X S : Faster(p[1], p[2])}
           rank == [x \in S |-> Cardinality({y \in S : Faster(y, x)})]
<1>1. ByBandwidth(S) = ByRank(rank, S)
  BY DEF ByBandwidth, Sorted, ByRank
<1>2. \A x, y \in S : <<x, y>> \in R <=> Faster(x, y)
  OBVIOUS
<1> HIDE DEF R
<1>3. \A x \in S : {y \in S : Faster(y, x)} = {y \in S : <<y, x>> \in R}
  BY <1>2
<1>4. rank = Rank(R, S)
  BY <1>3 DEF Rank
<1>5. Orders(R, S)
  BY <1>2 DEF Orders, Faster, Row
<1> HIDE DEF rank
<1>6. /\ Lists(ByBandwidth(S), S)
      /\ \A i, j \in 1 .. Cardinality(S) : i < j => <<ByBandwidth(S)[i], ByBandwidth(S)[j]>> \in R
  BY <1>1, <1>4, <1>5, Listed
<1> QED
  BY <1>2, <1>6 DEF Lists

LaneType == [gpu : Int, dev : Int]

(* The lanes of a job are listed once each, by GPU and then by device. *)
LEMMA ByGpuFacts ==
  ASSUME NEW S \in SUBSET LaneType, IsFiniteSet(S)
  PROVE  /\ Lists(ByGpu(S), S)
         /\ \A i, j \in 1 .. Cardinality(S) : i < j => LowerGpu(ByGpu(S)[i], ByGpu(S)[j])
<1> DEFINE R == {p \in S \X S : LowerGpu(p[1], p[2])}
           rank == [x \in S |-> Cardinality({y \in S : LowerGpu(y, x)})]
<1>1. ByGpu(S) = ByRank(rank, S)
  BY DEF ByGpu, Sorted, ByRank
<1>2. \A x, y \in S : <<x, y>> \in R <=> LowerGpu(x, y)
  OBVIOUS
<1> HIDE DEF R
<1>3. \A x \in S : {y \in S : LowerGpu(y, x)} = {y \in S : <<y, x>> \in R}
  BY <1>2
<1>4. rank = Rank(R, S)
  BY <1>3 DEF Rank
<1>5. Orders(R, S)
  BY <1>2 DEF Orders, LowerGpu, LaneType
<1> HIDE DEF rank
<1>6. /\ Lists(ByGpu(S), S)
      /\ \A i, j \in 1 .. Cardinality(S) : i < j => <<ByGpu(S)[i], ByGpu(S)[j]>> \in R
  BY <1>1, <1>4, <1>5, Listed
<1> QED
  BY <1>2, <1>6 DEF Lists

-----------------------------------------------------------------------------
(* The greedy loop: which candidates it takes. *)

(* f[k] is what a loop over s has taken after k elements, if it takes the  *)
(* ones at the positions W.                                                *)
Takes(f, s, W) ==
  f = [k \in 0 .. Len(s) |->
         IF k = 0 THEN {} ELSE IF k \in W THEN f[k - 1] \cup {s[k]} ELSE f[k - 1]]

Before(s, W, k) == {s[i] : i \in {i \in W : i < k}}

(* What the loop has taken after k candidates is what it took of the first *)
(* k - 1, and the k-th if that is in W.                                    *)
LEMMA TakenBefore ==
  ASSUME NEW s, NEW W \in SUBSET (1 .. Len(s)), NEW f, Takes(f, s, W), Len(s) \in Nat
  PROVE  \A k \in 0 .. Len(s) : f[k] = Before(s, W, k + 1)
<1> DEFINE n == Len(s)
           T == {k \in Nat : k <= n => f[k] = Before(s, W, k + 1)}
<1>1. f[0] = {}
  BY DEF Takes
<1>2. ASSUME NEW k \in 1 .. n
      PROVE  f[k] = IF k \in W THEN f[k - 1] \cup {s[k]} ELSE f[k - 1]
  <2> DEFINE w(j) == IF j \in W THEN f[j - 1] \cup {s[j]} ELSE f[j - 1]
  <2>1. f = [j \in 0 .. n |-> IF j = 0 THEN {} ELSE w(j)]
    BY Zenon DEF Takes
  <2> HIDE DEF w, n
  <2>2. f[k] = w(k)
    BY <2>1
  <2> QED
    BY <2>2 DEF w
<1> HIDE DEF n
<1>3. 0 \in T
  <2>1. Before(s, W, 0 + 1) = {}
    <3>1. \A i \in W : ~(i < 0 + 1)
      OBVIOUS
    <3> QED
      BY <3>1 DEF Before
  <2>2. f[0] = Before(s, W, 0 + 1)
    BY <1>1, <2>1
  <2> QED
    BY <2>2
<1>4. ASSUME NEW k \in Nat, k \in T
      PROVE  k + 1 \in T
  <2> SUFFICES ASSUME k + 1 <= n PROVE f[k + 1] = Before(s, W, (k + 1) + 1)
    OBVIOUS
  <2>1. n \in Nat /\ W \in SUBSET (1 .. n)
    BY DEF n
  <2>2. k + 1 \in 1 .. n /\ (k + 1) - 1 = k /\ f[k] = Before(s, W, k + 1)
    BY <2>1, <1>4
  <2>3. \A i \in W : i < (k + 1) + 1 <=> i < k + 1 \/ i = k + 1
    BY <2>1
  <2>4. CASE k + 1 \in W
    <3>1. Before(s, W, (k + 1) + 1) = Before(s, W, k + 1) \cup {s[k + 1]}
      BY <2>3, <2>4, <2>1 DEF Before
    <3> QED
      BY <1>2, <2>2, <2>4, <3>1
  <2>5. CASE k + 1 \notin W
    <3>1. {i \in W : i < (k + 1) + 1} = {i \in W : i < k + 1}
      BY <2>3, <2>5
    <3> QED
      BY <1>2, <2>2, <2>5, <3>1 DEF Before
  <2> QED
    BY <2>4, <2>5
<1>5. Nat \subseteq T
  <2> HIDE DEF T
  <2> QED
    BY <1>3, <1>4, Induction
<1> QED
  BY <1>5 DEF n

(* What the loop takes if it takes an element when Room has it, with what  *)
(* was taken before.                                                       *)
TakesBy(f, s, C, Room) ==
  /\ f \in [0 .. Len(s) -> SUBSET C]
  /\ Takes(f, s, {k \in 1 .. Len(s) : <<f[k - 1], s[k]>> \in Room})

(* The greedy loop with any test of room takes the candidates of a set W   *)
(* of positions: k is in W exactly if there is room for it beside those    *)
(* taken before.                                                           *)
LEMMA LoopRuns ==
  ASSUME NEW C, NEW s \in Seq(C), NEW Room
  PROVE  \E f : TakesBy(f, s, C, Room)
<1> DEFINE n == Len(s)
           D == SUBSET C
           e == {}
           after(k, pairs) == IF <<pairs, s[k]>> \in Room THEN pairs \cup {s[k]} ELSE pairs
           step == [p \in (1 .. n) \X D |-> after(p[1], p[2])]
<1>1. n \in Nat /\ \A k \in 1 .. n : s[k] \in C
  OBVIOUS
<1>2. step \in [(1 .. n) \X D -> D]
  BY <1>1
<1>3. \A k \in 1 .. n, pairs \in D : step[<<k, pairs>>] = after(k, pairs)
  OBVIOUS
<1>4. e \in D
  OBVIOUS
<1> HIDE DEF step, n, after, D, e
<1>5. PICK f : Iterates(f, n, D, e, step)
  BY <1>1, <1>2, <1>4, Iterations
<1>6. f \in [0 .. n -> D] /\ f[0] = e /\ \A k \in 1 .. n : f[k] = step[<<k, f[k - 1]>>]
  BY <1>5 DEF Iterates
<1>7. ASSUME NEW k \in 1 .. n
      PROVE  f[k] = after(k, f[k - 1])
  <2>1. f[k - 1] \in D
    BY <1>1, <1>6
  <2> QED
    BY <2>1, <1>3, <1>6
<1> DEFINE W == {k \in 1 .. n : <<f[k - 1], s[k]>> \in Room}
           g == [k \in 0 .. n |->
                   IF k = 0 THEN {} ELSE IF k \in W THEN f[k - 1] \cup {s[k]} ELSE f[k - 1]]
<1>8. ASSUME NEW k \in 0 .. n
      PROVE  f[k] = g[k]
  <2>1. CASE k = 0
    BY <2>1, <1>6 DEF e
  <2>2. CASE k \in 1 .. n
    <3>1. k \in W <=> <<f[k - 1], s[k]>> \in Room
      BY <2>2
    <3> HIDE DEF W
    <3>2. g[k] = IF k \in W THEN f[k - 1] \cup {s[k]} ELSE f[k - 1]
      BY <2>2
    <3> HIDE DEF g
    <3>3. f[k] = after(k, f[k - 1])
      BY <1>7, <2>2
    <3> QED
      BY <3>1, <3>2, <3>3 DEF after
  <2> QED
    BY <2>1, <2>2, <1>1
<1>9. f = [k \in 0 .. n |-> f[k]]
  BY <1>6
<1>10. f = g
  <2>1. g = [k \in 0 .. n |-> g[k]]
    OBVIOUS
  <2> HIDE DEF g
  <2> QED
    BY <1>8, <1>9, <2>1
<1>11. Takes(f, s, W)
  BY <1>10 DEF Takes, n
<1> QED
  BY <1>6, <1>11 DEF n, D, TakesBy

(* The positions that OneToOne takes: those with GPU and NIC still free. *)
Picks(s, W) ==
  /\ W \in SUBSET (1 .. Len(s))
  /\ \A k \in 1 .. Len(s) : k \in W <=> BothFree(Before(s, W, k), s[k])

(* The loop of the one-to-one pairing: a candidate is taken exactly if no  *)
(* earlier one that was taken has its GPU or its NIC.                      *)
LEMMA OneToOneLoop ==
  ASSUME NEW C, NEW s \in Seq(C)
  PROVE  \E W : Picks(s, W) /\ OneToOne(s) = {s[i] : i \in W}
<1> DEFINE Kept(t) == {k \in 1 .. Len(s) : BothFree(t[k - 1], s[k])}
           Loop(t) == Takes(t, s, Kept(t))
           u == CHOOSE t : Loop(t)
           Room == {p \in (SUBSET C) \X C : BothFree(p[1], p[2])}
<1>0. Len(s) \in Nat /\ \A k \in 1 .. Len(s) : s[k] \in C
  OBVIOUS
<1>1. \E t : Loop(t)
  <2> HIDE DEF Room
  <2>0. PICK f : TakesBy(f, s, C, Room)
    BY LoopRuns
  <2>1. /\ f \in [0 .. Len(s) -> SUBSET C]
        /\ Takes(f, s, {k \in 1 .. Len(s) : <<f[k - 1], s[k]>> \in Room})
    BY <2>0 DEF TakesBy
  <2>2. ASSUME NEW k \in 1 .. Len(s)
        PROVE  <<f[k - 1], s[k]>> \in Room <=> BothFree(f[k - 1], s[k])
    <3>1. k - 1 \in 0 .. Len(s) /\ f[k - 1] \in SUBSET C /\ s[k] \in C
      BY <1>0, <2>1
    <3> QED
      BY <3>1 DEF Room
  <2>3. {k \in 1 .. Len(s) : <<f[k - 1], s[k]>> \in Room} = Kept(f)
    BY <2>2
  <2> QED
    BY <2>1, <2>3
<1>2. Loop(u)
  <2> HIDE DEF Loop
  <2> QED
    BY <1>1
<1>3. OneToOne(s) = u[Len(s)]
  <2> DEFINE body(t) == [k \in 0 .. Len(s) |->
               IF k = 0 THEN {}
               ELSE IF BothFree(t[k - 1], s[k]) THEN t[k - 1] \cup {s[k]} ELSE t[k - 1]]
  <2>1. OneToOne(s) = (CHOOSE t : t = body(t))[Len(s)]
    BY DEF OneToOne, Greedy
  <2>2. ASSUME NEW t
        PROVE  Loop(t) <=> t = body(t)
    <3>1. body(t) = [k \in 0 .. Len(s) |->
             IF k = 0 THEN {} ELSE IF k \in Kept(t) THEN t[k - 1] \cup {s[k]} ELSE t[k - 1]]
      BY <1>0
    <3> QED
      BY <3>1 DEF Takes
  <2> HIDE DEF body, Loop
  <2>3. (CHOOSE t : t = body(t)) = CHOOSE t : Loop(t)
    BY <2>2
  <2> QED
    BY <2>1, <2>3
<1> HIDE DEF u
<1> DEFINE W == Kept(u)
<1>4. W \in SUBSET (1 .. Len(s)) /\ Takes(u, s, W)
  BY <1>2
<1>5. \A k \in 1 .. Len(s) : k \in W <=> BothFree(u[k - 1], s[k])
  OBVIOUS
<1> HIDE DEF W
<1>6. \A k \in 0 .. Len(s) : u[k] = Before(s, W, k + 1)
  BY <1>0, <1>4, TakenBefore
<1>7. \A k \in 1 .. Len(s) : u[k - 1] = Before(s, W, k)
  <2> TAKE k \in 1 .. Len(s)
  <2>1. k - 1 \in 0 .. Len(s) /\ (k - 1) + 1 = k
    BY <1>0
  <2> QED
    BY <1>6, <2>1
<1>8. Picks(s, W)
  BY <1>4, <1>5, <1>7 DEF Picks
<1>9. u[Len(s)] = {s[i] : i \in W}
  <2>1. u[Len(s)] = Before(s, W, Len(s) + 1)
    BY <1>0, <1>6
  <2>2. \A i \in W : i < Len(s) + 1
    BY <1>0, <1>4
  <2>3. {i \in W : i < Len(s) + 1} = W
    BY <2>2
  <2> QED
    BY <2>1, <2>3 DEF Before
<1> QED
  BY <1>3, <1>8, <1>9

(* The positions that Shared takes. *)
SharePicks(s, capacity, W) ==
  /\ W \in SUBSET (1 .. Len(s))
  /\ \A k \in 1 .. Len(s) :
       k \in W <=> /\ \A p \in Before(s, W, k) : p.gpu # s[k].gpu
                   /\ Cardinality({p \in Before(s, W, k) : p.nic = s[k].nic}) < capacity

Shares(s, capacity, W) ==
  SharePicks(s, capacity, W) /\ Shared(s, capacity) = {s[i] : i \in W}

(* The loop with a capacity: a candidate is taken exactly if none was      *)
(* taken for its GPU and its NIC is not full.                              *)
LEMMA SharedLoop ==
  ASSUME NEW C, NEW s \in Seq(C), NEW capacity
  PROVE  \E W : Shares(s, capacity, W)
<1> DEFINE fits(pairs, c) == /\ \A p \in pairs : p.gpu # c.gpu
                             /\ Cardinality({p \in pairs : p.nic = c.nic}) < capacity
           Kept(t) == {k \in 1 .. Len(s) : fits(t[k - 1], s[k])}
           Loop(t) == Takes(t, s, Kept(t))
           u == CHOOSE t : Loop(t)
           Room == {p \in (SUBSET C) \X C : fits(p[1], p[2])}
<1>0. Len(s) \in Nat /\ \A k \in 1 .. Len(s) : s[k] \in C
  OBVIOUS
<1>3. Shared(s, capacity) = u[Len(s)]
  <2> DEFINE body(t) == [k \in 0 .. Len(s) |->
               IF k = 0 THEN {}
               ELSE IF fits(t[k - 1], s[k]) THEN t[k - 1] \cup {s[k]} ELSE t[k - 1]]
  <2>1. Shared(s, capacity) = (CHOOSE t : t = body(t))[Len(s)]
    BY DEF Shared, Greedy
  <2> HIDE DEF fits
  <2>2. ASSUME NEW t
        PROVE  Loop(t) <=> t = body(t)
    <3>1. body(t) = [k \in 0 .. Len(s) |->
             IF k = 0 THEN {} ELSE IF k \in Kept(t) THEN t[k - 1] \cup {s[k]} ELSE t[k - 1]]
      BY <1>0
    <3> QED
      BY <3>1 DEF Takes
  <2> HIDE DEF body, Loop
  <2>3. (CHOOSE t : t = body(t)) = CHOOSE t : Loop(t)
    BY <2>2
  <2> QED
    BY <2>1, <2>3
<1>1. \E t : Loop(t)
  <2> HIDE DEF Room, fits
  <2>0. PICK f : TakesBy(f, s, C, Room)
    BY LoopRuns
  <2>1. /\ f \in [0 .. Len(s) -> SUBSET C]
        /\ Takes(f, s, {k \in 1 .. Len(s) : <<f[k - 1], s[k]>> \in Room})
    BY <2>0 DEF TakesBy
  <2>2. ASSUME NEW k \in 1 .. Len(s)
        PROVE  <<f[k - 1], s[k]>> \in Room <=> fits(f[k - 1], s[k])
    <3>1. k - 1 \in 0 .. Len(s) /\ f[k - 1] \in SUBSET C /\ s[k] \in C
      BY <1>0, <2>1
    <3> QED
      BY <3>1 DEF Room
  <2>3. {k \in 1 .. Len(s) : <<f[k - 1], s[k]>> \in Room} = Kept(f)
    BY <2>2
  <2> QED
    BY <2>1, <2>3
<1> HIDE DEF fits
<1>2. Loop(u)
  <2> HIDE DEF Loop
  <2> QED
    BY <1>1
<1> HIDE DEF u
<1> DEFINE W == Kept(u)
<1>4. W \in SUBSET (1 .. Len(s)) /\ Takes(u, s, W)
  BY <1>2
<1>5. \A k \in 1 .. Len(s) : k \in W <=> fits(u[k - 1], s[k])
  OBVIOUS
<1> HIDE DEF W
<1>6. \A k \in 0 .. Len(s) : u[k] = Before(s, W, k + 1)
  BY <1>0, <1>4, TakenBefore
<1>7. \A k \in 1 .. Len(s) : u[k - 1] = Before(s, W, k)
  <2> TAKE k \in 1 .. Len(s)
  <2>1. k - 1 \in 0 .. Len(s) /\ (k - 1) + 1 = k
    BY <1>0
  <2> QED
    BY <1>6, <2>1
<1>8. SharePicks(s, capacity, W)
  BY <1>4, <1>5, <1>7 DEF SharePicks, fits
<1>9. u[Len(s)] = {s[i] : i \in W}
  <2>1. u[Len(s)] = Before(s, W, Len(s) + 1)
    BY <1>0, <1>6
  <2>2. \A i \in W : i < Len(s) + 1
    BY <1>0, <1>4
  <2>3. {i \in W : i < Len(s) + 1} = W
    BY <2>2
  <2> QED
    BY <2>1, <2>3 DEF Before
<1> QED
  BY <1>3, <1>8, <1>9 DEF Shares

-----------------------------------------------------------------------------
(* What the loop takes is a maximal matching, or fills every NIC to its share. *)

(* P pairs elements of S one to one, and an element of S that it has not   *)
(* must give way to one before it.                                         *)
Matching(P, S, R) ==
  /\ P \in SUBSET S
  /\ \A p, q \in P : p.gpu = q.gpu \/ p.nic = q.nic => p = q
  /\ \A c \in S : \E p \in P : (p = c \/ <<p, c>> \in R) /\ (p.gpu = c.gpu \/ p.nic = c.nic)

(* The one-to-one loop over a list in the order R makes a matching that is *)
(* maximal and greedy: every candidate gives way to one before it.         *)
LEMMA PicksMatch ==
  ASSUME NEW S, NEW s, Lists(s, S), NEW R, NEW W, Picks(s, W),
         \A i, j \in 1 .. Cardinality(S) : i < j => <<s[i], s[j]>> \in R
  PROVE  Matching({s[i] : i \in W}, S, R)
<1> DEFINE n == Cardinality(S)
           P == {s[i] : i \in W}
<1>1. /\ n \in Nat /\ Len(s) = n
      /\ \A i \in 1 .. n : s[i] \in S
      /\ \A x \in S : \E i \in 1 .. n : s[i] = x
  BY ListFacts DEF Lists
<1>2. /\ W \in SUBSET (1 .. n)
      /\ \A k \in 1 .. n : k \in W <=> BothFree(Before(s, W, k), s[k])
  BY <1>1 DEF Picks
<1>0. \A i, j \in 1 .. n : i < j => <<s[i], s[j]>> \in R
  OBVIOUS
<1> HIDE DEF n
<1>3. \A k \in 1 .. n : k \in W <=>
        \A i \in W : i < k => s[i].gpu # s[k].gpu /\ s[i].nic # s[k].nic
  BY <1>2 DEF BothFree, Before
<1>4. P \in SUBSET S
  BY <1>1, <1>2
<1>5. ASSUME NEW i \in W, NEW j \in W, s[i].gpu = s[j].gpu \/ s[i].nic = s[j].nic
      PROVE  i = j
  <2>1. i \in 1 .. n /\ j \in 1 .. n
    BY <1>2
  <2>2. ~(i < j) /\ ~(j < i)
    BY <1>3, <1>5, <2>1
  <2> QED
    BY <2>1, <2>2
<1>6. ASSUME NEW c \in S
      PROVE  \E p \in P : (p = c \/ <<p, c>> \in R) /\ (p.gpu = c.gpu \/ p.nic = c.nic)
  <2>1. PICK k \in 1 .. n : s[k] = c
    BY <1>1
  <2>2. CASE k \in W
    BY <2>1, <2>2
  <2>3. CASE k \notin W
    <3>1. PICK i \in W : i < k /\ (s[i].gpu = s[k].gpu \/ s[i].nic = s[k].nic)
      BY <1>3, <2>3
    <3>2. <<s[i], s[k]>> \in R
      BY <1>0, <1>2, <3>1
    <3> QED
      BY <2>1, <3>1, <3>2
  <2> QED
    BY <2>2, <2>3
<1>7. \A p, q \in P : p.gpu = q.gpu \/ p.nic = q.nic => p = q
  BY <1>5
<1> HIDE DEF P
<1>8. Matching(P, S, R)
  BY <1>4, <1>6, <1>7 DEF Matching
<1> QED
  BY <1>8 DEF P

CloserPairs(S) == {p \in S \X S : Closer(p[1], p[2])}
FasterPairs(S) == {p \in S \X S : Faster(p[1], p[2])}

(* What OneToOne makes of the candidates in the order of their distance. *)
LEMMA NearestMatch ==
  ASSUME NEW S \in SUBSET Candidate, IsFiniteSet(S)
  PROVE  Matching(OneToOne(NearestFirst(S)), S, CloserPairs(S))
<1> DEFINE s == NearestFirst(S)
<1>1. Lists(s, S) /\ \A i, j \in 1 .. Cardinality(S) : i < j => Closer(s[i], s[j])
  BY NearestFirstFacts
<1> HIDE DEF s
<1>2. s \in Seq(S) /\ \A i \in 1 .. Cardinality(S) : s[i] \in S
  BY <1>1, ListFacts
<1>3. \A i, j \in 1 .. Cardinality(S) : i < j => <<s[i], s[j]>> \in CloserPairs(S)
  BY <1>1, <1>2 DEF CloserPairs
<1>4. PICK W : Picks(s, W) /\ OneToOne(s) = {s[i] : i \in W}
  BY <1>2, OneToOneLoop
<1> QED
  BY <1>1, <1>3, <1>4, PicksMatch DEF s

(* What OneToOne makes of the measured rows in the order of their          *)
(* bandwidth.                                                              *)
LEMMA FastestMatch ==
  ASSUME NEW S \in SUBSET Row, IsFiniteSet(S)
  PROVE  Matching(OneToOne(ByBandwidth(S)), S, FasterPairs(S))
<1> DEFINE s == ByBandwidth(S)
<1>1. Lists(s, S) /\ \A i, j \in 1 .. Cardinality(S) : i < j => Faster(s[i], s[j])
  BY ByBandwidthFacts
<1> HIDE DEF s
<1>2. s \in Seq(S) /\ \A i \in 1 .. Cardinality(S) : s[i] \in S
  BY <1>1, ListFacts
<1>3. \A i, j \in 1 .. Cardinality(S) : i < j => <<s[i], s[j]>> \in FasterPairs(S)
  BY <1>1, <1>2 DEF FasterPairs
<1>4. PICK W : Picks(s, W) /\ OneToOne(s) = {s[i] : i \in W}
  BY <1>2, OneToOneLoop
<1> QED
  BY <1>1, <1>3, <1>4, PicksMatch DEF s

Load(P, nic) == {p \in P : p.nic = nic}

(* P gives GPUs a NIC each, no NIC more than its capacity, and no room is  *)
(* left for a GPU without one.                                             *)
Filling(P, S, capacity) ==
  /\ P \in SUBSET S
  /\ \A p, q \in P : p.gpu = q.gpu => p = q
  /\ \A c : Cardinality(Load(P, c)) <= capacity
  /\ \A c \in S : (\E p \in P : p.gpu = c.gpu) \/ Cardinality(Load(P, c.nic)) = capacity

(* Adding a pair to the load of a NIC. *)
LEMMA OneMore ==
  ASSUME NEW S, IsFiniteSet(S), NEW x
  PROVE  /\ IsFiniteSet(S \cup {x}) /\ Cardinality(S) \in Nat
         /\ Cardinality(S \cup {x}) = IF x \in S THEN Cardinality(S) ELSE Cardinality(S) + 1
BY FS_AddElement, FS_CardinalityType

(* The loop with a capacity: each GPU at most once, no NIC over its        *)
(* capacity, and a candidate is left out only if its GPU was taken or its  *)
(* NIC is full.                                                            *)
LEMMA SharedFills ==
  ASSUME NEW S \in SUBSET Candidate, IsFiniteSet(S), NEW capacity \in Nat
  PROVE  Filling(Shared(NearestFirst(S), capacity), S, capacity)
<1> DEFINE s == NearestFirst(S)
           n == Cardinality(S)
<1>1. Lists(s, S)
  BY NearestFirstFacts
<1> HIDE DEF s
<1>2. /\ n \in Nat /\ Len(s) = n /\ s \in Seq(S)
      /\ \A i \in 1 .. n : s[i] \in S
      /\ \A x \in S : \E i \in 1 .. n : s[i] = x
  BY <1>1, ListFacts DEF Lists
<1> HIDE DEF n
<1>3. PICK W : Shares(s, capacity, W)
  BY <1>2, SharedLoop
<1> DEFINE P == {s[i] : i \in W}
           before(k) == Before(s, W, k)
<1>4. /\ W \in SUBSET (1 .. n)
      /\ \A k \in 1 .. n :
           k \in W <=> /\ \A p \in before(k) : p.gpu # s[k].gpu
                       /\ Cardinality(Load(before(k), s[k].nic)) < capacity
  BY <1>2, <1>3 DEF Shares, SharePicks, Load
<1>5. P \in SUBSET S
  BY <1>2, <1>4
<1>6. \A k : before(k) \in SUBSET P
  BY DEF Before
<1>7. ASSUME NEW i \in W, NEW j \in W, s[i].gpu = s[j].gpu
      PROVE  i = j
  <2>1. i \in 1 .. n /\ j \in 1 .. n
    BY <1>4
  <2>2. \A x, y \in W : x < y => s[x].gpu # s[y].gpu
    BY <1>4 DEF Before
  <2> QED
    BY <2>1, <2>2, <1>7
<1> HIDE DEF P, before
<1>8. \A Q \in SUBSET P : \A c : IsFiniteSet(Load(Q, c)) /\ Cardinality(Load(Q, c)) \in Nat
  <2> TAKE Q \in SUBSET P
  <2> TAKE c
  <2>1. Load(Q, c) \in SUBSET S
    BY <1>5 DEF Load
  <2> QED
    BY <2>1, FS_Subset, FS_CardinalityType
<1>9. ASSUME NEW c
      PROVE  Cardinality(Load(P, c)) <= capacity
  <2> DEFINE L == {i \in W : s[i].nic = c}
             M == {n - i : i \in L}
  <2>1. CASE L = {}
    <3>1. Load(P, c) = {}
      BY <2>1 DEF Load, P
    <3> QED
      BY <3>1, FS_EmptySet
  <2>2. CASE L # {}
    <3>0. \A i \in L : n - i \in Nat
      BY <1>2, <1>4
    <3>1. M \in SUBSET Nat /\ M # {}
      BY <3>0, <2>2
    <3>2. PICK x \in M : \A y \in M : x <= y
      <4> HIDE DEF M
      <4> QED
        BY <3>1, Least
    <3>3. PICK k \in L : x = n - k
      BY <3>2
    <3>4. \A i \in L : i <= k
      <4> TAKE i \in L
      <4>1. n - k <= n - i
        BY <3>2, <3>3
      <4> QED
        BY <4>1, <1>2, <1>4
    <3>5. k \in W /\ k \in 1 .. n /\ s[k].nic = c
      BY <1>4, <3>3
    <3>6. Cardinality(Load(before(k), c)) < capacity
      BY <1>4, <3>5
    <3>7. Load(P, c) = Load(before(k), c) \cup {s[k]}
      <4>1. ASSUME NEW p \in Load(P, c)
            PROVE  p \in Load(before(k), c) \cup {s[k]}
        <5>1. PICK i \in W : p = s[i] /\ p.nic = c
          BY DEF Load, P
        <5>2. i <= k /\ i \in 1 .. n
          BY <3>4, <5>1, <1>4
        <5>3. CASE i = k
          BY <5>1, <5>3
        <5>4. CASE i < k
          BY <5>1, <5>4 DEF Load, before, Before
        <5> QED
          BY <5>2, <5>3, <5>4, <3>5
      <4>2. Load(before(k), c) \in SUBSET Load(P, c)
        BY <1>6 DEF Load
      <4>3. s[k] \in Load(P, c)
        BY <3>5 DEF Load, P
      <4> QED
        BY <4>1, <4>2, <4>3
    <3>8. IsFiniteSet(Load(before(k), c)) /\ Cardinality(Load(before(k), c)) \in Nat
      BY <1>6, <1>8
    <3> DEFINE Q == Load(before(k), c)
    <3> HIDE DEF Q
    <3>9. Cardinality(Load(P, c)) <= Cardinality(Q) + 1
      <4>1. IsFiniteSet(Q) /\ Cardinality(Q) \in Nat
        BY <3>8 DEF Q
      <4>2. Cardinality(Q \cup {s[k]}) <= Cardinality(Q) + 1
        <5> HIDE DEF P
        <5>1. \/ Cardinality(Q \cup {s[k]}) = Cardinality(Q)
              \/ Cardinality(Q \cup {s[k]}) = Cardinality(Q) + 1
          BY <4>1, OneMore
        <5> QED
          BY <4>1, <5>1
      <4>3. Load(P, c) = Q \cup {s[k]}
        BY <3>7 DEF Q
      <4> QED
        BY <4>2, <4>3
    <3>10. Cardinality(Load(P, c)) \in Nat
      BY <1>8
    <3> QED
      BY <3>6, <3>8, <3>9, <3>10 DEF Q
  <2> QED
    BY <2>1, <2>2
<1>10. ASSUME NEW c \in S, \A p \in P : p.gpu # c.gpu
       PROVE  Cardinality(Load(P, c.nic)) = capacity
  <2>1. PICK k \in 1 .. n : s[k] = c
    BY <1>2
  <2>2. k \notin W
    BY <2>1, <1>10 DEF P
  <2>3. \A p \in before(k) : p.gpu # s[k].gpu
    BY <1>6, <2>1, <1>10
  <2>4. ~(Cardinality(Load(before(k), c.nic)) < capacity)
    BY <1>4, <2>1, <2>2, <2>3
  <2>5. Load(before(k), c.nic) \in SUBSET Load(P, c.nic)
    BY <1>6 DEF Load
  <2>6. Cardinality(Load(before(k), c.nic)) <= Cardinality(Load(P, c.nic))
    BY <1>8, <2>5, FS_Subset
  <2>7. Cardinality(Load(P, c.nic)) \in Nat /\ Cardinality(Load(before(k), c.nic)) \in Nat
    BY <1>6, <1>8
  <2> QED
    BY <1>9, <2>4, <2>6, <2>7
<1>11. \A p, q \in P : p.gpu = q.gpu => p = q
  BY <1>7 DEF P
<1> QED
  BY <1>3, <1>5, <1>9, <1>10, <1>11 DEF Shares, Filling, P, s

(* Pairs, one to one, use as many NICs as GPUs. *)
OneEach(P) == \A p, q \in P : p.gpu = q.gpu \/ p.nic = q.nic => p = q

(* One-to-one pairs have as many NICs as GPUs. *)
LEMMA AsManyNics ==
  ASSUME NEW P, OneEach(P), IsFiniteSet(PairedGpus(P))
  PROVE  /\ IsFiniteSet(PairedNics(P))
         /\ Cardinality(PairedNics(P)) = Cardinality(PairedGpus(P))
<1> DEFINE G == PairedGpus(P)
           N == PairedNics(P)
           pair(g) == CHOOSE p \in P : p.gpu = g
           f == [g \in G |-> pair(g).nic]
<1>1. \A g \in G : pair(g) \in P /\ pair(g).gpu = g
  BY DEF PairedGpus
<1>2. \A p \in P : p.gpu \in G /\ p.nic \in N /\ pair(p.gpu) = p
  BY <1>1 DEF OneEach, PairedGpus, PairedNics
<1>3. \A c \in N : \E p \in P : p.nic = c
  BY DEF PairedNics
<1> HIDE DEF pair
<1>4. f \in [G -> N]
  BY <1>1, <1>2
<1>5. \A g \in G : f[g] = pair(g).nic
  OBVIOUS
<1> HIDE DEF f, G, N
<1>6. f \in Surjection(G, N)
  BY <1>2, <1>3, <1>4, <1>5 DEF Surjection
<1>7. f \in Injection(G, N)
  <2>1. \A g, h \in G : f[g] = f[h] => g = h
    BY <1>1, <1>5 DEF OneEach
  <2> QED
    BY <1>4, <2>1 DEF Injection, IsInjective
<1>8. IsFiniteSet(N) /\ Cardinality(N) = Cardinality(G)
  BY <1>6, <1>7, FS_Surjection DEF G
<1> QED
  BY <1>8 DEF G, N

(* If no GPU and NIC are both left over, and there are enough NICs, no GPU *)
(* is left over.                                                           *)
LEMMA NoGpuLeft ==
  ASSUME NEW P, OneEach(P), NEW G, NEW N, IsFiniteSet(G), IsFiniteSet(N),
         PairedGpus(P) \in SUBSET G, PairedNics(P) \in SUBSET N,
         \A g \in G, c \in N : g \in PairedGpus(P) \/ c \in PairedNics(P),
         Cardinality(G) <= Cardinality(N)
  PROVE  PairedGpus(P) = G /\ Cardinality(PairedNics(P)) = Cardinality(G)
<1>1. IsFiniteSet(PairedGpus(P)) /\ Cardinality(PairedGpus(P)) <= Cardinality(G)
      /\ (Cardinality(PairedGpus(P)) = Cardinality(G) => PairedGpus(P) = G)
  BY FS_Subset
<1>2. Cardinality(PairedNics(P)) = Cardinality(PairedGpus(P))
  BY <1>1, AsManyNics
<1>3. Cardinality(G) \in Nat /\ Cardinality(N) \in Nat /\ Cardinality(PairedGpus(P)) \in Nat
  BY <1>1, FS_CardinalityType
<1>4. ASSUME PairedGpus(P) # G
      PROVE  FALSE
  <2>1. PairedNics(P) = N
    BY <1>4
  <2> QED
    BY <1>1, <1>2, <1>3, <1>4, <2>1
<1> QED
  BY <1>2, <1>4

(* Each of S in one of the pairs. *)
LEMMA ExactlyOne ==
  ASSUME NEW T, NEW p \in T, \A q \in T : q = p
  PROVE  Cardinality(T) = 1
<1>1. T = {p}
  OBVIOUS
<1> QED
  BY <1>1, FS_Singleton

-----------------------------------------------------------------------------
(* Machines. *)

(* The GPUs and the NICs of a machine are finitely many positions. *)
LEMMA MachineParts ==
  ASSUME NEW m \in Hardware
  PROVE  /\ Len(m.gpus) \in Nat /\ Len(m.nics) \in Nat
         /\ Gpus(m) = 1 .. Len(m.gpus) /\ Nics(m) = 1 .. Len(m.nics)
         /\ Gpus(m) \in SUBSET Int /\ Nics(m) \in SUBSET Int
         /\ IsFiniteSet(Gpus(m)) /\ Cardinality(Gpus(m)) = Len(m.gpus)
         /\ IsFiniteSet(Nics(m)) /\ Cardinality(Nics(m)) = Len(m.nics)
         /\ \A g \in Gpus(m) : m.gpus[g].numa \in Int /\ m.gpus[g].path \in Seq(Int)
         /\ \A c \in Nics(m) : m.nics[c].numa \in Int /\ m.nics[c].path \in Seq(Int)
<1> DEFINE GpuType == [numa : Int, path : Seq(Int)]
           NicType == [numa : Int, path : Seq(Int), dev : Int, fabric : STRING]
<1>1. m.gpus \in Seq(GpuType) /\ m.nics \in Seq(NicType)
  BY DEF Hardware
<1> HIDE DEF GpuType, NicType
<1>2. Len(m.gpus) \in Nat /\ Len(m.nics) \in Nat
  BY <1>1
<1>3. Gpus(m) = 1 .. Len(m.gpus) /\ Nics(m) = 1 .. Len(m.nics)
  BY <1>1 DEF Gpus, Nics
<1>4. \A g \in Gpus(m) : m.gpus[g] \in GpuType
  BY <1>1, <1>2, <1>3
<1>5. \A c \in Nics(m) : m.nics[c] \in NicType
  BY <1>1, <1>2, <1>3
<1>6. \A l \in Nat : IsFiniteSet(1 .. l) /\ Cardinality(1 .. l) = l
  BY FS_Interval
<1>7. IsFiniteSet(Gpus(m)) /\ Cardinality(Gpus(m)) = Len(m.gpus)
      /\ IsFiniteSet(Nics(m)) /\ Cardinality(Nics(m)) = Len(m.nics)
  BY <1>2, <1>3, <1>6
<1>8. Gpus(m) \in SUBSET Int /\ Nics(m) \in SUBSET Int
  BY <1>2, <1>3
<1>9. \A g \in Gpus(m) : m.gpus[g].numa \in Int /\ m.gpus[g].path \in Seq(Int)
  BY <1>4 DEF GpuType
<1>10. \A c \in Nics(m) : m.nics[c].numa \in Int /\ m.nics[c].path \in Seq(Int)
  BY <1>5 DEF NicType
<1> QED
  BY <1>2, <1>3, <1>7, <1>8, <1>9, <1>10

(* The lesser of two numbers is one of them.                               *)
LEMMA MinOfTwo ==
  ASSUME NEW x \in Nat, NEW y \in Nat
  PROVE  Min({x, y}) \in Nat
<1>1. \E l \in {x, y} : \A u \in {x, y} : l <= u
  <2>1. CASE x <= y
    BY <2>1
  <2>2. CASE y <= x
    BY <2>2
  <2> QED
    BY <2>1, <2>2
<1> QED
  BY <1>1 DEF Min

(* The distance of a GPU and a NIC is an integer, with the known paths as  *)
(* well as with the penalty for unknown ones (topology.go, pcieDistance).  *)
LEMMA DistType ==
  ASSUME NEW m \in Hardware, NEW g \in Gpus(m), NEW c \in Nics(m)
  PROVE  Dist(m, g, c) \in Int
<1> DEFINE a == m.gpus[g].path
           b == m.nics[c].path
           k == Min({Len(a), Len(b)})
<1>0. a \in Seq(Int) /\ b \in Seq(Int)
  BY MachineParts
<1>1. Len(a) \in Nat /\ Len(b) \in Nat
  <2> HIDE DEF a, b
  <2> QED
    BY <1>0
<1>2. k \in Int
  <2> HIDE DEF a, b
  <2> QED
    BY <1>1, MinOfTwo
<1> HIDE DEF k
<1>3. IsFiniteSet(1 .. k)
  BY <1>2, FS_Interval
<1>4. SharedPrefix(a, b) \in Nat
  <2> DEFINE S == {i \in 1 .. k : \A j \in 1 .. i : a[j] = b[j]}
  <2>1. S \in SUBSET (1 .. k)
    OBVIOUS
  <2>2. SharedPrefix(a, b) = Cardinality(S)
    BY DEF SharedPrefix, k
  <2> HIDE DEF S
  <2> QED
    BY <1>3, <2>1, <2>2, FS_Subset, FS_CardinalityType
<1> HIDE DEF a, b
<1>5. PCIeDistance(a, b) \in Int /\ UnknownPathPenalty \in Int
  BY <1>1, <1>4 DEF PCIeDistance, UnknownPathPenalty
<1> QED
  BY <1>5 DEF Dist, a, b

(* The candidates before they are sorted. *)
Offer(m, g, n, penalty) == PairOf(g, n, Dist(m, g, n) + penalty)
Offers(m, G, N, penalty) == {Offer(m, g, n, penalty) : g \in G, n \in N}

(* The candidates for some GPUs and NICs: finitely many, and one for each  *)
(* GPU and NIC.                                                            *)
LEMMA OfferFacts ==
  ASSUME NEW m \in Hardware, NEW G \in SUBSET Gpus(m), NEW N \in SUBSET Nics(m),
         NEW penalty \in Int
  PROVE  /\ Candidates(m, G, N, penalty) = NearestFirst(Offers(m, G, N, penalty))
         /\ Offers(m, G, N, penalty) \in SUBSET Candidate
         /\ IsFiniteSet(Offers(m, G, N, penalty))
<1>1. Candidates(m, G, N, penalty) = NearestFirst(Offers(m, G, N, penalty))
  BY DEF Candidates, Offers, Offer
<1>2. \A g \in G, n \in N : Offer(m, g, n, penalty) \in Candidate
  <2> TAKE g \in G
  <2> TAKE n \in N
  <2>1. Dist(m, g, n) + penalty \in Int /\ g \in Int /\ n \in Int
    BY DistType, MachineParts
  <2> QED
    BY <2>1 DEF Offer, PairOf, Candidate
<1>3. IsFiniteSet(G \X N)
  BY MachineParts, FS_Subset, FS_Product
<1>4. IsFiniteSet(Offers(m, G, N, penalty))
  <2> DEFINE D == G \X N
             O == Offers(m, G, N, penalty)
             f == [d \in D |-> Offer(m, d[1], d[2], penalty)]
  <2>1. \A d \in D : f[d] \in O
    BY DEF Offers
  <2>2. \A o \in O : \E d \in D : f[d] = o
    <3> TAKE o \in O
    <3>1. PICK g \in G, n \in N : o = Offer(m, g, n, penalty)
      BY DEF Offers
    <3>2. <<g, n>> \in D /\ f[<<g, n>>] = o
      BY <3>1
    <3> QED
      BY <3>2
  <2> HIDE DEF O
  <2>3. f \in [D -> O]
    BY <2>1
  <2> HIDE DEF f, D
  <2>4. f \in Surjection(D, O)
    BY <2>2, <2>3 DEF Surjection
  <2> QED
    BY <1>3, <2>4, FS_Surjection DEF D, O
<1> QED
  BY <1>1, <1>2, <1>4 DEF Offers

(* P pairs each of the GPUs G with one of the NICs N. *)
PairsEach(P, G, N) ==
  /\ \A p \in P : p.gpu \in G /\ p.nic \in N
  /\ \A g \in G : \E p \in P : p.gpu = g
  /\ \A p, q \in P : p.gpu = q.gpu => p = q

(* A candidate is the offer of its GPU and its NIC. *)
LEMMA OfferParts ==
  ASSUME NEW m, NEW G, NEW N, NEW penalty, NEW p \in Offers(m, G, N, penalty)
  PROVE  p.gpu \in G /\ p.nic \in N /\ p = Offer(m, p.gpu, p.nic, penalty)
BY DEF Offers, Offer, PairOf

(* The GPUs and the NICs of one NUMA node. *)
LEMMA NumaParts ==
  ASSUME NEW m \in Hardware, NEW k
  PROVE  /\ GpusOn(m, k) \in SUBSET Gpus(m) /\ NicsOn(m, k) \in SUBSET Nics(m)
         /\ GpusOn(m, k) \in SUBSET Int /\ IsFiniteSet(GpusOn(m, k))
         /\ NicsOn(m, k) \in SUBSET Int /\ IsFiniteSet(NicsOn(m, k))
         /\ Cardinality(GpusOn(m, k)) \in Nat /\ Cardinality(NicsOn(m, k)) \in Nat
         /\ \A g \in GpusOn(m, k) : m.gpus[g].numa = k
         /\ \A c \in NicsOn(m, k) : m.nics[c].numa = k
<1>1. GpusOn(m, k) \in SUBSET Gpus(m) /\ NicsOn(m, k) \in SUBSET Nics(m)
  BY DEF GpusOn, NicsOn
<1>2. IsFiniteSet(GpusOn(m, k)) /\ IsFiniteSet(NicsOn(m, k))
  BY <1>1, MachineParts, FS_Subset
<1>3. Cardinality(GpusOn(m, k)) \in Nat /\ Cardinality(NicsOn(m, k)) \in Nat
  BY <1>2, FS_CardinalityType
<1>4. GpusOn(m, k) \in SUBSET Int /\ NicsOn(m, k) \in SUBSET Int
  BY <1>1, MachineParts
<1> QED
  BY <1>1, <1>2, <1>3, <1>4 DEF GpusOn, NicsOn

-----------------------------------------------------------------------------
(* The pairing by distance. *)

(* The pairs that the two phases of the distance pairing may make. *)
Proposal(m, g, c) == Offer(m, g, c, IF SameNuma(m, g, c) THEN 0 ELSE CrossNUMAPenalty)
Better(m, p, q) ==
  IF SameNuma(m, p.gpu, p.nic) = SameNuma(m, q.gpu, q.nic)
  THEN Closer(p, q) ELSE SameNuma(m, p.gpu, p.nic)
Stable(P, m) ==
  \A g \in Gpus(m), c \in Nics(m) :
    \E p \in P : (p.gpu = g \/ p.nic = c) /\ ~Better(m, Proposal(m, g, c), p)

WithinOf(m, k) == OneToOne(Candidates(m, GpusOn(m, k), NicsOn(m, k), 0))
Within(m) == UNION {WithinOf(m, k) : k \in Numas(m)}

(* No candidate comes before itself, nor two before each other. *)
LEMMA CloserIrreflexive ==
  ASSUME NEW a \in Candidate, NEW b \in Candidate
  PROVE  ~Closer(a, a) /\ (Closer(a, b) => ~Closer(b, a))
BY DEF Candidate, Closer

(* The first phase of the distance pairing: one-to-one within the NUMA     *)
(* nodes, and of a GPU and a NIC on one node one has a partner there that  *)
(* is not worse.                                                           *)
LEMMA WithinFacts ==
  ASSUME NEW m \in Hardware
  PROVE  /\ OneEach(Within(m))
         /\ \A p \in Within(m) : /\ p \in Candidate /\ p.gpu \in Gpus(m) /\ p.nic \in Nics(m)
                                 /\ SameNuma(m, p.gpu, p.nic)
         /\ \A g \in Gpus(m), c \in Nics(m) : SameNuma(m, g, c) =>
              \E p \in Within(m) : /\ p.gpu = g \/ p.nic = c
                                   /\ ~Closer(Proposal(m, g, c), p)
<1> DEFINE O(k) == Offers(m, GpusOn(m, k), NicsOn(m, k), 0)
           W(k) == WithinOf(m, k)
<1>1. ASSUME NEW k
      PROVE  Matching(W(k), O(k), CloserPairs(O(k))) /\ O(k) \in SUBSET Candidate
  <2>0. GpusOn(m, k) \in SUBSET Gpus(m) /\ NicsOn(m, k) \in SUBSET Nics(m)
    BY NumaParts
  <2>1. /\ Candidates(m, GpusOn(m, k), NicsOn(m, k), 0) = NearestFirst(O(k))
        /\ O(k) \in SUBSET Candidate /\ IsFiniteSet(O(k))
    <3>1. 0 \in Int
      OBVIOUS
    <3> QED
      BY <2>0, <3>1, OfferFacts
  <2> HIDE DEF O
  <2> QED
    BY <2>1, NearestMatch DEF WithinOf
<1>2. ASSUME NEW k, NEW p \in W(k)
      PROVE  /\ p \in Candidate /\ p.gpu \in Gpus(m) /\ p.nic \in Nics(m)
             /\ m.gpus[p.gpu].numa = k /\ m.nics[p.nic].numa = k
  <2>1. p \in O(k) /\ p \in Candidate
    BY <1>1, <1>2 DEF Matching
  <2>2. p.gpu \in GpusOn(m, k) /\ p.nic \in NicsOn(m, k)
    BY <2>1, OfferParts
  <2> QED
    BY <2>1, <2>2, NumaParts
<1> HIDE DEF O, W
<1>3. \A p : p \in Within(m) <=> \E k \in Numas(m) : p \in W(k)
  BY DEF Within, W
<1>4. ASSUME NEW p \in Within(m), NEW q \in Within(m), p.gpu = q.gpu \/ p.nic = q.nic
      PROVE  p = q
  <2>1. PICK k \in Numas(m) : p \in W(k)
    BY <1>3
  <2>2. PICK l \in Numas(m) : q \in W(l)
    BY <1>3
  <2>3. k = l
    BY <1>2, <1>4, <2>1, <2>2
  <2> QED
    BY <1>1, <1>4, <2>1, <2>2, <2>3 DEF Matching
<1>5. ASSUME NEW g \in Gpus(m), NEW c \in Nics(m), SameNuma(m, g, c)
      PROVE  \E p \in Within(m) : (p.gpu = g \/ p.nic = c) /\ ~Closer(Proposal(m, g, c), p)
  <2> DEFINE k == m.gpus[g].numa
             o == Proposal(m, g, c)
  <2>1. k \in Numas(m) /\ g \in GpusOn(m, k) /\ c \in NicsOn(m, k)
    BY <1>5 DEF Numas, GpusOn, NicsOn, SameNuma
  <2>2. o = Offer(m, g, c, 0)
    BY <1>5 DEF Proposal
  <2>3. o \in O(k) /\ o.gpu = g /\ o.nic = c
    BY <2>1, <2>2 DEF O, Offers, Offer, PairOf
  <2> HIDE DEF k, o
  <2>4. PICK p \in W(k) : /\ p = o \/ <<p, o>> \in CloserPairs(O(k))
                          /\ p.gpu = o.gpu \/ p.nic = o.nic
    BY <1>1, <2>3 DEF Matching
  <2>5. p \in Candidate /\ o \in Candidate
    BY <1>1, <1>2, <2>3, <2>4
  <2>6. p = o \/ Closer(p, o)
    BY <2>4 DEF CloserPairs
  <2>7. ~Closer(o, p)
    BY <2>5, <2>6, CloserIrreflexive
  <2>8. p \in Within(m)
    BY <1>3, <2>1, <2>4
  <2> QED
    BY <2>3, <2>4, <2>7, <2>8 DEF o
<1>6. \A p \in Within(m) : /\ p \in Candidate /\ p.gpu \in Gpus(m) /\ p.nic \in Nics(m)
                           /\ SameNuma(m, p.gpu, p.nic)
  BY <1>2, <1>3 DEF SameNuma
<1>7. OneEach(Within(m))
  BY <1>4 DEF OneEach
<1> QED
  BY <1>5, <1>6, <1>7

(* Both phases of the distance pairing: one-to-one, and no GPU and NIC     *)
(* that would both be better off with each other.                          *)
LEMMA DistanceFacts ==
  ASSUME NEW m \in Hardware, NEW P, P = PCIeDistancePairing(m)
  PROVE  /\ OneEach(P) /\ Stable(P, m)
         /\ \A p \in P : p.gpu \in Gpus(m) /\ p.nic \in Nics(m)
<1> DEFINE A == Within(m)
           G == Gpus(m) \ PairedGpus(A)
           N == Nics(m) \ PairedNics(A)
           O == Offers(m, G, N, CrossNUMAPenalty)
           B == OneToOne(Candidates(m, G, N, CrossNUMAPenalty))
<1>1. P = A \cup B
  BY DEF PCIeDistancePairing, Within, WithinOf
<1>2. Matching(B, O, CloserPairs(O)) /\ O \in SUBSET Candidate
  <2>1. G \in SUBSET Gpus(m) /\ N \in SUBSET Nics(m) /\ CrossNUMAPenalty \in Int
    BY DEF CrossNUMAPenalty
  <2> HIDE DEF G, N
  <2>2. /\ Candidates(m, G, N, CrossNUMAPenalty) = NearestFirst(O)
        /\ O \in SUBSET Candidate /\ IsFiniteSet(O)
    BY <2>1, OfferFacts
  <2> HIDE DEF O
  <2> QED
    BY <2>2, NearestMatch
<1> HIDE DEF B
<1>3. \A p \in B : p.gpu \in G /\ p.nic \in N /\ p \in Candidate
  BY <1>2, OfferParts DEF Matching
<1>4. \A p \in A : p.gpu \notin G /\ p.nic \notin N
  BY DEF PairedGpus, PairedNics
<1> HIDE DEF A
<1>5. OneEach(P)
  <2>1. OneEach(A) /\ OneEach(B)
    BY <1>2, WithinFacts DEF Matching, OneEach, A
  <2> HIDE DEF G, N
  <2> QED
    BY <1>1, <1>3, <1>4, <2>1 DEF OneEach
<1>6. \A p \in P : p.gpu \in Gpus(m) /\ p.nic \in Nics(m)
  BY <1>1, <1>3, WithinFacts DEF A
<1>7. ASSUME NEW g \in Gpus(m), NEW c \in Nics(m)
      PROVE  \E p \in P : (p.gpu = g \/ p.nic = c) /\ ~Better(m, Proposal(m, g, c), p)
  <2> DEFINE o == Proposal(m, g, c)
  <2>1. o.gpu = g /\ o.nic = c
    BY DEF Proposal, Offer, PairOf
  <2>2. CASE SameNuma(m, g, c)
    <3>1. PICK p \in A : (p.gpu = g \/ p.nic = c) /\ ~Closer(o, p)
      BY <2>2, WithinFacts DEF A
    <3>2. SameNuma(m, p.gpu, p.nic)
      BY WithinFacts DEF A
    <3> HIDE DEF o
    <3>3. ~Better(m, o, p)
      BY <2>1, <2>2, <3>1, <3>2 DEF Better
    <3> QED
      BY <1>1, <3>1, <3>3 DEF o
  <2>3. CASE ~SameNuma(m, g, c)
    <3>1. \A p : ~Better(m, o, p) <=> (SameNuma(m, p.gpu, p.nic) \/ ~Closer(o, p))
      <4> HIDE DEF o
      <4> QED
        BY <2>1, <2>3 DEF Better, SameNuma
    <3>2. CASE g \notin G \/ c \notin N
      <4>1. PICK p \in A : p.gpu = g \/ p.nic = c
        BY <3>2 DEF PairedGpus, PairedNics
      <4>2. SameNuma(m, p.gpu, p.nic)
        BY WithinFacts DEF A
      <4> QED
        BY <1>1, <3>1, <4>1, <4>2
    <3>3. CASE g \in G /\ c \in N
      <4>1. o \in O
        BY <2>3, <3>3 DEF Proposal, Offers
      <4> HIDE DEF o, O
      <4>2. PICK p \in B : /\ p = o \/ <<p, o>> \in CloserPairs(O)
                           /\ p.gpu = o.gpu \/ p.nic = o.nic
        BY <1>2, <4>1 DEF Matching
      <4>3. p \in Candidate /\ o \in Candidate /\ (p = o \/ Closer(p, o))
        BY <1>2, <1>3, <4>1, <4>2 DEF CloserPairs
      <4>4. ~Closer(o, p)
        BY <4>3, CloserIrreflexive
      <4> QED
        BY <1>1, <2>1, <3>1, <4>2, <4>4 DEF o
    <3> QED
      BY <3>2, <3>3
  <2> QED
    BY <2>2, <2>3
<1>8. Stable(P, m)
  BY <1>7 DEF Stable
<1> QED
  BY <1>5, <1>6, <1>8

(* With enough NICs the distance pairing gives each GPU a NIC of its own. *)
LEMMA DistanceComplete ==
  ASSUME NEW m \in Hardware, NEW P, P = PCIeDistancePairing(m), Len(m.gpus) <= Len(m.nics)
  PROVE  PairsEach(P, Gpus(m), Nics(m)) /\ Cardinality(PairedNics(P)) = Len(m.gpus)
<1>1. /\ OneEach(P) /\ Stable(P, m)
      /\ \A p \in P : p.gpu \in Gpus(m) /\ p.nic \in Nics(m)
  BY DistanceFacts
<1>2. PairedGpus(P) \in SUBSET Gpus(m) /\ PairedNics(P) \in SUBSET Nics(m)
  BY <1>1 DEF PairedGpus, PairedNics
<1>3. \A g \in Gpus(m), c \in Nics(m) : g \in PairedGpus(P) \/ c \in PairedNics(P)
  BY <1>1 DEF Stable, PairedGpus, PairedNics
<1>4. PairedGpus(P) = Gpus(m) /\ Cardinality(PairedNics(P)) = Len(m.gpus)
  BY <1>1, <1>2, <1>3, MachineParts, NoGpuLeft
<1>5. \A g \in Gpus(m) : \E p \in P : p.gpu = g
  BY <1>4 DEF PairedGpus
<1> QED
  BY <1>1, <1>4, <1>5 DEF PairsEach, OneEach

-----------------------------------------------------------------------------
(* The pairings by NUMA node. *)

(* NUMA nodes with GPUs and NICs, and GPUs on a NUMA node without NICs. *)
Homes(m) == {k \in Numas(m) : NicsOn(m, k) # {}}
Stranded(m) == {g \in Gpus(m) : NicsOn(m, m.gpus[g].numa) = {}}

(* The pairs of the NUMA nodes and of the GPUs stranded: each GPU once. *)
LEMMA JoinNodes ==
  ASSUME NEW m \in Hardware, NEW Q, NEW F,
         \A k \in Homes(m) : PairsEach(Q[k], GpusOn(m, k), NicsOn(m, k)),
         PairsEach(F, Stranded(m), Nics(m))
  PROVE  PairsEach((UNION {Q[k] : k \in Homes(m)}) \cup F, Gpus(m), Nics(m))
<1> DEFINE P == (UNION {Q[k] : k \in Homes(m)}) \cup F
<1>1. \A p : p \in P <=> (p \in F \/ \E k \in Homes(m) : p \in Q[k])
  OBVIOUS
<1> HIDE DEF P
<1>2. ASSUME NEW k \in Homes(m), NEW p \in Q[k]
      PROVE  /\ p.gpu \in Gpus(m) \ Stranded(m) /\ p.nic \in Nics(m)
             /\ m.gpus[p.gpu].numa = k
  <2>1. p.gpu \in GpusOn(m, k) /\ p.nic \in NicsOn(m, k)
    BY DEF PairsEach
  <2>2. p.gpu \in Gpus(m) /\ p.nic \in Nics(m) /\ m.gpus[p.gpu].numa = k
    BY <2>1, NumaParts
  <2> QED
    BY <2>2 DEF Homes, Stranded
<1>3. \A p \in F : p.gpu \in Stranded(m) /\ p.nic \in Nics(m)
  BY DEF PairsEach
<1>4. \A p \in P : p.gpu \in Gpus(m) /\ p.nic \in Nics(m)
  BY <1>1, <1>2, <1>3 DEF Stranded
<1>5. ASSUME NEW g \in Gpus(m)
      PROVE  \E p \in P : p.gpu = g
  <2>1. CASE g \in Stranded(m)
    BY <1>1, <2>1 DEF PairsEach
  <2>2. CASE g \notin Stranded(m)
    <3>1. m.gpus[g].numa \in Homes(m) /\ g \in GpusOn(m, m.gpus[g].numa)
      BY <2>2 DEF Stranded, Homes, Numas, GpusOn
    <3> QED
      BY <1>1, <3>1 DEF PairsEach
  <2> QED
    BY <2>1, <2>2
<1>6. ASSUME NEW p \in P, NEW q \in P, p.gpu = q.gpu
      PROVE  p = q
  <2>1. CASE p \in F /\ q \in F
    BY <1>6, <2>1 DEF PairsEach
  <2>2. CASE ~(p \in F /\ q \in F)
    <3>1. p.gpu \notin Stranded(m) \/ q.gpu \notin Stranded(m)
      BY <1>1, <1>2, <2>2
    <3>2. p \notin F /\ q \notin F
      BY <1>3, <1>6, <3>1
    <3>3. PICK k \in Homes(m) : p \in Q[k]
      BY <1>1, <3>2
    <3>4. PICK l \in Homes(m) : q \in Q[l]
      BY <1>1, <3>2
    <3>5. k = l
      BY <1>2, <1>6, <3>3, <3>4
    <3> QED
      BY <1>6, <3>3, <3>4, <3>5 DEF PairsEach
  <2> QED
    BY <2>1, <2>2
<1> QED
  BY <1>4, <1>5, <1>6 DEF PairsEach, P

(* Round and round through n of them. *)
LEMMA RoundAndRound ==
  ASSUME NEW i \in Nat \ {0}, NEW n \in Nat \ {0}
  PROVE  ((i - 1) % n) + 1 \in 1 .. n
OBVIOUS

(* The fallback pairs each GPU whose NUMA node has no NIC. *)
LEMMA FallbackFacts ==
  ASSUME NEW m \in Hardware, Len(m.nics) > 0, NEW hops
  PROVE  PairsEach(Fallback(m, hops), Stranded(m), Nics(m))
<1> DEFINE S == Stranded(m)
           rest == Ascending(S)
           nic(i) == ((i - 1) % Len(m.nics)) + 1
           pair(i) == PairOf(rest[i], nic(i), hops[<<rest[i], nic(i)>>])
           F == {pair(i) : i \in DOMAIN rest}
<1>1. Fallback(m, hops) = F
  BY DEF Fallback, Stranded
<1>2. S \in SUBSET Int /\ IsFiniteSet(S)
  <2>1. S \in SUBSET Gpus(m)
    BY DEF Stranded
  <2> QED
    BY <2>1, MachineParts, FS_Subset
<1> HIDE DEF S
<1>3. Lists(rest, S) /\ \A i, j \in 1 .. Cardinality(S) : rest[i] = rest[j] => i = j
  BY <1>2, AscendingFacts
<1> HIDE DEF rest
<1>4. /\ DOMAIN rest = 1 .. Cardinality(S) /\ \A i \in DOMAIN rest : rest[i] \in S
      /\ \A x \in S : \E i \in DOMAIN rest : rest[i] = x
  BY <1>3, ListFacts
<1>5. \A i \in DOMAIN rest : nic(i) \in Nics(m)
  <2>1. Len(m.nics) \in Nat \ {0} /\ Nics(m) = 1 .. Len(m.nics)
    BY MachineParts
  <2>2. \A i \in DOMAIN rest : i \in Nat \ {0}
    BY <1>3, <1>4 DEF Lists
  <2> QED
    BY <2>1, <2>2, RoundAndRound
<1>6. \A i \in DOMAIN rest : pair(i).gpu = rest[i] /\ pair(i).nic = nic(i)
  BY DEF PairOf
<1> HIDE DEF pair, nic
<1>7. \A i, j \in DOMAIN rest : rest[i] = rest[j] => i = j
  BY <1>3, <1>4
<1>8. \A p \in F : p.gpu \in S /\ p.nic \in Nics(m)
  BY <1>4, <1>5, <1>6
<1>9. \A g \in S : \E p \in F : p.gpu = g
  BY <1>4, <1>6
<1>10. \A p, q \in F : p.gpu = q.gpu => p = q
  BY <1>6, <1>7
<1> HIDE DEF F
<1> QED
  BY <1>1, <1>8, <1>9, <1>10 DEF PairsEach, S

(* The pairing by NUMA affinity pairs each GPU once. *)
LEMMA AffinityComplete ==
  ASSUME NEW m \in Hardware, Len(m.nics) > 0
  PROVE  PairsEach(NUMAAffinityPairing(m), Gpus(m), Nics(m))
<1> DEFINE F == Fallback(m, [gn \in Gpus(m) \X Nics(m) |-> CrossNUMAPenalty])
           gpus(k) == Ascending(GpusOn(m, k))
           nics(k) == Ascending(NicsOn(m, k))
           nic(k, i) == nics(k)[((i - 1) % Len(nics(k))) + 1]
           zipped(k) == {PairOf(gpus(k)[i], nic(k, i), 0) : i \in DOMAIN gpus(k)}
           Q == [k \in Homes(m) |-> zipped(k)]
<1>1. NUMAAffinityPairing(m) = (UNION {zipped(k) : k \in Homes(m)}) \cup F
  BY DEF NUMAAffinityPairing, Homes
<1>2. {zipped(k) : k \in Homes(m)} = {Q[k] : k \in Homes(m)}
  OBVIOUS
<1>3. PairsEach(F, Stranded(m), Nics(m))
  BY FallbackFacts
<1>4. ASSUME NEW k \in Homes(m)
      PROVE  PairsEach(zipped(k), GpusOn(m, k), NicsOn(m, k))
  <2> DEFINE G == GpusOn(m, k)
             N == NicsOn(m, k)
             s == gpus(k)
             t == nics(k)
             n == Len(t)
             pair(i) == PairOf(s[i], nic(k, i), 0)
  <2>1. /\ G \in SUBSET Int /\ IsFiniteSet(G)
        /\ N \in SUBSET Int /\ IsFiniteSet(N) /\ N # {}
    BY NumaParts DEF Homes
  <2> HIDE DEF G, N
  <2>2. /\ Lists(s, G) /\ Lists(t, N)
        /\ \A i, j \in 1 .. Cardinality(G) : s[i] = s[j] => i = j
    BY <2>1, AscendingFacts DEF G, N
  <2>3. n = Cardinality(N) /\ n \in Nat \ {0}
    <3>1. Cardinality(N) \in Nat /\ Cardinality(N) # 0
      BY <2>1, FS_CardinalityType, FS_EmptySet
    <3> QED
      BY <2>2, <3>1, ListFacts
  <2> HIDE DEF s, t
  <2>4. /\ DOMAIN s = 1 .. Cardinality(G) /\ \A i \in DOMAIN s : s[i] \in G
        /\ \A x \in G : \E i \in DOMAIN s : s[i] = x
        /\ Cardinality(G) \in Nat
    BY <2>2, ListFacts DEF Lists
  <2>5. \A i \in 1 .. n : t[i] \in N
    BY <2>2, <2>3, ListFacts
  <2>6. ASSUME NEW i \in DOMAIN s
        PROVE  nic(k, i) \in N /\ pair(i).gpu = s[i] /\ pair(i).nic = nic(k, i)
    <3>1. i \in Nat \ {0}
      BY <2>4
    <3>2. ((i - 1) % n) + 1 \in 1 .. n
      BY <2>3, <3>1, RoundAndRound
    <3>3. nic(k, i) \in N
      BY <2>5, <3>2 DEF t
    <3> QED
      BY <3>3 DEF PairOf
  <2>7. \A i, j \in DOMAIN s : s[i] = s[j] => i = j
    BY <2>2, <2>4
  <2>8. zipped(k) = {pair(i) : i \in DOMAIN s}
    BY DEF s
  <2> HIDE DEF pair, zipped, nic
  <2>9. \A p \in zipped(k) : p.gpu \in G /\ p.nic \in N
    BY <2>4, <2>6, <2>8
  <2>10. \A g \in G : \E p \in zipped(k) : p.gpu = g
    BY <2>4, <2>6, <2>8
  <2>11. \A p, q \in zipped(k) : p.gpu = q.gpu => p = q
    BY <2>6, <2>7, <2>8
  <2> QED
    BY <2>9, <2>10, <2>11 DEF PairsEach, G, N
<1> HIDE DEF zipped, F
<1>5. \A k \in Homes(m) : PairsEach(Q[k], GpusOn(m, k), NicsOn(m, k))
  BY <1>4
<1> HIDE DEF Q
<1>6. PairsEach((UNION {Q[k] : k \in Homes(m)}) \cup F, Gpus(m), Nics(m))
  BY <1>3, <1>5, JoinNodes
<1> QED
  BY <1>1, <1>2, <1>6

(* The NIC's nearest GPU is well defined. *)
LEMMA MultiNICComplete ==
  ASSUME NEW m \in Hardware, Len(m.gpus) > 0, NEW P, P = MultiNICPCIePairing(m)
  PROVE  /\ \A p \in P : p.gpu \in Gpus(m) /\ p.nic \in Nics(m)
         /\ \A c \in Nics(m) : \E p \in P : p.nic = c
         /\ \A p, q \in P : p.nic = q.nic => p = q
<1> DEFINE hops(g, n) ==
             IF Dist(m, g, n) < UnknownPathPenalty THEN Dist(m, g, n) ELSE UnknownPathPenalty
           offer(g, n) == PairOf(g, n, hops(g, n))
           nearest(n) == CHOOSE g \in Gpus(m) : \A h \in Gpus(m) : ~Closer(offer(h, n), offer(g, n))
<1>1. P = {offer(nearest(n), n) : n \in Nics(m)}
  BY DEF MultiNICPCIePairing
<1>2. ASSUME NEW n \in Nics(m)
      PROVE  nearest(n) \in Gpus(m)
  <2> DEFINE S == {offer(g, n) : g \in Gpus(m)}
             s == NearestFirst(S)
  <2>1. S \in SUBSET Candidate /\ IsFiniteSet(S)
    <3> DEFINE f == [g \in Gpus(m) |-> offer(g, n)]
    <3>1. ASSUME NEW g \in Gpus(m) PROVE offer(g, n) \in Candidate
      <4>1. Dist(m, g, n) \in Int /\ UnknownPathPenalty \in Int /\ g \in Int /\ n \in Int
        BY DistType, MachineParts DEF UnknownPathPenalty
      <4>2. hops(g, n) \in Int
        BY <4>1
      <4> HIDE DEF hops
      <4> QED
        BY <4>1, <4>2 DEF PairOf, Candidate
    <3>2. IsFiniteSet(Gpus(m))
      BY MachineParts
    <3> HIDE DEF offer
    <3>3. f \in Surjection(Gpus(m), S)
      BY DEF Surjection
    <3> QED
      BY <3>1, <3>2, <3>3, FS_Surjection
  <2> HIDE DEF offer
  <2>2. \A h \in Gpus(m) : offer(h, n) \in S
    OBVIOUS
  <2>3. \A x \in S : \E g \in Gpus(m) : x = offer(g, n)
    OBVIOUS
  <2>4. S # {}
    <3>1. 1 \in Gpus(m)
      BY MachineParts
    <3> QED
      BY <2>2, <3>1
  <2> HIDE DEF S
  <2>5. /\ Lists(s, S)
        /\ \A i, j \in 1 .. Cardinality(S) : i < j => Closer(s[i], s[j])
    BY <2>1, NearestFirstFacts
  <2> HIDE DEF s
  <2>6. /\ DOMAIN s = 1 .. Cardinality(S) /\ Cardinality(S) \in Nat
        /\ \A i \in DOMAIN s : s[i] \in S
        /\ \A x \in S : \E i \in DOMAIN s : s[i] = x
    BY <2>5, ListFacts DEF Lists
  <2>7. 1 \in DOMAIN s
    BY <2>4, <2>6
  <2>8. PICK g \in Gpus(m) : s[1] = offer(g, n)
    BY <2>3, <2>6, <2>7
  <2>9. ASSUME NEW h \in Gpus(m)
        PROVE  ~Closer(offer(h, n), offer(g, n))
    <3>1. offer(h, n) \in S
      BY <2>2
    <3>2. PICK i \in DOMAIN s : s[i] = offer(h, n)
      BY <2>6, <3>1
    <3>3. s[i] = s[1] \/ Closer(s[1], s[i])
      BY <2>5, <2>6, <2>7
    <3>4. s[1] \in Candidate /\ s[i] \in Candidate
      BY <2>1, <2>6, <2>7
    <3> QED
      BY <2>8, <3>2, <3>3, <3>4, CloserIrreflexive
  <2>10. \E x \in Gpus(m) : \A h \in Gpus(m) : ~Closer(offer(h, n), offer(x, n))
    BY <2>9
  <2> QED
    BY <2>10
<1> HIDE DEF nearest
<1> DEFINE pair(n) == offer(nearest(n), n)
<1>3. \A n : pair(n).gpu = nearest(n) /\ pair(n).nic = n
  BY DEF PairOf
<1>4. P = {pair(n) : n \in Nics(m)}
  BY <1>1
<1> HIDE DEF pair
<1> QED
  BY <1>2, <1>3, <1>4

-----------------------------------------------------------------------------
(* The pairing by load. *)

(* Capacity is the number of GPUs for each NIC, rounded up. *)
LEMMA CapacityFacts ==
  ASSUME NEW g \in Nat, NEW n \in Nat \ {0}
  PROVE  /\ Capacity(g, n) \in Nat
         /\ g <= Capacity(g, n) * n
         /\ \A x \in Nat : x <= Capacity(g, n) => (x - 1) * n < g
<1> DEFINE q == (g + n - 1) \div n
           r == (g + n - 1) % n
<1>1. q \in Nat /\ r \in 0 .. n - 1 /\ g + n - 1 = n * q + r
  OBVIOUS
<1>2. Capacity(g, n) = q
  BY DEF Capacity
<1> HIDE DEF q, r
<1>3. n * q \in Int /\ q * n = n * q
  BY <1>1
<1>4. g <= q * n
  BY <1>1, <1>3
<1>5. ASSUME NEW x \in Nat, x <= q
      PROVE  (x - 1) * n < g
  <2>1. (q - 1) * n = q * n - n
    BY <1>1
  <2>2. (x - 1) * n <= (q - 1) * n
    <3>1. x - 1 \in Int /\ q - 1 \in Int /\ x - 1 <= q - 1
      BY <1>1, <1>5
    <3>2. \A a, b \in Int : a <= b => a * n <= b * n
      OBVIOUS
    <3> QED
      BY <3>1, <3>2
  <2>3. (x - 1) * n \in Int
    BY <1>5
  <2>4. (q - 1) * n < g
    BY <1>1, <1>3, <2>1
  <2> QED
    BY <1>1, <1>3, <2>1, <2>2, <2>3, <2>4
<1> QED
  BY <1>1, <1>2, <1>4, <1>5

(* NICs that all carry the same load. *)
LEMMA FullLoad ==
  ASSUME NEW P, IsFiniteSet(P), NEW N, IsFiniteSet(N), NEW capacity \in Nat,
         \A c \in N : Cardinality(Load(P, c)) = capacity
  PROVE  Cardinality({p \in P : p.nic \in N}) = capacity * Cardinality(N)
<1> DEFINE On(T) == {p \in P : p.nic \in T}
           F == {T \in SUBSET N : Cardinality(On(T)) = capacity * Cardinality(T)}
<1>1. {} \in F
  <2>1. On({}) = {}
    OBVIOUS
  <2>2. Cardinality({}) = 0 /\ capacity * 0 = 0
    BY FS_EmptySet
  <2> QED
    BY <2>1, <2>2
<1>2. ASSUME NEW T \in SUBSET N, NEW x \in N \ T, T \in F
      PROVE  T \cup {x} \in F
  <2>1. On(T \cup {x}) = On(T) \cup Load(P, x) /\ On(T) \cap Load(P, x) = {}
    BY DEF Load
  <2>2. On(T) \in SUBSET P /\ Load(P, x) \in SUBSET P
    BY DEF Load
  <2>3. Cardinality(On(T)) = capacity * Cardinality(T)
    BY <1>2
  <2> HIDE DEF On
  <2>4. IsFiniteSet(On(T)) /\ IsFiniteSet(Load(P, x)) /\ IsFiniteSet(T)
    BY <2>2, FS_Subset
  <2>5. Cardinality(On(T) \cup Load(P, x)) =
          Cardinality(On(T)) + Cardinality(Load(P, x)) - Cardinality({})
    BY <2>1, <2>4, FS_Union
  <2>6. Cardinality({}) = 0
    BY FS_EmptySet
  <2>7. Cardinality(T) \in Nat /\ Cardinality(T \cup {x}) = Cardinality(T) + 1
    BY <2>4, <1>2, OneMore
  <2>8. capacity * (Cardinality(T) + 1) = capacity * Cardinality(T) + capacity
    BY <2>7
  <2>9. capacity * Cardinality(T) \in Int
    BY <2>7
  <2>10. Cardinality(On(T \cup {x})) = capacity * Cardinality(T) + capacity
    <3>1. Cardinality(Load(P, x)) = capacity
      OBVIOUS
    <3> DEFINE y == capacity * Cardinality(T)
    <3>2. Cardinality(On(T \cup {x})) = y + capacity - 0
      BY <2>1, <2>3, <2>5, <2>6, <3>1
    <3>3. y \in Int
      BY <2>9
    <3> HIDE DEF y
    <3> QED
      BY <3>2, <3>3 DEF y
  <2> QED
    BY <2>7, <2>8, <2>10, <1>2
<1> HIDE DEF F
<1>3. N \in F
  BY <1>1, <1>2, SetInduction
<1> QED
  BY <1>3 DEF F

(* A NUMA node whose NICs share its GPUs. *)
LEMMA BalancedNode ==
  ASSUME NEW m \in Hardware, NEW k \in Homes(m), NEW Q,
         Q = Shared(Candidates(m, GpusOn(m, k), NicsOn(m, k), 0),
                    Capacity(Cardinality(GpusOn(m, k)), Cardinality(NicsOn(m, k))))
  PROVE  /\ PairsEach(Q, GpusOn(m, k), NicsOn(m, k))
         /\ \A c : /\ IsFiniteSet(Load(Q, c))
                   /\ (Cardinality(Load(Q, c)) - 1) * Cardinality(NicsOn(m, k))
                         < Cardinality(GpusOn(m, k))
<1> DEFINE G == GpusOn(m, k)
           N == NicsOn(m, k)
           S == Offers(m, G, N, 0)
           capacity == Capacity(Cardinality(G), Cardinality(N))
<1>1. /\ G \in SUBSET Gpus(m) /\ N \in SUBSET Nics(m) /\ N # {} /\ 0 \in Int
      /\ IsFiniteSet(G) /\ IsFiniteSet(N)
      /\ Cardinality(G) \in Nat /\ Cardinality(N) \in Nat
  BY NumaParts DEF Homes
<1>2. Candidates(m, G, N, 0) = NearestFirst(S) /\ S \in SUBSET Candidate /\ IsFiniteSet(S)
  <2> HIDE DEF G, N
  <2> QED
    BY <1>1, OfferFacts
<1>3. Q = Shared(NearestFirst(S), capacity)
  BY <1>2
<1> HIDE DEF G, N
<1>4. Cardinality(N) \in Nat \ {0}
  BY <1>1, FS_EmptySet
<1>5. /\ capacity \in Nat /\ Cardinality(G) <= capacity * Cardinality(N)
      /\ \A x \in Nat : x <= capacity => (x - 1) * Cardinality(N) < Cardinality(G)
  BY <1>1, <1>4, CapacityFacts
<1> HIDE DEF capacity
<1>6. \A p \in S : p.gpu \in G /\ p.nic \in N
  BY OfferParts
<1>7. \A g \in G, c \in N : \E p \in S : p.gpu = g /\ p.nic = c
  <2> TAKE g \in G
  <2> TAKE c \in N
  <2>1. Offer(m, g, c, 0) \in S /\ Offer(m, g, c, 0).gpu = g /\ Offer(m, g, c, 0).nic = c
    BY DEF Offers, Offer, PairOf
  <2> QED
    BY <2>1
<1> HIDE DEF S
<1>8. Filling(Q, S, capacity)
  BY <1>2, <1>3, <1>5, SharedFills
<1>9. /\ Q \in SUBSET S /\ \A p, q \in Q : p.gpu = q.gpu => p = q
      /\ \A c : Cardinality(Load(Q, c)) <= capacity
      /\ \A c \in S : (\E p \in Q : p.gpu = c.gpu) \/ Cardinality(Load(Q, c.nic)) = capacity
  BY <1>8 DEF Filling
<1>10. IsFiniteSet(Q)
  BY <1>2, <1>9, FS_Subset
<1>11. ASSUME NEW g \in G, \A p \in Q : p.gpu # g
       PROVE  FALSE
  <2> DEFINE H == G \ {g}
             f == [p \in Q |-> p.gpu]
  <2>1. \A c \in N : Cardinality(Load(Q, c)) = capacity
    BY <1>7, <1>9, <1>11
  <2>2. Cardinality({p \in Q : p.nic \in N}) = capacity * Cardinality(N)
    BY <1>1, <1>5, <1>10, <2>1, FullLoad
  <2>3. {p \in Q : p.nic \in N} = Q
    BY <1>6, <1>9
  <2>4. f \in [Q -> H] /\ \A p, q \in Q : f[p] = f[q] => p = q
    BY <1>6, <1>9, <1>11
  <2>5. IsFiniteSet(H) /\ Cardinality(H) = Cardinality(G) - 1
    BY <1>1, <1>11, FS_RemoveElement
  <2> HIDE DEF f, H
  <2>6. f \in Injection(Q, H)
    BY <2>4 DEF Injection, IsInjective
  <2>7. Cardinality(Q) <= Cardinality(H)
    BY <2>5, <2>6, FS_Injection
  <2>8. Cardinality(Q) \in Nat
    BY <1>10, FS_CardinalityType
  <2>9. Cardinality(Q) = capacity * Cardinality(N)
    BY <2>2, <2>3
  <2> QED
    BY <1>1, <1>5, <2>5, <2>7, <2>8, <2>9
<1>12. PairsEach(Q, G, N)
  BY <1>6, <1>9, <1>11 DEF PairsEach
<1>13. ASSUME NEW c
       PROVE  /\ IsFiniteSet(Load(Q, c))
              /\ (Cardinality(Load(Q, c)) - 1) * Cardinality(N) < Cardinality(G)
  <2>1. Load(Q, c) \in SUBSET Q
    BY DEF Load
  <2>2. IsFiniteSet(Load(Q, c)) /\ Cardinality(Load(Q, c)) \in Nat
    BY <1>10, <2>1, FS_Subset, FS_CardinalityType
  <2> QED
    BY <1>5, <1>9, <2>2
<1> QED
  BY <1>12, <1>13 DEF G, N

BalancedOf(m, k) ==
  Shared(Candidates(m, GpusOn(m, k), NicsOn(m, k), 0),
         Capacity(Cardinality(GpusOn(m, k)), Cardinality(NicsOn(m, k))))

(* What property Balanced says of the pairs P of a machine. *)
FairShares(P, m) ==
  /\ \A p \in P : SameNuma(m, p.gpu, p.nic) \/ NicsOn(m, m.gpus[p.gpu].numa) = {}
  /\ \A c \in Nics(m) :
       (Cardinality({p \in P : p.nic = c /\ SameNuma(m, p.gpu, c)}) - 1)
         * Cardinality(NicsOn(m, m.nics[c].numa))
       < Cardinality(GpusOn(m, m.nics[c].numa))

(* The balanced pairing pairs each GPU once, and no NIC has more than its  *)
(* share of the GPUs on its NUMA node.                                     *)
LEMMA LoadBalanceFacts ==
  ASSUME NEW m \in Hardware, Len(m.nics) > 0, NEW P, P = NUMALoadBalancePairing(m)
  PROVE  PairsEach(P, Gpus(m), Nics(m)) /\ FairShares(P, m)
<1> DEFINE F == Fallback(m, [gn \in Gpus(m) \X Nics(m) |->
                              Dist(m, gn[1], gn[2]) + CrossNUMAPenalty])
           Q == [k \in Homes(m) |-> BalancedOf(m, k)]
<1>1. P = (UNION {BalancedOf(m, k) : k \in Homes(m)}) \cup F
  BY DEF NUMALoadBalancePairing, Homes, BalancedOf
<1>2. {BalancedOf(m, k) : k \in Homes(m)} = {Q[k] : k \in Homes(m)}
  OBVIOUS
<1>3. PairsEach(F, Stranded(m), Nics(m))
  BY FallbackFacts
<1> HIDE DEF F
<1>4. ASSUME NEW k \in Homes(m)
      PROVE  /\ PairsEach(Q[k], GpusOn(m, k), NicsOn(m, k))
             /\ \A c : /\ IsFiniteSet(Load(Q[k], c))
                       /\ (Cardinality(Load(Q[k], c)) - 1) * Cardinality(NicsOn(m, k))
                             < Cardinality(GpusOn(m, k))
  <2>1. Q[k] = BalancedOf(m, k)
    OBVIOUS
  <2> HIDE DEF Q
  <2> QED
    BY <2>1, BalancedNode DEF BalancedOf
<1> HIDE DEF Q
<1>5. PairsEach(P, Gpus(m), Nics(m))
  <2>1. \A k \in Homes(m) : PairsEach(Q[k], GpusOn(m, k), NicsOn(m, k))
    BY <1>4
  <2>2. PairsEach((UNION {Q[k] : k \in Homes(m)}) \cup F, Gpus(m), Nics(m))
    BY <1>3, <2>1, JoinNodes
  <2> QED
    BY <1>1, <1>2, <2>2
<1>6. \A p : p \in P <=> (p \in F \/ \E k \in Homes(m) : p \in Q[k])
  BY <1>1, <1>2
<1>7. ASSUME NEW p \in P
      PROVE  SameNuma(m, p.gpu, p.nic) \/ NicsOn(m, m.gpus[p.gpu].numa) = {}
  <2>1. CASE p \in F
    BY <1>3, <2>1 DEF PairsEach, Stranded
  <2>2. CASE \E k \in Homes(m) : p \in Q[k]
    <3>1. PICK k \in Homes(m) : p \in Q[k]
      BY <2>2
    <3>2. p.gpu \in GpusOn(m, k) /\ p.nic \in NicsOn(m, k)
      BY <1>4, <3>1 DEF PairsEach
    <3>3. m.gpus[p.gpu].numa = k /\ m.nics[p.nic].numa = k
      BY <3>2, NumaParts
    <3> QED
      BY <3>3 DEF SameNuma
  <2> QED
    BY <1>6, <2>1, <2>2
<1>8. ASSUME NEW c \in Nics(m)
      PROVE  (Cardinality({p \in P : p.nic = c /\ SameNuma(m, p.gpu, c)}) - 1)
               * Cardinality(NicsOn(m, m.nics[c].numa))
             < Cardinality(GpusOn(m, m.nics[c].numa))
  <2> DEFINE k == m.nics[c].numa
             L == {p \in P : p.nic = c /\ SameNuma(m, p.gpu, c)}
             n == Cardinality(NicsOn(m, k))
             g == Cardinality(GpusOn(m, k))
  <2>1. c \in NicsOn(m, k)
    BY DEF NicsOn
  <2>2. n \in Nat \ {0} /\ g \in Nat
    <3>1. IsFiniteSet(NicsOn(m, k)) /\ n \in Nat /\ g \in Nat
      BY NumaParts
    <3> QED
      BY <2>1, <3>1, FS_EmptySet
  <2>3. \A p \in L : p \in P /\ p.nic = c /\ m.gpus[p.gpu].numa = k
    BY DEF SameNuma
  <2>4. CASE k \in Homes(m)
    <3>1. ASSUME NEW p \in L PROVE p \in Load(Q[k], c)
      <4>1. p \notin F
        BY <1>3, <2>1, <2>3 DEF PairsEach, Stranded
      <4>2. PICK j \in Homes(m) : p \in Q[j]
        BY <1>6, <2>3, <4>1
      <4>3. j = k
        <5>1. p.gpu \in GpusOn(m, j)
          BY <1>4, <4>2 DEF PairsEach
        <5>2. m.gpus[p.gpu].numa = j
          BY <5>1, NumaParts
        <5> QED
          BY <5>2, <2>3
      <4> QED
        BY <2>3, <4>2, <4>3 DEF Load
    <3>0. L \in SUBSET Load(Q[k], c)
      BY <3>1
    <3> HIDE DEF k, L, n, g
    <3>2. IsFiniteSet(Load(Q[k], c)) /\ (Cardinality(Load(Q[k], c)) - 1) * n < g
      BY <1>4, <2>4 DEF n, g
    <3>3. Cardinality(L) <= Cardinality(Load(Q[k], c)) /\ IsFiniteSet(L)
      BY <3>0, <3>2, FS_Subset
    <3>4. Cardinality(L) \in Nat /\ Cardinality(Load(Q[k], c)) \in Nat
      BY <3>2, <3>3, FS_CardinalityType
    <3> DEFINE a == Cardinality(L) - 1
               b == Cardinality(Load(Q[k], c)) - 1
    <3>5. a \in Int /\ b \in Int /\ a <= b
      BY <3>3, <3>4
    <3>6. b * n < g
      BY <3>2
    <3> HIDE DEF a, b
    <3>7. a * n <= b * n /\ a * n \in Int /\ b * n \in Int
      BY <3>5, <2>2
    <3>8. a * n < g
      BY <3>6, <3>7, <2>2
    <3> QED
      BY <3>8 DEF a, L, k, n, g
  <2>5. CASE k \notin Homes(m)
    <3>1. k \notin Numas(m)
      BY <2>1, <2>5 DEF Homes
    <3>2. L = {}
      BY <1>5, <2>3, <3>1 DEF PairsEach, Numas
    <3>3. Cardinality(L) = 0
      BY <3>2, FS_EmptySet
    <3>4. (Cardinality(L) - 1) * n < g
      <4> HIDE DEF n, g, L
      <4>1. (0 - 1) * n = 0 - n
        BY <2>2
      <4> QED
        BY <2>2, <3>3, <4>1
    <3> QED
      BY <3>4
  <2> QED
    BY <2>4, <2>5
<1> QED
  BY <1>5, <1>7, <1>8 DEF FairShares

-----------------------------------------------------------------------------
(* The pairing by measured bandwidth. *)

RowOf(m, bw, g, n) == [gpu |-> g, nic |-> n, hops |-> 0, bw |-> bw[<<g, n>>]]

(* No row comes before itself, nor two before each other, and a row that   *)
(* comes first is not slower.                                              *)
LEMMA FasterFacts ==
  ASSUME NEW a \in Row, NEW b \in Row
  PROVE  /\ ~Faster(a, a) /\ (Faster(a, b) => ~Faster(b, a))
         /\ Faster(a, b) => a.bw >= b.bw
BY DEF Row, Faster

(* The measured rows. *)
LEMMA MeasuredFacts ==
  ASSUME NEW m \in Hardware, NEW bw \in [Gpus(m) \X Nics(m) -> Nat]
  PROVE  /\ Measured(m, bw) \in SUBSET Row /\ IsFiniteSet(Measured(m, bw))
         /\ \A g \in Gpus(m), n \in Nics(m) : RowOf(m, bw, g, n) \in Measured(m, bw)
         /\ \A r \in Measured(m, bw) :
              /\ r.gpu \in Gpus(m) /\ r.nic \in Nics(m)
              /\ r.bw = bw[<<r.gpu, r.nic>>] /\ r.bw \in Nat
              /\ r = RowOf(m, bw, r.gpu, r.nic)
<1> DEFINE D == Gpus(m) \X Nics(m)
           O == Measured(m, bw)
           f == [d \in D |-> RowOf(m, bw, d[1], d[2])]
<1>0. O = {RowOf(m, bw, g, n) : g \in Gpus(m), n \in Nics(m)}
  BY DEF Measured, RowOf
<1> HIDE DEF O
<1>1. \A g \in Gpus(m), n \in Nics(m) : RowOf(m, bw, g, n) \in O
  BY <1>0
<1>2. ASSUME NEW r \in O
      PROVE  \E g \in Gpus(m), n \in Nics(m) : r = RowOf(m, bw, g, n)
  BY <1>0
<1>3. \A g \in Gpus(m), n \in Nics(m) : bw[<<g, n>>] \in Nat /\ g \in Int /\ n \in Int
  BY MachineParts
<1>4. ASSUME NEW r \in O
      PROVE  /\ r.gpu \in Gpus(m) /\ r.nic \in Nics(m)
             /\ r.bw = bw[<<r.gpu, r.nic>>] /\ r.bw \in Nat
             /\ r = RowOf(m, bw, r.gpu, r.nic) /\ r \in Row
  <2>1. PICK g \in Gpus(m), n \in Nics(m) : r = RowOf(m, bw, g, n)
    BY <1>2
  <2>2. r.gpu = g /\ r.nic = n /\ r.bw = bw[<<g, n>>]
    BY <2>1 DEF RowOf
  <2>3. r \in Row
    BY <1>3, <2>1 DEF RowOf, Row
  <2> QED
    BY <1>3, <2>1, <2>2, <2>3
<1>5. IsFiniteSet(O)
  <2>1. IsFiniteSet(D)
    BY MachineParts, FS_Product
  <2>2. \A d \in D : f[d] \in O
    BY <1>1
  <2>3. \A o \in O : \E d \in D : f[d] = o
    <3> TAKE o \in O
    <3>1. PICK g \in Gpus(m), n \in Nics(m) : o = RowOf(m, bw, g, n)
      BY <1>2
    <3>2. <<g, n>> \in D /\ f[<<g, n>>] = o
      BY <3>1
    <3> QED
      BY <3>2
  <2>4. f \in [D -> O]
    BY <2>2
  <2> HIDE DEF f, D
  <2>5. f \in Surjection(D, O)
    BY <2>3, <2>4 DEF Surjection
  <2> QED
    BY <2>1, <2>5, FS_Surjection
<1>6. O \in SUBSET Row
  BY <1>4
<1> QED
  BY <1>1, <1>4, <1>5, <1>6 DEF O

FirstPhase(m, bw) == OneToOne(ByBandwidth(Measured(m, bw)))

(* The pairs of the first phase; every row gives way to one of them. *)
LEMMA FirstPhaseFacts ==
  ASSUME NEW m \in Hardware, NEW bw \in [Gpus(m) \X Nics(m) -> Nat],
         NEW P, P = FirstPhase(m, bw)
  PROVE  /\ P \in SUBSET Measured(m, bw) /\ OneEach(P)
         /\ \A g \in Gpus(m), n \in Nics(m) :
              \E p \in P : (p.gpu = g \/ p.nic = n) /\ p.bw >= bw[<<g, n>>]
         /\ PairedGpus(P) \in SUBSET Gpus(m) /\ PairedNics(P) \in SUBSET Nics(m)
<1> DEFINE R == Measured(m, bw)
<1>1. R \in SUBSET Row /\ IsFiniteSet(R)
  BY MeasuredFacts
<1>2. P = OneToOne(ByBandwidth(R))
  BY DEF FirstPhase
<1> HIDE DEF R
<1>3. Matching(P, R, FasterPairs(R))
  BY <1>1, <1>2, FastestMatch
<1>4. \A r \in R : /\ r.gpu \in Gpus(m) /\ r.nic \in Nics(m) /\ r.bw \in Nat
  BY MeasuredFacts DEF R
<1>5. ASSUME NEW g \in Gpus(m), NEW n \in Nics(m)
      PROVE  \E p \in P : (p.gpu = g \/ p.nic = n) /\ p.bw >= bw[<<g, n>>]
  <2> DEFINE r == RowOf(m, bw, g, n)
  <2>1. r \in R /\ r.gpu = g /\ r.nic = n /\ r.bw = bw[<<g, n>>]
    BY MeasuredFacts DEF RowOf, R
  <2> HIDE DEF r
  <2>2. PICK p \in P : (p = r \/ <<p, r>> \in FasterPairs(R)) /\ (p.gpu = r.gpu \/ p.nic = r.nic)
    BY <1>3, <2>1 DEF Matching
  <2>3. p \in R /\ p \in Row /\ r \in Row
    BY <1>1, <1>3, <2>1 DEF Matching
  <2>4. p = r \/ Faster(p, r)
    BY <2>2 DEF FasterPairs
  <2>5. p.bw >= r.bw
    BY <1>4, <2>1, <2>3, <2>4, FasterFacts
  <2> QED
    BY <2>1, <2>2, <2>5
<1>6. OneEach(P)
  BY <1>3 DEF Matching, OneEach
<1>7. P \in SUBSET R
  BY <1>3 DEF Matching
<1>8. PairedGpus(P) \in SUBSET Gpus(m) /\ PairedNics(P) \in SUBSET Nics(m)
  BY <1>4, <1>7 DEF PairedGpus, PairedNics
<1> QED
  BY <1>5, <1>6, <1>7, <1>8 DEF R

(* The pairs turned around, to say of NICs what was shown of GPUs. *)
LEMMA AllNicsPaired ==
  ASSUME NEW P, OneEach(P), NEW G, NEW N, IsFiniteSet(G), IsFiniteSet(N),
         PairedGpus(P) \in SUBSET G, PairedNics(P) \in SUBSET N,
         \A g \in G, c \in N : g \in PairedGpus(P) \/ c \in PairedNics(P),
         Cardinality(N) < Cardinality(G)
  PROVE  PairedNics(P) = N
<1>1. /\ IsFiniteSet(PairedGpus(P)) /\ IsFiniteSet(PairedNics(P))
      /\ Cardinality(PairedNics(P)) <= Cardinality(N)
  BY FS_Subset
<1>2. Cardinality(PairedNics(P)) = Cardinality(PairedGpus(P))
  BY <1>1, AsManyNics
<1>3. PairedGpus(P) # G
  BY <1>1, <1>2, FS_CardinalityType
<1>4. PICK g \in G : g \notin PairedGpus(P)
  BY <1>3
<1> QED
  BY <1>4

(* The three parts of the pairing. *)
FastestOf(m, bw, g) == ByBandwidth({r \in Measured(m, bw) : r.gpu = g})[1]
LeftOver(m, bw) == Gpus(m) \ PairedGpus(FirstPhase(m, bw))
StuckOf(m, bw) == {g \in LeftOver(m, bw) : FastestOf(m, bw, g).bw = 0}
NextNic(m, bw, i) ==
  LET order == ByBandwidth(FirstPhase(m, bw))
  IN  order[((i - 1) % Len(order)) + 1].nic
StuckPair(m, bw, i) ==
  [gpu |-> Ascending(StuckOf(m, bw))[i], nic |-> NextNic(m, bw, i), hops |-> 0, bw |-> 0]

(* BandwidthOptimalPairing by its three parts. *)
LEMMA BandwidthParts ==
  ASSUME NEW m, NEW bw
  PROVE  BandwidthOptimalPairing(m, bw) =
           (FirstPhase(m, bw)
             \cup {FastestOf(m, bw, g) : g \in {g \in LeftOver(m, bw) : FastestOf(m, bw, g).bw > 0}})
             \cup {StuckPair(m, bw, i) : i \in DOMAIN Ascending(StuckOf(m, bw))}
BY DEF BandwidthOptimalPairing, FirstPhase, FastestOf, LeftOver, StuckOf, StuckPair, NextNic

(* The row of a GPU that is sorted first is one of the fastest it has. *)
LEMMA FastestFacts ==
  ASSUME NEW m \in Hardware, NEW bw \in [Gpus(m) \X Nics(m) -> Nat],
         NEW g \in Gpus(m), Len(m.nics) > 0
  PROVE  /\ FastestOf(m, bw, g) \in Measured(m, bw) /\ FastestOf(m, bw, g).gpu = g
         /\ \A n \in Nics(m) : FastestOf(m, bw, g).bw >= bw[<<g, n>>]
<1> DEFINE S == {r \in Measured(m, bw) : r.gpu = g}
           s == ByBandwidth(S)
<1>1. S \in SUBSET Row /\ IsFiniteSet(S) /\ S \in SUBSET Measured(m, bw)
  BY MeasuredFacts, FS_Subset
<1>2. \A n \in Nics(m) : RowOf(m, bw, g, n) \in S
  BY MeasuredFacts DEF RowOf
<1>3. 1 \in Nics(m)
  BY MachineParts
<1>4. \A r \in S : r.gpu = g /\ r.bw \in Nat
  BY MeasuredFacts
<1>5. FastestOf(m, bw, g) = s[1]
  BY DEF FastestOf
<1> HIDE DEF S
<1>6. /\ Lists(s, S)
      /\ \A i, j \in 1 .. Cardinality(S) : i < j => Faster(s[i], s[j])
  BY <1>1, ByBandwidthFacts
<1> HIDE DEF s
<1>7. /\ DOMAIN s = 1 .. Cardinality(S) /\ Cardinality(S) \in Nat
      /\ \A i \in DOMAIN s : s[i] \in S
      /\ \A x \in S : \E i \in DOMAIN s : s[i] = x
  BY <1>6, ListFacts DEF Lists
<1>8. 1 \in DOMAIN s
  BY <1>2, <1>3, <1>7
<1>9. \A r \in S : s[1].bw >= r.bw
  <2> TAKE r \in S
  <2>1. PICK i \in DOMAIN s : s[i] = r
    BY <1>7
  <2>2. r = s[1] \/ Faster(s[1], r)
    BY <1>6, <1>7, <1>8, <2>1
  <2>3. s[1] \in Row /\ r \in Row /\ r.bw \in Nat
    BY <1>1, <1>4, <1>7, <1>8
  <2> QED
    BY <2>2, <2>3, FasterFacts
<1>10. \A n \in Nics(m) : s[1].bw >= bw[<<g, n>>]
  <2> TAKE n \in Nics(m)
  <2>1. RowOf(m, bw, g, n).bw = bw[<<g, n>>]
    BY DEF RowOf
  <2> QED
    BY <1>2, <1>9, <2>1
<1> QED
  BY <1>1, <1>4, <1>5, <1>7, <1>8, <1>10

(* The NIC that a GPU without measurements gets is one of the machine. *)
LEMMA NextNicFacts ==
  ASSUME NEW m \in Hardware, NEW bw \in [Gpus(m) \X Nics(m) -> Nat],
         Len(m.gpus) > 0, Len(m.nics) > 0, NEW i \in Nat \ {0}
  PROVE  NextNic(m, bw, i) \in Nics(m)
<1> DEFINE P == FirstPhase(m, bw)
           s == ByBandwidth(P)
<1>1. /\ P \in SUBSET Measured(m, bw)
      /\ \A g \in Gpus(m), n \in Nics(m) :
           \E p \in P : (p.gpu = g \/ p.nic = n) /\ p.bw >= bw[<<g, n>>]
  BY FirstPhaseFacts
<1>2. P \in SUBSET Row /\ IsFiniteSet(P) /\ \A p \in P : p.nic \in Nics(m)
  BY <1>1, MeasuredFacts, FS_Subset
<1>3. P # {}
  <2>1. 1 \in Gpus(m) /\ 1 \in Nics(m)
    BY MachineParts
  <2> HIDE DEF P
  <2> QED
    BY <1>1, <2>1
<1>4. NextNic(m, bw, i) = s[((i - 1) % Len(s)) + 1].nic
  BY DEF NextNic
<1> HIDE DEF P
<1>5. Lists(s, P)
  BY <1>2, ByBandwidthFacts
<1> HIDE DEF s
<1>6. /\ Len(s) = Cardinality(P) /\ DOMAIN s = 1 .. Cardinality(P)
      /\ \A j \in DOMAIN s : s[j] \in P
  BY <1>5, ListFacts
<1>7. Cardinality(P) \in Nat \ {0}
  BY <1>2, <1>3, FS_CardinalityType, FS_EmptySet
<1>8. ((i - 1) % Len(s)) + 1 \in DOMAIN s
  BY <1>6, <1>7, RoundAndRound
<1> QED
  BY <1>2, <1>4, <1>6, <1>8

(* The list of no elements has no positions. *)
LEMMA EmptyList ==
  ASSUME NEW S, S = {}
  PROVE  DOMAIN Ascending(S) = {}
<1>1. S \in SUBSET Int /\ IsFiniteSet(S) /\ Cardinality(S) = 0
  BY FS_EmptySet
<1>2. DOMAIN Ascending(S) = 1 .. 0
  BY <1>1, AscendingFacts, ListFacts
<1> QED
  BY <1>2

(* With enough NICs the first phase is all. *)
LEMMA EnoughNics ==
  ASSUME NEW m \in Hardware, NEW bw \in [Gpus(m) \X Nics(m) -> Nat],
         Len(m.gpus) > 0, Len(m.gpus) <= Len(m.nics)
  PROVE  LET P == BandwidthOptimalPairing(m, bw)
         IN  /\ P = FirstPhase(m, bw)
             /\ PairsEach(P, Gpus(m), Nics(m))
             /\ Cardinality(PairedNics(P)) = Len(m.gpus)
<1> DEFINE P == FirstPhase(m, bw)
<1>1. /\ P \in SUBSET Measured(m, bw) /\ OneEach(P)
      /\ \A g \in Gpus(m), n \in Nics(m) :
           \E p \in P : (p.gpu = g \/ p.nic = n) /\ p.bw >= bw[<<g, n>>]
      /\ PairedGpus(P) \in SUBSET Gpus(m) /\ PairedNics(P) \in SUBSET Nics(m)
  BY FirstPhaseFacts
<1>2. \A g \in Gpus(m), n \in Nics(m) : g \in PairedGpus(P) \/ n \in PairedNics(P)
  <2> HIDE DEF P
  <2> QED
    BY <1>1 DEF PairedGpus, PairedNics
<1>3. PairedGpus(P) = Gpus(m) /\ Cardinality(PairedNics(P)) = Len(m.gpus)
  <2> HIDE DEF P
  <2> QED
    BY <1>1, <1>2, MachineParts, NoGpuLeft
<1>4. LeftOver(m, bw) = {}
  BY <1>3 DEF LeftOver
<1>5. StuckOf(m, bw) = {}
  BY <1>4 DEF StuckOf
<1>6. DOMAIN Ascending(StuckOf(m, bw)) = {}
  BY <1>5, EmptyList
<1>7. BandwidthOptimalPairing(m, bw) = P
  BY <1>4, <1>6, BandwidthParts
<1>8. \A p \in P : p.gpu \in Gpus(m) /\ p.nic \in Nics(m)
  BY <1>1, MeasuredFacts
<1>9. PairsEach(P, Gpus(m), Nics(m))
  <2> HIDE DEF P
  <2> QED
    BY <1>1, <1>3, <1>8 DEF PairsEach, OneEach, PairedGpus
<1> QED
  BY <1>3, <1>7, <1>9

(* The pairs P are those of the first phase, F, those of GPUs that were    *)
(* measured but have no NIC of their own, X, and those of the GPUs S that  *)
(* could not be measured, Y.                                               *)
Phases(P, F, X, Y, S, m, bw) ==
  LET left == Gpus(m) \ PairedGpus(F)
  IN  /\ P = (F \cup X) \cup Y
      /\ S \in SUBSET left
      /\ PairsEach(X, left \ S, Nics(m)) /\ PairsEach(Y, S, Nics(m))
      /\ \A p \in X : bw[<<p.gpu, p.nic>>] > 0
      /\ \A p \in X : p.bw > 0
      /\ \A g \in S, n \in Nics(m) : ~(bw[<<g, n>>] > 0)

(* The GPUs that the first phase left over are paired in the second, those *)
(* that were measured with a NIC that they were measured with.             *)
LEMMA SecondPhase ==
  ASSUME NEW m \in Hardware, NEW bw \in [Gpus(m) \X Nics(m) -> Nat],
         Len(m.gpus) > 0, Len(m.nics) > 0
  PROVE  \E X, Y, S : Phases(BandwidthOptimalPairing(m, bw), FirstPhase(m, bw), X, Y, S, m, bw)
<1> DEFINE S == StuckOf(m, bw)
           L == LeftOver(m, bw)
           stuck == Ascending(S)
           fast(g) == FastestOf(m, bw, g)
           X == {fast(g) : g \in L \ S}
           Y == {StuckPair(m, bw, i) : i \in DOMAIN stuck}
<1>1. L \in SUBSET Gpus(m) /\ S \in SUBSET L /\ L = Gpus(m) \ PairedGpus(FirstPhase(m, bw))
  BY DEF LeftOver, StuckOf
<1>2. S \in SUBSET Int /\ IsFiniteSet(S)
  BY <1>1, MachineParts, FS_Subset
<1>3. \A g \in Gpus(m) : /\ fast(g).gpu = g /\ fast(g).nic \in Nics(m)
                         /\ fast(g).bw \in Nat
                         /\ fast(g).bw = bw[<<g, fast(g).nic>>]
                         /\ \A n \in Nics(m) : fast(g).bw >= bw[<<g, n>>]
  <2> TAKE g \in Gpus(m)
  <2> DEFINE r == FastestOf(m, bw, g)
  <2>1. r \in Measured(m, bw) /\ r.gpu = g /\ \A n \in Nics(m) : r.bw >= bw[<<g, n>>]
    BY FastestFacts
  <2> HIDE DEF r
  <2>2. r.nic \in Nics(m) /\ r.bw = bw[<<r.gpu, r.nic>>] /\ r.bw \in Nat
    BY <2>1, MeasuredFacts
  <2> QED
    BY <2>1, <2>2 DEF r
<1> HIDE DEF fast
<1>4. \A g \in L : g \in S <=> fast(g).bw = 0
  BY DEF StuckOf, fast
<1>5. \A g \in L : g \in Gpus(m) /\ fast(g).bw \in Nat
  BY <1>1, <1>3
<1> HIDE DEF S, L, Y, X
<1>6. \A g \in L \ S : fast(g).bw > 0
  BY <1>4, <1>5
<1>7. \A g \in L : fast(g).bw > 0 <=> g \notin S
  BY <1>4, <1>5
<1>8. BandwidthOptimalPairing(m, bw) = (FirstPhase(m, bw) \cup X) \cup Y
  <2>1. {g \in L : fast(g).bw > 0} = L \ S
    BY <1>7
  <2>2. {fast(g) : g \in {g \in L : fast(g).bw > 0}} = X
    BY <2>1 DEF X
  <2>3. Y = {StuckPair(m, bw, i) : i \in DOMAIN Ascending(StuckOf(m, bw))}
    BY DEF Y, stuck, S
  <2>4. X = {FastestOf(m, bw, g) : g \in {g \in LeftOver(m, bw) : FastestOf(m, bw, g).bw > 0}}
    <3> HIDE DEF X
    <3> QED
      BY <2>2 DEF L, fast
  <2> HIDE DEF X, Y
  <2> QED
    BY <2>3, <2>4, BandwidthParts
<1>9. ASSUME NEW g \in S, NEW n \in Nics(m)
      PROVE  ~(bw[<<g, n>>] > 0)
  <2>1. fast(g).bw = 0 /\ g \in Gpus(m)
    BY <1>1, <1>4
  <2>2. bw[<<g, n>>] \in Nat
    BY <2>1
  <2>3. fast(g).bw >= bw[<<g, n>>]
    BY <1>3, <2>1
  <2> QED
    BY <2>1, <2>2, <2>3
<1>10. PairsEach(X, L \ S, Nics(m))
  <2>1. \A g \in L \ S : fast(g).gpu = g /\ fast(g).nic \in Nics(m)
    BY <1>1, <1>3
  <2>2. \A p \in X : \E g \in L \ S : p = fast(g) /\ p.gpu = g /\ p.nic \in Nics(m)
    BY <2>1 DEF X
  <2>3. \A g \in L \ S : fast(g) \in X /\ fast(g).gpu = g
    BY <2>1 DEF X
  <2> HIDE DEF X
  <2> QED
    BY <2>2, <2>3 DEF PairsEach
<1>11. ASSUME NEW p \in X
       PROVE  bw[<<p.gpu, p.nic>>] > 0 /\ p.bw > 0
  <2>1. PICK g \in L \ S : p = fast(g)
    BY DEF X
  <2>2. p.gpu = g /\ p.bw = bw[<<g, p.nic>>] /\ p.bw > 0
    BY <1>1, <1>3, <1>6, <2>1
  <2> QED
    BY <2>2
<1>12. Lists(stuck, S) /\ \A i, j \in 1 .. Cardinality(S) : stuck[i] = stuck[j] => i = j
  BY <1>2, AscendingFacts
<1> HIDE DEF stuck
<1>13. /\ DOMAIN stuck = 1 .. Cardinality(S) /\ Cardinality(S) \in Nat
       /\ \A i \in DOMAIN stuck : stuck[i] \in S
       /\ \A x \in S : \E i \in DOMAIN stuck : stuck[i] = x
  BY <1>12, ListFacts DEF Lists
<1>14. ASSUME NEW i \in DOMAIN stuck
       PROVE  StuckPair(m, bw, i).gpu = stuck[i] /\ StuckPair(m, bw, i).nic \in Nics(m)
  <2>1. i \in Nat \ {0}
    BY <1>13
  <2>2. NextNic(m, bw, i) \in Nics(m)
    BY <2>1, NextNicFacts
  <2> QED
    BY <2>2 DEF StuckPair, stuck, S
<1>15. PairsEach(Y, S, Nics(m))
  BY <1>12, <1>13, <1>14 DEF PairsEach, Y
<1>16. Phases(BandwidthOptimalPairing(m, bw), FirstPhase(m, bw), X, Y, S, m, bw)
  BY <1>1, <1>8, <1>9, <1>10, <1>11, <1>15 DEF Phases
<1> QED
  BY <1>16

(* The pairing by bandwidth pairs each GPU once, and with enough NICs each *)
(* with a NIC of its own.                                                  *)
LEMMA BandwidthComplete ==
  ASSUME NEW m \in Hardware, NEW bw \in [Gpus(m) \X Nics(m) -> Nat],
         Len(m.gpus) > 0, Len(m.nics) > 0,
         NEW P, P = BandwidthOptimalPairing(m, bw)
  PROVE  /\ PairsEach(P, Gpus(m), Nics(m))
         /\ Len(m.gpus) <= Len(m.nics) => Cardinality(PairedNics(P)) = Len(m.gpus)
<1> DEFINE F == FirstPhase(m, bw)
           G == PairedGpus(F)
<1>1. PICK X, Y, S : Phases(P, F, X, Y, S, m, bw)
  BY SecondPhase
<1>2. /\ OneEach(F) /\ \A p \in F : p.gpu \in Gpus(m) /\ p.nic \in Nics(m)
      /\ G \in SUBSET Gpus(m)
  BY FirstPhaseFacts, MeasuredFacts
<1> HIDE DEF F
<1>3. PairsEach(F, G, Nics(m))
  BY <1>2 DEF PairsEach, PairedGpus, OneEach
<1>4. /\ P = (F \cup X) \cup Y /\ S \in SUBSET (Gpus(m) \ G)
      /\ PairsEach(X, (Gpus(m) \ G) \ S, Nics(m)) /\ PairsEach(Y, S, Nics(m))
  BY <1>1 DEF Phases
<1> HIDE DEF G
<1>5. \A g \in Gpus(m) : g \in G \/ g \in (Gpus(m) \ G) \ S \/ g \in S
  OBVIOUS
<1>6. PairsEach(P, Gpus(m), Nics(m))
  <2>1. \A p \in P : p.gpu \in Gpus(m) /\ p.nic \in Nics(m)
    BY <1>2, <1>3, <1>4 DEF PairsEach
  <2>2. \A g \in Gpus(m) : \E p \in P : p.gpu = g
    BY <1>3, <1>4, <1>5 DEF PairsEach
  <2>3. \A p, q \in P : p.gpu = q.gpu => p = q
    BY <1>2, <1>3, <1>4 DEF PairsEach
  <2> QED
    BY <2>1, <2>2, <2>3 DEF PairsEach
<1>7. ASSUME Len(m.gpus) <= Len(m.nics)
      PROVE  Cardinality(PairedNics(P)) = Len(m.gpus)
  BY <1>7, EnoughNics
<1> QED
  BY <1>6, <1>7

(* With fewer NICs than GPUs. *)
LEMMA FewNics ==
  ASSUME NEW m \in Hardware, NEW bw \in [Gpus(m) \X Nics(m) -> Nat],
         Len(m.gpus) > Len(m.nics), Len(m.nics) > 0,
         NEW P, P = BandwidthOptimalPairing(m, bw)
  PROVE  /\ PairedNics(P) = Nics(m)
         /\ \A p \in P : p.bw = 0 /\ (\E c \in Nics(m) : bw[<<p.gpu, c>>] > 0) =>
              \A q \in P \ {p} : q.nic = p.nic => ~(\E c \in Nics(m) : bw[<<q.gpu, c>>] > 0)
<1> DEFINE F == FirstPhase(m, bw)
           G == PairedGpus(F)
<1>0. Len(m.gpus) > 0
  BY MachineParts
<1>1. PICK X, Y, S : Phases(P, F, X, Y, S, m, bw)
  BY <1>0, SecondPhase
<1>2. /\ OneEach(F) /\ \A p \in F : p.gpu \in Gpus(m) /\ p.nic \in Nics(m) /\ p.bw \in Nat
      /\ \A g \in Gpus(m), n \in Nics(m) :
           \E p \in F : (p.gpu = g \/ p.nic = n) /\ p.bw >= bw[<<g, n>>]
      /\ G \in SUBSET Gpus(m) /\ PairedNics(F) \in SUBSET Nics(m)
  BY FirstPhaseFacts, MeasuredFacts
<1> HIDE DEF F
<1>3. \A p \in F : p.gpu \in G
  BY DEF PairedGpus
<1>4. /\ P = (F \cup X) \cup Y /\ S \in SUBSET (Gpus(m) \ G)
      /\ PairsEach(X, (Gpus(m) \ G) \ S, Nics(m)) /\ PairsEach(Y, S, Nics(m))
      /\ \A p \in X : bw[<<p.gpu, p.nic>>] > 0
      /\ \A p \in X : p.bw > 0
      /\ \A g \in S, n \in Nics(m) : ~(bw[<<g, n>>] > 0)
  BY <1>1 DEF Phases
<1>5. \A g \in Gpus(m), n \in Nics(m) : bw[<<g, n>>] \in Nat
  OBVIOUS
<1> HIDE DEF G
<1>6. PairedNics(F) = Nics(m)
  <2>1. \A g \in Gpus(m), n \in Nics(m) : g \in PairedGpus(F) \/ n \in PairedNics(F)
    BY <1>2 DEF PairedGpus, PairedNics
  <2>2. Cardinality(Nics(m)) < Cardinality(Gpus(m)) /\ IsFiniteSet(Gpus(m)) /\ IsFiniteSet(Nics(m))
    BY MachineParts
  <2> QED
    BY <1>2, <2>1, <2>2, AllNicsPaired DEF G
<1>7. PairedNics(P) = Nics(m)
  <2>1. \A p \in P : p.nic \in Nics(m)
    BY <1>2, <1>4 DEF PairsEach
  <2>2. F \in SUBSET P
    BY <1>4
  <2>3. PairedNics(F) \in SUBSET PairedNics(P) /\ PairedNics(P) \in SUBSET Nics(m)
    BY <2>1, <2>2 DEF PairedNics
  <2> QED
    BY <1>6, <2>3
<1>8. ASSUME NEW p \in P, p.bw = 0, NEW c \in Nics(m), bw[<<p.gpu, c>>] > 0,
             NEW q \in P, q # p, q.nic = p.nic, NEW d \in Nics(m), bw[<<q.gpu, d>>] > 0
      PROVE  FALSE
  <2>1. \A r \in P : (\E n \in Nics(m) : bw[<<r.gpu, n>>] > 0) => r \notin Y
    BY <1>4 DEF PairsEach
  <2>2. p \notin X
    BY <1>4, <1>8
  <2>3. p \in F
    BY <1>4, <1>8, <2>1, <2>2
  <2>4. q \notin F
    BY <1>2, <1>8, <2>3 DEF OneEach
  <2>5. q \in X
    BY <1>4, <1>8, <2>1, <2>4
  <2>6. q.gpu \in Gpus(m) \ G /\ q.nic \in Nics(m) /\ bw[<<q.gpu, q.nic>>] > 0
    BY <1>4, <2>5 DEF PairsEach
  <2>7. PICK r \in F : (r.gpu = q.gpu \/ r.nic = q.nic) /\ r.bw >= bw[<<q.gpu, q.nic>>]
    BY <1>2, <2>6
  <2>8. r = p
    BY <1>2, <1>3, <1>8, <2>3, <2>6, <2>7 DEF OneEach
  <2>9. bw[<<q.gpu, q.nic>>] \in Nat
    BY <1>5, <2>6
  <2> QED
    BY <1>8, <2>6, <2>7, <2>8, <2>9
<1> QED
  BY <1>7, <1>8

-----------------------------------------------------------------------------
(* What it is worth: half of the best, by charging. *)

(* A sum of natural numbers is counted in units: speed[x] of each x. *)
UnitsOf(S, speed) == UNION {{x} \X (1 .. speed[x]) : x \in S}

(* A unit is an element and a number up to its speed. *)
LEMMA UnitMembers ==
  ASSUME NEW S, NEW speed
  PROVE  /\ \A x \in S : \A u \in 1 .. speed[x] : <<x, u>> \in UnitsOf(S, speed)
         /\ \A y \in UnitsOf(S, speed) :
              y = <<y[1], y[2]>> /\ y[1] \in S /\ y[2] \in 1 .. speed[y[1]]
BY DEF UnitsOf

(* The numbers from 1 to l are l numbers. *)
LEMMA IntervalFacts ==
  ASSUME NEW l \in Nat
  PROVE  IsFiniteSet(1 .. l) /\ Cardinality(1 .. l) = l
<1>1. 1 \in Int /\ l \in Int
  OBVIOUS
<1> QED
  BY <1>1, FS_Interval

(* The units of finitely many elements are finitely many. *)
LEMMA UnitsFinite ==
  ASSUME NEW S, IsFiniteSet(S), NEW speed \in [S -> Nat]
  PROVE  IsFiniteSet(UnitsOf(S, speed))
<1> DEFINE F == {T \in SUBSET S : IsFiniteSet(UnitsOf(T, speed))}
<1>1. {} \in F
  <2>1. UnitsOf({}, speed) = {}
    BY DEF UnitsOf
  <2> QED
    BY <2>1, FS_EmptySet
<1>2. ASSUME NEW T \in SUBSET S, NEW x \in S \ T, T \in F
      PROVE  T \cup {x} \in F
  <2> DEFINE A == UnitsOf(T, speed)
             B == {x} \X (1 .. speed[x])
  <2>1. UnitsOf(T \cup {x}, speed) = A \cup B
    BY DEF UnitsOf
  <2>2. IsFiniteSet(1 .. speed[x]) /\ IsFiniteSet({x})
    <3>1. speed[x] \in Nat
      OBVIOUS
    <3> QED
      BY <3>1, IntervalFacts, FS_Singleton
  <2>3. IsFiniteSet(B)
    BY <2>2, FS_Product
  <2>4. IsFiniteSet(A)
    BY <1>2
  <2> HIDE DEF A, B
  <2>5. IsFiniteSet(A \cup B)
    BY <2>3, <2>4, FS_Union
  <2> QED
    BY <2>1, <2>5
<1> HIDE DEF F
<1>3. S \in F
  BY <1>1, <1>2, SetInduction
<1> QED
  BY <1>3 DEF F

(* If each x of S is charged to an element of its own in D that has as     *)
(* much, the sum over S is not more than the sum over D.                   *)
LEMMA Charged ==
  ASSUME NEW S, NEW speed \in [S -> Nat], NEW D, IsFiniteSet(D), NEW value \in [D -> Nat],
         NEW h \in [S -> D], \A x, y \in S : h[x] = h[y] => x = y,
         \A x \in S : speed[x] <= value[h[x]]
  PROVE  Cardinality(UnitsOf(S, speed)) <= Cardinality(UnitsOf(D, value))
<1> DEFINE A == UnitsOf(S, speed)
           B == UnitsOf(D, value)
           charge == [y \in A |-> <<h[y[1]], y[2]>>]
<1>1. \A y \in A : y = <<y[1], y[2]>> /\ y[1] \in S /\ y[2] \in 1 .. speed[y[1]]
  BY UnitMembers
<1>2. \A x \in D : \A u \in 1 .. value[x] : <<x, u>> \in B
  BY UnitMembers
<1>3. IsFiniteSet(B)
  BY UnitsFinite
<1> HIDE DEF A, B
<1>4. ASSUME NEW y \in A
      PROVE  <<h[y[1]], y[2]>> \in B
  <2>1. y[1] \in S /\ y[2] \in 1 .. speed[y[1]] /\ h[y[1]] \in D
    BY <1>1
  <2>2. y[2] \in 1 .. value[h[y[1]]]
    BY <2>1
  <2> QED
    BY <1>2, <2>1, <2>2
<1>5. charge \in [A -> B] /\ \A y \in A : charge[y] = <<h[y[1]], y[2]>>
  BY <1>4
<1> HIDE DEF charge
<1>6. ASSUME NEW y \in A, NEW z \in A, charge[y] = charge[z]
      PROVE  y = z
  <2>1. <<h[y[1]], y[2]>> = <<h[z[1]], z[2]>>
    BY <1>5, <1>6
  <2>2. h[y[1]] = h[z[1]] /\ y[2] = z[2]
    BY <2>1
  <2>3. y[1] = z[1]
    BY <1>1, <2>2
  <2> QED
    BY <1>1, <2>2, <2>3
<1>7. charge \in Injection(A, B)
  BY <1>5, <1>6 DEF Injection, IsInjective
<1>8. Cardinality(A) <= Cardinality(B)
  BY <1>3, <1>7, FS_Injection
<1> QED
  BY <1>8 DEF A, B

(* Two copies of each element have twice as much. *)
LEMMA TwoCopies ==
  ASSUME NEW P, IsFiniteSet(P), NEW value \in [P -> Nat],
         NEW twice, twice = [d \in P \X {1, 2} |-> value[d[1]]]
  PROVE  /\ IsFiniteSet(P \X {1, 2}) /\ twice \in [P \X {1, 2} -> Nat]
         /\ Cardinality(UnitsOf(P \X {1, 2}, twice)) <= 2 * Cardinality(UnitsOf(P, value))
<1> DEFINE A == UnitsOf(P \X {1, 2}, twice)
           B == UnitsOf(P, value)
           E == B \X {1, 2}
           swap == [y \in A |-> <<<<y[1][1], y[2]>>, y[1][2]>>]
<1>1. IsFiniteSet({1, 2}) /\ Cardinality({1, 2}) = 2
  <2>1. {1, 2} = 1 .. 2
    OBVIOUS
  <2> QED
    BY <2>1, IntervalFacts
<1>2. IsFiniteSet(P \X {1, 2})
  BY <1>1, FS_Product
<1>3. twice \in [P \X {1, 2} -> Nat]
  OBVIOUS
<1>4. \A y \in A : y = <<y[1], y[2]>> /\ y[1] \in P \X {1, 2} /\ y[2] \in 1 .. twice[y[1]]
  BY UnitMembers
<1>5. \A x \in P : \A u \in 1 .. value[x] : <<x, u>> \in B
  BY UnitMembers
<1>6. IsFiniteSet(B)
  BY UnitsFinite
<1> HIDE DEF A, B
<1>7. IsFiniteSet(E) /\ Cardinality(E) = Cardinality(B) * 2 /\ Cardinality(B) \in Nat
  BY <1>1, <1>6, FS_Product, FS_CardinalityType
<1>8. ASSUME NEW y \in A
      PROVE  /\ <<<<y[1][1], y[2]>>, y[1][2]>> \in E
             /\ y = <<<<y[1][1], y[1][2]>>, y[2]>>
  <2>1. y[1] \in P \X {1, 2} /\ y[2] \in 1 .. twice[y[1]]
    BY <1>4
  <2>2. y[1][1] \in P /\ y[1][2] \in {1, 2} /\ y[1] = <<y[1][1], y[1][2]>>
    BY <2>1
  <2>3. twice[y[1]] = value[y[1][1]]
    BY <2>1
  <2> QED
    BY <1>4, <1>5, <2>1, <2>2, <2>3
<1> HIDE DEF E
<1>9. swap \in [A -> E] /\ \A y \in A : swap[y] = <<<<y[1][1], y[2]>>, y[1][2]>>
  BY <1>8
<1> HIDE DEF swap
<1>10. ASSUME NEW y \in A, NEW z \in A, swap[y] = swap[z]
       PROVE  y = z
  <2>1. <<<<y[1][1], y[2]>>, y[1][2]>> = <<<<z[1][1], z[2]>>, z[1][2]>>
    BY <1>9, <1>10
  <2>2. <<y[1][1], y[2]>> = <<z[1][1], z[2]>> /\ y[1][2] = z[1][2]
    BY <2>1
  <2>3. y[1][1] = z[1][1] /\ y[2] = z[2]
    BY <2>2
  <2> QED
    BY <1>8, <2>2, <2>3
<1>11. swap \in Injection(A, E)
  BY <1>9, <1>10 DEF Injection, IsInjective
<1>12. Cardinality(A) <= Cardinality(E)
  BY <1>7, <1>11, FS_Injection
<1>13. Cardinality(A) <= 2 * Cardinality(B)
  BY <1>7, <1>12
<1> QED
  BY <1>2, <1>3, <1>13 DEF A, B

(* The bandwidth of the pairs P, and of a choice f of a NIC for each GPU. *)
BwOf(P) == [p \in P |-> p.bw]
BwOfChoice(m, bw, f) == [g \in Gpus(m) |-> bw[<<g, f[g]>>]]

(* The bandwidths of pairs and of choices are natural numbers. *)
LEMMA BwTypes ==
  ASSUME NEW m \in Hardware, NEW bw \in [Gpus(m) \X Nics(m) -> Nat],
         NEW f \in [Gpus(m) -> Nics(m)], NEW P \in SUBSET Measured(m, bw)
  PROVE  /\ BwOf(P) \in [P -> Nat] /\ IsFiniteSet(P)
         /\ BwOfChoice(m, bw, f) \in [Gpus(m) -> Nat]
<1>1. IsFiniteSet(P) /\ \A p \in P : p.bw \in Nat
  BY MeasuredFacts, FS_Subset
<1>2. \A g \in Gpus(m) : bw[<<g, f[g]>>] \in Nat
  OBVIOUS
<1> QED
  BY <1>1, <1>2 DEF BwOf, BwOfChoice

(* The greedy pairs have half of what any choice has: each GPU is charged  *)
(* to the pair that took it, or to the pair that took its NIC, and no pair *)
(* is charged more than twice.                                             *)
LEMMA HalfOfBest ==
  ASSUME NEW m \in Hardware, NEW bw \in [Gpus(m) \X Nics(m) -> Nat],
         NEW f \in [Gpus(m) -> Nics(m)], \A g, h \in Gpus(m) : g # h => f[g] # f[h],
         NEW P, P = FirstPhase(m, bw)
  PROVE  Cardinality(UnitsOf(Gpus(m), BwOfChoice(m, bw, f))) <= 2 * Cardinality(UnitsOf(P, BwOf(P)))
<1> DEFINE G == Gpus(m)
           D == P \X {1, 2}
           speed == BwOfChoice(m, bw, f)
           value == BwOf(P)
           twice == [d \in D |-> value[d[1]]]
           blocks(p, g) == (p.gpu = g \/ p.nic = f[g]) /\ p.bw >= bw[<<g, f[g]>>]
           blocker == [g \in G |-> CHOOSE p \in P : blocks(p, g)]
           side == [g \in G |-> IF blocker[g].gpu = g THEN 1 ELSE 2]
           h == [g \in G |-> <<blocker[g], side[g]>>]
<1>1. /\ P \in SUBSET Measured(m, bw)
      /\ \A g \in G, n \in Nics(m) :
           \E p \in P : (p.gpu = g \/ p.nic = n) /\ p.bw >= bw[<<g, n>>]
  BY FirstPhaseFacts
<1>2. value \in [P -> Nat] /\ IsFiniteSet(P) /\ speed \in [G -> Nat]
  BY <1>1, BwTypes
<1>3. /\ \A p \in P : value[p] = p.bw
      /\ \A g \in G : speed[g] = bw[<<g, f[g]>>]
  BY DEF BwOf, BwOfChoice
<1>4. ASSUME NEW g \in G
      PROVE  blocker[g] \in P /\ blocks(blocker[g], g)
  <2>1. \E p \in P : blocks(p, g)
    BY <1>1
  <2> HIDE DEF blocks
  <2> QED
    BY <2>1
<1>5. \A g \in G : side[g] \in {1, 2} /\ (side[g] = 1 <=> blocker[g].gpu = g)
  OBVIOUS
<1>6. blocker \in [G -> P] /\ side \in [G -> {1, 2}]
  BY <1>4
<1> HIDE DEF blocker, side, speed, value
<1>7. /\ h \in [G -> D] /\ \A g \in G : h[g] = <<blocker[g], side[g]>>
  BY <1>6
<1>8. ASSUME NEW g \in G, NEW i \in G, h[g] = h[i]
      PROVE  g = i
  <2>1. <<blocker[g], side[g]>> = <<blocker[i], side[i]>>
    BY <1>7, <1>8
  <2>2. blocker[g] = blocker[i] /\ side[g] = side[i]
    BY <2>1
  <2>3. CASE side[g] = 1
    <3>1. blocker[g].gpu = g /\ blocker[i].gpu = i
      BY <1>5, <2>2, <2>3
    <3> QED
      BY <2>2, <3>1
  <2>4. CASE side[g] # 1
    <3>1. blocker[g].nic = f[g] /\ blocker[i].nic = f[i]
      BY <1>4, <1>5, <2>2, <2>4
    <3> QED
      BY <2>2, <3>1
  <2> QED
    BY <2>3, <2>4
<1>9. ASSUME NEW g \in G
      PROVE  speed[g] <= twice[h[g]]
  <2>1. h[g] \in D /\ h[g][1] = blocker[g]
    BY <1>7
  <2>2. twice[h[g]] = value[blocker[g]]
    BY <2>1
  <2>3. blocker[g].bw >= bw[<<g, f[g]>>] /\ blocker[g] \in P
    BY <1>4
  <2>4. value[blocker[g]] >= speed[g]
    BY <1>3, <2>3
  <2> HIDE DEF twice, h
  <2>5. value[blocker[g]] \in Nat /\ speed[g] \in Nat
    BY <1>2, <2>3
  <2> QED
    BY <2>2, <2>4, <2>5
<1>10. /\ IsFiniteSet(D) /\ twice \in [D -> Nat]
       /\ Cardinality(UnitsOf(D, twice)) <= 2 * Cardinality(UnitsOf(P, value))
  BY <1>2, TwoCopies
<1> HIDE DEF h, twice
<1>11. Cardinality(UnitsOf(G, speed)) <= Cardinality(UnitsOf(D, twice))
  BY <1>2, <1>7, <1>8, <1>9, <1>10, Charged
<1>12. /\ Cardinality(UnitsOf(G, speed)) \in Nat /\ Cardinality(UnitsOf(D, twice)) \in Nat
       /\ Cardinality(UnitsOf(P, value)) \in Nat
  BY <1>2, <1>10, MachineParts, UnitsFinite, FS_CardinalityType
<1>13. Cardinality(UnitsOf(G, speed)) <= 2 * Cardinality(UnitsOf(P, value))
  BY <1>10, <1>11, <1>12
<1> QED
  BY <1>13 DEF speed, value

(* f gives each GPU the NIC with which it is fastest. *)
Dominant(m, bw, f) ==
  \A g \in Gpus(m) : \A c \in Nics(m) \ {f[g]} : bw[<<g, c>>] < bw[<<g, f[g]>>]

(* The greedy pairs are those of f, if f is injective and dominant: of the *)
(* GPUs that did not get their NIC, take the fastest; what stood in its    *)
(* way is the pair of a faster GPU that did not get its NIC either.        *)
LEMMA DominantPairs ==
  ASSUME NEW m \in Hardware, NEW bw \in [Gpus(m) \X Nics(m) -> Nat],
         NEW f \in [Gpus(m) -> Nics(m)], \A g, h \in Gpus(m) : g # h => f[g] # f[h],
         Dominant(m, bw, f),
         NEW P, P = FirstPhase(m, bw)
  PROVE  \A g \in Gpus(m) : RowOf(m, bw, g, f[g]) \in P
<1> DEFINE G == Gpus(m)
           own(g) == RowOf(m, bw, g, f[g])
           Missed == {g \in G : own(g) \notin P}
           speed == [g \in G |-> bw[<<g, f[g]>>]]
           S == {speed[g] : g \in Missed}
<1>1. /\ P \in SUBSET Measured(m, bw) /\ OneEach(P)
      /\ \A g \in G, n \in Nics(m) :
           \E p \in P : (p.gpu = g \/ p.nic = n) /\ p.bw >= bw[<<g, n>>]
  BY FirstPhaseFacts
<1>2. \A p \in P : /\ p.gpu \in G /\ p.nic \in Nics(m)
                   /\ p.bw = bw[<<p.gpu, p.nic>>] /\ p.bw \in Nat
                   /\ p = RowOf(m, bw, p.gpu, p.nic)
  BY <1>1, MeasuredFacts
<1>3. \A g \in G : own(g).gpu = g /\ own(g).nic = f[g]
  BY DEF RowOf
<1>4. speed \in [G -> Nat]
  OBVIOUS
<1>5. \A g \in G, c \in Nics(m) : bw[<<g, c>>] \in Nat
  OBVIOUS
<1>6. \A g \in G : speed[g] = bw[<<g, f[g]>>] /\ f[g] \in Nics(m)
  OBVIOUS
<1>7. \A g \in G : \A c \in Nics(m) : c # f[g] => bw[<<g, c>>] < speed[g]
  BY <1>6 DEF Dominant
<1> HIDE DEF own, speed
<1>8. ASSUME Missed # {}
      PROVE  FALSE
  <2>1. IsFiniteSet(S)
    <3>1. IsFiniteSet(Missed)
      BY MachineParts, FS_Subset
    <3> DEFINE k == [g \in Missed |-> speed[g]]
    <3>2. k \in Surjection(Missed, S)
      BY DEF Surjection
    <3> QED
      BY <3>1, <3>2, FS_Surjection
  <2>2. S \in SUBSET Int /\ S # {}
    BY <1>4, <1>8
  <2>3. PICK x \in S : \A y \in S : y <= x
    <3> HIDE DEF S
    <3> QED
      BY <2>1, <2>2, Greatest
  <2>4. PICK g \in Missed : x = speed[g]
    BY <2>3
  <2>5. \A i \in Missed : speed[i] <= speed[g]
    BY <2>3, <2>4
  <2>6. g \in G /\ own(g) \notin P
    BY <2>4
  <2>7. PICK p \in P : (p.gpu = g \/ p.nic = f[g]) /\ p.bw >= speed[g]
    <3>1. g \in G /\ f[g] \in Nics(m) /\ speed[g] = bw[<<g, f[g]>>]
      BY <1>6, <2>6
    <3>2. \E p \in P : (p.gpu = g \/ p.nic = f[g]) /\ p.bw >= bw[<<g, f[g]>>]
      BY <1>1, <3>1
    <3> QED
      BY <3>1, <3>2
  <2> DEFINE h == p.gpu
  <2>8. /\ h \in G /\ p.nic \in Nics(m) /\ p.bw = bw[<<h, p.nic>>] /\ p.bw \in Nat
        /\ p = RowOf(m, bw, h, p.nic)
    BY <1>2
  <2> HIDE DEF h
  <2>9. speed[g] \in Nat /\ speed[h] \in Nat
    BY <1>4, <2>6, <2>8
  <2>10. p.nic # f[h]
    <3>1. CASE h = g
      BY <2>6, <2>8, <3>1 DEF own
    <3>2. CASE h # g
      <4>1. p.nic = f[g] /\ f[g] # f[h]
        BY <2>6, <2>7, <2>8, <3>2 DEF h
      <4> QED
        BY <4>1
    <3> QED
      BY <3>1, <3>2
  <2>11. p.bw < speed[h]
    BY <1>7, <2>8, <2>10
  <2>12. speed[g] < speed[h]
    BY <2>7, <2>8, <2>9, <2>11
  <2>13. h \notin Missed
    BY <2>5, <2>9, <2>12
  <2>14. own(h) \in P
    BY <2>8, <2>13
  <2>15. own(h) = p
    BY <1>1, <1>3, <2>8, <2>14 DEF OneEach, h
  <2> QED
    BY <1>3, <2>8, <2>10, <2>15
<1>9. \A g \in G : own(g) \in P
  BY <1>8
<1> QED
  BY <1>9 DEF own

(* If each GPU is fastest with a NIC of its own, the greedy pairs have the *)
(* best total.                                                             *)
LEMMA DominantBest ==
  ASSUME NEW m \in Hardware, NEW bw \in [Gpus(m) \X Nics(m) -> Nat],
         NEW f \in [Gpus(m) -> Nics(m)], \A g, h \in Gpus(m) : g # h => f[g] # f[h],
         Dominant(m, bw, f),
         NEW P, P = FirstPhase(m, bw)
  PROVE  Cardinality(UnitsOf(Gpus(m), BwOfChoice(m, bw, f))) <= Cardinality(UnitsOf(P, BwOf(P)))
<1> DEFINE G == Gpus(m)
           speed == BwOfChoice(m, bw, f)
           value == BwOf(P)
           h == [g \in G |-> RowOf(m, bw, g, f[g])]
<1>1. P \in SUBSET Measured(m, bw)
  BY FirstPhaseFacts
<1>2. value \in [P -> Nat] /\ IsFiniteSet(P) /\ speed \in [G -> Nat]
  BY <1>1, BwTypes
<1>3. \A g \in G : RowOf(m, bw, g, f[g]) \in P
  BY DominantPairs
<1>4. h \in [G -> P] /\ \A g \in G : h[g].gpu = g /\ h[g].bw = bw[<<g, f[g]>>]
  BY <1>3 DEF RowOf
<1>5. \A g, i \in G : h[g] = h[i] => g = i
  BY <1>4
<1>6. \A g \in G : speed[g] = bw[<<g, f[g]>>] /\ value[h[g]] = h[g].bw
  BY <1>4 DEF BwOf, BwOfChoice
<1> HIDE DEF h, speed, value
<1>7. ASSUME NEW g \in G
      PROVE  speed[g] <= value[h[g]]
  <2>1. speed[g] \in Nat
    BY <1>2
  <2>2. value[h[g]] = speed[g]
    BY <1>4, <1>6
  <2> QED
    BY <2>1, <2>2
<1>8. Cardinality(UnitsOf(G, speed)) <= Cardinality(UnitsOf(P, value))
  BY <1>2, <1>4, <1>5, <1>7, Charged
<1> QED
  BY <1>8 DEF speed, value

-----------------------------------------------------------------------------
(* The same in the terms of Topologies. *)
LEMMA TotalFacts ==
  ASSUME NEW m, NEW bw, NEW f, NEW P
  PROVE  /\ Total(P, LAMBDA p : p.bw) = Cardinality(UnitsOf(P, BwOf(P)))
         /\ Total(Gpus(m), LAMBDA g : bw[<<g, f[g]>>])
              = Cardinality(UnitsOf(Gpus(m), BwOfChoice(m, bw, f)))
<1>1. UNION {{p} \X (1 .. p.bw) : p \in P} = UnitsOf(P, BwOf(P))
  BY DEF UnitsOf, BwOf
<1>2. UNION {{g} \X (1 .. bw[<<g, f[g]>>]) : g \in Gpus(m)} = UnitsOf(Gpus(m), BwOfChoice(m, bw, f))
  BY DEF UnitsOf, BwOfChoice
<1> QED
  BY <1>1, <1>2 DEF Total, Units

(* The body of ProbeQuality. *)
Quality(m, bw, pairs) ==
  LET total == Total(pairs, LAMBDA p : p.bw)
      best(f) == Total(Gpus(m), LAMBDA g : bw[<<g, f[g]>>])
      can(g) == \E c \in Nics(m) : bw[<<g, c>>] > 0
      dominant(f) == \A g \in Gpus(m) :
                       \A c \in Nics(m) \ {f[g]} : bw[<<g, c>>] < bw[<<g, f[g]>>]
  IN  IF Len(m.gpus) <= Len(m.nics)
      THEN \A f \in Injections(Gpus(m), Nics(m)) :
             best(f) <= 2 * total /\ (dominant(f) => best(f) <= total)
      ELSE /\ PairedNics(pairs) = Nics(m)
           /\ \A p \in pairs : p.bw = 0 /\ can(p.gpu) =>
                \A q \in pairs \ {p} : q.nic = p.nic => ~can(q.gpu)

(* What ProbeQuality says holds of BandwidthOptimalPairing for every       *)
(* machine and every measurement.                                          *)
LEMMA QualityFacts ==
  ASSUME NEW m \in Hardware, NEW bw \in [Gpus(m) \X Nics(m) -> Nat],
         Len(m.gpus) > 0, Len(m.nics) > 0,
         NEW P, P = BandwidthOptimalPairing(m, bw)
  PROVE  Quality(m, bw, P)
<1>1. CASE Len(m.gpus) <= Len(m.nics)
  <2>1. P = FirstPhase(m, bw)
    BY <1>1, EnoughNics
  <2>2. ASSUME NEW f \in Injections(Gpus(m), Nics(m))
        PROVE  /\ Cardinality(UnitsOf(Gpus(m), BwOfChoice(m, bw, f)))
                    <= 2 * Cardinality(UnitsOf(P, BwOf(P)))
               /\ Dominant(m, bw, f) => Cardinality(UnitsOf(Gpus(m), BwOfChoice(m, bw, f)))
                                          <= Cardinality(UnitsOf(P, BwOf(P)))
    <3>1. f \in [Gpus(m) -> Nics(m)] /\ \A g, h \in Gpus(m) : g # h => f[g] # f[h]
      BY DEF Injections
    <3> QED
      BY <2>1, <3>1, HalfOfBest, DominantBest
  <2>3. ASSUME NEW f \in Injections(Gpus(m), Nics(m))
        PROVE  /\ Total(Gpus(m), LAMBDA g : bw[<<g, f[g]>>]) <= 2 * Total(P, LAMBDA p : p.bw)
               /\ (\A g \in Gpus(m) :
                     \A c \in Nics(m) \ {f[g]} : bw[<<g, c>>] < bw[<<g, f[g]>>])
                  => Total(Gpus(m), LAMBDA g : bw[<<g, f[g]>>]) <= Total(P, LAMBDA p : p.bw)
    BY <2>2, TotalFacts DEF Dominant
  <2> QED
    BY <1>1, <2>3 DEF Quality
<1>2. CASE ~(Len(m.gpus) <= Len(m.nics))
  <2>1. Len(m.gpus) > Len(m.nics)
    BY <1>2, MachineParts
  <2>2. /\ PairedNics(P) = Nics(m)
        /\ \A p \in P : p.bw = 0 /\ (\E c \in Nics(m) : bw[<<p.gpu, c>>] > 0) =>
             \A q \in P \ {p} : q.nic = p.nic => ~(\E c \in Nics(m) : bw[<<q.gpu, c>>] > 0)
    BY <2>1, FewNics
  <2> QED
    BY <1>2, <2>2 DEF Quality
<1> QED
  BY <1>1, <1>2

-----------------------------------------------------------------------------
(* What buildPairs promises of a machine. *)

Complete(T, m) ==
  LET P == T.pairs
      once(S, of(_)) == \A x \in S : Cardinality({p \in P : of(p) = x}) = 1
  IN  Len(m.gpus) > 0 /\ Len(m.nics) > 0 =>
        /\ IF T.strategy = "multi_nic_pcie"
           THEN once(Nics(m), LAMBDA p : p.nic)
           ELSE once(Gpus(m), LAMBDA p : p.gpu)
        /\ /\ Len(m.gpus) <= Len(m.nics)
           /\ T.strategy \in {"pcie_distance", "intra-host_bandwidth"}
           => Cardinality(PairedNics(P)) = Len(m.gpus)

InRange(P, m) == \A p \in P : p.gpu \in Gpus(m) /\ p.nic \in Nics(m)

(* Pairs that cover G without repetition have each of G once. *)
LEMMA OnceEach ==
  ASSUME NEW P, NEW G, NEW N, PairsEach(P, G, N)
  PROVE  \A g \in G : Cardinality({p \in P : p.gpu = g}) = 1
<1> TAKE g \in G
<1>1. PICK p \in P : p.gpu = g
  BY DEF PairsEach
<1> DEFINE T == {q \in P : q.gpu = g}
<1>2. p \in T /\ \A q \in T : q = p
  BY <1>1 DEF PairsEach
<1> HIDE DEF T
<1>3. Cardinality(T) = 1
  BY <1>2, ExactlyOne
<1> QED
  BY <1>3 DEF T

(* The same of NICs. *)
LEMMA OnceEachNic ==
  ASSUME NEW P, NEW N, \A c \in N : \E p \in P : p.nic = c,
         \A p, q \in P : p.nic = q.nic => p = q
  PROVE  \A c \in N : Cardinality({p \in P : p.nic = c}) = 1
<1> TAKE c \in N
<1>1. PICK p \in P : p.nic = c
  OBVIOUS
<1> DEFINE T == {q \in P : q.nic = c}
<1>2. p \in T /\ \A q \in T : q = p
  BY <1>1
<1> HIDE DEF T
<1>3. Cardinality(T) = 1
  BY <1>2, ExactlyOne
<1> QED
  BY <1>3 DEF T

(* The pairs of buildPairs. *)
Built(m, T, rdmaType) ==
  T.strategy = Strategy(m, rdmaType) /\ T.pairs = PairsBy(T.strategy, m)

(* Which strategy buildPairs takes for which machine. *)
LEMMA StrategyCases ==
  ASSUME NEW m \in Hardware, NEW rdmaType
  PROVE  LET s == Strategy(m, rdmaType)
         IN  /\ s \in {"numa_affinity", "multi_nic_pcie", "pcie_distance", "numa_load_balance"}
             /\ s = "numa_affinity" <=> Flat(m)
             /\ s = "pcie_distance" => Len(m.gpus) <= Len(m.nics)
             /\ s # "numa_affinity" => Len(m.gpus) > 0 /\ Len(m.nics) > 0
<1>1. Len(m.gpus) \in Nat /\ Len(m.nics) \in Nat
  BY MachineParts
<1>2. ~Flat(m) => Len(m.gpus) > 0 /\ Len(m.nics) > 0
  BY <1>1 DEF Flat
<1> QED
  BY <1>1, <1>2 DEF Strategy

(* What holds of the topology that TopologyCheck.Run finds. *)
LEMMA BuiltFacts ==
  ASSUME NEW m \in Hardware, NEW T, NEW rdmaType, Built(m, T, rdmaType)
  PROVE  /\ Complete(T, m) /\ InRange(T.pairs, m)
         /\ T.strategy = "pcie_distance" => Stable(T.pairs, m)
         /\ T.strategy = "numa_load_balance" => FairShares(T.pairs, m)
         /\ T.strategy = "numa_affinity" <=> Flat(m)
         /\ T.strategy \in {"numa_affinity", "multi_nic_pcie", "pcie_distance", "numa_load_balance"}
         /\ T.pairs # {} => Len(m.gpus) > 0 /\ Len(m.nics) > 0
<1> DEFINE s == T.strategy
           P == T.pairs
<1>1. /\ s \in {"numa_affinity", "multi_nic_pcie", "pcie_distance", "numa_load_balance"}
      /\ s = "numa_affinity" <=> Flat(m)
      /\ s = "pcie_distance" => Len(m.gpus) <= Len(m.nics)
      /\ s # "numa_affinity" => Len(m.gpus) > 0 /\ Len(m.nics) > 0
  BY StrategyCases DEF Built
<1>2. P = PairsBy(s, m)
  BY DEF Built
<1>3. Len(m.gpus) \in Nat /\ Len(m.nics) \in Nat
  BY MachineParts
<1> HIDE DEF s, P
<1>4. CASE Len(m.gpus) = 0 \/ Len(m.nics) = 0
  <2>1. P = {}
    BY <1>2, <1>4 DEF PairsBy
  <2>2. s = "numa_affinity"
    BY <1>1, <1>4
  <2> QED
    BY <1>1, <1>4, <2>1, <2>2 DEF Complete, InRange, s, P
<1>5. CASE Len(m.gpus) > 0 /\ Len(m.nics) > 0
  <2>1. CASE s = "multi_nic_pcie"
    <3>1. P = MultiNICPCIePairing(m)
      BY <1>2, <1>5, <2>1 DEF PairsBy
    <3>2. /\ InRange(P, m) /\ \A c \in Nics(m) : \E p \in P : p.nic = c
          /\ \A p, q \in P : p.nic = q.nic => p = q
      BY <1>5, <3>1, MultiNICComplete DEF InRange
    <3>3. \A c \in Nics(m) : Cardinality({p \in P : p.nic = c}) = 1
      BY <3>2, OnceEachNic
    <3> QED
      BY <1>1, <1>5, <2>1, <3>2, <3>3 DEF Complete, s, P
  <2>2. CASE s # "multi_nic_pcie"
    <3>1. PairsEach(P, Gpus(m), Nics(m))
      <4>1. CASE s = "numa_affinity"
        BY <1>2, <1>5, <4>1, AffinityComplete DEF PairsBy
      <4>2. CASE s = "pcie_distance"
        BY <1>1, <1>2, <1>5, <4>2, DistanceComplete DEF PairsBy
      <4>3. CASE s = "numa_load_balance"
        BY <1>2, <1>5, <4>3, LoadBalanceFacts DEF PairsBy
      <4> QED
        BY <1>1, <2>2, <4>1, <4>2, <4>3
    <3>2. s = "pcie_distance" => Stable(P, m) /\ Cardinality(PairedNics(P)) = Len(m.gpus)
      BY <1>1, <1>2, <1>5, DistanceComplete, DistanceFacts DEF PairsBy
    <3>3. s = "numa_load_balance" => FairShares(P, m)
      BY <1>2, <1>5, LoadBalanceFacts DEF PairsBy
    <3>4. \A g \in Gpus(m) : Cardinality({p \in P : p.gpu = g}) = 1
      BY <3>1, OnceEach
    <3>5. InRange(P, m)
      BY <3>1 DEF PairsEach, InRange
    <3> QED
      BY <1>1, <1>5, <2>2, <3>2, <3>3, <3>4, <3>5 DEF Complete, s, P
  <2> QED
    BY <2>1, <2>2
<1> QED
  BY <1>3, <1>4, <1>5

(* The pairs by measured bandwidth. *)
Probed(m, T, bw) ==
  /\ T.strategy = "intra-host_bandwidth"
  /\ bw \in [Gpus(m) \X Nics(m) -> Speeds]
  /\ Len(m.gpus) > 0 /\ Len(m.nics) > 0
  /\ T.pairs = BandwidthOptimalPairing(m, bw)

(* What holds of a topology whose pairs were replaced by the measured      *)
(* ones.                                                                   *)
LEMMA ProbedFacts ==
  ASSUME NEW m \in Hardware, NEW T, NEW bw, Probed(m, T, bw)
  PROVE  Complete(T, m) /\ InRange(T.pairs, m) /\ Quality(m, bw, T.pairs)
<1> DEFINE P == T.pairs
<1>1. bw \in [Gpus(m) \X Nics(m) -> Nat]
  BY TopologiesAssumption DEF Probed
<1>2. Len(m.gpus) > 0 /\ Len(m.nics) > 0 /\ P = BandwidthOptimalPairing(m, bw)
  BY DEF Probed
<1> HIDE DEF P
<1>3. /\ PairsEach(P, Gpus(m), Nics(m))
      /\ Len(m.gpus) <= Len(m.nics) => Cardinality(PairedNics(P)) = Len(m.gpus)
  BY <1>1, <1>2, BandwidthComplete
<1>4. Quality(m, bw, P)
  BY <1>1, <1>2, QualityFacts
<1>5. \A g \in Gpus(m) : Cardinality({p \in P : p.gpu = g}) = 1
  BY <1>3, OnceEach
<1>6. InRange(P, m)
  BY <1>3 DEF PairsEach, InRange
<1>7. T.strategy = "intra-host_bandwidth"
  BY DEF Probed
<1> QED
  BY <1>3, <1>4, <1>5, <1>6, <1>7 DEF Complete, P

-----------------------------------------------------------------------------
(* Machines as discoverNICs sees them. *)

(* A function on 1 .. k is a sequence of length k. *)
LEMMA SequenceOf ==
  ASSUME NEW T, NEW k \in Nat, NEW f \in [1 .. k -> T]
  PROVE  f \in Seq(T) /\ DOMAIN f = 1 .. k /\ Len(f) = k
OBVIOUS

(* The machine that discoverNICs sees. *)
LEMMA MachineType ==
  ASSUME cluster \in Clusters, NEW n \in Nodes
  PROVE  /\ Machine(n) \in Hardware
         /\ \A i \in Nics(Machine(n)) : cluster.rdmaType \in {"", Machine(n).nics[i].fabric}
<1> DEFINE GpuType == [numa : Int, path : Seq(Int)]
           NicType == [numa : Int, path : Seq(Int), dev : Int, fabric : STRING]
           h == cluster.machine[n]
           nics == h.nics
           S == {i \in DOMAIN nics : cluster.rdmaType \in {"", nics[i].fabric}}
           kept == Ascending(S)
           list == [i \in DOMAIN kept |-> nics[kept[i]]]
<1>1. h \in Hardware
  BY TopologiesAssumption
<1> HIDE DEF h
<1>2. h \in [gpus : Seq(GpuType), nics : Seq(NicType)]
  BY <1>1 DEF Hardware
<1> HIDE DEF GpuType, NicType
<1>3. /\ nics \in Seq(NicType) /\ Len(nics) \in Nat
      /\ DOMAIN nics = 1 .. Len(nics) /\ \A i \in DOMAIN nics : nics[i] \in NicType
  BY <1>2
<1>4. DOMAIN nics \in SUBSET Int /\ IsFiniteSet(DOMAIN nics)
  BY <1>3, IntervalFacts
<1>5. S \in SUBSET Int /\ IsFiniteSet(S)
  BY <1>4, FS_Subset
<1>6. \A x \in S : x \in DOMAIN nics /\ cluster.rdmaType \in {"", nics[x].fabric}
  OBVIOUS
<1> HIDE DEF S
<1>7. Lists(kept, S)
  BY <1>5, AscendingFacts
<1> HIDE DEF kept, nics
<1>8. /\ DOMAIN kept = 1 .. Cardinality(S) /\ Cardinality(S) \in Nat
      /\ \A i \in DOMAIN kept : kept[i] \in S
  BY <1>7, ListFacts DEF Lists
<1>9. \A i \in 1 .. Cardinality(S) : /\ nics[kept[i]] \in NicType
                                     /\ cluster.rdmaType \in {"", nics[kept[i]].fabric}
  BY <1>3, <1>6, <1>8
<1>10. list = [i \in 1 .. Cardinality(S) |-> nics[kept[i]]]
  BY <1>8
<1> HIDE DEF list
<1>11. list \in Seq(NicType) /\ DOMAIN list = 1 .. Cardinality(S)
  <2>1. list \in [1 .. Cardinality(S) -> NicType]
    BY <1>9, <1>10
  <2>2. Cardinality(S) \in Nat
    BY <1>8
  <2> QED
    BY <2>1, <2>2, SequenceOf
<1>12. Machine(n) = [h EXCEPT !.nics = list]
  BY DEF Machine, h, kept, S, list, nics
<1>13. Machine(n) \in [gpus : Seq(GpuType), nics : Seq(NicType)] /\ Machine(n).nics = list
  BY <1>2, <1>11, <1>12
<1>14. Machine(n) \in Hardware
  BY <1>13 DEF Hardware, GpuType, NicType
<1>15. \A i \in Nics(Machine(n)) : cluster.rdmaType \in {"", Machine(n).nics[i].fabric}
  <2> TAKE i \in Nics(Machine(n))
  <2>1. i \in 1 .. Cardinality(S) /\ Machine(n).nics = list
    BY <1>11, <1>13 DEF Nics
  <2>2. list[i] = nics[kept[i]]
    BY <1>10, <2>1
  <2> QED
    BY <1>9, <2>1, <2>2
<1> QED
  BY <1>14, <1>15

-----------------------------------------------------------------------------
(* The invariant. *)

(* The topology T of a machine m is the one that its check found, up to the *)
(* status, or the one that the bandwidths bw, which were measured, give.    *)
Settled(m, T, bw, rdmaType) ==
  /\ T = [strategy |-> T.strategy, pairs |-> T.pairs, status |-> T.status]
  /\ T.status \in {"PASS", "WARN"}
  /\ Built(m, T, rdmaType) \/ Probed(m, T, bw)

(* The nodes whose topology may be the first that the map yields. *)
Deciders == IF Known = {} THEN Nodes ELSE Known

Planned ==
  \E some \in Deciders : \E efa \in [Nodes -> EfaCounts] :
    plan = ExpandRDMAJobs(Nodes, [n \in Known |-> TopoOf(n)], some, cluster.rdmaType, efa)

Shape ==
  /\ cluster \in Clusters
  /\ stage \in {"check", "collect", "probe", "plan", "done"}
  /\ arrived \in SUBSET Nodes
  /\ topology = [n \in Nodes |-> topology[n]]
  /\ measured = [n \in Nodes |-> measured[n]]

EachSettled ==
  \A n \in Nodes : IF stage = "check" THEN topology[n] = NotChecked
                   ELSE Settled(Machine(n), topology[n], measured[n], cluster.rdmaType)

Probes ==
  /\ unprobed \in SUBSET Known
  /\ \A n \in unprobed : topology[n].pairs # {}
  /\ stage # "probe" => unprobed = {}

GuessesWarned ==
  stage \in {"plan", "done"} =>
    \A n \in Known : topology[n].strategy = "numa_affinity" => topology[n].status = "WARN"

PlanFollows == IF stage = "done" THEN Planned ELSE plan = NoPlan

IInv == Shape /\ EachSettled /\ Probes /\ GuessesWarned /\ PlanFollows

(* The check of a node leaves a settled topology. *)
LEMMA CheckedFacts ==
  ASSUME NEW m, NEW bw
  PROVE  Settled(m, TopologyOf(m), bw, cluster.rdmaType)
BY DEF Settled, TopologyOf, StatusFor, Built

(* The invariant holds when no node has been checked. *)
LEMMA InitIInv == Init => IInv
BY DEF Init, IInv, Shape, EachSettled, Probes, GuessesWarned, PlanFollows, NotMeasured

(* A topology stays settled when its status becomes WARN                   *)
(* (WarnUnpairedFlatNodes).                                                *)
LEMMA SettledStatus ==
  ASSUME NEW m, NEW T, NEW bw, NEW rdmaType, Settled(m, T, bw, rdmaType)
  PROVE  LET W == [T EXCEPT !.status = "WARN"]
         IN  /\ Settled(m, W, bw, rdmaType) /\ W.status = "WARN"
             /\ W.strategy = T.strategy /\ W.pairs = T.pairs
<1> DEFINE W == [T EXCEPT !.status = "WARN"]
<1>1. W = [strategy |-> T.strategy, pairs |-> T.pairs, status |-> "WARN"]
  BY DEF Settled
<1>2. W.status = "WARN" /\ W.strategy = T.strategy /\ W.pairs = T.pairs
  BY <1>1
<1> HIDE DEF W
<1>3. W = [strategy |-> W.strategy, pairs |-> W.pairs, status |-> W.status]
  BY <1>1, <1>2
<1>4. Built(m, W, rdmaType) \/ Probed(m, W, bw)
  BY <1>2 DEF Settled, Built, Probed
<1> QED
  BY <1>2, <1>3, <1>4 DEF Settled, W

(* A topology stays settled when the measured pairs replace the guessed    *)
(* ones (ApplyBandwidthPairing).                                           *)
LEMMA SettledProbe ==
  ASSUME NEW m, NEW T, NEW old, NEW rdmaType, Settled(m, T, old, rdmaType),
         Len(m.gpus) > 0, Len(m.nics) > 0, NEW bw \in [Gpus(m) \X Nics(m) -> Speeds]
  PROVE  Settled(m, [[T EXCEPT !.pairs = BandwidthOptimalPairing(m, bw)]
                        EXCEPT !.strategy = "intra-host_bandwidth"], bw, rdmaType)
<1> DEFINE Q == BandwidthOptimalPairing(m, bw)
           W == [[T EXCEPT !.pairs = Q] EXCEPT !.strategy = "intra-host_bandwidth"]
<1> HIDE DEF Q
<1>1. W = [strategy |-> "intra-host_bandwidth", pairs |-> Q, status |-> T.status]
  <2> DEFINE V == [T EXCEPT !.pairs = Q]
  <2>1. V = [strategy |-> T.strategy, pairs |-> Q, status |-> T.status]
    BY DEF Settled
  <2>2. W = [V EXCEPT !.strategy = "intra-host_bandwidth"]
    OBVIOUS
  <2> HIDE DEF V, W
  <2> QED
    BY <2>1, <2>2
<1>2. W.status = T.status /\ W.strategy = "intra-host_bandwidth" /\ W.pairs = Q
  BY <1>1
<1> HIDE DEF W
<1>3. W = [strategy |-> W.strategy, pairs |-> W.pairs, status |-> W.status]
  BY <1>1, <1>2
<1>4. Probed(m, W, bw)
  BY <1>2 DEF Probed, Q
<1>5. Settled(m, W, bw, rdmaType)
  BY <1>2, <1>3, <1>4 DEF Settled
<1> QED
  BY <1>5 DEF W, Q

(* What expandRDMAJobs sees of the pairs P of a machine. *)
NicNamed(m, d) == CHOOSE c \in Range(m.nics) : c.dev = d
Devices(m) == {m.nics[i].dev : i \in Nics(m)}
View(m, P) ==
  [pairs |-> {[gpu |-> p.gpu, dev |-> m.nics[p.nic].dev] : p \in P},
   nics |-> [d \in Devices(m) |-> NicNamed(m, d).fabric]]

(* The topology of a node depends on its machine and its pairs. *)
LEMMA Views ==
  ASSUME NEW n
  PROVE  TopoOf(n) = View(Machine(n), topology[n].pairs)
BY DEF TopoOf, View, NicNamed, Devices

(* The same after a step. *)
LEMMA NextViews ==
  ASSUME NEW n
  PROVE  TopoOf(n)' = View(Machine(n)', topology'[n].pairs)
BY DEF TopoOf, View, NicNamed, Devices

(* What is known of a node depends on its pairs and its machine only. *)
LEMMA KnownFacts ==
  ASSUME cluster' = cluster
  PROVE  /\ \A n \in Nodes : Machine(n)' = Machine(n)
         /\ \A n \in Nodes : topology'[n].pairs = topology[n].pairs =>
              (Readable(n)' <=> Readable(n)) /\ TopoOf(n)' = TopoOf(n)
<1>1. \A n \in Nodes : Machine(n)' = Machine(n)
  BY DEF Machine
<1>2. ASSUME NEW n \in Nodes, topology'[n].pairs = topology[n].pairs
      PROVE  Readable(n)' <=> Readable(n)
  BY <1>1, <1>2 DEF Readable
<1>3. ASSUME NEW n \in Nodes, topology'[n].pairs = topology[n].pairs
      PROVE  TopoOf(n)' = TopoOf(n)
  BY <1>1, <1>3, Views, NextViews
<1> QED
  BY <1>1, <1>2, <1>3

(* The checks of the nodes. *)
LEMMA StepCheck == ASSUME IInv, CheckNodes PROVE IInv'
<1>1. cluster' = cluster /\ stage = "check" /\ stage' = "collect"
      /\ unprobed = {} /\ unprobed' = {} /\ arrived' = arrived /\ measured' = measured
      /\ plan' = plan /\ topology' = [n \in Nodes |-> TopologyOf(Machine(n))]
  BY DEF IInv, Probes, CheckNodes
<1>2. Shape'
  BY <1>1 DEF IInv, Shape
<1>3. EachSettled'
  <2>1. \A n \in Nodes : Machine(n)' = Machine(n)
    BY <1>1, KnownFacts
  <2>2. \A n \in Nodes : Settled(Machine(n), topology'[n], measured'[n], cluster.rdmaType)
    BY <1>1, CheckedFacts
  <2> QED
    BY <1>1, <2>1, <2>2 DEF EachSettled
<1>4. Probes'
  BY <1>1 DEF Probes
<1>5. GuessesWarned' /\ PlanFollows'
  BY <1>1 DEF IInv, GuessesWarned, PlanFollows, NoPlan
<1> QED
  BY <1>2, <1>3, <1>4, <1>5 DEF IInv

(* The reports that arrive; the nodes to probe are known and have pairs. *)
LEMMA StepCollect == ASSUME IInv, Collect PROVE IInv'
<1>1. cluster' = cluster /\ stage = "collect" /\ stage' = "probe"
      /\ topology' = topology /\ measured' = measured /\ plan' = plan
      /\ arrived' \in SUBSET Nodes /\ unprobed' = ToProbe'
  BY DEF Collect
<1>2. Shape'
  BY <1>1 DEF IInv, Shape
<1>3. EachSettled'
  <2>1. \A n \in Nodes : Machine(n)' = Machine(n)
    BY <1>1, KnownFacts
  <2> QED
    BY <1>1, <2>1 DEF IInv, EachSettled
<1>4. Probes'
  BY <1>1 DEF Probes, ToProbe
<1>5. GuessesWarned' /\ PlanFollows'
  BY <1>1 DEF IInv, GuessesWarned, PlanFollows, NoPlan
<1> QED
  BY <1>2, <1>3, <1>4, <1>5 DEF IInv

(* A probe with results: the pairs of its node alone are replaced. *)
LEMMA StepProbeNode == ASSUME IInv, NEW n \in Nodes, ProbeNode(n) PROVE IInv'
<1> DEFINE m == Machine(n)
<1>1. PICK bw \in [Gpus(m) \X Nics(m) -> Speeds] :
        /\ measured' = [measured EXCEPT ![n] = bw]
        /\ topology' = [topology EXCEPT ![n].pairs = BandwidthOptimalPairing(m, bw),
                                        ![n].strategy = "intra-host_bandwidth"]
  BY DEF ProbeNode
<1>2. cluster' = cluster /\ stage = "probe" /\ stage' = "probe"
      /\ arrived' = arrived /\ plan' = plan /\ unprobed' = unprobed \ {n} /\ n \in unprobed
  BY DEF ProbeNode
<1> DEFINE W == [[topology[n] EXCEPT !.pairs = BandwidthOptimalPairing(m, bw)]
                   EXCEPT !.strategy = "intra-host_bandwidth"]
<1>3. /\ topology' = [o \in Nodes |-> IF o = n THEN W ELSE topology[o]]
      /\ measured' = [o \in Nodes |-> IF o = n THEN bw ELSE measured[o]]
  BY <1>1 DEF IInv, Shape
<1>4. \A o \in Nodes : Machine(o)' = Machine(o)
  BY <1>2, KnownFacts
<1>5. Settled(m, topology[n], measured[n], cluster.rdmaType) /\ m \in Hardware
  BY <1>2, MachineType DEF IInv, EachSettled, Shape
<1>6. Len(m.gpus) > 0 /\ Len(m.nics) > 0
  <2>1. topology[n].pairs # {}
    BY <1>2 DEF IInv, Probes
  <2> HIDE DEF m
  <2> QED
    BY <1>5, <2>1, BuiltFacts DEF Settled, Probed
<1>7. Settled(m, W, bw, cluster.rdmaType)
  <2> HIDE DEF m
  <2> QED
    BY <1>5, <1>6, SettledProbe
<1> HIDE DEF W, m
<1>8. Shape'
  BY <1>2, <1>3 DEF IInv, Shape
<1>9. EachSettled'
  <2>1. ASSUME NEW o \in Nodes
        PROVE  Settled(Machine(o), topology'[o], measured'[o], cluster.rdmaType)
    <3>1. CASE o = n
      BY <1>3, <1>7, <3>1 DEF m
    <3>2. CASE o # n
      BY <1>2, <1>3, <3>2 DEF IInv, EachSettled
    <3> QED
      BY <3>1, <3>2
  <2> QED
    BY <1>2, <1>4, <2>1 DEF EachSettled
<1>10. Probes'
  <2>1. ASSUME NEW o \in unprobed'
        PROVE  o \in Known' /\ topology'[o].pairs # {}
    <3>1. o \in unprobed /\ o # n /\ o \in Known /\ o \in arrived /\ o \in Nodes
      BY <1>2 DEF IInv, Probes, Known, Shape
    <3>2. topology'[o] = topology[o]
      BY <1>3, <3>1
    <3>3. Readable(o)' <=> Readable(o)
      BY <1>2, <3>1, <3>2, KnownFacts
    <3>4. topology[o].pairs # {}
      BY <3>1 DEF IInv, Probes
    <3> QED
      BY <1>2, <3>1, <3>2, <3>3, <3>4 DEF Known
  <2> QED
    BY <1>2, <2>1 DEF Probes
<1>11. GuessesWarned' /\ PlanFollows'
  BY <1>2 DEF IInv, GuessesWarned, PlanFollows, NoPlan
<1> QED
  BY <1>8, <1>9, <1>10, <1>11 DEF IInv

(* A probe without results changes no pairs. *)
LEMMA StepProbeFails == ASSUME IInv, NEW n \in Nodes, ProbeFails(n) PROVE IInv'
<1>1. cluster' = cluster /\ stage = "probe" /\ stage' = "probe" /\ topology' = topology
      /\ arrived' = arrived /\ plan' = plan /\ unprobed' = unprobed \ {n} /\ measured' = measured
  BY DEF ProbeFails
<1>2. \A o \in Nodes : Machine(o)' = Machine(o) /\ (Readable(o)' <=> Readable(o))
  BY <1>1, KnownFacts
<1>3. Shape'
  BY <1>1 DEF IInv, Shape
<1>4. EachSettled'
  BY <1>1, <1>2 DEF IInv, EachSettled
<1>5. Known' = Known
  BY <1>1, <1>2 DEF IInv, Shape, Known
<1>6. Probes'
  BY <1>1, <1>5 DEF IInv, Probes
<1>7. GuessesWarned' /\ PlanFollows'
  BY <1>1 DEF IInv, GuessesWarned, PlanFollows, NoPlan
<1> QED
  BY <1>3, <1>4, <1>6, <1>7 DEF IInv

(* The end of the probes: a topology that is still a guess gets WARN. *)
LEMMA StepEndProbe == ASSUME IInv, EndProbe PROVE IInv'
<1> DEFINE W(n) == [topology[n] EXCEPT !.status = "WARN"]
<1>1. cluster' = cluster /\ stage = "probe" /\ stage' = "plan" /\ arrived' = arrived
      /\ plan' = plan /\ unprobed' = unprobed /\ unprobed = {} /\ measured' = measured
      /\ topology' = [n \in Nodes |-> IF Warned(n) THEN W(n) ELSE topology[n]]
  BY DEF EndProbe
<1>2. \A n \in Nodes : Settled(Machine(n), topology[n], measured[n], cluster.rdmaType)
  BY <1>1 DEF IInv, EachSettled
<1>3. \A n \in Nodes : /\ Settled(Machine(n), W(n), measured[n], cluster.rdmaType)
                       /\ W(n).status = "WARN" /\ W(n).strategy = topology[n].strategy
                       /\ W(n).pairs = topology[n].pairs
  BY <1>2, SettledStatus
<1> HIDE DEF W
<1>4. \A n \in Nodes : /\ Settled(Machine(n), topology'[n], measured[n], cluster.rdmaType)
                       /\ topology'[n].strategy = topology[n].strategy
                       /\ topology'[n].pairs = topology[n].pairs
                       /\ Warned(n) => topology'[n].status = "WARN"
  BY <1>1, <1>2, <1>3
<1>5. \A n \in Nodes : Machine(n)' = Machine(n) /\ (Readable(n)' <=> Readable(n))
  BY <1>1, <1>4, KnownFacts
<1>6. Known' = Known /\ Known \in SUBSET Nodes
  BY <1>1, <1>5 DEF IInv, Shape, Known
<1>7. Shape'
  BY <1>1 DEF IInv, Shape
<1>8. EachSettled'
  BY <1>1, <1>4, <1>5 DEF EachSettled
<1>9. Probes'
  BY <1>1 DEF Probes
<1>10. GuessesWarned'
  <2>1. ASSUME NEW n \in Known, topology[n].strategy = "numa_affinity"
        PROVE  Flat(Machine(n))
    <3>1. n \in Nodes /\ Machine(n) \in Hardware
      BY <1>6, MachineType DEF IInv, Shape
    <3>2. Built(Machine(n), topology[n], cluster.rdmaType)
      BY <1>2, <2>1, <3>1 DEF Settled, Probed
    <3> QED
      BY <2>1, <3>1, <3>2, BuiltFacts
  <2> QED
    BY <1>1, <1>4, <1>6, <2>1 DEF GuessesWarned, Warned
<1>11. PlanFollows'
  BY <1>1 DEF IInv, PlanFollows, NoPlan
<1> QED
  BY <1>7, <1>8, <1>9, <1>10, <1>11 DEF IInv

(* The jobs are made of the topologies that are known. *)
LEMMA StepMakePlan == ASSUME IInv, MakePlan PROVE IInv'
<1>1. cluster' = cluster /\ stage = "plan" /\ stage' = "done" /\ arrived' = arrived
      /\ unprobed' = unprobed /\ measured' = measured /\ topology' = topology
  BY DEF MakePlan
<1>2. \A n \in Nodes : Machine(n)' = Machine(n) /\ (Readable(n)' <=> Readable(n))
                       /\ TopoOf(n)' = TopoOf(n)
  BY <1>1, KnownFacts
<1>3. Known' = Known /\ Known \in SUBSET Nodes
  BY <1>1, <1>2 DEF IInv, Shape, Known
<1>4. PICK some \in Deciders, efa \in [Nodes -> EfaCounts] :
        plan' = ExpandRDMAJobs(Nodes, [n \in Known |-> TopoOf(n)], some, cluster.rdmaType, efa)
  BY DEF MakePlan, Deciders
<1>5. [n \in Known |-> TopoOf(n)]' = [n \in Known |-> TopoOf(n)]
  BY <1>2, <1>3
<1>6. Deciders' = Deciders
  BY <1>3 DEF Deciders
<1>7. PlanFollows'
  BY <1>1, <1>4, <1>5, <1>6 DEF PlanFollows, Planned
<1>8. Shape'
  BY <1>1 DEF IInv, Shape
<1>9. EachSettled'
  BY <1>1, <1>2 DEF IInv, EachSettled
<1>10. Probes'
  BY <1>1, <1>3 DEF IInv, Probes
<1>11. GuessesWarned'
  BY <1>1, <1>3 DEF IInv, GuessesWarned
<1> QED
  BY <1>7, <1>8, <1>9, <1>10, <1>11 DEF IInv

(* Nothing changes. *)
LEMMA StepStutter == ASSUME IInv, UNCHANGED vars PROVE IInv'
<1>1. cluster' = cluster /\ stage' = stage /\ arrived' = arrived /\ plan' = plan
      /\ unprobed' = unprobed /\ measured' = measured /\ topology' = topology
  BY DEF vars
<1>2. \A n \in Nodes : Machine(n)' = Machine(n) /\ (Readable(n)' <=> Readable(n))
                       /\ TopoOf(n)' = TopoOf(n)
  BY <1>1, KnownFacts
<1>3. Known' = Known /\ Known \in SUBSET Nodes
  BY <1>1, <1>2 DEF IInv, Shape, Known
<1>4. [n \in Known |-> TopoOf(n)]' = [n \in Known |-> TopoOf(n)]
  BY <1>2, <1>3
<1>5. Deciders' = Deciders
  BY <1>3 DEF Deciders
<1>6. PlanFollows'
  BY <1>1, <1>4, <1>5 DEF IInv, PlanFollows, Planned
<1>7. Shape'
  BY <1>1 DEF IInv, Shape
<1>8. EachSettled'
  BY <1>1, <1>2 DEF IInv, EachSettled
<1>9. Probes'
  BY <1>1, <1>3 DEF IInv, Probes
<1>10. GuessesWarned'
  BY <1>1, <1>3 DEF IInv, GuessesWarned
<1> QED
  BY <1>6, <1>7, <1>8, <1>9, <1>10 DEF IInv

(* The invariant is inductive. *)
LEMMA StepIInv == IInv /\ [Next]_vars => IInv'
BY StepCheck, StepCollect, StepProbeNode, StepProbeFails, StepEndProbe, StepMakePlan, StepStutter
   DEF Next

(* The invariant: throughout a run every topology is the one that          *)
(* buildPairs made of the node's machine, or the one that its measured     *)
(* bandwidths give; the nodes to be probed are known; guesses that were    *)
(* not replaced have been warned of when the jobs are made; and the jobs   *)
(* are those that the topologies give.                                     *)
THEOREM Inductive == Spec => []IInv
BY InitIInv, StepIInv, PTL DEF Spec

(* What the invariant says of a node that has been checked. *)
LEMMA SettledNodes ==
  ASSUME IInv, stage # "check", NEW n \in Nodes
  PROVE  LET m == Machine(n)
             T == topology[n]
         IN  /\ m \in Hardware /\ Complete(T, m) /\ InRange(T.pairs, m)
             /\ T.status \in {"PASS", "WARN"} /\ T.strategy \in Strategies
             /\ T.strategy = "pcie_distance" => Stable(T.pairs, m)
             /\ T.strategy = "numa_load_balance" => FairShares(T.pairs, m)
             /\ T.strategy = "intra-host_bandwidth" => Quality(m, measured[n], T.pairs)
             /\ T.strategy = "numa_affinity" => Flat(m)
<1> DEFINE m == Machine(n)
           T == topology[n]
<1>1. m \in Hardware /\ Settled(m, T, measured[n], cluster.rdmaType)
  BY MachineType DEF IInv, Shape, EachSettled
<1> HIDE DEF m, T
<1>2. T.status \in {"PASS", "WARN"}
  BY <1>1 DEF Settled
<1>3. CASE Built(m, T, cluster.rdmaType)
  <2>1. T.strategy # "intra-host_bandwidth" /\ T.strategy \in Strategies
    BY <1>1, <1>3, BuiltFacts DEF Strategies
  <2> QED
    BY <1>1, <1>2, <1>3, <2>1, BuiltFacts DEF m, T
<1>4. CASE Probed(m, T, measured[n])
  <2>1. T.strategy = "intra-host_bandwidth" /\ T.strategy \in Strategies
    BY <1>4 DEF Probed, Strategies
  <2> QED
    BY <1>1, <1>2, <1>4, <2>1, ProbedFacts DEF m, T
<1> QED
  BY <1>1, <1>3, <1>4 DEF Settled

(* Property PairsComplete, for all machines: whichever strategy was taken, *)
(* and whether or not the probe replaced the pairs, each GPU (or, with all *)
(* NICs wanted, each NIC) is in exactly one pair, and with enough NICs     *)
(* none is shared by the distance or bandwidth pairing                     *)
(* (topology.go:405-634, gpu_nic_lpbk_bw.go:154-283).                      *)
THEOREM EachDeviceOnce == Spec => []PairsComplete
<1>1. ASSUME IInv, stage # "check", NEW n \in Nodes
      PROVE  Complete(topology[n], Machine(n))
  BY <1>1, SettledNodes
<1>2. IInv => PairsComplete
  BY <1>1 DEF PairsComplete, Complete
<1> QED
  BY <1>2, Inductive, PTL

(* Only a node that has been checked has a strategy. *)
LEMMA UncheckedNodes ==
  ASSUME IInv, NEW n \in Nodes, topology[n].strategy # "none"
  PROVE  stage # "check"
BY DEF IInv, EachSettled, NotChecked

(* Property NoCloserPair, for all machines: the two greedy phases of the   *)
(* distance pairing leave no GPU and NIC that would both be better off     *)
(* with each other (topology.go:519-576).                                  *)
THEOREM NoBetterPartner == Spec => []NoCloserPair
<1>1. ASSUME IInv, NEW n \in Nodes, topology[n].strategy = "pcie_distance"
      PROVE  Stable(topology[n].pairs, Machine(n))
  BY <1>1, UncheckedNodes, SettledNodes
<1>2. IInv => NoCloserPair
  BY <1>1 DEF NoCloserPair, Stable, Better, Proposal, Offer
<1> QED
  BY <1>2, Inductive, PTL

(* Property Balanced, for all machines: with more GPUs than NICs none      *)
(* leaves its NUMA node without need, and no NIC has more than its share,  *)
(* rounded up (topology.go:578-634).                                       *)
THEOREM LoadIsBalanced == Spec => []Balanced
<1>1. ASSUME IInv, NEW n \in Nodes, topology[n].strategy = "numa_load_balance"
      PROVE  FairShares(topology[n].pairs, Machine(n))
  BY <1>1, UncheckedNodes, SettledNodes
<1>2. IInv => Balanced
  BY <1>1 DEF Balanced, FairShares
<1> QED
  BY <1>2, Inductive, PTL

(* Property ProbeQuality, for all machines and all measurements: the       *)
(* greedy pairing by bandwidth has at least half of the best total, and    *)
(* the best total if each GPU is fastest with a NIC of its own             *)
(* (gpu_nic_lpbk_bw.go:148-283).                                           *)
THEOREM HalfTheBestTotal == Spec => []ProbeQuality
<1>1. ASSUME IInv, NEW n \in Nodes, topology[n].strategy = "intra-host_bandwidth"
      PROVE  Quality(Machine(n), measured[n], topology[n].pairs)
  BY <1>1, UncheckedNodes, SettledNodes
<1>2. ASSUME IInv PROVE ProbeQuality
  BY <1>1, <1>2 DEF ProbeQuality, Quality
<1> QED
  BY <1>2, Inductive, PTL

(* sysfs tells the NUMA node of every GPU and NIC. *)
NumaKnown ==
  \A c \in Clusters : \A n \in Nodes :
    /\ \A g \in DOMAIN c.machine[n].gpus : c.machine[n].gpus[g].numa >= 0
    /\ \A i \in DOMAIN c.machine[n].nics : c.machine[n].nics[i].numa >= 0

(* Then the same holds of the machine that discoverNICs sees. *)
LEMMA NumaOfMachine ==
  ASSUME NumaKnown, cluster \in Clusters, NEW n \in Nodes
  PROVE  /\ \A g \in Gpus(Machine(n)) : Machine(n).gpus[g].numa >= 0
         /\ \A i \in Nics(Machine(n)) : Machine(n).nics[i].numa >= 0
<1> DEFINE h == cluster.machine[n]
           nics == h.nics
           S == {i \in DOMAIN nics : cluster.rdmaType \in {"", nics[i].fabric}}
           kept == Ascending(S)
           list == [i \in DOMAIN kept |-> nics[kept[i]]]
<1>1. h \in Hardware
  BY TopologiesAssumption
<1>2. /\ \A g \in DOMAIN h.gpus : h.gpus[g].numa >= 0
      /\ \A i \in DOMAIN nics : nics[i].numa >= 0
  BY DEF NumaKnown
<1> HIDE DEF h
<1>3. Machine(n) = [h EXCEPT !.nics = list]
  BY DEF Machine, h
<1>4. Machine(n).gpus = h.gpus /\ Machine(n).nics = list
  <2> HIDE DEF list
  <2> QED
    BY <1>1, <1>3 DEF Hardware
<1>5. DOMAIN nics \in SUBSET Int /\ IsFiniteSet(DOMAIN nics)
  <2>1. DOMAIN nics = 1 .. Len(nics) /\ Len(nics) \in Nat
    BY <1>1 DEF Hardware
  <2> QED
    BY <2>1, IntervalFacts
<1>6. S \in SUBSET Int /\ IsFiniteSet(S) /\ S \in SUBSET DOMAIN nics
  BY <1>5, FS_Subset
<1> HIDE DEF S, nics
<1>7. Lists(kept, S)
  BY <1>6, AscendingFacts
<1> HIDE DEF kept
<1>8. \A i \in DOMAIN kept : kept[i] \in DOMAIN nics
  BY <1>6, <1>7, ListFacts
<1>9. \A i \in DOMAIN list : list[i].numa >= 0
  BY <1>2, <1>8
<1> HIDE DEF list
<1> QED
  BY <1>2, <1>4, <1>9 DEF Gpus, Nics

(* Property GuessNeverPasses, where the NUMA nodes are known: a pairing    *)
(* that was guessed, and not replaced by a measured one, is reported with  *)
(* WARN (topology_report.go:43-61, phases.go:64-104). Where they are       *)
(* hidden, GPUNICPair.UnmarshalJSON refuses the report, the controller     *)
(* knows no topology of the node, and there is nothing to warn of.         *)
THEOREM GuessIsWarnedOf == ASSUME NumaKnown PROVE Spec => []GuessNeverPasses
<1>1. ASSUME IInv, stage # "check", NEW n \in Nodes
      PROVE  Readable(n)
  BY <1>1, SettledNodes, NumaOfMachine DEF IInv, Shape, Readable, InRange
<1>2. ASSUME IInv PROVE GuessNeverPasses
  BY <1>1, <1>2 DEF IInv, GuessesWarned, GuessNeverPasses, Shape, Known
<1> QED
  BY <1>2, Inductive, PTL

-----------------------------------------------------------------------------
(* The jobs. *)

(* The forms that a job may have. *)
EfaPd(nodes, topos, g) ==
  [kind |-> "PD", fabric |-> "srd", lanes |-> [n \in nodes |-> LanesOf(topos[n], g)]]
EfaWep(nodes, topos) ==
  [kind |-> "WEP", fabric |-> "srd", lanes |-> [n \in nodes |-> WepLanes(topos[n])]]
IbPd(nodes, l, fabric) ==
  [kind |-> "PD", fabric |-> fabric, lanes |-> [n \in nodes |-> <<l>>]]
IbWep(nodes, topo, fabric) ==
  [kind |-> "WEP", fabric |-> fabric, lanes |-> [n \in nodes |-> WepOfDevices(topo)]]

Good(topos, nodes) == {g \in GpusOf(topos, nodes) : Compatible(topos, nodes, g)}

EfaPlan(P, nodes, topos, efa) ==
  LET pds == {EfaPd(nodes, topos, g) : g \in Good(topos, nodes)}
      gpus == GpusOf(topos, nodes)
  IN  /\ \A n \in nodes : ~Unfit(topos, n, efa)
      /\ \/ P.jobs = pds \cup {EfaWep(nodes, topos)} /\ Good(topos, nodes) = gpus
         \/ P.jobs = pds
      /\ \A g \in gpus \ Good(topos, nodes) : <<"gpu", g>> \in P.skips

IbPlan(P, nodes, topo, fabric) ==
  LET pds == {IbPd(nodes, Lane(p), fabric) : p \in topo.pairs}
  IN  P.jobs = pds \cup {IbWep(nodes, topo, fabric)} \/ P.jobs = pds

(* What expandEFABandwidthJobs makes, unless it skips the whole test. *)
LEMMA EfaPlans ==
  ASSUME NEW nodes, NEW topos, NEW efa, NEW P, P = ExpandEFA(nodes, topos, efa)
  PROVE  P.jobs = {} \/ EfaPlan(P, nodes, topos, efa)
<1> DEFINE gpus == GpusOf(topos, nodes)
           good == Good(topos, nodes)
           pds == {EfaPd(nodes, topos, g) : g \in good}
           wep == EfaWep(nodes, topos)
           wide == good = gpus /\ \A n \in nodes : Len(wep.lanes[n]) > 1
<1>1. CASE \E n \in nodes : Unfit(topos, n, efa)
  BY <1>1 DEF ExpandEFA, Plan
<1>2. CASE \A n \in nodes : ~Unfit(topos, n, efa)
  <2>1. P = Plan(pds \cup (IF wide THEN {wep} ELSE {}),
                 {<<"gpu", g>> : g \in gpus \ good} \cup (IF wide THEN {} ELSE {<<"wep", 0>>}))
    BY <1>2 DEF ExpandEFA, Good, EfaPd, EfaWep
  <2> HIDE DEF gpus, good, wep
  <2>2. /\ P.jobs = pds \cup (IF wide THEN {wep} ELSE {})
        /\ \A g \in gpus \ good : <<"gpu", g>> \in P.skips
    BY <2>1 DEF Plan
  <2> HIDE DEF pds
  <2>3. (P.jobs = pds \cup {wep} /\ good = gpus) \/ P.jobs = pds
    BY <2>2
  <2> QED
    BY <1>2, <2>2, <2>3 DEF EfaPlan, pds, wep, gpus, good
<1> QED
  BY <1>1, <1>2

(* What expandRDMAJobs makes for InfiniBand and RoCE. *)
LEMMA IbPlans ==
  ASSUME NEW nodes, NEW topo, NEW fabric, NEW P, P = ExpandIB(nodes, topo, fabric)
  PROVE  IbPlan(P, nodes, topo, fabric)
<1>1. P.jobs = {IbPd(nodes, Lane(p), fabric) : p \in topo.pairs}
                 \cup (IF Len(WepOfDevices(topo)) > 1 THEN {IbWep(nodes, topo, fabric)} ELSE {})
  BY DEF ExpandIB, Plan, IbPd, IbWep
<1> QED
  BY <1>1 DEF IbPlan

(* The three plans with jobs. *)
LEMMA Plans ==
  ASSUME NEW nodes, NEW topos, NEW some, NEW configured, NEW efa,
         topos = [n \in DOMAIN topos |-> topos[n]], DOMAIN topos \in SUBSET nodes,
         NEW P, P = ExpandRDMAJobs(nodes, topos, some, configured, efa)
  PROVE  LET fabric == ResolveRDMAType(configured, topos)
         IN  \/ P.jobs = {}
             \/ DOMAIN topos = {} /\ P.jobs = {DefaultJob(nodes)}
             \/ /\ DOMAIN topos # {} /\ fabric = "srd" /\ topos[some].pairs # {}
                /\ EfaPlan(P, nodes, topos, efa)
             \/ /\ DOMAIN topos # {} /\ fabric \notin {"srd", "none"} /\ topos[some].pairs # {}
                /\ IbPlan(P, nodes, topos[some], fabric)
<1> DEFINE fabric == ResolveRDMAType(configured, topos)
<1>1. [n \in nodes \cap DOMAIN topos |-> topos[n]] = topos
  OBVIOUS
<1>2. CASE DOMAIN topos = {}
  BY <1>2 DEF ExpandRDMAJobs, Plan
<1>3. CASE DOMAIN topos # {}
  <2>1. P = ExpandRDMA(nodes, topos, some, configured, efa)
    BY <1>3 DEF ExpandRDMAJobs
  <2>2. P = IF topos[some].pairs = {} \/ fabric = "none" THEN Plan({}, {<<"rdma", 0>>})
            ELSE IF fabric = "srd" THEN ExpandEFA(nodes, topos, efa)
            ELSE ExpandIB(nodes, topos[some], fabric)
    BY <1>1, <2>1 DEF ExpandRDMA
  <2> HIDE DEF fabric
  <2>3. CASE topos[some].pairs = {} \/ fabric = "none"
    BY <2>2, <2>3 DEF Plan
  <2>4. CASE topos[some].pairs # {} /\ fabric = "srd"
    BY <1>3, <2>2, <2>4, EfaPlans DEF fabric
  <2>5. CASE topos[some].pairs # {} /\ fabric \notin {"srd", "none"}
    BY <1>3, <2>2, <2>5, IbPlans DEF fabric
  <2> QED
    BY <2>3, <2>4, <2>5
<1> QED
  BY <1>2, <1>3

(* Every job has lanes for every node. *)
LEMMA JobsOfAllNodes ==
  ASSUME NEW nodes, NEW topos, NEW some, NEW configured, NEW efa,
         topos = [n \in DOMAIN topos |-> topos[n]], DOMAIN topos \in SUBSET nodes,
         NEW j \in ExpandRDMAJobs(nodes, topos, some, configured, efa).jobs
  PROVE  DOMAIN j.lanes = nodes
<1> DEFINE P == ExpandRDMAJobs(nodes, topos, some, configured, efa)
           fabric == ResolveRDMAType(configured, topos)
<1>1. \/ P.jobs = {}
      \/ DOMAIN topos = {} /\ P.jobs = {DefaultJob(nodes)}
      \/ EfaPlan(P, nodes, topos, efa)
      \/ IbPlan(P, nodes, topos[some], fabric)
  BY Plans
<1>2. j \in P.jobs
  OBVIOUS
<1> HIDE DEF P, fabric
<1> QED
  BY <1>1, <1>2 DEF DefaultJob, EfaPlan, IbPlan, EfaPd, EfaWep, IbPd, IbWep

(* Property TypeOK, for all machines: the pairs are of GPUs and NICs that  *)
(* the node has, the probes under way are of nodes whose report arrived,   *)
(* and every job has lanes for all nodes.                                  *)
THEOREM TypesOK == Spec => []TypeOK
<1>1. ASSUME IInv, NEW n \in Nodes
      PROVE  /\ topology[n].strategy \in Strategies
             /\ topology[n].status \in {"none", "PASS", "WARN"}
             /\ \A p \in topology[n].pairs : p.gpu \in Gpus(Machine(n)) /\ p.nic \in Nics(Machine(n))
  <2>1. CASE stage = "check"
    BY <1>1, <2>1 DEF IInv, EachSettled, NotChecked, Strategies
  <2>2. CASE stage # "check"
    BY <1>1, <2>2, SettledNodes DEF InRange
  <2> QED
    BY <2>1, <2>2
<1>2. ASSUME IInv, NEW j \in plan.jobs
      PROVE  DOMAIN j.lanes = Nodes
  <2>1. CASE plan = NoPlan
    BY <1>2, <2>1 DEF NoPlan, Plan
  <2>2. CASE Planned
    <3> DEFINE topos == [n \in Known |-> TopoOf(n)]
    <3>1. topos = [n \in DOMAIN topos |-> topos[n]] /\ DOMAIN topos \in SUBSET Nodes
      BY <1>2 DEF IInv, Shape, Known
    <3>2. PICK some, efa : plan = ExpandRDMAJobs(Nodes, topos, some, cluster.rdmaType, efa)
      BY <2>2 DEF Planned
    <3> HIDE DEF topos
    <3> QED
      BY <1>2, <3>1, <3>2, JobsOfAllNodes
  <2> QED
    BY <1>2, <2>1, <2>2 DEF IInv, PlanFollows
<1>3. ASSUME IInv PROVE TypeOK
  BY <1>1, <1>2, <1>3 DEF TypeOK, IInv, Shape, Probes
<1> QED
  BY <1>3, Inductive, PTL

-----------------------------------------------------------------------------
(* Lanes. *)

Tidy(topo) == topo.pairs \in SUBSET LaneType /\ IsFiniteSet(topo.pairs)

(* The list s has the lanes S by GPU and device. *)
InOrder(s, S) ==
  Lists(s, S) /\ \A i, j \in DOMAIN s : i < j => LowerGpu(s[i], s[j])

(* The image of a finite set has not more elements than the set. *)
LEMMA ImageFinite ==
  ASSUME NEW S, IsFiniteSet(S), NEW f, DOMAIN f = S, NEW T, T = {f[x] : x \in S}
  PROVE  IsFiniteSet(T) /\ Cardinality(T) <= Cardinality(S)
<1> DEFINE h == [x \in S |-> f[x]]
<1>1. h \in Surjection(S, T)
  BY DEF Surjection
<1> QED
  BY <1>1, FS_Surjection

(* The lanes of a topology are its pairs. *)
LEMMA LanesArePairs ==
  ASSUME NEW topo, Tidy(topo)
  PROVE  Lanes(topo) = topo.pairs
<1>1. \A l \in LaneType : Lane(l) = l
  BY DEF LaneType, Lane
<1> QED
  BY <1>1 DEF Lanes, Tidy

(* The lanes of one GPU, by device. *)
LEMMA LanesOfFacts ==
  ASSUME NEW topo, Tidy(topo), NEW g
  PROVE  InOrder(LanesOf(topo, g), {l \in topo.pairs : l.gpu = g})
<1> DEFINE S == {l \in topo.pairs : l.gpu = g}
<1>1. S \in SUBSET LaneType /\ IsFiniteSet(S)
  BY FS_Subset DEF Tidy
<1>2. LanesOf(topo, g) = ByGpu(S)
  BY LanesArePairs DEF LanesOf
<1> HIDE DEF S
<1>3. InOrder(ByGpu(S), S)
  BY <1>1, ByGpuFacts, ListFacts DEF InOrder
<1> QED
  BY <1>2, <1>3 DEF S

(* The pairs of a topology, by GPU and device. *)
LEMMA PairSeqFacts ==
  ASSUME NEW topo, Tidy(topo)
  PROVE  InOrder(PairSeq(topo), topo.pairs)
<1>1. PairSeq(topo) = ByGpu(topo.pairs)
  BY LanesArePairs DEF PairSeq
<1> QED
  BY <1>1, ByGpuFacts, ListFacts DEF InOrder, Tidy

(* A list of lanes in order: each once, and the GPUs do not decrease. *)
LEMMA OrderFacts ==
  ASSUME NEW S \in SUBSET LaneType, IsFiniteSet(S), NEW s, InOrder(s, S)
  PROVE  /\ DOMAIN s = 1 .. Cardinality(S) /\ Len(s) = Cardinality(S) /\ Cardinality(S) \in Nat
         /\ \A i \in DOMAIN s : s[i] \in S /\ s[i].gpu \in Int /\ s[i].dev \in Int
         /\ \A x \in S : \E i \in DOMAIN s : s[i] = x
         /\ \A i, j \in DOMAIN s : i < j => LowerGpu(s[i], s[j])
         /\ \A i, j \in DOMAIN s : s[i] = s[j] => i = j
         /\ \A i, j \in DOMAIN s : i <= j => s[i].gpu <= s[j].gpu
<1>1. /\ DOMAIN s = 1 .. Cardinality(S) /\ Len(s) = Cardinality(S) /\ Cardinality(S) \in Nat
      /\ \A i \in DOMAIN s : s[i] \in S
      /\ \A x \in S : \E i \in DOMAIN s : s[i] = x
  BY ListFacts, FS_CardinalityType DEF InOrder
<1>2. \A i, j \in DOMAIN s : i < j => LowerGpu(s[i], s[j])
  BY DEF InOrder
<1>3. \A i \in DOMAIN s : s[i].gpu \in Int /\ s[i].dev \in Int
  BY <1>1 DEF LaneType
<1>4. ASSUME NEW i \in DOMAIN s, NEW j \in DOMAIN s, i < j
      PROVE  s[i] # s[j] /\ s[i].gpu <= s[j].gpu
  <2>1. LowerGpu(s[i], s[j]) /\ s[i].gpu \in Int /\ s[j].gpu \in Int /\ s[i].dev \in Int
    BY <1>2, <1>3, <1>4
  <2> QED
    BY <2>1 DEF LowerGpu
<1>5. \A i, j \in DOMAIN s : i \in Int /\ j \in Int
  BY <1>1
<1>6. \A i, j \in DOMAIN s : s[i] = s[j] => i = j
  BY <1>4, <1>5
<1>7. \A i, j \in DOMAIN s : i <= j => s[i].gpu <= s[j].gpu
  <2> TAKE i, j \in DOMAIN s
  <2>1. CASE i = j
    BY <1>3, <2>1
  <2>2. CASE i # j
    BY <1>4, <1>5, <2>2
  <2> QED
    BY <2>1, <2>2
<1> QED
  BY <1>1, <1>2, <1>3, <1>6, <1>7

(* Lanes of one GPU have different devices. *)
LEMMA OneGpuDevices ==
  ASSUME NEW topo, Tidy(topo), NEW g
  PROVE  LET s == LanesOf(topo, g)
         IN  /\ \A i, k \in DOMAIN s : i # k => s[i].dev # s[k].dev
             /\ \A i \in DOMAIN s : s[i] \in topo.pairs /\ s[i].gpu = g
             /\ \A x \in topo.pairs : x.gpu = g => \E i \in DOMAIN s : s[i] = x
             /\ DOMAIN s = 1 .. Len(s) /\ Len(s) \in Nat
             /\ \A i, k \in DOMAIN s : s[i] = s[k] => i = k
<1> DEFINE s == LanesOf(topo, g)
           S == {l \in topo.pairs : l.gpu = g}
<1>1. S \in SUBSET LaneType /\ IsFiniteSet(S)
  BY FS_Subset DEF Tidy
<1>2. InOrder(s, S)
  BY LanesOfFacts
<1>3. \A x \in S : x \in topo.pairs /\ x.gpu = g
  OBVIOUS
<1>4. \A x \in topo.pairs : x.gpu = g => x \in S
  OBVIOUS
<1> HIDE DEF s, S
<1>5. /\ DOMAIN s = 1 .. Cardinality(S) /\ Len(s) = Cardinality(S) /\ Cardinality(S) \in Nat
      /\ \A i \in DOMAIN s : s[i] \in S /\ s[i].gpu \in Int /\ s[i].dev \in Int
      /\ \A x \in S : \E i \in DOMAIN s : s[i] = x
      /\ \A i, j \in DOMAIN s : i < j => LowerGpu(s[i], s[j])
      /\ \A i, j \in DOMAIN s : s[i] = s[j] => i = j
  BY <1>1, <1>2, OrderFacts
<1>6. ASSUME NEW i \in DOMAIN s, NEW j \in DOMAIN s, i < j
      PROVE  s[i].dev # s[j].dev
  <2>1. LowerGpu(s[i], s[j]) /\ s[i].gpu = g /\ s[j].gpu = g /\ g \in Int /\ s[i].dev \in Int
    BY <1>3, <1>5, <1>6
  <2> QED
    BY <2>1 DEF LowerGpu
<1>7. \A i, k \in DOMAIN s : i # k => s[i].dev # s[k].dev
  <2> TAKE i, k \in DOMAIN s
  <2>1. i \in Int /\ k \in Int
    BY <1>5
  <2> QED
    BY <1>6, <2>1
<1> QED
  BY <1>3, <1>4, <1>5, <1>7 DEF s

(* Each pair has a device of its own if there are as many devices as pairs. *)
LEMMA OwnDevices ==
  ASSUME NEW S, IsFiniteSet(S), ~(Cardinality({p.dev : p \in S}) < Cardinality(S))
  PROVE  \A p, q \in S : p.dev = q.dev => p = q
<1> DEFINE f == [p \in S |-> p.dev]
           T == {p.dev : p \in S}
<1>1. f \in Surjection(S, T)
  BY DEF Surjection
<1>2. IsFiniteSet(T) /\ Cardinality(T) <= Cardinality(S)
      /\ (Cardinality(T) = Cardinality(S) <=> f \in Injection(S, T))
  BY <1>1, FS_Surjection
<1>3. Cardinality(T) \in Nat /\ Cardinality(S) \in Nat
  BY <1>2, FS_CardinalityType
<1>4. f \in Injection(S, T)
  BY <1>2, <1>3
<1> QED
  BY <1>4 DEF Injection, IsInjective

-----------------------------------------------------------------------------
(* The WEP job of EFA: two nodes with as many lanes for each GPU have the  *)
(* same GPU at each place.                                                 *)
Among(S, A) == {l \in S : l.gpu \in A}

(* If two nodes have as many lanes for each GPU, then for any set of GPUs: *)
(* the i-th lane of a GPU on one node has the i-th on the other as its     *)
(* partner.                                                                *)
LEMMA NoFewer ==
  ASSUME NEW a, NEW b, Tidy(a), Tidy(b),
         \A l \in a.pairs : Len(LanesOf(a, l.gpu)) = Len(LanesOf(b, l.gpu)),
         NEW A
  PROVE  Cardinality(Among(a.pairs, A)) <= Cardinality(Among(b.pairs, A))
<1> DEFINE S == Among(a.pairs, A)
           T == Among(b.pairs, A)
           place(l) == CHOOSE i \in DOMAIN LanesOf(a, l.gpu) : LanesOf(a, l.gpu)[i] = l
           partner(l) == LanesOf(b, l.gpu)[place(l)]
           h == [l \in S |-> partner(l)]
<1>1. ASSUME NEW l \in S
      PROVE  /\ place(l) \in DOMAIN LanesOf(a, l.gpu) /\ LanesOf(a, l.gpu)[place(l)] = l
             /\ place(l) \in DOMAIN LanesOf(b, l.gpu)
             /\ partner(l) \in T /\ partner(l).gpu = l.gpu
  <2>1. l \in a.pairs /\ l.gpu \in A
    BY DEF Among
  <2>2. \E i \in DOMAIN LanesOf(a, l.gpu) : LanesOf(a, l.gpu)[i] = l
    BY <2>1, OneGpuDevices
  <2>3. place(l) \in DOMAIN LanesOf(a, l.gpu) /\ LanesOf(a, l.gpu)[place(l)] = l
    BY <2>2
  <2> HIDE DEF place
  <2>4. DOMAIN LanesOf(a, l.gpu) = DOMAIN LanesOf(b, l.gpu)
    <3>1. /\ DOMAIN LanesOf(a, l.gpu) = 1 .. Len(LanesOf(a, l.gpu))
          /\ DOMAIN LanesOf(b, l.gpu) = 1 .. Len(LanesOf(b, l.gpu))
      BY OneGpuDevices
    <3> QED
      BY <2>1, <3>1
  <2>5. partner(l) \in b.pairs /\ partner(l).gpu = l.gpu
    BY <2>3, <2>4, OneGpuDevices
  <2> QED
    BY <2>1, <2>3, <2>4, <2>5 DEF Among
<1> HIDE DEF place
<1>2. h \in [S -> T] /\ \A l \in S : h[l] = partner(l)
  BY <1>1
<1> HIDE DEF h, S, T
<1>3. ASSUME NEW k \in S, NEW l \in S, h[k] = h[l]
      PROVE  k = l
  <2>1. k.gpu = l.gpu /\ LanesOf(b, l.gpu)[place(k)] = LanesOf(b, l.gpu)[place(l)]
    BY <1>1, <1>2, <1>3
  <2>2. place(k) \in DOMAIN LanesOf(b, l.gpu) /\ place(l) \in DOMAIN LanesOf(b, l.gpu)
    BY <1>1, <2>1
  <2>3. place(k) = place(l)
    BY <2>1, <2>2, OneGpuDevices
  <2> QED
    BY <1>1, <2>1, <2>3
<1>4. IsFiniteSet(T)
  BY FS_Subset DEF T, Among, Tidy
<1>5. h \in Injection(S, T)
  BY <1>2, <1>3 DEF Injection, IsInjective
<1>6. Cardinality(S) <= Cardinality(T)
  BY <1>4, <1>5, FS_Injection
<1> QED
  BY <1>6 DEF S, T

(* So no place has a lower GPU on the first node: the lanes up to that     *)
(* place on the first node would be more than those of GPUs as low on the  *)
(* second.                                                                 *)
LEMMA NotLower ==
  ASSUME NEW S \in SUBSET LaneType, IsFiniteSet(S), NEW s, InOrder(s, S),
         NEW T \in SUBSET LaneType, IsFiniteSet(T), NEW t, InOrder(t, T),
         \A A \in SUBSET Int : Cardinality(Among(S, A)) <= Cardinality(Among(T, A)),
         NEW i \in DOMAIN s, i \in DOMAIN t
  PROVE  ~(s[i].gpu < t[i].gpu)
<1> SUFFICES ASSUME s[i].gpu < t[i].gpu PROVE FALSE
  OBVIOUS
<1>1. /\ DOMAIN s = 1 .. Cardinality(S) /\ Cardinality(S) \in Nat
      /\ \A k \in DOMAIN s : s[k] \in S /\ s[k].gpu \in Int
      /\ \A j, k \in DOMAIN s : s[j] = s[k] => j = k
      /\ \A j, k \in DOMAIN s : j <= k => s[j].gpu <= s[k].gpu
  BY OrderFacts
<1>2. /\ DOMAIN t = 1 .. Cardinality(T) /\ Cardinality(T) \in Nat
      /\ \A k \in DOMAIN t : t[k] \in T /\ t[k].gpu \in Int
      /\ \A x \in T : \E k \in DOMAIN t : t[k] = x
      /\ \A j, k \in DOMAIN t : j <= k => t[j].gpu <= t[k].gpu
  BY OrderFacts
<1>3. i \in Nat /\ i >= 1
  BY <1>1
<1> DEFINE A == {x \in Int : x <= s[i].gpu}
           SA == Among(S, A)
           TA == Among(T, A)
<1>4. IsFiniteSet(SA) /\ IsFiniteSet(TA) /\ Cardinality(SA) <= Cardinality(TA)
  <2>1. A \in SUBSET Int
    OBVIOUS
  <2>2. SA \in SUBSET S /\ TA \in SUBSET T
    BY DEF Among
  <2> HIDE DEF A
  <2> QED
    BY <2>1, <2>2, FS_Subset
<1>5. i <= Cardinality(SA)
  <2> DEFINE h == [k \in 1 .. i |-> s[k]]
  <2>1. \A k \in 1 .. i : k \in DOMAIN s /\ s[k] \in SA
    <3> TAKE k \in 1 .. i
    <3>1. k \in DOMAIN s /\ k <= i
      BY <1>1, <1>3
    <3>2. s[k] \in S /\ s[k].gpu \in Int /\ s[k].gpu <= s[i].gpu
      BY <1>1, <3>1
    <3> QED
      BY <3>1, <3>2 DEF Among
  <2> HIDE DEF SA
  <2>2. h \in Injection(1 .. i, SA)
    BY <1>1, <2>1 DEF Injection, IsInjective
  <2>3. Cardinality(1 .. i) <= Cardinality(SA)
    BY <1>4, <2>2, FS_Injection
  <2> QED
    BY <1>3, <2>3, IntervalFacts
<1>6. Cardinality(TA) <= i - 1
  <2> DEFINE f == [k \in 1 .. i - 1 |-> t[k]]
             F == {f[k] : k \in 1 .. i - 1}
  <2>1. i - 1 \in Nat
    BY <1>3
  <2>2. IsFiniteSet(1 .. i - 1) /\ Cardinality(1 .. i - 1) = i - 1
    BY <2>1, IntervalFacts
  <2>3. IsFiniteSet(F) /\ Cardinality(F) <= i - 1
    <3>1. DOMAIN f = 1 .. i - 1
      OBVIOUS
    <3> HIDE DEF f
    <3> QED
      BY <2>2, <3>1, ImageFinite
  <2>4. \A x \in TA : x \in F
    <3> TAKE x \in TA
    <3>1. x \in T /\ x.gpu \in Int /\ x.gpu <= s[i].gpu
      BY DEF Among
    <3>2. PICK k \in DOMAIN t : t[k] = x
      BY <1>2, <3>1
    <3>3. k \in Int /\ k >= 1 /\ ~(i <= k)
      BY <1>1, <1>2, <3>1, <3>2
    <3>4. k \in 1 .. i - 1
      BY <1>3, <3>3
    <3> QED
      BY <3>2, <3>4
  <2> HIDE DEF F, TA
  <2>5. Cardinality(TA) <= Cardinality(F)
    BY <2>3, <2>4, FS_Subset
  <2>6. Cardinality(TA) \in Nat /\ Cardinality(F) \in Nat
    BY <1>4, <2>3, FS_CardinalityType
  <2> QED
    BY <1>3, <2>3, <2>5, <2>6
<1> HIDE DEF SA, TA
<1>7. Cardinality(SA) \in Nat /\ Cardinality(TA) \in Nat
  BY <1>4, FS_CardinalityType
<1> QED
  BY <1>3, <1>4, <1>5, <1>6, <1>7

(* Two nodes with as many lanes for each GPU have the same GPU at each     *)
(* place of their WEP lanes.                                               *)
LEMMA SamePlaces ==
  ASSUME NEW a, NEW b, Tidy(a), Tidy(b),
         \A l \in a.pairs : Len(LanesOf(a, l.gpu)) = Len(LanesOf(b, l.gpu)),
         \A l \in b.pairs : Len(LanesOf(b, l.gpu)) = Len(LanesOf(a, l.gpu))
  PROVE  /\ Len(PairSeq(a)) = Len(PairSeq(b))
         /\ \A i \in DOMAIN PairSeq(a) : PairSeq(a)[i].gpu = PairSeq(b)[i].gpu
<1> DEFINE s == PairSeq(a)
           t == PairSeq(b)
           S == a.pairs
           T == b.pairs
<1>1. InOrder(s, S) /\ InOrder(t, T)
  BY PairSeqFacts
<1>2. S \in SUBSET LaneType /\ IsFiniteSet(S) /\ T \in SUBSET LaneType /\ IsFiniteSet(T)
  BY DEF Tidy
<1>3. /\ \A A : Cardinality(Among(S, A)) <= Cardinality(Among(T, A))
      /\ \A A : Cardinality(Among(T, A)) <= Cardinality(Among(S, A))
  BY NoFewer
<1> HIDE DEF s, t, S, T
<1>4. Among(S, Int) = S /\ Among(T, Int) = T
  BY <1>2 DEF Among, LaneType
<1>5. /\ DOMAIN s = 1 .. Cardinality(S) /\ Len(s) = Cardinality(S) /\ Cardinality(S) \in Nat
      /\ \A i \in DOMAIN s : s[i].gpu \in Int
  BY <1>1, <1>2, OrderFacts
<1>6. /\ DOMAIN t = 1 .. Cardinality(T) /\ Len(t) = Cardinality(T) /\ Cardinality(T) \in Nat
      /\ \A i \in DOMAIN t : t[i].gpu \in Int
  BY <1>1, <1>2, OrderFacts
<1>7. Cardinality(S) = Cardinality(T)
  <2>1. Cardinality(S) <= Cardinality(T) /\ Cardinality(T) <= Cardinality(S)
    BY <1>3, <1>4
  <2> QED
    BY <1>5, <1>6, <2>1
<1>8. \A i \in DOMAIN s : s[i].gpu = t[i].gpu
  <2> TAKE i \in DOMAIN s
  <2>1. i \in DOMAIN t
    BY <1>5, <1>6, <1>7
  <2>2. ~(s[i].gpu < t[i].gpu)
    BY <1>1, <1>2, <1>3, <2>1, NotLower
  <2>3. ~(t[i].gpu < s[i].gpu)
    BY <1>1, <1>2, <1>3, <2>1, NotLower
  <2> QED
    BY <1>5, <1>6, <2>1, <2>2, <2>3
<1> QED
  BY <1>5, <1>6, <1>7, <1>8 DEF s, t

-----------------------------------------------------------------------------
(* The WEP job of InfiniBand and RoCE: each device once. *)
LEMMA DevicesOnce ==
  ASSUME NEW topo, Tidy(topo)
  PROVE  LET w == WepOfDevices(topo)
         IN  /\ \A i, k \in DOMAIN w : i # k => w[i].dev # w[k].dev
             /\ \A l \in topo.pairs : \E i \in DOMAIN w : w[i].dev = l.dev
<1> DEFINE s == PairSeq(topo)
           S == topo.pairs
           F == {i \in DOMAIN s : \A j \in 1 .. i - 1 : s[j].dev # s[i].dev}
           first == Ascending(F)
           w == [i \in DOMAIN first |-> s[first[i]]]
<1>1. WepOfDevices(topo) = w
  BY DEF WepOfDevices
<1>2. /\ DOMAIN s = 1 .. Cardinality(S) /\ Cardinality(S) \in Nat
      /\ \A x \in S : \E i \in DOMAIN s : s[i] = x
  <2>1. InOrder(s, S) /\ S \in SUBSET LaneType /\ IsFiniteSet(S)
    BY PairSeqFacts DEF Tidy
  <2> HIDE DEF s, S
  <2> QED
    BY <2>1, OrderFacts
<1> HIDE DEF s, S
<1>3. DOMAIN s \in SUBSET Int /\ IsFiniteSet(DOMAIN s)
  BY <1>2, IntervalFacts
<1>4. F \in SUBSET Int /\ IsFiniteSet(F)
  BY <1>3, FS_Subset
<1>5. \A i \in F : /\ i \in DOMAIN s /\ i \in Nat /\ i >= 1
                   /\ \A j \in F : j < i => s[j].dev # s[i].dev
  <2> TAKE i \in F
  <2>1. i \in DOMAIN s /\ i \in Nat /\ i >= 1 /\ \A j \in 1 .. i - 1 : s[j].dev # s[i].dev
    BY <1>2
  <2>2. \A j \in F : j \in Nat /\ j >= 1
    BY <1>2
  <2>3. \A j \in F : j < i => j \in 1 .. i - 1
    BY <2>1, <2>2
  <2> QED
    BY <2>1, <2>3
<1>6. \A l \in S : \E i \in F : s[i].dev = l.dev
  <2> TAKE l \in S
  <2> DEFINE H == {i \in DOMAIN s : s[i].dev = l.dev}
  <2>1. H \in SUBSET Nat /\ H # {}
    BY <1>2
  <2>2. PICK i \in H : \A j \in H : i <= j
    <3> HIDE DEF H
    <3> QED
      BY <2>1, Least
  <2>3. i \in DOMAIN s /\ s[i].dev = l.dev
    OBVIOUS
  <2>4. \A j \in 1 .. i - 1 : s[j].dev # s[i].dev
    <3> TAKE j \in 1 .. i - 1
    <3>1. j \in DOMAIN s /\ ~(i <= j)
      BY <1>2, <2>3
    <3> QED
      BY <2>2, <2>3, <3>1
  <2> QED
    BY <2>3, <2>4
<1> HIDE DEF F
<1>7. /\ Lists(first, F)
      /\ \A i, k \in 1 .. Cardinality(F) : first[i] = first[k] => i = k
  BY <1>4, AscendingFacts
<1> HIDE DEF first
<1>8. /\ DOMAIN first = 1 .. Cardinality(F)
      /\ \A i \in DOMAIN first : first[i] \in F
      /\ \A x \in F : \E i \in DOMAIN first : first[i] = x
  BY <1>7, ListFacts
<1>9. \A i, k \in DOMAIN w : i # k => w[i].dev # w[k].dev
  <2> TAKE i, k \in DOMAIN w
  <2>1. first[i] \in F /\ first[k] \in F /\ w[i] = s[first[i]] /\ w[k] = s[first[k]]
    BY <1>8
  <2>2. ASSUME i # k
        PROVE  first[i] # first[k]
    BY <1>7, <1>8, <2>2
  <2>3. first[i] \in Nat /\ first[k] \in Nat
    BY <1>5, <2>1
  <2> QED
    BY <1>5, <2>1, <2>2, <2>3
<1>10. \A l \in S : \E i \in DOMAIN w : w[i].dev = l.dev
  <2> TAKE l \in S
  <2>1. PICK x \in F : s[x].dev = l.dev
    BY <1>6
  <2>2. PICK i \in DOMAIN first : first[i] = x
    BY <1>8
  <2> QED
    BY <2>1, <2>2
<1> QED
  BY <1>1, <1>9, <1>10 DEF S

-----------------------------------------------------------------------------
(* Jobs. *)

Ends(j, nodes) ==
  /\ \A n, o \in nodes :
       /\ Len(j.lanes[n]) = Len(j.lanes[o])
       /\ \A i \in DOMAIN j.lanes[n] : j.lanes[n][i].gpu = j.lanes[o][i].gpu
  /\ \A n \in nodes : \A i, k \in DOMAIN j.lanes[n] :
       i # k => j.lanes[n][i].dev # j.lanes[n][k].dev

(* Nodes that are compatible for a GPU have as many lanes for it. *)
LEMMA CompatibleLanes ==
  ASSUME NEW topos, NEW nodes, NEW g \in Good(topos, nodes), NEW n \in nodes, NEW o \in nodes
  PROVE  Len(LanesOf(topos[n], g)) = Len(LanesOf(topos[o], g))
BY DEF Good, Compatible

(* The jobs of an EFA plan fit together at their two ends, and have pairs  *)
(* of each node.                                                           *)
LEMMA EfaEnds ==
  ASSUME NEW nodes, NEW topos, NEW efa, NEW P, EfaPlan(P, nodes, topos, efa),
         \A n \in nodes : Tidy(topos[n]), NEW j \in P.jobs
  PROVE  /\ Ends(j, nodes) /\ j.fabric = "srd"
         /\ \A n \in nodes : \A i \in DOMAIN j.lanes[n] : j.lanes[n][i] \in topos[n].pairs
<1>1. \/ \E g \in Good(topos, nodes) : j = EfaPd(nodes, topos, g)
      \/ j = EfaWep(nodes, topos) /\ Good(topos, nodes) = GpusOf(topos, nodes)
  BY DEF EfaPlan
<1>2. ASSUME NEW g \in Good(topos, nodes), j = EfaPd(nodes, topos, g)
      PROVE  /\ Ends(j, nodes) /\ j.fabric = "srd"
             /\ \A n \in nodes : \A i \in DOMAIN j.lanes[n] : j.lanes[n][i] \in topos[n].pairs
  <2>1. j.fabric = "srd" /\ \A n \in nodes : j.lanes[n] = LanesOf(topos[n], g)
    BY <1>2 DEF EfaPd
  <2>2. ASSUME NEW n \in nodes
        PROVE  LET s == j.lanes[n]
               IN  /\ \A i, k \in DOMAIN s : i # k => s[i].dev # s[k].dev
                   /\ \A i \in DOMAIN s : s[i] \in topos[n].pairs /\ s[i].gpu = g
                   /\ DOMAIN s = 1 .. Len(s)
    BY <2>1, OneGpuDevices
  <2>3. ASSUME NEW n \in nodes, NEW o \in nodes
        PROVE  Len(j.lanes[n]) = Len(j.lanes[o])
    BY <2>1, CompatibleLanes
  <2>4. ASSUME NEW n \in nodes, NEW o \in nodes, NEW i \in DOMAIN j.lanes[n]
        PROVE  j.lanes[n][i].gpu = j.lanes[o][i].gpu
    <3>1. i \in DOMAIN j.lanes[o]
      BY <2>2, <2>3
    <3> QED
      BY <2>2, <3>1
  <2> QED
    BY <2>1, <2>2, <2>3, <2>4 DEF Ends
<1>3. ASSUME j = EfaWep(nodes, topos), Good(topos, nodes) = GpusOf(topos, nodes)
      PROVE  /\ Ends(j, nodes) /\ j.fabric = "srd"
             /\ \A n \in nodes : \A i \in DOMAIN j.lanes[n] : j.lanes[n][i] \in topos[n].pairs
  <2>1. j.fabric = "srd" /\ \A n \in nodes : j.lanes[n] = PairSeq(topos[n])
    BY <1>3 DEF EfaWep, WepLanes
  <2>2. ASSUME NEW n \in nodes, NEW o \in nodes
        PROVE  \A l \in topos[n].pairs :
                 Len(LanesOf(topos[n], l.gpu)) = Len(LanesOf(topos[o], l.gpu))
    <3> TAKE l \in topos[n].pairs
    <3>1. l.gpu \in Good(topos, nodes)
      BY <1>3 DEF GpusOf
    <3> QED
      BY <3>1, CompatibleLanes
  <2>3. ASSUME NEW n \in nodes, NEW o \in nodes
        PROVE  /\ Len(j.lanes[n]) = Len(j.lanes[o])
               /\ \A i \in DOMAIN j.lanes[n] : j.lanes[n][i].gpu = j.lanes[o][i].gpu
    <3>1. \A l \in topos[n].pairs :
            Len(LanesOf(topos[n], l.gpu)) = Len(LanesOf(topos[o], l.gpu))
      BY <2>2
    <3>2. \A l \in topos[o].pairs :
            Len(LanesOf(topos[o], l.gpu)) = Len(LanesOf(topos[n], l.gpu))
      BY <2>2
    <3>3. Tidy(topos[n]) /\ Tidy(topos[o])
      OBVIOUS
    <3> QED
      BY <2>1, <3>1, <3>2, <3>3, SamePlaces
  <2>4. ASSUME NEW n \in nodes
        PROVE  LET s == j.lanes[n]
               IN  /\ \A i, k \in DOMAIN s : i # k => s[i].dev # s[k].dev
                   /\ \A i \in DOMAIN s : s[i] \in topos[n].pairs
    <3> DEFINE s == PairSeq(topos[n])
               S == topos[n].pairs
    <3>1. S \in SUBSET LaneType /\ IsFiniteSet(S) /\ InOrder(s, S)
      BY PairSeqFacts DEF Tidy
    <3>2. ~(Cardinality({p.dev : p \in S}) < Cardinality(S))
      BY DEF EfaPlan, Unfit
    <3> HIDE DEF s, S
    <3>3. \A p, q \in S : p.dev = q.dev => p = q
      BY <3>1, <3>2, OwnDevices
    <3>4. /\ \A i \in DOMAIN s : s[i] \in S
          /\ \A i, k \in DOMAIN s : s[i] = s[k] => i = k
      BY <3>1, OrderFacts
    <3>5. \A i, k \in DOMAIN s : i # k => s[i].dev # s[k].dev
      BY <3>3, <3>4
    <3>6. j.lanes[n] = s
      BY <2>1 DEF s
    <3> QED
      BY <3>4, <3>5, <3>6 DEF S
  <2> QED
    BY <2>1, <2>3, <2>4 DEF Ends
<1> QED
  BY <1>1, <1>2, <1>3

(* The jobs of an InfiniBand or RoCE plan fit together at their two ends. *)
LEMMA IbEnds ==
  ASSUME NEW nodes, NEW topo, Tidy(topo), NEW fabric, NEW P, IbPlan(P, nodes, topo, fabric),
         NEW j \in P.jobs
  PROVE  Ends(j, nodes) /\ j.fabric = fabric
<1>1. (\E p \in topo.pairs : j = IbPd(nodes, Lane(p), fabric)) \/ j = IbWep(nodes, topo, fabric)
  BY DEF IbPlan
<1>2. ASSUME NEW l, j = IbPd(nodes, l, fabric)
      PROVE  Ends(j, nodes) /\ j.fabric = fabric
  <2>1. j.fabric = fabric /\ \A n \in nodes : j.lanes[n] = <<l>>
    BY <1>2 DEF IbPd
  <2>2. DOMAIN <<l>> = {1} /\ \A i, k \in DOMAIN <<l>> : i = k
    OBVIOUS
  <2> QED
    BY <2>1, <2>2 DEF Ends
<1>3. ASSUME j = IbWep(nodes, topo, fabric)
      PROVE  Ends(j, nodes) /\ j.fabric = fabric
  <2>1. j.fabric = fabric /\ \A n \in nodes : j.lanes[n] = WepOfDevices(topo)
    BY <1>3 DEF IbWep
  <2>2. \A i, k \in DOMAIN WepOfDevices(topo) :
          i # k => WepOfDevices(topo)[i].dev # WepOfDevices(topo)[k].dev
    BY DevicesOnce
  <2> QED
    BY <2>1, <2>2 DEF Ends
<1> QED
  BY <1>1, <1>2, <1>3

(* If ResolveRDMAType finds a fabric in the topologies, all their pairs    *)
(* have it.                                                                *)
LEMMA OneFabric ==
  ASSUME NEW topos, IsFiniteSet(DOMAIN topos), \A n \in DOMAIN topos : Tidy(topos[n]),
         ResolveRDMAType("", topos) # "none",
         NEW n \in DOMAIN topos, NEW p \in topos[n].pairs
  PROVE  topos[n].nics[p.dev] = ResolveRDMAType("", topos)
<1> DEFINE S == PairedFabrics(topos)
           of == [o \in DOMAIN topos |-> {topos[o].nics[q.dev] : q \in topos[o].pairs}]
           F == {of[o] : o \in DOMAIN topos}
<1>1. S = UNION F
  <2>1. F = {{topos[o].nics[q.dev] : q \in topos[o].pairs} : o \in DOMAIN topos}
    OBVIOUS
  <2> HIDE DEF F
  <2> QED
    BY <2>1 DEF PairedFabrics
<1>2. ASSUME NEW o \in DOMAIN topos
      PROVE  IsFiniteSet(of[o])
  <2> DEFINE Q == topos[o].pairs
             f == [q \in Q |-> topos[o].nics[q.dev]]
             T == of[o]
  <2>1. T = {f[q] : q \in Q} /\ DOMAIN f = Q
    OBVIOUS
  <2>2. IsFiniteSet(Q)
    BY DEF Tidy
  <2> HIDE DEF f, of, Q, T
  <2>3. IsFiniteSet(T)
    BY <2>1, <2>2, ImageFinite
  <2> QED
    BY <2>3 DEF T
<1>3. DOMAIN of = DOMAIN topos
  OBVIOUS
<1>4. topos[n].nics[p.dev] \in S
  <2>1. topos[n].nics[p.dev] \in of[n]
    OBVIOUS
  <2>2. of[n] \in F
    OBVIOUS
  <2> HIDE DEF F, of, S
  <2> QED
    BY <1>1, <2>1, <2>2
<1> HIDE DEF of
<1>5. IsFiniteSet(F)
  BY <1>3, ImageFinite
<1>6. IsFiniteSet(S)
  BY <1>1, <1>2, <1>5, FS_UNION
<1>7. Cardinality(S) = 1 /\ ResolveRDMAType("", topos) = CHOOSE x \in S : TRUE
  BY DEF ResolveRDMAType
<1> HIDE DEF S
<1>8. PICK x : S = {x}
  BY <1>6, <1>7, FS_Singleton
<1> QED
  BY <1>4, <1>7, <1>8

-----------------------------------------------------------------------------
(* The topologies of the nodes. *)

(* The topology that expandRDMAJobs sees has finitely many lanes, and with *)
(* a configured type all its devices are of that fabric.                   *)
LEMMA TopoFacts ==
  ASSUME IInv, stage # "check", NEW n \in Nodes
  PROVE  /\ Tidy(TopoOf(n))
         /\ \A l \in PairsOf(n) : cluster.rdmaType \in {"", TopoOf(n).nics[l.dev]}
<1> DEFINE m == Machine(n)
           P == topology[n].pairs
           f == [d \in Gpus(m) \X Nics(m) |-> [gpu |-> d[1], dev |-> m.nics[d[2]].dev]]
           T == {f[d] : d \in Gpus(m) \X Nics(m)}
<1>1. m \in Hardware /\ InRange(P, m)
  BY SettledNodes
<1>2. \A i \in Nics(m) : cluster.rdmaType \in {"", m.nics[i].fabric}
  BY MachineType DEF IInv, Shape
<1>3. /\ TopoOf(n).pairs = {[gpu |-> p.gpu, dev |-> m.nics[p.nic].dev] : p \in P}
      /\ TopoOf(n).nics = [d \in Devices(m) |-> NicNamed(m, d).fabric]
  <2>1. TopoOf(n) = View(m, P)
    BY Views
  <2> HIDE DEF m, P
  <2> QED
    BY <2>1 DEF View
<1> HIDE DEF m, P
<1>4. IsFiniteSet(T)
  <2>1. IsFiniteSet(Gpus(m) \X Nics(m))
    BY <1>1, MachineParts, FS_Product
  <2>2. DOMAIN f = Gpus(m) \X Nics(m)
    OBVIOUS
  <2> HIDE DEF f
  <2> QED
    BY <2>1, <2>2, ImageFinite
<1>5. \A i \in Nics(m) : m.nics[i].dev \in Int
  <2> DEFINE NicType == [numa : Int, path : Seq(Int), dev : Int, fabric : STRING]
  <2>1. m.nics \in Seq(NicType)
    BY <1>1 DEF Hardware
  <2>2. \A x \in NicType : x.dev \in Int
    OBVIOUS
  <2> HIDE DEF NicType
  <2>3. \A i \in Nics(m) : m.nics[i] \in NicType
    BY <2>1 DEF Nics
  <2> QED
    BY <2>2, <2>3
<1>6. ASSUME NEW l \in TopoOf(n).pairs
      PROVE  l \in T /\ l \in LaneType /\ \E i \in Nics(m) : l.dev = m.nics[i].dev
  <2>1. PICK p \in P : l = [gpu |-> p.gpu, dev |-> m.nics[p.nic].dev]
    BY <1>3
  <2>2. p.gpu \in Gpus(m) /\ p.nic \in Nics(m)
    BY <1>1 DEF InRange
  <2>3. p.gpu \in Int
    BY <1>1, <2>2, MachineParts
  <2>4. m.nics[p.nic].dev \in Int
    BY <1>5, <2>2
  <2>5. <<p.gpu, p.nic>> \in Gpus(m) \X Nics(m) /\ l = f[<<p.gpu, p.nic>>]
    BY <2>1, <2>2
  <2>6. l \in LaneType
    BY <2>1, <2>3, <2>4 DEF LaneType
  <2> QED
    BY <2>1, <2>2, <2>5, <2>6
<1> HIDE DEF T
<1>7. Tidy(TopoOf(n))
  <2>1. TopoOf(n).pairs \in SUBSET T
    BY <1>6
  <2>2. IsFiniteSet(TopoOf(n).pairs)
    BY <1>4, <2>1, FS_Subset
  <2> QED
    BY <1>6, <2>2 DEF Tidy
<1>8. ASSUME NEW l \in PairsOf(n)
      PROVE  cluster.rdmaType \in {"", TopoOf(n).nics[l.dev]}
  <2>1. PICK i \in Nics(m) : l.dev = m.nics[i].dev
    BY <1>6 DEF PairsOf
  <2>2. m.nics[i] \in Range(m.nics)
    BY DEF Range, Nics
  <2> DEFINE c == NicNamed(m, l.dev)
  <2>3. c \in Range(m.nics)
    BY <2>1, <2>2 DEF NicNamed
  <2>4. TopoOf(n).nics[l.dev] = c.fabric
    BY <1>3, <2>1 DEF Devices
  <2> HIDE DEF c
  <2>5. PICK k \in Nics(m) : c = m.nics[k]
    BY <2>3 DEF Range, Nics
  <2> QED
    BY <1>2, <2>4, <2>5
<1> QED
  BY <1>7, <1>8

(* What is planned. *)
LEMMA PlanFacts ==
  ASSUME IInv, plan.jobs # {}
  PROVE  LET topos == [n \in Known |-> TopoOf(n)]
             fabric == ResolveRDMAType(cluster.rdmaType, topos)
         IN  /\ stage = "done" /\ Known \in SUBSET Nodes
             /\ \/ plan.jobs = {DefaultJob(Nodes)} /\ Known = {}
                \/ \E some \in Known :
                     /\ fabric # "none" /\ PairsOf(some) # {}
                     /\ \/ \E efa : fabric = "srd" /\ EfaPlan(plan, Nodes, topos, efa)
                        \/ fabric # "srd" /\ IbPlan(plan, Nodes, TopoOf(some), fabric)
<1> DEFINE topos == [n \in Known |-> TopoOf(n)]
           fabric == ResolveRDMAType(cluster.rdmaType, topos)
<1>1. stage = "done"
  BY DEF IInv, PlanFollows, NoPlan, Plan
<1>2. Known \in SUBSET Nodes
  BY DEF IInv, Shape, Known
<1>3. PICK some \in Deciders, efa \in [Nodes -> EfaCounts] :
        plan = ExpandRDMAJobs(Nodes, topos, some, cluster.rdmaType, efa)
  BY <1>1 DEF IInv, PlanFollows, Planned
<1>4. topos = [n \in DOMAIN topos |-> topos[n]] /\ DOMAIN topos \in SUBSET Nodes /\ DOMAIN topos = Known
  BY <1>2
<1>5. Known # {} => some \in Known /\ topos[some] = TopoOf(some)
  BY DEF Deciders
<1> HIDE DEF topos
<1>6. \/ Known = {} /\ plan.jobs = {DefaultJob(Nodes)}
      \/ /\ Known # {} /\ fabric = "srd" /\ topos[some].pairs # {}
         /\ EfaPlan(plan, Nodes, topos, efa)
      \/ /\ Known # {} /\ fabric \notin {"srd", "none"} /\ topos[some].pairs # {}
         /\ IbPlan(plan, Nodes, topos[some], fabric)
  BY <1>3, <1>4, Plans
<1> HIDE DEF fabric
<1>7. CASE Known = {} /\ plan.jobs = {DefaultJob(Nodes)}
  BY <1>1, <1>2, <1>7
<1>8. CASE /\ Known # {} /\ fabric = "srd" /\ topos[some].pairs # {}
           /\ EfaPlan(plan, Nodes, topos, efa)
  BY <1>1, <1>2, <1>5, <1>8 DEF PairsOf, topos, fabric
<1>9. CASE /\ Known # {} /\ fabric \notin {"srd", "none"} /\ topos[some].pairs # {}
           /\ IbPlan(plan, Nodes, topos[some], fabric)
  BY <1>1, <1>2, <1>5, <1>9 DEF PairsOf, topos, fabric
<1> QED
  BY <1>6, <1>7, <1>8, <1>9

(* The fabric of the jobs is the configured one, if there is one, and the  *)
(* one of all pairs of the node they were made from.                       *)
LEMMA FabricFacts ==
  ASSUME IInv, stage = "done", Known \in SUBSET Nodes, NEW some \in Known, PairsOf(some) # {},
         NEW fabric, fabric = ResolveRDMAType(cluster.rdmaType, [n \in Known |-> TopoOf(n)]),
         fabric # "none"
  PROVE  /\ cluster.rdmaType \in {"", fabric}
         /\ \A l \in PairsOf(some) : TopoOf(some).nics[l.dev] = fabric
<1> DEFINE topos == [n \in Known |-> TopoOf(n)]
<1>1. CASE cluster.rdmaType # ""
  <2>1. fabric = cluster.rdmaType
    BY <1>1 DEF ResolveRDMAType
  <2> QED
    BY <1>1, <2>1, TopoFacts
<1>2. CASE cluster.rdmaType = ""
  <2>1. IsFiniteSet(DOMAIN topos)
    BY TopologiesAssumption, FS_Subset
  <2>2. \A n \in DOMAIN topos : Tidy(topos[n])
    BY TopoFacts
  <2>3. topos[some] = TopoOf(some) /\ some \in DOMAIN topos
    OBVIOUS
  <2>4. ResolveRDMAType("", topos) = fabric
    BY <1>2
  <2> HIDE DEF topos
  <2>5. \A l \in PairsOf(some) : TopoOf(some).nics[l.dev] = fabric
    BY <2>1, <2>2, <2>3, <2>4, OneFabric DEF PairsOf
  <2> QED
    BY <1>2, <2>5
<1> QED
  BY <1>1, <1>2

(* Property SameEndpoints, for all machines: the two ends of every job     *)
(* have as many lanes, the same GPU at each position, no device twice, and *)
(* one fabric (bandwidth.go:58-192 and 194-346).                           *)
THEOREM EndsFit == Spec => []SameEndpoints
<1>1. ASSUME IInv, NEW j \in plan.jobs, j.kind # "default"
      PROVE  /\ Ends(j, Nodes) /\ cluster.rdmaType \in {"", j.fabric}
             /\ j.fabric = "srd" => \A n \in Nodes : Range(j.lanes[n]) \subseteq PairsOf(n)
             /\ \E n \in Known : \A l \in PairsOf(n) : TopoOf(n).nics[l.dev] = j.fabric
  <2> DEFINE topos == [n \in Known |-> TopoOf(n)]
             fabric == ResolveRDMAType(cluster.rdmaType, topos)
  <2>1. /\ stage = "done" /\ Known \in SUBSET Nodes
        /\ \/ plan.jobs = {DefaultJob(Nodes)} /\ Known = {}
           \/ \E some \in Known :
                /\ fabric # "none" /\ PairsOf(some) # {}
                /\ \/ \E efa : fabric = "srd" /\ EfaPlan(plan, Nodes, topos, efa)
                   \/ fabric # "srd" /\ IbPlan(plan, Nodes, TopoOf(some), fabric)
    BY <1>1, PlanFacts
  <2>2. ~(plan.jobs = {DefaultJob(Nodes)})
    BY <1>1 DEF DefaultJob
  <2>3. PICK some \in Known :
          /\ fabric # "none" /\ PairsOf(some) # {}
          /\ \/ \E efa : fabric = "srd" /\ EfaPlan(plan, Nodes, topos, efa)
             \/ fabric # "srd" /\ IbPlan(plan, Nodes, TopoOf(some), fabric)
    BY <2>1, <2>2
  <2>4. /\ cluster.rdmaType \in {"", fabric}
        /\ \A l \in PairsOf(some) : TopoOf(some).nics[l.dev] = fabric
    BY <1>1, <2>1, <2>3, FabricFacts
  <2> HIDE DEF fabric
  <2>5. /\ Ends(j, Nodes) /\ j.fabric = fabric
        /\ j.fabric = "srd" => \A n \in Nodes : Range(j.lanes[n]) \subseteq PairsOf(n)
    <3>1. ASSUME NEW efa, fabric = "srd", EfaPlan(plan, Nodes, topos, efa)
          PROVE  /\ Ends(j, Nodes) /\ j.fabric = fabric
                 /\ \A n \in Nodes : Range(j.lanes[n]) \subseteq PairsOf(n)
      <4>1. Nodes \in SUBSET Known
        BY <3>1 DEF EfaPlan, Unfit
      <4>2. \A n \in Nodes : topos[n] = TopoOf(n) /\ Tidy(topos[n])
        BY <1>1, <2>1, <4>1, TopoFacts
      <4> HIDE DEF topos
      <4>3. /\ Ends(j, Nodes) /\ j.fabric = "srd"
            /\ \A n \in Nodes : \A i \in DOMAIN j.lanes[n] : j.lanes[n][i] \in topos[n].pairs
        BY <1>1, <3>1, <4>2, EfaEnds
      <4> QED
        BY <3>1, <4>2, <4>3 DEF Range, PairsOf
    <3>2. ASSUME fabric # "srd", IbPlan(plan, Nodes, TopoOf(some), fabric)
          PROVE  Ends(j, Nodes) /\ j.fabric = fabric
      <4>1. Tidy(TopoOf(some))
        BY <1>1, <2>1, TopoFacts
      <4> QED
        BY <1>1, <3>2, <4>1, IbEnds
    <3> QED
      BY <2>3, <3>1, <3>2
  <2> QED
    BY <2>4, <2>5
<1>2. ASSUME IInv PROVE SameEndpoints
  BY <1>1, <1>2 DEF SameEndpoints, Ends
<1> QED
  BY <1>2, Inductive, PTL

(* The jobs of an EFA plan by their kind. *)
LEMMA EfaJobs ==
  ASSUME NEW nodes, NEW topos, NEW efa, NEW P, EfaPlan(P, nodes, topos, efa)
  PROVE  /\ \A g \in Good(topos, nodes) : EfaPd(nodes, topos, g) \in P.jobs
         /\ \A j \in P.jobs : j.kind = "PD" =>
              \E g \in Good(topos, nodes) : j = EfaPd(nodes, topos, g)
         /\ \A j \in P.jobs : j.kind = "WEP" => j = EfaWep(nodes, topos)
         /\ \A g \in GpusOf(topos, nodes) \ Good(topos, nodes) : <<"gpu", g>> \in P.skips
         /\ \A j \in P.jobs : j.kind # "default"
<1>1. \A g : EfaPd(nodes, topos, g).kind = "PD"
  BY DEF EfaPd
<1>2. EfaWep(nodes, topos).kind = "WEP"
  BY DEF EfaWep
<1> QED
  BY <1>1, <1>2 DEF EfaPlan

(* The jobs of an InfiniBand or RoCE plan by their kind. *)
LEMMA IbJobs ==
  ASSUME NEW nodes, NEW topo, Tidy(topo), NEW fabric, NEW P, IbPlan(P, nodes, topo, fabric)
  PROVE  /\ \A l \in topo.pairs : IbPd(nodes, l, fabric) \in P.jobs
         /\ \A j \in P.jobs : j.kind = "PD" => \E l \in topo.pairs : j = IbPd(nodes, l, fabric)
         /\ \A j \in P.jobs : j.kind = "WEP" => j = IbWep(nodes, topo, fabric)
<1>1. \A l : IbPd(nodes, l, fabric).kind = "PD"
  BY DEF IbPd
<1>2. IbWep(nodes, topo, fabric).kind = "WEP"
  BY DEF IbWep
<1>3. \A l \in topo.pairs : Lane(l) = l
  BY DEF Tidy, LaneType, Lane
<1> QED
  BY <1>1, <1>2, <1>3 DEF IbPlan

(* One job of those that test a pair, if it is the only one. *)
LEMMA OneTest ==
  ASSUME NEW n \in Nodes, NEW l, NEW job \in plan.jobs, job.kind = "PD", l \in Range(job.lanes[n]),
         \A j \in plan.jobs : j.kind = "PD" /\ l \in Range(j.lanes[n]) => j = job
  PROVE  PairTested(n, l)
<1>1. job \in Tests("PD", n, l) /\ \A j \in Tests("PD", n, l) : j = job
  BY DEF Tests
<1>2. Cardinality(Tests("PD", n, l)) = 1
  BY <1>1, ExactlyOne
<1> QED
  BY <1>2 DEF PairTested

(* An EFA plan tests every pair of every node in one PD job, or skips its  *)
(* GPU; and its WEP job, if any, has every device.                         *)
LEMMA EfaTested ==
  ASSUME IInv, stage # "check", NEW efa, NEW topos,
         EfaPlan(plan, Nodes, topos, efa),
         \A n \in Nodes : topos[n] = TopoOf(n), NEW n \in Nodes
  PROVE  AllTested(n)
<1>1. \A o \in Nodes : Tidy(topos[o]) /\ topos[o].pairs = PairsOf(o)
  BY TopoFacts DEF PairsOf
<1>2. /\ \A g \in Good(topos, Nodes) : EfaPd(Nodes, topos, g) \in plan.jobs
      /\ \A j \in plan.jobs : j.kind = "PD" =>
           \E g \in Good(topos, Nodes) : j = EfaPd(Nodes, topos, g)
      /\ \A j \in plan.jobs : j.kind = "WEP" => j = EfaWep(Nodes, topos)
      /\ \A g \in GpusOf(topos, Nodes) \ Good(topos, Nodes) : <<"gpu", g>> \in plan.skips
  BY EfaJobs
<1>3. ASSUME NEW g, NEW l
      PROVE  LET j == EfaPd(Nodes, topos, g)
             IN  /\ j.kind = "PD"
                 /\ l \in Range(j.lanes[n]) <=> l \in PairsOf(n) /\ l.gpu = g
  <2> DEFINE j == EfaPd(Nodes, topos, g)
             s == LanesOf(topos[n], g)
  <2>1. j.kind = "PD" /\ j.lanes[n] = s
    BY DEF EfaPd
  <2>2. /\ \A i \in DOMAIN s : s[i] \in topos[n].pairs /\ s[i].gpu = g
        /\ \A x \in topos[n].pairs : x.gpu = g => \E i \in DOMAIN s : s[i] = x
    BY <1>1, OneGpuDevices
  <2> HIDE DEF s, j
  <2>3. l \in Range(s) <=> l \in PairsOf(n) /\ l.gpu = g
    BY <1>1, <2>2 DEF Range
  <2> QED
    BY <2>1, <2>3 DEF j
<1>4. WepTested(n)
  <2>1. ASSUME NEW j \in plan.jobs, j.kind = "WEP", NEW l \in PairsOf(n)
        PROVE  \E i \in DOMAIN j.lanes[n] : j.lanes[n][i].dev = l.dev
    <3> DEFINE s == PairSeq(topos[n])
               S == topos[n].pairs
    <3>1. j.lanes[n] = s
      BY <1>2, <2>1 DEF EfaWep, WepLanes
    <3>2. InOrder(s, S) /\ S \in SUBSET LaneType /\ IsFiniteSet(S) /\ l \in S
      BY <1>1, PairSeqFacts DEF Tidy
    <3> HIDE DEF s, S
    <3>3. \E i \in DOMAIN s : s[i] = l
      BY <3>2, OrderFacts
    <3> QED
      BY <3>1, <3>3
  <2> QED
    BY <2>1 DEF WepTested
<1>5. ASSUME NEW l \in PairsOf(n)
      PROVE  PairTested(n, l)
  <2>1. l.gpu \in GpusOf(topos, Nodes)
    BY <1>1 DEF GpusOf
  <2>2. CASE l.gpu \in Good(topos, Nodes)
    <3> DEFINE job == EfaPd(Nodes, topos, l.gpu)
    <3>1. job \in plan.jobs /\ job.kind = "PD" /\ l \in Range(job.lanes[n])
      BY <1>2, <1>3, <2>2
    <3>2. ASSUME NEW j \in plan.jobs, j.kind = "PD", l \in Range(j.lanes[n])
          PROVE  j = job
      <4>1. PICK g \in Good(topos, Nodes) : j = EfaPd(Nodes, topos, g)
        BY <1>2, <3>2
      <4>2. l.gpu = g
        BY <1>3, <3>2, <4>1
      <4> QED
        BY <4>1, <4>2
    <3> HIDE DEF job
    <3> QED
      BY <3>1, <3>2, OneTest
  <2>3. CASE l.gpu \notin Good(topos, Nodes)
    <3>1. <<"gpu", l.gpu>> \in plan.skips
      BY <1>2, <2>1, <2>3
    <3>2. ASSUME NEW j \in plan.jobs, j.kind = "PD", l \in Range(j.lanes[n])
          PROVE  FALSE
      <4>1. PICK g \in Good(topos, Nodes) : j = EfaPd(Nodes, topos, g)
        BY <1>2, <3>2
      <4>2. l.gpu = g
        BY <1>3, <3>2, <4>1
      <4> QED
        BY <2>3, <4>2
    <3>3. Tests("PD", n, l) = {}
      BY <3>2 DEF Tests
    <3> QED
      BY <3>1, <3>3 DEF PairTested
  <2> QED
    BY <2>2, <2>3
<1> QED
  BY <1>4, <1>5 DEF AllTested

(* An InfiniBand or RoCE plan does the same for the nodes that have the    *)
(* pairs it was made from.                                                 *)
LEMMA IbTested ==
  ASSUME IInv, stage # "check", NEW topo, Tidy(topo), NEW fabric,
         IbPlan(plan, Nodes, topo, fabric), NEW n \in Nodes, PairsOf(n) = topo.pairs
  PROVE  AllTested(n)
<1>1. /\ \A l \in topo.pairs : IbPd(Nodes, l, fabric) \in plan.jobs
      /\ \A j \in plan.jobs : j.kind = "PD" => \E l \in topo.pairs : j = IbPd(Nodes, l, fabric)
      /\ \A j \in plan.jobs : j.kind = "WEP" => j = IbWep(Nodes, topo, fabric)
  BY IbJobs
<1>2. ASSUME NEW l
      PROVE  LET j == IbPd(Nodes, l, fabric)
             IN  j.kind = "PD" /\ Range(j.lanes[n]) = {l}
  <2>1. IbPd(Nodes, l, fabric).kind = "PD" /\ IbPd(Nodes, l, fabric).lanes[n] = <<l>>
    BY DEF IbPd
  <2>2. Range(<<l>>) = {l}
    BY DEF Range
  <2> QED
    BY <2>1, <2>2
<1>3. WepTested(n)
  <2>1. ASSUME NEW j \in plan.jobs, j.kind = "WEP", NEW l \in PairsOf(n)
        PROVE  \E i \in DOMAIN j.lanes[n] : j.lanes[n][i].dev = l.dev
    <3>1. j.lanes[n] = WepOfDevices(topo)
      BY <1>1, <2>1 DEF IbWep
    <3> QED
      BY <2>1, <3>1, DevicesOnce
  <2> QED
    BY <2>1 DEF WepTested
<1>4. ASSUME NEW l \in PairsOf(n)
      PROVE  PairTested(n, l)
  <2> DEFINE job == IbPd(Nodes, l, fabric)
  <2>1. job \in plan.jobs /\ job.kind = "PD" /\ l \in Range(job.lanes[n])
    BY <1>1, <1>2
  <2>2. ASSUME NEW j \in plan.jobs, j.kind = "PD", l \in Range(j.lanes[n])
        PROVE  j = job
    <3>1. PICK k \in topo.pairs : j = IbPd(Nodes, k, fabric)
      BY <1>1, <2>2
    <3>2. l = k
      BY <1>2, <2>2, <3>1
    <3> QED
      BY <3>1, <3>2
  <2> HIDE DEF job
  <2> QED
    BY <2>1, <2>2, OneTest
<1> QED
  BY <1>3, <1>4 DEF AllTested

(* Property EveryNICTested, for all machines: unless the whole test is     *)
(* skipped, every pair of the nodes that the plan was made for is in       *)
(* exactly one PD job, or its GPU has a SKIP row, and the WEP job has      *)
(* every device (bandwidth.go:56, 66-72, 129-160 and 283-345).             *)
THEOREM AllPairsTested == Spec => []EveryNICTested
<1>1. ASSUME IInv, stage = "done", Known # {}, plan.jobs # {}
      PROVE  \/ Known = Nodes /\ \A n \in Nodes : AllTested(n)
             \/ /\ \A j \in plan.jobs : j.fabric # "srd"
                /\ \E n \in Known : \A o \in Known : PairsOf(o) = PairsOf(n) => AllTested(o)
  <2> DEFINE topos == [n \in Known |-> TopoOf(n)]
             fabric == ResolveRDMAType(cluster.rdmaType, topos)
  <2>1. /\ Known \in SUBSET Nodes
        /\ \E some \in Known :
             \/ \E efa : fabric = "srd" /\ EfaPlan(plan, Nodes, topos, efa)
             \/ fabric # "srd" /\ IbPlan(plan, Nodes, TopoOf(some), fabric)
    BY <1>1, PlanFacts
  <2> HIDE DEF fabric
  <2>2. ASSUME NEW efa, EfaPlan(plan, Nodes, topos, efa)
        PROVE  Known = Nodes /\ \A n \in Nodes : AllTested(n)
    <3>1. Nodes \in SUBSET Known
      BY <2>2 DEF EfaPlan, Unfit
    <3>2. \A n \in Nodes : topos[n] = TopoOf(n)
      BY <3>1
    <3> HIDE DEF topos
    <3>3. \A n \in Nodes : AllTested(n)
      BY <1>1, <2>2, <3>2, EfaTested
    <3> QED
      BY <2>1, <3>1, <3>3
  <2>3. ASSUME NEW some \in Known, fabric # "srd", IbPlan(plan, Nodes, TopoOf(some), fabric)
        PROVE  /\ \A j \in plan.jobs : j.fabric # "srd"
               /\ \A o \in Known : PairsOf(o) = PairsOf(some) => AllTested(o)
    <3>1. Tidy(TopoOf(some)) /\ PairsOf(some) = TopoOf(some).pairs
      BY <1>1, <2>1, TopoFacts DEF PairsOf
    <3>2. \A j \in plan.jobs : j.fabric # "srd"
      BY <2>3, <3>1, IbEnds
    <3>3. \A o \in Known : PairsOf(o) = PairsOf(some) => AllTested(o)
      BY <1>1, <2>1, <2>3, <3>1, IbTested
    <3> QED
      BY <3>2, <3>3
  <2> QED
    BY <2>1, <2>2, <2>3
<1>2. ASSUME IInv PROVE EveryNICTested
  BY <1>1, <1>2 DEF EveryNICTested
<1> QED
  BY <1>2, Inductive, PTL

=============================================================================
