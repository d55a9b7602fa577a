------------------------- MODULE EpochQuery_proofs -------------------------
(***************************************************************************)
(* What the proofs about the two locks share, for every size of the array  *)
(* and every number of blocks, locks and threads: facts about sums, about  *)
(* the geometry of BlockMap, and the query protocol's part of the proofs   *)
(* about DynamicLock and GeneticLock: a query preserves QueryInv, whoever  *)
(* else holds mutexes, and QueryInv with a complete map gives exclusion.   *)
(***************************************************************************)
EXTENDS EpochQuery, FiniteSetTheorems, TLAPS

-----------------------------------------------------------------------------
(* Induction, in the form of sets of numbers                               *)

LEMMA LeastElement ==
    ASSUME NEW T \in SUBSET Nat, T # {}
    PROVE  \E x \in T : \A y \in T : x <= y
<1> DEFINE R == {ss \in Nat \X Nat : ss[1] < ss[2]}
<1>1. IsWellFoundedOn(R, Nat)
  BY NatLessThanWellFounded DEF OpToRel
<1>2. \A x, y \in Nat : y < x => <<y, x>> \in R
  OBVIOUS
<1> HIDE DEF R
<1>3. PICK x \in T : \A y \in T : ~(<<y, x>> \in R)
  BY <1>1, WFMin
<1>4. \A y \in T : ~(y < x) /\ y \in Nat /\ x \in Nat
  BY <1>2, <1>3
<1>5. \A y \in T : x <= y
  BY <1>4
<1> QED
  BY <1>5

LEMMA SetInduction ==
    ASSUME NEW T, 0 \in T, \A m \in T : m \in Nat => m + 1 \in T
    PROVE  \A n \in Nat : n \in T
<1> SUFFICES ASSUME NEW n \in Nat, n \notin T PROVE FALSE
  OBVIOUS
<1> DEFINE missing == Nat \ T
<1>1. PICK x \in missing : \A y \in missing : x <= y
  BY LeastElement
<1>2. x \in Nat /\ x # 0 /\ x \notin T
  OBVIOUS
<1>3. x - 1 \in Nat /\ (x - 1) + 1 = x
  BY <1>2
<1>4. x - 1 \in T
  BY <1>1, <1>3
<1> QED
  BY <1>2, <1>3, <1>4

-----------------------------------------------------------------------------
(* Sums over a finite set, as MapThenSumSet computes them: an element is   *)
(* taken out and what it weighs is added to the sum of the rest.           *)

IsSum(h, S, w) ==
    h = [s \in SUBSET S |-> IF s = {} THEN 0
                            ELSE w[s] + h[s \ {CHOOSE x \in s : TRUE}]]

(* There is such a sum, for every finite set.                             *)
LEMMA SumExists ==
    ASSUME NEW S, IsFiniteSet(S), NEW w
    PROVE  \E h : IsSum(h, S, w)
<1> DEFINE rest(s) == s \ {CHOOSE x \in s : TRUE}
           D(k) == {s \in SUBSET S : Cardinality(s) <= k}
           F(h, s) == IF s = {} THEN 0 ELSE w[s] + h[rest(s)]
           Upto(h, k) == h = [s \in D(k) |-> F(h, s)]
           T == {k \in Nat : \E h : Upto(h, k)}
<1>1. \A s \in SUBSET S : IsFiniteSet(s) /\ Cardinality(s) \in Nat
                           /\ Cardinality(s) <= Cardinality(S)
  BY FS_Subset, FS_CardinalityType
<1>2. \A s \in SUBSET S : s # {} =>
         /\ rest(s) \in SUBSET S /\ Cardinality(rest(s)) = Cardinality(s) - 1
         /\ Cardinality(s) # 0
  <2> SUFFICES ASSUME NEW s \in SUBSET S, s # {}
               PROVE  /\ rest(s) \in SUBSET S /\ Cardinality(rest(s)) = Cardinality(s) - 1
                      /\ Cardinality(s) # 0
    OBVIOUS
  <2>1. (CHOOSE x \in s : TRUE) \in s
    OBVIOUS
  <2>2. IsFiniteSet(s) /\ Cardinality(s) \in Nat
    BY <1>1
  <2> QED
    BY <2>1, <2>2, FS_RemoveElement, FS_EmptySet
<1> HIDE DEF rest
<1>3. 0 \in T
  <2> DEFINE h == [s \in D(0) |-> 0]
  <2>1. \A s \in D(0) : s = {}
    BY <1>1, <1>2
  <2>2. Upto(h, 0)
    BY <2>1
  <2> QED
    BY <2>2
<1>4. ASSUME NEW k \in T PROVE k + 1 \in T
  <2>1. k \in Nat /\ k + 1 \in Nat
    OBVIOUS
  <2>2. PICK h : Upto(h, k)
    OBVIOUS
  <2> DEFINE g == [s \in D(k + 1) |-> F(h, s)]
  <2>3. \A s \in D(k) : s \in D(k + 1)
    BY <1>1, <2>1
  <2>4. \A s \in D(k) : g[s] = h[s]
    BY <2>2, <2>3
  <2>5. \A s \in D(k + 1) : F(h, s) = F(g, s)
    <3> TAKE s \in D(k + 1)
    <3>1. CASE s = {}
      BY <3>1
    <3>2. CASE s # {}
      <4>1. rest(s) \in D(k)
        BY <1>1, <1>2, <2>1, <3>2
      <4> HIDE DEF g, D
      <4> QED
        BY <2>4, <4>1
    <3> QED
      BY <3>1, <3>2
  <2>6. \A s \in D(k + 1) : g[s] = F(g, s)
    <3>1. \A s \in D(k + 1) : g[s] = F(h, s)
      OBVIOUS
    <3> HIDE DEF g, F
    <3> QED
      BY <2>5, <3>1
  <2>7. g = [s \in D(k + 1) |-> g[s]]
    OBVIOUS
  <2>8. g = [s \in D(k + 1) |-> F(g, s)]
    <3> HIDE DEF g, F, D
    <3> QED
      BY <2>6, <2>7
  <2> HIDE DEF g
  <2> QED
    BY <2>1, <2>8
<1>5. \A k \in Nat : k \in T
  <2> HIDE DEF T
  <2> QED
    BY <1>3, <1>4, SetInduction
<1>6. Cardinality(S) \in Nat /\ D(Cardinality(S)) = SUBSET S
  BY <1>1, FS_CardinalityType
<1>7. PICK h : Upto(h, Cardinality(S))
  BY <1>5, <1>6
<1>8. h = [s \in SUBSET S |-> F(h, s)]
  <2> HIDE DEF D, F
  <2> QED
    BY <1>6, <1>7
<1> QED
  BY <1>8 DEF rest, IsSum

(* The order in which a sum takes out the elements does not matter.        *)
AddsUp(h, S, u) ==
    /\ \A x \in S : u[x] \in Nat
    /\ \A s \in SUBSET S :
          h[s] = IF s = {} THEN 0
                 ELSE u[CHOOSE x \in s : TRUE] + h[s \ {CHOOSE x \in s : TRUE}]

AddsUpInAnyOrder(h, S, u) ==
    \A s \in SUBSET S : h[s] \in Nat /\ \A x \in s : h[s] = u[x] + h[s \ {x}]

LEMMA SumStep ==
    ASSUME NEW S, IsFiniteSet(S), NEW u, NEW h, AddsUp(h, S, u)
    PROVE  AddsUpInAnyOrder(h, S, u)
<1> DEFINE first(s) == CHOOSE x \in s : TRUE
           Good(s) == h[s] \in Nat /\ \A x \in s : h[s] = u[x] + h[s \ {x}]
           T == {k \in Nat : \A s \in SUBSET S : Cardinality(s) <= k => Good(s)}
<1>0. \A x \in S : u[x] \in Nat
  BY DEF AddsUp
<1>1. \A s \in SUBSET S : IsFiniteSet(s) /\ Cardinality(s) \in Nat
  BY FS_Subset, FS_CardinalityType
<1>2. \A s \in SUBSET S : \A x \in s :
         /\ s \ {x} \in SUBSET S /\ Cardinality(s \ {x}) = Cardinality(s) - 1
         /\ Cardinality(s) # 0
  <2> TAKE s \in SUBSET S
  <2> TAKE x \in s
  <2>1. IsFiniteSet(s) /\ Cardinality(s) \in Nat
    BY <1>1
  <2> QED
    BY <2>1, FS_RemoveElement, FS_EmptySet
<1>3. /\ \A s \in SUBSET S : s # {} => first(s) \in s
      /\ \A s \in SUBSET S : s # {} => h[s] = u[first(s)] + h[s \ {first(s)}]
      /\ \A s \in SUBSET S : s = {} => h[s] = 0
  <2>1. \A s \in SUBSET S : s # {} => first(s) \in s
    OBVIOUS
  <2>2. \A s \in SUBSET S : h[s] = IF s = {} THEN 0 ELSE u[first(s)] + h[s \ {first(s)}]
    BY DEF AddsUp
  <2> HIDE DEF first
  <2> QED
    BY <2>1, <2>2
<1> HIDE DEF first
<1>4. 0 \in T
  <2> SUFFICES ASSUME NEW s \in SUBSET S, Cardinality(s) <= 0 PROVE Good(s)
    OBVIOUS
  <2>1. s = {}
    <3> SUFFICES ASSUME NEW x \in s PROVE FALSE
      OBVIOUS
    <3>1. Cardinality(s) \in Nat /\ Cardinality(s) # 0
      BY <1>1, <1>2
    <3> QED
      BY <3>1
  <2>2. h[s] = 0
    BY <1>3, <2>1
  <2> QED
    BY <2>1, <2>2
<1>5. ASSUME NEW k \in T PROVE k + 1 \in T
  <2> SUFFICES ASSUME NEW s \in SUBSET S, Cardinality(s) <= k + 1 PROVE Good(s)
    <3> HIDE DEF Good
    <3> QED
      OBVIOUS
  <2>1. k \in Nat /\ \A t \in SUBSET S : Cardinality(t) <= k => Good(t)
    <3> HIDE DEF Good
    <3> QED
      OBVIOUS
  <2>2. CASE s = {}
    <3>1. h[s] = 0
      BY <1>3, <2>2
    <3> QED
      BY <2>2, <3>1
  <2>3. CASE s # {}
    <3> DEFINE c == first(s)
    <3>1. c \in s /\ h[s] = u[c] + h[s \ {c}] /\ u[c] \in Nat
      BY <1>0, <1>3, <2>3
    <3> HIDE DEF c
    <3>2. \A x \in s : s \ {x} \in SUBSET S /\ Good(s \ {x})
      <4> TAKE x \in s
      <4>1. s \ {x} \in SUBSET S /\ Cardinality(s \ {x}) <= k
        BY <1>1, <1>2, <2>1
      <4> HIDE DEF Good, T
      <4> QED
        BY <2>1, <4>1
    <3>3. h[s \ {c}] \in Nat
      BY <3>1, <3>2
    <3>4. h[s] \in Nat
      BY <3>1, <3>3
    <3>5. ASSUME NEW x \in s, x # c PROVE h[s] = u[x] + h[s \ {x}]
      <4> DEFINE both == s \ {x, c}
      <4>1. x \in s \ {c} /\ c \in s \ {x} /\ (s \ {c}) \ {x} = both /\ (s \ {x}) \ {c} = both
        BY <3>1, <3>5
      <4>2. h[s \ {c}] = u[x] + h[(s \ {c}) \ {x}]
        BY <3>1, <3>2, <4>1
      <4>3. h[s \ {x}] = u[c] + h[(s \ {x}) \ {c}]
        BY <3>2, <4>1
      <4>4. h[both] \in Nat
        <5>1. both \in SUBSET S /\ Cardinality(both) <= k
          <6>1. s \ {x} \in SUBSET S /\ Cardinality(s \ {x}) <= k
            BY <1>1, <1>2, <2>1
          <6>2. /\ (s \ {x}) \ {c} \in SUBSET S
                /\ Cardinality((s \ {x}) \ {c}) = Cardinality(s \ {x}) - 1
            BY <1>2, <4>1, <6>1
          <6>3. Cardinality(s \ {x}) \in Nat
            BY <1>1, <6>1
          <6> HIDE DEF both
          <6>4. both \in SUBSET S /\ Cardinality(both) = Cardinality(s \ {x}) - 1
            BY <4>1, <6>2
          <6>5. Cardinality(s \ {x}) - 1 <= k
            BY <2>1, <6>1, <6>3
          <6> QED
            BY <6>4, <6>5
        <5>2. Good(both)
          <6> HIDE DEF Good, T, both
          <6> QED
            BY <2>1, <5>1
        <5> QED
          BY <5>2
      <4> HIDE DEF both
      <4>5. h[s \ {c}] = u[x] + h[both] /\ h[s \ {x}] = u[c] + h[both]
        BY <4>1, <4>2, <4>3
      <4>6. u[x] \in Nat
        BY <1>0
      <4> QED
        BY <3>1, <4>4, <4>5, <4>6
    <3> QED
      BY <3>1, <3>4, <3>5
  <2> QED
    BY <2>2, <2>3
<1>6. \A k \in Nat : k \in T
  <2> HIDE DEF T
  <2> QED
    BY <1>4, <1>5, SetInduction
<1> SUFFICES ASSUME NEW s \in SUBSET S
             PROVE  h[s] \in Nat /\ \A x \in s : h[s] = u[x] + h[s \ {x}]
  BY DEF AddsUpInAnyOrder
<1>7. Cardinality(s) \in Nat
  BY <1>1
<1>8. Cardinality(s) \in T
  <2> HIDE DEF T
  <2> QED
    BY <1>6, <1>7
<1>9. Good(s)
  <2>1. Cardinality(s) <= Cardinality(s)
    BY <1>7
  <2> HIDE DEF Good
  <2> QED
    BY <1>8, <2>1
<1> QED
  BY <1>9

-----------------------------------------------------------------------------
(* Quotients, positions and blocks                                         *)


(* Integer division, as used by the code on unsigned values.               *)
LEMMA DivFacts ==
    ASSUME NEW a \in Nat, NEW n \in Nat \ {0}
    PROVE  /\ a \div n \in Nat
           /\ n * (a \div n) <= a
           /\ a < n * (a \div n) + n
  OBVIOUS

(* A quotient is at least q exactly when q divisors fit.                   *)
LEMMA DivAtLeast ==
    ASSUME NEW a \in Nat, NEW n \in Nat \ {0}, NEW q \in Nat, n * q <= a
    PROVE  q <= a \div n
<1> DEFINE d == a \div n
<1>1. d \in Nat /\ a < n * d + n
  BY DivFacts
<1>2. SUFFICES ASSUME d + 1 <= q PROVE FALSE
  BY <1>1
<1>3. n * (d + 1) <= n * q
  BY <1>1, <1>2
<1> QED
  BY <1>1, <1>3

(* Division does not decrease.                                             *)
LEMMA DivMonotone ==
    ASSUME NEW a \in Nat, NEW b \in Nat, NEW n \in Nat \ {0}, a <= b
    PROVE  a \div n <= b \div n
<1>1. a \div n \in Nat /\ n * (a \div n) <= a
  BY DivFacts
<1>2. n * (a \div n) <= b
  BY <1>1
<1> QED
  BY <1>1, <1>2, DivAtLeast

(* block_size_ is positive, so PositionToBlock divides by a number > 0.    *)
LEMMA BlockSizePositive == block_size_ \in Nat \ {0}
<1>1. (ArraySize - 1) \div kBlocks \in Nat
  BY DivFacts, SizeAssumption
<1> QED
  BY <1>1 DEF block_size_

(* PositionToBlock maps every position to a block that exists.             *)
LEMMA PositionToBlockType ==
    ASSUME NEW pos \in Positions
    PROVE  PositionToBlock(pos) \in Blocks
<1>1. pos \in Nat /\ pos \div block_size_ \in Nat
  BY DivFacts, BlockSizePositive, SizeAssumption DEF Positions
<1> QED
  BY <1>1, SizeAssumption DEF PositionToBlock, Lesser, Blocks

(* PositionToBlock keeps the order of positions, so that the blocks of a   *)
(* range are the ones between the blocks of its ends.                      *)
LEMMA PositionToBlockMonotone ==
    ASSUME NEW p \in Positions, NEW q \in Positions, p <= q
    PROVE  PositionToBlock(p) <= PositionToBlock(q)
<1>1. p \in Nat /\ q \in Nat
  BY SizeAssumption DEF Positions
<1>2. /\ p \div block_size_ \in Nat
      /\ q \div block_size_ \in Nat
      /\ p \div block_size_ <= q \div block_size_
  BY <1>1, DivFacts, DivMonotone, BlockSizePositive
<1> QED
  BY <1>2, SizeAssumption DEF PositionToBlock, Lesser

(* The prologue of a query always produces an ordered range of positions.  *)
LEMMA ClampedRange ==
    ASSUME NEW request \in Nat \X Nat
    PROVE  /\ ClampedLeft(request) \in Positions
           /\ ClampedRight(request) \in Positions
           /\ ClampedLeft(request) <= ClampedRight(request)
<1>1. request[1] \in Nat /\ request[2] \in Nat
  OBVIOUS
<1>2. Clamp(request[1]) \in Positions /\ Clamp(request[2]) \in Positions
  BY <1>1, SizeAssumption DEF Clamp, Lesser, Positions
<1> QED
  BY <1>2, SizeAssumption
  DEF ClampedLeft, ClampedRight, Lesser, Greater, Positions

(* The constructor's cuts form a partitioning without empty partitions.    *)
LEMMA UniformCutsType == UniformCuts \in Cuts
<1> DEFINE K == kBlocks
           N == kLockCnt
           u(l) == (l * K) \div N
<1>1. K \in Nat \ {0} /\ N \in Nat \ {0} /\ N <= K
  BY SizeAssumption
<1>2. \A l \in Nat : l * K \in Nat
  BY <1>1
<1>3. \A l \in Nat : /\ u(l) \in Nat
                     /\ N * u(l) <= l * K
                     /\ l * K < N * u(l) + N
  BY <1>1, <1>2, DivFacts
<1>4. \A l, m \in Nat : l < m => u(l) < u(m)
  <2> SUFFICES ASSUME NEW l \in Nat, NEW m \in Nat, l + 1 <= m
               PROVE  u(l) < u(m)
    OBVIOUS
  <2>1. N * (u(l) + 1) <= (l + 1) * K
    BY <1>1, <1>3
  <2>2. (l + 1) * K <= m * K
    BY <1>1
  <2>3. N * (u(l) + 1) <= m * K
    BY <1>1, <1>3, <2>1, <2>2
  <2>4. u(l) + 1 <= u(m)
    BY <1>1, <1>2, <1>3, <2>3, DivAtLeast
  <2> QED
    BY <1>3, <2>4
<1>5. \A l \in 0 .. N : u(l) <= K
  <2> TAKE l \in 0 .. N
  <2>1. l * K <= N * K
    BY <1>1
  <2>2. SUFFICES ASSUME K + 1 <= u(l) PROVE FALSE
    BY <1>1, <1>3
  <2>3. N * (K + 1) <= N * u(l)
    BY <1>1, <1>3, <2>2
  <2>4. N * (K + 1) = N * K + N
    BY <1>1
  <2> QED
    BY <1>1, <1>2, <1>3, <2>1, <2>3, <2>4
<1>6. u(0) = 0
  BY <1>1, <1>3
<1>7. u(N) = K
  <2>1. K <= u(N)
    BY <1>1, <1>2, DivAtLeast
  <2> QED
    BY <1>1, <1>3, <1>5, <2>1
<1>8. UniformCuts = [l \in 0 .. N |-> u(l)]
  BY DEF UniformCuts
<1>9. UniformCuts \in [0 .. N -> 0 .. K]
  <2>1. \A l \in 0 .. N : u(l) \in 0 .. K
    BY <1>1, <1>3, <1>5
  <2> QED
    BY <2>1, <1>8, Zenon
<1>10. \A l, m \in 0 .. N : l < m => UniformCuts[l] < UniformCuts[m]
  BY <1>1, <1>4, <1>8
<1>11. UniformCuts[0] = 0 /\ UniformCuts[N] = K
  BY <1>1, <1>6, <1>7, <1>8
<1> QED
  BY <1>9, <1>10, <1>11 DEF Cuts

(* A map refreshed from cuts sends blocks in order to locks in order, so   *)
(* the locks of a range are the ones between the locks of its ends.        *)
LEMMA RefreshMonotone ==
    ASSUME NEW cuts \in Cuts, NEW map \in [Blocks -> Locks],
           IsRefreshOf(map, cuts),
           NEW b \in Blocks, NEW c \in Blocks, b <= c
    PROVE  map[b] <= map[c]
<1>1. map[b] \in 0 .. kLockCnt /\ map[c] \in 0 .. kLockCnt
      /\ map[c] + 1 \in 0 .. kLockCnt
  BY SizeAssumption DEF Locks
<1>2. cuts[map[b]] <= b /\ c < cuts[map[c] + 1]
  BY DEF IsRefreshOf
<1>3. SUFFICES ASSUME map[c] + 1 <= map[b] PROVE FALSE
  BY <1>1
<1>4. cuts \in [0 .. kLockCnt -> 0 .. kBlocks]
      /\ \A l, m \in 0 .. kLockCnt : l < m => cuts[l] < cuts[m]
  BY DEF Cuts
<1>5. cuts[map[c] + 1] <= cuts[map[b]]
  BY <1>1, <1>3, <1>4
<1> QED
  BY <1>1, <1>2, <1>4, <1>5, SizeAssumption DEF Blocks

(* The partitions of a partitioning do not overlap, so the map of its cuts *)
(* is the only one.                                                        *)
LEMMA RefreshUnique ==
    ASSUME NEW cuts \in Cuts, NEW map \in [Blocks -> Locks],
           IsRefreshOf(map, cuts),
           NEW b \in Blocks, NEW l \in Locks, cuts[l] <= b, b < cuts[l + 1]
    PROVE  l = map[b]
<1>1. /\ cuts \in [0 .. kLockCnt -> 0 .. kBlocks]
      /\ \A k, m \in 0 .. kLockCnt : k < m => cuts[k] < cuts[m]
  BY DEF Cuts
<1>2. /\ map[b] \in Int /\ map[b] \in 0 .. kLockCnt /\ map[b] + 1 \in 0 .. kLockCnt
      /\ l \in Int /\ l \in 0 .. kLockCnt /\ l + 1 \in 0 .. kLockCnt
      /\ b \in Int
  BY SizeAssumption DEF Locks, Blocks
<1>3. cuts[map[b]] <= b /\ b < cuts[map[b] + 1]
  BY DEF IsRefreshOf
<1>4. CASE l + 1 <= map[b]
  <2>1. cuts[l + 1] <= cuts[map[b]]
    BY <1>1, <1>2, <1>4
  <2> QED
    BY <1>1, <1>2, <1>3, <2>1
<1>5. CASE map[b] + 1 <= l
  <2>1. cuts[map[b] + 1] <= cuts[l]
    BY <1>1, <1>2, <1>5
  <2> QED
    BY <1>1, <1>2, <1>3, <2>1
<1> QED
  BY <1>2, <1>4, <1>5

(* The locks whose partitions a range meets are the ones from the lock of  *)
(* its first block to the lock of its last.                                *)
LEMMA LocksMeetingInterval ==
    ASSUME NEW cuts \in Cuts, NEW map \in [Blocks -> Locks],
           IsRefreshOf(map, cuts),
           NEW first \in Positions, NEW last \in Positions, first <= last
    PROVE  LocksMeeting(cuts, first, last) =
             map[PositionToBlock(first)] .. map[PositionToBlock(last)]
<1> DEFINE bl == PositionToBlock(first)
           br == PositionToBlock(last)
<1>1. bl \in Blocks /\ br \in Blocks /\ bl <= br
  BY PositionToBlockType, PositionToBlockMonotone
<1> HIDE DEF bl, br
<1>2. /\ cuts \in [0 .. kLockCnt -> 0 .. kBlocks]
      /\ \A k, m \in 0 .. kLockCnt : k < m => cuts[k] < cuts[m]
  BY DEF Cuts
<1>3. /\ map[bl] \in Locks /\ map[br] \in Locks
      /\ cuts[map[bl]] <= bl /\ bl < cuts[map[bl] + 1]
      /\ cuts[map[br]] <= br /\ br < cuts[map[br] + 1]
  BY <1>1 DEF IsRefreshOf
<1>4. ASSUME NEW l \in Locks, NEW b \in bl .. br,
             cuts[l] <= b, b < cuts[l + 1]
      PROVE  l \in map[bl] .. map[br]
  <2>1. b \in Blocks /\ bl <= b /\ b <= br
    BY <1>1, SizeAssumption DEF Blocks
  <2>2. l = map[b]
    BY <1>4, <2>1, RefreshUnique
  <2>3. map[bl] <= map[b] /\ map[b] <= map[br]
    BY <1>1, <2>1, RefreshMonotone
  <2> QED
    BY <1>3, <2>2, <2>3 DEF Locks
<1>5. ASSUME NEW l \in map[bl] .. map[br]
      PROVE  l \in Locks /\ \E b \in bl .. br : cuts[l] <= b /\ b < cuts[l + 1]
  <2>1. /\ l \in Locks /\ l \in 0 .. kLockCnt /\ l + 1 \in 0 .. kLockCnt
        /\ map[bl] \in Int /\ map[bl] + 1 \in 0 .. kLockCnt
        /\ map[br] \in 0 .. kLockCnt
        /\ map[bl] <= l /\ l <= map[br]
    BY <1>3, SizeAssumption DEF Locks
  <2>2. bl \in bl .. br
    BY <1>1 DEF Blocks
  <2>3. CASE l = map[bl]
    BY <1>3, <2>1, <2>2, <2>3
  <2>4. CASE map[bl] + 1 <= l
    <3>1. cuts[map[bl] + 1] <= cuts[l] /\ cuts[l] <= cuts[map[br]]
      BY <1>2, <2>1, <2>4
    <3>2. /\ cuts[l] \in Int /\ cuts[map[bl] + 1] \in Int
          /\ cuts[map[br]] \in Int /\ cuts[l] < cuts[l + 1]
      BY <1>2, <2>1
    <3>3. cuts[l] \in bl .. br
      BY <1>1, <1>3, <3>1, <3>2 DEF Blocks
    <3> QED
      BY <2>1, <3>2, <3>3
  <2> QED
    BY <2>1, <2>3, <2>4
<1> QED
  BY <1>4, <1>5 DEF LocksMeeting, BlocksOf, bl, br

(* The difference that CountLocksForRange returns is the number of         *)
(* partitions that the range meets, and the subtraction never underflows.  *)
LEMMA LocksMeetingCount ==
    ASSUME NEW cuts \in Cuts, NEW map \in [Blocks -> Locks],
           IsRefreshOf(map, cuts), NEW request \in Nat \X Nat
    PROVE  Cardinality(LocksMeeting(cuts, ClampedLeft(request),
                                    ClampedRight(request))) =
             map[PositionToBlock(ClampedRight(request))]
               - map[PositionToBlock(ClampedLeft(request))] + 1
<1> DEFINE bl == PositionToBlock(ClampedLeft(request))
           br == PositionToBlock(ClampedRight(request))
<1>1. /\ ClampedLeft(request) \in Positions
      /\ ClampedRight(request) \in Positions
      /\ ClampedLeft(request) <= ClampedRight(request)
  BY ClampedRange
<1>2. bl \in Blocks /\ br \in Blocks /\ bl <= br
  BY <1>1, PositionToBlockType, PositionToBlockMonotone
<1>3. LocksMeeting(cuts, ClampedLeft(request), ClampedRight(request)) =
        map[bl] .. map[br]
  BY <1>1, LocksMeetingInterval
<1>4. map[bl] \in Int /\ map[br] \in Int /\ map[bl] <= map[br]
  <2>1. map[bl] \in Locks /\ map[br] \in Locks
    BY <1>2
  <2> QED
    BY <1>2, <2>1, RefreshMonotone DEF Locks
<1>5. Cardinality(map[bl] .. map[br]) =
        IF map[bl] > map[br] THEN 0 ELSE map[br] - map[bl] + 1
  BY <1>4, FS_Interval
<1> QED
  BY <1>3, <1>4, <1>5
-----------------------------------------------------------------------------
(* Queries                                                                  *)

(* The constructor establishes the queries' invariant.                     *)
LEMMA QueryInitInv ==
    ASSUME NEW Others, QueryInit
    PROVE  QueryInv(Others)
<1>1. 0 \in Locks /\ 0 \in Positions /\ 0 \in 0 .. kLockCnt
  BY SizeAssumption DEF Locks, Positions
<1>2. QueryTypeOK(Others)
  BY <1>1 DEF QueryInit, QueryTypeOK, QueryPC
<1>3. QueryGuardInv
  BY DEF QueryInit, QueryGuardInv, QueryGuard, BeforeLock, Holding, Unlocking
<1>4. QueryOwnerInv
  BY QueryAssumption, SizeAssumption
  DEF QueryInit, QueryOwnerInv, QueryHolds, Locks
<1>5. LookupInv
  BY DEF QueryInit, LookupInv, Lookup
<1> QED
  BY <1>2, <1>3, <1>4, <1>5 DEF QueryInv

(* No step of a query disturbs it.                                         *)
LEMMA QueryStepInv ==
    ASSUME NEW Others, Others \cap Threads = {}, NoOne \notin Others,
           QueryInv(Others), NEW t \in Threads, Call(t) \/ QueryStep(t)
    PROVE  QueryInv(Others)'
<1> USE SizeAssumption
    DEF Locks, Goto, sharedVars, publishedVars, QueryPC, BeforeLock, Holding,
        Unlocking
<1>1. CASE Call(t)
  <2> PICK request \in Requests :
        /\ left' = [left EXCEPT ![t] = ClampedLeft(request)]
        /\ right' = [right EXCEPT ![t] = ClampedRight(request)]
    BY <1>1 DEF Call
  <2>0. /\ ClampedLeft(request) \in Positions
        /\ ClampedRight(request) \in Positions
        /\ ClampedLeft(request) <= ClampedRight(request)
    BY ClampedRange, QueryAssumption
  <2>1. QueryTypeOK(Others)'
    BY <1>1, <2>0 DEF QueryInv, QueryTypeOK, Call
  <2>2. QueryGuardInv'
    BY <1>1, <2>0 DEF QueryInv, QueryTypeOK, QueryGuardInv, QueryGuard, Call
  <2>3. QueryOwnerInv'
    BY <1>1 DEF QueryInv, QueryTypeOK, QueryOwnerInv, QueryHolds, Call
  <2>4. LookupInv'
    BY <1>1 DEF QueryInv, QueryTypeOK, LookupInv, Lookup, Call
  <2> QED
    BY <2>1, <2>2, <2>3, <2>4 DEF QueryInv
<1>2. CASE WaitPause(t)
  <2>1. QueryTypeOK(Others)'
    BY <1>2 DEF QueryInv, QueryTypeOK, WaitPause
  <2>2. QueryGuardInv'
    BY <1>2 DEF QueryInv, QueryTypeOK, QueryGuardInv, QueryGuard, WaitPause
  <2>3. QueryOwnerInv'
    BY <1>2 DEF QueryInv, QueryTypeOK, QueryOwnerInv, QueryHolds, WaitPause
  <2>4. LookupInv'
    BY <1>2 DEF QueryInv, QueryTypeOK, LookupInv, Lookup, WaitPause
  <2> QED
    BY <2>1, <2>2, <2>3, <2>4 DEF QueryInv
<1>3. CASE LoadEpoch(t)
  <2>1. QueryTypeOK(Others)'
    BY <1>3 DEF QueryInv, QueryTypeOK, LoadEpoch
  <2>2. QueryGuardInv'
    BY <1>3 DEF QueryInv, QueryTypeOK, QueryGuardInv, QueryGuard, LoadEpoch
  <2>3. QueryOwnerInv'
    BY <1>3 DEF QueryInv, QueryTypeOK, QueryOwnerInv, QueryHolds, LoadEpoch
  <2>4. LookupInv'
    BY <1>3 DEF QueryInv, QueryTypeOK, LookupInv, Lookup, LoadEpoch
  <2> QED
    BY <2>1, <2>2, <2>3, <2>4 DEF QueryInv
<1>4. CASE LoadLeft(t)
  <2>0. block_to_lock_[PositionToBlock(left[t])] \in Locks
    BY PositionToBlockType DEF QueryInv, QueryTypeOK
  <2>1. QueryTypeOK(Others)'
    BY <1>4, <2>0 DEF QueryInv, QueryTypeOK, LoadLeft
  <2>2. QueryGuardInv'
    BY <1>4 DEF QueryInv, QueryTypeOK, QueryGuardInv, QueryGuard, LoadLeft
  <2>3. QueryOwnerInv'
    <3>1. qlocked[t] = 0
      BY <1>4 DEF QueryInv, QueryGuardInv, QueryGuard, LoadLeft
    <3> QED
      BY <1>4, <2>0, <2>1, <3>1
      DEF QueryInv, QueryTypeOK, QueryOwnerInv, QueryHolds, LoadLeft
  <2>4. LookupInv'
    BY <1>4 DEF QueryInv, QueryTypeOK, LookupInv, Lookup, LoadLeft
  <2> QED
    BY <2>1, <2>2, <2>3, <2>4 DEF QueryInv
<1>5. CASE LoadRight(t)
  <2>0. block_to_lock_[PositionToBlock(right[t])] \in Locks
    BY PositionToBlockType DEF QueryInv, QueryTypeOK
  <2>1. QueryTypeOK(Others)'
    BY <1>5, <2>0 DEF QueryInv, QueryTypeOK, LoadRight
  <2>2. QueryGuardInv'
    BY <1>5, <2>0, <2>1
    DEF QueryInv, QueryTypeOK, QueryGuardInv, QueryGuard, LoadRight
  <2>3. QueryOwnerInv'
    BY <1>5 DEF QueryInv, QueryTypeOK, QueryOwnerInv, QueryHolds, LoadRight
  <2>4. LookupInv'
    BY <1>5 DEF QueryInv, QueryTypeOK, LookupInv, Lookup, LoadRight
  <2> QED
    BY <2>1, <2>2, <2>3, <2>4 DEF QueryInv
<1>6. CASE LockNext(t)
  <2> DEFINE index == lock_start[t] + qlocked[t]
  <2>0. /\ index \in Locks /\ index <= lock_end[t]
        /\ qlocked[t] + 1 \in 0 .. kLockCnt
        /\ lock_start[t] \in Nat /\ lock_end[t] \in Nat /\ qlocked[t] \in Nat
    BY <1>6 DEF QueryInv, QueryTypeOK, QueryGuardInv, QueryGuard, LockNext
  <2>1. QueryTypeOK(Others)'
    BY <1>6, <2>0 DEF QueryInv, QueryTypeOK, LockNext
  <2>2. QueryGuardInv'
    <3> SUFFICES ASSUME NEW u \in Threads PROVE QueryGuard(u)'
      BY DEF QueryGuardInv
    <3>1. CASE u = t
      BY <1>6, <2>0, <3>1
      DEF QueryInv, QueryTypeOK, QueryGuardInv, QueryGuard, LockNext
    <3>2. CASE u # t
      BY <1>6, <2>0, <3>2
      DEF QueryInv, QueryTypeOK, QueryGuardInv, QueryGuard, LockNext
    <3> QED
      BY <3>1, <3>2
  <2>3. QueryOwnerInv'
    <3>1. /\ locks_' = [locks_ EXCEPT ![index] = t]
          /\ locks_[index] = NoOne
          /\ qlocked' = [qlocked EXCEPT ![t] = @ + 1]
          /\ UNCHANGED lock_start
      BY <1>6 DEF LockNext
    <3> SUFFICES ASSUME NEW l \in Locks, NEW u \in Threads
                 PROVE  locks_'[l] = u <=> QueryHolds(u, l)'
      BY DEF QueryOwnerInv
    <3>2. /\ locks_[l] = u <=> QueryHolds(u, l)
          /\ locks_ \in [Locks -> Threads \cup Others \cup {NoOne}]
          /\ lock_start \in [Threads -> Locks]
          /\ qlocked \in [Threads -> 0 .. kLockCnt]
      BY DEF QueryInv, QueryTypeOK, QueryOwnerInv
    <3>3. CASE u = t
      BY <2>0, <3>1, <3>2, <3>3, QueryAssumption DEF QueryHolds
    <3>4. CASE u # t
      BY <2>0, <3>1, <3>2, <3>4, QueryAssumption DEF QueryHolds
    <3> QED
      BY <3>3, <3>4
  <2>4. LookupInv'
    BY <1>6 DEF QueryInv, QueryTypeOK, LookupInv, Lookup, LockNext
  <2> QED
    BY <2>1, <2>2, <2>3, <2>4 DEF QueryInv
<1>7. CASE Validate(t)
  <2>1. QueryTypeOK(Others)'
    BY <1>7 DEF QueryInv, QueryTypeOK, Validate
  <2>2. QueryGuardInv'
    BY <1>7
    DEF QueryInv, QueryTypeOK, QueryGuardInv, QueryGuard, EpochValid, Validate
  <2>3. QueryOwnerInv'
    BY <1>7 DEF QueryInv, QueryTypeOK, QueryOwnerInv, QueryHolds, Validate
  <2>4. LookupInv'
    BY <1>7 DEF QueryInv, QueryTypeOK, LookupInv, Lookup, EpochValid, Validate
  <2> QED
    BY <2>1, <2>2, <2>3, <2>4 DEF QueryInv
<1>8. CASE FuncDone(t)
  <2>1. QueryTypeOK(Others)'
    BY <1>8 DEF QueryInv, QueryTypeOK, FuncDone
  <2>2. QueryGuardInv'
    <3> SUFFICES ASSUME NEW u \in Threads PROVE QueryGuard(u)'
      BY DEF QueryGuardInv
    <3>1. CASE u = t
      <4>1. qpc[t] = "func" /\ qpc'[t] = "return"
        BY <1>8 DEF QueryInv, QueryTypeOK, FuncDone
      <4>2. /\ lock_start[t] \in Nat /\ lock_end[t] \in Nat
            /\ lock_start[t] <= lock_end[t] /\ left[t] <= right[t]
            /\ qlocked[t] = lock_end[t] - lock_start[t] + 1
        <5>1. QueryGuard(t)
          BY DEF QueryInv, QueryGuardInv
        <5>2. lock_start[t] \in Nat /\ lock_end[t] \in Nat
          BY DEF QueryInv, QueryTypeOK
        <5> QED
          BY <4>1, <5>1, <5>2 DEF QueryGuard
      <4>3. UNCHANGED <<left, right, lock_start, lock_end, qlocked>>
        BY <1>8 DEF FuncDone
      <4> QED
        BY <3>1, <4>1, <4>2, <4>3 DEF QueryGuard
    <3>2. CASE u # t
      BY <1>8, <3>2
      DEF QueryInv, QueryTypeOK, QueryGuardInv, QueryGuard, FuncDone
    <3> QED
      BY <3>1, <3>2
  <2>3. QueryOwnerInv'
    BY <1>8 DEF QueryInv, QueryTypeOK, QueryOwnerInv, QueryHolds, FuncDone
  <2>4. LookupInv'
    BY <1>8 DEF QueryInv, QueryTypeOK, LookupInv, Lookup, FuncDone
  <2> QED
    BY <2>1, <2>2, <2>3, <2>4 DEF QueryInv
<1>9. CASE UnlockLast(t)
  <2> DEFINE index == lock_start[t] + qlocked[t] - 1
  <2>0. /\ index \in Locks /\ qlocked[t] >= 1
        /\ qlocked[t] - 1 \in 0 .. kLockCnt
        /\ lock_start[t] \in Nat /\ lock_end[t] \in Nat /\ qlocked[t] \in Nat
        /\ 0 \in Locks /\ 0 \in Positions
    BY <1>9
    DEF QueryInv, QueryTypeOK, QueryGuardInv, QueryGuard, UnlockLast,
        Positions
  <2>1. QueryTypeOK(Others)'
    BY <1>9, <2>0 DEF QueryInv, QueryTypeOK, UnlockLast
  <2>2. QueryGuardInv'
    BY <1>9 DEF QueryInv, QueryTypeOK, QueryGuardInv, QueryGuard, UnlockLast
  <2>3. QueryOwnerInv'
    <3>1. /\ locks_' = [locks_ EXCEPT ![index] = NoOne]
          /\ qlocked' = [qlocked EXCEPT ![t] = @ - 1]
          /\ lock_start' = [lock_start EXCEPT
                              ![t] = IF qlocked[t] = 1 THEN 0 ELSE @]
      BY <1>9 DEF UnlockLast
    <3> SUFFICES ASSUME NEW l \in Locks, NEW u \in Threads
                 PROVE  locks_'[l] = u <=> QueryHolds(u, l)'
      BY DEF QueryOwnerInv
    <3>2. /\ locks_[l] = u <=> QueryHolds(u, l)
          /\ locks_ \in [Locks -> Threads \cup Others \cup {NoOne}]
          /\ lock_start \in [Threads -> Locks]
          /\ qlocked \in [Threads -> 0 .. kLockCnt]
      BY DEF QueryInv, QueryTypeOK, QueryOwnerInv
    <3>3. CASE u = t
      BY <2>0, <3>1, <3>2, <3>3, QueryAssumption DEF QueryHolds
    <3>4. CASE u # t
      <4>1. locks_[index] = t
        BY <2>0 DEF QueryInv, QueryOwnerInv, QueryHolds
      <4> QED
        BY <2>0, <3>1, <3>2, <3>4, <4>1, QueryAssumption DEF QueryHolds
    <3> QED
      BY <3>3, <3>4
  <2>4. LookupInv'
    <3> SUFFICES ASSUME NEW u \in Threads PROVE Lookup(u)'
      BY DEF LookupInv
    <3>1. CASE u = t
      <4>1. qpc'[t] \in {"idle", "return", "pause", "retry"}
        BY <1>9 DEF QueryInv, QueryTypeOK, UnlockLast
      <4>2. epoch'[t] \in {0, epoch[t]} /\ UNCHANGED partition_epoch_
        BY <1>9 DEF QueryInv, QueryTypeOK, UnlockLast
      <4>3. /\ epoch[t] <= partition_epoch_
            /\ epoch[t] \in Nat /\ partition_epoch_ \in Nat
        BY DEF QueryInv, QueryTypeOK, LookupInv, Lookup
      <4> QED
        BY <3>1, <4>1, <4>2, <4>3 DEF Lookup
    <3>2. CASE u # t
      BY <1>9, <3>2 DEF QueryInv, QueryTypeOK, LookupInv, Lookup, UnlockLast
    <3> QED
      BY <3>1, <3>2
  <2> QED
    BY <2>1, <2>2, <2>3, <2>4 DEF QueryInv
<1> QED
  BY <1>1, <1>2, <1>3, <1>4, <1>5, <1>6, <1>7, <1>8, <1>9 DEF QueryStep

(* A query touches neither the map nor a mutex that somebody else owns.    *)
LEMMA QueryStepFrame ==
    ASSUME NEW Others, Others \cap Threads = {}, NoOne \notin Others,
           QueryInv(Others), NEW t \in Threads, Call(t) \/ QueryStep(t)
    PROVE  /\ UNCHANGED publishedVars
           /\ \A l \in Locks, p \in Others : locks_'[l] = p <=> locks_[l] = p
<1> USE SizeAssumption DEF Goto, sharedVars, publishedVars
<1>1. UNCHANGED publishedVars
  BY DEF QueryStep, Call, WaitPause, LoadEpoch, LoadLeft, LoadRight, LockNext,
         Validate, FuncDone, UnlockLast
<1>2. locks_ \in [Locks -> Threads \cup Others \cup {NoOne}]
  BY DEF QueryInv, QueryTypeOK
<1>3. CASE LockNext(t)
  BY <1>1, <1>2, <1>3 DEF LockNext
<1>4. CASE UnlockLast(t)
  <2> DEFINE index == lock_start[t] + qlocked[t] - 1
  <2>1. index \in Locks /\ QueryHolds(t, index)
    <3>1. /\ lock_start[t] \in Locks /\ lock_end[t] \in Locks
          /\ qlocked[t] \in 0 .. kLockCnt /\ QueryGuard(t)
          /\ qpc[t] \in Unlocking
      BY <1>4 DEF QueryInv, QueryTypeOK, QueryGuardInv, UnlockLast, Unlocking
    <3> QED
      BY <3>1 DEF QueryGuard, QueryHolds, Locks, Unlocking, BeforeLock
  <2>2. locks_[index] = t
    BY <2>1 DEF QueryInv, QueryOwnerInv
  <2>3. locks_' = [locks_ EXCEPT ![index] = NoOne]
    BY <1>4 DEF UnlockLast
  <2> QED
    BY <1>1, <1>2, <2>1, <2>2, <2>3
<1>5. CASE UNCHANGED locks_
  BY <1>1, <1>5
<1> QED
  BY <1>3, <1>4, <1>5
  DEF QueryStep, Call, WaitPause, LoadEpoch, LoadLeft, LoadRight, Validate,
      FuncDone

(* A step of somebody else: it may rewrite the map while the epoch is odd, *)
(* and advance the epoch while no query is past its acquisitions.          *)
LEMMA OtherStepInv ==
    ASSUME NEW Others, QueryInv(Others), UNCHANGED queryVars,
           QueryTypeOK(Others)', QueryOwnerInv',
           \/ UNCHANGED <<block_to_lock_, partition_epoch_>>
           \/ UNCHANGED partition_epoch_ /\ partition_epoch_ % 2 = 1
           \/ /\ partition_epoch_' > partition_epoch_
              /\ \A t \in Threads : qpc[t] \notin Holding
    PROVE  QueryInv(Others)'
<1> USE DEF queryVars
<1>1. QueryGuardInv'
  BY DEF QueryInv, QueryGuardInv, QueryGuard
<1>2. /\ partition_epoch_ \in Nat /\ partition_epoch_' \in Nat
      /\ epoch \in [Threads -> Nat]
  BY DEF QueryInv, QueryTypeOK
<1>3. LookupInv'
  <2> SUFFICES ASSUME NEW t \in Threads PROVE Lookup(t)'
    BY DEF LookupInv
  <2>1. Lookup(t) /\ epoch[t] \in Nat
    BY <1>2 DEF QueryInv, LookupInv
  <2>2. CASE UNCHANGED <<block_to_lock_, partition_epoch_>>
    BY <2>1, <2>2 DEF Lookup
  <2>3. CASE UNCHANGED partition_epoch_ /\ partition_epoch_ % 2 = 1
    BY <1>2, <2>1, <2>3 DEF Lookup
  <2>4. CASE /\ partition_epoch_' > partition_epoch_
             /\ \A u \in Threads : qpc[u] \notin Holding
    BY <1>2, <2>1, <2>4 DEF Lookup, Holding
  <2> QED
    BY <2>2, <2>3, <2>4
<1> QED
  BY <1>1, <1>3 DEF QueryInv

(* What validation buys: in a state where the map is complete whenever the *)
(* epoch is even, a thread in func owns the lock of each of its blocks.    *)
LEMMA ValidatedLookup ==
    ASSUME NEW Others, QueryInv(Others),
           NEW cuts \in Cuts,
           partition_epoch_ % 2 = 0 => IsRefreshOf(block_to_lock_, cuts)
    PROVE  HoldsCurrentLocks
<1> SUFFICES ASSUME NEW t \in Threads, qpc[t] = "func"
             PROVE  /\ partition_epoch_ % 2 = 0
                    /\ \A b \in BlocksOf(left[t], right[t]) :
                          locks_[block_to_lock_[b]] = t
  BY DEF HoldsCurrentLocks
<1> USE SizeAssumption DEF Locks
<1>1. /\ block_to_lock_ \in [Blocks -> Locks]
      /\ left[t] \in Positions /\ right[t] \in Positions
      /\ lock_start[t] \in Locks /\ lock_end[t] \in Locks
      /\ QueryGuard(t) /\ Lookup(t)
  BY DEF QueryInv, QueryTypeOK, QueryGuardInv, LookupInv
<1>2. /\ partition_epoch_ % 2 = 0
      /\ lock_start[t] = block_to_lock_[PositionToBlock(left[t])]
      /\ lock_end[t] = block_to_lock_[PositionToBlock(right[t])]
      /\ qlocked[t] = lock_end[t] - lock_start[t] + 1
  BY <1>1 DEF Lookup, QueryGuard, Holding
<1>3. IsRefreshOf(block_to_lock_, cuts)
  BY <1>2
<1>4. PositionToBlock(left[t]) \in Blocks /\ PositionToBlock(right[t]) \in Blocks
  BY <1>1, PositionToBlockType
<1>5. ASSUME NEW b \in BlocksOf(left[t], right[t])
      PROVE  locks_[block_to_lock_[b]] = t
  <2>1. /\ b \in Blocks
        /\ PositionToBlock(left[t]) <= b /\ b <= PositionToBlock(right[t])
    BY <1>4, <1>5 DEF BlocksOf, Blocks
  <2>2. /\ lock_start[t] <= block_to_lock_[b]
        /\ block_to_lock_[b] <= lock_end[t]
    BY <1>1, <1>2, <1>3, <1>4, <2>1, RefreshMonotone
  <2>3. block_to_lock_[b] \in Locks
    BY <1>1, <2>1
  <2>4. QueryHolds(t, block_to_lock_[b])
    BY <1>1, <1>2, <2>2, <2>3 DEF QueryHolds
  <2> QED
    BY <2>3, <2>4 DEF QueryInv, QueryOwnerInv
<1> QED
  BY <1>2, <1>5

(* Two threads that own all the locks of their ranges have no position in  *)
(* common: its block's lock would have two owners.                         *)
LEMMA OwnersDisjoint ==
    ASSUME NEW Others, QueryTypeOK(Others), HoldsCurrentLocks
    PROVE  RangeExclusion
<1> SUFFICES ASSUME NEW t \in Threads, NEW u \in Threads, t # u,
                    qpc[t] = "func", qpc[u] = "func",
                    NEW p \in (left[t] .. right[t]) \cap (left[u] .. right[u])
             PROVE  FALSE
  BY DEF RangeExclusion
<1>1. /\ left[t] \in Positions /\ right[t] \in Positions
      /\ left[u] \in Positions /\ right[u] \in Positions
  BY DEF QueryTypeOK
<1>2. /\ p \in Positions
      /\ left[t] <= p /\ p <= right[t] /\ left[u] <= p /\ p <= right[u]
  BY <1>1, SizeAssumption DEF Positions
<1>3. PositionToBlock(p) \in BlocksOf(left[t], right[t])
      /\ PositionToBlock(p) \in BlocksOf(left[u], right[u])
  <2>1. /\ PositionToBlock(left[t]) <= PositionToBlock(p)
        /\ PositionToBlock(p) <= PositionToBlock(right[t])
        /\ PositionToBlock(left[u]) <= PositionToBlock(p)
        /\ PositionToBlock(p) <= PositionToBlock(right[u])
    BY <1>1, <1>2, PositionToBlockMonotone
  <2>2. /\ PositionToBlock(p) \in Blocks
        /\ PositionToBlock(left[t]) \in Blocks /\ PositionToBlock(right[t]) \in Blocks
        /\ PositionToBlock(left[u]) \in Blocks /\ PositionToBlock(right[u]) \in Blocks
    BY <1>1, <1>2, PositionToBlockType
  <2> QED
    BY <2>1, <2>2, SizeAssumption DEF BlocksOf, Blocks
<1>4. /\ locks_[block_to_lock_[PositionToBlock(p)]] = t
      /\ locks_[block_to_lock_[PositionToBlock(p)]] = u
  BY <1>3 DEF HoldsCurrentLocks
<1> QED
  BY <1>4

(* A step of WriteQuery that starts func grants the range, the step that   *)
(* ends func gives it back, and every other step leaves the grants alone.  *)
LEMMA QueryRefines ==
    ASSUME NEW Others, QueryInv(Others), RangeExclusion',
           NEW t \in Threads, Call(t) \/ QueryStep(t)
    PROVE  [RL!Next]_running
<1> USE DEF Goto
<1>1. /\ qpc \in [Threads -> QueryPC]
      /\ left \in [Threads -> Positions] /\ right \in [Threads -> Positions]
  BY DEF QueryInv, QueryTypeOK
<1>2. ASSUME qpc' = [qpc EXCEPT ![t] = qpc'[t]], qpc[t] # "func", qpc'[t] # "func",
             \A u \in Threads : u # t => left'[u] = left[u] /\ right'[u] = right[u]
      PROVE  UNCHANGED running
  BY <1>1, <1>2 DEF running
<1>3. ASSUME Validate(t), qpc'[t] = "func"
      PROVE  RL!Enter(t)
  <2>1. /\ qpc[t] = "validate" /\ qpc' = [qpc EXCEPT ![t] = "func"]
        /\ UNCHANGED <<left, right>>
    BY <1>1, <1>3 DEF Validate
  <2>2. /\ left[t] \in Positions /\ right[t] \in Positions
        /\ left[t] <= right[t]
    BY <1>1 DEF QueryInv, QueryGuardInv, QueryGuard
  <2>3. running[t] = {}
    BY <2>1 DEF running
  <2>4. running' = [running EXCEPT ![t] = left[t] .. right[t]]
    BY <1>1, <2>1 DEF running
  <2>5. ASSUME NEW u \in Threads \ {t}
        PROVE  running[u] \cap (left[t] .. right[t]) = {}
    <3>1. qpc'[u] = qpc[u] /\ qpc'[t] = "func"
      BY <1>1, <2>1
    <3>2. qpc[u] = "func" =>
            (left[u] .. right[u]) \cap (left[t] .. right[t]) = {}
      BY <2>1, <3>1 DEF RangeExclusion
    <3> QED
      BY <3>2 DEF running
  <2> QED
    BY <2>2, <2>3, <2>4, <2>5 DEF RL!Enter
<1>4. ASSUME FuncDone(t)
      PROVE  RL!Leave(t)
  <2>1. /\ qpc[t] = "func" /\ qpc' = [qpc EXCEPT ![t] = "return"]
        /\ UNCHANGED <<left, right>>
    BY <1>4 DEF FuncDone
  <2>2. left[t] \in left[t] .. right[t]
    <3>1. left[t] \in Int /\ right[t] \in Int /\ left[t] <= right[t]
      BY <1>1, SizeAssumption DEF QueryInv, QueryGuardInv, QueryGuard, Positions
    <3> QED
      BY <3>1
  <2>3. running[t] # {}
    BY <2>1, <2>2 DEF running
  <2>4. running' = [running EXCEPT ![t] = {}]
    BY <1>1, <2>1 DEF running
  <2> QED
    BY <2>3, <2>4 DEF RL!Leave
<1>5. CASE Validate(t) /\ qpc'[t] = "func"
  BY <1>3, <1>5 DEF RL!Next
<1>6. CASE FuncDone(t)
  BY <1>4, <1>6 DEF RL!Next
<1>7. CASE Validate(t) /\ qpc'[t] # "func"
  <2>1. qpc' = [qpc EXCEPT ![t] = qpc'[t]] /\ qpc[t] = "validate"
        /\ UNCHANGED <<left, right>>
    BY <1>1, <1>7 DEF Validate
  <2> QED
    BY <1>2, <1>7, <2>1
<1>8. CASE Call(t) \/ UnlockLast(t)
  <2>1. /\ qpc' = [qpc EXCEPT ![t] = qpc'[t]] /\ qpc[t] # "func"
        /\ qpc'[t] # "func"
    BY <1>1, <1>8 DEF Call, UnlockLast
  <2>2. \A u \in Threads : u # t => left'[u] = left[u] /\ right'[u] = right[u]
    BY <1>1, <1>8 DEF Call, UnlockLast
  <2> QED
    BY <1>2, <2>1, <2>2
<1>9. CASE \/ WaitPause(t) \/ LoadEpoch(t) \/ LoadLeft(t) \/ LoadRight(t)
           \/ LockNext(t)
  <2>1. /\ qpc' = [qpc EXCEPT ![t] = qpc'[t]] /\ qpc[t] # "func"
        /\ qpc'[t] # "func" /\ UNCHANGED <<left, right>>
    BY <1>1, <1>9 DEF WaitPause, LoadEpoch, LoadLeft, LoadRight, LockNext
  <2> QED
    BY <1>2, <2>1
<1> QED
  BY <1>5, <1>6, <1>7, <1>8, <1>9 DEF QueryStep
=============================================================================
