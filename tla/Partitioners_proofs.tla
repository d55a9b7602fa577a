------------------------ MODULE Partitioners_proofs -------------------------
(***************************************************************************)
(* How the two locks find their partitionings: DynamicLock by a dynamic    *)
(* program over its statistics (DynamicStats), GeneticLock by evolving a   *)
(* population (GeneticPartitioner).  Neither ever finds a partitioning     *)
(* with an empty partition; DynamicLock's is the cheapest there is for the *)
(* statistics it has caught, and GeneticLock's moves no cut too far and is *)
(* never worse than the one in use: for any number of blocks, locks,       *)
(* queries, components and generations.  DynamicLock's statistics are torn *)
(* by a reset in one sample at most, and begin at zero after a rebuild.    *)
(***************************************************************************)
EXTENDS DynamicStats, GeneticPartitioner, EpochQuery_proofs

-----------------------------------------------------------------------------
(* The passes of RepairInternalCuts                                        *)

(* The first and the third pass: the first cut is given, each of the       *)
(* others is raised above the one before it.                               *)
IsPass(f, n, a, s) ==
    f = [i \in 1 .. n |-> IF i = 1 THEN a ELSE Greater(s[i], f[i - 1] + 1)]

Raises(f, n, a, s) ==
    /\ f \in [1 .. n -> Int]
    /\ n > 0 => f[1] = a
    /\ \A i \in 2 .. n : f[i] >= s[i] /\ f[i] >= f[i - 1] + 1
    /\ \A i \in 2 .. n : f[i] = s[i] \/ f[i] = f[i - 1] + 1

LEMMA PassExists ==
    ASSUME NEW n \in Nat, NEW a \in Int, NEW s \in [1 .. n -> Int]
    PROVE  \E f : IsPass(f, n, a, s)
<1> USE DEF IsPass
<1> DEFINE T == {m \in Nat : m <= n => \E f : IsPass(f, m, a, s)}
<1>1. 0 \in T
  <2>1. IsPass([i \in 1 .. 0 |-> 0], 0, a, s)
    OBVIOUS
  <2> QED
    BY <2>1
<1>2. ASSUME NEW m \in T PROVE m + 1 \in T
  <2>1. m \in Nat /\ m + 1 \in Nat
    OBVIOUS
  <2> SUFFICES ASSUME m + 1 <= n PROVE \E g : IsPass(g, m + 1, a, s)
    BY <2>1
  <2>2. PICK f : IsPass(f, m, a, s)
    BY <2>1
  <2> DEFINE new == IF m + 1 = 1 THEN a ELSE Greater(s[m + 1], f[m] + 1)
             g == [i \in 1 .. m + 1 |-> IF i = m + 1 THEN new ELSE f[i]]
  <2>3. \A i \in 1 .. m + 1 :
           g[i] = IF i = 1 THEN a ELSE Greater(s[i], g[i - 1] + 1)
    <3> SUFFICES ASSUME NEW i \in 1 .. m + 1
                 PROVE  g[i] = IF i = 1 THEN a ELSE Greater(s[i], g[i - 1] + 1)
      OBVIOUS
    <3>1. i # 1 => i - 1 \in 1 .. m /\ g[i - 1] = f[i - 1]
      BY <2>1
    <3>2. CASE i = m + 1
      BY <2>1, <3>1, <3>2
    <3>3. CASE i # m + 1
      <4>1. i \in 1 .. m /\ g[i] = f[i]
        BY <2>1, <3>3
      <4>2. f[i] = IF i = 1 THEN a ELSE Greater(s[i], f[i - 1] + 1)
        BY <2>2, <4>1
      <4> QED
        BY <3>1, <4>1, <4>2
    <3> QED
      BY <3>2, <3>3
  <2>4. g = [i \in 1 .. m + 1 |-> g[i]]
    OBVIOUS
  <2> HIDE DEF g
  <2>5. IsPass(g, m + 1, a, s)
    BY <2>3, <2>4
  <2> QED
    BY <2>5
<1>3. n \in T
  <2> HIDE DEF T
  <2> QED
    BY <1>1, <1>2, SetInduction
<1> QED
  BY <1>3

LEMMA PassFacts ==
    ASSUME NEW n \in Nat, NEW a \in Int, NEW s \in [1 .. n -> Int], NEW f, IsPass(f, n, a, s)
    PROVE  Raises(f, n, a, s)
<1>1. \A i \in 1 .. n : f[i] = IF i = 1 THEN a ELSE Greater(s[i], f[i - 1] + 1)
  BY DEF IsPass
<1>2. \A i \in 1 .. n : s[i] \in Int
  OBVIOUS
<1> DEFINE T == {m \in Nat : m \in 1 .. n => f[m] \in Int}
<1>3. \A m \in Nat : m \in T
  <2>1. 0 \in T
    OBVIOUS
  <2>2. ASSUME NEW m \in T PROVE m + 1 \in T
    <3> SUFFICES ASSUME m + 1 \in 1 .. n PROVE f[m + 1] \in Int
      OBVIOUS
    <3>1. CASE m = 0
      BY <1>1, <3>1
    <3>2. CASE m # 0
      <4>1. m \in 1 .. n /\ (m + 1) - 1 = m /\ m + 1 # 1
        BY <3>2
      <4>2. f[m] \in Int /\ f[m + 1] = Greater(s[m + 1], f[m] + 1)
        BY <1>1, <4>1
      <4> QED
        BY <1>2, <4>2 DEF Greater
    <3> QED
      BY <3>1, <3>2
  <2> HIDE DEF T
  <2> QED
    BY <2>1, <2>2, SetInduction
<1>4. \A i \in 1 .. n : f[i] \in Int
  BY <1>3
<1>5. ASSUME NEW i \in 2 .. n
      PROVE  /\ f[i] >= s[i] /\ f[i] >= f[i - 1] + 1
             /\ f[i] = s[i] \/ f[i] = f[i - 1] + 1
  <2>1. i \in 1 .. n /\ i - 1 \in 1 .. n /\ i # 1
    OBVIOUS
  <2>2. /\ f[i] = Greater(s[i], f[i - 1] + 1)
        /\ s[i] \in Int /\ f[i - 1] \in Int
    BY <1>1, <1>2, <1>4, <2>1
  <2> QED
    BY <2>2 DEF Greater
<1>6. n > 0 => f[1] = a
  BY <1>1
<1>7. f = [i \in 1 .. n |-> f[i]]
  BY DEF IsPass
<1>8. f \in [1 .. n -> Int]
  BY <1>4, <1>7
<1> QED
  BY <1>5, <1>6, <1>8 DEF Raises

(* A sequence that grows by at least one from each place to the next.      *)
LEMMA StepsGrow ==
    ASSUME NEW lo \in Int, NEW hi \in Int, NEW f \in [lo .. hi -> Int],
           \A i \in lo .. hi : i # lo => f[i] >= f[i - 1] + 1
    PROVE  \A i, j \in lo .. hi : i <= j => f[j] - f[i] >= j - i
<1> DEFINE T == {d \in Nat : \A i \in lo .. hi : i + d <= hi => f[i + d] - f[i] >= d}
<1>1. 0 \in T
  OBVIOUS
<1>2. ASSUME NEW d \in T PROVE d + 1 \in T
  <2> SUFFICES ASSUME NEW i \in lo .. hi, i + (d + 1) <= hi
               PROVE  f[i + (d + 1)] - f[i] >= d + 1
    OBVIOUS
  <2>1. f[i + d] - f[i] >= d /\ d \in Nat
    OBVIOUS
  <2>2. i + (d + 1) \in lo .. hi /\ i + (d + 1) # lo /\ (i + (d + 1)) - 1 = i + d /\ i + d \in lo .. hi
    BY <2>1
  <2>3. f[i + (d + 1)] >= f[i + d] + 1
    BY <2>2
  <2>4. f[i] \in Int /\ f[i + d] \in Int /\ f[i + (d + 1)] \in Int
    BY <2>2
  <2> QED
    BY <2>1, <2>3, <2>4
<1>3. \A d \in Nat : d \in T
  <2> HIDE DEF T
  <2> QED
    BY <1>1, <1>2, SetInduction
<1> SUFFICES ASSUME NEW i \in lo .. hi, NEW j \in lo .. hi, i <= j
             PROVE  f[j] - f[i] >= j - i
  OBVIOUS
<1>4. j - i \in Nat /\ i + (j - i) = j /\ i + (j - i) <= hi
  OBVIOUS
<1> QED
  BY <1>3, <1>4

-----------------------------------------------------------------------------
(* RepairInternalCuts                                                      *)

InternalCuts == [1 .. kLockCnt - 1 -> Int]

(* What the three passes leave, place by place.                            *)
LEMMA RepairFacts ==
    ASSUME NEW internal \in InternalCuts, kLockCnt > 1
    PROVE  LET n == kLockCnt - 1
               r == RepairInternalCuts(internal)
           IN  \E up, bounded \in InternalCuts :
                  /\ r \in InternalCuts
                  /\ up[1] = Greater(1, Lesser(internal[1], kBlocks - n))
                  /\ r[1] = bounded[1]
                  /\ \A i \in 1 .. n : bounded[i] = Lesser(up[i], kBlocks - (n - (i - 1)))
                  /\ \A i \in 2 .. n :
                        /\ up[i] >= internal[i] /\ up[i] >= up[i - 1] + 1
                        /\ up[i] = internal[i] \/ up[i] = up[i - 1] + 1
                        /\ r[i] >= bounded[i] /\ r[i] >= r[i - 1] + 1
                        /\ r[i] = bounded[i] \/ r[i] = r[i - 1] + 1
<1> DEFINE n == kLockCnt - 1
           a == Greater(1, Lesser(internal[1], kBlocks - n))
           upd(f) == [i \in 1 .. n |->
                        IF i = 1 THEN a ELSE Greater(internal[i], f[i - 1] + 1)]
           up == CHOOSE f : f = upd(f)
           bounded == [i \in 1 .. n |-> Lesser(up[i], kBlocks - (n - (i - 1)))]
           agd(f) == [i \in 1 .. n |->
                        IF i = 1 THEN bounded[1] ELSE Greater(bounded[i], f[i - 1] + 1)]
           again == CHOOSE f : f = agd(f)
<1>1. n \in Nat /\ n > 0 /\ kBlocks \in Nat /\ n < kBlocks
  BY SizeAssumption
<1>2. /\ DOMAIN internal = 1 .. n /\ Len(internal) = n
      /\ internal \in [1 .. n -> Int] /\ \A i \in 1 .. n : internal[i] \in Int
  BY <1>1 DEF InternalCuts
<1>3. RepairInternalCuts(internal) = again
  BY <1>2 DEF RepairInternalCuts
<1>4. a \in Int
  BY <1>1, <1>2 DEF Greater, Lesser
<1> HIDE DEF a, n
<1>5. up = upd(up)
  <2>1. \E f : f = upd(f)
    <3>1. PICK f : IsPass(f, n, a, internal)
      BY <1>1, <1>2, <1>4, PassExists
    <3>2. f = upd(f)
      BY <3>1 DEF IsPass
    <3> QED
      BY <3>2
  <2> HIDE DEF upd
  <2> QED
    BY <2>1
<1>6. /\ up \in [1 .. n -> Int] /\ up[1] = a
      /\ \A i \in 2 .. n : up[i] >= internal[i] /\ up[i] >= up[i - 1] + 1
      /\ \A i \in 2 .. n : up[i] = internal[i] \/ up[i] = up[i - 1] + 1
  <2> HIDE DEF up
  <2>1. IsPass(up, n, a, internal)
    BY <1>5 DEF IsPass
  <2>2. Raises(up, n, a, internal)
    BY <1>1, <1>2, <1>4, <2>1, PassFacts
  <2> QED
    BY <1>1, <2>2 DEF Raises
<1> HIDE DEF up
<1>7. bounded \in [1 .. n -> Int]
  <2>1. \A i \in 1 .. n : up[i] \in Int /\ kBlocks - (n - (i - 1)) \in Int
    BY <1>1, <1>6
  <2>2. \A i \in 1 .. n : Lesser(up[i], kBlocks - (n - (i - 1))) \in Int
    BY <2>1 DEF Lesser
  <2> QED
    BY <2>2
<1>8. \A i \in 1 .. n : bounded[i] = Lesser(up[i], kBlocks - (n - (i - 1)))
  OBVIOUS
<1> HIDE DEF bounded
<1>9. bounded[1] \in Int
  BY <1>1, <1>7
<1>10. again = agd(again)
  <2>1. \E f : f = agd(f)
    <3>1. PICK f : IsPass(f, n, bounded[1], bounded)
      BY <1>1, <1>7, <1>9, PassExists
    <3>2. f = agd(f)
      BY <3>1 DEF IsPass
    <3> QED
      BY <3>2
  <2> HIDE DEF agd
  <2> QED
    BY <2>1
<1>11. /\ again \in [1 .. n -> Int] /\ again[1] = bounded[1]
       /\ \A i \in 2 .. n : again[i] >= bounded[i] /\ again[i] >= again[i - 1] + 1
       /\ \A i \in 2 .. n : again[i] = bounded[i] \/ again[i] = again[i - 1] + 1
  <2> HIDE DEF again
  <2>1. IsPass(again, n, bounded[1], bounded)
    BY <1>10 DEF IsPass
  <2>2. Raises(again, n, bounded[1], bounded)
    BY <1>1, <1>7, <1>9, <2>1, PassFacts
  <2> QED
    BY <1>1, <2>2 DEF Raises
<1> HIDE DEF again
<1>12. InternalCuts = [1 .. n -> Int]
  BY DEF InternalCuts, n
<1>13. \E u, c \in InternalCuts :
          /\ again \in InternalCuts
          /\ u[1] = a
          /\ again[1] = c[1]
          /\ \A i \in 1 .. n : c[i] = Lesser(u[i], kBlocks - (n - (i - 1)))
          /\ \A i \in 2 .. n :
                /\ u[i] >= internal[i] /\ u[i] >= u[i - 1] + 1
                /\ u[i] = internal[i] \/ u[i] = u[i - 1] + 1
                /\ again[i] >= c[i] /\ again[i] >= again[i - 1] + 1
                /\ again[i] = c[i] \/ again[i] = again[i - 1] + 1
  <2>1. up \in InternalCuts /\ bounded \in InternalCuts /\ again \in InternalCuts
    BY <1>6, <1>7, <1>11, <1>12
  <2>2. /\ up[1] = a /\ again[1] = bounded[1]
        /\ \A i \in 1 .. n : bounded[i] = Lesser(up[i], kBlocks - (n - (i - 1)))
        /\ \A i \in 2 .. n :
              /\ up[i] >= internal[i] /\ up[i] >= up[i - 1] + 1
              /\ up[i] = internal[i] \/ up[i] = up[i - 1] + 1
              /\ again[i] >= bounded[i] /\ again[i] >= again[i - 1] + 1
              /\ again[i] = bounded[i] \/ again[i] = again[i - 1] + 1
    BY <1>6, <1>8, <1>11
  <2> QED
    BY <2>1, <2>2, Zenon
<1> QED
  BY <1>3, <1>13 DEF n, a

(* RepairInternalCuts makes a partitioning out of any cuts: strictly       *)
(* increasing, each partition with a block.                                *)
LEMMA RepairYieldsCuts ==
    ASSUME NEW internal \in InternalCuts
    PROVE  FromInternal(RepairInternalCuts(internal)) \in Cuts
<1> DEFINE n == kLockCnt - 1
           r == RepairInternalCuts(internal)
           cuts == FromInternal(r)
<1>1. /\ n \in Nat /\ kLockCnt \in Nat /\ kLockCnt = n + 1
      /\ kBlocks \in Nat /\ n < kBlocks
  BY SizeAssumption
<1>2. /\ DOMAIN cuts = 0 .. kLockCnt /\ cuts[0] = 0 /\ cuts[kLockCnt] = kBlocks
      /\ \A i \in 1 .. n : cuts[i] = r[i]
  BY <1>1 DEF FromInternal
<1>5. cuts = [l \in 0 .. kLockCnt |-> cuts[l]]
  BY DEF FromInternal
<1> HIDE DEF cuts
<1>3. CASE n = 0
  <2>1. 0 .. kLockCnt = {0, 1}
    BY <1>1, <1>3
  <2>2. cuts \in [0 .. kLockCnt -> 0 .. kBlocks]
    BY <1>1, <1>2, <1>3, <1>5, <2>1
  <2>3. \A l, m \in 0 .. kLockCnt : l < m => cuts[l] < cuts[m]
    BY <1>1, <1>2, <1>3, <2>1
  <2> QED
    BY <1>2, <2>2, <2>3 DEF Cuts, cuts
<1>4. CASE n > 0
  <2>1. PICK up, bounded \in InternalCuts :
           /\ r \in InternalCuts
           /\ up[1] = Greater(1, Lesser(internal[1], kBlocks - n))
           /\ r[1] = bounded[1]
           /\ \A i \in 1 .. n : bounded[i] = Lesser(up[i], kBlocks - (n - (i - 1)))
           /\ \A i \in 2 .. n :
                 /\ r[i] >= r[i - 1] + 1
                 /\ r[i] = bounded[i] \/ r[i] = r[i - 1] + 1
    <3>1. kLockCnt > 1
      BY <1>1, <1>4
    <3> QED
      BY <3>1, RepairFacts
  <2> HIDE DEF n, r
  <2>2. InternalCuts = [1 .. n -> Int]
    BY DEF InternalCuts, n
  <2>3. r[1] >= 1 /\ r[1] <= kBlocks - n /\ r[1] \in Int
    <3>1. internal[1] \in Int /\ bounded[1] = Lesser(up[1], kBlocks - n)
      BY <1>1, <1>4, <2>1, <2>2
    <3> QED
      BY <1>1, <2>1, <3>1 DEF Lesser, Greater
  <2>4. \A i \in 1 .. n : r[i] \in Int /\ up[i] \in Int
    BY <2>1, <2>2
  <2> DEFINE T == {m \in Nat : m \in 1 .. n => r[m] <= kBlocks - n + (m - 1)}
  <2>5. \A m \in Nat : m \in T
    <3>1. 0 \in T
      BY <1>1
    <3>2. ASSUME NEW m \in T PROVE m + 1 \in T
      <4> SUFFICES ASSUME m + 1 \in 1 .. n PROVE r[m + 1] <= kBlocks - n + ((m + 1) - 1)
        OBVIOUS
      <4>1. CASE m = 0
        BY <1>1, <2>3, <4>1
      <4>2. CASE m # 0
        <5>1. m \in 1 .. n /\ m + 1 \in 2 .. n /\ (m + 1) - 1 = m
          BY <1>1, <4>2
        <5>2. r[m] <= kBlocks - n + (m - 1)
          BY <5>1
        <5>3. r[m + 1] = bounded[m + 1] \/ r[m + 1] = r[m] + 1
          BY <2>1, <5>1
        <5>4. bounded[m + 1] <= kBlocks - (n - ((m + 1) - 1))
          BY <1>1, <2>1, <2>4, <5>1 DEF Lesser
        <5>5. r[m] \in Int /\ r[m + 1] \in Int /\ m \in Nat
          BY <2>4, <5>1
        <5> QED
          BY <1>1, <5>2, <5>3, <5>4, <5>5
      <4> QED
        BY <4>1, <4>2
    <3> HIDE DEF T
    <3> QED
      BY <3>1, <3>2, SetInduction
  <2>6. \A i \in 1 .. n : r[i] <= kBlocks - n + (i - 1)
    BY <2>5
  <2>7. cuts \in [0 .. kLockCnt -> Int]
    <3>1. \A l \in 0 .. kLockCnt : cuts[l] \in Int
      <4> TAKE l \in 0 .. kLockCnt
      <4>1. l = 0 \/ l = kLockCnt \/ l \in 1 .. n
        BY <1>1
      <4> QED
        BY <1>1, <1>2, <2>4, <4>1
    <3> QED
      BY <1>5, <3>1
  <2>8. \A i \in 0 .. kLockCnt : i # 0 => cuts[i] >= cuts[i - 1] + 1
    <3> TAKE i \in 0 .. kLockCnt
    <3> HAVE i # 0
    <3>1. CASE i = 1
      BY <1>1, <1>2, <1>4, <2>3, <3>1
    <3>2. CASE i = kLockCnt
      <4>1. i - 1 \in 1 .. n /\ i - 1 = n /\ r[n] \in Int
        BY <1>1, <1>4, <2>4, <3>2
      <4>2. r[n] <= kBlocks - n + (n - 1)
        BY <2>6, <4>1
      <4> QED
        BY <1>1, <1>2, <3>2, <4>1, <4>2
    <3>3. CASE i \in 2 .. n
      <4>1. i - 1 \in 1 .. n /\ i \in 1 .. n
        BY <1>1, <3>3
      <4> QED
        BY <1>2, <2>1, <3>3, <4>1
    <3> QED
      BY <1>1, <3>1, <3>2, <3>3
  <2>9. \A l, m \in 0 .. kLockCnt : l <= m => cuts[m] - cuts[l] >= m - l
    <3>1. 0 \in Int /\ kLockCnt \in Int
      BY <1>1
    <3> QED
      BY <3>1, <2>7, <2>8, StepsGrow, Zenon
  <2>10. \A l \in 0 .. kLockCnt : cuts[l] \in 0 .. kBlocks
    <3> TAKE l \in 0 .. kLockCnt
    <3>1. cuts[l] - cuts[0] >= l - 0 /\ cuts[kLockCnt] - cuts[l] >= kLockCnt - l
      BY <1>1, <2>9
    <3> QED
      BY <1>1, <1>2, <2>7, <3>1
  <2>11. \A l, m \in 0 .. kLockCnt : l < m => cuts[l] < cuts[m]
    <3> TAKE l, m \in 0 .. kLockCnt
    <3> HAVE l < m
    <3>1. cuts[m] - cuts[l] >= m - l /\ cuts[l] \in Int /\ cuts[m] \in Int
      BY <2>7, <2>9
    <3> QED
      BY <1>1, <3>1
  <2>12. cuts \in [0 .. kLockCnt -> 0 .. kBlocks]
    BY <1>5, <2>10
  <2> QED
    BY <1>2, <2>11, <2>12 DEF Cuts, cuts, r
<1> QED
  BY <1>1, <1>3, <1>4

(* In a partitioning, every cut leaves room for those before and after it. *)
LEMMA CutsFacts ==
    ASSUME NEW cuts \in Cuts
    PROVE  /\ \A l \in 0 .. kLockCnt : cuts[l] \in Int /\ cuts[l] >= l
                                        /\ cuts[l] <= kBlocks - (kLockCnt - l)
           /\ \A l \in 1 .. kLockCnt : cuts[l] >= cuts[l - 1] + 1
           /\ cuts[0] = 0 /\ cuts[kLockCnt] = kBlocks
           /\ cuts = [l \in 0 .. kLockCnt |-> cuts[l]]
<1>1. kLockCnt \in Nat /\ kBlocks \in Nat
  BY SizeAssumption
<1>2. /\ cuts \in [0 .. kLockCnt -> 0 .. kBlocks] /\ cuts[0] = 0 /\ cuts[kLockCnt] = kBlocks
      /\ \A l, m \in 0 .. kLockCnt : l < m => cuts[l] < cuts[m]
  BY DEF Cuts
<1>3. cuts \in [0 .. kLockCnt -> Int] /\ \A l \in 0 .. kLockCnt : cuts[l] \in Int
  BY <1>1, <1>2
<1>4. \A i \in 0 .. kLockCnt : i # 0 => cuts[i] >= cuts[i - 1] + 1
  <2> TAKE i \in 0 .. kLockCnt
  <2> HAVE i # 0
  <2>1. i - 1 \in 0 .. kLockCnt /\ i - 1 < i
    BY <1>1
  <2> QED
    BY <1>2, <1>3, <2>1
<1>5. \A l, m \in 0 .. kLockCnt : l <= m => cuts[m] - cuts[l] >= m - l
  <2>1. 0 \in Int /\ kLockCnt \in Int
    BY <1>1
  <2> QED
    BY <2>1, <1>3, <1>4, StepsGrow, Zenon
<1>6. \A l \in 0 .. kLockCnt : cuts[l] >= l /\ cuts[l] <= kBlocks - (kLockCnt - l)
  <2> TAKE l \in 0 .. kLockCnt
  <2>1. cuts[l] - cuts[0] >= l - 0 /\ cuts[kLockCnt] - cuts[l] >= kLockCnt - l
    BY <1>1, <1>5
  <2> QED
    BY <1>1, <1>2, <1>3, <2>1
<1>7. cuts = [l \in 0 .. kLockCnt |-> cuts[l]]
  BY <1>2
<1>8. \A l \in 1 .. kLockCnt : cuts[l] >= cuts[l - 1] + 1
  BY <1>1, <1>4
<1> QED
  BY <1>2, <1>3, <1>6, <1>7, <1>8

(* RepairInternalCuts leaves a partitioning as it is.                      *)
LEMMA RepairIdentity ==
    ASSUME NEW cuts \in Cuts
    PROVE  FromInternal(RepairInternalCuts(Internal(cuts))) = cuts
<1> DEFINE n == kLockCnt - 1
           c == Internal(cuts)
           r == RepairInternalCuts(c)
<1>1. /\ n \in Nat /\ kLockCnt \in Nat /\ kLockCnt = n + 1
      /\ kBlocks \in Nat /\ n < kBlocks
  BY SizeAssumption
<1>2. /\ \A l \in 0 .. kLockCnt : cuts[l] \in Int /\ cuts[l] >= l
                                   /\ cuts[l] <= kBlocks - (kLockCnt - l)
      /\ \A l \in 1 .. kLockCnt : cuts[l] >= cuts[l - 1] + 1
      /\ cuts[0] = 0 /\ cuts[kLockCnt] = kBlocks
  BY CutsFacts
<1>3. cuts = [l \in 0 .. kLockCnt |-> cuts[l]]
  BY CutsFacts
<1>4. \A i \in 1 .. n : /\ c[i] = cuts[i] /\ c[i] \in Int /\ c[i] >= i
                         /\ c[i] <= kBlocks - (n - (i - 1))
  <2> TAKE i \in 1 .. n
  <2>1. i \in 0 .. kLockCnt /\ c[i] = cuts[i]
    BY <1>1 DEF Internal
  <2> QED
    BY <1>1, <1>2, <2>1
<1>5. c \in InternalCuts
  BY <1>4 DEF Internal, InternalCuts
<1>6. \A i \in 2 .. n : c[i] >= c[i - 1] + 1
  <2> TAKE i \in 2 .. n
  <2>1. i \in 1 .. n /\ i - 1 \in 1 .. n /\ i \in 1 .. kLockCnt
    BY <1>1
  <2> QED
    BY <1>2, <1>4, <2>1
<1>7. \A i \in 1 .. n : r[i] = c[i]
  <2> SUFFICES ASSUME n > 0 PROVE \A i \in 1 .. n : r[i] = c[i]
    BY <1>1
  <2> HIDE DEF c
  <2>1. kLockCnt > 1
    BY <1>1
  <2>2. PICK up, bounded \in InternalCuts :
           /\ r \in InternalCuts
           /\ up[1] = Greater(1, Lesser(c[1], kBlocks - n))
           /\ r[1] = bounded[1]
           /\ \A i \in 1 .. n : bounded[i] = Lesser(up[i], kBlocks - (n - (i - 1)))
           /\ \A i \in 2 .. n :
                 /\ up[i] >= c[i] /\ up[i] >= up[i - 1] + 1
                 /\ up[i] = c[i] \/ up[i] = up[i - 1] + 1
                 /\ r[i] >= bounded[i] /\ r[i] >= r[i - 1] + 1
                 /\ r[i] = bounded[i] \/ r[i] = r[i - 1] + 1
    BY <1>5, <2>1, RepairFacts
  <2> HIDE DEF r
  <2>3. \A i \in 1 .. n : up[i] \in Int /\ r[i] \in Int
    BY <2>2 DEF InternalCuts
  <2> DEFINE T == {m \in Nat : m \in 1 .. n => up[m] = c[m] /\ bounded[m] = c[m] /\ r[m] = c[m]}
  <2>4. \A m \in Nat : m \in T
    <3>1. 0 \in T
      OBVIOUS
    <3>2. ASSUME NEW m \in T PROVE m + 1 \in T
      <4> SUFFICES ASSUME m + 1 \in 1 .. n
                   PROVE  up[m + 1] = c[m + 1] /\ bounded[m + 1] = c[m + 1] /\ r[m + 1] = c[m + 1]
        OBVIOUS
      <4>1. /\ bounded[m + 1] = Lesser(up[m + 1], kBlocks - (n - ((m + 1) - 1)))
            /\ c[m + 1] \in Int /\ c[m + 1] <= kBlocks - (n - ((m + 1) - 1))
            /\ m \in Nat
        BY <1>1, <1>4, <2>2
      <4>2. CASE m = 0
        <5>1. c[1] \in Int /\ c[1] >= 1 /\ c[1] <= kBlocks - n
          BY <1>1, <1>4, <4>2
        <5>2. up[1] = c[1]
          BY <1>1, <2>2, <5>1 DEF Greater, Lesser
        <5>3. bounded[1] = c[1]
          BY <1>1, <4>1, <4>2, <5>1, <5>2 DEF Lesser
        <5> QED
          BY <2>2, <4>2, <5>2, <5>3
      <4>3. CASE m # 0
        <5>1. m \in 1 .. n /\ m + 1 \in 2 .. n /\ (m + 1) - 1 = m /\ m + 1 \in 1 .. n
          BY <1>1, <4>3
        <5>2. up[m] = c[m] /\ r[m] = c[m] /\ c[m] \in Int
          BY <1>4, <5>1
        <5>3. /\ up[m + 1] >= c[m + 1]
              /\ up[m + 1] = c[m + 1] \/ up[m + 1] = up[m] + 1
              /\ r[m + 1] >= bounded[m + 1]
              /\ r[m + 1] = bounded[m + 1] \/ r[m + 1] = r[m] + 1
              /\ c[m + 1] >= c[m] + 1
          BY <1>6, <2>2, <5>1
        <5>4. up[m + 1] = c[m + 1]
          BY <2>3, <4>1, <5>1, <5>2, <5>3
        <5>5. bounded[m + 1] = c[m + 1]
          BY <4>1, <5>4 DEF Lesser
        <5>6. r[m + 1] = c[m + 1]
          BY <2>3, <4>1, <5>1, <5>2, <5>3, <5>5
        <5> QED
          BY <5>4, <5>5, <5>6
      <4> QED
        BY <4>2, <4>3
    <3> HIDE DEF T
    <3> QED
      BY <3>1, <3>2, SetInduction
  <2> QED
    BY <2>4
<1> HIDE DEF r, c
<1>8. \A l \in 0 .. kLockCnt : FromInternal(r)[l] = cuts[l]
  <2> TAKE l \in 0 .. kLockCnt
  <2>1. l # 0 /\ l # kLockCnt => l \in 1 .. n
    BY <1>1
  <2>2. FromInternal(r)[l] = CASE l = 0 -> 0 [] l = kLockCnt -> kBlocks [] OTHER -> r[l]
    BY DEF FromInternal
  <2> QED
    BY <1>1, <1>2, <1>4, <1>7, <2>1, <2>2
<1>9. FromInternal(r) = [l \in 0 .. kLockCnt |-> FromInternal(r)[l]]
  BY DEF FromInternal
<1> QED
  BY <1>3, <1>8, <1>9 DEF r, c

(* MoveToward makes a partitioning, moves no cut further than the shift    *)
(* allowed, and arrives when every shift is allowed.                       *)
LEMMA MoveFacts ==
    ASSUME NEW from \in Cuts, NEW target \in Cuts
    PROVE  /\ MoveToward(from, target) \in Cuts
           /\ \A l \in 0 .. kLockCnt :
                 /\ MoveToward(from, target)[l] - from[l] <= max_cut_shift_per_batch_
                 /\ from[l] - MoveToward(from, target)[l] <= max_cut_shift_per_batch_
           /\ max_cut_shift_per_batch_ >= kBlocks => MoveToward(from, target) = target
<1> DEFINE s == max_cut_shift_per_batch_
           moved(l) == IF from[l] < target[l]
                       THEN Lesser(from[l] + s, target[l])
                       ELSE Greater(IF from[l] > s THEN from[l] - s ELSE 1, target[l])
           m == [l \in 0 .. kLockCnt |->
                   IF l = 0 THEN 0 ELSE moved(l)]
<1>1. kLockCnt \in Nat \ {0} /\ kBlocks \in Nat /\ s \in Nat \ {0}
  BY SizeAssumption, PartitionerAssumption
<1>2. /\ \A l \in 0 .. kLockCnt : from[l] \in Int /\ from[l] >= l
                                   /\ from[l] <= kBlocks - (kLockCnt - l)
      /\ from[0] = 0 /\ from[kLockCnt] = kBlocks
      /\ \A l, k \in 0 .. kLockCnt : l < k => from[l] < from[k]
  BY CutsFacts DEF Cuts
<1>3. /\ \A l \in 0 .. kLockCnt : target[l] \in Int /\ target[l] >= l
                                   /\ target[l] <= kBlocks - (kLockCnt - l)
      /\ target[0] = 0 /\ target[kLockCnt] = kBlocks
      /\ \A l, k \in 0 .. kLockCnt : l < k => target[l] < target[k]
  BY CutsFacts DEF Cuts
<1>4. ASSUME NEW l \in 0 .. kLockCnt
      PROVE  /\ m[l] \in Int
             /\ m[l] - from[l] <= s /\ from[l] - m[l] <= s
             /\ \/ m[l] = target[l]
                \/ m[l] = from[l] + s /\ from[l] + s <= target[l]
                \/ m[l] = from[l] - s /\ target[l] <= from[l] - s
             /\ s >= kBlocks => m[l] = target[l]
  <2>1. /\ from[l] \in Int /\ from[l] >= l /\ target[l] \in Int /\ target[l] >= l /\ l \in Nat
        /\ from[l] <= kBlocks - (kLockCnt - l) /\ target[l] <= kBlocks - (kLockCnt - l)
    BY <1>1, <1>2, <1>3
  <2>2. m[l] = IF l = 0 THEN 0 ELSE moved(l)
    OBVIOUS
  <2> HIDE DEF m, s
  <2>3. CASE l = 0
    BY <1>1, <1>2, <1>3, <2>1, <2>2, <2>3
  <2>4. CASE l # 0
    BY <1>1, <2>1, <2>2, <2>4 DEF Lesser, Greater
  <2> QED
    BY <2>3, <2>4
<1>5. m = [l \in 0 .. kLockCnt |-> m[l]] /\ m[0] = 0
  BY <1>1
<1>6. Internal(m) = [i \in 1 .. kLockCnt - 1 |-> moved(i)]
  <2>1. \A i \in 1 .. kLockCnt - 1 : m[i] = moved(i)
    BY <1>1
  <2> QED
    BY <2>1 DEF Internal
<1> HIDE DEF m
<1>7. m \in Cuts
  <2>1. m[kLockCnt] = kBlocks
    BY <1>1, <1>2, <1>3, <1>4
  <2>2. \A l, k \in 0 .. kLockCnt : l < k => m[l] < m[k]
    <3> TAKE l, k \in 0 .. kLockCnt
    <3> HAVE l < k
    <3>1. /\ from[l] < from[k] /\ target[l] < target[k]
          /\ from[l] \in Int /\ from[k] \in Int /\ target[l] \in Int /\ target[k] \in Int
      BY <1>2, <1>3
    <3> QED
      BY <1>1, <1>4, <3>1
  <2>3. \A l \in 0 .. kLockCnt : m[l] \in 0 .. kBlocks
    <3> TAKE l \in 0 .. kLockCnt
    <3>1. (l = 0 \/ m[0] < m[l]) /\ (l = kLockCnt \/ m[l] < m[kLockCnt])
      BY <1>1, <2>2
    <3> QED
      BY <1>1, <1>4, <1>5, <2>1, <3>1
  <2>4. m \in [0 .. kLockCnt -> 0 .. kBlocks]
    BY <1>5, <2>3
  <2> QED
    BY <1>5, <2>1, <2>2, <2>4 DEF Cuts
<1>8. from # target => MoveToward(from, target) = m
  BY <1>6, <1>7, RepairIdentity DEF MoveToward
<1>9. from = target => MoveToward(from, target) = from
  BY DEF MoveToward
<1>10. s >= kBlocks => m = target
  <2>1. target = [l \in 0 .. kLockCnt |-> target[l]]
    BY CutsFacts
  <2> QED
    BY <1>4, <1>5, <2>1
<1>11. CASE from = target
  BY <1>1, <1>2, <1>9, <1>11
<1>12. CASE from # target
  BY <1>4, <1>7, <1>8, <1>10, <1>12
<1> QED
  BY <1>11, <1>12

(* Sorting, repairing and reassembling any cuts gives a partitioning.      *)
LEMMA RepairedType ==
    ASSUME NEW internal \in [1 .. kLockCnt - 1 -> 0 .. kBlocks]
    PROVE  Repaired(internal) \in Cuts
<1> DEFINE n == kLockCnt - 1
           below(c) == {j \in 1 .. n : internal[j] <= c}
           S(i) == {c \in Range(internal) : i <= Cardinality(below(c))}
<1>1. n \in Nat /\ kBlocks \in Nat
  BY SizeAssumption
<1>2. /\ DOMAIN internal = 1 .. n /\ Range(internal) = {internal[j] : j \in 1 .. n}
      /\ \A j \in 1 .. n : internal[j] \in 0 .. kBlocks /\ internal[j] \in Range(internal)
  BY DEF Range
<1>3. Range(internal) \subseteq Nat
  BY <1>1, <1>2
<1> HIDE DEF n
<1>4. ASSUME NEW i \in 1 .. n PROVE Min(S(i)) \in Int
  <2> DEFINE room == {kBlocks - internal[j] : j \in 1 .. n}
  <2>1. room \in SUBSET Nat /\ room # {}
    BY <1>1, <1>2
  <2>2. PICK x \in room : \A y \in room : x <= y
    BY <2>1, LeastElement
  <2>3. PICK k \in 1 .. n : x = kBlocks - internal[k]
    BY <2>2
  <2>4. \A j \in 1 .. n : internal[j] <= internal[k]
    <3> TAKE j \in 1 .. n
    <3>1. x <= kBlocks - internal[j]
      BY <2>2
    <3> QED
      BY <1>1, <1>2, <2>3, <3>1
  <2>5. below(internal[k]) = 1 .. n
    BY <2>4
  <2>6. Cardinality(1 .. n) = n
    BY <1>1, FS_Interval
  <2>7. internal[k] \in S(i)
    <3>1. i <= n
      BY <1>1
    <3> HIDE DEF below
    <3> QED
      BY <1>2, <2>5, <2>6, <3>1
  <2>8. S(i) \in SUBSET Nat /\ S(i) # {}
    BY <1>3, <2>7
  <2>9. \E c \in S(i) : \A y \in S(i) : c <= y
    BY <2>8, LeastElement
  <2> HIDE DEF S
  <2>10. Min(S(i)) \in S(i)
    BY <2>9 DEF Min
  <2> QED
    BY <2>8, <2>10
<1>5. Sorted(internal) = [i \in 1 .. n |-> Min(S(i))]
  BY <1>2 DEF Sorted
<1> HIDE DEF S
<1>6. Sorted(internal) \in InternalCuts
  BY <1>4, <1>5 DEF InternalCuts, n
<1> QED
  BY <1>6, RepairYieldsCuts DEF Repaired

(* So every child is a partitioning.                                       *)
LEMMA ChildrenType ==
    ASSUME NEW elites \in SUBSET Cuts
    PROVE  Children(elites) \subseteq Cuts
<1>1. kLockCnt \in Nat /\ kBlocks \in Nat
  BY SizeAssumption
<1>2. Mutations \subseteq Cuts
  <2>1. \A internal \in [1 .. kLockCnt - 1 -> 1 .. kBlocks - 1] :
           internal \in [1 .. kLockCnt - 1 -> 0 .. kBlocks]
    BY <1>1
  <2> QED
    BY <2>1, RepairedType DEF Mutations
<1>3. ASSUME NEW lhs \in elites, NEW rhs \in elites
      PROVE  Crossovers(lhs, rhs) \subseteq Cuts
  <2>1. \A i \in 1 .. kLockCnt - 1 : lhs[i] \in 0 .. kBlocks /\ rhs[i] \in 0 .. kBlocks
    BY <1>1 DEF Cuts
  <2>2. ASSUME NEW mask \in SUBSET (1 .. kLockCnt - 1)
        PROVE  [i \in 1 .. kLockCnt - 1 |-> IF i \in mask THEN lhs[i] ELSE rhs[i]]
                  \in [1 .. kLockCnt - 1 -> 0 .. kBlocks]
    BY <2>1
  <2>3. ASSUME NEW mask \in SUBSET (1 .. kLockCnt - 1)
        PROVE  Repaired([i \in 1 .. kLockCnt - 1 |-> IF i \in mask THEN lhs[i] ELSE rhs[i]])
                  \in Cuts
    BY <2>2, RepairedType
  <2> QED
    BY <2>3 DEF Crossovers
<1> QED
  BY <1>2, <1>3 DEF Children

-----------------------------------------------------------------------------
(* A sum of numbers of queries is one.                                     *)
LEMMA SumIsNat ==
    ASSUME NEW S, IsFiniteSet(S), NEW w, NEW h,
           \A s \in SUBSET S : s # {} => w[s] \in Nat,
           \A s \in SUBSET S :
              h[s] = IF s = {} THEN 0 ELSE w[s] + h[s \ {CHOOSE x \in s : TRUE}]
    PROVE  h[S] \in Nat
<1> DEFINE rest(s) == s \ {CHOOSE x \in s : TRUE}
           T == {k \in Nat : \A s \in SUBSET S : Cardinality(s) = k => h[s] \in Nat}
<1>1. \A s \in SUBSET S : IsFiniteSet(s) /\ Cardinality(s) \in Nat
  BY FS_Subset, FS_CardinalityType
<1>2. \A s \in SUBSET S : s # {} =>
         /\ rest(s) \in SUBSET S /\ Cardinality(rest(s)) = Cardinality(s) - 1
         /\ Cardinality(s) # 0
  <2> SUFFICES ASSUME NEW s \in SUBSET S, s # {}
               PROVE  /\ rest(s) \in SUBSET S /\ Cardinality(rest(s)) = Cardinality(s) - 1
                      /\ Cardinality(s) # 0
    OBVIOUS
  <2>1. (CHOOSE x \in s : TRUE) \in s
    OBVIOUS
  <2>2. IsFiniteSet(s) /\ Cardinality(s) \in Nat
    BY <1>1
  <2> QED
    BY <2>1, <2>2, FS_RemoveElement, FS_EmptySet
<1>3. \A s \in SUBSET S : h[s] = IF s = {} THEN 0 ELSE w[s] + h[rest(s)]
  OBVIOUS
<1> HIDE DEF rest
<1>4. 0 \in T
  <2> SUFFICES ASSUME NEW s \in SUBSET S, Cardinality(s) = 0 PROVE h[s] \in Nat
    OBVIOUS
  <2>1. s = {}
    BY <1>2
  <2>2. h[s] = 0
    <3>1. h[s] = IF s = {} THEN 0 ELSE w[s] + h[rest(s)]
      BY <1>3
    <3> QED
      BY <2>1, <3>1
  <2> QED
    BY <2>2
<1>5. ASSUME NEW k \in T PROVE k + 1 \in T
  <2> SUFFICES ASSUME NEW s \in SUBSET S, Cardinality(s) = k + 1 PROVE h[s] \in Nat
    OBVIOUS
  <2>1. CASE s = {}
    BY <1>3, <2>1
  <2>2. CASE s # {}
    <3>1. rest(s) \in SUBSET S /\ Cardinality(rest(s)) = k
      BY <1>2, <2>2
    <3>2. h[rest(s)] \in Nat
      BY <3>1
    <3>3. h[s] = w[s] + h[rest(s)] /\ w[s] \in Nat
      BY <1>3, <2>2
    <3> QED
      BY <3>2, <3>3
  <2> QED
    BY <2>1, <2>2
<1>6. \A k \in Nat : k \in T
  <2> HIDE DEF T
  <2> QED
    BY <1>4, <1>5, SetInduction
<1> QED
  BY <1>1, <1>6

-----------------------------------------------------------------------------
(* Evaluate                                                                *)

(* FindLockForBlock finds a lock.                                          *)
LEMMA FindLockFacts ==
    ASSUME NEW cuts \in Cuts, NEW block \in Blocks
    PROVE  LET l == FindLockForBlock(cuts, block)
           IN  l \in Locks /\ cuts[l] <= block /\ block < cuts[l + 1]
<1>1. kLockCnt \in Nat \ {0} /\ kBlocks \in Nat /\ block \in 0 .. kBlocks - 1
  BY SizeAssumption DEF Blocks
<1>2. /\ \A l \in 0 .. kLockCnt : cuts[l] \in Int
      /\ cuts[0] = 0 /\ cuts[kLockCnt] = kBlocks
  BY CutsFacts
<1> DEFINE above == {l \in 0 .. kLockCnt : block < cuts[l]}
<1>3. above \in SUBSET Nat /\ kLockCnt \in above
  BY <1>1, <1>2
<1>4. PICK x \in above : \A y \in above : x <= y
  BY <1>3, LeastElement
<1>5. x \in 0 .. kLockCnt /\ x # 0 /\ block < cuts[x]
  BY <1>1, <1>2, <1>4
<1>6. x - 1 \in 0 .. kLockCnt /\ x - 1 \in Locks /\ (x - 1) + 1 = x /\ ~(x <= x - 1)
  BY <1>1, <1>5 DEF Locks
<1>7. ~(block < cuts[x - 1])
  BY <1>4, <1>6
<1>8. cuts[x - 1] <= block /\ block < cuts[(x - 1) + 1]
  BY <1>1, <1>2, <1>5, <1>6, <1>7
<1>9. \E l \in Locks : cuts[l] <= block /\ block < cuts[l + 1]
  BY <1>6, <1>8
<1> QED
  BY <1>9 DEF FindLockForBlock

LEMMA ContentionType ==
    ASSUME NEW cuts \in Cuts, NEW queries \in Seq(Queries)
    PROVE  ContentionScore(cuts, queries) \in Nat
<1> DEFINE load(l) == MapThenSumSet(LAMBDA b : block_hits(queries, b),
                                    cuts[l] .. cuts[l + 1] - 1)
<1>1. kLockCnt \in Nat \ {0} /\ kBlocks \in Nat
  BY SizeAssumption
<1>2. \A b : block_hits(queries, b) \in Nat
  <2> TAKE b
  <2>1. IsFiniteSet(1 .. Len(queries)) /\ DOMAIN queries = 1 .. Len(queries)
    BY FS_Interval
  <2>2. IsFiniteSet({q \in DOMAIN queries : b \in QueryBlocks(queries[q])})
    BY <2>1, FS_Subset
  <2> QED
    BY <2>2, FS_CardinalityType DEF block_hits
<1>3. ASSUME NEW l \in Locks PROVE load(l) \in Nat
  <2> DEFINE S == cuts[l] .. cuts[l + 1] - 1
             w == [s \in SUBSET S |-> block_hits(queries, CHOOSE x \in s : TRUE)]
             G(h) == [s \in SUBSET S |->
                        IF s = {} THEN 0
                        ELSE block_hits(queries, CHOOSE x \in s : TRUE)
                               + h[s \ {CHOOSE x \in s : TRUE}]]
             H(h) == [s \in SUBSET S |->
                        IF s = {} THEN 0
                        ELSE w[s] + h[s \ {CHOOSE x \in s : TRUE}]]
             sum == CHOOSE h : h = G(h)
  <2>1. load(l) = sum[S]
    BY DEF MapThenSumSet, MapThenFoldSet
  <2>2. IsFiniteSet(S)
    <3>1. l \in 0 .. kLockCnt /\ l + 1 \in 0 .. kLockCnt
      BY <1>1 DEF Locks
    <3>2. cuts[l] \in Int /\ cuts[l + 1] - 1 \in Int
      BY <3>1, CutsFacts
    <3> QED
      BY <3>2, FS_Interval
  <2>3. \A s \in SUBSET S : w[s] = block_hits(queries, CHOOSE x \in s : TRUE)
    OBVIOUS
  <2>4. \A s \in SUBSET S : s # {} => w[s] \in Nat
    BY <1>2, <2>3
  <2> HIDE DEF w, S
  <2>5. \A h : G(h) = H(h)
    BY <2>3
  <2>6. \E h : h = G(h)
    <3>1. \E h : h = H(h)
      <4>1. PICK h : IsSum(h, S, w)
        BY <2>2, SumExists
      <4>2. h = H(h)
        BY <4>1 DEF IsSum
      <4> QED
        BY <4>2
    <3> HIDE DEF G, H
    <3> QED
      BY <2>5, <3>1
  <2>7. sum = H(sum)
    <3> HIDE DEF G, H
    <3> QED
      BY <2>5, <2>6
  <2> HIDE DEF sum
  <2>8. \A s \in SUBSET S :
           sum[s] = IF s = {} THEN 0 ELSE w[s] + sum[s \ {CHOOSE x \in s : TRUE}]
    BY <2>7
  <2>9. sum[S] \in Nat
    BY <2>2, <2>4, <2>8, SumIsNat, Zenon
  <2> QED
    BY <2>1, <2>9
<1> HIDE DEF load
<1> DEFINE w == [s \in SUBSET Locks |->
                   load(CHOOSE x \in s : TRUE) * load(CHOOSE x \in s : TRUE)]
           G(h) == [s \in SUBSET Locks |->
                      IF s = {} THEN 0
                      ELSE load(CHOOSE x \in s : TRUE) * load(CHOOSE x \in s : TRUE)
                             + h[s \ {CHOOSE x \in s : TRUE}]]
           H(h) == [s \in SUBSET Locks |->
                      IF s = {} THEN 0
                      ELSE w[s] + h[s \ {CHOOSE x \in s : TRUE}]]
           sum == CHOOSE h : h = G(h)
<1>4. ContentionScore(cuts, queries) = sum[Locks]
  BY DEF ContentionScore, load, MapThenSumSet, MapThenFoldSet
<1>5. IsFiniteSet(Locks)
  BY <1>1, FS_Interval DEF Locks
<1>6. \A s \in SUBSET Locks :
         w[s] = load(CHOOSE x \in s : TRUE) * load(CHOOSE x \in s : TRUE)
  OBVIOUS
<1>7. \A s \in SUBSET Locks : s # {} => w[s] \in Nat
  <2> TAKE s \in SUBSET Locks
  <2> HAVE s # {}
  <2>1. (CHOOSE x \in s : TRUE) \in Locks
    OBVIOUS
  <2> QED
    BY <1>3, <1>6, <2>1
<1> HIDE DEF w
<1>8. \A h : G(h) = H(h)
  BY <1>6
<1>9. \E h : h = G(h)
  <2>1. \E h : h = H(h)
    <3>1. PICK h : IsSum(h, Locks, w)
      BY <1>5, SumExists
    <3>2. h = H(h)
      BY <3>1 DEF IsSum
    <3> QED
      BY <3>2
  <2> HIDE DEF G, H
  <2> QED
    BY <1>8, <2>1
<1>10. sum = H(sum)
  <2> HIDE DEF G, H
  <2> QED
    BY <1>8, <1>9
<1> HIDE DEF sum
<1>11. \A s \in SUBSET Locks :
          sum[s] = IF s = {} THEN 0 ELSE w[s] + sum[s \ {CHOOSE x \in s : TRUE}]
  BY <1>10
<1>12. sum[Locks] \in Nat
  BY <1>5, <1>7, <1>11, SumIsNat, Zenon
<1> QED
  BY <1>4, <1>12

LEMMA TotalLocksType ==
    ASSUME NEW cuts \in Cuts, NEW queries \in Seq(Queries)
    PROVE  TotalLocks(cuts, queries) \in Nat
<1> DEFINE S == DOMAIN queries
           lft(q) == FindLockForBlock(cuts, PositionToBlock(queries[q][1]))
           rgt(q) == FindLockForBlock(cuts, PositionToBlock(queries[q][2]))
           w == [s \in SUBSET S |->
                   rgt(CHOOSE x \in s : TRUE) - lft(CHOOSE x \in s : TRUE) + 1]
           G(h) == [s \in SUBSET S |->
                      IF s = {} THEN 0
                      ELSE (rgt(CHOOSE x \in s : TRUE) - lft(CHOOSE x \in s : TRUE) + 1)
                             + h[s \ {CHOOSE x \in s : TRUE}]]
           H(h) == [s \in SUBSET S |->
                      IF s = {} THEN 0
                      ELSE w[s] + h[s \ {CHOOSE x \in s : TRUE}]]
           sum == CHOOSE h : h = G(h)
<1>1. kLockCnt \in Nat \ {0} /\ kBlocks \in Nat
  BY SizeAssumption
<1>2. TotalLocks(cuts, queries) = sum[S]
  BY DEF TotalLocks, MapThenSumSet, MapThenFoldSet
<1>3. ASSUME NEW q \in S PROVE rgt(q) - lft(q) + 1 \in Nat
  <2>1. queries[q] \in Queries
    OBVIOUS
  <2>2. /\ queries[q][1] \in Positions /\ queries[q][2] \in Positions
        /\ queries[q][1] <= queries[q][2]
    BY <2>1, PartitionerAssumption
  <2> DEFINE a == PositionToBlock(queries[q][1])
             b == PositionToBlock(queries[q][2])
             l == FindLockForBlock(cuts, a)
             r == FindLockForBlock(cuts, b)
  <2>3. a \in Blocks /\ b \in Blocks /\ a <= b
    BY <2>2, PositionToBlockType, PositionToBlockMonotone
  <2> HIDE DEF a, b
  <2>4. l \in Locks /\ cuts[l] <= a /\ r \in Locks /\ b < cuts[r + 1]
    BY <2>3, FindLockFacts
  <2> HIDE DEF l, r
  <2>5. l \in 0 .. kLockCnt /\ r + 1 \in 0 .. kLockCnt /\ r \in Nat /\ l \in Nat
    BY <1>1, <2>4 DEF Locks
  <2>6. cuts[l] \in Int /\ cuts[r + 1] \in Int /\ cuts[l] < cuts[r + 1]
    <3>1. cuts[l] \in Int /\ cuts[r + 1] \in Int
      BY <2>5, CutsFacts
    <3> QED
      BY <1>1, <2>3, <2>4, <3>1 DEF Blocks
  <2>7. ~(r + 1 < l) /\ r + 1 # l
    BY <2>5, <2>6 DEF Cuts
  <2>8. r - l + 1 \in Nat
    BY <2>5, <2>7
  <2> QED
    BY <2>8 DEF l, r, a, b
<1>4. IsFiniteSet(S)
  <2>1. S = 1 .. Len(queries) /\ Len(queries) \in Nat
    OBVIOUS
  <2> QED
    BY <2>1, FS_Interval
<1> HIDE DEF lft, rgt, S
<1>5. \A s \in SUBSET S :
         w[s] = rgt(CHOOSE x \in s : TRUE) - lft(CHOOSE x \in s : TRUE) + 1
  OBVIOUS
<1>6. \A s \in SUBSET S : s # {} => w[s] \in Nat
  <2> TAKE s \in SUBSET S
  <2> HAVE s # {}
  <2>1. (CHOOSE x \in s : TRUE) \in S
    OBVIOUS
  <2> HIDE DEF w
  <2> QED
    BY <1>3, <1>5, <2>1
<1> HIDE DEF w
<1>7. \A h : G(h) = H(h)
  BY <1>5
<1>8. \E h : h = G(h)
  <2>1. \E h : h = H(h)
    <3>1. PICK h : IsSum(h, S, w)
      BY <1>4, SumExists
    <3>2. h = H(h)
      BY <3>1 DEF IsSum
    <3> QED
      BY <3>2
  <2> HIDE DEF G, H
  <2> QED
    BY <1>7, <2>1
<1>9. sum = H(sum)
  <2> HIDE DEF G, H
  <2> QED
    BY <1>7, <1>8
<1> HIDE DEF sum
<1>10. \A s \in SUBSET S :
          sum[s] = IF s = {} THEN 0 ELSE w[s] + sum[s \ {CHOOSE x \in s : TRUE}]
  BY <1>9
<1>11. sum[S] \in Nat
  BY <1>4, <1>6, <1>10, SumIsNat, Zenon
<1> QED
  BY <1>2, <1>11

(* Fitnesses are numbers, so they can be compared: any two partitionings   *)
(* are ordered on the same queries.                                        *)
LEMMA FitnessType ==
    ASSUME NEW cuts \in Cuts, NEW queries \in Seq(Queries)
    PROVE  Fitness(cuts, queries) \in Nat
<1>1. ContentionScore(cuts, queries) \in Nat /\ TotalLocks(cuts, queries) \in Nat
  BY ContentionType, TotalLocksType
<1>2. Len(queries) \in Nat /\ MutexPenalty \in Nat
  BY PartitionerAssumption
<1> QED
  BY <1>1, <1>2 DEF Fitness

-----------------------------------------------------------------------------
(* The inductive invariant                                                 *)

Component == [queries : Seq(Queries), best : Cuts \cup {NoCuts}]

MemoryInv ==
    /\ components_ \in Seq(Component)
    /\ \A index \in 1 .. Len(components_) :
          Len(components_[index].queries) \in 1 .. component_query_limit_
    /\ Len(components_) <= max_components_
    /\ active_component_ \in 0 .. Len(components_)

CutsInv ==
    /\ current_ \in Cuts /\ start_partition \in Cuts /\ previous \in Cuts
    /\ population \subseteq Cuts
    /\ ppc \in {"idle", "guided", "seed", "evolve"}

(* Between two batches no cut is further than d from where it was.         *)
Near(cuts, d) ==
    \A l \in 0 .. kLockCnt : cuts[l] - previous[l] <= d /\ previous[l] - cuts[l] <= d

(* Training starts one move away from where the batch found the cuts, and  *)
(* leaves the cuts in use alone until its end.                             *)
ShiftInv ==
    /\ ppc = "idle" => Near(current_, 2 * max_cut_shift_per_batch_)
    /\ ppc # "idle" => /\ active_component_ # 0
                       /\ current_ = start_partition
                       /\ Near(start_partition, max_cut_shift_per_batch_)

(* Some member of the population is as good as the cuts in use, since      *)
(* these are seeded and the fittest survive; and then so is the remembered *)
(* partitioning.                                                           *)
FitInv ==
    /\ ppc = "evolve" =>
          \E member \in population :
             Fitness(member, active.queries) <= Fitness(start_partition, active.queries)
    /\ ppc = "idle" /\ active_component_ # 0 /\ generation_count_ > 0 =>
          active.best # NoCuts /\ TrainingNeverHurts

IInv == MemoryInv /\ CutsInv /\ ShiftInv /\ FitInv

LEMMA ComponentFacts ==
    ASSUME NEW cs \in Seq(Component), NEW i \in 1 .. Len(cs)
    PROVE  cs[i].queries \in Seq(Queries) /\ cs[i].best \in Cuts \cup {NoCuts}
<1>1. cs[i] \in Component
  OBVIOUS
<1> QED
  BY <1>1 DEF Component

LEMMA NoCutsNotCuts == NoCuts \notin Cuts
<1>1. kLockCnt \in Nat
  BY SizeAssumption
<1>2. \A cuts \in Cuts : 0 \in DOMAIN cuts
  BY <1>1 DEF Cuts
<1>3. 0 \notin DOMAIN NoCuts
  BY DEF NoCuts
<1> QED
  BY <1>2, <1>3

(* AppendQueries keeps at least one and at most component_query_limit_.    *)
LEMMA AppendType ==
    ASSUME NEW queries \in Seq(Queries), NEW batch \in Batches
    PROVE  /\ Append_(queries, batch) \in Seq(Queries)
           /\ Len(Append_(queries, batch)) \in 1 .. component_query_limit_
<1> DEFINE all == queries \o batch
           drop == Greater(0, Len(all) - component_query_limit_)
<1>1. component_query_limit_ \in Nat \ {0} /\ MaxBatch \in Nat \ {0}
  BY PartitionerAssumption
<1>2. batch \in Seq(Queries) /\ Len(batch) >= 1
  <2>1. PICK n \in 1 .. MaxBatch : batch \in [1 .. n -> Queries]
    BY DEF Batches
  <2> QED
    BY <1>1, <2>1
<1>3. all \in Seq(Queries) /\ Len(all) \in Nat /\ Len(all) >= 1
  BY <1>2
<1> HIDE DEF all
<1>4. drop \in 0 .. Len(all) - 1 /\ Len(all) - drop <= component_query_limit_
  BY <1>1, <1>3 DEF Greater
<1> HIDE DEF drop
<1>5. /\ SubSeq(all, drop + 1, Len(all)) \in Seq(Queries)
      /\ Len(SubSeq(all, drop + 1, Len(all))) = Len(all) - drop
  BY <1>3, <1>4
<1>6. Append_(queries, batch) = SubSeq(all, drop + 1, Len(all))
  BY DEF Append_, all, drop
<1> QED
  BY <1>1, <1>3, <1>4, <1>5, <1>6

LEMMA FreshType ==
    ASSUME NEW batch \in Batches
    PROVE  FreshComponent(batch) \in Component
           /\ Len(FreshComponent(batch).queries) \in 1 .. component_query_limit_
<1>1. <<>> \in Seq(Queries)
  OBVIOUS
<1>2. /\ Append_(<<>>, batch) \in Seq(Queries)
      /\ Len(Append_(<<>>, batch)) \in 1 .. component_query_limit_
  BY <1>1, AppendType
<1> QED
  BY <1>2 DEF FreshComponent, Component

(* AssignBatchToComponent.                                                 *)
LEMMA AssignedFacts ==
    ASSUME MemoryInv, NEW batch \in Batches, NEW index \in 1 .. max_components_,
           Assigned(batch, index)
    PROVE  /\ components_' \in Seq(Component)
           /\ \A i \in 1 .. Len(components_') :
                 Len(components_'[i].queries) \in 1 .. component_query_limit_
           /\ Len(components_') <= max_components_
           /\ index \in 1 .. Len(components_')
<1>1. /\ components_ \in Seq(Component) /\ Len(components_) \in Nat
      /\ DOMAIN components_ = 1 .. Len(components_)
      /\ \A i \in 1 .. Len(components_) :
            /\ components_[i] \in Component
            /\ Len(components_[i].queries) \in 1 .. component_query_limit_
      /\ Len(components_) <= max_components_
  BY DEF MemoryInv
<1>2. max_components_ \in Nat
  BY PartitionerAssumption
<1> DEFINE fresh == FreshComponent(batch)
<1>3. fresh \in Component /\ Len(fresh.queries) \in 1 .. component_query_limit_
  BY FreshType
<1> HIDE DEF fresh
<1>4. CASE /\ index = Len(components_) + 1
           /\ index <= max_components_
           /\ components_' = Append(components_, fresh)
  <2>1. /\ components_' \in Seq(Component) /\ Len(components_') = Len(components_) + 1
    BY <1>1, <1>3, <1>4
  <2>2. \A i \in 1 .. Len(components_') :
           components_'[i] = IF i = Len(components_) + 1 THEN fresh ELSE components_[i]
    BY <1>1, <1>3, <1>4
  <2>3. \A i \in 1 .. Len(components_') :
           Len(components_'[i].queries) \in 1 .. component_query_limit_
    <3> TAKE i \in 1 .. Len(components_')
    <3>1. i = Len(components_) + 1 \/ i \in 1 .. Len(components_)
      BY <1>1, <2>1
    <3> QED
      BY <1>1, <1>3, <2>2, <3>1
  <2> QED
    BY <1>1, <1>2, <1>4, <2>1, <2>3
<1>5. ASSUME NEW c, index \in DOMAIN components_, c \in Component,
             Len(c.queries) \in 1 .. component_query_limit_,
             components_' = [components_ EXCEPT ![index] = c]
      PROVE  /\ components_' \in Seq(Component)
             /\ \A i \in 1 .. Len(components_') :
                   Len(components_'[i].queries) \in 1 .. component_query_limit_
             /\ Len(components_') <= max_components_
             /\ index \in 1 .. Len(components_')
  <2>1. /\ components_' \in Seq(Component) /\ Len(components_') = Len(components_)
        /\ \A i \in 1 .. Len(components_) :
              components_'[i] = IF i = index THEN c ELSE components_[i]
    BY <1>1, <1>5
  <2>2. \A i \in 1 .. Len(components_) :
           Len(components_'[i].queries) \in 1 .. component_query_limit_
    BY <1>1, <1>5, <2>1
  <2> QED
    BY <1>1, <1>5, <2>1, <2>2
<1>6. CASE /\ index \in DOMAIN components_
           /\ components_' = [components_ EXCEPT ![index] = fresh]
  BY <1>3, <1>5, <1>6
<1>7. CASE /\ index \in DOMAIN components_
           /\ components_' = [components_ EXCEPT ![index].queries = Append_(@, batch)]
  <2> DEFINE qs == Append_(components_[index].queries, batch)
             c == [components_[index] EXCEPT !.queries = qs]
  <2>1. components_[index] \in Component /\ components_[index].queries \in Seq(Queries)
    BY <1>1, <1>7 DEF Component
  <2>2. qs \in Seq(Queries) /\ Len(qs) \in 1 .. component_query_limit_
    BY <2>1, AppendType
  <2>3. components_' = [components_ EXCEPT ![index] = c]
    BY <1>7
  <2> HIDE DEF qs
  <2>4. c \in Component /\ c.queries = qs
    BY <2>1, <2>2 DEF Component
  <2> HIDE DEF c
  <2> QED
    BY <1>5, <1>7, <2>2, <2>3, <2>4
<1>8. \/ /\ index = Len(components_) + 1
         /\ index <= max_components_
         /\ components_' = Append(components_, fresh)
      \/ /\ index \in DOMAIN components_
         /\ components_' = [components_ EXCEPT ![index] = fresh]
      \/ /\ index \in DOMAIN components_
         /\ components_' = [components_ EXCEPT ![index].queries = Append_(@, batch)]
  BY DEF Assigned, fresh
<1> QED
  BY <1>4, <1>6, <1>7, <1>8

(* RememberBestForActiveComponent: what is remembered afterwards is no     *)
(* worse than the candidate, nor than what was remembered before.          *)
LEMMA RememberFacts ==
    ASSUME MemoryInv, active_component_ # 0, NEW candidate \in Cuts,
           RememberBest(candidate)
    PROVE  LET qs == active.queries
               new == components_'[active_component_]
           IN  /\ components_' \in Seq(Component)
               /\ Len(components_') = Len(components_)
               /\ \A i \in 1 .. Len(components_) : i # active_component_
                                                     => components_'[i] = components_[i]
               /\ new.queries = qs /\ new.best \in Cuts
               /\ Fitness(new.best, qs) <= Fitness(candidate, qs)
               /\ active.best # NoCuts =>
                     Fitness(new.best, qs) <= Fitness(active.best, qs)
<1> DEFINE a == active_component_
           old == components_[a]
           qs == old.queries
           chosen == IF \/ old.best = NoCuts
                        \/ Fitness(candidate, qs) <= Fitness(old.best, qs)
                     THEN candidate ELSE old.best
           c == [old EXCEPT !.best = chosen]
<1>1. /\ components_ \in Seq(Component) /\ a \in 1 .. Len(components_)
      /\ old \in Component /\ Len(components_) \in Nat
  BY DEF MemoryInv
<1>2. qs \in Seq(Queries) /\ old.best \in Cuts \cup {NoCuts}
  BY <1>1 DEF Component
<1>3. /\ Fitness(candidate, qs) \in Nat
      /\ old.best # NoCuts => Fitness(old.best, qs) \in Nat
  BY <1>2, FitnessType
<1>4. components_' = [components_ EXCEPT ![a] = c]
  BY DEF RememberBest, active
<1>5. /\ chosen \in Cuts
      /\ Fitness(chosen, qs) <= Fitness(candidate, qs)
      /\ old.best # NoCuts => Fitness(chosen, qs) <= Fitness(old.best, qs)
  <2>1. CASE old.best = NoCuts
    BY <1>3, <2>1
  <2>2. CASE old.best # NoCuts /\ Fitness(candidate, qs) <= Fitness(old.best, qs)
    BY <1>3, <2>2
  <2>3. CASE old.best # NoCuts /\ ~(Fitness(candidate, qs) <= Fitness(old.best, qs))
    BY <1>2, <1>3, <2>3
  <2> QED
    BY <2>1, <2>2, <2>3
<1> HIDE DEF chosen
<1>6. c \in Component /\ c.queries = qs /\ c.best = chosen
  BY <1>1, <1>2, <1>5 DEF Component
<1> HIDE DEF c
<1>7. /\ components_' \in Seq(Component) /\ Len(components_') = Len(components_)
      /\ \A i \in 1 .. Len(components_) : i # a => components_'[i] = components_[i]
      /\ components_'[a] = c
  <2> HIDE DEF a
  <2> QED
    BY <1>1, <1>4, <1>6
<1> QED
  BY <1>5, <1>6, <1>7 DEF active

(* A move from start_partition keeps within two shifts of previous.        *)
LEMMA SecondMove ==
    ASSUME CutsInv, Near(start_partition, max_cut_shift_per_batch_), NEW target \in Cuts
    PROVE  Near(MoveToward(start_partition, target), 2 * max_cut_shift_per_batch_)
<1> DEFINE m == MoveToward(start_partition, target)
           s == max_cut_shift_per_batch_
<1> SUFFICES ASSUME NEW l \in 0 .. kLockCnt
             PROVE  m[l] - previous[l] <= 2 * s /\ previous[l] - m[l] <= 2 * s
  BY DEF Near
<1>1. s \in Nat
  BY PartitionerAssumption
<1>2. start_partition \in Cuts /\ previous \in Cuts /\ m \in Cuts
  BY MoveFacts DEF CutsInv
<1>3. start_partition[l] \in Int /\ previous[l] \in Int /\ m[l] \in Int
  BY <1>2, CutsFacts
<1>4. m[l] - start_partition[l] <= s /\ start_partition[l] - m[l] <= s
  BY MoveFacts DEF CutsInv
<1>5. start_partition[l] - previous[l] <= s /\ previous[l] - start_partition[l] <= s
  BY DEF Near
<1> HIDE DEF m, s
<1> QED
  BY <1>1, <1>3, <1>4, <1>5

LEMMA InitInvariant == Init => IInv
<1> SUFFICES ASSUME Init PROVE IInv
  OBVIOUS
<1>1. UniformCuts \in Cuts
  BY UniformCutsType
<1>2. max_components_ \in Nat /\ max_cut_shift_per_batch_ \in Nat
  BY PartitionerAssumption
<1>3. MemoryInv
  BY <1>2 DEF Init, MemoryInv
<1>4. CutsInv
  BY <1>1 DEF Init, CutsInv
<1>5. \A l \in 0 .. kLockCnt : UniformCuts[l] \in Int
  BY <1>1, CutsFacts
<1>6. ShiftInv
  BY <1>2, <1>5 DEF Init, ShiftInv, Near
<1>7. FitInv
  BY DEF Init, FitInv
<1> QED
  BY <1>3, <1>4, <1>6, <1>7 DEF IInv

(* The end of a training: a candidate that is as good as the cuts in use   *)
(* is remembered, and a partitioning that is at least as good as these is  *)
(* approached.                                                             *)
LEMMA TrainingEnds ==
    ASSUME IInv, ppc # "idle", ppc' = "idle", NEW candidate \in Cuts,
           RememberBest(candidate), NEW target \in Cuts,
           Fitness(candidate, active.queries) <= Fitness(start_partition, active.queries),
           Fitness(target, active.queries) <= Fitness(start_partition, active.queries),
           current_' = MoveToward(start_partition, target),
           population' \subseteq Cuts,
           UNCHANGED <<active_component_, start_partition, previous>>
    PROVE  IInv'
<1> DEFINE qs == active.queries
           new == components_'[active_component_]
<1>1. MemoryInv /\ CutsInv /\ active_component_ # 0 /\ Near(start_partition, max_cut_shift_per_batch_)
  BY DEF IInv, ShiftInv
<1>2. /\ components_' \in Seq(Component)
      /\ Len(components_') = Len(components_)
      /\ \A i \in 1 .. Len(components_) : i # active_component_ => components_'[i] = components_[i]
      /\ new.queries = qs /\ new.best \in Cuts
      /\ Fitness(new.best, qs) <= Fitness(candidate, qs)
  BY <1>1, RememberFacts
<1>3. active' = new
  BY DEF active
<1>4. MemoryInv'
  <2>1. \A i \in 1 .. Len(components_) :
           Len(components_'[i].queries) \in 1 .. component_query_limit_
    BY <1>1, <1>2 DEF MemoryInv, active
  <2> QED
    BY <1>1, <1>2, <2>1 DEF MemoryInv
<1>5. CutsInv'
  BY <1>1, MoveFacts DEF CutsInv
<1>6. ShiftInv'
  <2>1. Near(MoveToward(start_partition, target), 2 * max_cut_shift_per_batch_)
    BY <1>1, SecondMove
  <2> QED
    BY <2>1 DEF ShiftInv, Near
<1>7. /\ Fitness(candidate, qs) \in Nat /\ Fitness(start_partition, qs) \in Nat
      /\ Fitness(new.best, qs) \in Nat
  <2>1. qs \in Seq(Queries)
    BY <1>1, ComponentFacts DEF MemoryInv, active
  <2> QED
    BY <1>1, <1>2, <2>1, FitnessType DEF CutsInv
<1>8. Fitness(new.best, qs) <= Fitness(start_partition, qs)
  BY <1>2, <1>7
<1>9. max_cut_shift_per_batch_ >= kBlocks => current_' = target
  BY <1>1, MoveFacts DEF CutsInv
<1>10. TrainingNeverHurts'
  <2>1. Fitness(active'.best, active'.queries) <= Fitness(start_partition', active'.queries)
    BY <1>2, <1>3, <1>8
  <2>2. max_cut_shift_per_batch_ >= kBlocks
          => Fitness(current_', active'.queries) <= Fitness(start_partition', active'.queries)
    BY <1>2, <1>3, <1>9
  <2> QED
    BY <2>1, <2>2 DEF TrainingNeverHurts
<1>11. FitInv'
  BY <1>2, <1>3, <1>10, NoCutsNotCuts DEF FitInv
<1> QED
  BY <1>4, <1>5, <1>6, <1>11 DEF IInv

LEMMA ObserveBatchInvariant ==
    ASSUME IInv, NEW batch \in Batches, ObserveBatch(batch)
    PROVE  IInv'
<1>1. PICK index \in 1 .. max_components_ :
         /\ Assigned(batch, index)
         /\ active_component_' = index
         /\ current_' = LET best == components_'[index].best IN
                        IF best = NoCuts THEN current_ ELSE MoveToward(current_, best)
  BY DEF ObserveBatch
<1>2. /\ ppc' = "guided" /\ previous' = current_ /\ start_partition' = current_'
      /\ population' = population
  BY DEF ObserveBatch, geneVars
<1>3. MemoryInv /\ CutsInv
  BY DEF IInv
<1>4. /\ components_' \in Seq(Component)
      /\ \A i \in 1 .. Len(components_') :
            Len(components_'[i].queries) \in 1 .. component_query_limit_
      /\ Len(components_') <= max_components_
      /\ index \in 1 .. Len(components_')
  BY <1>1, <1>3, AssignedFacts
<1>5. MemoryInv'
  BY <1>1, <1>4 DEF MemoryInv
<1>6. components_'[index].best \in Cuts \cup {NoCuts}
  BY <1>4, ComponentFacts
<1>7. /\ current_' \in Cuts
      /\ \A l \in 0 .. kLockCnt : /\ current_'[l] - current_[l] <= max_cut_shift_per_batch_
                                  /\ current_[l] - current_'[l] <= max_cut_shift_per_batch_
  <2>1. current_ \in Cuts /\ max_cut_shift_per_batch_ \in Nat
    BY <1>3, PartitionerAssumption DEF CutsInv
  <2>2. CASE components_'[index].best = NoCuts
    <3>1. current_' = current_
      BY <1>1, <2>2
    <3>2. \A l \in 0 .. kLockCnt : current_[l] \in Int
      BY <2>1, CutsFacts
    <3> QED
      BY <2>1, <3>1, <3>2
  <2>3. CASE components_'[index].best # NoCuts
    <3>1. components_'[index].best \in Cuts
      BY <1>6, <2>3
    <3>2. current_' = MoveToward(current_, components_'[index].best)
      BY <1>1, <2>3
    <3> QED
      BY <2>1, <3>1, <3>2, MoveFacts
  <2> QED
    BY <2>2, <2>3
<1>8. CutsInv'
  BY <1>2, <1>3, <1>7 DEF CutsInv
<1>9. ShiftInv'
  <2>1. active_component_' # 0
    BY <1>1
  <2>2. Near(start_partition, max_cut_shift_per_batch_)'
    BY <1>2, <1>7 DEF Near
  <2> QED
    BY <1>2, <2>1, <2>2 DEF ShiftInv
<1>10. FitInv'
  BY <1>2 DEF FitInv
<1> QED
  BY <1>5, <1>8, <1>9, <1>10 DEF IInv

LEMMA NextInvariant == IInv /\ [Next]_vars => IInv'
<1> SUFFICES ASSUME IInv, [Next]_vars PROVE IInv'
  OBVIOUS
<1> USE DEF memoryVars, geneVars
<1>1. MemoryInv /\ CutsInv /\ ShiftInv /\ FitInv
  BY DEF IInv
<1>2. ASSUME active_component_ # 0
      PROVE  \A cuts \in Cuts : Fitness(cuts, active.queries) \in Nat
  <2>1. active.queries \in Seq(Queries)
    BY <1>1, <1>2, ComponentFacts DEF MemoryInv, active
  <2> QED
    BY <2>1, FitnessType
<1>3. ASSUME NEW batch \in Batches, ObserveBatch(batch) PROVE IInv'
  BY <1>3, ObserveBatchInvariant
<1>4. CASE ApplyGuided
  <2>1. PICK guided \in Cuts :
           /\ GuidedIsBetter(guided)
           /\ RememberBest(guided)
           /\ current_' = MoveToward(start_partition, guided)
    BY <1>4 DEF ApplyGuided
  <2>2. /\ ppc # "idle" /\ ppc' = "idle"
        /\ UNCHANGED <<active_component_, start_partition, previous, population>>
    BY <1>4 DEF ApplyGuided
  <2>3. active_component_ # 0 /\ current_ = start_partition
    BY <1>1, <2>2 DEF ShiftInv
  <2>4. /\ Fitness(guided, active.queries) \in Nat
        /\ Fitness(start_partition, active.queries) \in Nat
    BY <1>1, <1>2, <2>3 DEF CutsInv
  <2>5. Fitness(guided, active.queries) * 100 <= Fitness(start_partition, active.queries) * 98
    BY <2>1, <2>3 DEF GuidedIsBetter
  <2>6. Fitness(guided, active.queries) <= Fitness(start_partition, active.queries)
    BY <2>4, <2>5
  <2>7. population' \subseteq Cuts
    BY <1>1, <2>2 DEF CutsInv
  <2> QED
    BY <2>1, <2>2, <2>6, <2>7, TrainingEnds
<1>5. CASE RejectGuided
  <2>1. /\ ppc = "guided"
        /\ ppc' = IF generation_count_ = 0 THEN "idle" ELSE "seed"
        /\ UNCHANGED <<current_, memoryVars, start_partition, geneVars, previous>>
    BY <1>5 DEF RejectGuided
  <2>2. MemoryInv' /\ CutsInv'
    BY <1>1, <2>1 DEF MemoryInv, CutsInv
  <2>3. ShiftInv'
    <3>1. /\ active_component_ # 0 /\ current_ = start_partition
          /\ Near(start_partition, max_cut_shift_per_batch_)
      BY <1>1, <2>1 DEF ShiftInv
    <3>2. max_cut_shift_per_batch_ \in Nat
      BY PartitionerAssumption
    <3>3. \A l \in 0 .. kLockCnt : start_partition[l] \in Int /\ previous[l] \in Int
      BY <1>1, CutsFacts DEF CutsInv
    <3>4. Near(start_partition, 2 * max_cut_shift_per_batch_)
      BY <3>1, <3>2, <3>3 DEF Near
    <3> QED
      BY <2>1, <3>1, <3>4 DEF ShiftInv, Near
  <2>4. FitInv'
    <3>1. generation_count_ \in Nat
      BY PartitionerAssumption
    <3> QED
      BY <2>1, <3>1 DEF FitInv
  <2> QED
    BY <2>2, <2>3, <2>4 DEF IInv
<1>6. CASE SeedPopulation
  <2>1. /\ ppc = "seed" /\ ppc' = "evolve"
        /\ UNCHANGED <<current_, memoryVars, start_partition, previous>>
    BY <1>6 DEF SeedPopulation
  <2>2. population' \subseteq Cuts /\ current_ \in population'
    <3>1. PICK others \in [1 .. population_size_ - 1 -> Cuts] :
             population' = {current_} \cup Range(others)
      BY <1>6 DEF SeedPopulation
    <3>2. Range(others) \subseteq Cuts
      BY DEF Range
    <3> QED
      BY <1>1, <3>1, <3>2 DEF CutsInv
  <2>3. MemoryInv' /\ CutsInv'
    BY <1>1, <2>1, <2>2 DEF MemoryInv, CutsInv
  <2>4. ShiftInv'
    BY <1>1, <2>1 DEF ShiftInv, Near
  <2>5. FitInv'
    <3>1. current_ = start_partition /\ active_component_ # 0
      BY <1>1, <2>1 DEF ShiftInv
    <3>2. Fitness(start_partition, active.queries) \in Nat
      BY <1>1, <1>2, <3>1 DEF CutsInv
    <3>3. Fitness(current_, active.queries) <= Fitness(start_partition, active.queries)
      BY <3>1, <3>2
    <3>4. active' = active /\ start_partition' = start_partition
      BY <2>1 DEF active
    <3> QED
      BY <2>1, <2>2, <3>3, <3>4 DEF FitInv
  <2> QED
    BY <2>3, <2>4, <2>5 DEF IInv
<1>7. CASE NextGeneration
  <2>1. /\ ppc = "evolve" /\ ppc' = "evolve"
        /\ UNCHANGED <<current_, memoryVars, start_partition, previous>>
    BY <1>7 DEF NextGeneration
  <2>2. PICK elites \in SUBSET population :
           /\ elites # {}
           /\ \A elite \in elites, other \in population \ elites : Fitter(elite, other)
           /\ \E children \in [1 .. population_size_ - elite_count_ -> Children(elites)] :
                 population' = elites \cup Range(children)
    BY <1>7 DEF NextGeneration
  <2>3. population' \subseteq Cuts /\ elites \subseteq population'
    <3>1. PICK children \in [1 .. population_size_ - elite_count_ -> Children(elites)] :
             population' = elites \cup Range(children)
      BY <2>2
    <3>2. elites \subseteq Cuts
      BY <1>1 DEF CutsInv
    <3>3. Children(elites) \subseteq Cuts
      BY <3>2, ChildrenType
    <3>4. Range(children) \subseteq Children(elites)
      BY DEF Range
    <3> QED
      BY <3>1, <3>2, <3>3, <3>4
  <2>4. MemoryInv' /\ CutsInv'
    BY <1>1, <2>1, <2>3 DEF MemoryInv, CutsInv
  <2>5. ShiftInv'
    BY <1>1, <2>1 DEF ShiftInv, Near
  <2>6. FitInv'
    <3>1. PICK member \in population :
             Fitness(member, active.queries) <= Fitness(start_partition, active.queries)
      BY <1>1, <2>1 DEF FitInv
    <3>2. active' = active /\ start_partition' = start_partition
      BY <2>1 DEF active
    <3>3. CASE member \in elites
      BY <2>1, <2>3, <3>1, <3>2, <3>3 DEF FitInv
    <3>4. CASE member \notin elites
      <4>1. PICK elite \in elites : TRUE
        BY <2>2
      <4>2. Fitness(elite, active.queries) <= Fitness(member, active.queries)
        BY <2>2, <3>4 DEF Fitter
      <4>3. active_component_ # 0 /\ elite \in Cuts /\ member \in Cuts /\ start_partition \in Cuts
        BY <1>1, <2>1 DEF ShiftInv, CutsInv
      <4>4. /\ Fitness(elite, active.queries) \in Nat /\ Fitness(member, active.queries) \in Nat
            /\ Fitness(start_partition, active.queries) \in Nat
        BY <1>2, <4>3
      <4>5. Fitness(elite, active.queries) <= Fitness(start_partition, active.queries)
        BY <3>1, <4>2, <4>4
      <4> QED
        BY <2>1, <2>3, <3>2, <4>5 DEF FitInv
    <3> QED
      BY <3>3, <3>4
  <2> QED
    BY <2>4, <2>5, <2>6 DEF IInv
<1>8. CASE FinishTraining
  <2>1. PICK front \in population :
           /\ \A other \in population : Fitter(front, other)
           /\ RememberBest(front)
    BY <1>8 DEF FinishTraining
  <2>2. /\ ppc = "evolve" /\ ppc' = "idle" /\ population' = {}
        /\ current_' = MoveToward(start_partition, components_'[active_component_].best)
        /\ UNCHANGED <<active_component_, start_partition, previous>>
    BY <1>8 DEF FinishTraining
  <2>3. active_component_ # 0 /\ front \in Cuts /\ start_partition \in Cuts
    BY <1>1, <2>2 DEF ShiftInv, CutsInv
  <2>4. PICK member \in population :
           Fitness(member, active.queries) <= Fitness(start_partition, active.queries)
    BY <1>1, <2>2 DEF FitInv
  <2> DEFINE target == components_'[active_component_].best
  <2>5. target \in Cuts /\ Fitness(target, active.queries) <= Fitness(front, active.queries)
    BY <1>1, <2>1, <2>3, RememberFacts
  <2>6. /\ Fitness(front, active.queries) \in Nat /\ Fitness(member, active.queries) \in Nat
        /\ Fitness(target, active.queries) \in Nat
        /\ Fitness(start_partition, active.queries) \in Nat
    <3>1. member \in Cuts
      BY <1>1 DEF CutsInv
    <3> QED
      BY <1>2, <2>3, <2>5, <3>1
  <2>7. Fitness(front, active.queries) <= Fitness(member, active.queries)
    BY <2>1 DEF Fitter
  <2>8. /\ Fitness(front, active.queries) <= Fitness(start_partition, active.queries)
        /\ Fitness(target, active.queries) <= Fitness(start_partition, active.queries)
    BY <2>4, <2>5, <2>6, <2>7
  <2>9. population' \subseteq Cuts /\ ppc # "idle"
    BY <2>2
  <2>10. current_' = MoveToward(start_partition, target)
    BY <2>2
  <2> HIDE DEF target
  <2> QED
    BY <2>1, <2>2, <2>3, <2>5, <2>8, <2>9, <2>10, TrainingEnds
<1>9. CASE UNCHANGED vars
  <2>1. active' = active
    BY <1>9 DEF vars, active
  <2> QED
    BY <1>1, <1>9, <2>1
    DEF vars, IInv, MemoryInv, CutsInv, ShiftInv, FitInv, Near, TrainingNeverHurts
<1> QED
  BY <1>3, <1>4, <1>5, <1>6, <1>7, <1>8, <1>9 DEF Next

-----------------------------------------------------------------------------

(* The invariant holds in every state of ObserveBatch.                     *)
THEOREM InductiveInvariant == Spec => []IInv
  BY InitInvariant, NextInvariant, PTL DEF Spec

(* Whatever is repaired, crossed, mutated or moved, no partition is ever   *)
(* empty and all blocks are covered.                                       *)
THEOREM TypeCorrect == Spec => []TypeOK
<1>1. IInv => TypeOK
  <2> SUFFICES ASSUME IInv PROVE TypeOK
    OBVIOUS
  <2>1. MemoryInv /\ CutsInv
    BY DEF IInv
  <2>2. /\ DOMAIN components_ = 1 .. Len(components_)
        /\ \A index \in 1 .. Len(components_) : components_[index].best \in Cuts \cup {NoCuts}
    BY <2>1, ComponentFacts DEF MemoryInv
  <2> QED
    BY <2>1, <2>2 DEF TypeOK, MemoryInv, CutsInv
<1> QED
  BY <1>1, InductiveInvariant, PTL

(* MoveToward's bound: a batch moves no cut further than two shifts.       *)
THEOREM ShiftBounded == Spec => []ShiftPerBatch
<1>1. IInv => ShiftPerBatch
  BY DEF IInv, ShiftInv, Near, ShiftPerBatch
<1> QED
  BY <1>1, InductiveInvariant, PTL

(* What TrainOnActiveComponent remembers, and with the default shift       *)
(* installs, is at least as good for the component's queries as the cuts   *)
(* that were in use.                                                       *)
THEOREM TrainingHelps == Spec => []TrainingNeverHurts
<1>1. IInv => TrainingNeverHurts
  BY DEF IInv, FitInv, TrainingNeverHurts
<1> QED
  BY <1>1, InductiveInvariant, PTL

-----------------------------------------------------------------------------
(* DynamicLock's optimiser                                                 *)

(* A function defined from each place to the next exists.                  *)
IsRecursion(f, n, V, a, g) ==
    f \in [0 .. n -> V] /\ f[0] = a /\ \A i \in 1 .. n : f[i] = g[<<i, f[i - 1]>>]

LEMMA RecursionExists ==
    ASSUME NEW n \in Nat, NEW V, NEW a \in V, NEW g \in [(1 .. n) \X V -> V]
    PROVE  \E f : IsRecursion(f, n, V, a, g)
<1> DEFINE IsRec(f, m) == /\ f \in [0 .. m -> V] /\ f[0] = a
                          /\ \A i \in 1 .. m : f[i] = g[<<i, f[i - 1]>>]
           T == {m \in Nat : m <= n => \E f : IsRec(f, m)}
<1>1. 0 \in T
  <2>1. IsRec([i \in 0 .. 0 |-> a], 0)
    OBVIOUS
  <2> QED
    BY <2>1
<1>2. ASSUME NEW m \in T PROVE m + 1 \in T
  <2>1. m \in Nat /\ m + 1 \in Nat
    OBVIOUS
  <2> SUFFICES ASSUME m + 1 <= n PROVE \E f : IsRec(f, m + 1)
    BY <2>1
  <2>2. PICK f : IsRec(f, m)
    BY <2>1
  <2> DEFINE new == g[<<m + 1, f[m]>>]
             h == [i \in 0 .. m + 1 |-> IF i = m + 1 THEN new ELSE f[i]]
  <2>3. new \in V
    BY <2>1, <2>2
  <2>4. \A i \in 0 .. m : h[i] = f[i] /\ f[i] \in V
    BY <2>1, <2>2
  <2>5. h[m + 1] = new /\ h \in [0 .. m + 1 -> V]
    BY <2>1, <2>2, <2>3
  <2> HIDE DEF h
  <2>6. \A i \in 1 .. m + 1 : h[i] = g[<<i, h[i - 1]>>]
    <3> TAKE i \in 1 .. m + 1
    <3>1. CASE i = m + 1
      <4>1. i - 1 = m /\ m \in 0 .. m
        BY <2>1, <3>1
      <4> QED
        BY <2>4, <2>5, <3>1, <4>1
    <3>2. CASE i # m + 1
      <4>1. i \in 1 .. m /\ i \in 0 .. m /\ i - 1 \in 0 .. m
        BY <2>1, <3>2
      <4> QED
        BY <2>2, <2>4, <4>1
    <3> QED
      BY <3>1, <3>2
  <2>7. h[0] = a
    BY <2>1, <2>2, <2>4
  <2> QED
    BY <2>5, <2>6, <2>7
<1>3. n \in T
  <2> HIDE DEF T
  <2> QED
    BY <1>1, <1>2, SetInduction
<1> QED
  BY <1>3 DEF IsRecursion

(* The prefix sums of the hits never fall.                                 *)
LEMMA PrefixFacts ==
    ASSUME NEW stats \in [Blocks -> Nat]
    PROVE  /\ prefix_sum(stats) \in [0 .. kBlocks -> Nat]
           /\ \A lo, hi \in 0 .. kBlocks :
                 lo <= hi => prefix_sum(stats)[lo] <= prefix_sum(stats)[hi]
<1> DEFINE upd(f) == [i \in 0 .. kBlocks |-> IF i = 0 THEN 0 ELSE f[i - 1] + stats[i - 1]]
           sum == CHOOSE f : f = upd(f)
<1>1. kBlocks \in Nat /\ \A i \in 1 .. kBlocks : i - 1 \in Blocks /\ stats[i - 1] \in Nat
  BY SizeAssumption DEF Blocks
<1>2. prefix_sum(stats) = sum
  BY DEF prefix_sum
<1>3. \E f : f = upd(f)
  <2> DEFINE g == [p \in (1 .. kBlocks) \X Nat |-> p[2] + stats[p[1] - 1]]
  <2>1. \A i \in 1 .. kBlocks, v \in Nat : g[<<i, v>>] = v + stats[i - 1]
    OBVIOUS
  <2>2. g \in [(1 .. kBlocks) \X Nat -> Nat]
    BY <1>1
  <2> HIDE DEF g
  <2>7. PICK f : IsRecursion(f, kBlocks, Nat, 0, g)
    BY <1>1, <2>2, RecursionExists
  <2>3. /\ f \in [0 .. kBlocks -> Nat] /\ f[0] = 0
        /\ \A i \in 1 .. kBlocks : f[i] = g[<<i, f[i - 1]>>]
    BY <2>7 DEF IsRecursion
  <2>4. \A i \in 0 .. kBlocks : f[i] = IF i = 0 THEN 0 ELSE f[i - 1] + stats[i - 1]
    <3> TAKE i \in 0 .. kBlocks
    <3>1. CASE i = 0
      BY <2>3, <3>1
    <3>2. CASE i # 0
      <4>1. i \in 1 .. kBlocks /\ i - 1 \in 0 .. kBlocks
        BY <1>1, <3>2
      <4> QED
        BY <2>1, <2>3, <3>2, <4>1
    <3> QED
      BY <3>1, <3>2
  <2>5. f = [i \in 0 .. kBlocks |-> f[i]]
    BY <2>3
  <2>6. f = upd(f)
    BY <2>4, <2>5
  <2> QED
    BY <2>6
<1>4. sum = upd(sum)
  <2> HIDE DEF upd
  <2> QED
    BY <1>3
<1> HIDE DEF sum
<1>5. /\ \A i \in 0 .. kBlocks : sum[i] = IF i = 0 THEN 0 ELSE sum[i - 1] + stats[i - 1]
  BY <1>4
<1>6. sum = [i \in 0 .. kBlocks |-> sum[i]]
  BY <1>4
<1> DEFINE T == {m \in Nat : m <= kBlocks => sum[m] \in Nat}
<1>7. \A m \in Nat : m \in T
  <2>1. 0 \in T
    <3>1. sum[0] = 0
      BY <1>1, <1>5
    <3> QED
      BY <3>1
  <2>2. ASSUME NEW m \in T PROVE m + 1 \in T
    <3> SUFFICES ASSUME m + 1 <= kBlocks PROVE sum[m + 1] \in Nat
      OBVIOUS
    <3>1. m \in Nat /\ m + 1 \in 1 .. kBlocks /\ m + 1 \in 0 .. kBlocks /\ m + 1 # 0 /\ (m + 1) - 1 = m
      BY <1>1
    <3>2. sum[m] \in Nat
      BY <1>1, <3>1
    <3>3. sum[m + 1] = sum[m] + stats[m] /\ stats[m] \in Nat
      BY <1>1, <1>5, <3>1
    <3> QED
      BY <3>2, <3>3
  <2> HIDE DEF T
  <2> QED
    BY <2>1, <2>2, SetInduction
<1>8. \A i \in 0 .. kBlocks : sum[i] \in Nat
  BY <1>1, <1>7
<1>9. sum \in [0 .. kBlocks -> Nat]
  BY <1>6, <1>8
<1> DEFINE U == {d \in Nat : \A lo \in 0 .. kBlocks : lo + d <= kBlocks => sum[lo] <= sum[lo + d]}
<1>10. \A d \in Nat : d \in U
  <2>1. 0 \in U
    BY <1>1, <1>8
  <2>2. ASSUME NEW d \in U PROVE d + 1 \in U
    <3> SUFFICES ASSUME NEW lo \in 0 .. kBlocks, lo + (d + 1) <= kBlocks
                 PROVE  sum[lo] <= sum[lo + (d + 1)]
      OBVIOUS
    <3>1. /\ d \in Nat /\ lo + (d + 1) \in 1 .. kBlocks /\ lo + (d + 1) \in 0 .. kBlocks
          /\ (lo + (d + 1)) - 1 = lo + d /\ lo + d \in 0 .. kBlocks /\ lo + (d + 1) # 0
      BY <1>1
    <3>2. sum[lo] <= sum[lo + d]
      BY <3>1
    <3>3. sum[lo + (d + 1)] = sum[lo + d] + stats[lo + d] /\ stats[lo + d] \in Nat
      BY <1>1, <1>5, <3>1
    <3>4. sum[lo] \in Nat /\ sum[lo + d] \in Nat
      BY <1>8, <3>1
    <3> QED
      BY <3>2, <3>3, <3>4
  <2> HIDE DEF U
  <2> QED
    BY <2>1, <2>2, SetInduction
<1>11. \A lo, hi \in 0 .. kBlocks : lo <= hi => sum[lo] <= sum[hi]
  <2> TAKE lo, hi \in 0 .. kBlocks
  <2> HAVE lo <= hi
  <2>1. hi - lo \in Nat /\ lo + (hi - lo) = hi /\ lo + (hi - lo) <= kBlocks
    BY <1>1
  <2> QED
    BY <1>10, <2>1
<1> QED
  BY <1>2, <1>9, <1>11

(* The statistics of DynamicLock and their prefix sums.                    *)
IsStatistics(stats, crossings) == stats \in [Blocks -> Nat] /\ crossings \in [Blocks -> Nat]

LEMMA PieceCostType ==
    ASSUME NEW stats, NEW crossings, IsStatistics(stats, crossings),
           NEW lo \in 0 .. kBlocks, NEW hi \in 0 .. kBlocks, lo < hi
    PROVE  PieceCost(prefix_sum(stats), crossings, lo, hi) \in Nat
<1> DEFINE prefix == prefix_sum(stats)
           weight == prefix[hi] - prefix[lo]
<1>1. prefix[lo] \in Nat /\ prefix[hi] \in Nat /\ prefix[lo] <= prefix[hi]
  <2>1. stats \in [Blocks -> Nat]
    BY DEF IsStatistics
  <2>2. /\ prefix \in [0 .. kBlocks -> Nat]
        /\ \A l, h \in 0 .. kBlocks : l <= h => prefix[l] <= prefix[h]
    BY <2>1, PrefixFacts
  <2> HIDE DEF prefix
  <2>3. lo <= hi
    BY SizeAssumption
  <2> QED
    BY <2>2, <2>3
<1>2. weight \in Nat
  BY <1>1
<1>3. kBoundaryCrossingPenalty \in Nat /\ kBlocks \in Nat
  BY StatsAssumption, SizeAssumption
<1>4. crossings[lo] \in Nat
  BY <1>3 DEF IsStatistics, Blocks
<1> HIDE DEF weight
<1>5. weight * weight \in Nat /\ kBoundaryCrossingPenalty * crossings[lo] \in Nat
  BY <1>2, <1>3, <1>4
<1> QED
  BY <1>5 DEF PieceCost, weight

(* The entries of the table, row by row: row is that of one lock less.     *)
Entries == [cost : Nat, split : 0 .. kBlocks]
Rows    == [0 .. kBlocks -> Entries]

Candidate(row, prefix, crossings, lo, hi) ==
    row[lo].cost + PieceCost(prefix, crossings, lo, hi)

Entry(row, prefix, crossings, hi, locks) ==
    IF locks = 0 \/ LeftEnds(hi, locks) = {}
    THEN [cost |-> 0, split |-> 0]
    ELSE LET best == Min({Candidate(row, prefix, crossings, lo, hi) :
                             lo \in LeftEnds(hi, locks)})
         IN  [cost |-> best,
              split |-> Min({lo \in LeftEnds(hi, locks) :
                                Candidate(row, prefix, crossings, lo, hi) = best})]

(* The least element of a nonempty set of numbers.                         *)
LEMMA MinFacts ==
    ASSUME NEW T \in SUBSET Nat, T # {}
    PROVE  Min(T) \in T /\ \A y \in T : Min(T) <= y
<1>1. \E x \in T : \A y \in T : x <= y
  BY LeastElement
<1> QED
  BY <1>1 DEF Min

(* An entry is the least of its candidates, and says which.                *)
LEMMA EntryFacts ==
    ASSUME NEW stats, NEW crossings, IsStatistics(stats, crossings),
           NEW row \in Rows, NEW hi \in 0 .. kBlocks, NEW locks \in Nat
    PROVE  LET e == Entry(row, prefix_sum(stats), crossings, hi, locks)
               c(lo) == Candidate(row, prefix_sum(stats), crossings, lo, hi)
           IN  /\ e \in Entries
               /\ locks # 0 /\ LeftEnds(hi, locks) # {} =>
                     /\ e.split \in LeftEnds(hi, locks)
                     /\ e.cost = c(e.split)
                     /\ \A lo \in LeftEnds(hi, locks) : e.cost <= c(lo)
<1> DEFINE e == Entry(row, prefix_sum(stats), crossings, hi, locks)
           c(lo) == Candidate(row, prefix_sum(stats), crossings, lo, hi)
           L == LeftEnds(hi, locks)
<1>1. kBlocks \in Nat
  BY SizeAssumption
<1>2. CASE locks = 0 \/ L = {}
  <2>1. e = [cost |-> 0, split |-> 0]
    BY <1>2 DEF Entry
  <2> QED
    BY <1>1, <1>2, <2>1 DEF Entries
<1>3. CASE ~(locks = 0 \/ L = {})
  <2>1. \A lo \in L : lo \in 0 .. kBlocks /\ lo \in Nat /\ lo < hi
    BY <1>1 DEF LeftEnds
  <2>2. \A lo \in L : c(lo) \in Nat
    <3> TAKE lo \in L
    <3>1. row[lo] \in Entries
      BY <2>1 DEF Rows
    <3>2. row[lo].cost \in Nat
      BY <3>1 DEF Entries
    <3>3. PieceCost(prefix_sum(stats), crossings, lo, hi) \in Nat
      BY <2>1, PieceCostType
    <3> QED
      BY <3>2, <3>3 DEF Candidate
  <2> DEFINE all == {c(lo) : lo \in L}
             best == Min(all)
             ends == {lo \in L : c(lo) = best}
  <2>3. e = [cost |-> best, split |-> Min(ends)]
    BY <1>3 DEF Entry
  <2> HIDE DEF c, L
  <2>4. all \in SUBSET Nat /\ all # {}
    BY <1>3, <2>2
  <2>5. best \in all /\ \A y \in all : best <= y
    <3> HIDE DEF all
    <3> QED
      BY <2>4, MinFacts
  <2>6. ends \in SUBSET Nat /\ ends # {}
    <3> HIDE DEF best
    <3> QED
      BY <2>1, <2>5
  <2>7. Min(ends) \in ends
    <3> HIDE DEF ends
    <3> QED
      BY <2>6, MinFacts
  <2> HIDE DEF best
  <2>8. /\ best \in Nat /\ \A lo \in L : best <= c(lo)
    BY <2>4, <2>5
  <2> DEFINE split == Min(ends)
  <2>9. split \in L /\ c(split) = best
    BY <2>7
  <2> HIDE DEF split
  <2>10. e.cost = best /\ e.split = split /\ e = [cost |-> best, split |-> split]
    BY <2>3 DEF split
  <2> HIDE DEF e
  <2>11. e \in Entries
    BY <2>1, <2>8, <2>9, <2>10 DEF Entries
  <2>12. /\ e.split \in L /\ e.cost = c(e.split)
         /\ \A lo \in L : e.cost <= c(lo)
    BY <2>8, <2>9, <2>10
  <2> QED
    BY <2>11, <2>12 DEF e, c, L
<1> QED
  BY <1>2, <1>3

(* The table that OptimizePartitions fills.                                *)
LEMMA BestSplitsFacts ==
    ASSUME NEW stats, NEW crossings, IsStatistics(stats, crossings)
    PROVE  LET dp == BestSplits(stats, crossings)
           IN  /\ dp \in [0 .. kLockCnt -> Rows]
               /\ \A hi \in 0 .. kBlocks : dp[0][hi].cost = 0
               /\ \A locks \in 1 .. kLockCnt, hi \in 0 .. kBlocks :
                     dp[locks][hi] = Entry(dp[locks - 1], prefix_sum(stats), crossings,
                                              hi, locks)
<1> DEFINE E(row, hi, locks) == Entry(row, prefix_sum(stats), crossings, hi, locks)
           R(row, locks) == [hi \in 0 .. kBlocks |-> E(row, hi, locks)]
           upd(f) == [locks \in 0 .. kLockCnt |-> R(f[locks - 1], locks)]
           dp == CHOOSE f : f = upd(f)
<1>1. kLockCnt \in Nat /\ kBlocks \in Nat
  BY SizeAssumption
<1>2. BestSplits(stats, crossings) = dp
  BY DEF BestSplits, Entry, Candidate
<1>3. \A row \in Rows, locks \in Nat : R(row, locks) \in Rows
  <2> TAKE row \in Rows, locks \in Nat
  <2>1. \A hi \in 0 .. kBlocks : E(row, hi, locks) \in Entries
    BY EntryFacts
  <2> HIDE DEF E
  <2> QED
    BY <2>1 DEF Rows
<1> DEFINE zero == [hi \in 0 .. kBlocks |-> [cost |-> 0, split |-> 0]]
<1>4. zero \in Rows
  <2>1. [cost |-> 0, split |-> 0] \in Entries
    BY <1>1 DEF Entries
  <2> QED
    BY <2>1 DEF Rows
<1>5. \A row : R(row, 0) = zero
  BY DEF Entry
<1> HIDE DEF R, zero
<1>6. \E f : f = upd(f)
  <2> DEFINE g == [p \in (1 .. kLockCnt) \X Rows |-> R(p[2], p[1])]
  <2>1. \A i \in 1 .. kLockCnt, row \in Rows : g[<<i, row>>] = R(row, i)
    OBVIOUS
  <2>2. g \in [(1 .. kLockCnt) \X Rows -> Rows]
    <3>1. \A p \in (1 .. kLockCnt) \X Rows : p[1] \in Nat /\ p[2] \in Rows
      BY <1>1
    <3> QED
      BY <1>3, <3>1
  <2> HIDE DEF g
  <2>3. PICK f : IsRecursion(f, kLockCnt, Rows, zero, g)
    BY <1>1, <1>4, <2>2, RecursionExists
  <2>4. /\ f \in [0 .. kLockCnt -> Rows] /\ f[0] = zero
        /\ \A i \in 1 .. kLockCnt : f[i] = g[<<i, f[i - 1]>>]
    BY <2>3 DEF IsRecursion
  <2>5. \A i \in 0 .. kLockCnt : f[i] = R(f[i - 1], i)
    <3> TAKE i \in 0 .. kLockCnt
    <3>1. CASE i = 0
      BY <1>5, <2>4, <3>1
    <3>2. CASE i # 0
      <4>1. i \in 1 .. kLockCnt /\ i - 1 \in 0 .. kLockCnt
        BY <1>1, <3>2
      <4> QED
        BY <2>1, <2>4, <4>1
    <3> QED
      BY <3>1, <3>2
  <2>6. f = [i \in 0 .. kLockCnt |-> f[i]]
    BY <2>4
  <2>7. f = upd(f)
    BY <2>5, <2>6
  <2> QED
    BY <2>7
<1>7. dp = upd(dp)
  <2> HIDE DEF upd
  <2> QED
    BY <1>6
<1> HIDE DEF dp
<1>8. \A locks \in 0 .. kLockCnt : dp[locks] = R(dp[locks - 1], locks)
  BY <1>7
<1>9. dp = [locks \in 0 .. kLockCnt |-> dp[locks]]
  BY <1>7
<1>10. dp[0] = zero
  BY <1>1, <1>5, <1>8
<1> DEFINE T == {m \in Nat : m <= kLockCnt => dp[m] \in Rows}
<1>11. \A m \in Nat : m \in T
  <2>1. 0 \in T
    BY <1>4, <1>10
  <2>2. ASSUME NEW m \in T PROVE m + 1 \in T
    <3> SUFFICES ASSUME m + 1 <= kLockCnt PROVE dp[m + 1] \in Rows
      OBVIOUS
    <3>1. m \in Nat /\ m + 1 \in Nat /\ m + 1 \in 0 .. kLockCnt /\ (m + 1) - 1 = m /\ m <= kLockCnt
      BY <1>1
    <3>2. dp[m] \in Rows
      BY <3>1
    <3> QED
      BY <1>3, <1>8, <3>1, <3>2
  <2> HIDE DEF T
  <2> QED
    BY <2>1, <2>2, SetInduction
<1>12. dp \in [0 .. kLockCnt -> Rows]
  BY <1>1, <1>9, <1>11
<1>13. \A hi \in 0 .. kBlocks : dp[0][hi].cost = 0
  BY <1>10 DEF zero
<1>14. \A locks \in 1 .. kLockCnt, hi \in 0 .. kBlocks :
          dp[locks][hi] = E(dp[locks - 1], hi, locks)
  <2> TAKE locks \in 1 .. kLockCnt, hi \in 0 .. kBlocks
  <2>1. dp[locks] = R(dp[locks - 1], locks)
    BY <1>1, <1>8
  <2> QED
    BY <2>1 DEF R
<1> QED
  BY <1>2, <1>12, <1>13, <1>14

(* Where the innermost loop finds something: the first hi blocks can be    *)
(* divided into locks nonempty partitions.                                 *)
LEMMA LeftEndsFacts ==
    ASSUME NEW hi \in 0 .. kBlocks, NEW locks \in 1 .. kLockCnt
    PROVE  /\ \A lo \in LeftEnds(hi, locks) :
                 /\ lo \in 0 .. kBlocks /\ lo < hi /\ lo >= locks - 1
                 /\ locks = 1 => lo = 0
           /\ hi >= locks => LeftEnds(hi, locks) # {}
           /\ \A lo \in 0 .. kBlocks :
                 lo < hi /\ lo >= locks - 1 /\ (locks = 1 => lo = 0)
                    => lo \in LeftEnds(hi, locks)
<1>1. kLockCnt \in Nat /\ kBlocks \in Nat
  BY SizeAssumption
<1>2. hi >= locks => (IF locks = 1 THEN 0 ELSE locks - 1) \in LeftEnds(hi, locks)
  BY <1>1 DEF LeftEnds
<1>3. \A lo \in LeftEnds(hi, locks) :
         /\ lo \in 0 .. kBlocks /\ lo < hi /\ lo >= locks - 1
         /\ locks = 1 => lo = 0
  BY <1>1 DEF LeftEnds
<1>4. \A lo \in 0 .. kBlocks :
         lo < hi /\ lo >= locks - 1 /\ (locks = 1 => lo = 0)
            => lo \in LeftEnds(hi, locks)
  BY <1>1 DEF LeftEnds
<1> QED
  BY <1>2, <1>3, <1>4

(* The partitioning read off the table, from the last lock to the first.   *)
LEMMA OptimizeFacts ==
    ASSUME NEW stats, NEW crossings, IsStatistics(stats, crossings)
    PROVE  LET dp == BestSplits(stats, crossings)
               found == OptimizePartitions(stats, crossings)
           IN  /\ found \in [0 .. kLockCnt -> 0 .. kBlocks]
               /\ found[kLockCnt] = kBlocks
               /\ \A l \in Locks : found[l] = dp[l + 1][found[l + 1]].split
<1> DEFINE dp == BestSplits(stats, crossings)
           upd(f) == [l \in 0 .. kLockCnt |-> IF l = kLockCnt THEN kBlocks
                                              ELSE dp[l + 1][f[l + 1]].split]
           found == CHOOSE f : f = upd(f)
           V == 0 .. kBlocks
<1>1. kLockCnt \in Nat \ {0} /\ kBlocks \in Nat /\ kBlocks \in V
  BY SizeAssumption
<1>2. OptimizePartitions(stats, crossings) = found
  BY DEF OptimizePartitions
<1>3. dp \in [0 .. kLockCnt -> Rows]
  BY BestSplitsFacts
<1> HIDE DEF dp
<1>4. \A locks \in 0 .. kLockCnt, hi \in V : dp[locks][hi].split \in V
  <2> TAKE locks \in 0 .. kLockCnt, hi \in V
  <2>1. dp[locks] \in Rows
    BY <1>3
  <2>2. dp[locks][hi] \in Entries
    BY <2>1 DEF Rows
  <2> QED
    BY <2>2 DEF Entries
<1> HIDE DEF V
<1>5. \E f : f = upd(f)
  <2> DEFINE g == [p \in (1 .. kLockCnt) \X V |-> dp[kLockCnt + 1 - p[1]][p[2]].split]
  <2>1. \A i \in 1 .. kLockCnt, v \in V : g[<<i, v>>] = dp[kLockCnt + 1 - i][v].split
    OBVIOUS
  <2>2. g \in [(1 .. kLockCnt) \X V -> V]
    <3>1. \A p \in (1 .. kLockCnt) \X V : kLockCnt + 1 - p[1] \in 0 .. kLockCnt /\ p[2] \in V
      BY <1>1
    <3> QED
      BY <1>4, <3>1
  <2> HIDE DEF g
  <2>3. PICK r : IsRecursion(r, kLockCnt, V, kBlocks, g)
    BY <1>1, <2>2, RecursionExists
  <2>4. /\ r \in [0 .. kLockCnt -> V] /\ r[0] = kBlocks
        /\ \A i \in 1 .. kLockCnt : r[i] = g[<<i, r[i - 1]>>]
    BY <2>3 DEF IsRecursion
  <2> DEFINE f == [l \in 0 .. kLockCnt |-> r[kLockCnt - l]]
  <2>5. \A l \in 0 .. kLockCnt : f[l] = r[kLockCnt - l]
    OBVIOUS
  <2>6. f = [l \in 0 .. kLockCnt |-> f[l]]
    OBVIOUS
  <2> HIDE DEF f
  <2>7. \A l \in 0 .. kLockCnt : f[l] = IF l = kLockCnt THEN kBlocks
                                        ELSE dp[l + 1][f[l + 1]].split
    <3> TAKE l \in 0 .. kLockCnt
    <3>1. CASE l = kLockCnt
      <4>1. kLockCnt - l = 0
        BY <1>1, <3>1
      <4> QED
        BY <2>4, <2>5, <3>1, <4>1
    <3>2. CASE l # kLockCnt
      <4> DEFINE i == kLockCnt - l
      <4>1. /\ i \in 1 .. kLockCnt /\ i - 1 \in 0 .. kLockCnt /\ l + 1 \in 0 .. kLockCnt
            /\ i - 1 = kLockCnt - (l + 1) /\ kLockCnt + 1 - i = l + 1
        BY <1>1, <3>2
      <4>2. f[l] = r[i] /\ f[l + 1] = r[i - 1]
        BY <2>5, <4>1
      <4> HIDE DEF i
      <4>3. r[i] = g[<<i, r[i - 1]>>] /\ r[i - 1] \in V
        BY <2>4, <4>1
      <4>4. r[i] = dp[l + 1][r[i - 1]].split
        BY <2>1, <4>1, <4>3
      <4> QED
        BY <3>2, <4>2, <4>4
    <3> QED
      BY <3>1, <3>2
  <2>8. f = upd(f)
    BY <2>6, <2>7
  <2> QED
    BY <2>8
<1>6. found = upd(found)
  <2> HIDE DEF upd
  <2> QED
    BY <1>5
<1> HIDE DEF found
<1>7. \A l \in 0 .. kLockCnt : found[l] = IF l = kLockCnt THEN kBlocks
                                          ELSE dp[l + 1][found[l + 1]].split
  BY <1>6
<1>8. found = [l \in 0 .. kLockCnt |-> found[l]]
  BY <1>6
<1>9. found[kLockCnt] = kBlocks
  BY <1>1, <1>7
<1>10. \A l \in Locks : found[l] = dp[l + 1][found[l + 1]].split
  BY <1>1, <1>7 DEF Locks
<1> DEFINE T == {m \in Nat : m <= kLockCnt => found[kLockCnt - m] \in V}
<1>11. \A m \in Nat : m \in T
  <2>1. 0 \in T
    BY <1>1, <1>9
  <2>2. ASSUME NEW m \in T PROVE m + 1 \in T
    <3> SUFFICES ASSUME m + 1 <= kLockCnt PROVE found[kLockCnt - (m + 1)] \in V
      OBVIOUS
    <3> DEFINE l == kLockCnt - (m + 1)
    <3>1. m \in Nat /\ l \in Locks /\ l + 1 = kLockCnt - m /\ l + 1 \in 0 .. kLockCnt /\ m <= kLockCnt
      BY <1>1 DEF Locks
    <3>2. found[kLockCnt - m] \in V
      BY <3>1
    <3>3. found[l + 1] \in V
      BY <3>1, <3>2
    <3> HIDE DEF l
    <3>4. found[l] \in V
      BY <1>4, <1>10, <3>1, <3>3
    <3> QED
      BY <3>4 DEF l
  <2> HIDE DEF T
  <2> QED
    BY <2>1, <2>2, SetInduction
<1>12. \A l \in 0 .. kLockCnt : found[l] \in V
  <2> TAKE l \in 0 .. kLockCnt
  <2>1. kLockCnt - l \in Nat /\ kLockCnt - l <= kLockCnt /\ kLockCnt - (kLockCnt - l) = l
    BY <1>1
  <2>2. kLockCnt - l \in T
    <3> HIDE DEF T
    <3> QED
      BY <1>11, <2>1
  <2> QED
    BY <2>1, <2>2
<1>13. found \in [0 .. kLockCnt -> V]
  BY <1>8, <1>12
<1> QED
  BY <1>2, <1>9, <1>10, <1>13 DEF dp, V

(* It has no empty partition.                                              *)
LEMMA OptimizeYieldsCuts ==
    ASSUME NEW stats, NEW crossings, IsStatistics(stats, crossings)
    PROVE  /\ OptimizePartitions(stats, crossings) \in Cuts
           /\ \A l \in Locks : OptimizePartitions(stats, crossings)[l]
                 \in LeftEnds(OptimizePartitions(stats, crossings)[l + 1], l + 1)
<1> DEFINE dp == BestSplits(stats, crossings)
           found == OptimizePartitions(stats, crossings)
<1>1. kLockCnt \in Nat \ {0} /\ kBlocks \in Nat /\ kLockCnt <= kBlocks
  BY SizeAssumption
<1>2. /\ found \in [0 .. kLockCnt -> 0 .. kBlocks]
      /\ found[kLockCnt] = kBlocks
      /\ \A l \in Locks : found[l] = dp[l + 1][found[l + 1]].split
  BY OptimizeFacts
<1>3. /\ dp \in [0 .. kLockCnt -> Rows]
      /\ \A locks \in 1 .. kLockCnt, hi \in 0 .. kBlocks :
            dp[locks][hi] = Entry(dp[locks - 1], prefix_sum(stats), crossings, hi, locks)
  BY BestSplitsFacts
<1> HIDE DEF dp, found
<1>4. ASSUME NEW l \in Locks, found[l + 1] >= l + 1
      PROVE  found[l] \in LeftEnds(found[l + 1], l + 1)
  <2>1. /\ l + 1 \in 1 .. kLockCnt /\ (l + 1) - 1 = l /\ l \in 0 .. kLockCnt /\ l + 1 \in Nat
        /\ l + 1 # 0 /\ l + 1 \in 0 .. kLockCnt
    BY <1>1 DEF Locks
  <2>2. found[l + 1] \in 0 .. kBlocks /\ dp[l] \in Rows
    BY <1>2, <1>3, <2>1
  <2>3. LeftEnds(found[l + 1], l + 1) # {}
    BY <1>4, <2>1, <2>2, LeftEndsFacts
  <2>4. dp[l + 1][found[l + 1]]
          = Entry(dp[l], prefix_sum(stats), crossings, found[l + 1], l + 1)
    BY <1>3, <2>1, <2>2
  <2>5. Entry(dp[l], prefix_sum(stats), crossings, found[l + 1], l + 1).split
          \in LeftEnds(found[l + 1], l + 1)
    BY <2>1, <2>2, <2>3, EntryFacts
  <2> QED
    BY <1>2, <2>4, <2>5
<1> DEFINE T == {m \in Nat : m <= kLockCnt => found[kLockCnt - m] >= kLockCnt - m}
<1>5. \A m \in Nat : m \in T
  <2>1. 0 \in T
    BY <1>1, <1>2
  <2>2. ASSUME NEW m \in T PROVE m + 1 \in T
    <3> SUFFICES ASSUME m + 1 <= kLockCnt PROVE found[kLockCnt - (m + 1)] >= kLockCnt - (m + 1)
      OBVIOUS
    <3> DEFINE l == kLockCnt - (m + 1)
    <3>1. /\ m \in Nat /\ l \in Locks /\ l + 1 = kLockCnt - m /\ m <= kLockCnt
          /\ l + 1 \in 0 .. kLockCnt /\ l + 1 \in 1 .. kLockCnt /\ (l + 1) - 1 = l
      BY <1>1 DEF Locks
    <3>2. found[kLockCnt - m] >= kLockCnt - m
      BY <3>1
    <3>3. found[l + 1] >= l + 1 /\ found[l + 1] \in 0 .. kBlocks
      BY <1>2, <3>1, <3>2
    <3> HIDE DEF l
    <3>4. found[l] >= l
      BY <1>4, <3>1, <3>3, LeftEndsFacts
    <3> QED
      BY <3>4 DEF l
  <2> HIDE DEF T
  <2> QED
    BY <2>1, <2>2, SetInduction
<1>6. \A l \in 0 .. kLockCnt : found[l] >= l
  <2> TAKE l \in 0 .. kLockCnt
  <2>1. kLockCnt - l \in Nat /\ kLockCnt - l <= kLockCnt /\ kLockCnt - (kLockCnt - l) = l
    BY <1>1
  <2>2. kLockCnt - l \in T
    <3> HIDE DEF T
    <3> QED
      BY <1>5, <2>1
  <2> QED
    BY <2>1, <2>2
<1>7. ASSUME NEW l \in Locks
      PROVE  /\ found[l] \in LeftEnds(found[l + 1], l + 1)
             /\ found[l] < found[l + 1] /\ (l = 0 => found[l] = 0)
  <2>1. l + 1 \in 0 .. kLockCnt /\ l + 1 \in 1 .. kLockCnt
    BY <1>1 DEF Locks
  <2>2. found[l + 1] >= l + 1 /\ found[l + 1] \in 0 .. kBlocks
    BY <1>2, <1>6, <2>1
  <2>3. found[l] \in LeftEnds(found[l + 1], l + 1)
    BY <1>4, <2>2
  <2>4. l = 0 => l + 1 = 1
    OBVIOUS
  <2> QED
    BY <2>1, <2>2, <2>3, <2>4, LeftEndsFacts
<1>8. found \in [0 .. kLockCnt -> Int] /\ \A l \in 0 .. kLockCnt : found[l] \in Int
  BY <1>1, <1>2
<1>9. \A i \in 0 .. kLockCnt : i # 0 => found[i] >= found[i - 1] + 1
  <2> TAKE i \in 0 .. kLockCnt
  <2> HAVE i # 0
  <2>1. i - 1 \in Locks /\ (i - 1) + 1 = i /\ i - 1 \in 0 .. kLockCnt
    BY <1>1 DEF Locks
  <2>2. found[i - 1] < found[i]
    BY <1>7, <2>1
  <2> QED
    BY <1>8, <2>1, <2>2
<1>10. \A l, m \in 0 .. kLockCnt : l <= m => found[m] - found[l] >= m - l
  <2>1. 0 \in Int /\ kLockCnt \in Int
    BY <1>1
  <2> QED
    BY <2>1, <1>8, <1>9, StepsGrow, Zenon
<1>11. \A l, m \in 0 .. kLockCnt : l < m => found[l] < found[m]
  <2> TAKE l, m \in 0 .. kLockCnt
  <2> HAVE l < m
  <2>1. found[m] - found[l] >= m - l
    BY <1>1, <1>10
  <2> QED
    BY <1>1, <1>8, <2>1
<1>12. found[0] = 0
  <2>1. 0 \in Locks
    BY <1>1 DEF Locks
  <2> QED
    BY <1>7, <2>1
<1>13. found \in Cuts
  BY <1>2, <1>11, <1>12 DEF Cuts
<1> QED
  BY <1>7, <1>13 DEF found

(* PartitionCost adds up the partitions' costs; c is the cost of the first *)
(* so many of them.                                                        *)
LEMMA PartitionCostFacts ==
    ASSUME NEW stats, NEW crossings, IsStatistics(stats, crossings), NEW cuts \in Cuts
    PROVE  \E c \in [0 .. kLockCnt -> Nat] :
              /\ c[0] = 0 /\ c[kLockCnt] = PartitionCost(cuts, stats, crossings)
              /\ \A l \in Locks :
                    /\ PieceCost(prefix_sum(stats), crossings, cuts[l], cuts[l + 1]) \in Nat
                    /\ c[l + 1] = c[l] + PieceCost(prefix_sum(stats), crossings,
                                                   cuts[l], cuts[l + 1])
<1> DEFINE piece(l) == PieceCost(prefix_sum(stats), crossings, cuts[l], cuts[l + 1])
           u == [l \in Locks |-> piece(l)]
           G(f) == [s \in SUBSET Locks |->
                      IF s = {} THEN 0
                      ELSE piece(CHOOSE x \in s : TRUE) + f[s \ {CHOOSE x \in s : TRUE}]]
           w == [s \in SUBSET Locks |-> piece(CHOOSE x \in s : TRUE)]
           H(f) == [s \in SUBSET Locks |->
                      IF s = {} THEN 0 ELSE w[s] + f[s \ {CHOOSE x \in s : TRUE}]]
           h == CHOOSE f : f = G(f)
<1>1. kLockCnt \in Nat \ {0} /\ kBlocks \in Nat
  BY SizeAssumption
<1>2. PartitionCost(cuts, stats, crossings) = h[Locks]
  BY DEF PartitionCost, MapThenSumSet, MapThenFoldSet
<1>3. \A l \in Locks : piece(l) \in Nat
  <2> TAKE l \in Locks
  <2>1. l \in 0 .. kLockCnt /\ l + 1 \in 0 .. kLockCnt /\ l < l + 1
    BY <1>1 DEF Locks
  <2>2. cuts[l] \in 0 .. kBlocks /\ cuts[l + 1] \in 0 .. kBlocks /\ cuts[l] < cuts[l + 1]
    BY <2>1 DEF Cuts
  <2> QED
    BY <2>2, PieceCostType
<1> HIDE DEF piece
<1>4. IsFiniteSet(Locks)
  BY <1>1, FS_Interval DEF Locks
<1>5. \A s \in SUBSET Locks : w[s] = piece(CHOOSE x \in s : TRUE)
  OBVIOUS
<1> HIDE DEF w
<1>6. \A f : G(f) = H(f)
  BY <1>5
<1>7. \E f : f = G(f)
  <2>1. PICK f : IsSum(f, Locks, w)
    BY <1>4, SumExists
  <2>2. f = H(f)
    BY <2>1 DEF IsSum
  <2> HIDE DEF G, H
  <2> QED
    BY <1>6, <2>2
<1>8. h = G(h)
  <2> HIDE DEF G
  <2> QED
    BY <1>7
<1> HIDE DEF h
<1>9. \A s \in SUBSET Locks :
         h[s] = IF s = {} THEN 0
                ELSE piece(CHOOSE x \in s : TRUE) + h[s \ {CHOOSE x \in s : TRUE}]
  BY <1>8
<1>10. \A x \in Locks : u[x] = piece(x) /\ u[x] \in Nat
  BY <1>3
<1> HIDE DEF u
<1>11. \A s \in SUBSET Locks :
         h[s] = IF s = {} THEN 0
                ELSE u[CHOOSE x \in s : TRUE] + h[s \ {CHOOSE x \in s : TRUE}]
  <2> TAKE s \in SUBSET Locks
  <2>1. s # {} => (CHOOSE x \in s : TRUE) \in Locks
    OBVIOUS
  <2> QED
    BY <1>9, <1>10, <2>1
<1>12. \A s \in SUBSET Locks : h[s] \in Nat /\ \A x \in s : h[s] = u[x] + h[s \ {x}]
  <2>1. AddsUp(h, Locks, u)
    BY <1>10, <1>11 DEF AddsUp
  <2>2. AddsUpInAnyOrder(h, Locks, u)
    BY <1>4, <2>1, SumStep
  <2> QED
    BY <2>2 DEF AddsUpInAnyOrder
<1> DEFINE c == [m \in 0 .. kLockCnt |-> h[0 .. m - 1]]
<1>13. \A m \in 0 .. kLockCnt : 0 .. m - 1 \in SUBSET Locks
  BY <1>1 DEF Locks
<1>14. \A m \in 0 .. kLockCnt : c[m] = h[0 .. m - 1] /\ c[m] \in Nat
  BY <1>12, <1>13
<1>15. c \in [0 .. kLockCnt -> Nat]
  BY <1>14
<1> HIDE DEF c
<1>16. c[0] = 0
  <2>1. 0 .. 0 - 1 = {} /\ {} \in SUBSET Locks
    OBVIOUS
  <2>2. h[{}] = 0
    BY <1>11, <2>1
  <2> QED
    BY <1>1, <1>14, <2>1, <2>2
<1>17. c[kLockCnt] = PartitionCost(cuts, stats, crossings)
  BY <1>1, <1>2, <1>14 DEF Locks
<1>18. \A l \in Locks : c[l + 1] = c[l] + piece(l)
  <2> TAKE l \in Locks
  <2>1. /\ l \in 0 .. kLockCnt /\ l + 1 \in 0 .. kLockCnt
        /\ (l + 1) - 1 = l /\ l \in 0 .. l /\ (0 .. l) \ {l} = 0 .. l - 1
    BY <1>1 DEF Locks
  <2>2. c[l] = h[0 .. l - 1] /\ c[l + 1] = h[0 .. l] /\ c[l] \in Nat /\ 0 .. l \in SUBSET Locks
    BY <1>13, <1>14, <2>1
  <2>3. h[0 .. l] = u[l] + h[(0 .. l) \ {l}]
    BY <1>12, <2>1, <2>2
  <2>4. c[l + 1] = piece(l) + c[l] /\ piece(l) \in Nat
    BY <1>3, <1>10, <2>1, <2>2, <2>3
  <2> QED
    BY <2>2, <2>4
<1>19. \A l \in Locks : piece(l) \in Nat /\ c[l + 1] = c[l] + piece(l)
  BY <1>3, <1>18
<1> QED
  BY <1>15, <1>16, <1>17, <1>19 DEF piece

(* The table bounds the cost of every partitioning from below ...          *)
LEMMA TableIsLowerBound ==
    ASSUME NEW stats, NEW crossings, IsStatistics(stats, crossings), NEW cuts \in Cuts
    PROVE  BestSplits(stats, crossings)[kLockCnt][kBlocks].cost
              <= PartitionCost(cuts, stats, crossings)
<1> DEFINE dp == BestSplits(stats, crossings)
           piece(l) == PieceCost(prefix_sum(stats), crossings, cuts[l], cuts[l + 1])
<1>1. kLockCnt \in Nat \ {0} /\ kBlocks \in Nat
  BY SizeAssumption
<1>2. PICK c \in [0 .. kLockCnt -> Nat] :
         /\ c[0] = 0 /\ c[kLockCnt] = PartitionCost(cuts, stats, crossings)
         /\ \A l \in Locks : piece(l) \in Nat /\ c[l + 1] = c[l] + piece(l)
  BY PartitionCostFacts
<1>3. /\ dp \in [0 .. kLockCnt -> Rows]
      /\ \A hi \in 0 .. kBlocks : dp[0][hi].cost = 0
      /\ \A locks \in 1 .. kLockCnt, hi \in 0 .. kBlocks :
            dp[locks][hi] = Entry(dp[locks - 1], prefix_sum(stats), crossings, hi, locks)
  BY BestSplitsFacts
<1> HIDE DEF dp
<1>4. /\ \A l \in 0 .. kLockCnt : cuts[l] \in 0 .. kBlocks /\ cuts[l] \in Int /\ cuts[l] >= l
      /\ cuts[0] = 0 /\ cuts[kLockCnt] = kBlocks
      /\ \A l \in 1 .. kLockCnt : cuts[l] >= cuts[l - 1] + 1
  BY CutsFacts DEF Cuts
<1>5. \A locks \in 0 .. kLockCnt, hi \in 0 .. kBlocks :
         dp[locks] \in Rows /\ dp[locks][hi].cost \in Nat
  <2> TAKE locks \in 0 .. kLockCnt, hi \in 0 .. kBlocks
  <2>1. dp[locks] \in Rows
    BY <1>3
  <2>2. dp[locks][hi] \in Entries
    BY <2>1 DEF Rows
  <2> QED
    BY <2>1, <2>2 DEF Entries
<1> DEFINE T == {m \in Nat : m <= kLockCnt => dp[m][cuts[m]].cost <= c[m]}
<1>6. \A m \in Nat : m \in T
  <2>1. 0 \in T
    <3>1. dp[0][cuts[0]].cost = 0 /\ c[0] = 0
      BY <1>1, <1>2, <1>3, <1>4
    <3> QED
      BY <3>1
  <2>2. ASSUME NEW m \in T PROVE m + 1 \in T
    <3> SUFFICES ASSUME m + 1 <= kLockCnt PROVE dp[m + 1][cuts[m + 1]].cost <= c[m + 1]
      OBVIOUS
    <3>1. /\ m \in Nat /\ m <= kLockCnt /\ m \in Locks /\ m + 1 \in 1 .. kLockCnt
          /\ m + 1 \in 0 .. kLockCnt /\ m \in 0 .. kLockCnt /\ (m + 1) - 1 = m
          /\ m + 1 \in Nat /\ m + 1 # 0
      BY <1>1 DEF Locks
    <3>2. dp[m][cuts[m]].cost <= c[m]
      BY <3>1
    <3> DEFINE low == cuts[m]
               hi == cuts[m + 1]
    <3>3. /\ low \in 0 .. kBlocks /\ hi \in 0 .. kBlocks /\ low < hi /\ low >= m
          /\ m = 0 => low = 0
      BY <1>4, <3>1
    <3> HIDE DEF low, hi
    <3>4. low \in LeftEnds(hi, m + 1)
      <4>1. low >= (m + 1) - 1 /\ (m + 1 = 1 => low = 0)
        BY <3>1, <3>3
      <4> QED
        BY <3>1, <3>3, <4>1, LeftEndsFacts
    <3> DEFINE e == Entry(dp[m], prefix_sum(stats), crossings, hi, m + 1)
    <3>5. e.cost <= Candidate(dp[m], prefix_sum(stats), crossings, low, hi)
      BY <1>5, <3>1, <3>3, <3>4, EntryFacts
    <3>6. dp[m + 1][hi] = e
      BY <1>3, <3>1, <3>3
    <3> HIDE DEF e
    <3>7. Candidate(dp[m], prefix_sum(stats), crossings, low, hi)
            = dp[m][low].cost + piece(m)
      BY DEF Candidate, low, hi
    <3> HIDE DEF piece
    <3>8. /\ dp[m][low].cost \in Nat /\ dp[m + 1][hi].cost \in Nat
          /\ piece(m) \in Nat /\ c[m] \in Nat /\ c[m + 1] = c[m] + piece(m)
      BY <1>2, <1>5, <3>1, <3>3
    <3>9. dp[m][low].cost <= c[m]
      BY <3>2 DEF low
    <3>10. dp[m + 1][hi].cost <= c[m + 1]
      BY <3>5, <3>6, <3>7, <3>8, <3>9
    <3> QED
      BY <3>10 DEF hi
  <2> HIDE DEF T
  <2> QED
    BY <2>1, <2>2, SetInduction
<1>7. dp[kLockCnt][cuts[kLockCnt]].cost <= c[kLockCnt]
  BY <1>1, <1>6
<1> QED
  BY <1>2, <1>4, <1>7 DEF dp

(* ... and the partitioning that is read off it costs just that.           *)
LEMMA TableIsReached ==
    ASSUME NEW stats, NEW crossings, IsStatistics(stats, crossings)
    PROVE  PartitionCost(OptimizePartitions(stats, crossings), stats, crossings)
              = BestSplits(stats, crossings)[kLockCnt][kBlocks].cost
<1> DEFINE dp == BestSplits(stats, crossings)
           cuts == OptimizePartitions(stats, crossings)
           piece(l) == PieceCost(prefix_sum(stats), crossings, cuts[l], cuts[l + 1])
<1>1. kLockCnt \in Nat \ {0} /\ kBlocks \in Nat
  BY SizeAssumption
<1>2. /\ cuts \in Cuts
      /\ \A l \in Locks : cuts[l] \in LeftEnds(cuts[l + 1], l + 1)
  BY OptimizeYieldsCuts
<1>3. /\ cuts \in [0 .. kLockCnt -> 0 .. kBlocks] /\ cuts[kLockCnt] = kBlocks
      /\ \A l \in Locks : cuts[l] = dp[l + 1][cuts[l + 1]].split
  BY OptimizeFacts
<1>4. /\ dp \in [0 .. kLockCnt -> Rows]
      /\ \A hi \in 0 .. kBlocks : dp[0][hi].cost = 0
      /\ \A locks \in 1 .. kLockCnt, hi \in 0 .. kBlocks :
            dp[locks][hi] = Entry(dp[locks - 1], prefix_sum(stats), crossings, hi, locks)
  BY BestSplitsFacts
<1> HIDE DEF dp, cuts
<1>5. PICK c \in [0 .. kLockCnt -> Nat] :
         /\ c[0] = 0 /\ c[kLockCnt] = PartitionCost(cuts, stats, crossings)
         /\ \A l \in Locks : piece(l) \in Nat /\ c[l + 1] = c[l] + piece(l)
  BY <1>2, PartitionCostFacts
<1>6. \A locks \in 0 .. kLockCnt : dp[locks] \in Rows
  BY <1>4
<1> DEFINE T == {m \in Nat : m <= kLockCnt => dp[m][cuts[m]].cost = c[m]}
<1>7. \A m \in Nat : m \in T
  <2>1. 0 \in T
    <3>1. dp[0][cuts[0]].cost = 0 /\ c[0] = 0
      BY <1>1, <1>3, <1>4, <1>5
    <3> QED
      BY <3>1
  <2>2. ASSUME NEW m \in T PROVE m + 1 \in T
    <3> SUFFICES ASSUME m + 1 <= kLockCnt PROVE dp[m + 1][cuts[m + 1]].cost = c[m + 1]
      OBVIOUS
    <3>1. /\ m \in Nat /\ m <= kLockCnt /\ m \in Locks /\ m + 1 \in 1 .. kLockCnt
          /\ m + 1 \in 0 .. kLockCnt /\ m \in 0 .. kLockCnt /\ (m + 1) - 1 = m
          /\ m + 1 \in Nat /\ m + 1 # 0
      BY <1>1 DEF Locks
    <3>2. dp[m][cuts[m]].cost = c[m]
      BY <3>1
    <3> DEFINE low == cuts[m]
               hi == cuts[m + 1]
    <3>3. hi \in 0 .. kBlocks /\ low \in LeftEnds(hi, m + 1)
      BY <1>2, <1>3, <3>1
    <3>4. low = dp[m + 1][hi].split
      BY <1>3, <3>1
    <3>5. low = cuts[m] /\ hi = cuts[m + 1]
      OBVIOUS
    <3> HIDE DEF low, hi
    <3> DEFINE e == Entry(dp[m], prefix_sum(stats), crossings, hi, m + 1)
    <3>6. dp[m + 1][hi] = e
      BY <1>4, <3>1, <3>3
    <3>7. LeftEnds(hi, m + 1) # {} /\ dp[m] \in Rows
      BY <1>6, <3>1, <3>3
    <3>8. e.cost = Candidate(dp[m], prefix_sum(stats), crossings, e.split, hi)
      BY <3>1, <3>3, <3>7, EntryFacts
    <3> HIDE DEF e
    <3>9. e.cost = Candidate(dp[m], prefix_sum(stats), crossings, low, hi)
      BY <3>4, <3>6, <3>8
    <3>10. Candidate(dp[m], prefix_sum(stats), crossings, low, hi)
             = dp[m][low].cost + piece(m)
      BY <3>5 DEF Candidate
    <3> HIDE DEF piece
    <3>11. c[m + 1] = c[m] + piece(m)
      BY <1>5, <3>1
    <3> QED
      BY <3>2, <3>5, <3>6, <3>9, <3>10, <3>11
  <2> HIDE DEF T
  <2> QED
    BY <2>1, <2>2, SetInduction
<1>8. dp[kLockCnt][cuts[kLockCnt]].cost = c[kLockCnt]
  BY <1>1, <1>7
<1> QED
  BY <1>3, <1>5, <1>8 DEF dp, cuts

-----------------------------------------------------------------------------
(* The inductive invariant of DynamicStats                                 *)

Updates == [phase : {"out", "hits", "crossings"}, left : Blocks, right : Blocks,
            at : Blocks]
Afters  == {"idle", "unlock", "nogain", "installed"}

StatsTypeOK ==
    /\ stats_ \in [Blocks -> Nat]
    /\ boundary_crossings_ \in [Blocks -> Nat]
    /\ partitions_ \in Cuts
    /\ update \in [Samplers -> Updates]
    /\ rpc = [r \in Rebuilders |-> rpc[r]]
    /\ cursor \in [Rebuilders -> Blocks]
    /\ after \in [Rebuilders -> Afters]
    /\ current_stats \in [Rebuilders -> [Blocks -> Nat]]
    /\ current_boundary_crossings \in [Rebuilders -> [Blocks -> Nat]]
    /\ new_partitions \in [Rebuilders -> Cuts]
    /\ rlocked \in [Rebuilders -> Int]

(* A sampler is somewhere in the loop it is in.                            *)
UpdateInv ==
    \A t \in Samplers :
        /\ update[t].phase = "hits" => update[t].at \in update[t].left .. update[t].right
        /\ update[t].phase = "crossings" =>
              update[t].at \in update[t].left + 1 .. update[t].right

(* Samplers that are under way have locks that nobody else has.            *)
LocksInv ==
    /\ \A t, u \in Samplers : t # u => HeldBy(t) \cap HeldBy(u) = {}
    /\ \A t \in Samplers, r \in Rebuilders : HeldBy(t) \cap LockedBy(r) = {}

(* Who installs has them all ...                                           *)
AllLocked(r) ==
    \/ rpc[r] \in {"install", "installed", "clearflag"}
    \/ rpc[r] \in Resetting /\ after[r] = "installed"
AllLockedInv == \A r \in Rebuilders : AllLocked(r) => rlocked[r] = kLockCnt

(* ... so that what it has reset stays so.                                 *)
ZeroedBy(r) ==
    /\ AllLocked(r) /\ rpc[r] \in Resetting =>
          /\ \A s \in Blocks : Passed(r, s) => stats_[s] = 0
          /\ \A b \in Blocks : cursor[r] > b => boundary_crossings_[b] = 0
    /\ rpc[r] \in {"installed", "clearflag"} =>
          \A b \in Blocks : stats_[b] = 0 /\ boundary_crossings_[b] = 0
ZeroedInv == \A r \in Rebuilders : ZeroedBy(r)

(* Loops begin at 0.                                                       *)
Loops == {"should", "now", "hits", "crossings", "zerohits", "zerocrossings"}
IndexInv == \A r \in Rebuilders : rpc[r] \notin Loops => cursor[r] = 0

(* A sampler has counted its hit on block s and has still to count its     *)
(* crossing of boundary b: a reset could now tear its sample apart.  While *)
(* there is one, no other sample is torn there.                            *)
HasHit(t, s) ==
    /\ s \in update[t].left .. update[t].right
    /\ update[t].phase = "hits" => s < update[t].at
WillCross(t, b) ==
    /\ update[t].phase # "out"
    /\ b \in update[t].left + 1 .. update[t].right
    /\ update[t].phase = "crossings" => update[t].at <= b
Split(b, s) == \E t \in Samplers : WillCross(t, b) /\ HasHit(t, s)
SplitInv ==
    \A b \in Blocks \ {0}, s \in Blocks :
        /\ s = b - 1 \/ s = b
        /\ \A r \in Rebuilders : ~Between(r, s, b)
        => /\ boundary_crossings_[b] <= stats_[s] + 1
           /\ Split(b, s) => boundary_crossings_[b] <= stats_[s]

StatsInv ==
    /\ StatsTypeOK /\ UpdateInv /\ LocksInv /\ AllLockedInv /\ ZeroedInv
    /\ IndexInv /\ SplitInv

LEMMA NothingIsStatistics == Nothing \in [Blocks -> Nat] /\ \A b \in Blocks : Nothing[b] = 0
  BY DEF Nothing

LEMMA BlockFacts ==
    /\ kBlocks \in Nat \ {0} /\ kLockCnt \in Nat \ {0} /\ 0 \in Blocks
    /\ \A b : b \in Blocks <=> b \in Int /\ 0 <= b /\ b <= kBlocks - 1
    /\ \A l : l \in Locks <=> l \in Int /\ 0 <= l /\ l <= kLockCnt - 1
  BY SizeAssumption DEF Blocks, Locks

LEMMA UpdateFacts ==
    ASSUME StatsTypeOK, NEW t \in Samplers
    PROVE  /\ update[t] \in Updates /\ update[t].phase \in {"out", "hits", "crossings"}
           /\ update[t].left \in Blocks /\ update[t].right \in Blocks
           /\ update[t].at \in Blocks
<1>1. update[t] \in Updates
  BY DEF StatsTypeOK
<1> QED
  BY <1>1 DEF Updates

(* A sampler has the lock of every block it counts.                        *)
LEMMA HoldsBlock ==
    ASSUME StatsTypeOK, NEW t \in Samplers, update[t].phase # "out",
           NEW b \in update[t].left .. update[t].right
    PROVE  FindLockForBlock(partitions_, b) \in HeldBy(t) \cap Locks
<1>1. partitions_ \in Cuts /\ update[t].left \in Int /\ update[t].right \in Int /\ b \in Blocks
  <2>1. partitions_ \in Cuts
    BY DEF StatsTypeOK
  <2>2. update[t].left \in Blocks /\ update[t].right \in Blocks
    BY UpdateFacts
  <2> QED
    BY <2>1, <2>2, BlockFacts
<1> DEFINE l == FindLockForBlock(partitions_, b)
<1>2. l \in Locks /\ partitions_[l] <= b /\ b < partitions_[l + 1]
  BY <1>1, FindLockFacts
<1>3. partitions_[l] \in Int /\ partitions_[l + 1] \in Int
  <2>1. l \in 0 .. kLockCnt /\ l + 1 \in 0 .. kLockCnt
    BY <1>2, BlockFacts
  <2> QED
    BY <1>1, <2>1, CutsFacts
<1> HIDE DEF l
<1>4. partitions_[l] <= update[t].right /\ update[t].left < partitions_[l + 1]
  BY <1>1, <1>2, <1>3
<1>5. l \in HeldBy(t)
  BY <1>2, <1>4 DEF HeldBy, LocksOver
<1> QED
  BY <1>2, <1>5 DEF l

(* While somebody has all locks, nobody samples.                           *)
LEMMA NobodySamples ==
    ASSUME StatsInv, NEW r \in Rebuilders, rlocked[r] = kLockCnt, NEW t \in Samplers
    PROVE  update[t].phase = "out"
<1>1. StatsTypeOK /\ UpdateInv /\ LocksInv
  BY DEF StatsInv
<1> SUFFICES ASSUME update[t].phase # "out" PROVE FALSE
  OBVIOUS
<1>2. update[t].left \in update[t].left .. update[t].right
  <2>1. /\ update[t].left \in Int /\ update[t].right \in Int /\ update[t].at \in Int
        /\ update[t].phase \in {"hits", "crossings"}
    BY <1>1, UpdateFacts, BlockFacts
  <2>2. update[t].phase = "hits" => update[t].at \in update[t].left .. update[t].right
    BY <1>1 DEF UpdateInv
  <2>3. update[t].phase = "crossings" => update[t].at \in update[t].left + 1 .. update[t].right
    BY <1>1 DEF UpdateInv
  <2> QED
    BY <2>1, <2>2, <2>3
<1>3. PICK l \in HeldBy(t) : l \in Locks
  BY <1>1, <1>2, HoldsBlock
<1>4. l \in LockedBy(r)
  BY <1>3, BlockFacts DEF LockedBy
<1> QED
  BY <1>1, <1>3, <1>4 DEF LocksInv

(* What SplitInv says of a boundary follows from what it said before if no *)
(* crossing was added, no hit was lost, no sampler comes to be between its *)
(* hit and its crossing, and no reset leaves off between the two.          *)
LEMMA SplitFrame ==
    ASSUME StatsInv, StatsTypeOK',
           NEW b \in Blocks \ {0}, NEW s \in Blocks, s = b - 1 \/ s = b,
           \A r \in Rebuilders : Between(r, s, b) => Between(r, s, b)',
           \A r \in Rebuilders : ~Between(r, s, b)',
           boundary_crossings_'[b] <= boundary_crossings_[b],
           stats_'[s] >= stats_[s],
           Split(b, s)' => Split(b, s)
    PROVE  /\ boundary_crossings_'[b] <= stats_'[s] + 1
           /\ Split(b, s)' => boundary_crossings_'[b] <= stats_'[s]
<1>1. /\ boundary_crossings_[b] <= stats_[s] + 1
      /\ Split(b, s) => boundary_crossings_[b] <= stats_[s]
  <2>1. \A r \in Rebuilders : ~Between(r, s, b)
    OBVIOUS
  <2> QED
    BY <2>1 DEF StatsInv, SplitInv
<1>2. /\ boundary_crossings_[b] \in Nat /\ stats_[s] \in Nat
      /\ boundary_crossings_'[b] \in Nat /\ stats_'[s] \in Nat
  BY DEF StatsInv, StatsTypeOK
<1> HIDE DEF Split
<1> QED
  BY <1>1, <1>2

-----------------------------------------------------------------------------
(* The steps of samplers                                                   *)

(* They leave the rebuilders alone.                                        *)
SamplerFrame == UNCHANGED <<partitions_, rpc, cursor, after, snapshotVars, planVars>>

LEMMA SamplerFrameFacts ==
    ASSUME StatsInv, SamplerFrame, stats_' \in [Blocks -> Nat],
           boundary_crossings_' \in [Blocks -> Nat], update' \in [Samplers -> Updates]
    PROVE  /\ StatsTypeOK' /\ AllLockedInv' /\ IndexInv'
           /\ \A r \in Rebuilders : LockedBy(r)' = LockedBy(r)
           /\ \A r \in Rebuilders, s, b \in Blocks : Between(r, s, b)' <=> Between(r, s, b)
<1> USE DEF SamplerFrame, snapshotVars, planVars
<1>1. StatsTypeOK'
  BY DEF StatsInv, StatsTypeOK
<1>2. AllLockedInv' /\ IndexInv'
  BY DEF StatsInv, AllLockedInv, AllLocked, IndexInv
<1>3. \A r \in Rebuilders : LockedBy(r)' = LockedBy(r)
  BY DEF LockedBy
<1>4. \A r \in Rebuilders, s, b \in Blocks : Between(r, s, b)' <=> Between(r, s, b)
  BY DEF Between, Passed
<1> QED
  BY <1>1, <1>2, <1>3, <1>4

(* A sampler that is under way shows that nobody has reset everything.     *)
LEMMA SamplerZeroed ==
    ASSUME StatsInv, SamplerFrame, NEW t \in Samplers, update[t].phase # "out"
    PROVE  ZeroedInv'
<1>1. \A r \in Rebuilders : rlocked[r] # kLockCnt
  BY NobodySamples
<1>2. \A r \in Rebuilders : ~AllLocked(r)
  BY <1>1 DEF StatsInv, AllLockedInv
<1>3. \A r \in Rebuilders : ~AllLocked(r)' /\ rpc'[r] \notin {"installed", "clearflag"}
  BY <1>2 DEF SamplerFrame, AllLocked
<1> QED
  BY <1>3 DEF ZeroedInv, ZeroedBy

LEMMA UpdateStatsInvariant ==
    ASSUME StatsInv, NEW t \in Samplers, NEW request \in Ranges, UpdateStats(t, request)
    PROVE  StatsInv'
<1> DEFINE from == PositionToBlock(ClampedLeft(request))
           to == PositionToBlock(ClampedRight(request))
           new == [phase |-> "hits", left |-> from, right |-> to, at |-> from]
<1>1. from \in Blocks /\ to \in Blocks /\ from <= to
  <2>1. request \in Nat \X Nat
    BY StatsAssumption
  <2>2. /\ ClampedLeft(request) \in Positions /\ ClampedRight(request) \in Positions
        /\ ClampedLeft(request) <= ClampedRight(request)
    BY <2>1, ClampedRange
  <2> QED
    BY <2>2, PositionToBlockType, PositionToBlockMonotone
<1>2. /\ update[t].phase = "out" /\ SamplerFrame /\ UNCHANGED counterVars
      /\ \A u \in Samplers : LocksOver(from, to) \cap HeldBy(u) = {}
      /\ \A r \in Rebuilders : LocksOver(from, to) \cap LockedBy(r) = {}
      /\ update' = [update EXCEPT ![t] = new]
  BY DEF UpdateStats, SamplerFrame
<1> HIDE DEF from, to
<1>3. StatsTypeOK /\ UpdateInv /\ LocksInv /\ ZeroedInv
  BY DEF StatsInv
<1>4. /\ stats_' = stats_ /\ boundary_crossings_' = boundary_crossings_
      /\ stats_ \in [Blocks -> Nat] /\ boundary_crossings_ \in [Blocks -> Nat]
      /\ update \in [Samplers -> Updates]
  BY <1>2, <1>3 DEF counterVars, StatsTypeOK
<1>5. new \in Updates
  BY <1>1 DEF Updates
<1>6. /\ update' \in [Samplers -> Updates] /\ update'[t] = new
      /\ \A u \in Samplers : u # t => update'[u] = update[u]
  BY <1>2, <1>4, <1>5
<1>7. /\ StatsTypeOK' /\ AllLockedInv' /\ IndexInv'
      /\ \A r \in Rebuilders : LockedBy(r)' = LockedBy(r)
      /\ \A r \in Rebuilders, s, b \in Blocks : Between(r, s, b)' <=> Between(r, s, b)
  BY <1>2, <1>4, <1>6, SamplerFrameFacts
<1>8. /\ update'[t].phase = "hits" /\ update'[t].left = from
      /\ update'[t].right = to /\ update'[t].at = from
  BY <1>6
<1>9. UpdateInv'
  <2> SUFFICES ASSUME NEW u \in Samplers
               PROVE  /\ update'[u].phase = "hits" =>
                            update'[u].at \in update'[u].left .. update'[u].right
                      /\ update'[u].phase = "crossings" =>
                            update'[u].at \in update'[u].left + 1 .. update'[u].right
    BY DEF UpdateInv
  <2>1. CASE u = t
    BY <1>1, <1>8, <2>1, BlockFacts
  <2>2. CASE u # t
    BY <1>3, <1>6, <2>2 DEF UpdateInv
  <2> QED
    BY <2>1, <2>2
<1>10. LocksInv'
  <2>1. \A f, e : LocksOver(f, e)' = LocksOver(f, e)
    BY <1>2 DEF LocksOver, SamplerFrame
  <2>2. HeldBy(t)' = LocksOver(from, to)
    BY <1>8, <2>1 DEF HeldBy
  <2>3. \A u \in Samplers : u # t => HeldBy(u)' = HeldBy(u)
    BY <1>6, <2>1 DEF HeldBy
  <2> HIDE DEF HeldBy
  <2> QED
    BY <1>2, <1>3, <1>7, <2>2, <2>3 DEF LocksInv
<1>11. ZeroedInv'
  BY <1>2, <1>3, <1>4 DEF SamplerFrame, ZeroedInv, ZeroedBy, AllLocked, Passed
<1>12. SplitInv'
  <2> SUFFICES ASSUME NEW b \in Blocks \ {0}, NEW s \in Blocks, s = b - 1 \/ s = b,
                      \A r \in Rebuilders : ~Between(r, s, b)'
               PROVE  /\ boundary_crossings_'[b] <= stats_'[s] + 1
                      /\ Split(b, s)' => boundary_crossings_'[b] <= stats_'[s]
    BY DEF SplitInv
  <2>1. \A u \in Samplers : WillCross(u, b)' /\ HasHit(u, s)' => WillCross(u, b) /\ HasHit(u, s)
    <3> TAKE u \in Samplers
    <3>1. CASE u = t
      <4>1. ~HasHit(t, s)'
        BY <1>1, <1>8, BlockFacts DEF HasHit
      <4> QED
        BY <3>1, <4>1
    <3>2. CASE u # t
      BY <1>6, <3>2 DEF WillCross, HasHit
    <3> QED
      BY <3>1, <3>2
  <2>2. Split(b, s)' => Split(b, s)
    BY <2>1 DEF Split
  <2>3. boundary_crossings_'[b] <= boundary_crossings_[b] /\ stats_'[s] >= stats_[s]
    BY <1>4
  <2>4. \A r \in Rebuilders : Between(r, s, b) => Between(r, s, b)'
    BY <1>7
  <2> QED
    BY <1>7, <2>2, <2>3, <2>4, SplitFrame
<1> QED
  BY <1>7, <1>9, <1>10, <1>11, <1>12 DEF StatsInv

(* A sampler that goes on or leaves keeps its locks or gives them back.    *)
LEMMA SamplerGoesOn ==
    ASSUME StatsInv, SamplerFrame, NEW t \in Samplers, NEW next \in Updates,
           update' = [update EXCEPT ![t] = next],
           next.phase = "out" \/ (/\ update[t].phase # "out"
                                  /\ next.left = update[t].left
                                  /\ next.right = update[t].right),
           next.phase = "hits" => next.at \in next.left .. next.right,
           next.phase = "crossings" => next.at \in next.left + 1 .. next.right
    PROVE  /\ update' \in [Samplers -> Updates] /\ update'[t] = next
           /\ \A u \in Samplers : u # t => update'[u] = update[u]
           /\ UpdateInv' /\ LocksInv'
<1>1. update \in [Samplers -> Updates] /\ UpdateInv /\ LocksInv
  BY DEF StatsInv, StatsTypeOK
<1>2. /\ update' \in [Samplers -> Updates] /\ update'[t] = next
      /\ \A u \in Samplers : u # t => update'[u] = update[u]
  BY <1>1
<1>3. UpdateInv'
  <2> SUFFICES ASSUME NEW u \in Samplers
               PROVE  /\ update'[u].phase = "hits" =>
                            update'[u].at \in update'[u].left .. update'[u].right
                      /\ update'[u].phase = "crossings" =>
                            update'[u].at \in update'[u].left + 1 .. update'[u].right
    BY DEF UpdateInv
  <2>1. CASE u = t
    BY <1>2, <2>1
  <2>2. CASE u # t
    BY <1>1, <1>2, <2>2 DEF UpdateInv
  <2> QED
    BY <2>1, <2>2
<1>4. LocksInv'
  <2>1. \A f, e : LocksOver(f, e)' = LocksOver(f, e)
    BY DEF LocksOver, SamplerFrame
  <2>2. \A u \in Samplers : HeldBy(u)' = HeldBy(u) \/ HeldBy(u)' = {}
    <3> TAKE u \in Samplers
    <3>1. CASE u = t
      BY <1>2, <2>1, <3>1 DEF HeldBy
    <3>2. CASE u # t
      BY <1>2, <2>1, <3>2 DEF HeldBy
    <3> QED
      BY <3>1, <3>2
  <2>3. \A r \in Rebuilders : LockedBy(r)' = LockedBy(r)
    BY DEF LockedBy, SamplerFrame, planVars
  <2> HIDE DEF HeldBy
  <2>4. ASSUME NEW u \in Samplers, NEW v \in Samplers, u # v
        PROVE  HeldBy(u)' \cap HeldBy(v)' = {}
    <3>1. HeldBy(u) \cap HeldBy(v) = {}
      BY <1>1, <2>4 DEF LocksInv
    <3> QED
      BY <2>2, <3>1
  <2>5. ASSUME NEW u \in Samplers, NEW r \in Rebuilders
        PROVE  HeldBy(u)' \cap LockedBy(r)' = {}
    <3>1. HeldBy(u) \cap LockedBy(r) = {}
      BY <1>1 DEF LocksInv
    <3> QED
      BY <2>2, <2>3, <3>1
  <2> QED
    BY <2>4, <2>5 DEF LocksInv
<1> QED
  BY <1>2, <1>3, <1>4

LEMMA CountHitInvariant ==
    ASSUME StatsInv, NEW t \in Samplers, CountHit(t)
    PROVE  StatsInv'
<1> DEFINE u == update[t]
           next == AfterHit(u)
<1>1. StatsTypeOK /\ UpdateInv
  BY DEF StatsInv
<1>2. /\ u.phase = "hits" /\ SamplerFrame
      /\ stats_' = [stats_ EXCEPT ![u.at] = @ + 1]
      /\ boundary_crossings_' = boundary_crossings_
      /\ update' = [update EXCEPT ![t] = next]
  BY DEF CountHit, SamplerFrame
<1>3. /\ u \in Updates /\ u.left \in Blocks /\ u.right \in Blocks /\ u.at \in Blocks
      /\ u.at \in u.left .. u.right
  BY <1>1, <1>2, UpdateFacts DEF UpdateInv
<1> HIDE DEF u, next
<1>4. /\ next.phase = "hits" => u.at < u.right /\ next.at = u.at + 1
      /\ next.phase = "crossings" => u.at = u.right /\ u.left < u.right /\ next.at = u.left + 1
      /\ next.phase # "out" => next.left = u.left /\ next.right = u.right
      /\ next \in Updates
  <2>0. /\ u.left \in Int /\ u.right \in Int /\ u.at \in Int /\ u.left <= u.at /\ u.at <= u.right
        /\ u = [phase |-> "hits", left |-> u.left, right |-> u.right, at |-> u.at]
    BY <1>2, <1>3, BlockFacts DEF Updates
  <2>1. CASE u.at < u.right
    <3>1. next = [phase |-> "hits", left |-> u.left, right |-> u.right, at |-> u.at + 1]
      BY <2>0, <2>1 DEF next, AfterHit
    <3>2. u.at + 1 \in Blocks
      BY <1>3, <2>1, BlockFacts
    <3> QED
      BY <1>3, <2>1, <3>1, <3>2 DEF Updates
  <2>2. CASE u.at = u.right /\ u.left = u.right
    <3>1. next = NoUpdate
      BY <2>0, <2>2 DEF next, AfterHit
    <3> QED
      BY <3>1, BlockFacts DEF NoUpdate, Updates
  <2>3. CASE u.at = u.right /\ u.left # u.right
    <3>0. next = [u EXCEPT !.phase = "crossings", !.at = u.left + 1]
      BY <2>0, <2>3 DEF next, AfterHit
    <3>1. next = [phase |-> "crossings", left |-> u.left, right |-> u.right, at |-> u.left + 1]
      BY <2>0, <3>0
    <3>2. u.left < u.right /\ u.left + 1 \in Blocks
      BY <1>3, <2>0, <2>3, BlockFacts
    <3> QED
      BY <1>3, <2>3, <3>1, <3>2 DEF Updates
  <2> QED
    BY <2>0, <2>1, <2>2, <2>3
<1>5. /\ update' \in [Samplers -> Updates] /\ update'[t] = next
      /\ \A v \in Samplers : v # t => update'[v] = update[v]
      /\ UpdateInv' /\ LocksInv'
  <2>1. next.phase = "hits" => next.at \in next.left .. next.right
    BY <1>3, <1>4, BlockFacts
  <2>2. next.phase = "crossings" => next.at \in next.left + 1 .. next.right
    BY <1>3, <1>4, BlockFacts
  <2>3. next.phase = "out" \/ (/\ update[t].phase # "out"
                               /\ next.left = update[t].left
                               /\ next.right = update[t].right)
    BY <1>2, <1>4 DEF u
  <2> QED
    BY <1>2, <1>4, <2>1, <2>2, <2>3, SamplerGoesOn
<1>6. /\ stats_' \in [Blocks -> Nat] /\ boundary_crossings_' \in [Blocks -> Nat]
      /\ stats_'[u.at] = stats_[u.at] + 1
      /\ \A s \in Blocks : s # u.at => stats_'[s] = stats_[s]
      /\ \A s \in Blocks : stats_[s] \in Nat /\ boundary_crossings_[s] \in Nat
  BY <1>1, <1>2, <1>3 DEF StatsTypeOK
<1>7. /\ StatsTypeOK' /\ AllLockedInv' /\ IndexInv'
      /\ \A r \in Rebuilders, s, b \in Blocks : Between(r, s, b)' <=> Between(r, s, b)
  BY <1>2, <1>5, <1>6, SamplerFrameFacts
<1>8. ZeroedInv'
  <2>1. update[t].phase # "out"
    BY <1>2 DEF u
  <2> QED
    BY <1>2, <2>1, SamplerZeroed
<1>9. SplitInv'
  <2> SUFFICES ASSUME NEW b \in Blocks \ {0}, NEW s \in Blocks, s = b - 1 \/ s = b,
                      \A r \in Rebuilders : ~Between(r, s, b)'
               PROVE  /\ boundary_crossings_'[b] <= stats_'[s] + 1
                      /\ Split(b, s)' => boundary_crossings_'[b] <= stats_'[s]
    BY DEF SplitInv
  <2>1. CASE s = u.at
    <3>1. boundary_crossings_[b] <= stats_[s] + 1
      <4>1. \A r \in Rebuilders : ~Between(r, s, b)
        BY <1>7
      <4> QED
        BY <4>1 DEF StatsInv, SplitInv
    <3>2. boundary_crossings_'[b] = boundary_crossings_[b] /\ stats_'[s] = stats_[s] + 1
      BY <1>2, <1>6, <2>1
    <3> QED
      BY <1>6, <3>1, <3>2
  <2>2. CASE s # u.at
    <3>1. \A v \in Samplers :
             WillCross(v, b)' /\ HasHit(v, s)' => WillCross(v, b) /\ HasHit(v, s)
      <4> TAKE v \in Samplers
      <4>1. CASE v = t
        <5> SUFFICES ASSUME WillCross(t, b)', HasHit(t, s)' PROVE WillCross(t, b) /\ HasHit(t, s)
          BY <4>1
        <5>1. next.phase # "out" /\ b \in next.left + 1 .. next.right
          BY <1>5 DEF WillCross
        <5>2. s \in next.left .. next.right /\ (next.phase = "hits" => s < next.at)
          BY <1>5 DEF HasHit
        <5>3. next.left = u.left /\ next.right = u.right /\ next.phase \in {"hits", "crossings"}
          BY <1>4, <5>1 DEF Updates
        <5>4. s < u.at
          <6>1. s \in Int /\ u.at \in Int /\ u.right \in Int /\ u.left \in Int
            BY <1>3, BlockFacts
          <6>2. CASE next.phase = "hits"
            BY <1>4, <2>2, <5>2, <6>1, <6>2
          <6>3. CASE next.phase = "crossings"
            BY <1>4, <2>2, <5>2, <5>3, <6>1, <6>3
          <6> QED
            BY <5>3, <6>2, <6>3
        <5>5. WillCross(t, b)
          BY <1>2, <5>1, <5>3 DEF WillCross, u
        <5>6. HasHit(t, s)
          BY <1>2, <5>2, <5>3, <5>4 DEF HasHit, u
        <5> QED
          BY <5>5, <5>6
      <4>2. CASE v # t
        BY <1>5, <4>2 DEF WillCross, HasHit
      <4> QED
        BY <4>1, <4>2
    <3>2. Split(b, s)' => Split(b, s)
      BY <3>1 DEF Split
    <3>3. boundary_crossings_'[b] <= boundary_crossings_[b] /\ stats_'[s] >= stats_[s]
      BY <1>2, <1>6, <2>2
    <3>4. \A r \in Rebuilders : Between(r, s, b) => Between(r, s, b)'
      BY <1>7
    <3> QED
      BY <1>7, <3>2, <3>3, <3>4, SplitFrame
  <2> QED
    BY <2>1, <2>2
<1> QED
  BY <1>5, <1>7, <1>8, <1>9 DEF StatsInv

(* Two samplers that cross the same boundary share a lock.                 *)
LEMMA OneCrosses ==
    ASSUME StatsInv, NEW b \in Blocks, NEW t \in Samplers, NEW v \in Samplers,
           WillCross(t, b), WillCross(v, b)
    PROVE  t = v
<1>1. StatsTypeOK /\ LocksInv
  BY DEF StatsInv
<1>2. /\ update[t].phase # "out" /\ b \in update[t].left .. update[t].right
      /\ update[v].phase # "out" /\ b \in update[v].left .. update[v].right
  <2>1. /\ update[t].left \in Int /\ update[t].right \in Int
        /\ update[v].left \in Int /\ update[v].right \in Int
    BY <1>1, UpdateFacts, BlockFacts
  <2>2. /\ update[t].phase # "out" /\ b \in update[t].left + 1 .. update[t].right
        /\ update[v].phase # "out" /\ b \in update[v].left + 1 .. update[v].right
    BY DEF WillCross
  <2> QED
    BY <2>1, <2>2
<1>3. FindLockForBlock(partitions_, b) \in HeldBy(t) \cap HeldBy(v)
  BY <1>1, <1>2, HoldsBlock
<1> QED
  BY <1>1, <1>3 DEF LocksInv

LEMMA CountCrossingInvariant ==
    ASSUME StatsInv, NEW t \in Samplers, CountCrossing(t)
    PROVE  StatsInv'
<1> DEFINE u == update[t]
           next == AfterCrossing(u)
<1>1. StatsTypeOK /\ UpdateInv
  BY DEF StatsInv
<1>2. /\ u.phase = "crossings" /\ SamplerFrame
      /\ boundary_crossings_' = [boundary_crossings_ EXCEPT ![u.at] = @ + 1]
      /\ stats_' = stats_
      /\ update' = [update EXCEPT ![t] = next]
  BY DEF CountCrossing, SamplerFrame
<1>3. /\ u \in Updates /\ u.left \in Blocks /\ u.right \in Blocks /\ u.at \in Blocks
      /\ u.at \in u.left + 1 .. u.right
  BY <1>1, <1>2, UpdateFacts DEF UpdateInv
<1> HIDE DEF u, next
<1>4. /\ next.phase = "crossings" => u.at < u.right /\ next.at = u.at + 1
      /\ next.phase # "out" => next.left = u.left /\ next.right = u.right
      /\ next.phase \in {"out", "crossings"}
      /\ next \in Updates
  <2>0. /\ u.left \in Int /\ u.right \in Int /\ u.at \in Int /\ u.at <= u.right
        /\ u = [phase |-> "crossings", left |-> u.left, right |-> u.right, at |-> u.at]
    BY <1>2, <1>3, BlockFacts DEF Updates
  <2>1. CASE u.at < u.right
    <3>1. next = [phase |-> "crossings", left |-> u.left, right |-> u.right, at |-> u.at + 1]
      BY <2>0, <2>1 DEF next, AfterCrossing
    <3>2. u.at + 1 \in Blocks
      BY <1>3, <2>1, BlockFacts
    <3> QED
      BY <1>3, <2>1, <3>1, <3>2 DEF Updates
  <2>2. CASE u.at = u.right
    <3>1. next = NoUpdate
      BY <2>0, <2>2 DEF next, AfterCrossing
    <3> QED
      BY <3>1, BlockFacts DEF NoUpdate, Updates
  <2> QED
    BY <2>0, <2>1, <2>2
<1>5. /\ update' \in [Samplers -> Updates] /\ update'[t] = next
      /\ \A v \in Samplers : v # t => update'[v] = update[v]
      /\ UpdateInv' /\ LocksInv'
  <2>1. next.phase = "hits" => next.at \in next.left .. next.right
    BY <1>4
  <2>2. next.phase = "crossings" => next.at \in next.left + 1 .. next.right
    BY <1>3, <1>4, BlockFacts
  <2>3. next.phase = "out" \/ (/\ update[t].phase # "out"
                               /\ next.left = update[t].left
                               /\ next.right = update[t].right)
    BY <1>2, <1>4 DEF u
  <2> QED
    BY <1>2, <1>4, <2>1, <2>2, <2>3, SamplerGoesOn
<1>6. /\ stats_' \in [Blocks -> Nat] /\ boundary_crossings_' \in [Blocks -> Nat]
      /\ boundary_crossings_'[u.at] = boundary_crossings_[u.at] + 1
      /\ \A b \in Blocks : b # u.at => boundary_crossings_'[b] = boundary_crossings_[b]
      /\ \A s \in Blocks : stats_[s] \in Nat /\ boundary_crossings_[s] \in Nat
  BY <1>1, <1>2, <1>3 DEF StatsTypeOK
<1>7. /\ StatsTypeOK' /\ AllLockedInv' /\ IndexInv'
      /\ \A r \in Rebuilders, s, b \in Blocks : Between(r, s, b)' <=> Between(r, s, b)
  BY <1>2, <1>5, <1>6, SamplerFrameFacts
<1>8. ZeroedInv'
  <2>1. update[t].phase # "out"
    BY <1>2 DEF u
  <2> QED
    BY <1>2, <2>1, SamplerZeroed
<1>9. SplitInv'
  <2> SUFFICES ASSUME NEW b \in Blocks \ {0}, NEW s \in Blocks, s = b - 1 \/ s = b,
                      \A r \in Rebuilders : ~Between(r, s, b)'
               PROVE  /\ boundary_crossings_'[b] <= stats_'[s] + 1
                      /\ Split(b, s)' => boundary_crossings_'[b] <= stats_'[s]
    BY DEF SplitInv
  <2>0. /\ b \in Int /\ s \in Int /\ u.at \in Int /\ u.left \in Int /\ u.right \in Int
        /\ next \in Updates => (next.at \in Int)
    BY <1>3, BlockFacts DEF Updates
  <2>1. CASE b = u.at
    <3>1. WillCross(t, b) /\ HasHit(t, s)
      <4>1. b \in u.left + 1 .. u.right /\ s \in u.left .. u.right /\ u.at <= b
        BY <1>3, <2>0, <2>1
      <4> QED
        BY <1>2, <4>1 DEF WillCross, HasHit, u
    <3>2. Split(b, s)
      BY <3>1 DEF Split
    <3>3. boundary_crossings_[b] <= stats_[s]
      <4>1. \A r \in Rebuilders : ~Between(r, s, b)
        BY <1>7
      <4> QED
        BY <3>2, <4>1 DEF StatsInv, SplitInv
    <3>4. \A v \in Samplers : ~WillCross(v, b)'
      <4> SUFFICES ASSUME NEW v \in Samplers, WillCross(v, b)' PROVE FALSE
        OBVIOUS
      <4>1. CASE v = t
        <5>1. next.phase # "out" /\ (next.phase = "crossings" => next.at <= b)
          BY <1>5, <4>1 DEF WillCross
        <5> QED
          BY <1>4, <2>0, <2>1, <5>1
      <4>2. CASE v # t
        <5>1. WillCross(v, b)
          BY <1>5, <4>2 DEF WillCross
        <5> QED
          BY <3>1, <4>2, <5>1, OneCrosses
      <4> QED
        BY <4>1, <4>2
    <3>5. ~Split(b, s)'
      BY <3>4 DEF Split
    <3>6. boundary_crossings_'[b] = boundary_crossings_[b] + 1 /\ stats_'[s] = stats_[s]
      BY <1>2, <1>6, <2>1
    <3> QED
      BY <1>6, <3>3, <3>5, <3>6
  <2>2. CASE b # u.at
    <3>1. \A v \in Samplers :
             WillCross(v, b)' /\ HasHit(v, s)' => WillCross(v, b) /\ HasHit(v, s)
      <4> TAKE v \in Samplers
      <4>1. CASE v = t
        <5> SUFFICES ASSUME WillCross(t, b)', HasHit(t, s)' PROVE WillCross(t, b) /\ HasHit(t, s)
          BY <4>1
        <5>1. /\ next.phase # "out" /\ b \in next.left + 1 .. next.right
              /\ next.phase = "crossings" => next.at <= b
          BY <1>5 DEF WillCross
        <5>2. s \in next.left .. next.right
          BY <1>5 DEF HasHit
        <5>3. next.left = u.left /\ next.right = u.right /\ next.phase = "crossings"
          BY <1>4, <5>1
        <5>4. u.at <= b
          BY <1>4, <2>0, <5>1, <5>3
        <5>5. WillCross(t, b)
          BY <1>2, <5>1, <5>3, <5>4 DEF WillCross, u
        <5>6. HasHit(t, s)
          BY <1>2, <5>2, <5>3 DEF HasHit, u
        <5> QED
          BY <5>5, <5>6
      <4>2. CASE v # t
        BY <1>5, <4>2 DEF WillCross, HasHit
      <4> QED
        BY <4>1, <4>2
    <3>2. Split(b, s)' => Split(b, s)
      BY <3>1 DEF Split
    <3>3. boundary_crossings_'[b] <= boundary_crossings_[b] /\ stats_'[s] >= stats_[s]
      BY <1>2, <1>6, <2>2
    <3>4. \A r \in Rebuilders : Between(r, s, b) => Between(r, s, b)'
      BY <1>7
    <3> QED
      BY <1>7, <3>2, <3>3, <3>4, SplitFrame
  <2> QED
    BY <2>1, <2>2
<1> QED
  BY <1>5, <1>7, <1>8, <1>9 DEF StatsInv

-----------------------------------------------------------------------------
(* The steps of rebuilders                                                 *)

(* Where a step leaves the rebuilder that takes it.                        *)
Moves(r, pc, i, then) ==
    /\ rpc' = [rpc EXCEPT ![r] = pc]
    /\ cursor' = [cursor EXCEPT ![r] = i]
    /\ after' = [after EXCEPT ![r] = then]

SnapshotsType ==
    /\ current_stats \in [Rebuilders -> [Blocks -> Nat]]
    /\ current_boundary_crossings \in [Rebuilders -> [Blocks -> Nat]]

LEMMA MovesFacts ==
    ASSUME StatsTypeOK, NEW r \in Rebuilders, NEW pc, NEW i \in Blocks,
           NEW then \in Afters, Moves(r, pc, i, then)
    PROVE  /\ rpc' = [q \in Rebuilders |-> rpc'[q]] /\ rpc'[r] = pc
           /\ cursor' \in [Rebuilders -> Blocks] /\ cursor'[r] = i
           /\ after' \in [Rebuilders -> Afters] /\ after'[r] = then
           /\ \A q \in Rebuilders : q # r =>
                 rpc'[q] = rpc[q] /\ cursor'[q] = cursor[q] /\ after'[q] = after[q]
<1>1. rpc' = [q \in Rebuilders |-> rpc'[q]] /\ rpc'[r] = pc /\ \A q \in Rebuilders : q # r => rpc'[q] = rpc[q]
  BY DEF Moves, StatsTypeOK
<1>2. cursor' \in [Rebuilders -> Blocks] /\ cursor'[r] = i /\ \A q \in Rebuilders : q # r => cursor'[q] = cursor[q]
  BY DEF Moves, StatsTypeOK
<1>3. after' \in [Rebuilders -> Afters] /\ after'[r] = then /\ \A q \in Rebuilders : q # r => after'[q] = after[q]
  BY DEF Moves, StatsTypeOK
<1> QED
  BY <1>1, <1>2, <1>3

(* It leaves the others where they are.                                    *)
LEMMA OthersStay ==
    ASSUME StatsTypeOK, NEW r \in Rebuilders, NEW pc, NEW i \in Blocks,
           NEW then \in Afters, Moves(r, pc, i, then), NEW q \in Rebuilders, q # r
    PROVE  /\ AllLocked(q)' <=> AllLocked(q)
           /\ \A s, b \in Blocks : Between(q, s, b)' <=> Between(q, s, b)
<1>1. rpc'[q] = rpc[q] /\ cursor'[q] = cursor[q] /\ after'[q] = after[q]
  BY MovesFacts
<1> QED
  BY <1>1 DEF AllLocked, Between, Passed

(* What they have reset stays reset if no counter leaves zero.             *)
LEMMA OthersZeroed ==
    ASSUME StatsInv, NEW r \in Rebuilders, NEW pc, NEW i \in Blocks,
           NEW then \in Afters, Moves(r, pc, i, then),
           \A b \in Blocks : /\ stats_[b] = 0 => stats_'[b] = 0
                             /\ boundary_crossings_[b] = 0 => boundary_crossings_'[b] = 0,
           ZeroedBy(r)'
    PROVE  ZeroedInv'
<1> SUFFICES ASSUME NEW q \in Rebuilders, q # r PROVE ZeroedBy(q)'
  BY DEF ZeroedInv
<1>1. StatsTypeOK /\ ZeroedBy(q)
  BY DEF StatsInv, ZeroedInv
<1>2. rpc'[q] = rpc[q] /\ cursor'[q] = cursor[q] /\ after'[q] = after[q]
  BY <1>1, MovesFacts
<1>3. AllLocked(q)' <=> AllLocked(q)
  BY <1>2 DEF AllLocked
<1>4. \A s : Passed(q, s)' <=> Passed(q, s)
  BY <1>2 DEF Passed
<1> HIDE DEF AllLocked, Passed
<1> QED
  BY <1>1, <1>2, <1>3, <1>4 DEF ZeroedBy

LEMMA UnderwaySplit ==
    ASSUME UNCHANGED update, NEW b, NEW s
    PROVE  Split(b, s)' <=> Split(b, s)
  BY DEF Split, WillCross, HasHit

(* A step that touches no counter: it begins a reset, if any, at 0.        *)
QuietStep(r, pc, i, then) ==
    /\ Moves(r, pc, i, then)
    /\ UNCHANGED <<counterVars, update>>
    /\ partitions_' \in Cuts /\ rlocked' \in [Rebuilders -> Int]
    /\ SnapshotsType' /\ new_partitions' \in [Rebuilders -> Cuts]
    /\ rpc[r] \notin Resetting /\ pc # "zerocrossings"
    /\ pc \in {"installed", "clearflag"} => rpc[r] \in {"installed", "clearflag"}
    /\ pc = "zerohits" \/ pc \notin Loops => i = 0

LEMMA QuietStepInvariant ==
    ASSUME StatsInv, NEW r \in Rebuilders, NEW pc, NEW i \in Blocks,
           NEW then \in Afters, QuietStep(r, pc, i, then), LocksInv', AllLockedInv'
    PROVE  StatsInv'
<1>1. /\ StatsTypeOK /\ UpdateInv /\ ZeroedInv /\ IndexInv
      /\ stats_' = stats_ /\ boundary_crossings_' = boundary_crossings_ /\ update' = update
      /\ Moves(r, pc, i, then)
  BY DEF StatsInv, QuietStep, counterVars
<1>2. /\ rpc' = [q \in Rebuilders |-> rpc'[q]] /\ rpc'[r] = pc
      /\ cursor' \in [Rebuilders -> Blocks] /\ cursor'[r] = i
      /\ after' \in [Rebuilders -> Afters]
      /\ \A q \in Rebuilders : q # r => rpc'[q] = rpc[q] /\ cursor'[q] = cursor[q]
  BY <1>1, MovesFacts
<1>3. StatsTypeOK'
  BY <1>1, <1>2 DEF QuietStep, SnapshotsType, StatsTypeOK
<1>4. UpdateInv'
  BY <1>1 DEF UpdateInv
<1>5. IndexInv'
  BY <1>1, <1>2 DEF QuietStep, IndexInv
<1>6. ZeroedInv'
  <2>1. rpc'[r] \in {"installed", "clearflag"} =>
           \A b \in Blocks : stats_'[b] = 0 /\ boundary_crossings_'[b] = 0
    BY <1>1, <1>2 DEF QuietStep, ZeroedInv, ZeroedBy
  <2>2. ASSUME rpc'[r] \in Resetting
        PROVE  \A b \in Blocks : ~Passed(r, b)' /\ ~(cursor'[r] > b)
    <3>1. rpc'[r] = "zerohits" /\ cursor'[r] = 0
      BY <1>2, <2>2 DEF QuietStep, Resetting
    <3> QED
      BY <3>1, BlockFacts DEF Passed
  <2>3. ZeroedBy(r)'
    BY <2>1, <2>2 DEF ZeroedBy
  <2> QED
    BY <1>1, <2>3, OthersZeroed
<1>7. SplitInv'
  <2> SUFFICES ASSUME NEW b \in Blocks \ {0}, NEW s \in Blocks, s = b - 1 \/ s = b,
                      \A q \in Rebuilders : ~Between(q, s, b)'
               PROVE  /\ boundary_crossings_'[b] <= stats_'[s] + 1
                      /\ Split(b, s)' => boundary_crossings_'[b] <= stats_'[s]
    BY DEF SplitInv
  <2>1. ~Between(r, s, b)
    BY DEF QuietStep, Between
  <2>2. \A q \in Rebuilders : Between(q, s, b) => Between(q, s, b)'
    BY <1>1, <2>1, OthersStay
  <2>3. Split(b, s)' => Split(b, s)
    BY <1>1, UnderwaySplit
  <2>4. boundary_crossings_'[b] <= boundary_crossings_[b] /\ stats_'[s] >= stats_[s]
    BY <1>1 DEF StatsTypeOK
  <2> QED
    BY <1>3, <2>2, <2>3, <2>4, SplitFrame
<1> QED
  BY <1>3, <1>4, <1>5, <1>6, <1>7 DEF StatsInv

(* Most steps take no lock and begin no installation either.               *)
LEMMA PlainStepInvariant ==
    ASSUME StatsInv, NEW r \in Rebuilders, NEW pc, NEW i \in Blocks,
           NEW then \in Afters, QuietStep(r, pc, i, then),
           UNCHANGED <<partitions_, rlocked>>, pc # "install",
           pc = "zerohits" => then # "installed"
    PROVE  StatsInv'
<1>1. /\ StatsTypeOK /\ LocksInv /\ AllLockedInv /\ Moves(r, pc, i, then)
      /\ update' = update /\ partitions_' = partitions_ /\ rlocked' = rlocked
  BY DEF StatsInv, QuietStep
<1>2. LocksInv'
  BY <1>1 DEF LocksInv, HeldBy, LocksOver, LockedBy
<1>3. AllLocked(r)' => AllLocked(r)
  <2>1. rpc'[r] = pc /\ after'[r] = then
    BY <1>1 DEF Moves, StatsTypeOK
  <2> QED
    BY <2>1 DEF QuietStep, AllLocked, Resetting
<1>4. \A q \in Rebuilders : AllLocked(q)' => AllLocked(q)
  BY <1>1, <1>3, OthersStay
<1>5. AllLockedInv'
  BY <1>1, <1>4 DEF AllLockedInv
<1> QED
  BY <1>2, <1>5, QuietStepInvariant

(* The stores of a reset.  A store to the hits opens the gap between them  *)
(* and the crossings, one to the crossings closes it.                      *)
LEMMA ZeroHitsInvariant ==
    ASSUME StatsInv, NEW r \in Rebuilders, ZeroHits(r)
    PROVE  StatsInv'
<1> DEFINE s0 == cursor[r]
<1>1. /\ StatsTypeOK /\ UpdateInv /\ LocksInv /\ AllLockedInv /\ ZeroedBy(r) /\ IndexInv
      /\ s0 \in Blocks /\ after[r] \in Afters
      /\ stats_ \in [Blocks -> Nat] /\ boundary_crossings_ \in [Blocks -> Nat]
      /\ cursor \in [Rebuilders -> Blocks] /\ after \in [Rebuilders -> Afters]
  BY DEF StatsInv, StatsTypeOK, ZeroedInv
<1>2. /\ rpc[r] = "zerohits" /\ rpc' = [rpc EXCEPT ![r] = "zerocrossings"]
      /\ stats_' = [stats_ EXCEPT ![s0] = 0]
      /\ boundary_crossings_' = boundary_crossings_ /\ cursor' = cursor /\ after' = after
      /\ UNCHANGED <<update, partitions_, current_stats, current_boundary_crossings,
                     new_partitions, rlocked>>
  BY DEF ZeroHits, StatsGoto, snapshotVars, planVars
<1>3. Moves(r, "zerocrossings", s0, after[r])
  BY <1>1, <1>2 DEF Moves
<1>4. /\ rpc' = [q \in Rebuilders |-> rpc'[q]] /\ rpc'[r] = "zerocrossings"
      /\ cursor'[r] = s0 /\ after'[r] = after[r]
      /\ \A q \in Rebuilders : q # r =>
            rpc'[q] = rpc[q] /\ cursor'[q] = cursor[q] /\ after'[q] = after[q]
  BY <1>1, <1>3, MovesFacts
<1>5. /\ stats_' \in [Blocks -> Nat] /\ stats_'[s0] = 0
      /\ \A s \in Blocks : s # s0 => stats_'[s] = stats_[s]
  BY <1>1, <1>2
<1>6. \A q \in Rebuilders : q # r =>
         /\ AllLocked(q)' <=> AllLocked(q)
         /\ \A s, b \in Blocks : Between(q, s, b)' <=> Between(q, s, b)
  BY <1>1, <1>3, OthersStay
<1>7. StatsTypeOK'
  BY <1>1, <1>2, <1>4, <1>5 DEF StatsTypeOK
<1>8. UpdateInv' /\ LocksInv'
  BY <1>1, <1>2 DEF UpdateInv, LocksInv, HeldBy, LocksOver, LockedBy
<1>9. AllLocked(r)' <=> AllLocked(r)
  BY <1>2, <1>4 DEF AllLocked, Resetting
<1>10. AllLockedInv'
  BY <1>1, <1>2, <1>6, <1>9 DEF AllLockedInv
<1>11. IndexInv'
  BY <1>1, <1>4 DEF IndexInv, Loops
<1> HIDE DEF s0
<1>12. ZeroedInv'
  <2>1. ASSUME AllLocked(r)
        PROVE  /\ \A s \in Blocks : Passed(r, s)' => stats_'[s] = 0
               /\ \A b \in Blocks : cursor'[r] > b => boundary_crossings_'[b] = 0
    <3>1. /\ \A s \in Blocks : Passed(r, s) => stats_[s] = 0
          /\ \A b \in Blocks : cursor[r] > b => boundary_crossings_[b] = 0
      BY <1>1, <1>2, <2>1 DEF ZeroedBy, Resetting
    <3>2. \A s \in Blocks : Passed(r, s)' => Passed(r, s) \/ s = s0
      BY <1>2, <1>4 DEF Passed, s0
    <3> QED
      BY <1>2, <1>5, <3>1, <3>2
  <2>2. ZeroedBy(r)'
    BY <1>4, <1>9, <2>1 DEF ZeroedBy
  <2> QED
    BY <1>1, <1>2, <1>3, <1>5, <2>2, OthersZeroed
<1>13. SplitInv'
  <2> SUFFICES ASSUME NEW b \in Blocks \ {0}, NEW s \in Blocks, s = b - 1 \/ s = b,
                      \A q \in Rebuilders : ~Between(q, s, b)'
               PROVE  /\ boundary_crossings_'[b] <= stats_'[s] + 1
                      /\ Split(b, s)' => boundary_crossings_'[b] <= stats_'[s]
    BY DEF SplitInv
  <2>0. b \in Int /\ s \in Int /\ s0 \in Int
    BY <1>1, BlockFacts
  <2>1. s # s0
    BY <1>4, <2>0 DEF Between, Passed, Resetting
  <2>2. Between(r, s, b) => Between(r, s, b)'
    BY <1>2, <1>4, <2>0, <2>1 DEF Between, Passed, Resetting, s0
  <2>3. \A q \in Rebuilders : Between(q, s, b) => Between(q, s, b)'
    BY <1>6, <2>2
  <2>4. Split(b, s)' => Split(b, s)
    BY <1>2, UnderwaySplit
  <2>5. boundary_crossings_'[b] <= boundary_crossings_[b] /\ stats_'[s] >= stats_[s]
    BY <1>1, <1>2, <1>5, <2>1
  <2> QED
    BY <1>7, <2>3, <2>4, <2>5, SplitFrame
<1> QED
  BY <1>7, <1>8, <1>10, <1>11, <1>12, <1>13 DEF StatsInv

LEMMA ZeroCrossingsInvariant ==
    ASSUME StatsInv, NEW r \in Rebuilders, ZeroCrossings(r)
    PROVE  StatsInv'
<1> DEFINE b0 == cursor[r]
           pc == IF b0 = kBlocks - 1 THEN after[r] ELSE "zerohits"
           next == IF b0 = kBlocks - 1 THEN 0 ELSE b0 + 1
<1>1. /\ StatsTypeOK /\ UpdateInv /\ LocksInv /\ AllLockedInv /\ ZeroedBy(r) /\ IndexInv
      /\ b0 \in Blocks /\ after[r] \in Afters
      /\ stats_ \in [Blocks -> Nat] /\ boundary_crossings_ \in [Blocks -> Nat]
      /\ cursor \in [Rebuilders -> Blocks] /\ after \in [Rebuilders -> Afters]
  BY DEF StatsInv, StatsTypeOK, ZeroedInv
<1>2. /\ rpc[r] = "zerocrossings" /\ rpc' = [rpc EXCEPT ![r] = pc]
      /\ boundary_crossings_' = [boundary_crossings_ EXCEPT ![b0] = 0]
      /\ stats_' = stats_ /\ after' = after
      /\ cursor' = [cursor EXCEPT ![r] = next]
      /\ UNCHANGED <<update, partitions_, current_stats, current_boundary_crossings,
                     new_partitions, rlocked>>
  BY DEF ZeroCrossings, StatsGoto, Advance, IsLast, snapshotVars, planVars
<1>3. /\ next \in Blocks
      /\ b0 = kBlocks - 1 => pc = after[r] /\ next = 0
      /\ b0 # kBlocks - 1 => pc = "zerohits" /\ next = b0 + 1
      /\ b0 \in Int /\ 0 <= b0 /\ b0 <= kBlocks - 1
  BY <1>1, BlockFacts
<1> HIDE DEF pc, next
<1>4. Moves(r, pc, next, after[r])
  BY <1>1, <1>2 DEF Moves
<1>5. /\ rpc' = [q \in Rebuilders |-> rpc'[q]] /\ rpc'[r] = pc
      /\ cursor' \in [Rebuilders -> Blocks] /\ cursor'[r] = next /\ after'[r] = after[r]
      /\ \A q \in Rebuilders : q # r =>
            rpc'[q] = rpc[q] /\ cursor'[q] = cursor[q] /\ after'[q] = after[q]
  BY <1>1, <1>3, <1>4, MovesFacts
<1>6. /\ boundary_crossings_' \in [Blocks -> Nat] /\ boundary_crossings_'[b0] = 0
      /\ \A b \in Blocks : b # b0 => boundary_crossings_'[b] = boundary_crossings_[b]
  BY <1>1, <1>2
<1>7. \A q \in Rebuilders : q # r =>
         /\ AllLocked(q)' <=> AllLocked(q)
         /\ \A s, b \in Blocks : Between(q, s, b)' <=> Between(q, s, b)
  BY <1>1, <1>3, <1>4, OthersStay
<1>8. StatsTypeOK'
  BY <1>1, <1>2, <1>5, <1>6 DEF StatsTypeOK
<1>9. UpdateInv' /\ LocksInv'
  BY <1>1, <1>2 DEF UpdateInv, LocksInv, HeldBy, LocksOver, LockedBy
<1>10. AllLocked(r)' => AllLocked(r)
  BY <1>1, <1>2, <1>3, <1>5 DEF AllLocked, Resetting, Afters
<1>11. AllLockedInv'
  BY <1>1, <1>2, <1>7, <1>10 DEF AllLockedInv
<1>12. IndexInv'
  BY <1>1, <1>3, <1>5 DEF IndexInv, Loops
<1> HIDE DEF b0
<1>13. ZeroedInv'
  <2>0. /\ \A b \in Blocks : b \in Int /\ 0 <= b /\ b <= kBlocks - 1
        /\ kBlocks \in Int
    BY BlockFacts
  <2>1. ASSUME AllLocked(r)'
        PROVE  /\ \A s \in Blocks : s <= b0 => stats_'[s] = 0
               /\ \A b \in Blocks : b <= b0 => boundary_crossings_'[b] = 0
    <3>1. /\ \A s \in Blocks : Passed(r, s) => stats_[s] = 0
          /\ \A b \in Blocks : b0 > b => boundary_crossings_[b] = 0
      BY <1>1, <1>2, <1>10, <2>1 DEF ZeroedBy, Resetting, b0
    <3>2. \A s \in Blocks : s <= b0 => Passed(r, s)
      BY <1>2, <1>3, <2>0 DEF Passed, b0
    <3> HIDE DEF Passed
    <3> QED
      BY <1>2, <1>3, <1>6, <2>0, <3>1, <3>2
  <2>2. CASE b0 = kBlocks - 1
    <3>1. rpc'[r] \notin Resetting
      BY <1>1, <1>3, <1>5, <2>2 DEF Resetting, Afters
    <3>2. ASSUME rpc'[r] \in {"installed", "clearflag"}
          PROVE  \A b \in Blocks : stats_'[b] = 0 /\ boundary_crossings_'[b] = 0
      <4>1. AllLocked(r)'
        BY <3>2 DEF AllLocked
      <4> HIDE DEF AllLocked
      <4> QED
        BY <2>0, <2>1, <2>2, <4>1
    <3> QED
      BY <1>1, <1>2, <1>3, <1>4, <1>6, <3>1, <3>2, OthersZeroed DEF ZeroedBy
  <2>3. CASE b0 # kBlocks - 1
    <3>1. rpc'[r] = "zerohits" /\ cursor'[r] = b0 + 1
      BY <1>3, <1>5, <2>3
    <3>2. \A s \in Blocks : Passed(r, s)' => s <= b0
      BY <1>3, <2>0, <3>1 DEF Passed
    <3>3. \A b \in Blocks : cursor'[r] > b => b <= b0
      BY <1>3, <2>0, <3>1
    <3>4. ZeroedBy(r)'
      BY <2>1, <3>1, <3>2, <3>3 DEF ZeroedBy
    <3> QED
      BY <1>1, <1>2, <1>3, <1>4, <1>6, <3>4, OthersZeroed
  <2> QED
    BY <2>2, <2>3
<1>14. SplitInv'
  <2> SUFFICES ASSUME NEW b \in Blocks \ {0}, NEW s \in Blocks, s = b - 1 \/ s = b,
                      \A q \in Rebuilders : ~Between(q, s, b)'
               PROVE  /\ boundary_crossings_'[b] <= stats_'[s] + 1
                      /\ Split(b, s)' => boundary_crossings_'[b] <= stats_'[s]
    BY DEF SplitInv
  <2>0. b \in Int /\ s \in Int /\ b <= kBlocks - 1 /\ kBlocks \in Int
    BY BlockFacts
  <2>1. CASE b = b0
    <3>1. boundary_crossings_'[b] = 0 /\ stats_'[s] \in Nat
      BY <1>1, <1>2, <1>6, <2>1
    <3> QED
      BY <3>1
  <2>2. CASE b # b0
    <3>1. Between(r, s, b) => Between(r, s, b)'
      <4> SUFFICES ASSUME Between(r, s, b) PROVE Between(r, s, b)'
        OBVIOUS
      <4>1. b0 >= s /\ b0 <= b
        BY <1>3, <2>0 DEF Between, Passed, b0
      <4>2. rpc'[r] = "zerohits" /\ cursor'[r] = b0 + 1
        BY <1>3, <1>5, <2>0, <2>2, <4>1
      <4> QED
        BY <1>3, <2>0, <2>2, <4>1, <4>2 DEF Between, Passed, Resetting
    <3>2. \A q \in Rebuilders : Between(q, s, b) => Between(q, s, b)'
      BY <1>7, <3>1
    <3>3. Split(b, s)' => Split(b, s)
      BY <1>2, UnderwaySplit
    <3>4. boundary_crossings_'[b] <= boundary_crossings_[b] /\ stats_'[s] >= stats_[s]
      BY <1>1, <1>2, <1>6, <2>2
    <3> QED
      BY <1>8, <3>2, <3>3, <3>4, SplitFrame
  <2> QED
    BY <2>1, <2>2
<1> QED
  BY <1>8, <1>9, <1>11, <1>12, <1>13, <1>14 DEF StatsInv

(* All locks, one after the other, and back again.                         *)
LEMMA LockAllNextInvariant ==
    ASSUME StatsInv, NEW r \in Rebuilders, LockAllNext(r)
    PROVE  StatsInv'
<1> DEFINE pc == IF rlocked[r] = LastLock THEN "install" ELSE "lockall"
<1>1. /\ StatsTypeOK /\ LocksInv /\ AllLockedInv /\ IndexInv
      /\ cursor \in [Rebuilders -> Blocks] /\ after \in [Rebuilders -> Afters]
      /\ rlocked \in [Rebuilders -> Int] /\ rlocked[r] \in Int
  BY DEF StatsInv, StatsTypeOK
<1>2. /\ rpc[r] = "lockall" /\ rpc' = [rpc EXCEPT ![r] = pc]
      /\ \A t \in Samplers : rlocked[r] \notin HeldBy(t)
      /\ rlocked' = [rlocked EXCEPT ![r] = @ + 1]
      /\ cursor' = cursor /\ after' = after /\ update' = update /\ partitions_' = partitions_
      /\ UNCHANGED <<counterVars, current_stats, current_boundary_crossings, new_partitions>>
  BY DEF LockAllNext, StatsGoto, snapshotVars
<1>3. /\ rlocked' \in [Rebuilders -> Int] /\ rlocked'[r] = rlocked[r] + 1
      /\ \A q \in Rebuilders : q # r => rlocked'[q] = rlocked[q]
  BY <1>1, <1>2
<1>4. /\ pc \in {"install", "lockall"}
      /\ pc = "install" => rlocked'[r] = kLockCnt
  BY <1>1, <1>3, BlockFacts DEF LastLock
<1> HIDE DEF pc
<1>5. Moves(r, pc, cursor[r], after[r])
  BY <1>1, <1>2 DEF Moves
<1>6. QuietStep(r, pc, cursor[r], after[r])
  <2>1. cursor[r] = 0
    BY <1>1, <1>2 DEF IndexInv, Loops
  <2> QED
    BY <1>1, <1>2, <1>3, <1>4, <1>5, <2>1
       DEF QuietStep, StatsTypeOK, SnapshotsType, Resetting
<1>7. LocksInv'
  <2>1. \A t \in Samplers : HeldBy(t)' = HeldBy(t)
    BY <1>2 DEF HeldBy, LocksOver
  <2>2. \A q \in Rebuilders : q # r => LockedBy(q)' = LockedBy(q)
    BY <1>3 DEF LockedBy
  <2>3. LockedBy(r)' \subseteq LockedBy(r) \cup {rlocked[r]}
    BY <1>1, <1>3 DEF LockedBy
  <2> HIDE DEF HeldBy, LockedBy
  <2>4. ASSUME NEW t \in Samplers, NEW q \in Rebuilders
        PROVE  HeldBy(t)' \cap LockedBy(q)' = {}
    <3>1. HeldBy(t) \cap LockedBy(q) = {} /\ rlocked[r] \notin HeldBy(t)
      BY <1>1, <1>2 DEF LocksInv
    <3>2. CASE q = r
      BY <2>1, <2>3, <3>1, <3>2
    <3>3. CASE q # r
      BY <2>1, <2>2, <3>1, <3>3
    <3> QED
      BY <3>2, <3>3
  <2> QED
    BY <1>1, <2>1, <2>4 DEF LocksInv
<1>8. AllLockedInv'
  <2>1. AllLocked(r)' => rlocked'[r] = kLockCnt
    <3>1. rpc'[r] = pc
      BY <1>1, <1>4, <1>5, MovesFacts
    <3> QED
      BY <1>4, <3>1 DEF AllLocked, Resetting
  <2>2. \A q \in Rebuilders : q # r => (AllLocked(q)' => AllLocked(q))
    BY <1>1, <1>4, <1>5, OthersStay
  <2> QED
    BY <1>1, <1>3, <2>1, <2>2 DEF AllLockedInv
<1> QED
  BY <1>1, <1>4, <1>6, <1>7, <1>8, QuietStepInvariant

LEMMA UnlockAllLastInvariant ==
    ASSUME StatsInv, NEW r \in Rebuilders, UnlockAllLast(r)
    PROVE  StatsInv'
<1> DEFINE pc == IF rlocked[r] = 1 THEN "idle" ELSE "unlockall"
<1>1. /\ StatsTypeOK /\ LocksInv /\ AllLockedInv /\ IndexInv
      /\ cursor \in [Rebuilders -> Blocks] /\ after \in [Rebuilders -> Afters]
      /\ rlocked \in [Rebuilders -> Int] /\ rlocked[r] \in Int
  BY DEF StatsInv, StatsTypeOK
<1>2. /\ rpc[r] = "unlockall" /\ rpc' = [rpc EXCEPT ![r] = pc]
      /\ rlocked' = [rlocked EXCEPT ![r] = @ - 1]
      /\ cursor' = cursor /\ after' = after /\ update' = update /\ partitions_' = partitions_
      /\ UNCHANGED <<counterVars, current_stats, current_boundary_crossings, new_partitions>>
  BY DEF UnlockAllLast, StatsGoto, snapshotVars
<1>3. /\ rlocked' \in [Rebuilders -> Int] /\ rlocked'[r] = rlocked[r] - 1
      /\ \A q \in Rebuilders : q # r => rlocked'[q] = rlocked[q]
  BY <1>1, <1>2
<1>4. pc \in {"idle", "unlockall"}
  OBVIOUS
<1> HIDE DEF pc
<1>5. Moves(r, pc, cursor[r], after[r])
  BY <1>1, <1>2 DEF Moves
<1>6. QuietStep(r, pc, cursor[r], after[r])
  <2>1. cursor[r] = 0
    BY <1>1, <1>2 DEF IndexInv, Loops
  <2> QED
    BY <1>1, <1>2, <1>3, <1>4, <1>5, <2>1
       DEF QuietStep, StatsTypeOK, SnapshotsType, Resetting
<1>7. LocksInv'
  <2>1. \A t \in Samplers : HeldBy(t)' = HeldBy(t)
    BY <1>2 DEF HeldBy, LocksOver
  <2>2. \A q \in Rebuilders : LockedBy(q)' \subseteq LockedBy(q)
    <3> TAKE q \in Rebuilders
    <3>1. rlocked'[q] \in Int /\ rlocked[q] \in Int /\ rlocked'[q] <= rlocked[q]
      BY <1>1, <1>3
    <3> QED
      BY <3>1 DEF LockedBy
  <2> HIDE DEF HeldBy, LockedBy
  <2> QED
    BY <1>1, <2>1, <2>2 DEF LocksInv
<1>8. AllLockedInv'
  <2>1. ~AllLocked(r)'
    <3>1. rpc'[r] = pc
      BY <1>1, <1>4, <1>5, MovesFacts
    <3> QED
      BY <1>4, <3>1 DEF AllLocked, Resetting
  <2>2. \A q \in Rebuilders : q # r => (AllLocked(q)' => AllLocked(q))
    BY <1>1, <1>4, <1>5, OthersStay
  <2> QED
    BY <1>1, <1>3, <2>1, <2>2 DEF AllLockedInv
<1> QED
  BY <1>1, <1>4, <1>6, <1>7, <1>8, QuietStepInvariant

(* Who installs has all locks: nobody else has any, under the old          *)
(* partitioning or under the new one.                                      *)
LEMMA InstallInvariant ==
    ASSUME StatsInv, NEW r \in Rebuilders, Install(r)
    PROVE  StatsInv'
<1>1. /\ StatsTypeOK /\ LocksInv /\ AllLockedInv /\ IndexInv
      /\ cursor \in [Rebuilders -> Blocks] /\ after \in [Rebuilders -> Afters]
      /\ new_partitions \in [Rebuilders -> Cuts] /\ UniformCuts \in Cuts
  BY UniformCutsType DEF StatsInv, StatsTypeOK
<1>2. /\ rpc[r] = "install" /\ rpc' = [rpc EXCEPT ![r] = "zerohits"]
      /\ after' = [after EXCEPT ![r] = "installed"]
      /\ partitions_' = new_partitions[r]
      /\ new_partitions' = [new_partitions EXCEPT ![r] = UniformCuts]
      /\ cursor' = cursor /\ update' = update /\ rlocked' = rlocked
      /\ UNCHANGED <<counterVars, current_stats, current_boundary_crossings>>
  BY DEF Install, ResetThen, StatsGoto, snapshotVars
<1>3. Moves(r, "zerohits", cursor[r], "installed") /\ "installed" \in Afters
  BY <1>1, <1>2 DEF Moves, Afters
<1>4. AllLocked(r) /\ rlocked[r] = kLockCnt
  BY <1>1, <1>2 DEF AllLockedInv, AllLocked
<1>5. QuietStep(r, "zerohits", cursor[r], "installed")
  <2>1. cursor[r] = 0
    BY <1>1, <1>2 DEF IndexInv, Loops
  <2>2. new_partitions' \in [Rebuilders -> Cuts] /\ partitions_' \in Cuts
    BY <1>1, <1>2
  <2> QED
    BY <1>1, <1>2, <1>3, <2>1, <2>2
       DEF QuietStep, StatsTypeOK, SnapshotsType, Resetting
<1>6. LocksInv'
  <2>1. \A t \in Samplers : update'[t].phase = "out"
    BY <1>2, <1>4, NobodySamples
  <2>2. \A t \in Samplers : HeldBy(t)' = {}
    BY <2>1 DEF HeldBy
  <2> QED
    BY <2>2 DEF LocksInv
<1>7. AllLockedInv'
  <2>1. \A q \in Rebuilders : q # r => (AllLocked(q)' => AllLocked(q))
    BY <1>1, <1>3, OthersStay
  <2> QED
    BY <1>1, <1>2, <1>4, <2>1 DEF AllLockedInv
<1> QED
  BY <1>1, <1>3, <1>5, <1>6, <1>7, QuietStepInvariant

(* The other steps: from one point to the next.                            *)
GoesTo(r, from, pc, then) ==
    /\ rpc[r] = from /\ rpc' = [rpc EXCEPT ![r] = pc]
    /\ after' = [after EXCEPT ![r] = then]
    /\ UNCHANGED <<counterVars, update, partitions_, rlocked, cursor>>
    /\ SnapshotsType' /\ new_partitions' \in [Rebuilders -> Cuts]

LEMMA GoesToInvariant ==
    ASSUME StatsInv, NEW r \in Rebuilders, NEW from, from \notin Loops,
           NEW pc, pc \notin {"zerocrossings", "install", "installed"},
           NEW then \in Afters, GoesTo(r, from, pc, then),
           pc = "clearflag" => from = "installed", pc = "zerohits" => then # "installed"
    PROVE  StatsInv'
<1>1. /\ StatsTypeOK /\ IndexInv /\ cursor \in [Rebuilders -> Blocks]
      /\ partitions_ \in Cuts /\ rlocked \in [Rebuilders -> Int]
  BY DEF StatsInv, StatsTypeOK
<1>2. cursor[r] = 0 /\ cursor[r] \in Blocks
  BY <1>1 DEF GoesTo, IndexInv
<1>3. Moves(r, pc, cursor[r], then)
  BY <1>1 DEF GoesTo, Moves
<1>4. QuietStep(r, pc, cursor[r], then)
  BY <1>1, <1>2, <1>3 DEF GoesTo, QuietStep, Resetting, Loops
<1>5. UNCHANGED <<partitions_, rlocked>>
  BY DEF GoesTo
<1> QED
  BY <1>2, <1>4, <1>5, PlainStepInvariant

LEMMA AfterType ==
    ASSUME StatsInv, NEW r \in Rebuilders
    PROVE  after[r] \in Afters
  BY DEF StatsInv, StatsTypeOK

LEMMA AfterStays ==
    ASSUME StatsInv, UNCHANGED after, NEW r \in Rebuilders
    PROVE  after' = [after EXCEPT ![r] = after[r]] /\ after[r] \in Afters
  BY DEF StatsInv, StatsTypeOK

LEMMA SnapshotsStay ==
    ASSUME StatsInv, NEW r \in Rebuilders, UNCHANGED snapshotVars \/ DropSnapshots(r)
    PROVE  SnapshotsType'
<1>1. /\ current_stats \in [Rebuilders -> [Blocks -> Nat]]
      /\ current_boundary_crossings \in [Rebuilders -> [Blocks -> Nat]]
  BY DEF StatsInv, StatsTypeOK
<1>2. Nothing \in [Blocks -> Nat]
  BY NothingIsStatistics
<1> QED
  BY <1>1, <1>2 DEF SnapshotsType, snapshotVars, DropSnapshots

LEMMA PlanStays ==
    ASSUME StatsInv, UNCHANGED planVars
    PROVE  new_partitions' \in [Rebuilders -> Cuts] /\ UNCHANGED rlocked
  BY DEF StatsInv, StatsTypeOK, planVars

(* They keep after, or set it to what is to follow a reset.                *)
LEMMA PlainStepsInvariant ==
    ASSUME StatsInv, NEW r \in Rebuilders,
           UnlockStats(r) \/ NotDue(r) \/ ForgetUniform(r) \/ RebuildDue(r)
           \/ TooLittleGain(r) \/ ClearFlagNoGain(r) \/ ReleaseStats(r)
           \/ ClearFlag(r) \/ AnyHits(r) \/ ExchangeFlag(r)
    PROVE  StatsInv'
<1>1. CASE UnlockStats(r)
  <2>1. GoesTo(r, "unlock", "idle", "idle")
    BY <1>1, SnapshotsStay, PlanStays DEF UnlockStats, GoesTo, StatsGoto
  <2> QED
    BY <2>1, GoesToInvariant DEF Loops, Afters
<1>2. CASE NotDue(r)
  <2>1. GoesTo(r, "decide", "unlock", after[r])
    BY <1>2, AfterStays, SnapshotsStay, PlanStays DEF NotDue, GoesTo, StatsGoto
  <2> QED
    BY <2>1, AfterType, GoesToInvariant DEF Loops, Afters
<1>3. CASE ForgetUniform(r)
  <2>1. GoesTo(r, "decide", "zerohits", "unlock")
    BY <1>3, SnapshotsStay, PlanStays DEF ForgetUniform, GoesTo, StatsGoto, ResetThen
  <2> QED
    BY <2>1, GoesToInvariant DEF Loops, Afters
<1>4. CASE RebuildDue(r)
  <2>1. GoesTo(r, "decide", "flag", after[r])
    BY <1>4, AfterStays, SnapshotsStay, PlanStays DEF RebuildDue, GoesTo, StatsGoto
  <2> QED
    BY <2>1, AfterType, GoesToInvariant DEF Loops, Afters
<1>5. CASE TooLittleGain(r)
  <2>1. GoesTo(r, "gain", "zerohits", "nogain")
    BY <1>5, SnapshotsStay, PlanStays DEF TooLittleGain, GoesTo, StatsGoto, ResetThen
  <2> QED
    BY <2>1, GoesToInvariant DEF Loops, Afters
<1>6. CASE ClearFlagNoGain(r)
  <2>1. GoesTo(r, "nogain", "unlock", after[r])
    BY <1>6, AfterStays, SnapshotsStay, PlanStays DEF ClearFlagNoGain, GoesTo, StatsGoto
  <2> QED
    BY <2>1, AfterType, GoesToInvariant DEF Loops, Afters
<1>7. CASE ReleaseStats(r)
  <2>1. GoesTo(r, "installed", "clearflag", "idle")
    BY <1>7, SnapshotsStay, PlanStays DEF ReleaseStats, GoesTo, StatsGoto
  <2> QED
    BY <2>1, GoesToInvariant DEF Loops, Afters
<1>8. CASE ClearFlag(r)
  <2>1. GoesTo(r, "clearflag", "unlockall", after[r])
    BY <1>8, AfterStays, SnapshotsStay, PlanStays DEF ClearFlag, GoesTo, StatsGoto
  <2> QED
    BY <2>1, AfterType, GoesToInvariant DEF Loops, Afters
<1>9. CASE AnyHits(r)
  <2> DEFINE pc == IF Total(current_stats[r]) = 0 THEN "idle" ELSE "flag"
  <2>1. GoesTo(r, "nonzero", pc, after[r])
    BY <1>9, AfterStays, SnapshotsStay, PlanStays DEF AnyHits, GoesTo, StatsGoto
  <2>2. pc \notin {"zerocrossings", "install", "installed", "clearflag", "zerohits"}
    OBVIOUS
  <2> HIDE DEF pc
  <2> QED
    BY <2>1, <2>2, AfterType, GoesToInvariant DEF Loops, Afters
<1>10. CASE ExchangeFlag(r)
  <2> DEFINE pc == IF rebuild_flag_ THEN "idle" ELSE "hits"
  <2>1. GoesTo(r, "flag", pc, after[r])
    BY <1>10, AfterStays, SnapshotsStay, PlanStays DEF ExchangeFlag, GoesTo, StatsGoto
  <2>2. pc \notin {"zerocrossings", "install", "installed", "clearflag", "zerohits"}
    OBVIOUS
  <2> HIDE DEF pc
  <2> QED
    BY <2>1, <2>2, AfterType, GoesToInvariant DEF Loops, Afters
<1> QED
  BY <1>1, <1>2, <1>3, <1>4, <1>5, <1>6, <1>7, <1>8, <1>9, <1>10

LEMMA EnoughGainInvariant ==
    ASSUME StatsInv, NEW r \in Rebuilders, EnoughGain(r)
    PROVE  StatsInv'
<1>1. IsStatistics(current_stats[r], current_boundary_crossings[r])
  BY DEF StatsInv, StatsTypeOK, IsStatistics
<1>2. Optimized(r) \in Cuts
  BY <1>1, OptimizeYieldsCuts DEF Optimized
<1>3. new_partitions' \in [Rebuilders -> Cuts]
  BY <1>2 DEF EnoughGain, StatsInv, StatsTypeOK
<1>4. GoesTo(r, "gain", "lockall", after[r])
  BY <1>3, AfterStays, SnapshotsStay DEF EnoughGain, GoesTo, StatsGoto
<1> QED
  BY <1>4, AfterType, GoesToInvariant DEF Loops, Afters

(* The calls, made from outside.                                           *)
LEMMA CallsInvariant ==
    ASSUME StatsInv,
           \/ \E c \in Callers : RebuildNow(c)
           \/ \E c \in Savers : ForceSaveStats(c)
           \/ ShouldRebuild \/ StartRebuilder \/ StopRebuilder
    PROVE  StatsInv'
<1>1. rebuild_thread_ \in Rebuilders /\ Callers \subseteq Rebuilders /\ Savers \subseteq Rebuilders
  BY DEF Rebuilders
<1>2. ASSUME NEW c \in Callers, RebuildNow(c) PROVE StatsInv'
  <2>1. GoesTo(c, "idle", "now", after[c])
    BY <1>1, <1>2, AfterStays, SnapshotsStay, PlanStays DEF RebuildNow, GoesTo, StatsGoto
  <2> QED
    BY <1>1, <2>1, AfterType, GoesToInvariant DEF Loops, Afters
<1>3. ASSUME NEW c \in Savers, ForceSaveStats(c) PROVE StatsInv'
  <2>1. GoesTo(c, "idle", "zerohits", "unlock")
    BY <1>1, <1>3, SnapshotsStay, PlanStays DEF ForceSaveStats, GoesTo, StatsGoto, ResetThen
  <2> QED
    BY <1>1, <2>1, GoesToInvariant DEF Loops, Afters
<1>4. CASE ShouldRebuild
  <2>1. GoesTo(rebuild_thread_, "idle", "should", after[rebuild_thread_])
    BY <1>1, <1>4, AfterStays, SnapshotsStay, PlanStays DEF ShouldRebuild, GoesTo, StatsGoto
  <2> QED
    BY <1>1, <2>1, AfterType, GoesToInvariant DEF Loops, Afters
<1>5. CASE StartRebuilder
  <2>1. GoesTo(rebuild_thread_, "none", "idle", after[rebuild_thread_])
    BY <1>1, <1>5, AfterStays, SnapshotsStay, PlanStays DEF StartRebuilder, GoesTo, StatsGoto
  <2> QED
    BY <1>1, <2>1, AfterType, GoesToInvariant DEF Loops, Afters
<1>6. CASE StopRebuilder
  <2>1. GoesTo(rebuild_thread_, "idle", "none", after[rebuild_thread_])
    BY <1>1, <1>6, AfterStays, SnapshotsStay, PlanStays DEF StopRebuilder, GoesTo, StatsGoto
  <2> QED
    BY <1>1, <2>1, AfterType, GoesToInvariant DEF Loops, Afters
<1> QED
  BY <1>2, <1>3, <1>4, <1>5, <1>6

(* The loads of a snapshot.                                                *)
LEMMA AdvanceFacts ==
    ASSUME StatsInv, NEW r \in Rebuilders, Advance(r)
    PROVE  \E i \in Blocks : /\ cursor' = [cursor EXCEPT ![r] = i]
                             /\ IsLast(r) => i = 0
<1>1. cursor \in [Rebuilders -> Blocks] /\ cursor[r] \in Blocks
  BY DEF StatsInv, StatsTypeOK
<1> DEFINE i == IF cursor[r] = kBlocks - 1 THEN 0 ELSE cursor[r] + 1
<1>2. cursor' = [cursor EXCEPT ![r] = i]
  BY DEF Advance
<1>3. i \in Blocks /\ (IsLast(r) => i = 0)
  BY <1>1, BlockFacts DEF IsLast
<1> QED
  BY <1>2, <1>3

LEMMA LoadInvariant ==
    ASSUME StatsInv, NEW r \in Rebuilders, LoadHits(r) \/ LoadCrossings(r)
    PROVE  StatsInv'
<1>0. /\ current_stats \in [Rebuilders -> [Blocks -> Nat]]
      /\ current_boundary_crossings \in [Rebuilders -> [Blocks -> Nat]]
      /\ stats_ \in [Blocks -> Nat] /\ boundary_crossings_ \in [Blocks -> Nat]
      /\ cursor[r] \in Blocks /\ partitions_ \in Cuts /\ rlocked \in [Rebuilders -> Int]
      /\ rpc = [q \in Rebuilders |-> rpc[q]]
  BY DEF StatsInv, StatsTypeOK
<1>1. Advance(r) /\ UNCHANGED <<counterVars, update, partitions_, after, planVars>>
  BY DEF LoadHits, LoadCrossings
<1>2. PICK i \in Blocks : cursor' = [cursor EXCEPT ![r] = i] /\ (IsLast(r) => i = 0)
  BY <1>1, AdvanceFacts
<1>3. SnapshotsType'
  <2>1. CASE LoadHits(r)
    BY <1>0, <2>1 DEF LoadHits, SnapshotsType
  <2>2. CASE LoadCrossings(r)
    BY <1>0, <2>2 DEF LoadCrossings, SnapshotsType
  <2> QED
    BY <2>1, <2>2
<1>4. /\ after' = [after EXCEPT ![r] = after[r]] /\ after[r] \in Afters
      /\ new_partitions' \in [Rebuilders -> Cuts] /\ UNCHANGED rlocked
  BY <1>1, AfterStays, PlanStays
<1>5. ASSUME NEW pc, rpc' = [rpc EXCEPT ![r] = pc], rpc[r] \notin Resetting,
             pc \in {"should", "now", "hits", "crossings"} \/
                (IsLast(r) /\ pc \in {"decide", "nonzero", "gain"})
      PROVE  StatsInv'
  <2>1. QuietStep(r, pc, i, after[r])
    BY <1>0, <1>1, <1>2, <1>3, <1>4, <1>5 DEF QuietStep, Moves, Loops
  <2> QED
    BY <1>1, <1>4, <1>5, <2>1, PlainStepInvariant
<1>6. CASE LoadHits(r)
  <2> DEFINE pc == IF IsLast(r) THEN SnapshotThen(rpc[r]) ELSE rpc[r]
  <2>1. rpc[r] \in {"should", "now", "hits"} /\ rpc' = [rpc EXCEPT ![r] = pc]
    BY <1>6 DEF LoadHits
  <2>2. SnapshotThen(rpc[r]) \in {"decide", "nonzero", "crossings"}
    BY <2>1 DEF SnapshotThen
  <2>3. /\ rpc[r] \notin Resetting
        /\ pc \in {"should", "now", "hits", "crossings"} \/
              (IsLast(r) /\ pc \in {"decide", "nonzero", "gain"})
    BY <2>1, <2>2 DEF Resetting
  <2> HIDE DEF pc
  <2> QED
    BY <1>5, <2>1, <2>3
<1>7. CASE LoadCrossings(r)
  <2> DEFINE pc == IF IsLast(r) THEN "gain" ELSE "crossings"
  <2>1. rpc[r] = "crossings" /\ rpc' = [rpc EXCEPT ![r] = pc]
    BY <1>7 DEF LoadCrossings, StatsGoto
  <2>2. /\ rpc[r] \notin Resetting
        /\ pc \in {"should", "now", "hits", "crossings"} \/
              (IsLast(r) /\ pc \in {"decide", "nonzero", "gain"})
    BY <2>1 DEF Resetting
  <2> HIDE DEF pc
  <2> QED
    BY <1>5, <2>1, <2>2
<1> QED
  BY <1>6, <1>7

-----------------------------------------------------------------------------

LEMMA StatsNextInvariant == StatsInv /\ [StatsNext]_statsVars => StatsInv'
<1> SUFFICES ASSUME StatsInv, [StatsNext]_statsVars PROVE StatsInv'
  OBVIOUS
<1>1. ASSUME NEW t \in Samplers, SamplerStep(t) PROVE StatsInv'
  BY <1>1, UpdateStatsInvariant, CountHitInvariant, CountCrossingInvariant DEF SamplerStep
<1>2. ASSUME NEW r \in Rebuilders, RebuilderStep(r) PROVE StatsInv'
  <2>1. CASE ZeroHits(r) \/ ZeroCrossings(r)
    BY <2>1, ZeroHitsInvariant, ZeroCrossingsInvariant
  <2>2. CASE LoadHits(r) \/ LoadCrossings(r)
    BY <2>2, LoadInvariant
  <2>3. CASE EnoughGain(r)
    BY <2>3, EnoughGainInvariant
  <2>4. CASE LockAllNext(r) \/ Install(r) \/ UnlockAllLast(r)
    BY <2>4, LockAllNextInvariant, InstallInvariant, UnlockAllLastInvariant
  <2>5. CASE \/ UnlockStats(r) \/ NotDue(r) \/ ForgetUniform(r) \/ RebuildDue(r)
             \/ AnyHits(r) \/ ExchangeFlag(r) \/ TooLittleGain(r)
             \/ ClearFlagNoGain(r) \/ ReleaseStats(r) \/ ClearFlag(r)
    BY <2>5, PlainStepsInvariant
  <2> QED
    BY <1>2, <2>1, <2>2, <2>3, <2>4, <2>5 DEF RebuilderStep
<1>3. CASE UNCHANGED statsVars
  <2>1. UNCHANGED <<stats_, boundary_crossings_, partitions_, update, rpc, cursor, after,
                    current_stats, current_boundary_crossings, new_partitions, rlocked>>
    BY <1>3 DEF statsVars, counterVars, snapshotVars, planVars
  <2>2. (StatsTypeOK /\ UpdateInv /\ LocksInv)'
    BY <2>1 DEF StatsInv, StatsTypeOK, UpdateInv, LocksInv, HeldBy, LocksOver, LockedBy
  <2>3. (AllLockedInv /\ ZeroedInv /\ IndexInv)'
    BY <2>1 DEF StatsInv, AllLockedInv, AllLocked, ZeroedInv, ZeroedBy, Passed, IndexInv
  <2>4. SplitInv'
    BY <2>1 DEF StatsInv, SplitInv, Split, WillCross, HasHit, Between, Passed
  <2> QED
    BY <2>2, <2>3, <2>4 DEF StatsInv
<1> QED
  BY <1>1, <1>2, <1>3, CallsInvariant DEF StatsNext

LEMMA StatsInitInvariant == StatsInit => StatsInv
<1> SUFFICES ASSUME StatsInit PROVE StatsInv
  OBVIOUS
<1>1. /\ stats_ = Nothing /\ boundary_crossings_ = Nothing
      /\ \A t \in Samplers : update[t].phase = "out"
      /\ \A r \in Rebuilders : rpc[r] \in {"none", "idle"} /\ cursor[r] = 0
  BY DEF StatsInit, NoUpdate
<1>2. StatsTypeOK
  <2>1. NoUpdate \in Updates
    BY BlockFacts DEF NoUpdate, Updates
  <2>2. 0 \in Blocks /\ UniformCuts \in Cuts /\ Nothing \in [Blocks -> Nat] /\ "idle" \in Afters
    BY BlockFacts, UniformCutsType, NothingIsStatistics DEF Afters
  <2> HIDE DEF Updates, Afters
  <2> QED
    BY <2>1, <2>2 DEF StatsInit, StatsTypeOK
<1>3. UpdateInv /\ LocksInv
  BY <1>1 DEF UpdateInv, LocksInv, HeldBy
<1>4. AllLockedInv /\ ZeroedInv /\ IndexInv
  BY <1>1 DEF AllLockedInv, AllLocked, Resetting, ZeroedInv, ZeroedBy, IndexInv
<1>5. SplitInv
  <2>1. \A b \in Blocks : boundary_crossings_[b] = 0 /\ stats_[b] = 0
    BY <1>1, NothingIsStatistics
  <2> QED
    BY <2>1 DEF SplitInv
<1> QED
  BY <1>2, <1>3, <1>4, <1>5 DEF StatsInv

LEMMA StatsInvariant == StatsSpec => []StatsInv
  BY StatsInitInvariant, StatsNextInvariant, PTL DEF StatsSpec

(* However samples, resets and rebuilds interleave, at most one crossing   *)
(* of a boundary lacks its hits: the queries that cross it exclude each    *)
(* other, and every reset clears hits before crossings.                    *)
THEOREM TornBounded == StatsSpec => []TornByAtMostOne
<1>1. StatsInv => TornByAtMostOne
  <2> SUFFICES ASSUME StatsInv, NEW b \in Blocks \ {0}, NEW s \in {b - 1, b},
                      \A r \in Rebuilders : ~Between(r, s, b)
               PROVE  boundary_crossings_[b] <= stats_[s] + 1
    BY DEF TornByAtMostOne
  <2>1. s \in Blocks /\ (s = b - 1 \/ s = b)
    BY BlockFacts
  <2> QED
    BY <2>1 DEF StatsInv, SplitInv
<1> QED
  BY <1>1, StatsInvariant, PTL

(* Who installs a partitioning has reset the statistics with all locks     *)
(* held, and nobody has counted anything since.                            *)
THEOREM StartsFresh == StatsSpec => []FreshStatistics
<1>1. StatsInv => FreshStatistics
  <2> SUFFICES ASSUME StatsInv, NEW r \in Rebuilders, rpc[r] \in {"installed", "clearflag"}
               PROVE  stats_ = Nothing /\ boundary_crossings_ = Nothing
    BY DEF FreshStatistics
  <2>1. \A b \in Blocks : stats_[b] = 0 /\ boundary_crossings_[b] = 0
    BY DEF StatsInv, ZeroedInv, ZeroedBy
  <2>2. stats_ \in [Blocks -> Nat] /\ boundary_crossings_ \in [Blocks -> Nat]
    BY DEF StatsInv, StatsTypeOK
  <2> QED
    BY <2>1, <2>2 DEF Nothing
<1> QED
  BY <1>1, StatsInvariant, PTL

(* OptimizePartitions is correct: whatever the snapshots have caught, it   *)
(* returns a partitioning, and one that no other undercuts on them.        *)
THEOREM OptimizeCorrect == StatsSpec => []OptimizeIsOptimal
<1>1. StatsInv => OptimizeIsOptimal
  <2> SUFFICES ASSUME StatsInv, NEW r \in Rebuilders
               PROVE  LET found == Optimized(r)
                          cost(cuts) == PartitionCost(cuts, current_stats[r],
                                                      current_boundary_crossings[r])
                      IN  /\ found \in Cuts
                          /\ \A cuts \in Cuts : cost(found) <= cost(cuts)
    BY DEF OptimizeIsOptimal
  <2>1. IsStatistics(current_stats[r], current_boundary_crossings[r])
    BY DEF StatsInv, StatsTypeOK, IsStatistics
  <2> QED
    BY <2>1, OptimizeYieldsCuts, TableIsReached, TableIsLowerBound DEF Optimized
<1> QED
  BY <1>1, StatsInvariant, PTL
=============================================================================
