------------------------- MODULE V700Adapter_proofs -------------------------
(***************************************************************************)
(* NaiveLock keeps the promise of WriteQuery under any client, and the     *)
(* adapter on top of it is a dictionary; the harness executes and counts   *)
(* the operations it was given: for any number of threads, keys and locks, *)
(* and any stages of the benchmark.                                        *)
(***************************************************************************)
EXTENDS V700Adapter, WellFoundedInduction, TLAPS

-----------------------------------------------------------------------------
(* Slots and locks                                                         *)

(* A quotient does not decrease with its dividend.                         *)
LEMMA DivMonotone ==
    ASSUME NEW a \in Nat, NEW b \in Nat, NEW n \in Nat \ {0}, a <= b
    PROVE  /\ a \div n \in Nat /\ b \div n \in Nat
           /\ a \div n <= b \div n
<1> DEFINE d == a \div n
           e == b \div n
<1>1. d \in Nat /\ e \in Nat /\ n * d <= a /\ b < n * e + n
  OBVIOUS
<1>2. SUFFICES ASSUME e + 1 <= d PROVE FALSE
  BY <1>1
<1>3. n * (e + 1) <= n * d
  BY <1>1, <1>2
<1> QED
  BY <1>1, <1>3

(* Every key has a slot of its own, between those of KEY_MIN and KEY_MAX.  *)
LEMMA SlotOfKey ==
    /\ ArraySize \in Nat \ {0}
    /\ \A k \in Keys : ToIndex(k) = k /\ k \in Lock!Positions
<1>1. Max(Keys) \in Keys /\ \A k \in Keys : Max(Keys) >= k
  BY AdapterAssumption DEF Max
<1>2. Keys \subseteq Nat \ {0}
  BY BenchAssumption
<1>3. /\ key_max_ \in Nat /\ key_min_ = 0
      /\ \A k \in Keys : k < key_max_
  <2>1. Max(Keys) \in Nat /\ key_max_ = Max(Keys) + 1 /\ key_min_ = 0
    BY <1>1, <1>2 DEF key_max_, key_min_
  <2>2. ASSUME NEW k \in Keys PROVE k < key_max_
    <3>1. k \in Nat /\ k <= Max(Keys)
      BY <1>1, <1>2
    <3> QED
      BY <2>1, <3>1
  <2> QED
    BY <2>1, <2>2
<1>4. ArraySize \in Nat \ {0} /\ key_max_ < ArraySize
  BY <1>1, <1>2, <1>3 DEF ArraySize, ComputeArraySize, key_max_
<1>5. ASSUME NEW k \in Keys PROVE ToIndex(k) = k /\ k \in Lock!Positions
  <2>1. k \in Nat \ {0} /\ k < key_max_
    BY <1>2, <1>3
  <2> QED
    BY <2>1, <1>3, <1>4 DEF ToIndex, Lock!Positions
<1> QED
  BY <1>4, <1>5

(* The array is divided by a positive number.                              *)
LEMMA BlockSizePositive == Lock!block_size_ \in Nat \ {0}
<1> DEFINE n == ArraySize + kLockCnt - 1
           d == n \div kLockCnt
<1>1. kLockCnt \in Nat \ {0} /\ n \in Nat /\ kLockCnt <= n
  BY SlotOfKey, AdapterAssumption
<1>2. d \in Nat /\ n < kLockCnt * d + kLockCnt
  BY <1>1
<1>3. d # 0
  BY <1>1, <1>2
<1> QED
  BY <1>2, <1>3 DEF Lock!block_size_

(* Every position has a lock, and the locks follow the order of positions, *)
(* so that those between the locks of its ends protect all of a range.     *)
LEMMA LockOfPosition ==
    ASSUME NEW p \in Lock!Positions, NEW q \in Lock!Positions, p <= q
    PROVE  /\ Lock!LockOf(p) \in Lock!Locks
           /\ Lock!LockOf(q) \in Lock!Locks
           /\ Lock!LockOf(p) <= Lock!LockOf(q)
<1>1. p \in Nat /\ q \in Nat
  BY SlotOfKey DEF Lock!Positions
<1>2. /\ p \div Lock!block_size_ \in Nat
      /\ q \div Lock!block_size_ \in Nat
      /\ p \div Lock!block_size_ <= q \div Lock!block_size_
  BY <1>1, BlockSizePositive, DivMonotone
<1> QED
  BY <1>2, AdapterAssumption DEF Lock!LockOf, Lock!Smaller, Lock!Locks

-----------------------------------------------------------------------------
(* NaiveLock                                                               *)

LockPC == {"idle", "exchange", "spin", "count", "func", "unlock"}

LockTypeOK ==
    /\ locked_ \in [Lock!Locks -> BOOLEAN]
    /\ operation_count_ \in Nat
    /\ npc \in [Threads -> LockPC]
    /\ left \in [Threads -> Lock!Positions]
    /\ right \in [Threads -> Lock!Positions]
    /\ locked_count_ \in [Threads -> Nat]

(* The guard of a query has taken the first locks of its range; how many   *)
(* follows from where the query is.                                        *)
GuardInv ==
    \A t \in Threads :
        /\ left[t] <= right[t]
        /\ npc[t] = "idle" => locked_count_[t] = 0
        /\ npc[t] \in {"exchange", "spin"} =>
              Lock!NextLock(t) <= Lock!LockOf(right[t])
        /\ npc[t] \in {"count", "func"} =>
              Lock!NextLock(t) = Lock!LockOf(right[t]) + 1
        /\ npc[t] = "unlock" =>
              /\ locked_count_[t] > 0
              /\ Lock!NextLock(t) <= Lock!LockOf(right[t]) + 1

Holds(t, l) == Lock!LockOf(left[t]) <= l /\ l < Lock!NextLock(t)

(* What a guard has taken is locked, and no other guard has it.            *)
HeldInv ==
    \A t \in Threads, l \in Lock!Locks :
        Holds(t, l) =>
            /\ locked_[l]
            /\ \A u \in Threads : Holds(u, l) => u = t

LockInv == LockTypeOK /\ GuardInv /\ HeldInv

(* The constructor of NaiveLock.                                           *)
LEMMA LockInitInv == Lock!LockInit => LockInv
<1> SUFFICES ASSUME Lock!LockInit PROVE LockInv
  OBVIOUS
<1>1. 0 \in Lock!Positions
  BY SlotOfKey DEF Lock!Positions
<1>2. LockTypeOK
  BY <1>1 DEF Lock!LockInit, LockTypeOK, LockPC
<1>3. GuardInv
  BY DEF Lock!LockInit, GuardInv
<1>4. \A t \in Threads, l \in Lock!Locks : ~Holds(t, l)
  <2>1. Lock!LockOf(0) \in Lock!Locks
    BY <1>1, LockOfPosition DEF Lock!Positions
  <2> QED
    BY <2>1, AdapterAssumption
    DEF Lock!LockInit, Holds, Lock!NextLock, Lock!Locks
<1> QED
  BY <1>2, <1>3, <1>4 DEF LockInv, HeldInv

(* What the invariant says about one query.                                *)
LEMMA LockFacts ==
    ASSUME LockInv, NEW t \in Threads
    PROVE  /\ left[t] \in Nat /\ right[t] \in Nat
           /\ Lock!LockOf(left[t]) \in Nat /\ Lock!LockOf(right[t]) \in Nat
           /\ Lock!LockOf(left[t]) <= Lock!LockOf(right[t])
           /\ Lock!LockOf(right[t]) < kLockCnt
           /\ Lock!NextLock(t) \in Nat
           /\ Lock!NextLock(t) = Lock!LockOf(left[t]) + locked_count_[t]
           /\ locked_count_[t] \in Nat
<1>1. /\ left[t] \in Lock!Positions /\ right[t] \in Lock!Positions
      /\ left[t] <= right[t] /\ locked_count_[t] \in Nat
  BY DEF LockInv, LockTypeOK, GuardInv
<1>2. /\ Lock!LockOf(left[t]) \in Lock!Locks
      /\ Lock!LockOf(right[t]) \in Lock!Locks
      /\ Lock!LockOf(left[t]) <= Lock!LockOf(right[t])
  BY <1>1, LockOfPosition
<1> QED
  BY <1>1, <1>2, SlotOfKey, AdapterAssumption
  DEF Lock!Positions, Lock!Locks, Lock!NextLock

(* A query that enters holds nothing yet.                                  *)
LEMMA EnterInv ==
    ASSUME LockInv, NEW t \in Threads, NEW l \in Nat, NEW r \in Nat,
           Lock!WriteQuery(t, l, r)
    PROVE  LockInv'
<1> DEFINE a == Lock!Smaller(l, ArraySize - 1)
           b == Lock!Smaller(r, ArraySize - 1)
           lo == Lock!Smaller(a, b)
           hi == IF a > b THEN a ELSE b
<1>1. lo \in Lock!Positions /\ hi \in Lock!Positions /\ lo <= hi
  BY SlotOfKey DEF Lock!Smaller, Lock!Positions
<1>2. /\ npc[t] = "idle" /\ npc' = [npc EXCEPT ![t] = "exchange"]
      /\ left' = [left EXCEPT ![t] = lo] /\ right' = [right EXCEPT ![t] = hi]
      /\ UNCHANGED <<locked_, operation_count_, locked_count_>>
  BY DEF Lock!WriteQuery, Lock!Goto
<1> HIDE DEF a, b, lo, hi
<1>3. LockTypeOK'
  BY <1>1, <1>2 DEF LockInv, LockTypeOK, LockPC
<1>4. /\ left'[t] = lo /\ right'[t] = hi /\ npc'[t] = "exchange"
      /\ locked_count_'[t] = 0
  BY <1>2 DEF LockInv, LockTypeOK, GuardInv
<1>5. \A u \in Threads \ {t} :
          /\ left'[u] = left[u] /\ right'[u] = right[u] /\ npc'[u] = npc[u]
          /\ locked_count_'[u] = locked_count_[u]
  BY <1>2 DEF LockInv, LockTypeOK
<1>6. /\ Lock!LockOf(lo) \in Nat /\ Lock!LockOf(hi) \in Nat
      /\ Lock!LockOf(lo) <= Lock!LockOf(hi)
  BY <1>1, LockOfPosition, AdapterAssumption DEF Lock!Locks
<1>7. GuardInv'
  <2> SUFFICES ASSUME NEW u \in Threads PROVE GuardInv!(u)'
    BY DEF GuardInv
  <2>1. CASE u = t
    BY <2>1, <1>1, <1>4, <1>6 DEF Lock!NextLock
  <2>2. CASE u # t
    BY <2>2, <1>5 DEF LockInv, GuardInv, Lock!NextLock
  <2> QED
    BY <2>1, <2>2
<1>8. HeldInv'
  <2>1. \A k \in Lock!Locks : ~Holds(t, k)'
    BY <1>4, <1>6, AdapterAssumption DEF Holds, Lock!NextLock, Lock!Locks
  <2>2. \A k \in Lock!Locks, u \in Threads \ {t} : Holds(u, k)' <=> Holds(u, k)
    BY <1>5 DEF Holds, Lock!NextLock
  <2> QED
    BY <1>2, <2>1, <2>2 DEF LockInv, HeldInv
<1> QED
  BY <1>3, <1>7, <1>8 DEF LockInv

(* A compare-and-exchange that succeeds has found the lock free, so it is  *)
(* nobody else's.                                                          *)
LEMMA ExchangeInv ==
    ASSUME LockInv, NEW t \in Threads, Lock!Exchange(t)
    PROVE  LockInv'
<1> DEFINE n == Lock!NextLock(t)
<1>1. /\ npc[t] = "exchange"
      /\ npc' = [npc EXCEPT ![t] = IF n = Lock!LockOf(right[t])
                                   THEN "count" ELSE "exchange"]
      /\ ~locked_[n] /\ locked_' = [locked_ EXCEPT ![n] = TRUE]
      /\ locked_count_' = [locked_count_ EXCEPT ![t] = @ + 1]
      /\ UNCHANGED <<operation_count_, left, right>>
  BY DEF Lock!Exchange, Lock!Goto, Lock!IsLastLock, Lock!ExchangeSucceeds
<1>2. /\ n \in Nat /\ n <= Lock!LockOf(right[t]) /\ n \in Lock!Locks
      /\ Lock!LockOf(right[t]) \in Nat
      /\ n = Lock!LockOf(left[t]) + locked_count_[t]
      /\ Lock!LockOf(left[t]) \in Nat /\ locked_count_[t] \in Nat
  BY <1>1, LockFacts, AdapterAssumption DEF LockInv, GuardInv, Lock!Locks
<1> HIDE DEF n
<1>3. LockTypeOK'
  BY <1>1, <1>2 DEF LockInv, LockTypeOK, LockPC
<1>4. /\ locked_count_'[t] = locked_count_[t] + 1
      /\ npc'[t] = (IF n = Lock!LockOf(right[t]) THEN "count" ELSE "exchange")
  BY <1>1, <1>2 DEF LockInv, LockTypeOK
<1>5. \A u \in Threads \ {t} :
          npc'[u] = npc[u] /\ locked_count_'[u] = locked_count_[u]
  BY <1>1 DEF LockInv, LockTypeOK
<1>6. Lock!NextLock(t)' = n + 1
  BY <1>1, <1>2, <1>4 DEF Lock!NextLock
<1>7. GuardInv'
  <2> SUFFICES ASSUME NEW u \in Threads PROVE GuardInv!(u)'
    BY DEF GuardInv
  <2>1. CASE u = t
    BY <2>1, <1>1, <1>2, <1>4, <1>6 DEF LockInv, GuardInv
  <2>2. CASE u # t
    BY <2>2, <1>1, <1>5 DEF LockInv, GuardInv, Lock!NextLock
  <2> QED
    BY <2>1, <2>2
<1>8. HeldInv'
  <2>1. \A k \in Lock!Locks : Holds(t, k)' <=> Holds(t, k) \/ k = n
    BY <1>1, <1>2, <1>6, AdapterAssumption
    DEF Holds, Lock!NextLock, Lock!Locks, n
  <2>2. \A k \in Lock!Locks, u \in Threads \ {t} : Holds(u, k)' <=> Holds(u, k)
    BY <1>1, <1>5 DEF Holds, Lock!NextLock
  <2>3. \A u \in Threads : ~Holds(u, n)
    BY <1>1, <1>2 DEF LockInv, HeldInv
  <2>4. /\ locked_'[n]
        /\ \A k \in Lock!Locks \ {n} : locked_'[k] = locked_[k]
    BY <1>1, <1>2 DEF LockInv, LockTypeOK
  <2> QED
    BY <1>2, <2>1, <2>2, <2>3, <2>4 DEF LockInv, HeldInv
<1> QED
  BY <1>3, <1>7, <1>8 DEF LockInv

(* UnlockAll gives back the highest of the guard's own locks.              *)
LEMMA UnlockInv ==
    ASSUME LockInv, NEW t \in Threads, Lock!UnlockLast(t)
    PROVE  LockInv'
<1> DEFINE n == Lock!NextLock(t) - 1
           done == locked_count_[t] = 1
<1>1. /\ npc[t] = "unlock"
      /\ npc' = [npc EXCEPT ![t] = IF done THEN "idle" ELSE "unlock"]
      /\ locked_' = [locked_ EXCEPT ![n] = FALSE]
      /\ locked_count_' = [locked_count_ EXCEPT ![t] = @ - 1]
      /\ left' = [left EXCEPT ![t] = IF done THEN 0 ELSE @]
      /\ right' = [right EXCEPT ![t] = IF done THEN 0 ELSE @]
      /\ UNCHANGED operation_count_
  BY DEF Lock!UnlockLast, Lock!Goto, Lock!LastTaken
<1>2. /\ locked_count_[t] \in Nat \ {0}
      /\ n \in Nat /\ n <= Lock!LockOf(right[t]) /\ n \in Lock!Locks
      /\ n + 1 = Lock!LockOf(left[t]) + locked_count_[t]
      /\ n + 1 = Lock!NextLock(t)
      /\ Lock!LockOf(left[t]) \in Nat /\ Lock!LockOf(right[t]) \in Nat
  BY <1>1, LockFacts, AdapterAssumption DEF LockInv, GuardInv, Lock!Locks
<1> HIDE DEF n
<1>3. 0 \in Lock!Positions
  BY SlotOfKey DEF Lock!Positions
<1>4. LockTypeOK'
  BY <1>1, <1>2, <1>3 DEF LockInv, LockTypeOK, LockPC
<1>5. /\ locked_count_'[t] = locked_count_[t] - 1
      /\ npc'[t] = (IF done THEN "idle" ELSE "unlock")
      /\ left'[t] = (IF done THEN 0 ELSE left[t])
      /\ right'[t] = (IF done THEN 0 ELSE right[t])
  BY <1>1 DEF LockInv, LockTypeOK
<1>6. \A u \in Threads \ {t} :
          /\ npc'[u] = npc[u] /\ locked_count_'[u] = locked_count_[u]
          /\ left'[u] = left[u] /\ right'[u] = right[u]
  BY <1>1 DEF LockInv, LockTypeOK
<1>7. Lock!LockOf(0) \in Nat
  BY <1>3, LockOfPosition, AdapterAssumption DEF Lock!Locks
<1>8. GuardInv'
  <2> SUFFICES ASSUME NEW u \in Threads PROVE GuardInv!(u)'
    BY DEF GuardInv
  <2>1. CASE u = t /\ done
    BY <2>1, <1>2, <1>5
  <2>2. CASE u = t /\ ~done
    BY <2>2, <1>1, <1>2, <1>5 DEF LockInv, GuardInv, Lock!NextLock
  <2>3. CASE u # t
    BY <2>3, <1>6 DEF LockInv, GuardInv, Lock!NextLock
  <2> QED
    BY <2>1, <2>2, <2>3
<1>9. HeldInv'
  <2>1. \A k \in Lock!Locks : Holds(t, k)' => Holds(t, k) /\ k # n
    BY <1>2, <1>5, <1>7, AdapterAssumption
    DEF Holds, Lock!NextLock, Lock!Locks
  <2>2. \A k \in Lock!Locks, u \in Threads \ {t} : Holds(u, k)' <=> Holds(u, k)
    BY <1>6 DEF Holds, Lock!NextLock
  <2>3. \A u \in Threads \ {t} : ~Holds(u, n)
    <3>1. Holds(t, n)
      BY <1>2 DEF Holds
    <3> QED
      BY <3>1, <1>2 DEF LockInv, HeldInv
  <2>4. \A k \in Lock!Locks \ {n} : locked_'[k] = locked_[k]
    BY <1>1, <1>2 DEF LockInv, LockTypeOK
  <2>5. ASSUME NEW u \in Threads, NEW k \in Lock!Locks, Holds(u, k)'
        PROVE  Holds(u, k) /\ k # n
    BY <2>1, <2>2, <2>3, <2>5
  <2> QED
    BY <2>4, <2>5 DEF LockInv, HeldInv
<1> QED
  BY <1>4, <1>8, <1>9 DEF LockInv

(* The other steps of a query move its control point only.                 *)
LEMMA MoveInv ==
    ASSUME LockInv, NEW t \in Threads,
           Lock!ExchangeFails(t) \/ Lock!Spin(t) \/ Lock!Count(t) \/ Lock!FuncDone(t)
    PROVE  LockInv'
<1> USE DEF Lock!ExchangeFails, Lock!Spin, Lock!Count, Lock!FuncDone, Lock!Goto
<1>1. UNCHANGED <<locked_, left, right, locked_count_>>
  OBVIOUS
<1>2. \E to \in LockPC :
          /\ npc' = [npc EXCEPT ![t] = to]
          /\ \/ npc[t] \in {"exchange", "spin"} /\ to \in {"exchange", "spin"}
             \/ npc[t] = "count" /\ to = "func"
             \/ npc[t] = "func" /\ to = "unlock"
  BY DEF LockPC
<1>3. operation_count_' \in Nat
  BY DEF LockInv, LockTypeOK
<1>4. LockTypeOK'
  BY <1>1, <1>2, <1>3 DEF LockInv, LockTypeOK
<1>5. GuardInv'
  <2> SUFFICES ASSUME NEW u \in Threads PROVE GuardInv!(u)'
    BY DEF GuardInv
  <2>1. CASE u = t
    BY <2>1, <1>1, <1>2, LockFacts DEF LockInv, LockTypeOK, GuardInv, Lock!NextLock
  <2>2. CASE u # t
    BY <2>2, <1>1, <1>2 DEF LockInv, LockTypeOK, GuardInv, Lock!NextLock
  <2> QED
    BY <2>1, <2>2
<1>6. HeldInv'
  BY <1>1 DEF LockInv, HeldInv, Holds, Lock!NextLock
<1> QED
  BY <1>4, <1>5, <1>6 DEF LockInv

(* The lock's variables determine its invariant.                           *)
LEMMA LockFrame ==
    ASSUME LockInv, UNCHANGED lockVars
    PROVE  LockInv'
  BY DEF lockVars, LockInv, LockTypeOK, GuardInv, HeldInv, Holds, Lock!NextLock

-----------------------------------------------------------------------------
(* The adapter                                                             *)

ThreadPC == {"none", "pre", "ready", "loop", "step", "call", "post",
             "barrier", "ended"}
CallSet == [op : Ops, key : Keys, to : Keys, seen : SUBSET BOOLEAN,
            result : {"pending", "success", "failure"}]

TypeOK ==
    /\ mpc \in {"create", "wait", "join", "report"}
    /\ stage \in 1 .. 3
    /\ tpc \in [Threads -> ThreadPC]
    /\ call \in [Threads -> CallSet \cup {NoCall}]
    /\ data_ \in [Lock!Positions -> Nat]
    /\ present_ \in [Lock!Positions -> {0, 1}]
    /\ range_queries_ \in Nat
    /\ loaded \in [Threads -> [index : Int, value : Int]]

(* The threads of a stage exist between its creation and its join, and     *)
(* only a thread that executes a step has a call.                          *)
StageInv ==
    \A t \in Threads :
        /\ tpc[t] # "none" => mpc \in {"wait", "join"} /\ t \in Workers
        /\ call[t] # NoCall => tpc[t] = "call"

(* A query is made by a call that has no result before func is through,    *)
(* and its range is that of the call.                                      *)
QueryInv ==
    \A t \in Threads :
        /\ npc[t] # "idle" => call[t] # NoCall
        /\ npc[t] \in {"exchange", "spin", "count", "func"} =>
              /\ call[t].result = "pending"
              /\ call[t].op # "range" =>
                    left[t] = call[t].key /\ right[t] = call[t].key

(* func looks at a slot of its own range.                                  *)
LoadedInv ==
    \A t \in Threads : loaded[t] # Nothing =>
        /\ npc[t] = "func"
        /\ left[t] <= loaded[t].index /\ loaded[t].index <= right[t]

(* A call under way has seen whether its key is present now.               *)
SeenInv ==
    \A t \in Threads :
        call[t] # NoCall /\ call[t].result = "pending" =>
            /\ call[t].key \in present => TRUE \in call[t].seen
            /\ call[t].key \notin present => FALSE \in call[t].seen

IInv ==
    /\ LockInv
    /\ TypeOK
    /\ StageInv
    /\ QueryInv
    /\ LoadedInv
    /\ ReadStaysValid
    /\ SeenInv

(* The benchmark before its first stage.                                   *)
LEMMA InitInv == Init => IInv
<1> SUFFICES ASSUME Init PROVE IInv
  OBVIOUS
<1>1. LockInv
  BY LockInitInv DEF Init
<1>2. /\ call = [t \in Threads |-> NoCall] /\ tpc = [t \in Threads |-> "none"]
      /\ mpc = "create" /\ stage = 1
      /\ loaded = [t \in Threads |-> Nothing]
      /\ npc = [t \in Threads |-> "idle"]
      /\ data_ = [p \in Lock!Positions |-> 0]
      /\ present_ = [p \in Lock!Positions |-> 0]
      /\ range_queries_ = 0
  BY DEF Init, BenchInit, Lock!LockInit
<1>3. Nothing \in [index : Int, value : Int]
  BY DEF Nothing
<1>4. TypeOK
  BY <1>2, <1>3 DEF TypeOK, ThreadPC
<1>5. StageInv /\ QueryInv /\ LoadedInv /\ ReadStaysValid /\ SeenInv
  BY <1>2 DEF StageInv, QueryInv, LoadedInv, ReadStaysValid, SeenInv
<1> QED
  BY <1>1, <1>4, <1>5 DEF IInv

(* Two funcs work on different slots.                                      *)
LEMMA FuncsApart ==
    ASSUME LockInv, NEW t \in Threads, NEW u \in Threads, t # u,
           npc[t] = "func", npc[u] \in {"count", "func"}, NEW p \in Lock!Positions,
           left[t] <= p, p <= right[t]
    PROVE  ~(left[u] <= p /\ p <= right[u])
<1> SUFFICES ASSUME left[u] <= p, p <= right[u] PROVE FALSE
  OBVIOUS
<1> DEFINE l == Lock!LockOf(p)
<1>1. /\ left[t] \in Lock!Positions /\ right[t] \in Lock!Positions
      /\ left[u] \in Lock!Positions /\ right[u] \in Lock!Positions
  BY DEF LockInv, LockTypeOK
<1>2. /\ l \in Lock!Locks
      /\ Lock!LockOf(left[t]) <= l /\ l <= Lock!LockOf(right[t])
      /\ Lock!LockOf(left[u]) <= l /\ l <= Lock!LockOf(right[u])
  BY <1>1, LockOfPosition
<1>3. /\ Lock!NextLock(t) = Lock!LockOf(right[t]) + 1
      /\ Lock!NextLock(u) = Lock!LockOf(right[u]) + 1
  BY DEF LockInv, GuardInv
<1>4. l \in Nat /\ Lock!LockOf(right[t]) \in Nat /\ Lock!LockOf(right[u]) \in Nat
  BY <1>2, LockFacts, AdapterAssumption DEF Lock!Locks
<1>5. Holds(t, l) /\ Holds(u, l)
  BY <1>2, <1>3, <1>4 DEF Holds
<1> QED
  BY <1>2, <1>5 DEF LockInv, HeldInv

(* A step of main or of a thread's loop touches neither lock nor adapter.  *)
LEMMA LoopInv ==
    ASSUME IInv, MainStep \/ \E t \in Threads : Loop(t)
    PROVE  IInv'
<1>1. UNCHANGED <<call, adapterVars, lockVars>>
  BY DEF MainStep, Main, SkipStage, CreateThreads, StartThreads, JoinThreads,
         Loop, Pre, SeeStart, IsStopped, Post, Leave
<1>2. LockInv'
  BY <1>1, LockFrame DEF IInv
<1>3. QueryInv' /\ LoadedInv' /\ ReadStaysValid'
  BY <1>1
  DEF IInv, QueryInv, LoadedInv, ReadStaysValid, adapterVars, lockVars
<1>4. SeenInv'
  BY <1>1 DEF IInv, SeenInv, adapterVars, present
<1>5. ASSUME NEW t \in Threads, Loop(t)
      PROVE  /\ mpc' = mpc /\ stage' = stage /\ tpc[t] \notin {"none", "call"}
             /\ \E to \in ThreadPC \ {"none"} : tpc' = [tpc EXCEPT ![t] = to]
  BY <1>5
  DEF Loop, Pre, SeeStart, IsStopped, Post, Leave, To, ThreadPC
<1>6. CASE \E t \in Threads : Loop(t)
  <2>1. PICK t \in Threads : Loop(t)
    BY <1>6
  <2>2. PICK to \in ThreadPC \ {"none"} : tpc' = [tpc EXCEPT ![t] = to]
    BY <1>5, <2>1
  <2>3. TypeOK'
    BY <1>1, <1>5, <2>1, <2>2 DEF IInv, TypeOK, adapterVars
  <2>4. StageInv'
    BY <1>1, <1>5, <2>1, <2>2 DEF IInv, TypeOK, StageInv, Workers, Current
  <2> QED
    BY <1>2, <1>3, <1>4, <2>3, <2>4 DEF IInv
<1>7. CASE MainStep
  <2>1. /\ mpc' \in {"create", "wait", "join", "report"} /\ stage' \in 1 .. 3
        /\ tpc' \in [Threads -> ThreadPC]
    BY <1>7
    DEF IInv, TypeOK, ThreadPC, MainStep, Main, SkipStage, CreateThreads,
        StartThreads, JoinThreads
  <2>2. TypeOK'
    BY <1>1, <2>1 DEF IInv, TypeOK, adapterVars
  <2>3. StageInv'
    <3>1. CASE SkipStage
      BY <1>1, <3>1 DEF IInv, TypeOK, StageInv, SkipStage
    <3>2. CASE CreateThreads
      BY <1>1, <3>2 DEF IInv, TypeOK, StageInv, CreateThreads, Workers, Current
    <3>3. CASE StartThreads
      BY <1>1, <3>3 DEF IInv, TypeOK, StageInv, StartThreads, Workers, Current
    <3>4. CASE JoinThreads
      BY <1>1, <3>4 DEF IInv, TypeOK, StageInv, JoinThreads, AllEnded
    <3> QED
      BY <1>7, <3>1, <3>2, <3>3, <3>4 DEF MainStep, Main
  <2> QED
    BY <1>2, <1>3, <1>4, <2>2, <2>3 DEF IInv
<1> QED
  BY <1>6, <1>7

(* The set of the one answer that is right.                                *)
LEMMA RightAnswer ==
    ASSUME NEW there \in BOOLEAN
    PROVE  /\ there => TRUE \in {there}
           /\ ~there => FALSE \in {there}
<1>1. CASE there = TRUE
  BY <1>1
<1>2. CASE there = FALSE
  BY <1>2
<1> QED
  BY <1>1, <1>2

(* The adapter is called, and calls WriteQuery.                            *)
LEMMA OperationInv ==
    ASSUME IInv, NEW t \in Threads, Operation(t)
    PROVE  IInv'
<1> USE DEF IInv
<1>1. PICK o \in Current.ops, lo \in Keys, hi \in Keys :
          /\ IF o = "range" THEN lo <= hi ELSE lo = hi
          /\ call' = [call EXCEPT ![t] = NewCall(o, lo, hi, lo \in present)]
  BY DEF Operation, StepCall
<1>2. o \in Ops
  BY BenchAssumption DEF TypeOK, Current
<1> DEFINE there == lo \in present
           c == NewCall(o, lo, hi, there)
<1>3. there \in BOOLEAN /\ (there <=> lo \in present)
  OBVIOUS
<1> HIDE DEF there
<1>4. {there} \in SUBSET BOOLEAN
  BY <1>3
<1>5. c.op = o /\ c.key = lo /\ c.to = hi /\ c.result = "pending"
      /\ c.seen = {there}
  BY DEF NewCall
<1>6. c \in CallSet /\ c # NoCall
  <2>1. c \in CallSet
    BY <1>2, <1>4 DEF NewCall, CallSet
  <2>2. c.op # "none"
    BY <1>2, <1>5 DEF Ops
  <2> QED
    BY <2>1, <2>2 DEF NoCall
<1> HIDE DEF c
<1>7. call'[t] = c /\ \A u \in Threads \ {t} : call'[u] = call[u]
  BY <1>1 DEF TypeOK, c, there
<1>8. Lock!WriteQuery(t, lo, hi) /\ lo \in Nat /\ hi \in Nat
      /\ lo < ArraySize /\ hi < ArraySize
  BY <1>5, <1>7, SlotOfKey, BenchAssumption DEF Operation, Lock!Positions
<1>9. /\ tpc[t] = "step" /\ tpc' = [tpc EXCEPT ![t] = "call"]
      /\ UNCHANGED <<mpc, stage, adapterVars>>
  BY DEF Operation, StepCall, To
<1>10. LockInv'
  BY <1>8, EnterInv
<1>11. TypeOK'
  <2>1. call' \in [Threads -> CallSet \cup {NoCall}]
    BY <1>1, <1>6 DEF TypeOK, c, there
  <2>2. tpc' \in [Threads -> ThreadPC]
    BY <1>9 DEF TypeOK, ThreadPC
  <2> QED
    BY <1>9, <2>1, <2>2 DEF TypeOK, adapterVars
<1>12. StageInv'
  BY <1>7, <1>9 DEF TypeOK, StageInv, Workers, Current
<1>13. /\ npc[t] = "idle" /\ npc'[t] = "exchange"
       /\ o # "range" => left'[t] = lo /\ right'[t] = lo
  BY <1>1, <1>8, SlotOfKey
  DEF LockInv, LockTypeOK, Lock!WriteQuery, Lock!Goto, Lock!Smaller
<1>14. \A u \in Threads \ {t} :
          npc'[u] = npc[u] /\ left'[u] = left[u] /\ right'[u] = right[u]
  BY <1>8 DEF LockInv, LockTypeOK, Lock!WriteQuery, Lock!Goto
<1>15. QueryInv'
  BY <1>5, <1>6, <1>7, <1>13, <1>14 DEF QueryInv
<1>16. loaded' = loaded /\ loaded[t] = Nothing
  BY <1>9, <1>13 DEF LoadedInv, adapterVars
<1>17. LoadedInv'
  BY <1>14, <1>16 DEF LoadedInv
<1>18. ReadStaysValid'
  BY <1>7, <1>9, <1>16 DEF ReadStaysValid, adapterVars
<1>19. SeenInv'
  <2>1. present' = present
    BY <1>9 DEF adapterVars, present
  <2>2. /\ c.key \in present => TRUE \in c.seen
        /\ c.key \notin present => FALSE \in c.seen
    BY <1>3, <1>5, RightAnswer
  <2> QED
    BY <1>7, <2>1, <2>2 DEF SeenInv
<1> QED
  BY <1>10, <1>11, <1>12, <1>15, <1>17, <1>18, <1>19

(* A step of the lock inside WriteQuery.                                   *)
LEMMA LockingInv ==
    ASSUME IInv, NEW t \in Threads, Locking(t)
    PROVE  IInv'
<1> USE DEF IInv
<1>1. LockInv'
  BY ExchangeInv, UnlockInv, MoveInv DEF Locking, Lock!LockStep
<1>2. UNCHANGED <<benchVars, adapterVars>>
  BY DEF Locking
<1>3. TypeOK' /\ StageInv'
  BY <1>2 DEF benchVars, adapterVars, TypeOK, StageInv, Workers, Current
<1>4. SeenInv'
  BY <1>2 DEF benchVars, adapterVars, SeenInv, present
<1>5. ReadStaysValid'
  BY <1>2 DEF benchVars, adapterVars, ReadStaysValid
<1>6. /\ npc[t] \in {"exchange", "spin", "count"} =>
             /\ npc'[t] \in {"exchange", "spin", "count", "func"}
             /\ left'[t] = left[t] /\ right'[t] = right[t]
      /\ npc[t] = "unlock" => npc'[t] \in {"idle", "unlock"}
      /\ npc[t] \in {"exchange", "spin", "count", "unlock"}
  BY DEF Locking, Lock!LockStep, Lock!Exchange, Lock!ExchangeFails, Lock!Spin,
         Lock!Count, Lock!UnlockLast, Lock!Goto, LockInv, LockTypeOK
<1>7. \A u \in Threads \ {t} :
          npc'[u] = npc[u] /\ left'[u] = left[u] /\ right'[u] = right[u]
  BY DEF Locking, Lock!LockStep, Lock!Exchange, Lock!ExchangeFails, Lock!Spin,
         Lock!Count, Lock!UnlockLast, Lock!Goto, LockInv, LockTypeOK
<1>8. QueryInv'
  BY <1>2, <1>6, <1>7 DEF benchVars, QueryInv
<1>9. LoadedInv'
  BY <1>2, <1>6, <1>7 DEF adapterVars, LoadedInv
<1> QED
  BY <1>1, <1>3, <1>4, <1>5, <1>8, <1>9

(* The return to the thread loop.                                          *)
LEMMA ReturnInv ==
    ASSUME IInv, NEW t \in Threads, Return(t)
    PROVE  IInv'
<1> USE DEF IInv
<1>1. /\ npc[t] = "idle" /\ tpc[t] = "call"
      /\ \E to \in {"step", "loop"} : tpc' = [tpc EXCEPT ![t] = to]
      /\ call' = [call EXCEPT ![t] = NoCall]
      /\ UNCHANGED <<mpc, stage, adapterVars, lockVars>>
  BY DEF Return, StepReturn, To
<1>2. call'[t] = NoCall /\ \A u \in Threads \ {t} : call'[u] = call[u]
  BY <1>1 DEF TypeOK
<1>3. LockInv'
  BY <1>1, LockFrame
<1>4. TypeOK'
  BY <1>1 DEF TypeOK, ThreadPC, adapterVars
<1>5. StageInv'
  BY <1>1, <1>2 DEF TypeOK, StageInv, Workers, Current
<1>6. QueryInv' /\ LoadedInv'
  BY <1>1, <1>2 DEF QueryInv, LoadedInv, lockVars, adapterVars
<1>7. ReadStaysValid'
  BY <1>1, <1>2 DEF LoadedInv, ReadStaysValid, adapterVars
<1>8. SeenInv'
  BY <1>1, <1>2 DEF SeenInv, adapterVars, present
<1> QED
  BY <1>3, <1>4, <1>5, <1>6, <1>7, <1>8

(* func reads a slot of its range.                                         *)
LEMMA FuncLoadInv ==
    ASSUME IInv, NEW t \in Threads, FuncLoad(t)
    PROVE  IInv'
<1> USE DEF IInv
<1> DEFINE width == right[t] - left[t] + 1
           turn == left[t] + (range_queries_ % width)
           slot == IF call[t].op = "range" THEN turn ELSE left[t]
           read == IF call[t].op = "range" THEN data_[turn] ELSE present_[left[t]]
<1>1. /\ npc[t] = "func"
      /\ loaded' = [loaded EXCEPT ![t] = [index |-> slot, value |-> read]]
      /\ UNCHANGED <<benchVars, lockVars, data_, present_>>
      /\ range_queries_' \in Nat
  BY DEF FuncLoad, Lock!InFunc, Lock!lockVars, lockVars, TypeOK
<1>2. /\ left[t] \in Nat /\ right[t] \in Nat /\ left[t] <= right[t]
      /\ right[t] < ArraySize /\ left[t] \in Lock!Positions
  BY LockFacts, SlotOfKey DEF LockInv, LockTypeOK, GuardInv, Lock!Positions
<1>3. range_queries_ % width \in 0 .. width - 1
  BY <1>2 DEF TypeOK
<1>4. slot \in Nat /\ left[t] <= slot /\ slot <= right[t] /\ slot \in Lock!Positions
  BY <1>2, <1>3, SlotOfKey DEF Lock!Positions
<1>5. read \in Int /\ read = (IF call[t].op = "range" THEN data_ ELSE present_)[slot]
  BY <1>2, <1>4 DEF TypeOK
<1> HIDE DEF slot, read
<1>6. /\ loaded'[t] = [index |-> slot, value |-> read]
      /\ \A u \in Threads \ {t} : loaded'[u] = loaded[u]
  BY <1>1 DEF TypeOK
<1>7. loaded' \in [Threads -> [index : Int, value : Int]]
  BY <1>1, <1>4, <1>5 DEF TypeOK
<1>8. LockInv'
  BY <1>1, LockFrame
<1>9. TypeOK' /\ StageInv'
  BY <1>1, <1>7 DEF TypeOK, StageInv, Workers, Current, benchVars
<1>10. QueryInv' /\ SeenInv'
  BY <1>1 DEF QueryInv, SeenInv, present, benchVars, lockVars
<1>11. LoadedInv'
  BY <1>1, <1>4, <1>6 DEF LoadedInv, lockVars
<1>12. ReadStaysValid'
  BY <1>1, <1>5, <1>6 DEF ReadStaysValid, benchVars
<1> QED
  BY <1>8, <1>9, <1>10, <1>11, <1>12

(* A key is present if its own slot says so.                               *)
LEMMA PresentSlot == present = {k \in Keys : present_[k] = 1}
  BY SlotOfKey DEF present

(* What the second half of func does, in terms of the dictionary: because  *)
(* the slot is as it was read, the decision taken from it is right.        *)
LEMMA StoreFacts ==
    ASSUME IInv, NEW t \in Threads, FuncStore(t)
    PROVE  LET c == call[t] IN
           /\ npc[t] = "func" /\ c \in CallSet /\ c.result = "pending"
           /\ loaded[t].index \in Lock!Positions
           /\ \/ /\ present_' = present_
                 /\ \E r \in {"success", "failure"} :
                       /\ Decide(t, r)
                       /\ c.op = "insert" => c.key \in present /\ r = "failure"
                       /\ c.op = "remove" => c.key \notin present /\ r = "failure"
                       /\ c.op = "get" =>
                             r = (IF c.key \in present THEN "success" ELSE "failure")
              \/ /\ c.op = "insert" /\ c.key \notin present
                 /\ present' = present \cup {c.key}
                 /\ Effect(t, TRUE)
              \/ /\ c.op = "remove" /\ c.key \in present
                 /\ present' = present \ {c.key}
                 /\ Effect(t, FALSE)
           /\ \A p \in Lock!Positions \ {loaded[t].index} :
                 data_'[p] = data_[p] /\ present_'[p] = present_[p]
           /\ data_' \in [Lock!Positions -> Nat]
           /\ present_' \in [Lock!Positions -> {0, 1}]
<1> USE DEF IInv
<1> DEFINE c == call[t]
           i == loaded[t].index
<1>1. npc[t] = "func" /\ loaded[t] # Nothing
  BY DEF FuncStore, Lock!FuncDone, Lock!Goto
<1>2. c \in CallSet /\ c.result = "pending"
  BY <1>1 DEF QueryInv, TypeOK
<1>3. i \in Lock!Positions /\ left[t] <= i /\ i <= right[t]
  <2>1. left[t] \in Lock!Positions /\ right[t] \in Lock!Positions
    BY DEF LockInv, LockTypeOK
  <2>2. left[t] <= i /\ i <= right[t]
    BY <1>1 DEF LoadedInv
  <2>3. loaded[t] \in [index : Int, value : Int]
    BY DEF TypeOK
  <2>4. i \in Int /\ ArraySize \in Nat
    BY <2>3, SlotOfKey
  <2> HIDE DEF i
  <2> QED
    BY <2>1, <2>2, <2>4 DEF Lock!Positions
<1>4. c.key \in Keys /\ (c.op # "range" => i = c.key)
  <2>1. c.op # "range" => left[t] = c.key /\ right[t] = c.key
    BY <1>1 DEF QueryInv
  <2>2. c.key \in Keys /\ i \in Int /\ left[t] \in Nat
    BY <1>2, LockFacts DEF CallSet, TypeOK
  <2> QED
    BY <1>3, <2>1, <2>2
<1>5. /\ c.op = "range" => loaded[t].value = data_[i]
      /\ c.op # "range" => loaded[t].value = present_[i]
  BY <1>1 DEF ReadStaysValid
<1>6. /\ loaded[t].value \in Int /\ present_[i] \in {0, 1} /\ data_[i] \in Nat
      /\ present_ \in [Lock!Positions -> {0, 1}]
      /\ data_ \in [Lock!Positions -> Nat]
  BY <1>3 DEF TypeOK
<1>7. c.op # "range" => (c.key \in present <=> present_[i] = 1)
  BY <1>4, PresentSlot
<1> DEFINE Others ==
             /\ \A p \in Lock!Positions \ {i} :
                   data_'[p] = data_[p] /\ present_'[p] = present_[p]
             /\ data_' \in [Lock!Positions -> Nat]
             /\ present_' \in [Lock!Positions -> {0, 1}]
<1>8. CASE InsertIfAbsent(t) /\ loaded[t].value # 1
  <2>1. /\ c.op = "insert" /\ Effect(t, TRUE)
        /\ present_' = [present_ EXCEPT ![i] = 1]
        /\ data_' = [data_ EXCEPT ![i] = c.key]
    BY <1>8 DEF InsertIfAbsent, Put
  <2>2. Others
    BY <1>3, <1>4, <1>6, <2>1, BenchAssumption
  <2>3. c.key \notin present
    BY <1>5, <1>7, <1>8, <2>1
  <2>4. present' = present \cup {c.key}
    <3>1. present' = {k \in Keys : present_'[k] = 1}
      BY PresentSlot, SlotOfKey DEF present
    <3>2. \A k \in Keys : present_'[k] = 1 <=> (present_[k] = 1 \/ k = c.key)
      BY <1>3, <1>4, <1>6, <2>1, SlotOfKey
    <3> QED
      BY <3>1, <3>2, <1>4, PresentSlot
  <2> QED
    BY <1>1, <1>2, <1>3, <2>1, <2>2, <2>3, <2>4
<1>9. CASE Erase(t) /\ loaded[t].value # 0
  <2>1. /\ c.op = "remove" /\ Effect(t, FALSE)
        /\ present_' = [present_ EXCEPT ![i] = 0]
        /\ data_' = [data_ EXCEPT ![i] = 0]
    BY <1>9 DEF Erase, Put
  <2>2. Others
    BY <1>3, <1>6, <2>1
  <2>3. c.key \in present
    BY <1>5, <1>6, <1>7, <1>9, <2>1
  <2>4. present' = present \ {c.key}
    <3>1. present' = {k \in Keys : present_'[k] = 1}
      BY PresentSlot, SlotOfKey DEF present
    <3>2. \A k \in Keys : present_'[k] = 1 <=> (present_[k] = 1 /\ k # c.key)
      BY <1>3, <1>4, <1>6, <2>1, SlotOfKey
    <3> QED
      BY <3>1, <3>2, <1>4, PresentSlot
  <2> QED
    BY <1>1, <1>2, <1>3, <2>1, <2>2, <2>3, <2>4
<1>10. CASE InsertIfAbsent(t) /\ loaded[t].value = 1
  <2>1. /\ c.op = "insert" /\ Decide(t, "failure")
        /\ UNCHANGED <<present_, data_>>
    BY <1>10 DEF InsertIfAbsent
  <2>2. c.key \in present
    BY <1>5, <1>7, <1>10, <2>1
  <2> QED
    BY <1>1, <1>2, <1>3, <1>6, <2>1, <2>2
<1>11. CASE Erase(t) /\ loaded[t].value = 0
  <2>1. /\ c.op = "remove" /\ Decide(t, "failure")
        /\ UNCHANGED <<present_, data_>>
    BY <1>11 DEF Erase
  <2>2. c.key \notin present
    BY <1>5, <1>7, <1>11, <2>1
  <2> QED
    BY <1>1, <1>2, <1>3, <1>6, <2>1, <2>2
<1>12. CASE Find(t)
  <2>1. /\ c.op = "get" /\ UNCHANGED <<present_, data_>>
        /\ Decide(t, IF loaded[t].value = 1 THEN "success" ELSE "failure")
    BY <1>12 DEF Find
  <2>2. Decide(t, IF c.key \in present THEN "success" ELSE "failure")
    BY <1>5, <1>7, <2>1
  <2> QED
    BY <1>1, <1>2, <1>3, <1>6, <2>1, <2>2
<1>13. CASE RangeQuery(t)
  <2>1. /\ c.op = "range" /\ Decide(t, "success") /\ UNCHANGED present_
        /\ data_' = [data_ EXCEPT ![i] = data_[i] + 1]
    BY <1>5, <1>13 DEF RangeQuery
  <2>2. Others
    BY <1>3, <1>6, <2>1
  <2> QED
    BY <1>1, <1>2, <1>3, <2>1, <2>2
<1> QED
  BY <1>8, <1>9, <1>10, <1>11, <1>12, <1>13 DEF FuncStore

(* A call is not the absence of a call.                                    *)
LEMMA CallIsCall == NoCall \notin CallSet
<1> SUFFICES ASSUME NoCall \in CallSet PROVE FALSE
  OBVIOUS
<1>1. NoCall.op \in Ops
  BY DEF CallSet
<1> QED
  BY <1>1 DEF NoCall, Ops

(* A func that ends gives its call a result; to the others it does no more *)
(* than show them the change.                                              *)
LEMMA StoreCalls ==
    ASSUME IInv, NEW t \in Threads, FuncStore(t)
    PROVE  /\ call' \in [Threads -> CallSet \cup {NoCall}]
           /\ call'[t] # NoCall /\ call'[t].result # "pending"
           /\ \A u \in Threads \ {t} :
                 \/ call'[u] = call[u]
                 \/ /\ call[u] # NoCall /\ call'[u] # NoCall
                    /\ call'[u].op = call[u].op
                    /\ call'[u].key = call[u].key
                    /\ call'[u].result = call[u].result
                    /\ call[u].seen \subseteq call'[u].seen
<1>1. call \in [Threads -> CallSet \cup {NoCall}] /\ call[t] \in CallSet
  BY StoreFacts DEF IInv, TypeOK
<1>2. ASSUME NEW r \in {"success", "failure"}
      PROVE  /\ [call[t] EXCEPT !.result = r] \in CallSet
             /\ [call[t] EXCEPT !.result = r].result # "pending"
  BY <1>1 DEF CallSet
<1>3. ASSUME NEW r \in {"success", "failure"}, Decide(t, r)
      PROVE  /\ call' \in [Threads -> CallSet \cup {NoCall}]
             /\ call'[t] = [call[t] EXCEPT !.result = r]
             /\ \A u \in Threads \ {t} : call'[u] = call[u]
  BY <1>1, <1>2, <1>3 DEF Decide
<1>4. ASSUME NEW u \in Threads, call[u] # NoCall, NEW there \in BOOLEAN
      PROVE  LET d == [call[u] EXCEPT !.seen = @ \cup {there}] IN
             /\ d \in CallSet
             /\ d.op = call[u].op /\ d.key = call[u].key
             /\ d.result = call[u].result /\ call[u].seen \subseteq d.seen
  <2>1. call[u] \in CallSet
    BY <1>1, <1>4
  <2>2. call[u].seen \cup {there} \subseteq BOOLEAN
    BY <2>1 DEF CallSet
  <2> QED
    BY <2>1, <2>2 DEF CallSet
<1>5. ASSUME NEW there \in BOOLEAN, Effect(t, there)
      PROVE  /\ call' \in [Threads -> CallSet \cup {NoCall}]
             /\ call'[t] = [call[t] EXCEPT !.result = "success"]
             /\ \A u \in Threads \ {t} :
                   \/ call'[u] = call[u]
                   \/ call[u] # NoCall
                      /\ call'[u] = [call[u] EXCEPT !.seen = @ \cup {there}]
  BY <1>1, <1>2, <1>4, <1>5 DEF Effect
<1>6. CASE \E r \in {"success", "failure"} : Decide(t, r)
  BY <1>2, <1>3, <1>6, CallIsCall
<1>7. CASE Effect(t, TRUE) \/ Effect(t, FALSE)
  <2>1. PICK there \in BOOLEAN : Effect(t, there)
    BY <1>7
  <2>2. \A u \in Threads \ {t} :
          \/ call'[u] = call[u]
          \/ call[u] # NoCall
             /\ call'[u] = [call[u] EXCEPT !.seen = @ \cup {there}]
    BY <1>5, <2>1
  <2>3. call' \in [Threads -> CallSet \cup {NoCall}]
        /\ call'[t] # NoCall /\ call'[t].result # "pending"
    BY <1>2, <1>5, <2>1, CallIsCall
  <2>4. ASSUME NEW u \in Threads \ {t}, call[u] # NoCall,
               call'[u] = [call[u] EXCEPT !.seen = @ \cup {there}]
        PROVE  /\ call'[u] # NoCall
               /\ call'[u].op = call[u].op /\ call'[u].key = call[u].key
               /\ call'[u].result = call[u].result
               /\ call[u].seen \subseteq call'[u].seen
    BY <1>4, <2>4, CallIsCall
  <2> QED
    BY <2>2, <2>3, <2>4
<1> QED
  BY <1>6, <1>7, StoreFacts

(* The end of func.                                                        *)
LEMMA FuncStoreInv ==
    ASSUME IInv, NEW t \in Threads, FuncStore(t)
    PROVE  IInv'
<1> USE DEF IInv
<1>1. /\ Lock!FuncDone(t) /\ UNCHANGED <<mpc, stage, tpc, range_queries_>>
      /\ loaded' = [loaded EXCEPT ![t] = Nothing]
  BY DEF FuncStore
<1>2. LockInv'
  BY <1>1, MoveInv
<1>3. /\ npc'[t] = "unlock"
      /\ \A u \in Threads \ {t} : npc'[u] = npc[u]
      /\ UNCHANGED <<left, right>>
  BY <1>1 DEF Lock!FuncDone, Lock!Goto, LockInv, LockTypeOK
<1>4. Nothing \in [index : Int, value : Int]
  BY DEF Nothing
<1>5. /\ loaded' \in [Threads -> [index : Int, value : Int]]
      /\ loaded'[t] = Nothing
      /\ \A u \in Threads \ {t} : loaded'[u] = loaded[u]
  BY <1>1, <1>4 DEF TypeOK
<1>6. TypeOK'
  BY <1>1, <1>5, StoreFacts, StoreCalls DEF TypeOK
<1>7. StageInv'
  <2>1. \A u \in Threads : call'[u] # NoCall => call[u] # NoCall
    <3>1. call[t] # NoCall
      <4>1. call[t] \in CallSet
        BY StoreFacts
      <4> QED
        BY <4>1, CallIsCall
    <3>2. \A u \in Threads \ {t} : call'[u] = call[u] \/ call[u] # NoCall
      BY StoreCalls
    <3> QED
      BY <3>1, <3>2
  <2> QED
    BY <1>1, <2>1 DEF StageInv, Workers, Current
<1>8. QueryInv'
  BY <1>3, StoreCalls DEF QueryInv
<1>9. LoadedInv'
  BY <1>3, <1>5 DEF LoadedInv
<1>10. ReadStaysValid'
  <2> SUFFICES ASSUME NEW u \in Threads, loaded'[u] # Nothing
               PROVE  ReadStaysValid!(u)'
    BY DEF ReadStaysValid
  <2>1. u # t /\ loaded'[u] = loaded[u] /\ loaded[u] # Nothing
    BY <1>5
  <2>2. npc[u] = "func" /\ npc[t] = "func" /\ call[u] # NoCall
    BY <2>1, StoreFacts DEF LoadedInv, QueryInv
  <2>3. loaded[u].index \in Lock!Positions
    <3>1. /\ loaded[u].index \in Int
          /\ left[u] <= loaded[u].index /\ loaded[u].index <= right[u]
      BY <2>1 DEF LoadedInv, TypeOK
    <3>2. left[u] \in Lock!Positions /\ right[u] \in Lock!Positions
      BY DEF LockInv, LockTypeOK
    <3> QED
      BY <3>1, <3>2, SlotOfKey DEF Lock!Positions
  <2>4. loaded[u].index # loaded[t].index
    <3>1. loaded[t] # Nothing
      BY DEF FuncStore
    <3> QED
      BY <2>1, <2>2, <2>3, <3>1, FuncsApart DEF LoadedInv
  <2>5. /\ data_'[loaded[u].index] = data_[loaded[u].index]
        /\ present_'[loaded[u].index] = present_[loaded[u].index]
    BY <2>3, <2>4, StoreFacts
  <2>6. call'[u].op = call[u].op
    BY <2>1, StoreCalls
  <2> QED
    BY <2>1, <2>5, <2>6 DEF ReadStaysValid
<1>11. SeenInv'
  <2> SUFFICES ASSUME NEW u \in Threads, call'[u] # NoCall,
                      call'[u].result = "pending"
               PROVE  /\ call'[u].key \in present' => TRUE \in call'[u].seen
                      /\ call'[u].key \notin present' => FALSE \in call'[u].seen
    BY DEF SeenInv
  <2>1. /\ u # t /\ call[u] # NoCall /\ call[u].result = "pending"
        /\ call'[u].key = call[u].key /\ call[u].seen \subseteq call'[u].seen
    BY StoreCalls
  <2>2. /\ call[u].key \in present => TRUE \in call'[u].seen
        /\ call[u].key \notin present => FALSE \in call'[u].seen
    BY <2>1 DEF SeenInv
  <2>3. CASE present_' = present_
    <3>1. present' = present
      BY <2>3 DEF present
    <3> QED
      BY <2>1, <2>2, <3>1
  <2>4. CASE call[u].key # call[t].key
    <3>1. call[u].key \in present' <=> call[u].key \in present
      <4>1. CASE present_' = present_
        BY <4>1 DEF present
      <4>2. CASE \/ present' = present \cup {call[t].key}
                 \/ present' = present \ {call[t].key}
        BY <2>4, <4>2
      <4> QED
        BY <4>1, <4>2, StoreFacts
    <3> QED
      BY <2>1, <2>2, <3>1
  <2>5. ASSUME NEW there \in BOOLEAN, Effect(t, there), call[u].key = call[t].key
        PROVE  there \in call'[u].seen
    <3>1. call'[u] = [call[u] EXCEPT !.seen = @ \cup {there}]
      BY <2>1, <2>5 DEF Effect
    <3>2. call[u] \in CallSet
      BY <2>1 DEF TypeOK
    <3>3. call'[u].seen = call[u].seen \cup {there}
      BY <3>1, <3>2 DEF CallSet
    <3> QED
      BY <3>3
  <2>6. CASE call[u].key = call[t].key /\ present_' # present_
    <3>1. CASE Effect(t, TRUE) /\ present' = present \cup {call[t].key}
      BY <2>1, <2>5, <2>6, <3>1
    <3>2. CASE Effect(t, FALSE) /\ present' = present \ {call[t].key}
      BY <2>1, <2>5, <2>6, <3>2
    <3> QED
      BY <2>6, <3>1, <3>2, StoreFacts
  <2> QED
    BY <2>3, <2>4, <2>6
<1> QED
  BY <1>2, <1>6, <1>7, <1>8, <1>9, <1>10, <1>11

(* IInv holds in every state of the benchmark.                             *)
THEOREM InductiveInvariant == Spec => []IInv
<1>1. IInv /\ [Next]_vars => IInv'
  <2> SUFFICES ASSUME IInv, [Next]_vars PROVE IInv'
    OBVIOUS
  <2>1. CASE Next /\ ~UNCHANGED vars
    BY <2>1, LoopInv, OperationInv, LockingInv, FuncLoadInv, FuncStoreInv,
       ReturnInv
    DEF Next, Finished, ThreadStep
  <2>2. CASE UNCHANGED vars
    <3>1. UNCHANGED <<benchVars, adapterVars>> /\ UNCHANGED lockVars
      BY <2>2 DEF vars
    <3>2. LockInv'
      BY <3>1, LockFrame DEF IInv
    <3>3. TypeOK' /\ StageInv' /\ QueryInv' /\ LoadedInv'
      BY <3>1
      DEF IInv, TypeOK, StageInv, QueryInv, LoadedInv, Workers, Current,
          benchVars, adapterVars, lockVars
    <3>4. ReadStaysValid' /\ SeenInv'
      BY <3>1
      DEF IInv, ReadStaysValid, SeenInv, present, benchVars, adapterVars
    <3> QED
      BY <3>2, <3>3, <3>4 DEF IInv
  <2> QED
    BY <2>1, <2>2
<1> QED
  BY <1>1, InitInv, PTL DEF Spec

(* What a func has read is still true when it writes, though the arrays    *)
(* are plain: nobody else's func has a lock of the slot.                   *)
THEOREM ReadValid == Spec => []ReadStaysValid
<1>1. IInv => ReadStaysValid
  BY DEF IInv
<1> QED
  BY <1>1, InductiveInvariant, PTL

-----------------------------------------------------------------------------
(* NaiveLock implements the abstract range lock                            *)

(* The grant: when the last lock of a range is taken, no other func works  *)
(* on a position of it.                                                    *)
LEMMA CountStep ==
    ASSUME LockInv, NEW t \in Threads, Lock!Count(t)
    PROVE  Lock!RL!Enter(t)
<1>1. /\ npc[t] = "count" /\ npc'[t] = "func" /\ left' = left /\ right' = right
      /\ \A u \in Threads \ {t} : npc'[u] = npc[u]
  BY DEF LockInv, LockTypeOK, Lock!Count, Lock!Goto
<1>2. /\ left[t] \in Lock!Positions /\ right[t] \in Lock!Positions
      /\ left[t] <= right[t]
  BY DEF LockInv, LockTypeOK, GuardInv
<1>3. Lock!granted[t] = {}
  BY <1>1 DEF Lock!granted
<1>4. Lock!granted' = [Lock!granted EXCEPT ![t] = left[t] .. right[t]]
  BY <1>1 DEF Lock!granted
<1>5. ASSUME NEW u \in Threads \ {t}
      PROVE  Lock!granted[u] \cap (left[t] .. right[t]) = {}
  <2> SUFFICES ASSUME NEW p \in Lock!granted[u], p \in left[t] .. right[t]
               PROVE  FALSE
    OBVIOUS
  <2>1. npc[u] = "func" /\ p \in left[u] .. right[u]
    BY DEF Lock!granted
  <2>2. /\ p \in Lock!Positions
        /\ left[t] <= p /\ p <= right[t] /\ left[u] <= p /\ p <= right[u]
    BY <1>2, <2>1, LockFacts, SlotOfKey DEF Lock!Positions
  <2> QED
    BY <1>1, <2>1, <2>2, FuncsApart
<1> QED
  BY <1>2, <1>3, <1>4, <1>5 DEF Lock!RL!Enter

(* The end of func gives the range back.                                   *)
LEMMA DoneStep ==
    ASSUME LockInv, NEW t \in Threads, Lock!FuncDone(t)
    PROVE  Lock!RL!Leave(t)
<1>1. /\ npc[t] = "func" /\ npc'[t] = "unlock" /\ left' = left /\ right' = right
      /\ \A u \in Threads \ {t} : npc'[u] = npc[u]
  BY DEF LockInv, LockTypeOK, Lock!FuncDone, Lock!Goto
<1>2. left[t] \in left[t] .. right[t]
  BY LockFacts DEF LockInv, GuardInv
<1>3. Lock!granted[t] # {}
  BY <1>1, <1>2 DEF Lock!granted
<1>4. Lock!granted' = [Lock!granted EXCEPT ![t] = {}]
  BY <1>1 DEF Lock!granted
<1> QED
  BY <1>3, <1>4 DEF Lock!RL!Leave

(* No other step of a query grants anything or takes it away.              *)
LEMMA SilentStep ==
    ASSUME LockInv, NEW t \in Threads,
           \/ \E l, r \in Nat : Lock!WriteQuery(t, l, r)
           \/ Lock!Exchange(t) \/ Lock!ExchangeFails(t) \/ Lock!Spin(t)
           \/ Lock!UnlockLast(t)
    PROVE  UNCHANGED Lock!granted
<1>1. npc[t] # "func" /\ npc'[t] # "func"
  BY DEF LockInv, LockTypeOK, Lock!WriteQuery, Lock!Exchange,
         Lock!ExchangeFails, Lock!Spin, Lock!UnlockLast, Lock!Goto
<1>2. \A u \in Threads \ {t} :
          npc'[u] = npc[u] /\ left'[u] = left[u] /\ right'[u] = right[u]
  BY DEF LockInv, LockTypeOK, Lock!WriteQuery, Lock!Exchange,
         Lock!ExchangeFails, Lock!Spin, Lock!UnlockLast, Lock!Goto
<1> QED
  BY <1>1, <1>2 DEF Lock!granted

(* NaiveLock, as the adapter uses it, implements the abstract range lock:  *)
(* func runs over its range while no other func shares a position of it.   *)
THEOREM LockRefinement == Spec => RangeLockSpec
<1>1. Init => Lock!RL!Init
  BY DEF Init, Lock!LockInit, Lock!RL!Init, Lock!granted
<1>2. IInv /\ [Next]_vars => [Lock!RL!Next]_(Lock!granted)
  <2> SUFFICES ASSUME IInv, [Next]_vars PROVE [Lock!RL!Next]_(Lock!granted)
    OBVIOUS
  <2>1. CASE UNCHANGED lockVars
    BY <2>1 DEF lockVars, Lock!granted
  <2>2. ASSUME NEW t \in Threads, Operation(t) PROVE UNCHANGED Lock!granted
    <3>1. \E l, r \in Nat : Lock!WriteQuery(t, l, r)
      <4>1. PICK lo \in Keys, hi \in Keys :
                \E o \in Current.ops :
                   call' = [call EXCEPT ![t] = NewCall(o, lo, hi, lo \in present)]
        BY <2>2 DEF Operation, StepCall
      <4>2. call'[t].key = lo /\ call'[t].to = hi
        BY <4>1 DEF IInv, TypeOK, NewCall
      <4> QED
        BY <2>2, <4>2, SlotOfKey, BenchAssumption DEF Operation
    <3> QED
      BY <3>1, SilentStep DEF IInv
  <2>3. ASSUME NEW t \in Threads, Locking(t)
        PROVE  Lock!RL!Next \/ UNCHANGED Lock!granted
    BY <2>3, CountStep, SilentStep DEF IInv, Locking, Lock!LockStep, Lock!RL!Next
  <2>4. ASSUME NEW t \in Threads, FuncStore(t) PROVE Lock!RL!Next
    BY <2>4, DoneStep DEF IInv, FuncStore, Lock!RL!Next
  <2>5. ASSUME NEW t \in Threads, Loop(t) \/ FuncLoad(t) \/ Return(t)
        PROVE  UNCHANGED lockVars
    BY <2>5 DEF Loop, FuncLoad, Lock!InFunc, Lock!lockVars, lockVars, Return
  <2>6. ASSUME MainStep \/ Finished \/ UNCHANGED vars PROVE UNCHANGED lockVars
    BY <2>6 DEF MainStep, Finished, vars
  <2> QED
    BY <2>1, <2>2, <2>3, <2>4, <2>5, <2>6 DEF Next, ThreadStep
<1> QED
  BY <1>1, <1>2, InductiveInvariant, PTL
  DEF Spec, RangeLockSpec, Lock!RangeLockSpec, Lock!RL!Spec

-----------------------------------------------------------------------------
(* The adapter implements the dictionary                                   *)

(* The dictionary's view of a call.                                        *)
LEMMA ViewOfCall ==
    ASSUME NEW c \in CallSet
    PROVE  /\ PointCall(c) # NoCall /\ c # NoCall
           /\ PointCall(c).op = c.op /\ PointCall(c).key = c.key
           /\ PointCall(c).seen = c.seen /\ PointCall(c).result = c.result
<1>1. c.op \in Ops
  BY DEF CallSet
<1>2. PointCall(c).op # NoCall.op
  BY <1>1 DEF PointCall, NoCall, Ops
<1> QED
  BY <1>2, CallIsCall DEF PointCall

(* It depends on the call alone.                                           *)
LEMMA ViewFrame ==
    ASSUME NEW t \in Threads, call'[t] = call[t]
    PROVE  pointCall'[t] = pointCall[t]
  BY DEF pointCall

(* insertIfAbsent, erase or find is called; a range query is invisible.    *)
LEMMA CallStep ==
    ASSUME IInv, NEW t \in Threads, Operation(t)
    PROVE  Dict!Next \/ UNCHANGED <<present, pointCall>>
<1>1. PICK o \in Current.ops, lo \in Keys, hi \in Keys :
          call' = [call EXCEPT ![t] = NewCall(o, lo, hi, lo \in present)]
  BY DEF Operation, StepCall
<1>2. o \in Ops
  BY BenchAssumption DEF IInv, TypeOK, Current
<1> DEFINE there == lo \in present
           c == NewCall(o, lo, hi, there)
<1> HIDE DEF there
<1>3. /\ c.op = o
      /\ PointCall(c) = [op |-> o, key |-> lo, seen |-> {there},
                         result |-> "pending"]
  BY DEF NewCall, PointCall
<1> HIDE DEF c
<1>4. /\ call[t] = NoCall /\ call'[t] = c
      /\ \A u \in Threads \ {t} : call'[u] = call[u]
  <2>1. tpc[t] = "step"
    BY DEF Operation, StepCall, To
  <2> QED
    BY <1>1, <2>1 DEF IInv, TypeOK, StageInv, c, there
<1>5. present' = present
  BY DEF Operation, adapterVars, present
<1>6. pointCall[t] = NoCall
  BY <1>4 DEF pointCall, NoCall
<1>7. \A u \in Threads \ {t} : pointCall'[u] = pointCall[u]
  BY <1>4, ViewFrame
<1>8. CASE o = "range"
  <2>1. pointCall'[t] = NoCall
    BY <1>3, <1>4, <1>8 DEF pointCall
  <2>2. pointCall' = pointCall
    BY <1>6, <1>7, <2>1 DEF pointCall
  <2> QED
    BY <1>5, <2>2
<1>9. CASE o # "range"
  <2>1. pointCall'[t] = PointCall(c)
    BY <1>2, <1>3, <1>4, <1>9 DEF pointCall, Ops
  <2>2. pointCall' = [pointCall EXCEPT ![t] = PointCall(c)]
    BY <1>7, <2>1 DEF pointCall
  <2>3. Dict!Call(t, o, lo)
    <3>1. pointCall' = [pointCall EXCEPT
              ![t] = [op |-> o, key |-> lo, seen |-> {there}, result |-> "pending"]]
      BY <1>3, <2>2
    <3> QED
      BY <1>5, <1>6, <3>1, Zenon DEF Dict!Call, there
  <2>4. o \in {"insert", "remove", "get"}
    BY <1>2, <1>9 DEF Ops
  <2> QED
    BY <2>3, <2>4 DEF Dict!Next
<1> QED
  BY <1>8, <1>9

(* The operation takes effect at the end of func.                          *)
LEMMA EffectStep ==
    ASSUME IInv, NEW t \in Threads, FuncStore(t)
    PROVE  Dict!Next \/ UNCHANGED <<present, pointCall>>
<1> DEFINE c == call[t]
<1>1. c \in CallSet /\ c.result = "pending" /\ c.op \in Ops
  BY StoreFacts DEF CallSet
<1>2. call \in [Threads -> CallSet \cup {NoCall}]
  BY DEF IInv, TypeOK
<1>3. c.op # "range" => /\ pointCall[t] = PointCall(c)
                        /\ pointCall[t] # NoCall
                        /\ pointCall[t].result = "pending"
                        /\ pointCall[t].op = c.op
                        /\ pointCall[t].key = c.key
                        /\ pointCall[t].seen = c.seen
  BY <1>1, ViewOfCall DEF pointCall, Ops
<1>4. ASSUME NEW r \in {"success", "failure"},
             call'[t] = [c EXCEPT !.result = r]
      PROVE  pointCall'[t] = IF c.op = "range" THEN NoCall
                             ELSE [PointCall(c) EXCEPT !.result = r]
  <2>1. /\ call'[t].op = c.op /\ call'[t].key = c.key /\ call'[t].seen = c.seen
        /\ call'[t].result = r
    BY <1>1, <1>4 DEF CallSet
  <2>2. PointCall(call'[t]) = [PointCall(c) EXCEPT !.result = r]
    BY <2>1 DEF PointCall
  <2> QED
    BY <1>1, <2>1, <2>2 DEF pointCall, Ops
<1>5. ASSUME NEW r \in {"success", "failure"}, Decide(t, r)
      PROVE  /\ c.op = "range" => pointCall' = pointCall
             /\ c.op # "range" =>
                   pointCall' = [pointCall EXCEPT ![t].result = r]
  <2>1. call'[t] = [c EXCEPT !.result = r]
        /\ \A u \in Threads \ {t} : call'[u] = call[u]
    BY <1>2, <1>5 DEF Decide
  <2>2. \A u \in Threads \ {t} : pointCall'[u] = pointCall[u]
    BY <2>1, ViewFrame
  <2>3. c.op = "range" => pointCall[t] = NoCall
    BY DEF pointCall
  <2>4. /\ pointCall = [u \in Threads |-> pointCall[u]]
        /\ pointCall' = [u \in Threads |-> pointCall'[u]]
    BY DEF pointCall
  <2>5. CASE c.op = "range"
    <3>1. pointCall'[t] = pointCall[t]
      BY <1>4, <2>1, <2>3, <2>5
    <3> QED
      BY <2>2, <2>4, <2>5, <3>1
  <2>6. CASE c.op # "range"
    <3>1. pointCall'[t] = [pointCall[t] EXCEPT !.result = r]
      BY <1>3, <1>4, <2>1, <2>6
    <3> QED
      BY <2>2, <2>4, <2>6, <3>1
  <2> QED
    BY <2>5, <2>6
<1>6. ASSUME NEW there \in BOOLEAN, Effect(t, there), c.op # "range"
      PROVE  Dict!Change(t, there)
  <2>1. pointCall'[t] = [pointCall[t] EXCEPT !.result = "success"]
    BY <1>3, <1>4, <1>6 DEF Effect
  <2>2. ASSUME NEW u \in Threads \ {t}
        PROVE  pointCall'[u] =
                  IF pointCall[u] # NoCall /\ pointCall[u].key = pointCall[t].key
                  THEN [pointCall[u] EXCEPT !.seen = @ \cup {there}]
                  ELSE pointCall[u]
    <3>1. CASE call[u] = NoCall
      BY <1>6, <3>1 DEF Effect, pointCall, NoCall
    <3>2. CASE call[u] # NoCall /\ call[u].key # c.key
      <4>1. call'[u] = call[u]
        BY <1>6, <3>2 DEF Effect
      <4>2. call[u] \in CallSet
        BY <1>2, <3>2
      <4> QED
        BY <1>3, <1>6, <3>2, <4>1, <4>2, ViewOfCall DEF pointCall
    <3>3. CASE call[u] # NoCall /\ call[u].key = c.key
      <4>1. call'[u] = [call[u] EXCEPT !.seen = @ \cup {there}]
        BY <1>6, <3>3 DEF Effect
      <4>2. call[u] \in CallSet /\ call[u].op \in Ops
        BY <1>2, <3>3 DEF CallSet
      <4>3. /\ call'[u].op = call[u].op /\ call'[u].key = call[u].key
            /\ call'[u].seen = call[u].seen \cup {there}
            /\ call'[u].result = call[u].result
        BY <4>1, <4>2 DEF CallSet
      <4>4. CASE call[u].op = "range"
        BY <4>3, <4>4 DEF pointCall
      <4>5. CASE call[u].op # "range"
        <5>1. pointCall[u] = PointCall(call[u]) /\ pointCall'[u] = PointCall(call'[u])
          BY <4>2, <4>3, <4>5 DEF pointCall, Ops
        <5>2. PointCall(call'[u]) = [PointCall(call[u]) EXCEPT !.seen = @ \cup {there}]
          <6> DEFINE grown == call[u].seen \cup {there}
          <6>1. call'[u].seen = grown /\ PointCall(call[u]).seen \cup {there} = grown
            BY <4>2, <4>3, ViewOfCall
          <6> HIDE DEF grown
          <6>2. PointCall(call'[u]) = [op |-> call[u].op, key |-> call[u].key,
                                       seen |-> grown, result |-> call[u].result]
            BY <4>3, <6>1 DEF PointCall
          <6>3. [PointCall(call[u]) EXCEPT !.seen = grown]
                   = [op |-> call[u].op, key |-> call[u].key,
                      seen |-> grown, result |-> call[u].result]
            BY DEF PointCall
          <6> QED
            BY <6>1, <6>2, <6>3
        <5> QED
          BY <1>3, <1>6, <3>3, <4>2, <5>1, <5>2, ViewOfCall
      <4> QED
        BY <4>4, <4>5
    <3> QED
      BY <3>1, <3>2, <3>3
  <2> QED
    BY <2>1, <2>2 DEF Dict!Change, pointCall
<1>7. CASE present_' = present_
  <2>1. PICK r \in {"success", "failure"} :
          /\ Decide(t, r)
          /\ c.op = "insert" => c.key \in present /\ r = "failure"
          /\ c.op = "remove" => c.key \notin present /\ r = "failure"
          /\ c.op = "get" => r = (IF c.key \in present THEN "success" ELSE "failure")
    <3>1. present' = present
      BY <1>7 DEF present
    <3> QED
      BY <3>1, StoreFacts
  <2>2. present' = present
    BY <1>7 DEF present
  <2>3. CASE c.op = "range"
    BY <1>5, <2>1, <2>2, <2>3
  <2>4. CASE c.op # "range"
    <3>1. /\ c.key \in present => TRUE \in c.seen
          /\ c.key \notin present => FALSE \in c.seen
      BY <1>1, CallIsCall DEF IInv, SeenInv
    <3>2. pointCall' = [pointCall EXCEPT ![t].result = r]
      BY <1>5, <2>1, <2>4
    <3>3. Dict!Answer(t)
      <4>1. CASE c.op = "insert"
        BY <1>3, <2>1, <2>2, <3>1, <3>2, <4>1 DEF Dict!Answer
      <4>2. CASE c.op = "remove"
        BY <1>3, <2>1, <2>2, <3>1, <3>2, <4>2 DEF Dict!Answer
      <4>3. CASE c.op = "get"
        <5>1. \E there \in c.seen : r = Dict!Found(there)
          BY <2>1, <3>1, <4>3 DEF Dict!Found
        <5> QED
          BY <1>3, <2>2, <3>2, <4>3, <5>1 DEF Dict!Answer
      <4> QED
        BY <1>1, <2>4, <4>1, <4>2, <4>3 DEF Ops
    <3> QED
      BY <1>3, <2>4, <3>3 DEF Dict!Next
  <2> QED
    BY <2>3, <2>4
<1>8. CASE present_' # present_
  <2>1. CASE /\ c.op = "insert" /\ c.key \notin present
             /\ present' = present \cup {c.key} /\ Effect(t, TRUE)
    <3>1. Dict!Insert(t)
      BY <1>3, <1>6, <2>1 DEF Dict!Insert
    <3> QED
      BY <1>3, <2>1, <3>1 DEF Dict!Next
  <2>2. CASE /\ c.op = "remove" /\ c.key \in present
             /\ present' = present \ {c.key} /\ Effect(t, FALSE)
    <3>1. Dict!Remove(t)
      BY <1>3, <1>6, <2>2 DEF Dict!Remove
    <3> QED
      BY <1>3, <2>2, <3>1 DEF Dict!Next
  <2> QED
    BY <1>8, <2>1, <2>2, StoreFacts
<1> QED
  BY <1>7, <1>8

(* The return.                                                             *)
LEMMA ReturnStep ==
    ASSUME IInv, NEW t \in Threads, Return(t)
    PROVE  Dict!Next \/ UNCHANGED <<present, pointCall>>
<1>1. /\ call' = [call EXCEPT ![t] = NoCall] /\ call[t].result # "pending"
      /\ present' = present
  BY DEF Return, StepReturn, adapterVars, present
<1>2. /\ call \in [Threads -> CallSet \cup {NoCall}] /\ call'[t] = NoCall
      /\ \A u \in Threads \ {t} : call'[u] = call[u]
  BY <1>1 DEF IInv, TypeOK
<1>3. pointCall'[t] = NoCall /\ \A u \in Threads \ {t} : pointCall'[u] = pointCall[u]
  BY <1>2, ViewFrame DEF pointCall, NoCall
<1>4. pointCall' = [pointCall EXCEPT ![t] = NoCall]
  BY <1>3 DEF pointCall
<1>5. CASE pointCall[t] = NoCall
  <2>1. pointCall' = pointCall
    BY <1>3, <1>5 DEF pointCall
  <2> QED
    BY <1>1, <2>1
<1>6. CASE pointCall[t] # NoCall
  <2>1. pointCall[t] = PointCall(call[t]) /\ call[t] \in CallSet
    BY <1>2, <1>6 DEF pointCall, NoCall
  <2>2. Dict!Return(t)
    BY <1>1, <1>4, <1>6, <2>1, ViewOfCall DEF Dict!Return
  <2> QED
    BY <2>2 DEF Dict!Next
<1> QED
  BY <1>5, <1>6

(* The adapter is a dictionary: every operation on a key takes effect at   *)
(* one moment between its call and its return.                             *)
THEOREM DictionaryRefinement == Spec => DictionarySpec
<1>1. Init => Dict!Init
  <2> SUFFICES ASSUME Init PROVE Dict!Init
    OBVIOUS
  <2>1. present = {}
    BY PresentSlot, SlotOfKey DEF Init
  <2>2. pointCall = [t \in Threads |-> NoCall]
    BY DEF Init, BenchInit, pointCall, NoCall
  <2> QED
    BY <2>1, <2>2 DEF Dict!Init
<1>2. IInv /\ [Next]_vars => [Dict!Next]_<<present, pointCall>>
  <2> SUFFICES ASSUME IInv, [Next]_vars
               PROVE  Dict!Next \/ UNCHANGED <<present, pointCall>>
    OBVIOUS
  <2>1. CASE UNCHANGED <<call, present_>>
    BY <2>1 DEF present, pointCall
  <2>2. ASSUME NEW t \in Threads, Loop(t) \/ Locking(t) \/ FuncLoad(t)
        PROVE  UNCHANGED <<call, present_>>
    BY <2>2
    DEF Loop, Pre, SeeStart, IsStopped, Post, Leave, Locking, FuncLoad,
        benchVars, adapterVars
  <2>3. ASSUME MainStep \/ Finished \/ UNCHANGED vars
        PROVE  UNCHANGED <<call, present_>>
    BY <2>3
    DEF MainStep, Main, SkipStage, CreateThreads, StartThreads, JoinThreads,
        Finished, vars, benchVars, adapterVars
  <2> QED
    BY <2>1, <2>2, <2>3, CallStep, EffectStep, ReturnStep DEF Next, ThreadStep
<1> QED
  BY <1>1, <1>2, InductiveInvariant, PTL DEF Spec, DictionarySpec, Dict!Spec

-----------------------------------------------------------------------------
(* The harness counts every operation                                      *)

(* Of the numbers of a nonempty set one is the least.                      *)
LEMMA LeastElement ==
    ASSUME NEW T \in SUBSET Nat, T # {}
    PROVE  \E x \in T : \A y \in T : x <= y
<1> DEFINE R == {ss \in Nat \X Nat : ss[1] < ss[2]}
<1>1. IsWellFoundedOn(R, Nat)
  BY NatLessThanWellFounded DEF OpToRel
<1>2. \A x, y \in Nat : y < x => <<y, x>> \in R
  OBVIOUS
<1> HIDE DEF R
<1>3. PICK x \in T : \A y \in T : ~(<<y, x>> \in R)
  BY <1>1, WFMin
<1>4. \A y \in T : ~(y < x) /\ y \in Nat /\ x \in Nat
  BY <1>2, <1>3
<1>5. \A y \in T : x <= y
  BY <1>4
<1> QED
  BY <1>5

(* u[t] operations of each thread t are c[n] operations of the first n     *)
(* threads.                                                                *)
Tally(u, c) ==
    /\ u \in [Threads -> Nat]
    /\ c \in [0 .. MaxThreads -> Nat]
    /\ c[0] = 0
    /\ \A t \in Threads : c[t + 1] = c[t] + u[t]

(* The operations t has executed in this stage, by its control point: one  *)
(* step of the loop for each that operCount has gone down by, and up to    *)
(* Current.attempts operations in each step.                               *)
Executed(t, n) ==
    LET steps == Share(t) - operCount[t] IN
    /\ tpc[t] \in {"pre", "ready"} => n = 0 /\ operCount[t] = Share(t)
    /\ tpc[t] = "loop" =>
          /\ operCount[t] >= 0 /\ steps >= 0
          /\ n >= steps /\ n <= steps * Current.attempts
    /\ tpc[t] \in {"step", "call"} =>
          /\ operCount[t] >= 0 /\ steps >= 1 /\ counter[t] < Current.attempts
          /\ n - counter[t] >= steps - 1
          /\ n - counter[t] <= (steps - 1) * Current.attempts
    /\ tpc[t] \in {"post", "barrier", "ended"} =>
          n >= Share(t) /\ n <= Share(t) * Current.attempts

Counted ==
    \E u, c : /\ Tally(u, c)
              /\ num_operations = c[Current.threads]
              /\ \A t \in Workers : Executed(t, u[t])

CountInv ==
    /\ operCount \in [Threads -> Int]
    /\ counter \in [Threads -> Nat]
    /\ num_operations \in Nat
    /\ start => mpc = "join"
    /\ mpc \in {"create", "wait"} => num_operations = 0
    /\ mpc = "wait" => \A t \in Threads : tpc[t] \in {"none", "pre", "ready"}
    /\ mpc \in {"wait", "join"} => Current.threads > 0
    /\ mpc = "join" => Counted

countVars == <<mpc, stage, start, operCount, tpc, counter, num_operations>>

(* What BenchAssumption says of the current stage.                         *)
LEMMA StageFacts ==
    ASSUME stage \in 1 .. 3
    PROVE  /\ Current.threads \in 0 .. MaxThreads /\ MaxThreads \in Nat \ {0}
           /\ Current.limit \in Nat /\ Current.attempts \in Nat \ {0}
           /\ Workers = 0 .. Current.threads - 1
           /\ \A t \in Workers : t \in Threads /\ t \in Nat /\ Share(t) \in Nat
<1>1. /\ Current.threads \in 0 .. MaxThreads /\ MaxThreads \in Nat \ {0}
      /\ Current.limit \in Nat /\ Current.attempts \in Nat \ {0}
  BY BenchAssumption DEF Current
<1>2. Workers = 0 .. Current.threads - 1
  BY DEF Workers
<1>3. ASSUME NEW t \in Workers PROVE t \in Threads /\ t \in Nat /\ Share(t) \in Nat
  <2>1. t \in Threads /\ t \in Nat /\ Current.threads \in Nat \ {0}
    BY <1>1, <1>2, <1>3 DEF Threads
  <2>2. Current.limit \div Current.threads \in Nat
    BY <1>1, <2>1
  <2> QED
    BY <2>1, <2>2 DEF Share
<1> QED
  BY <1>1, <1>2, <1>3

(* One more operation of t.                                                *)
LEMMA TallyOneMore ==
    ASSUME NEW u, NEW c, Tally(u, c), NEW t \in Threads, NEW n \in 0 .. MaxThreads, t < n,
           MaxThreads \in Nat
    PROVE  \E v, d : /\ Tally(v, d) /\ d[n] = c[n] + 1
                     /\ v[t] = u[t] + 1 /\ \A s \in Threads : s # t => v[s] = u[s]
<1> DEFINE v == [u EXCEPT ![t] = @ + 1]
           d == [i \in 0 .. MaxThreads |-> IF i > t THEN c[i] + 1 ELSE c[i]]
<1>1. /\ u \in [Threads -> Nat] /\ c \in [0 .. MaxThreads -> Nat] /\ c[0] = 0
      /\ \A s \in Threads : c[s + 1] = c[s] + u[s]
  BY DEF Tally
<1>2. t \in Nat /\ \A s \in Threads : s \in 0 .. MaxThreads /\ s + 1 \in 0 .. MaxThreads
                                       /\ s \in Nat
  BY DEF Threads
<1>3. v \in [Threads -> Nat] /\ v[t] = u[t] + 1 /\ \A s \in Threads : s # t => v[s] = u[s]
  BY <1>1
<1>4. \A i \in 0 .. MaxThreads : d[i] = IF i > t THEN c[i] + 1 ELSE c[i]
  OBVIOUS
<1>5. d \in [0 .. MaxThreads -> Nat] /\ d[0] = 0 /\ d[n] = c[n] + 1
  BY <1>1, <1>2
<1> HIDE DEF v, d
<1>6. ASSUME NEW s \in Threads PROVE d[s + 1] = d[s] + v[s]
  <2>1. /\ d[s] = IF s > t THEN c[s] + 1 ELSE c[s]
        /\ d[s + 1] = IF s + 1 > t THEN c[s + 1] + 1 ELSE c[s + 1]
    BY <1>2, <1>4
  <2>2. c[s + 1] = c[s] + u[s] /\ c[s] \in Nat /\ c[s + 1] \in Nat /\ u[s] \in Nat
    BY <1>1, <1>2
  <2>3. CASE s = t
    BY <1>2, <1>3, <2>1, <2>2, <2>3
  <2>4. CASE s # t
    BY <1>2, <1>3, <2>1, <2>2, <2>4
  <2> QED
    BY <2>3, <2>4
<1>7. Tally(v, d)
  BY <1>3, <1>5, <1>6 DEF Tally
<1> QED
  BY <1>3, <1>5, <1>7

(* The shares of the first m threads, and up to a times as much.           *)
LEMMA SharesAddUp ==
    ASSUME stage \in 1 .. 3, Current.threads > 0, NEW u, NEW c, Tally(u, c),
           NEW a \in Nat,
           \A t \in Workers : u[t] >= Share(t) /\ u[t] <= Share(t) * a
    PROVE  /\ c[Current.threads] >= Current.limit
           /\ c[Current.threads] <= Current.limit * a
<1> DEFINE n == Current.threads
           q == Current.limit \div n
           r == Current.limit % n
           P(m) == m * q + (IF m < r THEN m ELSE r)
           bad == {m \in 0 .. n : ~(c[m] >= P(m) /\ c[m] <= P(m) * a)}
<1>1. /\ n \in Nat \ {0} /\ n <= MaxThreads /\ MaxThreads \in Nat
      /\ Current.limit \in Nat /\ Workers = 0 .. n - 1
  BY StageFacts
<1>2. q \in Nat /\ r \in 0 .. n - 1 /\ Current.limit = n * q + r
  <2>1. /\ q \in Nat /\ q = Current.limit \div n
        /\ r \in 0 .. n - 1 /\ r = Current.limit % n
    <3>1. ASSUME NEW x \in Nat, NEW y \in Nat \ {0}
          PROVE  x \div y \in Nat
      OBVIOUS
    <3>2. ASSUME NEW x \in Nat, NEW y \in Nat \ {0}
          PROVE  x % y \in 0 .. y - 1
      OBVIOUS
    <3> QED
      BY <1>1, <3>1, <3>2
  <2> HIDE DEF n, q, r
  <2> DEFINE x == Current.limit
  <2>2. x \in Int /\ n \in Int /\ n > 0 /\ q \in Int /\ r \in Int /\ q = x \div n /\ r = x % n
    BY <1>1, <2>1
  <2> HIDE DEF x
  <2>3. x = n * q + r
    BY <2>2
  <2> QED
    BY <2>1, <2>3 DEF x
<1>3. \A m \in 0 .. n - 1 : Share(m) = q + (IF m < r THEN 1 ELSE 0)
  BY DEF Share
<1>4. /\ u \in [Threads -> Nat] /\ c \in [0 .. MaxThreads -> Nat] /\ c[0] = 0
      /\ \A t \in Threads : c[t + 1] = c[t] + u[t]
  BY DEF Tally
<1>5. \A t \in Workers : u[t] >= Share(t) /\ u[t] <= Share(t) * a
  OBVIOUS
<1> HIDE DEF n, q, r
<1>6. \A m \in 0 .. n : P(m) \in Nat
  BY <1>1, <1>2
<1>7. P(0) = 0
  BY <1>2
<1>8. ASSUME NEW m \in 0 .. n - 1 PROVE P(m + 1) = P(m) + Share(m)
  <2>1. Share(m) = q + (IF m < r THEN 1 ELSE 0)
    BY <1>3
  <2>2. (m + 1) * q = m * q + q /\ m * q \in Nat
    BY <1>1, <1>2
  <2> QED
    BY <1>1, <1>2, <2>1, <2>2
<1>9. P(n) = Current.limit
  BY <1>1, <1>2
<1>10. bad = {}
  <2> SUFFICES ASSUME bad # {} PROVE FALSE
    OBVIOUS
  <2>1. bad \in SUBSET Nat
    BY <1>1
  <2>2. PICK x \in bad : \A y \in bad : x <= y
    <3> HIDE DEF bad
    <3> QED
      BY <2>1, LeastElement
  <2> HIDE DEF P
  <2>3. x \in 0 .. n /\ ~(c[x] >= P(x) /\ c[x] <= P(x) * a)
    OBVIOUS
  <2>4. x # 0
    BY <1>4, <1>7, <2>3
  <2>5. x - 1 \in 0 .. n - 1 /\ x - 1 \in 0 .. n /\ x - 1 \in Nat /\ x - 1 \notin bad
        /\ (x - 1) + 1 = x
    <3>1. x \in Nat /\ x - 1 \in Nat /\ ~(x <= x - 1)
      BY <1>1, <2>3, <2>4
    <3> QED
      BY <1>1, <2>2, <2>3, <3>1
  <2> DEFINE m == x - 1
  <2>6. c[m] >= P(m) /\ c[m] <= P(m) * a
    BY <2>5
  <2> HIDE DEF m
  <2>7. m \in Workers /\ m \in Threads /\ m \in 0 .. MaxThreads /\ m \in 0 .. n /\ m + 1 = x
    BY <1>1, <2>5 DEF Threads, m
  <2>8. /\ c[x] = c[m] + u[m] /\ c[m] \in Nat /\ u[m] \in Nat
        /\ u[m] >= Share(m) /\ u[m] <= Share(m) * a
    BY <1>4, <1>5, <2>7
  <2>9. P(x) = P(m) + Share(m) /\ P(m) \in Nat /\ Share(m) \in Nat
    <3>1. m \in 0 .. n - 1
      BY <2>5 DEF m
    <3>2. Share(m) \in Nat
      BY <1>1, <1>2, <1>3, <3>1
    <3> QED
      BY <1>6, <1>8, <2>7, <3>1, <3>2
  <2>10. P(x) * a = P(m) * a + Share(m) * a
    <3> DEFINE f == P(m)
               g == Share(m)
    <3>1. f \in Nat /\ g \in Nat /\ P(x) = f + g
      BY <2>9
    <3> HIDE DEF f, g
    <3>2. (f + g) * a = f * a + g * a
      BY <3>1
    <3> QED
      BY <3>1, <3>2 DEF f, g
  <2>11. P(m) * a \in Nat /\ Share(m) * a \in Nat
    BY <2>9
  <2> QED
    BY <2>3, <2>6, <2>8, <2>9, <2>10, <2>11
<1>11. n \in 0 .. n
  BY <1>1
<1>12. c[n] >= P(n) /\ c[n] <= P(n) * a
  <2> HIDE DEF P
  <2> QED
    BY <1>10, <1>11
<1> QED
  BY <1>9, <1>12 DEF n

(* A thread's own step: only t moves, the others' accounts stay.           *)
LEMMA CountMove ==
    ASSUME IInv, CountInv, NEW t \in Threads, mpc = "join", UNCHANGED <<mpc, stage, start>>,
           t \in Workers,
           operCount' \in [Threads -> Int], counter' \in [Threads -> Nat],
           num_operations' = num_operations,
           \A s \in Threads : s # t => /\ tpc'[s] = tpc[s] /\ counter'[s] = counter[s]
                                       /\ operCount'[s] = operCount[s],
           \A n \in Nat : Executed(t, n) => Executed(t, n)'
    PROVE  CountInv'
<1>1. /\ Current' = Current /\ Workers' = Workers
      /\ \A s \in Workers : Share(s)' = Share(s)
  BY DEF Current, Workers, Share
<1>2. PICK u, c : /\ Tally(u, c) /\ num_operations = c[Current.threads]
                  /\ \A s \in Workers : Executed(s, u[s])
  BY DEF CountInv, Counted
<1>3. Workers \subseteq Threads
  BY StageFacts DEF IInv, TypeOK
<1>4. ASSUME NEW s \in Workers PROVE Executed(s, u[s])'
  <2>1. CASE s = t
    <3>1. u[t] \in Nat
      BY <1>2 DEF Tally
    <3> QED
      BY <1>2, <2>1, <3>1
  <2>2. CASE s # t
    <3>1. /\ tpc'[s] = tpc[s] /\ counter'[s] = counter[s]
          /\ operCount'[s] = operCount[s] /\ Share(s)' = Share(s)
      BY <1>1, <1>3, <2>2
    <3>2. Executed(s, u[s])
      BY <1>2
    <3> QED
      BY <1>1, <3>1, <3>2 DEF Executed
  <2> QED
    BY <2>1, <2>2
<1>5. Counted'
  BY <1>1, <1>2, <1>4 DEF Counted, Tally
<1> QED
  BY <1>1, <1>5 DEF CountInv

(* An operation returns: one more of t's is executed and counted.          *)
LEMMA CountReturn ==
    ASSUME IInv, CountInv, NEW t \in Threads, StepReturn(t)
    PROVE  CountInv'
<1>1. /\ stage \in 1 .. 3 /\ mpc \in {"wait", "join"} /\ t \in Workers
      /\ tpc \in [Threads -> ThreadPC] /\ tpc[t] = "call"
  BY DEF IInv, TypeOK, StageInv, StepReturn, To
<1>2. mpc = "join"
  BY <1>1 DEF CountInv
<1>3. /\ UNCHANGED <<mpc, stage, start, operCount>>
      /\ num_operations' = num_operations + 1
      /\ counter' = [counter EXCEPT ![t] = @ + 1]
      /\ counter \in [Threads -> Nat] /\ operCount \in [Threads -> Int]
      /\ num_operations \in Nat
  BY DEF StepReturn, CountInv
<1>4. /\ tpc' = [tpc EXCEPT ![t] = tpc'[t]]
      /\ \/ tpc'[t] = "step" /\ counter[t] + 1 < Current.attempts
         \/ tpc'[t] = "loop"
  BY <1>1 DEF StepReturn, To
<1>5. /\ counter'[t] = counter[t] + 1 /\ counter[t] \in Nat /\ operCount[t] \in Int
      /\ \A s \in Threads : s # t => tpc'[s] = tpc[s] /\ counter'[s] = counter[s]
  BY <1>1, <1>3, <1>4
<1>6. /\ Current' = Current /\ Workers' = Workers
      /\ \A s \in Workers : Share(s)' = Share(s)
  BY <1>3 DEF Current, Workers, Share
<1>7. PICK u, c : /\ Tally(u, c) /\ num_operations = c[Current.threads]
                  /\ \A s \in Workers : Executed(s, u[s])
  BY <1>2 DEF CountInv, Counted
<1>8. /\ Current.threads \in 0 .. MaxThreads /\ MaxThreads \in Nat
      /\ Current.attempts \in Nat \ {0} /\ t < Current.threads
      /\ Workers \subseteq Threads /\ Share(t) \in Nat
  BY <1>1, StageFacts
<1>9. PICK v, d : /\ Tally(v, d) /\ d[Current.threads] = c[Current.threads] + 1
                  /\ v[t] = u[t] + 1 /\ \A s \in Threads : s # t => v[s] = u[s]
  BY <1>7, <1>8, TallyOneMore
<1>10. ASSUME NEW s \in Workers PROVE Executed(s, v[s])'
  <2>1. CASE s = t
    <3> DEFINE n == u[t]
               k == counter[t]
               a == Current.attempts
               b == (Share(t) - operCount[t]) - 1
    <3>1. n \in Nat
      BY <1>7 DEF Tally
    <3>2. Executed(t, n)
      BY <1>1, <1>7
    <3>3. /\ operCount[t] >= 0 /\ b >= 0 /\ b \in Int /\ k < a
          /\ n - k >= b /\ n - k <= b * a
      BY <1>1, <1>5, <1>8, <3>2 DEF Executed
    <3>4. k \in Nat /\ a \in Nat \ {0} /\ Share(t) - operCount[t] = b + 1
      BY <1>5, <1>8
    <3> HIDE DEF n, k, b, a
    <3>5. (b + 1) * a = b * a + a /\ b * a \in Int
      BY <3>3, <3>4
    <3>6. n + 1 >= b + 1 /\ n + 1 <= (b + 1) * a
      BY <3>1, <3>3, <3>4, <3>5
    <3>7. (n + 1) - (k + 1) >= b /\ (n + 1) - (k + 1) <= b * a
      BY <3>1, <3>3, <3>4, <3>5
    <3>8. /\ v[t] = n + 1 /\ counter'[t] = k + 1 /\ Current'.attempts = a
          /\ Share(t)' - operCount'[t] = b + 1 /\ operCount'[t] >= 0
          /\ (Share(t)' - operCount'[t]) - 1 = b
      BY <1>1, <1>3, <1>5, <1>6, <1>9, <3>3, <3>4 DEF n, k, a
    <3>9. CASE tpc'[t] = "step" /\ counter[t] + 1 < Current.attempts
      <4>1. k + 1 < a
        BY <3>9 DEF k, a
      <4> QED
        BY <2>1, <3>3, <3>7, <3>8, <3>9, <4>1 DEF Executed
    <3>10. CASE tpc'[t] = "loop"
      BY <2>1, <3>3, <3>6, <3>8, <3>10 DEF Executed
    <3> QED
      BY <1>4, <3>9, <3>10
  <2>2. CASE s # t
    <3>1. /\ tpc'[s] = tpc[s] /\ counter'[s] = counter[s] /\ v[s] = u[s]
          /\ operCount'[s] = operCount[s] /\ Share(s)' = Share(s)
      BY <1>3, <1>5, <1>6, <1>8, <1>9, <2>2
    <3>2. Executed(s, u[s])
      BY <1>7
    <3> QED
      BY <1>6, <3>1, <3>2 DEF Executed
  <2> QED
    BY <2>1, <2>2
<1>11. Counted'
  <2>1. num_operations' = d[Current'.threads]
    BY <1>3, <1>6, <1>7, <1>9
  <2>2. Tally(v, d)'
    BY <1>9 DEF Tally
  <2> QED
    BY <1>6, <1>10, <2>1, <2>2 DEF Counted
<1> QED
  BY <1>2, <1>3, <1>6, <1>11 DEF CountInv

(* The loop of a thread: the steps that execute no operation.              *)
LEMMA CountLoop ==
    ASSUME IInv, CountInv, NEW t \in Threads,
           \/ Pre(t) \/ SeeStart(t) \/ IsStopped(t) \/ Post(t) \/ Leave(t)
           \/ StepCall(t, present)
    PROVE  CountInv'
<1>1. /\ UNCHANGED <<mpc, stage, start, num_operations>>
      /\ stage \in 1 .. 3 /\ mpc \in {"wait", "join"} /\ t \in Workers
      /\ tpc \in [Threads -> ThreadPC]
  BY DEF IInv, TypeOK, StageInv, Pre, SeeStart, IsStopped, Post, Leave, StepCall, To
<1>2. /\ operCount \in [Threads -> Int] /\ counter \in [Threads -> Nat]
      /\ num_operations \in Nat
  BY DEF CountInv
<1>3. operCount' \in [Threads -> Int] /\ counter' \in [Threads -> Nat]
  BY <1>2 DEF Pre, SeeStart, IsStopped, Post, Leave, StepCall
<1>4. \A s \in Threads : s # t => /\ tpc'[s] = tpc[s] /\ counter'[s] = counter[s]
                                  /\ operCount'[s] = operCount[s]
  BY <1>1, <1>2 DEF Pre, SeeStart, IsStopped, Post, Leave, StepCall, To
<1>5. CASE mpc = "wait"
  <2>1. tpc[t] \in {"none", "pre", "ready"} /\ ~start
    BY <1>1, <1>5 DEF CountInv
  <2>2. Pre(t)
    BY <2>1 DEF SeeStart, IsStopped, Post, Leave, StepCall, To
  <2>3. tpc'[t] = "ready"
    BY <1>1, <2>2 DEF Pre, To
  <2> QED
    BY <1>1, <1>2, <1>3, <1>4, <1>5, <2>3 DEF CountInv, Current
<1>6. CASE mpc = "join"
  <2>1. /\ Current.attempts \in Nat \ {0} /\ Share(t) \in Nat
        /\ Current' = Current /\ Share(t)' = Share(t)
    BY <1>1, StageFacts DEF Current, Share
  <2>2. operCount[t] \in Int /\ counter[t] \in Nat
    BY <1>2
  <2>3. ASSUME NEW n \in Nat, Executed(t, n) PROVE Executed(t, n)'
    <3>1. CASE Pre(t) \/ SeeStart(t) \/ Post(t) \/ Leave(t) \/ StepCall(t, present)
      <4>1. UNCHANGED <<operCount, counter>>
        BY <3>1 DEF Pre, SeeStart, Post, Leave, StepCall
      <4>2. CASE Pre(t)
        <5>1. tpc[t] = "pre" /\ tpc'[t] = "ready"
          BY <1>1, <4>2 DEF Pre, To
        <5> QED
          BY <2>1, <2>3, <4>1, <5>1 DEF Executed
      <4>3. CASE SeeStart(t)
        <5>1. tpc[t] = "ready" /\ tpc'[t] = "loop"
          BY <1>1, <4>3 DEF SeeStart, To
        <5>2. n = 0 /\ operCount[t] = Share(t) /\ operCount'[t] = Share(t)'
              /\ Share(t)' - operCount'[t] = 0 /\ operCount'[t] >= 0
          BY <2>1, <2>2, <2>3, <4>1, <5>1 DEF Executed
        <5>3. 0 * Current'.attempts = 0
          BY <2>1
        <5> QED
          BY <5>1, <5>2, <5>3 DEF Executed
      <4>4. CASE Post(t) \/ Leave(t)
        <5>1. /\ tpc[t] \in {"post", "barrier"}
              /\ tpc'[t] \in {"barrier", "ended"}
          BY <1>1, <4>4 DEF Post, Leave, To
        <5> QED
          BY <2>1, <2>3, <4>1, <5>1 DEF Executed
      <4>5. CASE StepCall(t, present)
        <5>1. tpc[t] = "step" /\ tpc'[t] = "call"
          BY <1>1, <4>5 DEF StepCall, To
        <5> QED
          BY <2>1, <2>3, <4>1, <5>1 DEF Executed
      <4> QED
        BY <3>1, <4>2, <4>3, <4>4, <4>5
    <3>2. CASE IsStopped(t)
      <4>1. /\ tpc[t] = "loop" /\ operCount'[t] = operCount[t] - 1 /\ counter'[t] = 0
            /\ tpc'[t] = IF operCount[t] - 1 < 0 THEN "post" ELSE "step"
        BY <1>1, <1>2, <3>2 DEF IsStopped, To
      <4> DEFINE o == operCount[t]
                 a == Current.attempts
                 b == Share(t) - o
      <4>2. o >= 0 /\ b >= 0 /\ n >= b /\ n <= b * a
        BY <2>3, <4>1 DEF Executed
      <4>3. o \in Int /\ a \in Nat \ {0} /\ b \in Int /\ b = Share(t) - o
        BY <2>1, <2>2
      <4>4. /\ operCount'[t] = o - 1 /\ Current'.attempts = a
            /\ Share(t)' - operCount'[t] = b + 1
            /\ (Share(t)' - operCount'[t]) - 1 = b
        BY <2>1, <2>2, <4>1
      <4>5. CASE o - 1 < 0
        <5>1. b = Share(t)
          BY <2>1, <4>2, <4>3, <4>5
        <5>2. tpc'[t] = "post"
          BY <4>1, <4>5
        <5>3. n >= Share(t)' /\ n <= Share(t)' * Current'.attempts
          <6>1. Share(t)' = b /\ Current'.attempts = a
            BY <2>1, <5>1
          <6> HIDE DEF b, a
          <6> QED
            BY <4>2, <6>1
        <5> QED
          BY <5>2, <5>3 DEF Executed
      <4>6. CASE ~(o - 1 < 0)
        <5>1. tpc'[t] = "step" /\ operCount'[t] >= 0
          BY <4>1, <4>3, <4>4, <4>6
        <5>2. n - counter'[t] = n /\ counter'[t] < a
          BY <4>1, <4>3
        <5> HIDE DEF o, a, b
        <5> QED
          BY <4>2, <4>3, <4>4, <5>1, <5>2 DEF Executed
      <4> QED
        BY <4>5, <4>6
    <3> QED
      BY <3>1, <3>2
  <2> QED
    BY <1>1, <1>3, <1>4, <1>6, <2>3, CountMove
<1> QED
  BY <1>1, <1>5, <1>6

(* main: the shares are handed out while no thread is in its loop, and the *)
(* count is cleared after each stage.                                      *)
LEMMA CountMain ==
    ASSUME IInv, CountInv, Main
    PROVE  CountInv'
<1>1. /\ stage \in 1 .. 3 /\ tpc \in [Threads -> ThreadPC]
      /\ mpc \in {"create", "wait", "join", "report"}
      /\ operCount \in [Threads -> Int] /\ counter \in [Threads -> Nat]
      /\ num_operations \in Nat
  BY DEF IInv, TypeOK, CountInv
<1>2. CASE SkipStage
  BY <1>1, <1>2 DEF SkipStage, CountInv
<1>3. CASE CreateThreads
  <2>1. \A t \in Threads : tpc[t] = "none"
    BY <1>3 DEF CreateThreads, IInv, StageInv
  <2>2. \A t \in Threads : tpc'[t] \in {"none", "pre"}
    BY <1>3, <2>1 DEF CreateThreads
  <2>3. Current.threads > 0 /\ Current' = Current
    <3>1. Workers # {} /\ stage' = stage
      BY <1>3 DEF CreateThreads
    <3>2. Current.threads \in Nat
      BY <1>1, StageFacts
    <3> QED
      BY <3>1, <3>2 DEF Workers, Current
  <2> QED
    BY <1>1, <1>3, <2>2, <2>3 DEF CreateThreads, CountInv
<1>4. CASE StartThreads
  <2>1. /\ mpc = "wait" /\ mpc' = "join" /\ UNCHANGED <<stage, tpc, counter, num_operations>>
        /\ operCount' = [t \in Threads |-> IF t \in Workers THEN Share(t) ELSE operCount[t]]
    BY <1>4 DEF StartThreads
  <2>2. /\ num_operations = 0
        /\ \A t \in Threads : tpc[t] \in {"none", "pre", "ready"}
    BY <2>1 DEF CountInv
  <2>3. /\ Current.threads \in 0 .. MaxThreads /\ MaxThreads \in Nat
        /\ \A t \in Workers : t \in Threads /\ Share(t) \in Nat
    BY <1>1, StageFacts
  <2>4. operCount' \in [Threads -> Int]
    BY <1>1, <2>1, <2>3
  <2>5. /\ Current' = Current /\ Workers' = Workers
        /\ \A t \in Workers : Share(t)' = Share(t)
    BY <2>1 DEF Current, Workers, Share
  <2> DEFINE u == [t \in Threads |-> 0]
             c == [m \in 0 .. MaxThreads |-> 0]
  <2>6. Tally(u, c)'
    <3>1. \A t \in Threads : t \in 0 .. MaxThreads /\ t + 1 \in 0 .. MaxThreads
      BY <2>3 DEF Threads
    <3>2. /\ u \in [Threads -> Nat] /\ c \in [0 .. MaxThreads -> Nat] /\ c[0] = 0
          /\ \A t \in Threads : c[t + 1] = c[t] + u[t]
      BY <2>3, <3>1
    <3> QED
      BY <3>2 DEF Tally
  <2>7. ASSUME NEW t \in Workers PROVE Executed(t, u[t])'
    <3>1. u[t] = 0 /\ operCount'[t] = Share(t)' /\ tpc'[t] \in {"none", "pre", "ready"}
      BY <2>1, <2>2, <2>3, <2>5
    <3> HIDE DEF u
    <3> QED
      BY <3>1 DEF Executed
  <2>8. num_operations' = c[Current'.threads]
    BY <2>1, <2>2, <2>3, <2>5
  <2> HIDE DEF u, c
  <2>9. Counted'
    BY <2>5, <2>6, <2>7, <2>8 DEF Counted
  <2> QED
    BY <1>1, <2>1, <2>4, <2>5, <2>9 DEF CountInv
<1>5. CASE JoinThreads
  <2>1. operCount' \in [Threads -> Int] /\ counter' \in [Threads -> Nat]
    BY <1>5 DEF JoinThreads, AllEnded
  <2>2. start' = FALSE /\ mpc' \in {"create", "report"} /\ num_operations' \in Nat
        /\ (mpc' = "create" => num_operations' = 0)
    BY <1>1, <1>5 DEF JoinThreads, AllEnded
  <2> QED
    BY <2>1, <2>2 DEF CountInv
<1> QED
  BY <1>2, <1>3, <1>4, <1>5 DEF Main

(* No operation is lost or counted twice between OperationCounter's shares *)
(* and the statistics: a stage executes as many as it was given, and more  *)
(* only when prefilling repeats a failed insertion, whatever the number of *)
(* threads and however the shares come out.                                *)
THEOREM OperationsAreCounted == Spec => []OperationsCounted
<1>1. Init => CountInv
  BY DEF Init, BenchInit, CountInv
<1>2. IInv /\ CountInv /\ [Next]_vars => CountInv'
  <2> SUFFICES ASSUME IInv, CountInv, [Next]_vars PROVE CountInv'
    OBVIOUS
  <2>1. ASSUME UNCHANGED countVars PROVE CountInv'
    <3>1. /\ Current' = Current /\ Workers' = Workers
          /\ \A t \in Workers : Share(t)' = Share(t)
      BY <2>1 DEF countVars, Current, Workers, Share
    <3>2. ASSUME Counted PROVE Counted'
      <4>1. PICK u, c : /\ Tally(u, c) /\ num_operations = c[Current.threads]
                        /\ \A s \in Workers : Executed(s, u[s])
        BY <3>2 DEF Counted
      <4>2. \A s \in Workers : Executed(s, u[s])'
        BY <2>1, <3>1, <4>1 DEF Executed, countVars
      <4>3. Tally(u, c)' /\ num_operations' = c[Current'.threads]
        BY <2>1, <3>1, <4>1 DEF Tally, countVars
      <4> QED
        BY <3>1, <4>2, <4>3 DEF Counted
    <3> QED
      BY <2>1, <3>1, <3>2 DEF CountInv, countVars
  <2>2. CASE UNCHANGED vars
    BY <2>1, <2>2 DEF vars, benchVars, countVars
  <2>3. CASE MainStep
    BY <2>3, CountMain DEF MainStep
  <2>4. ASSUME NEW t \in Threads, ThreadStep(t) PROVE CountInv'
    <3>1. CASE Loop(t)
      BY <3>1, CountLoop DEF Loop
    <3>2. CASE Operation(t)
      BY <3>2, CountLoop DEF Operation
    <3>3. CASE Return(t)
      BY <3>3, CountReturn DEF Return
    <3>4. CASE Locking(t) \/ FuncLoad(t) \/ FuncStore(t)
      BY <2>1, <3>4 DEF Locking, FuncLoad, FuncStore, benchVars, countVars
    <3> QED
      BY <2>4, <3>1, <3>2, <3>3, <3>4 DEF ThreadStep
  <2> QED
    BY <2>2, <2>3, <2>4 DEF Next, Finished
<1>3. IInv /\ CountInv => OperationsCounted
  <2> SUFFICES ASSUME IInv, CountInv, mpc = "join", \A t \in Workers : tpc[t] = "ended"
               PROVE  IF Current.attempts = 1 THEN num_operations = Current.limit
                      ELSE num_operations \in
                              Current.limit .. Current.limit * Current.attempts
    BY DEF OperationsCounted
  <2>1. PICK u, c : /\ Tally(u, c) /\ num_operations = c[Current.threads]
                    /\ \A s \in Workers : Executed(s, u[s])
    BY DEF CountInv, Counted
  <2>2. \A t \in Workers : u[t] >= Share(t) /\ u[t] <= Share(t) * Current.attempts
    BY <2>1 DEF Executed
  <2>3. /\ stage \in 1 .. 3 /\ num_operations \in Nat
        /\ Current.limit \in Nat /\ Current.attempts \in Nat \ {0}
    BY StageFacts DEF IInv, TypeOK, CountInv
  <2>4. Current.threads > 0
    BY DEF CountInv
  <2>5. /\ num_operations >= Current.limit
        /\ num_operations <= Current.limit * Current.attempts
    BY <2>1, <2>2, <2>3, <2>4, SharesAddUp
  <2>6. Current.attempts = 1 => num_operations = Current.limit
    BY <2>3, <2>5
  <2>7. Current.limit * Current.attempts \in Nat
    BY <2>3
  <2> QED
    BY <2>3, <2>5, <2>6, <2>7
<1> QED
  BY <1>1, <1>2, <1>3, InductiveInvariant, PTL DEF Spec
=============================================================================
