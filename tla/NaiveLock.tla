----------------------------- MODULE NaiveLock ------------------------------
(***************************************************************************)
(* NaiveLock: the range lock with fixed partitions, the baseline of the    *)
(* two adaptive locks.  The Mutex parameter is spinlock (as in             *)
(* adaptive_lock_benchmark), whose compare-and-exchange loop is modelled   *)
(* step by step.  A std::mutex is the special case in which nobody spins:  *)
(* Exchange takes it when it is free.  The module describes one call       *)
(* of WriteQuery per thread; its client joins FuncDone with what its func  *)
(* does.  array_size_ = 0, where every call returns at once, is left out;  *)
(* so are the clocks.                                                      *)
(***************************************************************************)
EXTENDS Integers

CONSTANTS
    ArraySize,    \* array_size_
    kLockCnt,     \* the number of locks
    Threads       \* the threads that call WriteQuery

VARIABLES
    locked_,            \* the flag of each spinlock
    operation_count_,
    npc,                \* control point of WriteQuery in each thread
    left, right,        \* its clamped arguments
    locked_count_       \* how many locks its guard has taken

lockVars == <<locked_, operation_count_, npc, left, right, locked_count_>>

Positions == 0 .. ArraySize - 1
Locks == 0 .. kLockCnt - 1
Smaller(a, b) == IF a < b THEN a ELSE b

block_size_ == (ArraySize + kLockCnt - 1) \div kLockCnt

(* The lock that protects a position; the last one takes the rest.         *)
LockOf(p) == Smaller(p \div block_size_, kLockCnt - 1)

LockInit ==
    /\ locked_ = [l \in Locks |-> FALSE]
    /\ operation_count_ = 0
    /\ npc = [t \in Threads |-> "idle"]
    /\ left = [t \in Threads |-> 0]
    /\ right = [t \in Threads |-> 0]
    /\ locked_count_ = [t \in Threads |-> 0]

Goto(t, from, to) == npc[t] = from /\ npc' = [npc EXCEPT ![t] = to]

(* Entry: the ends are clamped and put in order.                           *)
WriteQuery(t, l, r) ==
    LET a == Smaller(l, ArraySize - 1)
        b == Smaller(r, ArraySize - 1)
    IN
    /\ Goto(t, "idle", "exchange")
    /\ left' = [left EXCEPT ![t] = Smaller(a, b)]
    /\ right' = [right EXCEPT ![t] = IF a > b THEN a ELSE b]
    /\ UNCHANGED <<locked_, operation_count_, locked_count_>>

(* The guard takes first_lock .. last_lock upwards; this is its next one.  *)
NextLock(t) == LockOf(left[t]) + locked_count_[t]

(* Mutant: the guard stops before the last lock.                           *)
AllButLast(t) == NextLock(t) >= LockOf(right[t]) - 1

IsLastLock(t) == NextLock(t) = LockOf(right[t])

(* Mutant: the outcome of the exchange is ignored.                         *)
ExchangeIgnored(t) == TRUE

ExchangeSucceeds(t) == ~locked_[NextLock(t)]

(* spinlock::lock: the compare-and-exchange takes a free lock ...          *)
Exchange(t) ==
    /\ Goto(t, "exchange", IF IsLastLock(t) THEN "count" ELSE "exchange")
    /\ ExchangeSucceeds(t)
    /\ locked_' = [locked_ EXCEPT ![NextLock(t)] = TRUE]
    /\ locked_count_' = [locked_count_ EXCEPT ![t] = @ + 1]
    /\ UNCHANGED <<operation_count_, left, right>>

(* ... or fails, because the lock is taken or, being weak, for no reason.  *)
ExchangeFails(t) ==
    /\ Goto(t, "exchange", "spin")
    /\ UNCHANGED <<locked_, operation_count_, left, right, locked_count_>>

(* The inner loop loads the flag until it is false.                        *)
Spin(t) ==
    /\ Goto(t, "spin", IF locked_[NextLock(t)] THEN "spin" ELSE "exchange")
    /\ UNCHANGED <<locked_, operation_count_, left, right, locked_count_>>

(* AddDuration and ++operation_count_, then func is called.                *)
Count(t) ==
    /\ Goto(t, "count", "func")
    /\ operation_count_' = operation_count_ + 1
    /\ UNCHANGED <<locked_, left, right, locked_count_>>

(* func goes on, or returns.                                               *)
InFunc(t) == npc[t] = "func" /\ UNCHANGED lockVars
FuncDone(t) ==
    /\ Goto(t, "func", "unlock")
    /\ UNCHANGED <<locked_, operation_count_, left, right, locked_count_>>

(* Mutant: the index of the lock to release is one too high.               *)
OneTooHigh(t) == NextLock(t)

LastTaken(t) == NextLock(t) - 1

(* UnlockAll: downwards; then WriteQuery returns.                          *)
UnlockLast(t) ==
    LET done == locked_count_[t] = 1 IN
    /\ Goto(t, "unlock", IF done THEN "idle" ELSE "unlock")
    /\ locked_' = [locked_ EXCEPT ![LastTaken(t)] = FALSE]
    /\ locked_count_' = [locked_count_ EXCEPT ![t] = @ - 1]
    /\ left' = [left EXCEPT ![t] = IF done THEN 0 ELSE @]
    /\ right' = [right EXCEPT ![t] = IF done THEN 0 ELSE @]
    /\ UNCHANGED operation_count_

LockStep(t) ==
    \/ Exchange(t) \/ ExchangeFails(t) \/ Spin(t) \/ Count(t) \/ UnlockLast(t)

-----------------------------------------------------------------------------

(* NaiveLock keeps the promise of WriteQuery: while func runs, its thread  *)
(* has been granted the range.                                             *)
granted == [t \in Threads |-> IF npc[t] = "func" THEN left[t] .. right[t]
                                                 ELSE {}]
RL == INSTANCE RangeLock WITH running <- granted
RangeLockSpec == RL!Spec
=============================================================================
