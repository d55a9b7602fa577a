----------------------------- MODULE EpochQuery -----------------------------
(***************************************************************************)
(* The protocol by which WriteQuery of DynamicLock and of GeneticLock      *)
(* takes the mutexes of a range while somebody else may repartition the    *)
(* array: look the locks up in a map without holding any, take them, then  *)
(* validate partition_epoch_, which is odd while the map is rewritten, and *)
(* start over if the lookup is stale.  The two classes contain the same    *)
(* code; DynamicLock.tla and GeneticLock.tla add the ones who repartition. *)
(*                                                                         *)
(* Every atomic load, mutex acquisition and release that another thread    *)
(* can observe is a step of its own.                                       *)
(***************************************************************************)
EXTENDS BlockMap

CONSTANTS
    Threads,         \* the threads that call WriteQuery
    NoOne,           \* the owner of a free mutex
    Requests         \* the pairs <<left, right>> passed to WriteQuery

ASSUME QueryAssumption ==
    /\ NoOne \notin Threads
    /\ Requests \subseteq Nat \X Nat

VARIABLES
    \* members of the object that queries use
    locks_, block_to_lock_, partition_epoch_, pause_queries_,
    \* locals of WriteQuery in each thread, with its control point
    qpc, left, right, epoch, lock_start, lock_end, qlocked

publishedVars == <<block_to_lock_, partition_epoch_, pause_queries_>>
sharedVars    == <<locks_, publishedVars>>
queryVars     == <<qpc, left, right, epoch, lock_start, lock_end, qlocked>>

QueryPC == {"idle", "pause", "epoch", "left", "right", "lock", "validate",
            "func", "return", "retry"}

(* The constructor: uniform partitions, every mutex free, epoch 0.         *)
QueryInit ==
    /\ locks_ = [l \in Locks |-> NoOne]
    /\ block_to_lock_ \in [Blocks -> Locks]
    /\ IsRefreshOf(block_to_lock_, UniformCuts)
    /\ partition_epoch_ = 0
    /\ pause_queries_ = FALSE
    /\ qpc = [t \in Threads |-> "idle"]
    /\ left = [t \in Threads |-> 0]
    /\ right = [t \in Threads |-> 0]
    /\ epoch = [t \in Threads |-> 0]
    /\ lock_start = [t \in Threads |-> 0]
    /\ lock_end = [t \in Threads |-> 0]
    /\ qlocked = [t \in Threads |-> 0]

Goto(t, from, to) == qpc[t] = from /\ qpc' = [qpc EXCEPT ![t] = to]

(* Entry: the ends are clamped and put in order.                           *)
Call(t) ==
    /\ Goto(t, "idle", "pause")
    /\ \E request \in Requests :
          /\ left' = [left EXCEPT ![t] = ClampedLeft(request)]
          /\ right' = [right EXCEPT ![t] = ClampedRight(request)]
    /\ UNCHANGED <<sharedVars, epoch, lock_start, lock_end, qlocked>>

(* The spin on pause_queries_ ends.                                        *)
WaitPause(t) ==
    /\ Goto(t, "pause", "epoch")
    /\ ~pause_queries_
    /\ UNCHANGED <<sharedVars, left, right, epoch, lock_start, lock_end,
                   qlocked>>

LoadEpoch(t) ==
    /\ Goto(t, "epoch", IF partition_epoch_ % 2 # 0 THEN "pause" ELSE "left")
    /\ epoch' = [epoch EXCEPT ![t] = partition_epoch_]
    /\ UNCHANGED <<sharedVars, left, right, lock_start, lock_end, qlocked>>

(* FindLocksSegmentUnlocked: two relaxed loads, between which a rebuilder  *)
(* may rewrite the map.                                                    *)
LoadLeft(t) ==
    /\ Goto(t, "left", "right")
    /\ lock_start' = [lock_start EXCEPT
                        ![t] = block_to_lock_[PositionToBlock(left[t])]]
    /\ UNCHANGED <<sharedVars, left, right, epoch, lock_end, qlocked>>

LoadRight(t) ==
    /\ lock_end' = [lock_end EXCEPT
                      ![t] = block_to_lock_[PositionToBlock(right[t])]]
    /\ Goto(t, "right", IF lock_start[t] > lock_end'[t] THEN "pause"
                                                        ELSE "lock")
    /\ UNCHANGED <<sharedVars, left, right, epoch, lock_start, qlocked>>

(* The locks lock_start .. lock_end are taken one by one upwards.  The     *)
(* branch for a single lock, which uses a lock_guard, does the same.       *)
LockNext(t) ==
    LET index == lock_start[t] + qlocked[t] IN
    /\ Goto(t, "lock", IF index = lock_end[t] THEN "validate" ELSE "lock")
    /\ locks_[index] = NoOne
    /\ locks_' = [locks_ EXCEPT ![index] = t]
    /\ qlocked' = [qlocked EXCEPT ![t] = @ + 1]
    /\ UNCHANGED <<publishedVars, left, right, epoch, lock_start, lock_end>>

(* Mutant: only the parity is checked.                                     *)
EpochIsEven(t) == partition_epoch_ % 2 = 0

(* The epoch under which the locks were looked up is still the current     *)
(* one, and it is even.                                                    *)
EpochValid(t) == epoch[t] = partition_epoch_ /\ partition_epoch_ % 2 = 0

Validate(t) ==
    /\ Goto(t, "validate", IF EpochValid(t) THEN "func" ELSE "retry")
    /\ UNCHANGED <<sharedVars, left, right, epoch, lock_start, lock_end,
                   qlocked>>

(* The caller's func comes to its end.                                     *)
FuncDone(t) ==
    /\ Goto(t, "func", "return")
    /\ UNCHANGED <<sharedVars, left, right, epoch, lock_start, lock_end,
                   qlocked>>

(* UnlockAll: downwards, after which the query returns or starts over.     *)
(* Its locals go out of scope, which is modelled by resetting them.        *)
UnlockLast(t) ==
    LET last == qlocked[t] = 1
        keep(f) == [f EXCEPT ![t] = IF last THEN 0 ELSE @]
    IN
    /\ \/ Goto(t, "return", IF last THEN "idle" ELSE "return")
       \/ Goto(t, "retry", IF last THEN "pause" ELSE "retry")
    /\ qlocked' = [qlocked EXCEPT ![t] = @ - 1]
    /\ locks_' = [locks_ EXCEPT ![lock_start[t] + qlocked[t] - 1] = NoOne]
    /\ epoch' = keep(epoch)
    /\ lock_start' = keep(lock_start)
    /\ lock_end' = keep(lock_end)
    /\ left' = [left EXCEPT ![t] = IF qpc'[t] = "idle" THEN 0 ELSE @]
    /\ right' = [right EXCEPT ![t] = IF qpc'[t] = "idle" THEN 0 ELSE @]
    /\ UNCHANGED publishedVars

(* One step of a thread inside WriteQuery.                                 *)
QueryStep(t) ==
    \/ WaitPause(t) \/ LoadEpoch(t) \/ LoadLeft(t) \/ LoadRight(t)
    \/ LockNext(t) \/ Validate(t) \/ FuncDone(t) \/ UnlockLast(t)

-----------------------------------------------------------------------------
(* What the protocol is for                                                *)

(* WriteQuery's purpose: no two threads run func over overlapping ranges,  *)
(* however the queries interleave with each other and with rebuilders.     *)
RangeExclusion ==
    \A t, u \in Threads :
        t # u /\ qpc[t] = "func" /\ qpc[u] = "func"
            => (left[t] .. right[t]) \cap (left[u] .. right[u]) = {}

(* The abstract lock that DynamicLock implements: while func runs, the     *)
(* thread has been granted its range.                                      *)
running == [t \in Threads |-> IF qpc[t] = "func" THEN left[t] .. right[t]
                                                 ELSE {}]
RL == INSTANCE RangeLock WITH running <- running
RangeLockSpec == RL!Spec

(* The lock-free lookup is validated correctly: while func runs, its       *)
(* thread owns the lock that the current map gives to each block of its    *)
(* range, and the map is not being rewritten.                              *)
HoldsCurrentLocks ==
    \A t \in Threads :
        qpc[t] = "func" =>
            /\ partition_epoch_ % 2 = 0
            /\ \A b \in BlocksOf(left[t], right[t]) :
                  locks_[block_to_lock_[b]] = t

(* A query returns, unless calls keep coming for ever.  Rebuilds do not,   *)
(* either: MaxRebuilds of DynamicLock bounds their number, and each may    *)
(* send a query back to its start.                                         *)
QueriesComplete ==
    (\A t \in Threads : <>[][~Call(t)]_<<sharedVars, queryVars>>)
        => \A t \in Threads : qpc[t] = "pause" ~> qpc[t] = "idle"

-----------------------------------------------------------------------------
(* The queries' share of the inductive invariants                          *)

(* Types of the members and locals above; a mutex may also be held by a    *)
(* process that is no query.                                               *)
QueryTypeOK(Others) ==
    /\ locks_ \in [Locks -> Threads \cup Others \cup {NoOne}]
    /\ block_to_lock_ \in [Blocks -> Locks]
    /\ partition_epoch_ \in Nat
    /\ pause_queries_ \in BOOLEAN
    /\ qpc \in [Threads -> QueryPC]
    /\ left \in [Threads -> Positions]
    /\ right \in [Threads -> Positions]
    /\ epoch \in [Threads -> Nat]
    /\ lock_start \in [Threads -> Locks]
    /\ lock_end \in [Threads -> Locks]
    /\ qlocked \in [Threads -> 0 .. kLockCnt]

BeforeLock == {"idle", "pause", "epoch", "left", "right"}
Holding    == {"validate", "func"}
Unlocking  == {"return", "retry"}

(* A query's guard has locked a prefix of lock_start .. lock_end: nothing  *)
(* before it starts, everything before it validates.                       *)
QueryGuard(t) ==
    /\ left[t] <= right[t]
    /\ qpc[t] \in BeforeLock => qlocked[t] = 0
    /\ qpc[t] \notin BeforeLock => lock_start[t] <= lock_end[t]
    /\ qpc[t] = "lock" => qlocked[t] <= lock_end[t] - lock_start[t]
    /\ qpc[t] \in Holding => qlocked[t] = lock_end[t] - lock_start[t] + 1
    /\ qpc[t] \in Unlocking =>
          /\ qlocked[t] >= 1
          /\ qlocked[t] <= lock_end[t] - lock_start[t] + 1
QueryGuardInv == \A t \in Threads : QueryGuard(t)

(* A mutex is owned by a thread exactly if its guard has locked it.        *)
QueryHolds(t, l) == lock_start[t] <= l /\ l < lock_start[t] + qlocked[t]
QueryOwnerInv ==
    \A l \in Locks, t \in Threads : locks_[l] = t <=> QueryHolds(t, l)

(* What a query found in the map is still there as long as the epoch it    *)
(* loaded is the current one; once func runs, it is.                       *)
Lookup(t) ==
    /\ epoch[t] <= partition_epoch_
    /\ qpc[t] \in {"left", "right", "lock", "validate", "func"}
          => epoch[t] % 2 = 0
    /\ qpc[t] = "func" => epoch[t] = partition_epoch_
    /\ epoch[t] = partition_epoch_ =>
          /\ qpc[t] \in {"right", "lock", "validate", "func"}
                => lock_start[t] = block_to_lock_[PositionToBlock(left[t])]
          /\ qpc[t] \in {"lock", "validate", "func"}
                => lock_end[t] = block_to_lock_[PositionToBlock(right[t])]
LookupInv == \A t \in Threads : Lookup(t)


(* The parts together.                                                     *)
QueryInv(Others) ==
    /\ QueryTypeOK(Others)
    /\ QueryGuardInv
    /\ QueryOwnerInv
    /\ LookupInv
=============================================================================
