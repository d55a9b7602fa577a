---------------------------- MODULE DynamicLock ----------------------------
(***************************************************************************)
(* DynamicLock<kLockCnt, Mutex>: the query protocol of EpochQuery together *)
(* with the rebuilders, which move the borders between the partitions the  *)
(* mutexes guard: the background thread of StartRebuilder and the callers  *)
(* of RebuildNow.  Every atomic operation, mutex acquisition and release   *)
(* that another thread can observe is a step of its own.                   *)
(*                                                                         *)
(* The statistics, from which the code computes whether and how to         *)
(* repartition, are abstracted to a nondeterministic choice of the new     *)
(* cuts and of the gain decision; so are the runtime counters.             *)
(***************************************************************************)
EXTENDS EpochQuery, FiniteSets

CONSTANTS
    Callers,         \* the threads that call RebuildNow
    rebuild_thread_, \* the background thread of StartRebuilder
    MaxRebuilds      \* bound: how many new partitionings are installed

Rebuilders == Callers \cup {rebuild_thread_}

ASSUME ProcessAssumption ==
    /\ Threads \cap Rebuilders = {}
    /\ NoOne \notin Rebuilders
    /\ MaxRebuilds \in Nat

VARIABLES
    \* members of the object besides those of EpochQuery
    partitions_, rebuild_flag_, partitions_mutex_, stats_mutex_,
    stop_rebuilder_, rebuild_count_,
    \* locals of RebuildPartitions in each rebuilder, with its control point
    rpc, new_partitions, block, lock_index, rlocked,
    \* where the thread that owns the object is in Start- and StopRebuilder
    opc

mutexVars   == <<partitions_mutex_, stats_mutex_>>
mapVars     == <<block_to_lock_, partitions_, partition_epoch_>>
flagVars    == <<pause_queries_, rebuild_flag_>>
serviceVars == <<stop_rebuilder_, rebuild_count_, opc>>
loopVars    == <<block, lock_index>>
localVars   == <<new_partitions, loopVars, rlocked>>
envVars     == <<serviceVars, queryVars>>
rebuildVars == <<partitions_, rebuild_flag_, mutexVars, serviceVars, rpc,
                 localVars>>
vars        == <<sharedVars, queryVars, rebuildVars>>

RebuildPC == {"none", "idle", "sleep", "exited", "flag", "optimize", "gain",
              "nogain", "noreset", "pause", "lockall", "parts", "stats",
              "publish", "refresh", "even", "reset", "clearflag",
              "clearpause", "unlockall", "count"}

(* Where a rebuilder is when it is outside RebuildPartitions.              *)
Home(r) == IF r = rebuild_thread_ THEN "sleep" ELSE "idle"

Init ==
    /\ QueryInit
    /\ partitions_ = UniformCuts
    /\ rebuild_flag_ = FALSE
    /\ partitions_mutex_ = NoOne
    /\ stats_mutex_ = NoOne
    /\ stop_rebuilder_ = FALSE
    /\ rebuild_count_ = 0
    /\ rpc = [r \in Rebuilders |-> IF r = rebuild_thread_ THEN "none"
                                                          ELSE "idle"]
    /\ new_partitions = [r \in Rebuilders |-> UniformCuts]
    /\ block = [r \in Rebuilders |-> 0]
    /\ lock_index = [r \in Rebuilders |-> 0]
    /\ rlocked = [r \in Rebuilders |-> 0]
    /\ opc = "run"

(* WriteQuery: a call, and one step of a query under way.                  *)
WriteQueryCall(t) == Call(t) /\ UNCHANGED rebuildVars
WriteQueryStep(t) == QueryStep(t) /\ UNCHANGED rebuildVars

-----------------------------------------------------------------------------
(* RebuildPartitions                                                       *)

RGoto(r, from, to) == rpc[r] = from /\ rpc' = [rpc EXCEPT ![r] = to]

(* Mutant: the result of the exchange is ignored.                          *)
ExchangeIgnored(r) == "optimize"

(* rebuild_flag_.exchange(true): who finds it set gives up.                *)
ExchangeResult(r) == IF rebuild_flag_ THEN Home(r) ELSE "optimize"

ExchangeFlag(r) ==
    /\ RGoto(r, "flag", ExchangeResult(r))
    /\ rebuild_flag_' = TRUE
    /\ UNCHANGED <<locks_, mapVars, pause_queries_, mutexVars, envVars,
                   localVars>>

(* Snapshots and OptimizePartitions: any partitioning may come out.        *)
OptimizePartitions == Cuts

Optimize(r) ==
    /\ RGoto(r, "optimize", "gain")
    /\ \E cuts \in OptimizePartitions :
          new_partitions' = [new_partitions EXCEPT ![r] = cuts]
    /\ UNCHANGED <<locks_, mapVars, flagVars, mutexVars, envVars, loopVars,
                   rlocked>>

(* HasEnoughPartitionGain under partitions_mutex_, released at once.       *)
EnoughGain(r) ==
    /\ RGoto(r, "gain", "pause")
    /\ partitions_mutex_ = NoOne
    /\ new_partitions[r] # partitions_
    /\ partition_epoch_ < 2 * MaxRebuilds
    /\ UNCHANGED <<locks_, mapVars, flagVars, mutexVars, envVars, localVars>>

(* Too little gain: partitions_mutex_ is kept while the statistics are     *)
(* reset under stats_mutex_ and the flag is cleared.                       *)
TooLittleGain(r) ==
    /\ RGoto(r, "gain", "nogain")
    /\ partitions_mutex_ = NoOne
    /\ partitions_mutex_' = r
    /\ UNCHANGED <<locks_, mapVars, flagVars, stats_mutex_, envVars,
                   localVars>>

ClearFlagNoGain(r) ==
    /\ RGoto(r, "nogain", "noreset")
    /\ stats_mutex_ = NoOne
    /\ stats_mutex_' = r
    /\ rebuild_flag_' = FALSE
    /\ UNCHANGED <<locks_, mapVars, pause_queries_, partitions_mutex_,
                   envVars, localVars>>

ReturnFalse(r) == Home(r)

ReturnNoGain(r) ==
    /\ RGoto(r, "noreset", ReturnFalse(r))
    /\ stats_mutex_' = NoOne
    /\ partitions_mutex_' = NoOne
    /\ new_partitions' = [new_partitions EXCEPT ![r] = UniformCuts]
    /\ UNCHANGED <<locks_, mapVars, flagVars, envVars, loopVars, rlocked>>

(* Mutant: queries are not held back.                                      *)
SetPauseForgotten(r) ==
    /\ RGoto(r, "pause", "lockall")
    /\ UNCHANGED <<locks_, mapVars, flagVars, mutexVars, envVars, localVars>>

SetPause(r) ==
    /\ RGoto(r, "pause", "lockall")
    /\ pause_queries_' = TRUE
    /\ UNCHANGED <<locks_, mapVars, rebuild_flag_, mutexVars, envVars,
                   localVars>>

(* Mutant: off by one, the last lock is not taken.                         *)
LastLockButOne == kLockCnt - 2

(* RangeLockGuard all_locks(locks_, 0, kLockCnt - 1)                       *)
LastLock == kLockCnt - 1

LockAllNext(r) ==
    /\ RGoto(r, "lockall", IF rlocked[r] = LastLock THEN "parts" ELSE "lockall")
    /\ locks_[rlocked[r]] = NoOne
    /\ locks_' = [locks_ EXCEPT ![rlocked[r]] = r]
    /\ rlocked' = [rlocked EXCEPT ![r] = @ + 1]
    /\ UNCHANGED <<mapVars, flagVars, mutexVars, envVars, new_partitions,
                   loopVars>>

LockPartitions(r) ==
    /\ RGoto(r, "parts", "stats")
    /\ partitions_mutex_ = NoOne
    /\ partitions_mutex_' = r
    /\ UNCHANGED <<locks_, mapVars, flagVars, stats_mutex_, envVars,
                   localVars>>

LockStats(r) ==
    /\ RGoto(r, "stats", "publish")
    /\ stats_mutex_ = NoOne
    /\ stats_mutex_' = r
    /\ UNCHANGED <<locks_, mapVars, flagVars, partitions_mutex_, envVars,
                   localVars>>

NextEpoch == partition_epoch_ + 1

(* Mutant: partitions_mutex_ covers the cuts but not the map.              *)
PublishUnlocks(r) ==
    /\ RGoto(r, "publish", "refresh")
    /\ partitions_' = new_partitions[r]
    /\ partition_epoch_' = NextEpoch
    /\ partitions_mutex_' = NoOne
    /\ UNCHANGED <<locks_, block_to_lock_, flagVars, stats_mutex_, envVars,
                   localVars>>

(* partitions_ is moved in (it is only read under partitions_mutex_) and   *)
(* the epoch becomes odd.                                                  *)
Publish(r) ==
    /\ RGoto(r, "publish", "refresh")
    /\ partitions_' = new_partitions[r]
    /\ partition_epoch_' = NextEpoch
    /\ UNCHANGED <<locks_, block_to_lock_, flagVars, mutexVars, envVars,
                   localVars>>

(* Mutant: the lock changes one block after the cut.                       *)
AdvanceLate(r) ==
    lock_index[r] + 1 < kLockCnt /\ block[r] > partitions_[lock_index[r] + 1]

(* RefreshBlockToLock: the inner loop's condition, its body, and the store *)
(* of one map entry.                                                       *)
MustAdvance(r) ==
    lock_index[r] + 1 < kLockCnt /\ block[r] >= partitions_[lock_index[r] + 1]

AdvanceLockIndex(r) ==
    /\ RGoto(r, "refresh", "refresh")
    /\ block[r] < kBlocks
    /\ MustAdvance(r)
    /\ lock_index' = [lock_index EXCEPT ![r] = @ + 1]
    /\ UNCHANGED <<locks_, mapVars, flagVars, mutexVars, envVars,
                   new_partitions, block, rlocked>>

LastBlock == kBlocks - 1

StoreBlock(r) ==
    /\ RGoto(r, "refresh", IF block[r] = LastBlock THEN "even" ELSE "refresh")
    /\ ~MustAdvance(r)
    /\ block_to_lock_' = [block_to_lock_ EXCEPT ![block[r]] = lock_index[r]]
    /\ block' = [block EXCEPT ![r] = @ + 1]
    /\ UNCHANGED <<locks_, partitions_, partition_epoch_, flagVars,
                   mutexVars, envVars, new_partitions, lock_index, rlocked>>

EpochEven(r) ==
    /\ RGoto(r, "even", "reset")
    /\ partition_epoch_' = NextEpoch
    /\ UNCHANGED <<locks_, block_to_lock_, partitions_, flagVars, mutexVars,
                   envVars, localVars>>

(* The statistics are reset, then the two mutexes go.                      *)
ReleaseMutexes(r) ==
    /\ RGoto(r, "reset", "clearflag")
    /\ stats_mutex_' = NoOne
    /\ partitions_mutex_' = NoOne
    /\ UNCHANGED <<locks_, mapVars, flagVars, envVars, localVars>>

ClearFlag(r) ==
    /\ RGoto(r, "clearflag", "clearpause")
    /\ rebuild_flag_' = FALSE
    /\ UNCHANGED <<locks_, mapVars, pause_queries_, mutexVars, envVars,
                   localVars>>

(* Mutant: the pause is never lifted.                                      *)
ClearPauseForgotten(r) ==
    /\ RGoto(r, "clearpause", "unlockall")
    /\ UNCHANGED <<locks_, mapVars, flagVars, mutexVars, envVars, localVars>>

ClearPause(r) ==
    /\ RGoto(r, "clearpause", "unlockall")
    /\ pause_queries_' = FALSE
    /\ UNCHANGED <<locks_, mapVars, rebuild_flag_, mutexVars, envVars,
                   localVars>>

(* The destructor of all_locks runs last, downwards.                       *)
UnlockAllLast(r) ==
    /\ RGoto(r, "unlockall", IF rlocked[r] = 1 THEN "count" ELSE "unlockall")
    /\ locks_' = [locks_ EXCEPT ![rlocked[r] - 1] = NoOne]
    /\ rlocked' = [rlocked EXCEPT ![r] = @ - 1]
    /\ UNCHANGED <<mapVars, flagVars, mutexVars, envVars, new_partitions,
                   loopVars>>

(* RebuildPartitions returned true; its locals are gone.                   *)
CountRebuild(r) ==
    /\ RGoto(r, "count", Home(r))
    /\ rebuild_count_' = rebuild_count_ + 1
    /\ new_partitions' = [new_partitions EXCEPT ![r] = UniformCuts]
    /\ block' = [block EXCEPT ![r] = 0]
    /\ lock_index' = [lock_index EXCEPT ![r] = 0]
    /\ UNCHANGED <<locks_, mapVars, flagVars, mutexVars, stop_rebuilder_,
                   opc, queryVars, rlocked>>

(* One step of a rebuilder inside RebuildPartitions.                       *)
RebuildStep(r) ==
    \/ ExchangeFlag(r) \/ Optimize(r) \/ EnoughGain(r) \/ TooLittleGain(r)
    \/ ClearFlagNoGain(r) \/ ReturnNoGain(r) \/ SetPause(r) \/ LockAllNext(r)
    \/ LockPartitions(r) \/ LockStats(r) \/ Publish(r) \/ AdvanceLockIndex(r)
    \/ StoreBlock(r) \/ EpochEven(r) \/ ReleaseMutexes(r) \/ ClearFlag(r)
    \/ ClearPause(r) \/ UnlockAllLast(r) \/ CountRebuild(r)

-----------------------------------------------------------------------------
(* Who calls RebuildPartitions                                             *)

(* RebuildNow, with statistics that are not all zero.                      *)
RebuildNow(c) ==
    /\ RGoto(c, "idle", "flag")
    /\ UNCHANGED <<locks_, mapVars, flagVars, mutexVars, envVars, localVars>>

(* The background loop: after a sleep it leaves if it is to stop.          *)
BreakLoop ==
    /\ RGoto(rebuild_thread_, "sleep", "exited")
    /\ stop_rebuilder_
    /\ UNCHANGED <<locks_, mapVars, flagVars, mutexVars, envVars, localVars>>

(* Otherwise ShouldRebuild, under stats_mutex_, may tell it to rebuild; if *)
(* it does not, the loop sleeps again, which is no step of this model.     *)
RebuildDue ==
    /\ RGoto(rebuild_thread_, "sleep", "flag")
    /\ ~stop_rebuilder_
    /\ stats_mutex_ = NoOne
    /\ UNCHANGED <<locks_, mapVars, flagVars, mutexVars, envVars, localVars>>

(* StartRebuilder and StopRebuilder are called by the object's owner, one  *)
(* at a time.                                                              *)
joinable == rpc[rebuild_thread_] # "none"

StartRebuilder ==
    /\ opc = "run"
    /\ ~joinable
    /\ RGoto(rebuild_thread_, "none", "sleep")
    /\ stop_rebuilder_' = FALSE
    /\ UNCHANGED <<locks_, mapVars, flagVars, mutexVars, rebuild_count_, opc,
                   queryVars, localVars>>

(* Mutant: join without telling the thread to stop.                        *)
StopRebuilderSilent ==
    /\ opc = "run"
    /\ opc' = IF joinable THEN "join" ELSE "run"
    /\ UNCHANGED <<locks_, mapVars, flagVars, mutexVars, stop_rebuilder_,
                   rebuild_count_, queryVars, rpc, localVars>>

StopRebuilder ==
    /\ opc = "run"
    /\ stop_rebuilder_' = TRUE
    /\ opc' = IF joinable THEN "join" ELSE "run"
    /\ UNCHANGED <<locks_, mapVars, flagVars, mutexVars, rebuild_count_,
                   queryVars, rpc, localVars>>

Join ==
    /\ opc = "join"
    /\ opc' = "run"
    /\ RGoto(rebuild_thread_, "exited", "none")
    /\ UNCHANGED <<locks_, mapVars, flagVars, mutexVars, stop_rebuilder_,
                   rebuild_count_, queryVars, localVars>>

Next ==
    \/ \E t \in Threads : WriteQueryCall(t) \/ WriteQueryStep(t)
    \/ \E r \in Rebuilders : RebuildStep(r)
    \/ \E c \in Callers : RebuildNow(c)
    \/ BreakLoop \/ RebuildDue \/ StartRebuilder \/ StopRebuilder \/ Join

Spec == Init /\ [][Next]_vars

(* A thread inside an operation keeps being scheduled and func returns;    *)
(* nothing is assumed about who wins a contended mutex, nor that anybody   *)
(* calls an operation.                                                     *)
Fairness ==
    /\ \A t \in Threads : WF_vars(WriteQueryStep(t))
    /\ \A r \in Rebuilders : WF_vars(RebuildStep(r))
    /\ WF_vars(BreakLoop) /\ WF_vars(Join)

FairSpec == Spec /\ Fairness

-----------------------------------------------------------------------------
(* Properties                                                              *)

(* Every member and local variable keeps the type it has in the code.      *)
TypeOK ==
    /\ QueryTypeOK(Rebuilders)
    /\ partitions_ \in Cuts
    /\ rebuild_flag_ \in BOOLEAN
    /\ partitions_mutex_ \in Rebuilders \cup {NoOne}
    /\ stats_mutex_ \in Rebuilders \cup {NoOne}
    /\ stop_rebuilder_ \in BOOLEAN
    /\ rebuild_count_ \in Nat
    /\ rpc \in [Rebuilders -> RebuildPC]
    /\ new_partitions \in [Rebuilders -> Cuts]
    /\ block \in [Rebuilders -> 0 .. kBlocks]
    /\ lock_index \in [Rebuilders -> Locks]
    /\ rlocked \in [Rebuilders -> 0 .. kLockCnt]
    /\ opc \in {"run", "join"}

(* CountLocksForRange reads the map under partitions_mutex_: the count it  *)
(* then returns is the number of partitions the range meets, and its       *)
(* unsigned subtraction never wraps around.                                *)
CountLocksForRange(request) ==
    block_to_lock_[PositionToBlock(ClampedRight(request))]
      - block_to_lock_[PositionToBlock(ClampedLeft(request))] + 1
CountIsExact ==
    partitions_mutex_ = NoOne =>
        \A request \in Requests :
            CountLocksForRange(request) =
                Cardinality(LocksMeeting(partitions_, ClampedLeft(request),
                                         ClampedRight(request)))

(* A rebuilder's gain decision is never stale: from the comparison with    *)
(* partitions_ until it installs its own, nobody else installs another.    *)
Deciding == {"pause", "lockall", "parts", "stats", "publish"}
GainNotStale ==
    [][\A r \in Rebuilders :
         rpc[r] \in Deciding /\ rpc'[r] \in Deciding
            => UNCHANGED partitions_]_vars

(* Queries are held back only on behalf of a rebuilder that will let them  *)
(* go: pause_queries_ is never left set by a rebuild that is over.         *)
Pausing == {"lockall", "parts", "stats", "publish", "refresh", "even",
            "reset", "clearflag", "clearpause"}
PauseIsOwned == pause_queries_ => \E r \in Rebuilders : rpc[r] \in Pausing

(* A rebuild that decided to go ahead gets all the locks and finishes,     *)
(* although queries keep arriving: the pause drains them.                  *)
RebuildCompletes ==
    \A r \in Rebuilders : rpc[r] = "pause" ~> rpc[r] = Home(r)

(* StopRebuilder (and so the destructor) returns.                          *)
StopReturns == opc = "join" ~> opc = "run"

-----------------------------------------------------------------------------
(* The inductive invariant behind RangeExclusion                           *)

AllLocked  == {"parts", "stats", "publish", "refresh", "even", "reset",
               "clearflag", "clearpause"}
Rewriting  == {"refresh", "even"}
AfterLoop  == {"even", "reset", "clearflag", "clearpause", "unlockall", "count"}

(* The guard over all locks in RebuildPartitions has locked a prefix: all  *)
(* of them from the end of the acquisition to the start of the release.    *)
RebuildGuard(r) ==
    /\ rpc[r] \notin AllLocked \cup {"lockall", "unlockall"} => rlocked[r] = 0
    /\ rpc[r] = "lockall" => rlocked[r] < kLockCnt
    /\ rpc[r] \in AllLocked => rlocked[r] = kLockCnt
    /\ rpc[r] = "unlockall" => rlocked[r] >= 1
RebuildGuardInv == \A r \in Rebuilders : RebuildGuard(r)

(* A mutex is owned by a rebuilder exactly if its guard has locked it.     *)
RebuildHolds(r, l) == l < rlocked[r]
RebuildOwnerInv ==
    \A l \in Locks, r \in Rebuilders : locks_[l] = r <=> RebuildHolds(r, l)

(* The epoch is odd exactly while some rebuilder rewrites the map.         *)
EpochInv ==
    /\ \A r \in Rebuilders : rpc[r] \in Rewriting => partition_epoch_ % 2 = 1
    /\ (\A r \in Rebuilders : rpc[r] \notin Rewriting)
          => partition_epoch_ % 2 = 0

(* The loop of RefreshBlockToLock has produced the map for the blocks it   *)
(* has passed, and outside that loop the map is the one of partitions_.    *)
RefreshLoop(r) ==
    /\ rpc[r] \notin AfterLoop \cup {"refresh"}
          => block[r] = 0 /\ lock_index[r] = 0
    /\ rpc[r] = "refresh" =>
          /\ block[r] < kBlocks
          /\ partitions_[lock_index[r]] <= block[r]
          /\ \A b \in Blocks : b < block[r] =>
                /\ partitions_[block_to_lock_[b]] <= b
                /\ b < partitions_[block_to_lock_[b] + 1]
RefreshInv ==
    /\ \A r \in Rebuilders : RefreshLoop(r)
    /\ (\A r \in Rebuilders : rpc[r] # "refresh")
          => IsRefreshOf(block_to_lock_, partitions_)

(* All of it together: together the parts are preserved by every step.     *)
IInv ==
    /\ TypeOK
    /\ QueryInv(Rebuilders)
    /\ RebuildGuardInv
    /\ RebuildOwnerInv
    /\ EpochInv
    /\ RefreshInv

(* rebuild_flag_ is a mutex: at most one rebuilder is between winning the  *)
(* exchange and clearing the flag, and meanwhile the flag is set.          *)
FlagHeld == {"optimize", "gain", "nogain", "pause", "lockall", "parts",
             "stats", "publish", "refresh", "even", "reset", "clearflag"}
FlagInv ==
    /\ \A r \in Rebuilders : rpc[r] \in FlagHeld => rebuild_flag_
    /\ \A r, s \in Rebuilders :
          r # s => ~(rpc[r] \in FlagHeld /\ rpc[s] \in FlagHeld)

(* partitions_mutex_ is held exactly where the code is in the scope of its *)
(* lock_guard, the rewriting of the map included.                          *)
PartitionsHeld == {"nogain", "noreset", "stats", "publish", "refresh",
                   "even", "reset"}
PartitionsMutexInv ==
    \A r \in Rebuilders : rpc[r] \in PartitionsHeld <=> partitions_mutex_ = r
=============================================================================
