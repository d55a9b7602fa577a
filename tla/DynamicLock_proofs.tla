------------------------ MODULE DynamicLock_proofs ------------------------
(***************************************************************************)
(* DynamicLock keeps overlapping queries apart, for any number of threads, *)
(* rebuilders, positions, blocks and locks.                                *)
(***************************************************************************)
EXTENDS DynamicLock, EpochQuery_proofs

(* The processes of the two kinds differ from each other and from NoOne.   *)
LEMMA Distinct ==
    /\ \A t \in Threads, r \in Rebuilders : t # r
    /\ \A p \in Threads \cup Rebuilders : p # NoOne
  BY ProcessAssumption, QueryAssumption

(* The constructor establishes the inductive invariant.                    *)
LEMMA InitInv == Init => IInv
<1> SUFFICES ASSUME Init PROVE IInv
  OBVIOUS
<1>1. QueryInv(Rebuilders)
  BY QueryInitInv DEF Init
<1>2. TypeOK
  <2>1. 0 \in Locks /\ 0 \in 0 .. kLockCnt /\ 0 \in 0 .. kBlocks
    BY SizeAssumption DEF Locks
  <2>2. rpc \in [Rebuilders -> RebuildPC]
    BY DEF Init, RebuildPC
  <2>3. new_partitions \in [Rebuilders -> Cuts]
    BY UniformCutsType DEF Init
  <2> QED
    BY <1>1, <2>1, <2>2, <2>3, UniformCutsType DEF Init, TypeOK, QueryInv
<1>3. RebuildGuardInv
  BY DEF Init, RebuildGuardInv, RebuildGuard, AllLocked
<1>4. RebuildOwnerInv
  BY Distinct, SizeAssumption
  DEF Init, QueryInit, RebuildOwnerInv, RebuildHolds, Locks
<1>5. EpochInv
  BY DEF Init, QueryInit, EpochInv, Rewriting
<1>6. RefreshInv
  BY DEF Init, QueryInit, RefreshInv, RefreshLoop, AfterLoop
<1> QED
  BY <1>1, <1>2, <1>3, <1>4, <1>5, <1>6 DEF IInv

(* No step of a query disturbs the invariant.                              *)
LEMMA WriteQueryInv ==
    ASSUME IInv, NEW t \in Threads, WriteQueryCall(t) \/ WriteQueryStep(t)
    PROVE  IInv'
<1> USE DEF rebuildVars, mutexVars, serviceVars, localVars, loopVars,
            publishedVars
<1>1. /\ Call(t) \/ QueryStep(t)
      /\ UNCHANGED rebuildVars
      /\ QueryInv(Rebuilders)
      /\ Rebuilders \cap Threads = {} /\ NoOne \notin Rebuilders
  BY ProcessAssumption DEF WriteQueryCall, WriteQueryStep, IInv
<1>2. QueryInv(Rebuilders)'
  BY <1>1, QueryStepInv
<1>3. /\ UNCHANGED publishedVars
      /\ \A l \in Locks, r \in Rebuilders : locks_'[l] = r <=> locks_[l] = r
  BY <1>1, QueryStepFrame
<1>4. TypeOK'
  BY <1>1, <1>2 DEF IInv, TypeOK, QueryInv
<1>5. RebuildGuardInv' /\ EpochInv'
  BY <1>1, <1>3 DEF IInv, RebuildGuardInv, RebuildGuard, EpochInv
<1>6. RebuildOwnerInv'
  BY <1>1, <1>3 DEF IInv, RebuildOwnerInv, RebuildHolds
<1>7. RefreshInv'
  BY <1>1, <1>3 DEF IInv, RefreshInv, RefreshLoop, IsRefreshOf
<1> QED
  BY <1>2, <1>4, <1>5, <1>6, <1>7 DEF IInv

(* A rebuilder that holds all locks is alone: no other rebuilder holds all *)
(* of them and no query has passed the acquisition of its locks.           *)
LEMMA AllLockedAlone ==
    ASSUME IInv, NEW r \in Rebuilders, rpc[r] \in AllLocked
    PROVE  /\ \A s \in Rebuilders : s # r => rpc[s] \notin AllLocked
           /\ \A t \in Threads : qpc[t] \notin Holding
<1> USE SizeAssumption DEF Locks
<1>1. \A l \in Locks : locks_[l] = r
  BY DEF IInv, RebuildGuardInv, RebuildGuard, RebuildOwnerInv, RebuildHolds
<1>2. ASSUME NEW s \in Rebuilders, s # r, rpc[s] \in AllLocked PROVE FALSE
  <2>1. locks_[0] = s
    BY <1>2
    DEF IInv, RebuildGuardInv, RebuildGuard, RebuildOwnerInv, RebuildHolds
  <2> QED
    BY <1>1, <1>2, <2>1
<1>3. ASSUME NEW t \in Threads, qpc[t] \in Holding PROVE FALSE
  <2>1. qlocked[t] >= 1 /\ lock_start[t] \in Locks /\ qlocked[t] \in Nat
    <3>1. QueryGuard(t) /\ lock_start[t] \in Locks /\ lock_end[t] \in Locks
      BY DEF IInv, QueryInv, QueryGuardInv, QueryTypeOK
    <3> QED
      BY <1>3, <3>1 DEF QueryGuard, Holding, BeforeLock
  <2>2. locks_[lock_start[t]] = t
    BY <2>1 DEF IInv, QueryInv, QueryOwnerInv, QueryHolds
  <2> QED
    BY <1>1, <2>1, <2>2, Distinct
<1> QED
  BY <1>2, <1>3

(* A step of a rebuilder that touches neither the locks nor the map nor    *)
(* its loop, and does not enter or leave the rewriting of the map.         *)
LEMMA QuietStepInv ==
    ASSUME IInv, NEW r \in Rebuilders, NEW to \in RebuildPC,
           UNCHANGED <<locks_, mapVars, queryVars, loopVars, rlocked>>,
           rpc' = [rpc EXCEPT ![r] = to],
           TypeOK', RebuildGuard(r)',
           rpc[r] \notin Rewriting, to \notin Rewriting,
           rpc[r] \in AfterLoop <=> to \in AfterLoop
    PROVE  IInv'
<1> USE SizeAssumption
    DEF Locks, RGoto, mapVars, flagVars, mutexVars, serviceVars, queryVars,
        loopVars, localVars, envVars, AllLocked, Rewriting, AfterLoop
<1>1. rpc \in [Rebuilders -> RebuildPC]
  BY DEF IInv, TypeOK
<1>2. /\ rpc'[r] = to
      /\ \A s \in Rebuilders : s # r => rpc'[s] = rpc[s]
  BY <1>1
<1>3. QueryInv(Rebuilders)' /\ RebuildOwnerInv'
  <2>1. QueryOwnerInv' /\ RebuildOwnerInv'
    BY DEF IInv, QueryInv, QueryOwnerInv, QueryHolds, RebuildOwnerInv,
           RebuildHolds
  <2> QED
    BY <2>1, OtherStepInv DEF IInv, TypeOK
<1>4. RebuildGuardInv'
  BY <1>2 DEF IInv, RebuildGuardInv, RebuildGuard
<1>5. EpochInv'
  BY <1>2 DEF IInv, EpochInv
<1>6. RefreshInv'
  <2>1. \A s \in Rebuilders : RefreshLoop(s)'
    BY <1>2 DEF IInv, RefreshInv, RefreshLoop
  <2>2. (\A s \in Rebuilders : rpc'[s] # "refresh")
          => IsRefreshOf(block_to_lock_, partitions_)'
    BY <1>2 DEF IInv, RefreshInv, IsRefreshOf
  <2> QED
    BY <2>1, <2>2 DEF RefreshInv
<1> QED
  BY <1>3, <1>4, <1>5, <1>6 DEF IInv

(* The steps of a rebuilder outside the rewriting of the map that take no  *)
(* lock of locks_.                                                         *)
LEMMA QuietStepsInv ==
    ASSUME IInv, NEW r \in Rebuilders,
           \/ ExchangeFlag(r) \/ Optimize(r) \/ EnoughGain(r)
           \/ TooLittleGain(r) \/ ClearFlagNoGain(r) \/ ReturnNoGain(r)
           \/ SetPause(r) \/ LockPartitions(r) \/ LockStats(r)
           \/ ReleaseMutexes(r) \/ ClearFlag(r) \/ ClearPause(r)
           \/ RebuildNow(r)
    PROVE  IInv'
<1> USE SizeAssumption
    DEF Locks, RGoto, mapVars, flagVars, mutexVars, serviceVars, queryVars,
        loopVars, localVars, envVars, AllLocked, Rewriting, AfterLoop,
        RebuildPC, Home, ExchangeResult, OptimizePartitions, ReturnFalse,
        LastLock, LastBlock, NextEpoch
<1>1. RebuildGuard(r) /\ TypeOK /\ rpc \in [Rebuilders -> RebuildPC]
  BY DEF IInv, RebuildGuardInv, TypeOK
<1>2. CASE ExchangeFlag(r)
  <2>1. TypeOK'
    BY <1>1, <1>2 DEF TypeOK, QueryTypeOK, ExchangeFlag
  <2>2. RebuildGuard(r)'
    BY <1>1, <1>2 DEF RebuildGuard, ExchangeFlag
  <2> QED
    BY <1>1, <1>2, <2>1, <2>2, QuietStepInv DEF ExchangeFlag
<1>3. CASE Optimize(r)
  <2>1. TypeOK'
    BY <1>1, <1>3 DEF TypeOK, QueryTypeOK, Optimize
  <2>2. RebuildGuard(r)'
    BY <1>1, <1>3 DEF RebuildGuard, Optimize
  <2> QED
    BY <1>1, <1>3, <2>1, <2>2, QuietStepInv DEF Optimize
<1>4. CASE EnoughGain(r)
  <2>1. TypeOK'
    BY <1>1, <1>4 DEF TypeOK, QueryTypeOK, EnoughGain
  <2>2. RebuildGuard(r)'
    BY <1>1, <1>4 DEF RebuildGuard, EnoughGain
  <2> QED
    BY <1>1, <1>4, <2>1, <2>2, QuietStepInv DEF EnoughGain
<1>5. CASE TooLittleGain(r)
  <2>1. TypeOK'
    BY <1>1, <1>5 DEF TypeOK, QueryTypeOK, TooLittleGain
  <2>2. RebuildGuard(r)'
    BY <1>1, <1>5 DEF RebuildGuard, TooLittleGain
  <2> QED
    BY <1>1, <1>5, <2>1, <2>2, QuietStepInv DEF TooLittleGain
<1>6. CASE ClearFlagNoGain(r)
  <2>1. TypeOK'
    BY <1>1, <1>6 DEF TypeOK, QueryTypeOK, ClearFlagNoGain
  <2>2. RebuildGuard(r)'
    BY <1>1, <1>6 DEF RebuildGuard, ClearFlagNoGain
  <2> QED
    BY <1>1, <1>6, <2>1, <2>2, QuietStepInv DEF ClearFlagNoGain
<1>7. CASE ReturnNoGain(r)
  <2>1. TypeOK'
    BY <1>1, <1>7, UniformCutsType DEF TypeOK, QueryTypeOK, ReturnNoGain
  <2>2. RebuildGuard(r)'
    BY <1>1, <1>7 DEF RebuildGuard, ReturnNoGain
  <2> QED
    BY <1>1, <1>7, <2>1, <2>2, QuietStepInv DEF ReturnNoGain
<1>8. CASE SetPause(r)
  <2>1. TypeOK'
    BY <1>1, <1>8 DEF TypeOK, QueryTypeOK, SetPause
  <2>2. RebuildGuard(r)'
    BY <1>1, <1>8 DEF RebuildGuard, SetPause
  <2> QED
    BY <1>1, <1>8, <2>1, <2>2, QuietStepInv DEF SetPause
<1>9. CASE LockPartitions(r)
  <2>1. TypeOK'
    BY <1>1, <1>9 DEF TypeOK, QueryTypeOK, LockPartitions
  <2>2. RebuildGuard(r)'
    BY <1>1, <1>9 DEF RebuildGuard, LockPartitions
  <2> QED
    BY <1>1, <1>9, <2>1, <2>2, QuietStepInv DEF LockPartitions
<1>10. CASE LockStats(r)
  <2>1. TypeOK'
    BY <1>1, <1>10 DEF TypeOK, QueryTypeOK, LockStats
  <2>2. RebuildGuard(r)'
    BY <1>1, <1>10 DEF RebuildGuard, LockStats
  <2> QED
    BY <1>1, <1>10, <2>1, <2>2, QuietStepInv DEF LockStats
<1>11. CASE ReleaseMutexes(r)
  <2>1. TypeOK'
    BY <1>1, <1>11 DEF TypeOK, QueryTypeOK, ReleaseMutexes
  <2>2. RebuildGuard(r)'
    BY <1>1, <1>11 DEF RebuildGuard, ReleaseMutexes
  <2> QED
    BY <1>1, <1>11, <2>1, <2>2, QuietStepInv DEF ReleaseMutexes
<1>12. CASE ClearFlag(r)
  <2>1. TypeOK'
    BY <1>1, <1>12 DEF TypeOK, QueryTypeOK, ClearFlag
  <2>2. RebuildGuard(r)'
    BY <1>1, <1>12 DEF RebuildGuard, ClearFlag
  <2> QED
    BY <1>1, <1>12, <2>1, <2>2, QuietStepInv DEF ClearFlag
<1>13. CASE ClearPause(r)
  <2>1. TypeOK'
    BY <1>1, <1>13 DEF TypeOK, QueryTypeOK, ClearPause
  <2>2. RebuildGuard(r)'
    BY <1>1, <1>13 DEF RebuildGuard, ClearPause
  <2> QED
    BY <1>1, <1>13, <2>1, <2>2, QuietStepInv DEF ClearPause
<1>14. CASE RebuildNow(r)
  <2>1. TypeOK'
    BY <1>1, <1>14 DEF TypeOK, QueryTypeOK, RebuildNow
  <2>2. RebuildGuard(r)'
    BY <1>1, <1>14 DEF RebuildGuard, RebuildNow
  <2> QED
    BY <1>1, <1>14, <2>1, <2>2, QuietStepInv DEF RebuildNow
<1> QED
  BY <1>2, <1>3, <1>4, <1>5, <1>6, <1>7, <1>8, <1>9, <1>10, <1>11, <1>12, <1>13, <1>14

(* RangeLockGuard over all locks: acquisition and release of one mutex.    *)
LEMMA GuardStepsInv ==
    ASSUME IInv, NEW r \in Rebuilders, LockAllNext(r) \/ UnlockAllLast(r)
    PROVE  IInv'
<1> USE SizeAssumption
    DEF Locks, RGoto, mapVars, flagVars, mutexVars, serviceVars, queryVars,
        loopVars, localVars, envVars, AllLocked, Rewriting, AfterLoop,
        RebuildPC, Home, ExchangeResult, OptimizePartitions, ReturnFalse,
        LastLock, LastBlock, NextEpoch
<1> DEFINE index == IF rpc[r] = "lockall" THEN rlocked[r] ELSE rlocked[r] - 1
           owner == IF rpc[r] = "lockall" THEN r ELSE NoOne
           count == IF rpc[r] = "lockall" THEN rlocked[r] + 1 ELSE rlocked[r] - 1
<1>1. /\ rpc \in [Rebuilders -> RebuildPC]
      /\ rlocked \in [Rebuilders -> 0 .. kLockCnt]
      /\ locks_ \in [Locks -> Threads \cup Rebuilders \cup {NoOne}]
      /\ RebuildGuard(r)
  BY DEF IInv, TypeOK, QueryTypeOK, RebuildGuardInv
<1>2. rpc[r] \in {"lockall", "unlockall"}
  BY DEF LockAllNext, UnlockAllLast
<1>3. /\ index \in Locks /\ index \in Nat
      /\ count \in 0 .. kLockCnt
      /\ rlocked[r] \in Nat
  BY <1>1, <1>2 DEF RebuildGuard
<1>4. /\ locks_' = [locks_ EXCEPT ![index] = owner]
      /\ rlocked' = [rlocked EXCEPT ![r] = count]
      /\ UNCHANGED <<mapVars, flagVars, mutexVars, serviceVars, queryVars,
                     new_partitions, loopVars>>
  BY <1>1 DEF LockAllNext, UnlockAllLast
<1>5. rpc' = [rpc EXCEPT ![r] = rpc'[r]]
      /\ rpc'[r] \in {"lockall", "parts", "unlockall", "count"}
      /\ \A s \in Rebuilders : s # r => rpc'[s] = rpc[s]
  BY <1>1 DEF LockAllNext, UnlockAllLast
<1>6. locks_[index] = (IF rpc[r] = "lockall" THEN NoOne ELSE r)
  <2>1. CASE rpc[r] = "lockall"
    BY <2>1 DEF LockAllNext, UnlockAllLast
  <2>2. CASE rpc[r] = "unlockall"
    BY <1>1, <1>3, <2>2 DEF IInv, RebuildOwnerInv, RebuildHolds, RebuildGuard
  <2> QED
    BY <1>2, <2>1, <2>2
<1>7. TypeOK'
  <2>1. locks_' \in [Locks -> Threads \cup Rebuilders \cup {NoOne}]
    BY <1>1, <1>4
  <2>2. QueryTypeOK(Rebuilders)'
    BY <1>4, <2>1 DEF IInv, TypeOK, QueryTypeOK, mapVars, flagVars, queryVars
  <2>3. /\ rlocked' \in [Rebuilders -> 0 .. kLockCnt]
        /\ rpc' \in [Rebuilders -> RebuildPC]
    <3>1. rpc'[r] \in RebuildPC
      BY <1>5 DEF RebuildPC
    <3> QED
      BY <1>1, <1>3, <1>4, <1>5, <3>1
  <2> QED
    BY <1>4, <2>2, <2>3
    DEF IInv, TypeOK, mapVars, flagVars, mutexVars, serviceVars, loopVars
<1>9. RebuildGuardInv'
  <2>1. RebuildGuard(r)'
    <3>1. CASE LockAllNext(r)
      BY <1>1, <1>3, <3>1 DEF RebuildGuard, LockAllNext
    <3>2. CASE UnlockAllLast(r)
      BY <1>1, <1>3, <3>2 DEF RebuildGuard, UnlockAllLast
    <3> QED
      BY <3>1, <3>2
  <2>2. \A s \in Rebuilders : s # r => RebuildGuard(s)'
    BY <1>1, <1>4, <1>5 DEF IInv, RebuildGuardInv, RebuildGuard
  <2> QED
    BY <2>1, <2>2 DEF RebuildGuardInv
<1>8. RebuildOwnerInv'
  <2> SUFFICES ASSUME NEW l \in Locks, NEW s \in Rebuilders
               PROVE  locks_'[l] = s <=> RebuildHolds(s, l)'
    BY DEF RebuildOwnerInv
  <2>1. locks_[l] = s <=> RebuildHolds(s, l)
    BY DEF IInv, RebuildOwnerInv
  <2>2. CASE s = r
    BY <1>1, <1>2, <1>3, <1>4, <1>6, <2>1, <2>2, Distinct DEF RebuildHolds
  <2>3. CASE s # r
    BY <1>1, <1>2, <1>3, <1>4, <1>6, <2>1, <2>3, Distinct DEF RebuildHolds
  <2> QED
    BY <2>2, <2>3
<1>10. QueryInv(Rebuilders)'
  <2>1. \A l \in Locks, t \in Threads : locks_'[l] = t <=> locks_[l] = t
    BY <1>1, <1>2, <1>3, <1>4, <1>6, Distinct
  <2>2. QueryOwnerInv'
    BY <1>4, <2>1 DEF IInv, QueryInv, QueryOwnerInv, QueryHolds
  <2> QED
    BY <1>4, <1>7, <2>2, OtherStepInv DEF IInv, TypeOK
<1>11. EpochInv'
  BY <1>2, <1>4, <1>5 DEF IInv, EpochInv
<1>12. RefreshInv'
  <2>1. \A s \in Rebuilders : RefreshLoop(s)'
    <3>1. \/ rpc[r] = "lockall" /\ rpc'[r] \in {"lockall", "parts"}
          \/ rpc[r] = "unlockall" /\ rpc'[r] \in {"unlockall", "count"}
      BY <1>1 DEF LockAllNext, UnlockAllLast
    <3>2. RefreshLoop(r)'
      BY <1>4, <3>1 DEF IInv, RefreshInv, RefreshLoop
    <3> QED
      BY <1>4, <1>5, <3>2 DEF IInv, RefreshInv, RefreshLoop
  <2>2. (\A s \in Rebuilders : rpc'[s] # "refresh")
          => IsRefreshOf(block_to_lock_, partitions_)'
    BY <1>2, <1>4, <1>5 DEF IInv, RefreshInv, IsRefreshOf
  <2> QED
    BY <2>1, <2>2 DEF RefreshInv
<1> QED
  BY <1>7, <1>8, <1>9, <1>10, <1>11, <1>12 DEF IInv

(* The rewriting of the map, from the publication of the new cuts to the   *)
(* second increment of the epoch.                                          *)
LEMMA RewriteStepsInv ==
    ASSUME IInv, NEW r \in Rebuilders,
           \/ Publish(r) \/ AdvanceLockIndex(r) \/ StoreBlock(r)
           \/ EpochEven(r)
    PROVE  IInv'
<1> USE SizeAssumption
    DEF Locks, RGoto, mapVars, flagVars, mutexVars, serviceVars, queryVars,
        loopVars, localVars, envVars, AllLocked, Rewriting, AfterLoop,
        RebuildPC, Home, ExchangeResult, OptimizePartitions, ReturnFalse,
        LastLock, LastBlock, NextEpoch
<1>1. /\ rpc \in [Rebuilders -> RebuildPC]
      /\ block \in [Rebuilders -> 0 .. kBlocks]
      /\ lock_index \in [Rebuilders -> Locks]
      /\ block_to_lock_ \in [Blocks -> Locks]
      /\ partitions_ \in Cuts /\ new_partitions \in [Rebuilders -> Cuts]
      /\ partition_epoch_ \in Nat /\ epoch \in [Threads -> Nat]
      /\ RebuildGuard(r) /\ RefreshLoop(r)
  BY DEF IInv, TypeOK, QueryTypeOK, RebuildGuardInv, RefreshInv
<1>2. rpc[r] \in AllLocked
  BY DEF Publish, AdvanceLockIndex, StoreBlock, EpochEven
<1>3. /\ \A s \in Rebuilders : s # r => rpc[s] \notin AllLocked
      /\ \A t \in Threads : qpc[t] \notin Holding
  BY <1>2, AllLockedAlone
<1>4. /\ UNCHANGED <<locks_, flagVars, mutexVars, serviceVars, queryVars,
                     new_partitions, rlocked>>
      /\ rpc' = [rpc EXCEPT ![r] = rpc'[r]]
      /\ rpc'[r] \in {"refresh", "even", "reset"}
      /\ \A s \in Rebuilders : s # r => rpc'[s] = rpc[s]
  BY <1>1 DEF Publish, AdvanceLockIndex, StoreBlock, EpochEven
<1>5. QueryOwnerInv' /\ RebuildOwnerInv'
  BY <1>4 DEF IInv, QueryInv, QueryOwnerInv, QueryHolds, RebuildOwnerInv,
              RebuildHolds
<1>6. RebuildGuardInv'
  BY <1>2, <1>4 DEF IInv, RebuildGuardInv, RebuildGuard
<1>7. CASE Publish(r)
  <2>1. TypeOK'
    BY <1>1, <1>4, <1>7 DEF IInv, TypeOK, QueryTypeOK, Publish
  <2>2. partition_epoch_ % 2 = 0
    BY <1>3, <1>7 DEF IInv, EpochInv, Publish
  <2>3. EpochInv'
    BY <1>1, <1>3, <1>4, <1>7, <2>2 DEF EpochInv, Publish
  <2>4. RefreshInv'
    <3>1. /\ block'[r] = 0 /\ lock_index'[r] = 0
          /\ partitions_'[0] = 0 /\ rpc'[r] = "refresh"
      BY <1>1, <1>7 DEF RefreshLoop, Publish, Cuts
    <3>2. RefreshLoop(r)'
      BY <3>1 DEF RefreshLoop, Blocks
    <3>3. ASSUME NEW s \in Rebuilders, s # r PROVE RefreshLoop(s)'
      <4>1. RefreshLoop(s) /\ rpc'[s] = rpc[s] /\ rpc[s] # "refresh"
        BY <1>3, <1>4, <3>3 DEF IInv, RefreshInv
      <4> QED
        BY <1>7, <4>1 DEF RefreshLoop, Publish
    <3> QED
      BY <3>1, <3>2, <3>3 DEF RefreshInv
  <2>5. QueryInv(Rebuilders)'
    BY <1>1, <1>3, <1>4, <1>5, <1>7, <2>1, OtherStepInv DEF IInv, TypeOK, Publish
  <2> QED
    BY <1>5, <1>6, <2>1, <2>3, <2>4, <2>5 DEF IInv
<1>8. CASE AdvanceLockIndex(r)
  <2>1. TypeOK'
    BY <1>1, <1>4, <1>8 DEF IInv, TypeOK, QueryTypeOK, AdvanceLockIndex, MustAdvance
  <2>2. EpochInv' /\ QueryInv(Rebuilders)'
    <3>1. EpochInv'
      BY <1>4, <1>8 DEF IInv, EpochInv, AdvanceLockIndex
    <3> QED
      BY <1>4, <1>5, <1>8, <2>1, <3>1, OtherStepInv
      DEF IInv, TypeOK, AdvanceLockIndex
  <2>3. RefreshInv'
    <3>1. /\ rpc[r] = "refresh" /\ rpc'[r] = "refresh"
          /\ lock_index'[r] = lock_index[r] + 1 /\ block'[r] = block[r]
          /\ block[r] >= partitions_[lock_index[r] + 1]
          /\ \A s \in Rebuilders : s # r => lock_index'[s] = lock_index[s]
          /\ UNCHANGED <<mapVars, block>>
      BY <1>1, <1>8 DEF AdvanceLockIndex, MustAdvance
    <3>2. RefreshLoop(r)'
      <4>1. partitions_[lock_index[r] + 1] <= block[r]
        BY <1>1, <1>8, <3>1 DEF Cuts, AdvanceLockIndex, MustAdvance
      <4> QED
        BY <1>1, <3>1, <4>1 DEF RefreshLoop
    <3>3. ASSUME NEW s \in Rebuilders, s # r PROVE RefreshLoop(s)'
      <4>1. RefreshLoop(s) /\ rpc'[s] = rpc[s]
        BY <1>4, <3>3 DEF IInv, RefreshInv
      <4> QED
        BY <3>1, <3>3, <4>1 DEF RefreshLoop
    <3> QED
      BY <3>1, <3>2, <3>3 DEF RefreshInv
  <2> QED
    BY <1>5, <1>6, <2>1, <2>2, <2>3 DEF IInv
<1>9. CASE StoreBlock(r)
  <2>1. /\ block[r] \in Blocks /\ block[r] + 1 \in 0 .. kBlocks
        /\ lock_index[r] \in Locks
    BY <1>1, <1>9 DEF RefreshLoop, StoreBlock, Blocks
  <2>2. TypeOK'
    BY <1>1, <1>4, <1>9, <2>1 DEF IInv, TypeOK, QueryTypeOK, StoreBlock
  <2>3. partition_epoch_ % 2 = 1
    BY <1>9 DEF IInv, EpochInv, StoreBlock
  <2>4. EpochInv'
    BY <1>1, <1>3, <1>4, <1>9, <2>3 DEF EpochInv, StoreBlock
  <2>5. QueryInv(Rebuilders)'
    BY <1>4, <1>5, <1>9, <2>2, <2>3, OtherStepInv DEF IInv, TypeOK, StoreBlock
  <2>6. RefreshInv'
    <3>1. /\ rpc[r] = "refresh" /\ ~MustAdvance(r)
          /\ rpc'[r] = IF block[r] = kBlocks - 1 THEN "even" ELSE "refresh"
          /\ block_to_lock_' = [block_to_lock_ EXCEPT ![block[r]] = lock_index[r]]
          /\ block' = [block EXCEPT ![r] = @ + 1]
          /\ UNCHANGED <<partitions_, lock_index>>
      BY <1>1, <1>9 DEF StoreBlock
    <3>2. /\ partitions_ \in [0 .. kLockCnt -> 0 .. kBlocks]
          /\ partitions_[kLockCnt] = kBlocks
      BY <1>1 DEF Cuts
    <3>3. /\ partitions_[lock_index[r]] <= block[r]
          /\ block[r] < partitions_[lock_index[r] + 1]
      <4>1. partitions_[lock_index[r]] <= block[r]
        BY <1>1, <3>1 DEF RefreshLoop
      <4>2. /\ lock_index[r] + 1 \in 0 .. kLockCnt
            /\ block[r] \in Nat /\ block[r] < kBlocks
        BY <2>1 DEF Blocks
      <4>3. CASE lock_index[r] + 1 < kLockCnt
        BY <3>1, <3>2, <4>1, <4>2, <4>3 DEF MustAdvance
      <4>4. CASE lock_index[r] + 1 = kLockCnt
        BY <3>2, <4>1, <4>2, <4>4
      <4> QED
        BY <4>1, <4>2, <4>3, <4>4
    <3>4. \A b \in Blocks : b < block[r] + 1 =>
             /\ partitions_[block_to_lock_'[b]] <= b
             /\ b < partitions_[block_to_lock_'[b] + 1]
      <4> SUFFICES ASSUME NEW b \in Blocks, b < block[r] + 1
                   PROVE  /\ partitions_[block_to_lock_'[b]] <= b
                          /\ b < partitions_[block_to_lock_'[b] + 1]
        OBVIOUS
      <4>1. CASE b = block[r]
        <5>1. block_to_lock_'[b] = lock_index[r]
          BY <1>1, <2>1, <3>1, <4>1
        <5> QED
          BY <3>3, <4>1, <5>1
      <4>2. CASE b # block[r]
        <5>1. b < block[r] /\ block_to_lock_'[b] = block_to_lock_[b]
          BY <1>1, <2>1, <3>1, <4>2 DEF Blocks
        <5> QED
          BY <1>1, <3>1, <5>1 DEF RefreshLoop
      <4> QED
        BY <4>1, <4>2
    <3>5. RefreshLoop(r)'
      <4>1. /\ block'[r] = block[r] + 1 /\ lock_index'[r] = lock_index[r]
            /\ rpc'[r] = "refresh" => block[r] + 1 < kBlocks
            /\ rpc'[r] \in {"refresh", "even"}
        BY <1>1, <2>1, <3>1 DEF Blocks
      <4>2. partitions_'[lock_index'[r]] <= block'[r]
        <5>1. partitions_[lock_index[r]] \in Nat /\ block[r] \in Nat
          BY <2>1, <3>2 DEF Blocks
        <5> QED
          BY <3>1, <3>3, <4>1, <5>1
      <4> QED
        BY <3>1, <3>4, <4>1, <4>2 DEF RefreshLoop
    <3>6. ASSUME NEW s \in Rebuilders, s # r PROVE RefreshLoop(s)'
      <4>1. RefreshLoop(s) /\ rpc'[s] = rpc[s] /\ rpc[s] # "refresh"
        BY <1>3, <1>4, <3>6 DEF IInv, RefreshInv
      <4> QED
        BY <1>1, <3>1, <3>6, <4>1 DEF RefreshLoop
    <3>7. rpc'[r] # "refresh" => IsRefreshOf(block_to_lock_, partitions_)'
      BY <1>1, <2>1, <3>1, <3>4 DEF IsRefreshOf, Blocks
    <3> QED
      BY <3>5, <3>6, <3>7 DEF RefreshInv
  <2> QED
    BY <1>5, <1>6, <2>2, <2>4, <2>5, <2>6 DEF IInv
<1>10. CASE EpochEven(r)
  <2>1. TypeOK'
    BY <1>1, <1>4, <1>10 DEF IInv, TypeOK, QueryTypeOK, EpochEven
  <2>2. partition_epoch_ % 2 = 1
    BY <1>10 DEF IInv, EpochInv, EpochEven
  <2>3. EpochInv'
    BY <1>1, <1>3, <1>4, <1>10, <2>2 DEF EpochInv, EpochEven
  <2>4. RefreshInv'
    BY <1>1, <1>3, <1>4, <1>10
    DEF IInv, RefreshInv, RefreshLoop, EpochEven, IsRefreshOf
  <2>5. QueryInv(Rebuilders)'
    BY <1>1, <1>3, <1>4, <1>5, <1>10, <2>1, OtherStepInv DEF IInv, TypeOK, EpochEven
  <2> QED
    BY <1>5, <1>6, <2>1, <2>3, <2>4, <2>5 DEF IInv
<1> QED
  BY <1>7, <1>8, <1>9, <1>10

(* The end of a rebuild: the locals of RebuildPartitions are gone.         *)
LEMMA CountRebuildInv ==
    ASSUME IInv, NEW r \in Rebuilders, CountRebuild(r)
    PROVE  IInv'
<1> USE SizeAssumption
    DEF Locks, RGoto, mapVars, flagVars, mutexVars, serviceVars, queryVars,
        loopVars, localVars, envVars, AllLocked, Rewriting, AfterLoop,
        RebuildPC, Home, ExchangeResult, OptimizePartitions, ReturnFalse,
        LastLock, LastBlock, NextEpoch
<1>1. /\ rpc \in [Rebuilders -> RebuildPC]
      /\ block \in [Rebuilders -> 0 .. kBlocks]
      /\ lock_index \in [Rebuilders -> Locks]
      /\ 0 \in Locks /\ 0 \in 0 .. kBlocks
      /\ rebuild_count_ + 1 \in Nat
  BY DEF IInv, TypeOK
<1>2. /\ rpc[r] = "count" /\ rpc'[r] \in {"idle", "sleep"}
      /\ block'[r] = 0 /\ lock_index'[r] = 0
      /\ \A s \in Rebuilders : s # r =>
            rpc'[s] = rpc[s] /\ block'[s] = block[s] /\ lock_index'[s] = lock_index[s]
      /\ UNCHANGED <<locks_, mapVars, queryVars, rlocked>>
  BY <1>1 DEF CountRebuild
<1>3. TypeOK'
  BY <1>1, UniformCutsType DEF IInv, TypeOK, QueryTypeOK, CountRebuild
<1>4. QueryInv(Rebuilders)' /\ RebuildOwnerInv'
  <2>1. QueryOwnerInv' /\ RebuildOwnerInv'
    BY <1>2 DEF IInv, QueryInv, QueryOwnerInv, QueryHolds, RebuildOwnerInv,
                RebuildHolds
  <2> QED
    BY <1>2, <1>3, <2>1, OtherStepInv DEF IInv, TypeOK
<1>5. RebuildGuardInv' /\ EpochInv'
  BY <1>2 DEF IInv, RebuildGuardInv, RebuildGuard, EpochInv
<1>6. RefreshInv'
  <2>1. RefreshLoop(r)'
    BY <1>2 DEF RefreshLoop
  <2>2. ASSUME NEW s \in Rebuilders, s # r PROVE RefreshLoop(s)'
    BY <1>2, <2>2 DEF IInv, RefreshInv, RefreshLoop
  <2>3. (\A s \in Rebuilders : rpc'[s] # "refresh")
          => IsRefreshOf(block_to_lock_, partitions_)'
    BY <1>2 DEF IInv, RefreshInv, IsRefreshOf
  <2> QED
    BY <2>1, <2>2, <2>3 DEF RefreshInv
<1> QED
  BY <1>3, <1>4, <1>5, <1>6 DEF IInv

(* StartRebuilder, the background loop and StopRebuilder.                  *)
LEMMA ServiceStepsInv ==
    ASSUME IInv,
           BreakLoop \/ RebuildDue \/ StartRebuilder \/ StopRebuilder \/ Join
    PROVE  IInv'
<1> USE SizeAssumption
    DEF Locks, RGoto, mapVars, flagVars, mutexVars, serviceVars, queryVars,
        loopVars, localVars, envVars, AllLocked, Rewriting, AfterLoop,
        RebuildPC, Home, ExchangeResult, OptimizePartitions, ReturnFalse,
        LastLock, LastBlock, NextEpoch
<1> DEFINE r == rebuild_thread_
<1>1. /\ RebuildGuard(r) /\ TypeOK /\ rpc \in [Rebuilders -> RebuildPC]
      /\ r \in Rebuilders
  BY DEF IInv, RebuildGuardInv, TypeOK, Rebuilders
<1>2. CASE StopRebuilder
  <2>1. TypeOK'
    BY <1>2 DEF IInv, TypeOK, QueryTypeOK, StopRebuilder
  <2>2. UNCHANGED <<locks_, mapVars, queryVars, rpc, localVars>>
    BY <1>2 DEF StopRebuilder
  <2>3. RebuildOwnerInv' /\ RebuildGuardInv' /\ EpochInv' /\ QueryInv(Rebuilders)'
    <3>1. QueryOwnerInv' /\ RebuildOwnerInv' /\ RebuildGuardInv' /\ EpochInv'
      BY <2>2 DEF IInv, QueryInv, QueryOwnerInv, QueryHolds, RebuildOwnerInv,
                  RebuildHolds, RebuildGuardInv, RebuildGuard, EpochInv
    <3> QED
      BY <2>1, <2>2, <3>1, OtherStepInv DEF IInv, TypeOK
  <2>4. RefreshInv'
    BY <2>2 DEF IInv, RefreshInv, RefreshLoop, IsRefreshOf
  <2> QED
    BY <2>1, <2>3, <2>4 DEF IInv
<1>3. CASE BreakLoop
  <2>1. TypeOK'
    BY <1>1, <1>3 DEF TypeOK, QueryTypeOK, BreakLoop
  <2>2. RebuildGuard(r)'
    BY <1>1, <1>3 DEF RebuildGuard, BreakLoop
  <2> QED
    BY <1>1, <1>3, <2>1, <2>2, QuietStepInv DEF BreakLoop
<1>4. CASE RebuildDue
  <2>1. TypeOK'
    BY <1>1, <1>4 DEF TypeOK, QueryTypeOK, RebuildDue
  <2>2. RebuildGuard(r)'
    BY <1>1, <1>4 DEF RebuildGuard, RebuildDue
  <2> QED
    BY <1>1, <1>4, <2>1, <2>2, QuietStepInv DEF RebuildDue
<1>5. CASE StartRebuilder
  <2>1. TypeOK'
    BY <1>1, <1>5 DEF TypeOK, QueryTypeOK, StartRebuilder
  <2>2. RebuildGuard(r)'
    BY <1>1, <1>5 DEF RebuildGuard, StartRebuilder
  <2> QED
    BY <1>1, <1>5, <2>1, <2>2, QuietStepInv DEF StartRebuilder
<1>6. CASE Join
  <2>1. TypeOK'
    BY <1>1, <1>6 DEF TypeOK, QueryTypeOK, Join
  <2>2. RebuildGuard(r)'
    BY <1>1, <1>6 DEF RebuildGuard, Join
  <2> QED
    BY <1>1, <1>6, <2>1, <2>2, QuietStepInv DEF Join
<1> QED
  BY <1>2, <1>3, <1>4, <1>5, <1>6

(* IInv is inductive: every step of the code preserves it.                 *)
LEMMA StepInv == IInv /\ [Next]_vars => IInv'
<1> SUFFICES ASSUME IInv, [Next]_vars PROVE IInv'
  OBVIOUS
<1>1. ASSUME NEW t \in Threads, WriteQueryCall(t) \/ WriteQueryStep(t)
      PROVE  IInv'
  BY <1>1, WriteQueryInv
<1>2. ASSUME NEW r \in Rebuilders, RebuildStep(r) PROVE IInv'
  BY <1>2, QuietStepsInv, GuardStepsInv, RewriteStepsInv, CountRebuildInv
  DEF RebuildStep
<1>3. ASSUME NEW c \in Callers, RebuildNow(c) PROVE IInv'
  BY <1>3, QuietStepsInv DEF Rebuilders
<1>4. ASSUME BreakLoop \/ RebuildDue \/ StartRebuilder \/ StopRebuilder \/ Join
      PROVE  IInv'
  BY <1>4, ServiceStepsInv
<1>5. CASE UNCHANGED vars
  BY <1>5
  DEF vars, sharedVars, publishedVars, queryVars, rebuildVars, mutexVars,
      serviceVars, localVars, loopVars, IInv, TypeOK, QueryTypeOK, QueryInv,
      QueryGuardInv, QueryGuard, QueryOwnerInv, QueryHolds, LookupInv, Lookup,
      RebuildGuardInv, RebuildGuard, RebuildOwnerInv, RebuildHolds, EpochInv,
      RefreshInv, RefreshLoop, IsRefreshOf
<1> QED
  BY <1>1, <1>2, <1>3, <1>4, <1>5 DEF Next

(* IInv holds in every state of DynamicLock: the guards own exactly the    *)
(* mutexes they locked, the epoch is odd exactly while the map is          *)
(* rewritten, and a lookup made in the current epoch is still correct.     *)
THEOREM InductiveInvariant == Spec => []IInv
<1> QED
  BY InitInv, StepInv, PTL DEF Spec

(* Type correctness of the members and locals of DynamicLock.              *)
THEOREM TypeCorrect == Spec => []TypeOK
<1>1. IInv => TypeOK
  BY DEF IInv
<1> QED
  BY <1>1, InductiveInvariant, PTL

(* In an IInv state the map is complete whenever the epoch is even, so the *)
(* lemmas about the query protocol apply.                                  *)
LEMMA InvGivesExclusion == IInv => HoldsCurrentLocks /\ RangeExclusion
<1> SUFFICES ASSUME IInv PROVE HoldsCurrentLocks /\ RangeExclusion
  OBVIOUS
<1>1. /\ QueryInv(Rebuilders) /\ QueryTypeOK(Rebuilders) /\ partitions_ \in Cuts
      /\ partition_epoch_ % 2 = 0 => IsRefreshOf(block_to_lock_, partitions_)
  BY DEF IInv, TypeOK, EpochInv, RefreshInv, Rewriting
<1>2. HoldsCurrentLocks
  BY <1>1, ValidatedLookup
<1>3. RangeExclusion
  BY <1>1, <1>2, OwnersDisjoint
<1> QED
  BY <1>2, <1>3

(* The lock-free lookup of WriteQuery is sound: func only ever runs while  *)
(* its thread owns the lock of each block of its range.                    *)
THEOREM LookupSound == Spec => []HoldsCurrentLocks
  BY InvGivesExclusion, InductiveInvariant, PTL

(* WriteQuery never lets two threads run func over overlapping ranges,     *)
(* whatever the rebuilders do.                                             *)
THEOREM Exclusion == Spec => []RangeExclusion
  BY InvGivesExclusion, InductiveInvariant, PTL

(* DynamicLock implements the abstract range lock: the detailed protocol   *)
(* of epochs, map lookups and guards only ever grants disjoint ranges.     *)
THEOREM Refinement == Spec => RangeLockSpec
<1>1. Init => RL!Init
  BY DEF Init, QueryInit, RL!Init, running
<1>2. IInv /\ RangeExclusion' /\ [Next]_vars => [RL!Next]_running
  <2> SUFFICES ASSUME IInv, RangeExclusion', [Next]_vars PROVE [RL!Next]_running
    OBVIOUS
  <2>1. ASSUME NEW t \in Threads, WriteQueryCall(t) \/ WriteQueryStep(t)
        PROVE  [RL!Next]_running
    BY <2>1, QueryRefines DEF IInv, WriteQueryCall, WriteQueryStep
  <2>2. CASE UNCHANGED queryVars
    BY <2>2 DEF queryVars, running
  <2>3. ASSUME NEW r \in Rebuilders, RebuildStep(r) PROVE UNCHANGED queryVars
    BY <2>3
    DEF envVars, RebuildStep, ExchangeFlag, Optimize, EnoughGain,
        TooLittleGain, ClearFlagNoGain, ReturnNoGain, SetPause, LockAllNext,
        LockPartitions, LockStats, Publish, AdvanceLockIndex, StoreBlock,
        EpochEven, ReleaseMutexes, ClearFlag, ClearPause, UnlockAllLast,
        CountRebuild
  <2>4. ASSUME NEW c \in Callers, RebuildNow(c) PROVE UNCHANGED queryVars
    BY <2>4 DEF envVars, RebuildNow
  <2>5. ASSUME BreakLoop \/ RebuildDue \/ StartRebuilder \/ StopRebuilder \/ Join
        PROVE  UNCHANGED queryVars
    BY <2>5 DEF envVars, BreakLoop, RebuildDue, StartRebuilder, StopRebuilder,
                Join
  <2>6. CASE UNCHANGED vars
    BY <2>2, <2>6 DEF vars
  <2> QED
    BY <2>1, <2>2, <2>3, <2>4, <2>5, <2>6 DEF Next
<1> QED
  BY <1>1, <1>2, InductiveInvariant, Exclusion, PTL
  DEF Spec, RangeLockSpec, RL!Spec

(* rebuild_flag_ excludes rebuilders from each other.                      *)
LEMMA FlagExclusive == Spec => []FlagInv
<1>1. Init => FlagInv
  BY DEF Init, FlagInv, FlagHeld
<1>2. TypeOK /\ FlagInv /\ [Next]_vars => FlagInv'
  <2> SUFFICES ASSUME TypeOK, FlagInv, [Next]_vars PROVE FlagInv'
    OBVIOUS
  <2> USE DEF FlagInv, FlagHeld, RGoto, flagVars, rebuildVars, Home, ExchangeResult,
          ReturnFalse
  <2>1. rpc \in [Rebuilders -> RebuildPC] /\ rebuild_flag_ \in BOOLEAN
    BY DEF TypeOK
  <2>2. ASSUME NEW t \in Threads, WriteQueryCall(t) \/ WriteQueryStep(t)
        PROVE  FlagInv'
    BY <2>2
    DEF WriteQueryCall, WriteQueryStep
  <2>3. ASSUME NEW r \in Rebuilders, RebuildStep(r) PROVE FlagInv'
    BY <2>1, <2>3
    DEF RebuildStep, ExchangeFlag, Optimize, EnoughGain,
              TooLittleGain, ClearFlagNoGain, ReturnNoGain, SetPause,
              LockAllNext, LockPartitions, LockStats, Publish,
              AdvanceLockIndex, StoreBlock, EpochEven, ReleaseMutexes,
              ClearFlag, ClearPause, UnlockAllLast, CountRebuild
  <2>4. ASSUME NEW c \in Callers, RebuildNow(c) PROVE FlagInv'
    BY <2>1, <2>4 DEF RebuildNow
  <2>5. ASSUME BreakLoop \/ RebuildDue \/ StartRebuilder \/ StopRebuilder \/ Join
        PROVE  FlagInv'
    BY <2>1, <2>5 DEF BreakLoop, RebuildDue, StartRebuilder, StopRebuilder, Join
  <2>6. CASE UNCHANGED vars
    BY <2>6 DEF vars
  <2> QED
    BY <2>2, <2>3, <2>4, <2>5, <2>6 DEF Next
<1> QED
  BY <1>1, <1>2, TypeCorrect, PTL DEF Spec

(* The gain a rebuilder computed is still the gain of its cuts over        *)
(* partitions_ when it installs them: nobody installed others in between.  *)
THEOREM NoStaleGain == Spec => GainNotStale
<1> DEFINE P == \A r \in Rebuilders :
                  rpc[r] \in Deciding /\ rpc'[r] \in Deciding
                     => UNCHANGED partitions_
<1>1. TypeOK /\ FlagInv /\ [Next]_vars => [P]_vars
  <2> SUFFICES ASSUME TypeOK, FlagInv, Next, NEW r \in Rebuilders,
                      rpc[r] \in Deciding, rpc'[r] \in Deciding
               PROVE  UNCHANGED partitions_
    OBVIOUS
  <2> USE DEF mapVars, rebuildVars
  <2>1. rpc \in [Rebuilders -> RebuildPC]
    BY DEF TypeOK
  <2>2. ASSUME NEW t \in Threads, WriteQueryCall(t) \/ WriteQueryStep(t)
        PROVE  UNCHANGED partitions_
    BY <2>2
    DEF WriteQueryCall, WriteQueryStep
  <2>3. ASSUME NEW s \in Rebuilders, Publish(s) PROVE FALSE
    <3>1. rpc[s] = "publish" /\ rpc'[s] = "refresh"
      BY <2>1, <2>3 DEF Publish, RGoto
    <3>2. s = r
      BY <3>1 DEF FlagInv, FlagHeld, Deciding
    <3> QED
      BY <3>1, <3>2 DEF Deciding
  <2>4. ASSUME NEW s \in Rebuilders, RebuildStep(s)
        PROVE  UNCHANGED partitions_
    BY <2>3, <2>4
    DEF RebuildStep, ExchangeFlag, Optimize, EnoughGain,
              TooLittleGain, ClearFlagNoGain, ReturnNoGain, SetPause,
              LockAllNext, LockPartitions, LockStats,
              AdvanceLockIndex, StoreBlock, EpochEven, ReleaseMutexes,
              ClearFlag, ClearPause, UnlockAllLast, CountRebuild
  <2>5. ASSUME NEW c \in Callers, RebuildNow(c) PROVE UNCHANGED partitions_
    BY <2>5 DEF RebuildNow
  <2>6. ASSUME BreakLoop \/ RebuildDue \/ StartRebuilder \/ StopRebuilder \/ Join
        PROVE  UNCHANGED partitions_
    BY <2>6 DEF BreakLoop, RebuildDue, StartRebuilder, StopRebuilder, Join
  <2> QED
    BY <2>2, <2>4, <2>5, <2>6 DEF Next
<1> QED
  BY <1>1, TypeCorrect, FlagExclusive, PTL DEF Spec, GainNotStale

(* partitions_mutex_ is owned by whoever is in the scope of its guard.     *)
LEMMA PartitionsMutexOwned == Spec => []PartitionsMutexInv
<1>1. Init => PartitionsMutexInv
  BY Distinct DEF Init, PartitionsMutexInv, PartitionsHeld
<1>2. TypeOK /\ PartitionsMutexInv /\ [Next]_vars => PartitionsMutexInv'
  <2> SUFFICES ASSUME TypeOK, PartitionsMutexInv, [Next]_vars
               PROVE  PartitionsMutexInv'
    OBVIOUS
  <2> USE DEF PartitionsMutexInv, PartitionsHeld, RGoto, mutexVars, Home,
              ExchangeResult, ReturnFalse
  <2>1. rpc \in [Rebuilders -> RebuildPC]
    BY DEF TypeOK
  <2>2. ASSUME NEW t \in Threads, WriteQueryCall(t) \/ WriteQueryStep(t)
        PROVE  PartitionsMutexInv'
    BY <2>2 DEF WriteQueryCall, WriteQueryStep, rebuildVars
  <2>3. ASSUME NEW r \in Rebuilders, RebuildStep(r)
        PROVE  PartitionsMutexInv'
    BY <2>1, <2>3, Distinct
    DEF RebuildStep, ExchangeFlag, Optimize, EnoughGain, TooLittleGain,
        ClearFlagNoGain, ReturnNoGain, SetPause, LockAllNext, LockPartitions,
        LockStats, Publish, AdvanceLockIndex, StoreBlock, EpochEven,
        ReleaseMutexes, ClearFlag, ClearPause, UnlockAllLast, CountRebuild
  <2>4. ASSUME NEW c \in Callers, RebuildNow(c) PROVE PartitionsMutexInv'
    BY <2>1, <2>4 DEF RebuildNow
  <2>5. ASSUME BreakLoop \/ RebuildDue \/ StartRebuilder \/ StopRebuilder \/ Join
        PROVE  PartitionsMutexInv'
    BY <2>1, <2>5 DEF BreakLoop, RebuildDue, StartRebuilder, StopRebuilder, Join
  <2>6. CASE UNCHANGED vars
    BY <2>6 DEF vars, rebuildVars
  <2> QED
    BY <2>2, <2>3, <2>4, <2>5, <2>6 DEF Next
<1> QED
  BY <1>1, <1>2, TypeCorrect, PTL DEF Spec

(* CountLocksForRange returns the number of partitions that its range      *)
(* meets: under partitions_mutex_ no rebuilder is rewriting the map, which *)
(* is then the one of partitions_.                                         *)
THEOREM CountExact == Spec => []CountIsExact
<1>1. IInv /\ PartitionsMutexInv => CountIsExact
  <2> SUFFICES ASSUME IInv, PartitionsMutexInv, partitions_mutex_ = NoOne,
                      NEW request \in Requests
               PROVE  CountLocksForRange(request) =
                        Cardinality(LocksMeeting(partitions_,
                          ClampedLeft(request), ClampedRight(request)))
    BY DEF CountIsExact
  <2>1. \A r \in Rebuilders : rpc[r] # "refresh"
    BY Distinct DEF PartitionsMutexInv, PartitionsHeld
  <2>2. /\ partitions_ \in Cuts /\ block_to_lock_ \in [Blocks -> Locks]
        /\ IsRefreshOf(block_to_lock_, partitions_)
    BY <2>1 DEF IInv, TypeOK, QueryTypeOK, RefreshInv
  <2>3. request \in Nat \X Nat
    BY QueryAssumption
  <2> QED
    BY <2>2, <2>3, LocksMeetingCount DEF CountLocksForRange
<1> QED
  BY <1>1, InductiveInvariant, PartitionsMutexOwned, PTL

(* The pause is always somebody's: the rebuilder on whose behalf queries   *)
(* are held back has not come to the store that lifts it.                  *)
THEOREM PauseOwned == Spec => []PauseIsOwned
<1>1. Init => PauseIsOwned
  BY DEF Init, QueryInit, PauseIsOwned
<1>2. TypeOK /\ PauseIsOwned /\ [Next]_vars => PauseIsOwned'
  <2> SUFFICES ASSUME TypeOK, PauseIsOwned, [Next]_vars PROVE PauseIsOwned'
    OBVIOUS
  <2> USE DEF PauseIsOwned, Pausing, RGoto, flagVars, Home, ExchangeResult,
              ReturnFalse
  <2>1. rpc \in [Rebuilders -> RebuildPC]
    BY DEF TypeOK
  <2>2. ASSUME NEW t \in Threads, WriteQueryCall(t) \/ WriteQueryStep(t)
        PROVE  PauseIsOwned'
    BY <2>2
    DEF WriteQueryCall, WriteQueryStep, rebuildVars, Call, QueryStep,
        WaitPause, LoadEpoch, LoadLeft, LoadRight, LockNext, Validate,
        FuncDone, UnlockLast, sharedVars, publishedVars
  <2>3. ASSUME NEW r \in Rebuilders, RebuildStep(r) PROVE PauseIsOwned'
    <3>1. CASE SetPause(r)
      BY <2>1, <3>1 DEF SetPause
    <3>2. CASE ClearPause(r)
      BY <3>2 DEF ClearPause
    <3>3. ASSUME ~SetPause(r), ~ClearPause(r)
          PROVE  /\ UNCHANGED pause_queries_
                 /\ rpc[r] \in Pausing => rpc'[r] \in Pausing
                 /\ \A s \in Rebuilders : s # r => rpc'[s] = rpc[s]
      BY <2>1, <2>3, <3>3
      DEF RebuildStep, ExchangeFlag, Optimize, EnoughGain, TooLittleGain,
        ClearFlagNoGain, ReturnNoGain, SetPause, LockAllNext, LockPartitions,
        LockStats, Publish, AdvanceLockIndex, StoreBlock, EpochEven,
        ReleaseMutexes, ClearFlag, ClearPause, UnlockAllLast, CountRebuild
    <3> QED
      BY <3>1, <3>2, <3>3
  <2>4. ASSUME NEW c \in Callers, RebuildNow(c) PROVE PauseIsOwned'
    BY <2>1, <2>4 DEF RebuildNow
  <2>5. ASSUME BreakLoop \/ RebuildDue \/ StartRebuilder \/ StopRebuilder \/ Join
        PROVE  PauseIsOwned'
    BY <2>1, <2>5 DEF BreakLoop, RebuildDue, StartRebuilder, StopRebuilder, Join
  <2>6. CASE UNCHANGED vars
    BY <2>6 DEF vars, rebuildVars, sharedVars, publishedVars
  <2> QED
    BY <2>2, <2>3, <2>4, <2>5, <2>6 DEF Next
<1> QED
  BY <1>1, <1>2, TypeCorrect, PTL DEF Spec
=============================================================================
