------------------------ MODULE GeneticLock_proofs ------------------------
(***************************************************************************)
(* GeneticLock keeps overlapping queries apart although its trainer        *)
(* sometimes installs cuts without taking a single lock, for any number of *)
(* threads, readers, positions, blocks and locks.                          *)
(***************************************************************************)
EXTENDS GeneticLock, EpochQuery_proofs

-----------------------------------------------------------------------------
(* The inductive invariant                                                 *)

(* Every member and local variable keeps the type it has in the code.      *)
TypeOK ==
    /\ QueryTypeOK(Trainers)
    /\ current_cuts_ \in Cuts
    /\ training_enabled_ \in BOOLEAN
    /\ stop_training_thread_ \in BOOLEAN
    /\ training_mutex_ \in Trainers \cup {NoOne}
    /\ cuts_mutex_ \in Trainers \cup {NoOne}
    /\ training_count_ \in Nat
    /\ tpc \in [Trainers -> TrainPC]
    /\ next_cuts \in [Trainers -> Cuts]
    /\ concurrent_queries \in [Trainers -> BOOLEAN]
    /\ block \in [Trainers -> 0 .. kBlocks]
    /\ lock_index \in [Trainers -> Locks]
    /\ tlocked \in [Trainers -> 0 .. kLockCnt]
    /\ cpc \in [Readers -> {"idle", "epoch", "left", "right", "compare"}]
    /\ crequest \in [Readers -> Nat \X Nat]
    /\ cepoch \in [Readers -> Nat]
    /\ first_lock \in [Readers -> Locks]
    /\ last_lock \in [Readers -> Locks]
    /\ serving \in BOOLEAN

(* training_mutex_ and cuts_mutex_ are held in the scopes of their guards. *)
OutsideTraining == {"none", "idle", "wait", "exited", "signal", "join",
                    "mutex"}
MutexInv ==
    \A r \in Trainers :
        /\ tpc[r] \notin OutsideTraining <=> training_mutex_ = r
        /\ tpc[r] \in {"refresh", "unlockcuts"} <=> cuts_mutex_ = r

(* Queries run only while the owner is in none of its operations; outside  *)
(* StopRebuilder a training thread that runs is one that locks; and if it  *)
(* does not, the owner is in StopRebuilder until it has joined it.         *)
Stopping == {"signal", "join"}
ServingInv ==
    /\ serving => tpc[owner] = "idle"
    /\ ~serving => \A t \in Threads : qpc[t] = "idle"
    /\ tpc[training_thread_] # "none"
          => training_enabled_ \/ tpc[owner] \in Stopping
    /\ tpc[training_thread_] \in Publishing
       /\ ~concurrent_queries[training_thread_]
          => tpc[owner] \in Stopping

(* The guard over all locks has locked a prefix: all of them while cuts    *)
(* are installed among queries, none while they are installed in quiet.    *)
TrainGuard(r) ==
    /\ tpc[r] \in {"pause", "lockall", "unlockall"} => concurrent_queries[r]
    /\ tpc[r] \notin Publishing \cup {"lockall", "unlockall"}
          => tlocked[r] = 0
    /\ tpc[r] = "lockall" => tlocked[r] < kLockCnt
    /\ tpc[r] \in Publishing =>
          tlocked[r] = IF concurrent_queries[r] THEN kLockCnt ELSE 0
    /\ tpc[r] = "unlockall" => tlocked[r] >= 1
TrainGuardInv == \A r \in Trainers : TrainGuard(r)

(* A mutex is owned by a trainer exactly if its guard has locked it.       *)
TrainOwnerInv ==
    \A l \in Locks, r \in Trainers : locks_[l] = r <=> l < tlocked[r]

(* The epoch is odd exactly while some trainer rewrites cuts and map.      *)
Rewriting == {"cuts", "refresh", "unlockcuts", "even"}
EpochInv ==
    /\ \A r \in Trainers : tpc[r] \in Rewriting => partition_epoch_ % 2 = 1
    /\ (\A r \in Trainers : tpc[r] \notin Rewriting)
          => partition_epoch_ % 2 = 0

(* The loop of RefreshBlockToLock has produced the map for the blocks it   *)
(* has passed, and outside that loop the map is the one of the cuts.       *)
BeforeLoop == OutsideTraining \cup {"observe", "enabled", "pause", "lockall",
                                    "odd", "cuts"}
RefreshLoop(r) ==
    /\ tpc[r] \in BeforeLoop => block[r] = 0 /\ lock_index[r] = 0
    /\ tpc[r] = "refresh" =>
          /\ block[r] < kBlocks
          /\ current_cuts_[lock_index[r]] <= block[r]
          /\ \A b \in Blocks : b < block[r] =>
                /\ current_cuts_[block_to_lock_[b]] <= b
                /\ b < current_cuts_[block_to_lock_[b] + 1]
RefreshInv ==
    /\ \A r \in Trainers : RefreshLoop(r)
    /\ (\A r \in Trainers : tpc[r] # "refresh")
          => IsRefreshOf(block_to_lock_, current_cuts_)

(* What a reader found in the map is still there as long as the epoch it   *)
(* loaded is the current one.                                              *)
ReaderLookup(c) ==
    /\ cepoch[c] <= partition_epoch_
    /\ cpc[c] \in {"left", "right", "compare"} => cepoch[c] % 2 = 0
    /\ cepoch[c] = partition_epoch_ =>
          /\ cpc[c] \in {"right", "compare"} => first_lock[c] =
                block_to_lock_[PositionToBlock(ClampedLeft(crequest[c]))]
          /\ cpc[c] = "compare" => last_lock[c] =
                block_to_lock_[PositionToBlock(ClampedRight(crequest[c]))]
ReaderInv == \A c \in Readers : ReaderLookup(c)

(* All of it together: together the parts are preserved by every step.     *)
IInv ==
    /\ TypeOK
    /\ QueryInv(Trainers)
    /\ MutexInv
    /\ ServingInv
    /\ TrainGuardInv
    /\ TrainOwnerInv
    /\ EpochInv
    /\ RefreshInv
    /\ ReaderInv

-----------------------------------------------------------------------------
(* The processes of the two kinds differ from each other and from NoOne.   *)
LEMMA Distinct ==
    /\ owner \in Trainers /\ training_thread_ \in Trainers
    /\ owner # training_thread_
    /\ \A r \in Trainers : r = owner \/ r = training_thread_
    /\ Trainers \cap Threads = {} /\ NoOne \notin Trainers
    /\ NoOne \notin Threads
  BY TrainerAssumption, QueryAssumption DEF Trainers

(* The constructor establishes the inductive invariant.                    *)
LEMMA InitInv == Init => IInv
<1> SUFFICES ASSUME Init PROVE IInv
  OBVIOUS
<1>1. QueryInv(Trainers)
  BY QueryInitInv DEF Init
<1>2. TypeOK
  <2>1. 0 \in Locks /\ 0 \in 0 .. kLockCnt /\ 0 \in 0 .. kBlocks
    BY SizeAssumption DEF Locks
  <2>2. tpc \in [Trainers -> TrainPC]
    BY DEF Init, TrainPC
  <2>3. /\ next_cuts \in [Trainers -> Cuts]
        /\ crequest \in [Readers -> Nat \X Nat]
    BY UniformCutsType DEF Init
  <2> QED
    BY <1>1, <2>1, <2>2, <2>3, UniformCutsType DEF Init, TypeOK, QueryInv
<1>3. MutexInv /\ ServingInv /\ TrainGuardInv /\ EpochInv
  BY Distinct
  DEF Init, QueryInit, MutexInv, OutsideTraining, ServingInv, Publishing,
      TrainGuardInv, TrainGuard, EpochInv, Rewriting
<1>4. TrainOwnerInv
  BY Distinct, SizeAssumption DEF Init, QueryInit, TrainOwnerInv, Locks
<1>5. RefreshInv
  BY DEF Init, QueryInit, RefreshInv, RefreshLoop
<1>6. ReaderInv
  BY DEF Init, QueryInit, ReaderInv, ReaderLookup
<1> QED
  BY <1>1, <1>2, <1>3, <1>4, <1>5, <1>6 DEF IInv

(* No step of a query disturbs the invariant.                              *)
LEMMA WriteQueryInv ==
    ASSUME IInv, NEW t \in Threads, WriteQueryCall(t) \/ WriteQueryStep(t)
    PROVE  IInv'
<1> USE DEF trainVars, memberVars, localVars, loopVars, readerVars,
            publishedVars
<1>1. /\ Call(t) \/ QueryStep(t)
      /\ UNCHANGED <<trainVars, readerVars>>
      /\ QueryInv(Trainers)
      /\ Trainers \cap Threads = {} /\ NoOne \notin Trainers
  BY Distinct DEF WriteQueryCall, WriteQueryStep, IInv
<1>2. QueryInv(Trainers)'
  BY <1>1, QueryStepInv
<1>3. /\ UNCHANGED publishedVars
      /\ \A l \in Locks, r \in Trainers : locks_'[l] = r <=> locks_[l] = r
  BY <1>1, QueryStepFrame
<1>4. TypeOK'
  BY <1>1, <1>2 DEF IInv, TypeOK, QueryInv
<1>5. MutexInv' /\ TrainGuardInv' /\ EpochInv' /\ TrainOwnerInv'
  BY <1>1, <1>3
  DEF IInv, MutexInv, TrainGuardInv, TrainGuard, EpochInv, TrainOwnerInv
<1>6. serving
  <2>1. CASE WriteQueryCall(t)
    BY <2>1 DEF WriteQueryCall
  <2>2. CASE QueryStep(t)
    <3>1. qpc[t] # "idle"
      BY <2>2
      DEF QueryStep, WaitPause, LoadEpoch, LoadLeft, LoadRight, LockNext,
          Validate, FuncDone, UnlockLast, Goto
    <3> QED
      BY <3>1 DEF IInv, ServingInv
  <2> QED
    BY <2>1, <2>2 DEF WriteQueryStep
<1>7. ServingInv'
  BY <1>1, <1>6 DEF IInv, ServingInv
<1>8. RefreshInv' /\ ReaderInv'
  BY <1>1, <1>3
  DEF IInv, RefreshInv, RefreshLoop, IsRefreshOf, ReaderInv, ReaderLookup
<1> QED
  BY <1>2, <1>4, <1>5, <1>7, <1>8 DEF IInv

(* A trainer that installs cuts is the only one that does, and no query    *)
(* has passed the acquisition of its locks: either the trainer owns every  *)
(* mutex, or the owner lets no query run.                                  *)
LEMMA PublishAlone ==
    ASSUME IInv, NEW r \in Trainers, tpc[r] \in Publishing
    PROVE  /\ \A s \in Trainers : s # r => tpc[s] \in OutsideTraining
           /\ \A t \in Threads : qpc[t] \notin Holding
           /\ ~concurrent_queries[r] => \A t \in Threads : qpc[t] = "idle"
<1> USE SizeAssumption DEF Locks
<1>1. \A s \in Trainers : s # r => tpc[s] \in OutsideTraining
  BY DEF IInv, MutexInv, OutsideTraining, Publishing
<1>2. ASSUME ~concurrent_queries[r]
      PROVE  \A t \in Threads : qpc[t] = "idle"
  BY <1>2, Distinct DEF IInv, ServingInv, Publishing, Stopping
<1>3. ASSUME concurrent_queries[r], NEW t \in Threads, qpc[t] \in Holding
      PROVE  FALSE
  <2>1. \A l \in Locks : locks_[l] = r
    BY <1>3 DEF IInv, TrainGuardInv, TrainGuard, TrainOwnerInv
  <2>2. qlocked[t] >= 1 /\ lock_start[t] \in Locks /\ qlocked[t] \in Nat
    <3>1. QueryGuard(t) /\ lock_start[t] \in Locks /\ lock_end[t] \in Locks
      BY DEF IInv, QueryInv, QueryGuardInv, QueryTypeOK
    <3> QED
      BY <1>3, <3>1 DEF QueryGuard, Holding, BeforeLock
  <2>3. locks_[lock_start[t]] = t
    BY <2>2 DEF IInv, QueryInv, QueryOwnerInv, QueryHolds
  <2> QED
    BY <2>1, <2>2, <2>3, Distinct
<1>4. \A t \in Threads : qpc[t] \notin Holding
  BY <1>2, <1>3 DEF Holding
<1> QED
  BY <1>1, <1>2, <1>4

(* The mutexes, who may run and the guard over all locks: what a step of a *)
(* trainer does to the control of the system.                              *)
LEMMA TrainControl ==
    ASSUME IInv, NEW r \in Trainers, TrainStep(r)
    PROVE  MutexInv' /\ ServingInv' /\ TrainGuardInv'
<1> USE DEF TGoto, Home, memberVars, localVars, loopVars, envVars, mapVars
<1>1. /\ tpc \in [Trainers -> TrainPC] /\ training_enabled_ \in BOOLEAN
      /\ concurrent_queries \in [Trainers -> BOOLEAN]
      /\ tlocked \in [Trainers -> 0 .. kLockCnt]
      /\ MutexInv /\ ServingInv /\ TrainGuardInv
  BY DEF IInv, TypeOK
<1>2. MutexInv'
  BY <1>1, Distinct
  DEF MutexInv, OutsideTraining, TrainStep, LockTraining, SameCuts, NewCuts,
      LoadEnabled, SetPause, LockAllNext, EpochOdd, MoveCuts, StoreBlock,
      UnlockCuts, EpochEven, UnlockAllLast, ClearPause, CountTraining
<1>3. ServingInv'
  <2>1. /\ UNCHANGED <<serving, qpc, training_enabled_>>
        /\ tpc[r] \notin {"none", "idle", "wait", "exited"} \cup Stopping
        /\ \A s \in Trainers : s # r =>
              tpc'[s] = tpc[s] /\ concurrent_queries'[s] = concurrent_queries[s]
        /\ tpc'[r] \in Publishing /\ ~concurrent_queries'[r] =>
              \/ tpc[r] = "enabled" /\ ~training_enabled_
              \/ tpc[r] \in Publishing /\ ~concurrent_queries[r]
              \/ tpc[r] = "lockall" /\ ~concurrent_queries[r]
    BY <1>1
    DEF Publishing, Stopping, queryVars, TrainStep, LockTraining, SameCuts,
        NewCuts, LoadEnabled, SetPause, LockAllNext, EpochOdd, MoveCuts,
        StoreBlock, UnlockCuts, EpochEven, UnlockAllLast, ClearPause,
        CountTraining
  <2>2. ~(tpc[r] = "lockall" /\ ~concurrent_queries[r])
    BY <1>1 DEF TrainGuardInv, TrainGuard
  <2>3. CASE r = owner
    BY <1>1, <2>1, <2>3, Distinct DEF ServingInv, Stopping
  <2>4. CASE r = training_thread_
    BY <1>1, <2>1, <2>2, <2>4, Distinct DEF ServingInv, Stopping, Publishing
  <2> QED
    BY <2>3, <2>4, Distinct
<1>4. TrainGuardInv'
  <2>1. ASSUME NEW s \in Trainers, s # r PROVE TrainGuard(s)'
    <3>1. /\ tpc'[s] = tpc[s] /\ concurrent_queries'[s] = concurrent_queries[s]
          /\ tlocked'[s] = tlocked[s]
      BY <1>1, <2>1
      DEF TrainStep, LockTraining, SameCuts, NewCuts, LoadEnabled, SetPause,
          LockAllNext, EpochOdd, MoveCuts, StoreBlock, UnlockCuts, EpochEven,
          UnlockAllLast, ClearPause, CountTraining
    <3> QED
      BY <1>1, <3>1 DEF TrainGuardInv, TrainGuard
  <2>2. TrainGuard(r) /\ tlocked[r] \in 0 .. kLockCnt
    BY <1>1 DEF TrainGuardInv
  <2>3. TrainGuard(r)'
    <3>1. CASE LockAllNext(r)
      BY <1>1, <2>2, <3>1, SizeAssumption
      DEF TrainGuard, LockAllNext, LastLock, Publishing
    <3>2. CASE UnlockAllLast(r)
      BY <1>1, <2>2, <3>2 DEF TrainGuard, UnlockAllLast, Publishing
    <3>3. CASE \/ LockTraining(r) \/ SameCuts(r) \/ NewCuts(r) \/ SetPause(r)
               \/ CountTraining(r) \/ LoadEnabled(r)
      BY <1>1, <2>2, <3>3, SizeAssumption
      DEF TrainGuard, Publishing, LockTraining, SameCuts, NewCuts, LoadEnabled,
          SetPause, CountTraining
    <3>4. CASE \/ EpochOdd(r) \/ MoveCuts(r) \/ StoreBlock(r) \/ UnlockCuts(r)
               \/ EpochEven(r) \/ ClearPause(r)
      BY <1>1, <2>2, <3>4, SizeAssumption
      DEF TrainGuard, Publishing, EpochOdd, MoveCuts, StoreBlock, UnlockCuts,
          EpochEven, ClearPause
    <3> QED
      BY <3>1, <3>2, <3>3, <3>4 DEF TrainStep
  <2> QED
    BY <2>1, <2>3 DEF TrainGuardInv
<1> QED
  BY <1>2, <1>3, <1>4

(* A step that touches neither the locks nor the map nor the loop over it, *)
(* and does not enter or leave the rewriting of the map.                   *)
LEMMA QuietStepInv ==
    ASSUME IInv,
           UNCHANGED <<locks_, mapVars, queryVars, readerVars, tlocked,
                       loopVars>>,
           TypeOK', MutexInv', ServingInv', TrainGuardInv',
           \A r \in Trainers :
              /\ tpc'[r] \in Rewriting <=> tpc[r] \in Rewriting
              /\ tpc'[r] = "refresh" <=> tpc[r] = "refresh"
              /\ tpc'[r] \in BeforeLoop => tpc[r] \in BeforeLoop
    PROVE  IInv'
<1> USE DEF mapVars, queryVars, readerVars, loopVars
<1>1. QueryOwnerInv' /\ TrainOwnerInv'
  BY DEF IInv, QueryInv, QueryOwnerInv, QueryHolds, TrainOwnerInv
<1>2. QueryInv(Trainers)'
  BY <1>1, OtherStepInv DEF IInv, TypeOK
<1>3. EpochInv'
  BY DEF IInv, EpochInv
<1>4. RefreshInv'
  BY DEF IInv, RefreshInv, RefreshLoop, IsRefreshOf
<1>5. ReaderInv'
  BY DEF IInv, ReaderInv, ReaderLookup
<1> QED
  BY <1>1, <1>2, <1>3, <1>4, <1>5 DEF IInv

(* The trainer's steps outside the rewriting of the map that take no lock  *)
(* of locks_.                                                              *)
LEMMA QuietTrainInv ==
    ASSUME IInv, NEW r \in Trainers,
           \/ LockTraining(r) \/ SameCuts(r) \/ NewCuts(r) \/ LoadEnabled(r)
           \/ SetPause(r) \/ UnlockCuts(r) \/ ClearPause(r)
    PROVE  IInv'
<1> USE DEF TGoto, Home, memberVars, localVars, loopVars, envVars, mapVars
<1>1. MutexInv' /\ ServingInv' /\ TrainGuardInv'
  BY TrainControl DEF TrainStep
<1>2. TypeOK /\ tpc \in [Trainers -> TrainPC]
  BY DEF IInv, TypeOK
<1>3. UNCHANGED <<locks_, mapVars, queryVars, readerVars, tlocked, loopVars>>
  BY DEF sharedVars, publishedVars, LockTraining, SameCuts, NewCuts,
         LoadEnabled, SetPause, UnlockCuts, ClearPause
<1>4. /\ tpc' = [tpc EXCEPT ![r] = tpc'[r]] /\ tpc'[r] \in TrainPC
      /\ tpc'[r] \in Rewriting <=> tpc[r] \in Rewriting
      /\ tpc'[r] = "refresh" <=> tpc[r] = "refresh"
      /\ tpc'[r] \in BeforeLoop => tpc[r] \in BeforeLoop
  BY <1>2
  DEF TrainPC, Rewriting, BeforeLoop, OutsideTraining, LockTraining, SameCuts,
      NewCuts, LoadEnabled, SetPause, UnlockCuts, ClearPause
<1>5. TypeOK'
  <2>1. QueryTypeOK(Trainers)'
    BY <1>2, <1>3
    DEF TypeOK, QueryTypeOK, queryVars, LockTraining, SameCuts, NewCuts,
        LoadEnabled, SetPause, UnlockCuts, ClearPause, sharedVars,
        publishedVars
  <2>2. next_cuts' \in [Trainers -> Cuts]
    BY <1>2
    DEF TypeOK, TrainedCuts, LockTraining, SameCuts, NewCuts, LoadEnabled,
        SetPause, UnlockCuts, ClearPause
  <2>3. /\ concurrent_queries' \in [Trainers -> BOOLEAN]
        /\ training_mutex_' \in Trainers \cup {NoOne}
        /\ cuts_mutex_' \in Trainers \cup {NoOne}
        /\ UNCHANGED <<training_enabled_, stop_training_thread_,
                       training_count_, serving>>
    BY <1>2
    DEF TypeOK, LockTraining, SameCuts, NewCuts, LoadEnabled,
        SetPause, UnlockCuts, ClearPause
  <2> QED
    BY <1>2, <1>3, <1>4, <2>1, <2>2, <2>3 DEF TypeOK, readerVars
<1>6. \A s \in Trainers \ {r} : tpc'[s] = tpc[s]
  BY <1>2, <1>4
<1> QED
  BY <1>1, <1>3, <1>4, <1>5, <1>6, QuietStepInv

(* The owner's operations and the training thread's loop.                  *)
LEMMA ServiceInv ==
    ASSUME IInv,
           \/ OpenQueries \/ CloseQueries \/ ObserveBatch \/ BatchTaken
           \/ StopLoop \/ StartRebuilder \/ StopRebuilder \/ SignalStop
           \/ Join
    PROVE  IInv'
<1> USE DEF TGoto, memberVars, localVars, loopVars, envVars, mapVars
<1>1. /\ TypeOK /\ MutexInv /\ ServingInv /\ TrainGuardInv
      /\ tpc \in [Trainers -> TrainPC]
  BY DEF IInv, TypeOK
<1>2. /\ UNCHANGED <<sharedVars, current_cuts_, queryVars, readerVars,
                     localVars, training_mutex_, cuts_mutex_,
                     training_count_>>
      /\ tpc' \in [Trainers -> TrainPC]
      /\ \A r \in Trainers :
            tpc'[r] = tpc[r] \/ {tpc[r], tpc'[r]} \subseteq OutsideTraining
  BY <1>1, Distinct
  DEF OutsideTraining, TrainPC, OpenQueries, CloseQueries, ObserveBatch,
      BatchTaken, StopLoop, StartRebuilder, StopRebuilder, SignalStop, Join
<1>3. TypeOK'
  <2>1. /\ training_enabled_' \in BOOLEAN /\ stop_training_thread_' \in BOOLEAN
        /\ serving' \in BOOLEAN
    BY <1>1
    DEF TypeOK, OpenQueries, CloseQueries, ObserveBatch, BatchTaken, StopLoop,
        StartRebuilder, StopRebuilder, SignalStop, Join
  <2> QED
    BY <1>1, <1>2, <2>1
    DEF TypeOK, QueryTypeOK, sharedVars, publishedVars, queryVars, readerVars
<1>4. MutexInv' /\ TrainGuardInv'
  BY <1>1, <1>2 DEF MutexInv, TrainGuardInv, TrainGuard, OutsideTraining,
                    Publishing
<1>5. ServingInv'
  BY <1>1, <1>2, Distinct
  DEF ServingInv, Stopping, Publishing, queryVars, OpenQueries, CloseQueries,
      ObserveBatch, BatchTaken, StopLoop, StartRebuilder, StopRebuilder,
      SignalStop, Join
<1>6. \A r \in Trainers :
         /\ tpc'[r] \in Rewriting <=> tpc[r] \in Rewriting
         /\ tpc'[r] = "refresh" <=> tpc[r] = "refresh"
         /\ tpc'[r] \in BeforeLoop => tpc[r] \in BeforeLoop
  BY <1>2 DEF Rewriting, BeforeLoop, OutsideTraining
<1> QED
  BY <1>2, <1>3, <1>4, <1>5, <1>6, QuietStepInv DEF sharedVars, publishedVars

(* RangeLockGuard over all locks: acquisition and release of one mutex.    *)
LEMMA GuardStepsInv ==
    ASSUME IInv, NEW r \in Trainers, LockAllNext(r) \/ UnlockAllLast(r)
    PROVE  IInv'
<1> USE SizeAssumption
    DEF Locks, TGoto, memberVars, localVars, loopVars, envVars, mapVars,
        queryVars, readerVars, publishedVars
<1> DEFINE index == IF tpc[r] = "lockall" THEN tlocked[r] ELSE tlocked[r] - 1
           holder == IF tpc[r] = "lockall" THEN r ELSE NoOne
           count == IF tpc[r] = "lockall" THEN tlocked[r] + 1 ELSE tlocked[r] - 1
<1>1. /\ tpc \in [Trainers -> TrainPC]
      /\ tlocked \in [Trainers -> 0 .. kLockCnt]
      /\ locks_ \in [Locks -> Threads \cup Trainers \cup {NoOne}]
      /\ TrainGuard(r)
  BY DEF IInv, TypeOK, QueryTypeOK, TrainGuardInv
<1>2. tpc[r] \in {"lockall", "unlockall"}
  BY DEF LockAllNext, UnlockAllLast
<1>3. /\ index \in Locks /\ index \in Nat
      /\ count \in 0 .. kLockCnt
      /\ tlocked[r] \in Nat
  BY <1>1, <1>2 DEF TrainGuard
<1>4. /\ locks_' = [locks_ EXCEPT ![index] = holder]
      /\ tlocked' = [tlocked EXCEPT ![r] = count]
      /\ UNCHANGED <<publishedVars, current_cuts_, memberVars, next_cuts,
                     concurrent_queries, loopVars, envVars>>
  BY <1>1 DEF LockAllNext, UnlockAllLast
<1>5. /\ tpc' = [tpc EXCEPT ![r] = tpc'[r]]
      /\ \/ tpc[r] = "lockall" /\ tpc'[r] \in {"lockall", "odd"}
         \/ tpc[r] = "unlockall" /\ tpc'[r] \in {"unlockall", "clearpause"}
      /\ \A s \in Trainers : s # r => tpc'[s] = tpc[s]
  BY <1>1 DEF LockAllNext, UnlockAllLast
<1>6. locks_[index] = (IF tpc[r] = "lockall" THEN NoOne ELSE r)
  <2>1. CASE tpc[r] = "lockall"
    BY <2>1 DEF LockAllNext, UnlockAllLast
  <2>2. CASE tpc[r] = "unlockall"
    BY <1>1, <1>3, <2>2 DEF IInv, TrainOwnerInv, TrainGuard
  <2> QED
    BY <1>2, <2>1, <2>2
<1>7. TypeOK'
  <2>1. tpc' \in [Trainers -> TrainPC]
    BY <1>1, <1>5 DEF TrainPC
  <2> QED
    BY <1>3, <1>4, <2>1 DEF IInv, TypeOK, QueryTypeOK
<1>8. MutexInv' /\ ServingInv' /\ TrainGuardInv'
  BY TrainControl DEF TrainStep
<1>9. TrainOwnerInv'
  <2> SUFFICES ASSUME NEW l \in Locks, NEW s \in Trainers
               PROVE  locks_'[l] = s <=> l < tlocked'[s]
    BY DEF TrainOwnerInv
  <2>1. locks_[l] = s <=> l < tlocked[s]
    BY DEF IInv, TrainOwnerInv
  <2>2. CASE s = r
    BY <1>1, <1>2, <1>3, <1>4, <1>6, <2>1, <2>2, Distinct
  <2>3. CASE s # r
    BY <1>1, <1>2, <1>3, <1>4, <1>6, <2>1, <2>3, Distinct
  <2> QED
    BY <2>2, <2>3
<1>10. QueryInv(Trainers)'
  <2>1. \A l \in Locks, t \in Threads : locks_'[l] = t <=> locks_[l] = t
    BY <1>1, <1>2, <1>3, <1>4, <1>6, Distinct
  <2>2. QueryOwnerInv'
    BY <1>4, <2>1 DEF IInv, QueryInv, QueryOwnerInv, QueryHolds
  <2> QED
    BY <1>4, <1>7, <2>2, OtherStepInv DEF IInv, TypeOK
<1>11. EpochInv'
  BY <1>4, <1>5 DEF IInv, EpochInv, Rewriting
<1>12. RefreshInv'
  <2>1. \A s \in Trainers : RefreshLoop(s)'
    <3>1. RefreshLoop(r)'
      BY <1>4, <1>5
      DEF IInv, RefreshInv, RefreshLoop, BeforeLoop, OutsideTraining
    <3> QED
      BY <1>4, <1>5, <3>1 DEF IInv, RefreshInv, RefreshLoop
  <2>2. (\A s \in Trainers : tpc'[s] # "refresh")
          => IsRefreshOf(block_to_lock_, current_cuts_)'
    BY <1>2, <1>4, <1>5 DEF IInv, RefreshInv, IsRefreshOf
  <2> QED
    BY <2>1, <2>2 DEF RefreshInv
<1>13. ReaderInv'
  BY <1>4 DEF IInv, ReaderInv, ReaderLookup
<1> QED
  BY <1>7, <1>8, <1>9, <1>10, <1>11, <1>12, <1>13 DEF IInv

(* publish_partition, from the first increment of the epoch to the second. *)
LEMMA PublishInv ==
    ASSUME IInv, NEW r \in Trainers,
           EpochOdd(r) \/ MoveCuts(r) \/ StoreBlock(r) \/ EpochEven(r)
    PROVE  IInv'
<1> USE SizeAssumption
    DEF TGoto, memberVars, localVars, loopVars, envVars, mapVars, queryVars,
        readerVars, sharedVars, publishedVars
<1>1. /\ tpc \in [Trainers -> TrainPC]
      /\ block \in [Trainers -> 0 .. kBlocks]
      /\ lock_index \in [Trainers -> Locks]
      /\ block_to_lock_ \in [Blocks -> Locks]
      /\ current_cuts_ \in Cuts /\ next_cuts \in [Trainers -> Cuts]
      /\ partition_epoch_ \in Nat
      /\ cuts_mutex_ \in Trainers \cup {NoOne}
      /\ RefreshLoop(r)
  BY DEF IInv, TypeOK, QueryTypeOK, RefreshInv
<1>2. tpc[r] \in Publishing
  BY DEF EpochOdd, MoveCuts, StoreBlock, EpochEven, Publishing
<1>3. /\ \A s \in Trainers : s # r => tpc[s] \in OutsideTraining
      /\ \A t \in Threads : qpc[t] \notin Holding
  BY <1>2, PublishAlone
<1>4. /\ UNCHANGED <<locks_, pause_queries_, queryVars, readerVars, serving,
                     next_cuts, concurrent_queries, tlocked,
                     training_enabled_, stop_training_thread_,
                     training_mutex_, training_count_>>
      /\ tpc' = [tpc EXCEPT ![r] = tpc'[r]]
      /\ tpc'[r] \in {"cuts", "refresh", "unlockcuts", "unlockall",
                      "clearpause"}
      /\ tpc' \in [Trainers -> TrainPC]
      /\ \A s \in Trainers : s # r => tpc'[s] = tpc[s]
  BY <1>1 DEF EpochOdd, MoveCuts, StoreBlock, EpochEven, TrainPC
<1>5. MutexInv' /\ ServingInv' /\ TrainGuardInv'
  BY TrainControl DEF TrainStep
<1>6. QueryOwnerInv' /\ TrainOwnerInv'
  BY <1>4 DEF IInv, QueryInv, QueryOwnerInv, QueryHolds, TrainOwnerInv
<1>7. CASE EpochOdd(r) \/ EpochEven(r)
  <2>1. /\ partition_epoch_' = partition_epoch_ + 1
        /\ UNCHANGED <<block_to_lock_, current_cuts_, cuts_mutex_, loopVars>>
        /\ \/ tpc[r] = "odd" /\ tpc'[r] = "cuts"
           \/ tpc[r] = "even" /\ tpc'[r] \in {"unlockall", "clearpause"}
    BY <1>1, <1>7 DEF EpochOdd, EpochEven
  <2>2. TypeOK'
    BY <1>1, <1>4, <2>1 DEF IInv, TypeOK, QueryTypeOK
  <2>3. QueryInv(Trainers)'
    BY <1>1, <1>3, <1>4, <1>6, <2>1, <2>2, OtherStepInv DEF IInv, TypeOK
  <2>4. EpochInv'
    <3>1. CASE tpc[r] = "odd"
      <4>1. \A s \in Trainers : tpc[s] \notin Rewriting
        BY <1>3, <3>1 DEF Rewriting, OutsideTraining
      <4>2. partition_epoch_ % 2 = 0
        BY <4>1 DEF IInv, EpochInv
      <4> QED
        BY <1>1, <2>1, <3>1, <4>2 DEF EpochInv, Rewriting
    <3>2. CASE tpc[r] = "even"
      <4>1. partition_epoch_ % 2 = 1
        BY <3>2 DEF IInv, EpochInv, Rewriting
      <4>2. \A s \in Trainers : tpc'[s] \notin Rewriting
        BY <1>3, <1>4, <2>1, <3>2 DEF Rewriting, OutsideTraining
      <4> QED
        BY <1>1, <2>1, <4>1, <4>2 DEF EpochInv
    <3> QED
      BY <2>1, <3>1, <3>2
  <2>5. RefreshInv'
    <3>1. \A s \in Trainers : RefreshLoop(s)'
      BY <1>1, <1>4, <2>1
      DEF IInv, RefreshInv, RefreshLoop, BeforeLoop, OutsideTraining
    <3>2. IsRefreshOf(block_to_lock_, current_cuts_)'
      <4>1. \A s \in Trainers : tpc[s] # "refresh"
        BY <1>3, <2>1 DEF OutsideTraining
      <4> QED
        BY <2>1, <4>1 DEF IInv, RefreshInv, IsRefreshOf
    <3> QED
      BY <3>1, <3>2 DEF RefreshInv
  <2>6. ReaderInv'
    <3>1. cepoch \in [Readers -> Nat]
      BY DEF IInv, TypeOK
    <3> QED
      BY <1>1, <1>4, <2>1, <3>1 DEF IInv, ReaderInv, ReaderLookup
  <2> QED
    BY <1>5, <1>6, <2>2, <2>3, <2>4, <2>5, <2>6 DEF IInv
<1>8. ASSUME MoveCuts(r) \/ StoreBlock(r)
      PROVE  /\ UNCHANGED partition_epoch_ /\ partition_epoch_ % 2 = 1
             /\ EpochInv' /\ ReaderInv'
  <2>1. /\ UNCHANGED partition_epoch_
        /\ tpc[r] \in {"cuts", "refresh"}
        /\ tpc'[r] \in {"refresh", "unlockcuts"}
    BY <1>1, <1>8 DEF MoveCuts, StoreBlock
  <2>2. partition_epoch_ % 2 = 1
    BY <2>1 DEF IInv, EpochInv, Rewriting
  <2>3. EpochInv'
    BY <1>4, <2>1, <2>2 DEF EpochInv, Rewriting
  <2>4. ReaderInv'
    BY <1>1, <1>4, <2>1, <2>2 DEF IInv, ReaderInv, ReaderLookup
  <2> QED
    BY <2>1, <2>2, <2>3, <2>4
<1>9. CASE MoveCuts(r)
  <2>1. /\ current_cuts_' = next_cuts[r] /\ cuts_mutex_' = r
        /\ tpc[r] = "cuts" /\ tpc'[r] = "refresh"
        /\ UNCHANGED <<block_to_lock_, loopVars>>
    BY <1>1, <1>9 DEF MoveCuts
  <2>2. TypeOK'
    BY <1>1, <1>4, <1>8, <1>9, <2>1 DEF IInv, TypeOK, QueryTypeOK
  <2>3. QueryInv(Trainers)'
    BY <1>4, <1>6, <1>8, <1>9, <2>2, OtherStepInv DEF IInv, TypeOK
  <2>4. RefreshInv'
    <3>1. RefreshLoop(r)'
      <4>1. block'[r] = 0 /\ lock_index'[r] = 0
        BY <1>1, <2>1 DEF RefreshLoop, BeforeLoop
      <4>2. current_cuts_'[0] = 0
        BY <1>1, <2>1 DEF Cuts
      <4> QED
        BY <2>1, <4>1, <4>2 DEF RefreshLoop, Blocks, BeforeLoop, OutsideTraining
    <3>2. ASSUME NEW s \in Trainers, s # r PROVE RefreshLoop(s)'
      BY <1>3, <1>4, <2>1, <3>2
      DEF IInv, RefreshInv, RefreshLoop, OutsideTraining
    <3> QED
      BY <2>1, <3>1, <3>2 DEF RefreshInv
  <2> QED
    BY <1>5, <1>6, <1>8, <1>9, <2>2, <2>3, <2>4 DEF IInv
<1>10. CASE StoreBlock(r)
  <2>0. PICK l \in Locks :
          /\ StopsAt(r, l)
          /\ lock_index' = [lock_index EXCEPT ![r] = l]
          /\ block_to_lock_' = [block_to_lock_ EXCEPT ![block[r]] = l]
    BY <1>10 DEF StoreBlock
  <2>1. /\ tpc[r] = "refresh"
        /\ tpc'[r] = IF block[r] = kBlocks - 1 THEN "unlockcuts" ELSE "refresh"
        /\ block' = [block EXCEPT ![r] = @ + 1]
        /\ UNCHANGED <<current_cuts_, cuts_mutex_>>
    BY <1>1, <1>10 DEF StoreBlock
  <2>2. /\ block[r] \in Blocks /\ block[r] \in Nat
        /\ lock_index[r] \in Nat /\ l \in Nat
        /\ l \in 0 .. kLockCnt /\ l + 1 \in 0 .. kLockCnt
    BY <1>1, <2>1 DEF RefreshLoop, Blocks, Locks
  <2>3. TypeOK'
    <3>1. /\ block' \in [Trainers -> 0 .. kBlocks]
          /\ lock_index' \in [Trainers -> Locks]
          /\ block_to_lock_' \in [Blocks -> Locks]
      <4>1. block[r] + 1 \in 0 .. kBlocks
        BY <2>2 DEF Blocks
      <4> QED
        BY <1>1, <2>0, <2>1, <2>2, <4>1
    <3> QED
      BY <1>1, <1>4, <1>8, <1>10, <2>1, <3>1 DEF IInv, TypeOK, QueryTypeOK
  <2>4. QueryInv(Trainers)'
    BY <1>4, <1>6, <1>8, <1>10, <2>3, OtherStepInv DEF IInv, TypeOK
  <2>5. /\ current_cuts_ \in [0 .. kLockCnt -> 0 .. kBlocks]
        /\ current_cuts_[kLockCnt] = kBlocks
    BY <1>1 DEF Cuts
  <2>6. current_cuts_[l] <= block[r] /\ block[r] < current_cuts_[l + 1]
    <3>3. l >= lock_index[r]
      BY <2>0 DEF StopsAt
    <3>4. current_cuts_[l] <= block[r]
      <4>1. CASE l = lock_index[r]
        BY <1>1, <2>1, <4>1 DEF RefreshLoop
      <4>2. CASE l > lock_index[r]
        <5>1. l - 1 \in lock_index[r] .. l - 1 /\ (l - 1) + 1 = l
          BY <2>2, <4>2
        <5>2. block[r] >= current_cuts_[l]
          BY <2>0, <5>1 DEF StopsAt
        <5> QED
          BY <2>2, <2>5, <5>2
      <4> QED
        BY <2>2, <3>3, <4>1, <4>2
    <3>5. CASE l + 1 < kLockCnt
      BY <2>0, <3>4, <3>5 DEF StopsAt
    <3>6. CASE l + 1 = kLockCnt
      BY <2>2, <2>5, <3>4, <3>6 DEF Blocks
    <3> QED
      BY <2>2, <3>5, <3>6
  <2>7. \A b \in Blocks : b < block[r] + 1 =>
           /\ current_cuts_[block_to_lock_'[b]] <= b
           /\ b < current_cuts_[block_to_lock_'[b] + 1]
    BY <1>1, <2>0, <2>1, <2>2, <2>6 DEF RefreshLoop, Blocks
  <2>8. RefreshInv'
    <3>1. RefreshLoop(r)'
      <4>1. /\ block'[r] = block[r] + 1 /\ lock_index'[r] = l
            /\ tpc'[r] = "refresh" => block[r] + 1 < kBlocks
            /\ tpc'[r] \in {"refresh", "unlockcuts"}
        <5>1. block'[r] = block[r] + 1 /\ lock_index'[r] = l
          BY <1>1, <2>0, <2>1
        <5>2. block[r] # kBlocks - 1 => block[r] + 1 < kBlocks
          BY <2>2 DEF Blocks
        <5> QED
          BY <2>1, <5>1, <5>2
      <4>2. current_cuts_'[l] <= block[r] + 1
        BY <2>1, <2>2, <2>5, <2>6
      <4> QED
        BY <2>1, <2>7, <4>1, <4>2 DEF RefreshLoop, BeforeLoop, OutsideTraining
    <3>2. ASSUME NEW s \in Trainers, s # r PROVE RefreshLoop(s)'
      <4>1. RefreshLoop(s) /\ tpc'[s] = tpc[s] /\ tpc[s] # "refresh"
        BY <1>3, <1>4, <3>2 DEF IInv, RefreshInv, OutsideTraining
      <4> QED
        BY <1>1, <2>0, <2>1, <3>2, <4>1 DEF RefreshLoop
    <3>3. tpc'[r] # "refresh" => IsRefreshOf(block_to_lock_, current_cuts_)'
      BY <1>1, <2>1, <2>7 DEF IsRefreshOf, Blocks
    <3> QED
      BY <3>1, <3>2, <3>3 DEF RefreshInv
  <2> QED
    BY <1>5, <1>6, <1>8, <1>10, <2>3, <2>4, <2>8 DEF IInv
<1> QED
  BY <1>7, <1>9, <1>10

(* The end of a training: the locals of TrainOnBatch are gone.             *)
LEMMA CountTrainingInv ==
    ASSUME IInv, NEW r \in Trainers, CountTraining(r)
    PROVE  IInv'
<1> USE SizeAssumption
    DEF TGoto, Home, memberVars, localVars, loopVars, envVars, mapVars,
        queryVars, readerVars, sharedVars, publishedVars
<1>1. /\ tpc \in [Trainers -> TrainPC]
      /\ block \in [Trainers -> 0 .. kBlocks]
      /\ lock_index \in [Trainers -> Locks]
      /\ 0 \in Locks /\ 0 \in 0 .. kBlocks
      /\ training_count_ + 1 \in Nat
  BY DEF IInv, TypeOK, Locks
<1>2. /\ tpc[r] = "count" /\ tpc'[r] \in {"idle", "wait"}
      /\ block'[r] = 0 /\ lock_index'[r] = 0
      /\ \A s \in Trainers : s # r =>
            tpc'[s] = tpc[s] /\ block'[s] = block[s] /\ lock_index'[s] = lock_index[s]
      /\ UNCHANGED <<locks_, mapVars, pause_queries_, queryVars, readerVars,
                     tlocked>>
  BY <1>1 DEF CountTraining
<1>3. TypeOK'
  BY <1>1, UniformCutsType DEF IInv, TypeOK, QueryTypeOK, TrainPC, CountTraining
<1>4. MutexInv' /\ ServingInv' /\ TrainGuardInv'
  BY TrainControl DEF TrainStep
<1>5. QueryInv(Trainers)' /\ TrainOwnerInv'
  <2>1. QueryOwnerInv' /\ TrainOwnerInv'
    BY <1>2 DEF IInv, QueryInv, QueryOwnerInv, QueryHolds, TrainOwnerInv
  <2> QED
    BY <1>2, <1>3, <2>1, OtherStepInv DEF IInv, TypeOK
<1>6. EpochInv' /\ ReaderInv'
  BY <1>2 DEF IInv, EpochInv, Rewriting, ReaderInv, ReaderLookup
<1>7. RefreshInv'
  <2>1. RefreshLoop(r)'
    BY <1>2 DEF RefreshLoop
  <2>2. ASSUME NEW s \in Trainers, s # r PROVE RefreshLoop(s)'
    BY <1>2, <2>2 DEF IInv, RefreshInv, RefreshLoop
  <2>3. (\A s \in Trainers : tpc'[s] # "refresh")
          => IsRefreshOf(block_to_lock_, current_cuts_)'
    BY <1>2 DEF IInv, RefreshInv, IsRefreshOf
  <2> QED
    BY <2>1, <2>2, <2>3 DEF RefreshInv
<1> QED
  BY <1>3, <1>4, <1>5, <1>6, <1>7 DEF IInv

(* CountLocksForRange only reads.                                          *)
LEMMA ReaderStepInv ==
    ASSUME IInv, NEW c \in Readers, CountCall(c) \/ CountStep(c)
    PROVE  IInv'
<1> USE DEF CGoto
<1>1. UNCHANGED <<sharedVars, queryVars, trainVars>>
  BY DEF CountStep, CountCall, CountEpoch, CountLeft, CountRight, CountCompare
<1>2. /\ cpc \in [Readers -> {"idle", "epoch", "left", "right", "compare"}]
      /\ crequest \in [Readers -> Nat \X Nat] /\ cepoch \in [Readers -> Nat]
      /\ first_lock \in [Readers -> Locks] /\ last_lock \in [Readers -> Locks]
      /\ block_to_lock_ \in [Blocks -> Locks] /\ partition_epoch_ \in Nat
      /\ 0 \in Locks
  <2>1. 0 \in Locks
    BY SizeAssumption DEF Locks
  <2>2. TypeOK
    BY DEF IInv
  <2>3. block_to_lock_ \in [Blocks -> Locks] /\ partition_epoch_ \in Nat
    BY <2>2 DEF TypeOK, QueryTypeOK
  <2> QED
    BY <2>1, <2>2, <2>3 DEF TypeOK
<1>3. /\ block_to_lock_[PositionToBlock(ClampedLeft(crequest[c]))] \in Locks
      /\ block_to_lock_[PositionToBlock(ClampedRight(crequest[c]))] \in Locks
  BY <1>2, ClampedRange, PositionToBlockType
<1>4. /\ cpc' \in [Readers -> {"idle", "epoch", "left", "right", "compare"}]
      /\ crequest' \in [Readers -> Nat \X Nat] /\ cepoch' \in [Readers -> Nat]
      /\ first_lock' \in [Readers -> Locks] /\ last_lock' \in [Readers -> Locks]
  <2>1. CASE CountCall(c)
    BY <1>2, <2>1, QueryAssumption DEF CountCall
  <2>2. CASE CountEpoch(c)
    BY <1>2, <2>2 DEF CountEpoch
  <2>3. CASE CountLeft(c)
    BY <1>2, <1>3, <2>3 DEF CountLeft
  <2>4. CASE CountRight(c)
    BY <1>2, <1>3, <2>4 DEF CountRight
  <2>5. CASE CountCompare(c)
    <3>1. <<0, 0>> \in Nat \X Nat
      OBVIOUS
    <3> QED
      BY <1>2, <2>5, <3>1 DEF CountCompare
  <2> QED
    BY <2>1, <2>2, <2>3, <2>4, <2>5 DEF CountStep
<1>5. ReaderInv'
  <2>1. ReaderLookup(c) /\ UNCHANGED <<block_to_lock_, partition_epoch_>>
    BY <1>1 DEF IInv, ReaderInv, sharedVars, publishedVars
  <2>2. ReaderLookup(c)'
    <3>1. CASE CountCall(c)
      BY <1>2, <2>1, <3>1 DEF ReaderLookup, CountCall
    <3>2. CASE CountEpoch(c)
      BY <1>2, <2>1, <3>2 DEF ReaderLookup, CountEpoch
    <3>3. CASE CountLeft(c)
      BY <1>2, <2>1, <3>3 DEF ReaderLookup, CountLeft
    <3>4. CASE CountRight(c)
      BY <1>2, <2>1, <3>4 DEF ReaderLookup, CountRight
    <3>5. CASE CountCompare(c)
      BY <1>2, <2>1, <3>5 DEF ReaderLookup, CountCompare
    <3> QED
      BY <3>1, <3>2, <3>3, <3>4, <3>5 DEF CountStep
  <2>3. ASSUME NEW d \in Readers, d # c PROVE ReaderLookup(d)'
    <3>1. /\ cpc'[d] = cpc[d] /\ crequest'[d] = crequest[d]
          /\ cepoch'[d] = cepoch[d] /\ first_lock'[d] = first_lock[d]
          /\ last_lock'[d] = last_lock[d]
      BY <1>2, <2>3
      DEF CountStep, CountCall, CountEpoch, CountLeft, CountRight, CountCompare
    <3> QED
      BY <2>1, <3>1 DEF IInv, ReaderInv, ReaderLookup
  <2> QED
    BY <2>2, <2>3 DEF ReaderInv
<1>6. QueryInv(Trainers)'
  BY <1>1
  DEF IInv, sharedVars, publishedVars, queryVars, QueryInv, QueryTypeOK,
      QueryGuardInv, QueryGuard, QueryOwnerInv, QueryHolds, LookupInv, Lookup
<1>7. TypeOK'
  BY <1>1, <1>4, <1>6
  DEF IInv, TypeOK, QueryInv, trainVars, memberVars, localVars, loopVars
<1>8. /\ MutexInv' /\ ServingInv' /\ TrainGuardInv' /\ TrainOwnerInv'
      /\ EpochInv' /\ RefreshInv'
  BY <1>1
  DEF IInv, trainVars, memberVars, localVars, loopVars, sharedVars,
      publishedVars, queryVars, MutexInv, ServingInv, TrainGuardInv,
      TrainGuard, TrainOwnerInv, EpochInv, RefreshInv, RefreshLoop, IsRefreshOf
<1> QED
  BY <1>5, <1>6, <1>7, <1>8 DEF IInv

(* IInv is inductive: every step of the code preserves it.                 *)
LEMMA StepInv == IInv /\ [Next]_vars => IInv'
<1> SUFFICES ASSUME IInv, [Next]_vars PROVE IInv'
  OBVIOUS
<1>1. ASSUME NEW t \in Threads, WriteQueryCall(t) \/ WriteQueryStep(t)
      PROVE  IInv'
  BY <1>1, WriteQueryInv
<1>2. ASSUME NEW r \in Trainers, TrainStep(r) PROVE IInv'
  BY <1>2, QuietTrainInv, GuardStepsInv, PublishInv, CountTrainingInv
  DEF TrainStep
<1>3. ASSUME NEW c \in Readers, CountCall(c) \/ CountStep(c) PROVE IInv'
  BY <1>3, ReaderStepInv
<1>4. ASSUME \/ OpenQueries \/ CloseQueries \/ ObserveBatch \/ BatchTaken
             \/ StopLoop \/ StartRebuilder \/ StopRebuilder \/ SignalStop
             \/ Join
      PROVE  IInv'
  BY <1>4, ServiceInv
<1>5. CASE UNCHANGED vars
  <2>1. UNCHANGED <<sharedVars, queryVars, trainVars, readerVars>>
    BY <1>5 DEF vars
  <2>2. QueryInv(Trainers)'
    BY <2>1
    DEF IInv, sharedVars, publishedVars, queryVars, QueryInv, QueryTypeOK,
        QueryGuardInv, QueryGuard, QueryOwnerInv, QueryHolds, LookupInv, Lookup
  <2>3. TypeOK' /\ ReaderInv'
    BY <2>1, <2>2
    DEF IInv, TypeOK, QueryInv, trainVars, memberVars, localVars, loopVars,
        readerVars, ReaderInv, ReaderLookup, sharedVars, publishedVars
  <2>4. /\ MutexInv' /\ ServingInv' /\ TrainGuardInv' /\ TrainOwnerInv'
        /\ EpochInv' /\ RefreshInv'
    BY <2>1
    DEF IInv, trainVars, memberVars, localVars, loopVars, sharedVars,
        publishedVars, queryVars, MutexInv, ServingInv, TrainGuardInv,
        TrainGuard, TrainOwnerInv, EpochInv, RefreshInv, RefreshLoop,
        IsRefreshOf
  <2> QED
    BY <2>2, <2>3, <2>4 DEF IInv
<1> QED
  BY <1>1, <1>2, <1>3, <1>4, <1>5 DEF Next

(* IInv holds in every state of GeneticLock.                               *)
THEOREM InductiveInvariant == Spec => []IInv
  BY InitInv, StepInv, PTL DEF Spec

(* Type correctness of the members and locals of GeneticLock.              *)
THEOREM TypeCorrect == Spec => []TypeOK
<1>1. IInv => TypeOK
  BY DEF IInv
<1> QED
  BY <1>1, InductiveInvariant, PTL

(* A trainer that has found training_enabled_ clear and therefore rewrites *)
(* the map without the mutexes does so while no query is under way.        *)
THEOREM UnlockedPublishQuiet == Spec => []UnlockedPublishIsQuiet
<1>1. IInv => UnlockedPublishIsQuiet
  BY PublishAlone DEF UnlockedPublishIsQuiet
<1> QED
  BY <1>1, InductiveInvariant, PTL

(* Whoever gets cuts_mutex_, as PartitionCuts does, finds the cuts of the  *)
(* map that queries use.                                                   *)
THEOREM CutsAndMapAgree == Spec => []CutsMatchMap
<1>1. IInv => CutsMatchMap
  BY Distinct DEF IInv, MutexInv, RefreshInv, CutsMatchMap
<1> QED
  BY <1>1, InductiveInvariant, PTL

(* CountLocksForRange, which takes no lock at all, returns the number of   *)
(* partitions that its range meets: the epoch it compares is even and has  *)
(* not changed, so both entries come from the complete map of the cuts.    *)
THEOREM CountExact == Spec => []CountIsExact
<1>1. IInv => CountIsExact
  <2> SUFFICES ASSUME IInv, NEW c \in Readers, cpc[c] = "compare",
                      CountAccepted(c)
               PROVE  last_lock[c] - first_lock[c] + 1 =
                        Cardinality(LocksMeeting(current_cuts_,
                          ClampedLeft(crequest[c]), ClampedRight(crequest[c])))
    BY DEF CountIsExact
  <2>1. /\ first_lock[c] =
             block_to_lock_[PositionToBlock(ClampedLeft(crequest[c]))]
        /\ last_lock[c] =
             block_to_lock_[PositionToBlock(ClampedRight(crequest[c]))]
        /\ partition_epoch_ % 2 = 0
    BY DEF IInv, ReaderInv, ReaderLookup, CountAccepted
  <2>2. IsRefreshOf(block_to_lock_, current_cuts_)
    BY <2>1 DEF IInv, EpochInv, RefreshInv, Rewriting
  <2>3. /\ current_cuts_ \in Cuts /\ block_to_lock_ \in [Blocks -> Locks]
        /\ crequest[c] \in Nat \X Nat
    BY DEF IInv, TypeOK, QueryTypeOK
  <2> QED
    BY <2>1, <2>2, <2>3, LocksMeetingCount
<1> QED
  BY <1>1, InductiveInvariant, PTL

(* In an IInv state the map is complete whenever the epoch is even, so the *)
(* lemmas about the query protocol apply.                                  *)
LEMMA InvGivesExclusion == IInv => HoldsCurrentLocks /\ RangeExclusion
<1> SUFFICES ASSUME IInv PROVE HoldsCurrentLocks /\ RangeExclusion
  OBVIOUS
<1>1. /\ QueryInv(Trainers) /\ QueryTypeOK(Trainers) /\ current_cuts_ \in Cuts
      /\ partition_epoch_ % 2 = 0 => IsRefreshOf(block_to_lock_, current_cuts_)
  BY DEF IInv, TypeOK, EpochInv, RefreshInv, Rewriting
<1>2. HoldsCurrentLocks
  BY <1>1, ValidatedLookup
<1>3. RangeExclusion
  BY <1>1, <1>2, OwnersDisjoint
<1> QED
  BY <1>2, <1>3

(* The lock-free lookup of WriteQuery is sound here as well: func only     *)
(* ever runs while its thread owns the lock of each block of its range.    *)
THEOREM LookupSound == Spec => []HoldsCurrentLocks
  BY InvGivesExclusion, InductiveInvariant, PTL

(* WriteQuery never lets two threads run func over overlapping ranges,     *)
(* whatever the trainers do.                                               *)
THEOREM Exclusion == Spec => []RangeExclusion
  BY InvGivesExclusion, InductiveInvariant, PTL

(* GeneticLock implements the abstract range lock, whatever cuts training  *)
(* comes up with and whenever it installs them.                            *)
THEOREM Refinement == Spec => RangeLockSpec
<1>1. Init => RL!Init
  BY DEF Init, QueryInit, RL!Init, running
<1>2. IInv /\ RangeExclusion' /\ [Next]_vars => [RL!Next]_running
  <2> SUFFICES ASSUME IInv, RangeExclusion', [Next]_vars PROVE [RL!Next]_running
    OBVIOUS
  <2>1. ASSUME NEW t \in Threads, WriteQueryCall(t) \/ WriteQueryStep(t)
        PROVE  [RL!Next]_running
    BY <2>1, QueryRefines DEF IInv, WriteQueryCall, WriteQueryStep
  <2>2. CASE UNCHANGED queryVars
    BY <2>2 DEF queryVars, running
  <2>3. ASSUME NEW r \in Trainers, TrainStep(r) PROVE UNCHANGED queryVars
    BY <2>3
    DEF envVars, TrainStep, LockTraining, SameCuts, NewCuts, LoadEnabled,
        SetPause, LockAllNext, EpochOdd, MoveCuts, StoreBlock, UnlockCuts,
        EpochEven, UnlockAllLast, ClearPause, CountTraining
  <2>4. ASSUME NEW c \in Readers, CountCall(c) \/ CountStep(c)
        PROVE  UNCHANGED queryVars
    BY <2>4
    DEF CountStep, CountCall, CountEpoch, CountLeft, CountRight, CountCompare
  <2>5. ASSUME \/ OpenQueries \/ CloseQueries \/ ObserveBatch \/ BatchTaken
               \/ StopLoop \/ StartRebuilder \/ StopRebuilder \/ SignalStop
               \/ Join
        PROVE  UNCHANGED queryVars
    BY <2>5
    DEF envVars, OpenQueries, CloseQueries, ObserveBatch, BatchTaken,
        StopLoop, StartRebuilder, StopRebuilder, SignalStop, Join
  <2>6. CASE UNCHANGED vars
    BY <2>2, <2>6 DEF vars
  <2> QED
    BY <2>1, <2>2, <2>3, <2>4, <2>5, <2>6 DEF Next
<1> QED
  BY <1>1, <1>2, Exclusion, InductiveInvariant, PTL
  DEF Spec, RangeLockSpec, RL!Spec

(* No training that is over has left pause_queries_ set: the only step out *)
(* of the part of TrainOnBatch that may have set it is the one that clears *)
(* it, whether or not this training had set it.                            *)
THEOREM PauseOwned == Spec => []PauseIsOwned
<1>1. Init => PauseIsOwned
  BY DEF Init, QueryInit, PauseIsOwned
<1>2. TypeOK /\ PauseIsOwned /\ [Next]_vars => PauseIsOwned'
  <2> SUFFICES ASSUME TypeOK, PauseIsOwned, [Next]_vars PROVE PauseIsOwned'
    OBVIOUS
  <2> USE DEF TGoto, Home, envVars, sharedVars, publishedVars
  <2>1. tpc \in [Trainers -> TrainPC]
    BY DEF TypeOK
  <2>2. CASE /\ UNCHANGED pause_queries_
             /\ \A s \in Trainers : tpc[s] \in Pausing => tpc'[s] \in Pausing
    BY <2>2 DEF PauseIsOwned
  <2>3. ASSUME NEW t \in Threads, WriteQueryCall(t) \/ WriteQueryStep(t)
        PROVE  UNCHANGED <<pause_queries_, tpc>>
    BY <2>3
    DEF WriteQueryCall, WriteQueryStep, trainVars, Call, QueryStep,
        WaitPause, LoadEpoch, LoadLeft, LoadRight, LockNext, Validate,
        FuncDone, UnlockLast
  <2>4. ASSUME NEW r \in Trainers, TrainStep(r) PROVE PauseIsOwned'
    <3>1. CASE SetPause(r)
      BY <2>1, <3>1 DEF SetPause, PauseIsOwned, Pausing
    <3>2. CASE ClearPause(r)
      BY <3>2 DEF ClearPause, PauseIsOwned
    <3>3. ASSUME ~SetPause(r), ~ClearPause(r)
          PROVE  /\ UNCHANGED pause_queries_
                 /\ \A s \in Trainers :
                      tpc[s] \in Pausing => tpc'[s] \in Pausing
      BY <2>1, <2>4, <3>3
      DEF Pausing, Publishing, TrainStep, LockTraining, SameCuts, NewCuts,
          LoadEnabled, LockAllNext, EpochOdd, MoveCuts, StoreBlock,
          UnlockCuts, EpochEven, UnlockAllLast, CountTraining
    <3> QED
      BY <2>2, <3>1, <3>2, <3>3
  <2>5. ASSUME NEW c \in Readers, CountCall(c) \/ CountStep(c)
        PROVE  UNCHANGED <<pause_queries_, tpc>>
    BY <2>5
    DEF trainVars, CountStep, CountCall, CountEpoch, CountLeft, CountRight,
        CountCompare
  <2>6. ASSUME \/ OpenQueries \/ CloseQueries \/ ObserveBatch \/ BatchTaken
               \/ StopLoop \/ StartRebuilder \/ StopRebuilder \/ SignalStop
               \/ Join
        PROVE  /\ UNCHANGED pause_queries_
               /\ \A s \in Trainers :
                    tpc[s] \in Pausing => tpc'[s] \in Pausing
    BY <2>1, <2>6, Distinct
    DEF Pausing, Publishing, OpenQueries, CloseQueries, ObserveBatch,
        BatchTaken, StopLoop, StartRebuilder, StopRebuilder, SignalStop, Join
  <2>7. CASE UNCHANGED vars
    BY <2>2, <2>7 DEF vars, trainVars
  <2> QED
    BY <2>2, <2>3, <2>4, <2>5, <2>6, <2>7 DEF Next
<1> QED
  BY <1>1, <1>2, TypeCorrect, PTL DEF Spec
=============================================================================
