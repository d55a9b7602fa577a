---------------------------- MODULE GeneticLock ----------------------------
(***************************************************************************)
(* GeneticLock<kLockCnt, kBlocks, Mutex>: the query protocol of EpochQuery *)
(* together with those who install the cuts that the genetic partitioner   *)
(* comes up with: the training thread and the owner's ObserveBatch.  Which *)
(* cuts come out of training is left open; how samples reach the training  *)
(* thread is in GeneticTraining.tla.                                       *)
(*                                                                         *)
(* TrainOnBatch takes the mutexes only if training_enabled_ is set, and    *)
(* relies on its clients otherwise.  The clients modelled are the ones in  *)
(* the repository: the owner lets no query run while it is inside          *)
(* ObserveBatch or StopRebuilder (the benchmarks and the adapter join      *)
(* their workers first), and nobody calls SetTrainingEnabled.              *)
(***************************************************************************)
EXTENDS EpochQuery, FiniteSets

CONSTANTS
    owner,              \* the thread that owns the object
    training_thread_,   \* the thread of StartRebuilder
    Readers,            \* threads that call CountLocksForRange
    MaxTrainings        \* bound: how many new partitionings are installed

Trainers == {owner, training_thread_}

ASSUME TrainerAssumption ==
    /\ owner # training_thread_
    /\ Trainers \cap (Threads \cup {NoOne}) = {}
    /\ MaxTrainings \in Nat

VARIABLES
    \* members of the object besides those of EpochQuery
    current_cuts_, training_enabled_, stop_training_thread_,
    training_mutex_, cuts_mutex_, training_count_,
    \* locals of TrainOnBatch in each trainer, with its control point
    tpc, next_cuts, concurrent_queries, block, lock_index, tlocked,
    \* locals of CountLocksForRange in each reader, with its control point
    cpc, crequest, cepoch, first_lock, last_lock,
    \* whether the owner lets queries run
    serving

memberVars  == <<training_enabled_, stop_training_thread_, training_mutex_,
                 cuts_mutex_, training_count_>>
mapVars     == <<block_to_lock_, current_cuts_, partition_epoch_>>
loopVars    == <<block, lock_index>>
localVars   == <<next_cuts, concurrent_queries, loopVars, tlocked>>
readerVars  == <<cpc, crequest, cepoch, first_lock, last_lock>>
envVars     == <<queryVars, readerVars, serving>>
trainVars   == <<current_cuts_, memberVars, tpc, localVars, serving>>
vars        == <<sharedVars, queryVars, trainVars, readerVars>>

TrainPC == {"none", "idle", "wait", "exited", "signal", "join", "mutex",
            "observe", "enabled", "pause", "lockall", "odd", "cuts",
            "refresh", "unlockcuts", "even", "unlockall", "clearpause",
            "count"}

(* Where a trainer is when it is in none of its operations.                *)
Home(r) == IF r = owner THEN "idle" ELSE "wait"

Init ==
    /\ QueryInit
    /\ current_cuts_ = UniformCuts
    /\ training_enabled_ = FALSE
    /\ stop_training_thread_ = FALSE
    /\ training_mutex_ = NoOne
    /\ cuts_mutex_ = NoOne
    /\ training_count_ = 0
    /\ tpc = [r \in Trainers |-> IF r = owner THEN "idle" ELSE "none"]
    /\ next_cuts = [r \in Trainers |-> UniformCuts]
    /\ concurrent_queries = [r \in Trainers |-> FALSE]
    /\ block = [r \in Trainers |-> 0]
    /\ lock_index = [r \in Trainers |-> 0]
    /\ tlocked = [r \in Trainers |-> 0]
    /\ cpc = [c \in Readers |-> "idle"]
    /\ crequest \in [Readers -> {<<0, 0>>}]
    /\ cepoch = [c \in Readers |-> 0]
    /\ first_lock = [c \in Readers |-> 0]
    /\ last_lock = [c \in Readers |-> 0]
    /\ serving = FALSE

-----------------------------------------------------------------------------
(* The owner's clients: queries run between OpenQueries and CloseQueries.  *)

OpenQueries ==
    /\ tpc[owner] = "idle"
    /\ ~serving
    /\ serving' = TRUE
    /\ UNCHANGED <<sharedVars, queryVars, current_cuts_, memberVars, tpc,
                   localVars, readerVars>>

(* Mutant: the workers are not joined.                                     *)
CloseQueriesAnyway ==
    /\ serving
    /\ serving' = FALSE
    /\ UNCHANGED <<sharedVars, queryVars, current_cuts_, memberVars, tpc,
                   localVars, readerVars>>

(* The workers have returned from their last query and are joined.         *)
CloseQueries ==
    /\ serving
    /\ \A t \in Threads : qpc[t] = "idle"
    /\ serving' = FALSE
    /\ UNCHANGED <<sharedVars, queryVars, current_cuts_, memberVars, tpc,
                   localVars, readerVars>>

WriteQueryCall(t) ==
    /\ serving
    /\ Call(t)
    /\ UNCHANGED <<trainVars, readerVars>>

WriteQueryStep(t) == QueryStep(t) /\ UNCHANGED <<trainVars, readerVars>>

-----------------------------------------------------------------------------
(* TrainOnBatch                                                            *)

TGoto(r, from, to) == tpc[r] = from /\ tpc' = [tpc EXCEPT ![r] = to]

LockTraining(r) ==
    /\ TGoto(r, "mutex", "observe")
    /\ training_mutex_ = NoOne
    /\ training_mutex_' = r
    /\ UNCHANGED <<sharedVars, current_cuts_, training_enabled_,
                   stop_training_thread_, cuts_mutex_, training_count_,
                   localVars, envVars>>

(* The partitioner's cuts are the old ones, or ObserveBatch found too      *)
(* little skew: nothing is installed.                                      *)
SameCuts(r) ==
    /\ TGoto(r, "observe", Home(r))
    /\ training_mutex_' = NoOne
    /\ UNCHANGED <<sharedVars, current_cuts_, training_enabled_,
                   stop_training_thread_, cuts_mutex_, training_count_,
                   localVars, envVars>>

(* What the partitioner may come up with, see GeneticPartitioner.tla.      *)
TrainedCuts == Cuts

NewCuts(r) ==
    /\ TGoto(r, "observe", "enabled")
    /\ training_count_ < MaxTrainings
    /\ \E cuts \in TrainedCuts \ {current_cuts_} :
          next_cuts' = [next_cuts EXCEPT ![r] = cuts]
    /\ UNCHANGED <<sharedVars, current_cuts_, memberVars, concurrent_queries,
                   loopVars, tlocked, envVars>>

LoadEnabled(r) ==
    /\ TGoto(r, "enabled", IF training_enabled_ THEN "pause" ELSE "odd")
    /\ concurrent_queries' = [concurrent_queries EXCEPT
                                ![r] = training_enabled_]
    /\ UNCHANGED <<sharedVars, current_cuts_, memberVars, next_cuts, loopVars,
                   tlocked, envVars>>

(* Mutant: queries are not held back.                                      *)
SetPauseForgotten(r) ==
    /\ TGoto(r, "pause", "lockall")
    /\ UNCHANGED <<sharedVars, current_cuts_, memberVars, localVars, envVars>>

SetPause(r) ==
    /\ TGoto(r, "pause", "lockall")
    /\ pause_queries_' = TRUE
    /\ UNCHANGED <<locks_, mapVars, memberVars, localVars, envVars>>

(* Mutant: off by one, the last lock is not taken.                         *)
LastLockButOne == kLockCnt - 2

(* RangeLockGuard all_locks(locks_, 0, kLockCnt - 1)                       *)
LastLock == kLockCnt - 1

LockAllNext(r) ==
    /\ TGoto(r, "lockall", IF tlocked[r] = LastLock THEN "odd" ELSE "lockall")
    /\ locks_[tlocked[r]] = NoOne
    /\ locks_' = [locks_ EXCEPT ![tlocked[r]] = r]
    /\ tlocked' = [tlocked EXCEPT ![r] = @ + 1]
    /\ UNCHANGED <<publishedVars, current_cuts_, memberVars, next_cuts,
                   concurrent_queries, loopVars, envVars>>

(* publish_partition: odd epoch; cuts and map under cuts_mutex_; even.     *)
EpochOdd(r) ==
    /\ TGoto(r, "odd", "cuts")
    /\ partition_epoch_' = partition_epoch_ + 1
    /\ UNCHANGED <<locks_, block_to_lock_, pause_queries_, current_cuts_,
                   memberVars, localVars, envVars>>

(* Mutant: the new cuts are stored before cuts_mutex_ is taken.            *)
MoveCutsUnlocked(r) ==
    /\ TGoto(r, "cuts", "refresh")
    /\ current_cuts_' = next_cuts[r]
    /\ UNCHANGED <<sharedVars, memberVars, localVars, envVars>>

MoveCuts(r) ==
    /\ TGoto(r, "cuts", "refresh")
    /\ cuts_mutex_ = NoOne
    /\ cuts_mutex_' = r
    /\ current_cuts_' = next_cuts[r]
    /\ UNCHANGED <<sharedVars, training_enabled_, stop_training_thread_,
                   training_mutex_, training_count_, localVars, envVars>>

(* RefreshBlockToLock: lock_index is advanced to the lock of the block,    *)
(* then the entry is stored.                                               *)
StopsAt(r, l) ==
    /\ l >= lock_index[r]
    /\ \A k \in lock_index[r] .. l - 1 : block[r] >= current_cuts_[k + 1]
    /\ l + 1 < kLockCnt => block[r] < current_cuts_[l + 1]

StoreBlock(r) ==
    /\ TGoto(r, "refresh", IF block[r] = kBlocks - 1 THEN "unlockcuts"
                                                     ELSE "refresh")
    /\ \E l \in Locks :
          /\ StopsAt(r, l)
          /\ lock_index' = [lock_index EXCEPT ![r] = l]
          /\ block_to_lock_' = [block_to_lock_ EXCEPT ![block[r]] = l]
    /\ block' = [block EXCEPT ![r] = @ + 1]
    /\ UNCHANGED <<locks_, partition_epoch_, pause_queries_, current_cuts_,
                   memberVars, next_cuts, concurrent_queries, tlocked,
                   envVars>>

UnlockCuts(r) ==
    /\ TGoto(r, "unlockcuts", "even")
    /\ cuts_mutex_' = NoOne
    /\ UNCHANGED <<sharedVars, current_cuts_, training_enabled_,
                   stop_training_thread_, training_mutex_, training_count_,
                   localVars, envVars>>

(* Mutant: the epoch stays odd.                                            *)
EpochEvenForgotten(r) ==
    /\ TGoto(r, "even", IF concurrent_queries[r] THEN "unlockall"
                                                 ELSE "clearpause")
    /\ UNCHANGED <<sharedVars, current_cuts_, memberVars, localVars, envVars>>

EpochEven(r) ==
    /\ TGoto(r, "even", IF concurrent_queries[r] THEN "unlockall"
                                                 ELSE "clearpause")
    /\ partition_epoch_' = partition_epoch_ + 1
    /\ UNCHANGED <<locks_, block_to_lock_, pause_queries_, current_cuts_,
                   memberVars, localVars, envVars>>

UnlockAllLast(r) ==
    /\ TGoto(r, "unlockall", IF tlocked[r] = 1 THEN "clearpause"
                                               ELSE "unlockall")
    /\ locks_' = [locks_ EXCEPT ![tlocked[r] - 1] = NoOne]
    /\ tlocked' = [tlocked EXCEPT ![r] = @ - 1]
    /\ UNCHANGED <<publishedVars, current_cuts_, memberVars, next_cuts,
                   concurrent_queries, loopVars, envVars>>

(* Mutant: the pause is lifted only by those who need not have set it.     *)
ClearPauseIfAlone(r) ==
    /\ TGoto(r, "clearpause", "count")
    /\ pause_queries_' = (pause_queries_ /\ concurrent_queries[r])
    /\ UNCHANGED <<locks_, mapVars, memberVars, localVars, envVars>>

ClearPause(r) ==
    /\ TGoto(r, "clearpause", "count")
    /\ pause_queries_' = FALSE
    /\ UNCHANGED <<locks_, mapVars, memberVars, localVars, envVars>>

(* The training is counted, training_mutex_ released, the locals are gone. *)
CountTraining(r) ==
    /\ TGoto(r, "count", Home(r))
    /\ training_count_' = training_count_ + 1
    /\ training_mutex_' = NoOne
    /\ next_cuts' = [next_cuts EXCEPT ![r] = UniformCuts]
    /\ concurrent_queries' = [concurrent_queries EXCEPT ![r] = FALSE]
    /\ block' = [block EXCEPT ![r] = 0]
    /\ lock_index' = [lock_index EXCEPT ![r] = 0]
    /\ UNCHANGED <<sharedVars, current_cuts_, training_enabled_,
                   stop_training_thread_, cuts_mutex_, tlocked, envVars>>

TrainStep(r) ==
    \/ LockTraining(r) \/ SameCuts(r) \/ NewCuts(r) \/ LoadEnabled(r)
    \/ SetPause(r) \/ LockAllNext(r) \/ EpochOdd(r) \/ MoveCuts(r)
    \/ StoreBlock(r) \/ UnlockCuts(r) \/ EpochEven(r) \/ UnlockAllLast(r)
    \/ ClearPause(r) \/ CountTraining(r)

-----------------------------------------------------------------------------
(* Who calls TrainOnBatch, and who starts and stops the training thread    *)

ObserveBatch ==
    /\ ~serving
    /\ TGoto(owner, "idle", "mutex")
    /\ UNCHANGED <<sharedVars, current_cuts_, memberVars, localVars, envVars>>

(* TrainingLoop: a batch with enough skew has been taken from the queue.   *)
BatchTaken ==
    /\ TGoto(training_thread_, "wait", "mutex")
    /\ UNCHANGED <<sharedVars, current_cuts_, memberVars, localVars, envVars>>

StopLoop ==
    /\ TGoto(training_thread_, "wait", "exited")
    /\ stop_training_thread_
    /\ UNCHANGED <<sharedVars, current_cuts_, memberVars, localVars, envVars>>

StartRebuilder ==
    /\ tpc[owner] = "idle"
    /\ TGoto(training_thread_, "none", "wait")
    /\ ~serving
    /\ stop_training_thread_' = FALSE
    /\ training_enabled_' = TRUE
    /\ UNCHANGED <<sharedVars, current_cuts_, training_mutex_, cuts_mutex_,
                   training_count_, localVars, envVars>>

StopRebuilder ==
    /\ ~serving
    /\ TGoto(owner, "idle", "signal")
    /\ training_enabled_' = FALSE
    /\ UNCHANGED <<sharedVars, current_cuts_, stop_training_thread_,
                   training_mutex_, cuts_mutex_, training_count_, localVars,
                   envVars>>

SignalStop ==
    /\ TGoto(owner, "signal", IF tpc[training_thread_] = "none" THEN "idle"
                                                                ELSE "join")
    /\ stop_training_thread_' = TRUE
    /\ UNCHANGED <<sharedVars, current_cuts_, training_enabled_,
                   training_mutex_, cuts_mutex_, training_count_, localVars,
                   envVars>>

Join ==
    /\ tpc[owner] = "join"
    /\ tpc[training_thread_] = "exited"
    /\ tpc' = [tpc EXCEPT ![owner] = "idle", ![training_thread_] = "none"]
    /\ UNCHANGED <<sharedVars, current_cuts_, memberVars, localVars, envVars>>

-----------------------------------------------------------------------------
(* CountLocksForRange: like a query, but it holds no lock when it compares *)
(* the epochs.                                                             *)

CGoto(c, from, to) == cpc[c] = from /\ cpc' = [cpc EXCEPT ![c] = to]

CountCall(c) ==
    /\ CGoto(c, "idle", "epoch")
    /\ \E request \in Requests : crequest' = [crequest EXCEPT ![c] = request]
    /\ UNCHANGED <<sharedVars, queryVars, trainVars, cepoch, first_lock,
                   last_lock>>

CountEpoch(c) ==
    /\ CGoto(c, "epoch", IF partition_epoch_ % 2 # 0 THEN "epoch" ELSE "left")
    /\ cepoch' = [cepoch EXCEPT ![c] = partition_epoch_]
    /\ UNCHANGED <<sharedVars, queryVars, trainVars, crequest, first_lock,
                   last_lock>>

CountLeft(c) ==
    /\ CGoto(c, "left", "right")
    /\ first_lock' = [first_lock EXCEPT ![c] =
          block_to_lock_[PositionToBlock(ClampedLeft(crequest[c]))]]
    /\ UNCHANGED <<sharedVars, queryVars, trainVars, crequest, cepoch,
                   last_lock>>

CountRight(c) ==
    /\ CGoto(c, "right", "compare")
    /\ last_lock' = [last_lock EXCEPT ![c] =
          block_to_lock_[PositionToBlock(ClampedRight(crequest[c]))]]
    /\ UNCHANGED <<sharedVars, queryVars, trainVars, crequest, cepoch,
                   first_lock>>

(* Mutant: it is enough that no rewriting is under way.                    *)
CountAcceptedIfEven(c) ==
    partition_epoch_ % 2 = 0 /\ first_lock[c] <= last_lock[c]

CountAccepted(c) ==
    /\ cepoch[c] = partition_epoch_
    /\ partition_epoch_ % 2 = 0
    /\ first_lock[c] <= last_lock[c]

(* It returns last_lock - first_lock + 1, or starts over.                  *)
CountCompare(c) ==
    /\ CGoto(c, "compare", IF CountAccepted(c) THEN "idle" ELSE "epoch")
    /\ crequest' = [crequest EXCEPT ![c] = IF CountAccepted(c) THEN <<0, 0>>
                                                               ELSE @]
    /\ cepoch' = [cepoch EXCEPT ![c] = 0]
    /\ first_lock' = [first_lock EXCEPT ![c] = 0]
    /\ last_lock' = [last_lock EXCEPT ![c] = 0]
    /\ UNCHANGED <<sharedVars, queryVars, trainVars>>

CountStep(c) ==
    CountEpoch(c) \/ CountLeft(c) \/ CountRight(c) \/ CountCompare(c)

Next ==
    \/ \E t \in Threads : WriteQueryCall(t) \/ WriteQueryStep(t)
    \/ \E r \in Trainers : TrainStep(r)
    \/ \E c \in Readers : CountCall(c) \/ CountStep(c)
    \/ OpenQueries \/ CloseQueries \/ ObserveBatch \/ BatchTaken \/ StopLoop
    \/ StartRebuilder \/ StopRebuilder \/ SignalStop \/ Join

Spec == Init /\ [][Next]_vars

(* A thread inside an operation keeps being scheduled and func returns;    *)
(* nothing is assumed about who wins a contended mutex.                    *)
Fairness ==
    /\ \A t \in Threads : WF_vars(WriteQueryStep(t))
    /\ \A r \in Trainers : WF_vars(TrainStep(r))

FairSpec == Spec /\ Fairness

-----------------------------------------------------------------------------
(* Properties (besides those of EpochQuery)                                *)

(* The cuts that PartitionCuts hands out under cuts_mutex_ are those of    *)
(* the map by which queries choose their locks.                            *)
CutsMatchMap == cuts_mutex_ = NoOne => IsRefreshOf(block_to_lock_, current_cuts_)

(* A count is returned only if it is the number of partitions that the     *)
(* range meets, although CountLocksForRange holds no lock at all.          *)
CountIsExact ==
    \A c \in Readers :
        cpc[c] = "compare" /\ CountAccepted(c) =>
            last_lock[c] - first_lock[c] + 1 =
                Cardinality(LocksMeeting(current_cuts_,
                                         ClampedLeft(crequest[c]),
                                         ClampedRight(crequest[c])))

(* A trainer that installs cuts without the locks, because it has found    *)
(* training_enabled_ clear, is alone: no query is under way.               *)
Publishing == {"odd", "cuts", "refresh", "unlockcuts", "even"}
UnlockedPublishIsQuiet ==
    \A r \in Trainers :
        tpc[r] \in Publishing /\ ~concurrent_queries[r]
            => \A t \in Threads : qpc[t] = "idle"

(* pause_queries_ is never left set by a training that is over.            *)
Pausing == {"lockall", "unlockall", "clearpause"} \cup Publishing
PauseIsOwned == pause_queries_ => \E r \in Trainers : tpc[r] \in Pausing

(* A training with new cuts gets all the locks and ends, although queries  *)
(* keep arriving.                                                          *)
TrainingCompletes ==
    \A r \in Trainers : tpc[r] = "enabled" ~> tpc[r] = Home(r)

(* Whatever the trainers do and however often, queries are let in again:   *)
(* they need the pause lifted and an even epoch at the same time.          *)
QueriesAdmitted == []<>(~pause_queries_ /\ partition_epoch_ % 2 = 0)
=============================================================================
