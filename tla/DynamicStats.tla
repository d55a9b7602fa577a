---------------------------- MODULE DynamicStats ----------------------------
(***************************************************************************)
(* From what DynamicLock computes its partitionings: the hits per block    *)
(* and the crossings per boundary between blocks that sampled queries      *)
(* leave behind, the decision whether to rebuild, the dynamic program that *)
(* finds the cheapest partitioning, and the decision whether it is cheap   *)
(* enough to be installed.                                                 *)
(*                                                                         *)
(* No counter is read, incremented or reset together with another: each    *)
(* fetch_add of UpdateStats, each load of a snapshot and each store of a   *)
(* reset is a step of its own.  They are relaxed, and are taken in program *)
(* order here, as x86-64 makes them visible.  The rest of the queries and  *)
(* of the rebuilds (epoch, pause, map) is in DynamicLock.tla; here a query *)
(* has its locks from the first fetch_add to the last.                     *)
(*                                                                         *)
(* Whether the statistics have changed more than the threshold since the   *)
(* last time (a sum of quotients of doubles in the code) is left open, and *)
(* with it last_stats_, which serves nothing else.                         *)
(***************************************************************************)
EXTENDS BlockMap, FiniteSetsExt, Functions

CONSTANTS
    Samplers,                   \* the threads whose queries are sampled
    Callers,                    \* the threads that call RebuildNow
    Savers,                     \* the threads that call ForceSaveStats
    rebuild_thread_,            \* the background thread of StartRebuilder
    Nobody,                     \* the owner of a free mutex
    Ranges,                     \* the pairs <<left, right>> that are queried
    kBoundaryCrossingPenalty,   \* cost of a query split by a cut
    kMinOps,                    \* hits below which nothing is done (1000)
    MinSkew,                    \* min_rebuild_skew_, a whole number
    GainNum, GainDen,           \* min_rebuild_gain_ = GainNum / GainDen
    MaxHits                     \* bound: a block with so many hits gets no more

Rebuilders == Callers \cup Savers \cup {rebuild_thread_}

ASSUME StatsAssumption ==
    /\ Nobody \notin Rebuilders
    /\ Ranges \subseteq Nat \X Nat
    /\ kBoundaryCrossingPenalty \in Nat
    /\ kMinOps \in Nat \ {0} /\ MinSkew \in Nat \ {0} /\ MaxHits \in Nat
    /\ GainDen \in Nat \ {0} /\ GainNum \in Nat /\ GainNum >= GainDen

VARIABLES
    \* members of the object
    stats_, boundary_crossings_, partitions_, collect_stats_, rebuild_flag_,
    stats_mutex_,
    \* where each sampler is in UpdateStats
    update,
    \* control point and locals of each rebuilder
    rpc,
    cursor,           \* i of the loop it is in
    after,            \* where it goes on after a reset
    current_stats, current_boundary_crossings, new_partitions,
    rlocked           \* how many of the locks it has

counterVars  == <<stats_, boundary_crossings_>>
flagVars     == <<collect_stats_, rebuild_flag_>>
snapshotVars == <<current_stats, current_boundary_crossings>>
planVars     == <<new_partitions, rlocked>>
statsVars == <<counterVars, partitions_, flagVars, stats_mutex_, update, rpc,
               cursor, after, snapshotVars, planVars>>

Nothing == [b \in Blocks |-> 0]
Total(f) == FoldFunction(+, 0, f)

NoUpdate == [phase |-> "out", left |-> 0, right |-> 0, at |-> 0]

StatsInit ==
    /\ stats_ = Nothing
    /\ boundary_crossings_ = Nothing
    /\ partitions_ = UniformCuts
    /\ collect_stats_ = FALSE
    /\ rebuild_flag_ = FALSE
    /\ stats_mutex_ = Nobody
    /\ update = [t \in Samplers |-> NoUpdate]
    /\ rpc = [r \in Rebuilders |-> IF r = rebuild_thread_ THEN "none"
                                                          ELSE "idle"]
    /\ cursor = [r \in Rebuilders |-> 0]
    /\ after = [r \in Rebuilders |-> "idle"]
    /\ current_stats = [r \in Rebuilders |-> Nothing]
    /\ current_boundary_crossings = [r \in Rebuilders |-> Nothing]
    /\ new_partitions = [r \in Rebuilders |-> UniformCuts]
    /\ rlocked = [r \in Rebuilders |-> 0]

-----------------------------------------------------------------------------
(* OptimizePartitions and its costs                                        *)

prefix_sum(stats) ==
    LET sum[i \in 0 .. kBlocks] ==
            IF i = 0 THEN 0 ELSE sum[i - 1] + stats[i - 1]
    IN  sum

(* Cost of one partition: the square of its hits, and a penalty for every  *)
(* query that its left border splits.                                      *)
PieceCost(prefix, crossings, lo, hi) ==
    (prefix[hi] - prefix[lo]) * (prefix[hi] - prefix[lo])
      + IF lo = 0 THEN 0 ELSE kBoundaryCrossingPenalty * crossings[lo]

PartitionCost(cuts, stats, crossings) ==
    LET prefix == prefix_sum(stats) IN
    MapThenSumSet(LAMBDA l : PieceCost(prefix, crossings, cuts[l], cuts[l + 1]),
                  Locks)

(* Mutant: the innermost loop begins one block too late.                   *)
LeftEndsTooLate(right, locks) ==
    {lo \in 0 .. right - 1 : IF locks = 1 THEN lo = 0 ELSE lo >= locks}

(* The range of the innermost loop, without the entries that are infinite: *)
(* left blocks cannot be split into locks - 1 nonempty partitions.         *)
LeftEnds(right, locks) ==
    {lo \in 0 .. right - 1 : IF locks = 1 THEN lo = 0 ELSE lo >= locks - 1}

(* dp[locks][right]: the cost of the best division of the first right      *)
(* blocks into locks partitions, and where the last of these begins.  The  *)
(* first of several equally good ones is kept.                             *)
BestSplits(stats, crossings) ==
    LET prefix == prefix_sum(stats)
        dp[locks \in 0 .. kLockCnt] ==
            [right \in 0 .. kBlocks |->
                IF locks = 0 \/ LeftEnds(right, locks) = {}
                THEN [cost |-> 0, split |-> 0]
                ELSE LET candidate(lo) == dp[locks - 1][lo].cost
                                            + PieceCost(prefix, crossings, lo, right)
                         best == Min({candidate(lo) : lo \in LeftEnds(right, locks)})
                     IN  [cost |-> best,
                          split |-> Min({lo \in LeftEnds(right, locks) :
                                            candidate(lo) = best})]]
    IN  dp

OptimizePartitions(stats, crossings) ==
    LET dp == BestSplits(stats, crossings)
        cuts[l \in 0 .. kLockCnt] ==
            IF l = kLockCnt THEN kBlocks
                            ELSE dp[l + 1][cuts[l + 1]].split
    IN  cuts

HasEnoughPartitionGain(new, stats, crossings) ==
    LET current_cost == PartitionCost(partitions_, stats, crossings)
        new_cost == PartitionCost(new, stats, crossings)
    IN  /\ new # partitions_
        /\ IF new_cost = 0 THEN current_cost # 0
                           ELSE current_cost * GainDen > new_cost * GainNum

HasEnoughSkew(stats) == Max(Range(stats)) * kBlocks >= MinSkew * Total(stats)

-----------------------------------------------------------------------------
(* UpdateStats(left, right) of a query that ShouldSampleStats has picked   *)

(* The locks between those of the first and of the last block.             *)
LocksOver(from, to) ==
    {l \in Locks : partitions_[l] <= to /\ from < partitions_[l + 1]}

(* The locks of a query are held until UpdateStats and func have returned. *)
HeldBy(t) == IF update[t].phase = "out" THEN {}
             ELSE LocksOver(update[t].left, update[t].right)

(* RangeLockGuard all_locks has locked a prefix.                           *)
LockedBy(r) == 0 .. rlocked[r] - 1

UpdateStats(t, request) ==
    LET from == PositionToBlock(ClampedLeft(request))
        to   == PositionToBlock(ClampedRight(request))
    IN
    /\ update[t].phase = "out"
    /\ collect_stats_
    /\ \A b \in from .. to : stats_[b] < MaxHits
    /\ \A u \in Samplers : LocksOver(from, to) \cap HeldBy(u) = {}
    /\ \A r \in Rebuilders : LocksOver(from, to) \cap LockedBy(r) = {}
    /\ update' = [update EXCEPT ![t] =
                    [phase |-> "hits", left |-> from, right |-> to, at |-> from]]
    /\ UNCHANGED <<counterVars, partitions_, flagVars, stats_mutex_, rpc, cursor,
                   after, snapshotVars, planVars>>

(* The first loop: the hits of all the blocks ...                          *)
AfterHit(u) ==
    IF u.at < u.right THEN [u EXCEPT !.at = @ + 1]
    ELSE IF u.left = u.right THEN NoUpdate
    ELSE [u EXCEPT !.phase = "crossings", !.at = u.left + 1]

CountHit(t) ==
    /\ update[t].phase = "hits"
    /\ stats_' = [stats_ EXCEPT ![update[t].at] = @ + 1]
    /\ update' = [update EXCEPT ![t] = AfterHit(@)]
    /\ UNCHANGED <<boundary_crossings_, partitions_, flagVars, stats_mutex_,
                   rpc, cursor, after, snapshotVars, planVars>>

(* ... then the second: the boundaries between them.                       *)
AfterCrossing(u) ==
    IF u.at < u.right THEN [u EXCEPT !.at = @ + 1] ELSE NoUpdate

CountCrossing(t) ==
    /\ update[t].phase = "crossings"
    /\ boundary_crossings_' = [boundary_crossings_ EXCEPT ![update[t].at] = @ + 1]
    /\ update' = [update EXCEPT ![t] = AfterCrossing(@)]
    /\ UNCHANGED <<stats_, partitions_, flagVars, stats_mutex_, rpc, cursor,
                   after, snapshotVars, planVars>>

-----------------------------------------------------------------------------
(* Resets and snapshots, block by block                                    *)

StatsGoto(r, from, to) == rpc[r] = from /\ rpc' = [rpc EXCEPT ![r] = to]

LockStats(r) == stats_mutex_ = Nobody /\ stats_mutex_' = r

(* The reset begins, always under stats_mutex_.                            *)
ResetThen(r, from, then) ==
    /\ StatsGoto(r, from, "zerohits")
    /\ after' = [after EXCEPT ![r] = then]

(* The loop variable goes on; behind the last block it is 0 again.         *)
Advance(r) == cursor' = [cursor EXCEPT ![r] = IF @ = kBlocks - 1 THEN 0 ELSE @ + 1]
IsLast(r) == cursor[r] = kBlocks - 1

(* The two stores of the reset's loop.                                     *)
ZeroHits(r) ==
    /\ StatsGoto(r, "zerohits", "zerocrossings")
    /\ stats_' = [stats_ EXCEPT ![cursor[r]] = 0]
    /\ UNCHANGED <<boundary_crossings_, partitions_, flagVars, stats_mutex_,
                   update, cursor, after, snapshotVars, planVars>>

(* Mutant: the crossings are kept.                                         *)
ZeroCrossingsForgotten(r) ==
    /\ StatsGoto(r, "zerocrossings", IF IsLast(r) THEN after[r] ELSE "zerohits")
    /\ Advance(r)
    /\ UNCHANGED <<counterVars, partitions_, flagVars, stats_mutex_, update,
                   after, snapshotVars, planVars>>

ZeroCrossings(r) ==
    /\ StatsGoto(r, "zerocrossings", IF IsLast(r) THEN after[r] ELSE "zerohits")
    /\ Advance(r)
    /\ boundary_crossings_' = [boundary_crossings_ EXCEPT ![cursor[r]] = 0]
    /\ UNCHANGED <<stats_, partitions_, flagVars, stats_mutex_, update, after,
                   snapshotVars, planVars>>

(* SnapshotStats, called in three places, and SnapshotBoundaryCrossings.   *)
SnapshotThen(pc) ==
    CASE pc = "should" -> "decide" [] pc = "now" -> "nonzero" [] OTHER -> "crossings"

LoadHits(r) ==
    /\ rpc[r] \in {"should", "now", "hits"}
    /\ current_stats' = [current_stats EXCEPT ![r][cursor[r]] = stats_[cursor[r]]]
    /\ Advance(r)
    /\ rpc' = [rpc EXCEPT ![r] = IF IsLast(r) THEN SnapshotThen(@) ELSE @]
    /\ UNCHANGED <<counterVars, partitions_, flagVars, stats_mutex_, update,
                   after, current_boundary_crossings, planVars>>

LoadCrossings(r) ==
    /\ StatsGoto(r, "crossings", IF IsLast(r) THEN "gain" ELSE "crossings")
    /\ current_boundary_crossings' =
          [current_boundary_crossings EXCEPT
              ![r][cursor[r]] = boundary_crossings_[cursor[r]]]
    /\ Advance(r)
    /\ UNCHANGED <<counterVars, partitions_, flagVars, stats_mutex_, update,
                   after, current_stats, planVars>>

(* The snapshots go out of scope.                                          *)
DropSnapshots(r) ==
    /\ current_stats' = [current_stats EXCEPT ![r] = Nothing]
    /\ current_boundary_crossings' =
          [current_boundary_crossings EXCEPT ![r] = Nothing]

-----------------------------------------------------------------------------
(* Who resets and who rebuilds                                             *)

ForceSaveStats(c) ==
    /\ ResetThen(c, "idle", "unlock")
    /\ LockStats(c)
    /\ UNCHANGED <<counterVars, partitions_, flagVars, update, cursor,
                   snapshotVars, planVars>>

UnlockStats(r) ==
    /\ StatsGoto(r, "unlock", "idle")
    /\ stats_mutex_' = Nobody
    /\ after' = [after EXCEPT ![r] = "idle"]
    /\ UNCHANGED <<counterVars, partitions_, flagVars, update, cursor,
                   snapshotVars, planVars>>

(* ShouldRebuild in the background loop, under stats_mutex_.               *)
ShouldRebuild ==
    /\ StatsGoto(rebuild_thread_, "idle", "should")
    /\ LockStats(rebuild_thread_)
    /\ UNCHANGED <<counterVars, partitions_, flagVars, update, cursor, after,
                   snapshotVars, planVars>>

(* Too little is known, or it is too much like the last time ...           *)
NotDue(r) ==
    /\ StatsGoto(r, "decide", "unlock")
    /\ Total(current_stats[r]) >= kMinOps => HasEnoughSkew(current_stats[r])
    /\ DropSnapshots(r)
    /\ UNCHANGED <<counterVars, partitions_, flagVars, stats_mutex_, update,
                   cursor, after, planVars>>

(* ... or the hits are spread evenly, and are forgotten ...                *)
ForgetUniform(r) ==
    /\ ResetThen(r, "decide", "unlock")
    /\ Total(current_stats[r]) >= kMinOps
    /\ ~HasEnoughSkew(current_stats[r])
    /\ DropSnapshots(r)
    /\ UNCHANGED <<counterVars, partitions_, flagVars, stats_mutex_, update,
                   cursor, planVars>>

(* ... or it is time.                                                      *)
RebuildDue(r) ==
    /\ StatsGoto(r, "decide", "flag")
    /\ Total(current_stats[r]) >= kMinOps
    /\ HasEnoughSkew(current_stats[r])
    /\ stats_mutex_' = Nobody
    /\ DropSnapshots(r)
    /\ UNCHANGED <<counterVars, partitions_, flagVars, update, cursor, after,
                   planVars>>

(* RebuildNow: no mutex, and only whether there is any hit counts.         *)
RebuildNow(c) ==
    /\ StatsGoto(c, "idle", "now")
    /\ UNCHANGED <<counterVars, partitions_, flagVars, stats_mutex_, update,
                   cursor, after, snapshotVars, planVars>>

AnyHits(r) ==
    /\ StatsGoto(r, "nonzero", IF Total(current_stats[r]) = 0 THEN "idle"
                                                             ELSE "flag")
    /\ DropSnapshots(r)
    /\ UNCHANGED <<counterVars, partitions_, flagVars, stats_mutex_, update,
                   cursor, after, planVars>>

-----------------------------------------------------------------------------
(* RebuildPartitions                                                       *)

ExchangeFlag(r) ==
    /\ StatsGoto(r, "flag", IF rebuild_flag_ THEN "idle" ELSE "hits")
    /\ rebuild_flag_' = TRUE
    /\ UNCHANGED <<counterVars, partitions_, collect_stats_, stats_mutex_,
                   update, cursor, after, snapshotVars, planVars>>

Optimized(r) == OptimizePartitions(current_stats[r], current_boundary_crossings[r])

IsGain(r, new) == HasEnoughPartitionGain(new, current_stats[r],
                                         current_boundary_crossings[r])

EnoughGain(r) ==
    /\ StatsGoto(r, "gain", "lockall")
    /\ IsGain(r, Optimized(r))
    /\ new_partitions' = [new_partitions EXCEPT ![r] = Optimized(r)]
    /\ DropSnapshots(r)
    /\ UNCHANGED <<counterVars, partitions_, flagVars, stats_mutex_, update,
                   cursor, after, rlocked>>

(* Too little gain: the statistics are reset while queries go on.          *)
TooLittleGain(r) ==
    /\ ResetThen(r, "gain", "nogain")
    /\ ~IsGain(r, Optimized(r))
    /\ LockStats(r)
    /\ DropSnapshots(r)
    /\ UNCHANGED <<counterVars, partitions_, flagVars, update, cursor, planVars>>

ClearFlagNoGain(r) ==
    /\ StatsGoto(r, "nogain", "unlock")
    /\ rebuild_flag_' = FALSE
    /\ UNCHANGED <<counterVars, partitions_, collect_stats_, stats_mutex_,
                   update, cursor, after, snapshotVars, planVars>>

(* Mutant: off by one, the last lock is not taken.                         *)
LastLockButOne == kLockCnt - 2

(* RangeLockGuard all_locks(locks_, 0, kLockCnt - 1)                       *)
LastLock == kLockCnt - 1

LockAllNext(r) ==
    /\ StatsGoto(r, "lockall", IF rlocked[r] = LastLock THEN "install"
                                                        ELSE "lockall")
    /\ \A t \in Samplers : rlocked[r] \notin HeldBy(t)
    /\ \A s \in Rebuilders \ {r} : rlocked[r] \notin LockedBy(s)
    /\ rlocked' = [rlocked EXCEPT ![r] = @ + 1]
    /\ UNCHANGED <<counterVars, partitions_, flagVars, stats_mutex_, update,
                   cursor, after, snapshotVars, new_partitions>>

(* The new partitioning, then the reset, with all locks held.              *)
Install(r) ==
    /\ ResetThen(r, "install", "installed")
    /\ LockStats(r)
    /\ partitions_' = new_partitions[r]
    /\ new_partitions' = [new_partitions EXCEPT ![r] = UniformCuts]
    /\ UNCHANGED <<counterVars, flagVars, update, cursor, snapshotVars, rlocked>>

ReleaseStats(r) ==
    /\ StatsGoto(r, "installed", "clearflag")
    /\ stats_mutex_' = Nobody
    /\ after' = [after EXCEPT ![r] = "idle"]
    /\ UNCHANGED <<counterVars, partitions_, flagVars, update, cursor,
                   snapshotVars, planVars>>

ClearFlag(r) ==
    /\ StatsGoto(r, "clearflag", "unlockall")
    /\ rebuild_flag_' = FALSE
    /\ UNCHANGED <<counterVars, partitions_, collect_stats_, stats_mutex_,
                   update, cursor, after, snapshotVars, planVars>>

UnlockAllLast(r) ==
    /\ StatsGoto(r, "unlockall", IF rlocked[r] = 1 THEN "idle" ELSE "unlockall")
    /\ rlocked' = [rlocked EXCEPT ![r] = @ - 1]
    /\ UNCHANGED <<counterVars, partitions_, flagVars, stats_mutex_, update,
                   cursor, after, snapshotVars, new_partitions>>

-----------------------------------------------------------------------------

(* Statistics are collected from StartRebuilder to StopRebuilder, which    *)
(* waits for the background thread.                                        *)
StartRebuilder ==
    /\ StatsGoto(rebuild_thread_, "none", "idle")
    /\ collect_stats_' = TRUE
    /\ UNCHANGED <<counterVars, partitions_, rebuild_flag_, stats_mutex_,
                   update, cursor, after, snapshotVars, planVars>>

StopRebuilder ==
    /\ StatsGoto(rebuild_thread_, "idle", "none")
    /\ collect_stats_' = FALSE
    /\ UNCHANGED <<counterVars, partitions_, rebuild_flag_, stats_mutex_,
                   update, cursor, after, snapshotVars, planVars>>

SamplerStep(t) ==
    \/ \E request \in Ranges : UpdateStats(t, request)
    \/ CountHit(t) \/ CountCrossing(t)

RebuilderStep(r) ==
    \/ ZeroHits(r) \/ ZeroCrossings(r) \/ LoadHits(r) \/ LoadCrossings(r)
    \/ UnlockStats(r) \/ NotDue(r) \/ ForgetUniform(r) \/ RebuildDue(r)
    \/ AnyHits(r) \/ ExchangeFlag(r) \/ EnoughGain(r) \/ TooLittleGain(r)
    \/ ClearFlagNoGain(r) \/ LockAllNext(r) \/ Install(r) \/ ReleaseStats(r)
    \/ ClearFlag(r) \/ UnlockAllLast(r)

StatsNext ==
    \/ \E t \in Samplers : SamplerStep(t)
    \/ \E r \in Rebuilders : RebuilderStep(r)
    \/ \E c \in Callers : RebuildNow(c)
    \/ \E c \in Savers : ForceSaveStats(c)
    \/ ShouldRebuild \/ StartRebuilder \/ StopRebuilder

StatsSpec == StatsInit /\ [][StatsNext]_statsVars

-----------------------------------------------------------------------------

(* Whatever mixture of old and new counters the snapshots have caught, the *)
(* dynamic program finds a partitioning that a query can use (every lock   *)
(* has a nonempty partition, every block a lock: what DynamicLock.tla      *)
(* assumes of OptimizePartitions), and no other one undercuts it on them.  *)
OptimizeIsOptimal ==
    \A r \in Rebuilders : rpc[r] = "gain" =>
        LET found == Optimized(r)
            cost(cuts) == PartitionCost(cuts, current_stats[r],
                                        current_boundary_crossings[r])
        IN  /\ found \in Cuts
            /\ \A cuts \in Cuts : cost(found) <= cost(cuts)

(* A reset has passed the hits of block s and not yet the crossings of     *)
(* boundary b.                                                             *)
Resetting == {"zerohits", "zerocrossings"}
Passed(r, s) == cursor[r] > s \/ (cursor[r] = s /\ rpc[r] = "zerocrossings")
Between(r, s, b) == rpc[r] \in Resetting /\ Passed(r, s) /\ cursor[r] <= b

(* UpdateStats counts hits before crossings, and a reset in between tears  *)
(* a sample apart: its crossings stay without its hits.  But at a boundary *)
(* that happens to one sample at most, however many resets and queries     *)
(* there were: those that cross it share a lock, and each reset clears the *)
(* hits on both sides first and then the crossings.                        *)
TornByAtMostOne ==
    \A b \in Blocks \ {0} : \A s \in {b - 1, b} :
        (\A r \in Rebuilders : ~Between(r, s, b))
           => boundary_crossings_[b] <= stats_[s] + 1

(* The statistics of a new partitioning begin at zero: no sample from      *)
(* before is counted, not even the rest of one that was under way.         *)
FreshStatistics ==
    \A r \in Rebuilders : rpc[r] \in {"installed", "clearflag"} =>
        stats_ = Nothing /\ boundary_crossings_ = Nothing
=============================================================================
