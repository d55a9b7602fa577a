# A verification development for dynamic_locks

The repository implements *range locks*: `WriteQuery(left, right, func)` runs
`func` over a closed range of array positions while no other thread's `func`
runs over an overlapping range. The array is divided into `kBlocks` blocks, the
blocks into `kLockCnt` partitions of neighbouring blocks, one mutex each. Two of
the three locks repartition the array while queries run; that is where the
difficulty lies, and what this development is mostly about. The locks are
compared, through an adapter that turns a lock into a dictionary, inside a
vendored benchmark (`Benchmark-v700`, a copy of setbench); its harness, its
default memory reclamation and one of its concurrent search trees are modelled
too.

Modules are TLA+, checked with TLC; theorems are checked with TLAPS.

## Inventory

| part | state it keeps | operations | hard because | correct if |
|---|---|---|---|---|
| query protocol of `DynamicLock` and `GeneticLock` (`dynamic_lock.hpp:40-100`, `genetic_lock.hpp:41-99`, same code) | `locks_`, `block_to_lock_`, `partition_epoch_`, `pause_queries_` | `WriteQuery` | looks locks up without holding any, validates afterwards | overlapping ranges exclude each other; queries return |
| rebuilding in `DynamicLock` | `partitions_`, `rebuild_flag_`, `partitions_mutex_`, `stats_mutex_`, `stop_rebuilder_`, `rebuild_count_` | `RebuildPartitions`, `RebuildNow`, `StartRebuilder`, `StopRebuilder`, `CountLocksForRange` | several rebuilders, seven synchronisation objects, join | one rebuild at a time, decided on the partitions it replaces; counts exact; it ends |
| statistics and optimiser of `DynamicLock` | `stats_`, `boundary_crossings_`, `collect_stats_`, `last_stats_` | `UpdateStats`, `ShouldRebuild`, `OptimizePartitions`, `HasEnoughPartitionGain`, `ForceSaveStats` | relaxed counters, incremented, copied and reset one by one while queries run; dynamic program with unreachable entries | a reset damages at most one sample; a new partitioning starts from zero; result optimal and usable |
| installing cuts in `GeneticLock` | `current_cuts_`, `cuts_mutex_`, `training_mutex_`, `training_enabled_` | `TrainOnBatch`, `ObserveBatch`, `CountLocksForRange` (lock-free) | takes the locks or not, depending on a flag | as above, and locks are left out only when nobody queries |
| sample queue of `GeneticLock` | thread-local buffers, `pending_queries_`, `training_cv_`, `next_training_probe_operation_` | the end of `WriteQuery`, `TrainingLoop`, `StopRebuilder`, `FlushTraining`, `ResetRuntimeStats` | condition variable, stop flag outside its mutex | no sample lost, no batch forgotten, stop returns |
| `GeneticPartitioner` | `current_`, `components_`, `active_component_` | `ObserveBatch` | random search, repair of cuts | partitionings usable, training never makes worse, cuts catch up with the memory |
| example (`example/main.cpp`, README) | the array | `main` | half-open loop on closed ranges | its own final check |
| `NaiveLock` on `spinlock` (`common/`) | the flags `locked_`, `operation_count_` | `WriteQuery`; `lock`, `unlock` | weak compare-and-exchange, several locks held at once | exclusion; no lock left behind |
| V700 adapter (`ds/adaptive_lock`) | `data_`, `present_`, `range_queries_` | `insertIfAbsent`, `erase`, `find`, `rangeQuery` | plain arrays written by many threads | a linearizable dictionary; no torn update |
| harness (`microbench/main.cpp`, `workloads/`) | `running`, `start`, the counters of the stop condition, statistics | `run`, `execute`, `ThreadLoop::run`, `step` | two barriers, three stages sharing one structure | every operation executed and counted; it ends |
| DEBRA (`common/recordmgr`) | the global epoch; per thread: announcement, three bags, freeables, scan position | `startOp`, `endOp`, `retire`, `initThread`, `deinitThread` | announcement after the epoch was read, incremental scan, threads that leave and come back | nothing freed that a running operation may reach; nothing leaked |
| BST-TK (`ds/guerraoui_ext_bst_ticket`) | nodes with two-sided ticket locks | `bst_tk_insert`, `bst_tk_delete`, `bst_tk_find` | walks without locks, validates by version, reuses memory | a linearizable dictionary; a search tree; no freed node touched |
| benchmarks, workload generators, `print_compat`, scripts, the rest of `Benchmark-v700` | – | – | – | not modelled |

Interaction: clients call `WriteQuery` from many threads; the owner of a lock
calls `StartRebuilder`, which creates one background thread, and later
`StopRebuilder`, which joins it. The background thread shares the members with
the queries. `GeneticLock` calls its partitioner under `training_mutex_`. The
harness runs up to three stages; in each its threads call `initThread`, wait for
the common start, call the adapter, wait for each other and call
`deinitThread`. The adapter of the locks calls `WriteQuery` for every operation;
the tree calls the record manager (DEBRA) around and inside of every operation.

The hazards, with line and the property that covers each, are listed in
`PROJECT.json`.

## Modules

```
RangeLock                 what WriteQuery promises (abstract)
BlockMap                  geometry: positions, blocks, cuts, map
  EpochQuery              WriteQuery, shared by both locks; refinement mapping
    DynamicLock           + rebuilders          MCDynamicLock
    GeneticLock           + trainers, readers   MCGeneticLock
  DynamicStats            statistics, optimiser MCDynamicStats
  GeneticPartitioner      ObserveBatch          MCGeneticPartitioner
  Example                 client of RangeLock   MCExample
GeneticTraining           sample queue          MCGeneticTraining
Dictionary                what an adapter promises the benchmark (abstract)
Reclamation               what a record manager promises (abstract)
NaiveLock                 WriteQuery on spinlocks, implements RangeLock
Microbench                stages, threads, counters; the structure is left open
  V700Adapter             + the adapter + NaiveLock, implements Dictionary
                                                MCV700Adapter
  Debra                   + DEBRA, implements Reclamation
                                                MCDebra
  TicketTree              + BST-TK over Reclamation, implements Dictionary
                                                MCTicketTree

EpochQuery_proofs         induction, sums, geometry, what queries preserve
  DynamicLock_proofs      theorems about DynamicLock
  GeneticLock_proofs      theorems about GeneticLock
  Partitioners_proofs     theorems about DynamicStats and GeneticPartitioner
  GeneticTraining_proofs  theorems about GeneticTraining
V700Adapter_proofs        theorems about V700Adapter, NaiveLock, Microbench
Debra_proofs              theorems about Debra
TicketTree_proofs         theorems about TicketTree
```

**RangeLock.** `running[t]` is the range that thread `t`'s `func` works on.
`Enter` grants a closed interval disjoint from all others, `Leave` returns it.

**BlockMap.** Constants `ArraySize`, `kBlocks`, `kLockCnt` and the arithmetic of
the code. `Cuts` are the boundary vectors with nonempty partitions.
`IsRefreshOf(map, cuts)` says that the map is what `RefreshBlockToLock` makes of
the cuts. Assumed: `ArraySize > 0` (for an empty array every operation returns
at once) and `0 < kLockCnt <= kBlocks`.

**EpochQuery.** A step for each atomic access: wait for the pause to end, load
the epoch, load the map entry of the left block, of the right block, take the
locks one by one upwards, load the epoch again, run `func`, release downwards.
The branch for a single lock (`lock_guard`) is the same with one lock. Locals
are per-thread functions; when the C++ variable goes out of scope it is reset,
which keeps the state space small and is invisible.

**DynamicLock.** `RebuildPartitions` in 19 actions, in source order; which
partitioning the optimiser returns is left open (`DynamicStats` shows that it is
one of `Cuts`). Several rebuilders: the background thread and callers of
`RebuildNow`. The background thread's sleep and `ShouldRebuild` are left open: a
rebuild may become due at any time. `stats_mutex_` is modelled as a mutex that
rebuilders take; `ShouldRebuild` and `ForceSaveStats`, which hold it alone and
take nothing else, cannot block anybody for ever and are left out here.

**DynamicStats.** The same class seen from its numbers: hits per block and
crossings per boundary, skew, the dynamic program as a recursive function, cost
and gain. No two counters are touched together: each `fetch_add` of
`UpdateStats`, each load of a snapshot and each store of a reset is a step, so
that samples, snapshots and resets interleave in every way. The counters are
relaxed; they are taken in program order, as x86-64 makes increments and stores
visible. A sampler has the locks of its range from the first `fetch_add` to the
last, which is what `HoldsCurrentLocks` shows of a query; how it came by them,
the epoch, the pause and `partitions_mutex_` are `DynamicLock`'s. A rebuilder
that finds too little gain waits for `stats_mutex_` before it says so, which
makes no difference since the partitions do not change meanwhile. Doubles that
are quotients of integers are compared by cross-multiplication. The comparison
with `last_stats_` is left open. The specification is called `StatsSpec`, so that
one module of proofs can hold it and the partitioner's.

**GeneticLock.** `TrainOnBatch` in 14 actions for two trainers, the training
thread and the owner inside `ObserveBatch`; `CountLocksForRange` for readers.
`training_enabled_` decides whether the locks are taken. The clients' discipline
is part of the model, as the benchmarks and the V700 adapter practise it: the
owner calls `ObserveBatch`, `StartRebuilder` and `StopRebuilder` only while no
worker is inside a query (`serving`), and nobody calls `SetTrainingEnabled`.

**GeneticTraining.** Samples are counted. The trainer's critical section is split
at the two points where the stop flag is read; between evaluating the predicate
and blocking it holds `pending_mutex_`, which keeps out notifiers that take that
mutex first, and no others. A critical section of the others is one step.
Condition variable: `notify_one` wakes the trainer only if it is blocked;
spurious wakeups are possible but not fair. `ResetRuntimeStats` is called without
a trainer running, as its two callers do.

**GeneticPartitioner.** Phases of `ObserveBatch` are steps: assign and activate,
load-balanced attempt, seed, generations, finish. Random choices and the
clustering by profiles are left open. The population is a set (duplicates do not
matter for what survives). `Mutations` is every vector of cuts, repaired, which
is what shifts of up to 32 blocks amount to at these sizes.

**Example.** The client of the README over `RangeLock`'s granting rule.

**Microbench.** `KeySumOK` of its clients says that what the threads report to
have inserted and removed adds up to the contents. `print_output` compares the
two sums only under `USE_TREE_STATS`, in lines that do not compile as they stand
(`main.cpp:518-545` use `threadsKeySum`, which is declared as
`threads_key_sum`); in the current build the sum is printed and nothing more.
`main` goes through prefill, warm-up and test (a stage without
threads is skipped); `ThreadLoop::run` in each thread is split at the accesses to
`running` and `start` and at the calls of the data structure. `call[t]` is the
operation a thread is executing; its history field `seen` collects the answers
to "is the key present?" that were right at some moment since the call. A
module for a data structure joins `Pre` and `Leave` with `initThread` and
`deinitThread`, and decides calls with `Decide` or `Effect`.

**Dictionary.** Linearizability of point operations: the set changes in one step
between call and return of the operation that succeeds; one that fails answers
as was right at some moment during it.

**NaiveLock.** One step per compare-and-exchange, spinning load, store and per
increment of `operation_count_`. The failure of the weak exchange is possible at
any time. `RangeLockSpec` is its refinement of `RangeLock`.

**V700Adapter.** The harness, the adapter and `NaiveLock` in one specification.
Each `func` is two steps, before its first write and from there on, so that
overlapping grants would tear it.

**Reclamation.** A record may be freed once every operation that was running when
it was retired has ended.

**Debra.** `startOp` in four steps: read the epoch, rotate and free one record
(thread-local but for the epoch); announce; look at the next thread's
announcement; advance the epoch. A bag is the sequence of its records; only full
blocks leave it. The client retires up to `MaxRetired` records in an operation,
any records not in limbo. `waits` and `retiredIn` are history variables.

**TicketTree.** The results are conditional: that the record manager keeps the
promise of `Reclamation` is assumed. DEBRA does in one stage
(`OneStageSafe`), and does not once a thread has come back (run
`debra_restart`), while the run `ticket` has two stages. A lock word is a version and a ticket of 16 bits per side. The walk
takes two steps per node (the lock word, then the child), each lock, link,
unlock, revert and retirement is one. `Reclamation` stands for the record
manager, so that the tree is checked against every schedule of freeing that
the promise allows; freed nodes are reused, lowest first, and hold a leaf
with `KEY_MIN` until then. Whether a node is a leaf, and its key, never change
while it is allocated, so that reading them belongs to the step that found the
node.

Operators whose comment begins with "Mutant" are plausible slips in the code,
kept beside the definition they would replace; each property is violated when
one of them is put in its place (`PROJECT.json`, "mutants").

## Runs

| run | instance | states | checks |
|---|---|---|---|
| dynamic | 2 threads, background rebuilder, a caller of `RebuildNow`, 1 range, 2 rebuilds | 1,420,000 | `HoldsCurrentLocks`, `PauseIsOwned`, `GainNotStale` |
| dynamic_progress | 2 threads, background rebuilder, 2 ranges, 1 rebuild, fair | 107,215 | `IInv`, `CountIsExact`, `RangeLockSpec` (refinement), `RebuildCompletes`, `StopReturns`, `QueriesComplete` |
| dynamic_stats | 2 samplers, background rebuilder, a caller of `RebuildNow` and `ForceSaveStats`, 4 blocks, 2 locks, 2 ranges, 1 hit per block | 445,051 | `OptimizeIsOptimal`, `TornByAtMostOne`, `FreshStatistics` |
| genetic | 2 threads, reader, trainer, owner, 1 range, 2 trainings, fair | 337,451 | `UnlockedPublishIsQuiet`, `PauseIsOwned`, `CutsMatchMap`, `CountIsExact`, `RangeLockSpec`, `TrainingCompletes`, `QueriesAdmitted` |
| training_queue | 2 workers, buffers of 2, batches of 4, rate 2, gap 1, fair | 628,055 | `SamplesConserved`, `NoMissedBatch`, `ProbeIsNear`, `BatchIsTaken` |
| training_stop | 2 workers, batches of 2, fair | – | `StopReturns` is **violated** |
| partitioner | 7 blocks, 3 locks, 1 component, shift 1 | 37,040 | `TypeOK`, `ShiftPerBatch`, `TrainingNeverHurts`, `CutsCatchUp` |
| example_result | 3 threads, 4 elements | – | `CorrectResult` is **violated** |
| v700 | 2 threads, 2 keys, 2 locks; prefill with 2 and test with 3 operations, fair | 154,842 | `OperationsCounted`, `ReadStaysValid`, `RangeLockSpec`, `DictionarySpec` (refinements), `BenchTerminates` |
| debra | 2 threads, 3 records, blocks of 2; test with 9 operations | 1,083,745 | `NothingLeaks`, `ReclamationSpec` (refinement), `RotationIsLate` |
| debra_restart | as before, two stages of 6 operations | – | `RotationIsLate` is **violated** |
| ticket | 2 threads, 2 keys, 11 nodes; prefill with 2 and test with 3 operations, fair | 779,023 | `NoFreedAccess`, `TreeOK`, `KeySumOK`, `DictionarySpec` (refinement), `BenchTerminates` |

Bounds. Seven positions in four blocks with two locks are the smallest geometry
in which a range can lie in one partition, span both, have its partition moved
under it and be read inverted, with a last block that is not full. Two rebuilds
or trainings are needed for a lookup to survive a whole one and for a cut to
move and move back. `MaxRebuilds` and `MaxTrainings` bound the epoch. The ranges
include one given in the wrong order and one that runs past the end. A batch is
two full buffers, so that one worker or both together complete it. The
partitioner runs with a shift of one block, so that the cuts in use lag behind
the remembered ones, and with one component, which is reset or updated by each
batch; components meet only in `current_`. `GeneticLock` is checked with five
positions in three blocks; the one range lies in the middle block, the only one
whose lock changes with the cuts. In `dynamic_stats` one range is a single block
and the other, given in the wrong order, two blocks: two hit increments and then
one crossing increment, and a reset can fall before, between and after them. The
latter has one lock or two, depending on the cuts; together the ranges make the
cut behind the first block cheaper than the uniform one. One hit per block is
enough for a block to be hit, reset and hit again, and for the crossings to get
ahead of the hits. `MaxHits` is checked before a sample begins. The theorems do
not depend on any of these bounds.

In the benchmark's modules the operations per stage (`limit`) bound the
behaviours. Three operations of two threads are two of one against one of the
other, on two keys that were both inserted before: a removal's parent is then
another removal's node, an insertion splits a leaf that is being removed, and a
retried walk starts from the node of an abandoned one. `MaxNodes` = 11 is what
the sentinels, two insertions and three operations can hold at once, freed nodes
included, so that allocation never fails. DEBRA with nine operations and a scan
in each (`MIN_OPS_BEFORE_READ` = 1, as with `RAPID_RECLAMATION`) advances the
epoch often enough for a record to be retired, rotated out and freed while other
operations come and go. The odd number of operations leaves a remainder for
`OperationCounter` to distribute, the two attempts of the prefill let an
insertion fail and be repeated.

Deadlock is checked except in the example, whose program ends; a benchmark that
has reported stutters (`Finished`).

Fairness. Weak fairness of each thread's steps inside an operation: the
scheduler runs every thread, and `func` returns. Calls, and who wins a contended
mutex, are not fair; neither are spurious wakeups. Hence `QueriesComplete` is
conditional on calls coming to an end (a thread may lose a mutex for ever to
others that keep calling; rebuilds, which can send a query back to its start,
come to an end by `MaxRebuilds`), and `RebuildCompletes` is about a rebuild whose pause
holds: with two rebuilders one can erase the other's pause
(`dynamic_lock.hpp:545-546`), and unpaused queries may then overtake it. For
`GeneticLock` `QueriesAdmitted` says that a query waiting for the pause gets on.
`CutsCatchUp` asks for no fairness of
its own: it is about behaviours in which trainings go on to finish and what they
remember stays the same. In the benchmark's modules `main` and every thread are
weakly fair, whatever
step comes next; nothing is asked of the record manager. In `V700Adapter` a
compare-and-exchange tried again and again on a lock that is free again and
again succeeds at last (strong fairness): a weak exchange may fail spuriously,
but not for ever, and the operations of the others, which could win against it,
are limited in number.

## What the violated properties show

1. `example/main.cpp:27` asks for `WriteQuery(i, i + 1)` and increments
   `left <= idx < right`. For the last `i` the range is clamped to one element,
   the loop is empty, and the final check throws.
2. `GeneticLock::StopRebuilder` (`genetic_lock.hpp:133-134`) sets the stop flag
   and notifies without `pending_mutex_`. If the trainer has just found the flag
   clear and is about to block, the wakeup is lost and `join` never returns
   unless a spurious wakeup helps. Setting the flag under the mutex would do.
3. `reclaimer_debra::initThread` (`reclaimer_debra.h:378`) points `currentBag` at
   bag 0 and leaves `index` alone, which `deinitThread` does not reset either.
   The harness does both between stages. A thread that comes back with `index` 2
   retires into bag 0, and the next rotation takes that bag for the oldest: its
   full blocks become freeable one epoch after retirement, not two. Setting
   `index = 0` beside `currentBag` would do.

Worth knowing, too. `max_cut_shift_per_batch` bounds each of the two moves a
batch can bring, so a batch moves a cut by up to twice that (`ShiftPerBatch`).
The demo describes `load_i` as the number of recent queries on mutex i
(`genetic_lock_benchmark.cpp:461`); `Evaluate` counts block hits, so a query over
several blocks of one mutex counts several times. The statistics of
`DynamicLock` can count a boundary as crossed more often than its blocks are hit:
a reset that falls between the two loops of `UpdateStats` clears the hits of a
sample and not its crossings. `TornByAtMostOne` bounds the damage by one for
each boundary, and `OptimizeIsOptimal` holds for such statistics, too.

## Theorems

Every theorem below is checked by TLAPS for all values of the constants: any
number of threads, rebuilders, blocks, locks, workers, keys, records, requests,
stages and batches. Assumed are only the named assumptions on the constants:
`SizeAssumption`, those of `EpochQuery`, `DynamicLock`, `GeneticLock`,
`DynamicStats` and `GeneticPartitioner` (sizes are positive, processes are
distinct, requests are pairs of positions, the required gain is a factor of at
least one, elites are some of the population), `TrainingAssumption` (sizes are positive, finitely many workers),
`BenchAssumption` (three stages whose threads do not exceed the maximum),
`AdapterAssumption` (at least one lock, and a largest key, which the benchmark's
`maxkey` is), Debra's, and `TicketAssumption` (the sentinels fit into the heap,
there is a largest key, and no range queries, which the tree's adapter does not
support). TLC evaluates all of them in the runs.

Of the properties that the passing runs check, all but the liveness properties
are stated by a theorem:

| module of proofs | theorem | property |
|---|---|---|
| DynamicLock_proofs | `InductiveInvariant`, `LookupSound`, `Refinement`, `NoStaleGain`, `CountExact`, `PauseOwned` | `IInv`, `HoldsCurrentLocks`, `RangeLockSpec`, `GainNotStale`, `CountIsExact`, `PauseIsOwned` |
| | `TypeCorrect`, `Exclusion` | (`IInv` contains the one, `RangeLockSpec` implies the other) |
| GeneticLock_proofs | `UnlockedPublishQuiet`, `CutsAndMapAgree`, `CountExact`, `Refinement`, `PauseOwned` | `UnlockedPublishIsQuiet`, `CutsMatchMap`, `CountIsExact`, `RangeLockSpec`, `PauseIsOwned` |
| | `InductiveInvariant`, `TypeCorrect`, `LookupSound`, `Exclusion` | (no run of their own) |
| GeneticTraining_proofs | `BatchNotMissed`, `ProbeNear`, `SamplesAreConserved` | `NoMissedBatch`, `ProbeIsNear`, `SamplesConserved` |
| Partitioners_proofs | `TornBounded`, `StartsFresh`, `OptimizeCorrect` | `TornByAtMostOne`, `FreshStatistics`, `OptimizeIsOptimal` |
| | `TypeCorrect`, `ShiftBounded`, `TrainingHelps` | `TypeOK`, `ShiftPerBatch`, `TrainingNeverHurts` |
| V700Adapter_proofs | `ReadValid`, `LockRefinement`, `DictionaryRefinement`, `OperationsAreCounted` | `ReadStaysValid`, `RangeLockSpec`, `DictionarySpec`, `OperationsCounted` |
| Debra_proofs | `NoLeaks` | `NothingLeaks` |
| | `SafeReclamation`, `RotationLate`, `OneStageSafe` | `ReclamationSpec`, `RotationIsLate`, under the conditions below |
| TicketTree_proofs | `NothingFreedIsTouched`, `TreeStaysOrdered`, `KeySumsMatch`, `DictionaryRefinement` | `NoFreedAccess`, `TreeOK`, `KeySumOK`, `DictionarySpec`, as long as no version wraps around |
| | `VersionsDoNotWrap`, `ShortBenchmarkCorrect` | the same four for every benchmark of fewer than 2^16 - 1 operations, without a condition on its behaviour |

### The adaptive locks

`RangeExclusion` is far from inductive: it needs to know why two validated
lookups agree. `IInv` of `DynamicLock` is the conjunction of

- `QueryGuardInv`, `RebuildGuardInv`: how many locks each guard holds at each
  control point;
- `QueryOwnerInv`, `RebuildOwnerInv`: a mutex is owned by exactly the one whose
  guard has locked it. With these, a rebuilder that has all the locks excludes
  every query that could be between validation and release, and every other
  rebuilder;
- `EpochInv`: the epoch is odd exactly while the map is rewritten;
- `RefreshInv`: inside the loop the entries passed are right, outside of it the
  whole map is;
- `LookupInv`: what a query found in the map is still there as long as the epoch
  it loaded is the current one.

From it, a running query owns the locks that the *current* map gives to all its
blocks (`LookupSound`; the map is monotone, so the locks between the first and
the last one include those of the blocks between). Two running queries with a
common position share a block, hence a lock, which has one owner (`Exclusion`).
For `Refinement` only validation and the end of `func` change `running`.
`NoStaleGain` rests on a second, independent invariant, `FlagInv`:
`rebuild_flag_` acts as a mutex. `CountExact` adds `PartitionsMutexInv` (the map
is that of the partitions whenever `partitions_mutex_` is free) and a fact about
the geometry: the locks that a range meets are an interval. `PauseIsOwned` is
inductive by itself.

`GeneticLock` has the same queries, and `EpochQuery_proofs` serves it unchanged:
the part of the invariant that queries preserve is stated there without
mentioning rebuilders. What is different is a trainer that finds
`training_enabled_` clear and installs cuts without the locks. `ServingInv` says
why that is safe: queries run only while the owner is in none of its operations,
a training thread that does not lock is one the owner is about to join, and
then nobody queries. `MutexInv` (the two mutexes of training), `ReaderInv` (the
lookups of the lock-free count) and the analogues of the conjuncts above make up
its `IInv`.

### Finding partitionings

`TornByAtMostOne` is not inductive: it does not say why a second sample cannot be
torn at the same boundary. `StatsInv` adds what does. `LocksInv`: samplers under
way and rebuilders have disjoint locks, and two samplers that cross the same
boundary would share the lock of its right block (`HoldsBlock`, `OneCrosses`).
`SplitInv`: while a sampler has counted its hit and has still to count its
crossing (`Split`), no crossing lacks its hit at all, so that its own can be the
only one; and every reset clears the hits on both sides before the crossings,
which is why the claim is suspended while a reset is `Between` the two and is
restored by its store to the crossings. `AllLockedInv` and `ZeroedInv` give
`StartsFresh`: who installs has all locks, hence no sampler is under way
(`NobodySamples`), and what the reset has passed stays zero. `StatsInv` was
checked with TLC on the instance of `dynamic_stats` first.

`OptimizeCorrect` is the correctness of the dynamic program for every number of
blocks and locks and whatever the snapshots have caught. The table's entry for (locks, right) is
shown to be a lower bound of the cost of every way to divide the first `right`
blocks into that many partitions, and to be reached by one, by induction over
the number of locks; the cuts are read off the recorded splits, which are
strictly increasing. `PartitionCost` is a sum over a set, of which the proofs
need that the order does not matter (`SumStep`). For `GeneticPartitioner`,
`RepairFacts` shows that the two passes over the internal cuts make strictly
increasing cuts within the blocks of *any* vector, and leave good cuts alone
(`RepairIdentity`); `IInv` then follows the cuts, the memory, the distance from
where the batch began (`ShiftInv`) and the existence of a population member at
least as fit as the cuts in use (`FitInv`: they are seeded, and elites survive).

### The sample queue

`WaitInv` says that the trainer holds `pending_mutex_` from finding no batch
until it blocks; with it a batch that gets together later has its notifier.
`SamplesAreConserved` adds up a function over the workers; each step changes at
most one summand (`StepsConserveSamples`, `FoldChange`).

### The benchmark

`V700Adapter`: `LockInv` ties `locked_` to the guards (a flag is set exactly if
one guard has passed it), from which two queries in `func` have disjoint ranges;
`LoadedInv` keeps the slot a `func` has read inside its range, so that nobody
else can write it; `SeenInv` keeps the answers a pending call may give. The
dictionary changes in `FuncStore` and nowhere else. `OperationsAreCounted` has an
invariant of its own, `CountInv`: there are partial sums of what each thread has
executed that end in `num_operations`, and at each control point a thread has
executed between one and `attempts` operations for every step that `operCount`
has gone down by; the shares add up to the limit by induction over the threads.

`Debra`: `IInv` (each record is in one bag or freeable list, bags and
announcements fit the control points) holds without conditions and gives
`NoLeaks`. Safety needs `Agree`: `index` and `currentBag` of each thread are the
same. `initThread` does not see to that (see 3. above), so it is a hypothesis of
`SafeReclamation` and `RotationLate`, `Spec /\ []Agree => ...`: these say that the
missing assignment is all that is wrong. `OneStageSafe` discharges it for a
benchmark whose first two stages have no threads, where no thread comes back;
that is the instance of the run `debra`. The argument: an advance of the epoch
leaves every operation that was running *stuck* (it has announced an earlier
epoch, and nobody who could advance the epoch again has passed it), bags are in
the order of the epochs, and between two rotations of a bag there are two
advances (`WaitInv`, `AgeInv`).

`TicketTree`: the tree has no variable of its own, and whether a walk without
locks has found the right leaf depends on what the tree was like while it
walked. `IInv` therefore says that there *are* a set `T` of nodes, a key interval
`[lo[n], hi[n])` for each node and a set `V[t]` for each thread, the nodes that
have been on the way to its key at some moment since it got its guard, with

- `Shape`: the children of a node of `T` are in `T` and divide its interval at
  its key; two intervals are apart or one lies below the other. `TreeOK` and the
  contents of the dictionary follow without any recursion over the tree;
- `LockInv`: who has locked a side, and that a removed node still in the tree has
  one thread that is about to unlink it;
- `OwnInv`: nodes that are neither in the tree nor retired (not yet linked, not
  yet retired) have one owner, and retired nodes are not in the tree;
- `WayInv`: a node of `V[t]` is in the tree, or is dead or in limbo waiting for
  `t`, so that the record manager cannot free it; its child on the side of the
  key is in `V[t]` again; a leaf of `V[t]` holds the key or does not, just as was
  right at some moment during the call;
- `Position`: how a thread has come to where it is. A remembered lock word whose
  version is still the current one vouches for the child that was read after it
  (`Valid`), and this is why a compare-and-swap that succeeds has found the leaf
  and the parent in place;
- `ControlInv`, `SeenInv`: control points, and the answers a call may give.

An insertion takes effect in `Link`, a removal in `Unlink`, and any other
operation is answered by a leaf on its way (`DictionaryRefinement`). The key sum
is followed by a tally of the results that threads have got and not yet added to
their checksums (`KeySumInv`).

All of these are theorems about the tree over a record manager that keeps the
promise of `Reclamation` (see the module's description above for where DEBRA
does). The hypothesis `NoWrap` of the four theorems says that no version reaches its
last value: a version that has gone all the way round would let a
compare-and-swap succeed on a side that has changed, so that something of the
kind is needed. `VersionsDoNotWrap` shows when it holds. `BudgetInv` counts what
each thread may still do: a version grows only when an operation that has
succeeded gives its lock back, which happens at most once for each operation of
the `OperationCounter`; the shares of the threads add up to the stage's limit
(`SharesAddUp`). `ShortBenchmarkCorrect` combines the two. The invariant, with
`T` and `V` as history variables, and `BudgetInv` were checked with TLC on the
instance of the run `ticket` before they were proved.

### How induction is done

The library's induction theorems take an operator as a parameter, which the
installed provers cannot instantiate. `LeastElement` and `SetInduction` in
`EpochQuery_proofs` state the same for a *set* of numbers (from the
well-foundedness of the naturals); a claim to be proved by induction is written
as the set of numbers for which it holds. `SumExists` and `RecursionExists` show
in that way that sums and recursive functions are what their defining equations
say. `V700Adapter_proofs` and `TicketTree_proofs` repeat the few of these lemmas
that they need, since the benchmark has names in common with the geometry.

### Only model-checked

- Liveness (`RebuildCompletes`, `StopReturns`, `QueriesComplete`,
  `TrainingCompletes`, `QueriesAdmitted`, `BatchIsTaken`, `CutsCatchUp`,
  `BenchTerminates`):
  fairness and `ENABLED` are beyond the prover.
- Safety of DEBRA with threads that come back: it is violated (`debra_restart`).

Neither checked nor proved: BST-TK in a benchmark of 2^16 - 1 operations or more
in which some side's version does wrap around.

## Abstractions

- Sequential consistency. In `WriteQuery` the relaxed map loads are followed by
  the acquisition of a mutex before the epoch is read again, and the choice of
  the mutex depends on them, so they cannot move behind it. In the lock-free
  `CountLocksForRange` of `GeneticLock` nothing of that kind orders the loads
  before the second load of the epoch; on weakly ordered hardware `CountIsExact`
  is not covered. In `DynamicStats` the relaxed increments of the hits come
  before those of the crossings, and the stores of a reset in the order of the
  source; on weakly ordered hardware `TornByAtMostOne` is not covered.
  `FreshStatistics` is: there the mutexes order everything.
- The epoch does not wrap around (64 bits).
- Mutexes of the adaptive locks are atomic. `NaiveLock` has the steps of
  `spinlock`; the V700 adapter instantiates it with `std::mutex`, which is the
  case of an exchange that never fails on a free lock.
- In `Debra` and `TicketTree` sequential consistency rests on x86, for which
  setbench is written, and on the full fence at the end of
  `record_manager::startOp` (`record_manager.h:133`): the relaxed announcement is
  visible before the operation's first read.
- The allocator under `TicketTree` hands out the lowest free node. Which node is
  reused makes no difference but for its name; that the last freed one can be is
  what matters.
- `weight * weight` and the crossing penalty in `OptimizePartitions` do not
  overflow: that takes 2^32 hits on one partition between two rebuilds.
- Times (`total_lock_time_` and the like), printing and the getters are left
  out. Exceptions are left out: a failed allocation after
  `rebuild_flag_.exchange` would leave the flag set.
- `SetStatsSampleRate` writes a plain member that queries read; nobody calls it.
- `pending_queries_` of `GeneticLock` grows without a bound while a training
  runs; samples are bounded in the model.
- Objects are neither destroyed nor replaced (`GeneticLock` has no destructor;
  its thread-local buffers recognise their lock by address).

## Not modelled

`Benchmark-v700` holds some fifty third-party data structures with their own
libraries (a Bw-tree, chromatic and (a,b)-trees, k-CAS, verlib, redis variants),
eight more reclaimers, and generators of random keys: more than nine tenths of
the repository's 119,000 lines. None of it is used by the locks; each structure
becomes a binary of its own whose only common parts are the harness and the
record manager, which are modelled. One of them, BST-TK, is modelled in full as
an instance of what the harness and the record manager are for. The mapped lines
are therefore a small share of the repository, though they cover nearly all the
control of the lock library itself. Also left out: plotting scripts and reports,
the printing of statistics, the parsing of parameters, random distributions
(any request may come next in the models), CPU pinning and clocks.

`last_stats_` of `DynamicLock`, and with it the question whether the statistics
have changed enough since the last time, is left open: either answer is possible
whenever there are enough hits and enough skew.

## State of the development

Modelled: the contract, the geometry, the query protocol, the three locks,
`spinlock`, the sample queue, the statistics and the partitioner, the example;
the adapter, the harness, DEBRA and BST-TK. There are theorems about all of them
but the example, whose property is violated.

What could be added:

1. `Debra` with `index` reset in `initThread`, as a theorem about the repaired
   step: `Agree` is then an invariant for any number of stages, and
   `SafeReclamation` applies.
2. For `TicketTree`, a weaker hypothesis than `NoWrap`: that no side changes 2^16
   times *during one operation*. It needs versions counted without a limit beside
   the ones of 16 bits.
3. Other structures of `Benchmark-v700` over `Microbench` and `Reclamation`, in
   the way of `TicketTree`.
