------------------------- MODULE GeneticPartitioner -------------------------
(***************************************************************************)
(* GeneticPartitioner<kLockCnt, kBlocks>::ObserveBatch, by which           *)
(* GeneticLock finds new cuts: the batch is assigned to a component (a     *)
(* mode of the workload), the component's remembered partitioning is       *)
(* approached, then either a load-balanced one is taken or a population of *)
(* partitionings is evolved.  It runs under training_mutex_, so there is   *)
(* no interleaving; its phases are steps one after another.                *)
(*                                                                         *)
(* Profiles, centroids, distances and masses are left out: which component *)
(* a batch goes to, and what the load-balanced partitioning of a centroid  *)
(* is, is left open.  So are the random choices.  The fitness of a         *)
(* partitioning is computed as in the code, times the number of queries.   *)
(***************************************************************************)
EXTENDS BlockMap, SequencesExt

CONSTANTS
    Queries,                    \* the queries <<left, right>> in batches
    MaxBatch,                   \* bound: the length of a batch
    max_components_, component_query_limit_,
    population_size_, elite_count_, generation_count_,
    max_cut_shift_per_batch_,
    MutexPenalty                \* weight of avg_mutexes in the fitness (5000)

ASSUME PartitionerAssumption ==
    /\ Queries \subseteq {query \in Positions \X Positions : query[1] <= query[2]}
    /\ max_components_ \in Nat \ {0} /\ component_query_limit_ \in Nat \ {0}
    /\ population_size_ \in Nat \ {0} /\ elite_count_ \in 1 .. population_size_
    /\ generation_count_ \in Nat /\ max_cut_shift_per_batch_ \in Nat \ {0}
    /\ MutexPenalty \in Nat /\ MaxBatch \in Nat \ {0}

VARIABLES
    current_,           \* the partitioning in use
    components_,        \* queries and best partitioning of each component
    active_component_,  \* index of the one the last batch went to
    ppc,                \* the phase of ObserveBatch
    start_partition,    \* current_ when this batch's training began
    population, generation,
    previous            \* history: current_ before this batch

memoryVars == <<components_, active_component_>>
geneVars   == <<population, generation>>
vars == <<current_, memoryVars, ppc, start_partition, geneVars, previous>>

NoCuts  == <<>>
Batches == UNION {[1 .. n -> Queries] : n \in 1 .. MaxBatch}

Init ==
    /\ current_ = UniformCuts
    /\ components_ = <<>>
    /\ active_component_ = 0
    /\ ppc = "idle"
    /\ start_partition = UniformCuts
    /\ population = {}
    /\ generation = 0
    /\ previous = UniformCuts

-----------------------------------------------------------------------------
(* Evaluate                                                                *)

FindLockForBlock(cuts, block) ==
    CHOOSE l \in Locks : cuts[l] <= block /\ block < cuts[l + 1]

QueryBlocks(query) == BlocksOf(query[1], query[2])

block_hits(queries, block) ==
    Cardinality({q \in DOMAIN queries : block \in QueryBlocks(queries[q])})

(* The sum of the squares of the hits on each lock's blocks.               *)
ContentionScore(cuts, queries) ==
    LET load(l) == MapThenSumSet(LAMBDA b : block_hits(queries, b),
                                 cuts[l] .. cuts[l + 1] - 1)
    IN  MapThenSumSet(LAMBDA l : load(l) * load(l), Locks)

TotalLocks(cuts, queries) ==
    MapThenSumSet(
        LAMBDA q : FindLockForBlock(cuts, PositionToBlock(queries[q][2]))
                     - FindLockForBlock(cuts, PositionToBlock(queries[q][1])) + 1,
        DOMAIN queries)

Fitness(cuts, queries) ==
    ContentionScore(cuts, queries) * Len(queries)
      + MutexPenalty * TotalLocks(cuts, queries)

-----------------------------------------------------------------------------
(* Operations on cuts.  The internal cuts are those strictly between 0 and *)
(* kBlocks.                                                                *)

Internal(cuts) == [i \in 1 .. kLockCnt - 1 |-> cuts[i]]

FromInternal(internal) ==
    [l \in 0 .. kLockCnt |-> CASE l = 0        -> 0
                               [] l = kLockCnt -> kBlocks
                               [] OTHER        -> internal[l]]

(* Mutant: the pass that bounds the cuts from above is missing.            *)
RepairUpwardsOnly(internal) ==
    LET up[i \in DOMAIN internal] ==
            IF i = 1 THEN Greater(1, internal[1])
                     ELSE Greater(internal[i], up[i - 1] + 1)
    IN  up

(* Three passes: strictly increasing from 1 on, room for those to come,    *)
(* strictly increasing again.                                              *)
RepairInternalCuts(internal) ==
    LET count == Len(internal)
        up[i \in DOMAIN internal] ==
            IF i = 1 THEN Greater(1, Lesser(internal[1], kBlocks - count))
                     ELSE Greater(internal[i], up[i - 1] + 1)
        bounded == [i \in DOMAIN internal |->
                      Lesser(up[i], kBlocks - (count - (i - 1)))]
        again[i \in DOMAIN internal] ==
            IF i = 1 THEN bounded[1]
                     ELSE Greater(bounded[i], again[i - 1] + 1)
    IN  again

(* Mutant: the cuts jump to the target.                                    *)
MoveAllTheWay(from, target) == target

(* Mutant: a distance within the shift is left as it is.                   *)
MoveAlmost(from, target) ==
    LET shift == max_cut_shift_per_batch_
        moved(i) == CASE from[i] + shift < target[i] -> from[i] + shift
                      [] target[i] + shift < from[i] -> from[i] - shift
                      [] OTHER -> from[i]
    IN  FromInternal(RepairInternalCuts(
            [i \in 1 .. kLockCnt - 1 |-> moved(i)]))

(* Every internal cut goes to the target's, but not further than the shift *)
(* allowed.                                                                *)
MoveToward(from, target) ==
    LET shift == max_cut_shift_per_batch_
        moved(i) == IF from[i] < target[i]
                    THEN Lesser(from[i] + shift, target[i])
                    ELSE Greater(IF from[i] > shift THEN from[i] - shift ELSE 1,
                                 target[i])
    IN  IF from = target THEN from
        ELSE FromInternal(RepairInternalCuts(
                [i \in 1 .. kLockCnt - 1 |-> moved(i)]))

(* std::ranges::sort: in place i the least cut that i cuts do not exceed.  *)
Sorted(internal) ==
    [i \in DOMAIN internal |->
        Min({c \in Range(internal) :
               i <= Cardinality({j \in DOMAIN internal : internal[j] <= c})})]

Repaired(internal) == FromInternal(RepairInternalCuts(Sorted(internal)))

(* Each cut of a child is that of one of its parents.                      *)
Crossovers(lhs, rhs) ==
    {Repaired([i \in 1 .. kLockCnt - 1 |-> IF i \in mask THEN lhs[i] ELSE rhs[i]]) :
        mask \in SUBSET (1 .. kLockCnt - 1)}

(* Two to five cuts are shifted by up to 32 blocks and stay inside; with   *)
(* at most 32 blocks and 5 cuts, that is anywhere.                         *)
Mutations == {Repaired(internal) :
                internal \in [1 .. kLockCnt - 1 -> 1 .. kBlocks - 1]}

Children(elites) ==
    Mutations \cup UNION {Crossovers(lhs, rhs) : lhs, rhs \in elites}

-----------------------------------------------------------------------------
(* ObserveBatch                                                            *)

active == components_[active_component_]

(* AppendQueries: only the last component_query_limit_ are kept.           *)
Append_(queries, batch) ==
    LET all == queries \o batch
        drop == Greater(0, Len(all) - component_query_limit_)
    IN  SubSeq(all, drop + 1, Len(all))

FreshComponent(batch) == [queries |-> Append_(<<>>, batch), best |-> NoCuts]

(* AssignBatchToComponent: a new component while there is room, else a     *)
(* reset one, or the nearest one.                                          *)
Assigned(batch, index) ==
    \/ /\ index = Len(components_) + 1
       /\ index <= max_components_
       /\ components_' = Append(components_, FreshComponent(batch))
    \/ /\ index \in DOMAIN components_
       /\ Len(components_) = max_components_
       /\ components_' = [components_ EXCEPT ![index] = FreshComponent(batch)]
    \/ /\ index \in DOMAIN components_
       /\ components_' = [components_ EXCEPT
                            ![index].queries = Append_(@, batch)]

(* ... and ActivateComponent: its remembered partitioning is approached.   *)
ObserveBatch(batch) ==
    /\ ppc = "idle"
    /\ \E index \in 1 .. max_components_ :
          /\ Assigned(batch, index)
          /\ active_component_' = index
          /\ current_' = LET best == components_'[index].best IN
                         IF best = NoCuts THEN current_
                                          ELSE MoveToward(current_, best)
    /\ ppc' = "guided"
    /\ previous' = current_
    /\ start_partition' = current_'
    /\ UNCHANGED geneVars

(* RememberBestForActiveComponent: fitness on the present queries decides. *)
RememberBest(candidate) ==
    components_' =
        [components_ EXCEPT ![active_component_].best =
            IF \/ @ = NoCuts
               \/ Fitness(candidate, active.queries) <= Fitness(@, active.queries)
            THEN candidate ELSE @]

(* ApplyProfileGuidedPartition: the load-balanced partitioning is taken if *)
(* it is at least 2 % better ...                                           *)
GuidedIsBetter(guided) ==
    /\ guided # current_
    /\ Fitness(guided, active.queries) * 100
         <= Fitness(current_, active.queries) * 98

ApplyGuided ==
    /\ ppc = "guided"
    /\ \E guided \in Cuts :
          /\ GuidedIsBetter(guided)
          /\ RememberBest(guided)
          /\ current_' = MoveToward(start_partition, guided)
    /\ ppc' = "idle"
    /\ UNCHANGED <<active_component_, start_partition, geneVars, previous>>

(* ... otherwise, or if the remembered one is in use and the profile has   *)
(* not changed, it is not.                                                 *)
RejectGuided ==
    /\ ppc = "guided"
    /\ \/ active.best = current_
       \/ \E guided \in Cuts : ~GuidedIsBetter(guided)
    /\ ppc' = IF generation_count_ = 0 THEN "idle" ELSE "seed"
    /\ UNCHANGED <<current_, memoryVars, start_partition, geneVars, previous>>

(* SeedPopulation: current_, the remembered partitioning if there is room, *)
(* and others.                                                             *)
SeedPopulation ==
    /\ ppc = "seed"
    /\ \E others \in [1 .. population_size_ - 1 -> Cuts] :
          /\ population' = {current_} \cup Range(others)
          /\ population_size_ > 1 /\ active.best # NoCuts
                => active.best \in population'
    /\ generation' = 0
    /\ ppc' = "evolve"
    /\ UNCHANGED <<current_, memoryVars, start_partition, previous>>

(* Mutant: sorted the wrong way round.                                     *)
FitterLast(elite, other) ==
    Fitness(elite, active.queries) >= Fitness(other, active.queries)

Fitter(elite, other) ==
    Fitness(elite, active.queries) <= Fitness(other, active.queries)

(* A generation: the fittest survive, the others are replaced by children  *)
(* of these.                                                               *)
NextGeneration ==
    /\ ppc = "evolve"
    /\ generation < generation_count_
    /\ generation' = generation + 1
    /\ \E elites \in SUBSET population :
          /\ elites # {} /\ Cardinality(elites) <= elite_count_
          /\ \A elite \in elites, other \in population \ elites :
                Fitter(elite, other)
          /\ \E children \in [1 .. population_size_ - elite_count_
                               -> Children(elites)] :
                population' = elites \cup Range(children)
    /\ UNCHANGED <<current_, memoryVars, ppc, start_partition, previous>>

(* The end of TrainOnActiveComponent.                                      *)
FinishTraining ==
    /\ ppc = "evolve"
    /\ generation = generation_count_
    /\ \E front \in population :
          /\ \A other \in population : Fitter(front, other)
          /\ RememberBest(front)
    /\ current_' = MoveToward(start_partition,
                              components_'[active_component_].best)
    /\ ppc' = "idle"
    /\ population' = {}
    /\ generation' = 0
    /\ UNCHANGED <<active_component_, start_partition, previous>>

Next ==
    \/ \E batch \in Batches : ObserveBatch(batch)
    \/ ApplyGuided \/ RejectGuided \/ SeedPopulation \/ NextGeneration
    \/ FinishTraining

Spec == Init /\ [][Next]_vars

-----------------------------------------------------------------------------

(* Whatever is repaired, crossed, mutated or moved, every partitioning has *)
(* nonempty partitions that cover all blocks (this is what GeneticLock.tla *)
(* assumes of TrainedCuts), and no component keeps too many queries.       *)
TypeOK ==
    /\ current_ \in Cuts /\ start_partition \in Cuts /\ previous \in Cuts
    /\ \A index \in DOMAIN components_ :
          /\ components_[index].best \in Cuts \cup {NoCuts}
          /\ Len(components_[index].queries) \in 1 .. component_query_limit_
    /\ Len(components_) <= max_components_
    /\ active_component_ \in 0 .. Len(components_)
    /\ population \subseteq Cuts
    /\ ppc \in {"idle", "guided", "seed", "evolve"}

(* Training never hurts: what a component remembers after a batch that it  *)
(* was trained on is at least as good for its queries as the cuts in use   *)
(* before the training, and with the default shift it is in use then.      *)
TrainingNeverHurts ==
    ppc = "idle" /\ active_component_ # 0 /\ generation_count_ > 0 =>
        /\ Fitness(active.best, active.queries)
              <= Fitness(start_partition, active.queries)
        /\ max_cut_shift_per_batch_ >= kBlocks
              => Fitness(current_, active.queries)
                   <= Fitness(start_partition, active.queries)

(* The cuts in use lag behind the remembered ones: a batch moves them by a *)
(* limited shift, all at once and through a repair, and even away if it    *)
(* brings a load-balanced partitioning that is better than they are and    *)
(* worse than the remembered one.  But they catch up: if batches go on to  *)
(* be trained on and what is remembered for them stays the same, it is in  *)
(* use in the end, for good.                                               *)
remembered == IF active_component_ = 0 THEN NoCuts ELSE active.best
CutsCatchUp ==
    (<>[][remembered' = remembered]_vars /\ []<><<FinishTraining>>_vars)
        => <>[](current_ = remembered)

(* max_cut_shift_per_batch_ bounds each of the two moves that a batch can  *)
(* bring (ActivateComponent's and training's), so a batch moves no cut     *)
(* further than twice that.                                                *)
ShiftPerBatch ==
    ppc = "idle" =>
        \A l \in 0 .. kLockCnt :
            /\ current_[l] - previous[l] <= 2 * max_cut_shift_per_batch_
            /\ previous[l] - current_[l] <= 2 * max_cut_shift_per_batch_
=============================================================================
