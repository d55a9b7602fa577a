\* Training with a shift of one block, so that the cuts in use lag behind the
\* remembered ones.
SPECIFICATION Spec
CONSTANTS
    ArraySize = 14
    kBlocks = 7
    kLockCnt = 3
    Queries <- MCQueries
    MaxBatch = 1
    max_components_ = 1
    component_query_limit_ = 2
    population_size_ = 2
    elite_count_ = 1
    generation_count_ = 1
    max_cut_shift_per_batch_ = 1
    MutexPenalty = 2
INVARIANTS
    TypeOK
    ShiftPerBatch
    TrainingNeverHurts
PROPERTIES
    CutsCatchUp
