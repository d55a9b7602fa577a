\* Two threads, a reader, the training thread and the owner: safety,
\* refinement and liveness; trainings are bounded.
SPECIFICATION FairSpec
CONSTANTS
    ArraySize = 5
    kBlocks = 3
    kLockCnt = 2
    Threads = {t1, t2}
    NoOne = NoOne
    owner = owner
    training_thread_ = trainer
    Readers = {c1}
    Requests <- MCRequests
    MaxTrainings = 2
INVARIANTS
    UnlockedPublishIsQuiet
    PauseIsOwned
    CutsMatchMap
    CountIsExact
PROPERTIES
    RangeLockSpec
    TrainingCompletes
    QueriesAdmitted
