\* The harness, the adapter and NaiveLock on spinlocks.
SPECIFICATION FairSpec
CONSTANTS
    MaxThreads = 2
    Keys = {1, 2}
    Stages <- MCStages
    kLockCnt = 2
INVARIANTS
    ReadStaysValid
    OperationsCounted
PROPERTIES
    RangeLockSpec
    DictionarySpec
    BenchTerminates
