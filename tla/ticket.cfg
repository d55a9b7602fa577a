\* The ticket tree under two threads, with reclamation and reuse of nodes.
SPECIFICATION FairSpec
CONSTANTS
    MaxThreads = 2
    Keys = {1, 2}
    Stages <- MCStages
    MaxNodes = 11
INVARIANTS
    NoFreedAccess
    TreeOK
    KeySumOK
PROPERTIES
    DictionarySpec
    BenchTerminates
