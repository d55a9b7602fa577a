\* Two threads, the background rebuilder and a caller of RebuildNow: safety.
SPECIFICATION Spec
CONSTANTS
    ArraySize = 7
    kBlocks = 4
    kLockCnt = 2
    Threads = {t1, t2}
    Callers = {c1}
    rebuild_thread_ = bg
    NoOne = NoOne
    Requests <- MCOneRequest
    MaxRebuilds = 2
SYMMETRY MCSymmetry
INVARIANTS
    HoldsCurrentLocks
    PauseIsOwned
PROPERTIES
    GainNotStale
