\* Liveness under fair scheduling, and the inductive invariant of the proofs:
\* calls never cease to be possible, rebuilds are bounded.
SPECIFICATION FairSpec
CONSTANTS
    ArraySize = 7
    kBlocks = 4
    kLockCnt = 2
    Threads = {t1, t2}
    Callers = {}
    rebuild_thread_ = bg
    NoOne = NoOne
    Requests <- MCRequests
    MaxRebuilds = 1
INVARIANTS
    IInv
    CountIsExact
PROPERTIES
    RangeLockSpec
    RebuildCompletes
    StopReturns
    QueriesComplete
