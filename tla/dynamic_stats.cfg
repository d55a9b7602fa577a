\* Samples, resets and rebuilds, counter by counter; two locks, four blocks.
SPECIFICATION StatsSpec
CONSTANTS
    ArraySize = 7
    kBlocks = 4
    kLockCnt = 2
    Samplers = {t1, t2}
    Callers = {c1}
    Savers = {c1}
    rebuild_thread_ = r0
    Nobody = nobody
    Ranges <- MCRequests
    kBoundaryCrossingPenalty = 2
    kMinOps = 2
    MinSkew = 2
    GainNum = 1
    GainDen = 1
    MaxHits = 1
INVARIANTS
    OptimizeIsOptimal
    TornByAtMostOne
    FreshStatistics
SYMMETRY MCSymmetry
