\* The final check of the example; the program ends when all have joined.
SPECIFICATION Spec
CONSTANTS
    ArraySize = 4
    kBlocks = 2
    kLockCnt = 2
    Threads = {t1, t2, t3}
SYMMETRY MCSymmetry
CHECK_DEADLOCK FALSE
INVARIANTS
    CorrectResult
