\* The threads are initialised a second time.
SPECIFICATION Spec
CONSTANTS
    MaxThreads = 2
    Keys = {1}
    Stages <- MCTwoStages
    Records = {r1, r2, r3}
    MaxRetired = 2
    BLOCK_SIZE = 2
    MIN_OPS_BEFORE_READ = 1
SYMMETRY MCSymmetry
PROPERTIES
    RotationIsLate
