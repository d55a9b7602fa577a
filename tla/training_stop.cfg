\* StopRebuilder against a trainer that is about to wait.
SPECIFICATION FairSpec
CONSTANTS
    Workers = {w1, w2}
    training_batch_size_ = 2
    kLocalTrainingFlushSize = 1
    training_sample_rate_ = 1
    training_probe_gap_ = 1
    MaxOperations = 5
    MaxSamples = 4
PROPERTIES
    StopReturns
