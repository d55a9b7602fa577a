\* Queue and probe: two workers, the trainer and the owner.
SPECIFICATION FairSpec
CONSTANTS
    Workers = {w1, w2}
    training_batch_size_ = 4
    kLocalTrainingFlushSize = 2
    training_sample_rate_ = 2
    training_probe_gap_ = 1
    MaxOperations = 10
    MaxSamples = 6
INVARIANTS
    SamplesConserved
    NoMissedBatch
    ProbeIsNear
PROPERTIES
    BatchIsTaken
