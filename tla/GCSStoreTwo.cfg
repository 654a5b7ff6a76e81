\* Two instances on one bucket: what still holds.
SPECIFICATION Spec
CONSTANTS
    Instances = {i1, i2}
    AdminCalls = {a1, a2, a3}
    None = None
    ProducerIds <- TwoProducers
    JobTypeNames <- TwoNames
    Queues = {"QUEUE_HIGH"}
    RetryInputs <- MCRetries
SYMMETRY TwoSymmetry
INVARIANT OwnEntries
PROPERTY MonotonicReads
