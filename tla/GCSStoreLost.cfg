\* Two instances on one bucket lose a confirmed producer.
SPECIFICATION Spec
CONSTANTS
    Instances = {i1, i2}
    AdminCalls = {a1, a2}
    None = None
    ProducerIds <- TwoProducers
    JobTypeNames <- OneName
    Queues <- MCQueues
    RetryInputs <- MCRetries
INVARIANT ConfirmedDurable
