\* One instance, three administrators, crashes and ambiguous writes.
SPECIFICATION FairSpec
CONSTANTS
    Instances = {i1}
    AdminCalls = {a1, a2, a3}
    None = None
    ProducerIds <- TwoProducers
    JobTypeNames <- OneName
    Queues <- MCQueues
    RetryInputs <- MCRetries
INVARIANTS TypeOK ConfirmedDurable ConfirmedVisible SeenDurable RefIntegrity UniqueConfirm
PROPERTIES ImplementsStore AdminAnswered
