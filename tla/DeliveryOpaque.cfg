\* A payload that is not JSON, for later.
SPECIFICATION FairSpec
CONSTANTS
    Calls = {c1}
    Slots = {k1}
    JobIds = {j1}
    None = None
    MaxTime = 1
    Requests <- FutureRequests
    ProducerIds <- MCProducerIds
    JobTypeNames <- MCNames
    Queues <- MCQueues
    RetryInputs <- MCRetries
    ScheduleThreshold = 1
    LegacyPayloadQueueRouting = FALSE
    ConfiguredTopics <- MCTopics
    Deployments <- Real
    EnvelopeSize = 80
PROPERTY OpaquePayloadDelivered
CHECK_DEADLOCK FALSE
