\* Two calls, two callbacks, two job ids that may collide; jobs of high priority
\* have a topic, those of medium priority have none.
SPECIFICATION Spec
CONSTANTS
    Calls = {c1, c2}
    Slots = {k1, k2}
    JobIds = {j1, j2}
    None = None
    MaxTime = 2
    Requests <- MixedRequests
    ProducerIds = {}
    JobTypeNames <- MCNames
    Queues <- MCQueues
    RetryInputs <- MCRetries
    ScheduleThreshold = 2
    LegacyPayloadQueueRouting = TRUE
    ConfiguredTopics <- HighOnly
    Deployments <- Real
    EnvelopeSize = 80
SYMMETRY Symmetry
INVARIANTS TypeOK AckedJobHeld NoTaskDropped PublishedFaithful
PROPERTIES NoEarlyPublish ImplementsPromise
CHECK_DEADLOCK FALSE
