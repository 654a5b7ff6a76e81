\* Pub/Sub without Cloud Tasks.
SPECIFICATION Spec
CONSTANTS
    Calls = {c1}
    Slots = {k1}
    JobIds = {j1}
    None = None
    MaxTime = 1
    Requests <- FutureRequests
    ProducerIds <- MCProducerIds
    JobTypeNames <- MCNames
    Queues <- MCQueues
    RetryInputs <- MCRetries
    ScheduleThreshold = 1
    LegacyPayloadQueueRouting = FALSE
    ConfiguredTopics <- MCTopics
    Deployments <- NoTasks
    EnvelopeSize = 80
INVARIANT FutureJobsNotDelayed
CHECK_DEADLOCK FALSE
