\* Batches of three, with two job ids that may collide.
SPECIFICATION FairSpec
CONSTANTS
    Batches <- MCBatches
    JobIds = {j1, j2}
    None = None
    MaxTime = 2
    ProducerIds <- MCProducerIds
    JobTypeNames <- MCNames
    Queues <- MCQueues
    RetryInputs <- MCRetries
    ScheduleThreshold = 2
    LegacyPayloadQueueRouting = FALSE
    ConfiguredTopics <- MCTopics
    Deployments <- MCDeployments
    EnvelopeSize = 80
INVARIANTS TypeOK BulkAckedHeld OneVerdict BulkRoutingSound
PROPERTIES NoEarlyBulk BulkAnswered BulkImplementsPromise
CHECK_DEADLOCK FALSE
