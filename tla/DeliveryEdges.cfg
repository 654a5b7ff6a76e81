\* Every early return and routing rule, with the legacy queue hint on and two
\* configured topics out of four, with and without Cloud Tasks and Pub/Sub.
SPECIFICATION FairSpec
CONSTANTS
    Calls = {c1}
    Slots = {k1}
    JobIds = {j1}
    None = None
    MaxTime = 2
    Requests <- EdgeRequests
    ProducerIds <- MCProducerIds
    JobTypeNames <- MCNames
    Queues <- StorageQueue
    RetryInputs <- EdgeRetries
    ScheduleThreshold = 2
    LegacyPayloadQueueRouting = TRUE
    ConfiguredTopics <- MCTopics
    Deployments <- EdgeDeployments
    EnvelopeSize = 80
INVARIANTS PublishedFaithful RoutingSound OkMeansPublished
PROPERTY Answered
CHECK_DEADLOCK FALSE
