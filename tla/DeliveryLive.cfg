\* Fair executions of two jobs with one callback handler between them; one job
\* may be impossible to publish.
SPECIFICATION FairSpec
CONSTANTS
    Calls = {c1, c2}
    Slots = {k1}
    JobIds = {j1, j2}
    None = None
    MaxTime = 1
    Requests <- LiveRequests
    ProducerIds = {}
    JobTypeNames <- MCNames
    Queues <- MCQueues
    RetryInputs <- MCRetries
    ScheduleThreshold = 1
    LegacyPayloadQueueRouting = FALSE
    ConfiguredTopics = {3}
    Deployments <- Real
    EnvelopeSize = 80
PROPERTY AckedDelivered
CHECK_DEADLOCK FALSE
