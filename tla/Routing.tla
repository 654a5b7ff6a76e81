------------------------------ MODULE Routing -------------------------------
(***************************************************************************)
(* How Enqueue and EnqueueBulk make a job of a request: its queue and      *)
(* retries from the registry or from a legacy payload, and the job itself  *)
(* (internal/api/server.go).  Which backend and scheduler the server was   *)
(* given is chosen at the start and never changes.                         *)
(***************************************************************************)
EXTENDS Jobs, Store

CONSTANT Deployments   \* the backends and schedulers main may have built

ASSUME DeploymentAssumption == Deployments \subseteq Deployment

VARIABLE deployment

Backend   == deployment.backend
Scheduler == deployment.scheduler

\* The parts configured keep jobs (the noop ones only log them).
Durable == Backend = "pubsub" /\ Scheduler # "noop"

\* Mutant: an unregistered job type goes unmentioned.
getJobTypeConfig_NoWarning(p, n) ==
    IF HasJobType(p, n)
    THEN [priority   |-> storageQueueToQueuePriority(GetJobType(p, n).queue),
          maxRetries |-> GetJobType(p, n).maxRetries,
          warnings   |-> {}]
    ELSE [priority   |-> DefaultQueue,
          maxRetries |-> DefaultMaxRetries,
          warnings   |-> {}]

getJobTypeConfig(p, n) ==
    IF HasJobType(p, n)
    THEN [priority   |-> storageQueueToQueuePriority(GetJobType(p, n).queue),
          maxRetries |-> GetJobType(p, n).maxRetries,
          warnings   |-> {}]
    ELSE [priority   |-> DefaultQueue,
          maxRetries |-> DefaultMaxRetries,
          warnings   |-> {"jobType"}]

routingConfig(r) ==
    IF LegacyPayloadQueueRouting /\ HasLegacyPriority(r.payload)
    THEN [priority   |-> legacyPayloadPriority(r.payload),
          maxRetries |-> DefaultMaxRetries,
          warnings   |-> {}]
    ELSE getJobTypeConfig(r.producer, r.jobType)

\* Mutant: an unset run time is not replaced.
NewJob_NoDefaultRunAt(c, r, id, config, t) ==
    [call |-> c, id |-> id, producer |-> r.producer, type |-> r.jobType,
     priority |-> config.priority, payload |-> r.payload, runAt |-> r.runAt,
     maxRetries |-> config.maxRetries, shadow |-> shadowFromContext(r)]

\* The job of request r, built at time t.
NewJob(c, r, id, config, t) ==
    [call |-> c, id |-> id, producer |-> r.producer, type |-> r.jobType,
     priority |-> config.priority, payload |-> r.payload,
     runAt |-> IF r.runAt = NoRunAt THEN t ELSE r.runAt,
     maxRetries |-> config.maxRetries, shadow |-> shadowFromContext(r)]

-----------------------------------------------------------------------------
\* Job j, made of request r with the given warnings, agrees with the registry:
\* a legacy queue hint wins when the flag is on; otherwise the job has the
\* queue and retries of its job type, or the defaults together with a warning.
\* A producer nobody warned about is registered.
RoutedSoundly(r, j, warned) ==
    LET Legacy == LegacyPayloadQueueRouting /\ HasLegacyPriority(r.payload)
        Default == /\ j.priority = PriorityMedium
                   /\ j.maxRetries = DefaultMaxRetries
    IN  /\ "producer" \notin warned => GetProducer(r.producer)
        /\ Legacy => /\ PriorityString(j.priority) = r.payload.queue
                     /\ j.maxRetries = DefaultMaxRetries
                     /\ "jobType" \notin warned
        /\ ~Legacy /\ "jobType" \in warned => Default
        /\ ~Legacy /\ "jobType" \notin warned =>
              /\ HasJobType(r.producer, r.jobType)
              /\ j.maxRetries = GetJobType(r.producer, r.jobType).maxRetries
              /\ j.maxRetries > 0
              /\ j.priority = storageQueueToQueuePriority(
                                 GetJobType(r.producer, r.jobType).queue)
=============================================================================
