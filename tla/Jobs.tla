-------------------------------- MODULE Jobs --------------------------------
(***************************************************************************)
(* The vocabulary of jack-service and its pure functions: priorities,      *)
(* payloads, requests, jobs, and the conversions a job goes through on its *)
(* way to a Pub/Sub topic (internal/queue, internal/scheduler, and the     *)
(* routing helpers of internal/api/server.go).                             *)
(*                                                                         *)
(* Abstractions.  A producer id or job type name is a sequence of tokens   *)
(* (concatenation is then what the key function of the store really does). *)
(* A payload is described by its length, by whether it is absent ("nil"),  *)
(* well-formed JSON ("json") or other bytes ("raw"), and by the string its *)
(* top-level "queue" member holds ("" when there is none).  Times are      *)
(* ticks.  Description, trace and correlation ids, created_at/updated_at,  *)
(* metrics and log lines carry no control and are left out.                *)
(***************************************************************************)
EXTENDS Integers, Sequences

CONSTANTS
    ScheduleThreshold,         \* SCHEDULE_THRESHOLD, in ticks
    LegacyPayloadQueueRouting, \* LEGACY_PAYLOAD_QUEUE_ROUTING
    ConfiguredTopics,          \* the priorities whose PUBSUB_TOPIC_* is set
    EnvelopeSize               \* bytes of a task body besides the payload

-----------------------------------------------------------------------------
(* Priorities and topics *)

PriorityUnspecified == 0
PriorityImmediate   == 1
PriorityHigh        == 2
PriorityMedium      == 3
PriorityLow         == 4

Priority == PriorityUnspecified .. PriorityLow

QueueName == {"immediate", "high", "medium", "low", "unspecified"}

PriorityString(p) ==
    CASE p = PriorityImmediate -> "immediate"
      [] p = PriorityHigh      -> "high"
      [] p = PriorityMedium    -> "medium"
      [] p = PriorityLow       -> "low"
      [] OTHER                 -> "unspecified"

\* A topic is named after the priority it is configured for.
NoTopic == -1

\* Mutant: the fallback is another topic than medium.
topicFor_FallsBackHigh(p) ==
    IF p \in ConfiguredTopics THEN p
    ELSE IF PriorityHigh \in ConfiguredTopics THEN PriorityHigh
    ELSE NoTopic

topicFor(p) ==
    IF p \in ConfiguredTopics THEN p
    ELSE IF PriorityMedium \in ConfiguredTopics THEN PriorityMedium
    ELSE NoTopic

\* The Queue enum of storage.proto.  proto3 enums are open, so a stored value
\* may be one this build does not know.
StorageQueue == {"QUEUE_UNSPECIFIED", "QUEUE_IMMEDIATE", "QUEUE_HIGH",
                 "QUEUE_MEDIUM", "QUEUE_LOW", "QUEUE_UNKNOWN"}

storageQueueToQueuePriority(q) ==
    CASE q = "QUEUE_IMMEDIATE" -> PriorityImmediate
      [] q = "QUEUE_HIGH"      -> PriorityHigh
      [] q = "QUEUE_MEDIUM"    -> PriorityMedium
      [] q = "QUEUE_LOW"       -> PriorityLow
      [] OTHER                 -> PriorityMedium

-----------------------------------------------------------------------------
(* Requests *)

\* What the "queue" member holds: nothing, a known queue, or anything else.
QueueHint == {"", "immediate", "high", "medium", "low", "other"}

Payload == [size: Nat, form: {"nil", "json", "raw"}, queue: QueueHint]

\* req.RunAt == nil
NoRunAt == -1

Request == [producer: Seq(STRING), jobType: Seq(STRING), payload: Payload,
            runAt: Nat \cup {NoRunAt}, shadow: {"", "true", "other"}]

\* DefaultServerConfig; main.go overrides neither of the three.
MaxPayloadSize    == 1048576
DefaultQueue      == PriorityMedium
DefaultMaxRetries == 10

ValidRequest(r) ==
    /\ r.producer # <<>>
    /\ r.jobType # <<>>
    /\ r.payload.size <= MaxPayloadSize

\* The queue named inside a legacy payload, when it names a known one.
LegacyPriority == [immediate |-> PriorityImmediate, high |-> PriorityHigh,
                   medium    |-> PriorityMedium,    low  |-> PriorityLow]

HasLegacyPriority(payload) ==
    payload.form = "json" /\ payload.queue \in DOMAIN LegacyPriority

legacyPayloadPriority(payload) ==
    IF HasLegacyPriority(payload) THEN LegacyPriority[payload.queue]
                                  ELSE PriorityUnspecified

\* The gRPC metadata key "shadow" ("" when the header is missing).
shadowFromContext(r) == r.shadow = "true"

-----------------------------------------------------------------------------
(* Jobs and their two wire formats *)

\* The call field is auxiliary: it names the Enqueue call a job came from, so
\* that two jobs with the same generated id can be told apart.
Job(Calls, Ids) ==
    [call: Calls, id: Ids, producer: Seq(STRING), type: Seq(STRING),
     priority: Priority, payload: Payload, runAt: Nat,
     maxRetries: Int, shadow: BOOLEAN]

\* Job.Validate, which only the noop backend calls.
Validate(job) ==
    /\ job.producer # <<>>
    /\ job.type # <<>>
    /\ job.payload.size <= MaxPayloadSize

\* base64 in encoding/json: four characters for every three bytes begun.
Base64Len(n) == 4 * ((n + 2) \div 3)

MaxTaskBodySize == 95 * 1024

\* A Cloud Tasks body: the job's fields, the payload in base64, and the length
\* of the whole.
marshalJob(job) ==
    [call |-> job.call, id |-> job.id, producer |-> job.producer,
     type |-> job.type, priority |-> job.priority, payload |-> job.payload,
     runAt |-> job.runAt, maxRetries |-> job.maxRetries,
     shadow |-> job.shadow,
     len |-> EnvelopeSize + Base64Len(job.payload.size)]

\* Mutant: the shadow flag does not survive the task body.
UnmarshalJob_DropsShadow(body) ==
    [call |-> body.call, id |-> body.id, producer |-> body.producer,
     type |-> body.type, priority |-> body.priority, payload |-> body.payload,
     runAt |-> body.runAt, maxRetries |-> body.maxRetries, shadow |-> FALSE]

UnmarshalJob(body) ==
    [call |-> body.call, id |-> body.id, producer |-> body.producer,
     type |-> body.type, priority |-> body.priority, payload |-> body.payload,
     runAt |-> body.runAt, maxRetries |-> body.maxRetries,
     shadow |-> body.shadow]

\* encoding/json refuses a RawMessage that is not JSON; a nil one becomes null.
Marshalable(job) == job.payload.form # "raw"

\* The four bytes a nil payload becomes in a message.
NullJSON == [size |-> 4, form |-> "json", queue |-> ""]

\* LegacyAdapter.Marshal with the topic and the shadow attribute it is
\* published under.  Producer, retries and trace id are not in the message.
Marshal(job) ==
    [call |-> job.call, topic |-> topicFor(job.priority), id |-> job.id,
     runAt |-> job.runAt, queue |-> PriorityString(job.priority),
     args |-> IF job.payload.form = "nil" THEN NullJSON ELSE job.payload,
     jobType |-> job.type, shadow |-> job.shadow]

\* What main builds to publish and to schedule with (nil in tests only).
Deployment == [backend: {"pubsub", "noop"}, scheduler: {"cloudtasks", "noop", "nil"}]

\* backend.Enqueue returns an error before it has published anything.
BackendRefuses(backend, job) ==
    IF backend = "pubsub"
    THEN topicFor(job.priority) = NoTopic \/ ~Marshalable(job)
    ELSE ~Validate(job)

\* Mutant: a job exactly the threshold away is published at once.
UseScheduler_Strict(scheduler, job, t) ==
    /\ scheduler # "nil"
    /\ ScheduleThreshold > 0
    /\ job.runAt - t > ScheduleThreshold

\* The test that sends a job to the scheduler at time t.
UseScheduler(scheduler, job, t) ==
    /\ scheduler # "nil"
    /\ ScheduleThreshold > 0
    /\ job.runAt - t >= ScheduleThreshold

-----------------------------------------------------------------------------
ASSUME ConfigAssumption ==
    /\ ScheduleThreshold \in Int
    /\ LegacyPayloadQueueRouting \in BOOLEAN
    /\ ConfiguredTopics \subseteq PriorityImmediate .. PriorityLow
    /\ EnvelopeSize \in Nat
=============================================================================
