------------------------------- MODULE Config -------------------------------
(***************************************************************************)
(* How environment variables become the configuration (internal/cenv,      *)
(* internal/config).  The text of a variable is a sequence of tokens, " "  *)
(* among them; an unset variable has the empty text.  Variables that only  *)
(* travel into names and tags (GCS_PREFIX, CLOUD_TASKS_LOCATION, _QUEUE    *)
(* and _SERVICE_ACCOUNT, ENV) carry no control and are left out.           *)
(***************************************************************************)
EXTENDS Integers, Sequences, FiniteSetsExt

CONSTANTS
    Atoi,          \* strconv.Atoi, on the texts it accepts
    ParseBool,     \* strconv.ParseBool, likewise
    ParseDuration  \* time.ParseDuration, likewise, in seconds

Variable == {"GRPC_PORT", "GCS_BUCKET", "QUEUE_BACKEND", "DATADOG_STATSD_ADDR",
             "PUBSUB_PROJECT", "PUBSUB_TOPIC_HIGH", "PUBSUB_TOPIC_MEDIUM",
             "PUBSUB_TOPIC_LOW", "PUBSUB_TOPIC_IMMEDIATE", "CLOUD_TASKS_PROJECT",
             "CALLBACK_BASE_URL", "SCHEDULE_THRESHOLD",
             "LEGACY_PAYLOAD_QUEUE_ROUTING"}

\* The tokens that are trimmed.
Blank == " "
Slash == "/"

\* The positions of text t that do not hold the token x.
Other(t, x) == {i \in DOMAIN t : t[i] # x}

\* strings.TrimRight, for one token.
TrimRight(t, x) == IF Other(t, x) = {} THEN <<>> ELSE SubSeq(t, 1, Max(Other(t, x)))

TrimSpace(t) ==
    IF Other(t, Blank) = {} THEN <<>>
    ELSE SubSeq(t, Min(Other(t, Blank)), Max(Other(t, Blank)))

\* Mutant: the text is taken as it is.
Get_Untrimmed(env, key) == env[key]

Get(env, key) == TrimSpace(env[key])

GetOrDefault(env, key, default) ==
    IF Get(env, key) = <<>> THEN default ELSE Get(env, key)

GetIntOrDefault(env, key, default) ==
    IF Get(env, key) \in DOMAIN Atoi THEN Atoi[Get(env, key)] ELSE default

GetBool(env, key) == Get(env, key) \in DOMAIN ParseBool /\ ParseBool[Get(env, key)]

GetDurationOrDefault(env, key, default) ==
    IF Get(env, key) \in DOMAIN ParseDuration THEN ParseDuration[Get(env, key)]
                                              ELSE default

Load(env) ==
    [DatadogStatsdAddr |-> Get(env, "DATADOG_STATSD_ADDR"),
     GRPCPort |-> GetIntOrDefault(env, "GRPC_PORT", 50051),
     GCSBucket |-> Get(env, "GCS_BUCKET"),
     QueueBackend |-> GetOrDefault(env, "QUEUE_BACKEND", <<"noop">>),
     PubSubProject |-> Get(env, "PUBSUB_PROJECT"),
     PubSubTopicHigh |-> Get(env, "PUBSUB_TOPIC_HIGH"),
     PubSubTopicMedium |-> Get(env, "PUBSUB_TOPIC_MEDIUM"),
     PubSubTopicLow |-> Get(env, "PUBSUB_TOPIC_LOW"),
     PubSubTopicImmediate |-> Get(env, "PUBSUB_TOPIC_IMMEDIATE"),
     CloudTasksProject |-> Get(env, "CLOUD_TASKS_PROJECT"),
     CallbackBaseURL |-> Get(env, "CALLBACK_BASE_URL"),
     ScheduleThreshold |-> GetDurationOrDefault(env, "SCHEDULE_THRESHOLD", 60),
     LegacyPayloadQueueRouting |-> GetBool(env, "LEGACY_PAYLOAD_QUEUE_ROUTING")]
=============================================================================
