--------------------------- MODULE RoutingProofs ----------------------------
(***************************************************************************)
(* What the proofs about Enqueue and EnqueueBulk share: the types of the   *)
(* helpers of Jobs, the registry, and routing.                             *)
(***************************************************************************)
EXTENDS Routing, TLAPS

-----------------------------------------------------------------------------
(* What the helpers return. *)

\* The queue of a job type always gives a known priority.
LEMMA QueuePriority ==
    \A q : storageQueueToQueuePriority(q) \in Priority \ {PriorityUnspecified}
BY DEF storageQueueToQueuePriority, Priority, PriorityUnspecified,
       PriorityImmediate, PriorityHigh, PriorityMedium, PriorityLow

\* A legacy hint gives a known priority.
LEMMA LegacyPriorityType ==
    \A p \in Payload : legacyPayloadPriority(p) \in Priority
BY DEF legacyPayloadPriority, HasLegacyPriority, LegacyPriority, Payload,
       Priority, PriorityUnspecified, PriorityImmediate, PriorityHigh,
       PriorityMedium, PriorityLow

\* topicFor gives a configured topic or none.
LEMMA TopicType ==
    ASSUME NEW p
    PROVE  topicFor(p) \in Priority \cup {NoTopic}
<1>1. topicFor(p) \in ConfiguredTopics \cup {NoTopic}
  BY Zenon DEF topicFor
<1>2. ConfiguredTopics \subseteq Priority
  BY ConfigAssumption DEF ConfigAssumption, Priority, PriorityUnspecified,
     PriorityImmediate, PriorityMedium, PriorityLow
<1> QED
  BY <1>1, <1>2

\* The length of an encoded payload is a natural number.
LEMMA Base64Type == \A n \in Nat : Base64Len(n) \in Nat
BY DEF Base64Len

\* Every priority, known or not, has a queue name.
LEMMA PriorityStringType == ASSUME NEW p PROVE PriorityString(p) \in QueueName
BY DEF PriorityString, QueueName

\* A request's run time is an integer.
LEMMA RunAtInt == \A r \in Request : r.runAt \in Int
<1>1. TAKE r \in Request
<1>2. r.runAt \in Nat \cup {NoRunAt}
  BY DEF Request
<1> QED BY <1>2 DEF NoRunAt

-----------------------------------------------------------------------------
(* The registry. *)

\* Setting a key adds it to the domain and keeps the type of the values.
LEMMA PutType ==
    ASSUME NEW V, NEW m, m \in [DOMAIN m -> V], NEW k, NEW v \in V
    PROVE  /\ DOMAIN Put(m, k, v) = DOMAIN m \cup {k}
           /\ Put(m, k, v) \in [DOMAIN m \cup {k} -> V]
BY DEF Put

\* Administrators keep the registry well typed.
LEMMA RegistryType == StoreTypeOK /\ StoreNext => StoreTypeOK'
<1>1. ASSUME StoreTypeOK, NEW p \in ProducerIds, CreateProducer(p)
      PROVE  StoreTypeOK'
  BY <1>1 DEF CreateProducer, StoreTypeOK
<1>2. ASSUME StoreTypeOK, NEW p \in ProducerIds, NEW n \in JobTypeNames,
             NEW q \in Queues, NEW r \in RetryInputs,
             CreateJobType(p, n, q, r)
      PROVE  StoreTypeOK'
  <2> DEFINE k == jobTypeKey(p, n)
             v == NewJobType(p, n, q, r)
  <2>1. v \in JobTypeEntry
    BY RegistryAssumption
    DEF RegistryAssumption, NewJobType, JobTypeEntry, MaxRetriesOf
  <2>2. k \in Keys
    BY DEF Keys
  <2>3. jobTypes' = Put(jobTypes, k, v) /\ producers' = producers
    BY <1>2 DEF CreateJobType
  <2>4. jobTypes \in [DOMAIN jobTypes -> JobTypeEntry]
    BY <1>2 DEF StoreTypeOK
  <2> HIDE DEF k, v
  <2>5. /\ DOMAIN Put(jobTypes, k, v) = DOMAIN jobTypes \cup {k}
        /\ Put(jobTypes, k, v) \in [DOMAIN jobTypes \cup {k} -> JobTypeEntry]
    BY <2>1, <2>4, PutType
  <2> QED
    BY <1>2, <2>2, <2>3, <2>5 DEF StoreTypeOK
<1> QED
  BY <1>1, <1>2 DEF StoreNext

\* Where a job goes is a priority the service knows.
LEMMA RoutingType ==
    ASSUME StoreTypeOK, NEW r \in Request
    PROVE  /\ routingConfig(r).priority \in Priority
           /\ routingConfig(r).maxRetries \in Int
           /\ routingConfig(r).warnings \subseteq {"producer", "jobType"}
<1>1. DefaultQueue \in Priority /\ DefaultMaxRetries \in Int
  BY DEF DefaultQueue, DefaultMaxRetries, Priority, PriorityUnspecified,
         PriorityMedium, PriorityLow
<1>2. legacyPayloadPriority(r.payload) \in Priority
  BY LegacyPriorityType DEF Request
<1>3. HasJobType(r.producer, r.jobType)
        => GetJobType(r.producer, r.jobType).maxRetries \in Int
  BY DEF HasJobType, GetJobType, StoreTypeOK, JobTypeEntry
<1>4. storageQueueToQueuePriority(GetJobType(r.producer, r.jobType).queue) \in Priority
  BY QueuePriority
<1> QED
  BY <1>1, <1>2, <1>3, <1>4 DEF routingConfig, getJobTypeConfig

\* Entries are never removed and never change.
LEMMA RegistryGrows ==
    ASSUME StoreNext
    PROVE  /\ producers \subseteq producers'
           /\ DOMAIN jobTypes \subseteq DOMAIN jobTypes'
           /\ \A k \in DOMAIN jobTypes : jobTypes'[k] = jobTypes[k]
<1>1. ASSUME NEW p \in ProducerIds, CreateProducer(p)
      PROVE  producers \subseteq producers' /\ jobTypes' = jobTypes
  BY <1>1 DEF CreateProducer
<1>2. ASSUME NEW p \in ProducerIds, NEW n \in JobTypeNames, NEW q \in Queues,
             NEW r \in RetryInputs, CreateJobType(p, n, q, r)
      PROVE  /\ producers' = producers
             /\ DOMAIN jobTypes \subseteq DOMAIN jobTypes'
             /\ \A k \in DOMAIN jobTypes : jobTypes'[k] = jobTypes[k]
  BY <1>2 DEF CreateJobType, Put
<1> QED BY <1>1, <1>2 DEF StoreNext

\* Every job type that is stored may be tried at least once.
Retried == \A k \in DOMAIN jobTypes : jobTypes[k].maxRetries > 0

\* Zero and negative retry counts never enter the registry.
LEMMA RetriedStep ==
    ASSUME Retried, StoreNext
    PROVE  Retried'
<1>1. ASSUME NEW p \in ProducerIds, CreateProducer(p) PROVE Retried'
  BY <1>1 DEF CreateProducer, Retried
<1>2. ASSUME NEW p \in ProducerIds, NEW n \in JobTypeNames, NEW q \in Queues,
             NEW r \in RetryInputs, CreateJobType(p, n, q, r)
      PROVE  Retried'
  <2> DEFINE k == jobTypeKey(p, n)
             v == NewJobType(p, n, q, r)
  <2>1. v.maxRetries > 0
    BY RegistryAssumption DEF RegistryAssumption, NewJobType, MaxRetriesOf
  <2>2. jobTypes' = Put(jobTypes, k, v)
    BY <1>2 DEF CreateJobType
  <2> HIDE DEF k, v
  <2> QED BY <2>1, <2>2 DEF Retried, Put
<1> QED BY <1>1, <1>2 DEF StoreNext

-----------------------------------------------------------------------------
(* Routing decisions stay right. *)

\* RoutedSoundly, against producers P and job types T.
Sound(P, T, r, j, warned) ==
    LET Legacy == LegacyPayloadQueueRouting /\ HasLegacyPriority(r.payload)
        k == jobTypeKey(r.producer, r.jobType)
    IN  /\ "producer" \notin warned => r.producer \in P
        /\ Legacy => /\ PriorityString(j.priority) = r.payload.queue
                     /\ j.maxRetries = DefaultMaxRetries
                     /\ "jobType" \notin warned
        /\ ~Legacy /\ "jobType" \in warned =>
              j.priority = PriorityMedium /\ j.maxRetries = DefaultMaxRetries
        /\ ~Legacy /\ "jobType" \notin warned =>
              /\ k \in DOMAIN T
              /\ j.maxRetries = T[k].maxRetries
              /\ j.maxRetries > 0
              /\ j.priority = storageQueueToQueuePriority(T[k].queue)

\* They are the same.
LEMMA SoundIs ==
    ASSUME NEW r, NEW j, NEW warned
    PROVE  RoutedSoundly(r, j, warned) <=> Sound(producers, jobTypes, r, j, warned)
BY DEF RoutedSoundly, Sound, GetProducer, HasJobType, GetJobType

\* A decision that agrees with the registry agrees with every later one.
LEMMA SoundStays ==
    ASSUME NEW P, NEW T, NEW Q, NEW U, P \subseteq Q, DOMAIN T \subseteq DOMAIN U,
           \A k \in DOMAIN T : U[k] = T[k],
           NEW r, NEW j, NEW warned, Sound(P, T, r, j, warned)
    PROVE  Sound(Q, U, r, j, warned)
BY DEF Sound

\* A legacy hint is the name of the priority it stands for.
LEMMA HintRoundTrip ==
    ASSUME NEW payload, HasLegacyPriority(payload)
    PROVE  PriorityString(legacyPayloadPriority(payload)) = payload.queue
<1>1. payload.queue \in {"immediate", "high", "medium", "low"}
  BY DEF HasLegacyPriority, LegacyPriority
<1>2. legacyPayloadPriority(payload) = LegacyPriority[payload.queue]
  BY DEF legacyPayloadPriority
<1> QED
  BY <1>1, <1>2 DEF LegacyPriority, PriorityString, PriorityImmediate, PriorityHigh,
     PriorityMedium, PriorityLow

\* The job that is built agrees with the registry it was built from, when the
\* warnings collected before did.
LEMMA SoundNew ==
    ASSUME Retried, NEW r, NEW c, NEW id, NEW t, NEW warned, "jobType" \notin warned,
           "producer" \notin warned => r.producer \in producers
    PROVE  Sound(producers, jobTypes, r, NewJob(c, r, id, routingConfig(r), t),
                 warned \cup routingConfig(r).warnings)
<1> DEFINE config == routingConfig(r)
           j == NewJob(c, r, id, config, t)
           k == jobTypeKey(r.producer, r.jobType)
           Legacy == LegacyPayloadQueueRouting /\ HasLegacyPriority(r.payload)
<1> SUFFICES Sound(producers, jobTypes, r, j, warned \cup config.warnings)
  OBVIOUS
<1>1. j.priority = config.priority /\ j.maxRetries = config.maxRetries
  BY DEF NewJob
<1>2. CASE Legacy
  <2>1. /\ config.priority = legacyPayloadPriority(r.payload)
        /\ config.maxRetries = DefaultMaxRetries /\ config.warnings = {}
    BY <1>2 DEF routingConfig
  <2>2. PriorityString(j.priority) = r.payload.queue
    BY <1>1, <1>2, <2>1, HintRoundTrip
  <2> HIDE DEF j, config
  <2> QED BY <1>1, <1>2, <2>1, <2>2 DEF Sound
<1>3. CASE ~Legacy /\ k \in DOMAIN jobTypes
  <2>1. /\ config.priority = storageQueueToQueuePriority(jobTypes[k].queue)
        /\ config.maxRetries = jobTypes[k].maxRetries /\ config.warnings = {}
    BY <1>3 DEF routingConfig, getJobTypeConfig, HasJobType, GetJobType
  <2>2. jobTypes[k].maxRetries > 0
    BY <1>3 DEF Retried
  <2> HIDE DEF j, config
  <2> QED BY <1>1, <1>3, <2>1, <2>2 DEF Sound
<1>4. CASE ~Legacy /\ k \notin DOMAIN jobTypes
  <2>1. /\ config.priority = PriorityMedium
        /\ config.maxRetries = DefaultMaxRetries /\ config.warnings = {"jobType"}
    BY <1>4 DEF routingConfig, getJobTypeConfig, HasJobType, DefaultQueue
  <2> HIDE DEF j, config
  <2> QED BY <1>1, <1>4, <2>1 DEF Sound
<1> QED BY <1>2, <1>3, <1>4
=============================================================================
