------------------------------ MODULE Registry ------------------------------
(***************************************************************************)
(* The data of the configuration registry: job type keys and entries, and  *)
(* the map operations its stores use (internal/storage, and the defaults   *)
(* internal/api/admin_server.go fills in).                                 *)
(***************************************************************************)
EXTENDS Integers, Sequences

CONSTANTS
    ProducerIds,   \* what generateProducerID can return
    JobTypeNames,  \* names an administrator gives job types
    Queues,        \* values of the Queue enum
    RetryInputs    \* values of CreateJobTypeRequest.max_retries

\* Mutant: job types are keyed by their name.
jobTypeKey_NameOnly(producerID, jobTypeName) == jobTypeName

jobTypeKey(producerID, jobTypeName) == producerID \o <<":">> \o jobTypeName

JobTypeEntry == [producer: ProducerIds, name: JobTypeNames,
                 queue: Queues, maxRetries: Int]

Keys == {jobTypeKey(p, n) : p \in ProducerIds, n \in JobTypeNames}

\* Mutant: a retry count of zero is kept.
MaxRetriesOf_KeepsZero(requested) == IF requested < 0 THEN 3 ELSE requested

\* AdminServer.CreateJobType: zero and negative retry counts become 3.
MaxRetriesOf(requested) == IF requested <= 0 THEN 3 ELSE requested

NewJobType(p, n, q, r) == [producer |-> p, name |-> n, queue |-> q,
                           maxRetries |-> MaxRetriesOf(r)]

\* The map m with key k set to v.
Put(m, k, v) == [x \in DOMAIN m \cup {k} |-> IF x = k THEN v ELSE m[x]]

\* The map m without key k (Go's delete).
Delete(m, k) == [x \in DOMAIN m \ {k} |-> m[x]]

EmptyMap == [x \in {} |-> x]

ASSUME RegistryAssumption ==
    /\ ProducerIds \subseteq Seq(STRING)
    /\ \A p \in ProducerIds : \A x \in DOMAIN p : p[x] # ":"
    /\ JobTypeNames \subseteq Seq(STRING)
    /\ RetryInputs \subseteq Int
=============================================================================
