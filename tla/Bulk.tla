-------------------------------- MODULE Bulk --------------------------------
(***************************************************************************)
(* One EnqueueBulk call: Server.EnqueueBulk, PubSubBackend.EnqueueBulk,    *)
(* NoopBackend.EnqueueBulk and the two ScheduleBulk.                       *)
(*                                                                         *)
(* The call prepares a job for each valid request, reading the registry    *)
(* twice for each of them; splits the jobs in two slices, remembering the  *)
(* position each one came from; publishes one slice, with a goroutine per  *)
(* job that waits for Pub/Sub; schedules the other, with a goroutine per   *)
(* job that calls Cloud Tasks; and puts the results of both back in the    *)
(* order of the request.  A slice's result is None until the goroutine of  *)
(* that element has written it.                                            *)
(*                                                                         *)
(* A task that was created goes on as in module Delivery.                  *)
(***************************************************************************)
EXTENDS Routing

CONSTANTS
    Batches,   \* the sequences of requests clients send
    JobIds,    \* what jobid.Generate can return
    None,      \* no value
    MaxTime    \* bound: the clock stops here

ASSUME BulkAssumption ==
    /\ \A b \in Batches : /\ b \in Seq(Request)
                          /\ \A x, y \in 1 .. Len(b) : b[x].shadow = b[y].shadow
    /\ None \notin JobIds
    /\ None \notin Job(Nat, JobIds)
    /\ MaxTime \in Nat

VARIABLES
    now,         \* the clock
    pc,          \* where the handler is
    batch,       \* req.Jobs
    i,           \* the position its loop is at
    jobs,        \* the job of each position; None for an invalid request
    reasons,     \* validationReasons; "" for a valid request
    warnings,    \* jobWarnings
    immediateJobs, immediateIndexes,  \* the slice to publish
    futureJobs, futureIndexes,        \* the slice to schedule
    immResults,  \* immediateResults
    futResults,  \* futureResults
    cancelled,   \* the context of the call is done
    results,     \* the response
    outbox,      \* publish requests in flight
    published,   \* Pub/Sub: the messages in the topics
    tasks        \* Cloud Tasks: the tasks created

registry == <<producers, jobTypes>>
prepared == <<batch, i, jobs, reasons, warnings>>
split    == <<immediateJobs, immediateIndexes, futureJobs, futureIndexes>>
slices   == <<split, immResults, futResults>>
outside  == <<outbox, published, tasks>>
world    == <<registry, now, cancelled>>
vars     == <<deployment, world, pc, prepared, slices, results, outside>>

Positions == 1 .. Len(batch)

Init ==
    /\ deployment \in Deployments
    /\ StoreInit
    /\ now = 0
    /\ pc = "idle"
    /\ batch = <<>> /\ i = 1
    /\ jobs = <<>> /\ reasons = <<>> /\ warnings = <<>>
    /\ immediateJobs = <<>> /\ immediateIndexes = <<>>
    /\ futureJobs = <<>> /\ futureIndexes = <<>>
    /\ immResults = <<>> /\ futResults = <<>>
    /\ cancelled = FALSE
    /\ results = <<>>
    /\ outbox = {} /\ published = {} /\ tasks = {}

-----------------------------------------------------------------------------
(* The environment: time, administrators, and the caller's context. *)

Tick ==
    /\ now < MaxTime
    /\ now' = now + 1
    /\ UNCHANGED <<registry, pc, prepared, slices, cancelled, results, outside>>

Admin ==
    /\ StoreNext
    /\ UNCHANGED <<now, pc, prepared, slices, cancelled, results, outside>>

Cancel ==
    /\ pc \in {"publishing", "scheduling"}
    /\ ~cancelled
    /\ cancelled' = TRUE
    /\ UNCHANGED <<registry, now, pc, prepared, slices, results, outside>>

-----------------------------------------------------------------------------
(* Server.EnqueueBulk: one pass over the requests. *)

RejectBatch ==
    /\ pc = "idle"
    /\ <<>> \in Batches
    /\ pc' = "rejected"
    /\ UNCHANGED <<world, prepared, slices, results, outside>>

Begin(b) ==
    /\ pc = "idle"
    /\ b # <<>>
    /\ batch' = b
    /\ jobs' = [x \in 1 .. Len(b) |-> None]
    /\ reasons' = [x \in 1 .. Len(b) |-> ""]
    /\ warnings' = [x \in 1 .. Len(b) |-> {}]
    /\ pc' = "validate"
    /\ UNCHANGED <<world, i, slices, results, outside>>

InvalidReason(r) ==
    IF r.producer = <<>> \/ r.jobType = <<>> THEN "validation_error"
                                             ELSE "payload_too_large"

SkipInvalid ==
    /\ pc = "validate" /\ i \in Positions
    /\ ~ValidRequest(batch[i])
    /\ reasons' = [reasons EXCEPT ![i] = InvalidReason(batch[i])]
    /\ i' = i + 1
    /\ UNCHANGED <<world, pc, batch, jobs, warnings, slices, results, outside>>

\* The first read of the registry for this position.
CheckProducer ==
    /\ pc = "validate" /\ i \in Positions
    /\ ValidRequest(batch[i])
    /\ warnings' = [warnings EXCEPT ![i] =
                      IF GetProducer(batch[i].producer) THEN {} ELSE {"producer"}]
    /\ pc' = "route"
    /\ UNCHANGED <<world, batch, i, jobs, reasons, slices, results, outside>>

\* The second one, the job id, and the job.
Prepare(id) ==
    LET config == routingConfig(batch[i]) IN
    /\ pc = "route"
    /\ warnings' = [warnings EXCEPT ![i] = @ \cup config.warnings]
    /\ jobs' = [jobs EXCEPT ![i] = NewJob(i, batch[i], id, config, now)]
    /\ i' = i + 1
    /\ pc' = "validate"
    /\ UNCHANGED <<world, batch, reasons, slices, results, outside>>

Prepared ==
    /\ pc = "validate" /\ i \notin Positions
    /\ pc' = "partition"
    /\ i' = 1
    /\ UNCHANGED <<world, batch, jobs, reasons, warnings, slices, results, outside>>

\* One element of the pass that splits the jobs; the clock is read for each.
Partition ==
    /\ pc = "partition" /\ i \in Positions
    /\ \/ jobs[i] = None /\ UNCHANGED split
       \/ /\ jobs[i] # None /\ UseScheduler(Scheduler, jobs[i], now)
          /\ futureJobs' = Append(futureJobs, jobs[i])
          /\ futureIndexes' = Append(futureIndexes, i)
          /\ UNCHANGED <<immediateJobs, immediateIndexes>>
       \/ /\ jobs[i] # None /\ ~UseScheduler(Scheduler, jobs[i], now)
          /\ immediateJobs' = Append(immediateJobs, jobs[i])
          /\ immediateIndexes' = Append(immediateIndexes, i)
          /\ UNCHANGED <<futureJobs, futureIndexes>>
    /\ i' = i + 1
    /\ UNCHANGED <<world, pc, batch, jobs, reasons, warnings, immResults, futResults,
                   results, outside>>

-----------------------------------------------------------------------------
(* backend.EnqueueBulk. *)

Success(j) == [jobID |-> j.id, error |-> FALSE]

\* Mutant: the error of a publish request is not passed on.
Failure_Swallowed(j) == Success(j)

Failure(j) == [jobID |-> j.id, error |-> TRUE]

\* A scheduler's failure carries no job id.
NotScheduled == [jobID |-> None, error |-> TRUE]

\* NoopBackend.EnqueueBulk calls Enqueue for each job.
NoopResults ==
    [x \in DOMAIN immediateJobs |->
        IF BackendRefuses(Backend, immediateJobs[x]) THEN Failure(immediateJobs[x])
                                            ELSE Success(immediateJobs[x])]

\* Mutant: only what Pub/Sub answers becomes a result.
Refusals_Unwritten == [x \in DOMAIN immediateJobs |-> None]

\* PubSubBackend.EnqueueBulk: the results known before Pub/Sub answers, those of
\* jobs without a topic or with a payload that is not JSON.
Refusals ==
    [x \in DOMAIN immediateJobs |->
        IF BackendRefuses(Backend, immediateJobs[x]) THEN Failure(immediateJobs[x]) ELSE None]

EnqueueBulkNoop ==
    /\ pc = "partition" /\ i \notin Positions
    /\ Backend = "noop"
    /\ immResults' = NoopResults
    /\ pc' = "publishing"
    /\ UNCHANGED <<world, prepared, split, futResults, results, outside>>

\* The publish requests of all jobs not refused are sent.
EnqueueBulk ==
    /\ pc = "partition" /\ i \notin Positions
    /\ Backend = "pubsub"
    /\ immResults' = Refusals
    /\ outbox' = {[idx |-> x, msg |-> Marshal(immediateJobs[x])] :
                     x \in {y \in DOMAIN immediateJobs :
                              ~BackendRefuses(Backend, immediateJobs[y])}}
    /\ pc' = "publishing"
    /\ UNCHANGED <<world, prepared, split, futResults, results, published, tasks>>

\* The goroutine of element x, if it still waits, gets its result.
Publishes(x, res) ==
    immResults' = IF pc = "publishing" /\ immResults[x] = None
                  THEN [immResults EXCEPT ![x] = res] ELSE immResults

PublishLands(e) ==
    /\ e \in outbox
    /\ outbox' = outbox \ {e}
    /\ published' = published \cup {e.msg}
    /\ Publishes(e.idx, Success(immediateJobs[e.idx]))
    /\ UNCHANGED <<world, pc, prepared, split, futResults, results, tasks>>

PublishFails(e) ==
    /\ e \in outbox
    /\ outbox' = outbox \ {e}
    /\ Publishes(e.idx, Failure(immediateJobs[e.idx]))
    /\ UNCHANGED <<world, pc, prepared, split, futResults, results, published, tasks>>

\* result.Get returns because the context is done; the request stays in flight.
GetCancelled(x) ==
    /\ pc = "publishing"
    /\ cancelled
    /\ x \in DOMAIN immResults /\ immResults[x] = None
    /\ immResults' = [immResults EXCEPT ![x] = Failure(immediateJobs[x])]
    /\ UNCHANGED <<world, pc, prepared, split, futResults, results, outside>>

-----------------------------------------------------------------------------
(* scheduler.ScheduleBulk: one goroutine per job calls Schedule. *)

\* wg.Wait returns when every goroutine has written its result.
AllWritten(rs) == \A x \in DOMAIN rs : rs[x] # None

\* NoopScheduler.ScheduleBulk reports success for every job.
ScheduleBulkNoop ==
    /\ pc = "publishing"
    /\ AllWritten(immResults)
    /\ Scheduler = "noop"
    /\ futResults' = [x \in DOMAIN futureJobs |-> Success(futureJobs[x])]
    /\ pc' = "scheduling"
    /\ UNCHANGED <<world, prepared, split, immResults, results, outside>>

\* The goroutines start; a job too large for a task is refused at once.
ScheduleBulk ==
    /\ pc = "publishing"
    /\ AllWritten(immResults)
    /\ Scheduler # "noop"
    /\ futResults' =
         [x \in DOMAIN futureJobs |->
            IF marshalJob(futureJobs[x]).len > MaxTaskBodySize THEN NotScheduled
                                                               ELSE None]
    /\ pc' = "scheduling"
    /\ UNCHANGED <<world, prepared, split, immResults, results, outside>>

Creating(x) == pc = "scheduling" /\ x \in DOMAIN futResults /\ futResults[x] = None

\* Cloud Tasks stores the task, unless a task of that name exists.
NameFree(id) == \A b \in tasks : b.id # id

StoreTask(x) ==
    /\ NameFree(futureJobs[x].id)
    /\ tasks' = tasks \cup {marshalJob(futureJobs[x])}

CreateTaskOk(x) ==
    /\ Creating(x)
    /\ ~cancelled
    /\ StoreTask(x)
    /\ futResults' = [futResults EXCEPT ![x] = Success(futureJobs[x])]
    /\ UNCHANGED <<world, pc, prepared, split, immResults, results, outbox, published>>

\* The task was created but the goroutine is told otherwise.
CreateTaskUnheard(x) ==
    /\ Creating(x)
    /\ StoreTask(x)
    /\ futResults' = [futResults EXCEPT ![x] = NotScheduled]
    /\ UNCHANGED <<world, pc, prepared, split, immResults, results, outbox, published>>

\* Any error without effect; AlreadyExists is one of them.
CreateTaskFails(x) ==
    /\ Creating(x)
    /\ futResults' = [futResults EXCEPT ![x] = NotScheduled]
    /\ UNCHANGED <<world, pc, prepared, split, immResults, results, outside>>

-----------------------------------------------------------------------------
(* The response. *)

\* Mutant: validation errors are not filled in.
Empty_NoReason(p) == [index |-> p, jobId |-> None, reason |-> "",
                      warnings |-> warnings[p]]

\* A position before the results of the two slices are filled in.
Empty(p) == [index |-> p, jobId |-> None, reason |-> reasons[p],
             warnings |-> warnings[p]]

\* Mutant: a slice's elements are taken to be in the places of the request.
Elements_InPlace(indexes, p) == {x \in DOMAIN indexes : x = p}

\* The elements of a slice that came from position p.
Elements(indexes, p) == {x \in DOMAIN indexes : indexes[x] = p}

\* The slice's result for position p, if it has one, written into res: an
\* error sets the error and its reason, a success the job id; neither clears
\* the other.
FillIn(res, p, indexes, rs) ==
    LET Of == Elements(indexes, p) \cap DOMAIN rs
        br == rs[CHOOSE x \in Of : TRUE]
    IN  IF Of = {} THEN res
        ELSE IF br.error THEN [res EXCEPT !.reason = "internal_error"]
        ELSE [res EXCEPT !.jobId = br.jobID]

BuildResponse ==
    [p \in Positions |->
        FillIn(FillIn(Empty(p), p, immediateIndexes, immResults),
               p, futureIndexes, futResults)]

Respond ==
    /\ pc = "scheduling"
    /\ AllWritten(futResults)
    /\ results' = BuildResponse
    /\ pc' = "replied"
    /\ UNCHANGED <<world, prepared, slices, outside>>

\* The instance crashes.  CreateTask requests already sent may take effect.
Die ==
    /\ pc \notin {"idle", "rejected", "replied", "dead"}
    /\ pc' = "dead"
    /\ \E S \in SUBSET {x \in DOMAIN futureJobs : Creating(x)} :
          /\ \A x \in S : NameFree(futureJobs[x].id)
          /\ \A x, y \in S : futureJobs[x].id = futureJobs[y].id => x = y
          /\ tasks' = tasks \cup {marshalJob(futureJobs[x]) : x \in S}
    /\ UNCHANGED <<world, prepared, slices, results, outbox, published>>

-----------------------------------------------------------------------------
PubSub == \E e \in outbox : PublishLands(e) \/ PublishFails(e)

Handler ==
    \/ SkipInvalid \/ CheckProducer
    \/ \E id \in JobIds : Prepare(id)
    \/ Prepared \/ Partition \/ EnqueueBulkNoop \/ EnqueueBulk
    \/ \E x \in DOMAIN immediateJobs : GetCancelled(x)
    \/ ScheduleBulkNoop \/ ScheduleBulk
    \/ \E x \in DOMAIN futureJobs :
          CreateTaskOk(x) \/ CreateTaskUnheard(x) \/ CreateTaskFails(x)
    \/ Respond

Next ==
    /\ UNCHANGED deployment
    /\ \/ Tick \/ Admin \/ Cancel
       \/ RejectBatch
       \/ \E b \in Batches : Begin(b)
       \/ Handler
       \/ PubSub
       \/ Die

Spec == Init /\ [][Next]_vars

\* The handler's goroutines run, and Pub/Sub answers each request.
FairSpec ==
    /\ Spec
    /\ WF_vars(Handler /\ UNCHANGED deployment)
    /\ WF_vars(PubSub /\ UNCHANGED deployment)

-----------------------------------------------------------------------------
(* Properties *)

BulkResult == [index: Nat, jobId: JobIds \cup {None},
               reason: {"", "validation_error", "payload_too_large", "internal_error"},
               warnings: SUBSET {"producer", "jobType"}]

Slice(js, ixs, rs) ==
    /\ js \in Seq(Job(Positions, JobIds))
    /\ ixs \in Seq(Positions)
    /\ Len(ixs) = Len(js)
    /\ DOMAIN rs \subseteq DOMAIN js
    /\ \A x \in DOMAIN rs :
          rs[x] \in [jobID: JobIds \cup {None}, error: BOOLEAN] \cup {None}

\* Every variable holds what the code's types allow.
TypeOK ==
    /\ deployment \in Deployment
    /\ StoreTypeOK
    /\ now \in Nat
    /\ pc \in {"idle", "rejected", "validate", "route", "partition", "publishing",
               "scheduling", "replied", "dead"}
    /\ batch \in Batches \cup {<<>>}
    /\ i \in 1 .. Len(batch) + 1
    /\ jobs \in [Positions -> Job(Positions, JobIds) \cup {None}]
    /\ Slice(immediateJobs, immediateIndexes, immResults)
    /\ Slice(futureJobs, futureIndexes, futResults)
    /\ cancelled \in BOOLEAN
    /\ results = <<>> \/ results \in [Positions -> BulkResult]

\* The job of position p is in a topic or in a task.
Held(p) == \/ \E m \in published : m.call = p
           \/ \E b \in tasks : b.call = p

\* A job id in the response stands at the position of the very request whose
\* job has that id, and that job is in a topic or in a task: the results of
\* two slices, written by goroutines in any order, come back to where they
\* belong, and no success is reported for a neighbour's job
\* (Server.EnqueueBulk, server.go:257-330).
BulkAckedHeld ==
    pc = "replied" /\ Durable =>
        \A p \in Positions : results[p].jobId # None =>
            jobs[p] # None /\ results[p].jobId = jobs[p].id /\ Held(p)

\* With durable parts, EnqueueBulk implements the promise made to clients for
\* every position of the batch: none is acknowledged before a topic or a task
\* holds its job, whatever became of its neighbours.
HeldJobs == {p \in Positions : Durable /\ Held(p)}
SentJobs == {p \in Positions : Durable /\ \E m \in published : m.call = p}
OkJobs   == {p \in DOMAIN results : Durable /\ results[p].jobId # None}

Promised == INSTANCE Promise WITH Jobs <- UNION {1 .. Len(b) : b \in Batches},
                                  held <- HeldJobs, delivered <- SentJobs,
                                  acked <- OkJobs

BulkImplementsPromise == Promised!Spec

\* Every position of the response has exactly one verdict, a job id or an
\* error; the reason of an error blames the request exactly when the request
\* is invalid, and nothing of an invalid request has left the process
\* (jack.proto:69-73).
OneVerdict ==
    pc = "replied" => \A p \in Positions :
        /\ (results[p].jobId # None) # (results[p].reason # "")
        /\ results[p].reason \in {"validation_error", "payload_too_large"}
              <=> ~ValidRequest(batch[p])
        /\ ~ValidRequest(batch[p]) => ~Held(p)

\* Where each job of a batch was routed agrees with the registry for good,
\* although every position is looked up at another time and administrators
\* register producers and job types meanwhile.
BulkRoutingSound ==
    \A p \in DOMAIN jobs : jobs[p] # None =>
        RoutedSoundly(batch[p], jobs[p], warnings[p])

\* No message of a batch enters a topic while its requested run time is the
\* threshold or more away: each job is judged by its own run time at the time
\* the batch is split (server.go:263-274).
NoEarlyBulk ==
    [][\A m \in published' \ published :
          Scheduler # "nil" /\ ScheduleThreshold > 0
             => batch[m.call].runAt - now < ScheduleThreshold]_vars

\* A batch that begins is answered, or dies with its instance: the wait groups
\* do not wait for a goroutine that was never started or never returns.
BulkAnswered == pc = "validate" ~> pc \in {"replied", "dead"}
=============================================================================
