------------------------------ MODULE Delivery ------------------------------
(***************************************************************************)
(* How one job travels from an Enqueue call to a Pub/Sub topic.            *)
(*                                                                         *)
(*   client --Enqueue--> handler --CreateTask--> Cloud Tasks               *)
(*                          |                        | POST callback       *)
(*                          v                        v                     *)
(*                       Pub/Sub <----Enqueue---- callback handler         *)
(*                                                                         *)
(* Every Enqueue call runs on a goroutine of its own and every callback on *)
(* another, so their steps interleave with each other, with the clock and  *)
(* with administrators filling the registry (module Store).  A step is the *)
(* code between two interactions with something outside the goroutine: a   *)
(* registry read, a request to Cloud Tasks or Pub/Sub, its answer, the     *)
(* reply.  Instances crash, contexts expire, and the answer of a request   *)
(* that took effect gets lost.                                             *)
(*                                                                         *)
(* Cloud Tasks and Pub/Sub are external.  A task is dispatched at or after *)
(* its schedule time, again and again until a 2xx answer, possibly to two  *)
(* handlers at once; its name is unique among the tasks that exist and is  *)
(* remembered for some time after the task is gone.  A publish request may *)
(* land after its caller stopped waiting, or fail.                         *)
(***************************************************************************)
EXTENDS Routing

CONSTANTS
    Calls,      \* Enqueue calls; each is made once
    Slots,      \* callback handlers that can run at the same time
    JobIds,     \* what jobid.Generate can return
    Requests,   \* the requests clients send
    None,       \* no value, or no owner
    MaxTime     \* bound: the clock stops here

ASSUME DeliveryAssumption ==
    /\ Calls \cap Slots = {}
    /\ None \notin Calls \cup Slots
    /\ Requests \subseteq Request
    /\ MaxTime \in Nat

VARIABLES
    now,        \* the clock
    pc,         \* where each call's handler is
    req,        \* the request of each call
    warn,       \* the warnings collected for each call
    job,        \* the queue.Job built for each call
    code,       \* the status each client got
    task,       \* Cloud Tasks: the task created for each call
    attempt,    \* what each callback handler is doing
    outbox,     \* publish requests in flight, with who waits for them
    published   \* Pub/Sub: the messages in the topics

registry == <<producers, jobTypes>>
handler  == <<pc, req, warn, job, code>>
built    == <<req, warn, job>>
messages == <<outbox, published>>
vars     == <<deployment, registry, now, handler, task, attempt, outbox, published>>

TaskBody == [call: Calls, id: JobIds, producer: Seq(STRING),
             type: Seq(STRING), priority: Priority, payload: Payload,
             runAt: Nat, maxRetries: Int, shadow: BOOLEAN, len: Nat]

Message == [call: Calls, topic: Priority \cup {NoTopic}, id: JobIds,
            runAt: Nat, queue: QueueName, args: Payload,
            jobType: Seq(STRING), shadow: BOOLEAN]

Init ==
    /\ deployment \in Deployments
    /\ StoreInit
    /\ now = 0
    /\ pc = [c \in Calls |-> "idle"]
    /\ req = [c \in Calls |-> None]
    /\ warn = [c \in Calls |-> {}]
    /\ job = [c \in Calls |-> None]
    /\ code = [c \in Calls |-> "none"]
    /\ task = [c \in Calls |-> [st |-> "none", body |-> None]]
    /\ attempt = [k \in Slots |-> [st |-> "idle", job |-> None]]
    /\ outbox = {}
    /\ published = {}

-----------------------------------------------------------------------------
(* The environment: time, and administrators. *)

Tick ==
    /\ now < MaxTime
    /\ now' = now + 1
    /\ UNCHANGED <<registry, handler, task, attempt, messages>>

Admin ==
    /\ StoreNext
    /\ UNCHANGED <<now, handler, task, attempt, messages>>

-----------------------------------------------------------------------------
(* Server.Enqueue up to the point where the job leaves the process. *)

Reply(c, status) ==
    /\ pc' = [pc EXCEPT ![c] = "replied"]
    /\ code' = [code EXCEPT ![c] = status]

\* The three validations.
Reject(c, r) ==
    /\ pc[c] = "idle"
    /\ ~ValidRequest(r)
    /\ req' = [req EXCEPT ![c] = r]
    /\ Reply(c, "InvalidArgument")
    /\ UNCHANGED <<registry, now, warn, job, task, attempt, messages>>

\* The first read of the registry: GetProducer.
Accept(c, r) ==
    /\ pc[c] = "idle"
    /\ ValidRequest(r)
    /\ req' = [req EXCEPT ![c] = r]
    /\ warn' = [warn EXCEPT ![c] =
                  IF GetProducer(r.producer) THEN {} ELSE {"producer"}]
    /\ pc' = [pc EXCEPT ![c] = "routing"]
    /\ UNCHANGED <<registry, now, job, code, task, attempt, messages>>

\* The second read of the registry, the job id, and the job.
Route(c, id) ==
    LET config == routingConfig(req[c]) IN
    /\ pc[c] = "routing"
    /\ warn' = [warn EXCEPT ![c] = @ \cup config.warnings]
    /\ job' = [job EXCEPT ![c] = NewJob(c, req[c], id, config, now)]
    /\ pc' = [pc EXCEPT ![c] = "dispatch"]
    /\ UNCHANGED <<registry, now, req, code, task, attempt, messages>>

-----------------------------------------------------------------------------
(* scheduler.Schedule: a job far enough in the future. *)

\* NoopScheduler logs the job and reports success.
ScheduleNoop(c) ==
    /\ pc[c] = "dispatch"
    /\ UseScheduler(Scheduler, job[c], now)
    /\ Scheduler = "noop"
    /\ pc' = [pc EXCEPT ![c] = "accepted"]
    /\ UNCHANGED <<registry, now, built, code, task, attempt, messages>>

ScheduleTooLarge(c) ==
    /\ pc[c] = "dispatch"
    /\ UseScheduler(Scheduler, job[c], now)
    /\ Scheduler = "cloudtasks"
    /\ marshalJob(job[c]).len > MaxTaskBodySize
    /\ Reply(c, "Internal")
    /\ UNCHANGED <<registry, now, built, task, attempt, messages>>

\* The CreateTask request is on its way.
Schedule(c) ==
    /\ pc[c] = "dispatch"
    /\ UseScheduler(Scheduler, job[c], now)
    /\ Scheduler = "cloudtasks"
    /\ marshalJob(job[c]).len <= MaxTaskBodySize
    /\ pc' = [pc EXCEPT ![c] = "creating"]
    /\ UNCHANGED <<registry, now, built, code, task, attempt, messages>>

\* Cloud Tasks stores the task, unless a task of that name exists.
NameFree(id) == \A d \in Calls : task[d].st = "pending" => task[d].body.id # id

StoreTask(c) ==
    /\ NameFree(job[c].id)
    /\ task' = [task EXCEPT ![c] = [st   |-> "pending",
                                    body |-> marshalJob(job[c])]]

CreateTaskOk(c) ==
    /\ pc[c] = "creating"
    /\ StoreTask(c)
    /\ pc' = [pc EXCEPT ![c] = "accepted"]
    /\ UNCHANGED <<registry, now, built, code, attempt, messages>>

\* The task was created but the handler is told otherwise (deadline, broken
\* connection).
CreateTaskUnheard(c) ==
    /\ pc[c] = "creating"
    /\ StoreTask(c)
    /\ Reply(c, "Internal")
    /\ UNCHANGED <<registry, now, built, attempt, messages>>

\* Mutant: AlreadyExists is taken for the success of an earlier try.
CreateTaskFails_ExistsIsOk(c) ==
    /\ pc[c] = "creating"
    /\ IF NameFree(job[c].id) THEN Reply(c, "Internal")
       ELSE pc' = [pc EXCEPT ![c] = "accepted"] /\ UNCHANGED code
    /\ UNCHANGED <<registry, now, built, task, attempt, messages>>

\* Any error without effect; AlreadyExists is one of them.
CreateTaskFails(c) ==
    /\ pc[c] = "creating"
    /\ Reply(c, "Internal")
    /\ UNCHANGED <<registry, now, built, task, attempt, messages>>

-----------------------------------------------------------------------------
(* backend.Enqueue, for the handler of an Enqueue call. *)

EnqueueRefused(c) ==
    /\ pc[c] = "dispatch"
    /\ ~UseScheduler(Scheduler, job[c], now)
    /\ BackendRefuses(Backend, job[c])
    /\ Reply(c, "Internal")
    /\ UNCHANGED <<registry, now, built, task, attempt, messages>>

\* NoopBackend logs the job and reports success.
EnqueueNoop(c) ==
    /\ pc[c] = "dispatch"
    /\ ~UseScheduler(Scheduler, job[c], now)
    /\ Backend = "noop"
    /\ ~BackendRefuses(Backend, job[c])
    /\ pc' = [pc EXCEPT ![c] = "accepted"]
    /\ UNCHANGED <<registry, now, built, code, task, attempt, messages>>

Publish(who, j) == outbox' = outbox \cup {[by |-> who, msg |-> Marshal(j)]}

\* Mutant: the call does not wait for the result of the publish request.
Enqueue_NoWait(c) ==
    /\ pc[c] = "dispatch"
    /\ ~UseScheduler(Scheduler, job[c], now)
    /\ Backend = "pubsub"
    /\ ~BackendRefuses(Backend, job[c])
    /\ Publish(None, job[c])
    /\ pc' = [pc EXCEPT ![c] = "accepted"]
    /\ UNCHANGED <<registry, now, built, code, task, attempt, published>>

Enqueue(c) ==
    /\ pc[c] = "dispatch"
    /\ ~UseScheduler(Scheduler, job[c], now)
    /\ Backend = "pubsub"
    /\ ~BackendRefuses(Backend, job[c])
    /\ Publish(c, job[c])
    /\ pc' = [pc EXCEPT ![c] = "publishing"]
    /\ UNCHANGED <<registry, now, built, code, task, attempt, published>>

-----------------------------------------------------------------------------
(* Pub/Sub, and whoever waits for it in result.Get. *)

Tell(who, st) ==
    /\ pc' = [c \in Calls |-> IF c = who THEN st ELSE pc[c]]
    /\ attempt' = [k \in Slots |-> IF k = who THEN [attempt[k] EXCEPT !.st = st]
                                              ELSE attempt[k]]

PublishLands(e) ==
    /\ e \in outbox
    /\ outbox' = outbox \ {e}
    /\ published' = published \cup {e.msg}
    /\ Tell(e.by, "sent")
    /\ UNCHANGED <<registry, now, built, code, task>>

PublishFails(e) ==
    /\ e \in outbox
    /\ outbox' = outbox \ {e}
    /\ Tell(e.by, "failed")
    /\ UNCHANGED <<registry, now, built, code, task, published>>

\* The publish requests of who continue, with nobody waiting for them.
Orphan(who) ==
    outbox' = {[e EXCEPT !.by = IF @ = who THEN None ELSE @] : e \in outbox}

-----------------------------------------------------------------------------
(* The end of an Enqueue call. *)

\* Mutant: the path without a publish request never returns.
Respond_OnlyWhenSent(c) ==
    /\ \/ pc[c] = "sent" /\ Reply(c, "OK")
       \/ pc[c] = "failed" /\ Reply(c, "Internal")
    /\ UNCHANGED <<registry, now, built, task, attempt, messages>>

Respond(c) ==
    /\ \/ pc[c] \in {"accepted", "sent"} /\ Reply(c, "OK")
       \/ pc[c] = "failed" /\ Reply(c, "Internal")
    /\ UNCHANGED <<registry, now, built, task, attempt, messages>>

\* The caller's deadline or cancellation ends result.Get.
CtxDone(c) ==
    /\ pc[c] = "publishing"
    /\ Orphan(c)
    /\ Reply(c, "Internal")
    /\ UNCHANGED <<registry, now, built, task, attempt, published>>

\* The instance crashes: the client gets no answer.  A CreateTask request
\* already sent may still take effect.
Die(c) ==
    /\ pc[c] \notin {"idle", "replied"}
    /\ Orphan(c)
    /\ \/ UNCHANGED task
       \/ pc[c] = "creating" /\ StoreTask(c)
    /\ Reply(c, "lost")
    /\ UNCHANGED <<registry, now, built, attempt, published>>

-----------------------------------------------------------------------------
(* CallbackHandler.handleEnqueueCallback. *)

\* Cloud Tasks dispatches a task; the handler decodes its body.
CallbackBegin(k, d) ==
    /\ attempt[k].st = "idle"
    /\ task[d].st = "pending"
    /\ now >= task[d].body.runAt
    /\ attempt' = [attempt EXCEPT ![k] =
                     [st  |-> "enqueue",
                      job |-> [UnmarshalJob(task[d].body) EXCEPT !.runAt = now]]]
    /\ UNCHANGED <<registry, now, handler, task, messages>>

\* Mutant: a job that cannot be published is tried again without answering.
CallbackRefused_Spins(k) ==
    /\ attempt[k].st = "enqueue"
    /\ BackendRefuses(Backend, attempt[k].job)
    /\ UNCHANGED <<registry, now, handler, task, attempt, messages>>

\* Mutant: a job whose priority has no topic is answered 200, as one that no
\* retry can help.
CallbackRefused_NoTopicOk(k) ==
    /\ attempt[k].st = "enqueue"
    /\ BackendRefuses(Backend, attempt[k].job)
    /\ attempt' = [attempt EXCEPT ![k].st =
          IF topicFor(attempt[k].job.priority) = NoTopic THEN "sent" ELSE "failed"]
    /\ UNCHANGED <<registry, now, handler, task, messages>>

CallbackRefused(k) ==
    /\ attempt[k].st = "enqueue"
    /\ BackendRefuses(Backend, attempt[k].job)
    /\ attempt' = [attempt EXCEPT ![k].st = "failed"]
    /\ UNCHANGED <<registry, now, handler, task, messages>>

CallbackNoop(k) ==
    /\ attempt[k].st = "enqueue"
    /\ Backend = "noop"
    /\ ~BackendRefuses(Backend, attempt[k].job)
    /\ attempt' = [attempt EXCEPT ![k].st = "sent"]
    /\ UNCHANGED <<registry, now, handler, task, messages>>

CallbackEnqueue(k) ==
    /\ attempt[k].st = "enqueue"
    /\ Backend = "pubsub"
    /\ ~BackendRefuses(Backend, attempt[k].job)
    /\ Publish(k, attempt[k].job)
    /\ attempt' = [attempt EXCEPT ![k].st = "publishing"]
    /\ UNCHANGED <<registry, now, handler, task, published>>

\* 200: Cloud Tasks deletes the task.
CallbackOk(k) ==
    /\ attempt[k].st = "sent"
    /\ attempt' = [attempt EXCEPT ![k].st = "idle"]
    /\ task' = [task EXCEPT ![attempt[k].job.call].st = "done"]
    /\ UNCHANGED <<registry, now, handler, messages>>

\* 500: Cloud Tasks keeps the task and dispatches it again later.
CallbackFailed(k) ==
    /\ attempt[k].st = "failed"
    /\ attempt' = [attempt EXCEPT ![k].st = "idle"]
    /\ UNCHANGED <<registry, now, handler, task, messages>>

\* No answer reaches Cloud Tasks: the instance crashed, the dispatch deadline
\* passed (which cancels the request's context), or the 200 got lost.
CallbackLost(k) ==
    /\ attempt[k].st # "idle"
    /\ attempt' = [attempt EXCEPT ![k].st = "idle"]
    /\ Orphan(k)
    /\ UNCHANGED <<registry, now, handler, task, published>>

-----------------------------------------------------------------------------
Handler(c) ==
    \/ \E r \in Requests : Reject(c, r) \/ Accept(c, r)
    \/ \E id \in JobIds : Route(c, id)
    \/ ScheduleNoop(c) \/ ScheduleTooLarge(c) \/ Schedule(c)
    \/ CreateTaskOk(c) \/ CreateTaskUnheard(c) \/ CreateTaskFails(c)
    \/ EnqueueRefused(c) \/ EnqueueNoop(c) \/ Enqueue(c)
    \/ Respond(c) \/ CtxDone(c)

Callback(k) ==
    \/ \E d \in Calls : CallbackBegin(k, d)
    \/ CallbackRefused(k) \/ CallbackNoop(k) \/ CallbackEnqueue(k)
    \/ CallbackOk(k) \/ CallbackFailed(k)

PubSub == \E e \in outbox : PublishLands(e) \/ PublishFails(e)

Next ==
    /\ UNCHANGED deployment
    /\ \/ Tick
       \/ Admin
       \/ \E c \in Calls : Handler(c) \/ Die(c)
       \/ \E k \in Slots : Callback(k) \/ CallbackLost(k)
       \/ PubSub

Spec == Init /\ [][Next]_vars

-----------------------------------------------------------------------------
(* Fairness.                                                               *)
(*                                                                         *)
(* A goroutine that has begun runs to its end: Go schedules it, and each   *)
(* call it waits in returns (an answer, or the end of its context).  Cloud *)
(* Tasks keeps dispatching a task that is due.  The last two say that the  *)
(* failures do not hit the same job for ever: an attempt that is repeated  *)
(* for ever gets as far as publishing, and Pub/Sub does not refuse it      *)
(* every time.                                                             *)

WaitedFor(who) == \E e \in outbox : e.by = who /\ (PublishLands(e) \/ PublishFails(e))

HandlerRuns(c) ==
    pc[c] # "idle" /\ (Handler(c) \/ WaitedFor(c)) /\ UNCHANGED deployment

CallbackRuns(k) ==
    attempt[k].st # "idle" /\ (Callback(k) \/ WaitedFor(k)) /\ UNCHANGED deployment

Dispatched(d) == UNCHANGED deployment /\ \E k \in Slots : CallbackBegin(k, d)

Attempted(d) ==
    \E k \in Slots : /\ attempt[k].st # "idle"
                     /\ attempt[k].job.call = d
                     /\ CallbackEnqueue(k) /\ UNCHANGED deployment

Landing(d) ==
    UNCHANGED deployment /\ \E e \in outbox : e.msg.call = d /\ PublishLands(e)

Fairness ==
    /\ WF_vars(Tick /\ UNCHANGED deployment)
    /\ \A c \in Calls : WF_vars(HandlerRuns(c))
    /\ \A k \in Slots : WF_vars(CallbackRuns(k))
    /\ \A d \in Calls : SF_vars(Dispatched(d))
    /\ \A d \in Calls : SF_vars(Attempted(d))
    /\ \A d \in Calls : SF_vars(Landing(d))

FairSpec == Spec /\ Fairness

-----------------------------------------------------------------------------
(* Properties *)

HandlerStates == {"idle", "routing", "dispatch", "creating", "publishing",
                  "accepted", "sent", "failed", "replied"}

\* Every variable holds what the code's types allow, through both wire
\* formats.
TypeOK ==
    /\ deployment \in Deployment
    /\ StoreTypeOK
    /\ now \in Nat
    /\ pc \in [Calls -> HandlerStates]
    /\ req \in [Calls -> Request \cup {None}]
    /\ warn \in [Calls -> SUBSET {"producer", "jobType"}]
    /\ job \in [Calls -> Job(Calls, JobIds) \cup {None}]
    /\ code \in [Calls -> {"none", "OK", "InvalidArgument", "Internal", "lost"}]
    /\ task \in [Calls -> [st: {"none", "pending", "done"},
                            body: TaskBody \cup {None}]]
    /\ attempt \in [Slots -> [st: {"idle", "enqueue", "publishing", "sent", "failed"},
                               job: Job(Calls, JobIds) \cup {None}]]
    /\ outbox \subseteq [by: Calls \cup Slots \cup {None}, msg: Message]
    /\ published \subseteq Message

Published(c) == \E m \in published : m.call = c

\* A client that was told OK has its job in a topic, or in a task Cloud Tasks
\* still has to run, unless a noop part is configured: no interleaving of
\* retries, duplicate callbacks, crashes, expired contexts and colliding job
\* ids drops an acknowledged job
\* (Server.Enqueue, CloudTasksScheduler.Schedule, handleEnqueueCallback).
AckedJobHeld ==
    Durable => \A c \in Calls :
        code[c] = "OK" => Published(c) \/ task[c].st = "pending"

\* A client that was told OK for a job that is not for later has it in a topic
\* already, whatever scheduler is configured: nothing is acknowledged on the
\* strength of a publish request that is merely in flight (PubSubBackend.Enqueue
\* waits for the result).
OkMeansPublished ==
    Backend = "pubsub" => \A c \in Calls :
        code[c] = "OK" /\ req[c].runAt < ScheduleThreshold => Published(c)

\* Cloud Tasks forgets a task only after its job is in a topic, whether or not
\* the client was told OK: the callback answers 200 only once Pub/Sub has
\* confirmed (handleEnqueueCallback).
NoTaskDropped ==
    Backend = "pubsub" => \A c \in Calls : task[c].st = "done" => Published(c)

\* What reaches a topic is what the client sent: the id it was answered, its
\* job type, its payload (null for none), its shadow flag, the topic of its
\* priority or else the medium one, a run time no earlier than it asked for,
\* and never one still to come for a job that waited in Cloud Tasks.
\* Marshal, marshalJob and UnmarshalJob lose nothing of it.
PublishedFaithful ==
    \A m \in published :
        LET r == req[m.call]
            j == job[m.call]
        IN  /\ m.id = j.id
            /\ m.jobType = r.jobType
            /\ m.args = IF r.payload.form = "nil" THEN NullJSON ELSE r.payload
            /\ m.shadow = (r.shadow = "true")
            /\ m.queue = PriorityString(j.priority)
            /\ m.topic \in ConfiguredTopics
            /\ m.topic # j.priority => m.topic = PriorityMedium
            /\ m.runAt >= r.runAt
            /\ task[m.call].st # "none" => m.runAt <= now

\* Where a job was routed agrees with the registry for good, although producer
\* and job type are read at two different times and administrators register
\* others in between (Server.Enqueue, routingConfig, getJobTypeConfig).
RoutingSound ==
    \A c \in Calls : job[c] # None => RoutedSoundly(req[c], job[c], warn[c])

\* No message enters a topic while its requested run time is the threshold or
\* more away, whichever way it came and however long it took
\* (Server.Enqueue, server.go:145; handleEnqueueCallback).
NotEarly(m, t) == req[m.call].runAt - t < ScheduleThreshold

NoEarlyPublish ==
    [][\A m \in published' \ published :
          Scheduler # "nil" /\ ScheduleThreshold > 0 => NotEarly(m, now)]_vars

\* With durable parts, Enqueue and the callbacks together implement the promise
\* made to clients: no step of theirs acknowledges a job nothing holds, or lets
\* go of one that was held, acknowledged or not.
HeldCalls == {c \in Calls : Durable /\ (Published(c) \/ task[c].st = "pending")}
SentCalls == {c \in Calls : Durable /\ Published(c)}
OkCalls   == {c \in Calls : Durable /\ code[c] = "OK"}

Promised == INSTANCE Promise WITH Jobs <- Calls, held <- HeldCalls,
                                  delivered <- SentCalls, acked <- OkCalls

ImplementsPromise == Promised!Spec

\* Every call that begins is answered, or dies with its instance.
Answered == \A c \in Calls : pc[c] # "idle" ~> pc[c] = "replied"

Deliverable(c) ==
    /\ Durable
    /\ topicFor(job[c].priority) # NoTopic /\ Marshalable(job[c])

\* A job that was acknowledged reaches a topic in the end, if its payload is
\* JSON and there is a topic for it, however often callbacks fail, crash or
\* run twice, unless the parts configured are the noop ones.
AckedDelivered ==
    \A c \in Calls : (code[c] = "OK" /\ Deliverable(c)) ~> Published(c)

-----------------------------------------------------------------------------
(* What the repository's texts say and the code does not do. *)

\* jack.proto:26 calls the payload opaque data delivered to the consumer: any
\* acknowledged job would then be delivered, whatever bytes it carries.
OpaquePayloadDelivered ==
    \A c \in Calls : (code[c] = "OK" /\ topicFor(job[c].priority) # NoTopic)
                        ~> Published(c)

\* main.go:124 announces that with the noop scheduler future jobs will not be
\* delayed: an acknowledged one would be in a topic.
FutureJobsNotDelayed ==
    \A c \in Calls : code[c] = "OK" => Published(c)
=============================================================================
