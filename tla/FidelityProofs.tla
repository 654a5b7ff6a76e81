--------------------------- MODULE FidelityProofs ---------------------------
(***************************************************************************)
(* Further theorems about Delivery: what reaches a topic is what the       *)
(* client sent, jobs are routed as the registry says for good, and OK for  *)
(* a job that is due means that it is published.                           *)
(*                                                                         *)
(* The first needs the same claim for every form a job takes on its way:   *)
(* the job a handler holds, the body of its task, the job of a callback,   *)
(* and the messages in flight (FaithInv).                                  *)
(***************************************************************************)
EXTENDS DeliveryProofs

USE DEF built, messages

-----------------------------------------------------------------------------
(* One step at a time: what can change, and who changes it. *)

\* Where a handler is before its job has left the process.
Before == {"idle", "routing", "dispatch", "creating"}

\* Once a call has its job, neither the job nor the request changes, and a
\* handler never goes back.
LEMMA Frozen ==
    ASSUME TypeInv, [Next]_vars, NEW c \in Calls
    PROVE  /\ pc[c] \notin {"idle", "routing"} =>
                 req'[c] = req[c] /\ job'[c] = job[c] /\ pc'[c] \notin {"idle", "routing"}
           /\ pc[c] \notin Before => pc'[c] \notin Before
           /\ now \in Nat /\ now' \in Nat /\ now' >= now
<1> DEFINE Goal == /\ pc[c] \notin {"idle", "routing"} =>
                         /\ req'[c] = req[c] /\ job'[c] = job[c]
                         /\ pc'[c] \notin {"idle", "routing"}
                   /\ pc[c] \notin Before => pc'[c] \notin Before
<1>0. /\ pc \in [Calls -> HandlerStates] /\ now \in Nat
      /\ req = [d \in Calls |-> req[d]] /\ job = [d \in Calls |-> job[d]]
  BY DEF TypeInv, TypeOK
<1>1. ASSUME NEW d \in Calls, Handler(d) \/ Die(d) PROVE Goal /\ now' = now
  <2>1. CASE \E r \in Requests : Reject(d, r) \/ Accept(d, r)
    BY <1>0, <2>1 DEF Reject, Accept, Reply, Before
  <2>2. CASE \E id \in JobIds : Route(d, id)
    <3>1. PICK id \in JobIds : Route(d, id)
      BY <2>2
    <3>2. /\ pc[d] = "routing" /\ pc' = [pc EXCEPT ![d] = "dispatch"]
          /\ \E j : job' = [job EXCEPT ![d] = j]
          /\ UNCHANGED <<req, now>>
      BY <3>1 DEF Route
    <3> QED BY <1>0, <3>2 DEF Before
  <2>3. CASE ScheduleNoop(d) \/ ScheduleTooLarge(d) \/ Schedule(d) \/ CreateTaskOk(d)
             \/ CreateTaskUnheard(d) \/ CreateTaskFails(d) \/ EnqueueRefused(d)
             \/ EnqueueNoop(d) \/ Enqueue(d) \/ Respond(d) \/ CtxDone(d) \/ Die(d)
    <3>1. /\ UNCHANGED <<req, job, now>>
          /\ \/ /\ pc[d] = "dispatch"
                /\ \E s \in {"accepted", "replied", "creating", "publishing"} :
                      pc' = [pc EXCEPT ![d] = s]
             \/ \E s \in {"accepted", "replied"} : pc' = [pc EXCEPT ![d] = s]
      BY <2>3 DEF ScheduleNoop, ScheduleTooLarge, Schedule, CreateTaskOk,
         CreateTaskUnheard, CreateTaskFails, EnqueueRefused, EnqueueNoop, Enqueue,
         Respond, CtxDone, Die, Reply
    <3> QED BY <1>0, <3>1 DEF Before
  <2> QED BY <1>1, <2>1, <2>2, <2>3 DEF Handler
<1>2. ASSUME NEW k \in Slots, Callback(k) \/ CallbackLost(k)
      PROVE  UNCHANGED <<pc, req, job, now>>
  BY <1>2 DEF Callback, CallbackBegin, CallbackRefused, CallbackNoop, CallbackEnqueue,
     CallbackOk, CallbackFailed, CallbackLost, handler
<1>3. ASSUME NEW e \in outbox, PublishLands(e) \/ PublishFails(e)
      PROVE  Goal /\ now' = now
  <2>1. /\ UNCHANGED <<req, job, now>>
        /\ pc'[c] = pc[c] \/ (e.by = c /\ pc'[c] \in {"sent", "failed"})
    BY <1>3 DEF PublishLands, PublishFails, Tell
  <2> QED BY <2>1 DEF Before
<1>4. ASSUME Tick \/ Admin \/ UNCHANGED vars
      PROVE  /\ UNCHANGED <<pc, req, job>>
             /\ now' \in Nat /\ now' >= now
  BY <1>0, <1>4 DEF Tick, Admin, vars, handler
<1> QED
  BY <1>0, <1>1, <1>2, <1>3, <1>4 DEF Next, PubSub

\* A handler comes by its job in Route.
LEMMA JobStep ==
    ASSUME TypeInv, [Next]_vars, NEW c \in Calls, pc'[c] \in Busy
    PROVE  \/ pc[c] \in Busy
           \/ \E id \in JobIds : Route(c, id)
<1>0. pc \in [Calls -> HandlerStates]
  BY DEF TypeInv, TypeOK
<1>1. ASSUME NEW d \in Calls, Handler(d) \/ Die(d)
      PROVE  pc[c] \in Busy \/ \E id \in JobIds : Route(c, id)
  BY <1>0, <1>1 DEF Handler, Reject, Accept, Route, ScheduleNoop, ScheduleTooLarge,
     Schedule, CreateTaskOk, CreateTaskUnheard, CreateTaskFails, EnqueueRefused,
     EnqueueNoop, Enqueue, Respond, CtxDone, Die, Reply, Busy
<1>2. ASSUME NEW k \in Slots, Callback(k) \/ CallbackLost(k)
      PROVE  pc' = pc
  BY <1>2 DEF Callback, CallbackBegin, CallbackRefused, CallbackNoop, CallbackEnqueue,
     CallbackOk, CallbackFailed, CallbackLost, handler
<1>3. ASSUME NEW e \in outbox, PublishLands(e) \/ PublishFails(e)
      PROVE  pc[c] \in Busy
  BY <1>3 DEF PublishLands, PublishFails, Tell, TypeInv, Shape, CallWaits, Busy
<1>4. ASSUME Tick \/ Admin \/ UNCHANGED vars
      PROVE  pc' = pc
  BY <1>4 DEF Tick, Admin, vars, handler
<1> QED BY <1>1, <1>2, <1>3, <1>4 DEF Next, PubSub

\* A task comes into being while its handler waits for CreateTask, and keeps its
\* body from then on.
LEMMA TaskStep ==
    ASSUME TypeInv, [Next]_vars, NEW c \in Calls
    PROVE  \/ /\ task'[c].st = "none" <=> task[c].st = "none"
              /\ task'[c].body = task[c].body
           \/ /\ pc[c] = "creating" /\ pc'[c] \notin Before
              /\ task'[c].body = marshalJob(job[c])
<1> DEFINE Goal == \/ /\ task'[c].st = "none" <=> task[c].st = "none"
                      /\ task'[c].body = task[c].body
                   \/ /\ pc[c] = "creating" /\ pc'[c] \notin Before
                      /\ task'[c].body = marshalJob(job[c])
<1>0. /\ pc \in [Calls -> HandlerStates]
      /\ task \in [Calls -> [st: {"none", "pending", "done"}, body: TaskBody \cup {None}]]
  BY DEF TypeInv, TypeOK
<1>1. ASSUME NEW d \in Calls, Handler(d) \/ Die(d) PROVE Goal
  <2>1. \/ task' = task
        \/ /\ pc[d] = "creating" /\ StoreTask(d)
           /\ \E s \in {"accepted", "replied"} : pc' = [pc EXCEPT ![d] = s]
    BY <1>1 DEF Handler, Reject, Accept, Route, ScheduleNoop, ScheduleTooLarge,
       Schedule, CreateTaskOk, CreateTaskUnheard, CreateTaskFails, EnqueueRefused,
       EnqueueNoop, Enqueue, Respond, CtxDone, Die, Reply
  <2>2. ASSUME StoreTask(d), pc[d] = "creating"
        PROVE  /\ task'[d].body = marshalJob(job[d])
               /\ \A b \in Calls : b # d => task'[b] = task[b]
    BY <2>2, TaskStored DEF TypeInv, Shape, JobKnown, Busy
  <2> QED BY <1>0, <2>1, <2>2 DEF Before
<1>2. ASSUME NEW k \in Slots, Callback(k) \/ CallbackLost(k) PROVE Goal
  <2>1. task' = task \/ CallbackOk(k)
    BY <1>2 DEF Callback, CallbackBegin, CallbackRefused, CallbackNoop, CallbackEnqueue,
       CallbackFailed, CallbackLost
  <2>2. ASSUME CallbackOk(k) PROVE Goal
    <3> DEFINE d == attempt[k].job.call
    <3>1. d \in Calls /\ task[d].st # "none"
      BY <2>2, TimeTypes DEF CallbackOk, TypeInv, Shape, AttemptKnown
    <3>2. task' = [task EXCEPT ![d].st = "done"]
      BY <2>2 DEF CallbackOk
    <3> HIDE DEF d
    <3> QED BY <1>0, <3>1, <3>2
  <2> QED BY <2>1, <2>2
<1>3. ASSUME Tick \/ Admin \/ PubSub \/ UNCHANGED vars PROVE task' = task
  BY <1>3 DEF Tick, Admin, PubSub, PublishLands, PublishFails, vars
<1> QED BY <1>1, <1>2, <1>3 DEF Next

\* A callback handler comes by its job in CallbackBegin.
LEMMA AttemptStep ==
    ASSUME TypeInv, [Next]_vars, NEW k \in Slots, attempt'[k].st # "idle"
    PROVE  \/ attempt[k].st # "idle" /\ attempt'[k].job = attempt[k].job
           \/ \E d \in Calls : CallbackBegin(k, d)
<1>0. attempt = [i \in Slots |-> attempt[i]]
      /\ \A i \in Slots : attempt[i] = [st |-> attempt[i].st, job |-> attempt[i].job]
  BY DEF TypeInv, TypeOK
<1>1. ASSUME NEW c \in Calls, Handler(c) \/ Die(c) PROVE attempt' = attempt
  BY <1>1, HandlerFrame
<1>2. ASSUME NEW i \in Slots, Callback(i) \/ CallbackLost(i)
      PROVE  \/ attempt[k].st # "idle" /\ attempt'[k].job = attempt[k].job
             \/ \E d \in Calls : CallbackBegin(k, d)
  BY <1>0, <1>2 DEF Callback, CallbackBegin, CallbackRefused, CallbackNoop,
     CallbackEnqueue, CallbackOk, CallbackFailed, CallbackLost
<1>3. ASSUME NEW e \in outbox, PublishLands(e) \/ PublishFails(e)
      PROVE  attempt[k].st # "idle" /\ attempt'[k].job = attempt[k].job
  BY <1>0, <1>3 DEF PublishLands, PublishFails, Tell, TypeInv, Shape, SlotWaits
<1>4. ASSUME Tick \/ Admin \/ UNCHANGED vars PROVE attempt' = attempt
  BY <1>4 DEF Tick, Admin, vars
<1> QED BY <1>1, <1>2, <1>3, <1>4 DEF Next, PubSub

\* The messages in the topics and on their way there.
Messages == published \cup {e.msg : e \in outbox}

\* A message is put on its way by Enqueue or by a callback.
LEMMA MessageStep ==
    ASSUME TypeInv, [Next]_vars, NEW m \in Messages'
    PROVE  \/ m \in Messages
           \/ \E c \in Calls : Enqueue(c) /\ m = Marshal(job[c])
           \/ \E k \in Slots : CallbackEnqueue(k) /\ m = Marshal(attempt[k].job)
<1> DEFINE Goal == \/ m \in Messages
                   \/ \E c \in Calls : Enqueue(c) /\ m = Marshal(job[c])
                   \/ \E k \in Slots : CallbackEnqueue(k) /\ m = Marshal(attempt[k].job)
<1>0. outbox \subseteq [by: Calls \cup Slots \cup {None}, msg: Message]
  BY DEF TypeInv, TypeOK
<1>1. CASE published' \subseteq published /\ \A f \in outbox' : \E e \in outbox : f.msg = e.msg
  BY <1>1 DEF Messages
<1>2. ASSUME NEW c \in Calls, Handler(c) \/ Die(c) PROVE Goal
  <2>1. CASE Enqueue(c)
    <3>1. /\ published' = published
          /\ \A f \in outbox' : f \in outbox \/ f.msg = Marshal(job[c])
      BY <2>1 DEF Enqueue, Publish
    <3> QED BY <2>1, <3>1 DEF Messages
  <2>2. CASE CtxDone(c) \/ Die(c)
    BY <1>0, <1>1, <2>2 DEF CtxDone, Die, Orphan
  <2>3. CASE UNCHANGED <<outbox, published>>
    BY <1>1, <2>3
  <2> QED
    BY <1>2, <2>1, <2>2, <2>3 DEF Handler, Reject, Accept, Route, ScheduleNoop,
       ScheduleTooLarge, Schedule, CreateTaskOk, CreateTaskUnheard, CreateTaskFails,
       EnqueueRefused, EnqueueNoop, Respond
<1>3. ASSUME NEW k \in Slots, Callback(k) \/ CallbackLost(k) PROVE Goal
  <2>1. CASE CallbackEnqueue(k)
    <3>1. /\ published' = published
          /\ \A f \in outbox' : f \in outbox \/ f.msg = Marshal(attempt[k].job)
      BY <2>1 DEF CallbackEnqueue, Publish
    <3> QED BY <2>1, <3>1 DEF Messages
  <2>2. CASE CallbackLost(k)
    BY <1>0, <1>1, <2>2 DEF CallbackLost, Orphan
  <2>3. CASE UNCHANGED <<outbox, published>>
    BY <1>1, <2>3
  <2> QED
    BY <1>3, <2>1, <2>2, <2>3 DEF Callback, CallbackBegin, CallbackRefused,
       CallbackNoop, CallbackOk, CallbackFailed
<1>4. ASSUME NEW e \in outbox, PublishLands(e) \/ PublishFails(e) PROVE Goal
  BY <1>4 DEF PublishLands, PublishFails, Messages
<1>5. ASSUME Tick \/ Admin \/ UNCHANGED vars PROVE Goal
  BY <1>1, <1>5 DEF Tick, Admin, vars
<1> QED BY <1>2, <1>3, <1>4, <1>5 DEF Next, PubSub

-----------------------------------------------------------------------------
(* What reaches a topic is what the client sent. *)

\* Job or body j carries what request r asked for, as job i was made of it.
Like(j, r, i) ==
    /\ j.id = i.id /\ j.priority = i.priority
    /\ j.type = r.jobType /\ j.payload = r.payload
    /\ j.shadow = (r.shadow = "true")
    /\ j.runAt >= r.runAt

\* So does message m.
MessageLike(m, r, i) ==
    /\ m.id = i.id
    /\ m.jobType = r.jobType
    /\ m.args = IF r.payload.form = "nil" THEN NullJSON ELSE r.payload
    /\ m.shadow = (r.shadow = "true")
    /\ m.queue = PriorityString(i.priority)
    /\ m.topic \in ConfiguredTopics
    /\ m.topic # i.priority => m.topic = PriorityMedium
    /\ m.runAt >= r.runAt

JobFaith == \A c \in Calls : pc[c] \in Busy => Like(job[c], req[c], job[c])

TaskFaith == \A c \in Calls :
    task[c].st # "none" => /\ pc[c] \notin Before
                           /\ Like(task[c].body, req[c], job[c])

AttemptFaith == \A k \in Slots :
    attempt[k].st # "idle" =>
        LET j == attempt[k].job
        IN  Like(j, req[j.call], job[j.call]) /\ j.runAt <= now

MessageFaith == \A m \in Messages :
    /\ pc[m.call] \notin Before
    /\ MessageLike(m, req[m.call], job[m.call])
    /\ task[m.call].st # "none" => m.runAt <= now

FaithInv == JobFaith /\ TaskFaith /\ AttemptFaith /\ MessageFaith

\* Initially there is nothing to be like anything.
LEMMA InitFaith == Init => FaithInv
BY DEF Init, FaithInv, JobFaith, TaskFaith, AttemptFaith, MessageFaith, Messages, Busy

\* A job is built from its request.
LEMMA NewJobLike ==
    ASSUME NEW c, NEW r \in Request, NEW id, NEW config, NEW t \in Nat,
           NEW j, j = NewJob(c, r, id, config, t)
    PROVE  Like(j, r, j)
<1>1. r.runAt \in Int
  BY RunAtInt
<1> QED BY <1>1 DEF NewJob, Like, shadowFromContext, NoRunAt

\* Both encodings of a job that can be published lose nothing of it.
LEMMA MarshalLike ==
    ASSUME NEW j, NEW r, NEW i, Like(j, r, i), topicFor(j.priority) # NoTopic
    PROVE  MessageLike(Marshal(j), r, i)
<1>1. /\ topicFor(j.priority) \in ConfiguredTopics
      /\ topicFor(j.priority) # j.priority => topicFor(j.priority) = PriorityMedium
  BY Zenon DEF topicFor
<1> HIDE DEF NullJSON
<1> QED BY <1>1 DEF Like, MessageLike, Marshal

\* The body of a task, and the job decoded from it.
LEMMA TaskBodyLike ==
    ASSUME NEW j, NEW r, NEW i, Like(j, r, i)
    PROVE  Like(marshalJob(j), r, i) /\ Like(UnmarshalJob(j), r, i)
BY DEF Like, marshalJob, UnmarshalJob

\* The job of a handler.
LEMMA JobFaithStep ==
    ASSUME TypeInv, FaithInv, [Next]_vars
    PROVE  JobFaith'
<1> SUFFICES ASSUME NEW c \in Calls, pc'[c] \in Busy
             PROVE  Like(job'[c], req'[c], job'[c])
  BY DEF JobFaith
<1>1. CASE pc[c] \in Busy
  BY <1>1, Frozen DEF FaithInv, JobFaith, Busy
<1>2. ASSUME NEW id \in JobIds, Route(c, id)
      PROVE  Like(job'[c], req'[c], job'[c])
  <2> DEFINE config == routingConfig(req[c])
  <2>1. /\ job' = [job EXCEPT ![c] = NewJob(c, req[c], id, config, now)]
        /\ req' = req /\ pc[c] = "routing"
    BY <1>2 DEF Route
  <2>2. job'[c] = NewJob(c, req[c], id, config, now) /\ now \in Nat
    BY <2>1 DEF TypeInv, TypeOK
  <2>3. req[c] \in Request
    BY <2>1 DEF TypeInv, Shape, RequestKnown
  <2> HIDE DEF config
  <2> QED BY <2>1, <2>2, <2>3, NewJobLike
<1> QED BY <1>1, <1>2, JobStep

\* The body of a task.
LEMMA TaskFaithStep ==
    ASSUME TypeInv, FaithInv, [Next]_vars
    PROVE  TaskFaith'
<1> SUFFICES ASSUME NEW c \in Calls, task'[c].st # "none"
             PROVE  pc'[c] \notin Before /\ Like(task'[c].body, req'[c], job'[c])
  BY DEF TaskFaith
<1>1. CASE task[c].st # "none" /\ task'[c].body = task[c].body
  BY <1>1, Frozen DEF FaithInv, TaskFaith, Before
<1>2. CASE /\ pc[c] = "creating" /\ pc'[c] \notin Before
           /\ task'[c].body = marshalJob(job[c])
  <2>1. Like(marshalJob(job[c]), req[c], job[c])
    BY <1>2, TaskBodyLike DEF FaithInv, JobFaith, Busy
  <2> QED BY <1>2, <2>1, Frozen
<1> QED BY <1>1, <1>2, TaskStep

\* The job of a callback handler.
LEMMA AttemptFaithStep ==
    ASSUME TypeInv, FaithInv, [Next]_vars
    PROVE  AttemptFaith'
<1> SUFFICES ASSUME NEW k \in Slots, attempt'[k].st # "idle"
             PROVE  /\ Like(attempt'[k].job, req'[attempt'[k].job.call],
                            job'[attempt'[k].job.call])
                    /\ attempt'[k].job.runAt <= now'
  BY DEF AttemptFaith
<1>1. CASE attempt[k].st # "idle" /\ attempt'[k].job = attempt[k].job
  <2> DEFINE j == attempt[k].job
  <2>1. /\ Like(j, req[j.call], job[j.call]) /\ j.runAt <= now
    BY <1>1 DEF FaithInv, AttemptFaith
  <2>2. j.call \in Calls /\ j.runAt \in Nat /\ task[j.call].st # "none"
    BY <1>1 DEF TypeInv, Shape, AttemptKnown, AJob, Job
  <2>3. pc[j.call] \notin Before
    BY <2>2 DEF FaithInv, TaskFaith
  <2>4. attempt'[k].job = j
    BY <1>1
  <2> HIDE DEF j
  <2> QED BY <2>1, <2>2, <2>3, <2>4, Frozen DEF Before
<1>2. ASSUME NEW d \in Calls, CallbackBegin(k, d)
      PROVE  /\ Like(attempt'[k].job, req'[attempt'[k].job.call],
                     job'[attempt'[k].job.call])
             /\ attempt'[k].job.runAt <= now'
  <2> DEFINE b == task[d].body
             j == [UnmarshalJob(b) EXCEPT !.runAt = now]
  <2>1. /\ attempt' = [attempt EXCEPT ![k] = [st |-> "enqueue", job |-> j]]
        /\ task[d].st = "pending" /\ now >= b.runAt
        /\ req' = req /\ job' = job /\ now' = now
    BY <1>2 DEF CallbackBegin, handler
  <2>2. attempt'[k].job = j
    BY <2>1 DEF TypeInv, TypeOK
  <2>3. /\ Like(b, req[d], job[d])
    BY <2>1 DEF FaithInv, TaskFaith
  <2>4. b.call = d /\ b.runAt \in Nat /\ now \in Nat /\ req[d].runAt \in Int
    <3>1. pc[d] # "idle"
      BY <2>1 DEF FaithInv, TaskFaith, Before
    <3> QED BY <2>1, <3>1, TimeTypes DEF TypeInv, Shape, TaskKnown
  <2>5. j.call = d /\ j.runAt = now
    BY <2>4 DEF UnmarshalJob
  <2>6. now >= req[d].runAt
    <3> HIDE DEF b
    <3> QED BY <2>1, <2>3, <2>4 DEF Like
  <2>7. Like(j, req[d], job[d])
    BY <2>3, <2>6 DEF Like, UnmarshalJob
  <2> HIDE DEF j
  <2> QED BY <2>1, <2>2, <2>4, <2>5, <2>7
<1> QED BY <1>1, <1>2, AttemptStep

\* The messages.
LEMMA MessageFaithStep ==
    ASSUME TypeInv, FaithInv, [Next]_vars
    PROVE  MessageFaith'
<1> SUFFICES ASSUME NEW m \in Messages'
             PROVE  /\ pc'[m.call] \notin Before
                    /\ MessageLike(m, req'[m.call], job'[m.call])
                    /\ task'[m.call].st # "none" => m.runAt <= now'
  BY DEF MessageFaith
<1>1. CASE m \in Messages
  <2>1. /\ pc[m.call] \notin Before
        /\ MessageLike(m, req[m.call], job[m.call])
        /\ task[m.call].st # "none" => m.runAt <= now
    BY <1>1 DEF FaithInv, MessageFaith
  <2>2. m.call \in Calls /\ m.runAt \in Nat
    BY <1>1 DEF Messages, TypeInv, TypeOK, Message
  <2>3. /\ req'[m.call] = req[m.call] /\ job'[m.call] = job[m.call]
        /\ pc'[m.call] \notin Before
        /\ now \in Nat /\ now' \in Nat /\ now' >= now
    BY <2>1, <2>2, Frozen DEF Before
  <2>4. task'[m.call].st # "none" => task[m.call].st # "none"
    BY <2>1, <2>2, TaskStep DEF Before
  <2> QED BY <2>1, <2>2, <2>3, <2>4
<1>2. ASSUME NEW c \in Calls, Enqueue(c), m = Marshal(job[c])
      PROVE  /\ pc'[m.call] \notin Before
             /\ MessageLike(m, req'[m.call], job'[m.call])
             /\ task'[m.call].st # "none" => m.runAt <= now'
  <2>1. /\ pc[c] = "dispatch" /\ pc' = [pc EXCEPT ![c] = "publishing"]
        /\ req' = req /\ job' = job /\ task' = task
        /\ topicFor(job[c].priority) # NoTopic
    BY <1>2 DEF Enqueue, BackendRefuses
  <2>2. m.call = c
    BY <1>2, <2>1 DEF Marshal, TypeInv, Shape, JobKnown, Busy
  <2>3. task[c].st = "none"
    BY <2>1 DEF FaithInv, TaskFaith, Before
  <2>4. MessageLike(m, req[c], job[c])
    BY <1>2, <2>1, MarshalLike DEF FaithInv, JobFaith, Busy
  <2>5. pc'[c] = "publishing"
    BY <2>1 DEF TypeInv, TypeOK
  <2> QED BY <2>1, <2>2, <2>3, <2>4, <2>5 DEF Before
<1>3. ASSUME NEW k \in Slots, CallbackEnqueue(k), m = Marshal(attempt[k].job)
      PROVE  /\ pc'[m.call] \notin Before
             /\ MessageLike(m, req'[m.call], job'[m.call])
             /\ task'[m.call].st # "none" => m.runAt <= now'
  <2> DEFINE j == attempt[k].job
  <2>1. /\ attempt[k].st = "enqueue"
        /\ pc' = pc /\ req' = req /\ job' = job /\ task' = task /\ now' = now
        /\ topicFor(j.priority) # NoTopic
    BY <1>3 DEF CallbackEnqueue, BackendRefuses, handler
  <2>2. m.call = j.call /\ m.runAt = j.runAt
    BY <1>3 DEF Marshal
  <2>3. Like(j, req[j.call], job[j.call]) /\ j.runAt <= now
    BY <2>1 DEF FaithInv, AttemptFaith
  <2>4. j.call \in Calls /\ task[j.call].st # "none"
    BY <2>1 DEF TypeInv, Shape, AttemptKnown, AJob, Job
  <2>5. pc[j.call] \notin Before
    BY <2>4 DEF FaithInv, TaskFaith
  <2>6. MessageLike(m, req[j.call], job[j.call])
    BY <1>3, <2>1, <2>3, MarshalLike
  <2> HIDE DEF j
  <2> QED BY <2>1, <2>2, <2>3, <2>5, <2>6
<1> QED BY <1>1, <1>2, <1>3, MessageStep

\* Every step keeps them all.
LEMMA NextFaith == TypeInv /\ FaithInv /\ [Next]_vars => FaithInv'
BY JobFaithStep, TaskFaithStep, AttemptFaithStep, MessageFaithStep DEF FaithInv

\* Every message in a topic carries what the client sent under the id it was
\* answered, in the topic of its queue, whichever way it came and however often
\* the clocks, the crashes and the callbacks interleaved.
THEOREM MessagesFaithful == Spec => []PublishedFaithful
<1>1. FaithInv => PublishedFaithful
  BY DEF FaithInv, MessageFaith, MessageLike, Messages, PublishedFaithful
<1> QED
  BY <1>1, InitTypeInv, NextTypeInv, InitFaith, NextFaith, PTL DEF Spec

-----------------------------------------------------------------------------
(* Routing stays right.  A handler reads the registry twice: between the   *)
(* two reads it remembers a producer that was registered, and after the    *)
(* second a job that agrees with a registry that only grows.               *)

\* A call's request, warnings and job come from Reject, Accept and Route alone.
LEMMA BuiltStep ==
    ASSUME TypeInv, [Next]_vars, NEW c \in Calls
    PROVE  \/ /\ req'[c] = req[c] /\ warn'[c] = warn[c] /\ job'[c] = job[c]
              /\ pc'[c] \in {"idle", "routing"} => pc'[c] = pc[c]
           \/ \E r \in Requests : Reject(c, r) \/ Accept(c, r)
           \/ \E id \in JobIds : Route(c, id)
<1> DEFINE Same == /\ req'[c] = req[c] /\ warn'[c] = warn[c] /\ job'[c] = job[c]
                   /\ pc'[c] \in {"idle", "routing"} => pc'[c] = pc[c]
           Goal == \/ Same
                   \/ \E r \in Requests : Reject(c, r) \/ Accept(c, r)
                   \/ \E id \in JobIds : Route(c, id)
<1>0. /\ pc = [d \in Calls |-> pc[d]] /\ req = [d \in Calls |-> req[d]]
      /\ warn = [d \in Calls |-> warn[d]] /\ job = [d \in Calls |-> job[d]]
  BY DEF TypeInv, TypeOK
<1>1. ASSUME NEW d \in Calls, Handler(d) \/ Die(d) PROVE Goal
  <2>1. CASE \E r \in Requests : Reject(d, r) \/ Accept(d, r)
    <3>1. CASE d = c
      BY <2>1, <3>1
    <3>2. CASE d # c
      <4>1. \A x : /\ [pc EXCEPT ![d] = x][c] = pc[c] /\ [req EXCEPT ![d] = x][c] = req[c]
                   /\ [warn EXCEPT ![d] = x][c] = warn[c]
        BY <1>0, <3>2
      <4>2. Same
        BY <2>1, <4>1 DEF Reject, Accept, Reply
      <4> QED BY <4>2
    <3> QED BY <3>1, <3>2
  <2>2. CASE \E id \in JobIds : Route(d, id)
    <3>1. CASE d = c
      BY <2>2, <3>1
    <3>2. CASE d # c
      <4>1. \E x, y : /\ warn' = [warn EXCEPT ![d] = x] /\ job' = [job EXCEPT ![d] = y]
                      /\ pc' = [pc EXCEPT ![d] = "dispatch"] /\ req' = req
        BY <2>2 DEF Route
      <4>2. Same
        BY <1>0, <3>2, <4>1
      <4> QED BY <4>2
    <3> QED BY <3>1, <3>2
  <2>3. CASE ScheduleNoop(d) \/ ScheduleTooLarge(d) \/ Schedule(d) \/ CreateTaskOk(d)
             \/ CreateTaskUnheard(d) \/ CreateTaskFails(d) \/ EnqueueRefused(d)
             \/ EnqueueNoop(d) \/ Enqueue(d) \/ Respond(d) \/ CtxDone(d) \/ Die(d)
    <3>1. /\ UNCHANGED <<req, warn, job>>
          /\ \E s \in {"accepted", "replied", "creating", "publishing"} :
                pc' = [pc EXCEPT ![d] = s]
      BY <2>3 DEF ScheduleNoop, ScheduleTooLarge, Schedule, CreateTaskOk,
         CreateTaskUnheard, CreateTaskFails, EnqueueRefused, EnqueueNoop, Enqueue,
         Respond, CtxDone, Die, Reply
    <3> QED BY <1>0, <3>1
  <2> QED BY <1>1, <2>1, <2>2, <2>3 DEF Handler
<1>2. ASSUME NEW k \in Slots, Callback(k) \/ CallbackLost(k)
      PROVE  UNCHANGED <<pc, req, warn, job>>
  BY <1>2 DEF Callback, CallbackBegin, CallbackRefused, CallbackNoop, CallbackEnqueue,
     CallbackOk, CallbackFailed, CallbackLost, handler
<1>3. ASSUME NEW e \in outbox, PublishLands(e) \/ PublishFails(e) PROVE Goal
  <2>1. /\ UNCHANGED <<req, warn, job>>
        /\ pc'[c] = pc[c] \/ pc'[c] \in {"sent", "failed"}
    BY <1>3 DEF PublishLands, PublishFails, Tell
  <2> QED BY <2>1
<1>4. ASSUME Tick \/ Admin \/ UNCHANGED vars
      PROVE  UNCHANGED <<pc, req, warn, job>>
  BY <1>4 DEF Tick, Admin, vars, handler
<1> QED
  BY <1>1, <1>2, <1>3, <1>4 DEF Next, PubSub

\* Only administrators change the registry, and they only add to it.
LEMMA RegistryStays ==
    ASSUME [Next]_vars
    PROVE  /\ producers \subseteq producers'
           /\ DOMAIN jobTypes \subseteq DOMAIN jobTypes'
           /\ \A k \in DOMAIN jobTypes : jobTypes'[k] = jobTypes[k]
           /\ Retried => Retried'
<1>1. StoreNext \/ (producers' = producers /\ jobTypes' = jobTypes)
  BY DEF Next, vars, Tick, Admin, Handler, Callback, PubSub, Reject, Accept, Route,
     ScheduleNoop, ScheduleTooLarge, Schedule, CreateTaskOk, CreateTaskUnheard,
     CreateTaskFails, EnqueueRefused, EnqueueNoop, Enqueue, Respond, CtxDone, Die,
     CallbackBegin, CallbackRefused, CallbackNoop, CallbackEnqueue, CallbackOk,
     CallbackFailed, CallbackLost, PublishLands, PublishFails, registry
<1> QED BY <1>1, RegistryGrows, RetriedStep DEF Retried

\* Between the two reads nothing is known of the job type, and a producer
\* nobody warned about is there.
HalfRouted == \A c \in Calls :
    /\ pc[c] \in {"idle", "routing"} => job[c] = None
    /\ pc[c] = "routing" => /\ "jobType" \notin warn[c]
                            /\ "producer" \notin warn[c] => req[c].producer \in producers

JobsSound == \A c \in Calls :
    job[c] # None => Sound(producers, jobTypes, req[c], job[c], warn[c])

RouteInv == Retried /\ HalfRouted /\ JobsSound

\* Initially nothing is registered and nothing is routed.
LEMMA InitRoute == Init => RouteInv
BY DEF Init, RouteInv, HalfRouted, JobsSound, Retried, StoreInit, EmptyMap

\* Every step keeps the decisions right.
LEMMA NextRoute == TypeInv /\ RouteInv /\ [Next]_vars => RouteInv'
<1> SUFFICES ASSUME TypeInv, RouteInv, [Next]_vars PROVE RouteInv'
  OBVIOUS
<1>0. /\ pc = [d \in Calls |-> pc[d]] /\ req = [d \in Calls |-> req[d]]
      /\ warn = [d \in Calls |-> warn[d]] /\ job = [d \in Calls |-> job[d]]
  BY DEF TypeInv, TypeOK
<1>1. Retried'
  BY RegistryStays DEF RouteInv
<1>2. ASSUME NEW c \in Calls
      PROVE  /\ pc'[c] \in {"idle", "routing"} => job'[c] = None
             /\ pc'[c] = "routing" =>
                   /\ "jobType" \notin warn'[c]
                   /\ "producer" \notin warn'[c] => req'[c].producer \in producers'
             /\ job'[c] # None =>
                   Sound(producers', jobTypes', req'[c], job'[c], warn'[c])
  <2>0. producers \subseteq producers'
    BY RegistryStays
  <2>1. CASE /\ req'[c] = req[c] /\ warn'[c] = warn[c] /\ job'[c] = job[c]
             /\ pc'[c] \in {"idle", "routing"} => pc'[c] = pc[c]
    <3>1. job[c] # None => Sound(producers, jobTypes, req[c], job[c], warn[c])
      BY DEF RouteInv, JobsSound
    <3>2. job[c] # None => Sound(producers', jobTypes', req[c], job[c], warn[c])
      BY <3>1, RegistryStays, SoundStays
    <3> QED BY <2>0, <2>1, <3>2 DEF RouteInv, HalfRouted
  <2>2. ASSUME NEW r \in Requests, Reject(c, r) \/ Accept(c, r)
        PROVE  /\ job'[c] = None
               /\ pc'[c] = "routing" =>
                     /\ "jobType" \notin warn'[c]
                     /\ "producer" \notin warn'[c] => req'[c].producer \in producers'
    <3>1. pc[c] = "idle" /\ job' = job /\ req' = [req EXCEPT ![c] = r]
      BY <2>2 DEF Reject, Accept
    <3>2. job'[c] = None /\ req'[c] = r
      BY <1>0, <3>1 DEF RouteInv, HalfRouted
    <3>3. CASE Reject(c, r)
      BY <1>0, <3>2, <3>3 DEF Reject, Reply
    <3>4. CASE Accept(c, r)
      <4>1. warn'[c] = IF r.producer \in producers THEN {} ELSE {"producer"}
        BY <1>0, <3>4 DEF Accept, GetProducer
      <4> QED BY <2>0, <3>2, <4>1
    <3> QED BY <2>2, <3>3, <3>4
  <2>3. ASSUME NEW id \in JobIds, Route(c, id)
        PROVE  /\ pc'[c] = "dispatch"
               /\ Sound(producers', jobTypes', req'[c], job'[c], warn'[c])
    <3> DEFINE r == req[c]
               config == routingConfig(r)
               j == NewJob(c, r, id, config, now)
    <3>1. /\ pc[c] = "routing" /\ pc' = [pc EXCEPT ![c] = "dispatch"]
          /\ warn' = [warn EXCEPT ![c] = warn[c] \cup config.warnings]
          /\ job' = [job EXCEPT ![c] = j]
          /\ req' = req /\ producers' = producers /\ jobTypes' = jobTypes
      BY <2>3 DEF Route, registry
    <3>2. Sound(producers, jobTypes, r, j, warn[c] \cup config.warnings)
      BY <3>1, SoundNew DEF RouteInv, HalfRouted
    <3>3. /\ pc'[c] = "dispatch" /\ job'[c] = j /\ req'[c] = r
          /\ warn'[c] = warn[c] \cup config.warnings
      <4> HIDE DEF j, config
      <4> QED BY <1>0, <3>1
    <3> HIDE DEF j, config
    <3> QED BY <3>1, <3>2, <3>3
  <2> QED BY <2>1, <2>2, <2>3, BuiltStep
<1> QED BY <1>1, <1>2 DEF RouteInv, HalfRouted, JobsSound

\* Where a job was routed agrees with the registry, then and ever after, for any
\* number of calls and administrators between a handler's two reads of it.
THEOREM RoutingStaysSound == Spec => []RoutingSound
<1>1. RouteInv => RoutingSound
  BY SoundIs DEF RouteInv, JobsSound, RoutingSound
<1> QED
  BY <1>1, InitTypeInv, NextTypeInv, InitRoute, NextRoute, PTL DEF Spec

-----------------------------------------------------------------------------
(* OK for a job that is due means that it is published: the only other way *)
(* to an OK is a scheduler, and nothing is scheduled that is not for       *)
(* later.                                                                  *)

\* A job's run time is the one asked for, or that of its building.
RunAtAsked == \A c \in Calls :
    pc[c] \in Busy => job[c].runAt = req[c].runAt \/ job[c].runAt <= now

\* Who waits for a scheduler, or heard from one, has a job for later.
ScheduledLater == \A c \in Calls :
    pc[c] \in {"creating", "accepted"} => req[c].runAt >= ScheduleThreshold

OkDue == \A c \in Calls :
    code[c] = "OK" => Published(c) \/ req[c].runAt >= ScheduleThreshold

DueInv == Backend = "pubsub" => RunAtAsked /\ ScheduledLater /\ OkDue

\* Initially nobody was answered.
LEMMA InitDue == Init => DueInv
BY DEF Init, DueInv, RunAtAsked, ScheduledLater, OkDue, Busy

\* The run time of a job in hand.
LEMMA RunAtStep ==
    ASSUME TypeInv, RunAtAsked, [Next]_vars
    PROVE  RunAtAsked'
<1> SUFFICES ASSUME NEW c \in Calls, pc'[c] \in Busy
             PROVE  job'[c].runAt = req'[c].runAt \/ job'[c].runAt <= now'
  BY DEF RunAtAsked
<1>1. CASE pc[c] \in Busy
  <2>1. /\ job'[c] = job[c] /\ req'[c] = req[c]
        /\ now \in Nat /\ now' \in Nat /\ now' >= now
    BY <1>1, Frozen DEF Busy
  <2>2. job[c].runAt \in Nat
    BY <1>1, TimeTypes
  <2> QED BY <1>1, <2>1, <2>2 DEF RunAtAsked
<1>2. ASSUME NEW id \in JobIds, Route(c, id)
      PROVE  job'[c].runAt = req'[c].runAt \/ job'[c].runAt <= now'
  <2> DEFINE j == NewJob(c, req[c], id, routingConfig(req[c]), now)
  <2>1. job' = [job EXCEPT ![c] = j] /\ req' = req /\ now' = now
    BY <1>2 DEF Route
  <2>2. j.runAt = req[c].runAt \/ j.runAt = now
    BY DEF NewJob
  <2> HIDE DEF j
  <2>3. job'[c] = j /\ now \in Nat
    BY <2>1 DEF TypeInv, TypeOK
  <2> QED BY <2>1, <2>2, <2>3
<1> QED BY <1>1, <1>2, JobStep

\* What goes to a scheduler is for later.
LEMMA LaterStep ==
    ASSUME TypeInv, Backend = "pubsub", RunAtAsked, ScheduledLater, [Next]_vars
    PROVE  ScheduledLater'
<1> SUFFICES ASSUME NEW c \in Calls, pc'[c] \in {"creating", "accepted"}
             PROVE  req'[c].runAt >= ScheduleThreshold
  BY DEF ScheduledLater
<1>0. pc = [d \in Calls |-> pc[d]]
  BY DEF TypeInv, TypeOK
<1>1. \/ pc[c] \in {"creating", "accepted"}
      \/ pc[c] = "dispatch" /\ UseScheduler(Scheduler, job[c], now)
  <2>1. ASSUME NEW d \in Calls, Handler(d) \/ Die(d)
        PROVE  \/ pc[c] \in {"creating", "accepted"}
               \/ pc[c] = "dispatch" /\ UseScheduler(Scheduler, job[c], now)
    <3> HIDE DEF UseScheduler
    <3> QED
      BY <1>0, <2>1 DEF Handler, Reject, Accept, Route, ScheduleNoop, ScheduleTooLarge,
         Schedule, CreateTaskOk, CreateTaskUnheard, CreateTaskFails, EnqueueRefused,
         EnqueueNoop, Enqueue, Respond, CtxDone, Die, Reply
  <2>2. ASSUME NEW k \in Slots, Callback(k) \/ CallbackLost(k)
        PROVE  pc' = pc
    BY <2>2 DEF Callback, CallbackBegin, CallbackRefused, CallbackNoop, CallbackEnqueue,
       CallbackOk, CallbackFailed, CallbackLost, handler
  <2>3. ASSUME NEW e \in outbox, PublishLands(e) \/ PublishFails(e)
        PROVE  pc[c] \in {"creating", "accepted"}
    BY <2>3 DEF PublishLands, PublishFails, Tell
  <2>4. ASSUME Tick \/ Admin \/ UNCHANGED vars
        PROVE  pc' = pc
    BY <2>4 DEF Tick, Admin, vars, handler
  <2> QED BY <2>1, <2>2, <2>3, <2>4 DEF Next, PubSub
<1>2. req'[c] = req[c]
  BY <1>1, Frozen
<1>3. CASE pc[c] = "dispatch" /\ UseScheduler(Scheduler, job[c], now)
  <2>1. /\ job[c].runAt \in Nat /\ now \in Nat /\ ScheduleThreshold \in Int
        /\ ScheduleThreshold > 0 /\ job[c].runAt - now >= ScheduleThreshold
    BY <1>3, TimeTypes DEF UseScheduler, Busy
  <2>2. job[c].runAt = req[c].runAt \/ job[c].runAt <= now
    BY <1>3 DEF RunAtAsked, Busy
  <2> QED BY <1>2, <2>1, <2>2
<1> QED BY <1>1, <1>2, <1>3 DEF ScheduledLater

\* A call is told OK by Respond, after a scheduler or Pub/Sub said so.
LEMMA OkStep ==
    ASSUME TypeInv, [Next]_vars, NEW c \in Calls, code'[c] = "OK"
    PROVE  code[c] = "OK" \/ pc[c] \in {"accepted", "sent"}
<1>0. code = [d \in Calls |-> code[d]]
  BY DEF TypeInv, TypeOK
<1>1. ASSUME NEW d \in Calls, Handler(d) \/ Die(d)
      PROVE  code[c] = "OK" \/ pc[c] \in {"accepted", "sent"}
  BY <1>0, <1>1 DEF Handler, Reject, Accept, Route, ScheduleNoop, ScheduleTooLarge,
     Schedule, CreateTaskOk, CreateTaskUnheard, CreateTaskFails, EnqueueRefused,
     EnqueueNoop, Enqueue, Respond, CtxDone, Die, Reply
<1>2. ASSUME NEW k \in Slots, Callback(k) \/ CallbackLost(k) PROVE code' = code
  BY <1>2 DEF Callback, CallbackBegin, CallbackRefused, CallbackNoop, CallbackEnqueue,
     CallbackOk, CallbackFailed, CallbackLost, handler
<1>3. ASSUME Tick \/ Admin \/ PubSub \/ UNCHANGED vars PROVE code' = code
  BY <1>3 DEF Tick, Admin, PubSub, PublishLands, PublishFails, vars, handler
<1> QED BY <1>1, <1>2, <1>3 DEF Next

\* Every step keeps the answers true.
LEMMA NextDue == HeldInv /\ Settled /\ DueInv /\ [Next]_vars => DueInv'
<1> SUFFICES ASSUME HeldInv, Settled, DueInv, [Next]_vars, Backend' = "pubsub"
             PROVE  (RunAtAsked /\ ScheduledLater /\ OkDue)'
  BY DEF DueInv
<1>1. Backend = "pubsub" /\ TypeInv /\ TaskInv /\ RunAtAsked /\ ScheduledLater /\ OkDue
  BY FixedParts DEF Backend, HeldInv, DueInv
<1>2. RunAtAsked' /\ ScheduledLater'
  BY <1>1, RunAtStep, LaterStep
<1>3. ASSUME NEW c \in Calls, code'[c] = "OK"
      PROVE  Published(c)' \/ req'[c].runAt >= ScheduleThreshold
  <2>1. code[c] = "OK" \/ pc[c] \in {"accepted", "sent"}
    BY <1>1, <1>3, OkStep
  <2>2. Published(c) \/ req[c].runAt >= ScheduleThreshold
    BY <1>1, <2>1 DEF OkDue, ScheduledLater, TaskInv, SentPublished
  <2>3. req'[c] = req[c]
    BY <1>1, <2>1, Frozen DEF Settled
  <2> QED BY <2>2, <2>3, PublishedStays
<1> QED BY <1>2, <1>3 DEF OkDue

\* With the Pub/Sub backend and any scheduler, a client that was told OK for a
\* job that is not for later has it in a topic.
THEOREM OkIsPublished == Spec => []OkMeansPublished
<1>1. HeldInv /\ Settled /\ DueInv => OkMeansPublished
  <2> SUFFICES ASSUME HeldInv, Settled, DueInv, Backend = "pubsub", NEW c \in Calls,
                      code[c] = "OK", req[c].runAt < ScheduleThreshold
               PROVE  Published(c)
    BY DEF OkMeansPublished
  <2>1. req[c].runAt \in Int /\ ScheduleThreshold \in Int
    BY TimeTypes DEF Settled, HeldInv
  <2> QED BY <2>1 DEF DueInv, OkDue
<1>2. HeldInv /\ Settled /\ [Next]_vars => Settled'
  BY NextSettled DEF HeldInv
<1>3. Spec => []HeldInv
  BY HeldAlways
<1> QED
  BY <1>1, <1>2, <1>3, InitSettled, InitDue, NextDue, PTL DEF Spec
=============================================================================
