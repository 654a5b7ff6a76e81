--------------------------- MODULE DeliveryProofs ---------------------------
(***************************************************************************)
(* Theorems about Delivery, for every set of calls, callback handlers, job *)
(* ids and requests and every configuration.                               *)
(***************************************************************************)
EXTENDS Delivery, RoutingProofs

AJob == Job(Calls, JobIds)

USE DEF built, messages

-----------------------------------------------------------------------------
(* What the helpers return. *)

\* The body of a task has a body's type.
LEMMA MarshalJobType == \A j \in AJob : marshalJob(j) \in TaskBody
<1>1. TAKE j \in AJob
<1>2. j.payload.size \in Nat
  BY DEF AJob, Job, Payload
<1>3. EnvelopeSize + Base64Len(j.payload.size) \in Nat
  BY <1>2, Base64Type, ConfigAssumption DEF ConfigAssumption
<1> QED
  BY <1>1, <1>3 DEF AJob, Job, TaskBody, marshalJob

\* What the callback decodes is a job again, that of the same call.
LEMMA UnmarshalJobType ==
    \A b \in TaskBody : UnmarshalJob(b) \in AJob /\ UnmarshalJob(b).call = b.call
BY DEF AJob, Job, TaskBody, UnmarshalJob

\* A message has a message's type, and names the call of its job.
LEMMA MarshalType ==
    \A j \in AJob : Marshal(j) \in Message /\ Marshal(j).call = j.call
<1>1. TAKE j \in AJob
<1>2. topicFor(j.priority) \in Priority \cup {NoTopic}
  BY TopicType
<1>3. PriorityString(j.priority) \in QueueName
  BY PriorityStringType
<1>4. NullJSON \in Payload
  BY DEF NullJSON, Payload, QueueHint
<1>5. (IF j.payload.form = "nil" THEN NullJSON ELSE j.payload) \in Payload
  BY <1>4 DEF AJob, Job
<1> QED
  BY <1>2, <1>3, <1>5 DEF AJob, Job, Message, Marshal

-----------------------------------------------------------------------------
(* Type correctness.  TypeOK is not inductive by itself: that a job, a task *)
(* body or an attempt holds a value where the code uses it, and that a     *)
(* publish request belongs to whoever waits for it, depends on where its   *)
(* owner is.                                                               *)

Busy == {"dispatch", "creating", "publishing", "accepted", "sent", "failed"}

RequestKnown == \A c \in Calls : pc[c] # "idle" => req[c] \in Request

JobKnown == \A c \in Calls :
    pc[c] \in Busy => job[c] \in AJob /\ job[c].call = c

TaskKnown == \A c \in Calls :
    task[c].st # "none" => task[c].body \in TaskBody /\ task[c].body.call = c

AttemptKnown == \A k \in Slots :
    attempt[k].st # "idle" => /\ attempt[k].job \in AJob
                              /\ task[attempt[k].job.call].st # "none"

CallWaits == \A e \in outbox, c \in Calls :
    e.by = c => pc[c] = "publishing" /\ e.msg = Marshal(job[c])

SlotWaits == \A e \in outbox, k \in Slots :
    e.by = k => attempt[k].st = "publishing" /\ e.msg = Marshal(attempt[k].job)

Shape == /\ RequestKnown
         /\ JobKnown
         /\ TaskKnown
         /\ AttemptKnown
         /\ CallWaits
         /\ SlotWaits

TypeInv == TypeOK /\ Shape

\* The initial state is well typed, with no task and no attempt.
LEMMA InitTypeInv == Init => TypeInv
<1> SUFFICES ASSUME Init PROVE TypeInv
  OBVIOUS
<1>1. StoreTypeOK
  BY DEF Init, StoreInit, StoreTypeOK, EmptyMap
<1>2. TypeOK
  BY <1>1, DeploymentAssumption DEF Init, TypeOK, HandlerStates, DeploymentAssumption
<1>3. Shape
  BY DEF Init, Shape, RequestKnown, JobKnown, TaskKnown, AttemptKnown,
         CallWaits, SlotWaits, Busy
<1> QED
  BY <1>2, <1>3 DEF TypeInv

\* The clock, the administrators and stuttering keep the types.
LEMMA EnvTypeInv ==
    ASSUME TypeInv, Tick \/ Admin \/ UNCHANGED vars, UNCHANGED deployment
    PROVE  TypeInv'
<1> USE DEF TypeInv, handler, registry
<1>1. CASE Tick
  <2>1. TypeOK'
    BY <1>1 DEF Tick, TypeOK, StoreTypeOK
  <2>2. Shape'
    BY <1>1 DEF Tick, Shape, RequestKnown, JobKnown, TaskKnown, AttemptKnown,
                CallWaits, SlotWaits
  <2> QED BY <2>1, <2>2
<1>2. CASE Admin
  <2>1. StoreTypeOK'
    BY <1>2, RegistryType DEF Admin, TypeOK
  <2>2. TypeOK'
    BY <1>2, <2>1 DEF Admin, TypeOK
  <2>3. Shape'
    BY <1>2 DEF Admin, Shape, RequestKnown, JobKnown, TaskKnown, AttemptKnown,
                CallWaits, SlotWaits
  <2> QED BY <2>2, <2>3
<1>3. CASE UNCHANGED vars
  BY <1>3 DEF vars, TypeOK, StoreTypeOK, Shape, RequestKnown, JobKnown,
              TaskKnown, AttemptKnown, CallWaits, SlotWaits
<1> QED BY <1>1, <1>2, <1>3

\* The job built for a call is well typed and knows its call.
LEMMA NewJobIsJob ==
    ASSUME TypeOK, NEW c \in Calls, NEW r \in Request, NEW id \in JobIds
    PROVE  /\ NewJob(c, r, id, routingConfig(r), now) \in AJob
           /\ NewJob(c, r, id, routingConfig(r), now).call = c
<1>1. /\ routingConfig(r).priority \in Priority
      /\ routingConfig(r).maxRetries \in Int
  BY RoutingType DEF TypeOK
<1>2. (IF r.runAt = NoRunAt THEN now ELSE r.runAt) \in Nat
  BY DEF TypeOK, Request, NoRunAt
<1>3. shadowFromContext(r) \in BOOLEAN
  BY DEF shadowFromContext
<1>4. /\ r.producer \in Seq(STRING)
      /\ r.jobType \in Seq(STRING)
      /\ r.payload \in Payload
  BY DEF Request
<1> QED
  BY <1>1, <1>2, <1>3, <1>4 DEF NewJob, AJob, Job

\* Cloud Tasks stores a well-typed body under its call, and nothing else changes.
LEMMA TaskStored ==
    ASSUME TypeOK, NEW c \in Calls, job[c] \in AJob, job[c].call = c, StoreTask(c)
    PROVE  /\ task' \in [Calls -> [st: {"none", "pending", "done"},
                                    body: TaskBody \cup {None}]]
           /\ task'[c].st = "pending"
           /\ task'[c].body = marshalJob(job[c])
           /\ task'[c].body \in TaskBody
           /\ task'[c].body.call = c
           /\ \A d \in Calls : d # c => task'[d] = task[d]
<1> DEFINE b == marshalJob(job[c])
<1>1. b \in TaskBody /\ b.call = c
  BY MarshalJobType DEF marshalJob
<1>2. task' = [task EXCEPT ![c] = [st |-> "pending", body |-> b]]
  BY DEF StoreTask
<1> HIDE DEF b
<1>3. task \in [Calls -> [st: {"none", "pending", "done"},
                          body: TaskBody \cup {None}]]
  BY DEF TypeOK
<1>4. /\ task' \in [Calls -> [st: {"none", "pending", "done"},
                               body: TaskBody \cup {None}]]
      /\ task'[c] = [st |-> "pending", body |-> b]
      /\ \A d \in Calls : d # c => task'[d] = task[d]
  BY <1>1, <1>2, <1>3
<1> QED
  BY <1>1, <1>4 DEF b

\* The steps of a call's handler.
LEMMA HandlerTypeInv ==
    ASSUME TypeInv, NEW c \in Calls, Handler(c) \/ Die(c),
           UNCHANGED deployment
    PROVE  TypeInv'
<1> USE DEF TypeInv, handler, registry, HandlerStates, Busy, Reply, Shape,
            RequestKnown, JobKnown, TaskKnown, AttemptKnown, CallWaits, SlotWaits
<1>0. /\ pc \in [Calls -> HandlerStates]
      /\ code \in [Calls -> {"none", "OK", "InvalidArgument", "Internal", "lost"}]
      /\ req \in [Calls -> Request \cup {None}]
  BY DEF TypeOK
<1>1. ASSUME NEW r \in Requests, Reject(c, r) \/ Accept(c, r)
      PROVE  TypeInv'
  <2>1. r \in Request
    BY DeliveryAssumption DEF DeliveryAssumption
  <2> DEFINE w == IF GetProducer(r.producer) THEN {} ELSE {"producer"}
  <2>10. w \in SUBSET {"producer", "jobType"}
    OBVIOUS
  <2>11. warn' = warn \/ warn' = [warn EXCEPT ![c] = w]
    BY <1>1 DEF Reject, Accept
  <2> HIDE DEF w
  <2>12. warn' \in [Calls -> SUBSET {"producer", "jobType"}]
    BY <2>10, <2>11 DEF TypeOK
  <2>13. /\ pc' \in [Calls -> HandlerStates]
         /\ code' \in [Calls -> {"none", "OK", "InvalidArgument", "Internal", "lost"}]
         /\ req' \in [Calls -> Request \cup {None}]
    <3>1. /\ req' = [req EXCEPT ![c] = r]
          /\ \E v \in {"replied", "routing"} : pc' = [pc EXCEPT ![c] = v]
          /\ code' = code \/ code' = [code EXCEPT ![c] = "InvalidArgument"]
      BY <1>1 DEF Reject, Accept
    <3> QED BY <1>0, <2>1, <3>1
  <2>14. UNCHANGED <<producers, jobTypes, now, job, task, attempt, outbox, published>>
    BY <1>1 DEF Reject, Accept
  <2>2. TypeOK'
    BY <2>12, <2>13, <2>14 DEF TypeOK, StoreTypeOK
  <2>3. Shape'
    BY <1>1, <2>1 DEF Reject, Accept, TypeOK
  <2> QED BY <2>2, <2>3
<1>2. ASSUME NEW id \in JobIds, Route(c, id)
      PROVE  TypeInv'
  <2> DEFINE j == NewJob(c, req[c], id, routingConfig(req[c]), now)
  <2>1. req[c] \in Request
    BY <1>2 DEF Route
  <2>2. j \in AJob /\ j.call = c
    BY <2>1, NewJobIsJob
  <2>3. routingConfig(req[c]).warnings \subseteq {"producer", "jobType"}
    BY <2>1, RoutingType DEF TypeOK
  <2>4. /\ job' = [job EXCEPT ![c] = j]
        /\ pc[c] = "routing"
        /\ pc' = [pc EXCEPT ![c] = "dispatch"]
        /\ warn' = [warn EXCEPT ![c] = @ \cup routingConfig(req[c]).warnings]
        /\ UNCHANGED <<registry, now, req, code, task, attempt, outbox, published>>
    BY <1>2 DEF Route
  <2> HIDE DEF j
  <2>5. TypeOK'
    BY <2>2, <2>3, <2>4 DEF TypeOK, StoreTypeOK, AJob
  <2>6. Shape'
    BY <2>2, <2>4 DEF TypeOK
  <2> QED BY <2>5, <2>6
<1>3. CASE ScheduleNoop(c) \/ Schedule(c) \/ EnqueueNoop(c)
  <2>10. pc' \in [Calls -> HandlerStates]
    BY <1>3 DEF ScheduleNoop, Schedule, EnqueueNoop, TypeOK
  <2>11. UNCHANGED <<producers, jobTypes, now, req, warn, job, code, task, attempt,
                     outbox, published>>
    BY <1>3 DEF ScheduleNoop, Schedule, EnqueueNoop
  <2>1. TypeOK'
    BY <2>10, <2>11 DEF TypeOK, StoreTypeOK
  <2>2. Shape'
    BY <1>3 DEF ScheduleNoop, Schedule, EnqueueNoop, TypeOK
  <2> QED BY <2>1, <2>2
<1>4. CASE ScheduleTooLarge(c) \/ CreateTaskFails(c) \/ EnqueueRefused(c)
           \/ Respond(c)
  <2>10. pc' = [pc EXCEPT ![c] = "replied"]
    BY <1>4 DEF ScheduleTooLarge, CreateTaskFails, EnqueueRefused, Respond
  <2>11. \/ code' = [code EXCEPT ![c] = "OK"]
         \/ code' = [code EXCEPT ![c] = "Internal"]
    BY <1>4 DEF ScheduleTooLarge, CreateTaskFails, EnqueueRefused, Respond
  <2>12. UNCHANGED <<producers, jobTypes, now, req, warn, job, task, attempt, outbox,
                     published>>
    BY <1>4 DEF ScheduleTooLarge, CreateTaskFails, EnqueueRefused, Respond
  <2>13. /\ pc' \in [Calls -> HandlerStates]
         /\ code' \in [Calls -> {"none", "OK", "InvalidArgument", "Internal", "lost"}]
    BY <2>10, <2>11 DEF TypeOK
  <2>1. TypeOK'
    BY <2>12, <2>13 DEF TypeOK, StoreTypeOK
  <2>2. Shape'
    BY <1>4 DEF ScheduleTooLarge, CreateTaskFails, EnqueueRefused, Respond, TypeOK
  <2> QED BY <2>1, <2>2
<1>5. CASE CreateTaskOk(c) \/ CreateTaskUnheard(c)
  <2>1. /\ task' \in [Calls -> [st: {"none", "pending", "done"},
                                 body: TaskBody \cup {None}]]
        /\ task'[c].body \in TaskBody /\ task'[c].body.call = c
        /\ task'[c].st = "pending"
        /\ \A d \in Calls : d # c => task'[d] = task[d]
    BY <1>5, TaskStored DEF CreateTaskOk, CreateTaskUnheard
  <2>10. /\ pc' \in [Calls -> HandlerStates]
         /\ code' \in [Calls -> {"none", "OK", "InvalidArgument", "Internal", "lost"}]
    <3>1. /\ \E v \in {"replied", "accepted"} : pc' = [pc EXCEPT ![c] = v]
          /\ code' = code \/ code' = [code EXCEPT ![c] = "Internal"]
      BY <1>5 DEF CreateTaskOk, CreateTaskUnheard
    <3> QED BY <1>0, <3>1
  <2>11. UNCHANGED <<producers, jobTypes, now, req, warn, job, attempt, outbox, published>>
    BY <1>5 DEF CreateTaskOk, CreateTaskUnheard
  <2>2. TypeOK'
    BY <2>1, <2>10, <2>11 DEF TypeOK, StoreTypeOK
  <2>3. RequestKnown' /\ JobKnown' /\ CallWaits' /\ SlotWaits'
    BY <1>5 DEF CreateTaskOk, CreateTaskUnheard, TypeOK
  <2>4. TaskKnown'
    BY <2>1
  <2>5. AttemptKnown'
    <3>1. \A k \in Slots : attempt[k].st # "idle" => attempt[k].job.call \in Calls
      BY DEF AJob, Job
    <3> QED BY <2>1, <2>11, <3>1
  <2> QED BY <2>2, <2>3, <2>4, <2>5
<1>6. CASE Enqueue(c)
  <2>1. Marshal(job[c]) \in Message
    BY <1>6, MarshalType DEF Enqueue
  <2>10. /\ pc' \in [Calls -> HandlerStates]
         /\ outbox' \subseteq [by: Calls \cup Slots \cup {None}, msg: Message]
    BY <1>6, <2>1 DEF Enqueue, Publish, TypeOK
  <2>11. UNCHANGED <<producers, jobTypes, now, req, warn, job, code, task, attempt,
                     published>>
    BY <1>6 DEF Enqueue
  <2>2. TypeOK'
    BY <2>10, <2>11 DEF TypeOK, StoreTypeOK
  <2>3. Shape'
    BY <1>6, DeliveryAssumption DEF Enqueue, Publish, TypeOK, DeliveryAssumption
  <2> QED BY <2>2, <2>3
<1>7. CASE CtxDone(c)
  <2>10. outbox' \subseteq [by: Calls \cup Slots \cup {None}, msg: Message]
    BY <1>7 DEF CtxDone, Orphan, TypeOK
  <2>11. /\ pc' \in [Calls -> HandlerStates]
         /\ code' \in [Calls -> {"none", "OK", "InvalidArgument", "Internal", "lost"}]
    BY <1>7 DEF CtxDone, TypeOK
  <2>12. UNCHANGED <<producers, jobTypes, now, req, warn, job, task, attempt, published>>
    BY <1>7 DEF CtxDone
  <2>1. TypeOK'
    BY <2>10, <2>11, <2>12 DEF TypeOK, StoreTypeOK
  <2>13. pc[c] = "publishing" /\ pc' = [pc EXCEPT ![c] = "replied"]
    BY <1>7 DEF CtxDone
  <2>2. RequestKnown' /\ JobKnown' /\ TaskKnown' /\ AttemptKnown'
    BY <1>0, <2>12, <2>13
  <2>3. \A f \in outbox' : f.by # c /\ (f \in outbox \/ f.by = None)
    BY <1>7, DeliveryAssumption DEF CtxDone, Orphan, TypeOK, DeliveryAssumption
  <2>4. CallWaits' /\ SlotWaits'
    BY <1>0, <2>3, <2>12, <2>13, DeliveryAssumption DEF DeliveryAssumption
  <2> QED BY <2>1, <2>2, <2>4
<1>8. CASE Die(c)
  <2>1. /\ task' \in [Calls -> [st: {"none", "pending", "done"},
                                 body: TaskBody \cup {None}]]
        /\ task'[c] # task[c] => /\ task'[c].body \in TaskBody
                                 /\ task'[c].body.call = c
                                 /\ task'[c].st = "pending"
        /\ \A d \in Calls : d # c => task'[d] = task[d]
    BY <1>8, TaskStored DEF Die, TypeOK
  <2>2. outbox' \subseteq [by: Calls \cup Slots \cup {None}, msg: Message]
    BY <1>8 DEF Die, Orphan, TypeOK
  <2>10. /\ pc' \in [Calls -> HandlerStates]
         /\ code' \in [Calls -> {"none", "OK", "InvalidArgument", "Internal", "lost"}]
    BY <1>8 DEF Die, TypeOK
  <2>11. UNCHANGED <<producers, jobTypes, now, req, warn, job, attempt, published>>
    BY <1>8 DEF Die
  <2>3. TypeOK'
    BY <2>1, <2>2, <2>10, <2>11 DEF TypeOK, StoreTypeOK
  <2>4. RequestKnown' /\ JobKnown'
    BY <1>8 DEF Die, TypeOK
  <2>5. CallWaits' /\ SlotWaits'
    BY <1>8, DeliveryAssumption DEF Die, Orphan, TypeOK, DeliveryAssumption
  <2>6. TaskKnown'
    BY <2>1
  <2>7. AttemptKnown'
    <3>1. \A k \in Slots : attempt[k].st # "idle" => attempt[k].job.call \in Calls
      BY DEF AJob, Job
    <3> QED BY <2>1, <2>11, <3>1
  <2> QED BY <2>3, <2>4, <2>5, <2>6, <2>7
<1> QED
  BY <1>1, <1>2, <1>3, <1>4, <1>5, <1>6, <1>7, <1>8 DEF Handler

\* The steps of a callback handler.
LEMMA CallbackTypeInv ==
    ASSUME TypeInv, NEW k \in Slots, Callback(k) \/ CallbackLost(k),
           UNCHANGED deployment
    PROVE  TypeInv'
<1> USE DEF TypeInv, handler, registry, Shape, RequestKnown, JobKnown, TaskKnown,
            AttemptKnown, CallWaits, SlotWaits
<1>1. ASSUME NEW d \in Calls, CallbackBegin(k, d)
      PROVE  TypeInv'
  <2> DEFINE j == [UnmarshalJob(task[d].body) EXCEPT !.runAt = now]
  <2>1. j \in AJob /\ j.call = d
    <3>1. /\ UnmarshalJob(task[d].body) \in AJob
          /\ UnmarshalJob(task[d].body).call = d
      BY <1>1, UnmarshalJobType DEF CallbackBegin
    <3>2. now \in Nat
      BY DEF TypeOK
    <3> QED
      BY <3>1, <3>2 DEF AJob, Job
  <2>2. /\ attempt' = [attempt EXCEPT ![k] = [st |-> "enqueue", job |-> j]]
        /\ attempt[k].st = "idle"
        /\ task[d].st = "pending"
        /\ UNCHANGED <<producers, jobTypes, now, pc, req, warn, job, code, task,
                       outbox, published>>
    BY <1>1 DEF CallbackBegin
  <2> HIDE DEF j
  <2>3. TypeOK'
    BY <2>1, <2>2 DEF TypeOK, StoreTypeOK, AJob
  <2>4. Shape'
    BY <2>1, <2>2 DEF TypeOK
  <2> QED BY <2>3, <2>4
<1>2. CASE CallbackRefused(k) \/ CallbackNoop(k) \/ CallbackFailed(k)
  <2>1. TypeOK'
    BY <1>2 DEF CallbackRefused, CallbackNoop, CallbackFailed, TypeOK, StoreTypeOK
  <2>2. /\ attempt[k].st \in {"enqueue", "failed"}
        /\ \A i \in Slots : /\ attempt'[i].job = attempt[i].job
                            /\ i # k => attempt'[i] = attempt[i]
        /\ UNCHANGED <<pc, req, job, task, outbox>>
    BY <1>2 DEF CallbackRefused, CallbackNoop, CallbackFailed, TypeOK
  <2>3. RequestKnown' /\ JobKnown' /\ TaskKnown' /\ CallWaits'
    BY <2>2
  <2>4. AttemptKnown' /\ SlotWaits'
    BY <2>2
  <2> QED BY <2>1, <2>3, <2>4
<1>3. CASE CallbackEnqueue(k)
  <2>1. Marshal(attempt[k].job) \in Message
    BY <1>3, MarshalType DEF CallbackEnqueue
  <2>2. TypeOK'
    BY <1>3, <2>1 DEF CallbackEnqueue, Publish, TypeOK, StoreTypeOK
  <2>3. Shape'
    BY <1>3, DeliveryAssumption
    DEF CallbackEnqueue, Publish, TypeOK, DeliveryAssumption
  <2> QED BY <2>2, <2>3
<1>4. CASE CallbackOk(k)
  <2>1. attempt[k].job.call \in Calls
    BY <1>4 DEF CallbackOk, AJob, Job
  <2>10. /\ attempt' \in [Slots -> [st: {"idle", "enqueue", "publishing", "sent", "failed"},
                                    job: Job(Calls, JobIds) \cup {None}]]
         /\ task' \in [Calls -> [st: {"none", "pending", "done"},
                                  body: TaskBody \cup {None}]]
    <3> DEFINE d == attempt[k].job.call
    <3>1. /\ attempt' = [attempt EXCEPT ![k].st = "idle"]
          /\ task' = [task EXCEPT ![d].st = "done"]
      BY <1>4 DEF CallbackOk
    <3>2. d \in Calls
      BY <2>1
    <3> HIDE DEF d
    <3>3. task' \in [Calls -> [st: {"none", "pending", "done"},
                               body: TaskBody \cup {None}]]
      BY <3>1, <3>2 DEF TypeOK
    <3>4. attempt' \in [Slots -> [st: {"idle", "enqueue", "publishing", "sent", "failed"},
                                  job: Job(Calls, JobIds) \cup {None}]]
      BY <3>1 DEF TypeOK
    <3> QED BY <3>3, <3>4
  <2>11. UNCHANGED <<producers, jobTypes, now, pc, req, warn, job, code, outbox,
                     published>>
    BY <1>4 DEF CallbackOk
  <2>2. TypeOK'
    BY <2>10, <2>11 DEF TypeOK, StoreTypeOK
  <2>3. Shape'
    BY <1>4, <2>1 DEF CallbackOk, TypeOK
  <2> QED BY <2>2, <2>3
<1>5. CASE CallbackLost(k)
  <2>1. outbox' \subseteq [by: Calls \cup Slots \cup {None}, msg: Message]
    BY <1>5 DEF CallbackLost, Orphan, TypeOK
  <2>2. TypeOK'
    BY <1>5, <2>1 DEF CallbackLost, TypeOK, StoreTypeOK
  <2>3. RequestKnown' /\ JobKnown' /\ TaskKnown' /\ AttemptKnown'
    BY <1>5 DEF CallbackLost, TypeOK
  <2>4. \A f \in outbox' : f.by # k /\ (f \in outbox \/ f.by = None)
    BY <1>5, DeliveryAssumption DEF CallbackLost, Orphan, TypeOK, DeliveryAssumption
  <2>5. /\ \A i \in Slots : i # k => attempt'[i] = attempt[i]
        /\ UNCHANGED <<pc, job>>
    BY <1>5 DEF CallbackLost, TypeOK
  <2>6. CallWaits' /\ SlotWaits'
    BY <2>4, <2>5, DeliveryAssumption DEF DeliveryAssumption
  <2> QED BY <2>2, <2>3, <2>6
<1> QED
  BY <1>1, <1>2, <1>3, <1>4, <1>5 DEF Callback

\* The answers of Pub/Sub.
LEMMA PubSubTypeInv ==
    ASSUME TypeInv, NEW e \in outbox, PublishLands(e) \/ PublishFails(e),
           UNCHANGED deployment
    PROVE  TypeInv'
<1> USE DEF TypeInv, handler, registry
<1>1. PICK v \in {"sent", "failed"} : Tell(e.by, v)
  BY DEF PublishLands, PublishFails
<1>2. /\ outbox' = outbox \ {e}
      /\ published' = published \/ published' = published \cup {e.msg}
      /\ UNCHANGED <<producers, jobTypes, now, req, warn, job, code, task>>
  BY DEF PublishLands, PublishFails
<1>3. TypeOK'
  <2>1. pc' \in [Calls -> HandlerStates]
    BY <1>1 DEF Tell, TypeOK, HandlerStates
  <2>2. attempt' \in [Slots -> [st: {"idle", "enqueue", "publishing", "sent", "failed"},
                                job: Job(Calls, JobIds) \cup {None}]]
    BY <1>1 DEF Tell, TypeOK
  <2>3. /\ outbox' \subseteq [by: Calls \cup Slots \cup {None}, msg: Message]
        /\ published' \subseteq Message
    BY <1>2 DEF TypeOK
  <2> QED
    BY <1>2, <2>1, <2>2, <2>3 DEF TypeOK, StoreTypeOK
<1>4. RequestKnown' /\ TaskKnown'
  BY <1>1, <1>2 DEF Tell, Shape, RequestKnown, TaskKnown, CallWaits, TypeOK
<1>5. JobKnown'
  BY <1>1, <1>2 DEF Tell, Shape, JobKnown, CallWaits, Busy, TypeOK
<1>6. AttemptKnown'
  BY <1>1, <1>2 DEF Tell, Shape, AttemptKnown, SlotWaits, TypeOK
<1>7. CallWaits'
  BY <1>1, <1>2 DEF Tell, Shape, CallWaits, TypeOK
<1>8. SlotWaits'
  BY <1>1, <1>2 DEF Tell, Shape, SlotWaits, TypeOK
<1> QED
  BY <1>3, <1>4, <1>5, <1>6, <1>7, <1>8 DEF Shape

\* No step replaces the backend or the scheduler.
LEMMA FixedParts == [Next]_vars => UNCHANGED deployment
BY DEF Next, vars

\* Every step keeps the types.
LEMMA NextTypeInv == TypeInv /\ [Next]_vars => TypeInv'
BY FixedParts, EnvTypeInv, HandlerTypeInv, CallbackTypeInv, PubSubTypeInv DEF Next, PubSub

\* Every variable keeps its type in every execution, through both wire formats
\* and for every configuration.
THEOREM TypeCorrect == Spec => []TypeOK
<1>1. Spec => []TypeInv
  BY InitTypeInv, NextTypeInv, PTL DEF Spec
<1>2. TypeInv => TypeOK
  BY DEF TypeInv
<1> QED
  BY <1>1, <1>2, PTL

-----------------------------------------------------------------------------
(* No acknowledged job is lost.  The invariant follows a job from hand to  *)
(* hand: whoever says "sent" has its message in a topic, whoever says      *)
(* "accepted" has a task, and a task ends only in a topic.                 *)

SentPublished ==
    /\ \A c \in Calls : pc[c] = "sent" => Published(c)
    /\ \A k \in Slots : attempt[k].st = "sent" => Published(attempt[k].job.call)

AcceptedStored == \A c \in Calls : pc[c] = "accepted" => task[c].st # "none"

DonePublished == \A c \in Calls : task[c].st = "done" => Published(c)

OkHeld == \A c \in Calls : code[c] = "OK" => Published(c) \/ task[c].st # "none"

TaskInv == SentPublished /\ DonePublished

AckInv == AcceptedStored /\ OkHeld

\* Initially nothing was acknowledged and no task is done.
LEMMA InitHeld == Init => TaskInv /\ AckInv
BY DEF Init, TaskInv, AckInv, SentPublished, DonePublished, AcceptedStored, OkHeld

\* Messages stay in their topics.
LEMMA PublishedStays ==
    ASSUME [Next]_vars, NEW c \in Calls, Published(c)
    PROVE  Published(c)'
<1>1. published \subseteq published'
  BY DEF Next, vars, Tick, Admin, Handler, Callback, PubSub, Reject, Accept, Route,
     ScheduleNoop, ScheduleTooLarge, Schedule, CreateTaskOk, CreateTaskUnheard,
     CreateTaskFails, EnqueueRefused, EnqueueNoop, Enqueue, Respond, CtxDone, Die,
     CallbackBegin, CallbackRefused, CallbackNoop, CallbackEnqueue, CallbackOk,
     CallbackFailed, CallbackLost, PublishLands, PublishFails
<1> QED
  BY <1>1 DEF Published

\* The clock and the administrators touch neither tasks nor topics.
LEMMA EnvHeld ==
    ASSUME Tick \/ Admin \/ UNCHANGED vars
    PROVE  (TaskInv => TaskInv') /\ (AckInv => AckInv')
BY DEF Tick, Admin, vars, handler, TaskInv, AckInv, SentPublished, DonePublished,
       AcceptedStored, OkHeld, Published

\* What a handler's step can do to the state other than its own.
LEMMA HandlerFrame ==
    ASSUME TypeInv, NEW c \in Calls, Handler(c) \/ Die(c)
    PROVE  /\ UNCHANGED <<attempt, published, now>>
           /\ \A d \in Calls : d # c => /\ pc'[d] = pc[d]
                                        /\ code'[d] = code[d]
                                        /\ task'[d] = task[d]
           /\ task'[c] = task[c] \/ task'[c].st = "pending"
<1>1. UNCHANGED <<attempt, published, now>>
  BY DEF Handler, Reject, Accept, Route, ScheduleNoop, ScheduleTooLarge, Schedule,
      CreateTaskOk, CreateTaskUnheard, CreateTaskFails, EnqueueRefused, EnqueueNoop,
      Enqueue, Respond, CtxDone, Die, Reply
<1>2. \A d \in Calls : d # c => pc'[d] = pc[d] /\ code'[d] = code[d]
  BY DEF Handler, Reject, Accept, Route, ScheduleNoop, ScheduleTooLarge, Schedule,
      CreateTaskOk, CreateTaskUnheard, CreateTaskFails, EnqueueRefused, EnqueueNoop,
      Enqueue, Respond, CtxDone, Die, Reply, TypeInv, TypeOK
<1>3. task' = task \/ StoreTask(c)
  BY DEF Handler, Reject, Accept, Route, ScheduleNoop, ScheduleTooLarge, Schedule,
      CreateTaskOk, CreateTaskUnheard, CreateTaskFails, EnqueueRefused, EnqueueNoop,
      Enqueue, Respond, CtxDone, Die, Reply
<1>4. CASE StoreTask(c)
  BY <1>1, <1>2, <1>4 DEF StoreTask, TypeInv, TypeOK
<1> QED
  BY <1>1, <1>2, <1>3, <1>4

\* A handler says "accepted" only with a task in place, "OK" only after that or
\* after "sent", and "sent" only when Pub/Sub says so.
LEMMA HandlerClaims ==
    ASSUME TypeInv, NEW c \in Calls, Handler(c) \/ Die(c), Backend = "pubsub"
    PROVE  /\ pc'[c] # "sent"
           /\ pc'[c] = "accepted" /\ Scheduler # "noop" => task'[c].st # "none"
           /\ code'[c] = "OK" => code[c] = "OK" \/ pc[c] \in {"accepted", "sent"}
<1> USE DEF TypeInv, TypeOK
<1>1. pc'[c] # "sent"
  BY DEF Handler, Reject, Accept, Route, ScheduleNoop, ScheduleTooLarge, Schedule,
      CreateTaskOk, CreateTaskUnheard, CreateTaskFails, EnqueueRefused, EnqueueNoop,
      Enqueue, Respond, CtxDone, Die, Reply
<1>2. code'[c] = "OK" => code[c] = "OK" \/ pc[c] \in {"accepted", "sent"}
  BY DEF Handler, Reject, Accept, Route, ScheduleNoop, ScheduleTooLarge, Schedule,
      CreateTaskOk, CreateTaskUnheard, CreateTaskFails, EnqueueRefused, EnqueueNoop,
      Enqueue, Respond, CtxDone, Die, Reply
<1>3. ASSUME pc'[c] = "accepted", Scheduler # "noop"
      PROVE  task'[c].st # "none"
  <2>1. CreateTaskOk(c)
    BY <1>3 DEF Handler, Reject, Accept, Route, ScheduleNoop, ScheduleTooLarge, Schedule,
      CreateTaskOk, CreateTaskUnheard, CreateTaskFails, EnqueueRefused, EnqueueNoop,
      Enqueue, Respond, CtxDone, Die, Reply
  <2> QED
    BY <2>1 DEF CreateTaskOk, StoreTask
<1> QED
  BY <1>1, <1>2, <1>3

\* The steps of a call's handler lose no task and acknowledge nothing early.
LEMMA HandlerHeld ==
    ASSUME TypeInv, TaskInv, NEW c \in Calls, Handler(c) \/ Die(c), Backend = "pubsub"
    PROVE  /\ TaskInv'
           /\ AckInv /\ Scheduler # "noop" => AckInv'
<1>1. \A d \in Calls : Published(d)' = Published(d)
  BY HandlerFrame DEF Published
<1>2. TaskInv'
  <2>1. \A k \in Slots : attempt[k].st # "idle" => attempt[k].job.call \in Calls
    BY DEF TypeInv, Shape, AttemptKnown, AJob, Job
  <2>2. SentPublished'
    BY <1>1, <2>1, HandlerFrame, HandlerClaims DEF TaskInv, SentPublished
  <2>3. DonePublished'
    BY <1>1, HandlerFrame DEF TaskInv, DonePublished
  <2> QED BY <2>2, <2>3 DEF TaskInv
<1>3. ASSUME AckInv, Scheduler # "noop" PROVE AckInv'
  <2>1. AcceptedStored'
    BY <1>3, HandlerFrame, HandlerClaims DEF AckInv, AcceptedStored
  <2>2. OkHeld'
    BY <1>1, <1>3, HandlerFrame, HandlerClaims
    DEF AckInv, AcceptedStored, OkHeld, TaskInv, SentPublished
  <2> QED BY <2>1, <2>2 DEF AckInv
<1> QED BY <1>2, <1>3

\* The steps of a callback handler finish a task only after its publish.
LEMMA CallbackHeld ==
    ASSUME TypeInv, TaskInv, NEW k \in Slots, Callback(k) \/ CallbackLost(k),
           Backend = "pubsub"
    PROVE  TaskInv' /\ (AckInv => AckInv')
<1> DEFINE d == attempt[k].job.call
<1>1. /\ UNCHANGED <<pc, code, published>>
      /\ \A i \in Slots : i # k => attempt'[i] = attempt[i]
      /\ attempt'[k].st # "sent"
      /\ \/ task' = task
         \/ CallbackOk(k)
  BY DEF Callback, CallbackBegin, CallbackRefused, CallbackNoop, CallbackEnqueue,
         CallbackOk, CallbackFailed, CallbackLost, handler, TypeInv, TypeOK
<1>2. CallbackOk(k) => Published(d) /\ d \in Calls
  BY DEF CallbackOk, TaskInv, SentPublished, TypeInv, Shape, AttemptKnown, AJob, Job
<1>3. CallbackOk(k) => \A c \in Calls : /\ c # d => task'[c] = task[c]
                                        /\ task'[c].st = "none" => task[c].st = "none"
  BY <1>2 DEF CallbackOk, TypeInv, TypeOK
<1>4. \A c : Published(c)' = Published(c)
  BY <1>1 DEF Published
<1> HIDE DEF d
<1>5. SentPublished'
  BY <1>1, <1>4 DEF TaskInv, SentPublished
<1>6. DonePublished'
  BY <1>1, <1>2, <1>3, <1>4 DEF TaskInv, DonePublished
<1>7. AckInv => AckInv'
  BY <1>1, <1>3, <1>4 DEF AckInv, AcceptedStored, OkHeld
<1> QED BY <1>5, <1>6, <1>7 DEF TaskInv

\* An answer of Pub/Sub reaches a waiter only after its message is in a topic.
LEMMA PubSubHeld ==
    ASSUME TypeInv, TaskInv, NEW e \in outbox, PublishLands(e) \/ PublishFails(e)
    PROVE  TaskInv' /\ (AckInv => AckInv')
<1>1. /\ UNCHANGED <<task, code>>
      /\ \A c \in Calls : pc'[c] = pc[c] \/ pc'[c] \in {"sent", "failed"}
      /\ \A c \in Calls : pc'[c] = "sent" => pc[c] = "sent" \/ (PublishLands(e) /\ e.by = c)
      /\ \A k \in Slots : /\ attempt'[k].job = attempt[k].job
                          /\ attempt'[k].st = "sent" =>
                                attempt[k].st = "sent" \/ (PublishLands(e) /\ e.by = k)
  BY DEF PublishLands, PublishFails, Tell, TypeInv, TypeOK
<1>2. \A c : Published(c) => Published(c)'
  BY DEF PublishLands, PublishFails, Published
<1>3. PublishLands(e) => Published(e.msg.call)'
  BY DEF PublishLands, Published
<1>4. \A c \in Calls : e.by = c => e.msg.call = c
  <2>1. \A c \in Calls : e.by = c => e.msg = Marshal(job[c]) /\ job[c] \in AJob /\ job[c].call = c
    BY DEF TypeInv, Shape, CallWaits, JobKnown, Busy
  <2> QED BY <2>1, MarshalType
<1>5. \A k \in Slots : e.by = k => e.msg.call = attempt[k].job.call
  <2>1. \A k \in Slots : e.by = k => e.msg = Marshal(attempt[k].job) /\ attempt[k].job \in AJob
    BY DEF TypeInv, Shape, SlotWaits, AttemptKnown
  <2> QED BY <2>1, MarshalType
<1>6. SentPublished'
  <2>1. ASSUME NEW c \in Calls, pc'[c] = "sent" PROVE Published(c)'
    BY <1>1, <1>2, <1>3, <1>4, <2>1 DEF TaskInv, SentPublished
  <2>2. ASSUME NEW k \in Slots, attempt'[k].st = "sent"
        PROVE  \E m \in published' : m.call = attempt'[k].job.call
    <3>1. attempt'[k].job = attempt[k].job
      BY <1>1
    <3>4. published \subseteq published'
      BY DEF PublishLands, PublishFails
    <3>2. CASE attempt[k].st = "sent"
      <4>1. PICK m \in published : m.call = attempt[k].job.call
        BY <3>2 DEF TaskInv, SentPublished, Published
      <4> QED BY <3>1, <3>4, <4>1
    <3>3. CASE PublishLands(e) /\ e.by = k
      <4>1. e.msg \in published' /\ e.msg.call = attempt[k].job.call
        BY <1>5, <3>3 DEF PublishLands
      <4> QED BY <3>1, <4>1
    <3> QED BY <1>1, <2>2, <3>2, <3>3
  <2> QED
    BY <2>1, <2>2 DEF SentPublished, Published
<1>7. DonePublished'
  BY <1>1, <1>2 DEF TaskInv, DonePublished
<1>8. AckInv => AckInv'
  BY <1>1, <1>2 DEF AckInv, AcceptedStored, OkHeld
<1> QED BY <1>6, <1>7, <1>8 DEF TaskInv

\* Every step keeps what was acknowledged, and every task.
LEMMA NextHeld ==
    ASSUME Backend = "pubsub", TypeInv, TaskInv, [Next]_vars
    PROVE  TaskInv' /\ (AckInv /\ Scheduler # "noop" => AckInv')
BY EnvHeld, HandlerHeld, CallbackHeld, PubSubHeld DEF Next, PubSub

HeldInv == /\ TypeInv
           /\ Backend = "pubsub" => TaskInv
           /\ Durable => AckInv

\* What is held is held from the start and in every step.
LEMMA HeldAlways == Spec => []HeldInv
<1>1. Init => HeldInv
  BY InitTypeInv, InitHeld DEF HeldInv
<1>2. HeldInv /\ [Next]_vars => HeldInv'
  <2> SUFFICES ASSUME HeldInv, [Next]_vars PROVE HeldInv'
    OBVIOUS
  <2>1. Backend' = Backend /\ Scheduler' = Scheduler
    BY FixedParts DEF Backend, Scheduler
  <2>2. TypeInv'
    BY NextTypeInv DEF HeldInv
  <2>3. (Backend = "pubsub" => TaskInv') /\ (Durable => AckInv')
    BY NextHeld DEF HeldInv, Durable
  <2> QED BY <2>1, <2>2, <2>3 DEF HeldInv, Durable
<1> QED
  BY <1>1, <1>2, PTL DEF Spec

\* With the Pub/Sub backend, Cloud Tasks forgets a task only after its job is in
\* a topic, however callbacks fail, crash and run in parallel.
THEOREM TasksDelivered == Spec => []NoTaskDropped
<1>1. HeldInv => NoTaskDropped
  BY DEF HeldInv, TaskInv, DonePublished, NoTaskDropped
<1> QED
  BY <1>1, HeldAlways, PTL

\* With Pub/Sub and Cloud Tasks configured, a job whose client was told OK is in
\* a topic or in a task that is still to run.
THEOREM AckedJobsHeld == Spec => []AckedJobHeld
<1>1. HeldInv => AckedJobHeld
  BY DEF HeldInv, Durable, TypeInv, TypeOK, TaskInv, AckInv, OkHeld, DonePublished,
         AckedJobHeld
<1> QED
  BY <1>1, HeldAlways, PTL

-----------------------------------------------------------------------------
(* The refinement of Promise.  A task that exists or has ended in a topic  *)
(* holds its call's job, so the jobs held are those with a message or a    *)
(* task; and a call is answered once, so an acknowledgement is final.      *)

Settled == \A c \in Calls : code[c] = "OK" => pc[c] = "replied"

\* Initially nobody was answered.
LEMMA InitSettled == Init => Settled
BY DEF Init, Settled

\* A call that was told OK takes no further step.
LEMMA NextSettled ==
    ASSUME TypeInv, Settled, [Next]_vars
    PROVE  Settled' /\ \A c \in Calls : code[c] = "OK" => code'[c] = "OK"
<1>1. ASSUME NEW c \in Calls, Handler(c) \/ Die(c)
      PROVE  /\ code[c] # "OK"
             /\ code'[c] = "OK" => pc'[c] = "replied"
             /\ \A d \in Calls : d # c => pc'[d] = pc[d] /\ code'[d] = code[d]
  <2>1. pc[c] # "replied"
    BY <1>1 DEF Handler, Reject, Accept, Route, ScheduleNoop, ScheduleTooLarge,
       Schedule, CreateTaskOk, CreateTaskUnheard, CreateTaskFails, EnqueueRefused,
       EnqueueNoop, Enqueue, Respond, CtxDone, Die
  <2>2. code[c] # "OK"
    BY <2>1 DEF Settled
  <2>3. code' = code \/ pc' = [pc EXCEPT ![c] = "replied"]
    BY <1>1 DEF Handler, Reject, Accept, Route, ScheduleNoop, ScheduleTooLarge,
       Schedule, CreateTaskOk, CreateTaskUnheard, CreateTaskFails, EnqueueRefused,
       EnqueueNoop, Enqueue, Respond, CtxDone, Die, Reply
  <2> QED
    BY <1>1, <2>2, <2>3, HandlerFrame DEF TypeInv, TypeOK
<1>2. ASSUME NEW e \in outbox, PublishLands(e) \/ PublishFails(e)
      PROVE  /\ UNCHANGED code
             /\ \A c \in Calls : pc[c] = "replied" => pc'[c] = "replied"
  BY <1>2 DEF PublishLands, PublishFails, Tell, TypeInv, TypeOK, Shape, CallWaits
<1>3. ASSUME NEW k \in Slots, Callback(k) \/ CallbackLost(k)
      PROVE  UNCHANGED <<pc, code>>
  BY <1>3 DEF Callback, CallbackBegin, CallbackRefused, CallbackNoop, CallbackEnqueue,
     CallbackOk, CallbackFailed, CallbackLost, handler
<1>4. ASSUME Tick \/ Admin \/ UNCHANGED vars
      PROVE  UNCHANGED <<pc, code>>
  BY <1>4 DEF Tick, Admin, vars, handler
<1> QED
  BY <1>1, <1>2, <1>3, <1>4 DEF Next, PubSub, Settled

\* A task that was created is never forgotten altogether.
LEMMA TaskStays ==
    ASSUME TypeInv, [Next]_vars, NEW c \in Calls, task[c].st # "none"
    PROVE  task'[c].st # "none"
<1>1. ASSUME NEW k \in Slots, Callback(k) \/ CallbackLost(k)
      PROVE  task'[c].st # "none"
  <2>1. task' = task \/ CallbackOk(k)
    BY <1>1 DEF Callback, CallbackBegin, CallbackRefused, CallbackNoop, CallbackEnqueue,
       CallbackFailed, CallbackLost
  <2>2. CASE CallbackOk(k)
    BY <2>2 DEF CallbackOk, TypeInv, TypeOK
  <2> QED BY <2>1, <2>2
<1>2. ASSUME NEW d \in Calls, Handler(d) \/ Die(d)
      PROVE  task'[c].st # "none"
  BY <1>2, HandlerFrame
<1>3. ASSUME Tick \/ Admin \/ PubSub \/ UNCHANGED vars
      PROVE  task'[c].st # "none"
  BY <1>3 DEF Tick, Admin, PubSub, PublishLands, PublishFails, vars
<1> QED
  BY <1>1, <1>2, <1>3 DEF Next

\* With durable parts, a job is held once it has a message or a task.
LEMMA HeldByTask ==
    HeldInv /\ Durable =>
        /\ HeldCalls = {c \in Calls : Published(c) \/ task[c].st # "none"}
        /\ OkCalls \subseteq HeldCalls
<1> SUFFICES ASSUME HeldInv, Durable
             PROVE  /\ HeldCalls = {c \in Calls : Published(c) \/ task[c].st # "none"}
                    /\ OkCalls \subseteq HeldCalls
  OBVIOUS
<1>1. TypeOK /\ TaskInv /\ AckInv
  BY DEF HeldInv, Durable, TypeInv
<1>2. \A c \in Calls : task[c].st \in {"none", "pending", "done"}
  BY <1>1 DEF TypeOK
<1>3. HeldCalls = {c \in Calls : Published(c) \/ task[c].st # "none"}
  BY <1>1, <1>2 DEF HeldCalls, TaskInv, DonePublished
<1> QED
  BY <1>1, <1>3 DEF OkCalls, AckInv, OkHeld

\* A step adds to one of the three sets what the promise allows.
LEMMA PromiseStep ==
    ASSUME HeldInv, HeldInv', Settled, [Next]_vars, Durable
    PROVE  [Promised!Next]_<<HeldCalls, SentCalls, OkCalls>>
<1> DEFINE Sent == {c \in Calls : Published(c)}
           Ok   == {c \in Calls : code[c] = "OK"}
           Stored == {c \in Calls : task[c].st # "none"}
<1>0. TypeInv
  BY DEF HeldInv
<1>1. Durable'
  BY FixedParts DEF Durable, Backend, Scheduler
<1>2. /\ SentCalls = Sent /\ SentCalls' = Sent'
      /\ OkCalls = Ok /\ OkCalls' = Ok'
  BY <1>1 DEF SentCalls, OkCalls
<1>3. /\ HeldCalls = Sent \cup Stored /\ HeldCalls' = Sent' \cup Stored'
      /\ Ok' \subseteq HeldCalls'
  <2>1. HeldCalls = Sent \cup Stored
    BY HeldByTask
  <2>2. /\ HeldCalls' = {c \in Calls : Published(c) \/ task[c].st # "none"}'
        /\ OkCalls' \subseteq HeldCalls'
    <3>1. (HeldInv /\ Durable =>
              /\ HeldCalls = {c \in Calls : Published(c) \/ task[c].st # "none"}
              /\ OkCalls \subseteq HeldCalls)'
      BY HeldByTask, PTL
    <3> QED BY <1>1, <3>1
  <2> QED BY <1>2, <2>1, <2>2
<1>4. Sent \subseteq Sent' /\ Stored \subseteq Stored' /\ Ok \subseteq Ok'
  BY <1>0, PublishedStays, TaskStays, NextSettled
<1>5. \/ Sent' = Sent /\ Stored' = Stored
      \/ Sent' = Sent /\ Ok' = Ok
      \/ Stored' = Stored /\ Ok' = Ok
  <2>1. ASSUME NEW c \in Calls, Handler(c) \/ Die(c)
        PROVE  Sent' = Sent /\ (Stored' = Stored \/ Ok' = Ok)
    <3>1. published' = published
      BY <1>0, <2>1, HandlerFrame
    <3>2. task' = task \/ code' = code \/ code' = [code EXCEPT ![c] = "Internal"]
          \/ code' = [code EXCEPT ![c] = "lost"]
      BY <2>1 DEF Handler, Reject, Accept, Route, ScheduleNoop, ScheduleTooLarge,
         Schedule, CreateTaskOk, CreateTaskUnheard, CreateTaskFails, EnqueueRefused,
         EnqueueNoop, Enqueue, Respond, CtxDone, Die, Reply
    <3>3. Sent' = Sent
      BY <3>1 DEF Published
    <3>4. CASE task' = task
      BY <3>3, <3>4
    <3>5. CASE task' # task
      <4>1. Ok' \subseteq Ok
        BY <1>0, <3>2, <3>5 DEF TypeInv, TypeOK
      <4> QED BY <1>4, <3>3, <4>1
    <3> QED BY <3>4, <3>5
  <2>2. ASSUME NEW k \in Slots, Callback(k) \/ CallbackLost(k)
        PROVE  Sent' = Sent /\ Ok' = Ok
    BY <2>2 DEF Callback, CallbackBegin, CallbackRefused, CallbackNoop, CallbackEnqueue,
       CallbackOk, CallbackFailed, CallbackLost, handler, Published
  <2>3. ASSUME PubSub
        PROVE  Stored' = Stored /\ Ok' = Ok
    BY <2>3 DEF PubSub, PublishLands, PublishFails
  <2>4. ASSUME Tick \/ Admin \/ UNCHANGED vars
        PROVE  Sent' = Sent /\ Ok' = Ok
    BY <2>4 DEF Tick, Admin, vars, handler, Published
  <2> QED BY <2>1, <2>2, <2>3, <2>4 DEF Next
<1>6. Sent \subseteq Calls /\ Sent' \subseteq Calls /\ Ok' \subseteq Calls
      /\ Stored' \subseteq Calls
  OBVIOUS
<1> HIDE DEF Sent, Ok, Stored
<1>7. CASE Sent' = Sent /\ Stored' = Stored
  <2>1. Promised!Acknowledge(Ok')
    BY <1>2, <1>3, <1>4, <1>7 DEF Promised!Acknowledge
  <2> QED BY <1>6, <2>1 DEF Promised!Next
<1>8. CASE Sent' = Sent /\ Ok' = Ok
  <2>1. Promised!Keep(Stored')
    BY <1>2, <1>3, <1>4, <1>8 DEF Promised!Keep
  <2> QED BY <1>6, <2>1 DEF Promised!Next
<1>9. CASE Stored' = Stored /\ Ok' = Ok
  <2>1. Promised!Deliver(Sent')
    BY <1>2, <1>3, <1>4, <1>9 DEF Promised!Deliver
  <2> QED BY <1>6, <2>1 DEF Promised!Next
<1> QED BY <1>5, <1>7, <1>8, <1>9

\* Enqueue and the callbacks implement the promise made to clients, for every
\* number of calls, callback handlers and job ids: no interleaving of theirs
\* acknowledges a job nothing holds, or lets go of a held one.
THEOREM PromiseKept == Spec => ImplementsPromise
<1>1. Init => Promised!Init
  BY DEF Init, Promised!Init, HeldCalls, SentCalls, OkCalls, Published
<1>2. Init => Settled
  BY InitSettled
<1>3. HeldInv /\ Settled /\ [Next]_vars => Settled'
  BY NextSettled DEF HeldInv
<1>4. HeldInv /\ HeldInv' /\ Settled /\ [Next]_vars
        => [Promised!Next]_<<HeldCalls, SentCalls, OkCalls>>
  <2> SUFFICES ASSUME HeldInv, HeldInv', Settled, [Next]_vars
               PROVE  [Promised!Next]_<<HeldCalls, SentCalls, OkCalls>>
    OBVIOUS
  <2>1. CASE Durable
    BY <2>1, PromiseStep
  <2>2. CASE ~Durable
    <3>1. ~Durable'
      BY <2>2, FixedParts DEF Durable, Backend, Scheduler
    <3> QED BY <2>2, <3>1 DEF HeldCalls, SentCalls, OkCalls
  <2> QED BY <2>1, <2>2
<1> QED
  BY <1>1, <1>2, <1>3, <1>4, HeldAlways, PTL DEF Spec, ImplementsPromise, Promised!Spec

-----------------------------------------------------------------------------
(* Nothing is published early.  The requested time travels with the job:   *)
(* it never gets smaller on the way, a callback runs only once it has      *)
(* come, and a publish request in flight only gets later.                  *)

Scheduling == Scheduler # "nil" /\ ScheduleThreshold > 0

JobNotEarlier == \A c \in Calls : pc[c] \in Busy => job[c].runAt >= req[c].runAt

TaskNotEarlier == \A c \in Calls :
    task[c].st # "none" => pc[c] # "idle" /\ task[c].body.runAt >= req[c].runAt

AttemptDue == \A k \in Slots :
    attempt[k].st # "idle" => /\ pc[attempt[k].job.call] # "idle"
                              /\ req[attempt[k].job.call].runAt <= now

InFlightDue == \A e \in outbox :
    pc[e.msg.call] # "idle" /\ (Scheduling => NotEarly(e.msg, now))

TimeInv == JobNotEarlier /\ TaskNotEarlier /\ AttemptDue /\ InFlightDue

\* Initially nothing is scheduled or in flight.
LEMMA InitTime == Init => TimeInv
BY DEF Init, TimeInv, JobNotEarlier, TaskNotEarlier, AttemptDue, InFlightDue, Busy

\* Facts about types used below.
LEMMA TimeTypes ==
    ASSUME TypeInv
    PROVE  /\ now \in Nat
           /\ ScheduleThreshold \in Int
           /\ \A c \in Calls : pc[c] # "idle" => req[c].runAt \in Int
           /\ \A c \in Calls : pc[c] \in Busy => job[c].runAt \in Nat /\ job[c].call = c
           /\ \A c \in Calls : task[c].st # "none" => task[c].body.runAt \in Nat
           /\ \A k \in Slots : attempt[k].st # "idle" => attempt[k].job.call \in Calls
           /\ \A e \in outbox : e.msg.call \in Calls
<1>1. now \in Nat /\ ScheduleThreshold \in Int
  BY ConfigAssumption DEF ConfigAssumption, TypeInv, TypeOK
<1>2. \A c \in Calls : pc[c] # "idle" => req[c].runAt \in Int
  BY RunAtInt DEF TypeInv, Shape, RequestKnown
<1>3. \A c \in Calls : pc[c] \in Busy => job[c].runAt \in Nat /\ job[c].call = c
  BY DEF TypeInv, Shape, JobKnown, AJob, Job
<1>4. \A c \in Calls : task[c].st # "none" => task[c].body.runAt \in Nat
  BY DEF TypeInv, Shape, TaskKnown, TaskBody
<1>5. \A k \in Slots : attempt[k].st # "idle" => attempt[k].job.call \in Calls
  BY DEF TypeInv, Shape, AttemptKnown, AJob, Job
<1>6. \A e \in outbox : e.msg.call \in Calls
  BY DEF TypeInv, TypeOK, Message
<1> QED BY <1>1, <1>2, <1>3, <1>4, <1>5, <1>6

\* Time only brings jobs closer to their run time.
LEMMA EnvTime ==
    ASSUME TypeInv, TimeInv, Tick \/ Admin \/ UNCHANGED vars,
           UNCHANGED deployment
    PROVE  TimeInv'
<1>1. /\ UNCHANGED <<pc, req, job, task, attempt, outbox>>
      /\ now' \in Nat /\ now' >= now
  BY TimeTypes DEF Tick, Admin, vars, handler
<1>2. JobNotEarlier' /\ TaskNotEarlier'
  BY <1>1 DEF TimeInv, JobNotEarlier, TaskNotEarlier
<1>3. AttemptDue'
  BY <1>1, TimeTypes DEF TimeInv, AttemptDue
<1>4. InFlightDue'
  BY <1>1, TimeTypes DEF TimeInv, InFlightDue, NotEarly, Scheduling, Scheduler
<1> QED BY <1>2, <1>3, <1>4 DEF TimeInv

\* A call's handler publishes only what is due within the threshold.
LEMMA HandlerTime ==
    ASSUME TypeInv, TimeInv, NEW c \in Calls, Handler(c) \/ Die(c),
           UNCHANGED deployment
    PROVE  TimeInv'
<1> USE DEF TimeInv
<1>1. ASSUME NEW r \in Requests, Reject(c, r) \/ Accept(c, r)
      PROVE  TimeInv'
  <2>1. /\ pc[c] = "idle" /\ pc'[c] \in {"replied", "routing"}
        /\ \A d \in Calls : d # c => pc'[d] = pc[d] /\ req'[d] = req[d]
        /\ UNCHANGED <<now, job, task, attempt, outbox>>
    BY <1>1 DEF Reject, Accept, Reply, TypeInv, TypeOK
  <2>2. JobNotEarlier' /\ TaskNotEarlier'
    BY <2>1 DEF JobNotEarlier, TaskNotEarlier, Busy
  <2>3. AttemptDue'
    BY <2>1, TimeTypes DEF AttemptDue
  <2>4. InFlightDue'
    BY <2>1, TimeTypes DEF InFlightDue, NotEarly, Scheduling, Scheduler
  <2> QED BY <2>2, <2>3, <2>4
<1>2. ASSUME NEW id \in JobIds, Route(c, id)
      PROVE  TimeInv'
  <2>1. /\ pc[c] = "routing" /\ pc'[c] = "dispatch"
        /\ \A d \in Calls : d # c => pc'[d] = pc[d] /\ job'[d] = job[d]
        /\ job'[c] = NewJob(c, req[c], id, routingConfig(req[c]), now)
        /\ UNCHANGED <<now, req, task, attempt, outbox>>
    BY <1>2 DEF Route, TypeInv, TypeOK
  <2>2. job'[c].runAt = IF req[c].runAt = NoRunAt THEN now ELSE req[c].runAt
    BY <2>1 DEF NewJob
  <2>3. job'[c].runAt >= req[c].runAt
    BY <2>1, <2>2, TimeTypes DEF NoRunAt
  <2>4. JobNotEarlier' /\ TaskNotEarlier'
    BY <2>1, <2>3 DEF JobNotEarlier, TaskNotEarlier
  <2>5. AttemptDue' /\ InFlightDue'
    BY <2>1, TimeTypes DEF AttemptDue, InFlightDue, NotEarly, Scheduling, Scheduler
  <2> QED BY <2>4, <2>5
<1>3. ASSUME pc[c] \in Busy, pc'[c] \in Busy \cup {"replied"},
             \A d \in Calls : d # c => pc'[d] = pc[d],
             UNCHANGED <<now, req, job, attempt>>,
             task' = task \/ StoreTask(c)
      PROVE  JobNotEarlier' /\ TaskNotEarlier' /\ AttemptDue'
  <2>1. JobNotEarlier'
    BY <1>3 DEF JobNotEarlier, Busy
  <2>2. /\ \A d \in Calls : d # c => task'[d] = task[d]
        /\ task'[c] = task[c] \/ task'[c].body = marshalJob(job[c])
    BY <1>3, TaskStored DEF TypeInv, Shape, JobKnown
  <2>3. TaskNotEarlier'
    BY <1>3, <2>2 DEF TaskNotEarlier, JobNotEarlier, Busy, marshalJob
  <2>4. AttemptDue'
    BY <1>3, TimeTypes DEF AttemptDue, Busy
  <2> QED BY <2>1, <2>3, <2>4
<1>4. CASE ScheduleNoop(c) \/ Schedule(c) \/ EnqueueNoop(c) \/ ScheduleTooLarge(c)
           \/ CreateTaskFails(c) \/ EnqueueRefused(c) \/ Respond(c)
           \/ CreateTaskOk(c) \/ CreateTaskUnheard(c)
  <2>1. /\ pc[c] \in Busy /\ pc'[c] \in Busy \cup {"replied"}
        /\ \A d \in Calls : d # c => pc'[d] = pc[d]
        /\ UNCHANGED <<now, req, job, attempt, outbox>>
        /\ task' = task \/ StoreTask(c)
    BY <1>4 DEF ScheduleNoop, Schedule, EnqueueNoop, ScheduleTooLarge, CreateTaskFails,
       EnqueueRefused, Respond, CreateTaskOk, CreateTaskUnheard, Reply, Busy, TypeInv,
       TypeOK
  <2>2. InFlightDue'
    BY <2>1, TimeTypes DEF InFlightDue, NotEarly, Scheduling, Scheduler, Busy
  <2> QED BY <1>3, <2>1, <2>2
<1>5. CASE Enqueue(c)
  <2>1. /\ pc[c] = "dispatch" /\ pc'[c] = "publishing"
        /\ \A d \in Calls : d # c => pc'[d] = pc[d]
        /\ UNCHANGED <<now, req, job, attempt, task>>
        /\ ~UseScheduler(Scheduler, job[c], now)
        /\ outbox' = outbox \cup {[by |-> c, msg |-> Marshal(job[c])]}
    BY <1>5 DEF Enqueue, Publish, TypeInv, TypeOK
  <2>2. Marshal(job[c]).call = c
    BY <2>1, MarshalType DEF TypeInv, Shape, JobKnown, Busy
  <2>3. Scheduling => req[c].runAt - now < ScheduleThreshold
    BY <2>1, TimeTypes DEF UseScheduler, Scheduling, JobNotEarlier, Busy
  <2>4. InFlightDue'
    BY <2>1, <2>2, <2>3, TimeTypes DEF InFlightDue, NotEarly, Scheduling, Scheduler
  <2>5. pc[c] \in Busy /\ pc'[c] \in Busy
    BY <2>1 DEF Busy
  <2> QED BY <1>3, <2>1, <2>4, <2>5
<1>6. CASE CtxDone(c) \/ Die(c)
  <2>1. /\ pc[c] # "idle" /\ pc'[c] = "replied"
        /\ \A d \in Calls : d # c => pc'[d] = pc[d]
        /\ UNCHANGED <<now, req, job, attempt>>
        /\ task' = task \/ (StoreTask(c) /\ pc[c] \in Busy)
    BY <1>6 DEF CtxDone, Die, Reply, Busy, TypeInv, TypeOK
  <2>2. \A f \in outbox' : \E e \in outbox : f.msg = e.msg
    BY <1>6 DEF CtxDone, Die, Orphan, TypeInv, TypeOK
  <2>3. InFlightDue'
    BY <2>1, <2>2, TimeTypes DEF InFlightDue, NotEarly, Scheduling, Scheduler
  <2>4. JobNotEarlier'
    BY <2>1 DEF JobNotEarlier, Busy
  <2>5. /\ \A d \in Calls : d # c => task'[d] = task[d]
        /\ task'[c] = task[c] \/ (task'[c].body = marshalJob(job[c]) /\ pc[c] \in Busy)
    BY <2>1, TaskStored DEF TypeInv, Shape, JobKnown
  <2>6. TaskNotEarlier'
    BY <2>1, <2>5 DEF TaskNotEarlier, JobNotEarlier, marshalJob
  <2>7. AttemptDue'
    BY <2>1, TimeTypes DEF AttemptDue
  <2> QED BY <2>3, <2>4, <2>6, <2>7
<1> QED
  BY <1>1, <1>2, <1>4, <1>5, <1>6 DEF Handler

\* A callback handler works only on jobs whose time has come.
LEMMA CallbackTime ==
    ASSUME TypeInv, TimeInv, NEW k \in Slots, Callback(k) \/ CallbackLost(k),
           UNCHANGED deployment
    PROVE  TimeInv'
<1> USE DEF TimeInv
<1>1. /\ UNCHANGED <<now, pc, req, job>>
      /\ \A i \in Slots : i # k => attempt'[i] = attempt[i]
  BY DEF Callback, CallbackBegin, CallbackRefused, CallbackNoop, CallbackEnqueue,
         CallbackOk, CallbackFailed, CallbackLost, handler, TypeInv, TypeOK
<1>2. JobNotEarlier'
  BY <1>1 DEF JobNotEarlier
<1>3. \A c \in Calls : /\ task'[c].body = task[c].body
                       /\ task'[c].st # "none" => task[c].st # "none"
  <2>1. task' = task \/ CallbackOk(k)
    BY DEF Callback, CallbackBegin, CallbackRefused, CallbackNoop, CallbackEnqueue,
           CallbackFailed, CallbackLost
  <2>2. ASSUME CallbackOk(k), NEW c \in Calls
        PROVE  /\ task'[c].body = task[c].body
               /\ task'[c].st # "none" => task[c].st # "none"
    <3> DEFINE d == attempt[k].job.call
    <3>1. d \in Calls /\ task[d].st # "none"
      BY <2>2, TimeTypes DEF CallbackOk, TypeInv, Shape, AttemptKnown
    <3>2. task' = [task EXCEPT ![d].st = "done"]
      BY <2>2 DEF CallbackOk
    <3> HIDE DEF d
    <3> QED
      BY <3>1, <3>2 DEF TypeInv, TypeOK
  <2> QED
    BY <2>1, <2>2
<1>4. TaskNotEarlier'
  BY <1>1, <1>3 DEF TaskNotEarlier
<1>5. AttemptDue'
  <2>1. ASSUME NEW d \in Calls, CallbackBegin(k, d)
        PROVE  /\ attempt'[k].job.call = d
               /\ pc[d] # "idle" /\ req[d].runAt <= now
    <3>1. task[d].st = "pending" /\ now >= task[d].body.runAt
      BY <2>1 DEF CallbackBegin
    <3>2. pc[d] # "idle" /\ req[d].runAt <= now
      BY <3>1, TimeTypes DEF TaskNotEarlier
    <3>3. task[d].body.call = d
      BY <3>1 DEF TypeInv, Shape, TaskKnown
    <3>4. attempt'[k].job.call = d
      BY <2>1, <3>3 DEF CallbackBegin, UnmarshalJob, TypeInv, TypeOK
    <3> QED BY <3>2, <3>4
  <2>2. (\E d \in Calls : CallbackBegin(k, d))
        \/ (attempt'[k].st # "idle" => attempt[k].st # "idle" /\ attempt'[k].job = attempt[k].job)
    BY DEF Callback, CallbackRefused, CallbackNoop, CallbackEnqueue, CallbackOk,
           CallbackFailed, CallbackLost, TypeInv, TypeOK
  <2> QED
    BY <1>1, <2>1, <2>2 DEF AttemptDue
<1>6. InFlightDue'
  <2>1. CASE CallbackEnqueue(k)
    <3>1. /\ outbox' = outbox \cup {[by |-> k, msg |-> Marshal(attempt[k].job)]}
          /\ attempt[k].st # "idle"
      BY <2>1 DEF CallbackEnqueue, Publish
    <3>2. Marshal(attempt[k].job).call = attempt[k].job.call
      BY <3>1, MarshalType DEF TypeInv, Shape, AttemptKnown
    <3>3. /\ pc[attempt[k].job.call] # "idle"
          /\ Scheduling => req[attempt[k].job.call].runAt - now < ScheduleThreshold
      BY <3>1, TimeTypes DEF AttemptDue, Scheduling
    <3> QED
      BY <1>1, <3>1, <3>2, <3>3 DEF InFlightDue, NotEarly, Scheduling, Scheduler
  <2>2. CASE ~CallbackEnqueue(k)
    <3>1. \A f \in outbox' : \E e \in outbox : f.msg = e.msg
      BY <2>2 DEF Callback, CallbackBegin, CallbackRefused, CallbackNoop, CallbackOk,
         CallbackFailed, CallbackLost, Orphan, TypeInv, TypeOK
    <3> QED
      BY <1>1, <3>1 DEF InFlightDue, NotEarly, Scheduling, Scheduler
  <2> QED BY <2>1, <2>2
<1> QED BY <1>2, <1>4, <1>5, <1>6

\* An answer of Pub/Sub puts nothing new in flight.
LEMMA PubSubTime ==
    ASSUME TypeInv, TimeInv, NEW e \in outbox, PublishLands(e) \/ PublishFails(e),
           UNCHANGED deployment
    PROVE  TimeInv'
<1>1. /\ outbox' = outbox \ {e}
      /\ UNCHANGED <<now, req, job, task>>
      /\ \A c \in Calls : pc'[c] = pc[c] \/ (e.by = c /\ pc'[c] \in {"sent", "failed"})
      /\ \A k \in Slots : /\ attempt'[k].job = attempt[k].job
                          /\ attempt'[k].st = "idle" <=> attempt[k].st = "idle" /\ e.by # k
  BY DEF PublishLands, PublishFails, Tell, TypeInv, TypeOK
<1>2. \A c \in Calls : /\ pc'[c] \in Busy => pc[c] \in Busy
                       /\ pc[c] # "idle" => pc'[c] # "idle"
  BY <1>1 DEF TypeInv, Shape, CallWaits, Busy
<1>3. \A k \in Slots : attempt'[k].st # "idle" => attempt[k].st # "idle"
  BY <1>1 DEF TypeInv, Shape, SlotWaits
<1>4. JobNotEarlier' /\ TaskNotEarlier'
  BY <1>1, <1>2 DEF TimeInv, JobNotEarlier, TaskNotEarlier
<1>5. AttemptDue'
  BY <1>1, <1>2, <1>3, TimeTypes DEF TimeInv, AttemptDue
<1>6. InFlightDue'
  BY <1>1, <1>2, TimeTypes DEF TimeInv, InFlightDue, NotEarly, Scheduling, Scheduler
<1> QED BY <1>4, <1>5, <1>6 DEF TimeInv

\* Every step keeps jobs from being in flight too early.
LEMMA NextTime == TypeInv /\ TimeInv /\ [Next]_vars => TimeInv'
BY FixedParts, EnvTime, HandlerTime, CallbackTime, PubSubTime DEF Next, PubSub

\* What becomes published in a step was in flight before it.
LEMMA PublishStep ==
    ASSUME [Next]_vars, NEW m \in published' \ published
    PROVE  \E e \in outbox : e.msg = m
BY DEF Next, vars, Tick, Admin, Handler, Callback, PubSub, Reject, Accept, Route,
   ScheduleNoop, ScheduleTooLarge, Schedule, CreateTaskOk, CreateTaskUnheard,
   CreateTaskFails, EnqueueRefused, EnqueueNoop, Enqueue, Respond, CtxDone, Die,
   CallbackBegin, CallbackRefused, CallbackNoop, CallbackEnqueue, CallbackOk,
   CallbackFailed, CallbackLost, PublishLands, PublishFails

\* No message enters a topic while its requested run time is the threshold or
\* more away, for every threshold, and however jobs wait, retry and overtake
\* each other.
THEOREM NothingEarly == Spec => NoEarlyPublish
<1>1. Init => TypeInv /\ TimeInv
  BY InitTypeInv, InitTime
<1>2. TypeInv /\ TimeInv /\ [Next]_vars => TypeInv' /\ TimeInv'
  BY NextTypeInv, NextTime
<1>3. TimeInv /\ [Next]_vars =>
        [\A m \in published' \ published :
            Scheduler # "nil" /\ ScheduleThreshold > 0 => NotEarly(m, now)]_vars
  BY PublishStep DEF TimeInv, InFlightDue, Scheduling
<1> QED
  BY <1>1, <1>2, <1>3, PTL DEF Spec, NoEarlyPublish
=============================================================================
