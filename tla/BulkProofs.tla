----------------------------- MODULE BulkProofs -----------------------------
(***************************************************************************)
(* Theorems about Bulk, for batches of any length, any job ids, any        *)
(* registry and every configuration.                                       *)
(*                                                                         *)
(* The argument follows a position through the call.  Its request is       *)
(* judged (PrepInv), its job goes into one of the two slices, which        *)
(* remembers where it came from (SplitInv), a goroutine writes its result  *)
(* once something holds the job (HeldInv), and the response puts the       *)
(* result back (Verdict).                                                  *)
(***************************************************************************)
EXTENDS Bulk, RoutingProofs

USE DEF world, prepared, split, slices, outside, registry

-----------------------------------------------------------------------------
(* The invariants. *)

AJob == Job(Positions, JobIds)

AResult == [jobID: JobIds \cup {None}, error: BOOLEAN]

Preparing == {"validate", "route"}

\* Where the jobs of all positions are known.
Ready == {"partition", "publishing", "scheduling", "replied"}

\* Where they are all in a slice.
Sliced == {"publishing", "scheduling", "replied"}

\* Position p has an element in the slice with these indexes.
In(indexes, p) == \E x \in DOMAIN indexes : indexes[x] = p

\* What is still empty, and what is filled, where the handler is.
Untouched ==
    /\ pc \in {"idle", "rejected"} => batch = <<>>
    /\ pc = "idle" => i = 1
    /\ pc \in {"idle", "rejected", "validate", "route"} =>
          /\ immediateJobs = <<>> /\ immediateIndexes = <<>>
          /\ futureJobs = <<>> /\ futureIndexes = <<>>
    /\ pc \in {"idle", "rejected", "validate", "route", "partition"} =>
          immResults = <<>> /\ outbox = {} /\ published = {}
    /\ pc \in {"idle", "rejected", "validate", "route", "partition", "publishing"} =>
          futResults = <<>> /\ tasks = {}
    /\ pc # "replied" => results = <<>>

Written ==
    /\ pc \in Sliced => DOMAIN immResults = DOMAIN immediateJobs
    /\ pc \in {"scheduling", "replied"} =>
          AllWritten(immResults) /\ DOMAIN futResults = DOMAIN futureJobs
    /\ pc = "replied" => AllWritten(futResults) /\ results = BuildResponse

\* A publish request is that of the element its goroutine waits for.
InFlight == \A e \in outbox :
    e.idx \in DOMAIN immediateJobs /\ e.msg = Marshal(immediateJobs[e.idx])

Shape ==
    /\ reasons \in [Positions -> {"", "validation_error", "payload_too_large"}]
    /\ warnings \in [Positions -> SUBSET {"producer", "jobType"}]
    /\ pc = "route" => i \in Positions
    /\ Untouched
    /\ Written
    /\ InFlight

TypeInv == TypeOK /\ Shape

\* The loops over the batch are past position p.
Judged(p) == (pc \in Preparing /\ p < i) \/ pc \in Ready

Placed(p) == (pc = "partition" /\ p < i) \/ pc \in Sliced

\* A request is judged once, and its job is its own.
PrepInv ==
    /\ pc = "route" => ValidRequest(batch[i])
    /\ \A p \in Positions :
          /\ jobs[p] # None => /\ ValidRequest(batch[p])
                               /\ jobs[p].call = p
                               /\ jobs[p].runAt >= batch[p].runAt
          /\ reasons[p] # "" => ~ValidRequest(batch[p])
          /\ pc \in Preparing /\ p >= i => jobs[p] = None
          /\ Judged(p) =>
                IF ValidRequest(batch[p]) THEN jobs[p] # None ELSE reasons[p] # ""

\* A slice holds the jobs of the positions it remembers, each once.
SliceInv(js, ixs) ==
    /\ \A x \in DOMAIN ixs : js[x] = jobs[ixs[x]] /\ js[x] # None
    /\ \A x, y \in DOMAIN ixs : ixs[x] = ixs[y] => x = y
    /\ pc = "partition" => \A x \in DOMAIN ixs : ixs[x] < i

\* Every job is in one slice.
SplitInv ==
    /\ SliceInv(immediateJobs, immediateIndexes)
    /\ SliceInv(futureJobs, futureIndexes)
    /\ \A p \in Positions : ~(In(immediateIndexes, p) /\ In(futureIndexes, p))
    /\ \A p \in Positions :
          jobs[p] # None /\ Placed(p) =>
             In(immediateIndexes, p) \/ In(futureIndexes, p)

Sent(p) == \E m \in published : m.call = p

Tasked(p) == \E b \in tasks : b.call = p

\* A success stands for a job that something holds, and only jobs are held.
HeldInv ==
    /\ \A x \in DOMAIN immResults : immResults[x] # None /\ ~immResults[x].error =>
          /\ immResults[x].jobID = immediateJobs[x].id
          /\ Backend = "pubsub" => Sent(immediateIndexes[x])
    /\ \A x \in DOMAIN futResults : futResults[x] # None /\ ~futResults[x].error =>
          /\ futResults[x].jobID = futureJobs[x].id
          /\ Scheduler # "noop" => Tasked(futureIndexes[x])
    /\ \A m \in published : m.call \in Positions /\ jobs[m.call] # None
    /\ \A b \in tasks : b.call \in Positions /\ jobs[b.call] # None

\* What is published at once is due.
DueInv ==
    Scheduler # "nil" /\ ScheduleThreshold > 0 =>
        \A x \in DOMAIN immediateIndexes :
            batch[immediateIndexes[x]].runAt - now < ScheduleThreshold

\* Between the two reads of the registry, and after them.
RouteInv ==
    /\ Retried
    /\ pc = "route" =>
          /\ "jobType" \notin warnings[i]
          /\ "producer" \notin warnings[i] => batch[i].producer \in producers
    /\ \A p \in Positions : jobs[p] # None =>
          Sound(producers, jobTypes, batch[p], jobs[p], warnings[p])

-----------------------------------------------------------------------------
(* What the helpers return. *)

\* The empty sequence.
LEMMA Nothing ==
    ASSUME NEW S
    PROVE  <<>> \in Seq(S) /\ Len(<<>>) = 0 /\ DOMAIN <<>> = {}
OBVIOUS

\* A batch is a sequence of requests.
LEMMA BatchType ==
    ASSUME batch \in Batches \cup {<<>>}
    PROVE  /\ Len(batch) \in Nat
           /\ \A p \in Positions : p \in Nat /\ batch[p] \in Request
<1>1. batch \in Seq(Request)
  BY BulkAssumption, Nothing DEF BulkAssumption
<1> QED BY <1>1 DEF Positions

\* A job is not None, whichever its call.
LEMMA JobNotNone == \A j \in Job(Nat, JobIds) : j # None
BY BulkAssumption DEF BulkAssumption

\* Appending to a slice.
LEMMA AppendFacts ==
    ASSUME NEW S, NEW s \in Seq(S), NEW v \in S
    PROVE  /\ Append(s, v) \in Seq(S)
           /\ Len(Append(s, v)) = Len(s) + 1
           /\ DOMAIN Append(s, v) = DOMAIN s \cup {Len(s) + 1}
           /\ \A x \in DOMAIN s : x # Len(s) + 1 /\ Append(s, v)[x] = s[x]
           /\ Append(s, v)[Len(s) + 1] = v
OBVIOUS

\* The job built for a position is well typed and knows its position.
LEMMA NewJobIsJob ==
    ASSUME StoreTypeOK, now \in Nat, NEW p \in Nat, NEW r \in Request, NEW id \in JobIds
    PROVE  LET j == NewJob(p, r, id, routingConfig(r), now)
           IN  /\ \A P : p \in P => j \in Job(P, JobIds)
               /\ j # None
               /\ j.call = p /\ j.runAt >= r.runAt
<1> DEFINE j == NewJob(p, r, id, routingConfig(r), now)
<1>1. /\ routingConfig(r).priority \in Priority
      /\ routingConfig(r).maxRetries \in Int
  BY RoutingType
<1>2. r.runAt \in Nat \cup {NoRunAt}
  BY DEF Request
<1>3. /\ (IF r.runAt = NoRunAt THEN now ELSE r.runAt) \in Nat
      /\ (IF r.runAt = NoRunAt THEN now ELSE r.runAt) >= r.runAt
  BY <1>2 DEF NoRunAt
<1>4. shadowFromContext(r) \in BOOLEAN
  BY DEF shadowFromContext
<1>5. /\ r.producer \in Seq(STRING)
      /\ r.jobType \in Seq(STRING)
      /\ r.payload \in Payload
  BY DEF Request
<1>6. \A P : p \in P => j \in Job(P, JobIds)
  BY <1>1, <1>3, <1>4, <1>5 DEF NewJob, Job
<1>7. j # None
  BY <1>6, JobNotNone
<1>8. j.call = p /\ j.runAt >= r.runAt
  BY <1>3 DEF NewJob
<1> QED BY <1>6, <1>7, <1>8

\* A result of either kind is a result.
LEMMA ResultType ==
    ASSUME NEW P, NEW j \in Job(P, JobIds)
    PROVE  Success(j) \in AResult /\ Failure(j) \in AResult /\ NotScheduled \in AResult
BY DEF Success, Failure, NotScheduled, AResult, Job

\* Filling in a written result gives a response element.
LEMMA FillInType ==
    ASSUME NEW res \in BulkResult, NEW p, NEW ixs, NEW rs, AllWritten(rs),
           \A x \in DOMAIN rs : rs[x] \in AResult \cup {None}
    PROVE  FillIn(res, p, ixs, rs) \in BulkResult
<1> DEFINE Of == Elements(ixs, p) \cap DOMAIN rs
           br == rs[CHOOSE x \in Of : TRUE]
<1>1. CASE Of = {}
  BY <1>1 DEF FillIn
<1>2. CASE Of # {}
  <2>1. (CHOOSE x \in Of : TRUE) \in Of
    BY <1>2
  <2>2. br \in AResult
    BY <2>1 DEF AllWritten
  <2>3. FillIn(res, p, ixs, rs) = IF br.error THEN [res EXCEPT !.reason = "internal_error"]
                                  ELSE [res EXCEPT !.jobId = br.jobID]
    BY <1>2 DEF FillIn
  <2> HIDE DEF br
  <2>4. br.error \in BOOLEAN /\ br.jobID \in JobIds \cup {None}
    BY <2>2 DEF AResult
  <2>5. /\ [res EXCEPT !.reason = "internal_error"] \in BulkResult
        /\ [res EXCEPT !.jobId = br.jobID] \in BulkResult
    BY <2>4 DEF BulkResult
  <2> QED BY <2>3, <2>4, <2>5
<1> QED BY <1>1, <1>2

-----------------------------------------------------------------------------
(* Type correctness. *)

\* Initially everything is empty.
LEMMA InitTypeInv == Init => TypeInv
<1> SUFFICES ASSUME Init PROVE TypeInv
  OBVIOUS
<1>1. StoreTypeOK
  BY DEF Init, StoreInit, StoreTypeOK, EmptyMap
<1>2. Positions = {}
  BY DEF Init, Positions
<1>3. /\ Slice(immediateJobs, immediateIndexes, immResults)
      /\ Slice(futureJobs, futureIndexes, futResults)
  BY Nothing DEF Init, Slice
<1>5. deployment \in Deployment
  BY DeploymentAssumption DEF Init, DeploymentAssumption
<1>6. /\ i \in 1 .. Len(batch) + 1
      /\ jobs \in [Positions -> Job(Positions, JobIds) \cup {None}]
  BY <1>2, Nothing DEF Init
<1>7. TypeOK
  BY <1>1, <1>3, <1>5, <1>6 DEF Init, TypeOK
<1>4. Shape
  BY <1>2 DEF Init, Shape, Untouched, Written, InFlight, Sliced
<1> QED BY <1>4, <1>7 DEF TypeInv

\* What the environment leaves alone.
LEMMA EnvFrame ==
    ASSUME Tick \/ Admin \/ Cancel \/ UNCHANGED vars
    PROVE  /\ UNCHANGED <<pc, prepared, slices, results, outside>>
           /\ cancelled \in BOOLEAN => cancelled' \in BOOLEAN
           /\ now \in Nat => now' \in Nat /\ now' >= now
           /\ StoreNext \/ UNCHANGED <<producers, jobTypes>>
<1>1. UNCHANGED <<pc, prepared, slices, results, outside>>
  BY DEF Tick, Admin, Cancel, vars
<1>2. cancelled \in BOOLEAN => cancelled' \in BOOLEAN
  BY Zenon DEF Tick, Admin, Cancel, vars
<1>3. now' = now \/ now' = now + 1
  BY DEF Tick, Admin, Cancel, vars
<1>4. StoreNext \/ UNCHANGED <<producers, jobTypes>>
  BY DEF Tick, Admin, Cancel, vars
<1> QED BY <1>1, <1>2, <1>3, <1>4

\* The response depends on what the handler has, not on the world.
LEMMA SameResponse ==
    ASSUME UNCHANGED <<batch, reasons, warnings, immediateIndexes, immResults,
                       futureIndexes, futResults>>
    PROVE  BuildResponse' = BuildResponse
BY DEF BuildResponse, Empty, Positions

\* The clock, the administrators and the caller keep the types.
LEMMA EnvType ==
    ASSUME TypeInv, UNCHANGED deployment, Tick \/ Admin \/ Cancel \/ UNCHANGED vars
    PROVE  TypeInv'
<1>1. /\ UNCHANGED <<pc, prepared, slices, results, outside>>
      /\ cancelled' \in BOOLEAN /\ now' \in Nat
  BY EnvFrame DEF TypeInv, TypeOK
<1>2. StoreTypeOK'
  BY EnvFrame, RegistryType DEF TypeInv, TypeOK, StoreTypeOK
<1>3. TypeOK'
  BY <1>1, <1>2 DEF TypeInv, TypeOK, Slice, Positions
<1>4. BuildResponse' = BuildResponse
  BY <1>1, SameResponse
<1>5. Written' /\ Untouched' /\ InFlight'
  BY <1>1, <1>4 DEF TypeInv, Shape, Written, Untouched, InFlight, AllWritten
<1>6. Shape'
  BY <1>1, <1>5 DEF TypeInv, Shape, Positions
<1> QED BY <1>3, <1>6 DEF TypeInv

\* The start of the call.
LEMMA BeginType ==
    ASSUME TypeInv, UNCHANGED deployment, RejectBatch \/ \E b \in Batches : Begin(b)
    PROVE  TypeInv'
<1>1. CASE RejectBatch
  <2>1. TypeOK'
    BY <1>1 DEF RejectBatch, TypeInv, TypeOK, StoreTypeOK, Slice, Positions
  <2>2. Shape'
    BY <1>1 DEF RejectBatch, TypeInv, Shape, Untouched, Written, InFlight, Positions,
       Sliced
  <2> QED BY <2>1, <2>2 DEF TypeInv
<1>2. ASSUME NEW b \in Batches, Begin(b) PROVE TypeInv'
  <2>1. /\ pc = "idle" /\ pc' = "validate" /\ batch' = b
        /\ jobs' = [x \in 1 .. Len(b) |-> None]
        /\ reasons' = [x \in 1 .. Len(b) |-> ""]
        /\ warnings' = [x \in 1 .. Len(b) |-> {}]
        /\ UNCHANGED <<producers, jobTypes, now, cancelled, i, immediateJobs,
                       immediateIndexes, futureJobs, futureIndexes, immResults, futResults,
                       results, outbox, published, tasks>>
    BY <1>2 DEF Begin
  <2>2. Len(b) \in Nat
    BY BulkAssumption DEF BulkAssumption
  <2>3. Untouched /\ i = 1
    BY <2>1 DEF TypeInv, Shape, Untouched
  <2>4. /\ immediateJobs = <<>> /\ immediateIndexes = <<>> /\ immResults = <<>>
        /\ futureJobs = <<>> /\ futureIndexes = <<>> /\ futResults = <<>>
        /\ results = <<>> /\ outbox = {}
    BY <2>1, <2>3 DEF Untouched
  <2>5. Positions' = 1 .. Len(b)
    BY <2>1 DEF Positions
  <2>6. /\ Slice(immediateJobs, immediateIndexes, immResults)'
        /\ Slice(futureJobs, futureIndexes, futResults)'
    BY <2>1, <2>4, Nothing DEF Slice
  <2>7. TypeOK'
    <3>1. StoreTypeOK' /\ deployment' \in Deployment /\ cancelled' \in BOOLEAN
      BY <2>1 DEF TypeInv, TypeOK, StoreTypeOK
    <3>2. i' \in 1 .. Len(batch') + 1
      <4>1. i' = 1 /\ batch' = b
        BY <2>1, <2>3
      <4> QED BY <2>2, <4>1
    <3>5. jobs' \in [Positions' -> Job(Positions', JobIds) \cup {None}]
      BY <2>1, <2>5
    <3>6. batch' \in Batches
      BY <2>1
    <3>4. now' \in Nat
      BY <2>1 DEF TypeInv, TypeOK
    <3>3. pc' = "validate" /\ results' = <<>>
      BY <2>1, <2>4
    <3> QED BY <2>6, <3>1, <3>2, <3>3, <3>4, <3>5, <3>6 DEF TypeOK
  <2>8. Untouched' /\ Written' /\ InFlight'
    BY <2>1, <2>3, <2>4 DEF Untouched, Written, InFlight, Sliced
  <2>9. Shape'
    BY <2>1, <2>5, <2>8 DEF Shape
  <2> QED BY <2>7, <2>9 DEF TypeInv
<1> QED BY <1>1, <1>2

\* The pass over the requests.
LEMMA PrepareType ==
    ASSUME TypeInv, UNCHANGED deployment,
           SkipInvalid \/ CheckProducer \/ (\E id \in JobIds : Prepare(id)) \/ Prepared
    PROVE  TypeInv'
<1>1. /\ pc \in Preparing /\ pc' \in Preparing \cup {"partition"}
      /\ UNCHANGED <<producers, jobTypes, now, cancelled, batch, immediateJobs,
                     immediateIndexes, futureJobs, futureIndexes, immResults, futResults,
                     results, outbox, published, tasks>>
  BY DEF SkipInvalid, CheckProducer, Prepare, Prepared, Preparing
<1>2. Positions' = Positions
  BY <1>1 DEF Positions
<1>3. /\ Len(batch) \in Nat /\ i \in 1 .. Len(batch) + 1
      /\ \A p \in Positions : p \in Nat /\ batch[p] \in Request
  BY BatchType DEF TypeInv, TypeOK
<1>4. /\ i' \in 1 .. Len(batch) + 1
      /\ pc' = "route" => i' \in Positions
  <2>1. /\ i' = 1 \/ i' = i \/ (i' = i + 1 /\ i \in Positions)
        /\ pc' = "route" => i' = i /\ i \in Positions
    BY DEF SkipInvalid, CheckProducer, Prepare, Prepared, TypeInv, Shape
  <2> QED BY <1>3, <2>1 DEF Positions
<1>5. jobs' \in [Positions -> Job(Positions, JobIds) \cup {None}]
  <2>1. ASSUME NEW id \in JobIds, Prepare(id)
        PROVE  jobs' \in [Positions -> Job(Positions, JobIds) \cup {None}]
    <3> DEFINE j == NewJob(i, batch[i], id, routingConfig(batch[i]), now)
    <3>1. jobs' = [jobs EXCEPT ![i] = j]
      BY <2>1 DEF Prepare
    <3>2. i \in Positions
      BY <2>1 DEF Prepare, TypeInv, Shape
    <3>3. j \in Job(Positions, JobIds)
      BY <1>3, <3>2, NewJobIsJob DEF TypeInv, TypeOK
    <3> HIDE DEF j
    <3> QED BY <3>1, <3>3 DEF TypeInv, TypeOK
  <2>2. CASE jobs' = jobs
    BY <2>2 DEF TypeInv, TypeOK
  <2> QED BY <2>1, <2>2 DEF SkipInvalid, CheckProducer, Prepared
<1>6. reasons' \in [Positions -> {"", "validation_error", "payload_too_large"}]
  BY DEF SkipInvalid, CheckProducer, Prepare, Prepared, InvalidReason, TypeInv, Shape
<1>7. warnings' \in [Positions -> SUBSET {"producer", "jobType"}]
  <2>1. ASSUME NEW id \in JobIds, Prepare(id)
        PROVE  warnings' \in [Positions -> SUBSET {"producer", "jobType"}]
    <3> DEFINE ws == routingConfig(batch[i]).warnings
    <3>1. warnings' = [warnings EXCEPT ![i] = @ \cup ws] /\ i \in Positions
      BY <2>1 DEF Prepare, TypeInv, Shape
    <3>2. ws \subseteq {"producer", "jobType"}
      BY <1>3, <3>1, RoutingType DEF TypeInv, TypeOK
    <3> HIDE DEF ws
    <3> QED BY <3>1, <3>2 DEF TypeInv, Shape
  <2>2. ASSUME CheckProducer
        PROVE  warnings' \in [Positions -> SUBSET {"producer", "jobType"}]
    <3>1. \E w \in SUBSET {"producer", "jobType"} : warnings' = [warnings EXCEPT ![i] = w]
      BY <2>2 DEF CheckProducer
    <3> QED BY <3>1 DEF TypeInv, Shape
  <2>3. CASE warnings' = warnings
    BY <2>3 DEF TypeInv, Shape
  <2> QED BY <2>1, <2>2, <2>3 DEF SkipInvalid, Prepared
<1>8. /\ Slice(immediateJobs, immediateIndexes, immResults)'
      /\ Slice(futureJobs, futureIndexes, futResults)'
  BY <1>1, <1>2 DEF TypeInv, TypeOK, Slice
<1>9. TypeOK'
  BY <1>1, <1>2, <1>4, <1>5, <1>8 DEF TypeInv, TypeOK, StoreTypeOK, Preparing
<1>10. Untouched' /\ Written' /\ InFlight'
  BY <1>1 DEF TypeInv, Shape, Untouched, Written, InFlight, Preparing, Sliced
<1>11. Shape'
  BY <1>2, <1>4, <1>6, <1>7, <1>10 DEF Shape
<1> QED BY <1>9, <1>11 DEF TypeInv

\* The jobs of the slices.
LEMMA SliceTypes ==
    ASSUME TypeInv
    PROVE  /\ immediateJobs \in Seq(AJob) /\ immediateIndexes \in Seq(Positions)
           /\ futureJobs \in Seq(AJob) /\ futureIndexes \in Seq(Positions)
           /\ DOMAIN immediateIndexes = DOMAIN immediateJobs
           /\ DOMAIN futureIndexes = DOMAIN futureJobs
           /\ Len(immediateIndexes) = Len(immediateJobs)
           /\ Len(futureIndexes) = Len(futureJobs)
           /\ \A x \in DOMAIN immediateJobs : immediateJobs[x] \in AJob
           /\ \A x \in DOMAIN futureJobs : futureJobs[x] \in AJob
           /\ \A x \in DOMAIN immResults : immResults[x] \in AResult \cup {None}
           /\ \A x \in DOMAIN futResults : futResults[x] \in AResult \cup {None}
<1>1. /\ Slice(immediateJobs, immediateIndexes, immResults)
      /\ Slice(futureJobs, futureIndexes, futResults)
  BY DEF TypeInv, TypeOK
<1>2. /\ immediateJobs \in Seq(AJob) /\ immediateIndexes \in Seq(Positions)
      /\ futureJobs \in Seq(AJob) /\ futureIndexes \in Seq(Positions)
      /\ Len(immediateIndexes) = Len(immediateJobs)
      /\ Len(futureIndexes) = Len(futureJobs)
      /\ \A x \in DOMAIN immResults : immResults[x] \in AResult \cup {None}
      /\ \A x \in DOMAIN futResults : futResults[x] \in AResult \cup {None}
  BY <1>1 DEF Slice, AJob, AResult
<1> QED BY <1>2

\* The pass that splits the jobs.
LEMMA PartitionType ==
    ASSUME TypeInv, UNCHANGED deployment, Partition
    PROVE  TypeInv'
<1>1. /\ pc = "partition" /\ i \in Positions /\ i' = i + 1
      /\ UNCHANGED <<producers, jobTypes, now, cancelled, pc, batch, jobs, reasons,
                     warnings, immResults, futResults, results, outbox, published, tasks>>
  BY DEF Partition
<1>2. Positions' = Positions
  BY <1>1 DEF Positions
<1>3. immResults = <<>> /\ futResults = <<>> /\ outbox = {}
  BY <1>1 DEF TypeInv, Shape, Untouched
<1>4. jobs[i] # None => jobs[i] \in AJob
  BY <1>1 DEF TypeInv, TypeOK, AJob
<1>5. /\ immediateJobs' \in Seq(AJob) /\ immediateIndexes' \in Seq(Positions)
      /\ futureJobs' \in Seq(AJob) /\ futureIndexes' \in Seq(Positions)
      /\ Len(immediateIndexes') = Len(immediateJobs')
      /\ Len(futureIndexes') = Len(futureJobs')
  <2>1. CASE jobs[i] = None
    BY <2>1, SliceTypes DEF Partition
  <2>2. CASE jobs[i] # None
    <3>1. jobs[i] \in AJob
      BY <1>4, <2>2
    <3>2. /\ Append(immediateJobs, jobs[i]) \in Seq(AJob)
          /\ Append(futureJobs, jobs[i]) \in Seq(AJob)
          /\ Append(immediateIndexes, i) \in Seq(Positions)
          /\ Append(futureIndexes, i) \in Seq(Positions)
          /\ Len(Append(immediateJobs, jobs[i])) = Len(Append(immediateIndexes, i))
          /\ Len(Append(futureJobs, jobs[i])) = Len(Append(futureIndexes, i))
      <4>1. /\ Append(immediateJobs, jobs[i]) \in Seq(AJob)
            /\ Len(Append(immediateJobs, jobs[i])) = Len(immediateJobs) + 1
        BY <3>1, SliceTypes, AppendFacts
      <4>2. /\ Append(futureJobs, jobs[i]) \in Seq(AJob)
            /\ Len(Append(futureJobs, jobs[i])) = Len(futureJobs) + 1
        BY <3>1, SliceTypes, AppendFacts
      <4>3. /\ Append(immediateIndexes, i) \in Seq(Positions)
            /\ Len(Append(immediateIndexes, i)) = Len(immediateIndexes) + 1
        BY <1>1, SliceTypes, AppendFacts
      <4>4. /\ Append(futureIndexes, i) \in Seq(Positions)
            /\ Len(Append(futureIndexes, i)) = Len(futureIndexes) + 1
        BY <1>1, SliceTypes, AppendFacts
      <4> QED BY <4>1, <4>2, <4>3, <4>4, SliceTypes
    <3> QED BY <2>2, <3>2, SliceTypes DEF Partition
  <2> QED BY <2>1, <2>2
<1>6. /\ Slice(immediateJobs, immediateIndexes, immResults)'
      /\ Slice(futureJobs, futureIndexes, futResults)'
  BY <1>1, <1>2, <1>3, <1>5, Nothing DEF Slice, AJob
<1>7. i' \in 1 .. Len(batch') + 1
  <2>1. Len(batch) \in Nat
    BY BatchType DEF TypeInv, TypeOK
  <2> QED BY <1>1, <2>1 DEF Positions
<1>8. TypeOK'
  BY <1>1, <1>2, <1>6, <1>7 DEF TypeInv, TypeOK, StoreTypeOK
<1>9. Untouched' /\ Written' /\ InFlight'
  BY <1>1, <1>3 DEF TypeInv, Shape, Untouched, Written, InFlight, Sliced
<1>10. Shape'
  BY <1>1, <1>2, <1>9 DEF TypeInv, Shape
<1> QED BY <1>8, <1>10 DEF TypeInv

\* A step that keeps the requests, the jobs and the slices keeps the types if its
\* results are well typed and written in time.
LEMMA ResultsType ==
    ASSUME TypeInv, UNCHANGED deployment,
           UNCHANGED <<producers, jobTypes, now, cancelled, batch, i, jobs, reasons,
                       warnings, immediateJobs, immediateIndexes, futureJobs,
                       futureIndexes>>,
           pc' \in {"publishing", "scheduling", "replied", "dead"},
           DOMAIN immResults' \subseteq DOMAIN immediateJobs,
           \A x \in DOMAIN immResults' : immResults'[x] \in AResult \cup {None},
           DOMAIN futResults' \subseteq DOMAIN futureJobs,
           \A x \in DOMAIN futResults' : futResults'[x] \in AResult \cup {None},
           results' = <<>> \/ results' \in [Positions -> BulkResult],
           Untouched', Written', InFlight'
    PROVE  TypeInv'
<1>1. Positions' = Positions
  BY DEF Positions
<1>2. /\ Slice(immediateJobs, immediateIndexes, immResults)'
      /\ Slice(futureJobs, futureIndexes, futResults)'
  BY <1>1, SliceTypes DEF Slice, AJob, AResult
<1>3. StoreTypeOK' /\ deployment' \in Deployment /\ cancelled' \in BOOLEAN
  BY DEF TypeInv, TypeOK, StoreTypeOK
<1>4. TypeOK'
  BY <1>1, <1>2, <1>3 DEF TypeInv, TypeOK
<1>5. Shape'
  BY <1>1 DEF TypeInv, Shape
<1> QED BY <1>4, <1>5 DEF TypeInv

\* Where there is a publish request in flight, or a result to wait for.
LEMMA Late ==
    ASSUME TypeInv
    PROVE  /\ outbox # {} => pc \in {"publishing", "scheduling", "replied", "dead"}
           /\ pc \in {"publishing", "scheduling", "replied", "dead"} =>
                 /\ pc \notin {"idle", "rejected", "validate", "route", "partition"}
           /\ pc # "replied" => results = <<>>
BY DEF TypeInv, TypeOK, Shape, Untouched

\* The publish requests are sent.
LEMMA SendType ==
    ASSUME TypeInv, UNCHANGED deployment, EnqueueBulkNoop \/ EnqueueBulk
    PROVE  TypeInv'
<1>1. /\ pc = "partition" /\ pc' = "publishing"
      /\ UNCHANGED <<producers, jobTypes, now, cancelled, batch, i, jobs, reasons,
                     warnings, immediateJobs, immediateIndexes, futureJobs,
                     futureIndexes, futResults, results, published, tasks>>
  BY DEF EnqueueBulkNoop, EnqueueBulk
<1>2. futResults = <<>> /\ results = <<>> /\ tasks = {} /\ outbox = {}
  BY <1>1 DEF TypeInv, Shape, Untouched
<1>3. \A x \in DOMAIN immediateJobs :
         /\ Failure(immediateJobs[x]) \in AResult
         /\ Success(immediateJobs[x]) \in AResult
  BY SliceTypes, ResultType DEF AJob
<1>4. /\ DOMAIN immResults' = DOMAIN immediateJobs
      /\ \A x \in DOMAIN immResults' : immResults'[x] \in AResult \cup {None}
  <2> HIDE DEF AResult
  <2> QED BY <1>3 DEF EnqueueBulkNoop, EnqueueBulk, NoopResults, Refusals
<1>5. InFlight'
  <2>1. CASE EnqueueBulkNoop
    BY <1>2, <2>1 DEF EnqueueBulkNoop, InFlight
  <2>2. CASE EnqueueBulk
    <3>1. \A e \in outbox' : \E x \in DOMAIN immediateJobs :
             e = [idx |-> x, msg |-> Marshal(immediateJobs[x])]
      BY <2>2 DEF EnqueueBulk
    <3> QED BY <1>1, <3>1 DEF InFlight
  <2> QED BY <2>1, <2>2
<1>6. Untouched' /\ Written'
  BY <1>1, <1>2, <1>4 DEF Untouched, Written, Sliced
<1>7. /\ DOMAIN futResults' \subseteq DOMAIN futureJobs
      /\ \A x \in DOMAIN futResults' : futResults'[x] \in AResult \cup {None}
  BY <1>1, <1>2, Nothing
<1>8. results' = <<>>
  BY <1>1, <1>2
<1> QED BY <1>1, <1>4, <1>5, <1>6, <1>7, <1>8, ResultsType

\* A goroutine that waits for Pub/Sub gets its result.
LEMMA AnswerType ==
    ASSUME TypeInv, UNCHANGED deployment, PubSub \/ \E x \in DOMAIN immediateJobs : GetCancelled(x)
    PROVE  /\ TypeInv'
           /\ pc \in {"publishing", "scheduling", "replied", "dead"}
           /\ pc # "publishing" => immResults' = immResults
<1>1. /\ UNCHANGED <<producers, jobTypes, now, cancelled, pc, batch, i, jobs, reasons,
                     warnings, immediateJobs, immediateIndexes, futureJobs,
                     futureIndexes, futResults, results, tasks>>
      /\ outbox' \subseteq outbox
  BY DEF PubSub, PublishLands, PublishFails, GetCancelled
<1>2. pc \in {"publishing", "scheduling", "replied", "dead"}
  BY Late DEF PubSub, GetCancelled
<1>3. \/ immResults' = immResults
      \/ /\ pc = "publishing"
         /\ \E x \in DOMAIN immediateJobs, v \in AResult :
               immResults' = [immResults EXCEPT ![x] = v]
  <2>1. ASSUME NEW x \in DOMAIN immediateJobs
        PROVE  /\ Failure(immediateJobs[x]) \in AResult
               /\ Success(immediateJobs[x]) \in AResult
    BY SliceTypes, ResultType DEF AJob
  <2>2. ASSUME NEW e \in outbox, PublishLands(e) \/ PublishFails(e)
        PROVE  \/ immResults' = immResults
               \/ /\ pc = "publishing"
                  /\ \E x \in DOMAIN immediateJobs, v \in AResult :
                        immResults' = [immResults EXCEPT ![x] = v]
    <3>1. e.idx \in DOMAIN immediateJobs
      BY DEF TypeInv, Shape, InFlight
    <3>2. \/ immResults' = immResults
          \/ /\ pc = "publishing"
             /\ \E v \in {Success(immediateJobs[e.idx]), Failure(immediateJobs[e.idx])} :
                   immResults' = [immResults EXCEPT ![e.idx] = v]
      <4> HIDE DEF Success, Failure
      <4> QED BY <2>2 DEF PublishLands, PublishFails, Publishes
    <3> QED BY <2>1, <3>1, <3>2
  <2>3. ASSUME NEW x \in DOMAIN immediateJobs, GetCancelled(x)
        PROVE  /\ pc = "publishing"
               /\ \E v \in AResult : immResults' = [immResults EXCEPT ![x] = v]
    BY <2>1, <2>3 DEF GetCancelled
  <2> QED BY <2>2, <2>3 DEF PubSub
<1>4. /\ DOMAIN immResults' = DOMAIN immResults
      /\ \A x \in DOMAIN immResults' : immResults'[x] \in AResult \cup {None}
  <2>1. \A x \in DOMAIN immResults : immResults[x] \in AResult \cup {None}
    BY SliceTypes
  <2> QED BY <1>3, <2>1
<1>5. InFlight'
  BY <1>1 DEF TypeInv, Shape, InFlight
<1>6. Untouched'
  BY <1>1, <1>2 DEF TypeInv, Shape, Untouched
<1>7. Written'
  <2>1. Written
    BY DEF TypeInv, Shape
  <2>2. CASE pc = "publishing"
    BY <1>1, <1>4, <2>1, <2>2 DEF Written, Sliced
  <2>3. CASE immResults' = immResults
    <3>1. BuildResponse' = BuildResponse
      BY <1>1, <2>3, SameResponse
    <3> QED BY <1>1, <2>1, <2>3, <3>1 DEF Written, AllWritten
  <2> QED BY <1>3, <2>2, <2>3
<1>8. DOMAIN immResults \subseteq DOMAIN immediateJobs
  BY DEF TypeInv, TypeOK, Slice
<1>9. /\ DOMAIN futResults' \subseteq DOMAIN futureJobs
      /\ \A x \in DOMAIN futResults' : futResults'[x] \in AResult \cup {None}
  <2>1. DOMAIN futResults \subseteq DOMAIN futureJobs
    BY DEF TypeInv, TypeOK, Slice
  <2> QED BY <1>1, <2>1, SliceTypes
<1>10. results' = <<>> \/ results' \in [Positions -> BulkResult]
  BY <1>1 DEF TypeInv, TypeOK
<1>11. TypeInv'
  BY <1>1, <1>2, <1>4, <1>5, <1>6, <1>7, <1>8, <1>9, <1>10, ResultsType
<1> QED BY <1>2, <1>3, <1>11

\* The goroutines that schedule start, and Cloud Tasks answers them.
LEMMA ScheduleType ==
    ASSUME TypeInv, UNCHANGED deployment,
           \/ ScheduleBulkNoop \/ ScheduleBulk
           \/ \E x \in DOMAIN futureJobs :
                 CreateTaskOk(x) \/ CreateTaskUnheard(x) \/ CreateTaskFails(x)
    PROVE  TypeInv'
<1>1. /\ pc \in {"publishing", "scheduling"} /\ pc' = "scheduling"
      /\ pc = "publishing" => AllWritten(immResults)
      /\ UNCHANGED <<producers, jobTypes, now, cancelled, batch, i, jobs, reasons,
                     warnings, immediateJobs, immediateIndexes, futureJobs,
                     futureIndexes, immResults, results, outbox, published>>
  BY DEF ScheduleBulkNoop, ScheduleBulk, CreateTaskOk, CreateTaskUnheard,
     CreateTaskFails, Creating
<1>2. \A x \in DOMAIN futureJobs : Success(futureJobs[x]) \in AResult /\ NotScheduled \in AResult
  BY SliceTypes, ResultType DEF AJob
<1>3. Written
  BY DEF TypeInv, Shape
<1>4. /\ DOMAIN futResults' = DOMAIN futureJobs
      /\ \A x \in DOMAIN futResults' : futResults'[x] \in AResult \cup {None}
  <2> HIDE DEF AResult, Success, NotScheduled
  <2>1. CASE ScheduleBulkNoop \/ ScheduleBulk
    BY <1>2, <2>1 DEF ScheduleBulkNoop, ScheduleBulk
  <2>2. ASSUME NEW x \in DOMAIN futureJobs,
               CreateTaskOk(x) \/ CreateTaskUnheard(x) \/ CreateTaskFails(x)
        PROVE  /\ DOMAIN futResults' = DOMAIN futureJobs
               /\ \A y \in DOMAIN futResults' : futResults'[y] \in AResult \cup {None}
    <3>1. \E v \in AResult : futResults' = [futResults EXCEPT ![x] = v]
      BY <1>2, <2>2 DEF CreateTaskOk, CreateTaskUnheard, CreateTaskFails
    <3>2. DOMAIN futResults = DOMAIN futureJobs
      BY <1>3, <2>2 DEF Written, CreateTaskOk, CreateTaskUnheard, CreateTaskFails, Creating
    <3>3. \A y \in DOMAIN futResults : futResults[y] \in AResult \cup {None}
      BY SliceTypes
    <3> QED BY <3>1, <3>2, <3>3
  <2> QED BY <2>1, <2>2
<1>5. Untouched' /\ InFlight'
  BY <1>1 DEF TypeInv, Shape, Untouched, InFlight
<1>6. Written'
  BY <1>1, <1>3, <1>4 DEF Written, AllWritten, Sliced
<1>7. /\ DOMAIN immResults' \subseteq DOMAIN immediateJobs
      /\ \A x \in DOMAIN immResults' : immResults'[x] \in AResult \cup {None}
  BY <1>1, <1>3, SliceTypes DEF Written, Sliced
<1>8. results' = <<>>
  BY <1>1 DEF TypeInv, Shape, Untouched
<1> QED BY <1>1, <1>4, <1>5, <1>6, <1>7, <1>8, ResultsType

\* The response is made, or the instance crashes.
LEMMA EndType ==
    ASSUME TypeInv, UNCHANGED deployment, Respond \/ Die
    PROVE  TypeInv'
<1>0. Written /\ Untouched /\ InFlight
  BY DEF TypeInv, Shape
<1>1. /\ DOMAIN immResults \subseteq DOMAIN immediateJobs
      /\ \A x \in DOMAIN immResults : immResults[x] \in AResult \cup {None}
      /\ DOMAIN futResults \subseteq DOMAIN futureJobs
      /\ \A x \in DOMAIN futResults : futResults[x] \in AResult \cup {None}
  <2>1. /\ DOMAIN immResults \subseteq DOMAIN immediateJobs
        /\ DOMAIN futResults \subseteq DOMAIN futureJobs
    BY DEF TypeInv, TypeOK, Slice
  <2> QED BY <2>1, SliceTypes
<1>2. CASE Respond
  <2>1. /\ pc = "scheduling" /\ pc' = "replied" /\ AllWritten(futResults)
        /\ results' = BuildResponse
        /\ UNCHANGED <<producers, jobTypes, now, cancelled, batch, i, jobs, reasons,
                       warnings, immediateJobs, immediateIndexes, futureJobs,
                       futureIndexes, immResults, futResults, outbox, published, tasks>>
    BY <1>2 DEF Respond
  <2>2. BuildResponse' = BuildResponse
    BY <2>1, SameResponse
  <2>3. BuildResponse \in [Positions -> BulkResult]
    <3>1. ASSUME NEW p \in Positions
          PROVE  FillIn(FillIn(Empty(p), p, immediateIndexes, immResults),
                        p, futureIndexes, futResults) \in BulkResult
      <4>1. Empty(p) \in BulkResult
        <5>1. p \in Nat
          BY BatchType DEF TypeInv, TypeOK
        <5>2. /\ reasons[p] \in {"", "validation_error", "payload_too_large"}
              /\ warnings[p] \in SUBSET {"producer", "jobType"}
          BY DEF TypeInv, Shape
        <5> QED BY <5>1, <5>2 DEF Empty, BulkResult
      <4>2. AllWritten(immResults)
        BY <1>0, <2>1 DEF Written
      <4> QED BY <1>1, <2>1, <4>1, <4>2, FillInType
    <3> QED BY <3>1 DEF BuildResponse
  <2>4. Untouched' /\ InFlight'
    BY <1>0, <2>1 DEF Untouched, InFlight
  <2>5. Written'
    BY <1>0, <2>1, <2>2 DEF Written, AllWritten, Sliced
  <2> QED BY <1>1, <2>1, <2>3, <2>4, <2>5, ResultsType
<1>3. CASE Die
  <2>1. /\ pc \notin {"idle", "rejected", "replied", "dead"} /\ pc' = "dead"
        /\ UNCHANGED <<producers, jobTypes, now, cancelled, batch, i, jobs, reasons,
                       warnings, immediateJobs, immediateIndexes, futureJobs,
                       futureIndexes, immResults, futResults, results, outbox, published>>
    BY <1>3 DEF Die
  <2>2. results' = <<>>
    BY <1>0, <2>1 DEF Untouched
  <2>3. Untouched' /\ InFlight' /\ Written'
    BY <1>0, <2>1, <2>2 DEF Untouched, InFlight, Written, Sliced
  <2> QED BY <1>1, <2>1, <2>2, <2>3, ResultsType
<1> QED BY <1>2, <1>3

\* The configuration never changes.
LEMMA FixedParts == [Next]_vars => UNCHANGED deployment
BY DEF Next, vars

\* Every step keeps the types.
LEMMA NextTypeInv == TypeInv /\ [Next]_vars => TypeInv'
BY FixedParts, EnvType, BeginType, PrepareType, PartitionType, SendType, AnswerType,
   ScheduleType, EndType DEF Next, Handler

\* Every variable of an EnqueueBulk call keeps its type, the results of both
\* slices and the response included.
THEOREM BulkTypeCorrect == Spec => []TypeOK
<1>1. Spec => []TypeInv
  BY InitTypeInv, NextTypeInv, PTL DEF Spec
<1>2. TypeInv => TypeOK
  BY DEF TypeInv
<1> QED
  BY <1>1, <1>2, PTL

-----------------------------------------------------------------------------
(* The pass over the requests. *)

\* What the steps after the two passes leave alone.
LEMMA Stages ==
    ASSUME TypeInv, [Next]_vars
    PROVE  \/ \E b \in Batches : Begin(b)
           \/ SkipInvalid \/ CheckProducer \/ (\E id \in JobIds : Prepare(id)) \/ Prepared
           \/ Partition
           \/ /\ UNCHANGED <<batch, i, jobs, reasons, warnings, immediateJobs,
                             immediateIndexes, futureJobs, futureIndexes>>
              /\ \/ pc' = pc \/ pc' \in {"rejected", "dead"}
                 \/ pc = "partition" /\ i \notin Positions /\ pc' = "publishing"
                 \/ pc \in Sliced /\ pc' \in Sliced
<1> DEFINE Later == /\ UNCHANGED <<batch, i, jobs, reasons, warnings, immediateJobs,
                                   immediateIndexes, futureJobs, futureIndexes>>
                    /\ \/ pc' = pc \/ pc' \in {"rejected", "dead"}
                       \/ pc = "partition" /\ i \notin Positions /\ pc' = "publishing"
                       \/ pc \in Sliced /\ pc' \in Sliced
<1>1. CASE Tick \/ Admin \/ Cancel \/ UNCHANGED vars
  BY <1>1, EnvFrame
<1>2. CASE RejectBatch \/ Die
  BY <1>2 DEF RejectBatch, Die
<1>3. CASE EnqueueBulkNoop \/ EnqueueBulk
  BY <1>3 DEF EnqueueBulkNoop, EnqueueBulk
<1>4. CASE PubSub \/ \E x \in DOMAIN immediateJobs : GetCancelled(x)
  BY <1>4 DEF PubSub, PublishLands, PublishFails, GetCancelled
<1>5. CASE \/ ScheduleBulkNoop \/ ScheduleBulk \/ Respond
           \/ \E x \in DOMAIN futureJobs :
                 CreateTaskOk(x) \/ CreateTaskUnheard(x) \/ CreateTaskFails(x)
  BY <1>5 DEF ScheduleBulkNoop, ScheduleBulk, Respond, CreateTaskOk, CreateTaskUnheard,
     CreateTaskFails, Creating, Sliced
<1> QED BY <1>1, <1>2, <1>3, <1>4, <1>5 DEF Next, Handler

\* Initially there is no position.
LEMMA InitPrep == Init => PrepInv
BY Nothing DEF Init, PrepInv, Positions

\* Every step keeps the judgements.
LEMMA NextPrep == TypeInv /\ PrepInv /\ [Next]_vars => PrepInv'
<1> SUFFICES ASSUME TypeInv, PrepInv, [Next]_vars PROVE PrepInv'
  OBVIOUS
<1>0. /\ Len(batch) \in Nat /\ i \in 1 .. Len(batch) + 1
      /\ \A p \in Positions : p \in Nat /\ p <= Len(batch) /\ batch[p] \in Request
      /\ pc = "route" => i \in Positions
  <2>1. i \in 1 .. Len(batch) + 1 /\ batch \in Batches \cup {<<>>}
    BY DEF TypeInv, TypeOK
  <2>2. pc = "route" => i \in Positions
    BY DEF TypeInv, Shape
  <2>3. Len(batch) \in Nat /\ \A p \in Positions : p \in Nat /\ batch[p] \in Request
    BY <2>1, BatchType
  <2>4. \A p \in Positions : p <= Len(batch)
    BY <2>3 DEF Positions
  <2> QED BY <2>1, <2>2, <2>3, <2>4
<1>1. ASSUME NEW b \in Batches, Begin(b) PROVE PrepInv'
  <2>1. /\ pc = "idle" /\ pc' = "validate" /\ i' = i
        /\ jobs' = [x \in 1 .. Len(b) |-> None]
        /\ reasons' = [x \in 1 .. Len(b) |-> ""]
        /\ Positions' = 1 .. Len(b)
    BY <1>1 DEF Begin, Positions
  <2>2. Len(b) \in Nat
    BY BulkAssumption DEF BulkAssumption
  <2>4. i = 1 /\ i' = 1
    BY <2>1 DEF TypeInv, Shape, Untouched
  <2>3. ASSUME NEW p \in 1 .. Len(b) PROVE jobs'[p] = None /\ reasons'[p] = "" /\ ~(p < i')
    <3>1. jobs'[p] = None /\ reasons'[p] = ""
      BY <2>1
    <3>2. ~(p < i')
      BY <2>2, <2>4
    <3> QED BY <3>1, <3>2
  <2> HIDE DEF ValidRequest
  <2> QED BY <2>1, <2>3 DEF PrepInv, Judged, Ready
<1>2. ASSUME SkipInvalid PROVE PrepInv'
  <2>1. /\ pc = "validate" /\ pc' = pc /\ i \in Positions /\ i' = i + 1
        /\ ~ValidRequest(batch[i]) /\ batch' = batch /\ jobs' = jobs
        /\ Positions' = Positions
    BY <1>2 DEF SkipInvalid, Positions
  <2>2. /\ reasons'[i] # ""
        /\ \A p \in Positions : p # i => reasons'[p] = reasons[p]
    BY <1>2, <2>1 DEF SkipInvalid, InvalidReason, TypeInv, Shape
  <2>3. ASSUME NEW p \in Positions
        PROVE  (p < i + 1 <=> p < i \/ p = i) /\ (p >= i + 1 => p >= i)
    BY <1>0
  <2> HIDE DEF ValidRequest
  <2> QED BY <2>1, <2>2, <2>3 DEF PrepInv, Judged, Preparing, Ready
<1>3. ASSUME CheckProducer PROVE PrepInv'
  <2>1. /\ pc = "validate" /\ pc' = "route" /\ ValidRequest(batch[i])
        /\ UNCHANGED <<batch, i, jobs, reasons>> /\ Positions' = Positions
    BY <1>3 DEF CheckProducer, Positions
  <2> HIDE DEF ValidRequest
  <2> QED BY <2>1 DEF PrepInv, Judged, Preparing, Ready
<1>4. ASSUME NEW id \in JobIds, Prepare(id) PROVE PrepInv'
  <2> DEFINE j == NewJob(i, batch[i], id, routingConfig(batch[i]), now)
  <2>1. /\ pc = "route" /\ pc' = "validate" /\ i \in Positions /\ i' = i + 1
        /\ batch' = batch /\ reasons' = reasons /\ jobs' = [jobs EXCEPT ![i] = j]
        /\ Positions' = Positions
    BY <1>4 DEF Prepare, Positions, TypeInv, Shape
  <2>2. j # None /\ j.call = i /\ j.runAt >= batch[i].runAt
    BY <1>0, <2>1, NewJobIsJob DEF TypeInv, TypeOK
  <2> HIDE DEF j
  <2>3. jobs'[i] = j /\ \A p \in Positions : p # i => jobs'[p] = jobs[p]
    BY <2>1 DEF TypeInv, TypeOK
  <2>4. ASSUME NEW p \in Positions
        PROVE  /\ p < i + 1 <=> p < i \/ p = i
               /\ p >= i + 1 => p >= i /\ p # i
    BY <1>0
  <2>5. ValidRequest(batch[i]) /\ (reasons[i] # "" => ~ValidRequest(batch[i]))
    BY <2>1 DEF PrepInv
  <2> HIDE DEF ValidRequest
  <2>6. ASSUME NEW p \in Positions, p # i
        PROVE  /\ jobs'[p] # None => /\ ValidRequest(batch[p])
                                     /\ jobs'[p].call = p
                                     /\ jobs'[p].runAt >= batch[p].runAt
               /\ reasons[p] # "" => ~ValidRequest(batch[p])
               /\ p >= i + 1 => jobs'[p] = None
               /\ p < i + 1 => IF ValidRequest(batch[p]) THEN jobs'[p] # None
                                                        ELSE reasons[p] # ""
    BY <2>1, <2>3, <2>4, <2>6 DEF PrepInv, Judged, Preparing
  <2>7. ~(i >= i + 1)
    BY <1>0
  <2>8. ASSUME NEW p \in Positions'
        PROVE  /\ jobs'[p] # None => /\ ValidRequest(batch'[p])
                                     /\ jobs'[p].call = p
                                     /\ jobs'[p].runAt >= batch'[p].runAt
               /\ reasons'[p] # "" => ~ValidRequest(batch'[p])
               /\ pc' \in Preparing /\ p >= i' => jobs'[p] = None
               /\ p < i' => IF ValidRequest(batch'[p]) THEN jobs'[p] # None
                                                      ELSE reasons'[p] # ""
    <3>1. CASE p = i
      BY <2>1, <2>2, <2>3, <2>5, <2>7, <3>1
    <3>2. CASE p # i
      BY <2>1, <2>6, <3>2
    <3> QED BY <3>1, <3>2
  <2> QED BY <2>1, <2>8 DEF PrepInv, Judged, Ready
<1>5. ASSUME Prepared PROVE PrepInv'
  <2>1. /\ pc = "validate" /\ pc' = "partition" /\ i \notin Positions
        /\ UNCHANGED <<batch, jobs, reasons>> /\ Positions' = Positions
    BY <1>5 DEF Prepared, Positions
  <2>2. \A p \in Positions : p < i
    BY <1>0, <2>1 DEF Positions
  <2> HIDE DEF ValidRequest
  <2> QED BY <2>1, <2>2 DEF PrepInv, Judged, Preparing, Ready
<1>6. ASSUME Partition PROVE PrepInv'
  <2>1. /\ pc = "partition" /\ pc' = "partition"
        /\ UNCHANGED <<batch, jobs, reasons>> /\ Positions' = Positions
    BY <1>6 DEF Partition, Positions
  <2> HIDE DEF ValidRequest
  <2> QED BY <2>1 DEF PrepInv, Judged, Preparing, Ready
<1>7. ASSUME UNCHANGED <<batch, i, jobs, reasons>>,
             \/ pc' = pc \/ pc' \in {"rejected", "dead"}
             \/ pc = "partition" /\ i \notin Positions /\ pc' = "publishing"
             \/ pc \in Sliced /\ pc' \in Sliced
      PROVE  PrepInv'
  <2>1. Positions' = Positions
    BY <1>7 DEF Positions
  <2> HIDE DEF ValidRequest
  <2> QED BY <1>7, <2>1 DEF PrepInv, Judged, Preparing, Ready, Sliced
<1> QED BY <1>1, <1>2, <1>3, <1>4, <1>5, <1>6, <1>7, Stages

-----------------------------------------------------------------------------
(* Routing stays right, for every position. *)

\* Only administrators change the registry, and they only add to it.
LEMMA RegistryStays ==
    ASSUME [Next]_vars
    PROVE  /\ producers \subseteq producers'
           /\ DOMAIN jobTypes \subseteq DOMAIN jobTypes'
           /\ \A k \in DOMAIN jobTypes : jobTypes'[k] = jobTypes[k]
           /\ Retried => Retried'
<1>1. StoreNext \/ (producers' = producers /\ jobTypes' = jobTypes)
  <2>1. CASE Tick \/ Admin \/ Cancel \/ UNCHANGED vars
    BY <2>1, EnvFrame
  <2>2. CASE RejectBatch \/ (\E b \in Batches : Begin(b)) \/ Handler \/ PubSub \/ Die
    BY <2>2 DEF RejectBatch, Begin, Handler, PubSub, Die, SkipInvalid, CheckProducer,
       Prepare, Prepared, Partition, EnqueueBulkNoop, EnqueueBulk, GetCancelled,
       ScheduleBulkNoop, ScheduleBulk, CreateTaskOk, CreateTaskUnheard,
       CreateTaskFails, Respond, PublishLands, PublishFails
  <2> QED BY <2>1, <2>2 DEF Next
<1> QED BY <1>1, RegistryGrows, RetriedStep DEF Retried

\* Initially nothing is registered and nothing is routed.
LEMMA InitRoute == Init => RouteInv
BY Nothing DEF Init, RouteInv, Retried, StoreInit, EmptyMap, Positions

\* Every step keeps the decisions right.
LEMMA NextRoute == TypeInv /\ PrepInv /\ RouteInv /\ [Next]_vars => RouteInv'
<1> SUFFICES ASSUME TypeInv, PrepInv, RouteInv, [Next]_vars PROVE RouteInv'
  OBVIOUS
<1>0. Retried' /\ producers \subseteq producers'
  BY RegistryStays DEF RouteInv
<1>1. ASSUME NEW p \in Positions, jobs[p] # None
      PROVE  Sound(producers', jobTypes', batch[p], jobs[p], warnings[p])
  <2>1. Sound(producers, jobTypes, batch[p], jobs[p], warnings[p])
    BY <1>1 DEF RouteInv
  <2> QED BY <2>1, RegistryStays, SoundStays
<1>2. ASSUME UNCHANGED <<batch, jobs, warnings>>,
             pc' # "route" \/ (pc' = pc /\ i' = i)
      PROVE  RouteInv'
  <2>1. Positions' = Positions
    BY <1>2 DEF Positions
  <2> QED BY <1>0, <1>1, <1>2, <2>1 DEF RouteInv
<1>3. ASSUME NEW b \in Batches, Begin(b) PROVE RouteInv'
  <2>1. pc' = "validate" /\ \A p \in Positions' : jobs'[p] = None
    BY <1>3 DEF Begin, Positions
  <2> QED BY <1>0, <2>1 DEF RouteInv
<1>4. CASE SkipInvalid \/ Prepared \/ Partition
  BY <1>2, <1>4 DEF SkipInvalid, Prepared, Partition
<1>5. ASSUME CheckProducer PROVE RouteInv'
  <2>1. /\ pc = "validate" /\ i \in Positions
        /\ warnings' = [warnings EXCEPT ![i] =
                          IF batch[i].producer \in producers THEN {} ELSE {"producer"}]
        /\ UNCHANGED <<batch, i, jobs>> /\ Positions' = Positions
    BY <1>5 DEF CheckProducer, GetProducer, Positions
  <2>2. jobs[i] = None
    <3>1. i >= i
      BY DEF TypeInv, TypeOK
    <3> QED BY <2>1, <3>1 DEF PrepInv, Preparing
  <2>3. /\ warnings'[i] = IF batch[i].producer \in producers THEN {} ELSE {"producer"}
        /\ \A p \in Positions : p # i => warnings'[p] = warnings[p]
    BY <2>1 DEF TypeInv, Shape
  <2> QED BY <1>0, <1>1, <2>1, <2>2, <2>3 DEF RouteInv
<1>6. ASSUME NEW id \in JobIds, Prepare(id) PROVE RouteInv'
  <2> DEFINE r == batch[i]
             config == routingConfig(r)
             j == NewJob(i, r, id, config, now)
  <2>1. /\ pc = "route" /\ pc' = "validate" /\ i \in Positions
        /\ warnings' = [warnings EXCEPT ![i] = warnings[i] \cup config.warnings]
        /\ jobs' = [jobs EXCEPT ![i] = j]
        /\ batch' = batch /\ producers' = producers /\ jobTypes' = jobTypes
        /\ Positions' = Positions
    BY <1>6 DEF Prepare, Positions, TypeInv, Shape
  <2>2. Sound(producers, jobTypes, r, j, warnings[i] \cup config.warnings)
    BY <2>1, SoundNew DEF RouteInv
  <2> HIDE DEF j, config
  <2>3. /\ jobs'[i] = j /\ warnings'[i] = warnings[i] \cup config.warnings
        /\ \A p \in Positions : p # i => jobs'[p] = jobs[p] /\ warnings'[p] = warnings[p]
    BY <2>1 DEF TypeInv, TypeOK, Shape
  <2> QED BY <1>0, <1>1, <2>1, <2>2, <2>3 DEF RouteInv
<1>7. ASSUME UNCHANGED <<batch, i, jobs, reasons, warnings, immediateJobs,
                         immediateIndexes, futureJobs, futureIndexes>>,
             \/ pc' = pc \/ pc' \in {"rejected", "dead"}
             \/ pc = "partition" /\ i \notin Positions /\ pc' = "publishing"
             \/ pc \in Sliced /\ pc' \in Sliced
      PROVE  RouteInv'
  BY <1>2, <1>7 DEF Sliced
<1> QED BY <1>3, <1>4, <1>5, <1>6, <1>7, Stages

\* Where each job of a batch was routed agrees with the registry, then and ever
\* after, for batches of any length.
THEOREM BulkRoutingStaysSound == Spec => []BulkRoutingSound
<1>1. TypeInv /\ RouteInv => BulkRoutingSound
  <2> SUFFICES ASSUME TypeInv, RouteInv, NEW p \in DOMAIN jobs, jobs[p] # None
               PROVE  RoutedSoundly(batch[p], jobs[p], warnings[p])
    BY DEF BulkRoutingSound
  <2>1. p \in Positions
    BY DEF TypeInv, TypeOK
  <2> QED BY <2>1, SoundIs DEF RouteInv
<1> QED
  BY <1>1, InitTypeInv, NextTypeInv, InitPrep, NextPrep, InitRoute, NextRoute, PTL
  DEF Spec

-----------------------------------------------------------------------------
(* The pass that splits the jobs. *)

\* Initially both slices are empty.
LEMMA InitSplit == Init => SplitInv /\ DueInv
BY Nothing DEF Init, SplitInv, DueInv, SliceInv, In, Positions

\* The slice js2, ixs2 is one with indexes ixs and the job at hand.
Grown(js2, ixs2, ixs) ==
    /\ \A x \in DOMAIN ixs2 : js2[x] = jobs[ixs2[x]] /\ js2[x] # None
    /\ \A x, y \in DOMAIN ixs2 : ixs2[x] = ixs2[y] => x = y
    /\ \A x \in DOMAIN ixs2 : ixs2[x] < i + 1
    /\ \A p : In(ixs2, p) <=> In(ixs, p) \/ p = i
    /\ \A x \in DOMAIN ixs2 : ixs2[x] = i \/ (x \in DOMAIN ixs /\ ixs2[x] = ixs[x])

\* A slice that gets the job at hand.
LEMMA SliceGrows ==
    ASSUME TypeInv, pc = "partition", i \in Positions, jobs[i] # None,
           NEW js \in Seq(AJob), NEW ixs \in Seq(Positions), Len(ixs) = Len(js),
           SliceInv(js, ixs)
    PROVE  Grown(Append(js, jobs[i]), Append(ixs, i), ixs)
<1> DEFINE js2 == Append(js, jobs[i])
           ixs2 == Append(ixs, i)
           n == Len(ixs) + 1
<1> SUFFICES Grown(js2, ixs2, ixs)
  OBVIOUS
<1>1. i \in Nat /\ \A p \in Positions : p \in Nat
  BY BatchType DEF TypeInv, TypeOK
<1>2. jobs[i] \in AJob
  BY DEF TypeInv, TypeOK, AJob
<1>3. /\ DOMAIN js = DOMAIN ixs
      /\ \A x \in DOMAIN ixs : ixs[x] \in Positions /\ js[x] = jobs[ixs[x]] /\ js[x] # None
      /\ \A x, y \in DOMAIN ixs : ixs[x] = ixs[y] => x = y
      /\ \A x \in DOMAIN ixs : ixs[x] < i
  BY DEF SliceInv
<1>4. /\ DOMAIN ixs2 = DOMAIN ixs \cup {n}
      /\ \A x \in DOMAIN ixs : x # n /\ ixs2[x] = ixs[x]
      /\ ixs2[n] = i
  BY AppendFacts
<1>5. /\ \A x \in DOMAIN js : js2[x] = js[x]
      /\ js2[n] = jobs[i]
  BY <1>2, AppendFacts
<1> HIDE DEF n, js2, ixs2
<1>6. \A x \in DOMAIN ixs2 : js2[x] = jobs[ixs2[x]] /\ js2[x] # None
  BY <1>3, <1>4, <1>5
<1>7. ASSUME NEW x \in DOMAIN ixs PROVE ixs[x] # i /\ ixs[x] < i + 1
  <2>1. ixs[x] \in Nat /\ ixs[x] < i
    BY <1>1, <1>3
  <2> QED BY <1>1, <2>1
<1>8. \A x, y \in DOMAIN ixs2 : ixs2[x] = ixs2[y] => x = y
  BY <1>3, <1>4, <1>7
<1>9. \A x \in DOMAIN ixs2 : ixs2[x] < i + 1
  <2>1. i < i + 1
    BY <1>1
  <2> QED BY <1>4, <1>7, <2>1
<1>10. \A p : In(ixs2, p) <=> In(ixs, p) \/ p = i
  BY <1>4 DEF In
<1>11. \A x \in DOMAIN ixs2 : ixs2[x] = i \/ (x \in DOMAIN ixs /\ ixs2[x] = ixs[x])
  BY <1>4
<1> QED BY <1>6, <1>8, <1>9, <1>10, <1>11 DEF Grown

\* Every step keeps the jobs in their slices.
LEMMA NextSplit == TypeInv /\ SplitInv /\ [Next]_vars => SplitInv'
<1> SUFFICES ASSUME TypeInv, SplitInv, [Next]_vars PROVE SplitInv'
  OBVIOUS
<1>0. /\ Len(batch) \in Nat /\ i \in 1 .. Len(batch) + 1
      /\ \A p \in Positions : p \in Nat
  BY BatchType DEF TypeInv, TypeOK
<1>1. ASSUME immediateIndexes' = <<>>, futureIndexes' = <<>>,
             pc' = "validate" \/ pc' = "route" \/ (pc' = "partition" /\ i' = 1),
             \A p \in Positions' : p >= 1
      PROVE  SplitInv'
  <2>1. ASSUME NEW p \in Positions' PROVE ~Placed(p)'
    <3>1. p \in Nat /\ p >= 1
      BY <1>1, BatchType, NextTypeInv DEF Positions, TypeInv, TypeOK
    <3> QED BY <1>1, <3>1 DEF Placed, Sliced
  <2> QED BY <1>1, <2>1, Nothing DEF SplitInv, SliceInv, In
<1>2. \A p \in Positions' : p >= 1
  BY NextTypeInv DEF Positions, TypeInv, TypeOK
<1>3. ASSUME NEW b \in Batches, Begin(b) PROVE SplitInv'
  <2>1. /\ immediateIndexes' = <<>> /\ futureIndexes' = <<>> /\ pc' = "validate"
    BY <1>3 DEF Begin, TypeInv, Shape, Untouched
  <2> QED BY <1>1, <1>2, <2>1
<1>4. ASSUME SkipInvalid \/ CheckProducer \/ (\E id \in JobIds : Prepare(id)) \/ Prepared
      PROVE  SplitInv'
  <2>1. /\ immediateIndexes' = <<>> /\ futureIndexes' = <<>>
        /\ pc' = "validate" \/ pc' = "route" \/ (pc' = "partition" /\ i' = 1)
    BY <1>4 DEF SkipInvalid, CheckProducer, Prepare, Prepared, TypeInv, Shape, Untouched
  <2> QED BY <1>1, <1>2, <2>1
<1>5. ASSUME Partition PROVE SplitInv'
  <2>1. /\ pc = "partition" /\ i \in Positions /\ i' = i + 1
        /\ pc' = pc /\ jobs' = jobs /\ Positions' = Positions
    BY <1>5 DEF Partition, Positions
  <2>2. /\ SliceInv(immediateJobs, immediateIndexes)
        /\ SliceInv(futureJobs, futureIndexes)
    BY DEF SplitInv
  <2>3. ASSUME NEW p \in Positions PROVE p < i + 1 <=> p < i \/ p = i
    BY <1>0, <2>1
  <2>4. ASSUME NEW js, NEW ixs \in Seq(Positions), SliceInv(js, ixs)
        PROVE  \A x \in DOMAIN ixs : ixs[x] < i + 1 /\ ixs[x] # i
    <3> SUFFICES ASSUME NEW x \in DOMAIN ixs PROVE ixs[x] < i + 1 /\ ixs[x] # i
      OBVIOUS
    <3>1. ixs[x] < i /\ ixs[x] \in Positions
      BY <2>1, <2>4 DEF SliceInv
    <3>2. ixs[x] \in Nat /\ i \in Nat
      BY <1>0, <2>1, <3>1
    <3> QED BY <3>1, <3>2
  <2>5. ~In(immediateIndexes, i) /\ ~In(futureIndexes, i)
    BY <2>2, <2>4, SliceTypes DEF In
  <2>6. CASE jobs[i] = None /\ UNCHANGED split
    <3>1. SliceInv(immediateJobs, immediateIndexes)' /\ SliceInv(futureJobs, futureIndexes)'
      BY <2>1, <2>2, <2>4, <2>6, SliceTypes DEF SliceInv
    <3> QED BY <2>1, <2>3, <2>6, <3>1 DEF SplitInv, Placed, Sliced, In
  <2>7. CASE /\ jobs[i] # None
             /\ futureJobs' = Append(futureJobs, jobs[i])
             /\ futureIndexes' = Append(futureIndexes, i)
             /\ UNCHANGED <<immediateJobs, immediateIndexes>>
    <3>1. /\ \A x \in DOMAIN futureIndexes' :
                futureJobs'[x] = jobs[futureIndexes'[x]] /\ futureJobs'[x] # None
          /\ \A x, y \in DOMAIN futureIndexes' :
                futureIndexes'[x] = futureIndexes'[y] => x = y
          /\ \A x \in DOMAIN futureIndexes' : futureIndexes'[x] < i + 1
          /\ \A p : In(futureIndexes', p) <=> In(futureIndexes, p) \/ p = i
      <4>1. /\ futureJobs \in Seq(AJob) /\ futureIndexes \in Seq(Positions)
            /\ Len(futureIndexes) = Len(futureJobs)
        BY SliceTypes
      <4>2. /\ futureJobs' = Append(futureJobs, jobs[i])
            /\ futureIndexes' = Append(futureIndexes, i)
            /\ jobs[i] # None
        BY <2>7
      <4>3. Grown(futureJobs', futureIndexes', futureIndexes)
        BY <2>1, <2>2, <4>1, <4>2, SliceGrows
      <4> QED BY <4>3 DEF Grown
    <3>2. SliceInv(futureJobs, futureIndexes)'
      BY <2>1, <3>1 DEF SliceInv
    <3>3. SliceInv(immediateJobs, immediateIndexes)'
      <4>1. \A x \in DOMAIN immediateIndexes : immediateIndexes[x] < i + 1
        BY <2>2, <2>4, SliceTypes
      <4> QED BY <2>1, <2>2, <2>7, <4>1 DEF SliceInv
    <3>4. \A p : In(immediateIndexes', p) <=> In(immediateIndexes, p)
      BY <2>7 DEF In
    <3>5. \A p \in Positions : ~(In(immediateIndexes', p) /\ In(futureIndexes', p))
      BY <2>5, <3>1, <3>4 DEF SplitInv
    <3>6. ASSUME NEW p \in Positions, jobs[p] # None, p < i + 1
          PROVE  In(immediateIndexes', p) \/ In(futureIndexes', p)
      BY <2>1, <2>3, <3>1, <3>4, <3>6 DEF SplitInv, Placed
    <3>7. \A p \in Positions : In(immediateIndexes, p)' = In(immediateIndexes', p)
                               /\ In(futureIndexes, p)' = In(futureIndexes', p)
      BY DEF In
    <3> QED BY <2>1, <3>2, <3>3, <3>5, <3>6, <3>7 DEF SplitInv, Placed, Sliced
  <2>8. CASE /\ jobs[i] # None
             /\ immediateJobs' = Append(immediateJobs, jobs[i])
             /\ immediateIndexes' = Append(immediateIndexes, i)
             /\ UNCHANGED <<futureJobs, futureIndexes>>
    <3>1. /\ \A x \in DOMAIN immediateIndexes' :
                immediateJobs'[x] = jobs[immediateIndexes'[x]] /\ immediateJobs'[x] # None
          /\ \A x, y \in DOMAIN immediateIndexes' :
                immediateIndexes'[x] = immediateIndexes'[y] => x = y
          /\ \A x \in DOMAIN immediateIndexes' : immediateIndexes'[x] < i + 1
          /\ \A p : In(immediateIndexes', p) <=> In(immediateIndexes, p) \/ p = i
      <4>1. /\ immediateJobs \in Seq(AJob) /\ immediateIndexes \in Seq(Positions)
            /\ Len(immediateIndexes) = Len(immediateJobs)
        BY SliceTypes
      <4>2. /\ immediateJobs' = Append(immediateJobs, jobs[i])
            /\ immediateIndexes' = Append(immediateIndexes, i)
            /\ jobs[i] # None
        BY <2>8
      <4>3. Grown(immediateJobs', immediateIndexes', immediateIndexes)
        BY <2>1, <2>2, <4>1, <4>2, SliceGrows
      <4> QED BY <4>3 DEF Grown
    <3>2. SliceInv(immediateJobs, immediateIndexes)'
      BY <2>1, <3>1 DEF SliceInv
    <3>3. SliceInv(futureJobs, futureIndexes)'
      <4>1. \A x \in DOMAIN futureIndexes : futureIndexes[x] < i + 1
        BY <2>2, <2>4, SliceTypes
      <4> QED BY <2>1, <2>2, <2>8, <4>1 DEF SliceInv
    <3>4. \A p : In(futureIndexes', p) <=> In(futureIndexes, p)
      BY <2>8 DEF In
    <3>5. \A p \in Positions : ~(In(immediateIndexes', p) /\ In(futureIndexes', p))
      BY <2>5, <3>1, <3>4 DEF SplitInv
    <3>6. ASSUME NEW p \in Positions, jobs[p] # None, p < i + 1
          PROVE  In(immediateIndexes', p) \/ In(futureIndexes', p)
      BY <2>1, <2>3, <3>1, <3>4, <3>6 DEF SplitInv, Placed
    <3>7. \A p \in Positions : In(immediateIndexes, p)' = In(immediateIndexes', p)
                               /\ In(futureIndexes, p)' = In(futureIndexes', p)
      BY DEF In
    <3> QED BY <2>1, <3>2, <3>3, <3>5, <3>6, <3>7 DEF SplitInv, Placed, Sliced
  <2> QED BY <1>5, <2>6, <2>7, <2>8 DEF Partition
<1>6. ASSUME UNCHANGED <<batch, i, jobs, reasons, warnings, immediateJobs,
                         immediateIndexes, futureJobs, futureIndexes>>,
             \/ pc' = pc \/ pc' \in {"rejected", "dead"}
             \/ pc = "partition" /\ i \notin Positions /\ pc' = "publishing"
             \/ pc \in Sliced /\ pc' \in Sliced
      PROVE  SplitInv'
  <2>1. Positions' = Positions
    BY <1>6 DEF Positions
  <2>2. \A p \in Positions : Placed(p)' => Placed(p)
    <3>1. i \notin Positions => \A p \in Positions : p < i
      BY <1>0 DEF Positions
    <3> QED BY <1>6, <3>1 DEF Placed, Sliced
  <2>3. SliceInv(immediateJobs, immediateIndexes)' /\ SliceInv(futureJobs, futureIndexes)'
    BY <1>6 DEF SplitInv, SliceInv, Sliced
  <2> QED BY <1>6, <2>1, <2>2, <2>3 DEF SplitInv, In
<1> QED BY <1>3, <1>4, <1>5, <1>6, Stages

-----------------------------------------------------------------------------
(* Nothing of a batch is published early. *)

\* An element's job is that of its position, in both wire formats.
LEMMA ElementCall ==
    ASSUME TypeInv, PrepInv, SplitInv
    PROVE  /\ \A x \in DOMAIN immediateJobs :
                 LET p == immediateIndexes[x]
                 IN  /\ p \in Positions /\ jobs[p] # None /\ immediateJobs[x] = jobs[p]
                     /\ Marshal(immediateJobs[x]).call = p
           /\ \A x \in DOMAIN futureJobs :
                 LET p == futureIndexes[x]
                 IN  /\ p \in Positions /\ jobs[p] # None /\ futureJobs[x] = jobs[p]
                     /\ marshalJob(futureJobs[x]).call = p
<1>1. ASSUME NEW x \in DOMAIN immediateJobs
      PROVE  LET p == immediateIndexes[x]
             IN  /\ p \in Positions /\ jobs[p] # None /\ immediateJobs[x] = jobs[p]
                 /\ Marshal(immediateJobs[x]).call = p
  <2>1. x \in DOMAIN immediateIndexes /\ immediateIndexes[x] \in Positions
    BY SliceTypes
  <2>2. /\ immediateJobs[x] = jobs[immediateIndexes[x]]
        /\ jobs[immediateIndexes[x]] # None
    BY <2>1 DEF SplitInv, SliceInv
  <2>3. immediateJobs[x].call = immediateIndexes[x]
    BY <2>1, <2>2 DEF PrepInv
  <2> QED BY <2>1, <2>2, <2>3 DEF Marshal
<1>2. ASSUME NEW x \in DOMAIN futureJobs
      PROVE  LET p == futureIndexes[x]
             IN  /\ p \in Positions /\ jobs[p] # None /\ futureJobs[x] = jobs[p]
                 /\ marshalJob(futureJobs[x]).call = p
  <2>1. x \in DOMAIN futureIndexes /\ futureIndexes[x] \in Positions
    BY SliceTypes
  <2>2. /\ futureJobs[x] = jobs[futureIndexes[x]]
        /\ jobs[futureIndexes[x]] # None
    BY <2>1 DEF SplitInv, SliceInv
  <2>3. futureJobs[x].call = futureIndexes[x]
    BY <2>1, <2>2 DEF PrepInv
  <2> QED BY <2>1, <2>2, <2>3 DEF marshalJob
<1> QED BY <1>1, <1>2

\* The clock does not go back.
LEMMA TimeStays ==
    ASSUME TypeInv, [Next]_vars
    PROVE  now \in Nat /\ now' \in Nat /\ now' >= now
<1>1. now \in Nat
  BY DEF TypeInv, TypeOK
<1>2. CASE Tick \/ Admin \/ Cancel \/ UNCHANGED vars
  BY <1>1, <1>2, EnvFrame
<1>3. CASE now' = now
  BY <1>1, <1>3
<1>4. CASE RejectBatch \/ (\E b \in Batches : Begin(b)) \/ Handler \/ PubSub \/ Die
  BY <1>3, <1>4 DEF RejectBatch, Begin, Handler, PubSub, Die, SkipInvalid, CheckProducer,
     Prepare, Prepared, Partition, EnqueueBulkNoop, EnqueueBulk, GetCancelled,
     ScheduleBulkNoop, ScheduleBulk, CreateTaskOk, CreateTaskUnheard, CreateTaskFails,
     Respond, PublishLands, PublishFails
<1> QED BY <1>2, <1>4 DEF Next

\* What is due stays due.
LEMMA Nearer ==
    \A t, a, b, c \in Int : t - a < c /\ b >= a => t - b < c
OBVIOUS

\* Every step keeps what is to be published due.
LEMMA NextDue == TypeInv /\ PrepInv /\ DueInv /\ [Next]_vars => DueInv'
<1> SUFFICES ASSUME TypeInv, PrepInv, DueInv, [Next]_vars,
                    Scheduler' # "nil", ScheduleThreshold > 0,
                    NEW x \in DOMAIN immediateIndexes'
             PROVE  batch'[immediateIndexes'[x]].runAt - now' < ScheduleThreshold
  BY DEF DueInv
<1>0. Scheduler = Scheduler'
  BY FixedParts DEF Scheduler
<1>1. now \in Nat /\ now' \in Nat /\ now' >= now /\ ScheduleThreshold \in Int
  BY TimeStays, ConfigAssumption DEF ConfigAssumption
<1>2. \A p \in Positions : batch[p].runAt \in Int
  BY BatchType, RunAtInt DEF TypeInv, TypeOK
<1>3. ASSUME batch' = batch, x \in DOMAIN immediateIndexes,
             immediateIndexes'[x] = immediateIndexes[x]
      PROVE  batch'[immediateIndexes'[x]].runAt - now' < ScheduleThreshold
  <2> DEFINE t == batch[immediateIndexes[x]].runAt
  <2>1. t - now < ScheduleThreshold
    BY <1>0, <1>3 DEF DueInv
  <2>2. t \in Int
    BY <1>2, <1>3, SliceTypes
  <2>3. batch'[immediateIndexes'[x]].runAt = t
    BY <1>3
  <2>4. now \in Int /\ now' \in Int
    BY <1>1
  <2> HIDE DEF t
  <2>5. t - now' < ScheduleThreshold
    BY <1>1, <2>1, <2>2, <2>4, Nearer
  <2> QED BY <2>3, <2>5
<1>4. ASSUME Partition
      PROVE  batch'[immediateIndexes'[x]].runAt - now' < ScheduleThreshold
  <2>1. batch' = batch /\ now' = now /\ i \in Positions
    BY <1>4 DEF Partition
  <2>2. CASE UNCHANGED immediateIndexes
    BY <1>3, <2>1, <2>2
  <2>3. CASE /\ jobs[i] # None /\ ~UseScheduler(Scheduler, jobs[i], now)
             /\ immediateIndexes' = Append(immediateIndexes, i)
    <3>1. \/ x \in DOMAIN immediateIndexes /\ immediateIndexes'[x] = immediateIndexes[x]
          \/ immediateIndexes'[x] = i
      BY <2>1, <2>3, SliceTypes, AppendFacts
    <3>2. ASSUME immediateIndexes'[x] = i
          PROVE  batch'[immediateIndexes'[x]].runAt - now' < ScheduleThreshold
      <4>1. jobs[i].runAt \in Nat /\ jobs[i].runAt >= batch[i].runAt
        BY <2>1, <2>3 DEF TypeInv, TypeOK, Job, PrepInv
      <4>2. ~(jobs[i].runAt - now >= ScheduleThreshold)
        BY <1>0, <2>3 DEF UseScheduler
      <4>3. batch[i].runAt \in Int
        BY <1>2, <2>1
      <4>4. batch[i].runAt - now < ScheduleThreshold
        BY <1>1, <4>1, <4>2, <4>3
      <4> QED BY <2>1, <3>2, <4>4
    <3> QED BY <1>3, <2>1, <3>1, <3>2
  <2> QED BY <1>4, <2>2, <2>3 DEF Partition
<1>5. CASE (\E b \in Batches : Begin(b)) \/ SkipInvalid \/ CheckProducer
           \/ (\E id \in JobIds : Prepare(id)) \/ Prepared
  <2>1. immediateIndexes' = <<>>
    BY <1>5 DEF Begin, SkipInvalid, CheckProducer, Prepare, Prepared, TypeInv, Shape,
       Untouched
  <2> QED BY <2>1, Nothing
<1> QED BY <1>3, <1>4, <1>5, Stages

\* A message enters a topic from a publish request in flight.
LEMMA PublishedFrom ==
    ASSUME [Next]_vars, NEW m \in published', m \notin published
    PROVE  \E e \in outbox : m = e.msg
<1>1. CASE Tick \/ Admin \/ Cancel \/ UNCHANGED vars
  BY <1>1, EnvFrame
<1>2. CASE PubSub
  BY <1>2 DEF PubSub, PublishLands, PublishFails
<1>3. CASE RejectBatch \/ (\E b \in Batches : Begin(b)) \/ Handler \/ Die
  BY <1>3 DEF RejectBatch, Begin, Handler, Die, SkipInvalid, CheckProducer,
     Prepare, Prepared, Partition, EnqueueBulkNoop, EnqueueBulk, GetCancelled,
     ScheduleBulkNoop, ScheduleBulk, CreateTaskOk, CreateTaskUnheard, CreateTaskFails,
     Respond
<1> QED BY <1>1, <1>2, <1>3 DEF Next

\* No message of a batch enters a topic while its requested run time is the
\* threshold or more away, for batches of any length.
THEOREM NothingEarlyBulk == Spec => NoEarlyBulk
<1>1. TypeInv /\ PrepInv /\ SplitInv /\ DueInv /\ [Next]_vars =>
         [\A m \in published' \ published :
             Scheduler # "nil" /\ ScheduleThreshold > 0
                => batch[m.call].runAt - now < ScheduleThreshold]_vars
  <2> SUFFICES ASSUME TypeInv, PrepInv, SplitInv, DueInv, [Next]_vars,
                      Scheduler # "nil", ScheduleThreshold > 0,
                      NEW m \in published', m \notin published
               PROVE  batch[m.call].runAt - now < ScheduleThreshold
    OBVIOUS
  <2>1. PICK e \in outbox : m = e.msg
    BY PublishedFrom
  <2>2. e.idx \in DOMAIN immediateJobs /\ m = Marshal(immediateJobs[e.idx])
    BY <2>1 DEF TypeInv, Shape, InFlight
  <2>3. m.call = immediateIndexes[e.idx] /\ e.idx \in DOMAIN immediateIndexes
    BY <2>2, ElementCall, SliceTypes
  <2> QED BY <2>3 DEF DueInv
<1>2. Init => SplitInv /\ DueInv
  BY InitSplit
<1> QED
  BY <1>1, <1>2, InitTypeInv, NextTypeInv, InitPrep, NextPrep, NextSplit, NextDue,
     PTL DEF Spec, NoEarlyBulk

-----------------------------------------------------------------------------
(* A success stands for a job that something holds.                        *)

\* Until the slices are published nothing has a result and nothing is held.
LEMMA EarlyHeld ==
    TypeInv /\ pc \in {"idle", "rejected", "validate", "route", "partition"} => HeldInv
BY Nothing DEF TypeInv, Shape, Untouched, HeldInv

\* Initially nothing is held.
LEMMA InitHeld == Init => HeldInv
BY InitTypeInv, EarlyHeld DEF Init

\* What a later step may do: write a failure, or a success for a job that is
\* held from now on, and hold more jobs of the batch.
LEMMA HeldStep ==
    ASSUME HeldInv, UNCHANGED <<deployment, batch, jobs, immediateJobs, immediateIndexes,
                                futureJobs, futureIndexes>>,
           published \subseteq published', tasks \subseteq tasks',
           \A x \in DOMAIN immResults' :
              \/ x \in DOMAIN immResults /\ immResults'[x] = immResults[x]
              \/ immResults'[x] = None
              \/ immResults'[x].error
              \/ /\ immResults'[x].jobID = immediateJobs[x].id
                 /\ Backend = "pubsub" => \E m \in published' : m.call = immediateIndexes[x],
           \A x \in DOMAIN futResults' :
              \/ x \in DOMAIN futResults /\ futResults'[x] = futResults[x]
              \/ futResults'[x] = None
              \/ futResults'[x].error
              \/ /\ futResults'[x].jobID = futureJobs[x].id
                 /\ Scheduler # "noop" => \E b \in tasks' : b.call = futureIndexes[x],
           \A m \in published' : m \in published \/ (m.call \in Positions /\ jobs[m.call] # None),
           \A b \in tasks' : b \in tasks \/ (b.call \in Positions /\ jobs[b.call] # None)
    PROVE  HeldInv'
<1>1. Backend' = Backend /\ Scheduler' = Scheduler /\ Positions' = Positions
  BY DEF Backend, Scheduler, Positions
<1>2. ASSUME NEW x \in DOMAIN immResults', immResults'[x] # None, ~immResults'[x].error
      PROVE  /\ immResults'[x].jobID = immediateJobs[x].id
             /\ Backend = "pubsub" => \E m \in published' : m.call = immediateIndexes[x]
  <2>1. CASE x \in DOMAIN immResults /\ immResults'[x] = immResults[x]
    BY <1>2, <2>1 DEF HeldInv, Sent
  <2> QED BY <1>2, <2>1
<1>3. ASSUME NEW x \in DOMAIN futResults', futResults'[x] # None, ~futResults'[x].error
      PROVE  /\ futResults'[x].jobID = futureJobs[x].id
             /\ Scheduler # "noop" => \E b \in tasks' : b.call = futureIndexes[x]
  <2>1. CASE x \in DOMAIN futResults /\ futResults'[x] = futResults[x]
    BY <1>3, <2>1 DEF HeldInv, Tasked
  <2> QED BY <1>3, <2>1
<1>4. /\ \A m \in published' : m.call \in Positions /\ jobs[m.call] # None
      /\ \A b \in tasks' : b.call \in Positions /\ jobs[b.call] # None
  BY DEF HeldInv
<1> QED BY <1>1, <1>2, <1>3, <1>4 DEF HeldInv, Sent, Tasked

\* What each kind of result says.
LEMMA ResultFields ==
    /\ \A j : Success(j).jobID = j.id /\ ~Success(j).error
    /\ \A j : Failure(j).error
    /\ NotScheduled.error
BY DEF Success, Failure, NotScheduled

\* Sending the slice to publish: no result is a success before Pub/Sub answers,
\* and without Pub/Sub a success promises nothing.
LEMMA SendHeld ==
    ASSUME TypeInv, HeldInv, UNCHANGED deployment, EnqueueBulkNoop \/ EnqueueBulk
    PROVE  HeldInv'
<1>1. /\ UNCHANGED <<batch, jobs, immediateJobs, immediateIndexes, futureJobs,
                     futureIndexes, futResults, published, tasks>>
      /\ immResults' = Refusals \/ (immResults' = NoopResults /\ Backend = "noop")
  BY DEF EnqueueBulkNoop, EnqueueBulk
<1>2. ASSUME NEW x \in DOMAIN immResults'
      PROVE  \/ immResults'[x] = None
             \/ immResults'[x].error
             \/ immResults'[x].jobID = immediateJobs[x].id /\ Backend = "noop"
  <2>1. CASE immResults' = Refusals
    <3>1. x \in DOMAIN immediateJobs
      BY <1>2, <2>1 DEF Refusals
    <3> QED BY <2>1, <3>1, ResultFields DEF Refusals
  <2>2. CASE immResults' = NoopResults /\ Backend = "noop"
    <3>1. x \in DOMAIN immediateJobs
      BY <1>2, <2>2 DEF NoopResults
    <3> QED BY <2>2, <3>1, ResultFields DEF NoopResults
  <2> QED BY <1>1, <2>1, <2>2
<1> QED BY <1>1, <1>2, HeldStep

\* An answer of Pub/Sub, or the end of the wait for it, writes what it means.
LEMMA AnswerHeld ==
    ASSUME TypeInv, PrepInv, SplitInv, HeldInv, UNCHANGED deployment,
           PubSub \/ \E x \in DOMAIN immediateJobs : GetCancelled(x)
    PROVE  HeldInv'
<1>1. ASSUME NEW x \in DOMAIN immediateJobs, GetCancelled(x)
      PROVE  HeldInv'
  <2>1. /\ UNCHANGED <<batch, jobs, immediateJobs, immediateIndexes, futureJobs,
                       futureIndexes, futResults, published, tasks>>
        /\ immResults' = [immResults EXCEPT ![x] = Failure(immediateJobs[x])]
    BY <1>1 DEF GetCancelled
  <2>2. \A y \in DOMAIN immResults' :
           y \in DOMAIN immResults /\ (immResults'[y] = immResults[y] \/ immResults'[y].error)
    BY <2>1, ResultFields
  <2> QED BY <2>1, <2>2, HeldStep
<1>2. ASSUME NEW e \in outbox, PublishFails(e)
      PROVE  HeldInv'
  <2>1. /\ UNCHANGED <<batch, jobs, immediateJobs, immediateIndexes, futureJobs,
                       futureIndexes, futResults, published, tasks>>
        /\ \/ immResults' = immResults
           \/ immResults' = [immResults EXCEPT ![e.idx] = Failure(immediateJobs[e.idx])]
    BY <1>2 DEF PublishFails, Publishes
  <2>2. \A y \in DOMAIN immResults' :
           y \in DOMAIN immResults /\ (immResults'[y] = immResults[y] \/ immResults'[y].error)
    BY <2>1, ResultFields
  <2> QED BY <2>1, <2>2, HeldStep
<1>3. ASSUME NEW e \in outbox, PublishLands(e)
      PROVE  HeldInv'
  <2>1. /\ UNCHANGED <<batch, jobs, immediateJobs, immediateIndexes, futureJobs,
                       futureIndexes, futResults, tasks>>
        /\ published' = published \cup {e.msg}
        /\ \/ immResults' = immResults
           \/ immResults' = [immResults EXCEPT ![e.idx] = Success(immediateJobs[e.idx])]
    BY <1>3 DEF PublishLands, Publishes
  <2>2. /\ e.msg.call = immediateIndexes[e.idx]
        /\ e.msg.call \in Positions /\ jobs[e.msg.call] # None
    <3>1. e.idx \in DOMAIN immediateJobs /\ e.msg = Marshal(immediateJobs[e.idx])
      BY DEF TypeInv, Shape, InFlight
    <3> QED BY <3>1, ElementCall
  <2>3. \A y \in DOMAIN immResults' :
           \/ y \in DOMAIN immResults /\ immResults'[y] = immResults[y]
           \/ immResults'[y].jobID = immediateJobs[y].id /\ y = e.idx
    BY <2>1, ResultFields
  <2>4. \A m \in published' : m \in published \/ (m.call \in Positions /\ jobs[m.call] # None)
    BY <2>1, <2>2
  <2>5. e.msg \in published' /\ published \subseteq published'
    BY <2>1
  <2> QED BY <2>1, <2>2, <2>3, <2>4, <2>5, HeldStep
<1> QED BY <1>1, <1>2, <1>3 DEF PubSub

\* The scheduler reports a success for a task it created, and the noop
\* scheduler's successes promise nothing.
LEMMA ScheduleHeld ==
    ASSUME TypeInv, PrepInv, SplitInv, HeldInv, UNCHANGED deployment,
           \/ ScheduleBulkNoop \/ ScheduleBulk
           \/ \E x \in DOMAIN futureJobs :
                 CreateTaskOk(x) \/ CreateTaskUnheard(x) \/ CreateTaskFails(x)
    PROVE  HeldInv'
<1>1. ASSUME ScheduleBulkNoop PROVE HeldInv'
  <2>1. /\ UNCHANGED <<batch, jobs, immediateJobs, immediateIndexes, futureJobs,
                       futureIndexes, immResults, published, tasks>>
        /\ Scheduler = "noop"
        /\ futResults' = [x \in DOMAIN futureJobs |-> Success(futureJobs[x])]
    BY <1>1 DEF ScheduleBulkNoop
  <2>2. \A x \in DOMAIN futResults' : futResults'[x].jobID = futureJobs[x].id
    BY <2>1, ResultFields
  <2> QED BY <2>1, <2>2, HeldStep
<1>2. ASSUME ScheduleBulk PROVE HeldInv'
  <2>1. /\ UNCHANGED <<batch, jobs, immediateJobs, immediateIndexes, futureJobs,
                       futureIndexes, immResults, published, tasks>>
        /\ futResults' =
             [x \in DOMAIN futureJobs |->
                IF marshalJob(futureJobs[x]).len > MaxTaskBodySize THEN NotScheduled
                                                                   ELSE None]
    BY <1>2 DEF ScheduleBulk
  <2>2. \A x \in DOMAIN futResults' : futResults'[x] = None \/ futResults'[x].error
    BY <2>1, ResultFields
  <2> QED BY <2>1, <2>2, HeldStep
<1>3. ASSUME NEW x \in DOMAIN futureJobs, CreateTaskUnheard(x) \/ CreateTaskFails(x)
      PROVE  HeldInv'
  <2>1. /\ UNCHANGED <<batch, jobs, immediateJobs, immediateIndexes, futureJobs,
                       futureIndexes, immResults, published>>
        /\ tasks' = tasks \/ tasks' = tasks \cup {marshalJob(futureJobs[x])}
        /\ futResults' = [futResults EXCEPT ![x] = NotScheduled]
    BY <1>3 DEF CreateTaskUnheard, CreateTaskFails, StoreTask
  <2>2. \A y \in DOMAIN futResults' :
           y \in DOMAIN futResults /\ (futResults'[y] = futResults[y] \/ futResults'[y].error)
    BY <2>1, ResultFields
  <2>3. \A b \in tasks' : b \in tasks \/ (b.call \in Positions /\ jobs[b.call] # None)
    BY <2>1, ElementCall
  <2>4. tasks \subseteq tasks'
    BY <2>1
  <2> QED BY <2>1, <2>2, <2>3, <2>4, HeldStep
<1>4. ASSUME NEW x \in DOMAIN futureJobs, CreateTaskOk(x)
      PROVE  HeldInv'
  <2>1. /\ UNCHANGED <<batch, jobs, immediateJobs, immediateIndexes, futureJobs,
                       futureIndexes, immResults, published>>
        /\ tasks' = tasks \cup {marshalJob(futureJobs[x])}
        /\ futResults' = [futResults EXCEPT ![x] = Success(futureJobs[x])]
    BY <1>4 DEF CreateTaskOk, StoreTask
  <2>2. \A y \in DOMAIN futResults' :
           \/ y \in DOMAIN futResults /\ futResults'[y] = futResults[y]
           \/ futResults'[y].jobID = futureJobs[y].id /\ y = x
    BY <2>1, ResultFields
  <2>3. \A b \in tasks' : b \in tasks \/ (b.call \in Positions /\ jobs[b.call] # None)
    BY <2>1, ElementCall
  <2>4. /\ tasks \subseteq tasks'
        /\ \E b \in tasks' : b.call = futureIndexes[x]
    BY <2>1, ElementCall
  <2> QED BY <2>1, <2>2, <2>3, <2>4, HeldStep
<1> QED BY <1>1, <1>2, <1>3, <1>4

\* The response and a crash write no result; what a crash leaves behind are
\* tasks for jobs of the batch.
LEMMA EndHeld ==
    ASSUME TypeInv, PrepInv, SplitInv, HeldInv, UNCHANGED deployment, Respond \/ Die
    PROVE  HeldInv'
<1>1. /\ UNCHANGED <<batch, jobs, immediateJobs, immediateIndexes, futureJobs,
                     futureIndexes, immResults, futResults, published>>
      /\ \E S \in SUBSET DOMAIN futureJobs :
            tasks' = tasks \cup {marshalJob(futureJobs[x]) : x \in S}
  <2>1. CASE Respond
    <3>1. tasks' = tasks \cup {marshalJob(futureJobs[x]) : x \in {}}
      BY <2>1 DEF Respond
    <3> QED BY <2>1, <3>1 DEF Respond
  <2>2. CASE Die
    BY <2>2 DEF Die
  <2> QED BY <2>1, <2>2
<1>2. PICK S \in SUBSET DOMAIN futureJobs :
         tasks' = tasks \cup {marshalJob(futureJobs[x]) : x \in S}
  BY <1>1
<1>3. \A b \in tasks' : b \in tasks \/ (b.call \in Positions /\ jobs[b.call] # None)
  BY <1>2, ElementCall
<1> QED BY <1>1, <1>2, <1>3, HeldStep

\* Every step keeps successes honest.
LEMMA NextHeld == TypeInv /\ PrepInv /\ SplitInv /\ HeldInv /\ [Next]_vars => HeldInv'
<1> SUFFICES ASSUME TypeInv, PrepInv, SplitInv, HeldInv, [Next]_vars PROVE HeldInv'
  OBVIOUS
<1>1. UNCHANGED deployment /\ TypeInv'
  BY FixedParts, NextTypeInv
<1>2. CASE Tick \/ Admin \/ Cancel \/ UNCHANGED vars
  BY <1>1, <1>2, EnvFrame, HeldStep
<1>3. CASE \/ RejectBatch \/ (\E b \in Batches : Begin(b)) \/ SkipInvalid \/ CheckProducer
           \/ (\E id \in JobIds : Prepare(id)) \/ Prepared \/ Partition
  <2>1. pc' \in {"rejected", "validate", "route", "partition"}
    BY <1>3 DEF RejectBatch, Begin, SkipInvalid, CheckProducer, Prepare, Prepared, Partition
  <2>2. (TypeInv /\ pc \in {"idle", "rejected", "validate", "route", "partition"} => HeldInv)'
    BY EarlyHeld, PTL
  <2> QED BY <1>1, <2>1, <2>2
<1> QED
  BY <1>1, <1>2, <1>3, SendHeld, AnswerHeld, ScheduleHeld, EndHeld DEF Next, Handler

-----------------------------------------------------------------------------
(* The response.                                                           *)

\* A position the slice knows nothing of is left as it is.
LEMMA FillInNothing ==
    ASSUME NEW res, NEW p, NEW ixs, NEW rs, ~In(ixs, p)
    PROVE  FillIn(res, p, ixs, rs) = res
<1>1. Elements(ixs, p) \cap DOMAIN rs = {}
  BY DEF In, Elements
<1> QED BY <1>1 DEF FillIn

\* A position with one element in the slice gets that element's result.
LEMMA FillInOne ==
    ASSUME NEW res, NEW p, NEW ixs, NEW rs, NEW x \in DOMAIN ixs, x \in DOMAIN rs,
           ixs[x] = p, \A y \in DOMAIN ixs : ixs[y] = p => y = x
    PROVE  FillIn(res, p, ixs, rs) =
              IF rs[x].error THEN [res EXCEPT !.reason = "internal_error"]
              ELSE [res EXCEPT !.jobId = rs[x].jobID]
<1> DEFINE Of == Elements(ixs, p) \cap DOMAIN rs
<1>1. Of = {x}
  BY DEF Elements
<1>2. (CHOOSE y \in Of : TRUE) = x
  BY <1>1
<1>3. FillIn(res, p, ixs, rs) =
         IF Of = {} THEN res
         ELSE IF rs[CHOOSE y \in Of : TRUE].error THEN [res EXCEPT !.reason = "internal_error"]
         ELSE [res EXCEPT !.jobId = rs[CHOOSE y \in Of : TRUE].jobID]
  BY DEF FillIn
<1> HIDE DEF Of
<1> QED BY <1>1, <1>2, <1>3

\* The verdict on each position of the response: the request is invalid, its
\* job failed, or its job is the one of the id and something holds it.
LEMMA Verdict ==
    ASSUME TypeInv, PrepInv, SplitInv, HeldInv, pc = "replied", NEW p \in Positions
    PROVE  \/ /\ ~ValidRequest(batch[p]) /\ jobs[p] = None
              /\ results[p].jobId = None /\ results[p].reason = reasons[p]
              /\ reasons[p] # ""
           \/ /\ ValidRequest(batch[p]) /\ jobs[p] # None
              /\ results[p].jobId = None /\ results[p].reason = "internal_error"
           \/ /\ ValidRequest(batch[p]) /\ jobs[p] # None
              /\ results[p].jobId = jobs[p].id /\ results[p].reason = ""
              /\ Durable => Held(p)
<1>1. results[p] = FillIn(FillIn(Empty(p), p, immediateIndexes, immResults),
                          p, futureIndexes, futResults)
  BY DEF TypeInv, Shape, Written, BuildResponse
<1>2. /\ DOMAIN immResults = DOMAIN immediateIndexes
      /\ DOMAIN futResults = DOMAIN futureIndexes
      /\ AllWritten(immResults) /\ AllWritten(futResults)
  BY SliceTypes DEF TypeInv, Shape, Written, Sliced
<1>3. Judged(p) /\ Placed(p)
  BY DEF Judged, Placed, Ready, Sliced
<1>4. CASE ~ValidRequest(batch[p])
  <2>1. jobs[p] = None /\ reasons[p] # ""
    BY <1>3, <1>4 DEF PrepInv
  <2>2. ~In(immediateIndexes, p) /\ ~In(futureIndexes, p)
    <3>1. /\ \A x \in DOMAIN immediateIndexes : jobs[immediateIndexes[x]] # None
          /\ \A x \in DOMAIN futureIndexes : jobs[futureIndexes[x]] # None
      BY DEF SplitInv, SliceInv
    <3> QED BY <2>1, <3>1 DEF In
  <2>3. results[p] = Empty(p)
    BY <1>1, <2>2, FillInNothing
  <2>4. results[p].jobId = None /\ results[p].reason = reasons[p]
    BY <2>3 DEF Empty
  <2> QED BY <1>4, <2>1, <2>4
<1>5. CASE ValidRequest(batch[p])
  <2>1. jobs[p] # None /\ reasons[p] = ""
    BY <1>3, <1>5 DEF PrepInv
  <2>2. CASE In(immediateIndexes, p)
    <3>1. ~In(futureIndexes, p)
      BY <2>2 DEF SplitInv
    <3>2. PICK x \in DOMAIN immediateIndexes : immediateIndexes[x] = p
      BY <2>2 DEF In
    <3>3. /\ \A y \in DOMAIN immediateIndexes : immediateIndexes[y] = p => y = x
          /\ immediateJobs[x] = jobs[p]
      BY <3>2 DEF SplitInv, SliceInv
    <3>4. x \in DOMAIN immResults /\ immResults[x] # None
      BY <1>2 DEF AllWritten
    <3>5. results[p] =
             IF immResults[x].error THEN [Empty(p) EXCEPT !.reason = "internal_error"]
             ELSE [Empty(p) EXCEPT !.jobId = immResults[x].jobID]
      BY <1>1, <3>1, <3>2, <3>3, <3>4, FillInNothing, FillInOne
    <3>6. CASE immResults[x].error
      BY <1>5, <2>1, <3>5, <3>6 DEF Empty
    <3>7. CASE ~immResults[x].error
      <4>1. /\ immResults[x].jobID = jobs[p].id
            /\ Backend = "pubsub" => Sent(p)
        BY <3>2, <3>3, <3>4, <3>7 DEF HeldInv
      <4>2. Durable => Held(p)
        BY <4>1 DEF Durable, Held, Sent
      <4>3. results[p] = [Empty(p) EXCEPT !.jobId = jobs[p].id]
        BY <3>5, <3>7, <4>1
      <4>4. results[p].jobId = jobs[p].id /\ results[p].reason = ""
        BY <2>1, <4>3 DEF Empty
      <4> QED BY <1>5, <2>1, <4>2, <4>4
    <3> QED BY <3>6, <3>7
  <2>3. CASE In(futureIndexes, p)
    <3>1. ~In(immediateIndexes, p)
      BY <2>3 DEF SplitInv
    <3>2. PICK x \in DOMAIN futureIndexes : futureIndexes[x] = p
      BY <2>3 DEF In
    <3>3. /\ \A y \in DOMAIN futureIndexes : futureIndexes[y] = p => y = x
          /\ futureJobs[x] = jobs[p]
      BY <3>2 DEF SplitInv, SliceInv
    <3>4. x \in DOMAIN futResults /\ futResults[x] # None
      BY <1>2 DEF AllWritten
    <3>5. results[p] =
             IF futResults[x].error THEN [Empty(p) EXCEPT !.reason = "internal_error"]
             ELSE [Empty(p) EXCEPT !.jobId = futResults[x].jobID]
      BY <1>1, <3>1, <3>2, <3>3, <3>4, FillInNothing, FillInOne
    <3>6. CASE futResults[x].error
      BY <1>5, <2>1, <3>5, <3>6 DEF Empty
    <3>7. CASE ~futResults[x].error
      <4>1. /\ futResults[x].jobID = jobs[p].id
            /\ Scheduler # "noop" => Tasked(p)
        BY <3>2, <3>3, <3>4, <3>7 DEF HeldInv
      <4>2. Durable => Held(p)
        BY <4>1 DEF Durable, Held, Tasked
      <4>3. results[p] = [Empty(p) EXCEPT !.jobId = jobs[p].id]
        BY <3>5, <3>7, <4>1
      <4>4. results[p].jobId = jobs[p].id /\ results[p].reason = ""
        BY <2>1, <4>3 DEF Empty
      <4> QED BY <1>5, <2>1, <4>2, <4>4
    <3> QED BY <3>6, <3>7
  <2> QED BY <1>3, <2>1, <2>2, <2>3 DEF SplitInv
<1> QED BY <1>4, <1>5

\* What all the steps keep, together.
BulkInv == TypeInv /\ PrepInv /\ SplitInv /\ HeldInv

\* It is an invariant.
LEMMA BulkAlways == Spec => []BulkInv
<1>1. Init => SplitInv
  BY InitSplit
<1>2. Init => BulkInv
  BY <1>1, InitTypeInv, InitPrep, InitHeld DEF BulkInv
<1>3. BulkInv /\ [Next]_vars => BulkInv'
  BY NextTypeInv, NextPrep, NextSplit, NextHeld DEF BulkInv
<1> QED BY <1>2, <1>3, PTL DEF Spec

\* With durable parts, a job id in the response stands at the position of the
\* request whose job has that id, and a topic or a task holds that job.
THEOREM BulkAcksHeld == Spec => []BulkAckedHeld
<1>1. BulkInv => BulkAckedHeld
  <2> SUFFICES ASSUME BulkInv, pc = "replied", Durable,
                      NEW p \in Positions, results[p].jobId # None
               PROVE  jobs[p] # None /\ results[p].jobId = jobs[p].id /\ Held(p)
    BY DEF BulkAckedHeld
  <2> QED BY Verdict DEF BulkInv
<1> QED BY <1>1, BulkAlways, PTL

\* Each position of the response carries a job id or an error and not both;
\* the error blames the request exactly when it is invalid, and nothing of an
\* invalid request is in a topic or a task.
THEOREM VerdictsAreOne == Spec => []OneVerdict
<1>1. BulkInv => OneVerdict
  <2> SUFFICES ASSUME BulkInv, pc = "replied", NEW p \in Positions
               PROVE  /\ (results[p].jobId # None) # (results[p].reason # "")
                      /\ results[p].reason \in {"validation_error", "payload_too_large"}
                            <=> ~ValidRequest(batch[p])
                      /\ ~ValidRequest(batch[p]) => ~Held(p)
    BY DEF OneVerdict
  <2>1. jobs[p] # None => jobs[p].id # None
    BY BulkAssumption DEF BulkAssumption, BulkInv, TypeInv, TypeOK, Job
  <2>2. reasons[p] \in {"", "validation_error", "payload_too_large"}
    BY DEF BulkInv, TypeInv, Shape
  <2>3. Held(p) => jobs[p] # None
    BY DEF BulkInv, HeldInv, Held
  <2> DEFINE id == results[p].jobId
             reason == results[p].reason
  <2>4. \/ /\ ~ValidRequest(batch[p]) /\ id = None
           /\ reason \in {"validation_error", "payload_too_large"}
        \/ ValidRequest(batch[p]) /\ id = None /\ reason = "internal_error"
        \/ ValidRequest(batch[p]) /\ id # None /\ reason = ""
    BY <2>1, <2>2, Verdict DEF BulkInv
  <2>5. jobs[p] # None => ValidRequest(batch[p])
    BY DEF BulkInv, PrepInv
  <2> HIDE DEF id, reason
  <2>6. (id # None) # (reason # "")
    BY <2>4
  <2>7. reason \in {"validation_error", "payload_too_large"} <=> ~ValidRequest(batch[p])
    BY <2>4
  <2> QED BY <2>3, <2>5, <2>6, <2>7 DEF id, reason
<1> QED BY <1>1, BulkAlways, PTL

-----------------------------------------------------------------------------
(* EnqueueBulk implements the promise made to clients.                     *)

\* The positions of a batch are jobs of the promise.
LEMMA PositionsAreJobs ==
    TypeInv => Positions \subseteq UNION {1 .. Len(b) : b \in Batches}
<1> SUFFICES ASSUME TypeInv, NEW p \in Positions
             PROVE  \E b \in Batches : p \in 1 .. Len(b)
  OBVIOUS
<1>1. CASE batch = <<>>
  BY <1>1 DEF Positions
<1>2. CASE batch \in Batches
  BY <1>2 DEF Positions
<1> QED BY <1>1, <1>2 DEF TypeInv, TypeOK

\* With durable parts what is acknowledged is held.
LEMMA OkAreHeld == BulkInv /\ Durable => OkJobs \subseteq HeldJobs
<1> SUFFICES ASSUME BulkInv, Durable, NEW p \in DOMAIN results, results[p].jobId # None
             PROVE  p \in Positions /\ Held(p)
  BY DEF OkJobs, HeldJobs
<1>1. pc = "replied"
  <2>1. results # <<>>
    BY Nothing
  <2> QED BY <2>1 DEF BulkInv, TypeInv, Shape, Untouched
<1>2. p \in Positions
  BY <1>1 DEF BulkInv, TypeInv, Shape, Written, BuildResponse
<1> QED BY <1>1, <1>2, Verdict DEF BulkInv

\* Before the slices are published nothing is held, sent or acknowledged.
LEMMA EarlyPromise ==
    TypeInv /\ pc \in {"idle", "rejected", "validate", "route", "partition"} =>
        HeldJobs = {} /\ SentJobs = {} /\ OkJobs = {}
BY Nothing DEF TypeInv, Shape, Untouched, HeldJobs, SentJobs, OkJobs, Held

\* A step sends, stores or answers, and only one of the three.
LEMMA OneEffect ==
    ASSUME TypeInv, [Next]_vars, ~\E b \in Batches : Begin(b)
    PROVE  /\ batch' = batch
           /\ published \subseteq published' /\ tasks \subseteq tasks'
           /\ \/ published' = published /\ tasks' = tasks /\ pc = "scheduling"
              \/ published' = published /\ results' = results
              \/ tasks' = tasks /\ results' = results
<1>1. CASE Tick \/ Admin \/ Cancel \/ UNCHANGED vars
  BY <1>1, EnvFrame
<1>2. CASE PubSub
  BY <1>2 DEF PubSub, PublishLands, PublishFails
<1>3. CASE RejectBatch \/ Handler \/ Die
  BY <1>3 DEF RejectBatch, Handler, Die, SkipInvalid, CheckProducer,
     Prepare, Prepared, Partition, EnqueueBulkNoop, EnqueueBulk, GetCancelled,
     ScheduleBulkNoop, ScheduleBulk, CreateTaskOk, CreateTaskUnheard, CreateTaskFails,
     StoreTask, Respond
<1> QED BY <1>1, <1>2, <1>3 DEF Next

\* A step adds to one of the three sets what the promise allows.
LEMMA BulkPromiseStep ==
    ASSUME BulkInv, BulkInv', [Next]_vars, Durable
    PROVE  [Promised!Next]_<<HeldJobs, SentJobs, OkJobs>>
<1> DEFINE Pub == {p \in Positions : Sent(p)}
           Stored == {p \in Positions : Tasked(p)}
           Jobs == UNION {1 .. Len(b) : b \in Batches}
<1>0. TypeInv /\ TypeInv'
  BY DEF BulkInv
<1>1. Durable'
  BY FixedParts DEF Durable, Backend, Scheduler
<1>2. CASE \E b \in Batches : Begin(b)
  <2>1. pc = "idle" /\ pc' = "validate"
    BY <1>2 DEF Begin
  <2>2. HeldJobs = {} /\ SentJobs = {} /\ OkJobs = {}
    BY <1>0, <2>1, EarlyPromise
  <2>3. (TypeInv /\ pc \in {"idle", "rejected", "validate", "route", "partition"} =>
            HeldJobs = {} /\ SentJobs = {} /\ OkJobs = {})'
    BY EarlyPromise, PTL
  <2> QED BY <1>0, <2>1, <2>2, <2>3
<1>3. CASE ~\E b \in Batches : Begin(b)
  <2>1. /\ batch' = batch
        /\ published \subseteq published' /\ tasks \subseteq tasks'
        /\ \/ published' = published /\ tasks' = tasks /\ pc = "scheduling"
           \/ published' = published /\ results' = results
           \/ tasks' = tasks /\ results' = results
    BY <1>0, <1>3, OneEffect
  <2>2. /\ SentJobs = Pub /\ SentJobs' = Pub'
        /\ HeldJobs = Pub \cup Stored /\ HeldJobs' = Pub' \cup Stored'
    BY <1>1 DEF SentJobs, HeldJobs, Held, Sent, Tasked
  <2>3. Pub \subseteq Pub' /\ Stored \subseteq Stored'
    BY <2>1 DEF Sent, Tasked, Positions
  <2>4. OkJobs' \subseteq HeldJobs'
    <3>1. (BulkInv /\ Durable => OkJobs \subseteq HeldJobs)'
      BY OkAreHeld, PTL
    <3> QED BY <1>1, <3>1
  <2>5. Pub' \subseteq Jobs /\ Stored' \subseteq Jobs
    <3>1. (TypeInv => Positions \subseteq UNION {1 .. Len(b) : b \in Batches})'
      BY PositionsAreJobs, PTL
    <3> QED BY <1>0, <3>1
  <2>6. /\ published' = published => Pub' = Pub
        /\ tasks' = tasks => Stored' = Stored
        /\ results' = results => OkJobs' = OkJobs
    BY <1>1, <2>1 DEF Sent, Tasked, Positions, OkJobs
  <2>7. pc = "scheduling" => OkJobs = {}
    BY <1>0, Nothing DEF TypeInv, Shape, Untouched, OkJobs
  <2> HIDE DEF Pub, Stored, Jobs
  <2>8. CASE published' = published /\ tasks' = tasks /\ pc = "scheduling"
    <3>1. Promised!Acknowledge(OkJobs')
      BY <2>2, <2>4, <2>6, <2>7, <2>8 DEF Promised!Acknowledge
    <3>2. OkJobs' \subseteq Jobs
      BY <2>2, <2>4, <2>5
    <3> QED BY <3>1, <3>2 DEF Promised!Next, Jobs
  <2>9. CASE published' = published /\ results' = results
    <3>1. Promised!Keep(Stored')
      BY <2>2, <2>3, <2>6, <2>9 DEF Promised!Keep
    <3> QED BY <2>5, <3>1 DEF Promised!Next, Jobs
  <2>10. CASE tasks' = tasks /\ results' = results
    <3>1. Promised!Deliver(Pub')
      BY <2>2, <2>3, <2>6, <2>10 DEF Promised!Deliver
    <3> QED BY <2>5, <3>1 DEF Promised!Next, Jobs
  <2> QED BY <2>1, <2>8, <2>9, <2>10
<1> QED BY <1>2, <1>3

\* EnqueueBulk implements the promise for every position of every batch: none
\* is acknowledged before a topic or a task holds its job.
THEOREM BulkPromiseKept == Spec => BulkImplementsPromise
<1>1. Init => Promised!Init
  BY InitTypeInv, EarlyPromise DEF Init, Promised!Init
<1>2. BulkInv /\ BulkInv' /\ [Next]_vars => [Promised!Next]_<<HeldJobs, SentJobs, OkJobs>>
  <2> SUFFICES ASSUME BulkInv, BulkInv', [Next]_vars
               PROVE  [Promised!Next]_<<HeldJobs, SentJobs, OkJobs>>
    OBVIOUS
  <2>1. CASE Durable
    BY <2>1, BulkPromiseStep
  <2>2. CASE ~Durable
    <3>1. ~Durable'
      BY <2>2, FixedParts DEF Durable, Backend, Scheduler
    <3> QED BY <2>2, <3>1 DEF HeldJobs, SentJobs, OkJobs
  <2> QED BY <2>1, <2>2
<1> QED
  BY <1>1, <1>2, BulkAlways, PTL DEF Spec, BulkImplementsPromise, Promised!Spec
=============================================================================
