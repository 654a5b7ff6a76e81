# A TLA+ verification of jack-service

jack-service takes background jobs from producers over gRPC and puts them into
Pub/Sub topics, at once or at a later time through Cloud Tasks. This directory
holds TLA+ models of its core, TLC configurations that check them on small
instances, and TLAPS proofs of the main results for every value of the
constants. `PROJECT.json` lists the runs, the mutants, the source lines behind
each definition, the hazards, the findings and the theorems.

## 1. Inventory

| component | state | operations | interacts with | correct when |
|---|---|---|---|---|
| `internal/api/server.go` Enqueue | none between calls; one goroutine per call | validate, look up producer and job type, build the job, schedule or publish, reply | store (two reads), scheduler, backend | an acknowledged job is held somewhere durable, unaltered, routed as the registry says, never early; every call is answered |
| `internal/api/server.go` EnqueueBulk | slices of one call | the same for a batch: two slices, two bulk operations, results put back by index | store, scheduler, backend | each position gets the verdict of its own job, exactly one of id and error |
| `internal/api/callback.go` | none | decode a task body, publish, 200 or 500 | Cloud Tasks (caller), backend | 200 only after Pub/Sub confirmed |
| `internal/queue` | topics per priority | Enqueue, EnqueueBulk, Health, Close; Pub/Sub or noop | Pub/Sub | topic of the priority or else medium; result awaited |
| `internal/scheduler` | Cloud Tasks client | Schedule, ScheduleBulk, Close; Cloud Tasks or noop | Cloud Tasks | nothing lost through the task body; size limit respected |
| `internal/storage` | two maps behind an RWMutex; two objects in a bucket | create, get, list, load, save | Cloud Storage | what is confirmed is durable and visible; nothing visible is taken back |
| `internal/api/admin_server.go` | none | CreateProducer, CreateJobType, Get, List | store | duplicate and dangling creations refused, defaults filled in |
| `internal/jobid` | none | Generate, encodeBase62 | | distinct payloads, distinct ids |
| `cmd/jack/main.go` | the parts built, the stack of deferred `Close` calls | build the parts, serve gRPC and HTTP on one port, shut down | all | the parts the environment asks for are used; a shutdown ends, cuts no acknowledged work and leaves no message behind |
| `internal/config`, `internal/cenv` | none | read and trim environment variables, fill in defaults | main | blanks and malformed values do not change what is meant |

What is hard here: calls, callbacks and administrators run concurrently;
Cloud Tasks delivers at least once, possibly twice at a time; a publish request
outlives the context of its caller; CreateTask and object writes can take effect
and still report an error; instances crash between any two of these steps; the
registry is read twice per job; two limits (1 MB payload, 95 KB task body) and
one threshold meet at off-by-one boundaries; two instances may share a bucket;
HTTP/2 connections are hijacked from the server that is shut down, so callbacks
go on while the parts they use are closed.
`PROJECT.json` lists each hazard at its line.

## 2. Modules

    Registry --> Store --> Routing --> Delivery    (both implement Promise)
        |                 ^       \--> Bulk
        |           Jobs -'
        \--> GCSStore (implements Store)
    Config --> Lifecycle                   JobId

    RoutingProofs --> DeliveryProofs --> FidelityProofs
         \----------> BulkProofs                          GCSStoreProofs
    Induction ------> LifecycleProofs, JobIdProofs

* **Jobs**: priorities, requests, jobs, validation, and the conversions: the
  Cloud Tasks body (`marshalJob`, `UnmarshalJob`) and the Pub/Sub message
  (`Marshal` with `topicFor`). A payload is its length, whether it is absent,
  JSON or other bytes, and its `queue` member. Names are sequences of tokens,
  so that joining two with a colon is what the store's key function does.
* **Registry**, **Store**: the data of the registry and its contract, which is
  literally what `MemoryStore` does under its mutex. `Store` is also the
  abstract specification that `GCSStore` is shown to implement.
* **Routing**: `routingConfig`, `getJobTypeConfig` and the construction of a
  `queue.Job`, shared by the two enqueue paths, and `deployment`: the backend
  and the scheduler main built, chosen in the initial state and never changed.
* **Promise**: what the service promises about jobs: acknowledged only when
  held, and held for good. `Delivery` and `Bulk` implement it, by the mapping
  that calls a job held when it is in a topic or in a task, and acknowledged
  when the client was told OK; with noop parts, which keep nothing, the mapping
  has no jobs.
* **Delivery**: the life of a job from the Enqueue call to a topic. `pc`,
  `req`, `warn`, `job`, `code` are the locals and the reply of each call;
  `attempt` is what each callback handler does; `task` is Cloud Tasks, `outbox`
  and `published` are Pub/Sub; `producers`, `jobTypes` is the registry. A step
  is the code between two interactions with something outside the goroutine.
  `Tick`, `Die`, `CallbackLost`, `CtxDone`, `CreateTaskUnheard` and
  `PublishFails` are time and failures.
* **Bulk**: one EnqueueBulk call, position by position: preparation with the
  registry changing underneath, the split with the clock read for each job, the
  goroutines of both bulk operations finishing in any order, cancellation in
  the middle, and the response. Positions count from 1. A task it creates goes
  on as in Delivery.
* **GCSStore**: instances with their lock and memory, the bucket, and
  administrators' calls; the object write is a step of its own, under the lock,
  that succeeds, fails, or takes effect and reports failure.
* **JobId**: the base-62 encoding, one round of division per step.
* **Config**: `config.Load` and the accessors of `cenv`, on texts made of
  tokens, blanks among them. `strconv` and `time` are constants: functions on
  the texts they accept.
* **Lifecycle**: one process. `phase` is where main is, `deferred` its stack of
  deferred `Close` calls, `store`, `backend`, `sched`, `topics` what it built
  from `env`; `call` are requests of four kinds (callbacks over HTTP/1 and over
  HTTP/2, Enqueue, health Watch) that arrive whenever their server takes them;
  `outbox` and `stopped` are the Pub/Sub client's topics. Each deferred `Close`,
  and each `Topic.Stop` in the one of the backend, is a step of its own. `Fatal`
  is `log.Fatalf` and any other sudden end.
* **DeliveryProofs**, **FidelityProofs**, **BulkProofs**, **GCSStoreProofs**,
  **LifecycleProofs**, **JobIdProofs**: the theorems about the modules of these
  names (FidelityProofs is the part about Delivery that follows what a job
  carries). **RoutingProofs**: lemmas about looking a job up in the registry and
  converting it, which both enqueue paths rest on. **Induction**: induction on
  the naturals and functions defined by recursion, stated with sets.
* **MCDelivery**, **MCBulk**, **MCGCSStore**, **MCJobId**, **MCLifecycle**:
  constants for TLC.

The field `call` of jobs, tasks and messages is auxiliary: it tells two jobs
with the same generated id apart. Definitions named `X_Something` are mutants,
plausible bugs of `X` that break the property `PROJECT.json` names for them.

## 3. What the runs show

| run | shows | bounds |
|---|---|---|
| MCDelivery | no acknowledged job is lost (`AckedJobHeld`), no task is forgotten before its publish (`NoTaskDropped`), messages are what the client sent (`PublishedFaithful`), nothing is published early (`NoEarlyPublish`), `Promise` is implemented (`ImplementsPromise`) | 2 calls, 2 callbacks, 2 ids, 3 instants, 4 requests, an empty registry; only high priority has a topic, so that one of the jobs for later has none |
| DeliveryEdges | over every early return and routing rule: messages and routing are sound (`PublishedFaithful`, `RoutingSound`), without Cloud Tasks OK for a job not for later means published (`OkMeansPublished`), every call is answered (`Answered`) | 1 call, 11 requests, 3 deployments, all queues, retries -1, 0, 7, both size limits |
| DeliveryLive | an acknowledged deliverable job reaches a topic (`AckedDelivered`), even when it shares the only callback handler with a task that always fails | 2 calls, 1 callback |
| MCBulk | each position gets its own verdict (`OneVerdict`), ids stand for held jobs (`BulkAckedHeld`), routing and timing as for Enqueue, every batch is answered (`BulkAnswered`), `Promise` is implemented | batches of 3, 2 ids, 3 instants, real and noop parts; only high priority has a topic, which a job gets once its type is registered |
| MCJobId | the encoding can be decoded (`RoundTrip`), and why (`LoopValue`) | up to 3 bytes from 9 edge values |
| MCGCSStore | confirmed entries are durable and visible, nothing visible is undecided, references stay intact, no double confirmation, every call is answered, `Store` is implemented | 1 instance, 3 calls, 2 producers |
| GCSStoreTwo | readers of a running instance never lose an entry (`MonotonicReads`); an entry is found under its own producer and name only (`OwnEntries`) | 2 instances, 3 calls, 2 producers, a name with a colon that repeats a producer's id |
| MCLifecycle | a serving process has the parts its environment asks for (`NoSilentStandIn`), callbacks reach their handler (`CallbackRouted`), a shutdown ends (`ShutdownEnds`), cuts only callbacks over HTTP/2 (`CutOnlyCallbacks`) and leaves no message with the client (`FlushedAtExit`) | 8 environments, 3 calls |

Why the bounds are enough to be interesting: two calls and two ids make ids
collide or not; two callbacks run on one task or on two; three instants put a
run time before, at and beyond the threshold, and let the clock move between
two steps. Two of four topics exercise the fallback (DeliveryEdges); the high
topic alone leaves every other priority without any (MCDelivery, MCBulk): a job
for now is then refused, and one for later is acknowledged and its callbacks
refused for ever, so that it has to stay in its task. Three
batch positions put an invalid request in front of both slices. Three
administrators' calls give a producer, its job type and a rival. Three calls in
a process let one run into the drain of each server while another arrives late.
The environments are the local one, the README's, production with blanks and
slashes, one topic, no topic, a misspelt backend, a blank project and a port out
of range. The clock
stops at `MaxTime`, a bound; the other sets are finite by nature. Symmetry is
used only in runs without liveness. Deadlock is not checked where the system may come to
rest: all calls answered, no task left.

**Disagreements found** (runs expected to be violated; quotes in
`PROJECT.json`):

* GCSStoreLost: with two instances on one bucket, the save of one overwrites
  what the other confirmed. With one instance `ConfirmedDurable` holds.
* DeliveryOpaque: a payload that is not JSON is acknowledged for later and then
  can never be published.
* DeliveryNoopScheduler: without Cloud Tasks a job for later is acknowledged
  and dropped, not published without delay.
* LifecycleReadme: the docker command of the README configures no topic, so the
  service starts, serves, and can route no job.

## 4. Fairness

Delivery: goroutines that have begun run (weak fairness of each handler, which
includes the answer it waits for: the client libraries end every request with
an answer or with its context). Time passes. Cloud Tasks dispatches a due task
whenever it repeatedly can (strong fairness, since callback handlers are
shared). An attempt repeated for ever gets as far as publishing, and Pub/Sub
does not refuse the same job every time: strong fairness, a statement about the
environment without which no at-least-once system delivers. Crashes, lost
answers and cancellations are never required and never bounded. Starting a
call, and administrators, have no fairness.

Bulk: its goroutines run, and Pub/Sub answers each publish request.

GCSStore: a save ends, and `sync.RWMutex` does not starve a writer (strong
fairness of taking the lock).

Lifecycle: main and the handlers run, and Pub/Sub answers its client in the
end. A signal, a caller that gives up and a watcher that hangs up are not
required, so `ShutdownEnds` leaves out the case in which somebody goes on
watching the health service. `GracefulStop` panics when it meets such a call, or
any other one served through `ServeHTTP`; the model lets it panic or wait, for
ever if the watcher never leaves, and so allows more than the code does. That
handlers run takes for granted that a sender over HTTP/1 ends its body: the
callback handler reads it without a timeout.

## 5. What is proved

Every invariant, action property and refinement that a passing run checks is a
theorem, for any values of the constants that satisfy the named assumptions.
The assumptions say that constants have their types, that calls and handlers
are different things and that `None` is none of them (`ConfigAssumption`,
`RegistryAssumption`, `DeploymentAssumption`, `DeliveryAssumption`,
`BulkAssumption`, `NoneAssumption`, `EnvironmentAssumption`,
`InputsAssumption`); TLC evaluates them in the runs. The only further premise
is that one instance uses the bucket, in six theorems about the GCS store.

**Delivery** (`DeliveryProofs`), for any calls, callback handlers, ids,
requests, registries and deployments:

* `TypeCorrect`: `Spec => []TypeOK`. `TypeOK` alone is not inductive: it allows
  a handler past routing without a job, or a running attempt without one.
  `TypeInv` adds `Shape`, which says who holds a request, a job or a task body
  and whose.
* `TasksDelivered`: `[]NoTaskDropped`. The inductive invariant `TaskInv` adds
  `SentPublished`: whoever says "sent", call or callback, has its message in a
  topic. This survives because only `PublishLands` says so, to the owner
  recorded in the outbox, and because messages stay.
* `AckedJobsHeld`: `[]AckedJobHeld`. `AckInv` adds that an accepted call has a
  task and that OK means published or a task not lost; a task that is done is
  published by `TaskInv`. `HeldInv` is the conjunction of these invariants.
* `PromiseKept`: `Spec => ImplementsPromise`, the refinement. Under `HeldInv`
  and `Settled` (a call told OK is over) a step never takes a call out of the
  held, delivered or acknowledged ones (`TaskStays`, `PublishedStays`), and a
  step that acknowledges changes neither topics nor tasks.
* `NothingEarly`: `NoEarlyPublish`. `TimeInv` follows the run time from the
  request through job, task body and attempt to the outbox, where everything
  is due within the threshold; time only helps.

`FidelityProofs` follows what a job carries:

* `MessagesFaithful`: `[]PublishedFaithful`. A message in a topic can come from
  a call or from a task body that was marshalled, stored, delivered and decoded.
  `FaithInv` says of each of these places (job, task, attempt, message) that it
  carries what its call was sent; the lemmas of `RoutingProofs` say what the
  two conversions keep, and where they refuse.
* `RoutingStaysSound`: `[]RoutingSound`. The registry is read twice per job and
  may change in between. `RouteInv` adds `HalfRouted`, what a handler knows
  between the two reads: no warning yet about the producer means it is
  registered. It is kept because the registry only grows.
* `OkIsPublished`: `[]OkMeansPublished`. `DueInv` says that only jobs for later
  are given to the scheduler, so OK for another one can only mean "sent".

The properties about jobs held say nothing of the noop parts, which drop jobs by
design (see DeliveryNoopScheduler).

**Bulk** (`BulkProofs`), for batches of any length, any registry, deployment and
order in which the goroutines end:

* `BulkTypeCorrect`: `TypeInv` adds to `TypeOK` which slices and results exist
  at which `pc`, and how long they are.
* `BulkAcksHeld`, `VerdictsAreOne`: `[]BulkAckedHeld`, `[]OneVerdict`. A position
  of the response is written by an index remembered in a slice, so the
  argument is about indices: `PrepInv` says that every position passed has a
  job or a reason, as its request is valid or not; `SplitInv` that each job is
  in exactly one slice, under its own position, once (no two results write to
  one position, and none is left out); `HeldInv` that a result without an error
  has the id of the job at its position, which a topic or a task holds.
  `Verdict` puts the three together at the response.
* `BulkRoutingStaysSound`, `NothingEarlyBulk`: as for Delivery; `DueInv` says
  that the slice published at once holds only jobs that were due when the clock
  was read for them.
* `BulkPromiseKept`: `Spec => BulkImplementsPromise`, position by position.

**GCSStore** (`GCSStoreProofs`). For any number of instances on one bucket:

* `GCSTypeCorrect`, `ReadsMonotonic` (`MonotonicReads`) and `LookupsOwn`
  (`OwnEntries`), from `StoreInv`: the shape of the calls, the lock held by
  exactly the call that saves (`LockShape`), the entry of the lock's holder in
  memory and its producer with it (`MemShape`), and every job type under the key
  made of its own producer and name (`Keyed`). `KeyInjective` is why two
  entries never share a key: a producer id holds no colon.

Where one instance uses the bucket (`Instances = {i}`; the run GCSStoreLost shows
that two break it), from `BucketInv`:

* `ConfirmationsDurable`, `ConfirmationsVisible`, `ReadsDurable`,
  `ReferencesHold`, `ConfirmationsUnique`. The bucket is not what the readers
  see: a write that reported an error may have taken effect, and is then rolled
  back in memory only. `Behind` says that the bucket is ahead by one entry at
  most, the last failed one, since each save writes the whole object. `Rooted`
  says that a job type in the bucket has its producer among those readers see:
  without it a reload of the two objects after a crash could show the one
  without the other.
* `RegistryImplemented`: `Spec => ImplementsStore`. A successful save, and the
  reload after a failed one that took effect, are one creation each; everything
  else changes nothing that readers see.

**Lifecycle** (`LifecycleProofs`), for any calls and every environment that gives
each variable a text:

* `LifecycleTypeCorrect`: `[]TypeOK`, with the stack of deferred calls being the
  parts built so far. `Stacked` ties its length to the phase.
* `ExitFlushes`: `[]FlushedAtExit`. Not inductive by itself; `Flushed` says that
  once the backend is off the stack its topics are all stopped and the outbox is
  empty. It is kept because a publish needs a topic that runs.
* `ShutdownCutsCallbacksOnly`: `[]CutOnlyCallbacks`. `Drained` says which kinds
  of call each server has waited for; it is kept because from then on only
  callbacks over HTTP/2 arrive. `CutAtEnd` says that nothing else cuts a call.
* `StandInsAreAskedFor`: `[]NoSilentStandIn`. `StartInv` says what each phase of
  main has built; the lemmas `TrimsToNothing` and `TrimsToOne` say what `Load`
  makes of a text that is blank, or one word among blanks.
* `CallbacksRouted`: `[]CallbackRouted`. `Targeted` says that a call's target is
  what the mux makes of its path. `TrimsToHost` is the work: whatever blanks
  surround the base URL and however many slashes end it, what is left is the
  host, and the path is the one main registered. A host here is one token, as
  everywhere in Config.

**JobId** (`JobIdProofs`), for byte strings of any length; a job id has
twenty-one bytes, TLC's integers end at three:

* `DivisionLosesNothing`: `[]LoopValue`; `EncodingRoundTrips`: `[]RoundTrip`.
  `DivideAlong` goes along the places of the long division: the bytes so far
  stand for 62 times the quotient so far, plus the carry; `OnePlace` is where
  the carry stays below 62 and the quotient fits a byte. `EncodeInv` adds to
  `LoopValue` that the last digit is not zero once nothing is left to divide,
  without which the leading zeros could not be counted back.

TLC checked the inductive invariants on the runs' instances before they were
proved.

**Induction.** The library's induction theorems take an operator as a parameter,
which the installed provers cannot instantiate. `Induction` derives what is
needed from the well-foundedness of `<` on the naturals, which is about a
relation, a set: a least element, induction for a set of numbers, and the
existence of a function defined by recursion. The recursive functions of JobId
and the sequences of Config are reasoned about with these.

**Sequences and functions.** The SMT encoding of this version of tlapm takes
`Len(s) = n` for equivalent to `DOMAIN s = 1 .. n` for every value `s`, which,
together with `Len(s) \in Nat` for every `s`, is too much for a function on
`0 .. n`. `JobIdProofs` therefore keeps the two apart: lemmas about functions on
`0 .. n` speak of a number `n`, lemmas about sequences of `Value` alone. All the
proof modules were also checked with the encoding weakened to an implication.

**Only model-checked: liveness** (`Answered`, `AckedDelivered`, `BulkAnswered`,
`AdminAnswered`, `ShutdownEnds`), which rests on fairness and `ENABLED`, out of
the prover's reach. What runs expect to be violated is, of course, no
theorem: three properties of no passing run, and `ConfirmedDurable` with two
instances on one bucket.

## 6. Assumptions and what is left out

* A write to Cloud Storage whose outcome was reported, or whose writer is gone,
  does not take effect later.
* Several instances on one bucket: each reads it at start-up only, so what one
  confirms stays invisible to another that already runs until that one is
  restarted (`ListProducers` of admin.proto, line 19, promises "all registered
  producers"). `ConfirmedVisible` is a property of one instance; TLC finds it
  violated with `Instances = {i1, i2}` by one creation between the two reads of
  the other's `load`. No run is kept for it.
* Cloud Tasks retries without limit; a name is free again once its task is gone
  (or refused for a while longer: `CreateTaskFails` is always possible).
* The registry of Delivery and Bulk survives instance crashes, as the GCS store
  does. The branch for a nil store, and the one for `ErrQueueUnavailable`, which
  no backend returns, are left out.
* Producer ids hold no colon, as `generateProducerID` makes them
  (`RegistryAssumption`); job type names may. A client may still name a producer
  that is not registered and whose name holds one; it is warned about the
  producer, and the job is routed by whatever entry has the joined key.
* `http.Server`, h2c, the gRPC server and the Pub/Sub client are modelled from
  how main uses them: `Shutdown` waits for HTTP/1 connections and does not see
  hijacked ones; `GracefulStop`, for calls served through `ServeHTTP`, returns
  when none is in flight and may panic when one is; `Topic.Stop` sends what it
  was handed and refuses anything more; the client's other requests end with
  their context.
* An Enqueue call in Lifecycle stands for one whose job is published at once;
  what the call does before and after is Delivery's matter. A Pub/Sub client
  closed by a sudden end loses what it was handed; Delivery's `Die` has it both
  ways.
* `json.Marshal` compacts a payload and escapes HTML characters in it: its bytes
  may change, the JSON value does not. That is formatting, and
  `PublishedFaithful` is about the value.
* Trace and correlation ids, descriptions, timestamps of creation, metrics and
  logs carry no control.
* Not modelled: the layout and checksum of job ids (bytes nobody reads back;
  its 48-bit clock is beyond TLC's integers), `Backend.Health` and the accessors
  of `cenv` that nobody calls, `Get` and `List` of the admin service beyond the
  reads of the store they are, the health status (nothing in the process reads
  it), reflection, generated code, metrics and logs.

## 7. Plan

1. *Done*: every component with state of its own; `Promise` and `Store` as
   abstract specifications; every safety invariant, action property and
   refinement of a passing run as a theorem (section 5).
2. *Prove*: where a theorem has a premise the code does not force, look for
   what holds without it: what several instances on one bucket still keep of
   the registry (`UniqueConfirm` per instance; every job type has a producer
   somewhere), and what a deployment with one noop part still promises.
3. *Model*: the layout of job ids (`Generate`), as far as sorting by time goes.
