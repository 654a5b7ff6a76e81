----------------------------- MODULE Lifecycle ------------------------------
(***************************************************************************)
(* The life of one process (cmd/jack/main.go): main builds its parts from  *)
(* the environment, one after the other, serves until a signal comes,      *)
(* drains, and closes the parts in the reverse order.  Calls come in and   *)
(* run on goroutines of their own meanwhile.                               *)
(*                                                                         *)
(* One port serves gRPC and the callbacks of Cloud Tasks.  A connection    *)
(* that speaks HTTP/2 is hijacked from the HTTP server (h2c), so Shutdown  *)
(* neither waits for it nor ends it.  External, modelled from how main     *)
(* uses them: the HTTP and gRPC servers, and the Pub/Sub client, whose     *)
(* Topic.Stop sends what was handed to it and refuses anything more.       *)
(* GracefulStop waits for the gRPC calls in flight or panics because of    *)
(* them: a call served through ServeHTTP cannot be drained.                *)
(*                                                                         *)
(* An Enqueue call stands here for one whose job is published at once.     *)
(***************************************************************************)
EXTENDS Config

CONSTANTS
    Environments,  \* the environments the process may be started in
    Calls          \* the calls it may get; each is made once

ASSUME EnvironmentAssumption == Environments \subseteq [Variable -> Seq(STRING)]

VARIABLES
    env,       \* the environment
    phase,     \* where main is
    store, backend, sched,  \* what main built
    topics,    \* PubSubBackend.topics: the priorities that have one
    deferred,  \* the deferred Close calls, the last one to run first
    stopped,   \* the topics Stop was called on
    panicked,  \* GracefulStop panicked
    call,      \* the calls
    outbox     \* <<c, p>>: topic p has yet to send the message of call c

parts == <<store, backend, sched, topics>>
flow  == <<call, outbox>>
ends  == <<stopped, panicked>>
vars  == <<env, phase, parts, deferred, ends, flow>>

cfg == Load(env)

Kind == {"http1", "h2", "enqueue", "watch"}

Init ==
    /\ env \in Environments
    /\ phase = "statsd"
    /\ store = "none" /\ backend = "none" /\ sched = "none" /\ topics = {}
    /\ deferred = <<>>
    /\ stopped = {} /\ panicked = FALSE
    /\ call = [c \in Calls |-> [st |-> "idle", kind |-> "none", target |-> "none"]]
    /\ outbox = {}

-----------------------------------------------------------------------------
(* Starting.  A client that cannot be created ends the process. *)

\* Mutant: the parts are closed in the order they were built.
Built_ClosedFirst(part, next) ==
    /\ phase' = next
    /\ deferred' = <<part>> \o deferred
    /\ UNCHANGED <<env, ends, flow>>

\* main goes on, with one more part to close at the end.
Built(part, next) ==
    /\ phase' = next
    /\ deferred' = Append(deferred, part)
    /\ UNCHANGED <<env, ends, flow>>

Cut == [c \in Calls |-> IF call[c].st \in {"running", "publishing"}
                        THEN [call[c] EXCEPT !.st = "cut"] ELSE call[c]]

\* log.Fatalf, or a signal nobody catches yet: no deferred call runs, and the
\* calls in progress are cut.
Fatal ==
    /\ phase' = "fatal"
    /\ call' = Cut
    /\ UNCHANGED <<env, parts, deferred, ends, outbox>>

InitStatsd ==
    /\ phase = "statsd"
    /\ \/ Built("statsd", "storage") /\ UNCHANGED parts
       \/ cfg.DatadogStatsdAddr # <<>> /\ Fatal

InitStore ==
    /\ phase = "storage"
    /\ \/ /\ store' = IF cfg.GCSBucket # <<>> THEN "gcs" ELSE "memory"
          /\ Built("store", "backend")
          /\ UNCHANGED <<backend, sched, topics>>
       \/ cfg.GCSBucket # <<>> /\ Fatal

TopicOf == [high |-> cfg.PubSubTopicHigh, medium |-> cfg.PubSubTopicMedium,
            low |-> cfg.PubSubTopicLow, immediate |-> cfg.PubSubTopicImmediate]

\* Anything but pubsub gets the noop backend.
InitBackend ==
    /\ phase = "backend"
    /\ \/ /\ cfg.QueueBackend = <<"pubsub">>
          /\ cfg.PubSubProject # <<>>
          /\ backend' = "pubsub"
          /\ topics' = {p \in DOMAIN TopicOf : TopicOf[p] # <<>>}
          /\ Built("backend", "scheduler")
          /\ UNCHANGED <<store, sched>>
       \/ cfg.QueueBackend = <<"pubsub">> /\ Fatal
       \/ /\ cfg.QueueBackend # <<"pubsub">>
          /\ backend' = "noop"
          /\ Built("backend", "scheduler")
          /\ UNCHANGED <<store, sched, topics>>

InitScheduler ==
    /\ phase = "scheduler"
    /\ \/ /\ sched' = IF cfg.CloudTasksProject # <<>> THEN "cloudtasks" ELSE "noop"
          /\ Built("sched", "listen")
          /\ UNCHANGED <<store, backend, topics>>
       \/ cfg.CloudTasksProject # <<>> /\ Fatal

\* net.Listen knows no other port.
ValidPort == cfg.GRPCPort \in 0 .. 65535

\* The port may be taken.
Listen ==
    /\ phase = "listen"
    /\ \/ /\ ValidPort
          /\ phase' = "serving"
          /\ UNCHANGED <<env, parts, deferred, ends, flow>>
       \/ Fatal

-----------------------------------------------------------------------------
(* The calls. *)

CallbackPath == <<"/internal/callback/enqueue">>

\* Mutant: the slashes at the end of the base URL stay.
callbackURL_Untrimmed(base) == base \o CallbackPath

callbackURL(base) == TrimRight(base, Slash) \o CallbackPath

\* The combined handler, and the mux behind it.
Handle(major, grpc, path) ==
    IF major = 2 /\ grpc THEN "grpc"
    ELSE IF path = CallbackPath THEN "callback"
    ELSE "other"

\* The first token of a callback URL is its scheme and host.
Target(k) ==
    LET path == Tail(callbackURL(cfg.CallbackBaseURL)) IN
    CASE k = "http1" -> Handle(1, FALSE, path)
      [] k = "h2"    -> Handle(2, FALSE, path)
      [] OTHER       -> Handle(2, TRUE, <<>>)

\* Shutdown closes the listener and idle HTTP/1 connections; hijacked ones go on.
\* The gRPC server refuses calls from GracefulStop on.
Reachable(k) ==
    CASE k = "http1" -> phase = "serving"
      [] k = "h2"    -> phase \in {"serving", "shutdown", "gracefulStop", "close"}
      [] OTHER       -> phase \in {"serving", "shutdown"}

\* Cloud Tasks calls back only where it was given a URL with a host.
Arrive(c, k) ==
    /\ call[c].st = "idle"
    /\ Reachable(k)
    /\ k \in {"http1", "h2"} => sched = "cloudtasks" /\ cfg.CallbackBaseURL # <<>>
    /\ call' = [call EXCEPT ![c] = [st |-> "running", kind |-> k, target |-> Target(k)]]
    /\ UNCHANGED <<env, phase, parts, deferred, ends, outbox>>

Answer(c, status) == call' = [call EXCEPT ![c].st = status]

\* topicFor: the topic of priority p or else the medium one, if there is one.
HasTopic(p) == p \in topics \/ "medium" \in topics
topicFor(p) == IF p \in topics THEN p ELSE "medium"

\* backend.Enqueue hands the message to the topic of the job's priority.
Publish(c) ==
    /\ call[c].st = "running" /\ call[c].kind # "watch" /\ call[c].target # "other"
    /\ backend = "pubsub"
    /\ \E p \in DOMAIN TopicOf : /\ HasTopic(p) /\ topicFor(p) \notin stopped
                                 /\ outbox' = outbox \cup {<<c, topicFor(p)>>}
    /\ Answer(c, "publishing")
    /\ UNCHANGED <<env, phase, parts, deferred, ends>>

\* Mutant: an error of the backend is not answered.
Refused_NoRouteOnly(c) == call[c].target = "other"

\* No route, no topic for the job's priority, or a topic that was stopped.
Refused(c) ==
    \/ call[c].target = "other"
    \/ /\ backend = "pubsub"
       /\ \E p \in DOMAIN TopicOf : ~HasTopic(p) \/ topicFor(p) \in stopped

Refuse(c) ==
    /\ call[c].st = "running" /\ call[c].kind # "watch"
    /\ Refused(c)
    /\ Answer(c, "failed")
    /\ UNCHANGED <<env, phase, parts, deferred, ends, outbox>>

AcceptNoop(c) ==
    /\ call[c].st = "running" /\ call[c].kind # "watch" /\ call[c].target # "other"
    /\ backend = "noop"
    /\ Answer(c, "ok")
    /\ UNCHANGED <<env, phase, parts, deferred, ends, outbox>>

\* Pub/Sub answers the client; result.Get returns, if the call still waits in it.
PublishEnds(c) ==
    /\ \E p \in topics : <<c, p>> \in outbox /\ outbox' = outbox \ {<<c, p>>}
    /\ IF call[c].st = "publishing" THEN \E status \in {"ok", "failed"} : Answer(c, status)
                                    ELSE UNCHANGED call
    /\ UNCHANGED <<env, phase, parts, deferred, ends>>

\* The caller gives up; its message stays with the client.
CtxDone(c) ==
    /\ call[c].st = "publishing"
    /\ Answer(c, "failed")
    /\ UNCHANGED <<env, phase, parts, deferred, ends, outbox>>

\* A health watcher hangs up.
WatchEnds(c) ==
    /\ call[c].st = "running" /\ call[c].kind = "watch"
    /\ Answer(c, "ok")
    /\ UNCHANGED <<env, phase, parts, deferred, ends, outbox>>

-----------------------------------------------------------------------------
(* The end. *)

Alive == phase \notin {"exited", "fatal"}

\* Mutant: the servers are closed without waiting for anybody.
InFlight_Nobody(kinds) == FALSE

InFlight(kinds) ==
    \E c \in Calls : call[c].st \in {"running", "publishing"} /\ call[c].kind \in kinds

\* SIGINT or SIGTERM: health says NOT_SERVING, and Shutdown begins.
Signal ==
    /\ phase = "serving"
    /\ phase' = "shutdown"
    /\ UNCHANGED <<env, parts, deferred, ends, flow>>

\* Serve returns an error, or the process is killed.
Die == Alive /\ Fatal

ShutdownReturns ==
    /\ phase = "shutdown"
    /\ ~InFlight({"http1"})
    /\ phase' = "gracefulStop"
    /\ UNCHANGED <<env, parts, deferred, ends, flow>>

GracefulStopReturns ==
    /\ phase = "gracefulStop"
    /\ ~InFlight({"enqueue", "watch"})
    /\ phase' = "close"
    /\ UNCHANGED <<env, parts, deferred, ends, flow>>

\* A panic runs the deferred calls too.
GracefulStopPanics ==
    /\ phase = "gracefulStop"
    /\ InFlight({"enqueue", "watch"})
    /\ phase' = "close"
    /\ panicked' = TRUE
    /\ UNCHANGED <<env, parts, deferred, stopped, flow>>

\* A topic that is stopped has messages to send, and Stop has not returned.
Flushing == \E e \in outbox : e[2] \in stopped

\* The deferred calls, from the last to the first.  PubSubBackend.Close stops the
\* topics one after the other, each until it has sent its messages, and then
\* closes the client.
StopTopic(p) ==
    /\ phase = "close" /\ deferred # <<>>
    /\ deferred[Len(deferred)] = "backend" /\ backend = "pubsub"
    /\ p \in topics \ stopped
    /\ ~Flushing
    /\ stopped' = stopped \cup {p}
    /\ UNCHANGED <<env, phase, parts, deferred, panicked, flow>>

\* Mutant: the client is closed with a topic running.
MayClose_OneStopped(part) ==
    part = "backend" /\ backend = "pubsub" => (topics = {} \/ stopped # {}) /\ ~Flushing

MayClose(part) == part = "backend" /\ backend = "pubsub" => stopped = topics /\ ~Flushing

CloseLast ==
    /\ phase = "close" /\ deferred # <<>>
    /\ MayClose(deferred[Len(deferred)])
    /\ deferred' = SubSeq(deferred, 1, Len(deferred) - 1)
    /\ UNCHANGED <<env, phase, parts, ends, flow>>

\* main returns; whatever still runs is cut.
Exit ==
    /\ phase = "close" /\ deferred = <<>>
    /\ phase' = "exited"
    /\ call' = Cut
    /\ UNCHANGED <<env, parts, deferred, ends, outbox>>

-----------------------------------------------------------------------------
Main ==
    \/ InitStatsd \/ InitStore \/ InitBackend \/ InitScheduler \/ Listen
    \/ ShutdownReturns \/ GracefulStopReturns \/ CloseLast \/ Exit
    \/ \E p \in topics : StopTopic(p)

Serve(c) == Alive /\ (Publish(c) \/ Refuse(c) \/ AcceptNoop(c) \/ PublishEnds(c))

Next ==
    \/ Main \/ Signal \/ GracefulStopPanics \/ Die
    \/ \E c \in Calls : Serve(c)
    \/ \E c \in Calls : Alive /\ (CtxDone(c) \/ WatchEnds(c))
    \/ \E c \in Calls, k \in Kind : Arrive(c, k)

Spec == Init /\ [][Next]_vars

\* main and the handlers run, and the Pub/Sub client gets an answer in the end.
\* A health watcher need not hang up, and nobody need send a signal.
FairSpec == Spec /\ WF_vars(Main) /\ \A c \in Calls : WF_vars(Serve(c))

-----------------------------------------------------------------------------
(* Properties *)

\* What main builds, in its order.
Parts == <<"statsd", "store", "backend", "sched">>

\* Every variable holds what the code's types allow, and the deferred calls close
\* whatever is built, the last part first.
TypeOK ==
    /\ env \in [Variable -> Seq(STRING)]
    /\ phase \in {"statsd", "storage", "backend", "scheduler", "listen", "serving",
                  "shutdown", "gracefulStop", "close", "exited", "fatal"}
    /\ store \in {"none", "memory", "gcs"}
    /\ backend \in {"none", "noop", "pubsub"}
    /\ sched \in {"none", "noop", "cloudtasks"}
    /\ topics \subseteq {"immediate", "high", "medium", "low"}
    /\ deferred \in Seq({"statsd", "store", "backend", "sched"}) /\ Len(deferred) <= 4
    /\ \A i \in 1 .. Len(deferred) : deferred[i] = Parts[i]
    /\ stopped \subseteq topics /\ panicked \in BOOLEAN
    /\ call \in [Calls -> [st: {"idle", "running", "publishing", "ok", "failed", "cut"},
                          kind: Kind \cup {"none"},
                          target: {"none", "grpc", "callback", "other"}]]
    /\ outbox \subseteq Calls \X topics

\* A shutdown that runs to its end cuts no Enqueue call and no callback that came
\* over HTTP/1: only a callback over HTTP/2, which Cloud Tasks repeats, or
\* anything at all if GracefulStop panicked (main.go:191-193).
CutOnlyCallbacks ==
    phase = "exited" /\ ~panicked =>
        \A c \in Calls : call[c].st = "cut" => call[c].kind = "h2"

\* When the process ends through its deferred calls, even by a panic, every message
\* the Pub/Sub client was handed has been decided: callbacks that still run on
\* hijacked connections while the backend is closed leave nothing behind
\* (PubSubBackend.Close, pubsub.go:221-226).
FlushedAtExit == phase = "exited" => outbox = {}

\* Where the text of a variable is not blank.
Filled(key) == {i \in DOMAIN env[key] : env[key][i] # Blank}

\* A process that serves has the parts its environment asks for: blanks around a
\* value do not turn Pub/Sub, Cloud Storage or Cloud Tasks into a stand-in that
\* drops jobs, nor does a client that could not be created, and nothing but the
\* one word asks for Pub/Sub (main.go:61-127).
NoSilentStandIn ==
    phase = "serving" =>
        /\ backend = "pubsub" <=> \E h \in Filled("QUEUE_BACKEND") :
              env["QUEUE_BACKEND"][h] = "pubsub" /\ Filled("QUEUE_BACKEND") = {h}
        /\ store = "gcs" <=> Filled("GCS_BUCKET") # {}
        /\ sched = "cloudtasks" <=> Filled("CLOUD_TASKS_PROJECT") # {}

\* A text that is one host and the slashes after it, with blanks around them.
OnlyHost(t) ==
    \E h, e \in DOMAIN t :
        /\ h <= e /\ t[h] \notin {Blank, Slash}
        /\ \A i \in DOMAIN t : IF i < h \/ i > e THEN t[i] = Blank
                               ELSE i = h \/ t[i] = Slash

\* A callback reaches its handler over HTTP/1 and over HTTP/2, and an Enqueue call
\* the gRPC server, whatever slashes and blanks end the base URL
\* (main.go:158-164, cloudtasks.go:50, callback.go:34).
CallbackRouted ==
    \A c \in Calls :
        /\ call[c].kind \in {"enqueue", "watch"} => call[c].target = "grpc"
        /\ call[c].kind \in {"http1", "h2"} /\ OnlyHost(env["CALLBACK_BASE_URL"])
              => call[c].target = "callback"

\* After a signal the process exits or dies, unless somebody keeps watching its
\* health: no call that runs, fails or comes in late blocks it
\* (main.go:188-196).
ShutdownEnds ==
    phase = "shutdown" ~> \/ ~Alive
                          \/ \E c \in Calls : /\ call[c].kind = "watch"
                                             /\ call[c].st = "running"

\* README.md:181 starts the service with a bucket, QUEUE_BACKEND and
\* PUBSUB_PROJECT alone, and README.md:75 says that jobs are then routed to
\* priority queues: every priority would have a topic to go to.
EveryPriorityRouted ==
    phase = "serving" /\ backend = "pubsub" => \A p \in DOMAIN TopicOf : HasTopic(p)
=============================================================================
