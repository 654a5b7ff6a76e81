-------------------------- MODULE LifecycleProofs ---------------------------
(***************************************************************************)
(* Proofs about Lifecycle, for every set of environments and of calls.     *)
(*                                                                         *)
(* Neither property of the end of the process is inductive: the end says   *)
(* nothing of how it was reached.  LifeInv adds what each phase of main    *)
(* has behind it: which parts are built, that the topics are stopped and   *)
(* empty once the backend is off the stack of deferred calls, and which    *)
(* kinds of call the servers have drained.                                 *)
(***************************************************************************)
EXTENDS Lifecycle, Induction, SequenceTheorems, TLAPS

\* While main builds, it has the parts built so far; later it has them all, until
\* it closes them.
Stacked ==
    /\ phase = "statsd" => Len(deferred) = 0
    /\ phase = "storage" => Len(deferred) = 1
    /\ phase = "backend" => Len(deferred) = 2
    /\ phase = "scheduler" => Len(deferred) = 3
    /\ phase \in {"listen", "serving", "shutdown", "gracefulStop"} => Len(deferred) = 4
    /\ phase = "exited" => Len(deferred) = 0

\* Only Pub/Sub has messages to send.
OnlyPubSub ==
    /\ phase \in {"statsd", "storage", "backend"} => backend = "none" /\ topics = {}
    /\ outbox # {} => backend = "pubsub"

\* Once the backend is closed its topics are stopped and empty.
Flushed ==
    phase \in {"close", "exited"} /\ Len(deferred) < 3 /\ backend = "pubsub" =>
        stopped = topics /\ outbox = {}

\* What the servers waited for before main went on.
Drained ==
    /\ phase = "gracefulStop" => ~InFlight({"http1"})
    /\ phase = "close" => ~InFlight({"http1"})
    /\ phase = "close" /\ ~panicked => ~InFlight({"enqueue", "watch"})

\* A call that came in has a kind, and only the end of the process cuts one.
CutAtEnd ==
    \A c \in Calls :
        /\ call[c].kind = "none" => call[c].st = "idle"
        /\ call[c].st = "cut" => phase \in {"exited", "fatal"}

LifeInv ==
    /\ TypeOK /\ Stacked /\ OnlyPubSub /\ Flushed /\ Drained /\ CutAtEnd
    /\ CutOnlyCallbacks

-----------------------------------------------------------------------------
(* The stack of deferred calls. *)

Part == {"statsd", "store", "backend", "sched"}

\* deferred holds the first parts main built.
Stack(s) == s \in Seq(Part) /\ Len(s) <= 4 /\ \A i \in 1 .. Len(s) : s[i] = Parts[i]

\* Built puts the next part on the stack.
LEMMA Push ==
    ASSUME NEW s, NEW n \in 0 .. 3, NEW part, Stack(s), Len(s) = n, part = Parts[n + 1]
    PROVE  Stack(Append(s, part)) /\ Len(Append(s, part)) = n + 1
  <1>1. part \in Part
    BY n = 0 \/ n = 1 \/ n = 2 \/ n = 3 DEF Parts, Part
  <1>2. Append(s, part) \in Seq(Part) /\ Len(Append(s, part)) = n + 1
    BY <1>1 DEF Stack
  <1>3. \A i \in 1 .. n + 1 : Append(s, part)[i] = Parts[i]
    BY <1>1 DEF Stack
  <1>. QED
    BY <1>2, <1>3 DEF Stack

\* Built as a step.
LEMMA BuiltStep ==
    ASSUME Stack(deferred), NEW n \in 0 .. 3, Len(deferred) = n,
           NEW part, part = Parts[n + 1], NEW next, Built(part, next)
    PROVE  Stack(deferred') /\ Len(deferred') = n + 1 /\ phase' = next
  BY Push DEF Built

\* CloseLast takes the last part off the stack.
LEMMA Pop ==
    ASSUME NEW s, Stack(s), s # <<>>
    PROVE  /\ Stack(SubSeq(s, 1, Len(s) - 1))
           /\ Len(SubSeq(s, 1, Len(s) - 1)) = Len(s) - 1
           /\ Len(s) \in 1 .. 4
  <1>. DEFINE n == Len(s) - 1
              r == SubSeq(s, 1, n)
  <1>0. Len(s) \in Nat /\ Len(s) <= 4 /\ Len(s) # 0
    BY DEF Stack
  <1>1. n \in Nat /\ n <= 4 /\ \A i \in 1 .. n : s[i] \in Part /\ s[i] = Parts[i]
    BY DEF Stack
  <1>. HIDE DEF n
  <1>2. /\ r \in Seq(Part)
        /\ Len(r) = IF 1 <= n THEN n - 1 + 1 ELSE 0
        /\ \A i \in 1 .. n - 1 + 1 : r[i] = s[1 + i - 1]
    BY <1>1, SubSeqProperties
  <1>. HIDE DEF r
  <1>3. Len(r) = n
    BY <1>1, <1>2
  <1>4. ASSUME NEW i \in 1 .. n PROVE r[i] = Parts[i]
    <2>1. i \in 1 .. n - 1 + 1 /\ 1 + i - 1 = i
      BY <1>1
    <2>. QED
      BY <1>1, <1>2, <2>1
  <1>5. Stack(r)
    BY <1>1, <1>2, <1>3, <1>4 DEF Stack
  <1>6. Len(s) \in 1 .. 4
    <2>1. \A k \in Nat : k # 0 /\ k <= 4 => k \in 1 .. 4
      OBVIOUS
    <2>. QED
      BY <1>0, <2>1, Zenon
  <1>. QED
    BY <1>3, <1>5, <1>6 DEF r, n

-----------------------------------------------------------------------------
(* Types. *)

\* The conjuncts of TypeOK that are not about the calls.
TypeOfMain ==
    /\ env \in [Variable -> Seq(STRING)]
    /\ phase \in {"statsd", "storage", "backend", "scheduler", "listen", "serving",
                  "shutdown", "gracefulStop", "close", "exited", "fatal"}
    /\ store \in {"none", "memory", "gcs"}
    /\ backend \in {"none", "noop", "pubsub"}
    /\ sched \in {"none", "noop", "cloudtasks"}
    /\ topics \subseteq {"immediate", "high", "medium", "low"}
    /\ stopped \subseteq topics /\ panicked \in BOOLEAN
    /\ outbox \subseteq Calls \X topics

Status == {"idle", "running", "publishing", "ok", "failed", "cut"}
CallType == [st: Status, kind: Kind \cup {"none"},
             target: {"none", "grpc", "callback", "other"}]

TypeOfCalls == call \in [Calls -> CallType]

\* The parts of the type invariant.
LEMMA TypeParts == TypeOK <=> TypeOfMain /\ Stack(deferred) /\ TypeOfCalls
  BY DEF TypeOK, TypeOfMain, TypeOfCalls, Stack, Part, CallType, Status
-----------------------------------------------------------------------------
(* One step. *)

\* Calls are served without main.
LEMMA CallsQuiet ==
    ASSUME NEW c \in Calls, NEW k \in Kind,
           Serve(c) \/ CtxDone(c) \/ WatchEnds(c) \/ Arrive(c, k)
    PROVE  UNCHANGED <<env, phase, parts, deferred, ends>>
  BY DEF Serve, Publish, Refuse, AcceptNoop, PublishEnds, CtxDone, WatchEnds, Arrive

\* The stack holds what the phase says.
LEMMA StackStep ==
    ASSUME Stack(deferred), Stacked, [Next]_vars
    PROVE  Stack(deferred') /\ Stacked'
  <1>f. ASSUME Fatal PROVE Stack(deferred') /\ Stacked'
    BY <1>f DEF Fatal, Stacked
  <1>1. CASE InitStatsd
    <2>1. CASE Built("statsd", "storage")
      <3>1. Len(deferred) = 0
        BY <1>1 DEF InitStatsd, Stacked
      <3>2. "statsd" = Parts[0 + 1]
        BY DEF Parts
      <3>3. Stack(deferred') /\ Len(deferred') = 1 /\ phase' = "storage"
        BY <2>1, <3>1, <3>2, BuiltStep
      <3>. QED
        BY <3>3 DEF Stacked
    <2>. QED
      BY <1>1, <2>1, <1>f DEF InitStatsd
  <1>2. CASE InitStore
    <2>1. CASE Built("store", "backend")
      <3>1. Len(deferred) = 1
        BY <1>2 DEF InitStore, Stacked
      <3>2. "store" = Parts[1 + 1]
        BY DEF Parts
      <3>3. Stack(deferred') /\ Len(deferred') = 2 /\ phase' = "backend"
        BY <2>1, <3>1, <3>2, BuiltStep
      <3>. QED
        BY <3>3 DEF Stacked
    <2>. QED
      BY <1>2, <2>1, <1>f DEF InitStore
  <1>3. CASE InitBackend
    <2>1. CASE Built("backend", "scheduler")
      <3>1. Len(deferred) = 2
        BY <1>3 DEF InitBackend, Stacked
      <3>2. "backend" = Parts[2 + 1]
        BY DEF Parts
      <3>3. Stack(deferred') /\ Len(deferred') = 3 /\ phase' = "scheduler"
        BY <2>1, <3>1, <3>2, BuiltStep
      <3>. QED
        BY <3>3 DEF Stacked
    <2>. QED
      BY <1>3, <2>1, <1>f DEF InitBackend
  <1>4. CASE InitScheduler
    <2>1. CASE Built("sched", "listen")
      <3>1. Len(deferred) = 3
        BY <1>4 DEF InitScheduler, Stacked
      <3>2. "sched" = Parts[3 + 1]
        BY DEF Parts
      <3>3. Stack(deferred') /\ Len(deferred') = 4 /\ phase' = "listen"
        BY <2>1, <3>1, <3>2, BuiltStep
      <3>. QED
        BY <3>3 DEF Stacked
    <2>. QED
      BY <1>4, <2>1, <1>f DEF InitScheduler
  <1>5. CASE CloseLast
    <2>1. Stack(deferred')
      BY <1>5, Pop DEF CloseLast
    <2>. QED
      BY <1>5, <2>1 DEF CloseLast, Stacked
  <1>6. CASE Exit
    <2>1. phase' = "exited" /\ deferred' = deferred /\ Len(deferred) = 0
      BY <1>6 DEF Exit
    <2>. QED
      BY <2>1 DEF Stacked
  <1>7. CASE Listen
    <2>1. Fatal \/ (phase = "listen" /\ phase' = "serving" /\ deferred' = deferred)
      BY <1>7 DEF Listen
    <2>. QED
      BY <2>1, <1>f DEF Stacked
  <1>12. CASE Signal \/ ShutdownReturns
    BY <1>12 DEF Signal, ShutdownReturns, Stacked
  <1>11. CASE GracefulStopReturns \/ GracefulStopPanics \/ (\E p \in topics : StopTopic(p)) \/ Die
    <2>1. Fatal \/ (phase' = "close" /\ deferred' = deferred)
      BY <1>11 DEF GracefulStopReturns, GracefulStopPanics, StopTopic, Die
    <2>. QED
      BY <2>1, <1>f DEF Stacked
  <1>8. ASSUME NEW c \in Calls, NEW k \in Kind,
               Serve(c) \/ CtxDone(c) \/ WatchEnds(c) \/ Arrive(c, k)
        PROVE  Stack(deferred') /\ Stacked'
    BY <1>8, CallsQuiet DEF Stacked
  <1>9. CASE UNCHANGED vars
    BY <1>9 DEF vars, Stacked
  <1>10. "h2" \in Kind
    BY DEF Kind
  <1>. QED
    BY <1>1, <1>2, <1>3, <1>4, <1>5, <1>6, <1>7, <1>8, <1>9, <1>10, <1>11, <1>12 DEF Next, Main

\* The configuration has no part in the types.
LEMMA TypeStep ==
    ASSUME TypeOfMain, OnlyPubSub, [Next]_vars PROVE TypeOfMain'
  <1>f. ASSUME Fatal PROVE TypeOfMain'
    BY <1>f DEF Fatal, TypeOfMain, parts, ends
  <1>1. CASE InitStatsd
    BY <1>1, <1>f DEF InitStatsd, Built, TypeOfMain, parts, ends, flow
  <1>2. CASE InitStore
    BY <1>2, <1>f DEF InitStore, Built, TypeOfMain, parts, ends, flow
  <1>3. CASE InitBackend
    <2>1. {p \in DOMAIN TopicOf : TopicOf[p] # <<>>} \subseteq {"immediate", "high", "medium", "low"}
      BY DEF TopicOf
    <2>2. stopped = {} /\ outbox = {}
      BY <1>3 DEF InitBackend, OnlyPubSub, TypeOfMain
    <2>. QED
      BY <1>3, <1>f, <2>1, <2>2 DEF InitBackend, Built, TypeOfMain, parts, ends, flow
  <1>4. CASE InitScheduler
    BY <1>4, <1>f DEF InitScheduler, Built, TypeOfMain, parts, ends, flow
  <1>5. CASE Listen \/ Die
    BY <1>5, <1>f DEF Listen, Die, TypeOfMain, parts, ends, flow
  <1>6. CASE Signal \/ ShutdownReturns \/ GracefulStopReturns \/ GracefulStopPanics
    BY <1>6 DEF Signal, ShutdownReturns, GracefulStopReturns, GracefulStopPanics,
                TypeOfMain, parts, ends, flow
  <1>7. CASE (\E p \in topics : StopTopic(p)) \/ CloseLast \/ Exit
    BY <1>7 DEF StopTopic, CloseLast, Exit, TypeOfMain, parts, ends, flow
  <1>8. ASSUME NEW c \in Calls, NEW k \in Kind,
               Serve(c) \/ CtxDone(c) \/ WatchEnds(c) \/ Arrive(c, k)
        PROVE  TypeOfMain'
    <2>1. UNCHANGED <<env, phase, parts, deferred, ends>>
      BY <1>8, CallsQuiet
    <2>2. CASE Publish(c)
      <3>1. PICK p \in DOMAIN TopicOf : /\ HasTopic(p)
                                        /\ outbox' = outbox \cup {<<c, topicFor(p)>>}
        BY <2>2 DEF Publish
      <3>2. topicFor(p) \in topics
        BY <3>1 DEF HasTopic, topicFor
      <3>. QED
        BY <2>1, <3>1, <3>2 DEF TypeOfMain, parts, ends
    <2>3. CASE ~Publish(c)
      <3>1. outbox' \subseteq outbox
        BY <1>8, <2>3 DEF Serve, Refuse, AcceptNoop, PublishEnds, CtxDone, WatchEnds, Arrive
      <3>. QED
        BY <2>1, <3>1 DEF TypeOfMain, parts, ends
    <2>. QED
      BY <2>2, <2>3
  <1>9. CASE UNCHANGED vars
    BY <1>9 DEF vars, TypeOfMain, parts, ends, flow
  <1>10. "h2" \in Kind
    BY DEF Kind
  <1>. QED
    BY <1>1, <1>2, <1>3, <1>4, <1>5, <1>6, <1>7, <1>8, <1>9, <1>10 DEF Next, Main

-----------------------------------------------------------------------------
(* The calls. *)

\* A step that serves a call moves it on, and no other one.
LEMMA ServeMoves ==
    ASSUME NEW c \in Calls, Serve(c) \/ CtxDone(c) \/ WatchEnds(c)
    PROVE  \/ UNCHANGED call
           \/ /\ call[c].st \in {"running", "publishing"}
              /\ \E s \in {"publishing", "ok", "failed"} : call' = [call EXCEPT ![c].st = s]
  <1>1. CASE Publish(c) \/ Refuse(c) \/ AcceptNoop(c) \/ CtxDone(c) \/ WatchEnds(c)
    BY <1>1 DEF Publish, Refuse, AcceptNoop, CtxDone, WatchEnds, Answer
  <1>2. CASE PublishEnds(c)
    BY <1>2 DEF PublishEnds, Answer
  <1>. QED
    BY <1>1, <1>2 DEF Serve

\* A step of main leaves the calls alone, or ends the process and cuts them.
LEMMA MainMoves ==
    ASSUME Main \/ Signal \/ GracefulStopPanics \/ Die
    PROVE  UNCHANGED call \/ (call' = Cut /\ phase' \in {"exited", "fatal"})
  <1>f. ASSUME Fatal PROVE call' = Cut /\ phase' \in {"exited", "fatal"}
    BY <1>f DEF Fatal
  <1>1. CASE InitStatsd \/ InitStore
    BY <1>1, <1>f DEF InitStatsd, InitStore, Built, flow
  <1>2. CASE InitBackend \/ InitScheduler
    BY <1>2, <1>f DEF InitBackend, InitScheduler, Built, flow
  <1>3. CASE Listen \/ Die
    BY <1>3, <1>f DEF Listen, Die, flow
  <1>4. CASE Signal \/ ShutdownReturns \/ GracefulStopReturns \/ GracefulStopPanics
    BY <1>4 DEF Signal, ShutdownReturns, GracefulStopReturns, GracefulStopPanics, flow
  <1>5. CASE (\E p \in topics : StopTopic(p)) \/ CloseLast \/ Exit
    BY <1>5 DEF StopTopic, CloseLast, Exit, flow
  <1>. QED
    BY <1>1, <1>2, <1>3, <1>4, <1>5 DEF Main

\* The combined handler sends every request somewhere.
LEMMA TargetType == ASSUME NEW k PROVE Target(k) \in {"grpc", "callback", "other"}
  <1>1. \A major, grpc, path : Handle(major, grpc, path) \in {"grpc", "callback", "other"}
    BY DEF Handle
  <1>. HIDE DEF Handle
  <1>. QED
    BY <1>1 DEF Target

\* The calls keep their type.
LEMMA CallTypeStep ==
    ASSUME TypeOfCalls, [Next]_vars PROVE TypeOfCalls'
  <1>1. ASSUME call' = Cut PROVE TypeOfCalls'
    BY <1>1 DEF Cut, TypeOfCalls, CallType, Status
  <1>2. CASE Main \/ Signal \/ GracefulStopPanics \/ Die
    BY <1>1, <1>2, MainMoves DEF TypeOfCalls
  <1>3. ASSUME NEW c \in Calls, Serve(c) \/ CtxDone(c) \/ WatchEnds(c)
        PROVE  TypeOfCalls'
    BY <1>3, ServeMoves DEF TypeOfCalls, CallType, Status
  <1>4. ASSUME NEW c \in Calls, NEW k \in Kind, Arrive(c, k)
        PROVE  TypeOfCalls'
    BY <1>4, TargetType DEF Arrive, TypeOfCalls, CallType, Status
  <1>5. CASE UNCHANGED vars
    BY <1>5 DEF vars, flow, TypeOfCalls
  <1>. QED
    BY <1>2, <1>3, <1>4, <1>5 DEF Next

-----------------------------------------------------------------------------
(* What is flushed, drained and cut. *)

\* Only Pub/Sub's calls have a message, and closing the backend leaves none.
LEMMA FlushStep ==
    ASSUME TypeOK, Stacked, OnlyPubSub, Flushed, [Next]_vars
    PROVE  OnlyPubSub' /\ Flushed'
  <1>. DEFINE Goal == OnlyPubSub /\ Flushed
  <1>f. ASSUME Fatal PROVE Goal'
    BY <1>f DEF Fatal, OnlyPubSub, Flushed, parts, ends
  <1>1. CASE InitStatsd
    BY <1>1, <1>f DEF InitStatsd, Built, OnlyPubSub, Flushed, parts, ends, flow
  <1>2. CASE InitStore
    BY <1>2, <1>f DEF InitStore, Built, OnlyPubSub, Flushed, parts, ends, flow
  <1>3. CASE InitBackend
    BY <1>3, <1>f DEF InitBackend, Built, OnlyPubSub, Flushed, parts, ends, flow
  <1>4. CASE InitScheduler
    BY <1>4, <1>f DEF InitScheduler, Built, OnlyPubSub, Flushed, parts, ends, flow
  <1>5. CASE Listen \/ Die
    BY <1>5, <1>f DEF Listen, Die, OnlyPubSub, Flushed, parts, ends, flow
  <1>6. CASE Signal \/ ShutdownReturns
    BY <1>6 DEF Signal, ShutdownReturns, OnlyPubSub, Flushed, parts, ends, flow
  <1>7. CASE GracefulStopReturns \/ GracefulStopPanics
    <2>1. phase = "gracefulStop" /\ phase' = "close" /\ UNCHANGED <<deferred, backend, outbox>>
      BY <1>7 DEF GracefulStopReturns, GracefulStopPanics, parts, flow
    <2>2. Len(deferred') = 4
      BY <2>1 DEF Stacked
    <2>. QED
      BY <2>1, <2>2 DEF OnlyPubSub, Flushed
  <1>8. ASSUME NEW p \in topics, StopTopic(p) PROVE Goal'
    BY <1>8 DEF StopTopic, OnlyPubSub, Flushed, parts, flow
  <1>9. CASE CloseLast
    <2>1. deferred # <<>> /\ Stack(deferred)
      BY <1>9, TypeParts DEF CloseLast
    <2>2. Len(deferred) \in 1 .. 4 /\ Len(deferred') = Len(deferred) - 1
      BY <1>9, <2>1, Pop DEF CloseLast
    <2>3. Len(deferred) = 3 => deferred[Len(deferred)] = "backend"
      BY <2>1, <2>2 DEF Stack, Parts
    <2>4. Len(deferred) = 3 /\ backend = "pubsub" => stopped = topics /\ ~Flushing
      BY <1>9, <2>3 DEF CloseLast, MayClose
    <2>a. stopped = topics /\ ~Flushing => outbox = {}
      BY DEF Flushing, TypeOK
    <2>5. UNCHANGED <<phase, backend, topics, stopped, outbox>>
      BY <1>9 DEF CloseLast, parts, ends, flow
    <2>6. Flushed'
      BY <2>2, <2>4, <2>a, <2>5 DEF Flushed
    <2>. QED
      BY <2>5, <2>6 DEF OnlyPubSub
  <1>10. CASE Exit
    BY <1>10 DEF Exit, OnlyPubSub, Flushed, parts, ends
  <1>11. ASSUME NEW c \in Calls, NEW k \in Kind,
                Serve(c) \/ CtxDone(c) \/ WatchEnds(c) \/ Arrive(c, k)
         PROVE  Goal'
    <2>1. UNCHANGED <<phase, deferred, backend, topics, stopped>>
      BY <1>11, CallsQuiet DEF parts, ends
    <2>2. \/ outbox' \subseteq outbox
          \/ backend = "pubsub" /\ \E p : topicFor(p) \in topics \ stopped
      BY <1>11 DEF Serve, Publish, Refuse, AcceptNoop, PublishEnds, CtxDone, WatchEnds, Arrive,
                   HasTopic, topicFor
    <2>. QED
      BY <2>1, <2>2 DEF OnlyPubSub, Flushed
  <1>12. CASE UNCHANGED vars
    BY <1>12 DEF vars, OnlyPubSub, Flushed, parts, ends, flow
  <1>13. "h2" \in Kind
    BY DEF Kind
  <1>. QED
    BY <1>1, <1>2, <1>3, <1>4, <1>5, <1>6, <1>7, <1>8, <1>9, <1>10, <1>11, <1>12, <1>13
    DEF Next, Main

\* Serving a call brings no other one into flight.
LEMMA FlightShrinks ==
    ASSUME TypeOfCalls, NEW c \in Calls, Serve(c) \/ CtxDone(c) \/ WatchEnds(c), NEW kinds
    PROVE  InFlight(kinds)' => InFlight(kinds)
  BY ServeMoves DEF InFlight, TypeOfCalls, CallType

\* Only a callback over HTTP/2 comes in once the servers drain.
LEMMA FlightGrows ==
    ASSUME TypeOfCalls, NEW c \in Calls, NEW k \in Kind, Arrive(c, k), NEW kinds,
           phase \in {"gracefulStop", "close"}, "h2" \notin kinds
    PROVE  InFlight(kinds)' => InFlight(kinds)
  <1>1. k = "h2"
    BY DEF Arrive, Reachable
  <1>. QED
    BY <1>1 DEF Arrive, InFlight, TypeOfCalls, CallType

\* What the servers waited for stays drained.
LEMMA DrainStep ==
    ASSUME TypeOfCalls, Drained, [Next]_vars
    PROVE  Drained'
  <1>f. ASSUME Fatal PROVE Drained'
    BY <1>f DEF Fatal, Drained
  <1>1. CASE InitStatsd \/ InitStore
    BY <1>1, <1>f DEF InitStatsd, InitStore, Built, Drained
  <1>2. CASE InitBackend \/ InitScheduler
    BY <1>2, <1>f DEF InitBackend, InitScheduler, Built, Drained
  <1>3. CASE Listen \/ Die
    BY <1>3, <1>f DEF Listen, Die, Drained
  <1>4. CASE Signal \/ Exit
    BY <1>4 DEF Signal, Exit, Drained
  <1>5. CASE ShutdownReturns
    BY <1>5 DEF ShutdownReturns, Drained, InFlight, flow
  <1>6. CASE GracefulStopReturns
    BY <1>6 DEF GracefulStopReturns, Drained, InFlight, flow
  <1>7. CASE GracefulStopPanics
    BY <1>7 DEF GracefulStopPanics, Drained, InFlight, flow
  <1>8. CASE (\E p \in topics : StopTopic(p)) \/ CloseLast
    BY <1>8 DEF StopTopic, CloseLast, Drained, InFlight, flow, ends
  <1>9. ASSUME NEW c \in Calls, Serve(c) \/ CtxDone(c) \/ WatchEnds(c)
        PROVE  Drained'
    <2>1. UNCHANGED <<phase, panicked>>
      BY <1>9, CallsQuiet DEF ends, Kind
    <2>. QED
      BY <1>9, <2>1, FlightShrinks DEF Drained
  <1>10. ASSUME NEW c \in Calls, NEW k \in Kind, Arrive(c, k)
         PROVE  Drained'
    <2>1. UNCHANGED <<phase, panicked>>
      BY <1>10, CallsQuiet DEF ends
    <2>2. phase \in {"gracefulStop", "close"} =>
             /\ InFlight({"http1"})' => InFlight({"http1"})
             /\ InFlight({"enqueue", "watch"})' => InFlight({"enqueue", "watch"})
      BY <1>10, FlightGrows
    <2>. QED
      BY <2>1, <2>2 DEF Drained
  <1>11. CASE UNCHANGED vars
    BY <1>11 DEF vars, Drained, InFlight, flow, ends
  <1>. QED
    BY <1>1, <1>2, <1>3, <1>4, <1>5, <1>6, <1>7, <1>8, <1>9, <1>10, <1>11 DEF Next, Main

\* A step cuts calls at the end only, and then only those nobody waited for.
LEMMA CutStep ==
    ASSUME TypeOK, Drained, CutAtEnd, CutOnlyCallbacks, [Next]_vars
    PROVE  CutAtEnd' /\ CutOnlyCallbacks'
  <1>t. TypeOfCalls
    BY TypeParts
  <1>1. CASE Exit
    <2>1. phase = "close" /\ phase' = "exited" /\ call' = Cut /\ panicked' = panicked
      BY <1>1 DEF Exit, ends
    <2>2. CutAtEnd'
      BY <1>t, <2>1 DEF CutAtEnd, Cut, TypeOfCalls, CallType
    <2>3. ASSUME NEW c \in Calls, ~panicked, call'[c].st = "cut"
          PROVE  call'[c].kind = "h2"
      <3>1. call[c].st \in {"running", "publishing"} /\ call'[c].kind = call[c].kind
        BY <1>t, <2>1, <2>3 DEF Cut, CutAtEnd, TypeOfCalls, CallType
      <3>2. call[c].kind \notin {"http1", "enqueue", "watch"}
        BY <2>1, <2>3, <3>1 DEF Drained, InFlight
      <3>3. call[c].kind \in Kind
        BY <1>t, <3>1 DEF CutAtEnd, TypeOfCalls, CallType
      <3>. QED
        BY <3>1, <3>2, <3>3 DEF Kind
    <2>4. CutOnlyCallbacks'
      BY <2>1, <2>3 DEF CutOnlyCallbacks
    <2>. QED
      BY <2>2, <2>4
  <1>2. CASE Fatal
    BY <1>t, <1>2 DEF Fatal, CutAtEnd, CutOnlyCallbacks, Cut, TypeOfCalls, CallType
  <1>. DEFINE Running == {"statsd", "storage", "backend", "scheduler", "listen",
                          "serving", "shutdown", "gracefulStop", "close"}
  <1>3. ASSUME phase \in Running, phase' \in Running, UNCHANGED call
        PROVE  CutAtEnd' /\ CutOnlyCallbacks'
    BY <1>3 DEF CutAtEnd, CutOnlyCallbacks
  <1>4. CASE InitStatsd \/ InitStore
    BY <1>2, <1>3, <1>4 DEF InitStatsd, InitStore, Built, flow
  <1>5. CASE InitBackend \/ InitScheduler
    BY <1>2, <1>3, <1>5 DEF InitBackend, InitScheduler, Built, flow
  <1>6. CASE Listen \/ Die
    BY <1>2, <1>3, <1>6 DEF Listen, Die, flow
  <1>7. CASE Signal \/ ShutdownReturns \/ GracefulStopReturns \/ GracefulStopPanics
    BY <1>3, <1>7 DEF Signal, ShutdownReturns, GracefulStopReturns, GracefulStopPanics, flow
  <1>8. CASE (\E p \in topics : StopTopic(p)) \/ CloseLast
    BY <1>3, <1>8 DEF StopTopic, CloseLast, flow
  <1>9. ASSUME NEW c \in Calls, Alive, Serve(c) \/ CtxDone(c) \/ WatchEnds(c)
        PROVE  CutAtEnd' /\ CutOnlyCallbacks'
    <2>1. phase' = phase
      BY <1>9, CallsQuiet DEF Kind
    <2>2. CutAtEnd'
      BY <1>t, <1>9, <2>1, ServeMoves DEF CutAtEnd, TypeOfCalls, CallType
    <2>. QED
      BY <1>9, <2>1, <2>2 DEF Alive, CutOnlyCallbacks
  <1>10. ASSUME NEW c \in Calls, NEW k \in Kind, Arrive(c, k)
         PROVE  CutAtEnd' /\ CutOnlyCallbacks'
    <2>1. phase' = phase /\ phase # "exited"
      BY <1>10 DEF Arrive, Reachable
    <2>2. k # "none"
      BY DEF Kind
    <2>3. CutAtEnd'
      BY <1>t, <1>10, <2>1, <2>2 DEF Arrive, CutAtEnd, TypeOfCalls, CallType
    <2>. QED
      BY <2>1, <2>3 DEF CutOnlyCallbacks
  <1>11. CASE UNCHANGED vars
    BY <1>11 DEF vars, CutAtEnd, CutOnlyCallbacks, flow, ends
  <1>. QED
    BY <1>1, <1>4, <1>5, <1>6, <1>7, <1>8, <1>9, <1>10, <1>11 DEF Next, Main, Serve

-----------------------------------------------------------------------------
(* The theorems. *)

\* A process that has just started satisfies the invariant.
LEMMA InitLife == Init => LifeInv
  <1>. SUFFICES ASSUME Init PROVE LifeInv
    OBVIOUS
  <1>1. TypeOfMain
    BY EnvironmentAssumption DEF EnvironmentAssumption, Init, TypeOfMain
  <1>2. Stack(deferred) /\ Len(deferred) = 0
    BY DEF Init, Stack
  <1>3. TypeOfCalls
    BY DEF Init, TypeOfCalls, CallType, Status
  <1>4. TypeOK
    BY <1>1, <1>2, <1>3, TypeParts
  <1>5. Stacked /\ OnlyPubSub /\ Flushed /\ Drained
    BY <1>2 DEF Init, Stacked, OnlyPubSub, Flushed, Drained
  <1>6. CutAtEnd /\ CutOnlyCallbacks
    BY DEF Init, CutAtEnd, CutOnlyCallbacks
  <1>. QED
    BY <1>4, <1>5, <1>6 DEF LifeInv

\* Every step of the process keeps the invariant.
LEMMA NextLife == LifeInv /\ [Next]_vars => LifeInv'
  <1>. SUFFICES ASSUME LifeInv, [Next]_vars PROVE LifeInv'
    OBVIOUS
  <1>. USE DEF LifeInv
  <1>1. TypeOfMain /\ Stack(deferred) /\ TypeOfCalls
    BY TypeParts
  <1>2. TypeOfMain' /\ Stack(deferred') /\ Stacked' /\ TypeOfCalls'
    BY <1>1, TypeStep, StackStep, CallTypeStep
  <1>3. TypeOK'
    BY <1>2 DEF TypeOK, TypeOfMain, TypeOfCalls, Stack, Part, CallType, Status
  <1>4. OnlyPubSub' /\ Flushed'
    BY FlushStep
  <1>5. Drained' /\ CutAtEnd' /\ CutOnlyCallbacks'
    BY <1>1, DrainStep, CutStep
  <1>. QED
    BY <1>2, <1>3, <1>4, <1>5

\* The invariant holds throughout.
LEMMA LifeAlways == Spec => []LifeInv
  BY InitLife, NextLife, PTL DEF Spec

\* Every variable keeps its type, and the stack of deferred Close calls in main
\* (main.go:50-127) is always the parts built so far, in their order.
THEOREM LifecycleTypeCorrect == Spec => []TypeOK
  <1>1. LifeInv => TypeOK
    BY DEF LifeInv
  <1>. QED
    BY <1>1, LifeAlways, PTL

\* Whatever the environment and however many calls come in, also while the parts
\* are closed, a process that ends through its deferred calls leaves no message
\* with the Pub/Sub client (PubSubBackend.Close, pubsub.go:221-226).
THEOREM ExitFlushes == Spec => []FlushedAtExit
  <1>1. LifeInv => FlushedAtExit
    BY DEF LifeInv, TypeOK, Stacked, OnlyPubSub, Flushed, FlushedAtExit
  <1>. QED
    BY <1>1, LifeAlways, PTL

\* Whatever the environment and however many calls come in, an orderly shutdown
\* cuts nothing but callbacks over HTTP/2 (main.go:191-193).
THEOREM ShutdownCutsCallbacksOnly == Spec => []CutOnlyCallbacks
  <1>1. LifeInv => CutOnlyCallbacks
    BY DEF LifeInv
  <1>. QED
    BY <1>1, LifeAlways, PTL

-----------------------------------------------------------------------------
(* What the text of the environment makes of the process.  Trimming is     *)
(* defined with the first and the last position that is not blank; that    *)
(* they exist is an induction on the length of the text.                   *)

\* Min and Max are what they are called.
LEMMA MinMax ==
    ASSUME NEW n \in Nat, NEW S, S \subseteq 1 .. n, S # {}
    PROVE  /\ Min(S) \in S /\ \A y \in S : Min(S) <= y
           /\ Max(S) \in S /\ \A y \in S : Max(S) >= y
<1>0. S \subseteq Nat
  <2>1. 1 .. n \subseteq Nat
    OBVIOUS
  <2> QED BY <2>1
<1>1. \E x \in S : \A y \in S : x <= y
  BY <1>0, Smallest
<1>2. \E x \in S : \A y \in S : x >= y
  BY Largest
<1>3. Min(S) \in S /\ \A y \in S : Min(S) <= y
  BY <1>1 DEF Min
<1>4. Max(S) \in S /\ \A y \in S : Max(S) >= y
  BY <1>2 DEF Max
<1> QED BY <1>3, <1>4

\* The two tokens that are trimmed differ.
LEMMA BlankNotSlash == Blank # Slash
BY Zenon DEF Blank, Slash

\* The positions of a text.
LEMMA TextDomain ==
    ASSUME NEW A, NEW t \in Seq(A)
    PROVE  Len(t) \in Nat /\ DOMAIN t = 1 .. Len(t) /\ 1 .. Len(t) \subseteq Nat
<1>1. \A k \in Nat : 1 .. k \subseteq Nat
  OBVIOUS
<1>2. Len(t) \in Nat /\ DOMAIN t = 1 .. Len(t)
  OBVIOUS
<1> QED BY <1>1, <1>2

\* A text of one token.
LEMMA Single ==
    ASSUME NEW A, NEW s \in Seq(A), Len(s) = 1
    PROVE  s = <<s[1]>>
<1>1. DOMAIN s = {1} /\ s[1] \in A
  OBVIOUS
<1>2. /\ <<s[1]>> \in Seq(A)
      /\ Len(<<s[1]>>) = 1 /\ <<s[1]>>[1] = s[1]
  BY <1>1
<1>3. \A i \in 1 .. Len(s) : s[i] = <<s[1]>>[i]
  BY <1>2
<1> QED BY <1>2, <1>3, SeqEqual

\* A part of a text.
LEMMA Cutout ==
    ASSUME NEW A, NEW t \in Seq(A), NEW m \in DOMAIN t, NEW e \in DOMAIN t, m <= e
    PROVE  /\ SubSeq(t, m, e) \in Seq(A)
           /\ Len(SubSeq(t, m, e)) = e - m + 1
           /\ \A i \in 1 .. e - m + 1 : SubSeq(t, m, e)[i] = t[m + i - 1]
<1>1. m \in 1 .. Len(t) /\ e \in 1 .. Len(t) /\ Len(t) \in Nat
  OBVIOUS
<1>2. m \in Int /\ e \in Int /\ \A i \in m .. e : t[i] \in A
  BY <1>1
<1> QED BY <1>2, SubSeqProperties

\* Trimming keeps what is between the first and the last token.
LEMMA Trimmed ==
    ASSUME NEW A, NEW t \in Seq(A), Other(t, Blank) # {}
    PROVE  \E m, e \in Other(t, Blank) :
              /\ m <= e /\ \A i \in Other(t, Blank) : m <= i /\ i <= e
              /\ TrimSpace(t) = SubSeq(t, m, e)
<1>0. Len(t) \in Nat /\ DOMAIN t = 1 .. Len(t) /\ 1 .. Len(t) \subseteq Nat
  BY TextDomain
<1>1. Other(t, Blank) \subseteq 1 .. Len(t)
  BY <1>0 DEF Other
<1> DEFINE S == Other(t, Blank)
<1>2. /\ Min(S) \in S /\ \A y \in S : Min(S) <= y
      /\ Max(S) \in S /\ \A y \in S : Max(S) >= y
  BY <1>0, <1>1, MinMax
<1>3. TrimSpace(t) = SubSeq(t, Min(S), Max(S))
  BY DEF TrimSpace
<1> QED
  <2>1. Min(S) <= Max(S) /\ \A i \in S : Min(S) <= i /\ i <= Max(S)
    <3>1. S \subseteq Nat
      BY <1>0, <1>1
    <3> HIDE DEF S
    <3> QED BY <1>2, <3>1
  <2> QED BY <1>2, <1>3, <2>1

\* Only blanks trim to nothing.
LEMMA TrimsToNothing ==
    ASSUME NEW A, NEW t \in Seq(A)
    PROVE  TrimSpace(t) = <<>> <=> Other(t, Blank) = {}
<1>1. CASE Other(t, Blank) = {}
  BY <1>1 DEF TrimSpace
<1>2. CASE Other(t, Blank) # {}
  <2>1. PICK m, e \in Other(t, Blank) : m <= e /\ TrimSpace(t) = SubSeq(t, m, e)
    BY <1>2, Trimmed
  <2>2. m \in DOMAIN t /\ e \in DOMAIN t /\ m \in Nat /\ e \in Nat
    BY TextDomain DEF Other
  <2>3. Len(TrimSpace(t)) = e - m + 1
    BY <2>1, <2>2, Cutout
  <2>4. Len(TrimSpace(t)) # 0
    BY <2>1, <2>2, <2>3
  <2>5. TrimSpace(t) # <<>>
    BY <2>4
  <2> QED BY <1>2, <2>5
<1> QED BY <1>1, <1>2

\* A text trims to one token exactly when it is that token among blanks.
LEMMA TrimsToOne ==
    ASSUME NEW A, NEW t \in Seq(A), NEW v
    PROVE  TrimSpace(t) = <<v>> <=>
              \E h \in Other(t, Blank) : t[h] = v /\ Other(t, Blank) = {h}
<1>1. CASE Other(t, Blank) = {}
  <2>1. TrimSpace(t) = <<>>
    BY <1>1, TrimsToNothing
  <2>2. TrimSpace(t) # <<v>>
    BY <2>1
  <2> QED BY <1>1, <2>2
<1>2. CASE Other(t, Blank) # {}
  <2>1. PICK m, e \in Other(t, Blank) :
           /\ m <= e /\ \A i \in Other(t, Blank) : m <= i /\ i <= e
           /\ TrimSpace(t) = SubSeq(t, m, e)
    BY <1>2, Trimmed
  <2>2. m \in DOMAIN t /\ e \in DOMAIN t /\ m \in Nat /\ e \in Nat
        /\ \A i \in Other(t, Blank) : i \in Nat
    BY TextDomain DEF Other
  <2>3. /\ TrimSpace(t) \in Seq(A)
        /\ Len(TrimSpace(t)) = e - m + 1
        /\ \A i \in 1 .. e - m + 1 : TrimSpace(t)[i] = t[m + i - 1]
    BY <2>1, <2>2, Cutout
  <2>4. 1 \in 1 .. e - m + 1 /\ m + 1 - 1 = m
    BY <2>1, <2>2
  <2>5. TrimSpace(t)[1] = t[m]
    BY <2>3, <2>4
  <2>6. ASSUME TrimSpace(t) = <<v>>
        PROVE  t[m] = v /\ Other(t, Blank) = {m}
    <3>1. Len(<<v>>) = 1 /\ <<v>>[1] = v
      OBVIOUS
    <3>2. e - m + 1 = 1
      BY <2>3, <2>6, <3>1
    <3>3. e = m
      BY <2>2, <3>2
    <3>4. \A i \in Other(t, Blank) : i = m
      BY <2>1, <2>2, <3>3
    <3> QED BY <2>5, <2>6, <3>1, <3>4
  <2>7. ASSUME NEW h \in Other(t, Blank), t[h] = v, Other(t, Blank) = {h}
        PROVE  TrimSpace(t) = <<v>>
    <3>1. m = h /\ e = h
      BY <2>7
    <3>2. e - m + 1 = 1
      BY <2>2, <3>1
    <3>3. Len(TrimSpace(t)) = 1 /\ TrimSpace(t)[1] = v
      BY <2>3, <2>5, <2>7, <3>1, <3>2
    <3> QED BY <2>3, <3>3, Single
  <2> QED BY <2>1, <2>6, <2>7
<1> QED BY <1>1, <1>2

\* Blanks and slashes come off a host.
LEMMA TrimsToHost ==
    ASSUME NEW A, NEW t \in Seq(A), OnlyHost(t)
    PROVE  \E v : TrimRight(TrimSpace(t), Slash) = <<v>>
<1>1. PICK h, e \in DOMAIN t :
         /\ h <= e /\ t[h] \notin {Blank, Slash}
         /\ \A i \in DOMAIN t : IF i < h \/ i > e THEN t[i] = Blank ELSE i = h \/ t[i] = Slash
  BY DEF OnlyHost
<1>2. h \in Nat /\ e \in Nat /\ \A i \in DOMAIN t : i \in Nat
  BY TextDomain
<1>3. h \in Other(t, Blank) /\ e \in Other(t, Blank) /\ \A i \in Other(t, Blank) : h <= i /\ i <= e
  <2>1. t[h] # Blank /\ t[e] # Blank
    BY <1>1, <1>2, BlankNotSlash
  <2>2. \A i \in DOMAIN t : t[i] # Blank => h <= i /\ i <= e
    BY <1>1, <1>2
  <2> QED BY <2>1, <2>2 DEF Other
<1>4. TrimSpace(t) = SubSeq(t, h, e)
  <2>1. PICK m, n \in Other(t, Blank) :
           /\ \A i \in Other(t, Blank) : m <= i /\ i <= n
           /\ TrimSpace(t) = SubSeq(t, m, n)
    BY <1>3, Trimmed
  <2>2. m \in Nat /\ n \in Nat
    BY <1>2 DEF Other
  <2>3. m = h /\ n = e
    BY <1>2, <1>3, <2>1, <2>2
  <2> QED BY <2>1, <2>3
<1> DEFINE u == TrimSpace(t)
           n == e - h + 1
<1>5. n \in Nat /\ n >= 1 /\ h + 1 - 1 = h
  BY <1>1, <1>2
<1>6. u \in Seq(A) /\ Len(u) = n /\ \A i \in 1 .. n : u[i] = t[h + i - 1]
  BY <1>1, <1>4, Cutout
<1>7. \A i \in 1 .. n : h + i - 1 \in h .. e /\ (h + i - 1 = h <=> i = 1)
  BY <1>1, <1>2
<1>8. \A i \in h .. e : i \in DOMAIN t
  BY <1>2, TextDomain
<1>9. \A i \in h .. e : i = h \/ t[i] = Slash
  BY <1>1, <1>2, <1>8
<1> HIDE DEF n, u
<1>10. DOMAIN u = 1 .. n /\ 1 \in 1 .. n
  BY <1>5, <1>6
<1>11. u[1] # Slash
  BY <1>1, <1>5, <1>6, <1>10
<1>12. \A i \in 1 .. n : u[i] = Slash \/ i = 1
  BY <1>6, <1>7, <1>9
<1>13. Other(u, Slash) = {1}
  BY <1>10, <1>11, <1>12 DEF Other
<1>14. Max({1}) = 1
  BY DEF Max
<1>15. TrimRight(u, Slash) = SubSeq(u, 1, 1)
  BY <1>13, <1>14 DEF TrimRight
<1>16. SubSeq(u, 1, 1) \in Seq(A) /\ Len(SubSeq(u, 1, 1)) = 1
  BY <1>6, <1>10, Cutout
<1>17. SubSeq(u, 1, 1) = <<SubSeq(u, 1, 1)[1]>>
  BY <1>16, Single
<1> QED BY <1>15, <1>17 DEF u

-----------------------------------------------------------------------------
(* The parts main built are those the configuration asks for. *)

HasStore == {"backend", "scheduler", "listen", "serving"}
HasBackend == {"scheduler", "listen", "serving"}
HasScheduler == {"listen", "serving"}

StartInv ==
    /\ phase \in HasStore => (store = "gcs" <=> cfg.GCSBucket # <<>>)
    /\ phase \in HasBackend => (backend = "pubsub" <=> cfg.QueueBackend = <<"pubsub">>)
    /\ phase \in HasScheduler => (sched = "cloudtasks" <=> cfg.CloudTasksProject # <<>>)

\* The environment of a process does not change.
LEMMA EnvStays == [Next]_vars => env' = env
<1> SUFFICES ASSUME [Next]_vars PROVE env' = env
  OBVIOUS
<1>f. ASSUME Fatal PROVE env' = env
  BY <1>f DEF Fatal
<1>1. CASE InitStatsd \/ InitStore \/ InitBackend \/ InitScheduler \/ Listen \/ Die
  BY <1>1, <1>f DEF InitStatsd, InitStore, InitBackend, InitScheduler, Listen, Die, Built
<1>2. CASE \/ Signal \/ ShutdownReturns \/ GracefulStopReturns \/ GracefulStopPanics
           \/ CloseLast \/ Exit \/ \E p \in topics : StopTopic(p)
  BY <1>2 DEF Signal, ShutdownReturns, GracefulStopReturns, GracefulStopPanics, CloseLast,
     Exit, StopTopic
<1>3. ASSUME NEW c \in Calls, NEW k \in Kind,
             Serve(c) \/ CtxDone(c) \/ WatchEnds(c) \/ Arrive(c, k)
      PROVE  env' = env
  BY <1>3, CallsQuiet
<1>4. CASE UNCHANGED vars
  BY <1>4 DEF vars
<1>5. "h2" \in Kind
  BY DEF Kind
<1> QED BY <1>1, <1>2, <1>3, <1>4, <1>5 DEF Next, Main

\* A process that starts has built nothing.
LEMMA InitStart == Init => StartInv
BY DEF Init, StartInv, HasStore, HasBackend, HasScheduler

\* Each part is built as the configuration says, and then left alone.
LEMMA NextStart == StartInv /\ [Next]_vars => StartInv'
<1> SUFFICES ASSUME StartInv, [Next]_vars PROVE StartInv'
  OBVIOUS
<1>0. cfg' = cfg
  BY EnvStays DEF cfg
<1> HIDE DEF cfg
<1>f. ASSUME Fatal PROVE StartInv'
  BY <1>f DEF Fatal, StartInv, HasStore, HasBackend, HasScheduler
<1>1. CASE InitStatsd
  BY <1>1, <1>f DEF InitStatsd, Built, StartInv, HasStore, HasBackend, HasScheduler
<1>2. CASE InitStore
  BY <1>0, <1>2, <1>f DEF InitStore, Built, StartInv, HasStore, HasBackend, HasScheduler
<1>3. CASE InitBackend
  BY <1>0, <1>3, <1>f DEF InitBackend, Built, StartInv, HasStore, HasBackend, HasScheduler
<1>4. CASE InitScheduler
  BY <1>0, <1>4, <1>f DEF InitScheduler, Built, StartInv, HasStore, HasBackend,
     HasScheduler
<1>5. CASE Listen \/ Die
  BY <1>0, <1>5, <1>f DEF Listen, Die, parts, StartInv, HasStore, HasBackend, HasScheduler
<1>6. CASE \/ Signal \/ ShutdownReturns \/ GracefulStopReturns \/ GracefulStopPanics
           \/ CloseLast \/ Exit \/ \E p \in topics : StopTopic(p)
  <2>1. phase' \in {"shutdown", "gracefulStop", "close", "exited"}
    BY <1>6 DEF Signal, ShutdownReturns, GracefulStopReturns, GracefulStopPanics,
       CloseLast, Exit, StopTopic
  <2> QED BY <2>1 DEF StartInv, HasStore, HasBackend, HasScheduler
<1>7. ASSUME NEW c \in Calls, NEW k \in Kind,
             Serve(c) \/ CtxDone(c) \/ WatchEnds(c) \/ Arrive(c, k)
      PROVE  StartInv'
  BY <1>0, <1>7, CallsQuiet DEF parts, StartInv
<1>8. CASE UNCHANGED vars
  BY <1>0, <1>8 DEF vars, parts, StartInv
<1>9. "h2" \in Kind
  BY DEF Kind
<1> QED BY <1>1, <1>2, <1>3, <1>4, <1>5, <1>6, <1>7, <1>8, <1>9 DEF Next, Main

\* What the configuration holds, in terms of the text.
LEMMA Configured ==
    ASSUME env \in [Variable -> Seq(STRING)]
    PROVE  /\ cfg.GCSBucket # <<>> <=> Filled("GCS_BUCKET") # {}
           /\ cfg.CloudTasksProject # <<>> <=> Filled("CLOUD_TASKS_PROJECT") # {}
           /\ cfg.QueueBackend = <<"pubsub">> <=> \E h \in Filled("QUEUE_BACKEND") :
                 env["QUEUE_BACKEND"][h] = "pubsub" /\ Filled("QUEUE_BACKEND") = {h}
<1>1. \A key : Filled(key) = Other(env[key], Blank)
  BY DEF Filled, Other
<1>2. /\ env["GCS_BUCKET"] \in Seq(STRING)
      /\ env["CLOUD_TASKS_PROJECT"] \in Seq(STRING)
      /\ env["QUEUE_BACKEND"] \in Seq(STRING)
  BY DEF Variable
<1>3. /\ cfg.GCSBucket = TrimSpace(env["GCS_BUCKET"])
      /\ cfg.CloudTasksProject = TrimSpace(env["CLOUD_TASKS_PROJECT"])
      /\ cfg.QueueBackend = IF TrimSpace(env["QUEUE_BACKEND"]) = <<>> THEN <<"noop">>
                            ELSE TrimSpace(env["QUEUE_BACKEND"])
  BY DEF cfg, Load, Get, GetOrDefault
<1>4. <<"noop">> # <<"pubsub">> /\ <<>> # <<"pubsub">>
  OBVIOUS
<1>5. cfg.QueueBackend = <<"pubsub">> <=> TrimSpace(env["QUEUE_BACKEND"]) = <<"pubsub">>
  BY <1>3, <1>4
<1>6. TrimSpace(env["QUEUE_BACKEND"]) = <<"pubsub">> <=>
         \E h \in Other(env["QUEUE_BACKEND"], Blank) :
            /\ env["QUEUE_BACKEND"][h] = "pubsub"
            /\ Other(env["QUEUE_BACKEND"], Blank) = {h}
  BY <1>2, TrimsToOne
<1>7. /\ TrimSpace(env["GCS_BUCKET"]) = <<>> <=> Other(env["GCS_BUCKET"], Blank) = {}
      /\ TrimSpace(env["CLOUD_TASKS_PROJECT"]) = <<>>
            <=> Other(env["CLOUD_TASKS_PROJECT"], Blank) = {}
  BY <1>2, TrimsToNothing
<1> QED BY <1>1, <1>3, <1>5, <1>6, <1>7

\* Whatever the environment, a process that serves has the parts it asks for,
\* and no stand-in for them (main.go:61-127).
THEOREM StandInsAreAskedFor == Spec => []NoSilentStandIn
<1>1. LifeInv /\ StartInv => NoSilentStandIn
  <2> SUFFICES ASSUME LifeInv, StartInv PROVE NoSilentStandIn
    OBVIOUS
  <2>1. env \in [Variable -> Seq(STRING)]
    BY DEF LifeInv, TypeOK
  <2> QED BY <2>1, Configured DEF NoSilentStandIn, StartInv, HasStore, HasBackend,
          HasScheduler
<1> QED BY <1>1, LifeAlways, InitStart, NextStart, PTL DEF Spec

-----------------------------------------------------------------------------
(* Every call is sent where it belongs. *)

\* A call keeps the target its kind had when it came in.
Targeted == \A c \in Calls : call[c].kind \in Kind => call[c].target = Target(call[c].kind)

\* Initially no call has come in.
LEMMA InitTargeted == Init => Targeted
BY DEF Init, Targeted, Kind

\* A step serves calls, or cuts them, or brings one in with its target.
LEMMA NextTargeted == LifeInv /\ Targeted /\ [Next]_vars => Targeted'
<1> SUFFICES ASSUME LifeInv, Targeted, [Next]_vars PROVE Targeted'
  OBVIOUS
<1>0. TypeOfCalls
  BY TypeParts DEF LifeInv
<1>1. \A k : Target(k)' = Target(k)
  BY EnvStays DEF Target, cfg
<1> HIDE DEF Target
<1>2. ASSUME NEW c \in Calls, NEW k \in Kind, Arrive(c, k) PROVE Targeted'
  BY <1>0, <1>1, <1>2 DEF Arrive, Targeted, TypeOfCalls, CallType
<1>3. ASSUME \A c \in Calls : call'[c].kind = call[c].kind /\ call'[c].target = call[c].target
      PROVE  Targeted'
  BY <1>1, <1>3 DEF Targeted
<1>4. ASSUME NEW c \in Calls, Serve(c) \/ CtxDone(c) \/ WatchEnds(c) PROVE Targeted'
  <2>1. UNCHANGED call \/ \E s \in {"publishing", "ok", "failed"} :
           call' = [call EXCEPT ![c].st = s]
    BY <1>4, ServeMoves
  <2> QED BY <1>0, <1>3, <2>1 DEF TypeOfCalls, CallType
<1>5. CASE Main \/ Signal \/ GracefulStopPanics \/ Die
  <2>1. UNCHANGED call \/ call' = Cut
    BY <1>5, MainMoves
  <2> QED BY <1>0, <1>3, <2>1 DEF Cut, TypeOfCalls, CallType
<1>6. CASE UNCHANGED vars
  BY <1>3, <1>6 DEF vars, flow
<1> QED BY <1>2, <1>4, <1>5, <1>6 DEF Next

\* The path follows the host.
LEMMA SecondToken ==
    ASSUME NEW v, NEW w
    PROVE  Tail(<<v>> \o <<w>>) = <<w>>
<1>1. <<v>> \in Seq({v, w}) /\ <<w>> \in Seq({v, w})
  OBVIOUS
<1>2. Len(<<v>>) = 1 /\ Len(<<w>>) = 1 /\ <<v>>[1] = v /\ <<w>>[1] = w
  OBVIOUS
<1>3. <<v>> \o <<w>> = <<v, w>>
  <2> DEFINE r == <<v>> \o <<w>>
  <2>1. /\ r \in Seq({v, w})
        /\ Len(r) = Len(<<v>>) + Len(<<w>>)
        /\ \A i \in 1 .. Len(<<v>>) + Len(<<w>>) :
              r[i] = IF i <= Len(<<v>>) THEN <<v>>[i] ELSE <<w>>[i - Len(<<v>>)]
    BY <1>1, ConcatProperties
  <2> HIDE DEF r
  <2>2. Len(r) = 2 /\ r[1] = v /\ r[2] = w
    BY <1>2, <2>1
  <2>3. /\ <<v, w>> \in Seq({v, w}) /\ Len(<<v, w>>) = 2
        /\ <<v, w>>[1] = v /\ <<v, w>>[2] = w
    OBVIOUS
  <2>4. \A i \in 1 .. 2 : i = 1 \/ i = 2
    OBVIOUS
  <2>5. r = <<v, w>>
    BY <2>1, <2>2, <2>3, <2>4, SeqEqual
  <2> QED BY <2>5 DEF r
<1>4. Tail(<<v, w>>) = <<w>>
  OBVIOUS
<1> QED BY <1>3, <1>4

\* The path of a callback to a host is the one the mux knows.
LEMMA CallbackTarget ==
    ASSUME env \in [Variable -> Seq(STRING)], OnlyHost(env["CALLBACK_BASE_URL"])
    PROVE  Target("http1") = "callback" /\ Target("h2") = "callback"
<1>1. env["CALLBACK_BASE_URL"] \in Seq(STRING)
  BY DEF Variable
<1>2. cfg.CallbackBaseURL = TrimSpace(env["CALLBACK_BASE_URL"])
  BY DEF cfg, Load, Get
<1>3. PICK v : TrimRight(cfg.CallbackBaseURL, Slash) = <<v>>
  BY <1>1, <1>2, TrimsToHost
<1>4. callbackURL(cfg.CallbackBaseURL) = <<v>> \o CallbackPath
  BY <1>3 DEF callbackURL
<1> DEFINE w == "/internal/callback/enqueue"
<1>5. CallbackPath = <<w>>
  BY Zenon DEF CallbackPath
<1> HIDE DEF w
<1>6. Tail(<<v>> \o <<w>>) = <<w>>
  BY SecondToken
<1>7. Tail(callbackURL(cfg.CallbackBaseURL)) = CallbackPath
  BY <1>4, <1>5, <1>6
<1>8. \A path : path = CallbackPath => /\ Handle(1, FALSE, path) = "callback"
                                       /\ Handle(2, FALSE, path) = "callback"
  BY DEF Handle
<1> QED BY <1>7, <1>8 DEF Target

\* Whatever the environment, Enqueue calls reach the gRPC server, and callbacks
\* to a base URL that is a host, however many slashes and blanks end it, their
\* handler (main.go:158-164, cloudtasks.go:50, callback.go:34).
THEOREM CallbacksRouted == Spec => []CallbackRouted
<1>1. LifeInv /\ Targeted => CallbackRouted
  <2> SUFFICES ASSUME LifeInv, Targeted, NEW c \in Calls
               PROVE  /\ call[c].kind \in {"enqueue", "watch"} => call[c].target = "grpc"
                      /\ call[c].kind \in {"http1", "h2"}
                            /\ OnlyHost(env["CALLBACK_BASE_URL"])
                         => call[c].target = "callback"
    BY DEF CallbackRouted
  <2>1. env \in [Variable -> Seq(STRING)]
    BY DEF LifeInv, TypeOK
  <2>2. Target("enqueue") = "grpc" /\ Target("watch") = "grpc"
    BY DEF Target, Handle
  <2> QED BY <2>1, <2>2, CallbackTarget DEF Targeted, Kind
<1> QED BY <1>1, LifeAlways, InitTargeted, NextTargeted, PTL DEF Spec
=============================================================================
