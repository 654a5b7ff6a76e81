------------------------------ MODULE Promise -------------------------------
(***************************************************************************)
(* What jack-service promises its clients about jobs, whichever way they   *)
(* take through it: a job is acknowledged only when something durable      *)
(* holds it, a topic or a task, and a job that is held stays held.  A job  *)
(* that is never acknowledged may be held, or delivered, all the same.     *)
(***************************************************************************)
CONSTANT Jobs

VARIABLES held, delivered, acked

Init == held = {} /\ delivered = {} /\ acked = {}

\* Jobs S are stored to be delivered later.
Keep(S) == held' = held \cup S /\ UNCHANGED <<delivered, acked>>

\* Jobs S reach their topics.
Deliver(S) ==
    /\ held' = held \cup S
    /\ delivered' = delivered \cup S
    /\ UNCHANGED acked

\* Clients are told OK.
Acknowledge(S) ==
    /\ S \subseteq held
    /\ acked' = acked \cup S
    /\ UNCHANGED <<held, delivered>>

Next == \E S \in SUBSET Jobs : Keep(S) \/ Deliver(S) \/ Acknowledge(S)

Spec == Init /\ [][Next]_<<held, delivered, acked>>
=============================================================================
