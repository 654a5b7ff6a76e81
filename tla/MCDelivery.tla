----------------------------- MODULE MCDelivery -----------------------------
(***************************************************************************)
(* Small instances of Delivery.                                            *)
(***************************************************************************)
EXTENDS Delivery, TLC

\* Both services; Pub/Sub alone; Cloud Tasks in front of a noop backend.
Real == {[backend |-> "pubsub", scheduler |-> "cloudtasks"]}
NoTasks == {[backend |-> "pubsub", scheduler |-> "noop"]}
NoTopics == {[backend |-> "noop", scheduler |-> "cloudtasks"]}
EdgeDeployments == Real \cup NoTasks \cup NoTopics

MCProducerIds == {<<"p">>}
MCNames == {<<"t">>}
MCQueues == {"QUEUE_HIGH"}
MCRetries == {0}
EdgeRetries == {-1, 0, 7}
MCTopics == {PriorityHigh, PriorityMedium}
HighOnly == {PriorityHigh}

None_ == [size |-> 0, form |-> "nil", queue |-> ""]
Json(n, q) == [size |-> n, form |-> "json", queue |-> q]
Raw == [size |-> 3, form |-> "raw", queue |-> ""]

Req(payload, t, sh) == [producer |-> <<"p">>, jobType |-> <<"t">>,
                        payload |-> payload, runAt |-> t, shadow |-> sh]

\* With PUBSUB_TOPIC_HIGH set alone and legacy hints on: jobs for now and for
\* sooner than the threshold, one for later that just fits a task, and one for
\* later that no topic is there for.
MixedRequests == {Req(Json(9, "high"), NoRunAt, ""), Req(Json(9, "high"), 1, ""),
                  Req(Json(72900, "high"), 2, "true"), Req(Json(9, ""), 2, "")}

\* One request per early return and per routing rule.
EdgeRequests == {Req(Json(9, "low"), NoRunAt, "true"),
                 Req(Json(9, "other"), 2, "other"),
                 Req(Json(MaxPayloadSize + 1, ""), NoRunAt, ""),
                 Req(Json(MaxPayloadSize, ""), 1, ""),
                 Req(None_, NoRunAt, ""), Req(None_, 2, ""),
                 Req(Json(72900, ""), 2, ""),
                 Req(Json(72901, ""), 2, ""), Req(Raw, 2, ""),
                 [Req(None_, NoRunAt, "") EXCEPT !.producer = <<>>],
                 [Req(None_, NoRunAt, "") EXCEPT !.jobType = <<>>]}

\* Jobs for now and for later, and one that is not JSON.
LiveRequests == {Req(None_, NoRunAt, ""), Req(Json(9, ""), 1, ""), Req(Raw, 1, "")}

\* Jobs for later only.
FutureRequests == {Req(Json(9, ""), 1, ""), Req(Raw, 1, "")}

Symmetry == Permutations(Calls) \cup Permutations(Slots) \cup Permutations(JobIds)
=============================================================================
