------------------------------- MODULE MCBulk -------------------------------
(***************************************************************************)
(* Small instances of Bulk.                                                *)
(***************************************************************************)
EXTENDS Bulk

\* The real parts, and the stand-ins.
MCDeployments == {[backend |-> "pubsub", scheduler |-> "cloudtasks"],
                  [backend |-> "noop", scheduler |-> "noop"]}

MCProducerIds == {<<"p">>}
MCNames == {<<"t">>}
MCQueues == {"QUEUE_HIGH"}
MCRetries == {0}
MCTopics == {PriorityHigh}

Req(size, form, t) ==
    [producer |-> <<"p">>, jobType |-> <<"t">>, runAt |-> t, shadow |-> "true",
     payload |-> [size |-> size, form |-> form, queue |-> ""]]

Now == Req(0, "nil", NoRunAt)
Later == Req(9, "json", 2)
Nameless == [Now EXCEPT !.jobType = <<>>]
TooLarge == Req(MaxPayloadSize + 1, "json", NoRunAt)
NotJson == Req(3, "raw", 1)
LargeTask == Req(72901, "json", 2)

\* An invalid request ahead of others, both slices filled, both kinds of early
\* refusal, and an empty batch.
MCBatches == {<<Nameless, Now, Later>>, <<Later, TooLarge, Later>>,
              <<NotJson, LargeTask, Now>>, <<>>}
=============================================================================
