----------------------------- MODULE MCGCSStore -----------------------------
(***************************************************************************)
(* Small instances of GCSStore.                                            *)
(***************************************************************************)
EXTENDS GCSStore, TLC

TwoProducers == {<<"p">>, <<"q">>}
OneProducer == {<<"p">>}
OneName == {<<"t">>}
TwoNames == {<<"t">>, <<"q", ":", "t">>}
MCQueues == {"QUEUE_HIGH", "QUEUE_LOW"}
MCRetries == {0}

\* Sound for safety where TheInstance is not used.
TwoSymmetry == Permutations(AdminCalls) \cup Permutations(Instances)
=============================================================================
