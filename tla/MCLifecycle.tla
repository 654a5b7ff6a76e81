---------------------------- MODULE MCLifecycle -----------------------------
(***************************************************************************)
(* Small instances of Lifecycle.                                           *)
(***************************************************************************)
EXTENDS Lifecycle, TLC

MCAtoi == <<"0">> :> 0 @@ <<"70000">> :> 70000
MCParseBool == <<"true">> :> TRUE @@ <<"0">> :> FALSE
MCParseDuration == <<"30s">> :> 30

Unset == [v \in Variable |-> <<>>]

\* make run.
Local == Unset

\* The docker command of the README.
Readme == [Unset EXCEPT !["GCS_BUCKET"] = <<"my-bucket">>,
                        !["QUEUE_BACKEND"] = <<"pubsub">>,
                        !["PUBSUB_PROJECT"] = <<"my-project">>]

\* Everything configured, with blanks and slashes where people leave them.
Production == [Readme EXCEPT !["QUEUE_BACKEND"] = <<" ", "pubsub", " ">>,
                             !["DATADOG_STATSD_ADDR"] = <<"dd">>,
                             !["PUBSUB_TOPIC_HIGH"] = <<"high">>,
                             !["PUBSUB_TOPIC_MEDIUM"] = <<"medium", " ">>,
                             !["CLOUD_TASKS_PROJECT"] = <<"my-project", " ">>,
                             !["CALLBACK_BASE_URL"] = <<"https://jack", "/", "/", " ">>,
                             !["GRPC_PORT"] = <<"eighty">>,
                             !["SCHEDULE_THRESHOLD"] = <<"30s">>,
                             !["LEGACY_PAYLOAD_QUEUE_ROUTING"] = <<"true">>]

\* A topic for one priority only, nothing but blanks for a bucket.
OneTopic == [Production EXCEPT !["PUBSUB_TOPIC_MEDIUM"] = <<>>,
                               !["GCS_BUCKET"] = <<" ">>,
                               !["CALLBACK_BASE_URL"] = <<"https://jack", "/", "v2">>]

NoTopics == [OneTopic EXCEPT !["PUBSUB_TOPIC_HIGH"] = <<>>,
                             !["CALLBACK_BASE_URL"] = <<"https://jack">>]

\* Cloud Tasks in front of a backend nobody knows.
Misspelt == [Production EXCEPT !["QUEUE_BACKEND"] = <<"kafka">>]

NoProject == [Production EXCEPT !["PUBSUB_PROJECT"] = <<" ">>]

BadPort == [Unset EXCEPT !["GRPC_PORT"] = <<"70000">>]

MCEnvironments == {Local, Readme, Production, OneTopic, NoTopics, Misspelt,
                   NoProject, BadPort}

ReadmeOnly == {Readme}
=============================================================================
