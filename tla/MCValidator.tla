---------------------------- MODULE MCValidator ----------------------------
(***************************************************************************)
(* Instances of Validator for TLC.                                         *)
(***************************************************************************)
EXTENDS Validator

noURL == [prefix |-> "", ok |-> TRUE, scheme |-> "", host |-> "", port |-> "", path |-> ""]

syslog == [type |-> "syslog", host |-> "logs", port |-> 65535, enableTLS |-> TRUE,
           skipVerify |-> TRUE, url |-> noURL]

webhook == [type |-> "webhook", host |-> "", port |-> 0, enableTLS |-> FALSE, skipVerify |-> FALSE,
            url |-> [prefix |-> "https://", ok |-> TRUE, scheme |-> "https",
                     host |-> "hook", port |-> "8443", path |-> "/in"]]

\* A URL with another scheme.
plainWebhook == [webhook EXCEPT !.url.prefix = "http://", !.url.scheme = "http"]

LogSpecs == {syslog, webhook, plainWebhook}

OneSink == {[kind |-> "LogSink", ns |-> "team", name |-> "a"]}

cpu == [type |-> "cpu", opts |-> "good"]
badCpu == [type |-> "cpu", opts |-> "bad"]
datadog == [type |-> "datadog", opts |-> "good"]
mixed == [type |-> "datadog", opts |-> "mixed"]
untyped == [type |-> NotString, opts |-> "good"]

GoodAndBad == {[inputs |-> {cpu}, outputs |-> {datadog}],
               [inputs |-> {badCpu}, outputs |-> {datadog}]}

MetricSinkSpecs == GoodAndBad \cup {[inputs |-> {cpu}, outputs |-> {untyped}],
                                [inputs |-> {cpu}, outputs |-> {mixed}]}

=============================================================================
