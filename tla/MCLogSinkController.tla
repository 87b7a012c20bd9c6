------------------------ MODULE MCLogSinkController ------------------------
(***************************************************************************)
(* Instances of LogSinkController for TLC.                                 *)
(***************************************************************************)
EXTENDS LogSinkController

noURL == [prefix |-> "", ok |-> TRUE, scheme |-> "", host |-> "", port |-> "", path |-> ""]

syslogTLS == [type |-> "syslog", host |-> "logs", port |-> 6514, enableTLS |-> TRUE,
              skipVerify |-> FALSE, url |-> noURL]

webhook == [type |-> "webhook", host |-> "", port |-> 0, enableTLS |-> FALSE, skipVerify |-> FALSE,
            url |-> [prefix |-> "https://", ok |-> TRUE, scheme |-> "https",
                     host |-> "hook", port |-> "", path |-> ""]]

\* A URL that starts with "https://" and that url.Parse refuses.
badWebhook == [webhook EXCEPT !.url.ok = FALSE]

OneSpec == {syslogTLS}
BothTypes == {syslogTLS, webhook}
Unrendered == {webhook, badWebhook}

teamSink == [kind |-> "LogSink", ns |-> "team", name |-> "a"]
otherSink == [kind |-> "LogSink", ns |-> "other", name |-> "a"]
clusterSink == [kind |-> "ClusterLogSink", ns |-> "", name |-> "a"]

OneSink == {teamSink}
TwoLogSinks == {teamSink, otherSink}
BothKinds == {teamSink, clusterSink}

=============================================================================
