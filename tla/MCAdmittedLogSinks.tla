------------------------- MODULE MCAdmittedLogSinks -------------------------
(***************************************************************************)
(* An instance of AdmittedLogSinks for TLC: a LogSink and a ClusterLogSink *)
(* and specs on both sides of the rules about TLS, ports and types.        *)
(***************************************************************************)
EXTENDS AdmittedLogSinks

noURL == [prefix |-> "", ok |-> TRUE, scheme |-> "", host |-> "", port |-> "", path |-> ""]

syslog == [type |-> "syslog", host |-> "logs", port |-> 1, enableTLS |-> TRUE,
           skipVerify |-> FALSE, url |-> noURL]

plainSyslog == [syslog EXCEPT !.enableTLS = FALSE]
noPort == [syslog EXCEPT !.port = 0]
highPort == [syslog EXCEPT !.port = 65536]

webhook == [type |-> "webhook", host |-> "", port |-> 0, enableTLS |-> FALSE, skipVerify |-> TRUE,
            url |-> [prefix |-> "https://", ok |-> TRUE, scheme |-> "https",
                     host |-> "hook", port |-> "", path |-> ""]]

plainWebhook == [webhook EXCEPT !.url.prefix = "http://", !.url.scheme = "http"]

\* One spec the validator admits, and four it does not.
RefusedButOne == {syslog, plainSyslog, noPort, highPort, plainWebhook}

BothKinds == {[kind |-> "LogSink", ns |-> "team", name |-> "a"],
              [kind |-> "ClusterLogSink", ns |-> "", name |-> "a"]}

=============================================================================
