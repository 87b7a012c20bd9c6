--------------------------- MODULE SinkAdmission ---------------------------
(***************************************************************************)
(* pkg/webhook/server.go: the rules by which the validator answers a       *)
(* review of a LogSink or ClusterLogSink.  The wording of a refusal is     *)
(* left out.                                                               *)
(***************************************************************************)
EXTENDS SinkConfig

MaxPort == 65535

\* Mutant: the lower bound of the port is off by one.
PortZero(spec) ==
  /\ spec.enableTLS
  /\ spec.host # ""
  /\ spec.port <= MaxPort /\ spec.port >= 0

ValidSyslog(spec) ==
  /\ spec.enableTLS
  /\ spec.host # ""
  /\ spec.port <= MaxPort /\ spec.port >= 1

\* Mutant: only an empty URL is refused.
AnyURL(spec) == spec.url.prefix # ""

\* An empty URL has another message than one with another prefix.
ValidWebhook(spec) == spec.url.prefix = "https://"

\* Mutant: an update may change the type.
AnyType(old, new) ==
  \/ new.type = "syslog" /\ ValidSyslog(new)
  \/ new.type = "webhook" /\ ValidWebhook(new)

\* old is Absent in a review of a CREATE.
validateLogSinkConfigRequest(old, new) ==
  /\ old # Absent => old.type = new.type
  /\ \/ new.type = "syslog" /\ ValidSyslog(new)
     \/ new.type = "webhook" /\ ValidWebhook(new)

\* A section that is sent over TLS, and over syslog to a port there is.
Safe(output) ==
  /\ output.tls # "none"
  /\ output.plugin = "syslog" => output.addr[2] \in 1..MaxPort

=============================================================================
