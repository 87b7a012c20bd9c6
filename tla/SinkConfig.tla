----------------------------- MODULE SinkConfig -----------------------------
(***************************************************************************)
(* pkg/sink/config.go: the in-memory Config of the sink-controller and the *)
(* conversion String() from the sinks it holds to the text of outputs.conf *)
(* that fluent-bit loads.                                                  *)
(*                                                                         *)
(* A Config is a function cfg from the possible sinks to their spec, or to *)
(* Absent where the Go maps hold no entry.  The rendered text is the set   *)
(* of its [OUTPUT] sections, each labelled with the sink it was printed    *)
(* for.  Order is left out: syslogConfig sorts its sections, webhookConfig *)
(* prints them in Go's random map order, and fluent-bit routes by Match.   *)
(***************************************************************************)
EXTENDS Integers

CONSTANTS Sinks,   \* the sinks users may create: [kind, ns, name]
          Specs,   \* the specs they may give them
          OneLine, \* the texts without a line break
          Absent,  \* no sink stored under this key
          NoSink   \* the label of a section that belongs to no sink

Kinds == {"LogSink", "ClusterLogSink"}

(***************************************************************************)
(* SinkSpec.  url is spec.URL: the prefix up to "//" of its text, "" if it *)
(* is empty, and what url.Parse makes of it; ok is FALSE where url.Parse   *)
(* returns an error.                                                       *)
(***************************************************************************)
URL == [prefix : STRING, ok : BOOLEAN,
        scheme : STRING, host : STRING, port : STRING, path : STRING]

SinkSpec == [type : STRING, host : STRING, port : Int, enableTLS : BOOLEAN,
             skipVerify : BOOLEAN, url : URL]

\* A namespaced resource has a namespace; a cluster resource has none.
ASSUME SinksAssumption ==
  /\ Sinks \subseteq [kind : Kinds, ns : STRING, name : STRING]
  /\ \A s \in Sinks : s.kind = "ClusterLogSink" <=> s.ns = ""

(***************************************************************************)
(* String() prints host and the decoded path as they are into a file of    *)
(* lines, and neither the CRD nor the validator refuses a line break in    *)
(* them: a section is the record below only for the specs assumed here.    *)
(* That url.Parse finds the scheme the prefix spells is assumed as well.   *)
(***************************************************************************)
ASSUME SpecsAssumption ==
  /\ Specs \subseteq SinkSpec
  /\ Absent \notin Specs
  /\ \A v \in Specs : {v.host, v.url.host, v.url.path} \subseteq OneLine
  /\ \A v \in Specs : v.url.ok /\ v.url.prefix = "https://" => v.url.scheme = "https"

ASSUME NoSinkAssumption == NoSink \notin Sinks

EmptyConfig == [s \in Sinks |-> Absent]

-----------------------------------------------------------------------------
(***************************************************************************)
(* The sections.                                                           *)
(***************************************************************************)
canonicalNamespace(ns) == IF ns = "" THEN "default" ELSE ns

AnyTag == <<"*">>
NamespaceTag(ns) == <<"*_", ns, "_*">>

\* The TLSConfig line: left out, {} or {"insecure_skip_verify":true}.
TLSConfig(spec) ==
  IF ~spec.enableTLS THEN "none"
  ELSE IF spec.skipVerify THEN "insecure" ELSE "verify"

\* namespace = "" is printed as "Cluster true".
SyslogOutput(s, spec) ==
  [plugin    |-> "syslog",
   match     |-> AnyTag,
   instance  |-> s.name,
   addr      |-> <<spec.host, spec.port>>,
   namespace |-> IF s.kind = "LogSink" THEN canonicalNamespace(s.ns) ELSE "",
   tls       |-> TLSConfig(spec)]

Port(url) ==
  CASE url.port # ""                           -> url.port
    [] url.port = "" /\ url.scheme = "https"   -> "443"
    [] url.port = "" /\ url.scheme = "http"    -> "80"
    [] OTHER                                   -> ""

\* Mutant: the tag of a namespaced webhook is not restricted to its namespace.
MatchesEverything(s, spec) ==
  [plugin |-> "http",
   match  |-> AnyTag,
   host   |-> spec.url.host,
   port   |-> Port(spec.url),
   uri    |-> spec.url.path,
   tls    |-> "verify"]

buildHTTPConfig(s, spec) ==
  [plugin |-> "http",
   match  |-> IF s.kind = "ClusterLogSink" THEN AnyTag ELSE NamespaceTag(s.ns),
   host   |-> spec.url.host,
   port   |-> Port(spec.url),
   uri    |-> IF spec.url.path = "" THEN "/" ELSE spec.url.path,
   tls    |-> IF spec.url.scheme # "https" THEN "none"
              ELSE IF spec.skipVerify THEN "insecure" ELSE "verify"]

\* A webhook whose URL does not parse, and a type that is neither, print nothing.
Renders(spec) ==
  \/ spec.type = "syslog"
  \/ spec.type = "webhook" /\ spec.url.ok

Output(s, spec) ==
  IF spec.type = "syslog" THEN SyslogOutput(s, spec) ELSE buildHTTPConfig(s, spec)

-----------------------------------------------------------------------------
(***************************************************************************)
(* Config.String().                                                        *)
(***************************************************************************)
Present(cfg) == {s \in Sinks : cfg[s] # Absent}

Rendered(cfg) == {s \in Present(cfg) : Renders(cfg[s])}

nullConfig == {<<NoSink, [plugin |-> "null", match |-> AnyTag]>>}

String(cfg) ==
  IF Present(cfg) = {}
  THEN nullConfig
  ELSE {<<s, Output(s, cfg[s])>> : s \in Rendered(cfg)}

\* The sections of outputs that were printed for sinks of kind k.
SectionsOf(outputs, k) == {o \in outputs : o[1] # NoSink /\ o[1].kind = k}

-----------------------------------------------------------------------------
(***************************************************************************)
(* What fluent-bit does with a section (external): a record of a pod or an *)
(* event in namespace ns carries the tag ..._ns_...; the syslog plugin     *)
(* matches every tag and filters on the record's namespace itself.         *)
(***************************************************************************)
Receives(output, ns) ==
  \/ output.plugin = "syslog" /\ output.namespace \in {"", ns}
  \/ output.plugin = "http" /\ output.match \in {AnyTag, NamespaceTag(ns)}

Receivers(outputs, ns) == {o[1] : o \in {x \in outputs : Receives(x[2], ns)}}

=============================================================================
