----------------------------- MODULE Validator -----------------------------
(***************************************************************************)
(* The admission webhook (pkg/webhook, cmd/validator) and the API server   *)
(* that asks it about every CREATE and UPDATE of a sink.  net/http runs a  *)
(* handler for each request in a goroutine of its own.  logSinkHandler     *)
(* decides at once; metricSinkHandler writes the configuration to one file *)
(* for all requests and lets telegraf test that file:                      *)
(*   "handle" -> (types checked)        -> "open"                          *)
(*            -> (WriteFile: O_TRUNC)   -> "write"                         *)
(*            -> (WriteFile: write)     -> "test"                          *)
(*            -> (telegraf --test)      -> "allowed" or "denied"           *)
(***************************************************************************)
EXTENDS SinkAdmission, MetricAdmission

CONSTANTS MetricSpecs,   \* the specs users may give a metric sink
          Requests,      \* the requests the server may work on at a time
          AllowedFaults, \* the faults this instance may meet
          Missing,       \* no file yet
          Empty,         \* a file without text
          Mixed          \* the remains of several texts

FaultKinds == {"disk",     \* WriteFile fails, perhaps half way
               "timeout"}  \* the API server gives up before the answer

ASSUME ValidatorAssumption ==
  /\ MetricSpecs \subseteq MetricSinkSpec
  /\ Absent \notin MetricSpecs
  /\ AllowedFaults \subseteq FaultKinds
  /\ \A n \in Names, v \in MetricSpecs : configOf(n, v) \notin {Missing, Empty, Mixed}

VARIABLES
  logs,     \* the LogSinks and ClusterLogSinks stored by the API server
  metrics,  \* the metric sinks it stores
  pc,       \* where the handler of each request is
  review,   \* the review each request carries
  file,     \* /tmp/telegraf.conf
  overlap   \* history: a review has touched the file in the middle of another

vars == <<logs, metrics, pc, review, file, overlap>>

(***************************************************************************)
(* A review.  ok: it is JSON of an AdmissionReview with a request and a    *)
(* sink in it.  live: the API server still waits for the answer.           *)
(***************************************************************************)
NoReview == [path |-> "none", live |-> FALSE]

LogReview == [path : {"/logsink"}, ok : BOOLEAN, live : BOOLEAN, key : Sinks,
              old : Specs \cup {Absent}, new : Specs]

MetricReview == [path : {"/metricsink"}, ok : BOOLEAN, live : BOOLEAN, key : Names,
                 old : MetricSpecs \cup {Absent}, new : MetricSpecs]

\* What the file may hold other than the text of one configuration.
NoConf == {Missing, Empty, Mixed}

Init ==
  /\ logs = EmptyConfig
  /\ metrics = [n \in Names |-> Absent]
  /\ pc = [r \in Requests |-> "idle"]
  /\ review = [r \in Requests |-> NoReview]
  /\ file = Missing
  /\ overlap = FALSE

-----------------------------------------------------------------------------
(***************************************************************************)
(* The API server: it asks before it stores, and stores only if the object *)
(* is still the one it asked about.  Deletions are not reviewed.           *)
(***************************************************************************)
Ask(r, path, ok, key, old, new) ==
  /\ pc[r] = "idle"
  /\ old # new
  /\ review' = [review EXCEPT ![r] = [path |-> path, ok |-> ok, live |-> TRUE,
                                      key |-> key, old |-> old, new |-> new]]
  /\ pc' = [pc EXCEPT ![r] = "handle"]
  /\ UNCHANGED <<logs, metrics, file, overlap>>

AskLog(r, s, v, ok) == Ask(r, "/logsink", ok, s, logs[s], v)
AskMetric(r, n, v, ok) == Ask(r, "/metricsink", ok, n, metrics[n], v)

DeleteLog(s) ==
  /\ logs[s] # Absent
  /\ logs' = [logs EXCEPT ![s] = Absent]
  /\ UNCHANGED <<metrics, pc, review, file, overlap>>

DeleteMetric(n) ==
  /\ metrics[n] # Absent
  /\ metrics' = [metrics EXCEPT ![n] = Absent]
  /\ UNCHANGED <<logs, pc, review, file, overlap>>

Stored(rv) == IF rv.path = "/logsink" THEN logs[rv.key] ELSE metrics[rv.key]

Store(rv) ==
  /\ logs' = IF rv.path = "/logsink" THEN [logs EXCEPT ![rv.key] = rv.new] ELSE logs
  /\ metrics' = IF rv.path = "/logsink" THEN metrics ELSE [metrics EXCEPT ![rv.key] = rv.new]

Done(r) == /\ pc' = [pc EXCEPT ![r] = "idle"]
           /\ review' = [review EXCEPT ![r] = NoReview]

Commit(r) ==
  /\ pc[r] = "allowed" /\ review[r].live /\ Stored(review[r]) = review[r].old
  /\ Store(review[r])
  /\ Done(r)
  /\ UNCHANGED <<file, overlap>>

\* The answer is a refusal or an HTTP error (failurePolicy: Fail), comes too
\* late, or the object has changed meanwhile.
Reject(r) ==
  /\ \/ pc[r] = "denied"
     \/ pc[r] = "allowed" /\ (~review[r].live \/ Stored(review[r]) # review[r].old)
  /\ Done(r)
  /\ UNCHANGED <<logs, metrics, file, overlap>>

\* The handler is not told.
TimeOut(r) ==
  /\ "timeout" \in AllowedFaults
  /\ review[r].live
  /\ review' = [review EXCEPT ![r].live = FALSE]
  /\ UNCHANGED <<logs, metrics, pc, file, overlap>>

-----------------------------------------------------------------------------
(***************************************************************************)
(* The handlers.                                                           *)
(***************************************************************************)
Goto(r, label) == /\ pc' = [pc EXCEPT ![r] = label]
                  /\ UNCHANGED <<logs, metrics, review>>

Handling(r, path, ok) == pc[r] = "handle" /\ review[r].path = path /\ review[r].ok = ok

\* deserializeReview, or the unmarshalling of the sink, fails.
BadRequest(r) ==
  /\ \E path \in {"/logsink", "/metricsink"} : Handling(r, path, FALSE)
  /\ Goto(r, "denied")
  /\ UNCHANGED <<file, overlap>>

logSinkHandler(r) ==
  /\ Handling(r, "/logsink", TRUE)
  /\ Goto(r, IF validateLogSinkConfigRequest(review[r].old, review[r].new)
             THEN "allowed" ELSE "denied")
  /\ UNCHANGED <<file, overlap>>

\* Mutant: an entry without a type is left to telegraf.
UncheckedTypes(r) ==
  /\ Handling(r, "/metricsink", TRUE)
  /\ Goto(r, IF \E e \in review[r].new.inputs : e.type = "kubernetes" THEN "denied" ELSE "open")
  /\ UNCHANGED <<file, overlap>>

metricSinkHandler(r) ==
  /\ Handling(r, "/metricsink", TRUE)
  /\ Goto(r, IF TypesAccepted(review[r].new) THEN "open" ELSE "denied")
  /\ UNCHANGED <<file, overlap>>

Touch(r) == overlap' = (overlap \/ \E q \in Requests \ {r} : pc[q] \in {"write", "test"})

Truncate(r) ==
  /\ pc[r] = "open"
  /\ file' = Empty
  /\ Touch(r)
  /\ Goto(r, "write")

\* A handler that truncated earlier writes over what another has written since,
\* and the end of a longer text remains: it depends on the texts' lengths.
WriteFile(r) ==
  /\ pc[r] = "write"
  /\ LET c == configOf(review[r].key, review[r].new) IN
       file' \in IF file = Empty \/ file = c THEN {c} ELSE {c, Mixed}
  /\ Touch(r)
  /\ Goto(r, "test")

WriteFails(r) ==
  /\ "disk" \in AllowedFaults
  /\ pc[r] \in {"open", "write"}
  /\ file' \in IF pc[r] = "open" THEN {file} ELSE {file, Mixed}
  /\ Touch(r)
  /\ Goto(r, "denied")

TestPasses(f) ==
  CASE f = Empty -> {FALSE}
    [] f = Mixed -> BOOLEAN
    [] OTHER     -> {Valid(f)}

\* Mutant: the exit status of telegraf is ignored.
TestIgnored(r) ==
  /\ pc[r] = "test"
  /\ Goto(r, "allowed")
  /\ UNCHANGED <<file, overlap>>

Test(r) ==
  /\ pc[r] = "test"
  /\ \E passes \in TestPasses(file) : Goto(r, IF passes THEN "allowed" ELSE "denied")
  /\ UNCHANGED <<file, overlap>>

-----------------------------------------------------------------------------
Next ==
  \/ \E s \in Sinks : DeleteLog(s)
  \/ \E n \in Names : DeleteMetric(n)
  \/ \E r \in Requests :
       \/ \E s \in Sinks, v \in Specs, ok \in BOOLEAN : AskLog(r, s, v, ok)
       \/ \E n \in Names, v \in MetricSpecs, ok \in BOOLEAN : AskMetric(r, n, v, ok)
       \/ Commit(r) \/ Reject(r) \/ TimeOut(r)
       \/ BadRequest(r) \/ logSinkHandler(r) \/ metricSinkHandler(r)
       \/ Truncate(r) \/ WriteFile(r) \/ WriteFails(r) \/ Test(r)

Spec == Init /\ [][Next]_vars

-----------------------------------------------------------------------------
(***************************************************************************)
(* Properties.                                                             *)
(***************************************************************************)
Tested == {configOf(n, v) : n \in Names, v \in {x \in MetricSpecs : TypesAccepted(x)}}

\* Every variable holds a value of its type; a configuration gets into the
\* file only if its types were accepted.
TypeOK ==
  /\ logs \in [Sinks -> Specs \cup {Absent}]
  /\ metrics \in [Names -> MetricSpecs \cup {Absent}]
  /\ pc \in [Requests -> {"idle", "handle", "open", "write", "test", "allowed", "denied"}]
  /\ review \in [Requests -> LogReview \cup MetricReview \cup {NoReview}]
  /\ \A r \in Requests : pc[r] = "idle" <=> review[r] = NoReview
  /\ file \in NoConf \cup Tested
  /\ overlap \in BOOLEAN

\* Every log sink that was ever stored, created or updated, in any race of
\* reviews and deletions, renders to a safe section, if to any (the rules of
\* validateLogSinkConfigRequest against those of config.go).
SinksSafe ==
  \A s \in Sinks : logs[s] # Absent /\ Renders(logs[s]) => Safe(Output(s, logs[s]))

\* A log sink keeps its type for as long as it exists, although two updates,
\* or an update and a deletion with a new creation, may be reviewed at once.
TypeFixed ==
  [][\A s \in Sinks : logs[s] # Absent /\ logs'[s] # Absent => logs'[s].type = logs[s].type]_vars

\* The configuration the metric-controller makes of a stored metric sink is
\* one that telegraf accepts (validateMetricSinkConfig).
MetricSinksRunnable ==
  \A n \in Names : metrics[n] # Absent => Valid(metricSinkConfig(n, metrics[n]))

\* What the handlers, which share /tmp/telegraf.conf, do achieve: it holds as
\* long as no review touches the file between another's write and test, be it
\* after failed writes, half-written files or abandoned reviews.
RunnableAlone == ~overlap => MetricSinksRunnable

=============================================================================
