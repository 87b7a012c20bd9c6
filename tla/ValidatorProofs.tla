-------------------------- MODULE ValidatorProofs --------------------------
(***************************************************************************)
(* Theorems about the admission webhook, for every set of sinks and specs, *)
(* any number of reviews at a time and any faults.                         *)
(***************************************************************************)
EXTENDS Validator, TLAPS

(***************************************************************************)
(* Type correctness.  TypeOK is not inductive: that the file only ever     *)
(* gets configurations with accepted types depends on where the reviews    *)
(* are.  ReviewInv says what is known of a review by the step its handler  *)
(* has reached.                                                            *)
(***************************************************************************)
ReviewInv ==
  \A r \in Requests :
    /\ pc[r] \in {"open", "write", "test"} =>
         review[r] \in MetricReview /\ TypesAccepted(review[r].new)
    /\ pc[r] = "allowed" =>
         \/ review[r] \in MetricReview /\ TypesAccepted(review[r].new)
         \/ review[r] \in LogReview /\ validateLogSinkConfigRequest(review[r].old, review[r].new)

\* The fields of a review, and that a review is never none.
LEMMA ReviewFields ==
  /\ \A rv \in LogReview : /\ rv.path = "/logsink" /\ rv.key \in Sinks /\ rv.new \in Specs
                           /\ rv # NoReview
  /\ \A rv \in MetricReview : /\ rv.path = "/metricsink" /\ rv.key \in Names
                              /\ rv.new \in MetricSpecs /\ rv # NoReview
  /\ ~NoReview.live /\ NoReview.path = "none"
  BY DEF LogReview, MetricReview, NoReview

\* A review the API server has given up on is the same review.
LEMMA Abandoned ==
  /\ \A rv \in LogReview : /\ [rv EXCEPT !.live = FALSE] \in LogReview
                           /\ [rv EXCEPT !.live = FALSE].key = rv.key
                           /\ [rv EXCEPT !.live = FALSE].old = rv.old
                           /\ [rv EXCEPT !.live = FALSE].new = rv.new
  /\ \A rv \in MetricReview : /\ [rv EXCEPT !.live = FALSE] \in MetricReview
                              /\ [rv EXCEPT !.live = FALSE].key = rv.key
                              /\ [rv EXCEPT !.live = FALSE].old = rv.old
                              /\ [rv EXCEPT !.live = FALSE].new = rv.new
  BY DEF LogReview, MetricReview

\* A request that goes from one step to another carries the same review.
LEMMA GotoKeeps ==
  ASSUME TypeOK, ReviewInv, NEW r \in Requests, pc[r] # "idle",
         NEW label \in {"open", "write", "test", "allowed", "denied"}, Goto(r, label),
         label \in {"open", "write", "test"} =>
           review[r] \in MetricReview /\ TypesAccepted(review[r].new),
         label = "allowed" =>
           \/ review[r] \in MetricReview /\ TypesAccepted(review[r].new)
           \/ review[r] \in LogReview /\ validateLogSinkConfigRequest(review[r].old, review[r].new),
         file' \in NoConf \cup Tested, overlap' \in BOOLEAN
  PROVE  TypeOK' /\ ReviewInv'
<1>1. /\ pc' = [pc EXCEPT ![r] = label] /\ review' = review /\ logs' = logs /\ metrics' = metrics
  BY DEF Goto
<1>2. \A q \in Requests : pc'[q] = IF q = r THEN label ELSE pc[q]
  BY <1>1 DEF TypeOK
<1>3. TypeOK'
  BY <1>1, <1>2 DEF TypeOK
<1>4. ReviewInv'
  BY <1>1, <1>2 DEF ReviewInv
<1> QED
  BY <1>3, <1>4

\* Every step of the API server and of the handlers keeps the types.
LEMMA TypeStep == TypeOK /\ ReviewInv /\ [Next]_vars => TypeOK' /\ ReviewInv'
<1> SUFFICES ASSUME TypeOK, ReviewInv, [Next]_vars PROVE TypeOK' /\ ReviewInv'
  OBVIOUS
<1>0. file \in NoConf \cup Tested /\ overlap \in BOOLEAN
  BY DEF TypeOK
<1>1. ASSUME NEW s \in Sinks, DeleteLog(s) PROVE TypeOK' /\ ReviewInv'
  BY <1>1 DEF DeleteLog, TypeOK, ReviewInv
<1>2. ASSUME NEW n \in Names, DeleteMetric(n) PROVE TypeOK' /\ ReviewInv'
  BY <1>2 DEF DeleteMetric, TypeOK, ReviewInv
<1>3. ASSUME NEW r \in Requests, NEW path, NEW ok, NEW key, NEW old, NEW new,
             Ask(r, path, ok, key, old, new),
             [path |-> path, ok |-> ok, live |-> TRUE, key |-> key, old |-> old, new |-> new]
               \in LogReview \cup MetricReview
      PROVE  TypeOK' /\ ReviewInv'
  <2> DEFINE rv == [path |-> path, ok |-> ok, live |-> TRUE, key |-> key, old |-> old, new |-> new]
  <2>1. rv \in LogReview \cup MetricReview /\ rv # NoReview
    BY <1>3, ReviewFields
  <2>2. /\ review' = [review EXCEPT ![r] = rv] /\ pc' = [pc EXCEPT ![r] = "handle"]
        /\ UNCHANGED <<logs, metrics, file, overlap>>
    BY <1>3 DEF Ask
  <2> HIDE DEF rv
  <2>3. \A q \in Requests : /\ pc'[q] = IF q = r THEN "handle" ELSE pc[q]
                            /\ review'[q] = IF q = r THEN rv ELSE review[q]
    BY <2>2 DEF TypeOK
  <2>4. TypeOK'
    BY <2>1, <2>2, <2>3 DEF TypeOK
  <2>5. ReviewInv'
    BY <2>3 DEF ReviewInv
  <2> QED
    BY <2>4, <2>5
<1>4. ASSUME NEW r \in Requests, NEW s \in Sinks, NEW v \in Specs, NEW ok \in BOOLEAN,
             AskLog(r, s, v, ok)
      PROVE  TypeOK' /\ ReviewInv'
  <2>1. [path |-> "/logsink", ok |-> ok, live |-> TRUE, key |-> s, old |-> logs[s], new |-> v]
          \in LogReview \cup MetricReview
    BY DEF LogReview, TypeOK
  <2> QED
    BY <1>3, <1>4, <2>1 DEF AskLog
<1>5. ASSUME NEW r \in Requests, NEW n \in Names, NEW v \in MetricSpecs, NEW ok \in BOOLEAN,
             AskMetric(r, n, v, ok)
      PROVE  TypeOK' /\ ReviewInv'
  <2>1. [path |-> "/metricsink", ok |-> ok, live |-> TRUE, key |-> n, old |-> metrics[n], new |-> v]
          \in LogReview \cup MetricReview
    BY DEF MetricReview, TypeOK
  <2> QED
    BY <1>3, <1>5, <2>1 DEF AskMetric
<1>6. ASSUME NEW r \in Requests, Done(r), UNCHANGED <<file, overlap>>,
             logs' \in [Sinks -> Specs \cup {Absent}],
             metrics' \in [Names -> MetricSpecs \cup {Absent}]
      PROVE  TypeOK' /\ ReviewInv'
  <2>1. \A q \in Requests : /\ pc'[q] = IF q = r THEN "idle" ELSE pc[q]
                            /\ review'[q] = IF q = r THEN NoReview ELSE review[q]
    BY <1>6 DEF Done, TypeOK
  <2>2. TypeOK'
    BY <1>6, <2>1 DEF Done, TypeOK
  <2>3. ReviewInv'
    BY <2>1 DEF ReviewInv
  <2> QED
    BY <2>2, <2>3
<1>7. ASSUME NEW r \in Requests, Commit(r) PROVE TypeOK' /\ ReviewInv'
  <2>1. \/ review[r].path = "/metricsink" /\ review[r].key \in Names /\ review[r].new \in MetricSpecs
        \/ review[r].path = "/logsink" /\ review[r].key \in Sinks /\ review[r].new \in Specs
    BY <1>7, ReviewFields DEF Commit, ReviewInv
  <2>2. /\ logs' \in [Sinks -> Specs \cup {Absent}]
        /\ metrics' \in [Names -> MetricSpecs \cup {Absent}]
    BY <1>7, <2>1 DEF Commit, Store, TypeOK
  <2> QED
    BY <1>6, <1>7, <2>2 DEF Commit
<1>8. ASSUME NEW r \in Requests, Reject(r) PROVE TypeOK' /\ ReviewInv'
  BY <1>6, <1>8 DEF Reject, TypeOK
<1>9. ASSUME NEW r \in Requests, TimeOut(r) PROVE TypeOK' /\ ReviewInv'
  <2>1. review[r] \in LogReview \cup MetricReview
    BY <1>9, ReviewFields DEF TimeOut, TypeOK
  <2> DEFINE rv == [review[r] EXCEPT !.live = FALSE]
  <2>2. /\ review[r] \in LogReview => rv \in LogReview
        /\ review[r] \in MetricReview => rv \in MetricReview
        /\ rv.new = review[r].new /\ rv.old = review[r].old
    BY <2>1, Abandoned
  <2>3. review' = [review EXCEPT ![r] = rv] /\ UNCHANGED <<logs, metrics, pc, file, overlap>>
    BY <1>9 DEF TimeOut, TypeOK
  <2> HIDE DEF rv
  <2>4. \A q \in Requests : review'[q] = IF q = r THEN rv ELSE review[q]
    BY <2>3 DEF TypeOK
  <2>5. rv # NoReview /\ review[r] # NoReview
    BY <2>1, <2>2, ReviewFields
  <2>6. TypeOK'
    BY <2>1, <2>2, <2>3, <2>4, <2>5 DEF TypeOK
  <2>7. ReviewInv'
    BY <2>2, <2>3, <2>4 DEF ReviewInv
  <2> QED
    BY <2>6, <2>7
<1>10. ASSUME NEW r \in Requests, BadRequest(r) PROVE TypeOK' /\ ReviewInv'
  BY <1>0, <1>10, GotoKeeps DEF BadRequest, Handling
<1>11. ASSUME NEW r \in Requests, logSinkHandler(r) PROVE TypeOK' /\ ReviewInv'
  <2>1. pc[r] = "handle" /\ review[r] \in LogReview
    BY <1>11, ReviewFields DEF logSinkHandler, Handling, TypeOK
  <2> QED
    BY <1>0, <1>11, <2>1, GotoKeeps DEF logSinkHandler
<1>12. ASSUME NEW r \in Requests, metricSinkHandler(r) PROVE TypeOK' /\ ReviewInv'
  <2>1. pc[r] = "handle" /\ review[r] \in MetricReview
    BY <1>12, ReviewFields DEF metricSinkHandler, Handling, TypeOK
  <2> QED
    BY <1>0, <1>12, <2>1, GotoKeeps DEF metricSinkHandler
<1>13. ASSUME NEW r \in Requests, Truncate(r) PROVE TypeOK' /\ ReviewInv'
  <2>1. file' \in NoConf \cup Tested /\ overlap' \in BOOLEAN
    BY <1>13 DEF Truncate, NoConf, Touch, TypeOK
  <2> QED
    BY <1>13, <2>1, GotoKeeps DEF Truncate, ReviewInv
<1>14. ASSUME NEW r \in Requests, WriteFile(r) PROVE TypeOK' /\ ReviewInv'
  <2>1. review[r] \in MetricReview /\ TypesAccepted(review[r].new)
    BY <1>14 DEF WriteFile, ReviewInv
  <2>2. configOf(review[r].key, review[r].new) \in Tested
    BY <2>1, ReviewFields DEF Tested
  <2>3. file' \in NoConf \cup Tested /\ overlap' \in BOOLEAN
    BY <1>14, <2>2 DEF WriteFile, NoConf, Touch, TypeOK
  <2> QED
    BY <1>14, <2>1, <2>3, GotoKeeps DEF WriteFile
<1>15. ASSUME NEW r \in Requests, WriteFails(r) PROVE TypeOK' /\ ReviewInv'
  <2>1. file' \in NoConf \cup Tested /\ overlap' \in BOOLEAN
    BY <1>15 DEF WriteFails, NoConf, Touch, TypeOK
  <2> QED
    BY <1>15, <2>1, GotoKeeps DEF WriteFails
<1>16. ASSUME NEW r \in Requests, Test(r) PROVE TypeOK' /\ ReviewInv'
  BY <1>0, <1>16, GotoKeeps DEF Test, ReviewInv
<1>17. CASE UNCHANGED vars
  BY <1>17 DEF vars, TypeOK, ReviewInv
<1> QED
  BY <1>1, <1>2, <1>4, <1>5, <1>7, <1>8, <1>9, <1>10, <1>11, <1>12, <1>13, <1>14, <1>15, <1>16,
     <1>17 DEF Next

\* The initial state has its type.
LEMMA TypeInit == Init => TypeOK /\ ReviewInv
  BY DEF Init, TypeOK, ReviewInv, EmptyConfig, NoConf

\* The variables always hold values of their types; telegraf is never given a
\* configuration with a refused type, whatever races for the file there are.
THEOREM TypeCorrect == Spec => []TypeOK
  BY TypeInit, TypeStep, PTL DEF Spec

-----------------------------------------------------------------------------
(***************************************************************************)
(* Log sinks.                                                              *)
(***************************************************************************)

\* What logSinkHandler has found of a spec it allows.
Sound(v) ==
  \/ v.type = "syslog" /\ ValidSyslog(v)
  \/ v.type = "webhook" /\ ValidWebhook(v)

LogsSound == \A s \in Sinks : logs[s] # Absent => logs[s] \in Specs /\ Sound(logs[s])

\* A spec that is allowed renders to a safe section, if to any.
LEMMA SoundSafe ==
  ASSUME NEW s \in Sinks, NEW v \in Specs, Sound(v), Renders(v)
  PROVE  Safe(Output(s, v))
<1>1. CASE v.type = "syslog"
  <2>1. v.enableTLS /\ v.port <= MaxPort /\ v.port >= 1
    BY <1>1, Zenon DEF Sound, ValidSyslog
  <2>2. SyslogOutput(s, v).tls # "none"
    <3>1. TLSConfig(v) = IF v.skipVerify THEN "insecure" ELSE "verify"
      BY <2>1, Zenon DEF TLSConfig
    <3>2. SyslogOutput(s, v).tls = TLSConfig(v)
      BY DEF SyslogOutput
    <3> QED
      BY <3>1, <3>2
  <2>3. v.port \in Int /\ MaxPort \in Int
    BY SpecsAssumption DEF SinkSpec, MaxPort
  <2>4. SyslogOutput(s, v).addr[2] \in 1..MaxPort
    BY <2>1, <2>3 DEF SyslogOutput
  <2> QED
    BY <1>1, <2>2, <2>4 DEF Output, Safe
<1>2. CASE v.type # "syslog"
  <2>1. v.url.prefix = "https://" /\ v.url.ok
    BY <1>2 DEF Sound, ValidWebhook, Renders
  <2>2. v.url.scheme = "https"
    BY <2>1, SpecsAssumption
  <2>3. buildHTTPConfig(s, v).tls # "none" /\ buildHTTPConfig(s, v).plugin # "syslog"
    BY <2>2 DEF buildHTTPConfig
  <2> QED
    BY <1>2, <2>3 DEF Output, Safe
<1> QED
  BY <1>1, <1>2

\* What a step may do to the log sinks: delete one, or store the new spec of a
\* review that was allowed and whose old spec is still stored.
LEMMA LogsChange ==
  ASSUME TypeOK, ReviewInv, [Next]_vars
  PROVE  \/ logs' = logs
         \/ \E s \in Sinks : logs' = [logs EXCEPT ![s] = Absent]
         \/ \E s \in Sinks, v \in Specs : /\ logs' = [logs EXCEPT ![s] = v]
                                          /\ validateLogSinkConfigRequest(logs[s], v)
<1>1. ASSUME NEW s \in Sinks, DeleteLog(s) PROVE logs' = [logs EXCEPT ![s] = Absent]
  BY <1>1 DEF DeleteLog
<1>2. ASSUME NEW r \in Requests, Commit(r)
      PROVE  \/ logs' = logs
             \/ \E s \in Sinks, v \in Specs : /\ logs' = [logs EXCEPT ![s] = v]
                                              /\ validateLogSinkConfigRequest(logs[s], v)
  <2>1. /\ pc[r] = "allowed" /\ Stored(review[r]) = review[r].old /\ Store(review[r])
    BY <1>2 DEF Commit
  <2>2. CASE review[r].path = "/logsink"
    <3>1. review[r] \in LogReview /\ validateLogSinkConfigRequest(review[r].old, review[r].new)
      BY <2>1, <2>2, ReviewFields DEF ReviewInv
    <3>2. /\ review[r].key \in Sinks /\ review[r].new \in Specs
          /\ logs[review[r].key] = review[r].old
          /\ logs' = [logs EXCEPT ![review[r].key] = review[r].new]
      BY <2>1, <2>2, <3>1, ReviewFields DEF Stored, Store
    <3> QED
      BY <3>1, <3>2
  <2>3. CASE review[r].path # "/logsink"
    BY <2>1, <2>3 DEF Store
  <2> QED
    BY <2>2, <2>3
<1> QED
  BY <1>1, <1>2
     DEF Next, vars, DeleteMetric, AskLog, AskMetric, Ask, Reject, TimeOut, BadRequest, Goto,
         logSinkHandler, metricSinkHandler, Truncate, WriteFile, WriteFails, Test

\* Every step leaves only allowed specs in the API server.
LEMMA LogsStep == TypeOK /\ ReviewInv /\ LogsSound /\ [Next]_vars => LogsSound'
<1> SUFFICES ASSUME TypeOK, ReviewInv, LogsSound, [Next]_vars PROVE LogsSound'
  OBVIOUS
<1>1. CASE logs' = logs
  BY <1>1 DEF LogsSound
<1>2. CASE \E s \in Sinks : logs' = [logs EXCEPT ![s] = Absent]
  BY <1>2 DEF LogsSound, TypeOK
<1>3. CASE \E s \in Sinks, v \in Specs : /\ logs' = [logs EXCEPT ![s] = v]
                                         /\ validateLogSinkConfigRequest(logs[s], v)
  <2>1. PICK s \in Sinks, v \in Specs : /\ logs' = [logs EXCEPT ![s] = v]
                                        /\ validateLogSinkConfigRequest(logs[s], v)
    BY <1>3
  <2>2. Sound(v)
    BY <2>1 DEF validateLogSinkConfigRequest, Sound
  <2> QED
    BY <2>1, <2>2 DEF LogsSound, TypeOK
<1> QED
  BY <1>1, <1>2, <1>3, LogsChange

\* Every log sink that is ever stored, in whatever race of any number of
\* reviews, updates, deletions and time-outs, renders to a safe section.
THEOREM LogSinksSafe == Spec => []SinksSafe
<1>1. Init => LogsSound
  BY DEF Init, LogsSound, EmptyConfig
<1>2. LogsSound => SinksSafe
  BY SoundSafe DEF LogsSound, SinksSafe
<1> QED
  BY <1>1, <1>2, TypeInit, TypeStep, LogsStep, PTL DEF Spec

\* No step changes the type of a log sink that stays: the API server stores an
\* update only if the object is still the one the validator compared it with.
THEOREM TypesNeverChange == Spec => TypeFixed
<1> DEFINE Fixed == \A s \in Sinks : logs[s] # Absent /\ logs'[s] # Absent => logs'[s].type = logs[s].type
<1>1. TypeOK /\ ReviewInv /\ [Next]_vars => [Fixed]_vars
  <2> SUFFICES ASSUME TypeOK, ReviewInv, [Next]_vars PROVE Fixed
    OBVIOUS
  <2>1. CASE logs' = logs
    BY <2>1
  <2>2. CASE \E s \in Sinks : logs' = [logs EXCEPT ![s] = Absent]
    BY <2>2 DEF TypeOK
  <2>3. CASE \E s \in Sinks, v \in Specs : /\ logs' = [logs EXCEPT ![s] = v]
                                           /\ validateLogSinkConfigRequest(logs[s], v)
    <3>1. PICK s \in Sinks, v \in Specs : /\ logs' = [logs EXCEPT ![s] = v]
                                          /\ validateLogSinkConfigRequest(logs[s], v)
      BY <2>3
    <3>2. logs[s] # Absent => logs[s].type = v.type
      BY <3>1 DEF validateLogSinkConfigRequest
    <3> QED
      BY <3>1, <3>2 DEF TypeOK
  <2> QED
    BY <2>1, <2>2, <2>3, LogsChange
<1> HIDE DEF Fixed
<1>2. Spec => [][Fixed]_vars
  BY <1>1, TypeInit, TypeStep, PTL DEF Spec
<1> QED
  BY <1>2 DEF TypeFixed, Fixed

-----------------------------------------------------------------------------
(***************************************************************************)
(* Metric sinks and the one file.                                          *)
(*                                                                         *)
(* As long as no review has touched the file in the middle of another, at  *)
(* most one review is between its truncation and its test, and the file is *)
(* as that review left it.                                                 *)
(***************************************************************************)
Runs(n, v) == TypesAccepted(v) /\ Valid(configOf(n, v))

FileInv ==
  ~overlap =>
    /\ \A r, q \in Requests :
         pc[r] \in {"write", "test"} /\ pc[q] \in {"write", "test"} => r = q
    /\ \A r \in Requests :
         /\ pc[r] = "write" => file = Empty
         /\ pc[r] = "test" => file = configOf(review[r].key, review[r].new)
         /\ pc[r] = "allowed" /\ review[r] \in MetricReview => Runs(review[r].key, review[r].new)
    /\ \A n \in Names : metrics[n] # Absent => metrics[n] \in MetricSpecs /\ Runs(n, metrics[n])

\* Telegraf accepts the file that the metric-controller writes for a sink,
\* given that it accepted the validator's: the two differ in their tags and in
\* their default input only.
LEMMA RunsAlone ==
  ASSUME NEW n \in Names, NEW v \in MetricSpecs, Runs(n, v)
  PROVE  Valid(metricSinkConfig(n, v))
<1>1. Default \notin BadOpts /\ Default \notin Unencodable
  BY BadOptsAssumption, NamesAssumption
<1> DEFINE kube == {<<Default, "kubernetes", Default>>}
           prom == {<<Default, "prometheus", Default>>}
           ins == appendInputsAndOutputs(n, v.inputs)
           outs == appendInputsAndOutputs(n, v.outputs)
<1>2. /\ configOf(n, v) = telegrafConfig({}, kube \cup ins, outs)
      /\ metricSinkConfig(n, v) = telegrafConfig(GlobalTags, prom \cup ins, outs)
  BY DEF configOf, metricSinkConfig
<1>3. kube # {} /\ prom # {} /\ \A e \in prom : e[3] = Default
  OBVIOUS
<1> HIDE DEF kube, prom, ins, outs
<1>4. kube \cup ins # {} /\ prom \cup ins # {}
  BY <1>3
<1>5. CASE outs = {}
  BY <1>2, <1>5 DEF telegrafConfig, Runs
<1>6. CASE outs # {}
  <2>1. /\ Encodable((kube \cup ins) \cup outs)
        /\ configOf(n, v) = [tags |-> {}, inputs |-> kube \cup ins, outputs |-> outs]
    <3>1. configOf(n, v) # noText
      BY DEF Runs, Valid, noText
    <3> QED
      BY <1>2, <1>6, <1>4, <3>1 DEF telegrafConfig
  <2>2. \A e \in ins \cup outs : e[3] \notin Unencodable /\ e[3] \notin BadOpts
    BY <2>1 DEF Encodable, Runs, Valid
  <2>3. Encodable((prom \cup ins) \cup outs)
    BY <1>1, <1>3, <2>2 DEF Encodable
  <2>4. metricSinkConfig(n, v) = [tags |-> GlobalTags, inputs |-> prom \cup ins, outputs |-> outs]
    BY <1>2, <1>6, <1>4, <2>3 DEF telegrafConfig
  <2> QED
    BY <1>1, <1>3, <1>4, <2>2, <2>4 DEF Valid
<1> QED
  BY <1>5, <1>6

\* A step of one handler that touches the file only while no other review is
\* between its truncation and its test.
LEMMA TouchAlone ==
  ASSUME TypeOK, NEW r \in Requests, Touch(r), ~overlap',
         NEW label, pc' = [pc EXCEPT ![r] = label]
  PROVE  ~overlap /\ \A q \in Requests : q # r => pc'[q] = pc[q] /\ pc'[q] \notin {"write", "test"}
  BY DEF Touch, TypeOK

\* Every step keeps the file as the one review at work left it.
LEMMA FileStep == TypeOK /\ ReviewInv /\ FileInv /\ [Next]_vars => FileInv'
<1> SUFFICES ASSUME TypeOK, ReviewInv, FileInv, [Next]_vars, ~overlap' PROVE FileInv'
  BY DEF FileInv
<1>1. ASSUME NEW s \in Sinks, DeleteLog(s) PROVE FileInv'
  BY <1>1 DEF DeleteLog, FileInv
<1>2. ASSUME NEW n \in Names, DeleteMetric(n) PROVE FileInv'
  BY <1>2 DEF DeleteMetric, FileInv, TypeOK
<1>3. ASSUME NEW r \in Requests, NEW path, NEW ok, NEW key, NEW old, NEW new,
             Ask(r, path, ok, key, old, new)
      PROVE  FileInv'
  <2>1. \A q \in Requests : /\ pc'[q] = IF q = r THEN "handle" ELSE pc[q]
                            /\ q # r => review'[q] = review[q]
    BY <1>3 DEF Ask, TypeOK
  <2>2. UNCHANGED <<metrics, file, overlap>>
    BY <1>3 DEF Ask
  <2> QED
    BY <2>1, <2>2 DEF FileInv
<1>4. ASSUME NEW r \in Requests, Done(r), UNCHANGED <<file, overlap>>,
             \A n \in Names : metrics'[n] # Absent => metrics'[n] \in MetricSpecs /\ Runs(n, metrics'[n])
      PROVE  FileInv'
  <2>1. \A q \in Requests : /\ pc'[q] = IF q = r THEN "idle" ELSE pc[q]
                            /\ q # r => review'[q] = review[q]
    BY <1>4 DEF Done, TypeOK
  <2> QED
    BY <1>4, <2>1 DEF FileInv
<1>5. ASSUME NEW r \in Requests, Commit(r) PROVE FileInv'
  <2>1. /\ pc[r] = "allowed" /\ Store(review[r]) /\ Done(r) /\ UNCHANGED <<file, overlap>>
    BY <1>5 DEF Commit
  <2>2. \A n \in Names : metrics[n] # Absent => metrics[n] \in MetricSpecs /\ Runs(n, metrics[n])
    BY <2>1 DEF FileInv
  <2>3. \A n \in Names : metrics'[n] # Absent => metrics'[n] \in MetricSpecs /\ Runs(n, metrics'[n])
    <3>1. CASE review[r].path = "/logsink"
      BY <2>1, <2>2, <3>1 DEF Store
    <3>2. CASE review[r].path # "/logsink"
      <4>1. review[r] \in MetricReview
        BY <2>1, <3>2, ReviewFields DEF ReviewInv
      <4>2. /\ review[r].key \in Names /\ review[r].new \in MetricSpecs
            /\ Runs(review[r].key, review[r].new)
        BY <2>1, <4>1, ReviewFields DEF FileInv
      <4>3. metrics' = [metrics EXCEPT ![review[r].key] = review[r].new]
        BY <2>1, <3>2 DEF Store
      <4> QED
        BY <2>2, <4>2, <4>3 DEF TypeOK
    <3> QED
      BY <3>1, <3>2
  <2> QED
    BY <1>4, <2>1, <2>3
<1>6. ASSUME NEW r \in Requests, Reject(r) PROVE FileInv'
  <2>1. Done(r) /\ UNCHANGED <<metrics, file, overlap>>
    BY <1>6 DEF Reject
  <2>2. \A n \in Names : metrics'[n] # Absent => metrics'[n] \in MetricSpecs /\ Runs(n, metrics'[n])
    BY <2>1 DEF FileInv
  <2> QED
    BY <1>4, <2>1, <2>2
<1>7. ASSUME NEW r \in Requests, TimeOut(r) PROVE FileInv'
  <2> DEFINE rv == [review[r] EXCEPT !.live = FALSE]
  <2>1. review[r] \in LogReview \cup MetricReview
    BY <1>7, ReviewFields DEF TimeOut, TypeOK
  <2>2. /\ rv \in MetricReview => review[r] \in MetricReview
        /\ rv.key = review[r].key /\ rv.new = review[r].new
    <3>1. review[r] \in LogReview => rv \notin MetricReview
      BY Abandoned, ReviewFields
    <3> QED
      BY <2>1, <3>1, Abandoned
  <2>3. review' = [review EXCEPT ![r] = rv] /\ UNCHANGED <<metrics, pc, file, overlap>>
    BY <1>7 DEF TimeOut, TypeOK
  <2> HIDE DEF rv
  <2>4. \A q \in Requests : review'[q] = IF q = r THEN rv ELSE review[q]
    BY <2>3 DEF TypeOK
  <2> QED
    BY <2>2, <2>3, <2>4 DEF FileInv
<1>8. ASSUME NEW r \in Requests, NEW label \in {"open", "allowed", "denied"},
             Goto(r, label), UNCHANGED <<file, overlap>>,
             label = "allowed" /\ review[r] \in MetricReview => Runs(review[r].key, review[r].new)
      PROVE  FileInv'
  <2>1. /\ \A q \in Requests : pc'[q] = IF q = r THEN label ELSE pc[q]
        /\ UNCHANGED <<metrics, review>>
    BY <1>8 DEF Goto, TypeOK
  <2> QED
    BY <1>8, <2>1 DEF FileInv
<1>9. ASSUME NEW r \in Requests, BadRequest(r) \/ metricSinkHandler(r) PROVE FileInv'
  BY <1>8, <1>9 DEF BadRequest, metricSinkHandler
<1>10. ASSUME NEW r \in Requests, logSinkHandler(r) PROVE FileInv'
  <2>1. review[r] \notin MetricReview
    BY <1>10, ReviewFields DEF logSinkHandler, Handling
  <2> QED
    BY <1>8, <1>10, <2>1 DEF logSinkHandler
<1>11. ASSUME NEW r \in Requests, Truncate(r) PROVE FileInv'
  <2>1. ~overlap /\ \A q \in Requests : q # r => pc'[q] = pc[q] /\ pc'[q] \notin {"write", "test"}
    BY <1>11, TouchAlone DEF Truncate, Goto
  <2>2. pc'[r] = "write" /\ file' = Empty /\ UNCHANGED <<metrics, review>>
    BY <1>11 DEF Truncate, Goto, TypeOK
  <2> QED
    BY <2>1, <2>2 DEF FileInv
<1>12. ASSUME NEW r \in Requests, WriteFile(r) PROVE FileInv'
  <2>1. ~overlap /\ \A q \in Requests : q # r => pc'[q] = pc[q] /\ pc'[q] \notin {"write", "test"}
    BY <1>12, TouchAlone DEF WriteFile, Goto
  <2>2. file = Empty
    BY <1>12, <2>1 DEF WriteFile, FileInv
  <2>3. /\ pc'[r] = "test" /\ file' = configOf(review[r].key, review[r].new)
        /\ UNCHANGED <<metrics, review>>
    BY <1>12, <2>2 DEF WriteFile, Goto, TypeOK
  <2> QED
    BY <2>1, <2>3 DEF FileInv
<1>13. ASSUME NEW r \in Requests, WriteFails(r) PROVE FileInv'
  <2>1. ~overlap /\ \A q \in Requests : q # r => pc'[q] = pc[q] /\ pc'[q] \notin {"write", "test"}
    BY <1>13, TouchAlone DEF WriteFails, Goto
  <2>2. pc'[r] = "denied" /\ UNCHANGED <<metrics, review>>
    BY <1>13 DEF WriteFails, Goto, TypeOK
  <2> QED
    BY <2>1, <2>2 DEF FileInv
<1>14. ASSUME NEW r \in Requests, Test(r) PROVE FileInv'
  <2> DEFINE c == configOf(review[r].key, review[r].new)
  <2>1. pc[r] = "test" /\ UNCHANGED <<file, overlap>>
    BY <1>14 DEF Test
  <2>2. review[r] \in MetricReview /\ TypesAccepted(review[r].new) /\ file = c
    BY <2>1 DEF ReviewInv, FileInv
  <2>3. c # Empty /\ c # Mixed
    BY <2>2, ReviewFields, ValidatorAssumption
  <2>4. TestPasses(file) = {Valid(c)}
    BY <2>2, <2>3 DEF TestPasses
  <2>5. Goto(r, IF Valid(c) THEN "allowed" ELSE "denied")
    BY <1>14, <2>4 DEF Test
  <2> HIDE DEF c
  <2>6. CASE Valid(c)
    BY <1>8, <2>1, <2>2, <2>5, <2>6 DEF Runs, c
  <2>7. CASE ~Valid(c)
    BY <1>8, <2>1, <2>5, <2>7
  <2> QED
    BY <2>6, <2>7
<1>15. CASE UNCHANGED vars
  BY <1>15 DEF vars, FileInv
<1> QED
  BY <1>1, <1>2, <1>3, <1>5, <1>6, <1>7, <1>9, <1>10, <1>11, <1>12, <1>13, <1>14, <1>15
     DEF Next, AskLog, AskMetric

\* Any number of reviews, failed and half-finished writes and abandoned
\* reviews do no harm as long as no review touches the file in the middle of
\* another: every stored metric sink has a configuration that telegraf accepts.
THEOREM MetricSinksRunAlone == Spec => []RunnableAlone
<1>1. Init => FileInv
  BY DEF Init, FileInv
<1>2. FileInv => RunnableAlone
  BY RunsAlone DEF FileInv, RunnableAlone, MetricSinksRunnable
<1> QED
  BY <1>1, <1>2, TypeInit, TypeStep, FileStep, PTL DEF Spec

\* What a race of reviews cannot take away: the type rules are checked on the
\* object under review itself, so every metric sink that is created or updated
\* has passed them, whatever became of the shared file.  It is all that
\* AdmittedMetricSinks assumes of the validator.
THEOREM TypesAlwaysChecked ==
  Spec => [][\A n \in Names : metrics'[n] \notin {metrics[n], Absent} => TypesAccepted(metrics'[n])]_vars
<1> DEFINE Checked == \A n \in Names : metrics'[n] \notin {metrics[n], Absent} => TypesAccepted(metrics'[n])
<1>1. TypeOK /\ ReviewInv /\ [Next]_vars => [Checked]_vars
  <2> SUFFICES ASSUME TypeOK, ReviewInv, Next PROVE Checked
    OBVIOUS
  <2>1. CASE metrics' = metrics
    BY <2>1
  <2>2. CASE \E m \in Names : DeleteMetric(m)
    BY <2>2 DEF DeleteMetric, TypeOK
  <2>3. CASE \E r \in Requests : Commit(r)
    <3>1. PICK r \in Requests : Commit(r)
      BY <2>3
    <3>2. CASE review[r].path = "/logsink"
      BY <3>1, <3>2 DEF Commit, Store
    <3>3. CASE review[r].path # "/logsink"
      <4>1. TypesAccepted(review[r].new)
        BY <3>1, <3>3, ReviewFields DEF Commit, ReviewInv
      <4>2. metrics' = [metrics EXCEPT ![review[r].key] = review[r].new]
        BY <3>1, <3>3 DEF Commit, Store
      <4> QED
        BY <4>1, <4>2 DEF TypeOK
    <3> QED
      BY <3>2, <3>3
  <2> QED
    BY <2>1, <2>2, <2>3 DEF Next, DeleteLog, AskLog, AskMetric, Ask, Reject, TimeOut, BadRequest,
       logSinkHandler, metricSinkHandler, Truncate, WriteFile, WriteFails, Test, Goto
<1> QED
  BY <1>1, TypeInit, TypeStep, PTL DEF Spec

(***************************************************************************)
(* What would make MetricSinksRunnable hold without a condition: a mutex   *)
(* in validateMetricSinkConfig, taken before the file is opened and        *)
(* released after telegraf has tested it.                                  *)
(***************************************************************************)
LockTaken ==
  \A r \in Requests : pc[r] = "open" /\ pc'[r] # "open" =>
    \A q \in Requests \ {r} : pc[q] \notin {"write", "test"}

\* With the mutex no review touches the file in the middle of another.
LEMMA LockStep ==
  TypeOK /\ FileInv /\ ~overlap /\ [Next]_vars /\ [LockTaken]_vars => ~overlap'
<1> SUFFICES ASSUME TypeOK, FileInv, ~overlap, [Next]_vars, [LockTaken]_vars PROVE ~overlap'
  OBVIOUS
<1>1. ASSUME NEW r \in Requests, pc[r] \in {"open", "write"}, Touch(r),
             NEW label \in {"write", "test", "denied"}, pc' = [pc EXCEPT ![r] = label],
             pc[r] # label
      PROVE  ~overlap'
  <2>1. pc'[r] = label /\ pc' # pc
    BY <1>1 DEF TypeOK
  <2>2. CASE pc[r] = "open"
    BY <1>1, <2>1, <2>2 DEF LockTaken, vars, Touch
  <2>3. CASE pc[r] = "write"
    BY <1>1, <2>3 DEF FileInv, Touch
  <2> QED
    BY <1>1, <2>2, <2>3
<1>2. ASSUME NEW r \in Requests, Truncate(r) \/ WriteFile(r) \/ WriteFails(r) PROVE ~overlap'
  BY <1>1, <1>2 DEF Truncate, WriteFile, WriteFails, Goto
<1>3. CASE UNCHANGED overlap
  BY <1>3
<1> QED
  BY <1>2, <1>3 DEF Next, vars, DeleteLog, DeleteMetric, AskLog, AskMetric, Ask, Commit, Reject,
     TimeOut, BadRequest, logSinkHandler, metricSinkHandler, Test

\* A mutex round the file is all that is missing: with it every stored metric
\* sink has a configuration that telegraf accepts, with any number of reviews,
\* failed writes and abandoned reviews.
THEOREM MutexSuffices == Spec /\ [][LockTaken]_vars => []MetricSinksRunnable
<1>1. Init => FileInv /\ ~overlap
  BY DEF Init, FileInv
<1>2. FileInv /\ ~overlap => MetricSinksRunnable
  BY RunsAlone DEF FileInv, MetricSinksRunnable
<1> QED
  BY <1>1, <1>2, TypeInit, TypeStep, FileStep, LockStep, PTL DEF Spec

=============================================================================
