----------------------- MODULE AdmittedLogSinksProofs -----------------------
(***************************************************************************)
(* Behind the validator no record is sent in clear or to a port there is   *)
(* not, for any set of sinks, specs and pods, any bound on the             *)
(* notifications and any set of faults.                                    *)
(***************************************************************************)
EXTENDS AdmittedLogSinks, LogSinkControllerProofs

(***************************************************************************)
(* The inductive invariant follows a spec on its way from the API server   *)
(* to a pod: wherever a spec is kept it is one the validator allowed, and  *)
(* wherever rendered text is kept it is text of allowed specs.             *)
(***************************************************************************)
Sound(v) ==
  \/ v.type = "syslog" /\ ValidSyslog(v)
  \/ v.type = "webhook" /\ ValidWebhook(v)

Known == {v \in Specs : Sound(v)} \cup {Absent}

Unsafe(o) == o[1] # NoSink /\ ~Safe(o[2])

Sealed == {o \in Sections : ~Unsafe(o)}

SpecsKnown ==
  /\ api \in [Sinks -> Known]
  /\ store \in [Sinks -> Known]
  /\ config \in [Sinks -> Known]
  /\ \A k \in Kinds : \A i \in 1..Len(pending[k]) : pending[k][i].new \in Known

TextSealed ==
  /\ \A k \in Kinds : value[k] \subseteq Sealed
  /\ cm.outputs \subseteq Sealed
  /\ \A p \in Pods : pods[p] # Down => pods[p].outputs \subseteq Sealed

ClearInv == SpecsKnown /\ TextSealed

\* A spec the validator allows renders to a safe section.
LEMMA SoundSafe ==
  ASSUME NEW s \in Sinks, NEW v \in Specs, Sound(v), Renders(v)
  PROVE  Safe(Output(s, v))
<1>1. CASE v.type = "syslog"
  <2>1. ValidSyslog(v)
    BY <1>1 DEF Sound
  <2>2. TLSConfig(v) # "none"
    <3>1. v.enableTLS
      BY <2>1, Zenon DEF ValidSyslog
    <3>2. TLSConfig(v) = IF v.skipVerify THEN "insecure" ELSE "verify"
      BY <3>1, Zenon DEF TLSConfig
    <3> QED
      BY <3>2
  <2>3. SyslogOutput(s, v).tls = TLSConfig(v)
    BY DEF SyslogOutput
  <2>4. v.port \in 1..MaxPort
    <3>1. v.port \in Int
      BY SpecsAssumption DEF SinkSpec
    <3>2. v.port <= MaxPort /\ v.port >= 1
      BY <2>1, Zenon DEF ValidSyslog
    <3>3. MaxPort \in Int
      BY DEF MaxPort
    <3> QED
      BY <3>1, <3>2, <3>3
  <2>5. SyslogOutput(s, v).addr[2] = v.port
    BY DEF SyslogOutput
  <2>6. Output(s, v) = SyslogOutput(s, v)
    BY <1>1 DEF Output
  <2> QED
    BY <2>2, <2>3, <2>4, <2>5, <2>6 DEF Safe
<1>2. CASE v.type # "syslog"
  <2>1. v.url.prefix = "https://" /\ v.url.ok
    BY <1>2 DEF Sound, ValidWebhook, Renders
  <2>2. v.url.scheme = "https"
    BY <2>1, SpecsAssumption
  <2>3. buildHTTPConfig(s, v).tls # "none"
    BY <2>2 DEF buildHTTPConfig
  <2>4. buildHTTPConfig(s, v).plugin # "syslog"
    BY DEF buildHTTPConfig
  <2> QED
    BY <1>2, <2>3, <2>4 DEF Output, Safe
<1> QED
  BY <1>1, <1>2

\* A Config of allowed specs renders to sealed text.
LEMMA StringSealed ==
  ASSUME NEW cfg \in [Sinks -> Known]
  PROVE  String(cfg) \subseteq Sealed
<1>1. cfg \in [Sinks -> Specs \cup {Absent}]
  BY DEF Known
<1>2. String(cfg) \subseteq Sections
  BY <1>1, StringType
<1>3. CASE Present(cfg) = {}
  <2>1. String(cfg) = nullConfig
    BY <1>3 DEF String
  <2>2. \A o \in nullConfig : o[1] = NoSink
    BY DEF nullConfig
  <2> QED
    BY <1>2, <2>1, <2>2 DEF Sealed, Unsafe
<1>4. CASE Present(cfg) # {}
  <2>1. SUFFICES ASSUME NEW s \in Rendered(cfg)
                 PROVE  ~Unsafe(<<s, Output(s, cfg[s])>>)
    BY <1>2, <1>4 DEF String, Sealed
  <2>2. s \in Sinks /\ cfg[s] \in Specs /\ Sound(cfg[s]) /\ Renders(cfg[s])
    BY DEF Rendered, Present, Known
  <2>3. Safe(Output(s, cfg[s]))
    BY <2>2, SoundSafe
  <2> QED
    BY <2>3 DEF Unsafe
<1> QED
  BY <1>3, <1>4

\* A notification put last carries what the API server stores.
LEMMA EnqueueKnown ==
  ASSUME TypeOK, SpecsKnown, NEW s \in Sinks, NEW n \in Notification, n.new \in Known,
         pending' = [pending EXCEPT ![s.kind] = Append(@, n)]
  PROVE  \A k \in Kinds : \A i \in 1..Len(pending'[k]) : pending'[k][i].new \in Known
<1> SUFFICES ASSUME NEW k \in Kinds, NEW i \in 1..Len(pending'[k])
             PROVE  pending'[k][i].new \in Known
  OBVIOUS
<1>1. s.kind \in Kinds /\ pending[s.kind] \in Seq(Notification)
  BY KindType DEF TypeOK
<1>2. CASE k = s.kind
  <2>1. pending'[k] = Append(pending[k], n)
    BY <1>1, <1>2 DEF TypeOK
  <2>2. i \in 1..Len(pending[k]) \/ i = Len(pending[k]) + 1
    BY <1>1, <1>2, <2>1, AppendNote
  <2> QED
    BY <1>1, <1>2, <2>1, <2>2, AppendNote DEF SpecsKnown
<1>3. CASE k # s.kind
  BY <1>1, <1>3 DEF TypeOK, SpecsKnown
<1> QED
  BY <1>2, <1>3

\* The handler takes the first notification and leaves the others.
LEMMA ReceiveKnown ==
  ASSUME TypeOK, SpecsKnown, NEW k \in Kinds, pending[k] # <<>>,
         pending' = [pending EXCEPT ![k] = Tail(@)]
  PROVE  /\ \A j \in Kinds : \A i \in 1..Len(pending'[j]) : pending'[j][i].new \in Known
         /\ Head(pending[k]).new \in Known
<1>1. pending[k] \in Seq(Notification)
  BY DEF TypeOK
<1>2. /\ Len(pending[k]) \in Nat /\ Len(pending[k]) >= 1
      /\ Head(pending[k]) = pending[k][1]
      /\ Len(Tail(pending[k])) = Len(pending[k]) - 1
      /\ \A m \in 1..Len(Tail(pending[k])) : Tail(pending[k])[m] = pending[k][m + 1]
  BY <1>1, TailNote
<1>3. 1 \in 1..Len(pending[k])
  BY <1>2
<1>4. Head(pending[k]).new \in Known
  BY <1>2, <1>3 DEF SpecsKnown
<1>5. ASSUME NEW j \in Kinds, NEW i \in 1..Len(pending'[j])
      PROVE  pending'[j][i].new \in Known
  <2>1. CASE j = k
    <3>1. pending'[j] = Tail(pending[k])
      BY <2>1 DEF TypeOK
    <3>2. i \in 1..Len(Tail(pending[k]))
      BY <3>1
    <3>3. pending'[j][i] = pending[k][i + 1]
      BY <1>2, <3>1, <3>2
    <3>4. i + 1 \in 1..Len(pending[k])
      BY <1>2, <3>2
    <3> QED
      BY <3>3, <3>4 DEF SpecsKnown
  <2>2. CASE j # k
    BY <2>2 DEF TypeOK, SpecsKnown
  <2> QED
    BY <2>1, <2>2
<1> QED
  BY <1>4, <1>5

\* Only SetSink changes the API server's sinks, and the validator was asked.
LEMMA SpecsStep == TypeOK /\ SpecsKnown /\ [AdmittedNext]_vars => SpecsKnown'
<1> SUFFICES ASSUME TypeOK, SpecsKnown, [AdmittedNext]_vars
             PROVE  SpecsKnown'
  OBVIOUS
<1>1. Absent \in Known /\ EmptyConfig \in [Sinks -> Known]
  BY DEF Known, EmptyConfig
<1>2. ASSUME NEW s \in Sinks, NEW v \in Specs \cup {Absent}, SetSink(s, v), Admission(s, v)
      PROVE  SpecsKnown'
  <2>1. api' = [api EXCEPT ![s] = v] /\ api[s] # v /\ UNCHANGED <<store, pending, config>>
    BY <1>2 DEF SetSink
  <2>2. v \in Known
    <3>1. CASE v = Absent
      BY <3>1, <1>1
    <3>2. CASE v # Absent
      <4>1. validateLogSinkConfigRequest(api[s], v)
        BY <1>2, <3>2 DEF Admission
      <4> QED
        BY <3>2, <4>1 DEF validateLogSinkConfigRequest, Known, Sound
    <3> QED
      BY <3>1, <3>2
  <2> QED
    BY <2>1, <2>2 DEF SpecsKnown
<1>3. ASSUME NEW s \in Sinks, Watch(s) \/ RelistDeleted(s) \/ Resync(s)
      PROVE  SpecsKnown'
  <2>1. PICK n \in Notification : n.new \in Known /\ pending' = [pending EXCEPT ![s.kind] = Append(@, n)]
    <3>1. api[s] \in Known /\ store[s] \in Known
      BY DEF SpecsKnown
    <3>2. \A t \in {"add", "update", "deleted", "unknown"} : Note(t, s) \in Notification /\ Note(t, s).new = api[s]
      BY DEF Note, Notification, TypeOK
    <3>3. ChangeType(s) \in {"add", "update", "deleted", "unknown"}
      BY DEF ChangeType
    <3>4. CASE Watch(s)
      BY <3>1, <3>2, <3>3, <3>4 DEF Watch
    <3>5. CASE RelistDeleted(s)
      BY <3>1, <3>2, <3>5 DEF RelistDeleted
    <3>6. CASE Resync(s)
      <4> DEFINE n == [type |-> "update", sink |-> s, old |-> store[s], new |-> store[s]]
      <4>1. n \in Notification /\ n.new = store[s]
        BY DEF Notification, TypeOK
      <4>2. pending' = [pending EXCEPT ![s.kind] = Append(@, n)]
        BY <3>6 DEF Resync
      <4> HIDE DEF n
      <4> QED
        BY <3>1, <4>1, <4>2
    <3> QED
      BY <1>3, <3>4, <3>5, <3>6
  <2>2. \A k \in Kinds : \A i \in 1..Len(pending'[k]) : pending'[k][i].new \in Known
    BY <2>1, EnqueueKnown
  <2>3. UNCHANGED <<api, config>>
    BY <1>3 DEF Watch, RelistDeleted, Resync
  <2>4. store' \in [Sinks -> Known]
    BY <1>1, <1>3 DEF Watch, RelistDeleted, Resync, SpecsKnown
  <2> QED
    BY <2>2, <2>3, <2>4 DEF SpecsKnown
<1>4. ASSUME NEW k \in Kinds, OnAdd(k) \/ OnUpdate(k) \/ OnDelete(k)
      PROVE  SpecsKnown'
  <2>1. /\ pending[k] # <<>> /\ pending' = [pending EXCEPT ![k] = Tail(@)]
        /\ UNCHANGED <<api, store>>
    BY <1>4 DEF OnAdd, OnUpdate, OnDelete, Receive
  <2>2. /\ \A j \in Kinds : \A i \in 1..Len(pending'[j]) : pending'[j][i].new \in Known
        /\ Head(pending[k]).new \in Known
    BY <2>1, ReceiveKnown
  <2>3. Head(pending[k]).sink \in Sinks
    BY <2>1, ReceiveType
  <2>4. config' \in [Sinks -> Known]
    BY <1>1, <1>4, <2>2, <2>3 DEF OnAdd, OnUpdate, OnDelete, Upsert, Delete, SpecsKnown
  <2> QED
    BY <2>1, <2>2, <2>4 DEF SpecsKnown
<1>5. ASSUME Crash PROVE SpecsKnown'
  <2>1. api' = api /\ store' = EmptyConfig /\ config' = EmptyConfig
        /\ pending' = [k \in Kinds |-> <<>>]
    BY <1>5 DEF Crash
  <2>2. \A k \in Kinds : pending'[k] = <<>> /\ Len(pending'[k]) = 0
    BY <2>1
  <2> QED
    BY <1>1, <2>1, <2>2 DEF SpecsKnown
<1>6. CASE UNCHANGED <<api, store, pending, config>>
  BY <1>6 DEF SpecsKnown
<1> QED
  BY <1>2, <1>3, <1>4, <1>5, <1>6
     DEF AdmittedNext, System, vars, Render, Patch, PatchFails, RestartPods, RestartFails,
         SetClusterNameFilter, StartPod, LosePod

\* Text is rendered from the Config, sent to the ConfigMap, and loaded.
LEMMA TextStep == TypeOK /\ SpecsKnown /\ TextSealed /\ [Next]_vars => TextSealed'
<1> SUFFICES ASSUME TypeOK, SpecsKnown, TextSealed, [Next]_vars
             PROVE  TextSealed'
  OBVIOUS
<1>1. ASSUME NEW k \in Kinds, Render(k) PROVE TextSealed'
  <2>1. String(config) \subseteq Sealed
    BY StringSealed DEF SpecsKnown
  <2>2. value' = [value EXCEPT ![k] = String(config)] /\ UNCHANGED <<cm, pods>>
    BY <1>1 DEF Render
  <2> QED
    BY <2>1, <2>2 DEF TextSealed, TypeOK
<1>2. ASSUME NEW p \in Procs, Patch(p) \/ PatchFails(p) PROVE TextSealed'
  <2>1. value' = Sent(p) /\ UNCHANGED pods /\ (cm' = Applied(p) \/ cm' = cm)
    BY <1>2 DEF Patch, PatchFails
  <2>2. p # "main" => p \in Kinds
    BY DEF Procs
  <2>3. \A k \in Kinds : value'[k] \subseteq Sealed
    BY <2>1, <2>2 DEF Sent, TextSealed, TypeOK
  <2>4. cm'.outputs \subseteq Sealed
    BY <2>1, <2>2 DEF Applied, TextSealed
  <2> QED
    BY <2>1, <2>3, <2>4 DEF TextSealed
<1>3. ASSUME NEW p \in Procs, RestartPods(p) \/ RestartFails(p) PROVE TextSealed'
  <2>1. \A q \in Pods : pods'[q] = Down \/ pods'[q] = pods[q]
    BY <1>3 DEF RestartPods, RestartFails
  <2>2. UNCHANGED <<value, cm>>
    BY <1>3 DEF RestartPods, RestartFails
  <2> QED
    BY <2>1, <2>2 DEF TextSealed
<1>4. ASSUME NEW p \in Pods, StartPod(p) \/ LosePod(p) PROVE TextSealed'
  <2>1. \A q \in Pods : pods'[q] \in {Down, cm, pods[q]}
    BY <1>4 DEF StartPod, LosePod, TypeOK
  <2>2. UNCHANGED <<value, cm>>
    BY <1>4 DEF StartPod, LosePod
  <2> QED
    BY <2>1, <2>2 DEF TextSealed
<1>5. ASSUME Crash PROVE TextSealed'
  BY <1>5 DEF Crash, TextSealed
<1>6. CASE UNCHANGED <<value, cm, pods>>
  BY <1>6 DEF TextSealed
<1> QED
  BY <1>1, <1>2, <1>3, <1>4, <1>5, <1>6
     DEF Next, System, vars, SetSink, Watch, RelistDeleted, Resync, OnAdd, OnUpdate, OnDelete,
         Receive, SetClusterNameFilter

\* Nothing is kept at first but the null output.
LEMMA ClearInit == Init => ClearInv
<1> SUFFICES ASSUME Init PROVE ClearInv
  OBVIOUS
<1>1. Absent \in Known /\ EmptyConfig \in [Sinks -> Known]
  BY DEF Known, EmptyConfig
<1>2. \A k \in Kinds : pending[k] = <<>> /\ Len(pending[k]) = 0
  BY DEF Init
<1>3. initialOutputs \subseteq Sealed
  <2>1. \A o \in initialOutputs : o[1] = NoSink
    BY DEF initialOutputs
  <2>2. initialOutputs \subseteq Sections
    BY DEF Sections
  <2>3. \A o \in initialOutputs : ~Unsafe(o)
    BY <2>1 DEF Unsafe
  <2> QED
    BY <2>2, <2>3, Zenon DEF Sealed
<1>4. SpecsKnown
  <2>1. api = EmptyConfig /\ store = EmptyConfig /\ config = EmptyConfig
    BY DEF Init
  <2>2. \A k \in Kinds : \A i \in 1..Len(pending[k]) : pending[k][i].new \in Known
    BY <1>2
  <2> QED
    BY <1>1, <2>1, <2>2 DEF SpecsKnown
<1>5. TextSealed
  BY <1>3 DEF Init, TextSealed
<1> QED
  BY <1>4, <1>5 DEF ClearInv

\* Every section a fluent-bit pod has loaded is the null output or goes over
\* TLS and to a port in range, in every reachable state of the controller behind the validator.
THEOREM AlwaysSentSafely == AdmittedSpec => []SentSafely
<1>1. TypeOK /\ ClearInv /\ [AdmittedNext]_vars => TypeOK' /\ ClearInv'
  <2>1. [AdmittedNext]_vars => [Next]_vars
    BY DEF AdmittedNext, Next
  <2> QED
    BY <2>1, TypeStep, SpecsStep, TextStep DEF ClearInv
<1>2. ClearInv => SentSafely
  BY DEF ClearInv, TextSealed, SentSafely, Sealed, Unsafe
<1> QED
  BY <1>1, <1>2, TypeInit, ClearInit, PTL DEF AdmittedSpec

=============================================================================
