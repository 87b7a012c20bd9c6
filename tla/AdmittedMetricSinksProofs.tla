--------------------- MODULE AdmittedMetricSinksProofs ---------------------
(***************************************************************************)
(* Theorems about the ClusterMetricSink controller, alone and behind the   *)
(* validator, for every set of sinks, specs and pods, every bound and      *)
(* every set of faults.                                                    *)
(***************************************************************************)
EXTENDS AdmittedMetricSinks, TLAPS

(***************************************************************************)
(* The text of a file.                                                     *)
(***************************************************************************)

\* The sections made of the entries of a spec are sections of a sink.
LEMMA AppendType ==
  ASSUME NEW n \in Names, NEW E \in SUBSET Entry
  PROVE  appendInputsAndOutputs(n, E) \in SUBSET Sections
  BY DEF appendInputsAndOutputs, Entry, Sections, Plugins

\* What the encoder writes has both inputs and outputs, or nothing.
LEMMA TextType ==
  ASSUME NEW tags \in SUBSET {ClusterName}, NEW ins \in SUBSET Sections,
         NEW outs \in SUBSET Sections
  PROVE  telegrafConfig(tags, ins, outs) \in Texts
<1>1. /\ <<Default, "cpu", Default>> \in Sections
      /\ <<Default, "discard", Default>> \in Sections
  BY DEF Sections, Plugins
<1>2. emptyConfig \in Texts
  BY <1>1 DEF emptyConfig, Texts
<1>3. noText \in Texts
  BY DEF noText, Texts
<1> QED
  BY <1>2, <1>3 DEF telegrafConfig, Texts

\* The file of any Config is a text.
LEMMA StringType ==
  ASSUME NEW cfg \in [Names -> Maybe(Specs)]
  PROVE  String(cfg) \in Texts
<1>1. ASSUME NEW n \in Present(cfg)
      PROVE  /\ appendInputsAndOutputs(n, cfg[n].inputs) \in SUBSET Sections
             /\ appendInputsAndOutputs(n, cfg[n].outputs) \in SUBSET Sections
  <2>1. n \in Names /\ cfg[n] \in MetricSinkSpec
    BY ClusterMetricAssumption DEF Present, Maybe
  <2> QED
    BY <2>1, AppendType DEF MetricSinkSpec
<1>2. defaultInputs \in SUBSET Sections
  BY DEF defaultInputs, Sections, Plugins
<1>3. GlobalTags \in SUBSET {ClusterName}
  BY DEF GlobalTags
<1> DEFINE ins == defaultInputs \cup UNION {appendInputsAndOutputs(n, cfg[n].inputs) : n \in Present(cfg)}
           outs == UNION {appendInputsAndOutputs(n, cfg[n].outputs) : n \in Present(cfg)}
<1>4. ins \in SUBSET Sections /\ outs \in SUBSET Sections
  BY <1>1, <1>2
<1>5. String(cfg) = telegrafConfig(GlobalTags, ins, outs)
  BY DEF String
<1> HIDE DEF ins, outs
<1> QED
  BY <1>3, <1>4, <1>5, TextType

-----------------------------------------------------------------------------
(***************************************************************************)
(* Type correctness.                                                       *)
(***************************************************************************)

\* A queued notification is put last.
LEMMA AppendNote ==
  ASSUME NEW T, NEW q \in Seq(T), NEW m \in T
  PROVE  /\ Append(q, m) \in Seq(T)
         /\ Len(q) \in Nat /\ Len(Append(q, m)) = Len(q) + 1
         /\ Append(q, m)[Len(q) + 1] = m
         /\ \A i \in 1..Len(q) : Append(q, m)[i] = q[i]
  OBVIOUS

\* The handler takes the first notification and leaves the rest in order.
LEMMA TailNote ==
  ASSUME NEW T, NEW q \in Seq(T), q # <<>>
  PROVE  /\ Tail(q) \in Seq(T)
         /\ Len(q) \in Nat /\ Len(q) >= 1
         /\ Len(Tail(q)) = Len(q) - 1
         /\ Head(q) = q[1] /\ Head(q) \in T
         /\ \A i \in 1..Len(Tail(q)) : Tail(q)[i] = q[i + 1]
  OBVIOUS

\* Whatever the informer queues about a sink, the types are kept.
LEMMA EnqueueType ==
  ASSUME TypeOK, NEW type \in {"add", "update", "deleted", "unknown"}, NEW n \in Names,
         NEW new \in Maybe(Specs), NEW same \in BOOLEAN,
         Enqueue(type, n, new, same), faults' \in SUBSET FaultKinds
  PROVE  TypeOK'
<1> DEFINE m == [type |-> type, name |-> n, new |-> new, same |-> same]
<1>1. m \in Notification
  BY DEF Notification
<1>2. pending' = Append(pending, m) /\ store' = [store EXCEPT ![n] = new]
  BY DEF Enqueue
<1> HIDE DEF m
<1>3. pending' \in Seq(Notification)
  BY <1>1, <1>2, AppendNote DEF TypeOK
<1> QED
  BY <1>2, <1>3 DEF TypeOK, Enqueue

\* The first notification has its type, and so have the others.
LEMMA ReceiveType ==
  ASSUME TypeOK, pending # <<>>
  PROVE  /\ Tail(pending) \in Seq(Notification)
         /\ Head(pending) \in Notification
         /\ Head(pending).name \in Names
         /\ Head(pending).new \in Maybe(Specs)
         /\ Head(pending).same \in BOOLEAN
<1>1. pending \in Seq(Notification)
  BY DEF TypeOK
<1>2. Head(pending) \in Notification /\ Tail(pending) \in Seq(Notification)
  BY <1>1, TailNote
<1> QED
  BY <1>2 DEF Notification

\* The kinds of fault recorded are kinds of fault.
LEMMA FaultType ==
  ASSUME TypeOK, NEW f, Fault(f)
  PROVE  faults' \in SUBSET FaultKinds /\ faults' = faults \cup {f} /\ f \in AllowedFaults
  BY ClusterMetricAssumption DEF TypeOK, Fault

\* Every step keeps TypeOK.
LEMMA TypeStep == TypeOK /\ [Next]_vars => TypeOK'
<1> SUFFICES ASSUME TypeOK, [Next]_vars PROVE TypeOK'
  OBVIOUS
<1>1. ASSUME NEW n \in Names, NEW v \in Maybe(Specs), SetSink(n, v) PROVE TypeOK'
  BY <1>1 DEF TypeOK, SetSink
<1>2. ASSUME NEW n \in Names, Watch(n) PROVE TypeOK'
  <2>1. api[n] \in Maybe(Specs) /\ faults' \in SUBSET FaultKinds
    BY <1>2 DEF TypeOK, Watch
  <2> QED
    BY <1>2, <2>1, EnqueueType DEF Watch
<1>3. ASSUME NEW n \in Names, RelistDeleted(n) PROVE TypeOK'
  BY <1>3, EnqueueType, FaultType DEF RelistDeleted, Maybe
<1>4. ASSUME NEW n \in Names, Resync(n) \/ Touch(n) PROVE TypeOK'
  <2>1. store[n] \in Maybe(Specs) /\ faults' \in SUBSET FaultKinds
    BY <1>4 DEF TypeOK, Resync, Touch
  <2> QED
    BY <1>4, <2>1, EnqueueType DEF Resync, Touch
<1>5. ASSUME Handle PROVE TypeOK'
  <2>1. pending # <<>> /\ pending' = Tail(pending)
    BY <1>5 DEF Handle, OnAdd, OnUpdate, OnDelete, Receive
  <2>2. /\ config' \in [Names -> Maybe(Specs)]
        /\ pc' \in {"idle", "patch", "restart"}
    BY <1>5, <2>1, ReceiveType
       DEF Handle, OnAdd, OnUpdate, OnDelete, UpsertSink, DeleteSink, TypeOK, Maybe
  <2>3. UNCHANGED <<api, store, cm, pods, tried, faults>>
    BY <1>5 DEF Handle, OnAdd, OnUpdate, OnDelete, Receive
  <2> QED
    BY <2>1, <2>2, <2>3, ReceiveType DEF TypeOK
<1>6. ASSUME Patch PROVE TypeOK'
  <2>1. cm' \in Texts
    BY <1>6, StringType DEF Patch, TypeOK
  <2> QED
    BY <1>6, <2>1 DEF Patch, TypeOK
<1>7. ASSUME PatchFails PROVE TypeOK'
  BY <1>7, FaultType DEF PatchFails, TypeOK
<1>8. ASSUME RestartPods PROVE TypeOK'
  BY <1>8 DEF RestartPods, TypeOK
<1>9. ASSUME RestartFails PROVE TypeOK'
  <2>1. pods' \in [Pods -> Texts \cup {Down}]
    BY <1>9 DEF RestartFails, TypeOK
  <2> QED
    BY <1>9, <2>1, FaultType DEF RestartFails, TypeOK
<1>10. ASSUME Crash PROVE TypeOK'
  BY <1>10, FaultType DEF Crash, TypeOK, NoSinks, Maybe
<1>11. ASSUME NEW p \in Pods, StartPod(p) \/ LosePod(p) PROVE TypeOK'
  BY <1>11 DEF StartPod, LosePod, TypeOK
<1>12. CASE UNCHANGED vars
  BY <1>12 DEF vars, TypeOK
<1> QED
  BY <1>1, <1>2, <1>3, <1>4, <1>5, <1>6, <1>7, <1>8, <1>9, <1>10, <1>11, <1>12 DEF Next

\* The initial state has its type.
LEMMA TypeInit == Init => TypeOK
<1> SUFFICES ASSUME Init PROVE TypeOK
  OBVIOUS
<1>1. emptyConfig \in Texts
  <2>1. emptyConfig = telegrafConfig({}, {}, {})
    BY DEF telegrafConfig
  <2> QED
    BY <2>1, TextType
<1>2. pending \in Seq(Notification)
  BY DEF Init
<1> QED
  BY <1>1, <1>2 DEF Init, TypeOK, NoSinks, Maybe

\* The variables always hold values of their types; what a telegraf pod is
\* given has both inputs and outputs, or nothing at all.
THEOREM TypeCorrect == Spec => []TypeOK
  BY TypeInit, TypeStep, PTL DEF Spec

-----------------------------------------------------------------------------
(***************************************************************************)
(* The pods and the ConfigMap.                                             *)
(***************************************************************************)

\* Every step keeps PodsFollowConfigMap: it needs no strengthening, because
\* Patch leaves the handler at "restart" until the pods are deleted.
LEMMA PodsStep == TypeOK /\ PodsFollowConfigMap /\ [Next]_vars => PodsFollowConfigMap'
<1> SUFFICES ASSUME TypeOK, PodsFollowConfigMap, [Next]_vars PROVE PodsFollowConfigMap'
  OBVIOUS
<1> USE DEF PodsFollowConfigMap, Never
<1>1. ASSUME NEW n \in Names, NEW v \in Maybe(Specs), SetSink(n, v) PROVE PodsFollowConfigMap'
  BY <1>1 DEF SetSink
<1>2. ASSUME NEW n \in Names, Watch(n) \/ RelistDeleted(n) \/ Resync(n) \/ Touch(n)
      PROVE  PodsFollowConfigMap'
  BY <1>2 DEF Watch, RelistDeleted, Resync, Touch, Enqueue, Fault
<1>3. ASSUME Handle PROVE PodsFollowConfigMap'
  BY <1>3 DEF Handle, OnAdd, OnUpdate, OnDelete, Receive
<1>4. ASSUME Patch \/ PatchFails PROVE PodsFollowConfigMap'
  BY <1>4 DEF Patch, PatchFails, Fault
<1>5. ASSUME RestartPods PROVE PodsFollowConfigMap'
  BY <1>5 DEF RestartPods
<1>6. ASSUME RestartFails \/ Crash PROVE PodsFollowConfigMap'
  BY <1>6 DEF RestartFails, Crash, Fault
<1>7. ASSUME NEW p \in Pods, StartPod(p) \/ LosePod(p) PROVE PodsFollowConfigMap'
  BY <1>7 DEF StartPod, LosePod, TypeOK
<1>8. CASE UNCHANGED vars
  BY <1>8 DEF vars
<1> QED
  BY <1>1, <1>2, <1>3, <1>4, <1>5, <1>6, <1>7, <1>8 DEF Next

\* A telegraf pod left with an old file is always about to be deleted, unless
\* a DeleteCollection has failed or the process has died.
THEOREM PodsFollow == Spec => []PodsFollowConfigMap
<1>1. Init => PodsFollowConfigMap
  BY DEF Init, PodsFollowConfigMap
<1> QED
  BY <1>1, PodsStep, TypeCorrect, PTL DEF Spec

-----------------------------------------------------------------------------
(***************************************************************************)
(* What is published.                                                      *)
(*                                                                         *)
(* Published speaks of quiet states.  The inductive invariant says what    *)
(* the pending notifications mean: applied one after the other they lead   *)
(* from the Config to the indexer, and one that OnUpdate drops as a resync *)
(* changes nothing; and what the ConfigMap holds when no patch is due.     *)
(***************************************************************************)
Replays(q, c, v) ==
  \E f \in [0..Len(q) -> [Names -> Maybe(Specs)]] :
    /\ f[0] = c /\ f[Len(q)] = v
    /\ \A i \in 1..Len(q) :
         /\ f[i] = [f[i - 1] EXCEPT ![q[i].name] = q[i].new]
         /\ q[i].same => f[i] = f[i - 1]

NoteOK(m) == m.type # "unknown" /\ (m.type = "deleted" => m.new = Absent)

QueueInv ==
  Never({"missed"}) =>
    /\ Replays(pending, config, store)
    /\ \A i \in 1..Len(pending) : NoteOK(pending[i])

PublishInv ==
  /\ tried = "applied" /\ pc # "patch" => cm = String(config)
  /\ tried = "not" /\ pc # "patch" => config = NoSinks
  /\ tried = "not" /\ Never({"crash"}) => cm = emptyConfig

\* With nothing pending and nothing known there is nothing to replay.
LEMMA ReplayNothing ==
  /\ Replays(<<>>, NoSinks, NoSinks)
  /\ \A i \in 1..Len(<<>>) : NoteOK(<<>>[i])
<1>1. NoSinks \in [Names -> Maybe(Specs)]
  BY DEF NoSinks, Maybe
<1> DEFINE f == [i \in 0..0 |-> NoSinks]
<1>2. f \in [0..0 -> [Names -> Maybe(Specs)]] /\ f[0] = NoSinks
  BY <1>1
<1>3. Len(<<>>) = 0 /\ 1..0 = {}
  OBVIOUS
<1> HIDE DEF f
<1>4. Replays(<<>>, NoSinks, NoSinks)
  BY <1>2, <1>3 DEF Replays
<1> QED
  BY <1>3, <1>4

\* A notification that leads to the indexer's new value is replayed last.
LEMMA ReplayAppend ==
  ASSUME NEW q \in Seq(Notification), NEW m \in Notification,
         NEW c, NEW v \in [Names -> Maybe(Specs)], Replays(q, c, v),
         m.same => m.new = v[m.name]
  PROVE  Replays(Append(q, m), c, [v EXCEPT ![m.name] = m.new])
<1> DEFINE r == Append(q, m)
           w == [v EXCEPT ![m.name] = m.new]
<1>1. /\ Len(q) \in Nat /\ Len(r) = Len(q) + 1 /\ r[Len(q) + 1] = m
      /\ \A i \in 1..Len(q) : r[i] = q[i]
  BY AppendNote
<1>2. m.name \in Names /\ m.new \in Maybe(Specs) /\ w \in [Names -> Maybe(Specs)]
  BY DEF Notification
<1>3. PICK f \in [0..Len(q) -> [Names -> Maybe(Specs)]] :
        /\ f[0] = c /\ f[Len(q)] = v
        /\ \A i \in 1..Len(q) :
             /\ f[i] = [f[i - 1] EXCEPT ![q[i].name] = q[i].new]
             /\ q[i].same => f[i] = f[i - 1]
  BY DEF Replays
<1>4. m.same => w = v
  BY <1>2
<1> HIDE DEF r, w
<1> DEFINE g == [i \in 0..Len(r) |-> IF i = Len(r) THEN w ELSE f[i]]
<1>5. g \in [0..Len(r) -> [Names -> Maybe(Specs)]]
  BY <1>1, <1>2
<1>6. g[0] = c /\ g[Len(r)] = w /\ \A i \in 0..Len(q) : g[i] = f[i]
  BY <1>1, <1>3
<1>7. ASSUME NEW i \in 1..Len(r)
      PROVE  g[i] = [g[i - 1] EXCEPT ![r[i].name] = r[i].new] /\ (r[i].same => g[i] = g[i - 1])
  <2>1. CASE i \in 1..Len(q)
    <3>1. i \in 0..Len(q) /\ i - 1 \in 0..Len(q) /\ r[i] = q[i]
      BY <1>1, <2>1
    <3>2. g[i] = f[i] /\ g[i - 1] = f[i - 1]
      BY <1>6, <3>1
    <3> HIDE DEF g
    <3> QED
      BY <1>3, <2>1, <3>1, <3>2
  <2>2. CASE i = Len(q) + 1
    <3>1. i = Len(r) /\ i - 1 = Len(q) /\ r[i] = m /\ Len(q) \in 0..Len(q)
      BY <1>1, <2>2
    <3>2. g[i] = w /\ g[i - 1] = v
      BY <1>3, <1>6, <3>1
    <3> HIDE DEF g
    <3> QED
      BY <1>4, <3>1, <3>2 DEF w
  <2> QED
    BY <1>1, <2>1, <2>2
<1> HIDE DEF g
<1>8. Replays(r, c, w)
  BY <1>5, <1>6, <1>7 DEF Replays
<1> QED
  BY <1>8 DEF r, w

\* Applying the first notification leaves the others to be replayed.
LEMMA ReplayTail ==
  ASSUME NEW q \in Seq(Notification), q # <<>>, NEW c, NEW v, Replays(q, c, v)
  PROVE  /\ Replays(Tail(q), [c EXCEPT ![Head(q).name] = Head(q).new], v)
         /\ Head(q).same => [c EXCEPT ![Head(q).name] = Head(q).new] = c
<1> DEFINE r == Tail(q)
           m == Head(q)
<1>1. /\ Len(q) \in Nat /\ Len(q) >= 1 /\ Len(r) = Len(q) - 1 /\ m = q[1]
      /\ \A i \in 1..Len(r) : r[i] = q[i + 1]
  BY TailNote
<1> HIDE DEF r, m
<1>2. PICK f \in [0..Len(q) -> [Names -> Maybe(Specs)]] :
        /\ f[0] = c /\ f[Len(q)] = v
        /\ \A i \in 1..Len(q) :
             /\ f[i] = [f[i - 1] EXCEPT ![q[i].name] = q[i].new]
             /\ q[i].same => f[i] = f[i - 1]
  BY DEF Replays
<1>3. f[1] = [c EXCEPT ![m.name] = m.new] /\ (m.same => f[1] = c)
  <2>1. 1 \in 1..Len(q) /\ 1 - 1 = 0
    BY <1>1
  <2> QED
    BY <1>1, <1>2, <2>1
<1> DEFINE g == [i \in 0..Len(r) |-> f[i + 1]]
<1>4. \A i \in 0..Len(r) : i + 1 \in 0..Len(q) /\ g[i] = f[i + 1]
  BY <1>1
<1>5. g \in [0..Len(r) -> [Names -> Maybe(Specs)]]
  BY <1>4
<1>6. g[0] = f[1] /\ g[Len(r)] = v
  <2>1. 0 \in 0..Len(r) /\ Len(r) \in 0..Len(r) /\ 0 + 1 = 1 /\ Len(r) + 1 = Len(q)
    BY <1>1
  <2> QED
    BY <1>2, <1>4, <2>1
<1> HIDE DEF g
<1>7. ASSUME NEW i \in 1..Len(r)
      PROVE  g[i] = [g[i - 1] EXCEPT ![r[i].name] = r[i].new] /\ (r[i].same => g[i] = g[i - 1])
  <2>1. /\ i \in 0..Len(r) /\ i - 1 \in 0..Len(r) /\ i + 1 \in 1..Len(q)
        /\ r[i] = q[i + 1] /\ (i - 1) + 1 = i /\ (i + 1) - 1 = i
    BY <1>1
  <2>2. g[i] = f[i + 1] /\ g[i - 1] = f[i]
    BY <1>4, <2>1
  <2>3. /\ f[i + 1] = [f[(i + 1) - 1] EXCEPT ![q[i + 1].name] = q[i + 1].new]
        /\ q[i + 1].same => f[i + 1] = f[(i + 1) - 1]
    BY <1>2, <2>1
  <2> QED
    BY <2>1, <2>2, <2>3
<1>8. Replays(r, f[1], v)
  BY <1>5, <1>6, <1>7 DEF Replays
<1> QED
  BY <1>3, <1>8 DEF r, m

\* An informer's notification leads to the value the indexer gets.
LEMMA EnqueueKeepsQueue ==
  ASSUME TypeOK, QueueInv, NEW type \in {"add", "update", "deleted", "unknown"}, NEW n \in Names,
         NEW new \in Maybe(Specs), NEW same \in BOOLEAN,
         Enqueue(type, n, new, same), faults \subseteq faults',
         same => new = store[n], type = "deleted" => new = Absent,
         type = "unknown" => "missed" \in faults'
  PROVE  QueueInv'
<1> DEFINE m == [type |-> type, name |-> n, new |-> new, same |-> same]
<1>1. /\ m \in Notification /\ m.type = type /\ m.name = n /\ m.new = new /\ m.same = same
  BY DEF Notification
<1>2. pending' = Append(pending, m) /\ store' = [store EXCEPT ![n] = new] /\ config' = config
  BY DEF Enqueue
<1> HIDE DEF m
<1>3. SUFFICES ASSUME Never({"missed"})'
               PROVE  Replays(pending', config', store') /\ \A i \in 1..Len(pending') : NoteOK(pending'[i])
  BY DEF QueueInv
<1>4. Never({"missed"}) /\ type # "unknown"
  BY <1>3 DEF Never
<1>5. Replays(pending', config', store')
  <2>1. store \in [Names -> Maybe(Specs)] /\ pending \in Seq(Notification)
    BY DEF TypeOK
  <2>2. Replays(pending, config, store)
    BY <1>4 DEF QueueInv
  <2>3. Replays(Append(pending, m), config, [store EXCEPT ![m.name] = m.new])
    BY <1>1, <2>1, <2>2, ReplayAppend
  <2> QED
    BY <1>1, <1>2, <2>3
<1>6. \A i \in 1..Len(pending') : NoteOK(pending'[i])
  <2>1. pending \in Seq(Notification)
    BY DEF TypeOK
  <2>2. /\ Len(pending) \in Nat /\ Len(pending') = Len(pending) + 1
        /\ pending'[Len(pending) + 1] = m
        /\ \A i \in 1..Len(pending) : pending'[i] = pending[i]
    BY <1>1, <1>2, <2>1, AppendNote
  <2>3. NoteOK(m)
    BY <1>1, <1>4 DEF NoteOK
  <2>4. \A i \in 1..Len(pending) : NoteOK(pending[i])
    BY <1>4 DEF QueueInv
  <2>5. \A i \in 1..Len(pending') : i \in 1..Len(pending) \/ i = Len(pending) + 1
    BY <2>2
  <2> QED
    BY <2>2, <2>3, <2>4, <2>5
<1> QED
  BY <1>5, <1>6

\* Every step of the informer and the handler keeps the queue's meaning.
LEMMA QueueStep == TypeOK /\ QueueInv /\ [Next]_vars => QueueInv'
<1> SUFFICES ASSUME TypeOK, QueueInv, [Next]_vars PROVE QueueInv'
  OBVIOUS
<1>1. ASSUME UNCHANGED <<store, pending, config>>, faults \subseteq faults' PROVE QueueInv'
  BY <1>1 DEF QueueInv, Never
<1>2. ASSUME NEW n \in Names, Watch(n) PROVE QueueInv'
  <2>1. api[n] \in Maybe(Specs) /\ faults \subseteq faults'
    BY <1>2 DEF TypeOK, Watch
  <2> QED
    BY <1>2, <2>1, EnqueueKeepsQueue DEF Watch
<1>3. ASSUME NEW n \in Names, RelistDeleted(n) PROVE QueueInv'
  <2>1. Absent \in Maybe(Specs) /\ faults \subseteq faults' /\ "missed" \in faults'
    BY <1>3 DEF Maybe, RelistDeleted, Fault
  <2> QED
    BY <1>3, <2>1, EnqueueKeepsQueue DEF RelistDeleted
<1>4. ASSUME NEW n \in Names, Resync(n) \/ Touch(n) PROVE QueueInv'
  <2>1. store[n] \in Maybe(Specs) /\ faults \subseteq faults'
    BY <1>4 DEF TypeOK, Resync, Touch
  <2> QED
    BY <1>4, <2>1, EnqueueKeepsQueue DEF Resync, Touch
<1>5. ASSUME Handle PROVE QueueInv'
  <2>1. pending # <<>> /\ pending' = Tail(pending) /\ UNCHANGED <<store, faults>>
    BY <1>5 DEF Handle, OnAdd, OnUpdate, OnDelete, Receive
  <2>2. SUFFICES ASSUME Never({"missed"})
                 PROVE  Replays(pending', config', store') /\ \A i \in 1..Len(pending') : NoteOK(pending'[i])
    BY <2>1 DEF QueueInv, Never
  <2>3. pending \in Seq(Notification) /\ Replays(pending, config, store)
        /\ \A i \in 1..Len(pending) : NoteOK(pending[i])
    BY <2>2 DEF QueueInv, TypeOK
  <2>4. /\ Len(pending) \in Nat /\ Len(pending) >= 1 /\ Len(Tail(pending)) = Len(pending) - 1
        /\ Head(pending) = pending[1]
        /\ \A i \in 1..Len(Tail(pending)) : Tail(pending)[i] = pending[i + 1]
    BY <2>1, <2>3, TailNote
  <2>5. NoteOK(Head(pending))
    BY <2>3, <2>4
  <2>6. config' = [config EXCEPT ![Head(pending).name] = Head(pending).new]
    <3>1. Head(pending).same => [config EXCEPT ![Head(pending).name] = Head(pending).new] = config
      BY <2>1, <2>3, ReplayTail
    <3> QED
      BY <1>5, <2>5, <3>1 DEF Handle, OnAdd, OnUpdate, OnDelete, Receive, UpsertSink, DeleteSink, NoteOK
  <2>7. Replays(pending', config', store')
    BY <2>1, <2>3, <2>6, ReplayTail
  <2>8. ASSUME NEW i \in 1..Len(pending') PROVE NoteOK(pending'[i])
    <3>1. i + 1 \in 1..Len(pending) /\ pending'[i] = pending[i + 1]
      BY <2>1, <2>4
    <3> QED
      BY <2>3, <3>1
  <2> QED
    BY <2>7, <2>8
<1>6. ASSUME Crash PROVE QueueInv'
  BY <1>6, ReplayNothing DEF Crash, QueueInv
<1> QED
  BY <1>1, <1>2, <1>3, <1>4, <1>5, <1>6
     DEF Next, vars, SetSink, Patch, PatchFails, RestartPods, RestartFails, StartPod, LosePod, Fault


\* Without sinks the file is the one that was deployed.
LEMMA StringNothing == String(NoSinks) = emptyConfig /\ Present(NoSinks) = {}
<1>1. Present(NoSinks) = {}
  BY DEF Present, NoSinks
<1> QED
  BY <1>1 DEF String, telegrafConfig

\* Every step of the handler keeps what is known of the last patch.
LEMMA PublishStep == TypeOK /\ PublishInv /\ [Next]_vars => PublishInv'
<1> SUFFICES ASSUME TypeOK, PublishInv, [Next]_vars PROVE PublishInv'
  OBVIOUS
<1>1. ASSUME UNCHANGED <<tried, cm, config, pc>>, faults \subseteq faults' PROVE PublishInv'
  BY <1>1 DEF PublishInv, Never
<1>2. ASSUME Handle PROVE PublishInv'
  BY <1>2 DEF Handle, OnAdd, OnUpdate, OnDelete, Receive, PublishInv, Never
<1>3. ASSUME Patch PROVE PublishInv'
  BY <1>3 DEF Patch, PublishInv
<1>4. ASSUME PatchFails PROVE PublishInv'
  BY <1>4 DEF PatchFails, PublishInv
<1>5. ASSUME RestartPods \/ RestartFails PROVE PublishInv'
  BY <1>5 DEF RestartPods, RestartFails, Fault, PublishInv, Never
<1>6. ASSUME Crash PROVE PublishInv'
  BY <1>6 DEF Crash, Fault, PublishInv, Never
<1> QED
  BY <1>1, <1>2, <1>3, <1>4, <1>5, <1>6
     DEF Next, vars, SetSink, Watch, RelistDeleted, Resync, Touch, Enqueue, StartPod, LosePod, Fault

\* When all is quiet the ConfigMap holds the sections of exactly the stored
\* sinks, for queues of any length and whatever was refused or died before,
\* but for the three exceptions that Published names.
THEOREM AllPublished == Spec => []Published
<1>1. Init => QueueInv /\ PublishInv
  BY ReplayNothing DEF Init, QueueInv, PublishInv
<1>2. TypeOK /\ QueueInv /\ PublishInv => Published
  <2> SUFFICES ASSUME TypeOK, QueueInv, PublishInv, Quiet, Never({"missed"}),
                      tried # "refused"
               PROVE  cm = String(api) \/ (tried = "not" /\ Present(api) = {} /\ ~Never({"crash"}))
    BY DEF Published
  <2>1. config = api
    <3>1. Replays(<<>>, config, store) /\ store = api /\ Len(<<>>) = 0
      BY DEF QueueInv, Quiet
    <3> QED
      BY <3>1 DEF Replays
  <2>2. CASE tried = "applied"
    BY <2>1, <2>2 DEF PublishInv, Quiet
  <2>3. CASE tried = "not"
    BY <2>1, <2>3, StringNothing DEF PublishInv, Quiet
  <2> QED
    BY <2>2, <2>3 DEF TypeOK
<1> QED
  BY <1>1, <1>2, QueueStep, PublishStep, TypeCorrect, PTL DEF Spec

-----------------------------------------------------------------------------
(***************************************************************************)
(* The controller implements ConfigPublisher.                              *)
(***************************************************************************)

\* Every step of the controller is a step of the publisher or leaves the
\* Config, the file and the handler's duty to publish as they are.
LEMMA PublisherStep == TypeOK /\ [Next]_vars => [Publisher!Next]_(Publisher!vars)
<1> SUFFICES ASSUME TypeOK, [Next]_vars PROVE [Publisher!Next]_(Publisher!vars)
  OBVIOUS
<1> DEFINE P == [Publisher!Next]_(Publisher!vars)
<1>1. ASSUME UNCHANGED <<config, cm, pc>> PROVE P
  BY <1>1 DEF Publisher!vars
<1>2. ASSUME Handle PROVE P
  <2> DEFINE m == Head(pending)
  <2>1. m.name \in Names /\ m.new \in Specs \cup {Absent}
    BY <1>2, ReceiveType DEF Handle, OnAdd, OnUpdate, OnDelete, Receive, Maybe
  <2>2. pc = "idle" /\ UNCHANGED cm
    BY <1>2 DEF Handle, OnAdd, OnUpdate, OnDelete, Receive
  <2>3. \/ UNCHANGED <<config, pc>>
        \/ config' = [config EXCEPT ![m.name] = m.new] /\ pc' = "patch"
        \/ config' = [config EXCEPT ![m.name] = Absent] /\ pc' = "patch"
    BY <1>2 DEF Handle, OnAdd, OnUpdate, OnDelete, UpsertSink, DeleteSink
  <2> HIDE DEF m
  <2>4. CASE \E v \in Specs \cup {Absent} :
               config' = [config EXCEPT ![m.name] = v] /\ pc' = "patch"
    BY <2>1, <2>2, <2>4 DEF Publisher!Next, Publisher!Change
  <2> QED
    BY <1>1, <2>1, <2>2, <2>3, <2>4
<1>3. ASSUME Patch PROVE P
  BY <1>3 DEF Patch, Publisher!Next, Publisher!Publish
<1>4. ASSUME PatchFails PROVE P
  BY <1>4 DEF PatchFails, Fault, Publisher!Next, Publisher!GiveUp
<1>5. ASSUME RestartPods \/ RestartFails PROVE P
  BY <1>5 DEF RestartPods, RestartFails, Publisher!vars
<1>6. ASSUME Crash PROVE P
  BY <1>6 DEF Crash, NoSinks, Publisher!Next, Publisher!Forget, Publisher!Empty
<1> HIDE DEF P
<1>7. P
  BY <1>1, <1>2, <1>3, <1>4, <1>5, <1>6
     DEF Next, vars, SetSink, Watch, RelistDeleted, Resync, Touch, Enqueue, StartPod, LosePod
<1> QED
  BY <1>7 DEF P

\* The handler publishes every change before it makes the next: each
\* behaviour of the controller is one that ConfigPublisher allows (its safety
\* part; that the publication comes is left to the model checker).
THEOREM ImplementsPublisher == Spec => Publisher!Safety
<1>1. Init => Publisher!Init
  BY DEF Init, NoSinks, Publisher!Init, Publisher!Empty
<1> QED
  BY <1>1, PublisherStep, TypeCorrect, PTL DEF Spec, Publisher!Safety


-----------------------------------------------------------------------------
(***************************************************************************)
(* Behind the validator.                                                   *)
(*                                                                         *)
(* The type rules are checked once, on the object that is stored.  They    *)
(* have to hold of every copy of a spec on its way to the pods, and are    *)
(* then all that the conversion needs to leave nothing out.                *)
(***************************************************************************)
AllTyped(cfg) == \A n \in Names : cfg[n] # Absent => TypesAccepted(cfg[n])

\* The default inputs are the only ones that scrape the kubelet.
OwnKubelet(text) == \A s \in text.inputs : s[2] = "kubernetes" => s \in defaultInputs

TypedInv ==
  /\ AllTyped(api) /\ AllTyped(store) /\ AllTyped(config)
  /\ \A i \in 1..Len(pending) : pending[i].new # Absent => TypesAccepted(pending[i].new)
  /\ OwnKubelet(cm)
  /\ \A p \in Pods : pods[p] # Down => OwnKubelet(pods[p])

\* The file that is deployed does not scrape the kubelet, nor does an empty one.
LEMMA DeployedKubelet == OwnKubelet(emptyConfig) /\ OwnKubelet(noText)
<1>1. emptyConfig.inputs = {<<Default, "cpu", Default>>} /\ noText.inputs = {}
  BY DEF emptyConfig, noText
<1>2. \A s \in emptyConfig.inputs : s[2] = "cpu"
  BY <1>1
<1>3. "cpu" # "kubernetes"
  OBVIOUS
<1> QED
  BY <1>1, <1>2, <1>3 DEF OwnKubelet

\* The file of any number of accepted sinks scrapes it as the defaults do.
LEMMA TypedKubelet ==
  ASSUME NEW cfg \in [Names -> Maybe(Specs)], AllTyped(cfg)
  PROVE  OwnKubelet(String(cfg))
<1> DEFINE ins == defaultInputs \cup UNION {appendInputsAndOutputs(n, cfg[n].inputs) : n \in Present(cfg)}
           outs == UNION {appendInputsAndOutputs(n, cfg[n].outputs) : n \in Present(cfg)}
<1>1. String(cfg) = telegrafConfig(GlobalTags, ins, outs)
  BY DEF String
<1>2. ASSUME NEW s \in ins, s \notin defaultInputs PROVE s[2] # "kubernetes"
  <2>1. PICK n \in Present(cfg) : s \in appendInputsAndOutputs(n, cfg[n].inputs)
    BY <1>2
  <2>2. PICK e \in cfg[n].inputs : s = <<n, e.type, e.opts>>
    BY <2>1 DEF appendInputsAndOutputs
  <2>3. TypesAccepted(cfg[n])
    BY DEF AllTyped, Present
  <2> QED
    BY <2>2, <2>3 DEF TypesAccepted
<1> HIDE DEF ins, outs
<1>3. \/ String(cfg) = emptyConfig \/ String(cfg) = noText
      \/ String(cfg) = [tags |-> GlobalTags, inputs |-> ins, outputs |-> outs]
  BY <1>1 DEF telegrafConfig
<1>4. CASE String(cfg) = [tags |-> GlobalTags, inputs |-> ins, outputs |-> outs]
  BY <1>2, <1>4 DEF OwnKubelet
<1> QED
  BY <1>3, <1>4, DeployedKubelet

\* Of accepted entries none is skipped.
LEMMA NothingSkipped ==
  ASSUME NEW n, NEW E, \A e \in E : e.type # NotString
  PROVE  appendInputsAndOutputs(n, E) = {<<n, e.type, e.opts>> : e \in E}
  BY DEF appendInputsAndOutputs

\* The file of the stored sinks is what they ask for.
LEMMA TypedAsked ==
  ASSUME TypeOK, AllTyped(api)
  PROVE  String(api) = Asked
<1>1. ASSUME NEW n \in Present(api)
      PROVE  /\ appendInputsAndOutputs(n, api[n].inputs) = {<<n, e.type, e.opts>> : e \in api[n].inputs}
             /\ appendInputsAndOutputs(n, api[n].outputs) = {<<n, e.type, e.opts>> : e \in api[n].outputs}
  <2>1. TypesAccepted(api[n])
    BY DEF AllTyped, Present
  <2> QED
    BY <2>1, NothingSkipped DEF TypesAccepted
<1> DEFINE ins == defaultInputs \cup AskedInputs
<1>2. UNION {appendInputsAndOutputs(n, api[n].inputs) : n \in Present(api)} = AskedInputs
  BY <1>1 DEF AskedInputs
<1>3. UNION {appendInputsAndOutputs(n, api[n].outputs) : n \in Present(api)} = AskedOutputs
  BY <1>1 DEF AskedOutputs
<1>4. String(api) = telegrafConfig(GlobalTags, ins, AskedOutputs)
  BY <1>2, <1>3 DEF String
<1>5. ins # {} /\ \A s \in defaultInputs : s[3] \notin Unencodable
  <2>1. Default \notin Unencodable
    BY NamesAssumption
  <2>2. defaultInputs # {} /\ \A s \in defaultInputs : s[3] = Default
    BY DEF defaultInputs
  <2> QED
    BY <2>1, <2>2
<1>6. Encodable(ins \cup AskedOutputs) <=> ~ \E s \in AskedInputs \cup AskedOutputs : s[3] \in Unencodable
  BY <1>5 DEF Encodable
<1> QED
  BY <1>4, <1>5, <1>6 DEF telegrafConfig, Asked

\* A notification brings a copy of an accepted spec, or of none.
LEMMA EnqueueTyped ==
  ASSUME TypeOK, TypedInv, NEW type \in {"add", "update", "deleted", "unknown"},
         NEW n \in Names, NEW new \in Maybe(Specs), NEW same \in BOOLEAN,
         new # Absent => TypesAccepted(new), Enqueue(type, n, new, same)
  PROVE  /\ AllTyped(store')
         /\ \A i \in 1..Len(pending') : pending'[i].new # Absent => TypesAccepted(pending'[i].new)
<1> DEFINE m == [type |-> type, name |-> n, new |-> new, same |-> same]
<1>1. m \in Notification /\ m.new = new
  BY DEF Notification
<1>2. pending' = Append(pending, m) /\ store' = [store EXCEPT ![n] = new]
  BY DEF Enqueue
<1> HIDE DEF m
<1>3. AllTyped(store')
  BY <1>2 DEF AllTyped, TypedInv, TypeOK
<1>4. pending \in Seq(Notification)
  BY DEF TypeOK
<1>5. /\ Len(pending) \in Nat /\ Len(pending') = Len(pending) + 1
      /\ pending'[Len(pending) + 1] = m
      /\ \A i \in 1..Len(pending) : pending'[i] = pending[i]
  BY <1>1, <1>2, <1>4, AppendNote
<1>6. \A i \in 1..Len(pending') : i \in 1..Len(pending) \/ i = Len(pending) + 1
  BY <1>5
<1>7. \A i \in 1..Len(pending) : pending[i].new # Absent => TypesAccepted(pending[i].new)
  BY DEF TypedInv
<1> QED
  BY <1>1, <1>3, <1>5, <1>6, <1>7

\* Every admitted step keeps what the pods run runnable.
LEMMA TypedStep == TypeOK /\ TypeOK' /\ TypedInv /\ [AdmittedNext]_vars => TypedInv'
<1> SUFFICES ASSUME TypeOK, TypeOK', TypedInv, [AdmittedNext]_vars PROVE TypedInv'
  OBVIOUS
<1>1. CASE UNCHANGED vars
  BY <1>1 DEF vars, TypedInv, AllTyped
<1>2. CASE AdmittedNext
  <2> DEFINE Notes(q) == \A i \in 1..Len(q) : q[i].new # Absent => TypesAccepted(q[i].new)
             Loaded1(f) == \A p \in Pods : f[p] # Down => OwnKubelet(f[p])
  <2>2. AllTyped(api) /\ AllTyped(store) /\ AllTyped(config) /\ Notes(pending) /\ OwnKubelet(cm) /\ Loaded1(pods)
    BY DEF TypedInv
  <2>3. AllTyped(api')
    <3> SUFFICES ASSUME NEW n \in Names, api'[n] # Absent PROVE TypesAccepted(api'[n])
      BY DEF AllTyped
    <3>1. CASE api'[n] = api[n]
      BY <2>2, <3>1 DEF AllTyped
    <3>2. CASE api'[n] # api[n]
      BY <1>2, <3>2 DEF AdmittedNext, Admission
    <3> QED
      BY <3>1, <3>2
  <2>4. AllTyped(store') /\ Notes(pending') /\ AllTyped(config') /\ OwnKubelet(cm') /\ Loaded1(pods')
    <3>1. CASE \E n \in Names, v \in Maybe(Specs) : SetSink(n, v)
      BY <2>2, <3>1 DEF SetSink
    <3>2. CASE \E n \in Names : Watch(n) \/ RelistDeleted(n) \/ Resync(n) \/ Touch(n)
      <4>1. PICK n \in Names : Watch(n) \/ RelistDeleted(n) \/ Resync(n) \/ Touch(n)
        BY <3>2
      <4>2. /\ api[n] \in Maybe(Specs) /\ store[n] \in Maybe(Specs) /\ Absent \in Maybe(Specs)
            /\ api[n] # Absent => TypesAccepted(api[n])
            /\ store[n] # Absent => TypesAccepted(store[n])
        BY <2>2 DEF TypeOK, AllTyped, Maybe
      <4>3. UNCHANGED <<config, cm, pods>>
        BY <4>1 DEF Watch, RelistDeleted, Resync, Touch, Enqueue
      <4>4. ASSUME Watch(n) PROVE AllTyped(store') /\ Notes(pending')
        BY <4>2, <4>4, EnqueueTyped DEF Watch
      <4>5. ASSUME RelistDeleted(n) PROVE AllTyped(store') /\ Notes(pending')
        BY <4>2, <4>5, EnqueueTyped DEF RelistDeleted
      <4>6. ASSUME Resync(n) \/ Touch(n) PROVE AllTyped(store') /\ Notes(pending')
        BY <4>2, <4>6, EnqueueTyped DEF Resync, Touch
      <4>7. AllTyped(store') /\ Notes(pending')
        BY <4>1, <4>4, <4>5, <4>6
      <4> QED
        BY <2>2, <4>3, <4>7
    <3>3. CASE Handle
      <4>1. pending # <<>> /\ pending' = Tail(pending) /\ UNCHANGED <<store, cm, pods>>
        BY <3>3 DEF Handle, OnAdd, OnUpdate, OnDelete, Receive
      <4>2. /\ Len(pending) \in Nat /\ Len(pending) >= 1 /\ Len(Tail(pending)) = Len(pending) - 1
            /\ Head(pending) = pending[1]
            /\ \A i \in 1..Len(Tail(pending)) : Tail(pending)[i] = pending[i + 1]
        BY <4>1, TailNote DEF TypeOK
      <4>3. Notes(pending')
        <5> SUFFICES ASSUME NEW i \in 1..Len(pending')
                     PROVE  pending'[i].new # Absent => TypesAccepted(pending'[i].new)
          OBVIOUS
        <5>1. i + 1 \in 1..Len(pending) /\ pending'[i] = pending[i + 1]
          BY <4>1, <4>2
        <5> QED
          BY <2>2, <5>1
      <4>4. Head(pending).new # Absent => TypesAccepted(Head(pending).new)
        BY <2>2, <4>2
      <4>5. Head(pending).name \in Names
        BY <4>1, ReceiveType
      <4>6. AllTyped(config')
        BY <2>2, <3>3, <4>4, <4>5
           DEF Handle, OnAdd, OnUpdate, OnDelete, UpsertSink, DeleteSink, AllTyped, TypeOK
      <4> QED
        BY <2>2, <4>1, <4>3, <4>6
    <3>4. CASE Patch
      <4>1. OwnKubelet(String(config))
        BY <2>2, TypedKubelet DEF TypeOK
      <4> QED
        BY <2>2, <3>4, <4>1 DEF Patch
    <3>5. CASE PatchFails
      BY <2>2, <3>5 DEF PatchFails
    <3>6. CASE RestartPods \/ RestartFails
      BY <2>2, <3>6 DEF RestartPods, RestartFails
    <3>7. CASE Crash
      <4>1. AllTyped(store') /\ AllTyped(config') /\ Len(pending') = 0
        BY <3>7 DEF Crash, AllTyped, NoSinks
      <4> QED
        BY <2>2, <3>7, <4>1 DEF Crash
    <3>8. CASE \E p \in Pods : StartPod(p) \/ LosePod(p)
      BY <2>2, <3>8 DEF StartPod, LosePod, TypeOK
    <3> QED
      BY <1>2, <3>1, <3>2, <3>3, <3>4, <3>5, <3>6, <3>7, <3>8 DEF AdmittedNext, Next
  <2> QED
    BY <2>3, <2>4 DEF TypedInv
<1> QED
  BY <1>1, <1>2

\* Whatever telegraf said of them, the sinks whose types were accepted are run
\* by the pods entry by entry, for any number of sinks and pods, any faults and
\* any order of changes; and no pod scrapes the kubelet but as the defaults do.
THEOREM StoredIsRun == AdmittedSpec => []RunsWhatIsStored
<1>1. Init => TypedInv
  <2>1. AllTyped(NoSinks) /\ Len(<<>>) = 0
    BY DEF AllTyped, NoSinks
  <2> QED
    BY <2>1, DeployedKubelet DEF Init, TypedInv
<1>2. TypeOK /\ TypedInv /\ Published /\ PodsFollowConfigMap => RunsWhatIsStored
  <2> SUFFICES ASSUME TypeOK, TypedInv, Published, PodsFollowConfigMap PROVE RunsWhatIsStored
    OBVIOUS
  <2>1. \A p \in Pods : pods[p] # Down =>
          \A s \in pods[p].inputs : s[2] = "kubernetes" => s \in defaultInputs
    BY DEF TypedInv, OwnKubelet
  <2>2. ASSUME Quiet, Never({"missed", "restart", "crash"}), tried # "refused"
        PROVE  \A p \in Pods : pods[p] \in {Down, Asked}
    <3>1. Never({"missed"}) /\ Never({"crash"}) /\ Never({"restart", "crash"}) /\ pc = "idle"
      BY <2>2 DEF Never, Quiet
    <3>2. cm = String(api)
      BY <2>2, <3>1 DEF Published
    <3>3. String(api) = Asked
      BY TypedAsked DEF TypedInv
    <3> QED
      BY <3>1, <3>2, <3>3 DEF PodsFollowConfigMap
  <2> QED
    BY <2>1, <2>2 DEF RunsWhatIsStored
<1>3. [AdmittedNext]_vars => [Next]_vars
  BY DEF AdmittedNext
<1>4. AdmittedSpec => Spec
  BY <1>3, PTL DEF AdmittedSpec, Spec
<1> QED
  BY <1>1, <1>2, <1>3, <1>4, TypeCorrect, TypedStep, AllPublished, PodsFollow, PTL
     DEF AdmittedSpec

=============================================================================
