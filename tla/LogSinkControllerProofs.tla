---------------------- MODULE LogSinkControllerProofs ----------------------
(***************************************************************************)
(* Proofs about LogSinkController, for any set of sinks, specs and pods,   *)
(* any bound on the notifications and any set of faults.                   *)
(***************************************************************************)
EXTENDS LogSinkController, TLAPS

(***************************************************************************)
(* Lemmas about the rendered outputs.conf.                                 *)
(***************************************************************************)

\* String() prints sections of known sinks with known specs, or null.
LEMMA StringType ==
  ASSUME NEW cfg \in [Sinks -> Specs \cup {Absent}]
  PROVE  String(cfg) \in SUBSET Sections
<1>1. CASE Present(cfg) = {}
  BY <1>1 DEF String, Sections
<1>2. CASE Present(cfg) # {}
  <2>1. SUFFICES ASSUME NEW s \in Rendered(cfg)
                 PROVE  <<s, Output(s, cfg[s])>> \in Sections
    BY <1>2 DEF String
  <2>2. s \in Sinks /\ cfg[s] \in Specs
    BY DEF Rendered, Present
  <2> QED
    BY <2>2 DEF Sections
<1> QED
  BY <1>1, <1>2

\* The sections of kind k depend on the sinks of kind k only: a handler that
\* changes its own kind's sinks leaves the other kind's sections as they are.
LEMMA SectionsOfLocal ==
  ASSUME NEW k \in Kinds,
         NEW f \in [Sinks -> Specs \cup {Absent}],
         NEW g \in [Sinks -> Specs \cup {Absent}],
         \A s \in Sinks : s.kind = k => f[s] = g[s]
  PROVE  SectionsOf(String(f), k) = SectionsOf(String(g), k)
<1> DEFINE Own(h) == {<<s, Output(s, h[s])>> : s \in {x \in Rendered(h) : x.kind = k}}
<1>1. ASSUME NEW h \in [Sinks -> Specs \cup {Absent}]
      PROVE  SectionsOf(String(h), k) = Own(h)
  <2>1. CASE Present(h) = {}
    <3>1. Own(h) = {}
      BY <2>1 DEF Rendered
    <3>2. SectionsOf(nullConfig, k) = {}
      BY DEF SectionsOf, nullConfig
    <3> QED
      BY <2>1, <3>1, <3>2 DEF String
  <2>2. CASE Present(h) # {}
    <3>1. \A s \in Rendered(h) : s \in Sinks /\ s # NoSink
      BY NoSinkAssumption DEF Rendered, Present
    <3> QED
      BY <2>2, <3>1 DEF String, SectionsOf
  <2> QED
    BY <2>1, <2>2
<1>2. \A s \in Sinks : s.kind = k => (s \in Rendered(f) <=> s \in Rendered(g))
  BY DEF Rendered, Present
<1>3. Rendered(f) \subseteq Sinks /\ Rendered(g) \subseteq Sinks
  BY DEF Rendered, Present
<1>4. Own(f) = Own(g)
  BY <1>2, <1>3
<1> QED
  BY <1>1, <1>4

-----------------------------------------------------------------------------
(***************************************************************************)
(* Type correctness.                                                       *)
(***************************************************************************)

\* A sink's kind is one of the two kinds, so its handler exists.
LEMMA KindType == \A s \in Sinks : s.kind \in Kinds
  BY SinksAssumption

\* A queued notification is put last, and the handler takes the first one.
LEMMA AppendNote ==
  ASSUME NEW T, NEW q \in Seq(T), NEW n \in T
  PROVE  /\ Append(q, n) \in Seq(T)
         /\ Len(Append(q, n)) = Len(q) + 1
         /\ Append(q, n)[Len(q) + 1] = n
         /\ \A i \in 1..Len(q) : Append(q, n)[i] = q[i]
  OBVIOUS

\* What is left after the first notification is the rest, in order.
LEMMA TailNote ==
  ASSUME NEW T, NEW q \in Seq(T), q # <<>>
  PROVE  /\ Tail(q) \in Seq(T)
         /\ Len(q) \in Nat /\ Len(q) >= 1
         /\ Len(Tail(q)) = Len(q) - 1
         /\ Head(q) = q[1] /\ Head(q) \in T
         /\ \A i \in 1..Len(Tail(q)) : Tail(q)[i] = q[i + 1]
  OBVIOUS

\* The steps of the handlers' queues keep TypeOK.
LEMMA EnqueueType ==
  ASSUME TypeOK, NEW s \in Sinks, NEW n \in Notification, n.sink = s,
         pending' = [pending EXCEPT ![s.kind] = Append(@, n)]
  PROVE  /\ pending' \in [Kinds -> Seq(Notification)]
         /\ \A k \in Kinds : \A i \in 1..Len(pending'[k]) : pending'[k][i].sink.kind = k
<1>1. s.kind \in Kinds /\ pending[s.kind] \in Seq(Notification)
  BY KindType DEF TypeOK
<1>2. pending' \in [Kinds -> Seq(Notification)]
  BY <1>1, AppendNote DEF TypeOK
<1>3. ASSUME NEW k \in Kinds, NEW i \in 1..Len(pending'[k])
      PROVE  pending'[k][i].sink.kind = k
  <2>1. CASE k = s.kind
    <3>1. pending'[k] = Append(pending[k], n)
      BY <2>1, <1>1 DEF TypeOK
    <3>2. i \in 1..Len(pending[k]) \/ i = Len(pending[k]) + 1
      BY <2>1, <1>1, <3>1, AppendNote
    <3> QED
      BY <2>1, <1>1, <3>1, <3>2, AppendNote DEF TypeOK
  <2>2. CASE k # s.kind
    BY <2>2, <1>1 DEF TypeOK
  <2> QED
    BY <2>1, <2>2
<1> QED
  BY <1>2, <1>3

\* Taking a notification keeps the types; it is about a sink of the handler's kind.
LEMMA ReceiveType ==
  ASSUME TypeOK, NEW k \in Kinds, pending[k] # <<>>,
         pending' = [pending EXCEPT ![k] = Tail(@)]
  PROVE  /\ pending' \in [Kinds -> Seq(Notification)]
         /\ \A j \in Kinds : \A i \in 1..Len(pending'[j]) : pending'[j][i].sink.kind = j
         /\ Head(pending[k]) \in Notification
         /\ Head(pending[k]).sink \in Sinks
         /\ Head(pending[k]).sink.kind = k
<1>1. pending[k] \in Seq(Notification)
  BY DEF TypeOK
<1>2. pending' \in [Kinds -> Seq(Notification)]
  BY <1>1, TailNote DEF TypeOK
<1>3. Head(pending[k]) \in Notification /\ Head(pending[k]).sink.kind = k
  BY <1>1, TailNote DEF TypeOK
<1>4. Head(pending[k]).sink \in Sinks
  BY <1>3 DEF Notification
<1>5. ASSUME NEW j \in Kinds, NEW i \in 1..Len(pending'[j])
      PROVE  pending'[j][i].sink.kind = j
  <2>1. CASE j = k
    <3>1. pending'[j] = Tail(pending[k])
      BY <2>1 DEF TypeOK
    <3>2. /\ Len(pending[k]) \in Nat
          /\ Len(Tail(pending[k])) = Len(pending[k]) - 1
          /\ \A m \in 1..Len(Tail(pending[k])) : Tail(pending[k])[m] = pending[k][m + 1]
      BY <1>1, TailNote
    <3>3. i \in 1..Len(Tail(pending[k]))
      BY <3>1
    <3>4. pending'[j][i] = pending[k][i + 1]
      BY <3>1, <3>2, <3>3
    <3>5. i + 1 \in 1..Len(pending[k])
      BY <3>2, <3>3
    <3> QED
      BY <2>1, <3>4, <3>5 DEF TypeOK
  <2>2. CASE j # k
    BY <2>2 DEF TypeOK
  <2> QED
    BY <2>1, <2>2
<1> QED
  BY <1>2, <1>3, <1>4, <1>5

\* Every step keeps TypeOK.
LEMMA TypeStep == TypeOK /\ [Next]_vars => TypeOK'
<1> SUFFICES ASSUME TypeOK, [Next]_vars PROVE TypeOK'
  OBVIOUS
<1> USE DEF Procs, Kinds
<1>1. ASSUME NEW s \in Sinks, NEW v \in Specs \cup {Absent}, SetSink(s, v) PROVE TypeOK'
  BY <1>1 DEF TypeOK, SetSink
<1>2. ASSUME NEW s \in Sinks, Watch(s) PROVE TypeOK'
  <2>1. Note(ChangeType(s), s) \in Notification /\ Note(ChangeType(s), s).sink = s
    BY DEF TypeOK, Note, ChangeType, Notification
  <2>2. store' \in [Sinks -> Specs \cup {Absent}]
    BY <1>2 DEF TypeOK, Watch
  <2> QED
    BY <1>2, <2>1, <2>2, EnqueueType DEF TypeOK, Watch
<1>3. ASSUME NEW s \in Sinks, RelistDeleted(s) PROVE TypeOK'
  <2>1. Note("unknown", s) \in Notification /\ Note("unknown", s).sink = s
    BY DEF TypeOK, Note, Notification
  <2>2. store' \in [Sinks -> Specs \cup {Absent}] /\ faults' \in SUBSET FaultKinds
    BY <1>3 DEF TypeOK, RelistDeleted, FaultKinds
  <2> QED
    BY <1>3, <2>1, <2>2, EnqueueType DEF TypeOK, RelistDeleted
<1>4. ASSUME NEW s \in Sinks, Resync(s) PROVE TypeOK'
  <2> DEFINE n == [type |-> "update", sink |-> s, old |-> store[s], new |-> store[s]]
  <2>1. n \in Notification /\ n.sink = s
    BY DEF TypeOK, Notification
  <2>2. pending' = [pending EXCEPT ![s.kind] = Append(@, n)]
    BY <1>4 DEF Resync
  <2> HIDE DEF n
  <2> QED
    BY <1>4, <2>1, <2>2, EnqueueType DEF TypeOK, Resync
<1>5. ASSUME NEW k \in Kinds, OnAdd(k) PROVE TypeOK'
  <2>1. Head(pending[k]) \in Notification /\ Head(pending[k]).sink \in Sinks
    BY <1>5, ReceiveType DEF OnAdd, Receive
  <2>2. config' \in [Sinks -> Specs \cup {Absent}] /\ pc' \in [Procs -> {"boot", "idle", "render", "patch", "restart"}]
    BY <1>5, <2>1 DEF OnAdd, Upsert, TypeOK, Notification
  <2> QED
    BY <1>5, <2>2, ReceiveType DEF OnAdd, Receive, TypeOK
<1>6. ASSUME NEW k \in Kinds, OnUpdate(k) PROVE TypeOK'
  <2>1. Head(pending[k]) \in Notification /\ Head(pending[k]).sink \in Sinks
    BY <1>6, ReceiveType DEF OnUpdate, Receive
  <2>2. config' \in [Sinks -> Specs \cup {Absent}] /\ pc' \in [Procs -> {"boot", "idle", "render", "patch", "restart"}]
    BY <1>6, <2>1 DEF OnUpdate, Upsert, TypeOK, Notification
  <2> QED
    BY <1>6, <2>2, ReceiveType DEF OnUpdate, Receive, TypeOK
<1>7. ASSUME NEW k \in Kinds, OnDelete(k) PROVE TypeOK'
  <2>1. Head(pending[k]).sink \in Sinks
    BY <1>7, ReceiveType DEF OnDelete, Receive
  <2>2. config' \in [Sinks -> Specs \cup {Absent}] /\ pc' \in [Procs -> {"boot", "idle", "render", "patch", "restart"}]
    BY <1>7, <2>1 DEF OnDelete, Delete, TypeOK
  <2> QED
    BY <1>7, <2>2, ReceiveType DEF OnDelete, Receive, TypeOK
<1>8. ASSUME NEW k \in Kinds, Render(k) PROVE TypeOK'
  <2>1. value' \in [Kinds -> SUBSET Sections]
    BY <1>8, StringType DEF Render, TypeOK
  <2> QED
    BY <1>8, <2>1 DEF Render, TypeOK
<1>9. ASSUME NEW p \in Procs PROVE Applied(p) \in ConfigMap /\ Sent(p) \in [Kinds -> SUBSET Sections]
  BY DEF TypeOK, Applied, Sent, ConfigMap
<1>10. ASSUME NEW p \in Procs, Patch(p) PROVE TypeOK'
  BY <1>10, <1>9 DEF Patch, TypeOK
<1>11. ASSUME NEW p \in Procs, PatchFails(p) PROVE TypeOK'
  BY <1>11, <1>9 DEF PatchFails, TypeOK, FaultKinds
<1>12. ASSUME NEW p \in Procs, RestartPods(p) PROVE TypeOK'
  BY <1>12 DEF RestartPods, TypeOK
<1>13. ASSUME NEW p \in Procs, RestartFails(p) PROVE TypeOK'
  <2>1. pods' \in [Pods -> ConfigMap \cup {Down}]
    BY <1>13 DEF RestartFails, TypeOK
  <2> QED
    BY <1>13, <2>1 DEF RestartFails, TypeOK, FaultKinds
<1>14. ASSUME SetClusterNameFilter PROVE TypeOK'
  BY <1>14 DEF SetClusterNameFilter, TypeOK
<1>15. ASSUME Crash PROVE TypeOK'
  BY <1>15 DEF Crash, TypeOK, EmptyConfig, FaultKinds
<1>16. ASSUME NEW p \in Pods, StartPod(p) \/ LosePod(p) PROVE TypeOK'
  BY <1>16 DEF StartPod, LosePod, TypeOK
<1>17. ASSUME UNCHANGED vars PROVE TypeOK'
  BY <1>17 DEF vars, TypeOK
<1> QED
  BY <1>1, <1>2, <1>3, <1>4, <1>5, <1>6, <1>7, <1>8, <1>10, <1>11, <1>12, <1>13, <1>14, <1>15,
     <1>16, <1>17 DEF Next, System

\* The initial state has its type.
LEMMA TypeInit == Init => TypeOK
<1> SUFFICES ASSUME Init PROVE TypeOK
  OBVIOUS
<1>1. cm \in ConfigMap
  <2>1. initialOutputs \in SUBSET Sections
    BY DEF Sections
  <2>2. cm = [outputs |-> initialOutputs, filter |-> ""]
    BY DEF Init
  <2> QED
    BY <2>1, <2>2 DEF ConfigMap
<1>2. faults \in SUBSET FaultKinds /\ value \in [Kinds -> SUBSET Sections]
  BY DEF Init
<1>3. <<>> \in Seq(Notification) /\ Len(<<>>) = 0
  OBVIOUS
<1>4. pending \in [Kinds -> Seq(Notification)] /\ \A k \in Kinds : Len(pending[k]) = 0
  BY <1>3 DEF Init
<1>6. \A k \in Kinds : \A i \in 1..Len(pending[k]) : pending[k][i].sink.kind = k
  BY <1>4
<1>5. pods \in [Pods -> ConfigMap \cup {Down}]
  BY <1>1 DEF Init
<1> QED
  BY <1>1, <1>2, <1>4, <1>5, <1>6 DEF Init, TypeOK, EmptyConfig, Kinds, Procs

\* The variables always hold values of their types, and a notification waits at
\* the listener of its own kind.
THEOREM TypeCorrect == Spec => []TypeOK
  BY TypeInit, TypeStep, PTL DEF Spec

-----------------------------------------------------------------------------
(***************************************************************************)
(* The pods and the ConfigMap.                                             *)
(***************************************************************************)

\* Every step keeps PodsFollowConfigMap: it needs no strengthening, because a
\* patch leaves its process at "restart" until the pods are deleted.
LEMMA PodsStep == TypeOK /\ PodsFollowConfigMap /\ [Next]_vars => PodsFollowConfigMap'
<1> SUFFICES ASSUME TypeOK, PodsFollowConfigMap, [Next]_vars PROVE PodsFollowConfigMap'
  OBVIOUS
<1> USE DEF PodsFollowConfigMap, Stale, Procs, Kinds
<1>1. ASSUME NEW s \in Sinks, NEW v \in Specs \cup {Absent}, SetSink(s, v)
      PROVE  PodsFollowConfigMap'
  BY <1>1 DEF SetSink
<1>2. ASSUME NEW s \in Sinks, Watch(s) \/ RelistDeleted(s) \/ Resync(s)
      PROVE  PodsFollowConfigMap'
  BY <1>2 DEF Watch, RelistDeleted, Resync
<1>3. ASSUME NEW k \in Kinds, OnAdd(k) \/ OnUpdate(k) \/ OnDelete(k) \/ Render(k)
      PROVE  PodsFollowConfigMap'
  BY <1>3 DEF OnAdd, OnUpdate, OnDelete, Render, Receive, TypeOK
<1>4. ASSUME NEW p \in Procs, Patch(p) \/ PatchFails(p) PROVE PodsFollowConfigMap'
  <2>1. pc'[p] = "restart"
    BY <1>4 DEF Patch, PatchFails, TypeOK
  <2> QED
    BY <2>1
<1>5. ASSUME NEW p \in Procs, RestartPods(p) PROVE PodsFollowConfigMap'
  BY <1>5 DEF RestartPods
<1>6. ASSUME NEW p \in Procs, RestartFails(p) PROVE PodsFollowConfigMap'
  BY <1>6 DEF RestartFails
<1>7. ASSUME SetClusterNameFilter PROVE PodsFollowConfigMap'
  BY <1>7 DEF SetClusterNameFilter, TypeOK
<1>8. ASSUME Crash PROVE PodsFollowConfigMap'
  BY <1>8 DEF Crash
<1>9. ASSUME NEW p \in Pods, StartPod(p) \/ LosePod(p) PROVE PodsFollowConfigMap'
  BY <1>9 DEF StartPod, LosePod, TypeOK
<1>10. ASSUME UNCHANGED vars PROVE PodsFollowConfigMap'
  BY <1>10 DEF vars
<1> QED
  BY <1>1, <1>2, <1>3, <1>4, <1>5, <1>6, <1>7, <1>8, <1>9, <1>10 DEF Next, System

\* However the two handlers and main interleave their patches and their pod
\* deletions, a pod left with an old configuration is always about to be
\* deleted, unless a DeleteCollection has failed or the process has died.
THEOREM PodsFollow == Spec => []PodsFollowConfigMap
<1>1. Init => PodsFollowConfigMap
  BY DEF Init, PodsFollowConfigMap, Stale
<1> QED
  BY <1>1, PodsStep, TypeCorrect, PTL DEF Spec

-----------------------------------------------------------------------------
(***************************************************************************)
(* The last writer.                                                        *)
(***************************************************************************)

\* The strengthening: what a handler is about to send shows its own kind's
\* sinks as the Config holds them, since no one else changes those.
ValueOwn ==
  \A k \in Kinds :
    pc[k] = "patch" => SectionsOf(value[k], k) = SectionsOf(String(config), k)

WriterInv == ValueOwn /\ LastWriterPublished

\* A handler's change of the Config leaves the other kind's sections alone.
LEMMA OthersUntouched ==
  ASSUME TypeOK, TypeOK', NEW k \in Kinds, NEW s \in Sinks, s.kind = k,
         NEW v, config' = [config EXCEPT ![s] = v],
         NEW j \in Kinds, j # k
  PROVE  SectionsOf(String(config'), j) = SectionsOf(String(config), j)
<1>1. \A x \in Sinks : x.kind = j => config'[x] = config[x]
  BY DEF TypeOK
<1>2. config \in [Sinks -> Specs \cup {Absent}] /\ config' \in [Sinks -> Specs \cup {Absent}]
  BY DEF TypeOK
<1> QED
  BY <1>1, <1>2, SectionsOfLocal

\* A step of handler k that changes the Config and goes to "render".
LEMMA ChangeKeepsWriter ==
  ASSUME TypeOK, TypeOK', WriterInv, NEW k \in Kinds, NEW s \in Sinks, s.kind = k,
         NEW v, config' = [config EXCEPT ![s] = v],
         pc' = [pc EXCEPT ![k] = "render"],
         UNCHANGED <<value, cm, lastPatch>>
  PROVE  WriterInv'
<1>1. SUFFICES ASSUME NEW j \in Kinds
               PROVE  /\ pc'[j] = "patch" =>
                           SectionsOf(value'[j], j) = SectionsOf(String(config'), j)
                      /\ lastPatch' = j /\ pc'[j] \notin {"render", "patch"} =>
                           SectionsOf(cm'.outputs, j) = SectionsOf(String(config'), j)
  BY DEF WriterInv, ValueOwn, LastWriterPublished
<1>2. CASE j = k
  <2>1. pc'[j] = "render"
    BY <1>2 DEF TypeOK, Procs
  <2> QED
    BY <2>1
<1>3. CASE j # k
  <2>1. SectionsOf(String(config'), j) = SectionsOf(String(config), j)
    BY <1>3, OthersUntouched
  <2>2. pc'[j] = pc[j]
    BY <1>3 DEF TypeOK, Procs
  <2> QED
    BY <2>1, <2>2 DEF WriterInv, ValueOwn, LastWriterPublished
<1> QED
  BY <1>2, <1>3

\* Every step of either handler keeps the strengthened invariant.
LEMMA WriterStep == TypeOK /\ TypeOK' /\ WriterInv /\ [Next]_vars => WriterInv'
<1> SUFFICES ASSUME TypeOK, TypeOK', WriterInv, [Next]_vars PROVE WriterInv'
  OBVIOUS
<1>1. ASSUME UNCHANGED <<config, pc, value, cm, lastPatch>> PROVE WriterInv'
  BY <1>1 DEF WriterInv, ValueOwn, LastWriterPublished
<1>2. ASSUME NEW k \in Kinds, OnAdd(k) PROVE WriterInv'
  <2>1. Head(pending[k]).sink \in Sinks /\ Head(pending[k]).sink.kind = k
    BY <1>2, ReceiveType DEF OnAdd, Receive
  <2> QED
    BY <1>2, <2>1, ChangeKeepsWriter DEF OnAdd, Receive, Upsert
<1>3. ASSUME NEW k \in Kinds, OnUpdate(k) PROVE WriterInv'
  <2>1. Head(pending[k]).sink \in Sinks /\ Head(pending[k]).sink.kind = k
    BY <1>3, ReceiveType DEF OnUpdate, Receive
  <2>2. CASE Head(pending[k]).old # Head(pending[k]).new
    BY <1>3, <2>1, <2>2, ChangeKeepsWriter DEF OnUpdate, Receive, Upsert
  <2>3. CASE Head(pending[k]).old = Head(pending[k]).new
    BY <1>1, <1>3, <2>3 DEF OnUpdate, Receive
  <2> QED
    BY <2>2, <2>3
<1>4. ASSUME NEW k \in Kinds, OnDelete(k) PROVE WriterInv'
  <2>1. Head(pending[k]).sink \in Sinks /\ Head(pending[k]).sink.kind = k
    BY <1>4, ReceiveType DEF OnDelete, Receive
  <2>2. CASE Head(pending[k]).type = "deleted"
    BY <1>4, <2>1, <2>2, ChangeKeepsWriter DEF OnDelete, Receive, Delete
  <2>3. CASE Head(pending[k]).type # "deleted"
    BY <1>1, <1>4, <2>3 DEF OnDelete, Receive
  <2> QED
    BY <2>2, <2>3
<1>5. ASSUME NEW k \in Kinds, Render(k) PROVE WriterInv'
  <2>1. /\ pc[k] = "render" /\ value' = [value EXCEPT ![k] = String(config)]
        /\ pc' = [pc EXCEPT ![k] = "patch"] /\ UNCHANGED <<config, cm, lastPatch>>
    BY <1>5 DEF Render
  <2> QED
    BY <2>1 DEF WriterInv, ValueOwn, LastWriterPublished, TypeOK, Procs
<1>6. ASSUME NEW p \in Procs, Patch(p) PROVE WriterInv'
  <2>1. /\ pc[p] = "patch" /\ cm' = Applied(p) /\ value' = Sent(p)
        /\ pc' = [pc EXCEPT ![p] = "restart"] /\ UNCHANGED config
        /\ lastPatch' = IF p = "main" THEN lastPatch ELSE p
    BY <1>6 DEF Patch
  <2>2. CASE p = "main"
    BY <2>1, <2>2 DEF WriterInv, ValueOwn, LastWriterPublished, TypeOK, Procs, Kinds, Applied, Sent
  <2>3. CASE p \in Kinds
    <3>1. cm'.outputs = value[p] /\ lastPatch' = p /\ "main" \notin Kinds
      BY <2>1, <2>3 DEF Applied, Kinds
    <3>2. \A j \in Kinds : pc'[j] = IF j = p THEN "restart" ELSE pc[j]
      BY <2>1 DEF TypeOK, Procs
    <3>3. \A j \in Kinds : j # p => value'[j] = value[j]
      BY <2>1, <2>3, <3>1 DEF Sent, TypeOK
    <3> QED
      BY <2>1, <2>3, <3>1, <3>2, <3>3 DEF WriterInv, ValueOwn, LastWriterPublished
  <2> QED
    BY <2>2, <2>3 DEF Procs
<1>7. ASSUME NEW p \in Procs, PatchFails(p) PROVE WriterInv'
  <2>1. /\ pc[p] = "patch" /\ UNCHANGED <<cm, config>> /\ value' = Sent(p)
        /\ pc' = [pc EXCEPT ![p] = "restart"]
        /\ lastPatch' = IF p = lastPatch THEN "none" ELSE lastPatch
    BY <1>7 DEF PatchFails
  <2>2. \A j \in Kinds : pc'[j] = IF j = p THEN "restart" ELSE pc[j]
    BY <2>1 DEF TypeOK, Procs
  <2>3. \A j \in Kinds : j # p => value'[j] = value[j]
    BY <2>1 DEF Sent, TypeOK
  <2>4. \A j \in Kinds : lastPatch' = j => j # p /\ lastPatch = j
    BY <2>1 DEF Kinds
  <2> QED
    BY <2>1, <2>2, <2>3, <2>4 DEF WriterInv, ValueOwn, LastWriterPublished
<1>8. ASSUME NEW p \in Procs, RestartPods(p) \/ RestartFails(p) PROVE WriterInv'
  <2>1. /\ pc[p] = "restart" /\ pc' = [pc EXCEPT ![p] = "idle"]
        /\ UNCHANGED <<config, value, cm, lastPatch>>
    BY <1>8 DEF RestartPods, RestartFails
  <2> QED
    BY <2>1 DEF WriterInv, ValueOwn, LastWriterPublished, TypeOK, Procs
<1>9. ASSUME SetClusterNameFilter PROVE WriterInv'
  <2>1. \A j \in Kinds : pc'[j] = pc[j]
    BY <1>9 DEF SetClusterNameFilter, TypeOK, Procs, Kinds
  <2> QED
    BY <1>9, <2>1 DEF SetClusterNameFilter, WriterInv, ValueOwn, LastWriterPublished
<1>10. ASSUME Crash PROVE WriterInv'
  BY <1>10 DEF Crash, WriterInv, ValueOwn, LastWriterPublished, Kinds, Procs
<1> QED
  BY <1>1, <1>2, <1>3, <1>4, <1>5, <1>6, <1>7, <1>8, <1>9, <1>10
     DEF Next, System, vars, SetSink, Watch, RelistDeleted, Resync, StartPod, LosePod

\* Whatever the interleaving, once a handler has patched and until it changes
\* the Config again or the other handler patches, the ConfigMap shows exactly
\* the sinks of its kind that the Config holds.
THEOREM LastWriter == Spec => []LastWriterPublished
<1>1. Init => WriterInv
  BY DEF Init, WriterInv, ValueOwn, LastWriterPublished, Kinds, Procs
<1>2. WriterInv => LastWriterPublished
  BY DEF WriterInv
<1> QED
  BY <1>1, <1>2, WriterStep, TypeCorrect, PTL DEF Spec

-----------------------------------------------------------------------------
(***************************************************************************)
(* Isolation of namespaces.                                                *)
(***************************************************************************)

\* A section printed for a sink matches only records that sink may see.
LEMMA OutputIsolated ==
  ASSUME NEW s \in Sinks, NEW v \in Specs, NEW ns, ns # "", Receives(Output(s, v), ns)
  PROVE  s \in MayReceive(ns)
<1>1. CASE s.kind = "ClusterLogSink"
  BY <1>1 DEF MayReceive
<1>2. CASE s.kind = "LogSink"
  <2>1. s.ns # ""
    BY <1>2, SinksAssumption
  <2>2. CASE v.type = "syslog"
    <3>1. Output(s, v) = SyslogOutput(s, v)
      BY <2>2 DEF Output
    <3>2. SyslogOutput(s, v).plugin = "syslog" /\ SyslogOutput(s, v).namespace = s.ns
      BY <1>2, <2>1 DEF SyslogOutput, canonicalNamespace
    <3>3. s.ns = ns
      BY <2>1, <3>1, <3>2 DEF Receives
    <3> QED
      BY <3>3 DEF MayReceive
  <2>3. CASE v.type # "syslog"
    <3>1. Output(s, v) = buildHTTPConfig(s, v)
      BY <2>3 DEF Output
    <3>2. buildHTTPConfig(s, v).plugin = "http" /\ buildHTTPConfig(s, v).match = NamespaceTag(s.ns)
      BY <1>2 DEF buildHTTPConfig
    <3>3. NamespaceTag(s.ns) \in {AnyTag, NamespaceTag(ns)}
      BY <3>1, <3>2 DEF Receives
    <3>4. s.ns = ns
      BY <3>3 DEF AnyTag, NamespaceTag
    <3> QED
      BY <3>4 DEF MayReceive
  <2> QED
    BY <2>2, <2>3
<1> QED
  BY <1>1, <1>2, KindType DEF Kinds

\* In every reachable state, however old the configuration a pod still runs, it
\* sends no record to the LogSink of another namespace.
THEOREM Isolation == Spec => []NoCrosstalk
<1>1. TypeOK => NoCrosstalk
  <2> SUFFICES ASSUME TypeOK, NEW p \in Pods, pods[p] # Down, NEW ns \in Namespaces \ {""}
               PROVE  Receivers(pods[p].outputs, ns) \subseteq MayReceive(ns)
    BY DEF NoCrosstalk
  <2> DEFINE Fine(o) == Receives(o[2], ns) => o[1] \in MayReceive(ns)
  <2>1. pods[p].outputs \in SUBSET Sections
    BY DEF TypeOK, ConfigMap
  <2>2. ASSUME NEW m PROVE Fine(<<NoSink, [plugin |-> "null", match |-> m]>>)
    BY DEF Receives
  <2>3. ASSUME NEW s \in Sinks, NEW v \in Specs PROVE Fine(<<s, Output(s, v)>>)
    BY OutputIsolated
  <2> HIDE DEF Fine
  <2>4. \A o \in Sections : Fine(o)
    <3> SUFFICES ASSUME NEW o \in Sections PROVE Fine(o)
      OBVIOUS
    <3>1. CASE o \in UNION {{<<s, Output(s, v)>> : v \in Specs} : s \in Sinks}
      <4>1. PICK s \in Sinks, v \in Specs : o = <<s, Output(s, v)>>
        BY <3>1
      <4> QED
        BY <4>1, <2>3
    <3>2. CASE o \in nullConfig \cup initialOutputs
      BY <3>2, <2>2, Zenon DEF nullConfig, initialOutputs
    <3> QED
      BY <3>1, <3>2 DEF Sections
  <2> USE DEF Fine
  <2>5. \A o \in pods[p].outputs : Receives(o[2], ns) => o[1] \in MayReceive(ns)
    BY <2>1, <2>4
  <2> QED
    BY <2>5 DEF Receivers
<1> QED
  BY <1>1, TypeCorrect, PTL

-----------------------------------------------------------------------------
(***************************************************************************)
(* The Config and the informer's indexer.                                  *)
(*                                                                         *)
(* ConfigFollowsStore speaks of sinks with nothing pending.  The inductive *)
(* invariant says what pending notifications mean: those about a sink form *)
(* a chain from the Config's value to the indexer's, each one starting     *)
(* where the one before it ends, with a break only where a deletion was    *)
(* missed.  F is the set of faults met.                                    *)
(***************************************************************************)
Shown(c, v, F) == c = v \/ ("missed" \in F /\ v = Absent)

Silent(q, s) == \A i \in 1..Len(q) : q[i].sink # s

IsFirst(q, s, i) == q[i].sink = s /\ \A m \in 1..(i - 1) : q[m].sink # s

IsLast(q, s, i) == q[i].sink = s /\ \A m \in (i + 1)..Len(q) : q[m].sink # s

Adjacent(q, s, i, j) ==
  q[i].sink = s /\ q[j].sink = s /\ \A m \in (i + 1)..(j - 1) : q[m].sink # s

Chain(q, s, c, v, F) ==
  /\ Silent(q, s) => Shown(c, v, F)
  /\ \A i \in 1..Len(q) : IsFirst(q, s, i) => Shown(c, q[i].old, F)
  /\ \A i \in 1..Len(q) : IsLast(q, s, i) => q[i].new = v
  /\ \A i, j \in 1..Len(q) : i < j /\ Adjacent(q, s, i, j) => q[j].old = q[i].new

NoteOK(n, F) ==
  /\ n.type = "update" => n.old # Absent
  /\ n.type \in {"deleted", "unknown"} => n.new = Absent
  /\ n.type = "unknown" => "missed" \in F

ChainInv ==
  /\ \A s \in Sinks : Chain(pending[s.kind], s, config[s], store[s], faults)
  /\ \A k \in Kinds : \A i \in 1..Len(pending[k]) : NoteOK(pending[k][i], faults)

\* A notification about s that starts where the indexer was extends s's chain.
LEMMA ChainAppend ==
  ASSUME NEW q \in Seq(Notification), NEW n \in Notification, NEW s \in Sinks,
         NEW c, NEW v, NEW F, Chain(q, s, c, v, F), n.sink = s, n.old = v
  PROVE  Chain(Append(q, n), s, c, n.new, F)
<1> DEFINE r == Append(q, n)
<1>1. /\ Len(q) \in Nat /\ Len(r) = Len(q) + 1 /\ r[Len(q) + 1] = n
      /\ \A i \in 1..Len(q) : r[i] = q[i]
  BY AppendNote
<1> HIDE DEF r
<1>2. ~Silent(r, s)
  BY <1>1 DEF Silent
<1>3. ASSUME NEW i \in 1..Len(r), IsFirst(r, s, i) PROVE Shown(c, r[i].old, F)
  <2>1. CASE i \in 1..Len(q)
    <3>1. IsFirst(q, s, i)
      BY <1>1, <1>3, <2>1 DEF IsFirst
    <3> QED
      BY <3>1, <1>1, <2>1 DEF Chain
  <2>2. CASE i = Len(q) + 1
    <3>1. Silent(q, s)
      BY <1>1, <1>3, <2>2 DEF IsFirst, Silent
    <3> QED
      BY <3>1, <1>1, <2>2 DEF Chain
  <2> QED
    BY <1>1, <2>1, <2>2
<1>4. ASSUME NEW i \in 1..Len(r), IsLast(r, s, i) PROVE r[i].new = n.new
  <2>1. i = Len(q) + 1
    BY <1>1, <1>4 DEF IsLast
  <2> QED
    BY <1>1, <2>1
<1>5. ASSUME NEW i \in 1..Len(r), NEW j \in 1..Len(r), i < j, Adjacent(r, s, i, j)
      PROVE  r[j].old = r[i].new
  <2>1. i \in 1..Len(q)
    BY <1>1, <1>5
  <2>2. CASE j \in 1..Len(q)
    <3>1. Adjacent(q, s, i, j)
      BY <1>1, <1>5, <2>1, <2>2 DEF Adjacent
    <3> QED
      BY <3>1, <1>1, <1>5, <2>1, <2>2 DEF Chain
  <2>3. CASE j = Len(q) + 1
    <3>1. IsLast(q, s, i)
      BY <1>1, <1>5, <2>1, <2>3 DEF Adjacent, IsLast
    <3> QED
      BY <3>1, <1>1, <2>1, <2>3 DEF Chain
  <2> QED
    BY <1>1, <2>2, <2>3
<1>6. Chain(r, s, c, n.new, F)
  BY <1>2, <1>3, <1>4, <1>5 DEF Chain
<1> QED
  BY <1>6 DEF r

\* A notification about another sink leaves s's chain alone.
LEMMA ChainAppendOther ==
  ASSUME NEW q \in Seq(Notification), NEW n \in Notification, NEW s \in Sinks,
         NEW c, NEW v, NEW F, Chain(q, s, c, v, F), n.sink # s
  PROVE  Chain(Append(q, n), s, c, v, F)
<1> DEFINE r == Append(q, n)
<1>1. /\ Len(q) \in Nat /\ Len(r) = Len(q) + 1 /\ r[Len(q) + 1] = n
      /\ \A i \in 1..Len(q) : r[i] = q[i]
  BY AppendNote
<1> HIDE DEF r
<1>2. Silent(r, s) => Silent(q, s)
  BY <1>1 DEF Silent
<1>3. \A i \in 1..Len(r) : r[i].sink = s => i \in 1..Len(q)
  BY <1>1
<1>4. \A i \in 1..Len(q) : IsFirst(r, s, i) => IsFirst(q, s, i)
  BY <1>1 DEF IsFirst
<1>5. \A i \in 1..Len(q) : IsLast(r, s, i) => IsLast(q, s, i)
  BY <1>1 DEF IsLast
<1>6. \A i, j \in 1..Len(q) : i < j /\ Adjacent(r, s, i, j) => Adjacent(q, s, i, j)
  BY <1>1 DEF Adjacent
<1>7. Chain(r, s, c, v, F)
  <2>1. \A i \in 1..Len(r) : IsFirst(r, s, i) => Shown(c, r[i].old, F)
    BY <1>1, <1>3, <1>4 DEF Chain, IsFirst
  <2>2. \A i \in 1..Len(r) : IsLast(r, s, i) => r[i].new = v
    BY <1>1, <1>3, <1>5 DEF Chain, IsLast
  <2>3. \A i, j \in 1..Len(r) : i < j /\ Adjacent(r, s, i, j) => r[j].old = r[i].new
    BY <1>1, <1>3, <1>6 DEF Chain, Adjacent
  <2> QED
    BY <1>2, <2>1, <2>2, <2>3 DEF Chain
<1> QED
  BY <1>7 DEF r

\* The handler takes the first notification about s and the Config shows its
\* new value: the rest of the chain starts there.
LEMMA ChainTail ==
  ASSUME NEW q \in Seq(Notification), q # <<>>, NEW s \in Sinks,
         NEW c, NEW d, NEW v, NEW F, Chain(q, s, c, v, F),
         Head(q).sink = s, Shown(d, Head(q).new, F)
  PROVE  Chain(Tail(q), s, d, v, F)
<1> DEFINE r == Tail(q)
<1>1. /\ Len(q) \in Nat /\ Len(q) >= 1 /\ Len(r) = Len(q) - 1 /\ Head(q) = q[1]
      /\ \A i \in 1..Len(r) : r[i] = q[i + 1]
  BY TailNote
<1> HIDE DEF r
<1>2. ASSUME Silent(r, s) PROVE Shown(d, v, F)
  <2>1. ASSUME NEW m \in 2..Len(q) PROVE q[m].sink # s
    <3>1. m - 1 \in 1..Len(r) /\ r[m - 1] = q[m]
      BY <1>1
    <3> QED
      BY <3>1, <1>2 DEF Silent
  <2>2. IsLast(q, s, 1)
    BY <1>1, <2>1 DEF IsLast
  <2>3. q[1].new = v
    BY <1>1, <2>2 DEF Chain
  <2> QED
    BY <1>1, <2>3
<1>3. ASSUME NEW i \in 1..Len(r), IsFirst(r, s, i) PROVE Shown(d, r[i].old, F)
  <2>1. i + 1 \in 1..Len(q) /\ 1 \in 1..Len(q) /\ r[i] = q[i + 1] /\ 1 < i + 1
    BY <1>1
  <2>2. ASSUME NEW m \in 2..i PROVE q[m].sink # s
    <3>1. m - 1 \in 1..(i - 1) /\ m - 1 \in 1..Len(r) /\ r[m - 1] = q[m]
      BY <1>1
    <3> QED
      BY <3>1, <1>3 DEF IsFirst
  <2>3. Adjacent(q, s, 1, i + 1)
    BY <1>1, <1>3, <2>1, <2>2 DEF Adjacent, IsFirst
  <2>4. q[i + 1].old = q[1].new
    BY <2>1, <2>3 DEF Chain
  <2> QED
    BY <1>1, <2>1, <2>4
<1>4. ASSUME NEW i \in 1..Len(r), IsLast(r, s, i) PROVE r[i].new = v
  <2>1. i + 1 \in 1..Len(q) /\ r[i] = q[i + 1]
    BY <1>1
  <2>2. ASSUME NEW m \in (i + 2)..Len(q) PROVE q[m].sink # s
    <3>1. m - 1 \in (i + 1)..Len(r) /\ m - 1 \in 1..Len(r) /\ r[m - 1] = q[m]
      BY <1>1
    <3> QED
      BY <3>1, <1>4 DEF IsLast
  <2>3. IsLast(q, s, i + 1)
    BY <1>4, <2>1, <2>2 DEF IsLast
  <2> QED
    BY <2>1, <2>3 DEF Chain
<1>5. ASSUME NEW i \in 1..Len(r), NEW j \in 1..Len(r), i < j, Adjacent(r, s, i, j)
      PROVE  r[j].old = r[i].new
  <2>1. /\ i + 1 \in 1..Len(q) /\ j + 1 \in 1..Len(q) /\ i + 1 < j + 1
        /\ r[i] = q[i + 1] /\ r[j] = q[j + 1]
    BY <1>1, <1>5
  <2>2. ASSUME NEW m \in (i + 2)..j PROVE q[m].sink # s
    <3>1. m - 1 \in (i + 1)..(j - 1) /\ m - 1 \in 1..Len(r) /\ r[m - 1] = q[m]
      BY <1>1
    <3> QED
      BY <3>1, <1>5 DEF Adjacent
  <2>3. Adjacent(q, s, i + 1, j + 1)
    BY <1>5, <2>1, <2>2 DEF Adjacent
  <2> QED
    BY <2>1, <2>3 DEF Chain
<1>6. Chain(r, s, d, v, F)
  BY <1>2, <1>3, <1>4, <1>5 DEF Chain
<1> QED
  BY <1>6 DEF r

\* Taking a notification about another sink leaves s's chain alone.
LEMMA ChainTailOther ==
  ASSUME NEW q \in Seq(Notification), q # <<>>, NEW s \in Sinks,
         NEW c, NEW v, NEW F, Chain(q, s, c, v, F), Head(q).sink # s
  PROVE  Chain(Tail(q), s, c, v, F)
<1> DEFINE r == Tail(q)
<1>1. /\ Len(q) \in Nat /\ Len(q) >= 1 /\ Len(r) = Len(q) - 1 /\ Head(q) = q[1]
      /\ \A i \in 1..Len(r) : r[i] = q[i + 1]
  BY TailNote
<1> HIDE DEF r
<1>2. ASSUME NEW m \in 1..Len(q), q[m].sink = s
      PROVE  m - 1 \in 1..Len(r) /\ r[m - 1] = q[m]
  BY <1>1, <1>2
<1>3. Silent(r, s) => Silent(q, s)
  BY <1>2 DEF Silent
<1>4. ASSUME NEW i \in 1..Len(r), IsFirst(r, s, i) PROVE Shown(c, r[i].old, F)
  <2>1. i + 1 \in 1..Len(q) /\ r[i] = q[i + 1]
    BY <1>1
  <2>2. ASSUME NEW m \in 1..i PROVE q[m].sink # s
    <3>1. CASE m = 1
      BY <1>1, <3>1
    <3>2. CASE m # 1
      <4>1. m - 1 \in 1..(i - 1) /\ r[m - 1] = q[m]
        BY <1>1, <3>2
      <4> QED
        BY <4>1, <1>4 DEF IsFirst
    <3> QED
      BY <3>1, <3>2
  <2>3. IsFirst(q, s, i + 1)
    BY <1>4, <2>1, <2>2 DEF IsFirst
  <2> QED
    BY <2>1, <2>3 DEF Chain
<1>5. ASSUME NEW i \in 1..Len(r), IsLast(r, s, i) PROVE r[i].new = v
  <2>1. i + 1 \in 1..Len(q) /\ r[i] = q[i + 1]
    BY <1>1
  <2>2. ASSUME NEW m \in (i + 2)..Len(q) PROVE q[m].sink # s
    <3>1. m - 1 \in (i + 1)..Len(r) /\ r[m - 1] = q[m]
      BY <1>1
    <3> QED
      BY <3>1, <1>5 DEF IsLast
  <2>3. IsLast(q, s, i + 1)
    BY <1>5, <2>1, <2>2 DEF IsLast
  <2> QED
    BY <2>1, <2>3 DEF Chain
<1>6. ASSUME NEW i \in 1..Len(r), NEW j \in 1..Len(r), i < j, Adjacent(r, s, i, j)
      PROVE  r[j].old = r[i].new
  <2>1. /\ i + 1 \in 1..Len(q) /\ j + 1 \in 1..Len(q) /\ i + 1 < j + 1
        /\ r[i] = q[i + 1] /\ r[j] = q[j + 1]
    BY <1>1, <1>6
  <2>2. ASSUME NEW m \in (i + 2)..j PROVE q[m].sink # s
    <3>1. m - 1 \in (i + 1)..(j - 1) /\ r[m - 1] = q[m]
      BY <1>1
    <3> QED
      BY <3>1, <1>6 DEF Adjacent
  <2>3. Adjacent(q, s, i + 1, j + 1)
    BY <1>6, <2>1, <2>2 DEF Adjacent
  <2> QED
    BY <2>1, <2>3 DEF Chain
<1>7. Chain(r, s, c, v, F)
  BY <1>3, <1>4, <1>5, <1>6 DEF Chain
<1> QED
  BY <1>7 DEF r

\* Meeting another fault keeps what was shown and what is pending in order.
LEMMA ChainMoreFaults ==
  ASSUME NEW q, NEW s, NEW c, NEW v, NEW F, NEW G, F \subseteq G, Chain(q, s, c, v, F)
  PROVE  Chain(q, s, c, v, G)
  BY DEF Chain, Shown

\* An informer queues a notification about s that starts at the indexer's
\* value and ends at the value the indexer gets.
LEMMA EnqueueKeepsChain ==
  ASSUME TypeOK, ChainInv, NEW s \in Sinks, NEW n \in Notification,
         n.sink = s, n.old = store[s], NoteOK(n, faults'),
         pending' = [pending EXCEPT ![s.kind] = Append(@, n)],
         store' = [store EXCEPT ![s] = n.new],
         faults \subseteq faults', UNCHANGED config
  PROVE  ChainInv'
<1>1. s.kind \in Kinds /\ pending[s.kind] \in Seq(Notification)
  BY KindType DEF TypeOK
<1>2. ASSUME NEW x \in Sinks
      PROVE  Chain(pending'[x.kind], x, config'[x], store'[x], faults')
  <2>1. x.kind \in Kinds /\ Chain(pending[x.kind], x, config[x], store[x], faults')
    BY ChainMoreFaults, KindType DEF ChainInv
  <2>2. CASE x = s
    <3>1. pending'[x.kind] = Append(pending[x.kind], n) /\ store'[x] = n.new
      BY <1>1, <2>2 DEF TypeOK
    <3> QED
      BY <1>1, <2>1, <2>2, <3>1, ChainAppend
  <2>3. CASE x # s /\ x.kind = s.kind
    <3>1. pending'[x.kind] = Append(pending[x.kind], n) /\ store'[x] = store[x]
      BY <1>1, <2>3 DEF TypeOK
    <3> QED
      BY <1>1, <2>1, <2>3, <3>1, ChainAppendOther
  <2>4. CASE x.kind # s.kind
    <3>1. pending'[x.kind] = pending[x.kind] /\ store'[x] = store[x]
      BY <2>1, <2>4 DEF TypeOK
    <3> QED
      BY <2>1, <3>1
  <2> QED
    BY <2>2, <2>3, <2>4
<1>3. ASSUME NEW k \in Kinds, NEW i \in 1..Len(pending'[k])
      PROVE  NoteOK(pending'[k][i], faults')
  <2>1. CASE k # s.kind
    BY <2>1, <1>1 DEF TypeOK, ChainInv, NoteOK
  <2>2. CASE k = s.kind
    <3>1. pending'[k] = Append(pending[k], n)
      BY <1>1, <2>2 DEF TypeOK
    <3>2. /\ i \in 1..Len(pending[k]) \/ i = Len(pending[k]) + 1
          /\ \A m \in 1..Len(pending[k]) : pending'[k][m] = pending[k][m]
          /\ pending'[k][Len(pending[k]) + 1] = n
      BY <1>1, <2>2, <3>1, AppendNote
    <3>3. CASE i \in 1..Len(pending[k])
      BY <3>2, <3>3 DEF ChainInv, NoteOK
    <3> QED
      BY <3>2, <3>3
  <2> QED
    BY <2>1, <2>2
<1> QED
  BY <1>2, <1>3 DEF ChainInv

\* A handler takes its first notification, and the Config then shows the
\* notification's new value.
LEMMA ReceiveKeepsChain ==
  ASSUME TypeOK, ChainInv, NEW k \in Kinds, pending[k] # <<>>,
         pending' = [pending EXCEPT ![k] = Tail(@)],
         NEW s \in Sinks, s = Head(pending[k]).sink,
         config' \in [Sinks -> Specs \cup {Absent}],
         \A x \in Sinks : x # s => config'[x] = config[x],
         Shown(config'[s], Head(pending[k]).new, faults),
         UNCHANGED <<store, faults>>
  PROVE  ChainInv'
<1>1. pending[k] \in Seq(Notification) /\ s.kind = k
  BY ReceiveType DEF TypeOK
<1>2. ASSUME NEW x \in Sinks
      PROVE  Chain(pending'[x.kind], x, config'[x], store'[x], faults')
  <2>1. x.kind \in Kinds /\ Chain(pending[x.kind], x, config[x], store[x], faults)
    BY KindType DEF ChainInv
  <2>2. CASE x = s
    <3>1. pending'[x.kind] = Tail(pending[k])
      BY <1>1, <2>2 DEF TypeOK
    <3> QED
      BY <1>1, <2>1, <2>2, <3>1, ChainTail
  <2>3. CASE x # s /\ x.kind = k
    <3>1. pending'[x.kind] = Tail(pending[k])
      BY <1>1, <2>3 DEF TypeOK
    <3> QED
      BY <1>1, <2>1, <2>3, <3>1, ChainTailOther
  <2>4. CASE x.kind # k
    <3>1. pending'[x.kind] = pending[x.kind] /\ config'[x] = config[x]
      BY <1>1, <2>1, <2>4 DEF TypeOK
    <3> QED
      BY <2>1, <3>1
  <2> QED
    BY <2>2, <2>3, <2>4
<1>3. ASSUME NEW j \in Kinds, NEW i \in 1..Len(pending'[j])
      PROVE  NoteOK(pending'[j][i], faults')
  <2>1. CASE j # k
    BY <2>1 DEF TypeOK, ChainInv
  <2>2. CASE j = k
    <3>1. /\ pending'[j] = Tail(pending[k]) /\ Len(pending[k]) \in Nat
          /\ Len(Tail(pending[k])) = Len(pending[k]) - 1
          /\ \A m \in 1..Len(Tail(pending[k])) : Tail(pending[k])[m] = pending[k][m + 1]
      BY <1>1, <2>2, TailNote DEF TypeOK
    <3>2. i \in 1..Len(Tail(pending[k]))
      BY <3>1
    <3>3. pending'[j][i] = pending[k][i + 1]
      BY <3>1, <3>2
    <3>4. i + 1 \in 1..Len(pending[k])
      BY <3>1, <3>2
    <3> QED
      BY <3>3, <3>4 DEF ChainInv
  <2> QED
    BY <2>1, <2>2
<1> QED
  BY <1>2, <1>3 DEF ChainInv

\* The first notification of a queue: what it says, and what the Config shows.
LEMMA HeadShown ==
  ASSUME TypeOK, ChainInv, NEW k \in Kinds, pending[k] # <<>>
  PROVE  /\ NoteOK(Head(pending[k]), faults)
         /\ Shown(config[Head(pending[k]).sink], Head(pending[k]).old, faults)
<1> DEFINE n == Head(pending[k])
<1>1. pending[k] \in Seq(Notification)
  BY DEF TypeOK
<1>2. Len(pending[k]) \in Nat /\ 1 \in 1..Len(pending[k]) /\ n = pending[k][1] /\ n \in Notification
  BY <1>1, TailNote
<1>3. n.sink \in Sinks /\ n.sink.kind = k
  BY <1>2 DEF TypeOK, Notification
<1>4. IsFirst(pending[k], n.sink, 1)
  BY <1>2 DEF IsFirst
<1>5. Shown(config[n.sink], pending[k][1].old, faults)
  BY <1>2, <1>3, <1>4 DEF ChainInv, Chain
<1> QED
  BY <1>2, <1>5 DEF ChainInv

\* Every step of the informers and the handlers keeps the chains.
LEMMA ChainStep == TypeOK /\ TypeOK' /\ ChainInv /\ [Next]_vars => ChainInv'
<1> SUFFICES ASSUME TypeOK, TypeOK', ChainInv, [Next]_vars PROVE ChainInv'
  OBVIOUS
<1>1. ASSUME UNCHANGED <<store, pending, config>>, faults \subseteq faults' PROVE ChainInv'
  <2>1. \A x \in Sinks : Chain(pending[x.kind], x, config[x], store[x], faults')
    BY <1>1, ChainMoreFaults DEF ChainInv
  <2> QED
    BY <1>1, <2>1 DEF ChainInv, NoteOK
<1>2. ASSUME NEW s \in Sinks, Watch(s) PROVE ChainInv'
  <2> DEFINE n == Note(ChangeType(s), s)
  <2>1. n \in Notification /\ n.sink = s /\ n.old = store[s] /\ n.new = api[s]
    BY DEF TypeOK, Note, ChangeType, Notification
  <2>2. NoteOK(n, faults')
    BY DEF NoteOK, Note, ChangeType
  <2>3. /\ pending' = [pending EXCEPT ![s.kind] = Append(@, n)]
        /\ store' = [store EXCEPT ![s] = n.new] /\ UNCHANGED <<config, faults>>
    BY <1>2, <2>1 DEF Watch
  <2> HIDE DEF n
  <2> QED
    BY <2>1, <2>2, <2>3, EnqueueKeepsChain
<1>3. ASSUME NEW s \in Sinks, RelistDeleted(s) PROVE ChainInv'
  <2> DEFINE n == Note("unknown", s)
  <2>1. n \in Notification /\ n.sink = s /\ n.old = store[s] /\ n.new = Absent
    BY <1>3 DEF TypeOK, Note, Notification, RelistDeleted
  <2>2. NoteOK(n, faults')
    BY <1>3 DEF NoteOK, Note, RelistDeleted
  <2>3. /\ pending' = [pending EXCEPT ![s.kind] = Append(@, n)]
        /\ store' = [store EXCEPT ![s] = n.new] /\ UNCHANGED config /\ faults \subseteq faults'
    BY <1>3, <2>1 DEF RelistDeleted
  <2> HIDE DEF n
  <2> QED
    BY <2>1, <2>2, <2>3, EnqueueKeepsChain
<1>4. ASSUME NEW s \in Sinks, Resync(s) PROVE ChainInv'
  <2> DEFINE n == [type |-> "update", sink |-> s, old |-> store[s], new |-> store[s]]
  <2>1. n \in Notification /\ n.sink = s /\ n.old = store[s] /\ n.new = store[s]
    BY DEF TypeOK, Notification
  <2>2. NoteOK(n, faults')
    BY <1>4 DEF NoteOK, Resync
  <2>3. /\ pending' = [pending EXCEPT ![s.kind] = Append(@, n)]
        /\ store' = [store EXCEPT ![s] = n.new] /\ UNCHANGED <<config, faults>>
    BY <1>4, <2>1 DEF Resync, TypeOK
  <2> HIDE DEF n
  <2> QED
    BY <2>1, <2>2, <2>3, EnqueueKeepsChain
<1>5. ASSUME NEW k \in Kinds, OnAdd(k) \/ OnUpdate(k) \/ OnDelete(k) PROVE ChainInv'
  <2> DEFINE n == Head(pending[k])
  <2>1. /\ pending[k] # <<>> /\ pending' = [pending EXCEPT ![k] = Tail(@)]
        /\ UNCHANGED <<store, faults>>
    BY <1>5 DEF OnAdd, OnUpdate, OnDelete, Receive
  <2>2. n \in Notification /\ n.sink \in Sinks
    BY <2>1, ReceiveType
  <2>3. config' \in [Sinks -> Specs \cup {Absent}] /\ config \in [Sinks -> Specs \cup {Absent}]
    BY DEF TypeOK
  <2>4. \A x \in Sinks : x # n.sink => config'[x] = config[x]
    BY <1>5, <2>2, <2>3 DEF OnAdd, OnUpdate, OnDelete, Upsert, Delete
  <2>5. NoteOK(n, faults) /\ Shown(config[n.sink], n.old, faults)
    BY <2>1, HeadShown
  <2>6. Shown(config'[n.sink], n.new, faults)
    <3>1. CASE OnAdd(k)
      BY <3>1, <2>2, <2>3 DEF OnAdd, Upsert, Shown
    <3>2. CASE OnUpdate(k)
      <4>1. CASE n.old # n.new
        BY <3>2, <4>1, <2>2, <2>3 DEF OnUpdate, Upsert, Shown
      <4>2. CASE n.old = n.new
        BY <3>2, <4>2, <2>5 DEF OnUpdate, Receive, NoteOK, Shown
      <4> QED
        BY <4>1, <4>2
    <3>3. CASE OnDelete(k)
      <4>1. CASE n.type = "deleted"
        BY <3>3, <4>1, <2>2, <2>3, <2>5 DEF OnDelete, Delete, NoteOK, Shown
      <4>2. CASE n.type = "unknown"
        BY <3>3, <4>2, <2>5 DEF OnDelete, NoteOK, Shown
      <4> QED
        BY <3>3, <4>1, <4>2 DEF OnDelete, Receive
    <3> QED
      BY <1>5, <3>1, <3>2, <3>3
  <2> HIDE DEF n
  <2> QED
    BY <2>1, <2>2, <2>3, <2>4, <2>6, ReceiveKeepsChain DEF n
<1>6. ASSUME Crash PROVE ChainInv'
  <2>1. \A k \in Kinds : Len(pending'[k]) = 0
    BY <1>6 DEF Crash
  <2>2. \A x \in Sinks : config'[x] = Absent /\ store'[x] = Absent /\ x.kind \in Kinds
    BY <1>6, KindType DEF Crash, EmptyConfig
  <2> QED
    BY <2>1, <2>2 DEF ChainInv, Chain, Shown
<1> QED
  BY <1>1, <1>2, <1>3, <1>4, <1>5, <1>6
     DEF Next, System, vars, SetSink, Render, Patch, PatchFails, RestartPods, RestartFails,
         SetClusterNameFilter, StartPod, LosePod

\* Whatever the order of changes, resyncs, re-lists and crashes, a Config entry
\* about which no notification is pending equals the indexer's, except for
\* sinks whose deletion the watch missed.
THEOREM ConfigFollows == Spec => []ConfigFollowsStore
<1>1. Init => ChainInv
  <2> SUFFICES ASSUME Init PROVE ChainInv
    OBVIOUS
  <2>1. \A k \in Kinds : Len(pending[k]) = 0
    BY DEF Init
  <2>2. \A x \in Sinks : config[x] = Absent /\ store[x] = Absent /\ x.kind \in Kinds
    BY KindType DEF Init, EmptyConfig
  <2> QED
    BY <2>1, <2>2 DEF ChainInv, Chain, Shown
<1>2. ChainInv => ConfigFollowsStore
  BY DEF ChainInv, Chain, ConfigFollowsStore, Settled, Silent, Shown
<1> QED
  BY <1>1, <1>2, ChainStep, TypeCorrect, PTL DEF Spec

-----------------------------------------------------------------------------
(***************************************************************************)
(* A handler that is alone.  The race between the two handlers (run        *)
(* logsink_race) needs sinks of both kinds.  When all sinks are of one     *)
(* kind k, the other handler never leaves "idle", so that nothing comes    *)
(* between k's String() and its patch: what it sends is its present        *)
(* Config, and what it has sent is in the ConfigMap.  A crash is the       *)
(* exception: it empties the Config and leaves the ConfigMap, until the    *)
(* first OnAdd.                                                            *)
(***************************************************************************)
SoleInv(k) ==
  /\ \A j \in Kinds \ {k} : pc[j] = "idle"
  /\ pc[k] = "patch" => value[k] = String(config)
  /\ "patch" \notin faults /\ pc[k] \notin {"render", "patch"} =>
       \/ SinkSections(cm.outputs) = SinkSections(String(config))
       \/ "crash" \in faults /\ Present(config) = {}

\* The handler of the other kind receives nothing.
LEMMA OnlyHandler ==
  ASSUME NEW k \in Kinds, \A s \in Sinks : s.kind = k, TypeOK,
         NEW j \in Kinds, OnAdd(j) \/ OnUpdate(j) \/ OnDelete(j)
  PROVE  j = k
<1>1. Head(pending[j]).sink \in Sinks /\ Head(pending[j]).sink.kind = j
  BY ReceiveType DEF OnAdd, OnUpdate, OnDelete, Receive
<1> QED
  BY <1>1

\* A handler receives a notification: it changes one entry of the Config and
\* goes on to render it, or does nothing.
LEMMA HandlerStep ==
  ASSUME TypeOK, NEW k \in Kinds, OnAdd(k) \/ OnUpdate(k) \/ OnDelete(k)
  PROVE  /\ pc[k] = "idle"
         /\ UNCHANGED <<value, cm, faults>>
         /\ \/ UNCHANGED <<config, pc>>
            \/ /\ pc' = [pc EXCEPT ![k] = "render"]
               /\ \E s \in Sinks, v \in Specs \cup {Absent} : config' = [config EXCEPT ![s] = v]
<1>1. pc[k] = "idle" /\ UNCHANGED <<value, cm, faults>>
  BY DEF OnAdd, OnUpdate, OnDelete, Receive
<1>2. Head(pending[k]) \in Notification
  BY ReceiveType DEF OnAdd, OnUpdate, OnDelete, Receive
<1>3. Head(pending[k]).sink \in Sinks /\ Head(pending[k]).new \in Specs \cup {Absent}
  BY <1>2 DEF Notification
<1>4. \/ UNCHANGED <<config, pc>>
      \/ /\ pc' = [pc EXCEPT ![k] = "render"]
         /\ \/ config' = [config EXCEPT ![Head(pending[k]).sink] = Head(pending[k]).new]
            \/ config' = [config EXCEPT ![Head(pending[k]).sink] = Absent]
  BY DEF OnAdd, OnUpdate, OnDelete, Upsert, Delete
<1> QED
  BY <1>1, <1>3, <1>4

\* Every step keeps the invariant of a handler that is alone.
LEMMA SoleStep ==
  ASSUME NEW k \in Kinds, \A s \in Sinks : s.kind = k
  PROVE  TypeOK /\ SoleInv(k) /\ [Next]_vars => SoleInv(k)'
<1> SUFFICES ASSUME TypeOK, SoleInv(k), [Next]_vars PROVE SoleInv(k)'
  OBVIOUS
<1>1. k \in Procs /\ k # "main" /\ pc \in [Procs -> {"boot", "idle", "render", "patch", "restart"}]
  BY DEF TypeOK, Procs, Kinds
<1>2. ASSUME UNCHANGED <<config, value, cm>>, \A j \in Kinds : pc'[j] = pc[j], faults \subseteq faults'
      PROVE  SoleInv(k)'
  BY <1>2 DEF SoleInv
<1>3. ASSUME NEW j \in Kinds, OnAdd(j) \/ OnUpdate(j) \/ OnDelete(j) PROVE SoleInv(k)'
  <2>1. j = k
    BY <1>3, OnlyHandler
  <2>2. /\ UNCHANGED <<value, cm, faults>>
        /\ UNCHANGED <<config, pc>> \/ pc' = [pc EXCEPT ![k] = "render"]
    BY <1>3, <2>1, HandlerStep
  <2>3. CASE UNCHANGED <<config, pc>>
    BY <1>2, <2>2, <2>3
  <2>4. CASE pc' = [pc EXCEPT ![k] = "render"]
    <3>1. pc'[k] = "render" /\ \A i \in Kinds \ {k} : pc'[i] = pc[i]
      BY <1>1, <2>4 DEF Procs
    <3> QED
      BY <3>1 DEF SoleInv
  <2> QED
    BY <2>2, <2>3, <2>4
<1>4. ASSUME NEW j \in Kinds, Render(j) PROVE SoleInv(k)'
  <2>1. j = k
    BY <1>4 DEF Render, SoleInv
  <2>2. /\ pc'[k] = "patch" /\ \A i \in Kinds \ {k} : pc'[i] = pc[i]
        /\ value'[k] = String(config) /\ config' = config
    BY <1>1, <1>4, <2>1 DEF Render, TypeOK, Procs
  <2> QED
    BY <2>2 DEF SoleInv
<1>5. ASSUME NEW p \in Procs, Patch(p) PROVE SoleInv(k)'
  <2>1. pc[p] = "patch" /\ pc' = [pc EXCEPT ![p] = "restart"] /\ UNCHANGED <<config, faults>>
        /\ cm' = Applied(p) /\ value' = Sent(p)
    BY <1>5 DEF Patch
  <2>2. CASE p = "main"
    <3>1. cm'.outputs = cm.outputs /\ value' = value /\ \A j \in Kinds : pc'[j] = pc[j]
      BY <1>1, <2>1, <2>2 DEF Applied, Sent, Procs, Kinds
    <3> QED
      BY <2>1, <3>1 DEF SoleInv
  <2>3. CASE p # "main"
    <3>1. p = k
      BY <2>1, <2>3 DEF SoleInv, Procs
    <3>2. cm'.outputs = value[k]
      BY <1>1, <2>1, <3>1 DEF Applied
    <3>3. pc'[k] = "restart" /\ \A i \in Kinds \ {k} : pc'[i] = pc[i]
      BY <1>1, <2>1, <3>1 DEF Procs
    <3> QED
      BY <2>1, <3>1, <3>2, <3>3 DEF SoleInv
  <2> QED
    BY <2>2, <2>3
<1>6. ASSUME NEW p \in Procs, PatchFails(p) PROVE SoleInv(k)'
  <2>1. /\ pc[p] = "patch" /\ pc' = [pc EXCEPT ![p] = "restart"] /\ config' = config
        /\ faults' = faults \cup {"patch"} /\ value' = Sent(p)
    BY <1>6 DEF PatchFails
  <2>2. p = "main" \/ p = k
    BY <2>1 DEF SoleInv, Procs
  <2>3. \A i \in Kinds \ {k} : pc'[i] = pc[i]
    BY <1>1, <2>1, <2>2 DEF Procs, Kinds
  <2>4. pc'[k] = "patch" => pc[k] = "patch" /\ value' = value
    BY <1>1, <2>1, <2>2 DEF Sent
  <2> QED
    BY <2>1, <2>3, <2>4 DEF SoleInv
<1>7. ASSUME NEW p \in Procs, RestartPods(p) \/ RestartFails(p) PROVE SoleInv(k)'
  <2>1. /\ pc[p] = "restart" /\ pc' = [pc EXCEPT ![p] = "idle"]
        /\ UNCHANGED <<config, value, cm>> /\ faults \subseteq faults'
        /\ "patch" \in faults' => "patch" \in faults
    BY <1>7 DEF RestartPods, RestartFails
  <2>2. \A i \in Kinds : pc'[i] = pc[i] \/ (pc[i] = "restart" /\ pc'[i] = "idle")
    BY <1>1, <2>1 DEF Procs
  <2> QED
    BY <2>1, <2>2 DEF SoleInv
<1>8. ASSUME SetClusterNameFilter PROVE SoleInv(k)'
  <2>1. \A j \in Kinds : pc'[j] = pc[j]
    BY <1>1, <1>8 DEF SetClusterNameFilter, Procs, Kinds
  <2> QED
    BY <1>2, <1>8, <2>1 DEF SetClusterNameFilter
<1>9. ASSUME Crash PROVE SoleInv(k)'
  <2>1. \A j \in Kinds : pc'[j] = "idle"
    BY <1>9 DEF Crash, Procs, Kinds
  <2>2. Present(config') = {} /\ "crash" \in faults'
    BY <1>9 DEF Crash, Present, EmptyConfig
  <2> QED
    BY <2>1, <2>2 DEF SoleInv
<1>10. ASSUME NEW s \in Sinks, RelistDeleted(s) PROVE SoleInv(k)'
  BY <1>2, <1>10 DEF RelistDeleted
<1>11. ASSUME UNCHANGED <<config, pc, value, cm, faults>> PROVE SoleInv(k)'
  BY <1>2, <1>11
<1> QED
  BY <1>3, <1>4, <1>5, <1>6, <1>7, <1>8, <1>9, <1>10, <1>11
     DEF Next, System, vars, SetSink, Watch, Resync, StartPod, LosePod

\* The invariant of a handler that is alone holds throughout.
LEMMA Sole ==
  ASSUME NEW k \in Kinds, \A s \in Sinks : s.kind = k
  PROVE  Spec => []SoleInv(k)
<1>1. Init => SoleInv(k)
  <2> SUFFICES ASSUME Init PROVE SoleInv(k)
    OBVIOUS
  <2>1. \A j \in Kinds : pc[j] = "idle"
    BY DEF Init, Procs, Kinds
  <2>2. SinkSections(initialOutputs) = {}
    BY DEF SinkSections, initialOutputs
  <2>3. cm.outputs = initialOutputs
    BY DEF Init
  <2>4. Present(config) = {}
    BY DEF Init, EmptyConfig, Present
  <2>5. SinkSections(String(config)) = {}
    BY <2>4 DEF SinkSections, String, nullConfig
  <2> QED
    BY <2>1, <2>2, <2>3, <2>5 DEF SoleInv
<1>2. TypeOK /\ SoleInv(k) /\ [Next]_vars => SoleInv(k)'
  BY SoleStep
<1> QED
  BY <1>1, <1>2, TypeCorrect, PTL DEF Spec

\* When all is quiet and no deletion was missed, the Config is what the API
\* server stores.
LEMMA QuietConfig ==
  ASSUME TypeOK, ConfigFollowsStore, "missed" \notin faults, Quiet
  PROVE  config = api
<1>1. \A s \in Sinks : Settled(s)
  <2>1. \A j \in Kinds : Len(pending[j]) = 0
    BY DEF Quiet
  <2> QED
    BY <2>1, KindType DEF Settled
<1>2. \A s \in Sinks : config[s] = api[s]
  BY <1>1 DEF ConfigFollowsStore, Quiet
<1> QED
  BY <1>2 DEF TypeOK

\* With sinks of one kind the controller achieves its purpose: when all is
\* quiet the ConfigMap holds the sections of exactly the sinks the API server
\* stores, unless a patch was refused or a deletion missed, and after crashes
\* if a sink is left.
THEOREM SoleHandlerRecovers ==
  ASSUME NEW k \in Kinds, \A s \in Sinks : s.kind = k
  PROVE  Spec => []OutputsRecovered
<1>1. TypeOK /\ ConfigFollowsStore /\ SoleInv(k) => OutputsRecovered
  <2> SUFFICES ASSUME TypeOK, ConfigFollowsStore, SoleInv(k),
                      faults \cap {"patch", "missed"} = {},
                      "crash" \in faults => Present(api) # {},
                      Quiet
               PROVE  SinkSections(cm.outputs) = SinkSections(String(api))
    BY DEF OutputsRecovered, OutputsMatchApi
  <2>1. config = api
    BY QuietConfig
  <2> QED
    BY <2>1 DEF SoleInv, Quiet
<1>2. Spec => []SoleInv(k)
  BY Sole
<1> QED
  BY <1>1, <1>2, ConfigFollows, TypeCorrect, PTL

-----------------------------------------------------------------------------
(***************************************************************************)
(* What would close the race.  The Config's mutex is given up between      *)
(* String() and the patch of its result.  Suppose a lock were held from    *)
(* the one to the other, so that a handler renders only while no other     *)
(* handler has a text to send; changes of the Config, restarts of the pods *)
(* and all faults stay as they are.                                        *)
(***************************************************************************)
SendsAlone ==
  \A j, k \in Kinds : j # k /\ pc[k] = "render" /\ pc'[k] = "patch" => pc[j] # "patch"

\* A text about to be sent may then be outdated only if another handler, which
\* has changed the Config, is about to render it again.
AloneInv ==
  /\ \A j, k \in Kinds : pc[j] = "patch" /\ pc[k] = "patch" => j = k
  /\ \A k \in Kinds : pc[k] = "patch" =>
       value[k] = String(config) \/ \E j \in Kinds : pc[j] = "render"
  /\ "patch" \notin faults /\ (\A k \in Kinds : pc[k] \notin {"render", "patch"}) =>
       \/ SinkSections(cm.outputs) = SinkSections(String(config))
       \/ "crash" \in faults /\ Present(config) = {}

\* Every step that sends alone keeps that invariant.
LEMMA AloneStep == TypeOK /\ AloneInv /\ [Next]_vars /\ [SendsAlone]_vars => AloneInv'
<1> SUFFICES ASSUME TypeOK, AloneInv, [Next]_vars, [SendsAlone]_vars PROVE AloneInv'
  OBVIOUS
<1>1. pc \in [Procs -> {"boot", "idle", "render", "patch", "restart"}] /\ Kinds \subseteq Procs
      /\ "main" \notin Kinds
  BY DEF TypeOK, Procs, Kinds
<1>2. ASSUME UNCHANGED <<config, value, cm>>, \A j \in Kinds : pc'[j] = pc[j],
             faults \subseteq faults'
      PROVE  AloneInv'
  BY <1>2 DEF AloneInv
<1>3. ASSUME NEW k \in Kinds, OnAdd(k) \/ OnUpdate(k) \/ OnDelete(k) PROVE AloneInv'
  <2>1. /\ UNCHANGED <<value, cm, faults>>
        /\ UNCHANGED <<config, pc>> \/ pc' = [pc EXCEPT ![k] = "render"]
    BY <1>3, HandlerStep
  <2>2. CASE UNCHANGED <<config, pc>>
    BY <1>2, <2>1, <2>2
  <2>3. CASE pc' = [pc EXCEPT ![k] = "render"]
    <3>1. pc'[k] = "render" /\ \A j \in Kinds \ {k} : pc'[j] = pc[j]
      BY <1>1, <2>3
    <3> QED
      BY <3>1 DEF AloneInv
  <2> QED
    BY <2>1, <2>2, <2>3
<1>4. ASSUME NEW k \in Kinds, Render(k) PROVE AloneInv'
  <2>1. /\ pc[k] = "render" /\ pc'[k] = "patch" /\ \A j \in Kinds \ {k} : pc'[j] = pc[j]
        /\ value'[k] = String(config) /\ config' = config
    BY <1>1, <1>4 DEF Render, TypeOK
  <2>2. SendsAlone
    BY <2>1 DEF vars
  <2>3. \A j \in Kinds \ {k} : pc'[j] # "patch"
    BY <2>1, <2>2 DEF SendsAlone
  <2> QED
    BY <2>1, <2>3 DEF AloneInv
<1>5. ASSUME NEW p \in Procs, Patch(p) PROVE AloneInv'
  <2>1. pc[p] = "patch" /\ pc' = [pc EXCEPT ![p] = "restart"] /\ UNCHANGED <<config, faults>>
        /\ cm' = Applied(p) /\ value' = Sent(p)
    BY <1>5 DEF Patch
  <2>2. CASE p = "main"
    <3>1. cm'.outputs = cm.outputs /\ value' = value /\ \A j \in Kinds : pc'[j] = pc[j]
      BY <1>1, <2>1, <2>2 DEF Applied, Sent
    <3> QED
      BY <2>1, <3>1 DEF AloneInv
  <2>3. CASE p \in Kinds
    <3>1. cm'.outputs = value[p]
      BY <1>1, <2>1, <2>3 DEF Applied
    <3>2. pc'[p] = "restart" /\ \A j \in Kinds \ {p} : pc'[j] = pc[j]
      BY <1>1, <2>1, <2>3
    <3>3. \A j \in Kinds : pc'[j] # "patch"
      BY <2>1, <2>3, <3>2 DEF AloneInv
    <3>4. (\A j \in Kinds : pc'[j] # "render") => value[p] = String(config)
      BY <2>1, <2>3, <3>2 DEF AloneInv
    <3> QED
      BY <2>1, <3>1, <3>3, <3>4 DEF AloneInv
  <2> QED
    BY <2>2, <2>3 DEF Procs
<1>6. ASSUME NEW p \in Procs, PatchFails(p) PROVE AloneInv'
  <2>1. /\ pc[p] = "patch" /\ pc' = [pc EXCEPT ![p] = "restart"] /\ config' = config
        /\ "patch" \in faults' /\ value' = Sent(p)
    BY <1>6 DEF PatchFails
  <2>2. \A j \in Kinds : pc'[j] = IF j = p THEN "restart" ELSE pc[j]
    BY <1>1, <2>1
  <2>3. \A j \in Kinds : j # p => value'[j] = value[j]
    BY <2>1 DEF Sent, TypeOK
  <2> QED
    BY <2>1, <2>2, <2>3 DEF AloneInv
<1>7. ASSUME NEW p \in Procs, RestartPods(p) \/ RestartFails(p) PROVE AloneInv'
  <2>1. /\ pc[p] = "restart" /\ pc' = [pc EXCEPT ![p] = "idle"]
        /\ UNCHANGED <<config, value, cm>> /\ faults \subseteq faults'
    BY <1>7 DEF RestartPods, RestartFails
  <2>2. \A j \in Kinds : pc'[j] = pc[j] \/ (pc[j] = "restart" /\ pc'[j] = "idle")
    BY <1>1, <2>1
  <2> QED
    BY <2>1, <2>2 DEF AloneInv
<1>8. ASSUME SetClusterNameFilter PROVE AloneInv'
  <2>1. \A j \in Kinds : pc'[j] = pc[j]
    BY <1>1, <1>8 DEF SetClusterNameFilter
  <2> QED
    BY <1>2, <1>8, <2>1 DEF SetClusterNameFilter
<1>9. ASSUME Crash PROVE AloneInv'
  <2>1. \A j \in Kinds : pc'[j] = "idle"
    BY <1>9 DEF Crash, Procs, Kinds
  <2>2. Present(config') = {} /\ "crash" \in faults'
    BY <1>9 DEF Crash, Present, EmptyConfig
  <2> QED
    BY <2>1, <2>2 DEF AloneInv
<1>10. ASSUME NEW s \in Sinks, RelistDeleted(s) PROVE AloneInv'
  BY <1>2, <1>10 DEF RelistDeleted
<1>11. ASSUME UNCHANGED <<config, pc, value, cm, faults>> PROVE AloneInv'
  BY <1>2, <1>11
<1> QED
  BY <1>3, <1>4, <1>5, <1>6, <1>7, <1>8, <1>9, <1>10, <1>11
     DEF Next, System, vars, SetSink, Watch, Resync, StartPod, LosePod

\* With sinks of both kinds, any faults and any interleaving but the one in
\* which a handler renders between another's String() and patch, the controllers
\* achieve their purpose.  Without the hypothesis this is false (logsink_race):
\* it is all that the Config's mutex leaves open.
THEOREM SendingAloneRecovers == Spec /\ [][SendsAlone]_vars => []OutputsRecovered
<1>1. Init => AloneInv
  <2> SUFFICES ASSUME Init PROVE AloneInv
    OBVIOUS
  <2>1. \A j \in Kinds : pc[j] = "idle"
    BY DEF Init, Procs, Kinds
  <2>2. SinkSections(cm.outputs) = {}
    <3>1. cm.outputs = initialOutputs
      BY DEF Init
    <3> QED
      BY <3>1 DEF SinkSections, initialOutputs
  <2>3. Present(config) = {}
    BY DEF Init, EmptyConfig, Present
  <2>4. SinkSections(String(config)) = {}
    BY <2>3 DEF SinkSections, String, nullConfig
  <2> QED
    BY <2>1, <2>2, <2>4 DEF AloneInv
<1>2. TypeOK /\ ConfigFollowsStore /\ AloneInv => OutputsRecovered
  <2> SUFFICES ASSUME TypeOK, ConfigFollowsStore, AloneInv,
                      faults \cap {"patch", "missed"} = {},
                      "crash" \in faults => Present(api) # {},
                      Quiet
               PROVE  SinkSections(cm.outputs) = SinkSections(String(api))
    BY DEF OutputsRecovered, OutputsMatchApi
  <2>1. config = api
    BY QuietConfig
  <2> QED
    BY <2>1 DEF AloneInv, Quiet
<1> QED
  BY <1>1, <1>2, AloneStep, ConfigFollows, TypeCorrect, PTL DEF Spec

-----------------------------------------------------------------------------
(***************************************************************************)
(* The LogSink handler implements ConfigPublisher.                         *)
(***************************************************************************)

\* Every step of the controller is a step of ConfigPublisher or leaves what it
\* is about alone.
LEMMA PublisherStep ==
  ASSUME \A s \in Sinks : s.kind = "LogSink"
  PROVE  TypeOK /\ SoleInv("LogSink") /\ [Next]_vars => [Publisher!Next]_(Publisher!vars)
<1> SUFFICES ASSUME TypeOK, SoleInv("LogSink"), [Next]_vars
             PROVE  [Publisher!Next]_(Publisher!vars)
  OBVIOUS
<1> DEFINE k == "LogSink"
           Dirty == pc[k] \in {"render", "patch"}
           DirtyNext == pc'[k] \in {"render", "patch"}
<1>1. /\ k \in Kinds /\ k \in Procs /\ k # "main"
      /\ pc \in [Procs -> {"boot", "idle", "render", "patch", "restart"}]
  BY DEF TypeOK, Procs, Kinds
<1>2. ASSUME config' = config, cm'.outputs = cm.outputs, Dirty <=> DirtyNext
      PROVE  [Publisher!Next]_(Publisher!vars)
  BY <1>2 DEF Publisher!vars
<1>3. ASSUME NEW j \in Kinds, OnAdd(j) \/ OnUpdate(j) \/ OnDelete(j)
      PROVE  [Publisher!Next]_(Publisher!vars)
  <2>1. j = k
    BY <1>1, <1>3, OnlyHandler
  <2>2. /\ pc[k] = "idle" /\ cm' = cm
        /\ \/ UNCHANGED <<config, pc>>
           \/ /\ pc' = [pc EXCEPT ![k] = "render"]
              /\ \E s \in Sinks, v \in Specs \cup {Absent} : config' = [config EXCEPT ![s] = v]
    BY <1>1, <1>3, <2>1, HandlerStep
  <2>3. CASE UNCHANGED <<config, pc>>
    BY <1>2, <2>2, <2>3
  <2>4. CASE /\ pc' = [pc EXCEPT ![k] = "render"]
             /\ \E s \in Sinks, v \in Specs \cup {Absent} : config' = [config EXCEPT ![s] = v]
    <3>1. PICK s \in Sinks, v \in Specs \cup {Absent} : config' = [config EXCEPT ![s] = v]
      BY <2>4
    <3>2. pc'[k] = "render"
      BY <1>1, <2>4
    <3>3. Publisher!Change(s, v)
      BY <2>2, <3>1, <3>2 DEF Publisher!Change
    <3> QED
      BY <3>3 DEF Publisher!Next
  <2> QED
    BY <2>2, <2>3, <2>4
<1>4. ASSUME NEW j \in Kinds, Render(j) PROVE [Publisher!Next]_(Publisher!vars)
  <2>1. j = k
    BY <1>4 DEF Render, SoleInv
  <2>2. pc[k] = "render" /\ pc'[k] = "patch" /\ config' = config /\ cm' = cm
    BY <1>1, <1>4, <2>1 DEF Render
  <2> QED
    BY <1>2, <2>2
<1>5. ASSUME NEW p \in Procs, Patch(p) PROVE [Publisher!Next]_(Publisher!vars)
  <2>1. pc[p] = "patch" /\ pc' = [pc EXCEPT ![p] = "restart"] /\ config' = config /\ cm' = Applied(p)
    BY <1>5 DEF Patch
  <2>2. CASE p = "main"
    <3>1. cm'.outputs = cm.outputs /\ pc'[k] = pc[k]
      BY <1>1, <2>1, <2>2 DEF Applied
    <3> QED
      BY <1>2, <2>1, <3>1
  <2>3. CASE p # "main"
    <3>1. p = k
      BY <2>1, <2>3 DEF SoleInv, Procs
    <3>2. cm'.outputs = String(config) /\ pc'[k] = "restart" /\ pc[k] = "patch"
      BY <1>1, <2>1, <3>1 DEF Applied, SoleInv
    <3>3. Publisher!Publish
      BY <2>1, <3>2 DEF Publisher!Publish
    <3> QED
      BY <3>3 DEF Publisher!Next
  <2> QED
    BY <2>2, <2>3
<1>6. ASSUME NEW p \in Procs, PatchFails(p) PROVE [Publisher!Next]_(Publisher!vars)
  <2>1. /\ "patch" \in AllowedFaults /\ pc[p] = "patch" /\ pc' = [pc EXCEPT ![p] = "restart"]
        /\ config' = config /\ cm' = cm
    BY <1>6 DEF PatchFails
  <2>2. CASE p = "main"
    <3>1. pc'[k] = pc[k]
      BY <1>1, <2>1, <2>2
    <3> QED
      BY <1>2, <2>1, <3>1
  <2>3. CASE p # "main"
    <3>1. p = k
      BY <2>1, <2>3 DEF SoleInv, Procs
    <3>2. pc'[k] = "restart" /\ pc[k] = "patch"
      BY <1>1, <2>1, <3>1
    <3>3. Publisher!GiveUp
      BY <2>1, <3>2 DEF Publisher!GiveUp
    <3> QED
      BY <3>3 DEF Publisher!Next
  <2> QED
    BY <2>2, <2>3
<1>7. ASSUME NEW p \in Procs, RestartPods(p) \/ RestartFails(p)
      PROVE  [Publisher!Next]_(Publisher!vars)
  <2>1. pc[p] = "restart" /\ pc' = [pc EXCEPT ![p] = "idle"] /\ UNCHANGED <<config, cm>>
    BY <1>7 DEF RestartPods, RestartFails
  <2>2. pc'[k] = pc[k] \/ (pc[k] = "restart" /\ pc'[k] = "idle")
    BY <1>1, <2>1
  <2> QED
    BY <1>2, <2>1, <2>2
<1>8. ASSUME SetClusterNameFilter PROVE [Publisher!Next]_(Publisher!vars)
  <2>1. pc'[k] = pc[k] /\ UNCHANGED <<config, cm>>
    BY <1>1, <1>8 DEF SetClusterNameFilter
  <2> QED
    BY <1>2, <2>1
<1>9. ASSUME Crash PROVE [Publisher!Next]_(Publisher!vars)
  <2>1. pc'[k] = "idle" /\ config' = EmptyConfig /\ cm' = cm
    BY <1>1, <1>9 DEF Crash
  <2>2. Publisher!Forget
    BY <2>1 DEF Publisher!Forget, Publisher!Empty, EmptyConfig
  <2> QED
    BY <2>2 DEF Publisher!Next
<1>10. ASSUME UNCHANGED <<config, pc, cm>> PROVE [Publisher!Next]_(Publisher!vars)
  BY <1>2, <1>10
<1> QED
  BY <1>3, <1>4, <1>5, <1>6, <1>7, <1>8, <1>9, <1>10
     DEF Next, System, vars, SetSink, Watch, RelistDeleted, Resync, StartPod, LosePod

\* With LogSinks only, every change of the Config is published before the next
\* one is made: each behaviour of the controller is one that ConfigPublisher
\* allows (its safety part; that the publication comes is left to the model
\* checker).
THEOREM ImplementsPublisher ==
  ASSUME \A s \in Sinks : s.kind = "LogSink"
  PROVE  Spec => Publisher!Safety
<1>1. Init => Publisher!Init
  <2> SUFFICES ASSUME Init PROVE Publisher!Init
    OBVIOUS
  <2>1. pc["LogSink"] = "idle" /\ cm.outputs = initialOutputs /\ config = EmptyConfig
    BY DEF Init, Procs, Kinds
  <2> QED
    BY <2>1 DEF Publisher!Init, Publisher!Empty, EmptyConfig
<1>2. PICK k \in Kinds : k = "LogSink"
  BY DEF Kinds
<1>3. \A s \in Sinks : s.kind = k
  BY <1>2
<1>4. Spec => []SoleInv(k)
  BY <1>3, Sole
<1>5. TypeOK /\ SoleInv(k) /\ [Next]_vars => [Publisher!Next]_(Publisher!vars)
  BY <1>2, PublisherStep
<1> QED
  BY <1>1, <1>4, <1>5, TypeCorrect, PTL DEF Spec, Publisher!Safety

=============================================================================
