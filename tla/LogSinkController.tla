------------------------- MODULE LogSinkController -------------------------
(***************************************************************************)
(* The sink-controller process (cmd/sink-controller, pkg/sink): two shared *)
(* informers, one for LogSinks and one for ClusterLogSinks, each calling   *)
(* its handler from a goroutine of its own; one Config the two handlers    *)
(* share; and patchConfig, which writes the rendered Config into the       *)
(* fluent-bit ConfigMap and then deletes the fluent-bit pods so that the   *)
(* DaemonSet's replacements load it.                                       *)
(*                                                                         *)
(* A handler runs in four atomic steps, cut where the code gives up the    *)
(* Config's mutex or waits for the API server:                             *)
(*   idle -> (Upsert or Delete under the lock) -> "render"                 *)
(*        -> (String() under the lock)         -> "patch"                  *)
(*        -> (ConfigMap patch)                 -> "restart"                *)
(*        -> (pods DeleteCollection)           -> idle                     *)
(* "main" is the goroutine of main(): it runs SetClusterNameFilter before  *)
(* it starts the informers and is idle from then on.                       *)
(***************************************************************************)
EXTENDS SinkConfig, Naturals, Sequences

CONSTANTS Pods,          \* the fluent-bit pods of the DaemonSet, one per node
          ClusterName,   \* label pks-system/cluster.name of the first node
          MaxPending,    \* bound on a listener's pendingNotifications
          AllowedFaults, \* the faults this instance may meet
          Down           \* a pod that is being replaced

FaultKinds == {"patch",      \* the API server refuses a ConfigMap patch
               "restart",    \* a DeleteCollection fails, perhaps half way
               "missed",     \* a watch breaks and misses a deletion
               "crash"}      \* the sink-controller process dies

ASSUME ControllerAssumption ==
  /\ ClusterName \in STRING
  /\ MaxPending \in Nat
  /\ AllowedFaults \subseteq FaultKinds

VARIABLES
  api,      \* the sinks stored by the API server
  store,    \* the informers' indexers
  pending,  \* pendingNotifications of each informer's listener
  config,   \* Config.sinks and Config.clusterSinks
  pc,       \* where main and the two handlers are
  value,    \* the rendered outputs.conf a handler is about to send
  cm,       \* the fluent-bit ConfigMap
  pods,     \* what each fluent-bit pod has loaded
  lastPatch,\* history: the handler whose outputs.conf patch was applied last,
            \* "none" before the first one and when that handler's next one failed
  faults    \* history: the kinds of fault met so far

vars == <<api, store, pending, config, pc, value, cm, pods, lastPatch, faults>>

Procs == Kinds \cup {"main"}

(***************************************************************************)
(* A notification for the handler.  "deleted" carries the object,          *)
(* "unknown" is a cache.DeletedFinalStateUnknown.                          *)
(***************************************************************************)
Notification == [type : {"add", "update", "deleted", "unknown"},
                 sink : Sinks,
                 old  : Specs \cup {Absent},
                 new  : Specs \cup {Absent}]

\* outputs.conf as deployed: it includes output-null.conf, which has no Match.
initialOutputs == {<<NoSink, [plugin |-> "null", match |-> <<>>]>>}

\* Every section an outputs.conf may hold.
Sections == (UNION {{<<s, Output(s, v)>> : v \in Specs} : s \in Sinks})
              \cup nullConfig \cup initialOutputs

ConfigMap == [outputs : SUBSET Sections, filter : {"", ClusterName}]

Init ==
  /\ api = EmptyConfig
  /\ store = EmptyConfig
  /\ pending = [k \in Kinds |-> <<>>]
  /\ config = EmptyConfig
  /\ pc = [p \in Procs |-> IF p = "main" THEN "boot" ELSE "idle"]
  /\ value = [k \in Kinds |-> {}]
  /\ cm = [outputs |-> initialOutputs, filter |-> ""]
  /\ pods = [p \in Pods |-> cm]
  /\ lastPatch = "none"
  /\ faults = {}

Up == pc["main"] = "idle"

-----------------------------------------------------------------------------
(***************************************************************************)
(* Users: create, update or delete a sink through the API server.          *)
(***************************************************************************)
SetSink(s, v) ==
  /\ api[s] # v
  /\ api' = [api EXCEPT ![s] = v]
  /\ UNCHANGED <<store, pending, config, pc, value, cm, pods, lastPatch, faults>>

-----------------------------------------------------------------------------
(***************************************************************************)
(* The informers (client-go).  HandleDeltas brings the indexer up to date  *)
(* and queues a notification; the delay between a change and its watch     *)
(* event is the delay before Watch is taken, and changes made before it    *)
(* are seen as one, as after a re-list.                                    *)
(***************************************************************************)
Note(type, s) == [type |-> type, sink |-> s, old |-> store[s], new |-> api[s]]

ChangeType(s) == IF store[s] = Absent THEN "add"
                 ELSE IF api[s] = Absent THEN "deleted" ELSE "update"

Room(k) == Len(pending[k]) < MaxPending

\* Mutant: main() registers each controller at the other informer.
CrossedWatch(s) ==
  /\ Up
  /\ api[s] # store[s]
  /\ store' = [store EXCEPT ![s] = api[s]]
  /\ \E k \in Kinds \ {s.kind} :
       Room(k) /\ pending' = [pending EXCEPT ![k] = Append(@, Note(ChangeType(s), s))]
  /\ UNCHANGED <<api, config, pc, value, cm, pods, lastPatch, faults>>

Watch(s) ==
  /\ Up /\ Room(s.kind)
  /\ api[s] # store[s]
  /\ store' = [store EXCEPT ![s] = api[s]]
  /\ pending' = [pending EXCEPT ![s.kind] = Append(@, Note(ChangeType(s), s))]
  /\ UNCHANGED <<api, config, pc, value, cm, pods, lastPatch, faults>>

(***************************************************************************)
(* The watch was closed and the sink deleted meanwhile: DeltaFIFO.Replace  *)
(* finds a known key missing from the new list.                            *)
(***************************************************************************)
RelistDeleted(s) ==
  /\ "missed" \in AllowedFaults
  /\ Up /\ Room(s.kind)
  /\ store[s] # Absent /\ api[s] = Absent
  /\ store' = [store EXCEPT ![s] = Absent]
  /\ pending' = [pending EXCEPT ![s.kind] = Append(@, Note("unknown", s))]
  /\ faults' = faults \cup {"missed"}
  /\ UNCHANGED <<api, config, pc, value, cm, pods, lastPatch>>

(***************************************************************************)
(* The 30 second resync, a re-list that finds nothing new, and a change to *)
(* an object's metadata all reach the handler as an update to the same     *)
(* spec.                                                                   *)
(***************************************************************************)
Resync(s) ==
  /\ Up /\ Room(s.kind)
  /\ store[s] # Absent
  /\ pending' = [pending EXCEPT ![s.kind] = Append(@,
        [type |-> "update", sink |-> s, old |-> store[s], new |-> store[s]])]
  /\ UNCHANGED <<api, store, config, pc, value, cm, pods, lastPatch, faults>>

-----------------------------------------------------------------------------
(***************************************************************************)
(* The handlers of kind k.  Upsert and Delete are Config.UpsertSink or     *)
(* UpsertClusterSink, and DeleteSink or DeleteClusterSink.                 *)
(***************************************************************************)
\* Mutant: the Config's key leaves out the namespace.
UpsertByName(s, v) ==
  config' = [t \in Sinks |-> IF t = s THEN v
                             ELSE IF t.kind = s.kind /\ t.name = s.name THEN Absent
                             ELSE config[t]]

Upsert(s, v) == config' = [config EXCEPT ![s] = v]
Delete(s)    == config' = [config EXCEPT ![s] = Absent]

Receive(k, types) ==
  /\ pc[k] = "idle"
  /\ pending[k] # <<>>
  /\ Head(pending[k]).type \in types
  /\ pending' = [pending EXCEPT ![k] = Tail(@)]
  /\ UNCHANGED <<api, store, value, cm, pods, lastPatch, faults>>

OnAdd(k) ==
  /\ Receive(k, {"add"})
  /\ Upsert(Head(pending[k]).sink, Head(pending[k]).new)
  /\ pc' = [pc EXCEPT ![k] = "render"]

\* An update that changes the spec goes through OnAdd.
OnUpdate(k) ==
  /\ Receive(k, {"update"})
  /\ LET n == Head(pending[k]) IN
       IF n.old # n.new
       THEN Upsert(n.sink, n.new) /\ pc' = [pc EXCEPT ![k] = "render"]
       ELSE UNCHANGED <<config, pc>>

\* Mutant: the deletion is published from a Config that still holds the sink.
KeepsDeleted(k) ==
  /\ Receive(k, {"deleted", "unknown"})
  /\ pc' = [pc EXCEPT ![k] = "render"]
  /\ UNCHANGED config

\* Mutant: the deletion changes the Config and is not published.
DeletesConfigOnly(k) ==
  /\ Receive(k, {"deleted", "unknown"})
  /\ Delete(Head(pending[k]).sink)
  /\ UNCHANGED pc

\* The type assertion fails for a DeletedFinalStateUnknown.
OnDelete(k) ==
  /\ Receive(k, {"deleted", "unknown"})
  /\ IF Head(pending[k]).type = "deleted"
     THEN Delete(Head(pending[k]).sink) /\ pc' = [pc EXCEPT ![k] = "render"]
     ELSE UNCHANGED <<config, pc>>

\* Mutant: a Config that renders to no section is not published.
RenderNonEmpty(k) ==
  /\ pc[k] = "render"
  /\ value' = [value EXCEPT ![k] = String(config)]
  /\ pc' = [pc EXCEPT ![k] = IF String(config) = {} THEN "idle" ELSE "patch"]
  /\ UNCHANGED <<api, store, pending, config, cm, pods, lastPatch, faults>>

Render(k) ==
  /\ pc[k] = "render"
  /\ value' = [value EXCEPT ![k] = String(config)]
  /\ pc' = [pc EXCEPT ![k] = "patch"]
  /\ UNCHANGED <<api, store, pending, config, cm, pods, lastPatch, faults>>

-----------------------------------------------------------------------------
(***************************************************************************)
(* patchConfig.  An error of either call is logged and nothing else: the   *)
(* pods are deleted even when the patch was refused.                       *)
(***************************************************************************)
Applied(p) ==
  [outputs |-> IF p = "main" THEN cm.outputs ELSE value[p],
   filter  |-> IF p = "main" THEN ClusterName ELSE cm.filter]

Sent(p) == IF p = "main" THEN value ELSE [value EXCEPT ![p] = {}]

\* Mutant: the pods are left running.
PatchOnly(p) ==
  /\ pc[p] = "patch"
  /\ cm' = Applied(p)
  /\ lastPatch' = IF p = "main" THEN lastPatch ELSE p
  /\ value' = Sent(p)
  /\ pc' = [pc EXCEPT ![p] = "idle"]
  /\ UNCHANGED <<api, store, pending, config, pods, faults>>

Patch(p) ==
  /\ pc[p] = "patch"
  /\ cm' = Applied(p)
  /\ lastPatch' = IF p = "main" THEN lastPatch ELSE p
  /\ value' = Sent(p)
  /\ pc' = [pc EXCEPT ![p] = "restart"]
  /\ UNCHANGED <<api, store, pending, config, pods, faults>>

PatchFails(p) ==
  /\ "patch" \in AllowedFaults
  /\ pc[p] = "patch"
  /\ lastPatch' = IF p = lastPatch THEN "none" ELSE lastPatch
  /\ value' = Sent(p)
  /\ pc' = [pc EXCEPT ![p] = "restart"]
  /\ faults' = faults \cup {"patch"}
  /\ UNCHANGED <<api, store, pending, config, cm, pods>>

RestartPods(p) ==
  /\ pc[p] = "restart"
  /\ pods' = [q \in Pods |-> Down]
  /\ pc' = [pc EXCEPT ![p] = "idle"]
  /\ UNCHANGED <<api, store, pending, config, value, cm, lastPatch, faults>>

\* DeleteCollection deletes the pods one by one and may stop at an error.
RestartFails(p) ==
  /\ "restart" \in AllowedFaults
  /\ pc[p] = "restart"
  /\ \E D \in SUBSET Pods :
       pods' = [q \in Pods |-> IF q \in D THEN Down ELSE pods[q]]
  /\ pc' = [pc EXCEPT ![p] = "idle"]
  /\ faults' = faults \cup {"restart"}
  /\ UNCHANGED <<api, store, pending, config, value, cm, lastPatch>>

-----------------------------------------------------------------------------
(***************************************************************************)
(* main() up to the start of the informers, and the death of the process,  *)
(* which the Deployment restarts with an empty memory.                     *)
(***************************************************************************)
SetClusterNameFilter ==
  /\ pc["main"] = "boot"
  /\ pc' = [pc EXCEPT !["main"] = IF ClusterName = "" THEN "idle" ELSE "patch"]
  /\ UNCHANGED <<api, store, pending, config, value, cm, pods, lastPatch, faults>>

Crash ==
  /\ "crash" \in AllowedFaults
  /\ store' = EmptyConfig
  /\ pending' = [k \in Kinds |-> <<>>]
  /\ config' = EmptyConfig
  /\ pc' = [p \in Procs |-> IF p = "main" THEN "boot" ELSE "idle"]
  /\ value' = [k \in Kinds |-> {}]
  /\ lastPatch' = "none"
  /\ faults' = faults \cup {"crash"}
  /\ UNCHANGED <<api, cm, pods>>

-----------------------------------------------------------------------------
(***************************************************************************)
(* The DaemonSet and its pods (external).  fluent-bit reads the mounted    *)
(* ConfigMap when it starts and never again.                               *)
(***************************************************************************)
StartPod(p) ==
  /\ pods[p] = Down
  /\ pods' = [pods EXCEPT ![p] = cm]
  /\ UNCHANGED <<api, store, pending, config, pc, value, cm, lastPatch, faults>>

LosePod(p) ==
  /\ pods[p] # Down
  /\ pods' = [pods EXCEPT ![p] = Down]
  /\ UNCHANGED <<api, store, pending, config, pc, value, cm, lastPatch, faults>>

-----------------------------------------------------------------------------
\* All but the users.
System ==
  \/ \E s \in Sinks : Watch(s) \/ RelistDeleted(s) \/ Resync(s)
  \/ \E k \in Kinds : OnAdd(k) \/ OnUpdate(k) \/ OnDelete(k) \/ Render(k)
  \/ \E p \in Procs : Patch(p) \/ PatchFails(p) \/ RestartPods(p) \/ RestartFails(p)
  \/ SetClusterNameFilter
  \/ Crash
  \/ \E p \in Pods : StartPod(p) \/ LosePod(p)

Next == (\E s \in Sinks, v \in Specs \cup {Absent} : SetSink(s, v)) \/ System

Spec == Init /\ [][Next]_vars

(***************************************************************************)
(* Go's scheduler runs every goroutine, the API server answers, and the    *)
(* DaemonSet replaces its pods.  Watch gets strong fairness because only   *)
(* MaxPending, not the code's unbounded ring buffer, can make it wait for  *)
(* the handler.  Nothing is assumed of users, resyncs, losses and faults.  *)
(***************************************************************************)
Fairness ==
  /\ \A s \in Sinks : SF_vars(Watch(s))
  /\ \A k \in Kinds : WF_vars(OnAdd(k) \/ OnUpdate(k) \/ OnDelete(k) \/ Render(k))
  /\ \A p \in Procs : WF_vars(Patch(p)) /\ WF_vars(RestartPods(p))
  /\ WF_vars(SetClusterNameFilter)
  /\ \A p \in Pods : WF_vars(StartPod(p))

FairSpec == Spec /\ Fairness

-----------------------------------------------------------------------------
(***************************************************************************)
(* Properties.                                                             *)
(***************************************************************************)

\* Every variable holds a value of its type; a notification waits at the
\* listener of its sink's kind.
TypeOK ==
  /\ api \in [Sinks -> Specs \cup {Absent}]
  /\ store \in [Sinks -> Specs \cup {Absent}]
  /\ config \in [Sinks -> Specs \cup {Absent}]
  /\ pending \in [Kinds -> Seq(Notification)]
  /\ \A k \in Kinds : \A i \in 1..Len(pending[k]) : pending[k][i].sink.kind = k
  /\ pc \in [Procs -> {"boot", "idle", "render", "patch", "restart"}]
  /\ value \in [Kinds -> SUBSET Sections]
  /\ cm \in ConfigMap
  /\ pods \in [Pods -> ConfigMap \cup {Down}]
  /\ lastPatch \in Kinds \cup {"none"}
  /\ faults \in SUBSET FaultKinds

\* patchConfig deletes the pods after it patches, so as long as every
\* DeleteCollection succeeds and the process lives, a running pod whose
\* configuration differs from the ConfigMap is about to be deleted by some
\* handler, whatever the other handlers have patched and deleted in between.
Stale(p) == pods[p] # Down /\ pods[p] # cm

PodsFollowConfigMap ==
  faults \cap {"restart", "crash"} = {} =>
    \A p \in Pods : Stale(p) => \E q \in Procs : pc[q] = "restart"

\* Once the handler has received every notification about a sink, the Config
\* holds exactly what the informer's indexer holds; the one exception is a
\* sink whose deletion was missed by the watch, which stays in the Config.
Settled(s) == \A i \in 1..Len(pending[s.kind]) : pending[s.kind][i].sink # s

ConfigFollowsStore ==
  \A s \in Sinks : Settled(s) =>
    \/ config[s] = store[s]
    \/ "missed" \in faults /\ store[s] = Absent

\* The handlers do not coordinate between String() and the ConfigMap patch.
\* What survives any interleaving is this: the sections of the kind whose
\* handler patched last are those of the present Config, until that handler
\* changes the Config again.  A failed patch is repaired by the next one.
LastWriterPublished ==
  \A k \in Kinds :
    lastPatch = k /\ pc[k] \notin {"render", "patch"} =>
      SectionsOf(cm.outputs, k) = SectionsOf(String(config), k)

Quiet ==
  /\ Up
  /\ \A k \in Kinds : pc[k] = "idle" /\ pending[k] = <<>>
  /\ store = api

SinkSections(outputs) == {o \in outputs : o[1] # NoSink}

\* When all is quiet the ConfigMap holds a section for every sink the API
\* server stores and for no other: the controllers' purpose.
OutputsMatchApi ==
  Quiet => SinkSections(cm.outputs) = SinkSections(String(api))

\* The handler of one kind of sinks achieves it unless a patch was refused or a
\* deletion missed, and again after crashes of the process as long as a sink is
\* left: the informer's first list calls OnAdd for each, and the last of these
\* patches publishes them all.
OutputsRecovered ==
  /\ faults \cap {"patch", "missed"} = {}
  /\ "crash" \in faults => Present(api) # {}
  => OutputsMatchApi

\* No record of a namespace leaves a fluent-bit pod for the LogSink of another
\* namespace, whatever the pod has loaded and however old it is (the rendering
\* of Match and Namespace in config.go; the "crosstalk" end-to-end tests).
Namespaces == {s.ns : s \in Sinks} \cup {"default"}

MayReceive(ns) == {s \in Sinks : s.kind = "ClusterLogSink" \/ s.ns = ns}

NoCrosstalk ==
  \A p \in Pods : pods[p] # Down =>
    \A ns \in Namespaces \ {""} : Receivers(pods[p].outputs, ns) \subseteq MayReceive(ns)

\* A spec that users leave alone ends up in every running fluent-bit pod, and
\* a sink they delete disappears from it, for good, as long as nothing fails.
EventuallyLoaded ==
  \A s \in Sinks, v \in Specs \cup {Absent} :
    [](faults = {}) /\ <>[](api[s] = v) =>
      <>[](\A p \in Pods : pods[p] # Down =>
             {o \in pods[p].outputs : o[1] = s}
               = {o \in String([EmptyConfig EXCEPT ![s] = v]) : o[1] = s})

-----------------------------------------------------------------------------
(***************************************************************************)
(* The LogSink handler, alone, implements ConfigPublisher.                 *)
(***************************************************************************)
Publisher == INSTANCE ConfigPublisher WITH
               Keys <- Sinks, Values <- Specs, Text <- String,
               Deployed <- initialOutputs,
               Refusable <- "patch" \in AllowedFaults,
               cfg <- config, out <- cm.outputs,
               dirty <- pc["LogSink"] \in {"render", "patch"}

\* Every change the handler makes to the Config is published, in order and
\* exactly as the Config stands, before it makes the next one, and none is left
\* unpublished (OnAdd, OnDelete and patchConfig run to their end in the
\* informer's goroutine).  Only a refused patch leaves it to the next change.
PublishesEverything == Publisher!Spec

=============================================================================
