---------------------- MODULE ClusterMetricController ----------------------
(***************************************************************************)
(* pkg/metric/cluster_controller.go: for all ClusterMetricSinks together   *)
(* the metric-controller keeps one file, cluster-metric-sinks.conf in the  *)
(* ConfigMap telegraf, and deletes the telegraf pods after every patch so  *)
(* that the DaemonSet's replacements load it.                              *)
(*                                                                         *)
(* One informer calls the handler from one goroutine, the only one that    *)
(* uses the ClusterConfig: from the change of the Config to the patch it   *)
(* stays as it is, and String() is evaluated where the patch is made.      *)
(*   idle -> (Upsert or Delete) -> "patch"                                 *)
(*        -> (ConfigMap patch)  -> "restart" -> (DeleteCollection) -> idle *)
(***************************************************************************)
EXTENDS TelegrafConfig, Naturals, Sequences, FiniteSets

CONSTANTS Specs,         \* the specs users may give a ClusterMetricSink
          Absent,        \* no sink
          Pods,          \* the telegraf pods of the DaemonSet, one per node
          Down,          \* a pod that is being replaced
          MaxPending,    \* bound on the listener's pendingNotifications
          MaxFaults,     \* bound on the faults, each of another kind
          AllowedFaults  \* the faults this instance may meet

FaultKinds == {"patch",      \* the API server refuses a ConfigMap patch
               "restart",    \* a DeleteCollection fails, perhaps half way
               "missed",     \* a watch breaks and misses a deletion
               "crash"}      \* the metric-controller process dies

ASSUME ClusterMetricAssumption ==
  /\ Specs \subseteq MetricSinkSpec
  /\ Absent \notin Specs
  /\ MaxPending \in Nat /\ MaxFaults \in Nat
  /\ AllowedFaults \subseteq FaultKinds

VARIABLES
  api,      \* the ClusterMetricSinks stored by the API server
  store,    \* the informer's indexer
  pending,  \* pendingNotifications of the informer's listener
  config,   \* ClusterConfig.clusterSinks
  pc,       \* where the handler is
  cm,       \* cluster-metric-sinks.conf
  pods,     \* what each telegraf pod has loaded
  tried,    \* history: how the last patch of this process ended
  faults    \* history: the kinds of fault met so far

vars == <<api, store, pending, config, pc, cm, pods, tried, faults>>

Maybe(S) == S \cup {Absent}

(***************************************************************************)
(* same: old and new are equal in all their fields, the spec and the rest. *)
(* "unknown" is a cache.DeletedFinalStateUnknown.                          *)
(***************************************************************************)
Notification == [type : {"add", "update", "deleted", "unknown"}, name : Names,
                 new : Maybe(Specs), same : BOOLEAN]

NoSinks == [n \in Names |-> Absent]

Present(cfg) == {n \in Names : cfg[n] # Absent}

\* copyInputs: the kubelet of the pod's own node, on either of its ports.
defaultInputs == {<<Default, "kubernetes", Default>>}

\* ClusterConfig.String()
String(cfg) ==
  telegrafConfig(GlobalTags,
    defaultInputs \cup UNION {appendInputsAndOutputs(n, cfg[n].inputs) : n \in Present(cfg)},
    UNION {appendInputsAndOutputs(n, cfg[n].outputs) : n \in Present(cfg)})

Init ==
  /\ api = NoSinks
  /\ store = NoSinks
  /\ pending = <<>>
  /\ config = NoSinks
  /\ pc = "idle"
  /\ cm = emptyConfig
  /\ pods = [p \in Pods |-> emptyConfig]
  /\ tried = "not"
  /\ faults = {}

Fault(f) ==
  /\ f \in AllowedFaults \ faults /\ Cardinality(faults) < MaxFaults
  /\ faults' = faults \cup {f}

-----------------------------------------------------------------------------
(***************************************************************************)
(* Users: create, update or delete a sink.                                 *)
(***************************************************************************)
SetSink(n, v) ==
  /\ api[n] # v
  /\ api' = [api EXCEPT ![n] = v]
  /\ UNCHANGED <<store, pending, config, pc, cm, pods, tried, faults>>

-----------------------------------------------------------------------------
(***************************************************************************)
(* The informer.                                                           *)
(***************************************************************************)
Enqueue(type, n, new, same) ==
  /\ Len(pending) < MaxPending
  /\ store' = [store EXCEPT ![n] = new]
  /\ pending' = Append(pending, [type |-> type, name |-> n, new |-> new, same |-> same])
  /\ UNCHANGED <<api, config, pc, cm, pods, tried>>

Watch(n) ==
  /\ api[n] # store[n]
  /\ Enqueue(IF store[n] = Absent THEN "add" ELSE IF api[n] = Absent THEN "deleted"
             ELSE "update", n, api[n], FALSE)
  /\ UNCHANGED faults

RelistDeleted(n) ==
  /\ store[n] # Absent /\ api[n] = Absent
  /\ Enqueue("unknown", n, Absent, FALSE)
  /\ Fault("missed")

\* The 30 second resync hands the handler one object twice.
Resync(n) ==
  /\ store[n] # Absent
  /\ Enqueue("update", n, store[n], TRUE)
  /\ UNCHANGED faults

\* The sink's labels, annotations or status change; or a new list brings it
\* with the Kind and APIVersion that watch events leave out.
Touch(n) ==
  /\ store[n] # Absent
  /\ Enqueue("update", n, store[n], FALSE)
  /\ UNCHANGED faults

-----------------------------------------------------------------------------
(***************************************************************************)
(* The handler.                                                            *)
(***************************************************************************)
Receive(types) ==
  /\ pc = "idle"
  /\ pending # <<>> /\ Head(pending).type \in types
  /\ pending' = Tail(pending)
  /\ UNCHANGED <<api, store, cm, pods, tried, faults>>

UpsertSink(n, v) == config' = [config EXCEPT ![n] = v]
DeleteSink(n)    == config' = [config EXCEPT ![n] = Absent]

OnAdd ==
  /\ Receive({"add"})
  /\ UpsertSink(Head(pending).name, Head(pending).new)
  /\ pc' = "patch"

\* Mutant: an update is told to the ConfigMap only if it changes the Config.
OnlySpecs ==
  /\ Receive({"update"})
  /\ UpsertSink(Head(pending).name, Head(pending).new)
  /\ pc' = IF config' = config THEN "idle" ELSE "patch"

\* reflect.DeepEqual of the two objects decides, not of their specs.
OnUpdate ==
  /\ Receive({"update"})
  /\ IF Head(pending).same
     THEN UNCHANGED <<config, pc>>
     ELSE UpsertSink(Head(pending).name, Head(pending).new) /\ pc' = "patch"

\* Mutant: the deletion waits for the next change to be published.
ForgetsToPublish ==
  /\ Receive({"deleted", "unknown"})
  /\ IF Head(pending).type = "deleted" THEN DeleteSink(Head(pending).name) ELSE UNCHANGED config
  /\ UNCHANGED pc

\* The type assertion fails for a DeletedFinalStateUnknown.
OnDelete ==
  /\ Receive({"deleted", "unknown"})
  /\ IF Head(pending).type = "deleted"
     THEN DeleteSink(Head(pending).name) /\ pc' = "patch"
     ELSE UNCHANGED <<config, pc>>

\* Mutant: the pods are deleted only after a patch that failed.
PatchOnly ==
  /\ pc = "patch"
  /\ cm' = String(config)
  /\ tried' = "applied"
  /\ pc' = "idle"
  /\ UNCHANGED <<api, store, pending, config, pods, faults>>

Patch ==
  /\ pc = "patch"
  /\ cm' = String(config)
  /\ tried' = "applied"
  /\ pc' = "restart"
  /\ UNCHANGED <<api, store, pending, config, pods, faults>>

\* An error of either call is logged and nothing else.
PatchFails ==
  /\ pc = "patch"
  /\ tried' = "refused"
  /\ pc' = "restart"
  /\ Fault("patch")
  /\ UNCHANGED <<api, store, pending, config, cm, pods>>

RestartPods ==
  /\ pc = "restart"
  /\ pods' = [p \in Pods |-> Down]
  /\ pc' = "idle"
  /\ UNCHANGED <<api, store, pending, config, cm, tried, faults>>

RestartFails ==
  /\ pc = "restart"
  /\ \E D \in SUBSET Pods : pods' = [p \in Pods |-> IF p \in D THEN Down ELSE pods[p]]
  /\ pc' = "idle"
  /\ Fault("restart")
  /\ UNCHANGED <<api, store, pending, config, cm, tried>>

Crash ==
  /\ store' = NoSinks
  /\ pending' = <<>>
  /\ config' = NoSinks
  /\ pc' = "idle"
  /\ tried' = "not"
  /\ Fault("crash")
  /\ UNCHANGED <<api, cm, pods>>

-----------------------------------------------------------------------------
(***************************************************************************)
(* The DaemonSet and its pods (external): telegraf reads the mounted file  *)
(* when it starts and never again.                                         *)
(***************************************************************************)
StartPod(p) ==
  /\ pods[p] = Down
  /\ pods' = [pods EXCEPT ![p] = cm]
  /\ UNCHANGED <<api, store, pending, config, pc, cm, tried, faults>>

LosePod(p) ==
  /\ pods[p] # Down
  /\ pods' = [pods EXCEPT ![p] = Down]
  /\ UNCHANGED <<api, store, pending, config, pc, cm, tried, faults>>

-----------------------------------------------------------------------------
Handle == OnAdd \/ OnUpdate \/ OnDelete

Next ==
  \/ \E n \in Names, v \in Maybe(Specs) : SetSink(n, v)
  \/ \E n \in Names : Watch(n) \/ RelistDeleted(n) \/ Resync(n) \/ Touch(n)
  \/ Handle \/ Patch \/ PatchFails \/ RestartPods \/ RestartFails
  \/ Crash
  \/ \E p \in Pods : StartPod(p) \/ LosePod(p)

Spec == Init /\ [][Next]_vars

(***************************************************************************)
(* Go runs the handler, the API server answers, the watch delivers and the *)
(* DaemonSet replaces its pods; Watch waits for room only because of       *)
(* MaxPending and so gets strong fairness.                                 *)
(***************************************************************************)
Fairness ==
  /\ \A n \in Names : SF_vars(Watch(n))
  /\ WF_vars(Handle) /\ WF_vars(Patch) /\ WF_vars(RestartPods)
  /\ \A p \in Pods : WF_vars(StartPod(p))

-----------------------------------------------------------------------------
(***************************************************************************)
(* Properties.                                                             *)
(***************************************************************************)
\* The default plugins are named because no prover knows that a literal is a STRING.
Plugins == STRING \cup {"cpu", "discard", "kubernetes"}

Sections == (Names \cup {Default}) \X Plugins \X (Opts \cup {Default})

Texts == {t \in [tags : SUBSET {ClusterName}, inputs : SUBSET Sections, outputs : SUBSET Sections] :
            t.inputs = {} <=> t.outputs = {}}

\* Every variable holds a value of its type; a file that telegraf is given has
\* both inputs and outputs, or nothing at all.
TypeOK ==
  /\ api \in [Names -> Maybe(Specs)]
  /\ store \in [Names -> Maybe(Specs)]
  /\ config \in [Names -> Maybe(Specs)]
  /\ pending \in Seq(Notification)
  /\ pc \in {"idle", "patch", "restart"}
  /\ cm \in Texts
  /\ pods \in [Pods -> Texts \cup {Down}]
  /\ tried \in {"not", "applied", "refused"}
  /\ faults \in SUBSET FaultKinds

Never(kinds) == faults \cap kinds = {}

\* A telegraf pod that runs another file than the ConfigMap holds is about to
\* be deleted, as long as every DeleteCollection succeeds and the process
\* lives: OnAdd and OnDelete delete the pods after the patch, also after a
\* refused one, which undoes nothing.
PodsFollowConfigMap ==
  Never({"restart", "crash"}) =>
    \A p \in Pods : pods[p] \notin {Down, cm} => pc = "restart"

Quiet == pc = "idle" /\ pending = <<>> /\ store = api

\* When all is quiet the ConfigMap holds the sections of exactly the stored
\* sinks, whatever was refused before the last patch and after any crash: every
\* patch publishes all sinks, and the first list of a new process calls OnAdd
\* for each.  The exceptions: the last patch was refused; a deletion was
\* missed; the last sinks were deleted while the process was down, and the new
\* process, with nothing to list, patches nothing.
Published ==
  Quiet /\ Never({"missed"}) =>
    \/ cm = String(api)
    \/ tried = "refused"
    \/ tried = "not" /\ Present(api) = {} /\ ~Never({"crash"})

UsersStop == <>[][UNCHANGED api]_vars

Loaded == \A p \in Pods : pods[p] \in {Down, String(api)}

\* After refused patches, failed restarts and crashes it is enough that sinks
\* are touched now and again: OnUpdate compares whole objects, so a change of
\* a label, or a new list, publishes everything once more.
TouchRepairs ==
  /\ UsersStop
  /\ [](Never({"missed"}))
  /\ []<><<\E n \in Names : Touch(n)>>_vars
  => <>[]Loaded

-----------------------------------------------------------------------------
Publisher == INSTANCE ConfigPublisher WITH
               Keys <- Names, Values <- Specs, Text <- String,
               Deployed <- emptyConfig,
               Refusable <- "patch" \in AllowedFaults,
               cfg <- config, out <- cm, dirty <- pc = "patch"

\* Every change the handler makes to the Config is published, in order and as
\* the Config stands, before it makes the next one; only a refused patch
\* leaves it to the next.
PublishesEverything == Publisher!Spec

=============================================================================
