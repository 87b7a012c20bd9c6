------------------------ MODULE MetricSinkController ------------------------
(***************************************************************************)
(* pkg/metric/controller.go: for every MetricSink the metric-controller    *)
(* keeps a telegraf of its own: a Role, a RoleBinding, a ConfigMap and a   *)
(* Deployment in the sink's namespace, each with an owner reference to the *)
(* sink, so that Kubernetes collects them when the sink is gone.           *)
(*                                                                         *)
(* The informer calls the handler from one goroutine.  A handler is a list *)
(* of API calls made one after the other and given up at the first error;  *)
(* todo holds the calls still to make, job the notification they are for.  *)
(***************************************************************************)
EXTENDS TelegrafConfig, Naturals, Sequences

CONSTANTS Specs,         \* the specs users may give a MetricSink
          Absent,        \* no sink, no ConfigMap, no pod
          MaxUid,        \* bound on the times a sink is created
          MaxPending,    \* bound on the listener's pendingNotifications
          AllowedFaults  \* the faults this instance may meet

FaultKinds == {"refused",  \* the API server refuses a call
               "lost",     \* it makes the change and the answer is lost
               "relist",   \* the watch breaks and the informer lists again
               "crash"}    \* the metric-controller process dies

ASSUME MetricAssumption ==
  /\ Specs \subseteq MetricSinkSpec
  /\ Absent \notin Specs
  /\ MaxUid \in Nat /\ MaxPending \in Nat
  /\ AllowedFaults \subseteq FaultKinds
  /\ \A n \in Names, v \in Specs : metricSinkConfig(n, v) # Absent

VARIABLES
  sinks,    \* the MetricSinks stored by the API server
  created,  \* how often each sink has been created: the last UID given
  store,    \* the informer's indexer
  pending,  \* pendingNotifications of the informer's listener
  job,      \* the notification the handler works on
  todo,     \* the API calls it has still to make for it
  owner,    \* the UID in each object's owner reference, 0 without the object
  conf,     \* the data of each telegraf ConfigMap
  pod,      \* each telegraf pod: its Deployment's owner, what it has loaded
  failed    \* history: a fault other than a re-list has been met

vars == <<sinks, created, store, pending, job, todo, owner, conf, pod, failed>>

Objects == {"Role", "RoleBinding", "ConfigMap", "Deployment"}
Uids == 1..MaxUid
Sink == [uid : Uids, spec : Specs]
Maybe(S) == S \cup {Absent}

(***************************************************************************)
(* meta: the new object has its Kind and APIVersion set.  A list's items   *)
(* have them; the codec of the typed client clears them on watch events.   *)
(***************************************************************************)
Notification == [type : {"add", "update", "deleted", "unknown"}, name : Names,
                 old : Maybe(Sink), new : Maybe(Sink), meta : BOOLEAN]

Idle == [type |-> "none"]

Call == [op : {"create", "update", "delete", "restart"}, obj : Objects \cup {"Pods"}]

Do(op, obj) == [op |-> op, obj |-> obj]

Init ==
  /\ sinks = [n \in Names |-> Absent]
  /\ created = [n \in Names |-> 0]
  /\ store = [n \in Names |-> Absent]
  /\ pending = <<>>
  /\ job = Idle
  /\ todo = <<>>
  /\ owner = [n \in Names |-> [o \in Objects |-> 0]]
  /\ conf = [n \in Names |-> Absent]
  /\ pod = [n \in Names |-> Absent]
  /\ failed = FALSE

-----------------------------------------------------------------------------
(***************************************************************************)
(* Users.  A sink created again has a new UID.                             *)
(***************************************************************************)
CreateSink(n, v) ==
  /\ sinks[n] = Absent /\ created[n] < MaxUid
  /\ created' = [created EXCEPT ![n] = @ + 1]
  /\ sinks' = [sinks EXCEPT ![n] = [uid |-> created'[n], spec |-> v]]
  /\ UNCHANGED <<store, pending, job, todo, owner, conf, pod, failed>>

UpdateSink(n, v) ==
  /\ sinks[n] # Absent /\ sinks[n].spec # v
  /\ sinks' = [sinks EXCEPT ![n].spec = v]
  /\ UNCHANGED <<created, store, pending, job, todo, owner, conf, pod, failed>>

DeleteSink(n) ==
  /\ sinks[n] # Absent
  /\ sinks' = [sinks EXCEPT ![n] = Absent]
  /\ UNCHANGED <<created, store, pending, job, todo, owner, conf, pod, failed>>

-----------------------------------------------------------------------------
(***************************************************************************)
(* The informer.  A watch shows a deletion and the creation that follows   *)
(* it as two events; a new list shows them as one update.                  *)
(***************************************************************************)
Room == Len(pending) < MaxPending

Enqueue(type, n, new, meta) ==
  /\ Room
  /\ store' = [store EXCEPT ![n] = new]
  /\ pending' = Append(pending, [type |-> type, name |-> n, old |-> store[n],
                                 new |-> new, meta |-> meta])
  /\ UNCHANGED <<sinks, created, job, todo, owner, conf, pod>>

Replaced(n) == store[n] # Absent /\ sinks[n] # Absent /\ store[n].uid # sinks[n].uid

WatchAdded(n) ==
  /\ store[n] = Absent /\ sinks[n] # Absent
  /\ Enqueue("add", n, sinks[n], FALSE)
  /\ UNCHANGED failed

WatchModified(n) ==
  /\ store[n] # Absent /\ sinks[n] # Absent
  /\ store[n] # sinks[n] /\ ~Replaced(n)
  /\ Enqueue("update", n, sinks[n], FALSE)
  /\ UNCHANGED failed

WatchDeleted(n) ==
  /\ store[n] # Absent
  /\ sinks[n] = Absent \/ Replaced(n)
  /\ Enqueue("deleted", n, Absent, FALSE)
  /\ UNCHANGED failed

\* The watch broke and the informer lists again.
List(n) ==
  /\ "relist" \in AllowedFaults
  /\ store[n] # sinks[n]
  /\ Enqueue(IF store[n] = Absent THEN "add" ELSE IF sinks[n] = Absent THEN "unknown"
             ELSE "update", n, sinks[n], TRUE)
  /\ UNCHANGED failed

\* The 30 second resync, and changes to an object's metadata.
Resync(n) ==
  /\ store[n] # Absent
  /\ Enqueue("update", n, store[n], TRUE)
  /\ UNCHANGED failed

-----------------------------------------------------------------------------
(***************************************************************************)
(* The handler: OnAdd, OnUpdate and OnDelete decide which calls to make.   *)
(***************************************************************************)
Receive(types, calls) ==
  /\ todo = <<>>
  /\ pending # <<>> /\ Head(pending).type \in types
  /\ pending' = Tail(pending)
  /\ todo' = calls
  /\ job' = IF calls = <<>> THEN Idle ELSE Head(pending)
  /\ UNCHANGED <<sinks, created, store, owner, conf, pod, failed>>

\* Mutant: the Deployment is created before the ConfigMap it mounts.
DeploymentFirst ==
  Receive({"add"}, <<Do("create", "Role"), Do("create", "RoleBinding"),
                     Do("create", "Deployment"), Do("create", "ConfigMap")>>)

\* Mutant: the RoleBinding is forgotten.
NoRoleBinding ==
  Receive({"add"}, <<Do("create", "Role"), Do("create", "ConfigMap"),
                     Do("create", "Deployment")>>)

OnAdd == Receive({"add"}, <<Do("create", "Role"), Do("create", "RoleBinding"),
                            Do("create", "ConfigMap"), Do("create", "Deployment")>>)

\* Mutant: the pod is left running.
NoRestart ==
  Receive({"update"},
          IF Head(pending).old.spec = Head(pending).new.spec THEN <<>>
          ELSE <<Do("update", "ConfigMap")>>)

OnUpdate ==
  Receive({"update"},
          IF Head(pending).old.spec = Head(pending).new.spec THEN <<>>
          ELSE <<Do("update", "ConfigMap"), Do("restart", "Pods")>>)

\* The type assertion fails for a DeletedFinalStateUnknown.
OnDelete ==
  Receive({"deleted", "unknown"},
          IF Head(pending).type = "unknown" THEN <<>>
          ELSE <<Do("delete", "ConfigMap"), Do("delete", "Deployment"),
                 Do("delete", "RoleBinding"), Do("delete", "Role")>>)

\* Mutant: the owner reference names no sink.
NoOwner == MaxUid + 1

\* getTelegrafRole, getTelegrafRoleBinding, getTelegrafConfigMap and
\* getTelegrafDeployment: the UID comes from the object the handler was given.
\* OnAdd defaults Kind and APIVersion, OnUpdate does not.
Uid == IF job.type = "deleted" THEN job.old.uid ELSE job.new.uid

OwnerRefComplete == job.type = "add" \/ job.meta

\* Whether the API server accepts the call (external).  It refuses an owner
\* reference whose kind or apiVersion is empty.
Accepted(c) ==
  CASE c.op = "create"  -> owner[job.name][c.obj] = 0 /\ OwnerRefComplete
    [] c.op = "update"  -> owner[job.name][c.obj] # 0 /\ OwnerRefComplete
    [] c.op = "delete"  -> owner[job.name][c.obj] # 0
    [] c.op = "restart" -> TRUE

Apply(c) ==
  /\ owner' = IF c.op = "restart" THEN owner
              ELSE [owner EXCEPT ![job.name][c.obj] = IF c.op = "delete" THEN 0 ELSE Uid]
  /\ conf' = IF c.obj # "ConfigMap" THEN conf
             ELSE [conf EXCEPT ![job.name] =
                     IF c.op = "delete" THEN Absent ELSE metricSinkConfig(job.name, job.new.spec)]
  /\ pod' = IF c.op = "restart" THEN [pod EXCEPT ![job.name] = Absent] ELSE pod

GoOn(calls) == todo' = calls /\ job' = IF calls = <<>> THEN Idle ELSE job

CallSucceeds ==
  /\ todo # <<>> /\ Accepted(Head(todo))
  /\ Apply(Head(todo))
  /\ GoOn(Tail(todo))
  /\ UNCHANGED <<sinks, created, store, pending, failed>>

\* An error is logged and the handler returns.
CallFails ==
  /\ todo # <<>> /\ ~Accepted(Head(todo))
  /\ GoOn(<<>>)
  /\ UNCHANGED <<sinks, created, store, pending, owner, conf, pod, failed>>

CallRefused ==
  /\ "refused" \in AllowedFaults
  /\ todo # <<>>
  /\ GoOn(<<>>)
  /\ failed' = TRUE
  /\ UNCHANGED <<sinks, created, store, pending, owner, conf, pod>>

AnswerLost ==
  /\ "lost" \in AllowedFaults
  /\ todo # <<>> /\ Accepted(Head(todo))
  /\ Apply(Head(todo))
  /\ GoOn(<<>>)
  /\ failed' = TRUE
  /\ UNCHANGED <<sinks, created, store, pending>>

\* The process dies and its Deployment starts it again with an empty memory.
Crash ==
  /\ "crash" \in AllowedFaults
  /\ store' = [n \in Names |-> Absent]
  /\ pending' = <<>>
  /\ GoOn(<<>>)
  /\ failed' = TRUE
  /\ UNCHANGED <<sinks, created, owner, conf, pod>>

-----------------------------------------------------------------------------
(***************************************************************************)
(* Kubernetes (external): the garbage collector deletes an object whose    *)
(* owner is gone; the Deployment's pod mounts the ConfigMap when it starts *)
(* and ends with its Deployment.                                           *)
(***************************************************************************)
Live(n, uid) == sinks[n] # Absent /\ sinks[n].uid = uid

Collect(n, o) ==
  /\ owner[n][o] \in Uids /\ ~Live(n, owner[n][o])
  /\ owner' = [owner EXCEPT ![n][o] = 0]
  /\ conf' = IF o = "ConfigMap" THEN [conf EXCEPT ![n] = Absent] ELSE conf
  /\ UNCHANGED <<sinks, created, store, pending, job, todo, pod, failed>>

StartPod(n) ==
  /\ pod[n] = Absent
  /\ owner[n]["Deployment"] # 0 /\ owner[n]["ConfigMap"] # 0
  /\ pod' = [pod EXCEPT ![n] = [dep |-> owner[n]["Deployment"], loaded |-> conf[n]]]
  /\ UNCHANGED <<sinks, created, store, pending, job, todo, owner, conf, failed>>

StopPod(n) ==
  /\ pod[n] # Absent /\ pod[n].dep # owner[n]["Deployment"]
  /\ pod' = [pod EXCEPT ![n] = Absent]
  /\ UNCHANGED <<sinks, created, store, pending, job, todo, owner, conf, failed>>

-----------------------------------------------------------------------------
Watch(n) == WatchAdded(n) \/ WatchModified(n) \/ WatchDeleted(n)
Handle == OnAdd \/ OnUpdate \/ OnDelete \/ CallSucceeds \/ CallFails

Next ==
  \/ \E n \in Names, v \in Specs : CreateSink(n, v) \/ UpdateSink(n, v)
  \/ \E n \in Names : DeleteSink(n) \/ Watch(n) \/ List(n) \/ Resync(n)
  \/ Handle \/ CallRefused \/ AnswerLost \/ Crash
  \/ \E n \in Names, o \in Objects : Collect(n, o)
  \/ \E n \in Names : StartPod(n) \/ StopPod(n)

Spec == Init /\ [][Next]_vars

(***************************************************************************)
(* Go runs the handler, the watch delivers, and the controllers of the     *)
(* cluster do their work.  Watch waits for Room only because of MaxPending *)
(* and so gets strong fairness.                                            *)
(***************************************************************************)
Fairness ==
  /\ WF_vars(Handle)
  /\ \A n \in Names : SF_vars(Watch(n))
  /\ \A n \in Names : WF_vars(StartPod(n)) /\ WF_vars(StopPod(n))
  /\ \A n \in Names, o \in Objects : WF_vars(Collect(n, o))

FairSpec == Spec /\ Fairness

-----------------------------------------------------------------------------
(***************************************************************************)
(* Properties.                                                             *)
(***************************************************************************)
Confs == {metricSinkConfig(n, v) : n \in Names, v \in Specs}

\* Every variable holds a value of its type; a ConfigMap has data.
TypeOK ==
  /\ sinks \in [Names -> Maybe(Sink)]
  /\ created \in [Names -> 0..MaxUid]
  /\ store \in [Names -> Maybe(Sink)]
  /\ pending \in Seq(Notification)
  /\ todo \in Seq(Call)
  /\ IF todo = <<>> THEN job = Idle ELSE job \in Notification
  /\ owner \in [Names -> [Objects -> 0..MaxUid]]
  /\ conf \in [Names -> Maybe(Confs)]
  /\ \A n \in Names : conf[n] = Absent <=> owner[n]["ConfigMap"] = 0
  /\ pod \in [Names -> Maybe([dep : Uids, loaded : Confs])]
  /\ failed \in BOOLEAN

\* OnAdd creates the Deployment last and gives up at the first error, so the
\* telegraf of a sink that still exists always has its Role, RoleBinding and
\* ConfigMap, all of the same sink: whatever is left over from a sink of the
\* same name, whatever fails, and whenever the process dies.
TelegrafComplete ==
  \A n \in Names :
    Live(n, owner[n]["Deployment"]) =>
      \A o \in Objects : owner[n][o] = owner[n]["Deployment"]

Restarting(n) == todo # <<>> /\ job.name = n /\ Head(todo).op = "restart"

\* A telegraf pod of the present Deployment that runs another configuration
\* than its ConfigMap is about to be deleted by OnUpdate, as long as no call
\* fails and the process lives; or the sink is gone and so is its ConfigMap.
PodFollowsConfigMap ==
  ~failed =>
    \A n \in Names :
      pod[n] # Absent /\ Live(n, pod[n].dep) /\ pod[n].loaded # conf[n] => Restarting(n)

Quiet == todo = <<>> /\ pending = <<>> /\ store = sinks

Complete(n) == \A o \in Objects : owner[n][o] = sinks[n].uid

\* When all is quiet every MetricSink has all four objects (OnAdd).
Provisioned == Quiet => \A n \in Names : sinks[n] # Absent => Complete(n)

\* What OnAdd does achieve: a sink that is the first of its name has all four
\* objects when all is quiet, as long as no call fails and the process lives,
\* however its creation, updates and re-lists are interleaved.
ProvisionedFirst ==
  Quiet /\ ~failed =>
    \A n \in Names : sinks[n] # Absent /\ created[n] = 1 => Complete(n)

\* When all is quiet the ConfigMap of a MetricSink shows its spec (OnUpdate).
ServesSpec ==
  Quiet => \A n \in Names : sinks[n] # Absent /\ owner[n]["ConfigMap"] = sinks[n].uid =>
             conf[n] = metricSinkConfig(n, sinks[n].spec)

\* Nothing of a sink that stays deleted is left: its four objects and its pod
\* disappear for good, through every failure OnDelete may meet, because every
\* object carries an owner reference and none is ever created without one.
NothingLeft ==
  \A n \in Names :
    <>[](sinks[n] = Absent) =>
      <>[](pod[n] = Absent /\ \A o \in Objects : owner[n][o] = 0)

=============================================================================
