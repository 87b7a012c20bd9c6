--------------------- MODULE MetricSinkControllerProofs ---------------------
(***************************************************************************)
(* Theorems about the MetricSink controller, for every set of sinks and    *)
(* specs, any number of creations, any bound on the notifications and any  *)
(* set of faults.                                                          *)
(***************************************************************************)
EXTENDS MetricSinkController, TLAPS

(***************************************************************************)
(* The calls of a handler.  While it works, todo is what remains of one of *)
(* three lists of calls, and Waiting holds the objects still to be called  *)
(* about.                                                                  *)
(***************************************************************************)
AddTodos == {<<Do("create", "Role"), Do("create", "RoleBinding"),
               Do("create", "ConfigMap"), Do("create", "Deployment")>>,
             <<Do("create", "RoleBinding"), Do("create", "ConfigMap"), Do("create", "Deployment")>>,
             <<Do("create", "ConfigMap"), Do("create", "Deployment")>>,
             <<Do("create", "Deployment")>>}

UpdateTodos == {<<Do("update", "ConfigMap"), Do("restart", "Pods")>>, <<Do("restart", "Pods")>>}

DeleteTodos == {<<Do("delete", "ConfigMap"), Do("delete", "Deployment"),
                  Do("delete", "RoleBinding"), Do("delete", "Role")>>,
                <<Do("delete", "Deployment"), Do("delete", "RoleBinding"), Do("delete", "Role")>>,
                <<Do("delete", "RoleBinding"), Do("delete", "Role")>>,
                <<Do("delete", "Role")>>}

Waiting(t) == {t[i].obj : i \in 1..Len(t)}

\* OnAdd creates one object after the other, the Deployment last.
LEMMA AddTodo ==
  ASSUME NEW t \in AddTodos
  PROVE  /\ t \in Seq(Call) /\ t # <<>> /\ Tail(t) \in AddTodos \cup {<<>>}
         /\ Head(t).op = "create" /\ Head(t).obj \in Objects
         /\ Waiting(t) = {Head(t).obj} \cup Waiting(Tail(t))
         /\ Head(t).obj \notin Waiting(Tail(t))
         /\ Waiting(t) \subseteq Objects
         /\ Head(t).obj = "Deployment" => Waiting(t) = {"Deployment"} /\ Tail(t) = <<>>
<1> USE DEF Do, Call, Objects, Waiting
<1>1. CASE t = <<Do("create", "Role"), Do("create", "RoleBinding"),
                 Do("create", "ConfigMap"), Do("create", "Deployment")>>
  BY <1>1 DEF AddTodos
<1>2. CASE t = <<Do("create", "RoleBinding"), Do("create", "ConfigMap"), Do("create", "Deployment")>>
  BY <1>2 DEF AddTodos
<1>3. CASE t = <<Do("create", "ConfigMap"), Do("create", "Deployment")>>
  BY <1>3 DEF AddTodos
<1>4. CASE t = <<Do("create", "Deployment")>>
  BY <1>4 DEF AddTodos
<1> QED
  BY <1>1, <1>2, <1>3, <1>4 DEF AddTodos

\* OnUpdate updates the ConfigMap and then deletes the pod.
LEMMA UpdateTodo ==
  ASSUME NEW t \in UpdateTodos
  PROVE  /\ t \in Seq(Call) /\ t # <<>> /\ Tail(t) \in UpdateTodos \cup {<<>>}
         /\ \/ Head(t) = Do("update", "ConfigMap") /\ Tail(t) = <<Do("restart", "Pods")>>
            \/ Head(t) = Do("restart", "Pods") /\ Tail(t) = <<>>
<1> USE DEF Do, Call, Objects
<1>1. CASE t = <<Do("update", "ConfigMap"), Do("restart", "Pods")>>
  BY <1>1 DEF UpdateTodos
<1>2. CASE t = <<Do("restart", "Pods")>>
  BY <1>2 DEF UpdateTodos
<1> QED
  BY <1>1, <1>2 DEF UpdateTodos

\* OnDelete deletes one object after the other.
LEMMA DeleteTodo ==
  ASSUME NEW t \in DeleteTodos
  PROVE  /\ t \in Seq(Call) /\ t # <<>> /\ Tail(t) \in DeleteTodos \cup {<<>>}
         /\ Head(t).op = "delete" /\ Head(t).obj \in Objects
<1> USE DEF Do, Call, Objects
<1>1. CASE t = <<Do("delete", "ConfigMap"), Do("delete", "Deployment"),
                 Do("delete", "RoleBinding"), Do("delete", "Role")>>
  BY <1>1 DEF DeleteTodos
<1>2. CASE t = <<Do("delete", "Deployment"), Do("delete", "RoleBinding"), Do("delete", "Role")>>
  BY <1>2 DEF DeleteTodos
<1>3. CASE t = <<Do("delete", "RoleBinding"), Do("delete", "Role")>>
  BY <1>3 DEF DeleteTodos
<1>4. CASE t = <<Do("delete", "Role")>>
  BY <1>4 DEF DeleteTodos
<1> QED
  BY <1>1, <1>2, <1>3, <1>4 DEF DeleteTodos

-----------------------------------------------------------------------------
(***************************************************************************)
(* The inductive invariant.                                                *)
(*                                                                         *)
(* NoteUid is the UID of the sink a notification speaks of.  UIDs only     *)
(* grow, so everything made for a sink is at most as new as whatever is    *)
(* still on its way to the handler: Reached(n, u) says so of the UID u.    *)
(***************************************************************************)
NoteUid(m) == IF m.type \in {"deleted", "unknown"} THEN m.old.uid ELSE m.new.uid

NoteOK(m) ==
  /\ m.type \in {"add", "update"} => m.new \in Sink
  /\ m.type \in {"update", "deleted", "unknown"} => m.old \in Sink

Working(n) == todo # <<>> /\ job.name = n

CallsInv ==
  /\ \A i \in 1..Len(pending) : NoteOK(pending[i])
  /\ todo # <<>> =>
       /\ NoteOK(job)
       /\ \/ job.type = "add" /\ todo \in AddTodos
          \/ job.type = "update" /\ todo \in UpdateTodos
          \/ job.type = "deleted" /\ todo \in DeleteTodos

Reached(n, u) ==
  /\ u <= created[n]
  /\ store[n] # Absent => u <= store[n].uid
  /\ \A i \in 1..Len(pending) : pending[i].name = n => u <= NoteUid(pending[i])
  /\ Working(n) => u <= NoteUid(job)

NewestInv ==
  \A n \in Names : /\ sinks[n] # Absent => sinks[n].uid = created[n]
                   /\ store[n] # Absent => store[n].uid <= created[n]

QueueInv ==
  /\ \A i \in 1..Len(pending) :
       LET m == pending[i] IN
       /\ NoteUid(m) <= created[m.name]
       /\ store[m.name] # Absent => NoteUid(m) <= store[m.name].uid
       /\ m.type = "deleted" => ~Live(m.name, NoteUid(m))
  /\ \A i, j \in 1..Len(pending) :
       i <= j /\ pending[i].name = pending[j].name => NoteUid(pending[i]) <= NoteUid(pending[j])

JobInv ==
  todo # <<>> =>
    /\ Reached(job.name, NoteUid(job))
    /\ job.type = "deleted" => ~Live(job.name, NoteUid(job))

MadeInv ==
  \A n \in Names :
    /\ \A o \in Objects : Reached(n, owner[n][o])
    /\ pod[n] # Absent => Reached(n, pod[n].dep)

ProgressInv ==
  todo # <<>> /\ job.type = "add" /\ Live(job.name, NoteUid(job)) =>
    \A o \in Objects \ Waiting(todo) : owner[job.name][o] = NoteUid(job)

PodInv ==
  \A n \in Names : pod[n] # Absent /\ Live(n, pod[n].dep) => owner[n]["Deployment"] = pod[n].dep

About(n) == {i \in 1..Len(pending) : pending[i].name = n}

All(n, u) == \A o \in Objects : owner[n][o] = u

First(n, u) ==
  /\ store[n] # Absent => store[n].uid = u
  /\ Working(n) => NoteUid(job) = u
  /\ store[n] = Absent => About(n) = {} /\ ~Working(n) /\ All(n, 0)
  /\ \A i \in About(n) :
       /\ pending[i].type \in {"add", "update"} /\ NoteUid(pending[i]) = u
       /\ pending[i].type = "add" => ~Working(n) /\ All(n, 0) /\ \A j \in About(n) : i <= j
  /\ Working(n) =>
       \/ job.type = "add" /\ \A o \in Objects : owner[n][o] = IF o \in Waiting(todo) THEN 0 ELSE u
       \/ job.type = "update" /\ All(n, u)
  /\ store[n] # Absent =>
       \/ \E i \in About(n) : pending[i].type = "add"
       \/ Working(n) /\ job.type = "add"
       \/ All(n, u)

FirstInv == ~failed => \A n \in Names : created[n] = 1 /\ sinks[n] # Absent => First(n, 1)

-----------------------------------------------------------------------------
(***************************************************************************)
(* Type correctness.                                                       *)
(***************************************************************************)

\* A queued notification is put last.
LEMMA AppendNote ==
  ASSUME NEW T, NEW q \in Seq(T), NEW m \in T
  PROVE  /\ Append(q, m) \in Seq(T)
         /\ Len(q) \in Nat /\ Len(Append(q, m)) = Len(q) + 1
         /\ Append(q, m)[Len(q) + 1] = m
         /\ \A i \in 1..Len(q) : Append(q, m)[i] = q[i]
         /\ \A i \in 1..Len(Append(q, m)) : i \in 1..Len(q) \/ i = Len(q) + 1
  OBVIOUS

\* The handler takes the first notification and leaves the rest in order.
LEMMA TailNote ==
  ASSUME NEW T, NEW q \in Seq(T), q # <<>>
  PROVE  /\ Tail(q) \in Seq(T)
         /\ Len(q) \in Nat /\ Len(q) >= 1 /\ 1 \in 1..Len(q)
         /\ Len(Tail(q)) = Len(q) - 1
         /\ Head(q) = q[1] /\ Head(q) \in T
         /\ \A i \in 1..Len(Tail(q)) : i + 1 \in 1..Len(q) /\ Tail(q)[i] = q[i + 1]
  OBVIOUS

\* A notification of the informer keeps the types.
LEMMA EnqueueType ==
  ASSUME TypeOK, CallsInv, NEW type \in {"add", "update", "deleted", "unknown"}, NEW n \in Names,
         NEW new \in Maybe(Sink), NEW meta \in BOOLEAN, Enqueue(type, n, new, meta), UNCHANGED failed,
         type \in {"add", "update"} => new \in Sink,
         type \in {"update", "deleted", "unknown"} => store[n] \in Sink
  PROVE  TypeOK' /\ CallsInv'
<1> DEFINE m == [type |-> type, name |-> n, old |-> store[n], new |-> new, meta |-> meta]
<1>1. m \in Notification /\ NoteOK(m)
  BY DEF Notification, NoteOK, TypeOK
<1>2. /\ pending' = Append(pending, m) /\ store' = [store EXCEPT ![n] = new]
      /\ UNCHANGED <<sinks, created, job, todo, owner, conf, pod, failed>>
  BY DEF Enqueue
<1> HIDE DEF m
<1>3. pending \in Seq(Notification)
  BY DEF TypeOK
<1>4. /\ pending' \in Seq(Notification) /\ Len(pending) \in Nat
      /\ pending'[Len(pending) + 1] = m
      /\ \A i \in 1..Len(pending) : pending'[i] = pending[i]
      /\ \A i \in 1..Len(pending') : i \in 1..Len(pending) \/ i = Len(pending) + 1
  BY <1>1, <1>2, <1>3, AppendNote
<1>5. TypeOK'
  BY <1>2, <1>4 DEF TypeOK
<1>6. \A i \in 1..Len(pending') : NoteOK(pending'[i])
  BY <1>1, <1>4 DEF CallsInv
<1>7. CallsInv'
  BY <1>2, <1>6 DEF CallsInv
<1> QED
  BY <1>5, <1>7

\* The handler takes a notification and begins its calls.
LEMMA ReceiveType ==
  ASSUME TypeOK, CallsInv, NEW types, NEW calls, Receive(types, calls),
         \/ calls = <<>>
         \/ Head(pending).type = "add" /\ calls \in AddTodos
         \/ Head(pending).type = "update" /\ calls \in UpdateTodos
         \/ Head(pending).type = "deleted" /\ calls \in DeleteTodos
  PROVE  TypeOK' /\ CallsInv'
<1>1. /\ pending # <<>> /\ pending' = Tail(pending) /\ todo' = calls
      /\ job' = IF calls = <<>> THEN Idle ELSE Head(pending)
      /\ UNCHANGED <<sinks, created, store, owner, conf, pod, failed>>
  BY DEF Receive
<1>2. pending \in Seq(Notification)
  BY DEF TypeOK
<1>3. /\ pending' \in Seq(Notification) /\ Len(pending) \in Nat /\ 1 \in 1..Len(pending)
      /\ Head(pending) = pending[1] /\ Head(pending) \in Notification
      /\ \A i \in 1..Len(pending') : i + 1 \in 1..Len(pending) /\ pending'[i] = pending[i + 1]
  BY <1>1, <1>2, TailNote
<1>4. calls \in Seq(Call)
  <2>1. <<>> \in Seq(Call)
    OBVIOUS
  <2>2. calls \in AddTodos \cup UpdateTodos \cup DeleteTodos => calls \in Seq(Call)
    BY AddTodo, UpdateTodo, DeleteTodo, Zenon
  <2> QED
    BY <2>1, <2>2
<1>5. TypeOK'
  BY <1>1, <1>3, <1>4 DEF TypeOK
<1>6. (\A i \in 1..Len(pending') : NoteOK(pending'[i])) /\ NoteOK(Head(pending))
  BY <1>3 DEF CallsInv
<1>7. CallsInv'
  BY <1>1, <1>6 DEF CallsInv
<1> QED
  BY <1>5, <1>7

\* The calls that OnAdd, OnUpdate and OnDelete begin with.
LEMMA ReceiveCalls ==
  ASSUME TypeOK, CallsInv, OnAdd \/ OnUpdate \/ OnDelete
  PROVE  \E types, calls :
           /\ Receive(types, calls)
           /\ \/ calls = <<>>
              \/ Head(pending).type = "add" /\ calls \in AddTodos /\ Waiting(calls) = Objects
              \/ Head(pending).type = "update" /\ calls \in UpdateTodos
                 /\ calls = <<Do("update", "ConfigMap"), Do("restart", "Pods")>>
              \/ Head(pending).type = "deleted" /\ calls \in DeleteTodos
<1>1. CASE OnAdd
  <2> DEFINE c == <<Do("create", "Role"), Do("create", "RoleBinding"),
                    Do("create", "ConfigMap"), Do("create", "Deployment")>>
  <2>1. c \in AddTodos
    BY DEF AddTodos
  <2>2. Waiting(c) = Objects
    BY DEF Waiting, Objects, Do
  <2>3. Receive({"add"}, c)
    BY <1>1 DEF OnAdd
  <2> HIDE DEF c
  <2>4. Head(pending).type = "add"
    BY <2>3 DEF Receive
  <2> QED
    BY <2>1, <2>2, <2>3, <2>4
<1>2. CASE OnUpdate
  <2> DEFINE u == <<Do("update", "ConfigMap"), Do("restart", "Pods")>>
             c == IF Head(pending).old.spec = Head(pending).new.spec THEN <<>> ELSE u
  <2>1. c = <<>> \/ (c \in UpdateTodos /\ c = u)
    BY DEF UpdateTodos
  <2>2. Receive({"update"}, c)
    BY <1>2 DEF OnUpdate
  <2> HIDE DEF c, u
  <2>3. Head(pending).type = "update"
    BY <2>2 DEF Receive
  <2>4. c = <<>> \/ (c \in UpdateTodos /\ c = <<Do("update", "ConfigMap"), Do("restart", "Pods")>>)
    BY <2>1 DEF u
  <2> QED
    BY <2>2, <2>3, <2>4
<1>3. CASE OnDelete
  <2> DEFINE d == <<Do("delete", "ConfigMap"), Do("delete", "Deployment"),
                    Do("delete", "RoleBinding"), Do("delete", "Role")>>
             c == IF Head(pending).type = "unknown" THEN <<>> ELSE d
  <2>1. c = <<>> \/ (c \in DeleteTodos /\ Head(pending).type # "unknown")
    BY DEF DeleteTodos
  <2>2. Receive({"deleted", "unknown"}, c)
    BY <1>3 DEF OnDelete
  <2> HIDE DEF c, d
  <2>3. Head(pending).type \in {"deleted", "unknown"}
    BY <2>2 DEF Receive
  <2> QED
    BY <2>1, <2>2, <2>3
<1> QED
  BY <1>1, <1>2, <1>3

\* What a call does that the API server accepts.
LEMMA CallMade ==
  ASSUME TypeOK, CallsInv, todo # <<>>, Accepted(Head(todo)), Apply(Head(todo))
  PROVE  LET n == job.name
             o == Head(todo).obj
             text == metricSinkConfig(job.name, job.new.spec)
         IN /\ n \in Names /\ NoteUid(job) \in Uids
            /\ \/ /\ job.type = "add" /\ o \in Objects /\ owner[n][o] = 0
                  /\ owner' = [owner EXCEPT ![n][o] = NoteUid(job)]
                  /\ conf' = (IF o = "ConfigMap" THEN [conf EXCEPT ![n] = text] ELSE conf)
                  /\ pod' = pod /\ text \in Confs
               \/ /\ job.type = "update" /\ o = "ConfigMap" /\ owner[n][o] # 0
                  /\ owner' = [owner EXCEPT ![n][o] = NoteUid(job)]
                  /\ conf' = [conf EXCEPT ![n] = text]
                  /\ pod' = pod /\ text \in Confs
                  /\ Tail(todo) = <<Do("restart", "Pods")>>
               \/ /\ job.type = "update" /\ Head(todo).op = "restart"
                  /\ pod' = [pod EXCEPT ![n] = Absent] /\ UNCHANGED <<owner, conf>>
               \/ /\ job.type = "deleted" /\ o \in Objects /\ owner[n][o] # 0
                  /\ owner' = [owner EXCEPT ![n][o] = 0]
                  /\ conf' = (IF o = "ConfigMap" THEN [conf EXCEPT ![n] = Absent] ELSE conf)
                  /\ pod' = pod
<1>1. job \in Notification /\ NoteOK(job)
  BY DEF TypeOK, CallsInv
<1>2. job.name \in Names
  BY <1>1 DEF Notification
<1>3. CASE job.type = "add"
  <2>1. job.new \in Sink /\ Head(todo).op = "create" /\ Head(todo).obj \in Objects
    BY <1>1, <1>3, AddTodo DEF NoteOK, CallsInv
  <2>2. NoteUid(job) = job.new.uid /\ Uid = job.new.uid /\ job.new.uid \in Uids /\ job.new.spec \in Specs
    BY <1>3, <2>1 DEF NoteUid, Uid, Sink
  <2>3. metricSinkConfig(job.name, job.new.spec) \in Confs
    BY <1>2, <2>2 DEF Confs
  <2>4. owner[job.name][Head(todo).obj] = 0
    BY <2>1 DEF Accepted
  <2> QED
    BY <1>2, <1>3, <2>1, <2>2, <2>3, <2>4 DEF Apply
<1>4. CASE job.type = "update"
  <2>1. job.new \in Sink /\ todo \in UpdateTodos
    BY <1>1, <1>4 DEF NoteOK, CallsInv
  <2>2. NoteUid(job) = job.new.uid /\ Uid = job.new.uid /\ job.new.uid \in Uids /\ job.new.spec \in Specs
    BY <1>4, <2>1 DEF NoteUid, Uid, Sink
  <2>3. metricSinkConfig(job.name, job.new.spec) \in Confs
    BY <1>2, <2>2 DEF Confs
  <2>4. CASE Head(todo) = Do("update", "ConfigMap") /\ Tail(todo) = <<Do("restart", "Pods")>>
    <3>1. Head(todo).op = "update" /\ Head(todo).obj = "ConfigMap"
      BY <2>4 DEF Do
    <3>2. owner[job.name][Head(todo).obj] # 0
      BY <3>1 DEF Accepted
    <3> QED
      BY <1>2, <1>4, <2>2, <2>3, <2>4, <3>1, <3>2 DEF Apply
  <2>5. CASE Head(todo) = Do("restart", "Pods")
    <3>1. Head(todo).op = "restart" /\ Head(todo).obj = "Pods"
      BY <2>5 DEF Do
    <3> QED
      BY <1>2, <1>4, <2>2, <3>1 DEF Apply
  <2> QED
    BY <2>1, <2>4, <2>5, UpdateTodo
<1>5. CASE job.type = "deleted"
  <2>1. job.old \in Sink /\ Head(todo).op = "delete" /\ Head(todo).obj \in Objects
    BY <1>1, <1>5, DeleteTodo DEF NoteOK, CallsInv
  <2>2. NoteUid(job) = job.old.uid /\ job.old.uid \in Uids
    BY <1>5, <2>1 DEF NoteUid, Sink
  <2>3. owner[job.name][Head(todo).obj] # 0
    BY <2>1 DEF Accepted
  <2> QED
    BY <1>2, <1>5, <2>1, <2>2, <2>3 DEF Apply
<1> QED
  BY <1>3, <1>4, <1>5 DEF CallsInv

\* A call keeps the types.
LEMMA ApplyType ==
  ASSUME TypeOK, CallsInv, todo # <<>>, Accepted(Head(todo)), Apply(Head(todo))
  PROVE  /\ owner' \in [Names -> [Objects -> 0..MaxUid]]
         /\ conf' \in [Names -> Maybe(Confs)]
         /\ \A n \in Names : conf'[n] = Absent <=> owner'[n]["ConfigMap"] = 0
         /\ pod' \in [Names -> Maybe([dep : Uids, loaded : Confs])]
<1> DEFINE k == job.name
           o == Head(todo).obj
           text == metricSinkConfig(job.name, job.new.spec)
           u == NoteUid(job)
<1>1. k \in Names /\ u \in Uids /\ u \in 0..MaxUid /\ u # 0 /\ 0 \in 0..MaxUid
  BY CallMade, MetricAssumption DEF Uids
<1>2. text \in Confs => text # Absent
  BY MetricAssumption DEF Confs
<1>3. /\ owner \in [Names -> [Objects -> 0..MaxUid]] /\ conf \in [Names -> Maybe(Confs)]
      /\ \A n \in Names : conf[n] = Absent <=> owner[n]["ConfigMap"] = 0
      /\ pod \in [Names -> Maybe([dep : Uids, loaded : Confs])]
  BY DEF TypeOK
<1>4. "ConfigMap" \in Objects
  BY DEF Objects
<1> HIDE DEF k, o, text, u
<1>5. \/ /\ o \in Objects /\ owner' = [owner EXCEPT ![k][o] = u] /\ pod' = pod /\ text \in Confs
         /\ conf' = (IF o = "ConfigMap" THEN [conf EXCEPT ![k] = text] ELSE conf)
      \/ pod' = [pod EXCEPT ![k] = Absent] /\ UNCHANGED <<owner, conf>>
      \/ /\ o \in Objects /\ owner' = [owner EXCEPT ![k][o] = 0] /\ pod' = pod
         /\ conf' = (IF o = "ConfigMap" THEN [conf EXCEPT ![k] = Absent] ELSE conf)
  BY <1>4, CallMade DEF k, o, text, u
<1>6. CASE /\ o \in Objects /\ owner' = [owner EXCEPT ![k][o] = u] /\ pod' = pod /\ text \in Confs
           /\ conf' = (IF o = "ConfigMap" THEN [conf EXCEPT ![k] = text] ELSE conf)
  BY <1>1, <1>2, <1>3, <1>4, <1>6 DEF Maybe
<1>7. CASE pod' = [pod EXCEPT ![k] = Absent] /\ UNCHANGED <<owner, conf>>
  BY <1>1, <1>3, <1>7 DEF Maybe
<1>8. CASE /\ o \in Objects /\ owner' = [owner EXCEPT ![k][o] = 0] /\ pod' = pod
           /\ conf' = (IF o = "ConfigMap" THEN [conf EXCEPT ![k] = Absent] ELSE conf)
  BY <1>1, <1>3, <1>4, <1>8 DEF Maybe
<1> QED
  BY <1>5, <1>6, <1>7, <1>8


\* The handler goes on with the rest of its calls, or gives up.
LEMMA GoOnType ==
  ASSUME TypeOK, CallsInv, todo # <<>>, NEW calls \in {<<>>, Tail(todo)}, GoOn(calls)
  PROVE  /\ todo' = calls
         /\ todo' \in Seq(Call) /\ IF todo' = <<>> THEN job' = Idle ELSE job' \in Notification
         /\ todo' # <<>> =>
              /\ job' = job /\ NoteOK(job)
              /\ \/ job.type = "add" /\ todo' \in AddTodos
                 \/ job.type = "update" /\ todo' \in UpdateTodos
                 \/ job.type = "deleted" /\ todo' \in DeleteTodos
<1>1. todo' = calls /\ job' = IF calls = <<>> THEN Idle ELSE job
  BY DEF GoOn
<1>2. CASE calls = <<>>
  BY <1>1, <1>2
<1>3. CASE calls # <<>>
  <2>1. calls = Tail(todo) /\ job \in Notification /\ NoteOK(job)
    BY <1>3 DEF TypeOK, CallsInv
  <2>2. \/ job.type = "add" /\ calls \in AddTodos
        \/ job.type = "update" /\ calls \in UpdateTodos
        \/ job.type = "deleted" /\ calls \in DeleteTodos
    <3>1. CASE job.type = "add" /\ todo \in AddTodos
      BY <1>3, <2>1, <3>1, AddTodo
    <3>2. CASE job.type = "update" /\ todo \in UpdateTodos
      BY <1>3, <2>1, <3>2, UpdateTodo
    <3>3. CASE job.type = "deleted" /\ todo \in DeleteTodos
      BY <1>3, <2>1, <3>3, DeleteTodo
    <3> QED
      BY <3>1, <3>2, <3>3 DEF CallsInv
  <2>3. calls \in Seq(Call)
    BY <2>1, TailNote DEF TypeOK
  <2> QED
    BY <1>1, <1>3, <2>1, <2>2, <2>3
<1> QED
  BY <1>2, <1>3

\* Every step keeps the types and the lists of calls.
LEMMA TypeStep == TypeOK /\ CallsInv /\ [Next]_vars => TypeOK' /\ CallsInv'
<1> SUFFICES ASSUME TypeOK, CallsInv, [Next]_vars PROVE TypeOK' /\ CallsInv'
  OBVIOUS
<1>1. ASSUME NEW n \in Names, NEW v \in Specs, CreateSink(n, v) PROVE TypeOK' /\ CallsInv'
  <2>1. created[n] + 1 \in Uids /\ created[n] + 1 \in 0..MaxUid
    BY <1>1, MetricAssumption DEF CreateSink, TypeOK, Uids
  <2>2. /\ created' = [created EXCEPT ![n] = created[n] + 1]
        /\ sinks' = [sinks EXCEPT ![n] = [uid |-> created[n] + 1, spec |-> v]]
        /\ UNCHANGED <<store, pending, job, todo, owner, conf, pod, failed>>
    BY <1>1 DEF CreateSink, TypeOK
  <2>3. [uid |-> created[n] + 1, spec |-> v] \in Maybe(Sink)
    BY <2>1 DEF Sink, Maybe
  <2>4. sinks' \in [Names -> Maybe(Sink)] /\ created' \in [Names -> 0..MaxUid]
    BY <2>1, <2>2, <2>3 DEF TypeOK
  <2> QED
    BY <2>2, <2>4 DEF TypeOK, CallsInv
<1>2. ASSUME NEW n \in Names, NEW v \in Specs, UpdateSink(n, v) PROVE TypeOK' /\ CallsInv'
  <2>1. sinks[n] \in Sink
    BY <1>2 DEF UpdateSink, TypeOK, Maybe
  <2>2. [sinks[n] EXCEPT !.spec = v] \in Sink
    BY <2>1 DEF Sink
  <2>3. sinks' = [sinks EXCEPT ![n] = [sinks[n] EXCEPT !.spec = v]]
    BY <1>2 DEF UpdateSink, TypeOK
  <2>4. sinks' \in [Names -> Maybe(Sink)]
    BY <2>2, <2>3 DEF TypeOK, Maybe
  <2> QED
    BY <1>2, <2>4 DEF UpdateSink, TypeOK, CallsInv
<1>3. ASSUME NEW n \in Names, DeleteSink(n) PROVE TypeOK' /\ CallsInv'
  BY <1>3 DEF DeleteSink, TypeOK, CallsInv, Maybe
<1>4. ASSUME NEW n \in Names, Watch(n) \/ List(n) \/ Resync(n) PROVE TypeOK' /\ CallsInv'
  <2>1. /\ sinks[n] \in Maybe(Sink) /\ store[n] \in Maybe(Sink) /\ Absent \in Maybe(Sink)
        /\ sinks[n] # Absent => sinks[n] \in Sink
        /\ store[n] # Absent => store[n] \in Sink
    BY DEF TypeOK, Maybe
  <2>2. ASSUME WatchAdded(n) \/ WatchModified(n) \/ WatchDeleted(n) PROVE TypeOK' /\ CallsInv'
    BY <2>1, <2>2, EnqueueType DEF WatchAdded, WatchModified, WatchDeleted
  <2>3. ASSUME List(n) PROVE TypeOK' /\ CallsInv'
    BY <2>1, <2>3, EnqueueType DEF List
  <2>4. ASSUME Resync(n) PROVE TypeOK' /\ CallsInv'
    BY <2>1, <2>4, EnqueueType DEF Resync
  <2> QED
    BY <1>4, <2>2, <2>3, <2>4 DEF Watch
<1>5. ASSUME OnAdd \/ OnUpdate \/ OnDelete PROVE TypeOK' /\ CallsInv'
  BY <1>5, ReceiveCalls, ReceiveType
<1>6. ASSUME CallSucceeds \/ CallFails \/ CallRefused \/ AnswerLost PROVE TypeOK' /\ CallsInv'
  <2>1. /\ todo # <<>> /\ UNCHANGED <<sinks, created, store, pending>>
        /\ failed' \in BOOLEAN
        /\ \E calls \in {<<>>, Tail(todo)} : GoOn(calls)
        /\ \/ UNCHANGED <<owner, conf, pod>>
           \/ Accepted(Head(todo)) /\ Apply(Head(todo))
    BY <1>6 DEF CallSucceeds, CallFails, CallRefused, AnswerLost, TypeOK
  <2>2. /\ owner' \in [Names -> [Objects -> 0..MaxUid]]
        /\ conf' \in [Names -> Maybe(Confs)]
        /\ \A n \in Names : conf'[n] = Absent <=> owner'[n]["ConfigMap"] = 0
        /\ pod' \in [Names -> Maybe([dep : Uids, loaded : Confs])]
    BY <2>1, ApplyType DEF TypeOK
  <2>3. /\ todo' \in Seq(Call) /\ IF todo' = <<>> THEN job' = Idle ELSE job' \in Notification
        /\ todo' # <<>> =>
              /\ job' = job /\ NoteOK(job)
              /\ \/ job.type = "add" /\ todo' \in AddTodos
                 \/ job.type = "update" /\ todo' \in UpdateTodos
                 \/ job.type = "deleted" /\ todo' \in DeleteTodos
    BY <2>1, GoOnType
  <2>4. TypeOK'
    BY <2>1, <2>2, <2>3 DEF TypeOK
  <2>5. CallsInv'
    BY <2>1, <2>3 DEF CallsInv
  <2> QED
    BY <2>4, <2>5
<1>7. ASSUME Crash PROVE TypeOK' /\ CallsInv'
  <2>1. <<>> \in Seq(Call) /\ <<>> \in Seq(Notification) /\ Len(<<>>) = 0
    OBVIOUS
  <2> QED
    BY <1>7, <2>1 DEF Crash, GoOn, TypeOK, CallsInv, Maybe
<1>8. ASSUME NEW n \in Names, NEW o \in Objects, Collect(n, o) PROVE TypeOK' /\ CallsInv'
  <2>1. 0 \in 0..MaxUid /\ "ConfigMap" \in Objects
    BY MetricAssumption DEF Objects
  <2>2. owner' = [owner EXCEPT ![n][o] = 0]
        /\ conf' = (IF o = "ConfigMap" THEN [conf EXCEPT ![n] = Absent] ELSE conf)
        /\ UNCHANGED <<sinks, created, store, pending, job, todo, pod, failed>>
    BY <1>8 DEF Collect
  <2>3. /\ owner' \in [Names -> [Objects -> 0..MaxUid]] /\ conf' \in [Names -> Maybe(Confs)]
        /\ \A k \in Names : conf'[k] = Absent <=> owner'[k]["ConfigMap"] = 0
    BY <2>1, <2>2 DEF TypeOK, Maybe
  <2> QED
    BY <2>2, <2>3 DEF TypeOK, CallsInv
<1>9. ASSUME NEW n \in Names, StartPod(n) PROVE TypeOK' /\ CallsInv'
  <2>1. owner[n]["Deployment"] \in Uids /\ conf[n] \in Confs
    BY <1>9 DEF StartPod, TypeOK, Maybe, Objects, Uids
  <2>2. pod' \in [Names -> Maybe([dep : Uids, loaded : Confs])]
    BY <1>9, <2>1 DEF StartPod, TypeOK, Maybe
  <2> QED
    BY <1>9, <2>2 DEF StartPod, TypeOK, CallsInv
<1>10. ASSUME NEW n \in Names, StopPod(n) PROVE TypeOK' /\ CallsInv'
  BY <1>10 DEF StopPod, TypeOK, CallsInv, Maybe
<1>11. CASE UNCHANGED vars
  BY <1>11 DEF vars, TypeOK, CallsInv
<1> QED
  BY <1>1, <1>2, <1>3, <1>4, <1>5, <1>6, <1>7, <1>8, <1>9, <1>10, <1>11 DEF Next, Handle

\* The initial state has its type.
LEMMA TypeInit == Init => TypeOK /\ CallsInv
<1> SUFFICES ASSUME Init PROVE TypeOK /\ CallsInv
  OBVIOUS
<1>1. <<>> \in Seq(Call) /\ <<>> \in Seq(Notification) /\ Len(<<>>) = 0 /\ 0 \in 0..MaxUid
  BY MetricAssumption
<1>2. "ConfigMap" \in Objects
  BY DEF Objects
<1>3. CallsInv
  BY <1>1 DEF Init, CallsInv
<1>4. /\ owner \in [Names -> [Objects -> 0..MaxUid]]
      /\ \A n \in Names : conf[n] = Absent <=> owner[n]["ConfigMap"] = 0
  BY <1>1, <1>2 DEF Init
<1>5. /\ sinks \in [Names -> Maybe(Sink)] /\ store \in [Names -> Maybe(Sink)]
      /\ conf \in [Names -> Maybe(Confs)] /\ pod \in [Names -> Maybe([dep : Uids, loaded : Confs])]
  BY DEF Init, Maybe
<1>6. /\ created \in [Names -> 0..MaxUid] /\ failed \in BOOLEAN
      /\ pending \in Seq(Notification) /\ todo \in Seq(Call)
      /\ IF todo = <<>> THEN job = Idle ELSE job \in Notification
  BY <1>1 DEF Init
<1> QED
  BY <1>3, <1>4, <1>5, <1>6 DEF TypeOK

\* The variables always hold values of their types, whatever fails: a
\* ConfigMap exists if and only if it has data, and a pod belongs to a sink.
THEOREM TypeCorrect == Spec => []TypeOK
  BY TypeInit, TypeStep, PTL DEF Spec


-----------------------------------------------------------------------------
(***************************************************************************)
(* The order of UIDs.                                                      *)
(***************************************************************************)
OrderInv == NewestInv /\ QueueInv /\ JobInv /\ MadeInv

\* Reached(n, u)', for a u that does not change.
ReachedNext(n, u) ==
  /\ u <= created'[n]
  /\ store'[n] # Absent => u <= store'[n].uid
  /\ \A i \in 1..Len(pending') : pending'[i].name = n => u <= NoteUid(pending'[i])
  /\ todo' # <<>> /\ job'.name = n => u <= NoteUid(job')

\* A notification speaks of a sink and of its UID.
LEMMA NoteUidType ==
  ASSUME NEW m \in Notification, NoteOK(m)
  PROVE  m.name \in Names /\ NoteUid(m) \in Uids /\ NoteUid(m) \in Nat
<1>1. m.type \in {"add", "update", "deleted", "unknown"} /\ m.name \in Names
  BY DEF Notification
<1>2. \A s \in Sink : s.uid \in Uids
  BY DEF Sink
<1>3. NoteUid(m) \in Uids
  BY <1>1, <1>2 DEF NoteOK, NoteUid
<1> QED
  BY <1>1, <1>3, MetricAssumption DEF Uids

\* The numbers that are compared.
LEMMA UidTypes ==
  ASSUME TypeOK, CallsInv
  PROVE  /\ \A n \in Names : /\ created[n] \in Nat
                             /\ sinks[n] # Absent => sinks[n] \in Sink /\ sinks[n].uid \in Nat /\ sinks[n].uid # 0
                             /\ store[n] # Absent => store[n] \in Sink /\ store[n].uid \in Nat
                             /\ \A o \in Objects : owner[n][o] \in Nat
                             /\ pod[n] # Absent => pod[n].dep \in Nat
         /\ \A i \in 1..Len(pending) : pending[i] \in Notification /\ pending[i].name \in Names
                                       /\ NoteUid(pending[i]) \in Nat
         /\ todo # <<>> => job.name \in Names /\ NoteUid(job) \in Nat
<1>1. \A n \in Names : /\ created[n] \in Nat
                       /\ sinks[n] # Absent => sinks[n] \in Sink /\ sinks[n].uid \in Nat /\ sinks[n].uid # 0
                       /\ store[n] # Absent => store[n] \in Sink /\ store[n].uid \in Nat
                       /\ \A o \in Objects : owner[n][o] \in Nat
                       /\ pod[n] # Absent => pod[n].dep \in Nat
  <2>1. /\ \A u \in Uids : u \in Nat /\ u # 0
        /\ \A u \in 0..MaxUid : u \in Nat
        /\ \A s \in Sink : s.uid \in Uids
    BY MetricAssumption DEF Uids, Sink
  <2> SUFFICES ASSUME NEW n \in Names
               PROVE  /\ created[n] \in Nat
                      /\ sinks[n] # Absent => sinks[n] \in Sink /\ sinks[n].uid \in Nat /\ sinks[n].uid # 0
                      /\ store[n] # Absent => store[n] \in Sink /\ store[n].uid \in Nat
                      /\ \A o \in Objects : owner[n][o] \in Nat
                      /\ pod[n] # Absent => pod[n].dep \in Nat
    OBVIOUS
  <2>2. created[n] \in 0..MaxUid /\ sinks[n] \in Sink \cup {Absent} /\ store[n] \in Sink \cup {Absent}
    BY DEF TypeOK, Maybe
  <2>3. \A o \in Objects : owner[n][o] \in 0..MaxUid
    BY DEF TypeOK
  <2>4. pod[n] # Absent => pod[n].dep \in Uids
    BY DEF TypeOK, Maybe
  <2> QED
    BY <2>1, <2>2, <2>3, <2>4
<1>2. pending \in Seq(Notification)
  BY DEF TypeOK
<1>3. \A i \in 1..Len(pending) : pending[i] \in Notification
  BY <1>2
<1>4. \A i \in 1..Len(pending) : pending[i].name \in Names /\ NoteUid(pending[i]) \in Nat
  BY <1>3, NoteUidType DEF CallsInv
<1>5. todo # <<>> => job.name \in Names /\ NoteUid(job) \in Nat
  BY NoteUidType DEF CallsInv, TypeOK
<1> QED
  BY <1>1, <1>3, <1>4, <1>5

\* The informer queues the newest it knows of a sink.
Newest(n, new, u) ==
  /\ u \in Nat /\ u <= created[n]
  /\ store[n] # Absent => store[n].uid <= u
  /\ store[n] = Absent => u = created[n]
  /\ new # Absent => new.uid = u

\* What the informer's steps queue.
LEMMA Enqueued ==
  ASSUME TypeOK, CallsInv, NewestInv, NEW n \in Names, Watch(n) \/ List(n) \/ Resync(n)
  PROVE  \E m \in Notification :
           /\ m.name = n /\ m.old = store[n] /\ NoteOK(m) /\ Newest(n, m.new, NoteUid(m))
           /\ m.type = "deleted" => ~Live(n, NoteUid(m)) /\ m.new = Absent
           /\ m.type = "add" <=> store[n] = Absent
           /\ m.type \in {"deleted", "unknown"} =>
                sinks[n] = Absent \/ (store[n] # Absent /\ store[n].uid # sinks[n].uid)
           /\ m.type # "deleted" => m.new = sinks[n] \/ (m.new = store[n] /\ store[n] # Absent)
           /\ pending' = Append(pending, m) /\ store' = [store EXCEPT ![n] = m.new]
           /\ UNCHANGED <<sinks, created, job, todo, owner, conf, pod, failed>>
<1> DEFINE Note(type, new, meta) ==
             [type |-> type, name |-> n, old |-> store[n], new |-> new, meta |-> meta]
<1>1. /\ created[n] \in Nat /\ sinks[n] \in Maybe(Sink) /\ store[n] \in Maybe(Sink)
      /\ sinks[n] # Absent => sinks[n] \in Sink /\ sinks[n].uid \in Nat /\ sinks[n].uid = created[n]
      /\ store[n] # Absent => store[n] \in Sink /\ store[n].uid \in Nat /\ store[n].uid <= created[n]
  BY UidTypes DEF TypeOK, NewestInv
<1>2. ASSUME NEW type, NEW new, NEW meta, Enqueue(type, n, new, meta), UNCHANGED failed
      PROVE  /\ pending' = Append(pending, Note(type, new, meta))
             /\ store' = [store EXCEPT ![n] = Note(type, new, meta).new]
             /\ UNCHANGED <<sinks, created, job, todo, owner, conf, pod, failed>>
  BY <1>2 DEF Enqueue
<1>3. ASSUME NEW type \in {"add", "update", "deleted", "unknown"}, NEW new \in Maybe(Sink),
             NEW meta \in BOOLEAN
      PROVE  /\ Note(type, new, meta) \in Notification
             /\ Note(type, new, meta).type = type /\ Note(type, new, meta).name = n
             /\ Note(type, new, meta).old = store[n] /\ Note(type, new, meta).new = new
  BY <1>1 DEF Notification
<1> HIDE DEF Note
<1>4. CASE WatchAdded(n)
  <2>1. store[n] = Absent /\ sinks[n] # Absent /\ Enqueue("add", n, sinks[n], FALSE) /\ UNCHANGED failed
    BY <1>4 DEF WatchAdded
  <2> DEFINE m == Note("add", sinks[n], FALSE)
  <2>2. m \in Notification /\ m.type = "add" /\ m.name = n /\ m.old = store[n] /\ m.new = sinks[n]
    BY <1>1, <1>3
  <2>3. pending' = Append(pending, m) /\ store' = [store EXCEPT ![n] = m.new]
        /\ UNCHANGED <<sinks, created, job, todo, owner, conf, pod, failed>>
    BY <1>2, <2>1
  <2> HIDE DEF m
  <2>4. NoteUid(m) = sinks[n].uid /\ NoteOK(m)
    BY <1>1, <2>1, <2>2 DEF NoteUid, NoteOK
  <2>5. Newest(n, m.new, NoteUid(m))
    BY <1>1, <2>1, <2>2, <2>4 DEF Newest
  <2> QED
    BY <2>1, <2>2, <2>3, <2>4, <2>5
<1>5. CASE WatchModified(n)
  <2>1. store[n] # Absent /\ sinks[n] # Absent /\ Enqueue("update", n, sinks[n], FALSE) /\ UNCHANGED failed
    BY <1>5 DEF WatchModified
  <2> DEFINE m == Note("update", sinks[n], FALSE)
  <2>2. m \in Notification /\ m.type = "update" /\ m.name = n /\ m.old = store[n] /\ m.new = sinks[n]
    BY <1>1, <1>3
  <2>3. pending' = Append(pending, m) /\ store' = [store EXCEPT ![n] = m.new]
        /\ UNCHANGED <<sinks, created, job, todo, owner, conf, pod, failed>>
    BY <1>2, <2>1
  <2> HIDE DEF m
  <2>4. NoteUid(m) = sinks[n].uid /\ NoteOK(m)
    BY <1>1, <2>1, <2>2 DEF NoteUid, NoteOK
  <2>5. Newest(n, m.new, NoteUid(m))
    BY <1>1, <2>1, <2>2, <2>4 DEF Newest
  <2> QED
    BY <2>1, <2>2, <2>3, <2>4, <2>5
<1>6. CASE WatchDeleted(n)
  <2>1. /\ store[n] # Absent /\ (sinks[n] = Absent \/ store[n].uid # sinks[n].uid)
        /\ Enqueue("deleted", n, Absent, FALSE) /\ UNCHANGED failed
    BY <1>6 DEF WatchDeleted, Replaced
  <2> DEFINE m == Note("deleted", Absent, FALSE)
  <2>2. m \in Notification /\ m.type = "deleted" /\ m.name = n /\ m.old = store[n] /\ m.new = Absent
    BY <1>1, <1>3 DEF Maybe
  <2>3. pending' = Append(pending, m) /\ store' = [store EXCEPT ![n] = m.new]
        /\ UNCHANGED <<sinks, created, job, todo, owner, conf, pod, failed>>
    BY <1>2, <2>1
  <2> HIDE DEF m
  <2>4. NoteUid(m) = store[n].uid /\ NoteOK(m)
    BY <1>1, <2>1, <2>2 DEF NoteUid, NoteOK
  <2>5. Newest(n, m.new, NoteUid(m)) /\ ~Live(n, NoteUid(m))
    BY <1>1, <2>1, <2>2, <2>4 DEF Newest, Live
  <2> QED
    BY <2>1, <2>2, <2>3, <2>4, <2>5
<1>7. CASE List(n)
  <2> DEFINE type == IF store[n] = Absent THEN "add" ELSE IF sinks[n] = Absent THEN "unknown"
                     ELSE "update"
  <2>1. store[n] # sinks[n] /\ Enqueue(type, n, sinks[n], TRUE) /\ UNCHANGED failed
    BY <1>7 DEF List
  <2> DEFINE m == Note(type, sinks[n], TRUE)
  <2>2. m \in Notification /\ m.type = type /\ m.name = n /\ m.old = store[n] /\ m.new = sinks[n]
    BY <1>1, <1>3
  <2>3. pending' = Append(pending, m) /\ store' = [store EXCEPT ![n] = m.new]
        /\ UNCHANGED <<sinks, created, job, todo, owner, conf, pod, failed>>
    BY <1>2, <2>1
  <2> HIDE DEF m
  <2>4. NoteUid(m) = (IF sinks[n] = Absent THEN store[n].uid ELSE sinks[n].uid) /\ NoteOK(m)
    BY <1>1, <2>1, <2>2 DEF NoteUid, NoteOK
  <2>5. Newest(n, m.new, NoteUid(m))
    BY <1>1, <2>1, <2>2, <2>4 DEF Newest
  <2> QED
    BY <2>1, <2>2, <2>3, <2>4, <2>5
<1>8. CASE Resync(n)
  <2>1. store[n] # Absent /\ Enqueue("update", n, store[n], TRUE) /\ UNCHANGED failed
    BY <1>8 DEF Resync
  <2> DEFINE m == Note("update", store[n], TRUE)
  <2>2. m \in Notification /\ m.type = "update" /\ m.name = n /\ m.old = store[n] /\ m.new = store[n]
    BY <1>1, <1>3
  <2>3. pending' = Append(pending, m) /\ store' = [store EXCEPT ![n] = m.new]
        /\ UNCHANGED <<sinks, created, job, todo, owner, conf, pod, failed>>
    BY <1>2, <2>1
  <2> HIDE DEF m
  <2>4. NoteUid(m) = store[n].uid /\ NoteOK(m)
    BY <1>1, <2>1, <2>2 DEF NoteUid, NoteOK
  <2>5. Newest(n, m.new, NoteUid(m))
    BY <1>1, <2>1, <2>2, <2>4 DEF Newest
  <2> QED
    BY <2>1, <2>2, <2>3, <2>4, <2>5
<1> QED
  BY <1>4, <1>5, <1>6, <1>7, <1>8 DEF Watch


\* Whatever is at most as new as all that is on its way stays so.
LEMMA ReachedStep ==
  ASSUME TypeOK, CallsInv, NewestInv, [Next]_vars, NEW n \in Names, NEW u \in Nat, Reached(n, u)
  PROVE  ReachedNext(n, u)
<1> USE DEF Reached, ReachedNext, Working
<1>1. ASSUME UNCHANGED <<store, pending, job, todo>>, created[n] <= created'[n], created'[n] \in Nat
      PROVE  ReachedNext(n, u)
  BY <1>1, UidTypes
<1>2. ASSUME NEW k \in Names, NEW v \in Specs, CreateSink(k, v) PROVE ReachedNext(n, u)
  <2>1. created[n] \in Nat /\ created'[n] \in Nat /\ created[n] <= created'[n]
    BY <1>2, UidTypes DEF CreateSink, TypeOK
  <2> QED
    BY <1>1, <1>2, <2>1 DEF CreateSink
<1>3. ASSUME NEW k \in Names, Watch(k) \/ List(k) \/ Resync(k) PROVE ReachedNext(n, u)
  <2>1. PICK m \in Notification :
          /\ m.name = k /\ NoteOK(m) /\ Newest(k, m.new, NoteUid(m))
          /\ pending' = Append(pending, m) /\ store' = [store EXCEPT ![k] = m.new]
          /\ UNCHANGED <<created, job, todo>>
    BY <1>3, Enqueued
  <2>2. pending \in Seq(Notification)
    BY DEF TypeOK
  <2>3. /\ pending'[Len(pending) + 1] = m
        /\ \A i \in 1..Len(pending) : pending'[i] = pending[i]
        /\ \A i \in 1..Len(pending') : i \in 1..Len(pending) \/ i = Len(pending) + 1
    BY <2>1, <2>2, AppendNote
  <2>4. n = k => u <= NoteUid(m)
    BY <2>1, UidTypes DEF Newest
  <2>5. store'[n] # Absent => u <= store'[n].uid
    BY <2>1, <2>4 DEF Newest, TypeOK
  <2>6. \A i \in 1..Len(pending') : pending'[i].name = n => u <= NoteUid(pending'[i])
    BY <2>1, <2>3, <2>4
  <2> QED
    BY <2>1, <2>5, <2>6
<1>4. ASSUME OnAdd \/ OnUpdate \/ OnDelete PROVE ReachedNext(n, u)
  <2>1. PICK types, calls : Receive(types, calls)
    BY <1>4, ReceiveCalls
  <2>2. /\ pending # <<>> /\ pending' = Tail(pending) /\ UNCHANGED <<created, store>>
        /\ todo' = calls /\ job' = IF calls = <<>> THEN Idle ELSE Head(pending)
    BY <2>1 DEF Receive
  <2>3. /\ 1 \in 1..Len(pending) /\ Head(pending) = pending[1]
        /\ \A i \in 1..Len(pending') : i + 1 \in 1..Len(pending) /\ pending'[i] = pending[i + 1]
    BY <2>2, TailNote DEF TypeOK
  <2> QED
    BY <2>2, <2>3
<1>5. ASSUME CallSucceeds \/ CallFails \/ CallRefused \/ AnswerLost PROVE ReachedNext(n, u)
  <2>1. /\ UNCHANGED <<created, store, pending>> /\ todo # <<>>
        /\ todo' = <<>> \/ job' = job
    BY <1>5 DEF CallSucceeds, CallFails, CallRefused, AnswerLost, GoOn
  <2> QED
    BY <2>1
<1>6. ASSUME Crash PROVE ReachedNext(n, u)
  <2>1. Len(<<>>) = 0
    OBVIOUS
  <2> QED
    BY <1>6, <2>1 DEF Crash, GoOn
<1>7. CASE UNCHANGED <<created, store, pending, job, todo>>
  BY <1>7
<1> QED
  BY <1>2, <1>3, <1>4, <1>5, <1>6, <1>7
     DEF Next, Handle, vars, UpdateSink, DeleteSink, Collect, StartPod, StopPod

\* A sink that is gone never comes back under its UID.
LEMMA DeadStep ==
  ASSUME TypeOK, CallsInv, NewestInv, [Next]_vars, NEW n \in Names, NEW u \in Nat, u <= created[n],
         sinks'[n] # Absent, sinks'[n].uid = u
  PROVE  sinks[n] # Absent /\ sinks[n].uid = u
<1>1. ASSUME NEW k \in Names, NEW v \in Specs, CreateSink(k, v) PROVE sinks' [n] = sinks[n]
  <2>1. /\ created[k] \in Nat /\ created'[k] = created[k] + 1
        /\ sinks' = [sinks EXCEPT ![k] = [uid |-> created'[k], spec |-> v]]
    BY <1>1, UidTypes DEF CreateSink, TypeOK
  <2>2. n # k
    BY <2>1 DEF TypeOK
  <2> QED
    BY <2>1, <2>2 DEF TypeOK
<1>2. ASSUME NEW k \in Names, NEW v \in Specs, UpdateSink(k, v)
      PROVE  sinks[n] # Absent /\ sinks[n].uid = u
  <2>1. sinks[k] # Absent /\ sinks' = [sinks EXCEPT ![k].spec = v]
    BY <1>2 DEF UpdateSink
  <2>2. CASE n = k
    <3>1. sinks[n] \in Sink /\ sinks'[n] = [sinks[n] EXCEPT !.spec = v]
      BY <2>1, <2>2 DEF TypeOK, Maybe
    <3>2. sinks'[n].uid = sinks[n].uid
      BY <3>1 DEF Sink
    <3> QED
      BY <2>1, <2>2, <3>2
  <2>3. CASE n # k
    BY <2>1, <2>3 DEF TypeOK
  <2> QED
    BY <2>2, <2>3
<1>3. ASSUME NEW k \in Names, DeleteSink(k) PROVE sinks[n] # Absent /\ sinks[n].uid = u
  BY <1>3 DEF DeleteSink, TypeOK
<1>4. CASE UNCHANGED sinks
  BY <1>4
<1> QED
  BY <1>1, <1>2, <1>3, <1>4
     DEF Next, Handle, vars, Watch, WatchAdded, WatchModified, WatchDeleted, List, Resync, Enqueue,
         OnAdd, OnUpdate, OnDelete, Receive, CallSucceeds, CallFails, CallRefused, AnswerLost,
         Crash, Collect, StartPod, StopPod

\* One owner reference is written and the others stay.
LEMMA OwnerExcept ==
  ASSUME NEW f \in [Names -> [Objects -> 0..MaxUid]], NEW k \in Names, NEW x \in Objects, NEW u
  PROVE  \A n \in Names, o \in Objects :
           [f EXCEPT ![k][x] = u][n][o] = IF n = k /\ o = x THEN u ELSE f[n][o]
  OBVIOUS

\* The UIDs in owner references and pods: old ones, none, or the handler's.
LEMMA OwnerStep ==
  ASSUME TypeOK, CallsInv, [Next]_vars, NEW n \in Names
  PROVE  /\ \A o \in Objects : \/ owner'[n][o] \in {owner[n][o], 0}
                               \/ Working(n) /\ owner'[n][o] = NoteUid(job)
         /\ pod'[n] # Absent => \/ pod[n] # Absent /\ pod'[n] = pod[n]
                                \/ pod'[n].dep = owner[n]["Deployment"]
<1>1. ASSUME CallSucceeds \/ CallFails \/ CallRefused \/ AnswerLost
      PROVE  /\ \A o \in Objects : \/ owner'[n][o] \in {owner[n][o], 0}
                                   \/ Working(n) /\ owner'[n][o] = NoteUid(job)
             /\ pod'[n] # Absent => pod[n] # Absent /\ pod'[n] = pod[n]
  <2>1. /\ todo # <<>>
        /\ \/ UNCHANGED <<owner, conf, pod>>
           \/ Accepted(Head(todo)) /\ Apply(Head(todo))
    BY <1>1 DEF CallSucceeds, CallFails, CallRefused, AnswerLost
  <2>2. CASE UNCHANGED <<owner, conf, pod>>
    BY <2>2
  <2>3. CASE Accepted(Head(todo)) /\ Apply(Head(todo))
    <3> DEFINE k == job.name
               x == Head(todo).obj
    <3>1. /\ k \in Names
          /\ \/ x \in Objects /\ owner' = [owner EXCEPT ![k][x] = NoteUid(job)] /\ pod' = pod
             \/ pod' = [pod EXCEPT ![k] = Absent] /\ owner' = owner
             \/ x \in Objects /\ owner' = [owner EXCEPT ![k][x] = 0] /\ pod' = pod
      BY <2>1, <2>3, CallMade DEF Objects
    <3>2. Working(n) <=> n = k
      BY <2>1 DEF Working
    <3> HIDE DEF k, x
    <3>3. CASE x \in Objects /\ owner' = [owner EXCEPT ![k][x] = NoteUid(job)] /\ pod' = pod
      BY <3>1, <3>2, <3>3, OwnerExcept DEF TypeOK
    <3>4. CASE pod' = [pod EXCEPT ![k] = Absent] /\ owner' = owner
      BY <3>1, <3>4 DEF TypeOK
    <3>5. CASE x \in Objects /\ owner' = [owner EXCEPT ![k][x] = 0] /\ pod' = pod
      BY <3>1, <3>5, OwnerExcept DEF TypeOK
    <3> QED
      BY <3>1, <3>3, <3>4, <3>5
  <2> QED
    BY <2>1, <2>2, <2>3
<1>2. ASSUME NEW k \in Names, NEW x \in Objects, Collect(k, x)
      PROVE  (\A o \in Objects : owner'[n][o] \in {owner[n][o], 0}) /\ pod' = pod
  BY <1>2 DEF Collect, TypeOK
<1>3. ASSUME NEW k \in Names, StartPod(k) \/ StopPod(k)
      PROVE  /\ owner' = owner
             /\ pod'[n] # Absent => \/ pod[n] # Absent /\ pod'[n] = pod[n]
                                    \/ pod'[n].dep = owner[n]["Deployment"]
  BY <1>3 DEF StartPod, StopPod, TypeOK
<1>4. CASE UNCHANGED <<owner, pod>>
  BY <1>4
<1> QED
  BY <1>1, <1>2, <1>3, <1>4
     DEF Next, Handle, vars, Watch, WatchAdded, WatchModified, WatchDeleted, List, Resync, Enqueue,
         CreateSink, UpdateSink, DeleteSink, OnAdd, OnUpdate, OnDelete, Receive, Crash

\* Nothing is ever made for a sink newer than those still to be handled.
LEMMA MadeStep ==
  ASSUME TypeOK, CallsInv, OrderInv, [Next]_vars
  PROVE  MadeInv'
<1>1. ASSUME NEW n \in Names, NEW u \in Nat, Reached(n, u) PROVE ReachedNext(n, u)
  BY <1>1, ReachedStep DEF OrderInv
<1>2. ASSUME NEW n \in Names PROVE ReachedNext(n, 0)
  <2>1. Reached(n, 0)
    BY UidTypes DEF Reached, Working
  <2> QED
    BY <1>1, <2>1
<1>3. ASSUME NEW n \in Names, NEW o \in Objects PROVE ReachedNext(n, owner[n][o])
  BY <1>1, UidTypes DEF OrderInv, MadeInv
<1>4. ASSUME NEW n \in Names, Working(n) PROVE ReachedNext(n, NoteUid(job))
  BY <1>1, <1>4, UidTypes DEF OrderInv, JobInv, Working
<1>5. ASSUME NEW n \in Names, NEW o \in Objects PROVE ReachedNext(n, owner'[n][o])
  BY <1>2, <1>3, <1>4, OwnerStep
<1>6. ASSUME NEW n \in Names, pod'[n] # Absent PROVE ReachedNext(n, pod'[n].dep)
  <2>1. CASE pod[n] # Absent /\ pod'[n] = pod[n]
    BY <1>1, <2>1, UidTypes DEF OrderInv, MadeInv
  <2>2. CASE pod'[n].dep = owner[n]["Deployment"]
    BY <1>3, <2>2 DEF Objects
  <2> QED
    BY <1>6, <2>1, <2>2, OwnerStep
<1> QED
  BY <1>5, <1>6 DEF MadeInv, Reached, ReachedNext, Working

\* The initial state satisfies the order of UIDs.
LEMMA OrderInit == Init => OrderInv
<1> SUFFICES ASSUME Init PROVE OrderInv
  OBVIOUS
<1>1. Len(<<>>) = 0
  OBVIOUS
<1>2. NewestInv /\ QueueInv /\ JobInv
  BY <1>1 DEF Init, NewestInv, QueueInv, JobInv
<1>3. \A n \in Names : Reached(n, 0)
  <2>1. /\ pending = <<>> /\ todo = <<>>
        /\ \A n \in Names : created[n] = 0 /\ store[n] = Absent
    BY DEF Init
  <2>2. \A i \in 1..Len(pending) : FALSE
    BY <1>1, <2>1
  <2>3. 0 <= 0
    OBVIOUS
  <2>4. \A n \in Names : 0 <= created[n] /\ store[n] = Absent /\ ~Working(n)
    BY <2>1, <2>3, Zenon DEF Working
  <2> QED
    BY <2>2, <2>4, Zenon DEF Reached
<1>4. MadeInv
  BY <1>3 DEF Init, MadeInv
<1> QED
  BY <1>2, <1>4 DEF OrderInv

\* A sink's UID is the last given, and the informer knows none newer.
LEMMA NewestStep ==
  ASSUME TypeOK, CallsInv, NewestInv, [Next]_vars
  PROVE  NewestInv'
<1> SUFFICES ASSUME NEW n \in Names
             PROVE  /\ sinks'[n] # Absent => sinks'[n].uid = created'[n]
                    /\ store'[n] # Absent => store'[n].uid <= created'[n]
  BY DEF NewestInv
<1>0. /\ created[n] \in Nat /\ (store[n] # Absent => store[n].uid \in Nat /\ store[n].uid <= created[n])
      /\ sinks[n] # Absent => sinks[n] \in Sink /\ sinks[n].uid = created[n]
  BY UidTypes DEF NewestInv
<1>1. ASSUME NEW k \in Names, NEW v \in Specs, CreateSink(k, v)
      PROVE  /\ sinks'[n] # Absent => sinks'[n].uid = created'[n]
             /\ store'[n] # Absent => store'[n].uid <= created'[n]
  <2>1. /\ created' = [created EXCEPT ![k] = created[k] + 1] /\ store' = store
        /\ sinks' = [sinks EXCEPT ![k] = [uid |-> created'[k], spec |-> v]]
    BY <1>1 DEF CreateSink, TypeOK
  <2>2. CASE n = k
    BY <1>0, <2>1, <2>2 DEF TypeOK
  <2>3. CASE n # k
    BY <1>0, <2>1, <2>3 DEF TypeOK
  <2> QED
    BY <2>2, <2>3
<1>2. ASSUME NEW k \in Names, NEW v \in Specs, UpdateSink(k, v)
      PROVE  /\ sinks'[n] # Absent => sinks'[n].uid = created'[n]
             /\ store'[n] # Absent => store'[n].uid <= created'[n]
  <2>1. sinks[k] # Absent /\ sinks' = [sinks EXCEPT ![k].spec = v] /\ UNCHANGED <<created, store>>
    BY <1>2 DEF UpdateSink
  <2>2. CASE n = k
    <3>1. sinks'[n].uid = sinks[n].uid
      BY <1>0, <2>1, <2>2 DEF TypeOK, Sink
    <3> QED
      BY <1>0, <2>1, <2>2, <3>1
  <2>3. CASE n # k
    BY <1>0, <2>1, <2>3 DEF TypeOK
  <2> QED
    BY <2>2, <2>3
<1>3. ASSUME NEW k \in Names, DeleteSink(k)
      PROVE  /\ sinks'[n] # Absent => sinks'[n].uid = created'[n]
             /\ store'[n] # Absent => store'[n].uid <= created'[n]
  BY <1>0, <1>3 DEF DeleteSink, TypeOK
<1>4. ASSUME NEW k \in Names, Watch(k) \/ List(k) \/ Resync(k)
      PROVE  /\ sinks'[n] # Absent => sinks'[n].uid = created'[n]
             /\ store'[n] # Absent => store'[n].uid <= created'[n]
  <2>1. PICK m \in Notification :
          /\ Newest(k, m.new, NoteUid(m)) /\ store' = [store EXCEPT ![k] = m.new]
          /\ UNCHANGED <<sinks, created>>
    BY <1>4, Enqueued
  <2> QED
    BY <1>0, <2>1 DEF Newest, TypeOK
<1>5. ASSUME Crash
      PROVE  /\ sinks'[n] # Absent => sinks'[n].uid = created'[n]
             /\ store'[n] # Absent => store'[n].uid <= created'[n]
  BY <1>0, <1>5 DEF Crash
<1>6. CASE UNCHANGED <<sinks, created, store>>
  BY <1>0, <1>6
<1> QED
  BY <1>1, <1>2, <1>3, <1>4, <1>5, <1>6
     DEF Next, Handle, vars, OnAdd, OnUpdate, OnDelete, Receive, CallSucceeds, CallFails,
         CallRefused, AnswerLost, Collect, StartPod, StopPod

\* Notifications are queued in the order of the sinks they speak of, and a
\* deletion is only told of a sink that is gone.
LEMMA QueueStep ==
  ASSUME TypeOK, CallsInv, NewestInv, QueueInv, [Next]_vars
  PROVE  QueueInv'
<1> DEFINE Old(m) == /\ NoteUid(m) <= created[m.name]
                     /\ store[m.name] # Absent => NoteUid(m) <= store[m.name].uid
                     /\ m.type = "deleted" => ~(sinks[m.name] # Absent /\ sinks[m.name].uid = NoteUid(m))
           Good(m) == /\ NoteUid(m) <= created'[m.name]
                      /\ store'[m.name] # Absent => NoteUid(m) <= store'[m.name].uid
                      /\ m.type = "deleted" => ~(sinks'[m.name] # Absent /\ sinks'[m.name].uid = NoteUid(m))
           Fine == /\ \A i \in 1..Len(pending') : Good(pending'[i])
                   /\ \A i, j \in 1..Len(pending') :
                        i <= j /\ pending'[i].name = pending'[j].name =>
                          NoteUid(pending'[i]) <= NoteUid(pending'[j])
<1>0. /\ \A i \in 1..Len(pending) : Old(pending[i])
      /\ \A i, j \in 1..Len(pending) :
           i <= j /\ pending[i].name = pending[j].name => NoteUid(pending[i]) <= NoteUid(pending[j])
  BY DEF QueueInv, Live
<1>1. /\ pending \in Seq(Notification) /\ Len(pending) \in Nat
      /\ \A i \in 1..Len(pending) : pending[i].name \in Names /\ NoteUid(pending[i]) \in Nat
  <2>1. pending \in Seq(Notification)
    BY DEF TypeOK
  <2>2. \A i \in 1..Len(pending) : pending[i].name \in Names /\ NoteUid(pending[i]) \in Nat
    BY UidTypes
  <2> QED
    BY <2>1, <2>2
<1>2. \A i \in 1..Len(pending) : pending[i].type = "deleted" =>
        ~(sinks'[pending[i].name] # Absent /\ sinks'[pending[i].name].uid = NoteUid(pending[i]))
  BY <1>0, <1>1, DeadStep
<1>3. ASSUME UNCHANGED <<store, pending>>, \A n \in Names : created'[n] \in Nat /\ created[n] <= created'[n]
      PROVE  Fine
  BY <1>0, <1>1, <1>2, <1>3, UidTypes
<1>4. ASSUME NEW k \in Names, NEW v \in Specs, CreateSink(k, v) PROVE Fine
  <2>1. \A n \in Names : created'[n] \in Nat /\ created[n] <= created'[n]
    BY <1>4, UidTypes DEF CreateSink, TypeOK
  <2> QED
    BY <1>3, <1>4, <2>1 DEF CreateSink
<1>5. ASSUME NEW k \in Names, Watch(k) \/ List(k) \/ Resync(k) PROVE Fine
  <2>1. PICK m \in Notification :
          /\ m.name = k /\ NoteOK(m) /\ Newest(k, m.new, NoteUid(m))
          /\ m.type = "deleted" => ~Live(k, NoteUid(m))
          /\ pending' = Append(pending, m) /\ store' = [store EXCEPT ![k] = m.new]
          /\ UNCHANGED <<sinks, created>>
    BY <1>5, Enqueued
  <2>2. /\ pending'[Len(pending) + 1] = m
        /\ \A i \in 1..Len(pending) : pending'[i] = pending[i]
        /\ \A i \in 1..Len(pending') : i \in 1..Len(pending) \/ i = Len(pending) + 1
    BY <1>1, <2>1, AppendNote
  <2>3. Good(m)
    BY <2>1 DEF Newest, Live, TypeOK
  <2>4. \A i \in 1..Len(pending) : pending[i].name = k => NoteUid(pending[i]) <= NoteUid(m)
    BY <1>0, <1>1, <2>1, UidTypes DEF Newest
  <2>5. \A i \in 1..Len(pending) : Good(pending[i])
    <3> SUFFICES ASSUME NEW i \in 1..Len(pending) PROVE Good(pending[i])
      OBVIOUS
    <3>1. CASE pending[i].name = k
      BY <1>0, <1>1, <1>2, <2>1, <2>4, <3>1 DEF Newest, TypeOK
    <3>2. CASE pending[i].name # k
      BY <1>0, <1>1, <1>2, <2>1, <3>2 DEF TypeOK
    <3> QED
      BY <3>1, <3>2
  <2> HIDE DEF Good
  <2>6. \A i \in 1..Len(pending') : Good(pending'[i])
    BY <2>2, <2>3, <2>5
  <2>7. ASSUME NEW i \in 1..Len(pending'), NEW j \in 1..Len(pending'),
               i <= j, pending'[i].name = pending'[j].name
        PROVE  NoteUid(pending'[i]) <= NoteUid(pending'[j])
    <3>1. CASE j \in 1..Len(pending)
      BY <1>0, <1>1, <2>2, <2>7, <3>1
    <3>2. CASE j = Len(pending) + 1 /\ i \in 1..Len(pending)
      BY <2>1, <2>2, <2>4, <2>7, <3>2
    <3>3. CASE j = i
      BY <2>1, <2>2, <2>7, <3>3, <1>1 DEF Newest
    <3> QED
      BY <1>1, <2>2, <2>7, <3>1, <3>2, <3>3
  <2> QED
    BY <2>6, <2>7
<1>6. ASSUME OnAdd \/ OnUpdate \/ OnDelete PROVE Fine
  <2>1. PICK types, calls : Receive(types, calls)
    BY <1>6, ReceiveCalls
  <2>2. pending # <<>> /\ pending' = Tail(pending) /\ UNCHANGED <<sinks, created, store>>
    BY <2>1 DEF Receive
  <2>3. /\ Len(pending') = Len(pending) - 1
        /\ \A i \in 1..Len(pending') : i + 1 \in 1..Len(pending) /\ pending'[i] = pending[i + 1]
    BY <1>1, <2>2, TailNote
  <2>4. \A i \in 1..Len(pending') : Good(pending'[i])
    BY <1>0, <2>2, <2>3
  <2>5. ASSUME NEW i \in 1..Len(pending'), NEW j \in 1..Len(pending'),
               i <= j, pending'[i].name = pending'[j].name
        PROVE  NoteUid(pending'[i]) <= NoteUid(pending'[j])
    <3>1. i + 1 <= j + 1
      BY <2>5
    <3> QED
      BY <1>0, <2>3, <2>5, <3>1
  <2> QED
    BY <2>4, <2>5
<1>7. ASSUME Crash PROVE Fine
  <2>1. Len(<<>>) = 0
    OBVIOUS
  <2> QED
    BY <1>7, <2>1 DEF Crash
<1>8. ASSUME UNCHANGED <<created, store, pending>> PROVE Fine
  <2>1. \A n \in Names : created'[n] \in Nat /\ created[n] <= created'[n]
    BY <1>8, UidTypes
  <2> QED
    BY <1>3, <1>8, <2>1
<1>9. Fine
  <2> HIDE DEF Fine
  <2> QED
    BY <1>4, <1>5, <1>6, <1>7, <1>8
       DEF Next, Handle, vars, UpdateSink, DeleteSink, CallSucceeds, CallFails, CallRefused,
           AnswerLost, Collect, StartPod, StopPod
<1> QED
  BY <1>9 DEF QueueInv, Live

\* The handler works for a sink no newer than those it will hear of.
LEMMA JobStep ==
  ASSUME TypeOK, CallsInv, OrderInv, [Next]_vars
  PROVE  JobInv'
<1> SUFFICES ASSUME todo' # <<>>
             PROVE  /\ ReachedNext(job'.name, NoteUid(job'))
                    /\ job'.type = "deleted" =>
                         ~(sinks'[job'.name] # Absent /\ sinks'[job'.name].uid = NoteUid(job'))
  BY DEF JobInv, Live, Reached, ReachedNext, Working
<1>1. ASSUME todo # <<>>, job' = job
      PROVE  /\ ReachedNext(job'.name, NoteUid(job'))
             /\ job'.type = "deleted" =>
                  ~(sinks'[job'.name] # Absent /\ sinks'[job'.name].uid = NoteUid(job'))
  <2>1. /\ job.name \in Names /\ NoteUid(job) \in Nat /\ Reached(job.name, NoteUid(job))
        /\ job.type = "deleted" => ~Live(job.name, NoteUid(job))
    BY <1>1, UidTypes DEF OrderInv, JobInv
  <2>2. NoteUid(job) <= created[job.name]
    BY <2>1 DEF Reached
  <2>3. ReachedNext(job.name, NoteUid(job))
    BY <2>1, ReachedStep DEF OrderInv
  <2>4. job.type = "deleted" => ~(sinks'[job.name] # Absent /\ sinks'[job.name].uid = NoteUid(job))
    BY <2>1, <2>2, DeadStep DEF OrderInv, Live
  <2> QED
    BY <1>1, <2>3, <2>4
<1>2. ASSUME OnAdd \/ OnUpdate \/ OnDelete
      PROVE  /\ ReachedNext(job'.name, NoteUid(job'))
             /\ job'.type = "deleted" =>
                  ~(sinks'[job'.name] # Absent /\ sinks'[job'.name].uid = NoteUid(job'))
  <2>1. PICK types, calls : Receive(types, calls)
    BY <1>2, ReceiveCalls
  <2>2. pending # <<>> /\ pending' = Tail(pending) /\ UNCHANGED <<sinks, created, store>>
        /\ job' = Head(pending)
    BY <2>1 DEF Receive
  <2>3. /\ Len(pending) \in Nat /\ 1 \in 1..Len(pending) /\ Head(pending) = pending[1]
        /\ \A i \in 1..Len(pending') : i + 1 \in 1..Len(pending) /\ pending'[i] = pending[i + 1]
    BY <2>2, TailNote DEF TypeOK
  <2> DEFINE m == pending[1]
  <2>4. NoteUid(m) \in Nat /\ job' = m
    BY <2>2, <2>3, UidTypes
  <2>5. /\ NoteUid(m) <= created[m.name]
        /\ store[m.name] # Absent => NoteUid(m) <= store[m.name].uid
        /\ m.type = "deleted" => ~Live(m.name, NoteUid(m))
        /\ \A j \in 1..Len(pending) : m.name = pending[j].name => NoteUid(m) <= NoteUid(pending[j])
    BY <2>3 DEF OrderInv, QueueInv
  <2> HIDE DEF m
  <2>6. \A i \in 1..Len(pending') : pending'[i].name = m.name => NoteUid(m) <= NoteUid(pending'[i])
    BY <2>3, <2>5
  <2> QED
    BY <2>2, <2>4, <2>5, <2>6 DEF ReachedNext, Live
<1>3. ASSUME CallSucceeds \/ CallFails \/ CallRefused \/ AnswerLost \/ Crash
      PROVE  todo # <<>> /\ job' = job
  BY <1>3 DEF CallSucceeds, CallFails, CallRefused, AnswerLost, Crash, GoOn
<1>4. CASE UNCHANGED <<job, todo>>
  BY <1>1, <1>4
<1> QED
  BY <1>1, <1>2, <1>3, <1>4
     DEF Next, Handle, vars, UpdateSink, DeleteSink, CreateSink, Collect, StartPod, StopPod, Watch,
         WatchAdded, WatchModified, WatchDeleted, List, Resync, Enqueue

\* Every step keeps the order of UIDs.
LEMMA OrderStep == TypeOK /\ CallsInv /\ OrderInv /\ [Next]_vars => OrderInv'
  BY NewestStep, QueueStep, JobStep, MadeStep DEF OrderInv

-----------------------------------------------------------------------------
(***************************************************************************)
(* A telegraf is complete.                                                 *)
(***************************************************************************)

\* The kinds of step.
LEMMA StepKinds ==
  ASSUME [Next]_vars
  PROVE  \/ UNCHANGED <<job, todo, owner, conf, pod, failed>>
         \/ (OnAdd \/ OnUpdate \/ OnDelete) /\ UNCHANGED <<sinks, owner, conf, pod, failed>>
         \/ CallSucceeds
         \/ CallFails
         \/ AnswerLost
         \/ CallRefused /\ UNCHANGED <<sinks, owner, conf, pod>> /\ todo' = <<>> /\ failed' = TRUE
         \/ Crash /\ UNCHANGED <<sinks, owner, conf, pod>> /\ todo' = <<>> /\ failed' = TRUE
         \/ \E n \in Names, o \in Objects : Collect(n, o)
         \/ \E n \in Names : StartPod(n) \/ StopPod(n)
  BY DEF Next, Handle, vars, CreateSink, UpdateSink, DeleteSink, Watch, WatchAdded, WatchModified,
         WatchDeleted, List, Resync, Enqueue, OnAdd, OnUpdate, OnDelete, Receive, CallRefused,
         Crash, GoOn

\* Of a sink that exists the handler hears nothing older any more, once
\* something has been made for it.
LEMMA LiveFacts ==
  ASSUME TypeOK, CallsInv, OrderInv, NEW n \in Names, NEW u \in Nat, Live(n, u)
  PROVE  /\ u # 0 /\ u = created[n]
         /\ Reached(n, u) /\ Working(n) => NoteUid(job) = u /\ job.type # "deleted"
<1>1. u = sinks[n].uid /\ u # 0 /\ u = created[n]
  BY UidTypes DEF Live, OrderInv, NewestInv
<1>2. ASSUME Reached(n, u), Working(n) PROVE NoteUid(job) = u /\ job.type # "deleted"
  <2>1. job.name = n /\ todo # <<>> /\ NoteUid(job) \in Nat
    BY <1>2, UidTypes DEF Working
  <2>2. u <= NoteUid(job) /\ NoteUid(job) <= created[n]
    BY <1>2, <2>1 DEF Reached, OrderInv, JobInv
  <2>3. NoteUid(job) = u
    BY <1>1, <2>1, <2>2
  <2> QED
    BY <2>1, <2>3 DEF OrderInv, JobInv
<1> QED
  BY <1>1, <1>2

\* A sink that exists after a step, and for which something was made before
\* it, existed before it.
LEMMA LiveStep ==
  ASSUME TypeOK, CallsInv, OrderInv, [Next]_vars, NEW n \in Names, NEW u \in Nat, Reached(n, u),
         sinks'[n] # Absent, sinks'[n].uid = u
  PROVE  Live(n, u)
  BY DeadStep DEF OrderInv, Reached, Live

\* What a call that is accepted changes, in the terms of the proofs below.
LEMMA CallCases ==
  ASSUME TypeOK, CallsInv, OrderInv, CallSucceeds \/ AnswerLost
  PROVE  LET k == job.name
             x == Head(todo).obj
         IN /\ todo # <<>> /\ k \in Names /\ Working(k) /\ UNCHANGED <<sinks, created, store, pending>>
            /\ \/ /\ job.type = "add" /\ x \in Objects /\ owner[k][x] = 0 /\ pod' = pod
                  /\ \A n \in Names, o \in Objects :
                       owner'[n][o] = IF n = k /\ o = x THEN NoteUid(job) ELSE owner[n][o]
                  /\ \A n \in Names : n # k \/ x # "ConfigMap" => conf'[n] = conf[n]
               \/ /\ job.type = "update" /\ x = "ConfigMap" /\ pod' = pod
                  /\ \A n \in Names, o \in Objects :
                       owner'[n][o] = IF n = k /\ o = x THEN NoteUid(job) ELSE owner[n][o]
                  /\ \A n \in Names : n # k => conf'[n] = conf[n]
                  /\ Tail(todo) = <<Do("restart", "Pods")>>
               \/ /\ job.type = "update" /\ Head(todo).op = "restart" /\ UNCHANGED <<owner, conf>>
                  /\ \A n \in Names : pod'[n] = IF n = k THEN Absent ELSE pod[n]
               \/ /\ job.type = "deleted" /\ x \in Objects /\ pod' = pod
                  /\ \A n \in Names, o \in Objects :
                       owner'[n][o] = IF n = k /\ o = x THEN 0 ELSE owner[n][o]
                  /\ \A n \in Names : n # k => conf'[n] = conf[n]
<1> DEFINE k == job.name
           x == Head(todo).obj
           text == metricSinkConfig(job.name, job.new.spec)
<1>1. /\ todo # <<>> /\ Accepted(Head(todo)) /\ Apply(Head(todo))
      /\ UNCHANGED <<sinks, created, store, pending>>
  BY DEF CallSucceeds, AnswerLost
<1>2. k \in Names /\ Working(k)
  BY <1>1, UidTypes DEF Working
<1>3. owner \in [Names -> [Objects -> 0..MaxUid]] /\ DOMAIN conf = Names /\ DOMAIN pod = Names
  BY DEF TypeOK
<1>4. "ConfigMap" \in Objects
  BY DEF Objects
<1>5. \/ /\ job.type = "add" /\ x \in Objects /\ owner[k][x] = 0
         /\ owner' = [owner EXCEPT ![k][x] = NoteUid(job)]
         /\ conf' = (IF x = "ConfigMap" THEN [conf EXCEPT ![k] = text] ELSE conf)
         /\ pod' = pod
      \/ /\ job.type = "update" /\ x = "ConfigMap"
         /\ owner' = [owner EXCEPT ![k][x] = NoteUid(job)]
         /\ conf' = [conf EXCEPT ![k] = text]
         /\ pod' = pod
         /\ Tail(todo) = <<Do("restart", "Pods")>>
      \/ /\ job.type = "update" /\ Head(todo).op = "restart"
         /\ pod' = [pod EXCEPT ![k] = Absent] /\ UNCHANGED <<owner, conf>>
      \/ /\ job.type = "deleted" /\ x \in Objects
         /\ owner' = [owner EXCEPT ![k][x] = 0]
         /\ conf' = (IF x = "ConfigMap" THEN [conf EXCEPT ![k] = Absent] ELSE conf)
         /\ pod' = pod
  BY <1>1, CallMade
<1> HIDE DEF k, x, text
<1>6. ASSUME x \in Objects, NEW u, owner' = [owner EXCEPT ![k][x] = u]
      PROVE  \A n \in Names, o \in Objects : owner'[n][o] = IF n = k /\ o = x THEN u ELSE owner[n][o]
  BY <1>2, <1>3, <1>6, OwnerExcept
<1>7. ASSUME NEW v, conf' = [conf EXCEPT ![k] = v] PROVE \A n \in Names : n # k => conf'[n] = conf[n]
  BY <1>3, <1>7
<1>8. ASSUME pod' = [pod EXCEPT ![k] = Absent]
      PROVE  \A n \in Names : pod'[n] = IF n = k THEN Absent ELSE pod[n]
  BY <1>3, <1>8
<1>9. \A n \in Names : conf' = conf => conf'[n] = conf[n]
  OBVIOUS
<1>10. \/ /\ job.type = "add" /\ x \in Objects /\ owner[k][x] = 0 /\ pod' = pod
          /\ \A n \in Names, o \in Objects :
               owner'[n][o] = IF n = k /\ o = x THEN NoteUid(job) ELSE owner[n][o]
          /\ \A n \in Names : n # k \/ x # "ConfigMap" => conf'[n] = conf[n]
       \/ /\ job.type = "update" /\ x = "ConfigMap" /\ pod' = pod
          /\ \A n \in Names, o \in Objects :
               owner'[n][o] = IF n = k /\ o = x THEN NoteUid(job) ELSE owner[n][o]
          /\ \A n \in Names : n # k => conf'[n] = conf[n]
          /\ Tail(todo) = <<Do("restart", "Pods")>>
       \/ /\ job.type = "update" /\ Head(todo).op = "restart" /\ UNCHANGED <<owner, conf>>
          /\ \A n \in Names : pod'[n] = IF n = k THEN Absent ELSE pod[n]
       \/ /\ job.type = "deleted" /\ x \in Objects /\ pod' = pod
          /\ \A n \in Names, o \in Objects :
               owner'[n][o] = IF n = k /\ o = x THEN 0 ELSE owner[n][o]
          /\ \A n \in Names : n # k => conf'[n] = conf[n]
  BY <1>4, <1>5, <1>6, <1>7, <1>8
<1> QED
  BY <1>1, <1>2, <1>10 DEF k, x

\* OnAdd has made what it has called for, as long as its sink exists.
LEMMA ProgressStep ==
  ASSUME TypeOK, CallsInv, OrderInv, ProgressInv, [Next]_vars
  PROVE  ProgressInv'
<1> SUFFICES ASSUME todo' # <<>>, job'.type = "add",
                    sinks'[job'.name] # Absent, sinks'[job'.name].uid = NoteUid(job'),
                    NEW o \in Objects \ Waiting(todo')
             PROVE  owner'[job'.name][o] = NoteUid(job')
  BY DEF ProgressInv, Live
<1>1. ASSUME todo # <<>>, job' = job PROVE Live(job.name, NoteUid(job))
  BY <1>1, LiveStep, UidTypes DEF OrderInv, JobInv
<1>2. CASE UNCHANGED <<job, todo, owner>>
  BY <1>1, <1>2 DEF ProgressInv
<1>3. CASE OnAdd \/ OnUpdate \/ OnDelete
  <2>1. PICK types, calls :
          /\ Receive(types, calls)
          /\ \/ calls = <<>>
             \/ Head(pending).type = "add" /\ Waiting(calls) = Objects
             \/ Head(pending).type = "update"
             \/ Head(pending).type = "deleted"
    BY <1>3, ReceiveCalls
  <2>2. todo' = calls /\ job' = Head(pending)
    BY <2>1 DEF Receive
  <2> QED
    BY <2>1, <2>2
<1>4. CASE CallSucceeds
  <2>1. todo # <<>> /\ todo' = Tail(todo) /\ job' = job
    BY <1>4 DEF CallSucceeds, GoOn
  <2>2. todo \in AddTodos
    BY <2>1 DEF CallsInv
  <2>3. Waiting(todo) = {Head(todo).obj} \cup Waiting(todo')
    BY <2>1, <2>2, AddTodo
  <2>4. /\ job.name \in Names
        /\ owner'[job.name][o] = IF o = Head(todo).obj THEN NoteUid(job) ELSE owner[job.name][o]
    BY <1>4, <2>1, CallCases
  <2>5. o # Head(todo).obj => owner[job.name][o] = NoteUid(job)
    BY <1>1, <2>1, <2>3 DEF ProgressInv
  <2> QED
    BY <2>1, <2>4, <2>5
<1>5. CASE CallFails \/ AnswerLost \/ CallRefused \/ Crash
  BY <1>5 DEF CallFails, AnswerLost, CallRefused, Crash, GoOn
<1>6. CASE \E n \in Names, x \in Objects : Collect(n, x)
  <2>1. PICK n \in Names, x \in Objects : Collect(n, x)
    BY <1>6
  <2>2. ~Live(n, owner[n][x]) /\ owner' = [owner EXCEPT ![n][x] = 0] /\ UNCHANGED <<job, todo>>
    BY <2>1 DEF Collect
  <2>3. Live(job.name, NoteUid(job)) /\ owner[job.name][o] = NoteUid(job) /\ job.name \in Names
    BY <1>1, <2>2, UidTypes DEF ProgressInv
  <2>4. ~(n = job.name /\ x = o)
    BY <2>2, <2>3
  <2> QED
    BY <2>2, <2>3, <2>4, OwnerExcept DEF TypeOK
<1>7. CASE \E n \in Names : StartPod(n) \/ StopPod(n)
  BY <1>2, <1>7 DEF StartPod, StopPod
<1> QED
  BY <1>2, <1>3, <1>4, <1>5, <1>6, <1>7, StepKinds

\* The telegraf of a sink that exists stays complete.
LEMMA CompleteStep ==
  ASSUME TypeOK, CallsInv, OrderInv, ProgressInv, TelegrafComplete, [Next]_vars
  PROVE  TelegrafComplete'
<1> SUFFICES ASSUME NEW n \in Names, sinks'[n] # Absent, sinks'[n].uid = owner'[n]["Deployment"],
                    NEW o \in Objects
             PROVE  owner'[n][o] = owner'[n]["Deployment"]
  BY DEF TelegrafComplete, Live
<1> DEFINE d == owner[n]["Deployment"]
<1>1. "Deployment" \in Objects /\ "ConfigMap" \in Objects /\ d \in Nat /\ Reached(n, d)
  BY UidTypes DEF Objects, OrderInv, MadeInv
<1>2. ASSUME owner'[n]["Deployment"] = d
      PROVE  Live(n, d) /\ d # 0 /\ (\A x \in Objects : owner[n][x] = d)
             /\ (Working(n) => NoteUid(job) = d /\ job.type # "deleted")
  BY <1>1, <1>2, LiveStep, LiveFacts DEF TelegrafComplete
<1>3. CASE UNCHANGED owner
  BY <1>2, <1>3
<1>4. CASE CallSucceeds \/ AnswerLost
  <2> DEFINE k == job.name
             x == Head(todo).obj
  <2>1. /\ todo # <<>> /\ k \in Names /\ Working(k) /\ UNCHANGED sinks
        /\ \/ /\ job.type = "add" /\ x \in Objects /\ owner[k][x] = 0
              /\ \A m \in Names, y \in Objects :
                   owner'[m][y] = IF m = k /\ y = x THEN NoteUid(job) ELSE owner[m][y]
           \/ /\ job.type = "update" /\ x = "ConfigMap"
              /\ \A m \in Names, y \in Objects :
                   owner'[m][y] = IF m = k /\ y = x THEN NoteUid(job) ELSE owner[m][y]
           \/ job.type = "update" /\ UNCHANGED owner
           \/ /\ job.type = "deleted" /\ x \in Objects
              /\ \A m \in Names, y \in Objects :
                   owner'[m][y] = IF m = k /\ y = x THEN 0 ELSE owner[m][y]
    BY <1>4, CallCases
  <2>2. CASE n # k
    BY <1>1, <1>2, <2>1, <2>2
  <2>3. CASE n = k /\ job.type = "add"
    <3>1. x \in Objects /\ owner[n][x] = 0
          /\ \A y \in Objects : owner'[n][y] = IF y = x THEN NoteUid(job) ELSE owner[n][y]
      BY <2>1, <2>3
    <3>2. CASE x = "Deployment"
      <4>1. Waiting(todo) = {"Deployment"}
        BY <2>1, <2>3, <3>2, AddTodo DEF CallsInv
      <4>2. Live(n, NoteUid(job))
        BY <1>1, <2>1, <3>1, <3>2 DEF Live
      <4> QED
        BY <1>1, <2>1, <2>3, <3>1, <3>2, <4>1, <4>2 DEF ProgressInv
    <3>3. CASE x # "Deployment"
      BY <1>1, <1>2, <3>1, <3>3
    <3> QED
      BY <3>2, <3>3
  <2>4. CASE n = k /\ job.type = "update"
    BY <1>1, <1>2, <2>1, <2>4
  <2>5. CASE n = k /\ job.type = "deleted"
    <3>1. CASE x = "Deployment"
      <4>1. owner'[n]["Deployment"] \in {d, 0}
        BY <1>1, <2>1, <2>5, <3>1
      <4>2. sinks[n].uid # 0 /\ sinks' = sinks
        BY <2>1, UidTypes
      <4> QED
        BY <1>2, <2>1, <2>5, <4>1, <4>2
    <3>2. CASE x # "Deployment"
      BY <1>1, <1>2, <2>1, <2>5, <3>2
    <3> QED
      BY <3>1, <3>2
  <2> QED
    BY <1>3, <2>1, <2>2, <2>3, <2>4, <2>5
<1>5. CASE \E k \in Names, x \in Objects : Collect(k, x)
  <2>1. PICK k \in Names, x \in Objects : Collect(k, x)
    BY <1>5
  <2>2. ~Live(k, owner[k][x]) /\ owner' = [owner EXCEPT ![k][x] = 0] /\ sinks' = sinks
    BY <2>1 DEF Collect
  <2>3. \A m \in Names, y \in Objects : owner'[m][y] = IF m = k /\ y = x THEN 0 ELSE owner[m][y]
    BY <2>2, OwnerExcept DEF TypeOK
  <2>4. CASE n = k /\ x = "Deployment"
    BY <1>1, <2>2, <2>3, <2>4, UidTypes
  <2>5. CASE ~(n = k /\ x = "Deployment")
    BY <1>1, <1>2, <2>2, <2>3, <2>5
  <2> QED
    BY <2>4, <2>5
<1>6. CASE CallFails \/ (\E k \in Names : StartPod(k) \/ StopPod(k))
  BY <1>3, <1>6 DEF CallFails, StartPod, StopPod
<1> QED
  BY <1>3, <1>4, <1>5, <1>6, StepKinds

\* The telegraf of a MetricSink that still exists has its Role, RoleBinding
\* and ConfigMap, all of that very sink, for every number of sinks and
\* re-creations and through every fault: OnAdd creates the Deployment last.
THEOREM TelegrafsComplete == Spec => []TelegrafComplete
<1>1. Init => ProgressInv /\ TelegrafComplete
  BY DEF Init, ProgressInv, TelegrafComplete, Live
<1>2. TypeOK /\ CallsInv /\ OrderInv /\ ProgressInv /\ TelegrafComplete /\ [Next]_vars
        => (TypeOK /\ CallsInv /\ OrderInv /\ ProgressInv /\ TelegrafComplete)'
  BY TypeStep, OrderStep, ProgressStep, CompleteStep
<1> QED
  BY <1>1, <1>2, TypeInit, OrderInit, PTL DEF Spec

-----------------------------------------------------------------------------
(***************************************************************************)
(* The pod follows its ConfigMap.                                          *)
(***************************************************************************)

\* The pod of a sink that exists belongs to the present Deployment.
LEMMA PodStep ==
  ASSUME TypeOK, CallsInv, OrderInv, PodInv, [Next]_vars
  PROVE  PodInv'
<1> SUFFICES ASSUME NEW n \in Names, pod'[n] # Absent,
                    sinks'[n] # Absent, sinks'[n].uid = pod'[n].dep
             PROVE  owner'[n]["Deployment"] = pod'[n].dep
  BY DEF PodInv, Live
<1> DEFINE p == pod[n].dep
<1>1. "Deployment" \in Objects /\ "ConfigMap" \in Objects /\ "Deployment" # "ConfigMap"
  BY DEF Objects
<1>2. ASSUME pod'[n] = pod[n]
      PROVE  /\ Live(n, p) /\ p # 0 /\ owner[n]["Deployment"] = p
             /\ Working(n) => NoteUid(job) = p /\ job.type # "deleted"
  <2>1. p \in Nat /\ Reached(n, p)
    BY <1>2, UidTypes DEF OrderInv, MadeInv
  <2>2. Live(n, p)
    BY <1>2, <2>1, LiveStep
  <2> QED
    BY <1>2, <2>1, <2>2, LiveFacts DEF PodInv
<1>3. CASE UNCHANGED <<owner, pod>>
  BY <1>2, <1>3
<1>4. CASE CallSucceeds \/ AnswerLost
  <2> DEFINE k == job.name
             x == Head(todo).obj
  <2>1. /\ Working(k)
        /\ \/ /\ job.type = "add" /\ owner[k][x] = 0 /\ pod' = pod
              /\ \A m \in Names, y \in Objects :
                   owner'[m][y] = IF m = k /\ y = x THEN NoteUid(job) ELSE owner[m][y]
           \/ /\ x = "ConfigMap" /\ pod' = pod
              /\ \A m \in Names, y \in Objects :
                   owner'[m][y] = IF m = k /\ y = x THEN NoteUid(job) ELSE owner[m][y]
           \/ /\ UNCHANGED owner
              /\ \A m \in Names : pod'[m] = IF m = k THEN Absent ELSE pod[m]
           \/ /\ job.type = "deleted" /\ pod' = pod
              /\ \A m \in Names, y \in Objects :
                   owner'[m][y] = IF m = k /\ y = x THEN 0 ELSE owner[m][y]
    BY <1>4, CallCases
  <2>2. pod'[n] = pod[n]
    BY <2>1
  <2> QED
    BY <1>1, <1>2, <2>1, <2>2
<1>5. CASE \E k \in Names, x \in Objects : Collect(k, x)
  <2>1. PICK k \in Names, x \in Objects : Collect(k, x)
    BY <1>5
  <2>2. ~Live(k, owner[k][x]) /\ owner' = [owner EXCEPT ![k][x] = 0] /\ pod' = pod
    BY <2>1 DEF Collect
  <2>3. \A m \in Names, y \in Objects : owner'[m][y] = IF m = k /\ y = x THEN 0 ELSE owner[m][y]
    BY <2>2, OwnerExcept DEF TypeOK
  <2> QED
    BY <1>1, <1>2, <2>2, <2>3
<1>6. CASE \E k \in Names : StartPod(k) \/ StopPod(k)
  <2>1. PICK k \in Names : StartPod(k) \/ StopPod(k)
    BY <1>6
  <2>2. CASE k = n
    BY <2>1, <2>2 DEF StartPod, StopPod, TypeOK
  <2>3. CASE k # n
    <3>1. pod'[n] = pod[n] /\ owner' = owner
      BY <2>1, <2>3 DEF StartPod, StopPod, TypeOK
    <3> QED
      BY <1>2, <3>1
  <2> QED
    BY <2>2, <2>3
<1>7. CASE CallFails
  BY <1>3, <1>7 DEF CallFails
<1> QED
  BY <1>3, <1>4, <1>5, <1>6, <1>7, StepKinds

\* A pod that runs another configuration than its ConfigMap is about to be
\* deleted.
LEMMA FollowsStep ==
  ASSUME TypeOK, CallsInv, OrderInv, TelegrafComplete, PodInv, PodFollowsConfigMap, [Next]_vars
  PROVE  PodFollowsConfigMap'
<1> SUFFICES ASSUME ~failed', NEW n \in Names, pod'[n] # Absent,
                    sinks'[n] # Absent, sinks'[n].uid = pod'[n].dep, pod'[n].loaded # conf'[n]
             PROVE  todo' # <<>> /\ job'.name = n /\ Head(todo').op = "restart"
  BY DEF PodFollowsConfigMap, Live, Restarting
<1> DEFINE p == pod[n].dep
<1>1. "Deployment" \in Objects /\ "ConfigMap" \in Objects
  BY DEF Objects
<1>2. ASSUME pod'[n] = pod[n]
      PROVE  /\ Live(n, p) /\ p # 0 /\ owner[n]["Deployment"] = p /\ owner[n]["ConfigMap"] = p
             /\ Working(n) => NoteUid(job) = p /\ job.type # "deleted"
  <2>1. p \in Nat /\ Reached(n, p)
    BY <1>2, UidTypes DEF OrderInv, MadeInv
  <2>2. Live(n, p)
    BY <1>2, <2>1, LiveStep
  <2>3. owner[n]["Deployment"] = p
    BY <1>2, <2>2 DEF PodInv
  <2>4. owner[n]["ConfigMap"] = p
    BY <1>1, <2>2, <2>3 DEF TelegrafComplete
  <2> QED
    BY <2>1, <2>2, <2>3, <2>4, LiveFacts
<1>3. ASSUME pod'[n] = pod[n], conf'[n] = conf[n], ~failed
      PROVE  todo # <<>> /\ job.name = n /\ Head(todo).op = "restart"
  BY <1>2, <1>3 DEF PodFollowsConfigMap, Restarting
<1>4. CASE UNCHANGED <<job, todo, conf, pod, failed>>
  BY <1>3, <1>4
<1>5. CASE (OnAdd \/ OnUpdate \/ OnDelete) /\ UNCHANGED <<conf, pod, failed>>
  <2>1. todo = <<>>
    BY <1>5 DEF OnAdd, OnUpdate, OnDelete, Receive
  <2> QED
    BY <1>3, <1>5, <2>1
<1>6. CASE CallSucceeds
  <2> DEFINE k == job.name
             x == Head(todo).obj
  <2>1. /\ failed' = failed /\ todo' = Tail(todo) /\ job' = IF todo' = <<>> THEN Idle ELSE job
    BY <1>6 DEF CallSucceeds, GoOn
  <2>2. CASE n # k
    <3>1. pod'[n] = pod[n] /\ conf'[n] = conf[n]
      BY <1>6, <2>2, CallCases
    <3> QED
      BY <1>3, <2>1, <2>2, <3>1
  <2>3. CASE n = k
    <3>1. /\ Working(n) /\ pod'[n] = pod[n]
          /\ \/ job.type = "add" /\ owner[n][x] = 0 /\ (x # "ConfigMap" => conf'[n] = conf[n])
             \/ job.type = "update" /\ Tail(todo) = <<Do("restart", "Pods")>>
             \/ job.type = "deleted"
      BY <1>6, <2>3, CallCases
    <3>2. CASE job.type = "update" /\ Tail(todo) = <<Do("restart", "Pods")>>
      <4> DEFINE c == Do("restart", "Pods")
      <4>0. <<c>> # <<>> /\ Head(<<c>>) = c
        OBVIOUS
      <4>1. c.op = "restart"
        BY DEF Do
      <4>2. Tail(todo) = <<c>>
        BY <3>2
      <4> HIDE DEF c
      <4>3. Tail(todo) # <<>> /\ Head(Tail(todo)).op = "restart"
        BY <4>0, <4>1, <4>2
      <4> QED
        BY <2>1, <2>3, <4>3
    <3>3. CASE job.type = "add" /\ owner[n][x] = 0 /\ (x # "ConfigMap" => conf'[n] = conf[n])
      <4>1. conf'[n] = conf[n]
        BY <1>2, <3>1, <3>3
      <4>2. Head(todo).op = "restart"
        BY <1>3, <2>1, <3>1, <4>1
      <4>3. Head(todo).op = "create"
        BY <3>1, <3>3, AddTodo DEF CallsInv, Working
      <4> QED
        BY <4>2, <4>3
    <3> QED
      BY <1>2, <3>1, <3>2, <3>3
  <2> QED
    BY <2>2, <2>3
<1>7. CASE CallFails
  <2>1. UNCHANGED <<conf, pod, failed>> /\ ~Accepted(Head(todo))
    BY <1>7 DEF CallFails
  <2>2. Head(todo).op = "restart"
    BY <1>3, <2>1
  <2> QED
    BY <2>1, <2>2 DEF Accepted
<1>8. CASE AnswerLost
  BY <1>8 DEF AnswerLost
<1>9. CASE \E k \in Names, x \in Objects : Collect(k, x)
  <2>1. PICK k \in Names, x \in Objects : Collect(k, x)
    BY <1>9
  <2>2. /\ ~Live(k, owner[k][x]) /\ UNCHANGED <<pod, job, todo, failed>>
        /\ conf' = IF x = "ConfigMap" THEN [conf EXCEPT ![k] = Absent] ELSE conf
    BY <2>1 DEF Collect
  <2>3. conf'[n] = conf[n]
    BY <1>2, <2>2 DEF TypeOK
  <2> QED
    BY <1>3, <2>2, <2>3
<1>10. CASE \E k \in Names : StartPod(k) \/ StopPod(k)
  <2>1. PICK k \in Names : StartPod(k) \/ StopPod(k)
    BY <1>10
  <2>2. CASE k = n
    BY <2>1, <2>2 DEF StartPod, StopPod, TypeOK
  <2>3. CASE k # n
    <3>1. pod'[n] = pod[n] /\ UNCHANGED <<conf, job, todo, failed>>
      BY <2>1, <2>3 DEF StartPod, StopPod, TypeOK
    <3> QED
      BY <1>3, <3>1
  <2> QED
    BY <2>2, <2>3
<1> QED
  BY <1>4, <1>5, <1>6, <1>7, <1>8, <1>9, <1>10, StepKinds

\* As long as no call fails and the process lives, a telegraf pod of a sink
\* that exists runs what its ConfigMap holds or is about to be deleted by
\* OnUpdate, for every number of sinks, updates and re-creations.
THEOREM PodsFollow == Spec => []PodFollowsConfigMap
<1> DEFINE Inv == /\ TypeOK /\ CallsInv /\ OrderInv /\ ProgressInv /\ TelegrafComplete
                  /\ PodInv /\ PodFollowsConfigMap
<1>1. Init => ProgressInv /\ TelegrafComplete /\ PodInv /\ PodFollowsConfigMap
  BY DEF Init, ProgressInv, TelegrafComplete, PodInv, PodFollowsConfigMap, Live
<1>2. Inv /\ [Next]_vars => Inv'
  BY TypeStep, OrderStep, ProgressStep, CompleteStep, PodStep, FollowsStep
<1>3. Init => Inv
  BY <1>1, TypeInit, OrderInit
<1>4. Inv => PodFollowsConfigMap
  OBVIOUS
<1> QED
  BY <1>2, <1>3, <1>4, PTL DEF Spec

-----------------------------------------------------------------------------
(***************************************************************************)
(* The first sink of its name gets its telegraf.                           *)
(***************************************************************************)

\* A fault is remembered.
LEMMA NeverRepaired ==
  ASSUME [Next]_vars, ~failed'
  PROVE  ~failed /\ ~(CallRefused \/ AnswerLost \/ Crash)
<1>1. ~(CallRefused \/ AnswerLost \/ Crash)
  BY DEF CallRefused, AnswerLost, Crash
<1>2. failed' = failed
  BY <1>1, StepKinds DEF CallSucceeds, CallFails, Collect, StartPod, StopPod
<1> QED
  BY <1>1, <1>2

\* Of a sink never created nothing is known.
LEMMA Untold ==
  ASSUME TypeOK, CallsInv, OrderInv, NEW n \in Names, created[n] = 0
  PROVE  store[n] = Absent /\ About(n) = {} /\ ~Working(n) /\ All(n, 0)
<1>1. \A u \in Uids : u \in Nat /\ u >= 1
  BY MetricAssumption DEF Uids
<1>2. store[n] # Absent => store[n].uid \in Uids /\ store[n].uid <= created[n]
  BY UidTypes DEF Sink, OrderInv, NewestInv
<1>3. \A i \in 1..Len(pending) : pending[i] \in Notification /\ NoteOK(pending[i])
  BY UidTypes DEF CallsInv
<1>4. \A i \in 1..Len(pending) : pending[i].name = n =>
        NoteUid(pending[i]) \in Uids /\ NoteUid(pending[i]) <= created[n]
  BY <1>3, NoteUidType DEF OrderInv, QueueInv
<1>5. Working(n) => NoteUid(job) \in Uids /\ NoteUid(job) <= created[n]
  BY NoteUidType DEF Working, TypeOK, CallsInv, OrderInv, JobInv, Reached
<1>6. \A o \in Objects : owner[n][o] \in Nat /\ owner[n][o] <= created[n]
  BY UidTypes DEF OrderInv, MadeInv, Reached
<1>7. store[n] = Absent /\ ~Working(n)
  BY <1>1, <1>2, <1>5
<1>8. About(n) = {}
  BY <1>1, <1>4 DEF About
<1>9. All(n, 0)
  BY <1>6 DEF All
<1> QED
  BY <1>7, <1>8, <1>9

\* A sink that comes into being changes nothing else.
LEMMA Born ==
  ASSUME TypeOK, CallsInv, [Next]_vars, NEW n \in Names
  PROVE  /\ sinks[n] = Absent /\ sinks'[n] # Absent =>
              created'[n] = created[n] + 1 /\ UNCHANGED <<store, pending, job, todo, owner, failed>>
         /\ sinks[n] # Absent => created'[n] = created[n]
<1>1. ASSUME NEW k \in Names, NEW v \in Specs, CreateSink(k, v)
      PROVE  /\ sinks[n] = Absent /\ sinks'[n] # Absent =>
                  created'[n] = created[n] + 1 /\ UNCHANGED <<store, pending, job, todo, owner, failed>>
             /\ sinks[n] # Absent => created'[n] = created[n]
  BY <1>1 DEF CreateSink, TypeOK
<1>2. ASSUME NEW k \in Names, NEW v \in Specs, UpdateSink(k, v)
      PROVE  (sinks[n] = Absent => sinks'[n] = Absent) /\ created' = created
  BY <1>2 DEF UpdateSink, TypeOK
<1>3. ASSUME NEW k \in Names, DeleteSink(k)
      PROVE  (sinks[n] = Absent => sinks'[n] = Absent) /\ created' = created
  BY <1>3 DEF DeleteSink, TypeOK
<1>4. CASE UNCHANGED <<sinks, created>>
  BY <1>4
<1> QED
  BY <1>1, <1>2, <1>3, <1>4
     DEF Next, Handle, vars, Watch, WatchAdded, WatchModified, WatchDeleted, List, Resync, Enqueue,
         OnAdd, OnUpdate, OnDelete, Receive, CallSucceeds, CallFails, CallRefused, AnswerLost,
         Crash, Collect, StartPod, StopPod

\* What is made for a sink whose OnAdd came first is made for it alone.
LEMMA FirstUids ==
  ASSUME TypeOK, CallsInv, OrderInv, NEW n \in Names, NEW u \in Nat, u = created[n],
         sinks[n] # Absent, First(n, u)
  PROVE  First(n, u) /\ sinks[n].uid = u /\ u > 0 /\ \A o \in Objects : owner[n][o] \in {0, u}
<1>1. sinks[n].uid = u /\ u > 0
  BY UidTypes DEF OrderInv, NewestInv
<1>2. \A o \in Objects : owner[n][o] \in {0, u}
  BY DEF First, All
<1> QED
  BY <1>1, <1>2

\* A sink goes through OnAdd before anything else, and keeps what OnAdd makes.
LEMMA FirstKept ==
  ASSUME TypeOK, CallsInv, OrderInv, [Next]_vars, ~failed', NEW n \in Names,
         NEW u \in Nat, u = created[n], sinks[n] # Absent, sinks'[n] # Absent, First(n, u)
  PROVE  First(n, u)'
<1>1. "ConfigMap" \in Objects
  BY DEF Objects
<1>2. pending \in Seq(Notification) /\ Len(pending) \in Nat
  BY DEF TypeOK
<1>3. First(n, u) /\ sinks[n].uid = u /\ u > 0 /\ \A o \in Objects : owner[n][o] \in {0, u}
  BY FirstUids
<1>4. ASSUME UNCHANGED <<pending, store, job, todo, owner>> PROVE First(n, u)'
  BY <1>3, <1>4 DEF First, About, All, Working
<1>5. ASSUME NEW k \in Names, NEW v \in Specs, CreateSink(k, v) PROVE First(n, u)'
  BY <1>4, <1>5 DEF CreateSink
<1>6. ASSUME NEW k \in Names, DeleteSink(k) \/ \E v \in Specs : UpdateSink(k, v) PROVE First(n, u)'
  BY <1>4, <1>6 DEF UpdateSink, DeleteSink
<1>7. ASSUME NEW k \in Names, Watch(k) \/ List(k) \/ Resync(k) PROVE First(n, u)'
  <2>1. PICK m \in Notification :
          /\ m.name = k /\ NoteOK(m)
          /\ m.type = "add" <=> store[k] = Absent
          /\ m.type \in {"deleted", "unknown"} =>
               sinks[k] = Absent \/ (store[k] # Absent /\ store[k].uid # sinks[k].uid)
          /\ m.type # "deleted" => m.new = sinks[k] \/ (m.new = store[k] /\ store[k] # Absent)
          /\ pending' = Append(pending, m) /\ store' = [store EXCEPT ![k] = m.new]
          /\ UNCHANGED <<sinks, created, job, todo, owner, failed>>
    BY <1>7, Enqueued DEF OrderInv
  <2>2. First(n, u)
    BY <1>3
  <2>3. /\ Len(pending') = Len(pending) + 1
        /\ pending'[Len(pending) + 1] = m
        /\ \A i \in 1..Len(pending) : pending'[i] = pending[i]
        /\ \A i \in 1..Len(pending') : i \in 1..Len(pending) \/ i = Len(pending) + 1
    BY <1>2, <2>1, AppendNote
  <2>4. (\A o : All(n, o)' <=> All(n, o)) /\ (Working(n)' <=> Working(n))
    BY <2>1 DEF All, Working
  <2>5. CASE n # k
    <3>1. /\ About(n)' = About(n) /\ store'[n] = store[n]
          /\ \A i \in About(n) : pending'[i] = pending[i]
      BY <1>2, <2>1, <2>3, <2>5 DEF About, TypeOK
    <3>2. \A i \in About(n) :
            /\ pending'[i].type \in {"add", "update"} /\ NoteUid(pending'[i]) = u
            /\ pending'[i].type = "add" => ~Working(n) /\ All(n, 0) /\ \A j \in About(n) : i <= j
      BY <2>2, <3>1 DEF First
    <3>3. store[n] # Absent =>
            \/ \E i \in About(n) : pending'[i].type = "add"
            \/ Working(n) /\ job.type = "add"
            \/ All(n, u)
      BY <2>2, <3>1 DEF First
    <3>4. Working(n) =>
            \/ job.type = "add" /\ \A o \in Objects : owner[n][o] = IF o \in Waiting(todo) THEN 0 ELSE u
            \/ job.type = "update" /\ All(n, u)
      BY <2>2 DEF First
    <3>5. store[n] = Absent => About(n) = {} /\ ~Working(n) /\ All(n, 0)
      BY <2>2 DEF First
    <3>6. /\ All(n, 0)' <=> All(n, 0)
          /\ All(n, u)' <=> All(n, u)
          /\ Working(n)' <=> Working(n)
          /\ job' = job /\ todo' = todo /\ owner' = owner
      BY <2>1 DEF All, Working
    <3> QED
      BY <3>1, <3>2, <3>3, <3>4, <3>5, <3>6 DEF First
  <2>6. CASE n = k
    <3>1. m.type \in {"add", "update", "deleted", "unknown"}
      BY DEF Notification
    <3>2. m.type \in {"add", "update"}
      BY <1>3, <2>1, <2>6, <3>1 DEF First
    <3>3. store'[n] # Absent /\ store'[n].uid = u /\ NoteUid(m) = u
      BY <1>3, <2>1, <2>6, <3>2 DEF TypeOK, NoteUid, First
    <3>4. /\ About(n)' = About(n) \cup {Len(pending) + 1}
          /\ \A i \in About(n) : pending'[i] = pending[i] /\ i <= Len(pending) + 1
          /\ pending'[Len(pending) + 1] = m
      BY <1>2, <2>1, <2>3, <2>6 DEF About
    <3>5. CASE store[n] = Absent
      <4>1. About(n) = {} /\ ~Working(n) /\ All(n, 0) /\ m.type = "add"
        BY <2>1, <2>2, <2>6, <3>5 DEF First
      <4>2. About(n)' = {Len(pending) + 1} /\ ~Working(n)' /\ All(n, 0)'
        BY <2>1, <3>4, <4>1 DEF All, Working
      <4> QED
        BY <1>2, <3>3, <3>4, <4>1, <4>2 DEF First
    <3>6. CASE store[n] # Absent
      <4>1. m.type = "update"
        BY <2>1, <2>6, <3>2, <3>6
      <4> QED
        BY <2>1, <2>2, <3>3, <3>4, <3>6, <4>1 DEF First, All, Working
    <3> QED
      BY <3>5, <3>6
  <2> QED
    BY <2>5, <2>6
<1>8. ASSUME OnAdd \/ OnUpdate \/ OnDelete PROVE First(n, u)'
  <2>1. PICK types, calls :
           /\ Receive(types, calls)
           /\ \/ calls = <<>>
              \/ Head(pending).type = "add" /\ calls \in AddTodos /\ Waiting(calls) = Objects
              \/ Head(pending).type = "update"
              \/ Head(pending).type = "deleted"
    BY <1>8, ReceiveCalls
  <2>2. /\ todo = <<>> /\ pending # <<>> /\ pending' = Tail(pending) /\ todo' = calls
        /\ job' = IF calls = <<>> THEN Idle ELSE Head(pending)
        /\ UNCHANGED <<sinks, created, store, owner, failed>>
    BY <2>1 DEF Receive
  <2>3. First(n, u) /\ ~Working(n)
    BY <1>3, <2>2 DEF Working
  <2>4. /\ 1 \in 1..Len(pending) /\ Head(pending) = pending[1] /\ Len(pending') = Len(pending) - 1
        /\ \A i \in 1..Len(pending') : i + 1 \in 1..Len(pending) /\ pending'[i] = pending[i + 1]
    BY <1>2, <2>2, TailNote
  <2>5. \A i \in About(n)' : i + 1 \in About(n) /\ pending'[i] = pending[i + 1] /\ i \in Nat /\ i >= 1
    BY <2>4 DEF About
  <2>6. \A i \in About(n) : i \in Nat /\ (i # 1 => i - 1 \in About(n)' /\ pending'[i - 1] = pending[i])
    <3> SUFFICES ASSUME NEW i \in About(n), i # 1
                 PROVE  i - 1 \in About(n)' /\ pending'[i - 1] = pending[i]
      BY <1>2 DEF About
    <3>1. i \in 1..Len(pending) /\ i - 1 \in 1..Len(pending') /\ (i - 1) + 1 = i
      BY <1>2, <2>4 DEF About
    <3> QED
      BY <2>4, <3>1 DEF About
  <2>7. \A o : All(n, o)' <=> All(n, o)
    BY <2>2 DEF All
  <2>8. CASE pending[1].name # n
    <3>1. 1 \notin About(n) /\ ~Working(n)'
      BY <2>2, <2>4, <2>8 DEF About, Working
    <3>2. store[n] = Absent => About(n)' = {}
      BY <2>3, <2>5 DEF First
    <3>3. \A i \in About(n)' : 
            /\ pending'[i].type \in {"add", "update"} /\ NoteUid(pending'[i]) = u
            /\ pending'[i].type = "add" => All(n, 0) /\ \A j \in About(n)' : i <= j
      BY <2>3, <2>5 DEF First
    <3>4. store[n] # Absent => (\E i \in About(n)' : pending'[i].type = "add") \/ All(n, u)
      BY <2>3, <2>6, <3>1 DEF First
    <3> QED
      BY <2>2, <2>3, <2>7, <3>1, <3>2, <3>3, <3>4 DEF First, All
  <2>9. CASE pending[1].name = n
    <3>1. 1 \in About(n) /\ store[n] # Absent /\ pending[1].type \in {"add", "update"}
      BY <2>3, <2>4, <2>9 DEF About, First
    <3>2. /\ store[n].uid = u /\ \A i \in About(n)' : NoteUid(pending'[i]) = u
          /\ Working(n)' => NoteUid(job') = u
      BY <2>2, <2>3, <2>4, <2>5, <3>1 DEF First, Working
    <3>3. CASE pending[1].type = "add"
      <4>1. All(n, 0)
        BY <2>3, <3>1, <3>3 DEF First
      <4>2. \A i \in About(n)' : pending'[i].type = "update"
        BY <2>3, <2>5, <3>1 DEF First
      <4>3. OnAdd
        BY <1>8, <2>4, <3>3 DEF OnUpdate, OnDelete, Receive
      <4>4. calls # <<>> /\ Waiting(calls) = Objects
        <5>1. todo' # <<>>
          BY <4>3 DEF OnAdd, Receive
        <5> QED
          BY <2>1, <2>2, <2>4, <3>3, <5>1
      <4>5. Working(n)' /\ job'.type = "add" /\ Waiting(todo') = Objects
        BY <2>2, <2>4, <2>9, <3>3, <4>4 DEF Working
      <4> QED
        BY <2>2, <3>1, <3>2, <4>1, <4>2, <4>5 DEF First, All
    <3>4. CASE pending[1].type = "update"
      <4>1. All(n, u)
        <5> SUFFICES ASSUME NEW i \in About(n), pending[i].type = "add" PROVE FALSE
          BY <2>3, <3>1 DEF First
        <5>1. i <= 1 /\ i \in Nat /\ i # 1 /\ i >= 1
          BY <1>2, <2>3, <3>1, <3>4 DEF First, About
        <5> QED
          BY <5>1
      <4>2. \A i \in About(n)' : pending'[i].type = "update"
        <5> SUFFICES ASSUME NEW i \in About(n)', pending'[i].type = "add" PROVE FALSE
          BY <2>3, <2>5 DEF First
        <5>1. i + 1 <= 1 /\ i \in Nat /\ i >= 1
          BY <2>3, <2>5, <3>1 DEF First
        <5> QED
          BY <5>1
      <4>3. Working(n)' => job'.type = "update"
        BY <2>2, <2>4, <3>4 DEF Working
      <4> QED
        BY <2>2, <3>1, <3>2, <4>1, <4>2, <4>3 DEF First, All
    <3> QED
      BY <3>1, <3>3, <3>4
  <2> QED
    BY <2>8, <2>9
<1>9. ASSUME CallSucceeds PROVE First(n, u)'
  <2> DEFINE k == job.name
             x == Head(todo).obj
  <2>1. /\ todo # <<>> /\ todo' = Tail(todo) /\ job' = (IF todo' = <<>> THEN Idle ELSE job)
        /\ UNCHANGED <<sinks, created, store, pending, failed>>
    BY <1>9 DEF CallSucceeds, GoOn
  <2>2. First(n, u)
    BY <1>3
  <2>3. About(n)' = About(n)
    BY <2>1 DEF About
  <2>4. CASE n # k
    <3>1. ~Working(n) /\ ~Working(n)'
      BY <2>1, <2>4 DEF Working
    <3>2. \A o \in Objects : owner'[n][o] = owner[n][o]
      BY <1>9, <2>4, CallCases
    <3> QED
      BY <2>1, <2>2, <2>3, <3>1, <3>2 DEF First, All
  <2>5. CASE n = k
    <3>1. Working(n) /\ NoteUid(job) = u
      BY <2>1, <2>2, <2>5 DEF Working, First
    <3>2. /\ store[n] # Absent /\ store[n].uid = u
          /\ \A i \in About(n) : pending[i].type = "update" /\ NoteUid(pending[i]) = u
          /\ Working(n)' => job' = job /\ NoteUid(job') = u
      BY <2>1, <2>2, <3>1 DEF First, Working
    <3>3. CASE job.type = "add"
      <4>1. todo \in AddTodos /\ \A o \in Objects : owner[n][o] = IF o \in Waiting(todo) THEN 0 ELSE u
        BY <2>1, <2>2, <3>1, <3>3 DEF First, CallsInv
      <4>2. Waiting(todo) = {x} \cup Waiting(todo') /\ x \notin Waiting(todo')
        BY <2>1, <4>1, AddTodo
      <4>3. \A o \in Objects : owner'[n][o] = IF o = x THEN u ELSE owner[n][o]
        BY <1>9, <2>5, <3>1, <3>3, CallCases
      <4>4. \A o \in Objects : owner'[n][o] = IF o \in Waiting(todo') THEN 0 ELSE u
        BY <4>1, <4>2, <4>3
      <4>5. CASE todo' = <<>>
        <5>1. Waiting(<<>>) = {}
          BY DEF Waiting
        <5>2. All(n, u)' /\ ~Working(n)'
          BY <4>4, <4>5, <5>1 DEF All, Working
        <5> QED
          BY <2>1, <2>3, <3>2, <5>2 DEF First
      <4>6. CASE todo' # <<>>
        <5>1. Working(n)' /\ job' = job
          BY <2>1, <2>5, <4>6 DEF Working
        <5> QED
          BY <2>1, <2>3, <3>2, <3>3, <4>4, <5>1 DEF First
      <4> QED
        BY <4>5, <4>6
    <3>4. CASE job.type = "update"
      <4>1. All(n, u)
        BY <2>2, <3>1, <3>4 DEF First
      <4>2. \A o \in Objects : owner'[n][o] = owner[n][o] \/ owner'[n][o] = u
        BY <1>9, <2>5, <3>1, <3>4, CallCases
      <4>3. All(n, u)'
        BY <4>1, <4>2 DEF All
      <4>4. Working(n)' => job'.type = "update"
        BY <2>1, <3>4 DEF Working
      <4> QED
        BY <2>1, <2>3, <3>2, <4>3, <4>4 DEF First
    <3> QED
      BY <2>2, <3>1, <3>3, <3>4 DEF First
  <2> QED
    BY <2>4, <2>5
<1>10. ASSUME CallFails PROVE First(n, u)'
  <2>1. /\ todo # <<>> /\ ~Accepted(Head(todo)) /\ todo' = <<>>
        /\ UNCHANGED <<sinks, created, store, pending, owner, failed>>
    BY <1>10 DEF CallFails, GoOn
  <2>2. First(n, u) /\ ~Working(n)' /\ About(n)' = About(n)
    BY <1>3, <2>1 DEF Working, About
  <2>3. ~(Working(n) /\ job.type = "add")
    <3> SUFFICES ASSUME Working(n), job.type = "add" PROVE FALSE
      OBVIOUS
    <3>1. todo \in AddTodos /\ \A o \in Objects : owner[n][o] = IF o \in Waiting(todo) THEN 0 ELSE u
      BY <2>1, <2>2 DEF First, CallsInv
    <3>2. Head(todo).op = "create" /\ Head(todo).obj \in Objects /\ Head(todo).obj \in Waiting(todo)
      BY <3>1, AddTodo
    <3>3. Accepted(Head(todo))
      BY <3>1, <3>2 DEF Accepted, OwnerRefComplete, Working
    <3> QED
      BY <2>1, <3>3
  <2> QED
    BY <2>1, <2>2, <2>3 DEF First, All
<1>11. ASSUME NEW k \in Names, NEW x \in Objects, Collect(k, x) PROVE First(n, u)'
  <2>1. /\ owner[k][x] \in Uids /\ ~Live(k, owner[k][x]) /\ owner' = [owner EXCEPT ![k][x] = 0]
        /\ UNCHANGED <<sinks, created, store, pending, job, todo, failed>>
    BY <1>11 DEF Collect
  <2>2. n # k
    <3> SUFFICES ASSUME n = k PROVE FALSE
      OBVIOUS
    <3>1. owner[n][x] # 0
      BY <2>1, MetricAssumption DEF Uids
    <3> QED
      BY <1>3, <2>1, <3>1 DEF Live
  <2>3. \A o \in Objects : owner'[n][o] = owner[n][o]
    BY <2>1, <2>2, OwnerExcept DEF TypeOK
  <2>4. First(n, u)
    BY <1>3, <2>1
  <2> QED
    BY <2>1, <2>3, <2>4 DEF First, All, About, Working
<1>12. ASSUME NEW k \in Names, StartPod(k) \/ StopPod(k) PROVE First(n, u)'
  <2>1. UNCHANGED <<sinks, created, store, pending, job, todo, owner, failed>>
    BY <1>12 DEF StartPod, StopPod
  <2> QED
    BY <1>3, <1>4, <2>1
<1>13. CASE UNCHANGED vars
  BY <1>3, <1>4, <1>13 DEF vars
<1>14. ~(CallRefused \/ AnswerLost \/ Crash)
  BY DEF CallRefused, AnswerLost, Crash
<1> QED
  BY <1>5, <1>6, <1>7, <1>8, <1>9, <1>10, <1>11, <1>12, <1>13, <1>14 DEF Next, Handle

\* The first sink of a name goes through OnAdd before anything else.
LEMMA FirstStep ==
  ASSUME TypeOK, CallsInv, OrderInv, FirstInv, [Next]_vars
  PROVE  FirstInv'
<1> SUFFICES ASSUME ~failed', NEW n \in Names, created'[n] = 1, sinks'[n] # Absent
             PROVE  First(n, 1)'
  BY DEF FirstInv
<1>1. CASE sinks[n] = Absent
  <2>1. created[n] \in Nat /\ created'[n] = created[n] + 1
        /\ UNCHANGED <<store, pending, job, todo, owner>>
    BY <1>1, Born, UidTypes
  <2>2. created[n] = 0
    BY <2>1
  <2>3. First(n, 1)
    BY <2>2, Untold DEF First
  <2> QED
    BY <2>1, <2>3 DEF First, About, All, Working
<1>2. CASE sinks[n] # Absent
  <2>1. created[n] = 1 /\ ~failed
    BY <1>2, Born, NeverRepaired
  <2>2. First(n, 1)
    BY <1>2, <2>1 DEF FirstInv
  <2> QED
    BY <1>2, <2>1, <2>2, FirstKept
<1> QED
  BY <1>1, <1>2

\* A MetricSink that is the first of its name has all four objects when all
\* is quiet, as long as no call fails and the process lives, for every number
\* of sinks and however creations, updates and re-lists are interleaved.
THEOREM FirstProvisioned == Spec => []ProvisionedFirst
<1> DEFINE Inv == TypeOK /\ CallsInv /\ OrderInv /\ FirstInv
<1>1. Init => FirstInv
  BY DEF Init, FirstInv
<1>2. Inv /\ [Next]_vars => Inv'
  BY TypeStep, OrderStep, FirstStep
<1>3. Init => Inv
  BY <1>1, TypeInit, OrderInit
<1>4. Inv => ProvisionedFirst
  <2> SUFFICES ASSUME Inv, Quiet, ~failed, NEW n \in Names, sinks[n] # Absent, created[n] = 1
               PROVE  Complete(n)
    BY DEF ProvisionedFirst
  <2>1. First(n, 1)
    BY DEF FirstInv
  <2>2. \A i \in About(n) : FALSE
    <3>1. pending = <<>> /\ Len(<<>>) = 0
      BY DEF Quiet
    <3> QED
      BY <3>1 DEF About
  <2>3. store[n] # Absent /\ ~Working(n)
    BY DEF Quiet, Working
  <2>4. All(n, 1)
    BY <2>1, <2>2, <2>3 DEF First
  <2> QED
    BY <2>4 DEF All, Complete, OrderInv, NewestInv
<1> QED
  BY <1>2, <1>3, <1>4, PTL DEF Spec

(***************************************************************************)
(* The same holds of every sink whose user waits: who creates a sink again *)
(* only when the handler has heard of the deletion and the garbage         *)
(* collector has taken what was left.                                      *)
(***************************************************************************)
Patient ==
  \A n \in Names : sinks[n] = Absent /\ sinks'[n] # Absent =>
    store[n] = Absent /\ About(n) = {} /\ ~Working(n) /\ All(n, 0)

PatientInv == ~failed => \A n \in Names : sinks[n] # Absent => First(n, created[n])

\* Every sink of a patient user goes through OnAdd before anything else.
LEMMA PatientStep ==
  ASSUME TypeOK, CallsInv, OrderInv, PatientInv, [Next]_vars, [Patient]_vars
  PROVE  PatientInv'
<1> SUFFICES ASSUME ~failed', NEW n \in Names, sinks'[n] # Absent
             PROVE  First(n, created[n])'
  BY DEF PatientInv
<1>1. CASE sinks[n] = Absent
  <2>1. PICK u : u = created'[n]
    OBVIOUS
  <2>2. UNCHANGED <<store, pending, job, todo, owner>>
    BY <1>1, Born
  <2>3. Patient
    BY <1>1 DEF vars
  <2>4. First(n, u)
    BY <1>1, <2>3 DEF Patient, First
  <2> QED
    BY <2>1, <2>2, <2>4 DEF First, About, All, Working
<1>2. CASE sinks[n] # Absent
  <2>1. PICK u \in Nat : u = created[n]
    BY UidTypes
  <2>2. created'[n] = u /\ ~failed
    BY <1>2, <2>1, Born, NeverRepaired
  <2>3. First(n, u)
    BY <1>2, <2>1, <2>2 DEF PatientInv
  <2>4. First(n, u)'
    BY <1>2, <2>1, <2>3, FirstKept
  <2> QED
    BY <2>2, <2>4 DEF First
<1> QED
  BY <1>1, <1>2

\* For users who wait until nothing is left of a deleted sink, every MetricSink
\* has all four objects when all is quiet, however often it was created, as
\* long as no call fails and the process lives.
THEOREM PatientProvisioned == Spec /\ [][Patient]_vars => [](~failed => Provisioned)
<1> DEFINE Inv == TypeOK /\ CallsInv /\ OrderInv /\ PatientInv
<1>1. Init => PatientInv
  BY DEF Init, PatientInv
<1>2. Inv /\ [Next]_vars /\ [Patient]_vars => Inv'
  BY TypeStep, OrderStep, PatientStep
<1>3. Init => Inv
  BY <1>1, TypeInit, OrderInit
<1>4. Inv => (~failed => Provisioned)
  <2> SUFFICES ASSUME Inv, Quiet, ~failed, NEW n \in Names, sinks[n] # Absent
               PROVE  Complete(n)
    BY DEF Provisioned
  <2>1. First(n, created[n])
    BY DEF PatientInv
  <2>2. \A i \in About(n) : FALSE
    <3>1. pending = <<>> /\ Len(<<>>) = 0
      BY DEF Quiet
    <3> QED
      BY <3>1 DEF About
  <2>3. store[n] # Absent /\ ~Working(n)
    BY DEF Quiet, Working
  <2>4. All(n, created[n])
    BY <2>1, <2>2, <2>3 DEF First
  <2> QED
    BY <2>4 DEF All, Complete, OrderInv, NewestInv
<1> QED
  BY <1>2, <1>3, <1>4, PTL DEF Spec

-----------------------------------------------------------------------------
(***************************************************************************)
(* The ConfigMap shows the spec: without updates.  Whatever the handler    *)
(* was told, is about to be told or has written of the sink that exists    *)
(* now is its spec, in spite of all that is left over from earlier sinks   *)
(* of the same name.                                                       *)
(***************************************************************************)
SpecsFixed ==
  \A n \in Names : sinks[n] # Absent /\ sinks'[n] # Absent /\ sinks'[n].uid = sinks[n].uid =>
    sinks'[n].spec = sinks[n].spec

\* What is known of the sink that exists: s is its record.
Known(n, s) ==
  /\ store[n] # Absent /\ store[n].uid = s.uid => store[n].spec = s.spec
  /\ \A i \in About(n) : pending[i].type \in {"add", "update"} /\ pending[i].new.uid = s.uid =>
       pending[i].new.spec = s.spec
  /\ Working(n) /\ job.type \in {"add", "update"} /\ job.new.uid = s.uid => job.new.spec = s.spec
  /\ owner[n]["ConfigMap"] = s.uid => conf[n] = metricSinkConfig(n, s.spec)

KnownInv == \A n \in Names : sinks[n] # Absent => Known(n, sinks[n])

\* What an accepted call does to the ConfigMap of a sink: nothing, or it writes
\* the spec the handler was given, or it deletes it.
LEMMA CallConf ==
  ASSUME TypeOK, CallsInv, CallSucceeds \/ AnswerLost, NEW n \in Names
  PROVE  \/ /\ owner'[n]["ConfigMap"] = owner[n]["ConfigMap"] /\ conf'[n] = conf[n]
            /\ ~Working(n) \/ Head(todo).obj # "ConfigMap"
         \/ /\ Working(n) /\ job.type \in {"add", "update"}
            /\ owner'[n]["ConfigMap"] = NoteUid(job)
            /\ conf'[n] = metricSinkConfig(n, job.new.spec)
         \/ Working(n) /\ owner'[n]["ConfigMap"] = 0
<1> DEFINE k == job.name
           x == Head(todo).obj
           text == metricSinkConfig(job.name, job.new.spec)
<1>1. todo # <<>> /\ Accepted(Head(todo)) /\ Apply(Head(todo))
  BY DEF CallSucceeds, AnswerLost
<1>2. k \in Names
  BY <1>1, CallMade
<1>3. \/ job.type = "add" /\ x \in Objects /\ owner' = [owner EXCEPT ![k][x] = NoteUid(job)]
         /\ conf' = (IF x = "ConfigMap" THEN [conf EXCEPT ![k] = text] ELSE conf)
      \/ job.type = "update" /\ x = "ConfigMap" /\ owner' = [owner EXCEPT ![k][x] = NoteUid(job)]
         /\ conf' = [conf EXCEPT ![k] = text]
      \/ job.type = "update" /\ Head(todo).op = "restart" /\ UNCHANGED <<owner, conf>>
      \/ job.type = "deleted" /\ x \in Objects /\ owner' = [owner EXCEPT ![k][x] = 0]
         /\ conf' = (IF x = "ConfigMap" THEN [conf EXCEPT ![k] = Absent] ELSE conf)
  BY <1>1, CallMade
<1>4. DOMAIN conf = Names /\ owner \in [Names -> [Objects -> 0..MaxUid]] /\ "ConfigMap" \in Objects
  BY DEF TypeOK, Objects
<1>5. Working(n) <=> n = k
  BY <1>1 DEF Working
<1>6. n = k => text = metricSinkConfig(n, job.new.spec)
  OBVIOUS
<1>7. job.type = "update" /\ Head(todo).op = "restart" => x = "Pods"
  BY <1>1, UpdateTodo DEF CallsInv, Do
<1> HIDE DEF k, x, text
<1>8. ASSUME NEW u, x \in Objects, owner' = [owner EXCEPT ![k][x] = u]
      PROVE  owner'[n]["ConfigMap"] = IF n = k /\ x = "ConfigMap" THEN u ELSE owner[n]["ConfigMap"]
  BY <1>2, <1>4, <1>8, OwnerExcept
<1>9. ASSUME NEW v, conf' = [conf EXCEPT ![k] = v]
      PROVE  conf'[n] = IF n = k THEN v ELSE conf[n]
  BY <1>2, <1>4, <1>9
<1>10. CASE job.type = "add" /\ x \in Objects /\ owner' = [owner EXCEPT ![k][x] = NoteUid(job)]
            /\ conf' = (IF x = "ConfigMap" THEN [conf EXCEPT ![k] = text] ELSE conf)
  BY <1>5, <1>6, <1>8, <1>9, <1>10 DEF x
<1>11. CASE job.type = "update" /\ x = "ConfigMap" /\ owner' = [owner EXCEPT ![k][x] = NoteUid(job)]
            /\ conf' = [conf EXCEPT ![k] = text]
  BY <1>4, <1>5, <1>6, <1>8, <1>9, <1>11
<1>12. CASE job.type = "update" /\ Head(todo).op = "restart" /\ UNCHANGED <<owner, conf>>
  BY <1>7, <1>12 DEF x
<1>13. CASE job.type = "deleted" /\ x \in Objects /\ owner' = [owner EXCEPT ![k][x] = 0]
            /\ conf' = (IF x = "ConfigMap" THEN [conf EXCEPT ![k] = Absent] ELSE conf)
  BY <1>5, <1>8, <1>9, <1>13 DEF x
<1> QED
  BY <1>3, <1>10, <1>11, <1>12, <1>13

\* Of a sink that was just created nothing is known.
LEMMA NewUnknown ==
  ASSUME TypeOK, CallsInv, OrderInv, NEW n \in Names, NEW s, s.uid = created[n] + 1
  PROVE  Known(n, s)
<1>1. created[n] \in Nat /\ store[n] # Absent => store[n].uid \in Nat /\ store[n].uid <= created[n]
  BY UidTypes DEF OrderInv, NewestInv
<1>2. ASSUME NEW i \in About(n), pending[i].type \in {"add", "update"}
      PROVE  pending[i].new.uid \in Nat /\ pending[i].new.uid <= created[n]
  <2>1. i \in 1..Len(pending) /\ pending[i].name = n
    BY DEF About
  <2>2. NoteUid(pending[i]) \in Nat /\ NoteUid(pending[i]) <= created[n]
    BY <2>1, UidTypes DEF OrderInv, QueueInv
  <2> QED
    BY <1>2, <2>2 DEF NoteUid
<1>3. ASSUME Working(n), job.type \in {"add", "update"}
      PROVE  job.new.uid \in Nat /\ job.new.uid <= created[n]
  <2>1. NoteUid(job) \in Nat /\ NoteUid(job) <= created[n]
    BY <1>3, UidTypes DEF Working, OrderInv, JobInv, Reached
  <2> QED
    BY <1>3, <2>1 DEF NoteUid
<1>4. owner[n]["ConfigMap"] \in Nat /\ owner[n]["ConfigMap"] <= created[n]
  BY UidTypes DEF OrderInv, MadeInv, Reached, Objects
<1>5. created[n] \in Nat
  BY UidTypes
<1> QED
  BY <1>1, <1>2, <1>3, <1>4, <1>5 DEF Known

\* Every step but an update of a spec keeps what is known right.
LEMMA KnownStep ==
  ASSUME TypeOK, CallsInv, OrderInv, KnownInv, [Next]_vars, [SpecsFixed]_vars
  PROVE  KnownInv'
<1> SUFFICES ASSUME NEW n \in Names, sinks'[n] # Absent PROVE Known(n, sinks[n])'
  BY DEF KnownInv
<1>1. ASSUME UNCHANGED <<sinks, store, pending, job, todo, owner, conf>> PROVE Known(n, sinks[n])'
  BY <1>1 DEF KnownInv, Known, About, Working
<1>2. pending \in Seq(Notification)
  BY DEF TypeOK
<1>3. ASSUME sinks'[n] = sinks[n] PROVE sinks[n] # Absent /\ Known(n, sinks[n]) /\ sinks[n] \in Sink
  BY <1>3, UidTypes DEF KnownInv
<1>4. ASSUME NEW k \in Names, NEW v \in Specs, CreateSink(k, v) PROVE Known(n, sinks[n])'
  <2>1. /\ created'[k] = created[k] + 1
        /\ sinks' = [sinks EXCEPT ![k] = [uid |-> created'[k], spec |-> v]]
        /\ UNCHANGED <<store, pending, job, todo, owner, conf>>
    BY <1>4 DEF CreateSink, TypeOK
  <2>2. PICK s : s = sinks'[n]
    OBVIOUS
  <2>3. Known(n, s)
    <3>1. CASE n = k
      <4>1. s.uid = created[n] + 1
        BY <2>1, <2>2, <3>1 DEF TypeOK
      <4> QED
        BY <4>1, NewUnknown
    <3>2. CASE n # k
      BY <1>3, <2>1, <2>2, <3>2 DEF TypeOK
    <3> QED
      BY <3>1, <3>2
  <2> QED
    BY <2>1, <2>2, <2>3 DEF Known, About, Working
<1>5. ASSUME NEW k \in Names, NEW v \in Specs, UpdateSink(k, v) PROVE Known(n, sinks[n])'
  <2>1. /\ sinks[k] # Absent /\ sinks[k].spec # v /\ sinks' = [sinks EXCEPT ![k].spec = v]
        /\ sinks[k] \in Sink
    BY <1>5, UidTypes DEF UpdateSink
  <2>2. /\ sinks'[k] = [sinks[k] EXCEPT !.spec = v]
        /\ sinks'[k].uid = sinks[k].uid /\ sinks'[k].spec = v
    BY <2>1 DEF TypeOK, Sink
  <2>3. SpecsFixed /\ UNCHANGED <<store, pending, job, todo, owner, conf>>
    BY <1>5, <2>1, <2>2 DEF vars, UpdateSink
  <2>4. n # k
    BY <2>1, <2>2, <2>3 DEF SpecsFixed
  <2>5. sinks'[n] = sinks[n]
    BY <2>1, <2>4 DEF TypeOK
  <2> QED
    BY <1>1, <2>3, <2>5 DEF KnownInv, Known, About, Working
<1>6. ASSUME NEW k \in Names, DeleteSink(k) PROVE Known(n, sinks[n])'
  <2>1. sinks'[n] = sinks[n] /\ UNCHANGED <<store, pending, job, todo, owner, conf>>
    BY <1>6 DEF DeleteSink, TypeOK
  <2> QED
    BY <1>3, <2>1 DEF Known, About, Working
<1>7. ASSUME NEW k \in Names, Watch(k) \/ List(k) \/ Resync(k) PROVE Known(n, sinks[n])'
  <2>1. PICK m \in Notification :
          /\ m.name = k /\ NoteOK(m)
          /\ m.type # "deleted" => m.new = sinks[k] \/ (m.new = store[k] /\ store[k] # Absent)
          /\ m.type = "deleted" => m.new = Absent
          /\ pending' = Append(pending, m) /\ store' = [store EXCEPT ![k] = m.new]
          /\ UNCHANGED <<sinks, job, todo, owner, conf>>
    BY <1>7, Enqueued DEF OrderInv
  <2>2. PICK s : s = sinks[n]
    OBVIOUS
  <2>3. Known(n, s) /\ s # Absent /\ sinks'[n] = s
    BY <1>3, <2>1, <2>2
  <2>4. n = k /\ m.new # Absent /\ m.new.uid = s.uid => m.new.spec = s.spec
    BY <2>1, <2>2, <2>3 DEF Known
  <2>5. /\ pending'[Len(pending) + 1] = m
        /\ \A i \in 1..Len(pending) : pending'[i] = pending[i]
        /\ \A i \in 1..Len(pending') : i \in 1..Len(pending) \/ i = Len(pending) + 1
    BY <1>2, <2>1, AppendNote
  <2>6. store'[n] # Absent /\ store'[n].uid = s.uid => store'[n].spec = s.spec
    BY <2>1, <2>3, <2>4 DEF Known, TypeOK
  <2>7. n = k /\ m.type \in {"add", "update"} => m.new # Absent
    BY <2>1, <2>2, <2>3
  <2>8. \A i \in About(n)' : pending'[i].type \in {"add", "update"} /\ pending'[i].new.uid = s.uid =>
          pending'[i].new.spec = s.spec
    BY <2>1, <2>3, <2>4, <2>5, <2>7 DEF Known, About
  <2> QED
    BY <2>1, <2>3, <2>6, <2>8 DEF Known, Working
<1>8. ASSUME OnAdd \/ OnUpdate \/ OnDelete PROVE Known(n, sinks[n])'
  <2>1. PICK types, calls : Receive(types, calls)
    BY <1>8, ReceiveCalls
  <2>2. /\ pending # <<>> /\ pending' = Tail(pending) /\ todo' = calls
        /\ job' = IF calls = <<>> THEN Idle ELSE Head(pending)
        /\ UNCHANGED <<sinks, store, owner, conf>>
    BY <2>1 DEF Receive
  <2>3. /\ 1 \in 1..Len(pending) /\ Head(pending) = pending[1]
        /\ \A i \in 1..Len(pending') : i + 1 \in 1..Len(pending) /\ pending'[i] = pending[i + 1]
    BY <1>2, <2>2, TailNote
  <2>4. Known(n, sinks[n])
    BY <1>3, <2>2
  <2>5. Working(n)' => job' = pending[1] /\ 1 \in About(n)
    BY <2>2, <2>3 DEF Working, About
  <2>6. \A i \in About(n)' : i + 1 \in About(n) /\ pending'[i] = pending[i + 1]
    BY <2>3 DEF About
  <2> QED
    BY <2>2, <2>4, <2>5, <2>6 DEF Known
<1>9. ASSUME CallSucceeds \/ AnswerLost PROVE Known(n, sinks[n])'
  <2>1. /\ todo # <<>> /\ Accepted(Head(todo)) /\ Apply(Head(todo))
        /\ UNCHANGED <<sinks, store, pending>>
        /\ todo' # <<>> => job' = job
    BY <1>9 DEF CallSucceeds, AnswerLost, GoOn
  <2>2. Known(n, sinks[n]) /\ sinks[n] \in Sink /\ sinks[n].uid \in Uids
    BY <1>3, <2>1 DEF Sink
  <2>3. About(n)' = About(n) /\ (Working(n)' => Working(n) /\ job' = job)
    BY <2>1 DEF About, Working
  <2>4. sinks[n].uid # 0
    BY <2>2, MetricAssumption DEF Uids
  <2>5. owner'[n]["ConfigMap"] = sinks[n].uid => conf'[n] = metricSinkConfig(n, sinks[n].spec)
    <3>1. CASE owner'[n]["ConfigMap"] = owner[n]["ConfigMap"] /\ conf'[n] = conf[n]
      BY <2>2, <3>1 DEF Known
    <3>2. CASE /\ Working(n) /\ job.type \in {"add", "update"}
               /\ owner'[n]["ConfigMap"] = NoteUid(job)
               /\ conf'[n] = metricSinkConfig(n, job.new.spec)
      BY <2>2, <3>2 DEF Known, NoteUid
    <3> QED
      BY <1>9, <2>4, <3>1, <3>2, CallConf
  <2> QED
    BY <2>1, <2>2, <2>3, <2>5 DEF Known
<1>10. ASSUME CallFails \/ CallRefused PROVE Known(n, sinks[n])'
  <2>1. UNCHANGED <<sinks, store, pending, owner, conf>> /\ todo' = <<>>
    BY <1>10 DEF CallFails, CallRefused, GoOn
  <2> QED
    BY <1>3, <2>1 DEF Known, About, Working
<1>11. ASSUME Crash PROVE Known(n, sinks[n])'
  <2>1. Len(<<>>) = 0
    OBVIOUS
  <2>2. /\ UNCHANGED <<sinks, owner, conf>> /\ todo' = <<>> /\ pending' = <<>> /\ store'[n] = Absent
    BY <1>11 DEF Crash, GoOn
  <2>3. About(n)' = {}
    BY <2>1, <2>2 DEF About
  <2> QED
    BY <1>3, <2>2, <2>3 DEF Known, Working
<1>12. ASSUME NEW k \in Names, NEW x \in Objects, Collect(k, x) PROVE Known(n, sinks[n])'
  <2>1. /\ owner' = [owner EXCEPT ![k][x] = 0]
        /\ conf' = IF x = "ConfigMap" THEN [conf EXCEPT ![k] = Absent] ELSE conf
        /\ UNCHANGED <<sinks, store, pending, job, todo>>
    BY <1>12 DEF Collect
  <2>2. Known(n, sinks[n]) /\ sinks[n].uid # 0 /\ "ConfigMap" \in Objects
    BY <1>3, <2>1, UidTypes DEF Objects
  <2>3. owner'[n]["ConfigMap"] = IF n = k /\ x = "ConfigMap" THEN 0 ELSE owner[n]["ConfigMap"]
    BY <2>1, <2>2, OwnerExcept DEF TypeOK
  <2>4. n # k \/ x # "ConfigMap" => conf'[n] = conf[n]
    BY <2>1 DEF TypeOK
  <2> QED
    BY <2>1, <2>2, <2>3, <2>4 DEF Known, About, Working
<1>13. ASSUME NEW k \in Names, StartPod(k) \/ StopPod(k) PROVE Known(n, sinks[n])'
  BY <1>1, <1>13 DEF StartPod, StopPod
<1>14. CASE UNCHANGED vars
  BY <1>1, <1>14 DEF vars
<1> QED
  BY <1>4, <1>5, <1>6, <1>7, <1>8, <1>9, <1>10, <1>11, <1>12, <1>13, <1>14 DEF Next, Handle

\* Where no spec is ever changed, the ConfigMap of every MetricSink shows its
\* spec when all is quiet: through refused calls, lost answers, re-lists and
\* crashes, and whatever earlier sinks of the same name have left behind.
THEOREM ServedWithoutUpdates == Spec /\ [][SpecsFixed]_vars => []ServesSpec
<1> DEFINE Inv == TypeOK /\ CallsInv /\ OrderInv /\ KnownInv
<1>1. Init => KnownInv
  BY DEF Init, KnownInv
<1>2. Inv /\ [Next]_vars /\ [SpecsFixed]_vars => Inv'
  BY TypeStep, OrderStep, KnownStep
<1>3. Init => Inv
  BY <1>1, TypeInit, OrderInit
<1>4. Inv => ServesSpec
  BY DEF KnownInv, Known, ServesSpec
<1> QED
  BY <1>2, <1>3, <1>4, PTL DEF Spec

-----------------------------------------------------------------------------
(***************************************************************************)
(* The ConfigMap shows the spec: with updates.  An update that a watch     *)
(* tells of has neither Kind nor APIVersion, the owner reference OnUpdate  *)
(* makes of it is incomplete and its call is refused.  Defaulted is what   *)
(* OnUpdate would have if it set the two as OnAdd does.                    *)
(*                                                                         *)
(* OnUpdate compares the two specs of one notification, so the argument is *)
(* about their order: Follows says that the handler, once it is done with  *)
(* what is before place i, was last told v of a sink, because the next     *)
(* notification about it starts from v, or the informer still has v.       *)
(***************************************************************************)
Defaulted == todo # <<>> /\ job.type = "update" => job.meta

Follows(n, i, v) ==
  /\ \A j \in About(n) : i < j /\ (\A k \in About(n) : i < k => j <= k) => pending[j].old = v
  /\ (\A j \in About(n) : j <= i) => store[n] = v

LinkInv ==
  \A n \in Names : /\ \A i \in About(n) : Follows(n, i, pending[i].new)
                   /\ Working(n) => Follows(n, 0, job.new)

\* OnAdd hears of a sink before anything was made for it, as long as the
\* process lives; and the informer forgets only sinks that are gone.
Gap(n, c) ==
  /\ store[n] = Absent =>
       /\ \A o \in Objects : owner[n][o] < c
       /\ \A i \in About(n) : NoteUid(pending[i]) < c
       /\ Working(n) => NoteUid(job) < c
  /\ \A i \in About(n) : pending[i].type = "add" /\ NoteUid(pending[i]) = c =>
       /\ \A o \in Objects : owner[n][o] < c
       /\ \A j \in About(n) : j < i => NoteUid(pending[j]) < c
       /\ Working(n) => NoteUid(job) < c
  /\ \A i \in About(n) : pending[i].type = "unknown" => NoteUid(pending[i]) < c

GapInv == ~failed => \A n \in Names : sinks[n] # Absent => Gap(n, created[n])

\* The ConfigMap shows what the handler was last told, or is about to.
Served(n) ==
  IF Working(n)
  THEN Head(todo) # Do("update", "ConfigMap") => conf[n] = metricSinkConfig(n, job.new.spec)
  ELSE \E s \in Sink : Follows(n, 0, s) /\ conf[n] = metricSinkConfig(n, s.spec)

ServedInv ==
  ~failed =>
    \A n \in Names : sinks[n] # Absent /\ owner[n]["ConfigMap"] = sinks[n].uid => Served(n)

\* A new notification about a sink starts from what the informer had.
LEMMA FollowsAppend ==
  ASSUME TypeOK, NEW L \in Nat, L = Len(pending), NEW n \in Names, NEW k \in Names,
         NEW m \in Notification, m.name = k, m.old = store[k],
         pending' = Append(pending, m), store' = [store EXCEPT ![k] = m.new]
  PROVE  /\ \A i \in 0..L : \A v : Follows(n, i, v) => Follows(n, i, v)'
         /\ n = k => Follows(n, L + 1, m.new)'
         /\ About(n)' = IF n = k THEN About(n) \cup {L + 1} ELSE About(n)
         /\ \A i \in About(n) : i \in 1..L /\ pending'[i] = pending[i]
         /\ pending'[L + 1] = m
<1>1. /\ pending \in Seq(Notification) /\ Len(pending) \in Nat
      /\ Len(pending') = Len(pending) + 1 /\ pending'[Len(pending) + 1] = m
      /\ \A i \in 1..Len(pending) : pending'[i] = pending[i]
      /\ \A i \in 1..Len(pending') : i \in 1..Len(pending) \/ i = Len(pending) + 1
  BY AppendNote DEF TypeOK
<1>2. L = Len(pending)
  OBVIOUS
<1>3. \A i \in 1..L : i \in 1..(L + 1) /\ i # L + 1
  OBVIOUS
<1>4. About(n)' = IF n = k THEN About(n) \cup {L + 1} ELSE About(n)
  <2>1. \A i : i \in 1..(L + 1) <=> i \in 1..L \/ i = L + 1
    OBVIOUS
  <2> QED
    BY <1>1, <1>2, <1>3, <2>1 DEF About
<1>5. \A i \in About(n) : i \in 1..L /\ pending'[i] = pending[i]
  BY <1>1, <1>2 DEF About
<1>6. store'[n] = IF n = k THEN m.new ELSE store[n]
  BY DEF TypeOK
<1>7. ASSUME NEW i \in 0..L, NEW v, Follows(n, i, v) PROVE Follows(n, i, v)'
  <2>1. CASE n # k
    BY <1>4, <1>5, <1>6, <1>7, <2>1 DEF Follows
  <2>2. CASE n = k /\ \E j \in About(n) : i < j
    <3>1. PICK j \in About(n) : i < j
      BY <2>2
    <3>2. j \in About(n)' /\ ~(j <= i)
      BY <1>4, <1>5, <3>1
    <3>3. ASSUME NEW h \in About(n)', i < h, \A l \in About(n)' : i < l => h <= l
          PROVE  pending'[h] .old = v
      <4>1. h <= j /\ j \in 1..L
        BY <1>5, <3>1, <3>2, <3>3
      <4>2. h \in About(n)
        BY <1>4, <4>1
      <4>3. \A l \in About(n) : i < l => h <= l
        BY <1>4, <3>3
      <4> QED
        BY <1>5, <1>7, <3>3, <4>2, <4>3 DEF Follows
    <3> QED
      BY <3>2, <3>3 DEF Follows
  <2>3. CASE n = k /\ ~\E j \in About(n) : i < j
    <3>1. \A j \in About(n) : j <= i
      BY <1>5, <2>3
    <3>2. store[n] = v
      BY <1>7, <3>1 DEF Follows
    <3>3. ASSUME NEW h \in About(n)', i < h PROVE h = L + 1
      BY <1>4, <2>3, <3>3
    <3>4. L + 1 \in About(n)' /\ ~(L + 1 <= i)
      BY <1>4, <2>3
    <3> QED
      BY <1>1, <1>2, <2>3, <3>2, <3>3, <3>4 DEF Follows
  <2> QED
    BY <2>1, <2>2, <2>3
<1>8. ASSUME n = k PROVE Follows(n, L + 1, m.new)'
  <2>1. \A j \in About(n)' : ~(L + 1 < j)
    BY <1>4, <1>5
  <2> QED
    BY <1>6, <1>8, <2>1 DEF Follows
<1> QED
  BY <1>1, <1>2, <1>4, <1>5, <1>7, <1>8

\* The handler takes the first notification and the rest moves up.
LEMMA FollowsTail ==
  ASSUME TypeOK, NEW n \in Names, pending # <<>>, pending' = Tail(pending), store' = store
  PROVE  /\ \A i \in Nat : \A v : Follows(n, i + 1, v) => Follows(n, i, v)'
         /\ pending[1].name # n => \A v : Follows(n, 0, v) => Follows(n, 0, v)'
         /\ pending[1].name = n => 1 \in About(n) /\ \A v : Follows(n, 0, v) => pending[1].old = v
         /\ \A i \in About(n)' : i \in Nat /\ i >= 1 /\ i + 1 \in About(n) /\ pending'[i] = pending[i + 1]
         /\ Head(pending) = pending[1] /\ 1 \in 1..Len(pending)
<1>1. /\ pending \in Seq(Notification) /\ Len(pending) \in Nat
      /\ 1 \in 1..Len(pending) /\ Head(pending) = pending[1] /\ Len(pending') = Len(pending) - 1
      /\ \A i \in 1..Len(pending') : i + 1 \in 1..Len(pending) /\ pending'[i] = pending[i + 1]
  BY TailNote DEF TypeOK
<1>2. \A i \in About(n)' : i \in Nat /\ i >= 1 /\ i + 1 \in About(n) /\ pending'[i] = pending[i + 1]
  BY <1>1 DEF About
<1>3. \A i \in About(n) : i \in Nat /\ i >= 1 /\ (i # 1 => i - 1 \in About(n)')
  <2> SUFFICES ASSUME NEW i \in About(n), i # 1 PROVE i - 1 \in About(n)'
    BY <1>1 DEF About
  <2>1. i \in 1..Len(pending) /\ i - 1 \in 1..Len(pending') /\ (i - 1) + 1 = i
    BY <1>1 DEF About
  <2> QED
    BY <1>1, <2>1 DEF About
<1>4. ASSUME NEW i \in Nat, NEW v, Follows(n, i + 1, v) PROVE Follows(n, i, v)'
  <2>1. ASSUME NEW j \in About(n)', i < j, \A l \in About(n)' : i < l => j <= l
        PROVE  pending'[j].old = v
    <3>1. j + 1 \in About(n) /\ i + 1 < j + 1 /\ j \in Nat
      BY <1>2, <2>1
    <3>2. ASSUME NEW l \in About(n), i + 1 < l PROVE j + 1 <= l
      <4>1. l \in Nat /\ l # 1 /\ l - 1 \in About(n)' /\ i < l - 1
        BY <1>3, <3>2
      <4>2. j <= l - 1
        BY <2>1, <4>1
      <4> QED
        BY <3>1, <4>1, <4>2
    <3>3. pending[j + 1].old = v
      BY <1>4, <3>1, <3>2 DEF Follows
    <3> QED
      BY <1>2, <3>3
  <2>2. ASSUME \A j \in About(n)' : j <= i PROVE store[n] = v
    <3>1. ASSUME NEW j \in About(n) PROVE j <= i + 1
      <4>1. CASE j = 1
        BY <4>1
      <4>2. CASE j # 1
        <5>1. j \in Nat /\ j - 1 \in About(n)'
          BY <1>3, <4>2
        <5>2. j - 1 <= i
          BY <2>2, <5>1
        <5> QED
          BY <5>1, <5>2
      <4> QED
        BY <4>1, <4>2
    <3> QED
      BY <1>4, <3>1 DEF Follows
  <2> QED
    BY <2>1, <2>2 DEF Follows
<1>5. ASSUME pending[1].name # n, NEW v, Follows(n, 0, v) PROVE Follows(n, 0, v)'
  <2>1. \A j \in About(n) : j \in Nat /\ j > 1
    BY <1>3, <1>5 DEF About
  <2>2. \A j \in About(n) : (0 < j <=> 1 < j) /\ (j <= 0 <=> j <= 1)
    BY <2>1
  <2>3. Follows(n, 1, v)
    BY <1>5, <2>2 DEF Follows
  <2>4. 0 + 1 = 1
    OBVIOUS
  <2>5. Follows(n, 0 + 1, v)
    BY <2>3, <2>4
  <2> QED
    BY <1>4, <2>5
<1>6. ASSUME pending[1].name = n
      PROVE  1 \in About(n) /\ \A v : Follows(n, 0, v) => pending[1].old = v
  <2>1. 1 \in About(n)
    BY <1>1, <1>6 DEF About
  <2>2. 0 < 1 /\ \A l \in About(n) : 1 <= l
    BY <1>3
  <2> QED
    BY <2>1, <2>2 DEF Follows
<1> QED
  BY <1>1, <1>2, <1>4, <1>5, <1>6

\* Every notification goes on from the one before it.
LEMMA LinkStep ==
  ASSUME TypeOK, CallsInv, OrderInv, LinkInv, [Next]_vars
  PROVE  LinkInv'
<1> SUFFICES ASSUME NEW n \in Names
             PROVE  /\ \A i \in About(n)' : Follows(n, i, pending[i].new)'
                    /\ Working(n)' => Follows(n, 0, job.new)'
  BY DEF LinkInv
<1>1. /\ \A i \in About(n) : Follows(n, i, pending[i].new)
      /\ Working(n) => Follows(n, 0, job.new)
  BY DEF LinkInv
<1>2. ASSUME UNCHANGED <<store, pending>>, todo' = <<>> \/ (todo # <<>> /\ job' = job)
      PROVE  /\ \A i \in About(n)' : Follows(n, i, pending[i].new)'
             /\ Working(n)' => Follows(n, 0, job.new)'
  BY <1>1, <1>2 DEF About, Working, Follows
<1>3. ASSUME NEW k \in Names, Watch(k) \/ List(k) \/ Resync(k)
      PROVE  /\ \A i \in About(n)' : Follows(n, i, pending[i].new)'
             /\ Working(n)' => Follows(n, 0, job.new)'
  <2>1. PICK m \in Notification :
          /\ m.name = k /\ m.old = store[k]
          /\ pending' = Append(pending, m) /\ store' = [store EXCEPT ![k] = m.new]
          /\ UNCHANGED <<job, todo>>
    BY <1>3, Enqueued DEF OrderInv
  <2>2. PICK L \in Nat : L = Len(pending)
    <3>1. pending \in Seq(Notification)
      BY DEF TypeOK
    <3> QED
      BY <3>1
  <2>3. /\ \A i \in 0..L : \A v : Follows(n, i, v) => Follows(n, i, v)'
        /\ n = k => Follows(n, L + 1, m.new)'
        /\ About(n)' = IF n = k THEN About(n) \cup {L + 1} ELSE About(n)
        /\ \A i \in About(n) : i \in 1..L /\ pending'[i] = pending[i]
        /\ pending'[L + 1] = m
    <3>1. L = Len(pending) /\ m.name = k /\ m.old = store[k]
      BY <2>1, <2>2
    <3>2. pending' = Append(pending, m) /\ store' = [store EXCEPT ![k] = m.new]
      BY <2>1
    <3>3. \A i \in 0..L : \A v : Follows(n, i, v) => Follows(n, i, v)'
      BY <3>1, <3>2, FollowsAppend
    <3>4. n = k => Follows(n, L + 1, m.new)'
      BY <3>1, <3>2, FollowsAppend
    <3>5. About(n)' = IF n = k THEN About(n) \cup {L + 1} ELSE About(n)
      BY <3>1, <3>2, FollowsAppend
    <3>6. \A i \in About(n) : i \in 1..L /\ pending'[i] = pending[i]
      BY <3>1, <3>2, FollowsAppend
    <3>7. pending'[L + 1] = m
      BY <3>1, <3>2, FollowsAppend
    <3> QED
      BY <3>3, <3>4, <3>5, <3>6, <3>7
  <2>4. ASSUME NEW i \in About(n)' PROVE Follows(n, i, pending[i].new)'
    <3>1. PICK v : v = pending'[i].new
      OBVIOUS
    <3>2. CASE i \in About(n)
      <4>1. v = pending[i].new /\ i \in 0..L
        BY <2>3, <3>1, <3>2
      <4>2. Follows(n, i, v)
        BY <1>1, <3>2, <4>1
      <4>3. Follows(n, i, v)'
        BY <2>3, <4>1, <4>2
      <4> QED
        BY <3>1, <4>3 DEF Follows
    <3>3. CASE i \notin About(n)
      <4>1. n = k /\ i = L + 1 /\ v = m.new
        BY <2>3, <3>1, <3>3
      <4>2. Follows(n, i, v)'
        BY <2>3, <4>1
      <4> QED
        BY <3>1, <4>2 DEF Follows
    <3> QED
      BY <3>2, <3>3
  <2>5. ASSUME Working(n)' PROVE Follows(n, 0, job.new)'
    <3>1. PICK v : v = job.new
      OBVIOUS
    <3>2. Working(n) /\ job'.new = v /\ 0 \in 0..L
      BY <2>1, <2>5, <3>1 DEF Working
    <3>3. Follows(n, 0, v)'
      BY <1>1, <2>3, <3>1, <3>2
    <3> QED
      BY <3>2, <3>3 DEF Follows
  <2> QED
    BY <2>4, <2>5
<1>4. ASSUME OnAdd \/ OnUpdate \/ OnDelete
      PROVE  /\ \A i \in About(n)' : Follows(n, i, pending[i].new)'
             /\ Working(n)' => Follows(n, 0, job.new)'
  <2>1. PICK types, calls : Receive(types, calls)
    BY <1>4, ReceiveCalls
  <2>2. /\ pending # <<>> /\ pending' = Tail(pending) /\ todo' = calls /\ store' = store
        /\ job' = IF calls = <<>> THEN Idle ELSE Head(pending)
    BY <2>1 DEF Receive
  <2>3. /\ \A i \in Nat : \A v : Follows(n, i + 1, v) => Follows(n, i, v)'
        /\ pending[1].name = n => 1 \in About(n)
        /\ \A i \in About(n)' : i \in Nat /\ i >= 1 /\ i + 1 \in About(n) /\ pending'[i] = pending[i + 1]
        /\ Head(pending) = pending[1]
    BY <2>2, FollowsTail
  <2>4. ASSUME NEW i \in About(n)' PROVE Follows(n, i, pending[i].new)'
    <3>1. PICK v : v = pending'[i].new
      OBVIOUS
    <3>2. Follows(n, i + 1, v) /\ i \in Nat
      BY <1>1, <2>3, <3>1
    <3>3. Follows(n, i, v)'
      BY <2>3, <3>2
    <3> QED
      BY <3>1, <3>3 DEF Follows
  <2>5. ASSUME Working(n)' PROVE Follows(n, 0, job.new)'
    <3>1. PICK v : v = pending[1].new
      OBVIOUS
    <3>2. job' = pending[1] /\ pending[1].name = n
      BY <2>2, <2>3, <2>5 DEF Working
    <3>3. Follows(n, 1, v) /\ 0 + 1 = 1
      BY <1>1, <2>3, <3>1, <3>2
    <3>4. Follows(n, 0 + 1, v)
      BY <3>3
    <3>5. Follows(n, 0, v)'
      BY <2>3, <3>4
    <3>6. job'.new = v
      BY <3>1, <3>2
    <3> QED
      BY <3>5, <3>6 DEF Follows
  <2> QED
    BY <2>4, <2>5
<1>5. ASSUME CallSucceeds \/ CallFails \/ CallRefused \/ AnswerLost
      PROVE  UNCHANGED <<store, pending>> /\ (todo' = <<>> \/ (todo # <<>> /\ job' = job))
  BY <1>5 DEF CallSucceeds, CallFails, CallRefused, AnswerLost, GoOn
<1>6. ASSUME Crash
      PROVE  /\ \A i \in About(n)' : Follows(n, i, pending[i].new)'
             /\ Working(n)' => Follows(n, 0, job.new)'
  <2>1. Len(<<>>) = 0
    OBVIOUS
  <2>2. About(n)' = {} /\ ~Working(n)'
    BY <1>6, <2>1 DEF Crash, GoOn, About, Working
  <2> QED
    BY <2>2
<1>7. ASSUME UNCHANGED <<store, pending, job, todo>>
      PROVE  /\ \A i \in About(n)' : Follows(n, i, pending[i].new)'
             /\ Working(n)' => Follows(n, 0, job.new)'
  BY <1>1, <1>7 DEF About, Working, Follows
<1> QED
  BY <1>2, <1>3, <1>4, <1>5, <1>6, <1>7
     DEF Next, Handle, vars, CreateSink, UpdateSink, DeleteSink, Collect, StartPod, StopPod

\* All that is made or told of a sink is at most as new as the last created.
LEMMA Bounds ==
  ASSUME TypeOK, CallsInv, OrderInv, NEW n \in Names
  PROVE  /\ created[n] \in Nat
         /\ sinks[n] # Absent => sinks[n].uid = created[n] /\ created[n] > 0
         /\ \A o \in Objects : /\ owner[n][o] \in Nat /\ owner[n][o] <= created[n]
                               /\ store[n] # Absent => owner[n][o] <= store[n].uid
         /\ \A i \in About(n) : /\ NoteUid(pending[i]) \in Nat /\ NoteUid(pending[i]) <= created[n]
                                /\ store[n] # Absent => NoteUid(pending[i]) <= store[n].uid
                                /\ \A o \in Objects : owner[n][o] <= NoteUid(pending[i])
         /\ Working(n) => /\ NoteUid(job) \in Nat /\ NoteUid(job) <= created[n]
                          /\ store[n] # Absent => NoteUid(job) <= store[n].uid
         /\ store[n] # Absent => store[n].uid \in Nat /\ store[n].uid <= created[n]
<1>1. /\ created[n] \in Nat
      /\ sinks[n] # Absent => sinks[n].uid = created[n] /\ created[n] > 0
      /\ store[n] # Absent => store[n].uid \in Nat /\ store[n].uid <= created[n]
  BY UidTypes DEF OrderInv, NewestInv
<1>2. \A o \in Objects : owner[n][o] \in Nat /\ Reached(n, owner[n][o])
  BY UidTypes DEF OrderInv, MadeInv
<1>3. \A i \in About(n) : /\ NoteUid(pending[i]) \in Nat /\ NoteUid(pending[i]) <= created[n]
                          /\ store[n] # Absent => NoteUid(pending[i]) <= store[n].uid
  BY UidTypes DEF OrderInv, QueueInv, About
<1>4. Working(n) => NoteUid(job) \in Nat /\ Reached(n, NoteUid(job))
  BY UidTypes DEF OrderInv, JobInv, Working
<1>5. \A i \in About(n), o \in Objects : owner[n][o] <= NoteUid(pending[i])
  BY <1>2 DEF Reached, About
<1> QED
  BY <1>1, <1>2, <1>3, <1>4, <1>5 DEF Reached

\* OnAdd still comes first for every sink, as long as the process lives.
LEMMA GapStep ==
  ASSUME TypeOK, CallsInv, OrderInv, GapInv, [Next]_vars
  PROVE  GapInv'
<1> SUFFICES ASSUME ~failed', NEW n \in Names, sinks'[n] # Absent PROVE Gap(n, created[n])'
  BY DEF GapInv
<1>1. ~(CallRefused \/ AnswerLost \/ Crash) /\ ~failed
  BY NeverRepaired
<1>2. ASSUME sinks[n] # Absent, created'[n] = created[n], UNCHANGED <<store, pending, job, todo>>,
             \A o \in Objects : owner'[n][o] \in {owner[n][o], 0}
      PROVE  Gap(n, created[n])'
  <2>1. PICK c \in Nat : c = created[n]
    BY Bounds
  <2>2. c > 0 /\ Gap(n, c)
    BY <1>1, <1>2, <2>1, Bounds DEF GapInv
  <2>3. \A o \in Objects : owner[n][o] < c => owner'[n][o] < c
    BY <1>2, <2>2
  <2>4. About(n)' = About(n) /\ (Working(n)' <=> Working(n))
    BY <1>2 DEF About, Working
  <2>5. Gap(n, c)'
    BY <1>2, <2>2, <2>3, <2>4 DEF Gap
  <2> QED
    BY <1>2, <2>1, <2>5 DEF Gap
<1>3. ASSUME NEW k \in Names, NEW v \in Specs, CreateSink(k, v) PROVE Gap(n, created[n])'
  <2>1. /\ created' = [created EXCEPT ![k] = created[k] + 1] /\ sinks[k] = Absent
        /\ sinks' = [sinks EXCEPT ![k] = [uid |-> created'[k], spec |-> v]]
        /\ UNCHANGED <<store, pending, job, todo, owner>>
    BY <1>3 DEF CreateSink, TypeOK
  <2>2. CASE n = k
    <3>1. PICK c \in Nat : c = created[n]
      BY Bounds
    <3>2. created'[n] = c + 1
      BY <2>1, <2>2, <3>1 DEF TypeOK
    <3>3. /\ \A o \in Objects : owner[n][o] < c + 1
          /\ \A i \in About(n) : NoteUid(pending[i]) < c + 1
          /\ Working(n) => NoteUid(job) < c + 1
      BY <3>1, Bounds
    <3>4. Gap(n, c + 1)
      BY <3>3 DEF Gap
    <3> QED
      BY <2>1, <3>2, <3>4 DEF Gap, About, Working
  <2>3. CASE n # k
    BY <1>2, <2>1, <2>3 DEF TypeOK
  <2> QED
    BY <2>2, <2>3
<1>4. ASSUME NEW k \in Names, DeleteSink(k) \/ \E v \in Specs : UpdateSink(k, v)
      PROVE  Gap(n, created[n])'
  <2>1. UNCHANGED <<created, store, pending, job, todo, owner>> /\ sinks[n] # Absent
    BY <1>4 DEF UpdateSink, DeleteSink, TypeOK
  <2> QED
    BY <1>2, <2>1
<1>5. ASSUME NEW k \in Names, Watch(k) \/ List(k) \/ Resync(k) PROVE Gap(n, created[n])'
  <2>1. PICK m \in Notification :
          /\ m.name = k /\ m.old = store[k]
          /\ m.type = "add" <=> store[k] = Absent
          /\ m.type \in {"deleted", "unknown"} =>
               sinks[k] = Absent \/ (store[k] # Absent /\ store[k].uid # sinks[k].uid)
          /\ m.type # "deleted" => m.new = sinks[k] \/ (m.new = store[k] /\ store[k] # Absent)
          /\ pending' = Append(pending, m) /\ store' = [store EXCEPT ![k] = m.new]
          /\ UNCHANGED <<sinks, created, job, todo, owner>>
    BY <1>5, Enqueued DEF OrderInv
  <2>2. PICK L \in Nat : L = Len(pending)
    <3>1. pending \in Seq(Notification)
      BY DEF TypeOK
    <3> QED
      BY <3>1
  <2>3. L = Len(pending) /\ m.name = k /\ m.old = store[k]
    BY <2>1, <2>2
  <2>4. pending' = Append(pending, m) /\ store' = [store EXCEPT ![k] = m.new]
    BY <2>1
  <2>5. About(n)' = IF n = k THEN About(n) \cup {L + 1} ELSE About(n)
    BY <2>3, <2>4, FollowsAppend
  <2>6. \A i \in About(n) : i \in 1..L /\ pending'[i] = pending[i]
    BY <2>3, <2>4, FollowsAppend
  <2>7. pending'[L + 1] = m
    BY <2>3, <2>4, FollowsAppend
  <2>8. PICK c \in Nat : c = created[n]
    BY Bounds
  <2>9. Gap(n, c) /\ sinks[n] # Absent /\ sinks[n].uid = c
    BY <1>1, <2>1, <2>8, Bounds DEF GapInv
  <2>10. (Working(n)' <=> Working(n)) /\ job' = job /\ owner' = owner /\ created'[n] = c
    BY <2>1, <2>8 DEF Working
  <2>11. Gap(n, c)'
    <3>1. CASE n # k
      <4>1. About(n)' = About(n) /\ store'[n] = store[n]
        BY <2>4, <2>5, <3>1 DEF TypeOK
      <4> QED
        BY <2>6, <2>9, <2>10, <4>1 DEF Gap
    <3>2. CASE n = k
      <4>1. m.type \in {"add", "update", "deleted", "unknown"} /\ store'[n] = m.new
        BY <2>4, <3>2 DEF Notification, TypeOK
      <4>2. ASSUME m.type \in {"deleted", "unknown"}
            PROVE  /\ NoteUid(m) < c /\ \A o \in Objects : owner[n][o] < c
                   /\ \A i \in About(n) : NoteUid(pending[i]) < c
                   /\ Working(n) => NoteUid(job) < c
        <5>1. PICK u \in Nat : u = store[n].uid /\ u < c /\ store[n] # Absent
          BY <2>1, <2>8, <2>9, <3>2, <4>2, Bounds
        <5>2. NoteUid(m) = u
          BY <2>1, <3>2, <4>2, <5>1 DEF NoteUid
        <5>3. /\ \A o \in Objects : owner[n][o] \in Nat /\ owner[n][o] <= u
              /\ \A i \in About(n) : NoteUid(pending[i]) \in Nat /\ NoteUid(pending[i]) <= u
              /\ Working(n) => NoteUid(job) \in Nat /\ NoteUid(job) <= u
          BY <5>1, Bounds
        <5> QED
          BY <5>1, <5>2, <5>3
      <4>3. m.type \in {"add", "update"} => store'[n] # Absent
        BY <2>1, <2>9, <3>2, <4>1
      <4>4. ASSUME store'[n] = Absent
            PROVE  /\ \A o \in Objects : owner'[n][o] < c
                   /\ \A i \in About(n)' : NoteUid(pending'[i]) < c
                   /\ Working(n)' => NoteUid(job') < c
        BY <2>5, <2>6, <2>7, <2>10, <4>1, <4>2, <4>3, <4>4
      <4>5. ASSUME NEW i \in About(n)', pending'[i].type = "add", NoteUid(pending'[i]) = c
            PROVE  /\ \A o \in Objects : owner'[n][o] < c
                   /\ \A j \in About(n)' : j < i => NoteUid(pending'[j]) < c
                   /\ Working(n)' => NoteUid(job') < c
        <5>1. CASE i \in About(n)
          <6>1. /\ \A o \in Objects : owner[n][o] < c
                /\ \A j \in About(n) : j < i => NoteUid(pending[j]) < c
                /\ Working(n) => NoteUid(job) < c
            BY <2>6, <2>9, <4>5, <5>1 DEF Gap
          <6>2. \A j \in About(n)' : j < i => j \in About(n)
            BY <2>5, <2>6, <5>1
          <6> QED
            BY <2>6, <2>10, <6>1, <6>2
        <5>2. CASE i \notin About(n)
          <6>1. i = L + 1 /\ store[n] = Absent
            BY <2>1, <2>5, <2>7, <3>2, <4>5, <5>2
          <6>2. /\ \A o \in Objects : owner[n][o] < c
                /\ \A j \in About(n) : NoteUid(pending[j]) < c
                /\ Working(n) => NoteUid(job) < c
            BY <2>9, <6>1 DEF Gap
          <6>3. \A j \in About(n)' : j < i => j \in About(n)
            BY <2>5, <6>1
          <6> QED
            BY <2>6, <2>10, <6>2, <6>3
        <5> QED
          BY <5>1, <5>2
      <4>6. ASSUME NEW i \in About(n)', pending'[i].type = "unknown" PROVE NoteUid(pending'[i]) < c
        BY <2>5, <2>6, <2>7, <2>9, <4>2, <4>6 DEF Gap
      <4> QED
        BY <4>4, <4>5, <4>6 DEF Gap
    <3> QED
      BY <3>1, <3>2
  <2> QED
    BY <2>10, <2>11 DEF Gap
<1>6. ASSUME OnAdd \/ OnUpdate \/ OnDelete PROVE Gap(n, created[n])'
  <2>1. PICK types, calls : Receive(types, calls)
    BY <1>6, ReceiveCalls
  <2>2. /\ todo = <<>> /\ pending # <<>> /\ pending' = Tail(pending) /\ todo' = calls
        /\ job' = IF calls = <<>> THEN Idle ELSE Head(pending)
        /\ UNCHANGED <<sinks, created, store, owner>>
    BY <2>1 DEF Receive
  <2>3. /\ \A i \in About(n)' : i \in Nat /\ i >= 1 /\ i + 1 \in About(n) /\ pending'[i] = pending[i + 1]
        /\ pending[1].name = n => 1 \in About(n)
        /\ Head(pending) = pending[1]
    BY <2>2, FollowsTail
  <2>4. PICK c \in Nat : c = created[n]
    BY Bounds
  <2>5. Gap(n, c)
    BY <1>1, <2>2, <2>4 DEF GapInv
  <2>6. Working(n)' => job' = pending[1] /\ 1 \in About(n)
    BY <2>2, <2>3 DEF Working
  <2>7. ASSUME NEW i \in About(n)', pending'[i].type = "add", NoteUid(pending'[i]) = c
        PROVE  /\ \A o \in Objects : owner'[n][o] < c
               /\ \A j \in About(n)' : j < i => NoteUid(pending'[j]) < c
               /\ Working(n)' => NoteUid(job') < c
    <3>1. i \in Nat /\ i >= 1 /\ i + 1 \in About(n) /\ pending'[i] = pending[i + 1]
      BY <2>3
    <3>2. /\ \A o \in Objects : owner[n][o] < c
          /\ \A j \in About(n) : j < i + 1 => NoteUid(pending[j]) < c
      BY <2>5, <2>7, <3>1 DEF Gap
    <3>3. ASSUME NEW j \in About(n)', j < i PROVE NoteUid(pending'[j]) < c
      <4>1. j + 1 \in About(n) /\ j + 1 < i + 1 /\ pending'[j] = pending[j + 1]
        BY <2>3, <3>1, <3>3
      <4> QED
        BY <3>2, <4>1
    <3>4. 1 < i + 1
      BY <3>1
    <3> QED
      BY <2>2, <2>6, <3>2, <3>3, <3>4
  <2>8. ASSUME store'[n] = Absent
        PROVE  /\ \A o \in Objects : owner'[n][o] < c
               /\ \A i \in About(n)' : NoteUid(pending'[i]) < c
               /\ Working(n)' => NoteUid(job') < c
    BY <2>2, <2>3, <2>5, <2>6, <2>8 DEF Gap
  <2>9. ASSUME NEW i \in About(n)', pending'[i].type = "unknown" PROVE NoteUid(pending'[i]) < c
    BY <2>3, <2>5, <2>9 DEF Gap
  <2>10. Gap(n, c)'
    BY <2>7, <2>8, <2>9 DEF Gap
  <2> QED
    BY <2>2, <2>4, <2>10 DEF Gap
<1>7. ASSUME CallSucceeds \/ CallFails PROVE Gap(n, created[n])'
  <2>1. /\ UNCHANGED <<sinks, created, store, pending>> /\ todo # <<>>
        /\ todo' # <<>> => job' = job
    BY <1>7 DEF CallSucceeds, CallFails, GoOn
  <2>2. PICK c \in Nat : c = created[n]
    BY Bounds
  <2>3. Gap(n, c) /\ c > 0
    BY <1>1, <2>1, <2>2, Bounds DEF GapInv
  <2>4. About(n)' = About(n) /\ (Working(n)' => Working(n) /\ job' = job)
    BY <2>1 DEF About, Working
  <2>5. \A o \in Objects : \/ owner'[n][o] \in {owner[n][o], 0}
                           \/ Working(n) /\ owner'[n][o] = NoteUid(job)
    BY OwnerStep
  <2>6. ASSUME \A o \in Objects : owner[n][o] < c, Working(n) => NoteUid(job) < c
        PROVE  \A o \in Objects : owner'[n][o] < c
    BY <2>3, <2>5, <2>6
  <2>7. ASSUME store'[n] = Absent
        PROVE  /\ \A o \in Objects : owner'[n][o] < c
               /\ \A i \in About(n)' : NoteUid(pending'[i]) < c
               /\ Working(n)' => NoteUid(job') < c
    BY <2>1, <2>3, <2>4, <2>6, <2>7 DEF Gap
  <2>8. ASSUME NEW i \in About(n)', pending'[i].type = "add", NoteUid(pending'[i]) = c
        PROVE  /\ \A o \in Objects : owner'[n][o] < c
               /\ \A j \in About(n)' : j < i => NoteUid(pending'[j]) < c
               /\ Working(n)' => NoteUid(job') < c
    BY <2>1, <2>3, <2>4, <2>6, <2>8 DEF Gap
  <2>9. ASSUME NEW i \in About(n)', pending'[i].type = "unknown" PROVE NoteUid(pending'[i]) < c
    BY <2>1, <2>3, <2>4, <2>9 DEF Gap
  <2>10. Gap(n, c)'
    BY <2>7, <2>8, <2>9 DEF Gap
  <2> QED
    BY <2>1, <2>2, <2>10 DEF Gap
<1>8. ASSUME NEW k \in Names, NEW x \in Objects, Collect(k, x) PROVE Gap(n, created[n])'
  <2>1. UNCHANGED <<sinks, created, store, pending, job, todo>> /\ owner' = [owner EXCEPT ![k][x] = 0]
    BY <1>8 DEF Collect
  <2>2. \A o \in Objects : owner'[n][o] \in {owner[n][o], 0}
    BY <2>1, OwnerExcept DEF TypeOK
  <2> QED
    BY <1>2, <2>1, <2>2
<1>9. ASSUME NEW k \in Names, StartPod(k) \/ StopPod(k) PROVE Gap(n, created[n])'
  <2>1. UNCHANGED <<sinks, created, store, pending, job, todo, owner>>
    BY <1>9 DEF StartPod, StopPod
  <2> QED
    BY <1>2, <2>1
<1>10. CASE UNCHANGED vars
  BY <1>2, <1>10 DEF vars
<1> QED
  BY <1>1, <1>3, <1>4, <1>5, <1>6, <1>7, <1>8, <1>9, <1>10 DEF Next, Handle

\* The ConfigMap keeps up with what the handler is told.
LEMMA ServedStep ==
  ASSUME TypeOK, CallsInv, OrderInv, LinkInv, GapInv, ServedInv, Defaulted, [Next]_vars
  PROVE  ServedInv'
<1> SUFFICES ASSUME ~failed', NEW n \in Names, sinks'[n] # Absent,
                    owner'[n]["ConfigMap"] = sinks'[n].uid
             PROVE  Served(n)'
  BY DEF ServedInv
<1>1. ~(CallRefused \/ AnswerLost \/ Crash) /\ ~failed
  BY NeverRepaired
<1>2. "ConfigMap" \in Objects
  BY DEF Objects
<1>3. ASSUME owner'[n]["ConfigMap"] = owner[n]["ConfigMap"]
      PROVE  \E u \in Nat : /\ u = owner[n]["ConfigMap"] /\ Live(n, u) /\ u # 0 /\ u = created[n]
                            /\ Reached(n, u) /\ Served(n)
                            /\ Working(n) => NoteUid(job) = u /\ job.type # "deleted"
  <2>1. PICK u \in Nat : u = owner[n]["ConfigMap"]
    BY <1>2, UidTypes
  <2>2. Reached(n, u)
    BY <1>2, <2>1 DEF OrderInv, MadeInv
  <2>3. Live(n, u)
    BY <1>3, <2>1, <2>2, LiveStep
  <2>4. Served(n)
    BY <1>1, <2>1, <2>3 DEF ServedInv, Live
  <2> QED
    BY <2>1, <2>2, <2>3, <2>4, LiveFacts
<1>4. ASSUME UNCHANGED <<store, pending, job, todo>>, conf'[n] = conf[n],
             owner'[n]["ConfigMap"] = owner[n]["ConfigMap"]
      PROVE  Served(n)'
  <2>1. Served(n)
    BY <1>3, <1>4
  <2> QED
    BY <1>4, <2>1 DEF Served, Working, Follows, About
<1>5. ASSUME NEW k \in Names, Watch(k) \/ List(k) \/ Resync(k) PROVE Served(n)'
  <2>1. PICK m \in Notification :
          /\ m.name = k /\ m.old = store[k]
          /\ pending' = Append(pending, m) /\ store' = [store EXCEPT ![k] = m.new]
          /\ UNCHANGED <<job, todo, owner, conf>>
    BY <1>5, Enqueued DEF OrderInv
  <2>2. Served(n)
    BY <1>3, <2>1
  <2>3. CASE Working(n)
    BY <2>1, <2>2, <2>3 DEF Served, Working
  <2>4. CASE ~Working(n)
    <3>1. PICK s \in Sink : Follows(n, 0, s) /\ conf[n] = metricSinkConfig(n, s.spec)
      BY <2>2, <2>4 DEF Served
    <3>2. PICK L \in Nat : L = Len(pending)
      <4>1. pending \in Seq(Notification)
        BY DEF TypeOK
      <4> QED
        BY <4>1
    <3>3. L = Len(pending) /\ m.name = k /\ m.old = store[k]
      BY <2>1, <3>2
    <3>4. pending' = Append(pending, m) /\ store' = [store EXCEPT ![k] = m.new]
      BY <2>1
    <3>5. \A i \in 0..L : \A v : Follows(n, i, v) => Follows(n, i, v)'
      BY <3>3, <3>4, FollowsAppend
    <3>6. Follows(n, 0, s)'
      BY <3>1, <3>5
    <3>7. ~Working(n)' /\ conf'[n] = metricSinkConfig(n, s.spec)
      BY <2>1, <2>4, <3>1 DEF Working
    <3> QED
      BY <3>6, <3>7 DEF Served
  <2> QED
    BY <2>3, <2>4
<1>6. ASSUME OnAdd \/ OnUpdate \/ OnDelete PROVE Served(n)'
  <2>1. PICK types, calls : Receive(types, calls)
    BY <1>6, ReceiveCalls
  <2>2. /\ todo = <<>> /\ pending # <<>> /\ pending' = Tail(pending) /\ todo' = calls
        /\ job' = IF calls = <<>> THEN Idle ELSE Head(pending)
        /\ UNCHANGED <<sinks, created, store, owner, conf>>
    BY <2>1 DEF Receive
  <2>3. /\ \A i \in Nat : \A v : Follows(n, i + 1, v) => Follows(n, i, v)'
        /\ pending[1].name # n => \A v : Follows(n, 0, v) => Follows(n, 0, v)'
        /\ pending[1].name = n => 1 \in About(n) /\ \A v : Follows(n, 0, v) => pending[1].old = v
        /\ Head(pending) = pending[1] /\ 1 \in 1..Len(pending)
    BY <2>2, FollowsTail
  <2>4. PICK u \in Nat : /\ u = owner[n]["ConfigMap"] /\ Live(n, u) /\ u = created[n]
                         /\ Served(n)
    BY <1>3, <2>2
  <2>5. ~Working(n)
    BY <2>2 DEF Working
  <2>6. PICK s \in Sink : Follows(n, 0, s) /\ conf[n] = metricSinkConfig(n, s.spec)
    BY <2>4, <2>5 DEF Served
  <2>7. CASE pending[1].name # n
    <3>1. ~Working(n)'
      BY <2>2, <2>3, <2>7 DEF Working
    <3>2. Follows(n, 0, s)'
      BY <2>3, <2>6, <2>7
    <3> QED
      BY <2>2, <2>6, <3>1, <3>2 DEF Served
  <2>8. CASE pending[1].name = n
    <3>1. 1 \in About(n) /\ pending[1].old = s
      BY <2>3, <2>6, <2>8
    <3>2. /\ pending[1] \in Notification /\ NoteOK(pending[1])
          /\ pending[1].type \in {"add", "update", "deleted", "unknown"}
      BY <2>3, UidTypes DEF CallsInv, Notification
    <3>3. NoteUid(pending[1]) = u
      <4>1. /\ NoteUid(pending[1]) \in Nat /\ NoteUid(pending[1]) <= created[n]
            /\ owner[n]["ConfigMap"] <= NoteUid(pending[1])
        BY <1>2, <3>1, Bounds
      <4> QED
        BY <2>4, <4>1
    <3>4. Gap(n, u)
      BY <1>1, <2>4 DEF GapInv, Live
    <3>5. pending[1].type # "deleted"
      BY <2>3, <2>4, <2>8, <3>3 DEF OrderInv, QueueInv
    <3>6. pending[1].type # "unknown"
      BY <3>1, <3>3, <3>4 DEF Gap
    <3>7. pending[1].type # "add"
      <4> SUFFICES ASSUME pending[1].type = "add" PROVE FALSE
        OBVIOUS
      <4>1. owner[n]["ConfigMap"] < u
        BY <1>2, <3>1, <3>3, <3>4 DEF Gap
      <4> QED
        BY <2>4, <4>1
    <3>8. pending[1].type = "update" /\ pending[1].new \in Sink
      BY <3>2, <3>5, <3>6, <3>7 DEF NoteOK
    <3>9. OnUpdate
      BY <1>6, <2>3, <3>8 DEF OnAdd, OnDelete, Receive
    <3>10. CASE pending[1].old.spec = pending[1].new.spec
      <4>1. PICK v \in Sink : v = pending[1].new
        BY <3>8
      <4>2. Follows(n, 1, v) /\ 0 + 1 = 1
        BY <3>1, <4>1 DEF LinkInv
      <4>3. Follows(n, 0 + 1, v)
        BY <4>2
      <4>4. Follows(n, 0, v)'
        BY <2>3, <4>3
      <4>5. todo' = <<>>
        BY <2>3, <3>9, <3>10 DEF OnUpdate, Receive
      <4>6. conf'[n] = metricSinkConfig(n, v.spec)
        BY <2>2, <2>6, <3>1, <3>10, <4>1
      <4> QED
        BY <4>4, <4>5, <4>6 DEF Served, Working
    <3>11. CASE pending[1].old.spec # pending[1].new.spec
      <4> DEFINE c == Do("update", "ConfigMap")
                 d == Do("restart", "Pods")
      <4>1. todo' = <<c, d>>
        BY <2>3, <3>9, <3>11 DEF OnUpdate, Receive
      <4> HIDE DEF c, d
      <4>2. todo' # <<>> /\ Head(todo') = c
        BY <4>1
      <4>3. Working(n)' /\ Head(todo') = Do("update", "ConfigMap")
        BY <2>2, <2>3, <2>8, <4>2 DEF Working, c
      <4> QED
        BY <4>3 DEF Served
    <3> QED
      BY <3>10, <3>11
  <2> QED
    BY <2>7, <2>8
<1>7. ASSUME CallSucceeds \/ CallFails, conf'[n] = metricSinkConfig(n, job.new.spec),
             Working(n), job.new \in Sink
      PROVE  Served(n)'
  <2>1. /\ UNCHANGED <<store, pending>>
        /\ job' = IF todo' = <<>> THEN Idle ELSE job
    BY <1>7 DEF CallSucceeds, CallFails, GoOn
  <2>2. CASE todo' = <<>>
    <3>1. PICK v \in Sink : v = job.new
      BY <1>7
    <3>2. Follows(n, 0, v)
      BY <1>7, <3>1 DEF LinkInv
    <3>3. Follows(n, 0, v)'
      BY <2>1, <3>2 DEF Follows, About
    <3> QED
      BY <1>7, <2>2, <3>1, <3>3 DEF Served, Working
  <2>3. CASE todo' # <<>>
    BY <1>7, <2>1, <2>3 DEF Served, Working
  <2> QED
    BY <2>2, <2>3
<1>8. ASSUME CallSucceeds \/ CallFails, conf'[n] = conf[n], ~Working(n),
             owner'[n]["ConfigMap"] = owner[n]["ConfigMap"]
      PROVE  Served(n)'
  <2>1. UNCHANGED <<store, pending>> /\ ~Working(n)'
    BY <1>8 DEF CallSucceeds, CallFails, GoOn, Working
  <2>2. Served(n)
    BY <1>3, <1>8
  <2>3. PICK s \in Sink : Follows(n, 0, s) /\ conf[n] = metricSinkConfig(n, s.spec)
    BY <1>8, <2>2 DEF Served
  <2>4. Follows(n, 0, s)'
    BY <2>1, <2>3 DEF Follows, About
  <2> QED
    BY <1>8, <2>1, <2>3, <2>4 DEF Served
<1>9. ASSUME Working(n), job.type # "deleted" PROVE job.type \in {"add", "update"} /\ job.new \in Sink
  BY <1>9 DEF Working, CallsInv, NoteOK
<1>10. CASE CallSucceeds
  <2>1. CASE /\ owner'[n]["ConfigMap"] = owner[n]["ConfigMap"] /\ conf'[n] = conf[n]
             /\ ~Working(n) \/ Head(todo).obj # "ConfigMap"
    <3>1. CASE ~Working(n)
      BY <1>8, <1>10, <2>1, <3>1
    <3>2. CASE Working(n)
      <4>1. Head(todo) # Do("update", "ConfigMap")
        BY <2>1, <3>2 DEF Do
      <4>2. Served(n) /\ job.type # "deleted"
        BY <1>3, <2>1, <3>2
      <4>3. conf[n] = metricSinkConfig(n, job.new.spec)
        BY <3>2, <4>1, <4>2 DEF Served
      <4> QED
        BY <1>7, <1>9, <1>10, <2>1, <3>2, <4>2, <4>3
    <3> QED
      BY <3>1, <3>2
  <2>2. CASE /\ Working(n) /\ job.type \in {"add", "update"}
             /\ conf'[n] = metricSinkConfig(n, job.new.spec)
    BY <1>7, <1>9, <1>10, <2>2
  <2>3. CASE owner'[n]["ConfigMap"] = 0
    <3>1. sinks' = sinks /\ sinks[n].uid # 0
      BY <1>10, UidTypes DEF CallSucceeds
    <3> QED
      BY <2>3, <3>1
  <2> QED
    BY <1>10, <2>1, <2>2, <2>3, CallConf
<1>11. CASE CallFails
  <2>1. UNCHANGED <<sinks, owner, conf>> /\ todo # <<>> /\ ~Accepted(Head(todo))
    BY <1>11 DEF CallFails
  <2>2. CASE ~Working(n)
    BY <1>8, <1>11, <2>1, <2>2
  <2>3. CASE Working(n)
    <3>1. PICK u \in Nat : /\ u = owner[n]["ConfigMap"] /\ u # 0 /\ Served(n)
                           /\ job.type # "deleted"
      BY <1>3, <2>1, <2>3
    <3>2. Head(todo) # Do("update", "ConfigMap")
      <4> SUFFICES ASSUME Head(todo) = Do("update", "ConfigMap") PROVE FALSE
        OBVIOUS
      <4>1. Head(todo).op = "update" /\ Head(todo).obj = "ConfigMap"
        BY DEF Do
      <4>2. job.type = "update"
        BY <1>9, <2>1, <2>3, <3>1, <4>1, AddTodo DEF CallsInv
      <4>3. OwnerRefComplete /\ job.name = n
        BY <2>1, <2>3, <4>2 DEF Defaulted, OwnerRefComplete, Working
      <4>4. Accepted(Head(todo))
        BY <3>1, <4>1, <4>3 DEF Accepted
      <4> QED
        BY <2>1, <4>4
    <3>3. conf[n] = metricSinkConfig(n, job.new.spec)
      BY <2>3, <3>1, <3>2 DEF Served
    <3> QED
      BY <1>7, <1>9, <1>11, <2>1, <2>3, <3>1, <3>3
  <2> QED
    BY <2>2, <2>3
<1>12. ASSUME NEW k \in Names, NEW x \in Objects, Collect(k, x) PROVE Served(n)'
  <2>1. /\ owner' = [owner EXCEPT ![k][x] = 0]
        /\ conf' = IF x = "ConfigMap" THEN [conf EXCEPT ![k] = Absent] ELSE conf
        /\ UNCHANGED <<sinks, store, pending, job, todo>>
    BY <1>12 DEF Collect
  <2>2. owner'[n]["ConfigMap"] = IF n = k /\ x = "ConfigMap" THEN 0 ELSE owner[n]["ConfigMap"]
    BY <1>2, <2>1, OwnerExcept DEF TypeOK
  <2>3. n # k \/ x # "ConfigMap"
    BY <2>1, <2>2, UidTypes
  <2>4. conf'[n] = conf[n]
    BY <2>1, <2>3 DEF TypeOK
  <2> QED
    BY <1>4, <2>1, <2>2, <2>3, <2>4
<1>13. ASSUME UNCHANGED <<store, pending, job, todo, owner, conf>> PROVE Served(n)'
  BY <1>4, <1>13
<1> QED
  BY <1>1, <1>5, <1>6, <1>10, <1>11, <1>12, <1>13
     DEF Next, Handle, vars, CreateSink, UpdateSink, DeleteSink, StartPod, StopPod

\* If OnUpdate set Kind and APIVersion as OnAdd does, the ConfigMap of every
\* MetricSink would show its spec when all is quiet, as long as no call fails
\* and the process lives: however creations, updates, deletions, re-creations,
\* re-lists and the garbage collector are interleaved.
THEOREM DefaultsSuffice == Spec /\ []Defaulted => [](~failed => ServesSpec)
<1> DEFINE Inv == TypeOK /\ CallsInv /\ OrderInv /\ LinkInv /\ GapInv /\ ServedInv
<1>1. Init => LinkInv /\ GapInv /\ ServedInv
  <2> SUFFICES ASSUME Init PROVE LinkInv /\ GapInv /\ ServedInv
    OBVIOUS
  <2>1. Len(<<>>) = 0 /\ pending = <<>> /\ todo = <<>> /\ \A n \in Names : sinks[n] = Absent
    BY DEF Init
  <2>2. \A i \in 1..Len(pending) : FALSE
    BY <2>1
  <2>3. \A n \in Names : About(n) = {} /\ ~Working(n)
    BY <2>1, <2>2 DEF About, Working
  <2> QED
    BY <2>1, <2>3 DEF LinkInv, GapInv, ServedInv
<1>2. Inv /\ Defaulted /\ [Next]_vars => Inv'
  BY TypeStep, OrderStep, LinkStep, GapStep, ServedStep
<1>3. Init => Inv
  BY <1>1, TypeInit, OrderInit
<1>4. Inv => (~failed => ServesSpec)
  <2> SUFFICES ASSUME Inv, ~failed, Quiet, NEW n \in Names, sinks[n] # Absent,
                      owner[n]["ConfigMap"] = sinks[n].uid
               PROVE  conf[n] = metricSinkConfig(n, sinks[n].spec)
    BY DEF ServesSpec
  <2>1. \A i \in About(n) : FALSE
    <3>1. pending = <<>> /\ Len(<<>>) = 0
      BY DEF Quiet
    <3> QED
      BY <3>1 DEF About
  <2>2. ~Working(n) /\ store[n] = sinks[n]
    BY DEF Quiet, Working
  <2>3. PICK s \in Sink : Follows(n, 0, s) /\ conf[n] = metricSinkConfig(n, s.spec)
    BY <2>2 DEF ServedInv, Served
  <2> QED
    BY <2>1, <2>2, <2>3 DEF Follows
<1> QED
  BY <1>2, <1>3, <1>4, PTL DEF Spec

=============================================================================
