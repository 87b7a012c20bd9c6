----------------------------- MODULE SinkCache -----------------------------
(***************************************************************************)
(* The caches behind the factory's informers as the generated listers hand *)
(* them out, and the generated deep copies a caller takes before it        *)
(* changes an object: pkg/client/listers/sink/v1alpha1/*.go and            *)
(* pkg/apis/sink/v1alpha1/zz_generated.deepcopy.go.                        *)
(*                                                                         *)
(* A lister returns a pointer to the struct in the cache.  A struct has    *)
(* fields that assignment copies (flat), and places that refer to memory   *)
(* of their own (refs: a slice, a map in it, a pointer's target).  A cell  *)
(* of memory is named by its allocation and the place it was made for;     *)
(* which cells a struct refers to is the copy's doing, so that two structs *)
(* may come to share one.                                                  *)
(***************************************************************************)
EXTENDS InformerFactory, Functions

CONSTANTS Readers,     \* the clients that wait for caches and read them
          Namespaced,  \* the types whose objects live in a namespace
          Contents(_), \* type -> the values an object of it may have
          Nil,
          MaxChanges   \* bound on the changes made to the API

ASSUME ScopeAssumption == Namespaced \subseteq Types /\ Readers \subseteq Clients

VARIABLES api,      \* type -> the value of its one object, or None
          changes,
          indexer,  \* <<type, n>> -> the struct in that informer's cache
          seen,     \* <<type, n>> -> the value the API last sent it
          heap,     \* cell -> value
          held,     \* client -> the struct its lister returned
          copied    \* client -> the copy it has made and may write to

apiVars == <<api, changes>>
cacheVars == <<indexer, seen, heap, held, copied>>
vars == <<fvars, apiVars, cacheVars>>

Namespaces == {"", "ns"}
Name == "s"

\* MetaNamespaceKeyFunc: the name alone where there is no namespace.
NamespaceOf(t) == IF t \in Namespaced THEN "ns" ELSE ""
KeyOf(t) == IF t \in Namespaced THEN <<"ns", Name>> ELSE <<Name>>

-----------------------------------------------------------------------------
(* Structs and memory *)

\* ObjectMeta's maps, the slices of inputs and outputs and the maps in them,
\* and the targets of the status' pointers.
Places == {"meta", "inputs", "inputs[]", "outputs", "outputs[]",
           "lastError", "lastErrorTime"}
MapPlaces == {"inputs[]", "outputs[]"}

\* A cell of memory: an allocation and the place it was made for.
Cell == Nat \X Places

\* A value has its flat part and something, or Nil, at each place; it is not
\* the absence of an object, and no pointer is nil.
ASSUME ContentsAssumption ==
  /\ Nil \notin Cell
  /\ \A t \in Types : \A v \in Contents(t) :
       /\ v # None
       /\ v = [flat |-> v.flat, refs |-> [p \in Places |-> v.refs[p]]]
       /\ None \notin [flat : {v.flat}, refs : [Places -> Cell \cup {Nil}]]

Targets(refs) == {p \in DOMAIN refs : refs[p] # Nil}

\* The value a struct stands for.
Deref(h, obj) ==
  [obj EXCEPT !.refs = [p \in DOMAIN @ |-> IF @[p] = Nil THEN Nil ELSE h[@[p]]]]

\* A struct, and its cells, for a value just decoded from the API's answer.
Struct(v, o) ==
  [v EXCEPT !.refs = [p \in DOMAIN @ |-> IF @[p] = Nil THEN Nil ELSE <<o, p>>]]

Cells(v, o) == [r \in {<<o, p>> : p \in Targets(v.refs)} |-> v.refs[r[2]]]

\* An allocation no cell in use belongs to.
Fresh == CHOOSE o \in 1 .. (Cardinality(DOMAIN heap) + 1) :
           \A r \in DOMAIN heap : r[1] # o

\* Memory after new cells are made and what nothing refers to is collected.
Memory(cells) ==
  LET all == [r \in DOMAIN heap \cup DOMAIN cells |->
                IF r \in DOMAIN cells THEN cells[r] ELSE heap[r]]
      roots == (Range(indexer') \cup Range(held') \cup Range(copied')) \ {None} IN
    heap' = Restrict(all, UNION {{obj.refs[p] : p \in Targets(obj.refs)} : obj \in roots})

-----------------------------------------------------------------------------
(* The generated deep copies *)

\* Mutant: the slices are new, the maps in them are the original's.
NewSlices == Places \ MapPlaces

\* The places DeepCopyInto gives memory of their own.
NewMemory == Places

\* The Go types of the values MetricSinkMap.DeepCopy keeps.
CopiedTypes == {"string", "int"}

\* What is written to the new memory: MetricSinkMap.DeepCopy for a map.
CopyValue(p, v) == IF p \in MapPlaces THEN v \cap CopiedTypes ELSE v

\* *out = *in, then memory of its own for each reference that is not nil.
DeepCopyInto(obj, o) ==
  [obj EXCEPT !.refs = [p \in DOMAIN @ |->
     IF @[p] # Nil /\ p \in NewMemory THEN <<o, p>> ELSE @[p]]]

CopiedCells(obj, o) ==
  [r \in {<<o, p>> : p \in Targets(obj.refs) \cap NewMemory} |->
     CopyValue(r[2], heap[obj.refs[r[2]]])]

-----------------------------------------------------------------------------
(* The API and the informers' caches (client-go) *)

ApiSet(t) ==
  /\ changes < MaxChanges
  /\ changes' = changes + 1
  /\ \E v \in (Contents(t) \cup {None}) \ {api[t]} : api' = [api EXCEPT ![t] = v]
  /\ UNCHANGED <<fvars, cacheVars>>

\* The indexer is given a newly decoded object, or loses the one it has.
Put(i) ==
  LET v == api[i[1]] IN
    /\ seen' = [seen EXCEPT ![i] = v]
    /\ indexer' = [indexer EXCEPT ![i] = IF v = None THEN None ELSE Struct(v, Fresh)]
    /\ UNCHANGED <<held, copied, apiVars>>
    /\ Memory(IF v = None THEN << >> ELSE Cells(v, Fresh))

Sync(i) == FirstList(i) /\ Put(i)

Deliver(i) ==
  /\ phase[i] = "synced"
  /\ seen[i] # api[i[1]]
  /\ Put(i)
  /\ UNCHANGED fvars

-----------------------------------------------------------------------------
(* What a client does with a lister *)

Hold(c, obj) ==
  /\ held' = [held EXCEPT ![c] = obj]
  /\ UNCHANGED <<fvars, apiVars, indexer, seen, copied>>
  /\ Memory(<< >>)

\* A client takes one object at a time, between its calls of the factory.
Idle(c) == pc[c] = "idle" /\ copied[c] = None

\* List, of all namespaces ("") or of one by the namespace index.
List(c, t, ns) ==
  /\ Idle(c) /\ got[c][t] # 0
  /\ ns \in {"", NamespaceOf(t)}
  /\ indexer[<<t, got[c][t]>>] # None
  /\ Hold(c, indexer[<<t, got[c][t]>>])

\* Get looks for the key namespace/name, whatever the scope of the type; when
\* there is none it returns an error and no object.
Get(c, t, ns) ==
  /\ Idle(c) /\ got[c][t] # 0
  /\ Hold(c, IF KeyOf(t) = <<ns, Name>> THEN indexer[<<t, got[c][t]>>] ELSE None)

\* DeepCopy of the object in hand, which is then let go.
DeepCopy(c) ==
  /\ Idle(c) /\ held[c] # None
  /\ held' = [held EXCEPT ![c] = None]
  /\ copied' = [copied EXCEPT ![c] = DeepCopyInto(held[c], Fresh)]
  /\ UNCHANGED <<fvars, apiVars, indexer, seen>>
  /\ Memory(CopiedCells(held[c], Fresh))

\* The client changes its copy, and has no more use for it.
Write(c, p) ==
  /\ pc[c] = "idle" /\ copied[c] # None
  /\ p \in Targets(copied[c].refs)
  /\ copied' = [copied EXCEPT ![c] = None]
  /\ UNCHANGED <<fvars, apiVars, indexer, seen, held>>
  /\ Memory(LET r == copied[c].refs[p] IN
              [x \in {r} |-> IF p \in MapPlaces THEN {"int"} ELSE "changed"])

-----------------------------------------------------------------------------
Init ==
  /\ FactoryInit
  /\ api = [t \in Types |-> None]
  /\ changes = 0
  /\ indexer = [i \in Informer |-> None]
  /\ seen = [i \in Informer |-> None]
  /\ heap = << >>
  /\ held = [c \in Clients |-> None]
  /\ copied = [c \in Clients |-> None]

\* What a client inside an operation of the factory does by itself.
ClientStep(c) ==
  \/ EndStart(c) \/ EndWait(c)
  \/ \E t \in Types : CreateInformer(c, t) \/ StartOne(c, t) \/ WaitOne(c, t)

FactoryNext ==
  /\ \/ \E c \in Clients : ClientStep(c) \/ BeginStart(c) \/ CloseStop(c)
     \/ \E c \in Readers : Snapshot(c)
     \/ \E c \in Clients, t \in Types : FindInformer(c, t) \/ MissInformer(c, t)
     \/ \E i \in Informer : BeginList(i)
  /\ UNCHANGED <<apiVars, cacheVars>>

Next ==
  \/ FactoryNext
  \/ \E t \in Types : ApiSet(t)
  \/ \E i \in Informer : Sync(i) \/ Deliver(i)
  \/ \E c \in Readers, t \in Types, ns \in Namespaces : List(c, t, ns) \/ Get(c, t, ns)
  \/ \E c \in Readers : DeepCopy(c)
  \/ \E c \in Readers, p \in Places : Write(c, p)

\* What the goroutines of a type's informers do until they are stopped.
InformerStep(t) ==
  \E n \in Numbers : LET i == <<t, n>> IN
    /\ stopBy[i] \notin stopped
    /\ (BeginList(i) /\ UNCHANGED <<apiVars, cacheVars>>) \/ Sync(i) \/ Deliver(i)

\* Go runs every goroutine that can run, and an informer retries its list and
\* its watch until it is stopped.
Fairness ==
  /\ \A c \in Clients : WF_vars(ClientStep(c) /\ UNCHANGED <<apiVars, cacheVars>>)
  /\ \A t \in Types : WF_vars(InformerStep(t))

Spec == Init /\ [][Next]_vars /\ Fairness

-----------------------------------------------------------------------------
(* Properties *)

\* InformerFor shares: whoever asked for a type's informer, and whenever, was
\* given the one the factory keeps, starts and waits for.
OneInformer ==
  \A c \in Clients, t \in Types : got[c][t] \in {0, informers[t]}

\* One Run at most is launched for each type.
RunOnce ==
  \A t \in Types :
    /\ \A n, m \in Numbers : runs[<<t, n>>] > 0 /\ runs[<<t, m>>] > 0 => n = m
    /\ \A n \in Numbers : runs[<<t, n>>] <= 1

\* "This allows Start() to be called multiple times safely": however many
\* goroutines request informers and call Start, in any order, they share one
\* informer of each type, and it is run once.
SharedInformer == OneInformer /\ RunOnce

\* WaitForCacheSync: true is said of an informer only when its cache is
\* filled, false only when the caller gave up, and every informer the caller
\* itself started is waited for.
WaitAnswers ==
  \A c \in Clients : pc[c] = "wait" =>
    /\ \A t \in DOMAIN res[c] :
         IF res[c][t] THEN HasSynced(Current(t)) ELSE c \in stopped
    /\ {t \in Requested : stopBy[Current(t)] = c} \subseteq todo[c] \cup DOMAIN res[c]

\* What the indexer holds is what the API sent, whatever callers do with the
\* deep copies of the objects their listers returned.
CacheUntouched ==
  \A i \in Informer :
    IF indexer[i] = None THEN seen[i] = None
    ELSE Deref(heap, indexer[i]) = seen[i]

\* The type's informer was started by a client that has closed its channel.
Halted(t) == t \in Requested /\ stopBy[Current(t)] \in stopped

\* WaitForCacheSync returns, unless an informer it waits for was stopped by
\* whoever had started it.
WaitReturns ==
  \A c \in Readers :
    pc[c] = "wait" ~> \/ pc[c] # "wait"
                      \/ \E t \in todo[c] : Halted(t)

\* A lister shows what the API has, once its type is started and for as long
\* as it is not stopped.
ListerCatchesUp ==
  \A c \in Readers, t \in Types :
    (got[c][t] # 0 /\ t \in started) ~>
      \/ \E n \in Numbers : /\ got[c][t] = n
                            /\ phase[<<t, n>>] = "synced"
                            /\ seen[<<t, n>>] = api[t]
      \/ Halted(t)

=============================================================================
