-------------------------- MODULE SinkCacheProofs --------------------------
(***************************************************************************)
(* Proofs about SinkCache and the InformerFactory it extends, for any      *)
(* goroutines, types and objects.                                          *)
(*                                                                         *)
(* Of the factory: the mutex keeps one goroutine at a time inside          *)
(* InformerFor or Start, so that what it has seen of the maps is still so  *)
(* when it writes to them; one informer is made for each type and run      *)
(* once, and an answer of WaitForCacheSync stays true.  Of the caches: the *)
(* cells of a deep copy are nobody else's.                                 *)
(***************************************************************************)
EXTENDS SinkCache, FiniteSetTheorems, TLAPS

\* The results WaitForCacheSync may have collected.
Results == UNION {[S -> BOOLEAN] : S \in SUBSET Types}

FactoryType ==
  /\ lock \in Clients \cup {None}
  /\ pc \in [Clients -> {"idle", "create", "start", "wait"}]
  /\ todo \in [Clients -> SUBSET Types]
  /\ informers \in [Types -> {0, 1}]
  /\ made = informers
  /\ started \in SUBSET Requested
  /\ phase \in [Informer -> {"new", "launched", "listing", "synced"}]
  /\ runs \in [Informer -> {0, 1}]
  /\ stopBy \in [Informer -> Clients \cup {None}]
  /\ stopped \in SUBSET Clients
  /\ got \in [Clients -> [Types -> {0, 1}]]
  /\ res \in [Clients -> Results]

\* The mutex is held by the one client that creates or starts informers.
LockInv == \A c \in Clients : pc[c] \in {"create", "start"} <=> lock = c

\* What a client has found in the maps under the mutex is still so, and what
\* it has copied from them to wait for stays started.
TodoInv ==
  \A c \in Clients :
    /\ pc[c] = "create" => todo[c] \cap Requested = {}
    /\ pc[c] = "start" => todo[c] \subseteq Requested
    /\ pc[c] = "wait" => todo[c] \cup DOMAIN res[c] \subseteq started
    /\ pc[c] # "wait" => DOMAIN res[c] = {}

\* Only the first informer of a type is ever run, and then the type counts as
\* started.
LaunchInv ==
  \A t \in Types, n \in Numbers :
    runs[<<t, n>>] = 1 \/ stopBy[<<t, n>>] # None => n = 1 /\ t \in started

FactoryInv == FactoryType /\ LockInv /\ TodoInv /\ LaunchInv /\ OneInformer /\ WaitAnswers

-----------------------------------------------------------------------------
(***************************************************************************)
(* The factory.                                                            *)
(***************************************************************************)

\* A factory that somebody uses may number one informer of each type.
LEMMA FirstNumber ==
  ASSUME NEW c \in Clients
  PROVE  /\ 1 \in Numbers
         /\ \A t \in Types : <<t, 1>> \in Informer
<1>1. IsFiniteSet(Clients) /\ Clients # {}
  BY ClientsAssumption
<1>2. Cardinality(Clients) \in Nat /\ Cardinality(Clients) # 0
  BY <1>1, FS_CardinalityType, FS_EmptySet
<1> QED
  BY <1>2 DEF Numbers, Informer

\* The result of a call that has just begun is empty.
LEMMA NoResults == << >> \in Results /\ DOMAIN << >> = {}
<1>1. << >> \in [{} -> BOOLEAN] /\ DOMAIN << >> = {}
  OBVIOUS
<1> QED
  BY <1>1 DEF Results

\* The factory starts with empty maps.
LEMMA InitFactory == FactoryInit => FactoryInv
<1> SUFFICES ASSUME FactoryInit PROVE FactoryInv
  OBVIOUS
<1>1. FactoryType
  <2>1. res \in [Clients -> Results]
    BY NoResults DEF FactoryInit
  <2>2. started \in SUBSET Requested
    BY DEF FactoryInit
  <2> QED
    BY <2>1, <2>2 DEF FactoryInit, FactoryType
<1>2. LockInv
  BY ClientsAssumption DEF FactoryInit, LockInv
<1>3. TodoInv
  BY NoResults DEF FactoryInit, TodoInv
<1>4. LaunchInv
  BY DEF FactoryInit, LaunchInv, Informer
<1>5. OneInformer
  BY DEF FactoryInit, OneInformer
<1>6. WaitAnswers
  BY DEF FactoryInit, WaitAnswers
<1> QED
  BY <1>1, <1>2, <1>3, <1>4, <1>5, <1>6 DEF FactoryInv

\* What leaves the factory alone keeps its invariant.
LEMMA FactoryStutters == FactoryInv /\ UNCHANGED fvars => FactoryInv'
BY DEF FactoryInv, FactoryType, LockInv, TodoInv, LaunchInv, OneInformer, WaitAnswers, Requested,
       Current, HasSynced, fvars, factoryVars, runVars, clientVars

\* InformerFor of a type that has an informer.
LEMMA FindKeeps ==
  ASSUME FactoryInv, NEW c \in Clients, NEW t \in Types, FindInformer(c, t)
  PROVE  FactoryInv'
<1>1. /\ UNCHANGED <<lock, pc, todo, informers, made, started, phase, runs, stopBy, stopped, res>>
      /\ got' = [got EXCEPT ![c][t] = informers[t]]
  BY DEF FindInformer, factoryVars, runVars
<1>2. FactoryType'
  <2>1. got' \in [Clients -> [Types -> {0, 1}]]
    BY <1>1 DEF FactoryInv, FactoryType
  <2> QED
    BY <1>1, <2>1 DEF FactoryInv, FactoryType, Requested
<1>3. LockInv' /\ TodoInv' /\ LaunchInv'
  BY <1>1 DEF FactoryInv, LockInv, TodoInv, LaunchInv, Requested
<1>4. OneInformer'
  BY <1>1 DEF FactoryInv, FactoryType, OneInformer
<1>5. WaitAnswers'
  BY <1>1 DEF FactoryInv, WaitAnswers, Requested, Current, HasSynced
<1> QED
  BY <1>2, <1>3, <1>4, <1>5 DEF FactoryInv

\* InformerFor of a type that has none: the mutex is taken and kept.
LEMMA MissKeeps ==
  ASSUME FactoryInv, NEW c \in Clients, NEW t \in Types, MissInformer(c, t)
  PROVE  FactoryInv'
<1>1. /\ UNCHANGED <<informers, made, started, phase, runs, stopBy, stopped, got, res>>
      /\ pc[c] = "idle" /\ informers[t] = 0
      /\ lock = None /\ lock' = c
      /\ pc' = [pc EXCEPT ![c] = "create"]
      /\ todo' = [todo EXCEPT ![c] = {t}]
  BY DEF MissInformer, Lock, runVars, clientVars
<1>2. FactoryType'
  BY <1>1 DEF FactoryInv, FactoryType, Requested
<1>3. LockInv'
  BY <1>1, ClientsAssumption DEF FactoryInv, FactoryType, LockInv
<1>4. TodoInv'
  BY <1>1 DEF FactoryInv, FactoryType, TodoInv, Requested
<1>5. LaunchInv' /\ OneInformer'
  BY <1>1 DEF FactoryInv, LaunchInv, OneInformer
<1>6. WaitAnswers'
  BY <1>1 DEF FactoryInv, FactoryType, WaitAnswers, Requested, Current, HasSynced
<1> QED
  BY <1>2, <1>3, <1>4, <1>5, <1>6 DEF FactoryInv

\* InformerFor makes an informer: under the mutex the type still has none, so
\* this one is its first and nobody has been given another.
LEMMA CreateKeeps ==
  ASSUME FactoryInv, NEW c \in Clients, NEW t \in Types, CreateInformer(c, t)
  PROVE  FactoryInv'
<1>1. /\ UNCHANGED <<started, phase, runs, stopBy, stopped, res>>
      /\ pc[c] = "create" /\ t \in todo[c]
      /\ lock' = None
      /\ pc' = [pc EXCEPT ![c] = "idle"]
      /\ todo' = [todo EXCEPT ![c] = {}]
  BY DEF CreateInformer, Unlock, runVars
<1>2. informers[t] = 0 /\ made[t] = 0 /\ t \notin started
  BY <1>1 DEF FactoryInv, FactoryType, TodoInv, Requested
<1>3. /\ informers' = [informers EXCEPT ![t] = 1]
      /\ made' = informers'
      /\ got' = [got EXCEPT ![c][t] = 1]
  BY <1>2 DEF CreateInformer, FactoryInv, FactoryType
<1>4. FactoryType'
  <2>1. informers' \in [Types -> {0, 1}] /\ started' \in SUBSET Requested'
    BY <1>1, <1>3 DEF FactoryInv, FactoryType, Requested
  <2>2. got' \in [Clients -> [Types -> {0, 1}]]
    BY <1>3 DEF FactoryInv, FactoryType
  <2> QED
    BY <1>1, <1>3, <2>1, <2>2 DEF FactoryInv, FactoryType
<1>5. LockInv'
  BY <1>1, ClientsAssumption DEF FactoryInv, FactoryType, LockInv
<1>6. TodoInv'
  <2>1. \A d \in Clients : pc[d] = "create" => d = c
    BY <1>1 DEF FactoryInv, LockInv
  <2> QED
    BY <1>1, <1>3, <2>1 DEF FactoryInv, FactoryType, TodoInv, Requested
<1>7. LaunchInv'
  BY <1>1 DEF FactoryInv, LaunchInv
<1>8. OneInformer'
  BY <1>2, <1>3 DEF FactoryInv, FactoryType, OneInformer
<1>9. WaitAnswers'
  <2>1. SUFFICES ASSUME NEW d \in Clients, pc'[d] = "wait"
                 PROVE  /\ \A u \in DOMAIN res[d] :
                             IF res[d][u] THEN HasSynced(Current(u))' ELSE d \in stopped
                        /\ {u \in Requested' : stopBy[Current(u)'] = d} \subseteq todo'[d] \cup DOMAIN res[d]
    BY <1>1 DEF WaitAnswers
  <2>2. pc[d] = "wait" /\ d # c /\ todo'[d] = todo[d]
    BY <1>1, <2>1 DEF FactoryInv, FactoryType
  <2>3. DOMAIN res[d] \subseteq started
    BY <2>2 DEF FactoryInv, TodoInv
  <2>4. \A u \in Types \ {t} : informers'[u] = informers[u]
    BY <1>3 DEF FactoryInv, FactoryType
  <2>5. stopBy[<<t, 1>>] # d
    BY <1>2, FirstNumber, ClientsAssumption DEF FactoryInv, LaunchInv
  <2>6. started \subseteq Types
    BY DEF FactoryInv, FactoryType, Requested
  <2>7. informers'[t] = 1
    BY <1>3 DEF FactoryInv, FactoryType
  <2>8. /\ \A u \in DOMAIN res[d] : IF res[d][u] THEN HasSynced(Current(u)) ELSE d \in stopped
        /\ {u \in Requested : stopBy[Current(u)] = d} \subseteq todo[d] \cup DOMAIN res[d]
    BY <2>2 DEF FactoryInv, WaitAnswers
  <2>9. \A u \in DOMAIN res[d] : HasSynced(Current(u))' = HasSynced(Current(u))
    BY <1>1, <1>2, <2>3, <2>4, <2>6 DEF HasSynced, Current
  <2>10. \A u \in Requested' : stopBy[Current(u)'] = d => u \in Requested /\ stopBy[Current(u)] = d
    BY <2>4, <2>5, <2>7 DEF Requested, Current
  <2> QED
    BY <2>2, <2>8, <2>9, <2>10
<1> QED
  BY <1>4, <1>5, <1>6, <1>7, <1>8, <1>9 DEF FactoryInv

\* Start takes the mutex and goes through the informers there are.
LEMMA BeginStartKeeps ==
  ASSUME FactoryInv, NEW c \in Clients, BeginStart(c)
  PROVE  FactoryInv'
<1>1. /\ UNCHANGED <<informers, made, started, phase, runs, stopBy, stopped, got, res>>
      /\ pc[c] = "idle"
      /\ lock = None /\ lock' = c
      /\ pc' = [pc EXCEPT ![c] = "start"]
      /\ todo' = [todo EXCEPT ![c] = Requested]
  BY DEF BeginStart, Lock, runVars, clientVars
<1>2. FactoryType'
  BY <1>1 DEF FactoryInv, FactoryType, Requested
<1>3. LockInv'
  BY <1>1, ClientsAssumption DEF FactoryInv, FactoryType, LockInv
<1>4. TodoInv'
  BY <1>1 DEF FactoryInv, FactoryType, TodoInv, Requested
<1>5. LaunchInv' /\ OneInformer'
  BY <1>1 DEF FactoryInv, LaunchInv, OneInformer
<1>6. WaitAnswers'
  BY <1>1 DEF FactoryInv, FactoryType, WaitAnswers, Requested, Current, HasSynced
<1> QED
  BY <1>2, <1>3, <1>4, <1>5, <1>6 DEF FactoryInv

\* One turn of the loop of Start, for a type that is started already.
LEMMA StartAgainKeeps ==
  ASSUME FactoryInv, NEW c \in Clients, NEW t \in Types,
         StartOne(c, t), UNCHANGED <<runVars, started>>
  PROVE  FactoryInv'
<1>1. /\ UNCHANGED <<lock, pc, informers, made, started, phase, runs, stopBy, stopped, got, res>>
      /\ pc[c] = "start" /\ todo' = [todo EXCEPT ![c] = @ \ {t}]
  BY DEF StartOne, runVars, clientVars
<1>2. FactoryType'
  BY <1>1 DEF FactoryInv, FactoryType, Requested
<1>3. TodoInv'
  BY <1>1 DEF FactoryInv, FactoryType, TodoInv, Requested
<1>4. LockInv' /\ LaunchInv' /\ OneInformer'
  BY <1>1 DEF FactoryInv, LockInv, LaunchInv, OneInformer
<1>5. WaitAnswers'
  BY <1>1 DEF FactoryInv, FactoryType, WaitAnswers, Requested, Current, HasSynced
<1> QED
  BY <1>2, <1>3, <1>4, <1>5 DEF FactoryInv

\* Start runs an informer: its type was not started, so it was never run, and
\* nobody has been told anything of it.
LEMMA LaunchKeeps ==
  ASSUME FactoryInv, NEW c \in Clients, NEW t \in Types, StartOne(c, t), Launch(c, t)
  PROVE  FactoryInv'
<1>1. /\ UNCHANGED <<lock, pc, informers, made, stopped, got, res>>
      /\ pc[c] = "start" /\ t \in todo[c]
      /\ todo' = [todo EXCEPT ![c] = @ \ {t}]
      /\ t \notin started
      /\ started' = started \cup {t}
  BY DEF StartOne, Launch, clientVars
<1>2. informers[t] = 1 /\ t \in Requested /\ Current(t) = <<t, 1>> /\ <<t, 1>> \in Informer
  BY <1>1, FirstNumber DEF FactoryInv, FactoryType, TodoInv, Requested, Current
<1>3. runs[<<t, 1>>] = 0
  BY <1>1, <1>2, FirstNumber DEF FactoryInv, FactoryType, LaunchInv
<1>4. /\ runs' = [runs EXCEPT ![<<t, 1>>] = 1]
      /\ phase' = [phase EXCEPT ![<<t, 1>>] = "launched"]
      /\ stopBy' = [stopBy EXCEPT ![<<t, 1>>] = c]
  BY <1>2, <1>3 DEF Launch, FactoryInv, FactoryType
<1>5. FactoryType'
  <2>1. Requested' = Requested
    BY <1>1 DEF Requested
  <2>2. /\ runs' \in [Informer -> {0, 1}]
        /\ phase' \in [Informer -> {"new", "launched", "listing", "synced"}]
        /\ stopBy' \in [Informer -> Clients \cup {None}]
    BY <1>2, <1>4 DEF FactoryInv, FactoryType
  <2>3. todo' \in [Clients -> SUBSET Types]
    BY <1>1 DEF FactoryInv, FactoryType
  <2> QED
    BY <1>1, <1>2, <2>1, <2>2, <2>3 DEF FactoryInv, FactoryType
<1>6. TodoInv'
  BY <1>1 DEF FactoryInv, FactoryType, TodoInv, Requested
<1>7. LockInv' /\ OneInformer'
  BY <1>1 DEF FactoryInv, LockInv, OneInformer
<1>8. LaunchInv'
  <2>1. SUFFICES ASSUME NEW u \in Types, NEW n \in Numbers,
                        runs'[<<u, n>>] = 1 \/ stopBy'[<<u, n>>] # None
                 PROVE  n = 1 /\ u \in started'
    BY DEF LaunchInv
  <2>2. CASE <<u, n>> = <<t, 1>>
    BY <1>1, <2>2
  <2>3. CASE <<u, n>> # <<t, 1>>
    <3>1. <<u, n>> \in Informer
      BY DEF Informer
    <3>2. runs'[<<u, n>>] = runs[<<u, n>>] /\ stopBy'[<<u, n>>] = stopBy[<<u, n>>]
      BY <1>4, <2>3, <3>1 DEF FactoryInv, FactoryType
    <3> QED
      BY <1>1, <2>1, <3>2 DEF FactoryInv, LaunchInv
  <2> QED
    BY <2>2, <2>3
<1>9. WaitAnswers'
  <2>1. SUFFICES ASSUME NEW d \in Clients, pc[d] = "wait"
                 PROVE  /\ \A u \in DOMAIN res[d] :
                             IF res[d][u] THEN phase'[Current(u)] = "synced" ELSE d \in stopped
                        /\ {u \in Requested : stopBy'[Current(u)] = d} \subseteq todo'[d] \cup DOMAIN res[d]
    BY <1>1 DEF WaitAnswers, HasSynced, Current, Requested
  <2>2. d # c /\ todo'[d] = todo[d]
    BY <1>1, <2>1 DEF FactoryInv, FactoryType
  <2>3. DOMAIN res[d] \subseteq started /\ started \subseteq Requested
    BY <2>1 DEF FactoryInv, FactoryType, TodoInv
  <2>4. \A u \in Requested \ {t} : /\ Current(u) \in Informer /\ Current(u) # <<t, 1>>
    BY FirstNumber DEF Current, Requested, FactoryInv, FactoryType
  <2>5. \A u \in Requested \ {t} : /\ phase'[Current(u)] = phase[Current(u)]
                                   /\ stopBy'[Current(u)] = stopBy[Current(u)]
    BY <1>4, <2>4 DEF FactoryInv, FactoryType
  <2>6. /\ \A u \in DOMAIN res[d] : IF res[d][u] THEN phase[Current(u)] = "synced" ELSE d \in stopped
        /\ {u \in Requested : stopBy[Current(u)] = d} \subseteq todo[d] \cup DOMAIN res[d]
    BY <2>1 DEF FactoryInv, WaitAnswers, HasSynced
  <2>7. stopBy'[Current(t)] = c
    BY <1>2, <1>4 DEF FactoryInv, FactoryType
  <2>8. \A u \in DOMAIN res[d] : u \in Requested \ {t}
    BY <1>1, <2>3
  <2> QED
    BY <2>2, <2>5, <2>6, <2>7, <2>8
<1> QED
  BY <1>5, <1>6, <1>7, <1>8, <1>9 DEF FactoryInv

\* Start returns, and with it the mutex.
LEMMA EndStartKeeps ==
  ASSUME FactoryInv, NEW c \in Clients, EndStart(c)
  PROVE  FactoryInv'
<1>1. /\ UNCHANGED <<todo, informers, made, started, phase, runs, stopBy, stopped, got, res>>
      /\ pc[c] = "start" /\ lock' = None
      /\ pc' = [pc EXCEPT ![c] = "idle"]
  BY DEF EndStart, Unlock, runVars, clientVars
<1>2. FactoryType'
  BY <1>1 DEF FactoryInv, FactoryType, Requested
<1>3. LockInv'
  BY <1>1, ClientsAssumption DEF FactoryInv, FactoryType, LockInv
<1>4. TodoInv'
  BY <1>1 DEF FactoryInv, FactoryType, TodoInv, Requested
<1>5. LaunchInv' /\ OneInformer'
  BY <1>1 DEF FactoryInv, LaunchInv, OneInformer
<1>6. WaitAnswers'
  BY <1>1 DEF FactoryInv, FactoryType, WaitAnswers, Requested, Current, HasSynced
<1> QED
  BY <1>2, <1>3, <1>4, <1>5, <1>6 DEF FactoryInv

\* WaitForCacheSync copies the started informers: all that the caller itself
\* has started are among them.
LEMMA SnapshotKeeps ==
  ASSUME FactoryInv, NEW c \in Clients, Snapshot(c)
  PROVE  FactoryInv'
<1>1. /\ UNCHANGED <<lock, informers, made, started, phase, runs, stopBy, stopped, got, res>>
      /\ pc[c] = "idle"
      /\ pc' = [pc EXCEPT ![c] = "wait"]
      /\ todo' = [todo EXCEPT ![c] = Requested \cap started]
  BY DEF Snapshot, runVars, clientVars
<1>2. FactoryType'
  BY <1>1 DEF FactoryInv, FactoryType, Requested
<1>3. LockInv'
  BY <1>1 DEF FactoryInv, FactoryType, LockInv
<1>4. DOMAIN res[c] = {}
  BY <1>1 DEF FactoryInv, TodoInv
<1>5. TodoInv'
  BY <1>1, <1>4 DEF FactoryInv, FactoryType, TodoInv, Requested
<1>6. LaunchInv' /\ OneInformer'
  BY <1>1 DEF FactoryInv, LaunchInv, OneInformer
<1>7. WaitAnswers'
  <2>1. SUFFICES ASSUME NEW d \in Clients, pc'[d] = "wait"
                 PROVE  /\ \A u \in DOMAIN res[d] :
                             IF res[d][u] THEN HasSynced(Current(u)) ELSE d \in stopped
                        /\ {u \in Requested : stopBy[Current(u)] = d} \subseteq todo'[d] \cup DOMAIN res[d]
    BY <1>1 DEF WaitAnswers, HasSynced, Current, Requested
  <2>2. CASE d = c
    <3>1. \A u \in Requested : stopBy[Current(u)] = c => u \in started
      BY FirstNumber, ClientsAssumption DEF Requested, Current, FactoryInv, FactoryType, LaunchInv
    <3> QED
      BY <1>1, <1>4, <2>2, <3>1 DEF FactoryInv, FactoryType
  <2>3. CASE d # c
    BY <1>1, <2>1, <2>3 DEF FactoryInv, FactoryType, WaitAnswers
  <2> QED
    BY <2>2, <2>3
<1> QED
  BY <1>2, <1>3, <1>5, <1>6, <1>7 DEF FactoryInv

\* WaitForCacheSync is answered about one informer.
LEMMA WaitOneKeeps ==
  ASSUME FactoryInv, NEW c \in Clients, NEW t \in Types, WaitOne(c, t)
  PROVE  FactoryInv'
<1> DEFINE answers == [u \in DOMAIN res[c] \cup {t} |-> IF u = t THEN HasSynced(Current(t)) ELSE res[c][u]]
<1>1. /\ UNCHANGED <<lock, pc, informers, made, started, phase, runs, stopBy, stopped, got>>
      /\ pc[c] = "wait" /\ t \in todo[c]
      /\ HasSynced(Current(t)) \/ c \in stopped
      /\ todo' = [todo EXCEPT ![c] = @ \ {t}]
      /\ res' = [res EXCEPT ![c] = answers]
  BY DEF WaitOne, Answer, runVars
<1>2. PICK S \in SUBSET Types : res[c] \in [S -> BOOLEAN]
  BY DEF FactoryInv, FactoryType, Results
<1>3. answers \in [S \cup {t} -> BOOLEAN]
  BY <1>2 DEF HasSynced
<1>4. answers \in Results /\ DOMAIN answers = DOMAIN res[c] \cup {t}
  <2> HIDE DEF answers
  <2> QED
    BY <1>2, <1>3 DEF Results
<1>5. /\ answers[t] = HasSynced(Current(t))
      /\ \A u \in DOMAIN res[c] \ {t} : answers[u] = res[c][u]
  BY <1>2
<1> HIDE DEF answers
<1>6. res' \in [Clients -> Results] /\ res'[c] = answers /\ \A d \in Clients \ {c} : res'[d] = res[d]
  BY <1>1, <1>4 DEF FactoryInv, FactoryType
<1>7. todo' \in [Clients -> SUBSET Types] /\ todo'[c] = todo[c] \ {t} /\ \A d \in Clients \ {c} : todo'[d] = todo[d]
  BY <1>1 DEF FactoryInv, FactoryType
<1>8. FactoryType'
  BY <1>1, <1>6, <1>7 DEF FactoryInv, FactoryType, Requested
<1>9. LockInv' /\ LaunchInv' /\ OneInformer'
  BY <1>1 DEF FactoryInv, LockInv, LaunchInv, OneInformer
<1>10. TodoInv'
  <2>1. SUFFICES ASSUME NEW d \in Clients
                 PROVE  /\ pc[d] = "create" => todo'[d] \cap Requested = {}
                        /\ pc[d] = "start" => todo'[d] \subseteq Requested
                        /\ pc[d] = "wait" => todo'[d] \cup DOMAIN res'[d] \subseteq started
                        /\ pc[d] # "wait" => DOMAIN res'[d] = {}
    BY <1>1 DEF TodoInv, Requested
  <2>2. CASE d = c
    BY <1>1, <1>4, <1>6, <1>7, <2>2 DEF FactoryInv, TodoInv
  <2>3. CASE d # c
    BY <1>6, <1>7, <2>3 DEF FactoryInv, TodoInv
  <2> QED
    BY <2>2, <2>3
<1>11. WaitAnswers'
  <2>1. SUFFICES ASSUME NEW d \in Clients, pc[d] = "wait"
                 PROVE  /\ \A u \in DOMAIN res'[d] :
                             IF res'[d][u] THEN HasSynced(Current(u)) ELSE d \in stopped
                        /\ {u \in Requested : stopBy[Current(u)] = d} \subseteq todo'[d] \cup DOMAIN res'[d]
    BY <1>1 DEF WaitAnswers, HasSynced, Current, Requested
  <2>2. /\ \A u \in DOMAIN res[d] : IF res[d][u] THEN HasSynced(Current(u)) ELSE d \in stopped
        /\ {u \in Requested : stopBy[Current(u)] = d} \subseteq todo[d] \cup DOMAIN res[d]
    BY <2>1 DEF FactoryInv, WaitAnswers
  <2>3. CASE d = c
    <3>1. \A u \in DOMAIN res'[d] : IF res'[d][u] THEN HasSynced(Current(u)) ELSE d \in stopped
      <4>1. SUFFICES ASSUME NEW u \in DOMAIN res[c] \cup {t}
                     PROVE  IF answers[u] THEN HasSynced(Current(u)) ELSE c \in stopped
        BY <1>4, <1>6, <2>3
      <4>2. CASE u = t
        BY <1>1, <1>5, <4>2
      <4>3. CASE u # t
        BY <1>5, <2>2, <2>3, <4>3
      <4> QED
        BY <4>2, <4>3
    <3> QED
      BY <1>4, <1>6, <1>7, <2>2, <2>3, <3>1
  <2>4. CASE d # c
    BY <1>6, <1>7, <2>2, <2>4
  <2> QED
    BY <2>3, <2>4
<1> QED
  BY <1>8, <1>9, <1>10, <1>11 DEF FactoryInv

\* WaitForCacheSync returns.
LEMMA EndWaitKeeps ==
  ASSUME FactoryInv, NEW c \in Clients, EndWait(c)
  PROVE  FactoryInv'
<1>1. /\ UNCHANGED <<lock, todo, informers, made, started, phase, runs, stopBy, stopped, got>>
      /\ pc[c] = "wait"
      /\ pc' = [pc EXCEPT ![c] = "idle"]
      /\ res' = [res EXCEPT ![c] = << >>]
  BY DEF EndWait, runVars
<1>2. /\ res' \in [Clients -> Results] /\ DOMAIN res'[c] = {}
      /\ \A d \in Clients \ {c} : res'[d] = res[d]
  BY <1>1, NoResults DEF FactoryInv, FactoryType
<1>3. /\ pc' \in [Clients -> {"idle", "create", "start", "wait"}] /\ pc'[c] = "idle"
      /\ \A d \in Clients \ {c} : pc'[d] = pc[d]
  BY <1>1 DEF FactoryInv, FactoryType
<1>4. FactoryType'
  BY <1>1, <1>2, <1>3 DEF FactoryInv, FactoryType, Requested
<1>5. LockInv'
  BY <1>1, <1>3 DEF FactoryInv, LockInv
<1>6. TodoInv'
  BY <1>1, <1>2, <1>3 DEF FactoryInv, TodoInv, Requested
<1>7. LaunchInv' /\ OneInformer'
  BY <1>1 DEF FactoryInv, LaunchInv, OneInformer
<1>8. WaitAnswers'
  BY <1>1, <1>2, <1>3 DEF FactoryInv, WaitAnswers, Requested, Current, HasSynced
<1> QED
  BY <1>4, <1>5, <1>6, <1>7, <1>8 DEF FactoryInv

\* An informer's goroutine goes on; once synced it stays so.
LEMMA MoveKeeps ==
  ASSUME FactoryInv, NEW i \in Informer, NEW from \in {"launched", "listing"},
         NEW to \in {"listing", "synced"}, Move(i, from, to)
  PROVE  FactoryInv'
<1>1. /\ UNCHANGED <<lock, pc, todo, informers, made, started, runs, stopBy, stopped, got, res>>
      /\ phase[i] = from
      /\ phase' = [phase EXCEPT ![i] = to]
  BY DEF Move, factoryVars, clientVars
<1>2. phase' \in [Informer -> {"new", "launched", "listing", "synced"}]
  BY <1>1 DEF FactoryInv, FactoryType
<1>3. FactoryType'
  BY <1>1, <1>2 DEF FactoryInv, FactoryType, Requested
<1>4. LockInv' /\ TodoInv' /\ LaunchInv' /\ OneInformer'
  BY <1>1 DEF FactoryInv, LockInv, TodoInv, LaunchInv, OneInformer, Requested
<1>5. \A j : HasSynced(j) /\ j \in Informer => HasSynced(j)'
  BY <1>1 DEF FactoryInv, FactoryType, HasSynced
<1>6. WaitAnswers'
  <2>1. SUFFICES ASSUME NEW d \in Clients, pc[d] = "wait"
                 PROVE  /\ \A u \in DOMAIN res[d] :
                             IF res[d][u] THEN HasSynced(Current(u))' ELSE d \in stopped
                        /\ {u \in Requested : stopBy[Current(u)] = d} \subseteq todo[d] \cup DOMAIN res[d]
    BY <1>1 DEF WaitAnswers, HasSynced, Current, Requested
  <2>2. \A u \in DOMAIN res[d] : Current(u) \in Informer /\ Current(u)' = Current(u)
    BY <1>1, <2>1, FirstNumber DEF FactoryInv, FactoryType, TodoInv, Requested, Current
  <2>3. \A u \in DOMAIN res[d] : HasSynced(Current(u)) => HasSynced(Current(u))'
    BY <1>1, <1>5, <2>2 DEF HasSynced
  <2> QED
    BY <2>1, <2>3 DEF FactoryInv, WaitAnswers
<1> QED
  BY <1>3, <1>4, <1>6 DEF FactoryInv

\* A client closes its channel.
LEMMA CloseKeeps ==
  ASSUME FactoryInv, NEW c \in Clients, CloseStop(c)
  PROVE  FactoryInv'
<1>1. /\ UNCHANGED <<lock, pc, todo, informers, made, started, phase, runs, stopBy, got, res>>
      /\ stopped' = stopped \cup {c}
  BY DEF CloseStop, factoryVars, runVars
<1>2. FactoryType'
  BY <1>1 DEF FactoryInv, FactoryType, Requested
<1>3. LockInv' /\ TodoInv' /\ LaunchInv' /\ OneInformer'
  BY <1>1 DEF FactoryInv, LockInv, TodoInv, LaunchInv, OneInformer, Requested
<1>4. WaitAnswers'
  BY <1>1 DEF FactoryInv, WaitAnswers, Requested, Current, HasSynced
<1> QED
  BY <1>2, <1>3, <1>4 DEF FactoryInv

-----------------------------------------------------------------------------
(***************************************************************************)
(* Memory.                                                                 *)
(***************************************************************************)

\* A struct as the program can have it.
IsStruct(obj) ==
  /\ obj = [flat |-> obj.flat, refs |-> obj.refs]
  /\ obj.refs \in [Places -> Cell \cup {Nil}]

\* The cells a struct refers to.
CellsOf(obj) == {obj.refs[p] : p \in Targets(obj.refs)}

\* The structs somebody refers to.
Roots == (Range(indexer) \cup Range(held) \cup Range(copied)) \ {None}

CacheType ==
  /\ api = [t \in Types |-> api[t]]
  /\ \A t \in Types : api[t] \in Contents(t) \cup {None}
  /\ indexer = [i \in Informer |-> indexer[i]]
  /\ seen = [i \in Informer |-> seen[i]]
  /\ held = [c \in Clients |-> held[c]]
  /\ copied = [c \in Clients |-> copied[c]]

\* Every reference leads to a cell in use.
MemoryInv ==
  /\ \A obj \in Roots : IsStruct(obj) /\ CellsOf(obj) \subseteq DOMAIN heap
  /\ DOMAIN heap \subseteq Cell
  /\ IsFiniteSet(DOMAIN heap)

\* A deep copy shares no cell with the struct in any cache.
OwnInv ==
  \A c \in Clients, i \in Informer :
    copied[c] # None /\ indexer[i] # None => CellsOf(copied[c]) \cap CellsOf(indexer[i]) = {}

CacheInv == CacheType /\ MemoryInv /\ OwnInv /\ CacheUntouched

\* A struct has finitely many places.
LEMMA PlacesFinite == IsFiniteSet(Places)
<1> DEFINE P1 == {} \cup {"meta"}
           P2 == P1 \cup {"inputs"}
           P3 == P2 \cup {"inputs[]"}
           P4 == P3 \cup {"outputs"}
           P5 == P4 \cup {"outputs[]"}
           P6 == P5 \cup {"lastError"}
           P7 == P6 \cup {"lastErrorTime"}
<1>1. Places = P7
  BY DEF Places
<1> HIDE DEF P1, P2, P3, P4, P5, P6, P7
<1>2. IsFiniteSet(P1)
  BY FS_EmptySet, FS_AddElement DEF P1
<1>3. IsFiniteSet(P2)
  BY <1>2, FS_AddElement DEF P2
<1>4. IsFiniteSet(P3)
  BY <1>3, FS_AddElement DEF P3
<1>5. IsFiniteSet(P4)
  BY <1>4, FS_AddElement DEF P4
<1>6. IsFiniteSet(P5)
  BY <1>5, FS_AddElement DEF P5
<1>7. IsFiniteSet(P6)
  BY <1>6, FS_AddElement DEF P6
<1>8. IsFiniteSet(P7)
  BY <1>7, FS_AddElement DEF P7
<1> QED
  BY <1>1, <1>8

\* An allocation makes finitely many cells.
LEMMA AllocationFinite ==
  ASSUME NEW o \in Nat, NEW S, S \subseteq {<<o, p>> : p \in Places}
  PROVE  IsFiniteSet(S) /\ S \subseteq Cell
<1> DEFINE T == {<<o, p>> : p \in Places}
           f == [p \in Places |-> <<o, p>>]
<1>1. f \in Surjection(Places, T)
  BY DEF Surjection
<1>2. IsFiniteSet(T)
  <2> HIDE DEF f, T
  <2> QED
    BY <1>1, PlacesFinite, FS_Surjection
<1>3. IsFiniteSet(S)
  <2>1. S \in SUBSET T
    OBVIOUS
  <2> HIDE DEF T
  <2> QED
    BY <1>2, <2>1, FS_Subset
<1> QED
  BY <1>3 DEF Cell

\* There is always an allocation that no cell in use belongs to.
LEMMA FreshIsNew ==
  ASSUME IsFiniteSet(DOMAIN heap)
  PROVE  Fresh \in Nat /\ \A r \in DOMAIN heap : r[1] # Fresh
<1> DEFINE D == DOMAIN heap
           n == Cardinality(D)
           T == {r[1] : r \in D}
           f == [r \in D |-> r[1]]
<1>1. n \in Nat
  BY FS_CardinalityType
<1>2. f \in Surjection(D, T)
  BY DEF Surjection
<1>3. IsFiniteSet(T) /\ Cardinality(T) <= n
  <2> HIDE DEF f, T
  <2> QED
    BY <1>2, FS_Surjection
<1>4. IsFiniteSet(1..(n + 1)) /\ Cardinality(1..(n + 1)) = n + 1
  <2>1. 1 \in Int /\ n + 1 \in Int /\ ~ (1 > n + 1) /\ (n + 1) - 1 + 1 = n + 1
    BY <1>1
  <2> HIDE DEF n
  <2> QED
    BY <2>1, FS_Interval
<1>5. ~ (1..(n + 1) \subseteq T)
  <2>1. SUFFICES ASSUME 1..(n + 1) \subseteq T PROVE FALSE
    OBVIOUS
  <2>2. Cardinality(1..(n + 1)) <= Cardinality(T)
    <3>1. 1..(n + 1) \in SUBSET T
      BY <2>1
    <3> HIDE DEF n, T
    <3> QED
      BY <1>3, <3>1, FS_Subset
  <2>3. Cardinality(T) \in Nat
    <3> HIDE DEF T
    <3> QED
      BY <1>3, FS_CardinalityType
  <2> HIDE DEF n, T
  <2> QED
    BY <1>1, <1>3, <1>4, <2>2, <2>3
<1>6. \E o \in 1..(n + 1) : \A r \in D : r[1] # o
  BY <1>5
<1>7. Fresh \in 1..(n + 1) /\ \A r \in DOMAIN heap : r[1] # Fresh
  BY <1>6 DEF Fresh
<1> QED
  BY <1>1, <1>7

\* What a struct stands for depends on its cells alone.
LEMMA DerefLocal ==
  ASSUME NEW g, NEW h, NEW obj, IsStruct(obj), \A r \in CellsOf(obj) : g[r] = h[r]
  PROVE  Deref(g, obj) = Deref(h, obj)
<1>1. obj.refs \in [Places -> Cell \cup {Nil}]
  BY DEF IsStruct
<1>2. \A p \in Places : obj.refs[p] # Nil => g[obj.refs[p]] = h[obj.refs[p]]
  BY <1>1 DEF CellsOf, Targets
<1>3. [p \in DOMAIN obj.refs |-> IF obj.refs[p] = Nil THEN Nil ELSE g[obj.refs[p]]]
      = [p \in DOMAIN obj.refs |-> IF obj.refs[p] = Nil THEN Nil ELSE h[obj.refs[p]]]
  BY <1>1, <1>2
<1> QED
  BY <1>3 DEF Deref

\* Memory is collected, and nothing else happens to what is referred to.
LEMMA Collected ==
  ASSUME NEW cells, Memory(cells),
         IsFiniteSet(DOMAIN heap), DOMAIN heap \subseteq Cell,
         IsFiniteSet(DOMAIN cells), DOMAIN cells \subseteq Cell,
         \A obj \in Roots' : IsStruct(obj) /\ CellsOf(obj) \subseteq DOMAIN heap \cup DOMAIN cells
  PROVE  /\ MemoryInv'
         /\ \A obj \in Roots' : \A r \in CellsOf(obj) :
              heap'[r] = IF r \in DOMAIN cells THEN cells[r] ELSE heap[r]
<1> DEFINE all == [r \in DOMAIN heap \cup DOMAIN cells |-> IF r \in DOMAIN cells THEN cells[r] ELSE heap[r]]
           Reach == UNION {CellsOf(obj) : obj \in Roots'}
<1>1. heap' = [r \in Reach |-> all[r]]
  BY DEF Memory, Restrict, CellsOf, Roots
<1>2. Reach \subseteq DOMAIN heap \cup DOMAIN cells
  OBVIOUS
<1>3. DOMAIN heap' = Reach
  BY <1>1
<1>4. \A obj \in Roots' : CellsOf(obj) \subseteq Reach
  OBVIOUS
<1>5. IsFiniteSet(DOMAIN heap')
  <2>1. IsFiniteSet(DOMAIN heap \cup DOMAIN cells)
    BY FS_Union
  <2> QED
    BY <1>2, <1>3, <2>1, FS_Subset
<1>6. MemoryInv'
  BY <1>2, <1>3, <1>4, <1>5 DEF MemoryInv
<1>7. ASSUME NEW obj \in Roots', NEW r \in CellsOf(obj)
      PROVE  heap'[r] = IF r \in DOMAIN cells THEN cells[r] ELSE heap[r]
  <2>1. r \in Reach /\ r \in DOMAIN heap \cup DOMAIN cells
    BY <1>2, <1>4, <1>7
  <2>2. heap'[r] = all[r]
    <3> HIDE DEF all, Reach
    <3> QED
      BY <1>1, <2>1
  <2> QED
    BY <2>1, <2>2
<1> QED
  BY <1>6, <1>7

\* A struct newly decoded from the API stands for the value the API sent.
LEMMA StructStands ==
  ASSUME NEW t \in Types, NEW v \in Contents(t), NEW o \in Nat
  PROVE  /\ IsStruct(Struct(v, o)) /\ Struct(v, o) # None
         /\ DOMAIN Cells(v, o) \subseteq {<<o, p>> : p \in Places}
         /\ CellsOf(Struct(v, o)) = DOMAIN Cells(v, o)
         /\ \A h : (\A r \in DOMAIN Cells(v, o) : h[r] = Cells(v, o)[r]) => Deref(h, Struct(v, o)) = v
<1> DEFINE refs == [p \in Places |-> IF v.refs[p] = Nil THEN Nil ELSE <<o, p>>]
<1>1. /\ v = [flat |-> v.flat, refs |-> v.refs]
      /\ v.refs = [p \in Places |-> v.refs[p]] /\ DOMAIN v.refs = Places
      /\ None \notin [flat : {v.flat}, refs : [Places -> Cell \cup {Nil}]]
  BY ContentsAssumption
<1>2. Struct(v, o) = [flat |-> v.flat, refs |-> refs]
  BY <1>1 DEF Struct
<1>3. refs \in [Places -> Cell \cup {Nil}]
  BY DEF Cell
<1>4. IsStruct(Struct(v, o))
  <2> HIDE DEF refs
  <2> QED
    BY <1>2, <1>3 DEF IsStruct
<1>5. Struct(v, o) # None
  <2> HIDE DEF refs
  <2>1. Struct(v, o) \in [flat : {v.flat}, refs : [Places -> Cell \cup {Nil}]]
    BY <1>2, <1>3
  <2> QED
    BY <1>1, <2>1
<1>6. \A p \in Places : <<o, p>> # Nil
  BY ContentsAssumption DEF Cell
<1>7. /\ Targets(refs) = Targets(v.refs) /\ Targets(v.refs) \subseteq Places
      /\ DOMAIN refs = Places
      /\ \A p \in Targets(v.refs) : refs[p] = <<o, p>>
  BY <1>1, <1>6 DEF Targets
<1>8. DOMAIN Cells(v, o) = {<<o, p>> : p \in Targets(v.refs)}
  BY DEF Cells
<1>9. Struct(v, o).refs = refs /\ Struct(v, o).flat = v.flat
  <2> HIDE DEF refs
  <2> QED
    BY <1>2
<1>10. CellsOf(Struct(v, o)) = DOMAIN Cells(v, o)
  <2> HIDE DEF refs
  <2> QED
    BY <1>7, <1>8, <1>9 DEF CellsOf
<1>11. ASSUME NEW h, \A r \in DOMAIN Cells(v, o) : h[r] = Cells(v, o)[r]
       PROVE  Deref(h, Struct(v, o)) = v
  <2>1. \A p \in Targets(v.refs) : h[<<o, p>>] = v.refs[p]
    BY <1>8, <1>11 DEF Cells
  <2>2. [p \in DOMAIN refs |-> IF refs[p] = Nil THEN Nil ELSE h[refs[p]]] = [p \in Places |-> v.refs[p]]
    <3>1. ASSUME NEW p \in Places
          PROVE  (IF refs[p] = Nil THEN Nil ELSE h[refs[p]]) = v.refs[p]
      <4>1. CASE v.refs[p] = Nil
        BY <4>1
      <4>2. CASE v.refs[p] # Nil
        <5>1. p \in Targets(v.refs)
          BY <1>1, <4>2 DEF Targets
        <5> QED
          BY <1>6, <1>7, <2>1, <5>1
      <4> QED
        BY <4>1, <4>2
    <3> HIDE DEF refs
    <3> QED
      BY <1>7, <3>1
  <2>3. Deref(h, Struct(v, o)) = [flat |-> v.flat, refs |-> [p \in DOMAIN refs |-> IF refs[p] = Nil THEN Nil ELSE h[refs[p]]]]
    <3> HIDE DEF refs
    <3> QED
      BY <1>2 DEF Deref
  <2> HIDE DEF refs
  <2> QED
    BY <1>1, <2>2, <2>3
<1>12. DOMAIN Cells(v, o) \subseteq {<<o, p>> : p \in Places}
  BY <1>7, <1>8
<1> QED
  BY <1>4, <1>5, <1>10, <1>11, <1>12

\* DeepCopyInto gives every reference that is not nil memory of its own.
LEMMA CopyOwns ==
  ASSUME NEW obj, IsStruct(obj), NEW o \in Nat
  PROVE  /\ IsStruct(DeepCopyInto(obj, o))
         /\ DOMAIN CopiedCells(obj, o) \subseteq {<<o, p>> : p \in Places}
         /\ CellsOf(DeepCopyInto(obj, o)) = DOMAIN CopiedCells(obj, o)
<1> DEFINE refs == [p \in Places |-> IF obj.refs[p] # Nil THEN <<o, p>> ELSE obj.refs[p]]
<1>1. /\ obj = [flat |-> obj.flat, refs |-> obj.refs]
      /\ obj.refs \in [Places -> Cell \cup {Nil}] /\ DOMAIN obj.refs = Places
  BY DEF IsStruct
<1>2. DeepCopyInto(obj, o) = [flat |-> obj.flat, refs |-> refs]
  BY <1>1 DEF DeepCopyInto, NewMemory
<1>3. refs \in [Places -> Cell \cup {Nil}]
  BY DEF Cell
<1>4. \A p \in Places : <<o, p>> # Nil
  BY ContentsAssumption DEF Cell
<1>5. /\ Targets(refs) = Targets(obj.refs) /\ Targets(obj.refs) \subseteq Places
      /\ \A p \in Targets(obj.refs) : refs[p] = <<o, p>>
  BY <1>1, <1>4 DEF Targets
<1>6. DOMAIN CopiedCells(obj, o) = {<<o, p>> : p \in Targets(obj.refs)}
  BY <1>5 DEF CopiedCells, NewMemory
<1> HIDE DEF refs
<1>7. IsStruct(DeepCopyInto(obj, o))
  BY <1>2, <1>3 DEF IsStruct
<1>8. DeepCopyInto(obj, o).refs = refs
  BY <1>2
<1>9. CellsOf(DeepCopyInto(obj, o)) = DOMAIN CopiedCells(obj, o)
  BY <1>5, <1>6, <1>8 DEF CellsOf
<1> QED
  BY <1>5, <1>6, <1>7, <1>9

\* The structs of the caches, in hand and copied are the roots.
LEMMA RootsAre ==
  ASSUME CacheType
  PROVE  /\ \A i \in Informer : indexer[i] # None => indexer[i] \in Roots
         /\ \A c \in Clients : held[c] # None => held[c] \in Roots
         /\ \A c \in Clients : copied[c] # None => copied[c] \in Roots
         /\ \A obj \in Roots : /\ obj # None
                               /\ \/ \E i \in Informer : obj = indexer[i]
                                  \/ \E c \in Clients : obj = held[c]
                                  \/ \E c \in Clients : obj = copied[c]
<1>1. DOMAIN indexer = Informer /\ DOMAIN held = Clients /\ DOMAIN copied = Clients
  BY DEF CacheType
<1> QED
  BY <1>1 DEF Roots, Range

\* The caches start empty.
LEMMA InitCache == Init => CacheInv
<1> SUFFICES ASSUME Init PROVE CacheInv
  OBVIOUS
<1>1. CacheType
  BY DEF Init, CacheType
<1>2. \A i \in Informer : indexer[i] = None /\ seen[i] = None
  BY DEF Init
<1>3. \A c \in Clients : held[c] = None /\ copied[c] = None
  BY DEF Init
<1>4. Roots = {}
  BY <1>1, <1>2, <1>3, RootsAre
<1>5. DOMAIN heap = {}
  BY DEF Init
<1>6. MemoryInv
  BY <1>4, <1>5, FS_EmptySet DEF MemoryInv
<1>7. OwnInv /\ CacheUntouched
  BY <1>2, <1>3 DEF OwnInv, CacheUntouched
<1> QED
  BY <1>1, <1>6, <1>7 DEF CacheInv

\* The API's objects change, nothing else.
LEMMA ApiSetKeeps ==
  ASSUME CacheInv, NEW t \in Types, ApiSet(t)
  PROVE  CacheInv'
<1>1. UNCHANGED <<indexer, seen, heap, held, copied>>
  BY DEF ApiSet, cacheVars
<1>2. PICK v \in Contents(t) \cup {None} : api' = [api EXCEPT ![t] = v]
  BY DEF ApiSet
<1>3. DOMAIN api = Types
  BY DEF CacheInv, CacheType
<1>4. api' = [u \in Types |-> api'[u]] /\ \A u \in Types : api'[u] \in Contents(u) \cup {None}
  BY <1>2, <1>3 DEF CacheInv, CacheType
<1>5. CacheType'
  BY <1>1, <1>4 DEF CacheInv, CacheType
<1>6. MemoryInv' /\ OwnInv' /\ CacheUntouched'
  BY <1>1 DEF CacheInv, MemoryInv, Roots, OwnInv, CacheUntouched
<1> QED
  BY <1>5, <1>6 DEF CacheInv

\* Steps of the factory leave the caches alone.
LEMMA CacheStutters == CacheInv /\ UNCHANGED <<apiVars, cacheVars>> => CacheInv'
<1> SUFFICES ASSUME CacheInv, UNCHANGED <<apiVars, cacheVars>> PROVE CacheInv'
  OBVIOUS
<1>1. UNCHANGED <<api, indexer, seen, heap, held, copied>>
  BY DEF apiVars, cacheVars
<1> QED
  BY <1>1 DEF CacheInv, CacheType, MemoryInv, Roots, OwnInv, CacheUntouched

\* A cache is given what the API sent, in cells that were nobody's.
LEMMA PutKeeps ==
  ASSUME CacheInv, NEW i \in Informer, Put(i)
  PROVE  CacheInv'
<1> DEFINE v == api[i[1]]
           new == IF v = None THEN None ELSE Struct(v, Fresh)
           cells == IF v = None THEN << >> ELSE Cells(v, Fresh)
<1>1. /\ seen' = [seen EXCEPT ![i] = v]
      /\ indexer' = [indexer EXCEPT ![i] = new]
      /\ UNCHANGED <<held, copied, api>>
      /\ Memory(cells)
  BY DEF Put, apiVars
<1>2. i[1] \in Types /\ v \in Contents(i[1]) \cup {None}
  BY DEF Informer, CacheInv, CacheType
<1>3. Fresh \in Nat /\ \A r \in DOMAIN heap : r[1] # Fresh
  BY FreshIsNew DEF CacheInv, MemoryInv
<1>4. /\ DOMAIN cells \subseteq {<<Fresh, p>> : p \in Places}
      /\ new # None => IsStruct(new) /\ CellsOf(new) = DOMAIN cells
      /\ new = None <=> v = None
      /\ \A h : (\A r \in DOMAIN cells : h[r] = cells[r]) /\ new # None => Deref(h, new) = v
  <2>1. CASE v = None
    BY <2>1
  <2>2. CASE v # None
    <3>1. v \in Contents(i[1]) /\ new = Struct(v, Fresh) /\ cells = Cells(v, Fresh)
      BY <1>2, <2>2
    <3> HIDE DEF v, new, cells
    <3> QED
      BY <1>2, <1>3, <2>2, <3>1, StructStands
  <2> QED
    BY <2>1, <2>2
<1> HIDE DEF v, new, cells
<1>5. IsFiniteSet(DOMAIN cells) /\ DOMAIN cells \subseteq Cell
  BY <1>3, <1>4, AllocationFinite
<1>6. DOMAIN cells \cap DOMAIN heap = {}
  BY <1>3, <1>4
<1>7. /\ indexer' = [j \in Informer |-> indexer'[j]] /\ indexer'[i] = new
      /\ \A j \in Informer \ {i} : indexer'[j] = indexer[j]
  BY <1>1 DEF CacheInv, CacheType
<1>8. /\ seen' = [j \in Informer |-> seen'[j]] /\ seen'[i] = v
      /\ \A j \in Informer \ {i} : seen'[j] = seen[j]
  BY <1>1 DEF CacheInv, CacheType
<1>9. CacheType'
  BY <1>1, <1>7, <1>8 DEF CacheInv, CacheType
<1>10. \A obj \in Roots' : obj \in Roots \/ (obj = new /\ new # None)
  <2>1. DOMAIN indexer' = Informer /\ DOMAIN indexer = Informer
    BY <1>7 DEF CacheInv, CacheType
  <2>2. Range(indexer') \subseteq Range(indexer) \cup {new}
    BY <1>7, <2>1 DEF Range
  <2>3. Range(held') = Range(held) /\ Range(copied') = Range(copied)
    BY <1>1
  <2>4. Roots' = (Range(indexer') \cup Range(held') \cup Range(copied')) \ {None}
    BY DEF Roots
  <2> QED
    BY <2>2, <2>3, <2>4 DEF Roots
<1>11. \A obj \in Roots' : IsStruct(obj) /\ CellsOf(obj) \subseteq DOMAIN heap \cup DOMAIN cells
  BY <1>4, <1>10 DEF CacheInv, MemoryInv
<1>12. /\ MemoryInv'
       /\ \A obj \in Roots' : \A r \in CellsOf(obj) :
            heap'[r] = IF r \in DOMAIN cells THEN cells[r] ELSE heap[r]
  BY <1>1, <1>5, <1>11, Collected DEF CacheInv, MemoryInv
<1>13. \A c \in Clients : copied[c] # None => CellsOf(copied[c]) \subseteq DOMAIN heap
  BY RootsAre DEF CacheInv, MemoryInv
<1>14. OwnInv'
  BY <1>1, <1>4, <1>6, <1>7, <1>13 DEF CacheInv, OwnInv
<1>15. \A j \in Informer : indexer'[j] # None => indexer'[j] \in Roots'
  BY <1>9, RootsAre DEF Roots, Range, CacheType
<1>16. CacheUntouched'
  <2>1. SUFFICES ASSUME NEW j \in Informer
                 PROVE  IF indexer'[j] = None THEN seen'[j] = None
                        ELSE Deref(heap', indexer'[j]) = seen'[j]
    BY DEF CacheUntouched
  <2>2. CASE j = i
    <3>1. CASE new = None
      BY <1>4, <1>7, <1>8, <2>2, <3>1
    <3>2. CASE new # None
      <4>1. \A r \in DOMAIN cells : heap'[r] = cells[r]
        BY <1>4, <1>7, <1>12, <1>15, <3>2
      <4> QED
        BY <1>4, <1>7, <1>8, <2>2, <3>2, <4>1
    <3> QED
      BY <3>1, <3>2
  <2>3. CASE j # i
    <3>1. indexer'[j] = indexer[j] /\ seen'[j] = seen[j]
      BY <1>7, <1>8, <2>3
    <3>2. CASE indexer[j] = None
      BY <3>1, <3>2 DEF CacheInv, CacheUntouched
    <3>3. CASE indexer[j] # None
      <4>1. IsStruct(indexer[j]) /\ CellsOf(indexer[j]) \subseteq DOMAIN heap
        BY <3>3, RootsAre DEF CacheInv, MemoryInv
      <4>2. \A r \in CellsOf(indexer[j]) : heap'[r] = heap[r]
        BY <1>6, <1>12, <1>15, <3>1, <3>3, <4>1
      <4>3. Deref(heap', indexer[j]) = Deref(heap, indexer[j])
        BY <4>1, <4>2, DerefLocal
      <4> QED
        BY <3>1, <3>3, <4>3 DEF CacheInv, CacheUntouched
    <3> QED
      BY <3>2, <3>3
  <2> QED
    BY <2>2, <2>3
<1> QED
  BY <1>9, <1>12, <1>14, <1>16 DEF CacheInv

\* A step that leaves the caches' structs, and the cells of each, as they were
\* keeps what they stand for.
LEMMA CachesStand ==
  ASSUME CacheInv, CacheType', UNCHANGED <<indexer, seen>>, NEW cells,
         \A obj \in Roots' : \A r \in CellsOf(obj) :
            heap'[r] = IF r \in DOMAIN cells THEN cells[r] ELSE heap[r],
         \A j \in Informer : indexer[j] # None => CellsOf(indexer[j]) \cap DOMAIN cells = {}
  PROVE  CacheUntouched'
<1>1. SUFFICES ASSUME NEW j \in Informer, indexer[j] # None
               PROVE  Deref(heap', indexer[j]) = Deref(heap, indexer[j])
  BY DEF CacheInv, CacheUntouched
<1>2. indexer[j] \in Roots'
  BY <1>1 DEF Roots, Range, CacheType
<1>3. IsStruct(indexer[j])
  BY <1>1, RootsAre DEF CacheInv, MemoryInv
<1>4. \A r \in CellsOf(indexer[j]) : heap'[r] = heap[r]
  BY <1>1, <1>2
<1> QED
  BY <1>3, <1>4, DerefLocal

\* A lister returns the struct in the cache, or nothing.
LEMMA HoldKeeps ==
  ASSUME CacheInv, NEW c \in Clients, NEW obj, obj \in Roots \cup {None}, Hold(c, obj)
  PROVE  CacheInv'
<1>1. /\ held' = [held EXCEPT ![c] = obj]
      /\ UNCHANGED <<api, indexer, seen, copied>>
      /\ Memory(<< >>)
  BY DEF Hold, apiVars
<1>2. held' = [d \in Clients |-> held'[d]] /\ \A d \in Clients : held'[d] = held[d] \/ held'[d] = obj
  BY <1>1 DEF CacheInv, CacheType
<1>3. CacheType'
  BY <1>1, <1>2 DEF CacheInv, CacheType
<1>4. Roots' \subseteq Roots
  BY <1>1, <1>2, <1>3 DEF CacheInv, CacheType, Roots, Range
<1>5. DOMAIN << >> = {} /\ IsFiniteSet(DOMAIN << >>)
  BY FS_EmptySet
<1>6. \A x \in Roots' : IsStruct(x) /\ CellsOf(x) \subseteq DOMAIN heap \cup DOMAIN << >>
  BY <1>4 DEF CacheInv, MemoryInv
<1>7. /\ MemoryInv'
      /\ \A x \in Roots' : \A r \in CellsOf(x) :
           heap'[r] = IF r \in DOMAIN << >> THEN << >>[r] ELSE heap[r]
  BY <1>1, <1>5, <1>6, Collected DEF CacheInv, MemoryInv
<1>8. OwnInv'
  BY <1>1 DEF CacheInv, OwnInv
<1>9. CacheUntouched'
  BY <1>1, <1>3, <1>5, <1>7, CachesStand
<1> QED
  BY <1>3, <1>7, <1>8, <1>9 DEF CacheInv

\* DeepCopy makes cells that were nobody's.
LEMMA DeepCopyKeeps ==
  ASSUME CacheInv, NEW c \in Clients, DeepCopy(c)
  PROVE  CacheInv'
<1> DEFINE new == DeepCopyInto(held[c], Fresh)
           cells == CopiedCells(held[c], Fresh)
<1>1. /\ held' = [held EXCEPT ![c] = None]
      /\ copied' = [copied EXCEPT ![c] = new]
      /\ UNCHANGED <<api, indexer, seen>>
      /\ Memory(cells)
      /\ held[c] # None
  BY DEF DeepCopy, apiVars
<1>2. Fresh \in Nat /\ \A r \in DOMAIN heap : r[1] # Fresh
  BY FreshIsNew DEF CacheInv, MemoryInv
<1>3. IsStruct(held[c])
  BY <1>1, RootsAre DEF CacheInv, MemoryInv
<1>4. /\ IsStruct(new) /\ CellsOf(new) = DOMAIN cells
      /\ DOMAIN cells \subseteq {<<Fresh, p>> : p \in Places}
  BY <1>2, <1>3, CopyOwns
<1> HIDE DEF new, cells
<1>5. IsFiniteSet(DOMAIN cells) /\ DOMAIN cells \subseteq Cell
  BY <1>2, <1>4, AllocationFinite
<1>6. DOMAIN cells \cap DOMAIN heap = {}
  BY <1>2, <1>4
<1>7. /\ held' = [d \in Clients |-> held'[d]]
      /\ \A d \in Clients : held'[d] = held[d] \/ held'[d] = None
  BY <1>1 DEF CacheInv, CacheType
<1>8. /\ copied' = [d \in Clients |-> copied'[d]]
      /\ \A d \in Clients : copied'[d] = copied[d] \/ copied'[d] = new
  BY <1>1 DEF CacheInv, CacheType
<1>9. CacheType'
  BY <1>1, <1>7, <1>8 DEF CacheInv, CacheType
<1>10. Roots' \subseteq Roots \cup {new}
  BY <1>1, <1>7, <1>8, <1>9 DEF CacheInv, CacheType, Roots, Range
<1>11. \A obj \in Roots' : IsStruct(obj) /\ CellsOf(obj) \subseteq DOMAIN heap \cup DOMAIN cells
  BY <1>4, <1>10 DEF CacheInv, MemoryInv
<1>12. /\ MemoryInv'
       /\ \A obj \in Roots' : \A r \in CellsOf(obj) :
            heap'[r] = IF r \in DOMAIN cells THEN cells[r] ELSE heap[r]
  BY <1>1, <1>5, <1>11, Collected DEF CacheInv, MemoryInv
<1>13. \A j \in Informer : indexer[j] # None => CellsOf(indexer[j]) \subseteq DOMAIN heap
  BY RootsAre DEF CacheInv, MemoryInv
<1>14. \A j \in Informer : indexer[j] # None => CellsOf(indexer[j]) \cap DOMAIN cells = {}
  BY <1>6, <1>13
<1>15. OwnInv'
  BY <1>1, <1>4, <1>8, <1>14 DEF CacheInv, OwnInv
<1>16. CacheUntouched'
  BY <1>1, <1>9, <1>12, <1>14, CachesStand
<1> QED
  BY <1>9, <1>12, <1>15, <1>16 DEF CacheInv

\* A client writes to its copy: the cell is no cache's.
LEMMA WriteKeeps ==
  ASSUME CacheInv, NEW c \in Clients, NEW p \in Places, Write(c, p)
  PROVE  CacheInv'
<1> DEFINE r == copied[c].refs[p]
           cells == [x \in {r} |-> IF p \in MapPlaces THEN {"int"} ELSE "changed"]
<1>1. /\ copied' = [copied EXCEPT ![c] = None]
      /\ UNCHANGED <<api, indexer, seen, held>>
      /\ Memory(cells)
      /\ copied[c] # None /\ p \in Targets(copied[c].refs)
  BY DEF Write, apiVars
<1>2. DOMAIN cells = {r} /\ r \in CellsOf(copied[c])
  BY <1>1 DEF CellsOf
<1> HIDE DEF r, cells
<1>3. r \in DOMAIN heap /\ r \in Cell
  BY <1>1, <1>2, RootsAre DEF CacheInv, MemoryInv
<1>4. IsFiniteSet(DOMAIN cells) /\ DOMAIN cells \subseteq Cell
  BY <1>2, <1>3, FS_Singleton
<1>5. /\ copied' = [d \in Clients |-> copied'[d]]
      /\ \A d \in Clients : copied'[d] = copied[d] \/ copied'[d] = None
  BY <1>1 DEF CacheInv, CacheType
<1>6. CacheType'
  BY <1>1, <1>5 DEF CacheInv, CacheType
<1>7. Roots' \subseteq Roots
  BY <1>1, <1>5, <1>6 DEF CacheInv, CacheType, Roots, Range
<1>8. \A obj \in Roots' : IsStruct(obj) /\ CellsOf(obj) \subseteq DOMAIN heap \cup DOMAIN cells
  BY <1>7 DEF CacheInv, MemoryInv
<1>9. /\ MemoryInv'
      /\ \A obj \in Roots' : \A x \in CellsOf(obj) :
           heap'[x] = IF x \in DOMAIN cells THEN cells[x] ELSE heap[x]
  BY <1>1, <1>4, <1>8, Collected DEF CacheInv, MemoryInv
<1>10. \A j \in Informer : indexer[j] # None => CellsOf(indexer[j]) \cap DOMAIN cells = {}
  BY <1>1, <1>2 DEF CacheInv, OwnInv
<1>11. OwnInv'
  BY <1>1, <1>5 DEF CacheInv, OwnInv
<1>12. CacheUntouched'
  BY <1>1, <1>6, <1>9, <1>10, CachesStand
<1> QED
  BY <1>6, <1>9, <1>11, <1>12 DEF CacheInv

-----------------------------------------------------------------------------
(***************************************************************************)
(* The specification.                                                      *)
(***************************************************************************)

\* The informer a client was given has a place among the caches.
LEMMA GotIsInformer ==
  ASSUME FactoryInv, NEW c \in Clients, NEW t \in Types, got[c][t] # 0
  PROVE  <<t, got[c][t]>> \in Informer
<1>1. got[c][t] = 1
  BY DEF FactoryInv, FactoryType
<1> QED
  BY <1>1, FirstNumber

\* The two invariants are inductive together, and so hold throughout.
THEOREM Invariant == Spec => [](FactoryInv /\ CacheInv)
<1>1. Init => FactoryInv /\ CacheInv
  BY InitFactory, InitCache DEF Init
<1>2. FactoryInv /\ CacheInv /\ [Next]_vars => (FactoryInv /\ CacheInv)'
  <2>1. SUFFICES ASSUME FactoryInv, CacheInv, [Next]_vars PROVE (FactoryInv /\ CacheInv)'
    OBVIOUS
  <2>2. CASE FactoryNext
    <3>1. CacheInv'
      BY <2>1, <2>2, CacheStutters DEF FactoryNext
    <3>2. FactoryInv'
      <4>1. ASSUME NEW c \in Clients, ClientStep(c) PROVE FactoryInv'
        <5>1. CASE EndStart(c)
          BY <2>1, <5>1, EndStartKeeps
        <5>2. CASE EndWait(c)
          BY <2>1, <5>2, EndWaitKeeps
        <5>3. ASSUME NEW t \in Types, CreateInformer(c, t) PROVE FactoryInv'
          BY <2>1, <5>3, CreateKeeps
        <5>4. ASSUME NEW t \in Types, StartOne(c, t) PROVE FactoryInv'
          <6>1. CASE Launch(c, t)
            BY <2>1, <5>4, <6>1, LaunchKeeps
          <6>2. CASE UNCHANGED <<runVars, started>>
            BY <2>1, <5>4, <6>2, StartAgainKeeps
          <6> QED
            BY <5>4, <6>1, <6>2 DEF StartOne
        <5>5. ASSUME NEW t \in Types, WaitOne(c, t) PROVE FactoryInv'
          BY <2>1, <5>5, WaitOneKeeps
        <5> QED
          BY <4>1, <5>1, <5>2, <5>3, <5>4, <5>5 DEF ClientStep
      <4>2. ASSUME NEW c \in Clients, BeginStart(c) PROVE FactoryInv'
        BY <2>1, <4>2, BeginStartKeeps
      <4>3. ASSUME NEW c \in Clients, CloseStop(c) PROVE FactoryInv'
        BY <2>1, <4>3, CloseKeeps
      <4>4. ASSUME NEW c \in Readers, Snapshot(c) PROVE FactoryInv'
        BY <2>1, <4>4, SnapshotKeeps, ScopeAssumption
      <4>5. ASSUME NEW c \in Clients, NEW t \in Types, FindInformer(c, t) PROVE FactoryInv'
        BY <2>1, <4>5, FindKeeps
      <4>6. ASSUME NEW c \in Clients, NEW t \in Types, MissInformer(c, t) PROVE FactoryInv'
        BY <2>1, <4>6, MissKeeps
      <4>7. ASSUME NEW i \in Informer, BeginList(i) PROVE FactoryInv'
        BY <2>1, <4>7, MoveKeeps DEF BeginList
      <4> QED
        BY <2>2, <4>1, <4>2, <4>3, <4>4, <4>5, <4>6, <4>7 DEF FactoryNext
    <3> QED
      BY <3>1, <3>2
  <2>3. ASSUME NEW t \in Types, ApiSet(t) PROVE (FactoryInv /\ CacheInv)'
    <3>1. UNCHANGED fvars
      BY <2>3 DEF ApiSet
    <3> QED
      BY <2>1, <2>3, <3>1, FactoryStutters, ApiSetKeeps
  <2>4. ASSUME NEW i \in Informer, Sync(i) PROVE (FactoryInv /\ CacheInv)'
    <3>1. FactoryInv'
      BY <2>1, <2>4, MoveKeeps DEF Sync, FirstList
    <3>2. CacheInv'
      BY <2>1, <2>4, PutKeeps DEF Sync
    <3> QED
      BY <3>1, <3>2
  <2>5. ASSUME NEW i \in Informer, Deliver(i) PROVE (FactoryInv /\ CacheInv)'
    BY <2>1, <2>5, PutKeeps, FactoryStutters DEF Deliver
  <2>6. ASSUME NEW c \in Readers, NEW t \in Types, NEW ns \in Namespaces, List(c, t, ns) \/ Get(c, t, ns)
        PROVE  (FactoryInv /\ CacheInv)'
    <3>1. c \in Clients /\ got[c][t] # 0
      BY <2>6, ScopeAssumption DEF List, Get
    <3>2. indexer[<<t, got[c][t]>>] \in Roots \cup {None}
      BY <2>1, <3>1, GotIsInformer, RootsAre DEF CacheInv
    <3>3. PICK obj \in Roots \cup {None} : Hold(c, obj)
      BY <2>6, <3>2 DEF List, Get
    <3>4. UNCHANGED fvars
      BY <3>3 DEF Hold
    <3> QED
      BY <2>1, <3>1, <3>3, <3>4, HoldKeeps, FactoryStutters
  <2>7. ASSUME NEW c \in Readers, DeepCopy(c) PROVE (FactoryInv /\ CacheInv)'
    <3>1. UNCHANGED fvars
      BY <2>7 DEF DeepCopy
    <3> QED
      BY <2>1, <2>7, <3>1, DeepCopyKeeps, FactoryStutters, ScopeAssumption
  <2>8. ASSUME NEW c \in Readers, NEW p \in Places, Write(c, p) PROVE (FactoryInv /\ CacheInv)'
    <3>1. UNCHANGED fvars
      BY <2>8 DEF Write
    <3> QED
      BY <2>1, <2>8, <3>1, WriteKeeps, FactoryStutters, ScopeAssumption
  <2>9. CASE UNCHANGED vars
    <3>1. UNCHANGED fvars /\ UNCHANGED <<apiVars, cacheVars>>
      BY <2>9 DEF vars
    <3> QED
      BY <2>1, <3>1, FactoryStutters, CacheStutters
  <2> QED
    BY <2>1, <2>2, <2>3, <2>4, <2>5, <2>6, <2>7, <2>8, <2>9 DEF Next
<1> QED
  BY <1>1, <1>2, PTL DEF Spec

\* However many goroutines call InformerFor and Start, in any order, they share
\* one informer of each type, and it is run once.
THEOREM InformersShared == Spec => []SharedInformer
<1>1. FactoryInv => SharedInformer
  <2>1. SUFFICES ASSUME FactoryInv PROVE RunOnce
    BY DEF FactoryInv, SharedInformer
  <2>2. \A t \in Types, n \in Numbers : runs[<<t, n>>] \in {0, 1}
    BY <2>1 DEF FactoryInv, FactoryType, Informer
  <2> QED
    BY <2>1, <2>2 DEF FactoryInv, LaunchInv, RunOnce
<1> QED
  BY <1>1, Invariant, PTL

\* An answer of WaitForCacheSync is true, and stays true, of the informer the
\* factory keeps, and no informer the caller started is left out.
THEOREM AnswersTrue == Spec => []WaitAnswers
BY Invariant, PTL DEF FactoryInv

\* Whatever clients do with the deep copies of what their listers returned, the
\* caches hold what the API sent.
THEOREM CachesUntouched == Spec => []CacheUntouched
BY Invariant, PTL DEF CacheInv

=============================================================================
