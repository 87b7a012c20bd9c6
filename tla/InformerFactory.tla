-------------------------- MODULE InformerFactory --------------------------
(***************************************************************************)
(* The generated shared informer factory,                                  *)
(* pkg/client/informers/externalversions/factory.go: several goroutines    *)
(* ("clients") request informers, start them and wait for their caches,    *)
(* each with a stop channel of its own.  The three operations take the     *)
(* factory's mutex; the steps they take under it are separate steps here,  *)
(* so that it is the mutex, and not the model, that keeps them apart.      *)
(* What Run does is client-go's: an informer lists once, is synced from    *)
(* then on, and follows the API until the channel it was started with is   *)
(* closed.                                                                 *)
(***************************************************************************)
EXTENDS Naturals, FiniteSets

CONSTANTS Clients,   \* goroutines that share the factory
          Types,     \* the resources: the keys of the factory's maps
          None

ASSUME ClientsAssumption == None \notin Clients /\ IsFiniteSet(Clients)

VARIABLES lock,      \* the holder of factory.lock
          pc,        \* where each client is
          todo,      \* the types its call has not dealt with yet
          informers, \* factory.informers: type -> the number of its informer
          made,      \* type -> how many informers were made for it
          started,   \* factory.startedInformers
          phase,     \* <<type, n>> -> how far that informer's Run is
          runs,      \* <<type, n>> -> how often Run was called on it
          stopBy,    \* <<type, n>> -> whose stop channel Run was given
          stopped,   \* the clients whose stop channel is closed
          got,       \* client -> type -> the informer it was given
          res        \* client -> the result of its WaitForCacheSync so far

factoryVars == <<lock, pc, todo, informers, made, started>>
runVars == <<phase, runs, stopBy>>
clientVars == <<stopped, got, res>>
fvars == <<factoryVars, runVars, clientVars>>

\* The n-th informer made for a type; 0 is the absence of one.
Numbers == 1 .. Cardinality(Clients)
Informer == Types \X Numbers

\* The informer the factory's map holds for a type.
Current(t) == <<t, informers[t]>>

\* The types the map has a key for.
Requested == {t \in Types : informers[t] # 0}

HasSynced(i) == phase[i] = "synced"

\* NewSharedInformerFactoryWithOptions: empty maps.
FactoryInit ==
  /\ lock = None
  /\ pc = [c \in Clients |-> "idle"]
  /\ todo = [c \in Clients |-> {}]
  /\ informers = [t \in Types |-> 0]
  /\ made = [t \in Types |-> 0]
  /\ started = {}
  /\ phase = [i \in Informer |-> "new"]
  /\ runs = [i \in Informer |-> 0]
  /\ stopBy = [i \in Informer |-> None]
  /\ stopped = {}
  /\ got = [c \in Clients |-> [t \in Types |-> 0]]
  /\ res = [c \in Clients |-> << >>]

-----------------------------------------------------------------------------
(* The mutex.  A call that has not got it yet has done nothing. *)

\* Mutant: the mutex is not taken.
Unlocked(c) == lock' = lock

\* f.lock.Lock()
Lock(c) == lock = None /\ lock' = c

\* defer f.lock.Unlock()
Unlock == lock' = None

-----------------------------------------------------------------------------
(* InformerFor *)

\* The type has an informer: that one is returned.
FindInformer(c, t) ==
  /\ pc[c] = "idle" /\ lock = None
  /\ informers[t] # 0
  /\ got' = [got EXCEPT ![c][t] = informers[t]]
  /\ UNCHANGED <<factoryVars, runVars, stopped, res>>

\* It has none: go on to make one, the lock still held.
MissInformer(c, t) ==
  /\ pc[c] = "idle"
  /\ informers[t] = 0
  /\ Lock(c)
  /\ pc' = [pc EXCEPT ![c] = "create"]
  /\ todo' = [todo EXCEPT ![c] = {t}]
  /\ UNCHANGED <<informers, made, started, runVars, clientVars>>

\* newFunc(f.client, resyncPeriod), kept in the map and returned.
CreateInformer(c, t) ==
  /\ pc[c] = "create" /\ t \in todo[c]
  /\ made' = [made EXCEPT ![t] = @ + 1]
  /\ informers' = [informers EXCEPT ![t] = made'[t]]
  /\ got' = [got EXCEPT ![c][t] = made'[t]]
  /\ todo' = [todo EXCEPT ![c] = {}]
  /\ pc' = [pc EXCEPT ![c] = "idle"]
  /\ Unlock
  /\ UNCHANGED <<started, runVars, stopped, res>>

-----------------------------------------------------------------------------
(* Start *)

BeginStart(c) ==
  /\ pc[c] = "idle"
  /\ Lock(c)
  /\ todo' = [todo EXCEPT ![c] = Requested]
  /\ pc' = [pc EXCEPT ![c] = "start"]
  /\ UNCHANGED <<informers, made, started, runVars, clientVars>>

\* go informer.Run(stopCh), unless the type counts as started already.
Launch(c, t) ==
  /\ t \notin started
  /\ runs' = [runs EXCEPT ![Current(t)] = @ + 1]
  /\ phase' = [phase EXCEPT ![Current(t)] = "launched"]
  /\ stopBy' = [stopBy EXCEPT ![Current(t)] = c]
  /\ started' = started \cup {t}

\* Mutant: startedInformers is not written.
LaunchUnmarked(c, t) ==
  /\ pc[c] = "start" /\ t \in todo[c]
  /\ todo' = [todo EXCEPT ![c] = @ \ {t}]
  /\ runs' = [runs EXCEPT ![Current(t)] = @ + 1]
  /\ phase' = [phase EXCEPT ![Current(t)] = "launched"]
  /\ stopBy' = [stopBy EXCEPT ![Current(t)] = c]
  /\ UNCHANGED <<lock, pc, informers, made, started, clientVars>>

\* One turn of the loop; the order of a Go map's keys is not fixed.
StartOne(c, t) ==
  /\ pc[c] = "start" /\ t \in todo[c]
  /\ todo' = [todo EXCEPT ![c] = @ \ {t}]
  /\ Launch(c, t) \/ (t \in started /\ UNCHANGED <<runVars, started>>)
  /\ UNCHANGED <<lock, pc, informers, made, clientVars>>

EndStart(c) ==
  /\ pc[c] = "start" /\ todo[c] = {}
  /\ Unlock
  /\ pc' = [pc EXCEPT ![c] = "idle"]
  /\ UNCHANGED <<todo, informers, made, started, runVars, clientVars>>

-----------------------------------------------------------------------------
(* WaitForCacheSync *)

\* Mutant: wait for every informer of the factory.
WaitForAll(c) ==
  /\ pc[c] = "idle" /\ lock = None
  /\ todo' = [todo EXCEPT ![c] = Requested]
  /\ pc' = [pc EXCEPT ![c] = "wait"]
  /\ UNCHANGED <<lock, informers, made, started, runVars, clientVars>>

\* The started informers, copied under the lock.
Snapshot(c) ==
  /\ pc[c] = "idle" /\ lock = None
  /\ todo' = [todo EXCEPT ![c] = Requested \cap started]
  /\ pc' = [pc EXCEPT ![c] = "wait"]
  /\ UNCHANGED <<lock, informers, made, started, runVars, clientVars>>

Answer(c, t, synced) ==
  /\ res' = [res EXCEPT ![c] = [u \in DOMAIN @ \cup {t} |->
                                  IF u = t THEN synced ELSE @[u]]]
  /\ todo' = [todo EXCEPT ![c] = @ \ {t}]
  /\ UNCHANGED <<lock, pc, informers, made, started, runVars, stopped, got>>

\* Mutant: one look at the cache, no waiting.
LookOnce(c, t) ==
  /\ pc[c] = "wait" /\ t \in todo[c]
  /\ Answer(c, t, HasSynced(Current(t)))

\* cache.WaitForCacheSync of one informer: it polls HasSynced until it holds,
\* and a last time once the caller's channel is closed.
WaitOne(c, t) ==
  /\ pc[c] = "wait" /\ t \in todo[c]
  /\ HasSynced(Current(t)) \/ c \in stopped
  /\ Answer(c, t, HasSynced(Current(t)))

EndWait(c) ==
  /\ pc[c] = "wait" /\ todo[c] = {}
  /\ pc' = [pc EXCEPT ![c] = "idle"]
  /\ res' = [res EXCEPT ![c] = << >>]
  /\ UNCHANGED <<lock, todo, informers, made, started, runVars, stopped, got>>

-----------------------------------------------------------------------------
(* The informer's goroutine, and the stop channels *)

Move(i, from, to) ==
  /\ phase[i] = from
  /\ phase' = [phase EXCEPT ![i] = to]
  /\ UNCHANGED <<factoryVars, runs, stopBy, clientVars>>

\* sharedIndexInformer.Run: the controller exists, its reflector lists unless
\* the channel is closed already.
BeginList(i) == stopBy[i] \notin stopped /\ Move(i, "launched", "listing")

\* The first list has gone through the queue into the indexer.  A list that
\* is under way when the channel is closed may still get there.
FirstList(i) == Move(i, "listing", "synced")

\* A client closes the channel it passes to Start and WaitForCacheSync.
CloseStop(c) ==
  /\ c \notin stopped
  /\ stopped' = stopped \cup {c}
  /\ UNCHANGED <<factoryVars, runVars, got, res>>

=============================================================================
