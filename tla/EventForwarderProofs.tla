------------------------ MODULE EventForwarderProofs ------------------------
(***************************************************************************)
(* Theorems about the event-controller, for every finite set of events,    *)
(* every capacity of the channel, any number of attempts, pending          *)
(* notifications and processes, and any set of faults.                     *)
(***************************************************************************)
EXTENDS EventForwarder, FiniteSetTheorems, TLAPS

NoteType == [type : {"add", "update", "delete"}, event : Events]

-----------------------------------------------------------------------------
(***************************************************************************)
(* Type correctness, and a handler that is done before the channel closes. *)
(***************************************************************************)

\* What is appended to a queue comes last.
LEMMA AppendLast ==
  ASSUME NEW T, NEW q \in Seq(T), NEW m \in T
  PROVE  /\ Append(q, m) \in Seq(T)
         /\ Len(q) \in Nat /\ Len(Append(q, m)) = Len(q) + 1
         /\ Append(q, m)[Len(q) + 1] = m
         /\ \A i \in 1..Len(q) : Append(q, m)[i] = q[i]
         /\ \A i \in 1..Len(Append(q, m)) : i \in 1..Len(q) \/ i = Len(q) + 1
  OBVIOUS

\* What is taken from a queue was first.
LEMMA TakeFirst ==
  ASSUME NEW T, NEW q \in Seq(T), q # <<>>
  PROVE  /\ Tail(q) \in Seq(T)
         /\ Len(q) \in Nat /\ Len(q) >= 1 /\ 1 \in 1..Len(q)
         /\ Len(Tail(q)) = Len(q) - 1
         /\ Head(q) = q[1] /\ Head(q) \in T
         /\ \A i \in 1..Len(Tail(q)) : i + 1 \in 1..Len(q) /\ Tail(q)[i] = q[i + 1]
  OBVIOUS

\* A notification is queued.
LEMMA EnqueueType ==
  ASSUME TypeOK, NEW e \in Events, NEW type \in {"add", "update", "delete"}, Enqueue(type, e),
         store' \in SUBSET Events
  PROVE  TypeOK'
<1>1. [type |-> type, event |-> e] \in NoteType
  BY DEF NoteType
<1>2. notes' \in Seq(NoteType)
  BY <1>1, AppendLast DEF Enqueue, TypeOK, NoteType
<1> QED
  BY <1>2 DEF Enqueue, TypeOK, NoteType, main, handler, sender, network

\* The handler takes a notification.
LEMMA TakeType ==
  ASSUME TypeOK, NEW types, Take(types)
  PROVE  /\ notes' \in Seq(NoteType) /\ Head(notes) = notes[1] /\ 1 \in 1..Len(notes)
         /\ notes[1] \in NoteType /\ notes[1].event \in Events /\ notes[1].type \in types
         /\ Len(notes') = Len(notes) - 1 /\ Len(notes) \in Nat
         /\ \A i \in 1..Len(notes') : i + 1 \in 1..Len(notes) /\ notes'[i] = notes[i + 1]
<1>1. notes # <<>> /\ notes' = Tail(notes) /\ Head(notes).type \in types
  BY DEF Take
<1>2. notes \in Seq(NoteType)
  BY DEF TypeOK, NoteType
<1>3. Head(notes) = notes[1] /\ notes[1] \in NoteType
  BY <1>1, <1>2, TakeFirst
<1>4. notes[1].event \in Events
  BY <1>3 DEF NoteType
<1> QED
  BY <1>1, <1>2, <1>3, <1>4, TakeFirst

Counts == [received : Nat, sent : Nat, failed : Nat]

\* A counter is increased.
LEMMA CountUp ==
  ASSUME NEW c \in Counts
  PROVE  /\ [c EXCEPT !.received = @ + 1] \in Counts /\ [c EXCEPT !.received = @ + 1].received = c.received + 1
         /\ [c EXCEPT !.sent = @ + 1] \in Counts /\ [c EXCEPT !.sent = @ + 1].sent = c.sent + 1
         /\ [c EXCEPT !.failed = @ + 1] \in Counts /\ [c EXCEPT !.failed = @ + 1].failed = c.failed + 1
<1>1. c.received + 1 \in Nat /\ c.sent + 1 \in Nat /\ c.failed + 1 \in Nat
  BY DEF Counts
<1> QED
  BY <1>1 DEF Counts

\* Every step keeps the types.
LEMMA TypeStep == TypeOK /\ [Next]_vars => TypeOK'
<1> SUFFICES ASSUME TypeOK, [Next]_vars PROVE TypeOK'
  OBVIOUS
<1> USE DEF cluster, main, handler, sender, network
<1>1. ASSUME NEW e \in Events, Happen(e) \/ Expire(e) PROVE TypeOK'
  BY <1>1 DEF Happen, Expire, TypeOK
<1>2. ASSUME NEW e \in Events, Watch(e) \/ Repeat(e) PROVE TypeOK'
  <2>1. store' \in SUBSET Events
    BY <1>2 DEF Watch, Repeat, TypeOK
  <2> QED
    BY <1>2, <2>1, EnqueueType DEF Watch, Repeat
<1>3. ASSUME OnAdd PROVE TypeOK'
  <2>1. notes' \in Seq(NoteType) /\ hand' \in Events
    BY <1>3, TakeType DEF OnAdd
  <2>2. count' \in [received : Nat, sent : Nat, failed : Nat]
    BY <1>3, CountUp DEF OnAdd, TypeOK, Counts
  <2>3. UNCHANGED <<api, store, main, buffer, sender, network, lost>>
    BY <1>3 DEF OnAdd, Take
  <2> QED
    BY <2>1, <2>2, <2>3 DEF TypeOK, NoteType, Maybe
<1>4. ASSUME OnUpdateOrDelete PROVE TypeOK'
  <2>1. notes' \in Seq(NoteType)
    BY <1>4, TakeType DEF OnUpdateOrDelete
  <2> QED
    BY <1>4, <2>1 DEF OnUpdateOrDelete, Take, TypeOK, NoteType
<1>5. ASSUME Post PROVE TypeOK'
  <2>1. hand \in Events /\ hand' = None /\ UNCHANGED <<cluster, main, sender, network>>
    BY <1>5 DEF Post, TypeOK, Maybe
  <2>2. buffer \in Seq(Events) /\ count \in Counts /\ lost \in [refused : SUBSET Events, dropped : SUBSET Events]
    BY DEF TypeOK, Counts
  <2>3. CASE Len(buffer) < BufferLimit
    <3>1. buffer' = Append(buffer, hand) /\ count' = [count EXCEPT !.sent = @ + 1] /\ lost' = lost
      BY <1>5, <2>3 DEF Post
    <3>2. buffer' \in Seq(Events) /\ Len(buffer') <= BufferLimit
      BY <2>1, <2>2, <2>3, <3>1, AppendLast, ForwarderAssumption
    <3>3. count' \in Counts
      BY <2>2, <3>1, CountUp
    <3> QED
      BY <2>1, <3>1, <3>2, <3>3 DEF TypeOK, Maybe, Counts
  <2>4. CASE ~(Len(buffer) < BufferLimit)
    <3>1. /\ count' = [count EXCEPT !.failed = @ + 1] /\ buffer' = buffer
          /\ lost' = [lost EXCEPT !.refused = @ \cup {hand}]
      BY <1>5, <2>4 DEF Post
    <3>2. count' \in Counts /\ lost' \in [refused : SUBSET Events, dropped : SUBSET Events]
      BY <2>1, <2>2, <3>1, CountUp
    <3> QED
      BY <2>1, <3>1, <3>2 DEF TypeOK, Maybe, Counts
  <2> QED
    BY <2>3, <2>4
<1>6. ASSUME run PROVE TypeOK'
  <2>1. buffer' \in Seq(Events) /\ Len(buffer') <= BufferLimit /\ sending' \in Events
    BY <1>6, TakeFirst, ForwarderAssumption DEF run, TypeOK
  <2>2. tries' = 0 /\ 0 \in 0..MaxRetry
    BY <1>6, ForwarderAssumption DEF run
  <2> QED
    BY <1>6, <2>1, <2>2 DEF run, TypeOK, Maybe
<1>7. ASSUME connect \/ connectFails \/ writeFails PROVE TypeOK'
  <2>1. tries' \in 0..MaxRetry
    BY <1>7, ForwarderAssumption DEF connect, connectFails, writeFails, Trying, TypeOK
  <2> QED
    BY <1>7, <2>1 DEF connect, connectFails, writeFails, TypeOK
<1>8. ASSUME write PROVE TypeOK'
  <2>1. sending \in Events /\ 0 \in 0..MaxRetry
    BY <1>8, ForwarderAssumption DEF write, Trying, TypeOK, Maybe
  <2>2. wire' \in [Events -> Nat]
    BY <1>8, <2>1 DEF write, TypeOK
  <2> QED
    BY <1>8, <2>1, <2>2 DEF write, TypeOK, Maybe
<1>9. ASSUME giveUp PROVE TypeOK'
  <2>1. sending \in Events /\ 0 \in 0..MaxRetry
    BY <1>9, ForwarderAssumption DEF giveUp, TypeOK, Maybe
  <2>2. lost' \in [refused : SUBSET Events, dropped : SUBSET Events]
    BY <1>9, <2>1 DEF giveUp, TypeOK
  <2> QED
    BY <1>9, <2>1, <2>2 DEF giveUp, TypeOK, Maybe
<1>10. ASSUME NEW e \in Events, Arrive(e) PROVE TypeOK'
  <2>1. wire[e] - 1 \in Nat /\ got[e] + 1 \in Nat
    BY <1>10 DEF Arrive, TypeOK
  <2> QED
    BY <1>10, <2>1 DEF Arrive, TypeOK
<1>11. ASSUME NEW e \in Events, Vanish(e) PROVE TypeOK'
  <2>1. wire[e] - 1 \in Nat
    BY <1>11 DEF Vanish, TypeOK
  <2>2. lost' \in [refused : SUBSET Events, dropped : SUBSET Events]
    BY <1>11 DEF Vanish, TypeOK
  <2> QED
    BY <1>11, <2>1, <2>2 DEF Vanish, TypeOK
<1>12. ASSUME Signal \/ Close \/ Exit PROVE TypeOK'
  <2>1. <<>> \in Seq(NoteType)
    OBVIOUS
  <2> QED
    BY <1>12, <2>1 DEF Signal, Close, Exit, TypeOK, NoteType
<1>13. ASSUME Restart PROVE TypeOK'
  <2>1. <<>> \in Seq(NoteType) /\ <<>> \in Seq(Events) /\ Len(<<>>) = 0 /\ 0 \in 0..MaxRetry
        /\ 0 <= BufferLimit
    BY ForwarderAssumption
  <2>2. lives' \in 1..MaxLives
    BY <1>13, ForwarderAssumption DEF Restart, TypeOK
  <2>3. /\ count' \in [received : Nat, sent : Nat, failed : Nat]
        /\ wire' \in [Events -> Nat] /\ got' \in [Events -> Nat]
        /\ lost' \in [refused : SUBSET Events, dropped : SUBSET Events]
    BY <1>13 DEF Restart, NoCount, NoLoss, Zero
  <2> QED
    BY <1>13, <2>1, <2>2, <2>3 DEF Restart, TypeOK, Maybe, NoteType
<1>14. CASE UNCHANGED vars
  BY <1>14 DEF vars, TypeOK
<1> QED
  BY <1>1, <1>2, <1>3, <1>4, <1>5, <1>6, <1>7, <1>8, <1>9, <1>10, <1>11, <1>12, <1>13, <1>14
     DEF Next, Handle, Send

\* The initial state has its type.
LEMMA TypeInit == Init => TypeOK
<1> SUFFICES ASSUME Init PROVE TypeOK
  OBVIOUS
<1>1. <<>> \in Seq(NoteType) /\ <<>> \in Seq(Events) /\ Len(<<>>) = 0 /\ 0 \in 0..MaxRetry
      /\ 0 <= BufferLimit /\ 1 \in 1..MaxLives
  BY ForwarderAssumption
<1>2. /\ count \in [received : Nat, sent : Nat, failed : Nat]
      /\ wire \in [Events -> Nat] /\ got \in [Events -> Nat]
      /\ lost \in [refused : SUBSET Events, dropped : SUBSET Events]
  BY DEF Init, NoCount, NoLoss, Zero
<1> QED
  BY <1>1, <1>2 DEF Init, TypeOK, Maybe, NoteType

\* The variables always hold values of their types; in particular the channel
\* never holds more than its capacity, whatever fails (Post).
THEOREM TypeCorrect == Spec => []TypeOK
  BY TypeInit, TypeStep, PTL DEF Spec

\* main() closes the channel only when the handler is done, and the handler
\* takes nothing afterwards: no event is posted to a closed channel.
THEOREM NothingPostedAfterClose == Spec => []NoPostAfterClose
<1>1. Init => NoPostAfterClose
  BY DEF Init, NoPostAfterClose
<1>2. NoPostAfterClose /\ [Next]_vars => NoPostAfterClose'
  <2> SUFFICES ASSUME NoPostAfterClose, [Next]_vars PROVE NoPostAfterClose'
    OBVIOUS
  <2> USE DEF NoPostAfterClose, main, handler
  <2>1. CASE UNCHANGED <<phase, hand>>
    BY <2>1
  <2>2. CASE OnAdd
    BY <2>2 DEF OnAdd, Take
  <2>3. CASE Post
    BY <2>3 DEF Post
  <2>4. CASE Signal \/ Close \/ Exit \/ Restart
    BY <2>4 DEF Signal, Close, Exit, Restart
  <2> QED
    BY <2>1, <2>2, <2>3, <2>4
       DEF Next, Handle, Send, vars, Happen, Expire, Watch, Repeat, Enqueue, OnUpdateOrDelete, Take,
           run, connect, connectFails, write, writeFails, giveUp, Arrive, Vanish
<1> QED
  BY <1>1, <1>2, PTL DEF Spec

-----------------------------------------------------------------------------
(***************************************************************************)
(* Every event is in one place.  An event is announced to the handler once *)
(* per process: FreshInv says that one not yet announced, or announced and *)
(* not yet taken, is nowhere in the pipeline.                              *)
(***************************************************************************)
Announces(i, e) == notes[i].type = "add" /\ notes[i].event = e

FreshInv ==
  /\ \A e \in Events : api[e] # "expired" /\ e \notin store =>
       Places(e) = 0 /\ \A i \in 1..Len(notes) : ~Announces(i, e)
  /\ \A e \in Events, i \in 1..Len(notes) : Announces(i, e) =>
       Places(e) = 0 /\ \A j \in 1..Len(notes) : Announces(j, e) => i = j

At(q, e) == {i \in 1..Len(q) : q[i] = e}

\* An event appended to the channel waits there once more.
LEMMA AtAppend ==
  ASSUME NEW q \in Seq(Events), NEW x \in Events, NEW e \in Events
  PROVE  /\ IsFiniteSet(At(q, e)) /\ Cardinality(At(q, e)) \in Nat
         /\ Cardinality(At(Append(q, x), e)) = Cardinality(At(q, e)) + Bit(x = e)
<1>1. Len(q) \in Nat /\ IsFiniteSet(1..Len(q))
  BY FS_Interval
<1>2. IsFiniteSet(At(q, e)) /\ Cardinality(At(q, e)) \in Nat
  BY <1>1, FS_Subset, FS_CardinalityType DEF At
<1>3. At(Append(q, x), e) = IF x = e THEN At(q, e) \cup {Len(q) + 1} ELSE At(q, e)
  BY <1>1, AppendLast DEF At
<1>4. Len(q) + 1 \notin At(q, e)
  BY <1>1 DEF At
<1>5. CASE x = e
  <2>1. Cardinality(At(q, e) \cup {Len(q) + 1}) = Cardinality(At(q, e)) + 1
    BY <1>2, <1>4, FS_AddElement
  <2> QED
    BY <1>2, <1>3, <1>5, <2>1 DEF Bit
<1>6. CASE x # e
  BY <1>2, <1>3, <1>6 DEF Bit
<1> QED
  BY <1>5, <1>6

\* The event taken from the channel waits there once less.
LEMMA AtTail ==
  ASSUME NEW q \in Seq(Events), q # <<>>, NEW e \in Events
  PROVE  /\ Cardinality(At(q, e)) \in Nat
         /\ Cardinality(At(Tail(q), e)) = Cardinality(At(q, e)) - Bit(Head(q) = e)
<1> DEFINE S == At(q, e) \ {1}
           T == At(Tail(q), e)
           f == [i \in S |-> i - 1]
<1>1. /\ Len(q) \in Nat /\ IsFiniteSet(1..Len(q)) /\ 1 \in 1..Len(q) /\ Head(q) = q[1]
      /\ Len(Tail(q)) = Len(q) - 1
      /\ \A i \in 1..Len(Tail(q)) : i + 1 \in 1..Len(q) /\ Tail(q)[i] = q[i + 1]
  BY FS_Interval, TakeFirst
<1>2. IsFiniteSet(At(q, e)) /\ Cardinality(At(q, e)) \in Nat
  BY <1>1, FS_Subset, FS_CardinalityType DEF At
<1>3. IsFiniteSet(S) /\ Cardinality(S) = IF 1 \in At(q, e) THEN Cardinality(At(q, e)) - 1 ELSE Cardinality(At(q, e))
  BY <1>2, FS_RemoveElement
<1>4. 1 \in At(q, e) <=> Head(q) = e
  BY <1>1 DEF At
<1>5. \A i \in S : i \in Int /\ i - 1 \in T
  <2> SUFFICES ASSUME NEW i \in S PROVE i \in Int /\ i - 1 \in T
    OBVIOUS
  <2>1. i \in 1..Len(q) /\ i # 1 /\ q[i] = e
    BY DEF At
  <2>2. i - 1 \in 1..Len(Tail(q)) /\ (i - 1) + 1 = i
    BY <1>1, <2>1
  <2>3. Tail(q)[i - 1] = e
    BY <1>1, <2>1, <2>2
  <2> QED
    BY <2>1, <2>2, <2>3 DEF At
<1>6. \A j \in T : j \in Int /\ j + 1 \in S /\ (j + 1) - 1 = j
  <2> SUFFICES ASSUME NEW j \in T PROVE j \in Int /\ j + 1 \in S /\ (j + 1) - 1 = j
    OBVIOUS
  <2>1. j \in 1..Len(Tail(q)) /\ Tail(q)[j] = e
    BY DEF At
  <2> QED
    BY <1>1, <2>1 DEF At
<1> HIDE DEF S, T
<1>7. f \in Bijection(S, T)
  <2>1. f \in [S -> T]
    BY <1>5
  <2>2. \A a, b \in S : f[a] = f[b] => a = b
    BY <1>5
  <2>3. \A t \in T : \E a \in S : f[a] = t
    BY <1>6
  <2> QED
    BY <2>1, <2>2, <2>3 DEF Bijection, Injection, Surjection, IsInjective
<1>8. Cardinality(T) = Cardinality(S)
  BY <1>3, <1>7, FS_Bijection DEF ExistsBijection
<1> QED
  BY <1>2, <1>3, <1>4, <1>8 DEF Bit, T

\* The numbers of Places.
LEMMA Parts ==
  ASSUME TypeOK, NEW e \in Events
  PROVE  /\ Waiting(e) = At(buffer, e) /\ Cardinality(Waiting(e)) \in Nat
         /\ wire[e] \in Nat /\ got[e] \in Nat /\ Places(e) \in Nat
<1>1. Waiting(e) = At(buffer, e)
  BY DEF Waiting, At
<1>2. Cardinality(At(buffer, e)) \in Nat
  BY AtAppend DEF TypeOK
<1>3. wire[e] \in Nat /\ got[e] \in Nat
  BY DEF TypeOK
<1> QED
  BY <1>1, <1>2, <1>3 DEF Places, Bit

\* An event in one place is in no other.
LEMMA OnlyPlace ==
  ASSUME TypeOK, NEW e \in Events
  PROVE  /\ Places(e) = 0 => /\ hand # e /\ Cardinality(Waiting(e)) = 0 /\ sending # e
                             /\ wire[e] = 0 /\ got[e] = 0 /\ e \notin lost.refused /\ e \notin lost.dropped
         /\ Places(e) <= 1 =>
              /\ e \in lost.refused => hand # e /\ sending # e /\ wire[e] = 0 /\ got[e] = 0
              /\ e \in lost.dropped => hand # e /\ sending # e /\ wire[e] = 0 /\ got[e] = 0
              /\ got[e] # 0 => hand # e /\ sending # e /\ wire[e] = 0
<1> DEFINE c == Cardinality(Waiting(e))
           h == Bit(hand = e)
           t == Bit(sending = e)
           r == Bit(e \in lost.refused)
           d == Bit(e \in lost.dropped)
<1>1. c \in Nat /\ wire[e] \in Nat /\ got[e] \in Nat
  BY Parts
<1>2. h \in {0, 1} /\ t \in {0, 1} /\ r \in {0, 1} /\ d \in {0, 1}
  BY DEF Bit
<1>3. (h = 0 <=> hand # e) /\ (t = 0 <=> sending # e) /\ (r = 0 <=> e \notin lost.refused)
      /\ (d = 0 <=> e \notin lost.dropped)
  BY DEF Bit
<1>4. Places(e) = h + c + t + wire[e] + got[e] + r + d
  BY DEF Places
<1> HIDE DEF c, h, t, r, d
<1>5. ASSUME NEW w \in Nat, NEW g \in Nat, w = wire[e], g = got[e]
      PROVE  /\ Places(e) = 0 => h = 0 /\ c = 0 /\ t = 0 /\ w = 0 /\ g = 0 /\ r = 0 /\ d = 0
             /\ Places(e) <= 1 => /\ r # 0 => h = 0 /\ t = 0 /\ w = 0 /\ g = 0
                                  /\ d # 0 => h = 0 /\ t = 0 /\ w = 0 /\ g = 0
                                  /\ g # 0 => h = 0 /\ t = 0 /\ w = 0
  <2>1. Places(e) = h + c + t + w + g + r + d
    BY <1>4, <1>5
  <2>2. h \in Nat /\ t \in Nat /\ r \in Nat /\ d \in Nat
    BY <1>2
  <2> QED
    BY <1>1, <2>1, <2>2
<1> QED
  BY <1>1, <1>3, <1>5 DEF c

\* OnAdd takes an event in; no other step but a new process changes how many
\* places an event is in.
LEMMA Conserved ==
  ASSUME TypeOK, TypeOK', OnePlace, [Next]_vars, ~OnAdd, ~Restart, NEW e \in Events
  PROVE  Places(e)' = Places(e)
<1> DEFINE c == Cardinality(At(buffer, e))
           d == Cardinality(At(buffer', e))
<1>1. /\ c \in Nat /\ d \in Nat /\ wire[e] \in Nat /\ got[e] \in Nat
      /\ buffer \in Seq(Events) /\ buffer' \in Seq(Events)
      /\ lost \in [refused : SUBSET Events, dropped : SUBSET Events]
      /\ wire \in [Events -> Nat] /\ got \in [Events -> Nat]
  <2>1. buffer \in Seq(Events) /\ buffer' \in Seq(Events)
    BY DEF TypeOK
  <2>2. c \in Nat /\ d \in Nat
    BY <2>1, AtAppend
  <2> QED
    BY <2>1, <2>2 DEF TypeOK
<1>2. /\ Places(e) = Bit(hand = e) + c + Bit(sending = e) + wire[e] + got[e]
                       + Bit(e \in lost.refused) + Bit(e \in lost.dropped)
      /\ Places(e)' = Bit(hand' = e) + d + Bit(sending' = e) + wire'[e] + got'[e]
                       + Bit(e \in lost'.refused) + Bit(e \in lost'.dropped)
  BY DEF Places, Waiting, At
<1>3. /\ Places(e) <= 1 /\ None # e
      /\ e \in lost.refused => hand # e /\ sending # e /\ wire[e] = 0 /\ got[e] = 0
      /\ e \in lost.dropped => hand # e /\ sending # e /\ wire[e] = 0 /\ got[e] = 0
  BY OnlyPlace, ForwarderAssumption DEF OnePlace
<1> HIDE DEF c, d
<1> USE DEF main, handler, sender, network, cluster
<1>4. CASE UNCHANGED <<hand, buffer, sending, wire, got, lost>>
  BY <1>2, <1>4 DEF c, d
<1>5. CASE Post
  <2>1. hand \in Events /\ hand' = None /\ UNCHANGED <<sending, wire, got>>
    BY <1>5 DEF Post, TypeOK, Maybe
  <2>2. CASE Len(buffer) < BufferLimit
    <3>0. buffer' = Append(buffer, hand) /\ lost' = lost
      BY <1>5, <2>2 DEF Post
    <3>1. d = c + Bit(hand = e)
      BY <1>1, <2>1, <3>0, AtAppend DEF c, d
    <3> QED
      BY <1>1, <1>2, <1>3, <2>1, <3>0, <3>1 DEF Bit
  <2>3. CASE ~(Len(buffer) < BufferLimit)
    <3>1. buffer' = buffer /\ lost'.refused = lost.refused \cup {hand} /\ lost'.dropped = lost.dropped
      BY <1>1, <1>5, <2>3 DEF Post
    <3>2. d = c
      BY <3>1 DEF c, d
    <3> QED
      BY <1>1, <1>2, <1>3, <2>1, <3>1, <3>2 DEF Bit
  <2> QED
    BY <2>2, <2>3
<1>6. CASE run
  <2>1. /\ sending = None /\ sending' = Head(buffer) /\ buffer # <<>> /\ buffer' = Tail(buffer)
        /\ UNCHANGED <<hand, wire, got, lost>>
    BY <1>6 DEF run, Idle
  <2>2. d = c - Bit(Head(buffer) = e)
    BY <1>1, <2>1, AtTail DEF c, d
  <2> QED
    BY <1>1, <1>2, <1>3, <2>1, <2>2 DEF Bit
<1>7. CASE write
  <2>1. /\ sending \in Events /\ sending' = None /\ UNCHANGED <<hand, buffer, got, lost>>
        /\ wire' = [wire EXCEPT ![sending] = @ + 1]
    BY <1>7 DEF write, Trying, TypeOK, Maybe
  <2>2. d = c /\ wire'[e] = wire[e] + Bit(sending = e)
    BY <1>1, <2>1 DEF c, d, Bit
  <2> QED
    BY <1>1, <1>2, <1>3, <2>1, <2>2 DEF Bit
<1>8. CASE giveUp
  <2>1. /\ sending \in Events /\ sending' = None /\ UNCHANGED <<hand, buffer, wire, got>>
        /\ lost'.refused = lost.refused /\ lost'.dropped = lost.dropped \cup {sending}
    BY <1>1, <1>8 DEF giveUp, TypeOK, Maybe
  <2>2. d = c
    BY <2>1 DEF c, d
  <2> QED
    BY <1>1, <1>2, <1>3, <2>1, <2>2 DEF Bit
<1>9. ASSUME NEW x \in Events, Arrive(x) PROVE Places(e)' = Places(e)
  <2>1. /\ wire[x] > 0 /\ wire' = [wire EXCEPT ![x] = @ - 1] /\ got' = [got EXCEPT ![x] = @ + 1]
        /\ UNCHANGED <<hand, buffer, sending, lost>>
    BY <1>9 DEF Arrive
  <2>2. d = c /\ wire'[e] = wire[e] - Bit(x = e) /\ got'[e] = got[e] + Bit(x = e)
    BY <1>1, <2>1 DEF c, d, Bit
  <2> QED
    BY <1>1, <1>2, <2>1, <2>2 DEF Bit
<1>10. ASSUME NEW x \in Events, Vanish(x) PROVE Places(e)' = Places(e)
  <2>1. /\ wire[x] > 0 /\ wire' = [wire EXCEPT ![x] = @ - 1]
        /\ lost'.refused = lost.refused /\ lost'.dropped = lost.dropped \cup {x}
        /\ UNCHANGED <<hand, buffer, sending, got>>
    BY <1>1, <1>10 DEF Vanish
  <2>2. d = c /\ wire'[e] = wire[e] - Bit(x = e)
    BY <1>1, <2>1 DEF c, d, Bit
  <2> QED
    BY <1>1, <1>2, <1>3, <2>1, <2>2 DEF Bit
<1> QED
  BY <1>4, <1>5, <1>6, <1>7, <1>8, <1>9, <1>10
     DEF Next, Handle, Send, vars, Happen, Expire, Watch, Repeat, Enqueue, OnUpdateOrDelete, Take,
         connect, connectFails, writeFails, Signal, Close, Exit

\* OnAdd takes in the event of the first notification.
LEMMA TakenIn ==
  ASSUME TypeOK, OnAdd
  PROVE  /\ notes[1].event \in Events /\ hand' = notes[1].event /\ Announces(1, notes[1].event)
         /\ \A e \in Events : Places(e)' = Places(e) + Bit(e = notes[1].event)
<1>1. /\ notes[1].event \in Events /\ hand' = notes[1].event /\ notes[1].type = "add" /\ hand = None
      /\ UNCHANGED <<buffer, sending, wire, got, lost>>
  BY TakeType DEF OnAdd, Take, sender, network
<1>2. ASSUME NEW e \in Events PROVE Places(e)' = Places(e) + Bit(e = notes[1].event)
  <2>1. Cardinality(Waiting(e)) \in Nat /\ wire[e] \in Nat /\ got[e] \in Nat /\ e # None
    BY Parts, ForwarderAssumption
  <2>2. Waiting(e)' = Waiting(e)
    BY <1>1 DEF Waiting
  <2> QED
    BY <1>1, <2>1, <2>2 DEF Places, Bit
<1> QED
  BY <1>1, <1>2 DEF Announces

\* A new process starts with nothing in the pipeline.
LEMMA Emptied ==
  ASSUME Restart
  PROVE  \A e \in Events : Places(e)' = 0
<1> SUFFICES ASSUME NEW e \in Events PROVE Places(e)' = 0
  OBVIOUS
<1>1. /\ hand' = None /\ buffer' = <<>> /\ sending' = None /\ wire'[e] = 0 /\ got'[e] = 0
      /\ lost'.refused = {} /\ lost'.dropped = {}
  BY DEF Restart, Zero, NoLoss
<1>2. Waiting(e)' = {} /\ None # e
  <2>1. Len(<<>>) = 0
    OBVIOUS
  <2> QED
    BY <1>1, <2>1, ForwarderAssumption DEF Waiting
<1> QED
  BY <1>1, <1>2, FS_EmptySet DEF Places, Bit

\* Every step keeps FreshInv: an event is announced at most once.
LEMMA FreshStep ==
  ASSUME TypeOK, TypeOK', OnePlace, FreshInv, [Next]_vars
  PROVE  FreshInv'
<1> DEFINE Says(i, e) == notes'[i].type = "add" /\ notes'[i].event = e
<1> SUFFICES /\ \A e \in Events : api'[e] # "expired" /\ e \notin store' =>
                  Places(e)' = 0 /\ \A i \in 1..Len(notes') : ~Says(i, e)
             /\ \A e \in Events, i \in 1..Len(notes') : Says(i, e) =>
                  Places(e)' = 0 /\ \A j \in 1..Len(notes') : Says(j, e) => i = j
  BY DEF FreshInv, Announces
<1> USE DEF main, handler, sender, network, cluster
<1>1. notes \in Seq(NoteType) /\ Len(notes) \in Nat /\ api \in [Events -> {"none", "stored", "expired"}]
  BY DEF TypeOK, NoteType
<1>2. CASE OnAdd
  <2> DEFINE x == notes[1].event
  <2>1. x \in Events /\ Announces(1, x) /\ \A e \in Events : Places(e)' = Places(e) + Bit(e = x)
    BY <1>2, TakenIn
  <2>2. /\ 1 \in 1..Len(notes) /\ UNCHANGED <<api, store>>
        /\ \A i \in 1..Len(notes') : i + 1 \in 1..Len(notes) /\ notes'[i] = notes[i + 1] /\ i \in Int /\ i >= 1
    BY <1>2, TakeType DEF OnAdd, Take
  <2> HIDE DEF x
  <2>3. \A i \in 1..Len(notes'), e \in Events : Says(i, e) <=> Announces(i + 1, e)
    BY <2>2 DEF Announces
  <2>4. \A i \in 1..Len(notes') : ~Says(i, x)
    <3> SUFFICES ASSUME NEW i \in 1..Len(notes'), Announces(i + 1, x) PROVE FALSE
      BY <2>1, <2>3
    <3>1. 1 = i + 1
      BY <2>1, <2>2 DEF FreshInv
    <3> QED
      BY <2>2, <3>1
  <2>5. ~(api[x] # "expired" /\ x \notin store)
    BY <2>1, <2>2 DEF FreshInv
  <2>6. \A e \in Events : e # x => Places(e)' = Places(e)
    BY <2>1, Parts DEF Bit
  <2> HIDE DEF Says
  <2>7. \A e \in Events : api'[e] # "expired" /\ e \notin store' =>
          Places(e)' = 0 /\ \A i \in 1..Len(notes') : ~Says(i, e)
    BY <2>2, <2>3, <2>5, <2>6 DEF FreshInv
  <2>8. ASSUME NEW e \in Events, NEW i \in 1..Len(notes'), Says(i, e)
        PROVE  Places(e)' = 0 /\ \A j \in 1..Len(notes') : Says(j, e) => i = j
    <3>1. e # x /\ Announces(i + 1, e)
      BY <2>3, <2>4, <2>8
    <3>2. Places(e) = 0 /\ \A j \in 1..Len(notes) : Announces(j, e) => i + 1 = j
      BY <2>2, <3>1 DEF FreshInv
    <3>3. \A j \in 1..Len(notes') : Says(j, e) => i + 1 = j + 1
      BY <2>2, <2>3, <3>2
    <3> QED
      BY <2>2, <2>6, <3>1, <3>2, <3>3
  <2> QED
    BY <2>7, <2>8
<1>3. CASE Restart
  <2>1. notes' = <<>> /\ Len(<<>>) = 0
    BY <1>3 DEF Restart
  <2>2. \A i \in 1..Len(notes') : FALSE
    BY <2>1
  <2> QED
    BY <1>3, <2>2, Emptied
<1>4. CASE ~OnAdd /\ ~Restart
  <2>1. \A e \in Events : Places(e)' = Places(e)
    BY <1>4, Conserved
  <2>2. CASE UNCHANGED notes /\ store' = store /\ \A e \in Events : api'[e] # "expired" => api[e] # "expired"
    BY <2>1, <2>2 DEF FreshInv, Announces
  <2>3. ASSUME NEW x \in Events, NEW type \in {"update", "delete"}, Enqueue(type, x),
               store' = store \/ (store' = store \ {x} /\ api[x] = "expired")
        PROVE  /\ \A e \in Events : api'[e] # "expired" /\ e \notin store' =>
                    Places(e)' = 0 /\ \A i \in 1..Len(notes') : ~Says(i, e)
               /\ \A e \in Events, i \in 1..Len(notes') : Says(i, e) =>
                    Places(e)' = 0 /\ \A j \in 1..Len(notes') : Says(j, e) => i = j
    <3> DEFINE m == [type |-> type, event |-> x]
    <3>1. notes' = Append(notes, m) /\ api' = api /\ m \in NoteType /\ m.type # "add"
      BY <2>3 DEF Enqueue, NoteType
    <3> HIDE DEF m
    <3>2. /\ notes'[Len(notes) + 1] = m
          /\ \A i \in 1..Len(notes) : notes'[i] = notes[i]
          /\ \A i \in 1..Len(notes') : i \in 1..Len(notes) \/ i = Len(notes) + 1
      BY <1>1, <3>1, AppendLast
    <3>3. \A i \in 1..Len(notes'), e \in Events : Says(i, e) => i \in 1..Len(notes) /\ Announces(i, e)
      BY <3>1, <3>2 DEF Announces
    <3> HIDE DEF Says
    <3>4. \A e \in Events : api'[e] # "expired" /\ e \notin store' => api[e] # "expired" /\ e \notin store
      BY <2>3, <3>1
    <3> QED
      BY <2>1, <3>3, <3>4 DEF FreshInv
  <2>4. ASSUME NEW x \in Events, Enqueue("add", x), api[x] = "stored", x \notin store, store' = store \cup {x}
        PROVE  /\ \A e \in Events : api'[e] # "expired" /\ e \notin store' =>
                    Places(e)' = 0 /\ \A i \in 1..Len(notes') : ~Says(i, e)
               /\ \A e \in Events, i \in 1..Len(notes') : Says(i, e) =>
                    Places(e)' = 0 /\ \A j \in 1..Len(notes') : Says(j, e) => i = j
    <3> DEFINE m == [type |-> "add", event |-> x]
    <3>1. notes' = Append(notes, m) /\ api' = api /\ m \in NoteType /\ m.event = x
      BY <2>4 DEF Enqueue, NoteType
    <3> HIDE DEF m
    <3>2. /\ notes'[Len(notes) + 1] = m
          /\ \A i \in 1..Len(notes) : notes'[i] = notes[i]
          /\ \A i \in 1..Len(notes') : i \in 1..Len(notes) \/ i = Len(notes) + 1
      BY <1>1, <3>1, AppendLast
    <3>3. Places(x) = 0 /\ \A i \in 1..Len(notes) : ~Announces(i, x)
      BY <2>4 DEF FreshInv
    <3>4. \A i \in 1..Len(notes'), e \in Events : Says(i, e) =>
            (i \in 1..Len(notes) /\ Announces(i, e) /\ e # x) \/ (i = Len(notes) + 1 /\ e = x)
      BY <3>1, <3>2, <3>3 DEF Announces
    <3> HIDE DEF Says
    <3>5. \A e \in Events : api'[e] # "expired" /\ e \notin store' =>
            Places(e)' = 0 /\ \A i \in 1..Len(notes') : ~Says(i, e)
      BY <2>1, <2>4, <3>1, <3>4 DEF FreshInv
    <3>6. ASSUME NEW e \in Events, NEW i \in 1..Len(notes'), Says(i, e)
          PROVE  Places(e)' = 0 /\ \A j \in 1..Len(notes') : Says(j, e) => i = j
      BY <2>1, <3>3, <3>4, <3>6 DEF FreshInv
    <3> QED
      BY <3>5, <3>6
  <2>5. ASSUME OnUpdateOrDelete
        PROVE  /\ \A e \in Events : api'[e] # "expired" /\ e \notin store' =>
                    Places(e)' = 0 /\ \A i \in 1..Len(notes') : ~Says(i, e)
               /\ \A e \in Events, i \in 1..Len(notes') : Says(i, e) =>
                    Places(e)' = 0 /\ \A j \in 1..Len(notes') : Says(j, e) => i = j
    <3>1. /\ UNCHANGED <<api, store>>
          /\ \A i \in 1..Len(notes') : i + 1 \in 1..Len(notes) /\ notes'[i] = notes[i + 1] /\ i \in Int
      BY <2>5, TakeType DEF OnUpdateOrDelete, Take
    <3>2. \A i \in 1..Len(notes'), e \in Events : Says(i, e) <=> Announces(i + 1, e)
      BY <3>1 DEF Announces
    <3> HIDE DEF Says
    <3>3. \A e \in Events : api'[e] # "expired" /\ e \notin store' =>
            Places(e)' = 0 /\ \A i \in 1..Len(notes') : ~Says(i, e)
      BY <2>1, <3>1, <3>2 DEF FreshInv
    <3>4. ASSUME NEW e \in Events, NEW i \in 1..Len(notes'), Says(i, e)
          PROVE  Places(e)' = 0 /\ \A j \in 1..Len(notes') : Says(j, e) => i = j
      <4>1. Places(e) = 0 /\ \A j \in 1..Len(notes) : Announces(j, e) => i + 1 = j
        BY <3>1, <3>2, <3>4 DEF FreshInv
      <4>2. \A j \in 1..Len(notes') : Says(j, e) => i + 1 = j + 1
        BY <3>1, <3>2, <4>1
      <4> QED
        BY <2>1, <3>1, <4>1, <4>2
    <3> QED
      BY <3>3, <3>4
  <2>6. CASE Close
    <3>1. notes' = <<>> /\ Len(<<>>) = 0 /\ UNCHANGED <<api, store>>
      BY <2>6 DEF Close
    <3>2. \A i \in 1..Len(notes') : FALSE
      BY <3>1
    <3> QED
      BY <2>1, <3>1, <3>2 DEF FreshInv
  <2>7. ASSUME NEW x \in Events, Happen(x) \/ Expire(x)
        PROVE  notes' = notes /\ store' = store /\ \A e \in Events : api'[e] # "expired" => api[e] # "expired"
    BY <1>1, <2>7 DEF Happen, Expire
  <2>8. ASSUME NEW x \in Events, Watch(x) \/ Repeat(x)
        PROVE  /\ \A e \in Events : api'[e] # "expired" /\ e \notin store' =>
                    Places(e)' = 0 /\ \A i \in 1..Len(notes') : ~Says(i, e)
               /\ \A e \in Events, i \in 1..Len(notes') : Says(i, e) =>
                    Places(e)' = 0 /\ \A j \in 1..Len(notes') : Says(j, e) => i = j
    <3> HIDE DEF Says
    <3> QED
      BY <2>3, <2>4, <2>8 DEF Watch, Repeat
  <2>9. CASE UNCHANGED <<api, store, notes>>
    BY <2>2, <2>9
  <2> HIDE DEF Says
  <2> QED
    BY <1>4, <2>2, <2>5, <2>6, <2>7, <2>8, <2>9
       DEF Next, Handle, Send, vars, Post, run, connect, connectFails, write, writeFails, giveUp,
           Arrive, Vanish, Signal, Exit
<1> HIDE DEF Says
<1> QED
  BY <1>2, <1>3, <1>4

\* The initial state has nothing in the pipeline.
LEMMA PlacesInit == Init => \A e \in Events : Places(e) = 0
<1> SUFFICES ASSUME Init, NEW e \in Events PROVE Places(e) = 0
  OBVIOUS
<1>1. /\ hand = None /\ buffer = <<>> /\ sending = None /\ wire[e] = 0 /\ got[e] = 0
      /\ lost.refused = {} /\ lost.dropped = {}
  BY DEF Init, Zero, NoLoss
<1>2. Waiting(e) = {} /\ None # e
  <2>1. Len(<<>>) = 0
    OBVIOUS
  <2> QED
    BY <1>1, <2>1, ForwarderAssumption DEF Waiting
<1> QED
  BY <1>1, <1>2, FS_EmptySet DEF Places, Bit

\* The places and the counters when nothing is in the pipeline.
LEMMA AccountedInit == Init => FreshInv /\ Accounted
<1> SUFFICES ASSUME Init PROVE FreshInv /\ Accounted
  OBVIOUS
<1>1. \A e \in Events : Places(e) = 0
  BY PlacesInit
<1>2. \A i \in 1..Len(notes) : FALSE
  <2>1. notes = <<>> /\ Len(<<>>) = 0
    BY DEF Init
  <2> QED
    BY <2>1
<1>3. FreshInv
  BY <1>1, <1>2 DEF FreshInv
<1>4. OnePlace /\ Seen = {}
  BY <1>1 DEF OnePlace, Seen
<1>5. /\ count.received = 0 /\ count.sent = 0 /\ count.failed = 0 /\ lost.refused = {} /\ hand = None
  BY DEF Init, NoCount, NoLoss
<1>6. CountersAgree
  BY <1>4, <1>5, FS_EmptySet DEF CountersAgree, Bit
<1> QED
  BY <1>3, <1>4, <1>6 DEF Accounted

\* Every step keeps the account.
LEMMA AccountedStep ==
  ASSUME TypeOK, TypeOK', FreshInv, Accounted, [Next]_vars
  PROVE  Accounted'
<1>1. /\ OnePlace /\ count.received = Cardinality(Seen) /\ count.failed = Cardinality(lost.refused)
      /\ count.received = count.sent + count.failed + Bit(hand # None)
  BY DEF Accounted, CountersAgree
<1>2. /\ count \in Counts /\ count.received \in Nat /\ count.sent \in Nat /\ count.failed \in Nat
      /\ lost \in [refused : SUBSET Events, dropped : SUBSET Events]
  BY DEF TypeOK, Counts
<1>3. IsFiniteSet(Seen) /\ IsFiniteSet(lost.refused)
  BY <1>2, FS_Subset, ForwarderAssumption DEF Seen
<1> SUFFICES /\ \A e \in Events : Places(e)' <= 1
             /\ count'.received = Cardinality(Seen') /\ count'.failed = Cardinality(lost'.refused)
             /\ count'.received = count'.sent + count'.failed + Bit(hand' # None)
  BY DEF Accounted, CountersAgree, OnePlace
<1>4. CASE OnAdd
  <2> DEFINE x == notes[1].event
  <2>1. x \in Events /\ hand' = x /\ Announces(1, x)
        /\ \A e \in Events : Places(e)' = Places(e) + Bit(e = x)
    BY <1>4, TakenIn
  <2>2. 1 \in 1..Len(notes) /\ hand = None /\ lost' = lost /\ count' = [count EXCEPT !.received = @ + 1]
    BY <1>4, TakeType DEF OnAdd, Take
  <2>3. count'.received = count.received + 1 /\ count'.sent = count.sent /\ count'.failed = count.failed
    BY <1>2, <2>2 DEF Counts
  <2> HIDE DEF x
  <2>4. Places(x) = 0
    BY <2>1, <2>2 DEF FreshInv
  <2>5. \A e \in Events : Places(e) \in Nat /\ Places(e) <= 1
    BY <1>1, Parts DEF OnePlace
  <2>6. \A e \in Events : Places(e)' <= 1
    BY <2>1, <2>4, <2>5 DEF Bit
  <2>7. Seen' = Seen \cup {x} /\ x \notin Seen
    BY <2>1, <2>4, <2>5 DEF Seen, Bit
  <2>8. Cardinality(Seen') = Cardinality(Seen) + 1
    BY <1>3, <2>7, FS_AddElement
  <2>9. hand' # None
    BY <2>1, ForwarderAssumption
  <2>10. count'.received = Cardinality(Seen') /\ count'.failed = Cardinality(lost'.refused)
    BY <1>1, <2>2, <2>3, <2>8
  <2>11. count'.received = count'.sent + count'.failed + Bit(hand' # None)
    BY <1>1, <1>2, <2>2, <2>3, <2>9 DEF Bit
  <2> QED
    BY <2>6, <2>10, <2>11
<1>5. CASE Restart
  <2>1. \A e \in Events : Places(e)' = 0
    BY <1>5, Emptied
  <2>2. Seen' = {}
    BY <2>1 DEF Seen
  <2>3. /\ count'.received = 0 /\ count'.sent = 0 /\ count'.failed = 0 /\ lost'.refused = {} /\ hand' = None
    BY <1>5 DEF Restart, NoCount, NoLoss
  <2> QED
    BY <2>1, <2>2, <2>3, FS_EmptySet DEF Bit
<1>6. CASE ~OnAdd /\ ~Restart
  <2>1. \A e \in Events : Places(e)' = Places(e)
    BY <1>1, <1>6, Conserved
  <2>2. Seen' = Seen /\ \A e \in Events : Places(e)' <= 1
    BY <1>1, <2>1 DEF Seen, OnePlace
  <2> USE DEF main, handler, sender, network, cluster
  <2>3. CASE UNCHANGED <<hand, count>> /\ lost'.refused = lost.refused
    BY <1>1, <2>2, <2>3
  <2>4. CASE Post
    <3>1. hand \in Events /\ hand # None /\ hand' = None
      BY <2>4 DEF Post, TypeOK, Maybe
    <3>2. CASE Len(buffer) < BufferLimit
      <4>1. count' = [count EXCEPT !.sent = @ + 1] /\ lost' = lost
        BY <2>4, <3>2 DEF Post
      <4>2. count'.received = count.received /\ count'.sent = count.sent + 1 /\ count'.failed = count.failed
        BY <1>2, <4>1 DEF Counts
      <4>3. count'.received = Cardinality(Seen') /\ count'.failed = Cardinality(lost'.refused)
        BY <1>1, <2>2, <4>1, <4>2
      <4>4. count'.received = count'.sent + count'.failed + Bit(hand' # None)
        BY <1>1, <1>2, <3>1, <4>2 DEF Bit
      <4> QED
        BY <2>2, <4>3, <4>4
    <3>3. CASE ~(Len(buffer) < BufferLimit)
      <4>1. count' = [count EXCEPT !.failed = @ + 1] /\ lost' = [lost EXCEPT !.refused = @ \cup {hand}]
        BY <2>4, <3>3 DEF Post
      <4>2. count'.received = count.received /\ count'.sent = count.sent /\ count'.failed = count.failed + 1
        BY <1>2, <4>1 DEF Counts
      <4>3. lost'.refused = lost.refused \cup {hand}
        BY <1>2, <4>1
      <4>4. hand \notin lost.refused
        BY <1>1, <3>1, OnlyPlace DEF OnePlace
      <4>5. Cardinality(lost'.refused) = Cardinality(lost.refused) + 1
        BY <1>3, <4>3, <4>4, FS_AddElement
      <4>6. count'.received = Cardinality(Seen') /\ count'.failed = Cardinality(lost'.refused)
        BY <1>1, <2>2, <4>2, <4>5
      <4>7. count'.received = count'.sent + count'.failed + Bit(hand' # None)
        BY <1>1, <1>2, <3>1, <4>2 DEF Bit
      <4> QED
        BY <2>2, <4>6, <4>7
    <3> QED
      BY <3>2, <3>3
  <2>5. CASE giveUp
    BY <1>2, <2>3, <2>5 DEF giveUp
  <2>6. ASSUME NEW x \in Events, Vanish(x) PROVE UNCHANGED <<hand, count>> /\ lost'.refused = lost.refused
    BY <1>2, <2>6 DEF Vanish
  <2> QED
    BY <1>6, <2>3, <2>4, <2>5, <2>6
       DEF Next, Handle, Send, vars, Happen, Expire, Watch, Repeat, Enqueue, OnUpdateOrDelete, Take,
           run, connect, connectFails, write, writeFails, Arrive, Signal, Close, Exit
<1> QED
  BY <1>4, <1>5, <1>6

Inv == TypeOK /\ FreshInv /\ Accounted

\* The invariant of the account is inductive.
LEMMA InvHolds == (Init => Inv) /\ (Inv /\ [Next]_vars => Inv')
<1>1. Init => Inv
  BY TypeInit, AccountedInit DEF Inv
<1>2. ASSUME Inv, [Next]_vars PROVE Inv'
  <2>1. TypeOK /\ TypeOK' /\ FreshInv /\ Accounted /\ OnePlace
    BY <1>2, TypeStep DEF Inv, Accounted
  <2> QED
    BY <1>2, <2>1, FreshStep, AccountedStep DEF Inv
<1> QED
  BY <1>1, <1>2

\* A process forwards every event at most once, and its counters account for
\* every one, for any number of events, any capacity, any number of retries
\* and through every fault: OnAdd, Post, write and the sender lose no event
\* without a trace and send none twice.
THEOREM AllAccounted == Spec => []Accounted
<1>1. Inv => Accounted
  BY DEF Inv
<1> QED
  BY <1>1, InvHolds, PTL DEF Spec

-----------------------------------------------------------------------------
(***************************************************************************)
(* The pipeline implements LossyForwarder.                                 *)
(***************************************************************************)
\* The status of an event in terms of where it is.
LEMMA StatusCases ==
  ASSUME TypeOK, OnePlace, NEW e \in Events
  PROVE  /\ Places(e) = 0 => Status(e) = "new"
         /\ hand = e \/ sending = e \/ wire[e] > 0 => Status(e) = "received"
<1>1. Places(e) \in Nat /\ Places(e) <= 1 /\ Cardinality(Waiting(e)) \in Nat /\ wire[e] \in Nat /\ got[e] \in Nat
  BY Parts DEF OnePlace
<1>2. Places(e) = 0 => Status(e) = "new"
  BY <1>1, OnlyPlace DEF Status
<1>3. ASSUME hand = e \/ sending = e \/ wire[e] > 0 PROVE Status(e) = "received"
  <2>1. got[e] = 0 /\ e \notin lost.refused /\ e \notin lost.dropped /\ Places(e) # 0
    BY <1>1, <1>3, OnlyPlace
  <2> QED
    BY <1>1, <2>1 DEF Status
<1> QED
  BY <1>2, <1>3

\* An event whose place is of the same kind after a step keeps its status.
LEMMA StatusKept ==
  ASSUME NEW e \in Events, Places(e)' = Places(e), got'[e] = got[e],
         e \in lost'.refused <=> e \in lost.refused, e \in lost'.dropped <=> e \in lost.dropped
  PROVE  Status(e)' = Status(e)
  BY DEF Status

\* One event moves on and the others keep their status: a step of
\* LossyForwarder.
LEMMA OneMoves ==
  ASSUME NEW e \in Events,
         \/ Status(e) = "new" /\ Status(e)' = "received"
         \/ Status(e) = "received" /\ Status(e)' = "delivered"
         \/ Status(e) = "received" /\ Status(e)' = "lost",
         \A x \in Events : x # e => Status(x)' = Status(x)
  PROVE  Abstract!Next
<1> DEFINE f == [x \in Events |-> Status(x)]
           g == [x \in Events |-> Status(x)']
<1>1. f[e] = Status(e) /\ g = [f EXCEPT ![e] = Status(e)']
  OBVIOUS
<1>2. CASE Status(e) = "new" /\ Status(e)' = "received"
  BY <1>1, <1>2 DEF Abstract!Next, Abstract!Receive, Abstract!Move
<1>3. CASE Status(e) = "received" /\ Status(e)' = "delivered"
  BY <1>1, <1>3 DEF Abstract!Next, Abstract!Deliver, Abstract!Move
<1>4. CASE Status(e) = "received" /\ Status(e)' = "lost"
  BY <1>1, <1>4 DEF Abstract!Next, Abstract!Lose, Abstract!Move
<1> QED
  BY <1>2, <1>3, <1>4


\* Every step of the pipeline is a step of LossyForwarder, or none.
LEMMA ForwarderStep ==
  ASSUME Inv, Inv', [Next]_vars
  PROVE  [Abstract!Next]_([e \in Events |-> Status(e)])
<1> DEFINE P == [Abstract!Next]_([e \in Events |-> Status(e)])
<1>1. /\ TypeOK /\ TypeOK' /\ OnePlace /\ FreshInv
      /\ lost \in [refused : SUBSET Events, dropped : SUBSET Events]
      /\ got \in [Events -> Nat] /\ got' \in [Events -> Nat]
  BY DEF Inv, Accounted, TypeOK
<1>2. ASSUME \A e \in Events : Status(e)' = Status(e) PROVE P
  BY <1>2
<1>3. ASSUME NEW e \in Events,
             \/ Status(e) = "new" /\ Status(e)' = "received"
             \/ Status(e) = "received" /\ Status(e)' = "delivered"
             \/ Status(e) = "received" /\ Status(e)' = "lost",
             \A x \in Events : x # e => Status(x)' = Status(x)
      PROVE  P
  BY <1>3, OneMoves
<1> USE DEF main, handler, sender, network, cluster
<1>4. ASSUME OnAdd PROVE P
  <2>0. PICK e \in Events : e = notes[1].event
    BY <1>1, <1>4, TakenIn
  <2>1. /\ Announces(1, e)
        /\ \A x \in Events : Places(x)' = Places(x) + Bit(x = e)
    BY <1>1, <1>4, <2>0, TakenIn
  <2>2. 1 \in 1..Len(notes) /\ UNCHANGED <<got, lost>>
    BY <1>1, <1>4, TakeType DEF OnAdd, Take
  <2>3. Places(e) = 0
    BY <1>1, <2>1, <2>2 DEF FreshInv
  <2>4. Places(e)' = 1 /\ got[e] = 0 /\ e \notin lost.refused /\ e \notin lost.dropped
    BY <1>1, <2>1, <2>3, OnlyPlace DEF Bit
  <2>5. Status(e) = "new" /\ Status(e)' = "received"
    BY <1>1, <2>1, <2>2, <2>3, <2>4 DEF Status
  <2>6. \A x \in Events : x # e => Places(x)' = Places(x)
    BY <1>1, <2>1, Parts DEF Bit
  <2>7. \A x \in Events : x # e => Status(x)' = Status(x)
    BY <2>2, <2>6, StatusKept
  <2> QED
    BY <1>3, <2>1, <2>5, <2>7
<1>5. ASSUME Restart PROVE P
  <2>1. \A e \in Events : Places(e)' = 0 /\ got'[e] = 0 /\ e \notin lost'.refused /\ e \notin lost'.dropped
    BY <1>5, Emptied DEF Restart, Zero, NoLoss
  <2>2. \A e \in Events : Status(e)' = "new"
    BY <2>1 DEF Status
  <2> QED
    BY <2>2 DEF Abstract!Next, Abstract!Forget
<1>6. ASSUME ~OnAdd, ~Restart PROVE P
  <2>1. \A e \in Events : Places(e)' = Places(e) /\ Places(e) \in Nat
    BY <1>1, <1>6, Conserved, Parts
  <2>2. ASSUME UNCHANGED <<got, lost>> PROVE P
    BY <1>2, <2>1, <2>2, StatusKept
  <2>3. ASSUME NEW e \in Events, Places(e) > 0, Status(e) = "received",
               lost'.refused \cup lost'.dropped = lost.refused \cup lost.dropped \cup {e},
               lost'.refused \subseteq lost.refused \cup {e}, lost'.dropped \subseteq lost.dropped \cup {e},
               lost.refused \subseteq lost'.refused, lost.dropped \subseteq lost'.dropped,
               got[e] = 0, got' = got
        PROVE  P
    <3>1. Status(e)' = "lost"
      BY <2>3 DEF Status
    <3>2. ASSUME NEW x \in Events, x # e PROVE Status(x)' = Status(x)
      <4>1. (x \in lost'.refused <=> x \in lost.refused) /\ (x \in lost'.dropped <=> x \in lost.dropped)
        BY <2>3, <3>2
      <4> QED
        BY <2>1, <2>3, <4>1, StatusKept
    <3> QED
      BY <1>3, <2>3, <3>1, <3>2
  <2>4. CASE Post
    <3>1. hand \in Events /\ got' = got
      BY <2>4 DEF Post, TypeOK, Maybe, Inv
    <3>2. Status(hand) = "received" /\ Places(hand) > 0 /\ got[hand] = 0
      <4>1. Status(hand) = "received"
        BY <1>1, <3>1, StatusCases
      <4> QED
        BY <1>1, <2>1, <3>1, <4>1, StatusCases, OnlyPlace DEF OnePlace
    <3>3. CASE Len(buffer) < BufferLimit
      BY <2>2, <2>4, <3>1, <3>3 DEF Post
    <3>4. CASE ~(Len(buffer) < BufferLimit)
      <4>1. lost'.refused = lost.refused \cup {hand} /\ lost'.dropped = lost.dropped
        BY <1>1, <2>4, <3>4 DEF Post
      <4> QED
        BY <2>3, <3>1, <3>2, <4>1
    <3> QED
      BY <3>3, <3>4
  <2>5. CASE giveUp
    <3>1. /\ sending \in Events /\ got' = got
          /\ lost'.refused = lost.refused /\ lost'.dropped = lost.dropped \cup {sending}
      BY <1>1, <2>5 DEF giveUp, TypeOK, Maybe, Inv
    <3>2. Status(sending) = "received" /\ Places(sending) > 0 /\ got[sending] = 0
      <4>1. Status(sending) = "received"
        BY <1>1, <3>1, StatusCases
      <4> QED
        BY <1>1, <2>1, <3>1, <4>1, StatusCases, OnlyPlace DEF OnePlace
    <3> QED
      BY <2>3, <3>1, <3>2
  <2>6. ASSUME NEW e \in Events, Vanish(e) PROVE P
    <3>1. /\ wire[e] > 0 /\ got' = got
          /\ lost'.refused = lost.refused /\ lost'.dropped = lost.dropped \cup {e}
      BY <1>1, <2>6 DEF Vanish
    <3>2. Status(e) = "received" /\ Places(e) > 0 /\ got[e] = 0
      <4>1. Status(e) = "received" /\ wire[e] # 0
        BY <1>1, <3>1, StatusCases, Parts
      <4> QED
        BY <1>1, <2>1, <3>1, <4>1, StatusCases, OnlyPlace DEF OnePlace
    <3> QED
      BY <2>3, <3>1, <3>2
  <2>7. ASSUME NEW e \in Events, Arrive(e) PROVE P
    <3>1. wire[e] > 0 /\ got' = [got EXCEPT ![e] = @ + 1] /\ lost' = lost
      BY <2>7 DEF Arrive
    <3>2. Status(e) = "received"
      BY <1>1, <3>1, StatusCases
    <3>3. Status(e)' = "delivered"
      BY <1>1, <3>1 DEF Status
    <3>4. \A x \in Events : x # e => Status(x)' = Status(x)
      BY <1>1, <2>1, <3>1, StatusKept
    <3> QED
      BY <1>3, <3>2, <3>3, <3>4
  <2> HIDE DEF P
  <2> QED
    BY <1>6, <2>2, <2>4, <2>5, <2>6, <2>7
       DEF Next, Handle, Send, vars, Happen, Expire, Watch, Repeat, Enqueue, OnUpdateOrDelete, Take,
           run, connect, connectFails, write, writeFails, Signal, Close, Exit
<1> HIDE DEF P
<1>7. P
  BY <1>4, <1>5, <1>6
<1> QED
  BY <1>7 DEF P

\* A received event is delivered or lost, one of the two and only once, and
\* that is final while the process lives: the handler, the channel, the sender
\* and the network together take only the steps that LossyForwarder allows
\* (its safety part; that the end comes is left to the model checker).
THEOREM ImplementsForwarder == Spec => Abstract!Safety
<1>1. Init => Abstract!Init
  <2> SUFFICES ASSUME Init, NEW e \in Events PROVE Status(e) = "new"
    BY DEF Abstract!Init
  <2>1. TypeOK /\ OnePlace /\ Places(e) = 0
    BY TypeInit, AccountedInit, PlacesInit DEF Accounted
  <2> QED
    BY <2>1, StatusCases
<1>2. Inv /\ Inv' /\ [Next]_vars => [Abstract!Next]_([e \in Events |-> Status(e)])
  BY ForwarderStep
<1> QED
  BY <1>1, <1>2, InvHolds, PTL DEF Spec, Abstract!Safety

=============================================================================
