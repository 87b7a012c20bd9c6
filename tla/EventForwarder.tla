--------------------------- MODULE EventForwarder ---------------------------
(***************************************************************************)
(* The event-controller (cmd/event-controller, pkg/event): an informer     *)
(* hands every Kubernetes event to the controller, which posts it to a     *)
(* fluent logger; the logger puts it into a bounded channel, and a         *)
(* goroutine of its own, the sender, writes what is in the channel to      *)
(* fluent-bit (fluent-logger-golang, vendored).                            *)
(*                                                                         *)
(* An event is its identity: the text of the record, which OnAdd makes of  *)
(* the event's fields, is left out.  The counters of updates and deletions *)
(* only count and are left out too.                                        *)
(*                                                                         *)
(* On a signal main() leaves eventInformer.Run, which waits for the        *)
(* handler, and closes the logger, which waits for the sender:             *)
(*   "running" -> (signal)             -> "stopping"                       *)
(*             -> (Run returns, Close) -> "closing"                        *)
(*             -> (sender done)        -> "exited"                         *)
(***************************************************************************)
EXTENDS Naturals, Sequences, FiniteSets

CONSTANTS Events,        \* the events that happen in the cluster
          None,          \* no event
          BufferLimit,   \* capacity of the channel (SEND_BUFFER_SIZE)
          MaxRetry,      \* attempts to send one message
          MaxPending,    \* bound on the listener's pendingNotifications
          MaxLives,      \* bound on the processes that follow one another
          AllowedFaults  \* the faults this instance may meet

FaultKinds == {"connect",  \* fluent-bit cannot be reached
               "write",    \* a write fails or takes longer than WriteTimeout
               "wire",     \* what was written is lost with the connection
               "crash"}    \* the process dies: killed, or a second signal

ASSUME ForwarderAssumption ==
  /\ None \notin Events
  /\ IsFiniteSet(Events)
  /\ BufferLimit \in Nat \ {0} /\ MaxRetry \in Nat \ {0}
  /\ MaxPending \in Nat /\ MaxLives \in Nat \ {0}
  /\ AllowedFaults \subseteq FaultKinds

VARIABLES
  api,      \* the events the API server stores, and those it has stored
  store,    \* the informer's indexer
  notes,    \* pendingNotifications of its listener
  phase,    \* how far main() is
  hand,     \* the event the handler is about to post
  count,    \* the expvar counters
  buffer,   \* the channel Fluent.pending
  sending,  \* the message the sender tries to write
  tries,    \* how often it has tried
  conn,     \* whether it has a connection
  wire,     \* what was written and not yet read by fluent-bit
  got,      \* history: how often fluent-bit has read each event
  lost,     \* history: the events refused by the channel, and lost after it
  lives     \* history: the processes so far

vars == <<api, store, notes, phase, hand, count, buffer, sending, tries, conn,
          wire, got, lost, lives>>

cluster == <<api, store, notes>>
main == <<phase, lives>>
handler == <<hand, count>>
sender == <<sending, tries, conn>>
network == <<wire, got>>

NoCount == [received |-> 0, sent |-> 0, failed |-> 0]
NoLoss == [refused |-> {}, dropped |-> {}]
Zero == [e \in Events |-> 0]

Init ==
  /\ api = [e \in Events |-> "none"]
  /\ store = {} /\ notes = <<>>
  /\ phase = "running"
  /\ hand = None /\ count = NoCount
  /\ buffer = <<>>
  /\ sending = None /\ tries = 0 /\ conn = FALSE
  /\ wire = Zero /\ got = Zero /\ lost = NoLoss
  /\ lives = 1

-----------------------------------------------------------------------------
(***************************************************************************)
(* The cluster: events happen, and expire after an hour.                   *)
(***************************************************************************)
Happen(e) ==
  /\ api[e] = "none"
  /\ api' = [api EXCEPT ![e] = "stored"]
  /\ UNCHANGED <<store, notes, main, handler, buffer, sender, network, lost>>

Expire(e) ==
  /\ api[e] = "stored"
  /\ api' = [api EXCEPT ![e] = "expired"]
  /\ UNCHANGED <<store, notes, main, handler, buffer, sender, network, lost>>

(***************************************************************************)
(* The informer.  The first list of a process is a Watch of each event.    *)
(***************************************************************************)
Enqueue(type, e) ==
  /\ phase = "running"
  /\ Len(notes) < MaxPending
  /\ notes' = Append(notes, [type |-> type, event |-> e])
  /\ UNCHANGED <<api, main, handler, buffer, sender, network, lost>>

Watch(e) ==
  \/ /\ api[e] = "stored" /\ e \notin store
     /\ store' = store \cup {e}
     /\ Enqueue("add", e)
  \/ /\ api[e] = "expired" /\ e \in store
     /\ store' = store \ {e}
     /\ Enqueue("delete", e)

\* An event that happens again has its count changed; and the 30 s resync.
Repeat(e) ==
  /\ e \in store
  /\ Enqueue("update", e)
  /\ UNCHANGED store

-----------------------------------------------------------------------------
(***************************************************************************)
(* The handler.  It may take a further notification after the signal: the  *)
(* listener chooses between that and the end.                              *)
(***************************************************************************)
Take(types) ==
  /\ phase \in {"running", "stopping"}
  /\ hand = None
  /\ notes # <<>> /\ Head(notes).type \in types
  /\ notes' = Tail(notes)
  /\ UNCHANGED <<api, store, main, buffer, sender, network, lost>>

\* Mutant: the type assertion asks for a value where the informer has pointers.
NeverAnEvent ==
  /\ Take({"add"})
  /\ count' = [count EXCEPT !.received = @ + 1]
  /\ UNCHANGED hand

\* The informer hands over nothing but events: the type assertion succeeds.
OnAdd ==
  /\ Take({"add"})
  /\ hand' = Head(notes).event
  /\ count' = [count EXCEPT !.received = @ + 1]

OnUpdateOrDelete ==
  /\ Take({"update", "delete"})
  /\ UNCHANGED handler

\* Mutant: an event that does not fit is counted both as failed and as sent.
NoReturn ==
  /\ hand # None
  /\ IF Len(buffer) < BufferLimit
     THEN /\ buffer' = Append(buffer, hand)
          /\ count' = [count EXCEPT !.sent = @ + 1]
          /\ UNCHANGED lost
     ELSE /\ count' = [count EXCEPT !.failed = @ + 1, !.sent = @ + 1]
          /\ lost' = [lost EXCEPT !.refused = @ \cup {hand}]
          /\ UNCHANGED buffer
  /\ hand' = None
  /\ UNCHANGED <<cluster, main, sender, network>>

\* Mutant: the limit is off by one.
OneMore ==
  /\ hand # None
  /\ IF Len(buffer) <= BufferLimit
     THEN /\ buffer' = Append(buffer, hand)
          /\ count' = [count EXCEPT !.sent = @ + 1]
          /\ UNCHANGED lost
     ELSE /\ count' = [count EXCEPT !.failed = @ + 1]
          /\ lost' = [lost EXCEPT !.refused = @ \cup {hand}]
          /\ UNCHANGED buffer
  /\ hand' = None
  /\ UNCHANGED <<cluster, main, sender, network>>

\* sendToFluent and appendBuffer: a full channel is an error, never a wait.
Post ==
  /\ hand # None
  /\ IF Len(buffer) < BufferLimit
     THEN /\ buffer' = Append(buffer, hand)
          /\ count' = [count EXCEPT !.sent = @ + 1]
          /\ UNCHANGED lost
     ELSE /\ count' = [count EXCEPT !.failed = @ + 1]
          /\ lost' = [lost EXCEPT !.refused = @ \cup {hand}]
          /\ UNCHANGED buffer
  /\ hand' = None
  /\ UNCHANGED <<cluster, main, sender, network>>

-----------------------------------------------------------------------------
(***************************************************************************)
(* The sender: run() takes a message, write() tries MaxRetry times.        *)
(***************************************************************************)
Idle == sending = None

run ==
  /\ Idle /\ buffer # <<>>
  /\ sending' = Head(buffer) /\ tries' = 0
  /\ buffer' = Tail(buffer)
  /\ UNCHANGED <<cluster, main, handler, conn, network, lost>>

Trying == sending # None /\ tries < MaxRetry

connect ==
  /\ Trying /\ ~conn
  /\ conn' = TRUE
  /\ UNCHANGED <<cluster, main, handler, buffer, sending, tries, network, lost>>

connectFails ==
  /\ "connect" \in AllowedFaults
  /\ Trying /\ ~conn
  /\ tries' = tries + 1
  /\ UNCHANGED <<cluster, main, handler, buffer, sending, conn, network, lost>>

\* Mutant: a message that was written is tried once more.
WriteAgain ==
  /\ Trying /\ conn
  /\ wire' = [wire EXCEPT ![sending] = @ + 1]
  /\ tries' = tries + 1
  /\ UNCHANGED <<cluster, main, handler, buffer, sending, conn, got, lost>>

\* No acknowledgement is asked for: written is done.
write ==
  /\ Trying /\ conn
  /\ wire' = [wire EXCEPT ![sending] = @ + 1]
  /\ sending' = None /\ tries' = 0
  /\ UNCHANGED <<cluster, main, handler, buffer, conn, got, lost>>

\* Mutant: a new connection starts the attempts anew.
ForgetTries ==
  /\ "write" \in AllowedFaults
  /\ Trying /\ conn
  /\ conn' = FALSE
  /\ tries' = 0
  /\ UNCHANGED <<cluster, main, handler, buffer, sending, network, lost>>

\* Part of the message may have been written; fluent-bit drops it with the
\* connection, which is closed.
writeFails ==
  /\ "write" \in AllowedFaults
  /\ Trying /\ conn
  /\ conn' = FALSE
  /\ tries' = tries + 1
  /\ UNCHANGED <<cluster, main, handler, buffer, sending, network, lost>>

\* Mutant: the goroutine ends at the first message it cannot send.
StopSending ==
  /\ sending # None /\ tries = MaxRetry
  /\ UNCHANGED vars

\* run() writes a line to stderr and goes on with the next message.
giveUp ==
  /\ sending # None /\ tries = MaxRetry
  /\ lost' = [lost EXCEPT !.dropped = @ \cup {sending}]
  /\ sending' = None /\ tries' = 0
  /\ UNCHANGED <<cluster, main, handler, buffer, conn, network>>

(***************************************************************************)
(* The network and fluent-bit (external).                                  *)
(***************************************************************************)
Arrive(e) ==
  /\ wire[e] > 0
  /\ wire' = [wire EXCEPT ![e] = @ - 1]
  /\ got' = [got EXCEPT ![e] = @ + 1]
  /\ UNCHANGED <<cluster, main, handler, buffer, sender, lost>>

Vanish(e) ==
  /\ "wire" \in AllowedFaults
  /\ wire[e] > 0
  /\ wire' = [wire EXCEPT ![e] = @ - 1]
  /\ lost' = [lost EXCEPT !.dropped = @ \cup {e}]
  /\ UNCHANGED <<cluster, main, handler, buffer, sender, got>>

-----------------------------------------------------------------------------
(***************************************************************************)
(* main(): a signal closes stopCh.                                         *)
(***************************************************************************)
Signal ==
  /\ phase = "running"
  /\ phase' = "stopping"
  /\ UNCHANGED <<cluster, lives, handler, buffer, sender, network, lost>>

\* Mutant: Run does not wait for the handler.
CloseAtOnce ==
  /\ phase = "stopping"
  /\ phase' = "closing"
  /\ notes' = <<>>
  /\ UNCHANGED <<api, store, lives, handler, buffer, sender, network, lost>>

\* Run drops what is still pending and waits for the handler; Close closes the
\* channel.
Close ==
  /\ phase = "stopping" /\ hand = None
  /\ phase' = "closing"
  /\ notes' = <<>>
  /\ UNCHANGED <<api, store, lives, handler, buffer, sender, network, lost>>

\* The sender has emptied the closed channel and ends; the connection is closed.
Exit ==
  /\ phase = "closing" /\ buffer = <<>> /\ Idle
  /\ phase' = "exited"
  /\ conn' = FALSE
  /\ UNCHANGED <<cluster, lives, handler, buffer, sending, tries, network, lost>>

\* The Deployment starts a new process, which lists all events again.
Restart ==
  /\ phase = "exited" \/ "crash" \in AllowedFaults
  /\ lives < MaxLives
  /\ lives' = lives + 1
  /\ store' = {} /\ notes' = <<>>
  /\ phase' = "running"
  /\ hand' = None /\ count' = NoCount
  /\ buffer' = <<>>
  /\ sending' = None /\ tries' = 0 /\ conn' = FALSE
  /\ wire' = Zero /\ got' = Zero /\ lost' = NoLoss
  /\ UNCHANGED api

-----------------------------------------------------------------------------
Handle == OnAdd \/ OnUpdateOrDelete \/ Post
Send == run \/ connect \/ connectFails \/ write \/ writeFails \/ giveUp

Next ==
  \/ \E e \in Events : Happen(e) \/ Expire(e) \/ Watch(e) \/ Repeat(e)
  \/ Handle
  \/ Send
  \/ \E e \in Events : Arrive(e) \/ Vanish(e)
  \/ Signal \/ Close \/ Exit \/ Restart

(***************************************************************************)
(* Go runs the goroutines, a write or a connection ends one way or the     *)
(* other (they have timeouts), and TCP delivers or does not.  Watch waits  *)
(* for room only because of MaxPending and so gets strong fairness.        *)
(***************************************************************************)
Fairness ==
  /\ WF_vars(Handle) /\ WF_vars(Send)
  /\ WF_vars(Close) /\ WF_vars(Exit)
  /\ \A e \in Events : SF_vars(Watch(e)) /\ WF_vars(Arrive(e))

Spec == Init /\ [][Next]_vars /\ Fairness

-----------------------------------------------------------------------------
(***************************************************************************)
(* Properties.                                                             *)
(***************************************************************************)
Maybe == Events \cup {None}

\* Every variable holds a value of its type; the channel holds no more than
\* its capacity.
TypeOK ==
  /\ api \in [Events -> {"none", "stored", "expired"}]
  /\ store \in SUBSET Events
  /\ notes \in Seq([type : {"add", "update", "delete"}, event : Events])
  /\ phase \in {"running", "stopping", "closing", "exited"}
  /\ hand \in Maybe
  /\ count \in [received : Nat, sent : Nat, failed : Nat]
  /\ buffer \in Seq(Events) /\ Len(buffer) <= BufferLimit
  /\ sending \in Maybe /\ tries \in 0..MaxRetry
  /\ conn \in BOOLEAN
  /\ wire \in [Events -> Nat] /\ got \in [Events -> Nat]
  /\ lost \in [refused : SUBSET Events, dropped : SUBSET Events]
  /\ lives \in 1..MaxLives

\* Nothing is posted once main() has closed the channel: Post would panic and
\* what is in the channel would be lost.
NoPostAfterClose == phase \in {"closing", "exited"} => hand = None

Waiting(e) == {i \in 1..Len(buffer) : buffer[i] = e}
Bit(b) == IF b THEN 1 ELSE 0

\* Where an event is.
Places(e) ==
  Bit(hand = e) + Cardinality(Waiting(e)) + Bit(sending = e) + wire[e] + got[e]
    + Bit(e \in lost.refused) + Bit(e \in lost.dropped)

\* An event is never in two places: no retry sends it twice, no new list,
\* update or signal posts it again, and a lost one does not turn up later.
OnePlace == \A e \in Events : Places(e) <= 1

Seen == {e \in Events : Places(e) > 0}

\* The counters tell how many events were received and how many did not fit;
\* "sent" are all the others, those dropped after MaxRetry attempts included.
CountersAgree ==
  /\ count.received = Cardinality(Seen)
  /\ count.failed = Cardinality(lost.refused)
  /\ count.received = count.sent + count.failed + Bit(hand # None)

\* A process forwards an event at most once, whatever fails, and its counters
\* account for every one (OnAdd, Post and write).
Accounted == OnePlace /\ CountersAgree

\* After a signal the process ends, although fluent-bit may not be reachable
\* and the channel may be full: write() gives up.
StopEnds == phase \in {"stopping", "closing"} ~> phase \in {"exited", "running"}

Status(e) ==
  IF got[e] > 0 THEN "delivered"
  ELSE IF e \in lost.refused \cup lost.dropped THEN "lost"
  ELSE IF Places(e) > 0 THEN "received" ELSE "new"

\* An event that stays stored while a process runs, also one that was stored
\* before it, is forwarded or lost in the end: the first list of a process is
\* handed to OnAdd, and Post never waits for fluent-bit.
EventuallyForwarded ==
  \A e \in Events :
    <>[](api[e] = "stored") /\ <>[](phase = "running")
      => <>[](Status(e) \in {"delivered", "lost"})

Abstract == INSTANCE LossyForwarder WITH status <- [e \in Events |-> Status(e)]

\* The pipeline of handler, channel, sender and network implements
\* LossyForwarder: a received event is delivered or lost in the end, and that
\* is final for this process.
DeliveredOrLost == Abstract!Spec

=============================================================================
