--------------------------- MODULE LossyForwarder ---------------------------
(***************************************************************************)
(* What the event-controller promises of a Kubernetes event while one      *)
(* process lives: once received it is either delivered or lost, only one   *)
(* of the two, and only once.  A new process starts from nothing.          *)
(***************************************************************************)
CONSTANT Events

VARIABLE status  \* of each event

Init == status = [e \in Events |-> "new"]

Move(e, from, to) == status[e] = from /\ status' = [status EXCEPT ![e] = to]

Receive(e) == Move(e, "new", "received")
Deliver(e) == Move(e, "received", "delivered")
Lose(e)    == Move(e, "received", "lost")

Forget == status' = [e \in Events |-> "new"]

Next == (\E e \in Events : Receive(e) \/ Deliver(e) \/ Lose(e)) \/ Forget

Safety == Init /\ [][Next]_status

Spec ==
  /\ Safety
  /\ \A e \in Events : WF_status(Deliver(e) \/ Lose(e))

=============================================================================
