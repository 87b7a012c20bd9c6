-------------------------- MODULE ConfigPublisher --------------------------
(***************************************************************************)
(* What one handler promises of the ConfigMap it writes while it is the    *)
(* only handler at work (patchConfig of pkg/sink, ClusterController of     *)
(* pkg/metric): every change of its Config is published, in order, before  *)
(* the next one is made, and a change whose patch was refused is published *)
(* with the next one.  A restart forgets the Config but leaves the         *)
(* published text alone.                                                   *)
(***************************************************************************)
CONSTANTS Keys,       \* the sinks
          Values,     \* their specs
          Absent,     \* no sink
          Deployed,   \* the text as first deployed
          Refusable,  \* whether a patch may be refused
          Text(_)     \* the text of a Config

VARIABLES cfg,    \* the Config
          out,    \* the text the ConfigMap holds
          dirty   \* a change has been made and no patch been tried since

vars == <<cfg, out, dirty>>

Empty == [k \in Keys |-> Absent]

Init == cfg = Empty /\ out = Deployed /\ dirty = FALSE

\* The same value again is a change too: a handler publishes whenever it is told.
Change(k, v) ==
  /\ ~dirty
  /\ cfg' = [cfg EXCEPT ![k] = v]
  /\ dirty' = TRUE
  /\ UNCHANGED out

Publish ==
  /\ dirty
  /\ out' = Text(cfg)
  /\ dirty' = FALSE
  /\ UNCHANGED cfg

GiveUp ==
  /\ Refusable
  /\ dirty
  /\ dirty' = FALSE
  /\ UNCHANGED <<cfg, out>>

Forget ==
  /\ cfg' = Empty
  /\ dirty' = FALSE
  /\ UNCHANGED out

Next ==
  \/ \E k \in Keys, v \in Values \cup {Absent} : Change(k, v)
  \/ Publish \/ GiveUp \/ Forget

Safety == Init /\ [][Next]_vars

Spec == Safety /\ WF_vars(Publish \/ GiveUp)

=============================================================================
