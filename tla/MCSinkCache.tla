---------------------------- MODULE MCSinkCache ----------------------------
(* Two goroutines, a namespaced type with references and a cluster-wide    *)
(* type without.                                                           *)
EXTENDS SinkCache

\* A sink that has failed; its outputs hold a value that is no string and no
\* int.  A place not listed is nil.
Failed ==
  [p \in Places |->
     CASE p \in {"inputs", "outputs"} -> "list"
       [] p = "inputs[]" -> {"string"}
       [] p = "outputs[]" -> {"string", "bool"}
       [] p = "lastError" -> "failed"
       [] OTHER -> Nil]

\* One sink of the namespaced type; of the other type there are none.
OneContent(t) == IF t = "MetricSink" THEN {[flat |-> "spec", refs |-> Failed]} ELSE {}

=============================================================================
