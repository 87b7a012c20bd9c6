-------------------------- MODULE AdmittedLogSinks --------------------------
(***************************************************************************)
(* The sink-controller behind the validator: the API server stores only    *)
(* the log sinks that validateLogSinkConfigRequest allows (module          *)
(* Validator shows that races of reviews do not get around it).  Deletions *)
(* are not reviewed.                                                       *)
(***************************************************************************)
EXTENDS LogSinkController, SinkAdmission

Admission(s, v) == v = Absent \/ validateLogSinkConfigRequest(api[s], v)

AdmittedNext ==
  \/ \E s \in Sinks, v \in Specs \cup {Absent} : SetSink(s, v) /\ Admission(s, v)
  \/ System

AdmittedSpec == Init /\ [][AdmittedNext]_vars

\* No record leaves a fluent-bit pod unencrypted, or for a port out of range:
\* every section a pod has loaded, however old the pod and whatever failed
\* since, is the null output or safe.  It takes both the validator's rules,
\* with their limits, and the rendering.
SentSafely ==
  \A p \in Pods : pods[p] # Down =>
    \A o \in pods[p].outputs : o[1] # NoSink => Safe(o[2])

=============================================================================
