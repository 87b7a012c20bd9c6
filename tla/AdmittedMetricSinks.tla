------------------------ MODULE AdmittedMetricSinks ------------------------
(***************************************************************************)
(* The ClusterMetricSink controller behind the validator.                  *)
(*                                                                         *)
(* Only the type rules are checked on the object under review itself.  The *)
(* rest is telegraf's test of a file that all reviews share, and for a     *)
(* sink without outputs the test of a file without its entries: whatever   *)
(* is in the spec, some review may end with "allowed" (module Validator,   *)
(* run validator_race), so nothing is assumed of the test.                 *)
(***************************************************************************)
EXTENDS ClusterMetricController, MetricAdmission

Admission == \A n \in Names : api'[n] \notin {api[n], Absent} => TypesAccepted(api'[n])

AdmittedNext == Next /\ Admission

AdmittedSpec == Init /\ [][AdmittedNext]_vars /\ Fairness

-----------------------------------------------------------------------------
(***************************************************************************)
(* What the stored sinks ask for, entry by entry.                          *)
(***************************************************************************)
AskedInputs  == UNION {{<<n, e.type, e.opts>> : e \in api[n].inputs} : n \in Present(api)}
AskedOutputs == UNION {{<<n, e.type, e.opts>> : e \in api[n].outputs} : n \in Present(api)}

Asked ==
  CASE AskedOutputs = {} -> emptyConfig
    [] AskedOutputs # {} /\ \E s \in AskedInputs \cup AskedOutputs : s[3] \in Unencodable -> noText
    [] OTHER -> [tags |-> GlobalTags, inputs |-> defaultInputs \cup AskedInputs,
                 outputs |-> AskedOutputs]

\* The type rules of validateMetricSinkConfig against the conversion of
\* cluster_config.go, through every queue, patch and pod in between.  No
\* telegraf pod ever scrapes the kubelet by a user's word, and once all is
\* quiet each runs every entry of every stored sink and nothing else:
\* appendInputsAndOutputs, which skips an entry without a type and logs
\* nothing, finds none to skip.  The exceptions: the last patch was refused, a
\* deletion was missed, a restart failed, or the process has crashed.  Without
\* any outputs the file is the deployed one, and one entry that the encoder
\* refuses empties the file of all.
RunsWhatIsStored ==
  /\ \A p \in Pods : pods[p] # Down =>
       \A s \in pods[p].inputs : s[2] = "kubernetes" => s \in defaultInputs
  /\ Quiet /\ Never({"missed", "restart", "crash"}) /\ tried # "refused" =>
       \A p \in Pods : pods[p] \in {Down, Asked}

=============================================================================
