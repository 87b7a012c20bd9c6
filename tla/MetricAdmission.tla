-------------------------- MODULE MetricAdmission --------------------------
(***************************************************************************)
(* pkg/webhook/server.go: the rules by which the validator answers a       *)
(* review of a MetricSink or ClusterMetricSink.                            *)
(***************************************************************************)
EXTENDS TelegrafConfig

CONSTANT BadOpts  \* options telegraf --test refuses

ASSUME BadOptsAssumption == BadOpts \subseteq Opts

\* Mutant: the types of the outputs are left to telegraf.
OnlyInputs(spec) == \A e \in spec.inputs : e.type \notin {NotString, "kubernetes"}

TypesAccepted(spec) ==
  /\ \A e \in spec.inputs \cup spec.outputs : e.type # NotString
  /\ \A e \in spec.inputs : e.type # "kubernetes"

\* A Config of this one sink, without a cluster name, with the default inputs.
configOf(n, spec) ==
  telegrafConfig({}, {<<Default, "kubernetes", Default>>} \cup appendInputsAndOutputs(n, spec.inputs),
                 appendInputsAndOutputs(n, spec.outputs))

\* telegraf --test (external): it refuses a text without inputs, and options
\* it does not know.
Valid(conf) ==
  /\ conf.inputs # {}
  /\ \A e \in conf.inputs \cup conf.outputs : e[3] \notin BadOpts

=============================================================================
