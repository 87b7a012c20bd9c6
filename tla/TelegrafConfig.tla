--------------------------- MODULE TelegrafConfig ---------------------------
(***************************************************************************)
(* pkg/metric/cluster_config.go: the conversion from metric sinks to the   *)
(* text of a telegraf configuration file.                                  *)
(*                                                                         *)
(* A spec holds two sets of plugin entries; an entry has a type, and opts  *)
(* stands for its other keys.  The TOML text is the set of plugin sections *)
(* it holds, labelled with the sink whose spec asked for them, so that two *)
(* equal entries of two sinks stay two sections, as append leaves them.    *)
(***************************************************************************)
CONSTANTS Names,        \* names of metric sinks
          Opts,         \* the options of a plugin, other than its type
          Unencodable,  \* those of them the TOML encoder refuses, such as mixed lists
          NotString,    \* an entry whose "type" is missing or not a string
          Default,      \* the label and the options of the default inputs
          ClusterName   \* label pks-system/cluster.name of the first node

Entry == [type : STRING \cup {NotString}, opts : Opts]

MetricSinkSpec == [inputs : SUBSET Entry, outputs : SUBSET Entry]

\* One label for the sections of every sink, one of its own for the defaults.
ASSUME NamesAssumption ==
  /\ Default \notin Names /\ Default \notin Opts
  /\ Unencodable \subseteq Opts
  /\ ClusterName \in STRING

\* An entry without a string type is skipped.
appendInputsAndOutputs(label, entries) ==
  {<<label, e.type, e.opts>> : e \in {x \in entries : x.type # NotString}}

GlobalTags == IF ClusterName = "" THEN {} ELSE {ClusterName}

emptyConfig == [tags    |-> {},
                inputs  |-> {<<Default, "cpu", Default>>},
                outputs |-> {<<Default, "discard", Default>>}]

\* An error of the encoder leaves no text at all.
noText == [tags |-> {}, inputs |-> {}, outputs |-> {}]

Encodable(entries) == \A e \in entries : e[3] \notin Unencodable

\* Mutant: a configuration without outputs is written as it is.
AsItIs(tags, inputs, outputs) ==
  IF Encodable(inputs \cup outputs)
  THEN [tags |-> tags, inputs |-> inputs, outputs |-> outputs]
  ELSE noText

telegrafConfig(tags, inputs, outputs) ==
  IF inputs = {} \/ outputs = {}
  THEN emptyConfig
  ELSE IF Encodable(inputs \cup outputs)
  THEN [tags |-> tags, inputs |-> inputs, outputs |-> outputs]
  ELSE noText

\* The configuration of one MetricSink's telegraf: it scrapes the pods of its
\* own namespace (getTelegrafConfigMap, metricSinkConfig).
metricSinkConfig(n, spec) ==
  telegrafConfig(GlobalTags,
                 {<<Default, "prometheus", Default>>} \cup appendInputsAndOutputs(n, spec.inputs),
                 appendInputsAndOutputs(n, spec.outputs))

=============================================================================
