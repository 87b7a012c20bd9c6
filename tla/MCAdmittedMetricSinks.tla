----------------------- MODULE MCAdmittedMetricSinks -----------------------
(***************************************************************************)
(* An instance of AdmittedMetricSinks for TLC.                             *)
(***************************************************************************)
EXTENDS AdmittedMetricSinks

cpu == [type |-> "cpu", opts |-> "good"]
mixed == [type |-> "cpu", opts |-> "mixed"]
kubelet == [type |-> "kubernetes", opts |-> "good"]
datadog == [type |-> "datadog", opts |-> "good"]
untyped == [type |-> NotString, opts |-> "good"]

\* Two sinks the validator admits, the second one able to empty the file of
\* both, and two it refuses.
SomeSpecs == {[inputs |-> {cpu}, outputs |-> {datadog}],
              [inputs |-> {mixed}, outputs |-> {}],
              [inputs |-> {kubelet}, outputs |-> {datadog}],
              [inputs |-> {cpu}, outputs |-> {datadog, untyped}]}

=============================================================================
