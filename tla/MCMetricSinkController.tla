----------------------- MODULE MCMetricSinkController -----------------------
(***************************************************************************)
(* Instances of MetricSinkController for TLC.                              *)
(***************************************************************************)
EXTENDS MetricSinkController

cpu == [type |-> "cpu", opts |-> "o1"]
datadog == [type |-> "datadog", opts |-> "o1"]
untyped == [type |-> NotString, opts |-> "o1"]
mixed == [type |-> "datadog", opts |-> "mixed"]

toDatadog == [inputs |-> {cpu}, outputs |-> {datadog}]
noOutput == [inputs |-> {cpu}, outputs |-> {untyped}]
unencodable == [inputs |-> {cpu}, outputs |-> {datadog, mixed}]

OneSpec == {toDatadog}
TwoSpecs == {toDatadog, noOutput}
Encoded == {toDatadog, unencodable}

=============================================================================
