SPECIFICATION Spec
CONSTANTS
  Sinks <- OneSink
  Specs = {}
  OneLine = {}
  Absent = Absent
  NoSink = NoSink
  Names = {a, b}
  Opts = {"good", "bad", "mixed"}
  Unencodable = {"mixed"}
  NotString = NotString
  Default = Default
  ClusterName = "c1"
  MetricSpecs <- GoodAndBad
  BadOpts = {"bad"}
  Requests = {r1, r2}
  AllowedFaults = {}
  Missing = Missing
  Empty = Empty
  Mixed = Mixed
INVARIANTS MetricSinksRunnable
