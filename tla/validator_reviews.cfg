SPECIFICATION Spec
CONSTANTS
  Sinks <- OneSink
  Specs <- LogSpecs
  OneLine = {"", "logs", "hook", "/in"}
  Absent = Absent
  NoSink = NoSink
  Names = {a}
  Opts = {"good", "bad", "mixed"}
  Unencodable = {"mixed"}
  NotString = NotString
  Default = Default
  ClusterName = "c1"
  MetricSpecs <- MetricSinkSpecs
  BadOpts = {"bad"}
  Requests = {r1, r2}
  AllowedFaults = {"timeout", "disk"}
  Missing = Missing
  Empty = Empty
  Mixed = Mixed
INVARIANTS TypeOK SinksSafe RunnableAlone
PROPERTIES TypeFixed
