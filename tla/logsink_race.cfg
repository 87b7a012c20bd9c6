SPECIFICATION Spec
CONSTANTS
  Sinks <- BothKinds
  Specs <- OneSpec
  OneLine = {"", "logs"}
  Absent = Absent
  NoSink = NoSink
  Pods = {n1}
  ClusterName = ""
  MaxPending = 1
  AllowedFaults = {}
  Down = Down
INVARIANTS OutputsMatchApi
