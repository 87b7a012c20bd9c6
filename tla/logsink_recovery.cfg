SPECIFICATION FairSpec
CONSTANTS
  Sinks <- TwoLogSinks
  Specs <- Unrendered
  OneLine = {"", "hook"}
  Absent = Absent
  NoSink = NoSink
  Pods = {n1}
  ClusterName = ""
  MaxPending = 1
  AllowedFaults = {"restart", "crash"}
  Down = Down
INVARIANTS OutputsRecovered NoCrosstalk
PROPERTIES EventuallyLoaded PublishesEverything
