SPECIFICATION AdmittedSpec
CONSTANTS
  Names = {a, b}
  Opts = {"good", "mixed"}
  Unencodable = {"mixed"}
  BadOpts = {}
  NotString = NotString
  Default = Default
  ClusterName = "c1"
  Specs <- SomeSpecs
  Absent = Absent
  Pods = {n1}
  Down = Down
  MaxPending = 1
  MaxFaults = 2
  AllowedFaults = {"patch", "restart", "missed", "crash"}
INVARIANTS TypeOK PodsFollowConfigMap Published RunsWhatIsStored
PROPERTIES TouchRepairs PublishesEverything
