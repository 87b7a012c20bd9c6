SPECIFICATION FairSpec
CONSTANTS
  Names = {a}
  Opts = {"o1", "mixed"}
  Unencodable = {"mixed"}
  NotString = NotString
  Default = Default
  ClusterName = "c1"
  Specs <- Encoded
  Absent = Absent
  MaxUid = 2
  MaxPending = 1
  AllowedFaults = {"refused", "lost", "relist", "crash"}
INVARIANTS TypeOK TelegrafComplete PodFollowsConfigMap ProvisionedFirst
PROPERTIES NothingLeft
