SPECIFICATION Spec
CONSTANTS
  Names = {a}
  Opts = {"o1", "mixed"}
  Unencodable = {"mixed"}
  NotString = NotString
  Default = Default
  ClusterName = "c1"
  Specs <- OneSpec
  Absent = Absent
  MaxUid = 2
  MaxPending = 1
  AllowedFaults = {}
INVARIANTS Provisioned
CHECK_DEADLOCK FALSE
