SPECIFICATION Spec
CONSTANTS
  Names = {a}
  Opts = {"o1", "mixed"}
  Unencodable = {"mixed"}
  NotString = NotString
  Default = Default
  ClusterName = "c1"
  Specs <- TwoSpecs
  Absent = Absent
  MaxUid = 1
  MaxPending = 1
  AllowedFaults = {}
INVARIANTS ServesSpec
CHECK_DEADLOCK FALSE
