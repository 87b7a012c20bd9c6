SPECIFICATION AdmittedSpec
CONSTANTS
  Sinks <- BothKinds
  Specs <- RefusedButOne
  OneLine = {"", "logs", "hook"}
  Absent = Absent
  NoSink = NoSink
  Pods = {n1}
  ClusterName = "c1"
  MaxPending = 1
  AllowedFaults = {"patch", "missed", "crash"}
  Down = Down
INVARIANTS TypeOK PodsFollowConfigMap ConfigFollowsStore LastWriterPublished SentSafely
