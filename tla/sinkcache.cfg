SPECIFICATION Spec
CONSTANTS
  Clients = {c1, c2}
  Readers = {c1}
  Types = {"MetricSink", "ClusterLogSink"}
  Namespaced = {"MetricSink"}
  None = None
  Nil = Nil
  Contents <- OneContent
  MaxChanges = 2
INVARIANTS SharedInformer WaitAnswers CacheUntouched
PROPERTIES WaitReturns ListerCatchesUp
