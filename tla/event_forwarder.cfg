SPECIFICATION Spec
CONSTANTS
  Events = {e1, e2}
  None = None
  BufferLimit = 1
  MaxRetry = 2
  MaxPending = 2
  MaxLives = 2
  AllowedFaults = {"connect", "write", "wire", "crash"}
INVARIANTS TypeOK NoPostAfterClose Accounted
PROPERTIES StopEnds EventuallyForwarded DeliveredOrLost
CHECK_DEADLOCK FALSE
