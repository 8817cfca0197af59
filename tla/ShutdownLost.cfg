SPECIFICATION Spec
CONSTANTS
  Queues = {"audit"}
  Capacity <- MCCapacity
  BatchLimit <- MCBatchLimit
  Sources <- MCSources
  Conns = {c1}
  Manager = manager
  MaxSent <- MCMaxSent
INVARIANT NothingLeftInQueue
CHECK_DEADLOCK FALSE
