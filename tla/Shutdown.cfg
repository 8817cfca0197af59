SPECIFICATION Spec
CONSTANTS
  Queues = {"audit", "updates"}
  Capacity <- MCCapacity
  BatchLimit <- MCBatchLimit
  Sources <- MCSources
  Conns = {c1}
  Manager = manager
  MaxSent <- MCMaxSent
INVARIANTS
  EventsInOrder
  BufferedAreWritten
  ExitWaits
PROPERTIES
  EveryEventWritten
  StopEnds
CHECK_DEADLOCK FALSE
