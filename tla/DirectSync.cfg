SPECIFICATION Spec
CONSTANTS
  Sources = {s1}
  Admins = {a1}
  Scheduler = sched
  Readers = {r1, r2}
  Paths = {path}
  NoPath = nopath
  Nobody = nobody
  MaxConfigs = 2
  WakeSize = 1
INVARIANTS
  OneInside
  OneReader
  ReadersMatchRows
  NoReaderAfterRun
PROPERTIES
  OnlyCurrentWritten
  RequestsEnd
  RunEnds
CHECK_DEADLOCK FALSE
