SPECIFICATION Spec
CONSTANTS
  k1 = k1
  k2 = k2
  Keys <- MCKeys
  Requests = {r1, r2}
  Capacity = 1
  QueueCapacity = 2
  Threshold = 2
  MaxFailures <- MCMaxFailures
  MaxStarts = 2
INVARIANTS PaidFor RestartKeepsSalt
PROPERTIES RotationEarned
CHECK_DEADLOCK FALSE
