SPECIFICATION Spec
CONSTANTS
  Accounts = {a1, a2}
  Window = 4
  Interval = 2
  Lag = 1
  MaxStamp = 2
INVARIANTS
  WindowSuffices
PROPERTIES
  NeverBackwards
  CatchesUp
