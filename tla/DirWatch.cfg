SPECIFICATION Spec
CONSTANTS
  Files = {f, g}
  Nested = {g}
  MaxPending = 1
  ChanCap = 1
  MaxStamp <- MCMaxStamp
INVARIANTS
  NothingForgotten
PROPERTIES
  NeverBackwards
  CatchesUp
  StopEnds
