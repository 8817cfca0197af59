SPECIFICATION Spec
CONSTANTS
  Jobs = {j1, j2}
  NoJob = NoJob
  MaxWrites = 3
INVARIANTS
  GuardedCurrent
  BindingsFollowRegistry
PROPERTIES
  NeverBackwards
  ChangesShow
