SPECIFICATION Spec
CONSTANTS
  Accounts = {a1}
  Sources = {s1}
  PushTypes = {p1}
  Creds = {c1}
  NoCred = NoCred
  Egresses = {e1, e2}
  Platforms = {plain, generic}
  Modes = {sticky, random}
  SnapshotRows = 2
  Snapshots <- MCSnapshots
  Threshold = 2
  MaxStreak = 3
  Clears = {}
INVARIANT OneModePerAccount
