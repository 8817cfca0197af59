SPECIFICATION Spec
CONSTANTS
  Accounts = {a1}
  Sources = {s1}
  PushTypes = {p1}
  Creds = {c1, c2}
  NoCred = NoCred
  Egresses = {e1}
  Platforms = {plain, generic}
  Modes = {sticky}
  SnapshotRows = 1
  Snapshots <- MCSnapshots
  Threshold = 2
  MaxStreak = 3
  Clears = {k1}
SYMMETRY MCSymmetry
INVARIANTS
  KeysUnique
PROPERTIES
  PushKeepsOtherCredential
  SyncRespectsDeletion
  BoundPlatformFrozen
  BindingsFollowAccounts
  EmptySnapshotGuarded
  ImplementsLife
