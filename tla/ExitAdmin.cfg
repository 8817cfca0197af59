SPECIFICATION AdminSpec
CONSTANTS
  Ids = {1, 2}
  Names = {n1, n2}
  None = None
  Absent = Absent
  Accounts = {x}
  Admins = {a}
  Offered <- MCOffered
  MaxBehind = 1
SYMMETRY MCSymmetry
INVARIANTS
  DefaultUsable
  CopiesAgree
  FreshIds
