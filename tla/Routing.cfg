SPECIFICATION RoutingSpec
CONSTANTS
  Ids = {i1, i2}
  Names = {n1, n2}
  None = None
  Absent = Absent
  Accounts = {x}
  Offered <- MCOffered
  Requests = {q}
  Targets = {"private", "name"}
  Nobody = Nobody
  Direct = Direct
  Nowhere = Nowhere
SYMMETRY MCSymmetry
INVARIANTS
  FailClosed
  BoundStays
  PublicOnly
  AccessAllowed
