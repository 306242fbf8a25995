CONSTANTS
  Creator = u1
  User = {u1, u2, u3}
  Row = {m1, m2, m3}
  Request = {r1, r2}
  None = None
SPECIFICATION Spec
INVARIANTS
  TypeOK
  ManagerRemains
PROPERTIES
  ChangesByManagers
  AcceptedStaysAccepted
SYMMETRY Symmetry
