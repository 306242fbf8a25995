CONSTANTS
  NumOrgs = 3
  Doc = {d1}
  User = {u1}
  Request = {r1, r2}
  MaxTransfers = 2
  None = None
SPECIFICATION Spec
INVARIANTS
  TypeOK
  OwnerNeverShared
  TransfersChain
  OnlySharesDeadlock
PROPERTIES
  AuthorizedAtCommit
SYMMETRY Symmetry
