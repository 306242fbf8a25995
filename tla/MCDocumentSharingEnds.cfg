CONSTANTS
  NumOrgs = 2
  Doc = {d1}
  User = {u1}
  Request = {r1, r2}
  MaxTransfers = 2
  None = None
SPECIFICATION FairSpec
PROPERTIES
  RequestsEnd
CONSTRAINT NoSupers
