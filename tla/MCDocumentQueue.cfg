CONSTANTS
  d1 = d1
  d2 = d2
  n1 = n1
  n2 = n2
  Doc = {d1, d2}
  Name = {n1, n2}
  NameOf <- MCNameOf
  Instance = {w1, w2}
  Token = {t1, t2}
  Concurrency = 2
  None = None
SPECIFICATION Spec
INVARIANTS
  TypeOK
  LeaseConsistent
  ChunksIffReady
  RevokedNeverPublishes
  WithinConcurrency
PROPERTIES
  WithdrawnStaysWithdrawn
SYMMETRY Symmetry
