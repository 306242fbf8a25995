CONSTANTS
  d1 = d1
  d2 = d2
  n1 = n1
  Doc = {d1, d2}
  Name = {n1}
  NameOf <- MCNameOf
  Instance = {w1}
  Token = {t1, t2}
  Concurrency = 2
  None = None
SPECIFICATION StorageSpec
CONSTRAINT Bound
VIEW View
SYMMETRY Symmetry
INVARIANTS
  StorageTypeOK
  SourceKept
  OwnSource
