CONSTANTS
  Doc = {d1}
  Name = {n1}
  NameOf <- MCNameOf
  Instance = {w1, w2}
  Token = {t1, t2}
  Concurrency = 1
  None = None
SPECIFICATION FairSpec
PROPERTIES
  ImplementsLifecycle
  OrphansRecovered
  QueuedEventuallyClaimed
