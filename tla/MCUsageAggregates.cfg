\* One day, an answer from before the columns and a new one, two raters and the
\* backfill: enough for every wait of one transaction for another.
CONSTANTS
  a1 = a1
  a2 = a2
  b1 = b1
  Answer = {a1, a2}
  Bucket = {b1}
  BucketOf <- MCBucketOf
  Existing = {a1}
  Rater = {f1, f2}
  Backfill = backfill
  MaxRequests = 1
  None = None
SPECIFICATION Spec
INVARIANTS TypeOK BadWithinTotal
PROPERTIES DriftKeptOrRepaired RecountRepairs TransactionsEnd
CHECK_DEADLOCK FALSE
