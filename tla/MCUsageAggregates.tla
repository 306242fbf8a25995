--------------------------- MODULE MCUsageAggregates ---------------------------
EXTENDS UsageAggregates

CONSTANTS a1, a2, b1

MCBucketOf == [a \in Answer |-> b1]
=============================================================================
