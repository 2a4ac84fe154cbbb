SPECIFICATION FairSpec
CONSTANTS
  w1 = w1
  k1 = k1
  j1 = j1
  j2 = j2
  j3 = j3
  Windows = {w1}
  Quotas = {k1}
  Jobs = {j1, j2, j3}
  QuotaOf <- MCQuotaOf
  Limit = 2
  MaxConcurrent = 2
  Lifetime = 2
  MaxFaults = 2
INVARIANT PositiveRunsOut
INVARIANT SlidingBound
INVARIANT QuotaHeld
PROPERTY Reopens
PROPERTY EveryJobEnds
CHECK_DEADLOCK FALSE
