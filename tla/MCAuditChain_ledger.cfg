SPECIFICATION FairSpec
CONSTANTS
  ta = ta
  tb = tb
  k1 = k1
  k2 = k2
  none = none
  Tenants = {ta, tb}
  Rows <- MCRows
  TenantOf <- MCTenants
  Workers = {k1, k2}
  None = none
  MaxTime = 2
  Skew = 1
  Batch = 2
  DayLength = 2
  MaxFaults = 1
  MaxOverlaps = 1
INVARIANT NoFork
PROPERTY AtomicAppends
INVARIANT NoGap
INVARIANT RepeatsAccountedFor
PROPERTY EveryRowCopied
CHECK_DEADLOCK FALSE
