SPECIFICATION FairSpec
CONSTANTS
  d1 = d1
  d2 = d2
  c1 = c1
  c2 = c2
  c3 = c3
  r1 = r1
  r2 = r2
  Decisions = {d1, d2}
  Approved = {d1, d2}
  Transfers = {d1}
  Callers = {c1, c2}
  DecisionOf <- MCCallEach
  Rollbacks = {r1}
  RollbackOf <- MCOneRollback
  SlowCallers = {c2}
PROPERTY CompletedLeftOnlyByRollback
PROPERTY NoGhostForever
CHECK_DEADLOCK FALSE
