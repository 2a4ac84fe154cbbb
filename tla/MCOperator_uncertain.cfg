SPECIFICATION Spec
CONSTANTS
  d1 = d1
  d2 = d2
  c1 = c1
  c2 = c2
  c3 = c3
  r1 = r1
  r2 = r2
  Decisions = {d1}
  Approved = {d1}
  Transfers = {d1}
  Callers = {c1}
  DecisionOf <- MCOneCall
  Rollbacks = {}
  RollbackOf <- MCNoRollback
  SlowCallers = {}
INVARIANT UncertainOutcomeIsReviewed
CHECK_DEADLOCK FALSE
