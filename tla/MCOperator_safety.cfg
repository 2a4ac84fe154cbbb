SPECIFICATION Spec
CONSTANTS
  d1 = d1
  d2 = d2
  c1 = c1
  c2 = c2
  c3 = c3
  r1 = r1
  r2 = r2
  Decisions = {d1, d2}
  Approved = {d1}
  Transfers = {d1}
  Callers = {c1, c2, c3}
  DecisionOf <- MCTwoDecisions
  Rollbacks = {r1, r2}
  RollbackOf <- MCTwoRollbacks
  SlowCallers = {c1, c2, c3}
SYMMETRY MCSymmetry
INVARIANT TypeOK
INVARIANT AtMostOnce
INVARIANT CompletedMeansExecuted
INVARIANT IntentRecorded
INVARIANT ReturnIsHonest
INVARIANT FreshClaim
PROPERTY SingleUse
CHECK_DEADLOCK FALSE
