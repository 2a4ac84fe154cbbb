SPECIFICATION Spec
CONSTANTS
  v1 = v1
  v2 = v2
  v3 = v3
  e1 = e1
  e2 = e2
  e3 = e3
  r1 = r1
  r2 = r2
  r3 = r3
  none = none
  None = none
  Versions = {v1, v2, v3}
  Evals = {e1, e2, e3}
  FileOf <- MCFileOf
  Rollbacks = {r1, r2, r3}
  TargetOf <- MCTargetOf
INVARIANT NeverBare
INVARIANT SoleActive
PROPERTY OnlyNamed
CHECK_DEADLOCK FALSE
