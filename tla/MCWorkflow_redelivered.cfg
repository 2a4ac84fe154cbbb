SPECIFICATION Spec
CONSTANTS
  t1 = t1
  q1 = q1
  none = none
  Tasks = {t1}
  Requests = {q1}
  TaskOf <- MCTaskOf
  Deliveries = {}
  KeysOf <- MCKeysOf
  NoObjective = none
  MaxReplan = 1
  MaxRuns = 2
INVARIANT OneExecutionPerTask
CHECK_DEADLOCK FALSE
