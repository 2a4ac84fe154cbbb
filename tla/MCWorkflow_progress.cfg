SPECIFICATION FairSpec
CONSTANTS
  t1 = t1
  q1 = q1
  none = none
  Tasks = {t1}
  Requests = {q1}
  TaskOf <- MCTaskOf
  Deliveries = {}
  KeysOf <- MCKeysOf
  NoObjective = none
  MaxReplan = 3
  MaxRuns = 2
INVARIANT TypeOK
INVARIANT OneExecutionPerRun
INVARIANT CompletedWasExecuted
 
PROPERTY KeepsLifecycle
PROPERTY LoopEnds
PROPERTY WaitingEnds
CHECK_DEADLOCK FALSE
