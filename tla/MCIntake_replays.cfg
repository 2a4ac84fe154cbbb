SPECIFICATION FairIntakeSpec
CONSTANTS
  t1 = t1
  t2 = t2
  t3 = t3
  q1 = q1
  q2 = q2
  h1 = h1
  h2 = h2
  none = none
  Tasks = {t1, t2, t3}
  Requests = {q1, q2}
  TaskOf <- MCTaskOf
  Deliveries = {h1, h2}
  KeysOf <- MCKeysOf
  NoObjective = none
INVARIANT OneJobPerKey
PROPERTY StoredIsQueued
PROPERTY DeliveryEnds
CHECK_DEADLOCK FALSE
