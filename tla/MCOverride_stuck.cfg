SPECIFICATION FairSpec
CONSTANTS
  e1 = e1
  a1 = a1
  a2 = a2
  a3 = a3
  q1 = q1
  q2 = q2
  q3 = q3
  q4 = q4
  q5 = q5
  Escalations = {e1}
  Required <- MCOneOfN
  Admins = {a1, a2, a3}
  Requests = {q1}
  AdminOf <- MCOneAdmin
  TargetOf <- MCOneTarget
  Foreign = {}
PROPERTY LockedIsResolved
CHECK_DEADLOCK FALSE
