SPECIFICATION Spec
CONSTANTS
  Options <- MCOptions
  Policies <- MCPolicies
  MaxPolicies = 3
INVARIANT RowIsVerdict
INVARIANT EveryPolicyCounts
INVARIANT LimitsBind
INVARIANT StoresAgree
CHECK_DEADLOCK FALSE
