SPECIFICATION Spec
CONSTANTS
  s1 = s1
  s2 = s2
  c1 = c1
  c2 = c2
  Sessions = {s1}
  Calls <- MCCalls
  Tools <- MCTools
  Limit <- MCLimit
  MaxCalls = 3
  MaxInits = 0
INVARIANTS BudgetPerSession
