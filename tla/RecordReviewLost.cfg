SPECIFICATION Spec
CONSTANTS
  NRecords = 1
  Calls = {c1, c2}
  Hours = {1}
  Budget <- LostBudget
INVARIANT ReviewIsApplied
CHECK_DEADLOCK FALSE
