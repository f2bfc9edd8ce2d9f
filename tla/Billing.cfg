SPECIFICATION Spec
CONSTANTS
  Records = {r1}
  NPeriods = 2
  Calls = {c1, c2}
  Seconds = {0, 1}
  Fractions <- HalfSeconds
  PeriodSeconds = 1
  Budget <- BillBudget
SYMMETRY Symmetry
INVARIANT CountedOnce
PROPERTY TotalsMoveForward
PROPERTY IssuedAsShown
PROPERTY BillFollowsTable
\* the event budgets run out, so the system may stop
CHECK_DEADLOCK FALSE
