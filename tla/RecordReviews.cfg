SPECIFICATION Spec
CONSTANTS
  NRecords = 2
  Calls = {c1, c2}
  Hours = {1, 2}
  Budget <- ReviewBudget
SYMMETRY Symmetry
INVARIANT RulingMatchesStatus
INVARIANT DecisionHolds
INVARIANT UndisturbedReview
PROPERTY KeepsContract
PROPERTY RulingOnCurrentHours
PROPERTY AcceptedOnCurrentFacts
\* the event budgets run out, so the system may stop
CHECK_DEADLOCK FALSE
