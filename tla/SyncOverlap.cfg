SPECIFICATION Spec
CONSTANTS
  Pollers = {p1, p2}
  NBatches = 1
  Records = {r1, r2}
  MaxRetries = 2
  PageSize = 1
  Budget <- OverlapBudget
SYMMETRY Symmetry
INVARIANT CompletedIsComplete
INVARIANT LeaseIsExclusive
INVARIANT DeadLetterIsListed
PROPERTY RecordsFollowTable
