SPECIFICATION Spec
CONSTANTS
  Slots = {"monday", "tuesday"}
  Scale = 2
  NRows = 4
  SlotOf <- TwoDays
  Hours = {0, 3}
  NoReport = NoReport
  Asked = {0, 3}
  DefaultPageSize = 1
  MaxPageSize = 2
  Budget <- ScanBudget
INVARIANT ReviewsTakenOnce
INVARIANT WalkErrsByMoves
INVARIANT ClientSeesAll
INVARIANT DiffBalances
\* a client has its last page
CHECK_DEADLOCK FALSE
