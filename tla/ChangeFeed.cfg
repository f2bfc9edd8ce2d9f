SPECIFICATION Spec
CONSTANTS
  Orders = {o1, o2}
  Sequences = {1, 2}
  Asked = {0, 2, 3}
  DefaultPageSize = 1
  MaxPageSize = 2
  Budget <- FeedBudget
INVARIANT VersionsDistinct
INVARIANT NothingPassed
INVARIANT CursorsExact
PROPERTY EverythingPulled
\* every record may be stored and pulled, and every rebuild done
CHECK_DEADLOCK FALSE
