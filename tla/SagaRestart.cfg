SPECIFICATION FairSpec
CONSTANTS
  Callers = {c1}
  Recoverer = recoverer
  Budget <- RestartBudget
INVARIANT UninterruptedIsComplete
INVARIANT StepsCommitInOrder
INVARIANT AbortedMeansReversed
INVARIANT AuditedAbortIsFinal
PROPERTY InterruptedOrderResolved
\* the event budgets run out, so the system may stop
CHECK_DEADLOCK FALSE
