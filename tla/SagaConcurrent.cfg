SPECIFICATION Spec
CONSTANTS
  Callers = {c1, c2}
  Recoverer = recoverer
  Budget <- ConcurrentBudget
SYMMETRY Symmetry
INVARIANT StepExecutedByOne
INVARIANT EffectsAtomic
PROPERTY ImplementsContract
\* the event budgets run out, so the system may stop
CHECK_DEADLOCK FALSE
