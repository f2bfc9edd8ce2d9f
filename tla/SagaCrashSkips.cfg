SPECIFICATION Spec
CONSTANTS
  Callers = {c1}
  Recoverer = recoverer
  Budget <- CrashOnlyBudget
INVARIANT AuditedProvisioningIsComplete
\* the event budgets run out, so the system may stop
CHECK_DEADLOCK FALSE
