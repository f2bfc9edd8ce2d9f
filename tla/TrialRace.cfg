SPECIFICATION FairSpec
CONSTANTS
  Escalators = {e1, e2}
  Clients = {c1, c2}
  Budget <- RoughBudget
INVARIANT EscalatedOnce
INVARIANT UndisturbedTransfer
PROPERTY OutcomeIsFinal
PROPERTY RentIsFinal
PROPERTY LateTrialSettles
\* nothing happens any more once the trial has ended
CHECK_DEADLOCK FALSE
