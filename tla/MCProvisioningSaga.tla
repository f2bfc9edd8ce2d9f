--------------------------- MODULE MCProvisioningSaga ---------------------------
(****************************************************************************)
(* Instances of ProvisioningSaga for TLC: one or two callers, and how often *)
(* each environment event may happen in each run.                           *)
(****************************************************************************)
EXTENDS ProvisioningSaga, TLC

Bound(calls, faults, outages, abandons, crashes, finance, handovers) ==
  [call |-> calls, fault |-> faults, outage |-> outages, abandon |-> abandons,
   crash |-> crashes, finance |-> finance, handover |-> handovers]

RestartBudget    == Bound(3, 2, 0, 1, 2, 0, 1)
ConcurrentBudget == Bound(2, 1, 1, 0, 1, 1, 1)
CrashOnlyBudget  == Bound(2, 0, 0, 0, 1, 0, 0)

Symmetry == Permutations(Callers)
================================================================================
