---------------------------- MODULE MCRecordLifecycle ----------------------------
(****************************************************************************)
(* Instances of RecordLifecycle for TLC.                                    *)
(****************************************************************************)
EXTENDS RecordLifecycle, TLC

Symmetry == Permutations(Calls)

Bound(calls, corrections, reports, faults, crashes) ==
  [call |-> calls, correct |-> corrections, report |-> reports,
   fault |-> faults, crash |-> crashes]

ReviewBudget == Bound(2, 1, 1, 1, 1)
LostBudget   == Bound(1, 1, 0, 0, 0)
================================================================================
