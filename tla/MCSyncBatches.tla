----------------------------- MODULE MCSyncBatches -----------------------------
(****************************************************************************)
(* Instances of SyncBatches for TLC.                                        *)
(****************************************************************************)
EXTENDS SyncBatches, TLC

Bound(backfills, staff, faults, outages, crashes, slow) ==
  [backfill |-> backfills, staff |-> staff, fault |-> faults, outage |-> outages,
   crash |-> crashes, slow |-> slow]

DeployedBudget == Bound(2, 1, 1, 0, 1, 1)
OverlapBudget  == Bound(1, 1, 0, 1, 0, 1)

Symmetry == Permutations(Pollers) \cup Permutations(Records)
================================================================================
