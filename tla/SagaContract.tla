------------------------------ MODULE SagaContract ------------------------------
(****************************************************************************)
(* What the provisioning saga promises, without callers, versions or        *)
(* statements.  A deployment order has a status that follows the deployment *)
(* transition table, and a ledger with one entry per saga step: "open"      *)
(* until the step's business effect is committed, then "committed", then    *)
(* possibly "reversed" by compensation.  An entry never goes back, so no    *)
(* effect is ever produced twice and no reversed step is ever re-run.  The  *)
(* trial row appears in the very step that commits activate_trial and the   *)
(* first-round inspection in the one that commits dispatch_inspection.      *)
(****************************************************************************)
EXTENDS StateMachines

CONSTANT Steps   \* the names of the saga's steps

VARIABLES status, ledger, trial, inspection

vars == <<status, ledger, trial, inspection>>

Entry == {"open", "committed", "reversed"}

InspectionState == {"none", "dispatched", "cancelled"}

Init ==
  /\ status = "draft"
  /\ ledger = [s \in Steps |-> "open"]
  /\ trial = FALSE
  /\ inspection = "none"

Move ==
  /\ status' \in deploymentTransitions[status]
  /\ UNCHANGED <<ledger, trial, inspection>>

(* A step commits once its order has left draft (and, when Provision races  *)
(* Compensate, even after it was aborted); its effect is part of the same   *)
(* transaction.                                                             *)
Commit(s) ==
  /\ ledger[s] = "open"
  /\ status # "draft"
  /\ ledger' = [ledger EXCEPT ![s] = "committed"]
  /\ trial' = (trial \/ s = "activate_trial")
  /\ inspection' = IF s = "dispatch_inspection" THEN "dispatched" ELSE inspection
  /\ UNCHANGED status

Reverse(s) ==
  /\ ledger[s] = "committed"
  /\ status \in {"compensating", "aborted"}
  /\ ledger' = [ledger EXCEPT ![s] = "reversed"]
  /\ UNCHANGED <<status, trial, inspection>>

(* Compensation cancels the inspection before it marks the step reversed.   *)
CancelInspection ==
  /\ inspection = "dispatched"
  /\ status \in {"compensating", "aborted"}
  /\ inspection' = "cancelled"
  /\ UNCHANGED <<status, ledger, trial>>

Next ==
  \/ Move
  \/ \E s \in Steps : Commit(s) \/ Reverse(s)
  \/ CancelInspection

Spec == Init /\ [][Next]_vars
================================================================================
