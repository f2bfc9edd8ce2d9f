----------------------------- MODULE StateMachines -----------------------------
(****************************************************************************)
(* The status enumerations of internal/domain/status.go and the transition  *)
(* tables every service consults before it writes a status.  A table maps a *)
(* status to the statuses it may move to; a status the Go map lacks has no  *)
(* successor, so its row here is empty.                                     *)
(****************************************************************************)
EXTENDS Naturals

DeploymentStatus ==
  {"draft", "provisioning", "active", "pending_retry", "compensating", "aborted"}

StepStatus == {"pending", "processing", "done", "failed", "compensated"}

TrialStatus == {"pending", "active", "accepted", "overdue", "escalated", "converted"}

RecordStatus ==
  {"pending", "accepted", "conflict", "adjudicated", "manual_verify_pending",
   "verified", "revoked"}

SyncBatchStatus ==
  {"pending", "leasing", "processing", "completed", "failed", "permanent_failure"}

BillStatus == {"draft", "issued", "settled", "voided"}

deploymentTransitions ==
  [draft         |-> {"provisioning"},
   provisioning  |-> {"active", "pending_retry", "compensating"},
   pending_retry |-> {"provisioning", "compensating"},
   compensating  |-> {"aborted", "pending_retry"},
   active        |-> {"pending_retry", "compensating"},
   aborted       |-> {}]

trialTransitions ==
  [pending   |-> {"active"},
   active    |-> {"accepted", "overdue"},
   overdue   |-> {"escalated", "accepted"},
   escalated |-> {"converted", "accepted"},
   converted |-> {},
   accepted  |-> {}]

recordTransitions ==
  [pending               |-> {"accepted", "conflict", "manual_verify_pending", "revoked"},
   accepted              |-> {"verified", "revoked"},
   conflict              |-> {"adjudicated"},
   manual_verify_pending |-> {"verified", "revoked"},
   adjudicated           |-> {},
   verified              |-> {"revoked"},
   revoked               |-> {}]

billTransitions ==
  [draft   |-> {"issued", "voided"},
   issued  |-> {"settled", "voided"},
   settled |-> {"voided"},
   voided  |-> {}]

(* AssertTransition: staying put is always allowed, any other move must be  *)
(* in the table.                                                            *)
AssertTransition(table, src, dst) == src = dst \/ dst \in table[src]
================================================================================
