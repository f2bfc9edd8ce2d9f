---------------------------- MODULE ProvisioningSaga ----------------------------
(****************************************************************************)
(* One deployment order going through DeploymentService.Provision and       *)
(* .Compensate (internal/service/deployment_service.go) while HTTP callers, *)
(* the recovery pass of a restarted server, the trial service and finance   *)
(* touch the same rows.                                                     *)
(*                                                                          *)
(* The store runs one SQL statement, or one InTx transaction, at a time     *)
(* (max_open_conns is 1 and SQLite serialises writers), so every action     *)
(* below is one statement or one transaction; everything between two of     *)
(* them can interleave.  A caller keeps what it read in call[a].            *)
(****************************************************************************)
EXTENDS StateMachines, Sequences, FiniteSets

CONSTANTS
  Callers,    \* concurrent HTTP requests on this order
  Recoverer,  \* the recovery pass at server start
  Budget      \* how often each kind of environment event may happen

Events == {"call", "fault", "outage", "abandon", "crash", "finance", "handover"}

ASSUME RecovererAssumption == Recoverer \notin Callers
ASSUME BudgetAssumption == Budget \in [Events -> Nat]

VARIABLES
  order,       \* deployment_orders: status, version, whether trial_id is set
  step,        \* deployment_steps: status and version of each saga step
  trial,       \* a trial_periods row of the order exists
  inspection,  \* the round-1 inspections row, or "none"
  bill,        \* the period-1 reconciliation_bills row, or status "none"
  devices,     \* deployment_devices rows of the order exist
  audit,       \* the audit actions recorded so far
  call,        \* what each actor is doing, and the rows it has read
  budget       \* what is left of Budget

rows == <<order, step, trial, inspection, bill, devices, audit>>
vars == <<rows, call, budget>>

OrderedSteps ==
  <<"register_order", "bind_devices", "activate_trial", "dispatch_inspection",
    "generate_bill">>

Steps == {"register_order", "bind_devices", "activate_trial",
          "dispatch_inspection", "generate_bill"}

Last == 5
Actors == Callers \cup {Recoverer}

Committed == {"done", "compensated"}   \* statuses after a step's transaction

--------------------------------------------------------------------------------
(* Actors and their captured rows.                                          *)

ProvisionPC == {"get", "claim", "reload", "list", "step", "exec", "mark_failed",
                "bump_retry", "reget", "pend", "activate"}
CompensatePC == {"c_get", "c_claim", "c_list", "c_step", "c_void", "c_mark",
                 "c_abort"}

NewSteps == [s \in Steps |-> [status |-> "pending", version |-> 1]]

Idle == [pc |-> "idle", status |-> "draft", version |-> 0, seen |-> NewSteps,
         at |-> 0, held |-> 0]

Start(pc) == [Idle EXCEPT !.pc = pc]

(* Keep only the position in the code and the order row just read.          *)
ReadOrder(a, pc) ==
  [call EXCEPT ![a] = [@ EXCEPT !.pc = pc, !.status = order.status,
                                !.version = order.version]]

Goto(a, pc) == call' = [call EXCEPT ![a] = [@ EXCEPT !.pc = pc]]
Return(a) == call' = [call EXCEPT ![a] = Idle]

Spend(e) == budget[e] > 0 /\ budget' = [budget EXCEPT ![e] = @ - 1]

Current(a) == OrderedSteps[call[a].at]
Seen(a, k) == call[a].seen[OrderedSteps[k]].status

(* Mutant: UPDATE ... WHERE id = ? alone.                                   *)
AnyStatusMatches(from, v) == TRUE

(* UpdateStatus: WHERE id = ? AND status = from AND version = v.            *)
StatusMatches(from, v) == order.status = from /\ order.version = v

SetStatus(to) == order' = [order EXCEPT !.status = to, !.version = @ + 1]
SetStep(s, to) == step' = [step EXCEPT ![s] = [status |-> to, version |-> @.version + 1]]

--------------------------------------------------------------------------------
Init ==
  /\ order = [status |-> "draft", version |-> 1, trial_id |-> FALSE]
  /\ step = NewSteps
  /\ trial = FALSE
  /\ inspection = "none"
  /\ bill = [status |-> "none", version |-> 0]
  /\ devices = TRUE
  /\ audit = {}
  /\ call = [a \in Actors |-> Idle]
  /\ budget = Budget

(* A request reaches the server; the recovery pass runs before the listener *)
(* is up.                                                                   *)
StartCall(c) ==
  /\ call[c].pc = "idle"
  /\ call[Recoverer].pc = "idle"
  /\ \E pc \in {"get", "c_get"} : call' = [call EXCEPT ![c] = Start(pc)]
  /\ Spend("call")
  /\ UNCHANGED rows

--------------------------------------------------------------------------------
(* Provision.                                                               *)

GetOrder(a) ==
  /\ call[a].pc = "get"
  /\ IF /\ order.status \notin {"active", "aborted", "compensating"}
        /\ AssertTransition(deploymentTransitions, order.status, "provisioning")
     THEN call' = ReadOrder(a, "claim")
     ELSE Return(a)
  /\ UNCHANGED <<rows, budget>>

ClaimOrder(a) ==
  /\ call[a].pc = "claim"
  /\ IF StatusMatches(call[a].status, call[a].version)
     THEN SetStatus("provisioning") /\ Goto(a, "reload")
     ELSE UNCHANGED order /\ Return(a)
  /\ UNCHANGED <<step, trial, inspection, bill, devices, audit, budget>>

ReloadOrder(a) ==
  /\ call[a].pc = "reload"
  /\ call' = ReadOrder(a, "list")
  /\ UNCHANGED <<rows, budget>>

ListSteps(a) ==
  /\ call[a].pc = "list"
  /\ call' = [call EXCEPT ![a] = [@ EXCEPT !.pc = "step", !.seen = step, !.at = 1]]
  /\ UNCHANGED <<rows, budget>>

(* Step k is the first one from the caller's position on that its list      *)
(* shows unfinished.                                                        *)
NextUnfinished(a, k) ==
  /\ Seen(a, k) \notin Committed
  /\ \A j \in call[a].at .. (k - 1) : Seen(a, j) \in Committed

(* Mutant: the claim is not guarded by the listed version.                  *)
ClaimableAtAnyVersion(a, s) == step[s].status \notin Committed

(* WHERE id = ? AND status IN (pending, failed) AND version = v.            *)
Claimable(a, s) ==
  /\ step[s].version = call[a].seen[s].version
  /\ step[s].status \in {"pending", "failed"}

(* MarkProcessing claims the next unfinished step; on a conflict the loop   *)
(* moves on to the one after it.                                            *)
MarkProcessing(a) ==
  /\ call[a].pc = "step"
  /\ \E k \in call[a].at .. Last :
       /\ NextUnfinished(a, k)
       /\ LET s == OrderedSteps[k] IN
          IF Claimable(a, s)
          THEN /\ SetStep(s, "processing")
               /\ call' = [call EXCEPT ![a] = [@ EXCEPT !.pc = "exec", !.at = k,
                                                        !.held = step[s].version + 1]]
          ELSE /\ UNCHANGED step
               /\ call' = [call EXCEPT ![a] = [@ EXCEPT !.at = k + 1]]
  /\ UNCHANGED <<order, trial, inspection, bill, devices, audit, budget>>

(* execStep can only succeed if the devices are still bound, and LinkTrial  *)
(* only if the order still has the version read before the loop.            *)
Executable(a, s) ==
  /\ step[s].version = call[a].held
  /\ s = "bind_devices" => devices
  /\ s = "activate_trial" => trial \/ order.version = call[a].version

(* Any error of MarkProcessing counts as a conflict: the loop skips the     *)
(* step, which is left claimed if only the read after the UPDATE failed.    *)
ClaimErrors(a) ==
  /\ call[a].pc = "step"
  /\ \E k \in call[a].at .. Last :
       /\ NextUnfinished(a, k)
       /\ LET s == OrderedSteps[k] IN
          UNCHANGED step \/ (Claimable(a, s) /\ SetStep(s, "processing"))
       /\ call' = [call EXCEPT ![a] = [@ EXCEPT !.at = k + 1]]
  /\ Spend("outage")
  /\ UNCHANGED <<order, trial, inspection, bill, devices, audit>>

(* The transaction of one step: its business effect and MarkDone.           *)
ExecStep(a) ==
  /\ call[a].pc = "exec"
  /\ Executable(a, Current(a))
  /\ IF Current(a) = "activate_trial" /\ ~trial
     THEN trial' = TRUE /\ order' = [order EXCEPT !.trial_id = TRUE, !.version = @ + 1]
     ELSE UNCHANGED <<trial, order>>
  /\ inspection' = IF Current(a) = "dispatch_inspection" /\ inspection = "none"
                   THEN "dispatched" ELSE inspection
  /\ bill' = IF Current(a) = "generate_bill" /\ bill.status = "none"
             THEN [status |-> "draft", version |-> 1] ELSE bill
  /\ SetStep(Current(a), "done")
  /\ call' = [call EXCEPT ![a] = [@ EXCEPT !.pc = "step", !.at = call[a].at + 1, !.held = 0]]
  /\ UNCHANGED <<devices, audit, budget>>

(* Mutant: no return after the failure, the loop goes on to the next step.  *)
ExecFailsAndGoesOn(a) ==
  /\ call[a].pc = "exec"
  /\ Spend("fault")
  /\ call' = [call EXCEPT ![a] = [@ EXCEPT !.pc = "step", !.at = call[a].at + 1, !.held = 0]]
  /\ UNCHANGED rows

(* Mutant: the trial is inserted outside the transaction that fails.        *)
ExecFailsHalfway(a) ==
  /\ call[a].pc = "exec"
  /\ Spend("fault")
  /\ trial' = (trial \/ Current(a) = "activate_trial")
  /\ Goto(a, "mark_failed")
  /\ UNCHANGED <<order, step, inspection, bill, devices, audit>>

(* The transaction is rolled back: a precondition or a version does not     *)
(* hold any more, or the database reports an error.                         *)
ExecFails(a) ==
  /\ call[a].pc = "exec"
  /\ \/ ~Executable(a, Current(a)) /\ UNCHANGED budget
     \/ Executable(a, Current(a)) /\ Spend("fault")
  /\ Goto(a, "mark_failed")
  /\ UNCHANGED rows

MarkFailed(a) ==
  /\ call[a].pc = "mark_failed"
  /\ IF step[Current(a)].version = call[a].held
     THEN SetStep(Current(a), "failed")
     ELSE UNCHANGED step
  /\ Goto(a, "bump_retry")
  /\ UNCHANGED <<order, trial, inspection, bill, devices, audit, budget>>

(* BumpRetry has no version guard, and takes the order to a new version.    *)
BumpRetry(a) ==
  /\ call[a].pc = "bump_retry"
  /\ order' = [order EXCEPT !.version = @ + 1]
  /\ Goto(a, "reget")
  /\ UNCHANGED <<step, trial, inspection, bill, devices, audit, budget>>

RegetOrder(a) ==
  /\ call[a].pc = "reget"
  /\ call' = ReadOrder(a, "pend")
  /\ UNCHANGED <<rows, budget>>

(* Mutant: the failed call leaves the order in provisioning.                *)
PendRetryForgotten(a) ==
  /\ call[a].pc = "pend"
  /\ Return(a)
  /\ UNCHANGED <<rows, budget>>

PendRetry(a) ==
  /\ call[a].pc = "pend"
  /\ IF StatusMatches("provisioning", call[a].version)
     THEN SetStatus("pending_retry") ELSE UNCHANGED order
  /\ Return(a)
  /\ UNCHANGED <<step, trial, inspection, bill, devices, audit, budget>>

(* Mutant: the loop over the list stops one step short.                     *)
FreshOrderEarly(a) ==
  /\ call[a].pc = "step"
  /\ \A k \in call[a].at .. (Last - 1) : Seen(a, k) \in Committed
  /\ call' = ReadOrder(a, "activate")
  /\ UNCHANGED <<rows, budget>>

(* No unfinished step is left in the list: read the order for its version.  *)
ListFinished(a) == \A k \in call[a].at .. Last : Seen(a, k) \in Committed

FreshOrder(a) ==
  /\ call[a].pc = "step"
  /\ ListFinished(a)
  /\ call' = ReadOrder(a, "activate")
  /\ UNCHANGED <<rows, budget>>

Activate(a) ==
  /\ call[a].pc = "activate"
  /\ IF StatusMatches("provisioning", call[a].version)
     THEN SetStatus("active") /\ audit' = audit \cup {"order.provisioned"}
     ELSE UNCHANGED <<order, audit>>
  /\ Return(a)
  /\ UNCHANGED <<step, trial, inspection, bill, devices, budget>>

(* A statement on its own fails with a database error: Provision gives up,  *)
(* except that the bookkeeping of a failed step ignores errors.             *)
ProvisionErrors(a) ==
  /\ \/ /\ \/ call[a].pc \in {"get", "claim", "reload", "list", "reget", "pend", "activate"}
           \/ call[a].pc = "step" /\ ListFinished(a)
        /\ Return(a)
     \/ call[a].pc = "mark_failed" /\ Goto(a, "bump_retry")
     \/ call[a].pc = "bump_retry" /\ Goto(a, "reget")
  /\ Spend("outage")
  /\ UNCHANGED rows

Provision(a) ==
  \/ GetOrder(a) \/ ClaimOrder(a) \/ ReloadOrder(a) \/ ListSteps(a)
  \/ MarkProcessing(a) \/ ExecStep(a) \/ ExecFails(a) \/ MarkFailed(a)
  \/ BumpRetry(a) \/ RegetOrder(a) \/ PendRetry(a) \/ FreshOrder(a) \/ Activate(a)
  \/ ClaimErrors(a) \/ ProvisionErrors(a)

--------------------------------------------------------------------------------
(* Compensate.                                                              *)

CompGetOrder(a) ==
  /\ call[a].pc = "c_get"
  /\ IF /\ order.status # "aborted"
        /\ AssertTransition(deploymentTransitions, order.status, "compensating")
     THEN call' = ReadOrder(a, "c_claim")
     ELSE Return(a)
  /\ UNCHANGED <<rows, budget>>

CompClaimOrder(a) ==
  /\ call[a].pc = "c_claim"
  /\ IF StatusMatches(call[a].status, call[a].version)
     THEN SetStatus("compensating") /\ Goto(a, "c_list")
     ELSE UNCHANGED order /\ Return(a)
  /\ UNCHANGED <<step, trial, inspection, bill, devices, audit, budget>>

(* Mutant: the reverse loop starts one before the last index.               *)
CompListStepsOneShort(a) ==
  /\ call[a].pc = "c_list"
  /\ call' = [call EXCEPT ![a] = [@ EXCEPT !.pc = "c_step", !.seen = step, !.at = Last - 1]]
  /\ UNCHANGED <<rows, budget>>

CompListSteps(a) ==
  /\ call[a].pc = "c_list"
  /\ call' = [call EXCEPT ![a] = [@ EXCEPT !.pc = "c_step", !.seen = step, !.at = Last]]
  /\ UNCHANGED <<rows, budget>>

NextDone(a, k) ==
  /\ Seen(a, k) = "done"
  /\ \A j \in (k + 1) .. call[a].at : Seen(a, j) # "done"

(* compensateStep for the next step the list shows done.  The bill is read  *)
(* here and voided by the next statement; the other steps take one          *)
(* statement, or none.                                                      *)
CompensateStep(a) ==
  /\ call[a].pc = "c_step"
  /\ \E k \in 1 .. call[a].at :
       /\ NextDone(a, k)
       /\ LET s == OrderedSteps[k] IN
          /\ inspection' = IF s = "dispatch_inspection" /\ inspection = "dispatched"
                           THEN "cancelled" ELSE inspection
          /\ devices' = (devices /\ s # "bind_devices")
          /\ call' = [call EXCEPT ![a] = [@ EXCEPT
               !.pc = IF s = "generate_bill" /\ bill.status # "none" THEN "c_void" ELSE "c_mark",
               !.at = k,
               !.held = IF s = "generate_bill" THEN bill.version ELSE 0]]
  /\ UNCHANGED <<order, step, trial, bill, audit, budget>>

VoidBill(a) ==
  /\ call[a].pc = "c_void"
  /\ bill' = IF bill.status = "draft" /\ bill.version = call[a].held
             THEN [status |-> "voided", version |-> bill.version + 1] ELSE bill
  /\ Goto(a, "c_mark")
  /\ UNCHANGED <<order, step, trial, inspection, devices, audit, budget>>

(* MarkCompensated at the listed version; a conflict counts as already done.*)
MarkCompensated(a) ==
  /\ call[a].pc = "c_mark"
  /\ IF step[Current(a)].version = call[a].seen[Current(a)].version
     THEN SetStep(Current(a), "compensated") ELSE UNCHANGED step
  /\ call' = [call EXCEPT ![a] = [@ EXCEPT !.pc = "c_step", !.at = call[a].at - 1, !.held = 0]]
  /\ UNCHANGED <<order, trial, inspection, bill, devices, audit, budget>>

ListReversed(a) == \A k \in 1 .. call[a].at : Seen(a, k) # "done"

(* Mutant: the last write uses the version of the first read.               *)
CompFreshOrderForgotten(a) ==
  /\ call[a].pc = "c_step"
  /\ ListReversed(a)
  /\ Goto(a, "c_abort")
  /\ UNCHANGED <<rows, budget>>

CompFreshOrder(a) ==
  /\ call[a].pc = "c_step"
  /\ ListReversed(a)
  /\ call' = ReadOrder(a, "c_abort")
  /\ UNCHANGED <<rows, budget>>

(* A conflict on the last write is tolerated and audited as a success.      *)
AbortOrder(a) ==
  /\ call[a].pc = "c_abort"
  /\ IF StatusMatches("compensating", call[a].version)
     THEN SetStatus("aborted") ELSE UNCHANGED order
  /\ audit' = audit \cup {"order.compensated"}
  /\ Return(a)
  /\ UNCHANGED <<step, trial, inspection, bill, devices, budget>>

(* A statement on its own fails: Compensate gives up outside its loop, and  *)
(* inside it goes on as if the statement had been done.  When the last read *)
(* fails it keeps the order row of its first read.                          *)
CompensateErrors(a) ==
  /\ \/ call[a].pc \in {"c_get", "c_claim", "c_list", "c_abort"} /\ Return(a)
     \/ /\ call[a].pc = "c_step"
        /\ \E k \in 1 .. call[a].at :
             /\ NextDone(a, k)
             /\ call' = [call EXCEPT ![a] = [@ EXCEPT !.pc = "c_mark", !.at = k]]
     \/ call[a].pc = "c_void" /\ Goto(a, "c_mark")
     \/ /\ call[a].pc = "c_mark"
        /\ call' = [call EXCEPT ![a] = [@ EXCEPT !.pc = "c_step", !.at = call[a].at - 1, !.held = 0]]
     \/ call[a].pc = "c_step" /\ ListReversed(a) /\ Goto(a, "c_abort")
  /\ Spend("outage")
  /\ UNCHANGED rows

Compensate(a) ==
  \/ CompGetOrder(a) \/ CompClaimOrder(a) \/ CompListSteps(a) \/ CompensateStep(a)
  \/ VoidBill(a) \/ MarkCompensated(a) \/ CompFreshOrder(a) \/ AbortOrder(a)
  \/ CompensateErrors(a)

--------------------------------------------------------------------------------
(* Interruptions.  A cancelled request context makes every later statement  *)
(* of the call fail, so the call just stops; every in-flight request is     *)
(* cancelled on shutdown, because BaseContext is the server's own context.  *)
Abandon(c) ==
  /\ call[c].pc # "idle"
  /\ Return(c)
  /\ Spend("abandon")
  /\ UNCHANGED rows

(* The process dies and comes back; Recover re-provisions the order if it   *)
(* was provisioning or waiting for a retry.                                 *)
Restart ==
  /\ Spend("crash")
  /\ call' = [a \in Actors |->
       IF a = Recoverer /\ order.status \in {"provisioning", "pending_retry"}
       THEN Start("get") ELSE Idle]
  /\ UNCHANGED rows

(* Versioned writes of other services, each effective at the statement that *)
(* finds the version it has read.                                           *)
UpdateResponsibility ==
  /\ trial
  /\ order' = [order EXCEPT !.version = @ + 1]
  /\ Spend("handover")
  /\ UNCHANGED <<step, trial, inspection, bill, devices, audit, call>>

Finance ==
  /\ \/ bill.status = "none"  /\ bill' = [status |-> "draft", version |-> 1]
     \/ bill.status # "none"  /\ bill' = [bill EXCEPT !.version = @ + 1]
     \/ bill.status = "draft" /\ bill' = [status |-> "issued", version |-> bill.version + 1]
  /\ Spend("finance")
  /\ UNCHANGED <<order, step, trial, inspection, devices, audit, call>>

Others == call[Recoverer].pc = "idle" /\ (UpdateResponsibility \/ Finance)

Advance(a) == Provision(a) \/ Compensate(a)

Next ==
  \/ \E a \in Actors : Advance(a)
  \/ \E c \in Callers : StartCall(c) \/ Abandon(c)
  \/ Restart
  \/ Others

(* A call that has started keeps running: a goroutine with a live context   *)
(* is always scheduled again, and the busy timeout bounds each statement.   *)
Fairness == \A a \in Actors : WF_vars(Advance(a))

Spec == Init /\ [][Next]_vars
FairSpec == Spec /\ Fairness

--------------------------------------------------------------------------------
(* Types of every row and of every captured value.                          *)
StepRow == [status : StepStatus, version : Nat]

CallRecord ==
  [pc : ProvisionPC \cup CompensatePC \cup {"idle"}, status : DeploymentStatus,
   version : Nat, seen : [Steps -> StepRow], at : 0 .. (Last + 1), held : Nat]

(* Inside a loop body the position is a step; between bodies it may be one  *)
(* past the end of the loop.                                                *)
Positioned(c) ==
  /\ c.pc \in {"exec", "mark_failed", "c_void", "c_mark"} => c.at \in 1 .. Last
  /\ c.pc = "step" => c.at \in 1 .. (Last + 1)
  /\ c.pc = "c_step" => c.at \in 0 .. Last

CallState == {c \in CallRecord : Positioned(c)}

TypeOK ==
  /\ order \in [status : DeploymentStatus, version : Nat, trial_id : BOOLEAN]
  /\ step \in [Steps -> StepRow]
  /\ trial \in BOOLEAN
  /\ inspection \in {"none", "dispatched", "cancelled"}
  /\ bill \in [status : BillStatus \cup {"none"}, version : Nat]
  /\ devices \in BOOLEAN
  /\ audit \subseteq {"order.provisioned", "order.compensated"}
  /\ call \in [Actors -> CallState]
  /\ budget \in [Events -> Nat]

(* A saga step is never being executed by two calls at once: the version    *)
(* guard of MarkProcessing is the only thing that keeps two Provision calls *)
(* on the same order from both running a step's business effect.            *)
StepExecutedByOne ==
  \A a, b \in Actors :
    /\ call[a].pc = "exec" /\ call[b].pc = "exec"
    /\ call[a].at = call[b].at
    => a = b

(* A step's status and its business effect commit together, whatever the    *)
(* interleaving and wherever a call is cut off: the trial row, the order's  *)
(* trial_id and the status of activate_trial always agree, an inspection    *)
(* exists exactly when its step has committed, a committed bill step has a  *)
(* bill, and devices are unbound only by compensation.                      *)
EffectsAtomic ==
  /\ trial <=> order.trial_id
  /\ trial <=> step["activate_trial"].status \in Committed
  /\ inspection # "none" <=> step["dispatch_inspection"].status \in Committed
  /\ step["generate_bill"].status \in Committed => bill.status # "none"
  /\ ~devices => order.status \in {"compensating", "aborted"}

(* When Provision audits "five steps completed", every step has committed   *)
(* (deployment_service.go:158).                                             *)
AuditedProvisioningIsComplete ==
  "order.provisioned" \in audit => \A s \in Steps : step[s].status \in Committed

(* No call was cut short by a crash or by its client.                       *)
Uninterrupted ==
  budget["crash"] = Budget["crash"] /\ budget["abandon"] = Budget["abandon"]

(* The same as long as every call has run to its end, however often steps   *)
(* failed and calls were repeated.                                          *)
UninterruptedIsComplete == Uninterrupted => AuditedProvisioningIsComplete

(* Provision runs the steps in OrderedSteps order and resumes at the first  *)
(* incomplete one (deployment_service.go:87), so without interruption a     *)
(* committed step never has an uncommitted step before it.                  *)
StepsCommitInOrder ==
  Uninterrupted =>
    \A j, k \in 1 .. Last :
      j < k /\ step[OrderedSteps[k]].status \in Committed
        => step[OrderedSteps[j]].status \in Committed

(* "Compensate reverses every completed step" (deployment_service.go:244):  *)
(* an aborted order has no step left done, no inspection still dispatched   *)
(* and, if its devices step ran, no device bound.                           *)
AbortedMeansReversed ==
  order.status = "aborted" =>
    /\ \A s \in Steps : step[s].status # "done"
    /\ inspection # "dispatched"
    /\ step["bind_devices"].status = "compensated" => ~devices

(* Once Compensate has reported and audited "aborted", the order is aborted.*)
(* isOptimisticConflict calls a conflict on its last write "already done"   *)
(* (deployment_service.go:318); that is true as long as no other service has*)
(* written the order row.                                                   *)
AuditedAbortIsFinal ==
  budget["handover"] = Budget["handover"] /\ "order.compensated" \in audit
    => order.status = "aborted"

(* The ledger entry an observer of the rows would write for a step.         *)
LedgerEntry(status) ==
  CASE status = "done"        -> "committed"
    [] status = "compensated" -> "reversed"
    [] OTHER                  -> "open"

ledger == [s \in Steps |-> LedgerEntry(step[s].status)]

Contract == INSTANCE SagaContract WITH status <- order.status

(* The concurrent saga implements the contract: status moves stay in the    *)
(* transition table and every ledger entry only ever moves forward.         *)
ImplementsContract == Contract!Spec

(* The strengthening that makes the safety properties inductive.            *)

(* A row's version identifies its content: a captured step whose version is *)
(* still current has its captured status.                                   *)
Snapshot(row, s) ==
  /\ row.version <= step[s].version
  /\ row.version = step[s].version => row.status = step[s].status

SnapshotsHold ==
  \A s \in Steps :
    /\ Snapshot(NewSteps[s], s)
    /\ \A a \in Actors : Snapshot(call[a].seen[s], s)

Holding(a) == call[a].pc \in {"exec", "mark_failed"}

(* A caller between its claim and its outcome owns the step's version.      *)
ClaimsHold ==
  \A a \in Actors :
    /\ call[a].pc \in {"c_void", "c_mark"} => Seen(a, call[a].at) = "done"
    /\ Holding(a) => step[Current(a)] = [status |-> "processing", version |-> call[a].held]
    /\ \A b \in Actors : Holding(a) /\ Holding(b) /\ Current(a) = Current(b) => a = b

Closing == {"compensating", "aborted"}

(* What the position of a call says about the status of the order.          *)
StatusKnown ==
  \A a \in Actors :
    /\ call[a].pc = "claim" => call[a].status \in {"draft", "provisioning", "pending_retry"}
    /\ call[a].pc = "c_claim" => call[a].status \notin {"draft", "aborted"}
    /\ call[a].pc \in CompensatePC \ {"c_get", "c_claim"} => order.status \in Closing
    /\ call[a].pc \in ProvisionPC \ {"get", "claim"} => order.status # "draft"

IInv == TypeOK /\ SnapshotsHold /\ ClaimsHold /\ StatusKnown /\ EffectsAtomic

(* After a restart the recovery pass always finishes, and leaves no order   *)
(* in provisioning (recoverer.go:25).                                       *)
InterruptedOrderResolved ==
  call[Recoverer].pc # "idle"
    ~> call[Recoverer].pc = "idle" /\ order.status # "provisioning"
================================================================================
