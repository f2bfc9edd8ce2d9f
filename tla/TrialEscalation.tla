----------------------------- MODULE TrialEscalation -----------------------------
(****************************************************************************)
(* The trial of one deployment order: the escalator (CheckDeadlines,        *)
(* Escalate) hands the order over to the customer manager when nobody has   *)
(* accepted the trial by its deadline, while clients accept (Accept) or     *)
(* convert it (Convert) and the provisioning saga writes the same order row.*)
(*                                                                          *)
(* Every action is one SQL statement.  A server process has one escalator;  *)
(* two of them overlap while one process replaces another.                  *)
(****************************************************************************)
EXTENDS StateMachines

CONSTANTS
  Escalators,  \* escalator goroutines, one per server process
  Clients,     \* HTTP requests that accept or convert
  Budget       \* how often each kind of environment event may happen

Events == {"order", "fault", "crash"}

ASSUME ActorsAssumption == Escalators \cap Clients = {}
ASSUME BudgetAssumption == Budget \in [Events -> Nat]

VARIABLES
  late,      \* acceptance_deadline has passed
  trial,     \* the trial_periods row
  order,     \* the responsibility of the deployment_orders row, and its version
  call,      \* what each actor is doing, and the rows it has read
  reported,  \* the escalations that CheckDeadlines has counted
  budget     \* what is left of Budget

vars == <<late, trial, order, call, reported, budget>>

Actors == Escalators \cup Clients

Idle == [pc |-> "idle", saw |-> [status |-> "pending", version |-> 0], order |-> 0]

At(a, pc) == call[a].pc = pc
Goto(a, pc) == call' = [call EXCEPT ![a] = [call[a] EXCEPT !.pc = pc]]
Return(a) == call' = [call EXCEPT ![a] = Idle]
Spend(e) == budget[e] > 0 /\ budget' = [budget EXCEPT ![e] = @ - 1]

(* GetTrial, or the row of a listing, on the way to pc.                     *)
Get(a, pc) == call' = [call EXCEPT ![a] = [call[a] EXCEPT !.pc = pc, !.saw = trial]]
GetOrder(a, pc) == call' = [call EXCEPT ![a] = [call[a] EXCEPT !.pc = pc, !.order = order.version]]

May(from, to) == AssertTransition(trialTransitions, from, to)

(* ActivateTrial has created the trial and linked it to its order.          *)
Init ==
  /\ late = FALSE
  /\ trial = [status |-> "active", version |-> 1]
  /\ order = [responsible |-> "field_engineer", handling |-> "on_site_debug", version |-> 1]
  /\ call = [a \in Actors |-> Idle]
  /\ reported = 0
  /\ budget = Budget

--------------------------------------------------------------------------------
(* The two versioned writes.                                                *)

Unchanged(a) == trial = call[a].saw

(* UpdateTrialStatus from what the actor saw; without a match nothing is    *)
(* written and the operation ends with a version conflict.                  *)
UpdateTrialStatus(a, to, next) ==
  \/ /\ Unchanged(a)
     /\ trial' = [status |-> to, version |-> trial.version + 1]
     /\ Goto(a, next)
  \/ /\ ~Unchanged(a)
     /\ Return(a)
     /\ UNCHANGED trial

(* Mutant: the order's version is not checked.                              *)
OrderUnchangedAlways(a) == TRUE

OrderUnchanged(a) == order.version = call[a].order

(* UpdateResponsibility to the customer manager; both callers go on after a *)
(* version conflict.                                                        *)
UpdateResponsibility(a, mode) ==
  order' = IF OrderUnchanged(a)
           THEN [responsible |-> "customer_manager", handling |-> mode, version |-> order.version + 1]
           ELSE order

--------------------------------------------------------------------------------
(* CheckDeadlines and Escalate.                                             *)

(* Mutant: the loop takes trials of any status.                             *)
ListPastDeadlineActive(e) ==
  /\ At(e, "idle") /\ late
  /\ trial.status = "active" /\ Get(e, "mark")
  /\ UNCHANGED <<late, trial, order, reported, budget>>

ListPastDeadline(e) ==
  /\ At(e, "idle") /\ late
  /\ \/ trial.status = "active" /\ Get(e, "mark")
     \/ trial.status = "overdue" /\ Get(e, "escalate")
  /\ UNCHANGED <<late, trial, order, reported, budget>>

MarkOverdue(e) ==
  /\ At(e, "mark")
  /\ UpdateTrialStatus(e, "overdue", "reread")
  /\ UNCHANGED <<late, order, reported, budget>>

(* Somebody may have accepted the trial since it was marked.                *)
Reread(e) ==
  /\ At(e, "reread")
  /\ IF trial.status = "overdue" THEN Goto(e, "escalate") ELSE Return(e)
  /\ UNCHANGED <<late, trial, order, reported, budget>>

EscalateGetTrial(e) ==
  /\ At(e, "escalate")
  /\ Get(e, "order")
  /\ UNCHANGED <<late, trial, order, reported, budget>>

(* Mutant: only the transition table decides, which lets a status stay put. *)
EscalateGetOrderAgain(e) ==
  /\ At(e, "order")
  /\ IF May(call[e].saw.status, "escalated") THEN GetOrder(e, "claim") ELSE Return(e)
  /\ UNCHANGED <<late, trial, order, reported, budget>>

(* An escalated or converted trial is left alone, an accepted one refused.  *)
(* Escalate's branch for an active trial is never taken: CheckDeadlines     *)
(* calls it for an overdue trial, which never becomes active again.         *)
EscalateGetOrder(e) ==
  /\ At(e, "order")
  /\ IF call[e].saw.status = "overdue" THEN GetOrder(e, "claim") ELSE Return(e)
  /\ UNCHANGED <<late, trial, order, reported, budget>>

(* Mutant: the responsibility is not transferred.                           *)
ClaimOnly(e) ==
  /\ At(e, "claim")
  /\ UpdateTrialStatus(e, "escalated", "idle")
  /\ UNCHANGED <<late, order, reported, budget>>

Claim(e) ==
  /\ At(e, "claim")
  /\ UpdateTrialStatus(e, "escalated", "transfer")
  /\ UNCHANGED <<late, order, reported, budget>>

(* The order's version is the one read before the claim.                    *)
Transfer(e) ==
  /\ At(e, "transfer")
  /\ UpdateResponsibility(e, "urge_acceptance")
  /\ reported' = reported + 1
  /\ Return(e)
  /\ UNCHANGED <<late, trial, budget>>

Tick(e) ==
  \/ ListPastDeadline(e) \/ MarkOverdue(e) \/ Reread(e)
  \/ EscalateGetTrial(e) \/ EscalateGetOrder(e) \/ Claim(e) \/ Transfer(e)

--------------------------------------------------------------------------------
(* Accept and Convert.                                                      *)

(* An accepted trial is returned as it is.                                  *)
Accept(c) ==
  /\ At(c, "idle")
  /\ trial.status # "accepted" /\ May(trial.status, "accepted")
  /\ Get(c, "accept")
  /\ UNCHANGED <<late, trial, order, reported, budget>>

(* Mutant: the statuses the UPDATE asks for are forgotten.                  *)
AcceptableAlways == TRUE

Acceptable == trial.status \in {"active", "overdue"}

SetAccepted(c) ==
  /\ At(c, "accept")
  /\ trial' = IF trial.version = call[c].saw.version /\ Acceptable
              THEN [status |-> "accepted", version |-> trial.version + 1] ELSE trial
  /\ Return(c)
  /\ UNCHANGED <<late, order, reported, budget>>

Convert(c) ==
  /\ At(c, "idle")
  /\ trial.status # "converted" /\ May(trial.status, "converted")
  /\ Get(c, "convert")
  /\ UNCHANGED <<late, trial, order, reported, budget>>

ConvertClaim(c) ==
  /\ At(c, "convert")
  /\ UpdateTrialStatus(c, "converted", "convert_order")
  /\ UNCHANGED <<late, order, reported, budget>>

ConvertGetOrder(c) ==
  /\ At(c, "convert_order")
  /\ GetOrder(c, "rent")
  /\ UNCHANGED <<late, trial, order, reported, budget>>

Rent(c) ==
  /\ At(c, "rent")
  /\ UpdateResponsibility(c, "formal_rent_sale_return")
  /\ Return(c)
  /\ UNCHANGED <<late, trial, reported, budget>>

Request(c) ==
  \/ Accept(c) \/ SetAccepted(c)
  \/ Convert(c) \/ ConvertClaim(c) \/ ConvertGetOrder(c) \/ Rent(c)

--------------------------------------------------------------------------------
(* The environment.                                                         *)

(* The database refuses the statement that is next.  Only the transfer of   *)
(* an escalation goes on without it: the escalation counts all the same.    *)
StatementFails(a) ==
  /\ ~At(a, "idle")
  /\ Return(a)
  /\ reported' = IF At(a, "transfer") THEN reported + 1 ELSE reported
  /\ Spend("fault")
  /\ UNCHANGED <<late, trial, order>>

(* The process dies, or the request is given up.                            *)
Crash(a) ==
  /\ ~At(a, "idle")
  /\ Return(a)
  /\ Spend("crash")
  /\ UNCHANGED <<late, trial, order, reported>>

DeadlinePasses ==
  /\ ~late
  /\ late' = TRUE
  /\ UNCHANGED <<trial, order, call, reported, budget>>

(* A statement of the provisioning saga on the order row.                   *)
OrderMoves ==
  /\ order' = [order EXCEPT !.version = order.version + 1]
  /\ Spend("order")
  /\ UNCHANGED <<late, trial, call, reported>>

Next ==
  \/ \E e \in Escalators : Tick(e)
  \/ \E c \in Clients : Request(c)
  \/ \E a \in Actors : StatementFails(a) \/ Crash(a)
  \/ DeadlinePasses \/ OrderMoves

Spec == Init /\ [][Next]_vars

(* The ticker fires for ever; no client is bound to accept or convert.      *)
Fairness == \A e \in Escalators : WF_vars(Tick(e))

FairSpec == Spec /\ Fairness

--------------------------------------------------------------------------------
EscalatePC == {"idle", "mark", "reread", "escalate", "order", "claim", "transfer"}
RequestPC == {"idle", "accept", "convert", "convert_order", "rent"}

TrialRow == [status : TrialStatus, version : Nat]
OrderRow == [responsible : {"field_engineer", "customer_manager"},
             handling : {"on_site_debug", "urge_acceptance", "formal_rent_sale_return"},
             version : Nat]
CallState == [pc : EscalatePC \cup RequestPC, saw : TrialRow, order : Nat]

(* Types of the rows and of every captured value; escalators and clients    *)
(* stay in their own code.                                                  *)
TypeOK ==
  /\ late \in BOOLEAN
  /\ trial \in TrialRow
  /\ order \in OrderRow
  /\ call \in [Actors -> CallState]
  /\ \A e \in Escalators : call[e].pc \in EscalatePC
  /\ \A c \in Clients : call[c].pc \in RequestPC
  /\ reported \in Nat
  /\ budget \in [Events -> Nat]

(* "the trial is escalated exactly once across concurrent checks"           *)
(* (concurrency_test.go:207): escalators, crashes and retried ticks never   *)
(* count one escalation twice.                                              *)
EscalatedOnce == reported <= 1

(* An accepted trial stays accepted although escalators have read it before;*)
(* an escalated one can only be converted, a converted one stays.           *)
OutcomeIsFinal ==
  [][/\ trial.status = "accepted" => trial'.status = "accepted"
     /\ trial.status = "escalated" => trial'.status \in {"escalated", "converted"}
     /\ trial.status = "converted" => trial'.status = "converted"]_vars

(* Once an order is rented, sold or returned, an escalation that is late    *)
(* with its transfer does not put it back to urging acceptance.             *)
RentIsFinal ==
  [][order.handling = "formal_rent_sale_return"
       => order'.handling = "formal_rent_sale_return"]_vars

(* Somebody has moved the trial and is yet to write its order.              *)
HandingOver ==
  \/ \E e \in Escalators : At(e, "transfer")
  \/ \E c \in Clients : At(c, "convert_order") \/ At(c, "rent")

(* "Escalate transfers responsibility to the customer manager once a trial  *)
(* is past its deadline" (trial_service.go:40): so it does as long as the   *)
(* saga does not write the order, no statement fails and nothing crashes.   *)
(* A request may convert the escalated trial before the transfer is written *)
(* and race it for the order's version: whichever of the two is refused,    *)
(* the other has handed the order over.                                     *)
UndisturbedTransfer ==
  budget = Budget /\ trial.status \in {"escalated", "converted"} /\ ~HandingOver
    => order.responsible = "customer_manager"

(* A trial nobody accepts does not stay open after its deadline, although   *)
(* statements fail and the process dies between the escalator's steps.      *)
LateTrialSettles ==
  late /\ trial.status \in {"active", "overdue"}
    ~> trial.status \in {"accepted", "escalated", "converted"}
================================================================================
