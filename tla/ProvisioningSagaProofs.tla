------------------------- MODULE ProvisioningSagaProofs -------------------------
EXTENDS ProvisioningSaga, TLAPS

LEMMA StepNames == \A k \in 1 .. Last : OrderedSteps[k] \in Steps
  BY DEF Last, OrderedSteps, Steps

LEMMA NewStepsType == NewSteps \in [Steps -> StepRow]
  BY DEF NewSteps, StepRow, StepStatus

LEMMA IdleType == Idle \in CallState
  BY NewStepsType DEF Idle, CallState, CallRecord, Positioned, DeploymentStatus, Last

LEMMA StartType == \A pc \in {"get", "c_get"} : Start(pc) \in CallState
  BY IdleType DEF Start, Idle, CallState, CallRecord, Positioned, ProvisionPC, CompensatePC

LEMMA TypeInit == Init => TypeOK
  <1> SUFFICES ASSUME Init PROVE TypeOK
    OBVIOUS
  <1>1. order \in [status : DeploymentStatus, version : Nat, trial_id : BOOLEAN]
    BY DEF Init, DeploymentStatus
  <1>2. bill \in [status : BillStatus \cup {"none"}, version : Nat]
    BY DEF Init
  <1>3. call \in [Actors -> CallState]
    BY IdleType DEF Init
  <1>4. step \in [Steps -> StepRow] /\ budget \in [Events -> Nat]
    BY NewStepsType, BudgetAssumption DEF Init
  <1> QED
    BY <1>1, <1>2, <1>3, <1>4 DEF Init, TypeOK

LEMMA Update ==
  ASSUME NEW S, NEW T, NEW f \in [S -> T], NEW x, NEW v \in T
  PROVE  [f EXCEPT ![x] = v] \in [S -> T]
  OBVIOUS

LEMMA SetStepType ==
  ASSUME TypeOK, NEW s \in Steps, NEW to \in StepStatus, SetStep(s, to)
  PROVE  step' \in [Steps -> StepRow]
  <1> DEFINE row == [status |-> to, version |-> step[s].version + 1]
  <1>1. row \in StepRow
    BY DEF TypeOK, StepRow
  <1>2. step' = [step EXCEPT ![s] = row]
    BY DEF SetStep
  <1> QED
    BY <1>1, <1>2, Update DEF TypeOK

OrderRow == [status : DeploymentStatus, version : Nat, trial_id : BOOLEAN]

LEMMA SetStatusType ==
  ASSUME TypeOK, NEW to \in DeploymentStatus, SetStatus(to)
  PROVE  order' \in OrderRow
  <1>1. order \in OrderRow /\ order.version + 1 \in Nat
    BY DEF TypeOK, OrderRow
  <1> QED
    BY <1>1 DEF SetStatus, OrderRow

LEMMA PositionedStep ==
  ASSUME TypeOK, NEW a \in Actors,
         call[a].pc \in {"exec", "mark_failed", "c_void", "c_mark"}
  PROVE  call[a].at \in 1 .. Last /\ Current(a) \in Steps
  BY StepNames DEF TypeOK, CallState, Positioned, Current

(* Positions that are not inside a loop.                                    *)
Straight == (ProvisionPC \cup CompensatePC) \
              {"step", "exec", "mark_failed", "c_step", "c_void", "c_mark"}

LEMMA ReadOrderType ==
  ASSUME TypeOK, NEW a \in Actors, NEW pc \in Straight
  PROVE  ReadOrder(a, pc) \in [Actors -> CallState]
  <1> DEFINE c == [call[a] EXCEPT !.pc = pc, !.status = order.status, !.version = order.version]
  <1>1. order.status \in DeploymentStatus /\ order.version \in Nat /\ call[a] \in CallRecord
    BY DEF TypeOK, CallState
  <1>2. c \in CallRecord
    BY <1>1 DEF CallRecord, Straight
  <1>3. c.pc = pc
    BY <1>1 DEF CallRecord
  <1>4. c \in CallState
    BY <1>2, <1>3 DEF CallState, Positioned, Straight
  <1> QED
    BY <1>4 DEF TypeOK, ReadOrder

LEMMA GotoType ==
  ASSUME TypeOK, NEW a \in Actors, NEW pc \in ProvisionPC \cup CompensatePC, Goto(a, pc),
         pc \notin {"step", "c_step"},
         pc \in {"exec", "mark_failed", "c_void", "c_mark"} => call[a].at \in 1 .. Last
  PROVE  call' \in [Actors -> CallState]
  <1> DEFINE c == [call[a] EXCEPT !.pc = pc]
  <1>1. call[a] \in CallRecord
    BY DEF TypeOK, CallState
  <1>2. c \in CallRecord /\ c.pc = pc /\ c.at = call[a].at
    BY <1>1 DEF CallRecord
  <1>3. c \in CallState
    BY <1>2 DEF CallState, Positioned
  <1> QED
    BY <1>3 DEF TypeOK, Goto

LEMMA ReturnType ==
  ASSUME TypeOK, NEW a \in Actors, Return(a)
  PROVE  call' \in [Actors -> CallState]
  BY IdleType DEF TypeOK, Return

--------------------------------------------------------------------------------
(* Every step preserves the types of the rows and of the captured values.   *)

LEMMA ProvisionType ==
  ASSUME TypeOK, NEW a \in Actors, Provision(a)
  PROVE  TypeOK'
  <1> USE DEF rows
  <1>0. call[a] \in CallRecord /\ Positioned(call[a])
    BY DEF TypeOK, CallState
  <1>1. CASE GetOrder(a)
    BY <1>1, ReadOrderType, ReturnType DEF GetOrder, TypeOK, Straight, ProvisionPC
  <1>2. CASE ClaimOrder(a)
    <2>1. call' \in [Actors -> CallState]
      BY <1>2, GotoType, ReturnType DEF ClaimOrder, ProvisionPC
    <2>2. order' \in OrderRow
      BY <1>2, SetStatusType DEF ClaimOrder, DeploymentStatus, TypeOK, OrderRow
    <2> QED
      BY <1>2, <2>1, <2>2 DEF ClaimOrder, TypeOK, OrderRow
  <1>3. CASE ReloadOrder(a)
    BY <1>3, ReadOrderType DEF ReloadOrder, TypeOK, Straight, ProvisionPC
  <1>4. CASE ListSteps(a)
    <2> DEFINE c == [call[a] EXCEPT !.pc = "step", !.seen = step, !.at = 1]
    <2>1. "step" \in ProvisionPC /\ 1 \in 0 .. (Last + 1) /\ 1 \in 1 .. (Last + 1)
      BY DEF ProvisionPC, Last
    <2>2. c \in CallRecord
      BY <1>0, <2>1 DEF TypeOK, CallRecord
    <2>3. c.pc = "step" /\ c.at = 1
      BY <1>0 DEF CallRecord
    <2>4. c \in CallState
      BY <2>1, <2>2, <2>3 DEF CallState, Positioned
    <2> QED
      BY <1>4, <2>4, Update DEF ListSteps, TypeOK
  <1>5. CASE MarkProcessing(a)
    <2> DEFINE v(k) == step[OrderedSteps[k]].version + 1
               c1(k) == [call[a] EXCEPT !.pc = "exec", !.at = k, !.held = v(k)]
               c2(k) == [call[a] EXCEPT !.at = k + 1]
    <2>1. PICK k \in call[a].at .. Last :
            \/ SetStep(OrderedSteps[k], "processing") /\ call' = [call EXCEPT ![a] = c1(k)]
            \/ UNCHANGED step /\ call' = [call EXCEPT ![a] = c2(k)]
      BY <1>5 DEF MarkProcessing
    <2>2. call[a].pc = "step" /\ k \in 1 .. Last
      BY <1>0, <1>5, <2>1 DEF Positioned, MarkProcessing, Last
    <2>3. v(k) \in Nat
      BY <2>2, StepNames DEF TypeOK, StepRow
    <2>4. c1(k) \in CallState
      <3>1. "exec" \in ProvisionPC /\ k \in 0 .. (Last + 1)
        BY <2>2 DEF ProvisionPC, Last
      <3> HIDE DEF v
      <3>2. c1(k) \in CallRecord
        BY <1>0, <2>3, <3>1 DEF CallRecord
      <3>3. c1(k).pc = "exec" /\ c1(k).at = k
        BY <1>0 DEF CallRecord
      <3> QED
        BY <2>2, <3>2, <3>3 DEF CallState, Positioned
    <2>5. c2(k) \in CallState
      <3>1. k + 1 \in 0 .. (Last + 1) /\ k + 1 \in 1 .. (Last + 1)
        BY <2>2 DEF Last
      <3>2. c2(k) \in CallRecord
        BY <1>0, <3>1 DEF CallRecord
      <3>3. c2(k).pc = "step" /\ c2(k).at = k + 1
        BY <1>0, <2>2 DEF CallRecord
      <3> QED
        BY <3>1, <3>2, <3>3 DEF CallState, Positioned
    <2>6. step' \in [Steps -> StepRow]
      BY <2>1, <2>2, StepNames, SetStepType DEF StepStatus, TypeOK
    <2>7. call' \in [Actors -> CallState]
      <3> HIDE DEF c1, c2
      <3> QED
        BY <2>1, <2>4, <2>5, Update DEF TypeOK
    <2> QED
      BY <1>5, <2>6, <2>7 DEF MarkProcessing, TypeOK
  <1>6. CASE ExecStep(a)
    <2> DEFINE c == [call[a] EXCEPT !.pc = "step", !.at = call[a].at + 1, !.held = 0]
    <2>1. call[a].at \in 1 .. Last /\ Current(a) \in Steps
      BY <1>6, PositionedStep DEF ExecStep
    <2>2. c \in CallState
      <3>1. /\ call[a].at + 1 \in 0 .. (Last + 1) /\ call[a].at + 1 \in 1 .. (Last + 1)
            /\ "step" \in ProvisionPC
        BY <2>1 DEF ProvisionPC, Last
      <3>2. c \in CallRecord
        BY <1>0, <3>1 DEF CallRecord
      <3>3. c.pc = "step" /\ c.at = call[a].at + 1
        BY <1>0 DEF CallRecord
      <3> QED
        BY <3>1, <3>2, <3>3 DEF CallState, Positioned
    <2>3. call' \in [Actors -> CallState]
      <3>1. call' = [call EXCEPT ![a] = c]
        BY <1>6 DEF ExecStep
      <3> HIDE DEF c
      <3> QED
        BY <2>2, <3>1, Update DEF TypeOK
    <2>4. step' \in [Steps -> StepRow]
      BY <1>6, <2>1, SetStepType DEF ExecStep, StepStatus
    <2>5. order' \in OrderRow /\ trial' \in BOOLEAN
      <3>1. order \in OrderRow /\ order.version + 1 \in Nat /\ trial \in BOOLEAN
        BY DEF TypeOK, OrderRow
      <3>2. [order EXCEPT !.trial_id = TRUE, !.version = @ + 1] \in OrderRow
        BY <3>1 DEF OrderRow
      <3> QED
        BY <1>6, <3>1, <3>2 DEF ExecStep
    <2>6. /\ bill' \in [status : BillStatus \cup {"none"}, version : Nat]
          /\ inspection' \in {"none", "dispatched", "cancelled"}
      BY <1>6 DEF ExecStep, TypeOK, BillStatus
    <2> QED
      BY <1>6, <2>3, <2>4, <2>5, <2>6 DEF ExecStep, TypeOK, OrderRow
  <1>7. CASE ExecFails(a)
    <2>1. call' \in [Actors -> CallState]
      BY <1>7, PositionedStep, GotoType DEF ExecFails, ProvisionPC
    <2> QED
      BY <1>7, <2>1 DEF ExecFails, TypeOK, Spend, Events
  <1>8. CASE MarkFailed(a)
    <2>1. call' \in [Actors -> CallState]
      BY <1>8, GotoType DEF MarkFailed, ProvisionPC
    <2>2. step' \in [Steps -> StepRow]
      BY <1>8, SetStepType, PositionedStep DEF MarkFailed, StepStatus, TypeOK
    <2> QED
      BY <1>8, <2>1, <2>2 DEF MarkFailed, TypeOK
  <1>9. CASE BumpRetry(a)
    <2>1. call' \in [Actors -> CallState]
      BY <1>9, GotoType DEF BumpRetry, ProvisionPC
    <2>2. order' \in OrderRow
      <3>1. order \in OrderRow /\ order.version + 1 \in Nat
        BY DEF TypeOK, OrderRow
      <3> QED
        BY <1>9, <3>1 DEF BumpRetry, OrderRow
    <2> QED
      BY <1>9, <2>1, <2>2 DEF BumpRetry, TypeOK, OrderRow
  <1>10. CASE RegetOrder(a)
    BY <1>10, ReadOrderType DEF RegetOrder, TypeOK, Straight, ProvisionPC
  <1>11. CASE PendRetry(a)
    <2>1. order' \in OrderRow
      BY <1>11, SetStatusType DEF PendRetry, TypeOK, OrderRow, DeploymentStatus
    <2> QED
      BY <1>11, <2>1, ReturnType DEF PendRetry, TypeOK, OrderRow
  <1>12. CASE FreshOrder(a)
    BY <1>12, ReadOrderType DEF FreshOrder, TypeOK, Straight, ProvisionPC
  <1>13. CASE Activate(a)
    <2>1. order' \in OrderRow
      BY <1>13, SetStatusType DEF Activate, TypeOK, OrderRow, DeploymentStatus
    <2> QED
      BY <1>13, <2>1, ReturnType DEF Activate, TypeOK, OrderRow
  <1>14. CASE ClaimErrors(a)
    <2> DEFINE c(k) == [call[a] EXCEPT !.at = k + 1]
    <2>1. PICK k \in call[a].at .. Last :
            /\ UNCHANGED step \/ SetStep(OrderedSteps[k], "processing")
            /\ call' = [call EXCEPT ![a] = c(k)]
      BY <1>14 DEF ClaimErrors
    <2>2. call[a].pc = "step" /\ k \in 1 .. Last
      BY <1>0, <1>14, <2>1 DEF Positioned, ClaimErrors, Last
    <2>3. c(k) \in CallState
      <3>1. k + 1 \in 0 .. (Last + 1) /\ k + 1 \in 1 .. (Last + 1)
        BY <2>2 DEF Last
      <3>2. c(k) \in CallRecord
        BY <1>0, <3>1 DEF CallRecord
      <3>3. c(k).pc = "step" /\ c(k).at = k + 1
        BY <1>0, <2>2 DEF CallRecord
      <3> QED
        BY <3>1, <3>2, <3>3 DEF CallState, Positioned
    <2>4. step' \in [Steps -> StepRow]
      BY <2>1, <2>2, StepNames, SetStepType DEF StepStatus, TypeOK
    <2>5. call' \in [Actors -> CallState]
      <3> HIDE DEF c
      <3> QED
        BY <2>1, <2>3, Update DEF TypeOK
    <2> QED
      BY <1>14, <2>4, <2>5 DEF ClaimErrors, TypeOK, Spend, Events
  <1>15. CASE ProvisionErrors(a)
    <2>1. call' \in [Actors -> CallState]
      BY <1>15, GotoType, ReturnType DEF ProvisionErrors, ProvisionPC
    <2> QED
      BY <1>15, <2>1 DEF ProvisionErrors, TypeOK, Spend, Events
  <1> QED
    BY <1>1, <1>2, <1>3, <1>4, <1>5, <1>6, <1>7, <1>8, <1>9, <1>10, <1>11, <1>12, <1>13,
       <1>14, <1>15 DEF Provision

LEMMA CompensateType ==
  ASSUME TypeOK, NEW a \in Actors, Compensate(a)
  PROVE  TypeOK'
  <1> USE DEF rows
  <1>0. call[a] \in CallRecord /\ Positioned(call[a])
    BY DEF TypeOK, CallState
  <1>1. CASE CompGetOrder(a)
    BY <1>1, ReadOrderType, ReturnType DEF CompGetOrder, TypeOK, Straight, CompensatePC
  <1>2. CASE CompClaimOrder(a)
    <2>1. call' \in [Actors -> CallState]
      BY <1>2, GotoType, ReturnType DEF CompClaimOrder, CompensatePC
    <2>2. order' \in OrderRow
      BY <1>2, SetStatusType DEF CompClaimOrder, DeploymentStatus, TypeOK, OrderRow
    <2> QED
      BY <1>2, <2>1, <2>2 DEF CompClaimOrder, TypeOK, OrderRow
  <1>3. CASE CompListSteps(a)
    <2> DEFINE c == [call[a] EXCEPT !.pc = "c_step", !.seen = step, !.at = Last]
    <2>1. "c_step" \in CompensatePC /\ Last \in 0 .. (Last + 1) /\ Last \in 0 .. Last
      BY DEF CompensatePC, Last
    <2>2. c \in CallRecord
      BY <1>0, <2>1 DEF TypeOK, CallRecord
    <2>3. c.pc = "c_step" /\ c.at = Last
      BY <1>0 DEF CallRecord
    <2>4. c \in CallState
      BY <2>1, <2>2, <2>3 DEF CallState, Positioned
    <2> QED
      BY <1>3, <2>4, Update DEF CompListSteps, TypeOK
  <1>4. CASE CompensateStep(a)
    <2> DEFINE c(pc, k, h) == [call[a] EXCEPT !.pc = pc, !.at = k, !.held = h]
    <2>1. PICK k \in 1 .. call[a].at, pc \in {"c_void", "c_mark"}, h \in {0, bill.version} :
            call' = [call EXCEPT ![a] = c(pc, k, h)]
      BY <1>4 DEF CompensateStep
    <2>2. k \in 1 .. Last /\ k \in 0 .. (Last + 1)
      BY <1>0, <1>4, <2>1 DEF CompensateStep, Positioned, Last
    <2>3. h \in Nat /\ pc \in CompensatePC
      BY <2>1 DEF TypeOK, CompensatePC
    <2>4. c(pc, k, h) \in CallRecord
      BY <1>0, <2>2, <2>3 DEF CallRecord
    <2>5. c(pc, k, h).pc = pc /\ c(pc, k, h).at = k
      BY <1>0 DEF CallRecord
    <2>6. c(pc, k, h) \in CallState
      BY <2>1, <2>2, <2>4, <2>5 DEF CallState, Positioned
    <2>7. call' \in [Actors -> CallState]
      <3> HIDE DEF c
      <3> QED
        BY <2>1, <2>6, Update DEF TypeOK
    <2>8. inspection' \in {"none", "dispatched", "cancelled"} /\ devices' \in BOOLEAN
      BY <1>4 DEF CompensateStep, TypeOK
    <2> QED
      BY <1>4, <2>7, <2>8 DEF CompensateStep, TypeOK
  <1>5. CASE VoidBill(a)
    <2>1. call' \in [Actors -> CallState]
      BY <1>5, GotoType, PositionedStep DEF VoidBill, CompensatePC
    <2>2. bill' \in [status : BillStatus \cup {"none"}, version : Nat]
      BY <1>5 DEF VoidBill, TypeOK, BillStatus
    <2> QED
      BY <1>5, <2>1, <2>2 DEF VoidBill, TypeOK
  <1>6. CASE MarkCompensated(a)
    <2> DEFINE c == [call[a] EXCEPT !.pc = "c_step", !.at = call[a].at - 1, !.held = 0]
    <2>1. call[a].at \in 1 .. Last /\ Current(a) \in Steps
      BY <1>6, PositionedStep DEF MarkCompensated
    <2>2. /\ call[a].at - 1 \in 0 .. (Last + 1) /\ call[a].at - 1 \in 0 .. Last
          /\ "c_step" \in CompensatePC
      BY <2>1 DEF CompensatePC, Last
    <2>3. c \in CallRecord
      BY <1>0, <2>2 DEF CallRecord
    <2>4. c.pc = "c_step" /\ c.at = call[a].at - 1
      BY <1>0 DEF CallRecord
    <2>5. c \in CallState
      BY <2>2, <2>3, <2>4 DEF CallState, Positioned
    <2>6. call' = [call EXCEPT ![a] = c]
      BY <1>6 DEF MarkCompensated
    <2>7. call' \in [Actors -> CallState]
      <3> HIDE DEF c
      <3> QED
        BY <2>5, <2>6, Update DEF TypeOK
    <2>8. step' \in [Steps -> StepRow]
      BY <1>6, <2>1, SetStepType DEF MarkCompensated, StepStatus, TypeOK
    <2> QED
      BY <1>6, <2>7, <2>8 DEF MarkCompensated, TypeOK
  <1>7. CASE CompFreshOrder(a)
    BY <1>7, ReadOrderType DEF CompFreshOrder, TypeOK, Straight, CompensatePC
  <1>8. CASE AbortOrder(a)
    <2>1. order' \in OrderRow
      BY <1>8, SetStatusType DEF AbortOrder, TypeOK, OrderRow, DeploymentStatus
    <2> QED
      BY <1>8, <2>1, ReturnType DEF AbortOrder, TypeOK, OrderRow
  <1>9. CASE CompensateErrors(a)
    <2> DEFINE c1(k) == [call[a] EXCEPT !.pc = "c_mark", !.at = k]
               c2 == [call[a] EXCEPT !.pc = "c_step", !.at = call[a].at - 1, !.held = 0]
    <2>0. "c_mark" \in CompensatePC /\ "c_step" \in CompensatePC
      BY DEF CompensatePC
    <2>4. UNCHANGED rows /\ budget' \in [Events -> Nat]
      <3>1. UNCHANGED rows /\ Spend("outage")
        BY <1>9 DEF CompensateErrors
      <3> QED
        BY <3>1 DEF TypeOK, Spend, Events
    <2>1. CASE \E k \in 1 .. call[a].at :
                 call[a].pc = "c_step" /\ call' = [call EXCEPT ![a] = c1(k)]
      <3>1. PICK k \in 1 .. call[a].at :
              call[a].pc = "c_step" /\ call' = [call EXCEPT ![a] = c1(k)]
        BY <2>1
      <3>2. k \in 1 .. Last /\ k \in 0 .. (Last + 1)
        BY <1>0, <3>1 DEF Positioned, Last
      <3>3. c1(k) \in CallRecord
        BY <1>0, <2>0, <3>2 DEF CallRecord
      <3>4. c1(k).pc = "c_mark" /\ c1(k).at = k
        BY <1>0 DEF CallRecord
      <3>5. c1(k) \in CallState
        BY <3>2, <3>3, <3>4 DEF CallState, Positioned
      <3> HIDE DEF c1
      <3>6. call' \in [Actors -> CallState]
        BY <3>1, <3>5, Update DEF TypeOK
      <3> QED
        BY <2>4, <3>6 DEF TypeOK
    <2>2. CASE call[a].pc = "c_mark" /\ call' = [call EXCEPT ![a] = c2]
      <3>1. call[a].at \in 1 .. Last
        BY <2>2, PositionedStep
      <3>2. call[a].at - 1 \in 0 .. (Last + 1) /\ call[a].at - 1 \in 0 .. Last
        BY <3>1 DEF Last
      <3>3. c2 \in CallRecord
        BY <1>0, <2>0, <3>2 DEF CallRecord
      <3>4. c2.pc = "c_step" /\ c2.at = call[a].at - 1
        BY <1>0 DEF CallRecord
      <3>5. c2 \in CallState
        BY <3>2, <3>3, <3>4 DEF CallState, Positioned
      <3> HIDE DEF c2
      <3>6. call' \in [Actors -> CallState]
        BY <2>2, <3>5, Update DEF TypeOK
      <3> QED
        BY <2>4, <3>6 DEF TypeOK
    <2>3. CASE \/ Return(a) \/ Goto(a, "c_abort")
               \/ call[a].pc = "c_void" /\ Goto(a, "c_mark")
      <3>1. call' \in [Actors -> CallState]
        BY <2>3, GotoType, ReturnType, PositionedStep DEF CompensatePC
      <3> QED
        BY <2>4, <3>1 DEF TypeOK
    <2> QED
      BY <1>9, <2>1, <2>2, <2>3 DEF CompensateErrors
  <1> QED
    BY <1>1, <1>2, <1>3, <1>4, <1>5, <1>6, <1>7, <1>8, <1>9 DEF Compensate

LEMMA EnvironmentType ==
  ASSUME TypeOK,
         (\E c \in Callers : StartCall(c) \/ Abandon(c)) \/ Restart \/ Others
  PROVE  TypeOK'
  <1> USE DEF rows
  <1>1. CASE \E c \in Callers : StartCall(c)
    BY <1>1, StartType, Update DEF StartCall, TypeOK, Actors, Spend, Events
  <1>2. CASE \E c \in Callers : Abandon(c)
    BY <1>2, ReturnType DEF Abandon, TypeOK, Actors, Spend, Events
  <1>3. CASE Restart
    BY <1>3, StartType, IdleType DEF Restart, TypeOK, Spend, Events
  <1>4. CASE UpdateResponsibility
    <2>1. order' \in OrderRow
      <3>1. order \in OrderRow /\ order.version + 1 \in Nat
        BY DEF TypeOK, OrderRow
      <3> QED
        BY <1>4, <3>1 DEF UpdateResponsibility, OrderRow
    <2> QED
      BY <1>4, <2>1 DEF UpdateResponsibility, TypeOK, OrderRow, Spend, Events
  <1>5. CASE Finance
    <2>1. bill' \in [status : BillStatus \cup {"none"}, version : Nat]
      <3>1. bill.version + 1 \in Nat
        BY DEF TypeOK
      <3> QED
        BY <1>5, <3>1 DEF Finance, TypeOK, BillStatus
    <2> QED
      BY <1>5, <2>1 DEF Finance, TypeOK, Spend, Events
  <1> QED
    BY <1>1, <1>2, <1>3, <1>4, <1>5 DEF Others

LEMMA TypeNext == TypeOK /\ [Next]_vars => TypeOK'
  <1> SUFFICES ASSUME TypeOK, [Next]_vars PROVE TypeOK'
    OBVIOUS
  <1>1. CASE UNCHANGED vars
    BY <1>1 DEF vars, rows, TypeOK
  <1> QED
    BY <1>1, ProvisionType, CompensateType, EnvironmentType DEF Next, Advance

(* Every row and every captured value keeps its type, for any set of        *)
(* callers and any number of calls, faults and restarts.                    *)
THEOREM TypeCorrect == Spec => []TypeOK
  BY TypeInit, TypeNext, PTL DEF Spec

--------------------------------------------------------------------------------
(* Versions.  A row that changes gets the next version, and a caller's list *)
(* is either kept, dropped, or read from the rows as they are.              *)

StepMove == \A s \in Steps : step'[s] = step[s] \/ step'[s].version = step[s].version + 1

SeenMove(a) ==
  \/ call'[a].seen = call[a].seen
  \/ call'[a].seen = NewSteps
  \/ call'[a].seen = step /\ step' = step

LEMMA SetStepMove ==
  ASSUME TypeOK, NEW s \in Steps, NEW to \in StepStatus, SetStep(s, to)
  PROVE  /\ StepMove
         /\ step'[s] = [status |-> to, version |-> step[s].version + 1]
         /\ step'[s].status = to
         /\ \A r \in Steps \ {s} : step'[r] = step[r]
  BY DEF TypeOK, SetStep, StepMove, StepRow

LEMMA StepMoves ==
  ASSUME TypeOK, [Next]_vars
  PROVE  StepMove
  <1> USE DEF rows
  <1>1. ASSUME step' = step PROVE StepMove
    BY <1>1 DEF StepMove
  <1>2. ASSUME NEW a \in Actors, Provision(a) PROVE StepMove
    <2>1. CASE MarkProcessing(a)
      <3>1. PICK k \in call[a].at .. Last :
              SetStep(OrderedSteps[k], "processing") \/ UNCHANGED step
        BY <2>1 DEF MarkProcessing
      <3>2. k \in 1 .. Last
        <4>1. Positioned(call[a]) /\ call[a].pc = "step"
          BY <2>1 DEF MarkProcessing, TypeOK, CallState
        <4> QED
          BY <3>1, <4>1 DEF Positioned, Last
      <3> QED
        BY <1>1, <3>1, <3>2, StepNames, SetStepMove DEF StepStatus
    <2>2. CASE ExecStep(a) \/ MarkFailed(a)
      BY <1>1, <2>2, PositionedStep, SetStepMove DEF ExecStep, MarkFailed, StepStatus
    <2>4. CASE ClaimErrors(a)
      <3>1. PICK k \in call[a].at .. Last :
              SetStep(OrderedSteps[k], "processing") \/ UNCHANGED step
        BY <2>4 DEF ClaimErrors
      <3>2. k \in 1 .. Last
        <4>1. Positioned(call[a]) /\ call[a].pc = "step"
          BY <2>4 DEF ClaimErrors, TypeOK, CallState
        <4> QED
          BY <3>1, <4>1 DEF Positioned, Last
      <3> QED
        BY <1>1, <3>1, <3>2, StepNames, SetStepMove DEF StepStatus
    <2>5. CASE ProvisionErrors(a)
      BY <1>1, <2>5 DEF ProvisionErrors
    <2>3. CASE GetOrder(a) \/ ClaimOrder(a) \/ ReloadOrder(a) \/ ListSteps(a)
               \/ ExecFails(a) \/ BumpRetry(a) \/ RegetOrder(a) \/ PendRetry(a)
               \/ FreshOrder(a) \/ Activate(a)
      BY <1>1, <2>3 DEF GetOrder, ClaimOrder, ReloadOrder, ListSteps, ExecFails,
           BumpRetry, RegetOrder, PendRetry, FreshOrder, Activate
    <2> QED
      BY <1>2, <2>1, <2>2, <2>3, <2>4, <2>5 DEF Provision
  <1>3. ASSUME NEW a \in Actors, Compensate(a) PROVE StepMove
    <2>1. CASE MarkCompensated(a)
      BY <1>1, <2>1, PositionedStep, SetStepMove DEF MarkCompensated, StepStatus
    <2>2. CASE CompGetOrder(a) \/ CompClaimOrder(a) \/ CompListSteps(a) \/ CompensateStep(a)
               \/ VoidBill(a) \/ CompFreshOrder(a) \/ AbortOrder(a) \/ CompensateErrors(a)
      BY <1>1, <2>2 DEF CompGetOrder, CompClaimOrder, CompListSteps, CompensateStep,
           VoidBill, CompFreshOrder, AbortOrder, CompensateErrors
    <2> QED
      BY <1>3, <2>1, <2>2 DEF Compensate
  <1>4. ASSUME (\E c \in Callers : StartCall(c) \/ Abandon(c)) \/ Restart \/ Others
        PROVE  StepMove
    BY <1>1, <1>4 DEF StartCall, Abandon, Restart, Others, UpdateResponsibility, Finance
  <1> QED
    BY <1>1, <1>2, <1>3, <1>4 DEF Next, Advance, vars

(* An action of one actor touches only that actor's captured values.        *)
LEMMA OthersKept ==
  ASSUME TypeOK, NEW a \in Actors, Advance(a), NEW b \in Actors, b # a
  PROVE  call'[b] = call[b]
  <1> USE DEF TypeOK, ReadOrder, Goto, Return
  <1>1. CASE GetOrder(a) \/ ClaimOrder(a) \/ ReloadOrder(a) \/ ListSteps(a) \/ MarkProcessing(a)
    BY <1>1 DEF GetOrder, ClaimOrder, ReloadOrder, ListSteps, MarkProcessing
  <1>2. CASE ExecStep(a) \/ ExecFails(a) \/ MarkFailed(a) \/ BumpRetry(a) \/ RegetOrder(a)
    BY <1>2 DEF ExecStep, ExecFails, MarkFailed, BumpRetry, RegetOrder
  <1>3. CASE PendRetry(a) \/ FreshOrder(a) \/ Activate(a)
    BY <1>3 DEF PendRetry, FreshOrder, Activate
  <1>4. CASE CompGetOrder(a) \/ CompClaimOrder(a) \/ CompListSteps(a) \/ CompensateStep(a)
    BY <1>4 DEF CompGetOrder, CompClaimOrder, CompListSteps, CompensateStep
  <1>5. CASE VoidBill(a) \/ MarkCompensated(a) \/ CompFreshOrder(a) \/ AbortOrder(a)
    BY <1>5 DEF VoidBill, MarkCompensated, CompFreshOrder, AbortOrder
  <1>6. CASE ClaimErrors(a) \/ ProvisionErrors(a) \/ CompensateErrors(a)
    BY <1>6 DEF ClaimErrors, ProvisionErrors, CompensateErrors
  <1> QED
    BY <1>1, <1>2, <1>3, <1>4, <1>5, <1>6 DEF Advance, Provision, Compensate

(* What any other step does to the captured values.                         *)
LEMMA EnvironmentCalls ==
  ASSUME TypeOK, NEW b \in Actors,
         (\E c \in Callers : StartCall(c) \/ Abandon(c)) \/ Restart \/ Others
  PROVE  call'[b] \in {call[b], Idle, Start("get"), Start("c_get")}
  BY DEF TypeOK, StartCall, Abandon, Restart, Others, UpdateResponsibility, Finance,
         Return, Actors

LEMMA IdleFields ==
  /\ Idle.seen = NewSteps /\ Idle.pc = "idle"
  /\ \A pc \in {"get", "c_get"} : Start(pc).seen = NewSteps /\ Start(pc).pc = pc
  BY DEF Idle, Start

(* What each form of update leaves in the actor's record.                   *)
LEMMA GotoFields ==
  ASSUME TypeOK, NEW a \in Actors, NEW pc, Goto(a, pc)
  PROVE  /\ call'[a].pc = pc /\ call'[a].seen = call[a].seen
         /\ call'[a].at = call[a].at /\ call'[a].held = call[a].held
  BY DEF TypeOK, CallState, CallRecord, Goto

LEMMA ReadOrderFields ==
  ASSUME TypeOK, NEW a \in Actors, NEW pc, call' = ReadOrder(a, pc)
  PROVE  /\ call'[a].pc = pc /\ call'[a].seen = call[a].seen
         /\ call'[a].status = order.status
  BY DEF TypeOK, CallState, CallRecord, ReadOrder

LEMMA ReturnFields ==
  ASSUME TypeOK, NEW a \in Actors, Return(a)
  PROVE  call'[a] = Idle /\ call'[a].pc = "idle" /\ call'[a].seen = NewSteps
  BY IdleFields DEF TypeOK, Return

LEMMA ListFields ==
  ASSUME TypeOK, NEW a \in Actors
  PROVE  /\ ListSteps(a) => call'[a].pc = "step" /\ call'[a].seen = step
         /\ CompListSteps(a) => call'[a].pc = "c_step" /\ call'[a].seen = step
  <1> DEFINE c(pc, k) == [call[a] EXCEPT !.pc = pc, !.seen = step, !.at = k]
  <1>1. call[a] \in CallRecord /\ call \in [Actors -> CallState]
    BY DEF TypeOK, CallState
  <1>2. \A pc, k : c(pc, k).pc = pc /\ c(pc, k).seen = step
    BY <1>1 DEF CallRecord
  <1>3. /\ ListSteps(a) => call' = [call EXCEPT ![a] = c("step", 1)]
        /\ CompListSteps(a) => call' = [call EXCEPT ![a] = c("c_step", Last)]
    BY DEF ListSteps, CompListSteps
  <1> HIDE DEF c
  <1> QED
    BY <1>1, <1>2, <1>3

(* A claim that succeeds holds the step's new version; one that fails moves *)
(* on.                                                                      *)
LEMMA MarkProcessingFields ==
  ASSUME TypeOK, NEW a \in Actors, MarkProcessing(a)
  PROVE  /\ call'[a].seen = call[a].seen
         /\ \/ call'[a].pc = "step" /\ step' = step
            \/ /\ call'[a].pc = "exec" /\ call'[a].at \in 1 .. Last
               /\ step[OrderedSteps[call'[a].at]].status \in {"pending", "failed"}
               /\ call'[a].held = step[OrderedSteps[call'[a].at]].version + 1
               /\ SetStep(OrderedSteps[call'[a].at], "processing")
  <1> DEFINE s(k) == OrderedSteps[k]
             c1(k) == [call[a] EXCEPT !.pc = "exec", !.at = k, !.held = step[s(k)].version + 1]
             c2(k) == [call[a] EXCEPT !.at = k + 1]
  <1>1. call[a] \in CallRecord /\ Positioned(call[a]) /\ call[a].pc = "step"
    BY DEF MarkProcessing, TypeOK, CallState
  <1>2. PICK k \in call[a].at .. Last :
          \/ /\ step[s(k)].status \in {"pending", "failed"}
             /\ SetStep(s(k), "processing") /\ call' = [call EXCEPT ![a] = c1(k)]
          \/ UNCHANGED step /\ call' = [call EXCEPT ![a] = c2(k)]
    BY DEF MarkProcessing, Claimable
  <1>3. k \in 1 .. Last
    BY <1>1, <1>2 DEF Positioned, Last
  <1>4. call \in [Actors -> CallState]
    BY DEF TypeOK
  <1>5. /\ c1(k).pc = "exec" /\ c1(k).at = k /\ c1(k).held = step[s(k)].version + 1
        /\ c1(k).seen = call[a].seen
    BY <1>1 DEF CallRecord
  <1>6. c2(k).pc = "step" /\ c2(k).seen = call[a].seen
    BY <1>1 DEF CallRecord
  <1> HIDE DEF c1, c2
  <1>7. CASE /\ step[s(k)].status \in {"pending", "failed"}
             /\ SetStep(s(k), "processing") /\ call' = [call EXCEPT ![a] = c1(k)]
    <2>1. call'[a] = c1(k)
      BY <1>4, <1>7
    <2> QED
      BY <1>3, <1>5, <1>7, <2>1
  <1>8. CASE UNCHANGED step /\ call' = [call EXCEPT ![a] = c2(k)]
    <2>1. call'[a] = c2(k)
      BY <1>4, <1>8
    <2> QED
      BY <1>6, <1>8, <2>1
  <1> QED
    BY <1>2, <1>7, <1>8

LEMMA ExecStepFields ==
  ASSUME TypeOK, NEW a \in Actors, ExecStep(a)
  PROVE  call'[a].pc = "step" /\ call'[a].seen = call[a].seen
  BY DEF TypeOK, CallState, CallRecord, ExecStep

LEMMA CompensateStepFields ==
  ASSUME TypeOK, NEW a \in Actors, CompensateStep(a)
  PROVE  /\ call'[a].pc \in {"c_void", "c_mark"} /\ call'[a].seen = call[a].seen
         /\ call'[a].at \in 1 .. Last /\ Seen(a, call'[a].at) = "done"
  <1> DEFINE c(pc, k, h) == [call[a] EXCEPT !.pc = pc, !.at = k, !.held = h]
  <1>1. call[a] \in CallRecord /\ Positioned(call[a]) /\ call[a].pc = "c_step"
    BY DEF CompensateStep, TypeOK, CallState
  <1>2. PICK k \in 1 .. call[a].at, pc \in {"c_void", "c_mark"}, h \in {0, bill.version} :
          Seen(a, k) = "done" /\ call' = [call EXCEPT ![a] = c(pc, k, h)]
    BY DEF CompensateStep, NextDone
  <1>3. k \in 1 .. Last
    BY <1>1, <1>2 DEF Positioned, Last
  <1>4. c(pc, k, h).pc = pc /\ c(pc, k, h).at = k /\ c(pc, k, h).seen = call[a].seen
    BY <1>1 DEF CallRecord
  <1>5. call \in [Actors -> CallState]
    BY DEF TypeOK
  <1> HIDE DEF c
  <1>6. call'[a] = c(pc, k, h)
    BY <1>2, <1>5
  <1> QED
    BY <1>2, <1>3, <1>4, <1>6

LEMMA MarkCompensatedFields ==
  ASSUME TypeOK, NEW a \in Actors, MarkCompensated(a)
  PROVE  call'[a].pc = "c_step" /\ call'[a].seen = call[a].seen
  BY DEF TypeOK, CallState, CallRecord, MarkCompensated

LEMMA ClaimErrorsFields ==
  ASSUME TypeOK, NEW a \in Actors, ClaimErrors(a)
  PROVE  /\ call[a].pc = "step" /\ call'[a].pc = "step" /\ call'[a].seen = call[a].seen
         /\ \/ step' = step
            \/ \E s \in Steps :
                 step[s].status \in {"pending", "failed"} /\ SetStep(s, "processing")
  <1> DEFINE s(k) == OrderedSteps[k]
             c(k) == [call[a] EXCEPT !.at = k + 1]
  <1>1. call[a] \in CallRecord /\ Positioned(call[a]) /\ call[a].pc = "step"
    BY DEF ClaimErrors, TypeOK, CallState
  <1>2. PICK k \in call[a].at .. Last :
          /\ \/ UNCHANGED step
             \/ step[s(k)].status \in {"pending", "failed"} /\ SetStep(s(k), "processing")
          /\ call' = [call EXCEPT ![a] = c(k)]
    BY DEF ClaimErrors, Claimable
  <1>3. s(k) \in Steps
    BY <1>1, <1>2, StepNames DEF Positioned, Last
  <1>4. c(k).pc = "step" /\ c(k).seen = call[a].seen
    BY <1>1 DEF CallRecord
  <1>5. call \in [Actors -> CallState]
    BY DEF TypeOK
  <1> HIDE DEF c, s
  <1>6. call'[a] = c(k)
    BY <1>2, <1>5
  <1> QED
    BY <1>1, <1>2, <1>3, <1>4, <1>6

LEMMA ProvisionErrorsFields ==
  ASSUME TypeOK, NEW a \in Actors, ProvisionErrors(a)
  PROVE  \/ call'[a].pc = "idle" /\ call'[a].seen = NewSteps
         \/ /\ call[a].pc \in {"mark_failed", "bump_retry"}
            /\ call'[a].pc \in {"bump_retry", "reget"} /\ call'[a].seen = call[a].seen
  BY GotoFields, ReturnFields DEF ProvisionErrors

(* How a call comes to be compensating a step.                              *)
Reversing(a) ==
  /\ call[a].pc \in {"c_step", "c_void", "c_mark"}
  /\ call'[a].seen = call[a].seen
  /\ \/ call'[a].pc \in {"c_step", "c_abort"}
     \/ call'[a].pc = "c_mark" /\ Seen(a, call'[a].at) = "done"
     \/ call'[a].pc = "c_mark" /\ call[a].pc = "c_void" /\ call'[a].at = call[a].at

LEMMA CompensateErrorsFields ==
  ASSUME TypeOK, NEW a \in Actors, CompensateErrors(a)
  PROVE  \/ call'[a].pc = "idle" /\ call'[a].seen = NewSteps
         \/ Reversing(a)
  <1> DEFINE c1(k) == [call[a] EXCEPT !.pc = "c_mark", !.at = k]
             c2 == [call[a] EXCEPT !.pc = "c_step", !.at = call[a].at - 1, !.held = 0]
  <1>1. call[a] \in CallRecord /\ call \in [Actors -> CallState]
    BY DEF TypeOK, CallState
  <1>2. /\ \A k : c1(k).pc = "c_mark" /\ c1(k).at = k /\ c1(k).seen = call[a].seen
        /\ c2.pc = "c_step" /\ c2.seen = call[a].seen
    BY <1>1 DEF CallRecord
  <1>3. \/ Return(a)
        \/ /\ call[a].pc = "c_step"
           /\ \E k \in 1 .. call[a].at :
                Seen(a, k) = "done" /\ call' = [call EXCEPT ![a] = c1(k)]
        \/ call[a].pc = "c_void" /\ Goto(a, "c_mark")
        \/ call[a].pc = "c_mark" /\ call' = [call EXCEPT ![a] = c2]
        \/ call[a].pc = "c_step" /\ Goto(a, "c_abort")
    BY DEF CompensateErrors, NextDone
  <1> HIDE DEF c1, c2
  <1>4. CASE Return(a)
    BY <1>4, ReturnFields
  <1>5. CASE /\ call[a].pc = "c_step"
             /\ \E k \in 1 .. call[a].at :
                  Seen(a, k) = "done" /\ call' = [call EXCEPT ![a] = c1(k)]
    <2>1. PICK k \in 1 .. call[a].at :
            Seen(a, k) = "done" /\ call' = [call EXCEPT ![a] = c1(k)]
      BY <1>5
    <2>2. call'[a] = c1(k)
      BY <1>1, <2>1
    <2> QED
      BY <1>2, <1>5, <2>1, <2>2 DEF Reversing
  <1>6. CASE call[a].pc = "c_mark" /\ call' = [call EXCEPT ![a] = c2]
    <2>1. call'[a] = c2
      BY <1>1, <1>6
    <2> QED
      BY <1>2, <1>6, <2>1 DEF Reversing
  <1>7. CASE \/ call[a].pc = "c_void" /\ Goto(a, "c_mark")
             \/ call[a].pc = "c_step" /\ Goto(a, "c_abort")
    BY <1>7, GotoFields DEF Reversing
  <1> QED
    BY <1>3, <1>4, <1>5, <1>6, <1>7

LEMMA SeenMoves ==
  ASSUME TypeOK, [Next]_vars, NEW b \in Actors
  PROVE  SeenMove(b)
  <1> USE DEF SeenMove
  <1>1. CASE UNCHANGED vars
    BY <1>1 DEF vars
  <1>2. CASE (\E c \in Callers : StartCall(c) \/ Abandon(c)) \/ Restart \/ Others
    BY <1>2, EnvironmentCalls, IdleFields
  <1>3. ASSUME NEW a \in Actors, Advance(a) PROVE SeenMove(b)
    <2>1. CASE b # a
      BY <1>3, <2>1, OthersKept
    <2>2. ASSUME b = a PROVE SeenMove(b)
      <3>1. CASE GetOrder(a) \/ ClaimOrder(a) \/ ReloadOrder(a)
        BY <3>1, <2>2, ReadOrderFields, ReturnFields, GotoFields
        DEF GetOrder, ClaimOrder, ReloadOrder
      <3>2. CASE ListSteps(a) \/ CompListSteps(a)
        BY <3>2, <2>2, ListFields DEF ListSteps, CompListSteps, rows
      <3>3. CASE MarkProcessing(a) \/ ExecStep(a) \/ CompensateStep(a) \/ MarkCompensated(a)
        BY <3>3, <2>2, MarkProcessingFields, ExecStepFields, CompensateStepFields,
           MarkCompensatedFields
      <3>4. CASE ExecFails(a) \/ MarkFailed(a) \/ BumpRetry(a)
        BY <3>4, <2>2, GotoFields DEF ExecFails, MarkFailed, BumpRetry
      <3>5. CASE RegetOrder(a) \/ PendRetry(a) \/ FreshOrder(a) \/ Activate(a)
        BY <3>5, <2>2, ReadOrderFields, ReturnFields
        DEF RegetOrder, PendRetry, FreshOrder, Activate
      <3>6. CASE CompGetOrder(a) \/ CompClaimOrder(a)
        BY <3>6, <2>2, ReadOrderFields, ReturnFields, GotoFields
        DEF CompGetOrder, CompClaimOrder
      <3>7. CASE VoidBill(a) \/ CompFreshOrder(a) \/ AbortOrder(a)
        BY <3>7, <2>2, ReadOrderFields, ReturnFields, GotoFields
        DEF VoidBill, CompFreshOrder, AbortOrder
      <3>8. CASE ClaimErrors(a) \/ ProvisionErrors(a) \/ CompensateErrors(a)
        BY <3>8, <2>2, ClaimErrorsFields, ProvisionErrorsFields, CompensateErrorsFields
        DEF Reversing
      <3> QED
        BY <1>3, <3>1, <3>2, <3>3, <3>4, <3>5, <3>6, <3>7, <3>8 DEF Advance, Provision, Compensate
    <2> QED
      BY <2>1, <2>2
  <1> QED
    BY <1>1, <1>2, <1>3 DEF Next

LEMMA SnapshotsNext ==
  ASSUME TypeOK, SnapshotsHold, [Next]_vars
  PROVE  SnapshotsHold'
  <1>0. \A s \in Steps : step[s] \in StepRow /\ step'[s] \in StepRow /\ NewSteps[s] \in StepRow
    BY TypeNext, NewStepsType DEF TypeOK
  <1>1. \A s \in Steps, r \in StepRow : Snapshot(r, s) => Snapshot(r, s)'
    BY <1>0, StepMoves DEF StepMove, Snapshot, StepRow
  <1>2. \A s \in Steps : step' = step => Snapshot(step[s], s)'
    BY <1>0 DEF Snapshot, StepRow
  <1>3. \A s \in Steps : Snapshot(NewSteps[s], s)'
    BY <1>0, <1>1 DEF SnapshotsHold
  <1>4. \A s \in Steps, a \in Actors : call[a].seen[s] \in StepRow
    BY DEF TypeOK, CallState, CallRecord
  <1>5. ASSUME NEW s \in Steps, NEW a \in Actors
        PROVE  Snapshot(call[a].seen[s], s)'
    <2>1. CASE call'[a].seen = call[a].seen
      <3>1. Snapshot(call[a].seen[s], s)
        BY DEF SnapshotsHold
      <3> QED
        BY <1>1, <1>4, <2>1, <3>1 DEF Snapshot
    <2>2. CASE call'[a].seen = NewSteps
      BY <1>3, <2>2 DEF Snapshot
    <2>3. CASE call'[a].seen = step /\ step' = step
      BY <1>2, <2>3 DEF Snapshot
    <2> QED
      BY <2>1, <2>2, <2>3, SeenMoves DEF SeenMove
  <1>6. \A s \in Steps : Snapshot(NewSteps[s], s)'
    BY <1>3
  <1> QED
    BY <1>5, <1>6 DEF SnapshotsHold

--------------------------------------------------------------------------------
(* Claims.                                                                  *)

(* How a call comes to be between its claim and its outcome.                *)
HoldMove(a) ==
  \/ /\ call'[a].at \in 1 .. Last
     /\ step[OrderedSteps[call'[a].at]].status \in {"pending", "failed"}
     /\ call'[a].held = step[OrderedSteps[call'[a].at]].version + 1
     /\ SetStep(OrderedSteps[call'[a].at], "processing")
  \/ /\ Holding(a) /\ call'[a].at = call[a].at /\ call'[a].held = call[a].held
     /\ step' = step

LEMMA HoldMoves ==
  ASSUME TypeOK, NEW a \in Actors, Advance(a), Holding(a)'
  PROVE  HoldMove(a)
  <1>0. call'[a].pc \in {"exec", "mark_failed"}
    BY DEF Holding
  <1>1. CASE MarkProcessing(a)
    BY <1>0, <1>1, MarkProcessingFields DEF HoldMove
  <1>2. CASE ExecFails(a)
    BY <1>2, GotoFields DEF ExecFails, HoldMove, Holding, rows
  <1>3. CASE GetOrder(a) \/ ClaimOrder(a) \/ ReloadOrder(a)
    BY <1>0, <1>3, ReadOrderFields, ReturnFields, GotoFields DEF GetOrder, ClaimOrder, ReloadOrder
  <1>4. CASE ListSteps(a) \/ CompListSteps(a)
    BY <1>0, <1>4, ListFields
  <1>5. CASE ExecStep(a) \/ CompensateStep(a) \/ MarkCompensated(a)
    BY <1>0, <1>5, ExecStepFields, CompensateStepFields, MarkCompensatedFields
  <1>6. CASE MarkFailed(a) \/ BumpRetry(a)
    BY <1>0, <1>6, GotoFields DEF MarkFailed, BumpRetry
  <1>7. CASE RegetOrder(a) \/ PendRetry(a) \/ FreshOrder(a) \/ Activate(a)
    BY <1>0, <1>7, ReadOrderFields, ReturnFields DEF RegetOrder, PendRetry, FreshOrder, Activate
  <1>8. CASE CompGetOrder(a) \/ CompClaimOrder(a)
    BY <1>0, <1>8, ReadOrderFields, ReturnFields, GotoFields DEF CompGetOrder, CompClaimOrder
  <1>9. CASE VoidBill(a) \/ CompFreshOrder(a) \/ AbortOrder(a)
    BY <1>0, <1>9, ReadOrderFields, ReturnFields, GotoFields DEF VoidBill, CompFreshOrder, AbortOrder
  <1>10. CASE ClaimErrors(a) \/ ProvisionErrors(a) \/ CompensateErrors(a)
    BY <1>0, <1>10, ClaimErrorsFields, ProvisionErrorsFields, CompensateErrorsFields DEF Reversing
  <1> QED
    BY <1>1, <1>2, <1>3, <1>4, <1>5, <1>6, <1>7, <1>8, <1>9, <1>10
    DEF Advance, Provision, Compensate

LEMMA ReverseMoves ==
  ASSUME TypeOK, NEW a \in Actors, Advance(a), call'[a].pc \in {"c_void", "c_mark"}
  PROVE  /\ call'[a].seen = call[a].seen
         /\ \/ Seen(a, call'[a].at) = "done"
            \/ call[a].pc \in {"c_void", "c_mark"} /\ call'[a].at = call[a].at
  <1>1. CASE MarkProcessing(a)
    BY <1>1, MarkProcessingFields
  <1>2. CASE ExecFails(a) \/ MarkFailed(a) \/ BumpRetry(a)
    BY <1>2, GotoFields DEF ExecFails, MarkFailed, BumpRetry
  <1>3. CASE GetOrder(a) \/ ClaimOrder(a) \/ ReloadOrder(a)
    BY <1>3, ReadOrderFields, ReturnFields, GotoFields DEF GetOrder, ClaimOrder, ReloadOrder
  <1>4. CASE ListSteps(a) \/ CompListSteps(a)
    BY <1>4, ListFields
  <1>5. CASE ExecStep(a) \/ CompensateStep(a) \/ MarkCompensated(a)
    BY <1>5, ExecStepFields, CompensateStepFields, MarkCompensatedFields
  <1>6. CASE RegetOrder(a) \/ PendRetry(a) \/ FreshOrder(a) \/ Activate(a)
    BY <1>6, ReadOrderFields, ReturnFields DEF RegetOrder, PendRetry, FreshOrder, Activate
  <1>7. CASE CompGetOrder(a) \/ CompClaimOrder(a)
    BY <1>7, ReadOrderFields, ReturnFields, GotoFields DEF CompGetOrder, CompClaimOrder
  <1>8. CASE VoidBill(a)
    BY <1>8, GotoFields DEF VoidBill
  <1>9. CASE CompFreshOrder(a) \/ AbortOrder(a)
    BY <1>9, ReadOrderFields, ReturnFields DEF CompFreshOrder, AbortOrder
  <1>10. CASE ClaimErrors(a) \/ ProvisionErrors(a) \/ CompensateErrors(a)
    BY <1>10, ClaimErrorsFields, ProvisionErrorsFields, CompensateErrorsFields DEF Reversing
  <1> QED
    BY <1>1, <1>2, <1>3, <1>4, <1>5, <1>6, <1>7, <1>8, <1>9, <1>10
    DEF Advance, Provision, Compensate

(* A step row is changed by the call that owns it, by a claim on a step     *)
(* nobody owns, or by compensation of a done step.                          *)
LEMMA StepChange ==
  ASSUME TypeOK, SnapshotsHold, ClaimsHold, NEW a \in Actors, Advance(a), NEW s \in Steps
  PROVE  \/ step'[s] = step[s]
         \/ Holding(a) /\ s = Current(a) /\ (ExecStep(a) \/ step'[s].status = "failed")
         \/ step[s].status \in {"pending", "failed"} /\ step'[s].status = "processing"
         \/ step[s].status = "done" /\ step'[s].status = "compensated"
  <1> USE DEF rows
  <1>1. CASE MarkProcessing(a)
    <2> DEFINE r == OrderedSteps[call'[a].at]
    <2>1. CASE step' = step
      BY <2>1
    <2>2. CASE /\ r \in Steps /\ step[r].status \in {"pending", "failed"}
               /\ SetStep(r, "processing")
      <3>1. step'[r].status = "processing" /\ \A q \in Steps \ {r} : step'[q] = step[q]
        BY <2>2, SetStepMove DEF StepStatus
      <3> QED
        BY <2>2, <3>1
    <2> QED
      BY <1>1, <2>1, <2>2, MarkProcessingFields, StepNames
  <1>2. CASE ExecStep(a)
    BY <1>2, PositionedStep, SetStepMove DEF ExecStep, Holding, StepStatus
  <1>3. CASE MarkFailed(a)
    <2>1. Current(a) \in Steps /\ Holding(a)
      BY <1>3, PositionedStep DEF MarkFailed, Holding
    <2>2. CASE step' = step
      BY <2>2
    <2>3. CASE SetStep(Current(a), "failed")
      <3>1. /\ step'[Current(a)].status = "failed"
            /\ \A q \in Steps \ {Current(a)} : step'[q] = step[q]
        BY <2>1, <2>3, SetStepMove DEF StepStatus
      <3> QED
        BY <2>1, <3>1
    <2> QED
      BY <1>3, <2>2, <2>3 DEF MarkFailed
  <1>4. CASE MarkCompensated(a)
    <2>1. Current(a) \in Steps /\ call[a].seen[Current(a)].status = "done"
      BY <1>4, PositionedStep DEF MarkCompensated, ClaimsHold, Seen, Current
    <2>2. CASE step' = step
      BY <2>2
    <2>3. CASE /\ step[Current(a)].version = call[a].seen[Current(a)].version
               /\ SetStep(Current(a), "compensated")
      <3>1. step[Current(a)].status = "done"
        BY <2>1, <2>3 DEF SnapshotsHold, Snapshot
      <3>2. /\ step'[Current(a)].status = "compensated"
            /\ \A q \in Steps \ {Current(a)} : step'[q] = step[q]
        BY <2>1, <2>3, SetStepMove DEF StepStatus
      <3> QED
        BY <3>1, <3>2
    <2> QED
      BY <1>4, <2>2, <2>3 DEF MarkCompensated
  <1>5. CASE GetOrder(a) \/ ClaimOrder(a) \/ ReloadOrder(a) \/ ListSteps(a)
             \/ ExecFails(a) \/ BumpRetry(a) \/ RegetOrder(a) \/ PendRetry(a)
             \/ FreshOrder(a) \/ Activate(a) \/ ProvisionErrors(a)
    BY <1>5 DEF GetOrder, ClaimOrder, ReloadOrder, ListSteps, ExecFails, BumpRetry,
         RegetOrder, PendRetry, FreshOrder, Activate, ProvisionErrors
  <1>6. CASE CompGetOrder(a) \/ CompClaimOrder(a) \/ CompListSteps(a) \/ CompensateStep(a)
             \/ VoidBill(a) \/ CompFreshOrder(a) \/ AbortOrder(a) \/ CompensateErrors(a)
    BY <1>6 DEF CompGetOrder, CompClaimOrder, CompListSteps, CompensateStep, VoidBill,
         CompFreshOrder, AbortOrder, CompensateErrors
  <1>7. CASE ClaimErrors(a)
    <2>1. CASE step' = step
      BY <2>1
    <2>2. ASSUME NEW r \in Steps, step[r].status \in {"pending", "failed"},
                 SetStep(r, "processing")
          PROVE  \/ step'[s] = step[s]
                 \/ step[s].status \in {"pending", "failed"} /\ step'[s].status = "processing"
      <3>1. step'[r].status = "processing" /\ \A q \in Steps \ {r} : step'[q] = step[q]
        BY <2>2, SetStepMove DEF StepStatus
      <3> QED
        BY <2>2, <3>1
    <2> QED
      BY <1>7, <2>1, <2>2, ClaimErrorsFields
  <1> QED
    BY <1>1, <1>2, <1>3, <1>4, <1>5, <1>6, <1>7 DEF Advance, Provision, Compensate

LEMMA EnvironmentSteps ==
  ASSUME (\E c \in Callers : StartCall(c) \/ Abandon(c)) \/ Restart \/ Others
  PROVE  step' = step
  BY DEF StartCall, Abandon, Restart, Others, UpdateResponsibility, Finance, rows

LEMMA ClaimsNext ==
  ASSUME TypeOK, SnapshotsHold, ClaimsHold, [Next]_vars
  PROVE  ClaimsHold'
  <1>1. CASE UNCHANGED vars
    BY <1>1 DEF ClaimsHold, Holding, Seen, Current, vars, rows
  <1>2. CASE (\E c \in Callers : StartCall(c) \/ Abandon(c)) \/ Restart \/ Others
    <2>1. \A b \in Actors : call'[b] = call[b] \/ call'[b].pc \in {"idle", "get", "c_get"}
      BY <1>2, EnvironmentCalls, IdleFields
    <2> QED
      BY <1>2, <2>1, EnvironmentSteps DEF ClaimsHold, Holding, Seen, Current
  <1>3. ASSUME NEW a \in Actors, Advance(a) PROVE ClaimsHold'
    <2>1. ASSUME NEW b \in Actors, (call[b].pc \in {"c_void", "c_mark"})'
          PROVE  (Seen(b, call[b].at) = "done")'
      <3>1. CASE b # a
        BY <1>3, <2>1, <3>1, OthersKept DEF ClaimsHold, Seen
      <3>2. CASE b = a
        BY <1>3, <2>1, <3>2, ReverseMoves DEF ClaimsHold, Seen
      <3> QED
        BY <3>1, <3>2
    <2>2. ASSUME NEW b \in Actors, Holding(b)', b # a
          PROVE  /\ Holding(b) /\ call'[b] = call[b] /\ Current(b) \in Steps
                 /\ step[Current(b)].status = "processing"
                 /\ Holding(a) => Current(a) # Current(b)
                 /\ step'[Current(b)] = step[Current(b)]
      <3>1. Holding(b) /\ call'[b] = call[b]
        BY <1>3, <2>2, OthersKept DEF Holding
      <3>2. Current(b) \in Steps
        BY <3>1, PositionedStep DEF Holding
      <3>3. step[Current(b)].status = "processing"
        <4>1. step[Current(b)] = [status |-> "processing", version |-> call[b].held]
          BY <3>1 DEF ClaimsHold
        <4> QED
          BY <4>1
      <3>4. Holding(a) => Current(a) # Current(b)
        BY <2>2, <3>1 DEF ClaimsHold
      <3> QED
        BY <1>3, <3>1, <3>2, <3>3, <3>4, StepChange
    <2>3. ASSUME NEW b \in Actors, Holding(b)'
          PROVE  (step[Current(b)] = [status |-> "processing", version |-> call[b].held])'
      <3>1. CASE b # a
        BY <2>2, <2>3, <3>1 DEF ClaimsHold, Current
      <3>2. CASE b = a
        <4>1. HoldMove(a)
          BY <1>3, <2>3, <3>2, HoldMoves
        <4>2. CASE /\ call'[a].at \in 1 .. Last
                   /\ call'[a].held = step[OrderedSteps[call'[a].at]].version + 1
                   /\ SetStep(OrderedSteps[call'[a].at], "processing")
          BY <3>2, <4>2, StepNames, SetStepMove DEF StepStatus, Current
        <4>3. CASE /\ Holding(a) /\ call'[a].at = call[a].at /\ call'[a].held = call[a].held
                   /\ step' = step
          BY <3>2, <4>3 DEF ClaimsHold, Current
        <4> QED
          BY <4>1, <4>2, <4>3 DEF HoldMove
      <3> QED
        BY <3>1, <3>2
    <2>4. ASSUME NEW b \in Actors, Holding(a)', Holding(b)', (Current(a) = Current(b))'
          PROVE  a = b
      <3> SUFFICES ASSUME b # a PROVE FALSE
        OBVIOUS
      <3>1. HoldMove(a)
        BY <1>3, <2>4, HoldMoves
      <3>2. Current(b)' = Current(b)
        BY <2>2, <2>4 DEF Current
      <3> QED
        BY <2>2, <2>4, <3>1, <3>2 DEF HoldMove, Current
    <2>5. ASSUME NEW b \in Actors, NEW d \in Actors,
                 Holding(b)', Holding(d)', (Current(b) = Current(d))'
          PROVE  b = d
      <3>1. CASE b = a \/ d = a
        BY <2>4, <2>5, <3>1
      <3>2. CASE b # a /\ d # a
        <4>1. /\ Holding(b) /\ call'[b] = call[b]
              /\ Holding(d) /\ call'[d] = call[d]
          BY <2>2, <2>5, <3>2
        <4>2. Current(b) = Current(d)
          BY <2>5, <4>1 DEF Current
        <4> QED
          BY <4>1, <4>2 DEF ClaimsHold
      <3> QED
        BY <3>1, <3>2
    <2> QED
      BY <2>1, <2>3, <2>5 DEF ClaimsHold
  <1> QED
    BY <1>1, <1>2, <1>3 DEF Next

--------------------------------------------------------------------------------
(* The status of the order.                                                 *)

Claiming == {"draft", "provisioning", "pending_retry"}

LEMMA StatusKept ==
  ASSUME TypeOK, NEW to, SetStatus(to)
  PROVE  order'.status = to /\ order'.trial_id = order.trial_id
  BY DEF TypeOK, SetStatus

LEMMA VersionBumped ==
  ASSUME TypeOK, order' = [order EXCEPT !.version = @ + 1]
  PROVE  order'.status = order.status /\ order'.trial_id = order.trial_id
  BY DEF TypeOK

LEMMA TrialLinked ==
  ASSUME TypeOK, order' = [order EXCEPT !.trial_id = TRUE, !.version = @ + 1]
  PROVE  order'.status = order.status /\ order'.trial_id = TRUE
  BY DEF TypeOK

(* Every way the order's status changes.                                    *)
StatusMove ==
  \/ order'.status = order.status
  \/ order.status \in Claiming /\ order'.status = "provisioning"
  \/ order.status = "provisioning" /\ order'.status \in {"pending_retry", "active"}
  \/ order.status \notin {"draft", "aborted"} /\ order'.status = "compensating"
  \/ order.status = "compensating" /\ order'.status = "aborted"

LEMMA StatusMoves ==
  ASSUME TypeOK, StatusKnown, [Next]_vars
  PROVE  StatusMove
  <1> USE DEF StatusMove, Claiming, rows
  <1>1. CASE UNCHANGED vars
    BY <1>1 DEF vars
  <1>2. CASE (\E c \in Callers : StartCall(c) \/ Abandon(c)) \/ Restart \/ Others
    BY <1>2, VersionBumped DEF StartCall, Abandon, Restart, Others, UpdateResponsibility, Finance
  <1>3. ASSUME NEW a \in Actors, Provision(a) PROVE StatusMove
    <2>1. CASE ClaimOrder(a)
      <3>1. call[a].status \in Claiming
        BY <2>1 DEF ClaimOrder, StatusKnown
      <3> QED
        BY <2>1, <3>1, StatusKept DEF ClaimOrder, StatusMatches
    <2>2. CASE ExecStep(a)
      BY <2>2, TrialLinked DEF ExecStep
    <2>3. CASE BumpRetry(a)
      BY <2>3, VersionBumped DEF BumpRetry
    <2>4. CASE PendRetry(a) \/ Activate(a)
      BY <2>4, StatusKept DEF PendRetry, Activate, StatusMatches
    <2>5. CASE GetOrder(a) \/ ReloadOrder(a) \/ ListSteps(a) \/ MarkProcessing(a)
               \/ ExecFails(a) \/ MarkFailed(a) \/ RegetOrder(a) \/ FreshOrder(a)
               \/ ClaimErrors(a) \/ ProvisionErrors(a)
      BY <2>5 DEF GetOrder, ReloadOrder, ListSteps, MarkProcessing, ExecFails, MarkFailed,
           RegetOrder, FreshOrder, ClaimErrors, ProvisionErrors
    <2> QED
      BY <1>3, <2>1, <2>2, <2>3, <2>4, <2>5 DEF Provision
  <1>4. ASSUME NEW a \in Actors, Compensate(a) PROVE StatusMove
    <2>1. CASE CompClaimOrder(a)
      <3>1. call[a].status \notin {"draft", "aborted"}
        BY <2>1 DEF CompClaimOrder, StatusKnown
      <3> QED
        BY <2>1, <3>1, StatusKept DEF CompClaimOrder, StatusMatches
    <2>2. CASE AbortOrder(a)
      BY <2>2, StatusKept DEF AbortOrder, StatusMatches
    <2>3. CASE CompGetOrder(a) \/ CompListSteps(a) \/ CompensateStep(a) \/ VoidBill(a)
               \/ MarkCompensated(a) \/ CompFreshOrder(a) \/ CompensateErrors(a)
      BY <2>3 DEF CompGetOrder, CompListSteps, CompensateStep, VoidBill, MarkCompensated,
           CompFreshOrder, CompensateErrors
    <2> QED
      BY <1>4, <2>1, <2>2, <2>3 DEF Compensate
  <1> QED
    BY <1>1, <1>2, <1>3, <1>4 DEF Next, Advance

(* Compensation is never undone, and an order never returns to draft.       *)
LEMMA StatusForward ==
  ASSUME TypeOK, StatusKnown, [Next]_vars
  PROVE  /\ order.status \in Closing => order'.status \in Closing
         /\ order.status # "draft" => order'.status # "draft"
  BY StatusMoves DEF StatusMove, Claiming, Closing

(* What the position of one call says about the status of the order.        *)
Knows(b) ==
  /\ call[b].pc = "claim" => call[b].status \in Claiming
  /\ call[b].pc = "c_claim" => call[b].status \notin {"draft", "aborted"}
  /\ call[b].pc \in CompensatePC \ {"c_get", "c_claim"} => order.status \in Closing
  /\ call[b].pc \in ProvisionPC \ {"get", "claim"} => order.status # "draft"

LEMMA KnowsAll == StatusKnown <=> \A b \in Actors : Knows(b)
  BY DEF StatusKnown, Knows, Claiming

LEMMA Sources ==
  \A st \in DeploymentStatus :
    /\ st \notin {"active", "aborted", "compensating"}
         /\ AssertTransition(deploymentTransitions, st, "provisioning") => st \in Claiming
    /\ st # "aborted"
         /\ AssertTransition(deploymentTransitions, st, "compensating")
         => st \notin {"draft", "aborted"}
  BY DEF DeploymentStatus, AssertTransition, deploymentTransitions, Claiming

LEMMA OwnKnowledge ==
  ASSUME TypeOK, StatusKnown, NEW a \in Actors, Advance(a)
  PROVE  Knows(a)'
  <1> DEFINE In == ProvisionPC \ {"get", "claim"}
             Out == CompensatePC \ {"c_get", "c_claim"}
  <1>a. SUFFICES /\ call'[a].pc = "claim" => call'[a].status \in Claiming
                 /\ call'[a].pc = "c_claim" => call'[a].status \notin {"draft", "aborted"}
                 /\ call'[a].pc \in Out => order'.status \in Closing
                 /\ call'[a].pc \in In => order'.status # "draft"
    BY DEF Knows
  <1>b. [Next]_vars
    BY DEF Next
  <1>c. /\ call[a].pc \in Out => order'.status \in Closing
        /\ call[a].pc \in In => order'.status # "draft"
    BY <1>b, KnowsAll, StatusForward DEF Knows
  <1> USE DEF ProvisionPC, CompensatePC
  <1>1. CASE GetOrder(a)
    <2>1. order.status \in DeploymentStatus
      BY DEF TypeOK
    <2> QED
      BY <1>1, <2>1, Sources, ReadOrderFields, ReturnFields DEF GetOrder
  <1>2. CASE ClaimOrder(a)
    BY <1>2, StatusKept, GotoFields, ReturnFields DEF ClaimOrder
  <1>3. CASE ReloadOrder(a) \/ RegetOrder(a) \/ FreshOrder(a)
    BY <1>3, <1>c, ReadOrderFields DEF ReloadOrder, RegetOrder, FreshOrder
  <1>4. CASE ListSteps(a)
    BY <1>4, <1>c, ListFields DEF ListSteps
  <1>5. CASE MarkProcessing(a)
    BY <1>5, <1>c, MarkProcessingFields DEF MarkProcessing
  <1>6. CASE ExecStep(a)
    BY <1>6, <1>c, ExecStepFields DEF ExecStep
  <1>7. CASE ExecFails(a) \/ MarkFailed(a) \/ BumpRetry(a)
    BY <1>7, <1>c, GotoFields DEF ExecFails, MarkFailed, BumpRetry
  <1>8. CASE PendRetry(a) \/ Activate(a) \/ AbortOrder(a)
    BY <1>8, ReturnFields DEF PendRetry, Activate, AbortOrder
  <1>9. CASE CompGetOrder(a)
    <2>1. order.status \in DeploymentStatus
      BY DEF TypeOK
    <2> QED
      BY <1>9, <2>1, Sources, ReadOrderFields, ReturnFields DEF CompGetOrder
  <1>10. CASE CompClaimOrder(a)
    BY <1>10, StatusKept, GotoFields, ReturnFields DEF CompClaimOrder, Closing
  <1>11. CASE CompListSteps(a)
    BY <1>11, <1>c, ListFields DEF CompListSteps
  <1>12. CASE CompensateStep(a)
    BY <1>12, <1>c, CompensateStepFields DEF CompensateStep
  <1>13. CASE VoidBill(a)
    BY <1>13, <1>c, GotoFields DEF VoidBill
  <1>14. CASE MarkCompensated(a)
    BY <1>14, <1>c, MarkCompensatedFields DEF MarkCompensated
  <1>15. CASE CompFreshOrder(a)
    BY <1>15, <1>c, ReadOrderFields DEF CompFreshOrder
  <1>16. CASE ClaimErrors(a) \/ ProvisionErrors(a)
    BY <1>16, <1>c, ClaimErrorsFields, ProvisionErrorsFields
  <1>17. CASE CompensateErrors(a)
    BY <1>17, <1>c, CompensateErrorsFields DEF Reversing
  <1> QED
    BY <1>1, <1>2, <1>3, <1>4, <1>5, <1>6, <1>7, <1>8, <1>9, <1>10, <1>11, <1>12, <1>13,
       <1>14, <1>15, <1>16, <1>17 DEF Advance, Provision, Compensate

LEMMA StatusNext ==
  ASSUME TypeOK, StatusKnown, [Next]_vars
  PROVE  StatusKnown'
  <1>1. ASSUME NEW b \in Actors, call'[b] = call[b] PROVE Knows(b)'
    BY <1>1, KnowsAll, StatusForward DEF Knows
  <1>2. ASSUME NEW b \in Actors PROVE Knows(b)'
    <2>1. CASE UNCHANGED vars
      BY <1>1, <2>1 DEF vars
    <2>2. CASE (\E c \in Callers : StartCall(c) \/ Abandon(c)) \/ Restart \/ Others
      <3>1. call'[b] = call[b] \/ call'[b].pc \in {"idle", "get", "c_get"}
        BY <2>2, EnvironmentCalls, IdleFields
      <3> QED
        BY <1>1, <3>1 DEF Knows, ProvisionPC, CompensatePC
    <2>3. ASSUME NEW a \in Actors, Advance(a) PROVE Knows(b)'
      BY <1>1, <2>3, OthersKept, OwnKnowledge
    <2> QED
      BY <2>1, <2>2, <2>3 DEF Next
  <1>3. \A b \in Actors : Knows(b)'
    BY <1>2
  <1> QED
    BY <1>3 DEF StatusKnown, Knows, Claiming

--------------------------------------------------------------------------------
(* Effects.                                                                 *)

IsCommitted(s) == step[s].status \in Committed

(* Only the transaction of execStep commits a step, and nothing uncommits   *)
(* one.                                                                     *)
LEMMA CommitMoves ==
  ASSUME TypeOK, SnapshotsHold, ClaimsHold, [Next]_vars, NEW s \in Steps
  PROVE  \/ IsCommitted(s)' = IsCommitted(s)
         \/ \E a \in Actors : ExecStep(a) /\ s = Current(a)
  <1>1. CASE step'[s] = step[s]
    BY <1>1 DEF IsCommitted
  <1>2. CASE UNCHANGED vars
    BY <1>2 DEF vars, rows, IsCommitted
  <1>3. CASE (\E c \in Callers : StartCall(c) \/ Abandon(c)) \/ Restart \/ Others
    BY <1>3, EnvironmentSteps DEF IsCommitted
  <1>4. ASSUME NEW a \in Actors, Advance(a), ~(ExecStep(a) /\ s = Current(a)), step'[s] # step[s]
        PROVE  IsCommitted(s)' = IsCommitted(s)
    <2>1. CASE Holding(a) /\ s = Current(a) /\ step'[s].status = "failed"
      <3>1. step[s] = [status |-> "processing", version |-> call[a].held]
        BY <2>1 DEF ClaimsHold
      <3>2. step[s].status = "processing"
        BY <3>1
      <3> QED
        BY <2>1, <3>2 DEF IsCommitted, Committed
    <2>2. CASE step[s].status \in {"pending", "failed"} /\ step'[s].status = "processing"
      BY <2>2 DEF IsCommitted, Committed
    <2>3. CASE step[s].status = "done" /\ step'[s].status = "compensated"
      BY <2>3 DEF IsCommitted, Committed
    <2> QED
      BY <1>4, <2>1, <2>2, <2>3, StepChange
  <1> QED
    BY <1>1, <1>2, <1>3, <1>4 DEF Next

LEMMA ExecCommits ==
  ASSUME TypeOK, ClaimsHold, NEW a \in Actors, ExecStep(a)
  PROVE  \E s \in Steps :
           /\ s = Current(a) /\ ~IsCommitted(s) /\ IsCommitted(s)'
           /\ \A r \in Steps \ {s} : IsCommitted(r)' = IsCommitted(r)
  <1>1. Current(a) \in Steps /\ Holding(a)
    BY PositionedStep DEF ExecStep, Holding
  <1>2. PICK s \in Steps : s = Current(a)
    BY <1>1
  <1>3. step[s] = [status |-> "processing", version |-> call[a].held]
    BY <1>1, <1>2 DEF ClaimsHold
  <1>4. step[s].status = "processing"
    BY <1>3
  <1>5. step'[s].status = "done" /\ \A r \in Steps \ {s} : step'[r] = step[r]
    BY <1>2, SetStepMove DEF ExecStep, StepStatus
  <1> QED
    BY <1>2, <1>4, <1>5 DEF IsCommitted, Committed

(* The effects that an action other than execStep leaves as they are.       *)
LEMMA EffectsKept ==
  ASSUME TypeOK, StatusKnown, [Next]_vars, \A a \in Actors : ~ExecStep(a)
  PROVE  /\ trial' = trial /\ order'.trial_id = order.trial_id
         /\ (inspection' = "none") = (inspection = "none")
         /\ bill.status # "none" => bill'.status # "none"
         /\ devices' = devices \/ order'.status \in Closing
  <1> USE DEF rows
  <1>1. CASE UNCHANGED vars
    BY <1>1 DEF vars
  <1>2. CASE \/ \E c \in Callers : StartCall(c) \/ Abandon(c)
             \/ Restart \/ UpdateResponsibility
    BY <1>2, VersionBumped DEF StartCall, Abandon, Restart, UpdateResponsibility
  <1>3. CASE Finance
    <2>1. bill' \in {[status |-> "draft", version |-> 1], [bill EXCEPT !.version = @ + 1],
                     [status |-> "issued", version |-> bill.version + 1]}
      BY <1>3 DEF Finance
    <2>2. bill.status # "none" => bill'.status # "none"
      BY <2>1 DEF TypeOK
    <2> QED
      BY <1>3, <2>2 DEF Finance
  <1>4. ASSUME NEW a \in Actors, Provision(a), ~ExecStep(a)
        PROVE  /\ trial' = trial /\ order'.trial_id = order.trial_id
               /\ inspection' = inspection /\ bill' = bill /\ devices' = devices
    <2>1. CASE ClaimOrder(a) \/ PendRetry(a) \/ Activate(a)
      BY <2>1, StatusKept DEF ClaimOrder, PendRetry, Activate
    <2>2. CASE BumpRetry(a)
      BY <2>2, VersionBumped DEF BumpRetry
    <2>3. CASE GetOrder(a) \/ ReloadOrder(a) \/ ListSteps(a) \/ MarkProcessing(a)
               \/ ExecFails(a) \/ MarkFailed(a) \/ RegetOrder(a) \/ FreshOrder(a)
               \/ ClaimErrors(a) \/ ProvisionErrors(a)
      BY <2>3 DEF GetOrder, ReloadOrder, ListSteps, MarkProcessing, ExecFails, MarkFailed,
           RegetOrder, FreshOrder, ClaimErrors, ProvisionErrors
    <2> QED
      BY <1>4, <2>1, <2>2, <2>3 DEF Provision
  <1>5. ASSUME NEW a \in Actors, Compensate(a)
        PROVE  /\ trial' = trial /\ order'.trial_id = order.trial_id
               /\ (inspection' = "none") = (inspection = "none")
               /\ bill.status # "none" => bill'.status # "none"
               /\ devices' = devices \/ order'.status \in Closing
    <2>1. CASE CompClaimOrder(a) \/ AbortOrder(a)
      BY <2>1, StatusKept DEF CompClaimOrder, AbortOrder
    <2>2. CASE CompensateStep(a)
      <3>1. order.status \in Closing
        BY <2>2 DEF CompensateStep, StatusKnown, CompensatePC
      <3> QED
        BY <2>2, <3>1 DEF CompensateStep
    <2>3. CASE VoidBill(a)
      BY <2>3 DEF VoidBill
    <2>4. CASE CompGetOrder(a) \/ CompListSteps(a) \/ MarkCompensated(a) \/ CompFreshOrder(a)
               \/ CompensateErrors(a)
      BY <2>4 DEF CompGetOrder, CompListSteps, MarkCompensated, CompFreshOrder, CompensateErrors
    <2> QED
      BY <1>5, <2>1, <2>2, <2>3, <2>4 DEF Compensate
  <1> QED
    BY <1>1, <1>2, <1>3, <1>4, <1>5 DEF Next, Advance, Others

LEMMA EffectsNext ==
  ASSUME TypeOK, SnapshotsHold, ClaimsHold, StatusKnown, EffectsAtomic, [Next]_vars
  PROVE  EffectsAtomic'
  <1> DEFINE T == "activate_trial"
             D == "dispatch_inspection"
             G == "generate_bill"
  <1>0. T \in Steps /\ D \in Steps /\ G \in Steps
    BY DEF Steps
  <1>1. /\ trial <=> order.trial_id
        /\ trial <=> IsCommitted(T)
        /\ inspection # "none" <=> IsCommitted(D)
        /\ IsCommitted(G) => bill.status # "none"
        /\ ~devices => order.status \in Closing
    BY DEF EffectsAtomic, IsCommitted, Closing
  <1>2. SUFFICES /\ trial' <=> order'.trial_id
                 /\ trial' <=> IsCommitted(T)'
                 /\ inspection' # "none" <=> IsCommitted(D)'
                 /\ IsCommitted(G)' => bill'.status # "none"
                 /\ ~devices' => order'.status \in Closing
    BY DEF EffectsAtomic, IsCommitted, Closing
  <1>3. order.status \in Closing => order'.status \in Closing
    BY StatusForward
  <1>4. CASE \A a \in Actors : ~ExecStep(a)
    <2>1. /\ IsCommitted(T)' = IsCommitted(T) /\ IsCommitted(D)' = IsCommitted(D)
          /\ IsCommitted(G)' = IsCommitted(G)
      BY <1>0, <1>4, CommitMoves
    <2>2. /\ trial' = trial /\ order'.trial_id = order.trial_id
          /\ (inspection' = "none") = (inspection = "none")
          /\ bill.status # "none" => bill'.status # "none"
          /\ devices' = devices \/ order'.status \in Closing
      BY <1>4, EffectsKept
    <2> QED
      BY <1>1, <1>3, <2>1, <2>2
  <1>5. ASSUME NEW a \in Actors, ExecStep(a)
        PROVE  /\ trial' <=> order'.trial_id
               /\ trial' <=> IsCommitted(T)'
               /\ inspection' # "none" <=> IsCommitted(D)'
               /\ IsCommitted(G)' => bill'.status # "none"
               /\ ~devices' => order'.status \in Closing
    <2>1. PICK s \in Steps :
            /\ s = Current(a) /\ ~IsCommitted(s) /\ IsCommitted(s)'
            /\ \A r \in Steps \ {s} : IsCommitted(r)' = IsCommitted(r)
      BY <1>5, ExecCommits
    <2>2. (trial' <=> order'.trial_id) /\ (trial' <=> IsCommitted(T)')
      <3>1. CASE s = T
        <4>1. ~trial
          BY <1>1, <2>1, <3>1
        <4> QED
          BY <1>5, <2>1, <3>1, <4>1, TrialLinked DEF ExecStep
      <3>2. CASE s # T
        BY <1>0, <1>1, <1>5, <2>1, <3>2 DEF ExecStep
      <3> QED
        BY <3>1, <3>2
    <2>3. inspection' # "none" <=> IsCommitted(D)'
      BY <1>0, <1>1, <1>5, <2>1 DEF ExecStep
    <2>4. IsCommitted(G)' => bill'.status # "none"
      BY <1>0, <1>1, <1>5, <2>1 DEF ExecStep
    <2>5. ~devices' => order'.status \in Closing
      BY <1>1, <1>3, <1>5 DEF ExecStep
    <2> QED
      BY <2>2, <2>3, <2>4, <2>5
  <1> QED
    BY <1>4, <1>5

--------------------------------------------------------------------------------
(* The inductive invariant and what follows from it.                        *)

LEMMA InvariantInit == Init => IInv
  <1> SUFFICES ASSUME Init PROVE IInv
    OBVIOUS
  <1>1. TypeOK
    BY TypeInit
  <1>2. \A s \in Steps : NewSteps[s] = [status |-> "pending", version |-> 1]
    BY DEF NewSteps
  <1>3. SnapshotsHold
    BY <1>2, IdleFields DEF Init, SnapshotsHold, Snapshot
  <1>4. ClaimsHold /\ StatusKnown
    BY IdleFields DEF Init, ClaimsHold, StatusKnown, Holding, ProvisionPC, CompensatePC
  <1>5. EffectsAtomic
    <2>1. \A s \in Steps : step[s].status = "pending"
      BY <1>2 DEF Init
    <2> QED
      BY <2>1 DEF Init, EffectsAtomic, Committed, Steps
  <1> QED
    BY <1>1, <1>3, <1>4, <1>5 DEF IInv

LEMMA InvariantNext == IInv /\ [Next]_vars => IInv'
  BY TypeNext, SnapshotsNext, ClaimsNext, StatusNext, EffectsNext DEF IInv

(* Rows with versions, claims, order status and effects stay consistent for *)
(* any number of concurrent calls, failures, cancellations and restarts.    *)
THEOREM InvariantHolds == Spec => []IInv
  BY InvariantInit, InvariantNext, PTL DEF Spec

(* A step's status and its business effect commit together: the transaction *)
(* of execStep is the only place where either appears.                      *)
THEOREM EffectsAreAtomic == Spec => []EffectsAtomic
  <1>1. IInv => EffectsAtomic
    BY DEF IInv
  <1> QED
    BY <1>1, InvariantHolds, PTL

(* The version guard of MarkProcessing lets one call at a time execute a    *)
(* step, however many Provision calls run.                                  *)
THEOREM StepsAreExclusive == Spec => []StepExecutedByOne
  <1>1. IInv => StepExecutedByOne
    BY DEF IInv, ClaimsHold, StepExecutedByOne, Holding, Current
  <1> QED
    BY <1>1, InvariantHolds, PTL

--------------------------------------------------------------------------------
(* The saga implements its contract.                                        *)

LEMMA LedgerKept ==
  ASSUME \A s \in Steps : LedgerEntry(step'[s].status) = LedgerEntry(step[s].status)
  PROVE  ledger' = ledger
  BY DEF ledger

LEMMA LedgerSet ==
  ASSUME NEW s \in Steps, NEW entry, LedgerEntry(step'[s].status) = entry,
         \A r \in Steps \ {s} : step'[r] = step[r]
  PROVE  ledger' = [ledger EXCEPT ![s] = entry]
  BY DEF ledger

LEMMA TableMove ==
  ASSUME TypeOK, StatusMove
  PROVE  order'.status = order.status \/ order'.status \in deploymentTransitions[order.status]
  <1>1. order.status \in DeploymentStatus
    BY DEF TypeOK
  <1> QED
    BY <1>1 DEF StatusMove, Claiming, DeploymentStatus, deploymentTransitions

LEMMA ContractMove ==
  ASSUME IInv, [Next]_vars, step' = step, trial' = trial, inspection' = inspection
  PROVE  Contract!Move \/ UNCHANGED Contract!vars
  <1>1. order'.status = order.status \/ order'.status \in deploymentTransitions[order.status]
    BY StatusMoves, TableMove DEF IInv
  <1>2. ledger' = ledger
    BY LedgerKept
  <1> QED
    BY <1>1, <1>2 DEF Contract!Move, Contract!vars, deploymentTransitions,
       Contract!deploymentTransitions

LEMMA ContractCommit ==
  ASSUME IInv, NEW a \in Actors, ExecStep(a)
  PROVE  \E s \in Steps : Contract!Commit(s)
  <1>1. PICK s \in Steps : s = Current(a)
    BY PositionedStep DEF IInv, ExecStep
  <1>2. step[s] = [status |-> "processing", version |-> call[a].held]
    BY <1>1 DEF IInv, ClaimsHold, Holding, ExecStep
  <1>3. ledger[s] = "open"
    <2>1. step[s].status = "processing"
      BY <1>2
    <2> QED
      BY <2>1 DEF ledger, LedgerEntry
  <1>4. step'[s].status = "done" /\ \A r \in Steps \ {s} : step'[r] = step[r]
    BY <1>1, SetStepMove DEF IInv, ExecStep, StepStatus
  <1>5. ledger' = [ledger EXCEPT ![s] = "committed"]
    <2>1. LedgerEntry(step'[s].status) = "committed"
      BY <1>4 DEF LedgerEntry
    <2> QED
      BY <1>4, <2>1, LedgerSet
  <1>6. order.status # "draft"
    BY DEF IInv, StatusKnown, ExecStep, ProvisionPC
  <1>7. order'.status = order.status
    BY TrialLinked DEF IInv, ExecStep
  <1>8. trial' = (trial \/ s = "activate_trial")
    BY <1>1 DEF IInv, TypeOK, ExecStep
  <1>9. inspection' = IF s = "dispatch_inspection" THEN "dispatched" ELSE inspection
    <2>1. step[s].status \notin Committed
      BY <1>2 DEF Committed
    <2>2. s = "dispatch_inspection" => inspection = "none"
      BY <2>1 DEF IInv, EffectsAtomic
    <2> QED
      BY <1>1, <2>2 DEF ExecStep
  <1>10. Contract!Commit(s)
    BY <1>3, <1>5, <1>6, <1>7, <1>8, <1>9 DEF Contract!Commit
  <1> QED
    BY <1>10

LEMMA ContractReverse ==
  ASSUME IInv, NEW a \in Actors, MarkCompensated(a)
  PROVE  (\E s \in Steps : Contract!Reverse(s)) \/ UNCHANGED Contract!vars
  <1>1. CASE step' = step
    <2>1. ledger' = ledger
      BY <1>1, LedgerKept
    <2> QED
      BY <2>1 DEF MarkCompensated, Contract!vars
  <1>2. CASE /\ step[Current(a)].version = call[a].seen[Current(a)].version
             /\ SetStep(Current(a), "compensated")
    <2>1. PICK s \in Steps : s = Current(a)
      BY PositionedStep DEF IInv, MarkCompensated
    <2>2. call[a].seen[s].status = "done"
      BY <2>1 DEF IInv, ClaimsHold, Seen, Current, MarkCompensated
    <2>3. step[s].status = "done"
      BY <1>2, <2>1, <2>2 DEF IInv, SnapshotsHold, Snapshot
    <2>4. step'[s].status = "compensated" /\ \A r \in Steps \ {s} : step'[r] = step[r]
      BY <1>2, <2>1, SetStepMove DEF IInv, StepStatus
    <2>5. ledger[s] = "committed"
      BY <2>3 DEF ledger, LedgerEntry
    <2>6. ledger' = [ledger EXCEPT ![s] = "reversed"]
      <3>1. LedgerEntry(step'[s].status) = "reversed"
        BY <2>4 DEF LedgerEntry
      <3> QED
        BY <2>4, <3>1, LedgerSet
    <2>7. order.status \in {"compensating", "aborted"}
      BY DEF IInv, StatusKnown, MarkCompensated, CompensatePC, Closing
    <2>8. Contract!Reverse(s)
      BY <2>5, <2>6, <2>7 DEF MarkCompensated, Contract!Reverse
    <2> QED
      BY <2>8
  <1> QED
    BY <1>1, <1>2 DEF MarkCompensated

LEMMA ContractCancel ==
  ASSUME IInv, NEW a \in Actors, CompensateStep(a)
  PROVE  Contract!CancelInspection \/ UNCHANGED Contract!vars
  <1>1. step' = step /\ order' = order /\ trial' = trial
    BY DEF CompensateStep
  <1>2. ledger' = ledger
    BY <1>1, LedgerKept
  <1>3. order.status \in {"compensating", "aborted"}
    BY DEF IInv, StatusKnown, CompensateStep, CompensatePC, Closing
  <1>4. inspection' = inspection \/ (inspection = "dispatched" /\ inspection' = "cancelled")
    BY DEF CompensateStep
  <1> QED
    BY <1>1, <1>2, <1>3, <1>4 DEF Contract!CancelInspection, Contract!vars

(* Claiming a step, or giving it back as failed, leaves the ledger alone.   *)
LEMMA ContractClaim ==
  ASSUME IInv, NEW a \in Actors, MarkProcessing(a) \/ MarkFailed(a) \/ ClaimErrors(a)
  PROVE  UNCHANGED Contract!vars
  <1>1. order' = order /\ trial' = trial /\ inspection' = inspection
    BY DEF MarkProcessing, MarkFailed, ClaimErrors
  <1>2. ASSUME NEW s \in Steps
        PROVE  LedgerEntry(step'[s].status) = LedgerEntry(step[s].status)
    <2>1. CASE step'[s] = step[s]
      BY <2>1
    <2>2. CASE Holding(a) /\ s = Current(a) /\ step'[s].status = "failed"
      <3>1. step[s] = [status |-> "processing", version |-> call[a].held]
        BY <2>2 DEF IInv, ClaimsHold
      <3>2. step[s].status = "processing"
        BY <3>1
      <3> QED
        BY <2>2, <3>2 DEF LedgerEntry
    <2>3. CASE step[s].status \in {"pending", "failed"} /\ step'[s].status = "processing"
      BY <2>3 DEF LedgerEntry
    <2>4. ~ExecStep(a) /\ ~(step[s].status = "done" /\ step'[s].status = "compensated")
      <3>1. CASE MarkProcessing(a)
        <4>1. call[a].pc = "step"
          BY <3>1 DEF MarkProcessing
        <4>2. step' = step \/ step'[s] = step[s] \/ step'[s].status = "processing"
          BY <3>1, MarkProcessingFields, SetStepMove, StepNames DEF IInv, StepStatus
        <4> QED
          BY <4>1, <4>2 DEF ExecStep
      <3>2. CASE MarkFailed(a)
        <4>1. call[a].pc = "mark_failed" /\ Current(a) \in Steps
          BY <3>2, PositionedStep DEF MarkFailed, IInv
        <4>2. step' = step \/ step'[s] = step[s] \/ step'[s].status = "failed"
          BY <3>2, <4>1, SetStepMove DEF IInv, MarkFailed, StepStatus
        <4> QED
          BY <4>1, <4>2 DEF ExecStep
      <3>3. CASE ClaimErrors(a)
        <4>1. call[a].pc = "step"
          BY <3>3 DEF ClaimErrors
        <4>2. step' = step \/ step'[s] = step[s] \/ step'[s].status = "processing"
          BY <3>3, ClaimErrorsFields, SetStepMove DEF IInv, StepStatus
        <4> QED
          BY <4>1, <4>2 DEF ExecStep
      <3> QED
        BY <3>1, <3>2, <3>3
    <2>5. Advance(a)
      BY DEF Advance, Provision
    <2> QED
      BY <2>1, <2>2, <2>3, <2>4, <2>5, StepChange DEF IInv
  <1>3. ledger' = ledger
    BY <1>2, LedgerKept
  <1> QED
    BY <1>1, <1>3 DEF Contract!vars

LEMMA ContractNext ==
  ASSUME IInv, [Next]_vars
  PROVE  [Contract!Next]_(Contract!vars)
  <1> USE DEF rows
  <1>1. CASE step' = step /\ trial' = trial /\ inspection' = inspection
    BY <1>1, ContractMove DEF Contract!Next
  <1>2. ASSUME NEW a \in Actors, Advance(a) PROVE [Contract!Next]_(Contract!vars)
    <2>1. CASE ExecStep(a)
      BY <2>1, ContractCommit DEF Contract!Next
    <2>2. CASE MarkCompensated(a)
      BY <2>2, ContractReverse DEF Contract!Next
    <2>3. CASE CompensateStep(a)
      BY <2>3, ContractCancel DEF Contract!Next
    <2>4. CASE MarkProcessing(a) \/ MarkFailed(a) \/ ClaimErrors(a)
      BY <2>4, ContractClaim
    <2>5. CASE GetOrder(a) \/ ClaimOrder(a) \/ ReloadOrder(a) \/ ListSteps(a)
               \/ ExecFails(a) \/ BumpRetry(a) \/ RegetOrder(a) \/ PendRetry(a)
               \/ FreshOrder(a) \/ Activate(a) \/ ProvisionErrors(a)
      BY <1>1, <2>5 DEF GetOrder, ClaimOrder, ReloadOrder, ListSteps, ExecFails,
           BumpRetry, RegetOrder, PendRetry, FreshOrder, Activate, ProvisionErrors
    <2>6. CASE CompGetOrder(a) \/ CompClaimOrder(a) \/ CompListSteps(a) \/ VoidBill(a)
               \/ CompFreshOrder(a) \/ AbortOrder(a) \/ CompensateErrors(a)
      BY <1>1, <2>6 DEF CompGetOrder, CompClaimOrder, CompListSteps, VoidBill,
           CompFreshOrder, AbortOrder, CompensateErrors
    <2> QED
      BY <1>2, <2>1, <2>2, <2>3, <2>4, <2>5, <2>6 DEF Advance, Provision, Compensate
  <1>3. CASE (\E c \in Callers : StartCall(c) \/ Abandon(c)) \/ Restart \/ Others
    BY <1>1, <1>3 DEF StartCall, Abandon, Restart, Others, UpdateResponsibility, Finance
  <1>4. CASE UNCHANGED vars
    BY <1>1, <1>4 DEF vars
  <1> QED
    BY <1>2, <1>3, <1>4 DEF Next

LEMMA ContractInit == Init => Contract!Init
  <1> SUFFICES ASSUME Init PROVE Contract!Init
    OBVIOUS
  <1>1. \A s \in Steps : step[s].status = "pending"
    BY DEF Init, NewSteps
  <1>2. ledger = [s \in Steps |-> "open"]
    BY <1>1 DEF ledger, LedgerEntry
  <1> QED
    BY <1>2 DEF Init, Contract!Init

(* The concurrent saga implements the contract: every status move is in the *)
(* transition table, and a step's effect is committed once and reversed at  *)
(* most once, only while the order is being, or has been, compensated.      *)
THEOREM SagaImplementsContract == Spec => ImplementsContract
  BY InvariantHolds, ContractInit, ContractNext, PTL DEF Spec, ImplementsContract, Contract!Spec

--------------------------------------------------------------------------------
(* Calls that do not overlap.  Two calls on one order can leave it aborted  *)
(* with a step done, and a statement whose error the code drops can skip a  *)
(* step; what follows is what the saga guarantees apart from these.         *)

(* At most one call is in progress.                                         *)
Alone == \A a, b \in Actors : call[a].pc # "idle" /\ call[b].pc # "idle" => a = b

(* No statement on its own has failed; transactions may have.               *)
NoOutage == budget["outage"] = Budget["outage"]

NoHandover == budget["handover"] = Budget["handover"]

ReversingPC == {"c_list", "c_step", "c_void", "c_mark", "c_abort"}

(* A call knows how the order stands: nobody else moves it meanwhile.       *)
HoldsOrder(a) ==
  /\ call[a].pc \in ProvisionPC \ {"get"} => order.status \notin Closing
  /\ call[a].pc \in ReversingPC => order.status = "compensating"
  /\ call[a].pc = "c_abort" /\ NoHandover => call[a].version = order.version

(* The part of a call's list it has not worked off is still current.        *)
Listed(a, K) == \A k \in K : call[a].seen[OrderedSteps[k]] = step[OrderedSteps[k]]

ListsCurrent(a) ==
  /\ call[a].pc = "step" => Listed(a, call[a].at .. Last)
  /\ call[a].pc = "exec" => Listed(a, (call[a].at + 1) .. Last)
  /\ call[a].pc \in {"c_step", "c_void", "c_mark"} => Listed(a, 1 .. call[a].at)

Undone(K) == \A k \in K : step[OrderedSteps[k]].status # "done"

(* Compensation leaves no done step behind it, and has undone a step's      *)
(* effect before it marks the step.                                         *)
Reverses(a) ==
  /\ call[a].pc \in {"c_step", "c_void", "c_mark"} => Undone((call[a].at + 1) .. Last)
  /\ call[a].pc = "c_abort" => Undone(1 .. Last)
  /\ call[a].pc \in {"c_void", "c_mark"} =>
       /\ Current(a) = "dispatch_inspection" => inspection # "dispatched"
       /\ Current(a) = "bind_devices" => ~devices

OnCourse(a) == HoldsOrder(a) /\ ListsCurrent(a) /\ Reverses(a)

(* What the rows say of a reversed step and of an aborted order.            *)
RowsReversed ==
  /\ step["dispatch_inspection"].status = "compensated" => inspection # "dispatched"
  /\ step["bind_devices"].status = "compensated" => ~devices
  /\ order.status = "aborted" => Undone(1 .. Last)

SerialInv ==
  /\ \A a \in Actors : OnCourse(a)
  /\ RowsReversed
  /\ AuditedAbortIsFinal

LEMMA DistinctSteps ==
  /\ \A j, k \in 1 .. Last : OrderedSteps[j] = OrderedSteps[k] => j = k
  /\ \A s \in Steps : \E k \in 1 .. Last : OrderedSteps[k] = s
  <1>1. /\ OrderedSteps[1] = "register_order" /\ OrderedSteps[2] = "bind_devices"
        /\ OrderedSteps[3] = "activate_trial" /\ OrderedSteps[4] = "dispatch_inspection"
        /\ OrderedSteps[5] = "generate_bill"
    BY DEF OrderedSteps
  <1>2. \A k \in 1 .. Last : k = 1 \/ k = 2 \/ k = 3 \/ k = 4 \/ k = 5
    BY DEF Last
  <1>3. \A j, k \in 1 .. Last : OrderedSteps[j] = OrderedSteps[k] => j = k
    BY <1>1, <1>2
  <1>4. 1 \in 1 .. Last /\ 2 \in 1 .. Last /\ 3 \in 1 .. Last /\ 4 \in 1 .. Last /\ 5 \in 1 .. Last
    BY DEF Last
  <1>5. \A s \in Steps : \E k \in 1 .. Last : OrderedSteps[k] = s
    BY <1>1, <1>4 DEF Steps
  <1> QED
    BY <1>3, <1>5

--------------------------------------------------------------------------------
(* Where a call goes on, and what it then holds.                            *)

LEMMA OrderRead ==
  ASSUME TypeOK, NEW a \in Actors, NEW pc, call' = ReadOrder(a, pc)
  PROVE  call'[a].pc = pc /\ call'[a].version = order.version
  BY DEF TypeOK, CallState, CallRecord, ReadOrder

LEMMA ListRead ==
  ASSUME TypeOK, NEW a \in Actors
  PROVE  /\ ListSteps(a) =>
              call'[a].pc = "step" /\ call'[a].seen = step /\ call'[a].at = 1
         /\ CompListSteps(a) =>
              call'[a].pc = "c_step" /\ call'[a].seen = step /\ call'[a].at = Last
  <1> DEFINE c(pc, k) == [call[a] EXCEPT !.pc = pc, !.seen = step, !.at = k]
  <1>1. call[a] \in CallRecord /\ call \in [Actors -> CallState]
    BY DEF TypeOK, CallState
  <1>2. \A pc, k : c(pc, k).pc = pc /\ c(pc, k).seen = step /\ c(pc, k).at = k
    BY <1>1 DEF CallRecord
  <1>3. /\ ListSteps(a) => call' = [call EXCEPT ![a] = c("step", 1)]
        /\ CompListSteps(a) => call' = [call EXCEPT ![a] = c("c_step", Last)]
    BY DEF ListSteps, CompListSteps
  <1> HIDE DEF c
  <1> QED
    BY <1>1, <1>2, <1>3

LEMMA StepClaimed ==
  ASSUME TypeOK, NEW a \in Actors, MarkProcessing(a)
  PROVE  \E k \in 1 .. Last :
           /\ k >= call[a].at /\ NextUnfinished(a, k) /\ call'[a].seen = call[a].seen
           /\ \/ /\ Claimable(a, OrderedSteps[k]) /\ SetStep(OrderedSteps[k], "processing")
                 /\ call'[a].pc = "exec" /\ call'[a].at = k
              \/ /\ ~Claimable(a, OrderedSteps[k]) /\ step' = step
                 /\ call'[a].pc = "step" /\ call'[a].at = k + 1
  <1> DEFINE c1(k) == [call[a] EXCEPT !.pc = "exec", !.at = k,
                                      !.held = step[OrderedSteps[k]].version + 1]
             c2(k) == [call[a] EXCEPT !.at = k + 1]
  <1>1. /\ call[a] \in CallRecord /\ Positioned(call[a]) /\ call[a].pc = "step"
        /\ call \in [Actors -> CallState]
    BY DEF MarkProcessing, TypeOK, CallState
  <1>2. PICK k \in call[a].at .. Last :
          /\ NextUnfinished(a, k)
          /\ \/ /\ Claimable(a, OrderedSteps[k]) /\ SetStep(OrderedSteps[k], "processing")
                /\ call' = [call EXCEPT ![a] = c1(k)]
             \/ /\ ~Claimable(a, OrderedSteps[k]) /\ step' = step
                /\ call' = [call EXCEPT ![a] = c2(k)]
    BY DEF MarkProcessing
  <1>3. k \in 1 .. Last /\ k >= call[a].at
    BY <1>1, <1>2 DEF Positioned, Last
  <1>4. /\ c1(k).pc = "exec" /\ c1(k).at = k /\ c1(k).seen = call[a].seen
        /\ c2(k).pc = "step" /\ c2(k).at = k + 1 /\ c2(k).seen = call[a].seen
    BY <1>1 DEF CallRecord
  <1> HIDE DEF c1, c2
  <1>5. \/ call'[a] = c1(k) /\ Claimable(a, OrderedSteps[k]) /\ SetStep(OrderedSteps[k], "processing")
        \/ call'[a] = c2(k) /\ ~Claimable(a, OrderedSteps[k]) /\ step' = step
    BY <1>1, <1>2
  <1> QED
    BY <1>2, <1>3, <1>4, <1>5

LEMMA StepExecuted ==
  ASSUME TypeOK, NEW a \in Actors, ExecStep(a)
  PROVE  /\ call'[a].pc = "step" /\ call'[a].seen = call[a].seen
         /\ call'[a].at = call[a].at + 1
  BY DEF TypeOK, CallState, CallRecord, ExecStep

LEMMA StepReversed ==
  ASSUME TypeOK, NEW a \in Actors, CompensateStep(a)
  PROVE  /\ call'[a].pc \in {"c_void", "c_mark"} /\ call'[a].seen = call[a].seen
         /\ call'[a].at \in 1 .. call[a].at /\ NextDone(a, call'[a].at)
         /\ inspection' = IF /\ OrderedSteps[call'[a].at] = "dispatch_inspection"
                             /\ inspection = "dispatched"
                          THEN "cancelled" ELSE inspection
         /\ devices' = (devices /\ OrderedSteps[call'[a].at] # "bind_devices")
  <1> DEFINE c(pc, k, h) == [call[a] EXCEPT !.pc = pc, !.at = k, !.held = h]
  <1>1. call[a] \in CallRecord /\ call \in [Actors -> CallState]
    BY DEF TypeOK, CallState
  <1>2. PICK k \in 1 .. call[a].at, pc \in {"c_void", "c_mark"}, h \in {0, bill.version} :
          /\ NextDone(a, k) /\ call' = [call EXCEPT ![a] = c(pc, k, h)]
          /\ inspection' = IF OrderedSteps[k] = "dispatch_inspection" /\ inspection = "dispatched"
                           THEN "cancelled" ELSE inspection
          /\ devices' = (devices /\ OrderedSteps[k] # "bind_devices")
    BY DEF CompensateStep
  <1>3. c(pc, k, h).pc = pc /\ c(pc, k, h).at = k /\ c(pc, k, h).seen = call[a].seen
    BY <1>1 DEF CallRecord
  <1> HIDE DEF c
  <1>4. call'[a] = c(pc, k, h)
    BY <1>1, <1>2
  <1> QED
    BY <1>2, <1>3, <1>4

LEMMA StepMarked ==
  ASSUME TypeOK, NEW a \in Actors, MarkCompensated(a)
  PROVE  /\ call'[a].pc = "c_step" /\ call'[a].seen = call[a].seen
         /\ call'[a].at = call[a].at - 1
  BY DEF TypeOK, CallState, CallRecord, MarkCompensated


--------------------------------------------------------------------------------
(* A call on its own keeps its course.                                      *)

LEMMA ProvisionStatus ==
  ASSUME TypeOK, NEW a \in Actors, Provision(a), order.status \notin Closing
  PROVE  order'.status \notin Closing
  <1> USE DEF rows, Closing
  <1>1. CASE ClaimOrder(a) \/ PendRetry(a) \/ Activate(a)
    BY <1>1, StatusKept DEF ClaimOrder, PendRetry, Activate
  <1>2. CASE ExecStep(a)
    BY <1>2, TrialLinked DEF ExecStep
  <1>3. CASE BumpRetry(a)
    BY <1>3, VersionBumped DEF BumpRetry
  <1>4. CASE GetOrder(a) \/ ReloadOrder(a) \/ ListSteps(a) \/ MarkProcessing(a)
             \/ ExecFails(a) \/ MarkFailed(a) \/ RegetOrder(a) \/ FreshOrder(a)
             \/ ClaimErrors(a) \/ ProvisionErrors(a)
    BY <1>4 DEF GetOrder, ReloadOrder, ListSteps, MarkProcessing, ExecFails, MarkFailed,
         RegetOrder, FreshOrder, ClaimErrors, ProvisionErrors
  <1> QED
    BY <1>1, <1>2, <1>3, <1>4 DEF Provision

(* Outside the loops only the order's status matters.                       *)
LEMMA StraightCourse ==
  ASSUME NEW a \in Actors,
         call'[a].pc \in (ProvisionPC \cup CompensatePC \cup {"idle"}) \
                            {"step", "exec", "c_step", "c_void", "c_mark", "c_abort"},
         call'[a].pc \in ProvisionPC \ {"get"} => order'.status \notin Closing,
         call'[a].pc = "c_list" => order'.status = "compensating"
  PROVE  OnCourse(a)'
  BY DEF OnCourse, HoldsOrder, ListsCurrent, Reverses, ProvisionPC, CompensatePC, ReversingPC

(* Inside the loop of Provision.                                            *)
LEMMA LoopCourse ==
  ASSUME NEW a \in Actors, call'[a].pc \in {"step", "exec"}, order'.status \notin Closing,
         call'[a].pc = "step" => Listed(a, call[a].at .. Last)',
         call'[a].pc = "exec" => Listed(a, (call[a].at + 1) .. Last)'
  PROVE  OnCourse(a)'
  BY DEF OnCourse, HoldsOrder, ListsCurrent, Reverses, ReversingPC

LEMMA ProvisionCourse ==
  ASSUME TypeOK, SerialInv, NEW a \in Actors, Provision(a), ~Spend("outage")
  PROVE  OnCourse(a)'
  <1>1. OnCourse(a) /\ call[a] \in CallRecord /\ Positioned(call[a])
    BY DEF SerialInv, TypeOK, CallState
  <1>2. ASSUME call[a].pc \in ProvisionPC \ {"get"} PROVE order'.status \notin Closing
    BY <1>1, <1>2, ProvisionStatus DEF OnCourse, HoldsOrder
  <1> USE DEF ProvisionPC, CompensatePC
  <1>3. CASE GetOrder(a)
    <2>1. \/ call'[a].pc = "idle"
          \/ call'[a].pc = "claim" /\ order' = order /\ order.status \notin Closing
      BY <1>3, OrderRead, ReturnFields DEF GetOrder, rows, Closing
    <2> QED
      BY <2>1, StraightCourse
  <1>4. CASE ClaimOrder(a)
    <2>1. call'[a].pc \in {"idle", "reload"} /\ order'.status \notin Closing
      BY <1>2, <1>4, GotoFields, ReturnFields DEF ClaimOrder
    <2> QED
      BY <2>1, StraightCourse
  <1>5. CASE ReloadOrder(a) \/ RegetOrder(a) \/ FreshOrder(a)
    <2>1. call'[a].pc \in {"list", "pend", "activate"} /\ order'.status \notin Closing
      BY <1>2, <1>5, OrderRead DEF ReloadOrder, RegetOrder, FreshOrder
    <2> QED
      BY <2>1, StraightCourse
  <1>6. CASE ListSteps(a)
    <2>1. /\ call'[a].pc = "step" /\ call'[a].seen = step' /\ order'.status \notin Closing
      BY <1>2, <1>6, ListRead DEF ListSteps, rows
    <2> QED
      BY <2>1, LoopCourse DEF Listed
  <1>7. CASE MarkProcessing(a)
    <2>1. PICK k \in 1 .. Last :
            /\ k >= call[a].at /\ call'[a].seen = call[a].seen
            /\ \/ /\ SetStep(OrderedSteps[k], "processing")
                  /\ call'[a].pc = "exec" /\ call'[a].at = k
               \/ step' = step /\ call'[a].pc = "step" /\ call'[a].at = k + 1
      BY <1>7, StepClaimed
    <2>2. /\ order'.status \notin Closing /\ call[a].at \in 1 .. (Last + 1)
          /\ Listed(a, call[a].at .. Last)
      BY <1>1, <1>2, <1>7 DEF MarkProcessing, Positioned, OnCourse, ListsCurrent
    <2>3. \A j \in (k + 1) .. Last : j \in call[a].at .. Last /\ j \in 1 .. Last /\ j # k
      BY <2>1, <2>2 DEF Last
    <2>4. \A j \in (k + 1) .. Last : step'[OrderedSteps[j]] = step[OrderedSteps[j]]
      <3>1. CASE SetStep(OrderedSteps[k], "processing")
        <4>1. \A r \in Steps \ {OrderedSteps[k]} : step'[r] = step[r]
          BY <3>1, StepNames, SetStepMove DEF StepStatus
        <4>2. \A j \in (k + 1) .. Last : OrderedSteps[j] \in Steps \ {OrderedSteps[k]}
          BY <2>3, StepNames, DistinctSteps
        <4> QED
          BY <4>1, <4>2
      <3> QED
        BY <2>1, <3>1
    <2>5. \A j \in (k + 1) .. Last : call'[a].seen[OrderedSteps[j]] = step'[OrderedSteps[j]]
      BY <2>1, <2>2, <2>3, <2>4 DEF Listed
    <2> QED
      BY <2>1, <2>2, <2>5, LoopCourse DEF Listed
  <1>8. CASE ExecStep(a)
    <2>1. /\ call'[a].pc = "step" /\ call'[a].seen = call[a].seen
          /\ call'[a].at = call[a].at + 1
          /\ call[a].pc = "exec" /\ order'.status \notin Closing
      BY <1>2, <1>8, StepExecuted DEF ExecStep
    <2>2. call[a].at \in 1 .. Last /\ Current(a) \in Steps
      BY <2>1, PositionedStep
    <2>3. \A r \in Steps \ {Current(a)} : step'[r] = step[r]
      BY <1>8, <2>2, SetStepMove DEF ExecStep, StepStatus
    <2>4. \A j \in (call[a].at + 1) .. Last : j \in 1 .. Last /\ j # call[a].at
      BY <2>2 DEF Last
    <2>5. \A j \in (call[a].at + 1) .. Last : OrderedSteps[j] \in Steps \ {Current(a)}
      BY <2>2, <2>4, StepNames, DistinctSteps DEF Current
    <2>6. Listed(a, (call[a].at + 1) .. Last)
      BY <1>1, <2>1 DEF OnCourse, ListsCurrent
    <2> QED
      BY <2>1, <2>3, <2>5, <2>6, LoopCourse DEF Listed
  <1>9. CASE ExecFails(a) \/ MarkFailed(a) \/ BumpRetry(a)
    <2>1. call'[a].pc \in {"mark_failed", "bump_retry", "reget"} /\ order'.status \notin Closing
      BY <1>2, <1>9, GotoFields DEF ExecFails, MarkFailed, BumpRetry
    <2> QED
      BY <2>1, StraightCourse
  <1>10. CASE PendRetry(a) \/ Activate(a)
    <2>1. call'[a].pc = "idle"
      BY <1>10, ReturnFields DEF PendRetry, Activate
    <2> QED
      BY <2>1, StraightCourse
  <1>11. ~ClaimErrors(a) /\ ~ProvisionErrors(a)
    BY DEF ClaimErrors, ProvisionErrors
  <1> QED
    BY <1>3, <1>4, <1>5, <1>6, <1>7, <1>8, <1>9, <1>10, <1>11 DEF Provision

(* Inside the loop of Compensate.                                           *)
LEMMA ReverseCourse ==
  ASSUME NEW a \in Actors, call'[a].pc \in {"c_step", "c_void", "c_mark"},
         order'.status = "compensating",
         Listed(a, 1 .. call[a].at)', Undone((call[a].at + 1) .. Last)',
         call'[a].pc # "c_step" =>
           /\ OrderedSteps[call'[a].at] = "dispatch_inspection" => inspection' # "dispatched"
           /\ OrderedSteps[call'[a].at] = "bind_devices" => ~devices'
  PROVE  OnCourse(a)'
  BY DEF OnCourse, HoldsOrder, ListsCurrent, Reverses, Current, ReversingPC, ProvisionPC

LEMMA CompensateCourse ==
  ASSUME TypeOK, SnapshotsHold, ClaimsHold, SerialInv, NEW a \in Actors, Compensate(a),
         ~Spend("outage")
  PROVE  OnCourse(a)'
  <1>1. OnCourse(a) /\ call[a] \in CallRecord /\ Positioned(call[a])
    BY DEF SerialInv, TypeOK, CallState
  <1> USE DEF ProvisionPC, CompensatePC
  <1>2. CASE CompGetOrder(a)
    <2>1. call'[a].pc \in {"idle", "c_claim"}
      BY <1>2, OrderRead, ReturnFields DEF CompGetOrder
    <2> QED
      BY <2>1, StraightCourse
  <1>3. CASE CompClaimOrder(a)
    <2>1. \/ call'[a].pc = "idle"
          \/ call'[a].pc = "c_list" /\ order'.status = "compensating"
      <3>1. CASE Return(a)
        BY <3>1, ReturnFields
      <3>2. CASE SetStatus("compensating") /\ Goto(a, "c_list")
        BY <3>2, StatusKept, GotoFields
      <3> QED
        BY <1>3, <3>1, <3>2 DEF CompClaimOrder
    <2> QED
      BY <2>1, StraightCourse
  <1>4. ASSUME call[a].pc \in ReversingPC PROVE order.status = "compensating"
    BY <1>1, <1>4 DEF OnCourse, HoldsOrder
  <1>5. CASE CompListSteps(a)
    <2>1. /\ call'[a].pc = "c_step" /\ call'[a].seen = step' /\ call'[a].at = Last
          /\ order'.status = "compensating"
      BY <1>4, <1>5, ListRead DEF CompListSteps, rows, ReversingPC
    <2>2. \A j \in (Last + 1) .. Last : FALSE
      BY DEF Last
    <2> QED
      BY <2>1, <2>2, ReverseCourse DEF Listed, Undone
  <1>6. CASE CompensateStep(a)
    <2>1. /\ call'[a].pc \in {"c_void", "c_mark"} /\ call'[a].seen = call[a].seen
          /\ call'[a].at \in 1 .. call[a].at /\ NextDone(a, call'[a].at)
          /\ OrderedSteps[call'[a].at] = "dispatch_inspection" => inspection' # "dispatched"
          /\ OrderedSteps[call'[a].at] = "bind_devices" => ~devices'
      BY <1>6, StepReversed
    <2>2. /\ order' = order /\ step' = step /\ order.status = "compensating"
          /\ call[a].at \in 0 .. Last
          /\ Listed(a, 1 .. call[a].at) /\ Undone((call[a].at + 1) .. Last)
      BY <1>1, <1>4, <1>6
         DEF CompensateStep, ReversingPC, OnCourse, ListsCurrent, Reverses, Positioned
    <2>3. Listed(a, 1 .. call[a].at)'
      <3>1. \A j \in 1 .. call'[a].at : j \in 1 .. call[a].at
        BY <2>1, <2>2 DEF Last
      <3> QED
        BY <2>1, <2>2, <3>1 DEF Listed
    <2>4. Undone((call[a].at + 1) .. Last)'
      <3>1. ASSUME NEW j \in (call'[a].at + 1) .. Last
            PROVE  step[OrderedSteps[j]].status # "done"
        <4>1. CASE j \in (call[a].at + 1) .. Last
          BY <2>2, <4>1 DEF Undone
        <4>2. CASE j \in (call'[a].at + 1) .. call[a].at
          <5>1. j \in 1 .. call[a].at
            BY <2>1, <2>2, <4>2 DEF Last
          <5>2. call[a].seen[OrderedSteps[j]].status # "done"
            BY <2>1, <4>2 DEF NextDone, Seen
          <5> QED
            BY <2>2, <5>1, <5>2 DEF Listed
        <4> QED
          BY <2>1, <2>2, <4>1, <4>2 DEF Last
      <3> QED
        BY <2>2, <3>1 DEF Undone
    <2> QED
      BY <2>1, <2>2, <2>3, <2>4, ReverseCourse
  <1>7. CASE VoidBill(a)
    <2>1. /\ call'[a].pc = "c_mark" /\ call'[a].seen = call[a].seen
          /\ call'[a].at = call[a].at
      BY <1>7, GotoFields DEF VoidBill
    <2>2. /\ UNCHANGED <<order, step, inspection, devices>> /\ order.status = "compensating"
          /\ Listed(a, 1 .. call[a].at) /\ Undone((call[a].at + 1) .. Last)
          /\ OrderedSteps[call[a].at] = "dispatch_inspection" => inspection # "dispatched"
          /\ OrderedSteps[call[a].at] = "bind_devices" => ~devices
      BY <1>1, <1>4, <1>7 DEF VoidBill, ReversingPC, OnCourse, ListsCurrent, Reverses, Current
    <2>3. Listed(a, 1 .. call[a].at)' /\ Undone((call[a].at + 1) .. Last)'
      BY <2>1, <2>2 DEF Listed, Undone
    <2> QED
      BY <2>1, <2>2, <2>3, ReverseCourse
  <1>8. CASE MarkCompensated(a)
    <2>1. /\ call'[a].pc = "c_step" /\ call'[a].seen = call[a].seen
          /\ call'[a].at = call[a].at - 1
      BY <1>8, StepMarked
    <2>2. /\ order' = order /\ order.status = "compensating" /\ call[a].at \in 1 .. Last
          /\ Listed(a, 1 .. call[a].at) /\ Undone((call[a].at + 1) .. Last)
      BY <1>1, <1>4, <1>8
         DEF MarkCompensated, ReversingPC, OnCourse, ListsCurrent, Reverses, Positioned
    <2>3. step[Current(a)] = call[a].seen[Current(a)] /\ Current(a) \in Steps
      BY <2>2, StepNames DEF Listed, Current
    <2>4. SetStep(Current(a), "compensated")
      BY <1>8, <2>3 DEF MarkCompensated
    <2>5. /\ step'[Current(a)].status = "compensated"
          /\ \A r \in Steps \ {Current(a)} : step'[r] = step[r]
      BY <2>3, <2>4, SetStepMove DEF StepStatus
    <2>6. Listed(a, 1 .. call[a].at)'
      <3>1. \A j \in 1 .. (call[a].at - 1) : j \in 1 .. Last /\ j # call[a].at /\ j \in 1 .. call[a].at
        BY <2>2 DEF Last
      <3>2. \A j \in 1 .. (call[a].at - 1) : OrderedSteps[j] \in Steps \ {Current(a)}
        BY <2>2, <3>1, StepNames, DistinctSteps DEF Current
      <3> QED
        BY <2>1, <2>2, <2>5, <3>1, <3>2 DEF Listed
    <2>7. Undone((call[a].at + 1) .. Last)'
      <3>1. ASSUME NEW j \in call[a].at .. Last
            PROVE  step'[OrderedSteps[j]].status # "done"
        <4>1. CASE j = call[a].at
          BY <2>5, <4>1 DEF Current
        <4>2. CASE j # call[a].at
          <5>1. j \in (call[a].at + 1) .. Last /\ j \in 1 .. Last
            BY <2>2, <4>2 DEF Last
          <5>2. OrderedSteps[j] \in Steps \ {Current(a)}
            BY <2>2, <4>2, <5>1, StepNames, DistinctSteps DEF Current
          <5> QED
            BY <2>2, <2>5, <5>1, <5>2 DEF Undone
        <4> QED
          BY <4>1, <4>2
      <3>2. call'[a].at + 1 = call[a].at
        BY <2>1, <2>2 DEF Last
      <3> QED
        BY <3>1, <3>2 DEF Undone
    <2> QED
      BY <2>1, <2>2, <2>6, <2>7, ReverseCourse
  <1>9. CASE CompFreshOrder(a)
    <2>1. /\ call'[a].pc = "c_abort" /\ call'[a].version = order.version
          /\ UNCHANGED rows /\ order.status = "compensating"
          /\ Listed(a, 1 .. call[a].at) /\ Undone((call[a].at + 1) .. Last)
          /\ call[a].at \in 0 .. Last /\ ListReversed(a)
      BY <1>1, <1>4, <1>9, OrderRead
         DEF CompFreshOrder, ReversingPC, OnCourse, ListsCurrent, Reverses, Positioned
    <2>2. ASSUME NEW j \in 1 .. Last
          PROVE  step[OrderedSteps[j]].status # "done"
      <3>1. CASE j \in 1 .. call[a].at
        BY <2>1, <3>1 DEF ListReversed, Listed, Seen
      <3>2. CASE j \in (call[a].at + 1) .. Last
        BY <2>1, <3>2 DEF Undone
      <3> QED
        BY <2>1, <3>1, <3>2 DEF Last
    <2>3. Undone(1 .. Last)'
      BY <2>1, <2>2 DEF Undone, rows
    <2> QED
      BY <2>1, <2>3 DEF OnCourse, HoldsOrder, ListsCurrent, Reverses, rows
  <1>10. CASE AbortOrder(a)
    <2>1. call'[a].pc = "idle"
      BY <1>10, ReturnFields DEF AbortOrder
    <2> QED
      BY <2>1, StraightCourse
  <1>11. ~CompensateErrors(a)
    BY DEF CompensateErrors
  <1> QED
    BY <1>2, <1>3, <1>5, <1>6, <1>7, <1>8, <1>9, <1>10, <1>11 DEF Compensate


(* The rows, when a call on its own takes a step.                           *)
LEMMA RowsStay ==
  ASSUME RowsReversed, UNCHANGED <<step, inspection, devices>>,
         order'.status = "aborted" => order.status = "aborted"
  PROVE  RowsReversed'
  BY DEF RowsReversed, Undone

LEMMA ReversedSteps ==
  {"dispatch_inspection", "bind_devices"} \subseteq Steps
  BY DEF Steps

(* Provision leaves a done step as it is.                                   *)
LEMMA ProvisionKeepsDone ==
  ASSUME TypeOK, ClaimsHold, NEW a \in Actors, Provision(a), NEW s \in Steps,
         step[s].status = "done", ~(ExecStep(a) /\ s = Current(a))
  PROVE  step'[s] = step[s]
  <1> USE DEF rows
  <1>1. CASE MarkProcessing(a)
    <2>1. PICK k \in 1 .. Last :
            \/ Claimable(a, OrderedSteps[k]) /\ SetStep(OrderedSteps[k], "processing")
            \/ step' = step
      BY <1>1, StepClaimed
    <2>2. CASE Claimable(a, OrderedSteps[k]) /\ SetStep(OrderedSteps[k], "processing")
      <3>1. \A r \in Steps \ {OrderedSteps[k]} : step'[r] = step[r]
        BY <2>2, StepNames, SetStepMove DEF StepStatus
      <3> QED
        BY <2>2, <3>1 DEF Claimable
    <2> QED
      BY <2>1, <2>2
  <1>2. CASE ExecStep(a)
    BY <1>2, PositionedStep, SetStepMove DEF ExecStep, StepStatus
  <1>3. CASE MarkFailed(a)
    <2>1. Current(a) \in Steps /\ Holding(a)
      BY <1>3, PositionedStep DEF MarkFailed, Holding
    <2>2. step[Current(a)] = [status |-> "processing", version |-> call[a].held]
      BY <2>1 DEF ClaimsHold
    <2>3. CASE SetStep(Current(a), "failed")
      <3>1. s # Current(a)
        BY <2>2
      <3> QED
        BY <2>1, <2>3, <3>1, SetStepMove DEF StepStatus
    <2> QED
      BY <1>3, <2>3 DEF MarkFailed
  <1>4. CASE GetOrder(a) \/ ClaimOrder(a) \/ ReloadOrder(a) \/ ListSteps(a)
             \/ ExecFails(a) \/ BumpRetry(a) \/ RegetOrder(a) \/ PendRetry(a)
             \/ FreshOrder(a) \/ Activate(a) \/ ProvisionErrors(a)
    BY <1>4 DEF GetOrder, ClaimOrder, ReloadOrder, ListSteps, ExecFails, BumpRetry,
         RegetOrder, PendRetry, FreshOrder, Activate, ProvisionErrors
  <1>5. CASE ClaimErrors(a)
    <2>1. CASE step' = step
      BY <2>1
    <2>2. ASSUME NEW r \in Steps, step[r].status \in {"pending", "failed"},
                 SetStep(r, "processing")
          PROVE  step'[s] = step[s]
      BY <2>2, SetStepMove DEF StepStatus
    <2> QED
      BY <1>5, <2>1, <2>2, ClaimErrorsFields
  <1> QED
    BY <1>1, <1>2, <1>3, <1>4, <1>5 DEF Provision

LEMMA ProvisionRows ==
  ASSUME TypeOK, SnapshotsHold, ClaimsHold, SerialInv, NEW a \in Actors, Provision(a)
  PROVE  RowsReversed'
  <1>1. OnCourse(a) /\ RowsReversed
    BY DEF SerialInv
  <1>2. CASE call[a].pc = "get"
    <2>1. UNCHANGED rows
      BY <1>2 DEF Provision, GetOrder, ClaimOrder, ReloadOrder, ListSteps, MarkProcessing,
           ExecStep, ExecFails, MarkFailed, BumpRetry, RegetOrder, PendRetry, FreshOrder,
           Activate, ClaimErrors, ProvisionErrors
    <2> QED
      BY <1>1, <2>1, RowsStay DEF rows
  <1>3. CASE call[a].pc # "get"
    <2>1. call[a].pc \in ProvisionPC
      BY DEF Provision, GetOrder, ClaimOrder, ReloadOrder, ListSteps, MarkProcessing,
           ExecStep, ExecFails, MarkFailed, BumpRetry, RegetOrder, PendRetry, FreshOrder,
           Activate, ClaimErrors, ProvisionErrors, ProvisionPC
    <2>2. order'.status \notin Closing
      BY <1>1, <1>3, <2>1, ProvisionStatus DEF OnCourse, HoldsOrder
    <2>3. order'.status # "aborted"
      BY <2>2 DEF Closing
    <2>4. ASSUME NEW s \in Steps, step'[s].status = "compensated"
          PROVE  step[s].status = "compensated"
      <3>1. /\ Advance(a) /\ ~(step'[s].status = "failed")
            /\ ~(step'[s].status = "processing")
        BY <2>4 DEF Advance
      <3>2. CASE ExecStep(a) /\ s = Current(a)
        BY <2>4, <3>2, SetStepMove DEF ExecStep, StepStatus
      <3>3. CASE ~(ExecStep(a) /\ s = Current(a)) /\ step[s].status = "done"
        BY <2>4, <3>3, ProvisionKeepsDone
      <3> QED
        BY <2>4, <3>1, <3>2, <3>3, StepChange
    <2>5. CASE ExecStep(a)
      <3>1. /\ inspection' = IF Current(a) = "dispatch_inspection" /\ inspection = "none"
                             THEN "dispatched" ELSE inspection
            /\ devices' = devices
            /\ Current(a) \in Steps /\ SetStep(Current(a), "done")
        BY <2>5, PositionedStep DEF ExecStep
      <3>2. step'[Current(a)].status = "done"
        BY <3>1, SetStepMove DEF StepStatus
      <3> QED
        BY <1>1, <2>3, <2>4, <3>1, <3>2, ReversedSteps DEF RowsReversed
    <2>6. CASE ~ExecStep(a)
      <3>1. inspection' = inspection /\ devices' = devices
        BY <2>6 DEF Provision, GetOrder, ClaimOrder, ReloadOrder, ListSteps, MarkProcessing,
             ExecFails, MarkFailed, BumpRetry, RegetOrder, PendRetry, FreshOrder,
             Activate, ClaimErrors, ProvisionErrors, rows
      <3> QED
        BY <1>1, <2>3, <2>4, <3>1, ReversedSteps DEF RowsReversed
    <2> QED
      BY <2>5, <2>6
  <1> QED
    BY <1>2, <1>3

LEMMA CompensateRows ==
  ASSUME TypeOK, SnapshotsHold, ClaimsHold, SerialInv, NEW a \in Actors, Compensate(a)
  PROVE  RowsReversed'
  <1>1. OnCourse(a) /\ RowsReversed
    BY DEF SerialInv
  <1>2. CASE CompClaimOrder(a)
    <2>1. UNCHANGED <<step, inspection, devices>> /\ (order'.status = "compensating" \/ order' = order)
      BY <1>2, StatusKept DEF CompClaimOrder
    <2> QED
      BY <1>1, <2>1, RowsStay
  <1>3. CASE CompensateStep(a)
    <2>1. /\ UNCHANGED <<step, order>>
          /\ inspection' # "dispatched" \/ inspection' = inspection
          /\ devices' => devices
      BY <1>3, StepReversed DEF CompensateStep
    <2> QED
      BY <1>1, <2>1 DEF RowsReversed, Undone
  <1>4. CASE MarkCompensated(a)
    <2>1. /\ UNCHANGED <<order, inspection, devices>> /\ order.status = "compensating"
          /\ Current(a) = "dispatch_inspection" => inspection # "dispatched"
          /\ Current(a) = "bind_devices" => ~devices
          /\ Current(a) \in Steps
      BY <1>1, <1>4, PositionedStep DEF MarkCompensated, OnCourse, HoldsOrder, Reverses, ReversingPC
    <2>2. \A r \in Steps \ {Current(a)} : step'[r] = step[r]
      <3>1. CASE SetStep(Current(a), "compensated")
        BY <2>1, <3>1, SetStepMove DEF StepStatus
      <3>2. CASE step' = step
        BY <3>2
      <3> QED
        BY <1>4, <3>1, <3>2 DEF MarkCompensated
    <2> QED
      BY <1>1, <2>1, <2>2, ReversedSteps DEF RowsReversed
  <1>5. CASE AbortOrder(a)
    <2>1. UNCHANGED <<step, inspection, devices>> /\ Undone(1 .. Last)
      BY <1>1, <1>5 DEF AbortOrder, OnCourse, Reverses
    <2> QED
      BY <1>1, <2>1 DEF RowsReversed, Undone
  <1>6. CASE CompGetOrder(a) \/ CompListSteps(a) \/ VoidBill(a) \/ CompFreshOrder(a)
             \/ CompensateErrors(a)
    BY <1>1, <1>6, RowsStay DEF CompGetOrder, CompListSteps, VoidBill, CompFreshOrder,
         CompensateErrors, rows
  <1> QED
    BY <1>2, <1>3, <1>4, <1>5, <1>6 DEF Compensate

--------------------------------------------------------------------------------
(* What is left of the budget only falls.                                   *)

WithinBudget == \A e \in Events : budget[e] <= Budget[e]

LEMMA Spending ==
  ASSUME [Next]_vars
  PROVE  budget' = budget \/ \E e \in Events : Spend(e)
  <1> USE DEF Events
  <1>1. CASE UNCHANGED vars
    BY <1>1 DEF vars
  <1>2. CASE (\E c \in Callers : StartCall(c) \/ Abandon(c)) \/ Restart \/ Others
    BY <1>2 DEF StartCall, Abandon, Restart, Others, UpdateResponsibility, Finance
  <1>3. ASSUME NEW a \in Actors, Provision(a)
        PROVE  budget' = budget \/ Spend("fault") \/ Spend("outage")
    BY <1>3 DEF Provision, GetOrder, ClaimOrder, ReloadOrder, ListSteps, MarkProcessing,
         ExecStep, ExecFails, MarkFailed, BumpRetry, RegetOrder, PendRetry, FreshOrder,
         Activate, ClaimErrors, ProvisionErrors
  <1>4. ASSUME NEW a \in Actors, Compensate(a) PROVE budget' = budget \/ Spend("outage")
    BY <1>4 DEF Compensate, CompGetOrder, CompClaimOrder, CompListSteps, CompensateStep,
         VoidBill, MarkCompensated, CompFreshOrder, AbortOrder, CompensateErrors
  <1> QED
    BY <1>1, <1>2, <1>3, <1>4 DEF Next, Advance

LEMMA BudgetFalls ==
  ASSUME TypeOK, [Next]_vars, NEW e \in Events
  PROVE  budget'[e] <= budget[e]
  <1>1. budget \in [Events -> Nat]
    BY DEF TypeOK
  <1>2. ASSUME NEW d \in Events, Spend(d) PROVE budget'[e] <= budget[e]
    <2>1. budget' = [budget EXCEPT ![d] = budget[d] - 1]
      BY <1>2 DEF Spend
    <2>2. budget'[e] = IF e = d THEN budget[d] - 1 ELSE budget[e]
      BY <1>1, <2>1
    <2> QED
      BY <1>1, <2>2
  <1>3. CASE budget' = budget
    BY <1>1, <1>3
  <1> QED
    BY <1>2, <1>3, Spending

LEMMA BudgetNext ==
  ASSUME TypeOK, TypeOK', WithinBudget, [Next]_vars
  PROVE  WithinBudget'
  <1> SUFFICES ASSUME NEW e \in Events PROVE budget'[e] <= Budget[e]
    BY DEF WithinBudget
  <1> QED
    BY BudgetFalls, BudgetAssumption DEF WithinBudget, TypeOK

(* An event that has not happened yet after a step had not happened before. *)
LEMMA Unspent ==
  ASSUME TypeOK, TypeOK', WithinBudget, [Next]_vars, NEW e \in Events, budget'[e] = Budget[e]
  PROVE  budget[e] = Budget[e] /\ ~Spend(e)
  <1>1. budget[e] \in Nat /\ budget'[e] \in Nat /\ Budget[e] \in Nat
        /\ budget \in [Events -> Nat]
    BY BudgetAssumption DEF TypeOK
  <1>2. budget[e] = Budget[e]
    BY <1>1, BudgetFalls DEF WithinBudget
  <1>3. Spend(e) => budget'[e] = budget[e] - 1
    BY <1>1 DEF Spend
  <1> QED
    BY <1>1, <1>2, <1>3

--------------------------------------------------------------------------------
(* Calls that do not overlap leave an aborted order reversed.               *)

LEMMA Busy ==
  ASSUME NEW a \in Actors, Advance(a)
  PROVE  call[a].pc # "idle"
  BY DEF Advance, Provision, GetOrder, ClaimOrder, ReloadOrder, ListSteps, MarkProcessing,
       ExecStep, ExecFails, MarkFailed, BumpRetry, RegetOrder, PendRetry, FreshOrder,
       Activate, ClaimErrors, ProvisionErrors, Compensate, CompGetOrder, CompClaimOrder,
       CompListSteps, CompensateStep, VoidBill, MarkCompensated, CompFreshOrder,
       AbortOrder, CompensateErrors

LEMMA RestingCourse ==
  ASSUME NEW a \in Actors, call'[a].pc \in {"idle", "get", "c_get"}
  PROVE  OnCourse(a)'
  BY StraightCourse DEF ProvisionPC, CompensatePC

LEMMA EnvironmentCourse ==
  ASSUME TypeOK, TypeOK', WithinBudget, SerialInv, NEW b \in Actors,
         (\E c \in Callers : StartCall(c) \/ Abandon(c)) \/ Restart \/ Others
  PROVE  OnCourse(b)' /\ RowsReversed'
  <1>1. OnCourse(b) /\ RowsReversed /\ [Next]_vars
    BY DEF SerialInv, Next
  <1>2. /\ UNCHANGED <<step, inspection, devices>>
        /\ order' = order \/ (Spend("handover") /\ order' = [order EXCEPT !.version = @ + 1])
    BY DEF StartCall, Abandon, Restart, Others, UpdateResponsibility, Finance, rows
  <1>3. order'.status = order.status
    BY <1>2, VersionBumped
  <1>4. RowsReversed'
    BY <1>1, <1>2, <1>3, RowsStay
  <1>6. CASE call'[b] \in {Idle, Start("get"), Start("c_get")}
    <2>1. call'[b].pc \in {"idle", "get", "c_get"}
      BY <1>6, IdleFields
    <2> QED
      BY <1>4, <2>1, RestingCourse
  <1>5. CASE call'[b] = call[b]
    <2>1. NoHandover' => NoHandover /\ order' = order
      BY <1>1, <1>2, Unspent DEF NoHandover, Events
    <2>2. HoldsOrder(b)'
      BY <1>1, <1>3, <1>5, <2>1 DEF OnCourse, HoldsOrder
    <2>3. ListsCurrent(b)'
      BY <1>1, <1>2, <1>5 DEF OnCourse, ListsCurrent, Listed
    <2>4. Reverses(b)'
      BY <1>1, <1>2, <1>5 DEF OnCourse, Reverses, Undone, Current
    <2> QED
      BY <1>4, <2>2, <2>3, <2>4 DEF OnCourse
  <1> QED
    BY <1>5, <1>6, EnvironmentCalls

LEMMA AbortFinalNext ==
  ASSUME IInv, TypeOK', WithinBudget, SerialInv, [Next]_vars
  PROVE  AuditedAbortIsFinal'
  <1> SUFFICES ASSUME NoHandover', "order.compensated" \in audit'
               PROVE  order'.status = "aborted"
    BY DEF AuditedAbortIsFinal, NoHandover
  <1>1. NoHandover /\ TypeOK /\ StatusKnown
    BY Unspent DEF NoHandover, Events, IInv
  <1>2. ASSUME NEW a \in Actors, AbortOrder(a) PROVE order'.status = "aborted"
    <2>1. order.status = "compensating" /\ call[a].version = order.version
      BY <1>1, <1>2 DEF SerialInv, OnCourse, HoldsOrder, AbortOrder, ReversingPC
    <2> QED
      BY <1>1, <1>2, <2>1, StatusKept DEF AbortOrder, StatusMatches
  <1>3. CASE "order.compensated" \in audit
    <2>1. order.status = "aborted"
      BY <1>1, <1>3 DEF SerialInv, AuditedAbortIsFinal, NoHandover
    <2> QED
      BY <1>1, <2>1, StatusMoves DEF StatusMove, Claiming
  <1>4. ASSUME NEW a \in Actors, Advance(a), ~AbortOrder(a)
        PROVE  audit' \subseteq audit \cup {"order.provisioned"}
    <2>1. CASE Provision(a)
      BY <2>1 DEF Provision, GetOrder, ClaimOrder, ReloadOrder, ListSteps, MarkProcessing,
           ExecStep, ExecFails, MarkFailed, BumpRetry, RegetOrder, PendRetry, FreshOrder,
           Activate, ClaimErrors, ProvisionErrors, rows
    <2>2. CASE Compensate(a)
      BY <1>4, <2>2 DEF Compensate, CompGetOrder, CompClaimOrder, CompListSteps,
           CompensateStep, VoidBill, MarkCompensated, CompFreshOrder, CompensateErrors, rows
    <2> QED
      BY <1>4, <2>1, <2>2 DEF Advance
  <1>5. CASE (\E c \in Callers : StartCall(c) \/ Abandon(c)) \/ Restart \/ Others
    <2>1. audit' = audit
      BY <1>5 DEF StartCall, Abandon, Restart, Others, UpdateResponsibility, Finance, rows
    <2> QED
      BY <1>3, <2>1
  <1>6. CASE UNCHANGED vars
    BY <1>3, <1>6 DEF vars, rows
  <1> QED
    BY <1>2, <1>3, <1>4, <1>5, <1>6 DEF Next

LEMMA SerialNext ==
  IInv /\ IInv' /\ WithinBudget /\ SerialInv /\ Alone /\ NoOutage' /\ [Next]_vars => SerialInv'
  <1> SUFFICES ASSUME IInv, IInv', WithinBudget, SerialInv, Alone, NoOutage', [Next]_vars
               PROVE  SerialInv'
    OBVIOUS
  <1>1. TypeOK /\ TypeOK' /\ SnapshotsHold /\ ClaimsHold
    BY DEF IInv
  <1>2. ~Spend("outage")
    BY <1>1, Unspent DEF NoOutage, Events
  <1>3. AuditedAbortIsFinal'
    BY <1>1, AbortFinalNext
  <1>4. ASSUME NEW a \in Actors, Advance(a)
        PROVE  RowsReversed' /\ \A b \in Actors : OnCourse(b)'
    <2>1. OnCourse(a)' /\ RowsReversed'
      BY <1>1, <1>2, <1>4, ProvisionCourse, CompensateCourse, ProvisionRows, CompensateRows
         DEF Advance
    <2>2. ASSUME NEW b \in Actors, b # a PROVE OnCourse(b)'
      <3>1. call'[b].pc = "idle"
        BY <1>1, <1>4, <2>2, Busy, OthersKept DEF Alone
      <3> QED
        BY <3>1, RestingCourse
    <2> QED
      BY <2>1, <2>2
  <1>5. CASE (\E c \in Callers : StartCall(c) \/ Abandon(c)) \/ Restart \/ Others
    <2>1. Recoverer \in Actors
      BY DEF Actors
    <2> QED
      BY <1>1, <1>3, <1>5, <2>1, EnvironmentCourse DEF SerialInv
  <1>6. CASE UNCHANGED vars
    BY <1>3, <1>6 DEF vars, rows, SerialInv, OnCourse, HoldsOrder, ListsCurrent, Listed,
         Reverses, Undone, Current, NoHandover, RowsReversed
  <1> QED
    BY <1>3, <1>4, <1>5, <1>6 DEF Next, SerialInv

LEMMA SerialInit == Init => SerialInv /\ WithinBudget
  <1> SUFFICES ASSUME Init PROVE SerialInv /\ WithinBudget
    OBVIOUS
  <1>1. \A a \in Actors : call[a].pc = "idle"
    BY IdleFields DEF Init
  <1>2. \A a \in Actors : OnCourse(a)
    BY <1>1 DEF OnCourse, HoldsOrder, ListsCurrent, Reverses, ProvisionPC, ReversingPC
  <1>3. RowsReversed
    BY ReversedSteps DEF Init, RowsReversed, NewSteps
  <1>4. AuditedAbortIsFinal
    BY DEF Init, AuditedAbortIsFinal
  <1>5. WithinBudget
    BY BudgetAssumption DEF Init, WithinBudget
  <1> QED
    BY <1>2, <1>3, <1>4, <1>5 DEF SerialInv

(* No kind of event happens more often than its bound allows.               *)
THEOREM BudgetHolds == Spec => []WithinBudget
  <1>1. Init => WithinBudget
    BY SerialInit
  <1>2. IInv /\ IInv' /\ WithinBudget /\ [Next]_vars => WithinBudget'
    BY BudgetNext DEF IInv
  <1> QED
    BY <1>1, <1>2, InvariantHolds, PTL DEF Spec

(* A call that runs alone holds the order's row and a current list from its *)
(* claim on, whichever of its transactions fail and wherever it is cut off. *)
THEOREM SerialHolds == Spec /\ []Alone /\ []NoOutage => []SerialInv
  <1>1. Init => SerialInv
    BY SerialInit
  <1> QED
    BY <1>1, SerialNext, InvariantHolds, BudgetHolds, PTL DEF Spec

(* Compensate reverses every completed step before the order is aborted,    *)
(* as long as calls on the order do not overlap and no error of a statement *)
(* on its own is dropped: no step left done, no inspection dispatched, no   *)
(* device bound, however calls fail, are cancelled or restarted.            *)
THEOREM AbortReverses == Spec /\ []Alone /\ []NoOutage => []AbortedMeansReversed
  <1>1. IInv /\ SerialInv => AbortedMeansReversed
    <2> SUFFICES ASSUME IInv, SerialInv, order.status = "aborted"
                 PROVE  /\ \A s \in Steps : step[s].status # "done"
                        /\ inspection # "dispatched"
                        /\ step["bind_devices"].status = "compensated" => ~devices
      BY DEF AbortedMeansReversed
    <2>1. \A s \in Steps : step[s].status # "done"
      BY DistinctSteps DEF SerialInv, RowsReversed, Undone
    <2>2. inspection # "dispatched"
      <3>1. CASE step["dispatch_inspection"].status \in Committed
        BY <2>1, <3>1, ReversedSteps DEF SerialInv, RowsReversed, Committed
      <3>2. CASE step["dispatch_inspection"].status \notin Committed
        BY <3>2 DEF IInv, EffectsAtomic
      <3> QED
        BY <3>1, <3>2
    <2> QED
      BY <2>1, <2>2 DEF SerialInv, RowsReversed
  <1> QED
    BY <1>1, InvariantHolds, SerialHolds, PTL

(* Under the same conditions, an order whose abort has been reported and    *)
(* audited is aborted and stays so.                                         *)
THEOREM AbortIsFinal == Spec /\ []Alone /\ []NoOutage => []AuditedAbortIsFinal
  <1>1. SerialInv => AuditedAbortIsFinal
    BY DEF SerialInv
  <1> QED
    BY <1>1, SerialHolds, PTL

--------------------------------------------------------------------------------
(* Calls that do not overlap and run to their end complete the steps in     *)
(* order.                                                                   *)

Through(K) == \A k \in K : IsCommitted(OrderedSteps[k])

(* A call has every step before its position committed.                     *)
Resumes(a) ==
  /\ call[a].pc \in {"step", "exec", "mark_failed"} => Through(1 .. (call[a].at - 1))
  /\ call[a].pc = "activate" => Through(1 .. Last)

(* No step is left claimed by a call that is gone.                          *)
ProcessingHeld ==
  \A s \in Steps : step[s].status = "processing" =>
    \E a \in Actors : Holding(a) /\ Current(a) = s

InOrder ==
  \A j, k \in 1 .. Last :
    j < k /\ IsCommitted(OrderedSteps[k]) => IsCommitted(OrderedSteps[j])

OrderInv ==
  /\ \A a \in Actors : Resumes(a)
  /\ ProcessingHeld
  /\ InOrder
  /\ AuditedProvisioningIsComplete

LEMMA CommittedStays ==
  ASSUME TypeOK, SnapshotsHold, ClaimsHold, [Next]_vars, NEW s \in Steps, IsCommitted(s)
  PROVE  IsCommitted(s)'
  <1>1. CASE IsCommitted(s)' = IsCommitted(s)
    BY <1>1
  <1>2. ASSUME NEW a \in Actors, ExecStep(a), s = Current(a) PROVE IsCommitted(s)'
    BY <1>2, ExecCommits
  <1> QED
    BY <1>1, <1>2, CommitMoves

LEMMA ThroughStays ==
  ASSUME TypeOK, SnapshotsHold, ClaimsHold, [Next]_vars, NEW K \in SUBSET (1 .. Last), Through(K)
  PROVE  Through(K)'
  BY StepNames, CommittedStays DEF Through

(* Alone, nobody else holds a step.                                         *)
LEMMA OwnClaim ==
  ASSUME Alone, ProcessingHeld, NEW a \in Actors, call[a].pc # "idle",
         NEW s \in Steps, step[s].status = "processing"
  PROVE  Holding(a) /\ Current(a) = s
  <1>1. PICK b \in Actors : Holding(b) /\ Current(b) = s
    BY DEF ProcessingHeld
  <1> QED
    BY <1>1 DEF Alone, Holding

(* Alone, with a current list, no claim of a step is ever refused.          *)
LEMMA NothingSkipped ==
  ASSUME TypeOK, NEW a \in Actors, OnCourse(a), Alone, ProcessingHeld, MarkProcessing(a)
  PROVE  \E k \in 1 .. Last :
           /\ k >= call[a].at /\ NextUnfinished(a, k)
           /\ SetStep(OrderedSteps[k], "processing")
           /\ call'[a].pc = "exec" /\ call'[a].at = k
  <1>1. PICK k \in 1 .. Last :
          /\ k >= call[a].at /\ NextUnfinished(a, k)
          /\ \/ /\ SetStep(OrderedSteps[k], "processing")
                /\ call'[a].pc = "exec" /\ call'[a].at = k
             \/ ~Claimable(a, OrderedSteps[k])
    BY StepClaimed
  <1>2. call[a].pc = "step" /\ Listed(a, call[a].at .. Last) /\ call[a].at \in 1 .. (Last + 1)
    BY DEF MarkProcessing, OnCourse, ListsCurrent, TypeOK, CallState, Positioned
  <1>3. k \in call[a].at .. Last /\ OrderedSteps[k] \in Steps
    BY <1>1, <1>2, StepNames DEF Last
  <1>4. call[a].seen[OrderedSteps[k]] = step[OrderedSteps[k]]
    BY <1>2, <1>3 DEF Listed
  <1>5. step[OrderedSteps[k]].status \notin Committed
    BY <1>1, <1>4 DEF NextUnfinished, Seen
  <1>6. step[OrderedSteps[k]].status # "processing"
    BY <1>2, <1>3, OwnClaim DEF Holding
  <1>7. step[OrderedSteps[k]].status \in StepStatus
    BY <1>3 DEF TypeOK, StepRow
  <1>8. Claimable(a, OrderedSteps[k])
    BY <1>4, <1>5, <1>6, <1>7 DEF Claimable, StepStatus, Committed
  <1> QED
    BY <1>1, <1>8

(* What the list shows committed from a call's position on is committed.    *)
LEMMA ListedThrough ==
  ASSUME TypeOK, NEW a \in Actors, OnCourse(a), call[a].pc = "step", Resumes(a),
         NEW k \in Nat, k <= Last, \A j \in call[a].at .. k : Seen(a, j) \in Committed
  PROVE  Through(1 .. k)
  <1>1. /\ Listed(a, call[a].at .. Last) /\ call[a].at \in 1 .. (Last + 1)
        /\ Through(1 .. (call[a].at - 1))
    BY DEF OnCourse, ListsCurrent, TypeOK, CallState, Positioned, Resumes
  <1>2. ASSUME NEW j \in 1 .. k PROVE IsCommitted(OrderedSteps[j])
    <2>1. CASE j \in call[a].at .. k
      <3>1. j \in call[a].at .. Last
        BY <1>1, <2>1 DEF Last
      <3>2. call[a].seen[OrderedSteps[j]] = step[OrderedSteps[j]]
        BY <1>1, <3>1 DEF Listed
      <3> QED
        BY <2>1, <3>2 DEF Seen, IsCommitted
    <2>2. CASE j \notin call[a].at .. k
      <3>1. j \in 1 .. (call[a].at - 1)
        BY <1>1, <2>2 DEF Last
      <3> QED
        BY <1>1, <3>1 DEF Through
    <2> QED
      BY <2>1, <2>2
  <1> QED
    BY <1>2 DEF Through

LEMMA StraightOrder ==
  ASSUME NEW a \in Actors,
         call'[a].pc \in (ProvisionPC \cup CompensatePC \cup {"idle"}) \
                            {"step", "exec", "mark_failed", "activate"}
  PROVE  Resumes(a)'
  BY DEF Resumes

LEMMA OwnOrder ==
  ASSUME TypeOK, SnapshotsHold, ClaimsHold, [Next]_vars, NEW a \in Actors, Advance(a),
         OnCourse(a), Alone, OrderInv, ~Spend("outage")
  PROVE  Resumes(a)'
  <1>1. Resumes(a) /\ ProcessingHeld
    BY DEF OrderInv
  <1> USE DEF ProvisionPC, CompensatePC
  <1>2. CASE GetOrder(a) \/ ClaimOrder(a) \/ ReloadOrder(a) \/ RegetOrder(a)
             \/ CompGetOrder(a) \/ CompFreshOrder(a)
    <2>1. call'[a].pc \in {"idle", "claim", "reload", "list", "pend", "c_claim", "c_abort"}
      BY <1>2, OrderRead, GotoFields, ReturnFields DEF GetOrder, ClaimOrder, ReloadOrder,
           RegetOrder, CompGetOrder, CompFreshOrder
    <2> QED
      BY <2>1, StraightOrder
  <1>3. CASE ListSteps(a)
    <2>1. call'[a].pc = "step" /\ call'[a].at = 1
      BY <1>3, ListRead
    <2>2. \A j \in 1 .. (1 - 1) : FALSE
      OBVIOUS
    <2> QED
      BY <2>1, <2>2 DEF Resumes, Through
  <1>4. CASE MarkProcessing(a)
    <2>1. PICK k \in 1 .. Last :
            k >= call[a].at /\ NextUnfinished(a, k) /\ call'[a].pc = "exec" /\ call'[a].at = k
      BY <1>1, <1>4, NothingSkipped
    <2>2. \A j \in call[a].at .. (k - 1) : Seen(a, j) \in Committed
      BY <2>1 DEF NextUnfinished
    <2>3. k - 1 \in Nat /\ k - 1 <= Last /\ 1 .. (k - 1) \in SUBSET (1 .. Last)
      BY <2>1 DEF Last
    <2>4. Through(1 .. (k - 1))
      BY <1>1, <1>4, <2>2, <2>3, ListedThrough DEF MarkProcessing
    <2>5. Through(1 .. (k - 1))'
      BY <2>3, <2>4, ThroughStays
    <2> QED
      BY <2>1, <2>5 DEF Resumes, Through
  <1>5. CASE ExecStep(a)
    <2>1. call'[a].pc = "step" /\ call'[a].at = call[a].at + 1
      BY <1>5, StepExecuted
    <2>2. call[a].pc = "exec" /\ call[a].at \in 1 .. Last /\ Current(a) \in Steps
      BY <1>5, PositionedStep DEF ExecStep
    <2>3. Through(1 .. (call[a].at - 1)) /\ 1 .. (call[a].at - 1) \in SUBSET (1 .. Last)
      BY <1>1, <2>2 DEF Resumes, Last
    <2>4. Through(1 .. (call[a].at - 1))'
      <3>1. \A j \in 1 .. (call[a].at - 1) : IsCommitted(OrderedSteps[j])'
        BY <2>3, StepNames, CommittedStays DEF Through
      <3>2. (call'[a].at - 1) = call[a].at
        BY <2>1, <2>2 DEF Last
      <3>3. step'[OrderedSteps[call[a].at]].status \in Committed
        BY <1>5, <2>2, SetStepMove DEF ExecStep, StepStatus, Current, Committed
      <3>4. \A j \in 1 .. call[a].at : IsCommitted(OrderedSteps[j])'
        <4>1. \A j \in 1 .. call[a].at : j = call[a].at \/ j \in 1 .. (call[a].at - 1)
          BY <2>2 DEF Last
        <4> QED
          BY <3>1, <3>3, <4>1 DEF IsCommitted
      <3> QED
        BY <3>2, <3>4 DEF Through
    <2> QED
      BY <2>1, <2>4 DEF Resumes
  <1>6. CASE ExecFails(a)
    <2>1. /\ call[a].pc = "exec" /\ call'[a].pc = "mark_failed" /\ call'[a].at = call[a].at
          /\ step' = step
      BY <1>6, GotoFields DEF ExecFails, rows
    <2> QED
      BY <1>1, <2>1 DEF Resumes, Through, IsCommitted
  <1>7. CASE MarkFailed(a) \/ BumpRetry(a) \/ PendRetry(a) \/ Activate(a)
    <2>1. call'[a].pc \in {"bump_retry", "reget", "idle"}
      BY <1>7, GotoFields, ReturnFields DEF MarkFailed, BumpRetry, PendRetry, Activate
    <2> QED
      BY <2>1, StraightOrder
  <1>8. CASE FreshOrder(a)
    <2>1. call'[a].pc = "activate" /\ step' = step /\ call[a].pc = "step"
      BY <1>8, OrderRead DEF FreshOrder, rows
    <2>2. \A k \in call[a].at .. Last : Seen(a, k) \in Committed
      BY <1>8 DEF FreshOrder, ListFinished
    <2>3. Last \in Nat /\ Last <= Last
      BY DEF Last
    <2>4. Through(1 .. Last)
      BY <1>1, <2>1, <2>2, <2>3, ListedThrough
    <2> QED
      BY <2>1, <2>4 DEF Resumes, Through, IsCommitted
  <1>9. CASE CompClaimOrder(a) \/ VoidBill(a) \/ AbortOrder(a)
    <2>1. call'[a].pc \in {"c_list", "c_mark", "idle"}
      BY <1>9, GotoFields, ReturnFields DEF CompClaimOrder, VoidBill, AbortOrder
    <2> QED
      BY <2>1, StraightOrder
  <1>10. CASE CompListSteps(a) \/ CompensateStep(a) \/ MarkCompensated(a)
    <2>1. call'[a].pc \in {"c_step", "c_void", "c_mark"}
      BY <1>10, ListRead, StepReversed, StepMarked
    <2> QED
      BY <2>1, StraightOrder
  <1>11. ~ClaimErrors(a) /\ ~ProvisionErrors(a) /\ ~CompensateErrors(a)
    BY DEF ClaimErrors, ProvisionErrors, CompensateErrors
  <1> QED
    BY <1>2, <1>3, <1>4, <1>5, <1>6, <1>7, <1>8, <1>9, <1>10, <1>11
    DEF Advance, Provision, Compensate

LEMMA ProcessingNext ==
  ASSUME TypeOK, ClaimsHold, NEW a \in Actors, Advance(a), OnCourse(a),
         Alone, ProcessingHeld, ~Spend("outage")
  PROVE  ProcessingHeld'
  <1>1. call[a].pc # "idle"
    BY Busy
  <1> SUFFICES ASSUME NEW s \in Steps, step'[s].status = "processing"
               PROVE  Holding(a)' /\ Current(a)' = s
    BY DEF ProcessingHeld
  <1>2. step[s].status = "processing" => Holding(a) /\ Current(a) = s
    BY <1>1, OwnClaim
  <1>3. ASSUME Holding(a) PROVE step[Current(a)].version = call[a].held
    <2>1. step[Current(a)] = [status |-> "processing", version |-> call[a].held]
      BY <1>3 DEF ClaimsHold
    <2> QED
      BY <2>1
  <1>4. CASE MarkProcessing(a)
    <2>1. PICK k \in 1 .. Last :
            /\ SetStep(OrderedSteps[k], "processing")
            /\ call'[a].pc = "exec" /\ call'[a].at = k
      BY <1>4, NothingSkipped
    <2>2. step[s].status # "processing"
      BY <1>2, <1>4 DEF MarkProcessing, Holding
    <2>3. s = OrderedSteps[k]
      BY <2>1, <2>2, StepNames, SetStepMove DEF StepStatus
    <2> QED
      BY <2>1, <2>3 DEF Holding, Current
  <1>5. CASE ExecStep(a)
    <2>1. SetStep(Current(a), "done") /\ Current(a) \in Steps
      BY <1>5, PositionedStep DEF ExecStep
    <2>2. s # Current(a) /\ step'[s] = step[s]
      BY <2>1, SetStepMove DEF StepStatus
    <2> QED
      BY <1>2, <2>2
  <1>6. CASE ExecFails(a)
    <2>1. call'[a].pc = "mark_failed" /\ call'[a].at = call[a].at /\ step' = step
      BY <1>6, GotoFields DEF ExecFails, rows
    <2> QED
      BY <1>2, <2>1 DEF Holding, Current
  <1>7. CASE MarkFailed(a)
    <2>1. Current(a) \in Steps /\ Holding(a)
      BY <1>7, PositionedStep DEF MarkFailed, Holding
    <2>2. SetStep(Current(a), "failed")
      BY <1>3, <1>7, <2>1 DEF MarkFailed
    <2>3. s # Current(a) /\ step'[s] = step[s]
      BY <2>1, <2>2, SetStepMove DEF StepStatus
    <2> QED
      BY <1>2, <2>3
  <1>8. CASE MarkCompensated(a)
    <2>1. Current(a) \in Steps /\ ~Holding(a)
      BY <1>8, PositionedStep DEF MarkCompensated, Holding
    <2>2. CASE SetStep(Current(a), "compensated")
      <3>1. s # Current(a) /\ step'[s] = step[s]
        BY <2>1, <2>2, SetStepMove DEF StepStatus
      <3> QED
        BY <1>2, <2>1, <3>1
    <2>3. CASE step' = step
      BY <1>2, <2>1, <2>3
    <2> QED
      BY <1>8, <2>2, <2>3 DEF MarkCompensated
  <1>9. CASE GetOrder(a) \/ ClaimOrder(a) \/ ReloadOrder(a) \/ ListSteps(a) \/ BumpRetry(a)
             \/ RegetOrder(a) \/ PendRetry(a) \/ FreshOrder(a) \/ Activate(a)
    <2>1. step' = step /\ ~Holding(a)
      BY <1>9 DEF GetOrder, ClaimOrder, ReloadOrder, ListSteps, BumpRetry, RegetOrder,
           PendRetry, FreshOrder, Activate, Holding, rows
    <2> QED
      BY <1>2, <2>1
  <1>10. CASE CompGetOrder(a) \/ CompClaimOrder(a) \/ CompListSteps(a) \/ CompensateStep(a)
              \/ VoidBill(a) \/ CompFreshOrder(a) \/ AbortOrder(a)
    <2>1. step' = step /\ ~Holding(a)
      BY <1>10 DEF CompGetOrder, CompClaimOrder, CompListSteps, CompensateStep, VoidBill,
           CompFreshOrder, AbortOrder, Holding, rows
    <2> QED
      BY <1>2, <2>1
  <1>11. ~ClaimErrors(a) /\ ~ProvisionErrors(a) /\ ~CompensateErrors(a)
    BY DEF ClaimErrors, ProvisionErrors, CompensateErrors
  <1> QED
    BY <1>4, <1>5, <1>6, <1>7, <1>8, <1>9, <1>10, <1>11 DEF Advance, Provision, Compensate

LEMMA InOrderNext ==
  ASSUME TypeOK, SnapshotsHold, ClaimsHold, [Next]_vars, OrderInv
  PROVE  InOrder'
  <1> SUFFICES ASSUME NEW j \in 1 .. Last, NEW k \in 1 .. Last, j < k,
                      IsCommitted(OrderedSteps[k])'
               PROVE  IsCommitted(OrderedSteps[j])'
    BY DEF InOrder, IsCommitted
  <1>1. OrderedSteps[j] \in Steps /\ OrderedSteps[k] \in Steps
    BY StepNames
  <1>2. CASE IsCommitted(OrderedSteps[k])
    BY <1>1, <1>2, CommittedStays DEF OrderInv, InOrder
  <1>3. ASSUME NEW a \in Actors, ExecStep(a), OrderedSteps[k] = Current(a)
        PROVE  IsCommitted(OrderedSteps[j])'
    <2>1. call[a].pc = "exec" /\ call[a].at \in 1 .. Last
      BY <1>3, PositionedStep DEF ExecStep
    <2>2. call[a].at = k
      BY <1>3, <2>1, DistinctSteps DEF Current
    <2>3. Through(1 .. (k - 1))
      BY <2>1, <2>2 DEF OrderInv, Resumes
    <2>4. j \in 1 .. (k - 1)
      BY DEF Last
    <2> QED
      BY <1>1, <2>3, <2>4, CommittedStays DEF Through
  <1> QED
    BY <1>1, <1>2, <1>3, CommitMoves

LEMMA AuditedNext ==
  ASSUME TypeOK, SnapshotsHold, ClaimsHold, [Next]_vars, OrderInv
  PROVE  AuditedProvisioningIsComplete'
  <1>1. CASE "order.provisioned" \in audit
    BY <1>1, CommittedStays DEF OrderInv, AuditedProvisioningIsComplete, IsCommitted
  <1>2. ASSUME NEW a \in Actors, Activate(a) PROVE AuditedProvisioningIsComplete'
    <2>1. Through(1 .. Last)
      BY <1>2 DEF Activate, OrderInv, Resumes
    <2>2. \A s \in Steps : IsCommitted(s)
      BY <2>1, DistinctSteps DEF Through
    <2> QED
      BY <2>2, CommittedStays DEF AuditedProvisioningIsComplete, IsCommitted
  <1>3. ASSUME NEW a \in Actors, Advance(a), ~Activate(a)
        PROVE  audit' \subseteq audit \cup {"order.compensated"}
    <2>1. CASE Provision(a)
      BY <1>3, <2>1 DEF Provision, GetOrder, ClaimOrder, ReloadOrder, ListSteps, MarkProcessing,
           ExecStep, ExecFails, MarkFailed, BumpRetry, RegetOrder, PendRetry, FreshOrder,
           ClaimErrors, ProvisionErrors, rows
    <2>2. CASE Compensate(a)
      BY <2>2 DEF Compensate, CompGetOrder, CompClaimOrder, CompListSteps, CompensateStep,
           VoidBill, MarkCompensated, CompFreshOrder, AbortOrder, CompensateErrors, rows
    <2> QED
      BY <1>3, <2>1, <2>2 DEF Advance
  <1>4. CASE (\E c \in Callers : StartCall(c) \/ Abandon(c)) \/ Restart \/ Others
    <2>1. audit' = audit
      BY <1>4 DEF StartCall, Abandon, Restart, Others, UpdateResponsibility, Finance, rows
    <2> QED
      BY <1>1, <2>1 DEF AuditedProvisioningIsComplete
  <1>5. CASE UNCHANGED vars
    BY <1>1, <1>5 DEF vars, rows, AuditedProvisioningIsComplete
  <1> QED
    BY <1>1, <1>2, <1>3, <1>4, <1>5 DEF Next, AuditedProvisioningIsComplete

LEMMA EnvironmentOrder ==
  ASSUME TypeOK, OrderInv, ~Spend("crash"), ~Spend("abandon"),
         (\E c \in Callers : StartCall(c) \/ Abandon(c)) \/ Restart \/ Others
  PROVE  ProcessingHeld' /\ \A a \in Actors : Resumes(a)'
  <1>1. step' = step
    BY EnvironmentSteps
  <1>2. \A a \in Actors : \/ call'[a] = call[a]
                          \/ call[a].pc = "idle" /\ call'[a].pc \in {"get", "c_get"}
    BY IdleFields DEF TypeOK, StartCall, Abandon, Restart, Others, UpdateResponsibility, Finance
  <1>3. ProcessingHeld'
    BY <1>1, <1>2 DEF OrderInv, ProcessingHeld, Holding, Current
  <1>4. ASSUME NEW a \in Actors PROVE Resumes(a)'
    BY <1>1, <1>2, <1>4 DEF OrderInv, Resumes, Through, IsCommitted
  <1> QED
    BY <1>3, <1>4

LEMMA OrderNext ==
  /\ IInv /\ IInv' /\ WithinBudget /\ SerialInv /\ Alone /\ NoOutage'
  /\ (Uninterrupted => OrderInv) /\ [Next]_vars
  => (Uninterrupted => OrderInv)'
  <1> SUFFICES ASSUME IInv, IInv', WithinBudget, SerialInv, Alone, NoOutage',
                      Uninterrupted => OrderInv, [Next]_vars, Uninterrupted'
               PROVE  OrderInv'
    OBVIOUS
  <1>1. TypeOK /\ TypeOK' /\ SnapshotsHold /\ ClaimsHold
    BY DEF IInv
  <1>2. ~Spend("outage") /\ ~Spend("crash") /\ ~Spend("abandon") /\ OrderInv
    BY <1>1, Unspent DEF NoOutage, Uninterrupted, Events
  <1>3. InOrder' /\ AuditedProvisioningIsComplete'
    BY <1>1, <1>2, InOrderNext, AuditedNext
  <1>4. ASSUME NEW a \in Actors, Advance(a)
        PROVE  ProcessingHeld' /\ \A b \in Actors : Resumes(b)'
    <2>1. OnCourse(a)
      BY DEF SerialInv
    <2>2. ProcessingHeld' /\ Resumes(a)'
      BY <1>1, <1>2, <1>4, <2>1, ProcessingNext, OwnOrder DEF OrderInv
    <2>3. ASSUME NEW b \in Actors, b # a PROVE Resumes(b)'
      <3>1. call'[b].pc = "idle"
        BY <1>1, <1>4, <2>3, Busy, OthersKept DEF Alone
      <3> QED
        BY <3>1, StraightOrder
    <2> QED
      BY <2>2, <2>3
  <1>5. CASE (\E c \in Callers : StartCall(c) \/ Abandon(c)) \/ Restart \/ Others
    BY <1>1, <1>2, <1>3, <1>5, EnvironmentOrder DEF OrderInv
  <1>6. CASE UNCHANGED vars
    BY <1>2, <1>3, <1>6 DEF vars, rows, OrderInv, Resumes, Through, IsCommitted,
         ProcessingHeld, Holding, Current
  <1> QED
    BY <1>3, <1>4, <1>5, <1>6 DEF Next, OrderInv

LEMMA OrderInit == Init => OrderInv
  <1> SUFFICES ASSUME Init PROVE OrderInv
    OBVIOUS
  <1>1. \A s \in Steps : step[s].status = "pending"
    BY DEF Init, NewSteps
  <1>2. \A a \in Actors : Resumes(a)
    BY IdleFields DEF Init, Resumes
  <1>3. ProcessingHeld /\ InOrder
    BY <1>1, StepNames DEF ProcessingHeld, InOrder, IsCommitted, Committed
  <1> QED
    BY <1>2, <1>3 DEF OrderInv, Init, AuditedProvisioningIsComplete

(* A call that nothing interrupts resumes exactly at the first step that is *)
(* not committed: no claim is refused, and no step stays claimed.           *)
THEOREM OrderHolds == Spec /\ []Alone /\ []NoOutage => [](Uninterrupted => OrderInv)
  <1>1. Init => (Uninterrupted => OrderInv)
    BY OrderInit
  <1> QED
    BY <1>1, OrderNext, InvariantHolds, BudgetHolds, SerialHolds, PTL DEF Spec

(* When Provision audits "five steps completed" they are, however many of   *)
(* their transactions failed and were retried, if every call has run to its *)
(* end, on its own, and no error of a statement was taken for a conflict.   *)
THEOREM CompleteWhenAudited == Spec /\ []Alone /\ []NoOutage => []UninterruptedIsComplete
  <1>1. (Uninterrupted => OrderInv) => UninterruptedIsComplete
    BY DEF OrderInv, UninterruptedIsComplete
  <1> QED
    BY <1>1, OrderHolds, PTL

(* Under the same conditions the steps commit in the order of OrderedSteps. *)
THEOREM CommitsAreOrdered == Spec /\ []Alone /\ []NoOutage => []StepsCommitInOrder
  <1>1. (Uninterrupted => OrderInv) => StepsCommitInOrder
    BY DEF OrderInv, InOrder, IsCommitted, StepsCommitInOrder
  <1> QED
    BY <1>1, OrderHolds, PTL

(* One client that waits for each answer keeps calls apart, restarts        *)
(* included: the recovery pass ends before the server listens again.        *)
THEOREM OneClientIsAlone ==
  ASSUME \A c, d \in Callers : c = d
  PROVE  Spec => []Alone
  <1>1. Init => Alone
    BY IdleFields DEF Init, Alone
  <1>2. TypeOK /\ Alone /\ [Next]_vars => Alone'
    <2> SUFFICES ASSUME TypeOK, Alone, [Next]_vars PROVE Alone'
      OBVIOUS
    <2>1. ASSUME NEW a \in Actors, Advance(a) PROVE Alone'
      BY <2>1, Busy, OthersKept DEF Alone
    <2>2. ASSUME NEW c \in Callers, StartCall(c) PROVE Alone'
      BY <2>2 DEF StartCall, Alone, Actors, TypeOK
    <2>3. ASSUME NEW c \in Callers, Abandon(c) PROVE Alone'
      BY <2>3, IdleFields DEF Abandon, Return, Alone, Actors, TypeOK
    <2>4. CASE Restart
      BY <2>4, IdleFields DEF Restart, Alone, Actors
    <2>5. CASE Others \/ UNCHANGED vars
      BY <2>5 DEF Others, UpdateResponsibility, Finance, vars, Alone
    <2> QED
      BY <2>1, <2>2, <2>3, <2>4, <2>5 DEF Next
  <1> QED
    BY <1>1, <1>2, TypeCorrect, PTL DEF Spec

(* One client that waits for each answer is all it takes where statements   *)
(* do not fail on their own, as in the run saga_restart, for any number of  *)
(* calls, failing transactions, cancelled requests and restarts.            *)
THEOREM OneClientIsSafe ==
  ASSUME \A c, d \in Callers : c = d, Budget["outage"] = 0
  PROVE  Spec => [](/\ AbortedMeansReversed /\ AuditedAbortIsFinal
                    /\ UninterruptedIsComplete /\ StepsCommitInOrder)
  <1>1. TypeOK /\ WithinBudget => NoOutage
    <2>1. "outage" \in Events
      BY DEF Events
    <2> QED
      BY <2>1 DEF TypeOK, WithinBudget, NoOutage
  <1>2. Spec => []Alone
    BY OneClientIsAlone
  <1> QED
    BY <1>1, <1>2, TypeCorrect, BudgetHolds, AbortReverses, AbortIsFinal, CompleteWhenAudited,
       CommitsAreOrdered, PTL

================================================================================
