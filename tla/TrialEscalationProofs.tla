-------------------------- MODULE TrialEscalationProofs --------------------------
(****************************************************************************)
(* Theorems about TrialEscalation for any set of escalators and clients and *)
(* any budget of faults, crashes and writes of the saga.                    *)
(****************************************************************************)
EXTENDS TrialEscalation, TLAPS

(* Every move of a trial's status that a statement can make.                *)
Moves == {<<"active", "overdue">>, <<"active", "accepted">>, <<"overdue", "accepted">>,
          <<"overdue", "escalated">>, <<"escalated", "converted">>}

TrialStep == trial' = trial \/ <<trial.status, trial'.status>> \in Moves

(* What an actor about to write the trial knows of the row it has read.     *)
SawInv ==
  \A a \in Actors :
    /\ At(a, "mark")    => call[a].saw.status = "active"
    /\ At(a, "claim")   => call[a].saw.status = "overdue"
    /\ At(a, "convert") => call[a].saw.status = "escalated"

Closed == {"escalated", "converted"}

(* Whoever is about to transfer has claimed the trial, alone and for the    *)
(* first time.                                                              *)
OnceInv ==
  /\ reported \in {0, 1}
  /\ reported = 1 => trial.status \in Closed
  /\ \A e \in Escalators : At(e, "transfer") => reported = 0 /\ trial.status \in Closed
  /\ \A e, f \in Escalators : At(e, "transfer") /\ At(f, "transfer") => e = f

(* The order is rented only after the trial is converted, and by then every *)
(* escalator that is still to transfer holds an older version of it.        *)
RentInv ==
  /\ order.handling = "formal_rent_sale_return" => trial.status = "converted"
  /\ \A c \in Clients : At(c, "convert_order") \/ At(c, "rent") => trial.status = "converted"
  /\ \A e \in Escalators :
       /\ At(e, "claim") \/ At(e, "transfer") => call[e].order <= order.version
       /\ At(e, "transfer") /\ order.handling = "formal_rent_sale_return"
            => call[e].order < order.version

--------------------------------------------------------------------------------
(* What the writes of call do to its entries.                               *)

LEMMA CallEntries ==
  ASSUME call \in [Actors -> CallState], NEW a \in Actors, NEW row \in CallState,
         call' = [call EXCEPT ![a] = row]
  PROVE  /\ call' \in [Actors -> CallState]
         /\ call'[a] = row
         /\ \A b \in Actors : b # a => call'[b] = call[b]
  OBVIOUS

LEMMA IdleType == Idle \in CallState
  BY DEF Idle, CallState, TrialRow, TrialStatus, EscalatePC, RequestPC

LEMMA InitType == Init => TypeOK
<1> SUFFICES ASSUME Init PROVE TypeOK
  OBVIOUS
<1>1. trial \in TrialRow /\ order \in OrderRow
  BY DEF Init, TrialRow, TrialStatus, OrderRow
<1>2. \A a \in Actors : call[a] = Idle
  BY DEF Init
<1>3. call \in [Actors -> CallState]
  BY IdleType DEF Init
<1>4. \A a \in Actors : call[a].pc = "idle"
  BY <1>2 DEF Idle
<1> QED
  BY <1>1, <1>3, <1>4, BudgetAssumption
     DEF Init, TypeOK, Actors, EscalatePC, RequestPC

--------------------------------------------------------------------------------
(* Each action moves one actor's entry to a row of its own code.            *)

(* What a step of an actor does to the entries of call.                     *)
Moved(a, pcs) ==
  /\ call' \in [Actors -> CallState]
  /\ \A b \in Actors : b # a => call'[b] = call[b]
  /\ call'[a].pc \in pcs

LEMMA Steps ==
  ASSUME TypeOK, NEW a \in Actors, NEW pc \in EscalatePC \cup RequestPC
  PROVE  /\ Goto(a, pc) => /\ Moved(a, {pc})
                           /\ call'[a].saw = call[a].saw /\ call'[a].order = call[a].order
         /\ Get(a, pc) => Moved(a, {pc}) /\ call'[a].saw = trial
         /\ GetOrder(a, pc) => Moved(a, {pc}) /\ call'[a].saw = call[a].saw
                                              /\ call'[a].order = order.version
         /\ Return(a) => Moved(a, {"idle"})
<1>1. call \in [Actors -> CallState] /\ trial \in TrialRow /\ order.version \in Nat
  BY DEF TypeOK, OrderRow
<1>2. call[a] \in CallState
  BY <1>1
<1> DEFINE goto == [call[a] EXCEPT !.pc = pc]
           get == [call[a] EXCEPT !.pc = pc, !.saw = trial]
           getOrder == [call[a] EXCEPT !.pc = pc, !.order = order.version]
<1>3. /\ goto \in CallState /\ goto.pc = pc
      /\ goto.saw = call[a].saw /\ goto.order = call[a].order
  BY <1>1, <1>2 DEF CallState
<1>4. get \in CallState /\ get.pc = pc /\ get.saw = trial
  BY <1>1, <1>2 DEF CallState
<1>5. /\ getOrder \in CallState /\ getOrder.pc = pc
      /\ getOrder.saw = call[a].saw /\ getOrder.order = order.version
  BY <1>1, <1>2 DEF CallState
<1>6. Idle.pc = "idle"
  BY DEF Idle
<1>7. /\ Goto(a, pc) => call' = [call EXCEPT ![a] = goto]
      /\ Get(a, pc) => call' = [call EXCEPT ![a] = get]
      /\ GetOrder(a, pc) => call' = [call EXCEPT ![a] = getOrder]
      /\ Return(a) => call' = [call EXCEPT ![a] = Idle]
  BY DEF Goto, Get, GetOrder, Return
<1> HIDE DEF goto, get, getOrder
<1>8. ASSUME NEW row \in CallState, call' = [call EXCEPT ![a] = row]
      PROVE  Moved(a, {row.pc}) /\ call'[a] = row
  BY <1>1, <1>8, CallEntries DEF Moved
<1> QED
  BY <1>3, <1>4, <1>5, <1>6, <1>7, <1>8, IdleType

LEMMA WriteTrial ==
  ASSUME TypeOK, NEW a \in Actors, NEW to \in TrialStatus,
         NEW pc \in EscalatePC \cup RequestPC, UpdateTrialStatus(a, to, pc)
  PROVE  /\ trial' \in TrialRow
         /\ \/ /\ trial.status = call[a].saw.status /\ trial'.status = to
               /\ Moved(a, {pc})
               /\ call'[a].saw = call[a].saw /\ call'[a].order = call[a].order
            \/ trial' = trial /\ Moved(a, {"idle"})
<1>1. CASE Unchanged(a)
  <2>1. trial' = [status |-> to, version |-> trial.version + 1] /\ Goto(a, pc)
    BY <1>1 DEF UpdateTrialStatus
  <2>2. trial' \in TrialRow /\ trial'.status = to /\ trial.status = call[a].saw.status
    BY <1>1, <2>1 DEF TypeOK, TrialRow, Unchanged
  <2> QED
    BY <2>1, <2>2, Steps
<1>2. CASE ~Unchanged(a)
  <2>1. trial' = trial /\ Return(a)
    BY <1>2 DEF UpdateTrialStatus
  <2> QED
    BY <2>1, Steps DEF TypeOK
<1> QED
  BY <1>1, <1>2

LEMMA WriteOrder ==
  ASSUME TypeOK, NEW a \in Actors, NEW mode \in {"urge_acceptance", "formal_rent_sale_return"},
         UpdateResponsibility(a, mode)
  PROVE  /\ order' \in OrderRow
         /\ \/ /\ call[a].order = order.version
               /\ order'.version = order.version + 1 /\ order'.handling = mode
            \/ order' = order
  BY DEF TypeOK, OrderRow, UpdateResponsibility, OrderUnchanged

(* The entries of call after a step of one actor within its own code.       *)
LEMMA MovedType ==
  ASSUME TypeOK, NEW a \in Actors, NEW pcs, Moved(a, pcs),
         a \in Escalators => pcs \subseteq EscalatePC,
         a \in Clients => pcs \subseteq RequestPC
  PROVE  /\ call' \in [Actors -> CallState]
         /\ \A e \in Escalators : call'[e].pc \in EscalatePC
         /\ \A c \in Clients : call'[c].pc \in RequestPC
  BY DEF TypeOK, Moved, Actors

LEMMA TickType ==
  ASSUME TypeOK, NEW e \in Escalators, Tick(e)
  PROVE  TypeOK'
<1> e \in Actors /\ e \notin Clients
  BY ActorsAssumption DEF Actors
<1> USE DEF EscalatePC
<1>0. \A pc \in EscalatePC : Moved(e, {pc}) => 
        /\ call' \in [Actors -> CallState]
        /\ \A d \in Escalators : call'[d].pc \in EscalatePC
        /\ \A c \in Clients : call'[c].pc \in RequestPC
  BY MovedType
<1>1. CASE ListPastDeadline(e)
  BY <1>0, <1>1, Steps DEF ListPastDeadline, TypeOK
<1>2. CASE MarkOverdue(e)
  <2>1. UpdateTrialStatus(e, "overdue", "reread") /\ UNCHANGED <<late, order, reported, budget>>
    BY <1>2 DEF MarkOverdue
  <2> QED
    BY <1>0, <2>1, WriteTrial DEF TypeOK, TrialStatus
<1>3. CASE Reread(e)
  BY <1>0, <1>3, Steps DEF Reread, TypeOK
<1>4. CASE EscalateGetTrial(e)
  BY <1>0, <1>4, Steps DEF EscalateGetTrial, TypeOK
<1>5. CASE EscalateGetOrder(e)
  BY <1>0, <1>5, Steps DEF EscalateGetOrder, TypeOK
<1>6. CASE Claim(e)
  <2>1. UpdateTrialStatus(e, "escalated", "transfer") /\ UNCHANGED <<late, order, reported, budget>>
    BY <1>6 DEF Claim
  <2> QED
    BY <1>0, <2>1, WriteTrial DEF TypeOK, TrialStatus
<1>7. CASE Transfer(e)
  BY <1>0, <1>7, Steps, WriteOrder DEF Transfer, TypeOK
<1> QED
  BY <1>1, <1>2, <1>3, <1>4, <1>5, <1>6, <1>7 DEF Tick

LEMMA RequestType ==
  ASSUME TypeOK, NEW c \in Clients, Request(c)
  PROVE  TypeOK'
<1> c \in Actors /\ c \notin Escalators
  BY ActorsAssumption DEF Actors
<1> USE DEF RequestPC
<1>0. \A pc \in RequestPC : Moved(c, {pc}) => 
        /\ call' \in [Actors -> CallState]
        /\ \A e \in Escalators : call'[e].pc \in EscalatePC
        /\ \A d \in Clients : call'[d].pc \in RequestPC
  BY MovedType
<1>1. CASE Accept(c)
  BY <1>0, <1>1, Steps DEF Accept, TypeOK
<1>2. CASE SetAccepted(c)
  <2>1. trial' \in TrialRow
    BY <1>2 DEF SetAccepted, TypeOK, TrialRow, TrialStatus
  <2> QED
    BY <1>0, <1>2, <2>1, Steps DEF SetAccepted, TypeOK
<1>3. CASE Convert(c)
  BY <1>0, <1>3, Steps DEF Convert, TypeOK
<1>4. CASE ConvertClaim(c)
  <2>1. UpdateTrialStatus(c, "converted", "convert_order") /\ UNCHANGED <<late, order, reported, budget>>
    BY <1>4 DEF ConvertClaim
  <2> QED
    BY <1>0, <2>1, WriteTrial DEF TypeOK, TrialStatus
<1>5. CASE ConvertGetOrder(c)
  BY <1>0, <1>5, Steps DEF ConvertGetOrder, TypeOK
<1>6. CASE Rent(c)
  BY <1>0, <1>6, Steps, WriteOrder DEF Rent, TypeOK
<1> QED
  BY <1>1, <1>2, <1>3, <1>4, <1>5, <1>6 DEF Request

LEMMA TypeStep == TypeOK /\ [Next]_vars => TypeOK'
<1> SUFFICES ASSUME TypeOK, [Next]_vars PROVE TypeOK'
  OBVIOUS
<1>1. ASSUME NEW e \in Events, Spend(e) PROVE budget' \in [Events -> Nat]
  BY <1>1 DEF TypeOK, Spend
<1>2. ASSUME NEW a \in Actors, StatementFails(a) \/ Crash(a) PROVE TypeOK'
  <2>1. Moved(a, {"idle"}) /\ UNCHANGED <<late, trial, order>> /\ reported' \in Nat
    BY <1>2, Steps DEF StatementFails, Crash, TypeOK, EscalatePC
  <2>2. budget' \in [Events -> Nat]
    BY <1>1, <1>2 DEF StatementFails, Crash, Events
  <2> QED
    BY <2>1, <2>2, MovedType DEF TypeOK, EscalatePC, RequestPC
<1>3. CASE DeadlinePasses
  BY <1>3 DEF DeadlinePasses, TypeOK
<1>4. CASE OrderMoves
  <2>1. order' \in OrderRow
    BY <1>4 DEF OrderMoves, TypeOK, OrderRow
  <2>2. budget' \in [Events -> Nat]
    BY <1>1, <1>4 DEF OrderMoves, Events
  <2> QED
    BY <1>4, <2>1, <2>2 DEF OrderMoves, TypeOK
<1>5. CASE UNCHANGED vars
  BY <1>5 DEF vars, TypeOK
<1> QED
  BY <1>2, <1>3, <1>4, <1>5, TickType, RequestType DEF Next

(* Type correctness of the trial, the order row and every captured value    *)
(* (trial_service.go:20-137), whatever the numbers of actors and events.    *)
THEOREM TypeCorrect == Spec => []TypeOK
  BY InitType, TypeStep, PTL DEF Spec

--------------------------------------------------------------------------------
(* What the steps do, as far as the three invariants can tell.              *)

Quiet == UNCHANGED <<trial, order, reported>>
Settles(from, to) == trial.status = from /\ trial'.status = to /\ UNCHANGED <<order, reported>>

EscalatorEffect(e) ==
  \/ Quiet /\ \E pc \in {"idle", "escalate", "order"} : Moved(e, {pc})
  \/ Quiet /\ Moved(e, {"mark"}) /\ call'[e].saw.status = "active"
  \/ /\ Quiet /\ Moved(e, {"claim"})
     /\ call'[e].saw.status = "overdue" /\ call'[e].order = order.version
  \/ Settles("active", "overdue") /\ Moved(e, {"reread"})
  \/ /\ Settles("overdue", "escalated") /\ At(e, "claim")
     /\ Moved(e, {"transfer"}) /\ call'[e].order = call[e].order
  \/ /\ At(e, "transfer") /\ Moved(e, {"idle"})
     /\ trial' = trial /\ reported' = reported + 1
     /\ \/ order' = order
        \/ /\ call[e].order = order.version
           /\ order'.version = order.version + 1 /\ order'.handling = "urge_acceptance"

RequestEffect(c) ==
  \/ Quiet /\ \E pc \in {"idle", "accept"} : Moved(c, {pc})
  \/ Quiet /\ Moved(c, {"convert"}) /\ call'[c].saw.status = "escalated"
  \/ Settles("active", "accepted") /\ Moved(c, {"idle"})
  \/ Settles("overdue", "accepted") /\ Moved(c, {"idle"})
  \/ Settles("escalated", "converted") /\ Moved(c, {"convert_order"})
  \/ Quiet /\ At(c, "convert_order") /\ Moved(c, {"rent"})
  \/ /\ At(c, "rent") /\ Moved(c, {"idle"})
     /\ UNCHANGED <<trial, reported>>
     /\ \/ order' = order
        \/ order'.version = order.version + 1 /\ order'.handling = "formal_rent_sale_return"

FailureEffect(a) ==
  /\ UNCHANGED <<trial, order>> /\ Moved(a, {"idle"})
  /\ reported' = reported \/ (At(a, "transfer") /\ reported' = reported + 1)

OrderEffect ==
  /\ UNCHANGED <<trial, reported, call>>
  /\ \/ order' = order
     \/ order'.version = order.version + 1 /\ order'.handling = order.handling

LEMMA TickEffect ==
  ASSUME TypeOK, SawInv, NEW e \in Escalators, Tick(e)
  PROVE  EscalatorEffect(e)
<1> e \in Actors
  BY DEF Actors
<1> USE DEF EscalatorEffect, Quiet, EscalatePC
<1>1. CASE ListPastDeadline(e)
  BY <1>1, Steps DEF ListPastDeadline
<1>2. CASE MarkOverdue(e)
  <2>1. /\ UpdateTrialStatus(e, "overdue", "reread") /\ UNCHANGED <<order, reported>>
        /\ call[e].saw.status = "active"
    BY <1>2 DEF MarkOverdue, SawInv
  <2> QED
    BY <2>1, WriteTrial DEF TrialStatus, Settles
<1>3. CASE Reread(e)
  BY <1>3, Steps DEF Reread
<1>4. CASE EscalateGetTrial(e)
  BY <1>4, Steps DEF EscalateGetTrial
<1>5. CASE EscalateGetOrder(e)
  BY <1>5, Steps DEF EscalateGetOrder
<1>6. CASE Claim(e)
  <2>1. /\ UpdateTrialStatus(e, "escalated", "transfer") /\ UNCHANGED <<order, reported>>
        /\ call[e].saw.status = "overdue" /\ At(e, "claim")
    BY <1>6 DEF Claim, SawInv
  <2> QED
    BY <2>1, WriteTrial DEF TrialStatus, Settles
<1>7. CASE Transfer(e)
  BY <1>7, Steps, WriteOrder DEF Transfer
<1> QED
  BY <1>1, <1>2, <1>3, <1>4, <1>5, <1>6, <1>7 DEF Tick

LEMMA RequestMoves ==
  ASSUME TypeOK, SawInv, NEW c \in Clients, Request(c)
  PROVE  RequestEffect(c)
<1> c \in Actors
  BY DEF Actors
<1> USE DEF RequestEffect, Quiet, RequestPC
<1>1. CASE Accept(c)
  BY <1>1, Steps DEF Accept
<1>2. CASE SetAccepted(c)
  BY <1>2, Steps DEF SetAccepted, Acceptable, Settles
<1>3. CASE Convert(c)
  <2>1. trial.status = "escalated"
    BY <1>3 DEF Convert, May, AssertTransition, trialTransitions, TypeOK, TrialRow, TrialStatus
  <2> QED
    BY <1>3, <2>1, Steps DEF Convert
<1>4. CASE ConvertClaim(c)
  <2>1. /\ UpdateTrialStatus(c, "converted", "convert_order") /\ UNCHANGED <<order, reported>>
        /\ call[c].saw.status = "escalated"
    BY <1>4 DEF ConvertClaim, SawInv
  <2> QED
    BY <2>1, WriteTrial DEF TrialStatus, Settles
<1>5. CASE ConvertGetOrder(c)
  BY <1>5, Steps DEF ConvertGetOrder
<1>6. CASE Rent(c)
  BY <1>6, Steps, WriteOrder DEF Rent
<1> QED
  BY <1>1, <1>2, <1>3, <1>4, <1>5, <1>6 DEF Request

LEMMA Effects ==
  ASSUME TypeOK, SawInv, [Next]_vars
  PROVE  \/ \E e \in Escalators : EscalatorEffect(e)
         \/ \E c \in Clients : RequestEffect(c)
         \/ \E a \in Actors : FailureEffect(a)
         \/ OrderEffect
<1>1. ASSUME NEW a \in Actors, StatementFails(a) \/ Crash(a) PROVE FailureEffect(a)
  <2>1. Return(a) /\ UNCHANGED <<trial, order>>
    BY <1>1 DEF StatementFails, Crash
  <2>2. Moved(a, {"idle"})
    BY <2>1, Steps DEF EscalatePC
  <2>3. reported' = reported \/ (At(a, "transfer") /\ reported' = reported + 1)
    BY <1>1 DEF StatementFails, Crash
  <2> QED
    BY <2>1, <2>2, <2>3 DEF FailureEffect
<1>2. CASE DeadlinePasses \/ UNCHANGED vars
  BY <1>2 DEF DeadlinePasses, vars, OrderEffect
<1>3. CASE OrderMoves
  BY <1>3 DEF OrderMoves, OrderEffect, TypeOK, OrderRow
<1> QED
  BY <1>1, <1>2, <1>3, TickEffect, RequestMoves DEF Next

--------------------------------------------------------------------------------
(* The invariants and what follows from them.                               *)

LEMMA InitInv == Init => SawInv /\ OnceInv /\ RentInv
  BY DEF Init, Idle, Actors, At, SawInv, OnceInv, RentInv

LEMMA SawStep == TypeOK /\ SawInv /\ [Next]_vars => SawInv'
<1> SUFFICES ASSUME TypeOK, SawInv, [Next]_vars PROVE SawInv'
  OBVIOUS
<1> USE DEF SawInv, At, Moved, Actors
<1>1. CASE \E e \in Escalators : EscalatorEffect(e)
  BY <1>1 DEF EscalatorEffect
<1>2. CASE \E c \in Clients : RequestEffect(c)
  BY <1>2 DEF RequestEffect
<1>3. CASE \E a \in Actors : FailureEffect(a)
  BY <1>3 DEF FailureEffect
<1>4. CASE OrderEffect
  BY <1>4 DEF OrderEffect
<1> QED
  BY <1>1, <1>2, <1>3, <1>4, Effects

LEMMA TrialMoves == TypeOK /\ SawInv /\ [Next]_vars => TrialStep
<1> SUFFICES ASSUME TypeOK, SawInv, [Next]_vars PROVE TrialStep
  OBVIOUS
<1> QED
  BY Effects DEF TrialStep, Moves, Quiet, Settles, EscalatorEffect, RequestEffect,
                 FailureEffect, OrderEffect

LEMMA OnceStep == TypeOK /\ SawInv /\ OnceInv /\ [Next]_vars => OnceInv'
<1> SUFFICES ASSUME TypeOK, SawInv, OnceInv, [Next]_vars PROVE OnceInv'
  OBVIOUS
<1> USE DEF OnceInv, Closed, At, Moved, Quiet, Settles
<1> Escalators \subseteq Actors /\ Clients \subseteq Actors
  BY DEF Actors
<1>1. ASSUME NEW e \in Escalators, EscalatorEffect(e) PROVE OnceInv'
  BY <1>1 DEF EscalatorEffect
<1>2. ASSUME NEW c \in Clients, RequestEffect(c) PROVE OnceInv'
  BY <1>2 DEF RequestEffect
<1>3. ASSUME NEW a \in Actors, FailureEffect(a) PROVE OnceInv'
  <2>1. At(a, "transfer") => a \in Escalators
    BY DEF TypeOK, Actors, RequestPC
  <2> QED
    BY <1>3, <2>1 DEF FailureEffect
<1>4. CASE OrderEffect
  BY <1>4 DEF OrderEffect
<1> QED
  BY <1>1, <1>2, <1>3, <1>4, Effects

LEMMA RentStep == TypeOK /\ SawInv /\ RentInv /\ [Next]_vars => RentInv'
<1> SUFFICES ASSUME TypeOK, SawInv, RentInv, [Next]_vars PROVE RentInv'
  OBVIOUS
<1> USE DEF RentInv, At, Moved, Quiet, Settles
<1> Escalators \subseteq Actors /\ Clients \subseteq Actors /\ Escalators \cap Clients = {}
  BY ActorsAssumption DEF Actors
<1>0. order.version \in Nat /\ \A a \in Actors : call[a].order \in Nat
  BY DEF TypeOK, OrderRow, CallState
<1>1. ASSUME NEW e \in Escalators, EscalatorEffect(e) PROVE RentInv'
  BY <1>0, <1>1 DEF EscalatorEffect
<1>2. ASSUME NEW c \in Clients, RequestEffect(c) PROVE RentInv'
  BY <1>0, <1>2 DEF RequestEffect
<1>3. ASSUME NEW a \in Actors, FailureEffect(a) PROVE RentInv'
  BY <1>0, <1>3 DEF FailureEffect
<1>4. CASE OrderEffect
  BY <1>0, <1>4 DEF OrderEffect
<1> QED
  BY <1>1, <1>2, <1>3, <1>4, Effects

LEMMA RentStays == TypeOK /\ SawInv /\ RentInv /\ [Next]_vars =>
  (order.handling = "formal_rent_sale_return" => order'.handling = "formal_rent_sale_return")
<1> SUFFICES ASSUME TypeOK, SawInv, RentInv, [Next]_vars,
                    order.handling = "formal_rent_sale_return"
             PROVE  order'.handling = "formal_rent_sale_return"
  OBVIOUS
<1>1. ASSUME NEW e \in Escalators, EscalatorEffect(e)
      PROVE  order' = order
  <2>1. order.version \in Nat /\ call[e].order \in Nat
    BY DEF TypeOK, OrderRow, CallState, Actors
  <2>2. At(e, "transfer") => call[e].order < order.version
    BY DEF RentInv
  <2>3. At(e, "transfer") => call[e].order # order.version
    BY <2>1, <2>2
  <2> QED
    BY <1>1, <2>3 DEF EscalatorEffect, Quiet, Settles
<1> QED
  BY <1>1, Effects DEF RequestEffect, FailureEffect, OrderEffect, Quiet, Settles

LEMMA Invariants == Spec => [](TypeOK /\ SawInv /\ OnceInv /\ RentInv)
  BY InitType, InitInv, TypeStep, SawStep, OnceStep, RentStep, PTL DEF Spec

(* Overlapping escalators, crashes and retried ticks never count an         *)
(* escalation twice (concurrency_test.go:207, trial_service.go:41-42).      *)
THEOREM EscalationIsCountedOnce == Spec => []EscalatedOnce
<1>1. OnceInv => EscalatedOnce
  BY DEF OnceInv, EscalatedOnce
<1> QED
  BY <1>1, Invariants, PTL

(* An accepted or converted trial stays so, and an escalated one can only   *)
(* be converted, whatever the actors have read before.                      *)
THEOREM OutcomeStays == Spec => OutcomeIsFinal
<1> DEFINE Final ==
      /\ trial.status = "accepted" => trial'.status = "accepted"
      /\ trial.status = "escalated" => trial'.status \in {"escalated", "converted"}
      /\ trial.status = "converted" => trial'.status = "converted"
<1>1. TrialStep => Final
  BY DEF TrialStep, Moves
<1>2. TypeOK /\ SawInv /\ [Next]_vars => [Final]_vars
  BY <1>1, TrialMoves
<1> QED
  BY <1>2, Invariants, PTL DEF Spec, OutcomeIsFinal

(* A late transfer never undoes the rent of a converted trial's order.      *)
THEOREM RentStaysFinal == Spec => RentIsFinal
<1>1. TypeOK /\ SawInv /\ RentInv /\ [Next]_vars
        => [order.handling = "formal_rent_sale_return"
              => order'.handling = "formal_rent_sale_return"]_vars
  BY RentStays
<1> QED
  BY <1>1, Invariants, PTL DEF Spec, RentIsFinal

--------------------------------------------------------------------------------
(* The handover of an undisturbed escalation.                               *)

WithinBudget == \A k \in Events : budget[k] <= Budget[k]

(* Until the trial is closed nobody writes the order, so whoever claims it  *)
(* still holds the order's version when it transfers.  From then on the     *)
(* first of the transfer and the rent finds the version it has read.        *)
HandInv ==
  /\ trial.status \in Closed => order.responsible = "customer_manager" \/ HandingOver
  /\ trial.status \notin Closed =>
       \A e \in Escalators : At(e, "claim") => call[e].order = order.version
  /\ trial.status \in Closed /\ order.responsible # "customer_manager" =>
       /\ \A e \in Escalators : At(e, "transfer") => call[e].order = order.version
       /\ \A c \in Clients : At(c, "rent") => call[c].order = order.version

LEMMA SpendLowers ==
  ASSUME TypeOK, WithinBudget, NEW k \in Events, Spend(k)
  PROVE  WithinBudget' /\ budget' # Budget
<1>1. /\ budget \in [Events -> Nat] /\ Budget \in [Events -> Nat]
      /\ budget' = [budget EXCEPT ![k] = budget[k] - 1]
  BY BudgetAssumption DEF TypeOK, Spend
<1>2. budget'[k] = budget[k] - 1 /\ \A j \in Events : j # k => budget'[j] = budget[j]
  BY <1>1
<1>3. budget'[k] < Budget[k]
  BY <1>1, <1>2 DEF WithinBudget
<1>4. budget' # Budget
  BY <1>1, <1>2, <1>3
<1> QED
  BY <1>1, <1>2, <1>3, <1>4 DEF WithinBudget

(* A step that leaves the budget whole is a step of an actor, or time.      *)
LEMMA WholeBudget ==
  ASSUME TypeOK, WithinBudget, [Next]_vars
  PROVE  /\ WithinBudget'
         /\ budget' = Budget =>
              /\ budget = Budget
              /\ \/ \E e \in Escalators : Tick(e)
                 \/ \E c \in Clients : Request(c)
                 \/ UNCHANGED <<trial, order, call>>
<1>1. ASSUME NEW a \in Actors, StatementFails(a) \/ Crash(a)
      PROVE  WithinBudget' /\ budget' # Budget
  BY <1>1, SpendLowers DEF StatementFails, Crash, Events
<1>2. CASE OrderMoves
  BY <1>2, SpendLowers DEF OrderMoves, Events
<1>3. ASSUME NEW e \in Escalators, Tick(e)
      PROVE  budget' = budget
  BY <1>3 DEF Tick, ListPastDeadline, MarkOverdue, Reread, EscalateGetTrial, EscalateGetOrder,
     Claim, Transfer
<1>4. ASSUME NEW c \in Clients, Request(c)
      PROVE  budget' = budget
  BY <1>4 DEF Request, Accept, SetAccepted, Convert, ConvertClaim, ConvertGetOrder, Rent
<1>5. CASE DeadlinePasses \/ UNCHANGED vars
  BY <1>5 DEF DeadlinePasses, vars, WithinBudget
<1> QED
  BY <1>1, <1>2, <1>3, <1>4, <1>5 DEF Next, WithinBudget

LEMMA HandTick ==
  ASSUME TypeOK, SawInv, OnceInv, RentInv, HandInv, NEW e \in Escalators, Tick(e)
  PROVE  HandInv'
<1> e \in Actors
  BY DEF Actors
<1> USE DEF HandInv, HandingOver, At, Moved, Closed, EscalatePC
<1>0. Escalators \subseteq Actors /\ Clients \subseteq Actors /\ e \notin Clients
  BY ActorsAssumption DEF Actors
<1>1. CASE ListPastDeadline(e)
  BY <1>0, <1>1, Steps DEF ListPastDeadline
<1>2. CASE MarkOverdue(e)
  <2>1. /\ UpdateTrialStatus(e, "overdue", "reread") /\ order' = order
        /\ call[e].saw.status = "active" /\ call[e].pc = "mark"
    BY <1>2 DEF MarkOverdue, SawInv
  <2> QED
    BY <1>0, <2>1, WriteTrial DEF TrialStatus
<1>3. CASE Reread(e)
  BY <1>0, <1>3, Steps DEF Reread
<1>4. CASE EscalateGetTrial(e)
  BY <1>0, <1>4, Steps DEF EscalateGetTrial
<1>5. CASE EscalateGetOrder(e)
  BY <1>0, <1>5, Steps DEF EscalateGetOrder
<1>6. CASE Claim(e)
  <2>1. /\ UpdateTrialStatus(e, "escalated", "transfer") /\ order' = order
        /\ call[e].saw.status = "overdue" /\ call[e].pc = "claim"
    BY <1>6 DEF Claim, SawInv
  <2>2. \A f \in Escalators : call[f].pc = "transfer" => trial.status # "overdue"
    BY DEF OnceInv
  <2>3. \A c \in Clients : call[c].pc = "rent" => trial.status # "overdue"
    BY DEF RentInv
  <2> QED
    BY <1>0, <2>1, <2>2, <2>3, WriteTrial DEF TrialStatus
<1>7. CASE Transfer(e)
  <2>1. /\ call[e].pc = "transfer" /\ trial' = trial /\ Moved(e, {"idle"})
        /\ UpdateResponsibility(e, "urge_acceptance")
    BY <1>7, Steps DEF Transfer
  <2>2. trial.status \in Closed
    BY <2>1 DEF OnceInv
  <2>3. order'.responsible = "customer_manager"
    BY <2>1, <2>2 DEF UpdateResponsibility, OrderUnchanged
  <2> QED
    BY <2>1, <2>2, <2>3
<1> QED
  BY <1>1, <1>2, <1>3, <1>4, <1>5, <1>6, <1>7 DEF Tick

(* A request writes the order only when the trial is converted.             *)
LEMMA HandRequest ==
  ASSUME TypeOK, SawInv, RentInv, HandInv, NEW c \in Clients, Request(c)
  PROVE  HandInv'
<1> c \in Actors
  BY DEF Actors
<1>0. c \notin Escalators /\ Escalators \subseteq Actors /\ Clients \subseteq Actors
  BY ActorsAssumption DEF Actors
<1> USE DEF HandInv, HandingOver, At, Moved, Closed, RequestPC
<1>1. CASE Accept(c)
  BY <1>0, <1>1, Steps DEF Accept
<1>2. CASE SetAccepted(c)
  <2>1. /\ order' = order /\ Moved(c, {"idle"}) /\ call[c].pc = "accept"
        /\ trial' = trial \/ (trial.status \notin Closed /\ trial'.status = "accepted")
    BY <1>2, Steps DEF SetAccepted, Acceptable
  <2> QED
    BY <1>0, <2>1
<1>3. CASE Convert(c)
  BY <1>0, <1>3, Steps DEF Convert
<1>4. CASE ConvertClaim(c)
  <2>1. /\ UpdateTrialStatus(c, "converted", "convert_order") /\ order' = order
        /\ call[c].saw.status = "escalated" /\ call[c].pc = "convert"
    BY <1>4 DEF ConvertClaim, SawInv
  <2> QED
    BY <1>0, <2>1, WriteTrial DEF TrialStatus
<1>5. CASE ConvertGetOrder(c)
  <2>1. trial.status = "converted"
    BY <1>5 DEF ConvertGetOrder, RentInv
  <2> QED
    BY <1>0, <1>5, <2>1, Steps DEF ConvertGetOrder
<1>6. CASE Rent(c)
  <2>1. /\ call[c].pc = "rent" /\ trial' = trial /\ Moved(c, {"idle"})
        /\ UpdateResponsibility(c, "formal_rent_sale_return")
    BY <1>6, Steps DEF Rent
  <2>2. trial.status \in Closed
    BY <2>1 DEF RentInv
  <2>3. order'.responsible = "customer_manager"
    BY <2>1, <2>2 DEF UpdateResponsibility, OrderUnchanged
  <2> QED
    BY <2>1, <2>2, <2>3
<1> QED
  BY <1>1, <1>2, <1>3, <1>4, <1>5, <1>6 DEF Request

(* While nothing is spent, the order of an escalated trial, converted since *)
(* or not, has been handed over, or is about to be by an actor that holds   *)
(* the version it still has.                                                *)
THEOREM UndisturbedIsTransferred == Spec => []UndisturbedTransfer
<1> DEFINE Hand == WithinBudget /\ (budget = Budget => HandInv)
           Inv == TypeOK /\ SawInv /\ OnceInv /\ RentInv
<1>1. Init => Hand
  <2> SUFFICES ASSUME Init PROVE Hand
    OBVIOUS
  <2>1. budget = Budget /\ Budget \in [Events -> Nat] /\ trial.status = "active"
    BY BudgetAssumption DEF Init
  <2>2. \A e \in Escalators : call[e].pc = "idle"
    BY DEF Init, Actors, Idle
  <2> QED
    BY <2>1, <2>2 DEF HandInv, WithinBudget, At, Closed
<1>2. Inv /\ Hand /\ [Next]_vars => Hand'
  <2> SUFFICES ASSUME Inv, Hand, [Next]_vars PROVE Hand'
    OBVIOUS
  <2>1. ASSUME UNCHANGED <<trial, order, call>>, HandInv
        PROVE  HandInv'
    BY <2>1 DEF HandInv, HandingOver, At
  <2> QED
    BY <2>1, WholeBudget, HandTick, HandRequest
<1>3. Hand => UndisturbedTransfer
  BY DEF HandInv, UndisturbedTransfer, Closed
<1> QED
  BY <1>1, <1>2, <1>3, Invariants, PTL DEF Spec
================================================================================
