---------------------------------- MODULE Billing ----------------------------------
(****************************************************************************)
(* The reconciliation bills of one deployment order.  GenerateBill opens a  *)
(* bill for a period and writes the hours settled in it, IssueBill issues   *)
(* it, the saga creates the first one and voids it when it compensates.     *)
(* Every action is one statement (or the saga's transaction), so the hours  *)
(* are summed before and apart from the write that stores them.             *)
(*                                                                          *)
(* Records settle, are corrected and revoked by RecordLifecycle.  What a    *)
(* bill states is kept as the revision of each record its sum took in, 0    *)
(* for none; rate and amount are written with the hours and say no more.    *)
(****************************************************************************)
EXTENDS StateMachines, Integers, Sequences

CONSTANTS
  Records,        \* operation records of the order
  NPeriods,       \* period numbers in use
  Calls,          \* requests that may be in progress at the same time
  Seconds,        \* seconds at which something happens
  Fractions,      \* fractions of a second, as their decimal digits
  PeriodSeconds,  \* the length of a period, 30 days in the code
  Budget          \* how often each kind of event may happen

Events == {"call", "correct"}

ASSUME NPeriodsAssumption == NPeriods \in Nat
ASSUME TimeAssumption ==
  /\ Seconds \subseteq Int /\ PeriodSeconds \in Nat
  /\ Fractions \subseteq Seq(0 .. 9) /\ <<>> \in Fractions
ASSUME BudgetAssumption == Budget \in [Events -> Nat]

VARIABLES
  occurred,  \* when each record happened
  record,    \* how each record stands, and how often its hours were set
  bill,      \* reconciliation_bills rows by period, status "none" before
  now,       \* the clock
  call,      \* what each call is doing, and what it has read
  budget     \* what is left of Budget

vars == <<occurred, record, bill, now, call, budget>>

Periods == 1 .. NPeriods

Instants == [sec : Seconds, frac : Fractions]

--------------------------------------------------------------------------------
(* Instants are stored and compared as RFC3339Nano text, which prints a     *)
(* fraction without trailing zeros, or none: ".5Z" sorts before "Z".        *)
Dot == -1
Zulu == 10
Printed(frac) == IF frac = <<>> THEN <<Zulu>> ELSE <<Dot>> \o frac \o <<Zulu>>

SortsBefore(s, t) ==
  \E i \in DOMAIN s \cap DOMAIN t :
    s[i] < t[i] /\ \A j \in 1 .. i - 1 : s[j] = t[j]

(* a < b in SQL.                                                            *)
TextBefore(a, b) ==
  \/ a.sec < b.sec
  \/ a.sec = b.sec /\ SortsBefore(Printed(a.frac), Printed(b.frac))

(* a < b on the clock.                                                      *)
FractionBelow(f, g) ==
  \E i \in DOMAIN g :
    /\ \A j \in 1 .. i - 1 : j \in DOMAIN f /\ f[j] = g[j]
    /\ i \in DOMAIN f => f[i] < g[i]

TimeBefore(a, b) ==
  \/ a.sec < b.sec
  \/ a.sec = b.sec /\ FractionBelow(a.frac, b.frac)

--------------------------------------------------------------------------------
Pending == [status |-> "pending", revision |-> 0]
Never == [sec |-> 0, frac |-> <<>>]
NoBill == [status |-> "none", version |-> 0, start |-> Never, end |-> Never,
           counted |-> [r \in Records |-> 0]]
Idle == [pc |-> "idle", period |-> 0, saw |-> NoBill, at |-> Never,
         sum |-> [r \in Records |-> 0]]

Spend(e) == budget[e] > 0 /\ budget' = [budget EXCEPT ![e] = @ - 1]
At(c, pc) == call[c].pc = pc
Return(c) == call' = [call EXCEPT ![c] = Idle]

Init ==
  /\ occurred \in [Records -> Instants]
  /\ record = [r \in Records |-> Pending]
  /\ now \in {t \in Instants : \A u \in Instants : ~TimeBefore(u, t)}
  /\ bill = [p \in Periods |-> NoBill]
  /\ call = [c \in Calls |-> Idle]
  /\ budget = Budget

(* The row CreateBill inserts for a period that starts at t.                *)
Opened(t) ==
  [status |-> "draft", version |-> 1, start |-> t,
   end |-> [sec |-> t.sec + PeriodSeconds, frac |-> t.frac],
   counted |-> [r \in Records |-> 0]]

--------------------------------------------------------------------------------
(* GenerateBill.                                                            *)

(* The bill is there, or the clock is read to open it.                      *)
GetBillByOrderPeriod(c, p) ==
  /\ At(c, "idle")
  /\ Spend("call")
  /\ call' = [call EXCEPT ![c] =
       IF bill[p].status = "none"
       THEN [Idle EXCEPT !.pc = "create", !.period = p, !.at = now]
       ELSE [Idle EXCEPT !.pc = "sum", !.period = p, !.saw = bill[p]]]
  /\ UNCHANGED <<occurred, record, bill, now>>

(* One bill per period: whoever comes second is refused.                    *)
CreateBill(c) ==
  /\ At(c, "create")
  /\ LET p == call[c].period
         row == Opened(call[c].at)
     IN IF bill[p].status = "none"
        THEN /\ bill' = [bill EXCEPT ![p] = row]
             /\ call' = [call EXCEPT ![c] = [call[c] EXCEPT !.pc = "sum", !.saw = row, !.at = Never]]
        ELSE UNCHANGED bill /\ Return(c)
  /\ UNCHANGED <<occurred, record, now, budget>>

(* Mutant: a record on the boundary belongs to both periods.                *)
WithinInclusive(r, row) ==
  ~TextBefore(occurred[r], row.start) /\ ~TextBefore(row.end, occurred[r])

Within(r, row) == ~TextBefore(occurred[r], row.start) /\ TextBefore(occurred[r], row.end)

SumAcceptedHours(c) ==
  /\ At(c, "sum")
  /\ call' = [call EXCEPT ![c] =
       [call[c] EXCEPT !.pc = "update",
          !.sum = [r \in Records |->
             IF record[r].status = "settled" /\ Within(r, call[c].saw)
             THEN record[r].revision ELSE 0]]]
  /\ UNCHANGED <<occurred, record, bill, now, budget>>

(* Mutant: the version of the bill is not checked.                          *)
UnchangedAlways(c) == TRUE

(* What execVersioned asks for before it writes.                            *)
Unchanged(c) == bill[call[c].period].version = call[c].saw.version

(* The totals, whatever the bill's status is.                               *)
UpdateBillTotals(c) ==
  /\ At(c, "update")
  /\ LET p == call[c].period IN
     bill' = IF Unchanged(c)
             THEN [bill EXCEPT ![p] =
                     [bill[p] EXCEPT !.counted = call[c].sum, !.version = bill[p].version + 1]]
             ELSE bill
  /\ Return(c)
  /\ UNCHANGED <<occurred, record, now, budget>>

--------------------------------------------------------------------------------
(* IssueBill, and the saga's compensation.                                  *)

(* An issued bill is a success, one that may not be issued is refused.      *)
GetBillByID(c, p) ==
  /\ At(c, "idle")
  /\ Spend("call")
  /\ bill[p].status # "none" /\ "issued" \in billTransitions[bill[p].status]
  /\ call' = [call EXCEPT ![c] =
       [Idle EXCEPT !.pc = "issue", !.period = p, !.saw = bill[p]]]
  /\ UNCHANGED <<occurred, record, bill, now>>

(* compensateStep voids the bill of the first period, as it assumes a draft. *)
GetBillToVoid(c) ==
  /\ At(c, "idle")
  /\ Spend("call")
  /\ 1 \in Periods /\ bill[1].status # "none"
  /\ call' = [call EXCEPT ![c] =
       [Idle EXCEPT !.pc = "void", !.period = 1, !.saw = bill[1]]]
  /\ UNCHANGED <<occurred, record, bill, now>>

(* Mutant: only the id is asked for.                                        *)
UpdateBillStatusById(c, from, to) ==
  LET p == call[c].period IN
  bill' = [bill EXCEPT ![p] =
             [bill[p] EXCEPT !.status = to, !.version = bill[p].version + 1]]

UpdateBillStatus(c, from, to) ==
  LET p == call[c].period IN
  bill' = IF Unchanged(c) /\ bill[p].status = from
          THEN [bill EXCEPT ![p] =
                  [bill[p] EXCEPT !.status = to, !.version = bill[p].version + 1]]
          ELSE bill

IssueBill(c) ==
  /\ At(c, "issue")
  /\ UpdateBillStatus(c, call[c].saw.status, "issued")
  /\ Return(c)
  /\ UNCHANGED <<occurred, record, now, budget>>

VoidBill(c) ==
  /\ At(c, "void")
  /\ UpdateBillStatus(c, "draft", "voided")
  /\ Return(c)
  /\ UNCHANGED <<occurred, record, now, budget>>

(* The saga's step looks for the bill and creates it, in one transaction.   *)
StepGenerateBill ==
  /\ 1 \in Periods /\ bill[1].status = "none"
  /\ bill' = [bill EXCEPT ![1] = Opened(now)]
  /\ UNCHANGED <<occurred, record, now, call, budget>>

(* A statement fails, the client goes away or the process dies.             *)
CallFails(c) ==
  /\ ~At(c, "idle")
  /\ Return(c)
  /\ UNCHANGED <<occurred, record, bill, now, budget>>

--------------------------------------------------------------------------------
(* What happens to the records, and the clock.                              *)

Settle(r) ==
  /\ record[r].status = "pending"
  /\ record' = [record EXCEPT ![r] = [status |-> "settled", revision |-> 1]]
  /\ UNCHANGED <<occurred, bill, now, call, budget>>

CorrectRecord(r) ==
  /\ record[r].status = "settled"
  /\ Spend("correct")
  /\ record' = [record EXCEPT ![r] =
       [status |-> "settled", revision |-> record[r].revision + 1]]
  /\ UNCHANGED <<occurred, bill, now, call>>

RevokeRecord(r) ==
  /\ record[r].status # "revoked"
  /\ record' = [record EXCEPT ![r] = [status |-> "revoked", revision |-> record[r].revision]]
  /\ UNCHANGED <<occurred, bill, now, call, budget>>

Advance ==
  /\ now' \in {t \in Instants : TimeBefore(now, t)}
  /\ UNCHANGED <<occurred, record, bill, call, budget>>

Next ==
  \/ \E c \in Calls, p \in Periods : GetBillByOrderPeriod(c, p) \/ GetBillByID(c, p)
  \/ \E c \in Calls :
       \/ CreateBill(c) \/ SumAcceptedHours(c) \/ UpdateBillTotals(c)
       \/ GetBillToVoid(c) \/ IssueBill(c) \/ VoidBill(c) \/ CallFails(c)
  \/ StepGenerateBill
  \/ \E r \in Records : Settle(r) \/ CorrectRecord(r) \/ RevokeRecord(r)
  \/ Advance

Spec == Init /\ [][Next]_vars

--------------------------------------------------------------------------------
Stamps == [sec : Int, frac : Seq(0 .. 9)]
BillRow == [status : {"none"} \cup BillStatus, version : Nat, start : Stamps, end : Stamps,
            counted : [Records -> Nat]]

(* Types of the rows and of every captured value.                           *)
TypeOK ==
  /\ occurred \in [Records -> Instants]
  /\ record \in [Records -> [status : {"pending", "settled", "revoked"}, revision : Nat]]
  /\ bill \in [Periods -> BillRow]
  /\ now \in Instants
  /\ call \in [Calls -> [pc : {"idle", "create", "sum", "update", "issue", "void"},
                         period : Periods \cup {0}, saw : BillRow, at : Stamps,
                         sum : [Records -> Nat]]]
  /\ budget \in [Events -> Nat]

(* Totals never go back to an older sum: what a bill counts of a record is  *)
(* replaced only by a later revision of it, or dropped because the record   *)
(* was revoked, although the sum is read before and apart from the write    *)
(* (reconciliation_service.go:46-52).                                       *)
TotalsMoveForward ==
  [][\A p \in Periods, r \in Records :
       bill'[p].counted[r] < bill[p].counted[r] => record[r].status = "revoked"]_vars

(* A bill is issued with the totals whoever issued it has seen, not with    *)
(* those of a recomputation in between (reconciliation_service.go:64-74).   *)
IssuedAsShown ==
  [][\A p \in Periods :
       bill'[p].status = "issued" /\ bill[p].status # "issued" =>
         \E c \in Calls : At(c, "issue") /\ call[c].period = p /\ call[c].saw = bill[p]]_vars

(* A bill moves along its table and keeps its period, whoever creates,      *)
(* issues and voids it at the same time (status.go:138-143).                *)
BillFollowsTable ==
  [][\A p \in Periods :
       /\ bill[p].status # "none" =>
            bill'[p].start = bill[p].start /\ bill'[p].end = bill[p].end
       /\ bill'[p].status # bill[p].status =>
            IF bill[p].status = "none" THEN bill'[p].status = "draft"
            ELSE bill'[p].status \in billTransitions[bill[p].status]]_vars

(* The periods meet, or a second lies between them.                         *)
Apart(p, q) == p.end = q.start \/ p.end.sec < q.start.sec

(* Bills of such periods never count a record twice, although instants      *)
(* within a second do not sort by time (operation_repo.go:194-201).         *)
CountedOnce ==
  \A p, q \in Periods : \A r \in Records :
    p # q /\ Apart(bill[p], bill[q]) =>
      bill[p].counted[r] = 0 \/ bill[q].counted[r] = 0

(* A bill counts nothing that happened in a second outside its period.      *)
CountedInPeriod ==
  \A p \in Periods, r \in Records :
    bill[p].counted[r] > 0 => occurred[r].sec \in bill[p].start.sec .. bill[p].end.sec
================================================================================
