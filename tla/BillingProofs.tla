------------------------------ MODULE BillingProofs ------------------------------
(****************************************************************************)
(* Theorems about Billing for any records, periods, calls, instants and     *)
(* budgets.                                                                 *)
(****************************************************************************)
EXTENDS Billing, TLAPS

(* Nothing is settled before it has a revision.                             *)
RecordInv == \A r \in Records : record[r].status = "pending" => record[r].revision = 0

(* What a bill counts happened in its period and was once the case.         *)
RowInv(p) ==
  /\ bill[p].status = "none" <=> bill[p].version = 0
  /\ \A r \in Records :
       /\ bill[p].counted[r] <= record[r].revision
       /\ bill[p].counted[r] > 0 => bill[p].status # "none" /\ Within(r, bill[p])

Reading(c) == call[c].pc \in {"sum", "update", "issue", "void"}

(* A call knows an earlier state of its bill, or the present one: the row   *)
(* of a version never changes.                                              *)
ReadInv(c) ==
  LET p == call[c].period IN
  /\ call[c].pc # "idle" => p \in Periods
  /\ Reading(c) =>
       /\ bill[p].status # "none"
       /\ call[c].saw.version <= bill[p].version
       /\ call[c].saw.start = bill[p].start /\ call[c].saw.end = bill[p].end
       /\ Unchanged(c) => call[c].saw = bill[p]
  /\ call[c].pc = "issue" => call[c].saw.status = "draft"

(* What a call has summed is no older than what its bill counts.            *)
SumInv(c) ==
  call[c].pc = "update" =>
    \A r \in Records :
      /\ call[c].sum[r] <= record[r].revision
      /\ call[c].sum[r] > 0 => Within(r, call[c].saw)
      /\ Unchanged(c) =>
           \/ bill[call[c].period].counted[r] <= call[c].sum[r]
           \/ record[r].status = "revoked"

Inv ==
  /\ TypeOK /\ RecordInv
  /\ \A p \in Periods : RowInv(p)
  /\ \A c \in Calls : ReadInv(c) /\ SumInv(c)

--------------------------------------------------------------------------------
LEMMA IdleType ==
  /\ Idle \in [pc : {"idle", "create", "sum", "update", "issue", "void"},
               period : Periods \cup {0}, saw : BillRow, at : Stamps, sum : [Records -> Nat]]
  /\ Idle.pc = "idle"
  /\ NoBill \in BillRow /\ Never \in Stamps
<1>1. <<>> \in Seq(0 .. 9)
  OBVIOUS
<1>2. Never \in Stamps
  BY <1>1 DEF Never, Stamps
<1>3. NoBill \in BillRow
  BY <1>2 DEF NoBill, BillRow
<1> QED
  BY <1>2, <1>3 DEF Idle

LEMMA InstantIsStamp == Instants \subseteq Stamps
  BY TimeAssumption DEF Instants, Stamps

LEMMA OpenedType ==
  ASSUME NEW t \in Stamps
  PROVE  /\ Opened(t) \in BillRow /\ Opened(t).status = "draft" /\ Opened(t).version = 1
         /\ \A r \in Records : Opened(t).counted[r] = 0
  BY TimeAssumption DEF Opened, BillRow, Stamps, BillStatus

LEMMA InitInv == Init => Inv
<1> SUFFICES ASSUME Init PROVE Inv
  OBVIOUS
<1>1. TypeOK
  <2>1. record \in [Records -> [status : {"pending", "settled", "revoked"}, revision : Nat]]
    BY DEF Init, Pending
  <2>2. bill \in [Periods -> BillRow]
    BY IdleType DEF Init
  <2>3. call \in [Calls -> [pc : {"idle", "create", "sum", "update", "issue", "void"},
                           period : Periods \cup {0}, saw : BillRow, at : Stamps,
                           sum : [Records -> Nat]]]
    BY IdleType DEF Init
  <2> QED
    BY <2>1, <2>2, <2>3, BudgetAssumption DEF Init, TypeOK
<1>2. RecordInv
  BY DEF Init, RecordInv, Pending
<1>3. \A p \in Periods : RowInv(p)
  BY DEF Init, RowInv, NoBill, Pending
<1>4. \A c \in Calls : call[c] = Idle
  BY DEF Init
<1>5. \A c \in Calls : ReadInv(c) /\ SumInv(c)
  BY <1>4 DEF ReadInv, SumInv, Reading, Idle
<1> QED
  BY <1>1, <1>2, <1>3, <1>5 DEF Inv

--------------------------------------------------------------------------------
(* Preservation, by what a step writes.                                     *)

(* A call that has nothing in its hands.                                    *)
LEMMA IdleInv ==
  ASSUME NEW c \in Calls, call'[c] = Idle
  PROVE  ReadInv(c)' /\ SumInv(c)'
  BY IdleType DEF ReadInv, SumInv, Reading

(* A call that neither moves nor sees its bill, or any record, written.     *)
LEMMA OtherCall ==
  ASSUME Inv, NEW c \in Calls, call'[c] = call[c], UNCHANGED <<occurred, record, bill>>
  PROVE  ReadInv(c)' /\ SumInv(c)'
  BY DEF Inv, ReadInv, SumInv, Reading, Unchanged, Within

(* One call moves, and nothing is written.                                  *)
LEMMA CallMoves ==
  ASSUME Inv, NEW c \in Calls, NEW state, call' = [call EXCEPT ![c] = state],
         state \in [pc : {"idle", "create", "sum", "update", "issue", "void"},
                    period : Periods \cup {0}, saw : BillRow, at : Stamps,
                    sum : [Records -> Nat]],
         UNCHANGED <<occurred, record, bill, now>>, budget' \in [Events -> Nat],
         ReadInv(c)', SumInv(c)'
  PROVE  Inv'
<1>1. TypeOK'
  BY DEF Inv, TypeOK
<1>2. RecordInv' /\ \A p \in Periods : RowInv(p)'
  BY DEF Inv, RecordInv, RowInv, Within
<1>3. \A d \in Calls : d # c => call'[d] = call[d]
  BY DEF Inv, TypeOK
<1>4. \A d \in Calls : ReadInv(d)' /\ SumInv(d)'
  BY <1>3, OtherCall
<1> QED
  BY <1>1, <1>2, <1>4 DEF Inv

LEMMA Spending ==
  ASSUME TypeOK, NEW e \in Events, Spend(e)
  PROVE  budget' \in [Events -> Nat]
  BY DEF TypeOK, Spend, Events

(* A row is written with a new version: a call that does not move keeps     *)
(* what it knows, of an older state now.                                    *)
LEMMA RowWritten ==
  ASSUME Inv, NEW p \in Periods, NEW row \in BillRow,
         bill' = [bill EXCEPT ![p] = row], UNCHANGED <<occurred, record>>,
         row.status # "none", bill[p].version < row.version,
         bill[p].status # "none" => row.start = bill[p].start /\ row.end = bill[p].end,
         \A r \in Records : /\ row.counted[r] <= record[r].revision
                            /\ row.counted[r] > 0 => Within(r, row)
  PROVE  /\ bill' \in [Periods -> BillRow] /\ bill'[p] = row
         /\ RecordInv' /\ \A q \in Periods : RowInv(q)'
         /\ \A c \in Calls : call'[c] = call[c] => ReadInv(c)' /\ SumInv(c)'
<1>1. bill \in [Periods -> BillRow]
  BY DEF Inv, TypeOK
<1>2. /\ bill' \in [Periods -> BillRow] /\ bill'[p] = row
      /\ \A q \in Periods : q # p => bill'[q] = bill[q]
  BY <1>1
<1>3. RecordInv'
  BY DEF Inv, RecordInv
<1>4. row.version \in Nat /\ bill[p].version \in Nat
  BY <1>1 DEF BillRow
<1>5. ASSUME NEW q \in Periods PROVE RowInv(q)'
  <2>1. CASE q = p
    BY <1>2, <1>4, <2>1 DEF RowInv, Within
  <2>2. CASE q # p
    BY <1>2, <2>2 DEF Inv, RowInv, Within
  <2> QED
    BY <2>1, <2>2
<1>6. ASSUME NEW c \in Calls, call'[c] = call[c]
      PROVE  ReadInv(c)' /\ SumInv(c)'
  <2>1. ReadInv(c) /\ SumInv(c) /\ call[c].saw.version \in Nat
    BY DEF Inv, TypeOK, BillRow
  <2>2. CASE call[c].period # p
    BY <1>2, <1>6, <2>1, <2>2 DEF ReadInv, SumInv, Reading, Unchanged, Within
  <2>3. CASE call[c].period = p
    <3>1. Reading(c) => /\ bill[p].status # "none"
                        /\ call[c].saw.version < row.version
                        /\ call[c].saw.start = row.start /\ call[c].saw.end = row.end
      BY <1>4, <2>1, <2>3 DEF ReadInv
    <3>2. Reading(c) => ~Unchanged(c)'
      BY <1>2, <1>4, <1>6, <2>1, <2>3, <3>1 DEF Unchanged
    <3>3. ReadInv(c)'
      BY <1>2, <1>4, <1>6, <2>1, <2>3, <3>1, <3>2 DEF ReadInv, Reading
    <3>4. SumInv(c)'
      BY <1>6, <2>1, <3>2 DEF SumInv, Reading, Within
    <3> QED
      BY <3>3, <3>4
  <2> QED
    BY <2>2, <2>3
<1> QED
  BY <1>2, <1>3, <1>5, <1>6

(* Only a record changes, and its revision does not go back.                *)
LEMMA RecordMoves ==
  ASSUME Inv, NEW r \in Records,
         NEW row \in [status : {"settled", "revoked"}, revision : Nat],
         record' = [record EXCEPT ![r] = row], row.revision >= record[r].revision,
         record[r].status = "revoked" => row.status = "revoked",
         UNCHANGED <<occurred, bill, now, call>>, budget' \in [Events -> Nat]
  PROVE  Inv'
<1>1. record \in [Records -> [status : {"pending", "settled", "revoked"}, revision : Nat]]
  BY DEF Inv, TypeOK
<1>2. /\ record' \in [Records -> [status : {"pending", "settled", "revoked"}, revision : Nat]]
      /\ \A q \in Records : /\ record'[q].revision >= record[q].revision
                            /\ record[q].revision \in Nat /\ record'[q].revision \in Nat
                            /\ record[q].status = "revoked" => record'[q].status = "revoked"
                            /\ record'[q].status = "pending" => record'[q] = record[q]
  BY <1>1
<1>3. TypeOK'
  BY <1>2 DEF Inv, TypeOK
<1>4. RecordInv'
  BY <1>2 DEF Inv, RecordInv
<1>5. ASSUME NEW p \in Periods PROVE RowInv(p)'
  <2>1. RowInv(p) /\ \A q \in Records : bill[p].counted[q] \in Nat
    BY DEF Inv, TypeOK, BillRow
  <2> QED
    BY <1>2, <2>1 DEF RowInv, Within
<1>6. ASSUME NEW c \in Calls PROVE ReadInv(c)' /\ SumInv(c)'
  <2>1. ReadInv(c) /\ SumInv(c) /\ \A q \in Records : call[c].sum[q] \in Nat
    BY DEF Inv, TypeOK
  <2>2. ReadInv(c)'
    BY <2>1 DEF ReadInv, Reading, Unchanged
  <2>3. SumInv(c)'
    BY <1>2, <2>1 DEF SumInv, Unchanged, Within
  <2> QED
    BY <2>2, <2>3
<1> QED
  BY <1>3, <1>4, <1>5, <1>6 DEF Inv

--------------------------------------------------------------------------------
(* One action after the other.                                              *)

LEMMA GetByPeriodInv ==
  ASSUME Inv, NEW c \in Calls, NEW p \in Periods, GetBillByOrderPeriod(c, p)
  PROVE  Inv'
<1> DEFINE state == IF bill[p].status = "none"
                    THEN [Idle EXCEPT !.pc = "create", !.period = p, !.at = now]
                    ELSE [Idle EXCEPT !.pc = "sum", !.period = p, !.saw = bill[p]]
<1>1. /\ bill[p] \in BillRow /\ now \in Stamps
      /\ call \in [Calls -> [pc : {"idle", "create", "sum", "update", "issue", "void"},
                             period : Periods \cup {0}, saw : BillRow, at : Stamps,
                             sum : [Records -> Nat]]]
  BY InstantIsStamp DEF Inv, TypeOK
<1>2. state \in [pc : {"idle", "create", "sum", "update", "issue", "void"},
                 period : Periods \cup {0}, saw : BillRow, at : Stamps,
                 sum : [Records -> Nat]]
  BY <1>1, IdleType
<1>3. call' = [call EXCEPT ![c] = state] /\ UNCHANGED <<occurred, record, bill, now>>
  BY DEF GetBillByOrderPeriod
<1>4. state.period = p /\ state.pc \in {"create", "sum"}
      /\ (bill[p].status # "none" => state.saw = bill[p])
      /\ (state.pc = "sum" <=> bill[p].status # "none")
  BY DEF Idle
<1>5. budget' \in [Events -> Nat]
  BY Spending DEF Inv, GetBillByOrderPeriod, Events
<1>6. call'[c] = state
  BY <1>1, <1>3
<1> HIDE DEF state
<1>7. ReadInv(c)' /\ SumInv(c)'
  BY <1>1, <1>3, <1>4, <1>6 DEF ReadInv, SumInv, Reading, Unchanged, BillRow
<1> QED
  BY <1>2, <1>3, <1>5, <1>7, CallMoves

LEMMA GetByIDInv ==
  ASSUME Inv, NEW c \in Calls, NEW p \in Periods,
         \/ GetBillByID(c, p)
         \/ GetBillToVoid(c) /\ p = 1
  PROVE  Inv'
<1> DEFINE pc == IF GetBillByID(c, p) THEN "issue" ELSE "void"
           state == [Idle EXCEPT !.pc = pc, !.period = p, !.saw = bill[p]]
<1>1. /\ bill[p] \in BillRow
      /\ call \in [Calls -> [pc : {"idle", "create", "sum", "update", "issue", "void"},
                             period : Periods \cup {0}, saw : BillRow, at : Stamps,
                             sum : [Records -> Nat]]]
  BY DEF Inv, TypeOK
<1>2. /\ call' = [call EXCEPT ![c] = state] /\ UNCHANGED <<occurred, record, bill, now>>
      /\ bill[p].status # "none" /\ Spend("call")
      /\ pc = "issue" => "issued" \in billTransitions[bill[p].status]
  BY DEF GetBillByID, GetBillToVoid
<1>3. pc \in {"issue", "void"}
  OBVIOUS
<1>4. bill[p].status \in BillStatus
  BY <1>1, <1>2 DEF BillRow
<1>5. pc = "issue" => bill[p].status = "draft"
  BY <1>2, <1>4 DEF BillStatus, billTransitions
<1> HIDE DEF pc
<1>6. state \in [pc : {"idle", "create", "sum", "update", "issue", "void"},
                 period : Periods \cup {0}, saw : BillRow, at : Stamps,
                 sum : [Records -> Nat]]
  BY <1>1, <1>3, IdleType
<1>7. state.period = p /\ state.pc = pc /\ state.saw = bill[p]
  BY DEF Idle
<1>8. budget' \in [Events -> Nat]
  BY <1>2, Spending DEF Inv, Events
<1>9. call'[c] = state
  BY <1>1, <1>2
<1> HIDE DEF state
<1>10. ReadInv(c)' /\ SumInv(c)'
  BY <1>1, <1>2, <1>3, <1>5, <1>7, <1>9 DEF ReadInv, SumInv, Reading, Unchanged, BillRow
<1> QED
  BY <1>2, <1>6, <1>8, <1>10, CallMoves

LEMMA FailInv ==
  ASSUME Inv, NEW c \in Calls, Return(c), UNCHANGED <<occurred, record, bill, now, budget>>
  PROVE  Inv'
<1>1. budget' \in [Events -> Nat] /\ call' = [call EXCEPT ![c] = Idle]
  BY DEF Inv, TypeOK, Return
<1>2. call'[c] = Idle
  BY <1>1 DEF Inv, TypeOK
<1>3. ReadInv(c)' /\ SumInv(c)'
  BY <1>2, IdleInv
<1> QED
  BY <1>1, <1>3, IdleType, CallMoves

LEMMA SumAcceptedHoursInv ==
  ASSUME Inv, NEW c \in Calls, SumAcceptedHours(c)
  PROVE  Inv'
<1> DEFINE total == [r \in Records |->
                       IF record[r].status = "settled" /\ Within(r, call[c].saw)
                       THEN record[r].revision ELSE 0]
           state == [call[c] EXCEPT !.pc = "update", !.sum = total]
<1>1. /\ record \in [Records -> [status : {"pending", "settled", "revoked"}, revision : Nat]]
      /\ call \in [Calls -> [pc : {"idle", "create", "sum", "update", "issue", "void"},
                             period : Periods \cup {0}, saw : BillRow, at : Stamps,
                             sum : [Records -> Nat]]]
      /\ bill \in [Periods -> BillRow] /\ budget \in [Events -> Nat]
  BY DEF Inv, TypeOK
<1>2. /\ call' = [call EXCEPT ![c] = state] /\ UNCHANGED <<occurred, record, bill, now, budget>>
      /\ call[c].pc = "sum"
  BY DEF SumAcceptedHours, At
<1>3. total \in [Records -> Nat]
  BY <1>1
<1>4. \A r \in Records : /\ total[r] <= record[r].revision
                         /\ total[r] > 0 => Within(r, call[c].saw)
  BY <1>1
<1>5. ASSUME NEW r \in Records, Unchanged(c)
      PROVE  \/ bill[call[c].period].counted[r] <= total[r]
             \/ record[r].status = "revoked"
  <2> DEFINE p == call[c].period
  <2>1. p \in Periods /\ call[c].saw = bill[p] /\ RowInv(p)
    BY <1>2, <1>5 DEF Inv, ReadInv, Reading
  <2>2. bill[p].counted[r] \in Nat /\ record[r].revision \in Nat
        /\ record[r].status \in {"pending", "settled", "revoked"}
    BY <1>1, <2>1 DEF BillRow
  <2>3. CASE bill[p].counted[r] = 0
    BY <1>3, <2>3
  <2>4. CASE bill[p].counted[r] > 0
    <3>1. Within(r, call[c].saw) /\ bill[p].counted[r] <= record[r].revision
      BY <2>1, <2>4 DEF RowInv
    <3>2. record[r].status # "pending"
      BY <2>2, <2>4, <3>1 DEF Inv, RecordInv
    <3> QED
      BY <2>2, <3>1, <3>2
  <2> QED
    BY <2>2, <2>3, <2>4
<1> HIDE DEF total
<1>6. state \in [pc : {"idle", "create", "sum", "update", "issue", "void"},
                 period : Periods \cup {0}, saw : BillRow, at : Stamps,
                 sum : [Records -> Nat]]
  BY <1>1, <1>3
<1>7. state.period = call[c].period /\ state.pc = "update" /\ state.saw = call[c].saw
      /\ state.sum = total
  BY <1>1
<1>8. call'[c] = state
  BY <1>1, <1>2
<1> HIDE DEF state
<1>9. ReadInv(c)'
  BY <1>2, <1>7, <1>8 DEF Inv, ReadInv, Reading, Unchanged
<1>10. SumInv(c)'
  BY <1>2, <1>4, <1>5, <1>7, <1>8 DEF SumInv, Unchanged, Within
<1> QED
  BY <1>1, <1>2, <1>6, <1>9, <1>10, CallMoves

--------------------------------------------------------------------------------
(* A call writes its row, if it is still the one it has seen, and returns.  *)
LEMMA WriteAndReturn ==
  ASSUME Inv, NEW c \in Calls, NEW row \in BillRow, Reading(c),
         bill' = IF Unchanged(c) THEN [bill EXCEPT ![call[c].period] = row] ELSE bill,
         Unchanged(c) =>
           /\ row.status # "none" /\ row.version > bill[call[c].period].version
           /\ row.start = bill[call[c].period].start /\ row.end = bill[call[c].period].end
           /\ \A r \in Records : /\ row.counted[r] <= record[r].revision
                                 /\ row.counted[r] > 0 => Within(r, row),
         Return(c), UNCHANGED <<occurred, record, now, budget>>
  PROVE  Inv'
<1>1. CASE ~Unchanged(c)
  BY <1>1, FailInv
<1>2. CASE Unchanged(c)
  <2>1. call[c].period \in Periods
    BY DEF Inv, ReadInv, Reading
  <2>2. call' = [call EXCEPT ![c] = Idle]
        /\ call \in [Calls -> [pc : {"idle", "create", "sum", "update", "issue", "void"},
                               period : Periods \cup {0}, saw : BillRow, at : Stamps,
                               sum : [Records -> Nat]]]
    BY DEF Inv, TypeOK, Return
  <2>3. /\ bill' \in [Periods -> BillRow] /\ RecordInv' /\ \A q \in Periods : RowInv(q)'
        /\ \A d \in Calls : call'[d] = call[d] => ReadInv(d)' /\ SumInv(d)'
    BY <1>2, <2>1, RowWritten
  <2>4. TypeOK'
    BY <2>2, <2>3, IdleType DEF Inv, TypeOK
  <2>5. ASSUME NEW d \in Calls PROVE ReadInv(d)' /\ SumInv(d)'
    BY <2>2, <2>3, IdleInv
  <2> QED
    BY <2>3, <2>4, <2>5 DEF Inv
<1> QED
  BY <1>1, <1>2

LEMMA UpdateBillTotalsInv ==
  ASSUME Inv, NEW c \in Calls, UpdateBillTotals(c)
  PROVE  Inv'
<1> DEFINE p == call[c].period
           row == [bill[p] EXCEPT !.counted = call[c].sum, !.version = bill[p].version + 1]
<1>1. /\ bill' = (IF Unchanged(c) THEN [bill EXCEPT ![p] = row] ELSE bill)
      /\ Return(c) /\ UNCHANGED <<occurred, record, now, budget>> /\ call[c].pc = "update"
  BY DEF UpdateBillTotals, At
<1>2. Reading(c) /\ p \in Periods /\ bill[p].status # "none"
  BY <1>1 DEF Inv, ReadInv, Reading
<1>3. bill[p] \in BillRow /\ call[c].sum \in [Records -> Nat]
  BY <1>2 DEF Inv, TypeOK
<1>4. row \in BillRow /\ row.status # "none" /\ row.version > bill[p].version
      /\ row.start = bill[p].start /\ row.end = bill[p].end /\ row.counted = call[c].sum
  <2>1. row.version = bill[p].version + 1 /\ row.status = bill[p].status
        /\ row.start = bill[p].start /\ row.end = bill[p].end /\ row.counted = call[c].sum
    BY <1>3 DEF BillRow
  <2>2. bill[p].version \in Nat /\ bill[p].version + 1 \in Nat
    BY <1>3 DEF BillRow
  <2>3. row \in BillRow
    BY <1>3, <2>2 DEF BillRow
  <2> QED
    BY <1>2, <2>1, <2>2, <2>3
<1>5. call[c].saw.start = bill[p].start /\ call[c].saw.end = bill[p].end
  BY <1>2 DEF Inv, ReadInv
<1>6. \A r \in Records : /\ row.counted[r] <= record[r].revision
                         /\ row.counted[r] > 0 => Within(r, row)
  BY <1>1, <1>4, <1>5 DEF Inv, SumInv, Within
<1> HIDE DEF row
<1> QED
  BY <1>1, <1>2, <1>4, <1>6, WriteAndReturn

LEMMA UpdateBillStatusInv ==
  ASSUME Inv, NEW c \in Calls, IssueBill(c) \/ VoidBill(c)
  PROVE  Inv'
<1> DEFINE p == call[c].period
<1>1. PICK from \in BillStatus, to \in BillStatus :
        /\ UpdateBillStatus(c, from, to) /\ Reading(c)
        /\ Return(c) /\ UNCHANGED <<occurred, record, now, budget>>
  <2>1. CASE IssueBill(c)
    <3>1. "draft" \in BillStatus /\ "issued" \in BillStatus
      BY DEF BillStatus
    <3>2. call[c].saw.status = "draft" /\ Reading(c)
      BY <2>1 DEF Inv, ReadInv, Reading, IssueBill, At
    <3> QED
      BY <2>1, <3>1, <3>2 DEF IssueBill
  <2>2. CASE VoidBill(c)
    <3>1. "draft" \in BillStatus /\ "voided" \in BillStatus
      BY DEF BillStatus
    <3>2. Reading(c)
      BY <2>2 DEF Reading, VoidBill, At
    <3> QED
      BY <2>2, <3>1, <3>2 DEF VoidBill
  <2> QED
    BY <2>1, <2>2
<1> DEFINE row == [bill[p] EXCEPT !.status = to, !.version = bill[p].version + 1]
<1>2. p \in Periods /\ bill[p].status # "none" /\ RowInv(p)
  BY <1>1 DEF Inv, ReadInv, Reading
<1>3. bill[p] \in BillRow
  BY <1>2 DEF Inv, TypeOK
<1>4. row \in BillRow /\ row.status # "none" /\ row.version > bill[p].version
      /\ row.start = bill[p].start /\ row.end = bill[p].end /\ row.counted = bill[p].counted
  <2>1. row.version = bill[p].version + 1 /\ row.status = to
        /\ row.start = bill[p].start /\ row.end = bill[p].end
        /\ row.counted = bill[p].counted
    BY <1>3 DEF BillRow
  <2>2. bill[p].version \in Nat /\ bill[p].version + 1 \in Nat /\ to # "none"
    BY <1>3 DEF BillRow, BillStatus
  <2>3. row \in BillRow
    BY <1>3, <2>2 DEF BillRow
  <2> QED
    BY <2>1, <2>2, <2>3
<1>5. \A r \in Records : /\ row.counted[r] <= record[r].revision
                         /\ row.counted[r] > 0 => Within(r, row)
  BY <1>2, <1>4 DEF RowInv, Within
<1>6. bill' = IF Unchanged(c) /\ bill[p].status = from THEN [bill EXCEPT ![p] = row] ELSE bill
  BY <1>1 DEF UpdateBillStatus
<1> HIDE DEF row
<1>7. CASE bill[p].status = from
  BY <1>1, <1>4, <1>5, <1>6, <1>7, WriteAndReturn
<1>8. CASE bill[p].status # from
  BY <1>1, <1>6, <1>8, FailInv
<1> QED
  BY <1>7, <1>8

LEMMA StepGenerateBillInv ==
  ASSUME Inv, StepGenerateBill
  PROVE  Inv'
<1>1. now \in Stamps
  BY InstantIsStamp DEF Inv, TypeOK
<1>2. /\ 1 \in Periods /\ bill[1].status = "none" /\ bill' = [bill EXCEPT ![1] = Opened(now)]
      /\ UNCHANGED <<occurred, record, now, call, budget>>
  BY DEF StepGenerateBill
<1> DEFINE row == Opened(now)
<1>3. /\ row \in BillRow /\ row.status = "draft" /\ row.version = 1
      /\ \A r \in Records : row.counted[r] = 0
  BY <1>1, OpenedType
<1> HIDE DEF row
<1>4. bill[1].version = 0 /\ \A r \in Records : record[r].revision \in Nat
  BY <1>2 DEF Inv, TypeOK, BillRow, RowInv
<1>5. /\ row.status # "none" /\ bill[1].version < row.version
      /\ \A r \in Records : /\ row.counted[r] <= record[r].revision
                            /\ row.counted[r] > 0 => Within(r, row)
  BY <1>3, <1>4
<1>6. bill' = [bill EXCEPT ![1] = row]
  BY <1>2 DEF row
<1>7. /\ bill' \in [Periods -> BillRow] /\ RecordInv' /\ \A q \in Periods : RowInv(q)'
      /\ \A d \in Calls : call'[d] = call[d] => ReadInv(d)' /\ SumInv(d)'
  BY <1>2, <1>3, <1>5, <1>6, RowWritten
<1>8. TypeOK'
  BY <1>2, <1>7 DEF Inv, TypeOK
<1> QED
  BY <1>2, <1>7, <1>8 DEF Inv

LEMMA CreateBillInv ==
  ASSUME Inv, NEW c \in Calls, CreateBill(c)
  PROVE  Inv'
<1> DEFINE p == call[c].period
           row == Opened(call[c].at)
           state == [call[c] EXCEPT !.pc = "sum", !.saw = row, !.at = Never]
<1>1. /\ call[c].pc = "create" /\ p \in Periods /\ UNCHANGED <<occurred, record, now, budget>>
      /\ call \in [Calls -> [pc : {"idle", "create", "sum", "update", "issue", "void"},
                             period : Periods \cup {0}, saw : BillRow, at : Stamps,
                             sum : [Records -> Nat]]]
  BY DEF CreateBill, At, Inv, ReadInv, TypeOK
<1>2. CASE bill[p].status # "none"
  BY <1>1, <1>2, FailInv DEF CreateBill
<1>3. CASE bill[p].status = "none"
  <2>1. bill' = [bill EXCEPT ![p] = row] /\ call' = [call EXCEPT ![c] = state]
    BY <1>3 DEF CreateBill
  <2>2. /\ row \in BillRow /\ row.status = "draft" /\ row.version = 1
        /\ \A r \in Records : row.counted[r] = 0
    BY <1>1, OpenedType
  <2> HIDE DEF row
  <2>3. bill[p].version = 0 /\ \A r \in Records : record[r].revision \in Nat
    BY <1>1, <1>3 DEF Inv, TypeOK, BillRow, RowInv
  <2>10. /\ row.status # "none" /\ bill[p].version < row.version
         /\ \A r \in Records : /\ row.counted[r] <= record[r].revision
                               /\ row.counted[r] > 0 => Within(r, row)
    BY <2>2, <2>3
  <2>4. /\ bill' \in [Periods -> BillRow] /\ bill'[p] = row
        /\ RecordInv' /\ \A q \in Periods : RowInv(q)'
        /\ \A d \in Calls : call'[d] = call[d] => ReadInv(d)' /\ SumInv(d)'
    BY <1>1, <1>3, <2>1, <2>2, <2>10, RowWritten
  <2>5. state \in [pc : {"idle", "create", "sum", "update", "issue", "void"},
                   period : Periods \cup {0}, saw : BillRow, at : Stamps,
                   sum : [Records -> Nat]]
    BY <1>1, <2>2, IdleType
  <2>6. state.pc = "sum" /\ state.period = p /\ state.saw = row
    BY <1>1
  <2>7. call'[c] = state /\ \A d \in Calls : d # c => call'[d] = call[d]
    BY <1>1, <2>1
  <2> HIDE DEF state
  <2>8. ReadInv(c)' /\ SumInv(c)'
    BY <1>1, <2>2, <2>4, <2>6, <2>7 DEF ReadInv, SumInv, Reading, Unchanged
  <2>9. TypeOK'
    BY <1>1, <2>1, <2>4, <2>5 DEF Inv, TypeOK
  <2> QED
    BY <2>4, <2>7, <2>8, <2>9 DEF Inv
<1> QED
  BY <1>2, <1>3

LEMMA RecordStepInv ==
  ASSUME Inv, NEW r \in Records, Settle(r) \/ CorrectRecord(r) \/ RevokeRecord(r)
  PROVE  Inv'
<1>1. record[r] \in [status : {"pending", "settled", "revoked"}, revision : Nat]
  BY DEF Inv, TypeOK
<1>2. CASE Settle(r)
  <2> DEFINE row == [status |-> "settled", revision |-> 1]
  <2>1. row.revision >= record[r].revision /\ record[r].status # "revoked"
    BY <1>1, <1>2 DEF Settle, Inv, RecordInv
  <2> QED
    BY <1>2, <2>1, RecordMoves DEF Settle, Inv, TypeOK
<1>3. CASE CorrectRecord(r)
  <2>1. budget' \in [Events -> Nat]
    BY <1>3, Spending DEF CorrectRecord, Inv, Events
  <2> DEFINE row == [status |-> "settled", revision |-> record[r].revision + 1]
  <2>2. row \in [status : {"settled", "revoked"}, revision : Nat]
        /\ row.revision >= record[r].revision /\ record[r].status # "revoked"
    BY <1>1, <1>3 DEF CorrectRecord
  <2>3. record' = [record EXCEPT ![r] = row] /\ UNCHANGED <<occurred, bill, now, call>>
    BY <1>3 DEF CorrectRecord
  <2> HIDE DEF row
  <2> QED
    BY <2>1, <2>2, <2>3, RecordMoves
<1>4. CASE RevokeRecord(r)
  <2> DEFINE row == [status |-> "revoked", revision |-> record[r].revision]
  <2>1. row \in [status : {"settled", "revoked"}, revision : Nat]
        /\ row.revision >= record[r].revision /\ row.status = "revoked"
    BY <1>1
  <2>2. record' = [record EXCEPT ![r] = row] /\ UNCHANGED <<occurred, bill, now, call, budget>>
    BY <1>4 DEF RevokeRecord
  <2> HIDE DEF row
  <2> QED
    BY <2>1, <2>2, RecordMoves DEF Inv, TypeOK
<1> QED
  BY <1>2, <1>3, <1>4

LEMMA IdleClock ==
  ASSUME Inv, UNCHANGED <<occurred, record, bill, call, budget>>, now' \in Instants
  PROVE  Inv'
<1>1. TypeOK'
  BY DEF Inv, TypeOK
<1>2. RecordInv' /\ \A p \in Periods : RowInv(p)'
  BY DEF Inv, RecordInv, RowInv, Within
<1>3. \A c \in Calls : ReadInv(c)' /\ SumInv(c)'
  BY OtherCall
<1> QED
  BY <1>1, <1>2, <1>3 DEF Inv

LEMMA NextInv == Inv /\ [Next]_vars => Inv'
<1> SUFFICES ASSUME Inv, [Next]_vars PROVE Inv'
  OBVIOUS
<1>1. ASSUME NEW c \in Calls, NEW p \in Periods, GetBillByOrderPeriod(c, p) \/ GetBillByID(c, p)
      PROVE  Inv'
  BY <1>1, GetByPeriodInv, GetByIDInv
<1>2. ASSUME NEW c \in Calls, GetBillToVoid(c) PROVE Inv'
  <2>1. 1 \in Periods
    BY <1>2 DEF GetBillToVoid
  <2> QED
    BY <1>2, <2>1, GetByIDInv
<1>3. ASSUME NEW c \in Calls, CreateBill(c) PROVE Inv'
  BY <1>3, CreateBillInv
<1>4. ASSUME NEW c \in Calls, SumAcceptedHours(c) PROVE Inv'
  BY <1>4, SumAcceptedHoursInv
<1>5. ASSUME NEW c \in Calls, UpdateBillTotals(c) PROVE Inv'
  BY <1>5, UpdateBillTotalsInv
<1>6. ASSUME NEW c \in Calls, IssueBill(c) \/ VoidBill(c) PROVE Inv'
  BY <1>6, UpdateBillStatusInv
<1>7. ASSUME NEW c \in Calls, CallFails(c) PROVE Inv'
  BY <1>7, FailInv DEF CallFails
<1>8. CASE StepGenerateBill
  BY <1>8, StepGenerateBillInv
<1>9. ASSUME NEW r \in Records, Settle(r) \/ CorrectRecord(r) \/ RevokeRecord(r) PROVE Inv'
  BY <1>9, RecordStepInv
<1>10. CASE Advance
  BY <1>10, IdleClock DEF Advance
<1>11. CASE UNCHANGED vars
  BY <1>11, IdleClock DEF vars, Inv, TypeOK
<1> QED
  BY <1>1, <1>2, <1>3, <1>4, <1>5, <1>6, <1>7, <1>8, <1>9, <1>10, <1>11 DEF Next

LEMMA InvHolds == Spec => []Inv
<1> QED
  BY InitInv, NextInv, PTL DEF Spec

--------------------------------------------------------------------------------
(* Rows, calls and captured values keep their types, for any instants.      *)
THEOREM TypeCorrect == Spec => []TypeOK
<1>1. Inv => TypeOK
  BY DEF Inv
<1> QED
  BY <1>1, InvHolds, PTL

(* GenerateBill counts nothing from a second outside its bill's period.     *)
THEOREM CountsInPeriod == Spec => []CountedInPeriod
<1>1. ASSUME Inv PROVE CountedInPeriod
  <2> SUFFICES ASSUME NEW p \in Periods, NEW r \in Records, bill[p].counted[r] > 0
               PROVE  occurred[r].sec \in bill[p].start.sec .. bill[p].end.sec
    BY DEF CountedInPeriod
  <2>1. Within(r, bill[p]) /\ bill[p] \in BillRow /\ occurred[r] \in Stamps
    BY <1>1, InstantIsStamp DEF Inv, TypeOK, RowInv
  <2>2. /\ occurred[r].sec \in Int
        /\ bill[p].start.sec \in Int /\ bill[p].end.sec \in Int
    BY <2>1 DEF BillRow, Stamps
  <2>3. ~(occurred[r].sec < bill[p].start.sec)
    BY <2>1 DEF Within, TextBefore
  <2>4. occurred[r].sec <= bill[p].end.sec
    BY <2>1, <2>2 DEF Within, TextBefore
  <2> QED
    BY <2>2, <2>3, <2>4
<1> QED
  BY <1>1, InvHolds, PTL

(* The bills of periods that meet, or that a second parts, share no record, *)
(* whatever fractions the instants have.                                    *)
THEOREM CountsOnce == Spec => []CountedOnce
<1>1. ASSUME Inv PROVE CountedOnce
  <2> SUFFICES ASSUME NEW p \in Periods, NEW q \in Periods, NEW r \in Records,
                      Apart(bill[p], bill[q]),
                      bill[p].counted[r] # 0, bill[q].counted[r] # 0
               PROVE  FALSE
    BY DEF CountedOnce
  <2>1. bill[p] \in BillRow /\ bill[q] \in BillRow /\ occurred[r] \in Stamps
    BY <1>1, InstantIsStamp DEF Inv, TypeOK
  <2>2. bill[p].counted[r] > 0 /\ bill[q].counted[r] > 0
    BY <2>1 DEF BillRow
  <2>3. Within(r, bill[p]) /\ Within(r, bill[q])
    BY <1>1, <2>2 DEF Inv, RowInv
  <2>4. TextBefore(occurred[r], bill[p].end) /\ ~TextBefore(occurred[r], bill[q].start)
    BY <2>3 DEF Within
  <2>5. bill[p].end.sec < bill[q].start.sec
    BY <2>4 DEF Apart
  <2>6. /\ occurred[r].sec \in Int
        /\ bill[p].end.sec \in Int /\ bill[q].start.sec \in Int
    BY <2>1 DEF BillRow, Stamps
  <2>7. occurred[r].sec <= bill[p].end.sec
    BY <2>4, <2>6 DEF TextBefore
  <2>8. ~(occurred[r].sec < bill[q].start.sec)
    BY <2>4 DEF TextBefore
  <2> QED
    BY <2>5, <2>6, <2>7, <2>8
<1> QED
  BY <1>1, InvHolds, PTL

(* A step that writes no bill, or writes one bill only.                     *)
LEMMA BillWrites ==
  ASSUME Inv, [Next]_vars
  PROVE  \/ UNCHANGED bill
         \/ \E c \in Calls : CreateBill(c) \/ UpdateBillTotals(c) \/ IssueBill(c) \/ VoidBill(c)
         \/ StepGenerateBill
  BY DEF Next, vars, GetBillByOrderPeriod, GetBillByID, SumAcceptedHours, GetBillToVoid,
         CallFails, Settle, CorrectRecord, RevokeRecord, Advance

(* What one write changes: a row is opened as a draft, its totals are       *)
(* replaced, or its status moves along the table.                           *)
LEMMA BillChanges ==
  ASSUME Inv, [Next]_vars, NEW p \in Periods, bill'[p] # bill[p]
  PROVE  \/ /\ bill[p].status = "none" /\ bill'[p].status = "draft"
            /\ \A r \in Records : bill[p].counted[r] = 0 /\ bill'[p].counted[r] = 0
         \/ \E c \in Calls :
              /\ At(c, "update") /\ call[c].period = p /\ Unchanged(c)
              /\ bill'[p].status = bill[p].status /\ bill'[p].counted = call[c].sum
              /\ bill'[p].start = bill[p].start /\ bill'[p].end = bill[p].end
         \/ \E c \in Calls :
              /\ call[c].period = p /\ Unchanged(c)
              /\ bill'[p].counted = bill[p].counted
              /\ bill'[p].start = bill[p].start /\ bill'[p].end = bill[p].end
              /\ \/ At(c, "issue") /\ bill[p].status = call[c].saw.status
                    /\ bill'[p].status = "issued"
                 \/ At(c, "void") /\ bill[p].status = "draft" /\ bill'[p].status = "voided"
<1>1. /\ bill \in [Periods -> BillRow] /\ RowInv(p)
      /\ \A r \in Records : record[r].revision \in Nat /\ bill[p].counted[r] \in Nat
  BY DEF Inv, TypeOK, BillRow
<1>2. \A r \in Records : bill[p].status = "none" => bill[p].counted[r] = 0
  BY <1>1 DEF RowInv
<1>3. ASSUME NEW c \in Calls, CreateBill(c)
      PROVE  bill[p].status = "none" /\ \E t : bill'[p] = Opened(t)
  BY <1>1, <1>3 DEF CreateBill
<1>4. CASE StepGenerateBill
  BY <1>1, <1>2, <1>4 DEF StepGenerateBill, Opened
<1>5. ASSUME NEW c \in Calls, UpdateBillTotals(c)
      PROVE  /\ At(c, "update") /\ call[c].period = p /\ Unchanged(c)
             /\ bill'[p].status = bill[p].status /\ bill'[p].counted = call[c].sum
             /\ bill'[p].start = bill[p].start /\ bill'[p].end = bill[p].end
  <2>1. At(c, "update") /\ Unchanged(c) /\ call[c].period = p
    BY <1>1, <1>5 DEF UpdateBillTotals
  <2>2. bill'[p] = [bill[p] EXCEPT !.counted = call[c].sum, !.version = bill[p].version + 1]
    BY <1>1, <1>5, <2>1 DEF UpdateBillTotals
  <2> QED
    BY <1>1, <2>1, <2>2 DEF BillRow
<1>6. ASSUME NEW c \in Calls, NEW from, NEW to, UpdateBillStatus(c, from, to)
      PROVE  /\ call[c].period = p /\ Unchanged(c) /\ bill'[p].counted = bill[p].counted
             /\ bill'[p].start = bill[p].start /\ bill'[p].end = bill[p].end
             /\ bill[p].status = from /\ bill'[p].status = to
  <2>1. call[c].period = p /\ Unchanged(c) /\ bill[p].status = from
    BY <1>1, <1>6 DEF UpdateBillStatus
  <2>2. bill'[p] = [bill[p] EXCEPT !.status = to, !.version = bill[p].version + 1]
    BY <1>1, <1>6, <2>1 DEF UpdateBillStatus
  <2> QED
    BY <1>1, <2>1, <2>2 DEF BillRow
<1>7. CASE \E c \in Calls : CreateBill(c)
  <2>1. bill[p].status = "none" /\ \E t : bill'[p] = Opened(t)
    BY <1>3, <1>7
  <2>2. bill'[p].status = "draft" /\ \A r \in Records : bill'[p].counted[r] = 0
    BY <2>1 DEF Opened
  <2> QED
    BY <1>2, <2>1, <2>2
<1>8. CASE \E c \in Calls : UpdateBillTotals(c)
  BY <1>5, <1>8
<1>9. CASE \E c \in Calls : IssueBill(c)
  BY <1>6, <1>9 DEF IssueBill
<1>10. CASE \E c \in Calls : VoidBill(c)
  BY <1>6, <1>10 DEF VoidBill
<1> QED
  BY <1>4, <1>7, <1>8, <1>9, <1>10, BillWrites

(* A recomputation never replaces a later sum: the version its totals are   *)
(* written with is the one its bill had before it summed.                   *)
THEOREM TotalsNeverGoBack == Spec => TotalsMoveForward
<1>1. ASSUME Inv, [Next]_vars
      PROVE  \A p \in Periods, r \in Records :
               bill'[p].counted[r] < bill[p].counted[r] => record[r].status = "revoked"
  <2> SUFFICES ASSUME NEW p \in Periods, NEW r \in Records,
                      bill'[p].counted[r] < bill[p].counted[r]
               PROVE  record[r].status = "revoked"
    OBVIOUS
  <2>1. bill[p].counted[r] \in Nat
    BY <1>1 DEF Inv, TypeOK, BillRow
  <2>2. bill'[p].counted[r] # bill[p].counted[r]
    BY <2>1
  <2>3. PICK c \in Calls : /\ At(c, "update") /\ call[c].period = p /\ Unchanged(c)
                           /\ bill'[p].counted = call[c].sum
    BY <1>1, <2>2, BillChanges
  <2>4. SumInv(c) /\ call[c].sum[r] \in Nat
    BY <1>1 DEF Inv, TypeOK
  <2>5. bill[p].counted[r] <= call[c].sum[r] \/ record[r].status = "revoked"
    BY <2>3, <2>4 DEF SumInv, At
  <2> QED
    BY <2>1, <2>3, <2>4, <2>5
<1> QED
  BY <1>1, InvHolds, PTL DEF Spec, TotalsMoveForward

(* IssueBill issues the very row it has read.                               *)
THEOREM IssuesWhatWasShown == Spec => IssuedAsShown
<1>1. ASSUME Inv, [Next]_vars
      PROVE  \A p \in Periods :
               bill'[p].status = "issued" /\ bill[p].status # "issued" =>
                 \E c \in Calls : At(c, "issue") /\ call[c].period = p /\ call[c].saw = bill[p]
  <2> SUFFICES ASSUME NEW p \in Periods, bill'[p].status = "issued", bill[p].status # "issued"
               PROVE  \E c \in Calls :
                        At(c, "issue") /\ call[c].period = p /\ call[c].saw = bill[p]
    OBVIOUS
  <2>1. PICK c \in Calls : At(c, "issue") /\ call[c].period = p /\ Unchanged(c)
    BY <1>1, BillChanges
  <2>2. call[c].saw = bill[p]
    BY <1>1, <2>1 DEF Inv, ReadInv, Reading, At
  <2> QED
    BY <2>1, <2>2
<1> QED
  BY <1>1, InvHolds, PTL DEF Spec, IssuedAsShown

(* A bill keeps its period and moves along its table.                       *)
THEOREM BillsFollowTheTable == Spec => BillFollowsTable
<1> DEFINE Moves(p) ==
             /\ bill[p].status # "none" =>
                  bill'[p].start = bill[p].start /\ bill'[p].end = bill[p].end
             /\ bill'[p].status # bill[p].status =>
                  IF bill[p].status = "none" THEN bill'[p].status = "draft"
                  ELSE bill'[p].status \in billTransitions[bill[p].status]
<1>1. ASSUME Inv, [Next]_vars, NEW p \in Periods PROVE Moves(p)
  <2>1. CASE bill'[p] = bill[p]
    BY <2>1
  <2>2. \A c \in Calls : At(c, "issue") => call[c].saw.status = "draft"
    BY <1>1 DEF Inv, ReadInv, At
  <2>3. "issued" \in billTransitions["draft"] /\ "voided" \in billTransitions["draft"]
    BY DEF billTransitions
  <2>4. CASE bill'[p] # bill[p]
    BY <1>1, <2>2, <2>3, <2>4, BillChanges
  <2> QED
    BY <2>1, <2>4
<1>2. Inv /\ [Next]_vars => \A p \in Periods : Moves(p)
  BY <1>1
<1> QED
  BY <1>2, InvHolds, PTL DEF Spec, BillFollowsTable
================================================================================
