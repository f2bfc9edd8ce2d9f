----------------------------- MODULE RecordLifecycle -----------------------------
(****************************************************************************)
(* What happens to operation records after their backfill: the poller       *)
(* resolves the pending ones (SyncService.resolveRecord), a reviewer decides *)
(* on those that came too late (ManualVerify), an adjudicator on those that *)
(* contradict the customer (Adjudicate), and staff correct and revoke them  *)
(* (CorrectRecord, RevokeRecord).  A call is one HTTP request; calls        *)
(* overlap, and every action is one statement or one transaction.           *)
(*                                                                          *)
(* Records are numbered; each has a device-day of its own, for which the    *)
(* customer may have reported hours.  Which records share a batch, leases   *)
(* and retries are the business of SyncBatches; here the poller may take    *)
(* all records at any time.                                                 *)
(****************************************************************************)
EXTENDS StateMachines, Integers

CONSTANTS
  NRecords,  \* how many records there are
  Calls,     \* requests that may be in progress at the same time
  Hours,     \* hours a record or a customer may state
  Budget     \* how often each kind of event may happen

Events == {"call", "correct", "report", "fault", "crash"}

ASSUME NRecordsAssumption == NRecords \in Nat
ASSUME HoursAssumption == Hours \subseteq Int \ {0}
ASSUME BudgetAssumption == Budget \in [Events -> Nat]

VARIABLES
  record,    \* operation_records rows
  manual,    \* manual_verifications rows, status "none" before they exist
  ruling,    \* adjudications rows, winner "none" before they exist
  reported,  \* customer_work_hours of the record's device and day, 0 if none
  late,      \* the record's backfill window has closed
  poller,    \* the batch in progress: the records as they were listed
  call,      \* what each call is doing, and the rows it has read
  budget     \* what is left of Budget

rows == <<record, manual, ruling, reported>>
vars == <<rows, late, poller, call, budget>>

Records == 1 .. NRecords

Decisions == {"accept", "reject"}
Winners == {"field", "customer"}

RecordRow == [status : RecordStatus, version : Nat, hours : Int]
ManualRow == [status : {"none", "pending", "reviewed"}, version : Nat,
              decision : Decisions \cup {"none"}]
RulingRow == [winner : Winners \cup {"none"}, delta : Int]

NoRecord == [status |-> "pending", version |-> 0, hours |-> 0]
NoManual == [status |-> "none", version |-> 0, decision |-> "none"]
NoRuling == [winner |-> "none", delta |-> 0]

Idle == [pc |-> "idle", at |-> 0, saw |-> NoRecord, manual |-> 0,
         choice |-> "none", hours |-> 0]

Spend(e) == budget[e] > 0 /\ budget' = [budget EXCEPT ![e] = @ - 1]
At(c, pc) == call[c].pc = pc
Return(c) == call' = [call EXCEPT ![c] = Idle]

(* The row an UPDATE of operation_records leaves.                           *)
Moved(row, to) == [row EXCEPT !.status = to, !.version = row.version + 1]

(* What execVersioned asks for before it writes.                            *)
Current(c) == record[call[c].at].version = call[c].saw.version

Abs(n) == IF n < 0 THEN -n ELSE n

Init ==
  /\ record \in [Records -> [status : {"pending"}, version : {1}, hours : Hours]]
  /\ manual = [r \in Records |-> NoManual]
  /\ ruling = [r \in Records |-> NoRuling]
  /\ reported = [r \in Records |-> 0]
  /\ late = [r \in Records |-> FALSE]
  /\ poller = [pc |-> "idle", listed |-> [r \in Records |-> NoRecord]]
  /\ call = [c \in Calls |-> Idle]
  /\ budget = Budget

--------------------------------------------------------------------------------
(* The poller resolves a batch.                                             *)

Rest == poller' = [pc |-> "idle", listed |-> [r \in Records |-> NoRecord]]

ListRecords ==
  /\ poller.pc = "idle"
  /\ \E r \in Records : record[r].status = "pending"
  /\ poller' = [pc |-> "resolve", listed |-> record]
  /\ UNCHANGED <<rows, late, call, budget>>

Unresolved == {r \in Records : poller.listed[r].status = "pending"}

(* Mutant: the status alone is checked, not the version.                    *)
UnmovedInStatus(r) == record[r].status = poller.listed[r].status

Unmoved(r) == record[r].version = poller.listed[r].version

(* The window comes first, then the customer's hours; those of the record   *)
(* are the listed ones.                                                     *)
Verdict(r) ==
  IF late[r] THEN "manual_verify_pending"
  ELSE IF reported[r] \notin {0, poller.listed[r].hours} THEN "conflict"
  ELSE "accepted"

(* routeToManual: an existing verification row is used again.               *)
Routed(r) ==
  IF manual[r].status = "none"
  THEN [status |-> "pending", version |-> 1, decision |-> "none"] ELSE manual[r]

(* resolveRecord over the whole list, in one transaction.                   *)
ResolveRecords ==
  /\ poller.pc = "resolve"
  /\ \A r \in Unresolved : Unmoved(r)
  /\ record' = [r \in Records |->
       IF r \in Unresolved THEN Moved(record[r], Verdict(r)) ELSE record[r]]
  /\ manual' = [r \in Records |->
       IF r \in Unresolved /\ late[r] THEN Routed(r) ELSE manual[r]]
  /\ Rest
  /\ UNCHANGED <<ruling, reported, late, call, budget>>

(* A record of the list has moved on, or the database fails: roll back.     *)
ResolveFails ==
  /\ poller.pc = "resolve"
  /\ \/ (\E r \in Unresolved : ~Unmoved(r)) /\ UNCHANGED budget
     \/ Spend("fault")
  /\ Rest
  /\ UNCHANGED <<rows, late, call>>

--------------------------------------------------------------------------------
(* Calls.  The first statement of every one reads the record; a call that   *)
(* is refused or has nothing to do returns and leaves no trace.             *)

GetRecord(c, r, pc, choice, hours) ==
  /\ At(c, "idle")
  /\ call' = [call EXCEPT ![c] =
       [pc |-> pc, at |-> r, saw |-> record[r], manual |-> 0,
        choice |-> choice, hours |-> hours]]
  /\ UNCHANGED <<rows, late, poller>>

(* ManualVerify.                                                            *)
StartReview(c, r) ==
  /\ Spend("call")
  /\ manual[r].status # "none"
  /\ \E decision \in Decisions : GetRecord(c, r, "manual", decision, 0)

(* Whether it goes on depends on both rows: reviewed already is a success,  *)
(* whatever the record's status is.                                         *)
GetManual(c) ==
  /\ At(c, "manual")
  /\ IF call[c].saw.status = "manual_verify_pending" /\ manual[call[c].at].status = "pending"
     THEN call' = [call EXCEPT ![c] =
            [call[c] EXCEPT !.pc = "review", !.manual = manual[call[c].at].version]]
     ELSE Return(c)
  /\ UNCHANGED <<rows, late, poller, budget>>

(* Mutant: the verification row is written whatever its version.            *)
ReviewManualAnyVersion(c) ==
  /\ At(c, "review")
  /\ manual' = [manual EXCEPT ![call[c].at] =
       [status |-> "reviewed", version |-> manual[call[c].at].version + 1,
        decision |-> call[c].choice]]
  /\ call' = [call EXCEPT ![c] = [call[c] EXCEPT !.pc = "apply"]]
  /\ UNCHANGED <<record, ruling, reported, late, poller, budget>>

ReviewManual(c) ==
  /\ At(c, "review")
  /\ LET r == call[c].at IN
     IF manual[r].version = call[c].manual
     THEN /\ manual' = [manual EXCEPT ![r] =
               [status |-> "reviewed", version |-> manual[r].version + 1,
                decision |-> call[c].choice]]
          /\ call' = [call EXCEPT ![c] = [call[c] EXCEPT !.pc = "apply"]]
     ELSE UNCHANGED manual /\ Return(c)
  /\ UNCHANGED <<record, ruling, reported, late, poller, budget>>

Target(decision) == IF decision = "accept" THEN "verified" ELSE "revoked"

(* Mutant: the version of the verification row guards the record.           *)
ApplyReviewWrongVersion(c) ==
  /\ At(c, "apply")
  /\ LET r == call[c].at IN
     record' = IF record[r].version = call[c].manual
               THEN [record EXCEPT ![r] = Moved(record[r], Target(call[c].choice))]
               ELSE record
  /\ Return(c)
  /\ UNCHANGED <<manual, ruling, reported, late, poller, budget>>

(* The record's status, in a second statement outside any transaction.      *)
ApplyReview(c) ==
  /\ At(c, "apply")
  /\ LET r == call[c].at IN
     record' = IF Current(c) /\ record[r].status = "manual_verify_pending"
               THEN [record EXCEPT ![r] = Moved(record[r], Target(call[c].choice))]
               ELSE record
  /\ Return(c)
  /\ UNCHANGED <<manual, ruling, reported, late, poller, budget>>

(* Adjudicate.  A record that is not in conflict is refused, or its ruling  *)
(* is returned.                                                             *)
StartRuling(c, r) ==
  /\ Spend("call")
  /\ record[r].status = "conflict"
  /\ \E winner \in Winners : GetRecord(c, r, "hours", winner, 0)

(* The customer's hours are read anew, by device and date.                  *)
GetWorkHour(c) ==
  /\ At(c, "hours")
  /\ call' = [call EXCEPT ![c] =
       [call[c] EXCEPT !.pc = "rule", !.hours = reported[call[c].at]]]
  /\ UNCHANGED <<rows, late, poller, budget>>

(* Mutant: the record's version is not checked.                             *)
RulableAnyVersion(c) ==
  ruling[call[c].at].winner = "none" /\ record[call[c].at].status = "conflict"

(* One ruling per record, and the record still as it was read.              *)
Rulable(c) ==
  /\ ruling[call[c].at].winner = "none"
  /\ Current(c) /\ record[call[c].at].status = "conflict"

(* Mutant: the ruling is inserted outside the transaction.                  *)
CreateAdjudicationAlone(c) ==
  /\ At(c, "rule")
  /\ LET r == call[c].at IN
     /\ ruling' = IF ruling[r].winner = "none"
                  THEN [ruling EXCEPT ![r] =
                          [winner |-> call[c].choice,
                           delta |-> Abs(call[c].saw.hours - call[c].hours)]]
                  ELSE ruling
     /\ record' = IF Rulable(c)
                  THEN [record EXCEPT ![r] = Moved(record[r], "adjudicated")] ELSE record
  /\ Return(c)
  /\ UNCHANGED <<manual, reported, late, poller, budget>>

(* The ruling and the record's status, in one transaction.                  *)
CreateAdjudication(c) ==
  /\ At(c, "rule")
  /\ LET r == call[c].at IN
     IF Rulable(c)
     THEN /\ ruling' = [ruling EXCEPT ![r] =
               [winner |-> call[c].choice, delta |-> Abs(call[c].saw.hours - call[c].hours)]]
          /\ record' = [record EXCEPT ![r] = Moved(record[r], "adjudicated")]
     ELSE UNCHANGED <<ruling, record>>
  /\ Return(c)
  /\ UNCHANGED <<manual, reported, late, poller, budget>>

(* CorrectRecord.                                                           *)
StartCorrection(c, r) ==
  /\ Spend("correct")
  /\ record[r].status # "revoked"
  /\ \E hours \in Hours : GetRecord(c, r, "correct", "none", hours)

(* In one transaction: the hours at the version read, then an accepted      *)
(* record becomes verified.                                                 *)
CorrectHours(c) ==
  /\ At(c, "correct")
  /\ LET r == call[c].at
         corrected == [Moved(record[r], record[r].status) EXCEPT !.hours = call[c].hours]
     IN record' = IF ~Current(c) THEN record
                  ELSE [record EXCEPT ![r] =
                          IF call[c].saw.status = "accepted"
                          THEN Moved(corrected, "verified") ELSE corrected]
  /\ Return(c)
  /\ UNCHANGED <<manual, ruling, reported, late, poller, budget>>

(* RevokeRecord, if the table lets the record go there.                     *)
StartRevocation(c, r) ==
  /\ Spend("call")
  /\ "revoked" \in recordTransitions[record[r].status]
  /\ GetRecord(c, r, "revoke", "none", 0)

(* Mutant: the record is revoked whatever became of it since it was read.   *)
RevokeRecordAnyVersion(c) ==
  /\ At(c, "revoke")
  /\ record' = [record EXCEPT ![call[c].at] = Moved(record[call[c].at], "revoked")]
  /\ Return(c)
  /\ UNCHANGED <<manual, ruling, reported, late, poller, budget>>

RevokeRecord(c) ==
  /\ At(c, "revoke")
  /\ LET r == call[c].at IN
     record' = IF Current(c) /\ record[r].status = call[c].saw.status
               THEN [record EXCEPT ![r] = Moved(record[r], "revoked")] ELSE record
  /\ Return(c)
  /\ UNCHANGED <<manual, ruling, reported, late, poller, budget>>

(* A statement fails or the client goes away; what was written stays.       *)
CallFails(c) ==
  /\ ~At(c, "idle")
  /\ Spend("fault")
  /\ Return(c)
  /\ UNCHANGED <<rows, late, poller>>

Start(c) ==
  \E r \in Records :
    \/ StartReview(c, r) \/ StartRuling(c, r)
    \/ StartCorrection(c, r) \/ StartRevocation(c, r)

Continue(c) ==
  \/ GetManual(c) \/ ReviewManual(c) \/ ApplyReview(c)
  \/ GetWorkHour(c) \/ CreateAdjudication(c)
  \/ CorrectHours(c) \/ RevokeRecord(c)

--------------------------------------------------------------------------------
(* The environment.                                                         *)

(* UpsertWorkHour.                                                          *)
UpsertWorkHour(r) ==
  /\ Spend("report")
  /\ \E hours \in Hours : reported' = [reported EXCEPT ![r] = hours]
  /\ UNCHANGED <<record, manual, ruling, late, poller, call>>

(* Time passes the record's deadline, occurred_at + backfill_window_hours.  *)
WindowCloses(r) ==
  /\ ~late[r]
  /\ late' = [late EXCEPT ![r] = TRUE]
  /\ UNCHANGED <<rows, poller, call, budget>>

(* The process dies with everything in progress.                            *)
Crash ==
  /\ Spend("crash")
  /\ call' = [c \in Calls |-> Idle]
  /\ Rest
  /\ UNCHANGED <<rows, late>>

Next ==
  \/ ListRecords \/ ResolveRecords \/ ResolveFails
  \/ \E c \in Calls : Start(c) \/ Continue(c) \/ CallFails(c)
  \/ \E r \in Records : UpsertWorkHour(r) \/ WindowCloses(r)
  \/ Crash

Spec == Init /\ [][Next]_vars

--------------------------------------------------------------------------------
CallPC == {"idle", "manual", "review", "apply", "hours", "rule", "correct", "revoke"}

CallState ==
  {k \in [pc : CallPC, at : Records \cup {0}, saw : RecordRow, manual : Nat,
          choice : Decisions \cup Winners \cup {"none"}, hours : Int] :
     /\ k.pc # "idle" => k.at \in Records
     /\ k.pc \in {"manual", "review", "apply"} => k.choice \in Decisions
     /\ k.pc \in {"hours", "rule"} => k.choice \in Winners}

(* Types of every row and of every captured value.                          *)
TypeOK ==
  /\ record \in [Records -> RecordRow]
  /\ manual \in [Records -> ManualRow]
  /\ ruling \in [Records -> RulingRow]
  /\ reported \in [Records -> Int]
  /\ late \in [Records -> BOOLEAN]
  /\ poller \in [pc : {"idle", "resolve"}, listed : [Records -> RecordRow]]
  /\ call \in [Calls -> CallState]
  /\ budget \in [Events -> Nat]

(* How a record stands, as its contract sees it.                            *)
Standing(r) ==
  CASE record[r].status = "pending" -> "open"
    [] record[r].status = "conflict" -> "disputed"
    [] record[r].status = "manual_verify_pending" -> "held"
    [] record[r].status = "revoked" -> "withdrawn"
    [] OTHER -> "billable"

Contract(r) ==
  INSTANCE RecordContract WITH standing <- Standing(r),
                               decision <- manual[r].decision,
                               ruled <- ruling[r].winner # "none"

(* Every record keeps its contract, although poller, reviewers,             *)
(* adjudicators and staff overlap and a review is two separate statements.  *)
KeepsContract ==
  /\ \A r \in Records : Contract(r)!Init
  /\ [][\A r \in Records : Contract(r)!Next \/ UNCHANGED Contract(r)!vars]_vars

(* A ruling and the adjudicated status come and go together: one without    *)
(* the other would bill a disputed record or leave it disputed for ever,    *)
(* because a second ruling is a duplicate (adjudication_service.go:62-74).  *)
RulingMatchesStatus ==
  \A r \in Records : record[r].status = "adjudicated" <=> ruling[r].winner # "none"

(* What a reviewer decided is what becomes of the record: it may still      *)
(* wait, or have been revoked, but a rejected record is never verified, nor *)
(* is one whose review is open, although decision and status are written    *)
(* apart (sync_service.go:250-260).                                         *)
DecisionHolds ==
  \A r \in Records :
    CASE manual[r].decision = "accept" ->
           record[r].status \in {"manual_verify_pending", "verified", "revoked"}
      [] manual[r].decision = "reject" ->
           record[r].status \in {"manual_verify_pending", "revoked"}
      [] manual[r].status = "pending" ->
           record[r].status \in {"manual_verify_pending", "revoked"}
      [] OTHER -> TRUE

(* The hours a ruling is about are those the record has when the ruling     *)
(* commits: a correction submitted meanwhile makes the ruling fail, not     *)
(* stale (adjudication_service.go:52, :68).                                 *)
RulingOnCurrentHours ==
  [][\A r \in Records : ruling'[r] # ruling[r] =>
       \E c \in Calls :
         /\ At(c, "rule") /\ call[c].at = r
         /\ ruling'[r].delta = Abs(record[r].hours - call[c].hours)]_vars

(* A record is accepted, without anyone looking, only if the customer has   *)
(* reported the same hours or none and its window is open at that moment,   *)
(* whatever was corrected after the batch was listed (sync_service.go:171). *)
AcceptedOnCurrentFacts ==
  [][\A r \in Records :
       record[r].status = "pending" /\ record'[r].status = "accepted" =>
         ~late[r] /\ reported[r] \in {0, record'[r].hours}]_vars

Undisturbed == \A e \in {"correct", "fault", "crash"} : budget[e] = Budget[e]

Applying(r) == \E c \in Calls : At(c, "apply") /\ call[c].at = r

(* As long as no statement fails, no process dies and nobody corrects a     *)
(* record, a reviewed record leaves the manual queue: the call that stored  *)
(* the review is the one that moves the record.                             *)
UndisturbedReview ==
  Undisturbed =>
    \A r \in Records :
      manual[r].status = "reviewed" /\ record[r].status = "manual_verify_pending"
        => Applying(r)

(* "Accept marks the record verified; reject revokes it.  The review is     *)
(* idempotent on repeat calls." (sync_service.go:227-228)                   *)
ReviewIsApplied ==
  \A r \in Records :
    manual[r].status = "reviewed" /\ record[r].status = "manual_verify_pending"
      => Applying(r)
================================================================================
