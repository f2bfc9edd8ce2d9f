--------------------------- MODULE RecordLifecycleProofs ---------------------------
(****************************************************************************)
(* Theorems about RecordLifecycle for any number of records and calls, any  *)
(* hours and any budget of requests, corrections, faults and crashes.       *)
(****************************************************************************)
EXTENDS RecordLifecycle, TLAPS

Revocable == {"pending", "accepted", "manual_verify_pending", "verified"}

(* What one step can do to the rows of one record.                          *)
Kept(r) == record'[r] = record[r] /\ manual'[r] = manual[r] /\ ruling'[r] = ruling[r]

Resolved(r) ==
  /\ record[r].status = "pending"
  /\ ruling'[r] = ruling[r]
  /\ \/ /\ record'[r] = Moved(record[r], "accepted") \/ record'[r] = Moved(record[r], "conflict")
        /\ manual'[r] = manual[r]
     \/ /\ record'[r] = Moved(record[r], "manual_verify_pending")
        /\ manual'[r] = Routed(r)

Reviewed(r) ==
  /\ manual[r].version = 1
  /\ \E decision \in Decisions :
       manual'[r] = [status |-> "reviewed", version |-> 2, decision |-> decision]
  /\ record'[r] = record[r] /\ ruling'[r] = ruling[r]

Applied(r) ==
  /\ record[r].status = "manual_verify_pending"
  /\ manual[r].status = "reviewed"
  /\ record'[r] = Moved(record[r], Target(manual[r].decision))
  /\ manual'[r] = manual[r] /\ ruling'[r] = ruling[r]

Ruled(r) ==
  /\ record[r].status = "conflict"
  /\ record'[r] = Moved(record[r], "adjudicated")
  /\ ruling[r].winner = "none" /\ ruling'[r].winner # "none"
  /\ manual'[r] = manual[r]

Corrected(r) ==
  /\ record'[r].version > record[r].version
  /\ \/ record'[r].status = record[r].status
     \/ record[r].status = "accepted" /\ record'[r].status = "verified"
  /\ manual'[r] = manual[r] /\ ruling'[r] = ruling[r]

Revoked(r) ==
  /\ record[r].status \in Revocable
  /\ record'[r] = Moved(record[r], "revoked")
  /\ manual'[r] = manual[r] /\ ruling'[r] = ruling[r]

Effect(r) ==
  \/ Kept(r) \/ Resolved(r) \/ Reviewed(r) \/ Applied(r) \/ Ruled(r)
  \/ Corrected(r) \/ Revoked(r)

--------------------------------------------------------------------------------
(* The inductive invariant.                                                 *)

(* A version stands for one content of a row: whoever still holds the       *)
(* current version holds the current row.                                   *)
Fresh(row, now) == row.version <= now.version /\ (row.version = now.version => row = now)

ListInv == poller.pc = "resolve" => \A r \in Records : Fresh(poller.listed[r], record[r])

(* A verification row is written twice, when it appears and when it is      *)
(* reviewed.                                                                *)
ManualInv ==
  \A r \in Records :
    \/ manual[r] = NoManual
    \/ manual[r] = [status |-> "pending", version |-> 1, decision |-> "none"]
    \/ \E decision \in Decisions :
         manual[r] = [status |-> "reviewed", version |-> 2, decision |-> decision]

(* The status a record can have while its verification row is missing,      *)
(* pending, accepted or rejected.                                           *)
LinkInv ==
  \A r \in Records :
    /\ manual[r].status = "none" => record[r].status # "manual_verify_pending"
    /\ manual[r].status = "pending" => record[r].status \in {"manual_verify_pending", "revoked"}
    /\ manual[r].decision = "accept" =>
         record[r].status \in {"manual_verify_pending", "verified", "revoked"}
    /\ manual[r].decision = "reject" => record[r].status \in {"manual_verify_pending", "revoked"}

(* What a call in progress knows of the rows it has read.                   *)
Knows(c) ==
  /\ call[c].pc # "idle" => Fresh(call[c].saw, record[call[c].at])
  /\ call[c].pc \in {"review", "apply"} => call[c].saw.status = "manual_verify_pending"
  /\ call[c].pc = "review" => call[c].manual = 1
  /\ call[c].pc = "apply" => /\ manual[call[c].at].status = "reviewed"
                             /\ manual[call[c].at].decision = call[c].choice
  /\ call[c].pc = "revoke" => call[c].saw.status \in Revocable

CallInv == \A c \in Calls : Knows(c)

Inv == TypeOK /\ ListInv /\ ManualInv /\ LinkInv /\ RulingMatchesStatus /\ CallInv

--------------------------------------------------------------------------------
(* Types.                                                                   *)

LEMMA Rows ==
  /\ NoRecord \in RecordRow /\ NoManual \in ManualRow /\ NoRuling \in RulingRow
  /\ Idle \in CallState
  /\ \A row \in RecordRow, to \in RecordStatus :
       /\ Moved(row, to) \in RecordRow
       /\ Moved(row, to).status = to
       /\ Moved(row, to).version = row.version + 1
       /\ Moved(row, to).hours = row.hours
<1>1. NoRecord \in RecordRow /\ NoManual \in ManualRow /\ NoRuling \in RulingRow
  BY DEF NoRecord, NoManual, NoRuling, RecordRow, ManualRow, RulingRow, RecordStatus
<1>2. Idle \in CallState
  BY <1>1 DEF Idle, CallState, CallPC
<1>3. ASSUME NEW row \in RecordRow, NEW to \in RecordStatus
      PROVE  /\ Moved(row, to) \in RecordRow
             /\ Moved(row, to).status = to
             /\ Moved(row, to).version = row.version + 1
             /\ Moved(row, to).hours = row.hours
  <2> DEFINE v == row.version + 1
  <2>1. v \in Nat
    BY DEF RecordRow
  <2>2. Moved(row, to) = [row EXCEPT !.status = to, !.version = v]
    BY DEF Moved
  <2> HIDE DEF v
  <2>3. /\ Moved(row, to) \in RecordRow /\ Moved(row, to).status = to
        /\ Moved(row, to).version = v /\ Moved(row, to).hours = row.hours
    BY <2>1, <2>2 DEF RecordRow
  <2> QED
    BY <2>3 DEF v
<1> QED
  BY <1>1, <1>2, <1>3

LEMMA InitType == Init => TypeOK
<1> SUFFICES ASSUME Init PROVE TypeOK
  OBVIOUS
<1>1. record \in [Records -> RecordRow]
  <2>1. [status : {"pending"}, version : {1}, hours : Hours] \subseteq RecordRow
    <3>1. Hours \subseteq Int /\ "pending" \in RecordStatus /\ 1 \in Nat
      BY HoursAssumption DEF RecordStatus
    <3>2. ASSUME NEW row \in [status : {"pending"}, version : {1}, hours : Hours]
          PROVE  row \in RecordRow
      BY <3>1 DEF RecordRow
    <3> QED
      BY <3>2
  <2> QED
    BY <2>1 DEF Init
<1>2. /\ manual \in [Records -> ManualRow] /\ ruling \in [Records -> RulingRow]
      /\ call \in [Calls -> CallState]
  BY Rows DEF Init
<1>3. poller \in [pc : {"idle", "resolve"}, listed : [Records -> RecordRow]]
  BY Rows DEF Init
<1> QED
  BY <1>1, <1>2, <1>3, BudgetAssumption DEF Init, TypeOK

(* What a step of a call does to the entries of call.                       *)
Only(c) ==
  /\ call' \in [Calls -> CallState]
  /\ \A d \in Calls : d # c => call'[d] = call[d]

LEMMA CallEntries ==
  ASSUME call \in [Calls -> CallState], NEW c \in Calls, NEW row \in CallState,
         call' = [call EXCEPT ![c] = row]
  PROVE  Only(c) /\ call'[c] = row
  BY DEF Only

LEMMA Returns ==
  ASSUME TypeOK, NEW c \in Calls, Return(c)
  PROVE  Only(c) /\ call'[c] = Idle /\ call'[c].pc = "idle"
<1>1. call \in [Calls -> CallState] /\ Idle \in CallState
  BY Rows DEF TypeOK
<1>2. Only(c) /\ call'[c] = Idle
  BY <1>1, CallEntries DEF Return
<1> QED
  BY <1>2 DEF Idle

(* What a call in progress has read.                                        *)
LEMMA CallRow ==
  ASSUME TypeOK, NEW c \in Calls
  PROVE  /\ call[c] \in CallState
         /\ call[c].saw \in RecordRow /\ call[c].manual \in Nat /\ call[c].hours \in Int
         /\ call[c].pc # "idle" => call[c].at \in Records
         /\ call[c].pc \in {"manual", "review", "apply"} => call[c].choice \in Decisions
         /\ call[c].pc \in {"hours", "rule"} => call[c].choice \in Winners
<1>1. call[c] \in CallState
  BY DEF TypeOK
<1> QED
  BY <1>1 DEF CallState

Starts == {"manual", "hours", "correct", "revoke"}

LEMMA Begins ==
  ASSUME TypeOK, NEW c \in Calls, NEW r \in Records, NEW pc \in Starts,
         NEW choice \in Decisions \cup Winners \cup {"none"}, NEW hours \in Int,
         pc = "manual" => choice \in Decisions,
         pc = "hours" => choice \in Winners,
         GetRecord(c, r, pc, choice, hours)
  PROVE  /\ Only(c)
         /\ call[c].pc = "idle"
         /\ call'[c].pc = pc /\ call'[c].at = r /\ call'[c].saw = record[r]
<1> DEFINE row == [pc |-> pc, at |-> r, saw |-> record[r], manual |-> 0,
                   choice |-> choice, hours |-> hours]
<1>1. record[r] \in RecordRow
  BY DEF TypeOK
<1>2. row \in CallState
  BY <1>1 DEF CallState, CallPC, Starts
<1>3. row.pc = pc /\ row.at = r /\ row.saw = record[r]
  OBVIOUS
<1>4. call' = [call EXCEPT ![c] = row] /\ call \in [Calls -> CallState]
  BY DEF GetRecord, TypeOK
<1> HIDE DEF row
<1>5. Only(c) /\ call'[c] = row
  BY <1>2, <1>4, CallEntries
<1> QED
  BY <1>3, <1>5 DEF GetRecord, At

(* A step of a call that goes on with what it has read.                     *)
GoesOn(c, pc) ==
  /\ Only(c)
  /\ call'[c].pc = pc /\ call'[c].at = call[c].at /\ call'[c].saw = call[c].saw
  /\ call'[c].choice = call[c].choice

LEMMA ContinuesManual ==
  ASSUME TypeOK, NEW c \in Calls, At(c, "manual"), NEW version \in Nat,
         call' = [call EXCEPT ![c] = [call[c] EXCEPT !.pc = "review", !.manual = version]]
  PROVE  GoesOn(c, "review") /\ call'[c].manual = version
<1> DEFINE row == [call[c] EXCEPT !.pc = "review", !.manual = version]
<1>1. call[c] \in CallState /\ call \in [Calls -> CallState]
  BY DEF TypeOK
<1>2. /\ row \in CallState /\ row.pc = "review" /\ row.at = call[c].at
      /\ row.saw = call[c].saw /\ row.choice = call[c].choice /\ row.manual = version
  BY <1>1 DEF CallState, CallPC, At
<1>3. call' = [call EXCEPT ![c] = row]
  OBVIOUS
<1> HIDE DEF row
<1>4. Only(c) /\ call'[c] = row
  BY <1>1, <1>2, <1>3, CallEntries
<1> QED
  BY <1>2, <1>4 DEF GoesOn

LEMMA ContinuesReview ==
  ASSUME TypeOK, NEW c \in Calls, At(c, "review"),
         call' = [call EXCEPT ![c] = [call[c] EXCEPT !.pc = "apply"]]
  PROVE  GoesOn(c, "apply")
<1> DEFINE row == [call[c] EXCEPT !.pc = "apply"]
<1>1. call[c] \in CallState /\ call \in [Calls -> CallState]
  BY DEF TypeOK
<1>2. /\ row \in CallState /\ row.pc = "apply" /\ row.at = call[c].at
      /\ row.saw = call[c].saw /\ row.choice = call[c].choice
  BY <1>1 DEF CallState, CallPC, At
<1>3. call' = [call EXCEPT ![c] = row]
  OBVIOUS
<1> HIDE DEF row
<1>4. Only(c) /\ call'[c] = row
  BY <1>1, <1>2, <1>3, CallEntries
<1> QED
  BY <1>2, <1>4 DEF GoesOn

LEMMA ContinuesHours ==
  ASSUME TypeOK, NEW c \in Calls, At(c, "hours"), NEW hours \in Int,
         call' = [call EXCEPT ![c] = [call[c] EXCEPT !.pc = "rule", !.hours = hours]]
  PROVE  GoesOn(c, "rule")
<1> DEFINE row == [call[c] EXCEPT !.pc = "rule", !.hours = hours]
<1>1. call[c] \in CallState /\ call \in [Calls -> CallState]
  BY DEF TypeOK
<1>2. /\ row \in CallState /\ row.pc = "rule" /\ row.at = call[c].at
      /\ row.saw = call[c].saw /\ row.choice = call[c].choice
  BY <1>1 DEF CallState, CallPC, At
<1>3. call' = [call EXCEPT ![c] = row]
  OBVIOUS
<1> HIDE DEF row
<1>4. Only(c) /\ call'[c] = row
  BY <1>1, <1>2, <1>3, CallEntries
<1> QED
  BY <1>2, <1>4 DEF GoesOn

--------------------------------------------------------------------------------
(* What each action does to the rows of every record and to the calls.      *)

CallsKept == call' = call

LEMMA StatusTypes ==
  /\ {"pending", "accepted", "conflict", "manual_verify_pending", "adjudicated",
      "verified", "revoked"} \subseteq RecordStatus
  /\ \A r \in Records : TypeOK =>
       record[r] \in RecordRow /\ manual[r] \in ManualRow /\ ruling[r] \in RulingRow
<1>1. {"pending", "accepted", "conflict", "manual_verify_pending", "adjudicated",
       "verified", "revoked"} \subseteq RecordStatus
  BY DEF RecordStatus
<1>2. \A r \in Records : TypeOK =>
        record[r] \in RecordRow /\ manual[r] \in ManualRow /\ ruling[r] \in RulingRow
  BY DEF TypeOK
<1> QED
  BY <1>1, <1>2

(* Typing and per-record effect of a step.                                  *)
Typed ==
  /\ record' \in [Records -> RecordRow]
  /\ manual' \in [Records -> ManualRow]
  /\ ruling' \in [Records -> RulingRow]

Effects == Typed /\ \A r \in Records : Effect(r)

LEMMA KeptEffects ==
  ASSUME TypeOK, UNCHANGED <<record, manual, ruling>>
  PROVE  Effects /\ \A r \in Records : Kept(r)
<1>1. Typed
  BY DEF Typed, TypeOK
<1>2. \A r \in Records : Kept(r)
  BY DEF Kept
<1> QED
  BY <1>1, <1>2 DEF Effects, Effect

LEMMA ResolveEffects ==
  ASSUME Inv, ResolveRecords
  PROVE  Effects
<1>1. TypeOK /\ ListInv
  BY DEF Inv
<1>2. poller.pc = "resolve" /\ Unresolved \subseteq Records
  BY DEF ResolveRecords, Unresolved
<1>3. ASSUME NEW r \in Unresolved
      PROVE  /\ record[r].status = "pending"
             /\ Verdict(r) \in {"accepted", "conflict", "manual_verify_pending"}
             /\ Verdict(r) = "manual_verify_pending" <=> late[r]
  <2>1. Unmoved(r) /\ r \in Records /\ poller.listed[r].status = "pending"
    BY DEF ResolveRecords, Unresolved
  <2>2. record[r] = poller.listed[r]
    BY <1>1, <1>2, <2>1 DEF ListInv, Fresh, Unmoved
  <2>3. late[r] \in BOOLEAN
    BY <1>1, <2>1 DEF TypeOK
  <2> QED
    BY <2>1, <2>2, <2>3 DEF Verdict
<1>4. /\ record' = [r \in Records |->
            IF r \in Unresolved THEN Moved(record[r], Verdict(r)) ELSE record[r]]
      /\ manual' = [r \in Records |->
            IF r \in Unresolved /\ late[r] THEN Routed(r) ELSE manual[r]]
      /\ ruling' = ruling
  BY DEF ResolveRecords
<1>5. ASSUME NEW r \in Records
      PROVE  record'[r] \in RecordRow /\ manual'[r] \in ManualRow /\ Effect(r)
  <2>1. record[r] \in RecordRow /\ manual[r] \in ManualRow
    BY <1>1, StatusTypes
  <2>2. Routed(r) \in ManualRow
    BY <2>1 DEF Routed, ManualRow
  <2>3. CASE r \in Unresolved
    <3>1. record'[r] = Moved(record[r], Verdict(r)) /\ ruling'[r] = ruling[r]
      BY <1>4, <2>3
    <3>2. record'[r] \in RecordRow
      <4>1. Verdict(r) \in RecordStatus
        BY <1>3, <2>3, StatusTypes
      <4> QED
        BY <2>1, <3>1, <4>1, Rows
    <3>3. manual'[r] = IF late[r] THEN Routed(r) ELSE manual[r]
      BY <1>4, <2>3
    <3>4. Resolved(r)
      BY <1>3, <2>3, <3>1, <3>3 DEF Resolved
    <3> QED
      BY <2>1, <2>2, <3>2, <3>3, <3>4 DEF Effect
  <2>4. CASE r \notin Unresolved
    <3>1. record'[r] = record[r] /\ manual'[r] = manual[r] /\ ruling'[r] = ruling[r]
      BY <1>4, <2>4
    <3> QED
      BY <2>1, <3>1 DEF Effect, Kept
  <2> QED
    BY <2>3, <2>4
<1>6. Typed
  <2>1. ruling' \in [Records -> RulingRow]
    BY <1>1, <1>4 DEF TypeOK
  <2>2. record' \in [Records -> RecordRow]
    BY <1>4, <1>5
  <2>3. manual' \in [Records -> ManualRow]
    BY <1>4, <1>5
  <2> QED
    BY <2>1, <2>2, <2>3 DEF Typed
<1> QED
  BY <1>5, <1>6 DEF Effects

(* A statement that writes one row of record, manual or ruling.             *)
LEMMA RecordEntries ==
  ASSUME TypeOK, NEW r \in Records, NEW row \in RecordRow,
         record' = [record EXCEPT ![r] = row], UNCHANGED manual
  PROVE  /\ record' \in [Records -> RecordRow] /\ record'[r] = row
         /\ manual' \in [Records -> ManualRow]
         /\ \A q \in Records : q # r => record'[q] = record[q]
         /\ \A q \in Records : manual'[q] = manual[q]
  BY DEF TypeOK

LEMMA ReviewEffects ==
  ASSUME Inv, NEW c \in Calls, ReviewManual(c)
  PROVE  /\ Effects
         /\ \/ Only(c) /\ call'[c] = Idle
            \/ /\ GoesOn(c, "apply")
               /\ manual'[call[c].at].status = "reviewed"
               /\ manual'[call[c].at].decision = call[c].choice
<1>1. TypeOK /\ Knows(c) /\ At(c, "review")
  BY DEF Inv, CallInv, ReviewManual
<1> DEFINE r == call[c].at
<1>2. r \in Records /\ call[c].choice \in Decisions /\ call[c].manual = 1
  BY <1>1, CallRow DEF At, Knows
<1>3. CASE manual[r].version = call[c].manual
  <2> DEFINE row == [status |-> "reviewed", version |-> 2, decision |-> call[c].choice]
  <2>1. /\ manual' = [manual EXCEPT ![r] = row]
        /\ call' = [call EXCEPT ![c] = [call[c] EXCEPT !.pc = "apply"]]
        /\ UNCHANGED <<record, ruling>>
    BY <1>2, <1>3 DEF ReviewManual
  <2>2. row \in ManualRow
    BY <1>2 DEF ManualRow
  <2>3. Reviewed(r)
    BY <1>1, <1>2, <1>3, <2>1 DEF Reviewed, TypeOK
  <2>4. \A q \in Records : q # r => Kept(q)
    BY <1>1, <1>2, <2>1 DEF Kept, TypeOK
  <2>5. Typed
    BY <1>1, <1>2, <2>1, <2>2 DEF Typed, TypeOK
  <2>6. Effects
    BY <2>3, <2>4, <2>5 DEF Effects, Effect
  <2>7. GoesOn(c, "apply")
    BY <1>1, <2>1, ContinuesReview
  <2>8. manual'[r] = row
    BY <1>1, <1>2, <2>1 DEF TypeOK
  <2> QED
    BY <2>6, <2>7, <2>8
<1>4. CASE manual[r].version # call[c].manual
  <2>1. UNCHANGED <<record, manual, ruling>> /\ Return(c)
    BY <1>4 DEF ReviewManual
  <2> QED
    BY <1>1, <2>1, KeptEffects, Returns
<1> QED
  BY <1>3, <1>4

(* Whatever else happens, a call that writes a record's status returns.     *)
LEMMA WriteEffects ==
  ASSUME Inv, NEW c \in Calls,
         ApplyReview(c) \/ CreateAdjudication(c) \/ CorrectHours(c) \/ RevokeRecord(c)
  PROVE  Effects /\ Only(c) /\ call'[c] = Idle
<1>1. TypeOK /\ Knows(c) /\ call[c].pc # "idle"
  BY DEF Inv, CallInv, ApplyReview, CreateAdjudication, CorrectHours, RevokeRecord, At
<1> DEFINE r == call[c].at
<1>2. /\ r \in Records /\ record[r] \in RecordRow /\ record \in [Records -> RecordRow]
      /\ call[c].hours \in Int /\ manual' = manual
  BY <1>1, CallRow
     DEF TypeOK, ApplyReview, CreateAdjudication, CorrectHours, RevokeRecord
<1>3. Only(c) /\ call'[c] = Idle
  BY <1>1, Returns DEF ApplyReview, CreateAdjudication, CorrectHours, RevokeRecord
<1>4. Fresh(call[c].saw, record[r])
  BY <1>1 DEF Knows
<1>5. CASE UNCHANGED <<record, ruling>>
  BY <1>1, <1>2, <1>3, <1>5, KeptEffects
<1>6. ASSUME NEW row \in RecordRow, record' = [record EXCEPT ![r] = row],
             ruling' = ruling, record'[r] = row => Effect(r)
      PROVE  Effects
  <2>1. /\ record' \in [Records -> RecordRow] /\ record'[r] = row
        /\ manual' \in [Records -> ManualRow]
        /\ \A q \in Records : q # r => record'[q] = record[q]
        /\ \A q \in Records : manual'[q] = manual[q]
    BY <1>1, <1>2, <1>6, RecordEntries
  <2>2. ruling' \in [Records -> RulingRow] /\ \A q \in Records : ruling'[q] = ruling[q]
    BY <1>1, <1>6 DEF TypeOK
  <2>3. \A q \in Records : Effect(q)
    BY <1>6, <2>1, <2>2 DEF Effect, Kept
  <2> QED
    BY <2>1, <2>2, <2>3 DEF Effects, Typed
<1>7. CASE ApplyReview(c)
  <2>1. CASE Current(c) /\ record[r].status = "manual_verify_pending"
    <3> DEFINE row == Moved(record[r], Target(call[c].choice))
    <3>1. record' = [record EXCEPT ![r] = row] /\ ruling' = ruling
      BY <1>7, <2>1 DEF ApplyReview
    <3>2. Target(call[c].choice) \in RecordStatus
      BY StatusTypes DEF Target
    <3>3. row \in RecordRow
      BY <1>2, <3>2, Rows
    <3>4. manual[r].status = "reviewed" /\ manual[r].decision = call[c].choice
      BY <1>1, <1>7 DEF Knows, ApplyReview, At
    <3>5. record'[r] = row => Effect(r)
      BY <1>2, <2>1, <3>1, <3>4 DEF Effect, Applied
    <3> QED
      BY <1>3, <1>6, <3>1, <3>3, <3>5
  <2>2. CASE ~(Current(c) /\ record[r].status = "manual_verify_pending")
    BY <1>5, <1>7, <2>2 DEF ApplyReview
  <2> QED
    BY <2>1, <2>2
<1>8. CASE CreateAdjudication(c)
  <2>1. CASE Rulable(c)
    <3> DEFINE row == Moved(record[r], "adjudicated")
               made == [winner |-> call[c].choice,
                        delta |-> Abs(call[c].saw.hours - call[c].hours)]
    <3>1. record' = [record EXCEPT ![r] = row] /\ ruling' = [ruling EXCEPT ![r] = made]
      BY <1>8, <2>1 DEF CreateAdjudication
    <3>2. row \in RecordRow
      BY <1>2, Rows, StatusTypes
    <3>3. call[c].choice \in Winners /\ call[c].saw.hours \in Int
      BY <1>1, <1>8, CallRow DEF CreateAdjudication, At, RecordRow
    <3>4. Abs(call[c].saw.hours - call[c].hours) \in Int
      BY <1>2, <3>3 DEF Abs
    <3>5. made \in RulingRow /\ made.winner # "none"
      BY <3>3, <3>4 DEF RulingRow, Winners
    <3> HIDE DEF made, row
    <3>6. /\ ruling' \in [Records -> RulingRow] /\ ruling'[r] = made
          /\ \A q \in Records : q # r => ruling'[q] = ruling[q]
      BY <1>1, <1>2, <3>1, <3>5 DEF TypeOK
    <3>7. /\ record' \in [Records -> RecordRow] /\ record'[r] = row
          /\ manual' \in [Records -> ManualRow]
          /\ \A q \in Records : q # r => record'[q] = record[q]
          /\ \A q \in Records : manual'[q] = manual[q]
      BY <1>1, <1>2, <3>1, <3>2, RecordEntries
    <3>8. Ruled(r)
      BY <1>2, <2>1, <3>5, <3>6, <3>7 DEF Ruled, Rulable, row
    <3>9. \A q \in Records : Effect(q)
      BY <3>6, <3>7, <3>8 DEF Effect, Kept
    <3> QED
      BY <1>3, <3>6, <3>7, <3>9 DEF Effects, Typed
  <2>2. CASE ~Rulable(c)
    BY <1>5, <1>8, <2>2 DEF CreateAdjudication
  <2> QED
    BY <2>1, <2>2
<1>9. CASE CorrectHours(c)
  <2>1. CASE Current(c)
    <3> DEFINE moved == Moved(record[r], record[r].status)
               corrected == [moved EXCEPT !.hours = call[c].hours]
               row == IF call[c].saw.status = "accepted"
                      THEN Moved(corrected, "verified") ELSE corrected
    <3>1. record' = [record EXCEPT ![r] = row] /\ ruling' = ruling
      BY <1>9, <2>1 DEF CorrectHours
    <3>2. record[r] = call[c].saw
      BY <1>4, <2>1 DEF Fresh, Current
    <3>3. /\ moved \in RecordRow /\ moved.status = record[r].status
          /\ moved.version = record[r].version + 1
      BY <1>2, Rows DEF RecordRow
    <3> HIDE DEF moved
    <3>4. /\ corrected \in RecordRow /\ corrected.status = record[r].status
          /\ corrected.version = record[r].version + 1
      BY <1>2, <3>3 DEF RecordRow
    <3> HIDE DEF corrected
    <3>5. /\ Moved(corrected, "verified") \in RecordRow
          /\ Moved(corrected, "verified").status = "verified"
          /\ Moved(corrected, "verified").version = corrected.version + 1
      BY <3>4, Rows, StatusTypes
    <3>6. record[r].version \in Nat
      BY <1>2 DEF RecordRow
    <3>7. /\ row \in RecordRow /\ row.version > record[r].version
          /\ \/ row.status = record[r].status
             \/ record[r].status = "accepted" /\ row.status = "verified"
      BY <3>2, <3>4, <3>5, <3>6
    <3> HIDE DEF row
    <3>8. record'[r] = row => Effect(r)
      BY <1>2, <3>1, <3>7 DEF Effect, Corrected
    <3> QED
      BY <1>3, <1>6, <3>1, <3>7, <3>8
  <2>2. CASE ~Current(c)
    BY <1>5, <1>9, <2>2 DEF CorrectHours
  <2> QED
    BY <2>1, <2>2
<1>10. CASE RevokeRecord(c)
  <2>1. CASE Current(c) /\ record[r].status = call[c].saw.status
    <3> DEFINE row == Moved(record[r], "revoked")
    <3>1. record' = [record EXCEPT ![r] = row] /\ ruling' = ruling
      BY <1>10, <2>1 DEF RevokeRecord
    <3>2. row \in RecordRow
      BY <1>2, Rows, StatusTypes
    <3>3. record[r].status \in Revocable
      BY <1>1, <1>10, <2>1 DEF Knows, RevokeRecord, At
    <3>4. record'[r] = row => Effect(r)
      BY <1>2, <3>1, <3>3 DEF Effect, Revoked
    <3> QED
      BY <1>3, <1>6, <3>1, <3>2, <3>4
  <2>2. CASE ~(Current(c) /\ record[r].status = call[c].saw.status)
    BY <1>5, <1>10, <2>2 DEF RevokeRecord
  <2> QED
    BY <2>1, <2>2
<1> QED
  BY <1>7, <1>8, <1>9, <1>10
--------------------------------------------------------------------------------
(* Every step, as its effect on the rows and on each call.                  *)

Begun(c) ==
  /\ call'[c].pc \in Starts /\ call'[c].at \in Records
  /\ call'[c].saw = record[call'[c].at]
  /\ call'[c].pc = "revoke" => call'[c].saw.status \in Revocable
  /\ UNCHANGED <<record, manual, ruling>>

WentOn(c) ==
  \/ /\ GoesOn(c, "review") /\ call[c].saw.status = "manual_verify_pending"
     /\ call'[c].manual = 1
  \/ /\ call[c].pc = "review" /\ GoesOn(c, "apply")
     /\ manual'[call[c].at].status = "reviewed"
     /\ manual'[call[c].at].decision = call[c].choice
  \/ GoesOn(c, "rule")

CallStep(c) ==
  \/ call'[c] = call[c] \/ call'[c] = Idle \/ Begun(c)
  \/ call[c].pc # "idle" /\ WentOn(c)

Calling == call' \in [Calls -> CallState] /\ \A c \in Calls : CallStep(c)

LEMMA StartEffects ==
  ASSUME Inv, NEW c \in Calls, Start(c)
  PROVE  Effects /\ Calling
<1>1. TypeOK
  BY DEF Inv
<1>2. PICK r \in Records :
        \/ StartReview(c, r) \/ StartRuling(c, r)
        \/ StartCorrection(c, r) \/ StartRevocation(c, r)
  BY DEF Start
<1>3. UNCHANGED <<record, manual, ruling>>
  BY <1>2 DEF StartReview, StartRuling, StartCorrection, StartRevocation, GetRecord, rows
<1>4. Only(c) /\ Begun(c)
  <2>1. CASE StartReview(c, r)
    <3>1. PICK decision \in Decisions : GetRecord(c, r, "manual", decision, 0)
      BY <2>1 DEF StartReview
    <3>2. Only(c) /\ call'[c].pc = "manual" /\ call'[c].at = r /\ call'[c].saw = record[r]
      BY <1>1, <3>1, Begins DEF Starts
    <3> QED
      BY <1>3, <3>2 DEF Begun, Starts
  <2>2. CASE StartRuling(c, r)
    <3>1. PICK winner \in Winners : GetRecord(c, r, "hours", winner, 0)
      BY <2>2 DEF StartRuling
    <3>2. Only(c) /\ call'[c].pc = "hours" /\ call'[c].at = r /\ call'[c].saw = record[r]
      BY <1>1, <3>1, Begins DEF Starts
    <3> QED
      BY <1>3, <3>2 DEF Begun, Starts
  <2>3. CASE StartCorrection(c, r)
    <3>1. PICK hours \in Hours : GetRecord(c, r, "correct", "none", hours)
      BY <2>3 DEF StartCorrection
    <3>2. hours \in Int
      BY HoursAssumption
    <3>3. Only(c) /\ call'[c].pc = "correct" /\ call'[c].at = r /\ call'[c].saw = record[r]
      BY <1>1, <3>1, <3>2, Begins DEF Starts
    <3> QED
      BY <1>3, <3>3 DEF Begun, Starts
  <2>4. CASE StartRevocation(c, r)
    <3>1. GetRecord(c, r, "revoke", "none", 0) /\ "revoked" \in recordTransitions[record[r].status]
      BY <2>4 DEF StartRevocation
    <3>2. Only(c) /\ call'[c].pc = "revoke" /\ call'[c].at = r /\ call'[c].saw = record[r]
      BY <1>1, <3>1, Begins DEF Starts
    <3>3. record[r].status \in RecordStatus
      BY <1>1, StatusTypes DEF RecordRow
    <3>4. record[r].status \in Revocable
      BY <3>1, <3>3 DEF recordTransitions, RecordStatus, Revocable
    <3> QED
      BY <1>3, <3>2, <3>4 DEF Begun, Starts
  <2> QED
    BY <1>2, <2>1, <2>2, <2>3, <2>4
<1> QED
  BY <1>1, <1>3, <1>4, KeptEffects DEF Only, Calling, CallStep

LEMMA ManualForms ==
  ASSUME ManualInv, NEW r \in Records
  PROVE  /\ manual[r].status \in {"none", "pending", "reviewed"}
         /\ manual[r].status = "none" <=> manual[r] = NoManual
         /\ manual[r].status = "pending" => manual[r].version = 1 /\ manual[r].decision = "none"
         /\ manual[r].status = "reviewed" => manual[r].version = 2 /\ manual[r].decision \in Decisions
         /\ manual[r].status = "none" => manual[r].version = 0 /\ manual[r].decision = "none"
<1>1. CASE manual[r] = NoManual
  BY <1>1 DEF NoManual
<1>2. CASE manual[r] = [status |-> "pending", version |-> 1, decision |-> "none"]
  BY <1>2 DEF NoManual
<1>3. ASSUME NEW decision \in Decisions,
             manual[r] = [status |-> "reviewed", version |-> 2, decision |-> decision]
      PROVE  /\ manual[r].status = "reviewed" /\ manual[r] # NoManual
             /\ manual[r].version = 2 /\ manual[r].decision \in Decisions
  BY <1>3 DEF NoManual
<1> QED
  BY <1>1, <1>2, <1>3 DEF ManualInv

LEMMA ContinueEffects ==
  ASSUME Inv, NEW c \in Calls, Continue(c)
  PROVE  Effects /\ Calling
<1>1. TypeOK /\ ManualInv
  BY DEF Inv
<1>2. CASE GetManual(c)
  <2>1. At(c, "manual") /\ call[c].at \in Records /\ call[c].pc # "idle"
    BY <1>1, <1>2, CallRow DEF GetManual, At
  <2>2. UNCHANGED <<record, manual, ruling>>
    BY <1>2 DEF GetManual, rows
  <2>3. CASE /\ call[c].saw.status = "manual_verify_pending"
             /\ manual[call[c].at].status = "pending"
    <3>1. manual[call[c].at].version = 1
      BY <1>1, <2>1, <2>3, ManualForms
    <3>2. GoesOn(c, "review") /\ call'[c].manual = 1
      BY <1>1, <1>2, <2>1, <2>3, <3>1, ContinuesManual DEF GetManual
    <3> QED
      BY <1>1, <2>1, <2>2, <2>3, <3>2, KeptEffects DEF GoesOn, Only, Calling, CallStep, WentOn
  <2>4. CASE ~(/\ call[c].saw.status = "manual_verify_pending"
               /\ manual[call[c].at].status = "pending")
    <3>1. Return(c)
      BY <1>2, <2>4 DEF GetManual
    <3> QED
      BY <1>1, <2>2, <3>1, KeptEffects, Returns DEF Only, Calling, CallStep
  <2> QED
    BY <2>3, <2>4
<1>3. CASE ReviewManual(c)
  <2>1. At(c, "review")
    BY <1>3 DEF ReviewManual
  <2> QED
    BY <1>3, <2>1, ReviewEffects DEF At, GoesOn, Only, Calling, CallStep, WentOn
<1>4. CASE GetWorkHour(c)
  <2>1. At(c, "hours") /\ call[c].at \in Records /\ call[c].pc # "idle"
    BY <1>1, <1>4, CallRow DEF GetWorkHour, At
  <2>2. UNCHANGED <<record, manual, ruling>> /\ reported[call[c].at] \in Int
    BY <1>1, <1>4, <2>1 DEF GetWorkHour, rows, TypeOK
  <2>3. GoesOn(c, "rule")
    BY <1>1, <1>4, <2>1, <2>2, ContinuesHours DEF GetWorkHour
  <2> QED
    BY <1>1, <2>1, <2>2, <2>3, KeptEffects DEF GoesOn, Only, Calling, CallStep, WentOn
<1>5. CASE ApplyReview(c) \/ CreateAdjudication(c) \/ CorrectHours(c) \/ RevokeRecord(c)
  BY <1>5, WriteEffects DEF Only, Calling, CallStep
<1> QED
  BY <1>2, <1>3, <1>4, <1>5 DEF Continue

Listed ==
  /\ poller' \in [pc : {"idle", "resolve"}, listed : [Records -> RecordRow]]
  /\ \/ poller' = poller \/ poller'.pc = "idle"
     \/ poller'.listed = record /\ UNCHANGED <<record, manual, ruling>>

LEMMA Rests == Rest => Listed
<1>1. [r \in Records |-> NoRecord] \in [Records -> RecordRow]
  BY Rows
<1> QED
  BY <1>1 DEF Rest, Listed

LEMMA NextEffects ==
  ASSUME Inv, [Next]_vars
  PROVE  Effects /\ Calling /\ Listed
<1>1. TypeOK /\ call \in [Calls -> CallState]
  BY DEF Inv, TypeOK
<1>2. call' = call => Calling
  BY <1>1 DEF Calling, CallStep
<1>3. poller' = poller => Listed
  BY <1>1 DEF Listed, TypeOK
<1>4. CASE ListRecords
  <2>1. /\ UNCHANGED <<record, manual, ruling, call>>
        /\ poller' = [pc |-> "resolve", listed |-> record]
    BY <1>4 DEF ListRecords, rows
  <2>2. Listed
    BY <1>1, <2>1 DEF Listed, TypeOK
  <2> QED
    BY <1>1, <1>2, <2>1, <2>2, KeptEffects
<1>5. CASE ResolveRecords
  <2>1. UNCHANGED call /\ Rest
    BY <1>5 DEF ResolveRecords
  <2> QED
    BY <1>2, <1>5, <2>1, ResolveEffects, Rests
<1>6. CASE ResolveFails
  <2>1. UNCHANGED <<record, manual, ruling, call>> /\ Rest
    BY <1>6 DEF ResolveFails, rows
  <2> QED
    BY <1>1, <1>2, <2>1, KeptEffects, Rests
<1>7. ASSUME NEW c \in Calls, Start(c)
      PROVE  Effects /\ Calling /\ Listed
  <2>1. UNCHANGED poller
    BY <1>7 DEF Start, StartReview, StartRuling, StartCorrection, StartRevocation, GetRecord
  <2> QED
    BY <1>3, <1>7, <2>1, StartEffects
<1>8. ASSUME NEW c \in Calls, Continue(c)
      PROVE  Effects /\ Calling /\ Listed
  <2>1. UNCHANGED poller
    BY <1>8 DEF Continue, GetManual, ReviewManual, ApplyReview, GetWorkHour,
                CreateAdjudication, CorrectHours, RevokeRecord
  <2> QED
    BY <1>3, <1>8, <2>1, ContinueEffects
<1>9. ASSUME NEW c \in Calls, CallFails(c)
      PROVE  Effects /\ Calling /\ Listed
  <2>1. UNCHANGED <<record, manual, ruling, poller>> /\ Return(c)
    BY <1>9 DEF CallFails, rows
  <2> QED
    BY <1>1, <1>3, <1>9, <2>1, KeptEffects, Returns DEF Only, Calling, CallStep
<1>10. ASSUME NEW r \in Records, UpsertWorkHour(r) \/ WindowCloses(r)
       PROVE  Effects /\ Calling /\ Listed
  <2>1. UNCHANGED <<record, manual, ruling, call, poller>>
    BY <1>10 DEF UpsertWorkHour, WindowCloses, rows
  <2> QED
    BY <1>1, <1>2, <1>3, <2>1, KeptEffects
<1>11. CASE Crash
  <2>1. UNCHANGED <<record, manual, ruling>> /\ Rest /\ call' = [c \in Calls |-> Idle]
    BY <1>11 DEF Crash, rows
  <2>2. Calling
    BY <2>1, Rows DEF Calling, CallStep
  <2> QED
    BY <1>1, <2>1, <2>2, KeptEffects, Rests
<1>12. CASE UNCHANGED vars
  <2>1. UNCHANGED <<record, manual, ruling, call, poller>>
    BY <1>12 DEF vars, rows
  <2> QED
    BY <1>1, <1>2, <1>3, <2>1, KeptEffects
<1> QED
  BY <1>4, <1>5, <1>6, <1>7, <1>8, <1>9, <1>10, <1>11, <1>12 DEF Next

--------------------------------------------------------------------------------
(* The invariant.                                                           *)

LEMMA TypeNext ==
  ASSUME Inv, [Next]_vars
  PROVE  TypeOK'
<1>1. Effects /\ Calling /\ Listed
  BY NextEffects
<1>2. reported' \in [Records -> Int]
  <2>1. reported \in [Records -> Int]
    BY DEF Inv, TypeOK
  <2>2. UNCHANGED reported \/ \E r \in Records : UpsertWorkHour(r)
    BY DEF Next, vars, rows, ListRecords, ResolveRecords, ResolveFails, Start, StartReview,
           StartRuling, StartCorrection, StartRevocation, GetRecord, Continue, GetManual,
           ReviewManual, ApplyReview, GetWorkHour, CreateAdjudication, CorrectHours,
           RevokeRecord, CallFails, WindowCloses, Crash
  <2> QED
    BY <2>1, <2>2, HoursAssumption DEF UpsertWorkHour
<1>3. late' \in [Records -> BOOLEAN]
  <2>1. late \in [Records -> BOOLEAN]
    BY DEF Inv, TypeOK
  <2>2. UNCHANGED late \/ \E r \in Records : WindowCloses(r)
    BY DEF Next, vars, rows, ListRecords, ResolveRecords, ResolveFails, Start, StartReview,
           StartRuling, StartCorrection, StartRevocation, GetRecord, Continue, GetManual,
           ReviewManual, ApplyReview, GetWorkHour, CreateAdjudication, CorrectHours,
           RevokeRecord, CallFails, UpsertWorkHour, Crash
  <2> QED
    BY <2>1, <2>2 DEF WindowCloses
<1>4. budget' \in [Events -> Nat]
  <2>1. budget \in [Events -> Nat]
    BY DEF Inv, TypeOK
  <2>2. UNCHANGED budget \/ \E e \in Events : Spend(e)
    BY DEF Next, vars, rows, ListRecords, ResolveRecords, ResolveFails, Start, StartReview,
           StartRuling, StartCorrection, StartRevocation, GetRecord, Continue, GetManual,
           ReviewManual, ApplyReview, GetWorkHour, CreateAdjudication, CorrectHours,
           RevokeRecord, CallFails, UpsertWorkHour, WindowCloses, Crash, Events
  <2> QED
    BY <2>1, <2>2 DEF Spend
<1> QED
  BY <1>1, <1>2, <1>3, <1>4 DEF Effects, Typed, Calling, Listed, TypeOK

(* A row that is written gets a higher version.                             *)
LEMMA Versions ==
  ASSUME Inv, [Next]_vars, NEW r \in Records
  PROVE  /\ record[r].version \in Nat /\ record'[r].version \in Nat
         /\ record'[r].version >= record[r].version
         /\ record'[r].version = record[r].version => record'[r] = record[r]
<1>1. Effect(r) /\ record'[r] \in RecordRow /\ record[r] \in RecordRow
  BY NextEffects, StatusTypes DEF Effects, Typed, Inv
<1>2. record[r].version \in Nat /\ record'[r].version \in Nat
  BY <1>1 DEF RecordRow
<1>3. \A to \in RecordStatus : Moved(record[r], to).version = record[r].version + 1
  BY <1>1, Rows
<1>4. /\ Target(manual[r].decision) \in RecordStatus
      /\ {"accepted", "conflict", "manual_verify_pending", "adjudicated", "revoked"}
            \subseteq RecordStatus
  BY StatusTypes DEF Target
<1>5. record'[r] = record[r] \/ record'[r].version > record[r].version
  BY <1>1, <1>2, <1>3, <1>4
     DEF Effect, Kept, Resolved, Reviewed, Applied, Ruled, Corrected, Revoked
<1> QED
  BY <1>2, <1>5

LEMMA FreshNext ==
  ASSUME Inv, [Next]_vars, NEW r \in Records, NEW row \in RecordRow, Fresh(row, record[r])
  PROVE  Fresh(row, record'[r])
<1>1. row.version \in Nat
  BY DEF RecordRow
<1> QED
  BY <1>1, Versions DEF Fresh

LEMMA ListNext ==
  ASSUME Inv, [Next]_vars
  PROVE  ListInv'
<1> SUFFICES ASSUME poller'.pc = "resolve", NEW r \in Records
             PROVE  Fresh(poller'.listed[r], record'[r])
  BY DEF ListInv, Fresh
<1>1. Listed /\ TypeOK /\ ListInv
  BY NextEffects DEF Inv
<1>2. CASE poller' = poller
  <2>1. poller.listed[r] \in RecordRow
    BY <1>1 DEF TypeOK
  <2> QED
    BY <1>1, <1>2, <2>1, FreshNext DEF ListInv
<1>3. CASE poller'.listed = record /\ record' = record
  <2>1. record[r].version \in Nat
    BY <1>1 DEF TypeOK, RecordRow
  <2> QED
    BY <1>3, <2>1 DEF Fresh
<1> QED
  BY <1>1, <1>2, <1>3 DEF Listed

LEMMA MovedStatus ==
  ASSUME TypeOK, NEW r \in Records
  PROVE  \A to \in RecordStatus : Moved(record[r], to).status = to
  BY Rows, StatusTypes

LEMMA RowsNext ==
  ASSUME Inv, [Next]_vars
  PROVE  ManualInv' /\ LinkInv' /\ RulingMatchesStatus'
<1>1. TypeOK /\ ManualInv /\ LinkInv /\ RulingMatchesStatus
  BY DEF Inv
<1>2. ASSUME NEW r \in Records
      PROVE  /\ \/ manual'[r] = NoManual
                \/ manual'[r] = [status |-> "pending", version |-> 1, decision |-> "none"]
                \/ \E decision \in Decisions :
                     manual'[r] = [status |-> "reviewed", version |-> 2, decision |-> decision]
             /\ manual'[r].status = "none" => record'[r].status # "manual_verify_pending"
             /\ manual'[r].status = "pending" =>
                  record'[r].status \in {"manual_verify_pending", "revoked"}
             /\ manual'[r].decision = "accept" =>
                  record'[r].status \in {"manual_verify_pending", "verified", "revoked"}
             /\ manual'[r].decision = "reject" =>
                  record'[r].status \in {"manual_verify_pending", "revoked"}
             /\ record'[r].status = "adjudicated" <=> ruling'[r].winner # "none"
  <2>1. Effect(r)
    BY NextEffects DEF Effects
  <2>2. /\ \/ manual[r] = NoManual
           \/ manual[r] = [status |-> "pending", version |-> 1, decision |-> "none"]
           \/ \E decision \in Decisions :
                manual[r] = [status |-> "reviewed", version |-> 2, decision |-> decision]
        /\ manual[r].status = "none" => record[r].status # "manual_verify_pending"
        /\ manual[r].status = "pending" =>
             record[r].status \in {"manual_verify_pending", "revoked"}
        /\ manual[r].decision = "accept" =>
             record[r].status \in {"manual_verify_pending", "verified", "revoked"}
        /\ manual[r].decision = "reject" => record[r].status \in {"manual_verify_pending", "revoked"}
        /\ record[r].status = "adjudicated" <=> ruling[r].winner # "none"
    BY <1>1 DEF ManualInv, LinkInv, RulingMatchesStatus
  <2>3. \A to \in {"accepted", "conflict", "manual_verify_pending", "adjudicated",
                   "verified", "revoked"} : Moved(record[r], to).status = to
    BY <1>1, MovedStatus, StatusTypes
  <2>4. CASE Kept(r)
    BY <2>2, <2>4 DEF Kept
  <2>5. CASE Resolved(r)
    <3>1. manual[r] = NoManual
      BY <2>2, <2>5 DEF Resolved, Decisions
    <3>2. Routed(r) = [status |-> "pending", version |-> 1, decision |-> "none"]
      BY <3>1 DEF Routed, NoManual
    <3> QED
      BY <2>2, <2>3, <2>5, <3>1, <3>2 DEF Resolved, NoManual
  <2>6. CASE Reviewed(r)
    <3>1. manual[r].status = "pending"
      BY <1>1, <2>6, ManualForms DEF Reviewed
    <3> QED
      BY <2>2, <2>6, <3>1 DEF Reviewed, Decisions
  <2>7. CASE Applied(r)
    <3>1. manual[r].decision \in Decisions
      BY <1>1, <2>7, ManualForms DEF Applied
    <3> QED
      BY <2>2, <2>3, <2>7, <3>1 DEF Applied, Target, Decisions
  <2>8. CASE Ruled(r)
    <3>1. manual[r] = NoManual
      BY <2>2, <2>8 DEF Ruled, Decisions
    <3> QED
      BY <2>2, <2>3, <2>8, <3>1 DEF Ruled, NoManual
  <2>9. CASE Corrected(r)
    <3>1. record[r].status = "accepted" => manual[r] = NoManual
      BY <2>2 DEF Decisions
    <3> QED
      BY <2>2, <2>9, <3>1 DEF Corrected, NoManual
  <2>10. CASE Revoked(r)
    BY <2>2, <2>3, <2>10 DEF Revoked, Revocable
  <2> QED
    BY <2>1, <2>4, <2>5, <2>6, <2>7, <2>8, <2>9, <2>10 DEF Effect
<1> QED
  BY <1>2 DEF ManualInv, LinkInv, RulingMatchesStatus

(* A call in progress goes on knowing what it has read: a row that moved    *)
(* has another version, and a decision is never written twice.              *)
LEMMA KnowsNext ==
  ASSUME Inv, [Next]_vars
  PROVE  CallInv'
<1> SUFFICES ASSUME NEW c \in Calls PROVE Knows(c)'
  BY DEF CallInv
<1>1. /\ TypeOK /\ ManualInv /\ LinkInv /\ Knows(c) /\ Effects /\ CallStep(c) /\ TypeOK'
      /\ call[c] \in CallState /\ call'[c] \in CallState
  BY NextEffects, TypeNext DEF Inv, CallInv, Calling, TypeOK
<1>2. CASE call'[c] = Idle
  BY <1>2 DEF Knows, Idle
<1>3. CASE Begun(c)
  <2>1. /\ call'[c].at \in Records /\ call'[c].saw = record'[call'[c].at]
        /\ call'[c].pc \in Starts
        /\ call'[c].pc = "revoke" => call'[c].saw.status \in Revocable
    BY <1>3 DEF Begun
  <2>2. record'[call'[c].at].version \in Nat
    BY <1>1, <2>1 DEF TypeOK, RecordRow
  <2>3. Fresh(call'[c].saw, record'[call'[c].at])
    BY <2>1, <2>2 DEF Fresh
  <2> QED
    BY <2>1, <2>3 DEF Knows, Starts
<1>4. ASSUME call[c].pc # "idle", call'[c].saw = call[c].saw, call'[c].at = call[c].at
      PROVE  Fresh(call'[c].saw, record'[call'[c].at]) /\ call[c].at \in Records
  BY <1>1, <1>4, CallRow, FreshNext DEF Knows
<1>5. CASE call[c].pc # "idle" /\ WentOn(c)
  <2>1. /\ call'[c].saw = call[c].saw /\ call'[c].at = call[c].at
        /\ call'[c].choice = call[c].choice
    BY <1>5 DEF WentOn, GoesOn
  <2>2. Fresh(call'[c].saw, record'[call'[c].at])
    BY <1>4, <1>5, <2>1
  <2> QED
    BY <1>1, <1>5, <2>1, <2>2 DEF WentOn, GoesOn, Knows
<1>6. CASE call'[c] = call[c]
  <2>1. CASE call[c].pc = "idle"
    BY <1>6, <2>1 DEF Knows
  <2>2. CASE call[c].pc # "idle"
    <3>1. Fresh(call'[c].saw, record'[call'[c].at]) /\ call[c].at \in Records
      BY <1>4, <1>6, <2>2
    <3>2. call[c].pc = "apply" => manual'[call[c].at] = manual[call[c].at]
      <4> SUFFICES ASSUME call[c].pc = "apply"
                   PROVE  manual'[call[c].at] = manual[call[c].at]
        OBVIOUS
      <4>1. manual[call[c].at].status = "reviewed" /\ Effect(call[c].at)
        BY <1>1, <3>1 DEF Knows, Effects
      <4>2. /\ manual[call[c].at].version = 2
            /\ manual[call[c].at].decision \in Decisions
        BY <1>1, <3>1, <4>1, ManualForms
      <4>3. ~Reviewed(call[c].at)
        BY <4>2 DEF Reviewed
      <4>4. record[call[c].at].status # "pending"
        BY <1>1, <3>1, <4>2 DEF LinkInv, Decisions
      <4>5. ~Resolved(call[c].at)
        BY <4>4 DEF Resolved
      <4> QED
        BY <4>1, <4>3, <4>5 DEF Effect, Kept, Applied, Ruled, Corrected, Revoked
    <3> QED
      BY <1>1, <1>6, <3>1, <3>2 DEF Knows
  <2> QED
    BY <2>1, <2>2
<1> QED
  BY <1>1, <1>2, <1>3, <1>5, <1>6 DEF CallStep

LEMMA InitInv == Init => Inv
<1> SUFFICES ASSUME Init PROVE Inv
  OBVIOUS
<1>1. TypeOK
  BY InitType
<1>2. ListInv /\ CallInv
  BY DEF Init, ListInv, CallInv, Knows, Idle
<1>3. \A r \in Records :
        manual[r] = NoManual /\ ruling[r] = NoRuling /\ record[r].status = "pending"
  BY DEF Init
<1>4. ManualInv /\ LinkInv /\ RulingMatchesStatus
  BY <1>3 DEF ManualInv, LinkInv, RulingMatchesStatus, NoManual, NoRuling
<1> QED
  BY <1>1, <1>2, <1>4 DEF Inv

LEMMA NextInv == Inv /\ [Next]_vars => Inv'
  BY TypeNext, ListNext, RowsNext, KnowsNext DEF Inv

LEMMA Invariant == Spec => []Inv
  BY InitInv, NextInv, PTL DEF Spec

--------------------------------------------------------------------------------
(* Every value is of its type in every reachable state.                     *)
THEOREM TypeCorrect == Spec => []TypeOK
<1>1. Inv => TypeOK
  BY DEF Inv
<1> QED
  BY <1>1, Invariant, PTL

(* A ruling exists exactly for the adjudicated records, however rulings,    *)
(* corrections, revocations and crashes interleave.                         *)
THEOREM RulingsMatch == Spec => []RulingMatchesStatus
<1>1. Inv => RulingMatchesStatus
  BY DEF Inv
<1> QED
  BY <1>1, Invariant, PTL

(* A rejected record is never verified and an accepted one only verified or *)
(* revoked, although decision and status are two separate statements.       *)
THEOREM DecisionsHold == Spec => []DecisionHolds
<1>1. ASSUME Inv PROVE DecisionHolds
  <2>1. ManualInv /\ LinkInv
    BY <1>1 DEF Inv
  <2>2. \A r \in Records : manual[r].status = "pending" => manual[r].decision = "none"
    BY <2>1, ManualForms
  <2> QED
    BY <2>1, <2>2 DEF DecisionHolds, LinkInv
<1> QED
  BY <1>1, Invariant, PTL

--------------------------------------------------------------------------------
(* The contract.                                                            *)

LEMMA Standings ==
  ASSUME TypeOK, NEW r \in Records
  PROVE  /\ record[r].status = "pending" => Standing(r) = "open"
         /\ record[r].status = "conflict" => Standing(r) = "disputed"
         /\ record[r].status = "manual_verify_pending" => Standing(r) = "held"
         /\ record[r].status = "revoked" => Standing(r) = "withdrawn"
         /\ record[r].status \in {"accepted", "verified", "adjudicated"} =>
              Standing(r) = "billable"
  BY DEF Standing

LEMMA ContractStep ==
  ASSUME Inv, [Next]_vars, NEW r \in Records
  PROVE  Contract(r)!Next \/ UNCHANGED Contract(r)!vars
<1>1. /\ TypeOK /\ TypeOK' /\ ManualInv /\ LinkInv /\ RulingMatchesStatus /\ Effect(r)
      /\ record[r].status \in RecordStatus
  BY NextEffects, TypeNext, StatusTypes DEF Inv, Effects, RecordRow
<1>2. \A to \in {"accepted", "conflict", "manual_verify_pending", "adjudicated",
                  "verified", "revoked"} : Moved(record[r], to).status = to
  BY <1>1, MovedStatus, StatusTypes
<1>3. /\ record'[r].status = "pending" => Standing(r)' = "open"
      /\ record'[r].status = "conflict" => Standing(r)' = "disputed"
      /\ record'[r].status = "manual_verify_pending" => Standing(r)' = "held"
      /\ record'[r].status = "revoked" => Standing(r)' = "withdrawn"
      /\ record'[r].status \in {"accepted", "verified", "adjudicated"} =>
           Standing(r)' = "billable"
  BY <1>1 DEF Standing
<1>4. ASSUME Standing(r)' = Standing(r), manual'[r] = manual[r], ruling'[r] = ruling[r]
      PROVE  UNCHANGED Contract(r)!vars
  BY <1>4 DEF Contract!vars
<1>5. CASE Kept(r)
  <2>1. Standing(r)' = Standing(r)
    BY <1>5 DEF Kept, Standing
  <2> QED
    BY <1>4, <1>5, <2>1 DEF Kept
<1>6. CASE Resolved(r)
  <2>1. manual[r].decision = "none"
    BY <1>1, <1>6, ManualForms DEF Resolved, LinkInv, Decisions
  <2>2. manual'[r].decision = "none"
    BY <1>6, <2>1 DEF Resolved, Routed
  <2>3. Standing(r) = "open" /\ Standing(r)' \in {"billable", "disputed", "held"}
    BY <1>1, <1>2, <1>3, <1>6, Standings DEF Resolved
  <2>4. Contract(r)!Resolve
    BY <1>6, <2>1, <2>2, <2>3 DEF Contract!Resolve, Resolved
  <2> QED
    BY <2>4 DEF Contract!Next
<1>7. CASE Reviewed(r)
  <2>1. manual[r].status = "pending" /\ manual[r].decision = "none"
    BY <1>1, <1>7, ManualForms DEF Reviewed
  <2>2. manual'[r].decision \in {"accept", "reject"}
    BY <1>7 DEF Reviewed, Decisions
  <2>3. Standing(r) \in {"held", "withdrawn"}
    BY <1>1, <2>1, Standings DEF LinkInv
  <2>4. Standing(r)' = Standing(r) /\ ruling'[r] = ruling[r]
    BY <1>7 DEF Reviewed, Standing
  <2>5. Contract(r)!Decide
    BY <2>1, <2>2, <2>3, <2>4 DEF Contract!Decide
  <2> QED
    BY <2>5 DEF Contract!Next
<1>8. CASE Applied(r)
  <2>1. manual[r].decision \in {"accept", "reject"} /\ Standing(r) = "held"
    BY <1>1, <1>8, ManualForms, Standings DEF Applied, Decisions
  <2>2. \/ manual[r].decision = "accept" /\ Standing(r)' = "billable"
        \/ manual[r].decision = "reject" /\ Standing(r)' = "withdrawn"
    BY <1>2, <1>3, <1>8, <2>1 DEF Applied, Target
  <2>3. Contract(r)!Conclude
    BY <1>8, <2>1, <2>2 DEF Contract!Conclude, Applied
  <2> QED
    BY <2>3 DEF Contract!Next
<1>9. CASE Ruled(r)
  <2>1. Standing(r) = "disputed" /\ Standing(r)' = "billable"
    BY <1>1, <1>2, <1>3, <1>9, Standings DEF Ruled
  <2>2. Contract(r)!Rule
    BY <1>9, <2>1 DEF Contract!Rule, Ruled
  <2> QED
    BY <2>2 DEF Contract!Next
<1>10. CASE Corrected(r)
  <2>1. Standing(r)' = Standing(r)
    BY <1>1, <1>3, <1>10, Standings DEF Corrected, RecordStatus
  <2> QED
    BY <1>4, <1>10, <2>1 DEF Corrected
<1>11. CASE Revoked(r)
  <2>1. Standing(r) \in {"open", "billable", "held"} /\ Standing(r)' = "withdrawn"
    BY <1>1, <1>2, <1>3, <1>11, Standings DEF Revoked, Revocable
  <2>2. ruling[r].winner = "none"
    BY <1>1, <1>11 DEF Revoked, Revocable, RulingMatchesStatus
  <2>3. Contract(r)!Withdraw
    BY <1>11, <2>1, <2>2 DEF Contract!Withdraw, Revoked
  <2> QED
    BY <2>3 DEF Contract!Next
<1> QED
  BY <1>1, <1>5, <1>6, <1>7, <1>8, <1>9, <1>10, <1>11 DEF Effect

(* Every step of every record is a step of its contract or none: poller,    *)
(* reviewers, adjudicators and staff implement it together.                 *)
THEOREM ContractKept == Spec => KeepsContract
<1>1. Init => \A r \in Records : Contract(r)!Init
  <2> SUFFICES ASSUME Init, NEW r \in Records PROVE Contract(r)!Init
    OBVIOUS
  <2>1. record[r].status = "pending" /\ manual[r] = NoManual /\ ruling[r] = NoRuling
    BY DEF Init
  <2>2. Standing(r) = "open"
    BY <2>1, InitType, Standings
  <2> QED
    BY <2>1, <2>2 DEF Contract!Init, NoManual, NoRuling
<1>2. Inv /\ [Next]_vars =>
        [\A r \in Records : Contract(r)!Next \/ UNCHANGED Contract(r)!vars]_vars
  BY ContractStep
<1> QED
  BY <1>1, <1>2, Invariant, PTL DEF Spec, KeepsContract

--------------------------------------------------------------------------------
(* What a ruling and an acceptance rest on.                                 *)

(* A ruling is about the hours the record has when the ruling commits, not  *)
(* about those the adjudicator was shown.                                   *)
THEOREM RulingsCurrent == Spec => RulingOnCurrentHours
<1>1. ASSUME Inv, [Next]_vars, NEW r \in Records, ruling'[r] # ruling[r]
      PROVE  \E c \in Calls :
               /\ At(c, "rule") /\ call[c].at = r
               /\ ruling'[r].delta = Abs(record[r].hours - call[c].hours)
  <2>1. PICK c \in Calls : CreateAdjudication(c)
    BY <1>1 DEF Next, vars, rows, ListRecords, ResolveRecords, ResolveFails, Start, StartReview,
           StartRuling, StartCorrection, StartRevocation, GetRecord, Continue, GetManual,
           ReviewManual, ApplyReview, GetWorkHour, CorrectHours, RevokeRecord, CallFails,
           UpsertWorkHour, WindowCloses, Crash
  <2>2. TypeOK /\ Knows(c) /\ At(c, "rule") /\ call[c].at \in Records
    BY <1>1, <2>1, CallRow DEF Inv, CallInv, CreateAdjudication, At
  <2> DEFINE made == [winner |-> call[c].choice,
                      delta |-> Abs(call[c].saw.hours - call[c].hours)]
  <2>3. Rulable(c) /\ ruling' = [ruling EXCEPT ![call[c].at] = made]
    BY <1>1, <2>1 DEF CreateAdjudication
  <2>4. call[c].at = r /\ ruling'[r] = made
    BY <1>1, <2>2, <2>3 DEF TypeOK
  <2>5. call[c].saw = record[r]
    BY <2>2, <2>3, <2>4 DEF Rulable, Current, Knows, Fresh, At
  <2> QED
    BY <2>2, <2>4, <2>5
<1>2. Inv /\ [Next]_vars =>
        [\A r \in Records : ruling'[r] # ruling[r] =>
           \E c \in Calls :
             /\ At(c, "rule") /\ call[c].at = r
             /\ ruling'[r].delta = Abs(record[r].hours - call[c].hours)]_vars
  BY <1>1
<1> QED
  BY <1>2, Invariant, PTL DEF Spec, RulingOnCurrentHours

(* Only the poller accepts a pending record.                                *)
LEMMA Accepts ==
  ASSUME Inv, [Next]_vars, NEW r \in Records,
         record[r].status = "pending", record'[r].status = "accepted"
  PROVE  ResolveRecords
<1>1. TypeOK /\ record' # record
  BY DEF Inv
<1>2. ASSUME NEW c \in Calls, NEW row, record' = [record EXCEPT ![call[c].at] = row]
      PROVE  call[c].at = r /\ row.status = "accepted"
  BY <1>1, <1>2 DEF TypeOK
<1>3. ASSUME NEW c \in Calls PROVE ~ApplyReview(c)
  BY <1>1, <1>2 DEF ApplyReview
<1>4. ASSUME NEW c \in Calls PROVE ~CreateAdjudication(c)
  BY <1>1, <1>2 DEF CreateAdjudication, Rulable
<1>5. ASSUME NEW c \in Calls PROVE ~RevokeRecord(c)
  <2> SUFFICES ASSUME RevokeRecord(c) PROVE FALSE
    OBVIOUS
  <2>1. Moved(record[call[c].at], "revoked").status = "accepted" /\ call[c].at = r
    BY <1>1, <1>2 DEF RevokeRecord
  <2> QED
    BY <1>1, <2>1, MovedStatus, StatusTypes
<1>6. ASSUME NEW c \in Calls, CorrectHours(c) PROVE FALSE
  <2>1. Effect(r) /\ Only(c)
    BY <1>6, WriteEffects DEF Effects
  <2> DEFINE moved == Moved(record[call[c].at], record[call[c].at].status)
             corrected == [moved EXCEPT !.hours = call[c].hours]
             row == IF call[c].saw.status = "accepted"
                    THEN Moved(corrected, "verified") ELSE corrected
  <2>2. record' = [record EXCEPT ![call[c].at] = row] /\ Current(c)
    BY <1>1, <1>6 DEF CorrectHours
  <2> HIDE DEF row
  <2>3. call[c].at = r /\ row.status = "accepted"
    BY <1>2, <2>2
  <2>4. call[c].saw = record[r]
    BY <1>6, <2>2, <2>3 DEF Inv, CallInv, Knows, Current, Fresh, CorrectHours, At
  <2>5. row = corrected
    BY <2>4 DEF row
  <2>6. /\ moved \in RecordRow /\ moved.status = record[r].status
    BY <1>1, <2>3, Rows, StatusTypes DEF RecordRow
  <2> HIDE DEF moved
  <2>7. corrected.status = "pending"
    BY <2>6 DEF RecordRow
  <2> QED
    BY <2>3, <2>5, <2>7
<1> QED
  BY <1>1, <1>3, <1>4, <1>5, <1>6
     DEF Next, vars, rows, ListRecords, ResolveFails, Start, StartReview, StartRuling,
         StartCorrection, StartRevocation, GetRecord, Continue, GetManual, ReviewManual,
         GetWorkHour, CallFails, UpsertWorkHour, WindowCloses, Crash

(* Whatever was corrected or reported after the batch was listed, a record  *)
(* is accepted on the facts of the moment.                                  *)
THEOREM AcceptedCurrent == Spec => AcceptedOnCurrentFacts
<1>1. ASSUME Inv, [Next]_vars, NEW r \in Records,
             record[r].status = "pending", record'[r].status = "accepted"
      PROVE  ~late[r] /\ reported[r] \in {0, record'[r].hours}
  <2>1. ResolveRecords /\ TypeOK /\ ListInv
    BY <1>1, Accepts DEF Inv
  <2>2. r \in Unresolved
    BY <1>1, <2>1 DEF ResolveRecords
  <2>3. /\ record'[r] = Moved(record[r], Verdict(r))
        /\ poller.listed[r].version = record[r].version /\ poller.pc = "resolve"
    BY <2>1, <2>2 DEF ResolveRecords, Unmoved
  <2>4. poller.listed[r] = record[r]
    BY <2>1, <2>3 DEF ListInv, Fresh
  <2>5. Verdict(r) \in {"manual_verify_pending", "conflict", "accepted"}
    BY DEF Verdict
  <2>6. Verdict(r) = "accepted" /\ record'[r].hours = record[r].hours
    <3>1. Verdict(r) \in RecordStatus /\ record[r] \in RecordRow
      BY <2>1, <2>5, StatusTypes
    <3>2. /\ Moved(record[r], Verdict(r)).status = Verdict(r)
          /\ Moved(record[r], Verdict(r)).hours = record[r].hours
      BY <3>1, Rows
    <3> QED
      BY <1>1, <2>3, <3>2
  <2>7. late[r] \in BOOLEAN
    BY <2>1 DEF TypeOK
  <2>8. ~late[r] /\ reported[r] \in {0, record[r].hours}
    BY <2>4, <2>6, <2>7 DEF Verdict
  <2> QED
    BY <2>6, <2>8
<1>2. Inv /\ [Next]_vars =>
        [\A r \in Records :
           record[r].status = "pending" /\ record'[r].status = "accepted" =>
             ~late[r] /\ reported[r] \in {0, record'[r].hours}]_vars
  BY <1>1
<1> QED
  BY <1>2, Invariant, PTL DEF Spec, AcceptedOnCurrentFacts

--------------------------------------------------------------------------------
(* A review that nothing disturbs.                                          *)

Disturbances == {"correct", "fault", "crash"}

(* A correction in progress has been paid for.                              *)
PaidInv ==
  /\ \A e \in Events : budget[e] <= Budget[e]
  /\ \A c \in Calls : At(c, "correct") => budget["correct"] < Budget["correct"]

(* While nobody corrects, a record changes only by leaving the manual queue *)
(* for good: a call that saw it there and finds it there holds the current  *)
(* row.                                                                     *)
QueueCurrent ==
  Undisturbed =>
    \A c \in Calls :
      /\ call[c].pc # "idle" /\ call[c].saw.status = "manual_verify_pending"
      /\ record[call[c].at].status = "manual_verify_pending"
      => Current(c)

(* A record that left the pending ones does not come back.                  *)
QueueSeen ==
  \A c \in Calls :
    call[c].pc # "idle" /\ call[c].saw.status = "manual_verify_pending"
      => record[call[c].at].status # "pending"

QueueInv == PaidInv /\ QueueSeen /\ QueueCurrent /\ UndisturbedReview

LEMMA SpendLowers ==
  ASSUME TypeOK, NEW e \in Events, Spend(e)
  PROVE  /\ budget'[e] < budget[e]
         /\ \A f \in Events : f # e => budget'[f] = budget[f]
<1>1. budget \in [Events -> Nat] /\ budget' = [budget EXCEPT ![e] = budget[e] - 1]
  BY DEF TypeOK, Spend
<1> QED
  BY <1>1

(* Which event a step spends, if any.                                       *)
LEMMA Spending ==
  ASSUME [Next]_vars
  PROVE  UNCHANGED budget \/ \E e \in Events : Spend(e)
  BY DEF Next, vars, rows, ListRecords, ResolveRecords, ResolveFails, Start, StartReview,
         StartRuling, StartCorrection, StartRevocation, GetRecord, Continue, GetManual,
         ReviewManual, ApplyReview, GetWorkHour, CreateAdjudication, CorrectHours,
         RevokeRecord, CallFails, UpsertWorkHour, WindowCloses, Crash, Events

LEMMA BudgetFalls ==
  ASSUME TypeOK, [Next]_vars
  PROVE  \A e \in Events : budget'[e] \in Nat /\ budget[e] \in Nat /\ budget'[e] <= budget[e]
<1>1. budget \in [Events -> Nat]
  BY DEF TypeOK
<1>2. CASE UNCHANGED budget
  BY <1>1, <1>2
<1>3. CASE \E e \in Events : Spend(e)
  BY <1>1, <1>3 DEF Spend
<1> QED
  BY <1>2, <1>3, Spending

(* A correction begins by being paid for.                                   *)
LEMMA PaidNext ==
  ASSUME Inv, PaidInv, [Next]_vars
  PROVE  PaidInv'
<1>1. /\ TypeOK /\ Calling
      /\ \A e \in Events : budget'[e] \in Nat /\ budget[e] \in Nat /\ budget'[e] <= budget[e]
      /\ \A e \in Events : budget[e] <= Budget[e] /\ Budget[e] \in Nat
  BY NextEffects, BudgetFalls, BudgetAssumption DEF Inv, PaidInv
<1>2. \A e \in Events : budget'[e] <= Budget[e]
  BY <1>1
<1>3. ASSUME NEW c \in Calls, call'[c].pc = "correct"
      PROVE  budget'["correct"] < Budget["correct"]
  <2>1. "correct" \in Events
    BY DEF Events
  <2>2. CASE call[c].pc = "correct"
    BY <1>1, <2>1, <2>2 DEF PaidInv, At
  <2>3. CASE call[c].pc # "correct"
    <3>1. \E r \in Records : StartCorrection(c, r)
      <4>1. call'[c] # call[c] /\ call'[c] # Idle
        BY <1>3, <2>3 DEF Idle
      <4>2. \A d \in Calls : Only(d) => d = c
        BY <4>1 DEF Only
      <4>3. ASSUME NEW d \in Calls, Start(d)
            PROVE  \E r \in Records : StartCorrection(c, r)
        <5>1. PICK r \in Records :
                \/ StartReview(d, r) \/ StartRuling(d, r)
                \/ StartCorrection(d, r) \/ StartRevocation(d, r)
          BY <4>3 DEF Start
        <5>2. call \in [Calls -> CallState]
          BY <1>1 DEF TypeOK
        <5>3. ASSUME NEW pc, pc # "correct", NEW choice, NEW hours,
                     GetRecord(d, r, pc, choice, hours)
              PROVE  FALSE
          BY <1>3, <4>1, <5>2, <5>3 DEF GetRecord
        <5>4. StartCorrection(d, r)
          BY <5>1, <5>3 DEF StartReview, StartRuling, StartRevocation
        <5>5. d = c
          BY <4>1, <5>2, <5>4 DEF StartCorrection, GetRecord
        <5> QED
          BY <5>4, <5>5
      <4>4. ASSUME NEW d \in Calls, Continue(d)
            PROVE  FALSE
        <5>1. CASE GetManual(d) \/ ReviewManual(d) \/ GetWorkHour(d)
          <6>1. ASSUME NEW row \in CallState, row.pc # "correct",
                       call' = [call EXCEPT ![d] = row]
                PROVE  FALSE
            BY <1>3, <4>1, <6>1, <1>1 DEF TypeOK
          <6>2. Idle \in CallState /\ Idle.pc # "correct" /\ call[d] \in CallState
            BY <1>1, Rows DEF Idle, TypeOK
          <6>3. CASE Return(d)
            BY <6>1, <6>2, <6>3 DEF Return
          <6>4. CASE GetManual(d) /\ ~Return(d)
            <7> DEFINE row == [call[d] EXCEPT !.pc = "review",
                                              !.manual = manual[call[d].at].version]
            <7>1. call' = [call EXCEPT ![d] = row] /\ call[d].pc = "manual"
              BY <6>4 DEF GetManual, At
            <7>2. call[d].at \in Records
              BY <1>1, <7>1, CallRow
            <7>3. manual[call[d].at].version \in Nat
              BY <1>1, <7>2 DEF TypeOK, ManualRow
            <7>4. row \in CallState /\ row.pc # "correct"
              BY <6>2, <7>1, <7>3 DEF CallState, CallPC
            <7> HIDE DEF row
            <7> QED
              BY <6>1, <7>1, <7>4
          <6>5. CASE ReviewManual(d) /\ ~Return(d)
            <7> DEFINE row == [call[d] EXCEPT !.pc = "apply"]
            <7>1. call' = [call EXCEPT ![d] = row] /\ call[d].pc = "review"
              BY <6>5 DEF ReviewManual, At
            <7>2. row \in CallState /\ row.pc # "correct"
              BY <6>2, <7>1 DEF CallState, CallPC
            <7> HIDE DEF row
            <7> QED
              BY <6>1, <7>1, <7>2
          <6>6. CASE GetWorkHour(d)
            <7> DEFINE row == [call[d] EXCEPT !.pc = "rule", !.hours = reported[call[d].at]]
            <7>1. call' = [call EXCEPT ![d] = row] /\ call[d].pc = "hours"
              BY <6>6 DEF GetWorkHour, At
            <7>2. call[d].at \in Records
              BY <1>1, <7>1, CallRow
            <7>3. reported[call[d].at] \in Int
              BY <1>1, <7>2 DEF TypeOK
            <7>4. row \in CallState /\ row.pc # "correct"
              BY <6>2, <7>1, <7>3 DEF CallState, CallPC
            <7> HIDE DEF row
            <7> QED
              BY <6>1, <7>1, <7>4
          <6> QED
            BY <5>1, <6>3, <6>4, <6>5, <6>6
        <5>2. CASE ApplyReview(d) \/ CreateAdjudication(d) \/ CorrectHours(d) \/ RevokeRecord(d)
          <6>1. Only(d) /\ call'[d] = Idle
            BY <5>2, WriteEffects
          <6> QED
            BY <4>1, <4>2, <6>1
        <5> QED
          BY <4>4, <5>1, <5>2 DEF Continue
      <4>5. ASSUME NEW d \in Calls PROVE ~CallFails(d)
        <5> SUFFICES ASSUME CallFails(d) PROVE FALSE
          OBVIOUS
        <5>1. Only(d) /\ call'[d] = Idle
          BY <1>1, Returns DEF CallFails
        <5> QED
          BY <4>1, <4>2, <5>1
      <4> QED
        BY <4>1, <4>3, <4>4, <4>5
           DEF Next, vars, ListRecords, ResolveRecords, ResolveFails, UpsertWorkHour,
               WindowCloses, Crash
    <3>2. Spend("correct")
      BY <3>1 DEF StartCorrection
    <3> QED
      BY <1>1, <2>1, <3>2, SpendLowers
  <2> QED
    BY <2>2, <2>3
<1> QED
  BY <1>2, <1>3 DEF PaidInv, At


(* What a step that disturbs nothing does: a record enters the manual queue *)
(* only by being resolved and stays as it is while it waits there, a        *)
(* verification row is written by the poller or by the call that reviews    *)
(* it, and a call about to apply its decision stays there or applies it.    *)
Calm ==
  /\ Undisturbed
  /\ \A r \in Records :
       record'[r] = record[r] \/ record[r].status = "pending"
         \/ record'[r].status # "manual_verify_pending"
  /\ \A r \in Records :
       manual'[r] = manual[r] \/ record[r].status = "pending"
         \/ \E c \in Calls : ReviewManual(c) /\ call[c].at = r
  /\ \A c \in Calls : At(c, "apply") => call'[c] = call[c] \/ ApplyReview(c)

(* A call's write of another status.                                        *)
LEMMA CalmWrite ==
  ASSUME Inv, NEW c \in Calls, ApplyReview(c) \/ CreateAdjudication(c) \/ RevokeRecord(c)
  PROVE  \A r \in Records :
           record'[r] = record[r] \/ record'[r].status # "manual_verify_pending"
<1>1. TypeOK /\ call[c].at \in Records
  <2>1. TypeOK /\ call[c].pc # "idle"
    BY DEF Inv, ApplyReview, CreateAdjudication, RevokeRecord, At
  <2> QED
    BY <2>1, CallRow
<1>2. Target(call[c].choice) \in {"verified", "revoked"}
  BY DEF Target
<1>3. \/ record' = record
      \/ \E to \in {"verified", "revoked", "adjudicated"} :
           record' = [record EXCEPT ![call[c].at] = Moved(record[call[c].at], to)]
  BY <1>2 DEF ApplyReview, CreateAdjudication, RevokeRecord
<1>4. \A to \in {"verified", "revoked", "adjudicated"} :
        Moved(record[call[c].at], to).status = to
  BY <1>1, MovedStatus, StatusTypes
<1> QED
  BY <1>1, <1>3, <1>4 DEF TypeOK

LEMMA CalmStep ==
  ASSUME Inv, PaidInv, [Next]_vars, Undisturbed'
  PROVE  Calm
<1>1. /\ TypeOK /\ Disturbances \subseteq Events
      /\ \A e \in Events : budget'[e] \in Nat /\ budget[e] \in Nat /\ budget'[e] <= budget[e]
      /\ \A e \in Events : budget[e] <= Budget[e] /\ Budget[e] \in Nat
  BY BudgetFalls, BudgetAssumption DEF Inv, PaidInv, Disturbances, Events
<1>2. \A e \in Disturbances : budget'[e] = budget[e] /\ budget[e] = Budget[e]
  BY <1>1 DEF Undisturbed, Disturbances
<1>3. Undisturbed
  BY <1>2 DEF Undisturbed, Disturbances
<1>4. ASSUME NEW e \in Disturbances PROVE ~Spend(e)
  BY <1>1, <1>2, SpendLowers
<1>5. "correct" \in Disturbances /\ "fault" \in Disturbances /\ "crash" \in Disturbances
  BY DEF Disturbances
<1>6. ASSUME UNCHANGED <<record, manual>>, UNCHANGED call PROVE Calm
  BY <1>3, <1>6 DEF Calm
<1>7. CASE ListRecords \/ ResolveFails \/ UNCHANGED vars
           \/ \E r \in Records : UpsertWorkHour(r) \/ WindowCloses(r)
  BY <1>6, <1>7 DEF ListRecords, ResolveFails, UpsertWorkHour, WindowCloses, vars, rows
<1>8. CASE ResolveRecords
  <2>1. Effects /\ UNCHANGED call
    BY <1>8, ResolveEffects DEF ResolveRecords
  <2>2. ASSUME NEW r \in Records
        PROVE  \/ record'[r] = record[r] /\ manual'[r] = manual[r]
               \/ record[r].status = "pending"
    <3>1. CASE r \in Unresolved
      <4>1. record[r] = poller.listed[r]
        BY <1>8, <3>1 DEF ResolveRecords, Unresolved, Unmoved, Inv, ListInv, Fresh
      <4> QED
        BY <3>1, <4>1 DEF Unresolved
    <3>2. CASE r \notin Unresolved
      BY <1>8, <3>2 DEF ResolveRecords
    <3> QED
      BY <3>1, <3>2
  <2> QED
    BY <1>3, <2>1, <2>2 DEF Calm
<1>9. ASSUME NEW c \in Calls, Start(c)
      PROVE  Calm
  <2>1. UNCHANGED <<record, manual>> /\ At(c, "idle") /\ \A d \in Calls : d # c => call'[d] = call[d]
    BY <1>1, <1>9 DEF Start, StartReview, StartRuling, StartCorrection, StartRevocation,
                      GetRecord, rows, TypeOK
  <2> QED
    BY <1>3, <2>1 DEF Calm, At
<1>10. ASSUME NEW c \in Calls, Continue(c)
       PROVE  Calm
  <2>1. CASE GetManual(c) \/ GetWorkHour(c)
    <3>1. /\ UNCHANGED <<record, manual>> /\ ~At(c, "apply")
          /\ \A d \in Calls : d # c => call'[d] = call[d]
      BY <1>1, <2>1 DEF GetManual, GetWorkHour, Return, rows, TypeOK, At
    <3> QED
      BY <1>3, <3>1 DEF Calm
  <2>2. CASE ReviewManual(c)
    <3>1. UNCHANGED record /\ ~At(c, "apply") /\ \A d \in Calls : d # c => call'[d] = call[d]
      BY <1>1, <2>2 DEF ReviewManual, Return, TypeOK, At
    <3>2. \A r \in Records : manual'[r] = manual[r] \/ call[c].at = r
      BY <1>1, <2>2 DEF ReviewManual, TypeOK
    <3> QED
      BY <1>3, <2>2, <3>1, <3>2 DEF Calm
  <2>3. CASE ApplyReview(c) \/ CreateAdjudication(c) \/ RevokeRecord(c)
    <3>1. UNCHANGED manual /\ \A d \in Calls : d # c => call'[d] = call[d]
      BY <2>3, WriteEffects DEF ApplyReview, CreateAdjudication, RevokeRecord, Only
    <3>2. At(c, "apply") => ApplyReview(c)
      BY <2>3 DEF CreateAdjudication, RevokeRecord, At
    <3> QED
      BY <1>3, <2>3, <3>1, <3>2, CalmWrite DEF Calm
  <2>4. CASE CorrectHours(c)
    <3>1. budget["correct"] < Budget["correct"]
      BY <2>4 DEF CorrectHours, PaidInv
    <3> QED
      BY <1>1, <1>2, <1>5, <3>1
  <2> QED
    BY <1>10, <2>1, <2>2, <2>3, <2>4 DEF Continue
<1>11. ~Crash /\ \A c \in Calls : ~CallFails(c)
  BY <1>4, <1>5 DEF Crash, CallFails
<1> QED
  BY <1>7, <1>8, <1>9, <1>10, <1>11 DEF Next

LEMMA QueueSeenNext ==
  ASSUME Inv, QueueInv, [Next]_vars
  PROVE  QueueSeen'
<1> SUFFICES ASSUME NEW c \in Calls, call'[c].pc # "idle",
                    call'[c].saw.status = "manual_verify_pending"
             PROVE  record'[call'[c].at].status # "pending"
  BY DEF QueueSeen
<1>1. CallStep(c) /\ Effects /\ TypeOK
  BY NextEffects DEF Inv, Calling
<1>2. CASE call'[c] = Idle
  BY <1>2 DEF Idle
<1>3. CASE Begun(c)
  BY <1>3 DEF Begun
<1>4. CASE call[c].pc # "idle" /\ call'[c].at = call[c].at /\ call'[c].saw = call[c].saw
  <2> DEFINE r == call[c].at
  <2>1. r \in Records /\ record[r].status # "pending"
    BY <1>1, <1>4, CallRow DEF QueueInv, QueueSeen
  <2>2. Effect(r) /\ record[r] \in RecordRow
    BY <1>1, <2>1, StatusTypes DEF Effects
  <2>3. \A to \in {"verified", "revoked", "adjudicated"} : Moved(record[r], to).status = to
    BY <1>1, <2>1, MovedStatus, StatusTypes
  <2> QED
    BY <1>4, <2>1, <2>2, <2>3
       DEF Effect, Kept, Resolved, Reviewed, Applied, Ruled, Corrected, Revoked, Target
<1> QED
  BY <1>1, <1>2, <1>3, <1>4 DEF CallStep, WentOn, GoesOn

LEMMA QueueCurrentNext ==
  ASSUME Inv, QueueInv, [Next]_vars
  PROVE  QueueCurrent'
<1> SUFFICES ASSUME Undisturbed', NEW c \in Calls, call'[c].pc # "idle",
                    call'[c].saw.status = "manual_verify_pending",
                    record'[call'[c].at].status = "manual_verify_pending"
             PROVE  record'[call'[c].at].version = call'[c].saw.version
  BY DEF QueueCurrent, Current, At
<1>1. Calm /\ CallStep(c) /\ TypeOK
  BY CalmStep, NextEffects DEF QueueInv, Inv, Calling
<1>2. CASE call'[c] = Idle
  BY <1>2 DEF Idle
<1>3. CASE Begun(c)
  BY <1>3 DEF Begun
<1>4. CASE call[c].pc # "idle" /\ call'[c].at = call[c].at /\ call'[c].saw = call[c].saw
  <2> DEFINE r == call[c].at
  <2>1. r \in Records /\ call[c].saw \in RecordRow
    BY <1>1, <1>4, CallRow
  <2>2. Fresh(call[c].saw, record[r])
    BY <1>4 DEF Inv, CallInv, Knows
  <2>3. CASE record'[r] = record[r]
    BY <1>1, <1>4, <2>1, <2>3 DEF QueueInv, QueueCurrent, Current, Calm
  <2>4. record[r].status # "pending"
    BY <1>4 DEF QueueInv, QueueSeen
  <2> QED
    BY <1>1, <1>4, <2>1, <2>3, <2>4 DEF Calm
<1> QED
  BY <1>1, <1>2, <1>3, <1>4 DEF CallStep, WentOn, GoesOn


LEMMA UndisturbedNext ==
  ASSUME Inv, QueueInv, [Next]_vars
  PROVE  UndisturbedReview'
<1> SUFFICES ASSUME Undisturbed', NEW r \in Records, manual'[r].status = "reviewed",
                    record'[r].status = "manual_verify_pending"
             PROVE  \E c \in Calls : call'[c].pc = "apply" /\ call'[c].at = r
  BY DEF UndisturbedReview, Applying, At
<1>1. Calm /\ TypeOK /\ ManualInv /\ LinkInv /\ Effect(r)
  BY CalmStep, NextEffects DEF QueueInv, Inv, Effects
<1>2. record[r].status # "pending"
  <2> SUFFICES ASSUME record[r].status = "pending" PROVE FALSE
    OBVIOUS
  <2>1. manual[r] = NoManual
    BY <1>1, ManualForms DEF LinkInv, Decisions
  <2>2. ~Reviewed(r)
    BY <2>1 DEF Reviewed, NoManual
  <2>3. manual'[r].status # "reviewed"
    BY <1>1, <2>1, <2>2 DEF Effect, Kept, Resolved, Routed, Applied, Ruled, Corrected, Revoked, NoManual
  <2> QED
    BY <2>3
<1>3. record'[r] = record[r]
  BY <1>1, <1>2 DEF Calm
<1>4. CASE manual'[r] = manual[r]
  <2>1. PICK c \in Calls : At(c, "apply") /\ call[c].at = r
    BY <1>1, <1>3, <1>4 DEF Calm, QueueInv, UndisturbedReview, Applying
  <2>2. CASE call'[c] = call[c]
    BY <2>1, <2>2 DEF At
  <2>3. CASE ApplyReview(c)
    <3>1. call[c].saw.status = "manual_verify_pending" /\ call[c].pc # "idle"
      BY <2>1 DEF Inv, CallInv, Knows, At
    <3>2. Current(c)
      BY <1>1, <1>3, <2>1, <3>1 DEF Calm, QueueInv, QueueCurrent
    <3>3. record'[r] = Moved(record[r], Target(call[c].choice))
      BY <1>1, <1>3, <2>1, <2>3, <3>2 DEF ApplyReview, TypeOK
    <3>4. Target(call[c].choice) \in {"verified", "revoked"}
      BY DEF Target
    <3>5. record'[r].status \in {"verified", "revoked"}
      BY <1>1, <3>3, <3>4, MovedStatus, StatusTypes
    <3> QED
      BY <3>5
  <2> QED
    BY <1>1, <2>1, <2>2, <2>3 DEF Calm
<1>5. CASE manual'[r] # manual[r]
  <2>1. PICK c \in Calls : ReviewManual(c) /\ call[c].at = r
    BY <1>1, <1>2, <1>5 DEF Calm
  <2>2. At(c, "review") /\ call' = [call EXCEPT ![c] = [call[c] EXCEPT !.pc = "apply"]]
    BY <1>5, <2>1 DEF ReviewManual
  <2>3. GoesOn(c, "apply")
    BY <1>1, <2>2, ContinuesReview
  <2> QED
    BY <2>1, <2>3 DEF GoesOn
<1> QED
  BY <1>4, <1>5

LEMMA InitQueue == Init => QueueInv
<1> SUFFICES ASSUME Init PROVE QueueInv
  OBVIOUS
<1>1. PaidInv
  BY BudgetAssumption DEF Init, PaidInv, At, Idle
<1>2. QueueSeen /\ QueueCurrent
  BY DEF Init, QueueSeen, QueueCurrent, Idle
<1>3. UndisturbedReview
  BY DEF Init, UndisturbedReview, NoManual
<1> QED
  BY <1>1, <1>2, <1>3 DEF QueueInv

(* As long as nobody corrects, no statement fails and no process dies, a    *)
(* reviewed record does not stay in the manual queue: the call that stored  *)
(* the review holds the record's current version until it moves it, however *)
(* many reviews, rulings and revocations run beside it.                     *)
THEOREM UndisturbedReviews == Spec => []UndisturbedReview
<1>1. Inv /\ QueueInv /\ [Next]_vars => QueueInv'
  <2> SUFFICES ASSUME Inv, QueueInv, [Next]_vars PROVE QueueInv'
    OBVIOUS
  <2> QED
    BY PaidNext, QueueSeenNext, QueueCurrentNext, UndisturbedNext DEF QueueInv
<1>2. QueueInv => UndisturbedReview
  BY DEF QueueInv
<1> QED
  BY <1>1, <1>2, InitQueue, Invariant, PTL DEF Spec

====================================================================================
