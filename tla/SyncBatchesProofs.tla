--------------------------- MODULE SyncBatchesProofs ---------------------------
(****************************************************************************)
(* Type correctness of SyncBatches, completeness of completed batches, the  *)
(* record transition table and exclusion by the lease, for every set of     *)
(* pollers and records and every bound.                                     *)
(****************************************************************************)
EXTENDS SyncBatches, TLAPS

PollerPC == Working \cup {"idle", "pending", "next", "fate", "dead"}

PollerRecord ==
  [pc : PollerPC, phase : {"pending", "due"}, todo : SUBSET Batches,
   counts : [Batches -> Nat], at : Batches \cup {0}, held : Nat,
   seen : [Records -> RecordRow]]

AtBatch == Working \cup {"fate", "dead"}

LEMMA PollerStateIs ==
  PollerState = {c \in PollerRecord : c.pc \in AtBatch => c.at \in Batches}
  BY DEF PollerState, PollerRecord, PollerPC, AtBatch

LEMMA BatchesAreNat == Batches \subseteq Nat /\ 0 \notin Batches
  BY NBatchesAssumption DEF Batches

LEMMA IdleType == Idle \in PollerState
  <1>1. NoRecord \in RecordRow
    BY DEF NoRecord, RecordRow, RecordStatus
  <1>2. Idle \in PollerRecord /\ Idle.pc = "idle"
    BY <1>1 DEF Idle, PollerRecord, PollerPC
  <1> QED
    BY <1>2, PollerStateIs DEF AtBatch, Working

LEMMA TypeInit == Init => TypeOK
  <1> SUFFICES ASSUME Init PROVE TypeOK
    OBVIOUS
  <1>1. batch \in [Batches -> BatchRow]
    <2>1. NoBatch \in BatchRow
      BY DEF NoBatch, BatchRow, LeaseStatus
    <2> QED
      BY <2>1 DEF Init
  <1>2. record \in [Records -> RecordRow]
    <2>1. NoRecord \in RecordRow
      BY DEF NoRecord, RecordRow, RecordStatus
    <2> QED
      BY <2>1 DEF Init
  <1>3. poll \in [Pollers -> PollerState]
    BY IdleType DEF Init
  <1> QED
    BY <1>1, <1>2, <1>3, BudgetAssumption DEF Init, TypeOK

LEMMA Update ==
  ASSUME NEW S, NEW T, NEW f \in [S -> T], NEW x, NEW v \in T
  PROVE  [f EXCEPT ![x] = v] \in [S -> T]
  OBVIOUS

(* The row an UPDATE of sync_batches leaves.                                *)
LEMMA MovedFields ==
  ASSUME NEW row \in BatchRow, NEW to \in SyncBatchStatus,
         NEW lease \in LeaseStatus
  PROVE  /\ Moved(row, to, lease) \in BatchRow
         /\ Moved(row, to, lease).status = to
         /\ Moved(row, to, lease).lease = lease
         /\ Moved(row, to, lease).version = row.version + 1
  <1> DEFINE v == row.version + 1
             new == [row EXCEPT !.status = to, !.lease = lease, !.version = v]
  <1>1. v \in Nat
    BY DEF BatchRow
  <1>2. Moved(row, to, lease) = new
    BY DEF Moved
  <1> HIDE DEF v
  <1>3. new \in BatchRow /\ new.status = to /\ new.lease = lease /\ new.version = v
    BY <1>1 DEF BatchRow
  <1> QED
    BY <1>2, <1>3 DEF v

--------------------------------------------------------------------------------
(* What the few ways to write poll do to it.                                *)

LEMMA GotoFields ==
  ASSUME TypeOK, NEW p \in Pollers, NEW pc \in PollerPC, Goto(p, pc),
         pc \in AtBatch => poll[p].at \in Batches
  PROVE  /\ poll' \in [Pollers -> PollerState]
         /\ poll'[p].pc = pc
         /\ poll'[p].at = poll[p].at /\ poll'[p].held = poll[p].held
         /\ poll'[p].seen = poll[p].seen /\ poll'[p].todo = poll[p].todo
         /\ \A q \in Pollers \ {p} : poll'[q] = poll[q]
  <1> DEFINE c == [poll[p] EXCEPT !.pc = pc]
  <1>1. poll[p] \in PollerRecord
    BY PollerStateIs DEF TypeOK
  <1>2. /\ c \in PollerRecord /\ c.pc = pc /\ c.at = poll[p].at /\ c.held = poll[p].held
        /\ c.seen = poll[p].seen /\ c.todo = poll[p].todo
    BY <1>1 DEF PollerRecord
  <1>3. c \in PollerState
    BY <1>2, PollerStateIs
  <1>4. poll' = [poll EXCEPT ![p] = c]
    BY DEF Goto
  <1> HIDE DEF c
  <1> QED
    BY <1>2, <1>3, <1>4 DEF TypeOK

LEMMA IdleFields ==
  ASSUME TypeOK, NEW p \in Pollers, poll' = [poll EXCEPT ![p] = Idle]
  PROVE  /\ poll' \in [Pollers -> PollerState]
         /\ poll'[p] = Idle
         /\ \A q \in Pollers \ {p} : poll'[q] = poll[q]
  BY IdleType DEF TypeOK

LEMMA ListFields ==
  ASSUME TypeOK, NEW p \in Pollers, NEW phase \in {"pending", "due"},
         NEW S \in SUBSET Batches, List(p, phase, S)
  PROVE  /\ poll' \in [Pollers -> PollerState]
         /\ poll'[p].pc = "next" /\ poll'[p].todo = S
         /\ \A q \in Pollers \ {p} : poll'[q] = poll[q]
  <1> DEFINE counts == [b \in Batches |-> batch[b].retry_count]
             c == [poll[p] EXCEPT !.pc = "next", !.phase = phase, !.todo = S, !.counts = counts]
  <1>1. poll[p] \in PollerRecord
    BY PollerStateIs DEF TypeOK
  <1>2. counts \in [Batches -> Nat]
    BY DEF TypeOK, BatchRow
  <1> HIDE DEF counts
  <1>3. "next" \in PollerPC
    BY DEF PollerPC
  <1>4. c \in PollerRecord /\ c.pc = "next" /\ c.todo = S
    BY <1>1, <1>2, <1>3 DEF PollerRecord
  <1>5. c \in PollerState
    BY <1>4, PollerStateIs DEF AtBatch, Working
  <1>6. poll' = [poll EXCEPT ![p] = c]
    BY DEF List, counts
  <1> HIDE DEF c
  <1> QED
    BY <1>4, <1>5, <1>6 DEF TypeOK

LEMMA BeginFields ==
  ASSUME TypeOK, NEW p \in Pollers, NEW b \in Batches, NEW pc \in PollerPC, Begin(p, b, pc)
  PROVE  /\ poll' \in [Pollers -> PollerState]
         /\ poll'[p].pc = pc /\ poll'[p].at = b /\ poll'[p].todo \subseteq poll[p].todo
         /\ \A q \in Pollers \ {p} : poll'[q] = poll[q]
  <1> DEFINE rest == poll[p].todo \ {b}
             c == [poll[p] EXCEPT !.pc = pc, !.at = b, !.todo = rest]
  <1>1. poll[p] \in PollerRecord
    BY PollerStateIs DEF TypeOK
  <1>2. rest \in SUBSET Batches /\ rest \subseteq poll[p].todo
    BY <1>1 DEF PollerRecord
  <1> HIDE DEF rest
  <1>3. c \in PollerRecord /\ c.pc = pc /\ c.at = b /\ c.todo = rest
    BY <1>1, <1>2 DEF PollerRecord
  <1>4. c \in PollerState
    BY <1>3, PollerStateIs
  <1>5. poll' = [poll EXCEPT ![p] = c]
    BY DEF Begin, rest
  <1> HIDE DEF c
  <1> QED
    BY <1>2, <1>3, <1>4, <1>5 DEF TypeOK

LEMMA ReadLeaseFields ==
  ASSUME TypeOK, NEW p \in Pollers, ReadLease(p)
  PROVE  /\ poll[p].at \in Batches
         /\ poll' \in [Pollers -> PollerState]
         /\ poll'[p].pc = "list" /\ poll'[p].at = poll[p].at
         /\ poll'[p].held = batch[poll[p].at].version /\ poll'[p].todo = poll[p].todo
         /\ \A q \in Pollers \ {p} : poll'[q] = poll[q]
  <1> DEFINE v == batch[poll[p].at].version
             c == [poll[p] EXCEPT !.pc = "list", !.held = v]
  <1>1. poll[p] \in PollerRecord /\ poll[p].at \in Batches
    BY PollerStateIs DEF TypeOK, ReadLease, AtBatch, Working
  <1>2. v \in Nat
    BY <1>1 DEF TypeOK, BatchRow
  <1>3. "list" \in PollerPC
    BY DEF PollerPC, Working
  <1> HIDE DEF v
  <1>4. /\ c \in PollerRecord /\ c.pc = "list" /\ c.at = poll[p].at /\ c.held = v
        /\ c.todo = poll[p].todo
    BY <1>1, <1>2, <1>3 DEF PollerRecord
  <1>5. c \in PollerState
    BY <1>1, <1>4, PollerStateIs
  <1>6. poll' = [poll EXCEPT ![p] = c]
    BY DEF ReadLease, v
  <1> HIDE DEF c
  <1> QED
    BY <1>1, <1>4, <1>5, <1>6 DEF TypeOK, v

LEMMA ListRecordsFields ==
  ASSUME TypeOK, NEW p \in Pollers, ListRecords(p)
  PROVE  /\ poll' \in [Pollers -> PollerState]
         /\ poll'[p].pc = "resolve" /\ poll'[p].at = poll[p].at /\ poll'[p].seen = record
         /\ poll'[p].held = poll[p].held /\ poll'[p].todo = poll[p].todo
         /\ \A q \in Pollers \ {p} : poll'[q] = poll[q]
  <1> DEFINE c == [poll[p] EXCEPT !.pc = "resolve", !.seen = record]
  <1>1. poll[p] \in PollerRecord /\ poll[p].at \in Batches /\ record \in [Records -> RecordRow]
    BY PollerStateIs DEF TypeOK, ListRecords, AtBatch, Working
  <1>2. "resolve" \in PollerPC
    BY DEF PollerPC, Working
  <1>3. /\ c \in PollerRecord /\ c.pc = "resolve" /\ c.at = poll[p].at /\ c.seen = record
        /\ c.held = poll[p].held /\ c.todo = poll[p].todo
    BY <1>1, <1>2 DEF PollerRecord
  <1>4. c \in PollerState
    BY <1>1, <1>3, PollerStateIs
  <1>5. poll' = [poll EXCEPT ![p] = c]
    BY DEF ListRecords
  <1> HIDE DEF c
  <1> QED
    BY <1>3, <1>4, <1>5 DEF TypeOK

(* Names of positions that the steps below go to.                           *)
LEMMA Positions ==
  /\ {"pending", "next", "fate", "dead", "idle", "leased", "list", "resolve", "release",
      "finish"} \subseteq PollerPC
  /\ AtBatch = {"leased", "list", "resolve", "release", "finish", "fate", "dead"}
  BY DEF PollerPC, AtBatch, Working

LEMMA AtType ==
  ASSUME TypeOK, NEW p \in Pollers, poll[p].pc \in AtBatch
  PROVE  poll[p].at \in Batches
  BY PollerStateIs DEF TypeOK

LEMMA NextType ==
  ASSUME TypeOK, NEW p \in Pollers
  PROVE  poll[p].pc \in PollerPC /\ poll[p].todo \subseteq Batches /\ poll[p].held \in Nat
  BY PollerStateIs DEF TypeOK, PollerRecord

--------------------------------------------------------------------------------
(* Every step preserves the types.                                          *)

LEMMA BatchUpdate ==
  ASSUME TypeOK, NEW b \in Batches, NEW to \in SyncBatchStatus,
         NEW lease \in LeaseStatus,
         batch' = [batch EXCEPT ![b] = Moved(batch[b], to, lease)]
  PROVE  /\ batch' \in [Batches -> BatchRow]
         /\ batch'[b].status = to /\ batch'[b].lease = lease
         /\ batch'[b].version = batch[b].version + 1
         /\ \A c \in Batches \ {b} : batch'[c] = batch[c]
  BY MovedFields DEF TypeOK

(* A retry or a dead letter also sets next_retry_at, and keeps the lease.   *)
LEMMA FateRows ==
  ASSUME NEW row \in BatchRow
  PROVE  /\ Postponed(row) \in BatchRow /\ Postponed(row).status = "failed"
         /\ Postponed(row).version = row.version + 1
         /\ Dead(row) \in BatchRow /\ Dead(row).status = "permanent_failure"
         /\ Dead(row).version = row.version + 1
  <1> DEFINE m == Moved(row, "failed", row.lease)
             d == Moved(row, "permanent_failure", row.lease)
             n == row.retry_count + 1
  <1>1. row.lease \in LeaseStatus /\ n \in Nat
    BY DEF BatchRow
  <1>2. "failed" \in SyncBatchStatus /\ "permanent_failure" \in SyncBatchStatus
    BY DEF SyncBatchStatus
  <1>3. m \in BatchRow /\ m.status = "failed" /\ m.version = row.version + 1
    BY <1>1, <1>2, MovedFields
  <1>7. d \in BatchRow /\ d.status = "permanent_failure" /\ d.version = row.version + 1
    BY <1>1, <1>2, MovedFields
  <1>4. /\ Postponed(row) = [m EXCEPT !.retry_count = n, !.next_retry = "waiting"]
        /\ Dead(row) = [d EXCEPT !.next_retry = "none"]
    BY DEF Postponed, Dead
  <1> HIDE DEF m, d, n
  <1>5. /\ Postponed(row) \in BatchRow /\ Postponed(row).status = m.status
        /\ Postponed(row).version = m.version
    BY <1>1, <1>3, <1>4 DEF BatchRow
  <1>6. /\ Dead(row) \in BatchRow /\ Dead(row).status = d.status
        /\ Dead(row).version = d.version
    BY <1>4, <1>7 DEF BatchRow
  <1> QED
    BY <1>3, <1>5, <1>6, <1>7

LEMMA BumpFields ==
  ASSUME TypeOK, NEW p \in Pollers, BumpBatchRetry(p)
  PROVE  /\ batch' \in [Batches -> BatchRow]
         /\ \A c \in Batches \ {poll[p].at} : batch'[c] = batch[c]
         /\ \/ batch' = batch
            \/ /\ batch'[poll[p].at].status = "failed"
               /\ batch[poll[p].at].status # "none"
               /\ batch'[poll[p].at].version = batch[poll[p].at].version + 1
  <1>1. poll[p].at \in Batches
    BY AtType, Positions DEF BumpBatchRetry
  <1>2. CASE batch[poll[p].at].status \in {"processing", "failed", "leasing"}
    <2>1. batch' = [batch EXCEPT ![poll[p].at] = Postponed(batch[poll[p].at])]
      BY <1>2 DEF BumpBatchRetry
    <2> QED
      BY <1>1, <1>2, <2>1, FateRows DEF TypeOK
  <1>3. CASE batch[poll[p].at].status \notin {"processing", "failed", "leasing"}
    BY <1>3 DEF BumpBatchRetry, TypeOK
  <1> QED
    BY <1>2, <1>3

LEMMA PermanentFields ==
  ASSUME TypeOK, NEW p \in Pollers, MarkBatchPermanent(p)
  PROVE  /\ batch' \in [Batches -> BatchRow]
         /\ \A c \in Batches \ {poll[p].at} : batch'[c] = batch[c]
         /\ batch'[poll[p].at].status = "permanent_failure"
         /\ batch'[poll[p].at].version = batch[poll[p].at].version + 1
  <1>1. poll[p].at \in Batches
    BY AtType, Positions DEF MarkBatchPermanent
  <1> QED
    BY <1>1, FateRows DEF MarkBatchPermanent, TypeOK

LEMMA ReclaimFields ==
  ASSUME TypeOK, NEW p \in Pollers, Reclaim(p)
  PROVE  /\ batch' \in [Batches -> BatchRow]
         /\ \A b \in Batches :
              \/ batch'[b] = batch[b]
              \/ /\ batch[b].status = "leasing" /\ batch[b].lease = "expired"
                 /\ batch'[b].status = "pending"
  <1> DEFINE row(b) == Moved(batch[b], "pending", "none")
  <1>0. "pending" \in SyncBatchStatus /\ "none" \in LeaseStatus
    BY DEF SyncBatchStatus, LeaseStatus
  <1>1. \A b \in Batches : row(b) \in BatchRow /\ row(b).status = "pending"
    BY <1>0, MovedFields DEF TypeOK
  <1>2. \A b \in Batches : batch'[b] = IF batch[b].status = "leasing" /\ batch[b].lease = "expired"
                                      THEN row(b) ELSE batch[b]
    BY DEF Reclaim
  <1>3. batch' = [b \in Batches |-> batch'[b]]
    BY DEF Reclaim
  <1> HIDE DEF row
  <1>4. \A b \in Batches : batch'[b] \in BatchRow
    BY <1>1, <1>2 DEF TypeOK
  <1> QED
    BY <1>1, <1>2, <1>3, <1>4

LEMMA StoreFields ==
  ASSUME TypeOK, StoreBatch
  PROVE  /\ batch' \in [Batches -> BatchRow]
         /\ record' \in [Records -> RecordRow]
         /\ \/ UNCHANGED <<batch, record>>
            \/ \E b \in Batches :
                 /\ batch[b].status = "none" /\ batch'[b].status = "pending"
                 /\ \A c \in Batches \ {b} : batch'[c] = batch[c]
                 /\ \A r \in Records :
                      record'[r] = record[r] \/ (~Stored(r) /\ record'[r].batch = b)
  <1>1. PICK S \in (SUBSET Records) \ {{}}, b \in Batches :
          /\ batch[b].status = "none"
          /\ \/ UNCHANGED <<batch, record>>
             \/ /\ batch' = [batch EXCEPT ![b] = [NoBatch EXCEPT !.status = "pending", !.version = 1]]
                /\ record' = [r \in Records |->
                     IF r \in S /\ ~Stored(r)
                     THEN [batch |-> b, status |-> "pending", version |-> 1]
                     ELSE record[r]]
    BY DEF StoreBatch
  <1>2. CASE UNCHANGED <<batch, record>>
    BY <1>2 DEF TypeOK
  <1>3. CASE ~UNCHANGED <<batch, record>>
    <2> DEFINE new == [NoBatch EXCEPT !.status = "pending", !.version = 1]
               row == [batch |-> b, status |-> "pending", version |-> 1]
    <2>1. new \in BatchRow /\ new.status = "pending"
      BY DEF NoBatch, BatchRow, LeaseStatus, SyncBatchStatus
    <2>2. batch' = [batch EXCEPT ![b] = new]
      BY <1>1, <1>3
    <2>3. row \in RecordRow /\ row.batch = b
      BY DEF RecordRow, RecordStatus
    <2>4. record' = [r \in Records |-> IF r \in S /\ ~Stored(r) THEN row ELSE record[r]]
      BY <1>1, <1>3
    <2> HIDE DEF new, row
    <2>5. record' \in [Records -> RecordRow]
      BY <2>3, <2>4 DEF TypeOK
    <2> QED
      BY <1>1, <2>1, <2>2, <2>3, <2>4, <2>5 DEF TypeOK
  <1> QED
    BY <1>2, <1>3

LEMMA JudgedFields ==
  ASSUME NEW row \in RecordRow, NEW to \in RecordStatus
  PROVE  /\ Judged(row, to) \in RecordRow /\ Judged(row, to).batch = row.batch
         /\ Judged(row, to).status = to
         /\ Judged(row, to).version = row.version + 1
         /\ Judged(row, to).version > row.version
  <1> DEFINE v == row.version + 1
  <1>1. v \in Nat /\ v > row.version
    BY DEF RecordRow
  <1>2. Judged(row, to) = [row EXCEPT !.status = to, !.version = v]
    BY DEF Judged
  <1> HIDE DEF v
  <1>3. /\ Judged(row, to) \in RecordRow /\ Judged(row, to).batch = row.batch
        /\ Judged(row, to).status = to /\ Judged(row, to).version = v
    BY <1>1, <1>2 DEF RecordRow
  <1> QED
    BY <1>1, <1>3 DEF v

LEMMA ResolveFields ==
  ASSUME TypeOK, NEW p \in Pollers, ResolveRecords(p)
  PROVE  /\ record' \in [Records -> RecordRow]
         /\ \A r \in Unresolved(p) :
              /\ record[r].version = poll[p].seen[r].version
              /\ record'[r].batch = record[r].batch
              /\ record'[r].version > record[r].version
              /\ record'[r].status \in Verdicts
         /\ \A r \in Records \ Unresolved(p) : record'[r] = record[r]
  <1>1. PICK verdict \in [Unresolved(p) -> Verdicts] :
          /\ \A r \in Unresolved(p) : Resolvable(p, r, verdict[r])
          /\ record' = [r \in Records |->
               IF r \in Unresolved(p) THEN Judged(record[r], verdict[r]) ELSE record[r]]
    BY DEF ResolveRecords
  <1>2. Unresolved(p) \subseteq Records
    BY DEF Unresolved
  <1>3. \A r \in Unresolved(p) : verdict[r] \in Verdicts /\ verdict[r] \in RecordStatus
    BY DEF Verdicts, RecordStatus
  <1>4. \A r \in Unresolved(p) :
          /\ Judged(record[r], verdict[r]) \in RecordRow
          /\ Judged(record[r], verdict[r]).batch = record[r].batch
          /\ Judged(record[r], verdict[r]).version > record[r].version
          /\ Judged(record[r], verdict[r]).status = verdict[r]
    BY <1>2, <1>3, JudgedFields DEF TypeOK
  <1>5. \A r \in Records : record[r] \in RecordRow
    BY DEF TypeOK
  <1>6. record' \in [Records -> RecordRow]
    BY <1>1, <1>4, <1>5
  <1>7. \A r \in Unresolved(p) : record[r].version = poll[p].seen[r].version
    BY <1>1 DEF Resolvable
  <1>8. \A r \in Unresolved(p) : record'[r] = Judged(record[r], verdict[r])
    BY <1>1, <1>2
  <1>9. \A r \in Records \ Unresolved(p) : record'[r] = record[r]
    BY <1>1
  <1> QED
    BY <1>3, <1>4, <1>6, <1>7, <1>8, <1>9

(* What a correction, revocation, adjudication or verification does.        *)
LEMMA StaffFields ==
  ASSUME TypeOK, NEW r \in Records, CorrectRecord(r) \/ ReviewRecord(r)
  PROVE  /\ record' \in [Records -> RecordRow]
         /\ \A q \in Records \ {r} : record'[q] = record[q]
         /\ Stored(r) /\ record'[r].batch = record[r].batch
         /\ record'[r].version > record[r].version
         /\ AssertTransition(recordTransitions, record[r].status, record'[r].status)
         /\ record'[r].status = "pending" => record[r].status = "pending"
  <1>0. record[r] \in RecordRow /\ record[r].status \in RecordStatus
        /\ record[r].version \in Nat
    BY DEF TypeOK, RecordRow
  <1>1. PICK row \in RecordRow :
          /\ record' = [record EXCEPT ![r] = row]
          /\ row.batch = record[r].batch
          /\ row.version > record[r].version
          /\ row.status = record[r].status \/ row.status \in recordTransitions[record[r].status]
          /\ row.status = "pending" => record[r].status = "pending"
    <2>1. CASE CorrectRecord(r) /\ record[r].status = "accepted"
      <3> DEFINE a == Judged(record[r], "accepted")
                 row == Judged(a, "verified")
      <3>1. "accepted" \in RecordStatus /\ "verified" \in RecordStatus
        BY DEF RecordStatus
      <3>2. a \in RecordRow /\ a.batch = record[r].batch /\ a.version > record[r].version
        BY <1>0, <3>1, JudgedFields
      <3>3. /\ row \in RecordRow /\ row.batch = a.batch /\ row.version > a.version
            /\ row.status = "verified"
        BY <3>1, <3>2, JudgedFields
      <3>4. record' = [record EXCEPT ![r] = row]
        BY <2>1 DEF CorrectRecord
      <3>5. a.version \in Nat /\ row.version \in Nat
        BY <3>2, <3>3 DEF RecordRow
      <3>6. "verified" \in recordTransitions["accepted"]
        BY DEF recordTransitions, RecordStatus
      <3> HIDE DEF a, row
      <3>7. row.version > record[r].version
        BY <1>0, <3>2, <3>3, <3>5
      <3> QED
        BY <2>1, <3>2, <3>3, <3>4, <3>6, <3>7
    <2>2. CASE CorrectRecord(r) /\ record[r].status # "accepted"
      <3>1. record' = [record EXCEPT ![r] = Judged(record[r], record[r].status)]
        BY <2>2 DEF CorrectRecord
      <3> DEFINE row == Judged(record[r], record[r].status)
      <3>2. /\ row \in RecordRow /\ row.batch = record[r].batch
            /\ row.version > record[r].version /\ row.status = record[r].status
        BY <1>0, JudgedFields
      <3> HIDE DEF row
      <3> QED
        BY <3>1, <3>2 DEF row
    <2>3. CASE ReviewRecord(r)
      <3>1. PICK to \in {"revoked", "adjudicated", "verified"} :
              /\ to \in recordTransitions[record[r].status]
              /\ record' = [record EXCEPT ![r] = Judged(record[r], to)]
        BY <2>3 DEF ReviewRecord
      <3>2. to \in RecordStatus /\ to # "pending"
        BY DEF RecordStatus
      <3> QED
        BY <1>0, <3>1, <3>2, JudgedFields
    <2> QED
      BY <2>1, <2>2, <2>3
  <1>2. Stored(r)
    BY DEF CorrectRecord, ReviewRecord
  <1> QED
    BY <1>1, <1>2 DEF TypeOK, AssertTransition

LEMMA LeaseFields ==
  ASSUME TypeOK, NEW p \in Pollers, AcquireLease(p)
  PROVE  \E b \in Batches :
           /\ Takes(p, b)
           /\ \/ /\ batch[b].status = "pending" /\ Begin(p, b, "leased")
                 /\ batch' \in [Batches -> BatchRow]
                 /\ batch'[b].status = "leasing" /\ batch'[b].lease = "live"
                 /\ \A c \in Batches \ {b} : batch'[c] = batch[c]
              \/ batch' = batch /\ Begin(p, b, "next")
  <1>1. "leasing" \in SyncBatchStatus /\ "live" \in LeaseStatus
    BY DEF SyncBatchStatus, LeaseStatus
  <1>2. PICK b \in Batches :
          /\ Takes(p, b)
          /\ \/ Leasable(b)  /\ Lease(b) /\ Begin(p, b, "leased")
             \/ ~Leasable(b) /\ UNCHANGED batch /\ Begin(p, b, "next")
    BY DEF AcquireLease
  <1>3. CASE Leasable(b)  /\ Lease(b) /\ Begin(p, b, "leased")
    <2>1. batch' = [batch EXCEPT ![b] = Moved(batch[b], "leasing", "live")]
      BY <1>3 DEF Lease
    <2>2. /\ batch' \in [Batches -> BatchRow]
          /\ batch'[b].status = "leasing" /\ batch'[b].lease = "live"
          /\ \A c \in Batches \ {b} : batch'[c] = batch[c]
      BY <1>1, <2>1, MovedFields DEF TypeOK
    <2>3. batch[b].status = "pending" /\ Begin(p, b, "leased")
      BY <1>3 DEF Leasable
    <2> QED
      BY <1>2, <2>2, <2>3
  <1>4. CASE ~Leasable(b) /\ UNCHANGED batch /\ Begin(p, b, "next")
    BY <1>2, <1>4
  <1> QED
    BY <1>2, <1>3, <1>4

LEMMA ReleaseFields ==
  ASSUME TypeOK, NEW p \in Pollers, ReleaseLease(p)
  PROVE  /\ batch' \in [Batches -> BatchRow]
         /\ \A c \in Batches \ {poll[p].at} : batch'[c] = batch[c]
         /\ \/ batch' = batch
            \/ /\ batch[poll[p].at].status = "leasing"
               /\ batch'[poll[p].at].status = "pending"
  <1>1. poll[p].at \in Batches
    BY AtType, Positions DEF ReleaseLease
  <1>2. "pending" \in SyncBatchStatus /\ "none" \in LeaseStatus
    BY DEF SyncBatchStatus, LeaseStatus
  <1>3. CASE batch[poll[p].at].status = "leasing"
    BY <1>1, <1>2, <1>3, BatchUpdate DEF ReleaseLease
  <1>4. CASE batch[poll[p].at].status # "leasing"
    BY <1>4 DEF ReleaseLease, TypeOK
  <1> QED
    BY <1>3, <1>4

LEMMA CompleteFields ==
  ASSUME TypeOK, NEW p \in Pollers, CompleteBatch(p)
  PROVE  /\ batch' \in [Batches -> BatchRow]
         /\ \A c \in Batches \ {poll[p].at} : batch'[c] = batch[c]
         /\ \/ batch' = batch /\ Goto(p, "fate")
            \/ /\ batch[poll[p].at].version = poll[p].held
               /\ batch'[poll[p].at].status = "completed"
               /\ batch'[poll[p].at].version = batch[poll[p].at].version + 1
               /\ Goto(p, "next")
  <1>1. poll[p].at \in Batches
    BY AtType, Positions DEF CompleteBatch
  <1>2. "completed" \in SyncBatchStatus /\ batch[poll[p].at].lease \in LeaseStatus
    BY <1>1 DEF SyncBatchStatus, TypeOK, BatchRow
  <1>3. CASE batch[poll[p].at].version = poll[p].held
    BY <1>1, <1>2, <1>3, BatchUpdate DEF CompleteBatch
  <1>4. CASE batch[poll[p].at].version # poll[p].held
    BY <1>4 DEF CompleteBatch, TypeOK
  <1> QED
    BY <1>3, <1>4

(* Time changes a batch's lease and next_retry_at, and nothing else.        *)
LEMMA TimeFields ==
  ASSUME TypeOK, NEW b \in Batches, LeaseExpires(b) \/ RetryFallsDue(b)
  PROVE  /\ batch' \in [Batches -> BatchRow]
         /\ \A c \in Batches \ {b} : batch'[c] = batch[c]
         /\ batch'[b].status = batch[b].status
         /\ batch'[b].version = batch[b].version
  <1>1. batch[b] \in BatchRow
    BY DEF TypeOK
  <1>2. CASE LeaseExpires(b)
    <2> DEFINE row == [batch[b] EXCEPT !.lease = "expired"]
    <2>1. batch' = [batch EXCEPT ![b] = row]
      BY <1>2 DEF LeaseExpires
    <2>2. row \in BatchRow /\ row.status = batch[b].status /\ row.version = batch[b].version
      BY <1>1 DEF BatchRow, LeaseStatus
    <2> HIDE DEF row
    <2> QED
      BY <2>1, <2>2 DEF TypeOK
  <1>3. CASE RetryFallsDue(b)
    <2> DEFINE row == [batch[b] EXCEPT !.next_retry = "due"]
    <2>1. batch' = [batch EXCEPT ![b] = row]
      BY <1>3 DEF RetryFallsDue
    <2>2. row \in BatchRow /\ row.status = batch[b].status /\ row.version = batch[b].version
      BY <1>1 DEF BatchRow
    <2> HIDE DEF row
    <2> QED
      BY <2>1, <2>2 DEF TypeOK
  <1> QED
    BY <1>2, <1>3

(* A statement that fails only moves its poller.                            *)
LEMMA FailsFields ==
  ASSUME TypeOK, NEW p \in Pollers, StatementFails(p)
  PROVE  /\ poll' \in [Pollers -> PollerState]
         /\ poll'[p].todo \subseteq poll[p].todo
         /\ \/ poll'[p].pc \in {"pending", "idle", "next"}
            \/ /\ poll[p].pc = "next" /\ poll'[p].pc = "fate"
               /\ poll'[p].at \in poll[p].todo
            \/ /\ poll[p].pc \in AtBatch /\ poll'[p].pc \in {"release", "fate", "dead"}
               /\ poll'[p].at = poll[p].at /\ poll'[p].held = poll[p].held
               /\ poll'[p].pc = "release" => poll[p].pc = "list"
         /\ \A q \in Pollers \ {p} : poll'[q] = poll[q]
  <1>1. CASE poll[p].pc = "idle" /\ Goto(p, "pending")
    BY <1>1, GotoFields, Positions
  <1>2. CASE poll[p].pc = "pending" /\ List(p, "pending", {})
    BY <1>2, ListFields
  <1>3. CASE poll' = [poll EXCEPT ![p] = Idle]
    BY <1>3, IdleFields DEF Idle
  <1>4. CASE \E b \in Batches : Takes(p, b) /\ Begin(p, b, "fate")
    BY <1>4, BeginFields, Positions DEF Takes
  <1>5. CASE poll[p].pc = "list" /\ Goto(p, "release")
    BY <1>5, GotoFields, AtType, Positions
  <1>6. CASE poll[p].pc \in {"leased", "release", "finish"} /\ Goto(p, "fate")
    BY <1>6, GotoFields, AtType, Positions
  <1>7. CASE poll[p].pc = "fate" /\ Goto(p, IF OutOfRetries(p) THEN "dead" ELSE "next")
    <2>1. CASE Goto(p, "dead")
      BY <1>7, <2>1, GotoFields, AtType, Positions
    <2>2. CASE Goto(p, "next")
      BY <1>7, <2>2, GotoFields, AtType, Positions
    <2> QED
      BY <1>7, <2>1, <2>2
  <1>8. CASE poll[p].pc = "dead" /\ Goto(p, "next")
    BY <1>8, GotoFields, AtType, Positions
  <1> QED
    BY <1>1, <1>2, <1>3, <1>4, <1>5, <1>6, <1>7, <1>8 DEF StatementFails

LEMMA TypeNext == TypeOK /\ [Next]_vars => TypeOK'
  <1> SUFFICES ASSUME TypeOK, [Next]_vars PROVE TypeOK'
    OBVIOUS
  <1>1. budget' \in [Events -> Nat]
    <2>1. ASSUME NEW e, Spend(e) PROVE budget' \in [Events -> Nat]
      <3>1. CASE e \in Events
        <4>1. budget[e] \in Nat /\ budget[e] > 0
          BY <2>1, <3>1 DEF Spend, TypeOK
        <4>2. budget[e] - 1 \in Nat
          BY <4>1
        <4> QED
          BY <2>1, <4>2 DEF Spend, TypeOK
      <3>2. CASE e \notin Events
        BY <2>1, <3>2 DEF Spend, TypeOK
      <3> QED
        BY <3>1, <3>2
    <2>2. \/ UNCHANGED budget
          \/ \E e : Spend(e)
      <3>1. CASE UNCHANGED vars
        BY <3>1 DEF vars
      <3>2. ASSUME NEW p \in Pollers, Tick(p) \/ Restart(p)
            PROVE  UNCHANGED budget \/ \E e : Spend(e)
        BY <3>2 DEF Tick, Restart, Reclaim, ListPending, ListRetryDue, EndTick, AcquireLease,
             ReadLease, ListRecords, ResolveRecords, ResolveFails, ReleaseLease, CompleteBatch,
             BumpBatchRetry, MarkBatchPermanent, RecordFailure, StatementFails
      <3>3. CASE Environment
        BY <3>3 DEF Environment, CheckOrder, StoreBatch, AbortOrder, LeaseExpires, RetryFallsDue,
             RequeueFailure, CorrectRecord, ReviewRecord
      <3> QED
        BY <3>1, <3>2, <3>3 DEF Next
    <2> QED
      BY <2>1, <2>2 DEF TypeOK
  <1>2. ASSUME batch' \in [Batches -> BatchRow], record' \in [Records -> RecordRow],
               poll' \in [Pollers -> PollerState],
               UNCHANGED <<open, intake, failure>>
        PROVE  TypeOK'
    BY <1>1, <1>2 DEF TypeOK
  <1>3. CASE UNCHANGED vars
    BY <1>3 DEF vars, rows, TypeOK
  <1>4. ASSUME NEW p \in Pollers, Tick(p) PROVE TypeOK'
    <2>1. CASE Reclaim(p)
      BY <1>2, <2>1, ReclaimFields, GotoFields, Positions DEF Reclaim, TypeOK
    <2>2. CASE ListPending(p)
      <3>1. Newest({b \in Batches : batch[b].status = "pending"}) \in SUBSET Batches
        BY DEF Newest
      <3> QED
        BY <1>2, <2>2, <3>1, ListFields DEF ListPending, rows, TypeOK
    <2>3. CASE ListRetryDue(p)
      <3>1. {b \in Batches : batch[b].status = "failed" /\ batch[b].next_retry = "due"}
              \in SUBSET Batches
        OBVIOUS
      <3> QED
        BY <1>2, <2>3, <3>1, ListFields DEF ListRetryDue, rows, TypeOK
    <2>4. CASE EndTick(p)
      BY <1>2, <2>4, IdleFields DEF EndTick, rows, TypeOK
    <2>5. CASE AcquireLease(p)
      BY <1>2, <2>5, LeaseFields, BeginFields, Positions DEF AcquireLease, TypeOK
    <2>6. CASE ReadLease(p)
      BY <1>2, <2>6, ReadLeaseFields DEF ReadLease, rows, TypeOK
    <2>7. CASE ListRecords(p)
      BY <1>2, <2>7, ListRecordsFields DEF ListRecords, rows, TypeOK
    <2>8. CASE ResolveRecords(p)
      BY <1>2, <2>8, ResolveFields, GotoFields, AtType, Positions DEF ResolveRecords, TypeOK
    <2>9. CASE ResolveFails(p)
      BY <1>2, <2>9, GotoFields, AtType, Positions DEF ResolveFails, rows, TypeOK
    <2>10. CASE ReleaseLease(p)
      BY <1>2, <2>10, ReleaseFields, GotoFields, AtType, Positions DEF ReleaseLease, TypeOK
    <2>11. CASE CompleteBatch(p)
      BY <1>2, <2>11, CompleteFields, GotoFields, AtType, Positions DEF CompleteBatch, TypeOK
    <2>12. CASE BumpBatchRetry(p)
      BY <1>2, <2>12, BumpFields, GotoFields, AtType, Positions DEF BumpBatchRetry, TypeOK
    <2>13. CASE MarkBatchPermanent(p)
      BY <1>2, <2>13, PermanentFields, GotoFields, AtType, Positions
         DEF MarkBatchPermanent, TypeOK
    <2>14. CASE RecordFailure(p)
      BY <1>1, <2>14, GotoFields, AtType, Positions DEF RecordFailure, TypeOK
    <2>15. CASE StatementFails(p)
      BY <1>2, <2>15, FailsFields DEF StatementFails, rows, TypeOK
    <2> QED
      BY <1>4, <2>1, <2>2, <2>3, <2>4, <2>5, <2>6, <2>7, <2>8, <2>9, <2>10, <2>11, <2>12,
         <2>13, <2>14, <2>15 DEF Tick
  <1>5. ASSUME NEW p \in Pollers, Restart(p) PROVE TypeOK'
    BY <1>2, <1>5, IdleFields DEF Restart, rows, TypeOK
  <1>6. CASE Environment
    <2>1. CASE CheckOrder
      BY <1>1, <2>1 DEF CheckOrder, TypeOK
    <2>2. CASE StoreBatch
      <3>1. intake' \in Nat /\ UNCHANGED <<open, failure, poll>>
        BY <2>2 DEF StoreBatch, TypeOK
      <3> QED
        BY <1>1, <2>2, <3>1, StoreFields DEF TypeOK
    <2>3. CASE AbortOrder
      BY <1>1, <2>3 DEF AbortOrder, TypeOK
    <2>4. ASSUME NEW b \in Batches, LeaseExpires(b) \/ RetryFallsDue(b) PROVE TypeOK'
      BY <1>2, <2>4, TimeFields DEF LeaseExpires, RetryFallsDue, TypeOK
    <2>5. ASSUME NEW b \in Batches, RequeueFailure(b) PROVE TypeOK'
      BY <1>1, <2>5 DEF RequeueFailure, TypeOK
    <2>6. ASSUME NEW r \in Records, CorrectRecord(r) \/ ReviewRecord(r) PROVE TypeOK'
      BY <1>2, <2>6, StaffFields DEF CorrectRecord, ReviewRecord, TypeOK
    <2> QED
      BY <1>6, <2>1, <2>2, <2>3, <2>4, <2>5, <2>6 DEF Environment
  <1> QED
    BY <1>3, <1>4, <1>5, <1>6 DEF Next

(* Every row and every captured value keeps its type, whatever pollers,     *)
(* reviewers and failing statements do.                                     *)
THEOREM TypeCorrect == Spec => []TypeOK
  BY TypeInit, TypeNext, PTL DEF Spec

--------------------------------------------------------------------------------
(* What any step does to one row, whoever takes it.                         *)

(* A poller, once it is at a batch, stays there; the batches it goes to are *)
(* ones it has listed; what it resolves is what it has just listed.         *)
Moves(p) ==
  /\ \A b \in poll'[p].todo : b \in poll[p].todo \/ batch[b].status # "none"
  /\ poll'[p].pc \in AtBatch =>
       \/ poll[p].pc \in AtBatch /\ poll'[p].at = poll[p].at
       \/ poll'[p].at \in poll[p].todo
  /\ poll'[p].pc = "resolve" =>
       poll'[p].at = poll[p].at /\ poll'[p].seen = record /\ record' = record
  /\ poll'[p].pc = "finish" => poll'[p].at = poll[p].at /\ ResolveRecords(p)

LEMMA PollStep ==
  ASSUME TypeOK, [Next]_vars, NEW q \in Pollers
  PROVE  poll'[q] = poll[q] \/ Moves(q)
  <1>1. ASSUME NEW p \in Pollers, Tick(p) \/ Restart(p)
        PROVE  (\A o \in Pollers \ {p} : poll'[o] = poll[o]) /\ Moves(p)
    <2>1. CASE Reclaim(p)
      <3>1. Goto(p, "pending")
        BY <2>1 DEF Reclaim
      <3> QED
        BY <3>1, GotoFields, Positions DEF Moves
    <2>2. CASE ListPending(p)
      <3>1. /\ Newest({b \in Batches : batch[b].status = "pending"}) \in SUBSET Batches
            /\ \A b \in Newest({b \in Batches : batch[b].status = "pending"}) : batch[b].status # "none"
        BY DEF Newest
      <3> QED
        BY <2>2, <3>1, ListFields, Positions DEF ListPending, Moves
    <2>3. CASE ListRetryDue(p)
      <3> DEFINE S == {b \in Batches : batch[b].status = "failed" /\ batch[b].next_retry = "due"}
      <3>1. S \in SUBSET Batches /\ \A b \in S : batch[b].status # "none"
        OBVIOUS
      <3>2. List(p, "due", S)
        BY <2>3 DEF ListRetryDue
      <3> HIDE DEF S
      <3> QED
        BY <3>1, <3>2, ListFields, Positions DEF Moves
    <2>4. CASE poll' = [poll EXCEPT ![p] = Idle]
      BY <2>4, IdleFields, Positions DEF Idle, Moves
    <2>5. CASE AcquireLease(p)
      <3>1. PICK b \in Batches : Takes(p, b) /\ (Begin(p, b, "leased") \/ Begin(p, b, "next"))
        BY <2>5, LeaseFields
      <3>2. b \in poll[p].todo
        BY <3>1 DEF Takes
      <3> QED
        BY <3>1, <3>2, BeginFields, Positions DEF Moves
    <2>6. CASE ReadLease(p)
      BY <2>6, ReadLeaseFields, Positions DEF ReadLease, Moves
    <2>7. CASE ListRecords(p)
      BY <2>7, ListRecordsFields, Positions DEF ListRecords, rows, Moves
    <2>8. CASE ResolveRecords(p)
      <3>1. Goto(p, "finish") /\ poll[p].pc = "resolve" /\ poll[p].at \in Batches
        BY <2>8, AtType, Positions DEF ResolveRecords
      <3> QED
        BY <2>8, <3>1, GotoFields, Positions DEF Moves
    <2>9. ASSUME NEW pc \in {"release", "fate", "next", "dead"}, Goto(p, pc),
                 poll[p].pc \in AtBatch
          PROVE  (\A o \in Pollers \ {p} : poll'[o] = poll[o]) /\ Moves(p)
      BY <2>9, GotoFields, AtType, Positions DEF Moves
    <2>10. CASE ResolveFails(p) \/ ReleaseLease(p) \/ BumpBatchRetry(p) \/ MarkBatchPermanent(p)
                \/ RecordFailure(p)
      BY <2>9, <2>10, Positions
         DEF ResolveFails, ReleaseLease, BumpBatchRetry, MarkBatchPermanent, RecordFailure
    <2>11. CASE CompleteBatch(p)
      BY <2>9, <2>11, CompleteFields, Positions DEF CompleteBatch
    <2>12. CASE StatementFails(p)
      BY <2>12, FailsFields, Positions DEF Moves
    <2> QED
      BY <1>1, <2>1, <2>2, <2>3, <2>4, <2>5, <2>6, <2>7, <2>8, <2>10, <2>11, <2>12
         DEF Tick, EndTick, Restart
  <1>2. CASE Environment
    BY <1>2 DEF Environment, CheckOrder, StoreBatch, AbortOrder, LeaseExpires, RetryFallsDue,
       RequeueFailure, CorrectRecord, ReviewRecord
  <1>3. CASE UNCHANGED vars
    BY <1>3 DEF vars
  <1> QED
    BY <1>1, <1>2, <1>3 DEF Next

(* A batch does not cease to exist, and only CompleteBatch completes it.    *)
LEMMA BatchStep ==
  ASSUME TypeOK, [Next]_vars, NEW b \in Batches
  PROVE  /\ batch[b].status # "none" => batch'[b].status # "none"
         /\ batch'[b].status = "completed" =>
              \/ batch[b].status = "completed"
              \/ \E p \in Pollers : poll[p].pc = "finish" /\ poll[p].at = b
  <1>1. ASSUME NEW p \in Pollers, Tick(p) \/ Restart(p)
        PROVE  /\ batch[b].status # "none" => batch'[b].status # "none"
               /\ batch'[b].status = "completed" =>
                    \/ batch[b].status = "completed"
                    \/ poll[p].pc = "finish" /\ poll[p].at = b
    <2>1. CASE Reclaim(p)
      BY <2>1, ReclaimFields
    <2>2. CASE AcquireLease(p)
      BY <2>2, LeaseFields
    <2>3. CASE ReleaseLease(p)
      BY <2>3, ReleaseFields
    <2>4. CASE CompleteBatch(p)
      <3>1. poll[p].pc = "finish"
        BY <2>4 DEF CompleteBatch
      <3> QED
        BY <2>4, <3>1, CompleteFields
    <2>5. CASE BumpBatchRetry(p)
      BY <2>5, BumpFields
    <2>6. CASE MarkBatchPermanent(p)
      BY <2>6, PermanentFields
    <2>7. CASE UNCHANGED batch
      BY <2>7
    <2> QED
      BY <1>1, <2>1, <2>2, <2>3, <2>4, <2>5, <2>6, <2>7
         DEF Tick, Restart, ListPending, ListRetryDue, EndTick, ReadLease, ListRecords,
             ResolveRecords, ResolveFails, RecordFailure, StatementFails, rows
  <1>2. CASE Environment
    <2>1. CASE StoreBatch
      BY <2>1, StoreFields
    <2>2. CASE \E c \in Batches : LeaseExpires(c) \/ RetryFallsDue(c)
      BY <2>2, TimeFields
    <2> QED
      BY <1>2, <2>1, <2>2
         DEF Environment, CheckOrder, AbortOrder, RequeueFailure, CorrectRecord, ReviewRecord
  <1>3. CASE UNCHANGED vars
    BY <1>3 DEF vars, rows
  <1> QED
    BY <1>1, <1>2, <1>3 DEF Next

--------------------------------------------------------------------------------
(* The inductive invariant: a poller resolves records that are no older     *)
(* than its list, all of its batch are on that list, and they are resolved  *)
(* when it goes on to complete the batch.                                   *)

Exists ==
  \A p \in Pollers :
    /\ poll[p].pc \in AtBatch => batch[poll[p].at].status # "none"
    /\ \A b \in poll[p].todo : batch[b].status # "none"

SeenHolds ==
  \A p \in Pollers : poll[p].pc = "resolve" =>
    \A r \in Records : LET was == poll[p].seen[r] IN
      /\ record[r].batch = poll[p].at => was.batch = poll[p].at
      /\ was.batch # 0 =>
           /\ record[r].batch = was.batch
           /\ was.version <= record[r].version
           /\ was.version = record[r].version => was.status = record[r].status
           /\ was.status # "pending" => record[r].status # "pending"

FinishHolds ==
  \A p \in Pollers : poll[p].pc = "finish" =>
    \A r \in InBatch(poll[p].at) : record[r].status # "pending"

Inv == TypeOK /\ Exists /\ SeenHolds /\ FinishHolds /\ CompletedIsComplete

(* Every write of a record either stores it in a batch that did not exist,  *)
(* or moves it along the table.                                             *)
LEMMA RecordStep ==
  ASSUME Inv, [Next]_vars, NEW r \in Records
  PROVE  \/ record'[r] = record[r]
         \/ /\ ~Stored(r)
            /\ record'[r].batch \in Batches
            /\ batch[record'[r].batch].status = "none"
            /\ batch'[record'[r].batch].status = "pending"
         \/ /\ Stored(r)
            /\ record'[r].batch = record[r].batch
            /\ record'[r].version > record[r].version
            /\ AssertTransition(recordTransitions, record[r].status, record'[r].status)
            /\ record'[r].status = "pending" => record[r].status = "pending"
  <1>1. ASSUME NEW p \in Pollers, ResolveRecords(p), r \in Unresolved(p)
        PROVE  /\ Stored(r)
               /\ record'[r].batch = record[r].batch
               /\ record'[r].version > record[r].version
               /\ AssertTransition(recordTransitions, record[r].status, record'[r].status)
               /\ record'[r].status # "pending"
    <2>1. /\ poll[p].pc = "resolve" /\ poll[p].at \in Batches /\ poll[p].at # 0
          /\ poll[p].seen[r].batch = poll[p].at /\ poll[p].seen[r].status = "pending"
      BY <1>1, AtType, Positions, BatchesAreNat DEF ResolveRecords, Unresolved, Inv
    <2>2. /\ record[r].version = poll[p].seen[r].version
          /\ record'[r].batch = record[r].batch
          /\ record'[r].version > record[r].version
          /\ record'[r].status \in Verdicts
      BY <1>1, ResolveFields DEF Inv
    <2>3. record[r].status = "pending" /\ record[r].batch = poll[p].at
      BY <2>1, <2>2 DEF Inv, SeenHolds
    <2>4. \A v \in Verdicts : v \in recordTransitions["pending"] /\ v # "pending"
      BY DEF Verdicts, recordTransitions
    <2> QED
      BY <2>1, <2>2, <2>3, <2>4 DEF Stored, AssertTransition
  <1>2. ASSUME NEW p \in Pollers, ResolveRecords(p), r \notin Unresolved(p)
        PROVE  record'[r] = record[r]
    BY <1>2, ResolveFields DEF Inv
  <1>3. ASSUME NEW p \in Pollers, Tick(p) \/ Restart(p), ~ResolveRecords(p)
        PROVE  record'[r] = record[r]
    BY <1>3 DEF Tick, Restart, Reclaim, ListPending, ListRetryDue, EndTick, AcquireLease,
       ReadLease, ListRecords, ResolveFails, ReleaseLease, CompleteBatch, BumpBatchRetry,
       MarkBatchPermanent, RecordFailure, StatementFails, rows
  <1>4. CASE StoreBatch
    BY <1>4, StoreFields DEF Inv
  <1>5. ASSUME NEW q \in Records, CorrectRecord(q) \/ ReviewRecord(q)
        PROVE  \/ record'[r] = record[r]
               \/ /\ Stored(r)
                  /\ record'[r].batch = record[r].batch
                  /\ record'[r].version > record[r].version
                  /\ AssertTransition(recordTransitions, record[r].status, record'[r].status)
                  /\ record'[r].status = "pending" => record[r].status = "pending"
    <2>1. CASE q = r
      BY <1>5, <2>1, StaffFields DEF Inv
    <2>2. CASE q # r
      BY <1>5, <2>2, StaffFields DEF Inv
    <2> QED
      BY <2>1, <2>2
  <1>6. CASE UNCHANGED record
    BY <1>6
  <1>7. CASE Environment
    BY <1>4, <1>5, <1>6, <1>7
       DEF Environment, CheckOrder, AbortOrder, LeaseExpires, RetryFallsDue, RequeueFailure
  <1>8. CASE UNCHANGED vars
    BY <1>6, <1>8 DEF vars, rows
  <1> QED
    BY <1>1, <1>2, <1>3, <1>7, <1>8 DEF Next

LEMMA InvInit == Init => Inv
  BY TypeInit DEF Init, Inv, Exists, SeenHolds, FinishHolds, CompletedIsComplete, Idle, AtBatch,
     Working, NoBatch

LEMMA InvNext == Inv /\ [Next]_vars => Inv'
  <1> SUFFICES ASSUME Inv, [Next]_vars PROVE Inv'
    OBVIOUS
  <1>1. TypeOK'
    BY TypeNext DEF Inv
  <1>2. Exists'
    <2>1. ASSUME NEW p \in Pollers
          PROVE  /\ poll'[p].pc \in AtBatch => batch[poll'[p].at].status # "none"
                 /\ \A b \in poll'[p].todo : batch[b].status # "none"
      BY PollStep DEF Inv, Exists, Moves
    <2>2. \A p \in Pollers :
            /\ poll'[p].pc \in AtBatch => poll'[p].at \in Batches
            /\ poll'[p].todo \subseteq Batches
      BY <1>1, PollerStateIs DEF TypeOK, PollerRecord
    <2> QED
      BY <2>1, <2>2, BatchStep DEF Inv, Exists
  (* A record of a batch that exists keeps its place and only leaves pending. *)
  <1>3. ASSUME NEW r \in Records, NEW b \in Batches, batch[b].status # "none",
               record'[r].batch = b
        PROVE  /\ record[r].batch = b
               /\ record'[r].status = "pending" => record[r].status = "pending"
    BY <1>3, RecordStep
  <1>4. SeenHolds'
    <2> SUFFICES ASSUME NEW p \in Pollers, poll'[p].pc = "resolve", NEW r \in Records
                 PROVE  LET was == poll'[p].seen[r] IN
                          /\ record'[r].batch = poll'[p].at => was.batch = poll'[p].at
                          /\ was.batch # 0 =>
                               /\ record'[r].batch = was.batch
                               /\ was.version <= record'[r].version
                               /\ was.version = record'[r].version => was.status = record'[r].status
                               /\ was.status # "pending" => record'[r].status # "pending"
      BY DEF SeenHolds
    <2>0. /\ record[r].version \in Nat /\ record'[r].version \in Nat
          /\ poll'[p].seen[r].version \in Nat
      BY <1>1, PollerStateIs DEF Inv, TypeOK, RecordRow, PollerRecord
    <2>1. CASE poll'[p] = poll[p]
      <3>1. poll[p].at \in Batches /\ batch[poll[p].at].status # "none"
        BY <2>1, AtType, Positions DEF Inv, Exists
      <3> QED
        BY <1>3, <2>0, <2>1, <3>1, RecordStep DEF Inv, SeenHolds, Stored
    <2>2. CASE Moves(p)
      BY <2>0, <2>2 DEF Moves
    <2> QED
      BY <2>1, <2>2, PollStep DEF Inv
  <1>5. FinishHolds'
    <2> SUFFICES ASSUME NEW p \in Pollers, poll'[p].pc = "finish", NEW r \in Records,
                        record'[r].batch = poll'[p].at
                 PROVE  record'[r].status # "pending"
      BY DEF FinishHolds, InBatch
    <2>1. CASE poll'[p] = poll[p]
      <3>1. poll[p].at \in Batches /\ batch[poll[p].at].status # "none"
        BY <2>1, AtType, Positions DEF Inv, Exists
      <3> QED
        BY <1>3, <2>1, <3>1 DEF Inv, FinishHolds, InBatch
    <2>2. CASE Moves(p)
      <3>1. poll'[p].at = poll[p].at /\ ResolveRecords(p) /\ poll[p].pc = "resolve"
        BY <2>2 DEF Moves, ResolveRecords
      <3>2. poll[p].at \in Batches /\ batch[poll[p].at].status # "none"
        BY <3>1, AtType, Positions DEF Inv, Exists
      <3>3. CASE r \in Unresolved(p)
        BY <3>1, <3>3, ResolveFields DEF Inv, Verdicts
      <3>4. CASE r \notin Unresolved(p)
        <4>1. record'[r] = record[r]
          BY <3>1, <3>4, ResolveFields DEF Inv
        <4>2. poll[p].seen[r].batch = poll[p].at
          BY <3>1, <4>1 DEF Inv, SeenHolds
        <4>3. poll[p].seen[r].status # "pending"
          BY <3>4, <4>2 DEF Unresolved
        <4> QED
          BY <3>1, <3>2, <4>1, <4>2, <4>3, BatchesAreNat DEF Inv, SeenHolds
      <3> QED
        BY <3>3, <3>4
    <2> QED
      BY <2>1, <2>2, PollStep DEF Inv
  <1>6. CompletedIsComplete'
    <2> SUFFICES ASSUME NEW b \in Batches, batch'[b].status = "completed", NEW r \in Records,
                        record'[r].batch = b
                 PROVE  record'[r].status # "pending"
      BY DEF CompletedIsComplete, InBatch
    <2>1. CASE batch[b].status = "completed"
      BY <1>3, <2>1 DEF Inv, CompletedIsComplete, InBatch
    <2>2. ASSUME NEW p \in Pollers, poll[p].pc = "finish", poll[p].at = b
          PROVE  record'[r].status # "pending"
      <3>1. batch[b].status # "none"
        BY <2>2, Positions DEF Inv, Exists
      <3> QED
        BY <1>3, <2>2, <3>1 DEF Inv, FinishHolds, InBatch
    <2> QED
      BY <2>1, <2>2, BatchStep DEF Inv
  <1> QED
    BY <1>1, <1>2, <1>4, <1>5, <1>6 DEF Inv

LEMMA InvHolds == Spec => []Inv
  BY InvInit, InvNext, PTL DEF Spec

(* A batch is reported completed only when none of its records is pending,  *)
(* for any number of overlapping pollers, crashes and lost leases.          *)
THEOREM CompletedHasNoPending == Spec => []CompletedIsComplete
  <1>1. Inv => CompletedIsComplete
    BY DEF Inv
  <1> QED
    BY <1>1, InvHolds, PTL

(* No step moves a stored record off the transition table or to another     *)
(* batch: the version of the row stands in for the status that SetConflict  *)
(* and SetManual do not check.                                              *)
THEOREM TableIsFollowed == Spec => RecordsFollowTable
  <1> DEFINE Along == \A r \in Records : Stored(r) =>
               /\ record'[r].batch = record[r].batch
               /\ AssertTransition(recordTransitions, record[r].status, record'[r].status)
  <1>1. Inv /\ [Next]_vars => [Along]_vars
    BY RecordStep DEF AssertTransition
  <1> QED
    BY <1>1, InvHolds, PTL DEF Spec, RecordsFollowTable

--------------------------------------------------------------------------------
(* Exclusion by the lease, as long as no poller was slower than lease_ttl.  *)

LeaseRow(p) ==
  LET b == batch[poll[p].at] IN
  \/ b.status \in {"failed", "permanent_failure"}
  \/ /\ b.status = "leasing" /\ b.lease = "live"
     /\ poll[p].pc # "leased" => poll[p].held = b.version

(* A poller at work has its lease, or another poller that was late with its *)
(* BumpBatchRetry or MarkBatchPermanent took the batch out of circulation.  *)
LeaseInv ==
  /\ \A p \in Pollers : poll[p].pc \in Working => LeaseRow(p)
  /\ \A p, q \in Pollers :
       poll[p].pc \in Working /\ poll[q].pc \in Working /\ poll[p].at = poll[q].at => p = q

QuietInv ==
  /\ TypeOK
  /\ budget["slow"] <= Budget["slow"]
  /\ budget["slow"] = Budget["slow"] => LeaseInv

(* How a poller comes to work on a batch, or goes on working on it.         *)
Works(p) ==
  \/ poll'[p].pc \notin Working
  \/ /\ poll[p].pc \in Working /\ poll'[p].at = poll[p].at
     /\ poll'[p].pc # "leased" /\ batch' = batch
     /\ \/ poll[p].pc # "leased" /\ poll'[p].held = poll[p].held
        \/ poll'[p].held = batch[poll[p].at].version
  \/ /\ poll'[p].pc = "leased" /\ poll'[p].at \in Batches
     /\ batch[poll'[p].at].status = "pending"
     /\ batch'[poll'[p].at].status = "leasing" /\ batch'[poll'[p].at].lease = "live"

LEMMA WorkStep ==
  ASSUME TypeOK, [Next]_vars, NEW q \in Pollers
  PROVE  \/ poll'[q] = poll[q]
         \/ Works(q) /\ \A o \in Pollers \ {q} : poll'[o] = poll[o]
  <1>1. ASSUME NEW p \in Pollers, Tick(p) \/ Restart(p)
        PROVE  (\A o \in Pollers \ {p} : poll'[o] = poll[o]) /\ Works(p)
    <2>1. ASSUME NEW pc \in {"pending", "next", "fate", "dead"}, Goto(p, pc),
                 pc \in {"fate", "dead"} => poll[p].pc \in AtBatch
          PROVE  (\A o \in Pollers \ {p} : poll'[o] = poll[o]) /\ Works(p)
      <3>1. pc \notin Working
        BY DEF Working
      <3>2. pc \in AtBatch => poll[p].at \in Batches
        BY <2>1, AtType, Positions
      <3> QED
        BY <2>1, <3>1, <3>2, GotoFields, Positions DEF Works
    <2>2. CASE Reclaim(p) \/ ReleaseLease(p) \/ BumpBatchRetry(p) \/ MarkBatchPermanent(p)
               \/ RecordFailure(p)
      BY <2>1, <2>2, Positions
         DEF Reclaim, ReleaseLease, BumpBatchRetry, MarkBatchPermanent, RecordFailure
    <2>3. ASSUME NEW phase \in {"pending", "due"}, NEW S \in SUBSET Batches, List(p, phase, S)
          PROVE  (\A o \in Pollers \ {p} : poll'[o] = poll[o]) /\ Works(p)
      BY <2>3, ListFields DEF Works, Working
    <2>4. CASE ListPending(p) \/ ListRetryDue(p)
      <3>1. /\ Newest({b \in Batches : batch[b].status = "pending"}) \in SUBSET Batches
            /\ {b \in Batches : batch[b].status = "failed" /\ batch[b].next_retry = "due"}
                 \in SUBSET Batches
        BY DEF Newest
      <3> QED
        BY <2>3, <2>4, <3>1 DEF ListPending, ListRetryDue
    <2>5. CASE poll' = [poll EXCEPT ![p] = Idle]
      BY <2>5, IdleFields DEF Idle, Works, Working
    <2>6. CASE AcquireLease(p)
      <3>1. PICK b \in Batches :
              \/ /\ batch[b].status = "pending" /\ Begin(p, b, "leased")
                 /\ batch'[b].status = "leasing" /\ batch'[b].lease = "live"
              \/ Begin(p, b, "next")
        BY <2>6, LeaseFields
      <3> QED
        BY <3>1, BeginFields, Positions DEF Works, Working
    <2>7. CASE ReadLease(p)
      BY <2>7, ReadLeaseFields DEF ReadLease, rows, Works, Working
    <2>8. CASE ListRecords(p)
      BY <2>8, ListRecordsFields DEF ListRecords, rows, Works, Working
    <2>9. CASE ResolveRecords(p)
      <3>1. Goto(p, "finish") /\ poll[p].pc = "resolve" /\ batch' = batch
        BY <2>9 DEF ResolveRecords
      <3> QED
        BY <3>1, GotoFields, AtType, Positions DEF Works, Working
    <2>10. CASE ResolveFails(p)
      <3>1. Goto(p, "release") /\ poll[p].pc = "resolve" /\ batch' = batch
        BY <2>10 DEF ResolveFails, rows
      <3> QED
        BY <3>1, GotoFields, AtType, Positions DEF Works, Working
    <2>11. CASE CompleteBatch(p)
      BY <2>1, <2>11, CompleteFields, Positions DEF CompleteBatch
    <2>12. CASE StatementFails(p)
      <3>1. batch' = batch
        BY <2>12 DEF StatementFails, rows
      <3> QED
        BY <2>12, <3>1, FailsFields DEF Works, Working
    <2> QED
      BY <1>1, <2>2, <2>4, <2>5, <2>6, <2>7, <2>8, <2>9, <2>10, <2>11, <2>12
         DEF Tick, EndTick, Restart
  <1>2. CASE Environment
    BY <1>2 DEF Environment, CheckOrder, StoreBatch, AbortOrder, LeaseExpires, RetryFallsDue,
       RequeueFailure, CorrectRecord, ReviewRecord
  <1>3. CASE UNCHANGED vars
    BY <1>3 DEF vars
  <1> QED
    BY <1>1, <1>2, <1>3 DEF Next

(* What may become of a batch somebody works on.                            *)
LEMMA LeaseStep ==
  ASSUME TypeOK, LeaseInv, [Next]_vars, budget'["slow"] = budget["slow"],
         NEW w \in Pollers, poll[w].pc \in Working
  PROVE  LET b == poll[w].at IN
         \/ /\ batch'[b].status = batch[b].status /\ batch'[b].lease = batch[b].lease
            /\ batch'[b].version = batch[b].version
         \/ batch'[b].status \in {"failed", "permanent_failure"}
         \/ poll'[w].pc \notin Working
  <1> DEFINE b == poll[w].at
             Kept == /\ batch'[b].status = batch[b].status /\ batch'[b].lease = batch[b].lease
                     /\ batch'[b].version = batch[b].version
             Goal == \/ Kept \/ batch'[b].status \in {"failed", "permanent_failure"}
                     \/ poll'[w].pc \notin Working
  <1>0. TypeOK /\ b \in Batches /\ LeaseRow(w)
    BY AtType, Positions DEF LeaseInv, Working
  <1>1. ASSUME NEW p \in Pollers, poll[p].pc \in Working, p # w
        PROVE  poll[p].at # b
    BY <1>1 DEF LeaseInv
  <1>2. CASE UNCHANGED batch
    BY <1>2
  <1>3. ASSUME NEW p \in Pollers, Tick(p) \/ Restart(p)
        PROVE  Goal
    <2>1. CASE Reclaim(p)
      BY <1>0, <2>1, ReclaimFields DEF LeaseRow
    <2>2. CASE AcquireLease(p)
      BY <1>0, <2>2, LeaseFields DEF LeaseRow
    <2>3. CASE ReleaseLease(p)
      <3>1. Goto(p, "fate") /\ poll[p].pc = "release"
        BY <2>3 DEF ReleaseLease
      <3>2. CASE p = w
        BY <1>0, <3>1, <3>2, GotoFields, Positions DEF Working
      <3>3. CASE p # w
        BY <1>0, <1>1, <2>3, <3>1, <3>3, ReleaseFields DEF Working
      <3> QED
        BY <3>2, <3>3
    <2>4. CASE CompleteBatch(p)
      <3>1. (Goto(p, "fate") \/ Goto(p, "next")) /\ poll[p].pc = "finish"
        BY <1>0, <2>4, CompleteFields DEF CompleteBatch
      <3>2. CASE p = w
        BY <1>0, <3>1, <3>2, GotoFields, Positions DEF Working
      <3>3. CASE p # w
        BY <1>0, <1>1, <2>4, <3>1, <3>3, CompleteFields DEF Working
      <3> QED
        BY <3>2, <3>3
    <2>5. CASE BumpBatchRetry(p)
      BY <1>0, <2>5, BumpFields
    <2>6. CASE MarkBatchPermanent(p)
      BY <1>0, <2>6, PermanentFields
    <2> QED
      BY <1>2, <1>3, <2>1, <2>2, <2>3, <2>4, <2>5, <2>6
         DEF Tick, Restart, ListPending, ListRetryDue, EndTick, ReadLease, ListRecords,
             ResolveRecords, ResolveFails, RecordFailure, StatementFails, rows
  <1>4. CASE Environment
    <2>1. CASE StoreBatch
      BY <1>0, <2>1, StoreFields DEF LeaseRow
    <2>2. ASSUME NEW c \in Batches, LeaseExpires(c)
          PROVE  Goal
      <3>1. CASE c = b
        <4>1. Holds(w, b)
          BY <1>0, <2>2, <3>1 DEF LeaseExpires, LeaseRow, Holds
        <4>2. Spend("slow")
          BY <2>2, <3>1, <4>1 DEF LeaseExpires
        <4> QED
          BY <4>2 DEF Spend, TypeOK, Events
      <3>2. CASE c # b
        BY <1>0, <2>2, <3>2, TimeFields
      <3> QED
        BY <3>1, <3>2
    <2>3. ASSUME NEW c \in Batches, RetryFallsDue(c)
          PROVE  Goal
      <3>1. batch' = [batch EXCEPT ![c] = [batch[c] EXCEPT !.next_retry = "due"]]
        BY <2>3 DEF RetryFallsDue
      <3>2. batch[c] \in BatchRow /\ batch[b] \in BatchRow
        BY <1>0 DEF TypeOK
      <3> HIDE DEF b
      <3> QED
        BY <1>0, <3>1, <3>2 DEF TypeOK, BatchRow
    <2> QED
      BY <1>2, <1>4, <2>1, <2>2, <2>3
         DEF Environment, CheckOrder, AbortOrder, RequeueFailure, CorrectRecord, ReviewRecord
  <1>5. CASE UNCHANGED vars
    BY <1>2, <1>5 DEF vars, rows
  <1> QED
    BY <1>3, <1>4, <1>5 DEF Next

(* Lateness is only ever spent.                                             *)
LEMMA SlowFalls ==
  ASSUME TypeOK, [Next]_vars
  PROVE  budget'["slow"] <= budget["slow"]
  <1>1. budget' = budget \/ \E e \in Events : budget[e] > 0 /\ budget' = [budget EXCEPT ![e] = @ - 1]
    <2>1. ASSUME NEW p \in Pollers, Tick(p) \/ Restart(p)
          PROVE  UNCHANGED budget \/ Spend("fault") \/ Spend("outage") \/ Spend("crash")
      BY <2>1 DEF Tick, Restart, Reclaim, ListPending, ListRetryDue, EndTick, AcquireLease,
           ReadLease, ListRecords, ResolveRecords, ResolveFails, ReleaseLease, CompleteBatch,
           BumpBatchRetry, MarkBatchPermanent, RecordFailure, StatementFails
    <2>2. CASE Environment
      <3>1. UNCHANGED budget \/ Spend("backfill") \/ Spend("staff") \/ Spend("slow")
        BY <2>2 DEF Environment, CheckOrder, StoreBatch, AbortOrder, LeaseExpires,
           RetryFallsDue, RequeueFailure, CorrectRecord, ReviewRecord
      <3> QED
        BY <3>1 DEF Spend, Events
    <2>3. CASE UNCHANGED vars
      BY <2>3 DEF vars
    <2>4. ASSUME NEW p \in Pollers, Tick(p) \/ Restart(p)
          PROVE  budget' = budget \/ \E e \in Events : budget[e] > 0 /\ budget' = [budget EXCEPT ![e] = @ - 1]
      BY <2>1, <2>4 DEF Spend, Events
    <2> QED
      BY <2>2, <2>3, <2>4 DEF Next
  <1>2. budget \in [Events -> Nat] /\ "slow" \in Events
    BY DEF TypeOK, Events
  <1> QED
    BY <1>1, <1>2

LEMMA LeaseNext ==
  ASSUME TypeOK, LeaseInv, [Next]_vars, budget'["slow"] = budget["slow"]
  PROVE  LeaseInv'
  <1>1. TypeOK /\ TypeOK'
    BY TypeNext
  <1>2. ASSUME NEW p \in Pollers, poll'[p].pc \in Working
        PROVE  LeaseRow(p)'
    <2>1. CASE poll'[p] = poll[p]
      BY <1>2, <2>1, LeaseStep DEF LeaseInv, LeaseRow
    <2>2. CASE Works(p)
      BY <1>2, <2>2 DEF LeaseInv, LeaseRow, Works
    <2> QED
      BY <1>1, <2>1, <2>2, WorkStep
  <1>3. ASSUME NEW p \in Pollers, NEW q \in Pollers, p # q,
               poll'[p].pc \in Working, poll'[q].pc \in Working
        PROVE  poll'[p].at # poll'[q].at
    (* At most one of the two moves; if it has just taken its lease, it     *)
    (* found the batch pending, so the other was not at work on it.         *)
    <2>1. ASSUME NEW m \in Pollers, NEW o \in Pollers, m # o,
                 poll'[m].pc \in Working, poll'[o].pc \in Working, poll'[o] = poll[o], Works(m)
          PROVE  poll'[m].at # poll'[o].at
      <3>1. CASE poll[m].pc \in Working /\ poll'[m].at = poll[m].at
        BY <2>1, <3>1 DEF LeaseInv
      <3>2. CASE batch[poll'[m].at].status = "pending"
        BY <2>1, <3>2 DEF LeaseInv, LeaseRow
      <3> QED
        BY <2>1, <3>1, <3>2 DEF Works
    <2>2. CASE poll'[p] = poll[p] /\ poll'[q] = poll[q]
      BY <1>3, <2>2 DEF LeaseInv
    <2>3. CASE Works(p) /\ poll'[q] = poll[q]
      BY <1>3, <2>1, <2>3
    <2>4. CASE Works(q) /\ poll'[p] = poll[p]
      BY <1>3, <2>1, <2>4
    <2> QED
      BY <1>1, <1>3, <2>2, <2>3, <2>4, WorkStep
  <1> QED
    BY <1>1, <1>2, <1>3 DEF LeaseInv

(* As long as no lease expired under a working poller, no two pollers       *)
(* process the same batch, whatever crashes, failing statements and late    *)
(* bookkeeping of other pollers do to its row.                              *)
THEOREM LeaseExcludes == Spec => []LeaseIsExclusive
  <1>1. Init => QuietInv
    <2> SUFFICES ASSUME Init PROVE QuietInv
      OBVIOUS
    <2>1. TypeOK /\ budget = Budget /\ Budget["slow"] \in Nat
      BY TypeInit, BudgetAssumption DEF Init, Events
    <2>2. \A p \in Pollers : poll[p].pc \notin Working
      BY DEF Init, Idle, Working
    <2> QED
      BY <2>1, <2>2 DEF QuietInv, LeaseInv
  <1>2. QuietInv /\ [Next]_vars => QuietInv'
    <2> SUFFICES ASSUME QuietInv, [Next]_vars PROVE QuietInv'
      OBVIOUS
    <2>1. TypeOK /\ TypeOK'
      BY TypeNext DEF QuietInv
    <2>2. budget'["slow"] <= budget["slow"]
      BY <2>1, SlowFalls
    <2>3. budget["slow"] \in Nat /\ budget'["slow"] \in Nat /\ Budget["slow"] \in Nat
      BY <2>1, BudgetAssumption DEF TypeOK, Events
    <2>4. CASE budget'["slow"] = Budget["slow"]
      BY <2>1, <2>2, <2>3, <2>4, LeaseNext DEF QuietInv
    <2>5. CASE budget'["slow"] # Budget["slow"]
      BY <2>1, <2>2, <2>3, <2>5 DEF QuietInv
    <2> QED
      BY <2>4, <2>5
  <1>3. QuietInv => LeaseIsExclusive
    BY DEF QuietInv, LeaseInv, LeaseIsExclusive
  <1> QED
    BY <1>1, <1>2, <1>3, PTL DEF Spec

--------------------------------------------------------------------------------
(* Dead letters.                                                            *)

(* The process dies between MarkBatchPermanent and RecordFailure, or the    *)
(* second of them fails, which processOne only logs.                        *)
LetterLost(p) == poll[p].pc = "dead" /\ (Restart(p) \/ StatementFails(p))

Listing(p, b) == poll[p].pc = "dead" /\ poll[p].at = b

LEMMA OthersKept ==
  ASSUME TypeOK, NEW p \in Pollers, Tick(p) \/ Restart(p), NEW q \in Pollers, q # p
  PROVE  poll'[q] = poll[q]
  <1> USE DEF TypeOK, Goto, List, Begin
  <1>1. CASE Reclaim(p) \/ ListPending(p) \/ ListRetryDue(p) \/ EndTick(p) \/ AcquireLease(p)
    BY <1>1 DEF Reclaim, ListPending, ListRetryDue, EndTick, AcquireLease
  <1>2. CASE ReadLease(p) \/ ListRecords(p) \/ ResolveRecords(p) \/ ResolveFails(p)
             \/ ReleaseLease(p)
    BY <1>2 DEF ReadLease, ListRecords, ResolveRecords, ResolveFails, ReleaseLease
  <1>3. CASE CompleteBatch(p) \/ BumpBatchRetry(p) \/ MarkBatchPermanent(p) \/ RecordFailure(p)
    BY <1>3 DEF CompleteBatch, BumpBatchRetry, MarkBatchPermanent, RecordFailure
  <1>4. CASE StatementFails(p)
    BY <1>4, FailsFields
  <1>5. CASE Restart(p)
    BY <1>5 DEF Restart
  <1> QED
    BY <1>1, <1>2, <1>3, <1>4, <1>5 DEF Tick

(* A batch is given up by MarkBatchPermanent, and nowhere else.             *)
LEMMA GivenUp ==
  ASSUME TypeOK, [Next]_vars, NEW b \in Batches, batch'[b].status = "permanent_failure"
  PROVE  \/ batch[b].status = "permanent_failure"
         \/ \E p \in Pollers : MarkBatchPermanent(p) /\ poll[p].at = b
  <1>1. ASSUME NEW p \in Pollers, Tick(p) \/ Restart(p),
               ~(MarkBatchPermanent(p) /\ poll[p].at = b)
        PROVE  batch[b].status = "permanent_failure"
    <2>1. CASE Reclaim(p)
      BY <2>1, ReclaimFields
    <2>2. CASE AcquireLease(p)
      BY <2>2, LeaseFields
    <2>3. CASE ReleaseLease(p)
      BY <2>3, ReleaseFields
    <2>4. CASE CompleteBatch(p)
      BY <2>4, CompleteFields
    <2>5. CASE BumpBatchRetry(p)
      BY <2>5, BumpFields
    <2>6. CASE MarkBatchPermanent(p)
      BY <1>1, <2>6, PermanentFields
    <2>7. CASE UNCHANGED batch
      BY <2>7
    <2> QED
      BY <1>1, <2>1, <2>2, <2>3, <2>4, <2>5, <2>6, <2>7
         DEF Tick, Restart, ListPending, ListRetryDue, EndTick, ReadLease, ListRecords,
             ResolveRecords, ResolveFails, RecordFailure, StatementFails, rows
  <1>2. CASE Environment
    <2>1. CASE StoreBatch
      BY <2>1, StoreFields
    <2>2. CASE \E c \in Batches : LeaseExpires(c) \/ RetryFallsDue(c)
      BY <2>2, TimeFields
    <2> QED
      BY <1>2, <2>1, <2>2
         DEF Environment, CheckOrder, AbortOrder, RequeueFailure, CorrectRecord, ReviewRecord
  <1>3. CASE UNCHANGED vars
    BY <1>3 DEF vars, rows
  <1> QED
    BY <1>1, <1>2, <1>3 DEF Next

(* The failure row, once written, stays; requeueing only marks it.          *)
LEMMA FailureStays ==
  ASSUME TypeOK, [Next]_vars, NEW b \in Batches, failure[b] # "none"
  PROVE  failure'[b] # "none"
  <1>1. ASSUME NEW p \in Pollers, Tick(p) \/ Restart(p)
        PROVE  failure' = failure \/ failure' = [failure EXCEPT ![poll[p].at] = "permanent"]
    BY <1>1 DEF Tick, Restart, Reclaim, ListPending, ListRetryDue, EndTick, AcquireLease,
       ReadLease, ListRecords, ResolveRecords, ResolveFails, ReleaseLease, CompleteBatch,
       BumpBatchRetry, MarkBatchPermanent, RecordFailure, StatementFails, rows
  <1>2. CASE Environment
    BY <1>2 DEF Environment, CheckOrder, StoreBatch, AbortOrder, LeaseExpires, RetryFallsDue,
       RequeueFailure, CorrectRecord, ReviewRecord, TypeOK
  <1>3. CASE UNCHANGED vars
    BY <1>3 DEF vars, rows
  <1> QED
    BY <1>1, <1>2, <1>3 DEF Next, TypeOK

(* A poller between the two statements goes on to the second.               *)
LEMMA ListingStep ==
  ASSUME TypeOK, [Next]_vars, NEW p \in Pollers, ~LetterLost(p), NEW b \in Batches, Listing(p, b)
  PROVE  Listing(p, b)' \/ failure'[b] # "none"
  <1>1. CASE poll'[p] = poll[p]
    BY <1>1 DEF Listing
  <1>2. CASE Tick(p) \/ Restart(p)
    <2>1. RecordFailure(p)
      BY <1>2 DEF Listing, LetterLost, Tick, Reclaim, ListPending, ListRetryDue, EndTick,
         AcquireLease, Takes, ReadLease, ListRecords, ResolveRecords, ResolveFails,
         ReleaseLease, CompleteBatch, BumpBatchRetry, MarkBatchPermanent
    <2> QED
      BY <2>1 DEF RecordFailure, Listing, TypeOK
  <1>3. ASSUME NEW q \in Pollers, q # p, Tick(q) \/ Restart(q) PROVE poll'[p] = poll[p]
    BY <1>3, OthersKept
  <1>4. Environment => poll' = poll
    BY DEF Environment, CheckOrder, StoreBatch, AbortOrder, LeaseExpires, RetryFallsDue,
       RequeueFailure, CorrectRecord, ReviewRecord
  <1>5. UNCHANGED vars => poll' = poll
    BY DEF vars
  <1> QED
    BY <1>1, <1>2, <1>3, <1>4, <1>5 DEF Next

(* A dead letter is on the operator's list, or about to be put there, for   *)
(* any number of pollers, crashes and failing statements, as long as none   *)
(* of these comes between MarkBatchPermanent and RecordFailure.             *)
THEOREM DeadLettersAreListed ==
  Spec /\ [][\A p \in Pollers : ~LetterLost(p)]_vars => []DeadLetterIsListed
  <1>1. Init => DeadLetterIsListed
    BY DEF Init, DeadLetterIsListed, NoBatch
  <1>2. TypeOK /\ DeadLetterIsListed /\ [Next]_vars /\ [\A p \in Pollers : ~LetterLost(p)]_vars
        => DeadLetterIsListed'
    <2> SUFFICES ASSUME TypeOK, DeadLetterIsListed, [Next]_vars,
                        [\A p \in Pollers : ~LetterLost(p)]_vars, NEW b \in Batches,
                        batch'[b].status = "permanent_failure"
                 PROVE  failure'[b] # "none" \/ \E p \in Pollers : Listing(p, b)'
      BY DEF DeadLetterIsListed, Listing
    <2>1. CASE UNCHANGED vars
      BY <2>1 DEF vars, rows, DeadLetterIsListed, Listing
    <2>2. ASSUME NEW p \in Pollers, MarkBatchPermanent(p), poll[p].at = b PROVE Listing(p, b)'
      <3>1. Goto(p, "dead") /\ poll[p].pc = "fate"
        BY <2>2 DEF MarkBatchPermanent
      <3> QED
        BY <2>2, <3>1, GotoFields, Positions DEF Listing
    <2>3. ASSUME batch[b].status = "permanent_failure", ~UNCHANGED vars
          PROVE  failure'[b] # "none" \/ \E p \in Pollers : Listing(p, b)'
      <3>1. failure[b] # "none" \/ \E p \in Pollers : Listing(p, b)
        BY <2>3 DEF DeadLetterIsListed, Listing
      <3> QED
        BY <2>3, <3>1, FailureStays, ListingStep
    <2> QED
      BY <2>1, <2>2, <2>3, GivenUp
  <1> QED
    BY <1>1, <1>2, TypeCorrect, PTL DEF Spec

================================================================================
