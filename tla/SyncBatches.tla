------------------------------- MODULE SyncBatches -------------------------------
(****************************************************************************)
(* Offline records of one deployment order are stored in sync batches       *)
(* (SyncService.Backfill) and resolved by a poller, batch by batch under a  *)
(* lease (SyncService.ProcessBatch, scheduler.Poller).  A server process    *)
(* has one poller; two of them overlap while one process replaces another,  *)
(* which is what the lease is for.                                          *)
(*                                                                          *)
(* Every action is one SQL statement or one transaction, as in              *)
(* ProvisioningSaga.  Batches are numbered in the order of their creation.  *)
(* Which verdict a record gets depends on its age and on what the customer  *)
(* has reported when the transaction runs; here any verdict is possible.    *)
(****************************************************************************)
EXTENDS StateMachines, FiniteSets

CONSTANTS
  Pollers,     \* poller goroutines, one per server process
  NBatches,    \* bound on the batches ever created
  Records,     \* client sequences of the order
  MaxRetries,  \* scheduler.max_retries
  PageSize,    \* domain.MaxPageSize
  Budget       \* how often each kind of environment event may happen

Events == {"backfill", "staff", "fault", "outage", "crash", "slow"}

ASSUME NBatchesAssumption == NBatches \in Nat
ASSUME LimitsAssumption == MaxRetries \in Nat /\ PageSize \in Nat
ASSUME BudgetAssumption == Budget \in [Events -> Nat]

VARIABLES
  open,      \* the order is not aborted
  intake,    \* Backfill requests that have read the order and not yet stored
  batch,     \* sync_batches rows, status "none" before they exist
  record,    \* operation_records rows, batch 0 before they exist
  failure,   \* the permanent_failures row of each batch
  poll,      \* what each poller is doing, and the rows it has read
  budget     \* what is left of Budget

rows == <<open, intake, batch, record, failure>>
vars == <<rows, poll, budget>>

Batches == 1 .. NBatches

NoBatch == [status |-> "none", version |-> 0, lease |-> "none", retry_count |-> 0,
            next_retry |-> "none"]
NoRecord == [batch |-> 0, status |-> "pending", version |-> 0]

Idle == [pc |-> "idle", phase |-> "pending", todo |-> {}, counts |-> [b \in Batches |-> 0],
         at |-> 0, held |-> 0, seen |-> [r \in Records |-> NoRecord]]

Stored(r) == record[r].batch # 0
InBatch(b) == {r \in Records : record[r].batch = b}
Spend(e) == budget[e] > 0 /\ budget' = [budget EXCEPT ![e] = @ - 1]
Goto(p, pc) == poll' = [poll EXCEPT ![p] = [@ EXCEPT !.pc = pc]]

(* The row a batch UPDATE leaves: the fields it sets, at the next version.  *)
Moved(row, to, lease) ==
  [row EXCEPT !.status = to, !.lease = lease, !.version = row.version + 1]

(* ... that also counts a retry, or ends the retries.                       *)
Postponed(row) ==
  [Moved(row, "failed", row.lease) EXCEPT
     !.retry_count = row.retry_count + 1, !.next_retry = "waiting"]
Dead(row) == [Moved(row, "permanent_failure", row.lease) EXCEPT !.next_retry = "none"]

(* The row an UPDATE of operation_records leaves.                           *)
Judged(row, to) == [row EXCEPT !.status = to, !.version = row.version + 1]

Init ==
  /\ open = TRUE
  /\ intake = 0
  /\ batch = [b \in Batches |-> NoBatch]
  /\ record = [r \in Records |-> NoRecord]
  /\ failure = [b \in Batches |-> "none"]
  /\ poll = [p \in Pollers |-> Idle]
  /\ budget = Budget

--------------------------------------------------------------------------------
(* Backfill.                                                                *)

(* The order's status is read, and checked, outside the transaction.        *)
CheckOrder ==
  /\ open
  /\ intake' = intake + 1
  /\ Spend("backfill")
  /\ UNCHANGED <<open, batch, record, failure, poll>>

(* The transaction: records whose sequence is already stored are left as    *)
(* they are; if all are, no batch is created.                               *)
StoreBatch ==
  /\ intake > 0
  /\ intake' = intake - 1
  /\ \E S \in (SUBSET Records) \ {{}}, b \in Batches :
       /\ batch[b].status = "none"
       /\ \A c \in Batches : c < b => batch[c].status # "none"
       /\ IF \A r \in S : Stored(r)
          THEN UNCHANGED <<batch, record>>
          ELSE /\ batch' = [batch EXCEPT ![b] = [NoBatch EXCEPT !.status = "pending", !.version = 1]]
               /\ record' = [r \in Records |->
                    IF r \in S /\ ~Stored(r)
                    THEN [batch |-> b, status |-> "pending", version |-> 1]
                    ELSE record[r]]
  /\ UNCHANGED <<open, failure, poll, budget>>

--------------------------------------------------------------------------------
(* One tick of the poller.                                                  *)

(* ReclaimExpired is the first statement of a tick, and of Recover.         *)
Reclaim(p) ==
  /\ poll[p].pc = "idle"
  /\ batch' = [b \in Batches |->
       IF batch[b].status = "leasing" /\ batch[b].lease = "expired"
       THEN Moved(batch[b], "pending", "none") ELSE batch[b]]
  /\ Goto(p, "pending")
  /\ UNCHANGED <<open, intake, record, failure, budget>>

(* The newest batches of a set, as many as a page takes.                    *)
Newest(S) == {b \in S : Cardinality({c \in S : c > b}) < PageSize}

List(p, phase, S) ==
  poll' = [poll EXCEPT ![p] = [@ EXCEPT !.pc = "next", !.phase = phase, !.todo = S,
             !.counts = [b \in Batches |-> batch[b].retry_count]]]

ListPending(p) ==
  /\ poll[p].pc = "pending"
  /\ List(p, "pending", Newest({b \in Batches : batch[b].status = "pending"}))
  /\ UNCHANGED <<rows, budget>>

ListRetryDue(p) ==
  /\ poll[p].pc = "next" /\ poll[p].phase = "pending" /\ poll[p].todo = {}
  /\ List(p, "due", {b \in Batches : batch[b].status = "failed" /\ batch[b].next_retry = "due"})
  /\ UNCHANGED <<rows, budget>>

EndTick(p) ==
  /\ poll[p].pc = "next" /\ poll[p].phase = "due" /\ poll[p].todo = {}
  /\ poll' = [poll EXCEPT ![p] = Idle]
  /\ UNCHANGED <<rows, budget>>

(* The batch the loop takes next: pages of pending batches are sorted       *)
(* newest first, retry-due ones by their retry time.                        *)
Takes(p, b) ==
  /\ poll[p].pc = "next"
  /\ b \in poll[p].todo
  /\ poll[p].phase = "pending" => \A c \in poll[p].todo : c <= b

Lease(b) == batch' = [batch EXCEPT ![b] = Moved(batch[b], "leasing", "live")]

(* Mutant: the lease is taken whatever the batch's status.                  *)
LeasableAlways(b) == TRUE

Leasable(b) == batch[b].status = "pending"

Begin(p, b, pc) ==
  poll' = [poll EXCEPT ![p] = [@ EXCEPT !.pc = pc, !.at = b, !.todo = poll[p].todo \ {b}]]

(* AcquireLease; when the lease is held, processOne just returns.           *)
AcquireLease(p) ==
  /\ \E b \in Batches :
       /\ Takes(p, b)
       /\ \/ Leasable(b)  /\ Lease(b) /\ Begin(p, b, "leased")
          \/ ~Leasable(b) /\ UNCHANGED batch /\ Begin(p, b, "next")
  /\ UNCHANGED <<open, intake, record, failure, budget>>

(* AcquireLease's second statement returns the row as it is by then.        *)
ReadLease(p) ==
  /\ poll[p].pc = "leased"
  /\ poll' = [poll EXCEPT ![p] = [@ EXCEPT !.pc = "list", !.held = batch[poll[p].at].version]]
  /\ UNCHANGED <<rows, budget>>

ListRecords(p) ==
  /\ poll[p].pc = "list"
  /\ poll' = [poll EXCEPT ![p] = [@ EXCEPT !.pc = "resolve", !.seen = record]]
  /\ UNCHANGED <<rows, budget>>

(* The records of the list that resolveRecord does not return from at once. *)
Unresolved(p) ==
  {r \in Records : poll[p].seen[r].batch = poll[p].at /\ poll[p].seen[r].status = "pending"}

Verdicts == {"accepted", "conflict", "manual_verify_pending"}

(* Mutant: SetConflict and SetManual without their version guard.           *)
ResolvableAnyVersion(p, r, verdict) ==
  verdict = "accepted" => record[r] = poll[p].seen[r]

(* UpdateRecordStatus, SetConflict and SetManual check the listed version;  *)
(* only the first checks the status as well.                                *)
Resolvable(p, r, verdict) ==
  /\ record[r].version = poll[p].seen[r].version
  /\ verdict = "accepted" => record[r].status = "pending"

(* The transaction over all records of the batch: every unresolved record   *)
(* gets its verdict, or nothing is written.                                 *)
ResolveRecords(p) ==
  /\ poll[p].pc = "resolve"
  /\ \E verdict \in [Unresolved(p) -> Verdicts] :
       /\ \A r \in Unresolved(p) : Resolvable(p, r, verdict[r])
       /\ record' = [r \in Records |->
            IF r \in Unresolved(p) THEN Judged(record[r], verdict[r]) ELSE record[r]]
  /\ Goto(p, "finish")
  /\ UNCHANGED <<open, intake, batch, failure, budget>>

(* Mutant: the error of the transaction is not returned.                    *)
ResolveFailsUnseen(p) ==
  /\ poll[p].pc = "resolve"
  /\ \/ \E r \in Unresolved(p) : record[r].version # poll[p].seen[r].version /\ UNCHANGED budget
     \/ Spend("fault")
  /\ Goto(p, "finish")
  /\ UNCHANGED rows

(* A record has moved on since it was listed, or the database fails: the    *)
(* transaction is rolled back.                                              *)
ResolveFails(p) ==
  /\ poll[p].pc = "resolve"
  /\ \/ \E r \in Unresolved(p) : record[r].version # poll[p].seen[r].version /\ UNCHANGED budget
     \/ Spend("fault")
  /\ Goto(p, "release")
  /\ UNCHANGED rows

(* Mutant: a failed batch keeps its lease.                                  *)
ReleaseLeaseForgotten(p) ==
  /\ poll[p].pc = "release"
  /\ Goto(p, "fate")
  /\ UNCHANGED <<rows, budget>>

(* ReleaseLease asks for the status only, not for the owner or the version. *)
ReleaseLease(p) ==
  /\ poll[p].pc = "release"
  /\ LET b == poll[p].at IN
     batch' = IF batch[b].status = "leasing"
              THEN [batch EXCEPT ![b] = Moved(batch[b], "pending", "none")] ELSE batch
  /\ Goto(p, "fate")
  /\ UNCHANGED <<open, intake, record, failure, budget>>

(* UpdateBatchProgress to completed, at the version of the lease; how many  *)
(* records were processed is left out.                                      *)
CompleteBatch(p) ==
  /\ poll[p].pc = "finish"
  /\ LET b == poll[p].at IN
     IF batch[b].version = poll[p].held
     THEN /\ batch' = [batch EXCEPT ![b] = Moved(batch[b], "completed", batch[b].lease)]
          /\ Goto(p, "next")
     ELSE UNCHANGED batch /\ Goto(p, "fate")
  /\ UNCHANGED <<open, intake, record, failure, budget>>

OutOfRetries(p) == poll[p].counts[poll[p].at] + 1 >= MaxRetries

(* processOne after an error, with the retry count of the list: BumpBatch-  *)
(* Retry asks for a status ReleaseLease has just left.                      *)
BumpBatchRetry(p) ==
  /\ poll[p].pc = "fate"
  /\ ~OutOfRetries(p)
  /\ LET b == poll[p].at IN
     batch' = IF batch[b].status \in {"processing", "failed", "leasing"}
              THEN [batch EXCEPT ![b] = Postponed(batch[b])] ELSE batch
  /\ Goto(p, "next")
  /\ UNCHANGED <<open, intake, record, failure, budget>>

(* Mutant: no failure row is written for a dead letter.                     *)
MarkBatchPermanentOnly(p) ==
  /\ poll[p].pc = "fate"
  /\ OutOfRetries(p)
  /\ batch' = [batch EXCEPT ![poll[p].at] = Dead(batch[poll[p].at])]
  /\ Goto(p, "next")
  /\ UNCHANGED <<open, intake, record, failure, budget>>

(* MarkBatchPermanent asks for nothing but the id.                          *)
MarkBatchPermanent(p) ==
  /\ poll[p].pc = "fate"
  /\ OutOfRetries(p)
  /\ batch' = [batch EXCEPT ![poll[p].at] = Dead(batch[poll[p].at])]
  /\ Goto(p, "dead")
  /\ UNCHANGED <<open, intake, record, failure, budget>>

RecordFailure(p) ==
  /\ poll[p].pc = "dead"
  /\ failure' = [failure EXCEPT ![poll[p].at] = "permanent"]
  /\ Goto(p, "next")
  /\ UNCHANGED <<open, intake, batch, record, budget>>

(* A statement on its own fails.  A tick goes on with its next statement;   *)
(* ProcessBatch returns the error to processOne, which decides the batch's  *)
(* fate.                                                                    *)
StatementFails(p) ==
  /\ \/ poll[p].pc = "idle" /\ Goto(p, "pending")
     \/ poll[p].pc = "pending" /\ List(p, "pending", {})
     \/ /\ poll[p].pc = "next" /\ poll[p].phase = "pending" /\ poll[p].todo = {}
        /\ poll' = [poll EXCEPT ![p] = Idle]
     \/ \E b \in Batches : Takes(p, b) /\ Begin(p, b, "fate")
     \/ poll[p].pc = "list" /\ Goto(p, "release")
     \/ poll[p].pc \in {"leased", "release", "finish"} /\ Goto(p, "fate")
     \/ poll[p].pc = "fate" /\ Goto(p, IF OutOfRetries(p) THEN "dead" ELSE "next")
     \/ poll[p].pc = "dead" /\ Goto(p, "next")
  /\ Spend("outage")
  /\ UNCHANGED rows

Tick(p) ==
  \/ Reclaim(p) \/ ListPending(p) \/ ListRetryDue(p) \/ EndTick(p)
  \/ AcquireLease(p) \/ ReadLease(p) \/ ListRecords(p)
  \/ ResolveRecords(p) \/ ResolveFails(p)
  \/ ReleaseLease(p) \/ CompleteBatch(p) \/ BumpBatchRetry(p) \/ MarkBatchPermanent(p)
  \/ RecordFailure(p) \/ StatementFails(p)

--------------------------------------------------------------------------------
(* The environment.                                                         *)

(* The process dies, or shuts down and every later statement fails; a new   *)
(* process starts with Recover, whose first statement is Reclaim.           *)
Restart(p) ==
  /\ poll[p].pc # "idle"
  /\ poll' = [poll EXCEPT ![p] = Idle]
  /\ Spend("crash")
  /\ UNCHANGED rows

Working == {"leased", "list", "resolve", "release", "finish"}

(* p processes b under its current lease.                                   *)
Holds(p, b) ==
  /\ poll[p].pc \in Working
  /\ poll[p].at = b
  /\ poll[p].pc # "leased" => poll[p].held = batch[b].version

(* Time passes: lease_until goes by, for a poller at work only if it is     *)
(* slower than lease_ttl.                                                   *)
LeaseExpires(b) ==
  /\ batch[b].status = "leasing" /\ batch[b].lease = "live"
  /\ batch' = [batch EXCEPT ![b].lease = "expired"]
  /\ IF \E p \in Pollers : Holds(p, b) THEN Spend("slow") ELSE UNCHANGED budget
  /\ UNCHANGED <<open, intake, record, failure, poll>>

RetryFallsDue(b) ==
  /\ batch[b].next_retry = "waiting"
  /\ batch' = [batch EXCEPT ![b].next_retry = "due"]
  /\ UNCHANGED <<open, intake, record, failure, poll, budget>>

RequeueFailure(b) ==
  /\ failure[b] = "permanent"
  /\ failure' = [failure EXCEPT ![b] = "requeued"]
  /\ UNCHANGED <<open, intake, batch, record, poll, budget>>

(* Compensate aborts the order.                                             *)
AbortOrder ==
  /\ open
  /\ open' = FALSE
  /\ UNCHANGED <<intake, batch, record, failure, poll, budget>>

(* CorrectRecord moves an accepted record to verified, and no other.        *)
CorrectRecord(r) ==
  /\ Stored(r)
  /\ record[r].status # "revoked"
  /\ record' = [record EXCEPT ![r] =
       IF record[r].status = "accepted"
       THEN Judged(Judged(record[r], "accepted"), "verified")
       ELSE Judged(record[r], record[r].status)]
  /\ Spend("staff")
  /\ UNCHANGED <<open, intake, batch, failure, poll>>

(* RevokeRecord, Adjudicate and ManualVerify.                               *)
ReviewRecord(r) ==
  /\ Stored(r)
  /\ \E to \in {"revoked", "adjudicated", "verified"} :
       /\ to \in recordTransitions[record[r].status]
       /\ to = "verified" => record[r].status = "manual_verify_pending"
       /\ record' = [record EXCEPT ![r] = Judged(record[r], to)]
  /\ Spend("staff")
  /\ UNCHANGED <<open, intake, batch, failure, poll>>

Environment ==
  \/ CheckOrder \/ StoreBatch \/ AbortOrder
  \/ \E b \in Batches : LeaseExpires(b) \/ RetryFallsDue(b) \/ RequeueFailure(b)
  \/ \E r \in Records : CorrectRecord(r) \/ ReviewRecord(r)

Next ==
  \/ \E p \in Pollers : Tick(p) \/ Restart(p)
  \/ Environment

(* The ticker fires for ever and time passes; nobody is bound to submit,    *)
(* correct, requeue or restart.                                             *)
Fairness ==
  /\ \A p \in Pollers : WF_vars(Tick(p))
  /\ \A b \in Batches : WF_vars(LeaseExpires(b)) /\ WF_vars(RetryFallsDue(b))

Spec == Init /\ [][Next]_vars
FairSpec == Spec /\ Fairness

--------------------------------------------------------------------------------
RecordRow == [batch : Batches \cup {0}, status : RecordStatus, version : Nat]

LeaseStatus == {"none", "live", "expired"}

BatchRow == [status : SyncBatchStatus \cup {"none"}, version : Nat,
             lease : LeaseStatus, retry_count : Nat,
             next_retry : {"none", "waiting", "due"}]

PollerState ==
  {c \in [pc : Working \cup {"idle", "pending", "next", "fate", "dead"},
          phase : {"pending", "due"}, todo : SUBSET Batches, counts : [Batches -> Nat],
          at : Batches \cup {0}, held : Nat, seen : [Records -> RecordRow]] :
     c.pc \in Working \cup {"fate", "dead"} => c.at \in Batches}

(* Types of every row and of every captured value.                          *)
TypeOK ==
  /\ open \in BOOLEAN
  /\ intake \in Nat
  /\ batch \in [Batches -> BatchRow]
  /\ record \in [Records -> RecordRow]
  /\ failure \in [Batches -> {"none", "permanent", "requeued"}]
  /\ poll \in [Pollers -> PollerState]
  /\ budget \in [Events -> Nat]

(* A batch reported completed has no record left pending, whatever pollers, *)
(* reviewers, faults and lost leases did while it was processed.            *)
CompletedIsComplete ==
  \A b \in Batches :
    batch[b].status = "completed" => \A r \in InBatch(b) : record[r].status # "pending"

(* A record only moves along the record transition table and stays in its   *)
(* batch, although SetConflict and SetManual never look at its status.      *)
RecordsFollowTable ==
  [][\A r \in Records : Stored(r) =>
       /\ record'[r].batch = record[r].batch
       /\ AssertTransition(recordTransitions, record[r].status, record'[r].status)]_vars

(* "exactly one worker must win the lease" (concurrency_test.go:76): as     *)
(* long as no lease has expired under a working poller, no two pollers      *)
(* process the same batch, late bookkeeping of either included.             *)
LeaseIsExclusive ==
  budget["slow"] = Budget["slow"] =>
    \A p, q \in Pollers :
      /\ poll[p].pc \in Working /\ poll[q].pc \in Working
      /\ poll[p].at = poll[q].at
      => p = q

(* A batch marked a dead letter has its failure row, from which an operator *)
(* requeues it, or the poller is about to write it (poller.go:64-69), as    *)
(* long as no crash and no error comes between these two statements.        *)
DeadLetterIsListed ==
  \A b \in Batches :
    batch[b].status = "permanent_failure" =>
      failure[b] # "none" \/ \E p \in Pollers : poll[p].pc = "dead" /\ poll[p].at = b

(* Every stored batch is processed to its end although transactions fail,   *)
(* records change under the poller and the process dies with a lease held.  *)
BatchesSettle ==
  \A b \in Batches :
    batch[b].status \in {"pending", "leasing"}
      ~> batch[b].status \in {"completed", "permanent_failure"}
================================================================================
