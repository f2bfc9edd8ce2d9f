-------------------------------- MODULE ChangeFeed --------------------------------
(****************************************************************************)
(* The feed of new records.  Every backfilled record takes the next number  *)
(* of a counter (SyncService.Backfill, Store.nextChangeVersion), clients    *)
(* pull what lies past the highest number they have seen (PullChanges), and *)
(* the operator tool recomputes the counter and the cursors of the orders   *)
(* (opsctl rebuild-index), from a process of its own and statement by       *)
(* statement, while the server is running or not.                           *)
(****************************************************************************)
EXTENDS Integers, FiniteSets

CONSTANTS
  Orders,           \* deployment orders
  Sequences,        \* client sequences a device may number its records with
  Asked,            \* page sizes a client may ask for
  DefaultPageSize,  \* domain.DefaultPageSize
  MaxPageSize,      \* domain.MaxPageSize
  Budget            \* how often each kind of event may happen

(* race: a record is stored while rebuild-index is about to set the counter *)
Events == {"rebuild", "race"}

ASSUME SequencesAssumption == IsFiniteSet(Sequences)
ASSUME AskedAssumption == Asked \subseteq Int
ASSUME PageSizeAssumption == DefaultPageSize \in Nat \ {0} /\ MaxPageSize \in Nat
ASSUME BudgetAssumption == Budget \in [Events -> Nat]

VARIABLES
  version,  \* operation_records.change_version, 0 before the record exists
  counter,  \* change_counter.next_version
  cursor,   \* sync_state.last_change_version of each order, None before the row
  asked,    \* the page size the client asks for
  since,    \* the highest version the client has seen
  got,      \* the records the client has been sent
  rebuild,  \* what rebuild-index is doing, and the maximum it has read
  budget    \* what is left of Budget

vars == <<version, counter, cursor, asked, since, got, rebuild, budget>>

Records == Orders \X Sequences

None == -1

Idle == [pc |-> "idle", max |-> 0]

Stored == {r \in Records : version[r] # 0}
Of(o) == {r \in Stored : r[1] = o}

(* COALESCE(MAX(change_version), 0) over the records rs.                    *)
Max0(rs) ==
  {m \in {0} \cup {version[r] : r \in rs} : \A r \in rs : version[r] <= m}

Spend(e) == budget[e] > 0 /\ budget' = [budget EXCEPT ![e] = @ - 1]

Init ==
  /\ version = [r \in Records |-> 0]
  /\ counter = 1
  /\ cursor = [o \in Orders |-> None]
  /\ asked \in Asked
  /\ since = 0
  /\ got = {}
  /\ rebuild = Idle
  /\ budget = Budget

--------------------------------------------------------------------------------
(* nextChangeVersion for each of the records fresh, in the order of their   *)
(* occurrence, which is any.                                                *)
Numbers(fresh) ==
  {f \in [fresh -> counter .. counter + Cardinality(fresh) - 1] :
     \A r, q \in fresh : f[r] = f[q] => r = q}

UpsertBackfill(o, last) ==
  cursor' = [cursor EXCEPT ![o] = IF @ > last THEN @ ELSE last]

(* Mutant: the counter is bumped once for the whole batch.                  *)
BumpedOnce(fresh) == counter + 1

Bumped(fresh) == counter + Cardinality(fresh)

(* Backfill of the records sent, in one transaction: those that exist keep  *)
(* their version.                                                           *)
Backfill(o, sent) ==
  LET fresh == sent \ Stored IN
  /\ fresh # {}
  /\ \E f \in Numbers(fresh) :
       version' = [r \in Records |-> IF r \in fresh THEN f[r] ELSE version[r]]
  /\ \E last \in Max0(sent)' : UpsertBackfill(o, last)
  /\ counter' = Bumped(fresh)
  /\ IF rebuild.pc = "counter" THEN Spend("race") ELSE UNCHANGED budget
  /\ UNCHANGED <<asked, since, got, rebuild>>

--------------------------------------------------------------------------------
(* Mutant: the limit is taken as it was asked for.                          *)
LimitAsAsked == asked

Limit ==
  IF asked <= 0 \/ asked > MaxPageSize THEN DefaultPageSize ELSE asked

Newer == {r \in Stored : version[r] > since}

(* Mutant: LIMIT without ORDER BY.                                          *)
PagesUnordered ==
  {page \in SUBSET Newer :
     Cardinality(page) = IF Cardinality(Newer) < Limit
                         THEN Cardinality(Newer) ELSE Limit}

(* ListRecordChanges: the first records past the client's version, in the   *)
(* order of their versions.                                                 *)
Pages ==
  {page \in SUBSET Newer :
     /\ Cardinality(page) = IF Cardinality(Newer) < Limit
                            THEN Cardinality(Newer) ELSE Limit
     /\ \A r \in page, q \in Newer \ page : version[r] <= version[q]}

(* A pull, with the next_version the handler computes from the page.  A     *)
(* response that is lost leaves the client where it was.                    *)
PullChanges ==
  \E page \in Pages :
    /\ page # {}
    /\ got' = got \cup page
    /\ since' \in {version[r] : r \in page}
    /\ \A r \in page : version[r] <= since'
    /\ UNCHANGED <<version, counter, cursor, asked, rebuild, budget>>

--------------------------------------------------------------------------------
(* opsctl rebuild-index: four statements, each its own transaction.         *)

Rebuilding(from, to) == rebuild.pc = from /\ rebuild' = [rebuild EXCEPT !.pc = to]

ReadMax ==
  /\ rebuild.pc = "idle"
  /\ Spend("rebuild")
  /\ \E m \in Max0(Stored) : rebuild' = [pc |-> "counter", max |-> m]
  /\ UNCHANGED <<version, counter, cursor, asked, since, got>>

SetCounter ==
  /\ Rebuilding("counter", "cursors")
  /\ counter' = rebuild.max + 1
  /\ UNCHANGED <<version, cursor, asked, since, got, budget>>

(* The highest version of every order.                                      *)
Latest == {m \in [Orders -> {0} \cup {version[r] : r \in Stored}] :
             \A o \in Orders : m[o] \in Max0(Of(o))}

(* Mutant: every cursor gets the maximum over all orders.                   *)
RefreshCursorsGlobal ==
  /\ Rebuilding("cursors", "rows")
  /\ cursor' = [o \in Orders |-> IF cursor[o] = None THEN None ELSE rebuild.max]
  /\ UNCHANGED <<version, counter, asked, since, got, budget>>

RefreshCursors ==
  /\ Rebuilding("cursors", "rows")
  /\ \E m \in Latest :
       cursor' = [o \in Orders |-> IF cursor[o] = None THEN None ELSE m[o]]
  /\ UNCHANGED <<version, counter, asked, since, got, budget>>

InsertCursors ==
  /\ Rebuilding("rows", "idle")
  /\ \E m \in Latest :
       cursor' = [o \in Orders |-> IF cursor[o] = None THEN m[o] ELSE cursor[o]]
  /\ UNCHANGED <<version, counter, asked, since, got, budget>>

(* A statement fails or the tool is stopped.                                *)
RebuildStops ==
  /\ rebuild.pc # "idle"
  /\ rebuild' = Idle
  /\ UNCHANGED <<version, counter, cursor, asked, since, got, budget>>

Next ==
  \/ \E o \in Orders, seqs \in SUBSET Sequences : Backfill(o, {o} \X seqs)
  \/ PullChanges
  \/ ReadMax \/ SetCounter \/ RefreshCursors \/ InsertCursors \/ RebuildStops

(* The client is expected to go on pulling; nothing else need happen.       *)
Spec == Init /\ [][Next]_vars /\ WF_vars(PullChanges)

--------------------------------------------------------------------------------
(* Types of the rows and of what client and tool remember.                  *)
TypeOK ==
  /\ version \in [Records -> Nat]
  /\ counter \in Nat \ {0}
  /\ cursor \in [Orders -> Nat \cup {None}]
  /\ asked \in Asked /\ since \in Nat /\ got \subseteq Stored
  /\ rebuild \in [pc : {"idle", "counter", "cursors", "rows"}, max : Nat]
  /\ budget \in [Events -> Nat]

(* No record was stored while rebuild-index was about to set the counter.   *)
Undisturbed == budget["race"] = Budget["race"]

(* As long as nothing is stored between the two statements that recompute   *)
(* the counter, no two records share a version: a page that ends between    *)
(* two equal versions would lose the second (main.go:317-321).              *)
VersionsDistinct ==
  Undisturbed => \A r, q \in Stored : version[r] = version[q] => r = q

(* ... and a client never passes a record it has not been sent, whatever    *)
(* page sizes it asks for and wherever its pages end (sync_service.go:218). *)
NothingPassed == Undisturbed => \A r \in Stored : version[r] <= since => r \in got

(* The cursor of an order is the highest version of its records, whether a  *)
(* backfill or the tool wrote it last, and even if the counter was set back *)
(* (manual_syncstate_repo.go:78, main.go:324-331).                          *)
CursorsExact ==
  \A o \in Orders :
    IF cursor[o] = None THEN Of(o) = {} ELSE cursor[o] \in Max0(Of(o))

(* A client that goes on pulling is sent every record.                      *)
EverythingPulled == \A r \in Records : r \in Stored ~> r \in got \/ ~Undisturbed
================================================================================
