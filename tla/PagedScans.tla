------------------------------- MODULE PagedScans -------------------------------
(****************************************************************************)
(* Listings read page by page while their rows come and go.  A page is a    *)
(* COUNT and a SELECT with LIMIT and OFFSET, two statements with nothing    *)
(* between them that keeps the listing still.  Three readers:               *)
(*   "diff"   ComputeDiff walks all records of an order, newest first;      *)
(*            a backfill puts a record anywhere, none ever leaves           *)
(*   "stale"  ListStaleManuals walks all pending reviews, oldest first, to  *)
(*            cut the client's page out of the stale ones; new ones come    *)
(*            last, reviewed ones leave                                     *)
(*   "list"   the query service answers one page; with a filter on the      *)
(*            status a row may come and go anywhere                         *)
(* A client of the last two asks again with Next until there is none.       *)
(* Rows are known by their position in the order of the listing.            *)
(****************************************************************************)
EXTENDS DiffEngine

CONSTANTS
  NRows,            \* positions a row may have
  SlotOf,           \* the slot of the record at each position
  Hours,            \* hours a record or a customer's report may have
  NoReport,         \* the customer reported nothing
  Asked,            \* page sizes clients ask for
  DefaultPageSize,  \* 50 in the code
  MaxPageSize,      \* 200 in the code
  Budget            \* how often each kind of change may happen

Changes == {"enter", "leave", "settle"}

Rows == 1 .. NRows

ASSUME RowsAssumption == NRows \in Nat /\ SlotOf \in [Rows -> Slots]
ASSUME HoursAssumption == Hours \subseteq Int /\ NoReport \notin Hours
ASSUME PageSizeAssumption ==
  /\ Asked \subseteq Int
  /\ DefaultPageSize \in Nat \ {0} /\ MaxPageSize \in Nat \ {0}
  /\ DefaultPageSize <= MaxPageSize
ASSUME BudgetAssumption == Budget \in [Changes -> Nat]

VARIABLES
  kind,      \* who reads
  row,       \* is it in the listing, does the reader take it, its hours
  reported,  \* what the customer reported of each slot, or NoReport
  client,    \* the page it asks for next, and how often it was given a row
  scan,      \* the request in progress
  steady,    \* history: rows to be taken since the request began
  moves,     \* history: rows that came or left since the request began
  diff,      \* the answer of ComputeDiff
  budget     \* what is left of Budget

vars == <<kind, row, reported, client, scan, steady, moves, diff, budget>>

None == -1  \* an offset no page has

Listed == {k \in Rows : row[k].listed}
Wanted == {k \in Listed : row[k].counts}

--------------------------------------------------------------------------------
(* Page.Normalize.                                                          *)
NormalSize(size) ==
  IF size <= 0 THEN DefaultPageSize ELSE IF size > MaxPageSize THEN MaxPageSize ELSE size

NormalOffset(offset) == IF offset < 0 THEN 0 ELSE offset

(* LIMIT size OFFSET offset, of a set of positions in ascending order.      *)
Page(ks, offset, size) ==
  {k \in ks : Cardinality({j \in ks : j < k}) \in offset .. offset + size - 1}

(* Mutant: the next page begins one row later.                              *)
nextPageLater(offset, returned, total) ==
  IF offset + returned >= total THEN 0 ELSE offset + returned + 1

(* 0 says there is no next page.                                            *)
nextPage(offset, returned, total) ==
  IF offset + returned >= total THEN 0 ELSE offset + returned

Untaken == [k \in Rows |-> [times |-> 0, hours |-> 0]]
Quiet == [pc |-> "idle", offset |-> 0, size |-> 1, total |-> 0, taken |-> Untaken]
NoDiff == Diff({}, {})

Init ==
  /\ kind \in {"diff", "stale", "list"}
  /\ \E listed \in SUBSET Rows, counts \in SUBSET Rows, hours \in Hours :
       /\ counts \subseteq listed
       /\ kind = "stale" => \A k \in counts, j \in listed : j < k => j \in counts
       /\ kind = "list" => counts = listed
       /\ row = [k \in Rows |-> [listed |-> k \in listed, counts |-> k \in counts,
                                 hours |-> hours]]
  /\ reported \in IF kind = "diff" THEN [Slots -> Hours \cup {NoReport}] ELSE [Slots -> {NoReport}]
  /\ \E offset \in {0, None} :
       client = [offset |-> offset, seen |-> [k \in Rows |-> 0], more |-> TRUE, moved |-> FALSE]
  /\ scan = Quiet
  /\ steady = {} /\ moves = 0
  /\ diff = NoDiff
  /\ budget = Budget

Spend(e) == budget[e] > 0 /\ budget' = [budget EXCEPT ![e] = @ - 1]

--------------------------------------------------------------------------------
(* The request.                                                             *)

(* A page is asked for.  The two walks begin at the start with full pages,  *)
(* whatever page the client wants of the result.                            *)
Ask(size) ==
  /\ scan.pc = "idle" /\ client.more
  /\ scan' = IF kind = "list"
             THEN [Quiet EXCEPT !.pc = "count", !.offset = NormalOffset(client.offset),
                                !.size = NormalSize(size)]
             ELSE [Quiet EXCEPT !.pc = "count", !.size = MaxPageSize]
  /\ steady' = Wanted /\ moves' = 0
  /\ UNCHANGED <<kind, row, reported, client, diff, budget>>

Count ==
  /\ scan.pc = "count"
  /\ scan' = [scan EXCEPT !.pc = "page", !.total = Cardinality(Listed)]
  /\ UNCHANGED <<kind, row, reported, client, steady, moves, diff, budget>>

(* Mutant: a full page is taken for the last one.                           *)
LastPageEarly(items) ==
  Cardinality(items) <= scan.size \/ scan.offset + Cardinality(items) >= scan.total

(* A page that is not full, or the last one by the count.                   *)
LastPage(items) ==
  Cardinality(items) < scan.size \/ scan.offset + Cardinality(items) >= scan.total

Taken(items) ==
  [k \in Rows |->
     IF k \in items /\ row[k].counts
     THEN [times |-> scan.taken[k].times + 1, hours |-> scan.taken[k].hours + row[k].hours]
     ELSE scan.taken[k]]

(* Mutant: newest first.                                                    *)
ItemsDescending ==
  {k \in Listed : Cardinality({j \in Listed : j > k})
                    \in scan.offset .. scan.offset + scan.size - 1}

Items == Page(Listed, scan.offset, scan.size)

List ==
  /\ scan.pc = "page"
  /\ scan' = [scan EXCEPT
       !.pc = IF kind = "list" \/ LastPage(Items) THEN "answer" ELSE "count",
       !.offset = IF kind = "list" \/ LastPage(Items) THEN @ ELSE @ + Cardinality(Items),
       !.taken = Taken(Items)]
  /\ UNCHANGED <<kind, row, reported, client, steady, moves, diff, budget>>

Took == {k \in Rows : scan.taken[k].times > 0}

(* What the client is given: the items, and where to go on.                 *)
Give(items, offset, total) ==
  LET next == nextPage(offset, Cardinality(items), total) IN
  client' = [offset |-> next, more |-> next # 0, moved |-> client.moved,
             seen |-> [k \in Rows |-> client.seen[k] + IF k \in items THEN 1 ELSE 0]]

AnswerPage ==
  /\ scan.pc = "answer" /\ kind = "list"
  /\ Give(Took, scan.offset, scan.total)
  /\ scan' = Quiet /\ steady' = {} /\ moves' = 0
  /\ UNCHANGED <<kind, row, reported, diff, budget>>

(* The page is cut out of what the walk has found stale.                    *)
AnswerStale(size) ==
  /\ scan.pc = "answer" /\ kind = "stale"
  /\ LET offset == NormalOffset(client.offset) IN
     Give(Page(Took, offset, NormalSize(size)), offset, Cardinality(Took))
  /\ scan' = Quiet /\ steady' = {} /\ moves' = 0
  /\ UNCHANGED <<kind, row, reported, diff, budget>>

(* The two sides, as the engine is given them.                              *)
SystemIn ==
  {[slot |-> SlotOf[k], hours |-> scan.taken[k].hours, of |-> k] : k \in Took}
CustomerIn ==
  {[slot |-> s, hours |-> reported[s], of |-> 0] : s \in {t \in Slots : reported[t] # NoReport}}

AnswerDiff ==
  /\ scan.pc = "answer" /\ kind = "diff"
  /\ diff' = Diff(SystemIn, CustomerIn)
  /\ client' = [client EXCEPT !.more = FALSE]
  /\ scan' = [scan EXCEPT !.pc = "done"]
  /\ UNCHANGED <<kind, row, reported, steady, moves, budget>>

(* A statement fails or the client goes away: nothing is answered.          *)
Fail ==
  /\ scan.pc \in {"count", "page"}
  /\ scan' = Quiet /\ steady' = {} /\ moves' = 0
  /\ client' = [client EXCEPT !.more = FALSE, !.moved = TRUE]
  /\ UNCHANGED <<kind, row, reported, diff, budget>>

--------------------------------------------------------------------------------
(* What others do to the rows while somebody reads them.                    *)

Moved ==
  /\ client.more
  /\ moves' = moves + 1
  /\ client' = [client EXCEPT !.moved = TRUE]

(* Backfill inserts a pending record, routeToManual a review that is not    *)
(* stale yet; a change of status brings any row under a filter.  A review   *)
(* comes last by its time as text, which may misplace it among those of the *)
(* same second; the stale ones are older than that.                         *)
Enter(k) ==
  /\ ~row[k].listed
  /\ kind = "stale" => \A j \in Listed : j < k
  /\ Spend("enter")
  /\ row' = [row EXCEPT ![k].listed = TRUE, ![k].counts = kind = "list"]
  /\ Moved
  /\ UNCHANGED <<kind, reported, scan, steady, diff>>

(* A review is decided, a change of status takes a row out of a filter.     *)
Leave(k) ==
  /\ row[k].listed /\ kind # "diff"
  /\ Spend("leave")
  /\ row' = [row EXCEPT ![k].listed = FALSE, ![k].counts = FALSE]
  /\ steady' = steady \ {k}
  /\ Moved
  /\ UNCHANGED <<kind, reported, scan, diff>>

(* A record is settled, revoked or corrected.                               *)
Settle(k, counts, hours) ==
  /\ row[k].listed /\ kind = "diff" /\ client.more
  /\ Spend("settle")
  /\ row' = [row EXCEPT ![k].counts = counts, ![k].hours = hours]
  /\ steady' = IF counts THEN steady ELSE steady \ {k}
  /\ UNCHANGED <<kind, reported, client, scan, moves, diff>>

(* Time passes; a walk goes by the clock as it began.                       *)
GoesStale(k) ==
  /\ row[k].listed /\ ~row[k].counts /\ kind = "stale" /\ scan.pc = "idle" /\ client.more
  /\ \A j \in Listed : j < k => row[j].counts
  /\ Spend("settle")
  /\ row' = [row EXCEPT ![k].counts = TRUE]
  /\ client' = [client EXCEPT !.moved = TRUE]
  /\ UNCHANGED <<kind, reported, scan, steady, moves, diff>>

Next ==
  \/ \E size \in Asked : Ask(size) \/ AnswerStale(size)
  \/ Count \/ List \/ AnswerPage \/ AnswerDiff \/ Fail
  \/ \E k \in Rows : Enter(k) \/ Leave(k) \/ GoesStale(k)
  \/ \E k \in Rows, counts \in BOOLEAN, hours \in Hours : Settle(k, counts, hours)

Spec == Init /\ [][Next]_vars

--------------------------------------------------------------------------------
(* Types of the listing, the request and the client.                        *)
TypeOK ==
  /\ kind \in {"diff", "stale", "list"}
  /\ row \in [Rows -> [listed : BOOLEAN, counts : BOOLEAN, hours : Hours]]
  /\ reported \in [Slots -> Hours \cup {NoReport}]
  /\ client \in [offset : Nat \cup {None}, seen : [Rows -> Nat], more : BOOLEAN, moved : BOOLEAN]
  /\ scan \in [pc : {"idle", "count", "page", "answer", "done"}, offset : Nat, size : 1 .. MaxPageSize,
               total : Nat, taken : [Rows -> [times : Nat, hours : Int]]]
  /\ steady \subseteq Rows /\ moves \in Nat
  /\ budget \in [Changes -> Nat]

(* A walk over the reviews takes none twice, whatever is decided or opened  *)
(* while it runs (manual_syncstate_repo.go:71-76 lists the oldest first).   *)
ReviewsTakenOnce == kind = "stale" => \A k \in Rows : scan.taken[k].times <= 1

(* A walk errs by a row at most for each row that came or left while it     *)
(* ran: no more are missed of those it had to take all along, and no more   *)
(* are taken again (reconciliation_service.go:185-203,                      *)
(* query_service.go:82-98).                                                 *)
WalkErrsByMoves ==
  scan.pc = "answer" /\ kind # "list" =>
    /\ Cardinality(steady \ Took) <= moves
    /\ Cardinality({k \in Rows : scan.taken[k].times > 1}) <= moves

(* A client that follows Next is given every row once, and no other, when   *)
(* nothing came or left from its first request to its last, whatever sizes  *)
(* it asks for and however the walk is paged (query_service.go:130-135).    *)
ClientSeesAll ==
  ~client.more /\ ~client.moved /\ kind # "diff" =>
    \A k \in Rows : client.seen[k] = IF k \in Wanted THEN 1 ELSE 0

(* Nothing of either side is lost in the diff: the deltas of its pairs add  *)
(* up to what was reported less what the walk took, the total of the        *)
(* summary is that sum rounded once to 0.0001 hours and within half of it   *)
(* however many slots there are, each slot has its own pair, and only slots *)
(* both sides have may conflict (engine.go:92-152).                         *)
DiffBalances ==
  scan.pc = "done" =>
    LET slots == {SlotOf[k] : k \in Took}
        said == {s \in Slots : reported[s] # NoReport}
        deltas == MapThenSumSet(LAMBDA s : diff.pairs[s].delta, DOMAIN diff.pairs)
    IN /\ deltas = MapThenSumSet(LAMBDA s : reported[s], said)
                     - MapThenSumSet(LAMBDA k : scan.taken[k].hours, Took)
       /\ diff.total_delta % Scale = 0
       /\ 2 * (diff.total_delta - deltas) \in -Scale .. Scale
       /\ DOMAIN diff.pairs = slots \cup said
       /\ \A s \in DOMAIN diff.pairs :
            /\ diff.pairs[s].kind = "system_only" <=> s \notin said
            /\ diff.pairs[s].kind = "customer_only" <=> s \notin slots
       /\ diff.has_conflict <=> \E s \in slots \cap said : diff.pairs[s].delta # 0
================================================================================
