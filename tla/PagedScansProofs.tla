---------------------------- MODULE PagedScansProofs ----------------------------
(****************************************************************************)
(* Theorems about PagedScans for any number of rows, any page sizes and any *)
(* number of changes.                                                       *)
(****************************************************************************)
EXTENDS PagedScans, FiniteSetTheorems, WellFoundedInduction, TLAPS

Before(k) == {j \in Listed : j < k}

(* While a walk over the reviews goes on, it has taken a row only once, and *)
(* the rows it has taken are in front of the next page.                     *)
WalkInv ==
  kind = "stale" =>
    /\ \A k \in Rows : scan.taken[k].times <= 1
    /\ scan.pc \in {"idle", "done"} => \A k \in Rows : scan.taken[k].times = 0
    /\ scan.pc \in {"count", "page"} =>
         \A k \in Wanted : scan.taken[k].times = 1 => Cardinality(Before(k)) < scan.offset

Inv == TypeOK /\ WalkInv

--------------------------------------------------------------------------------
LEMMA FiniteRows ==
  ASSUME NEW ks \in SUBSET Rows
  PROVE  IsFiniteSet(ks) /\ Cardinality(ks) \in Nat
<1>1. IsFiniteSet(Rows)
  BY RowsAssumption, FS_Interval DEF Rows
<1> QED
  BY <1>1, FS_Subset, FS_CardinalityType

LEMMA NormalPage ==
  /\ \A size \in Asked : NormalSize(size) \in 1 .. MaxPageSize
  /\ \A offset \in Nat \cup {None} : NormalOffset(offset) \in Nat
  BY PageSizeAssumption DEF NormalSize, NormalOffset, None

LEMMA QuietType ==
  /\ Quiet \in [pc : {"idle", "count", "page", "answer", "done"}, offset : Nat,
                size : 1 .. MaxPageSize, total : Nat,
                taken : [Rows -> [times : Nat, hours : Int]]]
  /\ Quiet.pc = "idle" /\ \A k \in Rows : Quiet.taken[k].times = 0
<1>1. Untaken \in [Rows -> [times : Nat, hours : Int]] /\ \A k \in Rows : Untaken[k].times = 0
  BY DEF Untaken
<1> QED
  BY <1>1, PageSizeAssumption DEF Quiet

LEMMA InitInv == Init => Inv
<1> SUFFICES ASSUME Init PROVE Inv
  OBVIOUS
<1>1. row \in [Rows -> [listed : BOOLEAN, counts : BOOLEAN, hours : Hours]]
  BY DEF Init
<1>2. reported \in [Slots -> Hours \cup {NoReport}]
  BY DEF Init
<1>3. client \in [offset : Nat \cup {None}, seen : [Rows -> Nat], more : BOOLEAN,
                  moved : BOOLEAN]
  <2>1. [k \in Rows |-> 0] \in [Rows -> Nat]
    OBVIOUS
  <2> QED
    BY <2>1 DEF Init, None
<1>4. TypeOK
  BY <1>1, <1>2, <1>3, QuietType, BudgetAssumption DEF Init, TypeOK
<1>5. WalkInv
  BY QuietType DEF Init, WalkInv
<1> QED
  BY <1>4, <1>5 DEF Inv

LEMMA Spending ==
  ASSUME TypeOK, NEW e \in Changes, Spend(e)
  PROVE  budget' \in [Changes -> Nat]
  BY DEF TypeOK, Spend, Changes

(* A request ends, or has not begun: nothing is taken.                      *)
LEMMA QuietInv ==
  ASSUME TypeOK', scan'.pc \in {"idle", "done"} \/ kind' # "stale",
         kind' = "stale" => scan' = Quiet
  PROVE  WalkInv'
  BY QuietType DEF WalkInv

LEMMA AskInv == ASSUME Inv, NEW size \in Asked, Ask(size) PROVE Inv'
<1> DEFINE page == IF kind = "list"
                   THEN [Quiet EXCEPT !.pc = "count", !.offset = NormalOffset(client.offset),
                                      !.size = NormalSize(size)]
                   ELSE [Quiet EXCEPT !.pc = "count", !.size = MaxPageSize]
<1>1. /\ scan' = page /\ steady' = Wanted /\ moves' = 0
      /\ UNCHANGED <<kind, row, reported, client, diff, budget>>
  BY DEF Ask
<1>2. NormalOffset(client.offset) \in Nat /\ NormalSize(size) \in 1 .. MaxPageSize
      /\ MaxPageSize \in 1 .. MaxPageSize
  <2>1. client.offset \in Nat \cup {None}
    BY DEF Inv, TypeOK
  <2>2. MaxPageSize \in 1 .. MaxPageSize
    BY PageSizeAssumption
  <2> QED
    BY <2>1, <2>2, NormalPage
<1>3. page \in [pc : {"idle", "count", "page", "answer", "done"}, offset : Nat,
                size : 1 .. MaxPageSize, total : Nat,
                taken : [Rows -> [times : Nat, hours : Int]]]
  BY <1>2, QuietType
<1>4. page.pc = "count" /\ page.taken = Quiet.taken
  BY QuietType
<1> HIDE DEF page
<1>5. TypeOK'
  BY <1>1, <1>3 DEF Inv, TypeOK, Wanted, Listed
<1>6. WalkInv'
  BY <1>1, <1>4, QuietType DEF WalkInv, Wanted, Listed
<1> QED
  BY <1>5, <1>6 DEF Inv

LEMMA CountInv == ASSUME Inv, Count PROVE Inv'
<1>1. Listed \subseteq Rows
  BY DEF Listed
<1>2. Cardinality(Listed) \in Nat
  BY <1>1, FiniteRows
<1>3. /\ scan' = [scan EXCEPT !.pc = "page", !.total = Cardinality(Listed)] /\ scan.pc = "count"
      /\ UNCHANGED <<kind, row, reported, client, steady, moves, diff, budget>>
  BY DEF Count
<1>4. TypeOK'
  BY <1>2, <1>3 DEF Inv, TypeOK
<1>5. scan'.pc = "page" /\ scan'.taken = scan.taken /\ scan'.offset = scan.offset
  BY <1>3 DEF Inv, TypeOK
<1>6. WalkInv'
  BY <1>3, <1>5 DEF Inv, WalkInv, Wanted, Listed, Before
<1> QED
  BY <1>4, <1>6 DEF Inv

(* What a page takes was not taken before, and is in front of the next one, *)
(* for the walk goes on from a full page only.                              *)
LEMMA ListInv == ASSUME Inv, List PROVE Inv'
<1> DEFINE last == kind = "list" \/ LastPage(Items)
<1>1. Items \subseteq Listed /\ Listed \subseteq Rows
  BY DEF Items, Page, Listed
<1>2. Cardinality(Items) \in Nat
  BY <1>1, FiniteRows
<1>3. /\ scan' = [scan EXCEPT !.pc = IF last THEN "answer" ELSE "count",
                              !.offset = IF last THEN scan.offset
                                         ELSE scan.offset + Cardinality(Items),
                              !.taken = Taken(Items)]
      /\ scan.pc = "page"
      /\ UNCHANGED <<kind, row, reported, client, steady, moves, diff, budget>>
  BY DEF List
<1>4. /\ scan \in [pc : {"idle", "count", "page", "answer", "done"}, offset : Nat,
                   size : 1 .. MaxPageSize, total : Nat,
                   taken : [Rows -> [times : Nat, hours : Int]]]
      /\ row \in [Rows -> [listed : BOOLEAN, counts : BOOLEAN, hours : Int]]
  <2>1. Hours \subseteq Int
    BY HoursAssumption
  <2> QED
    BY <2>1 DEF Inv, TypeOK
<1>5. /\ Taken(Items) \in [Rows -> [times : Nat, hours : Int]]
      /\ \A k \in Rows : Taken(Items)[k].times =
           IF k \in Items /\ row[k].counts THEN scan.taken[k].times + 1 ELSE scan.taken[k].times
  BY <1>4 DEF Taken
<1>6. scan'.pc = (IF last THEN "answer" ELSE "count") /\ scan'.taken = Taken(Items)
      /\ scan'.offset = IF last THEN scan.offset ELSE scan.offset + Cardinality(Items)
  BY <1>3, <1>4
<1>7. TypeOK'
  <2>1. scan.offset + Cardinality(Items) \in Nat
    BY <1>2, <1>4
  <2> HIDE DEF last
  <2>2. scan' \in [pc : {"idle", "count", "page", "answer", "done"}, offset : Nat,
                   size : 1 .. MaxPageSize, total : Nat,
                   taken : [Rows -> [times : Nat, hours : Int]]]
    BY <1>3, <1>4, <1>5, <2>1
  <2> QED
    BY <1>3, <2>2 DEF Inv, TypeOK
<1>8. ASSUME kind = "stale" PROVE WalkInv'
  <2>1. ASSUME NEW k \in Items, row[k].counts PROVE scan.taken[k].times = 0
    <3>1. k \in Wanted /\ scan.taken[k].times \in Nat /\ scan.taken[k].times <= 1
      BY <1>1, <1>4, <1>8, <2>1 DEF Inv, WalkInv, Wanted
    <3>2. Cardinality(Before(k)) \in scan.offset .. scan.offset + scan.size - 1
      BY DEF Items, Page, Before
    <3>3. ~(Cardinality(Before(k)) < scan.offset)
      BY <1>4, <3>2
    <3> QED
      BY <1>3, <1>8, <3>1, <3>3 DEF Inv, WalkInv
  <2>2. \A k \in Rows : scan'.taken[k].times <= 1
    BY <1>5, <1>6, <1>8, <2>1 DEF Inv, WalkInv
  <2>3. ASSUME NEW k \in Wanted, ~last, scan'.taken[k].times = 1
        PROVE  Cardinality(Before(k)) < scan.offset + Cardinality(Items)
    <3>1. Cardinality(Before(k)) \in Nat /\ k \in Rows
      <4>1. Before(k) \subseteq Rows
        BY DEF Before, Listed
      <4> QED
        BY <4>1, FiniteRows DEF Wanted, Listed
    <3>2. scan.size <= Cardinality(Items)
      BY <1>2, <1>4, <2>3 DEF LastPage
    <3>3. CASE k \in Items
      <4>1. Cardinality(Before(k)) \in scan.offset .. scan.offset + scan.size - 1
        BY <3>3 DEF Items, Page, Before
      <4> QED
        BY <1>2, <1>4, <3>1, <3>2, <4>1
    <3>4. CASE k \notin Items
      <4>1. scan.taken[k].times = 1
        BY <1>5, <1>6, <2>3, <3>1, <3>4
      <4>2. Cardinality(Before(k)) < scan.offset
        BY <1>3, <1>8, <4>1 DEF Inv, WalkInv
      <4> QED
        BY <1>2, <1>4, <3>1, <4>2
    <3> QED
      BY <3>3, <3>4
  <2>4. Wanted' = Wanted /\ \A k \in Rows : Before(k)' = Before(k)
    BY <1>3 DEF Wanted, Listed, Before
  <2>5. Wanted \subseteq Rows
    BY DEF Wanted, Listed
  <2> QED
    BY <1>6, <2>2, <2>3, <2>4, <2>5 DEF WalkInv
<1>9. WalkInv'
  BY <1>3, <1>8 DEF WalkInv
<1> QED
  BY <1>7, <1>9 DEF Inv

LEMMA GiveType ==
  ASSUME TypeOK, NEW items \in SUBSET Rows, NEW offset \in Nat, NEW total \in Nat,
         Give(items, offset, total)
  PROVE  client' \in [offset : Nat \cup {None}, seen : [Rows -> Nat], more : BOOLEAN,
                      moved : BOOLEAN]
<1>1. Cardinality(items) \in Nat
  BY FiniteRows
<1>2. nextPage(offset, Cardinality(items), total) \in Nat
  BY <1>1 DEF nextPage
<1>3. client \in [offset : Nat \cup {None}, seen : [Rows -> Nat], more : BOOLEAN,
                  moved : BOOLEAN]
  BY DEF TypeOK
<1>4. [k \in Rows |-> client.seen[k] + IF k \in items THEN 1 ELSE 0] \in [Rows -> Nat]
  BY <1>3
<1> QED
  BY <1>2, <1>3, <1>4 DEF Give

LEMMA AnswerInv ==
  ASSUME Inv, AnswerPage \/ \E size \in Asked : AnswerStale(size)
  PROVE  Inv'
<1>1. /\ scan' = Quiet /\ steady' = {} /\ moves' = 0
      /\ UNCHANGED <<kind, row, reported, diff, budget>>
  BY DEF AnswerPage, AnswerStale
<1>2. Took \subseteq Rows /\ Cardinality(Took) \in Nat
  BY FiniteRows DEF Took
<1>3. PICK items \in SUBSET Rows, offset \in Nat, total \in Nat : Give(items, offset, total)
  <2>1. CASE AnswerPage
    BY <1>2, <2>1 DEF AnswerPage, Inv, TypeOK
  <2>2. CASE \E size \in Asked : AnswerStale(size)
    <3>1. PICK size \in Asked : AnswerStale(size)
      BY <2>2
    <3>2. NormalOffset(client.offset) \in Nat
      BY NormalPage DEF Inv, TypeOK
    <3>3. Page(Took, NormalOffset(client.offset), NormalSize(size)) \in SUBSET Rows
      BY <1>2 DEF Page
    <3> QED
      BY <1>2, <3>1, <3>2, <3>3 DEF AnswerStale
  <2> QED
    BY <2>1, <2>2
<1>4. client' \in [offset : Nat \cup {None}, seen : [Rows -> Nat], more : BOOLEAN,
                   moved : BOOLEAN]
  BY <1>3, GiveType DEF Inv
<1>5. TypeOK'
  BY <1>1, <1>4, QuietType DEF Inv, TypeOK
<1> QED
  BY <1>1, <1>5, QuietInv, QuietType DEF Inv

LEMMA AnswerDiffInv == ASSUME Inv, AnswerDiff PROVE Inv'
<1>1. TypeOK'
  BY DEF AnswerDiff, Inv, TypeOK
<1>2. WalkInv'
  BY DEF AnswerDiff, WalkInv
<1> QED
  BY <1>1, <1>2 DEF Inv

LEMMA FailInv == ASSUME Inv, Fail PROVE Inv'
<1>1. TypeOK'
  BY QuietType DEF Fail, Inv, TypeOK
<1> QED
  BY <1>1, QuietInv, QuietType DEF Fail, Inv

(* A new review comes behind all others and is not stale: what is in front  *)
(* of a row the walk wants stays the same.                                  *)
LEMMA EnterInv == ASSUME Inv, NEW k \in Rows, Enter(k) PROVE Inv'
<1>1. budget' \in [Changes -> Nat]
  BY Spending DEF Enter, Inv, Changes
<1>2. /\ row' = [row EXCEPT ![k] = [row[k] EXCEPT !.listed = TRUE, !.counts = kind = "list"]]
      /\ client.more /\ moves' = moves + 1 /\ client' = [client EXCEPT !.moved = TRUE]
      /\ UNCHANGED <<kind, reported, scan, steady, diff>>
  BY DEF Enter, Moved, Inv, TypeOK
<1>3. row \in [Rows -> [listed : BOOLEAN, counts : BOOLEAN, hours : Hours]]
  BY DEF Inv, TypeOK
<1>4. row' \in [Rows -> [listed : BOOLEAN, counts : BOOLEAN, hours : Hours]]
  BY <1>2, <1>3
<1>5. TypeOK'
  <2>1. client' \in [offset : Nat \cup {None}, seen : [Rows -> Nat], more : BOOLEAN,
                     moved : BOOLEAN]
    BY <1>2 DEF Inv, TypeOK
  <2>2. moves' \in Nat /\ steady' \subseteq Rows
    BY <1>2 DEF Inv, TypeOK
  <2> QED
    BY <1>1, <1>2, <1>4, <2>1, <2>2 DEF Inv, TypeOK
<1>6. ASSUME kind = "stale" PROVE WalkInv'
  <2>1. Wanted' = Wanted /\ Listed' = Listed \cup {k} /\ \A j \in Listed : j < k
    <3>1. \A j \in Rows : j # k => row'[j] = row[j]
      BY <1>2, <1>3
    <3>2. row'[k].listed = TRUE /\ row'[k].counts = FALSE /\ ~row[k].listed
      BY <1>2, <1>3, <1>6 DEF Enter
    <3> QED
      BY <1>6, <3>1, <3>2 DEF Wanted, Listed, Enter
  <2>2. \A j \in Wanted : Before(j)' = Before(j)
    <3>1. \A j \in Wanted : j < k /\ j \in Int /\ k \in Int
      BY <2>1, RowsAssumption DEF Wanted, Rows, Listed
    <3> QED
      BY <2>1, <3>1 DEF Before
  <2> QED
    BY <1>2, <2>1, <2>2 DEF Inv, WalkInv
<1>7. WalkInv'
  BY <1>2, <1>6 DEF WalkInv
<1> QED
  BY <1>5, <1>7 DEF Inv

(* A review that leaves moves the later ones to the front.                  *)
LEMMA LeaveInv == ASSUME Inv, NEW k \in Rows, Leave(k) PROVE Inv'
<1>1. budget' \in [Changes -> Nat]
  BY Spending DEF Leave, Inv, Changes
<1>2. /\ row' = [row EXCEPT ![k] = [row[k] EXCEPT !.listed = FALSE, !.counts = FALSE]]
      /\ client.more /\ moves' = moves + 1 /\ client' = [client EXCEPT !.moved = TRUE]
      /\ steady' = steady \ {k} /\ UNCHANGED <<kind, reported, scan, diff>>
  BY DEF Leave, Moved, Inv, TypeOK
<1>3. row \in [Rows -> [listed : BOOLEAN, counts : BOOLEAN, hours : Hours]]
  BY DEF Inv, TypeOK
<1>4. row' \in [Rows -> [listed : BOOLEAN, counts : BOOLEAN, hours : Hours]]
      /\ \A j \in Rows : j # k => row'[j] = row[j]
  BY <1>2, <1>3
<1>5. TypeOK'
  <2>1. client' \in [offset : Nat \cup {None}, seen : [Rows -> Nat], more : BOOLEAN,
                     moved : BOOLEAN]
    BY <1>2 DEF Inv, TypeOK
  <2>2. moves' \in Nat /\ steady' \subseteq Rows
    BY <1>2 DEF Inv, TypeOK
  <2> QED
    BY <1>1, <1>2, <1>4, <2>1, <2>2 DEF Inv, TypeOK
<1>6. Wanted' \subseteq Wanted /\ Listed' \subseteq Listed /\ Listed \subseteq Rows
  BY <1>2, <1>3, <1>4 DEF Wanted, Listed
<1>7. ASSUME NEW j \in Rows
      PROVE  /\ Cardinality(Before(j)') <= Cardinality(Before(j))
             /\ Cardinality(Before(j)') \in Nat /\ Cardinality(Before(j)) \in Nat
  <2>1. Before(j)' \subseteq Before(j) /\ Before(j) \subseteq Rows
    BY <1>6 DEF Before
  <2> QED
    BY <2>1, FiniteRows, FS_Subset
<1>8. WalkInv'
  <2>1. scan.offset \in Nat
    BY DEF Inv, TypeOK
  <2>2. Wanted \subseteq Rows
    BY DEF Wanted, Listed
  <2>3. ASSUME kind = "stale", scan.pc \in {"count", "page"},
               NEW j \in Wanted', scan.taken[j].times = 1
        PROVE  Cardinality(Before(j)') < scan.offset
    <3>1. Cardinality(Before(j)) < scan.offset
      BY <1>6, <2>3 DEF Inv, WalkInv
    <3> QED
      BY <1>6, <1>7, <2>1, <2>2, <3>1
  <2> QED
    BY <1>2, <2>3 DEF Inv, WalkInv
<1> QED
  BY <1>5, <1>8 DEF Inv

LEMMA RowChangeInv ==
  ASSUME Inv, NEW k \in Rows,
         \/ \E counts \in BOOLEAN, hours \in Hours : Settle(k, counts, hours)
         \/ GoesStale(k)
  PROVE  Inv'
<1>1. row \in [Rows -> [listed : BOOLEAN, counts : BOOLEAN, hours : Hours]]
  BY DEF Inv, TypeOK
<1>2. CASE \E counts \in BOOLEAN, hours \in Hours : Settle(k, counts, hours)
  <2>1. PICK counts \in BOOLEAN, hours \in Hours : Settle(k, counts, hours)
    BY <1>2
  <2>2. budget' \in [Changes -> Nat]
    BY <2>1, Spending DEF Settle, Inv, Changes
  <2>3. row' = [row EXCEPT ![k] = [row[k] EXCEPT !.counts = counts, !.hours = hours]]
    BY <1>1, <2>1 DEF Settle
  <2>4. row' \in [Rows -> [listed : BOOLEAN, counts : BOOLEAN, hours : Hours]]
    BY <1>1, <2>3
  <2>5. TypeOK'
    BY <2>1, <2>2, <2>4 DEF Settle, Inv, TypeOK
  <2> QED
    BY <2>1, <2>5 DEF Settle, WalkInv, Inv
<1>3. CASE GoesStale(k)
  <2>1. budget' \in [Changes -> Nat]
    BY <1>3, Spending DEF GoesStale, Inv, Changes
  <2>2. row' = [row EXCEPT ![k] = [row[k] EXCEPT !.counts = TRUE]]
    BY <1>1, <1>3 DEF GoesStale
  <2>3. row' \in [Rows -> [listed : BOOLEAN, counts : BOOLEAN, hours : Hours]]
    BY <1>1, <2>2
  <2>4. TypeOK'
    BY <1>3, <2>1, <2>3 DEF GoesStale, Inv, TypeOK
  <2>5. WalkInv'
    BY <1>3 DEF GoesStale, WalkInv, Inv
  <2> QED
    BY <2>4, <2>5 DEF Inv
<1> QED
  BY <1>2, <1>3

LEMMA NextInv == Inv /\ [Next]_vars => Inv'
<1> SUFFICES ASSUME Inv, [Next]_vars PROVE Inv'
  OBVIOUS
<1>1. CASE \E size \in Asked : Ask(size)
  BY <1>1, AskInv
<1>2. CASE Count
  BY <1>2, CountInv
<1>3. CASE List
  BY <1>3, ListInv
<1>4. CASE AnswerPage \/ \E size \in Asked : AnswerStale(size)
  BY <1>4, AnswerInv
<1>5. CASE AnswerDiff
  BY <1>5, AnswerDiffInv
<1>6. CASE Fail
  BY <1>6, FailInv
<1>7. CASE \E k \in Rows : Enter(k)
  BY <1>7, EnterInv
<1>8. CASE \E k \in Rows : Leave(k)
  BY <1>8, LeaveInv
<1>9. CASE \/ \E k \in Rows : GoesStale(k)
           \/ \E k \in Rows, counts \in BOOLEAN, hours \in Hours : Settle(k, counts, hours)
  BY <1>9, RowChangeInv
<1>10. CASE UNCHANGED vars
  BY <1>10 DEF vars, Inv, TypeOK, WalkInv, Wanted, Listed, Before
<1> QED
  BY <1>1, <1>2, <1>3, <1>4, <1>5, <1>6, <1>7, <1>8, <1>9, <1>10 DEF Next

LEMMA InvHolds == Spec => []Inv
<1> QED
  BY InitInv, NextInv, PTL DEF Spec

--------------------------------------------------------------------------------
(* The listing, the request and the client keep their types.                *)
THEOREM TypeCorrect == Spec => []TypeOK
<1>1. Inv => TypeOK
  BY DEF Inv
<1> QED
  BY <1>1, InvHolds, PTL

(* ListStaleManuals takes no review twice, whatever is opened or decided    *)
(* while it walks, for any page size.                                       *)
THEOREM NoReviewTwice == Spec => []ReviewsTakenOnce
<1>1. Inv => ReviewsTakenOnce
  BY DEF Inv, WalkInv, ReviewsTakenOnce
<1> QED
  BY <1>1, InvHolds, PTL

--------------------------------------------------------------------------------
(* Ranks.  The rank of a row is how many of a set of rows are in front of   *)
(* it: OFFSET counts them.                                                  *)

Rank(ks, k) == Cardinality({j \in ks : j < k})

LEMMA RowsAreNumbers == Rows \subseteq Nat
  BY RowsAssumption DEF Rows

LEMMA RankType ==
  ASSUME NEW ks \in SUBSET Rows, NEW k
  PROVE  Rank(ks, k) \in Nat /\ Rank(ks, k) <= Cardinality(ks)
<1>1. {j \in ks : j < k} \in SUBSET ks /\ {j \in ks : j < k} \in SUBSET Rows
  OBVIOUS
<1> QED
  BY <1>1, FiniteRows, FS_Subset DEF Rank

LEMMA RankGrows ==
  ASSUME NEW ks \in SUBSET Rows, NEW j \in ks, NEW k \in Rows, j < k
  PROVE  Rank(ks, j) < Rank(ks, k)
<1> DEFINE lower(x) == {i \in ks : i < x}
<1>1. /\ lower(j) \in SUBSET Rows /\ lower(k) \in SUBSET Rows
      /\ j \notin lower(j) /\ lower(j) \cup {j} \in SUBSET lower(k)
  <2>1. j \in Nat /\ k \in Nat /\ \A i \in ks : i \in Nat
    BY RowsAreNumbers
  <2>2. \A i \in ks : i < j => i < k
    BY <2>1
  <2>3. ~(j < j)
    BY <2>1
  <2> QED
    BY <2>2, <2>3
<1>2. IsFiniteSet(lower(j)) /\ IsFiniteSet(lower(k))
      /\ Cardinality(lower(j)) \in Nat /\ Cardinality(lower(k)) \in Nat
  BY <1>1, FiniteRows
<1> HIDE DEF lower
<1>3. Cardinality(lower(j) \cup {j}) = Cardinality(lower(j)) + 1
  BY <1>1, <1>2, FS_AddElement
<1>4. Cardinality(lower(j) \cup {j}) <= Cardinality(lower(k))
  BY <1>1, <1>2, FS_Subset
<1>5. Cardinality(lower(j)) < Cardinality(lower(k))
  BY <1>2, <1>3, <1>4
<1> QED
  BY <1>5 DEF Rank, lower

LEMMA RankBound ==
  ASSUME NEW ks \in SUBSET Rows, NEW k \in ks
  PROVE  Rank(ks, k) < Cardinality(ks)
<1> DEFINE lower == {i \in ks : i < k}
<1>1. lower \in SUBSET ks /\ lower # ks
  BY RowsAssumption DEF Rows
<1>2. IsFiniteSet(ks) /\ Cardinality(ks) \in Nat
  BY FiniteRows
<1> HIDE DEF lower
<1>3. /\ Cardinality(lower) <= Cardinality(ks)
      /\ Cardinality(ks) = Cardinality(lower) => ks = lower
  BY <1>1, <1>2, FS_Subset
<1>4. Cardinality(lower) \in Nat
  BY <1>1, FiniteRows
<1>5. Cardinality(lower) < Cardinality(ks)
  BY <1>1, <1>2, <1>3, <1>4
<1> QED
  BY <1>5 DEF Rank, lower

LEMMA RankInjective ==
  ASSUME NEW ks \in SUBSET Rows, NEW j \in ks, NEW k \in ks, Rank(ks, j) = Rank(ks, k)
  PROVE  j = k
<1>1. Rank(ks, j) \in Nat /\ Rank(ks, k) \in Nat /\ j \in Int /\ k \in Int
  BY RankType, RowsAreNumbers
<1>2. ~(j < k) /\ ~(k < j)
  BY <1>1, RankGrows
<1> QED
  BY <1>1, <1>2

(* The ranks of n rows are 0 to n - 1, each taken once.                     *)
LEMMA RanksCount ==
  ASSUME NEW ks \in SUBSET Rows, NEW I \in SUBSET (0 .. Cardinality(ks) - 1)
  PROVE  Cardinality({k \in ks : Rank(ks, k) \in I}) = Cardinality(I)
<1> DEFINE n == Cardinality(ks)
           f == [k \in ks |-> Rank(ks, k)]
           S == {k \in ks : Rank(ks, k) \in I}
           g == [k \in S |-> Rank(ks, k)]
<1>1. IsFiniteSet(ks) /\ n \in Nat /\ S \in SUBSET Rows
  BY FiniteRows
<1>2. f \in [ks -> 0 .. n - 1]
  <2>1. \A k \in ks : Rank(ks, k) \in 0 .. n - 1
    BY <1>1, RankType, RankBound
  <2> QED
    BY <2>1
<1>3. f \in Injection(ks, 0 .. n - 1)
  BY <1>2, RankInjective DEF Injection, IsInjective
<1>4. IsFiniteSet(0 .. n - 1) /\ Cardinality(0 .. n - 1) = n
  <2>1. 0 \in Int /\ n - 1 \in Int
    BY <1>1
  <2>2. IsFiniteSet(0 .. n - 1) /\ Cardinality(0 .. n - 1) = IF 0 > n - 1 THEN 0 ELSE n - 1 - 0 + 1
    BY <2>1, FS_Interval
  <2> HIDE DEF n
  <2> QED
    BY <1>1, <2>2
<1>5. f \in Surjection(ks, 0 .. n - 1)
  BY <1>3, <1>4, FS_Injection
<1>6. \A i \in I : \E k \in ks : Rank(ks, k) = i
  BY <1>5 DEF Surjection
<1>7. g \in Bijection(S, I)
  <2>1. g \in [S -> I]
    OBVIOUS
  <2>2. g \in Injection(S, I)
    BY <2>1, RankInjective DEF Injection, IsInjective
  <2>3. \A i \in I : \E k \in S : g[k] = i
    BY <1>6
  <2> QED
    BY <2>1, <2>2, <2>3 DEF Bijection, Surjection
<1>8. ExistsBijection(S, I)
  BY <1>7 DEF ExistsBijection
<1> QED
  BY <1>1, <1>8, FiniteRows, FS_Bijection

(* A page is as full as the rows from its offset on allow.                  *)
LEMMA PageSize ==
  ASSUME NEW ks \in SUBSET Rows, NEW o \in Nat, NEW s \in Nat
  PROVE  /\ Cardinality(ks) >= o + s => Cardinality(Page(ks, o, s)) = s
         /\ Cardinality(ks) < o + s =>
              Cardinality(Page(ks, o, s)) =
                IF Cardinality(ks) <= o THEN 0 ELSE Cardinality(ks) - o
<1> DEFINE n == Cardinality(ks)
<1>1. n \in Nat
  BY FiniteRows
<1>2. \A k \in ks : Rank(ks, k) \in Nat /\ Rank(ks, k) < n
  BY RankType, RankBound
<1>3. CASE n >= o + s
  <2>1. o .. o + s - 1 \in SUBSET (0 .. n - 1)
    BY <1>1, <1>3
  <2>2. Page(ks, o, s) = {k \in ks : Rank(ks, k) \in o .. o + s - 1}
    BY DEF Page, Rank
  <2>3. Cardinality(o .. o + s - 1) = s
    <3>1. o \in Int /\ o + s - 1 \in Int
      OBVIOUS
    <3> QED
      BY <3>1, FS_Interval
  <2>4. Cardinality({k \in ks : Rank(ks, k) \in o .. o + s - 1}) = Cardinality(o .. o + s - 1)
    BY <2>1, RanksCount
  <2>5. Cardinality(Page(ks, o, s)) = s
    BY <2>2, <2>3, <2>4
  <2> QED
    BY <1>1, <1>3, <2>5
<1>4. CASE n < o + s
  <2>1. o .. n - 1 \in SUBSET (0 .. n - 1)
    BY <1>1
  <2>2. Page(ks, o, s) = {k \in ks : Rank(ks, k) \in o .. n - 1}
    <3>1. \A k \in ks : Rank(ks, k) \in o .. o + s - 1 <=> Rank(ks, k) \in o .. n - 1
      BY <1>1, <1>2, <1>4
    <3> QED
      BY <3>1 DEF Page, Rank
  <2>3. Cardinality(o .. n - 1) = IF n <= o THEN 0 ELSE n - o
    <3>1. o \in Int /\ n - 1 \in Int
      BY <1>1
    <3>2. Cardinality(o .. n - 1) = IF o > n - 1 THEN 0 ELSE n - 1 - o + 1
      BY <3>1, FS_Interval
    <3> HIDE DEF n
    <3> QED
      BY <1>1, <3>2
  <2>4. Cardinality({k \in ks : Rank(ks, k) \in o .. n - 1}) = Cardinality(o .. n - 1)
    BY <2>1, RanksCount
  <2>5. Cardinality(Page(ks, o, s)) = IF n <= o THEN 0 ELSE n - o
    BY <2>2, <2>3, <2>4
  <2> QED
    BY <1>1, <1>4, <2>5
<1> QED
  BY <1>1, <1>3, <1>4

(* A row that comes moves those behind it back by one.                      *)
LEMMA RankEnter ==
  ASSUME NEW ks \in SUBSET Rows, NEW k \in Rows \ ks, NEW j \in Rows
  PROVE  Rank(ks \cup {k}, j) = Rank(ks, j) + IF k < j THEN 1 ELSE 0
<1> DEFINE lower == {i \in ks : i < j}
<1>1. lower \in SUBSET Rows /\ k \notin lower
  OBVIOUS
<1>2. {i \in ks \cup {k} : i < j} = IF k < j THEN lower \cup {k} ELSE lower
  OBVIOUS
<1>3. IsFiniteSet(lower) /\ Cardinality(lower) \in Nat
  BY <1>1, FiniteRows
<1> HIDE DEF lower
<1>4. Cardinality(lower \cup {k}) = Cardinality(lower) + 1
  BY <1>1, <1>3, FS_AddElement
<1>5. Rank(ks \cup {k}, j) = IF k < j THEN Cardinality(lower) + 1 ELSE Cardinality(lower)
  BY <1>2, <1>4 DEF Rank
<1>6. Rank(ks, j) = Cardinality(lower)
  BY DEF Rank, lower
<1> QED
  BY <1>3, <1>5, <1>6

LEMMA RankLeave ==
  ASSUME NEW ks \in SUBSET Rows, NEW k \in ks, NEW j \in Rows
  PROVE  Rank(ks, j) = Rank(ks \ {k}, j) + IF k < j THEN 1 ELSE 0
<1>1. ks \ {k} \in SUBSET Rows /\ k \in Rows \ (ks \ {k}) /\ (ks \ {k}) \cup {k} = ks
  OBVIOUS
<1> QED
  BY <1>1, RankEnter

LEMMA RankUp ==
  ASSUME NEW ks \in SUBSET Rows, NEW j \in Rows, NEW k \in Rows, j < k
  PROVE  Rank(ks, j) <= Rank(ks, k)
<1>1. \A i \in ks : i < j => i < k
  BY RowsAreNumbers
<1>2. {i \in ks : i < k} \in SUBSET Rows /\ {i \in ks : i < j} \in SUBSET {i \in ks : i < k}
  BY <1>1
<1> QED
  BY <1>2, FiniteRows, FS_Subset DEF Rank

LEMMA Fewer ==
  ASSUME NEW S \in SUBSET Rows, NEW T \in SUBSET S
  PROVE  Cardinality(T) \in Nat /\ Cardinality(S) \in Nat /\ Cardinality(T) <= Cardinality(S)
<1>1. T \in SUBSET Rows
  OBVIOUS
<1> QED
  BY <1>1, FiniteRows, FS_Subset

LEMMA OneMore ==
  ASSUME NEW S \in SUBSET Rows, NEW T \in SUBSET Rows, NEW x, T \subseteq S \cup {x}
  PROVE  Cardinality(T) <= Cardinality(S) + 1
<1>1. IsFiniteSet(S) /\ Cardinality(S) \in Nat /\ Cardinality(T) \in Nat
  BY FiniteRows
<1>2. /\ IsFiniteSet(S \cup {x})
      /\ Cardinality(S \cup {x}) = IF x \in S THEN Cardinality(S) ELSE Cardinality(S) + 1
  BY <1>1, FS_AddElement
<1>3. T \in SUBSET (S \cup {x})
  OBVIOUS
<1>4. Cardinality(T) <= Cardinality(S \cup {x})
  BY <1>2, <1>3, FS_Subset
<1> QED
  BY <1>1, <1>2, <1>4

--------------------------------------------------------------------------------
(* How far a walk goes wrong.  Missed are the rows it had to take and has   *)
(* passed by, Again those it has taken and will meet once more, or has met. *)
(* A row that leaves puts at most one row among Missed, one that comes puts *)
(* at most one among Again and at most one behind the last page counted.    *)

Missed == {k \in steady : scan.taken[k].times = 0 /\ Rank(Listed, k) < scan.offset}

Twice == {k \in Rows : scan.taken[k].times > 1}

Again ==
  Twice \cup {k \in Listed : scan.taken[k].times > 0 /\ Rank(Listed, k) >= scan.offset}

Walking == kind # "list" /\ scan.pc \in {"count", "page"}

ErrInv ==
  /\ steady \subseteq Wanted
  /\ Walking => Cardinality(Missed) <= moves /\ Cardinality(Again) <= moves
  /\ Walking /\ scan.pc = "page" =>
       Cardinality(Missed) + Cardinality(Listed) <= moves + scan.total
  /\ WalkErrsByMoves

LEMMA SetTypes ==
  ASSUME TypeOK, steady \subseteq Wanted
  PROVE  /\ Listed \in SUBSET Rows /\ Wanted \in SUBSET Listed
         /\ Missed \in SUBSET Rows /\ Again \in SUBSET Rows
         /\ Took \in SUBSET Rows /\ Twice \in SUBSET Again
         /\ steady \ Took \in SUBSET Rows
         /\ scan.offset \in Nat /\ scan.size \in Nat \ {0} /\ scan.total \in Nat /\ moves \in Nat
         /\ \A k \in Rows : scan.taken[k].times \in Nat
<1>1. Listed \in SUBSET Rows /\ Wanted \in SUBSET Listed
  BY DEF Listed, Wanted
<1>2. /\ scan.offset \in Nat /\ scan.size \in 1 .. MaxPageSize /\ scan.total \in Nat
      /\ moves \in Nat /\ \A k \in Rows : scan.taken[k].times \in Nat
  BY DEF TypeOK
<1>3. scan.size \in Nat \ {0}
  BY <1>2, PageSizeAssumption
<1> QED
  BY <1>1, <1>2, <1>3 DEF Missed, Again, Took, Twice

LEMMA ErrQuiet ==
  ASSUME scan' = Quiet, steady' = {}
  PROVE  ErrInv'
  BY QuietType DEF ErrInv, Walking, WalkErrsByMoves

LEMMA AskErr ==
  ASSUME TypeOK, TypeOK', NEW size \in Asked, Ask(size)
  PROVE  ErrInv'
<1>1. steady' = Wanted /\ moves' = 0 /\ UNCHANGED <<kind, row>>
  BY DEF Ask
<1>2. steady' \subseteq Wanted'
  BY <1>1 DEF Wanted, Listed
<1>3. scan'.pc = "count"
  BY QuietType DEF Ask
<1>4. ASSUME kind # "list"
      PROVE  scan'.offset = 0 /\ \A k \in Rows : scan'.taken[k].times = 0
  <2>1. scan' = [Quiet EXCEPT !.pc = "count", !.size = MaxPageSize]
    BY <1>4 DEF Ask
  <2>2. scan'.offset = Quiet.offset /\ scan'.taken = Quiet.taken
    BY <2>1, QuietType
  <2>3. Quiet.offset = 0
    BY DEF Quiet
  <2> QED
    BY <2>2, <2>3, QuietType
<1>5. ASSUME kind # "list"
      PROVE  Cardinality(Missed)' = 0 /\ Cardinality(Again)' = 0
  <2>1. \A k \in Rows : Rank(Listed, k)' \in Nat
    <3>1. Listed' \in SUBSET Rows
      BY DEF Listed
    <3> QED
      BY <3>1, RankType DEF Rank
  <2>2. steady' \subseteq Rows /\ Listed' \subseteq Rows
    BY DEF TypeOK, Listed
  <2>3. \A k \in Rows : ~(Rank(Listed, k)' < 0)
    BY <2>1
  <2>4. Missed' = {} /\ Again' = {}
    BY <1>4, <1>5, <2>2, <2>3 DEF Missed, Again, Twice
  <2> QED
    BY <2>4, FS_EmptySet
<1> QED
  BY <1>1, <1>2, <1>3, <1>5 DEF ErrInv, Walking, WalkErrsByMoves

LEMMA CountErr ==
  ASSUME TypeOK, ErrInv, Count
  PROVE  ErrInv'
<1>1. /\ scan' = [scan EXCEPT !.pc = "page", !.total = Cardinality(Listed)] /\ scan.pc = "count"
      /\ UNCHANGED <<kind, row, steady, moves>>
  BY DEF Count
<1>2. /\ scan'.pc = "page" /\ scan'.taken = scan.taken /\ scan'.offset = scan.offset
      /\ scan'.total = Cardinality(Listed)
  BY <1>1 DEF TypeOK
<1>3. Listed' = Listed /\ Wanted' = Wanted /\ steady' = steady
  BY <1>1 DEF Listed, Wanted
<1>4. Missed' = Missed /\ Again' = Again
  BY <1>2, <1>3 DEF Missed, Again, Twice, Rank
<1>5. Cardinality(Missed) \in Nat /\ Cardinality(Listed) \in Nat /\ moves \in Nat
  BY SetTypes, FiniteRows DEF ErrInv
<1>6. Walking' => Walking
  BY <1>1 DEF Walking
<1>7. /\ Cardinality(Missed)' = Cardinality(Missed) /\ Cardinality(Again)' = Cardinality(Again)
      /\ Cardinality(Listed)' = Cardinality(Listed)
  BY <1>3, <1>4
<1> QED
  BY <1>1, <1>2, <1>3, <1>5, <1>6, <1>7 DEF ErrInv, WalkErrsByMoves

(* What a page adds to what the walk has taken.                             *)
LEMMA PageTaken ==
  ASSUME TypeOK, List
  PROVE  /\ scan'.pc = IF kind = "list" \/ LastPage(Items) THEN "answer" ELSE "count"
         /\ scan'.offset = IF kind = "list" \/ LastPage(Items) THEN scan.offset
                           ELSE scan.offset + Cardinality(Items)
         /\ scan'.total = scan.total /\ scan'.size = scan.size
         /\ \A k \in Rows : scan'.taken[k].times =
              IF k \in Items /\ row[k].counts THEN scan.taken[k].times + 1
              ELSE scan.taken[k].times
         /\ \A k \in Rows : k \in Items <=>
              k \in Listed /\ Rank(Listed, k) \in scan.offset .. scan.offset + scan.size - 1
         /\ scan.pc = "page" /\ UNCHANGED <<kind, row, client, steady, moves>>
<1>1. scan \in [pc : {"idle", "count", "page", "answer", "done"}, offset : Nat,
                size : 1 .. MaxPageSize, total : Nat,
                taken : [Rows -> [times : Nat, hours : Int]]]
  BY DEF TypeOK
<1>2. \A k \in Rows : Taken(Items)[k].times =
        IF k \in Items /\ row[k].counts THEN scan.taken[k].times + 1 ELSE scan.taken[k].times
  BY <1>1 DEF Taken
<1>3. \A k \in Rows : k \in Items <=>
        k \in Listed /\ Rank(Listed, k) \in scan.offset .. scan.offset + scan.size - 1
  BY DEF Items, Page, Rank
<1> QED
  BY <1>1, <1>2, <1>3 DEF List

LEMMA ListErr ==
  ASSUME TypeOK, ErrInv, List
  PROVE  ErrInv'
<1> DEFINE o == scan.offset
           s == scan.size
           n == Cardinality(Listed)
           Beyond == {k \in Listed : Rank(Listed, k) \in (o + s) .. (n - 1)}
<1>1. steady \subseteq Wanted /\ Listed' = Listed /\ Wanted' = Wanted /\ steady' = steady
      /\ moves' = moves /\ kind' = kind
  BY PageTaken DEF ErrInv, Listed, Wanted
<1>2. /\ Listed \in SUBSET Rows /\ o \in Nat /\ s \in Nat \ {0} /\ n \in Nat
      /\ moves \in Nat /\ scan.total \in Nat /\ Missed \in SUBSET Rows
      /\ Again \in SUBSET Rows /\ Wanted \in SUBSET Listed
      /\ \A k \in Rows : scan.taken[k].times \in Nat
  BY <1>1, SetTypes, FiniteRows
<1>3. \A k \in Listed : Rank(Listed, k) \in Nat /\ Rank(Listed, k) < n
  BY <1>2, RankType, RankBound
<1>4. \A k \in Wanted : row[k].counts /\ k \in Rows
  BY <1>2 DEF Wanted
<1>5. Items = Page(Listed, o, s)
  BY DEF Items
<1>6. /\ n >= o + s => Cardinality(Items) = s
      /\ n < o + s => Cardinality(Items) = IF n <= o THEN 0 ELSE n - o
  BY <1>2, <1>5, PageSize
<1>7. ASSUME kind = "list" PROVE ErrInv'
  BY <1>1, <1>7 DEF ErrInv, Walking, WalkErrsByMoves
<1>8. ASSUME kind # "list"
      PROVE  /\ Cardinality(Missed) <= moves /\ Cardinality(Again) <= moves
             /\ Cardinality(Missed) + n <= moves + scan.total
  BY <1>8, PageTaken DEF ErrInv, Walking
<1>9. Twice' \subseteq Again
  <2>1. ASSUME NEW k \in Rows, scan'.taken[k].times > 1 PROVE k \in Again
    <3>1. CASE k \in Items
      <4>1. k \in Listed /\ Rank(Listed, k) \in o .. o + s - 1
        BY <3>1, PageTaken
      <4>2. Rank(Listed, k) >= o /\ scan.taken[k].times > 0
        BY <1>2, <1>3, <2>1, <4>1, PageTaken
      <4> QED
        BY <4>1, <4>2 DEF Again
    <3>2. CASE k \notin Items
      BY <2>1, <3>2, PageTaken DEF Again, Twice
    <3> QED
      BY <3>1, <3>2
  <2> QED
    BY <2>1 DEF Twice
<1>10. ASSUME NEW k \in steady, scan'.taken[k].times = 0
       PROVE  scan.taken[k].times = 0 /\ (Rank(Listed, k) < o \/ Rank(Listed, k) >= o + s)
              /\ k \in Listed /\ k \in Rows
  <2>1. k \in Wanted /\ k \in Listed /\ k \in Rows /\ row[k].counts
    BY <1>1, <1>2, <1>4
  <2>2. k \notin Items
    BY <1>2, <1>10, <2>1, PageTaken
  <2>3. scan.taken[k].times = 0 /\ Rank(Listed, k) \notin o .. o + s - 1
    BY <1>10, <2>1, <2>2, PageTaken
  <2> QED
    BY <1>2, <1>3, <2>1, <2>3
<1>11. ASSUME kind # "list", ~LastPage(Items) PROVE ErrInv'
  <2>1. scan'.pc = "count" /\ scan'.offset = o + s /\ Cardinality(Items) = s
    <3>1. ~(Cardinality(Items) < s)
      BY <1>11 DEF LastPage
    <3>2. Cardinality(Items) = s
      BY <1>2, <1>6, <3>1
    <3> QED
      BY <1>11, <3>2, PageTaken
  <2>2. Missed' \in SUBSET Missed
    BY <1>1, <1>2, <1>3, <1>10, <2>1 DEF Missed
  <2>3. Again' \in SUBSET Again
    <3>1. ASSUME NEW k \in Listed, scan'.taken[k].times > 0, Rank(Listed, k) >= o + s
          PROVE  k \in Again
      <4>1. k \notin Items
        BY <1>2, <1>3, <3>1, PageTaken
      <4>2. scan.taken[k].times > 0 /\ Rank(Listed, k) >= o
        BY <1>2, <1>3, <3>1, <4>1, PageTaken
      <4> QED
        BY <4>2 DEF Again
    <3> QED
      BY <1>1, <1>9, <2>1, <3>1 DEF Again
  <2>4. Cardinality(Missed') <= Cardinality(Missed) /\ Cardinality(Again') <= Cardinality(Again)
        /\ Cardinality(Missed') \in Nat /\ Cardinality(Again') \in Nat
        /\ Cardinality(Missed) \in Nat /\ Cardinality(Again) \in Nat
    BY <1>2, <2>2, <2>3, Fewer
  <2>5. Cardinality(Missed') <= moves /\ Cardinality(Again') <= moves
    BY <1>2, <1>8, <1>11, <2>4
  <2> QED
    BY <1>1, <2>1, <2>5 DEF ErrInv, Walking, WalkErrsByMoves
<1>12. ASSUME kind # "list", LastPage(Items) PROVE ErrInv'
  <2>1. scan'.pc = "answer"
    BY <1>12, PageTaken
  <2>2. (steady \ Took)' \subseteq Missed \cup Beyond
    <3>1. ASSUME NEW k \in steady, ~(scan'.taken[k].times > 0) PROVE k \in Missed \cup Beyond
      <4>1. scan'.taken[k].times = 0
        <5>1. k \in Rows
          BY <1>1, <1>4
        <5> QED
          BY <1>2, <3>1, <5>1, PageTaken
      <4> QED
        BY <1>2, <1>3, <1>10, <4>1 DEF Missed
    <3> QED
      BY <1>1, <1>2, <1>4, <3>1 DEF Took
  <2>3. Cardinality(Beyond) = IF n <= o + s THEN 0 ELSE n - (o + s)
    <3>1. o + s \in Int /\ n - 1 \in Int /\ (o + s) .. (n - 1) \in SUBSET (0 .. n - 1)
      BY <1>2
    <3>2. Cardinality((o + s) .. (n - 1)) = IF o + s > n - 1 THEN 0 ELSE n - 1 - (o + s) + 1
      BY <3>1, FS_Interval
    <3>3. Cardinality(Beyond) = Cardinality((o + s) .. (n - 1))
      BY <1>2, <3>1, RanksCount
    <3> HIDE DEF n, o, s, Beyond
    <3> QED
      BY <1>2, <3>2, <3>3
  <2>4. Beyond \in SUBSET Rows
    BY <1>2
  <2> HIDE DEF Beyond
  <2>5. Cardinality((steady \ Took)') <= Cardinality(Missed) + Cardinality(Beyond)
    <3>1. IsFiniteSet(Missed) /\ IsFiniteSet(Beyond) /\ Cardinality(Missed \cap Beyond) \in Nat
          /\ Cardinality(Missed) \in Nat /\ Cardinality(Beyond) \in Nat
      <4>1. Missed \cap Beyond \in SUBSET Rows
        BY <2>4
      <4> QED
        BY <1>2, <2>4, <4>1, FiniteRows
    <3>2. Cardinality(Missed \cup Beyond)
            = Cardinality(Missed) + Cardinality(Beyond) - Cardinality(Missed \cap Beyond)
      BY <3>1, FS_Union
    <3>3. Missed \cup Beyond \in SUBSET Rows /\ (steady \ Took)' \in SUBSET (Missed \cup Beyond)
      BY <1>2, <2>2, <2>4
    <3>4. /\ Cardinality((steady \ Took)') <= Cardinality(Missed \cup Beyond)
          /\ Cardinality((steady \ Took)') \in Nat
      BY <3>3, Fewer
    <3> QED
      BY <3>1, <3>2, <3>4
  <2>6. Cardinality(Missed) + Cardinality(Beyond) <= moves
    <3>1. Cardinality(Missed) \in Nat
      BY <1>2, FiniteRows
    <3>2. CASE n <= o + s
      BY <1>8, <1>12, <2>3, <3>1, <3>2
    <3>3. CASE n > o + s
      <4>1. Cardinality(Items) = s
        BY <1>2, <1>6, <3>3
      <4>2. o + s >= scan.total
        BY <1>2, <1>12, <4>1 DEF LastPage
      <4>3. Cardinality(Missed) + n <= moves + scan.total
        BY <1>8, <1>12
      <4>4. ~(n <= o + s)
        BY <1>2, <3>3
      <4>5. Cardinality(Beyond) = n - (o + s)
        BY <2>3, <4>4
      <4> HIDE DEF n, o, s
      <4> QED
        BY <1>2, <3>1, <4>2, <4>3, <4>5
    <3> QED
      BY <1>2, <3>2, <3>3
  <2>7. Cardinality((steady \ Took)') <= moves
    <3>1. (steady \ Took)' \in SUBSET Rows
      BY <1>2, <2>2, <2>4
    <3>2. Cardinality((steady \ Took)') \in Nat /\ Cardinality(Missed) \in Nat
          /\ Cardinality(Beyond) \in Nat
      BY <1>2, <2>4, <3>1, FiniteRows
    <3> QED
      BY <1>2, <2>5, <2>6, <3>2
  <2>8. Cardinality(Twice') <= moves
    <3>1. Twice' \in SUBSET Again
      BY <1>9
    <3>2. Cardinality(Twice') <= Cardinality(Again) /\ Cardinality(Twice') \in Nat
          /\ Cardinality(Again) \in Nat
      BY <1>2, <3>1, Fewer
    <3> QED
      BY <1>2, <1>8, <1>12, <3>2
  <2> QED
    BY <1>1, <2>1, <2>7, <2>8 DEF ErrInv, Walking, WalkErrsByMoves, Twice
<1> QED
  BY <1>7, <1>11, <1>12

(* A row that comes passes none of those the walk had to take, and one at   *)
(* most moves back over the edge of the next page.                          *)
LEMMA EnterErr ==
  ASSUME TypeOK, ErrInv, NEW k \in Rows, Enter(k)
  PROVE  ErrInv'
<1> DEFINE o == scan.offset
<1>1. /\ row' = [row EXCEPT ![k] = [row[k] EXCEPT !.listed = TRUE, !.counts = kind = "list"]]
      /\ ~row[k].listed /\ moves' = moves + 1
      /\ UNCHANGED <<kind, reported, scan, steady, diff>>
  BY DEF Enter, Moved, TypeOK
<1>2. /\ \A j \in Rows : j # k => row'[j] = row[j]
      /\ row'[k].listed
  BY <1>1 DEF TypeOK
<1>3. Listed' = Listed \cup {k} /\ k \notin Listed /\ Wanted \subseteq Wanted'
  BY <1>1, <1>2 DEF Listed, Wanted
<1>4. /\ Listed \in SUBSET Rows /\ Missed \in SUBSET Rows /\ Again \in SUBSET Rows
      /\ o \in Nat /\ scan.total \in Nat /\ moves \in Nat /\ Wanted \in SUBSET Listed
      /\ steady \subseteq Wanted
  BY SetTypes DEF ErrInv
<1>5. \A j \in Rows : /\ Rank(Listed, j) \in Nat
                      /\ Rank(Listed, j)' = Rank(Listed, j) + IF k < j THEN 1 ELSE 0
  <2>1. k \in Rows \ Listed
    BY <1>3
  <2>2. \A j \in Rows : Rank(Listed, j)' = Rank(Listed \cup {k}, j)
    BY <1>3 DEF Rank
  <2> QED
    BY <1>4, <2>1, <2>2, RankType, RankEnter
<1>6. Missed' \in SUBSET Missed
  <2>1. ASSUME NEW j \in steady, scan.taken[j].times = 0, Rank(Listed, j)' < o
        PROVE  j \in Missed
    <3>1. j \in Rows
      BY <1>4
    <3>2. Rank(Listed, j) < o
      BY <1>4, <1>5, <2>1, <3>1
    <3> QED
      BY <2>1, <3>2 DEF Missed
  <2> QED
    BY <1>1, <2>1 DEF Missed
<1>7. \E x : Again' \in SUBSET (Again \cup {x})
  <2>1. Twice' = Twice /\ Twice \subseteq Again
    BY <1>1 DEF Twice, Again
  <2>2. CASE Rank(Listed, k) >= o
    <3>1. ASSUME NEW j \in Listed, scan.taken[j].times > 0, Rank(Listed, j)' >= o
          PROVE  j \in Again
      <4>1. j \in Rows /\ j \in Nat /\ k \in Nat
        BY <1>4, RowsAreNumbers
      <4>2. k < j => Rank(Listed, k) <= Rank(Listed, j)
        BY <1>4, <4>1, RankUp
      <4>3. Rank(Listed, j) >= o
        BY <1>4, <1>5, <2>2, <3>1, <4>1, <4>2
      <4> QED
        BY <3>1, <4>3 DEF Again
    <3> QED
      BY <1>1, <1>3, <2>1, <3>1 DEF Again
  <2>3. CASE ~(Rank(Listed, k) >= o)
    <3>1. \E x : \A j \in Listed : Rank(Listed, j) = o - 1 => j = x
      BY <1>4, RankInjective
    <3>2. PICK x : \A j \in Listed : Rank(Listed, j) = o - 1 => j = x
      BY <3>1
    <3>3. ~(Rank(Listed, k)' >= o)
      <4>1. ~(k < k)
        BY RowsAreNumbers
      <4> QED
        BY <1>4, <1>5, <2>3, <4>1
    <3>4. ASSUME NEW j \in Listed, scan.taken[j].times > 0, Rank(Listed, j)' >= o
          PROVE  j \in Again \cup {x}
      <4>1. Rank(Listed, j) >= o \/ Rank(Listed, j) = o - 1
        <5>1. j \in Rows
          BY <1>4
        <5> QED
          BY <1>4, <1>5, <3>4, <5>1
      <4> QED
        BY <3>2, <3>4, <4>1 DEF Again
    <3> QED
      BY <1>1, <1>3, <2>1, <3>3, <3>4 DEF Again
  <2> QED
    BY <2>2, <2>3
<1>8. /\ Cardinality(Missed') <= Cardinality(Missed)
      /\ Cardinality(Missed') \in Nat /\ Cardinality(Missed) \in Nat
  BY <1>4, <1>6, Fewer
<1>9. /\ Cardinality(Again') <= Cardinality(Again) + 1
      /\ Cardinality(Again') \in Nat /\ Cardinality(Again) \in Nat
  <2>1. PICK x : Again' \in SUBSET (Again \cup {x})
    BY <1>7
  <2>2. Again' \in SUBSET Rows
    BY <1>1, <1>3, <1>4 DEF Again, Twice
  <2> QED
    BY <1>4, <2>1, <2>2, OneMore, FiniteRows
<1>10. Cardinality(Listed') = Cardinality(Listed) + 1 /\ Cardinality(Listed) \in Nat
  <2>1. IsFiniteSet(Listed) /\ Cardinality(Listed) \in Nat
    BY <1>4, FiniteRows
  <2> QED
    BY <1>3, <2>1, FS_AddElement
<1>11. steady' \subseteq Wanted'
  BY <1>1, <1>3, <1>4
<1>12. ASSUME Walking
       PROVE  Cardinality(Missed') <= moves + 1 /\ Cardinality(Again') <= moves + 1
  BY <1>4, <1>8, <1>9, <1>12 DEF ErrInv
<1>13. ASSUME Walking, scan.pc = "page"
       PROVE  Cardinality(Missed') + Cardinality(Listed') <= moves + 1 + scan.total
  <2>1. Cardinality(Missed) + Cardinality(Listed) <= moves + scan.total
    BY <1>13 DEF ErrInv
  <2> QED
    BY <1>4, <1>8, <1>10, <2>1
<1>14. WalkErrsByMoves'
  <2>1. ASSUME scan.pc = "answer", kind # "list"
        PROVE  /\ Cardinality(steady \ Took) <= moves + 1
               /\ Cardinality(Twice) <= moves + 1
    <3>1. Cardinality(steady \ Took) <= moves /\ Cardinality(Twice) <= moves
      BY <2>1 DEF ErrInv, WalkErrsByMoves, Twice
    <3>2. steady \ Took \in SUBSET Rows /\ Twice \in SUBSET Rows
      BY <1>4 DEF Twice
    <3>3. Cardinality(steady \ Took) \in Nat /\ Cardinality(Twice) \in Nat
      BY <3>2, FiniteRows
    <3> QED
      BY <1>4, <3>1, <3>3
  <2>2. (steady \ Took)' = steady \ Took /\ Twice' = Twice
    BY <1>1 DEF Took, Twice
  <2> QED
    BY <1>1, <2>1, <2>2 DEF WalkErrsByMoves, Twice
<1> QED
  BY <1>1, <1>11, <1>12, <1>13, <1>14 DEF ErrInv, Walking

(* A row that leaves lets one row at most slip over the edge of the next    *)
(* page to the front, where the walk has been.                              *)
LEMMA LeaveErr ==
  ASSUME TypeOK, ErrInv, NEW k \in Rows, Leave(k)
  PROVE  ErrInv'
<1> DEFINE o == scan.offset
<1>1. /\ row' = [row EXCEPT ![k] = [row[k] EXCEPT !.listed = FALSE, !.counts = FALSE]]
      /\ row[k].listed /\ moves' = moves + 1 /\ steady' = steady \ {k}
      /\ UNCHANGED <<kind, reported, scan, diff>>
  BY DEF Leave, Moved, TypeOK
<1>2. /\ \A j \in Rows : j # k => row'[j] = row[j]
      /\ ~row'[k].listed
  BY <1>1 DEF TypeOK
<1>3. Listed' = Listed \ {k} /\ k \in Listed /\ Wanted' = Wanted \ {k}
  BY <1>1, <1>2 DEF Listed, Wanted
<1>4. /\ Listed \in SUBSET Rows /\ Missed \in SUBSET Rows /\ Again \in SUBSET Rows
      /\ o \in Nat /\ scan.total \in Nat /\ moves \in Nat /\ Wanted \in SUBSET Listed
      /\ steady \subseteq Wanted
  BY SetTypes DEF ErrInv
<1>5. \A j \in Rows : /\ Rank(Listed, j) \in Nat /\ Rank(Listed, j)' \in Nat
                      /\ Rank(Listed, j) = Rank(Listed, j)' + IF k < j THEN 1 ELSE 0
  <2>1. k \in Listed /\ Listed \ {k} \in SUBSET Rows
    BY <1>3, <1>4
  <2>2. \A j \in Rows : Rank(Listed, j)' = Rank(Listed \ {k}, j)
    BY <1>3 DEF Rank
  <2> QED
    BY <1>4, <2>1, <2>2, RankType, RankLeave
<1>6. \E x : Missed' \in SUBSET (Missed \cup {x})
  <2>1. \E x : \A j \in Listed : Rank(Listed, j) = o => j = x
    BY <1>4, RankInjective
  <2>2. PICK x : \A j \in Listed : Rank(Listed, j) = o => j = x
    BY <2>1
  <2>3. ASSUME NEW j \in steady, scan.taken[j].times = 0, Rank(Listed, j)' < o
        PROVE  j \in Missed \cup {x}
    <3>1. j \in Rows /\ j \in Listed
      BY <1>4
    <3>2. Rank(Listed, j) < o \/ Rank(Listed, j) = o
      BY <1>4, <1>5, <2>3, <3>1
    <3> QED
      BY <2>2, <2>3, <3>1, <3>2 DEF Missed
  <2> QED
    BY <1>1, <2>3 DEF Missed
<1>7. Again' \in SUBSET Again
  <2>1. Twice' = Twice /\ Twice \subseteq Again
    BY <1>1 DEF Twice, Again
  <2>2. ASSUME NEW j \in Listed, scan.taken[j].times > 0, Rank(Listed, j)' >= o
        PROVE  j \in Again
    <3>1. j \in Rows
      BY <1>4
    <3>2. Rank(Listed, j) >= o
      BY <1>4, <1>5, <2>2, <3>1
    <3> QED
      BY <2>2, <3>2 DEF Again
  <2> QED
    BY <1>1, <1>3, <2>1, <2>2 DEF Again
<1>8. /\ Cardinality(Missed') <= Cardinality(Missed) + 1
      /\ Cardinality(Missed') \in Nat /\ Cardinality(Missed) \in Nat
  <2>1. PICK x : Missed' \in SUBSET (Missed \cup {x})
    BY <1>6
  <2>2. Missed' \in SUBSET Rows
    BY <1>1, <1>4 DEF Missed
  <2> QED
    BY <1>4, <2>1, <2>2, OneMore, FiniteRows
<1>9. /\ Cardinality(Again') <= Cardinality(Again)
      /\ Cardinality(Again') \in Nat /\ Cardinality(Again) \in Nat
  BY <1>4, <1>7, Fewer
<1>10. Cardinality(Listed') = Cardinality(Listed) - 1 /\ Cardinality(Listed) \in Nat
  <2>1. IsFiniteSet(Listed) /\ Cardinality(Listed) \in Nat
    BY <1>4, FiniteRows
  <2> QED
    BY <1>3, <2>1, FS_RemoveElement
<1>11. steady' \subseteq Wanted'
  BY <1>1, <1>3, <1>4
<1>12. ASSUME Walking
       PROVE  Cardinality(Missed') <= moves + 1 /\ Cardinality(Again') <= moves + 1
  BY <1>4, <1>8, <1>9, <1>12 DEF ErrInv
<1>13. ASSUME Walking, scan.pc = "page"
       PROVE  Cardinality(Missed') + Cardinality(Listed') <= moves + 1 + scan.total
  <2>1. Cardinality(Missed) + Cardinality(Listed) <= moves + scan.total
    BY <1>13 DEF ErrInv
  <2> QED
    BY <1>4, <1>8, <1>10, <2>1
<1>14. WalkErrsByMoves'
  <2>1. ASSUME scan.pc = "answer", kind # "list"
        PROVE  /\ Cardinality((steady \ Took)') <= moves + 1
               /\ Cardinality(Twice) <= moves + 1
    <3>1. Cardinality(steady \ Took) <= moves /\ Cardinality(Twice) <= moves
      BY <2>1 DEF ErrInv, WalkErrsByMoves, Twice
    <3>2. /\ steady \ Took \in SUBSET Rows /\ Twice \in SUBSET Rows
          /\ (steady \ Took)' \in SUBSET (steady \ Took)
      BY <1>1, <1>4 DEF Twice, Took
    <3>3. /\ Cardinality((steady \ Took)') <= Cardinality(steady \ Took)
          /\ Cardinality((steady \ Took)') \in Nat /\ Cardinality(steady \ Took) \in Nat
          /\ Cardinality(Twice) \in Nat
      BY <3>2, Fewer, FiniteRows
    <3> QED
      BY <1>4, <3>1, <3>3
  <2>2. Twice' = Twice
    BY <1>1 DEF Twice
  <2> QED
    BY <1>1, <2>1, <2>2 DEF WalkErrsByMoves, Twice
<1> QED
  BY <1>1, <1>11, <1>12, <1>13, <1>14 DEF ErrInv, Walking

(* What a settled or revoked record, or a review become stale, changes is   *)
(* what the walk wants, not where the rows are.                             *)
LEMMA RowChangeErr ==
  ASSUME TypeOK, ErrInv, NEW k \in Rows,
         \/ \E counts \in BOOLEAN, hours \in Hours : Settle(k, counts, hours)
         \/ GoesStale(k)
  PROVE  ErrInv'
<1>1. /\ Listed' = Listed /\ steady' \subseteq steady /\ steady' \subseteq Wanted'
      /\ UNCHANGED <<kind, scan, moves>>
  <2>1. CASE \E counts \in BOOLEAN, hours \in Hours : Settle(k, counts, hours)
    <3>1. PICK counts \in BOOLEAN, hours \in Hours : Settle(k, counts, hours)
      BY <2>1
    <3>2. row' = [row EXCEPT ![k] = [row[k] EXCEPT !.counts = counts, !.hours = hours]]
      BY <3>1 DEF Settle, TypeOK
    <3>3. /\ \A j \in Rows : j # k => row'[j] = row[j]
          /\ row'[k].listed = row[k].listed /\ row'[k].counts = counts
      BY <3>2 DEF TypeOK
    <3>4. Listed' = Listed /\ Wanted \ {k} \subseteq Wanted' /\ (counts => Wanted \subseteq Wanted')
      BY <3>1, <3>3 DEF Listed, Wanted
    <3>5. steady' = IF counts THEN steady ELSE steady \ {k}
      BY <3>1 DEF Settle
    <3>6. steady \subseteq Wanted
      BY DEF ErrInv
    <3> QED
      BY <3>1, <3>4, <3>5, <3>6 DEF Settle
  <2>2. CASE GoesStale(k)
    <3>1. row' = [row EXCEPT ![k] = [row[k] EXCEPT !.counts = TRUE]]
      BY <2>2 DEF GoesStale, TypeOK
    <3>2. /\ \A j \in Rows : j # k => row'[j] = row[j]
          /\ row'[k].listed = row[k].listed /\ row'[k].counts
      BY <3>1 DEF TypeOK
    <3>3. Listed' = Listed /\ Wanted \subseteq Wanted'
      BY <2>2, <3>2 DEF Listed, Wanted, GoesStale
    <3> QED
      BY <2>2, <3>3 DEF GoesStale, ErrInv
  <2> QED
    BY <2>1, <2>2
<1>2. /\ Listed \in SUBSET Rows /\ Missed \in SUBSET Rows /\ Again \in SUBSET Rows
      /\ moves \in Nat /\ scan.total \in Nat /\ steady \ Took \in SUBSET Rows
  BY SetTypes DEF ErrInv
<1>3. Again' = Again /\ Missed' \in SUBSET Missed /\ (steady \ Took)' \in SUBSET (steady \ Took)
      /\ Twice' = Twice
  BY <1>1 DEF Again, Twice, Missed, Took, Rank
<1>4. /\ Cardinality(Missed') <= Cardinality(Missed)
      /\ Cardinality(Missed') \in Nat /\ Cardinality(Missed) \in Nat
      /\ Cardinality((steady \ Took)') <= Cardinality(steady \ Took)
      /\ Cardinality((steady \ Took)') \in Nat /\ Cardinality(steady \ Took) \in Nat
      /\ Cardinality(Listed) \in Nat
  BY <1>2, <1>3, Fewer, FiniteRows
<1>5. ASSUME Walking
      PROVE  Cardinality(Missed') <= moves /\ Cardinality(Again') <= moves
  <2>1. Cardinality(Missed) <= moves /\ Cardinality(Again) <= moves
    BY <1>5 DEF ErrInv
  <2> QED
    BY <1>2, <1>3, <1>4, <2>1
<1>6. ASSUME Walking, scan.pc = "page"
      PROVE  Cardinality(Missed') + Cardinality(Listed') <= moves + scan.total
  <2>1. Cardinality(Missed) + Cardinality(Listed) <= moves + scan.total
    BY <1>6 DEF ErrInv
  <2>2. Cardinality(Listed') = Cardinality(Listed)
    BY <1>1
  <2> QED
    BY <1>2, <1>4, <2>1, <2>2
<1>7. WalkErrsByMoves'
  <2>1. ASSUME scan.pc = "answer", kind # "list"
        PROVE  Cardinality((steady \ Took)') <= moves /\ Cardinality(Twice') <= moves
    <3>1. Cardinality(steady \ Took) <= moves /\ Cardinality(Twice) <= moves
      BY <2>1 DEF ErrInv, WalkErrsByMoves, Twice
    <3> QED
      BY <1>2, <1>3, <1>4, <3>1
  <2> QED
    BY <1>1, <2>1 DEF WalkErrsByMoves, Twice
<1> QED
  BY <1>1, <1>5, <1>6, <1>7 DEF ErrInv, Walking

LEMMA InitErr == Init => ErrInv
  BY QuietType DEF Init, ErrInv, Walking, WalkErrsByMoves

LEMMA NextErr == Inv /\ Inv' /\ ErrInv /\ [Next]_vars => ErrInv'
<1> SUFFICES ASSUME Inv, Inv', ErrInv, [Next]_vars PROVE ErrInv'
  OBVIOUS
<1> USE DEF Inv
<1>1. CASE \E size \in Asked : Ask(size)
  BY <1>1, AskErr
<1>2. CASE Count
  BY <1>2, CountErr
<1>3. CASE List
  BY <1>3, ListErr
<1>4. CASE AnswerPage \/ \E size \in Asked : AnswerStale(size)
  BY <1>4, ErrQuiet DEF AnswerPage, AnswerStale
<1>5. CASE AnswerDiff
  <2>1. scan'.pc = "done" /\ UNCHANGED <<row, steady>>
    BY <1>5 DEF AnswerDiff, TypeOK
  <2> QED
    BY <2>1 DEF ErrInv, Walking, WalkErrsByMoves, Wanted, Listed
<1>6. CASE Fail
  BY <1>6, ErrQuiet DEF Fail
<1>7. CASE \E k \in Rows : Enter(k)
  BY <1>7, EnterErr
<1>8. CASE \E k \in Rows : Leave(k)
  BY <1>8, LeaveErr
<1>9. CASE \/ \E k \in Rows : GoesStale(k)
           \/ \E k \in Rows, counts \in BOOLEAN, hours \in Hours : Settle(k, counts, hours)
  BY <1>9, RowChangeErr
<1>10. CASE UNCHANGED vars
  <2>1. UNCHANGED <<kind, row, scan, steady, moves>>
    BY <1>10 DEF vars
  <2>2. /\ Listed' = Listed /\ Wanted' = Wanted /\ Missed' = Missed /\ Again' = Again
        /\ WalkErrsByMoves' = WalkErrsByMoves
    BY <2>1 DEF Listed, Wanted, Missed, Again, Twice, Rank, WalkErrsByMoves, Took
  <2> QED
    BY <2>1, <2>2 DEF ErrInv, Walking
<1> QED
  BY <1>1, <1>2, <1>3, <1>4, <1>5, <1>6, <1>7, <1>8, <1>9, <1>10 DEF Next

LEMMA ErrHolds == Spec => []ErrInv
<1> QED
  BY InitErr, NextErr, InvHolds, PTL DEF Spec

(* ComputeDiff and ListStaleManuals miss, of the rows they had to take all  *)
(* along, and take again no more than came or left while they walked, for   *)
(* any page size and any number of pages.                                   *)
THEOREM WalksErrByMoves == Spec => []WalkErrsByMoves
<1>1. ErrInv => WalkErrsByMoves
  BY DEF ErrInv
<1> QED
  BY <1>1, ErrHolds, PTL

--------------------------------------------------------------------------------
(* What a client is given.  While nothing comes or leaves, it has been      *)
(* given the rows in front of its next page, each once; and a request in    *)
(* progress has counted and read the rows as they still are.                *)

Given ==
  \A k \in Rows :
    client.seen[k] =
      IF k \in Wanted /\ (client.more => Rank(Wanted, k) < NormalOffset(client.offset))
      THEN 1 ELSE 0

RequestInv ==
  /\ scan.pc \in {"idle", "count", "page", "answer"}
  /\ scan.pc # "idle" => client.more /\ steady = Wanted /\ Took \subseteq Wanted
  /\ kind = "list" /\ scan.pc # "idle" => scan.offset = NormalOffset(client.offset)
  /\ kind = "list" /\ scan.pc \in {"count", "page"} => Took = {}
  /\ kind = "list" /\ scan.pc \in {"page", "answer"} => scan.total = Cardinality(Listed)
  /\ kind = "list" /\ scan.pc = "answer" => Took = Page(Listed, scan.offset, scan.size)

ClientInv ==
  /\ moves > 0 => client.moved
  /\ kind = "list" => Wanted = Listed
  /\ kind # "diff" /\ ~client.moved => Given /\ RequestInv

(* One page more of the rows wanted, and Next counted from it.              *)
LEMMA GiveOn ==
  ASSUME TypeOK, Given, client.more, NEW s \in Nat \ {0}, UNCHANGED row,
         Give(Page(Wanted, NormalOffset(client.offset), s),
              NormalOffset(client.offset), Cardinality(Wanted))
  PROVE  Given'
<1> DEFINE o == NormalOffset(client.offset)
           n == Cardinality(Wanted)
           items == Page(Wanted, o, s)
           next == nextPage(o, Cardinality(items), n)
<1>1. o \in Nat /\ n \in Nat /\ Wanted \in SUBSET Rows
  <2>1. client.offset \in Nat \cup {None}
    BY DEF TypeOK
  <2>2. Wanted \in SUBSET Rows
    BY DEF Wanted, Listed
  <2> QED
    BY <2>1, <2>2, NormalPage, FiniteRows
<1>2. \A k \in Wanted : Rank(Wanted, k) \in Nat /\ Rank(Wanted, k) < n
  BY <1>1, RankType, RankBound
<1>3. \A k \in Rows : k \in items <=> k \in Wanted /\ Rank(Wanted, k) \in o .. o + s - 1
  BY DEF Page, Rank
<1>4. /\ n >= o + s => Cardinality(items) = s
      /\ n < o + s => Cardinality(items) = IF n <= o THEN 0 ELSE n - o
  BY <1>1, PageSize
<1>5. /\ client' = [offset |-> next, more |-> next # 0, moved |-> client.moved,
                    seen |-> [k \in Rows |-> client.seen[k] + IF k \in items THEN 1 ELSE 0]]
      /\ Wanted' = Wanted
  BY DEF Give, Wanted, Listed
<1>6. \A k \in Rows : client.seen[k] = IF k \in Wanted /\ Rank(Wanted, k) < o THEN 1 ELSE 0
  BY DEF Given
<1>7. \A k \in Rows :
        client'.seen[k] = IF k \in Wanted /\ Rank(Wanted, k) < o + s THEN 1 ELSE 0
  <2> SUFFICES ASSUME NEW k \in Rows
               PROVE  client'.seen[k] = IF k \in Wanted /\ Rank(Wanted, k) < o + s THEN 1 ELSE 0
    OBVIOUS
  <2>1. client'.seen[k] = client.seen[k] + IF k \in items THEN 1 ELSE 0
    BY <1>5
  <2> HIDE DEF items, o, n
  <2>2. CASE k \notin Wanted
    BY <1>3, <1>6, <2>1, <2>2
  <2>3. CASE k \in Wanted
    <3>1. Rank(Wanted, k) \in Nat
      BY <1>2, <2>3
    <3>2. CASE Rank(Wanted, k) < o
      BY <1>1, <1>3, <1>6, <2>1, <2>3, <3>1, <3>2
    <3>3. CASE ~(Rank(Wanted, k) < o)
      BY <1>1, <1>3, <1>6, <2>1, <2>3, <3>1, <3>3
    <3> QED
      BY <3>2, <3>3
  <2> QED
    BY <2>2, <2>3
<1>8. client'.more <=> n > o + s
  <2>1. client'.more <=> next # 0
    BY <1>5
  <2>2. next = IF o + Cardinality(items) >= n THEN 0 ELSE o + Cardinality(items)
    BY DEF nextPage
  <2> HIDE DEF n, o, items, next
  <2> QED
    BY <1>1, <1>4, <2>1, <2>2
<1>9. ASSUME n > o + s PROVE NormalOffset(client'.offset) = o + s
  <2>1. client'.offset = next /\ next = IF o + Cardinality(items) >= n THEN 0
                                       ELSE o + Cardinality(items)
    BY <1>5 DEF nextPage
  <2> HIDE DEF n, o, items, next
  <2>2. next = o + s
    BY <1>1, <1>4, <1>9, <2>1
  <2> QED
    BY <1>1, <2>1, <2>2 DEF NormalOffset
<1> HIDE DEF n, o, items, next
<1>10. ASSUME NEW k \in Rows
       PROVE  client'.seen[k] =
                IF k \in Wanted /\ (client'.more => Rank(Wanted, k) < NormalOffset(client'.offset))
                THEN 1 ELSE 0
  <2>1. CASE n > o + s
    BY <1>7, <1>8, <1>9, <2>1
  <2>2. CASE ~(n > o + s)
    <3>1. k \in Wanted => Rank(Wanted, k) < o + s
      BY <1>1, <1>2, <2>2
    <3> QED
      BY <1>7, <1>8, <2>2, <3>1
  <2> QED
    BY <2>1, <2>2
<1> QED
  BY <1>5, <1>10 DEF Given

LEMMA TookNothing ==
  ASSUME scan'.taken = Quiet.taken
  PROVE  Took' = {}
  BY QuietType DEF Took

LEMMA AskClient ==
  ASSUME TypeOK, ClientInv, NEW size \in Asked, Ask(size)
  PROVE  ClientInv'
<1>1. /\ client.more /\ steady' = Wanted /\ moves' = 0 /\ UNCHANGED <<kind, row, client>>
      /\ scan.pc = "idle"
  BY DEF Ask
<1>2. /\ scan'.pc = "count" /\ scan'.taken = Quiet.taken
      /\ kind = "list" => scan'.offset = NormalOffset(client.offset)
  BY QuietType DEF Ask
<1>3. Took' = {} /\ Wanted' = Wanted /\ Listed' = Listed
  BY <1>1, <1>2, TookNothing DEF Wanted, Listed
<1>4. Given' = Given
  BY <1>1, <1>3 DEF Given, Rank
<1> QED
  BY <1>1, <1>2, <1>3, <1>4 DEF ClientInv, RequestInv

LEMMA CountClient ==
  ASSUME TypeOK, ClientInv, Count
  PROVE  ClientInv'
<1>1. /\ scan' = [scan EXCEPT !.pc = "page", !.total = Cardinality(Listed)] /\ scan.pc = "count"
      /\ UNCHANGED <<kind, row, client, steady, moves>>
  BY DEF Count
<1>2. /\ scan'.pc = "page" /\ scan'.taken = scan.taken /\ scan'.offset = scan.offset
      /\ scan'.total = Cardinality(Listed)
  BY <1>1 DEF TypeOK
<1>3. Took' = Took /\ Wanted' = Wanted /\ Listed' = Listed
  BY <1>1, <1>2 DEF Wanted, Listed, Took
<1>4. Given' = Given /\ NormalOffset(client.offset)' = NormalOffset(client.offset)
  BY <1>1, <1>3 DEF Given, Rank
<1> QED
  BY <1>1, <1>2, <1>3, <1>4 DEF ClientInv, RequestInv

LEMMA ListClient ==
  ASSUME TypeOK, ClientInv, List
  PROVE  ClientInv'
<1>1. scan.pc = "page" /\ UNCHANGED <<kind, row, client, steady, moves>>
  BY PageTaken
<1>2. Wanted' = Wanted /\ Listed' = Listed /\ Given' = Given
  BY <1>1 DEF Wanted, Listed, Given, Rank
<1>3. Took' = Took \cup {k \in Items : row[k].counts}
  <2>1. Items \subseteq Rows /\ \A k \in Rows : scan.taken[k].times \in Nat
    BY DEF Items, Page, Listed, TypeOK
  <2>2. \A k \in Rows : scan'.taken[k].times > 0 <=>
          scan.taken[k].times > 0 \/ (k \in Items /\ row[k].counts)
    BY <2>1, PageTaken
  <2> QED
    BY <2>1, <2>2 DEF Took
<1>4. {k \in Items : row[k].counts} \subseteq Wanted
  BY DEF Items, Page, Wanted
<1>5. ASSUME kind # "diff", ~client.moved PROVE RequestInv'
  <2>1. Given /\ RequestInv
    BY <1>5 DEF ClientInv
  <2>2. /\ scan'.pc \in {"count", "answer"} /\ client.more /\ steady = Wanted
        /\ Took' \subseteq Wanted
    BY <1>1, <1>3, <1>4, <2>1, PageTaken DEF RequestInv
  <2>3. ASSUME kind = "list"
        PROVE  /\ scan'.pc = "answer" /\ scan'.offset = NormalOffset(client.offset)
               /\ scan'.total = Cardinality(Listed)
               /\ Took' = Page(Listed, scan'.offset, scan'.size)
    <3>1. scan'.pc = "answer" /\ scan'.offset = scan.offset /\ scan'.size = scan.size
          /\ scan'.total = scan.total
      BY <2>3, PageTaken
    <3>2. Took = {} /\ scan.offset = NormalOffset(client.offset)
          /\ scan.total = Cardinality(Listed)
      BY <1>1, <2>1, <2>3 DEF RequestInv
    <3>3. {k \in Items : row[k].counts} = Items
      BY <2>3 DEF ClientInv, Items, Page, Wanted
    <3> QED
      BY <1>3, <3>1, <3>2, <3>3 DEF Items
  <2> QED
    BY <1>1, <1>2, <2>2, <2>3 DEF RequestInv
<1> QED
  BY <1>1, <1>2, <1>5 DEF ClientInv

LEMMA AnswerClient ==
  ASSUME TypeOK, ErrInv, ClientInv, AnswerPage \/ \E size \in Asked : AnswerStale(size)
  PROVE  ClientInv'
<1>1. /\ scan' = Quiet /\ moves' = 0 /\ scan.pc = "answer" /\ UNCHANGED <<kind, row>>
      /\ kind # "diff" /\ client'.moved = client.moved
  BY DEF AnswerPage, AnswerStale, Give
<1>2. Wanted' = Wanted /\ Listed' = Listed /\ scan'.pc = "idle"
  BY <1>1, QuietType DEF Wanted, Listed
<1>3. ASSUME ~client.moved PROVE Given'
  <2>1. Given /\ RequestInv /\ client.more /\ steady = Wanted /\ Took \subseteq Wanted
    BY <1>1, <1>3 DEF ClientInv, RequestInv
  <2>2. CASE AnswerPage
    <3>1. kind = "list" /\ Give(Took, scan.offset, scan.total)
      BY <2>2 DEF AnswerPage
    <3>2. /\ Took = Page(Listed, scan.offset, scan.size) /\ Listed = Wanted
          /\ scan.offset = NormalOffset(client.offset) /\ scan.total = Cardinality(Listed)
      BY <1>1, <2>1, <3>1 DEF RequestInv, ClientInv
    <3>3. scan.size \in Nat \ {0}
      BY SetTypes DEF ErrInv
    <3>4. Give(Page(Wanted, NormalOffset(client.offset), scan.size),
               NormalOffset(client.offset), Cardinality(Wanted))
      BY <3>1, <3>2
    <3> QED
      BY <1>1, <2>1, <3>3, <3>4, GiveOn
  <2>3. CASE \E size \in Asked : AnswerStale(size)
    <3>1. PICK size \in Asked : AnswerStale(size)
      BY <2>3
    <3>2. NormalSize(size) \in Nat \ {0}
      BY NormalPage, PageSizeAssumption
    <3>3. Took = Wanted
      <4>1. kind = "stale" /\ moves \in Nat /\ ~(moves > 0)
        BY <1>3, <3>1 DEF AnswerStale, TypeOK, ClientInv
      <4>2. Cardinality(steady \ Took) <= moves
        BY <1>1, <4>1 DEF ErrInv, WalkErrsByMoves
      <4>3. steady \ Took \in SUBSET Rows
        BY SetTypes DEF ErrInv
      <4>4. IsFiniteSet(steady \ Took) /\ Cardinality(steady \ Took) \in Nat
        BY <4>3, FiniteRows
      <4>5. Cardinality(steady \ Took) = 0
        BY <4>1, <4>2, <4>4
      <4>6. steady \ Took = {}
        BY <4>4, <4>5, FS_EmptySet
      <4> QED
        BY <2>1, <4>6
    <3>4. Give(Page(Wanted, NormalOffset(client.offset), NormalSize(size)),
               NormalOffset(client.offset), Cardinality(Wanted))
      BY <3>1, <3>3 DEF AnswerStale
    <3> QED
      BY <1>1, <2>1, <3>2, <3>4, GiveOn
  <2> QED
    BY <2>2, <2>3
<1> QED
  BY <1>1, <1>2, <1>3 DEF ClientInv, RequestInv

(* After this the client is one whose walk was disturbed.                   *)
LEMMA MovedClient ==
  ASSUME kind' = kind, client'.moved \/ kind = "diff",
         moves' > 0 => client'.moved, kind = "list" => Wanted' = Listed'
  PROVE  ClientInv'
  BY DEF ClientInv

LEMMA MoveClient ==
  ASSUME TypeOK, ClientInv, NEW k \in Rows, Enter(k) \/ Leave(k) \/ GoesStale(k)
  PROVE  ClientInv'
<1>1. kind' = kind /\ client'.moved
  BY DEF Enter, Leave, GoesStale, Moved, TypeOK
<1>2. ASSUME kind = "list" PROVE Wanted' = Listed'
  <2>1. \A j \in Listed : row[j].counts
    BY <1>2 DEF ClientInv, Wanted
  <2>2. /\ \A j \in Rows : j # k => row'[j] = row[j]
        /\ row'[k].listed => row'[k].counts
    <3>1. CASE Enter(k)
      <4>1. row' = [row EXCEPT ![k] = [row[k] EXCEPT !.listed = TRUE, !.counts = kind = "list"]]
        BY <3>1 DEF Enter, TypeOK
      <4>2. row'[k].counts = (kind = "list")
        BY <4>1 DEF TypeOK
      <4> QED
        BY <1>2, <4>1, <4>2 DEF TypeOK
    <3>2. CASE Leave(k)
      <4>1. row' = [row EXCEPT ![k] = [row[k] EXCEPT !.listed = FALSE, !.counts = FALSE]]
        BY <3>2 DEF Leave, TypeOK
      <4> QED
        BY <4>1 DEF TypeOK
    <3>3. CASE GoesStale(k)
      BY <1>2, <3>3 DEF GoesStale
    <3> QED
      BY <3>1, <3>2, <3>3
  <2>3. \A j \in Rows : row'[j].listed => row'[j].counts
    BY <2>1, <2>2 DEF Listed
  <2> QED
    BY <2>3 DEF Wanted, Listed
<1> QED
  BY <1>1, <1>2, MovedClient

LEMMA InitClient == Init => ClientInv
<1> SUFFICES ASSUME Init PROVE ClientInv
  OBVIOUS
<1>1. /\ scan = Quiet /\ moves = 0 /\ client.more /\ NormalOffset(client.offset) = 0
      /\ \A k \in Rows : client.seen[k] = 0
  BY DEF Init, NormalOffset, None
<1>2. kind = "list" => Wanted = Listed
  BY DEF Init, Wanted, Listed
<1>3. \A k \in Rows : ~(Rank(Wanted, k) < 0)
  <2>1. Wanted \in SUBSET Rows
    BY DEF Wanted, Listed
  <2>2. \A k \in Rows : Rank(Wanted, k) \in Nat
    BY <2>1, RankType
  <2> QED
    BY <2>2
<1>4. Given
  BY <1>1, <1>3 DEF Given
<1> QED
  BY <1>1, <1>2, <1>4, QuietType DEF ClientInv, RequestInv

LEMMA NextClient == Inv /\ ErrInv /\ ClientInv /\ [Next]_vars => ClientInv'
<1> SUFFICES ASSUME Inv, ErrInv, ClientInv, [Next]_vars PROVE ClientInv'
  OBVIOUS
<1> USE DEF Inv
<1>1. CASE \E size \in Asked : Ask(size)
  BY <1>1, AskClient
<1>2. CASE Count
  BY <1>2, CountClient
<1>3. CASE List
  BY <1>3, ListClient
<1>4. CASE AnswerPage \/ \E size \in Asked : AnswerStale(size)
  BY <1>4, AnswerClient
<1>5. CASE AnswerDiff
  <2>1. kind = "diff" /\ kind' = kind /\ moves' = moves /\ client'.moved = client.moved
    BY <1>5 DEF AnswerDiff, TypeOK
  <2> QED
    BY <2>1 DEF ClientInv
<1>6. CASE Fail
  <2>1. kind' = kind /\ client'.moved /\ row' = row
    BY <1>6 DEF Fail, TypeOK
  <2> QED
    BY <2>1, MovedClient DEF ClientInv, Wanted, Listed
<1>7. CASE \E k \in Rows : Enter(k) \/ Leave(k) \/ GoesStale(k)
  BY <1>7, MoveClient
<1>8. CASE \E k \in Rows, counts \in BOOLEAN, hours \in Hours : Settle(k, counts, hours)
  <2>1. kind = "diff" /\ kind' = kind /\ moves' = moves /\ client' = client
    BY <1>8 DEF Settle
  <2> QED
    BY <2>1 DEF ClientInv
<1>9. CASE UNCHANGED vars
  <2>1. UNCHANGED <<kind, row, client, scan, steady, moves>>
    BY <1>9 DEF vars
  <2>2. Listed' = Listed /\ Wanted' = Wanted /\ Took' = Took /\ Given' = Given
    BY <2>1 DEF Listed, Wanted, Took, Given, Rank
  <2> QED
    BY <2>1, <2>2 DEF ClientInv, RequestInv
<1> QED
  BY <1>1, <1>2, <1>3, <1>4, <1>5, <1>6, <1>7, <1>8, <1>9 DEF Next

LEMMA ClientHolds == Spec => []ClientInv
<1> QED
  BY InitClient, NextClient, InvHolds, ErrHolds, PTL DEF Spec

(* A client that follows Next through an undisturbed listing is given every *)
(* row once and no other, whatever page sizes it asks for, negative, zero   *)
(* and too large ones among them, and from a negative offset as from none.  *)
THEOREM ClientsSeeAll == Spec => []ClientSeesAll
<1>1. TypeOK /\ ClientInv => ClientSeesAll
  BY DEF ClientInv, Given, ClientSeesAll
<1> QED
  BY <1>1, TypeCorrect, ClientHolds, PTL

--------------------------------------------------------------------------------
(* What ComputeDiff answers; the sum of the hours is below.                 *)

DiffInv == scan.pc = "done" => diff = Diff(SystemIn, CustomerIn)

PairsOf(d, slots, said) ==
  /\ DOMAIN d.pairs = slots \cup said
  /\ \A s \in DOMAIN d.pairs :
       /\ d.pairs[s].kind = "system_only" <=> s \notin said
       /\ d.pairs[s].kind = "customer_only" <=> s \notin slots
  /\ d.has_conflict <=> \E s \in slots \cap said : d.pairs[s].delta # 0

(* The part of DiffBalances that is not about sums.                         *)
PairsCoverBothSides ==
  scan.pc = "done" =>
    PairsOf(diff, {SlotOf[k] : k \in Took}, {s \in Slots : reported[s] # NoReport})

LEMMA AggregatePresent ==
  ASSUME NEW inputs, NEW s \in Slots
  PROVE  aggregate(inputs)[s].present <=> \E e \in inputs : e.slot = s
  BY DEF aggregate

(* A slot is in the diff when a side has it, and may conflict when both do. *)
LEMMA DiffOfSides ==
  ASSUME NEW systemIn, NEW customerIn, NEW slots \in SUBSET Slots, NEW said \in SUBSET Slots,
         \A s \in Slots : s \in slots <=> \E e \in systemIn : e.slot = s,
         \A s \in Slots : s \in said <=> \E e \in customerIn : e.slot = s,
         NEW d, d = Diff(systemIn, customerIn)
  PROVE  PairsOf(d, slots, said)
<1> DEFINE system == aggregate(systemIn)
           customer == aggregate(customerIn)
           keys == {s \in Slots : system[s].present \/ customer[s].present}
<1>1. \A s \in Slots : /\ system[s].present <=> s \in slots
                       /\ customer[s].present <=> s \in said
  BY AggregatePresent
<1>2. keys = slots \cup said
  BY <1>1
<1>3. /\ d.pairs = [s \in keys |-> [kind |-> Kind(system, customer, s),
                                    delta |-> Delta(system, customer, s)]]
      /\ d.has_conflict = (\E s \in keys :
           Kind(system, customer, s) \in {"over_reported", "under_reported"})
  BY DEF Diff
<1> HIDE DEF system, customer, keys
<1>4. ASSUME NEW s \in keys
      PROVE  /\ Kind(system, customer, s) = "system_only" <=> s \notin said
             /\ Kind(system, customer, s) = "customer_only" <=> s \notin slots
             /\ Kind(system, customer, s) \in {"over_reported", "under_reported"}
                  <=> s \in slots \cap said /\ Delta(system, customer, s) # 0
  <2>1. s \in Slots /\ (s \in slots \/ s \in said)
    BY <1>2
  <2>2. (system[s].present <=> s \in slots) /\ (customer[s].present <=> s \in said)
    BY <1>1, <2>1
  <2>3. CASE s \notin slots
    <3>1. Kind(system, customer, s) = "customer_only"
      BY <2>2, <2>3 DEF Kind
    <3> QED
      BY <2>1, <2>3, <3>1
  <2>4. CASE s \in slots /\ s \notin said
    <3>1. Kind(system, customer, s) = "system_only"
      BY <2>2, <2>4 DEF Kind
    <3> QED
      BY <2>4, <3>1
  <2>5. CASE s \in slots /\ s \in said
    <3>1. Kind(system, customer, s) =
            IF Delta(system, customer, s) = 0 THEN "matched"
            ELSE IF Delta(system, customer, s) > 0 THEN "over_reported" ELSE "under_reported"
      BY <2>2, <2>5 DEF Kind, Delta
    <3> QED
      BY <2>5, <3>1
  <2> QED
    BY <2>3, <2>4, <2>5
<1>5. DOMAIN d.pairs = keys /\ \A s \in keys : /\ d.pairs[s].kind = Kind(system, customer, s)
                                               /\ d.pairs[s].delta = Delta(system, customer, s)
  BY <1>3
<1>6. d.has_conflict <=> \E s \in slots \cap said : d.pairs[s].delta # 0
  <2>1. d.has_conflict <=>
          \E s \in keys : Kind(system, customer, s) \in {"over_reported", "under_reported"}
    BY <1>3
  <2> QED
    BY <1>2, <1>4, <1>5, <2>1
<1> QED
  BY <1>2, <1>4, <1>5, <1>6 DEF PairsOf

LEMMA DiffInvHolds == Spec => []DiffInv
<1>1. Init => DiffInv
  BY QuietType DEF Init, DiffInv
<1>2. DiffInv /\ TypeOK /\ [Next]_vars => DiffInv'
  <2> SUFFICES ASSUME DiffInv, TypeOK, [Next]_vars, scan'.pc = "done"
               PROVE  diff' = Diff(SystemIn, CustomerIn)'
    BY DEF DiffInv
  <2>1. CASE UNCHANGED <<scan, reported, diff>>
    <3>1. SystemIn' = SystemIn /\ CustomerIn' = CustomerIn
      BY <2>1 DEF SystemIn, CustomerIn, Took
    <3> QED
      BY <2>1, <3>1 DEF DiffInv
  <2>2. CASE AnswerDiff
    <3>1. /\ diff' = Diff(SystemIn, CustomerIn) /\ scan' = [scan EXCEPT !.pc = "done"]
          /\ reported' = reported
      BY <2>2 DEF AnswerDiff
    <3>2. scan'.taken = scan.taken
      BY <3>1 DEF TypeOK
    <3>3. SystemIn' = SystemIn /\ CustomerIn' = CustomerIn
      BY <3>1, <3>2 DEF SystemIn, CustomerIn, Took
    <3> QED
      BY <3>1, <3>3
  <2>3. ASSUME AnswerPage \/ Fail \/ \E size \in Asked : AnswerStale(size)
        PROVE  FALSE
    BY <2>3, QuietType DEF AnswerPage, Fail, AnswerStale
  <2>4. ASSUME NEW size \in Asked, Ask(size) PROVE FALSE
    BY <2>4, QuietType DEF Ask
  <2>5. ASSUME Count \/ List PROVE FALSE
    <3>1. scan'.pc \in {"page", "answer", "count"}
      BY <2>5 DEF Count, List, TypeOK
    <3> QED
      BY <3>1
  <2>6. CASE \E k \in Rows : Enter(k) \/ Leave(k) \/ GoesStale(k)
    BY <2>1, <2>6 DEF Enter, Leave, GoesStale
  <2>7. CASE \E k \in Rows, counts \in BOOLEAN, hours \in Hours : Settle(k, counts, hours)
    BY <2>1, <2>7 DEF Settle
  <2>8. CASE UNCHANGED vars
    BY <2>1, <2>8 DEF vars
  <2> QED
    BY <2>2, <2>3, <2>4, <2>5, <2>6, <2>7, <2>8 DEF Next
<1> QED
  BY <1>1, <1>2, TypeCorrect, PTL DEF Spec

(* The diff has a pair for each slot of either side and for no other, says  *)
(* of a slot that only one side has which side it is, and calls a conflict  *)
(* a slot that both have with other hours (engine.go:92-152).               *)
LEMMA PairsCover == Spec => []PairsCoverBothSides
<1>1. ASSUME TypeOK, DiffInv PROVE PairsCoverBothSides
  <2> SUFFICES ASSUME scan.pc = "done" PROVE PairsCoverBothSides
    BY DEF PairsCoverBothSides
  <2> DEFINE slots == {SlotOf[k] : k \in Took}
             said == {s \in Slots : reported[s] # NoReport}
  <2>1. slots \in SUBSET Slots /\ said \in SUBSET Slots
    BY RowsAssumption DEF Took
  <2>2. \A s \in Slots : s \in slots <=> \E e \in SystemIn : e.slot = s
    <3>1. \A k \in Took : [slot |-> SlotOf[k], hours |-> scan.taken[k].hours, of |-> k].slot
                             = SlotOf[k]
      OBVIOUS
    <3> QED
      BY <3>1 DEF SystemIn
  <2>3. \A s \in Slots : s \in said <=> \E e \in CustomerIn : e.slot = s
    <3>1. CustomerIn = {[slot |-> s, hours |-> reported[s], of |-> 0] : s \in said}
      BY DEF CustomerIn
    <3> HIDE DEF said
    <3>2. \A s \in said : [slot |-> s, hours |-> reported[s], of |-> 0].slot = s
      OBVIOUS
    <3> QED
      BY <3>1, <3>2
  <2>4. diff = Diff(SystemIn, CustomerIn)
    BY <1>1 DEF DiffInv
  <2> HIDE DEF slots, said
  <2>5. PairsOf(diff, slots, said)
    BY <2>1, <2>2, <2>3, <2>4, DiffOfSides
  <2> QED
    BY <2>5 DEF PairsCoverBothSides, slots, said
<1> QED
  BY <1>1, TypeCorrect, DiffInvHolds, PTL

--------------------------------------------------------------------------------
(* Sums over finite sets.  MapThenSumSet takes the elements one by one, in  *)
(* an order of its own.  That the order does not matter, and that a sum may *)
(* be taken group by group, is shown by induction over the subsets of the   *)
(* set, which a least counterexample stands in for.                         *)

(* A non-empty set of natural numbers has a least one.                      *)
LEMMA LeastNumber ==
  ASSUME NEW N \in SUBSET Nat, N # {}
  PROVE  \E m \in N : \A n \in N : m <= n
<1> DEFINE R == OpToRel(<, Nat)
<1>1. IsWellFoundedOn(R, Nat)
  BY NatLessThanWellFounded
<1>2. \A m, n \in Nat : n < m => <<n, m>> \in R
  BY DEF OpToRel
<1> HIDE DEF R
<1>3. PICK m \in N : \A n \in N : ~(<<n, m>> \in R)
  BY <1>1, WFMin
<1>4. \A n \in N : ~(n < m)
  BY <1>2, <1>3
<1>5. \A n \in N : m <= n
  BY <1>4
<1> QED
  BY <1>5

(* Induction over the subsets of a finite set: whatever holds of a set once *)
(* it holds of the set without any one of its elements holds of them all.   *)
LEMMA SubsetInduction ==
  ASSUME NEW S, IsFiniteSet(S), NEW Good,
         \A s \in SUBSET S : (\A x \in s : s \ {x} \in Good) => s \in Good
  PROVE  SUBSET S \subseteq Good
<1> SUFFICES ASSUME NEW r \in SUBSET S, r \notin Good PROVE FALSE
  OBVIOUS
<1> DEFINE N == {n \in Nat : \E s \in SUBSET S : s \notin Good /\ Cardinality(s) = n}
<1>1. \A s \in SUBSET S : IsFiniteSet(s) /\ Cardinality(s) \in Nat
  BY FS_Subset, FS_CardinalityType
<1>3. N \in SUBSET Nat /\ N # {}
  BY <1>1
<1>4. PICK m \in N : \A n \in N : m <= n
  <2> HIDE DEF N
  <2> QED
    BY <1>3, LeastNumber
<1>5. PICK s \in SUBSET S : s \notin Good /\ Cardinality(s) = m
  OBVIOUS
<1>6. PICK x \in s : s \ {x} \notin Good
  BY <1>5
<1>7. s \ {x} \in SUBSET S /\ Cardinality(s \ {x}) = m - 1 /\ m \in Nat
  <2>1. Cardinality(s \ {x}) = Cardinality(s) - 1
    BY <1>1, FS_RemoveElement
  <2> QED
    BY <1>1, <1>5, <2>1
<1>8. m - 1 \in N
  BY <1>1, <1>6, <1>7
<1> QED
  BY <1>4, <1>7, <1>8

Pick(s) == CHOOSE x \in s : TRUE

LEMMA PickIn == ASSUME NEW s, s # {} PROVE Pick(s) \in s
  BY DEF Pick

(* g sums up f over the subsets of S, as the fold does.                     *)
Sums(g, f, S) ==
  \A s \in SUBSET S : g[s] = IF s = {} THEN 0 ELSE f[Pick(s)] + g[s \ {Pick(s)}]

LEMMA SumsExist ==
  ASSUME NEW S, IsFiniteSet(S), NEW f, \A x \in S : f[x] \in Int
  PROVE  \E g \in [SUBSET S -> Int] : Sums(g, f, S)
<1> DEFINE D(n) == {s \in SUBSET S : Cardinality(s) <= n}
           Partial(g, n) ==
             \A s \in D(n) : g[s] = IF s = {} THEN 0 ELSE f[Pick(s)] + g[s \ {Pick(s)}]
           N == {n \in Nat : ~ \E g \in [D(n) -> Int] : Partial(g, n)}
<1>1. \A s \in SUBSET S : IsFiniteSet(s) /\ Cardinality(s) \in Nat
  BY FS_Subset, FS_CardinalityType
<1>2. \A s \in SUBSET S : s # {} =>
        /\ Pick(s) \in s /\ f[Pick(s)] \in Int /\ s \ {Pick(s)} \in SUBSET S
        /\ Cardinality(s \ {Pick(s)}) = Cardinality(s) - 1 /\ Cardinality(s) # 0
  <2> SUFFICES ASSUME NEW s \in SUBSET S, s # {}
               PROVE  /\ Pick(s) \in s /\ f[Pick(s)] \in Int /\ s \ {Pick(s)} \in SUBSET S
                      /\ Cardinality(s \ {Pick(s)}) = Cardinality(s) - 1 /\ Cardinality(s) # 0
    OBVIOUS
  <2>1. Pick(s) \in s
    BY PickIn
  <2>2. Cardinality(s \ {Pick(s)}) = Cardinality(s) - 1
    BY <1>1, <2>1, FS_RemoveElement
  <2>3. Cardinality(s) # 0
    BY <1>1, FS_EmptySet
  <2> QED
    BY <2>1, <2>2, <2>3
<1>3. N = {}
  <2> SUFFICES ASSUME N # {} PROVE FALSE
    OBVIOUS
  <2>1. PICK m \in N : \A n \in N : m <= n
    <3>1. N \in SUBSET Nat
      OBVIOUS
    <3> HIDE DEF N
    <3> QED
      BY <3>1, LeastNumber
  <2>2. CASE m = 0
    <3> DEFINE g == [s \in D(0) |-> 0]
    <3>1. ASSUME NEW s \in D(0) PROVE s = {}
      <4>1. s \in SUBSET S /\ Cardinality(s) <= 0
        OBVIOUS
      <4>2. Cardinality(s) = 0
        BY <1>1, <4>1
      <4> QED
        BY <1>2, <4>1, <4>2
    <3>2. g \in [D(0) -> Int] /\ Partial(g, 0)
      BY <3>1
    <3> QED
      BY <2>1, <2>2, <3>2
  <2>3. CASE m # 0
    <3>1. m \in Nat /\ m - 1 \in Nat /\ m - 1 \notin N
      <4>1. m \in Nat
        OBVIOUS
      <4> HIDE DEF N
      <4> QED
        BY <2>1, <2>3, <4>1
    <3>2. PICK g \in [D(m - 1) -> Int] : Partial(g, m - 1)
      BY <3>1
    <3> DEFINE h == [s \in D(m) |-> IF Cardinality(s) <= m - 1 THEN g[s]
                                    ELSE f[Pick(s)] + g[s \ {Pick(s)}]]
    <3>3. \A s \in D(m) : s # {} => s \ {Pick(s)} \in D(m - 1)
      BY <1>1, <1>2, <3>1
    <3>4. \A s \in D(m) : Cardinality(s) <= m - 1 <=> s \in D(m - 1)
      OBVIOUS
    <3>5. \A s \in D(m) : s \notin D(m - 1) => s # {}
      <4>1. Cardinality({}) <= m - 1
        BY <3>1, FS_EmptySet
      <4>2. {} \in D(m - 1)
        BY <4>1
      <4> HIDE DEF D
      <4> QED
        BY <4>2
    <3>6. \A s \in D(m - 1) : s \in D(m)
      BY <1>1, <3>1
    <3>7. h \in [D(m) -> Int]
      <4> SUFFICES ASSUME NEW s \in D(m) PROVE h[s] \in Int
        OBVIOUS
      <4>1. CASE s \in D(m - 1)
        <5>1. h[s] = g[s]
          BY <3>4, <4>1
        <5> HIDE DEF D, h
        <5> QED
          BY <3>2, <4>1, <5>1
      <4>2. CASE s \notin D(m - 1)
        <5>1. h[s] = f[Pick(s)] + g[s \ {Pick(s)}]
          BY <3>4, <4>2
        <5>2. f[Pick(s)] \in Int /\ s \ {Pick(s)} \in D(m - 1)
          BY <1>2, <3>3, <3>5, <4>2
        <5>3. g[s \ {Pick(s)}] \in Int
          <6> HIDE DEF D
          <6> QED
            BY <3>2, <5>2
        <5> HIDE DEF h
        <5> QED
          BY <5>1, <5>2, <5>3
      <4> QED
        BY <4>1, <4>2
    <3>8. Partial(h, m)
      <4> SUFFICES ASSUME NEW s \in D(m)
                   PROVE  h[s] = IF s = {} THEN 0 ELSE f[Pick(s)] + h[s \ {Pick(s)}]
        OBVIOUS
      <4>1. \A t \in D(m - 1) : h[t] = g[t]
        BY <3>4, <3>6
      <4>2. CASE s \in D(m - 1)
        <5>1. g[s] = IF s = {} THEN 0 ELSE f[Pick(s)] + g[s \ {Pick(s)}]
          BY <3>2, <4>2
        <5> HIDE DEF h, D
        <5> QED
          BY <3>3, <4>1, <4>2, <5>1
      <4>3. CASE s \notin D(m - 1)
        <5>1. h[s] = f[Pick(s)] + g[s \ {Pick(s)}]
          BY <3>4, <4>3
        <5> HIDE DEF h, D
        <5> QED
          BY <3>3, <3>5, <4>1, <4>3, <5>1
      <4> QED
        BY <4>2, <4>3
    <3> QED
      BY <2>1, <3>7, <3>8
  <2> QED
    BY <2>2, <2>3
<1>4. D(Cardinality(S)) = SUBSET S /\ Cardinality(S) \in Nat
  <2>1. \A s \in SUBSET S : Cardinality(s) <= Cardinality(S)
    BY FS_Subset
  <2> QED
    BY <1>1, <2>1
<1>5. PICK g \in [D(Cardinality(S)) -> Int] : Partial(g, Cardinality(S))
  BY <1>3, <1>4
<1> QED
  BY <1>4, <1>5 DEF Sums

LEMMA SumsUnique ==
  ASSUME NEW S, IsFiniteSet(S), NEW f, NEW g, NEW h, Sums(g, f, S), Sums(h, f, S)
  PROVE  \A s \in SUBSET S : g[s] = h[s]
<1> DEFINE Good == {s \in SUBSET S : g[s] = h[s]}
<1>1. \A s \in SUBSET S : (\A x \in s : s \ {x} \in Good) => s \in Good
  BY PickIn DEF Sums
<1>2. SUBSET S \subseteq Good
  <2> HIDE DEF Good
  <2> QED
    BY <1>1, SubsetInduction
<1> QED
  BY <1>2

--------------------------------------------------------------------------------
(* The sum of f over S, as the fold takes it.                               *)
Sum(f, S) == MapThenSumSet(LAMBDA x : f[x], S)

LEMMA SumSolves ==
  ASSUME NEW S, IsFiniteSet(S), NEW f, \A x \in S : f[x] \in Int
  PROVE  \E g : Sums(g, f, S) /\ Sum(f, S) = g[S]
<1> DEFINE Eq(g) == g = [s \in SUBSET S |->
                           IF s = {} THEN 0
                           ELSE LET x == CHOOSE x \in s : TRUE IN f[x] + g[s \ {x}]]
           iter == CHOOSE g : Eq(g)
<1>1. \E g : Eq(g)
  <2>1. PICK g \in [SUBSET S -> Int] : Sums(g, f, S)
    BY SumsExist
  <2>2. Eq(g)
    BY <2>1 DEF Sums, Pick
  <2> QED
    BY <2>2, Zenon
<1>2. Eq(iter)
  <2> HIDE DEF Eq
  <2> QED
    BY <1>1
<1>3. Sums(iter, f, S)
  <2> HIDE DEF iter
  <2> QED
    BY <1>2 DEF Sums, Pick
<1>4. Sum(f, S) = iter[S]
  BY Zenon DEF Sum, MapThenSumSet, MapThenFoldSet
<1> QED
  BY <1>3, <1>4, Zenon

(* One function sums up f over every subset of S.                           *)
SumsAll(g, f, S) ==
  g \in [SUBSET S -> Int] /\ Sums(g, f, S) /\ \A T \in SUBSET S : Sum(f, T) = g[T]

LEMMA OneSumForAll ==
  ASSUME NEW S, IsFiniteSet(S), NEW f, \A x \in S : f[x] \in Int
  PROVE  \E g : SumsAll(g, f, S)
<1>1. PICK g \in [SUBSET S -> Int] : Sums(g, f, S)
  BY SumsExist
<1>2. ASSUME NEW T \in SUBSET S PROVE Sum(f, T) = g[T]
  <2>1. IsFiniteSet(T) /\ \A x \in T : f[x] \in Int
    BY FS_Subset
  <2>2. PICK h : Sums(h, f, T) /\ Sum(f, T) = h[T]
    BY <2>1, SumSolves
  <2>3. Sums(g, f, T)
    BY <1>1 DEF Sums
  <2>4. \A t \in SUBSET T : g[t] = h[t]
    BY <2>1, <2>2, <2>3, SumsUnique
  <2> QED
    BY <2>2, <2>4
<1>3. SumsAll(g, f, S)
  BY <1>1, <1>2 DEF SumsAll
<1> QED
  BY <1>3, Zenon

LEMMA SumType ==
  ASSUME NEW S, IsFiniteSet(S), NEW f, \A x \in S : f[x] \in Int
  PROVE  Sum(f, S) \in Int
<1>1. PICK g : SumsAll(g, f, S)
  BY OneSumForAll
<1> QED
  BY <1>1 DEF SumsAll

LEMMA SumEmpty ==
  ASSUME NEW f
  PROVE  Sum(f, {}) = 0
<1>1. IsFiniteSet({}) /\ \A x \in {} : f[x] \in Int
  BY FS_EmptySet
<1>2. PICK g : SumsAll(g, f, {})
  BY <1>1, OneSumForAll
<1> QED
  BY <1>2 DEF SumsAll, Sums

(* It does not matter which element is added last.                          *)
LEMMA SumAdd ==
  ASSUME NEW S, IsFiniteSet(S), NEW f, \A x \in S : f[x] \in Int, NEW x \in S
  PROVE  Sum(f, S) = f[x] + Sum(f, S \ {x})
<1>1. PICK g : SumsAll(g, f, S)
  BY OneSumForAll
<1> DEFINE Good == {s \in SUBSET S : \A y \in s : g[s] = f[y] + g[s \ {y}]}
<1>2. ASSUME NEW s \in SUBSET S, \A y \in s : s \ {y} \in Good, NEW y \in s
      PROVE  g[s] = f[y] + g[s \ {y}]
  <2> DEFINE p == Pick(s)
  <2>1. p \in s
    BY PickIn
  <2>2. g[s] = f[p] + g[s \ {p}]
    BY <1>1 DEF SumsAll, Sums
  <2> HIDE DEF p
  <2>3. CASE y # p
    <3>1. y \in s \ {p} /\ p \in s \ {y}
      BY <2>1, <2>3
    <3>2. g[s \ {p}] = f[y] + g[(s \ {p}) \ {y}]
      BY <1>2, <2>1, <3>1
    <3>3. g[s \ {y}] = f[p] + g[(s \ {y}) \ {p}]
      BY <1>2, <3>1
    <3>4. (s \ {p}) \ {y} = (s \ {y}) \ {p} /\ (s \ {p}) \ {y} \in SUBSET S
      OBVIOUS
    <3>5. f[y] \in Int /\ f[p] \in Int /\ g[(s \ {p}) \ {y}] \in Int
      BY <1>1, <2>1, <3>4 DEF SumsAll
    <3> DEFINE a == f[p]
               b == f[y]
               n == g[(s \ {p}) \ {y}]
    <3>6. /\ a \in Int /\ b \in Int /\ n \in Int
          /\ g[s] = a + (b + n) /\ g[s \ {y}] = a + n
      BY <2>2, <3>2, <3>3, <3>4, <3>5
    <3> HIDE DEF a, n
    <3>7. a + (b + n) = b + (a + n)
      BY <3>6
    <3> QED
      BY <3>6, <3>7
  <2> QED
    BY <2>2, <2>3
<1>3. \A s \in SUBSET S : (\A y \in s : s \ {y} \in Good) => s \in Good
  BY <1>2
<1>4. SUBSET S \subseteq Good
  <2> HIDE DEF Good
  <2> QED
    BY <1>3, SubsetInduction
<1>5. g[S] = f[x] + g[S \ {x}]
  BY <1>4
<1> QED
  BY <1>1, <1>5 DEF SumsAll

(* A sum depends on what is summed up and on nothing else.                  *)
LEMMA SumSame ==
  ASSUME NEW S, IsFiniteSet(S), NEW f, NEW h,
         \A x \in S : f[x] \in Int /\ h[x] = f[x]
  PROVE  Sum(h, S) = Sum(f, S)
<1> DEFINE Good == {s \in SUBSET S : Sum(h, s) = Sum(f, s)}
<1>1. ASSUME NEW s \in SUBSET S, \A x \in s : s \ {x} \in Good, NEW x \in s
      PROVE  Sum(h, s) = Sum(f, s)
  <2>1. IsFiniteSet(s) /\ \A y \in s : f[y] \in Int /\ h[y] \in Int
    BY FS_Subset
  <2>2. Sum(h, s) = h[x] + Sum(h, s \ {x}) /\ Sum(f, s) = f[x] + Sum(f, s \ {x})
    BY <2>1, SumAdd
  <2> QED
    BY <1>1, <2>2
<1>2. Sum(h, {}) = Sum(f, {})
  BY SumEmpty
<1>3. \A s \in SUBSET S : (\A x \in s : s \ {x} \in Good) => s \in Good
  BY <1>1, <1>2
<1>4. SUBSET S \subseteq Good
  <2> HIDE DEF Good
  <2> QED
    BY <1>3, SubsetInduction
<1> QED
  BY <1>4

(* Sums may be subtracted element by element.                               *)
LEMMA SumMinus ==
  ASSUME NEW S, IsFiniteSet(S), NEW f, NEW a, NEW b,
         \A x \in S : a[x] \in Int /\ b[x] \in Int /\ f[x] = a[x] - b[x]
  PROVE  Sum(f, S) = Sum(a, S) - Sum(b, S)
<1> DEFINE Good == {s \in SUBSET S : Sum(f, s) = Sum(a, s) - Sum(b, s)}
<1>1. ASSUME NEW s \in SUBSET S, \A x \in s : s \ {x} \in Good, NEW x \in s
      PROVE  Sum(f, s) = Sum(a, s) - Sum(b, s)
  <2>1. IsFiniteSet(s) /\ \A y \in s : f[y] \in Int /\ a[y] \in Int /\ b[y] \in Int
    BY FS_Subset
  <2>2. /\ Sum(f, s) = f[x] + Sum(f, s \ {x})
        /\ Sum(a, s) = a[x] + Sum(a, s \ {x})
        /\ Sum(b, s) = b[x] + Sum(b, s \ {x})
    BY <2>1, SumAdd
  <2>3. /\ Sum(a, s \ {x}) \in Int /\ Sum(b, s \ {x}) \in Int
        /\ a[x] \in Int /\ b[x] \in Int /\ f[x] = a[x] - b[x]
    <3>1. IsFiniteSet(s \ {x})
      BY <2>1, FS_Subset
    <3> QED
      BY <2>1, <3>1, SumType
  <2>4. Sum(f, s \ {x}) = Sum(a, s \ {x}) - Sum(b, s \ {x})
    BY <1>1
  <2> QED
    BY <2>2, <2>3, <2>4
<1>2. Sum(f, {}) = Sum(a, {}) - Sum(b, {})
  BY SumEmpty
<1>3. \A s \in SUBSET S : (\A x \in s : s \ {x} \in Good) => s \in Good
  BY <1>1, <1>2
<1>4. SUBSET S \subseteq Good
  <2> HIDE DEF Good
  <2> QED
    BY <1>3, SubsetInduction
<1> QED
  BY <1>4

(* What one summand grows by, the sum grows by.                             *)
LEMMA SumPoint ==
  ASSUME NEW S, IsFiniteSet(S), NEW f, NEW h, NEW x \in S, NEW d \in Int,
         \A y \in S : h[y] \in Int, \A y \in S \ {x} : f[y] = h[y], f[x] = d + h[x]
  PROVE  Sum(f, S) = d + Sum(h, S)
<1>1. /\ \A y \in S : f[y] \in Int
      /\ IsFiniteSet(S \ {x})
  BY FS_Subset
<1>2. Sum(f, S) = f[x] + Sum(f, S \ {x}) /\ Sum(h, S) = h[x] + Sum(h, S \ {x})
  BY <1>1, SumAdd
<1>3. Sum(f, S \ {x}) = Sum(h, S \ {x})
  BY <1>1, SumSame
<1>4. Sum(h, S \ {x}) \in Int
  BY <1>1, SumType
<1> QED
  BY <1>2, <1>3, <1>4

(* Zero summands add nothing.                                               *)
LEMMA SumZero ==
  ASSUME NEW S, IsFiniteSet(S), NEW f, \A x \in S : f[x] = 0
  PROVE  Sum(f, S) = 0
<1> DEFINE Good == {s \in SUBSET S : Sum(f, s) = 0}
<1>1. ASSUME NEW s \in SUBSET S, \A x \in s : s \ {x} \in Good, NEW x \in s
      PROVE  Sum(f, s) = 0
  <2>1. IsFiniteSet(s) /\ \A y \in s : f[y] \in Int
    BY FS_Subset
  <2>2. Sum(f, s) = f[x] + Sum(f, s \ {x})
    BY <2>1, SumAdd
  <2> QED
    BY <1>1, <2>2
<1>2. Sum(f, {}) = 0
  BY SumEmpty
<1>3. \A s \in SUBSET S : (\A x \in s : s \ {x} \in Good) => s \in Good
  BY <1>1, <1>2
<1>4. SUBSET S \subseteq Good
  <2> HIDE DEF Good
  <2> QED
    BY <1>3, SubsetInduction
<1> QED
  BY <1>4

(* F sums up f group by group, c naming the group of each element.          *)
GroupSums(F, f, S, c, K) == \A k \in K : F[k] = Sum(f, {x \in S : c[x] = k})

LEMMA SumGroups ==
  ASSUME NEW S, IsFiniteSet(S), NEW f, \A x \in S : f[x] \in Int,
         NEW K, IsFiniteSet(K), NEW c, \A x \in S : c[x] \in K,
         NEW F, GroupSums(F, f, S, c, K)
  PROVE  Sum(F, K) = Sum(f, S)
<1> DEFINE G(s) == [k \in K |-> Sum(f, {x \in s : c[x] = k})]
           Good == {s \in SUBSET S : Sum(G(s), K) = Sum(f, s)}
<1>1. ASSUME NEW s \in SUBSET S
      PROVE  /\ IsFiniteSet(s) /\ \A x \in s : f[x] \in Int /\ c[x] \in K
             /\ \A k \in K : /\ G(s)[k] = Sum(f, {x \in s : c[x] = k})
                             /\ G(s)[k] \in Int
  <2>1. IsFiniteSet(s) /\ \A x \in s : f[x] \in Int /\ c[x] \in K
    BY FS_Subset
  <2>2. ASSUME NEW k \in K
        PROVE  Sum(f, {x \in s : c[x] = k}) \in Int
    <3>1. IsFiniteSet({x \in s : c[x] = k})
      BY <2>1, FS_Subset
    <3> QED
      BY <2>1, <3>1, SumType
  <2> QED
    BY <2>1, <2>2
<1>2. ASSUME NEW s \in SUBSET S, \A x \in s : s \ {x} \in Good, NEW x \in s
      PROVE  Sum(G(s), K) = Sum(f, s)
  <2> DEFINE r == s \ {x}
  <2>1. r \in SUBSET S /\ Sum(G(r), K) = Sum(f, r)
    BY <1>2
  <2>2. ASSUME NEW k \in K \ {c[x]} PROVE G(s)[k] = G(r)[k]
    <3>1. {y \in s : c[y] = k} = {y \in r : c[y] = k}
      OBVIOUS
    <3> QED
      BY <3>1
  <2>3. G(s)[c[x]] = f[x] + G(r)[c[x]]
    <3> DEFINE there == {y \in s : c[y] = c[x]}
    <3>1. x \in there /\ there \ {x} = {y \in r : c[y] = c[x]}
      OBVIOUS
    <3>2. IsFiniteSet(there) /\ \A y \in there : f[y] \in Int
      BY <1>1, FS_Subset
    <3>3. G(s)[c[x]] = Sum(f, there) /\ G(r)[c[x]] = Sum(f, there \ {x})
      BY <1>1, <3>1
    <3> HIDE DEF there
    <3>4. Sum(f, there) = f[x] + Sum(f, there \ {x})
      BY <3>1, <3>2, SumAdd
    <3> HIDE DEF G, r
    <3> QED
      BY <3>3, <3>4
  <2>4. Sum(f, s) = f[x] + Sum(f, r)
    BY <1>1, SumAdd
  <2>5. c[x] \in K /\ f[x] \in Int /\ \A k \in K : G(r)[k] \in Int
    BY <1>1, <2>1
  <2> DEFINE new == G(s)
             old == G(r)
             k == c[x]
             d == f[x]
  <2>6. /\ k \in K /\ d \in Int /\ \A y \in K : old[y] \in Int
        /\ \A y \in K \ {k} : new[y] = old[y]
        /\ new[k] = d + old[k]
    BY <2>2, <2>3, <2>5
  <2> HIDE DEF new, old, k, d
  <2>7. Sum(new, K) = d + Sum(old, K)
    BY <2>6, SumPoint
  <2> QED
    BY <2>1, <2>4, <2>7 DEF new, old, d
<1>3. Sum(G({}), K) = Sum(f, {})
  <2>1. ASSUME NEW k \in K PROVE G({})[k] = 0
    <3>1. {x \in {} : c[x] = k} = {}
      OBVIOUS
    <3> QED
      BY <3>1, SumEmpty
  <2> HIDE DEF G
  <2> QED
    BY <2>1, SumEmpty, SumZero
<1>4. \A s \in SUBSET S : (\A x \in s : s \ {x} \in Good) => s \in Good
  <2> HIDE DEF G
  <2> QED
    BY <1>2, <1>3
<1>5. SUBSET S \subseteq Good
  <2> HIDE DEF Good
  <2> QED
    BY <1>4, SubsetInduction
<1>6. Sum(G(S), K) = Sum(f, S)
  BY <1>5
<1>7. \A k \in K : G(S)[k] \in Int /\ F[k] = G(S)[k]
  BY <1>1 DEF GroupSums
<1> HIDE DEF G
<1>8. Sum(F, K) = Sum(G(S), K)
  BY <1>7, SumSame
<1> QED
  BY <1>6, <1>8

LEMMA SumIs ==
  ASSUME NEW S, IsFiniteSet(S), NEW f, \A x \in S : f[x] \in Int, NEW g, Sums(g, f, S)
  PROVE  Sum(f, S) = g[S]
<1>1. PICK h : Sums(h, f, S) /\ Sum(f, S) = h[S]
  BY SumSolves
<1>2. \A s \in SUBSET S : g[s] = h[s]
  BY <1>1, SumsUnique
<1> QED
  BY <1>1, <1>2

(* The three sums of the model that are not sums of a function.             *)
HoursOfInputs(S) == MapThenSumSet(LAMBDA e : e.hours, S)
HoursTaken(taken, S) == MapThenSumSet(LAMBDA k : taken[k].hours, S)
Deltas(system, customer, S) == MapThenSumSet(LAMBDA s : Delta(system, customer, s), S)
PairDeltas(pairs, S) == MapThenSumSet(LAMBDA s : pairs[s].delta, S)

LEMMA InputsSum ==
  ASSUME NEW S, IsFiniteSet(S), NEW f, \A e \in S : e.hours \in Int /\ f[e] = e.hours
  PROVE  HoursOfInputs(S) = Sum(f, S)
<1> DEFINE Eq(g) == g = [s \in SUBSET S |->
                           IF s = {} THEN 0
                           ELSE LET x == CHOOSE x \in s : TRUE IN x.hours + g[s \ {x}]]
           iter == CHOOSE g : Eq(g)
<1>1. \A s \in SUBSET S : s # {} => f[Pick(s)] = Pick(s).hours
  BY PickIn
<1>2. \E g : Eq(g)
  <2>1. PICK g \in [SUBSET S -> Int] : Sums(g, f, S)
    BY SumsExist
  <2>2. Eq(g)
    BY <1>1, <2>1 DEF Sums, Pick
  <2> QED
    BY <2>2, Zenon
<1>3. Eq(iter)
  <2> HIDE DEF Eq
  <2> QED
    BY <1>2
<1>4. Sums(iter, f, S)
  <2> HIDE DEF iter
  <2> QED
    BY <1>1, <1>3 DEF Sums, Pick
<1>5. HoursOfInputs(S) = iter[S]
  BY Zenon DEF HoursOfInputs, MapThenSumSet, MapThenFoldSet
<1>6. Sum(f, S) = iter[S]
  <2> HIDE DEF iter
  <2> QED
    BY <1>4, SumIs
<1> QED
  BY <1>5, <1>6, Zenon

LEMMA TakenSum ==
  ASSUME NEW S, IsFiniteSet(S), NEW taken, NEW f,
         \A k \in S : taken[k].hours \in Int /\ f[k] = taken[k].hours
  PROVE  HoursTaken(taken, S) = Sum(f, S)
<1> DEFINE Eq(g) == g = [s \in SUBSET S |->
                           IF s = {} THEN 0
                           ELSE LET x == CHOOSE x \in s : TRUE IN taken[x].hours + g[s \ {x}]]
           iter == CHOOSE g : Eq(g)
<1>1. \A s \in SUBSET S : s # {} => f[Pick(s)] = taken[Pick(s)].hours
  BY PickIn
<1>2. \E g : Eq(g)
  <2>1. PICK g \in [SUBSET S -> Int] : Sums(g, f, S)
    BY SumsExist
  <2>2. Eq(g)
    BY <1>1, <2>1 DEF Sums, Pick
  <2> QED
    BY <2>2, Zenon
<1>3. Eq(iter)
  <2> HIDE DEF Eq
  <2> QED
    BY <1>2
<1>4. Sums(iter, f, S)
  <2> HIDE DEF iter
  <2> QED
    BY <1>1, <1>3 DEF Sums, Pick
<1>5. HoursTaken(taken, S) = iter[S]
  BY Zenon DEF HoursTaken, MapThenSumSet, MapThenFoldSet
<1>6. Sum(f, S) = iter[S]
  <2> HIDE DEF iter
  <2> QED
    BY <1>4, SumIs
<1> QED
  BY <1>5, <1>6, Zenon

LEMMA DeltasSum ==
  ASSUME NEW S, IsFiniteSet(S), NEW system, NEW customer, NEW f,
         \A s \in S : Delta(system, customer, s) \in Int /\ f[s] = Delta(system, customer, s)
  PROVE  Deltas(system, customer, S) = Sum(f, S)
<1> DEFINE Eq(g) == g = [s \in SUBSET S |->
                           IF s = {} THEN 0
                           ELSE LET x == CHOOSE x \in s : TRUE
                                IN Delta(system, customer, x) + g[s \ {x}]]
           iter == CHOOSE g : Eq(g)
<1>1. \A s \in SUBSET S : s # {} => f[Pick(s)] = Delta(system, customer, Pick(s))
  BY PickIn
<1>2. \E g : Eq(g)
  <2>1. PICK g \in [SUBSET S -> Int] : Sums(g, f, S)
    BY SumsExist
  <2>2. Eq(g)
    BY <1>1, <2>1 DEF Sums, Pick
  <2> QED
    BY <2>2, Zenon
<1>3. Eq(iter)
  <2> HIDE DEF Eq
  <2> QED
    BY <1>2
<1>4. Sums(iter, f, S)
  <2> HIDE DEF iter
  <2> QED
    BY <1>1, <1>3 DEF Sums, Pick
<1>5. Deltas(system, customer, S) = iter[S]
  BY Zenon DEF Deltas, MapThenSumSet, MapThenFoldSet
<1>6. Sum(f, S) = iter[S]
  <2> HIDE DEF iter
  <2> QED
    BY <1>4, SumIs
<1> QED
  BY <1>5, <1>6, Zenon

LEMMA PairDeltasSum ==
  ASSUME NEW S, IsFiniteSet(S), NEW pairs, NEW f,
         \A s \in S : pairs[s].delta \in Int /\ f[s] = pairs[s].delta
  PROVE  PairDeltas(pairs, S) = Sum(f, S)
<1> DEFINE Eq(g) == g = [s \in SUBSET S |->
                           IF s = {} THEN 0
                           ELSE LET x == CHOOSE x \in s : TRUE IN pairs[x].delta + g[s \ {x}]]
           iter == CHOOSE g : Eq(g)
<1>1. \A s \in SUBSET S : s # {} => f[Pick(s)] = pairs[Pick(s)].delta
  BY PickIn
<1>2. \E g : Eq(g)
  <2>1. PICK g \in [SUBSET S -> Int] : Sums(g, f, S)
    BY SumsExist
  <2>2. Eq(g)
    BY <1>1, <2>1 DEF Sums, Pick
  <2> QED
    BY <2>2, Zenon
<1>3. Eq(iter)
  <2> HIDE DEF Eq
  <2> QED
    BY <1>2
<1>4. Sums(iter, f, S)
  <2> HIDE DEF iter
  <2> QED
    BY <1>1, <1>3 DEF Sums, Pick
<1>5. PairDeltas(pairs, S) = iter[S]
  BY Zenon DEF PairDeltas, MapThenSumSet, MapThenFoldSet
<1>6. Sum(f, S) = iter[S]
  <2> HIDE DEF iter
  <2> QED
    BY <1>4, SumIs
<1> QED
  BY <1>5, <1>6, Zenon

(* Summed up by another name of the same elements.                          *)
LEMMA SumRenamed ==
  ASSUME NEW S, IsFiniteSet(S), NEW f, \A x \in S : f[x] \in Int,
         NEW K, IsFiniteSet(K), NEW c, \A x \in S : c[x] \in K,
         \A k \in K : \E x \in S : c[x] = k,
         \A x, y \in S : c[x] = c[y] => x = y,
         NEW h, \A x \in S : h[c[x]] = f[x]
  PROVE  Sum(h, K) = Sum(f, S)
<1>1. ASSUME NEW k \in K PROVE h[k] = Sum(f, {y \in S : c[y] = k})
  <2>1. PICK x \in S : c[x] = k
    OBVIOUS
  <2>2. {y \in S : c[y] = k} = {x}
    BY <2>1
  <2>3. IsFiniteSet({x}) /\ {x} \ {x} = {} /\ \A y \in {x} : f[y] \in Int
    BY FS_Singleton
  <2>4. Sum(f, {x}) = f[x] + Sum(f, {x} \ {x})
    BY <2>3, SumAdd
  <2>5. Sum(f, {}) = 0
    BY SumEmpty
  <2>6. Sum(f, {x}) = f[x]
    BY <2>3, <2>4, <2>5
  <2> QED
    BY <2>1, <2>2, <2>6
<1>2. GroupSums(h, f, S, c, K)
  BY <1>1 DEF GroupSums
<1> QED
  BY <1>2, SumGroups

--------------------------------------------------------------------------------
(* The total of a diff.                                                     *)

(* The hours of a side, summed up slot by slot, are the hours of its inputs. *)
LEMMA SideSum ==
  ASSUME NEW inputs, IsFiniteSet(inputs), NEW keys \in SUBSET Slots,
         \A e \in inputs : e.hours \in Int /\ e.slot \in keys,
         NEW f, \A e \in inputs : f[e] = e.hours,
         NEW side, \A s \in keys : side[s] = aggregate(inputs)[s].hours
  PROVE  /\ \A s \in keys : side[s] \in Int
         /\ Sum(side, keys) = Sum(f, inputs)
<1> DEFINE slotOf == [e \in inputs |-> e.slot]
<1>1. ASSUME NEW s \in keys
      PROVE  side[s] = Sum(f, {e \in inputs : slotOf[e] = s}) /\ side[s] \in Int
  <2> DEFINE there == {e \in inputs : e.slot = s}
  <2>1. there = {e \in inputs : slotOf[e] = s}
    OBVIOUS
  <2>2. IsFiniteSet(there) /\ \A e \in there : e.hours \in Int /\ f[e] = e.hours /\ f[e] \in Int
    BY FS_Subset
  <2>3. aggregate(inputs)[s] = [present |-> there # {}, hours |-> HoursOfInputs(there)]
    <3>1. s \in Slots
      OBVIOUS
    <3> QED
      BY <3>1, Zenon DEF aggregate, HoursOfInputs
  <2> HIDE DEF there
  <2>4. side[s] = HoursOfInputs(there)
    BY <2>3
  <2>5. HoursOfInputs(there) = Sum(f, there)
    BY <2>2, InputsSum
  <2>6. Sum(f, there) \in Int
    BY <2>2, SumType
  <2> QED
    BY <2>1, <2>4, <2>5, <2>6
<1>2. IsFiniteSet(keys)
  BY SlotsAssumption, FS_Subset
<1>3. \A e \in inputs : f[e] \in Int /\ slotOf[e] \in keys
  OBVIOUS
<1>4. GroupSums(side, f, inputs, slotOf, keys)
  BY <1>1 DEF GroupSums
<1> HIDE DEF slotOf
<1>5. Sum(side, keys) = Sum(f, inputs)
  BY <1>2, <1>3, <1>4, SumGroups
<1> QED
  BY <1>1, <1>5

(* A sum rounded once: a multiple of 0.0001 hours, half of that away from   *)
(* the sum at most.                                                         *)
Rounds(total, exact) ==
  total \in Int /\ total % Scale = 0 /\ 2 * (total - exact) \in -Scale .. Scale

LEMMA RoundNear == ASSUME NEW x \in Int PROVE Rounds(Round4(x), x)
<1> DEFINE up(n) == Scale * ((2 * n + Scale) \div (2 * Scale))
<1>1. Scale \in Nat /\ Scale > 0
  BY ScaleAssumption
<1>2. ASSUME NEW n \in Int
      PROVE  /\ up(n) \in Int
             /\ \E q \in Int : up(n) = Scale * q
             /\ 2 * up(n) - 2 * n <= Scale
             /\ 2 * n - 2 * up(n) <= Scale
  <2> DEFINE q == (2 * n + Scale) \div (2 * Scale)
             rest == (2 * n + Scale) % (2 * Scale)
  <2>1. 2 * Scale \in Nat /\ 2 * Scale > 0 /\ 2 * n + Scale \in Int
    BY <1>1
  <2>2. q \in Int /\ rest \in Int /\ 0 <= rest /\ rest < 2 * Scale
    BY <2>1
  <2>3. 2 * n + Scale = (2 * Scale) * q + rest
    BY <2>1
  <2>4. up(n) = Scale * q
    OBVIOUS
  <2> HIDE DEF q, rest, up
  <2>5. Scale * q \in Int /\ (2 * Scale) * q = 2 * (Scale * q)
    BY <1>1, <2>2
  <2> QED
    BY <1>1, <2>2, <2>3, <2>4, <2>5
<1>3. /\ x >= 0 => Round4(x) = up(x)
      /\ ~(x >= 0) => Round4(x) = -up(-x)
  BY DEF Round4
<1>4. \A q \in Int : (Scale * q) % Scale = 0
  BY <1>1
<1> HIDE DEF up
<1>5. CASE x >= 0
  <2>1. Round4(x) % Scale = 0
    BY <1>2, <1>3, <1>4, <1>5
  <2>2. PICK r \in Int : r = Round4(x) /\ 2 * r - 2 * x <= Scale /\ 2 * x - 2 * r <= Scale
    BY <1>2, <1>3, <1>5
  <2>3. 2 * (r - x) \in -Scale .. Scale
    BY <1>1, <2>2
  <2> QED
    BY <2>1, <2>2, <2>3 DEF Rounds
<1>6. CASE ~(x >= 0)
  <2>1. -x \in Int
    OBVIOUS
  <2>2. PICK q \in Int : up(-x) = Scale * q
    BY <1>2, <2>1
  <2>3. -(Scale * q) = Scale * (-q) /\ -q \in Int
    BY <1>1
  <2>4. Round4(x) % Scale = 0
    BY <1>3, <1>4, <1>6, <2>2, <2>3
  <2>5. PICK r \in Int : -r = Round4(x) /\ 2 * r + 2 * x <= Scale /\ -(2 * x) - 2 * r <= Scale
    <3>1. PICK r \in Int : r = up(-x) /\ 2 * r - 2 * (-x) <= Scale /\ 2 * (-x) - 2 * r <= Scale
      BY <1>2, <2>1
    <3> QED
      BY <1>1, <1>3, <1>6, <3>1
  <2>6. -r \in Int /\ 2 * (-r - x) \in -Scale .. Scale
    BY <1>1, <2>5
  <2> QED
    BY <2>4, <2>5, <2>6 DEF Rounds
<1> QED
  BY <1>5, <1>6

(* Whatever the inputs, several of a slot or none, the deltas of the pairs  *)
(* of a diff add up to the hours of the customer's side less those of the   *)
(* system's, and the total is that sum rounded once: it errs by half of     *)
(* 0.0001 hours at most, however many slots there are (engine.go:92-152).   *)
THEOREM TotalOfSides ==
  ASSUME NEW systemIn, IsFiniteSet(systemIn), NEW customerIn, IsFiniteSet(customerIn),
         \A e \in systemIn \cup customerIn : e.hours \in Int /\ e.slot \in Slots,
         NEW f, \A e \in systemIn : f[e] = e.hours,
         NEW h, \A e \in customerIn : h[e] = e.hours,
         NEW d, d = Diff(systemIn, customerIn)
  PROVE  /\ PairDeltas(d.pairs, DOMAIN d.pairs) = Sum(h, customerIn) - Sum(f, systemIn)
         /\ Rounds(d.total_delta, PairDeltas(d.pairs, DOMAIN d.pairs))
<1> DEFINE system == aggregate(systemIn)
           customer == aggregate(customerIn)
           keys == {s \in Slots : system[s].present \/ customer[s].present}
           sys == [s \in keys |-> system[s].hours]
           cus == [s \in keys |-> customer[s].hours]
           delta == [s \in keys |-> Delta(system, customer, s)]
<1>1. /\ \A e \in systemIn : e.slot \in keys
      /\ \A e \in customerIn : e.slot \in keys
  BY AggregatePresent
<1>2. keys \in SUBSET Slots /\ IsFiniteSet(keys)
  BY SlotsAssumption, FS_Subset
<1>3. d.total_delta = Round4(Deltas(system, customer, keys))
  BY Zenon DEF Diff, Deltas
<1>4. /\ \A s \in keys : sys[s] = system[s].hours /\ cus[s] = customer[s].hours
      /\ \A s \in keys : delta[s] = Delta(system, customer, s)
      /\ \A s \in keys : delta[s] = cus[s] - sys[s]
  BY DEF Delta
<1>5. DOMAIN d.pairs = keys /\ \A s \in keys : d.pairs[s].delta = Delta(system, customer, s)
  <2>1. d.pairs = [s \in keys |-> [kind |-> Kind(system, customer, s),
                                   delta |-> Delta(system, customer, s)]]
    BY DEF Diff
  <2> HIDE DEF system, customer, keys
  <2> QED
    BY <2>1
<1> HIDE DEF keys, sys, cus, delta
<1>6. /\ \A s \in keys : sys[s] \in Int
      /\ Sum(sys, keys) = Sum(f, systemIn)
  BY <1>1, <1>2, <1>4, SideSum
<1>7. /\ \A s \in keys : cus[s] \in Int
      /\ Sum(cus, keys) = Sum(h, customerIn)
  BY <1>1, <1>2, <1>4, SideSum
<1> HIDE DEF system, customer
<1>8. \A s \in keys : Delta(system, customer, s) \in Int
  BY <1>4, <1>6, <1>7
<1>9. Deltas(system, customer, keys) = Sum(delta, keys)
  BY <1>2, <1>4, <1>8, DeltasSum
<1>10. PairDeltas(d.pairs, keys) = Sum(delta, keys)
  <2>1. \A s \in keys : d.pairs[s].delta \in Int /\ delta[s] = d.pairs[s].delta
    BY <1>4, <1>5, <1>8
  <2> QED
    BY <1>2, <2>1, PairDeltasSum
<1>11. Sum(delta, keys) = Sum(cus, keys) - Sum(sys, keys)
  BY <1>2, <1>4, <1>6, <1>7, SumMinus
<1>12. Sum(delta, keys) \in Int
  BY <1>2, <1>4, <1>8, SumType
<1>13. Rounds(d.total_delta, Sum(delta, keys))
  BY <1>3, <1>9, <1>12, RoundNear
<1> QED
  BY <1>5, <1>6, <1>7, <1>10, <1>11, <1>13

(* What ComputeDiff read of the records and of the reports, record by       *)
(* record and report by report.                                             *)
LEMMA TotalOfInputs ==
  ASSUME TypeOK, NEW said, said = {s \in Slots : reported[s] # NoReport},
         NEW d, d = Diff(SystemIn, CustomerIn)
  PROVE  /\ PairDeltas(d.pairs, DOMAIN d.pairs)
              = Sum(reported, said) - HoursTaken(scan.taken, Took)
         /\ Rounds(d.total_delta, PairDeltas(d.pairs, DOMAIN d.pairs))
<1> DEFINE ofRow(k) == [slot |-> SlotOf[k], hours |-> scan.taken[k].hours, of |-> k]
           ofSlot(s) == [slot |-> s, hours |-> reported[s], of |-> 0]
           taken == [k \in Took |-> scan.taken[k].hours]
           sysHours == [e \in SystemIn |-> e.hours]
           cusHours == [e \in CustomerIn |-> e.hours]
           rows == [k \in Took |-> ofRow(k)]
           slots == [s \in said |-> ofSlot(s)]
<1>1. IsFiniteSet(Took) /\ IsFiniteSet(said)
  BY FiniteRows, SlotsAssumption, FS_Subset DEF Took
<1>2. SystemIn = {ofRow(k) : k \in Took} /\ CustomerIn = {ofSlot(s) : s \in said}
  BY DEF SystemIn, CustomerIn
<1>3. IsFiniteSet(SystemIn) /\ IsFiniteSet(CustomerIn)
  <2>1. rows \in Surjection(Took, SystemIn)
    <3> HIDE DEF ofRow
    <3> QED
      BY <1>2 DEF Surjection
  <2>2. slots \in Surjection(said, CustomerIn)
    <3> HIDE DEF ofSlot
    <3> QED
      BY <1>2 DEF Surjection
  <2> QED
    BY <1>1, <2>1, <2>2, FS_Surjection
<1>4. /\ \A k \in Took : scan.taken[k].hours \in Int /\ SlotOf[k] \in Slots
      /\ \A s \in said : reported[s] \in Int /\ s \in Slots
  <2>1. ASSUME NEW k \in Took PROVE scan.taken[k].hours \in Int /\ SlotOf[k] \in Slots
    <3>1. k \in Rows
      BY DEF Took
    <3> QED
      BY <3>1, RowsAssumption DEF TypeOK
  <2>2. ASSUME NEW s \in said PROVE reported[s] \in Int /\ s \in Slots
    <3>1. s \in Slots /\ reported[s] # NoReport
      OBVIOUS
    <3>2. reported \in [Slots -> Hours \cup {NoReport}]
      BY DEF TypeOK
    <3>3. reported[s] \in Hours
      BY <3>1, <3>2
    <3>4. Hours \subseteq Int
      BY HoursAssumption
    <3> QED
      BY <3>1, <3>3, <3>4
  <2> QED
    BY <2>1, <2>2
<1>5. /\ \A k \in Took : /\ ofRow(k).hours = scan.taken[k].hours /\ ofRow(k).slot = SlotOf[k]
                         /\ ofRow(k).of = k
      /\ \A s \in said : ofSlot(s).hours = reported[s] /\ ofSlot(s).slot = s
  OBVIOUS
<1>6. \A e \in SystemIn \cup CustomerIn : e.hours \in Int /\ e.slot \in Slots
  <2> HIDE DEF ofRow, ofSlot
  <2> QED
    BY <1>2, <1>4, <1>5
<1>7. Sum(sysHours, SystemIn) = Sum(taken, Took)
  <2>1. /\ \A k \in Took : taken[k] \in Int
        /\ \A k \in Took : rows[k] = ofRow(k) /\ taken[k] = scan.taken[k].hours
    BY <1>4
  <2>2. \A e \in SystemIn : sysHours[e] = e.hours
    OBVIOUS
  <2> HIDE DEF ofRow, rows, taken, sysHours
  <2>3. /\ \A k \in Took : rows[k] \in SystemIn
        /\ \A e \in SystemIn : \E k \in Took : rows[k] = e
        /\ \A j, k \in Took : rows[j] = rows[k] => j = k
        /\ \A k \in Took : sysHours[rows[k]] = taken[k]
    BY <1>2, <1>5, <2>1, <2>2
  <2> QED
    BY <1>1, <1>3, <2>1, <2>3, SumRenamed
<1>8. Sum(cusHours, CustomerIn) = Sum(reported, said)
  <2>1. /\ \A s \in said : reported[s] \in Int
        /\ \A s \in said : slots[s] = ofSlot(s)
    BY <1>4
  <2>2. \A e \in CustomerIn : cusHours[e] = e.hours
    OBVIOUS
  <2> HIDE DEF ofSlot, slots, cusHours
  <2>3. /\ \A s \in said : slots[s] \in CustomerIn
        /\ \A e \in CustomerIn : \E s \in said : slots[s] = e
        /\ \A s, t \in said : slots[s] = slots[t] => s = t
        /\ \A s \in said : cusHours[slots[s]] = reported[s]
    BY <1>2, <1>5, <2>1, <2>2
  <2> QED
    BY <1>1, <1>3, <2>1, <2>3, SumRenamed
<1>9. HoursTaken(scan.taken, Took) = Sum(taken, Took)
  <2>1. \A k \in Took : taken[k] = scan.taken[k].hours
    OBVIOUS
  <2> HIDE DEF taken
  <2> QED
    BY <1>1, <1>4, <2>1, TakenSum
<1>10. /\ \A e \in SystemIn : sysHours[e] = e.hours
       /\ \A e \in CustomerIn : cusHours[e] = e.hours
  OBVIOUS
<1> HIDE DEF sysHours, cusHours, taken
<1>11. /\ PairDeltas(d.pairs, DOMAIN d.pairs) = Sum(cusHours, CustomerIn) - Sum(sysHours, SystemIn)
       /\ Rounds(d.total_delta, PairDeltas(d.pairs, DOMAIN d.pairs))
  BY <1>3, <1>6, <1>10, TotalOfSides
<1> QED
  BY <1>7, <1>8, <1>9, <1>11

(* Nothing of either side is lost in a diff: the deltas of its pairs add up *)
(* to what was reported less what the walk took, the total is that sum      *)
(* rounded once, and each slot has its own pair (engine.go:92-152).         *)
THEOREM DiffsBalance == Spec => []DiffBalances
<1>1. ASSUME TypeOK, DiffInv, PairsCoverBothSides PROVE DiffBalances
  <2> SUFFICES ASSUME scan.pc = "done" PROVE DiffBalances
    BY DEF DiffBalances
  <2> DEFINE slots == {SlotOf[k] : k \in Took}
             said == {s \in Slots : reported[s] # NoReport}
  <2>1. PairsOf(diff, slots, said)
    BY <1>1 DEF PairsCoverBothSides
  <2>2. /\ PairDeltas(diff.pairs, DOMAIN diff.pairs)
             = Sum(reported, said) - HoursTaken(scan.taken, Took)
        /\ Rounds(diff.total_delta, PairDeltas(diff.pairs, DOMAIN diff.pairs))
    <3>1. said = {s \in Slots : reported[s] # NoReport}
      OBVIOUS
    <3> HIDE DEF said
    <3>2. diff = Diff(SystemIn, CustomerIn)
      BY <1>1 DEF DiffInv
    <3> QED
      BY <1>1, <3>1, <3>2, TotalOfInputs
  <2> QED
    BY <2>1, <2>2, Zenon DEF DiffBalances, PairsOf, Sum, HoursTaken, PairDeltas, Rounds
<1> QED
  BY <1>1, TypeCorrect, DiffInvHolds, PairsCover, PTL
================================================================================
