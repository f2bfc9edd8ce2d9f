----------------------------- MODULE ChangeFeedProofs -----------------------------
(****************************************************************************)
(* Theorems about ChangeFeed for any orders, any finite set of client       *)
(* sequences, any page sizes and any number of rebuilds.                    *)
(****************************************************************************)
EXTENDS ChangeFeed, FiniteSetTheorems, TLAPS

(* The client's version is 0 or that of a record.                           *)
SinceInv == since = 0 \/ \E r \in Stored : version[r] = since

(* What nobody disturbs: the counter is ahead of every record, and of what  *)
(* the tool is about to write.                                              *)
CounterInv ==
  Undisturbed =>
    /\ \A r \in Stored : version[r] < counter
    /\ rebuild.pc = "counter" => rebuild.max \in Max0(Stored)

BudgetInv == budget["race"] <= Budget["race"]

Inv ==
  /\ TypeOK /\ BudgetInv /\ SinceInv /\ CounterInv
  /\ VersionsDistinct /\ NothingPassed /\ CursorsExact

--------------------------------------------------------------------------------
(* The facts about one set of records that the maximum rests on.            *)

LEMMA MaxType ==
  ASSUME version \in [Records -> Nat], NEW rs \in SUBSET Records, NEW m \in Max0(rs)
  PROVE  /\ m \in Nat /\ \A r \in rs : version[r] <= m
         /\ m = 0 \/ \E r \in rs : version[r] = m
  BY DEF Max0

LEMMA InitInv == Init => Inv
<1> SUFFICES ASSUME Init PROVE Inv
  OBVIOUS
<1>1. Stored = {} /\ \A o \in Orders : Of(o) = {}
  BY DEF Init, Stored, Of
<1>2. TypeOK
  BY <1>1, BudgetAssumption DEF Init, TypeOK, Idle, None
<1>3. BudgetInv
  BY BudgetAssumption DEF Init, BudgetInv, Events
<1>4. SinceInv /\ CounterInv /\ VersionsDistinct /\ NothingPassed
  BY <1>1 DEF Init, SinceInv, CounterInv, VersionsDistinct, NothingPassed, Idle
<1>5. CursorsExact
  BY <1>1 DEF Init, CursorsExact
<1> QED
  BY <1>2, <1>3, <1>4, <1>5 DEF Inv

(* What Spend leaves.                                                       *)
LEMMA Spending ==
  ASSUME TypeOK, BudgetInv, NEW e \in Events, Spend(e)
  PROVE  /\ budget' \in [Events -> Nat] /\ budget'["race"] <= Budget["race"]
         /\ e = "race" => ~Undisturbed'
         /\ e = "rebuild" => budget'["race"] = budget["race"]
<1>1. budget \in [Events -> Nat] /\ Budget["race"] \in Nat
  BY BudgetAssumption DEF TypeOK, Events
<1> QED
  BY <1>1 DEF Spend, BudgetInv, Undisturbed, Events

(* The records a backfill adds, with their numbers.                         *)
LEMMA BackfillRows ==
  ASSUME TypeOK, NEW o \in Orders, NEW seqs \in SUBSET Sequences, Backfill(o, {o} \X seqs)
  PROVE  LET fresh == ({o} \X seqs) \ Stored IN
         /\ version' \in [Records -> Nat] /\ counter' \in Nat /\ counter' >= counter
         /\ \A r \in fresh : counter <= version'[r] /\ version'[r] < counter'
         /\ \A r, q \in fresh : version'[r] = version'[q] => r = q
         /\ \A r \in Records \ fresh : version'[r] = version[r]
         /\ Stored' = Stored \cup fresh
<1> DEFINE fresh == ({o} \X seqs) \ Stored
<1>1. version \in [Records -> Nat] /\ counter \in Nat \ {0}
  BY DEF TypeOK
<1>2. fresh \subseteq Records /\ Cardinality(fresh) \in Nat
  <2>1. IsFiniteSet(seqs)
    BY SequencesAssumption, FS_Subset
  <2>2. IsFiniteSet({o})
    BY FS_Singleton
  <2>3. IsFiniteSet({o} \X seqs)
    BY <2>1, <2>2, FS_Product
  <2>4. IsFiniteSet(fresh)
    BY <2>3, FS_Subset
  <2> QED
    BY <2>4, FS_CardinalityType DEF Records
<1>3. PICK f \in Numbers(fresh) :
        version' = [r \in Records |-> IF r \in fresh THEN f[r] ELSE version[r]]
  BY DEF Backfill
<1>4. counter' = counter + Cardinality(fresh)
  BY DEF Backfill, Bumped
<1> DEFINE n == Cardinality(fresh)
<1> HIDE DEF n
<1>5. n \in Nat /\ counter' = counter + n
  BY <1>2, <1>4 DEF n
<1>6. f \in [fresh -> counter .. counter + n - 1]
  BY <1>3 DEF Numbers, n
<1>7. \A r, q \in fresh : f[r] = f[q] => r = q
  BY <1>3 DEF Numbers
<1> HIDE DEF fresh
<1>8. \A r \in fresh : counter <= f[r] /\ f[r] < counter + n /\ f[r] \in Nat /\ f[r] # 0
  BY <1>1, <1>5, <1>6
<1>9. /\ \A r \in fresh : version'[r] = f[r]
      /\ \A r \in Records \ fresh : version'[r] = version[r]
      /\ version' \in [Records -> Nat]
  BY <1>1, <1>2, <1>3, <1>8
<1>10. Stored' = Stored \cup fresh
  BY <1>2, <1>8, <1>9 DEF Stored
<1> QED
  BY <1>1, <1>5, <1>7, <1>8, <1>9, <1>10 DEF fresh

LEMMA BackfillInv ==
  ASSUME Inv, NEW o \in Orders, NEW seqs \in SUBSET Sequences, Backfill(o, {o} \X seqs)
  PROVE  Inv'
<1> DEFINE sent == {o} \X seqs
           fresh == sent \ Stored
<1>1. /\ TypeOK /\ BudgetInv /\ SinceInv /\ CounterInv
      /\ VersionsDistinct /\ NothingPassed /\ CursorsExact
  BY DEF Inv
<1>2. /\ version' \in [Records -> Nat] /\ counter' \in Nat /\ counter' >= counter
      /\ \A r \in fresh : counter <= version'[r] /\ version'[r] < counter'
      /\ \A r, q \in fresh : version'[r] = version'[q] => r = q
      /\ \A r \in Records \ fresh : version'[r] = version[r]
      /\ Stored' = Stored \cup fresh
  BY <1>1, BackfillRows
<1>3. /\ version \in [Records -> Nat] /\ counter \in Nat \ {0} /\ Stored \subseteq Records
      /\ since \in Nat /\ sent \subseteq Records /\ fresh \cap Stored = {}
      /\ \A r \in sent : r[1] = o
      /\ \A r \in Stored : version'[r] = version[r]
  BY <1>1, <1>2 DEF TypeOK, Stored, Records
<1>4. /\ UNCHANGED <<asked, since, got, rebuild>>
      /\ IF rebuild.pc = "counter" THEN Spend("race") ELSE UNCHANGED budget
  BY DEF Backfill
<1>5. PICK last \in Max0(sent)' : UpsertBackfill(o, last)
  BY DEF Backfill
<1> HIDE DEF fresh, sent
<1>6. /\ budget' \in [Events -> Nat] /\ BudgetInv'
      /\ Undisturbed' => Undisturbed /\ rebuild.pc # "counter"
  <2>1. CASE rebuild.pc = "counter"
    BY <1>1, <1>4, <2>1, Spending DEF Events, BudgetInv
  <2>2. CASE rebuild.pc # "counter"
    BY <1>1, <1>4, <2>2 DEF TypeOK, BudgetInv, Undisturbed
  <2> QED
    BY <2>1, <2>2
<1>7. /\ last \in Nat /\ \A r \in sent : version'[r] <= last
      /\ last = 0 \/ \E r \in sent : version'[r] = last
  BY <1>2, <1>3, <1>5 DEF Max0
<1>8. TypeOK'
  <2>1. cursor' \in [Orders -> Nat \cup {None}]
    BY <1>1, <1>5, <1>7 DEF TypeOK, UpsertBackfill
  <2> QED
    BY <1>1, <1>2, <1>3, <1>4, <1>6, <2>1 DEF TypeOK
<1>9. SinceInv'
  BY <1>1, <1>2, <1>3, <1>4 DEF SinceInv
<1>10. CounterInv' /\ VersionsDistinct' /\ NothingPassed'
  <2> SUFFICES ASSUME Undisturbed'
               PROVE  /\ \A r \in Stored' : version'[r] < counter'
                      /\ rebuild'.pc = "counter" => rebuild'.max \in Max0(Stored)'
                      /\ \A r, q \in Stored' : version'[r] = version'[q] => r = q
                      /\ \A r \in Stored' : version'[r] <= since' => r \in got'
    BY DEF CounterInv, VersionsDistinct, NothingPassed
  <2>1. /\ \A r \in Stored : version[r] < counter
        /\ \A r, q \in Stored : version[r] = version[q] => r = q
        /\ \A r \in Stored : version[r] <= since => r \in got
        /\ rebuild'.pc # "counter"
    BY <1>1, <1>4, <1>6 DEF CounterInv, VersionsDistinct, NothingPassed
  <2>2. since < counter
    BY <1>1, <1>3, <2>1 DEF SinceInv
  <2>3. \A r \in Stored : version[r] \in Nat /\ version'[r] = version[r] /\ version'[r] < counter
    BY <1>3, <2>1
  <2>4. \A r \in fresh : version'[r] \in Nat
    BY <1>2, <1>3 DEF fresh
  <2>5. \A r \in Stored' : version'[r] < counter'
    BY <1>2, <1>3, <2>3, <2>4
  <2>6. \A r, q \in Stored' : version'[r] = version'[q] => r = q
    BY <1>2, <1>3, <2>1, <2>3, <2>4
  <2>7. \A r \in Stored' : version'[r] <= since' => r \in got'
    BY <1>2, <1>3, <1>4, <2>1, <2>2, <2>3, <2>4
  <2> QED
    BY <2>1, <2>5, <2>6, <2>7
<1>11. CursorsExact'
  <2> SUFFICES ASSUME NEW p \in Orders
               PROVE  IF cursor'[p] = None THEN Of(p)' = {} ELSE cursor'[p] \in Max0(Of(p))'
    BY DEF CursorsExact
  <2>1. /\ IF cursor[p] = None THEN Of(p) = {} ELSE cursor[p] \in Max0(Of(p))
        /\ cursor \in [Orders -> Nat \cup {None}]
    BY <1>1 DEF CursorsExact, TypeOK
  <2>2. CASE p # o
    <3>1. cursor'[p] = cursor[p]
      BY <1>5, <2>1, <2>2 DEF UpsertBackfill
    <3>2. Of(p)' = Of(p)
      BY <1>2, <1>3, <2>2 DEF Of, fresh
    <3>3. \A r \in Of(p) : version'[r] = version[r]
      BY <1>3 DEF Of
    <3> QED
      BY <2>1, <3>1, <3>2, <3>3 DEF Max0
  <2>3. CASE p = o
    <3>1. cursor'[o] = IF cursor[o] > last THEN cursor[o] ELSE last
      BY <1>5, <2>1, <2>3 DEF UpsertBackfill
    <3>2. Of(o)' = Of(o) \cup fresh /\ fresh \subseteq sent /\ sent \subseteq Of(o)'
      BY <1>2, <1>3 DEF Of, fresh
    <3>3. \A r \in Of(o) : version'[r] = version[r] /\ version[r] \in Nat
      BY <1>3 DEF Of
    <3>4. CASE cursor[o] = None
      <4>1. cursor'[o] = last /\ last # None
        BY <1>7, <3>1, <3>4 DEF None
      <4>2. Of(o)' \subseteq sent
        BY <2>1, <2>3, <3>2, <3>4
      <4> QED
        BY <1>7, <2>3, <3>2, <4>1, <4>2 DEF Max0
    <3>5. CASE cursor[o] # None
      <4>1. /\ cursor[o] \in Nat /\ \A r \in Of(o) : version[r] <= cursor[o]
            /\ cursor[o] = 0 \/ \E r \in Of(o) : version[r] = cursor[o]
        BY <2>1, <2>3, <3>5 DEF Max0
      <4>2. cursor'[o] \in Nat /\ cursor'[o] >= cursor[o] /\ cursor'[o] >= last
        BY <1>7, <3>1, <4>1
      <4>3. \A r \in Of(o)' : version'[r] \in Nat /\ version'[r] <= cursor'[o]
        BY <1>2, <1>3, <1>7, <3>2, <3>3, <4>1, <4>2
      <4>4. cursor'[o] = 0 \/ \E r \in Of(o)' : version'[r] = cursor'[o]
        BY <1>7, <3>1, <3>2, <3>3, <4>1
      <4>5. cursor'[o] # None
        BY <4>2 DEF None
      <4> QED
        BY <2>3, <4>3, <4>4, <4>5 DEF Max0
    <3> QED
      BY <3>4, <3>5
  <2> QED
    BY <2>2, <2>3
<1> QED
  BY <1>6, <1>8, <1>9, <1>10, <1>11 DEF Inv

(* A pull moves only the client.                                            *)
LEMMA PullInv ==
  ASSUME Inv, PullChanges
  PROVE  Inv'
<1>1. /\ TypeOK /\ BudgetInv /\ SinceInv /\ CounterInv
      /\ VersionsDistinct /\ NothingPassed /\ CursorsExact
  BY DEF Inv
<1>2. PICK page \in Pages :
        /\ got' = got \cup page
        /\ since' \in {version[r] : r \in page}
        /\ \A r \in page : version[r] <= since'
        /\ UNCHANGED <<version, counter, cursor, asked, rebuild, budget>>
  BY DEF PullChanges
<1>3. /\ page \subseteq Newer
      /\ \A r \in page, q \in Newer \ page : version[r] <= version[q]
  BY DEF Pages
<1>4. /\ Stored' = Stored /\ version' = version /\ (Undisturbed' <=> Undisturbed)
      /\ \A o \in Orders : Of(o)' = Of(o)
  BY <1>2 DEF Stored, Undisturbed, Of
<1>5. page \subseteq Stored /\ since' \in Nat
  BY <1>1, <1>2, <1>3 DEF Newer, Stored, TypeOK
<1>6. TypeOK'
  BY <1>1, <1>2, <1>4, <1>5 DEF TypeOK
<1>7. SinceInv'
  BY <1>2, <1>4, <1>5 DEF SinceInv
<1>8. BudgetInv' /\ CounterInv' /\ VersionsDistinct'
  BY <1>1, <1>2, <1>4 DEF BudgetInv, CounterInv, VersionsDistinct, Max0
<1>9. CursorsExact'
  BY <1>1, <1>2, <1>4 DEF CursorsExact, Max0
<1>10. NothingPassed'
  <2> SUFFICES ASSUME Undisturbed, NEW r \in Stored, version[r] <= since'
               PROVE  r \in got \cup page
    BY <1>2, <1>4 DEF NothingPassed
  <2>1. version[r] <= since => r \in got
    BY <1>1 DEF NothingPassed
  <2>2. CASE version[r] > since /\ r \notin page
    <3>1. r \in Newer
      BY <2>2 DEF Newer
    <3>2. PICK q \in page : version[q] = since'
      BY <1>2
    <3>3. version[q] <= version[r]
      BY <1>3, <2>2, <3>1
    <3>4. version[r] = version[q]
      BY <1>1, <1>5, <3>2, <3>3 DEF TypeOK, Stored
    <3> QED
      BY <1>1, <1>5, <2>2, <3>4 DEF VersionsDistinct
  <2>3. version[r] \in Nat /\ since \in Nat
    BY <1>1 DEF TypeOK, Stored
  <2> QED
    BY <2>1, <2>2, <2>3
<1> QED
  BY <1>6, <1>7, <1>8, <1>9, <1>10 DEF Inv

(* The tool touches only the counter and the cursors.                       *)
LEMMA RebuildInv ==
  ASSUME Inv, ReadMax \/ SetCounter \/ RefreshCursors \/ InsertCursors \/ RebuildStops
  PROVE  Inv'
<1>1. /\ TypeOK /\ BudgetInv /\ SinceInv /\ CounterInv
      /\ VersionsDistinct /\ NothingPassed /\ CursorsExact
  BY DEF Inv
<1>2. UNCHANGED <<version, asked, since, got>>
  BY DEF ReadMax, SetCounter, RefreshCursors, InsertCursors, RebuildStops
<1>3. /\ Stored' = Stored /\ \A o \in Orders : Of(o)' = Of(o)
      /\ \A rs : Max0(rs)' = Max0(rs)
  BY <1>2 DEF Stored, Of, Max0
<1>4. /\ budget' \in [Events -> Nat] /\ BudgetInv' /\ (Undisturbed' <=> Undisturbed)
  <2>1. CASE ReadMax
    BY <1>1, <2>1, Spending DEF ReadMax, Events, BudgetInv, Undisturbed
  <2>2. CASE UNCHANGED budget
    BY <1>1, <2>2 DEF TypeOK, BudgetInv, Undisturbed
  <2> QED
    BY <2>1, <2>2 DEF SetCounter, RefreshCursors, InsertCursors, RebuildStops
<1>5. SinceInv' /\ VersionsDistinct' /\ NothingPassed'
  BY <1>1, <1>2, <1>3, <1>4 DEF SinceInv, VersionsDistinct, NothingPassed
<1>6. /\ rebuild \in [pc : {"idle", "counter", "cursors", "rows"}, max : Nat]
      /\ Stored \subseteq Records /\ version \in [Records -> Nat]
      /\ cursor \in [Orders -> Nat \cup {None}] /\ counter \in Nat \ {0}
  BY <1>1 DEF TypeOK, Stored
<1>7. ASSUME NEW o \in Orders, NEW m \in Max0(Of(o)) PROVE m \in Nat
  BY <1>6, <1>7 DEF Max0, Of
<1>8. /\ rebuild' \in [pc : {"idle", "counter", "cursors", "rows"}, max : Nat]
      /\ counter' \in Nat \ {0} /\ CounterInv'
  <2>1. CASE ReadMax
    <3>1. PICK m \in Max0(Stored) : rebuild' = [pc |-> "counter", max |-> m]
      BY <2>1 DEF ReadMax
    <3>2. m \in Nat /\ counter' = counter
      BY <1>6, <2>1, MaxType DEF ReadMax
    <3> QED
      BY <1>1, <1>2, <1>3, <1>4, <1>6, <3>1, <3>2 DEF CounterInv
  <2>2. CASE SetCounter
    <3>1. /\ rebuild.pc = "counter" /\ counter' = rebuild.max + 1
          /\ rebuild' = [rebuild EXCEPT !.pc = "cursors"]
      BY <2>2 DEF SetCounter, Rebuilding
    <3>2. rebuild.max \in Nat
      BY <1>6
    <3>3. Undisturbed => \A r \in Stored : version[r] <= rebuild.max /\ version[r] \in Nat
      BY <1>1, <1>6, <3>1, MaxType DEF CounterInv
    <3>4. /\ rebuild' \in [pc : {"idle", "counter", "cursors", "rows"}, max : Nat]
          /\ rebuild'.pc # "counter"
      BY <1>6, <3>1
    <3> QED
      BY <1>2, <1>3, <1>4, <3>1, <3>2, <3>3, <3>4 DEF CounterInv
  <2>3. CASE RefreshCursors \/ InsertCursors \/ RebuildStops
    <3>1. counter' = counter /\ rebuild'.pc # "counter"
          /\ rebuild' \in [pc : {"idle", "counter", "cursors", "rows"}, max : Nat]
      BY <1>6, <2>3 DEF RefreshCursors, InsertCursors, RebuildStops, Rebuilding, Idle
    <3> QED
      BY <1>1, <1>2, <1>3, <1>4, <1>6, <3>1 DEF CounterInv
  <2> QED
    BY <2>1, <2>2, <2>3
<1>9. cursor' \in [Orders -> Nat \cup {None}] /\ CursorsExact'
  <2>1. CASE RefreshCursors
    <3>1. PICK m \in Latest :
            cursor' = [o \in Orders |-> IF cursor[o] = None THEN None ELSE m[o]]
      BY <2>1 DEF RefreshCursors
    <3>2. \A o \in Orders : m[o] \in Max0(Of(o)) /\ m[o] \in Nat
      BY <1>7, <3>1 DEF Latest
    <3> QED
      BY <1>1, <1>3, <1>6, <3>1, <3>2 DEF CursorsExact, None
  <2>2. CASE InsertCursors
    <3>1. PICK m \in Latest :
            cursor' = [o \in Orders |-> IF cursor[o] = None THEN m[o] ELSE cursor[o]]
      BY <2>2 DEF InsertCursors
    <3>2. \A o \in Orders : m[o] \in Max0(Of(o)) /\ m[o] \in Nat
      BY <1>7, <3>1 DEF Latest
    <3> QED
      BY <1>1, <1>3, <1>6, <3>1, <3>2 DEF CursorsExact, None
  <2>3. CASE UNCHANGED cursor
    BY <1>1, <1>3, <1>6, <2>3 DEF CursorsExact
  <2> QED
    BY <2>1, <2>2, <2>3 DEF ReadMax, SetCounter, RebuildStops
<1>10. TypeOK'
  BY <1>1, <1>2, <1>3, <1>4, <1>8, <1>9 DEF TypeOK
<1> QED
  BY <1>4, <1>5, <1>8, <1>9, <1>10 DEF Inv

LEMMA NextInv == Inv /\ [Next]_vars => Inv'
<1> SUFFICES ASSUME Inv, [Next]_vars PROVE Inv'
  OBVIOUS
<1>1. CASE UNCHANGED vars
  BY <1>1 DEF vars, Inv, TypeOK, BudgetInv, SinceInv, CounterInv, VersionsDistinct,
              NothingPassed, CursorsExact, Stored, Of, Max0, Undisturbed
<1> QED
  BY <1>1, BackfillInv, PullInv, RebuildInv DEF Next

LEMMA Invariant == Spec => []Inv
  BY InitInv, NextInv, PTL DEF Spec

--------------------------------------------------------------------------------
(* Rows, cursors and captured values keep their types.                      *)
THEOREM TypeCorrect == Spec => []TypeOK
<1>1. Inv => TypeOK
  BY DEF Inv
<1> QED
  BY <1>1, Invariant, PTL

(* No version is given out twice, however often the index is rebuilt, as    *)
(* long as nothing is stored between the tool's first two statements.       *)
THEOREM NoVersionTwice == Spec => []VersionsDistinct
<1>1. Inv => VersionsDistinct
  BY DEF Inv
<1> QED
  BY <1>1, Invariant, PTL

(* Under the same condition a client never passes a record unseen.          *)
THEOREM NoRecordPassed == Spec => []NothingPassed
<1>1. Inv => NothingPassed
  BY DEF Inv
<1> QED
  BY <1>1, Invariant, PTL

(* The cursors are exact whatever backfills and rebuilds do to each other.  *)
THEOREM CursorsStayExact == Spec => []CursorsExact
<1>1. Inv => CursorsExact
  BY DEF Inv
<1> QED
  BY <1>1, Invariant, PTL
================================================================================
