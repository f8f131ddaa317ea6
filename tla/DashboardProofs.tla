--------------------------- MODULE DashboardProofs ---------------------------
(***************************************************************************)
(* What an administrator who reads a list page by page may rely on, for    *)
(* every number of rows and every page size.                               *)
(***************************************************************************)
EXTENDS Dashboard, FiniteSetTheorems, TLAPS

\* The rows a table may hold.
TableRows == {NoRow} \cup UserRows \cup RideRows \cup ReportRows

\* Rows that come before the next page to be read.
Passed == (IF walk.at = "total" THEN walk.page - 1 ELSE walk.page) * walk.size

\* The rows that stayed in the list and that no page to come will show.
Skipped == {i \in walk.from \ walk.seen : Rank(i) < Passed}

\* No more rows are skipped than rows have left the list, and no more are listed
\* than the last total says and came after it.
WalkInv ==
  /\ walk.at = "idle" => walk.from = {}
  /\ walk.from \subseteq Listed
  /\ Cardinality(Skipped) <= walk.left
  /\ walk.at = "total" => Cardinality(Listed) <= walk.total + walk.late

\* The rides counted first are not outnumbered before the second count.
StatsInv ==
  /\ stats.created # 0
  /\ stats.at = "created" /\ stats.late = 0 => Cardinality(Created) <= stats.created

IInv == TypeOK /\ WalkInv /\ MissesExplained /\ StatsInv /\ RateIsPercentage

-----------------------------------------------------------------------------
\* Sets of rows are finite, and counting them is monotone.
LEMMA RowsFinite ==
  /\ IsFiniteSet(Rows)
  /\ \A S \in SUBSET Rows : IsFiniteSet(S) /\ Cardinality(S) \in Nat
<1>1. IsFiniteSet(Rows)
  BY PagesAssumption, FS_Interval DEF Rows
<1> QED
  BY <1>1, FS_Subset, FS_CardinalityType

LEMMA CountMonotone ==
  ASSUME NEW S, NEW T \in SUBSET Rows, S \subseteq T
  PROVE  Cardinality(S) <= Cardinality(T)
BY RowsFinite, FS_Subset

LEMMA RankType == \A i \in Rows : Rank(i) \in Nat
<1>1. \A i \in Rows : {j \in Listed : j > i} \in SUBSET Rows
  BY DEF Listed
<1> QED
  BY <1>1, RowsFinite DEF Rank

\* A listed row comes after fewer rows than are listed.
LEMMA RankBelowTotal == \A i \in Listed : Rank(i) < Cardinality(Listed)
<1> SUFFICES ASSUME NEW i \in Listed PROVE Rank(i) < Cardinality(Listed)
  OBVIOUS
<1> DEFINE Before == {j \in Listed : j > i}
<1>1. Listed \in SUBSET Rows /\ Before \in SUBSET Rows /\ i \in Int
  BY DEF Listed, Rows
<1>2. i \notin Before
  BY <1>1
<1>3. Before \subseteq Listed /\ Before # Listed
  BY <1>2
<1>4. IsFiniteSet(Listed)
  BY <1>1, RowsFinite
<1>5. Cardinality(Before) < Cardinality(Listed)
  BY <1>3, <1>4, FS_Subset, <1>1, RowsFinite
<1> QED
  BY <1>5 DEF Rank

\* No two rows have one place in the list.
LEMMA RanksDiffer == \A i, j \in Listed : Rank(i) = Rank(j) => i = j
<1>1. ASSUME NEW i \in Listed, NEW j \in Listed, i < j
      PROVE  Rank(j) < Rank(i)
  <2> DEFINE before == {l \in Listed : l > i}
             fewer == {l \in Listed : l > j}
  <2>1. i \in Int /\ j \in Int /\ Listed \in SUBSET Rows /\ \A l \in Listed : l \in Int
    BY DEF Listed, Rows
  <2>2. \A l \in Listed : l > j => l > i
    BY <1>1, <2>1
  <2>3. fewer \subseteq before /\ j \in before /\ j \notin fewer
    <3>1. ~(j > j) /\ j > i
      BY <1>1, <2>1
    <3> QED
      BY <2>2, <3>1, Zenon
  <2>4. before \in SUBSET Rows /\ fewer \in SUBSET Rows
    BY <2>1
  <2>5. Cardinality(fewer) < Cardinality(before)
    <3> HIDE DEF before, fewer
    <3> QED
      BY <2>3, <2>4, RowsFinite, FS_Subset
  <2> QED
    BY <2>5 DEF Rank
<1>2. \A i \in Listed : i \in Int /\ Rank(i) \in Nat
  BY RankType DEF Listed, Rows
<1>3. \A i, j \in Listed : i < j \/ j < i \/ i = j
  BY <1>2
<1> QED
  BY <1>1, <1>2, <1>3

\* What comes after a place is not more than what the list holds beyond it.
LEMMA TailBounded ==
  ASSUME NEW n \in Nat
  PROVE  Cardinality({i \in Listed : Rank(i) >= n}) <=
           IF n < Cardinality(Listed) THEN Cardinality(Listed) - n ELSE 0
<1> DEFINE total == Cardinality(Listed)
           Tail == {i \in Listed : Rank(i) >= n}
           places == [i \in Tail |-> Rank(i)]
<1>1. total \in Nat /\ \A i \in Listed : Rank(i) \in Nat /\ Rank(i) < total
  BY RowsFinite, RankType, RankBelowTotal DEF Listed
<1>2. places \in Injection(Tail, n..(total - 1))
  <2> HIDE DEF total
  <2>1. places \in [Tail -> n..(total - 1)]
    BY <1>1
  <2>2. \A i, j \in Tail : places[i] = places[j] => i = j
    BY RanksDiffer
  <2> QED
    BY <2>1, <2>2 DEF Injection, IsInjective
<1>3. /\ IsFiniteSet(n..(total - 1))
      /\ Cardinality(n..(total - 1)) = IF n > total - 1 THEN 0 ELSE total - 1 - n + 1
  <2> HIDE DEF total
  <2> QED
    BY <1>1, FS_Interval
<1>4. Cardinality(Tail) <= Cardinality(n..(total - 1))
  <2> HIDE DEF Tail, places, total
  <2> QED
    BY <1>2, <1>3, FS_Injection
<1>5. Cardinality(Tail) \in Nat
  BY RowsFinite DEF Listed
<1> QED
  <2> HIDE DEF Tail, total
  <2>1. Cardinality(Tail) <= IF n < total THEN total - n ELSE 0
    BY <1>1, <1>3, <1>4, <1>5
  <2> QED
    BY <2>1 DEF Tail, total

-----------------------------------------------------------------------------
\* What is listed after a write, while the view stays.
LEMMA ListedNext ==
  ASSUME UNCHANGED view
  PROVE  Listed' = {j \in Rows : Shows(rows'[j])}
BY DEF Listed, Shows, Rows

\* A row that stays listed, while none leaves, does not move up.
LEMMA RanksGrow ==
  ASSUME Listed \subseteq Listed'
  PROVE  \A i \in Rows : Rank(i)' >= Rank(i)
<1> TAKE i \in Rows
<1>1. {j \in Listed : j > i} \subseteq {j \in Listed' : j > i}
  OBVIOUS
<1>2. {j \in Listed' : j > i} \in SUBSET Rows
  BY DEF Listed, Rows
<1> QED
  BY <1>1, <1>2, CountMonotone DEF Rank

\* A row moves up by one place at most when one row leaves.
LEMMA RanksFallByOne ==
  ASSUME NEW i \in Rows, Listed \ {i} \subseteq Listed'
  PROVE  \A j \in Rows : Rank(j) <= Rank(j)' + 1
<1> TAKE j \in Rows
<1> DEFINE Before == {k \in Listed : k > j}
           After == {k \in Listed' : k > j}
<1>1. Before \subseteq After \cup {i}
  OBVIOUS
<1>2. Before \in SUBSET Rows /\ After \in SUBSET Rows /\ After \cup {i} \in SUBSET Rows
  BY DEF Listed, Rows
<1>3. Cardinality(Before) <= Cardinality(After) + 1
  <2> HIDE DEF Before, After
  <2>1. Cardinality(Before) <= Cardinality(After \cup {i})
    BY <1>1, <1>2, CountMonotone
  <2>2. IsFiniteSet(After)
    BY <1>2, RowsFinite
  <2>3. Cardinality(After \cup {i}) <= Cardinality(After) + 1
    BY <1>2, <2>2, RowsFinite, FS_AddElement
  <2>4. /\ Cardinality(Before) \in Nat /\ Cardinality(After) \in Nat
        /\ Cardinality(After \cup {i}) \in Nat
    BY <1>2, RowsFinite
  <2> QED
    BY <2>1, <2>3, <2>4
<1> QED
  BY <1>3 DEF Rank

\* Skipped rows and rows to come are rows.
LEMMA SkippedFinite ==
  ASSUME IInv
  PROVE  /\ Skipped \in SUBSET Rows /\ Cardinality(Skipped) \in Nat
         /\ walk.from \ walk.seen \in SUBSET Rows /\ Cardinality(walk.from \ walk.seen) \in Nat
         /\ Listed \in SUBSET Rows /\ Cardinality(Listed) \in Nat
         /\ Passed \in Int /\ walk.left \in Nat /\ walk.late \in Nat /\ walk.total \in Nat
<1>1. /\ Skipped \in SUBSET Rows /\ walk.from \ walk.seen \in SUBSET Rows
      /\ Listed \in SUBSET Rows
  BY DEF IInv, TypeOK, Skipped, Listed
<1>2. Passed \in Int /\ walk.left \in Nat /\ walk.late \in Nat /\ walk.total \in Nat
  BY DEF IInv, TypeOK, Passed
<1> QED
  BY <1>1, <1>2, RowsFinite

\* A write of one row keeps the invariant when it makes no ride of another row.
LEMMA PutKeeps ==
  ASSUME IInv, NEW i \in Rows, NEW row \in TableRows, Put(i, row),
         rows[i] = NoRow \/ row.kind # "ride" \/ row.status = "deleted"
           \/ (rows[i].kind = "ride" /\ rows[i].status # "deleted")
  PROVE  IInv'
<1>1. TypeOK'
  <2>1. view' \in Views /\ rows' \in [Rows -> TableRows]
    BY DEF Put, IInv, TypeOK, TableRows
  <2>2. walk' \in [at : {"idle", "total", "page"}, page : Nat, size : Nat \ {0}, total : Nat,
                   from : SUBSET Rows, seen : SUBSET Rows, left : Nat, late : Nat]
    <3>1. walk' = [at |-> walk.at, page |-> walk.page, size |-> walk.size, total |-> walk.total,
                   from |-> IF Shows(row) THEN walk.from ELSE walk.from \ {i},
                   seen |-> walk.seen,
                   left |-> IF Departs(i, row) THEN walk.left + 1 ELSE walk.left,
                   late |-> IF Arrives(i, row) THEN walk.late + 1 ELSE walk.late]
      BY DEF Put, IInv, TypeOK
    <3>2. (IF Shows(row) THEN walk.from ELSE walk.from \ {i}) \in SUBSET Rows
      BY DEF IInv, TypeOK
    <3>3. /\ (IF Departs(i, row) THEN walk.left + 1 ELSE walk.left) \in Nat
          /\ (IF Arrives(i, row) THEN walk.late + 1 ELSE walk.late) \in Nat
      BY DEF IInv, TypeOK
    <3> QED
      BY <3>1, <3>2, <3>3 DEF IInv, TypeOK
  <2>3. stats' \in [at : {"idle", "created", "shown"}, created : Nat, cancelled : Nat,
                    late : Nat]
    BY DEF Put, IInv, TypeOK
  <2> QED
    BY <2>1, <2>2, <2>3 DEF TypeOK, TableRows
<1>2. \A j \in Rows : rows'[j] = IF j = i THEN row ELSE rows[j]
  BY DEF Put, IInv, TypeOK
<1>3. Listed' = {j \in Rows : Shows(rows'[j])}
  BY ListedNext DEF Put
<1>4. /\ walk'.at = walk.at /\ walk'.page = walk.page /\ walk'.size = walk.size
      /\ walk'.total = walk.total /\ walk'.seen = walk.seen
      /\ walk'.from = IF Shows(row) THEN walk.from ELSE walk.from \ {i}
      /\ walk'.left = IF Departs(i, row) THEN walk.left + 1 ELSE walk.left
      /\ walk'.late = IF Arrives(i, row) THEN walk.late + 1 ELSE walk.late
  BY DEF Put, IInv, TypeOK
<1>5. Passed' = Passed
  BY <1>4 DEF Passed
<1>a. /\ Skipped' \in SUBSET Rows /\ Cardinality(Skipped') \in Nat
      /\ Listed' \in SUBSET Rows /\ Cardinality(Listed') \in Nat
      /\ walk'.from \ walk'.seen \in SUBSET Rows /\ Cardinality(walk'.from \ walk'.seen) \in Nat
  <2>1. /\ Skipped' \in SUBSET Rows /\ Listed' \in SUBSET Rows
        /\ walk'.from \ walk'.seen \in SUBSET Rows
    BY <1>1, <1>3 DEF TypeOK, Skipped
  <2> QED
    BY <2>1, RowsFinite
<1>b. \A j \in Rows : Rank(j) \in Nat /\ Rank(j)' \in Nat
  <2>1. \A j \in Rows : {k \in Listed' : k > j} \in SUBSET Rows
    BY <1>a
  <2> QED
    BY <2>1, RankType, RowsFinite DEF Rank
<1>6. WalkInv'
  <2>1. walk'.at = "idle" => walk'.from = {}
    BY <1>4 DEF IInv, WalkInv
  <2>2. walk'.from \subseteq Listed'
    BY <1>2, <1>3, <1>4 DEF IInv, WalkInv, Listed
  <2>3. Cardinality(Skipped') <= walk'.left
    <3>1. \A j \in Skipped' : /\ j \in walk.from \ walk.seen /\ j \in Rows /\ j \in Listed
                             /\ Rank(j)' < Passed /\ walk.at # "idle"
      BY <1>4, <1>5, <1>a DEF Skipped, IInv, WalkInv, TypeOK
    <3>2. CASE ~Departs(i, row)
      <4>1. walk.at # "idle" => Listed \subseteq Listed'
        BY <1>2, <1>3, <3>2 DEF Departs, Listed
      <4>2. Skipped' \subseteq Skipped
        BY <1>b, <3>1, <4>1, RanksGrow, SkippedFinite DEF Skipped
      <4>3. Cardinality(Skipped') <= Cardinality(Skipped)
        BY <4>2, SkippedFinite, CountMonotone
      <4> QED
        BY <1>4, <1>a, <3>2, <4>3, SkippedFinite DEF IInv, WalkInv
    <3>3. CASE Departs(i, row)
      <4> DEFINE Edge == {j \in Listed : Rank(j) = Passed}
      <4>1. Listed \ {i} \subseteq Listed'
        BY <1>2, <1>3 DEF Listed
      <4>2. Skipped' \subseteq Skipped \cup Edge
        BY <1>b, <3>1, <4>1, RanksFallByOne, SkippedFinite DEF Skipped
      <4>3. \A j, k \in Edge : j = k
        BY RanksDiffer
      <4>4. PICK x \in Rows : Edge \subseteq {x}
        BY <4>3, SkippedFinite
      <4>5. Skipped' \subseteq Skipped \cup {x} /\ Skipped \cup {x} \in SUBSET Rows
        BY <4>2, <4>4, SkippedFinite
      <4>6. Cardinality(Skipped') <= Cardinality(Skipped \cup {x})
        BY <4>5, CountMonotone
      <4>7. /\ Cardinality(Skipped \cup {x}) <= Cardinality(Skipped) + 1
            /\ Cardinality(Skipped \cup {x}) \in Nat
        BY <4>5, SkippedFinite, RowsFinite, FS_AddElement
      <4> QED
        BY <1>4, <1>a, <3>3, <4>6, <4>7, SkippedFinite DEF IInv, WalkInv
    <3> QED
      BY <3>2, <3>3
  <2>4. walk'.at = "total" => Cardinality(Listed') <= walk'.total + walk'.late
    <3> SUFFICES ASSUME walk.at = "total"
                 PROVE  Cardinality(Listed') <= walk.total + walk'.late
      BY <1>4
    <3>1. Cardinality(Listed) <= walk.total + walk.late
      BY DEF IInv, WalkInv
    <3>2. CASE Arrives(i, row)
      <4>1. Listed' \subseteq Listed \cup {i} /\ Listed \cup {i} \in SUBSET Rows
        BY <1>2, <1>3, SkippedFinite DEF Listed
      <4>2. Cardinality(Listed') <= Cardinality(Listed \cup {i})
        BY <4>1, CountMonotone
      <4>3. /\ Cardinality(Listed \cup {i}) <= Cardinality(Listed) + 1
            /\ Cardinality(Listed \cup {i}) \in Nat
        BY <4>1, SkippedFinite, RowsFinite, FS_AddElement
      <4> QED
        BY <1>4, <1>a, <3>1, <3>2, <4>2, <4>3, SkippedFinite
    <3>3. CASE ~Arrives(i, row)
      <4>1. Listed' \subseteq Listed
        BY <1>2, <1>3, <3>3 DEF Arrives, Listed
      <4>2. Cardinality(Listed') <= Cardinality(Listed)
        BY <4>1, SkippedFinite, CountMonotone
      <4> QED
        BY <1>4, <1>a, <3>1, <3>3, <4>2, SkippedFinite
    <3> QED
      BY <3>2, <3>3
  <2> QED
    BY <2>1, <2>2, <2>3, <2>4 DEF WalkInv
<1>7. MissesExplained'
  <2>1. walk'.from \ walk'.seen \subseteq walk.from \ walk.seen
    BY <1>4
  <2>2. Cardinality(walk'.from \ walk'.seen) <= Cardinality(walk.from \ walk.seen)
    BY <2>1, SkippedFinite, CountMonotone
  <2>3. walk'.left >= walk.left /\ walk'.late >= walk.late /\ walk'.left \in Nat /\ walk'.late \in Nat
    BY <1>4, SkippedFinite
  <2>4. AtEnd' => AtEnd
    BY <1>4 DEF AtEnd
  <2> QED
    BY <1>a, <2>2, <2>3, <2>4, SkippedFinite DEF IInv, MissesExplained
<1>8. StatsInv'
  <2> SUFFICES ASSUME stats'.at = "created", stats'.late = 0
               PROVE  Cardinality(Created') <= stats'.created
    BY DEF Put, IInv, TypeOK, StatsInv
  <2>1. /\ stats.at = "created" /\ stats.late = 0 /\ stats'.created = stats.created
        /\ rows[i] # NoRow
    BY DEF Put, IInv, TypeOK
  <2>2. Created' \subseteq Created
    BY <1>2, <2>1 DEF Created, Rows
  <2>3. Created \in SUBSET Rows /\ Created' \in SUBSET Rows
    BY DEF Created, Rows
  <2>4. Cardinality(Created') <= Cardinality(Created)
    BY <2>2, <2>3, CountMonotone
  <2>5. Cardinality(Created') \in Nat /\ Cardinality(Created) \in Nat
    BY <2>3, RowsFinite
  <2> QED
    BY <2>1, <2>4, <2>5 DEF IInv, StatsInv, TypeOK
<1>9. RateIsPercentage'
  BY DEF Put, IInv, TypeOK, StatsInv, RateIsPercentage
<1> QED
  BY <1>1, <1>6, <1>7, <1>8, <1>9 DEF IInv

\* Each handler that writes is such a write.
LEMMA WritesKeep ==
  ASSUME IInv, NEW i \in Rows, WriteRow(i)
  PROVE  IInv'
<1>1. /\ rows[i] \in TableRows
      /\ rows[i].kind = "user" => rows[i] \in UserRows
      /\ rows[i].kind = "ride" => rows[i] \in RideRows
      /\ rows[i].kind = "report" => rows[i] \in ReportRows
  BY DEF IInv, TypeOK, TableRows, NoRow, UserRows, RideRows, ReportRows
<1>2. CASE SignUp(i)
  <2> DEFINE row == [kind |-> "user", blocked |-> FALSE]
  <2>1. row \in UserRows
    BY DEF UserRows
  <2>2. row \in TableRows /\ Put(i, row) /\ rows[i] = NoRow
    BY <1>2, <2>1 DEF SignUp, TableRows
  <2> QED
    BY <2>2, PutKeeps
<1>3. ASSUME NEW b \in BOOLEAN, SetBlocked(i, b) PROVE IInv'
  <2> DEFINE row == [rows[i] EXCEPT !.blocked = b]
  <2>1. row \in UserRows
    BY <1>1, <1>3 DEF SetBlocked, UserRows
  <2>2. row \in TableRows /\ row.kind # "ride"
    BY <2>1 DEF TableRows, UserRows
  <2>3. Put(i, row)
    BY <1>3 DEF SetBlocked
  <2> QED
    BY <2>2, <2>3, PutKeeps
<1>4. ASSUME NEW b \in BOOLEAN, CreateReport(i, b) PROVE IInv'
  <2> DEFINE row == [kind |-> "report", meetup |-> b, status |-> "pending"]
  <2>1. row \in ReportRows
    BY DEF ReportRows
  <2>2. row \in TableRows /\ Put(i, row) /\ rows[i] = NoRow
    BY <1>4, <2>1 DEF CreateReport, TableRows
  <2> QED
    BY <2>2, PutKeeps
<1>5. CASE CreateRide(i)
  <2> DEFINE row == [kind |-> "ride", status |-> "open", trip |-> "none"]
  <2>1. row \in RideRows
    BY DEF RideRows, RideStatuses, Trips
  <2>2. row \in TableRows /\ Put(i, row) /\ rows[i] = NoRow
    BY <1>5, <2>1 DEF CreateRide, TableRows
  <2> QED
    BY <2>2, PutKeeps
<1>6. CASE StartTrip(i) \/ CompleteTrip(i)
  <2>1. PICK t \in Trips : Put(i, [rows[i] EXCEPT !.trip = t])
    BY <1>6 DEF StartTrip, CompleteTrip, Trips
  <2> DEFINE row == [rows[i] EXCEPT !.trip = t]
  <2>2. rows[i].kind = "ride" /\ rows[i].status # "deleted"
    BY <1>6 DEF StartTrip, CompleteTrip
  <2>3. row \in RideRows
    BY <1>1, <2>2 DEF RideRows
  <2>4. row \in TableRows
    BY <2>3 DEF TableRows
  <2> QED
    BY <2>1, <2>2, <2>4, PutKeeps
<1>7. ASSUME NEW s \in RideStatuses, MoveRide(i, s) PROVE IInv'
  <2> DEFINE row == [rows[i] EXCEPT !.status = s]
  <2>1. row \in RideRows
    BY <1>1, <1>7 DEF MoveRide, RideRows
  <2>2. /\ row \in TableRows /\ Put(i, row)
        /\ rows[i].kind = "ride" /\ rows[i].status # "deleted"
    BY <1>7, <2>1 DEF MoveRide, TableRows
  <2> QED
    BY <2>2, PutKeeps
<1>8. ASSUME NEW d \in Decisions, DecideReport(i, d) PROVE IInv'
  <2> DEFINE row == [rows[i] EXCEPT !.status = d]
  <2>1. row \in ReportRows
    BY <1>1, <1>8 DEF DecideReport, ReportRows
  <2>2. row \in TableRows /\ row.kind # "ride"
    BY <2>1 DEF TableRows, ReportRows
  <2>3. Put(i, row)
    BY <1>8 DEF DecideReport
  <2> QED
    BY <2>2, <2>3, PutKeeps
<1> QED
  BY <1>2, <1>3, <1>4, <1>5, <1>6, <1>7, <1>8 DEF WriteRow

-----------------------------------------------------------------------------
\* A step that writes no row leaves the lists and the ranks as they are.
LEMMA ListsStay ==
  ASSUME UNCHANGED <<view, rows>>
  PROVE  /\ Listed' = Listed /\ Created' = Created
         /\ \A i \in Rows : Rank(i)' = Rank(i)
BY DEF Listed, Shows, Created, Rank, Rows

\* The first page starts before every row.
LEMMA OpenKeeps ==
  ASSUME IInv, NEW size \in PageSizes, OpenList(size)
  PROVE  IInv'
<1>1. size \in Nat \ {0} /\ Listed \in SUBSET Rows
  BY PagesAssumption DEF Listed
<1>2. walk' = [at |-> "total", page |-> 1, size |-> size, total |-> Cardinality(Listed),
               from |-> Listed, seen |-> {}, left |-> 0, late |-> 0]
  BY DEF OpenList, NoWalk, Total
<1>3. UNCHANGED <<view, rows, stats>>
  BY DEF OpenList
<1>4. TypeOK'
  BY <1>1, <1>2, <1>3, RowsFinite DEF IInv, TypeOK
<1>5. WalkInv'
  <2>1. Cardinality(Listed) \in Nat
    BY <1>1, RowsFinite
  <2>2. Passed' = 0
    BY <1>1, <1>2 DEF Passed
  <2>3. \A i \in Listed : Rank(i)' >= 0
    BY <1>1, <1>3, ListsStay, RankType
  <2>4. Skipped' = {}
    BY <1>1, <1>2, <1>3, <2>2, <2>3, ListsStay, RankType DEF Skipped
  <2> QED
    BY <1>2, <1>3, <2>1, <2>4, ListsStay, FS_EmptySet DEF WalkInv
<1>6. MissesExplained'
  BY <1>2 DEF MissesExplained, AtEnd
<1>7. StatsInv' /\ RateIsPercentage'
  BY <1>3, ListsStay DEF IInv, StatsInv, RateIsPercentage
<1> QED
  BY <1>4, <1>5, <1>6, <1>7 DEF IInv

\* A page shows the rows up to its end: what it leaves comes after it, and after
\* the last page, where the total says the list ends, nothing comes.
LEMMA ReadKeeps ==
  ASSUME IInv, ReadPage
  PROVE  IInv'
<1> DEFINE shown == Page(walk.page, walk.size)
<1>1. /\ walk.at = "total" /\ walk'.at = "page" /\ walk'.seen = walk.seen \cup shown
      /\ walk'.page = walk.page /\ walk'.size = walk.size /\ walk'.total = walk.total
      /\ walk'.from = walk.from /\ walk'.left = walk.left /\ walk'.late = walk.late
      /\ UNCHANGED <<view, rows, stats>>
  BY DEF ReadPage, IInv, TypeOK
<1>2. TypeOK'
  <2>1. shown \in SUBSET Rows
    BY DEF Page, Listed
  <2> QED
    BY <1>1, <2>1 DEF ReadPage, IInv, TypeOK
<1>3. walk.page * walk.size \in Int /\ (walk.page - 1) * walk.size \in Int
  BY DEF IInv, TypeOK
<1>4. ASSUME NEW i \in walk.from \ walk'.seen, i \notin Skipped
      PROVE  i \in Listed /\ Rank(i) >= walk.page * walk.size
  <2>1. i \in Listed /\ i \in walk.from \ walk.seen /\ i \notin shown
    BY <1>1, <1>4 DEF IInv, WalkInv
  <2>2. Rank(i) \in Nat
    BY <2>1, RankType DEF Listed
  <2>3. Rank(i) >= (walk.page - 1) * walk.size
    BY <1>1, <1>3, <1>4, <2>1, <2>2 DEF Skipped, Passed
  <2> QED
    BY <1>3, <2>1, <2>2, <2>3 DEF Page
<1>5. WalkInv'
  <2>1. Passed' = walk.page * walk.size
    BY <1>1 DEF Passed
  <2>2. Skipped' \subseteq Skipped
    <3> SUFFICES ASSUME NEW i \in Skipped', i \notin Skipped PROVE FALSE
      OBVIOUS
    <3>1. i \in walk.from \ walk'.seen /\ i \in Listed /\ Rank(i)' < walk.page * walk.size
      BY <1>1, <2>1 DEF Skipped, IInv, WalkInv
    <3>2. Rank(i)' = Rank(i) /\ Rank(i) \in Nat
      BY <1>1, <3>1, ListsStay, RankType DEF Listed
    <3> QED
      BY <1>3, <1>4, <3>1, <3>2
  <2>3. Cardinality(Skipped') <= Cardinality(Skipped) /\ Cardinality(Skipped') \in Nat
    BY <2>2, SkippedFinite, CountMonotone, RowsFinite
  <2> QED
    BY <1>1, <2>3, ListsStay, SkippedFinite DEF WalkInv, IInv
<1>6. MissesExplained'
  <2> DEFINE missed == walk.from \ walk'.seen
             Tail == {i \in Listed : Rank(i) >= walk.page * walk.size}
  <2> SUFFICES ASSUME walk.page * walk.size >= walk.total
               PROVE  Cardinality(missed) <= walk.left + walk.late
    BY <1>1 DEF MissesExplained, AtEnd
  <2>1. missed \subseteq Skipped \cup Tail
    BY <1>4
  <2>2. missed \in SUBSET Rows /\ Tail \in SUBSET Rows /\ Skipped \cup Tail \in SUBSET Rows
    BY <1>1, SkippedFinite DEF IInv, TypeOK
  <2>3. walk.page * walk.size \in Nat
    BY DEF IInv, TypeOK
  <2>4. Cardinality(Tail) <= walk.late
    <3>1. Cardinality(Listed) <= walk.total + walk.late
      BY <1>1 DEF IInv, WalkInv
    <3>2. Cardinality(Tail) <= IF walk.page * walk.size < Cardinality(Listed)
                               THEN Cardinality(Listed) - walk.page * walk.size ELSE 0
      BY <2>3, TailBounded
    <3>3. Cardinality(Tail) \in Nat
      BY <2>2, RowsFinite
    <3> HIDE DEF Tail
    <3> QED
      BY <2>3, <3>1, <3>2, <3>3, SkippedFinite
  <2>5. Cardinality(missed) <= Cardinality(Skipped) + Cardinality(Tail)
    <3> HIDE DEF missed, Tail
    <3>1. Cardinality(missed) <= Cardinality(Skipped \cup Tail)
      BY <2>1, <2>2, CountMonotone
    <3>2. /\ Cardinality(Skipped \cup Tail) =
                Cardinality(Skipped) + Cardinality(Tail) - Cardinality(Skipped \cap Tail)
          /\ Cardinality(Skipped \cap Tail) \in Nat
      <4>1. IsFiniteSet(Skipped) /\ IsFiniteSet(Tail) /\ Skipped \cap Tail \in SUBSET Rows
        BY <2>2, SkippedFinite, RowsFinite
      <4> QED
        BY <4>1, RowsFinite, FS_Union
    <3>3. Cardinality(missed) \in Nat /\ Cardinality(Tail) \in Nat
      BY <2>2, RowsFinite
    <3> QED
      BY <3>1, <3>2, <3>3, SkippedFinite
  <2>6. Cardinality(missed) \in Nat /\ Cardinality(Tail) \in Nat
    BY <2>2, RowsFinite
  <2>7. Cardinality(Skipped) <= walk.left
    BY DEF IInv, WalkInv
  <2> HIDE DEF missed, Tail
  <2> QED
    BY <2>4, <2>5, <2>6, <2>7, SkippedFinite
<1>7. StatsInv' /\ RateIsPercentage'
  BY <1>1, ListsStay DEF IInv, StatsInv, RateIsPercentage
<1> QED
  BY <1>2, <1>5, <1>6, <1>7 DEF IInv

\* The next page begins where the last one ended.
LEMMA NextKeeps ==
  ASSUME IInv, NextPage
  PROVE  IInv'
<1>1. /\ walk.at = "page" /\ walk'.at = "total" /\ walk'.seen = walk.seen
      /\ walk'.page = walk.page + 1 /\ walk'.size = walk.size
      /\ walk'.total = Cardinality(Listed) /\ walk'.from = walk.from
      /\ walk'.left = walk.left /\ walk'.late = 0
      /\ UNCHANGED <<view, rows, stats>>
  BY DEF NextPage, Total, IInv, TypeOK
<1>2. Cardinality(Listed) \in Nat
  BY RowsFinite DEF Listed
<1>3. TypeOK'
  <2>1. walk' = [at |-> "total", page |-> walk.page + 1, size |-> walk.size,
                 total |-> Cardinality(Listed), from |-> walk.from, seen |-> walk.seen,
                 left |-> walk.left, late |-> 0]
    BY DEF NextPage, Total, IInv, TypeOK
  <2> QED
    BY <1>1, <1>2, <2>1 DEF IInv, TypeOK
<1>4. Passed' = Passed
  <2>1. Passed = walk.page * walk.size
    BY <1>1 DEF Passed
  <2>2. Passed' = (walk'.page - 1) * walk'.size
    BY <1>1 DEF Passed
  <2>3. walk.page \in Nat
    BY DEF IInv, TypeOK
  <2>4. walk'.page - 1 = walk.page /\ walk'.size = walk.size
    BY <1>1, <2>3
  <2>5. (walk'.page - 1) * walk'.size = walk.page * walk.size
    BY <2>4, Zenon
  <2> QED
    BY <2>1, <2>2, <2>5, Zenon
<1>5. WalkInv'
  <2>1. walk.from \subseteq Rows
    BY DEF IInv, TypeOK
  <2>2. Skipped' = Skipped
    BY <1>1, <1>4, <2>1, ListsStay DEF Skipped
  <2> QED
    BY <1>1, <1>2, <2>1, <2>2, ListsStay DEF IInv, WalkInv
<1>6. MissesExplained'
  BY <1>1 DEF MissesExplained, AtEnd
<1>7. StatsInv' /\ RateIsPercentage'
  BY <1>1, ListsStay DEF IInv, StatsInv, RateIsPercentage
<1> QED
  BY <1>3, <1>5, <1>6, <1>7 DEF IInv

\* The two counts of the rate: a cancelled ride is one of those created.
LEMMA CountsKeep ==
  ASSUME IInv, CountCreated \/ CountCancelled
  PROVE  IInv'
<1>1. UNCHANGED <<view, rows, walk>>
  BY DEF CountCreated, CountCancelled
<1>2. Created \in SUBSET Rows /\ Cancelled \subseteq Created
  BY DEF Created, Cancelled
<1>3. Cardinality(Created) \in Nat /\ Cardinality(Cancelled) \in Nat
  BY <1>2, RowsFinite
<1>4. WalkInv' /\ MissesExplained'
  <2>1. walk.from \subseteq Rows
    BY DEF IInv, TypeOK
  <2>2. Skipped' = Skipped
    BY <1>1, <2>1, ListsStay DEF Skipped, Passed
  <2> QED
    BY <1>1, <2>2, ListsStay DEF IInv, WalkInv, MissesExplained, AtEnd
<1>5. CASE CountCreated
  <2> DEFINE counted == OrOne(Cardinality(Created))
  <2>1. counted \in Nat /\ counted # 0 /\ Cardinality(Created) <= counted
    BY <1>3 DEF OrOne
  <2>2. stats' = [at |-> "created", cancelled |-> 0, late |-> 0, created |-> counted]
    BY <1>5 DEF CountCreated
  <2> HIDE DEF counted
  <2>3. TypeOK' /\ RateIsPercentage' /\ StatsInv'
    BY <1>1, <2>1, <2>2, ListsStay, <1>5 DEF CountCreated, IInv, TypeOK, RateIsPercentage, StatsInv
  <2> QED
    BY <1>4, <2>3 DEF IInv
<1>6. CASE CountCancelled
  <2>1. TypeOK' /\ StatsInv'
    BY <1>1, <1>3, <1>6, ListsStay DEF CountCancelled, IInv, TypeOK, StatsInv
  <2>2. Cardinality(Cancelled) <= Cardinality(Created)
    BY <1>2, CountMonotone
  <2>3. RateIsPercentage'
    BY <1>3, <1>6, <2>2 DEF CountCancelled, IInv, TypeOK, StatsInv, RateIsPercentage
  <2> QED
    BY <1>4, <2>1, <2>3 DEF IInv
<1> QED
  BY <1>5, <1>6

LEMMA InitKeeps == Init => IInv
<1> SUFFICES ASSUME Init PROVE IInv
  OBVIOUS
<1>1. TypeOK
  BY DEF Init, TypeOK, NoWalk, NoStats
<1>2. WalkInv /\ MissesExplained
  BY FS_EmptySet DEF Init, NoWalk, WalkInv, Skipped, MissesExplained, AtEnd
<1>3. StatsInv /\ RateIsPercentage
  BY DEF Init, NoStats, StatsInv, RateIsPercentage
<1> QED
  BY <1>1, <1>2, <1>3 DEF IInv

LEMMA StepKeeps == IInv /\ [Next]_vars => IInv'
<1> SUFFICES ASSUME IInv, [Next]_vars PROVE IInv'
  OBVIOUS
<1>1. CASE UNCHANGED vars
  <2>1. walk.from \subseteq Rows
    BY DEF IInv, TypeOK
  <2>2. Skipped' = Skipped
    BY <1>1, <2>1, ListsStay DEF vars, Skipped, Passed
  <2> QED
    BY <1>1, <2>2, ListsStay DEF vars, IInv, TypeOK, WalkInv, MissesExplained, AtEnd,
       StatsInv, RateIsPercentage
<1> QED
  BY <1>1, WritesKeep, OpenKeeps, ReadKeeps, NextKeeps, CountsKeep DEF Next, ReadList

LEMMA Invariance == Spec => []IInv
  BY InitKeeps, StepKeeps, PTL DEF Spec

-----------------------------------------------------------------------------
\* The tables and the readings keep their types.
THEOREM DashboardTyped == Spec => []TypeOK
<1>1. IInv => TypeOK
  BY DEF IInv
<1> QED
  BY <1>1, Invariance, PTL

\* However the list changes under a reading of any length, it misses no more rows
\* than left the list or came just before its last page.
THEOREM MissesBounded == Spec => []MissesExplained
<1>1. IInv => MissesExplained
  BY DEF IInv
<1> QED
  BY <1>1, Invariance, PTL

\* So a list that only grows is read to its end without a miss, whatever the page
\* size and however many rows are added in front of those still to come.
THEOREM NothingMissed == Spec => []WalkComplete
<1>1. IInv => WalkComplete
  <2> SUFFICES ASSUME IInv, AtEnd, walk.left = 0, walk.late = 0
               PROVE  walk.from \ walk.seen = {}
    BY DEF WalkComplete
  <2>1. Cardinality(walk.from \ walk.seen) = 0
    BY SkippedFinite DEF IInv, MissesExplained
  <2> QED
    BY <2>1, SkippedFinite, RowsFinite, FS_EmptySet
<1> QED
  BY <1>1, Invariance, PTL

\* The cancellation rate never divides by zero, and lies between nought and one
\* hundred percent when both counts see the same rides.
THEOREM RateBounded == Spec => []RateIsPercentage
<1>1. IInv => RateIsPercentage
  BY DEF IInv
<1> QED
  BY <1>1, Invariance, PTL
=============================================================================
