------------------------------ MODULE Dashboard ------------------------------
(***************************************************************************)
(* The administrators' dashboard (app/api/v1/admin.py): lists of users,    *)
(* rides and reports, read page by page while the application goes on      *)
(* writing the tables, and the cancellation rate.  A page is two SELECTs,  *)
(* one for the total and one for the rows; each sees what is committed     *)
(* when it runs, and other processes and the expiry job write in between.  *)
(*                                                                         *)
(* Rows are numbered in the order of created_at, the time their            *)
(* transaction began: they may be committed in another order.  One view is *)
(* read in a behavior, and only the table it shows is written: the others  *)
(* cannot change it.                                                       *)
(***************************************************************************)
EXTENDS Integers, FiniteSets

CONSTANTS
  MaxRows,       \* bound: rows of the table that is shown
  PageSizes,     \* values of per_page
  Views,         \* [list, filter]: the endpoint and its query parameter
  Decisions,     \* what an administrator may write into a report's status
  MaxDepartures  \* bound: rows that leave the list while it is read

ASSUME PagesAssumption ==
  /\ MaxRows \in Nat /\ MaxDepartures \in Nat
  /\ PageSizes \subseteq Nat \ {0}

VARIABLES
  view,   \* what the administrator looks at
  rows,   \* number -> row
  walk,   \* the reading of the list, page after page
  stats   \* the reading of the cancellation rate

vars == <<view, rows, walk, stats>>

-----------------------------------------------------------------------------
Rows == 1..MaxRows

RideStatuses == {"open", "matched", "cancelled", "expired", "deleted"}
Trips        == {"none", "begun", "completed"}

\* The columns the lists filter by; trip: how far a match of the ride has come.
NoRow       == [kind |-> "none"]
UserRows    == [kind : {"user"}, blocked : BOOLEAN]
RideRows    == [kind : {"ride"}, status : RideStatuses, trip : Trips]
ReportRows  == [kind : {"report"}, meetup : BOOLEAN, status : Decisions \cup {"pending"}]

\* What a list holds: the WHERE of each endpoint.
OfUsers(filter, row) ==
  /\ row.kind = "user"
  /\ filter = "blocked" => row.blocked
  /\ filter = "unblocked" => ~row.blocked
ActiveRide(row) == row.kind = "ride" /\ row.status \in {"open", "matched"}
CompletedRide(row) == row.kind = "ride" /\ row.status # "deleted" /\ row.trip = "completed"
OfReports(filter, row) ==
  row.kind = "report" /\ ~row.meetup /\ filter \in {"all", row.status}
OfMeetupReports(filter, row) ==
  row.kind = "report" /\ row.meetup /\ filter \in {"all", row.status}

Shows(row) ==
  CASE view.list = "users"     -> OfUsers(view.filter, row)
    [] view.list = "active"    -> ActiveRide(row)
    [] view.list = "completed" -> CompletedRide(row)
    [] view.list = "reports"   -> OfReports(view.filter, row)
    [] view.list = "meetup_reports" -> OfMeetupReports(view.filter, row)
    [] OTHER -> FALSE

Listed == {i \in Rows : Shows(rows[i])}

\* ORDER BY created_at DESC: how many rows come before this one.
Rank(i) == Cardinality({j \in Listed : j > i})

\* OFFSET (page - 1) * per_page LIMIT per_page.
PageFromOne(page, size) ==
  {i \in Listed : page * size <= Rank(i) /\ Rank(i) < (page + 1) * size}
Page(page, size) ==
  {i \in Listed : (page - 1) * size <= Rank(i) /\ Rank(i) < page * size}

\* query.count() before OFFSET and LIMIT are added.
TotalOfPage(page, size) == Cardinality(Page(page, size))
Total(page, size) == Cardinality(Listed)

-----------------------------------------------------------------------------
\* The reading: where it is; the rows listed when it began
\* and ever since, those shown, the rows that left the list meanwhile, and
\* those that came between the last total and its page.
NoWalk == [at |-> "idle", page |-> 0, size |-> 1, total |-> 0,
           from |-> {}, seen |-> {}, left |-> 0, late |-> 0]
NoStats == [at |-> "idle", created |-> 1, cancelled |-> 0, late |-> 0]

Init ==
  /\ view \in Views
  /\ rows = [i \in Rows |-> NoRow]
  /\ walk = NoWalk /\ stats = NoStats

\* A committed write of one row, as it shows in the list being read.
Departs(i, row)  == walk.at # "idle" /\ Shows(rows[i]) /\ ~Shows(row)
Arrives(i, row)  == walk.at = "total" /\ ~Shows(rows[i]) /\ Shows(row)
Put(i, row) ==
  /\ Departs(i, row) => walk.left < MaxDepartures
  /\ rows' = [rows EXCEPT ![i] = row]
  /\ walk' = [walk EXCEPT !.from = IF Shows(row) THEN @ ELSE @ \ {i},
                          !.left = IF Departs(i, row) THEN @ + 1 ELSE @,
                          !.late = IF Arrives(i, row) THEN @ + 1 ELSE @]
  /\ stats' = [stats EXCEPT !.late =
                 IF stats.at = "created" /\ rows[i] = NoRow THEN @ + 1 ELSE @]
  /\ UNCHANGED view

\* verify_otp: create_user of a number nobody has.
SignUp(i) ==
  /\ view.list = "users" /\ rows[i] = NoRow
  /\ Put(i, [kind |-> "user", blocked |-> FALSE])

\* block_user and unblock_user, of a user who is no administrator.
SetBlocked(i, blocked) ==
  /\ rows[i].kind = "user"
  /\ Put(i, [rows[i] EXCEPT !.blocked = blocked])

CreateRide(i) ==
  /\ view.list \in {"active", "completed", "rate"} /\ rows[i] = NoRow
  /\ Put(i, [kind |-> "ride", status |-> "open", trip |-> "none"])

\* A ride is matched, cancelled or expired, by a handler or the job that may
\* have read it earlier; it is open again only after it was matched, and
\* deleted only once expired and never asked for.
MoveRide(i, status) ==
  /\ rows[i].kind = "ride" /\ rows[i].status \notin {status, "deleted"}
  /\ status = "open" => rows[i].status = "matched"
  /\ status = "deleted" => rows[i].status = "expired" /\ rows[i].trip = "none"
  /\ Put(i, [rows[i] EXCEPT !.status = status])

\* start_ride and complete_ride of one of the ride's matches, which they read
\* without a lock: a start may be written over the completion of another process.
\* Only the list of completed rides shows matches.
StartTrip(i) ==
  /\ view.list = "completed" /\ rows[i].kind = "ride" /\ rows[i].status # "deleted"
  /\ Put(i, [rows[i] EXCEPT !.trip = "begun"])
CompleteTrip(i) ==
  /\ rows[i].kind = "ride" /\ rows[i].status # "deleted" /\ rows[i].trip # "none"
  /\ Put(i, [rows[i] EXCEPT !.trip = "completed"])

\* create_report, of another user who exists.
CreateReport(i, meetup) ==
  /\ view.list \in {"reports", "meetup_reports"} /\ rows[i] = NoRow
  /\ Put(i, [kind |-> "report", meetup |-> meetup, status |-> "pending"])

\* update_report_status writes the string it is sent, from any status.
DecideReportUnset(i, decision) ==
  /\ rows[i].kind = "report"
  /\ Put(i, [rows[i] EXCEPT !.status = "null"])
DecideReport(i, decision) ==
  /\ rows[i].kind = "report"
  /\ Put(i, [rows[i] EXCEPT !.status = decision])

-----------------------------------------------------------------------------
\* The first page: its total.
OpenList(size) ==
  /\ walk.at \in {"idle", "page"} /\ view.list # "rate"
  /\ walk' = [NoWalk EXCEPT !.at = "total", !.page = 1, !.size = size,
                            !.total = Total(1, size), !.from = Listed]
  /\ UNCHANGED <<view, rows, stats>>

\* The rows of the page whose total was read.
ReadPage ==
  /\ walk.at = "total"
  /\ walk' = [walk EXCEPT !.at = "page", !.seen = @ \cup Page(walk.page, walk.size)]
  /\ UNCHANGED <<view, rows, stats>>

\* The administrator asks for the next page while the total promises one.
AtEnd == walk.at = "page" /\ walk.page * walk.size >= walk.total
NextPage ==
  /\ walk.at = "page" /\ ~AtEnd
  /\ walk' = [walk EXCEPT !.at = "total", !.page = @ + 1, !.late = 0,
                          !.total = Total(walk.page + 1, walk.size)]
  /\ UNCHANGED <<view, rows, stats>>

\* get_cancellation_stats, and the same two counts in get_dashboard_stats: the
\* rides created, or one if there are none, then the cancelled.
Created == {i \in Rows : rows[i].kind = "ride" /\ rows[i].status # "deleted"}
OrNone(n) == n
OrOne(n) == IF n = 0 THEN 1 ELSE n
CountCreated ==
  /\ view.list = "rate" /\ stats.at # "created"
  /\ stats' = [at |-> "created", cancelled |-> 0, late |-> 0,
               created |-> OrOne(Cardinality(Created))]
  /\ UNCHANGED <<view, rows, walk>>

Cancelled == {i \in Rows : rows[i].kind = "ride" /\ rows[i].status = "cancelled"}
CountCancelled ==
  /\ stats.at = "created"
  /\ stats' = [stats EXCEPT !.at = "shown", !.cancelled = Cardinality(Cancelled)]
  /\ UNCHANGED <<view, rows, walk>>

-----------------------------------------------------------------------------
WriteRow(i) ==
  \/ SignUp(i)
  \/ \E b \in BOOLEAN : SetBlocked(i, b) \/ CreateReport(i, b)
  \/ CreateRide(i) \/ StartTrip(i) \/ CompleteTrip(i)
  \/ \E s \in RideStatuses : MoveRide(i, s)
  \/ \E d \in Decisions : DecideReport(i, d)

ReadList ==
  \/ \E size \in PageSizes : OpenList(size)
  \/ ReadPage \/ NextPage

Next ==
  \/ \E i \in Rows : WriteRow(i)
  \/ ReadList
  \/ CountCreated \/ CountCancelled

Spec == Init /\ [][Next]_vars

-----------------------------------------------------------------------------
\* Properties

\* The tables and the two readings have their types.
TypeOK ==
  /\ view \in Views
  /\ rows \in [Rows -> {NoRow} \cup UserRows \cup RideRows \cup ReportRows]
  /\ walk \in [at : {"idle", "total", "page"}, page : Nat, size : Nat \ {0}, total : Nat,
               from : SUBSET Rows, seen : SUBSET Rows, left : Nat, late : Nat]
  /\ stats \in [at : {"idle", "created", "shown"}, created : Nat, cancelled : Nat,
                late : Nat]

\* An administrator who reads a list to its end, while rows are added to it but
\* none leaves it, has seen every row that was there when they began, unless
\* rows came between the last page and the total that made it the last.
WalkComplete ==
  AtEnd /\ walk.left = 0 /\ walk.late = 0 => walk.from \subseteq walk.seen

\* Otherwise a reading misses no more of the rows that stayed than rows left
\* the list under it, or came just before its last page: deciding the reports
\* of a page shifts as many others past the next one.
MissesExplained ==
  AtEnd => Cardinality(walk.from \ walk.seen) <= walk.left + walk.late

\* The cancellation rate that is shown divides by a number that is not zero, even
\* before the first ride or after the last one was deleted, and is at most one
\* hundred percent unless rides were created between its two counts.
RateIsPercentage ==
  stats.at = "shown" =>
    /\ stats.created # 0
    /\ stats.late = 0 => stats.cancelled <= stats.created
=============================================================================
