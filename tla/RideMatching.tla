---------------------------- MODULE RideMatching ----------------------------
(***************************************************************************)
(* The matching core of the backend: hosts publish ride pings, guests ask  *)
(* to join, hosts accept or decline, matches are started and completed,    *)
(* and the scheduler expires stale pings                                   *)
(* (app/services/match_service.py, app/services/ping_service.py,           *)
(* app/services/ride_state_service.py, app/tasks/expire_pings.py).         *)
(*                                                                         *)
(* A worker is one server process.  Route handlers are coroutines without  *)
(* an await, so a worker runs one handler at a time: one worker is the     *)
(* deployment of scripts/run.py, several are what the row locks of         *)
(* accept_request are written for.  Every process starts a scheduler       *)
(* (app/main.py), whose expiry job runs in a thread of its own and         *)
(* interleaves with the handlers even in one process.                      *)
(*                                                                         *)
(* A handler is a database transaction: it reads rows into its session     *)
(* (action ...Read), and later writes from what it read (action ...Write), *)
(* with the steps of the others in between (PostgreSQL READ COMMITTED).    *)
(* A rejected call changes nothing, so a guard that fails before the       *)
(* first read is kept shows as a disabled action.                          *)
(***************************************************************************)
EXTENDS Integers, FiniteSets

CONSTANTS
  Users,          \* profiles
  Onboarded,      \* the users whose profile is complete
  Gender,         \* user -> profile gender
  Hosts,          \* the users who publish rides
  Rides,          \* identifiers of ride_pings rows
  Key,            \* ride -> its place in the order of primary keys
  Requests,       \* identifiers of match_requests rows
  Workers,        \* server processes
  NoUser, NoRide, NoRequest,  \* a column that refers to no row
  Capacities,     \* the max_passengers a host may send
  Preferences,    \* the gender_preference a host may send
  PatchStatuses,  \* the status values a PATCH of a ride may carry
  CancelRouted,   \* FALSE: no route reaches cancel_match, as in the code
  MaxBlocks,      \* bound: rows of blocked_users
  MaxFailures     \* bound: handlers or jobs that die half way

Genders       == {"male", "female", "other"}
PingStatuses  == {"open", "matched", "cancelled", "expired", "in_progress", "completed"}
MatchStatuses == {"matched", "in_progress", "completed", "cancelled", "disputed"}
Phases        == {"before", "at", "after"}  \* now compared with expires_at
Kinds         == {"match_request", "match_accepted", "match_declined"}

ASSUME UsersAssumption ==
  /\ Onboarded \subseteq Users /\ Hosts \subseteq Users
  /\ Gender \in [Users -> Genders]
  /\ NoUser \notin Users /\ NoRide \notin Rides /\ NoRequest \notin Requests
ASSUME KeysAssumption ==
  /\ Key \in [Rides -> Int]
  /\ \A r, x \in Rides : Key[r] = Key[x] => r = x
ASSUME InputsAssumption ==
  /\ Capacities \subseteq Int
  /\ PatchStatuses \subseteq PingStatuses
  /\ CancelRouted \in BOOLEAN
ASSUME BoundsAssumption ==
  /\ IsFiniteSet(Rides) /\ IsFiniteSet(Requests)
  /\ MaxBlocks \in Nat /\ MaxFailures \in Nat

VARIABLES
  rides,     \* ride -> its ride_pings row
  requests,  \* request -> its match_requests row
  matches,   \* request -> status of the match made from it, or "none"
  notices,   \* <<type, request>>: the rows of notifications
  blocked,   \* <<blocker, blocked>>: the rows of blocked_users
  session,   \* worker -> the transaction its handler is in
  job,       \* worker -> the transaction its scheduler's expiry job is in
  failures   \* handlers and jobs that died so far

vars == <<rides, requests, matches, notices, blocked, session, job, failures>>

-----------------------------------------------------------------------------
\* Rows

RideRows ==
  [status : PingStatuses \cup {"none", "deleted"}, host : Users \cup {NoUser},
   max : Int, cur : Nat, pref : Preferences \cup {"any"}, due : Phases]

NoRow == [status |-> "none", host |-> NoUser, max |-> 0, cur |-> 0,
          pref |-> "any", due |-> "before"]

RequestRows ==
  [status : {"none", "pending", "accepted", "declined", "cancelled"},
   ride : Rides \cup {NoRide}, guest : Users \cup {NoUser}]

NoRequestRow == [status |-> "none", ride |-> NoRide, guest |-> NoUser]

RideExists(r) == rides[r].status \notin {"none", "deleted"}

\* No seat is left, as request_join and accept_request test it.
FullOffByOne(row) == row.cur > row.max
Full(row) == row.cur >= row.max

\* The row create_ping inserts.
NewPingUncounted(u, max, pref, due) ==
  [status |-> "open", host |-> u, max |-> max, cur |-> -1, pref |-> pref, due |-> due]
NewPing(u, max, pref, due) ==
  [status |-> "open", host |-> u, max |-> max, cur |-> 0, pref |-> pref, due |-> due]

\* gender_preference is a column of ten characters: PostgreSQL refuses more.
Fits(pref) == pref # "female_only"

\* The gender join rule of request_join.
AdmitsLegacy(pref, gender) ==
  /\ pref = "male" => gender = "male"
  /\ pref = "female" => gender = "female"
Admits(pref, gender) ==
  /\ pref \in {"male", "male_only"} => gender = "male"
  /\ pref \in {"female", "female_only"} => gender = "female"

AnsweredOn(r) == {q \in Requests : requests[q].ride = r}
PendingOn(r) == {q \in Requests : requests[q].ride = r /\ requests[q].status = "pending"}

SameSeat(p, q) ==
  requests[p].ride = requests[q].ride /\ requests[p].guest = requests[q].guest

\* RideStateMachine.MATCH_TRANSITIONS, the only table the services consult.
MatchTransitionsRepeated(from) ==
  CASE from = "matched"     -> {"in_progress", "cancelled"}
    [] from = "in_progress" -> {"completed", "disputed"}
    [] from = "disputed"    -> {"completed"}
    [] from = "cancelled"   -> {"cancelled"}
    [] OTHER                -> {}
MatchTransitions(from) ==
  CASE from = "matched"     -> {"in_progress", "cancelled"}
    [] from = "in_progress" -> {"completed", "disputed"}
    [] from = "disputed"    -> {"completed"}
    [] OTHER                -> {}
MayMove(q, to) == to \in MatchTransitions(matches[q])

-----------------------------------------------------------------------------
\* Sessions and row locks

Idle == [pc |-> "idle", ride |-> NoRide, request |-> NoRequest, user |-> NoUser,
         row |-> NoRow, others |-> {}, note |-> "match_request", todo |-> {}, held |-> {}]

Steps == {"idle", "join_check", "join_insert", "accept_ride", "accept_commit",
          "update_write", "ping_cancel_write", "match_cancel_write",
          "delete_rows", "delete_commit", "start_write", "complete_write", "notify"}

Sessions ==
  [pc : Steps, ride : Rides \cup {NoRide}, request : Requests \cup {NoRequest},
   user : Users \cup {NoUser}, row : RideRows, others : SUBSET Requests, note : Kinds,
   todo : SUBSET Rides, held : SUBSET Rides]

\* A row as a session keeps it: no handler looks at expires_at a second time.
Loaded(r) == [rides[r] EXCEPT !.due = "before"]

At(w, step)      == session[w].pc = step
Continue(w, rec) == session' = [session EXCEPT ![w] = rec]
Finish(w)        == session' = [session EXCEPT ![w] = Idle]

\* The handler has committed and goes on to create_notification.
Announce(w, kind, q) ==
  Continue(w, [Idle EXCEPT !.pc = "notify", !.note = kind, !.request = q])

\* SELECT ... FOR UPDATE and DELETE hold a row until the session commits or
\* rolls back, an UPDATE holds it for the job until the job does.
HoldsRequest(w, q) == session[w].pc \in {"accept_ride", "accept_commit"} /\ session[w].request = q
HoldsRide(w, r) ==
  \/ session[w].pc = "accept_commit" /\ session[w].ride = r
  \/ r \in session[w].held

RequestUnlocked(q) == TRUE
RequestFree(q)    == \A w \in Workers : ~HoldsRequest(w, q)
WorkersHoldNothing(r) == TRUE
NoWorkerHolds(r)  == \A w \in Workers : ~HoldsRide(w, r)
NoJobHolds(r)     == \A w \in Workers : r \notin job[w].held
RideFree(r)       == NoJobHolds(r) /\ NoWorkerHolds(r)

\* What expire_stale_pings selects: open and expires_at <= now.
StaleReversed(r) == rides[r].status = "open" /\ rides[r].due # "after"
Stale(r) == rides[r].status = "open" /\ rides[r].due # "before"

\* The job between two runs.
NoJob == [busy |-> FALSE, stale |-> {}, held |-> {}]

\* The rows that a flush has still to UPDATE, and the one it comes to next:
\* SQLAlchemy orders the UPDATEs of a mapper by primary key.
Left(w) == job[w].stale \ job[w].held
TurnOfAny(w, r) == r \in Left(w)
Turn(w, r) == r \in Left(w) /\ \A x \in Left(w) : Key[r] <= Key[x]

-----------------------------------------------------------------------------
\* Waits for row locks

\* A transaction is the handler or the job of a worker.
Txns == Workers \X {"handler", "job"}

HasRide(t, r) == IF t[2] = "job" THEN r \in job[t[1]].held ELSE HoldsRide(t[1], r)

\* Handlers that write a ride, lock it or delete it.
NeedsRide(w) ==
  session[w].pc \in {"update_write", "ping_cancel_write", "accept_ride",
                      "match_cancel_write", "delete_rows"}

\* The requests a handler must lock: the accept of a last seat those it
\* declines, a DELETE those its foreign key check finds.
NeedsRequest(w, q) ==
  \/ At(w, "accept_commit") /\ q \in session[w].others
  \/ At(w, "delete_commit") /\ requests[q].ride \in session[w].held

\* A join's foreign key check waits for FOR UPDATE and DELETE, but not for the
\* job's UPDATE.
WaitsFor(t, u) ==
  \/ t[2] = "job" /\ \E r \in Rides : Turn(t[1], r) /\ HasRide(u, r)
  \/ t[2] = "handler" /\ NeedsRide(t[1]) /\ HasRide(u, session[t[1]].ride)
  \/ t[2] = "handler" /\ At(t[1], "join_insert")
       /\ u[2] = "handler" /\ HoldsRide(u[1], session[t[1]].ride)
  \/ t[2] = "handler" /\ u[2] = "handler"
       /\ \E q \in Requests : NeedsRequest(t[1], q) /\ HoldsRequest(u[1], q)

\* A circle of waits leads from t back to t: what PostgreSQL looks for.
OnCircle(t) ==
  \E u \in Txns :
    /\ WaitsFor(t, u)
    /\ \A reached \in SUBSET Txns :
         u \in reached /\ (\A x \in reached, y \in Txns : WaitsFor(x, y) => y \in reached)
           => t \in reached

\* Two accepts of one ride: the first holds the ride and must decline a
\* request that the second has locked while it waits for the ride.
Deadlock(v, w) ==
  /\ At(v, "accept_commit") /\ At(w, "accept_ride")
  /\ session[v].ride = session[w].ride
  /\ session[w].request \in session[v].others

-----------------------------------------------------------------------------
Init ==
  /\ rides    = [r \in Rides |-> NoRow]
  /\ requests = [q \in Requests |-> NoRequestRow]
  /\ matches  = [q \in Requests |-> "none"]
  /\ notices  = {}
  /\ blocked  = {}
  /\ session  = [w \in Workers |-> Idle]
  /\ job      = [w \in Workers |-> NoJob]
  /\ failures = 0

\* create_ping: one INSERT.  expires_in_minutes is any integer, so the new
\* ride may already be past its expiry.
CreatePing(w, u, r, max, pref, due) ==
  /\ At(w, "idle") /\ u \in Onboarded
  /\ rides[r].status = "none" /\ Fits(pref)
  /\ rides' = [rides EXCEPT ![r] = NewPing(u, max, pref, due)]
  /\ UNCHANGED <<requests, matches, notices, blocked, session, job, failures>>

\* update_ping: get_ping and its checks, then the UPDATE of the fields sent.
UpdateRead(w, r) ==
  /\ At(w, "idle") /\ rides[r].status = "open"
  /\ Continue(w, [Idle EXCEPT !.pc = "update_write", !.ride = r, !.row = Loaded(r)])
  /\ UNCHANGED <<rides, requests, matches, notices, blocked, job, failures>>

\* Only columns that differ from the row as read are written; a field that
\* is not sent counts as sent with the value read.  A value the column does not
\* hold fails the UPDATE, and the handler rolls back.
UpdateWrite(w) ==
  LET r == session[w].ride  row == session[w].row IN
  /\ At(w, "update_write") /\ RideFree(r) /\ RideExists(r)
  /\ \E s \in PatchStatuses \cup {row.status}, p \in Preferences \cup {row.pref} :
       rides' = IF ~Fits(p) THEN rides
                ELSE [rides EXCEPT ![r].status = IF s = row.status THEN @ ELSE s,
                                   ![r].pref   = IF p = row.pref THEN @ ELSE p]
  /\ Finish(w)
  /\ UNCHANGED <<requests, matches, notices, blocked, job, failures>>

\* cancel_ping: get_ping and its checks, then the UPDATE.
PingCancelRead(w, r) ==
  /\ At(w, "idle") /\ rides[r].status = "open"
  /\ Continue(w, [Idle EXCEPT !.pc = "ping_cancel_write", !.ride = r])
  /\ UNCHANGED <<rides, requests, matches, notices, blocked, job, failures>>

PingCancelWrite(w) ==
  LET r == session[w].ride IN
  /\ At(w, "ping_cancel_write") /\ RideFree(r) /\ RideExists(r)
  /\ rides' = [rides EXCEPT ![r].status = "cancelled"]
  /\ Finish(w)
  /\ UNCHANGED <<requests, matches, notices, blocked, job, failures>>

\* delete_expired_pings_for_host: a bulk DELETE, which takes the rows that its
\* snapshot matches one by one, in the order of the scan.
Deletable(h, r) ==
  rides[r].host = h /\ rides[r].status = "expired" /\ rides[r].due # "before"

DeleteBegin(w, h) ==
  /\ At(w, "idle")
  /\ \E r \in Rides :
       /\ Deletable(h, r)
       /\ Continue(w, [Idle EXCEPT !.pc = "delete_rows", !.user = h, !.ride = r,
                                   !.todo = {x \in Rides : Deletable(h, x)} \ {r}])
  /\ UNCHANGED <<rides, requests, matches, notices, blocked, job, failures>>

\* READ COMMITTED: a row that changed since the snapshot is tested again once it
\* is locked, and passed over when it matches no more.
DeleteLock(w) ==
  LET s == session[w]
      held == IF Deletable(s.user, s.ride) THEN s.held \cup {s.ride} ELSE s.held IN
  /\ At(w, "delete_rows") /\ RideFree(s.ride)
  /\ \/ /\ s.todo = {}
        /\ Continue(w, [Idle EXCEPT !.pc = "delete_commit", !.held = held])
     \/ \E r \in s.todo :
          Continue(w, [s EXCEPT !.ride = r, !.todo = @ \ {r}, !.held = held])
  /\ UNCHANGED <<rides, requests, matches, notices, blocked, job, failures>>

\* The foreign keys are checked at the end of the statement: one request for one
\* of the rides, once its row can be locked, fails all of the DELETE.
DeleteCommit(w) ==
  /\ At(w, "delete_commit") /\ \A q \in Requests : requests[q].ride \notin session[w].held
  /\ rides' = [r \in Rides |-> IF r \in session[w].held THEN [NoRow EXCEPT !.status = "deleted"]
                                                         ELSE rides[r]]
  /\ Finish(w)
  /\ UNCHANGED <<requests, matches, notices, blocked, job, failures>>

DeleteRefused(w) ==
  /\ At(w, "delete_commit")
  /\ \E q \in Requests : requests[q].ride \in session[w].held /\ RequestFree(q)
  /\ Finish(w)
  /\ UNCHANGED <<rides, requests, matches, notices, blocked, job, failures>>

\* A row the session is about to write was deleted: the UPDATE matches no
\* row, the INSERT breaks its foreign key, and the handler rolls back.
RideVanished(w) ==
  /\ session[w].pc \in {"update_write", "ping_cancel_write", "join_insert"}
  /\ ~RideExists(session[w].ride)
  /\ Finish(w)
  /\ UNCHANGED <<rides, requests, matches, notices, blocked, job, failures>>

-----------------------------------------------------------------------------
\* request_join: the ride and its checks, then the guest's own rows, then
\* the INSERT.

\* Bound: a join starts only while identifiers are left for every join under way.
RequestsLeft ==
  Cardinality({q \in Requests : requests[q].status = "none"})
    > Cardinality({w \in Workers : session[w].pc \in {"join_check", "join_insert"}})

\* What request_join checks on the ride's row.
MayAsk(u, r) ==
  LET row == rides[r] IN
  /\ RideExists(r) /\ row.host \in Onboarded /\ row.host # u
  /\ row.status = "open" /\ row.due # "after"
  /\ u \in Onboarded /\ Admits(row.pref, Gender[u])
  /\ ~Full(row)

JoinRead(w, u, r) ==
  /\ At(w, "idle") /\ RequestsLeft /\ MayAsk(u, r)
  /\ Continue(w, [Idle EXCEPT !.pc = "join_check", !.ride = r, !.user = u, !.row = Loaded(r)])
  /\ UNCHANGED <<rides, requests, matches, notices, blocked, job, failures>>

Blocked(u, v) == <<u, v>> \in blocked \/ <<v, u>> \in blocked

\* The guest has a pending request or an active match on the ride.
Waiting(u, r) ==
  \E q \in Requests :
    requests[q].ride = r /\ requests[q].guest = u /\ requests[q].status = "pending"
Involved(u, r) ==
  \E q \in Requests :
    /\ requests[q].ride = r /\ requests[q].guest = u
    /\ requests[q].status = "pending" \/ matches[q] \in {"matched", "in_progress"}

JoinCheck(w) ==
  LET s == session[w] IN
  /\ At(w, "join_check")
  /\ IF Blocked(s.user, s.row.host) \/ Involved(s.user, s.ride)
     THEN Finish(w)
     ELSE Continue(w, [s EXCEPT !.pc = "join_insert", !.row = NoRow])
  /\ UNCHANGED <<rides, requests, matches, notices, blocked, job, failures>>

\* The foreign key check takes FOR KEY SHARE on the ride, which waits for an
\* accept's FOR UPDATE but not for the job's UPDATE.
JoinInsert(w, q) ==
  LET s == session[w] IN
  /\ At(w, "join_insert") /\ requests[q].status = "none"
  /\ RideExists(s.ride) /\ NoWorkerHolds(s.ride)
  /\ requests' = [requests EXCEPT ![q] = [status |-> "pending", ride |-> s.ride,
                                          guest |-> s.user]]
  /\ Announce(w, "match_request", q)
  /\ UNCHANGED <<rides, matches, notices, blocked, job, failures>>

-----------------------------------------------------------------------------
\* accept_request: lock the request, lock the ride, write and commit.

\* The first SELECT locks the request only, but its joined eager load brings
\* the ride into the session: that row is what every later check sees, since
\* the second SELECT does not refresh a loaded object.
AcceptLockRequest(w, q) ==
  LET r == requests[q].ride IN
  /\ At(w, "idle") /\ requests[q].status = "pending" /\ RequestFree(q)
  /\ Continue(w, [Idle EXCEPT !.pc = "accept_ride", !.request = q, !.ride = r,
                              !.row = Loaded(r)])
  /\ UNCHANGED <<rides, requests, matches, notices, blocked, job, failures>>

\* The last seat goes with this request: everyone else who waits is declined.
LastSeatOffByOne(row) == row.cur + 1 > row.max
LastSeat(row) == row.cur + 1 >= row.max

AcceptLockRide(w) ==
  LET s == session[w] IN
  /\ At(w, "accept_ride") /\ RideFree(s.ride)
  /\ IF s.row.status # "open" \/ Full(s.row)
     THEN Finish(w)
     ELSE Continue(w, [s EXCEPT !.pc = "accept_commit",
            !.others = IF LastSeat(s.row) THEN PendingOn(s.ride) \ {s.request} ELSE {}])
  /\ UNCHANGED <<rides, requests, matches, notices, blocked, job, failures>>

\* uq_matches_ride_guest: a guest has one match on a ride, whatever its status.
SeatTaken(q) == \E p \in Requests : matches[p] # "none" /\ SameSeat(p, q)

AcceptCommit(w) ==
  LET s == session[w] IN
  /\ At(w, "accept_commit") /\ \A q \in s.others : RequestFree(q)
  /\ ~SeatTaken(s.request)
  /\ rides' = [rides EXCEPT ![s.ride].cur = s.row.cur + 1,
                            ![s.ride].status = IF LastSeat(s.row) THEN "matched" ELSE @]
  /\ requests' = [q \in Requests |->
        IF q = s.request THEN [requests[q] EXCEPT !.status = "accepted"]
        ELSE IF q \in s.others THEN [requests[q] EXCEPT !.status = "declined"]
        ELSE requests[q]]
  /\ matches' = [matches EXCEPT ![s.request] = "matched"]
  /\ Announce(w, "match_accepted", s.request)
  /\ UNCHANGED <<notices, blocked, job, failures>>

\* The INSERT of the match breaks the unique constraint: rolled back, 500.
AcceptDuplicate(w) ==
  LET s == session[w] IN
  /\ At(w, "accept_commit") /\ \A q \in s.others : RequestFree(q)
  /\ SeatTaken(s.request)
  /\ Finish(w)
  /\ UNCHANGED <<rides, requests, matches, notices, blocked, job, failures>>

\* PostgreSQL aborts one transaction of a deadlock: rolled back, 500.
DeadlockVictim(w) ==
  /\ ~At(w, "idle") /\ Finish(w)
  /\ OnCircle(<<w, "handler">>)
  /\ UNCHANGED <<rides, requests, matches, notices, blocked, job, failures>>

\* decline_request holds the request's lock from its only read to its commit,
\* so no other step can tell the two apart.
Decline(w, q) ==
  /\ At(w, "idle") /\ requests[q].status = "pending" /\ RequestFree(q)
  /\ requests' = [requests EXCEPT ![q].status = "declined"]
  /\ Announce(w, "match_declined", q)
  /\ UNCHANGED <<rides, matches, notices, blocked, job, failures>>

\* create_notification: a transaction of its own, after the commit it reports.
Notify(w) ==
  /\ At(w, "notify")
  /\ notices' = notices \cup {<<session[w].note, session[w].request>>}
  /\ Finish(w)
  /\ UNCHANGED <<rides, requests, matches, blocked, job, failures>>

-----------------------------------------------------------------------------
\* start_ride, complete_ride, cancel_match: an unlocked SELECT, the check of
\* the transition table, an UPDATE of what was read.

StartRead(w, q) ==
  /\ At(w, "idle") /\ MayMove(q, "in_progress")
  /\ Continue(w, [Idle EXCEPT !.pc = "start_write", !.request = q])
  /\ UNCHANGED <<rides, requests, matches, notices, blocked, job, failures>>

StartWrite(w) ==
  /\ At(w, "start_write")
  /\ matches' = [matches EXCEPT ![session[w].request] = "in_progress"]
  /\ Finish(w)
  /\ UNCHANGED <<rides, requests, notices, blocked, job, failures>>

CompleteActive(w, q) ==
  /\ At(w, "idle") /\ matches[q] \in {"matched", "in_progress"}
  /\ Continue(w, [Idle EXCEPT !.pc = "complete_write", !.request = q])
  /\ UNCHANGED <<rides, requests, matches, notices, blocked, job, failures>>
CompleteRead(w, q) ==
  /\ At(w, "idle") /\ MayMove(q, "completed")
  /\ Continue(w, [Idle EXCEPT !.pc = "complete_write", !.request = q])
  /\ UNCHANGED <<rides, requests, matches, notices, blocked, job, failures>>

CompleteWrite(w) ==
  /\ At(w, "complete_write")
  /\ matches' = [matches EXCEPT ![session[w].request] = "completed"]
  /\ Finish(w)
  /\ UNCHANGED <<rides, requests, notices, blocked, job, failures>>

MatchCancelRead(w, q) ==
  /\ CancelRouted
  /\ At(w, "idle") /\ MayMove(q, "cancelled")
  /\ Continue(w, [Idle EXCEPT !.pc = "match_cancel_write", !.request = q,
                    !.ride = requests[q].ride, !.row = Loaded(requests[q].ride)])
  /\ UNCHANGED <<rides, requests, matches, notices, blocked, job, failures>>

MatchCancelWrite(w) ==
  LET s == session[w]  left == s.row.cur - 1 IN
  /\ At(w, "match_cancel_write") /\ RideFree(s.ride)
  /\ matches' = [matches EXCEPT ![s.request] = "cancelled"]
  /\ IF s.row.cur > 0
     THEN rides' = [rides EXCEPT ![s.ride].cur = left,
                      ![s.ride].status = IF s.row.status = "matched" /\ left < s.row.max
                                         THEN "open" ELSE @]
     ELSE UNCHANGED rides
  /\ Finish(w)
  /\ UNCHANGED <<requests, notices, blocked, job, failures>>

-----------------------------------------------------------------------------
\* block_user, without the report that may come with it.
Block(w, u, v) ==
  /\ At(w, "idle") /\ u # v
  /\ Cardinality(blocked) < MaxBlocks /\ <<u, v>> \notin blocked
  /\ blocked' = blocked \cup {<<u, v>>}
  /\ UNCHANGED <<rides, requests, matches, notices, session, job, failures>>

\* Time passes the ride's expires_at.
Tick(r) ==
  /\ RideExists(r) /\ rides[r].due # "after"
  /\ rides' = [rides EXCEPT ![r].due = IF @ = "before" THEN "at" ELSE "after"]
  /\ UNCHANGED <<requests, matches, notices, blocked, session, job, failures>>

\* expire_stale_pings: a SELECT, an UPDATE by key of each row it returned, one
\* commit.  The UPDATEs take the rows' locks and repeat no condition.
JobSelect(w) ==
  LET stale == {r \in Rides : Stale(r)} IN
  /\ ~job[w].busy /\ stale # {}
  /\ job' = [job EXCEPT ![w] = [busy |-> TRUE, stale |-> stale, held |-> {}]]
  /\ UNCHANGED <<rides, requests, matches, notices, blocked, session, failures>>

JobLock(w, r) ==
  /\ job[w].busy /\ Turn(w, r)
  /\ RideExists(r) /\ RideFree(r)
  /\ job' = [job EXCEPT ![w].held = @ \cup {r}]
  /\ UNCHANGED <<rides, requests, matches, notices, blocked, session, failures>>

JobCommitForgotten(w) ==
  /\ job[w].busy /\ Left(w) = {}
  /\ job' = [job EXCEPT ![w].busy = FALSE]
  /\ UNCHANGED <<rides, requests, matches, notices, blocked, session, failures>>
JobCommit(w) ==
  /\ job[w].busy /\ Left(w) = {}
  /\ rides' = [r \in Rides |-> IF r \in job[w].held THEN [rides[r] EXCEPT !.status = "expired"]
                                                     ELSE rides[r]]
  /\ job' = [job EXCEPT ![w] = NoJob]
  /\ UNCHANGED <<requests, matches, notices, blocked, session, failures>>

\* The batch is rolled back and the error logged.
JobEnds(w) ==
  /\ job' = [job EXCEPT ![w] = NoJob]
  /\ UNCHANGED <<rides, requests, matches, notices, blocked, session>>

\* An UPDATE found its row deleted.
JobVanished(w) ==
  /\ job[w].busy /\ \E r \in Rides : Turn(w, r) /\ ~RideExists(r)
  /\ JobEnds(w) /\ UNCHANGED failures

\* PostgreSQL aborts the job to end a deadlock.
JobVictim(w) ==
  /\ job[w].busy /\ JobEnds(w) /\ UNCHANGED failures
  /\ OnCircle(<<w, "job">>)

\* A handler or the job dies between two steps (the process is killed, the
\* database connection is lost): the open transaction is rolled back.
WorkerFails(w) ==
  /\ ~At(w, "idle") /\ failures < MaxFailures
  /\ failures' = failures + 1
  /\ Finish(w)
  /\ UNCHANGED <<rides, requests, matches, notices, blocked, job>>

JobFails(w) ==
  /\ job[w].busy /\ failures < MaxFailures
  /\ failures' = failures + 1
  /\ JobEnds(w)

-----------------------------------------------------------------------------
\* The routes: the calls a client may make, in any order and with any input.
\* Where only the host of a ride passes the checks, the caller is not named.
PostPing(w) ==
  \E u \in Hosts, r \in Rides, max \in Capacities, pref \in Preferences, due \in Phases :
    CreatePing(w, u, r, max, pref, due)
ChangePing(w) == \E r \in Rides : UpdateRead(w, r) \/ PingCancelRead(w, r)
DeletePings(w) == \E h \in Hosts : DeleteBegin(w, h)
RequestCalls(w) ==
  \/ \E u \in Users, r \in Rides : JoinRead(w, u, r)
  \/ \E q \in Requests : AcceptLockRequest(w, q) \/ Decline(w, q)
MatchCalls(w) ==
  \E q \in Requests : StartRead(w, q) \/ CompleteRead(w, q) \/ MatchCancelRead(w, q)
BlockCalls(w) == \E u, v \in Users : Block(w, u, v)

\* A call a client may make, and the rest of a call under way.
Call(w) ==
  \/ PostPing(w) \/ ChangePing(w) \/ DeletePings(w)
  \/ RequestCalls(w) \/ MatchCalls(w) \/ BlockCalls(w)

Proceed(w) ==
  \/ UpdateWrite(w) \/ PingCancelWrite(w) \/ RideVanished(w)
  \/ DeleteLock(w) \/ DeleteCommit(w) \/ DeleteRefused(w)
  \/ JoinCheck(w) \/ \E q \in Requests : JoinInsert(w, q)
  \/ AcceptLockRide(w) \/ AcceptCommit(w) \/ AcceptDuplicate(w) \/ DeadlockVictim(w)
  \/ Notify(w) \/ StartWrite(w) \/ CompleteWrite(w) \/ MatchCancelWrite(w)

JobProceeds(w) ==
  \/ \E r \in Rides : JobLock(w, r)
  \/ JobCommit(w) \/ JobVanished(w) \/ JobVictim(w)

Next ==
  \/ \E w \in Workers : Call(w) \/ Proceed(w) \/ WorkerFails(w)
  \/ \E w \in Workers : JobSelect(w) \/ JobProceeds(w) \/ JobFails(w)
  \/ \E r \in Rides : Tick(r)

Spec == Init /\ [][Next]_vars

\* A handler that was called runs on and PostgreSQL resolves its deadlocks; each
\* scheduler starts its job every minute.  Waiters for a row lock queue, so a
\* session that waits for a row that is free again and again gets it (SF).
\* Nobody has to call anything.
Fairness ==
  \A w \in Workers : SF_vars(Proceed(w)) /\ WF_vars(JobSelect(w)) /\ SF_vars(JobProceeds(w))

FairSpec == Spec /\ Fairness

-----------------------------------------------------------------------------
\* Properties

\* Every row has the columns of its table and every session the state of one
\* handler of match_service.py or ping_service.py.
TypeOK ==
  /\ rides \in [Rides -> RideRows]
  /\ requests \in [Requests -> RequestRows]
  /\ matches \in [Requests -> MatchStatuses \cup {"none"}]
  /\ notices \subseteq Kinds \X Requests
  /\ blocked \subseteq Users \X Users
  /\ session \in [Workers -> Sessions]
  /\ job \in [Workers -> [busy : BOOLEAN, stale : SUBSET Rides, held : SUBSET Rides]]
  /\ failures \in 0..MaxFailures

\* The passengers a ride carries or has carried.
Seats(r) == {q \in Requests : requests[q].ride = r /\ matches[q] \notin {"none", "cancelled"}}

\* current_passengers, which accept_request and cancel_match compute from a
\* row read earlier, is the number of matches of the ride that stand, whatever
\* the scheduler and failures do in between.
SeatAccounting == \A r \in Rides : rides[r].cur = Cardinality(Seats(r))

\* No ride carries more passengers than it has seats, although the capacity
\* check of accept_request and its commit are two steps.
NoOverbooking ==
  \A r \in Rides : Seats(r) # {} => Cardinality(Seats(r)) <= rides[r].max

\* Nobody waits for a ride whose last seat is gone: the accept that takes it
\* declines the others and request_join admits no more.
FullRideHasNoPending == \A r \in Rides : Full(rides[r]) => PendingOn(r) = {}

\* A guest has one claim on a ride, a pending request or an active match, across
\* the check of request_join, the accept and the start of the ride.
ClaimsOf(u, r) ==
  {q \in Requests : /\ requests[q].ride = r /\ requests[q].guest = u
                    /\ requests[q].status = "pending" \/ matches[q] \in {"matched", "in_progress"}}
OneClaimPerGuest == \A u \in Users, r \in Rides : Cardinality(ClaimsOf(u, r)) <= 1

\* accept_request writes the request and the match together: whatever fails or
\* is rolled back, a request is accepted exactly when a match was made from it.
AcceptedIffMatched ==
  \A q \in Requests : requests[q].status = "accepted" <=> matches[q] # "none"

\* What request_join checked one query at a time still holds when its row is
\* inserted: no guest gets to ask a host across a block (README.md:342), against
\* the ride's preference (README.md:325-326), for a full ride or for their own.
JoinsAreAdmitted ==
  [][\A q \in Requests : requests[q].status = "none" /\ requests'[q].status = "pending" =>
       LET row == rides[requests'[q].ride]  guest == requests'[q].guest IN
       /\ guest \in Onboarded \ {row.host}
       /\ <<row.host, guest>> \notin blocked /\ <<guest, row.host>> \notin blocked
       /\ row.pref \in {"female", "female_only"} => Gender[guest] = "female"
       /\ row.pref \in {"male", "male_only"} => Gender[guest] = "male"
       /\ row.cur < row.max]_vars

\* A notification, written after the commit it reports, never tells a guest or
\* a host something that did not happen or that was undone later.
NoticesAreTrue ==
  \A q \in Requests :
    /\ <<"match_request", q>> \in notices => requests[q].status # "none"
    /\ <<"match_accepted", q>> \in notices => requests[q].status = "accepted"
    /\ <<"match_declined", q>> \in notices => requests[q].status = "declined"

\* A request is answered once: accept, decline and the declines of a last seat
\* never overwrite each other's answer (RideStateMachine.REQUEST_TRANSITIONS).
SettlesOnce(q) ==
  requests'[q].status # requests[q].status =>
    \/ requests[q].status = "none" /\ requests'[q].status = "pending"
    \/ requests[q].status = "pending" /\ requests'[q].status \in {"accepted", "declined"}
RequestSettledOnce == [][\A q \in Requests : SettlesOnce(q)]_vars

\* Handlers and jobs of any processes that all wait for one another include two
\* accepts of one ride, the circle that the locks of accept_request allow, or a
\* bulk DELETE.  Jobs do not block one another for good: they take rows in one order.
Deleting(w) == session[w].pc \in {"delete_rows", "delete_commit"}
OnlyKnownDeadlocks ==
  \A ring \in SUBSET {t \in Txns : \E u \in Txns : WaitsFor(t, u)} :
    ring # {} /\ (\A t \in ring : \E u \in ring : WaitsFor(t, u)) =>
      \/ \E v, w \in Workers : {<<v, "handler">>, <<w, "handler">>} \subseteq ring /\ Deadlock(v, w)
      \/ \E w \in Workers : <<w, "handler">> \in ring /\ Deleting(w)

\* A match changes only as the transition table allows, although start, complete
\* and cancel consult it for a match they read without a lock.
MatchesFollowTable ==
  [][\A q \in Requests : matches'[q] # matches[q] =>
       matches'[q] \in IF matches[q] = "none" THEN {"matched"} ELSE MatchTransitions(matches[q])]_vars

\* The ledger of RideBooking, read off the tables.
BookingState(q) ==
  CASE matches[q] \in {"matched", "in_progress"}                   -> "seated"
    [] matches[q] \in {"completed", "disputed"}                    -> "travelled"
    [] matches[q] = "cancelled"                                    -> "released"
    [] matches[q] = "none" /\ requests[q].status = "pending"       -> "waiting"
    [] matches[q] = "none" /\ requests[q].status = "declined"      -> "away"
    [] OTHER                                                       -> "none"

Booking == INSTANCE RideBooking WITH
  Guests <- Users, Claims <- Requests, NoGuest <- NoUser,
  seats <- [r \in Rides |-> rides[r].max],
  claim <- [q \in Requests |-> [state |-> BookingState(q), ride |-> requests[q].ride,
                                guest |-> requests[q].guest]]

\* With one worker, the handlers, the scheduler's job and their failures in
\* between implement the ledger: seats are given one at a time, never twice to
\* one guest, and the last one turns away everybody who waits.
ImplementsBooking == Booking!Spec

\* Every handler ends: waits for row locks are resolved, deadlocks included.
HandlersFinish == \A w \in Workers : ~At(w, "idle") ~> At(w, "idle")

\* A ride does not stay open past its expiry: some scheduler closes it, although
\* a job may wait for a handler or for another job, lose a whole batch of rides to
\* one row that was deleted under it, or be aborted for a deadlock.
StaleRidesClose ==
  \A r \in Rides : rides[r].due = "after" ~> rides[r].status # "open"

\* A match is made on a ride that is open at that moment
\* ("Ride must still be open", match_service.py:175).
AcceptsOpenRide ==
  [][\A q \in Requests : matches[q] = "none" /\ matches'[q] # "none" =>
       rides[requests[q].ride].status = "open"]_vars

\* Only guests that the ride's preference admits are matched on it
\* ("Gender preferences are strictly enforced", README.md:323).
PreferenceEnforced ==
  [][\A q \in Requests : matches[q] = "none" /\ matches'[q] # "none" =>
       Admits(rides[requests[q].ride].pref, Gender[requests[q].guest])]_vars
=============================================================================
