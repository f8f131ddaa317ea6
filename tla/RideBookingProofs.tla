-------------------------- MODULE RideBookingProofs --------------------------
(***************************************************************************)
(* What RideMatching guarantees with one worker, the deployment of         *)
(* scripts/run.py, for every set of users, rides and requests: seats are   *)
(* counted, no ride is overbooked, and the handlers implement the ledger   *)
(* of RideBooking.  With several workers none of this holds (run           *)
(* overbooked), since accept_request computes from a row read before the   *)
(* ride is locked.                                                         *)
(***************************************************************************)
EXTENDS RideMatchingProofs

SoleWorker == \A v, w \in Workers : v = w

-----------------------------------------------------------------------------
\* The inductive invariant

EmptyRows == \A q \in Requests : requests[q].status = "none" => requests[q] = NoRequestRow

\* Foreign keys: a ride that was asked for is not deleted.
RequestsHaveRides == \A q \in Requests : requests[q].status # "none" => RideExists(requests[q].ride)

HasClaim(q) == requests[q].status = "pending" \/ matches[q] \in {"matched", "in_progress"}
ClaimsUnique == \A p, q \in Requests : HasClaim(p) /\ HasClaim(q) /\ SameSeat(p, q) => p = q

TablesOK ==
  /\ EmptyRows
  /\ RequestsHaveRides
  /\ ClaimsUnique
  /\ SeatAccounting
  /\ NoOverbooking
  /\ FullRideHasNoPending

\* What a handler has read is still so: nobody else writes these columns.
SnapshotOK(s) ==
  /\ s.pc \in {"join_check", "join_insert"} => ~Full(rides[s.ride])
  /\ s.pc = "join_insert" => ~Involved(s.user, s.ride)
  /\ s.pc \in {"accept_ride", "accept_commit", "match_cancel_write"} =>
       s.row.cur = rides[s.ride].cur /\ s.row.max = rides[s.ride].max
  /\ s.pc = "accept_commit" =>
       /\ ~Full(s.row)
       /\ s.others = IF LastSeat(s.row) THEN PendingOn(s.ride) \ {s.request} ELSE {}
  /\ s.pc = "start_write" => matches[s.request] = "matched"
  /\ s.pc = "complete_write" => matches[s.request] \in {"in_progress", "disputed"}
  /\ s.pc = "match_cancel_write" =>
       matches[s.request] = "matched" /\ s.ride = requests[s.request].ride

SInv == TablesOK /\ \A w \in Workers : SnapshotOK(session[w])

-----------------------------------------------------------------------------
\* Steps that touch no seat

\* A step that leaves requests, matches and the seats of the rides alone.
Quiet ==
  /\ requests' = requests /\ matches' = matches
  /\ \A r \in Rides : /\ rides'[r].cur = rides[r].cur /\ rides'[r].max = rides[r].max
                      /\ RideExists(r) => RideExists(r)'

\* Every other step is one of these.
SeatSteps(w) ==
  \/ \E u \in Hosts, r \in Rides, max \in Capacities, pref \in Preferences, due \in Phases :
       CreatePing(w, u, r, max, pref, due)
  \/ \E q \in Requests : JoinInsert(w, q) \/ Decline(w, q)
  \/ DeleteCommit(w) \/ AcceptCommit(w) \/ StartWrite(w) \/ CompleteWrite(w) \/ MatchCancelWrite(w)

\* The handlers' other steps, the jobs, the clock and failures are quiet.
LEMMA QuietSteps ==
  ASSUME IInv, [Next]_vars
  PROVE  Quiet \/ \E w \in Workers : SeatSteps(w)
<1>0. TypeOK /\ \A r \in Rides : rides[r] \in RideRows
  BY DEF IInv, TypeOK
<1>1. rides' = rides /\ requests' = requests /\ matches' = matches => Quiet
  BY DEF Quiet, RideExists
<1>2. ASSUME NEW w \in Workers, Call(w)
      PROVE  Quiet \/ SeatSteps(w)
  <2>1. \/ SeatSteps(w)
        \/ rides' = rides /\ requests' = requests /\ matches' = matches
    BY <1>2 DEF Call, PostPing, ChangePing, DeletePings, RequestCalls, MatchCalls, BlockCalls, SeatSteps, UpdateRead, PingCancelRead, DeleteBegin, JoinRead, AcceptLockRequest,
                StartRead, CompleteRead, MatchCancelRead, Block
  <2> QED
    BY <1>1, <2>1
<1>3. ASSUME NEW w \in Workers, UpdateWrite(w)
      PROVE  Quiet
  <2> DEFINE s == session[w]
  <2>1. PICK st \in PatchStatuses \cup {s.row.status}, p \in Preferences \cup {s.row.pref} :
          rides' = IF ~Fits(p) THEN rides
                   ELSE [rides EXCEPT ![s.ride].status = IF st = s.row.status THEN @ ELSE st,
                                      ![s.ride].pref   = IF p = s.row.pref THEN @ ELSE p]
    BY <1>3 DEF UpdateWrite
  <2>2. s.ride \in Rides /\ RideExists(s.ride) /\ requests' = requests /\ matches' = matches
    BY <1>3 DEF UpdateWrite, At, IInv, SessionOK
  <2>3. st # s.row.status => st \notin {"none", "deleted"}
    BY InputsAssumption DEF PingStatuses
  <2> HIDE DEF s
  <2> QED
    BY <1>0, <2>1, <2>2, <2>3 DEF Quiet, RideExists, RideRows, TypeOK
<1>4. ASSUME NEW w \in Workers, PingCancelWrite(w)
      PROVE  Quiet
  <2>1. session[w].ride \in Rides
    BY <1>4 DEF PingCancelWrite, At, IInv, SessionOK
  <2> QED
    BY <1>0, <1>4, <2>1 DEF PingCancelWrite, Quiet, RideExists, RideRows, TypeOK
<1>5. ASSUME NEW w \in Workers, Proceed(w), ~UpdateWrite(w), ~PingCancelWrite(w)
      PROVE  Quiet \/ SeatSteps(w)
  <2>1. \/ SeatSteps(w)
        \/ rides' = rides /\ requests' = requests /\ matches' = matches
    BY <1>5 DEF Proceed, SeatSteps, RideVanished, DeleteLock, DeleteRefused, JoinCheck,
                AcceptLockRide, AcceptDuplicate, DeadlockVictim, Notify
  <2> QED
    BY <1>1, <2>1
<1>6. CASE \/ \E w \in Workers : \/ WorkerFails(w) \/ JobSelect(w) \/ JobVanished(w)
                                 \/ JobVictim(w) \/ JobFails(w)
                                 \/ \E r \in Rides : JobLock(w, r)
           \/ UNCHANGED vars
  BY <1>1, <1>6 DEF WorkerFails, JobSelect, JobVanished, JobVictim, JobFails, JobEnds, JobLock, vars
<1>7. ASSUME NEW w \in Workers, JobCommit(w) PROVE Quiet
  BY <1>0, <1>7 DEF JobCommit, Quiet, RideExists, RideRows
<1>8. ASSUME NEW r \in Rides, Tick(r) PROVE Quiet
  BY <1>0, <1>8 DEF Tick, Quiet, RideExists, RideRows, TypeOK
<1> QED
  BY <1>2, <1>3, <1>4, <1>5, <1>6, <1>7, <1>8 DEF Next, JobProceeds

\* A quiet step keeps the tables in order, and what a session relies on.
LEMMA QuietKeeps ==
  ASSUME IInv, TablesOK, Quiet
  PROVE  /\ TablesOK'
         /\ \A w \in Workers :
              session'[w] = session[w] /\ SnapshotOK(session[w]) => SnapshotOK(session[w])'
<1>1. \A r \in Rides : /\ Seats(r)' = Seats(r) /\ PendingOn(r)' = PendingOn(r)
                       /\ Full(rides[r])' <=> Full(rides[r])
  BY DEF Quiet, Seats, PendingOn, Full
<1>2. EmptyRows' /\ ClaimsUnique'
  BY DEF TablesOK, Quiet, EmptyRows, ClaimsUnique, HasClaim, SameSeat
<1>3. RequestsHaveRides'
  BY DEF TablesOK, Quiet, RequestsHaveRides, IInv, RowsLinked
<1>4. SeatAccounting' /\ NoOverbooking' /\ FullRideHasNoPending'
  BY <1>1 DEF TablesOK, Quiet, SeatAccounting, NoOverbooking, FullRideHasNoPending
<1>5. ASSUME NEW w \in Workers, session'[w] = session[w], SnapshotOK(session[w])
      PROVE  SnapshotOK(session[w])'
  <2> DEFINE s == session[w]
  <2>1. s.pc \in {"join_check", "join_insert", "accept_ride", "accept_commit", "match_cancel_write"}
          => s.ride \in Rides
    BY DEF IInv, SessionOK
  <2>2. \A u, r : Involved(u, r)' <=> Involved(u, r)
    BY DEF Quiet, Involved
  <2> QED
    BY <1>1, <1>5, <2>1, <2>2 DEF Quiet, SnapshotOK
<1> QED
  BY <1>2, <1>3, <1>4, <1>5 DEF TablesOK

-----------------------------------------------------------------------------
\* Steps that touch seats

\* The seats of a ride are finitely many requests; a row without a ride is on none.
LEMMA SeatFacts ==
  ASSUME IInv, TablesOK, NEW r \in Rides
  PROVE  /\ IsFiniteSet(Seats(r)) /\ Cardinality(Seats(r)) \in Nat
         /\ rides[r] \in RideRows
         /\ ~RideExists(r) => \A q \in Requests : requests[q].ride # r
<1>1. IsFiniteSet(Seats(r)) /\ Cardinality(Seats(r)) \in Nat
  BY BoundsAssumption, FS_Subset, FS_CardinalityType DEF Seats
<1>2. ~RideExists(r) => \A q \in Requests : requests[q].ride # r
  BY UsersAssumption DEF TablesOK, EmptyRows, RequestsHaveRides, NoRequestRow
<1> QED
  BY <1>1, <1>2 DEF IInv, TypeOK

\* New seats are offered on a ride nobody asked for.
LEMMA CreatePingKeeps ==
  ASSUME IInv, TablesOK, NEW w \in Workers, NEW u \in Hosts, NEW r \in Rides,
         NEW max \in Capacities, NEW pref \in Preferences, NEW due \in Phases,
         CreatePing(w, u, r, max, pref, due)
  PROVE  TablesOK'
<1>1. /\ requests' = requests /\ matches' = matches
      /\ rides' = [rides EXCEPT ![r] = NewPing(u, max, pref, due)]
      /\ ~RideExists(r)
  BY DEF CreatePing, RideExists
<1>2. \A q \in Requests : requests[q].ride # r
  BY <1>1, SeatFacts
<1>3. /\ rides'[r].status = "open" /\ rides'[r].cur = 0
      /\ \A p \in Rides : p # r => rides'[p] = rides[p]
  BY <1>1 DEF NewPing, IInv, TypeOK
<1>4. \A p \in Rides : Seats(p)' = Seats(p) /\ PendingOn(p)' = PendingOn(p)
  BY <1>1 DEF Seats, PendingOn
<1>5. Seats(r) = {} /\ PendingOn(r) = {} /\ Cardinality(Seats(r)) = 0
  <2>1. Seats(r) = {} /\ PendingOn(r) = {}
    BY <1>2 DEF Seats, PendingOn
  <2> QED
    BY <2>1, FS_EmptySet
<1>6. EmptyRows' /\ ClaimsUnique'
  BY <1>1 DEF TablesOK, EmptyRows, ClaimsUnique, HasClaim, SameSeat
<1>7. RequestsHaveRides'
  BY <1>1, <1>2, <1>3 DEF TablesOK, RequestsHaveRides, RideExists, IInv, RowsLinked
<1>8. SeatAccounting' /\ NoOverbooking' /\ FullRideHasNoPending'
  BY <1>3, <1>4, <1>5 DEF TablesOK, SeatAccounting, NoOverbooking, FullRideHasNoPending, Full
<1> QED
  BY <1>6, <1>7, <1>8 DEF TablesOK

\* Rides are deleted only when nobody asked for them.
LEMMA DeleteCommitKeeps ==
  ASSUME IInv, TablesOK, NEW w \in Workers, DeleteCommit(w)
  PROVE  TablesOK'
<1> DEFINE gone == session[w].held
<1>1. /\ requests' = requests /\ matches' = matches
      /\ \A q \in Requests : requests[q].ride \notin gone
      /\ rides' = [r \in Rides |-> IF r \in gone THEN [NoRow EXCEPT !.status = "deleted"]
                                                 ELSE rides[r]]
      /\ gone \subseteq Rides
  BY DEF DeleteCommit, IInv, TypeOK, Sessions
<1> HIDE DEF gone
<1>2. /\ \A p \in Rides : p \notin gone => rides'[p] = rides[p]
      /\ \A p \in Rides : p \in gone => rides'[p].cur = 0
  BY <1>1 DEF NoRow
<1>3. \A p \in Rides : Seats(p)' = Seats(p) /\ PendingOn(p)' = PendingOn(p)
  BY <1>1 DEF Seats, PendingOn
<1>4. \A p \in gone : Seats(p) = {} /\ PendingOn(p) = {} /\ Cardinality(Seats(p)) = 0
  <2>1. \A p \in gone : Seats(p) = {} /\ PendingOn(p) = {}
    BY <1>1 DEF Seats, PendingOn
  <2> QED
    BY <2>1, FS_EmptySet
<1>5. EmptyRows' /\ ClaimsUnique'
  BY <1>1 DEF TablesOK, EmptyRows, ClaimsUnique, HasClaim, SameSeat
<1>6. RequestsHaveRides'
  BY <1>1, <1>2 DEF TablesOK, RequestsHaveRides, RideExists, IInv, RowsLinked
<1>7. SeatAccounting' /\ NoOverbooking' /\ FullRideHasNoPending'
  BY <1>2, <1>3, <1>4 DEF TablesOK, SeatAccounting, NoOverbooking, FullRideHasNoPending
<1> QED
  BY <1>5, <1>6, <1>7 DEF TablesOK

\* A join adds a claim that waits, to a ride with a seat, for a guest without a claim.
LEMMA JoinInsertKeeps ==
  ASSUME IInv, SInv, NEW w \in Workers, NEW q \in Requests, JoinInsert(w, q)
  PROVE  TablesOK'
<1> DEFINE s == session[w]
<1>1. /\ requests[q].status = "none" /\ matches' = matches /\ rides' = rides
      /\ requests' = [requests EXCEPT ![q] = [status |-> "pending", ride |-> s.ride,
                                              guest |-> s.user]]
      /\ RideExists(s.ride) /\ s.pc = "join_insert"
  BY DEF JoinInsert, At
<1>2. ~Full(rides[s.ride]) /\ ~Involved(s.user, s.ride) /\ s.ride \in Rides
  BY <1>1 DEF SInv, SnapshotOK, IInv, SessionOK
<1>3. TablesOK /\ TypeOK /\ matches[q] = "none"
  BY <1>1 DEF SInv, IInv, RowsLinked
<1> HIDE DEF s
<1>4. /\ \A p \in Requests : p # q => requests'[p] = requests[p]
      /\ requests'[q] = [status |-> "pending", ride |-> s.ride, guest |-> s.user]
  BY <1>1, <1>3 DEF TypeOK
<1>5. EmptyRows' /\ RequestsHaveRides'
  BY <1>1, <1>3, <1>4 DEF TablesOK, EmptyRows, RequestsHaveRides, RideExists
<1>6. ClaimsUnique'
  <2>1. \A p \in Requests : HasClaim(p) /\ p # q => ~(requests[p].ride = s.ride /\ requests[p].guest = s.user)
    BY <1>2 DEF HasClaim, Involved
  <2>2. \A p \in Requests : p # q => (HasClaim(p)' <=> HasClaim(p))
    BY <1>1, <1>4 DEF HasClaim
  <2> QED
    BY <1>3, <1>4, <2>1, <2>2 DEF TablesOK, ClaimsUnique, SameSeat
<1>7. \A r \in Rides : Seats(r)' = Seats(r)
  BY <1>1, <1>3, <1>4 DEF Seats
<1>8. \A r \in Rides : r # s.ride => PendingOn(r)' = PendingOn(r)
  BY <1>1, <1>4 DEF PendingOn
<1>9. SeatAccounting' /\ NoOverbooking' /\ FullRideHasNoPending'
  BY <1>1, <1>2, <1>3, <1>7, <1>8 DEF TablesOK, SeatAccounting, NoOverbooking, FullRideHasNoPending, Full
<1> QED
  BY <1>5, <1>6, <1>9 DEF TablesOK

\* A declined request gives up its claim.
LEMMA DeclineKeeps ==
  ASSUME IInv, TablesOK, NEW w \in Workers, NEW q \in Requests, Decline(w, q)
  PROVE  TablesOK'
<1>1. /\ matches' = matches /\ rides' = rides /\ requests[q].status = "pending"
      /\ requests' = [requests EXCEPT ![q].status = "declined"]
  BY DEF Decline
<1>2. \A p \in Requests :
        /\ requests'[p].ride = requests[p].ride /\ requests'[p].guest = requests[p].guest
        /\ p # q => requests'[p] = requests[p]
        /\ requests'[q].status = "declined"
  BY <1>1 DEF IInv, TypeOK, RequestRows
<1>3. EmptyRows' /\ RequestsHaveRides' /\ ClaimsUnique'
  BY <1>1, <1>2 DEF TablesOK, EmptyRows, RequestsHaveRides, RideExists, ClaimsUnique, HasClaim, SameSeat
<1>4. \A r \in Rides : Seats(r)' = Seats(r) /\ PendingOn(r)' \subseteq PendingOn(r)
  BY <1>1, <1>2 DEF Seats, PendingOn
<1>5. SeatAccounting' /\ NoOverbooking' /\ FullRideHasNoPending'
  BY <1>1, <1>4 DEF TablesOK, SeatAccounting, NoOverbooking, FullRideHasNoPending, Full
<1> QED
  BY <1>3, <1>5 DEF TablesOK

\* start_ride and complete_ride keep the seat of a match that has one.
LEMMA RideMovesKeep ==
  ASSUME IInv, SInv, NEW w \in Workers, StartWrite(w) \/ CompleteWrite(w)
  PROVE  TablesOK'
<1> DEFINE q == session[w].request
<1>1. /\ requests' = requests /\ rides' = rides
      /\ q \in Requests /\ matches[q] \in {"matched", "in_progress", "disputed"}
      /\ \/ matches' = [matches EXCEPT ![q] = "completed"]
         \/ matches' = [matches EXCEPT ![q] = "in_progress"] /\ matches[q] = "matched"
  BY DEF StartWrite, CompleteWrite, At, SInv, SnapshotOK, IInv, SessionOK
<1> HIDE DEF q
<1>2. \A p \in Requests : \/ matches'[p] = matches[p]
                          \/ p = q /\ matches'[p] = "completed"
                          \/ p = q /\ matches'[p] = "in_progress" /\ matches[p] = "matched"
  BY <1>1 DEF IInv, TypeOK
<1>3. EmptyRows' /\ RequestsHaveRides' /\ ClaimsUnique'
  BY <1>1, <1>2 DEF SInv, TablesOK, EmptyRows, RequestsHaveRides, RideExists, ClaimsUnique, HasClaim, SameSeat
<1>4. \A r \in Rides : Seats(r)' = Seats(r) /\ PendingOn(r)' = PendingOn(r)
  BY <1>1, <1>2 DEF Seats, PendingOn
<1>5. SeatAccounting' /\ NoOverbooking' /\ FullRideHasNoPending'
  BY <1>1, <1>4 DEF SInv, TablesOK, SeatAccounting, NoOverbooking, FullRideHasNoPending, Full
<1> QED
  BY <1>3, <1>5 DEF TablesOK

\* An accept gives one seat, counts it, and turns the others away with the last one.
LEMMA AcceptKeeps ==
  ASSUME IInv, SInv, NEW w \in Workers, AcceptCommit(w)
  PROVE  TablesOK'
<1>0. PICK s, a, r : s = session[w] /\ a = s.request /\ r = s.ride
  OBVIOUS
<1>1. /\ a \in Requests /\ r \in Rides /\ requests[a].status = "pending" /\ requests[a].ride = r
      /\ s.row.cur = rides[r].cur /\ s.row.max = rides[r].max /\ ~Full(s.row)
      /\ s.others = IF LastSeat(s.row) THEN PendingOn(r) \ {a} ELSE {}
  BY <1>0 DEF AcceptCommit, At, IInv, SessionOK, SInv, SnapshotOK
<1>2. /\ matches' = [matches EXCEPT ![a] = "matched"]
      /\ requests' = [q \in Requests |->
            IF q = a THEN [requests[q] EXCEPT !.status = "accepted"]
            ELSE IF q \in s.others THEN [requests[q] EXCEPT !.status = "declined"]
            ELSE requests[q]]
      /\ rides' = [rides EXCEPT ![r].cur = s.row.cur + 1,
                                ![r].status = IF LastSeat(s.row) THEN "matched" ELSE @]
  BY <1>0 DEF AcceptCommit
<1>3. TablesOK /\ TypeOK /\ matches[a] = "none" /\ rides[r] \in RideRows
  BY <1>1 DEF SInv, IInv, AcceptedIffMatched, TypeOK
<1>4. \A q \in Requests :
        /\ requests'[q].ride = requests[q].ride /\ requests'[q].guest = requests[q].guest
        /\ requests'[q].status = IF q = a THEN "accepted"
                                 ELSE IF q \in s.others THEN "declined" ELSE requests[q].status
        /\ matches'[q] = IF q = a THEN "matched" ELSE matches[q]
  BY <1>2, <1>3 DEF TypeOK, RequestRows
<1>5. /\ rides'[r].cur = rides[r].cur + 1 /\ rides'[r].max = rides[r].max
      /\ RideExists(r) => RideExists(r)'
      /\ \A p \in Rides : p # r => rides'[p] = rides[p]
  BY <1>1, <1>2, <1>3 DEF TypeOK, RideRows, RideExists
<1>6. \A q \in Requests : requests[q].status = "none" => q # a /\ q \notin s.others
  BY <1>1 DEF PendingOn
<1>7. PendingOn(r)' = IF LastSeat(s.row) THEN {} ELSE PendingOn(r) \ {a}
  BY <1>1, <1>4 DEF PendingOn
<1>8. \A p \in Rides : p # r => PendingOn(p)' = PendingOn(p) /\ Seats(p)' = Seats(p)
  <2>1. \A q \in Requests : requests[q].ride # r =>
          requests'[q].status = requests[q].status /\ matches'[q] = matches[q]
    BY <1>1, <1>4 DEF PendingOn
  <2>2. ASSUME NEW p \in Rides, p # r
        PROVE  PendingOn(p)' = PendingOn(p)
    BY <1>4, <2>1, <2>2 DEF PendingOn
  <2>3. ASSUME NEW p \in Rides, p # r
        PROVE  Seats(p)' = Seats(p)
    BY <1>4, <2>1, <2>3 DEF Seats
  <2> QED
    BY <2>2, <2>3
<1>9. Seats(r)' = Seats(r) \cup {a} /\ a \notin Seats(r)
  BY <1>1, <1>3, <1>4 DEF Seats
<1>10. Cardinality(Seats(r)') = Cardinality(Seats(r)) + 1
  <2>1. IsFiniteSet(Seats(r))
    BY <1>1, <1>3, SeatFacts
  <2>2. Cardinality(Seats(r) \cup {a}) = Cardinality(Seats(r)) + 1
    BY <1>9, <2>1, FS_AddElement
  <2> QED
    BY <1>9, <2>2
<1>11. EmptyRows'
  <2>1. \A q \in Requests : q # a /\ q \notin s.others => requests'[q] = requests[q]
    BY <1>2
  <2> QED
    BY <1>3, <1>4, <1>6, <2>1 DEF TablesOK, EmptyRows
<1>12. RequestsHaveRides'
  BY <1>3, <1>4, <1>5, <1>6 DEF TablesOK, RequestsHaveRides, RideExists, IInv, RowsLinked
<1>13. ClaimsUnique'
  <2>1. \A q \in Requests : HasClaim(q)' => HasClaim(q)
    BY <1>1, <1>4 DEF HasClaim
  <2> QED
    BY <1>3, <1>4, <2>1 DEF TablesOK, ClaimsUnique, SameSeat
<1>14. SeatAccounting'
  BY <1>3, <1>5, <1>8, <1>10 DEF TablesOK, SeatAccounting
<1>15. NoOverbooking'
  <2>1. Cardinality(Seats(r)') <= rides'[r].max
    BY <1>1, <1>3, <1>5, <1>10 DEF TablesOK, SeatAccounting, Full, RideRows
  <2> QED
    BY <1>3, <1>5, <1>8, <2>1 DEF TablesOK, NoOverbooking
<1>16. FullRideHasNoPending'
  <2>1. Full(rides[r])' => PendingOn(r)' = {}
    BY <1>1, <1>3, <1>5, <1>7 DEF Full, LastSeat, RideRows
  <2> QED
    BY <1>3, <1>5, <1>8, <2>1 DEF TablesOK, FullRideHasNoPending, Full
<1> QED
  BY <1>11, <1>12, <1>13, <1>14, <1>15, <1>16 DEF TablesOK

\* A cancelled match gives its seat back.
LEMMA CancelKeeps ==
  ASSUME IInv, SInv, NEW w \in Workers, MatchCancelWrite(w)
  PROVE  TablesOK'
<1>0. PICK s, a, r : s = session[w] /\ a = s.request /\ r = s.ride
  OBVIOUS
<1>1. /\ a \in Requests /\ r \in Rides /\ requests[a].ride = r /\ matches[a] = "matched"
      /\ s.row.cur = rides[r].cur /\ s.row.max = rides[r].max
  BY <1>0 DEF MatchCancelWrite, At, IInv, SessionOK, SInv, SnapshotOK
<1>2. /\ requests' = requests /\ matches' = [matches EXCEPT ![a] = "cancelled"]
      /\ IF s.row.cur > 0
         THEN rides' = [rides EXCEPT ![r].cur = s.row.cur - 1,
                ![r].status = IF s.row.status = "matched" /\ s.row.cur - 1 < s.row.max
                              THEN "open" ELSE @]
         ELSE UNCHANGED rides
  BY <1>0 DEF MatchCancelWrite
<1>3. TablesOK /\ TypeOK /\ rides[r] \in RideRows
  BY <1>1 DEF SInv, IInv, TypeOK
<1>4. \A q \in Requests : matches'[q] = IF q = a THEN "cancelled" ELSE matches[q]
  BY <1>2, <1>3 DEF TypeOK
<1>5. /\ \A p \in Rides : PendingOn(p)' = PendingOn(p)
      /\ \A p \in Rides : p # r => Seats(p)' = Seats(p)
      /\ Seats(r)' = Seats(r) \ {a} /\ a \in Seats(r)
  BY <1>1, <1>2, <1>4 DEF PendingOn, Seats
<1>6. /\ Cardinality(Seats(r)') = Cardinality(Seats(r)) - 1
      /\ Cardinality(Seats(r)) \in Nat /\ Cardinality(Seats(r)) > 0
      /\ IsFiniteSet(Seats(r)')
  <2>1. IsFiniteSet(Seats(r)) /\ Cardinality(Seats(r)) \in Nat
    BY <1>1, <1>3, SeatFacts
  <2>2. /\ Cardinality(Seats(r) \ {a}) = Cardinality(Seats(r)) - 1
        /\ IsFiniteSet(Seats(r) \ {a})
    BY <1>5, <2>1, FS_RemoveElement
  <2>3. Cardinality(Seats(r)) # 0
    BY <1>5, <2>1, FS_EmptySet
  <2> QED
    BY <1>5, <2>1, <2>2, <2>3
<1>7. rides[r].cur = Cardinality(Seats(r))
  BY <1>1, <1>3 DEF TablesOK, SeatAccounting
<1>8. /\ rides'[r].cur = rides[r].cur - 1 /\ rides'[r].max = rides[r].max
      /\ RideExists(r) => RideExists(r)'
      /\ \A p \in Rides : p # r => rides'[p] = rides[p]
  BY <1>1, <1>2, <1>3, <1>6, <1>7 DEF TypeOK, RideRows, RideExists
<1>9. EmptyRows' /\ RequestsHaveRides' /\ ClaimsUnique'
  <2>1. \A q \in Requests : HasClaim(q)' => HasClaim(q)
    BY <1>2, <1>4 DEF HasClaim
  <2> QED
    BY <1>2, <1>3, <1>8, <2>1 DEF TablesOK, EmptyRows, RequestsHaveRides, RideExists, ClaimsUnique,
                                  SameSeat, IInv, RowsLinked
<1>10. SeatAccounting'
  BY <1>3, <1>5, <1>6, <1>7, <1>8 DEF TablesOK, SeatAccounting
<1>11. NoOverbooking'
  <2>1. Cardinality(Seats(r)') <= rides'[r].max
    <3>1. Cardinality(Seats(r)) <= rides[r].max
      BY <1>1, <1>3, <1>5 DEF TablesOK, NoOverbooking
    <3>2. rides[r].max \in Int
      BY <1>3 DEF RideRows
    <3> QED
      BY <1>6, <1>8, <3>1, <3>2
  <2> QED
    BY <1>3, <1>5, <1>8, <2>1 DEF TablesOK, NoOverbooking
<1>12. FullRideHasNoPending'
  <2>1. ~Full(rides[r])'
    <3>1. Cardinality(Seats(r)) <= rides[r].max /\ rides[r].max \in Int
      BY <1>1, <1>3, <1>5 DEF TablesOK, NoOverbooking, RideRows
    <3> QED
      BY <1>6, <1>7, <1>8, <3>1 DEF Full
  <2> QED
    BY <1>3, <1>5, <1>8, <2>1 DEF TablesOK, FullRideHasNoPending, Full
<1> QED
  BY <1>9, <1>10, <1>11, <1>12 DEF TablesOK

-----------------------------------------------------------------------------
\* The invariant

\* A step that begins or continues a handler leaves it with a true snapshot.
LEMMA OwnSnapshot ==
  ASSUME IInv, SInv, [Next]_vars, NEW w \in Workers, session'[w] # session[w]
  PROVE  SnapshotOK(session[w])'
<1> DEFINE s == session[w]
<1>0. TypeOK /\ s \in Sessions /\ SessionOK(s) /\ SnapshotOK(s)
  BY DEF IInv, SInv, TypeOK
<1>a. ASSUME NEW rec, Continue(w, rec) PROVE session'[w] = rec
  BY <1>0, <1>a DEF Continue, TypeOK
<1>b. ASSUME Finish(w) PROVE session'[w] = Idle
  BY <1>0, <1>b DEF Finish, TypeOK
<1>c. session'[w].pc \in {"idle", "notify", "update_write", "ping_cancel_write",
                         "delete_rows", "delete_commit"}
        => SnapshotOK(session[w])'
  BY DEF SnapshotOK
<1>d. \A r \in Rides : Loaded(r).cur = rides[r].cur /\ Loaded(r).max = rides[r].max
  BY <1>0 DEF Loaded, TypeOK, RideRows
<1>1. CASE session'[w] = Idle
  BY <1>1, <1>c DEF Idle
<1>2. ASSUME NEW r \in Rides, UpdateRead(w, r) \/ PingCancelRead(w, r)
      PROVE  SnapshotOK(session[w])'
  BY <1>2, <1>a, <1>c DEF UpdateRead, PingCancelRead, Idle
<1>3. ASSUME NEW u \in Users, NEW r \in Rides, JoinRead(w, u, r)
      PROVE  SnapshotOK(session[w])'
  BY <1>3, <1>a DEF JoinRead, MayAsk, SnapshotOK, Idle
<1>11. ASSUME NEW h \in Hosts, DeleteBegin(w, h)
      PROVE  SnapshotOK(session[w])'
  BY <1>11, <1>a, <1>c DEF DeleteBegin, Idle
<1>12. CASE DeleteLock(w)
  <2>1. s.pc = "delete_rows"
    BY <1>12 DEF DeleteLock, At
  <2>2. PICK held, r : \/ Continue(w, [Idle EXCEPT !.pc = "delete_commit", !.held = held])
                       \/ Continue(w, [s EXCEPT !.ride = r, !.todo = @ \ {r}, !.held = held])
    BY <1>12 DEF DeleteLock
  <2>3. [s EXCEPT !.ride = r, !.todo = @ \ {r}, !.held = held].pc = "delete_rows"
    BY <1>0, <2>1 DEF Sessions
  <2>4. [Idle EXCEPT !.pc = "delete_commit", !.held = held].pc = "delete_commit"
    BY DEF Idle
  <2> QED
    BY <1>a, <1>c, <2>2, <2>3, <2>4
<1>4. ASSUME NEW q \in Requests, AcceptLockRequest(w, q)
      PROVE  SnapshotOK(session[w])'
  <2> DEFINE r == requests[q].ride
  <2>1. session'[w] = [Idle EXCEPT !.pc = "accept_ride", !.request = q, !.ride = r, !.row = Loaded(r)]
    BY <1>4, <1>a DEF AcceptLockRequest
  <2>2. r \in Rides /\ rides' = rides
    BY <1>4 DEF AcceptLockRequest, IInv, RowsLinked
  <2>3. session'[w].pc = "accept_ride" /\ session'[w].ride = r /\ session'[w].row = Loaded(r)
    BY <2>1 DEF Idle
  <2> QED
    BY <1>d, <2>2, <2>3 DEF SnapshotOK
<1>5. ASSUME NEW q \in Requests, Decline(w, q) \/ JoinInsert(w, q)
      PROVE  SnapshotOK(session[w])'
  BY <1>5, <1>a, <1>c DEF Decline, JoinInsert, Announce, Idle
<1>6. ASSUME NEW q \in Requests, StartRead(w, q) \/ CompleteRead(w, q)
      PROVE  SnapshotOK(session[w])'
  <2>1. /\ StartRead(w, q) => matches'[q] = "matched"
        /\ CompleteRead(w, q) => matches'[q] \in {"in_progress", "disputed"}
    BY <1>6 DEF StartRead, CompleteRead, MayMove, MatchTransitions
  <2> QED
    BY <1>6, <1>a, <2>1 DEF StartRead, CompleteRead, SnapshotOK, Idle
<1>7. ASSUME NEW q \in Requests, MatchCancelRead(w, q)
      PROVE  SnapshotOK(session[w])'
  <2>1. matches[q] = "matched" /\ matches' = matches /\ requests' = requests /\ rides' = rides
    BY <1>7 DEF MatchCancelRead, MayMove, MatchTransitions
  <2> DEFINE r == requests[q].ride
  <2>2. session'[w] = [Idle EXCEPT !.pc = "match_cancel_write", !.request = q, !.ride = r,
                                   !.row = Loaded(r)]
    BY <1>7, <1>a DEF MatchCancelRead
  <2>3. r \in Rides
    BY <2>1 DEF IInv, RowsLinked
  <2>4. /\ session'[w].pc = "match_cancel_write" /\ session'[w].ride = r
        /\ session'[w].request = q /\ session'[w].row = Loaded(r)
    BY <2>2 DEF Idle
  <2> QED
    BY <1>d, <2>1, <2>3, <2>4 DEF SnapshotOK
<1>8. CASE JoinCheck(w)
  <2>1. CASE session'[w] = [s EXCEPT !.pc = "join_insert", !.row = NoRow]
    <3>1. session'[w].pc = "join_insert" /\ session'[w].ride = s.ride /\ session'[w].user = s.user
      BY <1>0, <2>1 DEF Sessions
    <3>2. ~Involved(s.user, s.ride)
      <4>1. Idle.pc = "idle"
        BY DEF Idle
      <4> QED
        BY <1>8, <1>b, <3>1, <4>1 DEF JoinCheck
    <3>3. ~Full(rides[s.ride]) /\ rides' = rides /\ requests' = requests /\ matches' = matches
      BY <1>0, <1>8 DEF JoinCheck, At, SnapshotOK
    <3>4. ~Involved(s.user, s.ride)'
      <4>1. PICK u, r : u = s.user /\ r = s.ride
        OBVIOUS
      <4>2. session'[w].user = u /\ session'[w].ride = r /\ ~Involved(u, r)'
        BY <3>1, <3>2, <3>3, <4>1 DEF Involved
      <4> QED
        BY <4>2
    <3> QED
      BY <3>1, <3>3, <3>4 DEF SnapshotOK
  <2> QED
    BY <1>1, <1>8, <1>a, <1>b, <2>1 DEF JoinCheck
<1>9. CASE AcceptLockRide(w)
  <2> DEFINE others == IF LastSeat(s.row) THEN PendingOn(s.ride) \ {s.request} ELSE {}
  <2>1. CASE session'[w] = [s EXCEPT !.pc = "accept_commit", !.others = others]
    <3>1. /\ session'[w].pc = "accept_commit" /\ session'[w].ride = s.ride
          /\ session'[w].request = s.request /\ session'[w].row = s.row
          /\ session'[w].others = others
      BY <1>0, <2>1 DEF Sessions
    <3>2. ~Full(s.row)
      <4>1. Idle.pc = "idle"
        BY DEF Idle
      <4> QED
        BY <1>9, <1>b, <3>1, <4>1 DEF AcceptLockRide
    <3>3. /\ s.row.cur = rides[s.ride].cur /\ s.row.max = rides[s.ride].max
          /\ rides' = rides /\ requests' = requests
      BY <1>0, <1>9 DEF AcceptLockRide, At, SnapshotOK
    <3>4. \A r : PendingOn(r)' = PendingOn(r)
      BY <3>3 DEF PendingOn
    <3> QED
      BY <3>1, <3>2, <3>3, <3>4 DEF SnapshotOK
  <2> QED
    BY <1>1, <1>9, <1>a, <1>b, <2>1 DEF AcceptLockRide
<1>10. CASE AcceptCommit(w)
  BY <1>10, <1>a, <1>c DEF AcceptCommit, Announce, Idle
<1> QED
  BY <1>0, <1>1, <1>2, <1>3, <1>4, <1>5, <1>6, <1>7, <1>8, <1>9, <1>10, <1>11, <1>12,
     SessionSteps DEF Begins

\* Empty tables and idle sessions satisfy the invariant.
LEMMA SInvInit == Init => SInv
<1> SUFFICES ASSUME Init PROVE SInv
  OBVIOUS
<1>1. \A r \in Rides : /\ Seats(r) = {} /\ PendingOn(r) = {} /\ rides[r].cur = 0
  BY UsersAssumption DEF Init, Seats, PendingOn, NoRow, NoRequestRow
<1>2. SeatAccounting
  BY <1>1, FS_EmptySet DEF SeatAccounting
<1>3. NoOverbooking /\ FullRideHasNoPending
  BY <1>1 DEF NoOverbooking, FullRideHasNoPending
<1>4. EmptyRows /\ RequestsHaveRides /\ ClaimsUnique
  BY DEF Init, EmptyRows, RequestsHaveRides, ClaimsUnique, HasClaim, NoRequestRow
<1>5. \A w \in Workers : SnapshotOK(session[w])
  BY DEF Init, SnapshotOK, Idle
<1> QED
  BY <1>2, <1>3, <1>4, <1>5 DEF SInv, TablesOK

\* Every step keeps it: the steps on seats one by one, the rest because they are quiet.
LEMMA SInvStep ==
  ASSUME SoleWorker, IInv, SInv, [Next]_vars
  PROVE  SInv'
<1>1. TablesOK /\ \A w \in Workers : SnapshotOK(session[w])
  BY DEF SInv
<1>2. CASE Quiet
  BY <1>1, <1>2, QuietKeeps, OwnSnapshot DEF SInv
<1>3. ASSUME NEW w \in Workers, SeatSteps(w)
      PROVE  SInv'
  <2>1. TablesOK'
    BY <1>1, <1>3, CreatePingKeeps, DeleteCommitKeeps, JoinInsertKeeps, DeclineKeeps, AcceptKeeps,
       RideMovesKeep, CancelKeeps DEF SeatSteps
  <2>2. SnapshotOK(session[w])'
    <3>1. CASE \/ DeleteCommit(w) \/ StartWrite(w) \/ CompleteWrite(w) \/ MatchCancelWrite(w)
      <4>1. session'[w].pc = "idle"
        BY <3>1 DEF IInv, TypeOK, DeleteCommit, StartWrite, CompleteWrite, MatchCancelWrite,
           Finish, Idle
      <4> QED
        BY <4>1 DEF SnapshotOK
    <3>2. ASSUME NEW kind, NEW q, Announce(w, kind, q) PROVE SnapshotOK(session[w])'
      <4>1. session'[w].pc = "notify"
        BY <3>2 DEF IInv, TypeOK, Announce, Continue, Idle
      <4> QED
        BY <4>1 DEF SnapshotOK
    <3>3. CASE session'[w] = session[w] /\ At(w, "idle")
      BY <3>3 DEF SnapshotOK, At
    <3> QED
      BY <1>3, <3>1, <3>2, <3>3 DEF SeatSteps, CreatePing, JoinInsert, Decline, AcceptCommit
  <2> QED
    BY <2>1, <2>2 DEF SInv, SoleWorker
<1> QED
  BY <1>2, <1>3, QuietSteps

\* With one worker the invariant holds in every reachable state.
LEMMA SInvInvariance == ASSUME SoleWorker PROVE Spec => [](IInv /\ SInv)
<1>1. IInv /\ SInv /\ [Next]_vars => IInv' /\ SInv'
  BY SInvStep, StepInvariant
<1> QED
  BY <1>1, SInvInit, InitInvariant, PTL DEF Spec

-----------------------------------------------------------------------------
\* What it gives

\* With one worker current_passengers is the number of matches that stand, whatever
\* the job and failures do in between.
THEOREM SeatsAccounted == ASSUME SoleWorker PROVE Spec => []SeatAccounting
<1>1. SInv => SeatAccounting
  BY DEF SInv, TablesOK
<1> QED
  BY <1>1, SInvInvariance, PTL

\* With one worker no ride is overbooked.
THEOREM NeverOverbooked == ASSUME SoleWorker PROVE Spec => []NoOverbooking
<1>1. SInv => NoOverbooking
  BY DEF SInv, TablesOK
<1> QED
  BY <1>1, SInvInvariance, PTL

\* With one worker nobody waits for a ride that is full.
THEOREM NobodyWaitsForFullRide == ASSUME SoleWorker PROVE Spec => []FullRideHasNoPending
<1>1. SInv => FullRideHasNoPending
  BY DEF SInv, TablesOK
<1> QED
  BY <1>1, SInvInvariance, PTL

\* With one worker a guest has one claim on a ride.
THEOREM OneClaim == ASSUME SoleWorker PROVE Spec => []OneClaimPerGuest
<1>1. SInv => OneClaimPerGuest
  <2> SUFFICES ASSUME SInv, NEW u \in Users, NEW r \in Rides
               PROVE  Cardinality(ClaimsOf(u, r)) <= 1
    BY DEF OneClaimPerGuest
  <2>1. \A p, q \in ClaimsOf(u, r) : p = q
    BY DEF SInv, TablesOK, ClaimsUnique, ClaimsOf, HasClaim, SameSeat
  <2>2. CASE ClaimsOf(u, r) = {}
    BY <2>2, FS_EmptySet
  <2>3. ASSUME NEW q \in ClaimsOf(u, r) PROVE Cardinality(ClaimsOf(u, r)) <= 1
    <3>1. ClaimsOf(u, r) = {q}
      BY <2>1, <2>3
    <3>2. Cardinality({q}) = 1
      BY FS_Singleton
    <3> QED
      BY <3>1, <3>2
  <2> QED
    BY <2>2, <2>3
<1> QED
  BY <1>1, SInvInvariance, PTL

-----------------------------------------------------------------------------
\* Joins

Joining(s) == s.pc \in {"join_check", "join_insert"}

\* What request_join has checked so far still holds.
JoinOK(s) ==
  /\ Joining(s) => /\ s.user \in Onboarded /\ rides[s.ride].host # s.user
                   /\ Admits(rides[s.ride].pref, Gender[s.user])
  /\ s.pc = "join_check" => s.row.host = rides[s.ride].host
  /\ s.pc = "join_insert" => ~Blocked(s.user, rides[s.ride].host)

JoinInv == \A w \in Workers : JoinOK(session[w])

\* While the only worker is in a join, nobody blocks and no ride changes its
\* host or its preference: the job and the clock are all that moves.
LEMMA JoinsUndisturbed ==
  ASSUME SoleWorker, IInv, [Next]_vars, NEW w \in Workers, Joining(session[w])
  PROVE  /\ blocked' = blocked
         /\ \A r \in Rides : rides'[r].host = rides[r].host /\ rides'[r].pref = rides[r].pref
<1>0. TypeOK /\ \A r \in Rides : rides[r] \in RideRows
  BY DEF IInv, TypeOK
<1>1. \A v \in Workers : session[v].pc \in {"join_check", "join_insert"}
  BY DEF SoleWorker, Joining
<1>2. ASSUME NEW v \in Workers PROVE ~Call(v)
  BY <1>1 DEF Call, PostPing, ChangePing, DeletePings, RequestCalls, MatchCalls, BlockCalls, At, CreatePing, UpdateRead, PingCancelRead, DeleteBegin, JoinRead,
     AcceptLockRequest, Decline, StartRead, CompleteRead, MatchCancelRead, Block
<1>3. ASSUME NEW v \in Workers, Proceed(v) \/ WorkerFails(v)
      PROVE  rides' = rides /\ blocked' = blocked
  BY <1>1, <1>3 DEF Proceed, At, UpdateWrite, PingCancelWrite, RideVanished, DeleteLock,
     DeleteCommit, DeleteRefused, JoinCheck, JoinInsert,
     AcceptLockRide, AcceptCommit, AcceptDuplicate, DeadlockVictim, Notify, StartWrite,
     CompleteWrite, MatchCancelWrite, WorkerFails
<1>4. CASE \/ \E v \in Workers : \/ JobSelect(v) \/ JobVanished(v) \/ JobVictim(v) \/ JobFails(v)
                                 \/ \E r \in Rides : JobLock(v, r)
           \/ UNCHANGED vars
  BY <1>4 DEF JobSelect, JobVanished, JobVictim, JobFails, JobEnds, JobLock, vars
<1>5. ASSUME NEW v \in Workers, JobCommit(v)
      PROVE  /\ blocked' = blocked
             /\ \A p \in Rides : rides'[p].host = rides[p].host /\ rides'[p].pref = rides[p].pref
  BY <1>0, <1>5 DEF JobCommit, RideRows
<1>6. ASSUME NEW r \in Rides, Tick(r)
      PROVE  /\ blocked' = blocked
             /\ \A p \in Rides : rides'[p].host = rides[p].host /\ rides'[p].pref = rides[p].pref
  BY <1>0, <1>6 DEF Tick, RideRows, TypeOK
<1> QED
  BY <1>2, <1>3, <1>4, <1>5, <1>6 DEF Next, JobProceeds

\* A join begins with the checks on the ride's row, goes on once the blocks were
\* looked up, and ends in any other step.
LEMMA JoinSteps ==
  ASSUME IInv, [Next]_vars, NEW w \in Workers, session'[w] # session[w], Joining(session'[w])
  PROVE  \/ \E u \in Users, r \in Rides : JoinRead(w, u, r)
         \/ JoinCheck(w)
<1>0. TypeOK
  BY DEF IInv
<1>1. ASSUME NEW v \in Workers, v # w, Call(v) \/ Proceed(v) \/ WorkerFails(v)
      PROVE  FALSE
  <2>1. session' = session \/ \E rec : session' = [session EXCEPT ![v] = rec]
    <3>1. CASE Call(v)
      BY <3>1 DEF Call, PostPing, ChangePing, DeletePings, RequestCalls, MatchCalls, BlockCalls, CreatePing, UpdateRead, PingCancelRead, DeleteBegin, JoinRead,
         AcceptLockRequest, Decline, StartRead, CompleteRead, MatchCancelRead, Block, Announce,
         Continue
    <3>2. CASE Proceed(v) \/ WorkerFails(v)
      BY <3>2 DEF Proceed, UpdateWrite, PingCancelWrite, RideVanished, DeleteLock,
         DeleteCommit, DeleteRefused, JoinCheck, JoinInsert,
         AcceptLockRide, AcceptCommit, AcceptDuplicate, DeadlockVictim, Notify, StartWrite,
         CompleteWrite, MatchCancelWrite, WorkerFails, Announce, Continue, Finish
    <3> QED
      BY <1>1, <3>1, <3>2
  <2> QED
    BY <1>0, <1>1, <2>1 DEF TypeOK
<1>2. ASSUME NEW rec, Continue(w, rec), rec.pc \notin {"join_check", "join_insert"}
      PROVE  FALSE
  BY <1>0, <1>2 DEF Continue, TypeOK, Joining
<1>3. ASSUME Finish(w) PROVE FALSE
  BY <1>0, <1>3 DEF Finish, Idle, TypeOK, Joining
<1>4. ASSUME NEW kind, NEW q, Announce(w, kind, q) PROVE FALSE
  BY <1>0, <1>2, <1>4 DEF Announce, Idle
<1>5. CASE Call(w)
  <2>1. ASSUME NEW r \in Rides, UpdateRead(w, r) \/ PingCancelRead(w, r) PROVE FALSE
    BY <1>2, <2>1 DEF UpdateRead, PingCancelRead, Idle
  <2>3. ASSUME NEW h \in Hosts, DeleteBegin(w, h) PROVE FALSE
    BY <1>2, <2>3 DEF DeleteBegin, Idle
  <2>2. ASSUME NEW q \in Requests,
               AcceptLockRequest(w, q) \/ StartRead(w, q) \/ CompleteRead(w, q) \/ MatchCancelRead(w, q)
        PROVE  FALSE
    BY <1>2, <2>2 DEF AcceptLockRequest, StartRead, CompleteRead, MatchCancelRead, Idle
  <2> QED
    BY <1>4, <1>5, <2>1, <2>2, <2>3 DEF Call, PostPing, ChangePing, DeletePings, RequestCalls, MatchCalls, BlockCalls, CreatePing, Decline, Block
<1>6. CASE Proceed(w)
  <2>1. ASSUME AcceptLockRide(w) PROVE FALSE
    <3>1. session[w] \in Sessions /\ At(w, "accept_ride")
      BY <1>0, <2>1 DEF TypeOK, AcceptLockRide
    <3>2. PICK others : Finish(w) \/ Continue(w, [session[w] EXCEPT !.pc = "accept_commit", !.others = others])
      BY <2>1 DEF AcceptLockRide
    <3> QED
      BY <1>2, <1>3, <3>1, <3>2 DEF Sessions
  <2>2. ASSUME DeleteLock(w) PROVE FALSE
    <3>1. session[w] \in Sessions /\ session[w].pc = "delete_rows"
      BY <1>0, <2>2 DEF TypeOK, DeleteLock, At
    <3>2. PICK held, r : \/ Continue(w, [Idle EXCEPT !.pc = "delete_commit", !.held = held])
                         \/ Continue(w, [session[w] EXCEPT !.ride = r, !.todo = @ \ {r}, !.held = held])
      BY <2>2 DEF DeleteLock
    <3>3. [session[w] EXCEPT !.ride = r, !.todo = @ \ {r}, !.held = held].pc = "delete_rows"
      BY <3>1 DEF Sessions
    <3>4. [Idle EXCEPT !.pc = "delete_commit", !.held = held].pc = "delete_commit"
      BY DEF Idle
    <3> QED
      BY <1>2, <3>2, <3>3, <3>4
  <2> QED
    BY <1>3, <1>4, <1>6, <2>1, <2>2 DEF Proceed, UpdateWrite, PingCancelWrite, RideVanished,
       DeleteCommit, DeleteRefused, JoinInsert,
       AcceptCommit, AcceptDuplicate, DeadlockVictim, Notify, StartWrite, CompleteWrite,
       MatchCancelWrite
<1>7. ~WorkerFails(w)
  BY <1>3 DEF WorkerFails
<1>8. session' = session => FALSE
  OBVIOUS
<1> QED
  BY <1>1, <1>5, <1>6, <1>7, <1>8 DEF Next, JobProceeds, JobSelect, JobCommit, JobVanished,
     JobVictim, JobLock, JobFails, JobEnds, Tick, vars

LEMMA JoinInvInit == Init => JoinInv
  BY DEF Init, JoinInv, JoinOK, Joining, Idle

\* A join keeps what it has checked and adds the next check to it.
LEMMA JoinInvStep ==
  ASSUME SoleWorker, IInv, JoinInv, [Next]_vars
  PROVE  JoinInv'
<1> SUFFICES ASSUME NEW w \in Workers PROVE JoinOK(session[w])'
  BY DEF JoinInv
<1> DEFINE s == session[w]
<1>0. TypeOK /\ JoinOK(s) /\ s \in Sessions
  BY DEF IInv, JoinInv, TypeOK
<1>1. CASE session'[w] = s
  <2>1. Joining(s) => s.ride \in Rides
    BY DEF IInv, SessionOK, Joining
  <2> QED
    BY <1>0, <1>1, <2>1, JoinsUndisturbed DEF JoinOK, Joining, Blocked
<1>2. CASE ~Joining(session'[w])
  BY <1>2 DEF JoinOK, Joining
<1>3. ASSUME NEW u \in Users, NEW r \in Rides, JoinRead(w, u, r)
      PROVE  JoinOK(session[w])'
  <2>1. session'[w] = [Idle EXCEPT !.pc = "join_check", !.ride = r, !.user = u, !.row = Loaded(r)]
    BY <1>0, <1>3 DEF JoinRead, Continue, TypeOK
  <2>2. Loaded(r).host = rides[r].host
    BY <1>0 DEF Loaded, TypeOK, RideRows
  <2> QED
    BY <1>3, <2>1, <2>2 DEF JoinRead, MayAsk, JoinOK, Joining, Idle
<1>4. CASE JoinCheck(w) /\ Joining(session'[w])
  <2>1. ~Finish(w)
    BY <1>0, <1>4 DEF Finish, Idle, TypeOK, Joining
  <2>2. /\ s.pc = "join_check" /\ ~Blocked(s.user, s.row.host)
        /\ session'[w] = [s EXCEPT !.pc = "join_insert", !.row = NoRow]
        /\ rides' = rides /\ blocked' = blocked
    BY <1>0, <1>4, <2>1 DEF JoinCheck, At, Continue, TypeOK
  <2>3. session'[w].pc = "join_insert" /\ session'[w].user = s.user /\ session'[w].ride = s.ride
    BY <1>0, <2>2 DEF Sessions
  <2> QED
    BY <1>0, <2>2, <2>3 DEF JoinOK, Joining, Blocked
<1> QED
  BY <1>1, <1>2, <1>3, <1>4, JoinSteps

\* With one worker every request inserted was admissible at that moment, however
\* late its checks were made: nobody else writes what they read.
THEOREM JoinsAdmitted == ASSUME SoleWorker PROVE Spec => JoinsAreAdmitted
<1>1. ASSUME IInv, SInv, JoinInv, [Next]_vars, NEW q \in Requests,
             requests[q].status = "none", requests'[q].status = "pending"
      PROVE  LET row == rides[requests'[q].ride]  guest == requests'[q].guest IN
             /\ guest \in Onboarded \ {row.host}
             /\ <<row.host, guest>> \notin blocked /\ <<guest, row.host>> \notin blocked
             /\ row.pref \in {"female", "female_only"} => Gender[guest] = "female"
             /\ row.pref \in {"male", "male_only"} => Gender[guest] = "male"
             /\ row.cur < row.max
  <2>0. TypeOK /\ requests[q] \in RequestRows
    BY <1>1 DEF IInv, TypeOK
  <2>1. PICK w \in Workers : SeatSteps(w)
    BY <1>1, QuietSteps DEF Quiet
  <2>2. PICK p \in Requests : JoinInsert(w, p)
    <3>1. ~AcceptCommit(w)
      BY <1>1, <2>0 DEF AcceptCommit, RequestRows
    <3>2. ASSUME NEW p \in Requests PROVE ~Decline(w, p)
      BY <1>1, <2>0 DEF Decline, TypeOK
    <3> QED
      BY <1>1, <2>1, <3>1, <3>2 DEF SeatSteps, CreatePing, DeleteCommit, StartWrite, CompleteWrite,
         MatchCancelWrite
  <2> DEFINE s == session[w]
  <2>3. p = q /\ requests'[q].ride = s.ride /\ requests'[q].guest = s.user
    BY <1>1, <2>0, <2>2 DEF JoinInsert, TypeOK
  <2>4. JoinOK(s) /\ SnapshotOK(s) /\ s.pc = "join_insert" /\ s.ride \in Rides
    BY <1>1, <2>2 DEF JoinInsert, At, JoinInv, SInv, IInv, SessionOK
  <2>5. rides[s.ride].cur \in Int /\ rides[s.ride].max \in Int
    BY <2>0, <2>4 DEF TypeOK, RideRows
  <2>6. rides[s.ride].cur < rides[s.ride].max
    BY <2>4, <2>5 DEF SnapshotOK, Full
  <2> QED
    BY <2>3, <2>4, <2>6 DEF JoinOK, Joining, Admits, Blocked
<1>2. IInv /\ SInv /\ JoinInv /\ [Next]_vars =>
        [\A q \in Requests : requests[q].status = "none" /\ requests'[q].status = "pending" =>
           LET row == rides[requests'[q].ride]  guest == requests'[q].guest IN
           /\ guest \in Onboarded \ {row.host}
           /\ <<row.host, guest>> \notin blocked /\ <<guest, row.host>> \notin blocked
           /\ row.pref \in {"female", "female_only"} => Gender[guest] = "female"
           /\ row.pref \in {"male", "male_only"} => Gender[guest] = "male"
           /\ row.cur < row.max]_vars
  BY <1>1
<1>3. IInv /\ SInv /\ JoinInv /\ [Next]_vars => JoinInv'
  BY JoinInvStep
<1> QED
  BY <1>2, <1>3, JoinInvInit, SInvInvariance, PTL DEF Spec, JoinsAreAdmitted

-----------------------------------------------------------------------------
\* Matches

\* What is written to a match is what the transition table allows from the status
\* it has then: the status that start, complete and cancel have tested.
LEMMA StepFollowsTable ==
  ASSUME IInv, SInv, [Next]_vars, NEW q \in Requests, matches'[q] # matches[q]
  PROVE  matches'[q] \in IF matches[q] = "none" THEN {"matched"} ELSE MatchTransitions(matches[q])
<1>0. TypeOK /\ AcceptedIffMatched
  BY DEF IInv
<1>1. PICK w \in Workers : SeatSteps(w)
  BY QuietSteps DEF Quiet
<1> DEFINE s == session[w]
<1>2. SessionOK(s) /\ SnapshotOK(s)
  BY DEF IInv, SInv
<1>3. CASE AcceptCommit(w)
  <2>1. s.request \in Requests /\ matches[s.request] = "none"
    BY <1>0, <1>2, <1>3 DEF AcceptCommit, At, SessionOK, AcceptedIffMatched
  <2> QED
    BY <1>0, <1>3, <2>1 DEF AcceptCommit, TypeOK
<1>4. CASE StartWrite(w)
  <2>1. matches[s.request] = "matched" /\ matches' = [matches EXCEPT ![s.request] = "in_progress"]
    BY <1>2, <1>4 DEF StartWrite, At, SnapshotOK
  <2> QED
    BY <1>0, <2>1 DEF MatchTransitions, TypeOK
<1>5. CASE CompleteWrite(w)
  <2>1. /\ matches[s.request] \in {"in_progress", "disputed"}
        /\ matches' = [matches EXCEPT ![s.request] = "completed"]
    BY <1>2, <1>5 DEF CompleteWrite, At, SnapshotOK
  <2> QED
    BY <1>0, <2>1 DEF MatchTransitions, TypeOK
<1>6. CASE MatchCancelWrite(w)
  <2>1. matches[s.request] = "matched" /\ matches' = [matches EXCEPT ![s.request] = "cancelled"]
    BY <1>2, <1>6 DEF MatchCancelWrite, At, SnapshotOK
  <2> QED
    BY <1>0, <2>1 DEF MatchTransitions, TypeOK
<1> QED
  BY <1>1, <1>3, <1>4, <1>5, <1>6 DEF SeatSteps, CreatePing, DeleteCommit, JoinInsert, Decline

\* With one worker every change of a match is one of the transition table: a match
\* that is completed or cancelled stays so.
THEOREM TableFollowed == ASSUME SoleWorker PROVE Spec => MatchesFollowTable
<1>1. IInv /\ SInv /\ [Next]_vars =>
        [\A q \in Requests : matches'[q] # matches[q] =>
           matches'[q] \in IF matches[q] = "none" THEN {"matched"}
                           ELSE MatchTransitions(matches[q])]_vars
  BY StepFollowsTable
<1> QED
  BY <1>1, SInvInvariance, PTL DEF Spec, MatchesFollowTable
=============================================================================
