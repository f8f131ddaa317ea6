------------------------ MODULE RideBookingRefinement ------------------------
(***************************************************************************)
(* With one worker the handlers, the scheduler's job and their failures    *)
(* implement the ledger of RideBooking, for every set of users, rides and  *)
(* requests: create_ping offers seats, delete_expired_pings_for_host takes *)
(* them back, request_join asks, accept_request seats, decline_request,    *)
(* complete_ride and cancel_match move a claim, and all else stutters.     *)
(***************************************************************************)
EXTENDS RideBookingProofs

\* The claim that a request and its match stand for.
ClaimOf(q) == [state |-> BookingState(q), ride |-> requests[q].ride, guest |-> requests[q].guest]
SeatsOf    == [r \in Rides |-> rides[r].max]
ClaimsMap  == [q \in Requests |-> ClaimOf(q)]

\* The ledger's sets of claims, read off the tables.
LEMMA LedgerSets ==
  ASSUME IInv
  PROVE  \A r \in Rides :
           /\ Booking!Seated(r) = Seats(r)
           /\ Booking!Waiting(r) = PendingOn(r)
           /\ Booking!On(r, {"waiting", "seated"})
                = {q \in Requests : requests[q].ride = r /\ HasClaim(q)}
           /\ Booking!On(r, {"seated", "travelled", "released"})
                = {q \in Requests : requests[q].ride = r /\ matches[q] # "none"}
<1>1. \A q \in Requests :
        /\ matches[q] \in MatchStatuses \cup {"none"}
        /\ requests[q].status = "accepted" <=> matches[q] # "none"
  BY DEF IInv, TypeOK, AcceptedIffMatched
<1>2. \A q \in Requests :
        /\ BookingState(q) \in {"seated", "travelled"} <=> matches[q] \notin {"none", "cancelled"}
        /\ BookingState(q) = "waiting" <=> requests[q].status = "pending"
        /\ BookingState(q) \in {"waiting", "seated"} <=> HasClaim(q)
        /\ BookingState(q) \in {"seated", "travelled", "released"} <=> matches[q] # "none"
  BY <1>1 DEF BookingState, HasClaim, MatchStatuses
<1> QED
  BY <1>2 DEF Booking!Seated, Booking!Waiting, Booking!On, Seats, PendingOn

\* The ledger stutters when every ride keeps its seats and every claim its state.
LEMMA LedgerStutters ==
  ASSUME \A r \in Rides : rides'[r].max = rides[r].max,
         \A q \in Requests : ClaimOf(q)' = ClaimOf(q)
  PROVE  SeatsOf' = SeatsOf /\ ClaimsMap' = ClaimsMap
BY DEF SeatsOf, ClaimsMap

\* The ledger counts as the tables do.
LEMMA SameCount == \A S : Booking!Cardinality(S) = Cardinality(S)
BY DEF Booking!Cardinality, Cardinality

\* One claim moves.
LEMMA LedgerMoves ==
  ASSUME NEW q \in Requests, NEW from, NEW to, BookingState(q) = from, BookingState(q)' = to,
         \A r \in Rides : rides'[r].max = rides[r].max,
         \A p \in Requests : /\ requests'[p].ride = requests[p].ride
                             /\ requests'[p].guest = requests[p].guest
                             /\ p # q => BookingState(p)' = BookingState(p)
  PROVE  Booking!Move(q, from, to)
<1>1. SeatsOf' = SeatsOf
  BY DEF SeatsOf
<1>2. \A p \in Requests : ClaimOf(p)' = IF p = q THEN [ClaimOf(p) EXCEPT !.state = to] ELSE ClaimOf(p)
  BY DEF ClaimOf
<1>3. ClaimsMap' = [ClaimsMap EXCEPT ![q].state = to]
  BY <1>2 DEF ClaimsMap
<1>4. ClaimsMap[q].state = from
  BY DEF ClaimsMap, ClaimOf
<1> QED
  BY <1>1, <1>3, <1>4 DEF Booking!Move, SeatsOf, ClaimsMap, ClaimOf

\* Tables that begin empty are a ledger that begins empty.
LEMMA LedgerBegins == Init => Booking!Init
<1> SUFFICES ASSUME Init PROVE Booking!Init
  OBVIOUS
<1>1. \A q \in Requests : /\ BookingState(q) = "none"
                          /\ requests[q].ride = NoRide /\ requests[q].guest = NoUser
  BY DEF Init, BookingState, NoRequestRow
<1>2. \A r \in Rides : rides[r].max = 0
  BY DEF Init, NoRow
<1> QED
  BY <1>1, <1>2 DEF Booking!Init, Booking!NoClaim
-----------------------------------------------------------------------------
\* The steps of handlers that the ledger sees

\* A new ride offers its seats: nobody can have asked for it.
LEMMA CreatePingOffers ==
  ASSUME IInv, TablesOK, NEW w \in Workers, NEW u \in Hosts, NEW r \in Rides,
         NEW max \in Capacities, NEW pref \in Preferences, NEW due \in Phases,
         CreatePing(w, u, r, max, pref, due)
  PROVE  Booking!Offer(r, max)
<1>1. /\ requests' = requests /\ matches' = matches /\ rides[r].status = "none"
      /\ rides' = [rides EXCEPT ![r] = NewPing(u, max, pref, due)]
  BY DEF CreatePing
<1>2. \A q \in Requests : requests[q].ride # r
  BY <1>1, SeatFacts DEF RideExists
<1>3. SeatsOf' = [SeatsOf EXCEPT ![r] = max]
  BY <1>1 DEF SeatsOf, NewPing, IInv, TypeOK
<1>4. ClaimsMap' = ClaimsMap
  BY <1>1 DEF ClaimsMap, ClaimOf, BookingState
<1> QED
  BY <1>2, <1>3, <1>4 DEF Booking!Offer, SeatsOf, ClaimsMap, ClaimOf

\* Deleted rides were asked for by nobody: their seats are withdrawn.
LEMMA DeleteCommitWithdraws ==
  ASSUME IInv, NEW w \in Workers, DeleteCommit(w)
  PROVE  \E rs \in SUBSET Rides : Booking!Withdraw(rs)
<1>0. PICK gone : gone = session[w].held
  OBVIOUS
<1>1. /\ requests' = requests /\ matches' = matches
      /\ \A q \in Requests : requests[q].ride \notin gone
      /\ rides' = [r \in Rides |-> IF r \in gone THEN [NoRow EXCEPT !.status = "deleted"]
                                                 ELSE rides[r]]
      /\ gone \in SUBSET Rides
  BY <1>0 DEF DeleteCommit, IInv, TypeOK, Sessions
<1>2. SeatsOf' = [r \in Rides |-> IF r \in gone THEN 0 ELSE SeatsOf[r]]
  BY <1>1 DEF SeatsOf, NoRow
<1>3. ClaimsMap' = ClaimsMap
  BY <1>1 DEF ClaimsMap, ClaimOf, BookingState
<1>4. Booking!Withdraw(gone)
  BY <1>1, <1>2, <1>3 DEF Booking!Withdraw, SeatsOf, ClaimsMap, ClaimOf
<1> QED
  BY <1>1, <1>4

\* A join asks for a seat of a ride that has one, for a guest without a claim on it.
LEMMA JoinInsertAsks ==
  ASSUME IInv, SInv, NEW w \in Workers, NEW q \in Requests, JoinInsert(w, q)
  PROVE  \E u \in Users, r \in Rides : Booking!Ask(q, u, r)
<1>0. PICK u, r : u = session[w].user /\ r = session[w].ride
  OBVIOUS
<1>1. /\ requests[q].status = "none" /\ matches' = matches /\ rides' = rides
      /\ requests' = [requests EXCEPT ![q] = [status |-> "pending", ride |-> r, guest |-> u]]
      /\ session[w].pc = "join_insert"
  BY <1>0 DEF JoinInsert, At
<1>2. /\ ~Full(rides[r]) /\ ~Involved(u, r) /\ u \in Users /\ r \in Rides
      /\ requests[q] = NoRequestRow /\ matches[q] = "none"
  BY <1>0, <1>1 DEF SInv, SnapshotOK, IInv, SessionOK, RowsLinked, TablesOK, EmptyRows
<1>3. ClaimsMap[q] = Booking!NoClaim
  BY <1>2 DEF ClaimsMap, ClaimOf, BookingState, NoRequestRow, Booking!NoClaim
<1>4. Cardinality(Booking!Seated(r)) < SeatsOf[r]
  <2>1. rides[r].cur = Cardinality(Seats(r)) /\ rides[r] \in RideRows
    BY <1>2 DEF SInv, TablesOK, SeatAccounting, IInv, TypeOK
  <2> QED
    BY <1>2, <2>1, LedgerSets DEF SeatsOf, Full, RideRows
<1>5. \A d \in Booking!On(r, {"waiting", "seated"}) : ClaimsMap[d].guest # u
  BY <1>2, LedgerSets DEF ClaimsMap, ClaimOf, Involved, HasClaim
<1>6. ClaimsMap' = [ClaimsMap EXCEPT ![q] = [state |-> "waiting", ride |-> r, guest |-> u]]
  <2>1. \A p \in Requests : p # q => requests'[p] = requests[p]
    BY <1>1 DEF IInv, TypeOK
  <2>2. requests'[q] = [status |-> "pending", ride |-> r, guest |-> u]
    BY <1>1 DEF IInv, TypeOK
  <2>3. ClaimOf(q)' = [state |-> "waiting", ride |-> r, guest |-> u]
    BY <1>1, <1>2, <2>2 DEF ClaimOf, BookingState
  <2>4. \A p \in Requests : p # q => ClaimOf(p)' = ClaimOf(p)
    BY <1>1, <2>1 DEF ClaimOf, BookingState
  <2> QED
    BY <2>3, <2>4 DEF ClaimsMap
<1>7. SeatsOf' = SeatsOf
  BY <1>1 DEF SeatsOf
<1>8. Booking!Ask(q, u, r)
  BY <1>3, <1>4, <1>5, <1>6, <1>7, SameCount DEF Booking!Ask, SeatsOf, ClaimsMap, ClaimOf
<1> QED
  BY <1>2, <1>8

\* An accept seats a guest who waits on a ride with a seat; the last seat turns
\* away everybody else who waits.
LEMMA AcceptSeats ==
  ASSUME IInv, SInv, NEW w \in Workers, AcceptCommit(w)
  PROVE  \E c \in Requests : Booking!Seat(c)
<1>0. PICK s, a, r : s = session[w] /\ a = s.request /\ r = s.ride
  OBVIOUS
<1>1. /\ a \in Requests /\ r \in Rides /\ requests[a].status = "pending" /\ requests[a].ride = r
      /\ s.row.cur = rides[r].cur /\ s.row.max = rides[r].max /\ ~Full(s.row)
      /\ s.others = IF LastSeat(s.row) THEN PendingOn(r) \ {a} ELSE {}
      /\ ~SeatTaken(a)
  BY <1>0 DEF AcceptCommit, At, IInv, SessionOK, SInv, SnapshotOK
<1>2. /\ matches' = [matches EXCEPT ![a] = "matched"]
      /\ requests' = [q \in Requests |->
            IF q = a THEN [requests[q] EXCEPT !.status = "accepted"]
            ELSE IF q \in s.others THEN [requests[q] EXCEPT !.status = "declined"]
            ELSE requests[q]]
      /\ rides' = [rides EXCEPT ![r].cur = s.row.cur + 1,
                                ![r].status = IF LastSeat(s.row) THEN "matched" ELSE @]
  BY <1>0 DEF AcceptCommit
<1>3. TablesOK /\ TypeOK /\ rides[r] \in RideRows
  BY <1>1 DEF SInv, IInv, TypeOK
<1>4. \A q \in Requests :
        /\ requests'[q].ride = requests[q].ride /\ requests'[q].guest = requests[q].guest
        /\ requests'[q].status = IF q = a THEN "accepted"
                                 ELSE IF q \in s.others THEN "declined" ELSE requests[q].status
        /\ matches'[q] = IF q = a THEN "matched" ELSE matches[q]
        /\ requests[q].status = "pending" => matches[q] = "none"
  BY <1>2, <1>3 DEF TypeOK, RequestRows, IInv, AcceptedIffMatched
<1>5. SeatsOf' = SeatsOf
  BY <1>1, <1>2, <1>3 DEF SeatsOf, TypeOK, RideRows
<1>s. Booking!Cardinality(Booking!Seated(r)) = Cardinality(Seats(r))
  <2>1. Booking!Seated(r) = Seats(r)
    BY <1>1, LedgerSets
  <2> QED
    BY <2>1, SameCount
<1>n. PICK n : n = Cardinality(Seats(r))
  OBVIOUS
<1>6. n = Cardinality(Seats(r)) /\ Booking!Cardinality(Booking!Seated(r)) = n
  BY <1>s, <1>n
<1>7. /\ n = rides[r].cur /\ n \in Nat /\ n < rides[r].max
      /\ LastSeat(s.row) <=> n + 1 = rides[r].max
  BY <1>1, <1>3, <1>6 DEF TablesOK, SeatAccounting, Full, LastSeat, RideRows
<1>8. \A d \in Booking!On(r, {"seated", "travelled", "released"}) :
        ClaimsMap[d].guest # ClaimsMap[a].guest
  BY <1>1, LedgerSets DEF ClaimsMap, ClaimOf, SeatTaken, SameSeat
<1>9. ClaimsMap[a].state = "waiting" /\ ClaimsMap[a].ride = r
  BY <1>1, <1>4 DEF ClaimsMap, ClaimOf, BookingState
<1>10. ClaimsMap' = [d \in Requests |->
         IF d = a THEN [ClaimsMap[d] EXCEPT !.state = "seated"]
         ELSE IF n + 1 = SeatsOf[r] /\ d \in Booking!Waiting(r)
              THEN [ClaimsMap[d] EXCEPT !.state = "away"]
         ELSE ClaimsMap[d]]
  <2>1. ClaimOf(a)' = [ClaimOf(a) EXCEPT !.state = "seated"]
    BY <1>1, <1>4 DEF ClaimOf, BookingState
  <2>2. ASSUME NEW d \in Requests, d \in s.others
        PROVE  ClaimOf(d)' = [ClaimOf(d) EXCEPT !.state = "away"] /\ d # a
    BY <1>1, <1>4, <2>2 DEF ClaimOf, BookingState, PendingOn
  <2>3. ASSUME NEW d \in Requests, d \notin s.others, d # a
        PROVE  ClaimOf(d)' = ClaimOf(d)
    BY <1>4, <2>3 DEF ClaimOf, BookingState
  <2>4. \A d \in Requests : d # a =>
          (d \in s.others <=> n + 1 = SeatsOf[r] /\ d \in Booking!Waiting(r))
    BY <1>1, <1>7, LedgerSets DEF SeatsOf
  <2> QED
    BY <2>1, <2>2, <2>3, <2>4 DEF ClaimsMap
<1>11. Booking!Seat(a)
  <2>1. Booking!Seat(a) <=>
          LET last == Booking!Cardinality(Booking!Seated(ClaimsMap[a].ride)) + 1
                        = SeatsOf[ClaimsMap[a].ride]
          IN  /\ ClaimsMap[a].state = "waiting"
              /\ Booking!Cardinality(Booking!Seated(ClaimsMap[a].ride)) < SeatsOf[ClaimsMap[a].ride]
              /\ \A d \in Booking!On(ClaimsMap[a].ride, {"seated", "travelled", "released"}) :
                   ClaimsMap[d].guest # ClaimsMap[a].guest
              /\ ClaimsMap' = [d \in Requests |->
                   IF d = a THEN [ClaimsMap[d] EXCEPT !.state = "seated"]
                   ELSE IF last /\ d \in Booking!Waiting(ClaimsMap[a].ride)
                        THEN [ClaimsMap[d] EXCEPT !.state = "away"]
                   ELSE ClaimsMap[d]]
              /\ UNCHANGED SeatsOf
    BY DEF Booking!Seat, SeatsOf, ClaimsMap, ClaimOf
  <2>2. SeatsOf[r] = rides[r].max
    BY <1>1 DEF SeatsOf
  <2> QED
    BY <1>5, <1>6, <1>7, <1>8, <1>9, <1>10, <2>1, <2>2
<1> QED
  BY <1>1, <1>11

\* A decline turns a waiting guest away.
LEMMA DeclineTurnsAway ==
  ASSUME IInv, NEW w \in Workers, NEW q \in Requests, Decline(w, q)
  PROVE  Booking!Move(q, "waiting", "away")
<1>1. /\ matches' = matches /\ rides' = rides /\ requests[q].status = "pending"
      /\ requests' = [requests EXCEPT ![q].status = "declined"] /\ matches[q] = "none"
  BY DEF Decline, IInv, AcceptedIffMatched
<1>2. \A p \in Requests :
        /\ requests'[p].ride = requests[p].ride /\ requests'[p].guest = requests[p].guest
        /\ p # q => requests'[p] = requests[p]
        /\ requests'[q].status = "declined"
  BY <1>1 DEF IInv, TypeOK, RequestRows
<1>3. BookingState(q) = "waiting" /\ BookingState(q)' = "away"
  BY <1>1, <1>2 DEF BookingState
<1>4. \A p \in Requests : p # q => BookingState(p)' = BookingState(p)
  BY <1>1, <1>2 DEF BookingState
<1> QED
  BY <1>1, <1>2, <1>3, <1>4, LedgerMoves

\* A write of the match changes the state of one claim, or of none.
LEMMA MatchWrite ==
  ASSUME IInv, NEW q \in Requests, NEW to, BookingState(q) = "seated",
         requests' = requests, matches' = [matches EXCEPT ![q] = to],
         \A r \in Rides : rides'[r].max = rides[r].max
  PROVE  /\ to = "in_progress" => SeatsOf' = SeatsOf /\ ClaimsMap' = ClaimsMap
         /\ to = "completed" => Booking!Move(q, "seated", "travelled")
         /\ to = "cancelled" => Booking!Move(q, "seated", "released")
<1>1. \A p \in Requests : matches'[p] = IF p = q THEN to ELSE matches[p]
  BY DEF IInv, TypeOK
<1>2. \A p \in Requests : p # q => BookingState(p)' = BookingState(p)
  BY <1>1 DEF BookingState
<1>3. /\ to = "in_progress" => BookingState(q)' = "seated"
      /\ to = "completed" => BookingState(q)' = "travelled"
      /\ to = "cancelled" => BookingState(q)' = "released"
  BY <1>1 DEF BookingState
<1>4. to = "in_progress" => SeatsOf' = SeatsOf /\ ClaimsMap' = ClaimsMap
  BY <1>2, <1>3 DEF SeatsOf, ClaimsMap, ClaimOf
<1> QED
  BY <1>2, <1>3, <1>4, LedgerMoves

-----------------------------------------------------------------------------
\* The refinement

\* A step that touches no seat is no step of the ledger.
LEMMA QuietStutters ==
  ASSUME Quiet
  PROVE  SeatsOf' = SeatsOf /\ ClaimsMap' = ClaimsMap
BY LedgerStutters DEF Quiet, ClaimOf, BookingState

\* start_ride changes no claim, complete_ride and cancel_match move one.
LEMMA MatchWritesMove ==
  ASSUME IInv, SInv, NEW w \in Workers, StartWrite(w) \/ CompleteWrite(w) \/ MatchCancelWrite(w)
  PROVE  \/ SeatsOf' = SeatsOf /\ ClaimsMap' = ClaimsMap
         \/ \E q \in Requests : \/ Booking!Move(q, "seated", "travelled")
                                \/ Booking!Move(q, "seated", "released")
<1>0. PICK q, r : q = session[w].request /\ r = session[w].ride
  OBVIOUS
<1>1. /\ q \in Requests /\ TypeOK /\ requests' = requests
      /\ \A p \in Rides : rides[p] \in RideRows
  BY <1>0 DEF StartWrite, CompleteWrite, MatchCancelWrite, At, IInv, SessionOK, TypeOK
<1>2. CASE StartWrite(w)
  <2>1. BookingState(q) = "seated"
    BY <1>0, <1>2 DEF StartWrite, At, SInv, SnapshotOK, BookingState
  <2> QED
    BY <1>0, <1>1, <1>2, <2>1, MatchWrite DEF StartWrite
<1>3. CASE CompleteWrite(w)
  <2>1. matches[q] \in {"in_progress", "disputed"} /\ rides' = rides
        /\ matches' = [matches EXCEPT ![q] = "completed"]
    BY <1>0, <1>3 DEF CompleteWrite, At, SInv, SnapshotOK
  <2>2. CASE matches[q] = "in_progress"
    <3>1. BookingState(q) = "seated"
      BY <2>2 DEF BookingState
    <3> QED
      BY <1>1, <2>1, <3>1, MatchWrite
  <2>3. CASE matches[q] = "disputed"
    <3>1. \A p \in Requests : matches'[p] = IF p = q THEN "completed" ELSE matches[p]
      BY <1>1, <2>1 DEF TypeOK
    <3>2. \A p \in Requests : BookingState(p)' = BookingState(p)
      BY <1>1, <2>3, <3>1 DEF BookingState
    <3> QED
      BY <1>1, <2>1, <3>2, LedgerStutters DEF ClaimOf
  <2> QED
    BY <2>1, <2>2, <2>3
<1>4. CASE MatchCancelWrite(w)
  <2>1. BookingState(q) = "seated" /\ matches' = [matches EXCEPT ![q] = "cancelled"]
    BY <1>0, <1>4 DEF MatchCancelWrite, At, SInv, SnapshotOK, BookingState
  <2>2. \A p \in Rides : rides'[p].max = rides[p].max
    BY <1>0, <1>1, <1>4 DEF MatchCancelWrite, TypeOK, RideRows
  <2> QED
    BY <1>1, <2>1, <2>2, MatchWrite
<1> QED
  BY <1>2, <1>3, <1>4

\* Every step of the program is a step of the ledger or stutters.
LEMMA LedgerStep ==
  ASSUME IInv, SInv, [Next]_vars
  PROVE  Booking!Next \/ (SeatsOf' = SeatsOf /\ ClaimsMap' = ClaimsMap)
<1>1. CASE Quiet
  BY <1>1, QuietStutters
<1>2. ASSUME NEW w \in Workers, SeatSteps(w)
      PROVE  Booking!Next \/ (SeatsOf' = SeatsOf /\ ClaimsMap' = ClaimsMap)
  <2>1. ASSUME NEW u \in Hosts, NEW r \in Rides, NEW max \in Capacities,
               NEW pref \in Preferences, NEW due \in Phases, CreatePing(w, u, r, max, pref, due)
        PROVE  Booking!Next
    <3>1. Booking!Offer(r, max)
      BY <2>1, CreatePingOffers DEF SInv
    <3> QED
      BY <3>1 DEF Booking!Next
  <2>2. CASE DeleteCommit(w)
    BY <2>2, DeleteCommitWithdraws DEF Booking!Next
  <2>3. ASSUME NEW q \in Requests, JoinInsert(w, q) PROVE Booking!Next
    BY <2>3, JoinInsertAsks DEF Booking!Next
  <2>4. ASSUME NEW q \in Requests, Decline(w, q) PROVE Booking!Next
    BY <2>4, DeclineTurnsAway DEF Booking!Next
  <2>5. CASE AcceptCommit(w)
    BY <2>5, AcceptSeats DEF Booking!Next
  <2>6. CASE StartWrite(w) \/ CompleteWrite(w) \/ MatchCancelWrite(w)
    BY <2>6, MatchWritesMove DEF Booking!Next
  <2> QED
    BY <1>2, <2>1, <2>2, <2>3, <2>4, <2>5, <2>6 DEF SeatSteps
<1> QED
  BY <1>1, <1>2, QuietSteps

\* With one worker the matching core implements the seat ledger.
THEOREM BookingImplemented == ASSUME SoleWorker PROVE Spec => ImplementsBooking
<1>1. IInv /\ SInv /\ [Next]_vars => [Booking!Next]_<<SeatsOf, ClaimsMap>>
  BY LedgerStep
<1>2. [Booking!Next]_<<SeatsOf, ClaimsMap>>
        <=> [Booking!Next]_<<[r \in Rides |-> rides[r].max],
              [q \in Requests |-> [state |-> BookingState(q), ride |-> requests[q].ride,
                                   guest |-> requests[q].guest]]>>
  BY DEF SeatsOf, ClaimsMap, ClaimOf
<1> QED
  BY <1>1, <1>2, LedgerBegins, SInvInvariance, PTL DEF Spec, ImplementsBooking, Booking!Spec

=============================================================================
