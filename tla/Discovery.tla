------------------------------ MODULE Discovery ------------------------------
(***************************************************************************)
(* The feeds a guest looks for a ride in: rides nearby                     *)
(* (PingService.get_nearby_pings) and rides that go the guest's way        *)
(* (PingService.find_rides), over the tables of RideMatching.  A feed is   *)
(* one SELECT.  Distances are abstracted: every ride is in reach, and the  *)
(* twenty nearest are all of them.  And the two lists of a ride: those who *)
(* wait, for its host, and the passengers, for its host and themselves.    *)
(***************************************************************************)
EXTENDS RideMatching

\* The filters the two feeds share.
ListedOneWay(u, r) ==
  LET row == rides[r] IN
  /\ row.status = "open" /\ row.host # u /\ <<u, row.host>> \notin blocked
  /\ row.due = "before" /\ row.cur < row.max
Listed(u, r) ==
  LET row == rides[r] IN
  /\ row.status = "open" /\ row.host # u /\ ~Blocked(u, row.host)
  /\ row.due = "before" /\ row.cur < row.max

\* get_nearby_pings filters by the gender the client sends, any string at all.
NearbyPings(u, gender) ==
  {r \in Rides : Listed(u, r) /\
     CASE gender \in {"male", "female"} -> rides[r].pref \in {"any", gender}
       [] gender \in {"none", "any"}    -> TRUE
       [] OTHER                         -> rides[r].pref = gender}

\* find_rides filters by the gender of the profile, male and female only.
FindRidesExact(u) ==
  {r \in Rides : Listed(u, r) /\
     (Gender[u] \in {"male", "female"} => rides[r].pref = Gender[u])}
FindRides(u) ==
  {r \in Rides : Listed(u, r) /\
     (Gender[u] \in {"male", "female"} => rides[r].pref \in {"any", Gender[u]})}

\* get_pending_requests_for_ride: for the host only.
PendingRequests(u, r) == IF RideExists(r) /\ rides[r].host = u THEN PendingOn(r) ELSE {}

\* get_ride_passengers: for the host and for the passengers themselves.
PassengersAboard(r) ==
  {q \in Requests : requests[q].ride = r /\ matches[q] \in {"matched", "in_progress"}}
Passengers(r) ==
  {q \in Requests : requests[q].ride = r /\ matches[q] \in {"matched", "in_progress", "completed"}}

MaySeePassengers(u, r) ==
  RideExists(r) /\ (rides[r].host = u \/ \E q \in Passengers(r) : requests[q].guest = u)

-----------------------------------------------------------------------------
\* Properties

\* The feeds and request_join are written apart, with filters of their own, and
\* agree: a man or a woman with a complete profile who is shown a ride may ask
\* for it, and no block is in the way.
ShownRidesAdmit ==
  \A u \in Onboarded : Gender[u] \in {"male", "female"} =>
    \A r \in FindRides(u) \cup NearbyPings(u, Gender[u]) :
      MayAsk(u, r) /\ ~Blocked(u, rides[r].host)

\* A guest misses no ride in either feed that request_join would take them on,
\* unless the ride is at its expiry or its preference is spelled male_only or
\* female_only, which the feeds never match.
AdmittingRidesAreShown ==
  \A u \in Onboarded, r \in Rides :
    /\ Gender[u] \in {"male", "female"} /\ MayAsk(u, r) /\ ~Blocked(u, rides[r].host)
    /\ rides[r].due = "before" /\ rides[r].pref \in {"any", "male", "female"}
    => r \in FindRides(u) \cap NearbyPings(u, Gender[u])

\* A ride's row and its two lists are written and read apart and agree: the
\* passengers are as many as current_passengers, from which the free seats are
\* computed (README.md:329), and no guest whom the host sees waiting already
\* sees the passengers' names, unless they completed a match on the ride.
ListsAgree ==
  \A r \in Rides : RideExists(r) =>
    /\ Cardinality(Passengers(r)) = rides[r].cur
    /\ \A q \in PendingRequests(rides[r].host, r) :
         MaySeePassengers(requests[q].guest, r) =>
           \E p \in Requests : SameSeat(p, q) /\ matches[p] = "completed"
=============================================================================
