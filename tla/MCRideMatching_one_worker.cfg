\* One server process and the scheduler: the documented deployment, with the
\* cancel_match that the README lists.  Three guests and four requests contend
\* for the seats of one ride, and a ride may have no seat.
\* Calls may stop at any time, so a state without a successor is no error.
SPECIFICATION Spec
CONSTANTS
  h = h  g1 = g1  g2 = g2  g3 = g3
  Users = {h, g1, g2, g3}
  Onboarded = {h, g1, g2, g3}
  Gender <- AllMale
  Hosts = {h}
  Rides = {r1}
  Key <- RideKeys
  Requests = {q1, q2, q3, q4}
  Workers = {w1}
  NoUser = NoUser  NoRide = NoRide  NoRequest = NoRequest
  Capacities = {0, 2}
  Preferences = {"any"}
  PatchStatuses = {"expired"}
  CancelRouted = TRUE
  MaxBlocks = 0
  MaxFailures = 1
SYMMETRY FullSymmetry
INVARIANTS
  TypeOK
  SeatAccounting
  NoOverbooking
  FullRideHasNoPending
  OneClaimPerGuest
  ListsAgree
  NoticesAreTrue
  AcceptedIffMatched
PROPERTIES
  ImplementsBooking
  MatchesFollowTable
CHECK_DEADLOCK FALSE
