\* Two server processes and the scheduler, as in the code: no route cancels a
\* match.  A guest's two calls at once make two requests, enough for two accepts
\* of one ride to deadlock.
\* Calls may stop at any time, so a state without a successor is no error.
SPECIFICATION FairSpec
CONSTANTS
  h = h  g1 = g1  g2 = g2  g3 = g3
  Users = {h, g1}
  Onboarded = {h, g1}
  Gender <- AllMale
  Hosts = {h}
  Rides = {r1}
  Key <- RideKeys
  Requests = {q1, q2}
  Workers = {w1, w2}
  NoUser = NoUser  NoRide = NoRide  NoRequest = NoRequest
  Capacities = {1}
  Preferences = {"any"}
  PatchStatuses = {}
  CancelRouted = FALSE
  MaxBlocks = 0
  MaxFailures = 0
INVARIANTS
  OnlyKnownDeadlocks
PROPERTIES
  RequestSettledOnce
  HandlersFinish
CHECK_DEADLOCK FALSE
