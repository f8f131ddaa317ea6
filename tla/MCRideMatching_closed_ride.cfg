\* One server process: the scheduler expires a ride between the two locks of accept_request.
\* Calls may stop at any time, so a state without a successor is no error.
SPECIFICATION Spec
CONSTANTS
  h = h  g1 = g1  g2 = g2  g3 = g3
  Users = {h, g1}
  Onboarded = {h, g1}
  Gender <- AllMale
  Hosts = {h}
  Rides = {r1}
  Key <- RideKeys
  Requests = {q1, q2}
  Workers = {w1}
  NoUser = NoUser  NoRide = NoRide  NoRequest = NoRequest
  Capacities = {1}
  Preferences = {"any"}
  PatchStatuses = {}
  CancelRouted = FALSE
  MaxBlocks = 0
  MaxFailures = 0
PROPERTIES
  AcceptsOpenRide
CHECK_DEADLOCK FALSE
