\* Two server processes: two accepts of one ride with two seats, then a third.
\* Calls may stop at any time, so a state without a successor is no error.
SPECIFICATION Spec
CONSTANTS
  h = h  g1 = g1  g2 = g2  g3 = g3
  Users = {h, g1, g2, g3}
  Onboarded = {h, g1, g2, g3}
  Gender <- AllMale
  Hosts = {h}
  Rides = {r1}
  Key <- RideKeys
  Requests = {q1, q2, q3}
  Workers = {w1, w2}
  NoUser = NoUser  NoRide = NoRide  NoRequest = NoRequest
  Capacities = {2}
  Preferences = {"any"}
  PatchStatuses = {}
  CancelRouted = FALSE
  MaxBlocks = 0
  MaxFailures = 0
SYMMETRY FullSymmetry
INVARIANTS
  NoOverbooking
CHECK_DEADLOCK FALSE
