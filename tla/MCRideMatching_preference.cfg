\* One server process: the host changes the preference before accepting.
\* Calls may stop at any time, so a state without a successor is no error.
SPECIFICATION Spec
CONSTANTS
  h = h  g1 = g1  g2 = g2  g3 = g3
  Users = {h, g1, g2}
  Onboarded = {h, g1, g2}
  Gender <- OneFemale
  Hosts = {h}
  Rides = {r1}
  Key <- RideKeys
  Requests = {q1, q2}
  Workers = {w1}
  NoUser = NoUser  NoRide = NoRide  NoRequest = NoRequest
  Capacities = {1}
  Preferences = {"any", "male_only"}
  PatchStatuses = {}
  CancelRouted = FALSE
  MaxBlocks = 0
  MaxFailures = 0
PROPERTIES
  PreferenceEnforced
CHECK_DEADLOCK FALSE
