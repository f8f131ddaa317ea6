\* One server process: who gets to ask.  One guest is a woman, one has an
\* incomplete profile, the host asks too, and anyone may block anyone.
\* Calls may stop at any time, so a state without a successor is no error.
SPECIFICATION Spec
CONSTANTS
  h = h  g1 = g1  g2 = g2  g3 = g3
  Users = {h, g1, g2, g3}
  Onboarded = {h, g1, g2}
  Gender <- OneFemale
  Hosts = {h}
  Rides = {r1}
  Key <- RideKeys
  Requests = {q1, q2}
  Workers = {w1}
  NoUser = NoUser  NoRide = NoRide  NoRequest = NoRequest
  Capacities = {1}
  Preferences = {"any", "male", "male_only", "female_only"}
  PatchStatuses = {}
  CancelRouted = FALSE
  MaxBlocks = 1
  MaxFailures = 0
SYMMETRY IdSymmetry
INVARIANTS
  ShownRidesAdmit
  AdmittingRidesAreShown
PROPERTIES
  JoinsAreAdmitted
CHECK_DEADLOCK FALSE
