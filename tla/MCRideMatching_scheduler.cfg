\* Two server processes, each with a scheduler, and two rides of one host: jobs,
\* PATCHes, cancellations and bulk DELETEs contend for the rows of the rides, and
\* a job may have both in one batch.
\* Calls may stop at any time, so a state without a successor is no error.
SPECIFICATION FairSpec
CONSTANTS
  h = h  g1 = g1  g2 = g2  g3 = g3
  Users = {h}
  Onboarded = {h}
  Gender <- AllMale
  Hosts = {h}
  Rides = {r1, r2}
  Key <- RideKeys
  Requests = {}
  Workers = {w1, w2}
  NoUser = NoUser  NoRide = NoRide  NoRequest = NoRequest
  Capacities = {1}
  Preferences = {"any"}
  PatchStatuses = {}
  CancelRouted = FALSE
  MaxBlocks = 0
  MaxFailures = 0
INVARIANTS
  OnlyKnownDeadlocks
PROPERTIES
  StaleRidesClose
CHECK_DEADLOCK FALSE
