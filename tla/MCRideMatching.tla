-------------------------- MODULE MCRideMatching --------------------------
(* Instances of RideMatching for TLC: one host, three guests at most, one  *)
(* ride for the bookings and two for the jobs.                             *)
EXTENDS Discovery, TLC

CONSTANTS h, g1, g2, g3

AllMale   == [u \in Users |-> "male"]
OneFemale == [u \in Users |-> IF u = g1 THEN "female" ELSE "male"]

\* Some order of the primary keys.
RideKeys == CHOOSE keys \in [Rides -> 1..Cardinality(Rides)] :
              \A r, x \in Rides : keys[r] = keys[x] => r = x

\* Identifiers of rows and guests of one gender are interchangeable.
IdSymmetry   == Permutations(Rides) \cup Permutations(Requests)
FullSymmetry == IdSymmetry \cup Permutations({g1, g2, g3})
=============================================================================
