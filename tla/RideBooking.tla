---------------------------- MODULE RideBooking ----------------------------
(***************************************************************************)
(* What the matching core promises, without handlers, locks, notices or a  *)
(* scheduler: a ride has a number of seats; a guest claims a seat, and the  *)
(* claim waits until it gets a seat or is turned away; the claim that gets  *)
(* the last seat turns away every claim that waits for the ride.           *)
(* RideMatching with one worker implements it (README.md:315-329).         *)
(***************************************************************************)
EXTENDS Integers, FiniteSets

CONSTANTS Rides, Guests, Claims, Capacities, NoRide, NoGuest

VARIABLES
  seats,  \* ride -> the seats it was offered with
  claim   \* claim -> its state, ride and guest

NoClaim == [state |-> "none", ride |-> NoRide, guest |-> NoGuest]

On(r, states) == {c \in Claims : claim[c].ride = r /\ claim[c].state \in states}

\* The claims that use a seat of the ride, or used it until the ride's end.
Seated(r)  == On(r, {"seated", "travelled"})
Waiting(r) == On(r, {"waiting"})

Init == seats = [r \in Rides |-> 0] /\ claim = [c \in Claims |-> NoClaim]

\* Seats are offered, and taken back, only while nobody has claimed one.
Offer(r, n) ==
  /\ \A c \in Claims : claim[c].ride # r
  /\ seats' = [seats EXCEPT ![r] = n]
  /\ UNCHANGED claim

Withdraw(rs) ==
  /\ \A c \in Claims : claim[c].ride \notin rs
  /\ seats' = [r \in Rides |-> IF r \in rs THEN 0 ELSE seats[r]]
  /\ UNCHANGED claim

Ask(c, g, r) ==
  /\ claim[c] = NoClaim
  /\ Cardinality(Seated(r)) < seats[r]
  /\ \A d \in On(r, {"waiting", "seated"}) : claim[d].guest # g
  /\ claim' = [claim EXCEPT ![c] = [state |-> "waiting", ride |-> r, guest |-> g]]
  /\ UNCHANGED seats

Seat(c) ==
  LET r == claim[c].ride  last == Cardinality(Seated(r)) + 1 = seats[r] IN
  /\ claim[c].state = "waiting"
  /\ Cardinality(Seated(r)) < seats[r]
  /\ \A d \in On(r, {"seated", "travelled", "released"}) : claim[d].guest # claim[c].guest
  /\ claim' = [d \in Claims |->
                 IF d = c THEN [claim[d] EXCEPT !.state = "seated"]
                 ELSE IF last /\ d \in Waiting(r) THEN [claim[d] EXCEPT !.state = "away"]
                 ELSE claim[d]]
  /\ UNCHANGED seats

Move(c, from, to) ==
  /\ claim[c].state = from
  /\ claim' = [claim EXCEPT ![c].state = to]
  /\ UNCHANGED seats

Next ==
  \/ \E r \in Rides, n \in Capacities : Offer(r, n)
  \/ \E rs \in SUBSET Rides : Withdraw(rs)
  \/ \E c \in Claims, g \in Guests, r \in Rides : Ask(c, g, r)
  \/ \E c \in Claims : \/ Seat(c)
                        \/ Move(c, "waiting", "away")      \* declined
                        \/ Move(c, "seated", "travelled")  \* completed
                        \/ Move(c, "seated", "released")   \* cancelled

Spec == Init /\ [][Next]_<<seats, claim>>
=============================================================================
