-------------------------- MODULE DiscoveryProofs --------------------------
(***************************************************************************)
(* The feeds and request_join agree for every set of rides and users, and  *)
(* for any number of server processes.                                     *)
(***************************************************************************)
EXTENDS Discovery, RideMatchingProofs

-----------------------------------------------------------------------------
\* request_join looks the host up and asks that they are onboarded, the feeds do
\* not: that every ride has such a host is an invariant of its own, kept by each
\* write of a ride.  An expiry job writes without looking again, so it takes
\* that a row a job has locked is not deleted under it.
HostsOnboarded ==
  /\ \A r \in Rides : RideExists(r) => rides[r].host \in Onboarded
  /\ \A w \in Workers : \A r \in job[w].held : RideExists(r)

\* No step gives a ride another host, nor a row to an identifier without a host.
LEMMA HostsKept ==
  ASSUME IInv, HostsOnboarded, Next
  PROVE  HostsOnboarded'
<1> USE UsersAssumption
<1>1. ASSUME UNCHANGED rides,
             \A w \in Workers : \A r \in job'[w].held : r \in job[w].held \/ RideExists(r)
      PROVE  HostsOnboarded'
  BY <1>1 DEF HostsOnboarded, RideExists
<1>2. ASSUME NEW w \in Workers, Call(w) PROVE HostsOnboarded'
  <2>1. ASSUME NEW u \in Hosts, NEW r \in Rides, NEW max \in Capacities,
               NEW pref \in Preferences, NEW due \in Phases, CreatePing(w, u, r, max, pref, due)
        PROVE  HostsOnboarded'
    BY <2>1 DEF CreatePing, NewPing, HostsOnboarded, RideExists, IInv, TypeOK
  <2>2. ASSUME NEW h \in Hosts, DeleteBegin(w, h) PROVE HostsOnboarded'
    BY <1>1, <2>2 DEF DeleteBegin
  <2>3. CASE \/ \E r \in Rides : UpdateRead(w, r) \/ PingCancelRead(w, r)
             \/ \E u \in Users, r \in Rides : JoinRead(w, u, r)
             \/ \E q \in Requests : \/ AcceptLockRequest(w, q) \/ Decline(w, q) \/ StartRead(w, q)
                                    \/ CompleteRead(w, q) \/ MatchCancelRead(w, q)
             \/ \E u, v \in Users : Block(w, u, v)
    <3>1. UNCHANGED <<rides, job>>
      BY <2>3 DEF UpdateRead, PingCancelRead, JoinRead, AcceptLockRequest, Decline, StartRead,
         CompleteRead, MatchCancelRead, Block
    <3> QED
      BY <1>1, <3>1
  <2> QED
    BY <1>2, <2>1, <2>2, <2>3 DEF Call, PostPing, ChangePing, DeletePings, RequestCalls, MatchCalls, BlockCalls
<1>7. ASSUME NEW w \in Workers, DeleteCommit(w) PROVE HostsOnboarded'
  <2>1. [NoRow EXCEPT !.status = "deleted"].status = "deleted"
    BY DEF NoRow
  <2>2. \A r \in Rides : \/ r \in session[w].held /\ rides'[r].status = "deleted"
                        \/ rides'[r] = rides[r]
    BY <1>7, <2>1 DEF DeleteCommit
  <2>3. \A v \in Workers : \A r \in job[v].held : r \in Rides /\ r \notin session[w].held
    BY DEF IInv, TypeOK, LocksExclusive, HoldsRide
  <2>4. \A v \in Workers : \A r \in job[v].held : rides'[r] = rides[r]
    BY <1>7, <2>3 DEF DeleteCommit
  <2>5. job' = job
    BY <1>7 DEF DeleteCommit
  <2> QED
    BY <2>2, <2>3, <2>4, <2>5 DEF HostsOnboarded, RideExists
<1>3. ASSUME NEW w \in Workers, Proceed(w), ~DeleteCommit(w) PROVE HostsOnboarded'
  <2>1. /\ UNCHANGED job
        /\ \/ UNCHANGED rides
           \/ \A r \in Rides : /\ rides'[r].host = rides[r].host
                               /\ RideExists(r)' <=> RideExists(r)
    <3>1. CASE UpdateWrite(w)
      <4>1. session[w].ride \in Rides
        BY <3>1 DEF UpdateWrite, RideExists, IInv, TypeOK, SessionOK, At
      <4>2. UNCHANGED job
        BY <3>1 DEF UpdateWrite
      <4>3. PICK st \in PatchStatuses \cup {session[w].row.status},
                 p \in Preferences \cup {session[w].row.pref} :
              rides' = IF ~Fits(p) THEN rides
                       ELSE [rides EXCEPT
                         ![session[w].ride].status = IF st = session[w].row.status THEN @ ELSE st,
                         ![session[w].ride].pref   = IF p = session[w].row.pref THEN @ ELSE p]
        BY <3>1 DEF UpdateWrite
      <4>4. st # session[w].row.status => st \notin {"none", "deleted"}
        BY InputsAssumption DEF PingStatuses
      <4>5. RideExists(session[w].ride)
        BY <3>1 DEF UpdateWrite
      <4>6. ASSUME NEW r \in Rides, rides' # rides
            PROVE  rides'[r].host = rides[r].host /\ (RideExists(r)' <=> RideExists(r))
        <5>1. CASE r = session[w].ride
          <6>1. /\ rides'[r].host = rides[r].host
                /\ rides'[r].status = IF st = session[w].row.status THEN rides[r].status ELSE st
            BY <4>1, <4>3, <4>6, <5>1 DEF IInv, TypeOK, RideRows
          <6> QED
            BY <4>4, <4>5, <5>1, <6>1 DEF RideExists
        <5>2. CASE r # session[w].ride
          BY <4>1, <4>3, <4>6, <5>2 DEF IInv, TypeOK, RideExists
        <5> QED
          BY <5>1, <5>2
      <4> QED
        BY <4>2, <4>6
    <3>2. CASE PingCancelWrite(w)
      BY <3>2 DEF PingCancelWrite, IInv, TypeOK, RideRows, RideExists
    <3>3. CASE AcceptCommit(w)
      BY <3>3 DEF AcceptCommit, IInv, TypeOK, RideRows, RideExists
    <3>4. CASE MatchCancelWrite(w)
      BY <3>4 DEF MatchCancelWrite, IInv, TypeOK, RideRows, RideExists
    <3>5. CASE \/ RideVanished(w) \/ JoinCheck(w) \/ (\E q \in Requests : JoinInsert(w, q))
               \/ AcceptLockRide(w) \/ AcceptDuplicate(w) \/ DeadlockVictim(w)
               \/ Notify(w) \/ StartWrite(w) \/ CompleteWrite(w)
               \/ DeleteLock(w) \/ DeleteRefused(w)
      BY <3>5 DEF DeleteLock, DeleteRefused, RideVanished, JoinCheck, JoinInsert, AcceptLockRide, AcceptDuplicate,
         DeadlockVictim, Notify, StartWrite, CompleteWrite
    <3> QED
      BY <1>3, <3>1, <3>2, <3>3, <3>4, <3>5 DEF Proceed
  <2> QED
    BY <1>1, <2>1 DEF HostsOnboarded, IInv, TypeOK
<1>4. ASSUME NEW w \in Workers, JobCommit(w) PROVE HostsOnboarded'
  <2>1. \A r \in Rides : rides'[r] = IF r \in job[w].held THEN [rides[r] EXCEPT !.status = "expired"]
                                                          ELSE rides[r]
    BY <1>4 DEF JobCommit
  <2>2. \A r \in Rides : rides'[r].host = rides[r].host /\ (RideExists(r) => RideExists(r)')
    BY <2>1 DEF RideExists, IInv, TypeOK, RideRows
  <2>3. \A r \in Rides : RideExists(r)' => rides[r].host \in Onboarded
    BY <2>1 DEF HostsOnboarded, RideExists
  <2>4. \A v \in Workers : job'[v].held \subseteq job[v].held /\ job[v].held \subseteq Rides
    BY <1>4 DEF JobCommit, NoJob, IInv, TypeOK
  <2> QED
    BY <2>2, <2>3, <2>4 DEF HostsOnboarded
<1>5. ASSUME NEW r \in Rides, Tick(r) PROVE HostsOnboarded'
  BY <1>5 DEF Tick, HostsOnboarded, RideExists, IInv, TypeOK, RideRows
<1>6. ASSUME NEW w \in Workers,
             \/ WorkerFails(w) \/ JobSelect(w) \/ JobVanished(w) \/ JobVictim(w) \/ JobFails(w)
             \/ \E r \in Rides : JobLock(w, r)
      PROVE  HostsOnboarded'
  <2>1. UNCHANGED rides
    BY <1>6 DEF WorkerFails, JobSelect, JobVanished, JobVictim, JobFails, JobEnds, JobLock
  <2>2. \A v \in Workers : \A r \in job'[v].held : r \in job[v].held \/ RideExists(r)
    BY <1>6 DEF WorkerFails, JobSelect, JobVanished, JobVictim, JobFails, JobEnds, JobLock, NoJob,
       IInv, TypeOK
  <2> QED
    BY <1>1, <2>1, <2>2
<1> QED
  BY <1>2, <1>3, <1>4, <1>5, <1>6, <1>7 DEF Next, JobProceeds

\* With onboarded hosts, the filters of the feeds imply the checks of request_join.
LEMMA FeedsImplyChecks == IInv /\ HostsOnboarded => ShownRidesAdmit
<1> SUFFICES ASSUME IInv, HostsOnboarded, NEW u \in Onboarded,
                    Gender[u] \in {"male", "female"},
                    NEW r \in FindRides(u) \cup NearbyPings(u, Gender[u])
             PROVE  MayAsk(u, r) /\ ~Blocked(u, rides[r].host)
  BY DEF ShownRidesAdmit
<1>1. r \in Rides /\ Listed(u, r) /\ rides[r].pref \in {"any", Gender[u]}
  BY DEF FindRides, NearbyPings
<1>2. rides[r].cur \in Nat /\ rides[r].max \in Int
  BY <1>1 DEF IInv, TypeOK, RideRows
<1>3. Admits(rides[r].pref, Gender[u])
  BY <1>1 DEF Admits
<1>4. ~Full(rides[r])
  BY <1>1, <1>2 DEF Full, Listed
<1>5. RideExists(r) /\ rides[r].due # "after"
  BY <1>1 DEF RideExists, Listed
<1> QED
  BY <1>1, <1>3, <1>4, <1>5 DEF MayAsk, Listed, HostsOnboarded

\* A ride a feed shows to a man or a woman is one they may ask for, for any
\* number of rides, users and processes.
THEOREM ShownRidesJoinable == Spec => []ShownRidesAdmit
<1>1. Init => HostsOnboarded
  BY DEF Init, HostsOnboarded, RideExists, NoRow, NoJob
<1>2. IInv /\ HostsOnboarded /\ [Next]_vars => HostsOnboarded'
  <2>1. UNCHANGED vars /\ HostsOnboarded => HostsOnboarded'
    BY DEF vars, HostsOnboarded, RideExists
  <2> QED
    BY <2>1, HostsKept
<1> QED
  BY <1>1, <1>2, InitInvariant, StepInvariant, FeedsImplyChecks, PTL DEF Spec

\* Neither feed leaves out a ride that request_join would take the guest on,
\* save for the two reasons AdmittingRidesAreShown names.
THEOREM JoinableRidesShown == Spec => []AdmittingRidesAreShown
<1>1. IInv => AdmittingRidesAreShown
  <2> SUFFICES ASSUME IInv, NEW u \in Onboarded, NEW r \in Rides,
                      Gender[u] \in {"male", "female"}, MayAsk(u, r), ~Blocked(u, rides[r].host),
                      rides[r].due = "before", rides[r].pref \in {"any", "male", "female"}
               PROVE  r \in FindRides(u) \cap NearbyPings(u, Gender[u])
    BY DEF AdmittingRidesAreShown
  <2>1. rides[r].cur \in Nat /\ rides[r].max \in Int
    BY DEF IInv, TypeOK, RideRows
  <2>2. Listed(u, r)
    BY <2>1 DEF MayAsk, Full, Listed
  <2>3. rides[r].pref \in {"any", Gender[u]}
    BY DEF MayAsk, Admits
  <2> QED
    BY <2>2, <2>3 DEF FindRides, NearbyPings
<1> QED
  BY <1>1, Invariance, PTL
=============================================================================
