------------------------- MODULE RideMatchingProofs -------------------------
(***************************************************************************)
(* What RideMatching guarantees for every set of users, rides, requests    *)
(* and workers, however the handlers and the schedulers' jobs interleave.  *)
(***************************************************************************)
EXTENDS RideMatching, FiniteSetTheorems, TLAPS

-----------------------------------------------------------------------------
\* The inductive invariant

\* A request row refers to a ride and a guest, and only such a row has a match.
RowsLinked ==
  \A q \in Requests :
    IF requests[q].status = "none"
    THEN matches[q] = "none"
    ELSE requests[q].ride \in Rides /\ requests[q].guest \in Users

\* What a session may rely on at each of its steps, whatever the others did
\* since it read: the request it has locked is pending, the requests it is going
\* to decline were not accepted, the match it is going to write exists, and what
\* it is going to announce is true.
SessionOK(s) ==
  /\ s.pc \in {"update_write", "ping_cancel_write", "join_check", "join_insert",
               "accept_ride", "accept_commit", "match_cancel_write", "delete_rows"} =>
       s.ride \in Rides
  /\ s.pc \notin {"delete_rows", "delete_commit"} => s.held = {}
  /\ s.pc \in {"join_check", "join_insert"} => s.user \in Users
  /\ s.pc \in {"accept_ride", "accept_commit"} =>
       /\ s.request \in Requests /\ requests[s.request].status = "pending"
       /\ s.ride = requests[s.request].ride
  /\ s.pc = "accept_commit" =>
       \A q \in s.others : /\ q # s.request /\ requests[q].ride = s.ride
                           /\ requests[q].status \in {"pending", "declined"}
  /\ s.pc \in {"start_write", "complete_write", "match_cancel_write"} =>
       s.request \in Requests /\ matches[s.request] # "none"
  /\ s.pc = "notify" =>
       /\ s.request \in Requests
       /\ s.note = "match_request" => requests[s.request].status # "none"
       /\ s.note = "match_accepted" => requests[s.request].status = "accepted"
       /\ s.note = "match_declined" => requests[s.request].status = "declined"

\* A row is locked by one transaction at a time, a handler's or a job's.
LocksExclusive ==
  /\ \A v, w \in Workers : v # w =>
       /\ \A q \in Requests : ~(HoldsRequest(v, q) /\ HoldsRequest(w, q))
       /\ \A r \in Rides : ~(HoldsRide(v, r) /\ HoldsRide(w, r))
       /\ job[v].held \cap job[w].held = {}
  /\ \A v, w \in Workers, r \in Rides : ~(HoldsRide(v, r) /\ r \in job[w].held)

IInv ==
  /\ TypeOK
  /\ RowsLinked
  /\ \A w \in Workers : SessionOK(session[w])
  /\ LocksExclusive
  /\ AcceptedIffMatched
  /\ NoticesAreTrue

-----------------------------------------------------------------------------
\* The null rows have the columns of their tables.
LEMMA NullRowsTyped ==
  NoRow \in RideRows /\ NoRequestRow \in RequestRows /\ Idle \in Sessions
BY DEF NoRow, RideRows, NoRequestRow, RequestRows, Idle, Sessions, Phases, Steps, Kinds

\* So has a row as a session keeps it.
LEMMA LoadedTyped == TypeOK => \A r \in Rides : Loaded(r) \in RideRows
BY DEF TypeOK, Loaded, RideRows, Phases

\* Empty tables, idle sessions and idle jobs satisfy the invariant.
LEMMA InitInvariant == Init => IInv
<1> SUFFICES ASSUME Init PROVE IInv
  OBVIOUS
<1>1. TypeOK
  BY NullRowsTyped, BoundsAssumption DEF Init, TypeOK, NoJob
<1>2. RowsLinked /\ AcceptedIffMatched /\ NoticesAreTrue
  BY DEF Init, RowsLinked, AcceptedIffMatched, NoticesAreTrue, NoRequestRow
<1>3. \A w \in Workers : SessionOK(session[w])
  BY DEF Init, SessionOK, Idle
<1>4. LocksExclusive
  BY DEF Init, LocksExclusive, HoldsRequest, HoldsRide, Idle, NoJob
<1> QED
  BY <1>1, <1>2, <1>3, <1>4 DEF IInv

-----------------------------------------------------------------------------
\* Type correctness of a step, actions of clients first.
LEMMA CallTyped ==
  ASSUME IInv, NEW w \in Workers, Call(w)
  PROVE  TypeOK'
<1>0. \A r \in Rides : Loaded(r) \in RideRows
  BY LoadedTyped DEF IInv
<1> USE <1>0, NullRowsTyped, UsersAssumption, InputsAssumption, BoundsAssumption
<1>1. ASSUME NEW u \in Hosts, NEW r \in Rides, NEW max \in Capacities,
             NEW pref \in Preferences, NEW due \in Phases, CreatePing(w, u, r, max, pref, due)
      PROVE  TypeOK'
  <2>1. NewPing(u, max, pref, due) \in RideRows
    BY DEF NewPing, RideRows, PingStatuses
  <2> QED
    BY <1>1, <2>1 DEF CreatePing, IInv, TypeOK
<1>2. ASSUME NEW r \in Rides, UpdateRead(w, r) \/ PingCancelRead(w, r)
      PROVE  TypeOK'
  <2>1. CASE UpdateRead(w, r)
    BY <2>1 DEF UpdateRead, Continue, IInv, TypeOK, Sessions, Idle, Steps, Kinds
  <2>2. CASE PingCancelRead(w, r)
    BY <2>2 DEF PingCancelRead, Continue, IInv, TypeOK, Sessions, Idle, Steps, Kinds
  <2> QED
    BY <1>2, <2>1, <2>2
<1>3. ASSUME NEW h \in Hosts, DeleteBegin(w, h)
      PROVE  TypeOK'
  <2>1. PICK r \in Rides :
          Continue(w, [Idle EXCEPT !.pc = "delete_rows", !.user = h, !.ride = r,
                                   !.todo = {x \in Rides : Deletable(h, x)} \ {r}])
    BY <1>3 DEF DeleteBegin
  <2> QED
    BY <1>3, <2>1 DEF DeleteBegin, Continue, IInv, TypeOK, Sessions, Idle, Steps, Kinds
<1>4. ASSUME NEW u \in Users, NEW r \in Rides, JoinRead(w, u, r)
      PROVE  TypeOK'
  BY <1>4 DEF JoinRead, Continue, IInv, TypeOK, Sessions, Idle, Steps, Kinds
<1>5. ASSUME NEW q \in Requests, AcceptLockRequest(w, q)
      PROVE  TypeOK'
  BY <1>5 DEF AcceptLockRequest, Continue, IInv, TypeOK, RowsLinked, Sessions, Idle, Steps, Kinds
<1>6. ASSUME NEW q \in Requests, Decline(w, q)
      PROVE  TypeOK'
  BY <1>6 DEF Decline, Announce, Continue, IInv, TypeOK, RequestRows, Sessions, Idle, Steps, Kinds
<1>7. ASSUME NEW q \in Requests, StartRead(w, q) \/ CompleteRead(w, q)
      PROVE  TypeOK'
  <2>1. CASE StartRead(w, q)
    BY <2>1 DEF StartRead, Continue, IInv, TypeOK, Sessions, Idle, Steps, Kinds
  <2>2. CASE CompleteRead(w, q)
    BY <2>2 DEF CompleteRead, Continue, IInv, TypeOK, Sessions, Idle, Steps, Kinds
  <2> QED
    BY <1>7, <2>1, <2>2
<1>8. ASSUME NEW q \in Requests, MatchCancelRead(w, q)
      PROVE  TypeOK'
  <2>1. matches[q] # "none"
    BY <1>8 DEF MatchCancelRead, MayMove, MatchTransitions
  <2>2. requests[q].ride \in Rides
    BY <2>1 DEF IInv, RowsLinked
  <2> QED
    BY <1>8, <2>2 DEF MatchCancelRead, Continue, IInv, TypeOK, Sessions, Idle, Steps, Kinds
<1>9. ASSUME NEW u \in Users, NEW v \in Users, Block(w, u, v)
      PROVE  TypeOK'
  BY <1>9 DEF Block, IInv, TypeOK
<1> QED
  BY <1>1, <1>2, <1>3, <1>4, <1>5, <1>6, <1>7, <1>8, <1>9 DEF Call, PostPing, ChangePing, DeletePings, RequestCalls, MatchCalls, BlockCalls

\* An UPDATE of a row's status, count or preference keeps its columns typed.
LEMMA RideUpdateTyped ==
  ASSUME rides \in [Rides -> RideRows], NEW r \in Rides,
         NEW st \in PingStatuses \cup {"none", "deleted"}, NEW n \in Nat,
         NEW p \in Preferences \cup {"any"}
  PROVE  /\ [rides EXCEPT ![r].status = st, ![r].pref = p] \in [Rides -> RideRows]
         /\ [rides EXCEPT ![r].cur = n, ![r].status = st] \in [Rides -> RideRows]
         /\ [rides EXCEPT ![r].status = st] \in [Rides -> RideRows]
         /\ rides[r].status \in PingStatuses \cup {"none", "deleted"}
         /\ rides[r].pref \in Preferences \cup {"any"}
<1>1. rides[r] \in RideRows
  OBVIOUS
<1>2. /\ [rides[r] EXCEPT !.status = st, !.pref = p] \in RideRows
      /\ [rides[r] EXCEPT !.cur = n, !.status = st] \in RideRows
      /\ [rides[r] EXCEPT !.status = st] \in RideRows
  BY <1>1 DEF RideRows
<1> QED
  BY <1>1, <1>2 DEF RideRows

\* Type correctness of the rest of a handler.
LEMMA ProceedTyped ==
  ASSUME IInv, NEW w \in Workers, Proceed(w)
  PROVE  TypeOK'
<1> USE NullRowsTyped, UsersAssumption, InputsAssumption, BoundsAssumption
<1> DEFINE s == session[w]
<1>0. s \in Sessions /\ SessionOK(s)
  BY DEF IInv, TypeOK
<1>1. CASE UpdateWrite(w)
  <2>1. PICK st \in PatchStatuses \cup {s.row.status}, p \in Preferences \cup {s.row.pref} :
          rides' = IF ~Fits(p) THEN rides
                   ELSE [rides EXCEPT ![s.ride].status = IF st = s.row.status THEN @ ELSE st,
                                      ![s.ride].pref   = IF p = s.row.pref THEN @ ELSE p]
    BY <1>1 DEF UpdateWrite
  <2>2. s.ride \in Rides /\ s.row \in RideRows
    BY <1>1, <1>0 DEF UpdateWrite, At, SessionOK, Sessions
  <2>3. s.row.status \in PingStatuses \cup {"none", "deleted"} /\ s.row.pref \in Preferences \cup {"any"}
    BY <2>2 DEF RideRows
  <2>4. rides' = IF ~Fits(p) THEN rides
                 ELSE [rides EXCEPT
          ![s.ride].status = IF st = s.row.status THEN rides[s.ride].status ELSE st,
          ![s.ride].pref   = IF p = s.row.pref THEN rides[s.ride].pref ELSE p]
    BY <2>1, <2>2 DEF IInv, TypeOK
  <2>5. rides' \in [Rides -> RideRows]
    BY <2>2, <2>3, <2>4, RideUpdateTyped DEF IInv, TypeOK
  <2> QED
    BY <1>1, <2>5 DEF UpdateWrite, Finish, IInv, TypeOK
<1>2. CASE PingCancelWrite(w)
  <2>1. s.ride \in Rides
    BY <1>2, <1>0 DEF PingCancelWrite, At, SessionOK
  <2>2. rides' \in [Rides -> RideRows]
    BY <1>2, <2>1, RideUpdateTyped DEF PingCancelWrite, IInv, TypeOK, PingStatuses
  <2> QED
    BY <1>2, <2>2 DEF PingCancelWrite, Finish, IInv, TypeOK
<1>3. CASE RideVanished(w)
  BY <1>3 DEF RideVanished, Finish, IInv, TypeOK
<1>4. CASE JoinCheck(w)
  <2>1. [s EXCEPT !.pc = "join_insert", !.row = NoRow] \in Sessions
    BY <1>0 DEF Sessions, Steps
  <2> QED
    BY <1>4, <2>1 DEF JoinCheck, Continue, Finish, IInv, TypeOK
<1>5. ASSUME NEW q \in Requests, JoinInsert(w, q)
      PROVE  TypeOK'
  <2>1. requests' \in [Requests -> RequestRows]
    BY <1>5, <1>0 DEF JoinInsert, IInv, TypeOK, RequestRows, Sessions
  <2>2. session' \in [Workers -> Sessions]
    BY <1>5 DEF JoinInsert, Announce, Continue, IInv, TypeOK, Idle, Sessions, Steps, Kinds
  <2> QED
    BY <1>5, <2>1, <2>2 DEF JoinInsert, IInv, TypeOK
<1>6. CASE AcceptLockRide(w)
  <2>1. [s EXCEPT !.pc = "accept_commit",
           !.others = IF LastSeat(s.row) THEN PendingOn(s.ride) \ {s.request} ELSE {}] \in Sessions
    BY <1>0 DEF Sessions, Steps, PendingOn
  <2> QED
    BY <1>6, <2>1 DEF AcceptLockRide, Continue, Finish, IInv, TypeOK
<1>7. CASE AcceptCommit(w)
  <2>1. rides' \in [Rides -> RideRows]
    <3>1. s.ride \in Rides /\ s.row.cur + 1 \in Nat
      BY <1>7, <1>0 DEF AcceptCommit, At, SessionOK, Sessions, RideRows
    <3> DEFINE st == IF LastSeat(s.row) THEN "matched" ELSE rides[s.ride].status
               n  == s.row.cur + 1
    <3>2. rides' = [rides EXCEPT ![s.ride].cur = n, ![s.ride].status = st]
      BY <1>7, <3>1 DEF AcceptCommit, IInv, TypeOK
    <3>3. st \in PingStatuses \cup {"none", "deleted"}
      BY <3>1 DEF IInv, TypeOK, RideRows, PingStatuses
    <3> HIDE DEF st, n
    <3> QED
      BY <3>2, <3>3, <3>1, RideUpdateTyped DEF n, IInv, TypeOK
  <2>2. requests' \in [Requests -> RequestRows]
    BY <1>7 DEF AcceptCommit, IInv, TypeOK, RequestRows
  <2>3. matches' \in [Requests -> MatchStatuses \cup {"none"}]
    BY <1>7 DEF AcceptCommit, IInv, TypeOK, MatchStatuses
  <2>4. session' \in [Workers -> Sessions]
    BY <1>7, <1>0 DEF AcceptCommit, Announce, Continue, IInv, TypeOK, Idle, Sessions, Steps, Kinds
  <2> QED
    BY <1>7, <2>1, <2>2, <2>3, <2>4 DEF AcceptCommit, IInv, TypeOK
<1>8. CASE AcceptDuplicate(w)
  BY <1>8 DEF AcceptDuplicate, Finish, IInv, TypeOK
<1>9. CASE DeadlockVictim(w)
  BY <1>9 DEF DeadlockVictim, Finish, IInv, TypeOK
<1>10. CASE Notify(w)
  BY <1>10, <1>0 DEF Notify, Finish, IInv, TypeOK, At, SessionOK, Sessions
<1>11. CASE StartWrite(w)
  BY <1>11 DEF StartWrite, Finish, IInv, TypeOK, MatchStatuses
<1>12. CASE CompleteWrite(w)
  BY <1>12 DEF CompleteWrite, Finish, IInv, TypeOK, MatchStatuses
<1>14. CASE DeleteLock(w)
  <2> DEFINE held == IF Deletable(s.user, s.ride) THEN s.held \cup {s.ride} ELSE s.held
  <2>1. s.ride \in Rides /\ held \subseteq Rides
    BY <1>14, <1>0 DEF DeleteLock, At, SessionOK, Sessions
  <2>2. \/ Continue(w, [Idle EXCEPT !.pc = "delete_commit", !.held = held])
        \/ \E r \in s.todo :
             Continue(w, [s EXCEPT !.ride = r, !.todo = @ \ {r}, !.held = held])
    BY <1>14 DEF DeleteLock
  <2> HIDE DEF held
  <2>3. [Idle EXCEPT !.pc = "delete_commit", !.held = held] \in Sessions
    BY <2>1 DEF Sessions, Idle, Steps, Kinds
  <2>4. \A r \in s.todo : [s EXCEPT !.ride = r, !.todo = @ \ {r}, !.held = held] \in Sessions
    BY <1>0, <2>1 DEF Sessions
  <2>5. session' \in [Workers -> Sessions]
    BY <2>2, <2>3, <2>4 DEF Continue, IInv, TypeOK
  <2>6. UNCHANGED <<rides, requests, matches, notices, blocked, job, failures>>
    BY <1>14 DEF DeleteLock
  <2> QED
    BY <2>5, <2>6 DEF IInv, TypeOK
<1>15. CASE DeleteCommit(w)
  <2>1. [NoRow EXCEPT !.status = "deleted"] \in RideRows
    BY DEF NoRow, RideRows, Phases
  <2> QED
    BY <1>15, <2>1 DEF DeleteCommit, Finish, IInv, TypeOK
<1>16. CASE DeleteRefused(w)
  BY <1>16 DEF DeleteRefused, Finish, IInv, TypeOK
<1>13. CASE MatchCancelWrite(w)
  <2>1. rides' \in [Rides -> RideRows]
    <3>1. s.ride \in Rides /\ s.row \in RideRows
      BY <1>13, <1>0 DEF MatchCancelWrite, At, SessionOK, Sessions
    <3>2. CASE s.row.cur > 0
      <4> DEFINE left == s.row.cur - 1
                 st   == IF s.row.status = "matched" /\ left < s.row.max
                         THEN "open" ELSE rides[s.ride].status
      <4>1. left \in Nat
        BY <3>1, <3>2 DEF RideRows
      <4>2. rides' = [rides EXCEPT ![s.ride].cur = left, ![s.ride].status = st]
        BY <1>13, <3>1, <3>2 DEF MatchCancelWrite, IInv, TypeOK
      <4>3. st \in PingStatuses \cup {"none", "deleted"}
        BY <3>1 DEF IInv, TypeOK, RideRows, PingStatuses
      <4> HIDE DEF st, left
      <4> QED
        BY <3>1, <4>1, <4>2, <4>3, RideUpdateTyped DEF IInv, TypeOK
    <3> QED
      BY <1>13, <3>2 DEF MatchCancelWrite, IInv, TypeOK
  <2> QED
    BY <1>13, <2>1 DEF MatchCancelWrite, Finish, IInv, TypeOK, MatchStatuses
<1> QED
  BY <1>1, <1>2, <1>3, <1>4, <1>5, <1>6, <1>7, <1>8, <1>9, <1>10, <1>11, <1>12, <1>13,
     <1>14, <1>15, <1>16 DEF Proceed

\* Type correctness of every step: handlers, the jobs, failures and the clock.
LEMMA StepTyped == IInv /\ [Next]_vars => TypeOK'
<1> SUFFICES ASSUME IInv, [Next]_vars PROVE TypeOK'
  OBVIOUS
<1> USE NullRowsTyped, BoundsAssumption
<1>1. ASSUME NEW w \in Workers, WorkerFails(w) PROVE TypeOK'
  BY <1>1 DEF WorkerFails, Finish, IInv, TypeOK
<1>2. ASSUME NEW w \in Workers, JobSelect(w) PROVE TypeOK'
  BY <1>2 DEF JobSelect, IInv, TypeOK
<1>3. ASSUME NEW w \in Workers, NEW r \in Rides, JobLock(w, r) PROVE TypeOK'
  BY <1>3 DEF JobLock, IInv, TypeOK
<1>4. ASSUME NEW w \in Workers, JobCommit(w) PROVE TypeOK'
  <2>1. \A r \in Rides : [rides[r] EXCEPT !.status = "expired"] \in RideRows
    BY DEF IInv, TypeOK, RideRows, PingStatuses
  <2>2. rides' \in [Rides -> RideRows]
    BY <1>4, <2>1 DEF JobCommit, IInv, TypeOK
  <2>3. job' \in [Workers -> [busy : BOOLEAN, stale : SUBSET Rides, held : SUBSET Rides]]
    BY <1>4 DEF JobCommit, NoJob, IInv, TypeOK
  <2> QED
    BY <1>4, <2>2, <2>3 DEF JobCommit, IInv, TypeOK
<1>9. ASSUME NEW w \in Workers, JobEnds(w), failures' \in 0..MaxFailures PROVE TypeOK'
  <2>1. job' \in [Workers -> [busy : BOOLEAN, stale : SUBSET Rides, held : SUBSET Rides]]
    BY <1>9 DEF JobEnds, NoJob, IInv, TypeOK
  <2> QED
    BY <1>9, <2>1 DEF JobEnds, IInv, TypeOK
<1>5. ASSUME NEW w \in Workers, JobVanished(w) \/ JobVictim(w) PROVE TypeOK'
  BY <1>5, <1>9 DEF JobVanished, JobVictim, IInv, TypeOK
<1>8. ASSUME NEW w \in Workers, JobFails(w) PROVE TypeOK'
  <2>1. failures' \in 0..MaxFailures
    BY <1>8 DEF JobFails, IInv, TypeOK
  <2> QED
    BY <1>8, <1>9, <2>1 DEF JobFails
<1>6. ASSUME NEW r \in Rides, Tick(r) PROVE TypeOK'
  BY <1>6 DEF Tick, IInv, TypeOK, RideRows, Phases
<1>7. CASE UNCHANGED vars
  BY <1>7 DEF vars, IInv, TypeOK
<1> QED
  BY <1>1, <1>2, <1>3, <1>4, <1>5, <1>6, <1>7, <1>8, CallTyped, ProceedTyped DEF Next, JobProceeds

-----------------------------------------------------------------------------
\* Which steps write which tables, and which change a session

\* Requests, matches and notices are written by seven steps only.
LEMMA TableSteps ==
  ASSUME [Next]_vars
  PROVE  \/ UNCHANGED <<requests, matches, notices>>
         \/ \E w \in Workers, q \in Requests : JoinInsert(w, q) \/ Decline(w, q)
         \/ \E w \in Workers : \/ AcceptCommit(w) \/ Notify(w) \/ StartWrite(w)
                              \/ CompleteWrite(w) \/ MatchCancelWrite(w)
<1>1. ASSUME NEW w \in Workers, Call(w)
      PROVE  \/ UNCHANGED <<requests, matches, notices>>
             \/ \E q \in Requests : Decline(w, q)
  BY <1>1 DEF Call, PostPing, ChangePing, DeletePings, RequestCalls, MatchCalls, BlockCalls, CreatePing, UpdateRead, PingCancelRead, DeleteBegin, JoinRead,
              AcceptLockRequest, StartRead, CompleteRead, MatchCancelRead, Block
<1>2. ASSUME NEW w \in Workers, Proceed(w)
      PROVE  \/ UNCHANGED <<requests, matches, notices>>
             \/ \E q \in Requests : JoinInsert(w, q)
             \/ AcceptCommit(w) \/ Notify(w) \/ StartWrite(w)
             \/ CompleteWrite(w) \/ MatchCancelWrite(w)
  BY <1>2 DEF Proceed, UpdateWrite, PingCancelWrite, RideVanished, DeleteLock, DeleteCommit,
              DeleteRefused, JoinCheck, AcceptLockRide, AcceptDuplicate, DeadlockVictim
<1>3. CASE \/ \E w \in Workers : \/ WorkerFails(w)
                                 \/ JobSelect(w) \/ JobProceeds(w) \/ JobFails(w)
           \/ \E r \in Rides : Tick(r)
           \/ UNCHANGED vars
  BY <1>3 DEF WorkerFails, JobSelect, JobProceeds, JobCommit, JobVanished, JobVictim, JobLock,
              JobFails, JobEnds, Tick, vars
<1> QED
  BY <1>1, <1>2, <1>3 DEF Next

\* A step that begins or continues a handler, as opposed to ending it.
Begins(w) ==
  \/ \E r \in Rides : UpdateRead(w, r) \/ PingCancelRead(w, r)
  \/ \E h \in Hosts : DeleteBegin(w, h)
  \/ \E u \in Users, r \in Rides : JoinRead(w, u, r)
  \/ \E q \in Requests : \/ AcceptLockRequest(w, q) \/ Decline(w, q) \/ StartRead(w, q)
                         \/ CompleteRead(w, q) \/ MatchCancelRead(w, q)
                         \/ JoinInsert(w, q)
  \/ DeleteLock(w) \/ JoinCheck(w) \/ AcceptLockRide(w) \/ AcceptCommit(w)

\* A step changes one session at most, and then no job: it ends its handler, or
\* begins or continues it.
LEMMA SessionSteps ==
  ASSUME [Next]_vars, TypeOK, NEW v \in Workers, session'[v] # session[v]
  PROVE  /\ \A u \in Workers : u # v => session'[u] = session[u]
         /\ session'[v] = Idle \/ Begins(v)
         /\ job' = job
<1>1. ASSUME NEW w \in Workers, Call(w)
      PROVE  \/ session' = session
             \/ /\ Begins(w) /\ job' = job
                /\ \A u \in Workers : u # w => session'[u] = session[u]
  <2>4. ASSUME NEW h \in Hosts, DeleteBegin(w, h)
        PROVE  /\ Begins(w) /\ job' = job
               /\ \A u \in Workers : u # w => session'[u] = session[u]
    BY <2>4 DEF DeleteBegin, Continue, Begins, TypeOK
  <2>1. CASE \/ \E r \in Rides : UpdateRead(w, r) \/ PingCancelRead(w, r)
             \/ \E u \in Users, r \in Rides : JoinRead(w, u, r)
    BY <2>1 DEF UpdateRead, PingCancelRead, JoinRead, Continue, Begins, TypeOK
  <2>2. CASE \E q \in Requests : \/ AcceptLockRequest(w, q) \/ Decline(w, q) \/ StartRead(w, q)
                                \/ CompleteRead(w, q) \/ MatchCancelRead(w, q)
    BY <2>2 DEF AcceptLockRequest, Decline, StartRead, CompleteRead, MatchCancelRead,
                Announce, Continue, Begins, TypeOK
  <2>3. CASE \/ \E u \in Hosts, r \in Rides, max \in Capacities, pref \in Preferences, due \in Phases :
                  CreatePing(w, u, r, max, pref, due)
             \/ \E x, y \in Users : Block(w, x, y)
    BY <2>3 DEF CreatePing, Block
  <2> QED
    BY <1>1, <2>1, <2>2, <2>3, <2>4 DEF Call, PostPing, ChangePing, DeletePings, RequestCalls, MatchCalls, BlockCalls
<1>2. ASSUME NEW w \in Workers, Proceed(w) \/ WorkerFails(w)
      PROVE  /\ session'[w] = Idle \/ Begins(w)
             /\ \A u \in Workers : u # w => session'[u] = session[u]
             /\ job' = job
  <2>4. CASE DeleteLock(w)
    BY <2>4 DEF DeleteLock, Continue, Begins, TypeOK
  <2>5. job' = job
    BY <1>2 DEF Proceed, WorkerFails, UpdateWrite, PingCancelWrite, RideVanished, DeleteLock,
       DeleteCommit, DeleteRefused, JoinCheck, JoinInsert, AcceptLockRide, AcceptCommit,
       AcceptDuplicate, DeadlockVictim, Notify, StartWrite, CompleteWrite, MatchCancelWrite
  <2>1. CASE JoinCheck(w) \/ AcceptLockRide(w)
    BY <2>1 DEF JoinCheck, AcceptLockRide, Continue, Finish, Begins, TypeOK
  <2>2. CASE AcceptCommit(w) \/ \E q \in Requests : JoinInsert(w, q)
    BY <2>2 DEF AcceptCommit, JoinInsert, Announce, Continue, Begins, TypeOK
  <2>3. CASE Finish(w)
    BY <2>3, <2>5 DEF Finish, TypeOK
  <2> QED
    BY <1>2, <2>1, <2>2, <2>3, <2>4, <2>5 DEF Proceed, WorkerFails, UpdateWrite,
       PingCancelWrite, RideVanished, DeleteCommit, DeleteRefused, AcceptDuplicate,
       DeadlockVictim, Notify, StartWrite, CompleteWrite, MatchCancelWrite
<1>3. CASE \/ \E w \in Workers : JobSelect(w) \/ JobProceeds(w) \/ JobFails(w)
           \/ \E r \in Rides : Tick(r)
           \/ UNCHANGED vars
  BY <1>3 DEF JobSelect, JobProceeds, JobCommit, JobVanished, JobVictim, JobLock, JobFails,
              JobEnds, Tick, vars
<1> QED
  BY <1>1, <1>2, <1>3 DEF Next

\* A step changes one job at most, and then no session: it ends the job, or lets
\* it select its rides or take the next one's lock.
LEMMA JobSteps ==
  ASSUME [Next]_vars, TypeOK, NEW w \in Workers, job'[w] # job[w]
  PROVE  /\ session' = session
         /\ \A v \in Workers : v # w => job'[v] = job[v]
         /\ job'[w] = NoJob \/ JobSelect(w) \/ \E r \in Rides : JobLock(w, r)
<1>1. ASSUME NEW v \in Workers, Call(v)
      PROVE  job' = job
  BY <1>1 DEF Call, PostPing, ChangePing, DeletePings, RequestCalls, MatchCalls, BlockCalls, CreatePing, UpdateRead, PingCancelRead, DeleteBegin, JoinRead,
     AcceptLockRequest, Decline, StartRead, CompleteRead, MatchCancelRead, Block
<1>2. ASSUME NEW v \in Workers, Proceed(v) \/ WorkerFails(v)
      PROVE  job' = job
  BY <1>2 DEF Proceed, WorkerFails, UpdateWrite, PingCancelWrite, RideVanished, DeleteLock,
     DeleteCommit, DeleteRefused, JoinCheck, JoinInsert, AcceptLockRide, AcceptCommit,
     AcceptDuplicate, DeadlockVictim, Notify, StartWrite, CompleteWrite, MatchCancelWrite
<1>3. ASSUME NEW v \in Workers, JobSelect(v) \/ JobProceeds(v) \/ JobFails(v)
      PROVE  /\ session' = session
             /\ \A u \in Workers : u # v => job'[u] = job[u]
             /\ job'[v] = NoJob \/ JobSelect(v) \/ \E r \in Rides : JobLock(v, r)
  BY <1>3 DEF JobSelect, JobProceeds, JobCommit, JobVanished, JobVictim, JobLock, JobFails,
     JobEnds, TypeOK
<1>4. CASE (\E r \in Rides : Tick(r)) \/ UNCHANGED vars
  BY <1>4 DEF Tick, vars
<1> QED
  BY <1>1, <1>2, <1>3, <1>4 DEF Next

-----------------------------------------------------------------------------
\* Requests, matches and notices

\* A step answers a request at most once, keeps its ride and guest, and never
\* removes a match: what locks on requests and rides give.
LEMMA StepSettlesOnce ==
  ASSUME IInv, [Next]_vars, NEW p \in Requests
  PROVE  /\ SettlesOnce(p)
         /\ requests[p].status # "none" => /\ requests'[p].ride = requests[p].ride
                                           /\ requests'[p].guest = requests[p].guest
         /\ matches[p] # "none" => matches'[p] # "none"
<1> USE DEF SettlesOnce
<1>1. CASE UNCHANGED <<requests, matches, notices>>
  BY <1>1
<1>2. ASSUME NEW w \in Workers, NEW q \in Requests, JoinInsert(w, q) \/ Decline(w, q)
      PROVE  /\ SettlesOnce(p)
             /\ requests[p].status # "none" => /\ requests'[p].ride = requests[p].ride
                                               /\ requests'[p].guest = requests[p].guest
             /\ matches' = matches
  BY <1>2 DEF JoinInsert, Decline, IInv, TypeOK, RequestRows
<1>3. ASSUME NEW w \in Workers, AcceptCommit(w)
      PROVE  /\ SettlesOnce(p)
             /\ requests'[p].ride = requests[p].ride /\ requests'[p].guest = requests[p].guest
             /\ matches[p] # "none" => matches'[p] # "none"
  <2>1. SessionOK(session[w]) /\ session[w].pc = "accept_commit"
    BY <1>3 DEF AcceptCommit, At, IInv
  <2>2. /\ requests[session[w].request].status = "pending"
        /\ \A q \in session[w].others : requests[q].status \in {"pending", "declined"}
    BY <2>1 DEF SessionOK
  <2> QED
    BY <1>3, <2>2 DEF AcceptCommit, IInv, TypeOK, RequestRows
<1>4. ASSUME NEW w \in Workers,
             Notify(w) \/ StartWrite(w) \/ CompleteWrite(w) \/ MatchCancelWrite(w)
      PROVE  requests' = requests /\ (matches[p] # "none" => matches'[p] # "none")
  BY <1>4 DEF Notify, StartWrite, CompleteWrite, MatchCancelWrite, IInv, TypeOK
<1> QED
  BY <1>1, <1>2, <1>3, <1>4, TableSteps

\* The tables of a step agree with each other when they did before.
LEMMA StepKeepsTables ==
  ASSUME IInv, [Next]_vars
  PROVE  RowsLinked' /\ AcceptedIffMatched' /\ NoticesAreTrue'
<1>0. TypeOK /\ RowsLinked /\ AcceptedIffMatched /\ NoticesAreTrue
  BY DEF IInv
<1> USE DEF RowsLinked, AcceptedIffMatched, NoticesAreTrue
<1>1. CASE UNCHANGED <<requests, matches, notices>>
  BY <1>0, <1>1
<1>2. ASSUME NEW w \in Workers, NEW q \in Requests, JoinInsert(w, q)
      PROVE  RowsLinked' /\ AcceptedIffMatched' /\ NoticesAreTrue'
  <2>1. session[w].ride \in Rides /\ session[w].user \in Users
    BY <1>2 DEF JoinInsert, At, IInv, SessionOK
  <2>2. /\ requests[q].status = "none" /\ matches' = matches /\ notices' = notices
        /\ requests' = [requests EXCEPT ![q] = [status |-> "pending",
                            ride |-> session[w].ride, guest |-> session[w].user]]
    BY <1>2 DEF JoinInsert
  <2> QED
    BY <1>0, <2>1, <2>2 DEF TypeOK
<1>3. ASSUME NEW w \in Workers, NEW q \in Requests, Decline(w, q)
      PROVE  RowsLinked' /\ AcceptedIffMatched' /\ NoticesAreTrue'
  <2>1. /\ requests[q].status = "pending" /\ matches' = matches /\ notices' = notices
        /\ requests' = [requests EXCEPT ![q].status = "declined"]
    BY <1>3 DEF Decline
  <2> QED
    BY <1>0, <2>1 DEF TypeOK, RequestRows
<1>4. ASSUME NEW w \in Workers, AcceptCommit(w)
      PROVE  RowsLinked' /\ AcceptedIffMatched' /\ NoticesAreTrue'
  <2> DEFINE a == session[w].request
             others == session[w].others
  <2>1. SessionOK(session[w]) /\ session[w].pc = "accept_commit"
    BY <1>4 DEF AcceptCommit, At, IInv
  <2>2. /\ a \in Requests /\ requests[a].status = "pending"
        /\ \A q \in others : q # a /\ requests[q].status \in {"pending", "declined"}
    BY <2>1 DEF SessionOK
  <2>3. /\ matches' = [matches EXCEPT ![a] = "matched"] /\ notices' = notices
        /\ requests' = [q \in Requests |->
              IF q = a THEN [requests[q] EXCEPT !.status = "accepted"]
              ELSE IF q \in others THEN [requests[q] EXCEPT !.status = "declined"]
              ELSE requests[q]]
    BY <1>4 DEF AcceptCommit
  <2> HIDE DEF a, others
  <2>4. ASSUME NEW q \in Requests
        PROVE  /\ requests'[q].ride = requests[q].ride /\ requests'[q].guest = requests[q].guest
               /\ requests'[q].status = IF q = a THEN "accepted"
                                        ELSE IF q \in others THEN "declined"
                                        ELSE requests[q].status
               /\ matches'[q] = IF q = a THEN "matched" ELSE matches[q]
    BY <1>0, <2>3 DEF TypeOK, RequestRows
  <2>5. RowsLinked' /\ AcceptedIffMatched'
    BY <1>0, <2>2, <2>4
  <2>6. NoticesAreTrue'
    <3>1. SUFFICES ASSUME NEW q \in Requests
                   PROVE  /\ <<"match_request", q>> \in notices => requests'[q].status # "none"
                          /\ <<"match_accepted", q>> \in notices => requests'[q].status = "accepted"
                          /\ <<"match_declined", q>> \in notices => requests'[q].status = "declined"
      BY <2>3
    <3> QED
      BY <1>0, <2>2, <2>4
  <2> QED
    BY <2>5, <2>6
<1>5. ASSUME NEW w \in Workers, Notify(w)
      PROVE  RowsLinked' /\ AcceptedIffMatched' /\ NoticesAreTrue'
  <2>1. SessionOK(session[w]) /\ session[w].pc = "notify"
    BY <1>5 DEF Notify, At, IInv
  <2>2. /\ requests' = requests /\ matches' = matches
        /\ notices' = notices \cup {<<session[w].note, session[w].request>>}
    BY <1>5 DEF Notify
  <2> QED
    BY <1>0, <2>1, <2>2 DEF SessionOK
<1>6. ASSUME NEW w \in Workers, StartWrite(w) \/ CompleteWrite(w) \/ MatchCancelWrite(w)
      PROVE  RowsLinked' /\ AcceptedIffMatched' /\ NoticesAreTrue'
  <2>1. session[w].request \in Requests /\ matches[session[w].request] # "none"
    BY <1>6 DEF StartWrite, CompleteWrite, MatchCancelWrite, At, IInv, SessionOK
  <2>2. /\ requests' = requests /\ notices' = notices
        /\ \E st \in {"in_progress", "completed", "cancelled"} :
             matches' = [matches EXCEPT ![session[w].request] = st]
    BY <1>6 DEF StartWrite, CompleteWrite, MatchCancelWrite
  <2> QED
    BY <1>0, <2>1, <2>2 DEF TypeOK
<1> QED
  BY <1>1, <1>2, <1>3, <1>4, <1>5, <1>6, TableSteps

-----------------------------------------------------------------------------
\* Locks

\* A handler takes a lock on a free row.
LEMMA LockSteps ==
  ASSUME IInv, [Next]_vars, NEW w \in Workers
  PROVE  /\ \A q \in Requests : HoldsRequest(w, q)' /\ ~HoldsRequest(w, q) => RequestFree(q)
         /\ \A r \in Rides : HoldsRide(w, r)' /\ ~HoldsRide(w, r) => RideFree(r)
<1>0. TypeOK /\ session \in [Workers -> Sessions] /\ SessionOK(session[w])
  BY DEF IInv, TypeOK
<1>a. ASSUME NEW rec, Continue(w, rec) PROVE session'[w] = rec
  BY <1>0, <1>a DEF Continue
<1>b. Finish(w) => session'[w] = Idle
  BY <1>0 DEF Finish
<1>c. ASSUME NEW kind, NEW q, Announce(w, kind, q)
      PROVE  session'[w].pc = "notify" /\ session'[w].held = {}
  <2>1. session'[w] = [Idle EXCEPT !.pc = "notify", !.note = kind, !.request = q]
    BY <1>a, <1>c DEF Announce
  <2> QED
    BY <2>1 DEF Idle
<1>1. CASE session'[w] = session[w]
  BY <1>1 DEF HoldsRequest, HoldsRide
<1>2. CASE session'[w] = Idle
  BY <1>2 DEF HoldsRequest, HoldsRide, Idle
<1>3. CASE \/ \E r \in Rides : UpdateRead(w, r) \/ PingCancelRead(w, r)
           \/ \E u \in Users, r \in Rides : JoinRead(w, u, r)
           \/ \E h \in Hosts : DeleteBegin(w, h)
  <2>1. /\ session'[w].pc \in {"update_write", "ping_cancel_write", "join_check", "delete_rows"}
        /\ session'[w].held = {}
    BY <1>3, <1>a DEF UpdateRead, PingCancelRead, JoinRead, DeleteBegin, Idle
  <2> QED
    BY <2>1 DEF HoldsRequest, HoldsRide
<1>4. CASE \E q \in Requests : \/ Decline(w, q) \/ StartRead(w, q) \/ CompleteRead(w, q)
                              \/ MatchCancelRead(w, q) \/ JoinInsert(w, q)
  <2>1. /\ session'[w].pc \in {"notify", "start_write", "complete_write", "match_cancel_write"}
        /\ session'[w].held = {}
    <3>1. CASE \E q \in Requests : Decline(w, q) \/ JoinInsert(w, q)
      BY <3>1, <1>c DEF Decline, JoinInsert
    <3>2. CASE \E q \in Requests : StartRead(w, q) \/ CompleteRead(w, q)
      BY <3>2, <1>a DEF StartRead, CompleteRead, Idle
    <3>3. CASE \E q \in Requests : MatchCancelRead(w, q)
      BY <3>3, <1>a DEF MatchCancelRead, Idle
    <3> QED
      BY <1>4, <3>1, <3>2, <3>3
  <2> QED
    BY <2>1 DEF HoldsRequest, HoldsRide
<1>5. CASE \E q \in Requests : AcceptLockRequest(w, q)
  BY <1>0, <1>5 DEF AcceptLockRequest, Continue, Idle, TypeOK, HoldsRequest, HoldsRide
<1>6. CASE JoinCheck(w) \/ AcceptCommit(w)
  <2>1. session[w] \in Sessions
    BY <1>0
  <2>4. session[w].held = {}
    BY <1>0, <1>6 DEF JoinCheck, AcceptCommit, At, SessionOK
  <2>2. session'[w].pc \in {"idle", "join_insert", "notify"} /\ session'[w].held = {}
    <3>1. JoinCheck(w) => \/ session'[w] = Idle
                          \/ session'[w] = [session[w] EXCEPT !.pc = "join_insert", !.row = NoRow]
      BY <1>a, <1>b DEF JoinCheck
    <3>2. AcceptCommit(w) => session'[w].pc = "notify" /\ session'[w].held = {}
      BY <1>c DEF AcceptCommit
    <3>3. /\ [session[w] EXCEPT !.pc = "join_insert", !.row = NoRow].pc = "join_insert"
          /\ [session[w] EXCEPT !.pc = "join_insert", !.row = NoRow].held = {}
      BY <2>1, <2>4 DEF Sessions
    <3>4. Idle.pc = "idle" /\ Idle.held = {}
      BY DEF Idle
    <3> QED
      BY <1>6, <3>1, <3>2, <3>3, <3>4
  <2> QED
    BY <2>2 DEF HoldsRequest, HoldsRide
<1>7. CASE AcceptLockRide(w)
  <2>1. /\ session[w] \in Sessions /\ session[w].pc = "accept_ride" /\ session[w].held = {}
        /\ RideFree(session[w].ride)
    BY <1>0, <1>7 DEF AcceptLockRide, At, SessionOK
  <2>2. \/ session'[w] = Idle
        \/ /\ session'[w].request = session[w].request /\ session'[w].ride = session[w].ride
           /\ session'[w].held = session[w].held
    BY <1>7, <1>a, <1>b, <2>1 DEF AcceptLockRide, Sessions
  <2> QED
    BY <2>1, <2>2 DEF HoldsRequest, HoldsRide, Idle
<1>8. CASE DeleteLock(w)
  <2> DEFINE held == IF Deletable(session[w].user, session[w].ride)
                     THEN session[w].held \cup {session[w].ride} ELSE session[w].held
  <2>1. session[w] \in Sessions /\ session[w].pc = "delete_rows" /\ RideFree(session[w].ride)
    BY <1>0, <1>8 DEF DeleteLock, At
  <2>2. \/ Continue(w, [Idle EXCEPT !.pc = "delete_commit", !.held = held])
        \/ \E r \in session[w].todo :
             Continue(w, [session[w] EXCEPT !.ride = r, !.todo = @ \ {r}, !.held = held])
    BY <1>8 DEF DeleteLock
  <2>3. held \subseteq session[w].held \cup {session[w].ride}
    OBVIOUS
  <2> HIDE DEF held
  <2>4. session'[w].pc \in {"delete_rows", "delete_commit"} /\ session'[w].held = held
    BY <2>1, <2>2, <1>a DEF Idle, Sessions
  <2> QED
    BY <2>1, <2>3, <2>4 DEF HoldsRequest, HoldsRide
<1> QED
  BY <1>0, <1>1, <1>2, <1>3, <1>4, <1>5, <1>6, <1>7, <1>8, SessionSteps DEF Begins

\* So does a job.
LEMMA JobLockSteps ==
  ASSUME TypeOK, [Next]_vars, NEW w \in Workers, NEW r \in job'[w].held, r \notin job[w].held
  PROVE  RideFree(r)
<1>1. job'[w] # job[w]
  OBVIOUS
<1>2. \/ job'[w] = NoJob \/ JobSelect(w)
      \/ \E x \in Rides : JobLock(w, x)
  BY <1>1, JobSteps
<1>3. job'[w].held = {} \/ \E x \in Rides : RideFree(x) /\ job'[w].held = job[w].held \cup {x}
  BY <1>2 DEF NoJob, JobSelect, JobLock, TypeOK
<1> QED
  BY <1>3

\* No step makes two transactions hold one row.
LEMMA StepKeepsLocks ==
  ASSUME IInv, [Next]_vars
  PROVE  LocksExclusive'
<1>1. TypeOK /\ LocksExclusive
  BY DEF IInv
<1>2. \A u \in Workers : session'[u] = session[u] =>
        /\ \A q \in Requests : HoldsRequest(u, q)' <=> HoldsRequest(u, q)
        /\ \A r \in Rides : HoldsRide(u, r)' <=> HoldsRide(u, r)
  BY DEF HoldsRequest, HoldsRide
<1>3. ASSUME NEW v \in Workers, NEW w \in Workers, v # w
      PROVE  /\ \A q \in Requests : ~(HoldsRequest(v, q) /\ HoldsRequest(w, q))'
             /\ \A r \in Rides : ~(HoldsRide(v, r) /\ HoldsRide(w, r))'
  <2>1. session'[v] = session[v] \/ session'[w] = session[w]
    BY <1>1, <1>3, SessionSteps
  <2>2. \A q \in Requests : ~(HoldsRequest(v, q) /\ HoldsRequest(w, q))'
    BY <1>1, <1>2, <1>3, <2>1, LockSteps DEF LocksExclusive, RequestFree
  <2>3. \A r \in Rides : ~(HoldsRide(v, r) /\ HoldsRide(w, r))'
    BY <1>1, <1>2, <1>3, <2>1, LockSteps DEF LocksExclusive, RideFree, NoWorkerHolds
  <2> QED
    BY <2>2, <2>3
<1>4. ASSUME NEW v \in Workers, NEW w \in Workers, v # w
      PROVE  job'[v].held \cap job'[w].held = {}
  <2>1. job'[v] = job[v] \/ job'[w] = job[w]
    BY <1>1, <1>4, JobSteps
  <2> QED
    BY <1>1, <1>4, <2>1, JobLockSteps DEF LocksExclusive, RideFree, NoJobHolds
<1>5. ASSUME NEW v \in Workers, NEW w \in Workers, NEW r \in Rides
      PROVE  ~(HoldsRide(v, r)' /\ r \in job'[w].held)
  <2>1. CASE job'[w] = job[w]
    BY <1>1, <2>1, LockSteps DEF LocksExclusive, RideFree, NoJobHolds
  <2>2. CASE job'[w] # job[w]
    <3>1. session' = session
      BY <1>1, <2>2, JobSteps
    <3> QED
      BY <1>1, <1>2, <3>1, JobLockSteps DEF LocksExclusive, RideFree, NoWorkerHolds
  <2> QED
    BY <2>1, <2>2
<1> QED
  BY <1>3, <1>4, <1>5 DEF LocksExclusive

-----------------------------------------------------------------------------
\* Sessions

\* What a session relies on survives the steps of the others: the rows it has
\* locked stay as they are, and the rest only moves in ways that do not matter.
LEMMA OthersKeepSession ==
  ASSUME IInv, [Next]_vars, NEW v \in Workers, session'[v] = session[v]
  PROVE  SessionOK(session[v])'
<1> DEFINE s == session[v]
<1>0. TypeOK /\ SessionOK(s) /\ LocksExclusive /\ s \in Sessions
  BY DEF IInv, TypeOK
<1>1. \A p \in Requests :
        /\ SettlesOnce(p)
        /\ requests[p].status # "none" => requests'[p].ride = requests[p].ride
        /\ matches[p] # "none" => matches'[p] # "none"
  BY StepSettlesOnce
\* The request it has locked is not answered by somebody else.
<1>2. ASSUME s.pc \in {"accept_ride", "accept_commit"}
      PROVE  requests'[s.request].status = "pending"
  <2>1. s.request \in Requests /\ requests[s.request].status = "pending" /\ HoldsRequest(v, s.request)
    BY <1>0, <1>2 DEF SessionOK, HoldsRequest
  <2>2. CASE UNCHANGED <<requests, matches, notices>>
    BY <2>1, <2>2
  <2>3. ASSUME NEW w \in Workers, NEW q \in Requests, JoinInsert(w, q) \/ Decline(w, q)
        PROVE  requests'[s.request].status = "pending"
    <3>1. q # s.request
      BY <2>1, <2>3 DEF JoinInsert, Decline, RequestFree
    <3> QED
      BY <1>0, <2>1, <2>3, <3>1 DEF JoinInsert, Decline, TypeOK
  <2>4. ASSUME NEW w \in Workers, AcceptCommit(w)
        PROVE  requests'[s.request].status = "pending"
    <3>1. w # v
      BY <1>0, <2>4 DEF AcceptCommit, Announce, Continue, At, Idle, TypeOK
    <3>2. HoldsRequest(w, session[w].request) /\ session[w].request \in Requests
      BY <2>4 DEF AcceptCommit, At, HoldsRequest, IInv, SessionOK
    <3>3. session[w].request # s.request
      BY <1>0, <2>1, <3>1, <3>2 DEF LocksExclusive
    <3>4. s.request \notin session[w].others
      BY <2>1, <2>4 DEF AcceptCommit, RequestFree
    <3> QED
      BY <2>1, <2>4, <3>3, <3>4 DEF AcceptCommit
  <2>5. ASSUME NEW w \in Workers,
               Notify(w) \/ StartWrite(w) \/ CompleteWrite(w) \/ MatchCancelWrite(w)
        PROVE  requests'[s.request].status = "pending"
    BY <2>1, <2>5 DEF Notify, StartWrite, CompleteWrite, MatchCancelWrite
  <2> QED
    BY <2>2, <2>3, <2>4, <2>5, TableSteps
\* While it holds the ride, nobody accepts another request for that ride.
<1>3. ASSUME s.pc = "accept_commit", NEW q \in s.others
      PROVE  requests'[q].status \in {"pending", "declined"}
  <2>1. /\ q \in Requests /\ requests[q].ride = s.ride
        /\ requests[q].status \in {"pending", "declined"}
        /\ s.ride \in Rides /\ HoldsRide(v, s.ride)
    BY <1>0, <1>3 DEF SessionOK, Sessions, HoldsRide
  <2>2. CASE UNCHANGED <<requests, matches, notices>>
    BY <2>1, <2>2
  <2>3. ASSUME NEW w \in Workers, NEW p \in Requests, JoinInsert(w, p) \/ Decline(w, p)
        PROVE  requests'[q].status \in {"pending", "declined"}
    BY <1>0, <2>1, <2>3 DEF JoinInsert, Decline, TypeOK, RequestRows
  <2>4. ASSUME NEW w \in Workers, AcceptCommit(w)
        PROVE  requests'[q].status \in {"pending", "declined"}
    <3>1. w # v
      BY <1>0, <2>4 DEF AcceptCommit, Announce, Continue, At, Idle, TypeOK
    <3>2. /\ HoldsRide(w, session[w].ride) /\ session[w].request \in Requests
          /\ session[w].ride = requests[session[w].request].ride
      BY <2>4 DEF AcceptCommit, At, HoldsRide, IInv, SessionOK
    <3>3. session[w].request # q
      BY <1>0, <2>1, <3>1, <3>2 DEF LocksExclusive
    <3> QED
      BY <1>0, <2>1, <2>4, <3>3 DEF AcceptCommit, TypeOK, RequestRows
  <2>5. ASSUME NEW w \in Workers,
               Notify(w) \/ StartWrite(w) \/ CompleteWrite(w) \/ MatchCancelWrite(w)
        PROVE  requests'[q].status \in {"pending", "declined"}
    BY <2>1, <2>5 DEF Notify, StartWrite, CompleteWrite, MatchCancelWrite
  <2> QED
    BY <2>2, <2>3, <2>4, <2>5, TableSteps
<1>4. s.pc \in {"accept_ride", "accept_commit"} =>
        /\ s.request \in Requests /\ requests'[s.request].status = "pending"
        /\ s.ride = requests'[s.request].ride
  BY <1>0, <1>1, <1>2 DEF SessionOK
<1>5. s.pc = "accept_commit" =>
        \A q \in s.others : /\ q # s.request /\ requests'[q].ride = s.ride
                            /\ requests'[q].status \in {"pending", "declined"}
  BY <1>0, <1>1, <1>3 DEF SessionOK, Sessions
<1>6. s.pc \in {"start_write", "complete_write", "match_cancel_write"} =>
        s.request \in Requests /\ matches'[s.request] # "none"
  BY <1>0, <1>1 DEF SessionOK
<1>7. s.pc = "notify" =>
        /\ s.request \in Requests
        /\ s.note = "match_request" => requests'[s.request].status # "none"
        /\ s.note = "match_accepted" => requests'[s.request].status = "accepted"
        /\ s.note = "match_declined" => requests'[s.request].status = "declined"
  BY <1>0, <1>1 DEF SessionOK, SettlesOnce
<1> QED
  BY <1>0, <1>4, <1>5, <1>6, <1>7 DEF SessionOK

\* A step leaves its own session with what the next step relies on.
LEMMA OwnSession ==
  ASSUME IInv, [Next]_vars, NEW w \in Workers, session'[w] # session[w]
  PROVE  SessionOK(session[w])'
<1> DEFINE s == session[w]
<1>0. /\ TypeOK /\ RowsLinked /\ SessionOK(s) /\ s \in Sessions /\ AcceptedIffMatched
      /\ session \in [Workers -> Sessions]
  BY DEF IInv, TypeOK
<1>a. ASSUME NEW rec, Continue(w, rec) PROVE session'[w] = rec
  BY <1>0, <1>a DEF Continue
<1>b. ASSUME Finish(w) PROVE session'[w] = Idle
  BY <1>0, <1>b DEF Finish
<1>1. CASE session'[w] = Idle
  BY <1>1 DEF SessionOK, Idle
<1>2. ASSUME NEW r \in Rides, UpdateRead(w, r) \/ PingCancelRead(w, r)
      PROVE  SessionOK(session[w])'
  <2>1. /\ session'[w].pc \in {"update_write", "ping_cancel_write"}
        /\ session'[w].ride = r /\ session'[w].held = {}
    BY <1>2, <1>a DEF UpdateRead, PingCancelRead, Idle
  <2> QED
    BY <2>1 DEF SessionOK
<1>3. ASSUME NEW u \in Users, NEW r \in Rides, JoinRead(w, u, r)
      PROVE  SessionOK(session[w])'
  <2>1. /\ session'[w].pc = "join_check" /\ session'[w].ride = r
        /\ session'[w].user = u /\ session'[w].held = {}
    BY <1>3, <1>a DEF JoinRead, Idle
  <2> QED
    BY <2>1, UsersAssumption DEF SessionOK
<1>12. ASSUME NEW h \in Hosts, DeleteBegin(w, h)
      PROVE  SessionOK(session[w])'
  <2>1. PICK r \in Rides : session'[w] = [Idle EXCEPT !.pc = "delete_rows", !.user = h, !.ride = r,
                                             !.todo = {x \in Rides : Deletable(h, x)} \ {r}]
    BY <1>12, <1>a DEF DeleteBegin
  <2>2. session'[w].pc = "delete_rows" /\ session'[w].ride = r
    BY <2>1 DEF Idle
  <2> QED
    BY <2>2 DEF SessionOK
<1>4. ASSUME NEW q \in Requests, AcceptLockRequest(w, q)
      PROVE  SessionOK(session[w])'
  <2>1. requests[q].ride \in Rides /\ requests[q].status = "pending" /\ requests' = requests
    BY <1>0, <1>4 DEF AcceptLockRequest, RowsLinked
  <2>2. session'[w] = [Idle EXCEPT !.pc = "accept_ride", !.request = q,
                                   !.ride = requests[q].ride, !.row = Loaded(requests[q].ride)]
    BY <1>4, <1>a DEF AcceptLockRequest
  <2>3. /\ session'[w].pc = "accept_ride" /\ session'[w].request = q
        /\ session'[w].ride = requests[q].ride /\ session'[w].held = {}
    BY <2>2 DEF Idle
  <2> QED
    BY <2>1, <2>3 DEF SessionOK
<1>5. ASSUME NEW q \in Requests, Decline(w, q)
      PROVE  SessionOK(session[w])'
  <2>1. requests'[q].status = "declined"
    BY <1>0, <1>5 DEF Decline, TypeOK, RequestRows
  <2> QED
    BY <1>5, <1>a, <2>1 DEF Decline, Announce, SessionOK, Idle
<1>6. ASSUME NEW q \in Requests, JoinInsert(w, q)
      PROVE  SessionOK(session[w])'
  <2>1. requests'[q].status = "pending"
    BY <1>0, <1>6 DEF JoinInsert, TypeOK
  <2> QED
    BY <1>6, <1>a, <2>1 DEF JoinInsert, Announce, SessionOK, Idle
<1>7. ASSUME NEW q \in Requests, StartRead(w, q) \/ CompleteRead(w, q)
      PROVE  SessionOK(session[w])'
  <2>1. matches'[q] # "none"
    BY <1>7 DEF StartRead, CompleteRead, MayMove, MatchTransitions
  <2> QED
    <3>1. /\ session'[w].pc \in {"start_write", "complete_write"}
          /\ session'[w].request = q /\ session'[w].held = {}
      BY <1>7, <1>a DEF StartRead, CompleteRead, Idle
    <3> QED
      BY <2>1, <3>1 DEF SessionOK
<1>8. ASSUME NEW q \in Requests, MatchCancelRead(w, q)
      PROVE  SessionOK(session[w])'
  <2>1. matches[q] # "none" /\ matches' = matches
    BY <1>8 DEF MatchCancelRead, MayMove, MatchTransitions
  <2>2. requests[q].ride \in Rides
    BY <1>0, <2>1 DEF RowsLinked
  <2> QED
    BY <1>8, <1>a, <2>1, <2>2 DEF MatchCancelRead, SessionOK, Idle
<1>9. CASE JoinCheck(w)
  <2>1. \/ session'[w] = Idle
        \/ session'[w] = [s EXCEPT !.pc = "join_insert", !.row = NoRow]
    BY <1>9, <1>a, <1>b DEF JoinCheck
  <2>2. s.ride \in Rides /\ s.user \in Users /\ s.held = {}
    BY <1>0, <1>9 DEF JoinCheck, At, SessionOK
  <2>3. CASE session'[w] = [s EXCEPT !.pc = "join_insert", !.row = NoRow]
    <3>1. /\ session'[w].pc = "join_insert" /\ session'[w].ride = s.ride
          /\ session'[w].user = s.user /\ session'[w].held = s.held
      BY <1>0, <2>3 DEF Sessions
    <3> QED
      BY <2>2, <3>1 DEF SessionOK
  <2> QED
    BY <1>1, <2>1, <2>3
<1>10. CASE AcceptLockRide(w)
  <2> DEFINE others == IF LastSeat(s.row) THEN PendingOn(s.ride) \ {s.request} ELSE {}
  <2>1. \/ session'[w] = Idle
        \/ session'[w] = [s EXCEPT !.pc = "accept_commit", !.others = others]
    BY <1>10, <1>a, <1>b DEF AcceptLockRide
  <2>2. /\ s.ride \in Rides /\ s.request \in Requests /\ requests[s.request].status = "pending"
        /\ s.ride = requests[s.request].ride /\ s.held = {} /\ requests' = requests
    BY <1>0, <1>10 DEF AcceptLockRide, At, SessionOK
  <2>3. \A q \in others : q # s.request /\ requests[q].ride = s.ride /\ requests[q].status = "pending"
    BY DEF PendingOn
  <2> HIDE DEF others
  <2>4. CASE session'[w] = [s EXCEPT !.pc = "accept_commit", !.others = others]
    <3>1. /\ session'[w].pc = "accept_commit" /\ session'[w].ride = s.ride
          /\ session'[w].request = s.request /\ session'[w].others = others
          /\ session'[w].held = s.held
      BY <1>0, <2>4 DEF Sessions
    <3> QED
      BY <2>2, <2>3, <3>1 DEF SessionOK
  <2> QED
    BY <1>1, <2>1, <2>4
<1>11. CASE AcceptCommit(w)
  <2>1. s.request \in Requests
    BY <1>0, <1>11 DEF AcceptCommit, At, SessionOK
  <2>2. requests'[s.request].status = "accepted"
    BY <1>0, <1>11, <2>1 DEF AcceptCommit, TypeOK, RequestRows
  <2> QED
    BY <1>11, <1>a, <2>1, <2>2 DEF AcceptCommit, Announce, SessionOK, Idle
<1>13. CASE DeleteLock(w)
  <2> DEFINE held == IF Deletable(s.user, s.ride) THEN s.held \cup {s.ride} ELSE s.held
  <2>1. s.pc = "delete_rows"
    BY <1>13 DEF DeleteLock, At
  <2>2. \/ Continue(w, [Idle EXCEPT !.pc = "delete_commit", !.held = held])
        \/ \E r \in s.todo :
             Continue(w, [s EXCEPT !.ride = r, !.todo = @ \ {r}, !.held = held])
    BY <1>13 DEF DeleteLock
  <2> HIDE DEF held
  <2>3. \/ session'[w].pc = "delete_commit"
        \/ session'[w].pc = "delete_rows" /\ session'[w].ride \in Rides
    <3>1. ASSUME NEW r \in s.todo,
                 Continue(w, [s EXCEPT !.ride = r, !.todo = @ \ {r}, !.held = held])
          PROVE  session'[w].pc = "delete_rows" /\ session'[w].ride \in Rides
      <4>1. session'[w] = [s EXCEPT !.ride = r, !.todo = s.todo \ {r}, !.held = held]
        BY <1>a, <3>1
      <4>2. r \in Rides /\ s \in Sessions
        BY <1>0 DEF Sessions
      <4> QED
        BY <2>1, <4>1, <4>2 DEF Sessions
    <3>2. CASE Continue(w, [Idle EXCEPT !.pc = "delete_commit", !.held = held])
      BY <1>a, <3>2 DEF Idle
    <3> QED
      BY <2>2, <3>1, <3>2
  <2> QED
    BY <2>3 DEF SessionOK
<1> QED
  BY <1>1, <1>2, <1>3, <1>4, <1>5, <1>6, <1>7, <1>8, <1>9, <1>10, <1>11, <1>12, <1>13, <1>0,
     SessionSteps DEF Begins

-----------------------------------------------------------------------------
\* The invariant and what it gives

\* Every step keeps the invariant.
LEMMA StepInvariant == IInv /\ [Next]_vars => IInv'
<1> SUFFICES ASSUME IInv, [Next]_vars PROVE IInv'
  OBVIOUS
<1>1. ASSUME NEW w \in Workers PROVE SessionOK(session[w])'
  BY OthersKeepSession, OwnSession
<1> QED
  BY <1>1, StepTyped, StepKeepsTables, StepKeepsLocks DEF IInv

\* The invariant holds in every reachable state.
LEMMA Invariance == Spec => []IInv
  BY InitInvariant, StepInvariant, PTL DEF Spec

\* Every reachable state is well typed: no step of a handler or of the job leaves
\* a row, a session or a notification that does not fit its table.
THEOREM TypeCorrect == Spec => []TypeOK
<1>1. IInv => TypeOK
  BY DEF IInv
<1> QED
  BY <1>1, Invariance, PTL

\* However many processes accept, decline and fail at once, a request is accepted
\* exactly when a match was made from it.
THEOREM AcceptedMatched == Spec => []AcceptedIffMatched
<1>1. IInv => AcceptedIffMatched
  BY DEF IInv
<1> QED
  BY <1>1, Invariance, PTL

\* No notification tells of an answer that was not given or was undone later.
THEOREM NoticesTrue == Spec => []NoticesAreTrue
<1>1. IInv => NoticesAreTrue
  BY DEF IInv
<1> QED
  BY <1>1, Invariance, PTL

\* The row locks of accept_request and decline_request are enough for this: no
\* number of processes can answer a request twice or overwrite an answer.
THEOREM SettledOnce == Spec => RequestSettledOnce
<1>1. IInv /\ [Next]_vars => [\A q \in Requests : SettlesOnce(q)]_vars
  BY StepSettlesOnce
<1> QED
  BY <1>1, Invariance, PTL DEF Spec, RequestSettledOnce

-----------------------------------------------------------------------------
\* Waits for locks

\* A job has locked only rows that come before those it has left: flushes of
\* two jobs meet in one order.
JobsOrdered ==
  \A w \in Workers : \A r \in job[w].held, x \in Left(w) : Key[r] < Key[x]

LEMMA StepKeepsJobsOrdered ==
  ASSUME IInv, [Next]_vars, JobsOrdered
  PROVE  JobsOrdered'
<1> SUFFICES ASSUME NEW w \in Workers, NEW r \in job'[w].held,
                    NEW x \in job'[w].stale \ job'[w].held
             PROVE  Key[r] < Key[x]
  BY DEF JobsOrdered, Left
<1>0. TypeOK
  BY DEF IInv
<1>1. CASE job'[w] = job[w]
  BY <1>1 DEF JobsOrdered, Left
<1>2. CASE job'[w] # job[w]
  <2>1. \/ job'[w] = NoJob \/ JobSelect(w)
        \/ \E y \in Rides : JobLock(w, y)
    BY <1>0, <1>2, JobSteps
  <2>2. PICK y \in Rides : JobLock(w, y)
    BY <1>0, <2>1 DEF NoJob, JobSelect, TypeOK
  <2>3. /\ job'[w].held = job[w].held \cup {y} /\ job'[w].stale = job[w].stale
        /\ job[w].stale \subseteq Rides
    BY <1>0, <2>2 DEF JobLock, TypeOK
  <2>4. x \in Left(w) /\ x # y /\ Turn(w, y) /\ x \in Rides
    BY <2>2, <2>3 DEF JobLock, Left
  <2>5. CASE r = y
    BY <2>4, <2>5, KeysAssumption DEF Turn
  <2>6. CASE r # y
    BY <2>3, <2>4, <2>6 DEF JobsOrdered
  <2> QED
    BY <2>5, <2>6
<1> QED
  BY <1>1, <1>2

\* Some ride of a set comes last in the order of keys.
LEMMA LastByKey ==
  ASSUME NEW S \in SUBSET Rides, S # {}
  PROVE  \E r \in S : \A x \in S : ~(Key[r] < Key[x])
<1> DEFINE Later(r) == {x \in Rides : Key[r] < Key[x]}
           T == {Later(r) : r \in S}
<1>1. \A r \in Rides : Key[r] \in Int
  BY KeysAssumption
<1>2. IsWellFoundedOn(StrictSubsetOrdering(Rides), SUBSET Rides)
  <2>1. FiniteSubsetsOf(Rides) = SUBSET Rides
    BY BoundsAssumption, FS_FiniteSubsetsOfFinite
  <2> QED
    BY <2>1, FS_StrictSubsetOrderingWellFounded
<1>3. T \subseteq SUBSET Rides /\ T # {}
  OBVIOUS
<1>4. PICK m \in T : \A y \in T : ~(<<y, m>> \in StrictSubsetOrdering(Rides))
  <2> HIDE DEF T
  <2> QED
    BY <1>2, <1>3, WFMin
<1>5. PICK r \in S : m = Later(r)
  BY <1>4
<1>6. ASSUME NEW x \in S, Key[r] < Key[x]
      PROVE  FALSE
  <2>1. Later(x) \subseteq Later(r)
    BY <1>1, <1>6
  <2>2. x \in Later(r) /\ x \notin Later(x)
    BY <1>1, <1>6
  <2>3. <<Later(x), Later(r)>> \in StrictSubsetOrdering(Rides)
    <3>1. Later(x) \in SUBSET Rides /\ Later(r) \in SUBSET Rides
      OBVIOUS
    <3>2. Later(x) # Later(r)
      BY <2>2
    <3> HIDE DEF Later
    <3> QED
      BY <2>1, <3>1, <3>2 DEF StrictSubsetOrdering
  <2> QED
    BY <1>4, <1>5, <2>3
<1> QED
  BY <1>6

\* An accept that holds its ride waits for a request only when the accept that
\* locked the request waits for that ride: two accepts do not hold one ride.
LEMMA AcceptWaitsForAccept ==
  ASSUME IInv, NEW w \in Workers, NEW u \in Txns,
         At(w, "accept_commit"), WaitsFor(<<w, "handler">>, u)
  PROVE  u[1] \in Workers /\ u = <<u[1], "handler">> /\ Deadlock(w, u[1])
<1> DEFINE v == u[1]
<1>0. v \in Workers /\ u = <<u[1], u[2]>>
  BY DEF Txns
<1>1. u[2] = "handler" /\ \E q \in session[w].others : q \in Requests /\ HoldsRequest(v, q)
  BY DEF WaitsFor, NeedsRide, NeedsRequest, At
<1>2. PICK q \in session[w].others : q \in Requests /\ HoldsRequest(v, q)
  BY <1>1
<1>3. /\ session[w] \in Sessions /\ SessionOK(session[w]) /\ SessionOK(session[v])
      /\ session[w].pc = "accept_commit" /\ session[w].ride \in Rides
  BY <1>0 DEF IInv, TypeOK, At, SessionOK
<1>4. q # session[w].request /\ requests[q].ride = session[w].ride
  BY <1>2, <1>3 DEF SessionOK
<1>5. /\ session[v].request = q /\ session[v].ride = session[w].ride /\ v # w
      /\ session[v].pc \in {"accept_ride", "accept_commit"}
  BY <1>2, <1>3, <1>4 DEF HoldsRequest, SessionOK
<1>6. session[v].pc # "accept_commit"
  BY <1>0, <1>3, <1>5 DEF IInv, LocksExclusive, HoldsRide
<1> QED
  BY <1>0, <1>1, <1>2, <1>3, <1>5, <1>6 DEF Deadlock, At

\* Without such an accept and without a DELETE, a wait is for a job's row.
LEMMA OthersWaitForJobs ==
  ASSUME IInv, NEW t \in Txns, NEW u \in Txns, WaitsFor(t, u),
         \A x \in {t, u} : x[2] = "handler" => ~At(x[1], "accept_commit") /\ ~Deleting(x[1])
  PROVE  /\ u[2] = "job"
         /\ t[2] = "job" => \E r \in job[u[1]].held : Turn(t[1], r)
<1>1. t[1] \in Workers /\ u[1] \in Workers
  BY DEF Txns
<1>2. u[2] = "handler" => \A r : ~HoldsRide(u[1], r)
  BY <1>1 DEF HoldsRide, At, Deleting, IInv, SessionOK
<1>3. u[2] \in {"handler", "job"}
  BY DEF Txns
<1>4. t[2] = "handler" => \A q : ~NeedsRequest(t[1], q)
  BY DEF NeedsRequest, At, Deleting
<1> QED
  BY <1>2, <1>3, <1>4 DEF WaitsFor, HasRide

\* However many processes and rides there are, every circle of waits among
\* handlers and jobs holds two accepts of one ride or a bulk DELETE: a circle of
\* jobs alone would have to run down the order of keys.
THEOREM NoOtherDeadlock == Spec => []OnlyKnownDeadlocks
<1>1. Init => JobsOrdered
  BY DEF Init, NoJob, JobsOrdered
<1>2. IInv /\ JobsOrdered /\ [Next]_vars => JobsOrdered'
  BY StepKeepsJobsOrdered
<1>3. IInv /\ JobsOrdered => OnlyKnownDeadlocks
  <2> SUFFICES ASSUME IInv, JobsOrdered, NEW ring \in SUBSET Txns, ring # {},
                      \A t \in ring : \E u \in ring : WaitsFor(t, u),
                      \A w \in Workers : <<w, "handler">> \in ring => ~Deleting(w)
               PROVE  \E v, w \in Workers :
                        {<<v, "handler">>, <<w, "handler">>} \subseteq ring /\ Deadlock(v, w)
    BY DEF OnlyKnownDeadlocks
  <2>1. ASSUME NEW w \in Workers, <<w, "handler">> \in ring, At(w, "accept_commit")
        PROVE  \E v \in Workers :
                 {<<w, "handler">>, <<v, "handler">>} \subseteq ring /\ Deadlock(w, v)
    <3>1. PICK u \in ring : WaitsFor(<<w, "handler">>, u)
      BY <2>1
    <3>2. u[1] \in Workers /\ u = <<u[1], "handler">> /\ Deadlock(w, u[1])
      BY <2>1, <3>1, AcceptWaitsForAccept
    <3> QED
      BY <2>1, <3>1, <3>2
  <2>2. ASSUME \A w \in Workers : <<w, "handler">> \in ring => ~At(w, "accept_commit")
        PROVE  FALSE
    <3>1. ASSUME NEW t \in ring, t[2] = "handler"
          PROVE  ~At(t[1], "accept_commit") /\ ~Deleting(t[1])
      <4>1. t = <<t[1], "handler">> /\ t[1] \in Workers
        BY <3>1 DEF Txns
      <4> QED
        BY <2>2, <4>1
    <3>2. \A t \in ring, u \in ring : WaitsFor(t, u) =>
            /\ u[2] = "job"
            /\ t[2] = "job" => \E r \in job[u[1]].held : Turn(t[1], r)
      BY <3>1, OthersWaitForJobs
    <3> DEFINE S == {r \in Rides : \E t \in ring : t[2] = "job" /\ Turn(t[1], r)}
    <3>3. ASSUME NEW t \in ring, t[2] = "job"
          PROVE  \E r \in Rides : Turn(t[1], r)
      BY <3>2, <3>3 DEF WaitsFor
    <3>4. S # {}
      BY <3>2, <3>3
    <3>5. PICK r \in S : \A x \in S : ~(Key[r] < Key[x])
      <4> HIDE DEF S
      <4>1. S \in SUBSET Rides
        BY DEF S
      <4> QED
        BY <3>4, <4>1, LastByKey
    <3>6. PICK t \in ring : t[2] = "job" /\ Turn(t[1], r)
      OBVIOUS
    <3>7. PICK u \in ring : WaitsFor(t, u)
      OBVIOUS
    <3>8. u[2] = "job" /\ u[1] \in Workers /\ t[1] \in Workers
      BY <3>2, <3>7 DEF Txns
    <3>9. r \in job[u[1]].held
      <4>1. PICK y \in job[u[1]].held : Turn(t[1], y)
        BY <3>2, <3>6, <3>7
      <4>2. y \in Left(t[1]) /\ r \in Left(t[1]) /\ y \in Rides /\ r \in Rides
        BY <3>6, <3>8, <4>1 DEF Turn, IInv, TypeOK
      <4>3. Key[y] <= Key[r] /\ Key[r] <= Key[y] /\ Key[y] \in Int /\ Key[r] \in Int
        BY <3>6, <4>1, <4>2, KeysAssumption DEF Turn
      <4> QED
        BY <4>1, <4>2, <4>3, KeysAssumption
    <3>10. PICK x \in Rides : Turn(u[1], x)
      BY <3>3, <3>8
    <3>11. Key[r] < Key[x] /\ x \in S
      BY <3>8, <3>9, <3>10 DEF JobsOrdered, Turn
    <3> QED
      BY <3>5, <3>11
  <2> QED
    BY <2>1, <2>2
<1> QED
  BY <1>1, <1>2, <1>3, Invariance, PTL DEF Spec
=============================================================================
