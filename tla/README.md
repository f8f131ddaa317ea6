# Letzgo backend: TLA+ models of a ride-sharing service

Letzgo is a ride-sharing backend (FastAPI, SQLAlchemy, PostgreSQL, APScheduler).
A host publishes a *ride ping*, guests ask to join, the host accepts or declines,
and a match is started and completed; the two chat over HTTP and WebSockets, and
administrators watch over both. This directory holds TLA+ modules of that core and of the
feeds, the accounts, the chat, the sockets and the dashboard around it, TLC configurations
that check them on small instances, and proofs that TLAPS checks for every size. Paths such as `match_service.py:182` are below
`src/app/services/` unless another directory is given.

## Contents

1. [The system](#the-system)
2. [What is modelled, and how](#what-is-modelled-and-how)
3. [What the runs check](#what-the-runs-check)
4. [Bounds and fairness](#bounds-and-fairness)
5. [What is proved](#what-is-proved)
6. [What the code does otherwise than it says](#what-the-code-does-otherwise-than-it-says)
7. [What is not modelled, and why](#what-is-not-modelled-and-why)
8. [Plan](#plan)
9. [How to run it](#how-to-run-it)

## The system

### Components

| Component | State | Operations | What makes it correct |
|---|---|---|---|
| **Matching** (`match_service.py`, `ride_state_service.py`, `api/v1/matches.py`) | `match_requests`, `matches`, and the count and status in `ride_pings` | `request_join`, `accept_request`, `decline_request`, `start_ride`, `complete_ride`, `cancel_match` | seats are counted, no ride is overbooked, a request is answered once, one guest has one seat, the rules of admission hold when a row is written |
| **Rides** (`ping_service.py`, `api/v1/pings.py`) | `ride_pings` | `create_ping`, `update_ping`, `cancel_ping`, `delete_expired_pings_for_host` | a ride follows its life cycle; a ride that was asked for is not deleted; its lists agree with its row |
| **Expiry job** (`tasks/expire_pings.py`, `ping_service.py:300-314`) | a database session of its own | `expire_stale_pings`, every minute, in a thread of every process (`main.py:88`) | a ride does not stay open past its expiry; handlers in progress are not corrupted |
| **Notifications** (`notification_service.py`, `api/v1/notifications.py`) | `notifications`, `device_tokens` | `create_notification`, mark as read, register a token | a notice tells something that happened |
| **Blocks and reports** (`report_service.py`, `core/permissions.py`, `api/v1/reports.py`) | `blocked_users`, `reports` | `create_report`, `block_user` | a pair that is blocked is not shown to each other and does not ask |
| **Discovery** (`ping_service.py:64-259`, `api/v1/pings.py`, `api/v1/rides.py`) | none, it reads `ride_pings` | nearby and find | what is shown can be joined, what can be joined is shown |
| **WebSockets** (`websocket_manager.py`, `websocket/handlers/chat_handler.py`) | `active_connections` and `rooms`, in memory | connect, join, broadcast, leave, disconnect | members of a room get its messages; nothing of a closed connection is left |
| **Chat** (`chat_service.py`, `api/v1/chat.py`) | `chat_messages` | send, history | either id names one conversation; replies come after what they answer; nobody else reads it |
| **Accounts** (`user_service.py`, `api/v1/auth.py`, `api/v1/users.py`, `scripts/create_admin.py`) | `profiles`, the avatar files, tokens | sign-in by phone, onboarding, profile and avatar changes, promotion | one account per phone; what one handler decides no other takes back; a row and its file agree |
| **Administration** (`api/v1/admin.py`) | `profiles`, `reports`, `matches` | block accounts, read lists by page, review reports, resolve disputes | a list that is read to its end misses nothing; rates are rates |
| **Ratings, fares, geocoding, configuration** | `ratings`; none | | no behaviour to check: see below |

### Interactions

All components share one PostgreSQL database (READ COMMITTED) and call each other
as functions of one process: routes call services, `MatchService` reads
`ride_pings` and `blocked_users`, calls `RideStateMachine` for the table of
transitions and `NotificationService` after its own commit. The scheduler's thread
shares nothing with the handlers except the database. WebSocket handlers share the
manager's dictionaries and run on the event loop, with an `await` at every send.

### What is hard

* **Two kinds of concurrency.** A route is a coroutine that never awaits, so one
  process runs one HTTP handler at a time; the expiry job runs in a thread
  and commits between any two of a handler's statements. A second process, for
  which the row locks of `accept_request` are written, lets handlers interleave too, and
  brings a scheduler and a job of its own.
* **Stale rows.** SQLAlchemy keeps the objects of a session. `accept_request`
  locks the request first; the joined relation brings the ride into the session at
  that moment, and the `SELECT ... FOR UPDATE` of the ride that follows returns
  that object unrefreshed. All later checks, and the new `current_passengers`, use it.
* **Locks and deadlocks.** Two accepts of one ride: one holds the ride and must
  decline a request that the other has locked while it waits for the ride. The jobs of two processes
  and the bulk DELETE of expired rides lock many rows, one by one.
* **Partial failure.** A handler has two transactions: the answer, and then its
  notice. Either may fail, and a failed second one reports an error for an
  answer that stands.
* **Two identities of one thing.** A conversation has a request's id and a match's; a
  phone number has several spellings.
* **Reading what is being written.** A list is read in pages of two SELECTs each, by
  OFFSET, while its rows come and go. `created_at` is the time a transaction began, not
  when it was committed.
* **A file and a row.** The avatar is written and the old one removed before the row changes.
* **Boundaries.** The last seat, a ride with no seat at all (`max_passengers` is not
  checked), a ride exactly at its expiry (`<`, `<=` and `>` are all used).

`PROJECT.json` lists each hazard at its line, with the properties that watch it.

## What is modelled, and how

| Module | What it is |
|---|---|
| `RideMatching` | the matching core: rides, requests, matches, notices, blocks, the sessions of the handlers, the expiry job, failures; all properties |
| `RideBooking` | what the core promises: a ledger of seats and claims without handlers, locks or a scheduler |
| `Discovery` | extends `RideMatching` by the two feeds and the two lists of a ride, as operators on its state |
| `ChatSockets` | the WebSocket manager and the handlers that use it |
| `Accounts` | `profiles`, the avatar files and the sessions of the handlers that write them |
| `PhoneBook` | what sign-in promises: a number gets one account and keeps it |
| `Conversation` | messages under the ids of a request and of its match |
| `Correspondence` | what chat promises: one log per conversation, which only its two people write and read |
| `Dashboard` | the administrators' lists, read page by page, and the cancellation rate |
| `MC...` | the instances that TLC checks; each `.cfg` is `MC<module>_<run>.cfg` |
| `RideMatchingProofs` | the inductive invariant for any number of processes and the theorems that follow |
| `RideBookingProofs` | the invariant of one process: seats, capacity, claims |
| `RideBookingRefinement` | one process implements the ledger |
| `ChatSocketsProofs` | the inductive invariant of the sockets and its theorems |
| `AccountsProofs` | the invariants of sign-in and of the photos, and the refinement of `PhoneBook` |
| `DiscoveryProofs` | the feeds and `request_join` agree, from the invariant of `RideMatchingProofs` |
| `DashboardProofs` | how far departures shift a list that is read by page, and the theorems of `Dashboard` |
| `ConversationProofs` | the invariant of chat over HTTP, and the refinement of `Correspondence` |

### Matching: state

| Variable | Code |
|---|---|
| `rides` | `ride_pings`: status, host, `max_passengers`, `current_passengers`, preference, and `due`, which says whether now is before, at or after `expires_at` |
| `requests` | `match_requests`: status, ride, guest |
| `matches` | `matches`: the status of the match that was made from a request. `accept_request` is the only code that inserts a match, so a match is named by its request |
| `notices` | `notifications`: type and request |
| `blocked` | `blocked_users` |
| `session` | per process, the handler in progress: the step it is at and the rows it has read |
| `job` | per process, the transaction of its scheduler's job: the rows it selected and the row locks it holds |
| `failures` | how many handlers or jobs have died (a bound) |

### Matching: actions

A handler is cut exactly where another transaction can come between: after a read
on which a later write depends, and where a lock is awaited.

| Code | Actions |
|---|---|
| `create_ping` | `CreatePing` |
| `update_ping` | `UpdateRead`, `UpdateWrite` |
| `cancel_ping` | `PingCancelRead`, `PingCancelWrite` |
| `delete_expired_pings_for_host` | `DeleteBegin` (the snapshot), `DeleteLock` per row, then `DeleteCommit`, or `DeleteRefused` (a foreign key) |
| `request_join` | `JoinRead` (ride, profile, preference, capacity), `JoinCheck` (blocks, own rows), `JoinInsert` |
| `accept_request` | `AcceptLockRequest`, `AcceptLockRide`, then `AcceptCommit`, or `AcceptDuplicate` (unique constraint), or `DeadlockVictim` |
| `decline_request` | `Decline` |
| `start_ride`, `complete_ride`, `cancel_match` | `StartRead`/`StartWrite`, `CompleteRead`/`CompleteWrite`, `MatchCancelRead`/`MatchCancelWrite` |
| `create_notification` | `Notify`, the second transaction of join, accept and decline |
| `block_user` | `Block` |
| `expire_stale_pings` | `JobSelect`, `JobLock` per row, `JobCommit`, or `JobVanished` (a row was deleted), or `JobVictim` (a deadlock) |
| the routes, with the inputs of a client | `PostPing`, `ChangePing`, `DeletePings`, `RequestCalls`, `MatchCalls`, `BlockCalls`, the parts of `Call` |
| a lost connection, a killed process | `WorkerFails`, `JobFails` |
| a row deleted under a session | `RideVanished` |
| the clock | `Tick` |

### Matching: reductions

* `decline_request` holds its request's lock from its only read to its commit: one
  action. The SELECTs of `accept_request` after the ride is locked are part of
  `AcceptLockRide`; the locks for the requests to decline are taken when the session
  writes, in `AcceptCommit`.
* A lock on a request is not a variable of its own: `HoldsRequest` says which session holds it from
  the step it is at, and so does `HoldsRide` of an accept. Deletes and jobs keep the rides they have locked in `held`.
* The job's UPDATEs go in the order of primary keys (`Key`, `Turn`), in which SQLAlchemy flushes them. A bulk
  DELETE locks rows in the order of its scan: any order. Under READ COMMITTED it tests a row again once it is
  locked, and checks the foreign keys when all rows are locked.
* A transaction waits for whoever holds what it needs (`WaitsFor`); PostgreSQL aborts one of those that
  wait in a circle (`OnCircle`, `DeadlockVictim`, `JobVictim`), any one of them.
* A column that the code does not test and that no property mentions is left out.
  Profiles (gender, completeness) do not change during a run.
* `cancel_match` exists in the service, and the repository's README lists its route,
  but no route calls it. `CancelRouted` switches it on (run `one_worker`) and off.
* A PATCH may write any string to a ride's status; `PatchStatuses` bounds the set. A
  PATCH with explicit nulls is not modelled. `female_only` does not fit the column
  (`models/ride_ping.py:21`, ten characters): `Fits` makes such a write fail, as
  PostgreSQL does.

### Sockets

`ChatSockets` depends on none of the other modules: its handlers touch no table.

| Variable | Code |
|---|---|
| `connections` | `active_connections` of the manager: the sockets listed |
| `rooms` | `rooms`: the rooms that list the user |
| `handler` | the coroutine of each socket: waiting in `receive`, or in a `send_json` of a broadcast, with what its iterator will still return and the size of the set when it began |
| `received`, `inbox` | the messages a handler took, and those sent to a socket |
| `gone` | the sockets whose client left |

| Code | Actions |
|---|---|
| `connect`, then `join_room` | `Connect`, `Refuse` (no token, or the handshake fails) |
| `receive_json`, `receive_text` | `Receive`, `BadMessage`, `HearsLeaving` |
| `broadcast_to_room`, `send_personal_message` | `Receive` to the first socket, `NextSend` to each further one, `SendsDone`, `IterationFails` |
| the `finally` blocks: `leave_room`, `disconnect` | `Exit`, part of every action that ends a handler |
| a client closes | `ClientLeaves` |

* An action runs from the end of one `await` to the next: nothing else runs on the
  event loop in between.
* Every handler passes the same user id (`chat_handler.py:18`), so the manager's dictionaries have one
  key and become sets. `verify_websocket_token`, which would tell users apart, is never
  called; the handler of `/ws/matches` is empty.
* An iterator over a set raises when the set's *size* is not what it was at the start, and
  notices nothing when one socket came and another went. A socket that came may have
  rehashed the set, and then the iterator returns any of its members, some twice:
  `Connect` chooses.
* Bytes for a client that left are lost, or the send raises. That error, like the
  iterator's, ends the handler of the *sender*.

### Discovery

The feeds and the lists write nothing: `Listed`, `NearbyPings` and `FindRides` are operators over the tables of
`RideMatching`, so that every reachable state of matching, with its expiries, PATCHes, blocks and
full rides, is one in which they are compared with `MayAsk`, the checks of `request_join` up to
the block test. Distance is abstracted (every ride is in reach, and there are no more than
the twenty that fit a page). `NearbyPings` takes the gender the client sends. `PendingRequests` is what a
host sees waiting (`get_pending_requests_for_ride`); `Passengers` and `MaySeePassengers` are the list of
`get_ride_passengers` and who may open it.

### Accounts

| Variable | Code |
|---|---|
| `profiles` | the rows of `profiles`: phone, onboarding, admin, blocked, avatar |
| `disk` | the files under `uploads/avatars` |
| `named` | history: the local files that a client itself wrote into an `avatar_url` |
| `signedIn` | the tokens given out: at which door, for the number *as it was sent*, for which account |
| `session` | per process, the handler between its SELECT and its commit, with the row it loaded |
| `failures` | handlers that died (a bound) |

| Code | Actions |
|---|---|
| `verify_otp` | `Verify` (the number is known), `VerifyRead` and `VerifyInsert` (it is not) |
| `register` | `RegisterRead`, `RegisterInsert`, `RegisterOnboard` (two transactions), or `RegisterLoad`, `RegisterWrite` |
| the unique index on `phone` | `InsertRefused` |
| `admin_login` | `AdminLogin` |
| `PATCH /me` | `PatchRead`, `PatchWrite`, or `NameRefused` (a NULL name) |
| `POST /me/avatar` | `UploadRead`, `UploadFile`, `UploadUnlink`, `UploadCommit` |
| `admin.block_user`, `unblock_user` | `BlockRead`/`BlockWrite`, `UnblockRead`/`UnblockWrite` |
| `create_admin.py` | `PromoteRead`, `PromoteWrite` |
| a lost connection, a killed process | `WorkerFails` |

* SQLAlchemy writes only the columns whose value is no longer the one loaded: `Flush`. Most of
  what `Accounts` shows rests on that, and the mutant `FlushWholeRow` shows it.
* A client may put any string into `avatar_url` (`schemas/user.py:18`): NULL, a picture elsewhere, a file of their
  own that was removed, or another user's. `SentAvatars` is what they send, and `named` remembers the local
  files among it, except a value sent back as it was loaded, which writes nothing. `create_admin.py` is taken to set
  a password. An error of the unlink, which the code swallows, is not modelled.
* Two doors: `verify_otp` and `register` look a number up as it was sent (`api/v1/auth.py:80`), `admin_login`
  normalized (`:41`). `Number` is what a door looks up; a sign-in is recorded with what was sent.

### Conversation

`messages` are the rows of `chat_messages`, `matches` says which requests are accepted and whether
the match links back to its request (older matches, `Legacy`, do not), `session` is a row stamped
and not yet committed, and `seen` what each user has sent or read. `Accept`, `SendBegin`,
`SendCommit`, `SendFails` and `Read` are acceptance, the two ends of `save_message` and
`get_chat_history`. A stamp is `now()` of PostgreSQL: the time the transaction began. Stamps are
told apart; two transactions that begin in one microsecond are not modelled.

`Correspondence` knows neither ids nor tables: a chat has a log, a letter is added to it by one of its
two people, and a look shows the newest letters. A message belongs to the chat of its request, or of
its match when it carries no request (`ChatOf`).

### Dashboard

`view` is the list that is looked at, `rows` its table in the order of `created_at`, `walk` the
reading and `stats` the reading of the rate. The routes of other modules write single
rows (`SignUp`, `SetBlocked`, `CreateRide`, `MoveRide`, `StartTrip`, `CompleteTrip`, `CreateReport`,
`DecideReport`); `OpenList` and `NextPage` are the count of a page, `ReadPage` its rows. All five
lists share those three, since all are `count`, `offset` and `limit` of one query (`Listed`). The
`walk` also remembers what was listed from beginning to end (`from`), how many rows left the list
meanwhile, and how many came between the last count and its rows. `MoveRide` may take a ride from
any status to any other that some handler or the job, perhaps with a stale row, may write, and `StartTrip` may
take a completed match back to `in_progress`, as two processes can.

## What the runs check

| Run | Instance | Checks |
|---|---|---|
| `one_worker` | one process and the job, three guests, four requests, one ride with two seats or none, one failure, `cancel_match` routed | `TypeOK`, `SeatAccounting`, `NoOverbooking`, `FullRideHasNoPending`, `OneClaimPerGuest`, `ListsAgree`, `NoticesAreTrue`, `AcceptedIffMatched`, `MatchesFollowTable`, and `ImplementsBooking` (refinement) |
| `admission` | one process, a woman, an incomplete profile, one block, four preferences | `JoinsAreAdmitted`, `ShownRidesAdmit`, `AdmittingRidesAreShown` |
| `two_workers` | two processes with a job each, a guest with two requests for one ride, with fairness | `RequestSettledOnce`, `OnlyKnownDeadlocks`, `HandlersFinish` |
| `scheduler` | two processes with a job each, one host, two rides, no guests, with fairness | `OnlyKnownDeadlocks`, `StaleRidesClose` |
| `closed_ride` | one process and the job | `AcceptsOpenRide` is violated |
| `preference` | one process | `PreferenceEnforced` is violated |
| `overbooked` | two processes | `NoOverbooking` is violated |
| `broadcast` | two sockets of a chat room and a notification socket, with fairness | `TypeOK`, `NothingOutlivesHandlers`, `NoSendAfterLeaving`, `BroadcastsEnd`, `LeaversEnd` |
| `lost_message` | two sockets of a chat room | `MessagesReachRoom` is violated |
| `accounts` | two processes, a number in two spellings, two accounts, two files, one failure | `TypeOK`, `OneAccountPerNumber`, `PhotosExist`, `DecisionsStand`, and `ImplementsPhoneBook` (refinement) |
| `dashboard` | ten views, three rows, pages of one and two rows, two departures | `TypeOK`, `WalkComplete`, `MissesExplained`, `RateIsPercentage` |
| `conversation` | a host, two guests, an old match and a new request, two processes, three messages, limits 0, 1, 2 | `TypeOK`, `HistoriesAgree`, `ReplyFollows`, `PrivateConversations`, and `ImplementsCorrespondence` (refinement) |

* **SeatAccounting, NoOverbooking, FullRideHasNoPending.** `current_passengers`, written
  from a row that was read earlier, equals the number of matches that stand; it never
  passes the capacity; once the ride is full nobody waits. The job writes the same rows in
  between, but other columns, and SQLAlchemy writes only columns that changed.
* **OneClaimPerGuest.** The check of `request_join` is an earlier query than its INSERT, and its terms change
  when a match ends: a guest may ask again for a ride they already left. (That a second *match* is then refused is
  the unique constraint of the table, `uq_matches_ride_guest`, and no property of the handlers; it is in the
  guard of `AcceptCommit`.)
* **ListsAgree.** The list of passengers has as many rows as `current_passengers` says, from which the free seats are
  computed, and no guest whom the host sees waiting can already see the passengers' names, except one who
  completed a match on the ride and asks again.
* **AcceptedIffMatched, NoticesAreTrue, RequestSettledOnce.** Whatever fails, is rolled
  back or is aborted by a deadlock, a request and its match are written together, a notice
  is never about something undone, and no answer overwrites another.
* **JoinsAreAdmitted.** All the admission rules hold at the moment the row is inserted,
  although each was tested in a query of its own. That is so because one process runs one handler at a
  time; with two it fails, as told below.
* **HandlersFinish.** No wait for a lock is for ever, deadlocks of two accepts included.
* **StaleRidesClose.** Some job closes every ride that is past its expiry, although it may wait for handlers and for
  the other job, lose a batch of two rides because one of them was deleted under it (`JobVanished`), or be the
  victim of a deadlock with a DELETE (`JobVictim`). A job that dies leaves what an aborted one leaves: nothing.
* **OnlyKnownDeadlocks.** Handlers and jobs wait for each other's rows. `WaitsFor` says who waits for whom; whenever
  a set of transactions all wait within the set, it holds two accepts of one ride, one with the ride and the other with a
  request that goes with its last seat, or a bulk DELETE. Jobs lock in the order of keys and never block each
  other for good; PATCHes, cancellations, joins and declines hold no row while they wait. In `two_workers` the accepts
  deadlock, in `scheduler` a DELETE and a job do.
* **MatchesFollowTable.** `start_ride`, `complete_ride` and `cancel_match` consult the transition table
  for a match they read earlier; with one process what they write is still allowed.
* **ImplementsBooking.** With one process the whole of it implements `RideBooking`:
  seats are given one at a time, never twice to a guest, and the last one turns
  away all who wait.

* **NothingOutlivesHandlers.** A handler may be thrown out of a receive, of a send or of an
  iteration; the `finally` blocks leave neither its socket nor a room without handlers behind.
* **NoSendAfterLeaving.** A broadcast awaits inside its iteration over the set that
  other handlers change, and still sends nothing to a socket that was removed.
* **BroadcastsEnd, LeaversEnd.** Sockets that keep coming do not keep a broadcast going,
  and a client that left is forgotten.

* **ShownRidesAdmit, AdmittingRidesAreShown.** The filters of the two feeds and the checks of
  `request_join` are written three times, in three forms (two subqueries or one disjunction for blocks,
  `>` or `<` for expiry, the sent gender or the profile's). What is shown can be joined, and what can be
  joined is shown, with the exceptions the second property names.

* **OneAccountPerNumber, ImplementsPhoneBook.** Two processes find no account of a number and
  both create one: the unique index refuses the second, whose call fails. Two sign-ins get one account exactly
  when the same number was looked up for them. Nothing is claimed of one number sent to both doors: see below.
* **DecisionsStand.** Handlers write from rows loaded before a block, a promotion or
  another edit, and take none of them back: only `unblock_user` lifts a block.
* **PhotosExist.** Uploads remove the file that their loaded row names. Two of them
  at once, or a PATCH in between, leave no profile without its file; only a process that dies
  between unlink and commit does, one profile each. That is the promise for files that only the server put into rows: a
  client that writes a file's name itself, its own old one or another user's, may be left with a name of nothing, and
  such a file (`named`) is excepted, for every profile that names it.

* **WalkComplete, MissesExplained.** A list that only grows is read completely. A list whose rows
  leave under the reader, as reports do that are decided when the list of the pending ones is
  read, loses as many rows as left, and a row that comes just before the last page may push one off.
* **RateIsPercentage.** What the rate divides by is never zero, because of `or 1`, also before the first ride; and it
  is not over 100% unless a ride is created and cancelled between the two counts.

* **HistoriesAgree.** What is written under the request's id, under the match's, before the
  acceptance or across it is one history, with any limit. (Old matches without the link are excepted:
  they have two.)
* **ReplyFollows.** Messages of two processes are committed out of the order of `created_at`, and
  still a message is never placed before one that its sender had read. A history is *not*
  append-only: a message may appear above others that were already read.
* **PrivateConversations.** A reader is checked against the match's own columns, and shown the messages of its request.
* **ImplementsCorrespondence.** The two ids, their two checks and their two filters come to one log per
  conversation: what is written by either id is in it, nothing in it changes or goes when the request is accepted, and a
  history is the newest of all of it, not of the part under one id.

Each property of a passing run has a mutant in `PROJECT.json`: a plausible bug in the
code with which that property fails.

## Bounds and fairness

**Bounds.** The properties of bookings relate the rows of one ride, and the proofs below need no bound on rides, so
their runs have one. Rides meet in the batch of a job and in a DELETE: `scheduler` has two, with two jobs, and leaves out
guests, whose part in a wait `two_workers` has. Two seats are the
fewest for which a first and a last seat differ. Three guests compete for them, and the
fourth request lets a guest who left ask again. Capacity zero is the boundary that
nothing forbids. One failure at any step shows what a rollback leaves; handlers share no
state but the tables, so a second one starts from a state the first already explored.
Two processes with two requests are enough for the deadlock of two accepts (two processes let one guest ask
twice, so `two_workers` needs one guest only), and two with
three requests for a lost count and the overbooking that it permits. A
circle of waits that is longer than a pair needs more processes than these runs have: for those there is the
proof of `NoOtherDeadlock`. `MaxBlocks`,
`MaxFailures`, `PatchStatuses` and the number of identifiers (`RequestsLeft`) are the
bounds in guards.

In `broadcast` a sender iterates while a second socket leaves and a third joins, the
fewest for which the size of the set is what it was and its members are not. One message
per socket (`MaxMessages`) lets every socket broadcast while every other does.

In `accounts` two processes are the fewest that race for one number, and two accounts what a
number must not get; two spellings are one person's. Two files are a current one and the one that replaces it, in either of two
accounts. One failure leaves one photo missing, and a second handler then starts from there.
The constraint `FewNamed` keeps the run small: clients name one file at most, and once they have, or a handler
died, nobody is an administrator; the proofs have no such bound. In
`dashboard` three rows and pages of one and two have a first, a full and a last page; two departures
show that misses add up. A behavior reads one view and writes only its table, since the lists do not
share rows. In `conversation` one guest was matched before the migration and one asks now, so that the two
kinds of match and a stranger to each are present; three messages give one that is written, one
that is committed late and one that answers. (With four messages and limits 0 and 2 it passes as well,
in 1.7 million states.) `MaxRows`, `MaxDepartures`, `MaxMessages` and `MaxFailures` are the bounds in guards.

**Fairness of the matching core.** `SF(Proceed(w))`: a handler that was called runs on. It has strong fairness
because a row lock may be taken and released again and again while the handler
waits; PostgreSQL queues waiters, so it gets its turn, and it ends deadlocks by aborting one
session. `WF(JobSelect(w))`: the scheduler of each process starts its job every minute. `SF(JobProceeds(w))`: a
job's waits are of the same kind. Nothing is assumed of clients or of the clock: nobody has to call, and time need
not pass. Liveness is checked without failures, since one that recurs for ever would stop
any handler.

**Fairness of the sockets.** `WF(Resumes(s))`: the event loop resumes a coroutine whose await
is over, and an await on a client that does not answer is ended by the server's ping. Weak
fairness is enough, since no other handler can put a coroutine back to waiting. Clients
need not connect, send or leave.

`CHECK_DEADLOCK FALSE` in the runs of matching, sockets and accounts: clients may stop calling at any time,
and what bounds a run (identifiers, messages, failures) may be used up. `dashboard` and `conversation` check
deadlock: there somebody can always read. Their modules, like `Accounts`, state no fairness, for
they promise nothing that must happen.

## What is proved

TLAPS checks the theorems on matching for every set of users, rides and requests, every capacity
and preference, and every interleaving with the job and with failures. The assumptions are those of
`RideMatching` (`UsersAssumption`, `KeysAssumption`, `InputsAssumption`, `BoundsAssumption`): null values are not
identifiers, primary keys are distinct and ordered, capacities are integers, patched statuses are among the
known ones, and there are finitely many identifiers.

**Any number of processes** (`RideMatchingProofs`):

| Theorem | States |
|---|---|
| `TypeCorrect` | `Spec => []TypeOK` |
| `AcceptedMatched` | `Spec => []AcceptedIffMatched` |
| `NoticesTrue` | `Spec => []NoticesAreTrue` |
| `SettledOnce` | `Spec => RequestSettledOnce` |
| `NoOtherDeadlock` | `Spec => []OnlyKnownDeadlocks` |

None of them is inductive. `IInv` adds what a session may rely on at each of its steps
(`SessionOK`): the request that an accept has locked is still pending, the requests
it will decline were not accepted meanwhile, the match a write is about exists, the
notice to be written is true. Those facts survive the steps of *other* sessions only
because row locks exclude each other (`LocksExclusive`): so the locks on requests are
what a single answer and an atomic match depend on.

`NoOtherDeadlock` takes any set of handlers and jobs, of any number of processes and rides, that all wait within the
set, and no bulk DELETE among them. If an accept that holds its ride is in it, what that accept waits for is a request of
the same ride, so it waits for another accept, which waits for the ride (`AcceptWaitsForAccept`): the known circle. If none is,
only jobs hold anything that is waited for (`OthersWaitForJobs`), and some job in the set waits for a ride. Take the
last such ride in the order of keys (`LastByKey`, by well-foundedness, since there are finitely many). Its holder is a job that
waits as well, for a ride of a *later* key, because a job has locked only rows that come before those it has left
(`JobsOrdered`, an invariant): a contradiction.

**One process** (`RideBookingProofs`, `RideBookingRefinement`, each theorem under `SoleWorker`):

| Theorem | States |
|---|---|
| `SeatsAccounted` | `Spec => []SeatAccounting` |
| `NeverOverbooked` | `Spec => []NoOverbooking` |
| `NobodyWaitsForFullRide` | `Spec => []FullRideHasNoPending` |
| `OneClaim` | `Spec => []OneClaimPerGuest` |
| `JoinsAdmitted` | `Spec => JoinsAreAdmitted` |
| `TableFollowed` | `Spec => MatchesFollowTable` |
| `BookingImplemented` | `Spec => ImplementsBooking` |

`SoleWorker` is needed: run `overbooked` is the counterexample with two processes, where `OneClaimPerGuest`
and `MatchesFollowTable` fail as well. The
invariant `SInv` adds `SnapshotOK`: the count and the capacity that a handler
has read are still those of the table, since the job does not write them. A step is
either *quiet* (leaves requests, matches, counts and capacities alone: the job, the
clock, failures, reads, PATCH and cancel) or one of eight steps on seats. Quiet
steps keep everything at once and are stutters of the ledger; the eight are taken one
by one, and each is one step of the ledger (`start_ride` stutters). For `JoinsAdmitted`, `JoinInv` adds what
`request_join` has checked so far: while the only worker is in a join nobody blocks, and the job and the clock
change neither hosts nor preferences.

**Any number of sockets, rooms and messages** (`ChatSocketsProofs`, from `SocketsAssumption`):

| Theorem | States |
|---|---|
| `SocketsTyped` | `Spec => []TypeOK` |
| `HandlersOutlived` | `Spec => []NothingOutlivesHandlers` |
| `NoLateSend` | `Spec => NoSendAfterLeaving` |

`NoSendAfterLeaving` needs more than what the manager lists: `IInv` adds that an iterator will only
return sockets that are listed, which each removal keeps, and that a handler in a broadcast
took a message.

**The feeds** (`DiscoveryProofs`, from the assumptions of `RideMatching`): `ShownRidesJoinable` states
`Spec => []ShownRidesAdmit` and `JoinableRidesShown` states `Spec => []AdmittingRidesAreShown`, for any number of
processes. `request_join` tests that the host is onboarded and the feeds do not: `HostsOnboarded` adds that
every ride's host is, and that the job holds only rows that exist, since it writes without looking again.

**Accounts** (`AccountsProofs`, from `IdentifiersAssumption`, `FailuresAssumption`, `FiniteAssumption`), for any
number of processes, accounts, spellings and files:

| Theorem | States |
|---|---|
| `AccountsTyped` | `Spec => []TypeOK` |
| `SameAccount` | `Spec => []OneAccountPerNumber` |
| `NothingTakenBack` | `Spec => DecisionsStand` |
| `PhotosKept` | `Spec => []PhotosExist` |
| `PhoneBookKept` | `Spec => ImplementsPhoneBook` |

`AInv` adds that rows have different numbers (the unique index), that a token's account has the token's
looked-up number, and what a handler relies on at its step. A commit is a `Flush` of a loaded row, which
never changes a number and sets or clears only what the handler sent (`FlushColumns`); all
handlers are one case of that lemma. For the photos, `PInv` adds that a file belongs to one account
(`FilesOwned`), also one that only a session remembers, and that the file an upload has just written exists and
is nobody else's (`SessionFiles`): a step can then leave only its own account without its photo. Both are about files that no client named (`Own`): those
only the server put into a row. The refinement follows from `AInv`: inserts open an account, sign-ins answer, all else stutters.

**The dashboard** (`DashboardProofs`, from `PagesAssumption`), for any number of rows and pages of any size:
`DashboardTyped` (`Spec => []TypeOK`), `MissesBounded` (`Spec => []MissesExplained`), `NothingMissed`
(`Spec => []WalkComplete`), `RateBounded` (`Spec => []RateIsPercentage`). The invariant counts what a reading
has `Skipped`: rows that were listed from its beginning, are not shown, and are before the next page. `WalkInv` bounds them
by the departures so far. No two rows have one rank (`RanksDiffer`), and a departure lowers every rank by at most one
(`RanksFallByOne`), so it pulls at most one row past the edge of the next page; rows that are added only push rows onto it. When the
reading ends, what is neither shown nor skipped lies beyond the last page, where there is room for no more
than the rows that came after the count (`TailBounded`, by an injection into the places left). `NothingMissed` is the case
in which both counts are zero.

**Chat** (`ConversationProofs`, from `PeopleAssumption` and `LimitsAssumption`), for any people, requests,
processes and messages: `ConversationTyped` (`Spec => []TypeOK`), `OneHistory` (`Spec => []HistoriesAgree`),
`RepliesFollow` (`Spec => []ReplyFollows`), `ConversationsPrivate` (`Spec => []PrivateConversations`). `RowOK` says
from the moment a message is begun that a match without an old row carries its request, that the
sender is one of the request's two people, and that what the sender saw is earlier;
`StampsDistinct` that a time names one message, committed or not.
`CorrespondenceKept` states `Spec => ImplementsCorrespondence`: whoever may open a thread is in the chat it stands for and finds
all of its rows (`ChatFound`); two rows are two letters, so a limit counts as many of the one as of the other (`SameCount`);
a commit writes one letter (`CommitWrites`), a read looks (`ReadLooks`), and the rest, acceptance included, stutters.

**Only model-checked.** `HandlersFinish`, `StaleRidesClose`, `BroadcastsEnd` and `LeaversEnd`: liveness
under fairness is out of the prover's reach. `ListsAgree` is not proved yet. Every other property of a passing run is
a theorem.

## What the code does otherwise than it says

* **A match on a ride that is not open** (`closed_ride`). A comment in `accept_request`
  (`match_service.py:175`) says "Ride must still be open". The status it tests is the one
  read with the request: when the job expires the ride between the two SELECTs the match is
  made all the same.
* **Overbooking with two processes** (`overbooked`). "Re-check capacity before accepting"
  (`match_service.py:185`) tests a count read before the lock was taken. Two
  accepts both write 1, and a third seats a third guest on two seats. One process
  does not have this problem, as is proved.
* **A guest the preference excludes** (`preference`). "Gender preferences are strictly enforced"
  (`README.md:323`), but a host may change the preference while requests wait, and
  `accept_request` does not test it.
* **`female_only` cannot be stored.** `README.md:326` describes such rides; the column has ten
  characters and the word eleven, so PostgreSQL refuses it. This is a fact of the model (`Fits`),
  and no run is about it.

* **Messages that reach nobody** (`lost_message`). "Messages are broadcast to all participants in
  the match" (`README.md:303`). A room lists users, not sockets, and `leave_room`
  (`websocket_manager.py:38`) drops the user when one of their sockets closes: what the
  others send then goes nowhere. Since all handlers pass one user id, any close does it.

Others, of which no run is about:

* Two doors, two accounts. `admin_login` and `create_admin.py` normalize the number they are sent and look that up
  (`api/v1/auth.py:41`); `verify_otp` and `register` look up and store what was sent (`:80`, `:86`, `:121`),
  although `user_service.py:11` speaks of one "stored format: 880XXXXXXXXXX". Somebody who sends one number with a plus to
  both doors may be given one account by the first and another, that of the bare number, by the second;
  somebody who signed up with a plus only cannot be made an administrator, and each spelling opens an account of its own.
* "Remove chat messages older than retention period" (`README.md:355`): `cleanup_old_chat_messages` is a stub
  (`tasks/expire_pings.py:22-23`), and so are the two jobs after it in the table. Messages are never removed, which
  is what `Conversation` says.
* With two processes somebody may ask a host across a block, although blocked users "cannot send join
  requests" (`README.md:342`): a block that another process commits between the test (`match_service.py:56`) and
  the INSERT is not seen. The staleness is `request_join`'s for the other admission rules too. TLC finds it, in six states,
  when `Workers` of `admission` has two members.
* With two processes a guest may have two pending requests for one ride. "Sending a duplicate pending request raises
  ConflictException" (`tests/test_core_rules.py:471`), but the test (`match_service.py:74`) is a query of its own
  before the INSERT, and `match_requests` has no unique constraint. TLC finds it when `OneClaimPerGuest` replaces the
  property of `overbooked`.
* With two processes a completed match may start again, although the transition table calls completed a "Terminal
  state" (`ride_state_service.py:32`): both start the ride, one completes it, and the other then
  writes the `in_progress` for which it consulted the table before (`match_service.py:336`). TLC finds it when
  `MatchesFollowTable` replaces the property of `overbooked`.
* The state machine "prevents invalid transitions" (`ride_state_service.py:3`) and lets a matched ride only be
  cancelled (`:18-21`), but no code consults that part of the table. A PATCH writes any status, and the job
  writes `expired` to every ride it selected as open (`ping_service.py:312`), also to one that an accept has filled since.
* `male_only` rides are never shown to men, nor would `female_only` ones be to women, although both may
  join: the feeds compare with `male` and `female` (`ping_service.py:135`, `:224`). Somebody whose
  gender is neither is shown `male` rides by `find_rides` and refused by `request_join`.
* A ride exactly at its expiry is not shown (`>`) and can be asked for (`<`).
* `list_active_rides` says "matched/in_progress" (`api/v1/admin.py:237`) and lists matched and open rides. The tile
  of completed rides counts matches, the list counts rides.
* A reading that ends by its total may miss a row that another process adds between a page's two SELECTs.
* `is_blocked`, the administrators' block, is tested by `admin_login` and the public profile only: who is
  blocked still signs in with `verify_otp`. An administrator who was blocked before the promotion stays blocked,
  although `block_user` refuses to block one.

A fix of the first two is to refresh the ride when it is locked (`populate_existing()`).

## What is not modelled, and why

* **Device tokens and read marks**: each is one write of the caller's own row that nothing else reads.
* **Ratings**: `create_rating` names `rater_id` and `rated_user_id`, which the `Rating` model does not have, and always fails.
* **Fares**: the routes compute a quotient and store nothing; `fare_splits` has no writer.
* **Geocoding, configuration, schemas**: stateless calls, conversions and declarations.
* **The other three jobs** (`cleanup_chat`, `cleanup_matches`, `analytics_rollup`): stubs that do nothing.
* **Disputes**: no code writes the status `disputed`, so `resolve_dispute` never finds one.
  The transition table knows the status and the model has it, unreached.
* **Unblocking between users**: `unblock_user` of `report_service.py` has no route.
* **Searching the list of users, plain counts of the dashboard, send-otp, public profiles**: single reads
  without anything to relate them to.
* **Distances and the order of the feeds**: geometry in PostGIS.
* **The schema migrations**, except for the link between matches and requests that one of them adds.

## Plan

Done: the matching core, its ledger, the invariants and the refinement, its deadlocks and the life cycle of a match; the
sockets; discovery; accounts and the phone book; the dashboard; chat over HTTP and what it implements. What is left, in
the order of its worth:

1. A proof of `ListsAgree`: that no match is disputed and no guest is their ride's host are invariants it needs.
2. What two processes *do* keep: which of the properties of one process hold for several when a ride has
   one seat, or when the ride is refreshed under its lock.
3. Notices and device tokens as a module: read marks, tokens that move between users.
4. An abstract specification of the manager of the sockets, as a set of memberships.

Each module that holds theorems avoids recursive operators.

## How to run it

    tlc -workers 2 -config MCRideMatching_one_worker.cfg MCRideMatching
    tlapm RideMatchingProofs.tla

`one_worker` explores about 275 thousand states, `accounts` about 412 thousand, `dashboard` about 701 thousand and
`scheduler`, with liveness, 67 thousand; each takes one to two minutes, every other run less. `tlapm` takes one to several minutes per module.
