----------------------------- MODULE ChatSockets -----------------------------
(***************************************************************************)
(* The WebSocket endpoints: one handler per socket, which registers the    *)
(* socket, joins the room of its match and broadcasts every message it      *)
(* receives (app/services/websocket_manager.py,                             *)
(* app/websocket/handlers/chat_handler.py, app/main.py:137-144).            *)
(*                                                                         *)
(* Handlers are coroutines of one event loop: an action is what a handler   *)
(* does from the end of one await to the next.  Every handler passes the    *)
(* same user id to the manager, so its dictionaries have one entry at most: *)
(* active_connections is the set of that user's sockets and rooms the set   *)
(* of rooms the user is in; a key that is absent is an empty set.           *)
(***************************************************************************)
EXTENDS Integers, FiniteSets

CONSTANTS
  Sockets,      \* WebSocket connections
  Rooms,        \* "chat:" and a match
  NoRoom,       \* where a socket of /ws/notifications is
  RoomOf,       \* socket -> the room of its URL, or NoRoom
  MaxMessages   \* bound: messages that one socket sends

ASSUME SocketsAssumption ==
  /\ IsFiniteSet(Sockets) /\ MaxMessages \in Nat
  /\ RoomOf \in [Sockets -> Rooms \cup {NoRoom}] /\ NoRoom \notin Rooms

VARIABLES
  connections,  \* active_connections
  rooms,        \* rooms
  handler,      \* socket -> its handler
  received,     \* socket -> how many messages its handler took
  inbox,        \* socket -> <<sender, number>>: the messages sent to it
  gone          \* the sockets whose client left

vars == <<connections, rooms, handler, received, inbox, gone>>

\* A handler: where it is; in a broadcast, the sockets that its iterator will
\* still return, and the size the set had when the iteration began.
Handlers ==
  [pc : {"new", "receive", "send", "ended"}, left : SUBSET Sockets, size : Nat]

Waiting(pc) == [pc |-> pc, left |-> {}, size |-> 0]

Live(s)     == handler[s].pc \in {"receive", "send"}
Sending     == {s \in Sockets : handler[s].pc = "send"}
IsChat(s)   == RoomOf[s] # NoRoom

-----------------------------------------------------------------------------
Init ==
  /\ connections = {} /\ rooms = {}
  /\ handler  = [s \in Sockets |-> Waiting("new")]
  /\ received = [s \in Sockets |-> 0]
  /\ inbox    = [s \in Sockets |-> {}]
  /\ gone     = {}

\* The room that the handler joins: a chat handler its own, the others none.
JoinedByAll(s) == {RoomOf[s]}
Joined(s) == {RoomOf[s]} \ {NoRoom}

\* manager.connect after accept, and join_room.  A set that grows may be
\* rehashed: an iterator over it then returns whatever comes after its place.
Connect(s) ==
  /\ handler[s].pc = "new"
  /\ connections' = connections \cup {s}
  /\ rooms' = rooms \cup Joined(s)
  /\ \E after \in [Sending -> SUBSET (connections \cup {s})] :
       handler' = [t \in Sockets |->
                     IF t = s THEN Waiting("receive")
                     ELSE IF t \in Sending THEN [handler[t] EXCEPT !.left = after[t]]
                     ELSE handler[t]]
  /\ UNCHANGED <<received, inbox, gone>>

\* No token, or the client left before the handshake was over: accept raises
\* outside the try.
Refuse(s) ==
  /\ handler[s].pc = "new"
  /\ handler' = [handler EXCEPT ![s] = Waiting("ended")]
  /\ UNCHANGED <<connections, rooms, received, inbox, gone>>

\* The client leaves; its handler learns of it when it receives or sends.
ClientLeaves(s) ==
  /\ Live(s) /\ s \notin gone
  /\ gone' = gone \cup {s}
  /\ UNCHANGED <<connections, rooms, handler, received, inbox>>

-----------------------------------------------------------------------------
\* The finally block: leave_room and disconnect.  An iterator does not return
\* a socket that was removed from the set.
RemainingOfCopy(left, s) == left
Remaining(left, s) == left \ {s}

ExitKeepsRoom(s) ==
  /\ rooms' = rooms
  /\ connections' = connections \ {s}
  /\ handler' = [t \in Sockets |->
                   IF t = s THEN Waiting("ended")
                   ELSE [handler[t] EXCEPT !.left = Remaining(@, s)]]
Exit(s) ==
  /\ rooms' = rooms \ {RoomOf[s]}
  /\ connections' = connections \ {s}
  /\ handler' = [t \in Sockets |->
                   IF t = s THEN Waiting("ended")
                   ELSE [handler[t] EXCEPT !.left = Remaining(@, s)]]

\* receive_json or receive_text raises because the client left.
HearsLeavingIgnored(s) ==
  /\ handler[s].pc = "receive" /\ s \in gone
  /\ UNCHANGED vars
HearsLeaving(s) ==
  /\ handler[s].pc = "receive" /\ s \in gone
  /\ Exit(s)
  /\ UNCHANGED <<received, inbox, gone>>

\* A chat message that is not a JSON object; on any socket a binary frame.
BadMessage(s) ==
  /\ handler[s].pc = "receive"
  /\ Exit(s)
  /\ UNCHANGED <<received, inbox, gone>>

\* await connection.send_json for the socket the iterator returned.  To a
\* client that has left, the bytes are lost or the send raises.
SendTo(s, c, left, size) ==
  \/ /\ inbox' = IF c \in gone THEN inbox
                 ELSE [inbox EXCEPT ![c] = @ \cup {<<s, received'[s]>>}]
     /\ handler' = [handler EXCEPT ![s] = [pc |-> "send", left |-> left \ {c}, size |-> size]]
     /\ UNCHANGED <<connections, rooms>>
  \/ /\ c \in gone
     /\ Exit(s)
     /\ UNCHANGED inbox

\* A message arrives and goes to the first socket; when nobody is listed in the
\* room it goes nowhere.
Receive(s) ==
  /\ handler[s].pc = "receive" /\ IsChat(s) /\ received[s] < MaxMessages
  /\ received' = [received EXCEPT ![s] = @ + 1]
  /\ IF RoomOf[s] \in rooms
     THEN \E c \in connections : SendTo(s, c, connections, Cardinality(connections))
     ELSE UNCHANGED <<connections, rooms, handler, inbox>>
  /\ UNCHANGED gone

\* The iterator raises when the set changed its size since it began.
SizeChanged(s) == Cardinality(connections) # handler[s].size

\* The send is over: the next socket, the end of the broadcast, or the
\* iterator's error, which ends the handler of the sender.
NextSend(s) ==
  /\ handler[s].pc = "send" /\ ~SizeChanged(s)
  /\ UNCHANGED <<received, gone>>
  /\ \E c \in handler[s].left : SendTo(s, c, handler[s].left, handler[s].size)

SendsDone(s) ==
  /\ handler[s].pc = "send" /\ ~SizeChanged(s) /\ handler[s].left = {}
  /\ handler' = [handler EXCEPT ![s] = Waiting("receive")]
  /\ UNCHANGED <<connections, rooms, received, inbox, gone>>

IterationRetried(s) ==
  /\ handler[s].pc = "send" /\ SizeChanged(s)
  /\ UNCHANGED vars
IterationFails(s) ==
  /\ handler[s].pc = "send" /\ SizeChanged(s)
  /\ Exit(s)
  /\ UNCHANGED <<received, inbox, gone>>

-----------------------------------------------------------------------------
\* What the event loop does without a client.
Resumes(s) == NextSend(s) \/ SendsDone(s) \/ IterationFails(s) \/ HearsLeaving(s)

Next ==
  \E s \in Sockets : \/ Connect(s) \/ Refuse(s) \/ ClientLeaves(s)
                     \/ Receive(s) \/ BadMessage(s) \/ Resumes(s)

Spec == Init /\ [][Next]_vars

\* The loop resumes every coroutine whose await is over; the ping of the server
\* ends the wait for a client that does not read.
FairSpec == Spec /\ \A s \in Sockets : WF_vars(Resumes(s))

-----------------------------------------------------------------------------
\* Properties

\* Sockets, rooms and handlers have the shapes of the manager's dictionaries.
TypeOK ==
  /\ connections \subseteq Sockets /\ rooms \subseteq Rooms
  /\ handler \in [Sockets -> Handlers]
  /\ received \in [Sockets -> 0..MaxMessages]
  /\ inbox \in [Sockets -> SUBSET (Sockets \X (1..MaxMessages))]
  /\ gone \subseteq Sockets

\* The manager forgets what ended, whichever await a handler is thrown out of:
\* it lists the sockets of the handlers that run and no others, and no room that
\* has no handler (connect, the finally blocks).
NothingOutlivesHandlers ==
  /\ connections = {s \in Sockets : Live(s)}
  /\ \A r \in rooms : \E s \in Sockets : Live(s) /\ RoomOf[s] = r

\* No handler sends to a socket whose handler has left, although each broadcast
\* awaits inside its iteration over the set from which they are removed.
NoSendAfterLeaving == [][\A s \in Sockets : inbox'[s] # inbox[s] => Live(s)]_vars

\* A broadcast ends, and the handler of a client that left ends.
BroadcastsEnd == \A s \in Sockets : handler[s].pc = "send" ~> handler[s].pc # "send"
LeaversEnd    == \A s \in Sockets : s \in gone ~> handler[s].pc = "ended"

\* A message that arrives is sent to everybody whose handler is in its room
\* ("Messages are broadcast to all participants in the match.", README.md:303).
MessagesReachRoom ==
  [][\A s \in Sockets : received'[s] # received[s] /\ handler'[s].pc # "ended" =>
       \A c \in Sockets : Live(c) /\ RoomOf[c] = RoomOf[s] /\ c \notin gone =>
         c \in handler'[s].left \/ inbox'[c] # inbox[c]]_vars
=============================================================================
