-------------------------- MODULE ChatSocketsProofs --------------------------
(***************************************************************************)
(* What ChatSockets guarantees for every number of sockets, rooms and      *)
(* messages: the manager lists the handlers that run, and nothing is sent  *)
(* to a socket whose handler has left.                                     *)
(***************************************************************************)
EXTENDS ChatSockets, FiniteSetTheorems, TLAPS

\* An iterator returns registered sockets only.
IteratorsReturnRegistered == \A s \in Sockets : handler[s].left \subseteq connections

\* A broadcast is of a message that was taken.
SendersTookMessage == \A s \in Sockets : handler[s].pc = "send" => received[s] > 0

IInv ==
  /\ TypeOK
  /\ NothingOutlivesHandlers
  /\ IteratorsReturnRegistered
  /\ SendersTookMessage

\* No handler runs before a client connects.
LEMMA InitInvariant == Init => IInv
BY SocketsAssumption
   DEF Init, IInv, TypeOK, NothingOutlivesHandlers, IteratorsReturnRegistered, SendersTookMessage,
       Handlers, Waiting, Live

\* A handler that starts is registered with its room; iterators may return it.
LEMMA ConnectKeeps ==
  ASSUME IInv, NEW s \in Sockets, Connect(s)
  PROVE  IInv'
<1>1. PICK after \in [Sending -> SUBSET (connections \cup {s})] :
        handler' = [t \in Sockets |->
                      IF t = s THEN Waiting("receive")
                      ELSE IF t \in Sending THEN [handler[t] EXCEPT !.left = after[t]]
                      ELSE handler[t]]
  BY DEF Connect
<1>2. /\ handler[s].pc = "new" /\ connections' = connections \cup {s}
      /\ rooms' = rooms \cup Joined(s)
      /\ received' = received /\ inbox' = inbox /\ gone' = gone
  BY DEF Connect
<1>3. \A t \in Sockets :
        /\ handler[t] \in Handlers /\ handler'[t] \in Handlers
        /\ handler'[t].left \subseteq connections'
        /\ handler'[t].pc = IF t = s THEN "receive" ELSE handler[t].pc
  <2>1. \A t \in Sockets : handler[t] \in Handlers /\ handler[t].left \subseteq connections
    BY DEF IInv, TypeOK, IteratorsReturnRegistered
  <2>2. connections' \subseteq Sockets
    BY <1>2 DEF IInv, TypeOK
  <2>3. Waiting("receive") \in Handlers /\ Waiting("receive").left = {}
        /\ Waiting("receive").pc = "receive"
    BY DEF Waiting, Handlers
  <2>4. ASSUME NEW t \in Sockets, t # s, t \in Sending
        PROVE  /\ handler'[t] \in Handlers /\ handler'[t].left \subseteq connections'
               /\ handler'[t].pc = handler[t].pc
    <3>1. handler'[t] = [handler[t] EXCEPT !.left = after[t]] /\ after[t] \subseteq connections'
      BY <1>1, <1>2, <2>4
    <3> QED
      BY <2>1, <2>2, <3>1 DEF Handlers
  <2> QED
    BY <1>1, <1>2, <2>1, <2>3, <2>4
<1>4. TypeOK'
  <2>1. handler' \in [Sockets -> Handlers]
    BY <1>1, <1>3
  <2>2. rooms' \subseteq Rooms
    BY <1>2, SocketsAssumption DEF Joined, IInv, TypeOK
  <2> QED
    BY <1>2, <2>1, <2>2 DEF IInv, TypeOK
<1>5. \A t \in Sockets : Live(t)' <=> t = s \/ Live(t)
  BY <1>3 DEF Live
<1>6. NothingOutlivesHandlers'
  BY <1>2, <1>5, SocketsAssumption DEF IInv, NothingOutlivesHandlers, Joined
<1> QED
  BY <1>2, <1>3, <1>4, <1>6 DEF IInv, IteratorsReturnRegistered, SendersTookMessage

\* A handler that ends takes its socket and its room with it, and no iterator
\* returns the socket any more.
LEMMA ExitKeeps ==
  ASSUME IInv, NEW s \in Sockets, Exit(s), received' \in [Sockets -> 0..MaxMessages],
         \A t \in Sockets : received[t] > 0 => received'[t] > 0, inbox' = inbox, gone' = gone
  PROVE  IInv'
<1>1. \A t \in Sockets :
        /\ handler[t] \in Handlers /\ handler'[t] \in Handlers
        /\ handler'[t].left \subseteq connections'
        /\ handler'[t].pc = IF t = s THEN "ended" ELSE handler[t].pc
  <2>1. \A t \in Sockets : handler[t] \in Handlers /\ handler[t].left \subseteq connections
    BY DEF IInv, TypeOK, IteratorsReturnRegistered
  <2>2. Waiting("ended") \in Handlers /\ Waiting("ended").left = {} /\ Waiting("ended").pc = "ended"
    BY DEF Waiting, Handlers
  <2>3. ASSUME NEW t \in Sockets, t # s
        PROVE  /\ handler'[t] \in Handlers /\ handler'[t].left \subseteq connections'
               /\ handler'[t].pc = handler[t].pc
    <3>1. handler'[t] = [handler[t] EXCEPT !.left = @ \ {s}] /\ connections' = connections \ {s}
      BY <2>3 DEF Exit, Remaining
    <3> QED
      BY <2>1, <3>1 DEF Handlers
  <2>4. handler'[s] = Waiting("ended")
    BY DEF Exit
  <2> QED
    BY <2>1, <2>2, <2>3, <2>4
<1>2. /\ handler' \in [Sockets -> Handlers]
      /\ rooms' = rooms \ {RoomOf[s]} /\ connections' = connections \ {s}
  BY <1>1 DEF Exit
<1>3. TypeOK'
  BY <1>2 DEF IInv, TypeOK
<1>4. \A t \in Sockets : Live(t)' <=> t # s /\ Live(t)
  BY <1>1 DEF Live
<1>5. NothingOutlivesHandlers'
  BY <1>2, <1>4 DEF IInv, NothingOutlivesHandlers
<1> QED
  BY <1>1, <1>3, <1>5 DEF IInv, IteratorsReturnRegistered, SendersTookMessage

\* A send goes to a registered socket, or ends the handler of the sender.
LEMMA SendKeeps ==
  ASSUME IInv, NEW s \in Sockets, NEW c \in connections, NEW left \in SUBSET connections,
         NEW size \in Nat, SendTo(s, c, left, size), Live(s), gone' = gone,
         received' \in [Sockets -> 0..MaxMessages], received'[s] > 0,
         \A t \in Sockets : received[t] > 0 => received'[t] > 0
  PROVE  IInv' /\ \A d \in Sockets : inbox'[d] # inbox[d] => Live(d)
<1>0. c \in Sockets /\ Live(c)
  BY DEF IInv, NothingOutlivesHandlers
<1>1. CASE Exit(s) /\ UNCHANGED inbox
  BY <1>1, ExitKeeps
<1>2. CASE /\ inbox' = IF c \in gone THEN inbox
                       ELSE [inbox EXCEPT ![c] = @ \cup {<<s, received'[s]>>}]
           /\ handler' = [handler EXCEPT ![s] = [pc |-> "send", left |-> left \ {c}, size |-> size]]
           /\ UNCHANGED <<connections, rooms>>
  <2>1. received'[s] \in 1..MaxMessages
    BY SocketsAssumption
  <2>2. inbox' \in [Sockets -> SUBSET (Sockets \X (1..MaxMessages))]
    BY <1>0, <1>2, <2>1 DEF IInv, TypeOK
  <2>3. /\ handler' \in [Sockets -> Handlers]
        /\ \A t \in Sockets : handler'[t].left \subseteq connections
        /\ \A t \in Sockets : handler'[t].pc = IF t = s THEN "send" ELSE handler[t].pc
    BY <1>2 DEF IInv, TypeOK, Handlers, IteratorsReturnRegistered
  <2>4. TypeOK'
    BY <1>2, <2>2, <2>3 DEF IInv, TypeOK
  <2>5. \A t \in Sockets : Live(t)' <=> Live(t)
    BY <2>3 DEF Live
  <2>6. NothingOutlivesHandlers' /\ IteratorsReturnRegistered' /\ SendersTookMessage'
    BY <1>2, <2>3, <2>5 DEF IInv, NothingOutlivesHandlers, IteratorsReturnRegistered, SendersTookMessage
  <2>7. \A d \in Sockets : inbox'[d] # inbox[d] => d = c
    BY <1>2 DEF IInv, TypeOK
  <2> QED
    BY <1>0, <2>4, <2>6, <2>7 DEF IInv
<1> QED
  BY <1>1, <1>2 DEF SendTo

\* Every step keeps the invariant, and sends to handlers that run.
LEMMA StepInvariant ==
  ASSUME IInv, [Next]_vars
  PROVE  IInv' /\ \A d \in Sockets : inbox'[d] # inbox[d] => Live(d)
<1>1. ASSUME NEW s \in Sockets, Connect(s)
      PROVE  IInv' /\ inbox' = inbox
  BY <1>1, ConnectKeeps DEF Connect
<1>2. ASSUME NEW s \in Sockets, Exit(s), UNCHANGED <<received, inbox, gone>>
      PROVE  IInv' /\ inbox' = inbox
  BY <1>2, ExitKeeps DEF IInv, TypeOK
<1>3. ASSUME NEW s \in Sockets, NEW pc \in {"receive", "ended"},
             handler' = [handler EXCEPT ![s] = Waiting(pc)], pc = "receive" <=> Live(s),
             UNCHANGED <<connections, rooms, received, inbox, gone>>
      PROVE  IInv' /\ inbox' = inbox
  <2>1. /\ handler' \in [Sockets -> Handlers]
        /\ \A t \in Sockets : handler'[t].left \subseteq connections
        /\ \A t \in Sockets : handler'[t].pc = IF t = s THEN pc ELSE handler[t].pc
    BY <1>3 DEF IInv, TypeOK, Handlers, Waiting, IteratorsReturnRegistered
  <2>2. \A t \in Sockets : Live(t)' <=> Live(t)
    BY <1>3, <2>1 DEF Live
  <2> QED
    BY <1>3, <2>1, <2>2 DEF IInv, TypeOK, NothingOutlivesHandlers, IteratorsReturnRegistered,
                            SendersTookMessage
<1>4. ASSUME NEW s \in Sockets, ClientLeaves(s)
      PROVE  IInv' /\ inbox' = inbox
  BY <1>4 DEF ClientLeaves, IInv, TypeOK, NothingOutlivesHandlers, IteratorsReturnRegistered,
              SendersTookMessage, Live
<1>5. ASSUME NEW s \in Sockets, Receive(s)
      PROVE  IInv' /\ \A d \in Sockets : inbox'[d] # inbox[d] => Live(d)
  <2>1. /\ received' \in [Sockets -> 0..MaxMessages] /\ received'[s] > 0
        /\ Live(s) /\ gone' = gone
        /\ \A t \in Sockets : received[t] > 0 => received'[t] > 0
    BY <1>5, SocketsAssumption DEF Receive, IInv, TypeOK, Live
  <2>2. CASE RoomOf[s] \in rooms
    <3>1. PICK c \in connections : SendTo(s, c, connections, Cardinality(connections))
      BY <1>5, <2>2 DEF Receive
    <3>2. Cardinality(connections) \in Nat
      BY SocketsAssumption, FS_Subset, FS_CardinalityType DEF IInv, TypeOK
    <3> QED
      BY <2>1, <3>1, <3>2, SendKeeps
  <2>3. CASE UNCHANGED <<connections, rooms, handler, inbox>>
    BY <2>1, <2>3 DEF IInv, TypeOK, NothingOutlivesHandlers, IteratorsReturnRegistered,
                      SendersTookMessage, Live
  <2> QED
    BY <1>5, <2>2, <2>3 DEF Receive
<1>6. ASSUME NEW s \in Sockets, NextSend(s)
      PROVE  IInv' /\ \A d \in Sockets : inbox'[d] # inbox[d] => Live(d)
  <2>1. PICK c \in handler[s].left : SendTo(s, c, handler[s].left, handler[s].size)
    BY <1>6 DEF NextSend
  <2>2. /\ handler[s].left \in SUBSET connections /\ handler[s].size \in Nat
        /\ Live(s) /\ gone' = gone /\ received' = received
    BY <1>6 DEF NextSend, IInv, TypeOK, Handlers, IteratorsReturnRegistered, Live
  <2>3. received \in [Sockets -> 0..MaxMessages] /\ received[s] > 0
    BY <1>6 DEF NextSend, IInv, TypeOK, SendersTookMessage
  <2> QED
    BY <2>1, <2>2, <2>3, SendKeeps
<1>7. ASSUME NEW s \in Sockets, Refuse(s) \/ SendsDone(s)
      PROVE  IInv' /\ inbox' = inbox
  <2>1. CASE Refuse(s)
    BY <1>3, <2>1 DEF Refuse, Live
  <2>2. CASE SendsDone(s)
    BY <1>3, <2>2 DEF SendsDone, Live
  <2> QED
    BY <1>7, <2>1, <2>2
<1>8. ASSUME NEW s \in Sockets, BadMessage(s) \/ HearsLeaving(s) \/ IterationFails(s)
      PROVE  IInv' /\ inbox' = inbox
  BY <1>2, <1>8 DEF BadMessage, HearsLeaving, IterationFails
<1>9. CASE UNCHANGED vars
  BY <1>9 DEF vars, IInv, TypeOK, NothingOutlivesHandlers, IteratorsReturnRegistered,
              SendersTookMessage, Live
<1> QED
  BY <1>1, <1>4, <1>5, <1>6, <1>7, <1>8, <1>9 DEF Next, Resumes

\* The invariant holds in every reachable state.
LEMMA Invariance == Spec => []IInv
<1>1. IInv /\ [Next]_vars => IInv'
  BY StepInvariant
<1> QED
  BY <1>1, InitInvariant, PTL DEF Spec

\* The manager's dictionaries and the handlers have their shapes.
THEOREM SocketsTyped == Spec => []TypeOK
<1>1. IInv => TypeOK
  BY DEF IInv
<1> QED
  BY <1>1, Invariance, PTL

\* The manager lists the sockets and rooms of the handlers that run, and no others.
THEOREM HandlersOutlived == Spec => []NothingOutlivesHandlers
<1>1. IInv => NothingOutlivesHandlers
  BY DEF IInv
<1> QED
  BY <1>1, Invariance, PTL

\* Nothing is sent to a socket whose handler has left.
THEOREM NoLateSend == Spec => NoSendAfterLeaving
<1>1. IInv /\ [Next]_vars => [\A s \in Sockets : inbox'[s] # inbox[s] => Live(s)]_vars
  BY StepInvariant
<1> QED
  BY <1>1, Invariance, PTL DEF Spec, NoSendAfterLeaving
=============================================================================
