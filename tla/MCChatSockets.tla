--------------------------- MODULE MCChatSockets ---------------------------
(* Instances of ChatSockets for TLC: one room and a notification socket.   *)
EXTENDS ChatSockets

CONSTANTS a1, a2, n1, ra

\* Two sockets in the room, one for notifications.
ChatAndNotifications == [s \in Sockets |-> IF s \in {a1, a2} THEN ra ELSE NoRoom]
=============================================================================
