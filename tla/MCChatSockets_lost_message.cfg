\* One of two sockets in a room closes, then the other sends.
\* Every socket may be closed for good, so a state without a successor is no error.
SPECIFICATION Spec
CONSTANTS
  a1 = a1  a2 = a2   n1 = n1  ra = ra 
  Sockets = {a1, a2}
  Rooms = {ra}
  NoRoom = NoRoom
  RoomOf <- ChatAndNotifications
  MaxMessages = 1
PROPERTIES
  MessagesReachRoom
CHECK_DEADLOCK FALSE
