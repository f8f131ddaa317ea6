\* Two chat sockets of one room and a notification socket come and go while
\* broadcasts are under way.
\* Every socket may be closed for good, so a state without a successor is no error.
SPECIFICATION FairSpec
CONSTANTS
  a1 = a1  a2 = a2   n1 = n1  ra = ra 
  Sockets = {a1, a2, n1}
  Rooms = {ra}
  NoRoom = NoRoom
  RoomOf <- ChatAndNotifications
  MaxMessages = 1
INVARIANTS
  TypeOK
  NothingOutlivesHandlers
PROPERTIES
  NoSendAfterLeaving
  BroadcastsEnd
  LeaversEnd
CHECK_DEADLOCK FALSE
