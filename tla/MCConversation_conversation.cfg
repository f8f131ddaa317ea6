SPECIFICATION Spec
CONSTANTS
  h = h
  a = a
  b = b
  new = new
  old = old
  Users = {h, a, b}
  Requests = {new, old}
  NoRequest = NoRequest
  HostOf <- Hosts
  GuestOf <- Guests
  Legacy = {old}
  Workers = {w1, w2}
  Limits = {0, 1, 2}
  MaxMessages = 3
SYMMETRY WorkerSymmetry
INVARIANTS TypeOK HistoriesAgree ReplyFollows PrivateConversations
PROPERTY ImplementsCorrespondence
