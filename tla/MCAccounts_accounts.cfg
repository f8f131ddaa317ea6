\* Two processes, one number in two spellings, and one handler that dies.
\* Calls may stop at any time, so a state without a successor is no error.
SPECIFICATION Spec
CONSTANTS
  bare = bare  plus = plus
  Phones = {bare, plus}
  Normalize <- DropPlus
  NoPhone = NoPhone
  Ids = {i1, i2}  NoId = NoId
  Files = {f1, f2}
  NoFile = NoFile  External = External  SentAvatars <- AnyAvatar
  Workers = {w1, w2}
  MaxFailures = 1
CONSTRAINT FewNamed
SYMMETRY NameSymmetry
INVARIANTS
  TypeOK
  OneAccountPerNumber
  PhotosExist
PROPERTIES
  DecisionsStand
  ImplementsPhoneBook
CHECK_DEADLOCK FALSE
