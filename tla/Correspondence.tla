--------------------------- MODULE Correspondence ---------------------------
(***************************************************************************)
(* What chat promises, whichever id a conversation is opened by: it has    *)
(* one log, which only its two people add to and only they read, nothing   *)
(* in it changes or goes, and reading shows the newest of it.              *)
(***************************************************************************)
EXTENDS Integers, FiniteSets

CONSTANTS
  Users, Chats,
  Members,   \* chat -> the people in it
  Times,     \* when something may be written
  Lengths    \* how many letters a reader may ask for

VARIABLES
  log,       \* chat -> its letters, each with its sender and time
  known      \* user -> times of the letters they wrote or read

correspondence == <<log, known>>

Init ==
  /\ log = [c \in Chats |-> {}]
  /\ known = [u \in Users |-> {}]

\* No two letters have one time, whatever chat they are in.
Write(c, u, t) ==
  /\ known' = [known EXCEPT ![u] = @ \cup {t}]
  /\ \A d \in Chats : \A m \in log[d] : m.at # t
  /\ log' = [log EXCEPT ![c] = @ \cup {[sender |-> u, at |-> t]}]

Newest(letters, n) ==
  {m \in letters : Cardinality({l \in letters : l.at > m.at}) < n}

Look(c, u, n) ==
  /\ known' = [known EXCEPT ![u] = @ \cup {m.at : m \in Newest(log[c], n)}]
  /\ UNCHANGED log

Next ==
  \E c \in Chats : \E u \in Members[c] :
    \/ \E t \in Times : Write(c, u, t)
    \/ \E n \in Lengths : Look(c, u, n)

Spec == Init /\ [][Next]_correspondence
=============================================================================
