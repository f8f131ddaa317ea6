------------------------------ MODULE PhoneBook ------------------------------
(***************************************************************************)
(* What sign-in promises, whatever the server processes do at the same     *)
(* time: a phone number is opened one account, keeps it for ever, and      *)
(* everybody who signs in gets the account of the number that was looked   *)
(* up: the number as sent at the one-time-password door, its normal form   *)
(* at the password door of the administrators.                             *)
(***************************************************************************)
CONSTANTS
  Phones,    \* phone numbers, as a client sends them
  Normalize, \* phone -> its normal form
  Doors,     \* ways to sign in
  Ids,       \* accounts
  NoId       \* no account yet

VARIABLES
  account,  \* phone -> its account, or NoId
  signedIn  \* <<door, phone, account>>: the sign-ins answered so far

book == <<account, signedIn>>

Init ==
  /\ account = [p \in Phones |-> NoId]
  /\ signedIn = {}

\* The entry a door looks up for a number that was sent there.
Entry(door, p) == IF door = "password" THEN Normalize[p] ELSE p

\* An account is opened for a number that has none, and belongs to it alone.
Open(p, i) ==
  /\ account[p] = NoId /\ \A o \in Phones : account[o] # i
  /\ account' = [account EXCEPT ![p] = i]

\* A sign-in is answered with the account its entry has once it is answered.
Answer(door, p) ==
  /\ account'[Entry(door, p)] # NoId
  /\ signedIn' = signedIn \cup {<<door, p, account'[Entry(door, p)]>>}

\* Only the one-time password opens accounts.
OpenOnly(p, i)      == Open(p, i) /\ UNCHANGED signedIn
OpenAndAnswer(p, i) == Open(p, i) /\ Answer("otp", p)
AnswerOnly(door, p) == UNCHANGED account /\ Answer(door, p)

Next ==
  \/ \E p \in Phones, i \in Ids : OpenOnly(p, i) \/ OpenAndAnswer(p, i)
  \/ \E door \in Doors, p \in Phones : AnswerOnly(door, p)

Spec == Init /\ [][Next]_book
=============================================================================
