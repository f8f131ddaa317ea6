--------------------------- MODULE MCConversation ---------------------------
(* An instance of Conversation for TLC: a host and two guests, one of them *)
(* matched before the migration.                                           *)
EXTENDS Conversation, TLC

CONSTANTS h, a, b, new, old

Hosts  == [q \in Requests |-> h]
Guests == [q \in Requests |-> IF q = new THEN a ELSE b]

WorkerSymmetry == Permutations(Workers)
=============================================================================
