------------------------------ MODULE MCAccounts ------------------------------
(* Instances of Accounts for TLC: one person's number in two spellings.    *)
EXTENDS Accounts, TLC

CONSTANTS bare, plus

\* normalize_bd_phone drops the leading plus.
DropPlus == [p \in Phones |-> bare]

\* avatar_url may be NULL or name any file, also one that is not there.
AnyAvatar == Files \cup {NoFile}

\* Bounds: clients name one file themselves, and nobody is an administrator
\* once that happened or a handler died: names, deaths and the administrators'
\* calls are not combined.
FewNamed ==
  /\ Cardinality(named) <= 1
  /\ named # {} \/ failures > 0 => \A i \in Ids : ~profiles[i].admin

\* Identifiers, file names and processes are interchangeable.
NameSymmetry == Permutations(Ids) \cup Permutations(Files) \cup Permutations(Workers)
=============================================================================
