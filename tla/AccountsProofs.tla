--------------------------- MODULE AccountsProofs ---------------------------
(***************************************************************************)
(* What Accounts guarantees for every set of numbers, accounts and         *)
(* processes: sign-in by phone number, the decisions that stand, and the   *)
(* photos on the disk.                                                     *)
(***************************************************************************)
EXTENDS Accounts, FiniteSetTheorems, TLAPS

-----------------------------------------------------------------------------
\* The inductive invariant of sign-in

\* No two rows have one number.
NumbersUnique ==
  \A i, j \in Ids : Exists(i) /\ profiles[i].phone = profiles[j].phone => i = j

\* A token was given out for the number its door looked up, and its account
\* has that number.
TokensHold == \A s \in signedIn : profiles[s[3]].phone = Number(s[1], s[2])

\* What a session may rely on at its step, whatever the others did since.
SessionOK(s) ==
  /\ s.pc \in {"verify_insert", "register_insert"} => s.phone \in Phones
  /\ s.pc \notin {"idle", "verify_insert", "register_insert"} => s.id \in Ids
  /\ s.pc \in {"register_onboard", "register_write"} =>
       s.phone \in Phones /\ profiles[s.id].phone = s.phone

AInv ==
  /\ TypeOK
  /\ NumbersUnique
  /\ TokensHold
  /\ \A w \in Workers : SessionOK(session[w])

-----------------------------------------------------------------------------
\* The null rows have the columns of the table.
LEMMA NullRowsTyped == NoRow \in ProfileRows /\ Idle \in Sessions
BY DEF NoRow, ProfileRows, Avatars, Idle, Sessions, Steps

\* A door looks up a number.
LEMMA NumberTyped ==
  ASSUME NEW door, NEW p \in Phones
  PROVE  Number(door, p) \in Phones
BY IdentifiersAssumption DEF Number

\* A row that is inserted has the columns of the table.
LEMMA NewProfileTyped ==
  ASSUME NEW p \in Phones, NEW a \in Avatars
  PROVE  /\ NewProfile(p, a) \in ProfileRows
         /\ NewProfile(p, a).phone = p /\ NewProfile(p, a).avatar = a
         /\ ~NewProfile(p, a).onboarded /\ ~NewProfile(p, a).admin /\ ~NewProfile(p, a).blocked
BY DEF NewProfile, NoRow, ProfileRows, Avatars

\* A flush keeps a row typed and its number as it is, and it writes a column
\* only where what is sent differs from what was loaded.
LEMMA FlushColumns ==
  ASSUME NEW now \in ProfileRows, NEW old \in ProfileRows, NEW sent \in ProfileRows
  PROVE  /\ Flush(now, old, sent) \in ProfileRows
         /\ Flush(now, old, sent).phone = now.phone
         /\ sent.admin = old.admin => Flush(now, old, sent).admin = now.admin
         /\ sent.admin /\ now.admin => Flush(now, old, sent).admin
         /\ sent.blocked = old.blocked => Flush(now, old, sent).blocked = now.blocked
         /\ sent.blocked /\ now.blocked => Flush(now, old, sent).blocked
         /\ Flush(now, old, sent).avatar =
              IF sent.avatar = old.avatar THEN now.avatar ELSE sent.avatar
BY DEF Flush, ProfileRows

\* A commit of a loaded row changes that row by a flush, and no other row.
LEMMA WriteFlushes ==
  ASSUME TypeOK, NEW w \in Workers, NEW sent \in ProfileRows,
         session[w].id \in Ids, Write(w, sent)
  PROVE  /\ profiles' \in [Ids -> ProfileRows]
         /\ profiles'[session[w].id] = Flush(profiles[session[w].id], session[w].row, sent)
         /\ \A i \in Ids \ {session[w].id} : profiles'[i] = profiles[i]
         /\ \A i \in Ids : profiles'[i].phone = profiles[i].phone
<1> DEFINE k == session[w].id
<1>1. session[w].row \in ProfileRows /\ profiles[k] \in ProfileRows
  BY DEF TypeOK, Sessions
<1>2. /\ Flush(profiles[k], session[w].row, sent) \in ProfileRows
      /\ Flush(profiles[k], session[w].row, sent).phone = profiles[k].phone
  BY <1>1, FlushColumns
<1>3. profiles' = [profiles EXCEPT ![k] = Flush(profiles[k], session[w].row, sent)]
  BY DEF Write
<1> HIDE DEF k
<1>4. k \in Ids /\ profiles \in [Ids -> ProfileRows]
  BY DEF k, TypeOK
<1> QED
  BY <1>2, <1>3, <1>4 DEF k

-----------------------------------------------------------------------------
\* The commits of a loaded row: the handler's step and what it sends.
Sent(w, sent) ==
  LET s == session[w] IN
  \/ /\ s.pc \in {"register_onboard", "register_write"}
     /\ \E a \in SentAvatars \cup {s.row.avatar} :
          sent = [s.row EXCEPT !.onboarded = TRUE, !.avatar = a]
  \/ /\ s.pc = "patch_write"
     /\ \E o \in BOOLEAN, a \in SentAvatars \cup {s.row.avatar} :
          sent = [s.row EXCEPT !.onboarded = o, !.avatar = a]
  \/ s.pc = "upload_commit" /\ sent = [s.row EXCEPT !.avatar = s.file]
  \/ s.pc = "block_write" /\ sent = [s.row EXCEPT !.blocked = TRUE]
  \/ s.pc = "unblock_write" /\ sent = [s.row EXCEPT !.blocked = FALSE]
  \/ s.pc = "promote_write" /\ sent = [s.row EXCEPT !.admin = TRUE]

\* A commit other than an upload's writes no file but one a client has named.
Named(w, sent) ==
  \/ session[w].pc = "upload_commit"
  \/ sent.avatar \in {session[w].row.avatar, NoFile, External} \cup named'

\* What a client names is kept in mind.
LEMMA NamesNames ==
  ASSUME TypeOK, NEW loaded, NEW a \in SentAvatars \cup {loaded}, Names(a, loaded)
  PROVE  /\ named \subseteq named' /\ named' \subseteq Files
         /\ a \in {loaded, NoFile, External} \cup named'
BY IdentifiersAssumption DEF TypeOK, Names

\* The steps that commit a loaded row.
Commits(w) ==
  \/ RegisterOnboard(w) \/ UploadCommit(w)
  \/ BlockWrite(w) \/ UnblockWrite(w) \/ PromoteWrite(w)
  \/ \E a \in SentAvatars : RegisterWrite(w, a)
  \/ \E o \in BOOLEAN, a \in SentAvatars \cup {session[w].row.avatar} : PatchWrite(w, o, a)

\* Each of them is a write of one such row, finishes its handler, and gives out
\* a token for the account it wrote or none.
LEMMA CommitsWrite ==
  ASSUME AInv, NEW w \in Workers, Commits(w)
  PROVE  /\ session[w].id \in Ids
         /\ \E sent \in ProfileRows : Sent(w, sent) /\ Write(w, sent) /\ Named(w, sent)
         /\ Finish(w) /\ UNCHANGED <<disk, failures>>
         /\ named \subseteq named' /\ named' \subseteq Files
         /\ \/ UNCHANGED signedIn
            \/ /\ session[w].pc \in {"register_onboard", "register_write"}
               /\ SignIn("otp", session[w].phone, session[w].id)
<1> DEFINE s == session[w]
<1>0. s.row \in ProfileRows /\ s.file \in Avatars /\ s.row.avatar \in Avatars
  BY DEF AInv, TypeOK, Sessions, ProfileRows
<1>1. SentAvatars \subseteq Avatars
  BY IdentifiersAssumption DEF Avatars
<1>2. CASE RegisterOnboard(w)
  <2>1. [s.row EXCEPT !.onboarded = TRUE] = [s.row EXCEPT !.onboarded = TRUE, !.avatar = s.row.avatar]
    BY <1>0 DEF ProfileRows
  <2>2. [s.row EXCEPT !.onboarded = TRUE] \in ProfileRows
    BY <1>0 DEF ProfileRows
  <2>3. Sent(w, [s.row EXCEPT !.onboarded = TRUE])
    BY <1>2, <2>1 DEF Sent, RegisterOnboard, At
  <2>4. Named(w, [s.row EXCEPT !.onboarded = TRUE])
    BY <1>0 DEF Named, ProfileRows
  <2> QED
    BY <1>2, <2>2, <2>3, <2>4 DEF RegisterOnboard, At, AInv, SessionOK, TypeOK
<1>3. ASSUME NEW a \in SentAvatars, RegisterWrite(w, a)
      PROVE  /\ session[w].id \in Ids
             /\ \E sent \in ProfileRows : Sent(w, sent) /\ Write(w, sent) /\ Named(w, sent)
             /\ Finish(w) /\ UNCHANGED <<disk, failures>>
             /\ named \subseteq named' /\ named' \subseteq Files
             /\ session[w].pc \in {"register_onboard", "register_write"}
             /\ SignIn("otp", session[w].phone, session[w].id)
  <2>1. [s.row EXCEPT !.onboarded = TRUE, !.avatar = a] \in ProfileRows
    BY <1>0, <1>1 DEF ProfileRows
  <2>2. Sent(w, [s.row EXCEPT !.onboarded = TRUE, !.avatar = a])
    BY <1>3 DEF Sent, RegisterWrite, At
  <2>3. /\ named \subseteq named' /\ named' \subseteq Files
        /\ Named(w, [s.row EXCEPT !.onboarded = TRUE, !.avatar = a])
    BY <1>0, <1>3, NamesNames DEF Named, ProfileRows, RegisterWrite, AInv
  <2> QED
    BY <1>3, <2>1, <2>2, <2>3 DEF RegisterWrite, At, AInv, SessionOK
<1>4. ASSUME NEW o \in BOOLEAN, NEW a \in SentAvatars \cup {s.row.avatar}, PatchWrite(w, o, a)
      PROVE  /\ session[w].id \in Ids
             /\ \E sent \in ProfileRows : Sent(w, sent) /\ Write(w, sent) /\ Named(w, sent)
             /\ Finish(w) /\ UNCHANGED <<disk, failures, signedIn>>
             /\ named \subseteq named' /\ named' \subseteq Files
  <2>1. [s.row EXCEPT !.onboarded = o, !.avatar = a] \in ProfileRows
    BY <1>0, <1>1 DEF ProfileRows
  <2>2. Sent(w, [s.row EXCEPT !.onboarded = o, !.avatar = a])
    BY <1>4 DEF Sent, PatchWrite, At
  <2>3. /\ named \subseteq named' /\ named' \subseteq Files
        /\ Named(w, [s.row EXCEPT !.onboarded = o, !.avatar = a])
    BY <1>0, <1>4, NamesNames DEF Named, ProfileRows, PatchWrite, AInv
  <2> QED
    BY <1>4, <2>1, <2>2, <2>3 DEF PatchWrite, At, AInv, SessionOK
<1>5. CASE UploadCommit(w)
  <2>1. [s.row EXCEPT !.avatar = s.file] \in ProfileRows
    BY <1>0 DEF ProfileRows
  <2> QED
    BY <1>5, <2>1 DEF UploadCommit, Sent, Named, At, AInv, SessionOK, TypeOK
<1>6. CASE BlockWrite(w)
  <2>1. [s.row EXCEPT !.blocked = TRUE] \in ProfileRows
    BY <1>0 DEF ProfileRows
  <2>2. Named(w, [s.row EXCEPT !.blocked = TRUE])
    BY <1>0 DEF Named, ProfileRows
  <2> QED
    BY <1>6, <2>1, <2>2 DEF BlockWrite, Sent, At, AInv, SessionOK, TypeOK
<1>7. CASE UnblockWrite(w)
  <2>1. [s.row EXCEPT !.blocked = FALSE] \in ProfileRows
    BY <1>0 DEF ProfileRows
  <2>2. Named(w, [s.row EXCEPT !.blocked = FALSE])
    BY <1>0 DEF Named, ProfileRows
  <2> QED
    BY <1>7, <2>1, <2>2 DEF UnblockWrite, Sent, At, AInv, SessionOK, TypeOK
<1>8. CASE PromoteWrite(w)
  <2>1. [s.row EXCEPT !.admin = TRUE] \in ProfileRows
    BY <1>0 DEF ProfileRows
  <2>2. Named(w, [s.row EXCEPT !.admin = TRUE])
    BY <1>0 DEF Named, ProfileRows
  <2> QED
    BY <1>8, <2>1, <2>2 DEF PromoteWrite, Sent, At, AInv, SessionOK, TypeOK
<1> QED
  BY <1>2, <1>3, <1>4, <1>5, <1>6, <1>7, <1>8 DEF Commits

\* The steps that load or give up a row, and those that insert one.
Reads(w) ==
  \/ \E p \in Phones : VerifyRead(w, p) \/ RegisterRead(w, p)
  \/ \E p \in Phones, i \in Ids : RegisterLoad(w, p, i) \/ PromoteRead(w, p, i)
  \/ \E i \in Ids : PatchRead(w, i) \/ UploadRead(w, i)
  \/ \E a, i \in Ids : BlockRead(w, a, i) \/ UnblockRead(w, a, i)
SignsIn(w) ==
  \E p \in Phones, i \in Ids : Verify(w, p, i) \/ AdminLogin(w, p, i)
Inserts(w) ==
  \E i \in Ids : VerifyInsert(w, i) \/ \E a \in SentAvatars : RegisterInsert(w, i, a)
GivesUp(w) == InsertRefused(w) \/ NameRefused(w) \/ WorkerFails(w)
MovesFiles(w) == UploadUnlink(w) \/ \E f \in Files : UploadFile(w, f)

\* Every step is one of these.
LEMMA StepKinds ==
  ASSUME Next
  PROVE  \E w \in Workers : \/ Reads(w) \/ SignsIn(w) \/ Inserts(w) \/ GivesUp(w)
                            \/ MovesFiles(w) \/ Commits(w)
<1> PICK w \in Workers : Call(w) \/ Proceed(w) \/ WorkerFails(w)
  BY DEF Next
<1>1. CASE Call(w)
  BY <1>1 DEF Call, Reads, SignsIn
<1>2. CASE Proceed(w)
  BY <1>2 DEF Proceed, Inserts, GivesUp, MovesFiles, Commits
<1>3. CASE WorkerFails(w)
  BY <1>3 DEF GivesUp
<1> QED
  BY <1>1, <1>2, <1>3

-----------------------------------------------------------------------------
\* Empty tables and idle sessions satisfy the invariant.
LEMMA AInvInit == Init => AInv
<1> SUFFICES ASSUME Init PROVE AInv
  OBVIOUS
<1>1. TypeOK
  BY NullRowsTyped, FailuresAssumption DEF Init, TypeOK
<1>2. NumbersUnique /\ TokensHold
  BY DEF Init, NumbersUnique, TokensHold, Exists, NoRow
<1>3. \A w \in Workers : SessionOK(session[w])
  BY DEF Init, SessionOK, Idle
<1> QED
  BY <1>1, <1>2, <1>3 DEF AInv

\* A session of any worker holds on while no number changes.
LEMMA SessionKept ==
  ASSUME AInv, NEW v \in Workers, \A i \in Ids : profiles'[i].phone = profiles[i].phone
  PROVE  SessionOK(session[v])'
         \/ session'[v] # session[v]
<1> SUFFICES ASSUME session'[v] = session[v]
             PROVE  SessionOK(session[v])'
  OBVIOUS
<1> QED
  BY DEF AInv, SessionOK, TypeOK, Sessions

LEMMA IdleOK == SessionOK(Idle) /\ SessionOK(Idle)'
BY DEF SessionOK, Idle

\* Loading a row, and a call turned down or lost.
LEMMA ReadsKeep ==
  ASSUME AInv, NEW w \in Workers, Reads(w)
  PROVE  AInv'
<1> USE NullRowsTyped
<1>0. /\ UNCHANGED <<profiles, disk, named, signedIn, failures>>
      /\ \E s \in Sessions : session' = [session EXCEPT ![w] = s] /\ SessionOK(s)
  <2>1. ASSUME NEW p \in Phones, VerifyRead(w, p) PROVE <1>0
    <3>1. [Idle EXCEPT !.pc = "verify_insert", !.phone = p] \in Sessions
      BY DEF Idle, Sessions, Steps
    <3>2. SessionOK([Idle EXCEPT !.pc = "verify_insert", !.phone = p])
      BY DEF SessionOK, Idle
    <3> QED
      BY <2>1, <3>1, <3>2 DEF VerifyRead, Continue
  <2>2. ASSUME NEW p \in Phones, RegisterRead(w, p) PROVE <1>0
    <3>1. [Idle EXCEPT !.pc = "register_insert", !.phone = p] \in Sessions
      BY DEF Idle, Sessions, Steps
    <3>2. SessionOK([Idle EXCEPT !.pc = "register_insert", !.phone = p])
      BY DEF SessionOK, Idle
    <3> QED
      BY <2>2, <3>1, <3>2 DEF RegisterRead, Continue
  <2>3. ASSUME NEW p \in Phones, NEW i \in Ids, RegisterLoad(w, p, i) PROVE <1>0
    <3> DEFINE s == [Idle EXCEPT !.pc = "register_write", !.id = i, !.phone = p,
                                 !.row = profiles[i]]
    <3>1. s \in Sessions
      BY DEF Idle, Sessions, Steps, AInv, TypeOK
    <3>2. SessionOK(s)
      BY <2>3 DEF SessionOK, Idle, RegisterLoad, Holds
    <3> QED
      BY <2>3, <3>1, <3>2 DEF RegisterLoad, Continue
  <2>4. ASSUME NEW i \in Ids, NEW step \in {"patch_write", "upload_file", "block_write",
               "unblock_write", "promote_write"}, Loaded(w, step, i),
               UNCHANGED <<profiles, disk, named, signedIn, failures>>
        PROVE  <1>0
    <3> DEFINE s == [Idle EXCEPT !.pc = step, !.id = i, !.row = profiles[i]]
    <3>1. s \in Sessions
      BY DEF Idle, Sessions, Steps, AInv, TypeOK
    <3>2. SessionOK(s)
      BY DEF SessionOK, Idle
    <3> QED
      BY <2>4, <3>1, <3>2 DEF Loaded, Continue
  <2>5. ASSUME NEW p \in Phones, NEW i \in Ids, PromoteRead(w, p, i) PROVE <1>0
    BY <2>4, <2>5 DEF PromoteRead
  <2>6. ASSUME NEW i \in Ids, PatchRead(w, i) \/ UploadRead(w, i) PROVE <1>0
    BY <2>4, <2>6 DEF PatchRead, UploadRead
  <2>7. ASSUME NEW a \in Ids, NEW i \in Ids, BlockRead(w, a, i) \/ UnblockRead(w, a, i) PROVE <1>0
    BY <2>4, <2>7 DEF BlockRead, UnblockRead
  <2> QED
    BY <2>1, <2>2, <2>3, <2>5, <2>6, <2>7 DEF Reads
<1>1. TypeOK'
  BY <1>0 DEF AInv, TypeOK
<1>2. NumbersUnique' /\ TokensHold'
  BY <1>0 DEF AInv, NumbersUnique, TokensHold, Exists
<1>3. ASSUME NEW v \in Workers PROVE SessionOK(session[v])'
  <2>1. CASE v = w
    BY <1>0, <2>1 DEF SessionOK, AInv, TypeOK
  <2>2. CASE v # w
    BY <1>0, <2>2, SessionKept DEF AInv, TypeOK
  <2> QED
    BY <2>1, <2>2
<1> QED
  BY <1>1, <1>2, <1>3 DEF AInv

\* A sign-in of an account that exists.
LEMMA SignsInKeep ==
  ASSUME AInv, NEW w \in Workers, SignsIn(w)
  PROVE  AInv'
<1> PICK door \in Doors, p \in Phones, i \in Ids :
       /\ Holds(i, Number(door, p)) /\ SignIn(door, p, i)
       /\ UNCHANGED <<profiles, disk, named, session, failures>>
  BY DEF SignsIn, Verify, AdminLogin, Doors, Number
<1>1. TypeOK'
  BY DEF AInv, TypeOK, SignIn
<1>2. NumbersUnique' /\ TokensHold'
  BY DEF AInv, TypeOK, NumbersUnique, TokensHold, Exists, SignIn, Holds
<1>3. \A v \in Workers : SessionOK(session[v])'
  BY DEF AInv, SessionOK
<1> QED
  BY <1>1, <1>2, <1>3 DEF AInv

\* What an INSERT does.
LEMMA InsertsPick ==
  ASSUME AInv, NEW w \in Workers, Inserts(w)
  PROVE  LET p == session[w].phone IN
         \E i \in Ids, a \in Avatars :
           /\ p \in Phones /\ Insert(p, i, a) /\ UNCHANGED <<disk, failures>>
           /\ named \subseteq named' /\ named' \subseteq Files
           /\ a \in {NoFile, External} \cup named'
           /\ session[w].pc \in {"verify_insert", "register_insert"}
           /\ \/ SignIn("otp", p, i) /\ Finish(w)
              \/ /\ UNCHANGED signedIn
                 /\ Continue(w, [Idle EXCEPT !.pc = "register_onboard", !.id = i, !.phone = p,
                                             !.row = NewProfile(p, a)])
<1>1. ASSUME NEW i \in Ids, VerifyInsert(w, i)
      PROVE  /\ session[w].phone \in Phones /\ Insert(session[w].phone, i, NoFile)
             /\ UNCHANGED <<disk, named, failures>> /\ named \subseteq Files
             /\ session[w].pc = "verify_insert"
             /\ SignIn("otp", session[w].phone, i) /\ Finish(w)
  BY <1>1 DEF VerifyInsert, At, AInv, TypeOK, SessionOK
<1>2. ASSUME NEW i \in Ids, NEW a \in SentAvatars, RegisterInsert(w, i, a)
      PROVE  LET p == session[w].phone IN
             /\ p \in Phones /\ Insert(p, i, a) /\ UNCHANGED <<disk, failures, signedIn>>
             /\ named \subseteq named' /\ named' \subseteq Files
             /\ a \in {NoFile, External} \cup named' /\ a \in Avatars
             /\ session[w].pc = "register_insert"
             /\ Continue(w, [Idle EXCEPT !.pc = "register_onboard", !.id = i, !.phone = p,
                                         !.row = NewProfile(p, a)])
  BY <1>2, NamesNames, IdentifiersAssumption
  DEF RegisterInsert, At, AInv, SessionOK, Avatars
<1>3. NoFile \in Avatars
  BY DEF Avatars
<1>4. CASE \E i \in Ids : VerifyInsert(w, i)
  BY <1>1, <1>3, <1>4
<1>5. CASE \E i \in Ids, a \in SentAvatars : RegisterInsert(w, i, a)
  BY <1>2, <1>5
<1> QED
  BY <1>4, <1>5 DEF Inserts

\* The INSERT of a row: the unique index keeps the numbers apart.
LEMMA InsertsKeep ==
  ASSUME AInv, NEW w \in Workers, Inserts(w)
  PROVE  AInv'
<1> USE NullRowsTyped, IdentifiersAssumption
<1> DEFINE p == session[w].phone
<1>1. PICK i \in Ids, a \in Avatars :
        /\ p \in Phones /\ Insert(p, i, a) /\ UNCHANGED <<disk, failures>>
        /\ named' \subseteq Files
        /\ \/ SignIn("otp", p, i) /\ Finish(w)
           \/ /\ UNCHANGED signedIn
              /\ Continue(w, [Idle EXCEPT !.pc = "register_onboard", !.id = i, !.phone = p,
                                          !.row = NewProfile(p, a)])
  BY InsertsPick
<1> HIDE DEF p
<1>2. /\ NewProfile(p, a) \in ProfileRows /\ NewProfile(p, a).phone = p
      /\ profiles' = [profiles EXCEPT ![i] = NewProfile(p, a)]
      /\ ~Exists(i) /\ \A j \in Ids : profiles[j].phone # p
  BY <1>1, NewProfileTyped DEF Insert, NumberFree, Holds
<1>3. /\ profiles' \in [Ids -> ProfileRows] /\ profiles'[i].phone = p
      /\ \A j \in Ids \ {i} : profiles'[j] = profiles[j]
  BY <1>2 DEF AInv, TypeOK
<1>4. \/ session' = [session EXCEPT ![w] = Idle]
      \/ /\ session' = [session EXCEPT ![w] = [Idle EXCEPT !.pc = "register_onboard",
                              !.id = i, !.phone = p, !.row = NewProfile(p, a)]]
         /\ [Idle EXCEPT !.pc = "register_onboard", !.id = i, !.phone = p,
                         !.row = NewProfile(p, a)] \in Sessions
  BY <1>1, <1>2 DEF Finish, Continue, Idle, Sessions, Steps
<1>5. TypeOK'
  BY <1>1, <1>3, <1>4 DEF AInv, TypeOK, SignIn, Doors
<1>6. NumbersUnique'
  <2> SUFFICES ASSUME NEW j \in Ids, NEW k \in Ids, Exists(j)',
                      profiles'[j].phone = profiles'[k].phone
               PROVE  j = k
    BY DEF NumbersUnique
  <2> QED
    BY <1>2, <1>3 DEF AInv, NumbersUnique, Exists
<1>7. TokensHold'
  <2> SUFFICES ASSUME NEW s \in signedIn' PROVE profiles'[s[3]].phone = Number(s[1], s[2])
    BY DEF TokensHold
  <2>1. CASE s \in signedIn
    <3>1. /\ s[3] \in Ids /\ Number(s[1], s[2]) \in Phones
          /\ profiles[s[3]].phone = Number(s[1], s[2])
      BY <2>1, NumberTyped DEF AInv, TokensHold, TypeOK
    <3>2. s[3] # i
      BY <1>2, <3>1 DEF Exists
    <3> QED
      BY <1>3, <3>1, <3>2
  <2>2. CASE s = <<"otp", p, i>>
    BY <1>3, <2>2 DEF Number
  <2> QED
    BY <1>1, <2>1, <2>2 DEF SignIn
<1>8. ASSUME NEW v \in Workers PROVE SessionOK(session[v])'
  <2>1. CASE v = w
    <3>1. CASE session'[w] = Idle
      BY <2>1, <3>1, IdleOK DEF SessionOK, Idle
    <3>2. CASE /\ session'[w].pc = "register_onboard" /\ session'[w].id = i
               /\ session'[w].phone = p
      BY <1>1, <1>3, <2>1, <3>2 DEF SessionOK
    <3> DEFINE next == [Idle EXCEPT !.pc = "register_onboard", !.id = i, !.phone = p,
                                    !.row = NewProfile(p, a)]
    <3>3. next.pc = "register_onboard" /\ next.id = i /\ next.phone = p
      BY DEF Idle
    <3>4. session'[w] = Idle \/ session'[w] = next
      BY <1>4 DEF AInv, TypeOK
    <3> QED
      BY <3>1, <3>2, <3>3, <3>4
  <2>2. CASE v # w
    <3>1. session'[v] = session[v]
      BY <1>4, <2>2 DEF AInv, TypeOK
    <3>2. session[v].pc \in {"register_onboard", "register_write"} =>
            session[v].id # i
      BY <1>2, <2>2 DEF AInv, SessionOK, Exists
    <3> QED
      BY <1>3, <3>1, <3>2 DEF AInv, SessionOK
  <2> QED
    BY <2>1, <2>2
<1> QED
  BY <1>5, <1>6, <1>7, <1>8 DEF AInv

\* A call that is refused or dies.
LEMMA GivesUpKeep ==
  ASSUME AInv, NEW w \in Workers, GivesUp(w)
  PROVE  AInv'
<1> USE NullRowsTyped
<1>1. /\ session' = [session EXCEPT ![w] = Idle] /\ UNCHANGED <<profiles, disk, named, signedIn>>
      /\ failures' \in 0..MaxFailures
  BY FailuresAssumption DEF GivesUp, InsertRefused, NameRefused, WorkerFails, Finish, AInv, TypeOK
<1>2. TypeOK'
  BY <1>1 DEF AInv, TypeOK
<1>3. NumbersUnique' /\ TokensHold'
  BY <1>1 DEF AInv, NumbersUnique, TokensHold, Exists
<1>4. \A v \in Workers : SessionOK(session[v])'
  BY <1>1, IdleOK DEF AInv, TypeOK, SessionOK, Idle
<1> QED
  BY <1>2, <1>3, <1>4 DEF AInv

\* The file operations of an upload.
LEMMA MovesFilesKeep ==
  ASSUME AInv, NEW w \in Workers, MovesFiles(w)
  PROVE  AInv'
<1>1. /\ UNCHANGED <<profiles, named, signedIn, failures>> /\ disk' \subseteq Files
      /\ \E f \in Avatars, step \in {"upload_unlink", "upload_commit"} :
           session' = [session EXCEPT ![w] = [session[w] EXCEPT !.pc = step, !.file = f]]
      /\ session[w].pc \in {"upload_file", "upload_unlink"}
  <2>1. CASE UploadUnlink(w)
    <3>1. [session[w] EXCEPT !.pc = "upload_commit"] =
            [session[w] EXCEPT !.pc = "upload_commit", !.file = session[w].file]
      BY DEF AInv, TypeOK, Sessions
    <3>2. session[w].file \in Avatars
      BY DEF AInv, TypeOK, Sessions
    <3> QED
      BY <2>1, <3>1, <3>2 DEF UploadUnlink, Continue, At, AInv, TypeOK
  <2>2. ASSUME NEW f \in Files, UploadFile(w, f) PROVE <1>1
    BY <2>2 DEF UploadFile, Continue, At, AInv, TypeOK, Avatars
  <2> QED
    BY <2>1, <2>2 DEF MovesFiles
<1>2. TypeOK'
  <2>1. ASSUME NEW f \in Avatars, NEW step \in {"upload_unlink", "upload_commit"}
        PROVE  [session[w] EXCEPT !.pc = step, !.file = f] \in Sessions
    BY DEF AInv, TypeOK, Sessions, Steps
  <2> QED
    BY <1>1, <2>1 DEF AInv, TypeOK
<1>3. NumbersUnique' /\ TokensHold'
  BY <1>1 DEF AInv, NumbersUnique, TokensHold, Exists
<1>4. \A v \in Workers : SessionOK(session[v])'
  BY <1>1 DEF AInv, TypeOK, Sessions, SessionOK
<1> QED
  BY <1>2, <1>3, <1>4 DEF AInv

\* A commit of a loaded row.
LEMMA CommitsKeep ==
  ASSUME AInv, NEW w \in Workers, Commits(w)
  PROVE  AInv'
<1> USE NullRowsTyped
<1>1. PICK sent \in ProfileRows : Write(w, sent)
  BY CommitsWrite
<1>2. /\ session[w].id \in Ids /\ session' = [session EXCEPT ![w] = Idle]
      /\ UNCHANGED <<disk, failures>> /\ named' \subseteq Files
      /\ \/ UNCHANGED signedIn
         \/ /\ session[w].pc \in {"register_onboard", "register_write"}
            /\ signedIn' = signedIn \cup {<<"otp", session[w].phone, session[w].id>>}
  BY CommitsWrite DEF Finish, SignIn
<1>3. /\ profiles' \in [Ids -> ProfileRows]
      /\ \A i \in Ids : profiles'[i].phone = profiles[i].phone
  BY <1>1, <1>2, WriteFlushes DEF AInv
<1>4. TypeOK'
  BY <1>2, <1>3 DEF AInv, TypeOK, SessionOK, Doors
<1>5. NumbersUnique'
  BY <1>3 DEF AInv, NumbersUnique, Exists
<1>6. TokensHold'
  <2> SUFFICES ASSUME NEW s \in signedIn' PROVE profiles'[s[3]].phone = Number(s[1], s[2])
    BY DEF TokensHold
  <2>1. CASE s \in signedIn
    BY <1>3, <2>1 DEF AInv, TokensHold, TypeOK
  <2>2. CASE s \notin signedIn
    <3>1. /\ s = <<"otp", session[w].phone, session[w].id>>
          /\ session[w].pc \in {"register_onboard", "register_write"}
      BY <1>2, <2>2
    <3> QED
      BY <1>2, <1>3, <3>1 DEF AInv, SessionOK, Number
  <2> QED
    BY <2>1, <2>2
<1>7. ASSUME NEW v \in Workers PROVE SessionOK(session[v])'
  <2>1. CASE v = w
    BY <1>2, <2>1, IdleOK DEF AInv, TypeOK, SessionOK, Idle
  <2>2. CASE v # w
    BY <1>2, <1>3, <2>2, SessionKept DEF AInv, TypeOK
  <2> QED
    BY <2>1, <2>2
<1> QED
  BY <1>4, <1>5, <1>6, <1>7 DEF AInv

\* Every step keeps the invariant.
LEMMA AInvStep == AInv /\ [Next]_vars => AInv'
<1> SUFFICES ASSUME AInv, [Next]_vars PROVE AInv'
  OBVIOUS
<1>1. CASE Next
  BY <1>1, StepKinds, ReadsKeep, SignsInKeep, InsertsKeep, GivesUpKeep, MovesFilesKeep, CommitsKeep
<1>2. CASE UNCHANGED vars
  BY <1>2 DEF vars, AInv, TypeOK, NumbersUnique, TokensHold, Exists, SessionOK
<1> QED
  BY <1>1, <1>2

\* The invariant says what sign-in promises.
LEMMA AInvImplies == AInv => OneAccountPerNumber
<1> SUFFICES ASSUME AInv, NEW s \in signedIn, NEW t \in signedIn
             PROVE  Number(s[1], s[2]) = Number(t[1], t[2]) <=> s[3] = t[3]
  BY DEF OneAccountPerNumber
<1>1. /\ Number(s[1], s[2]) \in Phones /\ s[3] \in Ids
      /\ profiles[s[3]].phone = Number(s[1], s[2])
      /\ Number(t[1], t[2]) \in Phones /\ t[3] \in Ids
      /\ profiles[t[3]].phone = Number(t[1], t[2])
  BY NumberTyped DEF AInv, TypeOK, TokensHold
<1>2. Exists(s[3])
  BY <1>1, IdentifiersAssumption DEF Exists
<1> QED
  BY <1>1, <1>2 DEF AInv, NumbersUnique

-----------------------------------------------------------------------------
\* Every variable of Accounts keeps the shape of its table, for any number of
\* processes.
THEOREM AccountsTyped == Spec => []TypeOK
<1>1. AInv => TypeOK
  BY DEF AInv
<1> QED
  BY <1>1, AInvInit, AInvStep, PTL DEF Spec

\* One stored number, one account: two sign-ins through verify_otp, register or
\* admin_login get the same account exactly when their doors looked up the same
\* number, which for admin_login is the normal form of the one sent.
THEOREM SameAccount == Spec => []OneAccountPerNumber
<1> QED
  BY AInvInit, AInvStep, AInvImplies, PTL DEF Spec

\* Handlers write from stale rows, and no number changes, no administrator is
\* demoted and no block is lifted but by unblock_user.
LEMMA StandsStep == AInv /\ [Next]_vars =>
  \A i \in Ids : Exists(i) =>
    /\ profiles'[i].phone = profiles[i].phone
    /\ profiles[i].admin => profiles'[i].admin
    /\ profiles[i].blocked /\ ~profiles'[i].blocked =>
         \E w \in Workers : At(w, "unblock_write") /\ session[w].id = i
<1> SUFFICES ASSUME AInv, Next \/ UNCHANGED profiles, NEW i \in Ids, Exists(i)
             PROVE  /\ profiles'[i].phone = profiles[i].phone
                    /\ profiles[i].admin => profiles'[i].admin
                    /\ profiles[i].blocked /\ ~profiles'[i].blocked =>
                         \E w \in Workers : At(w, "unblock_write") /\ session[w].id = i
  BY DEF vars
<1>1. CASE profiles'[i] = profiles[i]
  BY <1>1
<1>2. ASSUME NEW w \in Workers, Inserts(w) PROVE profiles'[i] = profiles[i]
  <2> PICK j \in Ids, a \in Avatars : Insert(session[w].phone, j, a)
    BY <1>2, InsertsPick
  <2> QED
    BY DEF Insert, AInv, TypeOK
<1>3. ASSUME NEW w \in Workers, Commits(w), profiles'[i] # profiles[i]
      PROVE  /\ profiles'[i].phone = profiles[i].phone
             /\ profiles[i].admin => profiles'[i].admin
             /\ profiles[i].blocked /\ ~profiles'[i].blocked =>
                  At(w, "unblock_write") /\ session[w].id = i
  <2> DEFINE old == session[w].row
  <2>1. PICK sent \in ProfileRows : Sent(w, sent) /\ Write(w, sent)
    BY <1>3, CommitsWrite
  <2>2. /\ session[w].id = i /\ profiles'[i] = Flush(profiles[i], old, sent)
        /\ profiles'[i].phone = profiles[i].phone
    BY <1>3, <2>1, CommitsWrite, WriteFlushes DEF AInv
  <2>3. old \in ProfileRows /\ profiles[i] \in ProfileRows
    BY DEF AInv, TypeOK, Sessions
  <2> HIDE DEF old
  <2>4. sent.admin = old.admin \/ sent.admin
    BY <2>1, <2>3 DEF Sent, ProfileRows, old
  <2>5. sent.blocked = old.blocked \/ sent.blocked \/ At(w, "unblock_write")
    BY <2>1, <2>3 DEF Sent, ProfileRows, old, At
  <2> QED
    BY <2>2, <2>3, <2>4, <2>5, FlushColumns
<1>4. ASSUME NEW w \in Workers, Reads(w) \/ SignsIn(w) \/ GivesUp(w) \/ MovesFiles(w)
      PROVE  UNCHANGED profiles
  BY <1>4 DEF Reads, VerifyRead, RegisterRead, RegisterLoad, PromoteRead, PatchRead,
       UploadRead, BlockRead, UnblockRead, SignsIn, Verify, AdminLogin, GivesUp,
       InsertRefused, NameRefused, WorkerFails, MovesFiles, UploadUnlink, UploadFile
<1> QED
  BY <1>1, <1>2, <1>3, <1>4, StepKinds

\* The decisions stand, for any number of processes and accounts.
THEOREM NothingTakenBack == Spec => DecisionsStand
<1> QED
  BY AInvInit, AInvStep, StandsStep, PTL DEF Spec, DecisionsStand

-----------------------------------------------------------------------------
\* The inductive invariant of the photos: a file no client has named belongs to
\* one account, and the file an upload has just written to nobody else.
Own == Files \ named

SessionFiles(w) ==
  /\ session[w].row.avatar \in Own =>
       \A j \in Ids : profiles[j].avatar = session[w].row.avatar => j = session[w].id
  /\ session[w].pc \in {"upload_unlink", "upload_commit"} =>
       /\ session[w].file \in Files /\ session[w].file # session[w].row.avatar
       /\ session[w].file \in disk \cup named
  /\ session[w].file \in Own =>
       /\ \A j \in Ids : profiles[j].avatar # session[w].file
       /\ \A v \in Workers : /\ session[v].row.avatar # session[w].file
                             /\ v # w => session[v].file # session[w].file

FilesOwned ==
  \A i, j \in Ids : profiles[i].avatar \in Own /\ profiles[i].avatar = profiles[j].avatar => i = j

PInv == AInv /\ FilesOwned /\ (\A w \in Workers : SessionFiles(w)) /\ PhotosExist

LEMMA NullRowsNameNoFile == NoRow.avatar \notin Files /\ Idle.row.avatar \notin Files
                            /\ Idle.file \notin Files /\ Idle.pc = "idle"
BY IdentifiersAssumption DEF NoRow, Idle

LEMMA PInvInit == Init => PInv
<1> SUFFICES ASSUME Init PROVE PInv
  OBVIOUS
<1>1. FilesOwned /\ \A w \in Workers : SessionFiles(w)
  BY NullRowsNameNoFile DEF Init, FilesOwned, SessionFiles, Own
<1>2. Dangling = {}
  BY NullRowsNameNoFile DEF Init, Dangling
<1>3. PhotosExist
  BY <1>2, FS_EmptySet DEF PhotosExist, Init
<1> QED
  BY <1>1, <1>3, AInvInit DEF PInv

\* What a commit leaves in the avatar column.
LEMMA CommitsAvatar ==
  ASSUME PInv, NEW w \in Workers, Commits(w)
  PROVE  LET s == session[w] IN
         /\ \A i \in Ids \ {s.id} : profiles'[i] = profiles[i]
         /\ s.pc = "upload_commit" => profiles'[s.id].avatar = s.file
         /\ s.pc # "upload_commit" =>
              profiles'[s.id].avatar \in {profiles[s.id].avatar, NoFile, External} \cup named'
<1> DEFINE s == session[w]
<1>1. PICK sent \in ProfileRows : Sent(w, sent) /\ Write(w, sent) /\ Named(w, sent)
  BY CommitsWrite DEF PInv
<1>2. /\ s.id \in Ids /\ profiles'[s.id] = Flush(profiles[s.id], s.row, sent)
      /\ \A i \in Ids \ {s.id} : profiles'[i] = profiles[i]
  BY <1>1, CommitsWrite, WriteFlushes DEF PInv, AInv
<1>3. s.row \in ProfileRows /\ profiles[s.id] \in ProfileRows /\ s.file \in Avatars
  BY <1>2 DEF PInv, AInv, TypeOK, Sessions
<1>4. profiles'[s.id].avatar =
        IF sent.avatar = s.row.avatar THEN profiles[s.id].avatar ELSE sent.avatar
  BY <1>2, <1>3, FlushColumns
<1>5. CASE s.pc = "upload_commit"
  <2>1. sent.avatar = s.file
    BY <1>1, <1>3, <1>5 DEF Sent, ProfileRows
  <2>2. s.file \in Files /\ s.file # s.row.avatar
    BY <1>5 DEF PInv, SessionFiles, AInv, TypeOK
  <2> QED
    BY <1>2, <1>4, <1>5, <2>1, <2>2
<1>6. CASE s.pc # "upload_commit"
  <2>1. sent.avatar \in {s.row.avatar, NoFile, External} \cup named'
    BY <1>1, <1>6 DEF Named
  <2> QED
    BY <1>2, <1>4, <1>6, <2>1
<1> QED
  BY <1>5, <1>6

\* Profiles and files are as they were.
LEMMA ReadsKeepFiles ==
  ASSUME PInv, NEW w \in Workers, Reads(w)
  PROVE  FilesOwned' /\ (\A v \in Workers : SessionFiles(v)') /\ Dangling' \subseteq Dangling
<1>1. /\ UNCHANGED <<profiles, disk, named, failures>> /\ session[w].pc = "idle"
      /\ \E s : /\ session' = [session EXCEPT ![w] = s]
              /\ s.file = NoFile
              /\ s.pc \notin {"upload_unlink", "upload_commit"}
              /\ \/ s.row = NoRow
                 \/ s.id \in Ids /\ s.row = profiles[s.id]
  <2>1. ASSUME NEW p \in Phones, NEW step \in {"verify_insert", "register_insert"},
               Continue(w, [Idle EXCEPT !.pc = step, !.phone = p]),
               UNCHANGED <<profiles, disk, named, failures>>, At(w, "idle")
        PROVE  <1>1
    <3> DEFINE next == [Idle EXCEPT !.pc = step, !.phone = p]
    <3>1. next.file = NoFile /\ next.pc = step /\ next.row = NoRow
      BY DEF Idle
    <3> HIDE DEF next
    <3> QED
      BY <2>1, <3>1 DEF Continue, At, next
  <2>2. ASSUME NEW p \in Phones \cup {NoPhone}, NEW i \in Ids,
               NEW step \in {"register_write", "patch_write", "upload_file", "block_write",
                             "unblock_write", "promote_write"},
               Continue(w, [Idle EXCEPT !.pc = step, !.id = i, !.phone = p, !.row = profiles[i]]),
               UNCHANGED <<profiles, disk, named, failures>>, At(w, "idle")
        PROVE  <1>1
    <3> DEFINE next == [Idle EXCEPT !.pc = step, !.id = i, !.phone = p, !.row = profiles[i]]
    <3>1. next.file = NoFile /\ next.pc = step /\ next.id = i /\ next.row = profiles[i]
      BY DEF Idle
    <3> HIDE DEF next
    <3> QED
      BY <2>2, <3>1 DEF Continue, At, next
  <2>3. ASSUME NEW i \in Ids, NEW step \in {"patch_write", "upload_file", "block_write",
               "unblock_write", "promote_write"}, Loaded(w, step, i),
               UNCHANGED <<profiles, disk, named, failures>>, At(w, "idle")
        PROVE  <1>1
    <3> DEFINE next == [Idle EXCEPT !.pc = step, !.id = i, !.row = profiles[i]]
    <3>1. next.file = NoFile /\ next.pc = step /\ next.id = i /\ next.row = profiles[i]
      BY DEF Idle
    <3> HIDE DEF next
    <3> QED
      BY <2>3, <3>1 DEF Loaded, Continue, At, next
  <2>4. ASSUME NEW p \in Phones, NEW i \in Ids, PromoteRead(w, p, i) PROVE <1>1
    BY <2>3, <2>4 DEF PromoteRead
  <2>5. ASSUME NEW i \in Ids, PatchRead(w, i) \/ UploadRead(w, i) PROVE <1>1
    BY <2>3, <2>5 DEF PatchRead, UploadRead
  <2>6. ASSUME NEW a \in Ids, NEW i \in Ids, BlockRead(w, a, i) \/ UnblockRead(w, a, i) PROVE <1>1
    BY <2>3, <2>6 DEF BlockRead, UnblockRead
  <2>7. ASSUME NEW p \in Phones, VerifyRead(w, p) \/ RegisterRead(w, p) PROVE <1>1
    BY <2>1, <2>7 DEF VerifyRead, RegisterRead
  <2>8. ASSUME NEW p \in Phones, NEW i \in Ids, RegisterLoad(w, p, i) PROVE <1>1
    BY <2>2, <2>8 DEF RegisterLoad
  <2> QED
    BY <2>4, <2>5, <2>6, <2>7, <2>8 DEF Reads
<1>2. PICK s : /\ session' = [session EXCEPT ![w] = s]
               /\ s.file = NoFile
               /\ s.pc \notin {"upload_unlink", "upload_commit"}
               /\ \/ s.row = NoRow
                  \/ s.id \in Ids /\ s.row = profiles[s.id]
  BY <1>1
<1>3. session'[w] = s /\ \A v \in Workers \ {w} : session'[v] = session[v]
  BY <1>2 DEF PInv, AInv, TypeOK
<1>4. FilesOwned'
  BY <1>1 DEF PInv, FilesOwned, Own
<1>5. ASSUME NEW v \in Workers PROVE SessionFiles(v)'
  <2>1. CASE v = w
    BY <1>1, <1>2, <1>3, <2>1, NullRowsNameNoFile, IdentifiersAssumption
    DEF SessionFiles, PInv, FilesOwned, Own
  <2>2. CASE v # w
    <3>1. session'[v] = session[v] /\ SessionFiles(v)
      BY <1>3, <2>2 DEF PInv
    <3>2. session[v].file \in Own => s.row.avatar # session[v].file /\ s.file # session[v].file
      BY <1>2, <3>1, NullRowsNameNoFile, IdentifiersAssumption DEF SessionFiles, Own
    <3> QED
      BY <1>1, <1>3, <3>1, <3>2 DEF SessionFiles, Own
  <2> QED
    BY <2>1, <2>2
<1>6. Dangling' \subseteq Dangling
  BY <1>1, <1>2, <1>3 DEF Dangling, At
<1> QED
  BY <1>4, <1>5, <1>6

\* A new account has no photo of its own yet.
LEMMA InsertsKeepFiles ==
  ASSUME PInv, NEW w \in Workers, Inserts(w)
  PROVE  FilesOwned' /\ (\A v \in Workers : SessionFiles(v)') /\ Dangling' \subseteq Dangling
<1> USE IdentifiersAssumption
<1>1. PICK i \in Ids, a \in Avatars :
        /\ session[w].phone \in Phones
        /\ Insert(session[w].phone, i, a) /\ UNCHANGED <<disk, failures>>
        /\ named \subseteq named' /\ a \in {NoFile, External} \cup named'
        /\ session[w].pc \in {"verify_insert", "register_insert"}
        /\ \/ Finish(w)
           \/ Continue(w, [Idle EXCEPT !.pc = "register_onboard", !.id = i,
                                       !.phone = session[w].phone,
                                       !.row = NewProfile(session[w].phone, a)])
  BY InsertsPick DEF PInv
<1>2. /\ NewProfile(session[w].phone, a).avatar = a
      /\ a \notin Own' /\ NoFile \notin Own' /\ Own' \subseteq Own /\ Own \subseteq Files
  BY <1>1, NewProfileTyped DEF Own
<1>3. /\ profiles'[i].avatar \notin Own'
      /\ \A j \in Ids \ {i} : profiles'[j] = profiles[j]
  BY <1>1, <1>2 DEF Insert, PInv, AInv, TypeOK
<1>4. /\ session'[w].row.avatar \notin Own' /\ session'[w].file \notin Own'
      /\ session'[w].pc \notin {"upload_unlink", "upload_commit"}
      /\ \A v \in Workers \ {w} : session'[v] = session[v]
  <2>1. CASE Finish(w)
    BY <1>2, <2>1, NullRowsNameNoFile DEF Finish, PInv, AInv, TypeOK
  <2> DEFINE next == [Idle EXCEPT !.pc = "register_onboard", !.id = i,
                                  !.phone = session[w].phone,
                                  !.row = NewProfile(session[w].phone, a)]
  <2>2. next.row.avatar = a /\ next.file = NoFile /\ next.pc = "register_onboard"
    BY <1>2 DEF Idle
  <2>3. CASE Continue(w, next)
    BY <1>2, <2>2, <2>3 DEF Continue, PInv, AInv, TypeOK
  <2> QED
    BY <1>1, <2>1, <2>3
<1>5. FilesOwned'
  BY <1>2, <1>3 DEF PInv, FilesOwned
<1>6. ASSUME NEW v \in Workers PROVE SessionFiles(v)'
  <2>1. CASE v = w
    BY <1>2, <1>4, <2>1 DEF SessionFiles
  <2>2. CASE v # w
    BY <1>1, <1>2, <1>3, <1>4, <2>2 DEF SessionFiles, PInv
  <2> QED
    BY <2>1, <2>2
<1>7. Dangling' \subseteq Dangling
  BY <1>1, <1>2, <1>3, <1>4 DEF Dangling, At, Own
<1> QED
  BY <1>5, <1>6, <1>7

\* A token changes no profile and no file.
LEMMA SignsInKeepFiles ==
  ASSUME PInv, NEW w \in Workers, SignsIn(w)
  PROVE  FilesOwned' /\ (\A v \in Workers : SessionFiles(v)') /\ Dangling' \subseteq Dangling
<1>1. UNCHANGED <<profiles, disk, named, session>>
  BY DEF SignsIn, Verify, AdminLogin
<1> QED
  BY <1>1 DEF PInv, FilesOwned, SessionFiles, Dangling, At, Own

\* A session that ends without a commit: at most the profile it worked on is
\* left without its photo, and only if it died.
LEMMA GivesUpKeepFiles ==
  ASSUME PInv, NEW w \in Workers, GivesUp(w)
  PROVE  /\ FilesOwned' /\ (\A v \in Workers : SessionFiles(v)')
         /\ \/ Dangling' \subseteq Dangling /\ failures' = failures
            \/ Dangling' \subseteq Dangling \cup {session[w].id} /\ failures' = failures + 1
<1>1. /\ UNCHANGED <<profiles, disk, named>>
      /\ session' = [session EXCEPT ![w] = Idle]
      /\ \/ session[w].pc # "upload_commit" /\ failures' = failures
         \/ failures' = failures + 1
  BY DEF GivesUp, InsertRefused, NameRefused, WorkerFails, Finish
<1>2. session'[w] = Idle /\ \A v \in Workers \ {w} : session'[v] = session[v]
  BY <1>1 DEF PInv, AInv, TypeOK
<1>3. FilesOwned'
  BY <1>1 DEF PInv, FilesOwned, Own
<1>4. ASSUME NEW v \in Workers PROVE SessionFiles(v)'
  <2>1. CASE v = w
    BY <1>2, <2>1, NullRowsNameNoFile DEF SessionFiles, Own
  <2>2. CASE v # w
    BY <1>1, <1>2, <2>2, NullRowsNameNoFile DEF SessionFiles, PInv, Own
  <2> QED
    BY <2>1, <2>2
<1>5. /\ Dangling' \subseteq Dangling \cup {session[w].id}
      /\ session[w].pc # "upload_commit" => Dangling' \subseteq Dangling
  BY <1>1, <1>2 DEF Dangling, At
<1> QED
  BY <1>1, <1>3, <1>4, <1>5

\* The file written is new to everybody, the file removed was this account's.
LEMMA MovesKeepFiles ==
  ASSUME PInv, NEW w \in Workers, MovesFiles(w)
  PROVE  FilesOwned' /\ (\A v \in Workers : SessionFiles(v)') /\ Dangling' \subseteq Dangling
<1> DEFINE s == session[w]
<1>0. s \in Sessions
  BY DEF PInv, AInv, TypeOK
<1>1. ASSUME NEW f \in Files, UploadFile(w, f)
      PROVE  FilesOwned' /\ (\A v \in Workers : SessionFiles(v)') /\ Dangling' \subseteq Dangling
  <2>1. /\ UNCHANGED <<profiles, named, failures>> /\ disk' = disk \cup {f}
        /\ s.pc = "upload_file"
        /\ session' = [session EXCEPT ![w] = [s EXCEPT !.pc = "upload_unlink", !.file = f]]
        /\ \A i \in Ids : profiles[i].avatar # f
        /\ \A v \in Workers : session[v].row.avatar # f /\ session[v].file # f
    BY <1>1 DEF UploadFile, FreshNames, Continue, At
  <2>2. /\ session'[w].pc = "upload_unlink" /\ session'[w].file = f
        /\ session'[w].row = s.row /\ session'[w].id = s.id
        /\ \A v \in Workers \ {w} : session'[v] = session[v]
    BY <1>0, <2>1 DEF PInv, AInv, TypeOK, Sessions
  <2>3. FilesOwned'
    BY <2>1 DEF PInv, FilesOwned, Own
  <2>4. ASSUME NEW v \in Workers PROVE SessionFiles(v)'
    <3>1. CASE v = w
      BY <2>1, <2>2, <3>1 DEF SessionFiles, PInv, Own
    <3>2. CASE v # w
      BY <2>1, <2>2, <3>2 DEF SessionFiles, PInv, Own
    <3> QED
      BY <3>1, <3>2
  <2>5. Dangling' \subseteq Dangling
    BY <2>1, <2>2 DEF Dangling, At
  <2> QED
    BY <2>3, <2>4, <2>5
<1>2. CASE UploadUnlink(w)
  <2>1. /\ UNCHANGED <<profiles, named, failures>> /\ disk' = disk \ {s.row.avatar}
        /\ s.pc = "upload_unlink"
        /\ session' = [session EXCEPT ![w] = [s EXCEPT !.pc = "upload_commit"]]
    BY <1>2 DEF UploadUnlink, Continue, At
  <2>2. /\ session'[w].pc = "upload_commit" /\ session'[w].file = s.file
        /\ session'[w].row = s.row /\ session'[w].id = s.id
        /\ \A v \in Workers \ {w} : session'[v] = session[v]
    BY <1>0, <2>1 DEF PInv, AInv, TypeOK, Sessions
  <2>3. FilesOwned'
    BY <2>1 DEF PInv, FilesOwned, Own
  <2>4. ASSUME NEW v \in Workers PROVE SessionFiles(v)'
    <3>1. session[v].pc \in {"upload_unlink", "upload_commit"} =>
            session[v].file \in disk' \cup named'
      BY <2>1 DEF PInv, SessionFiles, AInv, TypeOK, Own
    <3>2. CASE v = w
      BY <2>1, <2>2, <3>1, <3>2 DEF SessionFiles, PInv, Own
    <3>3. CASE v # w
      BY <2>1, <2>2, <3>1, <3>3 DEF SessionFiles, PInv, Own
    <3> QED
      BY <3>2, <3>3
  <2>5. Dangling' \subseteq Dangling
    <3> SUFFICES ASSUME NEW i \in Dangling' PROVE i \in Dangling
      OBVIOUS
    <3>1. /\ i \in Ids /\ profiles[i].avatar \in Own /\ profiles[i].avatar \notin disk'
          /\ i # s.id
          /\ \A v \in Workers \ {w} : ~(session[v].pc = "upload_commit" /\ session[v].id = i)
      BY <2>1, <2>2 DEF Dangling, At, Own
    <3>2. profiles[i].avatar # s.row.avatar
      BY <3>1 DEF PInv, SessionFiles
    <3> QED
      BY <2>1, <3>1, <3>2 DEF Dangling, At, Own
  <2> QED
    BY <2>3, <2>4, <2>5
<1> QED
  BY <1>1, <1>2 DEF MovesFiles

\* A commit gives a profile its new photo, which is on the disk, or no file.
LEMMA CommitsKeepFiles ==
  ASSUME PInv, NEW w \in Workers, Commits(w)
  PROVE  FilesOwned' /\ (\A v \in Workers : SessionFiles(v)') /\ Dangling' \subseteq Dangling
<1> DEFINE s == session[w]
<1>1. /\ s.id \in Ids /\ UNCHANGED disk /\ session' = [session EXCEPT ![w] = Idle]
      /\ \A i \in Ids \ {s.id} : profiles'[i] = profiles[i]
      /\ s.pc = "upload_commit" => profiles'[s.id].avatar = s.file
      /\ s.pc # "upload_commit" =>
           profiles'[s.id].avatar \in {profiles[s.id].avatar, NoFile, External} \cup named'
      /\ named \subseteq named'
  BY CommitsWrite, CommitsAvatar DEF PInv, Finish
<1>0. Own' \subseteq Own /\ Own \subseteq Files /\ NoFile \notin Own /\ External \notin Own
      /\ \A f \in named' : f \notin Own'
  BY <1>1, IdentifiersAssumption DEF Own
<1>2. session'[w] = Idle /\ \A v \in Workers \ {w} : session'[v] = session[v]
  BY <1>1 DEF PInv, AInv, TypeOK
<1>3. /\ s.pc = "upload_commit" => s.file \in Files /\ s.file \in disk \cup named
      /\ SessionFiles(w)
  BY DEF PInv, SessionFiles, AInv, TypeOK
<1>4. FilesOwned'
  BY <1>0, <1>1, <1>3 DEF PInv, FilesOwned, SessionFiles
<1>5. ASSUME NEW v \in Workers PROVE SessionFiles(v)'
  <2>1. CASE v = w
    BY <1>0, <1>2, <2>1, NullRowsNameNoFile DEF SessionFiles
  <2>2. CASE v # w
    <3>1. session'[v] = session[v] /\ SessionFiles(v)
      BY <1>2, <2>2 DEF PInv
    <3>2. ASSUME NEW j \in Ids, profiles'[j].avatar \in Own'
          PROVE  \/ profiles'[j].avatar = profiles[j].avatar
                 \/ profiles'[j].avatar = s.file /\ j = s.id
      <4>1. CASE j # s.id
        <5>1. profiles'[j] = profiles[j]
          BY <1>1, <4>1
        <5> QED
          BY <5>1
      <4>2. CASE j = s.id
        BY <1>0, <1>1, <3>2, <4>2
      <4> QED
        BY <4>1, <4>2
    <3>3. s.file \in Own => session[v].row.avatar # s.file /\ session[v].file # s.file
      BY <1>3, <2>2 DEF SessionFiles
    <3>4. \A j \in Ids : session[v].row.avatar \in Own' /\ profiles'[j].avatar = session[v].row.avatar
             => j = session[v].id
      BY <1>0, <3>1, <3>2, <3>3 DEF SessionFiles
    <3>5. session[v].file \in Own' => \A j \in Ids : profiles'[j].avatar # session[v].file
      BY <1>0, <3>1, <3>2, <3>3 DEF SessionFiles
    <3>6. session[v].file \in Own' =>
            \A u \in Workers : /\ session'[u].row.avatar # session[v].file
                               /\ u # v => session'[u].file # session[v].file
      BY <1>0, <1>2, <3>1, NullRowsNameNoFile DEF SessionFiles
    <3>7. session[v].pc \in {"upload_unlink", "upload_commit"} =>
            /\ session[v].file \in Files /\ session[v].file # session[v].row.avatar
            /\ session[v].file \in disk' \cup named'
      BY <1>1, <3>1 DEF SessionFiles
    <3>8. session'[v].row.avatar \in Own' =>
            \A j \in Ids : profiles'[j].avatar = session'[v].row.avatar => j = session'[v].id
      BY <3>1, <3>4
    <3>9. session'[v].file \in Own' =>
            /\ \A j \in Ids : profiles'[j].avatar # session'[v].file
            /\ \A u \in Workers : /\ session'[u].row.avatar # session'[v].file
                                  /\ u # v => session'[u].file # session'[v].file
      BY <3>1, <3>5, <3>6
    <3>10. session'[v].pc \in {"upload_unlink", "upload_commit"} =>
            /\ session'[v].file \in Files /\ session'[v].file # session'[v].row.avatar
            /\ session'[v].file \in disk' \cup named'
      BY <3>1, <3>7
    <3> QED
      BY <3>8, <3>9, <3>10 DEF SessionFiles
  <2> QED
    BY <2>1, <2>2
<1>6. Dangling' \subseteq Dangling
  <2> SUFFICES ASSUME NEW i \in Dangling' PROVE i \in Dangling
    OBVIOUS
  <2>1. /\ i \in Ids /\ profiles'[i].avatar \in Own' /\ profiles'[i].avatar \notin disk
        /\ \A v \in Workers \ {w} : ~(session[v].pc = "upload_commit" /\ session[v].id = i)
    BY <1>1, <1>2 DEF Dangling, At, Own
  <2>2. CASE i = s.id
    BY <1>0, <1>1, <1>3, <2>1, <2>2 DEF Dangling, At, Own
  <2>3. CASE i # s.id
    BY <1>0, <1>1, <2>1, <2>3 DEF Dangling, At, Own
  <2> QED
    BY <2>2, <2>3
<1> QED
  BY <1>4, <1>5, <1>6

\* Every step keeps the photos, or costs a failure.
LEMMA PInvStep == PInv /\ [Next]_vars => PInv'
<1> SUFFICES ASSUME PInv, [Next]_vars PROVE PInv'
  OBVIOUS
<1>1. AInv'
  BY AInvStep DEF PInv
<1>2. /\ FilesOwned' /\ (\A v \in Workers : SessionFiles(v)')
      /\ \/ Dangling' \subseteq Dangling /\ failures \in Nat /\ failures' \in Nat /\ failures' >= failures
         \/ \E i : Dangling' \subseteq Dangling \cup {i} /\ failures' = failures + 1
  <2>0. failures \in Nat /\ failures' \in Nat
    BY <1>1, FailuresAssumption DEF PInv, AInv, TypeOK
  <2>1. CASE UNCHANGED vars
    BY <2>0, <2>1 DEF vars, PInv, FilesOwned, SessionFiles, Dangling, At, Own
  <2>2. ASSUME NEW w \in Workers, Reads(w) \/ SignsIn(w) \/ Inserts(w) \/ MovesFiles(w) \/ Commits(w)
        PROVE  /\ FilesOwned' /\ (\A v \in Workers : SessionFiles(v)')
               /\ Dangling' \subseteq Dangling /\ failures' = failures
    <3>1. ASSUME Reads(w) \/ SignsIn(w) \/ Inserts(w) \/ MovesFiles(w) PROVE failures' = failures
      BY <3>1 DEF Reads, VerifyRead, RegisterRead, RegisterLoad, PromoteRead, PatchRead,
         UploadRead, BlockRead, UnblockRead, SignsIn, Verify, AdminLogin, Inserts,
         VerifyInsert, RegisterInsert, MovesFiles, UploadUnlink, UploadFile
    <3>2. ASSUME Commits(w) PROVE failures' = failures
      BY <3>2, CommitsWrite DEF PInv
    <3> QED
      BY <2>2, <3>1, <3>2, ReadsKeepFiles, SignsInKeepFiles, InsertsKeepFiles, MovesKeepFiles, CommitsKeepFiles
  <2>3. ASSUME NEW w \in Workers, GivesUp(w)
        PROVE  <1>2
    <3>1. FilesOwned' /\ (\A v \in Workers : SessionFiles(v)')
      BY <2>3, GivesUpKeepFiles
    <3>2. CASE Dangling' \subseteq Dangling /\ failures' = failures
      BY <2>0, <3>1, <3>2
    <3>3. CASE Dangling' \subseteq Dangling \cup {session[w].id} /\ failures' = failures + 1
      BY <3>1, <3>3
    <3>4. \/ Dangling' \subseteq Dangling /\ failures' = failures
          \/ Dangling' \subseteq Dangling \cup {session[w].id} /\ failures' = failures + 1
      BY <2>3, GivesUpKeepFiles
    <3> QED
      BY <3>2, <3>3, <3>4
  <2> QED
    BY <2>0, <2>1, <2>2, <2>3, StepKinds
<1>3. PhotosExist'
  <2>1. IsFiniteSet(Dangling)
    BY FiniteAssumption, FS_Subset DEF Dangling
  <2>2. CASE Dangling' \subseteq Dangling /\ failures \in Nat /\ failures' \in Nat /\ failures' >= failures
    <3>1. Cardinality(Dangling') <= Cardinality(Dangling) /\ Cardinality(Dangling) \in Nat
          /\ Cardinality(Dangling') \in Nat
      BY <2>1, <2>2, FS_Subset, FS_CardinalityType
    <3> QED
      BY <2>2, <3>1 DEF PInv, PhotosExist
  <2>3. ASSUME NEW i, Dangling' \subseteq Dangling \cup {i}, failures' = failures + 1
        PROVE  PhotosExist'
    <3>1. /\ IsFiniteSet(Dangling \cup {i})
          /\ Cardinality(Dangling \cup {i}) <= Cardinality(Dangling) + 1
          /\ Cardinality(Dangling) \in Nat
      BY <2>1, FS_AddElement, FS_CardinalityType
    <3>2. /\ Cardinality(Dangling') <= Cardinality(Dangling \cup {i})
          /\ Cardinality(Dangling') \in Nat /\ Cardinality(Dangling \cup {i}) \in Nat
      BY <2>3, <3>1, FS_Subset, FS_CardinalityType
    <3>3. failures \in Nat
      BY FailuresAssumption DEF PInv, AInv, TypeOK
    <3> QED
      BY <2>3, <3>1, <3>2, <3>3 DEF PInv, PhotosExist
  <2> QED
    BY <1>2, <2>2, <2>3
<1> QED
  BY <1>1, <1>2, <1>3 DEF PInv

\* A profile that names a photo nobody has, though no client ever named that
\* file, costs a failed upload: for any number of accounts, files and processes,
\* and whatever strings clients send as avatar_url.
THEOREM PhotosKept == Spec => []PhotosExist
<1>1. PInv => PhotosExist
  BY DEF PInv
<1> QED
  BY <1>1, PInvInit, PInvStep, PTL DEF Spec

-----------------------------------------------------------------------------
\* The phone book

BookAccounts == [p \in Phones |-> AccountOf(p)]

\* The phone book has the account of a number exactly where a row holds it.
BookIsTrue ==
  \A p \in Phones :
    /\ \A i \in Ids : Holds(i, p) <=> BookAccounts[p] = i
    /\ (\A i \in Ids : ~Holds(i, p)) => BookAccounts[p] = NoId

LEMMA BookTrue == AInv => BookIsTrue
<1> SUFFICES ASSUME AInv, NEW p \in Phones
             PROVE  /\ \A i \in Ids : Holds(i, p) <=> BookAccounts[p] = i
                    /\ (\A i \in Ids : ~Holds(i, p)) => BookAccounts[p] = NoId
  BY DEF BookIsTrue
<1>1. BookAccounts[p] = AccountOf(p)
  BY DEF BookAccounts
<1>2. ASSUME NEW i \in Ids, Holds(i, p) PROVE AccountOf(p) = i
  <2>1. Holds(CHOOSE j \in Ids : Holds(j, p), p) /\ (CHOOSE j \in Ids : Holds(j, p)) \in Ids
    BY <1>2
  <2>2. AccountOf(p) = CHOOSE j \in Ids : Holds(j, p)
    BY <1>2 DEF AccountOf
  <2> QED
    BY <1>2, <2>1, <2>2, IdentifiersAssumption DEF AInv, NumbersUnique, Holds, Exists
<1>3. (\A i \in Ids : ~Holds(i, p)) => AccountOf(p) = NoId
  BY DEF AccountOf
<1> QED
  BY <1>1, <1>2, <1>3, IdentifiersAssumption

\* A number that is not changed keeps its entry.
LEMMA BookKept ==
  ASSUME AInv, AInv', \A i \in Ids : profiles'[i].phone = profiles[i].phone
  PROVE  BookAccounts' = BookAccounts
<1>1. BookIsTrue /\ BookIsTrue'
  BY BookTrue, PTL
<1>2. ASSUME NEW p \in Phones PROVE BookAccounts'[p] = BookAccounts[p]
  BY <1>1 DEF BookIsTrue, Holds
<1> QED
  BY <1>2 DEF BookAccounts

\* The answer of the phone book.
Answers(door, p) ==
  /\ BookAccounts'[Number(door, p)] # NoId
  /\ signedIn' = signedIn \cup {<<door, p, BookAccounts'[Number(door, p)]>>}

\* A token goes to the account the book gives the looked-up number afterwards.
LEMMA AnswersFromBook ==
  ASSUME AInv', NEW door \in Doors, NEW p \in Phones, NEW i \in Ids,
         profiles'[i].phone = Number(door, p), SignIn(door, p, i)
  PROVE  Answers(door, p)
<1> DEFINE q == Number(door, p)
<1>1. BookIsTrue'
  BY BookTrue, PTL
<1>2. q \in Phones
  BY NumberTyped
<1>3. BookAccounts'[q] = i
  BY <1>1, <1>2 DEF BookIsTrue, Holds
<1> QED
  BY <1>3, IdentifiersAssumption DEF SignIn, Answers

\* Every step of Accounts is a step of the phone book or stutters.
LEMMA BookStep ==
  ASSUME AInv, AInv', [Next]_vars
  PROVE  \/ UNCHANGED <<BookAccounts, signedIn>>
         \/ \E door \in Doors, p \in Phones : UNCHANGED BookAccounts /\ Answers(door, p)
         \/ \E p \in Phones, i \in Ids :
              /\ BookAccounts[p] = NoId /\ \A o \in Phones : BookAccounts[o] # i
              /\ BookAccounts' = [BookAccounts EXCEPT ![p] = i]
              /\ \/ UNCHANGED signedIn
                 \/ Answers("otp", p)
<1> DEFINE Answered == \E door \in Doors, p \in Phones : Answers(door, p)
<1>0. "otp" \in Doors /\ \A p : Number("otp", p) = p
  BY DEF Doors, Number
<1>1. CASE UNCHANGED vars
  BY <1>1, BookKept DEF vars
<1>2. ASSUME NEW w \in Workers, Reads(w) \/ GivesUp(w) \/ MovesFiles(w)
      PROVE  UNCHANGED <<BookAccounts, signedIn>>
  <2>1. UNCHANGED <<profiles, signedIn>>
    BY <1>2 DEF Reads, VerifyRead, RegisterRead, RegisterLoad, PromoteRead, PatchRead,
       UploadRead, BlockRead, UnblockRead, GivesUp, InsertRefused, NameRefused,
       WorkerFails, MovesFiles, UploadUnlink, UploadFile
  <2> QED
    BY <2>1, BookKept
<1>3. ASSUME NEW w \in Workers, SignsIn(w) PROVE UNCHANGED BookAccounts /\ Answered
  <2> PICK door \in Doors, p \in Phones, i \in Ids :
         Holds(i, Number(door, p)) /\ SignIn(door, p, i) /\ UNCHANGED profiles
    BY <1>3 DEF SignsIn, Verify, AdminLogin, Doors, Number
  <2>1. UNCHANGED BookAccounts
    BY BookKept
  <2>2. profiles'[i].phone = Number(door, p)
    BY DEF Holds
  <2> QED
    BY <2>1, <2>2, AnswersFromBook
<1>4. ASSUME NEW w \in Workers, Commits(w)
      PROVE  UNCHANGED BookAccounts /\ (UNCHANGED signedIn \/ Answered)
  <2>1. PICK sent \in ProfileRows : Write(w, sent)
    BY <1>4, CommitsWrite
  <2>2. session[w].id \in Ids /\ \A i \in Ids : profiles'[i].phone = profiles[i].phone
    BY <1>4, <2>1, CommitsWrite, WriteFlushes DEF AInv
  <2>3. UNCHANGED BookAccounts
    BY <2>2, BookKept
  <2>4. CASE /\ session[w].pc \in {"register_onboard", "register_write"}
             /\ SignIn("otp", session[w].phone, session[w].id)
    <3>1. session[w].phone \in Phones /\ profiles'[session[w].id].phone = session[w].phone
      BY <2>2, <2>4 DEF AInv, SessionOK
    <3> QED
      BY <1>0, <2>2, <2>3, <2>4, <3>1, AnswersFromBook
  <2> QED
    BY <1>4, <2>3, <2>4, CommitsWrite
<1>5. ASSUME NEW w \in Workers, Inserts(w)
      PROVE  \E p \in Phones, i \in Ids :
               /\ BookAccounts[p] = NoId /\ \A o \in Phones : BookAccounts[o] # i
               /\ BookAccounts' = [BookAccounts EXCEPT ![p] = i]
               /\ \/ UNCHANGED signedIn
                  \/ Answers("otp", p)
  <2> DEFINE p == session[w].phone
  <2>1. PICK i \in Ids, a \in Avatars :
          p \in Phones /\ Insert(p, i, a) /\ (UNCHANGED signedIn \/ SignIn("otp", p, i))
    BY <1>5, InsertsPick
  <2> HIDE DEF p
  <2>2. /\ profiles'[i].phone = p /\ profiles[i].phone = NoPhone
        /\ \A j \in Ids \ {i} : profiles'[j] = profiles[j]
        /\ \A j \in Ids : ~Holds(j, p)
    BY <2>1, NewProfileTyped DEF Insert, NumberFree, Exists, AInv, TypeOK
  <2>3. BookIsTrue /\ BookIsTrue'
    BY BookTrue, PTL
  <2>4. BookAccounts[p] = NoId /\ \A o \in Phones : BookAccounts[o] # i
    BY <2>1, <2>2, <2>3, IdentifiersAssumption DEF BookIsTrue, Holds
  <2>5. BookAccounts'[p] = i
    BY <2>1, <2>2, <2>3 DEF BookIsTrue, Holds
  <2>6. ASSUME NEW o \in Phones, o # p PROVE BookAccounts'[o] = BookAccounts[o]
    <3>1. \A j \in Ids : Holds(j, o)' <=> Holds(j, o)
      BY <2>2, <2>6, IdentifiersAssumption DEF Holds
    <3> QED
      BY <2>3, <3>1 DEF BookIsTrue
  <2>7. BookAccounts' = [BookAccounts EXCEPT ![p] = i]
    BY <2>1, <2>5, <2>6 DEF BookAccounts
  <2> QED
    BY <1>0, <2>1, <2>2, <2>4, <2>7, AnswersFromBook
<1> QED
  BY <1>1, <1>2, <1>3, <1>4, <1>5, StepKinds

\* The accounts the program keeps implement the phone book, for any number of
\* processes: whatever is interleaved or dies, a number is opened one account.
THEOREM PhoneBookKept == Spec => ImplementsPhoneBook
<1>1. Init => Book!Init
  BY IdentifiersAssumption DEF Init, Book!Init, AccountOf, Holds, NoRow
<1>2. AInv /\ AInv' /\ [Next]_vars => [Book!Next]_<<BookAccounts, signedIn>>
  BY BookStep DEF Book!Next, Book!AnswerOnly, Book!Answer, Book!Open, Book!OpenOnly,
     Book!OpenAndAnswer, Book!Entry, BookAccounts, Answers, Number
<1>3. [Book!Next]_<<BookAccounts, signedIn>> <=> [Book!Next]_Book!book
  BY DEF BookAccounts, Book!book
<1> QED
  BY <1>1, <1>2, <1>3, AInvInit, AInvStep, PTL DEF Spec, ImplementsPhoneBook, Book!Spec
=============================================================================
