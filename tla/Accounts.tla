------------------------------ MODULE Accounts ------------------------------
(***************************************************************************)
(* Accounts: sign-in and registration by phone number (app/api/v1/auth.py, *)
(* app/services/user_service.py), the profile and its photo                *)
(* (app/api/v1/users.py), the administrators' block and unblock            *)
(* (app/api/v1/admin.py) and the script that makes administrators          *)
(* (scripts/create_admin.py).                                              *)
(*                                                                         *)
(* A worker is a process with a database session: a server process or a    *)
(* run of the script.  A handler loads a row (...Read) and later flushes   *)
(* what it changed (...Write), with the steps of the others in between.    *)
(* Every such handler is one transaction with one read of the row: a       *)
(* second query of a loaded row does not refresh it.  A rejected call      *)
(* changes nothing and shows as a disabled action.                         *)
(***************************************************************************)
EXTENDS Integers, FiniteSets

CONSTANTS
  Phones,     \* phone numbers, as a client may spell them
  Normalize,  \* phone -> the spelling normalize_bd_phone gives it
  NoPhone,
  Ids, NoId,  \* identifiers of profiles rows
  Files,      \* names of files under uploads/avatars
  NoFile,     \* avatar_url is NULL
  External,   \* avatar_url names a picture elsewhere
  SentAvatars, \* what a client may put into avatar_url: any string
  Workers,
  MaxFailures \* bound: handlers that die half way

ASSUME IdentifiersAssumption ==
  /\ NoPhone \notin Phones /\ Normalize \in [Phones -> Phones]
  /\ NoId \notin Ids
  /\ NoFile \notin Files /\ External \notin Files
  /\ SentAvatars \subseteq Files \cup {NoFile, External}
ASSUME FailuresAssumption == MaxFailures \in Nat
ASSUME FiniteAssumption == IsFiniteSet(Ids)

VARIABLES
  profiles,  \* id -> its profiles row
  disk,      \* the files that exist under uploads/avatars
  named,     \* history: the files a client itself wrote into an avatar_url
  signedIn,  \* <<door, phone, id>>: the tokens given out, with the number as sent
  session,   \* worker -> the transaction its handler is in
  failures   \* handlers that died so far

vars == <<profiles, disk, named, signedIn, session, failures>>

-----------------------------------------------------------------------------
Avatars == Files \cup {NoFile, External}

ProfileRows ==
  [phone : Phones \cup {NoPhone}, onboarded : BOOLEAN, admin : BOOLEAN,
   blocked : BOOLEAN, avatar : Avatars]

NoRow == [phone |-> NoPhone, onboarded |-> FALSE, admin |-> FALSE,
          blocked |-> FALSE, avatar |-> NoFile]

Exists(i) == profiles[i].phone # NoPhone
Holds(i, p) == profiles[i].phone = p

\* The row create_user inserts.
NewProfileSwapped(p, a) == [NoRow EXCEPT !.phone = a, !.avatar = p]
NewProfileNormalized(p, a) == [NoRow EXCEPT !.phone = Normalize[p], !.avatar = a]
NewProfile(p, a) == [NoRow EXCEPT !.phone = p, !.avatar = a]

\* The flush of a loaded row: the UPDATE names the columns whose value is no
\* longer the one that was loaded, and leaves the others as they are now.
FlushWholeRow(current, loaded, sent) == sent
Flush(current, loaded, sent) ==
  [current EXCEPT
     !.onboarded = IF sent.onboarded = loaded.onboarded THEN @ ELSE sent.onboarded,
     !.admin     = IF sent.admin = loaded.admin THEN @ ELSE sent.admin,
     !.blocked   = IF sent.blocked = loaded.blocked THEN @ ELSE sent.blocked,
     !.avatar    = IF sent.avatar = loaded.avatar THEN @ ELSE sent.avatar]

-----------------------------------------------------------------------------
Idle == [pc |-> "idle", id |-> NoId, phone |-> NoPhone, row |-> NoRow, file |-> NoFile]

Steps == {"idle", "verify_insert", "register_insert", "register_onboard",
          "register_write", "patch_write", "upload_file", "upload_unlink",
          "upload_commit", "block_write", "unblock_write", "promote_write"}

Sessions ==
  [pc : Steps, id : Ids \cup {NoId}, phone : Phones \cup {NoPhone},
   row : ProfileRows, file : Avatars]

At(w, step)      == session[w].pc = step
Continue(w, rec) == session' = [session EXCEPT ![w] = rec]
Finish(w)        == session' = [session EXCEPT ![w] = Idle]

\* The handler has loaded the row of i and will go on at the step.
Loaded(w, step, i) == Continue(w, [Idle EXCEPT !.pc = step, !.id = i, !.row = profiles[i]])

\* A commit of what the session made of the row it loaded.
Write(w, sent) ==
  LET s == session[w] IN
  profiles' = [profiles EXCEPT ![s.id] = Flush(@, s.row, sent)]

\* Two doors: verify_otp and register look a number up as it was sent,
\* admin_login looks it up normalized.
Doors == {"otp", "password"}
Number(door, p) == IF door = "password" THEN Normalize[p] ELSE p

HasToken(i) == \E t \in signedIn : t[3] = i
SignIn(door, p, i) == signedIn' = signedIn \cup {<<door, p, i>>}

\* What a client sends as avatar_url; sending back the value the handler loaded
\* writes nothing.
Names(a, loaded) == named' = named \cup (({a} \cap Files) \ {loaded})

Init ==
  /\ profiles = [i \in Ids |-> NoRow]
  /\ disk     = {}
  /\ named    = {}
  /\ signedIn = {}
  /\ session  = [w \in Workers |-> Idle]
  /\ failures = 0

-----------------------------------------------------------------------------
\* The INSERT of create_user: the unique index of profiles.phone admits one
\* row of a number, however many handlers found none.
NumberLooksFree(p) == TRUE
NumberFree(p) == \A i \in Ids : ~Holds(i, p)
Insert(p, i, a) ==
  /\ NumberFree(p) /\ ~Exists(i)
  /\ profiles' = [profiles EXCEPT ![i] = NewProfile(p, a)]

\* verify_otp finds the number: the answer carries a token for its account.
Verify(w, p, i) ==
  /\ At(w, "idle") /\ Exists(i) /\ Holds(i, p)
  /\ SignIn("otp", p, i)
  /\ UNCHANGED <<profiles, disk, named, session, failures>>

\* verify_otp finds nobody, and creates the account under the number as sent.
VerifyRead(w, p) ==
  /\ At(w, "idle") /\ \A i \in Ids : ~Holds(i, p)
  /\ Continue(w, [Idle EXCEPT !.pc = "verify_insert", !.phone = p])
  /\ UNCHANGED <<profiles, disk, named, signedIn, failures>>

VerifyInsert(w, i) ==
  /\ At(w, "verify_insert")
  /\ Insert(session[w].phone, i, NoFile)
  /\ SignIn("otp", session[w].phone, i)
  /\ Finish(w)
  /\ UNCHANGED <<disk, named, failures>>

\* complete_registration of a number nobody has: the INSERT commits, and a
\* second transaction completes the onboarding.
RegisterRead(w, p) ==
  /\ At(w, "idle") /\ \A i \in Ids : ~Holds(i, p)
  /\ Continue(w, [Idle EXCEPT !.pc = "register_insert", !.phone = p])
  /\ UNCHANGED <<profiles, disk, named, signedIn, failures>>

RegisterInsert(w, i, a) ==
  LET p == session[w].phone IN
  /\ At(w, "register_insert")
  /\ Insert(p, i, a)
  /\ Continue(w, [Idle EXCEPT !.pc = "register_onboard", !.id = i, !.phone = p,
                              !.row = NewProfile(p, a)])
  /\ Names(a, NoFile)
  /\ UNCHANGED <<disk, signedIn, failures>>

RegisterOnboard(w) ==
  LET s == session[w] IN
  /\ At(w, "register_onboard")
  /\ Write(w, [s.row EXCEPT !.onboarded = TRUE])
  /\ SignIn("otp", s.phone, s.id)
  /\ Finish(w)
  /\ UNCHANGED <<disk, named, failures>>

\* Another handler was first with the number: the unique index refuses the
\* INSERT, nothing is written and nobody signs in (500).
InsertRefused(w) ==
  /\ session[w].pc \in {"verify_insert", "register_insert"}
  /\ ~NumberFree(session[w].phone)
  /\ Finish(w)
  /\ UNCHANGED <<profiles, disk, named, signedIn, failures>>

\* complete_registration of an account that is not onboarded: every field of
\* the form is written, an avatar_url that was left out as NULL.  (409 when the
\* account is onboarded.)
RegisterLoad(w, p, i) ==
  /\ At(w, "idle") /\ Exists(i) /\ Holds(i, p) /\ ~profiles[i].onboarded
  /\ Continue(w, [Idle EXCEPT !.pc = "register_write", !.id = i, !.phone = p,
                              !.row = profiles[i]])
  /\ UNCHANGED <<profiles, disk, named, signedIn, failures>>

RegisterWrite(w, a) ==
  LET s == session[w] IN
  /\ At(w, "register_write")
  /\ Write(w, [s.row EXCEPT !.onboarded = TRUE, !.avatar = a])
  /\ Names(a, s.row.avatar)
  /\ SignIn("otp", s.phone, s.id)
  /\ Finish(w)
  /\ UNCHANGED <<disk, failures>>

-----------------------------------------------------------------------------
\* update_my_profile: only the fields the client sent are set; one that is not
\* sent counts as sent with the value loaded.  A NULL in
\* is_onboarding_complete reads as false.
PatchRead(w, i) ==
  /\ At(w, "idle") /\ HasToken(i)
  /\ Loaded(w, "patch_write", i)
  /\ UNCHANGED <<profiles, disk, named, signedIn, failures>>

PatchWrite(w, o, a) ==
  LET s == session[w] IN
  /\ At(w, "patch_write")
  /\ Write(w, [s.row EXCEPT !.onboarded = o, !.avatar = a])
  /\ Names(a, s.row.avatar)
  /\ Finish(w)
  /\ UNCHANGED <<disk, signedIn, failures>>

\* A NULL name: the column refuses it and the UPDATE is rolled back (500).
NameRefused(w) ==
  /\ session[w].pc \in {"patch_write", "register_write"}
  /\ Finish(w)
  /\ UNCHANGED <<profiles, disk, named, signedIn, failures>>

\* upload_my_avatar: the row is loaded, the new file is written, the file the
\* loaded row names is removed, the row is updated.
UploadRead(w, i) ==
  /\ At(w, "idle") /\ HasToken(i)
  /\ Loaded(w, "upload_file", i)
  /\ UNCHANGED <<profiles, disk, named, signedIn, failures>>

\* A random suffix: a name nothing refers to and no client has sent.
FixedNames(w) == {f \in Files \ named : \A i \in Ids \ {session[w].id} : profiles[i].avatar # f}
FreshNames(w) ==
  {f \in Files : /\ f \notin disk \cup named /\ \A i \in Ids : profiles[i].avatar # f
                 /\ \A v \in Workers : session[v].row.avatar # f /\ session[v].file # f}

UploadFile(w, f) ==
  /\ At(w, "upload_file") /\ f \in FreshNames(w)
  /\ disk' = disk \cup {f}
  /\ Continue(w, [session[w] EXCEPT !.pc = "upload_unlink", !.file = f])
  /\ UNCHANGED <<profiles, named, signedIn, failures>>

\* missing_ok: another upload, or one that died, may have removed the file.
UploadUnlink(w) ==
  /\ At(w, "upload_unlink")
  /\ disk' = disk \ {session[w].row.avatar}
  /\ Continue(w, [session[w] EXCEPT !.pc = "upload_commit"])
  /\ UNCHANGED <<profiles, named, signedIn, failures>>

UploadCommit(w) ==
  LET s == session[w] IN
  /\ At(w, "upload_commit")
  /\ Write(w, [s.row EXCEPT !.avatar = s.file])
  /\ Finish(w)
  /\ UNCHANGED <<disk, named, signedIn, failures>>

-----------------------------------------------------------------------------
\* block_user and unblock_user, called by an administrator: verify_admin reads
\* the caller's row, never the token.
IsAdmin(a) == HasToken(a) /\ profiles[a].admin

BlockRead(w, a, i) ==
  /\ At(w, "idle") /\ IsAdmin(a) /\ Exists(i) /\ ~profiles[i].admin
  /\ Loaded(w, "block_write", i)
  /\ UNCHANGED <<profiles, disk, named, signedIn, failures>>

BlockWrite(w) ==
  /\ At(w, "block_write")
  /\ Write(w, [session[w].row EXCEPT !.blocked = TRUE])
  /\ Finish(w)
  /\ UNCHANGED <<disk, named, signedIn, failures>>

UnblockRead(w, a, i) ==
  /\ At(w, "idle") /\ IsAdmin(a) /\ Exists(i)
  /\ Loaded(w, "unblock_write", i)
  /\ UNCHANGED <<profiles, disk, named, signedIn, failures>>

UnblockWrite(w) ==
  /\ At(w, "unblock_write")
  /\ Write(w, [session[w].row EXCEPT !.blocked = FALSE])
  /\ Finish(w)
  /\ UNCHANGED <<disk, named, signedIn, failures>>

\* make_admin: the script looks the number up normalized, and sets a password.
PromoteRead(w, p, i) ==
  /\ At(w, "idle") /\ Exists(i) /\ Holds(i, Normalize[p])
  /\ Loaded(w, "promote_write", i)
  /\ UNCHANGED <<profiles, disk, named, signedIn, failures>>

PromoteWrite(w) ==
  /\ At(w, "promote_write")
  /\ Write(w, [session[w].row EXCEPT !.admin = TRUE])
  /\ Finish(w)
  /\ UNCHANGED <<disk, named, signedIn, failures>>

\* admin_login: the number is normalized for the lookup, and a blocked
\* administrator is turned away.  The account need not be the one verify_otp
\* gives to the number as it was sent.
AdminLogin(w, p, i) ==
  /\ At(w, "idle") /\ Exists(i) /\ Holds(i, Normalize[p])
  /\ profiles[i].admin /\ ~profiles[i].blocked
  /\ SignIn("password", p, i)
  /\ UNCHANGED <<profiles, disk, named, session, failures>>

\* A handler dies between two steps: its transaction is rolled back, and what
\* it did to the files stays.
WorkerFails(w) ==
  /\ ~At(w, "idle") /\ failures < MaxFailures
  /\ failures' = failures + 1
  /\ Finish(w)
  /\ UNCHANGED <<profiles, disk, named, signedIn>>

-----------------------------------------------------------------------------
\* A call a client, an administrator or an operator may make, and the rest of
\* a call under way.
Call(w) ==
  \/ \E p \in Phones : VerifyRead(w, p) \/ RegisterRead(w, p)
  \/ \E p \in Phones, i \in Ids :
       \/ Verify(w, p, i) \/ RegisterLoad(w, p, i)
       \/ PromoteRead(w, p, i) \/ AdminLogin(w, p, i)
  \/ \E i \in Ids : PatchRead(w, i) \/ UploadRead(w, i)
  \/ \E a, i \in Ids : BlockRead(w, a, i) \/ UnblockRead(w, a, i)

Proceed(w) ==
  \/ \E i \in Ids : VerifyInsert(w, i) \/ \E a \in SentAvatars : RegisterInsert(w, i, a)
  \/ InsertRefused(w) \/ RegisterOnboard(w) \/ NameRefused(w)
  \/ \E a \in SentAvatars : RegisterWrite(w, a)
  \/ \E o \in BOOLEAN, a \in SentAvatars \cup {session[w].row.avatar} : PatchWrite(w, o, a)
  \/ \E f \in Files : UploadFile(w, f)
  \/ UploadUnlink(w) \/ UploadCommit(w)
  \/ BlockWrite(w) \/ UnblockWrite(w) \/ PromoteWrite(w)

Next == \E w \in Workers : Call(w) \/ Proceed(w) \/ WorkerFails(w)

Spec == Init /\ [][Next]_vars

-----------------------------------------------------------------------------
\* Properties

\* Every row has the columns of profiles and every session the state of one
\* handler of auth.py, users.py, admin.py or of create_admin.py.
TypeOK ==
  /\ profiles \in [Ids -> ProfileRows]
  /\ disk \subseteq Files /\ named \subseteq Files
  /\ signedIn \subseteq Doors \X Phones \X Ids
  /\ session \in [Workers -> Sessions]
  /\ failures \in 0..MaxFailures

\* One stored number, one account: whoever verify_otp, register or admin_login
\* signs in, first or later, in whatever process, two sign-ins get the same
\* account exactly when their doors looked up the same number.  verify_otp and
\* register look up what was sent and admin_login its normal form, so a number
\* sent to both doors may get two accounts: nothing is promised of that.
OneAccountPerNumber ==
  \A s, t \in signedIn : Number(s[1], s[2]) = Number(t[1], t[2]) <=> s[3] = t[3]

\* A profile names a photo that is not there only while an upload is between
\* its unlink and its commit, when one died there, or when a client itself once
\* wrote the name of that file into an avatar_url, of its own profile or
\* another: each other such profile costs a failure.  Uploads that overlap and
\* a PATCH from a stale row cause none.
Dangling ==
  {i \in Ids : /\ profiles[i].avatar \in Files \ (disk \cup named)
               /\ \A w \in Workers : ~(At(w, "upload_commit") /\ session[w].id = i)}
PhotosExist == Cardinality(Dangling) <= failures

\* Handlers write from rows they loaded long before, and still none of them
\* takes back what another decided: a number is never changed, an administrator
\* stays one, and only unblock_user lifts a block.
DecisionsStand ==
  [][\A i \in Ids : Exists(i) =>
       /\ profiles'[i].phone = profiles[i].phone
       /\ profiles[i].admin => profiles'[i].admin
       /\ profiles[i].blocked /\ ~profiles'[i].blocked =>
            \E w \in Workers : At(w, "unblock_write") /\ session[w].id = i]_vars

\* The accounts of the numbers, as PhoneBook promises them.
AccountOf(p) ==
  IF \E i \in Ids : Holds(i, p) THEN CHOOSE i \in Ids : Holds(i, p) ELSE NoId

Book == INSTANCE PhoneBook WITH account <- [p \in Phones |-> AccountOf(p)]

\* Whatever the processes interleave and whichever die, sign-in implements the
\* phone book: a number gets one account, keeps it, and either door answers with
\* the account of the number it looks up.
ImplementsPhoneBook == Book!Spec
=============================================================================
