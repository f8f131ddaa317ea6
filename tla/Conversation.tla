---------------------------- MODULE Conversation ----------------------------
(***************************************************************************)
(* Chat over HTTP (app/services/chat_service.py, app/api/v1/chat.py): the  *)
(* host and a guest write under the id of the join request, and of the     *)
(* match once it is accepted; either id names one conversation.  A worker  *)
(* is a server process with a database session.  created_at is the time    *)
(* the sender's transaction began, so a message may be committed after     *)
(* another with a later time.  Wording is left out.                        *)
(***************************************************************************)
EXTENDS Integers, FiniteSets

CONSTANTS
  Users,
  Requests, NoRequest, \* join requests; a match is named by the request it accepts
  HostOf, GuestOf,     \* request -> its two people
  Legacy,              \* requests whose match is older than matches.request_id
  Workers,
  Limits,              \* how many messages a history may ask for
  MaxMessages          \* bound: messages begun

ASSUME PeopleAssumption ==
  /\ HostOf \in [Requests -> Users] /\ GuestOf \in [Requests -> Users]
  /\ NoRequest \notin Requests /\ Legacy \subseteq Requests
ASSUME LimitsAssumption == Limits \subseteq Nat /\ MaxMessages \in Nat

VARIABLES
  matches,   \* request -> the match that accepted it
  messages,  \* the rows of chat_messages
  session,   \* worker -> the message it is about to commit
  clock,     \* when the last transaction that sends began
  seen       \* user -> times of the messages they sent or read

vars == <<matches, messages, session, clock, seen>>

-----------------------------------------------------------------------------
Threads == {"request", "match"} \X Requests

\* matches.request_id is empty in rows older than the column.
NoMatch == [people |-> {}, link |-> NoRequest]
MatchOf(q, link) == [people |-> {HostOf[q], GuestOf[q]}, link |-> link]
Made(q) == matches[q] # NoMatch

\* A chat_messages row; saw is what its sender had read or sent before.
Times == 1..MaxMessages
MessageRows ==
  [match : Requests \cup {NoRequest}, request : Requests \cup {NoRequest},
   sender : Users, at : Times, saw : SUBSET Times]
Idle == [at |-> 0]

Init ==
  /\ matches = [q \in Requests |-> IF q \in Legacy THEN MatchOf(q, NoRequest) ELSE NoMatch]
  /\ messages = {}
  /\ session = [w \in Workers |-> Idle]
  /\ clock = 0
  /\ seen = [u \in Users |-> {}]

\* accept_request copies the request's people and its id.
Accept(q) ==
  /\ ~Made(q)
  /\ matches' = [matches EXCEPT ![q] = MatchOf(q, q)]
  /\ UNCHANGED <<messages, session, clock, seen>>

-----------------------------------------------------------------------------
\* The thread exists, and the user is one of the two people of its own row.
MayChatOnRide(u, thread) ==
  LET q == thread[2] IN
  /\ thread[1] = "match" => Made(q)
  /\ \E p \in Requests : HostOf[p] = HostOf[q] /\ u \in {HostOf[p], GuestOf[p]}
MayChat(u, thread) ==
  LET q == thread[2] IN
  IF thread[1] = "match" THEN u \in matches[q].people
  ELSE u \in {HostOf[q], GuestOf[q]}

\* save_message: the row it inserts, stamped with the transaction's time.
RowUnlinked(u, thread, at) ==
  [match |-> IF thread[1] = "match" THEN thread[2] ELSE NoRequest,
   request |-> IF thread[1] = "match" THEN NoRequest ELSE thread[2],
   sender |-> u, at |-> at, saw |-> seen[u]]
Row(u, thread, at) ==
  [match |-> IF thread[1] = "match" THEN thread[2] ELSE NoRequest,
   request |-> IF thread[1] = "match" THEN matches[thread[2]].link ELSE thread[2],
   sender |-> u, at |-> at, saw |-> seen[u]]

StampCoarse == IF clock = 0 THEN 1 ELSE clock
Stamp == clock + 1

SendBeginUnstamped(w, u, thread) ==
  /\ session[w] = Idle /\ clock < MaxMessages /\ MayChat(u, thread)
  /\ clock' = clock + 1
  /\ session' = [session EXCEPT ![w] = Row(u, thread, 0)]
  /\ UNCHANGED <<matches, messages, seen>>
SendBegin(w, u, thread) ==
  /\ session[w] = Idle /\ clock < MaxMessages /\ MayChat(u, thread)
  /\ clock' = clock + 1
  /\ session' = [session EXCEPT ![w] = Row(u, thread, Stamp)]
  /\ UNCHANGED <<matches, messages, seen>>

SendCommit(w) ==
  /\ session[w] # Idle
  /\ messages' = messages \cup {session[w]}
  /\ seen' = [seen EXCEPT ![session[w].sender] = @ \cup {session[w].at}]
  /\ session' = [session EXCEPT ![w] = Idle]
  /\ UNCHANGED <<matches, clock>>

\* The process dies, or the message is longer than its column.
SendFails(w) ==
  /\ session[w] # Idle
  /\ session' = [session EXCEPT ![w] = Idle]
  /\ UNCHANGED <<matches, messages, clock, seen>>

-----------------------------------------------------------------------------
\* get_chat_history: the messages of the match or of the request it links to,
\* the newest of them by created_at.
Conversation(thread) ==
  LET q == thread[2] IN
  IF thread[1] = "match"
  THEN {m \in messages : m.match = q \/ (matches[q].link # NoRequest /\ m.request = matches[q].link)}
  ELSE {m \in messages : m.request = q}

HistoryOldest(thread, limit) ==
  {m \in Conversation(thread) :
     Cardinality({n \in Conversation(thread) : n.at < m.at}) < limit}
History(thread, limit) ==
  {m \in Conversation(thread) :
     Cardinality({n \in Conversation(thread) : n.at > m.at}) < limit}

Read(u, thread, limit) ==
  /\ MayChat(u, thread)
  /\ seen' = [seen EXCEPT ![u] = @ \cup {m.at : m \in History(thread, limit)}]
  /\ UNCHANGED <<matches, messages, session, clock>>

Next ==
  \/ \E q \in Requests : Accept(q)
  \/ \E w \in Workers : \/ SendCommit(w) \/ SendFails(w)
                        \/ \E u \in Users, t \in Threads : SendBegin(w, u, t)
  \/ \E u \in Users, t \in Threads, limit \in Limits : Read(u, t, limit)

Spec == Init /\ [][Next]_vars

-----------------------------------------------------------------------------
\* Properties

\* The tables, the sessions and the readings have their types.
TypeOK ==
  /\ matches \in [Requests -> [people : SUBSET Users, link : Requests \cup {NoRequest}]]
  /\ messages \subseteq MessageRows
  /\ session \in [Workers -> MessageRows \cup {Idle}]
  /\ clock \in 0..MaxMessages
  /\ seen \in [Users -> SUBSET Times]

\* Once a request is accepted its id and the match's give the same history, of
\* what was written under either, before the acceptance, after it or across it.
HistoriesAgree ==
  \A q \in Requests \ Legacy, limit \in Limits :
    Made(q) => History(<<"match", q>>, limit) = History(<<"request", q>>, limit)

\* A message comes after every message its sender had read or sent when they
\* sent it, in the order of created_at that all histories use, although
\* messages of two processes are not committed in that order.
ReplyFollows ==
  \A m \in messages : \A t \in m.saw : t < m.at

\* Nobody has read a message of a conversation they are not in, though a match
\* is checked by its own row and shows the messages of the request it links to.
PrivateConversations ==
  \A u \in Users, m \in messages :
    m.at \in seen[u] =>
      \E q \in Requests : q \in {m.match, m.request} /\ u \in {HostOf[q], GuestOf[q]}

\* Where a message belongs: to the conversation its request opened, or to the
\* match when no request is known.
ChatOf(m) ==
  IF m.request # NoRequest THEN <<"request", m.request>> ELSE <<"match", m.match>>
Letter(m) == [sender |-> m.sender, at |-> m.at]

Chat == INSTANCE Correspondence WITH
  Chats   <- Threads,
  Members <- [c \in Threads |-> {HostOf[c[2]], GuestOf[c[2]]}],
  Lengths <- Limits,
  log     <- [c \in Threads |-> {Letter(m) : m \in {n \in messages : ChatOf(n) = c}}],
  known   <- seen

\* The tables implement the correspondence: though a match and its request are
\* two ids, two checks and two filters, either opens the one log of its two
\* people, to write in it and to read the newest of it, and no message of it is
\* ever changed, lost or moved, by the acceptance either.
ImplementsCorrespondence == Chat!Spec
=============================================================================
