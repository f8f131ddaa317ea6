------------------------- MODULE ConversationProofs -------------------------
(***************************************************************************)
(* Chat keeps its promises, and implements Correspondence, for any number  *)
(* of users, requests, processes and messages, and for histories of any    *)
(* length.                                                                 *)
(***************************************************************************)
EXTENDS Conversation, FiniteSetTheorems, FunctionTheorems, TLAPS

\* A match made since the migration links to its request, an older one to none.
MatchesOK ==
  \A q \in Requests :
    matches[q] \in IF q \in Legacy THEN {MatchOf(q, NoRequest)} ELSE {NoMatch, MatchOf(q, q)}

\* What holds of a row from the moment its transaction begins.
RowOK(m, now) ==
  /\ m \in MessageRows /\ m.at <= now
  /\ m.match # NoRequest => m.request = IF m.match \in Legacy THEN NoRequest ELSE m.match
  /\ \E q \in Requests : q \in {m.match, m.request} /\ m.sender \in {HostOf[q], GuestOf[q]}
  /\ \A t \in m.saw : t < m.at

\* The rows being sent are stamped apart from each other and from those sent.
StampsDistinct ==
  /\ \A m, n \in messages : m.at = n.at => m = n
  /\ \A w \in Workers : session[w] # Idle => \A m \in messages : m.at # session[w].at
  /\ \A v, w \in Workers :
       v # w /\ session[v] # Idle /\ session[w] # Idle => session[v].at # session[w].at

\* What was seen has been sent.
SeenIsSent == \A u \in Users : \A t \in seen[u] : \E m \in messages : m.at = t

IInv ==
  /\ TypeOK /\ MatchesOK
  /\ \A m \in messages : RowOK(m, clock)
  /\ \A w \in Workers : session[w] # Idle => RowOK(session[w], clock)
  /\ StampsDistinct /\ SeenIsSent
  /\ PrivateConversations

-----------------------------------------------------------------------------
LEMMA InitKeeps == Init => IInv
<1> SUFFICES ASSUME Init PROVE IInv
  OBVIOUS
<1> USE PeopleAssumption, LimitsAssumption
<1>1. \A q \in Requests : /\ MatchOf(q, NoRequest) \in [people : SUBSET Users,
                                                       link : Requests \cup {NoRequest}]
                          /\ NoMatch \in [people : SUBSET Users, link : Requests \cup {NoRequest}]
  BY DEF MatchOf, NoMatch
<1>2. TypeOK
  BY <1>1 DEF Init, TypeOK
<1>3. MatchesOK
  BY DEF Init, MatchesOK
<1> QED
  BY <1>2, <1>3 DEF Init, IInv, StampsDistinct, SeenIsSent, PrivateConversations

\* A step that sends nothing and shows nothing.
LEMMA AcceptKeeps ==
  ASSUME IInv, NEW q \in Requests, Accept(q)
  PROVE  IInv'
<1> USE PeopleAssumption
<1>1. q \notin Legacy
  <2>1. MatchOf(q, NoRequest).people # NoMatch.people
    BY DEF MatchOf, NoMatch
  <2>2. matches[q] = NoMatch
    BY DEF Accept, Made
  <2> QED
    BY <2>1, <2>2 DEF IInv, MatchesOK
<1>2. MatchOf(q, q) \in [people : SUBSET Users, link : Requests \cup {NoRequest}]
  BY DEF MatchOf
<1>3. TypeOK'
  BY <1>2 DEF Accept, IInv, TypeOK
<1>4. MatchesOK'
  BY <1>1 DEF Accept, IInv, TypeOK, MatchesOK, MatchOf, NoMatch
<1>5. UNCHANGED <<messages, session, clock, seen>>
  BY DEF Accept
<1> QED
  BY <1>3, <1>4, <1>5 DEF IInv, StampsDistinct, SeenIsSent, PrivateConversations

\* Whoever may write in a thread is one of the two people of its request.
LEMMA ChatterBelongs ==
  ASSUME IInv, NEW u \in Users, NEW thread \in Threads, MayChat(u, thread)
  PROVE  /\ thread[2] \in Requests /\ u \in {HostOf[thread[2]], GuestOf[thread[2]]}
         /\ thread[1] = "match" => matches[thread[2]].link \in
              IF thread[2] \in Legacy THEN {NoRequest} ELSE {thread[2]}
<1>1. thread[2] \in Requests
  BY DEF Threads
<1>2. CASE thread[1] = "match"
  <2>1. matches[thread[2]] \in IF thread[2] \in Legacy THEN {MatchOf(thread[2], NoRequest)}
                               ELSE {NoMatch, MatchOf(thread[2], thread[2])}
    BY <1>1 DEF IInv, MatchesOK
  <2>2. matches[thread[2]] # NoMatch
    BY <1>2 DEF MayChat, NoMatch
  <2> QED
    BY <1>1, <1>2, <2>1, <2>2 DEF MayChat, MatchOf
<1>3. CASE thread[1] # "match"
  BY <1>1, <1>3 DEF MayChat
<1> QED
  BY <1>2, <1>3

LEMMA SendBeginKeeps ==
  ASSUME IInv, NEW w \in Workers, NEW u \in Users, NEW thread \in Threads, SendBegin(w, u, thread)
  PROVE  IInv'
<1> USE PeopleAssumption, LimitsAssumption
<1> DEFINE row == Row(u, thread, clock + 1)
<1>1. /\ clock' = clock + 1 /\ clock \in Nat /\ clock' \in 1..MaxMessages
      /\ session[w] = Idle /\ MayChat(u, thread)
      /\ session' = [session EXCEPT ![w] = row]
      /\ UNCHANGED <<matches, messages, seen>>
  BY DEF SendBegin, Stamp, IInv, TypeOK
<1>2. /\ thread[2] \in Requests /\ u \in {HostOf[thread[2]], GuestOf[thread[2]]}
      /\ thread[1] = "match" => matches[thread[2]].link \in
           IF thread[2] \in Legacy THEN {NoRequest} ELSE {thread[2]}
  BY <1>1, ChatterBelongs
<1>3. /\ row.match = IF thread[1] = "match" THEN thread[2] ELSE NoRequest
      /\ row.request = IF thread[1] = "match" THEN matches[thread[2]].link ELSE thread[2]
      /\ row.sender = u /\ row.at = clock + 1 /\ row.saw = seen[u]
  BY DEF Row
<1>4. \A v \in Users : \A t \in seen[v] : t \in Nat /\ t <= clock
  BY <1>1 DEF IInv, SeenIsSent, RowOK, TypeOK, Times, MessageRows
<1>5. row \in MessageRows
  <2>1. seen[u] \in SUBSET Times
    BY DEF IInv, TypeOK
  <2>2. row.match \in Requests \cup {NoRequest} /\ row.request \in Requests \cup {NoRequest}
    BY <1>2, <1>3
  <2>3. clock + 1 \in Times
    BY <1>1 DEF Times
  <2>4. row = [match |-> row.match, request |-> row.request, sender |-> u,
               at |-> clock + 1, saw |-> seen[u]]
    BY DEF Row
  <2> HIDE DEF row
  <2> QED
    BY <2>1, <2>2, <2>3, <2>4 DEF MessageRows
<1>6. RowOK(row, clock')
  <2>1. \A t \in row.saw : t < row.at
    BY <1>1, <1>3, <1>4
  <2>2. row.match # NoRequest => row.request = IF row.match \in Legacy THEN NoRequest ELSE row.match
    BY <1>2, <1>3
  <2>3. \E q \in Requests : q \in {row.match, row.request} /\ row.sender \in {HostOf[q], GuestOf[q]}
    BY <1>2, <1>3
  <2>4. row.at <= clock'
    BY <1>1, <1>3
  <2> HIDE DEF row
  <2> QED
    BY <1>5, <2>1, <2>2, <2>3, <2>4 DEF RowOK
<1> HIDE DEF row
<1>7. TypeOK'
  BY <1>1, <1>5 DEF IInv, TypeOK
<1>8. \A m : RowOK(m, clock) => RowOK(m, clock') /\ m.at # row.at
  BY <1>1, <1>3 DEF RowOK, MessageRows, Times
<1>9. \A v \in Workers : session'[v] = IF v = w THEN row ELSE session[v]
  BY <1>1 DEF IInv, TypeOK
<1>10. /\ \A m \in messages' : RowOK(m, clock')
       /\ \A v \in Workers : session'[v] # Idle => RowOK(session'[v], clock')
  BY <1>1, <1>6, <1>8, <1>9 DEF IInv
<1>11. StampsDistinct'
  BY <1>1, <1>8, <1>9 DEF IInv, StampsDistinct
<1>12. MatchesOK' /\ SeenIsSent' /\ PrivateConversations'
  BY <1>1 DEF IInv, MatchesOK, SeenIsSent, PrivateConversations
<1> QED
  BY <1>7, <1>10, <1>11, <1>12 DEF IInv

\* The row that is committed is the one its sender began, and its sender has
\* now seen it.
LEMMA SendCommitKeeps ==
  ASSUME IInv, NEW w \in Workers, SendCommit(w)
  PROVE  IInv'
<1> DEFINE row == session[w]
<1>1. /\ row # Idle /\ RowOK(row, clock)
      /\ messages' = messages \cup {row}
      /\ UNCHANGED <<matches, clock>>
  BY DEF SendCommit, IInv
<1>2. row \in MessageRows /\ row.sender \in Users /\ row.at \in Times
  BY <1>1 DEF RowOK, MessageRows
<1>3. \A v \in Workers : session'[v] = IF v = w THEN Idle ELSE session[v]
  BY DEF SendCommit, IInv, TypeOK
<1>4. \A u \in Users : seen'[u] = IF u = row.sender THEN seen[u] \cup {row.at} ELSE seen[u]
  BY <1>2 DEF SendCommit, IInv, TypeOK
<1>5. TypeOK'
  <2>1. messages' \subseteq MessageRows
    BY <1>1, <1>2 DEF IInv, TypeOK
  <2>2. session' \in [Workers -> MessageRows \cup {Idle}]
    BY DEF SendCommit, IInv, TypeOK
  <2>3. seen' \in [Users -> SUBSET Times]
    BY <1>2 DEF SendCommit, IInv, TypeOK
  <2> QED
    BY <1>1, <2>1, <2>2, <2>3 DEF IInv, TypeOK
<1> HIDE DEF row
<1>6. \A v \in Workers : session'[v] # Idle => v # w /\ session'[v] = session[v]
  BY <1>3
<1>7. /\ \A m \in messages' : RowOK(m, clock')
      /\ \A v \in Workers : session'[v] # Idle => RowOK(session'[v], clock')
  BY <1>1, <1>6 DEF IInv
<1>8. StampsDistinct'
  <2>1. \A m \in messages : m.at # row.at
    BY <1>1 DEF IInv, StampsDistinct, row
  <2>2. \A v \in Workers : v # w /\ session[v] # Idle => session[v].at # row.at
    BY <1>1 DEF IInv, StampsDistinct, row
  <2> QED
    BY <1>1, <1>6, <2>1, <2>2 DEF IInv, StampsDistinct
<1>9. SeenIsSent'
  <2> SUFFICES ASSUME NEW u \in Users, NEW t \in seen'[u] PROVE \E m \in messages' : m.at = t
    BY DEF SeenIsSent
  <2>1. CASE t \in seen[u]
    BY <1>1, <2>1 DEF IInv, SeenIsSent
  <2>2. CASE t \notin seen[u]
    <3>1. t = row.at
      BY <1>4, <2>2
    <3> QED
      BY <1>1, <3>1
  <2> QED
    BY <2>1, <2>2
<1>10. PrivateConversations'
  <2> SUFFICES ASSUME NEW u \in Users, NEW m \in messages', m.at \in seen'[u]
               PROVE  \E q \in Requests : q \in {m.match, m.request} /\ u \in {HostOf[q], GuestOf[q]}
    BY DEF PrivateConversations
  <2>1. \A n \in messages : n.at # row.at
    BY <1>1 DEF IInv, StampsDistinct, row
  <2>2. CASE m = row
    <3>1. row.at \notin seen[u]
      BY <2>1 DEF IInv, SeenIsSent
    <3>2. u = row.sender
      BY <1>4, <2>2, <3>1
    <3> QED
      BY <1>1, <2>2, <3>2 DEF RowOK
  <2>3. CASE m # row
    <3>1. m \in messages /\ m.at \in seen[u]
      BY <1>1, <1>4, <2>1, <2>3
    <3> QED
      BY <3>1 DEF IInv, PrivateConversations
  <2> QED
    BY <2>2, <2>3
<1>11. MatchesOK'
  BY <1>1 DEF IInv, MatchesOK
<1> QED
  BY <1>5, <1>7, <1>8, <1>9, <1>10, <1>11 DEF IInv

LEMMA SendFailsKeeps ==
  ASSUME IInv, NEW w \in Workers, SendFails(w)
  PROVE  IInv'
<1>1. \A v \in Workers : session'[v] = IF v = w THEN Idle ELSE session[v]
  BY DEF SendFails, IInv, TypeOK
<1>2. UNCHANGED <<matches, messages, clock, seen>>
  BY DEF SendFails
<1>3. TypeOK'
  BY DEF SendFails, IInv, TypeOK
<1>4. StampsDistinct'
  BY <1>1, <1>2 DEF IInv, StampsDistinct
<1> QED
  BY <1>1, <1>2, <1>3, <1>4 DEF IInv, MatchesOK, SeenIsSent, PrivateConversations

\* A history holds messages of the reader's own request only, by the link of
\* the match or by its id.
LEMMA ReadKeeps ==
  ASSUME IInv, NEW u \in Users, NEW thread \in Threads, NEW limit \in Limits,
         Read(u, thread, limit)
  PROVE  IInv'
<1> DEFINE shown == {m.at : m \in History(thread, limit)}
<1>1. /\ MayChat(u, thread) /\ seen' = [seen EXCEPT ![u] = @ \cup shown]
      /\ UNCHANGED <<matches, messages, session, clock>>
  BY DEF Read
<1>2. History(thread, limit) \subseteq messages
  BY DEF History, Conversation
<1>3. shown \subseteq Times
  BY <1>2 DEF IInv, TypeOK, MessageRows
<1>4. \A m \in History(thread, limit) :
        \E q \in Requests : q \in {m.match, m.request} /\ u \in {HostOf[q], GuestOf[q]}
  <2>1. /\ thread[2] \in Requests /\ u \in {HostOf[thread[2]], GuestOf[thread[2]]}
        /\ thread[1] = "match" => matches[thread[2]].link \in
             IF thread[2] \in Legacy THEN {NoRequest} ELSE {thread[2]}
    BY <1>1, ChatterBelongs
  <2> QED
    BY <2>1 DEF History, Conversation
<1>5. \A v \in Users : seen'[v] = IF v = u THEN seen[v] \cup shown ELSE seen[v]
  BY <1>1 DEF IInv, TypeOK
<1>6. TypeOK'
  BY <1>1, <1>3 DEF IInv, TypeOK
<1>7. SeenIsSent'
  BY <1>1, <1>2, <1>5 DEF IInv, SeenIsSent
<1>8. PrivateConversations'
  <2> SUFFICES ASSUME NEW v \in Users, NEW m \in messages, m.at \in seen'[v]
               PROVE  \E q \in Requests : q \in {m.match, m.request} /\ v \in {HostOf[q], GuestOf[q]}
    BY <1>1 DEF PrivateConversations
  <2>1. CASE m.at \in seen[v]
    BY <2>1 DEF IInv, PrivateConversations
  <2>2. CASE m.at \notin seen[v]
    <3>1. v = u /\ m.at \in shown
      BY <1>5, <2>2
    <3>2. PICK n \in History(thread, limit) : n.at = m.at
      BY <3>1
    <3>3. n = m
      BY <1>2, <3>2 DEF IInv, StampsDistinct
    <3> QED
      BY <1>4, <3>1, <3>3
  <2> QED
    BY <2>1, <2>2
<1> QED
  BY <1>1, <1>6, <1>7, <1>8 DEF IInv, MatchesOK, StampsDistinct

LEMMA StepKeeps == IInv /\ [Next]_vars => IInv'
<1> SUFFICES ASSUME IInv, [Next]_vars PROVE IInv'
  OBVIOUS
<1>1. CASE UNCHANGED vars
  BY <1>1 DEF vars, IInv, TypeOK, MatchesOK, StampsDistinct, SeenIsSent, PrivateConversations
<1> QED
  BY <1>1, AcceptKeeps, SendBeginKeeps, SendCommitKeeps, SendFailsKeeps, ReadKeeps DEF Next

LEMMA Invariance == Spec => []IInv
  BY InitKeeps, StepKeeps, PTL DEF Spec

-----------------------------------------------------------------------------
\* The tables, the sessions and the readings keep their types.
THEOREM ConversationTyped == Spec => []TypeOK
<1>1. IInv => TypeOK
  BY DEF IInv
<1> QED
  BY <1>1, Invariance, PTL

\* The request's id and the match's give one history, of any length: a message
\* under the match carries its request, which is the one the match links to.
THEOREM OneHistory == Spec => []HistoriesAgree
<1>1. IInv => HistoriesAgree
  <2> SUFFICES ASSUME IInv, NEW q \in Requests \ Legacy, NEW limit \in Limits, Made(q)
               PROVE  History(<<"match", q>>, limit) = History(<<"request", q>>, limit)
    BY DEF HistoriesAgree
  <2>1. matches[q].link = q
    <3>1. matches[q] = MatchOf(q, q)
      BY DEF IInv, MatchesOK, Made
    <3> QED
      BY <3>1 DEF MatchOf
  <2>2. \A m \in messages : m.match = q => m.request = q
    BY PeopleAssumption DEF IInv, RowOK
  <2>3. Conversation(<<"match", q>>) = Conversation(<<"request", q>>)
    BY <2>1, <2>2, PeopleAssumption DEF Conversation
  <2> QED
    BY <2>3 DEF History
<1> QED
  BY <1>1, Invariance, PTL

\* A reply comes after what it answers, in every history.
THEOREM RepliesFollow == Spec => []ReplyFollows
<1>1. IInv => ReplyFollows
  BY DEF IInv, RowOK, ReplyFollows
<1> QED
  BY <1>1, Invariance, PTL

\* Only the two people of a conversation ever read its messages.
THEOREM ConversationsPrivate == Spec => []PrivateConversations
<1>1. IInv => PrivateConversations
  BY DEF IInv
<1> QED
  BY <1>1, Invariance, PTL

-----------------------------------------------------------------------------
\* Refinement: the rows of a conversation are the log of its chat.

LogOf == [c \in Threads |-> {Letter(m) : m \in {n \in messages : ChatOf(n) = c}}]
MembersOf == [c \in Threads |-> {HostOf[c[2]], GuestOf[c[2]]}]

\* The chat an id opens: a match made since the migration opens its request's.
ChatOpened(thread) ==
  IF thread[1] = "match" /\ thread[2] \notin Legacy THEN <<"request", thread[2]>> ELSE thread

\* A row is a letter of one chat, and its sender is in that chat.
LEMMA RowInChat ==
  ASSUME NEW m, RowOK(m, clock)
  PROVE  ChatOf(m) \in Threads /\ m.sender \in MembersOf[ChatOf(m)]
<1> USE PeopleAssumption
<1>1. PICK q \in Requests : q \in {m.match, m.request} /\ m.sender \in {HostOf[q], GuestOf[q]}
  BY DEF RowOK
<1>2. m.match \in Requests \cup {NoRequest} /\ m.request \in Requests \cup {NoRequest}
  BY DEF RowOK, MessageRows
<1>3. CASE m.request # NoRequest
  <2>1. q = m.request
    BY <1>1, <1>3 DEF RowOK
  <2>2. ChatOf(m) = <<"request", q>> /\ <<"request", q>> \in Threads
    BY <1>3, <2>1 DEF ChatOf, Threads
  <2> QED
    BY <1>1, <2>2 DEF MembersOf
<1>4. CASE m.request = NoRequest
  <2>1. q = m.match
    BY <1>1, <1>4
  <2>2. ChatOf(m) = <<"match", q>> /\ <<"match", q>> \in Threads
    BY <1>4, <2>1 DEF ChatOf, Threads
  <2> QED
    BY <1>1, <2>2 DEF MembersOf
<1> QED
  BY <1>3, <1>4

\* Whoever may open a chat by an id is in it, and finds all of its rows.
LEMMA ChatFound ==
  ASSUME IInv, NEW u \in Users, NEW thread \in Threads, MayChat(u, thread)
  PROVE  /\ ChatOpened(thread) \in Threads /\ u \in MembersOf[ChatOpened(thread)]
         /\ Conversation(thread) = {m \in messages : ChatOf(m) = ChatOpened(thread)}
<1> USE PeopleAssumption
<1> DEFINE q == thread[2]
<1>1. /\ q \in Requests /\ u \in {HostOf[q], GuestOf[q]}
      /\ thread[1] = "match" =>
           matches[q].link \in IF q \in Legacy THEN {NoRequest} ELSE {q}
  BY ChatterBelongs
<1>2. thread = <<thread[1], q>> /\ thread[1] \in {"request", "match"}
  BY DEF Threads
<1>3. \A m \in messages : RowOK(m, clock)
  BY DEF IInv
<1>4. ChatOpened(thread) \in Threads /\ ChatOpened(thread)[2] = q
  BY <1>1, <1>2 DEF ChatOpened, Threads
<1>5. u \in MembersOf[ChatOpened(thread)]
  BY <1>1, <1>4 DEF MembersOf
<1>6. \A m \in messages : m \in Conversation(thread) <=> ChatOf(m) = ChatOpened(thread)
  <2> SUFFICES ASSUME NEW m \in messages
               PROVE  m \in Conversation(thread) <=> ChatOf(m) = ChatOpened(thread)
    OBVIOUS
  <2>1. CASE thread[1] = "match" /\ q \notin Legacy
    <3>1. ChatOpened(thread) = <<"request", q>> /\ matches[q].link = q /\ q # NoRequest
      BY <1>1, <2>1 DEF ChatOpened
    <3>2. m \in Conversation(thread) <=> m.match = q \/ m.request = q
      BY <2>1, <3>1 DEF Conversation
    <3>3. m.match = q => m.request = q
      BY <1>3, <2>1, <3>1 DEF RowOK
    <3>4. ChatOf(m) = <<"request", q>> <=> m.request = q
      BY <3>1 DEF ChatOf
    <3> QED
      BY <3>1, <3>2, <3>3, <3>4
  <2>2. CASE thread[1] = "match" /\ q \in Legacy
    <3>1. ChatOpened(thread) = <<"match", q>> /\ matches[q].link = NoRequest /\ q # NoRequest
      BY <1>1, <1>2, <2>2 DEF ChatOpened
    <3>2. m \in Conversation(thread) <=> m.match = q
      BY <2>2, <3>1 DEF Conversation
    <3>3. m.match = q => m.request = NoRequest
      BY <1>3, <2>2, <3>1 DEF RowOK
    <3>4. ChatOf(m) = <<"match", q>> <=> m.match = q /\ m.request = NoRequest
      BY DEF ChatOf
    <3> QED
      BY <3>1, <3>2, <3>3, <3>4
  <2>3. CASE thread[1] = "request"
    <3>1. ChatOpened(thread) = <<"request", q>> /\ q # NoRequest
      BY <1>1, <1>2, <2>3 DEF ChatOpened
    <3>2. m \in Conversation(thread) <=> m.request = q
      BY <2>3 DEF Conversation
    <3>3. ChatOf(m) = <<"request", q>> <=> m.request = q
      BY <3>1 DEF ChatOf
    <3> QED
      BY <3>1, <3>2, <3>3
  <2> QED
    BY <1>2, <2>1, <2>2, <2>3
<1>7. Conversation(thread) \subseteq messages
  BY DEF Conversation
<1> QED
  BY <1>4, <1>5, <1>6, <1>7

\* Two rows are two letters, so as many of each are newer than a time.
LEMMA SameCount ==
  ASSUME IInv, NEW S \in SUBSET messages, NEW t \in Times
  PROVE  Cardinality({n \in S : n.at > t}) = Cardinality({l \in {Letter(m) : m \in S} : l.at > t})
<1> DEFINE A == {n \in S : n.at > t}
           B == {l \in {Letter(m) : m \in S} : l.at > t}
           f == [n \in A |-> Letter(n)]
           g == [n \in A |-> n.at]
<1>1. \A m, n \in S : m.at = n.at => m = n
  BY DEF IInv, StampsDistinct
<1>2. \A n \in S : n.at \in Times
  BY DEF IInv, TypeOK, MessageRows
<1>3. IsFiniteSet(A)
  <2>1. g \in [A -> Times]
    BY <1>2
  <2>2. \A m, n \in A : g[m] = g[n] => m = n
    BY <1>1
  <2>3. g \in Injection(A, Times)
    BY <2>1, <2>2 DEF Injection, IsInjective
  <2>4. IsFiniteSet(Times)
    BY LimitsAssumption, FS_Interval DEF Times
  <2> QED
    BY <2>3, <2>4, FS_Injection
<1>4. ExistsBijection(A, B)
  <2>1. f \in [A -> B]
    BY DEF Letter
  <2>2. \A m, n \in A : f[m] = f[n] => m = n
    BY <1>1 DEF Letter
  <2>3. \A l \in B : \E n \in A : f[n] = l
    BY DEF Letter
  <2> HIDE DEF f, A, B
  <2>4. f \in Bijection(A, B)
    BY <2>1, <2>2, <2>3, Fun_IsBij
  <2> QED
    BY <2>4, Fun_ExistsBij
<1> HIDE DEF A, B
<1>5. Cardinality(B) = Cardinality(A)
  BY <1>3, <1>4, FS_Bijection
<1> QED
  BY <1>5 DEF A, B

\* A commit writes one letter, in the chat of its row.
LEMMA CommitWrites ==
  ASSUME IInv, NEW w \in Workers, SendCommit(w)
  PROVE  \E c \in Threads, u \in Users, t \in Times : u \in MembersOf[c] /\ Chat!Write(c, u, t)
<1> DEFINE row == session[w]
<1>1. /\ row # Idle /\ RowOK(row, clock)
      /\ messages' = messages \cup {row}
      /\ seen' = [seen EXCEPT ![row.sender] = @ \cup {row.at}]
  BY DEF SendCommit, IInv
<1>2. row.sender \in Users /\ row.at \in Times
  BY <1>1 DEF RowOK, MessageRows
<1>3. PICK c \in Threads : c = ChatOf(row) /\ row.sender \in MembersOf[c]
  BY <1>1, RowInChat
<1> PICK u \in Users, t \in Times : u = row.sender /\ t = row.at
  BY <1>2
<1>4. \A m \in messages : m.at # row.at
  BY <1>1 DEF IInv, StampsDistinct
<1>5. \A d \in Threads : \A l \in LogOf[d] : l.at # row.at
  BY <1>4 DEF LogOf, Letter
<1>6. LogOf' = [LogOf EXCEPT ![c] = @ \cup {Letter(row)}]
  <2>1. \A d \in Threads : LogOf'[d] = {Letter(m) : m \in {n \in messages' : ChatOf(n) = d}}
    BY DEF LogOf
  <2>2. \A d \in Threads : LogOf[d] = {Letter(m) : m \in {n \in messages : ChatOf(n) = d}}
    BY DEF LogOf
  <2> HIDE DEF row
  <2>3. \A d \in Threads : {n \in messages' : ChatOf(n) = d} =
          IF d = c THEN {n \in messages : ChatOf(n) = d} \cup {row}
          ELSE {n \in messages : ChatOf(n) = d}
    BY <1>1, <1>3
  <2>4. \A d \in Threads :
          LogOf'[d] = IF d = c THEN LogOf[d] \cup {Letter(row)} ELSE LogOf[d]
    <3> SUFFICES ASSUME NEW d \in Threads
                 PROVE  LogOf'[d] = IF d = c THEN LogOf[d] \cup {Letter(row)} ELSE LogOf[d]
      OBVIOUS
    <3> DEFINE R == {n \in messages : ChatOf(n) = d}
               R2 == {n \in messages' : ChatOf(n) = d}
    <3>1. R2 = IF d = c THEN R \cup {row} ELSE R
      BY <2>3
    <3>2. LogOf'[d] = {Letter(m) : m \in R2} /\ LogOf[d] = {Letter(m) : m \in R}
      BY <2>1, <2>2
    <3> HIDE DEF R, R2
    <3>3. {Letter(m) : m \in R \cup {row}} = {Letter(m) : m \in R} \cup {Letter(row)}
      OBVIOUS
    <3> QED
      BY <3>1, <3>2, <3>3
  <2>5. LogOf' = [d \in Threads |-> LogOf'[d]] /\ LogOf = [d \in Threads |-> LogOf[d]]
    BY DEF LogOf
  <2> QED
    BY <2>4, <2>5
<1>7. Chat!Write(c, u, t)
  BY <1>1, <1>3, <1>5, <1>6 DEF Chat!Write, LogOf, Letter
<1> HIDE DEF row
<1> QED
  BY <1>2, <1>3, <1>7

\* Reading looks at the newest letters of the chat its id opens.
LEMMA ReadLooks ==
  ASSUME IInv, NEW u \in Users, NEW thread \in Threads, NEW limit \in Limits,
         Read(u, thread, limit)
  PROVE  \E c \in Threads : u \in MembersOf[c] /\ Chat!Look(c, u, limit)
<1> DEFINE c == ChatOpened(thread)
           S == {m \in messages : ChatOf(m) = c}
           L == {Letter(m) : m \in S}
<1>1. c \in Threads /\ u \in MembersOf[c] /\ Conversation(thread) = S
  BY ChatFound DEF Read
<1>2. LogOf[c] = L
  BY <1>1 DEF LogOf
<1>3. \A m \in S : m.at \in Times /\ Letter(m).at = m.at
  BY DEF IInv, TypeOK, MessageRows, Letter
<1>4. S \in SUBSET messages
  OBVIOUS
<1> HIDE DEF S
<1>5. \A m \in S : Cardinality({n \in S : n.at > m.at}) = Cardinality({l \in L : l.at > m.at})
  BY <1>3, <1>4, SameCount
<1>6. History(thread, limit) = {m \in S : Cardinality({l \in L : l.at > m.at}) < limit}
  BY <1>1, <1>5 DEF History
<1>7. Chat!Newest(L, limit) = {l \in L : Cardinality({k \in L : k.at > l.at}) < limit}
  BY DEF Chat!Newest, Chat!Cardinality, Cardinality
<1>8. {m.at : m \in History(thread, limit)} = {l.at : l \in Chat!Newest(L, limit)}
  <2> DEFINE few(t) == Cardinality({l \in L : l.at > t}) < limit
  <2>1. \A m : m \in History(thread, limit) <=> m \in S /\ few(m.at)
    BY <1>6
  <2>2. \A l : l \in Chat!Newest(L, limit) <=> l \in L /\ few(l.at)
    BY <1>7
  <2>3. \A l : l \in L <=> \E m \in S : l = Letter(m)
    OBVIOUS
  <2> HIDE DEF few, L
  <2>4. ASSUME NEW m \in History(thread, limit)
        PROVE  m.at \in {l.at : l \in Chat!Newest(L, limit)}
    <3>1. Letter(m) \in Chat!Newest(L, limit)
      BY <1>3, <2>1, <2>2, <2>3
    <3> QED
      BY <1>3, <2>1, <3>1
  <2>5. ASSUME NEW l \in Chat!Newest(L, limit)
        PROVE  l.at \in {m.at : m \in History(thread, limit)}
    <3>1. PICK m \in S : l = Letter(m)
      BY <2>2, <2>3
    <3>2. m \in History(thread, limit) /\ l.at = m.at
      BY <1>3, <2>1, <2>2, <3>1
    <3> QED
      BY <3>2
  <2> QED
    BY <2>4, <2>5
<1>9. seen' = [seen EXCEPT ![u] = @ \cup {l.at : l \in Chat!Newest(LogOf[c], limit)}]
  BY <1>2, <1>8 DEF Read
<1>10. LogOf' = LogOf
  BY DEF Read, LogOf
<1> QED
  BY <1>1, <1>9, <1>10 DEF Chat!Look, LogOf

\* Every step is a letter written, a look at a chat, or nothing to either.
LEMMA ChatStep == IInv /\ [Next]_vars => [Chat!Next]_<<LogOf, seen>>
<1> SUFFICES ASSUME IInv, [Next]_vars PROVE [Chat!Next]_<<LogOf, seen>>
  OBVIOUS
<1>1. ASSUME UNCHANGED <<messages, seen>> PROVE UNCHANGED <<LogOf, seen>>
  BY <1>1 DEF LogOf
<1>2. ASSUME NEW q \in Requests, Accept(q) PROVE UNCHANGED <<messages, seen>>
  BY <1>2 DEF Accept
<1>3. ASSUME NEW w \in Workers, NEW u \in Users, NEW t \in Threads, SendBegin(w, u, t)
      PROVE  UNCHANGED <<messages, seen>>
  BY <1>3 DEF SendBegin
<1>4. ASSUME NEW w \in Workers, SendFails(w) PROVE UNCHANGED <<messages, seen>>
  BY <1>4 DEF SendFails
<1>5. ASSUME NEW w \in Workers, SendCommit(w) PROVE Chat!Next
  BY <1>5, CommitWrites DEF Chat!Next, MembersOf
<1>6. ASSUME NEW u \in Users, NEW t \in Threads, NEW limit \in Limits, Read(u, t, limit)
      PROVE  Chat!Next
  BY <1>6, ReadLooks DEF Chat!Next, MembersOf
<1>7. CASE UNCHANGED vars
  BY <1>1, <1>7 DEF vars
<1>8. CASE Next
  BY <1>1, <1>2, <1>3, <1>4, <1>5, <1>6, <1>8 DEF Next
<1> QED
  BY <1>7, <1>8

\* Chat over two tables, two ids and any number of processes implements the
\* correspondence: each conversation is one log that only grows, only its two
\* people write and read it, and a history is the newest of it.
THEOREM CorrespondenceKept == Spec => ImplementsCorrespondence
<1>1. Init => Chat!Init
  BY DEF Init, Chat!Init
<1>2. IInv /\ [Next]_vars => [Chat!Next]_Chat!correspondence
  BY ChatStep DEF Chat!correspondence, LogOf
<1> QED
  BY <1>1, <1>2, Invariance, PTL DEF Spec, ImplementsCorrespondence, Chat!Spec
=============================================================================
