----------------------------- MODULE ChatProofs -----------------------------
(***************************************************************************)
(* Proofs about Chat, for any users, texts and bounds.                     *)
(***************************************************************************)
EXTENDS Chat, TLAPS

(***************************************************************************)
(* The inductive invariant.                                                *)
(***************************************************************************)
\* Nobody chats with themselves, and what is on its way belongs to a conversation.
Peers ==
  \A u \in Users :
    /\ chatUser[u] # u
    /\ view[u] # "closed" \/ queue[u] # <<>> \/ acks[u] # <<>> => chatUser[u] # None

MessagesOK == \A n \in DOMAIN messages : messages[n].from # messages[n].to

StoredSent == \A u \in Users : stored[u] \subseteq DOMAIN messages

\* A recent message is filed for one of its two users: for the sender under the
\* other, for the other under a profile of the sender's phone.
RecentOK(uid, peer, data) ==
  /\ data.from # data.to
  /\ \/ data.from = uid /\ data.to = peer
     \/ data.to = uid /\ peer \in Profiles[data.from]

WriteOK(u, w) ==
  /\ w.kind = "recent" => RecentOK(w.uid, w.peer, w.data) /\ w.data.from = u
  /\ w.kind # "recent" => w.n \in DOMAIN messages /\ messages[w.n].from = u

QueueOK == \A u \in Users : \A i \in DOMAIN queue[u] : WriteOK(u, queue[u][i])

\* A phone's writes of one kind wait in the order of sending,
QueueOrder ==
  \A u \in Users : \A i, j \in DOMAIN queue[u] :
    i < j /\ queue[u][i].kind = queue[u][j].kind /\ queue[u][i].kind # "recent"
      => queue[u][i].n < queue[u][j].n

\* and later than what is stored.
StoredEarlier ==
  \A u \in Users : \A i \in DOMAIN queue[u] : LET w == queue[u][i] IN
    w.kind # "recent" =>
      \A m \in stored[Owner(w)] : Abstract!SameWay(m, w.n) => m < w.n

RecentsOK ==
  \A u, peer \in Users : recent[u][peer] # NoRecent => RecentOK(u, peer, recent[u][peer])

\* Who waits has one message at most on its way,
OneSending ==
  \A u \in Users \ hasty :
    /\ Len(acks[u]) <= 1
    /\ acks[u] # <<>> => \A i \in DOMAIN queue[u] : queue[u][i].kind # "sender"
    /\ \A i, j \in DOMAIN queue[u] :
         queue[u][i].kind = "sender" /\ queue[u][j].kind = "sender" => i = j

\* and it is the one in the text field.
Draft(u) == [from |-> u, to |-> chatUser[u], text |-> chatText[u]]

SendingDraft ==
  \A u \in Users \ hasty :
    /\ \A i \in DOMAIN queue[u] : queue[u][i].kind = "sender" => messages[queue[u][i].n] = Draft(u)
    /\ acks[u] # <<>> /\ Head(acks[u]) = "saved" => \E n \in stored[u] : messages[n] = Draft(u)

WasSent(data) ==
  \E n \in DOMAIN messages : messages[n] = [from |-> data.from, to |-> data.to, text |-> data.text]

QueuedWasSent ==
  \A u \in Users \ hasty : \A i \in DOMAIN queue[u] :
    queue[u][i].kind = "recent" => WasSent(queue[u][i].data)

\* What is shown was sent, and what is shown of somebody else is stored.
LogKnown ==
  \A u \in Users : \A m \in Shown(u) :
    /\ m \in DOMAIN messages /\ Between(u, chatUser[u], m)
    /\ messages[m].from # u => m \in stored[u]

\* What is still to be shown is later.
LogEarlier ==
  \A u \in Users : \A m \in Shown(u), n \in New(u) :
    messages[m].from = messages[n].from => m < n

IInv ==
  /\ TypeOK
  /\ Peers /\ MessagesOK /\ StoredSent /\ QueueOK /\ RecentsOK
  /\ QueueOrder /\ StoredEarlier
  /\ OneSending /\ SendingDraft
  /\ RecentWasSent /\ QueuedWasSent
  /\ LogKnown /\ LogEarlier /\ LogInOrder
-----------------------------------------------------------------------------
(***************************************************************************)
(* Queues and writes.                                                      *)
(***************************************************************************)
\* What is left of a queue, and where its members were.
LEMMA Dequeued ==
  ASSUME NEW S, NEW q \in Seq(S), q # <<>>
  PROVE  /\ 1 \in DOMAIN q /\ Head(q) = q[1] /\ Head(q) \in S
         /\ Tail(q) \in Seq(S)
         /\ \A i \in DOMAIN Tail(q) : i \in Nat /\ i + 1 \in DOMAIN q /\ Tail(q)[i] = q[i + 1]
         /\ \A i \in DOMAIN q : i \in Nat /\ i >= 1
         /\ \A i \in DOMAIN q : i # 1 => i - 1 \in DOMAIN Tail(q) /\ Tail(q)[i - 1] = q[i]
<1>1. Len(q) \in Nat /\ Len(q) # 0 /\ DOMAIN q = 1..Len(q)
  OBVIOUS
<1>2. Tail(q) \in Seq(S) /\ Len(Tail(q)) = Len(q) - 1 /\ DOMAIN Tail(q) = 1..(Len(q) - 1)
  BY <1>1
<1>3. \A i \in 1..(Len(q) - 1) : Tail(q)[i] = q[i + 1]
  BY <1>1
<1>4. 1 \in DOMAIN q /\ Head(q) = q[1] /\ Head(q) \in S
  BY <1>1
<1>5. \A i \in DOMAIN Tail(q) : i \in Nat /\ i + 1 \in DOMAIN q /\ Tail(q)[i] = q[i + 1]
  BY <1>1, <1>2, <1>3
<1>6. ASSUME NEW i \in DOMAIN q, i # 1
      PROVE  i - 1 \in DOMAIN Tail(q) /\ Tail(q)[i - 1] = q[i]
  <2>1. i - 1 \in 1..(Len(q) - 1) /\ (i - 1) + 1 = i
    BY <1>1, <1>6
  <2> QED
    BY <2>1, <1>2, <1>3
<1>7. \A i \in DOMAIN q : i \in Nat /\ i >= 1
  BY <1>1
<1> QED
  BY <1>2, <1>4, <1>5, <1>6, <1>7

\* A longer queue: a member is an old one, in its place, or a new one, behind them.
LEMMA Enqueued ==
  ASSUME NEW S, NEW q \in Seq(S), NEW r \in Seq(S)
  PROVE  /\ q \o r \in Seq(S)
         /\ \A i \in DOMAIN q : i \in Nat /\ i \in DOMAIN (q \o r) /\ (q \o r)[i] = q[i]
         /\ \A i \in DOMAIN (q \o r) :
              \/ i \in DOMAIN q /\ (q \o r)[i] = q[i]
              \/ /\ i \in Nat /\ \A k \in DOMAIN q : k < i
                 /\ \E j \in DOMAIN r : i = Len(q) + j /\ (q \o r)[i] = r[j]
<1> DEFINE s == q \o r
<1>1. Len(q) \in Nat /\ DOMAIN q = 1..Len(q) /\ Len(r) \in Nat /\ DOMAIN r = 1..Len(r)
  OBVIOUS
<1>2. s \in Seq(S) /\ DOMAIN s = 1..(Len(q) + Len(r))
  OBVIOUS
<1>3. \A i \in 1..(Len(q) + Len(r)) : s[i] = IF i <= Len(q) THEN q[i] ELSE r[i - Len(q)]
  OBVIOUS
<1> HIDE DEF s
<1>4. \A i \in DOMAIN q : i \in Nat /\ i \in DOMAIN s /\ s[i] = q[i]
  BY <1>1, <1>2, <1>3
<1>5. ASSUME NEW i \in DOMAIN s, i \notin DOMAIN q
      PROVE  /\ i \in Nat /\ \A k \in DOMAIN q : k < i
             /\ \E j \in DOMAIN r : i = Len(q) + j /\ s[i] = r[j]
  <2>1. i \in Nat /\ i > Len(q) /\ i - Len(q) \in DOMAIN r /\ i = Len(q) + (i - Len(q))
    BY <1>1, <1>2, <1>5
  <2>2. s[i] = r[i - Len(q)]
    BY <1>1, <1>2, <1>3, <2>1
  <2>3. \A k \in DOMAIN q : k < i
    BY <1>1, <2>1
  <2> QED
    BY <2>1, <2>2, <2>3
<1> QED
  BY <1>2, <1>4, <1>5 DEF s

\* One more at the end.
LEMMA Appended ==
  ASSUME NEW S, NEW q \in Seq(S), NEW e \in S
  PROVE  /\ Append(q, e) \in Seq(S)
         /\ Len(q) \in Nat /\ DOMAIN q = 1..Len(q) /\ Len(Append(q, e)) = Len(q) + 1
         /\ DOMAIN Append(q, e) = DOMAIN q \cup {Len(q) + 1}
         /\ \A i \in DOMAIN q : i \in Nat /\ i < Len(q) + 1 /\ Append(q, e)[i] = q[i]
         /\ Append(q, e)[Len(q) + 1] = e
  OBVIOUS

\* The two kinds of writes.
LEMMA WriteTypes ==
  ASSUME NEW w \in Write
  PROVE  /\ w.kind = "recent" => w.uid \in Users /\ w.peer \in Users /\ w.data \in Recent
         /\ w.kind # "recent" => w.kind \in {"sender", "recipient"} /\ w.n \in Numbers
  BY DEF Write

\* What handleSend writes.
SentWrites(n) == <<[kind |-> "sender", n |-> n], [kind |-> "recipient", n |-> n]>>

\* They are two, the sender's first.
LEMMA SentWritesType ==
  ASSUME NEW n \in Numbers
  PROVE  /\ SentWrites(n) \in Seq(Write) /\ DOMAIN SentWrites(n) = {1, 2}
         /\ SentWrites(n)[1].kind = "sender" /\ SentWrites(n)[1].n = n
         /\ SentWrites(n)[2].kind = "recipient" /\ SentWrites(n)[2].n = n
<1>1. [kind |-> "sender", n |-> n] \in Write /\ [kind |-> "recipient", n |-> n] \in Write
  BY DEF Write
<1> QED
  BY <1>1 DEF SentWrites

\* What persistRecentMessage writes.
LEMMA RecentWritesType ==
  ASSUME NEW u \in Users, NEW text \in Texts \cup {Empty}, NEW p \in Profiles[u],
         chatUser[u] \in Users, chatUser[u] # u
  PROVE  /\ RecentWrites(u, text, p) \in Seq(Write)
         /\ \A i \in DOMAIN RecentWrites(u, text, p) : LET w == RecentWrites(u, text, p)[i] IN
              /\ w.kind = "recent" /\ WriteOK(u, w)
              /\ w.data = [text |-> text, from |-> u, to |-> chatUser[u]]
<1> DEFINE data == [text |-> text, from |-> u, to |-> chatUser[u]]
           W(uid, peer) == [kind |-> "recent", uid |-> uid, peer |-> peer, data |-> data]
           v == chatUser[u]
<1>1. data \in Recent
  BY DEF Recent
<1>2. W(u, v) \in Write /\ (p # None => W(v, p) \in Write)
  BY <1>1, ProfilesAssumption DEF Write
<1>3. /\ W(u, v).kind = "recent" /\ WriteOK(u, W(u, v)) /\ W(u, v).data = data
      /\ W(v, p).kind = "recent" /\ WriteOK(u, W(v, p)) /\ W(v, p).data = data
  BY DEF WriteOK, RecentOK
<1>4. RecentWrites(u, text, p) = IF p # None THEN <<W(u, v)>> \o <<W(v, p)>> ELSE <<W(u, v)>> \o <<>>
  BY DEF RecentWrites
<1> HIDE DEF W, data
<1>5. CASE p # None
  <2> DEFINE r == RecentWrites(u, text, p)
  <2>1. r \in Seq(Write) /\ DOMAIN r = 1..2 /\ r[1] = W(u, v) /\ r[2] = W(v, p)
    BY <1>2, <1>4, <1>5
  <2> QED
    BY <1>2, <1>3, <2>1 DEF data
<1>6. CASE p = None
  <2>1. RecentWrites(u, text, p) = <<W(u, v)>>
    BY <1>2, <1>4, <1>6
  <2> QED
    BY <1>2, <1>3, <2>1 DEF data
<1> QED
  BY <1>5, <1>6

-----------------------------------------------------------------------------
(***************************************************************************)
(* Types.                                                                  *)
(***************************************************************************)
\* What a listener may show are numbers of messages.
LEMMA NewType == ASSUME TypeOK, NEW u \in Users PROVE New(u) \subseteq Numbers
<1>1. ASSUME NEW i \in DOMAIN queue[u], queue[u][i].kind = "sender" PROVE queue[u][i].n \in Numbers
  <2>1. queue[u][i] \in Write
    BY DEF TypeOK
  <2> QED
    BY <1>1, <2>1, WriteTypes
<1>2. Waiting(u) \subseteq Numbers
  BY <1>1 DEF Waiting
<1> QED
  BY <1>2 DEF New, Visible, TypeOK

\* Every step keeps the types; a message has a recipient because a conversation is open.
LEMMA TypeStep == TypeOK /\ Peers /\ [Next]_vars => TypeOK'
<1> SUFFICES ASSUME TypeOK, Peers, [Next]_vars
             PROVE  TypeOK'
  OBVIOUS
<1> USE OnlineAssumption, ListedAssumption, BoundsAssumption, NoneAssumption
    DEF TypeOK, firestore, viewModel, Fault, NoteHaste
<1>1. ASSUME NEW u \in Users, NEW peer \in Users, OpenNew(u, peer) PROVE TypeOK'
  BY <1>1 DEF OpenNew, Opening, fetchMessages
<1>2. ASSUME NEW u \in Users, NEW peer \in Users, OpenRecent(u, peer) PROVE TypeOK'
  <2>1. Peer(u, recent[u][peer]) \in Users
    BY <1>2 DEF OpenRecent, Peer, Recent
  <2> QED
    BY <1>2, <2>1 DEF OpenRecent, Opening, fetchMessages
<1>3. ASSUME NEW u \in Users, NEW text \in Texts, Type(u, text) PROVE TypeOK'
  BY <1>3 DEF Type
<1>4. ASSUME NEW u \in Users, Leave(u) \/ SwitchTab(u) PROVE TypeOK'
  BY <1>4 DEF Leave, SwitchTab
<1>5. ASSUME NEW u \in Users, handleSend(u) PROVE TypeOK'
  <2> DEFINE n == Len(messages) + 1
             m == [from |-> u, to |-> chatUser[u], text |-> chatText[u]]
  <2>1. m \in Message
    BY <1>5 DEF handleSend, Message, Peers
  <2>2. n \in Numbers
    BY <1>5 DEF handleSend, Numbers
  <2> HIDE DEF m
  <2>3. Append(messages, m) \in Seq(Message) /\ Len(Append(messages, m)) = n
    BY <2>1, Appended
  <2>4. messages' = Append(messages, m) /\ n <= MaxMessages
    BY <1>5 DEF handleSend, m
  <2>5. queue[u] \o SentWrites(n) \in Seq(Write)
    BY <2>2, SentWritesType, Enqueued
  <2>6. queue' \in [Users -> Seq(Write)]
    BY <1>5, <2>5 DEF handleSend, SentWrites
  <2> QED
    BY <1>5, <2>3, <2>4, <2>6 DEF handleSend
<1>6. ASSUME NEW u \in Users, Saved(u) PROVE TypeOK'
  <2>1. chatUser[u] \in Users /\ chatUser[u] # u
    BY <1>6 DEF Saved, Peers
  <2>2. PICK p \in Profiles[u] : queue' = [queue EXCEPT ![u] = @ \o RecentWrites(u, chatText[u], p)]
    BY <1>6 DEF Saved
  <2>3. queue[u] \o RecentWrites(u, chatText[u], p) \in Seq(Write)
    BY <2>1, RecentWritesType, Enqueued
  <2>4. Tail(acks[u]) \in Seq({"saved", "error"})
    BY <1>6, Dequeued DEF Saved
  <2> QED
    BY <1>6, <2>2, <2>3, <2>4 DEF Saved
<1>7. ASSUME NEW u \in Users, NotSaved(u) PROVE TypeOK'
  <2>1. Tail(acks[u]) \in Seq({"saved", "error"})
    BY <1>7, Dequeued DEF NotSaved
  <2> QED
    BY <1>7, <2>1 DEF NotSaved
<1>8. ASSUME NEW u \in Users, queue[u] # <<>>, NEW answer \in {"saved", "error"},
             Answer(u, Head(queue[u]), answer)
      PROVE  queue' \in [Users -> Seq(Write)] /\ acks' \in [Users -> Seq({"saved", "error"})]
  <2>1. Tail(queue[u]) \in Seq(Write)
    BY <1>8, Dequeued
  <2>2. Append(acks[u], answer) \in Seq({"saved", "error"})
    BY Appended
  <2> QED
    BY <1>8, <2>1, <2>2 DEF Answer
<1>9. ASSUME NEW u \in Users, Store(u) PROVE TypeOK'
  <2> DEFINE w == Head(queue[u])
  <2>1. w \in Write
    BY <1>9, Dequeued DEF Store
  <2> HIDE DEF w
  <2>2. recent' \in [Users -> [Users -> Recent \cup {NoRecent}]]
    <3>1. CASE w.kind = "recent"
      <4>1. w.uid \in Users /\ w.peer \in Users /\ w.data \in Recent
        BY <2>1, <3>1, WriteTypes
      <4>2. recent' = [recent EXCEPT ![w.uid][w.peer] = w.data]
        BY <1>9, <3>1 DEF Store, w
      <4> QED
        BY <4>1, <4>2
    <3>2. CASE w.kind # "recent"
      BY <1>9, <3>2 DEF Store, w
    <3> QED
      BY <3>1, <3>2
  <2>3. stored' \in [Users -> SUBSET Numbers]
    <3>1. CASE w.kind = "recent"
      BY <1>9, <3>1 DEF Store, w
    <3>2. CASE w.kind # "recent"
      <4>1. w.n \in Numbers
        BY <2>1, <3>2, WriteTypes
      <4>2. stored' = [stored EXCEPT ![Owner(w)] = @ \cup {w.n}]
        BY <1>9, <3>2 DEF Store, w
      <4> QED
        BY <4>1, <4>2
    <3> QED
      BY <3>1, <3>2
  <2> QED
    BY <1>8, <1>9, <2>2, <2>3 DEF Store
<1>10. ASSUME NEW u \in Users, Refuse(u) PROVE TypeOK'
  BY <1>8, <1>10 DEF Refuse
<1>11. ASSUME NEW u \in Users, MessagesAdded(u) PROVE TypeOK'
  <2>1. PICK n \in New(u) : chatMessages' = [chatMessages EXCEPT ![u] = Append(@, n)]
    BY <1>11 DEF MessagesAdded
  <2>2. n \in Numbers
    BY NewType
  <2>3. Append(chatMessages[u], n) \in Seq(Numbers)
    BY <2>2, Appended
  <2> QED
    BY <1>11, <2>1, <2>3 DEF MessagesAdded
<1>12. ASSUME NEW u \in Users, ListenerFails(u) PROVE TypeOK'
  BY <1>12 DEF ListenerFails
<1>13. CASE UNCHANGED vars
  BY <1>13 DEF vars
<1> QED
  BY <1>1, <1>2, <1>3, <1>4, <1>5, <1>6, <1>7, <1>9, <1>10, <1>11, <1>12, <1>13 DEF Next, Idle

-----------------------------------------------------------------------------
(***************************************************************************)
(* What the steps do to the messages and to the queues.                    *)
(***************************************************************************)
\* handleSend: one more message, the one in the text field, and two writes behind the others.
LEMMA SendFacts ==
  ASSUME TypeOK, NEW u \in Users, handleSend(u)
  PROVE  LET n == Len(messages) + 1 IN
         /\ n \in Numbers /\ DOMAIN messages' = DOMAIN messages \cup {n}
         /\ \A m \in DOMAIN messages : m \in Nat /\ m < n /\ messages'[m] = messages[m]
         /\ messages'[n] = Draft(u)
         /\ \A v \in Users : v # u => queue'[v] = queue[v]
         /\ \A i \in DOMAIN queue[u] : i \in DOMAIN queue'[u] /\ queue'[u][i] = queue[u][i]
         /\ \A i \in DOMAIN queue'[u] :
              \/ i \in DOMAIN queue[u]
              \/ /\ i \in Nat /\ \A k \in DOMAIN queue[u] : k < i
                 /\ \/ i = Len(queue[u]) + 1 /\ queue'[u][i].kind = "sender"
                    \/ i = Len(queue[u]) + 2 /\ queue'[u][i].kind = "recipient"
                 /\ queue'[u][i].n = n
<1> DEFINE n == Len(messages) + 1
           q == queue[u]
           r == SentWrites(n)
<1>1. n \in Numbers
  BY BoundsAssumption DEF TypeOK, handleSend, Numbers
<1>2. messages' = Append(messages, Draft(u)) /\ messages \in Seq(Message)
  BY DEF handleSend, Draft, TypeOK
<1>3. /\ DOMAIN messages' = DOMAIN messages \cup {n}
      /\ \A m \in DOMAIN messages : m \in Nat /\ m < n /\ messages'[m] = messages[m]
      /\ messages'[n] = Draft(u)
  BY <1>2
<1>4. queue' = [queue EXCEPT ![u] = q \o r] /\ q \in Seq(Write)
  BY DEF handleSend, SentWrites, TypeOK
<1>5. queue'[u] = q \o r /\ \A v \in Users : v # u => queue'[v] = queue[v]
  BY <1>4 DEF TypeOK
<1>6. /\ r \in Seq(Write) /\ DOMAIN r = {1, 2}
      /\ r[1].kind = "sender" /\ r[1].n = n /\ r[2].kind = "recipient" /\ r[2].n = n
  BY <1>1, SentWritesType
<1> HIDE DEF r, q
<1>7. /\ \A i \in DOMAIN q : i \in DOMAIN (q \o r) /\ (q \o r)[i] = q[i]
      /\ \A i \in DOMAIN (q \o r) :
           \/ i \in DOMAIN q
           \/ /\ i \in Nat /\ \A k \in DOMAIN q : k < i
              /\ \E j \in DOMAIN r : i = Len(q) + j /\ (q \o r)[i] = r[j]
  BY <1>4, <1>6, Enqueued
<1>8. \A i \in DOMAIN (q \o r) :
        \/ i \in DOMAIN q
        \/ /\ i \in Nat /\ \A k \in DOMAIN q : k < i
           /\ \/ i = Len(q) + 1 /\ (q \o r)[i].kind = "sender"
              \/ i = Len(q) + 2 /\ (q \o r)[i].kind = "recipient"
           /\ (q \o r)[i].n = n
  BY <1>6, <1>7
<1> QED
  BY <1>1, <1>3, <1>5, <1>7, <1>8 DEF q

\* Saved: one answer less, and the recent messages behind the other writes.
LEMMA SavedFacts ==
  ASSUME TypeOK, Peers, NEW u \in Users, Saved(u)
  PROVE  /\ \A v \in Users : v # u => queue'[v] = queue[v] /\ acks'[v] = acks[v]
         /\ \A i \in DOMAIN queue[u] : i \in DOMAIN queue'[u] /\ queue'[u][i] = queue[u][i]
         /\ \A i \in DOMAIN queue'[u] :
              \/ i \in DOMAIN queue[u]
              \/ /\ i \in Nat /\ \A k \in DOMAIN queue[u] : k < i
                 /\ queue'[u][i].kind = "recent" /\ WriteOK(u, queue'[u][i])
                 /\ queue'[u][i].data = [text |-> chatText[u], from |-> u, to |-> chatUser[u]]
         /\ acks[u] # <<>> /\ Head(acks[u]) = "saved" /\ acks'[u] = Tail(acks[u])
         /\ chatUser[u] \in Users
<1>0. PICK p \in Profiles[u] : queue' = [queue EXCEPT ![u] = @ \o RecentWrites(u, chatText[u], p)]
  BY DEF Saved
<1> DEFINE q == queue[u]
           r == RecentWrites(u, chatText[u], p)
<1>1. chatUser[u] \in Users /\ chatUser[u] # u
  BY DEF Saved, Peers, TypeOK
<1>2. /\ r \in Seq(Write)
      /\ \A j \in DOMAIN r :
           /\ r[j].kind = "recent" /\ WriteOK(u, r[j])
           /\ r[j].data = [text |-> chatText[u], from |-> u, to |-> chatUser[u]]
  BY <1>1, RecentWritesType DEF TypeOK
<1>3. queue' = [queue EXCEPT ![u] = q \o r] /\ q \in Seq(Write)
  BY <1>0 DEF TypeOK
<1>4. queue'[u] = q \o r /\ \A v \in Users : v # u => queue'[v] = queue[v]
  BY <1>3 DEF TypeOK
<1>5. acks'[u] = Tail(acks[u]) /\ \A v \in Users : v # u => acks'[v] = acks[v]
  BY DEF Saved, TypeOK
<1> HIDE DEF r, q
<1>6. /\ \A i \in DOMAIN q : i \in DOMAIN (q \o r) /\ (q \o r)[i] = q[i]
      /\ \A i \in DOMAIN (q \o r) :
           \/ i \in DOMAIN q
           \/ /\ i \in Nat /\ \A k \in DOMAIN q : k < i
              /\ \E j \in DOMAIN r : i = Len(q) + j /\ (q \o r)[i] = r[j]
  BY <1>2, <1>3, Enqueued
<1>7. \A i \in DOMAIN (q \o r) :
        \/ i \in DOMAIN q
        \/ /\ i \in Nat /\ \A k \in DOMAIN q : k < i
           /\ (q \o r)[i].kind = "recent" /\ WriteOK(u, (q \o r)[i])
           /\ (q \o r)[i].data = [text |-> chatText[u], from |-> u, to |-> chatUser[u]]
  BY <1>2, <1>6
<1> QED
  BY <1>1, <1>4, <1>5, <1>6, <1>7 DEF q, Saved

\* An answer of the server: one write less, and the answer for the sender's.
LEMMA AnswerFacts ==
  ASSUME TypeOK, NEW u \in Users, queue[u] # <<>>, NEW answer, Answer(u, Head(queue[u]), answer)
  PROVE  /\ 1 \in DOMAIN queue[u] /\ Head(queue[u]) = queue[u][1] /\ Head(queue[u]) \in Write
         /\ \A v \in Users : v # u => queue'[v] = queue[v] /\ acks'[v] = acks[v]
         /\ \A i \in DOMAIN queue'[u] :
              i \in Nat /\ i + 1 \in DOMAIN queue[u] /\ queue'[u][i] = queue[u][i + 1]
         /\ \A i \in DOMAIN queue[u] : i \in Nat /\ i >= 1
         /\ \A i \in DOMAIN queue[u] :
              i # 1 => i - 1 \in DOMAIN queue'[u] /\ queue'[u][i - 1] = queue[u][i]
         /\ acks'[u] = IF Head(queue[u]).kind = "sender" THEN Append(acks[u], answer) ELSE acks[u]
<1>1. queue'[u] = Tail(queue[u]) /\ queue[u] \in Seq(Write)
  BY DEF Answer, TypeOK
<1>2. \A v \in Users : v # u => queue'[v] = queue[v] /\ acks'[v] = acks[v]
  BY DEF Answer, TypeOK
<1>3. acks'[u] = IF Head(queue[u]).kind = "sender" THEN Append(acks[u], answer) ELSE acks[u]
  BY DEF Answer, TypeOK
<1> QED
  BY <1>1, <1>2, <1>3, Dequeued

\* The other steps leave the documents and their queues alone.
LEMMA FirestoreSteps ==
  ASSUME [Next]_vars
  PROVE  \/ \E u \in Users : handleSend(u) \/ Saved(u) \/ NotSaved(u) \/ Store(u) \/ Refuse(u)
         \/ UNCHANGED firestore
  BY OnlineAssumption
  DEF Next, Idle, vars, OpenNew, OpenRecent, Type, Leave, SwitchTab, MessagesAdded, ListenerFails

\* The server takes the first write of a queue, and stores it or not.
LEMMA StoreFacts ==
  ASSUME TypeOK, QueueOK, NEW u \in Users, Store(u)
  PROVE  LET w == Head(queue[u]) IN
         /\ queue[u] # <<>> /\ Answer(u, w, "saved") /\ UNCHANGED <<messages, viewModel, hasty>>
         /\ w \in Write /\ WriteOK(u, w)
         /\ \/ /\ w.kind = "recent" /\ stored' = stored
               /\ w.uid \in Users /\ w.peer \in Users
               /\ \A a, b \in Users :
                    recent'[a][b] = IF a = w.uid /\ b = w.peer THEN w.data ELSE recent[a][b]
            \/ /\ w.kind \in {"sender", "recipient"} /\ recent' = recent
               /\ w.n \in DOMAIN messages /\ w.n \in Nat /\ messages[w.n].from = u /\ Owner(w) \in Users
               /\ \A v \in Users : v # Owner(w) => stored'[v] = stored[v]
               /\ stored'[Owner(w)] = stored[Owner(w)] \cup {w.n}
<1> DEFINE w == Head(queue[u])
<1>1. queue[u] # <<>> /\ Answer(u, w, "saved") /\ UNCHANGED <<messages, viewModel, hasty>>
  BY DEF Store
<1>2. w \in Write /\ WriteOK(u, w)
  BY <1>1, AnswerFacts DEF QueueOK
<1>3. ASSUME w.kind = "recent"
      PROVE  recent' = [recent EXCEPT ![w.uid][w.peer] = w.data] /\ stored' = stored
  BY <1>3 DEF Store
<1>4. ASSUME w.kind # "recent"
      PROVE  recent' = recent /\ stored' = [stored EXCEPT ![Owner(w)] = @ \cup {w.n}]
  BY <1>4 DEF Store
<1> HIDE DEF w
<1>5. CASE w.kind = "recent"
  <2>1. w.uid \in Users /\ w.peer \in Users
    BY <1>2, <1>5, WriteTypes
  <2>2. recent \in [Users -> [Users -> Recent \cup {NoRecent}]]
    BY DEF TypeOK
  <2>3. \A a, b \in Users : recent'[a][b] = IF a = w.uid /\ b = w.peer THEN w.data ELSE recent[a][b]
    BY <1>3, <1>5, <2>1, <2>2
  <2> QED
    BY <1>1, <1>2, <1>3, <1>5, <2>1, <2>3 DEF w
<1>6. CASE w.kind # "recent"
  <2>1. w.kind \in {"sender", "recipient"} /\ w.n \in Numbers
    BY <1>2, <1>6, WriteTypes
  <2>2. w.n \in DOMAIN messages /\ messages[w.n].from = u
    BY <1>2, <1>6 DEF WriteOK
  <2>3. messages[w.n] \in Message
    BY <2>2 DEF TypeOK
  <2>4. Owner(w) \in Users
    BY <2>3 DEF Owner, Message
  <2>5. /\ \A v \in Users : v # Owner(w) => stored'[v] = stored[v]
        /\ stored'[Owner(w)] = stored[Owner(w)] \cup {w.n}
    BY <1>4, <1>6, <2>4 DEF TypeOK
  <2> QED
    BY <1>1, <1>2, <1>4, <1>6, <2>1, <2>2, <2>4, <2>5 DEF w, Numbers
<1> QED
  BY <1>5, <1>6

\* It refuses one: only the queue and the answers change.
LEMMA RefuseFacts ==
  ASSUME NEW u, Refuse(u)
  PROVE  /\ queue[u] # <<>> /\ Answer(u, Head(queue[u]), "error")
         /\ UNCHANGED <<messages, stored, recent, viewModel, hasty>>
  BY DEF Refuse

-----------------------------------------------------------------------------
(***************************************************************************)
(* Conversations and documents.                                            *)
(***************************************************************************)
\* The peer of a view model stays another user.
LEMMA PeersStep == TypeOK /\ Peers /\ RecentsOK /\ [Next]_vars => Peers'
<1> SUFFICES ASSUME TypeOK, Peers, RecentsOK, [Next]_vars
             PROVE  Peers'
  OBVIOUS
<1> USE OnlineAssumption, ListedAssumption, NoneAssumption
<1>1. ASSUME NEW u \in Users, NEW peer \in Users, peer # u, fetchMessages(u, peer), UNCHANGED firestore
      PROVE  Peers'
  BY <1>1 DEF fetchMessages, Peers, TypeOK, firestore
<1>2. ASSUME NEW u \in Users, NEW peer \in Users, OpenRecent(u, peer) PROVE Peers'
  <2>1. Peer(u, recent[u][peer]) \in Users \ {u}
    BY <1>2 DEF OpenRecent, RecentsOK, RecentOK, Peer, TypeOK, Recent
  <2> QED
    BY <1>1, <1>2, <2>1 DEF OpenRecent
<1>3. ASSUME NEW u \in Users, NEW peer \in Users, OpenNew(u, peer) PROVE Peers'
  BY <1>1, <1>3 DEF OpenNew
<1>4. ASSUME NEW u \in Users, chatUser' = chatUser, chatUser[u] # None,
             \A v \in Users : v # u => view'[v] = view[v] /\ queue'[v] = queue[v] /\ acks'[v] = acks[v]
      PROVE  Peers'
  BY <1>4 DEF Peers
<1>5. ASSUME NEW u \in Users, handleSend(u) PROVE Peers'
  BY <1>4, <1>5 DEF handleSend, Peers, TypeOK, viewModel
<1>6. ASSUME NEW u \in Users, Saved(u) PROVE Peers'
  BY <1>4, <1>6 DEF Saved, Peers, TypeOK
<1>7. ASSUME NEW u \in Users, NotSaved(u) PROVE Peers'
  BY <1>4, <1>7 DEF NotSaved, Peers, TypeOK, viewModel
<1>8. ASSUME NEW u \in Users, Store(u) \/ Refuse(u) PROVE Peers'
  <2>1. PICK answer : Answer(u, Head(queue[u]), answer)
    BY <1>8 DEF Store, Refuse
  <2>2. queue[u] # <<>> /\ UNCHANGED viewModel
    BY <1>8 DEF Store, Refuse
  <2>3. \A v \in Users : v # u => queue'[v] = queue[v] /\ acks'[v] = acks[v]
    BY <2>1, <2>2, AnswerFacts
  <2> QED
    BY <1>4, <2>2, <2>3 DEF Peers, viewModel
<1>9. ASSUME NEW u \in Users, Leave(u) \/ SwitchTab(u) \/ ListenerFails(u) PROVE Peers'
  BY <1>9 DEF Leave, SwitchTab, ListenerFails, Peers, TypeOK, firestore
<1>10. ASSUME NEW u \in Users, MessagesAdded(u) \/ \E text \in Texts : Type(u, text) PROVE Peers'
  BY <1>10 DEF MessagesAdded, Type, Peers, firestore
<1>11. CASE UNCHANGED vars
  BY <1>11 DEF vars, Peers, firestore, viewModel
<1> QED
  BY <1>2, <1>3, <1>5, <1>6, <1>7, <1>8, <1>9, <1>10, <1>11 DEF Next, Idle

\* What is written and stored are messages that were sent, and recent messages
\* of the two users concerned.
Documents == MessagesOK /\ StoredSent /\ QueueOK /\ RecentsOK

\* Every step keeps that.
LEMMA DocumentsStep == TypeOK /\ Peers /\ Documents /\ [Next]_vars => Documents'
<1> SUFFICES ASSUME TypeOK, Peers, Documents, [Next]_vars
             PROVE  Documents'
  OBVIOUS
<1> USE DEF Documents
<1>1. ASSUME NEW u \in Users, handleSend(u) PROVE Documents'
  <2> DEFINE n == Len(messages) + 1
  <2>0. UNCHANGED <<stored, recent>>
    BY <1>1 DEF handleSend
  <2>1. chatUser[u] # u
    BY DEF Peers
  <2>2. /\ DOMAIN messages' = DOMAIN messages \cup {n}
        /\ \A m \in DOMAIN messages : messages'[m] = messages[m]
        /\ messages'[n] = Draft(u)
    BY <1>1, SendFacts
  <2> HIDE DEF n
  <2>3. MessagesOK'
    BY <2>1, <2>2 DEF MessagesOK, Draft
  <2>4. StoredSent'
    BY <2>0, <2>2 DEF StoredSent
  <2>5. QueueOK'
    <3> SUFFICES ASSUME NEW v \in Users, NEW i \in DOMAIN queue'[v]
                 PROVE  WriteOK(v, queue[v][i])'
      BY DEF QueueOK
    <3>1. CASE v = u /\ i \notin DOMAIN queue[u]
      <4>1. queue'[v][i].kind \in {"sender", "recipient"} /\ queue'[v][i].n = n
        BY <1>1, <3>1, SendFacts DEF n
      <4> QED
        BY <2>2, <3>1, <4>1 DEF WriteOK, Draft
    <3>2. CASE ~(v = u /\ i \notin DOMAIN queue[u])
      <4>1. i \in DOMAIN queue[v] /\ queue'[v][i] = queue[v][i]
        BY <1>1, <3>2, SendFacts
      <4>2. WriteOK(v, queue[v][i])
        BY <4>1 DEF QueueOK
      <4> QED
        BY <2>2, <4>1, <4>2 DEF WriteOK, RecentOK
    <3> QED
      BY <3>1, <3>2
  <2>6. RecentsOK'
    BY <2>0 DEF RecentsOK
  <2> QED
    BY <2>3, <2>4, <2>5, <2>6
<1>2. ASSUME messages' = messages PROVE MessagesOK' /\ \A u, w : WriteOK(u, w) <=> WriteOK(u, w)'
  BY <1>2 DEF Documents, MessagesOK, WriteOK, RecentOK
<1>3. ASSUME NEW u \in Users, Saved(u) PROVE Documents'
  <2>1. messages' = messages /\ stored' = stored /\ recent' = recent
    BY <1>3 DEF Saved
  <2>2. ASSUME NEW v \in Users, NEW i \in DOMAIN queue'[v] PROVE WriteOK(v, queue'[v][i])
    BY <1>3, <2>2, SavedFacts DEF QueueOK
  <2>3. QueueOK'
    BY <1>2, <2>1, <2>2 DEF QueueOK, WriteOK, RecentOK
  <2> QED
    BY <1>2, <2>1, <2>3 DEF StoredSent, RecentsOK
<1>4. ASSUME NEW u \in Users, queue[u] # <<>>, NEW answer, Answer(u, Head(queue[u]), answer), messages' = messages
      PROVE  MessagesOK' /\ QueueOK'
  <2>1. ASSUME NEW v \in Users, NEW i \in DOMAIN queue'[v] PROVE WriteOK(v, queue'[v][i])
    <3>1. CASE v = u
      BY <1>4, <2>1, <3>1, AnswerFacts DEF QueueOK
    <3>2. CASE v # u
      BY <1>4, <2>1, <3>2, AnswerFacts DEF QueueOK
    <3> QED
      BY <3>1, <3>2
  <2> QED
    BY <1>2, <1>4, <2>1 DEF QueueOK, WriteOK, RecentOK
<1>5. ASSUME NEW u \in Users, Store(u) PROVE Documents'
  <2> DEFINE w == Head(queue[u])
  <2>1. MessagesOK' /\ QueueOK'
    BY <1>4, <1>5, StoreFacts
  <2>2. CASE w.kind = "recent"
    <3>1. /\ stored' = stored /\ messages' = messages /\ RecentOK(w.uid, w.peer, w.data)
          /\ \A a, b \in Users :
               recent'[a][b] = IF a = w.uid /\ b = w.peer THEN w.data ELSE recent[a][b]
      BY <1>5, <2>2, StoreFacts DEF WriteOK
    <3> QED
      BY <2>1, <3>1 DEF StoredSent, RecentsOK, RecentOK
  <2>3. CASE w.kind # "recent"
    <3>1. /\ recent' = recent /\ messages' = messages /\ w.n \in DOMAIN messages
          /\ \A v \in Users : v # Owner(w) => stored'[v] = stored[v]
          /\ stored'[Owner(w)] = stored[Owner(w)] \cup {w.n}
      BY <1>5, <2>3, StoreFacts
    <3> QED
      BY <2>1, <3>1 DEF StoredSent, RecentsOK
  <2> QED
    BY <2>2, <2>3
<1>6. ASSUME NEW u \in Users, Refuse(u) PROVE Documents'
  BY <1>4, <1>6, RefuseFacts DEF StoredSent, RecentsOK
<1>7. ASSUME messages' = messages, stored' = stored, recent' = recent, queue' = queue PROVE Documents'
  BY <1>7 DEF MessagesOK, StoredSent, QueueOK, RecentsOK, WriteOK, RecentOK
<1>8. ASSUME NEW u \in Users, NotSaved(u) PROVE Documents'
  BY <1>7, <1>8 DEF NotSaved
<1> QED
  BY <1>1, <1>3, <1>5, <1>6, <1>7, <1>8, FirestoreSteps DEF firestore

\* The writes of a phone stay in the order of sending.
LEMMA QueueOrderStep == TypeOK /\ Peers /\ QueueOK /\ QueueOrder /\ [Next]_vars => QueueOrder'
<1> SUFFICES ASSUME TypeOK, Peers, QueueOK, QueueOrder, [Next]_vars
             PROVE  QueueOrder'
  OBVIOUS
<1> DEFINE Ordered(q, i, j) ==
             i < j /\ q[i].kind = q[j].kind /\ q[i].kind # "recent" => q[i].n < q[j].n
<1>1. ASSUME NEW u \in Users,
             \A v \in Users : v # u => queue'[v] = queue[v],
             \A i, j \in DOMAIN queue'[u] : Ordered(queue'[u], i, j)
      PROVE  QueueOrder'
  BY <1>1 DEF QueueOrder
<1>2. ASSUME NEW u \in Users, handleSend(u) PROVE QueueOrder'
  <2> DEFINE n == Len(messages) + 1
  <2>1. ASSUME NEW i \in DOMAIN queue'[u], NEW j \in DOMAIN queue'[u] PROVE Ordered(queue'[u], i, j)
    <3>1. CASE i \in DOMAIN queue[u] /\ j \in DOMAIN queue[u]
      BY <1>2, <3>1, SendFacts DEF QueueOrder
    <3>2. CASE i \in DOMAIN queue[u] /\ j \notin DOMAIN queue[u]
      <4>1. queue[u][i].kind # "recent" => queue[u][i].n \in DOMAIN messages
        BY <3>2 DEF QueueOK, WriteOK
      <4>2. \A m \in DOMAIN messages : m < n
        BY <1>2, SendFacts
      <4>3. queue'[u][i] = queue[u][i] /\ queue'[u][j].n = n
        BY <1>2, <3>2, SendFacts
      <4> QED
        BY <4>1, <4>2, <4>3
    <3>3. CASE i \notin DOMAIN queue[u] /\ j \in DOMAIN queue[u]
      <4>1. i \in Nat /\ j \in Nat /\ j < i
        BY <1>2, <3>3, SendFacts DEF TypeOK
      <4> QED
        BY <4>1
    <3>4. CASE i \notin DOMAIN queue[u] /\ j \notin DOMAIN queue[u]
      <4>1. i = j \/ queue'[u][i].kind # queue'[u][j].kind
        BY <1>2, <3>4, SendFacts
      <4>2. i \in Nat
        BY <1>2, <3>4, SendFacts
      <4> QED
        BY <4>1, <4>2
    <3> QED
      BY <3>1, <3>2, <3>3, <3>4
  <2>2. \A v \in Users : v # u => queue'[v] = queue[v]
    BY <1>2, SendFacts
  <2> QED
    BY <1>1, <2>1, <2>2
<1>3. ASSUME NEW u \in Users, Saved(u) PROVE QueueOrder'
  <2>1. ASSUME NEW i \in DOMAIN queue'[u], NEW j \in DOMAIN queue'[u] PROVE Ordered(queue'[u], i, j)
    <3>1. CASE i \in DOMAIN queue[u] /\ j \in DOMAIN queue[u]
      <4>1. queue'[u][i] = queue[u][i] /\ queue'[u][j] = queue[u][j]
        BY <1>3, <3>1, SavedFacts
      <4> QED
        BY <3>1, <4>1 DEF QueueOrder
    <3>2. CASE i \notin DOMAIN queue[u] \/ j \notin DOMAIN queue[u]
      BY <1>3, <3>2, SavedFacts
    <3> QED
      BY <3>1, <3>2
  <2> QED
    BY <1>1, <1>3, <2>1, SavedFacts
<1>4. ASSUME NEW u \in Users, queue[u] # <<>>, NEW answer, Answer(u, Head(queue[u]), answer)
      PROVE  QueueOrder'
  <2>1. ASSUME NEW i \in DOMAIN queue'[u], NEW j \in DOMAIN queue'[u] PROVE Ordered(queue'[u], i, j)
    <3>1. /\ i \in Nat /\ i + 1 \in DOMAIN queue[u] /\ queue'[u][i] = queue[u][i + 1]
          /\ j \in Nat /\ j + 1 \in DOMAIN queue[u] /\ queue'[u][j] = queue[u][j + 1]
      BY <1>4, AnswerFacts
    <3>2. Ordered(queue[u], i + 1, j + 1)
      BY <3>1 DEF QueueOrder
    <3>3. i < j => i + 1 < j + 1
      BY <3>1
    <3> QED
      BY <3>1, <3>2, <3>3
  <2> QED
    BY <1>1, <1>4, <2>1, AnswerFacts
<1>5. ASSUME queue' = queue PROVE QueueOrder'
  BY <1>5 DEF QueueOrder
<1> QED
  BY <1>2, <1>3, <1>4, <1>5, FirestoreSteps DEF firestore, NotSaved, Store, Refuse

\* Nothing waits that is earlier than what is stored.
LEMMA StoredEarlierStep ==
  TypeOK /\ Peers /\ Documents /\ QueueOrder /\ StoredEarlier /\ [Next]_vars => StoredEarlier'
<1> SUFFICES ASSUME TypeOK, Peers, Documents, QueueOrder, StoredEarlier, [Next]_vars
             PROVE  StoredEarlier'
  OBVIOUS
<1> USE DEF Documents
<1> DEFINE Way(k, n) == messages[k].from = messages[n].from /\ messages[k].to = messages[n].to
<1>1. ASSUME NEW v \in Users, NEW i \in DOMAIN queue[v], queue[v][i].kind # "recent",
             NEW m \in stored[Owner(queue[v][i])], Way(m, queue[v][i].n)
      PROVE  m < queue[v][i].n
  BY <1>1 DEF StoredEarlier, Abstract!SameWay
<1>2. SUFFICES ASSUME NEW v \in Users, NEW i \in DOMAIN queue'[v], queue'[v][i].kind # "recent",
                      NEW m \in stored'[Owner(queue[v][i])'], Way(m, queue[v][i].n)'
               PROVE  m < queue'[v][i].n
  BY DEF StoredEarlier, Abstract!SameWay
<1>3. ASSUME NEW w \in Write, w.kind # "recent", w.n \in DOMAIN messages PROVE Owner(w) \in Users
  <2>1. messages[w.n] \in Message
    BY <1>3 DEF TypeOK
  <2> QED
    BY <2>1 DEF Owner, Message
<1>4. ASSUME NEW k \in DOMAIN queue[v], queue[v][k].kind # "recent"
      PROVE  /\ queue[v][k] \in Write /\ queue[v][k].kind \in {"sender", "recipient"}
             /\ queue[v][k].n \in DOMAIN messages /\ messages[queue[v][k].n].from = v
             /\ Owner(queue[v][k]) \in Users
  <2>1. queue[v][k] \in Write
    BY DEF TypeOK
  <2>2. queue[v][k].n \in DOMAIN messages /\ messages[queue[v][k].n].from = v
    BY <1>4 DEF QueueOK, WriteOK
  <2>3. queue[v][k].kind \in {"sender", "recipient"}
    BY <1>4, <2>1, WriteTypes
  <2> QED
    BY <1>3, <1>4, <2>1, <2>2, <2>3
<1>5. ASSUME NEW u \in Users, handleSend(u) PROVE m < queue'[v][i].n
  <2> DEFINE n == Len(messages) + 1
  <2>1. /\ DOMAIN messages' = DOMAIN messages \cup {n}
        /\ \A k \in DOMAIN messages : k \in Nat /\ k < n /\ messages'[k] = messages[k]
    BY <1>5, SendFacts
  <2>2. stored' = stored
    BY <1>5 DEF handleSend
  <2> HIDE DEF n
  <2>3. CASE i \in DOMAIN queue[v] /\ queue'[v][i] = queue[v][i]
    <3>1. Owner(queue[v][i])' = Owner(queue[v][i])
      BY <1>2, <1>4, <2>1, <2>3 DEF Owner
    <3>2. m \in DOMAIN messages
      BY <1>2, <1>4, <2>2, <2>3, <3>1 DEF StoredSent
    <3> QED
      BY <1>1, <1>2, <1>4, <2>1, <2>2, <2>3, <3>1, <3>2
  <2>4. CASE ~(i \in DOMAIN queue[v] /\ queue'[v][i] = queue[v][i])
    <3>1. v = u /\ i \notin DOMAIN queue[u]
      BY <1>2, <1>5, <2>4, SendFacts
    <3>2. queue'[v][i].n = n /\ messages'[n] = Draft(u)
      BY <1>2, <1>5, <3>1, SendFacts DEF n
    <3>3. Owner(queue[v][i])' \in Users
      <4>1. chatUser[u] \in Users
        BY <1>5 DEF handleSend, Peers, TypeOK
      <4> QED
        BY <3>2, <4>1 DEF Owner, Draft
    <3>4. m \in DOMAIN messages
      BY <1>2, <2>2, <3>3 DEF StoredSent
    <3> QED
      BY <2>1, <3>2, <3>4
  <2> QED
    BY <2>3, <2>4
<1>6. ASSUME NEW j \in DOMAIN queue[v], queue'[v][i] = queue[v][j], messages' = messages
      PROVE  /\ Owner(queue[v][i])' = Owner(queue[v][j])
             /\ m \in stored[Owner(queue[v][j])] => m < queue'[v][i].n
  <2>1. Owner(queue[v][i])' = Owner(queue[v][j])
    BY <1>6 DEF Owner
  <2>2. queue[v][j].kind # "recent" /\ Way(m, queue[v][j].n)
    BY <1>2, <1>6
  <2> QED
    BY <1>1, <1>6, <2>1, <2>2
<1>7. ASSUME NEW u \in Users, Saved(u) PROVE m < queue'[v][i].n
  <2>1. i \in DOMAIN queue[v] /\ queue'[v][i] = queue[v][i]
    BY <1>2, <1>7, SavedFacts
  <2> QED
    BY <1>2, <1>6, <1>7, <2>1 DEF Saved
<1>8. ASSUME NEW u \in Users, queue[u] # <<>>, NEW answer, Answer(u, Head(queue[u]), answer)
      PROVE  \E j \in DOMAIN queue[v] : queue'[v][i] = queue[v][j] /\ (v = u => j \in Nat /\ j > 1)
  <2>1. CASE v = u
    <3>1. i \in Nat /\ i + 1 \in DOMAIN queue[v] /\ queue'[v][i] = queue[v][i + 1]
      BY <1>8, <2>1, AnswerFacts
    <3>2. i \in DOMAIN queue'[v] => i >= 1
      <4>1. Tail(queue[v]) \in Seq(Write) /\ queue'[v] = Tail(queue[v])
        BY <1>8, <2>1, Dequeued DEF Answer, TypeOK
      <4> QED
        BY <4>1
    <3> QED
      BY <3>1, <3>2
  <2>2. CASE v # u
    BY <1>8, <2>2, AnswerFacts
  <2> QED
    BY <2>1, <2>2
<1>9. ASSUME NEW u \in Users, Refuse(u) PROVE m < queue'[v][i].n
  BY <1>2, <1>6, <1>8, <1>9, RefuseFacts
<1>10. ASSUME NEW u \in Users, Store(u) PROVE m < queue'[v][i].n
  <2> DEFINE w == Head(queue[u])
  <2>1. /\ queue[u] # <<>> /\ Answer(u, w, "saved") /\ messages' = messages
        /\ 1 \in DOMAIN queue[u] /\ w = queue[u][1]
    BY <1>10, StoreFacts, AnswerFacts
  <2>2. PICK j \in DOMAIN queue[v] : queue'[v][i] = queue[v][j] /\ (v = u => j \in Nat /\ j > 1)
    BY <1>8, <2>1
  <2> DEFINE x == queue[v][j]
  <2>3. /\ x.kind \in {"sender", "recipient"} /\ x.n \in DOMAIN messages /\ messages[x.n].from = v
        /\ Owner(x) \in Users /\ m \in stored'[Owner(x)] /\ Way(m, x.n)
        /\ m \in stored[Owner(x)] => m < x.n
    BY <1>2, <1>4, <1>6, <2>1, <2>2
  <2>4. CASE m \in stored[Owner(x)]
    BY <2>2, <2>3, <2>4
  <2>5. CASE m \notin stored[Owner(x)]
    <3>1. /\ w.kind \in {"sender", "recipient"} /\ m = w.n /\ Owner(w) = Owner(x)
          /\ w.n \in DOMAIN messages /\ messages[w.n].from = u
      BY <1>10, <2>3, <2>5, StoreFacts
    <3>2. v = u /\ w.kind = x.kind
      BY <2>3, <3>1 DEF Owner, MessagesOK
    <3> QED
      BY <2>1, <2>2, <3>1, <3>2 DEF QueueOrder
  <2> QED
    BY <2>4, <2>5
<1>11. ASSUME queue' = queue, messages' = messages, stored' = stored PROVE m < queue'[v][i].n
  BY <1>2, <1>6, <1>11
<1> QED
  BY <1>5, <1>7, <1>9, <1>10, <1>11, FirestoreSteps DEF firestore, NotSaved

-----------------------------------------------------------------------------
(***************************************************************************)
(* Drafts.                                                                 *)
(***************************************************************************)
\* Messages, copies and haste are never taken back.
LEMMA Growth ==
  ASSUME TypeOK, QueueOK, [Next]_vars
  PROVE  /\ \A n \in DOMAIN messages : n \in DOMAIN messages' /\ messages'[n] = messages[n]
         /\ hasty \subseteq hasty'
         /\ \A v \in Users : stored[v] \subseteq stored'[v]
<1>1. ASSUME NEW u \in Users, handleSend(u)
      PROVE  \A n \in DOMAIN messages : n \in DOMAIN messages' /\ messages'[n] = messages[n]
  BY <1>1, SendFacts
<1>2. messages' = messages \/ \E u \in Users : handleSend(u)
  BY FirestoreSteps DEF firestore, Saved, NotSaved, Store, Refuse
<1>3. ASSUME NEW u \in Users, Store(u) PROVE \A v \in Users : stored[v] \subseteq stored'[v]
  BY <1>3, StoreFacts
<1>4. stored' = stored \/ \E u \in Users : Store(u)
  BY FirestoreSteps DEF firestore, handleSend, Saved, NotSaved, Refuse
<1>5. hasty \subseteq hasty'
  BY OnlineAssumption
  DEF Next, Idle, vars, NoteHaste, OpenNew, OpenRecent, Opening, Type, Leave, SwitchTab, handleSend, Saved, NotSaved,
      Store, Refuse, MessagesAdded, ListenerFails
<1> QED
  BY <1>1, <1>2, <1>3, <1>4, <1>5

\* Who acts and is still not hasty has nothing on its way.
LEMMA Patience ==
  ASSUME NEW u, NoteHaste(u), u \notin hasty'
  PROVE  acks[u] = <<>> /\ \A i \in DOMAIN queue[u] : queue[u][i].kind # "sender"
  BY DEF NoteHaste, Sending

\* The only answer is the last one.
LEMMA LastAnswer ==
  ASSUME TypeOK, OneSending, NEW u \in Users \ hasty, acks[u] # <<>>
  PROVE  Tail(acks[u]) = <<>>
<1>1. acks[u] \in Seq({"saved", "error"}) /\ Len(acks[u]) <= 1
  BY DEF TypeOK, OneSending
<1>2. ASSUME NEW S, NEW q \in Seq(S), q # <<>> PROVE Len(q) # 0 /\ Len(q) \in Nat
  BY <1>2
<1>3. ASSUME NEW S, NEW q \in Seq(S), q # <<>>
      PROVE  Tail(q) \in Seq(S) /\ Len(Tail(q)) = Len(q) - 1
  BY <1>2, <1>3
<1>4. Len(acks[u]) = 1
  <2>1. Len(acks[u]) # 0 /\ Len(acks[u]) \in Nat
    BY <1>1, <1>2
  <2>2. \A k \in Nat : k # 0 /\ k <= 1 => k = 1
    OBVIOUS
  <2> QED
    BY <1>1, <2>1, <2>2
<1>5. Tail(acks[u]) \in Seq({"saved", "error"}) /\ Len(Tail(acks[u])) = 0
  BY <1>1, <1>3, <1>4
<1> QED
  BY <1>2, <1>5

\* The handlers and the server: who has waited, has one message at most on its
\* way after the step, too.
LEMMA OneSendingStep == TypeOK /\ Peers /\ QueueOK /\ OneSending /\ [Next]_vars => OneSending'
<1> SUFFICES ASSUME TypeOK, Peers, QueueOK, OneSending, [Next]_vars
             PROVE  OneSending'
  OBVIOUS
<1> DEFINE One(a, q) ==
             /\ Len(a) <= 1
             /\ a # <<>> => \A i \in DOMAIN q : q[i].kind # "sender"
             /\ \A i, j \in DOMAIN q : q[i].kind = "sender" /\ q[j].kind = "sender" => i = j
<1>1. ASSUME NEW u \in Users,
             \A v \in Users : v # u => queue'[v] = queue[v] /\ acks'[v] = acks[v],
             u \notin hasty' => One(acks'[u], queue'[u])
      PROVE  OneSending'
  BY <1>1, Growth DEF OneSending
<1>2. ASSUME NEW u \in Users \ hasty PROVE One(acks[u], queue[u])
  BY <1>2 DEF OneSending
<1>3. ASSUME NEW u \in Users, handleSend(u) PROVE OneSending'
  <2>1. acks' = acks /\ NoteHaste(u)
    BY <1>3 DEF handleSend
  <2>2. ASSUME u \notin hasty' PROVE One(acks'[u], queue'[u])
    <3>1. acks[u] = <<>> /\ \A i \in DOMAIN queue[u] : queue[u][i].kind # "sender"
      BY <2>1, <2>2, Patience
    <3>2. \A i \in DOMAIN queue'[u] : queue'[u][i].kind = "sender" => i = Len(queue[u]) + 1
      BY <1>3, <3>1, SendFacts
    <3>3. acks'[u] = <<>> /\ Len(acks'[u]) <= 1
      BY <2>1, <3>1
    <3> QED
      BY <3>2, <3>3
  <2> QED
    BY <1>1, <1>3, <2>1, <2>2, SendFacts
<1>4. ASSUME NEW u \in Users \ hasty, acks[u] # <<>> , acks'[u] = Tail(acks[u]),
             \A i \in DOMAIN queue'[u] : queue'[u][i].kind = "sender" => i \in DOMAIN queue[u] /\ queue'[u][i] = queue[u][i]
      PROVE  One(acks'[u], queue'[u])
  <2>1. acks'[u] = <<>>
    BY <1>4, LastAnswer
  <2>2. Len(acks'[u]) <= 1
    BY <2>1
  <2>3. \A i \in DOMAIN queue'[u] : queue'[u][i].kind # "sender"
    BY <1>2, <1>4
  <2> QED
    BY <2>1, <2>2, <2>3
<1>5. ASSUME NEW u \in Users, Saved(u) PROVE OneSending'
  <2>1. /\ acks[u] # <<>> /\ acks'[u] = Tail(acks[u])
        /\ \A i \in DOMAIN queue'[u] :
             queue'[u][i].kind = "sender" => i \in DOMAIN queue[u] /\ queue'[u][i] = queue[u][i]
        /\ \A v \in Users : v # u => queue'[v] = queue[v] /\ acks'[v] = acks[v]
    BY <1>5, SavedFacts
  <2> QED
    BY <1>1, <1>4, <2>1, Growth
<1>6. ASSUME NEW u \in Users, NotSaved(u) PROVE OneSending'
  <2>1. /\ acks[u] # <<>> /\ acks'[u] = Tail(acks[u]) /\ queue' = queue
        /\ \A v \in Users : v # u => acks'[v] = acks[v]
    BY <1>6 DEF NotSaved, TypeOK
  <2> QED
    BY <1>1, <1>4, <2>1, Growth
<1>7. ASSUME NEW u \in Users, queue[u] # <<>>, NEW answer \in {"saved", "error"},
             Answer(u, Head(queue[u]), answer)
      PROVE  OneSending'
  <2> DEFINE w == Head(queue[u])
  <2>1. /\ 1 \in DOMAIN queue[u] /\ w = queue[u][1]
        /\ \A v \in Users : v # u => queue'[v] = queue[v] /\ acks'[v] = acks[v]
        /\ acks'[u] = IF w.kind = "sender" THEN Append(acks[u], answer) ELSE acks[u]
    BY <1>7, AnswerFacts
  <2>2. \A i \in DOMAIN queue'[u] :
          i \in Nat /\ i + 1 \in DOMAIN queue[u] /\ queue'[u][i] = queue[u][i + 1]
    BY <1>7, AnswerFacts
  <2>3. \A i \in DOMAIN queue'[u] : i >= 1
    <3>1. Tail(queue[u]) \in Seq(Write) /\ queue'[u] = Tail(queue[u])
      BY <1>7, Dequeued DEF Answer, TypeOK
    <3> QED
      BY <3>1
  <2> HIDE DEF w
  <2>4. ASSUME u \notin hasty', w.kind = "sender" PROVE One(acks'[u], queue'[u])
    <3>1. One(acks[u], queue[u])
      BY <1>2, <2>4, Growth
    <3>2. acks[u] = <<>>
      BY <2>1, <2>4, <3>1
    <3>3. Len(acks'[u]) <= 1
      BY <2>1, <2>4, <3>2
    <3>4. \A i \in DOMAIN queue'[u] : i + 1 # 1
      BY <2>2, <2>3
    <3>5. \A i \in DOMAIN queue'[u] : queue'[u][i].kind # "sender"
      BY <2>1, <2>2, <2>4, <3>1, <3>4
    <3> QED
      BY <3>3, <3>5
  <2>5. ASSUME u \notin hasty', w.kind # "sender" PROVE One(acks'[u], queue'[u])
    <3>1. One(acks[u], queue[u])
      BY <1>2, <2>5, Growth
    <3>2. acks'[u] = acks[u]
      BY <2>1, <2>5
    <3>3. ASSUME NEW i \in DOMAIN queue'[u], NEW j \in DOMAIN queue'[u],
                 queue'[u][i].kind = "sender", queue'[u][j].kind = "sender"
          PROVE  i = j
      <4>1. i + 1 = j + 1
        BY <2>2, <3>1, <3>3
      <4> QED
        BY <2>2, <4>1
    <3> QED
      BY <2>2, <3>1, <3>2, <3>3
  <2> QED
    BY <1>1, <2>1, <2>4, <2>5
<1>8. ASSUME queue' = queue, acks' = acks PROVE OneSending'
  BY <1>8, Growth DEF OneSending
<1> QED
  BY <1>3, <1>5, <1>6, <1>7, <1>8, FirestoreSteps DEF firestore, Store, Refuse

\* What is on its way of somebody who waits stays what the text field holds.
LEMMA SendingDraftStep ==
  TypeOK /\ Peers /\ Documents /\ OneSending /\ SendingDraft /\ [Next]_vars => SendingDraft'
<1> SUFFICES ASSUME TypeOK, Peers, Documents, OneSending, SendingDraft, [Next]_vars,
                    NEW v \in Users, v \notin hasty'
             PROVE  /\ \A i \in DOMAIN queue'[v] :
                         queue'[v][i].kind = "sender" => messages'[queue'[v][i].n] = Draft(v)'
                    /\ acks'[v] # <<>> /\ Head(acks'[v]) = "saved"
                         => \E n \in stored'[v] : messages'[n] = Draft(v)'
  BY DEF SendingDraft
<1> DEFINE Drafted ==
             /\ \A i \in DOMAIN queue[v] : queue[v][i].kind = "sender" => messages[queue[v][i].n] = Draft(v)
             /\ acks[v] # <<>> /\ Head(acks[v]) = "saved" => \E n \in stored[v] : messages[n] = Draft(v)
<1>1. v \notin hasty /\ Drafted
  BY Growth DEF Documents, SendingDraft
<1>2. /\ \A n \in DOMAIN messages : messages'[n] = messages[n]
      /\ stored[v] \subseteq stored'[v] /\ stored[v] \subseteq DOMAIN messages
  BY Growth DEF Documents, StoredSent
<1>3. \A i \in DOMAIN queue[v] : queue[v][i].kind = "sender" => queue[v][i].n \in DOMAIN messages
  BY DEF Documents, QueueOK, WriteOK
\* The phone of another user, or one whose user does nothing.
<1>4. ASSUME Draft(v)' = Draft(v), queue'[v] = queue[v], acks'[v] = acks[v] PROVE Drafted'
  BY <1>1, <1>2, <1>3, <1>4
\* The user acts with nothing on its way.
<1>5. ASSUME NoteHaste(v), queue'[v] = queue[v], acks'[v] = acks[v] PROVE Drafted'
  <2>1. acks[v] = <<>> /\ \A i \in DOMAIN queue[v] : queue[v][i].kind # "sender"
    BY <1>5, Patience
  <2> QED
    BY <1>5, <2>1
<1>6. ASSUME NEW u \in Users, NoteHaste(u), UNCHANGED firestore,
             \A x \in Users : x # u => chatUser'[x] = chatUser[x] /\ chatText'[x] = chatText[x]
      PROVE  Drafted'
  <2>1. CASE v = u
    BY <1>5, <1>6, <2>1 DEF firestore
  <2>2. CASE v # u
    BY <1>4, <1>6, <2>2 DEF firestore, Draft
  <2> QED
    BY <2>1, <2>2
<1>7. ASSUME NEW u \in Users, NEW peer \in Users, OpenNew(u, peer) \/ OpenRecent(u, peer) PROVE Drafted'
  BY <1>6, <1>7 DEF OpenNew, OpenRecent, Opening, fetchMessages, TypeOK
<1>8. ASSUME NEW u \in Users, NEW text \in Texts, Type(u, text) PROVE Drafted'
  BY <1>6, <1>8 DEF Type, TypeOK
<1>9. ASSUME NEW u \in Users, Leave(u) \/ SwitchTab(u) \/ MessagesAdded(u) \/ ListenerFails(u) PROVE Drafted'
  BY <1>4, <1>9 DEF Leave, SwitchTab, MessagesAdded, ListenerFails, firestore, Draft
<1>10. ASSUME NEW u \in Users, handleSend(u) PROVE Drafted'
  <2>1. UNCHANGED <<viewModel, acks>> /\ NoteHaste(u) /\ Draft(v)' = Draft(v)
    BY <1>10 DEF handleSend, viewModel, Draft
  <2>2. CASE v = u
    <3>1. acks[u] = <<>> /\ \A i \in DOMAIN queue[u] : queue[u][i].kind # "sender"
      BY <2>1, <2>2, Patience
    <3>2. \A i \in DOMAIN queue'[u] : queue'[u][i].kind = "sender" => messages'[queue'[u][i].n] = Draft(u)
      BY <1>10, <3>1, SendFacts
    <3> QED
      BY <2>1, <2>2, <3>1, <3>2
  <2>3. CASE v # u
    BY <1>4, <1>10, <2>1, <2>3, SendFacts
  <2> QED
    BY <2>2, <2>3
<1>11. ASSUME acks[v] # <<>>, acks'[v] = Tail(acks[v]),
              \A i \in DOMAIN queue'[v] : queue'[v][i].kind = "sender" => i \in DOMAIN queue[v] /\ queue'[v][i] = queue[v][i]
       PROVE  Drafted'
  <2>1. acks'[v] = <<>>
    BY <1>1, <1>11, LastAnswer
  <2>2. \A i \in DOMAIN queue[v] : queue[v][i].kind # "sender"
    BY <1>1, <1>11 DEF OneSending
  <2> QED
    BY <1>11, <2>1, <2>2
<1>12. ASSUME NEW u \in Users, Saved(u) PROVE Drafted'
  <2>1. CASE v = u
    BY <1>11, <1>12, <2>1, SavedFacts
  <2>2. CASE v # u
    <3>1. Draft(v)' = Draft(v)
      BY <1>12, <2>2 DEF Saved, Draft, TypeOK
    <3> QED
      BY <1>4, <1>12, <2>2, <3>1, SavedFacts
  <2> QED
    BY <2>1, <2>2
<1>13. ASSUME NEW u \in Users, NotSaved(u) PROVE Drafted'
  <2>1. UNCHANGED <<queue, viewModel>> /\ acks[u] # <<>> /\ acks' = [acks EXCEPT ![u] = Tail(@)]
    BY <1>13 DEF NotSaved
  <2>2. Draft(v)' = Draft(v)
    BY <2>1 DEF Draft, viewModel
  <2> QED
    BY <1>4, <1>11, <2>1, <2>2 DEF TypeOK
<1>14. ASSUME NEW u \in Users, NEW answer \in {"saved", "error"}, queue[u] # <<>>,
              Answer(u, Head(queue[u]), answer), UNCHANGED <<messages, viewModel>>,
              Head(queue[u]).kind = "sender" /\ answer = "saved" => Head(queue[u]).n \in stored'[u]
       PROVE  Drafted'
  <2> DEFINE w == Head(queue[u])
  <2>1. Draft(v)' = Draft(v)
    BY <1>14 DEF Draft, viewModel
  <2>2. /\ 1 \in DOMAIN queue[u] /\ w = queue[u][1]
        /\ \A x \in Users : x # u => queue'[x] = queue[x] /\ acks'[x] = acks[x]
        /\ acks'[u] = IF w.kind = "sender" THEN Append(acks[u], answer) ELSE acks[u]
        /\ \A i \in DOMAIN queue'[u] : i + 1 \in DOMAIN queue[u] /\ queue'[u][i] = queue[u][i + 1]
    BY <1>14, AnswerFacts
  <2>3. CASE v # u
    BY <1>4, <2>1, <2>2, <2>3
  <2>4. v = u => \A i \in DOMAIN queue'[v] :
                   queue'[v][i].kind = "sender" => messages'[queue'[v][i].n] = Draft(v)'
    BY <1>1, <1>14, <2>1, <2>2
  <2>5. CASE v = u /\ w.kind # "sender"
    BY <1>1, <1>2, <1>14, <2>1, <2>2, <2>4, <2>5
  <2>6. CASE v = u /\ w.kind = "sender"
    <3>1. messages[w.n] = Draft(v) /\ acks[v] = <<>>
      BY <1>1, <2>2, <2>6 DEF OneSending
    <3>2. Head(acks'[v]) = answer
      BY <2>2, <2>6, <3>1
    <3> QED
      BY <1>14, <2>1, <2>4, <2>6, <3>1, <3>2
  <2> QED
    BY <2>3, <2>5, <2>6
<1>15. ASSUME NEW u \in Users, Store(u) PROVE Drafted'
  <2> DEFINE w == Head(queue[u])
  <2>1. w.kind = "sender" => w.n \in stored'[u]
    <3>1. w.kind = "sender" => Owner(w) = u
      BY <1>15, StoreFacts DEF Owner, Documents
    <3> QED
      BY <1>15, <3>1, StoreFacts DEF Documents
  <2> QED
    BY <1>14, <1>15, <2>1, StoreFacts DEF Documents
<1>16. ASSUME NEW u \in Users, Refuse(u) PROVE Drafted'
  BY <1>14, <1>16, RefuseFacts
<1>17. CASE UNCHANGED vars
  BY <1>4, <1>17 DEF vars, firestore, viewModel, Draft
<1>18. Drafted'
  BY <1>7, <1>8, <1>9, <1>10, <1>12, <1>13, <1>15, <1>16, <1>17, OnlineAssumption DEF Next, Idle
<1> QED
  BY <1>18

\* What somebody who waits has recorded, and will have recorded, was sent.
LEMMA RecentWasSentStep ==
  TypeOK /\ Peers /\ Documents /\ SendingDraft /\ RecentWasSent /\ QueuedWasSent /\ [Next]_vars
    => RecentWasSent' /\ QueuedWasSent'
<1> SUFFICES ASSUME TypeOK, Peers, Documents, SendingDraft, RecentWasSent, QueuedWasSent, [Next]_vars
             PROVE  RecentWasSent' /\ QueuedWasSent'
  OBVIOUS
<1> USE DEF Documents
<1>1. hasty \subseteq hasty' /\ \A n \in DOMAIN messages : n \in DOMAIN messages' /\ messages'[n] = messages[n]
  BY Growth
<1>2. ASSUME NEW data, WasSent(data)
      PROVE  \E n \in DOMAIN messages' : messages'[n] = [from |-> data.from, to |-> data.to, text |-> data.text]
  BY <1>1, <1>2 DEF WasSent
<1>3. ASSUME \A u \in Users \ hasty : \A i \in DOMAIN queue'[u] :
               queue'[u][i].kind = "recent" => WasSent(queue'[u][i].data)
      PROVE  QueuedWasSent'
  BY <1>1, <1>2, <1>3 DEF QueuedWasSent, WasSent
<1>4. ASSUME \A u, peer \in Users :
               recent'[u][peer] # NoRecent /\ recent'[u][peer].from \notin hasty => WasSent(recent'[u][peer])
      PROVE  RecentWasSent'
  BY <1>1, <1>2, <1>4 DEF RecentWasSent
<1>5. ASSUME recent' = recent PROVE RecentWasSent'
  BY <1>4, <1>5 DEF RecentWasSent, WasSent
<1>6. ASSUME NEW u \in Users, handleSend(u) PROVE RecentWasSent' /\ QueuedWasSent'
  <2>1. recent' = recent
    BY <1>6 DEF handleSend
  <2>2. ASSUME NEW v \in Users \ hasty, NEW i \in DOMAIN queue'[v], queue'[v][i].kind = "recent"
        PROVE  i \in DOMAIN queue[v] /\ queue'[v][i] = queue[v][i]
    BY <1>6, <2>2, SendFacts
  <2> QED
    BY <1>3, <1>5, <2>1, <2>2 DEF QueuedWasSent
<1>7. ASSUME NEW u \in Users, Saved(u) PROVE RecentWasSent' /\ QueuedWasSent'
  <2>1. recent' = recent
    BY <1>7 DEF Saved
  <2>2. ASSUME NEW v \in Users \ hasty, NEW i \in DOMAIN queue'[v], queue'[v][i].kind = "recent"
        PROVE  WasSent(queue'[v][i].data)
    <3>1. CASE i \in DOMAIN queue[v] /\ queue'[v][i] = queue[v][i]
      BY <2>2, <3>1 DEF QueuedWasSent
    <3>2. CASE ~(i \in DOMAIN queue[v] /\ queue'[v][i] = queue[v][i])
      <4>1. /\ v = u /\ acks[u] # <<>> /\ Head(acks[u]) = "saved"
            /\ queue'[v][i].data = [text |-> chatText[u], from |-> u, to |-> chatUser[u]]
        BY <1>7, <2>2, <3>2, SavedFacts
      <4>2. PICK n \in stored[u] : messages[n] = Draft(u)
        BY <2>2, <4>1 DEF SendingDraft
      <4>3. n \in DOMAIN messages
        BY DEF StoredSent
      <4> QED
        BY <4>1, <4>2, <4>3 DEF WasSent, Draft
    <3> QED
      BY <3>1, <3>2
  <2> QED
    BY <1>3, <1>5, <2>1, <2>2
<1>8. ASSUME NEW u \in Users, queue[u] # <<>>, NEW answer, Answer(u, Head(queue[u]), answer)
      PROVE  QueuedWasSent'
  <2>1. ASSUME NEW v \in Users \ hasty, NEW i \in DOMAIN queue'[v]
        PROVE  \E j \in DOMAIN queue[v] : queue'[v][i] = queue[v][j]
    <3>1. CASE v = u
      <4>1. i + 1 \in DOMAIN queue[u] /\ queue'[u][i] = queue[u][i + 1]
        BY <1>8, <3>1, AnswerFacts
      <4> QED
        BY <3>1, <4>1
    <3>2. CASE v # u
      BY <1>8, <3>2, AnswerFacts
    <3> QED
      BY <3>1, <3>2
  <2> QED
    BY <1>3, <2>1 DEF QueuedWasSent
<1>9. ASSUME NEW u \in Users, Store(u) PROVE RecentWasSent' /\ QueuedWasSent'
  <2> DEFINE w == Head(queue[u])
  <2>1. QueuedWasSent'
    BY <1>8, <1>9, StoreFacts
  <2>2. CASE w.kind # "recent"
    BY <1>5, <1>9, <2>1, <2>2, StoreFacts
  <2>3. CASE w.kind = "recent"
    <3>1. /\ w.data.from = u /\ 1 \in DOMAIN queue[u] /\ w = queue[u][1]
          /\ \A a, b \in Users :
               recent'[a][b] = IF a = w.uid /\ b = w.peer THEN w.data ELSE recent[a][b]
      BY <1>9, <2>3, StoreFacts, AnswerFacts DEF WriteOK
    <3>2. u \notin hasty => WasSent(w.data)
      BY <2>3, <3>1 DEF QueuedWasSent
    <3>3. ASSUME NEW a \in Users, NEW b \in Users,
                 recent'[a][b] # NoRecent, recent'[a][b].from \notin hasty
          PROVE  WasSent(recent'[a][b])
      <4>1. CASE a = w.uid /\ b = w.peer
        BY <3>1, <3>2, <3>3, <4>1
      <4>2. CASE ~(a = w.uid /\ b = w.peer)
        BY <3>1, <3>3, <4>2 DEF RecentWasSent, WasSent
      <4> QED
        BY <4>1, <4>2
    <3> QED
      BY <1>4, <2>1, <3>3
  <2> QED
    BY <2>2, <2>3
<1>10. ASSUME NEW u \in Users, Refuse(u) PROVE RecentWasSent' /\ QueuedWasSent'
  BY <1>5, <1>8, <1>10, RefuseFacts
<1>11. ASSUME recent' = recent, queue' = queue PROVE RecentWasSent' /\ QueuedWasSent'
  BY <1>3, <1>5, <1>11 DEF QueuedWasSent
<1> QED
  BY <1>6, <1>7, <1>9, <1>10, <1>11, FirestoreSteps DEF firestore, NotSaved

-----------------------------------------------------------------------------
(***************************************************************************)
(* The messages on the screen.                                             *)
(***************************************************************************)
\* What is to be shown is a message of the conversation, and the copy of the
\* server if it is somebody else's.
LEMMA NewKnown ==
  ASSUME TypeOK, StoredSent, QueueOK, NEW u \in Users, NEW n \in New(u)
  PROVE  /\ n \in DOMAIN messages /\ n \in Nat /\ Between(u, chatUser[u], n) /\ n \notin Shown(u)
         /\ messages[n].from # u => n \in stored[u]
<1>1. n \in stored[u] \cup Waiting(u) /\ Between(u, chatUser[u], n) /\ n \notin Shown(u)
  BY DEF New, Visible
<1>2. ASSUME n \in Waiting(u) PROVE n \in DOMAIN messages /\ messages[n].from = u
  BY <1>2 DEF Waiting, QueueOK, WriteOK
<1>3. n \in DOMAIN messages
  BY <1>1, <1>2 DEF StoredSent
<1>4. n \in Nat
  BY NewType DEF Numbers
<1> QED
  BY <1>1, <1>2, <1>3, <1>4

\* A conversation is opened, a message is shown, or the screens stay as they are.
LEMMA LogSteps ==
  ASSUME [Next]_vars
  PROVE  \/ \E u \in Users : \E peer : fetchMessages(u, peer) /\ UNCHANGED firestore
         \/ \E u \in Users : MessagesAdded(u)
         \/ UNCHANGED <<chatUser, chatMessages>>
  BY OnlineAssumption
  DEF Next, Idle, vars, viewModel, OpenNew, OpenRecent, Type, Leave, SwitchTab, handleSend, Saved, NotSaved, Store,
      Refuse, ListenerFails

\* The listener appends the first of what is new.
LEMMA AddedFacts ==
  ASSUME TypeOK, NEW u \in Users, MessagesAdded(u)
  PROVE  /\ UNCHANGED <<firestore, chatUser>>
         /\ \A v \in Users : v # u => chatMessages'[v] = chatMessages[v]
         /\ \E n \in New(u) :
              /\ \A m \in New(u) : n <= m
              /\ DOMAIN chatMessages'[u] = DOMAIN chatMessages[u] \cup {Len(chatMessages[u]) + 1}
              /\ \A i \in DOMAIN chatMessages[u] :
                   i \in Nat /\ i < Len(chatMessages[u]) + 1 /\ chatMessages'[u][i] = chatMessages[u][i]
              /\ chatMessages'[u][Len(chatMessages[u]) + 1] = n
              /\ Len(chatMessages[u]) \in Nat
              /\ Shown(u)' = Shown(u) \cup {n}
<1>1. PICK n \in New(u) :
        (\A m \in New(u) : n <= m) /\ chatMessages' = [chatMessages EXCEPT ![u] = Append(@, n)]
  BY DEF MessagesAdded
<1>2. UNCHANGED <<firestore, chatUser>>
  BY DEF MessagesAdded
<1>3. chatMessages[u] \in Seq(Numbers) /\ n \in Numbers
  BY NewType DEF TypeOK
<1>4. /\ chatMessages'[u] = Append(chatMessages[u], n)
      /\ \A v \in Users : v # u => chatMessages'[v] = chatMessages[v]
  BY <1>1 DEF TypeOK
<1>5. /\ DOMAIN chatMessages'[u] = DOMAIN chatMessages[u] \cup {Len(chatMessages[u]) + 1}
      /\ \A i \in DOMAIN chatMessages[u] :
           i \in Nat /\ i < Len(chatMessages[u]) + 1 /\ chatMessages'[u][i] = chatMessages[u][i]
      /\ chatMessages'[u][Len(chatMessages[u]) + 1] = n
      /\ Len(chatMessages[u]) \in Nat
  BY <1>3, <1>4, Appended
<1>6. Shown(u)' = Shown(u) \cup {n}
  BY <1>5 DEF Shown
<1> QED
  BY <1>1, <1>2, <1>4, <1>5, <1>6

\* What a step of Firestore adds to what is to be shown comes later than what
\* is shown of the same sender.
LEMMA NewLater ==
  ASSUME TypeOK, Peers, Documents, StoredEarlier, LogKnown, [Next]_vars,
         UNCHANGED <<chatUser, chatMessages>>,
         NEW u \in Users, NEW m \in Shown(u), NEW n \in New(u)', n \notin New(u),
         messages[m].from = messages'[n].from
  PROVE  m < n
<1> USE DEF Documents
<1>1. m \in DOMAIN messages /\ Between(u, chatUser[u], m) /\ (messages[m].from # u => m \in stored[u])
  BY DEF LogKnown
<1>2. n \notin Shown(u) /\ Between(u, chatUser[u], n)' /\ n \in stored'[u] \cup Waiting(u)'
  BY DEF New, Visible, Shown
<1>3. ASSUME messages' = messages PROVE n \notin stored[u] /\ n \notin Waiting(u)
  BY <1>2, <1>3 DEF New, Visible, Between
<1>4. ASSUME NEW i \in DOMAIN queue'[u], NEW j \in DOMAIN queue[u],
             queue'[u][i] = queue[u][j], queue'[u][i].kind = "sender", queue'[u][i].n = n
      PROVE  n \in Waiting(u)
  BY <1>4 DEF Waiting
<1>5. n \in stored'[u] \/ \E i \in DOMAIN queue'[u] : queue'[u][i].kind = "sender" /\ queue'[u][i].n = n
  BY <1>2 DEF Waiting
<1>6. ASSUME NEW v \in Users, handleSend(v) PROVE m < n
  <2> DEFINE k == Len(messages) + 1
  <2>1. stored' = stored /\ \A x \in DOMAIN messages : x < k /\ messages'[x] = messages[x]
    BY <1>6, SendFacts DEF handleSend
  <2>2. n \in stored[u] \cup Waiting(u) => n \in DOMAIN messages
    BY DEF StoredSent, Waiting, QueueOK, WriteOK
  <2>3. n \notin stored[u] \cup Waiting(u)
    BY <1>2, <2>1, <2>2 DEF New, Visible, Between
  <2>4. PICK i \in DOMAIN queue'[u] : queue'[u][i].kind = "sender" /\ queue'[u][i].n = n
    BY <1>5, <2>1, <2>3
  <2>5. i \notin DOMAIN queue[u] \/ queue'[u][i] # queue[u][i]
    BY <1>4, <2>3, <2>4
  <2>6. n = k
    BY <1>6, <2>4, <2>5, SendFacts
  <2> QED
    BY <1>1, <2>1, <2>6
<1>7. ASSUME NEW v \in Users, Saved(v) PROVE FALSE
  <2>1. messages' = messages /\ stored' = stored
    BY <1>7 DEF Saved
  <2>2. PICK i \in DOMAIN queue'[u] : queue'[u][i].kind = "sender" /\ queue'[u][i].n = n
    BY <1>3, <1>5, <2>1
  <2>3. i \in DOMAIN queue[u] /\ queue'[u][i] = queue[u][i]
    BY <1>7, <2>2, SavedFacts
  <2> QED
    BY <1>3, <1>4, <2>1, <2>2, <2>3
<1>8. ASSUME NEW v \in Users, queue[v] # <<>>, NEW answer, Answer(v, Head(queue[v]), answer), messages' = messages
      PROVE  n \in stored'[u]
  <2>1. SUFFICES ASSUME n \notin stored'[u] PROVE FALSE
    OBVIOUS
  <2>2. PICK i \in DOMAIN queue'[u] : queue'[u][i].kind = "sender" /\ queue'[u][i].n = n
    BY <1>5, <2>1
  <2>3. PICK j \in DOMAIN queue[u] : queue'[u][i] = queue[u][j]
    <3>1. CASE v = u
      <4>1. i + 1 \in DOMAIN queue[u] /\ queue'[u][i] = queue[u][i + 1]
        BY <1>8, <2>2, <3>1, AnswerFacts
      <4> QED
        BY <4>1
    <3>2. CASE v # u
      BY <1>8, <2>2, <3>2, AnswerFacts
    <3> QED
      BY <3>1, <3>2
  <2> QED
    BY <1>3, <1>4, <1>8, <2>2, <2>3
<1>9. ASSUME NEW v \in Users, Refuse(v) PROVE FALSE
  BY <1>3, <1>8, <1>9, RefuseFacts
<1>10. ASSUME NEW v \in Users, Store(v) PROVE m < n
  <2> DEFINE w == Head(queue[v])
  <2>1. messages' = messages /\ n \in stored'[u] /\ n \notin stored[u] /\ n \notin Waiting(u)
    BY <1>3, <1>8, <1>10, StoreFacts
  <2>2. /\ w.kind \in {"sender", "recipient"} /\ w.n = n /\ Owner(w) = u
        /\ w.n \in DOMAIN messages /\ messages[w.n].from = v
        /\ 1 \in DOMAIN queue[v] /\ w = queue[v][1]
    <3>1. queue[v] # <<>> /\ Answer(v, w, "saved")
      BY <1>10, StoreFacts
    <3>2. 1 \in DOMAIN queue[v] /\ w = queue[v][1]
      BY <3>1, AnswerFacts
    <3> QED
      BY <1>10, <2>1, <3>2, StoreFacts
  <2>3. w.kind = "recipient" /\ messages[n].to = u /\ v # u
    <3>1. w.kind # "sender"
      BY <2>1, <2>2 DEF Owner, Waiting
    <3> QED
      BY <2>2, <3>1 DEF Owner, MessagesOK
  <2>4. messages[m].from = v /\ m \in stored[u]
    BY <1>1, <2>1, <2>2, <2>3
  <2>5. messages[m].to = u
    BY <1>1, <2>3, <2>4 DEF Between
  <2> QED
    BY <2>2, <2>3, <2>4, <2>5 DEF StoredEarlier, Abstract!SameWay
<1>11. ASSUME messages' = messages, stored' = stored, queue' = queue PROVE FALSE
  BY <1>3, <1>4, <1>5, <1>11
<1> QED
  BY <1>6, <1>7, <1>9, <1>10, <1>11, FirestoreSteps DEF firestore, NotSaved

\* The invariants about the screens.
Log == LogKnown /\ LogEarlier /\ LogInOrder

\* A screen shows the messages of its conversation, each sender's in their order.
LEMMA LogStep ==
  TypeOK /\ Peers /\ Documents /\ StoredEarlier /\ Log /\ [Next]_vars => Log'
<1> SUFFICES ASSUME TypeOK, Peers, Documents, StoredEarlier, Log, [Next]_vars
             PROVE  Log'
  OBVIOUS
<1> USE DEF Documents, Log
<1> DEFINE Known(u) ==
             \A m \in Shown(u) :
               /\ m \in DOMAIN messages /\ Between(u, chatUser[u], m)
               /\ messages[m].from # u => m \in stored[u]
           Earlier(u) ==
             \A m \in Shown(u), n \in New(u) : messages[m].from = messages[n].from => m < n
           InOrder(u) ==
             /\ \A i \in DOMAIN chatMessages[u] : Between(u, chatUser[u], chatMessages[u][i])
             /\ \A i, j \in DOMAIN chatMessages[u] :
                  i < j /\ messages[chatMessages[u][i]].from = messages[chatMessages[u][j]].from
                    => chatMessages[u][i] < chatMessages[u][j]
<1>1. \A u \in Users : Known(u) /\ Earlier(u) /\ InOrder(u)
  BY DEF LogKnown, LogEarlier, LogInOrder
<1>2. ASSUME \A u \in Users : Known(u)' /\ Earlier(u)' /\ InOrder(u)'
      PROVE  Log'
  BY <1>2 DEF LogKnown, LogEarlier, LogInOrder
<1>3. ASSUME NEW u \in Users, UNCHANGED firestore, chatUser'[u] = chatUser[u], chatMessages'[u] = chatMessages[u]
      PROVE  Known(u)' /\ Earlier(u)' /\ InOrder(u)'
  <2>1. messages' = messages /\ stored' = stored /\ queue' = queue
    BY <1>3 DEF firestore
  <2>2. Shown(u)' = Shown(u) /\ \A m : Between(u, chatUser[u], m)' <=> Between(u, chatUser[u], m)
    BY <1>3, <2>1 DEF Shown, Between
  <2>3. New(u)' = New(u)
    BY <1>3, <2>1, <2>2 DEF New, Visible, Waiting, Between
  <2>4. Known(u)' /\ Earlier(u)'
    BY <1>1, <2>1, <2>2, <2>3
  <2>5. InOrder(u)'
    BY <1>1, <1>3, <2>1, <2>2
  <2> QED
    BY <2>4, <2>5
<1>4. ASSUME NEW u \in Users, NEW peer, fetchMessages(u, peer), UNCHANGED firestore
      PROVE  Log'
  <2>1. chatMessages'[u] = <<>> /\ \A v \in Users : v # u => chatUser'[v] = chatUser[v] /\ chatMessages'[v] = chatMessages[v]
    BY <1>4 DEF fetchMessages, TypeOK
  <2>2. DOMAIN chatMessages'[u] = {}
    BY <2>1
  <2>3. Known(u)' /\ Earlier(u)' /\ InOrder(u)'
    BY <2>2 DEF Shown
  <2> QED
    BY <1>2, <1>3, <1>4, <2>1, <2>3
<1>5. ASSUME NEW u \in Users, MessagesAdded(u) PROVE Log'
  <2> DEFINE l == Len(chatMessages[u]) + 1
  <2>1. UNCHANGED firestore /\ chatUser' = chatUser /\ \A v \in Users : v # u => chatMessages'[v] = chatMessages[v]
    BY <1>5, AddedFacts
  <2>2. PICK n \in New(u) :
          /\ \A m \in New(u) : n <= m
          /\ DOMAIN chatMessages'[u] = DOMAIN chatMessages[u] \cup {l}
          /\ \A i \in DOMAIN chatMessages[u] :
               i \in Nat /\ i < l /\ chatMessages'[u][i] = chatMessages[u][i]
          /\ chatMessages'[u][l] = n /\ l \in Nat
          /\ Shown(u)' = Shown(u) \cup {n}
    BY <1>5, AddedFacts
  <2> HIDE DEF l
  <2>3. /\ n \in DOMAIN messages /\ n \in Nat /\ Between(u, chatUser[u], n)
        /\ messages[n].from # u => n \in stored[u]
    BY NewKnown
  <2>4. messages' = messages /\ stored' = stored /\ \A m : Between(u, chatUser[u], m)' <=> Between(u, chatUser[u], m)
    BY <2>1 DEF firestore, Between
  <2>5. Known(u)'
    BY <1>1, <2>2, <2>3, <2>4
  <2>6. New(u)' = New(u) \ {n}
    BY <2>1, <2>2 DEF New, Visible, Waiting, Between, firestore
  <2>7. \A m \in New(u) : m \in Nat
    BY NewKnown
  <2>8. Earlier(u)'
    BY <1>1, <2>2, <2>3, <2>4, <2>6, <2>7
  <2>9. ASSUME NEW i \in DOMAIN chatMessages'[u] PROVE Between(u, chatUser[u], chatMessages[u][i])'
    BY <1>1, <2>2, <2>3, <2>4
  <2>10. ASSUME NEW i \in DOMAIN chatMessages'[u], NEW j \in DOMAIN chatMessages'[u], i < j,
                messages'[chatMessages'[u][i]].from = messages'[chatMessages'[u][j]].from
         PROVE  chatMessages'[u][i] < chatMessages'[u][j]
    <3>1. CASE i \in DOMAIN chatMessages[u] /\ j \in DOMAIN chatMessages[u]
      BY <1>1, <2>2, <2>4, <2>10, <3>1
    <3>2. CASE i \in DOMAIN chatMessages[u] /\ j = l
      <4>1. chatMessages[u][i] \in Shown(u)
        BY <3>2 DEF Shown
      <4> QED
        BY <1>1, <2>2, <2>4, <2>10, <3>2, <4>1
    <3>3. CASE i = l
      BY <2>2, <2>10, <3>3
    <3> QED
      BY <2>2, <3>1, <3>2, <3>3
  <2>11. InOrder(u)'
    BY <2>9, <2>10
  <2> QED
    BY <1>2, <1>3, <2>1, <2>5, <2>8, <2>11
<1>6. ASSUME chatUser' = chatUser, chatMessages' = chatMessages PROVE Log'
  <2> SUFFICES ASSUME NEW u \in Users PROVE Known(u)' /\ Earlier(u)' /\ InOrder(u)'
    BY <1>2
  <2>1. /\ \A n \in DOMAIN messages : n \in DOMAIN messages' /\ messages'[n] = messages[n]
        /\ stored[u] \subseteq stored'[u]
    BY Growth
  <2>2. Shown(u)' = Shown(u) /\ \A i \in DOMAIN chatMessages[u] : chatMessages[u][i] \in Shown(u)
    BY <1>6 DEF Shown
  <2>3. Shown(u) \subseteq DOMAIN messages
    BY <1>1
  <2>4. \A m \in DOMAIN messages : Between(u, chatUser[u], m)' <=> Between(u, chatUser[u], m)
    BY <1>6, <2>1 DEF Between
  <2>5. Known(u)'
    BY <1>1, <2>1, <2>2, <2>4
  <2>6. Earlier(u)'
    <3>1. ASSUME NEW m \in Shown(u), NEW n \in New(u)', messages'[m].from = messages'[n].from PROVE m < n
      <4>1. messages'[m] = messages[m]
        BY <2>1, <2>3
      <4>2. CASE n \in New(u)
        <5>1. messages'[n] = messages[n]
          BY <2>1, <4>2, NewKnown
        <5> QED
          BY <1>1, <3>1, <4>1, <4>2, <5>1
      <4>3. CASE n \notin New(u)
        BY <1>6, <3>1, <4>1, <4>3, NewLater
      <4> QED
        BY <4>2, <4>3
    <3> QED
      BY <2>2, <3>1
  <2>7. InOrder(u)'
    BY <1>1, <1>6, <2>1, <2>2, <2>3, <2>4
  <2> QED
    BY <2>5, <2>6, <2>7
<1> QED
  BY <1>4, <1>5, <1>6, LogSteps

-----------------------------------------------------------------------------
\* Init satisfies the inductive invariant, and every step keeps it.
THEOREM Invariance == Spec => []IInv
<1>1. Init => IInv
  <2> SUFFICES ASSUME Init PROVE IInv
    OBVIOUS
  <2>1. /\ messages = <<>> /\ DOMAIN messages = {}
        /\ \A u \in Users :
             /\ stored[u] = {} /\ queue[u] = <<>> /\ DOMAIN queue[u] = {}
             /\ acks[u] = <<>> /\ Len(acks[u]) = 0
             /\ chatUser[u] = None /\ view[u] = "closed"
             /\ chatMessages[u] = <<>> /\ DOMAIN chatMessages[u] = {}
             /\ \A v \in Users : recent[u][v] = NoRecent
    BY DEF Init
  <2>2. TypeOK
    BY BoundsAssumption DEF Init, TypeOK
  <2>3. Peers /\ MessagesOK /\ StoredSent /\ QueueOK /\ RecentsOK /\ QueueOrder /\ StoredEarlier
    BY <2>1, NoneAssumption DEF Peers, MessagesOK, StoredSent, QueueOK, RecentsOK, QueueOrder, StoredEarlier
  <2>4. OneSending /\ SendingDraft /\ RecentWasSent /\ QueuedWasSent
    BY <2>1 DEF OneSending, SendingDraft, RecentWasSent, QueuedWasSent
  <2>5. LogKnown /\ LogEarlier /\ LogInOrder
    BY <2>1 DEF LogKnown, LogEarlier, LogInOrder, Shown
  <2> QED
    BY <2>2, <2>3, <2>4, <2>5 DEF IInv
<1>2. IInv /\ [Next]_vars => IInv'
  BY TypeStep, PeersStep, DocumentsStep, QueueOrderStep, StoredEarlierStep, OneSendingStep,
     SendingDraftStep, RecentWasSentStep, LogStep
  DEF IInv, Documents, Log
<1> QED
  BY <1>1, <1>2, PTL DEF Spec

\* The documents, the queues and the screens are always of their types: who
\* sends is in a conversation, and no write names a message that is not there.
THEOREM TypeCorrect == Spec => []TypeOK
<1>1. IInv => TypeOK
  BY DEF IInv
<1> QED
  BY <1>1, Invariance, PTL

\* A screen shows the messages of its conversation, those of either user in the
\* order of sending.
THEOREM Order == Spec => []LogInOrder
<1>1. IInv => LogInOrder
  BY DEF IInv
<1> QED
  BY <1>1, Invariance, PTL

\* persistRecentMessage records what was sent, if the user waits.
THEOREM Recorded == Spec => []RecentWasSent
<1>1. IInv => RecentWasSent
  BY DEF IInv
<1> QED
  BY <1>1, Invariance, PTL

\* A row of the recent messages opens the conversation it is listed for, unless
\* another phone filed it under a profile that was not its user's own.
THEOREM RightPeer == Spec => []RecentOpensItsPeer
<1>1. IInv => RecentOpensItsPeer
  BY NoneAssumption DEF IInv, RecentsOK, RecentOK, RecentOpensItsPeer, Peer
<1> QED
  BY <1>1, Invariance, PTL

\* The completion handler empties the text field only of what it has found
\* stored, if the user waits.
THEOREM Drafts == Spec => DraftsKept
<1>1. IInv /\ [Next]_vars =>
        [\A u \in Users :
           chatText[u] # Empty /\ chatText'[u] = Empty /\ u \notin hasty
             => \E n \in stored[u] : messages[n].from = u /\ messages[n].text = chatText[u]]_vars
  <2> SUFFICES ASSUME IInv, [Next]_vars,
                      NEW u \in Users, chatText[u] # Empty, chatText'[u] = Empty, u \notin hasty
               PROVE  \E n \in stored[u] : messages[n].from = u /\ messages[n].text = chatText[u]
    OBVIOUS
  <2>1. chatText \in [Users -> Texts \cup {Empty}] /\ SendingDraft
    BY DEF IInv, TypeOK
  <2>2. \/ \E v \in Users : Saved(v) \/ \E text \in Texts : Type(v, text)
        \/ UNCHANGED chatText
    BY OnlineAssumption
    DEF Next, Idle, vars, viewModel, OpenNew, OpenRecent, Leave, SwitchTab, handleSend, NotSaved, Store, Refuse,
        MessagesAdded, ListenerFails
  <2>3. ASSUME NEW v \in Users, NEW text \in Texts, Type(v, text) PROVE FALSE
    BY <2>1, <2>3, NoneAssumption DEF Type
  <2>4. Saved(u)
    BY <2>1, <2>2, <2>3 DEF Saved
  <2>5. PICK n \in stored[u] : messages[n] = Draft(u)
    BY <2>1, <2>4 DEF Saved, SendingDraft
  <2> QED
    BY <2>5 DEF Draft
<1> QED
  BY <1>1, Invariance, PTL DEF Spec, DraftsKept

\* Every step of the chat is one of the abstract conversation, or none:
\* handleSend says something, the server's copies are kept in the order of
\* sending, and the rest is not seen.
THEOREM Implementation == Spec => ImplementsConversation
<1>1. Init => Abstract!Init
  BY DEF Init, Abstract!Init
<1>2. IInv /\ [Next]_vars => [Abstract!Next]_(Abstract!cvars)
  <2> SUFFICES ASSUME IInv, [Next]_vars
               PROVE  Abstract!Next \/ UNCHANGED <<messages, stored>>
    BY DEF Abstract!cvars
  <2>1. TypeOK /\ Peers /\ QueueOK /\ StoredEarlier
    BY DEF IInv
  <2>2. ASSUME NEW u \in Users, handleSend(u) PROVE Abstract!Next
    <3>1. chatUser[u] \in Users /\ chatUser[u] # u /\ chatText[u] \in Texts \cup {Empty}
      BY <2>1, <2>2 DEF handleSend, Peers, TypeOK
    <3>2. Abstract!Say(u, chatUser[u], chatText[u])
      BY <2>2 DEF handleSend, Abstract!Say
    <3> QED
      BY <3>1, <3>2 DEF Abstract!Next
  <2>3. ASSUME NEW u \in Users, Store(u) PROVE Abstract!Next \/ UNCHANGED <<messages, stored>>
    <3> DEFINE w == Head(queue[u])
    <3>1. CASE w.kind = "recent"
      BY <2>1, <2>3, <3>1, StoreFacts
    <3>2. CASE w.kind # "recent"
      <4>1. /\ messages' = messages /\ stored' = [stored EXCEPT ![Owner(w)] = @ \cup {w.n}]
            /\ queue[u] # <<>> /\ Answer(u, w, "saved")
        BY <2>3, <3>2 DEF Store
      <4>2. 1 \in DOMAIN queue[u] /\ w = queue[u][1]
        BY <2>1, <4>1, AnswerFacts
      <4>3. w.n \in DOMAIN messages /\ Owner(w) \in Users
        BY <2>1, <2>3, <3>2, StoreFacts
      <4>4. Owner(w) \in {messages[w.n].from, messages[w.n].to}
        BY DEF Owner
      <4>5. \A m \in stored[Owner(w)] : Abstract!SameWay(m, w.n) => m < w.n
        BY <2>1, <3>2, <4>2 DEF StoredEarlier
      <4>6. Abstract!Keep(Owner(w), w.n)
        BY <4>1, <4>4, <4>5 DEF Abstract!Keep
      <4> QED
        BY <4>3, <4>6 DEF Abstract!Next
    <3> QED
      BY <3>1, <3>2
  <2>4. (\E u \in Users : handleSend(u) \/ Store(u)) \/ UNCHANGED <<messages, stored>>
    BY FirestoreSteps DEF firestore, Saved, NotSaved, Refuse
  <2> QED
    BY <2>2, <2>3, <2>4
<1> QED
  BY <1>1, <1>2, Invariance, PTL DEF Spec, ImplementsConversation, Abstract!Safety
=============================================================================
