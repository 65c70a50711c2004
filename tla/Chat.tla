-------------------------------- MODULE Chat --------------------------------
(***************************************************************************)
(* The chat: ChatLogViewModel and the list of recent messages, on the      *)
(* phones of several users, over Firestore.                                *)
(*                                                                         *)
(* handleSend writes a message twice, for the sender and for the           *)
(* recipient.  When the first write is acknowledged, the completion        *)
(* handler records the recent message of the two users and clears the text *)
(* field.  It uses the text and the conversation it finds then: the user   *)
(* may have typed, sent again or gone to another conversation meanwhile.   *)
(*                                                                         *)
(* External, Firestore: a phone's writes reach the server in their order,  *)
(* each is stored or refused, and the answers come back in that order; a   *)
(* listener sees the stored documents and the phone's own waiting writes.  *)
(* The clocks of the phones, from which the timestamps are, agree.         *)
(***************************************************************************)
EXTENDS Naturals, Sequences

CONSTANTS
  Users,         \* the users, each with a phone
  Online,        \* those who have the app open
  Listed,        \* those whom CreateNewMessageView offers each of them
  Texts,         \* what they type
  Profiles,      \* the uids FirebaseManager.shared.currentUser may have on each phone
  MaxOpens,      \* bound on conversations opened
  MaxMessages,   \* bound on messages
  MaxFaults      \* bound on refused writes

ASSUME OnlineAssumption == Online \subseteq Users
ASSUME ListedAssumption == \A u \in Users : Listed[u] \subseteq Users \ {u}
ASSUME BoundsAssumption == MaxOpens \in Nat /\ MaxMessages \in Nat /\ MaxFaults \in Nat

\* No user, the empty text, no document.
None == "none"
Empty == "empty"
NoRecent == [text |-> Empty, from |-> None, to |-> None]
ASSUME NoneAssumption == None \notin Users /\ Empty \notin Texts

\* None if fetchCurrentUser has not found a document; the uid of the account
\* that is signed in, or of the one before it (see ChatAccount).
ASSUME ProfilesAssumption == \A u \in Users : Profiles[u] \subseteq Users \cup {None}

VARIABLES
  messages,      \* the messages ever sent, in the order of their timestamps
  stored,        \* Firestore, messages/{uid}: the messages stored for each user
  recent,        \* Firestore, recent_messages/{uid}/messages/{peer}
  queue,         \* Firestore: the writes of each phone that wait for the server
  acks,          \* the answers to the sender's writes still to be handled
  chatUser,      \* the peer of each phone's ChatLogViewModel
  chatText,      \* its text field
  chatMessages,  \* its list of messages
  view,          \* its view: "closed", "open", or "deaf", which has lost its listener
  opens,         \* conversations opened so far
  hasty,         \* history: users who did not wait for an acknowledgement
  faults         \* refused writes so far

firestore == <<messages, stored, recent, queue, acks>>
viewModel == <<chatUser, chatText, chatMessages, view>>
vars == <<firestore, viewModel, opens, hasty, faults>>

Numbers == 1..MaxMessages
Message == [from : Users, to : Users, text : Texts \cup {Empty}]
Recent == [text : Texts \cup {Empty}, from : Users, to : Users]
Write == [kind : {"sender", "recipient"}, n : Numbers]
           \cup [kind : {"recent"}, uid : Users, peer : Users, data : Recent]

TypeOK ==
  /\ messages \in Seq(Message) /\ Len(messages) <= MaxMessages
  /\ stored \in [Users -> SUBSET Numbers]
  /\ recent \in [Users -> [Users -> Recent \cup {NoRecent}]]
  /\ queue \in [Users -> Seq(Write)]
  /\ acks \in [Users -> Seq({"saved", "error"})]
  /\ chatUser \in [Users -> Users \cup {None}]
  /\ chatText \in [Users -> Texts \cup {Empty}]
  /\ chatMessages \in [Users -> Seq(Numbers)]
  /\ view \in [Users -> {"closed", "open", "deaf"}]
  /\ opens \in 0..MaxOpens
  /\ hasty \subseteq Users
  /\ faults \in 0..MaxFaults

Init ==
  /\ messages = <<>>
  /\ stored = [u \in Users |-> {}]
  /\ recent = [u \in Users |-> [v \in Users |-> NoRecent]]
  /\ queue = [u \in Users |-> <<>>]
  /\ acks = [u \in Users |-> <<>>]
  /\ chatUser = [u \in Users |-> None]
  /\ chatText = [u \in Users |-> Empty]
  /\ chatMessages = [u \in Users |-> <<>>]
  /\ view = [u \in Users |-> "closed"]
  /\ opens = 0
  /\ hasty = {}
  /\ faults = 0

Fault == faults < MaxFaults /\ faults' = faults + 1

\* A message of u is on its way, or its answer is.
Sending(u) ==
  acks[u] # <<>> \/ \E i \in DOMAIN queue[u] : queue[u][i].kind = "sender"

\* The user does something without waiting for the answer.
NoteHaste(u) == hasty' = IF Sending(u) THEN hasty \cup {u} ELSE hasty

-----------------------------------------------------------------------------
(***************************************************************************)
(* ChatLogViewModel.                                                       *)
(***************************************************************************)
\* Mutant: the list is not emptied.
fetchMessagesKeep(u, peer) ==
  /\ chatUser' = [chatUser EXCEPT ![u] = peer]
  /\ view' = [view EXCEPT ![u] = "open"]
  /\ UNCHANGED chatMessages

\* Mutant: the view model keeps its peer.
fetchMessagesNoPeer(u, peer) ==
  /\ view' = [view EXCEPT ![u] = "open"]
  /\ chatMessages' = [chatMessages EXCEPT ![u] = <<>>]
  /\ UNCHANGED chatUser

\* The view model gets another peer, a new listener and an empty list.  The
\* text field stays as it is.
fetchMessages(u, peer) ==
  /\ chatUser' = [chatUser EXCEPT ![u] = peer]
  /\ view' = [view EXCEPT ![u] = "open"]
  /\ chatMessages' = [chatMessages EXCEPT ![u] = <<>>]

\* A conversation is opened from the list of new messages, or from a row of the
\* recent messages: with the other one of its two users.
Opening(u) ==
  /\ view[u] = "closed" /\ opens < MaxOpens
  /\ opens' = opens + 1
  /\ NoteHaste(u)

OpenNew(u, peer) ==
  /\ Opening(u) /\ peer \in Listed[u]
  /\ fetchMessages(u, peer)
  /\ UNCHANGED <<firestore, chatText, faults>>

Peer(u, data) == IF data.from = u THEN data.to ELSE data.from

OpenRecent(u, peer) ==
  /\ Opening(u) /\ recent[u][peer] # NoRecent
  /\ fetchMessages(u, Peer(u, recent[u][peer]))
  /\ UNCHANGED <<firestore, chatText, faults>>

\* onDisappear removes the listener; the handlers of writes live on.  The view
\* is closed,
Leave(u) ==
  /\ view[u] # "closed"
  /\ view' = [view EXCEPT ![u] = "closed"]
  /\ UNCHANGED <<firestore, chatUser, chatText, chatMessages, opens, hasty, faults>>

\* or another tab was chosen: when the user comes back the conversation is on the
\* screen as before, and nothing has registered a listener again.
SwitchTab(u) ==
  /\ view[u] = "open"
  /\ view' = [view EXCEPT ![u] = "deaf"]
  /\ UNCHANGED <<firestore, chatUser, chatText, chatMessages, opens, hasty, faults>>

Type(u, text) ==
  /\ view[u] # "closed" /\ text # chatText[u]
  /\ chatText' = [chatText EXCEPT ![u] = text]
  /\ NoteHaste(u)
  /\ UNCHANGED <<firestore, chatUser, chatMessages, view, opens, faults>>

\* Two documents are written, whatever the text.
handleSend(u) ==
  LET n == Len(messages) + 1
  IN  /\ view[u] # "closed" /\ n <= MaxMessages
      /\ messages' = Append(messages, [from |-> u, to |-> chatUser[u], text |-> chatText[u]])
      /\ queue' = [queue EXCEPT ![u] = @ \o <<[kind |-> "sender", n |-> n],
                                              [kind |-> "recipient", n |-> n]>>]
      /\ NoteHaste(u)
      /\ UNCHANGED <<stored, recent, acks, viewModel, opens, faults>>

\* Mutant: the peer's document has the peer's own name.
RecentWritesToId(u, text, profile) ==
  LET data == [text |-> text, from |-> u, to |-> chatUser[u]]
      W(uid, peer) == [kind |-> "recent", uid |-> uid, peer |-> peer, data |-> data]
  IN  <<W(u, chatUser[u])>> \o (IF profile # None THEN <<W(chatUser[u], chatUser[u])>> ELSE <<>>)

\* persistRecentMessage: for the user, and for the peer if there is a profile,
\* after which the peer's document is named.
RecentWrites(u, text, profile) ==
  LET data == [text |-> text, from |-> u, to |-> chatUser[u]]
      W(uid, peer) == [kind |-> "recent", uid |-> uid, peer |-> peer, data |-> data]
  IN  <<W(u, chatUser[u])>> \o (IF profile # None THEN <<W(chatUser[u], profile)>> ELSE <<>>)

\* Mutant: the text field is cleared first.
SavedCleared(u) ==
  /\ acks[u] # <<>> /\ Head(acks[u]) = "saved"
  /\ acks' = [acks EXCEPT ![u] = Tail(@)]
  /\ \E profile \in Profiles[u] : queue' = [queue EXCEPT ![u] = @ \o RecentWrites(u, Empty, profile)]
  /\ chatText' = [chatText EXCEPT ![u] = Empty]
  /\ UNCHANGED <<messages, stored, recent, chatUser, chatMessages, view,
                 opens, hasty, faults>>

\* The handler of the sender's write: the conversation and the text are those
\* of now.
Saved(u) ==
  /\ acks[u] # <<>> /\ Head(acks[u]) = "saved"
  /\ acks' = [acks EXCEPT ![u] = Tail(@)]
  /\ \E profile \in Profiles[u] :
       queue' = [queue EXCEPT ![u] = @ \o RecentWrites(u, chatText[u], profile)]
  /\ chatText' = [chatText EXCEPT ![u] = Empty]
  /\ UNCHANGED <<messages, stored, recent, chatUser, chatMessages, view,
                 opens, hasty, faults>>

\* Mutant: the text field is cleared here, too.
NotSavedCleared(u) ==
  /\ acks[u] # <<>> /\ Head(acks[u]) = "error"
  /\ acks' = [acks EXCEPT ![u] = Tail(@)]
  /\ chatText' = [chatText EXCEPT ![u] = Empty]
  /\ UNCHANGED <<messages, stored, recent, queue, chatUser, chatMessages, view,
                 opens, hasty, faults>>

\* The same handler with an error: the text stays in the field.
NotSaved(u) ==
  /\ acks[u] # <<>> /\ Head(acks[u]) = "error"
  /\ acks' = [acks EXCEPT ![u] = Tail(@)]
  /\ UNCHANGED <<messages, stored, recent, queue, viewModel, opens, hasty, faults>>

-----------------------------------------------------------------------------
(***************************************************************************)
(* Firestore and its listeners.                                            *)
(***************************************************************************)
\* Mutant: the recipient is the peer of now.
OwnerNow(w) == IF w.kind = "sender" THEN messages[w.n].from ELSE chatUser[messages[w.n].from]

\* Whose document a message is written to, fixed when it was sent.
Owner(w) == IF w.kind = "sender" THEN messages[w.n].from ELSE messages[w.n].to

Answer(u, w, answer) ==
  /\ queue' = [queue EXCEPT ![u] = Tail(@)]
  /\ acks' = IF w.kind = "sender" THEN [acks EXCEPT ![u] = Append(@, answer)] ELSE acks

\* The server stores the first of a phone's writes.
Store(u) ==
  /\ queue[u] # <<>>
  /\ LET w == Head(queue[u])
     IN  /\ IF w.kind = "recent"
            THEN recent' = [recent EXCEPT ![w.uid][w.peer] = w.data] /\ UNCHANGED stored
            ELSE stored' = [stored EXCEPT ![Owner(w)] = @ \cup {w.n}] /\ UNCHANGED recent
         /\ Answer(u, w, "saved")
  /\ UNCHANGED <<messages, viewModel, opens, hasty, faults>>

\* The server refuses it.
Refuse(u) ==
  /\ queue[u] # <<>>
  /\ Fault
  /\ Answer(u, Head(queue[u]), "error")
  /\ UNCHANGED <<messages, stored, recent, viewModel, opens, hasty>>

\* The collection messages/{u}/{peer} as the phone sees it.
Between(u, v, n) == {messages[n].from, messages[n].to} = {u, v}
Waiting(u) == {queue[u][i].n : i \in {j \in DOMAIN queue[u] : queue[u][j].kind = "sender"}}
Visible(u, peer) == {n \in stored[u] \cup Waiting(u) : Between(u, peer, n)}

Shown(u) == {chatMessages[u][i] : i \in DOMAIN chatMessages[u]}
New(u) == Visible(u, chatUser[u]) \ Shown(u)

\* Mutant: the messages are fetched once.
MessagesAddedOnce(u) ==
  /\ view[u] = "open" /\ chatMessages[u] = <<>>
  /\ \E n \in New(u) :
       /\ \A m \in New(u) : n <= m
       /\ chatMessages' = [chatMessages EXCEPT ![u] = Append(@, n)]
  /\ UNCHANGED <<firestore, chatUser, chatText, view, opens, hasty, faults>>

\* The listener of a conversation: what was added is appended, in the order
\* of the timestamps; what was removed or changed is not looked at.
MessagesAdded(u) ==
  /\ view[u] = "open"
  /\ \E n \in New(u) :
       /\ \A m \in New(u) : n <= m
       /\ chatMessages' = [chatMessages EXCEPT ![u] = Append(@, n)]
  /\ UNCHANGED <<firestore, chatUser, chatText, view, opens, hasty, faults>>

\* A listener with an error is not called again.
ListenerFails(u) ==
  /\ view[u] = "open"
  /\ view' = [view EXCEPT ![u] = "deaf"]
  /\ UNCHANGED <<firestore, chatUser, chatText, chatMessages, opens, hasty, faults>>

-----------------------------------------------------------------------------
\* Nothing is under way, and nobody does anything.
Idle ==
  /\ \A u \in Users : queue[u] = <<>> /\ acks[u] = <<>> /\ view[u] = "closed"
  /\ UNCHANGED vars

Next ==
  \/ \E u \in Online :
       \/ \E peer \in Users : OpenNew(u, peer) \/ OpenRecent(u, peer)
       \/ \E text \in Texts : Type(u, text)
       \/ Leave(u) \/ SwitchTab(u) \/ handleSend(u) \/ Saved(u) \/ NotSaved(u)
       \/ Store(u) \/ Refuse(u) \/ MessagesAdded(u) \/ ListenerFails(u)
  \/ Idle

Spec == Init /\ [][Next]_vars

\* Firestore goes on sending what waits, and calls the listeners.
FairSpec ==
  Spec /\ \A u \in Online : WF_vars(Store(u) \/ Refuse(u)) /\ WF_vars(MessagesAdded(u))

-----------------------------------------------------------------------------
\* Seen through the documents, the two copies of each message are written in
\* the order of sending and at most once, whatever is refused.
Abstract == INSTANCE Conversation
              WITH Texts <- Texts \cup {Empty}, said <- messages, kept <- stored

ImplementsConversation == Abstract!Safety

\* What a phone shows of a conversation are messages of that conversation, none
\* of them twice, and those of either user in the order they were sent: opening
\* and leaving conversations, late writes and refusals do not mix them up.
LogInOrder ==
  \A u \in Users : LET log == chatMessages[u] IN
    /\ \A i \in DOMAIN log : Between(u, chatUser[u], log[i])
    /\ \A i, j \in DOMAIN log :
         i < j /\ messages[log[i]].from = messages[log[j]].from => log[i] < log[j]

\* The recent message recorded for a conversation was sent in it, unless its
\* sender did not wait for the acknowledgement: who types, sends again or
\* opens another conversation has that recorded as sent.
RecentWasSent ==
  \A u, peer \in Users :
    LET data == recent[u][peer]
    IN  data # NoRecent /\ data.from \notin hasty
          => \E n \in DOMAIN messages : messages[n] = [from |-> data.from, to |-> data.to, text |-> data.text]

\* The recent message a user has for a peer opens the conversation with that
\* peer, even one recorded by mistake, if the user's own phone wrote it or the
\* profile on the sender's phone was never that of another account; otherwise it
\* may stand under the name of the other account.
RecentOpensItsPeer ==
  \A u, peer \in Users : LET data == recent[u][peer] IN
    /\ data # NoRecent
    /\ data.from = u \/ Profiles[data.from] \subseteq {data.from, None}
    => Peer(u, data) = peer

\* The text field is emptied only of what was sent and saved, unless its user
\* did not wait.
DraftsKept ==
  [][\A u \in Users :
       chatText[u] # Empty /\ chatText'[u] = Empty /\ u \notin hasty
         => \E n \in stored[u] : messages[n].from = u /\ messages[n].text = chatText[u]]_vars

\* Something has been said in the conversation on u's screen that is not shown.
Behind(u) ==
  view[u] # "closed" /\ \E n \in DOMAIN messages \ Shown(u) : Between(u, chatUser[u], n)

\* Who watches a conversation comes to see all that is said in it, by either of
\* the two, or leaves it, unless the server refused something or the view has
\* lost its listener, for an error or by a switch of tabs.
WatchersSee ==
  \A u \in Online :
    Behind(u) /\ view[u] = "open" ~> (~Behind(u) \/ view[u] = "deaf" \/ faults > 0)
=============================================================================
