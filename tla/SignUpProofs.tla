---------------------------- MODULE SignUpProofs ----------------------------
(***************************************************************************)
(* Proofs about SignUp, for any accounts and requests and any number of    *)
(* calls, losses and exceptions.                                           *)
(*                                                                         *)
(* That the phone is a client of Registration comes first: every step of   *)
(* SignUp is one of Registration or leaves its variables alone, so the     *)
(* inductive invariant of RegistrationProofs holds here, too.              *)
(***************************************************************************)
EXTENDS SignUp, RegistrationProofs, FiniteSetTheorems

(***************************************************************************)
(* The inductive invariant: the forms.                                     *)
(***************************************************************************)
\* The calls whose answer has been applied.
Applied == {k \in DOMAIN asks : asks[k].stage = "applied"}

\* A SignUpView was put on the screen by a call or by an answer.
FlowsCounted ==
  /\ flow <= Len(asks) + Cardinality(Applied)
  /\ SignUpShown => flow # 0

\* A request that is not sent yet is not known to the server, and a Task
\* belongs to the SignUpView that started it.
TasksOK == \A r \in Requests :
  /\ stage[r] \in {"none", "started"} => pc[r] = "new"
  /\ pc[r] = "new" => body[r] = NoId
  /\ stage[r] = "none" <=> task[r] = 0
  /\ r \in OwnerPosts /\ stage[r] = "ended" => pc[r] = "done"
  /\ r \in OwnerPosts /\ stage[r] # "none" => OwnerEmail[task[r]] \in Emails
  /\ r \in DogPosts /\ stage[r] \in {"none", "started"} => known[r] = {}

\* The sign-ups of a SignUpView that it was told the id of.
Told(f) == {q \in OwnerPosts : /\ task[q] = f /\ stage[q] = "ended"
                               /\ response[q] = "201" /\ id[q] # NoId}

\* Those it was told have been refused.
Refused(f) == {p \in OwnerPosts : task[p] = f /\ stage[p] = "ended" /\ response[p] = "400"}

\* The OwnerID of a SignUpView is one it was told;
OwnerIDTold == \A f \in Flows :
  OwnerID[f] # NoId => \E q \in Told(f) : OwnerID[f] = id[q]

\* it forgets what it was told only if it signs up again and is refused.
OwnerIDForgotten == \A f \in Flows : OwnerID[f] = NoId /\ Told(f) # {} => Refused(f) # {}

(***************************************************************************)
(* The inductive invariant: the accounts.                                  *)
(***************************************************************************)
AsksOK ==
  /\ \A k \in DOMAIN asks :
       /\ asks[k].email \in accounts
       /\ asks[k].answer = "found" => OwnersWith(asks[k].email) # {}
       /\ asks[k].stage \in {"answered", "applied"} => asks[k].answer # "none"
  /\ hasAccount => \E k \in Applied : asks[k].answer = "found"

AccountsOK ==
  /\ IsFiniteSet(accounts)
  /\ isLoggedIn => emailAddress \in accounts

OneAccount == \A a, b \in accounts : a = b

\* Calls served in their order, about one account: once found, always found.
FoundStays ==
  OneAccount /\ ~overtaken =>
    \A j, k \in DOMAIN asks :
      j < k /\ asks[j].answer = "found" /\ asks[k].stage \in {"answered", "applied"}
        => asks[k].answer # "default"

\* hasAccount is what the last of the calls said.
LastApplied ==
  ~overtaken /\ ~hasAccount /\ Applied # {} =>
    \E k \in Applied : asks[k].answer # "found" /\ \A j \in Applied : j <= k

SInv ==
  /\ IInv /\ SignUpTypeOK
  /\ FlowsCounted /\ TasksOK
  /\ OwnerIDTold /\ OwnerIDForgotten
  /\ DogsStayInTheirForm /\ ForgottenOwnerExplained
  /\ AsksOK /\ AccountsOK /\ FoundStays /\ LastApplied
-----------------------------------------------------------------------------
(***************************************************************************)
(* The server under the app.                                               *)
(***************************************************************************)
\* What a request was sent with, and what it was answered, is not changed any
\* more, and no owner is removed.
Settled ==
  /\ owners \subseteq owners'
  /\ \A r \in Requests :
       /\ pc[r] # "new" => pc'[r] # "new" /\ body'[r] = body[r]
       /\ pc[r] = "done" => pc'[r] = "done" /\ id'[r] = id[r] /\ response'[r] = response[r]

\* A statement of a request that was received.
LEMMA StatementSettles ==
  ASSUME TypeOK, NEW r \in Requests, Step(r)
  PROVE  /\ Settled
         /\ UNCHANGED body /\ pc[r] \notin {"new", "done"} /\ \A q \in Requests : q # r => pc'[q] = pc[q]
<1> USE DEF Goto, Answer, TypeOK, Settled, tables
<1>1. CASE NoDatabase(r) \/ CheckEmail(r) \/ InsertOwner(r)
  BY <1>1 DEF NoDatabase, CheckEmail, InsertOwner
<1>2. CASE InsertOwnerThrows(r)
  BY <1>2 DEF InsertOwnerThrows
<1>3. CASE GetNewID(r)
  BY <1>3 DEF GetNewID
<1>4. CASE SelectOwnerThrows(r)
  BY <1>4 DEF SelectOwnerThrows
<1>5. CASE InsertDog(r) \/ InsertDogThrows(r)
  BY <1>5 DEF InsertDog, InsertDogThrows
<1>6. CASE GetNewDogId(r) \/ GetNewDogIdThrows(r)
  BY <1>6 DEF GetNewDogId, GetNewDogIdThrows
<1> QED
  BY <1>1, <1>2, <1>3, <1>4, <1>5, <1>6 DEF Step

\* A request is received.
LEMMA ReceiveSettles ==
  ASSUME TypeOK, NEW r \in Requests, NEW b, NEW first \in {"checkEmail", "insertDog"}, Receive(r, b, first)
  PROVE  /\ Settled
         /\ pc[r] = "new" /\ pc'[r] = first /\ body'[r] = b
         /\ UNCHANGED <<owners, id, response>>
         /\ \A q \in Requests : q # r => pc'[q] = pc[q] /\ body'[q] = body[q]
  BY DEF Receive, Goto, TypeOK, Settled, tables

\* The selects find what they have found.
LEMMA OwnersWithGrows ==
  ASSUME owners \subseteq owners', NEW e
  PROVE  OwnersWith(e) \subseteq OwnersWith(e)'
  BY DEF OwnersWith

\* Every step of the phone is one of a client of Registration, or none.
LEMMA ClientStep ==
  ASSUME SInv, [SignUpNext]_<<vars, appVars>>
  PROVE  [Next]_vars
<1> USE DEF SInv
<1>1. ASSUME NEW r \in Requests, SendOwner(r) PROVE Next
  <2>1. r \in OwnerPosts /\ OwnerEmail[task[r]] \in Emails
    BY <1>1 DEF SendOwner, ReceiveOwner, TasksOK
  <2> QED
    BY <1>1, <2>1 DEF SendOwner, Next
<1>2. ASSUME NEW r \in Requests, SendDog(r) PROVE Next
  <2> DEFINE o == OwnerID[task[r]]
  <2>1. r \in DogPosts /\ task[r] \in Flows /\ o \in OwnerPosts \cup {NoId}
    BY <1>2 DEF SendDog, TasksOK, SignUpTypeOK
  <2>2. o # NoId => \E q \in OwnerPosts \cap Answered : o = id[q]
    BY <2>1 DEF OwnerIDTold, Told, TasksOK, Answered, Requests
  <2> HIDE DEF o
  <2>3. ReceiveDog(r, o)
    BY <1>2, <2>1, <2>2 DEF SendDog, ReceiveDog, o
  <2> QED
    BY <2>1, <2>3 DEF Next
<1>3. ASSUME ServerStep PROVE Next
  BY <1>3 DEF ServerStep, Next
<1>4. \/ \E r \in Requests : SendOwner(r) \/ SendDog(r)
      \/ ServerStep
      \/ UNCHANGED vars
  BY DEF SignUpNext, Idle, Restored, SignedIn, handleSignInButton, SignInCancelled, signOut, checkStatus,
         GetOwnerEmail, GetOwnerEmailThrows, AccountAnswered, AccountFailed, AddDogAppears, Save, Start,
         OwnerAnswered, UploadFailed
<1> QED
  BY <1>1, <1>2, <1>3, <1>4

\* The inductive invariant of Registration holds under the app.
LEMMA ServerInv == SInv /\ [SignUpNext]_<<vars, appVars>> => IInv'
<1> SUFFICES ASSUME SInv, [SignUpNext]_<<vars, appVars>>
             PROVE  IInv'
  OBVIOUS
<1>1. IInv /\ [Next]_vars
  BY ClientStep DEF SInv
<1> QED
  BY <1>1, InvStep

-----------------------------------------------------------------------------
(***************************************************************************)
(* The calls of checkAccount.                                              *)
(***************************************************************************)
Calls == [email : Emails, stage : {"sent", "answered", "applied", "failed"},
          answer : {"none", "found", "default", "misread"}]

\* One more call.
LEMMA CallAdded ==
  ASSUME asks \in Seq(Calls), NEW u \in Emails, asks' = Append(asks, Ask(u))
  PROVE  /\ asks' \in Seq(Calls) /\ Len(asks) \in Nat /\ Len(asks') = Len(asks) + 1
         /\ DOMAIN asks' = DOMAIN asks \cup {Len(asks) + 1}
         /\ \A j \in DOMAIN asks : j \in Nat /\ j < Len(asks) + 1 /\ asks'[j] = asks[j]
         /\ asks'[Len(asks) + 1] = Ask(u)
         /\ Applied' = Applied
<1>1. Ask(u) \in Calls /\ Ask(u).stage = "sent"
  BY DEF Ask, Calls
<1>2. /\ asks' \in Seq(Calls) /\ Len(asks) \in Nat /\ Len(asks') = Len(asks) + 1
      /\ DOMAIN asks' = DOMAIN asks \cup {Len(asks) + 1}
      /\ \A j \in DOMAIN asks : j \in Nat /\ j < Len(asks) + 1 /\ asks'[j] = asks[j]
      /\ asks'[Len(asks) + 1] = Ask(u)
  BY <1>1
<1>3. Applied' = Applied
  BY <1>1, <1>2 DEF Applied
<1> QED
  BY <1>2, <1>3

\* A call gets to another stage.
LEMMA CallChanged ==
  ASSUME asks \in Seq(Calls), NEW k \in DOMAIN asks, NEW c \in Calls, asks' = [asks EXCEPT ![k] = c]
  PROVE  /\ asks' \in Seq(Calls) /\ Len(asks') = Len(asks) /\ DOMAIN asks' = DOMAIN asks
         /\ \A j \in DOMAIN asks : j # k => asks'[j] = asks[j]
         /\ asks'[k] = c
         /\ c.stage = "applied" => Applied' = Applied \cup {k}
         /\ asks[k].stage # "applied" /\ c.stage # "applied" => Applied' = Applied
<1>1. /\ asks' \in Seq(Calls) /\ Len(asks') = Len(asks) /\ DOMAIN asks' = DOMAIN asks
      /\ \A j \in DOMAIN asks : j # k => asks'[j] = asks[j]
      /\ asks'[k] = c
  OBVIOUS
<1>2. c.stage = "applied" => Applied' = Applied \cup {k}
  BY <1>1 DEF Applied
<1>3. asks[k].stage # "applied" /\ c.stage # "applied" => Applied' = Applied
  BY <1>1 DEF Applied
<1> QED
  BY <1>1, <1>2, <1>3

\* The applied calls can be counted.
LEMMA AppliedCounted ==
  ASSUME asks \in Seq(Calls)
  PROVE  IsFiniteSet(Applied) /\ Cardinality(Applied) \in Nat /\ Cardinality(Applied) <= Len(asks)
<1>1. Len(asks) \in Nat /\ DOMAIN asks = 1..Len(asks)
  OBVIOUS
<1>2. IsFiniteSet(1..Len(asks)) /\ Cardinality(1..Len(asks)) = Len(asks)
  <2> DEFINE n == Len(asks)
  <2>1. n \in Int /\ 1 \in Int /\ n \in Nat
    BY <1>1
  <2> HIDE DEF n
  <2>2. IsFiniteSet(1..n) /\ Cardinality(1..n) = IF 1 > n THEN 0 ELSE n - 1 + 1
    BY <2>1, FS_Interval
  <2> QED
    BY <2>1, <2>2 DEF n
<1>3. Applied \in SUBSET (1..Len(asks))
  BY <1>1 DEF Applied
<1>4. IsFiniteSet(Applied) /\ Cardinality(Applied) <= Cardinality(1..Len(asks))
  BY <1>2, <1>3, FS_Subset
<1> QED
  BY <1>2, <1>4, FS_CardinalityType

\* checkStatus, for a user or for none.
LEMMA StatusFacts ==
  ASSUME NEW user \in Emails \cup {None}, checkStatus(user)
  PROVE  /\ currentUser' = user /\ UNCHANGED <<hasAccount, vars, objects, tasks, overtaken, losses>> /\ Route
         /\ \/ /\ user \in Emails /\ Len(asks) < MaxAsks
               /\ isLoggedIn' = TRUE /\ emailAddress' = user
               /\ asks' = Append(asks, Ask(user)) /\ accounts' = accounts \cup {user}
            \/ isLoggedIn' = FALSE /\ UNCHANGED <<emailAddress, asks, accounts>>
  BY DEF checkStatus

\* The stages of a call, in the handler and in the completion handler.
LEMMA CallFacts ==
  ASSUME asks \in Seq(Calls), NEW k \in DOMAIN asks
  PROVE  /\ GetOwnerEmail(k) =>
              \E c \in Calls :
                /\ asks' = [asks EXCEPT ![k] = c] /\ asks[k].stage = "sent"
                /\ c.email = asks[k].email /\ c.stage = "answered"
                /\ c.answer = IF OwnersWith(c.email) # {} THEN "found" ELSE "default"
         /\ GetOwnerEmailThrows(k) =>
              \E c \in Calls :
                /\ asks' = [asks EXCEPT ![k] = c] /\ asks[k].stage = "sent"
                /\ c.email = asks[k].email /\ c.stage = "answered" /\ c.answer = "misread"
         /\ AccountAnswered(k) =>
              \E c \in Calls :
                /\ asks' = [asks EXCEPT ![k] = c] /\ asks[k].stage = "answered"
                /\ c.email = asks[k].email /\ c.stage = "applied" /\ c.answer = asks[k].answer
         /\ AccountFailed(k) =>
              \E c \in Calls :
                /\ asks' = [asks EXCEPT ![k] = c] /\ asks[k].stage \in {"sent", "answered"}
                /\ c.email = asks[k].email /\ c.stage = "failed" /\ c.answer = asks[k].answer
<1>1. asks[k] \in Calls
  OBVIOUS
<1>2. ASSUME GetOwnerEmail(k)
      PROVE  \E c \in Calls :
               /\ asks' = [asks EXCEPT ![k] = c] /\ asks[k].stage = "sent"
               /\ c.email = asks[k].email /\ c.stage = "answered"
               /\ c.answer = IF OwnersWith(c.email) # {} THEN "found" ELSE "default"
  <2> DEFINE a == IF OwnersWith(asks[k].email) # {} THEN "found" ELSE "default"
             c == [asks[k] EXCEPT !.stage = "answered", !.answer = a]
  <2>1. asks' = [asks EXCEPT ![k] = c] /\ asks[k].stage = "sent"
    BY <1>2 DEF GetOwnerEmail
  <2>2. c \in Calls /\ c.email = asks[k].email /\ c.stage = "answered" /\ c.answer = a
    BY <1>1 DEF Calls
  <2> QED
    BY <2>1, <2>2
<1>3. ASSUME GetOwnerEmailThrows(k)
      PROVE  \E c \in Calls :
               /\ asks' = [asks EXCEPT ![k] = c] /\ asks[k].stage = "sent"
               /\ c.email = asks[k].email /\ c.stage = "answered" /\ c.answer = "misread"
  <2> DEFINE c == [asks[k] EXCEPT !.stage = "answered", !.answer = "misread"]
  <2>1. asks' = [asks EXCEPT ![k] = c] /\ asks[k].stage = "sent"
    BY <1>3 DEF GetOwnerEmailThrows
  <2>2. c \in Calls /\ c.email = asks[k].email /\ c.stage = "answered" /\ c.answer = "misread"
    BY <1>1 DEF Calls
  <2> QED
    BY <2>1, <2>2
<1>4. ASSUME AccountAnswered(k)
      PROVE  \E c \in Calls :
               /\ asks' = [asks EXCEPT ![k] = c] /\ asks[k].stage = "answered"
               /\ c.email = asks[k].email /\ c.stage = "applied" /\ c.answer = asks[k].answer
  <2> DEFINE c == [asks[k] EXCEPT !.stage = "applied"]
  <2>1. asks' = [asks EXCEPT ![k] = c] /\ asks[k].stage = "answered"
    BY <1>4 DEF AccountAnswered
  <2>2. c \in Calls /\ c.email = asks[k].email /\ c.stage = "applied" /\ c.answer = asks[k].answer
    BY <1>1 DEF Calls
  <2> QED
    BY <2>1, <2>2
<1>5. ASSUME AccountFailed(k)
      PROVE  \E c \in Calls :
               /\ asks' = [asks EXCEPT ![k] = c] /\ asks[k].stage \in {"sent", "answered"}
               /\ c.email = asks[k].email /\ c.stage = "failed" /\ c.answer = asks[k].answer
  <2> DEFINE c == [asks[k] EXCEPT !.stage = "failed"]
  <2>1. asks' = [asks EXCEPT ![k] = c] /\ asks[k].stage \in {"sent", "answered"}
    BY <1>5 DEF AccountFailed
  <2>2. c \in Calls /\ c.email = asks[k].email /\ c.stage = "failed" /\ c.answer = asks[k].answer
    BY <1>1 DEF Calls
  <2> QED
    BY <2>1, <2>2
<1> QED
  BY <1>2, <1>3, <1>4, <1>5

\* The three ways in which a call gets on without being applied.
Pending(k) == GetOwnerEmail(k) \/ GetOwnerEmailThrows(k) \/ AccountFailed(k)

\* What a step can do to UserAuthModel and to the calls.
LEMMA AccountSteps ==
  ASSUME SignUpTypeOK, [SignUpNext]_<<vars, appVars>>
  PROVE  \/ \E user \in Emails \cup {None} : checkStatus(user)
         \/ \E k \in DOMAIN asks : AccountAnswered(k)
         \/ \E k \in DOMAIN asks : Pending(k) /\ UNCHANGED <<fields, screens, accounts>>
         \/ UNCHANGED <<fields, asks, flow, accounts, overtaken>>
<1>1. ASSUME NEW user \in Emails \cup {None}, Restored(user)
      PROVE  \E u \in Emails \cup {None} : checkStatus(u)
  <2>1. CASE currentUser # None
    <3>1. checkStatus(currentUser) /\ currentUser \in Emails \cup {None}
      BY <1>1, <2>1 DEF Restored, SignUpTypeOK
    <3> QED
      BY <3>1
  <2>2. CASE currentUser = None
    <3>1. checkStatus(user)
      BY <1>1, <2>2 DEF Restored
    <3> QED
      BY <3>1
  <2> QED
    BY <2>1, <2>2
<1> QED
  BY <1>1
  DEF SignUpNext, Idle, appVars, screens, SignedIn, handleSignInButton, SignInCancelled, signOut, Pending,
      GetOwnerEmail, GetOwnerEmailThrows, AccountFailed, AddDogAppears, Save, Start, SendOwner,
      OwnerAnswered, UploadFailed, SendDog, ServerStep

-----------------------------------------------------------------------------
(***************************************************************************)
(* Types.                                                                  *)
(***************************************************************************)
\* The types of UserAuthModel, of the calls and of the number of SignUpViews.
AccountTypes ==
  /\ isLoggedIn \in BOOLEAN /\ hasAccount \in BOOLEAN
  /\ emailAddress \in Emails \cup {None}
  /\ isLoggedIn => emailAddress \in Emails
  /\ asks \in Seq(Calls) /\ Len(asks) <= MaxAsks
  /\ flow \in Nat
  /\ accounts \subseteq Emails /\ overtaken \in BOOLEAN

\* The number of SignUpViews stays within its bound.
LEMMA FlowBound ==
  ASSUME AccountTypes, FlowsCounted
  PROVE  flow \in Flows \cup {0}
<1>1. Cardinality(Applied) \in Nat /\ Cardinality(Applied) <= Len(asks) /\ Len(asks) \in Nat
  BY AppliedCounted DEF AccountTypes
<1>2. flow \in Nat /\ Len(asks) <= MaxAsks /\ MaxAsks \in Nat /\ flow <= Len(asks) + Cardinality(Applied)
  BY AsksAssumption DEF AccountTypes, FlowsCounted
<1>3. flow <= 2 * MaxAsks
  BY <1>1, <1>2
<1> QED
  BY <1>2, <1>3 DEF Flows

\* A SignUpView is counted when it comes onto the screen.
LEMMA RouteCounts ==
  ASSUME flow \in Nat, FlowsCounted, Route
  PROVE  flow' \in Nat /\ flow' <= flow + 1 /\ (SignUpShown' => flow' # 0)
<1>1. CASE isLoggedIn' /\ ~hasAccount' /\ ~SignUpShown
  BY <1>1 DEF Route
<1>2. CASE ~(isLoggedIn' /\ ~hasAccount' /\ ~SignUpShown)
  BY <1>2 DEF Route, FlowsCounted, SignUpShown, screens
<1> QED
  BY <1>1, <1>2

\* The calls that are answered or fail, the steps of Google and the answers
\* applied keep these types and the count.
LEMMA AccountTypeStep ==
  ASSUME SInv, [SignUpNext]_<<vars, appVars>>
  PROVE  AccountTypes' /\ FlowsCounted'
<1>1. AccountTypes /\ SignUpTypeOK /\ FlowsCounted
  BY DEF SInv, SignUpTypeOK, AccountTypes, Calls, Flows
<1>2. /\ asks \in Seq(Calls) /\ Len(asks) \in Nat /\ Len(asks) <= MaxAsks /\ MaxAsks \in Nat
      /\ Cardinality(Applied) \in Nat /\ flow \in Nat /\ flow <= Len(asks) + Cardinality(Applied)
  BY <1>1, AppliedCounted, AsksAssumption DEF AccountTypes, FlowsCounted
<1>3. ASSUME NEW user \in Emails \cup {None}, checkStatus(user)
      PROVE  AccountTypes' /\ FlowsCounted'
  <2>1. flow' \in Nat /\ flow' <= flow + 1 /\ (SignUpShown' => flow' # 0)
    BY <1>1, <1>2, <1>3, StatusFacts, RouteCounts
  <2>2. CASE isLoggedIn' = FALSE /\ UNCHANGED <<emailAddress, asks, accounts>>
    <3>1. UNCHANGED <<hasAccount, overtaken>> /\ Route
      BY <1>3, StatusFacts
    <3>2. flow' = flow
      BY <2>2, <3>1 DEF Route, screens
    <3> QED
      BY <1>1, <2>1, <2>2, <3>1, <3>2 DEF AccountTypes, FlowsCounted, Applied
  <2>3. CASE /\ user \in Emails /\ Len(asks) < MaxAsks
             /\ isLoggedIn' = TRUE /\ emailAddress' = user
             /\ asks' = Append(asks, Ask(user)) /\ accounts' = accounts \cup {user}
    <3>1. UNCHANGED <<hasAccount, overtaken>>
      BY <1>3, StatusFacts
    <3>2. asks' \in Seq(Calls) /\ Len(asks') = Len(asks) + 1 /\ Applied' = Applied
      BY <1>2, <2>3, CallAdded
    <3>3. flow' <= Len(asks') + Cardinality(Applied')
      BY <1>2, <2>1, <3>2
    <3>4. Len(asks') <= MaxAsks
      BY <1>2, <2>3, <3>2
    <3> QED
      BY <1>1, <2>1, <2>3, <3>1, <3>2, <3>3, <3>4 DEF AccountTypes, FlowsCounted
  <2> QED
    BY <1>3, <2>2, <2>3, StatusFacts
<1>4. ASSUME NEW k \in DOMAIN asks, AccountAnswered(k)
      PROVE  AccountTypes' /\ FlowsCounted'
  <2>1. /\ hasAccount' \in BOOLEAN /\ UNCHANGED <<isLoggedIn, emailAddress, accounts>> /\ Route
        /\ overtaken' \in BOOLEAN
    BY <1>4 DEF AccountAnswered, NoteOrder
  <2>2. PICK c \in Calls : /\ asks' = [asks EXCEPT ![k] = c] /\ asks[k].stage = "answered"
                           /\ c.stage = "applied"
    BY <1>2, <1>4, CallFacts
  <2>3. asks' \in Seq(Calls) /\ Len(asks') = Len(asks) /\ Applied' = Applied \cup {k}
    BY <1>2, <2>2, CallChanged
  <2>4. k \notin Applied
    BY <2>2 DEF Applied
  <2>5. Cardinality(Applied') = Cardinality(Applied) + 1
    BY <1>2, <2>3, <2>4, AppliedCounted, FS_AddElement
  <2>6. flow' \in Nat /\ flow' <= flow + 1 /\ (SignUpShown' => flow' # 0)
    BY <1>1, <1>2, <2>1, RouteCounts
  <2>7. flow' <= Len(asks') + Cardinality(Applied')
    BY <1>2, <2>3, <2>5, <2>6
  <2> QED
    BY <1>1, <2>1, <2>3, <2>6, <2>7 DEF AccountTypes, FlowsCounted
<1>5. ASSUME NEW k \in DOMAIN asks, Pending(k), UNCHANGED <<fields, screens, accounts>>
      PROVE  AccountTypes' /\ FlowsCounted'
  <2>1. overtaken' \in BOOLEAN
    BY <1>1, <1>5 DEF Pending, GetOwnerEmail, GetOwnerEmailThrows, AccountFailed, NoteOrder, AccountTypes
  <2>2. PICK c \in Calls : /\ asks' = [asks EXCEPT ![k] = c] /\ asks[k].stage # "applied"
                           /\ c.stage # "applied"
    BY <1>2, <1>5, CallFacts DEF Pending
  <2>3. asks' \in Seq(Calls) /\ Len(asks') = Len(asks) /\ Applied' = Applied
    BY <1>2, <2>2, CallChanged
  <2> QED
    BY <1>1, <1>5, <2>1, <2>3 DEF AccountTypes, FlowsCounted, fields, screens, SignUpShown
<1>6. ASSUME UNCHANGED <<fields, asks, flow, accounts, overtaken>>
      PROVE  AccountTypes' /\ FlowsCounted'
  BY <1>1, <1>6 DEF AccountTypes, FlowsCounted, fields, SignUpShown, Applied
<1> QED
  BY <1>1, <1>3, <1>4, <1>5, <1>6, AccountSteps

\* The types of the forms and of Google's objects.
FormTypes ==
  /\ currentUser \in Emails \cup {None}
  /\ restoring \in BOOLEAN /\ prompting \in BOOLEAN
  /\ page \in Pages
  /\ OwnerEmail \in [Flows -> Emails \cup {None}]
  /\ OwnerID \in [Flows -> OwnerPosts \cup {NoId}]
  /\ stage \in [Requests -> {"none", "started", "sent", "ended", "failed"}]
  /\ task \in [Requests -> Flows \cup {0}]
  /\ known \in [DogPosts -> SUBSET OwnerPosts]
  /\ losses \in 0..MaxLosses

\* Every step keeps them: what POST /Owner has answered with 201 is the id of
\* an owner.
LEMMA FormTypeStep ==
  ASSUME SInv, [SignUpNext]_<<vars, appVars>>
  PROVE  FormTypes'
<1>1. FormTypes /\ SignUpTypeOK /\ flow \in Flows \cup {0}
  BY DEF SInv, SignUpTypeOK, FormTypes
<1> USE AsksAssumption DEF FormTypes, Pages, google, fields, screens, objects, tasks, Lose
<1>2. ASSUME NEW user \in Emails \cup {None}, checkStatus(user), restoring' \in BOOLEAN, prompting' \in BOOLEAN
      PROVE  FormTypes'
  BY <1>1, <1>2 DEF checkStatus, Route
<1>3. ASSUME NEW user \in Emails \cup {None}, Restored(user) PROVE FormTypes'
  <2>1. (IF currentUser # None THEN currentUser ELSE user) \in Emails \cup {None}
    BY <1>1
  <2> QED
    BY <1>1, <1>2, <1>3, <2>1 DEF Restored
<1>4. ASSUME NEW user \in Emails, SignedIn(user) PROVE FormTypes'
  BY <1>1, <1>2, <1>4 DEF SignedIn
<1>5. CASE handleSignInButton \/ SignInCancelled \/ signOut
  BY <1>1, <1>2, <1>5 DEF handleSignInButton, SignInCancelled, signOut
<1>6. ASSUME NEW k \in DOMAIN asks,
             GetOwnerEmail(k) \/ GetOwnerEmailThrows(k) \/ AccountAnswered(k) \/ AccountFailed(k)
      PROVE  FormTypes'
  BY <1>1, <1>6 DEF GetOwnerEmail, GetOwnerEmailThrows, AccountAnswered, AccountFailed, Route
<1>7. ASSUME NEW r \in Requests, AddDogAppears(r) \/ Save(r) PROVE FormTypes'
  <2>1. isLoggedIn /\ emailAddress \in Emails
    BY <1>1, <1>7 DEF AddDogAppears, Save, Start, SignUpShown, SignUpTypeOK
  <2> QED
    BY <1>1, <1>7, <2>1 DEF AddDogAppears, Save, Start
<1>8. ASSUME NEW r \in Requests, SendOwner(r) \/ UploadFailed(r) PROVE FormTypes'
  BY <1>1, <1>8 DEF SendOwner, UploadFailed
<1>9. ASSUME NEW r \in Requests, OwnerAnswered(r) PROVE FormTypes'
  <2>1. response[r] = "201" => id[r] \in OwnerPosts \cup {NoId}
    BY <1>9 DEF OwnerAnswered, SInv, IInv, OwnerIds, Skipped
  <2> QED
    BY <1>1, <1>9, <2>1 DEF OwnerAnswered
<1>10. ASSUME NEW r \in Requests, SendDog(r) PROVE FormTypes'
  BY <1>1, <1>10 DEF SendDog
<1>11. CASE ServerStep \/ Idle \/ UNCHANGED <<vars, appVars>>
  BY <1>1, <1>11 DEF ServerStep, Idle, appVars
<1> QED
  BY <1>3, <1>4, <1>5, <1>6, <1>7, <1>8, <1>9, <1>10, <1>11 DEF SignUpNext

-----------------------------------------------------------------------------
(***************************************************************************)
(* The forms.                                                              *)
(***************************************************************************)
\* A form starts a Task: the SignUpView on the screen is the one it belongs to.
LEMMA StartFacts ==
  ASSUME SInv, NEW r \in Requests, AddDogAppears(r) \/ Save(r)
  PROVE  /\ UNCHANGED <<vars, OwnerID, known>> /\ stage[r] = "none" /\ flow \in Flows
         /\ stage'[r] = "started" /\ task'[r] = flow
         /\ \A q \in Requests : q # r => stage'[q] = stage[q] /\ task'[q] = task[q]
         /\ r \in OwnerPosts => OwnerEmail'[flow] \in Emails
         /\ \A f \in Flows : OwnerEmail[f] \in Emails => OwnerEmail'[f] \in Emails
<1>1. FormTypes /\ flow \in Flows \cup {0}
  BY DEF SInv, SignUpTypeOK, FormTypes
<1>2. SignUpShown /\ Start(r)
  BY DEF AddDogAppears, Save, Start
<1>3. flow \in Flows /\ emailAddress \in Emails
  BY <1>1, <1>2 DEF SInv, FlowsCounted, SignUpShown, SignUpTypeOK
<1>4. /\ UNCHANGED <<vars, OwnerID, known>> /\ stage[r] = "none"
      /\ stage'[r] = "started" /\ task'[r] = flow
      /\ \A q \in Requests : q # r => stage'[q] = stage[q] /\ task'[q] = task[q]
  BY <1>1, <1>2 DEF Start, FormTypes
<1>5. CASE AddDogAppears(r)
  BY <1>1, <1>3, <1>4, <1>5 DEF AddDogAppears, FormTypes
<1>6. CASE Save(r)
  BY <1>3, <1>4, <1>6, PostsAssumption DEF Save
<1> QED
  BY <1>5, <1>6

\* A Task gets on, on the phone.
LEMMA StageFacts ==
  ASSUME SInv, NEW r \in Requests, SendOwner(r) \/ OwnerAnswered(r) \/ UploadFailed(r) \/ SendDog(r)
  PROVE  /\ stage[r] \in {"started", "sent"} /\ stage'[r] \in {"sent", "ended", "failed"}
         /\ stage'[r] = "ended" <=> OwnerAnswered(r)
         /\ UNCHANGED <<task, OwnerEmail>>
         /\ \A q \in Requests : q # r => stage'[q] = stage[q]
<1>1. FormTypes
  BY DEF SInv, SignUpTypeOK, FormTypes
<1>2. CASE SendOwner(r)
  BY <1>1, <1>2 DEF SendOwner, OwnerAnswered, FormTypes, objects
<1>3. CASE OwnerAnswered(r)
  BY <1>1, <1>3 DEF OwnerAnswered, FormTypes
<1>4. CASE UploadFailed(r)
  BY <1>1, <1>4 DEF UploadFailed, OwnerAnswered, FormTypes, objects
<1>5. CASE SendDog(r)
  BY <1>1, <1>5 DEF SendDog, OwnerAnswered, FormTypes, objects
<1> QED
  BY <1>2, <1>3, <1>4, <1>5

\* What a step can do to the forms and to the server.
LEMMA FormSteps ==
  ASSUME [SignUpNext]_<<vars, appVars>>
  PROVE  \/ \E r \in Requests : AddDogAppears(r) \/ Save(r)
         \/ \E r \in Requests : SendOwner(r) \/ SendDog(r)
         \/ \E r \in Requests : (OwnerAnswered(r) \/ UploadFailed(r)) /\ UNCHANGED <<vars, known>>
         \/ ServerStep
         \/ UNCHANGED <<vars, objects, tasks>>
  BY DEF SignUpNext, Idle, appVars, Restored, SignedIn, handleSignInButton, SignInCancelled, signOut, checkStatus,
         GetOwnerEmail, GetOwnerEmailThrows, AccountAnswered, AccountFailed, OwnerAnswered, UploadFailed

\* A statement of the server leaves the phone alone.
LEMMA ServerFacts ==
  ASSUME SInv, ServerStep
  PROVE  /\ Settled /\ UNCHANGED <<body, OwnerEmail, OwnerID, stage, task, known>>
         /\ \A q \in Requests : pc[q] = "new" => pc'[q] = "new"
<1>1. PICK r \in Requests : Step(r)
  BY DEF ServerStep
<1>2. TypeOK
  BY DEF SInv, IInv
<1>3. /\ Settled /\ UNCHANGED body /\ pc[r] # "new"
      /\ \A q \in Requests : q # r => pc'[q] = pc[q]
  BY <1>1, <1>2, StatementSettles
<1> QED
  BY <1>3 DEF ServerStep, appVars, objects, tasks

\* A Task sends its request: the server receives what the object holds now.
LEMMA SendFacts ==
  ASSUME SInv, NEW r \in Requests, SendOwner(r) \/ SendDog(r)
  PROVE  /\ Settled /\ pc[r] = "new" /\ pc'[r] # "new" /\ stage[r] = "started" /\ stage'[r] = "sent"
         /\ UNCHANGED <<owners, id, response, OwnerID>>
         /\ \A q \in Requests : q # r => pc'[q] = pc[q] /\ body'[q] = body[q]
<1>1. TypeOK /\ FormTypes
  BY DEF SInv, IInv, SignUpTypeOK, FormTypes
<1>2. stage[r] = "started" /\ stage'[r] = "sent" /\ UNCHANGED OwnerID
  BY <1>1 DEF SendOwner, SendDog, FormTypes, objects
<1>3. \E b : \E first \in {"checkEmail", "insertDog"} : Receive(r, b, first)
  BY DEF SendOwner, SendDog, ReceiveOwner
<1> QED
  BY <1>1, <1>2, <1>3, ReceiveSettles

\* Nothing that was told or sent is untold: tasks stay with their SignUpView
\* and answers with their requests.
LEMMA FormsSettled ==
  ASSUME SInv, [SignUpNext]_<<vars, appVars>>
  PROVE  /\ Settled
         /\ \A q \in Requests :
              /\ stage[q] # "none" => stage'[q] # "none" /\ task'[q] = task[q]
              /\ stage[q] = "ended" => stage'[q] = "ended"
<1>1. ASSUME UNCHANGED vars PROVE Settled
  BY <1>1 DEF vars, Settled, tables
<1>2. ASSUME NEW r \in Requests, AddDogAppears(r) \/ Save(r)
      PROVE  Settled /\ \A q \in Requests :
               /\ stage[q] # "none" => stage'[q] # "none" /\ task'[q] = task[q]
               /\ stage[q] = "ended" => stage'[q] = "ended"
  <2>1. /\ UNCHANGED vars /\ stage[r] = "none"
        /\ \A q \in Requests : q # r => stage'[q] = stage[q] /\ task'[q] = task[q]
    BY <1>2, StartFacts
  <2> QED
    BY <1>1, <2>1
<1>3. ASSUME NEW r \in Requests, SendOwner(r) \/ OwnerAnswered(r) \/ UploadFailed(r) \/ SendDog(r)
      PROVE  \A q \in Requests :
               /\ stage[q] # "none" => stage'[q] # "none" /\ task'[q] = task[q]
               /\ stage[q] = "ended" => stage'[q] = "ended"
  <2>1. /\ stage[r] \in {"started", "sent"} /\ stage'[r] \in {"sent", "ended", "failed"} /\ task' = task
        /\ \A q \in Requests : q # r => stage'[q] = stage[q]
    BY <1>3, StageFacts
  <2> QED
    BY <2>1
<1>4. ASSUME NEW r \in Requests, SendOwner(r) \/ SendDog(r) PROVE Settled
  BY <1>4, SendFacts
<1>5. ASSUME UNCHANGED <<vars, objects, tasks>>
      PROVE  \A q \in Requests :
               /\ stage[q] # "none" => stage'[q] # "none" /\ task'[q] = task[q]
               /\ stage[q] = "ended" => stage'[q] = "ended"
  BY <1>5 DEF tasks
<1>6. CASE ServerStep
  BY <1>6, ServerFacts
<1> QED
  BY <1>1, <1>2, <1>3, <1>4, <1>5, <1>6, FormSteps

\* Every step keeps what the Tasks know of their requests.
LEMMA TasksStep ==
  ASSUME SInv, [SignUpNext]_<<vars, appVars>>
  PROVE  TasksOK'
<1>1. TasksOK /\ FormTypes
  BY DEF SInv, SignUpTypeOK, FormTypes
<1>2. ASSUME NEW r \in Requests, AddDogAppears(r) \/ Save(r) PROVE TasksOK'
  <2>1. /\ UNCHANGED <<pc, body, known>> /\ stage[r] = "none" /\ flow \in Flows
        /\ stage'[r] = "started" /\ task'[r] = flow
        /\ \A q \in Requests : q # r => stage'[q] = stage[q] /\ task'[q] = task[q]
        /\ r \in OwnerPosts => OwnerEmail'[flow] \in Emails
        /\ \A f \in Flows : OwnerEmail[f] \in Emails => OwnerEmail'[f] \in Emails
    BY <1>2, StartFacts DEF vars
  <2>2. flow # 0
    BY <2>1, AsksAssumption DEF Flows
  <2>3. \A q \in Requests : stage[q] # "none" => task[q] \in Flows
    BY <1>1 DEF TasksOK, FormTypes
  <2> QED
    BY <1>1, <2>1, <2>2, <2>3 DEF TasksOK, Requests
<1>3. ASSUME NEW r \in Requests, SendOwner(r) \/ SendDog(r) PROVE TasksOK'
  <2>1. /\ pc[r] = "new" /\ pc'[r] # "new" /\ stage[r] = "started" /\ stage'[r] = "sent"
        /\ \A q \in Requests : q # r => pc'[q] = pc[q] /\ body'[q] = body[q]
    BY <1>3, SendFacts
  <2>2. UNCHANGED <<task, OwnerEmail>> /\ \A q \in Requests : q # r => stage'[q] = stage[q]
    BY <1>3, StageFacts
  <2>3. \A q \in DogPosts : q # r => known'[q] = known[q]
    BY <1>1, <1>3 DEF SendOwner, SendDog, FormTypes
  <2> QED
    BY <1>1, <2>1, <2>2, <2>3 DEF TasksOK, Requests
<1>4. ASSUME NEW r \in Requests, OwnerAnswered(r) \/ UploadFailed(r), UNCHANGED <<vars, known>> PROVE TasksOK'
  <2>1. /\ stage[r] \in {"started", "sent"} /\ stage'[r] \in {"sent", "ended", "failed"}
        /\ stage'[r] = "ended" <=> OwnerAnswered(r)
        /\ UNCHANGED <<task, OwnerEmail>>
        /\ \A q \in Requests : q # r => stage'[q] = stage[q]
    BY <1>4, StageFacts
  <2>2. UNCHANGED <<pc, body, known>> /\ (OwnerAnswered(r) => pc[r] = "done")
    BY <1>4 DEF vars, OwnerAnswered
  <2>3. stage'[r] \notin {"none", "started"}
    BY <2>1
  <2> QED
    BY <1>1, <2>1, <2>2, <2>3 DEF TasksOK, Requests
<1>5. CASE ServerStep
  <2>1. /\ UNCHANGED <<body, OwnerEmail, stage, task, known>>
        /\ \A q \in Requests : pc[q] = "new" => pc'[q] = "new"
        /\ \A q \in Requests : pc[q] # "new" => pc'[q] # "new"
        /\ \A q \in Requests : pc[q] = "done" => pc'[q] = "done"
    BY <1>5, ServerFacts DEF Settled
  <2> QED
    BY <1>1, <2>1 DEF TasksOK, Requests
<1>6. CASE UNCHANGED <<vars, objects, tasks>>
  BY <1>1, <1>6 DEF TasksOK, Requests, vars, objects, tasks
<1> QED
  BY <1>2, <1>3, <1>4, <1>5, <1>6, FormSteps

\* What a SignUpView was told it stays told; OwnerAnswered tells it.
LEMMA ToldSteps ==
  ASSUME SInv, [SignUpNext]_<<vars, appVars>>, NEW f \in Flows
  PROVE  /\ \A q \in Told(f) : q \in Told(f)' /\ id'[q] = id[q]
         /\ \A q \in Told(f)' : q \in Told(f) \/ (OwnerAnswered(q) /\ task[q] = f /\ response[q] = "201")
         /\ Refused(f) \subseteq Refused(f)'
<1>1. TasksOK /\ OwnerPosts \subseteq Requests
  BY DEF SInv, Requests
<1>2. /\ Settled
      /\ \A q \in Requests :
           /\ stage[q] # "none" => stage'[q] # "none" /\ task'[q] = task[q]
           /\ stage[q] = "ended" => stage'[q] = "ended"
  BY FormsSettled
<1>3. ASSUME NEW q \in Told(f) PROVE q \in Told(f)' /\ id'[q] = id[q]
  BY <1>1, <1>2 DEF Told, TasksOK, Settled
<1>4. ASSUME NEW q \in OwnerPosts, stage'[q] = "ended", stage[q] # "ended"
      PROVE  OwnerAnswered(q) /\ UNCHANGED <<task, response>>
  <2>1. CASE \E r \in Requests : AddDogAppears(r) \/ Save(r)
    BY <1>1, <1>4, <2>1, StartFacts
  <2>2. ASSUME NEW r \in Requests, SendOwner(r) \/ SendDog(r) PROVE FALSE
    <3>1. stage'[r] = "sent" /\ \A p \in Requests : p # r => stage'[p] = stage[p]
      BY <2>2, SendFacts, StageFacts
    <3> QED
      BY <1>1, <1>4, <3>1
  <2>3. ASSUME NEW r \in Requests, OwnerAnswered(r) \/ UploadFailed(r), UNCHANGED <<vars, known>>
        PROVE  OwnerAnswered(q) /\ UNCHANGED <<task, response>>
    <3>1. /\ stage'[r] = "ended" <=> OwnerAnswered(r)
          /\ UNCHANGED task /\ \A p \in Requests : p # r => stage'[p] = stage[p]
      BY <2>3, StageFacts
    <3> QED
      BY <1>1, <1>4, <2>3, <3>1 DEF vars
  <2>4. CASE ServerStep
    BY <1>4, <2>4, ServerFacts
  <2>5. CASE UNCHANGED <<vars, objects, tasks>>
    BY <1>4, <2>5 DEF tasks
  <2> QED
    BY <2>1, <2>2, <2>3, <2>4, <2>5, FormSteps
<1>5. ASSUME NEW q \in Told(f)'
      PROVE  q \in Told(f) \/ (OwnerAnswered(q) /\ task[q] = f /\ response[q] = "201")
  <2>1. q \in OwnerPosts /\ task'[q] = f /\ stage'[q] = "ended" /\ response'[q] = "201"
    BY <1>5 DEF Told
  <2>2. CASE stage[q] = "ended"
    BY <1>1, <1>2, <2>1, <2>2 DEF Told, TasksOK, Settled
  <2>3. CASE stage[q] # "ended"
    BY <1>4, <2>1, <2>3
  <2> QED
    BY <2>2, <2>3
<1>6. ASSUME NEW p \in Refused(f) PROVE p \in Refused(f)'
  BY <1>1, <1>2 DEF Refused, TasksOK, Settled
<1> QED
  BY <1>3, <1>5, <1>6

\* The answer to a sign-up.
LEMMA AnswerFacts ==
  ASSUME SInv, NEW r \in Requests, OwnerAnswered(r)
  PROVE  /\ r \in OwnerPosts /\ task[r] \in Flows
         /\ UNCHANGED <<vars, task>> /\ stage'[r] = "ended"
         /\ \A q \in Requests : q # r => ~OwnerAnswered(q)
         /\ \A f \in Flows : f # task[r] => OwnerID'[f] = OwnerID[f]
         /\ OwnerID'[task[r]] = IF response[r] = "201" THEN id[r]
                                ELSE IF response[r] = "400" THEN NoId ELSE OwnerID[task[r]]
         /\ response[r] = "201" => id[r] \in OwnerPosts \/ \A q \in Requests : id[q] = NoId
<1>1. FormTypes /\ TasksOK
  BY DEF SInv, SignUpTypeOK, FormTypes
<1>2. r \in OwnerPosts /\ task[r] \in Flows /\ UNCHANGED <<vars, task>> /\ stage'[r] = "ended" /\ stage[r] = "sent"
  BY <1>1 DEF OwnerAnswered, FormTypes, TasksOK
<1>3. ASSUME NEW q \in Requests, q # r, OwnerAnswered(q) PROVE FALSE
  <2>1. stage'[q] = stage[q]
    BY <1>3, StageFacts
  <2> QED
    BY <1>1, <1>3, <2>1 DEF OwnerAnswered, FormTypes
<1>4. /\ \A f \in Flows : f # task[r] => OwnerID'[f] = OwnerID[f]
      /\ OwnerID'[task[r]] = IF response[r] = "201" THEN id[r]
                             ELSE IF response[r] = "400" THEN NoId ELSE OwnerID[task[r]]
  BY <1>1, <1>2 DEF OwnerAnswered, FormTypes
<1>5. response[r] = "201" => id[r] \in OwnerPosts \/ \A q \in Requests : id[q] = NoId
  BY <1>2 DEF SInv, IInv, OwnerIds, Skipped
<1> QED
  BY <1>2, <1>3, <1>4, <1>5

\* Otherwise the form keeps its OwnerID.
LEMMA OwnerIDKept ==
  ASSUME SInv, [SignUpNext]_<<vars, appVars>>, \A r \in Requests : ~OwnerAnswered(r)
  PROVE  UNCHANGED OwnerID
<1>1. CASE \E r \in Requests : AddDogAppears(r) \/ Save(r)
  BY <1>1, StartFacts
<1>2. CASE \E r \in Requests : SendOwner(r) \/ SendDog(r)
  BY <1>2, SendFacts
<1>3. CASE \E r \in Requests : UploadFailed(r)
  BY <1>3 DEF UploadFailed, objects
<1>4. CASE ServerStep
  BY <1>4, ServerFacts
<1>5. CASE UNCHANGED <<vars, objects, tasks>>
  BY <1>5 DEF objects
<1> QED
  BY <1>1, <1>2, <1>3, <1>4, <1>5, FormSteps

\* A form's OwnerID is one it was told, and forgotten only for a refusal.
LEMMA OwnerIDStep ==
  ASSUME SInv, [SignUpNext]_<<vars, appVars>>
  PROVE  OwnerIDTold' /\ OwnerIDForgotten'
<1>1. OwnerIDTold /\ OwnerIDForgotten /\ OwnerPosts \subseteq Requests
  BY DEF SInv, Requests
<1>2. ASSUME NEW f \in Flows, OwnerID'[f] = OwnerID[f], Told(f)' \subseteq Told(f)
      PROVE  /\ OwnerID'[f] # NoId => \E q \in Told(f)' : OwnerID'[f] = id'[q]
             /\ OwnerID'[f] = NoId /\ Told(f)' # {} => Refused(f)' # {}
  <2>1. ASSUME OwnerID'[f] # NoId PROVE \E q \in Told(f)' : OwnerID'[f] = id'[q]
    BY <1>1, <1>2, <2>1, ToldSteps DEF OwnerIDTold
  <2>2. ASSUME OwnerID'[f] = NoId, Told(f)' # {} PROVE Refused(f)' # {}
    <3>1. Refused(f) # {}
      BY <1>1, <1>2, <2>2 DEF OwnerIDForgotten
    <3> QED
      BY <3>1, ToldSteps
  <2> QED
    BY <2>1, <2>2
<1>3. ASSUME \A f \in Flows :
               /\ OwnerID'[f] # NoId => \E q \in Told(f)' : OwnerID'[f] = id'[q]
               /\ OwnerID'[f] = NoId /\ Told(f)' # {} => Refused(f)' # {}
      PROVE  OwnerIDTold' /\ OwnerIDForgotten'
  BY <1>3 DEF OwnerIDTold, OwnerIDForgotten
<1>4. CASE \A r \in Requests : ~OwnerAnswered(r)
  <2>1. UNCHANGED OwnerID
    BY <1>4, OwnerIDKept
  <2>2. \A f \in Flows : Told(f)' \subseteq Told(f)
    <3> SUFFICES ASSUME NEW f \in Flows, NEW q \in Told(f)' PROVE q \in Told(f)
      OBVIOUS
    <3>1. q \in OwnerPosts
      BY DEF Told
    <3> QED
      BY <1>1, <1>4, <3>1, ToldSteps
  <2> QED
    BY <1>2, <1>3, <2>1, <2>2
<1>5. ASSUME NEW r \in Requests, OwnerAnswered(r) PROVE OwnerIDTold' /\ OwnerIDForgotten'
  <2>1. /\ r \in OwnerPosts /\ task[r] \in Flows
        /\ UNCHANGED <<vars, task>> /\ stage'[r] = "ended"
        /\ \A q \in Requests : q # r => ~OwnerAnswered(q)
        /\ \A f \in Flows : f # task[r] => OwnerID'[f] = OwnerID[f]
        /\ OwnerID'[task[r]] = IF response[r] = "201" THEN id[r]
                               ELSE IF response[r] = "400" THEN NoId ELSE OwnerID[task[r]]
        /\ response[r] = "201" => id[r] \in OwnerPosts \/ \A q \in Requests : id[q] = NoId
    BY <1>5, AnswerFacts
  <2>2. UNCHANGED <<id, response>>
    BY <2>1 DEF vars
  <2>3. ASSUME NEW f \in Flows, f # task[r] \/ response[r] # "201"
        PROVE  Told(f)' \subseteq Told(f)
    <3> SUFFICES ASSUME NEW q \in Told(f)' PROVE q \in Told(f)
      OBVIOUS
    <3>1. q \in OwnerPosts
      BY DEF Told
    <3> QED
      BY <1>1, <2>1, <2>3, <3>1, ToldSteps
  <2> SUFFICES ASSUME NEW f \in Flows
               PROVE  /\ OwnerID'[f] # NoId => \E q \in Told(f)' : OwnerID'[f] = id'[q]
                      /\ OwnerID'[f] = NoId /\ Told(f)' # {} => Refused(f)' # {}
    BY <1>3
  <2>4. CASE f # task[r]
    BY <1>2, <2>1, <2>3, <2>4
  <2>5. CASE f = task[r] /\ response[r] = "201"
    <3>1. CASE id[r] \in OwnerPosts
      <4>1. OwnerID'[f] = id'[r] /\ id'[r] # NoId
        BY <2>1, <2>2, <2>5, <3>1, PostsAssumption DEF NoId
      <4>2. r \in Told(f)'
        BY <2>1, <2>2, <2>5, <4>1 DEF Told
      <4> QED
        BY <4>1, <4>2
    <3>2. CASE \A q \in Requests : id[q] = NoId
      <4>1. OwnerID'[f] = NoId /\ Told(f)' = {}
        BY <1>1, <2>1, <2>2, <2>5, <3>2 DEF Told
      <4> QED
        BY <4>1
    <3> QED
      BY <2>1, <2>5, <3>1, <3>2
  <2>6. CASE f = task[r] /\ response[r] = "400"
    <3>1. OwnerID'[f] = NoId
      BY <2>1, <2>6
    <3>2. r \in Refused(f)'
      BY <2>1, <2>2, <2>6 DEF Refused
    <3> QED
      BY <3>1, <3>2
  <2>7. CASE f = task[r] /\ response[r] \notin {"201", "400"}
    BY <1>2, <2>1, <2>3, <2>7
  <2> QED
    BY <2>4, <2>5, <2>6, <2>7
<1> QED
  BY <1>4, <1>5

\* The server knows of a dog what SendDog sent.
LEMMA DogSteps ==
  ASSUME SInv, [SignUpNext]_<<vars, appVars>>, NEW r \in DogPosts
  PROVE  \/ body'[r] = body[r] /\ known'[r] = known[r]
         \/ SendDog(r) /\ UNCHANGED <<owners, task>> /\ body'[r] = OwnerID[task[r]] /\ known'[r] = Told(task[r])
            /\ \A q \in OwnerPosts : body'[q] = body[q]
<1>1. FormTypes /\ TypeOK /\ r \in Requests /\ OwnerPosts \subseteq Requests /\ r \notin OwnerPosts
  BY PostsAssumption DEF SInv, IInv, SignUpTypeOK, FormTypes, Requests
<1>2. CASE \E q \in Requests : AddDogAppears(q) \/ Save(q)
  BY <1>2, StartFacts DEF vars
<1>3. ASSUME NEW q \in Requests, SendOwner(q) \/ SendDog(q), q # r
      PROVE  body'[r] = body[r] /\ known'[r] = known[r]
  <2>1. body'[r] = body[r]
    BY <1>1, <1>3, SendFacts
  <2>2. known'[r] = known[r]
    BY <1>1, <1>3 DEF SendOwner, SendDog, FormTypes
  <2> QED
    BY <2>1, <2>2
<1>4. ASSUME SendOwner(r) PROVE FALSE
  BY <1>1, <1>4 DEF SendOwner, ReceiveOwner
<1>5. ASSUME SendDog(r)
      PROVE  /\ UNCHANGED <<owners, task>> /\ body'[r] = OwnerID[task[r]] /\ known'[r] = Told(task[r])
             /\ \A q \in OwnerPosts : body'[q] = body[q]
  <2>1. Receive(r, OwnerID[task[r]], "insertDog") /\ task' = task
    BY <1>5 DEF SendDog
  <2>2. /\ body'[r] = OwnerID[task[r]] /\ UNCHANGED owners
        /\ \A q \in Requests : q # r => body'[q] = body[q]
    BY <1>1, <2>1, ReceiveSettles
  <2>3. known'[r] = Told(task[r])
    BY <1>1, <1>5 DEF SendDog, Told, FormTypes
  <2> QED
    BY <1>1, <2>1, <2>2, <2>3
<1>6. CASE ServerStep
  BY <1>6, ServerFacts
<1>7. ASSUME UNCHANGED <<vars, known>> PROVE body'[r] = body[r] /\ known'[r] = known[r]
  BY <1>7 DEF vars
<1>8. CASE UNCHANGED <<vars, objects, tasks>>
  BY <1>7, <1>8 DEF tasks
<1> QED
  BY <1>2, <1>3, <1>4, <1>5, <1>6, <1>7, <1>8, FormSteps

\* A dog stays with an owner of its form, or a sign-up of the form was refused.
LEMMA DogsStep ==
  ASSUME SInv, [SignUpNext]_<<vars, appVars>>
  PROVE  DogsStayInTheirForm' /\ ForgottenOwnerExplained'
<1>1. /\ TypeOK /\ OwnersStored /\ OwnerIds /\ Skipped /\ Bodies /\ TasksOK /\ FormTypes
      /\ OwnerIDTold /\ OwnerIDForgotten /\ DogsStayInTheirForm /\ ForgottenOwnerExplained
      /\ OwnerPosts \subseteq Requests /\ DogPosts \subseteq Requests
  BY DEF SInv, IInv, SignUpTypeOK, FormTypes, Requests
<1>2. /\ Settled
      /\ \A q \in Requests : stage[q] # "none" => task'[q] = task[q]
  BY FormsSettled
<1>3. ASSUME NEW r \in DogPosts, body'[r] # NoId
      PROVE  \E q \in OwnerPosts : task'[q] = task'[r] /\ body'[r] \in OwnersWith(body[q])'
  <2>1. CASE body'[r] = body[r]
    <3>1. PICK q \in OwnerPosts : task[q] = task[r] /\ body[r] \in OwnersWith(body[q])
      BY <1>1, <1>3, <2>1 DEF DogsStayInTheirForm
    <3>2. body[q] \in Emails /\ body[q] # NoId
      BY <1>1, <3>1, PostsAssumption DEF OwnersWith, TypeOK, NoId
    <3>3. pc[q] # "new" /\ pc[r] # "new"
      BY <1>1, <1>3, <2>1, <3>2 DEF TasksOK
    <3>4. stage[q] # "none" /\ stage[r] # "none"
      BY <1>1, <3>3 DEF TasksOK
    <3>5. body'[q] = body[q] /\ task'[q] = task'[r]
      BY <1>1, <1>2, <3>1, <3>3, <3>4 DEF Settled
    <3>6. body[r] \in OwnersWith(body[q])'
      BY <3>1, <3>5 , <1>2 DEF OwnersWith, Settled
    <3> QED
      BY <2>1, <3>5, <3>6
  <2>2. CASE body'[r] # body[r]
    <3>1. /\ SendDog(r) /\ UNCHANGED <<owners, task>> /\ body'[r] = OwnerID[task[r]]
          /\ \A q \in OwnerPosts : body'[q] = body[q]
      BY <2>2, DogSteps
    <3>2. task[r] \in Flows
      BY <1>1, <3>1 DEF SendDog, TasksOK, FormTypes
    <3>3. PICK q \in Told(task[r]) : OwnerID[task[r]] = id[q]
      BY <1>1, <1>3, <3>1, <3>2 DEF OwnerIDTold
    <3>4. q \in OwnerPosts /\ task[q] = task[r] /\ response[q] = "201" /\ configured
      BY <1>1 DEF Told, Skipped
    <3>5. id[q] \in OwnersWith(body[q])
      BY <1>1, <3>4, OwnersWithRows DEF OwnerIds
    <3> QED
      BY <3>1, <3>3, <3>4, <3>5 DEF OwnersWith
  <2> QED
    BY <2>1, <2>2
<1>4. ASSUME NEW r \in DogPosts, known'[r] # {}, body'[r] = NoId
      PROVE  \E p \in OwnerPosts, q \in known'[r] :
               p # q /\ task'[p] = task'[r] /\ task'[q] = task'[r] /\ response'[p] = "400"
  <2>1. CASE body'[r] = body[r] /\ known'[r] = known[r]
    <3>1. PICK p \in OwnerPosts, q \in known[r] :
            p # q /\ task[p] = task[r] /\ task[q] = task[r] /\ response[p] = "400"
      BY <1>1, <1>4, <2>1 DEF ForgottenOwnerExplained
    <3>2. q \in Requests /\ response'[p] = "400"
      BY <1>1, <1>2, <3>1 DEF FormTypes, Bodies, Settled
    <3>3. stage[r] # "none"
      BY <1>1, <1>4, <2>1 DEF TasksOK
    <3>4. stage[p] # "none" /\ stage[q] # "none"
      BY <1>1, <3>1, <3>2, <3>3 DEF TasksOK
    <3> QED
      BY <1>1, <1>2, <2>1, <3>1, <3>2, <3>3, <3>4
  <2>2. CASE ~(body'[r] = body[r] /\ known'[r] = known[r])
    <3>1. SendDog(r) /\ UNCHANGED task /\ body'[r] = OwnerID[task[r]] /\ known'[r] = Told(task[r])
      BY <2>2, DogSteps
    <3>2. task[r] \in Flows
      BY <1>1, <3>1 DEF SendDog, TasksOK, FormTypes
    <3>3. PICK p \in Refused(task[r]), q \in Told(task[r]) : TRUE
      BY <1>1, <1>4, <3>1, <3>2 DEF OwnerIDForgotten
    <3>4. /\ p \in OwnerPosts /\ q \in known'[r] /\ p # q /\ response[p] = "400"
          /\ task[p] = task[r] /\ task[q] = task[r]
      BY <3>1, <3>3 DEF Refused, Told
    <3>5. response'[p] = "400"
      BY <1>1, <1>2, <3>4 DEF Bodies, Settled
    <3> QED
      BY <3>1, <3>4, <3>5
  <2> QED
    BY <2>1, <2>2
<1> QED
  BY <1>3, <1>4 DEF DogsStayInTheirForm, ForgottenOwnerExplained

-----------------------------------------------------------------------------
(***************************************************************************)
(* The accounts.                                                           *)
(***************************************************************************)
\* The invariants about the calls and the accounts.
Accounts == AsksOK /\ AccountsOK /\ FoundStays /\ LastApplied

\* Every step keeps them.
LEMMA AccountsStep ==
  ASSUME SInv, [SignUpNext]_<<vars, appVars>>
  PROVE  Accounts'
<1>1. /\ SignUpTypeOK /\ AsksOK /\ AccountsOK /\ FoundStays /\ LastApplied
      /\ asks \in Seq(Calls) /\ Len(asks) \in Nat /\ DOMAIN asks = 1..Len(asks)
  BY DEF SInv, SignUpTypeOK, Calls
<1>2. \A e : OwnersWith(e) # {} => OwnersWith(e)' # {}
  BY FormsSettled, OwnersWithGrows DEF Settled
<1>3. ASSUME UNCHANGED <<asks, accounts, hasAccount, overtaken>>,
             isLoggedIn' => isLoggedIn /\ emailAddress' = emailAddress
      PROVE  Accounts'
  <2>1. Applied' = Applied
    BY <1>3 DEF Applied
  <2>2. AsksOK' /\ AccountsOK'
    <3>1. \A k \in DOMAIN asks : OwnersWith(asks[k].email) # {} => OwnersWith(asks[k].email)' # {}
      BY <1>2, <1>3 DEF OwnersWith
    <3> QED
      BY <1>1, <1>3, <2>1, <3>1 DEF AsksOK, AccountsOK
  <2>3. FoundStays' /\ LastApplied'
    BY <1>1, <1>3, <2>1 DEF FoundStays, LastApplied, OneAccount
  <2> QED
    BY <2>2, <2>3 DEF Accounts
<1>4. ASSUME NEW user \in Emails, UNCHANGED <<hasAccount, overtaken>>, isLoggedIn', emailAddress' = user,
             asks' = Append(asks, Ask(user)), accounts' = accounts \cup {user}
      PROVE  Accounts'
  <2> DEFINE n == Len(asks) + 1
  <2>1. /\ DOMAIN asks' = DOMAIN asks \cup {n}
        /\ \A j \in DOMAIN asks : j \in Nat /\ j < n /\ asks'[j] = asks[j]
        /\ asks'[n] = Ask(user) /\ Applied' = Applied
    BY <1>1, <1>4, CallAdded
  <2>2. Ask(user).email = user /\ Ask(user).stage = "sent" /\ Ask(user).answer = "none"
    BY DEF Ask
  <2> HIDE DEF n
  <2>3. \A j \in DOMAIN asks : OwnersWith(asks[j].email) # {} => OwnersWith(asks[j].email)' # {}
    BY <1>2, <2>1 DEF OwnersWith
  <2>4. Applied \subseteq DOMAIN asks
    BY DEF Applied
  <2>5. AsksOK'
    <3>1. ASSUME NEW k \in DOMAIN asks'
          PROVE  /\ asks'[k].email \in accounts'
                 /\ asks'[k].answer = "found" => OwnersWith(asks[k].email)' # {}
                 /\ asks'[k].stage \in {"answered", "applied"} => asks'[k].answer # "none"
      <4>1. CASE k \in DOMAIN asks
        BY <1>1, <1>4, <2>1, <2>3, <4>1 DEF AsksOK
      <4>2. CASE k = n
        BY <1>4, <2>1, <2>2, <4>2
      <4> QED
        BY <2>1, <3>1, <4>1, <4>2
    <3>2. hasAccount' => \E k \in Applied' : asks'[k].answer = "found"
      BY <1>1, <1>4, <2>1, <2>4 DEF AsksOK
    <3> QED
      BY <3>1, <3>2 DEF AsksOK
  <2>6. AccountsOK'
    BY <1>1, <1>4, FS_AddElement DEF AccountsOK
  <2>7. FoundStays'
    BY <1>1, <1>4, <2>1, <2>2 DEF FoundStays, OneAccount
  <2>8. LastApplied'
    BY <1>1, <1>4, <2>1, <2>4 DEF LastApplied
  <2> QED
    BY <2>5, <2>6, <2>7, <2>8 DEF Accounts
<1>5. ASSUME NEW user \in Emails \cup {None}, checkStatus(user) PROVE Accounts'
  BY <1>3, <1>4, <1>5, StatusFacts
<1>6. ASSUME NEW k \in DOMAIN asks, NEW c \in Calls, asks' = [asks EXCEPT ![k] = c],
             c.email = asks[k].email, c.answer = "found" => OwnersWith(c.email) # {},
             c.stage \in {"answered", "applied"} => c.answer # "none",
             UNCHANGED <<isLoggedIn, emailAddress, accounts>>,
             hasAccount' => \E j \in Applied' : asks'[j].answer = "found",
             FoundStays', LastApplied'
      PROVE  Accounts'
  <2>1. /\ DOMAIN asks' = DOMAIN asks /\ asks'[k] = c
        /\ \A j \in DOMAIN asks : j # k => asks'[j] = asks[j]
    BY <1>1, <1>6, CallChanged
  <2>2. ASSUME NEW j \in DOMAIN asks
        PROVE  /\ asks'[j].email \in accounts'
               /\ asks'[j].answer = "found" => OwnersWith(asks'[j].email) # {}
               /\ asks'[j].stage \in {"answered", "applied"} => asks'[j].answer # "none"
    BY <1>1, <1>6, <2>1 DEF AsksOK
  <2>3. ASSUME NEW j \in DOMAIN asks, OwnersWith(asks'[j].email) # {} PROVE OwnersWith(asks[j].email)' # {}
    BY <1>2, <2>3 DEF OwnersWith
  <2>4. AsksOK'
    BY <1>6, <2>1, <2>2, <2>3 DEF AsksOK
  <2>5. AccountsOK'
    BY <1>1, <1>6 DEF AccountsOK
  <2> QED
    BY <1>6, <2>4, <2>5 DEF Accounts
<1>7. ASSUME NEW k \in DOMAIN asks, AccountAnswered(k) PROVE Accounts'
  <2>1. /\ hasAccount' = (asks[k].answer = "found") /\ NoteOrder(k, {"applied"})
        /\ UNCHANGED <<isLoggedIn, emailAddress, accounts>>
    BY <1>7 DEF AccountAnswered
  <2>2. PICK c \in Calls : /\ asks' = [asks EXCEPT ![k] = c] /\ asks[k].stage = "answered"
                           /\ c.email = asks[k].email /\ c.stage = "applied" /\ c.answer = asks[k].answer
    BY <1>1, <1>7, CallFacts
  <2>3. /\ DOMAIN asks' = DOMAIN asks /\ asks'[k] = c /\ Applied' = Applied \cup {k}
        /\ \A j \in DOMAIN asks : j # k => asks'[j] = asks[j]
    BY <1>1, <2>2, CallChanged
  <2>4. ~overtaken' => ~overtaken /\ \A j \in DOMAIN asks : ~(j > k /\ asks[j].stage = "applied")
    BY <2>1 DEF NoteOrder
  <2>5. FoundStays'
    <3> SUFFICES ASSUME OneAccount', ~overtaken', NEW i \in DOMAIN asks, NEW j \in DOMAIN asks,
                        i < j, asks'[i].answer = "found", asks'[j].stage \in {"answered", "applied"}
                 PROVE  asks'[j].answer # "default"
      BY <2>3 DEF FoundStays
    <3>1. asks'[i].answer = asks[i].answer /\ asks'[j].answer = asks[j].answer
      BY <2>2, <2>3
    <3>2. asks[j].stage \in {"answered", "applied"}
      BY <2>2, <2>3
    <3>3. OneAccount /\ ~overtaken
      BY <2>1, <2>4 DEF OneAccount
    <3> QED
      BY <1>1, <3>1, <3>2, <3>3 DEF FoundStays
  <2>6. LastApplied'
    <3> SUFFICES ASSUME ~overtaken', ~hasAccount'
                 PROVE  \E i \in Applied' : asks'[i].answer # "found" /\ \A j \in Applied' : j <= i
      BY DEF LastApplied
    <3>1. k \in Applied' /\ asks'[k].answer # "found"
      BY <2>1, <2>2, <2>3
    <3>2. ASSUME NEW j \in Applied' PROVE j <= k
      <4>1. j \in DOMAIN asks /\ (j = k \/ asks[j].stage = "applied")
        BY <2>3 DEF Applied
      <4>2. j \in Nat /\ k \in Nat
        BY <1>1, <4>1
      <4> QED
        BY <2>4, <4>1, <4>2
    <3> QED
      BY <3>1, <3>2
  <2>7. asks[k].answer = "found" => OwnersWith(asks[k].email) # {}
    BY <1>1 DEF AsksOK
  <2>8. asks[k].answer # "none"
    BY <1>1, <2>2 DEF AsksOK
  <2> QED
    BY <1>6, <2>1, <2>2, <2>3, <2>5, <2>6, <2>7, <2>8
<1>8. ASSUME NEW k \in DOMAIN asks, Pending(k), UNCHANGED <<fields, screens, accounts>> PROVE Accounts'
  <2>1. UNCHANGED <<isLoggedIn, emailAddress, accounts, hasAccount>>
    BY <1>8 DEF fields
  <2>2. PICK c \in Calls :
          /\ asks' = [asks EXCEPT ![k] = c] /\ asks[k].stage # "applied"
          /\ c.email = asks[k].email /\ c.stage \in {"answered", "failed"}
          /\ \/ /\ GetOwnerEmail(k) /\ c.stage = "answered"
                /\ c.answer = IF OwnersWith(c.email) # {} THEN "found" ELSE "default"
             \/ c.answer = "misread"
             \/ c.answer = asks[k].answer /\ c.stage = "failed"
    BY <1>1, <1>8, CallFacts DEF Pending
  <2>3. /\ DOMAIN asks' = DOMAIN asks /\ asks'[k] = c /\ Applied' = Applied
        /\ \A j \in DOMAIN asks : j # k => asks'[j] = asks[j]
    BY <1>1, <2>2, CallChanged
  <2>4. ~overtaken' => ~overtaken
    BY <1>8 DEF Pending, GetOwnerEmail, GetOwnerEmailThrows, AccountFailed, NoteOrder
  <2>5. ASSUME NEW j \in Applied PROVE j \in DOMAIN asks /\ asks'[j] = asks[j]
    BY <2>2, <2>3 DEF Applied
  <2>6. FoundStays'
    <3> SUFFICES ASSUME OneAccount', ~overtaken', NEW i \in DOMAIN asks, NEW j \in DOMAIN asks,
                        i < j, asks'[i].answer = "found", asks'[j].stage \in {"answered", "applied"},
                        asks'[j].answer = "default"
                 PROVE  FALSE
      BY <2>3 DEF FoundStays
    <3>1. OneAccount /\ ~overtaken
      BY <2>1, <2>4 DEF OneAccount
    <3>2. i \in Nat /\ j \in Nat
      BY <1>1
    <3>3. asks[i].email = asks[j].email
      BY <1>1, <3>1 DEF OneAccount, AsksOK
    <3>4. CASE i # k /\ j # k
      BY <1>1, <2>3, <3>1, <3>4 DEF FoundStays
    <3>5. CASE j = k
      <4>1. i # k
        BY <3>2, <3>5
      <4>2. OwnersWith(asks[i].email) # {}
        BY <1>1, <2>3, <4>1 DEF AsksOK
      <4> QED
        BY <2>2, <2>3, <3>3, <3>5, <4>2
    <3>6. CASE i = k /\ j # k
      <4>1. asks[j] = asks'[j]
        BY <2>3, <3>6
      <4>2. CASE GetOwnerEmail(k)
        <5>1. overtaken'
          BY <3>6, <4>1, <4>2 DEF GetOwnerEmail, NoteOrder
        <5> QED
          BY <5>1
      <4>3. CASE c.answer = asks[k].answer
        BY <1>1, <2>3, <3>1, <3>6, <4>1, <4>3 DEF FoundStays
      <4> QED
        BY <2>2, <2>3, <3>6, <4>2, <4>3
    <3> QED
      BY <3>4, <3>5, <3>6
  <2>7. LastApplied'
    BY <1>1, <2>1, <2>3, <2>4, <2>5 DEF LastApplied
  <2>8. hasAccount' => \E j \in Applied' : asks'[j].answer = "found"
    BY <1>1, <2>1, <2>3, <2>5 DEF AsksOK
  <2>9. c.answer = "found" => OwnersWith(c.email) # {}
    BY <1>1, <2>2 DEF AsksOK
  <2>10. c.stage \in {"answered", "applied"} => c.answer # "none"
    BY <2>2
  <2> QED
    BY <1>6, <2>1, <2>2, <2>6, <2>7, <2>8, <2>9, <2>10
<1>9. ASSUME UNCHANGED <<fields, asks, flow, accounts, overtaken>> PROVE Accounts'
  BY <1>3, <1>9 DEF fields
<1> QED
  BY <1>1, <1>5, <1>7, <1>8, <1>9, AccountSteps

-----------------------------------------------------------------------------
\* The launched app satisfies the inductive invariant, and every step keeps it.
THEOREM SignUpInvariance == SignUpSpec => []SInv
<1>1. SignUpInit => SInv
  <2> SUFFICES ASSUME SignUpInit PROVE SInv
    OBVIOUS
  <2> USE AsksAssumption, PostsAssumption DEF SignUpInit
  <2>1. IInv /\ TypeOK
    BY InvInit DEF IInv
  <2>2. asks = <<>> /\ Len(asks) = 0 /\ DOMAIN asks = {} /\ asks \in Seq(Calls)
    OBVIOUS
  <2>3. Applied = {} /\ Cardinality(Applied) = 0
    BY <2>2, FS_EmptySet DEF Applied
  <2>4. SignUpTypeOK
    <3>1. AccountTypes /\ flow \in Flows \cup {0}
      <4>1. isLoggedIn \in BOOLEAN /\ hasAccount \in BOOLEAN /\ overtaken \in BOOLEAN /\ ~isLoggedIn
        BY Zenon
      <4>2. emailAddress = None /\ flow = 0 /\ accounts = {} /\ Len(asks) <= MaxAsks
        BY <2>2
      <4> HIDE DEF SignUpInit
      <4> QED
        BY <2>2, <4>1, <4>2 DEF AccountTypes
    <3>2. FormTypes
      <4>1. restoring \in BOOLEAN /\ prompting \in BOOLEAN /\ currentUser = None /\ page = "forms"
        BY Zenon
      <4>2. OwnerEmail \in [Flows -> Emails \cup {None}] /\ OwnerID \in [Flows -> OwnerPosts \cup {NoId}]
        OBVIOUS
      <4>3. /\ stage \in [Requests -> {"none", "started", "sent", "ended", "failed"}]
            /\ task \in [Requests -> Flows \cup {0}]
            /\ known \in [DogPosts -> SUBSET OwnerPosts]
            /\ losses \in 0..MaxLosses
        OBVIOUS
      <4> HIDE DEF SignUpInit
      <4> QED
        BY <4>1, <4>2, <4>3 DEF FormTypes, Pages
    <3> QED
      BY <2>1, <3>1, <3>2 DEF SignUpTypeOK, AccountTypes, FormTypes, Calls
  <2>5. FlowsCounted
    BY <2>2, <2>3 DEF FlowsCounted, SignUpShown
  <2>6. \A r \in Requests : pc[r] = "new" /\ body[r] = NoId
    BY DEF Init
  <2>7. TasksOK
    BY <2>6 DEF TasksOK, Requests
  <2>8. OwnerIDTold /\ OwnerIDForgotten /\ DogsStayInTheirForm /\ ForgottenOwnerExplained
    BY <2>6 DEF OwnerIDTold, OwnerIDForgotten, Told, Refused, DogsStayInTheirForm, ForgottenOwnerExplained, Requests
  <2>9. AsksOK /\ AccountsOK /\ FoundStays /\ LastApplied
    BY <2>2, <2>3, FS_EmptySet DEF AsksOK, AccountsOK, FoundStays, LastApplied
  <2> QED
    BY <2>1, <2>4, <2>5, <2>7, <2>8, <2>9 DEF SInv
<1>2. SInv /\ [SignUpNext]_<<vars, appVars>> => SInv'
  <2> SUFFICES ASSUME SInv, [SignUpNext]_<<vars, appVars>> PROVE SInv'
    OBVIOUS
  <2>1. IInv' /\ TypeOK'
    BY ServerInv DEF IInv
  <2>2. AccountTypes' /\ FlowsCounted' /\ FormTypes'
    BY AccountTypeStep, FormTypeStep
  <2>3. (flow \in Flows \cup {0})'
    BY <2>2, FlowBound, PTL
  <2>4. SignUpTypeOK'
    BY <2>1, <2>2, <2>3 DEF SignUpTypeOK, AccountTypes, FormTypes, Calls
  <2>5. TasksOK' /\ OwnerIDTold' /\ OwnerIDForgotten' /\ DogsStayInTheirForm' /\ ForgottenOwnerExplained'
    BY TasksStep, OwnerIDStep, DogsStep
  <2>6. AsksOK' /\ AccountsOK' /\ FoundStays' /\ LastApplied'
    BY AccountsStep DEF Accounts
  <2> QED
    BY <2>1, <2>2, <2>4, <2>5, <2>6 DEF SInv
<1> QED
  BY <1>1, <1>2, PTL DEF SignUpSpec

\* The app's fields, calls, forms and Tasks are always of their types; in
\* particular there are never more SignUpViews than calls and answers.
THEOREM SignUpTypeCorrect == SignUpSpec => []SignUpTypeOK
<1>1. SInv => SignUpTypeOK
  BY DEF SInv
<1> QED
  BY <1>1, SignUpInvariance, PTL

\* The phone is a client of Registration: a dog is posted with an OwnerID that
\* POST /Owner has answered, or with none.
THEOREM PhoneIsAClient == SignUpSpec => ImplementsRegistration
<1>1. SignUpInit => Init
  BY DEF SignUpInit
<1>2. SInv /\ [SignUpNext]_<<vars, appVars>> => [Next]_vars
  BY ClientStep
<1> QED
  BY <1>1, <1>2, SignUpInvariance, PTL DEF SignUpSpec, Spec, ImplementsRegistration

\* A dog goes to an owner signed up in its own form, whatever overtakes what.
THEOREM DogsStay == SignUpSpec => []DogsStayInTheirForm
<1>1. SInv => DogsStayInTheirForm
  BY DEF SInv
<1> QED
  BY <1>1, SignUpInvariance, PTL

\* A form forgets the id it was told only by signing up again and being refused.
THEOREM ForgottenOwners == SignUpSpec => []ForgottenOwnerExplained
<1>1. SInv => ForgottenOwnerExplained
  BY DEF SInv
<1> QED
  BY <1>1, SignUpInvariance, PTL

\* Two accounts are more than one.
LEMMA TwoAccounts ==
  ASSUME NEW S, IsFiniteSet(S), NEW a \in S, NEW b \in S, a # b
  PROVE  Cardinality(S) > 1
<1>1. IsFiniteSet({a}) /\ Cardinality({a}) = 1
  BY FS_Singleton
<1>2. Cardinality({a} \cup {b}) = 2
  BY <1>1, FS_AddElement
<1>3. Cardinality({a} \cup {b}) <= Cardinality(S) /\ Cardinality(S) \in Nat
  BY FS_Subset, FS_CardinalityType
<1> QED
  BY <1>2, <1>3

\* The tabs are for owners, unless a second account was signed in.
THEOREM TabsAreForOwners == SignUpSpec => []TabsOnlyForOwners
<1>1. SInv => TabsOnlyForOwners
  <2> SUFFICES ASSUME SInv, isLoggedIn, hasAccount, OwnersWith(emailAddress) = {}
               PROVE  Cardinality(accounts) > 1
    BY DEF TabsOnlyForOwners, TabsShown
  <2>1. IsFiniteSet(accounts) /\ emailAddress \in accounts
    BY DEF SInv, AccountsOK
  <2>2. PICK k \in Applied : asks[k].answer = "found"
    BY DEF SInv, AsksOK
  <2>3. asks[k].email \in accounts /\ OwnersWith(asks[k].email) # {}
    BY <2>2 DEF SInv, AsksOK, Applied
  <2>4. asks[k].email # emailAddress
    BY <2>3
  <2> QED
    BY <2>1, <2>3, <2>4, TwoAccounts
<1> QED
  BY <1>1, SignUpInvariance, PTL

\* A recognised owner stays recognised, unless accounts were switched, calls
\* were overtaken or a row was not decoded.
THEOREM OwnersAreRecognised == SignUpSpec => []OwnersStayRecognised
<1>1. SInv => OwnersStayRecognised
  <2> SUFFICES ASSUME SInv, NEW j \in DOMAIN asks, asks[j].stage = "applied", asks[j].answer = "found",
                      ~hasAccount, ~(Cardinality(accounts) > 1), ~overtaken
               PROVE  \E k \in DOMAIN asks : asks[k].answer = "misread"
    BY DEF OwnersStayRecognised
  <2>1. OneAccount
    BY TwoAccounts DEF SInv, AccountsOK, OneAccount
  <2>2. j \in Applied /\ asks \in Seq(Calls)
    BY DEF Applied, SInv, SignUpTypeOK, Calls
  <2>3. PICK k \in Applied : asks[k].answer # "found" /\ \A i \in Applied : i <= k
    BY <2>2 DEF SInv, LastApplied
  <2>4. k \in DOMAIN asks /\ asks[k].stage = "applied" /\ asks[k] \in Calls /\ j \in Nat /\ k \in Nat
    BY <2>2 DEF Applied
  <2>5. j < k
    BY <2>2, <2>3, <2>4
  <2>6. asks[k].answer \notin {"default", "none", "found"}
    BY <2>1, <2>3, <2>4, <2>5 DEF SInv, FoundStays, AsksOK
  <2> QED
    BY <2>4, <2>6 DEF Calls
<1> QED
  BY <1>1, SignUpInvariance, PTL
=============================================================================
