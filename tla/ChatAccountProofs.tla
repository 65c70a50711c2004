-------------------------- MODULE ChatAccountProofs --------------------------
(***************************************************************************)
(* Proofs about ChatAccount, for any number of accounts, sessions, views   *)
(* and faults.                                                             *)
(***************************************************************************)
EXTENDS ChatAccount, TLAPS

(***************************************************************************)
(* The inductive invariant.  Its core is Mine: a request under way belongs *)
(* to the account Google has signed in or to one that was left too early,  *)
(* or is a fetch for the account Firebase had before.                      *)
(***************************************************************************)
\* No more requests are under way than were sent.
Counted ==
  \A u \in Emails :
    /\ signing[u] <= sessions + views
    /\ creating[u] + created[u] <= views
    /\ fetching[u] <= shows

Mine ==
  \A u \in Emails :
    /\ signing[u] > 0 \/ creating[u] > 0 \/ created[u] > 0 => u = google \/ u \in left
    /\ fetching[u] > 0 => u = google \/ u \in left \/ u \in strayed

AuthMine ==
  \/ auth \in {None, google} \cup left
  \/ google = None /\ faults > 0
  \/ auth = kept /\ Late

\* The account that an early creation is written to.
WriterMine ==
  \A u \in Emails : created[u] > 0 => auth \in {None, u} \/ {u, auth} \cap left # {}

WritesMine ==
  \A i \in DOMAIN writes :
    writes[i].uid = writes[i].email \/ {writes[i].uid, writes[i].email} \cap left # {}

\* The handler of a creation finds its own account.
CreatedCurrent == left = {} => \A u \in Emails : created[u] > 0 => auth = u

\* An account without a document is still to get one.
DocumentComing ==
  left = {} =>
    \A u \in registered :
      \/ users[u] # None \/ created[u] > 0 \/ u \in hurt
      \/ \E i \in DOMAIN writes : writes[i].uid = u

\* A profile of the account before is still to be replaced.
ProfileComing ==
  left = {} /\ google # None /\ shown = google /\ google \notin hurt
    => fetching[google] > 0 \/ profile = NoProfile \/ profile.uid \in {google} \cup strayed

Named ==
  left = {} /\ google # None /\ profile # NoProfile /\ profile.uid \notin strayed
    => profile.email = google

IInv ==
  /\ TypeOK
  /\ Counted
  /\ Mine
  /\ AuthMine
  /\ WriterMine
  /\ WritesMine
  /\ OwnDocument
  /\ CreatedCurrent
  /\ DocumentComing
  /\ ProfileComing
  /\ Named
-----------------------------------------------------------------------------
\* A document that waits for the server.
Entry == [uid : Emails, email : Emails]

\* What is left of a queue, and where its members were.
LEMMA Dequeued ==
  ASSUME NEW S, NEW q \in Seq(S), q # <<>>
  PROVE  /\ 1 \in DOMAIN q /\ Head(q) = q[1] /\ Head(q) \in S
         /\ Tail(q) \in Seq(S)
         /\ \A i \in DOMAIN Tail(q) : i + 1 \in DOMAIN q /\ Tail(q)[i] = q[i + 1]
         /\ \A i \in DOMAIN q : i # 1 => i - 1 \in DOMAIN Tail(q) /\ Tail(q)[i - 1] = q[i]
<1>1. Len(q) \in Nat /\ Len(q) # 0 /\ DOMAIN q = 1..Len(q)
  OBVIOUS
<1>2. Tail(q) \in Seq(S) /\ Len(Tail(q)) = Len(q) - 1 /\ DOMAIN Tail(q) = 1..(Len(q) - 1)
  BY <1>1
<1>3. \A i \in 1..(Len(q) - 1) : Tail(q)[i] = q[i + 1]
  BY <1>1
<1>4. 1 \in DOMAIN q /\ Head(q) = q[1] /\ Head(q) \in S
  BY <1>1
<1>5. \A i \in DOMAIN Tail(q) : i + 1 \in DOMAIN q /\ Tail(q)[i] = q[i + 1]
  BY <1>1, <1>2, <1>3
<1>6. ASSUME NEW i \in DOMAIN q, i # 1
      PROVE  i - 1 \in DOMAIN Tail(q) /\ Tail(q)[i - 1] = q[i]
  <2>1. i - 1 \in 1..(Len(q) - 1) /\ (i - 1) + 1 = i
    BY <1>1, <1>6
  <2> QED
    BY <2>1, <1>2, <1>3
<1> QED
  BY <1>2, <1>4, <1>5, <1>6

\* A queue with one more, and where its members are.
LEMMA Enqueued ==
  ASSUME NEW S, NEW q \in Seq(S), NEW e \in S
  PROVE  /\ Append(q, e) \in Seq(S)
         /\ \A i \in DOMAIN Append(q, e) :
              (i \in DOMAIN q /\ Append(q, e)[i] = q[i]) \/ Append(q, e)[i] = e
         /\ \A i \in DOMAIN q : i \in DOMAIN Append(q, e) /\ Append(q, e)[i] = q[i]
         /\ \E i \in DOMAIN Append(q, e) : Append(q, e)[i] = e
<1>1. Len(q) \in Nat /\ DOMAIN q = 1..Len(q)
  OBVIOUS
<1>2. Append(q, e) \in Seq(S) /\ DOMAIN Append(q, e) = 1..(Len(q) + 1)
  OBVIOUS
<1>3. /\ \A i \in 1..Len(q) : Append(q, e)[i] = q[i]
      /\ Append(q, e)[Len(q) + 1] = e
  OBVIOUS
<1> QED
  BY <1>1, <1>2, <1>3

(***************************************************************************)
(* Types.  The numbers of requests are bounded through Counted, the other  *)
(* variables do without.                                                   *)
(***************************************************************************)
Numbers ==
  /\ signing \in [Emails -> Nat] /\ creating \in [Emails -> Nat]
  /\ created \in [Emails -> Nat] /\ fetching \in [Emails -> Nat]
  /\ sessions \in 0..MaxSessions /\ views \in 0..MaxViews /\ shows \in 0..MaxShows
  /\ faults \in 0..MaxFaults

Values ==
  /\ registered \subseteq Emails
  /\ users \in [Emails -> Account]
  /\ writes \in Seq([uid : Emails, email : Emails])
  /\ google \in Account /\ auth \in Account /\ shown \in Account /\ kept \in Account
  /\ profile \in [uid : Emails, email : Emails] \cup {NoProfile}
  /\ left \subseteq Emails /\ strayed \subseteq Emails /\ hurt \subseteq Emails

\* Together with the counts they are the type invariant.
LEMMA TypeParts == TypeOK /\ Counted <=> Values /\ Numbers /\ Counted
<1>1. TypeOK => Values /\ Numbers
  BY BoundsAssumption DEF TypeOK, Values, Numbers
<1>2. ASSUME Values, Numbers, Counted PROVE TypeOK
  <2>1. \A u \in Emails :
          /\ signing[u] \in 0..(MaxSessions + MaxViews)
          /\ creating[u] \in 0..MaxViews /\ created[u] \in 0..MaxViews
          /\ fetching[u] \in 0..MaxShows
    <3> TAKE u \in Emails
    <3>1. /\ signing[u] \in Nat /\ creating[u] \in Nat
          /\ created[u] \in Nat /\ fetching[u] \in Nat
      BY <1>2 DEF Numbers
    <3>2. /\ signing[u] <= sessions + views
          /\ creating[u] + created[u] <= views
          /\ fetching[u] <= shows
      BY <1>2 DEF Counted
    <3> QED
      BY <1>2, <3>1, <3>2, BoundsAssumption DEF Numbers
  <2>2. /\ signing \in [Emails -> 0..(MaxSessions + MaxViews)]
        /\ creating \in [Emails -> 0..MaxViews] /\ created \in [Emails -> 0..MaxViews]
        /\ fetching \in [Emails -> 0..MaxShows]
    BY <1>2, <2>1 DEF Numbers
  <2> QED
    BY <1>2, <2>2 DEF Values, Numbers, TypeOK
<1> QED
  BY <1>1, <1>2

\* Every step preserves the counts.
LEMMA NumbersStep == Values /\ Numbers /\ Counted /\ [Next]_vars => (Numbers /\ Counted)'
<1> SUFFICES ASSUME Values, Numbers, Counted, [Next]_vars
             PROVE  (Numbers /\ Counted)'
  OBVIOUS
<1> USE BoundsAssumption, NoneAssumption
    DEF Numbers, Counted, Zero, More, Less, Fault, firebase, requests, counters, past
<1>1. ASSUME NEW u \in Emails, SignedIn(u) PROVE (Numbers /\ Counted)'
  BY <1>1 DEF SignedIn
<1>2. ASSUME NEW u \in Emails, SignInAnswered(u) PROVE (Numbers /\ Counted)'
  BY <1>2 DEF SignInAnswered
<1>3. ASSUME NEW u \in Emails, CreateServed(u) PROVE (Numbers /\ Counted)'
  BY <1>3 DEF CreateServed
<1>4. ASSUME NEW u \in Emails, CreateAnswered(u) PROVE (Numbers /\ Counted)'
  BY <1>4 DEF CreateAnswered
<1>5. ASSUME NEW u \in Emails, FetchAnswered(u) PROVE (Numbers /\ Counted)'
  BY <1>5 DEF FetchAnswered
<1>6. ASSUME NEW u \in Emails, SignInFailed(u) PROVE (Numbers /\ Counted)'
  BY <1>6 DEF SignInFailed
<1>7. ASSUME NEW u \in Emails, CreateFailed(u) PROVE (Numbers /\ Counted)'
  BY <1>7 DEF CreateFailed
<1>8. ASSUME NEW u \in Emails, FetchFailed(u) PROVE (Numbers /\ Counted)'
  BY <1>8 DEF FetchFailed
<1>9. CASE signOut
  BY <1>9 DEF signOut
<1>10. CASE CardsSectionInit
  <2>1. google \in Emails
    BY <1>10 DEF CardsSectionInit, Values, Account
  <2> QED
    BY <1>10, <2>1 DEF CardsSectionInit
<1>11. CASE fetchCurrentUser
  <2>1. auth # None => auth \in Emails
    BY DEF Values, Account
  <2> QED
    BY <1>11, <2>1 DEF fetchCurrentUser
<1>12. CASE Stored
  BY <1>12 DEF Stored
<1>13. CASE WriteRefused
  BY <1>13 DEF WriteRefused
<1>14. CASE Killed
  BY <1>14 DEF Killed
<1>15. CASE Idle
  BY <1>15 DEF Idle, vars
<1>16. CASE UNCHANGED vars
  BY <1>16 DEF vars
<1> QED
  BY <1>1, <1>2, <1>3, <1>4, <1>5, <1>6, <1>7, <1>8,
     <1>9, <1>10, <1>11, <1>12, <1>13, <1>14, <1>15, <1>16 DEF Next

\* What the phone sees of a document.
LEMMA DocumentType ==
  ASSUME Values, NEW u \in Emails
  PROVE  Document(u) \in Account
<1> DEFINE mine == {i \in DOMAIN writes : writes[i].uid = u}
           last == {i \in mine : \A j \in mine : j <= i}
<1>0. writes \in Seq(Entry)
  BY DEF Values, Entry
<1>1. \A i \in DOMAIN writes : writes[i] \in Entry
  BY <1>0
<1>2. CASE last = {}
  BY <1>2 DEF Document, Values
<1>3. CASE last # {}
  BY <1>1, <1>3 DEF Document, Account, Entry
<1> QED
  BY <1>2, <1>3

\* Every step preserves the types of the other variables.
LEMMA ValuesStep == Values /\ [Next]_vars => Values'
<1> SUFFICES ASSUME Values, [Next]_vars
             PROVE  Values'
  OBVIOUS
<1> USE BoundsAssumption, NoneAssumption
    DEF Values, Account, NoProfile, Fault, firebase, requests, counters, past
<1>1. ASSUME NEW u \in Emails, SignedIn(u) PROVE Values'
  BY <1>1 DEF SignedIn
<1>2. ASSUME NEW u \in Emails, SignInAnswered(u) PROVE Values'
  BY <1>2 DEF SignInAnswered
<1>3. ASSUME NEW u \in Emails, CreateServed(u) PROVE Values'
  BY <1>3 DEF CreateServed
<1>4. ASSUME NEW u \in Emails, CreateAnswered(u) PROVE Values'
  <2> DEFINE d == [uid |-> auth, email |-> u]
  <2>1. writes \in Seq(Entry) /\ (auth # None => d \in Entry)
    BY DEF Entry
  <2> HIDE DEF d
  <2>2. auth # None => Append(writes, d) \in Seq(Entry)
    BY <2>1, Enqueued
  <2>3. writes' = IF auth = None THEN writes ELSE Append(writes, d)
    BY <1>4 DEF CreateAnswered, d
  <2>4. writes' \in Seq(Entry)
    BY <2>1, <2>2, <2>3
  <2> QED
    BY <1>4, <2>4 DEF CreateAnswered, Entry
<1>5. ASSUME NEW u \in Emails, FetchAnswered(u) PROVE Values'
  <2>1. Document(u) \in Account
    BY DocumentType
  <2>2. profile' \in [uid : Emails, email : Emails] \cup {NoProfile}
    BY <1>5, <2>1 DEF FetchAnswered
  <2> QED
    BY <1>5, <2>2 DEF FetchAnswered
<1>6. ASSUME NEW u \in Emails, SignInFailed(u) PROVE Values'
  BY <1>6 DEF SignInFailed
<1>7. ASSUME NEW u \in Emails, CreateFailed(u) PROVE Values'
  BY <1>7 DEF CreateFailed
<1>8. ASSUME NEW u \in Emails, FetchFailed(u) PROVE Values'
  BY <1>8 DEF FetchFailed
<1>9. CASE signOut
  BY <1>9 DEF signOut
<1>10. CASE CardsSectionInit
  BY <1>10 DEF CardsSectionInit
<1>11. CASE fetchCurrentUser
  BY <1>11 DEF fetchCurrentUser
<1>12. CASE Stored
  <2>1. /\ Head(writes) \in [uid : Emails, email : Emails]
        /\ Tail(writes) \in Seq([uid : Emails, email : Emails])
    BY <1>12, Dequeued DEF Stored
  <2> QED
    BY <1>12, <2>1 DEF Stored
<1>13. CASE WriteRefused
  <2>1. /\ Head(writes) \in [uid : Emails, email : Emails]
        /\ Tail(writes) \in Seq([uid : Emails, email : Emails])
    BY <1>13, Dequeued DEF WriteRefused
  <2> QED
    BY <1>13, <2>1 DEF WriteRefused
<1>14. CASE Killed
  BY <1>14 DEF Killed
<1>15. CASE Idle
  BY <1>15 DEF Idle, vars
<1>16. CASE UNCHANGED vars
  BY <1>16 DEF vars
<1> QED
  BY <1>1, <1>2, <1>3, <1>4, <1>5, <1>6, <1>7, <1>8,
     <1>9, <1>10, <1>11, <1>12, <1>13, <1>14, <1>15, <1>16 DEF Next

\* Every step preserves the types and the counts.
LEMMA TypeStep == TypeOK /\ Counted /\ [Next]_vars => (TypeOK /\ Counted)'
<1> SUFFICES ASSUME TypeOK, Counted, [Next]_vars
             PROVE  (TypeOK /\ Counted)'
  OBVIOUS
<1>1. Values /\ Numbers
  BY TypeParts
<1>2. Values' /\ Numbers' /\ Counted'
  BY <1>1, NumbersStep, ValuesStep
<1>3. (TypeOK /\ Counted <=> Values /\ Numbers /\ Counted)'
  BY TypeParts, PTL
<1> QED
  BY <1>2, <1>3

\* No request outlives its account unseen: signing out records it.
LEMMA MineStep == TypeOK /\ Mine /\ AuthMine /\ [Next]_vars => Mine'
<1> SUFFICES ASSUME TypeOK, Mine, AuthMine, [Next]_vars
             PROVE  Mine'
  OBVIOUS
<1> USE BoundsAssumption, NoneAssumption
    DEF TypeOK, Mine, AuthMine, Late, Account, InFlight, Zero, More, Less, Fault, firebase,
        requests, counters, past
<1>1. ASSUME NEW u \in Emails, SignedIn(u) PROVE Mine'
  BY <1>1 DEF SignedIn
<1>2. ASSUME NEW u \in Emails, SignInAnswered(u) PROVE Mine'
  BY <1>2 DEF SignInAnswered
<1>3. ASSUME NEW u \in Emails, CreateServed(u) PROVE Mine'
  BY <1>3 DEF CreateServed
<1>4. ASSUME NEW u \in Emails, CreateAnswered(u) PROVE Mine'
  BY <1>4 DEF CreateAnswered
<1>5. ASSUME NEW u \in Emails, FetchAnswered(u) PROVE Mine'
  BY <1>5 DEF FetchAnswered
<1>6. ASSUME NEW u \in Emails, SignInFailed(u) PROVE Mine'
  BY <1>6 DEF SignInFailed
<1>7. ASSUME NEW u \in Emails, CreateFailed(u) PROVE Mine'
  BY <1>7 DEF CreateFailed
<1>8. ASSUME NEW u \in Emails, FetchFailed(u) PROVE Mine'
  BY <1>8 DEF FetchFailed
<1>9. CASE signOut
  BY <1>9 DEF signOut
<1>10. CASE CardsSectionInit
  BY <1>10 DEF CardsSectionInit
<1>11. CASE fetchCurrentUser
  BY <1>11 DEF fetchCurrentUser
<1>12. CASE Stored
  BY <1>12 DEF Stored
<1>13. CASE WriteRefused
  BY <1>13 DEF WriteRefused
<1>14. CASE Killed
  BY <1>14 DEF Killed
<1>15. CASE Idle
  BY <1>15 DEF Idle, vars
<1>16. CASE UNCHANGED vars
  BY <1>16 DEF vars
<1> QED
  BY <1>1, <1>2, <1>3, <1>4, <1>5, <1>6, <1>7, <1>8,
     <1>9, <1>10, <1>11, <1>12, <1>13, <1>14, <1>15, <1>16 DEF Next

\* The current account at Firebase follows Google's.
LEMMA AuthStep == TypeOK /\ Mine /\ AuthMine /\ [Next]_vars => AuthMine'
<1> SUFFICES ASSUME TypeOK, Mine, AuthMine, [Next]_vars
             PROVE  AuthMine'
  OBVIOUS
<1> USE BoundsAssumption, NoneAssumption
    DEF TypeOK, Mine, AuthMine, Late, Account, InFlight, Zero, More, Less, Fault, firebase,
        requests, counters, past
<1>1. ASSUME NEW u \in Emails, SignedIn(u) PROVE AuthMine'
  <2>1. signing[u] \in Nat /\ signing'[u] = signing[u] + 1 /\ google' = u
    BY <1>1 DEF SignedIn
  <2>2. Late'
    <3>1. signing'[u] > 0
      BY <2>1
    <3>2. google' = u /\ google' # None
      BY <2>1
    <3> QED
      BY <3>1, <3>2
  <2>3. auth' = auth /\ (auth = u \/ kept' = auth)
    BY <1>1 DEF SignedIn
  <2> QED
    <3> HIDE DEF Late
    <3> QED
      BY <2>1, <2>2, <2>3
<1>2. ASSUME NEW u \in Emails, SignInAnswered(u) PROVE AuthMine'
  BY <1>2 DEF SignInAnswered
<1>3. ASSUME NEW u \in Emails, CreateServed(u) PROVE AuthMine'
  BY <1>3 DEF CreateServed
<1>4. ASSUME NEW u \in Emails, CreateAnswered(u) PROVE AuthMine'
  BY <1>4 DEF CreateAnswered
<1>5. ASSUME NEW u \in Emails, FetchAnswered(u) PROVE AuthMine'
  BY <1>5 DEF FetchAnswered
<1>6. ASSUME NEW u \in Emails, SignInFailed(u) PROVE AuthMine'
  BY <1>6 DEF SignInFailed
<1>7. ASSUME NEW u \in Emails, CreateFailed(u) PROVE AuthMine'
  BY <1>7 DEF CreateFailed
<1>8. ASSUME NEW u \in Emails, FetchFailed(u) PROVE AuthMine'
  BY <1>8 DEF FetchFailed
<1>9. CASE signOut
  BY <1>9 DEF signOut
<1>10. CASE CardsSectionInit
  BY <1>10 DEF CardsSectionInit
<1>11. CASE fetchCurrentUser
  BY <1>11 DEF fetchCurrentUser
<1>12. CASE Stored
  BY <1>12 DEF Stored
<1>13. CASE WriteRefused
  BY <1>13 DEF WriteRefused
<1>14. CASE Killed
  BY <1>14 DEF Killed
<1>15. CASE Idle
  BY <1>15 DEF Idle, vars
<1>16. CASE UNCHANGED vars
  BY <1>16 DEF vars
<1> QED
  BY <1>1, <1>2, <1>3, <1>4, <1>5, <1>6, <1>7, <1>8,
     <1>9, <1>10, <1>11, <1>12, <1>13, <1>14, <1>15, <1>16 DEF Next

\* A creation that has succeeded finds its own account, or one was left too early.
LEMMA WriterStep == TypeOK /\ Mine /\ WriterMine /\ [Next]_vars => WriterMine'
<1> SUFFICES ASSUME TypeOK, Mine, WriterMine, [Next]_vars
             PROVE  WriterMine'
  OBVIOUS
<1> USE BoundsAssumption, NoneAssumption
    DEF TypeOK, Mine, WriterMine, Account, InFlight, Zero, More, Less, Fault, firebase,
        requests, counters, past
<1>1. ASSUME NEW u \in Emails, SignedIn(u) PROVE WriterMine'
  BY <1>1 DEF SignedIn
<1>2. ASSUME NEW u \in Emails, SignInAnswered(u) PROVE WriterMine'
  BY <1>2 DEF SignInAnswered
<1>3. ASSUME NEW u \in Emails, CreateServed(u) PROVE WriterMine'
  BY <1>3 DEF CreateServed
<1>4. ASSUME NEW u \in Emails, CreateAnswered(u) PROVE WriterMine'
  BY <1>4 DEF CreateAnswered
<1>5. ASSUME NEW u \in Emails, FetchAnswered(u) PROVE WriterMine'
  BY <1>5 DEF FetchAnswered
<1>6. ASSUME NEW u \in Emails, SignInFailed(u) PROVE WriterMine'
  BY <1>6 DEF SignInFailed
<1>7. ASSUME NEW u \in Emails, CreateFailed(u) PROVE WriterMine'
  BY <1>7 DEF CreateFailed
<1>8. ASSUME NEW u \in Emails, FetchFailed(u) PROVE WriterMine'
  BY <1>8 DEF FetchFailed
<1>9. CASE signOut
  BY <1>9 DEF signOut
<1>10. CASE CardsSectionInit
  BY <1>10 DEF CardsSectionInit
<1>11. CASE fetchCurrentUser
  BY <1>11 DEF fetchCurrentUser
<1>12. CASE Stored
  BY <1>12 DEF Stored
<1>13. CASE WriteRefused
  BY <1>13 DEF WriteRefused
<1>14. CASE Killed
  BY <1>14 DEF Killed
<1>15. CASE Idle
  BY <1>15 DEF Idle, vars
<1>16. CASE UNCHANGED vars
  BY <1>16 DEF vars
<1> QED
  BY <1>1, <1>2, <1>3, <1>4, <1>5, <1>6, <1>7, <1>8,
     <1>9, <1>10, <1>11, <1>12, <1>13, <1>14, <1>15, <1>16 DEF Next

\* Documents are written for the account they are about.
LEMMA WritesStep == TypeOK /\ WriterMine /\ WritesMine /\ [Next]_vars => WritesMine'
<1> SUFFICES ASSUME TypeOK, WriterMine, WritesMine, [Next]_vars
             PROVE  WritesMine'
  OBVIOUS
<1> USE BoundsAssumption, NoneAssumption
    DEF TypeOK, WriterMine, WritesMine, Account, Fault, firebase,
        requests, counters, past
<1>1. ASSUME NEW u \in Emails, SignedIn(u) PROVE WritesMine'
  BY <1>1 DEF SignedIn
<1>2. ASSUME NEW u \in Emails, SignInAnswered(u) PROVE WritesMine'
  BY <1>2 DEF SignInAnswered
<1>3. ASSUME NEW u \in Emails, CreateServed(u) PROVE WritesMine'
  BY <1>3 DEF CreateServed
<1>4. ASSUME NEW u \in Emails, CreateAnswered(u) PROVE WritesMine'
  <2>1. CASE auth = None
    BY <1>4, <2>1 DEF CreateAnswered
  <2>2. CASE auth # None
    <3> DEFINE d == [uid |-> auth, email |-> u]
    <3>1. d \in Entry /\ writes \in Seq(Entry) /\ writes' = Append(writes, d)
      BY <1>4, <2>2 DEF CreateAnswered, Entry
    <3> HIDE DEF d
    <3>2. \A i \in DOMAIN Append(writes, d) :
            (i \in DOMAIN writes /\ Append(writes, d)[i] = writes[i]) \/ Append(writes, d)[i] = d
      <4> HIDE DEF TypeOK
      <4> QED
        BY <3>1, Enqueued
    <3>3. u = auth \/ {auth, u} \cap left # {}
      BY <1>4, <2>2 DEF CreateAnswered
    <3>4. left' = left
      BY <1>4 DEF CreateAnswered
    <3>5. d.uid = d.email \/ {d.uid, d.email} \cap left # {}
      BY <3>3 DEF d
    <3> QED
      BY <3>1, <3>2, <3>4, <3>5
  <2> QED
    BY <2>1, <2>2
<1>5. ASSUME NEW u \in Emails, FetchAnswered(u) PROVE WritesMine'
  BY <1>5 DEF FetchAnswered
<1>6. ASSUME NEW u \in Emails, SignInFailed(u) PROVE WritesMine'
  BY <1>6 DEF SignInFailed
<1>7. ASSUME NEW u \in Emails, CreateFailed(u) PROVE WritesMine'
  BY <1>7 DEF CreateFailed
<1>8. ASSUME NEW u \in Emails, FetchFailed(u) PROVE WritesMine'
  BY <1>8 DEF FetchFailed
<1>9. CASE signOut
  BY <1>9 DEF signOut
<1>10. CASE CardsSectionInit
  BY <1>10 DEF CardsSectionInit
<1>11. CASE fetchCurrentUser
  BY <1>11 DEF fetchCurrentUser
<1>12. CASE Stored
  <2>1. \A i \in DOMAIN writes' : i + 1 \in DOMAIN writes /\ writes'[i] = writes[i + 1]
    BY <1>12, Dequeued DEF Stored
  <2> QED
    BY <1>12, <2>1 DEF Stored
<1>13. CASE WriteRefused
  <2>1. \A i \in DOMAIN writes' : i + 1 \in DOMAIN writes /\ writes'[i] = writes[i + 1]
    BY <1>13, Dequeued DEF WriteRefused
  <2> QED
    BY <1>13, <2>1 DEF WriteRefused
<1>14. CASE Killed
  BY <1>14 DEF Killed
<1>15. CASE Idle
  BY <1>15 DEF Idle, vars
<1>16. CASE UNCHANGED vars
  BY <1>16 DEF vars
<1> QED
  BY <1>1, <1>2, <1>3, <1>4, <1>5, <1>6, <1>7, <1>8,
     <1>9, <1>10, <1>11, <1>12, <1>13, <1>14, <1>15, <1>16 DEF Next

\* So are the documents stored.
LEMMA DocumentStep == TypeOK /\ WritesMine /\ OwnDocument /\ [Next]_vars => OwnDocument'
<1> SUFFICES ASSUME TypeOK, WritesMine, OwnDocument, [Next]_vars
             PROVE  OwnDocument'
  OBVIOUS
<1> USE BoundsAssumption, NoneAssumption
    DEF TypeOK, WritesMine, OwnDocument, Account, Fault, firebase, requests, counters, past
<1>1. ASSUME NEW u \in Emails, SignedIn(u) PROVE OwnDocument'
  BY <1>1 DEF SignedIn
<1>2. ASSUME NEW u \in Emails, SignInAnswered(u) PROVE OwnDocument'
  BY <1>2 DEF SignInAnswered
<1>3. ASSUME NEW u \in Emails, CreateServed(u) PROVE OwnDocument'
  BY <1>3 DEF CreateServed
<1>4. ASSUME NEW u \in Emails, CreateAnswered(u) PROVE OwnDocument'
  BY <1>4 DEF CreateAnswered
<1>5. ASSUME NEW u \in Emails, FetchAnswered(u) PROVE OwnDocument'
  BY <1>5 DEF FetchAnswered
<1>6. ASSUME NEW u \in Emails, SignInFailed(u) PROVE OwnDocument'
  BY <1>6 DEF SignInFailed
<1>7. ASSUME NEW u \in Emails, CreateFailed(u) PROVE OwnDocument'
  BY <1>7 DEF CreateFailed
<1>8. ASSUME NEW u \in Emails, FetchFailed(u) PROVE OwnDocument'
  BY <1>8 DEF FetchFailed
<1>9. CASE signOut
  BY <1>9 DEF signOut
<1>10. CASE CardsSectionInit
  BY <1>10 DEF CardsSectionInit
<1>11. CASE fetchCurrentUser
  BY <1>11 DEF fetchCurrentUser
<1>12. CASE Stored
  <2> DEFINE d == Head(writes)
  <2>1. d \in [uid : Emails, email : Emails] /\ 1 \in DOMAIN writes /\ d = writes[1]
    BY <1>12, Dequeued DEF Stored
  <2>2. d.uid = d.email \/ {d.uid, d.email} \cap left # {}
    BY <2>1
  <2>3. users' = [users EXCEPT ![d.uid] = d.email] /\ left' = left
    BY <1>12 DEF Stored
  <2> QED
    BY <2>1, <2>2, <2>3
<1>13. CASE WriteRefused
  BY <1>13 DEF WriteRefused
<1>14. CASE Killed
  BY <1>14 DEF Killed
<1>15. CASE Idle
  BY <1>15 DEF Idle, vars
<1>16. CASE UNCHANGED vars
  BY <1>16 DEF vars
<1> QED
  BY <1>1, <1>2, <1>3, <1>4, <1>5, <1>6, <1>7, <1>8,
     <1>9, <1>10, <1>11, <1>12, <1>13, <1>14, <1>15, <1>16 DEF Next

\* A creation and its handler have the same current account.
LEMMA CreatedStep ==
  TypeOK /\ Mine /\ AuthMine /\ CreatedCurrent /\ [Next]_vars => CreatedCurrent'
<1> SUFFICES ASSUME TypeOK, Mine, AuthMine, CreatedCurrent, [Next]_vars
             PROVE  CreatedCurrent'
  OBVIOUS
<1> USE BoundsAssumption, NoneAssumption
    DEF TypeOK, Mine, AuthMine, CreatedCurrent, Account, InFlight, Zero, More, Less,
        Fault, firebase, requests, counters, past
<1>1. ASSUME NEW u \in Emails, SignedIn(u) PROVE CreatedCurrent'
  BY <1>1 DEF SignedIn
<1>2. ASSUME NEW u \in Emails, SignInAnswered(u) PROVE CreatedCurrent'
  BY <1>2 DEF SignInAnswered
<1>3. ASSUME NEW u \in Emails, CreateServed(u) PROVE CreatedCurrent'
  BY <1>3 DEF CreateServed
<1>4. ASSUME NEW u \in Emails, CreateAnswered(u) PROVE CreatedCurrent'
  BY <1>4 DEF CreateAnswered
<1>5. ASSUME NEW u \in Emails, FetchAnswered(u) PROVE CreatedCurrent'
  BY <1>5 DEF FetchAnswered
<1>6. ASSUME NEW u \in Emails, SignInFailed(u) PROVE CreatedCurrent'
  BY <1>6 DEF SignInFailed
<1>7. ASSUME NEW u \in Emails, CreateFailed(u) PROVE CreatedCurrent'
  BY <1>7 DEF CreateFailed
<1>8. ASSUME NEW u \in Emails, FetchFailed(u) PROVE CreatedCurrent'
  BY <1>8 DEF FetchFailed
<1>9. CASE signOut
  BY <1>9 DEF signOut
<1>10. CASE CardsSectionInit
  BY <1>10 DEF CardsSectionInit
<1>11. CASE fetchCurrentUser
  BY <1>11 DEF fetchCurrentUser
<1>12. CASE Stored
  BY <1>12 DEF Stored
<1>13. CASE WriteRefused
  BY <1>13 DEF WriteRefused
<1>14. CASE Killed
  BY <1>14 DEF Killed
<1>15. CASE Idle
  BY <1>15 DEF Idle, vars
<1>16. CASE UNCHANGED vars
  BY <1>16 DEF vars
<1> QED
  BY <1>1, <1>2, <1>3, <1>4, <1>5, <1>6, <1>7, <1>8,
     <1>9, <1>10, <1>11, <1>12, <1>13, <1>14, <1>15, <1>16 DEF Next

\* No document is forgotten, unless something fails.
LEMMA ComingStep ==
  TypeOK /\ Mine /\ CreatedCurrent /\ DocumentComing /\ [Next]_vars => DocumentComing'
<1> SUFFICES ASSUME TypeOK, Mine, CreatedCurrent, DocumentComing, [Next]_vars
             PROVE  DocumentComing'
  OBVIOUS
<1> USE BoundsAssumption, NoneAssumption
    DEF TypeOK, Mine, CreatedCurrent, DocumentComing, Account, InFlight, Zero, More,
        Less, Fault, firebase, requests, counters, past
<1>1. ASSUME NEW u \in Emails, SignedIn(u) PROVE DocumentComing'
  BY <1>1 DEF SignedIn
<1>2. ASSUME NEW u \in Emails, SignInAnswered(u) PROVE DocumentComing'
  BY <1>2 DEF SignInAnswered
<1>3. ASSUME NEW u \in Emails, CreateServed(u) PROVE DocumentComing'
  BY <1>3 DEF CreateServed
<1>4. ASSUME NEW u \in Emails, CreateAnswered(u) PROVE DocumentComing'
  <2> SUFFICES ASSUME left = {}, NEW v \in registered
               PROVE  \/ users[v] # None \/ created'[v] > 0 \/ v \in hurt
                      \/ \E i \in DOMAIN writes' : writes'[i].uid = v
    BY <1>4 DEF CreateAnswered
  <2> DEFINE d == [uid |-> u, email |-> u]
  <2>1. d \in Entry /\ writes \in Seq(Entry) /\ writes' = Append(writes, d)
    BY <1>4 DEF CreateAnswered, Entry
  <2> HIDE DEF d
  <2>2. /\ \A i \in DOMAIN writes :
             i \in DOMAIN Append(writes, d) /\ Append(writes, d)[i] = writes[i]
        /\ \E i \in DOMAIN Append(writes, d) : Append(writes, d)[i] = d
    <3> HIDE DEF TypeOK, DocumentComing, Mine, CreatedCurrent
    <3> QED
      BY <2>1, Enqueued
  <2>3. CASE v = u
    <3>1. d.uid = v
      BY <2>3 DEF d
    <3> QED
      BY <2>1, <2>2, <3>1
  <2>4. CASE v # u
    <3>1. created'[v] = created[v]
      BY <1>4, <2>4 DEF CreateAnswered
    <3> QED
      BY <2>1, <2>2, <3>1
  <2> QED
    BY <2>3, <2>4
<1>5. ASSUME NEW u \in Emails, FetchAnswered(u) PROVE DocumentComing'
  BY <1>5 DEF FetchAnswered
<1>6. ASSUME NEW u \in Emails, SignInFailed(u) PROVE DocumentComing'
  BY <1>6 DEF SignInFailed
<1>7. ASSUME NEW u \in Emails, CreateFailed(u) PROVE DocumentComing'
  BY <1>7 DEF CreateFailed
<1>8. ASSUME NEW u \in Emails, FetchFailed(u) PROVE DocumentComing'
  BY <1>8 DEF FetchFailed
<1>9. CASE signOut
  BY <1>9 DEF signOut
<1>10. CASE CardsSectionInit
  BY <1>10 DEF CardsSectionInit
<1>11. CASE fetchCurrentUser
  BY <1>11 DEF fetchCurrentUser
<1>12. CASE Stored
  <2> SUFFICES ASSUME left = {}, NEW v \in registered
               PROVE  \/ users'[v] # None \/ created[v] > 0 \/ v \in hurt
                      \/ \E i \in DOMAIN writes' : writes'[i].uid = v
    BY <1>12 DEF Stored
  <2> DEFINE d == Head(writes)
  <2>1. /\ d \in [uid : Emails, email : Emails] /\ d = writes[1]
        /\ \A i \in DOMAIN writes : i # 1 => i - 1 \in DOMAIN writes' /\ writes'[i - 1] = writes[i]
    BY <1>12, Dequeued DEF Stored
  <2>2. users' = [users EXCEPT ![d.uid] = d.email]
    BY <1>12 DEF Stored
  <2>3. CASE v = d.uid
    BY <2>1, <2>2, <2>3
  <2>4. CASE v # d.uid
    <3>1. users'[v] = users[v]
      BY <2>2, <2>4
    <3>2. \A i \in DOMAIN writes : writes[i].uid = v => i # 1
      BY <2>1, <2>4
    <3>3. ASSUME NEW i \in DOMAIN writes, writes[i].uid = v
          PROVE  \E j \in DOMAIN writes' : writes'[j].uid = v
      BY <2>1, <3>2, <3>3
    <3> QED
      BY <3>1, <3>3
  <2> QED
    BY <2>3, <2>4
<1>13. CASE WriteRefused
  <2> SUFFICES ASSUME left = {}, NEW v \in registered
               PROVE  \/ users[v] # None \/ created[v] > 0 \/ v \in hurt'
                      \/ \E i \in DOMAIN writes' : writes'[i].uid = v
    BY <1>13 DEF WriteRefused
  <2> DEFINE d == Head(writes)
  <2>1. /\ d = writes[1]
        /\ \A i \in DOMAIN writes : i # 1 => i - 1 \in DOMAIN writes' /\ writes'[i - 1] = writes[i]
    BY <1>13, Dequeued DEF WriteRefused
  <2>2. hurt' = hurt \cup {d.uid}
    BY <1>13 DEF WriteRefused
  <2>3. CASE v = d.uid
    BY <2>2, <2>3
  <2>4. CASE v # d.uid
    <3>1. \A i \in DOMAIN writes : writes[i].uid = v => i # 1
      BY <2>1, <2>4
    <3>2. ASSUME NEW i \in DOMAIN writes, writes[i].uid = v
          PROVE  \E j \in DOMAIN writes' : writes'[j].uid = v
      BY <2>1, <3>1, <3>2
    <3> QED
      BY <2>2, <3>2
  <2> QED
    BY <2>3, <2>4
<1>14. CASE Killed
  BY <1>14 DEF Killed
<1>15. CASE Idle
  BY <1>15 DEF Idle, vars
<1>16. CASE UNCHANGED vars
  BY <1>16 DEF vars
<1> QED
  BY <1>1, <1>2, <1>3, <1>4, <1>5, <1>6, <1>7, <1>8,
     <1>9, <1>10, <1>11, <1>12, <1>13, <1>14, <1>15, <1>16 DEF Next

\* A profile fetched for the account of now replaces the one before.
LEMMA ProfileStep == TypeOK /\ Mine /\ AuthMine /\ ProfileComing /\ [Next]_vars => ProfileComing'
<1> SUFFICES ASSUME TypeOK, Mine, AuthMine, ProfileComing, [Next]_vars
             PROVE  ProfileComing'
  OBVIOUS
<1> USE BoundsAssumption, NoneAssumption
    DEF TypeOK, Mine, AuthMine, ProfileComing, Account, NoProfile, InFlight, Zero, More,
        Less, Fault, firebase, requests, counters, past
<1>1. ASSUME NEW u \in Emails, SignedIn(u) PROVE ProfileComing'
  BY <1>1 DEF SignedIn
<1>2. ASSUME NEW u \in Emails, SignInAnswered(u) PROVE ProfileComing'
  BY <1>2 DEF SignInAnswered
<1>3. ASSUME NEW u \in Emails, CreateServed(u) PROVE ProfileComing'
  BY <1>3 DEF CreateServed
<1>4. ASSUME NEW u \in Emails, CreateAnswered(u) PROVE ProfileComing'
  BY <1>4 DEF CreateAnswered
<1>5. ASSUME NEW u \in Emails, FetchAnswered(u) PROVE ProfileComing'
  BY <1>5 DEF FetchAnswered
<1>6. ASSUME NEW u \in Emails, SignInFailed(u) PROVE ProfileComing'
  BY <1>6 DEF SignInFailed
<1>7. ASSUME NEW u \in Emails, CreateFailed(u) PROVE ProfileComing'
  BY <1>7 DEF CreateFailed
<1>8. ASSUME NEW u \in Emails, FetchFailed(u) PROVE ProfileComing'
  BY <1>8 DEF FetchFailed
<1>9. CASE signOut
  BY <1>9 DEF signOut
<1>10. CASE CardsSectionInit
  BY <1>10 DEF CardsSectionInit
<1>11. CASE fetchCurrentUser
  BY <1>11 DEF fetchCurrentUser
<1>12. CASE Stored
  BY <1>12 DEF Stored
<1>13. CASE WriteRefused
  BY <1>13 DEF WriteRefused
<1>14. CASE Killed
  BY <1>14 DEF Killed
<1>15. CASE Idle
  BY <1>15 DEF Idle, vars
<1>16. CASE UNCHANGED vars
  BY <1>16 DEF vars
<1> QED
  BY <1>1, <1>2, <1>3, <1>4, <1>5, <1>6, <1>7, <1>8,
     <1>9, <1>10, <1>11, <1>12, <1>13, <1>14, <1>15, <1>16 DEF Next

\* A document as the phone sees it is about its account, if nobody left too early.
LEMMA DocumentIsOwn ==
  ASSUME TypeOK, WritesMine, OwnDocument, left = {}, NEW u \in Emails
  PROVE  Document(u) \in {None, u}
<1> DEFINE mine == {i \in DOMAIN writes : writes[i].uid = u}
           last == {i \in mine : \A j \in mine : j <= i}
<1>1. \A i \in last : writes[i].email = u
  BY DEF WritesMine
<1>2. CASE last = {}
  BY <1>2 DEF Document, OwnDocument
<1>3. CASE last # {}
  BY <1>1, <1>3 DEF Document
<1> QED
  BY <1>2, <1>3

\* The profile keeps the name of whoever is signed in.
LEMMA NamedStep == TypeOK /\ Mine /\ WritesMine /\ OwnDocument /\ Named /\ [Next]_vars => Named'
<1> SUFFICES ASSUME TypeOK, Mine, WritesMine, OwnDocument, Named, [Next]_vars
             PROVE  Named'
  OBVIOUS
<1> USE BoundsAssumption, NoneAssumption
    DEF TypeOK, Mine, Named, Account, NoProfile, InFlight, Fault,
        firebase, requests, counters, past
<1>1. ASSUME NEW u \in Emails, SignedIn(u) PROVE Named'
  BY <1>1 DEF SignedIn
<1>2. ASSUME NEW u \in Emails, SignInAnswered(u) PROVE Named'
  BY <1>2 DEF SignInAnswered
<1>3. ASSUME NEW u \in Emails, CreateServed(u) PROVE Named'
  BY <1>3 DEF CreateServed
<1>4. ASSUME NEW u \in Emails, CreateAnswered(u) PROVE Named'
  BY <1>4 DEF CreateAnswered
<1>5. ASSUME NEW u \in Emails, FetchAnswered(u) PROVE Named'
  BY <1>5, DocumentIsOwn DEF FetchAnswered
<1>6. ASSUME NEW u \in Emails, SignInFailed(u) PROVE Named'
  BY <1>6 DEF SignInFailed
<1>7. ASSUME NEW u \in Emails, CreateFailed(u) PROVE Named'
  BY <1>7 DEF CreateFailed
<1>8. ASSUME NEW u \in Emails, FetchFailed(u) PROVE Named'
  BY <1>8 DEF FetchFailed
<1>9. CASE signOut
  BY <1>9 DEF signOut
<1>10. CASE CardsSectionInit
  BY <1>10 DEF CardsSectionInit
<1>11. CASE fetchCurrentUser
  BY <1>11 DEF fetchCurrentUser
<1>12. CASE Stored
  BY <1>12 DEF Stored
<1>13. CASE WriteRefused
  BY <1>13 DEF WriteRefused
<1>14. CASE Killed
  BY <1>14 DEF Killed
<1>15. CASE Idle
  BY <1>15 DEF Idle, vars
<1>16. CASE UNCHANGED vars
  BY <1>16 DEF vars
<1> QED
  BY <1>1, <1>2, <1>3, <1>4, <1>5, <1>6, <1>7, <1>8,
     <1>9, <1>10, <1>11, <1>12, <1>13, <1>14, <1>15, <1>16 DEF Next

-----------------------------------------------------------------------------
\* The invariant is one.
THEOREM Invariance == Spec => []IInv
<1>1. Init => IInv
  BY BoundsAssumption, NoneAssumption
  DEF Init, IInv, TypeOK, Counted, Mine, AuthMine, WriterMine, WritesMine, OwnDocument, CreatedCurrent,
      DocumentComing, ProfileComing, Named, Account, Zero, InFlight, NoProfile
<1>2. IInv /\ [Next]_vars => IInv'
  BY TypeStep, MineStep, AuthStep, WriterStep, WritesStep, DocumentStep, CreatedStep, ComingStep,
     ProfileStep, NamedStep DEF IInv
<1> QED
  BY <1>1, <1>2, PTL DEF Spec

\* Types, whatever the bounds: the counters of requests stay within them.
THEOREM TypeCorrect == Spec => []TypeOK
<1>1. IInv => TypeOK
  BY DEF IInv
<1> QED
  BY <1>1, Invariance, PTL

\* A wrong current account at Firebase needs an account left too early, a
\* termination before Google has restored its own, or a change of account whose
\* sign-in is not through.
THEOREM NobodyElse == Spec => []NotSomebodyElse
<1>1. IInv => NotSomebodyElse
  BY DEF IInv, AuthMine, NotSomebodyElse
<1> QED
  BY <1>1, Invariance, PTL

\* A document with the email of another account needs one left too early.
THEOREM DocumentsAreOwn == Spec => []OwnDocument
<1>1. IInv => OwnDocument
  BY DEF IInv
<1> QED
  BY <1>1, Invariance, PTL

\* A missing document needs a failure or an account left too early.
THEOREM MissingDocuments == Spec => []DocumentMissingExplained
<1>1. IInv => DocumentMissingExplained
  <2> SUFFICES ASSUME IInv, Quiet, left = {}, NEW u \in registered
               PROVE  users[u] # None \/ u \in hurt
    BY DEF DocumentMissingExplained
  <2>1. ~(\E i \in DOMAIN writes : writes[i].uid = u)
    BY DEF Quiet
  <2>2. ~(created[u] > 0)
    BY DEF IInv, TypeOK, Quiet, InFlight
  <2> QED
    BY <2>1, <2>2 DEF IInv, DocumentComing
<1> QED
  BY <1>1, Invariance, PTL

\* A profile with another email or uid needs what ProfileExplained names.
THEOREM Profiles == Spec => []ProfileExplained
<1>1. IInv => ProfileExplained
  BY BoundsAssumption
  DEF IInv, TypeOK, Account, ProfileComing, Named, ProfileExplained, Quiet, InFlight
<1> QED
  BY <1>1, Invariance, PTL
=============================================================================
