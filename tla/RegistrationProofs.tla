------------------------- MODULE RegistrationProofs -------------------------
(***************************************************************************)
(* Proofs about Registration, for every set of emails and of requests, any *)
(* number of exceptions, and with or without a database, the index and the *)
(* foreign key.                                                            *)
(***************************************************************************)
EXTENDS Registration, TLAPS

(***************************************************************************)
(* The inductive invariant.                                                *)
(***************************************************************************)
OwnerLabels == {"checkEmail", "insertOwner", "getNewID", "done"}
DogLabels == {"insertDog", "getNewDogId", "done"}

Bodies ==
  /\ \A r \in Requests : response[r] # "none" => pc[r] = "done"
  /\ \A r \in OwnerPosts : pc[r] # "new" => pc[r] \in OwnerLabels /\ body[r] \in Emails
  /\ \A r \in DogPosts : pc[r] # "new" => pc[r] \in DogLabels /\ body[r] \in OwnerPosts \cup {NoId}

OwnersStored ==
  /\ \A w \in owners : w = OwnerRow(w.owner_id) /\ pc[w.owner_id] \in {"getNewID", "done"}
  /\ \A r \in Requests : pc[r] = "getNewID" => OwnerRow(r) \in owners

DogsStored ==
  /\ \A w \in dogs : w = DogRow(w.dog_id) /\ pc[w.dog_id] \in {"getNewDogId", "done"}
  /\ \A r \in Requests : pc[r] = "getNewDogId" => DogRow(r) \in dogs

HistorySound == \A r \in Requests :
  /\ \A q \in before[r] : pc[q] = "done"
  /\ pc[r] = "new" => before[r] = {}

Owns(r) == OwnerRow(r) \in owners
HasDog(r) == DogRow(r) \in dogs

\* A request that passed the check of AddOwner found no row of a request that
\* had been answered when it arrived.
CheckPassed == \A r \in OwnerPosts :
  pc[r] = "insertOwner" =>
    \A q \in OwnerPosts : q \in before[r] /\ Owns(q) => body[q] # body[r]

Unique == \A p, q \in OwnerPosts :
  p # q /\ body[p] = body[q] /\ Owns(p) /\ Owns(q) => Overlapped(p, q) /\ ~uniqueEmail

OwnerIds == \A r \in OwnerPosts :
  configured /\ response[r] = "201" =>
    /\ Owns(r)
    /\ id[r] \in OwnerPosts /\ Owns(id[r]) /\ body[id[r]] = body[r]

DogIds == \A r \in DogPosts :
  configured /\ response[r] = "201" =>
    /\ HasDog(r)
    /\ id[r] \in DogPosts /\ HasDog(id[r]) /\ body[id[r]] = body[r]

Rejected == \A r \in OwnerPosts :
  response[r] = "400" =>
    r \in faulted \/ \E q \in OwnerPosts \ {r} : Owns(q) /\ body[q] = body[r]

\* Without a database no request gets past IsConnect, and none is given an id.
Skipped == ~configured => \A r \in Requests :
  pc[r] \in {"new", "checkEmail", "insertDog", "done"} /\ id[r] = NoId

IInv ==
  /\ TypeOK
  /\ Bodies
  /\ OwnersStored
  /\ DogsStored
  /\ HistorySound
  /\ CheckPassed
  /\ Unique
  /\ OwnerIds
  /\ DogIds
  /\ Rejected
  /\ Skipped
-----------------------------------------------------------------------------
(***************************************************************************)
(* Types.                                                                  *)
(***************************************************************************)
\* Every step of the two controllers preserves the types.
LEMMA TypeStep == TypeOK /\ Bodies /\ [Next]_vars => TypeOK'
<1> SUFFICES ASSUME TypeOK, Bodies, [Next]_vars
             PROVE  TypeOK'
  OBVIOUS
<1> USE FaultsAssumption, PostsAssumption
    DEF TypeOK, Labels, Requests, NoId, Goto, Answer, Throw, NoThrow, schema, tables
<1>1. ASSUME NEW r \in Requests, NEW e \in Emails, ReceiveOwner(r, e)
      PROVE  TypeOK'
  BY <1>1 DEF ReceiveOwner, Receive, Answered
<1>2. ASSUME NEW r \in Requests, NEW o \in OwnerPosts \cup {NoId}, ReceiveDog(r, o)
      PROVE  TypeOK'
  BY <1>2 DEF ReceiveDog, Receive, Answered
<1>3. ASSUME NEW r \in Requests, CheckEmail(r)
      PROVE  TypeOK'
  BY <1>3 DEF CheckEmail
<1>4. ASSUME NEW r \in Requests, InsertOwner(r)
      PROVE  TypeOK'
  BY <1>4 DEF InsertOwner, Bodies, OwnerRow, OwnerLabels, DogLabels
<1>5. ASSUME NEW r \in Requests, InsertOwnerThrows(r)
      PROVE  TypeOK'
  BY <1>5 DEF InsertOwnerThrows, Bodies, OwnerRow, OwnerLabels, DogLabels
<1>6. ASSUME NEW r \in Requests, GetNewID(r)
      PROVE  TypeOK'
  BY <1>6 DEF GetNewID, OwnersWith
<1>7. ASSUME NEW r \in Requests, SelectOwnerThrows(r)
      PROVE  TypeOK'
  BY <1>7 DEF SelectOwnerThrows
<1>8. ASSUME NEW r \in Requests, InsertDog(r)
      PROVE  TypeOK'
  BY <1>8 DEF InsertDog, Bodies, DogRow, OwnerLabels, DogLabels
<1>9. ASSUME NEW r \in Requests, InsertDogThrows(r)
      PROVE  TypeOK'
  BY <1>9 DEF InsertDogThrows, Bodies, DogRow, OwnerLabels, DogLabels
<1>10. ASSUME NEW r \in Requests, GetNewDogId(r)
      PROVE  TypeOK'
  BY <1>10 DEF GetNewDogId, DogsOf
<1>11. ASSUME NEW r \in Requests, GetNewDogIdThrows(r)
      PROVE  TypeOK'
  BY <1>11 DEF GetNewDogIdThrows
<1>12. ASSUME NEW r \in Requests, NoDatabase(r)
      PROVE  TypeOK'
  BY <1>12 DEF NoDatabase
<1>13. CASE UNCHANGED vars
  BY <1>13 DEF vars
<1> QED
  BY <1>1, <1>2, <1>3, <1>4, <1>5, <1>6, <1>7, <1>8, <1>9, <1>10, <1>11, <1>12, <1>13
     DEF Next, Step, Finished

-----------------------------------------------------------------------------
(***************************************************************************)
(* The inductive step.                                                     *)
(***************************************************************************)
\* Bodies do not change and rows are not removed once requests are received.
LEMMA Frame ==
  ASSUME UNCHANGED <<body, before>>, owners \subseteq owners', dogs \subseteq dogs'
  PROVE  /\ \A q \in Requests : OwnerRow(q)' = OwnerRow(q) /\ DogRow(q)' = DogRow(q)
         /\ \A q \in Requests : (Owns(q) => Owns(q)') /\ (HasDog(q) => HasDog(q)')
         /\ \A p, q \in Requests : Overlapped(p, q)' = Overlapped(p, q)
BY DEF OwnerRow, DogRow, Owns, HasDog, Overlapped

\* What the selects by email and by owner return.
LEMMA OwnersWithRows ==
  ASSUME TypeOK, OwnersStored, NEW e
  PROVE  OwnersWith(e) = {q \in OwnerPosts : Owns(q) /\ body[q] = e}
<1>1. ASSUME NEW w \in owners
      PROVE  w.owner_id \in OwnerPosts /\ Owns(w.owner_id) /\ body[w.owner_id] = w.email
  BY DEF TypeOK, OwnersStored, Owns, OwnerRow
<1>2. \A q \in OwnerPosts : Owns(q) => OwnerRow(q) \in owners
                                       /\ OwnerRow(q).owner_id = q
                                       /\ OwnerRow(q).email = body[q]
  BY DEF Owns, OwnerRow
<1>3. OwnersWith(e) \subseteq {q \in OwnerPosts : Owns(q) /\ body[q] = e}
  BY <1>1 DEF OwnersWith
<1>4. {q \in OwnerPosts : Owns(q) /\ body[q] = e} \subseteq OwnersWith(e)
  BY <1>2 DEF OwnersWith
<1> QED
  BY <1>3, <1>4

LEMMA DogsOfRows ==
  ASSUME TypeOK, DogsStored, NEW o
  PROVE  DogsOf(o) = {q \in DogPosts : HasDog(q) /\ body[q] = o}
<1>1. ASSUME NEW w \in dogs
      PROVE  w.dog_id \in DogPosts /\ HasDog(w.dog_id) /\ body[w.dog_id] = w.owner_id
  BY DEF TypeOK, DogsStored, HasDog, DogRow
<1>2. \A q \in DogPosts : HasDog(q) => DogRow(q) \in dogs
                                       /\ DogRow(q).dog_id = q
                                       /\ DogRow(q).owner_id = body[q]
  BY DEF HasDog, DogRow
<1>3. DogsOf(o) \subseteq {q \in DogPosts : HasDog(q) /\ body[q] = o}
  BY <1>1 DEF DogsOf
<1>4. {q \in DogPosts : HasDog(q) /\ body[q] = o} \subseteq DogsOf(o)
  BY <1>2 DEF DogsOf
<1> QED
  BY <1>3, <1>4

\* The insert of AddOwner, committed: it adds the row of r and no other, and
\* the rows with the same email belong to requests that overlap with r.
LEMMA InsertedOwner ==
  ASSUME IInv, NEW r \in OwnerPosts, pc[r] = "insertOwner",
         owners' = owners \cup {OwnerRow(r)}, UNCHANGED <<body, before, uniqueEmail>>,
         ~(uniqueEmail /\ OwnersWith(body[r]) # {})
  PROVE  /\ \A q \in OwnerPosts \ {r} : Owns(q)' = Owns(q)
         /\ Unique'
<1>0. TypeOK /\ OwnersStored
  BY DEF IInv
<1>1. \A q \in OwnerPosts \ {r} : Owns(q)' = Owns(q)
  BY DEF Owns, OwnerRow
<1>2. ASSUME NEW q \in OwnerPosts \ {r}, body[q] = body[r], Owns(q)
      PROVE  Overlapped(q, r) /\ Overlapped(r, q) /\ ~uniqueEmail
  <2>1. q \in OwnersWith(body[r])
    BY <1>0, <1>2, OwnersWithRows
  <2>2. q \notin before[r]
    BY <1>2 DEF IInv, CheckPassed
  <2>3. r \notin before[q]
    BY DEF IInv, HistorySound, Requests
  <2> QED
    BY <1>0, <2>1, <2>2, <2>3 DEF Overlapped, TypeOK
<1>3. \A p, q \in Requests : Overlapped(p, q)' = Overlapped(p, q)
  BY DEF Overlapped
<1>4. Unique'
  BY <1>1, <1>2, <1>3 DEF IInv, Unique, Requests
<1> QED
  BY <1>1, <1>4

\* Every step of the two controllers preserves the inductive invariant.
LEMMA InvStep == IInv /\ [Next]_vars => IInv'
<1> SUFFICES ASSUME IInv, [Next]_vars
             PROVE  IInv'
  OBVIOUS
<1>0. TypeOK /\ TypeOK'
  BY TypeStep DEF IInv
<1> USE PostsAssumption DEF Requests, NoId, Goto, Answer, Throw, NoThrow, schema, tables, OwnerLabels, DogLabels
<1>1. ASSUME NEW r \in Requests, NEW b \in Emails \cup OwnerPosts \cup {NoId}, NEW l \in {"checkEmail", "insertDog"},
             Receive(r, b, l),
             r \in OwnerPosts => b \in Emails /\ l = "checkEmail",
             r \in DogPosts => b \in OwnerPosts \cup {NoId} /\ l = "insertDog"
      PROVE  IInv'
  <2>1. /\ pc[r] = "new" /\ response[r] = "none"
        /\ \A w \in owners : w.owner_id # r
        /\ \A w \in dogs : w.dog_id # r
        /\ \A q \in Requests : r \notin before[q]
    BY <1>0, <1>1 DEF IInv, TypeOK, Receive, Bodies, OwnersStored, DogsStored, HistorySound
  <2>2. /\ \A q \in Requests \ {r} : /\ pc'[q] = pc[q] /\ body'[q] = body[q] /\ before'[q] = before[q]
                                     /\ OwnerRow(q)' = OwnerRow(q) /\ DogRow(q)' = DogRow(q)
                                     /\ Owns(q)' = Owns(q) /\ HasDog(q)' = HasDog(q)
        /\ pc'[r] = l /\ body'[r] = b /\ before'[r] = Answered
        /\ UNCHANGED <<owners, dogs, response, id, configured, uniqueEmail, faulted>>
    BY <1>0, <1>1 DEF TypeOK, Receive, OwnerRow, DogRow, Owns, HasDog
  <2>3. ~Owns(r) /\ ~HasDog(r) /\ ~Owns(r)' /\ ~HasDog(r)'
    BY <1>1, <2>1, <2>2 DEF Owns, HasDog, OwnerRow, DogRow
  <2>4. Bodies'
    BY <1>0, <1>1, <2>1, <2>2 DEF IInv, TypeOK, Bodies
  <2>5. OwnersStored'
    BY <1>0, <2>1, <2>2 DEF IInv, TypeOK, OwnersStored
  <2>6. DogsStored'
    BY <1>0, <2>1, <2>2 DEF IInv, TypeOK, DogsStored
  <2>7. HistorySound'
    BY <1>0, <2>1, <2>2 DEF IInv, TypeOK, HistorySound, Answered
  <2>8. CheckPassed'
    BY <2>1, <2>2, <2>3 DEF IInv, CheckPassed
  <2>9. Unique'
    BY <2>1, <2>2, <2>3 DEF IInv, Unique, Overlapped
  <2>10. OwnerIds' /\ DogIds'
    BY <2>1, <2>2, <2>3 DEF IInv, OwnerIds, DogIds
  <2>11. Rejected'
    BY <2>1, <2>2, <2>3 DEF IInv, Rejected
  <2>12. Skipped'
    BY <2>2, <1>1 DEF IInv, Skipped
  <2> QED
    BY <1>0, <2>4, <2>5, <2>6, <2>7, <2>8, <2>9, <2>10, <2>11, <2>12 DEF IInv
<1>2. ASSUME NEW r \in Requests, Step(r)
      PROVE  IInv'
  <2>1. CASE CheckEmail(r)
    <3>0. UNCHANGED <<body, before, configured, uniqueEmail>> /\ owners \subseteq owners' /\ dogs \subseteq dogs' /\ faulted \subseteq faulted'
      BY <2>1 DEF CheckEmail
    <3>1. Bodies' /\ HistorySound'
      BY <1>0, <2>1 DEF IInv, TypeOK, CheckEmail, Bodies, HistorySound
    <3>2. OwnersStored'
      BY <1>0, <2>1, <3>0, Frame DEF IInv, TypeOK, CheckEmail, Bodies, OwnersStored
    <3>3. DogsStored'
      BY <1>0, <2>1, <3>0, Frame DEF IInv, TypeOK, CheckEmail, Bodies, DogsStored
    <3>4. CheckPassed'
      BY <1>0, <2>1, <3>0, OwnersWithRows DEF IInv, TypeOK, CheckEmail, CheckPassed, Owns, OwnerRow
    <3>5. Unique'
      BY <1>0, <2>1, <3>0, Frame DEF IInv, TypeOK, CheckEmail, Unique, Owns
    <3>6. OwnerIds' /\ DogIds'
      BY <1>0, <2>1, <3>0, Frame DEF IInv, TypeOK, CheckEmail, Bodies, OwnerIds, DogIds
    <3>7. Rejected'
      <4>1. response'[r] = "400" /\ r \in OwnerPosts =>
              \E q \in OwnerPosts \ {r} : Owns(q) /\ body[q] = body[r]
        <5>1. ~Owns(r)
          BY <2>1 DEF IInv, CheckEmail, OwnersStored, Owns, OwnerRow
        <5> QED
          BY <1>0, <2>1, <5>1, OwnersWithRows DEF IInv, TypeOK, CheckEmail, Bodies
      <4> QED
        BY <1>0, <2>1, <3>0, <4>1, Frame DEF IInv, TypeOK, CheckEmail, Rejected
    <3>8. Skipped'
      BY <1>0, <2>1, <3>0 DEF IInv, TypeOK, CheckEmail, Skipped
    <3> QED
      BY <1>0, <3>1, <3>2, <3>3, <3>4, <3>5, <3>6, <3>7, <3>8 DEF IInv
  <2>2. CASE InsertOwner(r)
    <3>0. UNCHANGED <<body, before, configured, uniqueEmail>> /\ owners \subseteq owners' /\ dogs \subseteq dogs' /\ faulted \subseteq faulted'
      BY <2>2 DEF InsertOwner
    <3>1. Bodies' /\ HistorySound'
      BY <1>0, <2>2 DEF IInv, TypeOK, InsertOwner, Bodies, HistorySound
    <3>2. OwnersStored'
      BY <1>0, <2>2, <3>0, Frame DEF IInv, TypeOK, InsertOwner, Bodies, OwnersStored, OwnerRow
    <3>3. DogsStored'
      BY <1>0, <2>2, <3>0, Frame DEF IInv, TypeOK, InsertOwner, Bodies, DogsStored
    <3>4. CheckPassed'
      <4>1. r \in OwnerPosts
        BY <2>2 DEF IInv, InsertOwner, Bodies
      <4>2. \A q \in OwnerPosts : q # r => Owns(q)' = Owns(q)
        BY <2>2, <3>0, <4>1 DEF InsertOwner, Owns, OwnerRow
      <4>3. \A q \in OwnerPosts : r \notin before[q]
        BY <2>2 DEF IInv, InsertOwner, HistorySound
      <4> QED
        BY <1>0, <2>2, <3>0, <4>2, <4>3 DEF IInv, TypeOK, InsertOwner, CheckPassed
    <3>5. Unique'
      <4>1. r \in OwnerPosts
        BY <2>2 DEF IInv, InsertOwner, Bodies
      <4>2. CASE UNCHANGED owners
        BY <3>0, <4>2, Frame DEF IInv, Unique, Owns
      <4> QED
        BY <2>2, <3>0, <4>1, <4>2, InsertedOwner DEF InsertOwner
    <3>6. OwnerIds' /\ DogIds'
      BY <1>0, <2>2, <3>0, Frame DEF IInv, TypeOK, InsertOwner, Bodies, OwnerIds, DogIds
    <3>7. Rejected'
      <4>1. response'[r] = "400" /\ r \in OwnerPosts =>
              \E q \in OwnerPosts \ {r} : Owns(q) /\ body[q] = body[r]
        <5>1. ~Owns(r)
          BY <2>2 DEF IInv, InsertOwner, OwnersStored, Owns, OwnerRow
        <5> QED
          BY <1>0, <2>2, <5>1, OwnersWithRows DEF IInv, TypeOK, InsertOwner, Bodies
      <4> QED
        BY <1>0, <2>2, <3>0, <4>1, Frame DEF IInv, TypeOK, InsertOwner, Rejected
    <3>8. Skipped'
      BY <1>0, <2>2, <3>0 DEF IInv, TypeOK, InsertOwner, Skipped
    <3> QED
      BY <1>0, <3>1, <3>2, <3>3, <3>4, <3>5, <3>6, <3>7, <3>8 DEF IInv
  <2>3. CASE InsertOwnerThrows(r)
    <3>0. UNCHANGED <<body, before, configured, uniqueEmail>> /\ owners \subseteq owners' /\ dogs \subseteq dogs' /\ faulted \subseteq faulted'
      BY <2>3 DEF InsertOwnerThrows
    <3>1. Bodies' /\ HistorySound'
      BY <1>0, <2>3 DEF IInv, TypeOK, InsertOwnerThrows, Bodies, HistorySound
    <3>2. OwnersStored'
      BY <1>0, <2>3, <3>0, Frame DEF IInv, TypeOK, InsertOwnerThrows, Bodies, OwnersStored, OwnerRow
    <3>3. DogsStored'
      BY <1>0, <2>3, <3>0, Frame DEF IInv, TypeOK, InsertOwnerThrows, Bodies, DogsStored
    <3>4. CheckPassed'
      <4>1. r \in OwnerPosts
        BY <2>3 DEF IInv, InsertOwnerThrows, Bodies
      <4>2. \A q \in OwnerPosts : q # r => Owns(q)' = Owns(q)
        BY <2>3, <3>0, <4>1 DEF InsertOwnerThrows, Owns, OwnerRow
      <4>3. \A q \in OwnerPosts : r \notin before[q]
        BY <2>3 DEF IInv, InsertOwnerThrows, HistorySound
      <4> QED
        BY <1>0, <2>3, <3>0, <4>2, <4>3 DEF IInv, TypeOK, InsertOwnerThrows, CheckPassed
    <3>5. Unique'
      <4>1. r \in OwnerPosts
        BY <2>3 DEF IInv, InsertOwnerThrows, Bodies
      <4>2. CASE UNCHANGED owners
        BY <3>0, <4>2, Frame DEF IInv, Unique, Owns
      <4> QED
        BY <2>3, <3>0, <4>1, <4>2, InsertedOwner DEF InsertOwnerThrows
    <3>6. OwnerIds' /\ DogIds'
      BY <1>0, <2>3, <3>0, Frame DEF IInv, TypeOK, InsertOwnerThrows, Bodies, OwnerIds, DogIds
    <3>7. Rejected'
      BY <1>0, <2>3, <3>0, Frame DEF IInv, TypeOK, InsertOwnerThrows, Rejected, Bodies
    <3>8. Skipped'
      BY <1>0, <2>3, <3>0 DEF IInv, TypeOK, InsertOwnerThrows, Skipped
    <3> QED
      BY <1>0, <3>1, <3>2, <3>3, <3>4, <3>5, <3>6, <3>7, <3>8 DEF IInv
  <2>4. CASE GetNewID(r)
    <3>0. UNCHANGED <<body, before, configured, uniqueEmail>> /\ owners \subseteq owners' /\ dogs \subseteq dogs' /\ faulted \subseteq faulted'
      BY <2>4 DEF GetNewID
    <3>1. Bodies' /\ HistorySound'
      BY <1>0, <2>4 DEF IInv, TypeOK, GetNewID, Bodies, HistorySound
    <3>2. OwnersStored'
      BY <1>0, <2>4, <3>0, Frame DEF IInv, TypeOK, GetNewID, Bodies, OwnersStored
    <3>3. DogsStored'
      BY <1>0, <2>4, <3>0, Frame DEF IInv, TypeOK, GetNewID, Bodies, DogsStored
    <3>4. CheckPassed'
      BY <1>0, <2>4, <3>0, Frame DEF IInv, TypeOK, GetNewID, HistorySound, CheckPassed, Owns
    <3>5. Unique'
      BY <1>0, <2>4, <3>0, Frame DEF IInv, TypeOK, GetNewID, Unique, Owns
    <3>6. OwnerIds' /\ DogIds'
      <4>1. r \in OwnerPosts /\ Owns(r) /\ r \in OwnersWith(body[r])
        <5>1. r \in OwnerPosts /\ Owns(r)
          BY <2>4 DEF IInv, GetNewID, Bodies, OwnersStored, Owns
        <5> QED
          BY <1>0, <5>1, OwnersWithRows DEF IInv
      <4>2. \A o \in OwnersWith(body[r]) : o \in OwnerPosts /\ Owns(o) /\ body[o] = body[r]
        BY <1>0, OwnersWithRows DEF IInv
      <4>3. id'[r] \in OwnersWith(body[r]) /\ \A q \in Requests \ {r} : id'[q] = id[q] /\ response'[q] = response[q]
        BY <1>0, <2>4, <4>1 DEF GetNewID, TypeOK
      <4> QED
        BY <3>0, <4>1, <4>2, <4>3, Frame DEF IInv, OwnerIds, DogIds
    <3>7. Rejected'
      <4>1. r \in OwnerPosts /\ Owns(r)
        BY <2>4 DEF IInv, GetNewID, Bodies, OwnersStored, Owns
      <4>2. r \in OwnersWith(body[r])
        BY <1>0, <4>1, OwnersWithRows DEF IInv
      <4> QED
        BY <1>0, <2>4, <3>0, <4>2, Frame DEF IInv, TypeOK, GetNewID, Rejected
    <3>8. Skipped'
      BY <1>0, <2>4, <3>0 DEF IInv, TypeOK, GetNewID, Skipped
    <3> QED
      BY <1>0, <3>1, <3>2, <3>3, <3>4, <3>5, <3>6, <3>7, <3>8 DEF IInv
  <2>5. CASE SelectOwnerThrows(r)
    <3>0. UNCHANGED <<body, before, configured, uniqueEmail>> /\ owners \subseteq owners' /\ dogs \subseteq dogs' /\ faulted \subseteq faulted'
      BY <2>5 DEF SelectOwnerThrows
    <3>1. Bodies' /\ HistorySound'
      BY <1>0, <2>5 DEF IInv, TypeOK, SelectOwnerThrows, Bodies, HistorySound
    <3>2. OwnersStored'
      BY <1>0, <2>5, <3>0, Frame DEF IInv, TypeOK, SelectOwnerThrows, Bodies, OwnersStored
    <3>3. DogsStored'
      BY <1>0, <2>5, <3>0, Frame DEF IInv, TypeOK, SelectOwnerThrows, Bodies, DogsStored
    <3>4. CheckPassed'
      BY <1>0, <2>5, <3>0, Frame DEF IInv, TypeOK, SelectOwnerThrows, HistorySound, CheckPassed, Owns
    <3>5. Unique'
      BY <1>0, <2>5, <3>0, Frame DEF IInv, TypeOK, SelectOwnerThrows, Unique, Owns
    <3>6. OwnerIds' /\ DogIds'
      BY <1>0, <2>5, <3>0, Frame DEF IInv, TypeOK, SelectOwnerThrows, Bodies, OwnerIds, DogIds
    <3>7. Rejected'
      BY <1>0, <2>5, <3>0, Frame DEF IInv, TypeOK, SelectOwnerThrows, Rejected, Bodies
    <3>8. Skipped'
      BY <1>0, <2>5, <3>0 DEF IInv, TypeOK, SelectOwnerThrows, Skipped
    <3> QED
      BY <1>0, <3>1, <3>2, <3>3, <3>4, <3>5, <3>6, <3>7, <3>8 DEF IInv
  <2>6. CASE InsertDog(r)
    <3>0. UNCHANGED <<body, before, configured, uniqueEmail>> /\ owners \subseteq owners' /\ dogs \subseteq dogs' /\ faulted \subseteq faulted'
      BY <2>6 DEF InsertDog
    <3>1. Bodies' /\ HistorySound'
      BY <1>0, <2>6 DEF IInv, TypeOK, InsertDog, Bodies, HistorySound
    <3>2. OwnersStored'
      BY <1>0, <2>6, <3>0, Frame DEF IInv, TypeOK, InsertDog, Bodies, OwnersStored
    <3>3. DogsStored'
      BY <1>0, <2>6, <3>0, Frame DEF IInv, TypeOK, InsertDog, Bodies, DogsStored, DogRow
    <3>4. CheckPassed'
      BY <1>0, <2>6, <3>0, Frame DEF IInv, TypeOK, InsertDog, HistorySound, CheckPassed, Owns
    <3>5. Unique'
      BY <1>0, <2>6, <3>0, Frame DEF IInv, TypeOK, InsertDog, Unique, Owns
    <3>6. OwnerIds' /\ DogIds'
      BY <1>0, <2>6, <3>0, Frame DEF IInv, TypeOK, InsertDog, Bodies, OwnerIds, DogIds
    <3>7. Rejected'
      BY <1>0, <2>6, <3>0, Frame DEF IInv, TypeOK, InsertDog, Rejected, Bodies
    <3>8. Skipped'
      BY <1>0, <2>6, <3>0 DEF IInv, TypeOK, InsertDog, Skipped
    <3> QED
      BY <1>0, <3>1, <3>2, <3>3, <3>4, <3>5, <3>6, <3>7, <3>8 DEF IInv
  <2>7. CASE InsertDogThrows(r)
    <3>0. UNCHANGED <<body, before, configured, uniqueEmail>> /\ owners \subseteq owners' /\ dogs \subseteq dogs' /\ faulted \subseteq faulted'
      BY <2>7 DEF InsertDogThrows
    <3>1. Bodies' /\ HistorySound'
      BY <1>0, <2>7 DEF IInv, TypeOK, InsertDogThrows, Bodies, HistorySound
    <3>2. OwnersStored'
      BY <1>0, <2>7, <3>0, Frame DEF IInv, TypeOK, InsertDogThrows, Bodies, OwnersStored
    <3>3. DogsStored'
      BY <1>0, <2>7, <3>0, Frame DEF IInv, TypeOK, InsertDogThrows, Bodies, DogsStored, DogRow
    <3>4. CheckPassed'
      BY <1>0, <2>7, <3>0, Frame DEF IInv, TypeOK, InsertDogThrows, HistorySound, CheckPassed, Owns
    <3>5. Unique'
      BY <1>0, <2>7, <3>0, Frame DEF IInv, TypeOK, InsertDogThrows, Unique, Owns
    <3>6. OwnerIds' /\ DogIds'
      BY <1>0, <2>7, <3>0, Frame DEF IInv, TypeOK, InsertDogThrows, Bodies, OwnerIds, DogIds
    <3>7. Rejected'
      BY <1>0, <2>7, <3>0, Frame DEF IInv, TypeOK, InsertDogThrows, Rejected, Bodies
    <3>8. Skipped'
      BY <1>0, <2>7, <3>0 DEF IInv, TypeOK, InsertDogThrows, Skipped
    <3> QED
      BY <1>0, <3>1, <3>2, <3>3, <3>4, <3>5, <3>6, <3>7, <3>8 DEF IInv
  <2>8. CASE GetNewDogId(r)
    <3>0. UNCHANGED <<body, before, configured, uniqueEmail>> /\ owners \subseteq owners' /\ dogs \subseteq dogs' /\ faulted \subseteq faulted'
      BY <2>8 DEF GetNewDogId
    <3>1. Bodies' /\ HistorySound'
      BY <1>0, <2>8 DEF IInv, TypeOK, GetNewDogId, Bodies, HistorySound
    <3>2. OwnersStored'
      BY <1>0, <2>8, <3>0, Frame DEF IInv, TypeOK, GetNewDogId, Bodies, OwnersStored
    <3>3. DogsStored'
      BY <1>0, <2>8, <3>0, Frame DEF IInv, TypeOK, GetNewDogId, Bodies, DogsStored
    <3>4. CheckPassed'
      BY <1>0, <2>8, <3>0, Frame DEF IInv, TypeOK, GetNewDogId, HistorySound, CheckPassed, Owns
    <3>5. Unique'
      BY <1>0, <2>8, <3>0, Frame DEF IInv, TypeOK, GetNewDogId, Unique, Owns
    <3>6. OwnerIds' /\ DogIds'
      <4>1. r \in DogPosts /\ HasDog(r) /\ r \in DogsOf(body[r])
        <5>1. r \in DogPosts /\ HasDog(r)
          BY <2>8 DEF IInv, GetNewDogId, Bodies, DogsStored, HasDog
        <5> QED
          BY <1>0, <5>1, DogsOfRows DEF IInv
      <4>2. \A d \in DogsOf(body[r]) : d \in DogPosts /\ HasDog(d) /\ body[d] = body[r]
        BY <1>0, DogsOfRows DEF IInv
      <4>3. id'[r] \in DogsOf(body[r]) /\ \A q \in Requests \ {r} : id'[q] = id[q] /\ response'[q] = response[q]
        BY <1>0, <2>8, <4>1 DEF GetNewDogId, TypeOK
      <4> QED
        BY <3>0, <4>1, <4>2, <4>3, Frame DEF IInv, OwnerIds, DogIds
    <3>7. Rejected'
      BY <1>0, <2>8, <3>0, Frame DEF IInv, TypeOK, GetNewDogId, Rejected, Bodies
    <3>8. Skipped'
      BY <1>0, <2>8, <3>0 DEF IInv, TypeOK, GetNewDogId, Skipped
    <3> QED
      BY <1>0, <3>1, <3>2, <3>3, <3>4, <3>5, <3>6, <3>7, <3>8 DEF IInv
  <2>9. CASE GetNewDogIdThrows(r)
    <3>0. UNCHANGED <<body, before, configured, uniqueEmail>> /\ owners \subseteq owners' /\ dogs \subseteq dogs' /\ faulted \subseteq faulted'
      BY <2>9 DEF GetNewDogIdThrows
    <3>1. Bodies' /\ HistorySound'
      BY <1>0, <2>9 DEF IInv, TypeOK, GetNewDogIdThrows, Bodies, HistorySound
    <3>2. OwnersStored'
      BY <1>0, <2>9, <3>0, Frame DEF IInv, TypeOK, GetNewDogIdThrows, Bodies, OwnersStored
    <3>3. DogsStored'
      BY <1>0, <2>9, <3>0, Frame DEF IInv, TypeOK, GetNewDogIdThrows, Bodies, DogsStored
    <3>4. CheckPassed'
      BY <1>0, <2>9, <3>0, Frame DEF IInv, TypeOK, GetNewDogIdThrows, HistorySound, CheckPassed, Owns
    <3>5. Unique'
      BY <1>0, <2>9, <3>0, Frame DEF IInv, TypeOK, GetNewDogIdThrows, Unique, Owns
    <3>6. OwnerIds' /\ DogIds'
      BY <1>0, <2>9, <3>0, Frame DEF IInv, TypeOK, GetNewDogIdThrows, Bodies, OwnerIds, DogIds
    <3>7. Rejected'
      BY <1>0, <2>9, <3>0, Frame DEF IInv, TypeOK, GetNewDogIdThrows, Rejected, Bodies
    <3>8. Skipped'
      BY <1>0, <2>9, <3>0 DEF IInv, TypeOK, GetNewDogIdThrows, Skipped
    <3> QED
      BY <1>0, <3>1, <3>2, <3>3, <3>4, <3>5, <3>6, <3>7, <3>8 DEF IInv
  <2>10. CASE NoDatabase(r)
    <3>0. UNCHANGED <<body, before, configured, uniqueEmail>> /\ owners \subseteq owners' /\ dogs \subseteq dogs' /\ faulted \subseteq faulted'
      BY <2>10 DEF NoDatabase
    <3>1. Bodies' /\ HistorySound'
      BY <1>0, <2>10 DEF IInv, TypeOK, NoDatabase, Bodies, HistorySound
    <3>2. OwnersStored'
      BY <1>0, <2>10, <3>0, Frame DEF IInv, TypeOK, NoDatabase, Bodies, OwnersStored
    <3>3. DogsStored'
      BY <1>0, <2>10, <3>0, Frame DEF IInv, TypeOK, NoDatabase, Bodies, DogsStored
    <3>4. CheckPassed'
      BY <1>0, <2>10, <3>0, Frame DEF IInv, TypeOK, NoDatabase, HistorySound, CheckPassed, Owns
    <3>5. Unique'
      BY <1>0, <2>10, <3>0, Frame DEF IInv, TypeOK, NoDatabase, Unique, Owns
    <3>6. OwnerIds' /\ DogIds'
      BY <2>10, <3>0 DEF NoDatabase, OwnerIds, DogIds
    <3>7. Rejected'
      BY <1>0, <2>10, <3>0, Frame DEF IInv, TypeOK, NoDatabase, Rejected, Bodies
    <3>8. Skipped'
      BY <1>0, <2>10, <3>0 DEF IInv, TypeOK, NoDatabase, Skipped
    <3> QED
      BY <1>0, <3>1, <3>2, <3>3, <3>4, <3>5, <3>6, <3>7, <3>8 DEF IInv
  <2> QED
    BY <1>2, <2>1, <2>2, <2>3, <2>4, <2>5, <2>6, <2>7, <2>8, <2>9, <2>10 DEF Step
<1>3. ASSUME NEW r \in Requests, NEW e \in Emails, ReceiveOwner(r, e)
      PROVE  IInv'
  BY <1>1, <1>3 DEF ReceiveOwner
<1>4. ASSUME NEW r \in Requests, NEW d \in OwnerPosts \cup {NoId}, ReceiveDog(r, d)
      PROVE  IInv'
  BY <1>1, <1>4 DEF ReceiveDog
<1>5. CASE UNCHANGED vars
  <2>0. UNCHANGED <<body, before>> /\ owners \subseteq owners' /\ dogs \subseteq dogs'
    BY <1>5 DEF vars
  <2>1. Bodies' /\ HistorySound' /\ OwnersStored' /\ DogsStored'
    BY <1>0, <1>5, <2>0, Frame DEF vars, IInv, TypeOK, Bodies, HistorySound, OwnersStored, DogsStored
  <2>2. CheckPassed' /\ Unique'
    BY <1>5, <2>0, Frame DEF vars, IInv, CheckPassed, Unique, Owns
  <2>3. OwnerIds' /\ DogIds' /\ Rejected' /\ Skipped'
    BY <1>5, <2>0, Frame DEF vars, IInv, OwnerIds, DogIds, Rejected, Skipped
  <2> QED
    BY <1>0, <2>1, <2>2, <2>3 DEF IInv
<1> QED
  BY <1>2, <1>3, <1>4, <1>5 DEF Next, Finished

\* The empty tables, with no request received, satisfy it.
LEMMA InvInit == Init => IInv
BY FaultsAssumption
   DEF Init, IInv, TypeOK, Labels, Bodies, OwnersStored, DogsStored, HistorySound,
       CheckPassed, Unique, OwnerIds, DogIds, Rejected, Skipped, Owns, HasDog, Requests

\* The inductive invariant holds of every reachable state.
THEOREM Invariance == Spec => []IInv
BY InvInit, InvStep, PTL DEF Spec

-----------------------------------------------------------------------------
(***************************************************************************)
(* What follows from it.                                                   *)
(***************************************************************************)
\* The properties speak of the rows created; so does the invariant.
LEMMA CreatedRows ==
  ASSUME IInv
  PROVE  /\ \A r \in OwnerPosts : Created(r) <=> Owns(r)
         /\ \A r \in DogPosts : Created(r) <=> HasDog(r)
<1>1. /\ \A w \in owners : w.owner_id \in OwnerPosts /\ w = OwnerRow(w.owner_id)
      /\ \A w \in dogs : w.dog_id \in DogPosts /\ w = DogRow(w.dog_id)
  BY DEF IInv, TypeOK, OwnersStored, DogsStored
<1>2. /\ \A r \in OwnerPosts : OwnerRow(r).owner_id = r
      /\ \A r \in DogPosts : DogRow(r).dog_id = r
  BY DEF OwnerRow, DogRow
<1> QED
  BY <1>1, <1>2, PostsAssumption DEF Created, Owns, HasDog

\* The tables and the locals of the controllers always have their types.
THEOREM TypeCorrect == Spec => []TypeOK
<1>1. IInv => TypeOK
  BY DEF IInv
<1> QED
  BY Invariance, <1>1, PTL

\* Without an index only overlapping requests register an email twice; with
\* one, none do.
THEOREM EmailsAreUnique == Spec => []OneOwnerPerEmail
<1>1. IInv => OneOwnerPerEmail
  BY CreatedRows DEF IInv, Unique, OneOwnerPerEmail
<1> QED
  BY Invariance, <1>1, PTL

\* With a database configured, a sign-up answered 201 carries the id of a row
\* with its email.
THEOREM OwnerIdsAreOwn == Spec => []OwnerIdIsOwn
<1>1. IInv => OwnerIdIsOwn
  <2> SUFFICES ASSUME IInv, NEW r \in OwnerPosts, configured, response[r] = "201"
               PROVE  /\ id[r] \in OwnersWith(body[r])
                      /\ id[r] = r \/ \E q \in OwnerPosts \ {r} : Created(q) /\ body[q] = body[r]
    BY DEF OwnerIdIsOwn
  <2>1. id[r] \in OwnerPosts /\ Owns(id[r]) /\ body[id[r]] = body[r]
    BY DEF IInv, OwnerIds
  <2>2. id[r] \in OwnersWith(body[r])
    BY <2>1, OwnersWithRows DEF IInv
  <2> QED
    BY <2>1, <2>2, CreatedRows
<1> QED
  BY Invariance, <1>1, PTL

\* With a database configured, a dog answered 201 carries the id of a dog of
\* the same owner.
THEOREM DogIdsAreOwn == Spec => []DogIdIsOwn
<1>1. IInv => DogIdIsOwn
  <2> SUFFICES ASSUME IInv, NEW r \in DogPosts, configured, response[r] = "201"
               PROVE  /\ id[r] \in DogsOf(body[r])
                      /\ id[r] = r \/ \E q \in DogPosts \ {r} : Created(q) /\ body[q] = body[r]
    BY DEF DogIdIsOwn
  <2>1. id[r] \in DogPosts /\ HasDog(id[r]) /\ body[id[r]] = body[r]
    BY DEF IInv, DogIds
  <2>2. id[r] \in DogsOf(body[r])
    BY <2>1, DogsOfRows DEF IInv
  <2> QED
    BY <2>1, <2>2, CreatedRows
<1> QED
  BY Invariance, <1>1, PTL

\* A sign-up is refused only for a taken email or an exception; the branch of
\* OwnerController for a row that GetNewID does not find is never taken.
THEOREM RejectionsAreExplained == Spec => []RejectionExplained
<1>1. IInv => RejectionExplained
  BY CreatedRows DEF IInv, Rejected, RejectionExplained
<1> QED
  BY Invariance, <1>1, PTL
=============================================================================
