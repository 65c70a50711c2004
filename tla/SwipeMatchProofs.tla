-------------------------- MODULE SwipeMatchProofs --------------------------
(***************************************************************************)
(* Proofs about SwipeMatch, for every set of dogs and of requests and any  *)
(* number of exceptions.                                                   *)
(***************************************************************************)
EXTENDS SwipeMatch, TLAPS

(***************************************************************************)
(* The inductive invariant: what each request has behind it, by its        *)
(* program counter, and how that relates to the tables.                    *)
(***************************************************************************)
Inserted == {"queryMatch", "insertMatch", "respond"}

\* The like of r has been checked against the swipes of the other dog.
Checked(r) ==
  /\ configured
  /\ swipe[r].Outcome = 1
  /\ pc[r] \in {"insertMatch", "respond"} \/ response[r] = "201"

Received == \A r \in Requests :
  /\ pc[r] # "new" => swipe[r] \in Swipes
  /\ response[r] # "none" => pc[r] = "done"
  /\ pc[r] \in Inserted \cup {"insertSwipe"} => configured

SwipesStored ==
  /\ \A w \in swipe_outcomes :
       /\ w = SwipeRow(w.outcome_id)
       /\ pc[w.outcome_id] \in Inserted \cup {"done"}
  /\ \A r \in Requests :
       pc[r] \in Inserted \/ (response[r] = "201" /\ configured)
         => SwipeRow(r) \in swipe_outcomes

MatchesStored ==
  /\ \A m \in matches : m = MatchRow(m.match_id) /\ isMatch[m.match_id]
  /\ \A r \in Requests :
       /\ isMatch[r]
       /\ pc[r] = "respond" \/ response[r] = "201"
       => MatchRow(r) \in matches

\* What isMatch records: an opposite like that was committed before r was
\* answered.
LikedBackBy(r, q) == Likes(q) /\ Opposite(r, q) /\ r \notin before[q]

IsMatchSound == \A r \in Requests :
  /\ pc[r] = "queryMatch" => swipe[r].Outcome = 1 /\ ~isMatch[r]
  /\ pc[r] = "insertMatch" => isMatch[r]
  /\ isMatch[r] => /\ pc[r] \in {"insertMatch", "respond", "done"}
                   /\ Likes(r)
                   /\ \E q \in Requests : LikedBackBy(r, q)

\* Of two opposite likes, the one that is checked last finds the other.
OneSeesTheOther == \A p, q \in Requests :
  Checked(p) /\ Checked(q) /\ Opposite(p, q) => isMatch[p] \/ isMatch[q]

HistorySound == \A r \in Requests :
  /\ \A q \in before[r] : pc[q] = "done"
  /\ pc[r] = "new" => before[r] = {}

IInv ==
  /\ TypeOK
  /\ Received
  /\ SwipesStored
  /\ MatchesStored
  /\ IsMatchSound
  /\ OneSeesTheOther
  /\ HistorySound
-----------------------------------------------------------------------------
(***************************************************************************)
(* Types.                                                                  *)
(***************************************************************************)
\* The rows that a request with a body builds are rows of the tables.
LEMMA RowTypes ==
  ASSUME TypeOK, NEW r \in Requests, swipe[r] \in Swipes
  PROVE  SwipeRow(r) \in SwipeRows /\ MatchRow(r) \in MatchRows
BY DEF Swipes, SwipeRow, MatchRow, SwipeRows, MatchRows

\* Every step of SendSwipe preserves the types, given that a request that has
\* been received has a body.
LEMMA TypeStep == TypeOK /\ Received /\ [Next]_vars => TypeOK'
<1> SUFFICES ASSUME TypeOK, Received, [Next]_vars
             PROVE  TypeOK'
  OBVIOUS
<1> USE MaxFaultsAssumption DEF TypeOK, Labels, Statuses, Goto, Answer, Throw, tables
<1>1. ASSUME NEW r \in Requests, NEW s \in Swipes, Receive(r, s)
      PROVE  TypeOK'
  BY <1>1 DEF Receive, Answered
<1>2. ASSUME NEW r \in Requests, Connect(r)
      PROVE  TypeOK'
  BY <1>2 DEF Connect
<1>3. ASSUME NEW r \in Requests, ConnectThrows(r)
      PROVE  TypeOK'
  BY <1>3 DEF ConnectThrows
<1>4. ASSUME NEW r \in Requests, InsertSwipe(r)
      PROVE  TypeOK'
  BY <1>4, RowTypes DEF InsertSwipe, Received
<1>5. ASSUME NEW r \in Requests, InsertSwipeThrows(r)
      PROVE  TypeOK'
  BY <1>5, RowTypes DEF InsertSwipeThrows, Received
<1>6. ASSUME NEW r \in Requests, QueryMatch(r)
      PROVE  TypeOK'
  BY <1>6 DEF QueryMatch, LikedBack
<1>7. ASSUME NEW r \in Requests, QueryMatchThrows(r)
      PROVE  TypeOK'
  BY <1>7 DEF QueryMatchThrows
<1>8. ASSUME NEW r \in Requests, InsertMatch(r)
      PROVE  TypeOK'
  BY <1>8, RowTypes DEF InsertMatch, Received
<1>9. ASSUME NEW r \in Requests, InsertMatchThrows(r)
      PROVE  TypeOK'
  BY <1>9, RowTypes DEF InsertMatchThrows, Received
<1>10. ASSUME NEW r \in Requests, Respond(r)
       PROVE  TypeOK'
  BY <1>10 DEF Respond
<1>11. CASE UNCHANGED vars
  BY <1>11 DEF vars
<1> QED
  BY <1>1, <1>2, <1>3, <1>4, <1>5, <1>6, <1>7, <1>8, <1>9, <1>10, <1>11
     DEF Next, Step, Finished
-----------------------------------------------------------------------------
(***************************************************************************)
(* The inductive step.                                                     *)
(***************************************************************************)
\* Once received, a body does not change, and no row is ever removed: what is
\* said of bodies and of stored likes stays true.
LEMMA Frame ==
  ASSUME UNCHANGED <<swipe, before>>,
         swipe_outcomes \subseteq swipe_outcomes'
  PROVE  /\ \A q \in Requests : SwipeRow(q)' = SwipeRow(q)
         /\ \A q \in Requests : MatchRow(q)' = MatchRow(q)
         /\ \A q \in Requests : Likes(q) => Likes(q)'
         /\ \A p, q \in Requests : Opposite(p, q)' = Opposite(p, q)
         /\ \A p, q \in Requests : LikedBackBy(p, q) => LikedBackBy(p, q)'
<1>1. /\ \A q \in Requests : SwipeRow(q)' = SwipeRow(q)
      /\ \A q \in Requests : MatchRow(q)' = MatchRow(q)
      /\ \A p, q \in Requests : Opposite(p, q)' = Opposite(p, q)
  BY DEF SwipeRow, MatchRow, Opposite
<1>2. \A q \in Requests : Likes(q) => Likes(q)'
  BY <1>1 DEF Likes
<1> QED
  BY <1>1, <1>2 DEF LikedBackBy

\* The same for the arrival of r, about the other requests.
LEMMA FrameReceive ==
  ASSUME TypeOK, NEW r \in Requests, NEW s \in Swipes, Receive(r, s)
  PROVE  \A q \in Requests \ {r} :
           /\ swipe'[q] = swipe[q]
           /\ before'[q] = before[q]
           /\ SwipeRow(q)' = SwipeRow(q)
           /\ MatchRow(q)' = MatchRow(q)
           /\ Likes(q) => Likes(q)'
BY DEF TypeOK, Receive, tables, SwipeRow, MatchRow, Likes

\* Every step of SendSwipe preserves the inductive invariant.
LEMMA InvStep == IInv /\ [Next]_vars => IInv'
<1> SUFFICES ASSUME IInv, [Next]_vars
             PROVE  IInv'
  OBVIOUS
<1>0. TypeOK /\ TypeOK'
  BY TypeStep DEF IInv
<1> USE DEF Goto, Answer, Throw, tables, Inserted
<1>1. ASSUME NEW r \in Requests, NEW s \in Swipes, Receive(r, s)
      PROVE  IInv'
  <2>1. ~isMatch[r] /\ pc[r] = "new" /\ ~Likes(r) /\ SwipeRow(r) \notin swipe_outcomes
    BY <1>1 DEF IInv, Receive, IsMatchSound, SwipesStored, SwipeRow, Likes
  <2>2. Received'
    BY <1>0, <1>1 DEF IInv, TypeOK, Receive, Received
  <2>3. SwipesStored'
    <3>1. /\ \A w \in swipe_outcomes : w.outcome_id \in Requests \ {r}
          /\ \A q \in Requests \ {r} : pc'[q] = pc[q]
          /\ pc'[r] = "connect" /\ response'[r] = "none"
      BY <1>0, <1>1 DEF IInv, TypeOK, Receive, Received, SwipesStored, SwipeRows
    <3> QED
      BY <1>1, <3>1, FrameReceive, <1>0 DEF IInv, Receive, SwipesStored
  <2>4. MatchesStored'
    <3>1. \A m \in matches : m.match_id \in Requests \ {r}
      BY <1>0, <2>1 DEF IInv, TypeOK, MatchesStored, MatchRows
    <3>2. /\ \A q \in Requests \ {r} : pc'[q] = pc[q]
          /\ UNCHANGED <<isMatch, response, matches>>
      BY <1>0, <1>1 DEF TypeOK, Receive
    <3> QED
      BY <1>0, <1>1, <2>1, <3>1, <3>2, FrameReceive DEF IInv, MatchesStored
  <2>5. \A p, q \in Requests : isMatch[p] /\ LikedBackBy(p, q) => LikedBackBy(p, q)'
    BY <1>0, <1>1, <2>1, FrameReceive DEF LikedBackBy, Opposite
  <2>6. IsMatchSound'
    BY <1>0, <1>1, <2>1, <2>5, FrameReceive DEF IInv, TypeOK, Receive, IsMatchSound
  <2>7. OneSeesTheOther'
    BY <1>0, <1>1, <2>1, FrameReceive DEF IInv, TypeOK, Receive, Received, OneSeesTheOther, Checked, Opposite
  <2>8. HistorySound'
    BY <1>0, <1>1 DEF IInv, TypeOK, Receive, HistorySound, Answered
  <2> QED
    BY <1>0, <2>2, <2>3, <2>4, <2>6, <2>7, <2>8 DEF IInv
<1>2. ASSUME NEW r \in Requests, Connect(r)
      PROVE  IInv'
  <2>0. UNCHANGED <<swipe, before>> /\ swipe_outcomes \subseteq swipe_outcomes'
    BY <1>2 DEF Connect
  <2>1. Received'
    BY <1>0, <1>2 DEF IInv, TypeOK, Connect, Received
  <2>2. SwipesStored'
    BY <1>0, <1>2, <2>0, Frame DEF IInv, TypeOK, Connect, Received, SwipesStored, SwipeRows
  <2>3. MatchesStored'
    BY <1>0, <1>2, <2>0, Frame DEF IInv, TypeOK, Connect, Received, IsMatchSound, MatchesStored, MatchRows
  <2>4. IsMatchSound'
    BY <1>0, <1>2, <2>0, Frame DEF IInv, TypeOK, Connect, IsMatchSound
  <2>5. OneSeesTheOther'
    BY <1>0, <1>2, <2>0, Frame DEF IInv, TypeOK, Connect, Received, OneSeesTheOther, Checked
  <2>6. HistorySound'
    BY <1>0, <1>2 DEF IInv, TypeOK, Connect, HistorySound
  <2> QED
    BY <1>0, <2>1, <2>2, <2>3, <2>4, <2>5, <2>6 DEF IInv
<1>3. ASSUME NEW r \in Requests, ConnectThrows(r)
      PROVE  IInv'
  <2>0. UNCHANGED <<swipe, before>> /\ swipe_outcomes \subseteq swipe_outcomes'
    BY <1>3 DEF ConnectThrows
  <2>1. Received'
    BY <1>0, <1>3 DEF IInv, TypeOK, ConnectThrows, Received
  <2>2. SwipesStored'
    BY <1>0, <1>3, <2>0, Frame DEF IInv, TypeOK, ConnectThrows, Received, SwipesStored, SwipeRows
  <2>3. MatchesStored'
    BY <1>0, <1>3, <2>0, Frame DEF IInv, TypeOK, ConnectThrows, Received, IsMatchSound, MatchesStored, MatchRows
  <2>4. IsMatchSound'
    BY <1>0, <1>3, <2>0, Frame DEF IInv, TypeOK, ConnectThrows, IsMatchSound
  <2>5. OneSeesTheOther'
    BY <1>0, <1>3, <2>0, Frame DEF IInv, TypeOK, ConnectThrows, Received, OneSeesTheOther, Checked
  <2>6. HistorySound'
    BY <1>0, <1>3 DEF IInv, TypeOK, ConnectThrows, HistorySound
  <2> QED
    BY <1>0, <2>1, <2>2, <2>3, <2>4, <2>5, <2>6 DEF IInv
<1>4. ASSUME NEW r \in Requests, InsertSwipe(r)
      PROVE  IInv'
  <2>0. UNCHANGED <<swipe, before>> /\ swipe_outcomes \subseteq swipe_outcomes'
    BY <1>4 DEF InsertSwipe
  <2>1. Received'
    BY <1>0, <1>4 DEF IInv, TypeOK, InsertSwipe, Received
  <2>2. SwipesStored'
    BY <1>0, <1>4, <2>0, Frame DEF IInv, TypeOK, InsertSwipe, Received, SwipesStored, SwipeRows, SwipeRow
  <2>3. MatchesStored'
    BY <1>0, <1>4, <2>0, Frame DEF IInv, TypeOK, InsertSwipe, Received, IsMatchSound, MatchesStored, MatchRows
  <2>4. IsMatchSound'
    BY <1>0, <1>4, <2>0, Frame DEF IInv, TypeOK, InsertSwipe, IsMatchSound
  <2>5. OneSeesTheOther'
    BY <1>0, <1>4, <2>0, Frame DEF IInv, TypeOK, InsertSwipe, Received, OneSeesTheOther, Checked
  <2>6. HistorySound'
    BY <1>0, <1>4 DEF IInv, TypeOK, InsertSwipe, HistorySound
  <2> QED
    BY <1>0, <2>1, <2>2, <2>3, <2>4, <2>5, <2>6 DEF IInv
<1>5. ASSUME NEW r \in Requests, InsertSwipeThrows(r)
      PROVE  IInv'
  <2>0. UNCHANGED <<swipe, before>> /\ swipe_outcomes \subseteq swipe_outcomes'
    BY <1>5 DEF InsertSwipeThrows
  <2>1. Received'
    BY <1>0, <1>5 DEF IInv, TypeOK, InsertSwipeThrows, Received
  <2>2. SwipesStored'
    BY <1>0, <1>5, <2>0, Frame DEF IInv, TypeOK, InsertSwipeThrows, Received, SwipesStored, SwipeRows, SwipeRow
  <2>3. MatchesStored'
    BY <1>0, <1>5, <2>0, Frame DEF IInv, TypeOK, InsertSwipeThrows, Received, IsMatchSound, MatchesStored, MatchRows
  <2>4. IsMatchSound'
    BY <1>0, <1>5, <2>0, Frame DEF IInv, TypeOK, InsertSwipeThrows, IsMatchSound
  <2>5. OneSeesTheOther'
    BY <1>0, <1>5, <2>0, Frame DEF IInv, TypeOK, InsertSwipeThrows, Received, OneSeesTheOther, Checked
  <2>6. HistorySound'
    BY <1>0, <1>5 DEF IInv, TypeOK, InsertSwipeThrows, HistorySound
  <2> QED
    BY <1>0, <2>1, <2>2, <2>3, <2>4, <2>5, <2>6 DEF IInv
<1>6. ASSUME NEW r \in Requests, QueryMatch(r)
      PROVE  IInv'
  <2>0. UNCHANGED <<swipe, before>> /\ swipe_outcomes \subseteq swipe_outcomes'
    BY <1>6 DEF QueryMatch
  <2>1. Received'
    BY <1>0, <1>6 DEF IInv, TypeOK, QueryMatch, Received
  <2>2. SwipesStored'
    BY <1>0, <1>6, <2>0, Frame DEF IInv, TypeOK, QueryMatch, Received, SwipesStored, SwipeRows
  <2>3. MatchesStored'
    BY <1>0, <1>6, <2>0, Frame DEF IInv, TypeOK, QueryMatch, Received, IsMatchSound, MatchesStored, MatchRows
  <2>4. IsMatchSound'
    <3>1. /\ Likes(r)
          /\ \A q \in Requests : r \notin before[q]
      BY <1>0, <1>6 DEF IInv, TypeOK, QueryMatch, IsMatchSound, HistorySound, SwipesStored, Likes
    <3>2. LikedBack(r) => \E q \in Requests : LikedBackBy(r, q)
      <4> SUFFICES ASSUME LikedBack(r)
                   PROVE  \E q \in Requests : LikedBackBy(r, q)
        OBVIOUS
      <4>1. PICK w \in swipe_outcomes :
              /\ w.outcome = 1
              /\ w.current_dog_id = swipe[r].ReviewedDogID
              /\ w.reviewed_dog_id = swipe[r].CurrDogID
        BY DEF LikedBack, MatchQuery
      <4>2. w.outcome_id \in Requests /\ w = SwipeRow(w.outcome_id)
        BY <1>0 DEF IInv, TypeOK, SwipesStored, SwipeRows
      <4>3. Likes(w.outcome_id) /\ Opposite(r, w.outcome_id)
        BY <4>1, <4>2 DEF Likes, Opposite, SwipeRow
      <4> QED
        BY <3>1, <4>2, <4>3 DEF LikedBackBy
    <3> QED
      BY <1>0, <1>6, <2>0, <3>1, <3>2, Frame DEF IInv, TypeOK, QueryMatch, IsMatchSound
  <2>5. OneSeesTheOther'
    <3>1. ASSUME NEW q \in Requests, Checked(q), Opposite(r, q)
          PROVE  LikedBack(r)
      <4>1. SwipeRow(q) \in swipe_outcomes
        BY <3>1 DEF IInv, SwipesStored, Checked
      <4> QED
        BY <3>1, <4>1 DEF LikedBack, MatchQuery, SwipeRow, Checked, Opposite
    <3>2. LikedBack(r) \/ ~Opposite(r, r)
      <4>1. SwipeRow(r) \in swipe_outcomes /\ swipe[r].Outcome = 1
        BY <1>6 DEF IInv, QueryMatch, SwipesStored, IsMatchSound
      <4> QED
        BY <4>1 DEF LikedBack, MatchQuery, SwipeRow, Opposite
    <3>3. \A q \in Requests : /\ q # r => Checked(q)' = Checked(q) /\ isMatch'[q] = isMatch[q]
                              /\ q = r => isMatch'[q] = LikedBack(r)
      BY <1>0, <1>6 DEF TypeOK, QueryMatch, Checked
    <3>4. \A p, q \in Requests : Opposite(p, q) <=> Opposite(q, p)
      BY DEF Opposite
    <3> QED
      BY <2>0, <3>1, <3>2, <3>3, <3>4, Frame DEF IInv, OneSeesTheOther
  <2>6. HistorySound'
    BY <1>0, <1>6 DEF IInv, TypeOK, QueryMatch, HistorySound
  <2> QED
    BY <1>0, <2>1, <2>2, <2>3, <2>4, <2>5, <2>6 DEF IInv
<1>7. ASSUME NEW r \in Requests, QueryMatchThrows(r)
      PROVE  IInv'
  <2>0. UNCHANGED <<swipe, before>> /\ swipe_outcomes \subseteq swipe_outcomes'
    BY <1>7 DEF QueryMatchThrows
  <2>1. Received'
    BY <1>0, <1>7 DEF IInv, TypeOK, QueryMatchThrows, Received
  <2>2. SwipesStored'
    BY <1>0, <1>7, <2>0, Frame DEF IInv, TypeOK, QueryMatchThrows, Received, SwipesStored, SwipeRows
  <2>3. MatchesStored'
    BY <1>0, <1>7, <2>0, Frame DEF IInv, TypeOK, QueryMatchThrows, Received, IsMatchSound, MatchesStored, MatchRows
  <2>4. IsMatchSound'
    BY <1>0, <1>7, <2>0, Frame DEF IInv, TypeOK, QueryMatchThrows, IsMatchSound
  <2>5. OneSeesTheOther'
    BY <1>0, <1>7, <2>0, Frame DEF IInv, TypeOK, QueryMatchThrows, Received, OneSeesTheOther, Checked
  <2>6. HistorySound'
    BY <1>0, <1>7 DEF IInv, TypeOK, QueryMatchThrows, HistorySound
  <2> QED
    BY <1>0, <2>1, <2>2, <2>3, <2>4, <2>5, <2>6 DEF IInv
<1>8. ASSUME NEW r \in Requests, InsertMatch(r)
      PROVE  IInv'
  <2>0. UNCHANGED <<swipe, before>> /\ swipe_outcomes \subseteq swipe_outcomes'
    BY <1>8 DEF InsertMatch
  <2>1. Received'
    BY <1>0, <1>8 DEF IInv, TypeOK, InsertMatch, Received
  <2>2. SwipesStored'
    BY <1>0, <1>8, <2>0, Frame DEF IInv, TypeOK, InsertMatch, Received, SwipesStored, SwipeRows
  <2>3. MatchesStored'
    BY <1>0, <1>8, <2>0, Frame DEF IInv, TypeOK, InsertMatch, Received, IsMatchSound, MatchesStored, MatchRows, MatchRow
  <2>4. IsMatchSound'
    BY <1>0, <1>8, <2>0, Frame DEF IInv, TypeOK, InsertMatch, IsMatchSound
  <2>5. OneSeesTheOther'
    BY <1>0, <1>8, <2>0, Frame DEF IInv, TypeOK, InsertMatch, Received, OneSeesTheOther, Checked
  <2>6. HistorySound'
    BY <1>0, <1>8 DEF IInv, TypeOK, InsertMatch, HistorySound
  <2> QED
    BY <1>0, <2>1, <2>2, <2>3, <2>4, <2>5, <2>6 DEF IInv
<1>9. ASSUME NEW r \in Requests, InsertMatchThrows(r)
      PROVE  IInv'
  <2>0. UNCHANGED <<swipe, before>> /\ swipe_outcomes \subseteq swipe_outcomes'
    BY <1>9 DEF InsertMatchThrows
  <2>1. Received'
    BY <1>0, <1>9 DEF IInv, TypeOK, InsertMatchThrows, Received
  <2>2. SwipesStored'
    BY <1>0, <1>9, <2>0, Frame DEF IInv, TypeOK, InsertMatchThrows, Received, SwipesStored, SwipeRows
  <2>3. MatchesStored'
    BY <1>0, <1>9, <2>0, Frame DEF IInv, TypeOK, InsertMatchThrows, Received, IsMatchSound, MatchesStored, MatchRows, MatchRow
  <2>4. IsMatchSound'
    BY <1>0, <1>9, <2>0, Frame DEF IInv, TypeOK, InsertMatchThrows, IsMatchSound
  <2>5. OneSeesTheOther'
    BY <1>0, <1>9, <2>0, Frame DEF IInv, TypeOK, InsertMatchThrows, Received, OneSeesTheOther, Checked
  <2>6. HistorySound'
    BY <1>0, <1>9 DEF IInv, TypeOK, InsertMatchThrows, HistorySound
  <2> QED
    BY <1>0, <2>1, <2>2, <2>3, <2>4, <2>5, <2>6 DEF IInv
<1>10. ASSUME NEW r \in Requests, Respond(r)
      PROVE  IInv'
  <2>0. UNCHANGED <<swipe, before>> /\ swipe_outcomes \subseteq swipe_outcomes'
    BY <1>10 DEF Respond
  <2>1. Received'
    BY <1>0, <1>10 DEF IInv, TypeOK, Respond, Received
  <2>2. SwipesStored'
    BY <1>0, <1>10, <2>0, Frame DEF IInv, TypeOK, Respond, Received, SwipesStored, SwipeRows
  <2>3. MatchesStored'
    BY <1>0, <1>10, <2>0, Frame DEF IInv, TypeOK, Respond, Received, IsMatchSound, MatchesStored, MatchRows
  <2>4. IsMatchSound'
    BY <1>0, <1>10, <2>0, Frame DEF IInv, TypeOK, Respond, IsMatchSound
  <2>5. OneSeesTheOther'
    BY <1>0, <1>10, <2>0, Frame DEF IInv, TypeOK, Respond, Received, OneSeesTheOther, Checked
  <2>6. HistorySound'
    BY <1>0, <1>10 DEF IInv, TypeOK, Respond, HistorySound
  <2> QED
    BY <1>0, <2>1, <2>2, <2>3, <2>4, <2>5, <2>6 DEF IInv
<1>11. CASE UNCHANGED vars
  <2>0. UNCHANGED <<swipe, before>> /\ swipe_outcomes \subseteq swipe_outcomes'
    BY <1>11 DEF vars
  <2> QED
    <3>1. Received' /\ SwipesStored' /\ MatchesStored'
      BY <1>0, <1>11, <2>0, Frame DEF vars, IInv, TypeOK, Received, SwipesStored,
         MatchesStored, SwipeRows, MatchRows
    <3>2. IsMatchSound'
      BY <1>11, <2>0, Frame DEF vars, IInv, IsMatchSound
    <3>3. OneSeesTheOther' /\ HistorySound'
      BY <1>11, <2>0, Frame DEF vars, IInv, OneSeesTheOther, HistorySound, Checked
    <3> QED
      BY <1>0, <3>1, <3>2, <3>3 DEF IInv
<1> QED
  BY <1>1, <1>2, <1>3, <1>4, <1>5, <1>6, <1>7, <1>8, <1>9, <1>10, <1>11
     DEF Next, Step, Finished

\* The empty tables, with no request received, satisfy it.
LEMMA InvInit == Init => IInv
BY MaxFaultsAssumption
   DEF Init, IInv, TypeOK, Received, SwipesStored, MatchesStored, IsMatchSound,
       OneSeesTheOther, HistorySound, Checked, Labels, Statuses, Inserted

\* The inductive invariant holds of every reachable state.
THEOREM Invariance == Spec => []IInv
BY InvInit, InvStep, PTL DEF Spec

-----------------------------------------------------------------------------
(***************************************************************************)
(* What follows from it.                                                   *)
(***************************************************************************)
\* The tables and the locals of SendSwipe always have their types.
THEOREM TypeCorrect == Spec => []TypeOK
<1>1. IInv => TypeOK
  BY DEF IInv
<1> QED
  BY Invariance, <1>1, PTL

\* SendSwipe never writes a match without two committed likes behind it.
THEOREM MatchesAreSound == Spec => []MatchSound
<1>1. IInv => MatchSound
  <2> SUFFICES ASSUME IInv, NEW m \in matches
               PROVE  \E p, q \in Requests :
                        /\ Likes(p) /\ Likes(q) /\ Opposite(p, q)
                        /\ swipe[p].CurrDogID = m.dog_id_1
                        /\ swipe[p].ReviewedDogID = m.dog_id_2
    BY DEF MatchSound
  <2>1. m.match_id \in Requests /\ m = MatchRow(m.match_id) /\ isMatch[m.match_id]
    BY DEF IInv, TypeOK, MatchesStored, MatchRows
  <2>2. PICK q \in Requests : LikedBackBy(m.match_id, q)
    BY <2>1 DEF IInv, IsMatchSound
  <2>3. Likes(m.match_id)
    BY <2>1 DEF IInv, IsMatchSound
  <2> QED
    BY <2>1, <2>2, <2>3 DEF LikedBackBy, MatchRow
<1> QED
  BY Invariance, <1>1, PTL

\* Two opposite likes that SendSwipe reported as sent are matched.
THEOREM MatchesAreComplete == Spec => []MatchComplete
<1>1. IInv => MatchComplete
  <2> SUFFICES ASSUME IInv, configured, NEW p \in Requests, NEW q \in Requests,
                      response[p] = "201", swipe[p].Outcome = 1,
                      response[q] = "201", swipe[q].Outcome = 1,
                      Opposite(p, q)
               PROVE  Matched(p)
    BY DEF MatchComplete
  <2>1. isMatch[p] \/ isMatch[q]
    BY DEF IInv, OneSeesTheOther, Checked
  <2>2. MatchRow(p) \in matches \/ MatchRow(q) \in matches
    BY <2>1 DEF IInv, MatchesStored
  <2>3. /\ Pair(MatchRow(p)) = {swipe[p].CurrDogID, swipe[p].ReviewedDogID}
        /\ Pair(MatchRow(q)) = {swipe[p].CurrDogID, swipe[p].ReviewedDogID}
    BY DEF Pair, MatchRow, Opposite
  <2> QED
    BY <2>2, <2>3 DEF Matched
<1> QED
  BY Invariance, <1>1, PTL

\* Duplicate rows in matches come from overlapping requests or from repeated
\* likes, and from nothing else.
THEOREM DuplicatesAreExplained == Spec => []DuplicatesExplained
<1>1. ASSUME IInv, NEW m \in matches, NEW n \in matches, m # n, Pair(m) = Pair(n),
             m.match_id \in before[n.match_id]
      PROVE  \E p, q \in Requests :
               /\ p # q
               /\ Likes(p) /\ Likes(q) /\ SameSwipe(p, q)
               /\ {swipe[p].CurrDogID, swipe[p].ReviewedDogID} = Pair(m)
  <2> DEFINE r1 == m.match_id
             r2 == n.match_id
  <2>1. /\ r1 \in Requests /\ m = MatchRow(r1) /\ isMatch[r1]
        /\ r2 \in Requests /\ n = MatchRow(r2) /\ isMatch[r2]
    BY <1>1 DEF IInv, TypeOK, MatchesStored, MatchRows
  <2>2. r1 # r2
    BY <1>1, <2>1
  <2>3. Likes(r1) /\ Likes(r2)
    BY <1>1, <2>1 DEF IInv, IsMatchSound
  <2>4. PICK q \in Requests : LikedBackBy(r1, q)
    BY <1>1, <2>1 DEF IInv, IsMatchSound
  <2>5. q # r2
    BY <1>1, <2>4 DEF LikedBackBy
  <2>6. /\ {swipe[r1].CurrDogID, swipe[r1].ReviewedDogID} = Pair(m)
        /\ {swipe[r2].CurrDogID, swipe[r2].ReviewedDogID} = Pair(m)
    BY <1>1, <2>1 DEF Pair, MatchRow
  <2>7. CASE SameSwipe(r1, r2)
    BY <2>1, <2>2, <2>3, <2>6, <2>7
  <2>8. CASE ~SameSwipe(r1, r2)
    <3>1. Opposite(r1, r2)
      BY <2>6, <2>8 DEF SameSwipe, Opposite
    <3>2. SameSwipe(q, r2)
      BY <2>4, <3>1 DEF LikedBackBy, SameSwipe, Opposite
    <3>3. {swipe[q].CurrDogID, swipe[q].ReviewedDogID} = Pair(m)
      BY <2>6, <3>2 DEF SameSwipe
    <3> QED
      BY <2>1, <2>3, <2>4, <2>5, <3>2, <3>3 DEF LikedBackBy
  <2> QED
    BY <2>7, <2>8
<1>2. IInv => DuplicatesExplained
  <2> SUFFICES ASSUME IInv, NEW m \in matches, NEW n \in matches, m # n,
                      Pair(m) = Pair(n), ~Overlapped(m.match_id, n.match_id)
               PROVE  \E p, q \in Requests :
                        /\ p # q
                        /\ Likes(p) /\ Likes(q) /\ SameSwipe(p, q)
                        /\ {swipe[p].CurrDogID, swipe[p].ReviewedDogID} = Pair(m)
    BY DEF DuplicatesExplained
  <2>1. CASE m.match_id \in before[n.match_id]
    BY <1>1, <2>1
  <2>2. CASE n.match_id \in before[m.match_id]
    BY <1>1, <2>2
  <2> QED
    BY <2>1, <2>2 DEF Overlapped
<1> QED
  BY Invariance, <1>2, PTL

-----------------------------------------------------------------------------
(***************************************************************************)
(* Refinement.                                                             *)
(***************************************************************************)
\* Seen through its tables, SendSwipe only takes steps of Matching: it
\* records a like, or matches two dogs that like each other.
THEOREM Implementation == Spec => ImplementsMatching
<1>1. Init => Abstract!Init
  BY DEF Init, Abstract!Init, likes, matched
<1>2. IInv /\ [Next]_vars => [Abstract!Next]_Abstract!avars
  <2> SUFFICES ASSUME IInv, [Next]_vars
               PROVE  [Abstract!Next]_Abstract!avars
    OBVIOUS
  <2> USE DEF tables
  <2>1. ASSUME UNCHANGED <<swipe_outcomes, matches>>
        PROVE  UNCHANGED Abstract!avars
    BY <2>1 DEF Abstract!avars, likes, matched
  <2>2. ASSUME NEW r \in Requests, swipe[r] \in Swipes,
               swipe_outcomes' = swipe_outcomes \cup {SwipeRow(r)},
               UNCHANGED matches
        PROVE  [Abstract!Next]_Abstract!avars
    <3>1. CASE swipe[r].Outcome = 1
      <4>1. likes' = likes \cup {<<swipe[r].CurrDogID, swipe[r].ReviewedDogID>>}
        <5> DEFINE e == <<swipe[r].CurrDogID, swipe[r].ReviewedDogID>>
        <5>1. /\ SwipeRow(r).outcome = 1
              /\ <<SwipeRow(r).current_dog_id, SwipeRow(r).reviewed_dog_id>> = e
          BY <3>1 DEF SwipeRow
        <5>2. \A w \in swipe_outcomes' : w \in swipe_outcomes \/ w = SwipeRow(r)
          BY <2>2
        <5>3. SwipeRow(r) \in swipe_outcomes' /\ swipe_outcomes \subseteq swipe_outcomes'
          BY <2>2
        <5>4. likes' \subseteq likes \cup {e}
          BY <5>1, <5>2 DEF likes
        <5>5. e \in likes' /\ likes \subseteq likes'
          BY <5>1, <5>3 DEF likes
        <5> QED
          BY <5>4, <5>5
      <4>2. swipe[r].CurrDogID \in Dogs /\ swipe[r].ReviewedDogID \in Dogs
        BY <2>2 DEF Swipes
      <4>3. UNCHANGED matched
        BY <2>2 DEF matched
      <4> QED
        BY <4>1, <4>2, <4>3 DEF Abstract!Next, Abstract!Like
    <3>2. CASE swipe[r].Outcome # 1
      <4>1. UNCHANGED likes
        BY <2>2, <3>2 DEF likes, SwipeRow
      <4>2. UNCHANGED matched
        BY <2>2 DEF matched
      <4> QED
        BY <4>1, <4>2 DEF Abstract!avars
    <3> QED
      BY <3>1, <3>2
  <2>3. ASSUME NEW r \in Requests, pc[r] = "insertMatch",
               matches' = matches \cup {MatchRow(r)},
               UNCHANGED swipe_outcomes
        PROVE  [Abstract!Next]_Abstract!avars
    <3> DEFINE a == swipe[r].CurrDogID
               b == swipe[r].ReviewedDogID
    <3>1. a \in Dogs /\ b \in Dogs
      BY <2>3 DEF IInv, Received, Swipes
    <3>2. PICK q \in Requests : LikedBackBy(r, q)
      BY <2>3 DEF IInv, IsMatchSound
    <3>3. Likes(r)
      BY <2>3 DEF IInv, IsMatchSound
    <3>4. <<a, b>> \in likes
      BY <3>3 DEF Likes, likes, SwipeRow
    <3>5. <<b, a>> \in likes
      BY <3>2 DEF LikedBackBy, Opposite, Likes, likes, SwipeRow
    <3>6. matched' = matched \cup {{a, b}}
      <4>1. Pair(MatchRow(r)) = {a, b}
        BY DEF Pair, MatchRow
      <4>2. \A m : m \in matches' <=> m \in matches \/ m = MatchRow(r)
        BY <2>3
      <4>3. matched' \subseteq matched \cup {{a, b}}
        BY <4>1, <4>2 DEF matched, Pair
      <4>4. {a, b} \in matched' /\ matched \subseteq matched'
        BY <4>1, <4>2 DEF matched, Pair
      <4> QED
        BY <4>3, <4>4
    <3>7. UNCHANGED likes
      BY <2>3 DEF likes
    <3> QED
      BY <3>1, <3>4, <3>5, <3>6, <3>7 DEF Abstract!Next, Abstract!Match, Abstract!Mutual
  <2>4. ASSUME NEW r \in Requests, Step(r)
        PROVE  [Abstract!Next]_Abstract!avars
    <3>1. pc[r] # "new" => swipe[r] \in Swipes
      BY DEF IInv, Received
    <3>2. CASE InsertSwipe(r) \/ InsertSwipeThrows(r)
      BY <2>1, <2>2, <3>1, <3>2 DEF InsertSwipe, InsertSwipeThrows
    <3>3. CASE InsertMatch(r) \/ InsertMatchThrows(r)
      BY <2>1, <2>3, <3>3 DEF InsertMatch, InsertMatchThrows
    <3>4. CASE Connect(r) \/ ConnectThrows(r) \/ QueryMatch(r) \/ QueryMatchThrows(r) \/ Respond(r)
      BY <2>1, <3>4 DEF Connect, ConnectThrows, QueryMatch, QueryMatchThrows, Respond
    <3> QED
      BY <2>4, <3>2, <3>3, <3>4 DEF Step
  <2>5. ASSUME NEW r \in Requests, NEW s \in Swipes, Receive(r, s)
        PROVE  [Abstract!Next]_Abstract!avars
    BY <2>1, <2>5 DEF Receive
  <2>6. CASE UNCHANGED vars
    BY <2>1, <2>6 DEF vars
  <2> QED
    BY <2>4, <2>5, <2>6 DEF Next, Finished
<1> QED
  BY <1>1, <1>2, Invariance, PTL DEF Spec, ImplementsMatching, Abstract!Safety
=============================================================================
