-------------------------- MODULE SwipeFeedProofs ---------------------------
(***************************************************************************)
(* Proofs about SwipeFeed, for every set of dogs, owners and requests.     *)
(***************************************************************************)
EXTENDS SwipeFeed, SwipeMatchProofs

\* What the selects of a list have seen, by its program counter.  The tables
\* only grow, so what was there when the request arrived is still there, and
\* what a select returned is still true.
Kept(f) == \A d \in Dogs :
  /\ atStart[f].swiped[d] \subseteq SwipedBy(d)
  /\ atStart[f].matched[d] \subseteq MatchedWith(d)

KeptDogs(f) == atStart[f].dogs \subseteq dogs

SwipesRead(f) ==
  fpc[f] \in {"readMatches", "readDogs", "score"} =>
    /\ currDogID[f] \in Dogs => atStart[f].swiped[currDogID[f]] \subseteq swipedIds[f]
    /\ swipedIds[f] \subseteq SwipedBy(currDogID[f]) \cup MatchedWith(currDogID[f])

MatchesRead(f) ==
  fpc[f] \in {"readDogs", "score"} /\ currDogID[f] \in Dogs =>
    atStart[f].matched[currDogID[f]] \subseteq swipedIds[f]

DogsRead(f) ==
  fpc[f] = "score" =>
    /\ atStart[f].dogs \ {currDogID[f]} \subseteq candidates[f]
    /\ currDogID[f] \notin candidates[f]

DogFound(f) ==
  fpc[f] \in {"readSwipes", "readMatches", "readDogs", "score"} =>
    \A d \in atStart[f].dogs :
      {c \in Dogs : OwnerOf[c] = email[f]} = {d} => currDogID[f] = d

Fresh(f) == fpc[f] # "done" => reply[f].kind = "none"

\* The three properties of the list, of one request.
LeavesOut(f) ==
  Listed(f) /\ currDogID[f] # NoDog => reply[f].dogs \cap Seen(f) = {}
Offers(f) ==
  Listed(f) /\ configured =>
    (atStart[f].dogs \cap good[f])
      \ ({currDogID[f]} \cup SwipedBy(currDogID[f]) \cup MatchedWith(currDogID[f]))
    \subseteq reply[f].dogs
NotOwn(f) ==
  Listed(f) =>
    \A d \in atStart[f].dogs :
      {c \in Dogs : OwnerOf[c] = email[f]} = {d} => d \notin reply[f].dogs

ListInv(f) ==
  /\ Kept(f) /\ KeptDogs(f)
  /\ SwipesRead(f) /\ MatchesRead(f) /\ DogsRead(f) /\ DogFound(f)
  /\ Fresh(f)
  /\ LeavesOut(f) /\ Offers(f) /\ NotOwn(f)

FInv == FeedTypeOK /\ \A f \in Feeds : ListInv(f)

-----------------------------------------------------------------------------
\* A list being built changes nothing that POST /Swipe works with: beside it,
\* the swipe requests behave as they do alone.
LEMMA FeedStepIsSwipeStep == [FeedNext]_allvars => [Next]_vars
BY DEF FeedNext, allvars, Next, Register, Ask, FeedStep, NoDatabase, FindDog,
       ReadSwipes, ReadMatches, DecodeThrows, ReadDogs, Score, FeedThrows, FeedFinished,
       Finished

\* Every behaviour of the composition is one of SwipeMatch, whose theorems
\* therefore hold of it.
THEOREM FeedImplementsSwipes == FeedSpec => Spec
<1>1. FeedInit => Init
  BY DEF FeedInit
<1> QED
  BY <1>1, FeedStepIsSwipeStep, PTL DEF FeedSpec, Spec

\* No step removes a row.
LEMMA TablesGrow ==
  ASSUME [FeedNext]_allvars
  PROVE  /\ swipe_outcomes \subseteq swipe_outcomes'
         /\ matches \subseteq matches'
         /\ dogs \subseteq dogs'
         /\ configured' = configured
<1>1. /\ swipe_outcomes \subseteq swipe_outcomes'
      /\ matches \subseteq matches'
      /\ configured' = configured
  <2>1. [Next]_vars
    BY FeedStepIsSwipeStep
  <2> QED
    BY <2>1 DEF Next, vars, tables, Receive, Step, Connect, ConnectThrows, InsertSwipe,
       InsertSwipeThrows, QueryMatch, QueryMatchThrows, InsertMatch, InsertMatchThrows,
       Respond, Finished
<1>2. dogs \subseteq dogs'
  BY DEF FeedNext, allvars, Register, Ask, FeedStep, NoDatabase, FindDog,
     ReadSwipes, ReadMatches, DecodeThrows, ReadDogs, Score, FeedThrows, FeedFinished
<1> QED
  BY <1>1, <1>2

\* What the selects return only grows.
LEMMA SelectsGrow ==
  ASSUME [FeedNext]_allvars, NEW d
  PROVE  SwipedBy(d) \subseteq SwipedBy(d)' /\ MatchedWith(d) \subseteq MatchedWith(d)'
<1>1. SwipedBy(d) \subseteq SwipedBy(d)'
  BY TablesGrow DEF SwipedBy
<1>2. MatchedWith(d) \subseteq MatchedWith(d)'
  BY TablesGrow DEF MatchedWith, Pair
<1> QED
  BY <1>1, <1>2

LEMMA SelectTypes ==
  ASSUME TypeOK, NEW d
  PROVE  SwipedBy(d) \subseteq Dogs /\ MatchedWith(d) \subseteq Dogs
BY DEF TypeOK, SwipedBy, MatchedWith, SwipeRows, MatchRows

\* Every step preserves the types of the lists.
LEMMA FeedTypeStep == TypeOK /\ FeedTypeOK /\ [FeedNext]_allvars => FeedTypeOK'
<1> SUFFICES ASSUME TypeOK, FeedTypeOK, [FeedNext]_allvars
             PROVE  FeedTypeOK'
  OBVIOUS
<1> USE OwnersAssumption DEF FeedTypeOK, FeedLabels, Kinds, FeedGoto, Reply
<1>1. CASE UNCHANGED <<dogs, fvars>>
  BY <1>1 DEF fvars
<1>2. ASSUME NEW d \in Dogs, Register(d)
      PROVE  FeedTypeOK'
  BY <1>2 DEF Register, fvars
<1>3. ASSUME NEW f \in Feeds, NEW e \in Owners, Ask(f, e)
      PROVE  FeedTypeOK'
  <2>1. [swiped |-> [d \in Dogs |-> SwipedBy(d)],
         matched |-> [d \in Dogs |-> MatchedWith(d)],
         dogs |-> dogs] \in [swiped : [Dogs -> SUBSET Dogs],
                              matched : [Dogs -> SUBSET Dogs],
                              dogs : SUBSET Dogs]
    BY SelectTypes
  <2> QED
    BY <1>3, <2>1 DEF Ask
<1>4. ASSUME NEW f \in Feeds, NoDatabase(f)
      PROVE  FeedTypeOK'
  BY <1>4 DEF NoDatabase
<1>5. ASSUME NEW f \in Feeds, FindDog(f)
      PROVE  FeedTypeOK'
  BY <1>5 DEF FindDog, DogsOf, NoDog
<1>6. ASSUME NEW f \in Feeds, ReadSwipes(f)
      PROVE  FeedTypeOK'
  BY <1>6, SelectTypes DEF ReadSwipes
<1>7. ASSUME NEW f \in Feeds, ReadMatches(f)
      PROVE  FeedTypeOK'
  BY <1>7, SelectTypes DEF ReadMatches
<1>8. ASSUME NEW f \in Feeds, DecodeThrows(f)
      PROVE  FeedTypeOK'
  BY <1>8 DEF DecodeThrows
<1>9. ASSUME NEW f \in Feeds, ReadDogs(f)
      PROVE  FeedTypeOK'
  BY <1>9 DEF ReadDogs
<1>10. ASSUME NEW f \in Feeds, Score(f)
      PROVE  FeedTypeOK'
  BY <1>10 DEF Score
<1>11. ASSUME NEW f \in Feeds, FeedThrows(f)
      PROVE  FeedTypeOK'
  BY <1>11 DEF FeedThrows
<1> QED
  BY <1>1, <1>2, <1>3, <1>4, <1>5, <1>6, <1>7, <1>8, <1>9, <1>10, <1>11
     DEF FeedNext, FeedStep, FeedFinished, allvars

\* A request whose own variables do not change keeps what it has established.
LEMMA Unmoved ==
  ASSUME FeedTypeOK, [FeedNext]_allvars, NEW f \in Feeds, ListInv(f),
         fpc'[f] = fpc[f], email'[f] = email[f], currDogID'[f] = currDogID[f],
         swipedIds'[f] = swipedIds[f], candidates'[f] = candidates[f],
         reply'[f] = reply[f], atStart'[f] = atStart[f], good'[f] = good[f]
  PROVE  ListInv(f)'
<1>1. Kept(f)'
  BY SelectsGrow DEF ListInv, Kept
<1>2. KeptDogs(f)' /\ MatchesRead(f)' /\ DogsRead(f)' /\ DogFound(f)' /\ Fresh(f)'
  BY TablesGrow DEF ListInv, KeptDogs, MatchesRead, DogsRead, DogFound, Fresh
<1>3. SwipesRead(f)'
  <2>1. /\ SwipedBy(currDogID[f]) \subseteq SwipedBy(currDogID[f])'
        /\ MatchedWith(currDogID[f]) \subseteq MatchedWith(currDogID[f])'
    BY SelectsGrow
  <2> QED
    BY <2>1 DEF ListInv, SwipesRead
<1>4. LeavesOut(f)' /\ NotOwn(f)'
  BY DEF ListInv, LeavesOut, NotOwn, Listed, Seen
<1>5. Offers(f)'
  <2>1. /\ SwipedBy(currDogID[f]) \subseteq SwipedBy(currDogID[f])'
        /\ MatchedWith(currDogID[f]) \subseteq MatchedWith(currDogID[f])'
    BY SelectsGrow
  <2> QED
    BY <2>1, TablesGrow DEF ListInv, Offers, Listed
<1> QED
  BY <1>1, <1>2, <1>3, <1>4, <1>5 DEF ListInv

\* A step of the list request f leaves the variables of the others alone.
LEMMA OthersUnmoved ==
  ASSUME FeedTypeOK, NEW f \in Feeds, NEW g \in Feeds, g # f,
         FeedStep(f) \/ \E e \in Owners : Ask(f, e)
  PROVE  /\ fpc'[g] = fpc[g] /\ email'[g] = email[g] /\ currDogID'[g] = currDogID[g]
         /\ swipedIds'[g] = swipedIds[g] /\ candidates'[g] = candidates[g]
         /\ reply'[g] = reply[g] /\ atStart'[g] = atStart[g] /\ good'[g] = good[g]
BY DEF FeedTypeOK, FeedStep, Ask, NoDatabase, FindDog, ReadSwipes, ReadMatches, DecodeThrows,
       ReadDogs, Score, FeedThrows, FeedGoto, Reply

\* Every step preserves the invariant of the lists.
LEMMA FeedInvStep == TypeOK /\ FInv /\ [FeedNext]_allvars => FInv'
<1> SUFFICES ASSUME TypeOK, FInv, [FeedNext]_allvars
             PROVE  FInv'
  OBVIOUS
<1>0. FeedTypeOK /\ FeedTypeOK'
  BY FeedTypeStep DEF FInv
<1>1. CASE UNCHANGED fvars
  BY <1>0, <1>1, Unmoved DEF FInv, fvars
<1>2. ASSUME NEW f \in Feeds, FeedStep(f) \/ \E e \in Owners : Ask(f, e), ListInv(f)'
      PROVE  FInv'
  BY <1>0, <1>2, OthersUnmoved, Unmoved DEF FInv
<1> USE DEF FeedGoto, Reply
<1>3. ASSUME NEW f \in Feeds, NEW e \in Owners, Ask(f, e)
      PROVE  ListInv(f)'
  <2>1. /\ fpc'[f] = "findDog" /\ reply'[f] = reply[f] /\ reply[f].kind = "none"
        /\ UNCHANGED <<dogs, swipe_outcomes, matches>>
    BY <1>0, <1>3 DEF Ask, FeedTypeOK, FInv, ListInv, Fresh, vars
  <2>2. atStart'[f] = [swiped |-> [d \in Dogs |-> SwipedBy(d)],
                       matched |-> [d \in Dogs |-> MatchedWith(d)],
                       dogs |-> dogs]
    BY <1>0, <1>3 DEF Ask, FeedTypeOK
  <2>3. Kept(f)' /\ KeptDogs(f)'
    BY <2>1, <2>2, SelectsGrow DEF Kept, KeptDogs
  <2> QED
    BY <2>1, <2>3 DEF ListInv, SwipesRead, MatchesRead, DogsRead, DogFound, Fresh,
       LeavesOut, Offers, NotOwn, Listed
<1> DEFINE Same(f) == /\ UNCHANGED <<dogs, swipe_outcomes, matches, configured>>
                      /\ atStart'[f] = atStart[f] /\ email'[f] = email[f]
<1>4. ASSUME NEW f \in Feeds, Same(f)
      PROVE  Kept(f)' /\ KeptDogs(f)'
  BY <1>4, SelectsGrow DEF FInv, ListInv, Kept, KeptDogs
<1>5. ASSUME NEW f \in Feeds, NoDatabase(f)
      PROVE  ListInv(f)'
  <2>1. /\ Same(f) /\ fpc'[f] = "done" /\ reply'[f].kind = "dogs" /\ reply'[f].dogs = {} /\ ~configured
    BY <1>0, <1>5 DEF NoDatabase, FeedTypeOK, vars
  <2> QED
    BY <1>4, <2>1 DEF ListInv, SwipesRead, MatchesRead, DogsRead, DogFound, Fresh,
       LeavesOut, Offers, NotOwn, Listed
<1>6. ASSUME NEW f \in Feeds, FindDog(f)
      PROVE  ListInv(f)'
  <2>1. /\ Same(f) /\ fpc[f] = "findDog" /\ fpc'[f] = "readSwipes" /\ reply'[f] = reply[f]
        /\ currDogID'[f] \in IF DogsOf(email[f]) = {} THEN {NoDog} ELSE DogsOf(email[f])
    BY <1>0, <1>6 DEF FindDog, FeedTypeOK, vars
  <2>2. reply[f].kind = "none"
    BY <2>1 DEF FInv, ListInv, Fresh
  <2>3. DogFound(f)'
    <3> SUFFICES ASSUME NEW d \in atStart[f].dogs, {c \in Dogs : OwnerOf[c] = email[f]} = {d}
                 PROVE  currDogID'[f] = d
      BY <2>1 DEF DogFound
    <3>1. DogsOf(email[f]) = {d}
      BY <1>0 DEF DogsOf, FInv, ListInv, KeptDogs, FeedTypeOK
    <3> QED
      BY <2>1, <3>1
  <2> QED
    BY <1>4, <2>1, <2>2, <2>3 DEF ListInv, SwipesRead, MatchesRead, DogsRead, Fresh,
       LeavesOut, Offers, NotOwn, Listed
<1>7. ASSUME NEW f \in Feeds, ReadSwipes(f)
      PROVE  ListInv(f)'
  <2>1. /\ Same(f) /\ fpc[f] = "readSwipes" /\ fpc'[f] = "readMatches" /\ reply'[f] = reply[f]
        /\ currDogID'[f] = currDogID[f] /\ swipedIds'[f] = SwipedBy(currDogID[f])
    BY <1>0, <1>7 DEF ReadSwipes, FeedTypeOK, vars
  <2>2. reply[f].kind = "none" /\ DogFound(f)'
    BY <2>1 DEF FInv, ListInv, Fresh, DogFound
  <2>3. SwipesRead(f)'
    <3>1. SwipedBy(currDogID[f]) \subseteq SwipedBy(currDogID[f])'
      BY <2>1, SelectsGrow
    <3> QED
      BY <2>1, <3>1 DEF FInv, ListInv, Kept, SwipesRead
  <2> QED
    BY <1>4, <2>1, <2>2, <2>3 DEF ListInv, MatchesRead, DogsRead, Fresh,
       LeavesOut, Offers, NotOwn, Listed
<1>8. ASSUME NEW f \in Feeds, ReadMatches(f)
      PROVE  ListInv(f)'
  <2>1. /\ Same(f) /\ fpc[f] = "readMatches" /\ fpc'[f] = "readDogs" /\ reply'[f] = reply[f]
        /\ currDogID'[f] = currDogID[f]
        /\ swipedIds'[f] = swipedIds[f] \cup MatchedWith(currDogID[f])
    BY <1>0, <1>8 DEF ReadMatches, FeedTypeOK, vars
  <2>2. reply[f].kind = "none" /\ DogFound(f)'
    BY <2>1 DEF FInv, ListInv, Fresh, DogFound
  <2>3. SwipesRead(f)'
    <3>1. /\ SwipedBy(currDogID[f]) \subseteq SwipedBy(currDogID[f])'
          /\ MatchedWith(currDogID[f]) \subseteq MatchedWith(currDogID[f])'
      BY <2>1, SelectsGrow
    <3> QED
      BY <2>1, <3>1 DEF FInv, ListInv, SwipesRead
  <2>4. MatchesRead(f)'
    BY <2>1 DEF FInv, ListInv, Kept, MatchesRead
  <2> QED
    BY <1>4, <2>1, <2>2, <2>3, <2>4 DEF ListInv, DogsRead, Fresh, LeavesOut, Offers, NotOwn, Listed
<1>9. ASSUME NEW f \in Feeds, DecodeThrows(f) \/ FeedThrows(f)
      PROVE  ListInv(f)'
  <2>1. Same(f) /\ fpc'[f] = "done" /\ reply'[f].kind \in {"ids", "500"}
    BY <1>0, <1>9 DEF DecodeThrows, FeedThrows, FeedTypeOK, vars
  <2> QED
    BY <1>4, <2>1 DEF ListInv, SwipesRead, MatchesRead, DogsRead, DogFound, Fresh,
       LeavesOut, Offers, NotOwn, Listed
<1>10. ASSUME NEW f \in Feeds, ReadDogs(f)
       PROVE  ListInv(f)'
  <2>1. /\ Same(f) /\ fpc[f] = "readDogs" /\ fpc'[f] = "score" /\ reply'[f] = reply[f]
        /\ currDogID'[f] = currDogID[f] /\ swipedIds'[f] = swipedIds[f]
        /\ candidates'[f] = dogs \ {currDogID[f]}
    BY <1>0, <1>10 DEF ReadDogs, FeedTypeOK, vars
  <2>2. reply[f].kind = "none" /\ DogFound(f)' /\ MatchesRead(f)'
    BY <2>1 DEF FInv, ListInv, Fresh, DogFound, MatchesRead
  <2>3. SwipesRead(f)'
    <3>1. /\ SwipedBy(currDogID[f]) \subseteq SwipedBy(currDogID[f])'
          /\ MatchedWith(currDogID[f]) \subseteq MatchedWith(currDogID[f])'
      BY <2>1, SelectsGrow
    <3> QED
      BY <2>1, <3>1 DEF FInv, ListInv, SwipesRead
  <2>4. DogsRead(f)'
    BY <2>1 DEF FInv, ListInv, KeptDogs, DogsRead
  <2> QED
    BY <1>4, <2>1, <2>2, <2>3, <2>4 DEF ListInv, Fresh, LeavesOut, Offers, NotOwn, Listed
<1>11. ASSUME NEW f \in Feeds, Score(f)
       PROVE  ListInv(f)'
  <2>1. /\ Same(f) /\ fpc[f] = "score" /\ fpc'[f] = "done" /\ currDogID'[f] = currDogID[f]
        /\ reply'[f].dogs = (candidates[f] \ swipedIds[f]) \cap good'[f]
    BY <1>0, <1>11 DEF Score, FeedTypeOK, vars
  <2>2. LeavesOut(f)'
    BY <1>0, <2>1 DEF FInv, FeedTypeOK, ListInv, SwipesRead, MatchesRead, LeavesOut, Seen, NoDog
  <2>3. Offers(f)'
    <3>1. /\ SwipedBy(currDogID[f]) \subseteq SwipedBy(currDogID[f])'
          /\ MatchedWith(currDogID[f]) \subseteq MatchedWith(currDogID[f])'
      BY <2>1, SelectsGrow
    <3> QED
      BY <2>1, <3>1 DEF FInv, ListInv, SwipesRead, DogsRead, Offers
  <2>4. NotOwn(f)'
    BY <2>1 DEF FInv, ListInv, DogsRead, DogFound, NotOwn
  <2> QED
    BY <1>4, <2>1, <2>2, <2>3, <2>4 DEF ListInv, SwipesRead, MatchesRead, DogsRead, DogFound, Fresh
<1>12. ASSUME NEW d \in Dogs, Register(d)
       PROVE  FInv'
  BY <1>1, <1>12 DEF Register
<1> QED
  BY <1>1, <1>2, <1>3, <1>5, <1>6, <1>7, <1>8, <1>9, <1>10, <1>11, <1>12
     DEF FeedNext, FeedStep, FeedFinished, allvars

\* The first state satisfies it.
LEMMA FeedInvInit == FeedInit => FInv
<1> SUFFICES ASSUME FeedInit
             PROVE  FInv
  OBVIOUS
<1>1. FeedTypeOK
  BY OwnersAssumption DEF FeedInit, FeedTypeOK, FeedLabels, Kinds, NoDog
<1>2. ASSUME NEW f \in Feeds
      PROVE  ListInv(f)
  BY DEF FeedInit, ListInv, Kept, KeptDogs, SwipesRead, MatchesRead, DogsRead, DogFound, Fresh,
     LeavesOut, Offers, NotOwn, Listed
<1> QED
  BY <1>1, <1>2 DEF FInv

\* The invariant of the lists holds of every reachable state.
THEOREM FeedInvariance == FeedSpec => []FInv
<1>1. IInv => TypeOK
  BY DEF IInv
<1> QED
  BY <1>1, FeedImplementsSwipes, Invariance, FeedInvInit, FeedInvStep, PTL DEF FeedSpec

-----------------------------------------------------------------------------
\* The lists and the locals of GetListSwipes always have their types.
THEOREM FeedTypeCorrect == FeedSpec => []FeedTypeOK
<1>1. FInv => FeedTypeOK
  BY DEF FInv
<1> QED
  BY FeedInvariance, <1>1, PTL

\* No list offers a dog already swiped on or matched when it was asked for.
THEOREM ListsLeaveOutSwiped == FeedSpec => []ListLeavesOutSwiped
<1>1. FInv => ListLeavesOutSwiped
  BY DEF FInv, ListInv, LeavesOut, ListLeavesOutSwiped
<1> QED
  BY FeedInvariance, <1>1, PTL

\* Every list offers all the dogs it should.
THEOREM ListsOfferTheRest == FeedSpec => []ListOffersTheRest
<1>1. FInv => ListOffersTheRest
  BY DEF FInv, ListInv, Offers, ListOffersTheRest
<1> QED
  BY FeedInvariance, <1>1, PTL

\* No list offers the owner of one registered dog that dog.
THEOREM OwnDogsNotOffered == FeedSpec => []OwnDogNotOffered
<1>1. FInv => OwnDogNotOffered
  BY DEF FInv, ListInv, NotOwn, OwnDogNotOffered
<1> QED
  BY FeedInvariance, <1>1, PTL
=============================================================================
