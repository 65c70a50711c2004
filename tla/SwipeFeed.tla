----------------------------- MODULE SwipeFeed ------------------------------
(***************************************************************************)
(* GET /SwipeList/{email}: SwipeListController.GetListSwipes, running      *)
(* beside the POST /Swipe requests of SwipeMatch.                          *)
(*                                                                         *)
(* The endpoint builds the list of dogs an owner has still to swipe on     *)
(* from four selects and one call of the matching service per dog, while   *)
(* swipes, matches and dogs are being inserted:                            *)
(*                                                                         *)
(*   findDog       the (first) dog of the owner                            *)
(*   readSwipes    the dogs it has swiped on                               *)
(*   readMatches   the dogs it is matched with                             *)
(*   readDogs      all other dogs                                          *)
(*   score         keep those not swiped on that score high enough         *)
(***************************************************************************)
EXTENDS SwipeMatch

CONSTANTS
  Feeds,       \* the GET requests, each received at most once
  Owners,      \* the owners' email addresses
  OwnerOf,     \* the owner of each dog
  Registered   \* the dogs registered when the model starts

ASSUME OwnersAssumption ==
  /\ OwnerOf \in [Dogs -> Owners]
  /\ Registered \subseteq Dogs

VARIABLES
  dogs,        \* the table of dogs: the ones registered so far
  fpc,         \* the next statement of each GET
  email,       \* the owner asking
  currDogID,   \* GetListSwipes's local variables
  swipedIds,
  candidates,  \* the rows of the last select
  reply,       \* what the request was answered with
  atStart,     \* history: the tables when the request arrived, as far as
               \* it is concerned with them
  good         \* history: the dogs the matching service scored high enough

fvars == <<fpc, email, currDogID, swipedIds, candidates, reply, atStart, good>>
allvars == <<vars, dogs, fvars>>

\* The value of currDogID when the owner has no dog.
NoDog == -1

FeedLabels == {"new", "findDog", "readSwipes", "readMatches", "readDogs", "score", "done"}
Kinds == {"none", "dogs", "ids", "500"}

DogsOf(e) == {d \in dogs : OwnerOf[d] = e}

\* The dogs d has swiped on; the select joins both dogs.
SwipedBy(d) ==
  {w.reviewed_dog_id : w \in {v \in swipe_outcomes :
                                /\ v.current_dog_id = d
                                /\ {v.current_dog_id, v.reviewed_dog_id} \subseteq dogs}}

\* The dogs d is matched with, in either column.
MatchedWith(d) ==
  LET joined == {m \in matches : Pair(m) \subseteq dogs}
  IN  {m.dog_id_2 : m \in {v \in joined : v.dog_id_1 = d}}
        \cup {m.dog_id_1 : m \in {v \in joined : v.dog_id_2 = d}}

FeedTypeOK ==
  /\ dogs \subseteq Dogs
  /\ fpc \in [Feeds -> FeedLabels]
  /\ email \in [Feeds -> Owners \cup {"none"}]
  /\ currDogID \in [Feeds -> Dogs \cup {NoDog}]
  /\ swipedIds \in [Feeds -> SUBSET Dogs]
  /\ candidates \in [Feeds -> SUBSET Dogs]
  /\ reply \in [Feeds -> [kind : Kinds, dogs : SUBSET Dogs]]
  /\ atStart \in [Feeds -> [swiped : [Dogs -> SUBSET Dogs],
                         matched : [Dogs -> SUBSET Dogs],
                         dogs : SUBSET Dogs]]
  /\ good \in [Feeds -> SUBSET Dogs]

FeedInit ==
  /\ Init
  /\ dogs = Registered
  /\ fpc = [f \in Feeds |-> "new"]
  /\ email = [f \in Feeds |-> "none"]
  /\ currDogID = [f \in Feeds |-> NoDog]
  /\ swipedIds = [f \in Feeds |-> {}]
  /\ candidates = [f \in Feeds |-> {}]
  /\ reply = [f \in Feeds |-> [kind |-> "none", dogs |-> {}]]
  /\ atStart = [f \in Feeds |-> [swiped |-> [d \in Dogs |-> {}],
                                 matched |-> [d \in Dogs |-> {}],
                                 dogs |-> {}]]
  /\ good = [f \in Feeds |-> {}]

FeedGoto(f, l) == fpc' = [fpc EXCEPT ![f] = l] /\ UNCHANGED reply

Reply(f, k, ds) ==
  /\ fpc' = [fpc EXCEPT ![f] = "done"]
  /\ reply' = [reply EXCEPT ![f] = [kind |-> k, dogs |-> ds]]

\* A dog is registered: the insert of Dog.CreateDog.
Register(d) ==
  /\ d \notin dogs
  /\ dogs' = dogs \cup {d}
  /\ UNCHANGED <<vars, fvars>>

Ask(f, e) ==
  /\ fpc[f] = "new"
  /\ FeedGoto(f, "findDog")
  /\ email' = [email EXCEPT ![f] = e]
  /\ atStart' = [atStart EXCEPT ![f] =
                   [swiped |-> [d \in Dogs |-> SwipedBy(d)],
                    matched |-> [d \in Dogs |-> MatchedWith(d)],
                    dogs |-> dogs]]
  /\ UNCHANGED <<vars, dogs, currDogID, swipedIds, candidates, good>>

\* No database is configured: the list is empty.
NoDatabase(f) ==
  /\ fpc[f] = "findDog"
  /\ ~configured
  /\ Reply(f, "dogs", {})
  /\ UNCHANGED <<vars, dogs, email, currDogID, swipedIds, candidates, atStart, good>>

FindDog(f) ==
  /\ fpc[f] = "findDog"
  /\ configured
  /\ \E d \in IF DogsOf(email[f]) = {} THEN {NoDog} ELSE DogsOf(email[f]) :
       currDogID' = [currDogID EXCEPT ![f] = d]
  /\ FeedGoto(f, "readSwipes")
  /\ UNCHANGED <<vars, dogs, email, swipedIds, candidates, atStart, good>>

\* Mutant: the swipes on the dog count as its own.
ReadSwipesBothWays(f) ==
  /\ fpc[f] = "readSwipes"
  /\ swipedIds' = [swipedIds EXCEPT ![f] =
       SwipedBy(currDogID[f]) \cup {d \in dogs : currDogID[f] \in SwipedBy(d)}]
  /\ FeedGoto(f, "readMatches")
  /\ UNCHANGED <<vars, dogs, email, currDogID, candidates, atStart, good>>

\* "only want the ones i have swiped on"
ReadSwipes(f) ==
  /\ fpc[f] = "readSwipes"
  /\ swipedIds' = [swipedIds EXCEPT ![f] = SwipedBy(currDogID[f])]
  /\ FeedGoto(f, "readMatches")
  /\ UNCHANGED <<vars, dogs, email, currDogID, candidates, atStart, good>>

\* Mutant: the ids of the matches replace those of the swipes.
ReadMatchesOnly(f) ==
  /\ fpc[f] = "readMatches"
  /\ swipedIds' = [swipedIds EXCEPT ![f] = MatchedWith(currDogID[f])]
  /\ FeedGoto(f, "readDogs")
  /\ UNCHANGED <<vars, dogs, email, currDogID, candidates, atStart, good>>

ReadMatches(f) ==
  /\ fpc[f] = "readMatches"
  /\ swipedIds' = [swipedIds EXCEPT ![f] = @ \cup MatchedWith(currDogID[f])]
  /\ FeedGoto(f, "readDogs")
  /\ UNCHANGED <<vars, dogs, email, currDogID, candidates, atStart, good>>

\* A field of one of the first three selects cannot be decoded: the handler
\* returns the list of ids it has so far.
DecodeThrows(f) ==
  /\ \E ids \in SUBSET Dogs :
       /\ \/ fpc[f] = "findDog" /\ configured /\ DogsOf(email[f]) # {} /\ ids = {}
          \/ fpc[f] = "readSwipes" /\ ids \subseteq SwipedBy(currDogID[f])
          \/ /\ fpc[f] = "readMatches"
             /\ swipedIds[f] \subseteq ids
             /\ ids \subseteq swipedIds[f] \cup MatchedWith(currDogID[f])
       /\ Reply(f, "ids", ids)
  /\ UNCHANGED <<vars, dogs, email, currDogID, swipedIds, candidates, atStart, good>>

\* Mutant: the owner's own dog is not left out.
ReadDogsAll(f) ==
  /\ fpc[f] = "readDogs"
  /\ candidates' = [candidates EXCEPT ![f] = dogs]
  /\ FeedGoto(f, "score")
  /\ UNCHANGED <<vars, dogs, email, currDogID, swipedIds, atStart, good>>

ReadDogs(f) ==
  /\ fpc[f] = "readDogs"
  /\ candidates' = [candidates EXCEPT ![f] = dogs \ {currDogID[f]}]
  /\ FeedGoto(f, "score")
  /\ UNCHANGED <<vars, dogs, email, currDogID, swipedIds, atStart, good>>

\* The dogs not swiped on are scored by the matching service (external).
Score(f) ==
  /\ fpc[f] = "score"
  /\ \E g \in SUBSET Dogs :
       /\ good' = [good EXCEPT ![f] = g]
       /\ Reply(f, "dogs", (candidates[f] \ swipedIds[f]) \cap g)
  /\ UNCHANGED <<vars, dogs, email, currDogID, swipedIds, candidates, atStart>>

\* IsConnect, a statement or the matching service throws; nothing catches it.
FeedThrows(f) ==
  /\ configured
  /\ fpc[f] \notin {"new", "done"}
  /\ Reply(f, "500", {})
  /\ UNCHANGED <<vars, dogs, email, currDogID, swipedIds, candidates, atStart, good>>

FeedStep(f) ==
  \/ NoDatabase(f) \/ FindDog(f) \/ ReadSwipes(f) \/ ReadMatches(f) \/ DecodeThrows(f)
  \/ ReadDogs(f) \/ Score(f) \/ FeedThrows(f)

\* Every request of the instance has been answered, every dog registered.
FeedFinished ==
  /\ Finished
  /\ dogs = Dogs /\ \A f \in Feeds : fpc[f] = "done"
  /\ UNCHANGED allvars

FeedNext ==
  \/ (\E r \in Requests, s \in Swipes : Receive(r, s)) /\ UNCHANGED <<dogs, fvars>>
  \/ (\E r \in Requests : Step(r)) /\ UNCHANGED <<dogs, fvars>>
  \/ \E d \in Dogs : Register(d)
  \/ \E f \in Feeds, e \in Owners : Ask(f, e)
  \/ \E f \in Feeds : FeedStep(f)
  \/ FeedFinished

FeedSpec == FeedInit /\ [][FeedNext]_allvars

-----------------------------------------------------------------------------
Listed(f) == reply[f].kind = "dogs"

\* The dogs the asking dog had swiped on or was matched with at the start.
Seen(f) == atStart[f].swiped[currDogID[f]] \cup atStart[f].matched[currDogID[f]]

\* The list never offers a dog that the asking dog had swiped on, or was
\* matched with, when the request arrived: whatever is inserted while the four
\* selects run, none of them misses what was there before.
ListLeavesOutSwiped ==
  \A f \in Feeds :
    Listed(f) /\ currDogID[f] # NoDog =>
      reply[f].dogs \cap Seen(f) = {}

\* The list offers every other dog that was registered when the request
\* arrived and scores high enough, unless it has been swiped on or matched
\* since; in particular the dogs that have liked the asking dog, without which
\* no mutual like could come about.
ListOffersTheRest ==
  \A f \in Feeds :
    Listed(f) /\ configured =>
      (atStart[f].dogs \cap good[f])
        \ ({currDogID[f]} \cup SwipedBy(currDogID[f]) \cup MatchedWith(currDogID[f]))
      \subseteq reply[f].dogs

\* An owner of a single dog that was registered when the request arrived is
\* not offered it.
OwnDogNotOffered ==
  \A f \in Feeds :
    Listed(f) =>
      \A d \in atStart[f].dogs :
        {c \in Dogs : OwnerOf[c] = email[f]} = {d} => d \notin reply[f].dogs

\* What the comment in GetListSwipes says of its result: "return info for dogs
\* that still need to be swiped on", applied to every list the method returns.
OnlyDogsStillToSwipe ==
  \A f \in Feeds :
    currDogID[f] # NoDog =>
      reply[f].dogs \cap Seen(f) = {}
=============================================================================
