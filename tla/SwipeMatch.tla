----------------------------- MODULE SwipeMatch -----------------------------
(***************************************************************************)
(* POST /Swipe: SwipeController.Create and Swipe.SendSwipe.                *)
(*                                                                         *)
(* The API server runs each request on a thread of its own.  SendSwipe     *)
(* issues up to three statements, each committed by MySQL as it executes   *)
(* (no transaction is opened), so the statements of concurrent requests    *)
(* interleave:                                                             *)
(*                                                                         *)
(*   insertSwipe   insert the swipe into swipe_outcomes                    *)
(*   queryMatch    only for a like: has the other dog liked this one?      *)
(*   insertMatch   if so, insert a row into matches                        *)
(*                                                                         *)
(* Every statement may throw instead.  An insert that throws may still     *)
(* have been committed: the exception can come from reading or closing the *)
(* result after MySQL executed it, and the connection is shared with the   *)
(* other requests (see DBConnection).  A throwing statement is caught and  *)
(* the request answered 400; an exception of IsConnect is not caught and   *)
(* is answered 500.                                                        *)
(***************************************************************************)
EXTENDS Integers, FiniteSets

CONSTANTS
  Dogs,       \* dog ids a client may send
  Outcomes,   \* swipe outcomes a client may send; 1 is a like
  Requests,   \* the POST requests, each received at most once
  MaxFaults   \* bound on the exceptions thrown by the database

ASSUME OutcomesAssumption == Outcomes \subseteq Int /\ 1 \in Outcomes
ASSUME MaxFaultsAssumption == MaxFaults \in Nat

VARIABLES
  configured,      \* is PUPPY_LOVE_DB_NAME set in the server's environment
  swipe_outcomes,  \* the table of swipes
  matches,         \* the table of matches
  pc,              \* the next statement of each request
  swipe,           \* the body of each request
  isMatch,         \* SendSwipe's local variable, per request
  response,        \* the status each request was answered with
  faults,          \* exceptions thrown so far
  before           \* history: the requests answered before this one arrived

tables == <<swipe_outcomes, matches>>
vars == <<configured, swipe_outcomes, matches, pc, swipe, isMatch, response,
          faults, before>>

Labels == {"new", "connect", "insertSwipe", "queryMatch", "insertMatch",
           "respond", "done"}
Statuses == {"none", "201", "400", "500"}

Swipes == [CurrDogID : Dogs, ReviewedDogID : Dogs, Outcome : Outcomes]

\* What the parameterless constructor of Swipe leaves in the fields.
NoSwipe == [CurrDogID |-> -1, ReviewedDogID |-> -1, Outcome |-> -1]

(***************************************************************************)
(* Rows.  The key column is filled by MySQL; since a request inserts at    *)
(* most one row into each table, the request stands for the key.           *)
(***************************************************************************)
SwipeRows == [outcome_id : Requests, current_dog_id : Dogs,
              reviewed_dog_id : Dogs, outcome : Outcomes]
MatchRows == [match_id : Requests, dog_id_1 : Dogs, dog_id_2 : Dogs]

SwipeRow(r) == [outcome_id |-> r,
                current_dog_id |-> swipe[r].CurrDogID,
                reviewed_dog_id |-> swipe[r].ReviewedDogID,
                outcome |-> swipe[r].Outcome]

MatchRow(r) == [match_id |-> r,
                dog_id_1 |-> swipe[r].CurrDogID,
                dog_id_2 |-> swipe[r].ReviewedDogID]

Answered == {r \in Requests : pc[r] = "done"}

TypeOK ==
  /\ configured \in BOOLEAN
  /\ swipe_outcomes \subseteq SwipeRows
  /\ matches \subseteq MatchRows
  /\ pc \in [Requests -> Labels]
  /\ swipe \in [Requests -> Swipes \cup {NoSwipe}]
  /\ isMatch \in [Requests -> BOOLEAN]
  /\ response \in [Requests -> Statuses]
  /\ faults \in 0..MaxFaults
  /\ before \in [Requests -> SUBSET Requests]

Init ==
  /\ configured \in BOOLEAN
  /\ swipe_outcomes = {}
  /\ matches = {}
  /\ pc = [r \in Requests |-> "new"]
  /\ swipe = [r \in Requests |-> NoSwipe]
  /\ isMatch = [r \in Requests |-> FALSE]
  /\ response = [r \in Requests |-> "none"]
  /\ faults = 0
  /\ before = [r \in Requests |-> {}]

Goto(r, l) == pc' = [pc EXCEPT ![r] = l]

Answer(r, status) ==
  /\ Goto(r, "done")
  /\ response' = [response EXCEPT ![r] = status]

\* An exception of the driver or of the database.
Throw == faults < MaxFaults /\ faults' = faults + 1

\* The framework binds the JSON body to a Swipe and calls the controller.
Receive(r, s) ==
  /\ pc[r] = "new"
  /\ Goto(r, "connect")
  /\ swipe' = [swipe EXCEPT ![r] = s]
  /\ before' = [before EXCEPT ![r] = Answered]
  /\ UNCHANGED <<configured, tables, isMatch, response, faults>>

\* IsConnect returns false only when no database is configured; SendSwipe
\* then reports success without having done anything.
Connect(r) ==
  /\ pc[r] = "connect"
  /\ IF configured
     THEN Goto(r, "insertSwipe") /\ UNCHANGED response
     ELSE Answer(r, "201")
  /\ UNCHANGED <<configured, tables, swipe, isMatch, faults, before>>

\* Connection.Open throws; nothing on the way to the controller catches it.
ConnectThrows(r) ==
  /\ pc[r] = "connect"
  /\ configured
  /\ Throw
  /\ Answer(r, "500")
  /\ UNCHANGED <<configured, tables, swipe, isMatch, before>>

\* The insert yields no row, so the Read() after it leaves CurrDogID alone.
InsertSwipe(r) ==
  /\ pc[r] = "insertSwipe"
  /\ swipe_outcomes' = swipe_outcomes \cup {SwipeRow(r)}
  /\ Goto(r, IF swipe[r].Outcome = 1 THEN "queryMatch" ELSE "respond")
  /\ UNCHANGED <<configured, matches, swipe, isMatch, response, faults, before>>

InsertSwipeThrows(r) ==
  /\ pc[r] = "insertSwipe"
  /\ Throw
  /\ \/ UNCHANGED swipe_outcomes
     \/ swipe_outcomes' = swipe_outcomes \cup {SwipeRow(r)}
  /\ Answer(r, "400")
  /\ UNCHANGED <<configured, matches, swipe, isMatch, before>>

\* Mutant: the select looks for the swipes of this dog, not of the other.
MatchQuerySameSide(r) ==
  {w.outcome : w \in {v \in swipe_outcomes :
                        /\ v.current_dog_id = swipe[r].CurrDogID
                        /\ v.reviewed_dog_id = swipe[r].ReviewedDogID}}

\* Mutant: the request runs in a transaction, and the select does not see the
\* swipes of the requests still in progress.
MatchQueryIsolated(r) ==
  {w.outcome : w \in {v \in swipe_outcomes :
                        /\ v.outcome_id = r \/ v.outcome_id \in Answered
                        /\ v.current_dog_id = swipe[r].ReviewedDogID
                        /\ v.reviewed_dog_id = swipe[r].CurrDogID}}

\* The outcomes the other dog has recorded for this one.
MatchQuery(r) ==
  {w.outcome : w \in {v \in swipe_outcomes :
                        /\ v.current_dog_id = swipe[r].ReviewedDogID
                        /\ v.reviewed_dog_id = swipe[r].CurrDogID}}

\* Mutant: any swipe of the other dog counts as a like.
LikedBackAny(r) == MatchQuery(r) # {}

LikedBack(r) == 1 \in MatchQuery(r)

QueryMatch(r) ==
  /\ pc[r] = "queryMatch"
  /\ isMatch' = [isMatch EXCEPT ![r] = LikedBack(r)]
  /\ Goto(r, IF LikedBack(r) THEN "insertMatch" ELSE "respond")
  /\ UNCHANGED <<configured, tables, swipe, response, faults, before>>

QueryMatchThrows(r) ==
  /\ pc[r] = "queryMatch"
  /\ Throw
  /\ Answer(r, "400")
  /\ UNCHANGED <<configured, tables, swipe, isMatch, before>>

InsertMatch(r) ==
  /\ pc[r] = "insertMatch"
  /\ matches' = matches \cup {MatchRow(r)}
  /\ Goto(r, "respond")
  /\ UNCHANGED <<configured, swipe_outcomes, swipe, isMatch, response, faults,
                 before>>

InsertMatchThrows(r) ==
  /\ pc[r] = "insertMatch"
  /\ Throw
  /\ \/ UNCHANGED matches
     \/ matches' = matches \cup {MatchRow(r)}
  /\ Answer(r, "400")
  /\ UNCHANGED <<configured, swipe_outcomes, swipe, isMatch, before>>

Respond(r) ==
  /\ pc[r] = "respond"
  /\ Answer(r, "201")
  /\ UNCHANGED <<configured, tables, swipe, isMatch, faults, before>>

\* What the thread of request r does.
Step(r) ==
  \/ Connect(r)
  \/ ConnectThrows(r)
  \/ InsertSwipe(r)
  \/ InsertSwipeThrows(r)
  \/ QueryMatch(r)
  \/ QueryMatchThrows(r)
  \/ InsertMatch(r)
  \/ InsertMatchThrows(r)
  \/ Respond(r)

\* Every request of the instance has been answered.
Finished == Answered = Requests /\ UNCHANGED vars

Next ==
  \/ \E r \in Requests, s \in Swipes : Receive(r, s)
  \/ \E r \in Requests : Step(r)
  \/ Finished

Spec == Init /\ [][Next]_vars

\* The thread pool runs every request it has started, and every statement
\* returns or throws.  Nothing makes a client send a request.
FairSpec == Spec /\ \A r \in Requests : WF_vars(Step(r))

-----------------------------------------------------------------------------
Likes(r) == SwipeRow(r) \in swipe_outcomes /\ swipe[r].Outcome = 1

SameSwipe(p, q) ==
  /\ swipe[p].CurrDogID = swipe[q].CurrDogID
  /\ swipe[p].ReviewedDogID = swipe[q].ReviewedDogID

Opposite(p, q) ==
  /\ swipe[p].CurrDogID = swipe[q].ReviewedDogID
  /\ swipe[p].ReviewedDogID = swipe[q].CurrDogID

Pair(m) == {m.dog_id_1, m.dog_id_2}

Matched(r) ==
  \E m \in matches : Pair(m) = {swipe[r].CurrDogID, swipe[r].ReviewedDogID}

Overlapped(p, q) == p \notin before[q] /\ q \notin before[p]

\* A row of matches is only ever written for two dogs whose likes of each
\* other are both committed in swipe_outcomes, whatever throws and however
\* the statements of the requests interleave.
MatchSound ==
  \A m \in matches : \E p, q \in Requests :
    /\ Likes(p) /\ Likes(q) /\ Opposite(p, q)
    /\ swipe[p].CurrDogID = m.dog_id_1
    /\ swipe[p].ReviewedDogID = m.dog_id_2

\* No lost match: because each request inserts its swipe BEFORE it looks for
\* the opposite one, two opposite likes that were both answered 201 have left
\* a row in matches, even when their requests ran at the same time.
MatchComplete ==
  configured =>
    \A p, q \in Requests :
      /\ response[p] = "201" /\ swipe[p].Outcome = 1
      /\ response[q] = "201" /\ swipe[q].Outcome = 1
      /\ Opposite(p, q)
      => Matched(p)

\* SendSwipe never looks whether the match is already there.  Two rows for
\* the same pair can only come from two requests that were in progress at the
\* same time, or from a dog that liked the same dog twice.
DuplicatesExplained ==
  \A m, n \in matches :
    /\ m # n
    /\ Pair(m) = Pair(n)
    => \/ Overlapped(m.match_id, n.match_id)
       \/ \E p, q \in Requests :
            /\ p # q
            /\ Likes(p) /\ Likes(q) /\ SameSwipe(p, q)
            /\ {swipe[p].CurrDogID, swipe[p].ReviewedDogID} = Pair(m)

-----------------------------------------------------------------------------
(***************************************************************************)
(* The abstract specification, seen through the two tables.                *)
(***************************************************************************)
likes == {<<w.current_dog_id, w.reviewed_dog_id>> :
            w \in {v \in swipe_outcomes : v.outcome = 1}}
matched == {Pair(m) : m \in matches}

Abstract == INSTANCE Matching WITH Dogs <- Dogs, likes <- likes, matched <- matched

\* The statements of SendSwipe only ever record likes, and only ever match
\* dogs that like each other.
ImplementsMatching == Abstract!Safety

\* As long as there are no exceptions, a mutual like does become a match.
MutualLikesMatch == [](faults = 0) => Abstract!Live

\* What the comment in SendSwipe says of the step that writes the match:
\* "This is going to automatically update the users matches based off of the
\* swipe outcomes".  Once no request is in progress, every request that has
\* read the like of another dog has left the two of them matched.
MatchesFollowOutcomes ==
  (\A r \in Requests : pc[r] \in {"new", "done"}) =>
    \A r \in Requests :
      isMatch[r] /\ swipe[r].CurrDogID # swipe[r].ReviewedDogID => Matched(r)
=============================================================================
