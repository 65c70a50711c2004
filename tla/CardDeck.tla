------------------------------ MODULE CardDeck ------------------------------
(***************************************************************************)
(* The deck of cards of the app: Card.data, an array in UserDefaults that  *)
(* outlives the app, and the loaders that fill it.                         *)
(*                                                                         *)
(* Every time LoginView appears it starts a loader on a thread of its own. *)
(* The loader waits for an email, fetches all dogs, and starts for each of *)
(* them a request for its owner and then one for its score, whose handler  *)
(* appends a card.  To append is to get the array, and to set it: between  *)
(* the two the main thread may remove it, in the callback of the restore   *)
(* that AppDelegate started at launch.  An account may have been changed   *)
(* and the app may have been killed while the answers were on their way.   *)
(*                                                                         *)
(* External: URLSession.shared runs one completion handler at a time, in   *)
(* any order; UserDefaults reads and writes one value atomically.          *)
(***************************************************************************)
EXTENDS Naturals, Sequences, FiniteSets

CONSTANTS
  Emails,       \* the Google accounts used on this phone
  Dogs,         \* the dogs GET /Dog answers with
  OwnerOf,      \* the email GET /Owner/{id} answers with, for each dog
  Good,         \* the dogs the matching service scores 0 or more
  MaxLoaders,   \* bound on the appearances of LoginView
  MaxFaults     \* bound on failed requests and on terminations of the app

ASSUME DogsAssumption == Good \subseteq Dogs /\ DOMAIN OwnerOf = Dogs
ASSUME BoundsAssumption == MaxLoaders \in Nat \ {0} /\ MaxFaults \in Nat

\* No account, or the empty email.
None == "none"
ASSUME NoneAssumption == None \notin Emails

Loaders == 1..MaxLoaders
Tasks == Loaders \X Dogs

VARIABLES
  cards,          \* UserDefaults: the dogs of Card.data, in order
  keychain,       \* external: the account Google restores at launch
  restoring,      \* the restores of this launch still to be answered
  isLoggedIn, emailAddress,   \* the fields of UserAuthModel
  login,          \* is LoginView on the screen
  loader,         \* the loader of each appearance of LoginView
  task,           \* the requests of each loader, one per dog
  array,          \* what the append in progress has got from Card.data
  accounts,       \* history: the accounts ever signed in
  added, erased,  \* history: the cards set and removed since launch
  torn,           \* history: were they removed during an append
  faults          \* faults so far

session == <<keychain, restoring, isLoggedIn, emailAddress, login, accounts>>
deck == <<cards, array, added, erased, torn>>
vars == <<session, deck, loader, task, faults>>

InDeck == {cards[i] : i \in DOMAIN cards}

TypeOK ==
  /\ cards \in Seq(Dogs) /\ array \in Seq(Dogs)
  /\ keychain \in Emails \cup {None} /\ emailAddress \in Emails \cup {None}
  /\ restoring \subseteq {"delegate", "model"}
  /\ isLoggedIn \in BOOLEAN /\ login \in BOOLEAN
  /\ isLoggedIn => emailAddress \in Emails
  /\ loader \in [Loaders -> {"none", "waiting", "asked", "loaded", "gone"}]
  /\ task \in [Tasks -> {"none", "owner", "score", "get", "set", "ended", "failed"}]
  /\ accounts \subseteq Emails
  /\ added \subseteq Dogs /\ erased \subseteq Dogs
  /\ torn \in BOOLEAN
  /\ faults \in 0..MaxFaults

\* The app is launched for the first time.
Init ==
  /\ cards = <<>> /\ array = <<>>
  /\ keychain = None /\ restoring = {"delegate", "model"}
  /\ isLoggedIn = FALSE /\ emailAddress = None /\ login = TRUE
  /\ loader = [k \in Loaders |-> IF k = 1 THEN "waiting" ELSE "none"]
  /\ task = [t \in Tasks |-> "none"]
  /\ accounts = {} /\ added = {} /\ erased = {} /\ torn = FALSE
  /\ faults = 0

Fault == faults < MaxFaults /\ faults' = faults + 1

-----------------------------------------------------------------------------
(***************************************************************************)
(* LoginView.onAppear.                                                     *)
(***************************************************************************)
Unused == {k \in Loaders : loader[k] = "none"}

\* A loader is started; the ones before it go on.
OnAppear ==
  \E k \in Unused :
    /\ \A j \in Unused : k <= j
    /\ loader' = [loader EXCEPT ![k] = "waiting"]

\* The email is not empty any more, and GET /Dog is sent.
EmailSeen(k) ==
  /\ loader[k] = "waiting" /\ emailAddress # None
  /\ loader' = [loader EXCEPT ![k] = "asked"]
  /\ UNCHANGED <<session, deck, task, faults>>

\* getDogComments has the dogs: GET /Owner/{id} is sent for each.
DogsAnswered(k) ==
  /\ loader[k] = "asked"
  /\ loader' = [loader EXCEPT ![k] = "loaded"]
  /\ task' = [t \in Tasks |-> IF t[1] = k THEN "owner" ELSE task[t]]
  /\ UNCHANGED <<session, deck, faults>>

\* A completion handler that has begun to append and has not finished.
Appending == {t \in Tasks : task[t] \in {"get", "set"}}

\* The dogs of the account that is signed in by now are left out.
OwnerAnswered(t) ==
  /\ task[t] = "owner" /\ Appending = {}
  /\ task' = [task EXCEPT ![t] = IF OwnerOf[t[2]] # emailAddress THEN "score" ELSE "ended"]
  /\ UNCHANGED <<session, deck, loader, faults>>

\* Mutant: the deck is not searched.
ScoreAnsweredNoTest(t) ==
  /\ task[t] = "score" /\ Appending = {}
  /\ task' = [task EXCEPT ![t] = IF t[2] \in Good THEN "get" ELSE "ended"]
  /\ UNCHANGED <<session, deck, loader, faults>>

\* Mutant: the handlers run on a queue that is not serial.
ScoreAnsweredConcurrent(t) ==
  /\ task[t] = "score"
  /\ task' = [task EXCEPT ![t] = IF t[2] \notin InDeck /\ t[2] \in Good THEN "get" ELSE "ended"]
  /\ UNCHANGED <<session, deck, loader, faults>>

\* Mutant: the comparison with the score is the wrong way round.
ScoreAnsweredReversed(t) ==
  /\ task[t] = "score" /\ Appending = {}
  /\ task' = [task EXCEPT ![t] = IF t[2] \notin InDeck /\ t[2] \notin Good THEN "get" ELSE "ended"]
  /\ UNCHANGED <<session, deck, loader, faults>>

\* Is there a card already, and is the score high enough.
ScoreAnswered(t) ==
  /\ task[t] = "score" /\ Appending = {}
  /\ task' = [task EXCEPT ![t] = IF t[2] \notin InDeck /\ t[2] \in Good THEN "get" ELSE "ended"]
  /\ UNCHANGED <<session, deck, loader, faults>>

\* An answer that is missing or cannot be decoded, or an email with which there
\* is no URL to ask for the score: there will be no card.
RequestFailed(t) ==
  /\ task[t] \in {"owner", "score"} /\ Appending = {}
  /\ Fault
  /\ task' = [task EXCEPT ![t] = "failed"]
  /\ UNCHANGED <<session, deck, loader>>

\* Card.data.append(newCard): the getter, then the setter.
AppendGets(t) ==
  /\ task[t] = "get"
  /\ task' = [task EXCEPT ![t] = "set"]
  /\ array' = cards
  /\ UNCHANGED <<session, cards, added, erased, torn, loader, faults>>

AppendSets(t) ==
  /\ task[t] = "set"
  /\ task' = [task EXCEPT ![t] = "ended"]
  /\ cards' = Append(array, t[2])
  /\ array' = <<>>
  /\ added' = added \cup {t[2]}
  /\ UNCHANGED <<session, erased, torn, loader, faults>>

-----------------------------------------------------------------------------
(***************************************************************************)
(* The session, as far as the loaders see it.                              *)
(***************************************************************************)
\* checkStatus with a user.  The LoginView that follows the sign-up forms
\* stays until the account is found.
SetUser(user) ==
  /\ isLoggedIn' = TRUE
  /\ emailAddress' = user
  /\ keychain' = user
  /\ login' = (login /\ isLoggedIn)
  /\ accounts' = accounts \cup {user}

\* Mutant: the status is not checked for a user.
RestoredAnyway ==
  /\ "model" \in restoring
  /\ restoring' = restoring \ {"model"}
  /\ \/ isLoggedIn /\ SetUser(emailAddress)
     \/ ~isLoggedIn /\ isLoggedIn' = TRUE /\ UNCHANGED <<keychain, emailAddress, login, accounts>>
  /\ UNCHANGED <<deck, loader, task, faults>>

\* The restore started by UserAuthModel.check: a user already signed in, the
\* previous one, or none.
Restored ==
  /\ "model" \in restoring
  /\ restoring' = restoring \ {"model"}
  /\ \/ isLoggedIn /\ SetUser(emailAddress)
     \/ ~isLoggedIn /\ keychain # None /\ SetUser(keychain)
     \/ ~isLoggedIn /\ UNCHANGED <<keychain, isLoggedIn, emailAddress, login, accounts>>
  /\ UNCHANGED <<deck, loader, task, faults>>

\* Mutant: the cards are removed only where the user is signed in.
DelegateRestoredSignedIn ==
  /\ "delegate" \in restoring
  /\ restoring' = restoring \ {"delegate"}
  /\ cards' = IF isLoggedIn THEN <<>> ELSE cards
  /\ erased' = IF isLoggedIn THEN erased \cup InDeck ELSE erased
  /\ torn' = (torn \/ \E t \in Tasks : task[t] = "set")
  /\ UNCHANGED <<keychain, isLoggedIn, emailAddress, login, accounts, array, added,
                 loader, task, faults>>

\* The restore started by AppDelegate: the cards are removed, whatever it
\* answers and whenever it does.
DelegateRestored ==
  /\ "delegate" \in restoring
  /\ restoring' = restoring \ {"delegate"}
  /\ cards' = <<>>
  /\ erased' = erased \cup InDeck
  /\ torn' = (torn \/ \E t \in Tasks : task[t] = "set")
  /\ UNCHANGED <<keychain, isLoggedIn, emailAddress, login, accounts, array, added,
                 loader, task, faults>>

SignedIn(user) ==
  /\ login
  /\ SetUser(user)
  /\ UNCHANGED <<restoring, deck, loader, task, faults>>

\* checkAccount has found the account: the tabs replace LoginView.
AccountFound ==
  /\ isLoggedIn /\ login
  /\ login' = FALSE
  /\ UNCHANGED <<keychain, restoring, isLoggedIn, emailAddress, accounts, deck,
                 loader, task, faults>>

\* Mutant: the email is cleared.
signOutClears ==
  /\ isLoggedIn /\ ~login
  /\ isLoggedIn' = FALSE /\ emailAddress' = None
  /\ keychain' = None
  /\ login' = TRUE
  /\ OnAppear
  /\ UNCHANGED <<restoring, accounts, deck, task, faults>>

\* Signing out shows LoginView and keeps the email.
signOut ==
  /\ isLoggedIn /\ ~login
  /\ isLoggedIn' = FALSE
  /\ keychain' = None
  /\ login' = TRUE
  /\ OnAppear
  /\ UNCHANGED <<restoring, emailAddress, accounts, deck, task, faults>>

\* Save, in AddDogView, shows LoginView to a user who is signed in.
Save ==
  /\ isLoggedIn /\ ~login
  /\ login' = TRUE
  /\ OnAppear
  /\ UNCHANGED <<keychain, restoring, isLoggedIn, emailAddress, accounts, deck, task, faults>>

\* The app is gone and is launched again: of all this, the cards and what
\* Google keeps are still there.
Relaunch ==
  /\ \E k \in Unused :
       /\ \A j \in Unused : k <= j
       /\ loader' = [j \in Loaders |-> IF j < k THEN "gone"
                                       ELSE IF j = k THEN "waiting" ELSE "none"]
  /\ task' = [t \in Tasks |-> "none"]
  /\ array' = <<>> /\ added' = {} /\ erased' = {} /\ torn' = FALSE
  /\ restoring' = {"delegate", "model"}
  /\ isLoggedIn' = FALSE /\ emailAddress' = None /\ login' = TRUE
  /\ UNCHANGED <<cards, keychain, accounts>>

\* The user or the system ends the app.
Killed == Fault /\ Relaunch

\* GET /Dog has no answer, or one that is not a list of dogs: try! ends the app,
\* on the queue of the other handlers.
DogsFailed(k) == loader[k] = "asked" /\ Appending = {} /\ Fault /\ Relaunch

-----------------------------------------------------------------------------
TaskStep(t) == OwnerAnswered(t) \/ ScoreAnswered(t) \/ AppendGets(t) \/ AppendSets(t)
LoaderStep(k) == EmailSeen(k) \/ DogsAnswered(k)

\* Nothing is under way.
Idle ==
  /\ restoring = {} /\ ~login
  /\ \A k \in Loaders : loader[k] \notin {"waiting", "asked"}
  /\ \A t \in Tasks : task[t] \in {"none", "ended", "failed"}
  /\ UNCHANGED vars

Next ==
  \/ \E k \in Loaders : LoaderStep(k) \/ DogsFailed(k)
  \/ \E t \in Tasks : TaskStep(t) \/ RequestFailed(t)
  \/ Restored \/ DelegateRestored
  \/ \E user \in Emails : SignedIn(user)
  \/ AccountFound \/ signOut \/ Save
  \/ Killed
  \/ Idle

Spec == Init /\ [][Next]_vars

\* The loaders' threads are scheduled, and every request is answered or fails.
FairSpec ==
  /\ Spec
  /\ \A k \in Loaders : WF_vars(LoaderStep(k))
  /\ \A t \in Tasks : WF_vars(TaskStep(t))

-----------------------------------------------------------------------------
\* However many loaders run, whatever is removed between a test and an append
\* and however often the app is killed, no dog gets a second card.
NoCardTwice == \A i, j \in DOMAIN cards : cards[i] = cards[j] => i = j

\* Nobody is offered a dog of their own, unless another account was used on
\* this phone.  A loader of an earlier sign-in compares with the email it finds
\* when the answer comes; that email is never empty again, even after a
\* sign-out, so the comparison always has an account to leave out.
OwnDogExplained ==
  isLoggedIn /\ (\E d \in InDeck : OwnerOf[d] = emailAddress) => Cardinality(accounts) > 1

\* A card that was stored since launch is lost only to the removal at launch,
\* when that comes late; no append overwrites another.
LostCardExplained == added \subseteq InDeck \cup erased

\* Once the cards of earlier launches are removed they stay away, unless the
\* removal fell between the two halves of an append, which restores them.
OldCardsGone == "delegate" \notin restoring /\ ~torn => InDeck \subseteq added

\* A loader that starts when the removal is over does its work: every dog of
\* somebody else that scores high enough becomes a card, whatever other loaders
\* do, unless its request failed or the app ended.
DeckFills ==
  \A k \in Loaders, d \in {c \in Good : OwnerOf[c] \notin Emails} :
    (loader[k] = "asked" /\ "delegate" \notin restoring)
      ~> (d \in InDeck \/ task[<<k, d>>] = "failed" \/ loader[k] = "gone")
=============================================================================
