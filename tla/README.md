# Puppy Love: TLA+ models of the matching backend and of the app

Puppy Love matches dog owners so that their dogs find playmates. The repository
holds an ASP.NET Core API over a MySQL database (`PuppyLoveAPI`, C#), an iOS app
(`PuppyLove`, SwiftUI) and the app's vendored libraries (`PuppyLove/Pods`). This
directory models the program's own code: what its requests, callbacks and screens
do to its state, and what goes wrong or right when they interleave, fail and
arrive late.

## 1. Inventory

### The API

| component | state | operations | interacts with |
|---|---|---|---|
| Swipes and matches (`Swipe.cs`, `SwipeController.cs`) | tables `swipe_outcomes`, `matches` | `POST /Swipe`: insert the swipe; for a like, select the opposite swipe; insert the match. `GET /Swipe/{id}` | database connection |
| Swipe list (`SwipeList.cs`) | none of its own; four selects | `GET /SwipeList/{email}` | database, matching service (HTTP) |
| Owners and dogs (`Owner.cs`, `Dog.cs`, controllers) | tables `owners`, `dogs` | `POST /Owner`: select by email, insert, select the id. `POST /Dog`: insert, select the id. Reads | database connection |
| Read endpoints (`MatchController`, `MessageController`, `DogIdController`, ...) | none | one select each | database connection |
| Database connection (`DBConnection.cs`) | static `_instance`, its property `Connection` | `Instance`, `IsConnect`, `Close` | every endpoint, MySql.Data |

Requests run on the framework's threads, several at a time. No statement is in a
transaction and nothing is locked: the threads share the tables and the one
`Connection` property.

### The app

| component | state | operations | interacts with |
|---|---|---|---|
| Session (`UserAuthModel` in `LoginView.swift`, `ContentView.swift`) | `isLoggedIn`, `emailAddress`, `hasAccount` | restore, sign in, sign out, `checkAccount` and its answer | Google sign-in, `GET /Owner/{email}, 1` |
| Sign-up forms (`SignUpView`, `UserInfoView`, `UserPreferencesView`, `AddDogView`) | a `User` and a `Dog` object per `SignUpView` | Next, Save, Back; `POST /Owner`, `POST /Dog` and their answers | session, API |
| Card deck (`LoginView.onAppear`, `Card.swift`, `AppDelegate.swift`) | `Card.data` in UserDefaults | load, append, remove at launch | session, API, matching service |
| Chat (`ChatLogView`, `messagesTemp`, `CreateNewMessageView`) | Firestore documents, local lists, `chatUser`, `chatText` | open, type, send, acknowledgements, snapshot listeners | Firestore, chat account, `GET /Match` |
| Chat account (`CardsSection.swift`, `FirebaseManager.swift`, `fetchCurrentUser`) | accounts and `users` documents at Firebase, `auth.currentUser`, the profile | sign in, create, store and fetch the user | Firebase, session |
| Location, profile, settings, categories | view state only | none that outlives a view | none |

### What is hard here

* Statements of concurrent requests interleave: the two likes of a match, two
  sign-ups with one email, a list built while its tables change.
* One statement of several fails, before or after it has taken effect.
* The singleton's connection is assigned, opened, used and closed by whoever runs.
* Answers come late, out of order or not at all, and are applied to whatever the
  app shows by then: a form, an account, a conversation, a text field.
* The app is terminated; the cards, the accounts and the writes that wait survive it.

`PROJECT.json` lists each hazard with its line and the properties that cover it.
What makes each component correct is stated in section 4.

## 2. Modules

| module | models |
|---|---|
| `Matching` | abstract specification: likes and matches, nothing else |
| `SwipeMatch` | `POST /Swipe`; implements `Matching` |
| `SwipeFeed` | `GET /SwipeList/{email}`, composed with `SwipeMatch` and the registration of dogs |
| `Registration` | `POST /Owner` and `POST /Dog` |
| `DBConnection` | the singleton under all sixteen endpoints |
| `SignUp` | session and sign-up forms of one phone, composed with `Registration` |
| `CardDeck` | the loaders of the card deck, with the session as far as they see it |
| `Conversation` | abstract specification: what is said, and the copies that are kept |
| `Chat` | `ChatLogViewModel` on several phones over Firestore; implements `Conversation` |
| `ChatAccount` | the account, the document and the profile one phone has at Firebase |
| `SwipeMatchProofs`, `SwipeFeedProofs`, `RegistrationProofs`, `DBConnectionProofs`, `SignUpProofs`, `CardDeckProofs`, `ChatProofs`, `ChatAccountProofs` | theorems about the module of that name |
| `MC*` | symmetry sets and constants for TLC |

**SwipeMatch.** A request is a thread with a program counter; its actions are the
statements of `Swipe.SendSwipe`, in its order. `Receive` is the binding of the
body by `SwipeController.Create`; `Connect` is `IsConnect`, which does nothing when
no database is configured; `InsertSwipe`, `QueryMatch` and `InsertMatch` are the three
statements, each with a `...Throws` twin for the exception. A statement that throws may have been
committed. `Respond` and `Answer` are the status of the controller. A row's key is
the request that inserted it, since no request inserts two rows in one table. `before`
is a history variable: the requests answered when this one arrived.

**SwipeFeed.** `FindDog`, `ReadSwipes`, `ReadMatches` and `ReadDogs` are the four
selects of `GetListSwipes`; `Score` stands for the calls of the matching service, `good`
being the dogs it scores high enough; `DecodeThrows` is the error path that returns the ids
collected so far; `FeedThrows` is an exception nobody catches. Beside them run all the
actions of `SwipeMatch`, and `Register` for the dogs that `POST /Dog` adds.

**Registration.** As `SwipeMatch`, for the statements of `AddOwner`, `GetNewID`,
`CreateDog` and `GetNewDogId`. The schema is not in the repository, so whether
`owners.email` is unique and `dogs.owner_id` a foreign key is chosen in the initial
state and every property is checked for all four schemas. So is whether a database is
configured: without one `IsConnect` returns false, all statements are skipped and the answer is 201
with the id as it was posted (`NoDatabase`). Selects that take "the first row" take any.

**DBConnection.** Here the data are left out and the objects kept: an endpoint is the
sequence of its operations on the singleton, the connections and the readers, one
sequence per branch of its code. Each operation is an action: `CheckInstance`, `CreateInstance`
and `ReturnInstance` are the three accesses to `_instance`; `NewConnection` and
`OpenConnection` the two statements of `IsConnect`; `Command`, `Execute`, `Read`,
`CloseReader` and `Close` what the endpoints do. An operation named `try...` is
inside a try block whose handler closes the connection and returns.

**SignUp.** `checkStatus`, `Restored`, `SignedIn`, `signOut` and `AccountAnswered` are the
methods and callbacks of `UserAuthModel`; `Route` is the choice `ContentView` makes, which
gives `SignUpView` new objects each time it comes back. `AddDogAppears` and `Save`
are the `onAppear` closures that start the two requests; `SendOwner` and `SendDog`
encode the objects when the Task runs, and hand them to `Registration`; `OwnerAnswered`
writes the answer into the Dog of its form. A 400 carries JSON without an id and
sets `OwnerID` to 0; a 500 has no JSON and sets nothing. The select of
`GetOwnerEmail` is the action of that name.

**CardDeck.** A loader is one appearance of `LoginView`; its actions are the wait for an
email (`EmailSeen`), the answer of `GET /Dog` (`DogsAnswered`, or `DogsFailed`, where `try!`
ends the app) and, for each dog, the handlers of the two requests (`OwnerAnswered`,
`ScoreAnswered`); `RequestFailed` also stands for an email with which no URL can be built. `Card.data.append` is two steps, `AppendGets` and `AppendSets`, since
`Card.data` is a computed property over UserDefaults. `DelegateRestored` is the callback in
which `AppDelegate` removes the cards. `SignedIn`, `AccountFound`, `signOut`, `Save` and
`Restored` are the moments at which `LoginView` appears or an email is set. `added`, `erased` and `torn`
are history variables.

**Chat.** `handleSend` puts the two writes of a message into the queue of the phone; `Store`
and `Refuse` are the server; `Saved` and `NotSaved` are the completion handler of the first
write, with `persistRecentMessage` (`RecentWrites`) and the clearing of the text field.
`RecentWrites` names the peer's document after the uid of the sender's profile, `FirebaseManager.currentUser`,
while the sender in it is the account signed in: the constant `Profiles` says which profile a phone may have by then,
its own, none, or that of another account.
`OpenNew`, `OpenRecent`, `Leave` and `Type` are what the user does in between, and `SwitchTab` the choice of another tab: it
removes the listener as leaving does, but the conversation comes back into view without one (`view` is "deaf") and
can still be typed and sent in. `MessagesAdded` and `ListenerFails` are the listener. `hasty` is a history variable: the users who typed, sent or
opened a conversation before the acknowledgement. The documents of a message are known by
its number, its place in `messages`. `Conversation` promises that each of the two users
keeps copies, in the order of sending and at most once; that a copy may be missing is what
the two separate writes allow.

**ChatAccount.** `SignedIn` is `checkStatus`, which signs in at Firebase and puts the new email
into the profile. It needs no sign-out before it: the sign-up forms end in a `LoginView`, where another account can be
chosen. `CardsSectionInit` sends the second sign-in and the creation;
`SignInAnswered`, `CreateServed` and `CreateAnswered` are their answers, the last one with
`storeUserInformation`; `fetchCurrentUser` and `FetchAnswered` set the profile. Requests of one
kind for one account are alike, so they are counted. The tabs are built whenever an account
is signed in: which screen is shown is the subject of `SignUp`. `left`, `hurt`, `kept`, `strayed` and `shown` are history
variables: accounts left with requests under way, by a sign-out or for another account; accounts a request of which failed; the account
Firebase had when Google last signed in another one; accounts whose document was fetched while Google had another one; and
whom `messagesTemp` found signed in when it was last built.

## 3. Runs

| run | instance | shows |
|---|---|---|
| `swipe_safety` | 3 requests, 2 dogs, 1 exception, fair | `MatchSound`, `MatchComplete`, `DuplicatesExplained`, that the tables only take the steps of `Matching`, and that without exceptions every mutual like becomes a match (`MutualLikesMatch`) |
| `swipe_comment` | 2 requests, 1 exception | violated: two committed likes, the second request has read the first one's, and no match |
| `feed_list` | 1 list, 2 swipes, 3 dogs, 2 owners | `ListLeavesOutSwiped`, `ListOffersTheRest`, `OwnDogNotOffered` |
| `feed_comment` | 1 list, 1 swipe | violated: the error path returns the dogs already swiped on |
| `registration_safety` | 2 sign-ups, 2 dogs, 2 emails, 2 exceptions, with and without a database | `OneOwnerPerEmail`, `OwnerIdIsOwn`, `DogIdIsOwn`, `RejectionExplained` |
| `registration_comment` | 1 owner, 1 dog, 1 exception | violated: a dog that was created is answered 400 |
| `db_pairs` | all 16 endpoints, 2 requests, pool of 2, 1 exception | `NoNullDereference`, `FailureExplained`, `LeakExplained` |
| `signup` | 2 sign-ins, 2 sign-ups, 1 dog, 2 accounts, 1 loss | `TabsOnlyForOwners`, `OwnersStayRecognised`, `DogsStayInTheirForm`, `ForgottenOwnerExplained`, and that the phone is a client `Registration` allows for |
| `deck` | 2 loaders, 2 dogs, 2 accounts, 2 faults, fair | `NoCardTwice`, `OwnDogExplained`, `LostCardExplained`, `OldCardsGone`, `DeckFills` |
| `chat_safety` | 3 users, 2 online, one of them with the profile of the third, 2 conversations opened, 2 messages, 1 refused write | `LogInOrder`, `RecentWasSent`, `RecentOpensItsPeer`, `DraftsKept`, and that the documents only take the steps of `Conversation` |
| `chat_live` | 3 users, 2 online, one of them perhaps without a profile yet, 2 conversations opened, 2 messages, nothing refused, fair | `WatchersSee` |
| `chat_account` | 2 accounts, 2 sessions, 2 builds of the tabs and of the chat, 1 fault, fair | `NotSomebodyElse`, `OwnDocument`, `DocumentMissingExplained`, `ProfileExplained`, `ChatReady` |

The type invariants of all modules are proved (section 5); those of `DBConnection`, `SignUp`,
`CardDeck` and `Chat` are also part of their runs.

Why the bounds are enough. The properties of the tables speak of at most two rows
and of what came before them: two requests show each race and a third what it
leaves behind; two dogs include a dog that swipes on itself. The bounds do not
matter for long: the safety properties are also proved for all values, so it is for the liveness properties
and for the mutants that they have to be enough.
In `db_pairs` two requests suffice for every pair of endpoints to meet at every
pair of operations; a pool of two is exhausted by one sign-up's leaked connection and
one more. In `SignUp` a wrong screen takes two accounts or two calls of
`checkAccount`, and a mixed-up dog two forms; both are allowed. In `CardDeck`
two loaders overlap, or one is stopped by a termination and another follows; one dog
belongs to an account of the phone and one to somebody else. In `Chat` two messages are what
it takes to be out of order, a second conversation what it takes to record a message in the wrong
one, and two phones what it takes for a listener to show both sides; there is one text beside the empty one, and the
theorems hold for any number. `chat_live` has no refused writes, which `WatchersSee` excepts anyway, so that TLC can
check it under fairness. In `ChatAccount` one account
follows the other, after a sign-out, a termination or neither; two creations show the refused one.
`MaxFaults`, `MaxLosses`, `MaxAsks`, `MaxLoaders`, `MaxOpens`, `MaxMessages`, `MaxSessions`, `MaxViews` and
`MaxShows` bound what their names say; the sets of requests bound everything else. Symmetry is over requests, emails and dogs that nothing tells
apart; it is not used where liveness is checked.

Fairness. In `SwipeMatch` `FairSpec` is weak fairness of each request's `Step`: the framework runs a
request it has started, and a statement returns or throws. Nothing forces a client
to send a request. `MutualLikesMatch` is about behaviours without exceptions because the code
does not retry: `swipe_comment` shows that one exception loses a match for good.
In `CardDeck` the background threads are scheduled and every request is answered, in `Chat`
Firestore goes on sending what waits, or refuses it, and calls the listeners, and in `ChatAccount` every
request to Firebase is answered or fails: URLSession and Firebase call each completion handler
in the end. No user is forced to do anything, and a failure is an
answer: the liveness properties except what has failed.

### Where the code and its comments differ

* `Swipe.cs:115` says the matches are updated automatically from the swipe outcomes.
  If the select or the second insert throws, the swipe stays and the match is never
  written. In the trace of `swipe_comment` both likes are committed, the later request has read the
  other's, and its insert of the match throws.
* `SwipeList.cs:107` says the method returns dogs that still need to be swiped on. Its
  handlers return the ids that have been (`feed_comment`).
* `DogController.cs:45` explains a 400 by "Owner was not created". Owner and dog
  both exist when `GetNewDogId` fails (`registration_comment`).

## 4. What holds

* A match is never written without two committed likes of each other, and two
  likes answered 201 never miss their match: each request inserts before it selects.
  Duplicate matches come only from overlapping or repeated likes.
* A list never offers what the dog had swiped on or matched when the request arrived,
  and offers every other suitable dog unless it was swiped on or matched
  meanwhile: the tables only grow, so no order of the four selects can miss an old row.
* Two owners with one email need two overlapping sign-ups and a table without an
  index; a retry after an error never registers twice. The ids read back are right
  up to rows of the same email or owner. Without a configured database both endpoints
  answer 201 and register nothing.
* No thread dereferences null, however the first requests race for the singleton. An
  endpoint that runs alone never fails by itself, even after another has left the
  singleton's connection closed or open. The connections left open are
  those of `AddOwner`'s first `IsConnect`, of uncaught exceptions, and of
  overlapping requests.
* On a phone with one account the tabs are shown only to a registered owner, and a
  recognised owner is not sent to the forms again unless calls were served out of
  order or a row could not be decoded. A dog goes to an owner signed up in its own
  form. It loses an id its form was told only to another sign-up of that form, which was refused.
* However many loaders run, no dog gets two cards, because the handlers run one at a time
  and each tests the deck. A card is lost only to the removal at launch when that comes late; old
  cards come back only when the removal falls into an append. A dog of one's own is
  offered only after a change of accounts.
* The documents of a chat keep the order of sending, and a phone never shows a message in a
  conversation it does not belong to, or the messages of one user out of order. A recent message
  that was not sent, or a draft that is cleared, takes a user who did not wait for the
  acknowledgement. Even then a row of the recent messages opens the conversation it is filed under, unless the
  phone that wrote it had the profile of another account: such a row stands under that account and opens the sender's conversation.
  Who watches a conversation comes to see what is said in it, but not after a switch of tabs or an error of the listener.
* A document has a wrong email or is missing only if an account was left while its requests were
  under way or if one of them failed. Then nothing repairs it. A phone is signed in at Firebase as somebody else
  for the first of these reasons, or between a termination and the next sign-in, or as the account before when Google
  has signed in another one without a sign-out: until that one's sign-in is through, which it never is if it
  fails or there is no account yet. A profile with the uid, or the uid and the email, of the account before
  needs no failure: it is enough that the chat was built before the sign-in was answered.

## 5. Proofs

All constants are arbitrary up to the named assumptions: bounds are naturals,
`1` is an outcome (the like), requests, emails and the id "none" are different things, each
dog has an owner.

**SwipeMatchProofs.** `IInv` relates each program counter to the tables. A row belongs
to the request in its key (`SwipesStored`, `MatchesStored`); `isMatch` is true only
if an opposite like was committed (`IsMatchSound`), which gives `MatchSound`. `MatchComplete` is not
inductive: it speaks of answered requests, and the match is decided earlier. The
strengthening is `OneSeesTheOther`: of two opposite likes that have both been
checked, one found the other, because the later check comes after both inserts.
`HistorySound` and the `before` in `LikedBackBy` give `DuplicatesExplained`.
`Implementation` maps each step to a `Like`, a `Match` or a stutter of `Matching`.

**RegistrationProofs.** The key is `CheckPassed`: a request that has passed the check
of `AddOwner` found no row of a request answered before it arrived, so any
owner with its email at the insert came from an overlapping request. `OwnerIds`, `DogIds` and
`Rejected` carry the other three properties.

**SwipeFeedProofs.** `FeedImplementsSwipes` shows that lists leave `POST /Swipe` as it
was, so its invariants can be used. `FInv` says what each select has seen: everything
of the start (`Kept`, `SwipesRead`, `MatchesRead`, `DogsRead`), and nothing that is not still true.

**ChatAccountProofs.** None of the four properties is inductive: each speaks of what is stored or
of a phone where all is quiet, and what goes wrong is decided earlier, when a request is sent or an account
left. The core of `IInv` is `Mine`: a request under way belongs to the account Google has signed
in, or to one in `left`, or is a fetch for one in `strayed`. From it follow `AuthMine` (an answer can only make an account of the first two kinds
the current one; the account before stays only while the other's sign-in is not through), `WriterMine` (the account the handler of a creation finds
is its own, or one of the two was left), `WritesMine` (the same of a waiting write) and, as long as `left` is
empty, `CreatedCurrent` (the handler of a creation finds its own account signed in). `DocumentComing` says where the
document of a registered account is before it is stored: in a creation that waits for its handler, or
in a write that waits for the server. `ProfileComing` says the same of the profile, and `Named` that the email in it is right. `Counted`
bounds the requests under way by those sent, which the type invariant needs.

**DBConnectionProofs.** The properties speak of one operation of an endpoint, so the invariant has to say what an
endpoint still has to do. `Follows` lists which operation may come after which, and `Rest` is a sequence in which each
does, that ends by closing, and whose new connections can be numbered up to `MaxConnects` with AddOwner's reconnection as number two. That the
scripts are such sequences is shown piece by piece (`Pieces`, `Join`, `ScriptsFine`), and `RestTail` that what is left of one is one. On top of
it `Fetched` (the singleton and its connection are there by the time they are used) gives `NoNullDereference`. For a
request nobody overlaps with, `Alone` says that nobody else is active, `Undisturbed` that connection, command and reader are as it left them,
which gives `FailureExplained`, and `OpenOK` which of its connections are open, which gives `LeakExplained`; the last one needs
`OpensOwn`, that nobody else opens them. `Others` shows once for all steps of a request what they leave alone of the others.

**SignUpProofs.** `ClientStep` shows that each step of the phone is one of a client of `Registration`, or none, so the
refinement and the inductive invariant of `Registration` carry over. It rests on `OwnerIDTold`: an OwnerID in a form is one a
sign-up of that form was answered. `OwnerIDForgotten` is its counterpart for `ForgottenOwnerExplained`. `FlowsCounted` bounds the forms by the
calls and the applied answers, which the types need. `FoundStays` and `LastApplied` carry
`OwnersStayRecognised`: with one account and calls served in order, what was found once is found again,
and `hasAccount` is what the last call said. The number of accounts in `TabsOnlyForOwners` is a cardinality, so `accounts` is shown to be finite.

**CardDeckProofs.** Each property has a counterpart for the array an append has already got and will set:
`AppendFresh`, `AppendKeeps`, `AppendNew` and the last part of `ForeignCards`. They are inductive because of `OneAppend`: one handler at
most is between the two halves of its append. A dog that passed the test of `OwnerAnswered` is not the dog of all the accounts there
were (`ForeignCards`), so an own dog in the deck means two accounts.

**ChatProofs.** For the refinement: the writes of a phone wait in the order of sending (`QueueOrder`) and are
later than what is stored (`StoredEarlier`), so the server's next copy is one `Conversation` allows. For the acknowledgements: a user who waits has
one message on the way (`OneSending`) and it is the one in the text field (`SendingDraft`), which gives
`RecentWasSent` and the action property `DraftsKept`. For the screens: what is still to be shown is later than what is shown
(`LogEarlier`), which gives `LogInOrder`. `RecentsOK` says under which names a recent message may be filed: its two users, or
a profile the sender's phone may have.

Only model-checked: `MutualLikesMatch`, `ChatReady`, `DeckFills` and `WatchersSee`, since liveness under fairness is out of
the prover's reach, and the three disagreements above. Each inductive invariant was checked with TLC
on the instance of its run before it was proved.

## 6. What is abstracted or left out

* MySQL and MySql.Data are external, known by how the code uses them: a statement is
  atomic and commits by itself; `Open` refuses an open connection and an empty pool;
  one reader per connection; `Close` closes the reader and does not throw. Finalizers,
  which may return a leaked connection to the pool some day, are not modelled.
* SQL text, formatting and the columns no property speaks of.
* `SwipeMatch`, `SwipeFeed` and `Registration` give every request a connection of its
  own; what sharing one does is the subject of `DBConnection`, whose uncaught and caught exceptions are among
  the exceptions of the other modules.
* The matching service is external: a score or a failure.
* `POST /Dog` takes any OwnerID. In `Registration` clients post one that `POST /Owner` has answered, or none; `SignUp`
  shows that the app is such a client. In `SwipeFeed` every dog has an owner: the join at `SwipeList.cs:108` would drop the others.
* In `SignUp` a change of the session's fields is rendered at once, the two restores
  of the launch are one, and the app is not killed (it is in `CardDeck` and `ChatAccount`). Google's
  sheet is a callback with a user or without.
* URLSession.shared is external: it runs one completion handler at a time, in any order.
  UserDefaults reads and writes one value atomically. The matching service and `GET /Owner/{id}`
  give the same answer every time.
* Firestore and Firebase Auth are external: a phone's writes reach the server in order, each is
  stored or refused; listeners see what is stored and the phone's own waiting writes; the current account is
  set before the handler runs. The clocks of the phones agree, so timestamps are the order of sending. A
  document that is fetched is read when its answer is handled. An account's uid is written
  as its email.
* In `Chat` no phone changes its account and everybody online is signed in at Firebase (`fetchMessages` and `handleSend` do
  nothing otherwise), and `Profiles` says which profiles a phone may have: all this is the
  subject of `ChatAccount`. When SwiftUI builds `messagesTemp` anew, `messagesTemp.swift:121` makes a view model
  without a peer; `Chat` begins when a conversation is opened, which sets one, and leaves out a rebuild behind an open
  conversation, in which nothing can be sent until it is opened again. The rows of the list of recent messages are the documents; their order on the
  screen is left out, and so is the fetch of the users offered for a new message
  (`Listed`). Message texts are never looked into.
* Views, sample data, the host's start-up, tests and vendored code are not modelled.

## 7. Plan

Done: all the modules of section 2; every invariant and action property of the runs and the three refinements are proved.
What is left:

1. The theorems of `SwipeMatch` restated for the composed specification of `SwipeFeed`, by `FeedImplementsSwipes`, and those of
   `Registration` for the app, by `PhoneIsAClient`.
2. Action properties that say the same of steps: rows are only added, answers given once, a document never changed.
