------------------------------- MODULE SignUp -------------------------------
(***************************************************************************)
(* The app on one phone, from launch to a registered dog: UserAuthModel,   *)
(* the screens ContentView chooses from its fields, and the sign-up forms  *)
(* that send POST /Owner and POST /Dog to the API of Registration.         *)
(*                                                                         *)
(* The fields of UserAuthModel are set by callbacks: Google's, and the     *)
(* answers of GET /Owner/{email}, which come in any order or not at all.   *)
(* The forms start a Task that encodes the object it finds when it runs,   *)
(* sends it, and writes the answer into the Dog of its form, which may be  *)
(* on its way to the server by then or no longer on the screen.            *)
(***************************************************************************)
EXTENDS Registration, Sequences, FiniteSets

CONSTANTS
  MaxAsks,       \* bound on the calls of checkAccount
  MaxLosses      \* bound on requests and answers lost, and checks that fail

ASSUME AsksAssumption == MaxAsks \in Nat /\ MaxLosses \in Nat

\* No user, or no email.
None == "none"

\* One User and one Dog object for each SignUpView that is put on the screen:
\* by checkStatus or by the answer of a checkAccount.
Flows == 1..(2 * MaxAsks)

\* UserInfoView and UserPreferencesView, which send nothing; AddDogView; and
\* the LoginView that follows it.
Pages == {"forms", "addDog", "login"}

VARIABLES
  currentUser,   \* external: GIDSignIn.sharedInstance.currentUser
  restoring,     \* the restore started by UserAuthModel.init is under way
  prompting,     \* the sign-in sheet of Google is open
  isLoggedIn, emailAddress, hasAccount,   \* the fields of UserAuthModel
  asks,          \* the calls of checkAccount, in order
  flow,          \* the number of SignUpViews so far
  page,          \* the form of the last one that is on top
  OwnerEmail,    \* the email of the User of each SignUpView
  OwnerID,       \* the OwnerID of the Dog of each SignUpView
  stage, task,   \* the Task of each request and the SignUpView it belongs to
  accounts,      \* history: the accounts signed in since launch
  overtaken,     \* history: a call was served or answered after a later one
  known,         \* history: the answers with an id that a dog was sent after
  losses         \* losses so far

google == <<currentUser, restoring, prompting>>
fields == <<isLoggedIn, emailAddress, hasAccount>>
screens == <<flow, page>>
objects == <<OwnerEmail, OwnerID>>
tasks == <<stage, task, known>>
appVars == <<google, fields, asks, screens, objects, tasks, accounts, overtaken, losses>>

SignUpTypeOK ==
  /\ TypeOK
  /\ currentUser \in Emails \cup {None}
  /\ restoring \in BOOLEAN /\ prompting \in BOOLEAN
  /\ isLoggedIn \in BOOLEAN /\ hasAccount \in BOOLEAN
  /\ emailAddress \in Emails \cup {None}
  /\ isLoggedIn => emailAddress \in Emails
  /\ asks \in Seq([email : Emails, stage : {"sent", "answered", "applied", "failed"},
                   answer : {"none", "found", "default", "misread"}])
  /\ Len(asks) <= MaxAsks
  /\ flow \in Flows \cup {0}
  /\ page \in Pages
  /\ OwnerEmail \in [Flows -> Emails \cup {None}]
  /\ OwnerID \in [Flows -> OwnerPosts \cup {NoId}]
  /\ stage \in [Requests -> {"none", "started", "sent", "ended", "failed"}]
  /\ task \in [Requests -> Flows \cup {0}]
  /\ accounts \subseteq Emails /\ overtaken \in BOOLEAN
  /\ known \in [DogPosts -> SUBSET OwnerPosts]
  /\ losses \in 0..MaxLosses

\* The app is launched, with nobody registered.
SignUpInit ==
  /\ Init
  /\ currentUser = None /\ restoring = TRUE /\ prompting = FALSE
  /\ isLoggedIn = FALSE /\ emailAddress = None /\ hasAccount = FALSE
  /\ asks = <<>>
  /\ flow = 0 /\ page = "forms"
  /\ OwnerEmail = [f \in Flows |-> None]
  /\ OwnerID = [f \in Flows |-> NoId]
  /\ stage = [r \in Requests |-> "none"]
  /\ task = [r \in Requests |-> 0]
  /\ accounts = {} /\ overtaken = FALSE
  /\ known = [r \in DogPosts |-> {}]
  /\ losses = 0

Lose == losses < MaxLosses /\ losses' = losses + 1

-----------------------------------------------------------------------------
(***************************************************************************)
(* ContentView: the tabs, the sign-up forms or the sign-in button.         *)
(***************************************************************************)
TabsShown == isLoggedIn /\ hasAccount
SignUpShown == isLoggedIn /\ ~hasAccount
LoginShown == ~isLoggedIn \/ (SignUpShown /\ page = "login")

\* SignUpView gets new objects whenever it comes back onto the screen.
Route ==
  IF isLoggedIn' /\ ~hasAccount' /\ ~SignUpShown
  THEN flow' = flow + 1 /\ page' = "forms"
  ELSE UNCHANGED screens

-----------------------------------------------------------------------------
(***************************************************************************)
(* UserAuthModel.                                                          *)
(***************************************************************************)
\* Has a later call got to one of these stages before call k.
NoteOrder(k, stages) ==
  overtaken' = (overtaken \/ \E j \in DOMAIN asks : j > k /\ asks[j].stage \in stages)

\* The call sent by checkAccount.
Ask(email) == [email |-> email, stage |-> "sent", answer |-> "none"]

\* Mutant: the email is not copied.
checkStatusNoEmail(user) ==
  /\ currentUser' = user
  /\ IF user # None
     THEN /\ Len(asks) < MaxAsks
          /\ isLoggedIn' = TRUE
          /\ asks' = Append(asks, Ask(user))
          /\ accounts' = accounts \cup {user}
     ELSE isLoggedIn' = FALSE /\ UNCHANGED <<asks, accounts>>
  /\ UNCHANGED <<emailAddress, hasAccount>>
  /\ Route
  /\ UNCHANGED <<vars, objects, tasks, overtaken, losses>>

\* checkStatus, once currentUser has its new value; it calls checkAccount.
\* Signing out leaves emailAddress and hasAccount as they are.
checkStatus(user) ==
  /\ currentUser' = user
  /\ IF user # None
     THEN /\ Len(asks) < MaxAsks
          /\ isLoggedIn' = TRUE
          /\ emailAddress' = user
          /\ asks' = Append(asks, Ask(user))
          /\ accounts' = accounts \cup {user}
     ELSE isLoggedIn' = FALSE /\ UNCHANGED <<emailAddress, asks, accounts>>
  /\ UNCHANGED hasAccount
  /\ Route
  /\ UNCHANGED <<vars, objects, tasks, overtaken, losses>>

\* The callback of restorePreviousSignIn, with or without a previous user.
Restored(user) ==
  /\ restoring
  /\ restoring' = FALSE
  /\ checkStatus(IF currentUser # None THEN currentUser ELSE user)
  /\ UNCHANGED prompting

handleSignInButton ==
  /\ LoginShown /\ ~prompting
  /\ prompting' = TRUE
  /\ UNCHANGED <<vars, currentUser, restoring, fields, asks, screens, objects, tasks,
                 accounts, overtaken, losses>>

\* The callback of signIn: a user, or none and nothing is done.
SignedIn(user) ==
  /\ prompting
  /\ prompting' = FALSE
  /\ checkStatus(user)
  /\ UNCHANGED restoring

SignInCancelled ==
  /\ prompting
  /\ prompting' = FALSE
  /\ UNCHANGED <<vars, currentUser, restoring, fields, asks, screens, objects, tasks,
                 accounts, overtaken, losses>>

signOut ==
  /\ TabsShown /\ ~prompting
  /\ checkStatus(None)
  /\ UNCHANGED <<restoring, prompting>>

\* Owner.GetOwnerEmail: the owner, or the default one when there is none.
GetOwnerEmail(k) ==
  /\ asks[k].stage = "sent"
  /\ asks' = [asks EXCEPT ![k].stage = "answered",
                          ![k].answer = IF OwnersWith(asks[k].email) # {}
                                        THEN "found" ELSE "default"]
  /\ NoteOrder(k, {"answered", "applied"})
  /\ UNCHANGED <<vars, google, fields, screens, objects, tasks, accounts, losses>>

\* The row is there and cannot be decoded: the handler answers with what it
\* has, the default owner.
GetOwnerEmailThrows(k) ==
  /\ asks[k].stage = "sent" /\ OwnersWith(asks[k].email) # {}
  /\ Lose
  /\ asks' = [asks EXCEPT ![k].stage = "answered", ![k].answer = "misread"]
  /\ UNCHANGED <<vars, google, fields, screens, objects, tasks, accounts, overtaken>>

\* Mutant: the test for the default owner is gone.
AnsweredAlwaysFound(k) ==
  /\ asks[k].stage = "answered"
  /\ asks' = [asks EXCEPT ![k].stage = "applied"]
  /\ hasAccount' = TRUE
  /\ UNCHANGED isLoggedIn
  /\ Route
  /\ NoteOrder(k, {"applied"})
  /\ UNCHANGED <<vars, google, emailAddress, objects, tasks, accounts, losses>>

\* The completion handler of checkAccount sets hasAccount, whoever is signed
\* in by now.
AccountAnswered(k) ==
  /\ asks[k].stage = "answered"
  /\ asks' = [asks EXCEPT ![k].stage = "applied"]
  /\ hasAccount' = (asks[k].answer = "found")
  /\ UNCHANGED isLoggedIn
  /\ Route
  /\ NoteOrder(k, {"applied"})
  /\ UNCHANGED <<vars, google, emailAddress, objects, tasks, accounts, losses>>

\* Mutant: no answer is taken for no account.
AccountFailedResets(k) ==
  /\ asks[k].stage \in {"sent", "answered"}
  /\ Lose
  /\ asks' = [asks EXCEPT ![k].stage = "failed"]
  /\ hasAccount' = FALSE
  /\ UNCHANGED isLoggedIn
  /\ Route
  /\ UNCHANGED <<vars, google, emailAddress, objects, tasks, accounts, overtaken>>

\* No answer, or one that is not JSON (a 500): hasAccount keeps its value.
AccountFailed(k) ==
  /\ asks[k].stage \in {"sent", "answered"}
  /\ Lose
  /\ asks' = [asks EXCEPT ![k].stage = "failed"]
  /\ UNCHANGED <<vars, google, fields, screens, objects, tasks, accounts, overtaken>>

-----------------------------------------------------------------------------
(***************************************************************************)
(* The forms.                                                              *)
(***************************************************************************)
Start(r) ==
  /\ SignUpShown /\ ~prompting
  /\ stage[r] = "none"
  /\ stage' = [stage EXCEPT ![r] = "started"]
  /\ task' = [task EXCEPT ![r] = flow]
  /\ UNCHANGED <<vars, google, fields, asks, flow, OwnerID, known, accounts, overtaken, losses>>

\* AddDogView appears, after Next or when the user comes back to it from the
\* sign-in button: the email is filled in and POST /Owner is started.
AddDogAppears(r) ==
  /\ r \in OwnerPosts
  /\ page \in {"forms", "login"}
  /\ page' = "addDog"
  /\ OwnerEmail' = [OwnerEmail EXCEPT ![flow] = emailAddress]
  /\ Start(r)

\* Save: POST /Dog is started and the sign-in button is shown.
Save(r) ==
  /\ r \in DogPosts
  /\ page = "addDog"
  /\ page' = "login"
  /\ UNCHANGED OwnerEmail
  /\ Start(r)

\* UserPreferencesView.sendRequest: the User is encoded as it is now.
SendOwner(r) ==
  /\ stage[r] = "started"
  /\ stage' = [stage EXCEPT ![r] = "sent"]
  /\ ReceiveOwner(r, OwnerEmail[task[r]])
  /\ UNCHANGED <<google, fields, asks, screens, objects, task, known, accounts, overtaken, losses>>

\* Mutant: a refused sign-up leaves its own number in the Dog.
OwnerAnsweredRefused(r) ==
  /\ r \in OwnerPosts
  /\ stage[r] = "sent" /\ pc[r] = "done"
  /\ stage' = [stage EXCEPT ![r] = "ended"]
  /\ OwnerID' = [OwnerID EXCEPT ![task[r]] = IF response[r] = "201" THEN id[r] ELSE r]
  /\ UNCHANGED <<vars, google, fields, asks, screens, OwnerEmail, task, known, accounts,
                 overtaken, losses>>

\* Mutant: the key of the id is misspelt.
OwnerAnsweredNoKey(r) ==
  /\ r \in OwnerPosts
  /\ stage[r] = "sent" /\ pc[r] = "done"
  /\ stage' = [stage EXCEPT ![r] = "ended"]
  /\ OwnerID' = [OwnerID EXCEPT ![task[r]] = NoId]
  /\ UNCHANGED <<vars, google, fields, asks, screens, OwnerEmail, task, known, accounts,
                 overtaken, losses>>

\* Its answer: the id; 0 when the JSON has none, as that of a 400; nothing
\* when it is not JSON, as that of a 500.
OwnerAnswered(r) ==
  /\ r \in OwnerPosts
  /\ stage[r] = "sent" /\ pc[r] = "done"
  /\ stage' = [stage EXCEPT ![r] = "ended"]
  /\ OwnerID' = [OwnerID EXCEPT ![task[r]] =
                   IF response[r] = "201" THEN id[r]
                   ELSE IF response[r] = "400" THEN NoId ELSE @]
  /\ UNCHANGED <<vars, google, fields, asks, screens, OwnerEmail, task, known, accounts,
                 overtaken, losses>>

\* Mutant: an upload that has thrown is repeated as if it had not arrived.
UploadFailedAgain(r) ==
  /\ stage[r] = "sent" /\ r \in OwnerPosts
  /\ Lose
  /\ stage' = [stage EXCEPT ![r] = "started"]
  /\ pc' = [pc EXCEPT ![r] = "new"]
  /\ UNCHANGED <<schema, tables, body, id, response, before, faulted, faults>>
  /\ UNCHANGED <<google, fields, asks, screens, objects, task, known, accounts, overtaken>>

\* The upload throws, before or after the server has received it; the answer
\* to a dog is not used anyway.
UploadFailed(r) ==
  /\ stage[r] = "started" \/ (stage[r] = "sent" /\ r \in OwnerPosts)
  /\ Lose
  /\ stage' = [stage EXCEPT ![r] = "failed"]
  /\ UNCHANGED <<vars, google, fields, asks, screens, objects, task, known, accounts, overtaken>>

\* AddDogView.sendRequest: the Dog is encoded as it is now.
SendDog(r) ==
  /\ r \in DogPosts
  /\ stage[r] = "started"
  /\ stage' = [stage EXCEPT ![r] = "sent"]
  /\ Receive(r, OwnerID[task[r]], "insertDog")
  /\ known' = [known EXCEPT ![r] =
                 {q \in OwnerPosts : /\ task[q] = task[r] /\ stage[q] = "ended"
                                     /\ response[q] = "201" /\ id[q] # NoId}]
  /\ UNCHANGED <<google, fields, asks, screens, objects, task, accounts, overtaken, losses>>

-----------------------------------------------------------------------------
ServerStep == (\E r \in Requests : Step(r)) /\ UNCHANGED appVars

\* Nothing is under way; the user may leave it at that.
Idle ==
  /\ ~prompting
  /\ restoring => Len(asks) = MaxAsks
  /\ \A k \in DOMAIN asks : asks[k].stage \in {"applied", "failed"}
  /\ \A r \in Requests : stage[r] # "started" /\ pc[r] \in {"new", "done"}
  /\ UNCHANGED <<vars, appVars>>

SignUpNext ==
  \/ \E u \in Emails \cup {None} : Restored(u)
  \/ \E u \in Emails : SignedIn(u)
  \/ handleSignInButton \/ SignInCancelled \/ signOut
  \/ \E k \in DOMAIN asks :
       GetOwnerEmail(k) \/ GetOwnerEmailThrows(k) \/ AccountAnswered(k) \/ AccountFailed(k)
  \/ \E r \in Requests :
       \/ AddDogAppears(r) \/ Save(r)
       \/ SendOwner(r) \/ OwnerAnswered(r) \/ SendDog(r) \/ UploadFailed(r)
  \/ ServerStep
  \/ Idle

SignUpSpec == SignUpInit /\ [][SignUpNext]_<<vars, appVars>>

-----------------------------------------------------------------------------
\* The phone is a client Registration allows for: what it sends, and when,
\* whatever is lost or late, are steps of Registration, in which a dog is
\* posted with an OwnerID that POST /Owner has answered or with none.
ImplementsRegistration == Spec

\* The tabs are not shown to somebody who is not registered, unless another
\* account was signed in on this phone before: hasAccount is never reset, and
\* an answer about one account is applied to the other.
TabsOnlyForOwners ==
  TabsShown /\ OwnersWith(emailAddress) = {} => Cardinality(accounts) > 1

\* An owner the app has recognised is not sent to the sign-up forms again,
\* unless accounts were switched, calls were served out of order, or the row could
\* not be decoded.
OwnersStayRecognised ==
  /\ \E k \in DOMAIN asks : asks[k].stage = "applied" /\ asks[k].answer = "found"
  /\ ~hasAccount
  => Cardinality(accounts) > 1 \/ overtaken \/ \E k \in DOMAIN asks : asks[k].answer = "misread"

\* Whatever the answers overtake, a dog goes to an owner that was signed up in
\* the forms the dog was entered in.
DogsStayInTheirForm ==
  \A r \in DogPosts : body[r] # NoId =>
    \E q \in OwnerPosts : task[q] = task[r] /\ body[r] \in OwnersWith(body[q])

\* A dog sent without an owner although its form had been told an id: only
\* when AddDogView was left and entered again, and a sign-up of that form was
\* refused.
ForgottenOwnerExplained ==
  \A r \in DogPosts : known[r] # {} /\ body[r] = NoId =>
    \E p \in OwnerPosts, q \in known[r] :
      p # q /\ task[p] = task[r] /\ task[q] = task[r] /\ response[p] = "400"
=============================================================================
