---------------------------- MODULE ChatAccount ----------------------------
(***************************************************************************)
(* The account the app has at Firebase for the chat, on one phone.         *)
(*                                                                         *)
(* Nobody asks for it: checkStatus signs in whoever Google says is signed  *)
(* in, and CardsSection.init signs in again and creates the account, both  *)
(* at once and every time ContentView builds the tabs.  Only the answer of *)
(* a creation stores the user's document, under the account that is signed *)
(* in at Firebase when the answer comes.  messagesTemp fetches the         *)
(* document of whoever is signed in when it is built and keeps it as the   *)
(* profile the chat uses.  Signing out and the next account do not wait    *)
(* for the answers.                                                        *)
(*                                                                         *)
(* External, Firebase: requests are served in any order; a sign-in or a    *)
(* creation that succeeds makes its account the current one, before its    *)
(* handler runs; the current account and the writes that wait survive the  *)
(* app.  An account's uid is written as its email.                         *)
(***************************************************************************)
EXTENDS Naturals, Sequences

CONSTANTS
  Emails,        \* the Google accounts used on this phone
  MaxSessions,   \* bound on sign-ins with Google
  MaxViews,      \* bound on the CardsSections built
  MaxShows,      \* bound on the messagesTemps built
  MaxFaults      \* bound on requests that fail and on terminations of the app

ASSUME BoundsAssumption ==
  MaxSessions \in Nat /\ MaxViews \in Nat /\ MaxShows \in Nat /\ MaxFaults \in Nat

\* No account, no document, no profile.
None == "none"
NoProfile == [uid |-> None, email |-> None]
ASSUME NoneAssumption == None \notin Emails

VARIABLES
  registered,    \* Firebase: the accounts there are
  users,         \* Firestore, users/{uid}: the email in each document
  writes,        \* Firestore: the documents that wait for the server
  google,        \* external: the account of GIDSignIn.sharedInstance
  auth,          \* external: FirebaseManager.auth.currentUser
  profile,       \* FirebaseManager.currentUser, read from a document
  signing,       \* the sign-ins to be answered, a number for each account
  creating,      \* the creations to be answered
  created,       \* the creations that have succeeded and wait for their handler
  fetching,      \* the documents fetched
  sessions, views, shows,   \* counters
  shown,         \* history: auth when messagesTemp was last built for google
  left,          \* history: accounts left before their requests were answered
  kept,          \* history: auth when Google last signed in another account
  strayed,       \* history: accounts fetched for while Google had another one
  hurt,          \* history: accounts some request of which has failed
  faults         \* faults so far

firebase == <<registered, users, writes>>
requests == <<signing, creating, created, fetching>>
counters == <<sessions, views, shows>>
past == <<shown, left, kept, strayed>>
vars == <<firebase, google, auth, profile, requests, counters, past, hurt, faults>>

Account == Emails \cup {None}

TypeOK ==
  /\ registered \subseteq Emails
  /\ users \in [Emails -> Account]
  /\ writes \in Seq([uid : Emails, email : Emails])
  /\ google \in Account /\ auth \in Account /\ shown \in Account /\ kept \in Account
  /\ profile \in [uid : Emails, email : Emails] \cup {NoProfile}
  /\ signing \in [Emails -> 0..(MaxSessions + MaxViews)]
  /\ creating \in [Emails -> 0..MaxViews] /\ created \in [Emails -> 0..MaxViews]
  /\ fetching \in [Emails -> 0..MaxShows]
  /\ sessions \in 0..MaxSessions /\ views \in 0..MaxViews /\ shows \in 0..MaxShows
  /\ left \subseteq Emails /\ strayed \subseteq Emails /\ hurt \subseteq Emails
  /\ faults \in 0..MaxFaults

\* No request.
Zero == [u \in Emails |-> 0]

Init ==
  /\ registered = {} /\ users = [u \in Emails |-> None] /\ writes = <<>>
  /\ google = None /\ auth = None /\ profile = NoProfile
  /\ signing = Zero /\ creating = Zero /\ created = Zero /\ fetching = Zero
  /\ sessions = 0 /\ views = 0 /\ shows = 0
  /\ shown = None /\ left = {} /\ kept = None /\ strayed = {}
  /\ hurt = {} /\ faults = 0

More(requested, u) == [requested EXCEPT ![u] = @ + 1]
Less(requested, u) == [requested EXCEPT ![u] = @ - 1]

InFlight(u) == signing[u] > 0 \/ creating[u] > 0 \/ created[u] > 0 \/ fetching[u] > 0

Fault(us) ==
  /\ faults < MaxFaults /\ faults' = faults + 1
  /\ hurt' = hurt \cup us

-----------------------------------------------------------------------------
(***************************************************************************)
(* UserAuthModel.                                                          *)
(***************************************************************************)
\* Mutant: the profile stays as it is.
SignedInProfileKept(u) ==
  /\ sessions < MaxSessions
  /\ google' = u /\ sessions' = sessions + 1
  /\ signing' = More(signing, u)
  /\ shown' = None
  /\ left' = left \cup {v \in Emails \ {u} : InFlight(v)}
  /\ kept' = IF auth = u THEN None ELSE auth
  /\ UNCHANGED <<firebase, auth, profile, creating, created, fetching, views, shows,
                 strayed, hurt, faults>>

\* Google has signed u in, again after a launch or anew, and checkStatus
\* signs in at Firebase.  Another account need not have signed out: the forms
\* end in LoginView.  The profile there may still be gets the new email, and
\* keeps its uid.
SignedIn(u) ==
  /\ sessions < MaxSessions
  /\ google' = u /\ sessions' = sessions + 1
  /\ signing' = More(signing, u)
  /\ profile' = IF profile = NoProfile THEN profile ELSE [profile EXCEPT !.email = u]
  /\ shown' = None
  /\ left' = left \cup {v \in Emails \ {u} : InFlight(v)}
  /\ kept' = IF auth = u THEN None ELSE auth
  /\ UNCHANGED <<firebase, auth, creating, created, fetching, views, shows,
                 strayed, hurt, faults>>

\* Mutant: Firebase is not told.
signOutGoogle ==
  /\ google # None
  /\ google' = None
  /\ left' = left \cup {u \in Emails : InFlight(u)}
  /\ UNCHANGED <<firebase, auth, profile, requests, counters, shown, kept, strayed, hurt, faults>>

\* The answers still to come are not waited for, and the profile stays.
signOut ==
  /\ google # None
  /\ google' = None /\ auth' = None
  /\ left' = left \cup {u \in Emails : InFlight(u)}
  /\ UNCHANGED <<firebase, profile, requests, counters, shown, kept, strayed, hurt, faults>>

-----------------------------------------------------------------------------
(***************************************************************************)
(* CardsSection and messagesTemp.                                          *)
(***************************************************************************)
\* init: created is still "0" when it is tested, so an account is created
\* whether or not there is one.
CardsSectionInit ==
  /\ google # None /\ views < MaxViews
  /\ views' = views + 1
  /\ signing' = More(signing, google)
  /\ creating' = More(creating, google)
  /\ UNCHANGED <<firebase, google, auth, profile, created, fetching, sessions, shows,
                 past, hurt, faults>>

\* body builds messagesTemp, whose fetchCurrentUser does nothing before
\* Firebase has signed somebody in.
fetchCurrentUser ==
  /\ google # None /\ views > 0 /\ shows < MaxShows
  /\ shows' = shows + 1
  /\ shown' = auth
  /\ fetching' = IF auth = None THEN fetching ELSE More(fetching, auth)
  /\ strayed' = strayed \cup ({auth} \ {None, google})
  /\ UNCHANGED <<firebase, google, auth, profile, signing, creating, created, sessions,
                 views, left, kept, hurt, faults>>

\* loginUser, or checkStatus: there must be an account.
SignInAnswered(u) ==
  /\ signing[u] > 0
  /\ signing' = Less(signing, u)
  /\ auth' = IF u \in registered THEN u ELSE auth
  /\ UNCHANGED <<firebase, google, profile, creating, created, fetching, counters,
                 past, hurt, faults>>

\* createNewAccount: there must be none.
CreateServed(u) ==
  /\ creating[u] > 0
  /\ creating' = Less(creating, u)
  /\ \/ /\ u \in registered
        /\ UNCHANGED <<registered, auth, created>>
     \/ /\ u \notin registered
        /\ registered' = registered \cup {u} /\ auth' = u
        /\ created' = More(created, u)
  /\ UNCHANGED <<users, writes, google, profile, signing, fetching, counters,
                 past, hurt, faults>>

\* Mutant: the uid is the profile's, if there is one.
CreateAnsweredProfile(u) ==
  /\ created[u] > 0
  /\ created' = Less(created, u)
  /\ LET uid == IF profile = NoProfile THEN auth ELSE profile.uid
     IN  writes' = IF auth = None THEN writes ELSE Append(writes, [uid |-> uid, email |-> u])
  /\ UNCHANGED <<registered, users, google, auth, profile, signing, creating, fetching,
                 counters, past, hurt, faults>>

\* Mutant: nothing is stored before there is a profile.
CreateAnsweredKnown(u) ==
  /\ created[u] > 0
  /\ created' = Less(created, u)
  /\ writes' = IF None \in {auth, profile.uid} THEN writes
               ELSE Append(writes, [uid |-> auth, email |-> u])
  /\ UNCHANGED <<registered, users, google, auth, profile, signing, creating, fetching,
                 counters, past, hurt, faults>>

\* Its handler, storeUserInformation: the uid is the one of now, the email the
\* one of the CardsSection.
CreateAnswered(u) ==
  /\ created[u] > 0
  /\ created' = Less(created, u)
  /\ writes' = IF auth = None THEN writes ELSE Append(writes, [uid |-> auth, email |-> u])
  /\ UNCHANGED <<registered, users, google, auth, profile, signing, creating, fetching,
                 counters, past, hurt, faults>>

\* The document of u as the phone sees it: with its own writes that wait.
Document(u) ==
  LET mine == {i \in DOMAIN writes : writes[i].uid = u}
      last == {i \in mine : \A j \in mine : j <= i}
  IN  IF last = {} THEN users[u] ELSE writes[CHOOSE i \in last : TRUE].email

\* The profile becomes what was found, or nothing.
FetchAnswered(u) ==
  /\ fetching[u] > 0
  /\ fetching' = Less(fetching, u)
  /\ profile' = IF Document(u) = None THEN NoProfile ELSE [uid |-> u, email |-> Document(u)]
  /\ UNCHANGED <<firebase, google, auth, signing, creating, created, counters,
                 past, hurt, faults>>

-----------------------------------------------------------------------------
(***************************************************************************)
(* Firestore, and what can fail.                                           *)
(***************************************************************************)
\* Mutant: the write waits again.
StoredNot ==
  /\ writes # <<>>
  /\ writes' = Append(Tail(writes), Head(writes))
  /\ UNCHANGED <<registered, users, google, auth, profile, requests, counters,
                 past, hurt, faults>>

Stored ==
  /\ writes # <<>>
  /\ users' = [users EXCEPT ![Head(writes).uid] = Head(writes).email]
  /\ writes' = Tail(writes)
  /\ UNCHANGED <<registered, google, auth, profile, requests, counters,
                 past, hurt, faults>>

WriteRefused ==
  /\ writes # <<>>
  /\ Fault({Head(writes).uid})
  /\ writes' = Tail(writes)
  /\ UNCHANGED <<registered, users, google, auth, profile, requests, counters, past>>

\* The handlers print the error, and that is all.
SignInFailed(u) ==
  /\ signing[u] > 0
  /\ Fault({u})
  /\ signing' = Less(signing, u)
  /\ UNCHANGED <<firebase, google, auth, profile, creating, created, fetching, counters,
                 past>>

\* The account may exist nevertheless.
CreateFailed(u) ==
  /\ creating[u] > 0
  /\ Fault({u})
  /\ creating' = Less(creating, u)
  /\ registered' \in {registered, registered \cup {u}}
  /\ UNCHANGED <<users, writes, google, auth, profile, signing, created, fetching, counters,
                 past>>

FetchFailed(u) ==
  /\ fetching[u] > 0
  /\ Fault({u})
  /\ fetching' = Less(fetching, u)
  /\ UNCHANGED <<firebase, google, auth, profile, signing, creating, created, counters,
                 past>>

\* The app is terminated: its requests are lost, after or before they were
\* served.
Killed ==
  /\ Fault({u \in Emails : InFlight(u)})
  /\ \E S \in SUBSET {u \in Emails : creating[u] > 0} : registered' = registered \cup S
  /\ google' = None /\ profile' = NoProfile /\ shown' = None
  /\ signing' = Zero /\ creating' = Zero /\ created' = Zero /\ fetching' = Zero
  /\ UNCHANGED <<users, writes, auth, counters, left, kept, strayed>>

-----------------------------------------------------------------------------
\* Nothing is under way.
Idle ==
  /\ writes = <<>> /\ \A u \in Emails : ~InFlight(u)
  /\ UNCHANGED vars

Next ==
  \/ \E u \in Emails :
       \/ SignedIn(u)
       \/ SignInAnswered(u) \/ CreateServed(u) \/ CreateAnswered(u) \/ FetchAnswered(u)
       \/ SignInFailed(u) \/ CreateFailed(u) \/ FetchFailed(u)
  \/ signOut \/ CardsSectionInit \/ fetchCurrentUser
  \/ Stored \/ WriteRefused \/ Killed
  \/ Idle

Spec == Init /\ [][Next]_vars

\* Every request is answered or fails, every handler runs, and Firestore goes on
\* sending what waits.
FairSpec ==
  /\ Spec
  /\ \A u \in Emails :
       /\ WF_vars(SignInAnswered(u) \/ SignInFailed(u))
       /\ WF_vars(CreateServed(u) \/ CreateFailed(u))
       /\ WF_vars(CreateAnswered(u))
       /\ WF_vars(FetchAnswered(u) \/ FetchFailed(u))
  /\ WF_vars(Stored \/ WriteRefused)

-----------------------------------------------------------------------------
Quiet == writes = <<>> /\ \A u \in Emails : ~InFlight(u)

\* The account Google has signed in is still to be signed in at Firebase: the
\* answer is to come, or there is no account yet, or a request of it failed.
Late == google # None /\ (signing[google] > 0 \/ google \notin registered \/ google \in hurt)

\* Nobody chats as somebody else, or goes on after signing out, but in three
\* cases.  An account was left while a request of it was under way: its late
\* answer signs it in again.  The app was terminated, which keeps the account
\* until Google has restored its own.  Or Google has signed in another account
\* without a sign-out: the one before stays until the sign-in is through.
NotSomebodyElse ==
  auth \notin {None, google} =>
    left # {} \/ (google = None /\ faults > 0) \/ (auth = kept /\ Late)

\* A document holds the email of its own account, unless that one or the other
\* was left too early: the handler of a creation writes to the current account.
OwnDocument ==
  \A u \in Emails : users[u] \in {None, u} \/ {u, users[u]} \cap left # {}

\* Once all is answered, every account there is has a document, unless one of
\* its requests failed or some account was left too early.  Nothing else would
\* ever write it: the next creation is refused.
DocumentMissingExplained ==
  Quiet => \A u \in registered : users[u] # None \/ u \in hurt \/ left # {}

\* It does unless an account was left too early, or the profile was fetched for
\* the account before, which Firebase still had when messagesTemp was built.  Its
\* uid, under which the recipients of messages file them, may also be that of
\* the account before because messagesTemp was not built since Firebase has
\* signed the new one in, or a request failed.
ProfileExplained ==
  left = {} /\ google # None /\ profile # NoProfile /\ profile.uid \notin strayed =>
    /\ profile.email = google
    /\ Quiet => profile.uid = google \/ shown # google \/ google \in hurt

\* Who opens the tabs gets an account, is signed in and has a document, unless
\* they sign out, a request fails or an account was left too early.
ChatReady ==
  \A u \in Emails :
    (google = u /\ creating[u] > 0)
      ~> (auth = u /\ users[u] = u) \/ google # u \/ hurt # {} \/ left # {}
=============================================================================
