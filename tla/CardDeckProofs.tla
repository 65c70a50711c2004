--------------------------- MODULE CardDeckProofs ---------------------------
(***************************************************************************)
(* Proofs about CardDeck, for any dogs, owners and accounts and any number *)
(* of loaders and faults.                                                  *)
(***************************************************************************)
EXTENDS CardDeck, FiniteSetTheorems, TLAPS

Elements(q) == {q[i] : i \in DOMAIN q}
Distinct(q) == \A i, j \in DOMAIN q : q[i] = q[j] => i = j

(***************************************************************************)
(* The inductive invariant.  Each property of the deck has a counterpart   *)
(* for the append in progress: for what it has got and is about to set.    *)
(***************************************************************************)
\* The session's queue is serial: one handler at most is appending.
OneAppend == \A s, t \in Tasks : s \in Appending /\ t \in Appending => s = t

\* The handler's test is still good when it gets the array and when it sets it.
AppendFresh ==
  \A t \in Tasks :
    /\ task[t] = "get" => t[2] \notin InDeck
    /\ task[t] = "set" => Distinct(array) /\ t[2] \notin Elements(array)

\* No card set since launch is missing from what will be set.
AppendKeeps ==
  \A t \in Tasks : task[t] = "set" => added \subseteq Elements(array) \cup erased

\* No card of an earlier launch is in what will be set.
AppendNew ==
  \A t \in Tasks :
    task[t] = "set" /\ "delegate" \notin restoring /\ ~torn => Elements(array) \subseteq added

\* A loader goes on only with an email, and that is the one of an account.
AccountsKnown ==
  /\ IsFiniteSet(accounts)
  /\ emailAddress \in accounts \cup {None} /\ keychain \in accounts \cup {None}
  /\ \A k \in Loaders : loader[k] = "asked" => emailAddress # None
  /\ \A t \in Tasks : task[t] = "owner" => emailAddress # None

\* A dog that passed the test is not the dog of every account there was.
Foreign(d) == \E a \in accounts : OwnerOf[d] # a

ForeignCards ==
  /\ \A d \in InDeck : Foreign(d)
  /\ \A t \in Tasks : task[t] \in {"score", "get", "set"} => Foreign(t[2])
  /\ \A t \in Tasks : task[t] = "set" => \A d \in Elements(array) : Foreign(d)

IInv ==
  /\ TypeOK
  /\ OneAppend
  /\ NoCardTwice /\ AppendFresh
  /\ LostCardExplained /\ AppendKeeps
  /\ OldCardsGone /\ AppendNew
  /\ AccountsKnown
  /\ ForeignCards
-----------------------------------------------------------------------------
(***************************************************************************)
(* Sequences and sets.                                                     *)
(***************************************************************************)
\* What an append does to the members of an array.
LEMMA Appended ==
  ASSUME NEW S, NEW q \in Seq(S), NEW e \in S
  PROVE  /\ Append(q, e) \in Seq(S)
         /\ Elements(Append(q, e)) = Elements(q) \cup {e}
         /\ Distinct(q) /\ e \notin Elements(q) => Distinct(Append(q, e))
<1> DEFINE r == Append(q, e)
<1>1. Len(q) \in Nat /\ DOMAIN q = 1..Len(q)
  OBVIOUS
<1>2. r \in Seq(S) /\ DOMAIN r = 1..(Len(q) + 1)
  OBVIOUS
<1>3. (\A i \in 1..Len(q) : r[i] = q[i]) /\ r[Len(q) + 1] = e
  OBVIOUS
<1> HIDE DEF r
<1>4. \A i \in 1..(Len(q) + 1) : i \in 1..Len(q) \/ i = Len(q) + 1
  BY <1>1
<1>5. 1..Len(q) \subseteq 1..(Len(q) + 1) /\ Len(q) + 1 \in 1..(Len(q) + 1)
  BY <1>1
<1>6. Elements(r) = Elements(q) \cup {e}
  BY <1>1, <1>2, <1>3, <1>4, <1>5, Zenon DEF Elements
<1>7. Distinct(q) /\ e \notin Elements(q) => Distinct(r)
  BY <1>1, <1>2, <1>3, <1>4 DEF Distinct, Elements
<1> QED
  BY <1>2, <1>6, <1>7 DEF r

\* The empty array.
LEMMA EmptyDeck == Elements(<<>>) = {} /\ Distinct(<<>>)
  BY DEF Elements, Distinct

\* Two members make more than one.
LEMMA MoreThanOne ==
  ASSUME NEW S, IsFiniteSet(S), NEW x \in S, NEW y \in S, x # y
  PROVE  Cardinality(S) > 1
<1>1. Cardinality(S) \in Nat
  BY FS_CardinalityType
<1>2. Cardinality(S) # 0
  BY FS_EmptySet
<1>3. Cardinality(S) # 1
  BY FS_Singleton
<1> QED
  BY <1>1, <1>2, <1>3

-----------------------------------------------------------------------------
\* Types are preserved.
LEMMA TypeStep == TypeOK /\ [Next]_vars => TypeOK'
<1> SUFFICES ASSUME TypeOK, [Next]_vars
             PROVE  TypeOK'
  OBVIOUS
<1> USE DogsAssumption, BoundsAssumption, NoneAssumption
    DEF TypeOK, session, deck, Fault
<1>1. ASSUME NEW k \in Loaders, EmailSeen(k) PROVE TypeOK'
  BY <1>1 DEF EmailSeen
<1>2. ASSUME NEW k \in Loaders, DogsAnswered(k) PROVE TypeOK'
  BY <1>2 DEF DogsAnswered
<1>3. ASSUME Fault, Relaunch PROVE TypeOK'
  <2>1. loader' \in [Loaders -> {"none", "waiting", "asked", "loaded", "gone"}]
    BY <1>3 DEF Relaunch
  <2>2. task' \in [Tasks -> {"none", "owner", "score", "get", "set", "ended", "failed"}]
    BY <1>3 DEF Relaunch
  <2>3. <<>> \in Seq(Dogs)
    OBVIOUS
  <2>4. faults' \in 0..MaxFaults
    BY <1>3
  <2> HIDE DEF Fault
  <2> QED
    BY <1>3, <2>1, <2>2, <2>3, <2>4 DEF Relaunch
<1>4. ASSUME NEW t \in Tasks, OwnerAnswered(t) PROVE TypeOK'
  BY <1>4 DEF OwnerAnswered
<1>5. ASSUME NEW t \in Tasks, ScoreAnswered(t) PROVE TypeOK'
  BY <1>5 DEF ScoreAnswered
<1>6. ASSUME NEW t \in Tasks, RequestFailed(t) PROVE TypeOK'
  BY <1>6 DEF RequestFailed
<1>7. ASSUME NEW t \in Tasks, AppendGets(t) PROVE TypeOK'
  BY <1>7 DEF AppendGets
<1>8. ASSUME NEW t \in Tasks, AppendSets(t) PROVE TypeOK'
  <2>1. t[2] \in Dogs
    BY DEF Tasks
  <2>2. Append(array, t[2]) \in Seq(Dogs)
    BY <2>1, Appended
  <2> QED
    BY <1>8, <2>1, <2>2 DEF AppendSets
<1>9. CASE Restored
  <2>1. restoring' \subseteq {"delegate", "model"}
    BY <1>9 DEF Restored
  <2>2. ASSUME NEW user \in Emails, SetUser(user) PROVE TypeOK'
    BY <1>9, <2>1, <2>2 DEF Restored, SetUser
  <2>3. CASE UNCHANGED <<keychain, isLoggedIn, emailAddress, login, accounts>>
    BY <1>9, <2>1, <2>3 DEF Restored
  <2> QED
    BY <1>9, <2>2, <2>3 DEF Restored
<1>10. CASE DelegateRestored
  BY <1>10 DEF DelegateRestored, InDeck
<1>11. ASSUME NEW user \in Emails, SignedIn(user) PROVE TypeOK'
  BY <1>11 DEF SignedIn, SetUser
<1>12. CASE AccountFound
  BY <1>12 DEF AccountFound
<1>13. CASE signOut
  BY <1>13 DEF signOut, OnAppear, Unused
<1>14. CASE Save
  BY <1>14 DEF Save, OnAppear, Unused
<1>15. CASE UNCHANGED vars
  BY <1>15 DEF vars
<1> QED
  BY <1>1, <1>2, <1>3, <1>4, <1>5, <1>6, <1>7, <1>8, <1>9, <1>10,
     <1>11, <1>12, <1>13, <1>14, <1>15
  DEF Next, LoaderStep, TaskStep, DogsFailed, Killed, Idle

\* What a step can do to the deck and to the appends: the rest of the session
\* leaves them alone.
SessionStep ==
  /\ UNCHANGED <<deck, task>>
  /\ "delegate" \in restoring' <=> "delegate" \in restoring

\* Only answers, appends, the delegate and a relaunch touch the deck and its Tasks.
LEMMA DeckSteps ==
  ASSUME [Next]_vars
  PROVE  \/ \E k \in Loaders : DogsAnswered(k)
         \/ \E t \in Tasks : OwnerAnswered(t) \/ ScoreAnswered(t) \/ RequestFailed(t)
         \/ \E t \in Tasks : AppendGets(t) \/ AppendSets(t)
         \/ DelegateRestored
         \/ Relaunch
         \/ SessionStep
<1> USE DEF SessionStep, session
<1>1. ASSUME NEW k \in Loaders, EmailSeen(k) PROVE SessionStep
  BY <1>1 DEF EmailSeen
<1>2. CASE Restored
  BY <1>2 DEF Restored
<1>3. ASSUME NEW user \in Emails, SignedIn(user) PROVE SessionStep
  BY <1>3 DEF SignedIn
<1>4. CASE AccountFound
  BY <1>4 DEF AccountFound
<1>5. CASE signOut
  BY <1>5 DEF signOut
<1>6. CASE Save
  BY <1>6 DEF Save
<1>7. CASE UNCHANGED vars
  BY <1>7 DEF vars
<1> QED
  BY <1>1, <1>2, <1>3, <1>4, <1>5, <1>6, <1>7
  DEF Next, LoaderStep, TaskStep, DogsFailed, Killed, Idle

-----------------------------------------------------------------------------
(***************************************************************************)
(* The deck.                                                               *)
(***************************************************************************)
\* Before a handler begins to append nobody else does.
LEMMA OneAppendStep == TypeOK /\ OneAppend /\ [Next]_vars => OneAppend'
<1> SUFFICES ASSUME TypeOK, OneAppend, [Next]_vars
             PROVE  OneAppend'
  OBVIOUS
<1> USE DEF TypeOK, OneAppend, Appending
<1>1. ASSUME NEW k \in Loaders, DogsAnswered(k) PROVE OneAppend'
  BY <1>1 DEF DogsAnswered
<1>2. ASSUME NEW t \in Tasks, OwnerAnswered(t) \/ ScoreAnswered(t) \/ RequestFailed(t)
      PROVE  OneAppend'
  BY <1>2 DEF OwnerAnswered, ScoreAnswered, RequestFailed
<1>3. ASSUME NEW t \in Tasks, AppendGets(t) \/ AppendSets(t) PROVE OneAppend'
  BY <1>3 DEF AppendGets, AppendSets
<1>4. CASE DelegateRestored
  BY <1>4 DEF DelegateRestored
<1>5. CASE Relaunch
  BY <1>5 DEF Relaunch
<1>6. CASE SessionStep
  BY <1>6 DEF SessionStep
<1> QED
  BY <1>1, <1>2, <1>3, <1>4, <1>5, <1>6, DeckSteps

\* No dog gets a second card.
LEMMA DistinctStep ==
  TypeOK /\ OneAppend /\ NoCardTwice /\ AppendFresh /\ [Next]_vars => (NoCardTwice /\ AppendFresh)'
<1> SUFFICES ASSUME TypeOK, OneAppend, Distinct(cards), AppendFresh, [Next]_vars
             PROVE  Distinct(cards') /\ AppendFresh'
  BY DEF NoCardTwice, Distinct
<1>0. InDeck = Elements(cards) /\ InDeck' = Elements(cards')
  BY DEF InDeck, Elements
<1> USE DEF TypeOK, OneAppend, AppendFresh, Appending
<1>1. ASSUME NEW k \in Loaders, DogsAnswered(k) PROVE Distinct(cards') /\ AppendFresh'
  BY <1>0, <1>1 DEF DogsAnswered, deck
<1>2. ASSUME NEW t \in Tasks, OwnerAnswered(t) \/ ScoreAnswered(t) \/ RequestFailed(t)
      PROVE  Distinct(cards') /\ AppendFresh'
  BY <1>0, <1>2 DEF OwnerAnswered, ScoreAnswered, RequestFailed, deck
<1>3. ASSUME NEW t \in Tasks, AppendGets(t) PROVE Distinct(cards') /\ AppendFresh'
  BY <1>0, <1>3 DEF AppendGets
<1>4. ASSUME NEW t \in Tasks, AppendSets(t) PROVE Distinct(cards') /\ AppendFresh'
  <2>1. t[2] \in Dogs
    BY DEF Tasks
  <2>2. Distinct(cards')
    BY <1>4, <2>1, Appended DEF AppendSets
  <2>3. \A s \in Tasks : task'[s] \notin {"get", "set"}
    BY <1>4 DEF AppendSets
  <2> QED
    BY <2>2, <2>3
<1>5. CASE DelegateRestored
  BY <1>0, <1>5, EmptyDeck DEF DelegateRestored
<1>6. CASE Relaunch
  BY <1>0, <1>6 DEF Relaunch
<1>7. CASE SessionStep
  BY <1>0, <1>7 DEF SessionStep, deck
<1> QED
  BY <1>1, <1>2, <1>3, <1>4, <1>5, <1>6, <1>7, DeckSteps

\* No append overwrites another.
LEMMA KeptStep ==
  TypeOK /\ OneAppend /\ LostCardExplained /\ AppendKeeps /\ [Next]_vars
    => (LostCardExplained /\ AppendKeeps)'
<1> SUFFICES ASSUME TypeOK, OneAppend, LostCardExplained, AppendKeeps, [Next]_vars
             PROVE  LostCardExplained' /\ AppendKeeps'
  OBVIOUS
<1>0. InDeck = Elements(cards) /\ InDeck' = Elements(cards')
  BY DEF InDeck, Elements
<1> USE DEF TypeOK, OneAppend, LostCardExplained, AppendKeeps, Appending
<1>1. ASSUME NEW k \in Loaders, DogsAnswered(k) PROVE LostCardExplained' /\ AppendKeeps'
  BY <1>0, <1>1 DEF DogsAnswered, deck
<1>2. ASSUME NEW t \in Tasks, OwnerAnswered(t) \/ ScoreAnswered(t) \/ RequestFailed(t)
      PROVE  LostCardExplained' /\ AppendKeeps'
  BY <1>0, <1>2 DEF OwnerAnswered, ScoreAnswered, RequestFailed, deck
<1>3. ASSUME NEW t \in Tasks, AppendGets(t) PROVE LostCardExplained' /\ AppendKeeps'
  BY <1>0, <1>3 DEF AppendGets
<1>4. ASSUME NEW t \in Tasks, AppendSets(t) PROVE LostCardExplained' /\ AppendKeeps'
  <2>1. t[2] \in Dogs
    BY DEF Tasks
  <2>2. InDeck' = Elements(array) \cup {t[2]}
    BY <1>0, <1>4, <2>1, Appended DEF AppendSets
  <2>3. \A s \in Tasks : task'[s] # "set"
    BY <1>4 DEF AppendSets
  <2> QED
    BY <1>4, <2>2, <2>3 DEF AppendSets
<1>5. CASE DelegateRestored
  BY <1>0, <1>5 DEF DelegateRestored
<1>6. CASE Relaunch
  BY <1>0, <1>6 DEF Relaunch
<1>7. CASE SessionStep
  BY <1>0, <1>7 DEF SessionStep, deck
<1> QED
  BY <1>1, <1>2, <1>3, <1>4, <1>5, <1>6, <1>7, DeckSteps

\* The cards of earlier launches come back only in an append the removal fell into.
LEMMA OldStep ==
  TypeOK /\ OneAppend /\ OldCardsGone /\ AppendNew /\ [Next]_vars => (OldCardsGone /\ AppendNew)'
<1> SUFFICES ASSUME TypeOK, OneAppend, OldCardsGone, AppendNew, [Next]_vars
             PROVE  OldCardsGone' /\ AppendNew'
  OBVIOUS
<1>0. InDeck = Elements(cards) /\ InDeck' = Elements(cards')
  BY DEF InDeck, Elements
<1> USE DEF TypeOK, OneAppend, OldCardsGone, AppendNew, Appending, session
<1>1. ASSUME NEW k \in Loaders, DogsAnswered(k) PROVE OldCardsGone' /\ AppendNew'
  BY <1>0, <1>1 DEF DogsAnswered, deck
<1>2. ASSUME NEW t \in Tasks, OwnerAnswered(t) \/ ScoreAnswered(t) \/ RequestFailed(t)
      PROVE  OldCardsGone' /\ AppendNew'
  BY <1>0, <1>2 DEF OwnerAnswered, ScoreAnswered, RequestFailed, deck
<1>3. ASSUME NEW t \in Tasks, AppendGets(t) PROVE OldCardsGone' /\ AppendNew'
  BY <1>0, <1>3 DEF AppendGets
<1>4. ASSUME NEW t \in Tasks, AppendSets(t) PROVE OldCardsGone' /\ AppendNew'
  <2>1. t[2] \in Dogs
    BY DEF Tasks
  <2>2. InDeck' = Elements(array) \cup {t[2]}
    BY <1>0, <1>4, <2>1, Appended DEF AppendSets
  <2>3. \A s \in Tasks : task'[s] # "set"
    BY <1>4 DEF AppendSets
  <2> QED
    BY <1>4, <2>2, <2>3 DEF AppendSets
<1>5. CASE DelegateRestored
  <2>1. InDeck' = {}
    BY <1>0, <1>5, EmptyDeck DEF DelegateRestored
  <2>2. (\E t \in Tasks : task'[t] = "set") => torn'
    BY <1>5 DEF DelegateRestored
  <2> QED
    BY <2>1, <2>2
<1>6. CASE Relaunch
  BY <1>6 DEF Relaunch
<1>7. CASE SessionStep
  BY <1>0, <1>7 DEF SessionStep, deck
<1> QED
  BY <1>1, <1>2, <1>3, <1>4, <1>5, <1>6, <1>7, DeckSteps

-----------------------------------------------------------------------------
(***************************************************************************)
(* The accounts.                                                           *)
(***************************************************************************)
\* The email may be cleared only when no loader has gone on with it.
LEMMA AccountsStep == TypeOK /\ AccountsKnown /\ [Next]_vars => AccountsKnown'
<1> SUFFICES ASSUME TypeOK, AccountsKnown, [Next]_vars
             PROVE  AccountsKnown'
  OBVIOUS
<1> USE NoneAssumption DEF TypeOK, AccountsKnown, session
<1>0. ASSUME NEW user \in Emails, SetUser(user), UNCHANGED <<loader, task>> PROVE AccountsKnown'
  <2>1. IsFiniteSet(accounts \cup {user})
    BY FS_AddElement
  <2> QED
    BY <1>0, <2>1 DEF SetUser
<1>1. ASSUME NEW k \in Loaders, EmailSeen(k) PROVE AccountsKnown'
  BY <1>1 DEF EmailSeen
<1>2. ASSUME NEW k \in Loaders, DogsAnswered(k) PROVE AccountsKnown'
  BY <1>2 DEF DogsAnswered
<1>3. CASE Relaunch
  <2>1. \A k \in Loaders : loader'[k] # "asked"
    BY <1>3 DEF Relaunch
  <2>2. \A t \in Tasks : task'[t] # "owner"
    BY <1>3 DEF Relaunch
  <2> QED
    BY <1>3, <2>1, <2>2 DEF Relaunch
<1>4. ASSUME NEW t \in Tasks,
             OwnerAnswered(t) \/ ScoreAnswered(t) \/ RequestFailed(t)
               \/ AppendGets(t) \/ AppendSets(t)
      PROVE  AccountsKnown'
  BY <1>4 DEF OwnerAnswered, ScoreAnswered, RequestFailed, AppendGets, AppendSets
<1>5. CASE Restored
  <2>1. CASE UNCHANGED <<keychain, isLoggedIn, emailAddress, login, accounts>>
    BY <1>5, <2>1 DEF Restored
  <2>2. ASSUME NEW user \in Emails, SetUser(user) PROVE AccountsKnown'
    BY <1>0, <1>5, <2>2 DEF Restored
  <2> QED
    BY <1>5, <2>1, <2>2 DEF Restored
<1>6. CASE DelegateRestored
  BY <1>6 DEF DelegateRestored
<1>7. ASSUME NEW user \in Emails, SignedIn(user) PROVE AccountsKnown'
  BY <1>0, <1>7 DEF SignedIn
<1>8. CASE AccountFound
  BY <1>8 DEF AccountFound
<1>9. ASSUME OnAppear, UNCHANGED <<emailAddress, accounts, task>>, keychain' \in {None, keychain}
      PROVE  AccountsKnown'
  BY <1>9 DEF OnAppear, Unused
<1>10. CASE signOut \/ Save
  BY <1>9, <1>10 DEF signOut, Save
<1>11. CASE UNCHANGED vars
  BY <1>11 DEF vars
<1> QED
  BY <1>1, <1>2, <1>3, <1>4, <1>5, <1>6, <1>7, <1>8, <1>10, <1>11
  DEF Next, LoaderStep, TaskStep, DogsFailed, Killed, Idle

\* Accounts are never forgotten, not even by a relaunch.
LEMMA AccountsGrow == ASSUME [Next]_vars PROVE accounts \subseteq accounts'
<1> USE DEF session, SetUser
<1>1. ASSUME NEW k \in Loaders, LoaderStep(k) PROVE accounts \subseteq accounts'
  BY <1>1 DEF LoaderStep, EmailSeen, DogsAnswered
<1>2. CASE Relaunch
  BY <1>2 DEF Relaunch
<1>3. ASSUME NEW t \in Tasks, TaskStep(t) \/ RequestFailed(t) PROVE accounts \subseteq accounts'
  BY <1>3 DEF TaskStep, OwnerAnswered, ScoreAnswered, AppendGets, AppendSets, RequestFailed
<1>4. CASE Restored \/ DelegateRestored
  BY <1>4 DEF Restored, DelegateRestored
<1>5. ASSUME NEW user \in Emails, SignedIn(user) PROVE accounts \subseteq accounts'
  BY <1>5 DEF SignedIn
<1>6. CASE AccountFound \/ signOut \/ Save
  BY <1>6 DEF AccountFound, signOut, Save
<1>7. CASE UNCHANGED vars
  BY <1>7 DEF vars
<1> QED
  BY <1>1, <1>2, <1>3, <1>4, <1>5, <1>6, <1>7 DEF Next, DogsFailed, Killed, Idle

\* The test for the user's own dogs has an account to compare with.
LEMMA ForeignStep ==
  TypeOK /\ OneAppend /\ AccountsKnown /\ ForeignCards /\ [Next]_vars => ForeignCards'
<1> SUFFICES ASSUME TypeOK, OneAppend, AccountsKnown, ForeignCards, [Next]_vars
             PROVE  ForeignCards'
  OBVIOUS
<1>0. InDeck = Elements(cards) /\ InDeck' = Elements(cards')
  BY DEF InDeck, Elements
<1>grow. \A d : Foreign(d) => Foreign(d)'
  BY AccountsGrow DEF Foreign
<1> USE DEF TypeOK, ForeignCards
<1>1. ASSUME NEW k \in Loaders, DogsAnswered(k) PROVE ForeignCards'
  BY <1>0, <1>grow, <1>1 DEF DogsAnswered, deck
<1>2. ASSUME NEW t \in Tasks, OwnerAnswered(t) PROVE ForeignCards'
  <2>1. task'[t] = "score" => Foreign(t[2])
    BY <1>2 DEF OwnerAnswered, Foreign, AccountsKnown
  <2>2. task'[t] \in {"score", "ended"} /\ \A s \in Tasks : s # t => task'[s] = task[s]
    BY <1>2 DEF OwnerAnswered
  <2> QED
    BY <1>0, <1>grow, <1>2, <2>1, <2>2 DEF OwnerAnswered, deck
<1>3. ASSUME NEW t \in Tasks, ScoreAnswered(t) \/ RequestFailed(t) PROVE ForeignCards'
  BY <1>0, <1>grow, <1>3 DEF ScoreAnswered, RequestFailed, deck
<1>4. ASSUME NEW t \in Tasks, AppendGets(t) PROVE ForeignCards'
  BY <1>0, <1>grow, <1>4 DEF AppendGets
<1>5. ASSUME NEW t \in Tasks, AppendSets(t) PROVE ForeignCards'
  <2>1. t[2] \in Dogs
    BY DEF Tasks
  <2>2. InDeck' = Elements(array) \cup {t[2]}
    BY <1>0, <1>5, <2>1, Appended DEF AppendSets
  <2>3. \A s \in Tasks : task'[s] # "set"
    BY <1>5 DEF AppendSets, OneAppend, Appending
  <2> QED
    BY <1>grow, <1>5, <2>2, <2>3 DEF AppendSets
<1>6. CASE DelegateRestored
  BY <1>0, <1>grow, <1>6, EmptyDeck DEF DelegateRestored
<1>7. CASE Relaunch
  BY <1>0, <1>grow, <1>7 DEF Relaunch
<1>8. CASE SessionStep
  BY <1>0, <1>grow, <1>8 DEF SessionStep, deck
<1> QED
  BY <1>1, <1>2, <1>3, <1>4, <1>5, <1>6, <1>7, <1>8, DeckSteps

-----------------------------------------------------------------------------
\* The invariant holds of every reachable state.
THEOREM Invariance == Spec => []IInv
<1>1. Init => IInv
  <2> SUFFICES ASSUME Init PROVE IInv
    OBVIOUS
  <2>1. TypeOK
    <3>1. /\ loader \in [Loaders -> {"none", "waiting", "asked", "loaded", "gone"}]
          /\ task \in [Tasks -> {"none", "owner", "score", "get", "set", "ended", "failed"}]
      BY DEF Init
    <3>2. cards \in Seq(Dogs) /\ array \in Seq(Dogs) /\ faults \in 0..MaxFaults
      BY BoundsAssumption DEF Init
    <3> QED
      BY <3>1, <3>2 DEF Init, TypeOK
  <2>2. InDeck = {} /\ \A t \in Tasks : task[t] = "none"
    BY EmptyDeck DEF Init, InDeck, Elements
  <2>3. AccountsKnown
    BY <2>2, FS_EmptySet DEF Init, AccountsKnown
  <2> QED
    BY <2>1, <2>2, <2>3
    DEF IInv, Init, OneAppend, Appending, NoCardTwice, AppendFresh, LostCardExplained,
        AppendKeeps, OldCardsGone, AppendNew, ForeignCards
<1>2. IInv /\ [Next]_vars => IInv'
  BY TypeStep, OneAppendStep, DistinctStep, KeptStep, OldStep, AccountsStep, ForeignStep DEF IInv
<1> QED
  BY <1>1, <1>2, PTL DEF Spec

\* The fields, the loaders and the requests have their types.
THEOREM TypeCorrect == Spec => []TypeOK
<1>1. IInv => TypeOK
  BY DEF IInv
<1> QED
  BY <1>1, Invariance, PTL

\* However many loaders run, no dog has two cards.
THEOREM CardsAreDistinct == Spec => []NoCardTwice
<1>1. IInv => NoCardTwice
  BY DEF IInv
<1> QED
  BY <1>1, Invariance, PTL

\* A card stored since launch is in the deck, or the removal at launch took it.
THEOREM CardsAreKept == Spec => []LostCardExplained
<1>1. IInv => LostCardExplained
  BY DEF IInv
<1> QED
  BY <1>1, Invariance, PTL

\* Cards of earlier launches stay away once they are removed.
THEOREM OldCardsStayAway == Spec => []OldCardsGone
<1>1. IInv => OldCardsGone
  BY DEF IInv
<1> QED
  BY <1>1, Invariance, PTL

\* A user is offered a dog of their own only after a change of accounts.
THEOREM OwnDogs == Spec => []OwnDogExplained
<1>1. IInv => OwnDogExplained
  <2> SUFFICES ASSUME IInv, isLoggedIn, NEW d \in InDeck, OwnerOf[d] = emailAddress
               PROVE  Cardinality(accounts) > 1
    BY DEF OwnDogExplained
  <2>1. emailAddress \in accounts
    BY NoneAssumption DEF IInv, TypeOK, AccountsKnown
  <2>2. PICK x \in accounts : OwnerOf[d] # x
    BY DEF IInv, ForeignCards, Foreign
  <2>3. IsFiniteSet(accounts)
    BY DEF IInv, AccountsKnown
  <2> QED
    BY <2>1, <2>2, <2>3, MoreThanOne
<1> QED
  BY <1>1, Invariance, PTL
=============================================================================
