---------------------------- MODULE Registration ----------------------------
(***************************************************************************)
(* POST /Owner and POST /Dog: OwnerController.Create with Owner.AddOwner   *)
(* and Owner.GetNewID, DogController.Create with Dog.CreateDog and         *)
(* Dog.GetNewDogId.                                                        *)
(*                                                                         *)
(* Both controllers insert a row and then read its key back with a second  *)
(* select by email or by owner.  AddOwner looks for the email first.  Each *)
(* statement commits on its own, so the statements of concurrent requests  *)
(* interleave.  With no database configured IsConnect returns false, every *)
(* statement is skipped, and the request is answered 201 all the same.     *)
(*                                                                         *)
(* The schema is not in the repository (external): whether owners.email    *)
(* has a unique index and whether dogs.owner_id is a foreign key is left   *)
(* open.                                                                   *)
(***************************************************************************)
EXTENDS Integers

CONSTANTS
  Emails,        \* the email addresses of owners
  OwnerPosts,    \* the POST /Owner requests, each received at most once
  DogPosts,      \* the POST /Dog requests, each received at most once
  MaxFaults      \* bound on the exceptions thrown by the database

ASSUME FaultsAssumption == MaxFaults \in Nat
ASSUME PostsAssumption ==
  /\ OwnerPosts \cap DogPosts = {}
  /\ Emails \cap OwnerPosts = {}
  /\ "none" \notin OwnerPosts \cup DogPosts \cup Emails

Requests == OwnerPosts \cup DogPosts

\* An id no row has: the -1 of the constructors, the 0 the app sends.
NoId == "none"

VARIABLES
  configured,    \* is PUPPY_LOVE_DB_NAME set in the server's environment
  uniqueEmail,   \* external: is there a unique index on owners.email
  foreignKey,    \* external: is dogs.owner_id a foreign key
  owners, dogs,  \* the tables
  pc,            \* the next statement of each request
  body,          \* the email of a POST /Owner, the OwnerID of a POST /Dog
  id,            \* the OwnerID or DogID the request is answered with
  response,      \* the status each request was answered with
  before,        \* history: the requests answered before this one arrived
  faulted,       \* history: the requests the database failed
  faults         \* exceptions thrown so far

schema == <<configured, uniqueEmail, foreignKey>>
tables == <<owners, dogs>>
vars == <<schema, tables, pc, body, id, response, before, faulted, faults>>

Labels == {"new", "checkEmail", "insertOwner", "getNewID", "insertDog",
           "getNewDogId", "done"}

\* The key MySQL gives a row: a request inserts at most one, so the request
\* stands for it.
OwnerRow(r) == [owner_id |-> r, email |-> body[r]]
DogRow(r) == [dog_id |-> r, owner_id |-> body[r]]

\* Mutant: the select by email has lost its where clause.
OwnersAll(email) == {w.owner_id : w \in owners}

OwnersWith(email) == {w.owner_id : w \in {v \in owners : v.email = email}}
DogsOf(owner) == {w.dog_id : w \in {v \in dogs : v.owner_id = owner}}

Answered == {r \in Requests : pc[r] = "done"}

TypeOK ==
  /\ configured \in BOOLEAN
  /\ uniqueEmail \in BOOLEAN
  /\ foreignKey \in BOOLEAN
  /\ owners \subseteq [owner_id : OwnerPosts, email : Emails]
  /\ dogs \subseteq [dog_id : DogPosts, owner_id : OwnerPosts \cup {NoId}]
  /\ pc \in [Requests -> Labels]
  /\ body \in [Requests -> Emails \cup OwnerPosts \cup {NoId}]
  /\ id \in [Requests -> Requests \cup {NoId}]
  /\ response \in [Requests -> {"none", "201", "400", "500"}]
  /\ before \in [Requests -> SUBSET Requests]
  /\ faulted \in SUBSET Requests
  /\ faults \in 0..MaxFaults

Init ==
  /\ configured \in BOOLEAN
  /\ uniqueEmail \in BOOLEAN
  /\ foreignKey \in BOOLEAN
  /\ owners = {}
  /\ dogs = {}
  /\ pc = [r \in Requests |-> "new"]
  /\ body = [r \in Requests |-> NoId]
  /\ id = [r \in Requests |-> NoId]
  /\ response = [r \in Requests |-> "none"]
  /\ before = [r \in Requests |-> {}]
  /\ faulted = {}
  /\ faults = 0

Goto(r, l) == pc' = [pc EXCEPT ![r] = l] /\ UNCHANGED response

Answer(r, status) ==
  /\ pc' = [pc EXCEPT ![r] = "done"]
  /\ response' = [response EXCEPT ![r] = status]

\* The database fails a statement of r.
Throw(r) ==
  /\ faults < MaxFaults
  /\ faults' = faults + 1
  /\ faulted' = faulted \cup {r}

NoThrow == UNCHANGED <<faulted, faults>>

\* The framework binds the body and calls the controller.
Receive(r, b, first) ==
  /\ pc[r] = "new"
  /\ Goto(r, first)
  /\ body' = [body EXCEPT ![r] = b]
  /\ before' = [before EXCEPT ![r] = Answered]
  /\ UNCHANGED <<schema, tables, id>> /\ NoThrow

ReceiveOwner(r, email) == r \in OwnerPosts /\ Receive(r, email, "checkEmail")

\* The client only knows the ids it was answered with, or sends none.
ReceiveDog(r, owner) ==
  /\ r \in DogPosts
  /\ owner \in {id[q] : q \in OwnerPosts \cap Answered} \cup {NoId}
  /\ Receive(r, owner, "insertDog")

\* IsConnect returns false: the insert and the select of the key are both
\* skipped and report success, the id left as it was posted.
NoDatabase(r) ==
  /\ pc[r] \in {"checkEmail", "insertDog"} /\ ~configured
  /\ Answer(r, "201")
  /\ UNCHANGED <<schema, tables, body, id, before>> /\ NoThrow

-----------------------------------------------------------------------------
(***************************************************************************)
(* Owner.AddOwner and Owner.GetNewID.                                      *)
(***************************************************************************)
\* Mutant: AddOwner does not look for the email.
CheckEmailSkipped(r) ==
  /\ pc[r] = "checkEmail" /\ configured
  /\ Goto(r, "insertOwner")
  /\ UNCHANGED <<schema, tables, body, id, before>> /\ NoThrow

\* Mutant: AddOwner refuses when any owner is registered.
CheckEmailAny(r) ==
  /\ pc[r] = "checkEmail" /\ configured
  /\ IF owners # {} THEN Answer(r, "400") ELSE Goto(r, "insertOwner")
  /\ UNCHANGED <<schema, tables, body, id, before>> /\ NoThrow

\* The select of AddOwner.
CheckEmail(r) ==
  /\ pc[r] = "checkEmail" /\ configured
  /\ IF OwnersWith(body[r]) # {} THEN Answer(r, "400") ELSE Goto(r, "insertOwner")
  /\ UNCHANGED <<schema, tables, body, id, before>> /\ NoThrow

\* The insert of AddOwner; the index, if there is one, refuses a duplicate
\* and the exception is caught.
InsertOwner(r) ==
  /\ pc[r] = "insertOwner"
  /\ \/ /\ uniqueEmail /\ OwnersWith(body[r]) # {}
        /\ Answer(r, "400")
        /\ UNCHANGED owners
     \/ /\ ~(uniqueEmail /\ OwnersWith(body[r]) # {})
        /\ owners' = owners \cup {OwnerRow(r)}
        /\ Goto(r, "getNewID")
  /\ UNCHANGED <<schema, dogs, body, id, before>> /\ NoThrow

\* IsConnect throws (500), or the statement or its reader does (400), the
\* insert possibly committed.
InsertOwnerThrows(r) ==
  /\ pc[r] = "insertOwner"
  /\ Throw(r)
  /\ \/ Answer(r, "500") /\ UNCHANGED owners
     \/ Answer(r, "400") /\ UNCHANGED owners
     \/ /\ Answer(r, "400")
        /\ ~(uniqueEmail /\ OwnersWith(body[r]) # {})
        /\ owners' = owners \cup {OwnerRow(r)}
  /\ UNCHANGED <<schema, dogs, body, id, before>>

\* GetNewID takes the first row with the email, in whatever order they come.
GetNewID(r) ==
  /\ pc[r] = "getNewID"
  /\ IF OwnersWith(body[r]) # {}
     THEN /\ \E o \in OwnersWith(body[r]) : id' = [id EXCEPT ![r] = o]
          /\ Answer(r, "201")
     ELSE Answer(r, "400") /\ UNCHANGED id
  /\ UNCHANGED <<schema, tables, body, before>> /\ NoThrow

\* Neither select of an owner request is inside a try block.
SelectOwnerThrows(r) ==
  /\ pc[r] \in {"checkEmail", "getNewID"} /\ configured
  /\ Throw(r)
  /\ Answer(r, "500")
  /\ UNCHANGED <<schema, tables, body, id, before>>

-----------------------------------------------------------------------------
(***************************************************************************)
(* Dog.CreateDog and Dog.GetNewDogId.                                      *)
(***************************************************************************)
HasOwner(r) == \E w \in owners : w.owner_id = body[r]

InsertDog(r) ==
  /\ pc[r] = "insertDog" /\ configured
  /\ \/ /\ foreignKey /\ ~HasOwner(r)
        /\ Answer(r, "400")
        /\ UNCHANGED dogs
     \/ /\ foreignKey => HasOwner(r)
        /\ dogs' = dogs \cup {DogRow(r)}
        /\ Goto(r, "getNewDogId")
  /\ UNCHANGED <<schema, owners, body, id, before>> /\ NoThrow

InsertDogThrows(r) ==
  /\ pc[r] = "insertDog" /\ configured
  /\ Throw(r)
  /\ \/ Answer(r, "500") /\ UNCHANGED dogs
     \/ Answer(r, "400") /\ UNCHANGED dogs
     \/ /\ Answer(r, "400")
        /\ foreignKey => HasOwner(r)
        /\ dogs' = dogs \cup {DogRow(r)}
  /\ UNCHANGED <<schema, owners, body, id, before>>

\* Mutant: the select has lost its where clause.
GetNewDogIdAny(r) ==
  /\ pc[r] = "getNewDogId"
  /\ \E d \in {w.dog_id : w \in dogs} : id' = [id EXCEPT ![r] = d]
  /\ Answer(r, "201")
  /\ UNCHANGED <<schema, tables, body, before>> /\ NoThrow

\* GetNewDogId takes the first dog of the owner; it returns true, DogID
\* unchanged, when there is none.
GetNewDogId(r) ==
  /\ pc[r] = "getNewDogId"
  /\ \E d \in IF DogsOf(body[r]) = {} THEN {id[r]} ELSE DogsOf(body[r]) :
       id' = [id EXCEPT ![r] = d]
  /\ Answer(r, "201")
  /\ UNCHANGED <<schema, tables, body, before>> /\ NoThrow

\* IsConnect is outside the try block, the select inside.
GetNewDogIdThrows(r) ==
  /\ pc[r] = "getNewDogId"
  /\ Throw(r)
  /\ Answer(r, "500") \/ Answer(r, "400")
  /\ UNCHANGED <<schema, tables, body, id, before>>

-----------------------------------------------------------------------------
Step(r) ==
  \/ NoDatabase(r)
  \/ CheckEmail(r) \/ InsertOwner(r) \/ InsertOwnerThrows(r)
  \/ GetNewID(r) \/ SelectOwnerThrows(r)
  \/ InsertDog(r) \/ InsertDogThrows(r)
  \/ GetNewDogId(r) \/ GetNewDogIdThrows(r)

\* Every request of the instance has been answered.
Finished == Answered = Requests /\ UNCHANGED vars

Next ==
  \/ \E r \in Requests, e \in Emails : ReceiveOwner(r, e)
  \/ \E r \in Requests, o \in OwnerPosts \cup {NoId} : ReceiveDog(r, o)
  \/ \E r \in Requests : Step(r)
  \/ Finished

Spec == Init /\ [][Next]_vars

-----------------------------------------------------------------------------
Overlapped(p, q) == p \notin before[q] /\ q \notin before[p]

Created(r) == r \in {w.owner_id : w \in owners} \cup {w.dog_id : w \in dogs}

\* AddOwner looks for the email and inserts in two steps.  Two owners with one
\* email only come from two requests in progress at the same time, and only
\* where no index prevents it; in particular, sending the request again after
\* an error never registers the owner twice.
OneOwnerPerEmail ==
  \A p, q \in OwnerPosts :
    /\ p # q /\ body[p] = body[q]
    /\ Created(p) /\ Created(q)
    => Overlapped(p, q) /\ ~uniqueEmail

\* With a database configured, the OwnerID a sign-up is answered with is the
\* id of its own row, unless another request registered the same email.
OwnerIdIsOwn ==
  \A r \in OwnerPosts :
    configured /\ response[r] = "201" =>
      /\ id[r] \in OwnersWith(body[r])
      /\ id[r] = r \/ \E q \in OwnerPosts \ {r} : Created(q) /\ body[q] = body[r]

\* With a database configured, the DogID a request is answered with is a dog
\* of its owner: its own row, unless another dog was posted for the same owner.
DogIdIsOwn ==
  \A r \in DogPosts :
    configured /\ response[r] = "201" =>
      /\ id[r] \in DogsOf(body[r])
      /\ id[r] = r \/ \E q \in DogPosts \ {r} : Created(q) /\ body[q] = body[r]

\* A sign-up is refused with 400 only because the email is registered by
\* another request or the database failed: GetNewID never misses the row
\* that AddOwner has just inserted.
RejectionExplained ==
  \A r \in OwnerPosts :
    response[r] = "400" =>
      r \in faulted \/ \E q \in OwnerPosts \ {r} : Created(q) /\ body[q] = body[r]

\* What the comment in DogController.Create says where GetNewDogId has failed
\* and the action answers 400: "Owner was not created".  Read literally, the
\* owner is missing; read as the same words in OwnerController are meant, the
\* object of this request is.
NotCreatedWhenRefused ==
  [][\A r \in DogPosts :
       pc[r] = "getNewDogId" /\ response'[r] = "400" => ~HasOwner(r) \/ ~Created(r)]_vars
=============================================================================
