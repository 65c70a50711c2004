---------------------------- MODULE DBConnection ----------------------------
(***************************************************************************)
(* The singleton DBConnection and the request threads that share it.       *)
(*                                                                         *)
(* Every endpoint of the API fetches the singleton and goes through its    *)
(* one Connection property: IsConnect assigns a new MySqlConnection to it  *)
(* and opens whatever it then holds, commands are built on whatever it     *)
(* holds at that time, and Close closes whatever it holds at that time.    *)
(* Nothing is locked, so a request can open, use or close the connection   *)
(* of another.                                                             *)
(*                                                                         *)
(* An endpoint is the sequence of the operations it performs on these      *)
(* objects, in the order of its code; where the data decide what comes     *)
(* next, there is one sequence per case.  The data themselves are in       *)
(* SwipeMatch and Registration.  A database is configured here: without    *)
(* one no endpoint does anything.                                          *)
(***************************************************************************)
EXTENDS Integers, Sequences, FiniteSets

CONSTANTS
  Requests,      \* the requests, each received at most once
  Endpoints,     \* the endpoints called, a subset of DOMAIN Scripts
  MaxPoolSize,   \* connections the driver's pool hands out (external)
  MaxFaults,     \* bound on exceptions that are not due to the sharing
  Null           \* C#'s null

ASSUME PoolAssumption == MaxPoolSize \in Nat \ {0}
ASSUME FaultsAssumption == MaxFaults \in Nat

VARIABLES
  _instance,    \* the static field: the request that created it, or Null
  Connection,   \* the property of each DBConnection object
  state,        \* the state of each MySqlConnection
  reader,       \* the request with an open reader on each MySqlConnection
  endpoint,     \* what each request calls, Null before it is received
  todo,         \* the operations each request has left
  DB,           \* the local variable DB of each request
  connects,     \* how many MySqlConnections each request has created
  cmd,          \* the MySqlConnection of each request's last command
  outcome,      \* has an exception been thrown, and was it caught
  overlapped,   \* history: was another request in progress meanwhile
  faulted,      \* history: did an external exception hit the request
  faults        \* external exceptions so far

shared == <<_instance, Connection, state, reader>>
locals == <<DB, connects, cmd>>
history == <<overlapped, faulted, faults>>
vars == <<shared, endpoint, todo, locals, outcome, history>>

\* The MySqlConnection objects: the k-th that request r creates.
MaxConnects == 3
Connections == Requests \X (1..MaxConnects)

ASSUME NullAssumption == Null \notin Requests \cup Connections \cup Endpoints

-----------------------------------------------------------------------------
(***************************************************************************)
(* The endpoints.  Operations whose name begins with "try" are inside a    *)
(* try block whose handler calls DB.Close() and returns; an exception of   *)
(* any other operation reaches the framework.                              *)
(***************************************************************************)
Instance == <<"checkInstance", "createInstance", "returnInstance">>
IsConnect == <<"newConnection", "open">>
Query == <<"command", "execute", "read">>
TryQuery == <<"command", "tryExecute", "tryRead">>

\* A select whose rows are all read outside any try block.
ReadAll == {Instance \o IsConnect \o Query \o <<"close">>}

GetOwners == ReadAll
GetDogs == ReadAll
GetDogByEmail == ReadAll
GetDogId == ReadAll
GetMatchingInfo == ReadAll
GetDogIdFromOwner == ReadAll
GetMatchInfo == ReadAll
GetMessageInfo == ReadAll
GetInefficientMessageInfo == ReadAll

\* A select whose row, if there is one, is found outside and decoded inside a
\* try block.
ReadOne == {Instance \o IsConnect \o Query \o rest :
              rest \in {<<"close">>, <<"tryRead", "close">>}}

\* Mutant: the connection is not closed on the way out.
BadIdNoClose == {Instance \o IsConnect}

\* The id -1 is not looked up.
BadId == {Instance \o IsConnect \o <<"close">>}

GetOwnerEmail == ReadOne
GetOwnerID == ReadOne \cup BadId
GetID == ReadOne \cup BadId

\* Dog.CreateDog, then Dog.GetNewDogId.
CreateDog == {Instance \o IsConnect \o TryQuery \o <<"close">>
              \o Instance \o IsConnect \o TryQuery \o <<"close">>}

\* Mutant: the new owner is read back once more, on a connection of its own.
CreateOwnerTwice ==
  {Instance \o IsConnect \o Query \o <<"close">>
   \o IsConnect \o TryQuery \o <<"close">>
   \o Instance \o IsConnect \o Query \o <<"close">>
   \o Instance \o IsConnect \o Query \o <<"close">>}

\* Owner.AddOwner: an email already there ends it; otherwise the connection
\* is not closed before IsConnect is called again.  Then Owner.GetNewID.
CreateOwner == {Instance \o IsConnect \o Query \o <<"close">>,
                Instance \o IsConnect \o Query
                \o IsConnect \o TryQuery \o <<"close">>
                \o Instance \o IsConnect \o Query \o <<"close">>}

\* Mutant: the reader of the insert is not closed.
SendSwipeNoReaderClose ==
  {Instance \o IsConnect \o TryQuery \o TryQuery \o <<"closeReader", "close">>}

\* Swipe.SendSwipe: the insert; for a like, the select; for a match, the
\* second insert, whose reader is closed unread.
SendSwipe ==
  LET Insert == Instance \o IsConnect \o TryQuery \o <<"closeReader">>
      Select == TryQuery \o <<"closeReader">>
      Match  == <<"command", "tryExecute", "closeReader">>
  IN  {Insert \o <<"close">>,
       Insert \o Select \o <<"close">>,
       Insert \o Select \o Match \o <<"close">>}

\* SwipeListController: three selects whose fields are decoded inside try
\* blocks (none when they have no rows), of the first only one row; a select
\* without such blocks; and one call of the matching service per dog.
ListSwipes(rows, http) ==
  Instance \o IsConnect
  \o Query \o rows[1] \o <<"closeReader">>
  \o Query \o rows[2] \o <<"closeReader">>
  \o Query \o rows[3] \o <<"closeReader">>
  \o Query \o <<"closeReader">> \o http \o <<"close">>

GetListSwipes ==
  LET Row  == {<<>>, <<"tryRead">>}
      Rows == {<<>>, <<"tryRead", "read">>}
  IN  {ListSwipes(rows, http) : rows \in Row \X Rows \X Rows, http \in {<<>>, <<"http">>}}

Scripts == [GetOwners |-> GetOwners, GetDogs |-> GetDogs, GetDogByEmail |-> GetDogByEmail,
            GetDogId |-> GetDogId, GetMatchingInfo |-> GetMatchingInfo,
            GetDogIdFromOwner |-> GetDogIdFromOwner, GetMatchInfo |-> GetMatchInfo,
            GetMessageInfo |-> GetMessageInfo,
            GetInefficientMessageInfo |-> GetInefficientMessageInfo,
            GetOwnerEmail |-> GetOwnerEmail, GetOwnerID |-> GetOwnerID, GetID |-> GetID,
            CreateDog |-> CreateDog, CreateOwner |-> CreateOwner,
            SendSwipe |-> SendSwipe, GetListSwipes |-> GetListSwipes]

ASSUME EndpointsAssumption == Endpoints \subseteq DOMAIN Scripts

-----------------------------------------------------------------------------
Op(r) == Head(todo[r])
At(r, ops) == todo[r] # <<>> /\ Op(r) \in ops
Active == {r \in Requests : todo[r] # <<>>}
Tries == {"tryExecute", "tryRead"}

\* The operation returns and the request goes on.
Continue(r) ==
  /\ todo' = [todo EXCEPT ![r] = Tail(@)]
  /\ UNCHANGED outcome

\* The operation throws: a handler closes the connection, or the framework
\* answers 500.
Throw(r) ==
  IF Op(r) \in Tries
  THEN /\ todo' = [todo EXCEPT ![r] = <<"close">>]
       /\ outcome' = [outcome EXCEPT ![r] = "caught"]
  ELSE /\ todo' = [todo EXCEPT ![r] = <<>>]
       /\ outcome' = [outcome EXCEPT ![r] = "uncaught"]

Open == {c \in Connections : state[c] = "open"}

TypeOK ==
  /\ _instance \in Requests \cup {Null}
  /\ Connection \in [Requests -> Connections \cup {Null}]
  /\ state \in [Connections -> {"none", "new", "open", "closed"}]
  /\ reader \in [Connections -> Requests \cup {Null}]
  /\ endpoint \in [Requests -> Endpoints \cup {Null}]
  /\ DB \in [Requests -> Requests \cup {Null}]
  /\ connects \in [Requests -> 0..MaxConnects]
  /\ cmd \in [Requests -> Connections \cup {Null}]
  /\ outcome \in [Requests -> {"normal", "caught", "uncaught"}]
  /\ overlapped \in [Requests -> BOOLEAN]
  /\ faulted \in [Requests -> BOOLEAN]
  /\ faults \in 0..MaxFaults
  /\ Cardinality(Open) <= MaxPoolSize

Init ==
  /\ _instance = Null
  /\ Connection = [i \in Requests |-> Null]
  /\ state = [c \in Connections |-> "none"]
  /\ reader = [c \in Connections |-> Null]
  /\ endpoint = [r \in Requests |-> Null]
  /\ todo = [r \in Requests |-> <<>>]
  /\ DB = [r \in Requests |-> Null]
  /\ connects = [r \in Requests |-> 0]
  /\ cmd = [r \in Requests |-> Null]
  /\ outcome = [r \in Requests |-> "normal"]
  /\ overlapped = [r \in Requests |-> FALSE]
  /\ faulted = [r \in Requests |-> FALSE]
  /\ faults = 0

Receive(r, e) ==
  /\ endpoint[r] = Null
  /\ endpoint' = [endpoint EXCEPT ![r] = e]
  /\ \E script \in Scripts[e] : todo' = [todo EXCEPT ![r] = script]
  /\ overlapped' = [q \in Requests |->
                      IF q = r THEN Active # {} ELSE overlapped[q] \/ q \in Active]
  /\ UNCHANGED <<shared, locals, outcome, faulted, faults>>

\* if (_instance == null)
CheckInstance(r) ==
  /\ At(r, {"checkInstance"})
  /\ todo' = [todo EXCEPT ![r] = IF _instance = Null THEN Tail(@) ELSE Tail(Tail(@))]
  /\ UNCHANGED <<shared, endpoint, locals, outcome, history>>

\* _instance = new DBConnection();
CreateInstance(r) ==
  /\ At(r, {"createInstance"})
  /\ _instance' = r
  /\ Continue(r)
  /\ UNCHANGED <<Connection, state, reader, endpoint, locals, history>>

\* return _instance; the field is read again.
ReturnInstance(r) ==
  /\ At(r, {"returnInstance"})
  /\ DB' = [DB EXCEPT ![r] = _instance]
  /\ Continue(r)
  /\ UNCHANGED <<shared, endpoint, connects, cmd, history>>

\* Connection = new MySqlConnection(connstring);
NewConnection(r) ==
  /\ At(r, {"newConnection"})
  /\ connects' = [connects EXCEPT ![r] = @ + 1]
  /\ Connection' = [Connection EXCEPT ![DB[r]] = <<r, connects[r] + 1>>]
  /\ state' = [state EXCEPT ![<<r, connects[r] + 1>>] = "new"]
  /\ Continue(r)
  /\ UNCHANGED <<_instance, reader, endpoint, DB, cmd, history>>

\* Connection.Open(); the driver refuses a connection that is open already.
OpenConnection(r) ==
  /\ At(r, {"open"})
  /\ LET c == Connection[DB[r]]
     IN  \/ /\ state[c] # "open"
            /\ Cardinality(Open) < MaxPoolSize
            /\ state' = [state EXCEPT ![c] = "open"]
            /\ Continue(r)
            /\ UNCHANGED faulted
         \/ /\ state[c] = "open"
            /\ Throw(r)
            /\ UNCHANGED <<state, faulted>>
         \/ /\ state[c] # "open"
            /\ Cardinality(Open) >= MaxPoolSize
            /\ Throw(r)
            /\ faulted' = [faulted EXCEPT ![r] = TRUE]
            /\ UNCHANGED state
  /\ UNCHANGED <<_instance, Connection, reader, endpoint, locals, overlapped, faults>>

\* new MySqlCommand(query, DB.Connection)
Command(r) ==
  /\ At(r, {"command"})
  /\ cmd' = [cmd EXCEPT ![r] = Connection[DB[r]]]
  /\ Continue(r)
  /\ UNCHANGED <<shared, endpoint, DB, connects, history>>

\* cmd.ExecuteReader(); the driver refuses a connection that is not open or
\* has an open reader.
Execute(r) ==
  /\ At(r, {"execute", "tryExecute"})
  /\ IF state[cmd[r]] = "open" /\ reader[cmd[r]] = Null
     THEN reader' = [reader EXCEPT ![cmd[r]] = r] /\ Continue(r)
     ELSE Throw(r) /\ UNCHANGED reader
  /\ UNCHANGED <<_instance, Connection, state, endpoint, locals, history>>

\* reader.Read() and reader.GetString(..): an exception if the reader was
\* closed, which closing its connection does.
Read(r) ==
  /\ At(r, {"read", "tryRead"})
  /\ IF reader[cmd[r]] = r THEN Continue(r) ELSE Throw(r)
  /\ UNCHANGED <<shared, endpoint, locals, history>>

\* reader.Close(); closing a closed reader does nothing.
CloseReader(r) ==
  /\ At(r, {"closeReader"})
  /\ reader' = IF reader[cmd[r]] = r THEN [reader EXCEPT ![cmd[r]] = Null] ELSE reader
  /\ Continue(r)
  /\ UNCHANGED <<_instance, Connection, state, endpoint, locals, history>>

\* The call of the matching service; GetResponse throws on any failure, and
\* so does Double.Parse on an answer that is not a number.
CallService(r) ==
  /\ At(r, {"http"})
  /\ Continue(r)
  /\ UNCHANGED <<shared, endpoint, locals, history>>

\* Mutant: Close also forgets the connection.
CloseAndForget(r) ==
  /\ At(r, {"close"})
  /\ LET c == Connection[DB[r]]
     IN  /\ state' = [state EXCEPT ![c] = "closed"]
         /\ reader' = [reader EXCEPT ![c] = Null]
         /\ Connection' = [Connection EXCEPT ![DB[r]] = Null]
  /\ Continue(r)
  /\ UNCHANGED <<_instance, endpoint, locals, history>>

\* Connection.Close(); also closes the connection's reader.
Close(r) ==
  /\ At(r, {"close"})
  /\ LET c == Connection[DB[r]]
     IN  /\ state' = [state EXCEPT ![c] = "closed"]
         /\ reader' = [reader EXCEPT ![c] = Null]
  /\ Continue(r)
  /\ UNCHANGED <<_instance, Connection, endpoint, locals, history>>

\* The database, the network or the matching service fails.
Fault(r) ==
  /\ At(r, {"open", "execute", "tryExecute", "read", "tryRead", "http"})
  /\ faults < MaxFaults
  /\ faults' = faults + 1
  /\ faulted' = [faulted EXCEPT ![r] = TRUE]
  /\ Throw(r)
  /\ UNCHANGED <<shared, endpoint, locals, overlapped>>

Step(r) ==
  \/ CheckInstance(r) \/ CreateInstance(r) \/ ReturnInstance(r)
  \/ NewConnection(r) \/ OpenConnection(r)
  \/ Command(r) \/ Execute(r) \/ Read(r) \/ CloseReader(r)
  \/ CallService(r)
  \/ Close(r)
  \/ Fault(r)

\* Every request of the instance has been answered.
Finished ==
  /\ Active = {} /\ \A r \in Requests : endpoint[r] # Null
  /\ UNCHANGED vars

Next ==
  \/ \E r \in Requests, e \in Endpoints : Receive(r, e)
  \/ \E r \in Requests : Step(r)
  \/ Finished

Spec == Init /\ [][Next]_vars

-----------------------------------------------------------------------------
\* However the threads race for the singleton and for its connection, no
\* thread dereferences null: once IsConnect has returned true to a request,
\* the DBConnection it holds has a connection to open and to close.
NoNullDereference ==
  \A r \in Requests :
    /\ At(r, {"newConnection"}) => DB[r] # Null
    /\ At(r, {"open", "command", "close"}) => DB[r] # Null /\ Connection[DB[r]] # Null

\* An endpoint called on its own does not get in its own way: no operation of
\* the driver throws unless another request was in progress at some time, or
\* the database, the pool or the matching service failed it.
FailureExplained ==
  \A r \in Requests : outcome[r] # "normal" => overlapped[r] \/ faulted[r]

\* Which connections stay open behind an answered request: only AddOwner's
\* first one, those of a request whose exception nobody caught, and those of a
\* request that was not alone.
LeakExplained ==
  \A c \in Open :
    LET r == c[1]
    IN  r \notin Active =>
          \/ endpoint[r] = "CreateOwner" /\ c[2] = 1
          \/ outcome[r] = "uncaught"
          \/ overlapped[r]
=============================================================================
