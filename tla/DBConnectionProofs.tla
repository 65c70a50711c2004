------------------------- MODULE DBConnectionProofs -------------------------
(***************************************************************************)
(* Proofs about DBConnection, for any number of requests and exceptions    *)
(* and any pool.                                                           *)
(***************************************************************************)
EXTENDS DBConnection, FiniteSetTheorems, TLAPS

(***************************************************************************)
(* What the scripts have in common.                                        *)
(***************************************************************************)
Ops == {"checkInstance", "createInstance", "returnInstance", "newConnection", "open", "command",
        "execute", "tryExecute", "read", "tryRead", "closeReader", "http", "close"}

\* The operations that fetch the singleton, and what comes before the connection is there.
Fetching == {"checkInstance", "createInstance", "returnInstance"}
Connecting == Fetching \cup {"newConnection"}

\* Which operations may come after one.
After(op) ==
  CASE op = "checkInstance" -> {"createInstance"}
    [] op = "createInstance" -> {"returnInstance"}
    [] op = "returnInstance" -> {"newConnection"}
    [] op = "newConnection" -> {"open"}
    [] op = "open" -> {"command", "close"}
    [] op = "command" -> {"execute", "tryExecute"}
    [] op = "execute" -> {"read"}
    [] op = "tryExecute" -> {"tryRead", "closeReader"}
    [] op = "read" -> {"tryRead", "closeReader", "close"}
    [] op = "tryRead" -> {"read", "closeReader", "close"}
    [] op = "closeReader" -> {"command", "http", "close"}
    [] op = "http" -> {"close"}
    [] op = "close" -> {"checkInstance"}

\* A second connection is created while the first is open.
Reconnect(x, y) == x = "read" /\ y = "newConnection"

\* What endpoint e may do next; only AddOwner reconnects.
Follows(e, x, y) == y \in After(x) \/ (e = "CreateOwner" /\ Reconnect(x, y))
Linked(t, e) == \A i \in 1..(Len(t) - 1) : Follows(e, t[i], t[i + 1])

\* The connections still to be created.
Ahead(t) == {i \in 1..Len(t) : t[i] = "newConnection"}

\* They can be numbered from n + 1 to m, in their order, so that only the
\* second is created while another is open.
Numbering(f, t) ==
  /\ \A i, j \in Ahead(t) : i < j => f[i] < f[j]
  /\ \A i \in 1..(Len(t) - 1) : Reconnect(t[i], t[i + 1]) => f[i + 1] = 2
Numbered(t, n, m) == \E f \in [Ahead(t) -> (n + 1)..m] : Numbering(f, t)

\* What is left to do of endpoint e once n connections have been created.
Rest(t, e, n) ==
  /\ t \in Seq(Ops)
  /\ t # <<>> => t[Len(t)] = "close"
  /\ Linked(t, e)
  /\ Numbered(t, n, MaxConnects)

(***************************************************************************)
(* The inductive invariant.                                                *)
(***************************************************************************)
TodoOK ==
  /\ todo \in [Requests -> Seq(Ops)]
  /\ \A r \in Requests :
       /\ Rest(todo[r], endpoint[r], connects[r])
       /\ endpoint[r] = Null => todo[r] = <<>> /\ connects[r] = 0 /\ outcome[r] = "normal"
       /\ outcome[r] = "uncaught" => todo[r] = <<>>

\* The MySqlConnection of the DBConnection a request holds.
Conn(r) == Connection[DB[r]]

\* A MySqlConnection object that somebody has created.
Numbers(n, c) == c \in Connections /\ c[2] <= n[c[1]]
Made(c) == Numbers(connects, c)

ConnectionsOK ==
  /\ \A i \in Requests : Connection[i] # Null => Made(Connection[i])
  /\ \A r \in Requests : cmd[r] # Null => Made(cmd[r])
  /\ \A c \in Connections : ~Made(c) => state[c] = "none" /\ reader[c] = Null

\* The singleton is there when it is returned, and its connection when it is used.
Fetched(r) == todo[r] # <<>> =>
  /\ Op(r) = "returnInstance" => _instance # Null
  /\ Op(r) \notin Fetching => DB[r] # Null
  /\ Op(r) \notin Connecting => Conn(r) # Null

\* A request nobody overlaps with is the only one.
Alone == \A r \in Active : ~overlapped[r] => Active = {r}

\* It finds its connection as it has left it.
Undisturbed(r) == todo[r] # <<>> /\ ~overlapped[r] =>
  /\ Op(r) \notin Connecting => Conn(r) = <<r, connects[r]>>
  /\ ~faulted[r] =>
       /\ Op(r) = "open" => state[Conn(r)] # "open" /\ reader[Conn(r)] = Null
       /\ Op(r) \in {"command", "execute", "tryExecute", "read", "tryRead", "closeReader", "http"}
            => state[Conn(r)] = "open"
       /\ Op(r) = "command" => reader[Conn(r)] = Null
       /\ Op(r) \in {"execute", "tryExecute", "read", "tryRead", "closeReader"} => cmd[r] = Conn(r)
       /\ Op(r) \in {"execute", "tryExecute"} => reader[cmd[r]] = Null
       /\ Op(r) \in {"read", "tryRead", "closeReader"} => reader[cmd[r]] = r

\* Nobody opens the connection of a request it did not overlap with.
OpensOwn(r) == todo[r] # <<>> /\ Op(r) = "open" => Conn(r)[1] = r \/ overlapped[Conn(r)[1]]

\* FailureExplained, for one request.
Explained(r) == outcome[r] # "normal" => overlapped[r] \/ faulted[r]

\* What is open of a request nobody overlapped with: its connection, and
\* AddOwner's first one.
OpenOK(r) == \A k \in 1..MaxConnects :
  state[<<r, k>>] = "open" /\ ~overlapped[r] /\ outcome[r] # "uncaught" =>
    \/ endpoint[r] = "CreateOwner" /\ k = 1
    \/ todo[r] # <<>> /\ Op(r) \notin Connecting /\ Conn(r) = <<r, k>>

RequestOK(r) == Fetched(r) /\ Undisturbed(r) /\ OpensOwn(r) /\ Explained(r) /\ OpenOK(r)

IInv ==
  /\ TypeOK /\ IsFiniteSet(Open)
  /\ TodoOK /\ ConnectionsOK /\ Alone
  /\ \A r \in Requests : RequestOK(r)

-----------------------------------------------------------------------------
(***************************************************************************)
(* Sequences of operations.                                                *)
(***************************************************************************)
\* A stretch of an endpoint: from operation x to y, creating connections
\* numbered from n + 1 to m.
Stretch(s, e, x, y, n, m) ==
  /\ s \in Seq(Ops) /\ s # <<>> /\ s[1] = x /\ s[Len(s)] = y
  /\ Linked(s, e)
  /\ Numbered(s, n, m)

\* When the first operation is done, the others remain a rest of the script:
\* nothing follows only "close", and a connection is created while another is
\* open only if it is the second.
LEMMA RestTail ==
  ASSUME NEW t, NEW e, NEW n \in 0..MaxConnects, Rest(t, e, n), t # <<>>
  PROVE  /\ Head(t) \in Ops
         /\ Tail(t) \in Seq(Ops)
         /\ Tail(t) = <<>> => Head(t) = "close"
         /\ Tail(t) # <<>> => Follows(e, Head(t), Head(Tail(t)))
         /\ Tail(t) # <<>> /\ Reconnect(Head(t), Head(Tail(t))) => n <= 1
         /\ Head(t) # "newConnection" => Rest(Tail(t), e, n)
         /\ Head(t) = "newConnection" => n + 1 <= MaxConnects /\ Rest(Tail(t), e, n + 1)
<1> DEFINE u == Tail(t)
           k == IF t[1] = "newConnection" THEN n + 1 ELSE n
<1>1. /\ t \in Seq(Ops) /\ Len(t) \in Nat /\ Len(t) > 0 /\ Head(t) = t[1]
      /\ u \in Seq(Ops) /\ Len(u) = Len(t) - 1 /\ (u = <<>> <=> Len(u) = 0)
      /\ \A i \in 1..Len(u) : u[i] = t[i + 1]
      /\ \A i \in 1..Len(t) : t[i] \in Ops
      /\ u # <<>> => Head(u) = u[1]
  <2>1. t \in Seq(Ops)
    BY DEF Rest
  <2>2. Len(t) \in Nat /\ Len(t) > 0 /\ Head(t) = t[1] /\ \A i \in 1..Len(t) : t[i] \in Ops
    BY <2>1
  <2>3. u \in Seq(Ops) /\ Len(u) = Len(t) - 1 /\ \A i \in 1..Len(u) : u[i] = t[i + 1]
    BY <2>1
  <2> HIDE DEF u
  <2>4. (u = <<>> <=> Len(u) = 0) /\ (u # <<>> => Head(u) = u[1])
    BY <2>3
  <2> QED BY <2>1, <2>2, <2>3, <2>4
<1>2. t[Len(t)] = "close" /\ Linked(t, e)
  BY DEF Rest
<1>3. PICK f \in [Ahead(t) -> (n + 1)..MaxConnects] : Numbering(f, t)
  BY DEF Rest, Numbered
<1> HIDE DEF u
<1>4. u # <<>> => u[Len(u)] = "close" /\ Follows(e, t[1], u[1])
  BY <1>1, <1>2 DEF Linked
<1>5. Linked(u, e)
  BY <1>1, <1>2 DEF Linked
<1>6. Numbered(u, k, MaxConnects) /\ k \in 0..MaxConnects
  <2>1. \A i \in Ahead(u) : i \in 1..Len(u) /\ i + 1 \in Ahead(t)
    BY <1>1 DEF Ahead
  <2> DEFINE g == [i \in Ahead(u) |-> f[i + 1]]
  <2>2. t[1] = "newConnection" => 1 \in Ahead(t) /\ f[1] \in (n + 1)..MaxConnects
    BY <1>1, <1>3 DEF Ahead
  <2>3. \A i \in Ahead(u) : g[i] \in (k + 1)..MaxConnects
    <3> SUFFICES ASSUME NEW i \in Ahead(u) PROVE f[i + 1] \in (k + 1)..MaxConnects
      OBVIOUS
    <3>1. f[i + 1] \in (n + 1)..MaxConnects
      BY <2>1, <1>3
    <3>2. t[1] = "newConnection" => f[1] < f[i + 1]
      BY <2>1, <2>2, <1>3 DEF Numbering
    <3> QED BY <3>1, <3>2, <2>2 DEF MaxConnects
  <2>4. g \in [Ahead(u) -> (k + 1)..MaxConnects]
    BY <2>3
  <2>5. Numbering(g, u)
    <3>1. \A i, j \in Ahead(u) : i < j => g[i] < g[j]
      BY <2>1, <1>3 DEF Numbering
    <3>2. ASSUME NEW i \in 1..(Len(u) - 1), Reconnect(u[i], u[i + 1]) PROVE g[i + 1] = 2
      <4>1. i + 1 \in 1..Len(u) /\ i + 1 \in 1..(Len(t) - 1)
        BY <1>1
      <4>2. Reconnect(t[i + 1], t[i + 1 + 1]) /\ i + 1 \in Ahead(u)
        BY <4>1, <1>1, <3>2 DEF Reconnect, Ahead
      <4> QED BY <4>1, <4>2, <1>3 DEF Numbering
    <3> QED BY <3>1, <3>2 DEF Numbering
  <2>6. k \in 0..MaxConnects
    BY <2>2 DEF MaxConnects
  <2> QED BY <2>4, <2>5, <2>6 DEF Numbered
<1>7. Rest(u, e, k)
  BY <1>1, <1>4, <1>5, <1>6 DEF Rest
<1>8. u # <<>> /\ Reconnect(t[1], u[1]) => n <= 1
  <2> SUFFICES ASSUME u # <<>>, Reconnect(t[1], u[1]) PROVE n <= 1
    OBVIOUS
  <2>1. 1 \in 1..(Len(t) - 1) /\ Reconnect(t[1], t[1 + 1]) /\ 1 + 1 \in Ahead(t)
    BY <1>1 DEF Reconnect, Ahead
  <2> QED BY <2>1, <1>3 DEF Numbering
<1>9. u = <<>> => t[1] = "close"
  <2> SUFFICES ASSUME u = <<>> PROVE t[1] = "close"
    OBVIOUS
  <2>1. Len(t) = 1
    BY <1>1
  <2> QED BY <2>1, <1>2
<1>10. t[1] = "newConnection" => n + 1 <= MaxConnects /\ Rest(u, e, n + 1)
  BY <1>6, <1>7
<1>11. t[1] # "newConnection" => Rest(u, e, n)
  BY <1>7
<1> QED BY <1>1, <1>4, <1>8, <1>9, <1>10, <1>11 DEF u

\* A handler has only the connection to close, the framework nothing.
LEMMA RestThrown ==
  ASSUME NEW e, NEW n \in 0..MaxConnects
  PROVE  Rest(<<"close">>, e, n) /\ Rest(<<>>, e, n)
<1>1. <<"close">> \in Seq(Ops) /\ <<>> \in Seq(Ops) /\ Len(<<"close">>) = 1 /\ <<"close">>[1] = "close" /\ Len(<<>>) = 0
  BY DEF Ops
<1>2. Linked(<<"close">>, e) /\ Linked(<<>>, e)
  BY DEF Linked
<1> DEFINE f == [i \in {} |-> 0]
<1>3. Ahead(<<"close">>) = {} /\ Ahead(<<>>) = {}
  BY DEF Ahead
<1>4. Numbering(f, <<"close">>) /\ Numbering(f, <<>>)
  BY <1>3, <1>1 DEF Numbering
<1>5. f \in [{} -> (n + 1)..MaxConnects]
  OBVIOUS
<1>6. Numbered(<<"close">>, n, MaxConnects) /\ Numbered(<<>>, n, MaxConnects)
  BY <1>3, <1>4, <1>5 DEF Numbered
<1> QED BY <1>1, <1>2, <1>6 DEF Rest

\* One stretch after another.
LEMMA Join ==
  ASSUME NEW s, NEW t, NEW e, NEW x, NEW y, NEW z, NEW w,
         NEW n \in Nat, NEW m \in Nat, NEW l \in Nat, n <= m, m <= l,
         Stretch(s, e, x, y, n, m), Stretch(t, e, z, w, m, l),
         Follows(e, y, z), Reconnect(y, z) => m = 1 /\ l = 2
  PROVE  Stretch(s \o t, e, x, w, n, l)
<1> DEFINE a == Len(s)
           b == Len(t)
           c == s \o t
<1>1. /\ s \in Seq(Ops) /\ t \in Seq(Ops) /\ a \in Nat /\ b \in Nat /\ a > 0 /\ b > 0
      /\ c \in Seq(Ops) /\ Len(c) = a + b
      /\ s[1] = x /\ s[a] = y /\ t[1] = z /\ t[b] = w
  BY DEF Stretch
<1>2. /\ \A i \in 1..a : c[i] = s[i]
      /\ \A i \in 1..b : c[a + i] = t[i]
  BY <1>1
<1>3. /\ Linked(s, e) /\ Linked(t, e)
  BY DEF Stretch
<1>4. PICK f \in [Ahead(s) -> (n + 1)..m] : Numbering(f, s)
  BY DEF Stretch, Numbered
<1>5. PICK g \in [Ahead(t) -> (m + 1)..l] : Numbering(g, t)
  BY DEF Stretch, Numbered
<1>0. a \in Nat /\ b \in Nat /\ a > 0 /\ b > 0 /\ Len(c) = a + b
  BY <1>1
<1> HIDE DEF a, b, c
<1>6. c[1] = x /\ c[a + b] = w
  BY <1>1, <1>2
\* A place of c is one of s or one of t.
<1>7. \A i \in 1..(a + b) : i \in 1..a \/ (i - a \in 1..b /\ c[i] = t[i - a] /\ i \notin 1..a)
  <2> SUFFICES ASSUME NEW i \in 1..(a + b), i \notin 1..a
               PROVE  i - a \in 1..b /\ c[i] = t[i - a]
    OBVIOUS
  <2>1. i - a \in 1..b /\ i = a + (i - a)
    BY <1>0
  <2> QED BY <2>1, <1>2
<1>8. ASSUME NEW i \in 1..(a + b - 1)
      PROVE  \/ i \in 1..(a - 1) /\ c[i] = s[i] /\ c[i + 1] = s[i + 1]
             \/ i = a /\ c[i] = y /\ c[i + 1] = z
             \/ i - a \in 1..(b - 1) /\ c[i] = t[i - a] /\ c[i + 1] = t[i - a + 1]
  <2>1. CASE i < a
    <3>1. i \in 1..(a - 1) /\ i \in 1..a /\ i + 1 \in 1..a
      BY <2>1, <1>0
    <3> QED BY <3>1, <1>2
  <2>2. CASE i = a
    BY <2>2, <1>1, <1>2
  <2>3. CASE i > a
    <3>1. i - a \in 1..(b - 1) /\ i - a + 1 \in 1..b /\ i = a + (i - a) /\ i + 1 = a + (i - a + 1)
      BY <2>3, <1>0
    <3>2. c[a + (i - a)] = t[i - a] /\ c[a + (i - a + 1)] = t[i - a + 1]
      <4> DEFINE j == i - a
      <4>1. j \in 1..b /\ j + 1 \in 1..b
        BY <3>1, <1>0
      <4> HIDE DEF j
      <4>2. c[a + j] = t[j] /\ c[a + (j + 1)] = t[j + 1]
        BY <4>1, <1>2
      <4> QED BY <4>2 DEF j
    <3> QED BY <3>1, <3>2
  <2> QED BY <2>1, <2>2, <2>3, <1>0
<1>9. Linked(c, e)
  <2> SUFFICES ASSUME NEW i \in 1..(a + b - 1) PROVE Follows(e, c[i], c[i + 1])
    BY <1>0 DEF Linked
  <2>1. CASE i \in 1..(a - 1) /\ c[i] = s[i] /\ c[i + 1] = s[i + 1]
    BY <2>1, <1>3 DEF Linked, a
  <2>2. CASE i = a /\ c[i] = y /\ c[i + 1] = z
    BY <2>2
  <2>3. CASE i - a \in 1..(b - 1) /\ c[i] = t[i - a] /\ c[i + 1] = t[i - a + 1]
    BY <2>3, <1>3 DEF Linked, b
  <2> QED BY <1>8, <2>1, <2>2, <2>3
<1>10. Numbered(c, n, l)
  <2> DEFINE h == [i \in Ahead(c) |-> IF i \in 1..a THEN f[i] ELSE g[i - a]]
  <2>1. \A i \in Ahead(c) : \/ i \in 1..a /\ i \in Ahead(s) /\ h[i] = f[i]
                            \/ i \notin 1..a /\ i \in Int /\ i - a \in Ahead(t) /\ h[i] = g[i - a] /\ i > a
    <3> SUFFICES ASSUME NEW i \in Ahead(c)
                 PROVE  \/ i \in 1..a /\ i \in Ahead(s)
                        \/ i \notin 1..a /\ i \in Int /\ i - a \in Ahead(t) /\ i > a
      OBVIOUS
    <3>1. i \in 1..(a + b) /\ c[i] = "newConnection"
      BY <1>1 DEF Ahead, c
    <3>2. CASE i \in 1..a
      BY <3>1, <3>2, <1>2 DEF Ahead, a
    <3>3. CASE i \notin 1..a
      BY <3>1, <3>3, <1>1, <1>7 DEF Ahead, b
    <3> QED BY <3>2, <3>3
  <2>2. \A i \in Ahead(s) : f[i] \in (n + 1)..m
    BY <1>4
  <2>3. \A i \in Ahead(t) : g[i] \in (m + 1)..l
    BY <1>5
  <2>4. h \in [Ahead(c) -> (n + 1)..l]
    <3> SUFFICES ASSUME NEW i \in Ahead(c) PROVE h[i] \in (n + 1)..l
      OBVIOUS
    <3> HIDE DEF h
    <3> QED BY <2>1, <2>2, <2>3
  <2>5. ASSUME NEW i \in Ahead(c), NEW j \in Ahead(c), i < j PROVE h[i] < h[j]
    <3> HIDE DEF h
    <3>1. CASE i \in 1..a /\ j \in 1..a
      BY <3>1, <2>1, <2>5, <1>4 DEF Numbering
    <3>2. CASE i \in 1..a /\ j \notin 1..a
      BY <3>2, <2>1, <2>2, <2>3
    <3>3. CASE i \notin 1..a /\ j \notin 1..a
      <4>1. i - a \in Ahead(t) /\ j - a \in Ahead(t) /\ i - a < j - a
        BY <3>3, <2>1, <2>5, <1>0
      <4> QED BY <4>1, <3>3, <2>1, <1>5 DEF Numbering
    <3>4. ~(i \notin 1..a /\ j \in 1..a)
      BY <2>1, <2>5, <1>0
    <3> QED BY <3>1, <3>2, <3>3, <3>4
  <2>6. ASSUME NEW i \in 1..(a + b - 1), Reconnect(c[i], c[i + 1]) PROVE h[i + 1] = 2
    <3>1. i + 1 \in Ahead(c) /\ i + 1 \in 1..(a + b)
      BY <2>6, <1>1 DEF Ahead, Reconnect, c
    <3>2. \A j \in Ahead(c) : (j \in 1..a => h[j] = f[j]) /\ (j \notin 1..a => h[j] = g[j - a])
      OBVIOUS
    <3> HIDE DEF h
    <3>3. CASE i \in 1..(a - 1) /\ c[i] = s[i] /\ c[i + 1] = s[i + 1]
      <4>1. i + 1 \in 1..a
        BY <3>3, <1>0
      <4> QED BY <4>1, <3>1, <3>2, <3>3, <2>6, <1>4 DEF Numbering, a
    <3>4. CASE i = a /\ c[i] = y /\ c[i + 1] = z
      <4>1. i + 1 \notin 1..a /\ (i + 1) - a = 1
        BY <3>4, <1>0
      <4>2. m = 1 /\ l = 2
        BY <3>4, <2>6
      <4>3. 1 \in Ahead(t)
        BY <3>4, <2>6, <1>1 DEF Ahead, Reconnect, b
      <4>4. g[1] = 2
        BY <4>2, <4>3, <2>3
      <4>5. h[i + 1] = g[(i + 1) - a]
        BY <4>1, <3>1, <3>2
      <4> QED BY <4>1, <4>4, <4>5, Zenon
    <3>5. CASE i - a \in 1..(b - 1) /\ c[i] = t[i - a] /\ c[i + 1] = t[i - a + 1]
      <4>1. i + 1 \notin 1..a /\ (i + 1) - a = i - a + 1
        BY <3>5, <1>0
      <4>2. g[i - a + 1] = 2
        BY <3>5, <2>6, <1>5 DEF Numbering, b
      <4>3. h[i + 1] = g[(i + 1) - a]
        BY <4>1, <3>1, <3>2
      <4> QED BY <4>1, <4>2, <4>3, Zenon
    <3> QED BY <1>8, <3>3, <3>4, <3>5
  <2>7. Numbering(h, c)
    BY <2>5, <2>6, <1>0 DEF Numbering
  <2> QED BY <2>4, <2>7 DEF Numbered
<1> QED BY <1>1, <1>6, <1>9, <1>10 DEF Stretch, c

(***************************************************************************)
(* The scripts are such sequences.                                         *)
(***************************************************************************)
\* The operations that follow another in some endpoint.
LEMMA AfterFacts ==
  /\ "createInstance" \in After("checkInstance") /\ "returnInstance" \in After("createInstance")
  /\ "newConnection" \in After("returnInstance") /\ "open" \in After("newConnection")
  /\ "command" \in After("open") /\ "close" \in After("open")
  /\ "execute" \in After("command") /\ "tryExecute" \in After("command")
  /\ "read" \in After("execute") /\ "tryRead" \in After("tryExecute") /\ "closeReader" \in After("tryExecute")
  /\ "tryRead" \in After("read") /\ "closeReader" \in After("read") /\ "close" \in After("read")
  /\ "read" \in After("tryRead") /\ "closeReader" \in After("tryRead") /\ "close" \in After("tryRead")
  /\ "command" \in After("closeReader") /\ "http" \in After("closeReader") /\ "close" \in After("closeReader")
  /\ "close" \in After("http") /\ "checkInstance" \in After("close")
BY DEF After

\* Except for AddOwner's, no connection is created right after reading.
LEMMA AfterRead == "newConnection" \notin After("read")
BY DEF After

\* One stretch after another, without a reconnection.
LEMMA Then ==
  ASSUME NEW s, NEW t, NEW e, NEW x, NEW y, NEW z, NEW w,
         NEW n \in Nat, NEW m \in Nat, NEW l \in Nat, n <= m, m <= l,
         Stretch(s, e, x, y, n, m), Stretch(t, e, z, w, m, l), z \in After(y)
  PROVE  Stretch(s \o t, e, x, w, n, l)
<1>1. Follows(e, y, z)
  BY DEF Follows
<1>2. ~Reconnect(y, z)
  BY AfterRead DEF Reconnect
<1> QED BY <1>1, <1>2, Join

\* Stretches without a new connection.
LEMMA Short ==
  ASSUME NEW e, NEW n \in Nat,
         NEW x \in Ops \ {"newConnection"}, NEW y \in Ops \ {"newConnection"}, NEW z \in Ops \ {"newConnection"}
  PROVE  /\ Stretch(<<x>>, e, x, x, n, n)
         /\ y \in After(x) => Stretch(<<x, y>>, e, x, y, n, n)
         /\ y \in After(x) /\ z \in After(y) => Stretch(<<x, y, z>>, e, x, z, n, n)
<1> DEFINE f == [i \in {} |-> 0]
<1>1. f \in [{} -> (n + 1)..n]
  OBVIOUS
<1>2. ASSUME NEW s \in Seq(Ops), \A i \in 1..Len(s) : s[i] # "newConnection"
      PROVE  Numbered(s, n, n)
  <2>1. Ahead(s) = {}
    BY <1>2 DEF Ahead
  <2>2. Numbering(f, s)
    <3>1. Len(s) \in Nat
      OBVIOUS
    <3> QED BY <1>2, <2>1, <3>1 DEF Numbering, Reconnect
  <2> QED BY <1>1, <2>1, <2>2 DEF Numbered
<1>3. Stretch(<<x>>, e, x, x, n, n)
  <2>1. <<x>> \in Seq(Ops) /\ <<x>> # <<>> /\ Len(<<x>>) = 1 /\ <<x>>[1] = x
    OBVIOUS
  <2>2. Linked(<<x>>, e)
    BY <2>1 DEF Linked
  <2>3. Numbered(<<x>>, n, n)
    <3> DEFINE s == <<x>>
    <3>1. s \in Seq(Ops) /\ \A i \in 1..Len(s) : s[i] # "newConnection"
      BY <2>1
    <3> HIDE DEF s
    <3>2. Numbered(s, n, n)
      BY <3>1, <1>2
    <3> QED BY <3>2 DEF s
  <2> QED BY <2>1, <2>2, <2>3 DEF Stretch
<1>4. ASSUME y \in After(x) PROVE Stretch(<<x, y>>, e, x, y, n, n)
  <2>1. <<x, y>> \in Seq(Ops) /\ <<x, y>> # <<>> /\ Len(<<x, y>>) = 2 /\ <<x, y>>[1] = x /\ <<x, y>>[2] = y
    OBVIOUS
  <2>2. Linked(<<x, y>>, e)
    BY <2>1, <1>4 DEF Linked, Follows
  <2>3. Numbered(<<x, y>>, n, n)
    <3> DEFINE s == <<x, y>>
    <3>1. s \in Seq(Ops) /\ \A i \in 1..Len(s) : s[i] # "newConnection"
      BY <2>1
    <3> HIDE DEF s
    <3>2. Numbered(s, n, n)
      BY <3>1, <1>2
    <3> QED BY <3>2 DEF s
  <2> QED BY <2>1, <2>2, <2>3 DEF Stretch
<1>5. ASSUME y \in After(x), z \in After(y) PROVE Stretch(<<x, y, z>>, e, x, z, n, n)
  <2>1. /\ <<x, y, z>> \in Seq(Ops) /\ <<x, y, z>> # <<>> /\ Len(<<x, y, z>>) = 3
        /\ <<x, y, z>>[1] = x /\ <<x, y, z>>[2] = y /\ <<x, y, z>>[3] = z
    OBVIOUS
  <2>2. Linked(<<x, y, z>>, e)
    BY <2>1, <1>5 DEF Linked, Follows
  <2>3. Numbered(<<x, y, z>>, n, n)
    <3> DEFINE s == <<x, y, z>>
    <3>1. s \in Seq(Ops) /\ \A i \in 1..Len(s) : s[i] # "newConnection"
      BY <2>1
    <3> HIDE DEF s
    <3>2. Numbered(s, n, n)
      BY <3>1, <1>2
    <3> QED BY <3>2 DEF s
  <2> QED BY <2>1, <2>2, <2>3 DEF Stretch
<1> QED BY <1>3, <1>4, <1>5

\* The pieces the scripts are made of.
LEMMA Pieces ==
  ASSUME NEW e, NEW n \in Nat
  PROVE  /\ Stretch(Instance, e, "checkInstance", "returnInstance", n, n)
         /\ Stretch(IsConnect, e, "newConnection", "open", n, n + 1)
         /\ Stretch(Query, e, "command", "read", n, n)
         /\ Stretch(TryQuery, e, "command", "tryRead", n, n)
         /\ Stretch(<<"command", "tryExecute", "closeReader">>, e, "command", "closeReader", n, n)
         /\ Stretch(<<"tryRead", "close">>, e, "tryRead", "close", n, n)
         /\ Stretch(<<"tryRead", "read">>, e, "tryRead", "read", n, n)
         /\ Stretch(<<"tryRead">>, e, "tryRead", "tryRead", n, n)
         /\ Stretch(<<"closeReader">>, e, "closeReader", "closeReader", n, n)
         /\ Stretch(<<"http">>, e, "http", "http", n, n)
         /\ Stretch(<<"close">>, e, "close", "close", n, n)
<1>1. /\ "checkInstance" \in Ops \ {"newConnection"} /\ "createInstance" \in Ops \ {"newConnection"}
      /\ "returnInstance" \in Ops \ {"newConnection"} /\ "command" \in Ops \ {"newConnection"}
      /\ "execute" \in Ops \ {"newConnection"} /\ "tryExecute" \in Ops \ {"newConnection"}
      /\ "read" \in Ops \ {"newConnection"} /\ "tryRead" \in Ops \ {"newConnection"}
      /\ "closeReader" \in Ops \ {"newConnection"} /\ "http" \in Ops \ {"newConnection"}
      /\ "close" \in Ops \ {"newConnection"}
  BY DEF Ops
<1>2. Stretch(Instance, e, "checkInstance", "returnInstance", n, n)
  BY <1>1, AfterFacts, Short DEF Instance
<1>3. Stretch(Query, e, "command", "read", n, n) /\ Stretch(TryQuery, e, "command", "tryRead", n, n)
  BY <1>1, AfterFacts, Short DEF Query, TryQuery
<1>4. Stretch(<<"command", "tryExecute", "closeReader">>, e, "command", "closeReader", n, n)
  BY <1>1, AfterFacts, Short
<1>5. /\ Stretch(<<"tryRead", "close">>, e, "tryRead", "close", n, n)
      /\ Stretch(<<"tryRead", "read">>, e, "tryRead", "read", n, n)
  BY <1>1, AfterFacts, Short
<1>6. /\ Stretch(<<"closeReader">>, e, "closeReader", "closeReader", n, n)
      /\ Stretch(<<"tryRead">>, e, "tryRead", "tryRead", n, n)
      /\ Stretch(<<"http">>, e, "http", "http", n, n)
      /\ Stretch(<<"close">>, e, "close", "close", n, n)
  BY <1>1, Short
<1>7. Stretch(IsConnect, e, "newConnection", "open", n, n + 1)
  <2> DEFINE s == <<"newConnection", "open">>
             f == [i \in {1} |-> n + 1]
  <2>1. s \in Seq(Ops) /\ s # <<>> /\ Len(s) = 2 /\ s[1] = "newConnection" /\ s[2] = "open"
    BY DEF Ops
  <2> HIDE DEF s
  <2>2. Linked(s, e)
    BY <2>1, AfterFacts DEF Linked, Follows
  <2>3. Ahead(s) = {1}
    BY <2>1 DEF Ahead
  <2>4. f \in [{1} -> (n + 1)..(n + 1)]
    OBVIOUS
  <2>5. Numbering(f, s)
    <3>1. \A i \in 1..(Len(s) - 1) : ~Reconnect(s[i], s[i + 1])
      BY <2>1 DEF Reconnect
    <3> QED BY <2>3, <3>1 DEF Numbering
  <2>6. Numbered(s, n, n + 1)
    BY <2>3, <2>4, <2>5 DEF Numbered
  <2> QED BY <2>1, <2>2, <2>6 DEF Stretch, IsConnect, s
<1> QED BY <1>2, <1>3, <1>4, <1>5, <1>6, <1>7

\* A whole script of at most MaxConnects connections.
LEMMA Whole ==
  ASSUME NEW s, NEW e, NEW x, NEW m \in 0..MaxConnects, Stretch(s, e, x, "close", 0, m)
  PROVE  Rest(s, e, 0) /\ s # <<>> /\ Head(s) = x
<1>1. s \in Seq(Ops) /\ s # <<>> /\ s[1] = x /\ s[Len(s)] = "close" /\ Linked(s, e)
  BY DEF Stretch
<1>2. PICK f \in [Ahead(s) -> (0 + 1)..m] : Numbering(f, s)
  BY DEF Stretch, Numbered
<1>3. f \in [Ahead(s) -> (0 + 1)..MaxConnects]
  BY <1>2 DEF MaxConnects
<1>4. Numbered(s, 0, MaxConnects)
  BY <1>2, <1>3 DEF Numbered
<1> QED BY <1>1, <1>4 DEF Rest

\* A whole script.
Fine(s, e) == \E m \in 0..MaxConnects : Stretch(s, e, "checkInstance", "close", 0, m)

\* How the scripts begin.
LEMMA Prefixes ==
  ASSUME NEW e
  PROVE  /\ Stretch(Instance \o IsConnect, e, "checkInstance", "open", 0, 1)
         /\ Stretch(Instance \o IsConnect \o Query, e, "checkInstance", "read", 0, 1)
         /\ Stretch(Instance \o IsConnect \o TryQuery, e, "checkInstance", "tryRead", 0, 1)
<1> DEFINE s == Instance \o IsConnect
<1>1. Stretch(Instance, e, "checkInstance", "returnInstance", 0, 0)
  BY Pieces
<1>2. Stretch(IsConnect, e, "newConnection", "open", 0, 1)
  <2>1. Stretch(IsConnect, e, "newConnection", "open", 0, 0 + 1)
    BY Pieces
  <2> QED BY <2>1
<1>3. Stretch(s, e, "checkInstance", "open", 0, 1)
  BY <1>1, <1>2, AfterFacts, Then
<1> HIDE DEF s
<1>4. Stretch(Query, e, "command", "read", 1, 1) /\ Stretch(TryQuery, e, "command", "tryRead", 1, 1)
  BY Pieces
<1>5. Stretch(s \o Query, e, "checkInstance", "read", 0, 1)
  BY <1>3, <1>4, AfterFacts, Then
<1>6. Stretch(s \o TryQuery, e, "checkInstance", "tryRead", 0, 1)
  BY <1>3, <1>4, AfterFacts, Then
<1> QED BY <1>3, <1>5, <1>6 DEF s

\* A stretch, then the connection is closed.
LEMMA Closing ==
  ASSUME NEW s, NEW e, NEW y, NEW m \in 0..MaxConnects,
         Stretch(s, e, "checkInstance", y, 0, m), "close" \in After(y)
  PROVE  /\ Stretch(s \o <<"close">>, e, "checkInstance", "close", 0, m)
         /\ Fine(s \o <<"close">>, e)
<1>1. m \in Nat
  BY DEF MaxConnects
<1>2. Stretch(<<"close">>, e, "close", "close", m, m)
  BY <1>1, Pieces
<1>3. Stretch(s \o <<"close">>, e, "checkInstance", "close", 0, m)
  BY <1>1, <1>2, Then
<1> QED BY <1>3 DEF Fine

\* The selects.
LEMMA ReadsFine ==
  ASSUME NEW e, NEW s \in ReadAll \cup ReadOne \cup BadId
  PROVE  Fine(s, e)
<1> DEFINE c == Instance \o IsConnect
           q == Instance \o IsConnect \o Query
<1>1. s = q \o <<"close">> \/ s = q \o <<"tryRead", "close">> \/ s = c \o <<"close">>
  BY DEF ReadAll, ReadOne, BadId
<1>2. Stretch(c, e, "checkInstance", "open", 0, 1) /\ Stretch(q, e, "checkInstance", "read", 0, 1)
  BY Prefixes
<1> HIDE DEF c, q
<1>3. 1 \in 0..MaxConnects
  BY DEF MaxConnects
<1>4. Fine(q \o <<"close">>, e) /\ Fine(c \o <<"close">>, e)
  BY <1>2, <1>3, AfterFacts, Closing
<1>5. Stretch(<<"tryRead", "close">>, e, "tryRead", "close", 1, 1)
  BY Pieces
<1>6. Stretch(q \o <<"tryRead", "close">>, e, "checkInstance", "close", 0, 1)
  BY <1>2, <1>5, AfterFacts, Then
<1> QED BY <1>1, <1>3, <1>4, <1>6 DEF Fine

\* Dog.CreateDog and Dog.GetNewDogId.
LEMMA CreateDogFine ==
  ASSUME NEW e, NEW s \in CreateDog
  PROVE  Fine(s, e)
<1> DEFINE s1 == Instance \o IsConnect \o TryQuery
           s2 == s1 \o <<"close">>
           s3 == s2 \o Instance
           s4 == s3 \o IsConnect
           s5 == s4 \o TryQuery
<1>1. s = s5 \o <<"close">>
  BY DEF CreateDog
<1>2. Stretch(s1, e, "checkInstance", "tryRead", 0, 1)
  BY Prefixes
<1>3. 1 \in 0..MaxConnects /\ 2 \in 0..MaxConnects
  BY DEF MaxConnects
<1> HIDE DEF s1
<1>4. Stretch(s2, e, "checkInstance", "close", 0, 1)
  BY <1>2, <1>3, AfterFacts, Closing
<1> HIDE DEF s2
<1>5. Stretch(Instance, e, "checkInstance", "returnInstance", 1, 1)
  BY Pieces
<1>6. Stretch(s3, e, "checkInstance", "returnInstance", 0, 1)
  BY <1>4, <1>5, AfterFacts, Then
<1> HIDE DEF s3
<1>7. Stretch(IsConnect, e, "newConnection", "open", 1, 2)
  <2>1. Stretch(IsConnect, e, "newConnection", "open", 1, 1 + 1)
    BY Pieces
  <2> QED BY <2>1
<1>8. Stretch(s4, e, "checkInstance", "open", 0, 2)
  BY <1>6, <1>7, AfterFacts, Then
<1> HIDE DEF s4
<1>9. Stretch(TryQuery, e, "command", "tryRead", 2, 2)
  BY Pieces
<1>10. Stretch(s5, e, "checkInstance", "tryRead", 0, 2)
  BY <1>8, <1>9, AfterFacts, Then
<1> HIDE DEF s5
<1> QED BY <1>1, <1>3, <1>10, AfterFacts, Closing

\* Owner.AddOwner and Owner.GetNewID.
LEMMA CreateOwnerFine ==
  ASSUME NEW s \in CreateOwner
  PROVE  Fine(s, "CreateOwner")
<1> DEFINE e == "CreateOwner"
           s1 == Instance \o IsConnect \o Query
           s2 == s1 \o IsConnect
           s3 == s2 \o TryQuery
           s4 == s3 \o <<"close">>
           s5 == s4 \o Instance
           s6 == s5 \o IsConnect
           s7 == s6 \o Query
<1>1. s = s1 \o <<"close">> \/ s = s7 \o <<"close">>
  BY DEF CreateOwner
<1>2. Stretch(s1, e, "checkInstance", "read", 0, 1)
  BY Prefixes
<1>3. 1 \in 0..MaxConnects /\ 2 \in 0..MaxConnects /\ 3 \in 0..MaxConnects
  BY DEF MaxConnects
<1> HIDE DEF s1
<1>4. Fine(s1 \o <<"close">>, e)
  BY <1>2, <1>3, AfterFacts, Closing
<1>5. Stretch(IsConnect, e, "newConnection", "open", 1, 2)
  <2>1. Stretch(IsConnect, e, "newConnection", "open", 1, 1 + 1)
    BY Pieces
  <2> QED BY <2>1
<1>6. Stretch(s2, e, "checkInstance", "open", 0, 2)
  <2>1. Follows(e, "read", "newConnection")
    BY DEF Follows, Reconnect
  <2> QED BY <1>2, <1>5, <2>1, Join
<1> HIDE DEF s2
<1>7. Stretch(TryQuery, e, "command", "tryRead", 2, 2)
  BY Pieces
<1>8. Stretch(s3, e, "checkInstance", "tryRead", 0, 2)
  BY <1>6, <1>7, AfterFacts, Then
<1> HIDE DEF s3
<1>9. Stretch(s4, e, "checkInstance", "close", 0, 2)
  BY <1>8, <1>3, AfterFacts, Closing
<1> HIDE DEF s4
<1>10. Stretch(Instance, e, "checkInstance", "returnInstance", 2, 2)
  BY Pieces
<1>11. Stretch(s5, e, "checkInstance", "returnInstance", 0, 2)
  BY <1>9, <1>10, AfterFacts, Then
<1> HIDE DEF s5
<1>12. Stretch(IsConnect, e, "newConnection", "open", 2, 3)
  <2>1. Stretch(IsConnect, e, "newConnection", "open", 2, 2 + 1)
    BY Pieces
  <2> QED BY <2>1
<1>13. Stretch(s6, e, "checkInstance", "open", 0, 3)
  BY <1>11, <1>12, AfterFacts, Then
<1> HIDE DEF s6
<1>14. Stretch(Query, e, "command", "read", 3, 3)
  BY Pieces
<1>15. Stretch(s7, e, "checkInstance", "read", 0, 3)
  BY <1>13, <1>14, AfterFacts, Then
<1> HIDE DEF s7
<1>16. Fine(s7 \o <<"close">>, e)
  BY <1>15, <1>3, AfterFacts, Closing
<1> QED BY <1>1, <1>4, <1>16

\* Swipe.SendSwipe.
LEMMA SendSwipeFine ==
  ASSUME NEW e, NEW s \in SendSwipe
  PROVE  Fine(s, e)
<1> DEFINE s1 == Instance \o IsConnect \o TryQuery
           Insert == s1 \o <<"closeReader">>
           Select == TryQuery \o <<"closeReader">>
           Match == <<"command", "tryExecute", "closeReader">>
           s2 == Insert \o Select
           s3 == s2 \o Match
<1>1. s = Insert \o <<"close">> \/ s = s2 \o <<"close">> \/ s = s3 \o <<"close">>
  BY DEF SendSwipe
<1>2. Stretch(s1, e, "checkInstance", "tryRead", 0, 1)
  BY Prefixes
<1>3. 1 \in 0..MaxConnects
  BY DEF MaxConnects
<1>4. /\ Stretch(TryQuery, e, "command", "tryRead", 1, 1)
      /\ Stretch(<<"closeReader">>, e, "closeReader", "closeReader", 1, 1)
      /\ Stretch(Match, e, "command", "closeReader", 1, 1)
  BY Pieces
<1> HIDE DEF s1, Match
<1>5. Stretch(Insert, e, "checkInstance", "closeReader", 0, 1)
  BY <1>2, <1>4, AfterFacts, Then
<1>6. Stretch(Select, e, "command", "closeReader", 1, 1)
  BY <1>4, AfterFacts, Then
<1> HIDE DEF Insert, Select
<1>7. Stretch(s2, e, "checkInstance", "closeReader", 0, 1)
  BY <1>5, <1>6, AfterFacts, Then
<1> HIDE DEF s2
<1>8. Stretch(s3, e, "checkInstance", "closeReader", 0, 1)
  BY <1>4, <1>7, AfterFacts, Then
<1> HIDE DEF s3
<1>9. Fine(Insert \o <<"close">>, e) /\ Fine(s2 \o <<"close">>, e) /\ Fine(s3 \o <<"close">>, e)
  BY <1>3, <1>5, <1>7, <1>8, AfterFacts, Closing
<1> QED BY <1>1, <1>9

\* A select of the swipe list, its rows and the end of its reader.
LEMMA ListSelect ==
  ASSUME NEW e, NEW s, NEW y \in {"open", "closeReader"}, 
         NEW rows \in {<<>>, <<"tryRead">>, <<"tryRead", "read">>},
         Stretch(s, e, "checkInstance", y, 0, 1)
  PROVE  Stretch(s \o Query \o rows \o <<"closeReader">>, e, "checkInstance", "closeReader", 0, 1)
<1> DEFINE s1 == s \o Query
           s2 == s1 \o rows
<1>1. /\ Stretch(Query, e, "command", "read", 1, 1)
      /\ Stretch(<<"tryRead", "read">>, e, "tryRead", "read", 1, 1)
      /\ Stretch(<<"tryRead">>, e, "tryRead", "tryRead", 1, 1)
      /\ Stretch(<<"closeReader">>, e, "closeReader", "closeReader", 1, 1)
  BY Pieces
<1>2. Stretch(s1, e, "checkInstance", "read", 0, 1)
  BY <1>1, AfterFacts, Then
<1> HIDE DEF s1
<1>3. \E z \in {"read", "tryRead"} : Stretch(s2, e, "checkInstance", z, 0, 1)
  <2>1. CASE rows = <<>>
    <3>1. s1 \in Seq(Ops)
      BY <1>2 DEF Stretch
    <3>2. s1 \o <<>> = s1
      BY <3>1
    <3> QED BY <2>1, <3>2, <1>2
  <2>2. CASE rows = <<"tryRead", "read">>
    <3>1. Stretch(s2, e, "checkInstance", "read", 0, 1)
      BY <2>2, <1>1, <1>2, AfterFacts, Then
    <3> QED BY <3>1
  <2>3. CASE rows = <<"tryRead">>
    <3>1. Stretch(s2, e, "checkInstance", "tryRead", 0, 1)
      BY <2>3, <1>1, <1>2, AfterFacts, Then
    <3> QED BY <3>1
  <2> QED BY <2>1, <2>2, <2>3
<1> HIDE DEF s2
<1>4. Stretch(s2 \o <<"closeReader">>, e, "checkInstance", "closeReader", 0, 1)
  BY <1>1, <1>3, AfterFacts, Then
<1> QED BY <1>4 DEF s1, s2

\* SwipeListController.
LEMMA GetListSwipesFine ==
  ASSUME NEW e, NEW s \in GetListSwipes
  PROVE  Fine(s, e)
<1> DEFINE Row  == {<<>>, <<"tryRead">>}
           Rows == {<<>>, <<"tryRead", "read">>}
           s0 == Instance \o IsConnect
<1>1. PICK rows \in Row \X Rows \X Rows, http \in {<<>>, <<"http">>} : s = ListSwipes(rows, http)
  BY DEF GetListSwipes
<1> DEFINE s1 == s0 \o Query \o rows[1] \o <<"closeReader">>
           s2 == s1 \o Query \o rows[2] \o <<"closeReader">>
           s3 == s2 \o Query \o rows[3] \o <<"closeReader">>
           s4 == s3 \o Query
           s5 == s4 \o <<"closeReader">>
           s6 == s5 \o http
<1>2. s = s6 \o <<"close">>
  BY <1>1 DEF ListSwipes
<1>3. /\ rows[1] \in {<<>>, <<"tryRead">>, <<"tryRead", "read">>}
      /\ rows[2] \in {<<>>, <<"tryRead">>, <<"tryRead", "read">>}
      /\ rows[3] \in {<<>>, <<"tryRead">>, <<"tryRead", "read">>}
  OBVIOUS
<1>4. Stretch(s0, e, "checkInstance", "open", 0, 1)
  BY Prefixes
<1> HIDE DEF s0
<1>5. Stretch(s1, e, "checkInstance", "closeReader", 0, 1)
  BY <1>3, <1>4, ListSelect
<1> HIDE DEF s1
<1>6. Stretch(s2, e, "checkInstance", "closeReader", 0, 1)
  BY <1>3, <1>5, ListSelect
<1> HIDE DEF s2
<1>7. Stretch(s3, e, "checkInstance", "closeReader", 0, 1)
  BY <1>3, <1>6, ListSelect
<1> HIDE DEF s3
<1>8. /\ Stretch(Query, e, "command", "read", 1, 1)
      /\ Stretch(<<"closeReader">>, e, "closeReader", "closeReader", 1, 1)
      /\ Stretch(<<"http">>, e, "http", "http", 1, 1)
      /\ 1 \in 0..MaxConnects
  BY Pieces DEF MaxConnects
<1>9. Stretch(s4, e, "checkInstance", "read", 0, 1)
  BY <1>7, <1>8, AfterFacts, Then
<1> HIDE DEF s4
<1>10. Stretch(s5, e, "checkInstance", "closeReader", 0, 1)
  BY <1>8, <1>9, AfterFacts, Then
<1> HIDE DEF s5
<1>11. \/ Stretch(s6, e, "checkInstance", "closeReader", 0, 1)
       \/ Stretch(s6, e, "checkInstance", "http", 0, 1)
  <2>1. CASE http = <<>>
    <3>1. s5 \in Seq(Ops)
      BY <1>10 DEF Stretch
    <3>2. s5 \o <<>> = s5
      BY <3>1
    <3> QED BY <2>1, <3>2, <1>10
  <2>2. CASE http = <<"http">>
    BY <2>2, <1>8, <1>10, AfterFacts, Then
  <2> QED BY <2>1, <2>2
<1> HIDE DEF s6
<1>12. Fine(s6 \o <<"close">>, e)
  BY <1>8, <1>11, AfterFacts, Closing
<1> QED BY <1>2, <1>12

\* Whatever an endpoint is to do ends in closing the connection, creates at
\* most MaxConnects connections and reconnects only in AddOwner.
LEMMA ScriptsFine ==
  ASSUME NEW e \in Endpoints, NEW s \in Scripts[e]
  PROVE  Rest(s, e, 0) /\ s # <<>> /\ Head(s) = "checkInstance"
<1>1. e \in DOMAIN Scripts
  BY EndpointsAssumption
<1>2. \/ s \in ReadAll \cup ReadOne \cup BadId
      \/ s \in CreateDog
      \/ e = "CreateOwner" /\ s \in CreateOwner
      \/ s \in SendSwipe
      \/ s \in GetListSwipes
  BY <1>1 DEF Scripts, GetOwners, GetDogs, GetDogByEmail, GetDogId, GetMatchingInfo,
       GetDogIdFromOwner, GetMatchInfo, GetMessageInfo, GetInefficientMessageInfo,
       GetOwnerEmail, GetOwnerID, GetID
<1>3. Fine(s, e)
  BY <1>2, ReadsFine, CreateDogFine, CreateOwnerFine, SendSwipeFine, GetListSwipesFine
<1>4. PICK m \in 0..MaxConnects : Stretch(s, e, "checkInstance", "close", 0, m)
  BY <1>3 DEF Fine
<1> QED BY <1>4, Whole

-----------------------------------------------------------------------------
(***************************************************************************)
(* What the steps of a request have in common.                             *)
(***************************************************************************)
\* What may be the next operation.
LEMMA FollowsFacts ==
  ASSUME NEW e, NEW x, NEW y, Follows(e, x, y)
  PROVE  /\ x = "checkInstance" => y = "createInstance"
         /\ x = "createInstance" => y = "returnInstance"
         /\ x = "returnInstance" => y = "newConnection"
         /\ x = "newConnection" => y = "open"
         /\ x = "open" => y \in {"command", "close"}
         /\ x = "command" => y \in {"execute", "tryExecute"}
         /\ x \in {"execute", "tryExecute"} => y \in {"read", "tryRead", "closeReader"}
         /\ x = "read" => y \in {"tryRead", "closeReader", "close"} \/ (y = "newConnection" /\ e = "CreateOwner")
         /\ x = "tryRead" => y \in {"read", "closeReader", "close"}
         /\ x = "closeReader" => y \in {"command", "http", "close"}
         /\ x = "http" => y = "close"
         /\ x = "close" => y = "checkInstance"
BY DEF Follows, After, Reconnect

\* What is left after the operation of a request that is not answered yet.
LEMMA Advance ==
  ASSUME TypeOK, TodoOK, NEW r \in Requests, todo[r] # <<>>
  PROVE  /\ Op(r) \in Ops
         /\ Tail(todo[r]) \in Seq(Ops)
         /\ Tail(todo[r]) = <<>> => Op(r) = "close"
         /\ Tail(todo[r]) # <<>> => Follows(endpoint[r], Op(r), Head(Tail(todo[r])))
         /\ Tail(todo[r]) # <<>> /\ Reconnect(Op(r), Head(Tail(todo[r]))) => connects[r] <= 1
         /\ Op(r) # "newConnection" => Rest(Tail(todo[r]), endpoint[r], connects[r])
         /\ Op(r) = "newConnection" => connects[r] + 1 <= MaxConnects /\ Rest(Tail(todo[r]), endpoint[r], connects[r] + 1)
<1>1. connects[r] \in 0..MaxConnects
  BY DEF TypeOK
<1>2. Rest(todo[r], endpoint[r], connects[r])
  BY DEF TodoOK
<1> QED BY <1>1, <1>2, RestTail DEF Op

\* Replacing what a request has left.
LEMMA TodoReplaced ==
  ASSUME TypeOK, TodoOK, NEW r \in Requests, todo[r] # <<>>, NEW u,
         todo' = [todo EXCEPT ![r] = u], endpoint' = endpoint,
         \A q \in Requests \ {r} : connects'[q] = connects[q] /\ outcome'[q] = outcome[q],
         Rest(u, endpoint[r], connects'[r]), outcome'[r] = "uncaught" => u = <<>>
  PROVE  /\ TodoOK'
         /\ todo'[r] = u
         /\ \A q \in Requests \ {r} : todo'[q] = todo[q]
<1>1. todo \in [Requests -> Seq(Ops)] /\ u \in Seq(Ops)
  BY DEF TodoOK, Rest
<1>2. todo' \in [Requests -> Seq(Ops)] /\ todo'[r] = u /\ \A q \in Requests \ {r} : todo'[q] = todo[q]
  BY <1>1
<1>3. endpoint[r] # Null
  BY DEF TodoOK
<1>4. ASSUME NEW q \in Requests
      PROVE  /\ Rest(todo'[q], endpoint'[q], connects'[q])
             /\ endpoint'[q] = Null => todo'[q] = <<>> /\ connects'[q] = 0 /\ outcome'[q] = "normal"
             /\ outcome'[q] = "uncaught" => todo'[q] = <<>>
  <2>1. CASE q = r
    BY <2>1, <1>2, <1>3
  <2>2. CASE q # r
    <3>1. Rest(todo[q], endpoint[q], connects[q])
      BY DEF TodoOK
    <3>2. todo'[q] = todo[q] /\ endpoint'[q] = endpoint[q] /\ connects'[q] = connects[q] /\ outcome'[q] = outcome[q]
      BY <2>2, <1>2
    <3> QED BY <3>1, <3>2 DEF TodoOK
  <2> QED BY <2>1, <2>2
<1>5. ASSUME NEW q \in Requests PROVE Rest(todo[q], endpoint[q], connects[q])'
  BY <1>4
<1> QED BY <1>2, <1>4, <1>5 DEF TodoOK

\* A step of request r, as the others see it.
Frame(r) ==
  /\ overlapped' = overlapped /\ endpoint' = endpoint
  /\ _instance # Null => _instance' # Null
  /\ \A q \in Requests \ {r} :
       /\ todo'[q] = todo[q] /\ DB'[q] = DB[q]
       /\ outcome'[q] = outcome[q] /\ faulted'[q] = faulted[q]
  /\ \A i \in Requests : Connection'[i] = Connection[i] \/ Connection'[i] \in {r} \X (1..MaxConnects)
  /\ \A c \in Connections : state'[c] = "open" => state[c] = "open" \/ c[1] = r \/ overlapped[c[1]]

\* Such a step leaves a request alone that was alone, and the other requests
\* as they were.
LEMMA Others ==
  ASSUME IInv, NEW r \in Requests, todo[r] # <<>>, Frame(r)
  PROVE  Alone' /\ \A q \in Requests \ {r} : RequestOK(q)'
<1>1. \A q \in Requests \ {r} : todo[q] # <<>> => overlapped[q] /\ overlapped[r]
  BY DEF IInv, Alone, Active
<1>2. Alone'
  <2>1. \A q \in Active' : q \in Active
    BY DEF Frame, Active
  <2> SUFFICES ASSUME NEW q \in Active', ~overlapped[q] PROVE Active' = {q}
    BY DEF Frame, Alone
  <2>2. Active = {q}
    BY <2>1 DEF IInv, Alone
  <2> QED BY <2>1, <2>2
<1>3. ASSUME NEW q \in Requests \ {r} PROVE RequestOK(q)'
  <2>1. RequestOK(q) /\ todo'[q] = todo[q] /\ DB'[q] = DB[q] /\ overlapped' = overlapped
    BY DEF IInv, Frame
  <2>2. Op(q)' = Op(q)
    BY <2>1 DEF Op
  <2>3. DB[q] \in Requests \cup {Null} /\ Null \notin Connections
    BY NullAssumption DEF IInv, TypeOK
  <2>4. Fetched(q)'
    <3>1. DB[q] # Null /\ Conn(q) # Null => Conn(q)' # Null
      BY <2>1, <2>3 DEF Conn, Frame, Connections
    <3> QED BY <2>1, <2>2, <3>1 DEF RequestOK, Fetched, Frame, Fetching, Connecting
  <2>5. Undisturbed(q)'
    BY <2>1, <1>1 DEF Undisturbed
  <2>6. OpensOwn(q)'
    <3> SUFFICES ASSUME todo[q] # <<>>, Op(q) = "open"
                 PROVE  Conn(q)'[1] = q \/ overlapped[Conn(q)'[1]]
      BY <2>1, <2>2 DEF OpensOwn
    <3>1. DB[q] \in Requests /\ overlapped[r]
      BY <2>1, <2>3, <1>1 DEF RequestOK, Fetched, Fetching
    <3>2. CASE Connection'[DB[q]] = Connection[DB[q]]
      BY <3>2, <2>1 DEF RequestOK, OpensOwn, Conn
    <3>3. CASE Connection'[DB[q]] \in {r} \X (1..MaxConnects)
      BY <3>3, <3>1, <2>1 DEF Conn
    <3> QED BY <3>1, <3>2, <3>3 DEF Frame
  <2>7. Explained(q)'
    BY <2>1 DEF RequestOK, Explained, Frame
  <2>8. OpenOK(q)'
    <3> SUFFICES ASSUME NEW k \in 1..MaxConnects,
                        state'[<<q, k>>] = "open", ~overlapped[q], outcome'[q] # "uncaught"
                 PROVE  endpoint'[q] = "CreateOwner" /\ k = 1
      BY <2>1 DEF OpenOK
    <3>1. <<q, k>> \in Connections /\ <<q, k>>[1] = q
      BY DEF Connections
    <3>2. state[<<q, k>>] = "open" /\ outcome[q] # "uncaught" /\ todo[q] = <<>>
      BY <3>1, <1>1 DEF Frame
    <3> QED BY <3>2, <2>1 DEF RequestOK, OpenOK, Frame
  <2> QED BY <2>4, <2>5, <2>6, <2>7, <2>8 DEF RequestOK
<1> QED BY <1>2, <1>3

\* The pool is not exceeded.
LEMMA Pool ==
  ASSUME IInv,
         \/ \A c \in Connections : state'[c] = "open" => state[c] = "open"
         \/ Cardinality(Open) < MaxPoolSize /\ \E d \in Connections : \A c \in Connections :
              c # d /\ state'[c] = "open" => state[c] = "open"
  PROVE  IsFiniteSet(Open') /\ Cardinality(Open') <= MaxPoolSize
<1>1. IsFiniteSet(Open) /\ Cardinality(Open) \in Nat /\ Cardinality(Open) <= MaxPoolSize /\ MaxPoolSize \in Nat
  BY FS_CardinalityType, PoolAssumption DEF IInv, TypeOK
<1>2. CASE \A c \in Connections : state'[c] = "open" => state[c] = "open"
  <2>1. Open' \subseteq Open
    BY <1>2 DEF Open, Connections, MaxConnects
  <2>2. IsFiniteSet(Open') /\ Cardinality(Open') <= Cardinality(Open)
    BY <1>1, <2>1, FS_Subset
  <2>3. Cardinality(Open') \in Nat
    BY <2>2, FS_CardinalityType
  <2> QED BY <1>1, <2>2, <2>3
<1>3. CASE Cardinality(Open) < MaxPoolSize /\ \E d \in Connections : \A c \in Connections :
              c # d /\ state'[c] = "open" => state[c] = "open"
  <2>1. PICK d \in Connections : \A c \in Connections : c # d /\ state'[c] = "open" => state[c] = "open"
    BY <1>3
  <2>2. Open' \subseteq Open \cup {d}
    BY <2>1 DEF Open, Connections, MaxConnects
  <2>3. /\ IsFiniteSet(Open \cup {d})
        /\ Cardinality(Open \cup {d}) = IF d \in Open THEN Cardinality(Open) ELSE Cardinality(Open) + 1
    BY <1>1, FS_AddElement
  <2>4. IsFiniteSet(Open') /\ Cardinality(Open') <= Cardinality(Open \cup {d})
    BY <2>2, <2>3, FS_Subset
  <2>5. Cardinality(Open') \in Nat
    BY <2>4, FS_CardinalityType
  <2> QED BY <1>1, <1>3, <2>3, <2>4, <2>5
<1> QED BY <1>2, <1>3

\* What remains to be shown of a step.
LEMMA Together ==
  ASSUME IInv, NEW r \in Requests, todo[r] # <<>>, Frame(r),
         TypeOK', IsFiniteSet(Open'), TodoOK', ConnectionsOK', RequestOK(r)'
  PROVE  IInv'
<1>1. Alone' /\ \A q \in Requests \ {r} : RequestOK(q)'
  BY Others
<1>2. \A q \in Requests : RequestOK(q)'
  BY <1>1
<1> QED BY <1>1, <1>2 DEF IInv

(***************************************************************************)
(* The steps.                                                              *)
(***************************************************************************)
\* An exception, of a request that was overlapped or is hit by an external one.
LEMMA ThrowStep ==
  ASSUME IInv, NEW r \in Requests, todo[r] # <<>>, Op(r) \notin Connecting, Throw(r),
         UNCHANGED <<shared, endpoint, locals, overlapped>>,
         faulted' = faulted \/ faulted' = [faulted EXCEPT ![r] = TRUE],
         faults' \in 0..MaxFaults, overlapped[r] \/ faulted'[r]
  PROVE  IInv'
<1> DEFINE u == IF Op(r) \in Tries THEN <<"close">> ELSE <<>>
           o == IF Op(r) \in Tries THEN "caught" ELSE "uncaught"
<1>1. /\ todo' = [todo EXCEPT ![r] = u] /\ outcome' = [outcome EXCEPT ![r] = o]
      /\ u = <<"close">> \/ u = <<>>
      /\ o = "uncaught" => u = <<>>
      /\ o = "caught" \/ o = "uncaught"
  BY DEF Throw
<1> HIDE DEF u, o
<1>2. TypeOK /\ TodoOK /\ ConnectionsOK /\ RequestOK(r)
  BY DEF IInv
<1>3. /\ outcome \in [Requests -> {"normal", "caught", "uncaught"}]
      /\ faulted \in [Requests -> BOOLEAN] /\ connects[r] \in 0..MaxConnects
  BY <1>2 DEF TypeOK
<1>4. outcome'[r] = o /\ \A q \in Requests \ {r} : outcome'[q] = outcome[q] /\ faulted'[q] = faulted[q]
  BY <1>1, <1>3
<1>5. TodoOK' /\ todo'[r] = u /\ \A q \in Requests \ {r} : todo'[q] = todo[q]
  <2>1. Rest(u, endpoint[r], connects'[r])
    BY <1>1, <1>3, RestThrown DEF locals
  <2> QED BY <1>1, <1>2, <1>4, <2>1, TodoReplaced DEF locals
<1>6. Frame(r)
  BY <1>4, <1>5 DEF Frame, shared, locals
<1>7. TypeOK' /\ IsFiniteSet(Open')
  <2>1. outcome' \in [Requests -> {"normal", "caught", "uncaught"}]
    BY <1>1, <1>3
  <2>2. faulted' \in [Requests -> BOOLEAN]
    BY <1>3
  <2>3. IsFiniteSet(Open') /\ Cardinality(Open') <= MaxPoolSize
    BY Pool DEF shared
  <2> QED BY <1>2, <2>1, <2>2, <2>3 DEF TypeOK, shared, locals, Connections, MaxConnects
<1>8. ConnectionsOK'
  BY <1>2 DEF ConnectionsOK, Made, shared, locals
<1>9. RequestOK(r)'
  <2>1. Op(r)' = "close" \/ u = <<>>
    BY <1>1, <1>5 DEF Op
  <2>2. Conn(r)' = Conn(r)
    BY DEF Conn, shared, locals
  <2>3. Fetched(r)'
    BY <1>2, <1>5, <2>1, <2>2 DEF RequestOK, Fetched, Fetching, Connecting, shared, locals
  <2>4. Undisturbed(r)'
    BY <1>2, <1>5, <2>1, <2>2 DEF RequestOK, Undisturbed, Connecting, Fetching, shared, locals
  <2>5. OpensOwn(r)'
    BY <1>5, <2>1 DEF OpensOwn
  <2>6. Explained(r)'
    BY <1>4 DEF Explained
  <2>7. OpenOK(r)'
    <3>1. outcome[r] # "uncaught"
      BY <1>2 DEF TodoOK
    <3>2. outcome'[r] # "uncaught" => u # <<>>
      <4>1. outcome'[r] # "uncaught" => Op(r) \in Tries
        BY <1>4 DEF o
      <4>2. Op(r) \in Tries => u # <<>>
        BY DEF u
      <4> QED BY <4>1, <4>2
    <3> QED BY <1>2, <1>5, <2>1, <2>2, <3>1, <3>2 DEF RequestOK, OpenOK, Connecting, Fetching, shared, locals
  <2> QED BY <2>3, <2>4, <2>5, <2>6, <2>7 DEF RequestOK
<1> QED BY <1>5, <1>6, <1>7, <1>8, <1>9, Together

\* What the operations that return have in common.
LEMMA Continuing ==
  ASSUME IInv, NEW r \in Requests, todo[r] # <<>>, Op(r) # "newConnection", Continue(r),
         endpoint' = endpoint, connects' = connects
  PROVE  /\ TodoOK'
         /\ todo'[r] = Tail(todo[r])
         /\ todo'[r] # <<>> => Op(r)' = Head(Tail(todo[r]))
         /\ todo'[r] # <<>> => Follows(endpoint[r], Op(r), Op(r)')
         /\ todo'[r] # <<>> /\ Reconnect(Op(r), Op(r)') => connects[r] <= 1
         /\ todo'[r] = <<>> => Op(r) = "close"
         /\ \A q \in Requests \ {r} : todo'[q] = todo[q]
         /\ outcome' = outcome
<1>1. TypeOK /\ TodoOK
  BY DEF IInv
<1>2. /\ Tail(todo[r]) = <<>> => Op(r) = "close"
      /\ Tail(todo[r]) # <<>> => Follows(endpoint[r], Op(r), Head(Tail(todo[r])))
      /\ Tail(todo[r]) # <<>> /\ Reconnect(Op(r), Head(Tail(todo[r]))) => connects[r] <= 1
      /\ Rest(Tail(todo[r]), endpoint[r], connects[r])
  BY <1>1, Advance
<1>3. outcome' = outcome /\ todo' = [todo EXCEPT ![r] = Tail(todo[r])]
  BY DEF Continue
<1>4. outcome'[r] = "uncaught" => Tail(todo[r]) = <<>>
  BY <1>1, <1>3 DEF TodoOK
<1>5. TodoOK' /\ todo'[r] = Tail(todo[r]) /\ \A q \in Requests \ {r} : todo'[q] = todo[q]
  BY <1>1, <1>2, <1>3, <1>4, TodoReplaced
<1>6. Op(r)' = Head(Tail(todo[r]))
  BY <1>5 DEF Op
<1> QED BY <1>2, <1>3, <1>5, <1>6

\* reader.Read() with its reader open, and an answer of the matching service.
LEMMA QuietStep ==
  ASSUME IInv, NEW r \in Requests, todo[r] # <<>>, Op(r) \in {"read", "tryRead", "http"}, Continue(r),
         UNCHANGED <<shared, endpoint, locals, history>>
  PROVE  IInv'
<1>1. TypeOK /\ TodoOK /\ ConnectionsOK /\ RequestOK(r)
  BY DEF IInv
<1>2. /\ TodoOK' /\ outcome' = outcome
      /\ todo'[r] # <<>> => Follows(endpoint[r], Op(r), Op(r)')
      /\ todo'[r] # <<>> /\ Reconnect(Op(r), Op(r)') => connects[r] <= 1
      /\ todo'[r] # <<>>
      /\ \A q \in Requests \ {r} : todo'[q] = todo[q]
  BY Continuing DEF locals
<1>3. /\ Op(r) \in {"read", "tryRead"} => Op(r)' \in {"read", "tryRead", "closeReader", "close", "newConnection"}
      /\ Op(r)' = "newConnection" => Op(r) = "read" /\ endpoint[r] = "CreateOwner" /\ connects[r] <= 1
      /\ Op(r) = "http" => Op(r)' = "close"
  BY <1>2, FollowsFacts DEF Reconnect
<1>4. Frame(r)
  BY <1>2 DEF Frame, shared, locals, history
<1>5. TypeOK' /\ IsFiniteSet(Open')
  <2>1. IsFiniteSet(Open') /\ Cardinality(Open') <= MaxPoolSize
    BY Pool DEF shared
  <2> QED BY <1>1, <1>2, <2>1 DEF TypeOK, shared, locals, history, Connections, MaxConnects
<1>6. ConnectionsOK'
  BY <1>1 DEF ConnectionsOK, Made, shared, locals
<1>7. RequestOK(r)'
  <2>1. Conn(r)' = Conn(r)
    BY DEF Conn, shared, locals
  <2>2. Fetched(r)'
    BY <1>1, <1>2, <1>3, <2>1 DEF RequestOK, Fetched, Fetching, Connecting, shared, locals
  <2>3. Undisturbed(r)'
    BY <1>1, <1>2, <1>3, <2>1 DEF RequestOK, Undisturbed, Connecting, Fetching, shared, locals, history
  <2>4. OpensOwn(r)'
    BY <1>2, <1>3 DEF OpensOwn
  <2>5. Explained(r)'
    BY <1>1, <1>2 DEF RequestOK, Explained, history
  <2>6. OpenOK(r)'
    <3> SUFFICES ASSUME NEW k \in 1..MaxConnects,
                        state[<<r, k>>] = "open", ~overlapped[r], outcome[r] # "uncaught"
                 PROVE  \/ endpoint[r] = "CreateOwner" /\ k = 1
                        \/ todo'[r] # <<>> /\ Op(r)' \notin Connecting /\ Conn(r) = <<r, k>>
      BY <1>2, <2>1 DEF OpenOK, shared, history
    <3>1. Conn(r) = <<r, connects[r]>>
      BY <1>1 DEF RequestOK, Undisturbed, Connecting, Fetching
    <3>2. (endpoint[r] = "CreateOwner" /\ k = 1) \/ Conn(r) = <<r, k>>
      BY <1>1 DEF RequestOK, OpenOK
    <3>3. CASE Op(r)' = "newConnection"
      <4>1. Conn(r) = <<r, k>> => k = connects[r]
        BY <3>1
      <4>2. connects[r] <= 1 /\ connects[r] \in Nat /\ k \in Nat /\ k >= 1
        BY <1>1, <1>3, <3>3 DEF TypeOK, MaxConnects
      <4> QED BY <3>2, <3>3, <4>1, <4>2, <1>3
    <3>4. CASE Op(r)' # "newConnection"
      BY <3>2, <3>4, <1>2, <1>3 DEF Connecting, Fetching
    <3> QED BY <3>3, <3>4
  <2> QED BY <2>2, <2>3, <2>4, <2>5, <2>6 DEF RequestOK
<1> QED BY <1>2, <1>4, <1>5, <1>6, <1>7, Together

\* reader.Read(): it throws only if the request was overlapped or hit before.
LEMMA ReadStep ==
  ASSUME IInv, NEW r \in Requests, Read(r)
  PROVE  IInv'
<1>1. todo[r] # <<>> /\ Op(r) \in {"read", "tryRead"} /\ Op(r) \notin Connecting
  BY DEF Read, At, Connecting, Fetching
<1>2. UNCHANGED <<shared, endpoint, locals, history>>
  BY DEF Read
<1>3. CASE reader[cmd[r]] = r
  BY <1>1, <1>2, <1>3, QuietStep DEF Read
<1>4. CASE reader[cmd[r]] # r
  <2>1. overlapped[r] \/ faulted[r]
    BY <1>1, <1>4 DEF IInv, RequestOK, Undisturbed
  <2>2. faults' \in 0..MaxFaults /\ faulted' = faulted
    BY <1>2 DEF IInv, TypeOK, history
  <2> QED BY <1>1, <1>2, <1>4, <2>1, <2>2, ThrowStep DEF Read, history
<1> QED BY <1>3, <1>4

\* The matching service answers.
LEMMA CallServiceStep ==
  ASSUME IInv, NEW r \in Requests, CallService(r)
  PROVE  IInv'
BY QuietStep DEF CallService, At

\* The database, the network or the matching service fails.
LEMMA FaultStep ==
  ASSUME IInv, NEW r \in Requests, Fault(r)
  PROVE  IInv'
<1>1. todo[r] # <<>> /\ Op(r) \notin Connecting
  BY DEF Fault, At, Connecting, Fetching
<1>2. faults' \in 0..MaxFaults /\ faulted \in [Requests -> BOOLEAN]
  BY FaultsAssumption DEF Fault, IInv, TypeOK
<1>3. faulted'[r]
  BY <1>2 DEF Fault
<1> QED BY <1>1, <1>2, <1>3, ThrowStep DEF Fault

\* if (_instance == null): the object is created next only if there is none.
LEMMA CheckInstanceStep ==
  ASSUME IInv, NEW r \in Requests, CheckInstance(r)
  PROVE  IInv'
<1> DEFINE u == IF _instance = Null THEN Tail(todo[r]) ELSE Tail(Tail(todo[r]))
<1>1. /\ todo[r] # <<>> /\ Op(r) = "checkInstance" /\ todo' = [todo EXCEPT ![r] = u]
      /\ UNCHANGED <<shared, endpoint, locals, outcome, history>>
  BY DEF CheckInstance, At
<1>2. TypeOK /\ TodoOK /\ ConnectionsOK /\ RequestOK(r) /\ connects[r] \in 0..MaxConnects
  BY DEF IInv, TypeOK
<1>3. /\ Rest(Tail(todo[r]), endpoint[r], connects[r]) /\ Tail(todo[r]) # <<>>
      /\ Head(Tail(todo[r])) = "createInstance"
  BY <1>1, <1>2, Advance, FollowsFacts
<1>4. /\ Rest(Tail(Tail(todo[r])), endpoint[r], connects[r]) /\ Tail(Tail(todo[r])) # <<>>
      /\ Head(Tail(Tail(todo[r]))) = "returnInstance"
  <2> DEFINE v == Tail(todo[r])
             e == endpoint[r]
             n == connects[r]
  <2>1. Rest(v, e, n) /\ v # <<>> /\ Head(v) = "createInstance" /\ n \in 0..MaxConnects
    BY <1>2, <1>3
  <2> HIDE DEF v, e, n
  <2>2. Rest(Tail(v), e, n) /\ Tail(v) # <<>> /\ Follows(e, Head(v), Head(Tail(v)))
    BY <2>1, RestTail
  <2>3. Head(Tail(v)) = "returnInstance"
    BY <2>1, <2>2, FollowsFacts
  <2> QED BY <2>2, <2>3 DEF v, e, n
<1>5. /\ Rest(u, endpoint[r], connects[r]) /\ u # <<>>
      /\ Head(u) \in {"createInstance", "returnInstance"}
      /\ Head(u) = "returnInstance" => _instance # Null
  BY <1>3, <1>4
<1> HIDE DEF u
<1>6. TodoOK' /\ todo'[r] = u /\ \A q \in Requests \ {r} : todo'[q] = todo[q]
  <2>1. outcome[r] # "uncaught"
    BY <1>1, <1>2 DEF TodoOK
  <2>2. outcome' = outcome /\ connects' = connects /\ endpoint' = endpoint
    BY <1>1 DEF locals
  <2> QED BY <1>1, <1>2, <1>5, <2>1, <2>2, TodoReplaced
<1>7. Frame(r)
  BY <1>1, <1>6 DEF Frame, shared, locals, history
<1>8. TypeOK' /\ IsFiniteSet(Open')
  <2>1. IsFiniteSet(Open') /\ Cardinality(Open') <= MaxPoolSize
    BY <1>1, Pool DEF shared
  <2> QED BY <1>1, <1>2, <2>1 DEF TypeOK, shared, locals, history, Connections, MaxConnects
<1>9. ConnectionsOK'
  BY <1>1, <1>2 DEF ConnectionsOK, Made, shared, locals
<1>10. RequestOK(r)'
  <2>1. Op(r)' \in {"createInstance", "returnInstance"} /\ (Op(r)' = "returnInstance" => _instance' # Null)
    BY <1>1, <1>5, <1>6 DEF Op, shared
  <2>2. Fetched(r)' /\ Undisturbed(r)' /\ OpensOwn(r)'
    BY <2>1 DEF Fetched, Undisturbed, OpensOwn, Connecting, Fetching
  <2>3. Explained(r)'
    BY <1>1, <1>2 DEF RequestOK, Explained, history
  <2>4. OpenOK(r)'
    BY <1>1, <1>2 DEF RequestOK, OpenOK, Connecting, Fetching, shared, history
  <2> QED BY <2>2, <2>3, <2>4 DEF RequestOK
<1> QED BY <1>1, <1>6, <1>7, <1>8, <1>9, <1>10, Together

\* The steps that fetch the singleton.
LEMMA FetchStep ==
  ASSUME IInv, NEW r \in Requests, CreateInstance(r) \/ ReturnInstance(r)
  PROVE  IInv'
<1>1. /\ todo[r] # <<>> /\ Op(r) \in {"createInstance", "returnInstance"} /\ Continue(r)
      /\ UNCHANGED <<Connection, state, reader, endpoint, connects, cmd, history>>
  BY DEF CreateInstance, ReturnInstance, At, shared, locals
<1>2. TypeOK /\ TodoOK /\ ConnectionsOK /\ RequestOK(r)
  BY DEF IInv
<1>3. /\ TodoOK' /\ outcome' = outcome /\ todo'[r] # <<>>
      /\ Follows(endpoint[r], Op(r), Op(r)')
      /\ \A q \in Requests \ {r} : todo'[q] = todo[q]
  BY <1>1, Continuing
<1>4. /\ _instance' \in Requests \cup {Null} /\ DB' \in [Requests -> Requests \cup {Null}]
      /\ _instance # Null => _instance' # Null
      /\ Op(r) = "createInstance" => _instance' # Null
      /\ Op(r) = "returnInstance" => DB'[r] # Null
      /\ \A q \in Requests \ {r} : DB'[q] = DB[q]
  <2>1. _instance \in Requests \cup {Null} /\ DB \in [Requests -> Requests \cup {Null}] /\ r # Null
    BY <1>2, NullAssumption DEF TypeOK
  <2>2. CASE CreateInstance(r)
    BY <2>1, <2>2 DEF CreateInstance, At, locals
  <2>3. CASE ReturnInstance(r)
    <3>1. Op(r) = "returnInstance" /\ _instance # Null
      BY <2>3, <1>1, <1>2 DEF ReturnInstance, At, RequestOK, Fetched
    <3> QED BY <2>1, <2>3, <3>1 DEF ReturnInstance, shared
  <2> QED BY <2>2, <2>3
<1>5. Op(r)' \in {"returnInstance", "newConnection"}
      /\ (Op(r)' = "returnInstance" => Op(r) = "createInstance") /\ (Op(r)' = "newConnection" => Op(r) = "returnInstance")
  BY <1>1, <1>3, FollowsFacts
<1>6. Frame(r)
  BY <1>1, <1>3, <1>4 DEF Frame, history
<1>7. TypeOK' /\ IsFiniteSet(Open')
  <2>1. IsFiniteSet(Open') /\ Cardinality(Open') <= MaxPoolSize
    BY <1>1, Pool
  <2> QED BY <1>1, <1>2, <1>3, <1>4, <2>1 DEF TypeOK, history, Connections, MaxConnects
<1>8. ConnectionsOK'
  BY <1>1, <1>2 DEF ConnectionsOK, Made
<1>9. RequestOK(r)'
  <2>1. Fetched(r)' /\ Undisturbed(r)' /\ OpensOwn(r)'
    BY <1>4, <1>5 DEF Fetched, Undisturbed, OpensOwn, Connecting, Fetching
  <2>2. Explained(r)'
    BY <1>1, <1>2, <1>3 DEF RequestOK, Explained, history
  <2>3. OpenOK(r)'
    BY <1>1, <1>2, <1>3 DEF RequestOK, OpenOK, Connecting, Fetching, history
  <2> QED BY <2>1, <2>2, <2>3 DEF RequestOK
<1> QED BY <1>1, <1>3, <1>6, <1>7, <1>8, <1>9, Together

\* Connection = new MySqlConnection(connstring): the object is new.
LEMMA NewConnectionStep ==
  ASSUME IInv, NEW r \in Requests, NewConnection(r)
  PROVE  IInv'
<1> DEFINE n == connects[r] + 1
           d == <<r, n>>
<1>1. /\ todo[r] # <<>> /\ Op(r) = "newConnection" /\ Continue(r)
      /\ connects' = [connects EXCEPT ![r] = n]
      /\ Connection' = [Connection EXCEPT ![DB[r]] = d]
      /\ state' = [state EXCEPT ![d] = "new"]
      /\ UNCHANGED <<_instance, reader, endpoint, DB, cmd, history>>
  BY DEF NewConnection, At
<1>2. TypeOK /\ TodoOK /\ ConnectionsOK /\ RequestOK(r)
  BY DEF IInv
<1>3. /\ connects \in [Requests -> 0..MaxConnects]
      /\ Connection \in [Requests -> Connections \cup {Null}]
      /\ state \in [Connections -> {"none", "new", "open", "closed"}]
      /\ DB[r] \in Requests \cup {Null}
  BY <1>2 DEF TypeOK
<1>4. DB[r] \in Requests
  BY <1>1, <1>2, <1>3 DEF RequestOK, Fetched, Fetching
<1>5. /\ n \in 1..MaxConnects /\ Rest(Tail(todo[r]), endpoint[r], n) /\ Tail(todo[r]) # <<>>
      /\ Head(Tail(todo[r])) = "open"
  <2>1. connects[r] \in 0..MaxConnects /\ connects[r] + 1 <= MaxConnects /\ Rest(Tail(todo[r]), endpoint[r], n)
    BY <1>1, <1>2, <1>3, Advance
  <2>2. Tail(todo[r]) # <<>> /\ Head(Tail(todo[r])) = "open"
    BY <1>1, <1>2, Advance, FollowsFacts
  <2> QED BY <2>1, <2>2 DEF MaxConnects
<1>6. d \in Connections /\ d[1] = r /\ d[2] = n /\ d # Null
  BY <1>5, NullAssumption DEF Connections
<1>7. ~Made(d) /\ state[d] = "none" /\ reader[d] = Null
  <2>1. ~Made(d)
    BY <1>3, <1>5, <1>6 DEF Made, Numbers, MaxConnects
  <2> QED BY <2>1, <1>2, <1>6 DEF ConnectionsOK
<1> HIDE DEF d
<1>8. /\ connects' \in [Requests -> 0..MaxConnects] /\ connects'[r] = n
      /\ \A q \in Requests \ {r} : connects'[q] = connects[q]
  <2>1. n \in 0..MaxConnects
    BY <1>5 DEF MaxConnects
  <2> HIDE DEF n
  <2> QED BY <1>1, <1>3, <2>1
<1>9. /\ Connection' \in [Requests -> Connections \cup {Null}] /\ Connection'[DB[r]] = d
      /\ \A i \in Requests : i # DB[r] => Connection'[i] = Connection[i]
  BY <1>1, <1>3, <1>4, <1>6
<1>10. /\ state' \in [Connections -> {"none", "new", "open", "closed"}] /\ state'[d] = "new"
       /\ \A c \in Connections : c # d => state'[c] = state[c]
  BY <1>1, <1>3, <1>6
<1>11. TodoOK' /\ todo'[r] = Tail(todo[r]) /\ outcome' = outcome /\ \A q \in Requests \ {r} : todo'[q] = todo[q]
  <2>1. outcome[r] # "uncaught"
    BY <1>1, <1>2 DEF TodoOK
  <2>2. todo' = [todo EXCEPT ![r] = Tail(todo[r])] /\ outcome' = outcome
    BY <1>1 DEF Continue
  <2> QED BY <1>1, <1>2, <1>5, <1>8, <2>1, <2>2, TodoReplaced
<1>12. Op(r)' = "open" /\ todo'[r] # <<>>
  BY <1>5, <1>11 DEF Op
<1>13. Frame(r)
  <2>1. d \in {r} \X (1..MaxConnects)
    BY <1>5 DEF d
  <2>2. \A i \in Requests : Connection'[i] = Connection[i] \/ Connection'[i] \in {r} \X (1..MaxConnects)
    BY <2>1, <1>9
  <2>3. \A c \in Connections : state'[c] = "open" => state[c] = "open"
    BY <1>10
  <2> QED BY <1>1, <1>11, <2>2, <2>3 DEF Frame, history
<1>14. TypeOK' /\ IsFiniteSet(Open')
  <2>1. \A c \in Connections : state'[c] = "open" => state[c] = "open"
    BY <1>10
  <2>2. IsFiniteSet(Open') /\ Cardinality(Open') <= MaxPoolSize
    BY <2>1, Pool
  <2> QED BY <1>1, <1>2, <1>8, <1>9, <1>10, <1>11, <2>2 DEF TypeOK, history, Connections, MaxConnects
<1>15. ConnectionsOK'
  <2>1. ASSUME NEW c, Numbers(connects, c) PROVE Numbers(connects', c)
    <3>1. c \in Connections /\ c[1] \in Requests /\ c[2] \in Nat /\ c[2] <= connects[c[1]]
      BY <2>1 DEF Numbers, Connections, MaxConnects
    <3>2. connects[c[1]] \in Nat /\ connects'[c[1]] \in Nat /\ connects[c[1]] <= connects'[c[1]]
      BY <3>1, <1>3, <1>8 DEF MaxConnects
    <3>3. c[2] <= connects'[c[1]]
      BY <3>1, <3>2
    <3> QED BY <3>1, <3>3 DEF Numbers
  <2>2. Numbers(connects', d)
    BY <1>6, <1>8, <1>5 DEF Numbers, MaxConnects
  <2>3. \A i \in Requests : Connection'[i] # Null => Numbers(connects', Connection'[i])
    BY <2>1, <2>2, <1>2, <1>9 DEF ConnectionsOK, Made
  <2>4. \A q \in Requests : cmd'[q] # Null => Numbers(connects', cmd'[q])
    BY <2>1, <1>1, <1>2 DEF ConnectionsOK, Made
  <2>5. \A c \in Connections : ~Numbers(connects', c) => state'[c] = "none" /\ reader'[c] = Null
    BY <2>1, <2>2, <1>1, <1>2, <1>10 DEF ConnectionsOK, Made
  <2> QED BY <2>3, <2>4, <2>5 DEF ConnectionsOK, Made, Connections, MaxConnects
<1>16. RequestOK(r)'
  <2>1. Conn(r)' = d
    BY <1>1, <1>9 DEF Conn
  <2>2. Fetched(r)'
    BY <1>1, <1>4, <1>6, <1>12, <2>1, NullAssumption DEF Fetched
  <2>3. Undisturbed(r)'
    BY <1>1, <1>7, <1>8, <1>10, <1>12, <2>1 DEF Undisturbed, d
  <2>4. OpensOwn(r)'
    BY <1>6, <2>1 DEF OpensOwn
  <2>5. Explained(r)'
    BY <1>1, <1>2, <1>11 DEF RequestOK, Explained, history
  <2>6. OpenOK(r)'
    <3> SUFFICES ASSUME NEW k \in 1..MaxConnects,
                        state'[<<r, k>>] = "open", ~overlapped[r], outcome[r] # "uncaught"
                 PROVE  endpoint[r] = "CreateOwner" /\ k = 1
      BY <1>1, <1>11 DEF OpenOK, history
    <3>1. <<r, k>> \in Connections
      BY DEF Connections
    <3>2. state[<<r, k>>] = "open"
      BY <3>1, <1>10
    <3> QED BY <3>2, <1>1, <1>2 DEF RequestOK, OpenOK, Connecting
  <2> QED BY <2>2, <2>3, <2>4, <2>5, <2>6 DEF RequestOK
<1> QED BY <1>1, <1>11, <1>13, <1>14, <1>15, <1>16, Together

\* Connection.Open(): it opens the connection of a request that is not overlapped
\* only for that request, and refuses it only if somebody else had opened it.
LEMMA OpenConnectionStep ==
  ASSUME IInv, NEW r \in Requests, OpenConnection(r)
  PROVE  IInv'
<1> DEFINE d == Conn(r)
<1>1. /\ todo[r] # <<>> /\ Op(r) = "open" /\ Op(r) \notin Connecting
      /\ UNCHANGED <<_instance, Connection, reader, endpoint, locals, overlapped, faults>>
  BY DEF OpenConnection, At, Connecting, Fetching
<1>2. TypeOK /\ TodoOK /\ ConnectionsOK /\ RequestOK(r)
  BY DEF IInv
<1>3. /\ state \in [Connections -> {"none", "new", "open", "closed"}] /\ DB[r] \in Requests
      /\ d \in Connections /\ faulted \in [Requests -> BOOLEAN] /\ faults \in 0..MaxFaults
  BY <1>1, <1>2 DEF TypeOK, RequestOK, Fetched, Connecting, Fetching, Conn
<1>4. d[1] = r \/ overlapped[d[1]]
  BY <1>1, <1>2 DEF RequestOK, OpensOwn
<1>5. CASE /\ state[d] # "open" /\ Cardinality(Open) < MaxPoolSize
           /\ state' = [state EXCEPT ![d] = "open"] /\ Continue(r) /\ faulted' = faulted
  <2>1. /\ state' \in [Connections -> {"none", "new", "open", "closed"}] /\ state'[d] = "open"
        /\ \A c \in Connections : c # d => state'[c] = state[c]
    <3> HIDE DEF d
    <3> QED BY <1>3, <1>5
  <2>2. /\ TodoOK' /\ outcome' = outcome /\ todo'[r] # <<>>
        /\ Op(r)' \in {"command", "close"}
        /\ \A q \in Requests \ {r} : todo'[q] = todo[q]
    BY <1>1, <1>5, Continuing, FollowsFacts DEF locals
  <2>3. Frame(r)
    <3> HIDE DEF d
    <3> QED BY <1>1, <1>4, <1>5, <2>1, <2>2 DEF Frame, locals
  <2>4. TypeOK' /\ IsFiniteSet(Open')
    <3>1. IsFiniteSet(Open') /\ Cardinality(Open') <= MaxPoolSize
      BY <1>3, <1>5, <2>1, Pool
    <3> QED BY <1>1, <1>2, <1>5, <2>1, <2>2, <3>1 DEF TypeOK, locals, Connections, MaxConnects
  <2>5. Made(d)
    BY <1>3, <1>2, NullAssumption DEF ConnectionsOK, Conn
  <2>6. ConnectionsOK'
    <3> HIDE DEF d
    <3> QED BY <1>1, <1>2, <2>1, <2>5 DEF ConnectionsOK, Made, locals
  <2>7. Conn(r)' = d
    BY <1>1 DEF Conn, locals
  <2>8. RequestOK(r)'
    <3>1. Fetched(r)'
      BY <1>1, <1>2, <2>2, <2>7 DEF RequestOK, Fetched, Connecting, Fetching, locals
    <3>2. Undisturbed(r)'
      BY <1>1, <1>2, <1>5, <2>1, <2>2, <2>7 DEF RequestOK, Undisturbed, Connecting, Fetching, locals
    <3>3. OpensOwn(r)'
      BY <2>2 DEF OpensOwn
    <3>4. Explained(r)'
      BY <1>1, <1>2, <1>5, <2>2 DEF RequestOK, Explained
    <3>5. OpenOK(r)'
      <4> SUFFICES ASSUME NEW k \in 1..MaxConnects,
                          state'[<<r, k>>] = "open", ~overlapped[r], outcome[r] # "uncaught"
                   PROVE  (endpoint[r] = "CreateOwner" /\ k = 1) \/ d = <<r, k>>
        BY <1>1, <2>2, <2>7 DEF OpenOK, Connecting, Fetching
      <4>1. <<r, k>> \in Connections
        BY DEF Connections
      <4>2. CASE state[<<r, k>>] = "open"
        BY <4>2, <1>2 DEF RequestOK, OpenOK
      <4>3. CASE state[<<r, k>>] # "open"
        BY <4>1, <4>3, <2>1
      <4> QED BY <4>2, <4>3
    <3> QED BY <3>1, <3>2, <3>3, <3>4, <3>5 DEF RequestOK
  <2> QED BY <1>1, <2>2, <2>3, <2>4, <2>6, <2>8, Together
<1>6. CASE state[d] = "open" /\ Throw(r) /\ UNCHANGED <<state, faulted>>
  <2>1. overlapped[r] \/ faulted[r]
    BY <1>1, <1>2, <1>6 DEF RequestOK, Undisturbed
  <2> QED BY <1>1, <1>3, <1>6, <2>1, ThrowStep DEF shared
<1>7. CASE Throw(r) /\ faulted' = [faulted EXCEPT ![r] = TRUE] /\ UNCHANGED state
  <2>1. faulted'[r]
    BY <1>3, <1>7
  <2> QED BY <1>1, <1>3, <1>7, <2>1, ThrowStep DEF shared
<1> QED BY <1>5, <1>6, <1>7 DEF OpenConnection, Conn

\* new MySqlCommand(query, DB.Connection).
LEMMA CommandStep ==
  ASSUME IInv, NEW r \in Requests, Command(r)
  PROVE  IInv'
<1>1. /\ todo[r] # <<>> /\ Op(r) = "command" /\ Continue(r) /\ cmd' = [cmd EXCEPT ![r] = Conn(r)]
      /\ UNCHANGED <<shared, endpoint, DB, connects, history>>
  BY DEF Command, At, Conn
<1>2. TypeOK /\ TodoOK /\ ConnectionsOK /\ RequestOK(r)
  BY DEF IInv
<1>3. DB[r] \in Requests /\ Conn(r) \in Connections /\ Conn(r) # Null /\ cmd \in [Requests -> Connections \cup {Null}]
  BY <1>1, <1>2 DEF TypeOK, RequestOK, Fetched, Connecting, Fetching, Conn
<1>4. /\ cmd' \in [Requests -> Connections \cup {Null}] /\ cmd'[r] = Conn(r)
      /\ \A q \in Requests \ {r} : cmd'[q] = cmd[q]
  BY <1>1, <1>3
<1>5. /\ TodoOK' /\ outcome' = outcome /\ todo'[r] # <<>>
      /\ Op(r)' \in {"execute", "tryExecute"}
      /\ \A q \in Requests \ {r} : todo'[q] = todo[q]
  BY <1>1, Continuing, FollowsFacts
<1>6. Frame(r)
  BY <1>1, <1>5 DEF Frame, shared, history
<1>7. TypeOK' /\ IsFiniteSet(Open')
  <2>1. IsFiniteSet(Open') /\ Cardinality(Open') <= MaxPoolSize
    BY <1>1, Pool DEF shared
  <2> QED BY <1>1, <1>2, <1>4, <1>5, <2>1 DEF TypeOK, shared, history, Connections, MaxConnects
<1>8. ConnectionsOK'
  <2>1. Made(Conn(r))
    BY <1>2, <1>3 DEF ConnectionsOK, Conn
  <2> QED BY <1>1, <1>2, <1>4, <2>1 DEF ConnectionsOK, Made, shared
<1>9. RequestOK(r)'
  <2>1. Conn(r)' = Conn(r)
    BY <1>1 DEF Conn, shared
  <2>2. Fetched(r)'
    BY <1>1, <1>3, <1>5, <2>1, NullAssumption DEF Fetched
  <2>3. Undisturbed(r)'
    BY <1>1, <1>2, <1>4, <1>5, <2>1 DEF RequestOK, Undisturbed, Connecting, Fetching, shared, history
  <2>4. OpensOwn(r)'
    BY <1>5 DEF OpensOwn
  <2>5. Explained(r)'
    BY <1>1, <1>2, <1>5 DEF RequestOK, Explained, history
  <2>6. OpenOK(r)'
    BY <1>1, <1>2, <1>5, <2>1 DEF RequestOK, OpenOK, Connecting, Fetching, shared, history
  <2> QED BY <2>2, <2>3, <2>4, <2>5, <2>6 DEF RequestOK
<1> QED BY <1>1, <1>5, <1>6, <1>7, <1>8, <1>9, Together

\* The steps that only touch a reader: a command that is executed and a
\* reader that is closed.
LEMMA ReaderStep ==
  ASSUME IInv, NEW r \in Requests, todo[r] # <<>>, Op(r) \in {"execute", "tryExecute", "closeReader"}, Continue(r),
         UNCHANGED <<_instance, Connection, state, endpoint, locals, history>>,
         \/ Op(r) # "closeReader" /\ reader' = [reader EXCEPT ![cmd[r]] = r]
         \/ Op(r) = "closeReader" /\ reader' = (IF reader[cmd[r]] = r THEN [reader EXCEPT ![cmd[r]] = Null] ELSE reader)
  PROVE  IInv'
<1>1. TypeOK /\ TodoOK /\ ConnectionsOK /\ RequestOK(r)
  BY DEF IInv
<1>2. /\ TodoOK' /\ outcome' = outcome /\ todo'[r] # <<>>
      /\ Op(r) # "closeReader" => Op(r)' \in {"read", "tryRead", "closeReader"}
      /\ Op(r) = "closeReader" => Op(r)' \in {"command", "http", "close"}
      /\ \A q \in Requests \ {r} : todo'[q] = todo[q]
  BY Continuing, FollowsFacts DEF locals
<1>3. reader \in [Connections -> Requests \cup {Null}]
  BY <1>1 DEF TypeOK
<1>4. /\ reader' \in [Connections -> Requests \cup {Null}]
      /\ \A c \in Connections : c # cmd[r] => reader'[c] = reader[c]
      /\ cmd[r] \in Connections => (Op(r) # "closeReader" => reader'[cmd[r]] = r)
                                /\ (Op(r) = "closeReader" /\ reader[cmd[r]] = r => reader'[cmd[r]] = Null)
  <2> DEFINE d == cmd[r]
  <2>1. CASE Op(r) # "closeReader"
    <3>1. reader' = [reader EXCEPT ![d] = r]
      BY <2>1
    <3> HIDE DEF d
    <3>2. /\ reader' \in [Connections -> Requests \cup {Null}]
          /\ \A c \in Connections : c # d => reader'[c] = reader[c]
          /\ d \in Connections => reader'[d] = r
      BY <3>1, <1>3
    <3> QED BY <2>1, <3>2 DEF d
  <2>2. CASE Op(r) = "closeReader" /\ reader[d] = r
    <3>1. reader' = [reader EXCEPT ![d] = Null]
      BY <2>2
    <3> HIDE DEF d
    <3>2. /\ reader' \in [Connections -> Requests \cup {Null}]
          /\ \A c \in Connections : c # d => reader'[c] = reader[c]
          /\ d \in Connections => reader'[d] = Null
      BY <3>1, <1>3
    <3> QED BY <2>2, <3>2 DEF d
  <2>3. CASE Op(r) = "closeReader" /\ reader[d] # r
    BY <2>3, <1>3
  <2> QED BY <2>1, <2>2, <2>3
<1>5. Frame(r)
  BY <1>2 DEF Frame, locals, history
<1>6. TypeOK' /\ IsFiniteSet(Open')
  <2>1. IsFiniteSet(Open') /\ Cardinality(Open') <= MaxPoolSize
    BY Pool
  <2> QED BY <1>1, <1>2, <1>4, <2>1 DEF TypeOK, locals, history, Connections, MaxConnects
<1>7. ConnectionsOK'
  <2>1. \A c \in Connections : ~Made(c) => reader'[c] = Null
    BY <1>1, <1>4, NullAssumption DEF ConnectionsOK
  <2> QED BY <1>1, <2>1 DEF ConnectionsOK, Made, locals
<1>8. RequestOK(r)'
  <2>1. Conn(r)' = Conn(r)
    BY DEF Conn, locals
  <2>2. Fetched(r)'
    BY <1>1, <1>2, <2>1 DEF RequestOK, Fetched, Fetching, Connecting, locals
  <2>3. Undisturbed(r)'
    <3> SUFFICES ASSUME ~overlapped[r] PROVE Undisturbed(r)'
      BY DEF Undisturbed, history
    <3>1. Conn(r) = <<r, connects[r]>>
      BY <1>1 DEF RequestOK, Undisturbed, Connecting, Fetching
    <3>2. ~faulted[r] => /\ state[Conn(r)] = "open" /\ cmd[r] = Conn(r)
                         /\ Op(r) = "closeReader" => reader[cmd[r]] = r
      BY <1>1 DEF RequestOK, Undisturbed
    <3>3. Conn(r) \in Connections
      BY <1>1 DEF TypeOK, RequestOK, Fetched, Fetching, Connecting, Conn
    <3> QED BY <1>2, <1>4, <2>1, <3>1, <3>2, <3>3 DEF Undisturbed, Connecting, Fetching, locals, history
  <2>4. OpensOwn(r)'
    BY <1>2 DEF OpensOwn
  <2>5. Explained(r)'
    BY <1>1, <1>2 DEF RequestOK, Explained, history
  <2>6. OpenOK(r)'
    BY <1>1, <1>2, <2>1 DEF RequestOK, OpenOK, Connecting, Fetching, history
  <2> QED BY <2>2, <2>3, <2>4, <2>5, <2>6 DEF RequestOK
<1> QED BY <1>2, <1>5, <1>6, <1>7, <1>8, Together

\* cmd.ExecuteReader(): refused only if the request was overlapped or hit before.
LEMMA ExecuteStep ==
  ASSUME IInv, NEW r \in Requests, Execute(r)
  PROVE  IInv'
<1>1. /\ todo[r] # <<>> /\ Op(r) \in {"execute", "tryExecute"} /\ Op(r) \notin Connecting
      /\ UNCHANGED <<_instance, Connection, state, endpoint, locals, history>>
  BY DEF Execute, At, Connecting, Fetching
<1>2. CASE state[cmd[r]] = "open" /\ reader[cmd[r]] = Null
  BY <1>1, <1>2, ReaderStep DEF Execute
<1>3. CASE ~(state[cmd[r]] = "open" /\ reader[cmd[r]] = Null)
  <2>1. overlapped[r] \/ faulted[r]
    BY <1>1, <1>3 DEF IInv, RequestOK, Undisturbed
  <2>2. faults' \in 0..MaxFaults /\ faulted' = faulted /\ overlapped' = overlapped
    BY <1>1 DEF IInv, TypeOK, history
  <2>3. Throw(r) /\ UNCHANGED <<shared, endpoint, locals, overlapped>>
    BY <1>1, <1>3, <2>2 DEF Execute, shared
  <2> QED BY <1>1, <2>1, <2>2, <2>3, ThrowStep
<1> QED BY <1>2, <1>3

\* reader.Close().
LEMMA CloseReaderStep ==
  ASSUME IInv, NEW r \in Requests, CloseReader(r)
  PROVE  IInv'
BY ReaderStep DEF CloseReader, At

\* Connection.Close().
LEMMA CloseStep ==
  ASSUME IInv, NEW r \in Requests, Close(r)
  PROVE  IInv'
<1> DEFINE d == Conn(r)
<1>1. /\ todo[r] # <<>> /\ Op(r) = "close" /\ Op(r) \notin Connecting /\ Continue(r)
      /\ state' = [state EXCEPT ![d] = "closed"] /\ reader' = [reader EXCEPT ![d] = Null]
      /\ UNCHANGED <<_instance, Connection, endpoint, locals, history>>
  BY DEF Close, At, Connecting, Fetching, Conn
<1>2. TypeOK /\ TodoOK /\ ConnectionsOK /\ RequestOK(r)
  BY DEF IInv
<1>3. /\ state \in [Connections -> {"none", "new", "open", "closed"}] /\ DB[r] \in Requests
      /\ d \in Connections /\ d # Null /\ reader \in [Connections -> Requests \cup {Null}]
  BY <1>1, <1>2 DEF TypeOK, RequestOK, Fetched, Connecting, Fetching, Conn
<1>4. Made(d)
  BY <1>2, <1>3 DEF ConnectionsOK, Conn
<1>5. /\ state' \in [Connections -> {"none", "new", "open", "closed"}] /\ state'[d] = "closed"
      /\ \A c \in Connections : c # d => state'[c] = state[c] /\ reader'[c] = reader[c]
      /\ reader' \in [Connections -> Requests \cup {Null}]
  <2> HIDE DEF d
  <2> QED BY <1>1, <1>3
<1>6. /\ TodoOK' /\ outcome' = outcome
      /\ todo'[r] # <<>> => Op(r)' = "checkInstance"
      /\ \A q \in Requests \ {r} : todo'[q] = todo[q]
  BY <1>1, Continuing, FollowsFacts DEF locals
<1>7. \A c \in Connections : state'[c] = "open" => state[c] = "open"
  BY <1>5
<1>8. Frame(r)
  BY <1>1, <1>6, <1>7 DEF Frame, locals, history
<1>9. TypeOK' /\ IsFiniteSet(Open')
  <2>1. IsFiniteSet(Open') /\ Cardinality(Open') <= MaxPoolSize
    BY <1>7, Pool
  <2> QED BY <1>1, <1>2, <1>5, <1>6, <2>1 DEF TypeOK, locals, history, Connections, MaxConnects
<1>10. ConnectionsOK'
  <2> HIDE DEF d
  <2> QED BY <1>1, <1>2, <1>4, <1>5 DEF ConnectionsOK, Made, locals
<1>11. RequestOK(r)'
  <2>1. Fetched(r)' /\ Undisturbed(r)' /\ OpensOwn(r)'
    BY <1>6 DEF Fetched, Undisturbed, OpensOwn, Connecting, Fetching
  <2>2. Explained(r)'
    BY <1>1, <1>2, <1>6 DEF RequestOK, Explained, history
  <2>3. OpenOK(r)'
    <3> SUFFICES ASSUME NEW k \in 1..MaxConnects,
                        state'[<<r, k>>] = "open", ~overlapped[r], outcome[r] # "uncaught"
                 PROVE  endpoint[r] = "CreateOwner" /\ k = 1
      BY <1>1, <1>6 DEF OpenOK, history
    <3>1. <<r, k>> \in Connections
      BY DEF Connections
    <3>2. state[<<r, k>>] = "open" /\ d # <<r, k>>
      BY <3>1, <1>5
    <3> QED BY <3>2, <1>2 DEF RequestOK, OpenOK
  <2> QED BY <2>1, <2>2, <2>3 DEF RequestOK
<1> QED BY <1>1, <1>6, <1>8, <1>9, <1>10, <1>11, Together

\* A request arrives.
LEMMA ReceiveStep ==
  ASSUME IInv, NEW r \in Requests, NEW e \in Endpoints, Receive(r, e)
  PROVE  IInv'
<1>1. PICK script \in Scripts[e] : todo' = [todo EXCEPT ![r] = script]
  BY DEF Receive
<1>2. /\ endpoint[r] = Null /\ endpoint' = [endpoint EXCEPT ![r] = e]
      /\ overlapped' = [q \in Requests |-> IF q = r THEN Active # {} ELSE overlapped[q] \/ q \in Active]
      /\ UNCHANGED <<shared, locals, outcome, faulted, faults>>
  BY DEF Receive
<1>3. TypeOK /\ TodoOK /\ ConnectionsOK /\ Alone /\ \A q \in Requests : RequestOK(q)
  BY DEF IInv
<1>4. todo[r] = <<>> /\ connects[r] = 0 /\ outcome[r] = "normal"
  BY <1>2, <1>3 DEF TodoOK
<1>5. Rest(script, e, 0) /\ script # <<>> /\ Head(script) = "checkInstance" /\ script \in Seq(Ops)
  BY ScriptsFine DEF Rest
<1>6. /\ todo' \in [Requests -> Seq(Ops)] /\ todo'[r] = script
      /\ \A q \in Requests \ {r} : todo'[q] = todo[q]
  BY <1>1, <1>3, <1>5 DEF TodoOK
<1>7. /\ endpoint' \in [Requests -> Endpoints \cup {Null}] /\ endpoint'[r] = e /\ e # Null
      /\ \A q \in Requests \ {r} : endpoint'[q] = endpoint[q]
  BY <1>2, <1>3, NullAssumption DEF TypeOK
<1>8. /\ overlapped' \in [Requests -> BOOLEAN] /\ (overlapped'[r] <=> Active # {})
      /\ \A q \in Requests \ {r} : overlapped'[q] <=> (overlapped[q] \/ q \in Active)
  <2>1. overlapped \in [Requests -> BOOLEAN]
    BY <1>3 DEF TypeOK
  <2> QED BY <1>2, <2>1
<1>9. TypeOK' /\ IsFiniteSet(Open')
  <2>1. IsFiniteSet(Open') /\ Cardinality(Open') <= MaxPoolSize
    BY <1>2, Pool DEF shared
  <2> QED BY <1>2, <1>3, <1>7, <1>8, <2>1 DEF TypeOK, shared, locals, Connections, MaxConnects
<1>10. TodoOK'
  <2>1. ASSUME NEW q \in Requests
        PROVE  /\ Rest(todo'[q], endpoint'[q], connects'[q])
               /\ endpoint'[q] = Null => todo'[q] = <<>> /\ connects'[q] = 0 /\ outcome'[q] = "normal"
               /\ outcome'[q] = "uncaught" => todo'[q] = <<>>
    <3>1. CASE q = r
      BY <3>1, <1>2, <1>4, <1>5, <1>6, <1>7 DEF locals
    <3>2. CASE q # r
      <4>1. Rest(todo[q], endpoint[q], connects[q])
        BY <1>3 DEF TodoOK
      <4>2. todo'[q] = todo[q] /\ endpoint'[q] = endpoint[q] /\ connects'[q] = connects[q] /\ outcome'[q] = outcome[q]
        BY <3>2, <1>2, <1>6, <1>7 DEF locals
      <4> QED BY <4>1, <4>2, <1>3 DEF TodoOK
    <3> QED BY <3>1, <3>2
  <2> QED BY <2>1, <1>6 DEF TodoOK
<1>11. ConnectionsOK'
  BY <1>2, <1>3 DEF ConnectionsOK, Made, shared, locals
<1>12. Active' = Active \cup {r} /\ r \notin Active
  BY <1>4, <1>5, <1>6 DEF Active
<1>13. Alone'
  <2> SUFFICES ASSUME NEW q \in Active', ~overlapped'[q] PROVE Active' = {q}
    BY DEF Alone
  <2>1. CASE q = r
    BY <2>1, <1>8, <1>12
  <2>2. CASE q # r
    BY <2>2, <1>8, <1>12 DEF Active
  <2> QED BY <2>1, <2>2
<1>14. ASSUME NEW q \in Requests PROVE RequestOK(q)'
  <2>1. Conn(q)' = Conn(q)
    BY <1>2 DEF Conn, shared, locals
  <2>2. CASE q = r
    <3>1. Op(q)' = "checkInstance"
      BY <2>2, <1>5, <1>6 DEF Op
    <3>2. Fetched(q)' /\ Undisturbed(q)' /\ OpensOwn(q)'
      BY <3>1 DEF Fetched, Undisturbed, OpensOwn, Connecting, Fetching
    <3>3. Explained(q)'
      BY <2>2, <1>2, <1>4 DEF Explained
    <3>4. OpenOK(q)'
      <4> SUFFICES ASSUME NEW k \in 1..MaxConnects PROVE state[<<r, k>>] # "open"
        BY <2>2, <1>2 DEF OpenOK, shared
      <4>1. <<r, k>> \in Connections /\ ~Made(<<r, k>>)
        BY <1>4 DEF Connections, Made, Numbers, MaxConnects
      <4> QED BY <4>1, <1>3 DEF ConnectionsOK
    <3> QED BY <3>2, <3>3, <3>4 DEF RequestOK
  <2>3. CASE q # r
    <3>1. /\ RequestOK(q) /\ todo'[q] = todo[q] /\ endpoint'[q] = endpoint[q]
          /\ overlapped'[q] <=> (overlapped[q] \/ todo[q] # <<>>)
      BY <2>3, <1>3, <1>6, <1>7, <1>8 DEF Active
    <3>2. Op(q)' = Op(q)
      BY <3>1 DEF Op
    <3>3. Fetched(q)'
      BY <1>2, <3>1, <3>2, <2>1 DEF RequestOK, Fetched, shared, locals
    <3>4. Undisturbed(q)'
      BY <3>1 DEF Undisturbed
    <3>5. OpensOwn(q)'
      <4> SUFFICES ASSUME todo[q] # <<>>, Op(q) = "open"
                   PROVE  Conn(q)[1] = q \/ overlapped'[Conn(q)[1]]
        BY <3>1, <3>2, <2>1 DEF OpensOwn
      <4>1. Conn(q)[1] = q \/ overlapped[Conn(q)[1]]
        BY <3>1 DEF RequestOK, OpensOwn
      <4>2. Conn(q) \in Connections
        BY <1>3, <3>1 DEF TypeOK, RequestOK, Fetched, Fetching, Connecting, Conn
      <4>3. Conn(q)[1] \in Requests /\ q \in Active
        BY <4>2 DEF Connections, Active
      <4> QED BY <4>1, <4>3, <1>8
    <3>6. Explained(q)'
      BY <1>2, <3>1 DEF RequestOK, Explained
    <3>7. OpenOK(q)'
      BY <1>2, <3>1 DEF RequestOK, OpenOK, shared
    <3> QED BY <3>3, <3>4, <3>5, <3>6, <3>7 DEF RequestOK
  <2> QED BY <2>2, <2>3
<1> QED BY <1>9, <1>10, <1>11, <1>13, <1>14 DEF IInv

-----------------------------------------------------------------------------
\* Nothing has been received, created or opened.
LEMMA InitOK == Init => IInv
<1> SUFFICES ASSUME Init PROVE IInv
  OBVIOUS
<1>1. Open = {}
  BY DEF Init, Open
<1>2. IsFiniteSet(Open) /\ Cardinality(Open) = 0
  BY <1>1, FS_EmptySet
<1>3. TypeOK
  BY <1>2, PoolAssumption, FaultsAssumption DEF Init, TypeOK, MaxConnects
<1>4. TodoOK
  <2>1. 0 \in 0..MaxConnects
    BY DEF MaxConnects
  <2>2. <<>> \in Seq(Ops)
    OBVIOUS
  <2>3. \A r \in Requests : todo[r] = <<>> /\ connects[r] = 0 /\ outcome[r] = "normal"
    BY DEF Init
  <2>4. \A r \in Requests : Rest(todo[r], endpoint[r], connects[r])
    BY <2>1, <2>3, RestThrown
  <2>5. todo \in [Requests -> Seq(Ops)]
    BY <2>2 DEF Init
  <2> QED BY <2>3, <2>4, <2>5 DEF TodoOK
<1>5. ConnectionsOK
  BY DEF Init, ConnectionsOK
<1>6. Active = {} /\ Alone
  BY DEF Init, Active, Alone
<1>7. ASSUME NEW r \in Requests PROVE RequestOK(r)
  <2>1. todo[r] = <<>> /\ outcome[r] = "normal"
    BY DEF Init
  <2>2. \A k \in 1..MaxConnects : <<r, k>> \in Connections /\ state[<<r, k>>] # "open"
    BY DEF Init, Connections
  <2> QED BY <2>1, <2>2 DEF RequestOK, Fetched, Undisturbed, OpensOwn, Explained, OpenOK
<1> QED BY <1>2, <1>3, <1>4, <1>5, <1>6, <1>7 DEF IInv

\* Whatever is not a step leaves everything as it was.
LEMMA StutterStep == ASSUME IInv, UNCHANGED vars PROVE IInv'
<1>1. UNCHANGED <<_instance, Connection, state, reader, endpoint, todo, DB, connects, cmd,
                  outcome, overlapped, faulted, faults>>
  BY DEF vars, shared, locals, history
<1>2. Open' = Open /\ Active' = Active
  BY <1>1 DEF Open, Active, Connections, MaxConnects
<1>3. \A r \in Requests : RequestOK(r)'
  BY <1>1 DEF IInv, RequestOK, Fetched, Undisturbed, OpensOwn, Explained, OpenOK, Conn, Op
<1>4. TypeOK' /\ TodoOK' /\ ConnectionsOK' /\ Alone'
  BY <1>1, <1>2 DEF IInv, TypeOK, TodoOK, ConnectionsOK, Alone, Made
<1> QED BY <1>2, <1>3, <1>4 DEF IInv

\* However the threads interleave, whatever fails and however large the pool:
\* the inductive invariant always holds.
THEOREM Invariance == Spec => []IInv
<1>1. Init => IInv
  BY InitOK
<1>2. IInv /\ [Next]_vars => IInv'
  <2> SUFFICES ASSUME IInv, [Next]_vars PROVE IInv'
    OBVIOUS
  <2>1. ASSUME NEW r \in Requests, NEW e \in Endpoints, Receive(r, e) PROVE IInv'
    BY <2>1, ReceiveStep
  <2>2. ASSUME NEW r \in Requests, Step(r) PROVE IInv'
    BY <2>2, CheckInstanceStep, FetchStep, NewConnectionStep, OpenConnectionStep, CommandStep,
       ExecuteStep, ReadStep, CloseReaderStep, CallServiceStep, CloseStep, FaultStep DEF Step
  <2>3. CASE Finished \/ UNCHANGED vars
    BY <2>3, StutterStep DEF Finished
  <2> QED BY <2>1, <2>2, <2>3 DEF Next
<1> QED BY <1>1, <1>2, PTL DEF Spec

\* The singleton, its connections and the locals of the endpoints always have
\* their types; no request creates more than MaxConnects connections and the
\* pool never hands out more than it has.
THEOREM TypeCorrect == Spec => []TypeOK
<1>1. IInv => TypeOK
  BY DEF IInv
<1> QED BY <1>1, Invariance, PTL

\* No endpoint dereferences null: DBConnection.Instance() returns an object
\* and Connection is there whenever it is opened, used or closed.
THEOREM NothingNull == Spec => []NoNullDereference
<1>1. IInv => NoNullDereference
  <2> SUFFICES ASSUME IInv, NEW r \in Requests
               PROVE  /\ At(r, {"newConnection"}) => DB[r] # Null
                      /\ At(r, {"open", "command", "close"}) => DB[r] # Null /\ Connection[DB[r]] # Null
    BY DEF NoNullDereference
  <2> QED BY DEF IInv, RequestOK, Fetched, Fetching, Connecting, Conn, At
<1> QED BY <1>1, Invariance, PTL

\* An endpoint called on its own only fails because the database, the pool or
\* the matching service does.
THEOREM FailuresAreExplained == Spec => []FailureExplained
<1>1. IInv => FailureExplained
  BY DEF IInv, RequestOK, Explained, FailureExplained
<1> QED BY <1>1, Invariance, PTL

\* An endpoint called on its own leaves no connection open but AddOwner's
\* first one and those of an exception nobody caught.
THEOREM LeaksAreExplained == Spec => []LeakExplained
<1>1. IInv => LeakExplained
  <2> SUFFICES ASSUME IInv, NEW c \in Open, c[1] \notin Active
               PROVE  \/ endpoint[c[1]] = "CreateOwner" /\ c[2] = 1
                      \/ outcome[c[1]] = "uncaught"
                      \/ overlapped[c[1]]
    BY DEF LeakExplained
  <2>1. c[1] \in Requests /\ c[2] \in 1..MaxConnects /\ c = <<c[1], c[2]>> /\ state[c] = "open"
    BY DEF Open, Connections
  <2>2. OpenOK(c[1]) /\ todo[c[1]] = <<>>
    BY <2>1 DEF IInv, RequestOK, Active
  <2> QED BY <2>1, <2>2 DEF OpenOK
<1> QED BY <1>1, Invariance, PTL
=============================================================================
