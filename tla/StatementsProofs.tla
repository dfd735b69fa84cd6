-------------------------- MODULE StatementsProofs --------------------------
(***************************************************************************)
(* What Statements guarantees of statements, their cursors and the rows    *)
(* their readers get, for any number of users, statements and cursors, any *)
(* rows, and the faults each theorem names.                                *)
(***************************************************************************)
EXTENDS Statements, SequenceTheorems, TLAPS

USE StatementsAssumption

\* Where the holder of Conn.mu is, and where a user holds it.
At == IF mu = Nobody THEN "free" ELSE pc[mu]
Busy == {"write", "wait", "relock"}

Requests ==
  [closes: Seq(Ids), object: Nat \ {0}, cursor: 0 .. MaxCursors, define: BOOLEAN, exec: BOOLEAN,
   parse: BOOLEAN, describe: BOOLEAN, want: {0, Want}]

Responses ==
  [type: {"ok", "nodata", "error", "integrity", "retry"}, cursor: 0 .. MaxCursors, rows: 0 .. Rows,
   results: Seq(Ids), describe: BOOLEAN]

Typed ==
  /\ TypeOK
  /\ req # <<>> => req \in Requests
  /\ resp # <<>> => resp \in Responses
  /\ \A o \in DOMAIN stm : stm[o].implicit <= Len(stm)

\* Whoever is in a round trip holds the lock, which has a request or a
\* response under way, and never both.
Holders ==
  /\ \A u \in Users : pc[u] \in Busy <=> mu = u
  /\ req # <<>> => At = "wait" /\ resp = <<>>
  /\ resp # <<>> => At \in {"wait", "relock"}

\* A user has statements of its own.  What is executed is prepared, what is
\* fetched from has a reader and rows to come, and none of it is closed.
Owns(u) ==
  /\ pc[u] # "idle" => obj[u] # 0
  /\ obj[u] # 0 => stm[obj[u]].user = u
  /\ prepared[u] # 0 =>
       stm[prepared[u]].user = u /\ ~stm[prepared[u]].child /\ prepared[u] \notin readers[u]
  /\ \A o \in readers[u] : stm[o].user = u /\ IsQuery(stm[o])
  /\ pc[u] \in {"lock", "write", "wait"} =>
       /\ ~stm[obj[u]].closed
       /\ IF op[u] = "fetch" THEN obj[u] \in readers[u] /\ stm[obj[u]].more
                             ELSE op[u] \in Ops /\ obj[u] = prepared[u]

Possession == \A u \in Users : Owns(u)

\* Implicit results are children of their block's user, and only queries of
\* LOB columns are described so that they need a define pass.
Shaped(o) ==
  /\ stm[o].implicit # 0 => stm[stm[o].implicit].child /\ stm[stm[o].implicit].user = stm[o].user
  /\ stm[o].define => stm[o].noPrefetch
  /\ stm[o].noPrefetch => HasLobs(stm[o])

Shapes == \A o \in DOMAIN stm : Shaped(o)

Base == Typed /\ Holders /\ Possession /\ Shapes

---------------------------------------------------------------------------
(* Statements, and what a step makes of one.                               *)

\* A sequence of statements one of which is replaced, or to which one is added.
LEMMA Updated ==
  ASSUME NEW s \in Seq(Statement), NEW o \in DOMAIN s, NEW e \in Statement
  PROVE  /\ [s EXCEPT ![o] = e] \in Seq(Statement)
         /\ Len([s EXCEPT ![o] = e]) = Len(s)
         /\ [s EXCEPT ![o] = e][o] = e
         /\ \A p \in DOMAIN s : p # o => [s EXCEPT ![o] = e][p] = s[p]
BY ExceptSeq

LEMMA Added ==
  ASSUME NEW s \in Seq(Statement), NEW e \in Statement
  PROVE  /\ Append(s, e) \in Seq(Statement)
         /\ Len(Append(s, e)) = Len(s) + 1
         /\ Append(s, e)[Len(s) + 1] = e
         /\ \A p \in DOMAIN s : Append(s, e)[p] = s[p]
BY AppendProperties

LEMMA Domains ==
  ASSUME NEW s \in Seq(Statement)
  PROVE  /\ Len(s) \in Nat /\ DOMAIN s = 1 .. Len(s)
         /\ \A o \in DOMAIN s : s[o] \in Statement
BY LenProperties, ElementOfSeq

\* The fields of a statement.
LEMMA Fields ==
  ASSUME NEW s \in Statement
  PROVE  /\ s.user \in Users /\ s.child \in BOOLEAN /\ s.cursor \in 0 .. MaxCursors
         /\ s.define \in BOOLEAN /\ s.noPrefetch \in BOOLEAN /\ s.more \in BOOLEAN
         /\ s.closed \in BOOLEAN /\ s.implicit \in Nat /\ s.rows \in Nat
BY DEF Statement

LEMMA NewFacts ==
  ASSUME NEW u \in Users, NEW child \in BOOLEAN, NEW id \in 0 .. MaxCursors
  PROVE  LET n == NewStatement(u, child, id)
         IN  /\ n \in Statement /\ n.user = u /\ n.child = child /\ n.cursor = id
             /\ n.more = child /\ n.implicit = 0 /\ n.rows = 0
             /\ ~n.define /\ ~n.noPrefetch /\ ~n.closed
<1> DEFINE n == NewStatement(u, child, id)
<1>1. n \in Statement
  <2>1. 0 \in Nat /\ FALSE \in BOOLEAN
    OBVIOUS
  <2> QED BY <2>1 DEF NewStatement, Statement
<1>2. n.user = u /\ n.cursor = id /\ n.implicit = 0 /\ n.rows = 0
  BY DEF NewStatement
<1>3. n.child = child /\ n.more = child
  BY Zenon DEF NewStatement
<1>4. ~n.define /\ ~n.noPrefetch /\ ~n.closed
  BY DEF NewStatement
<1> HIDE DEF n
<1> QED BY Zenon, <1>1, <1>2, <1>3, <1>4 DEF n

\* The statement of an implicit result is described as it is made.
LEMMA ChildFacts ==
  ASSUME NEW u \in Users, NEW id \in Ids
  PROVE  /\ Child(u, id) \in Statement
         /\ Child(u, id).user = u /\ Child(u, id).cursor = id /\ Child(u, id).implicit = 0
         /\ Child(u, id).rows = 0
         /\ Child(u, id).child /\ Child(u, id).more /\ ~Child(u, id).closed
         /\ Child(u, id).define => Child(u, id).noPrefetch
<1> DEFINE lobs == ~cursors[id].defined
           m == NewStatement(u, TRUE, id)
           n == [m EXCEPT !.define = lobs, !.noPrefetch = lobs]
<1>1. /\ m \in Statement /\ m.user = u /\ m.child = TRUE /\ m.cursor = id /\ m.more = TRUE
      /\ m.implicit = 0 /\ m.rows = 0 /\ ~m.closed
  <2>1. id \in 0 .. MaxCursors /\ TRUE \in BOOLEAN
    BY DEF Ids
  <2> DEFINE N(child, i) == NewStatement(u, child, i)
  <2>2. \A child \in BOOLEAN, i \in 0 .. MaxCursors :
          /\ N(child, i) \in Statement /\ N(child, i).user = u /\ N(child, i).child = child
          /\ N(child, i).cursor = i /\ N(child, i).more = child /\ N(child, i).implicit = 0
          /\ N(child, i).rows = 0 /\ ~N(child, i).closed
    BY NewFacts
  <2> HIDE DEF N
  <2>3. m = N(TRUE, id)
    BY DEF N
  <2> HIDE DEF m
  <2> QED BY Zenon, <2>1, <2>2, <2>3
<1>2. lobs \in BOOLEAN
  OBVIOUS
<1>3. Child(u, id) = n
  BY DEF Child
<1> HIDE DEF m, lobs
<1>4. /\ n \in Statement /\ n.user = m.user /\ n.child = m.child /\ n.cursor = m.cursor /\ n.more = m.more
      /\ n.implicit = m.implicit /\ n.rows = m.rows /\ n.closed = m.closed
      /\ n.define = lobs /\ n.noPrefetch = lobs
  BY <1>1, <1>2 DEF Statement
<1> HIDE DEF n
<1> QED BY <1>1, <1>3, <1>4

\* Statements that differ from s in that c, if it is one, is closed.
Kept(s, t, c) ==
  /\ t \in Seq(Statement) /\ Len(t) = Len(s)
  /\ \A p \in DOMAIN s :
       /\ t[p].user = s[p].user /\ t[p].child = s[p].child /\ t[p].cursor = s[p].cursor
       /\ t[p].define = s[p].define /\ t[p].noPrefetch = s[p].noPrefetch
       /\ t[p].more = s[p].more /\ t[p].implicit = s[p].implicit /\ t[p].rows = s[p].rows
       /\ t[p].closed <=> s[p].closed \/ p = c

LEMMA KeptAll ==
  ASSUME NEW s \in Seq(Statement)
  PROVE  Kept(s, s, 0)
BY Domains DEF Kept

LEMMA KeptButOne ==
  ASSUME NEW s \in Seq(Statement), NEW o \in DOMAIN s
  PROVE  Kept(s, [s EXCEPT ![o].closed = TRUE], o)
<1> DEFINE e == [s[o] EXCEPT !.closed = TRUE]
<1>1. s[o] \in Statement
  BY Domains
<1>2. e \in Statement
  BY <1>1 DEF Statement
<1>3. [s EXCEPT ![o].closed = TRUE] = [s EXCEPT ![o] = e]
  OBVIOUS
<1>4. /\ e.user = s[o].user /\ e.child = s[o].child /\ e.cursor = s[o].cursor
      /\ e.define = s[o].define /\ e.noPrefetch = s[o].noPrefetch
      /\ e.more = s[o].more /\ e.implicit = s[o].implicit /\ e.rows = s[o].rows /\ e.closed = TRUE
  BY <1>1 DEF Statement
<1> HIDE DEF e
<1> DEFINE t == [s EXCEPT ![o] = e]
<1>5. t \in Seq(Statement) /\ Len(t) = Len(s) /\ t[o] = e /\ \A p \in DOMAIN s : p # o => t[p] = s[p]
  BY <1>2, Updated
<1>6. \A p \in DOMAIN s : s[p].closed \in BOOLEAN
  BY Domains, Fields
<1> HIDE DEF t
<1>7. Kept(s, t, o)
  BY <1>4, <1>5, <1>6 DEF Kept
<1> QED BY <1>3, <1>7 DEF t

\* What BeginClose leaves behind: u has returned, or it is to close c.
Leaves(u, s, c) ==
  /\ Kept(s, stm', c)
  /\ \/ c = 0 /\ pc' = [pc EXCEPT ![u] = "idle"] /\ obj' = obj
     \/ c \in DOMAIN s /\ ~s[c].closed /\ pc' = [pc EXCEPT ![u] = "close"] /\ obj' = [obj EXCEPT ![u] = c]

\* BeginClose, as Leaves.
LEMMA BeginCloseFacts ==
  ASSUME NEW u \in Users, NEW s \in Seq(Statement), NEW o \in DOMAIN s, BeginClose(u, o, s)
  PROVE  \/ s[o].closed /\ Leaves(u, s, 0)
         \/ ~s[o].closed /\ Leaves(u, s, o)
<1>1. CASE s[o].closed
  BY <1>1, KeptAll DEF BeginClose, Leaves, Goto
<1>2. CASE ~s[o].closed
  BY <1>2, KeptButOne DEF BeginClose, Leaves, Goto
<1> QED BY <1>1, <1>2

\* What Fail and Succeed leave: a reader that is failed is closed, and what is
\* read from now on is the query or an implicit result.
Failed(u, s) ==
  /\ mu' = Nobody /\ prepared' = prepared
  /\ \/ /\ op[u] = "fetch" \/ (op[u] = "query" /\ IsQuery(s[obj[u]]))
        /\ Leaves(u, s, obj[u]) /\ readers' = [readers EXCEPT ![u] = @ \ {obj[u]}]
     \/ /\ ~(op[u] = "fetch" \/ (op[u] = "query" /\ IsQuery(s[obj[u]])))
        /\ Leaves(u, s, 0) /\ readers' = readers

Result(u, s) == IF IsQuery(s[obj[u]]) THEN obj[u] ELSE s[obj[u]].implicit

Succeeded(u, s) ==
  /\ mu' = Nobody
  /\ \/ /\ op[u] = "query" /\ Result(u, s) # 0 /\ Leaves(u, s, 0)
        /\ readers' = [readers EXCEPT ![u] = @ \cup {Result(u, s)}]
        /\ prepared' = IF s[Result(u, s)].child THEN prepared ELSE [prepared EXCEPT ![u] = 0]
     \/ /\ op[u] = "query" /\ Result(u, s) # 0 /\ readers' = readers /\ prepared' = prepared
        /\ Leaves(u, s, IF s[Result(u, s)].closed THEN 0 ELSE Result(u, s))
     \/ /\ op[u] = "update" /\ Result(u, s) = obj[u] /\ Leaves(u, s, obj[u])
        /\ readers' = readers /\ prepared' = [prepared EXCEPT ![u] = 0]
     \/ /\ ~(op[u] = "query" /\ Result(u, s) # 0) /\ ~(op[u] = "update" /\ Result(u, s) = obj[u])
        /\ Leaves(u, s, 0) /\ readers' = readers /\ prepared' = prepared

\* Fail, as Failed.
LEMMA FailFacts ==
  ASSUME NEW u \in Users, NEW s \in Seq(Statement), obj[u] \in DOMAIN s, ~s[obj[u]].closed, Fail(u, s)
  PROVE  Failed(u, s)
<1>1. CASE op[u] = "fetch" \/ (op[u] = "query" /\ IsQuery(s[obj[u]]))
  <2>1. BeginClose(u, obj[u], s) /\ readers' = [readers EXCEPT ![u] = @ \ {obj[u]}]
    BY <1>1 DEF Fail
  <2>2. Leaves(u, s, obj[u])
    BY <2>1, BeginCloseFacts
  <2> QED BY <1>1, <2>1, <2>2 DEF Fail, Failed
<1>2. CASE ~(op[u] = "fetch" \/ (op[u] = "query" /\ IsQuery(s[obj[u]])))
  <2>1. stm' = s /\ Goto(u, "idle") /\ UNCHANGED <<obj, readers>> /\ mu' = Nobody /\ prepared' = prepared
    BY <1>2 DEF Fail
  <2>2. Leaves(u, s, 0)
    BY <2>1, KeptAll DEF Leaves, Goto
  <2> QED BY <1>2, <2>1, <2>2 DEF Failed
<1> QED BY <1>1, <1>2

\* Succeed, as Succeeded.
LEMMA SucceedFacts ==
  ASSUME NEW u \in Users, NEW s \in Seq(Statement), obj[u] \in DOMAIN s, ~s[obj[u]].closed,
         s[obj[u]].implicit <= Len(s), Succeed(u, s)
  PROVE  Succeeded(u, s)
<1> DEFINE r == Result(u, s)
<1>1. r # 0 => r \in DOMAIN s
  <2>1. s[obj[u]].implicit \in Nat
    BY Domains, Fields
  <2> QED BY <2>1, Domains DEF Result
<1>2. mu' = Nobody
  BY DEF Succeed
<1>3. CASE op[u] = "query" /\ r # 0
  <2>1. StartReader(u, r, s)
    BY <1>3 DEF Succeed, Result
  <2>2. CASE stm' = s /\ Goto(u, "idle") /\ UNCHANGED obj
    <3>1. Leaves(u, s, 0)
      BY <2>2, KeptAll DEF Leaves, Goto
    <3>2. CASE /\ readers' = [readers EXCEPT ![u] = @ \cup {r}]
               /\ prepared' = IF s[r].child THEN prepared ELSE [prepared EXCEPT ![u] = 0]
      BY <1>2, <1>3, <3>1, <3>2 DEF Succeeded
    <3>3. CASE BeginClose(u, r, s) /\ UNCHANGED <<readers, prepared>>
      <4>1. Leaves(u, s, IF s[r].closed THEN 0 ELSE r)
        BY <1>1, <1>3, <3>3, BeginCloseFacts
      <4> QED BY <1>2, <1>3, <3>3, <4>1 DEF Succeeded
    <3> QED BY <2>1, <3>2, <3>3 DEF StartReader
  <2>3. CASE BeginClose(u, r, s) /\ UNCHANGED <<readers, prepared>>
    <3>1. Leaves(u, s, IF s[r].closed THEN 0 ELSE r)
      BY <1>1, <1>3, <2>3, BeginCloseFacts
    <3> QED BY <1>2, <1>3, <2>3, <3>1 DEF Succeeded
  <2> QED BY <2>1, <2>2, <2>3 DEF StartReader
<1>4. CASE op[u] = "update" /\ r = obj[u]
  <2>1. BeginClose(u, obj[u], s) /\ prepared' = [prepared EXCEPT ![u] = 0] /\ UNCHANGED readers
    BY <1>4 DEF Succeed, Result
  <2>2. Leaves(u, s, obj[u])
    BY <2>1, BeginCloseFacts
  <2> QED BY <1>2, <1>4, <2>1, <2>2 DEF Succeeded
<1>5. CASE ~(op[u] = "query" /\ r # 0) /\ ~(op[u] = "update" /\ r = obj[u])
  <2>1. stm' = s /\ Goto(u, "idle") /\ UNCHANGED <<obj, prepared, readers>>
    BY <1>5 DEF Succeed, Result
  <2>2. Leaves(u, s, 0)
    BY <2>1, KeptAll DEF Leaves, Goto
  <2> QED BY <1>2, <1>5, <2>1, <2>2 DEF Succeeded
<1> QED BY <1>3, <1>4, <1>5

\* A statement without its cursor, with another implicit result, and as a
\* request or a response leaves it.
LEMMA ZeroedFacts ==
  ASSUME NEW s \in Seq(Statement), NEW o \in DOMAIN s
  PROVE  LET t == [s EXCEPT ![o].cursor = 0]
         IN  /\ t \in Seq(Statement) /\ Len(t) = Len(s)
             /\ \A p \in DOMAIN s :
                  /\ t[p].user = s[p].user /\ t[p].child = s[p].child
                  /\ t[p].cursor = IF p = o THEN 0 ELSE s[p].cursor
                  /\ t[p].define = s[p].define /\ t[p].noPrefetch = s[p].noPrefetch
                  /\ t[p].more = s[p].more /\ t[p].implicit = s[p].implicit /\ t[p].rows = s[p].rows
                  /\ t[p].closed = s[p].closed
<1> DEFINE e == [s[o] EXCEPT !.cursor = 0]
           t == [s EXCEPT ![o] = e]
<1>1. s[o] \in Statement /\ 0 \in 0 .. MaxCursors
  BY Domains
<1>2. e \in Statement
  BY <1>1 DEF Statement
<1>3. [s EXCEPT ![o].cursor = 0] = t
  OBVIOUS
<1>4. /\ e.user = s[o].user /\ e.child = s[o].child /\ e.cursor = 0
      /\ e.define = s[o].define /\ e.noPrefetch = s[o].noPrefetch
      /\ e.more = s[o].more /\ e.implicit = s[o].implicit /\ e.rows = s[o].rows /\ e.closed = s[o].closed
  BY <1>1 DEF Statement
<1> HIDE DEF e
<1>5. t \in Seq(Statement) /\ Len(t) = Len(s) /\ t[o] = e /\ \A p \in DOMAIN s : p # o => t[p] = s[p]
  BY <1>2, Updated
<1> HIDE DEF t
<1>6. \A p \in DOMAIN s :
        /\ t[p].user = s[p].user /\ t[p].child = s[p].child
        /\ t[p].cursor = IF p = o THEN 0 ELSE s[p].cursor
        /\ t[p].define = s[p].define /\ t[p].noPrefetch = s[p].noPrefetch
        /\ t[p].more = s[p].more /\ t[p].implicit = s[p].implicit /\ t[p].rows = s[p].rows
        /\ t[p].closed = s[p].closed
  BY ONLY <1>4, <1>5
<1> QED BY <1>3, <1>5, <1>6

\* An implicit result is set or taken away.
LEMMA ImplicitFacts ==
  ASSUME NEW s \in Seq(Statement), NEW o \in DOMAIN s, NEW i \in Nat
  PROVE  LET t == [s EXCEPT ![o].implicit = i]
         IN  /\ t \in Seq(Statement) /\ Len(t) = Len(s)
             /\ \A p \in DOMAIN s :
                  /\ t[p].user = s[p].user /\ t[p].child = s[p].child /\ t[p].cursor = s[p].cursor
                  /\ t[p].define = s[p].define /\ t[p].noPrefetch = s[p].noPrefetch
                  /\ t[p].more = s[p].more /\ t[p].rows = s[p].rows /\ t[p].closed = s[p].closed
                  /\ t[p].implicit = IF p = o THEN i ELSE s[p].implicit
<1> DEFINE e == [s[o] EXCEPT !.implicit = i]
           t == [s EXCEPT ![o] = e]
<1>1. s[o] \in Statement
  BY Domains
<1>2. e \in Statement
  BY <1>1 DEF Statement
<1>3. [s EXCEPT ![o].implicit = i] = t
  OBVIOUS
<1>4. /\ e.user = s[o].user /\ e.child = s[o].child /\ e.cursor = s[o].cursor
      /\ e.define = s[o].define /\ e.noPrefetch = s[o].noPrefetch
      /\ e.more = s[o].more /\ e.implicit = i /\ e.rows = s[o].rows /\ e.closed = s[o].closed
  BY <1>1 DEF Statement
<1> HIDE DEF e
<1>5. t \in Seq(Statement) /\ Len(t) = Len(s) /\ t[o] = e /\ \A p \in DOMAIN s : p # o => t[p] = s[p]
  BY <1>2, Updated
<1> HIDE DEF t
<1>6. \A p \in DOMAIN s :
        /\ t[p].user = s[p].user /\ t[p].child = s[p].child /\ t[p].cursor = s[p].cursor
        /\ t[p].define = s[p].define /\ t[p].noPrefetch = s[p].noPrefetch
        /\ t[p].more = s[p].more /\ t[p].rows = s[p].rows /\ t[p].closed = s[p].closed
        /\ t[p].implicit = IF p = o THEN i ELSE s[p].implicit
  BY ONLY <1>4, <1>5
<1> QED BY <1>3, <1>5, <1>6

\* What writing a request makes of the statements.
LEMMA StartedFacts ==
  ASSUME stm \in Seq(Statement), NEW u \in Users, obj[u] \in DOMAIN stm
  PROVE  LET t == Started(u)
         IN  /\ t \in Seq(Statement) /\ Len(t) = Len(stm)
             /\ \A p \in DOMAIN stm :
                  /\ t[p].user = stm[p].user /\ t[p].child = stm[p].child /\ t[p].cursor = stm[p].cursor
                  /\ t[p].define = stm[p].define /\ t[p].noPrefetch = stm[p].noPrefetch
                  /\ t[p].implicit = stm[p].implicit /\ t[p].rows = stm[p].rows /\ t[p].closed = stm[p].closed
                  /\ t[p].more <=> stm[p].more \/ (p = obj[u] /\ IsQuery(stm[p]) /\ op[u] # "schema")
<1> DEFINE o == obj[u]
           m == stm[o].more \/ (IsQuery(stm[o]) /\ op[u] # "schema")
           e == [stm[o] EXCEPT !.more = m]
           t == [stm EXCEPT ![o] = e]
<1>1. stm[o] \in Statement /\ m \in BOOLEAN
  BY Domains DEF IsQuery
<1>2. Started(u) = t
  BY DEF Started
<1> HIDE DEF m
<1>3. e \in Statement
  BY <1>1 DEF Statement
<1>4. /\ e.user = stm[o].user /\ e.child = stm[o].child /\ e.cursor = stm[o].cursor
      /\ e.define = stm[o].define /\ e.noPrefetch = stm[o].noPrefetch
      /\ e.more = m /\ e.implicit = stm[o].implicit /\ e.rows = stm[o].rows /\ e.closed = stm[o].closed
  BY <1>1 DEF Statement
<1> HIDE DEF e
<1>5. t \in Seq(Statement) /\ Len(t) = Len(stm) /\ t[o] = e /\ \A p \in DOMAIN stm : p # o => t[p] = stm[p]
  BY <1>3, Updated
<1>6. \A p \in DOMAIN stm : stm[p].more \in BOOLEAN
  BY Domains, Fields
<1> HIDE DEF t
<1> QED BY <1>2, <1>4, <1>5, <1>6 DEF m

\* processDescribeInfo of a single statement, and of the one in hand.
LEMMA DescribedOne ==
  ASSUME NEW s \in Statement, resp.describe \in BOOLEAN
  PROVE  LET e == Described(s)
         IN  /\ e \in Statement
             /\ e.user = s.user /\ e.child = s.child /\ e.cursor = s.cursor
             /\ e.more = s.more /\ e.implicit = s.implicit /\ e.rows = s.rows /\ e.closed = s.closed
             /\ e.define <=> s.define \/ (resp.describe /\ HasLobs(s))
             /\ e.noPrefetch <=> s.noPrefetch \/ (resp.describe /\ HasLobs(s))
<1> DEFINE e == Described(s)
           n == [s EXCEPT !.define = TRUE, !.noPrefetch = TRUE]
<1>1. CASE resp.describe /\ HasLobs(s)
  <2>1. e = n
    BY <1>1 DEF Described
  <2>2. n \in Statement
    BY DEF Statement
  <2>3. /\ n.user = s.user /\ n.child = s.child /\ n.cursor = s.cursor
        /\ n.more = s.more /\ n.implicit = s.implicit /\ n.rows = s.rows /\ n.closed = s.closed
        /\ n.define = TRUE /\ n.noPrefetch = TRUE
    BY DEF Statement
  <2> HIDE DEF e, n
  <2> QED BY <1>1, <2>1, <2>2, <2>3 DEF e
<1>2. CASE ~(resp.describe /\ HasLobs(s))
  BY <1>2, Fields DEF Described
<1> QED BY <1>1, <1>2

\* A description makes of a query of LOB columns one that needs a define pass.
LEMMA DescribedFacts ==
  ASSUME stm \in Seq(Statement), NEW u \in Users, obj[u] \in DOMAIN stm, resp.describe \in BOOLEAN
  PROVE  LET t == [stm EXCEPT ![obj[u]] = Described(@)]
         IN  /\ t \in Seq(Statement) /\ Len(t) = Len(stm)
             /\ \A p \in DOMAIN stm :
                  /\ t[p].user = stm[p].user /\ t[p].child = stm[p].child /\ t[p].cursor = stm[p].cursor
                  /\ t[p].more = stm[p].more /\ t[p].implicit = stm[p].implicit
                  /\ t[p].rows = stm[p].rows /\ t[p].closed = stm[p].closed
                  /\ t[p].define <=> stm[p].define \/ (p = obj[u] /\ resp.describe /\ HasLobs(stm[p]))
                  /\ t[p].noPrefetch <=> stm[p].noPrefetch \/ (p = obj[u] /\ resp.describe /\ HasLobs(stm[p]))
<1> DEFINE o == obj[u]
           e == Described(stm[o])
           t == [stm EXCEPT ![o] = e]
<1>1. stm[o] \in Statement
  BY Domains
<1>2. [stm EXCEPT ![obj[u]] = Described(@)] = t
  OBVIOUS
<1>3. /\ e \in Statement
      /\ e.user = stm[o].user /\ e.child = stm[o].child /\ e.cursor = stm[o].cursor
      /\ e.more = stm[o].more /\ e.implicit = stm[o].implicit /\ e.rows = stm[o].rows /\ e.closed = stm[o].closed
      /\ e.define <=> stm[o].define \/ (resp.describe /\ HasLobs(stm[o]))
      /\ e.noPrefetch <=> stm[o].noPrefetch \/ (resp.describe /\ HasLobs(stm[o]))
  BY <1>1, DescribedOne
<1> HIDE DEF e
<1>5. t \in Seq(Statement) /\ Len(t) = Len(stm) /\ t[o] = e /\ \A p \in DOMAIN stm : p # o => t[p] = stm[p]
  BY <1>3, Updated
<1>6. \A p \in DOMAIN stm : stm[p].define \in BOOLEAN /\ stm[p].noPrefetch \in BOOLEAN
  BY Domains, Fields
<1> HIDE DEF t
<1> QED BY <1>2, <1>3, <1>5, <1>6

---------------------------------------------------------------------------
(* What the processing of a response makes of its statement.               *)

Heard(u) == Reported(u, Delivered(u, Described(stm[obj[u]])))
After(u) == Adopt(u, [stm EXCEPT ![obj[u]] = Heard(u)])

\* The rows of the response that reach a reader.
Given(u) ==
  IF Delivers(u) /\ ~(resp.describe /\ Described(stm[obj[u]]).define) THEN resp.rows ELSE 0

\* What the response says of the statement it answers, field by field.
LEMMA HeardFacts ==
  ASSUME NEW u \in Users, stm[obj[u]] \in Statement, resp \in Responses
  PROVE  LET s == stm[obj[u]]
             h == Heard(u)
             lobs == resp.describe /\ HasLobs(s)
         IN  /\ h \in Statement
             /\ h.user = s.user /\ h.child = s.child /\ h.closed = s.closed /\ h.implicit = s.implicit
             /\ h.cursor = IF Clears(s) THEN 0 ELSE Known(s)
             /\ h.define <=> /\ s.define \/ lobs
                             /\ ~(IsQuery(s) /\ op[u] # "schema" /\ resp.rows > 0)
                             /\ resp.type # "nodata" /\ ~Clears(s)
             /\ h.noPrefetch <=> (s.noPrefetch \/ lobs) /\ ~Clears(s)
             /\ h.more <=> s.more /\ resp.type # "nodata"
             /\ h.rows = s.rows + Given(u)
<1> DEFINE s == stm[obj[u]]
           d == Described(s)
           e == Delivered(u, d)
           fetches == IsQuery(e) /\ op[u] # "schema"
           known == [e EXCEPT !.cursor = Known(e), !.define = @ /\ ~(fetches /\ resp.rows > 0)]
           h == Heard(u)
<1>0. /\ resp.describe \in BOOLEAN /\ resp.rows \in Nat /\ resp.cursor \in 0 .. MaxCursors
      /\ resp.type \in {"ok", "nodata", "error", "integrity", "retry"}
  BY DEF Responses
<1>1. /\ d \in Statement
      /\ d.user = s.user /\ d.child = s.child /\ d.cursor = s.cursor
      /\ d.more = s.more /\ d.implicit = s.implicit /\ d.rows = s.rows /\ d.closed = s.closed
      /\ d.define <=> s.define \/ (resp.describe /\ HasLobs(s))
      /\ d.noPrefetch <=> s.noPrefetch \/ (resp.describe /\ HasLobs(s))
  BY <1>0, DescribedOne
<1>2. Given(u) \in Nat /\ Given(u) = IF Delivers(u) /\ ~(resp.describe /\ d.define) THEN resp.rows ELSE 0
  BY <1>0 DEF Given
<1>11. h = Reported(u, e)
  BY DEF Heard
<1> HIDE DEF d
<1>3. /\ e \in Statement
      /\ e.user = s.user /\ e.child = s.child /\ e.cursor = s.cursor /\ e.define = d.define
      /\ e.noPrefetch = d.noPrefetch /\ e.more = s.more /\ e.implicit = s.implicit /\ e.closed = s.closed
      /\ e.rows = s.rows + Given(u)
  <2> DEFINE g == [d EXCEPT !.rows = @ + resp.rows]
  <2>1. CASE Delivers(u) /\ ~(resp.describe /\ d.define)
    <3>1. e = g /\ Given(u) = resp.rows
      BY <1>2, <2>1 DEF Delivered
    <3>2. d.rows + resp.rows \in Nat
      BY <1>0, <1>1, Fields
    <3>3. g \in Statement
      BY <1>1, <3>2 DEF Statement
    <3>4. /\ g.user = d.user /\ g.child = d.child /\ g.cursor = d.cursor /\ g.define = d.define
          /\ g.noPrefetch = d.noPrefetch /\ g.more = d.more /\ g.implicit = d.implicit /\ g.closed = d.closed
          /\ g.rows = d.rows + resp.rows
      BY <1>1 DEF Statement
    <3> HIDE DEF e, g
    <3> QED BY <1>1, <3>1, <3>3, <3>4
  <2>2. CASE ~(Delivers(u) /\ ~(resp.describe /\ d.define))
    <3>1. e = d /\ Given(u) = 0
      BY <1>2, <2>2 DEF Delivered
    <3> HIDE DEF e
    <3> QED BY <1>1, <3>1, Fields
  <2> QED BY <2>1, <2>2
<1> HIDE DEF e, h
<1>4. (IsQuery(e) <=> IsQuery(s)) /\ Known(e) = Known(s) /\ (Clears(e) <=> Clears(s))
  BY <1>3 DEF IsQuery, Known, Clears
<1>5. h = CASE resp.type = "nodata" -> [known EXCEPT !.more = FALSE, !.define = FALSE]
            [] Clears(e) -> Cleared(known)
            [] OTHER -> known
  BY <1>11 DEF Reported
<1>6. Known(s) \in 0 .. MaxCursors
  <2>1. s \in Statement
    OBVIOUS
  <2> QED BY <1>0, <2>1, Fields DEF Known
<1>7. /\ known \in Statement
      /\ known.user = s.user /\ known.child = s.child /\ known.cursor = Known(s)
      /\ known.noPrefetch = d.noPrefetch /\ known.more = s.more /\ known.implicit = s.implicit
      /\ known.closed = s.closed /\ known.rows = s.rows + Given(u)
      /\ known.define <=> d.define /\ ~(IsQuery(s) /\ op[u] # "schema" /\ resp.rows > 0)
  <2> DEFINE f == e.define /\ ~(fetches /\ resp.rows > 0)
             k == Known(e)
             n == [e EXCEPT !.cursor = k, !.define = f]
  <2>1. f \in BOOLEAN
    OBVIOUS
  <2>2. known = n
    OBVIOUS
  <2> HIDE DEF f, k, known
  <2>3. n \in Statement
    BY <1>3, <1>4, <1>6, <2>1 DEF Statement, k
  <2>4. /\ n.user = e.user /\ n.child = e.child /\ n.cursor = k /\ n.define = f
        /\ n.noPrefetch = e.noPrefetch /\ n.more = e.more /\ n.implicit = e.implicit
        /\ n.closed = e.closed /\ n.rows = e.rows
    BY <1>3 DEF Statement
  <2> HIDE DEF n
  <2> QED BY <1>3, <1>4, <2>2, <2>3, <2>4 DEF f, k
<1> HIDE DEF known, fetches
<1>8. CASE resp.type = "nodata"
  <2> DEFINE n == [known EXCEPT !.more = FALSE, !.define = FALSE]
  <2>1. h = n /\ ~Clears(s)
    BY <1>5, <1>8 DEF Clears
  <2>2. n \in Statement
    BY <1>7 DEF Statement
  <2>3. /\ n.user = known.user /\ n.child = known.child /\ n.cursor = known.cursor /\ n.define = FALSE
        /\ n.noPrefetch = known.noPrefetch /\ n.more = FALSE /\ n.implicit = known.implicit
        /\ n.closed = known.closed /\ n.rows = known.rows
    BY <1>7 DEF Statement
  <2> HIDE DEF n, h
  <2> QED BY <1>1, <1>7, <1>8, <2>1, <2>2, <2>3, Zenon DEF h
<1>9. CASE resp.type # "nodata" /\ Clears(s)
  <2> DEFINE n == [known EXCEPT !.cursor = 0, !.define = FALSE, !.noPrefetch = FALSE]
  <2>1. h = n
    BY <1>4, <1>5, <1>9 DEF Cleared
  <2>2. n \in Statement
    <3>1. 0 \in 0 .. MaxCursors
      OBVIOUS
    <3> QED BY <1>7, <3>1 DEF Statement
  <2>3. /\ n.user = known.user /\ n.child = known.child /\ n.cursor = 0 /\ n.define = FALSE
        /\ n.noPrefetch = FALSE /\ n.more = known.more /\ n.implicit = known.implicit
        /\ n.closed = known.closed /\ n.rows = known.rows
    BY <1>7 DEF Statement
  <2>4. s.more \in BOOLEAN
    BY Fields
  <2> HIDE DEF n, h
  <2> QED BY <1>1, <1>7, <1>9, <2>1, <2>2, <2>3, <2>4, Zenon DEF h
<1>10. CASE resp.type # "nodata" /\ ~Clears(s)
  <2>1. h = known
    BY <1>4, <1>5, <1>10
  <2>2. s.more \in BOOLEAN
    BY Fields
  <2> HIDE DEF h
  <2> QED BY <1>1, <1>7, <1>10, <2>1, <2>2, Zenon DEF h
<1> QED BY <1>8, <1>9, <1>10

\* The first implicit result becomes a statement, and that of its block.
LEMMA AdoptFacts ==
  ASSUME NEW s \in Seq(Statement), NEW u \in Users, obj[u] \in DOMAIN s, resp \in Responses
  PROVE  LET t == Adopt(u, s)
             n == Len(s) + 1
         IN  /\ t \in Seq(Statement)
             /\ Len(t) = IF resp.results = <<>> THEN Len(s) ELSE n
             /\ resp.results # <<>> => t[n] = Child(u, resp.results[1])
             /\ \A p \in DOMAIN s :
                  /\ t[p].user = s[p].user /\ t[p].child = s[p].child /\ t[p].cursor = s[p].cursor
                  /\ t[p].define = s[p].define /\ t[p].noPrefetch = s[p].noPrefetch
                  /\ t[p].more = s[p].more /\ t[p].rows = s[p].rows /\ t[p].closed = s[p].closed
                  /\ t[p].implicit = IF p = obj[u] /\ resp.results # <<>> THEN n ELSE s[p].implicit
<1> DEFINE n == Len(s) + 1
<1>1. CASE resp.results = <<>>
  BY <1>1 DEF Adopt
<1>2. CASE resp.results # <<>>
  <2> DEFINE i == [s EXCEPT ![obj[u]].implicit = n]
             e == Child(u, resp.results[1])
  <2>1. n \in Nat /\ Len(s) \in Nat /\ DOMAIN s = 1 .. Len(s)
    BY Domains
  <2>2. resp.results[1] \in Ids
    <3>1. resp.results \in Seq(Ids)
      BY DEF Responses
    <3> QED BY <1>2, <3>1, EmptySeq, LenProperties, ElementOfSeq
  <2>3. e \in Statement
    BY <2>2, ChildFacts
  <2>4. Adopt(u, s) = Append(i, e)
    BY <1>2 DEF Adopt
  <2>7. i \in Seq(Statement) /\ Len(i) = Len(s)
    <3> HIDE DEF n
    <3> QED BY <2>1, ImplicitFacts
  <2>5. /\ \A p \in DOMAIN s :
             /\ i[p].user = s[p].user /\ i[p].child = s[p].child /\ i[p].cursor = s[p].cursor
             /\ i[p].define = s[p].define /\ i[p].noPrefetch = s[p].noPrefetch
             /\ i[p].more = s[p].more /\ i[p].rows = s[p].rows /\ i[p].closed = s[p].closed
             /\ i[p].implicit = IF p = obj[u] THEN n ELSE s[p].implicit
    <3> HIDE DEF n
    <3> QED BY <2>1, ImplicitFacts
  <2> HIDE DEF i, e
  <2>6. /\ Append(i, e) \in Seq(Statement) /\ Len(Append(i, e)) = n /\ Append(i, e)[n] = e
        /\ \A p \in DOMAIN s : Append(i, e)[p] = i[p]
    <3>1. DOMAIN i = DOMAIN s
      BY <2>1, <2>7, Domains
    <3> QED BY <2>3, <2>7, <3>1, Added
  <2> DEFINE t == Append(i, e)
  <2>9. Adopt(u, s) = t /\ t \in Seq(Statement) /\ Len(t) = n /\ t[n] = Child(u, resp.results[1])
    BY <2>4, <2>6 DEF e
  <2> HIDE DEF t
  <2>8. \A p \in DOMAIN s :
             /\ t[p].user = s[p].user /\ t[p].child = s[p].child /\ t[p].cursor = s[p].cursor
             /\ t[p].define = s[p].define /\ t[p].noPrefetch = s[p].noPrefetch
             /\ t[p].more = s[p].more /\ t[p].rows = s[p].rows /\ t[p].closed = s[p].closed
             /\ t[p].implicit = IF p = obj[u] THEN n ELSE s[p].implicit
    BY <2>5, <2>6 DEF t
  <2> QED BY <1>2, <2>8, <2>9
<1> QED BY <1>1, <1>2

\* The statements behind a response: the one it answers, and that of a result.
LEMMA AfterFacts ==
  ASSUME stm \in Seq(Statement), NEW u \in Users, obj[u] \in DOMAIN stm, resp \in Responses
  PROVE  LET t == After(u)
             n == Len(stm) + 1
             h == Heard(u)
             o == obj[u]
         IN  /\ t \in Seq(Statement)
             /\ Len(t) = IF resp.results = <<>> THEN Len(stm) ELSE n
             /\ resp.results # <<>> => t[n] = Child(u, resp.results[1])
             /\ t[o].user = stm[o].user /\ t[o].child = stm[o].child /\ t[o].closed = stm[o].closed
             /\ t[o].cursor = h.cursor /\ t[o].define = h.define /\ t[o].noPrefetch = h.noPrefetch
             /\ t[o].more = h.more /\ t[o].rows = h.rows
             /\ t[o].implicit = IF resp.results = <<>> THEN stm[o].implicit ELSE n
             /\ \A p \in DOMAIN stm : p # o =>
                  /\ t[p].user = stm[p].user /\ t[p].child = stm[p].child /\ t[p].cursor = stm[p].cursor
                  /\ t[p].define = stm[p].define /\ t[p].noPrefetch = stm[p].noPrefetch
                  /\ t[p].more = stm[p].more /\ t[p].rows = stm[p].rows /\ t[p].closed = stm[p].closed
                  /\ t[p].implicit = stm[p].implicit
<1> DEFINE s == [stm EXCEPT ![obj[u]] = Heard(u)]
<1>1. /\ Heard(u) \in Statement
      /\ Heard(u).user = stm[obj[u]].user /\ Heard(u).child = stm[obj[u]].child
      /\ Heard(u).closed = stm[obj[u]].closed /\ Heard(u).implicit = stm[obj[u]].implicit
  BY Domains, HeardFacts
<1>2. /\ s \in Seq(Statement) /\ Len(s) = Len(stm) /\ s[obj[u]] = Heard(u)
      /\ \A p \in DOMAIN stm : p # obj[u] => s[p] = stm[p]
  BY <1>1, Updated
<1>3. DOMAIN s = DOMAIN stm
  OBVIOUS
<1>4. After(u) = Adopt(u, s)
  BY DEF After
<1> HIDE DEF s
<1> DEFINE t == Adopt(u, s)
<1>5. /\ t \in Seq(Statement)
      /\ Len(t) = IF resp.results = <<>> THEN Len(s) ELSE Len(s) + 1
      /\ resp.results # <<>> => t[Len(s) + 1] = Child(u, resp.results[1])
      /\ \A p \in DOMAIN s :
           /\ t[p].user = s[p].user /\ t[p].child = s[p].child /\ t[p].cursor = s[p].cursor
           /\ t[p].define = s[p].define /\ t[p].noPrefetch = s[p].noPrefetch
           /\ t[p].more = s[p].more /\ t[p].rows = s[p].rows /\ t[p].closed = s[p].closed
           /\ t[p].implicit = IF p = obj[u] /\ resp.results # <<>> THEN Len(s) + 1 ELSE s[p].implicit
  <2>1. s \in Seq(Statement) /\ obj[u] \in DOMAIN s /\ resp \in Responses /\ u \in Users
    BY <1>2, <1>3
  <2> QED BY ONLY <2>1, AdoptFacts
<1> HIDE DEF t
<1>6. \A p \in DOMAIN stm : p # obj[u] =>
        /\ t[p].user = stm[p].user /\ t[p].child = stm[p].child /\ t[p].cursor = stm[p].cursor
        /\ t[p].define = stm[p].define /\ t[p].noPrefetch = stm[p].noPrefetch
        /\ t[p].more = stm[p].more /\ t[p].rows = stm[p].rows /\ t[p].closed = stm[p].closed
        /\ t[p].implicit = stm[p].implicit
  BY <1>2, <1>3, <1>5
<1>7. After(u) = t
  BY <1>4 DEF t
<1>8. /\ t[obj[u]].user = stm[obj[u]].user /\ t[obj[u]].child = stm[obj[u]].child
      /\ t[obj[u]].closed = stm[obj[u]].closed
      /\ t[obj[u]].cursor = Heard(u).cursor /\ t[obj[u]].define = Heard(u).define
      /\ t[obj[u]].noPrefetch = Heard(u).noPrefetch
      /\ t[obj[u]].more = Heard(u).more /\ t[obj[u]].rows = Heard(u).rows
      /\ t[obj[u]].implicit = IF resp.results = <<>> THEN stm[obj[u]].implicit ELSE Len(stm) + 1
  <2> PICK o, h : o = obj[u] /\ h = Heard(u)
    OBVIOUS
  <2>1. s[o] = h /\ o \in DOMAIN s /\ Len(s) = Len(stm)
    BY <1>2, <1>3
  <2>2. /\ t[o].user = s[o].user /\ t[o].child = s[o].child /\ t[o].cursor = s[o].cursor
        /\ t[o].define = s[o].define /\ t[o].noPrefetch = s[o].noPrefetch
        /\ t[o].more = s[o].more /\ t[o].rows = s[o].rows /\ t[o].closed = s[o].closed
        /\ t[o].implicit = IF resp.results # <<>> THEN Len(s) + 1 ELSE s[o].implicit
    BY <1>5, <2>1
  <2>3. /\ h.user = stm[o].user /\ h.child = stm[o].child
        /\ h.closed = stm[o].closed /\ h.implicit = stm[o].implicit
    BY <1>1
  <2>4. /\ t[o].user = stm[o].user /\ t[o].child = stm[o].child /\ t[o].closed = stm[o].closed
        /\ t[o].cursor = h.cursor /\ t[o].define = h.define /\ t[o].noPrefetch = h.noPrefetch
        /\ t[o].more = h.more /\ t[o].rows = h.rows
        /\ t[o].implicit = IF resp.results = <<>> THEN stm[o].implicit ELSE Len(stm) + 1
    BY ONLY <2>1, <2>2, <2>3
  <2> QED BY <2>4
<1>9. /\ Len(t) = IF resp.results = <<>> THEN Len(stm) ELSE Len(stm) + 1
      /\ resp.results # <<>> => t[Len(stm) + 1] = Child(u, resp.results[1])
  BY ONLY <1>2, <1>5
<1> QED BY ONLY <1>5, <1>6, <1>7, <1>8, <1>9

---------------------------------------------------------------------------
(* Types, holders, possession and shapes are kept.                         *)

\* What the types say of single users and statements.
LEMMA Parts ==
  ASSUME Typed
  PROVE  /\ stm \in Seq(Statement) /\ Len(stm) \in Nat /\ DOMAIN stm = 1 .. Len(stm)
         /\ \A o \in DOMAIN stm : stm[o] \in Statement
         /\ \A u \in Users :
              /\ obj[u] \in 0 .. Len(stm) /\ (obj[u] # 0 => obj[u] \in DOMAIN stm)
              /\ prepared[u] \in 0 .. Len(stm) /\ (prepared[u] # 0 => prepared[u] \in DOMAIN stm)
              /\ readers[u] \subseteq DOMAIN stm
              /\ pc[u] \in {"idle", "lock", "write", "wait", "close", "relock"}
              /\ op[u] \in {"query", "update", "schema", "fetch"}
<1>1. stm \in Seq(Statement)
  BY DEF Typed, TypeOK
<1>2. Len(stm) \in Nat /\ DOMAIN stm = 1 .. Len(stm) /\ \A o \in DOMAIN stm : stm[o] \in Statement
  BY <1>1, Domains
<1> QED BY <1>1, <1>2 DEF Typed, TypeOK

\* Types that count statements hold of more statements.
LEMMA Grown ==
  ASSUME Typed, NEW n \in Nat, n >= Len(stm)
  PROVE  /\ obj \in [Users -> 0 .. n] /\ prepared \in [Users -> 0 .. n]
         /\ readers \in [Users -> SUBSET (1 .. n)]
         /\ cursors \in [Ids -> [owner: 0 .. n, ran: BOOLEAN, defined: BOOLEAN, left: 0 .. Rows]]
<1>1. Len(stm) \in Nat /\ 0 .. Len(stm) \subseteq 0 .. n /\ 1 .. Len(stm) \subseteq 1 .. n
  BY Parts
<1>2. obj \in [Users -> 0 .. n] /\ prepared \in [Users -> 0 .. n]
  BY <1>1 DEF Typed, TypeOK
<1>3. readers \in [Users -> SUBSET (1 .. n)]
  BY <1>1 DEF Typed, TypeOK
<1>4. [owner: 0 .. Len(stm), ran: BOOLEAN, defined: BOOLEAN, left: 0 .. Rows]
        \subseteq [owner: 0 .. n, ran: BOOLEAN, defined: BOOLEAN, left: 0 .. Rows]
  BY <1>1
<1>5. cursors \in [Ids -> [owner: 0 .. n, ran: BOOLEAN, defined: BOOLEAN, left: 0 .. Rows]]
  BY <1>4 DEF Typed, TypeOK
<1> QED BY <1>2, <1>3, <1>5

\* What is left to show of a step of user u that leaves cursors and messages
\* typed: the statements, and what u has.
LEMMA TypedAfter ==
  ASSUME Typed, NEW u \in Users,
         stm' \in Seq(Statement), Len(stm') >= Len(stm),
         \A o \in DOMAIN stm' : stm'[o].implicit <= Len(stm'),
         mu' \in Users \cup {Nobody}, toClose' \in Seq(Ids), second' \in BOOLEAN,
         ops' \in [Users -> 0 .. MaxOps],
         NEW x \in {"idle", "lock", "write", "wait", "close", "relock"}, pc' = [pc EXCEPT ![u] = x],
         op' \in [Users -> {"query", "update", "schema", "fetch"}],
         NEW a \in 0 .. Len(stm'), obj' = [obj EXCEPT ![u] = a],
         NEW b \in 0 .. Len(stm'), prepared' = [prepared EXCEPT ![u] = b],
         NEW r \in SUBSET (1 .. Len(stm')), readers' = [readers EXCEPT ![u] = r],
         cursors' \in [Ids -> [owner: 0 .. Len(stm'), ran: BOOLEAN, defined: BOOLEAN, left: 0 .. Rows]],
         req' # <<>> => req' \in Requests, resp' # <<>> => resp' \in Responses
  PROVE  Typed'
<1>1. Len(stm') \in Nat
  BY LenProperties
<1>2. /\ obj \in [Users -> 0 .. Len(stm')] /\ prepared \in [Users -> 0 .. Len(stm')]
      /\ readers \in [Users -> SUBSET (1 .. Len(stm'))]
  BY <1>1, Grown
<1>3. obj' \in [Users -> 0 .. Len(stm')] /\ prepared' \in [Users -> 0 .. Len(stm')]
  BY <1>2
<1>4. readers' \in [Users -> SUBSET (1 .. Len(stm'))]
  BY <1>2
<1>5. pc' \in [Users -> {"idle", "lock", "write", "wait", "close", "relock"}]
  BY DEF Typed, TypeOK
<1>6. TypeOK'
  BY <1>3, <1>4, <1>5 DEF TypeOK
<1> QED BY <1>6 DEF Typed

\* The same with the parts of u named at once.
Moves(u, x, a, b, r) ==
  /\ x \in {"idle", "lock", "write", "wait", "close", "relock"} /\ pc' = [pc EXCEPT ![u] = x]
  /\ a \in 0 .. Len(stm') /\ obj' = [obj EXCEPT ![u] = a]
  /\ b \in 0 .. Len(stm') /\ prepared' = [prepared EXCEPT ![u] = b]
  /\ r \in SUBSET (1 .. Len(stm')) /\ readers' = [readers EXCEPT ![u] = r]

\* A step that moves one user keeps the types.
LEMMA TypedMoves ==
  ASSUME Typed, NEW u \in Users, NEW x, NEW a, NEW b, NEW r, Moves(u, x, a, b, r),
         stm' \in Seq(Statement), Len(stm') >= Len(stm),
         \A o \in DOMAIN stm' : stm'[o].implicit <= Len(stm'),
         mu' \in Users \cup {Nobody}, toClose' \in Seq(Ids), second' \in BOOLEAN,
         ops' \in [Users -> 0 .. MaxOps], op' \in [Users -> {"query", "update", "schema", "fetch"}],
         cursors' \in [Ids -> [owner: 0 .. Len(stm'), ran: BOOLEAN, defined: BOOLEAN, left: 0 .. Rows]],
         req' # <<>> => req' \in Requests, resp' # <<>> => resp' \in Responses
  PROVE  Typed'
BY TypedAfter DEF Moves

\* Who holds the lock, when nobody does from now on, when u does, and when
\* that is as before.
LEMMA HoldersFree ==
  ASSUME Typed, Holders, NEW u \in Users, mu \in {Nobody, u}, mu' = Nobody,
         NEW x \in {"idle", "close"}, pc' = [pc EXCEPT ![u] = x], req' = <<>>, resp' = <<>>
  PROVE  Holders'
<1>1. \A v \in Users : pc'[v] = IF v = u THEN x ELSE pc[v]
  BY DEF Typed, TypeOK
<1>2. \A v \in Users : pc'[v] \notin Busy
  BY <1>1 DEF Holders, Busy
<1> QED BY <1>2 DEF Holders

\* A step of the user that has the lock, or takes it.
LEMMA HoldersHeld ==
  ASSUME Typed, Holders, NEW u \in Users, mu \in {Nobody, u}, mu' = u,
         NEW x \in Busy, pc' = [pc EXCEPT ![u] = x],
         req' # <<>> => x = "wait" /\ resp' = <<>>,
         resp' # <<>> => x \in {"wait", "relock"}
  PROVE  Holders' /\ At' = x
<1>1. \A v \in Users : pc'[v] = IF v = u THEN x ELSE pc[v]
  BY DEF Typed, TypeOK
<1>2. \A v \in Users : pc'[v] \in Busy <=> mu' = v
  BY <1>1 DEF Holders, Busy
<1>3. At' = x
  BY <1>1 DEF At
<1> QED BY <1>2, <1>3 DEF Holders

\* A step that has nothing to do with the lock.
LEMMA HoldersStay ==
  ASSUME Typed, Holders, NEW u \in Users, mu' = mu, pc[u] \notin Busy,
         NEW x \in {"idle", "close", "lock"}, pc' = [pc EXCEPT ![u] = x], req' = req, resp' = resp
  PROVE  Holders' /\ At' = At
<1>1. \A v \in Users : pc'[v] = IF v = u THEN x ELSE pc[v]
  BY DEF Typed, TypeOK
<1>2. \A v \in Users : pc'[v] \in Busy <=> mu' = v
  BY <1>1 DEF Holders, Busy
<1>3. mu # u
  BY DEF Holders
<1>4. At' = At
  BY <1>1, <1>3 DEF At, Typed, TypeOK
<1> QED BY <1>2, <1>4 DEF Holders

\* A step of u leaves the others where they are, with what they have.
Apart(u) ==
  \A v \in Users : v # u =>
    /\ pc'[v] = pc[v] /\ op'[v] = op[v] /\ obj'[v] = obj[v] /\ prepared'[v] = prepared[v]
    /\ readers'[v] = readers[v]

\* What the others own is not affected by a step of u.
LEMMA PossessionAfter ==
  ASSUME Typed, Possession, NEW u \in Users,
         stm' \in Seq(Statement), Len(stm') >= Len(stm),
         \A o \in DOMAIN stm :
           /\ stm'[o].user = stm[o].user /\ stm'[o].child = stm[o].child
           /\ stm[o].user # u => (stm'[o].closed <=> stm[o].closed) /\ (stm'[o].more <=> stm[o].more),
         Apart(u), Owns(u)'
  PROVE  Possession'
<1> SUFFICES ASSUME NEW v \in Users, v # u
             PROVE  Owns(v)'
  BY DEF Possession
<1>1. /\ pc'[v] = pc[v] /\ op'[v] = op[v] /\ obj'[v] = obj[v] /\ prepared'[v] = prepared[v]
      /\ readers'[v] = readers[v]
  BY DEF Apart
<1>2. Owns(v)
  BY DEF Possession
<1>3. /\ obj[v] # 0 => obj[v] \in DOMAIN stm
      /\ prepared[v] # 0 => prepared[v] \in DOMAIN stm
      /\ readers[v] \subseteq DOMAIN stm
  BY Parts
<1>4. \A o \in DOMAIN stm : stm[o].user = v =>
        /\ stm'[o].user = v /\ (stm'[o].child <=> stm[o].child)
        /\ (stm'[o].closed <=> stm[o].closed) /\ (stm'[o].more <=> stm[o].more)
  OBVIOUS
<1>5. \A o \in readers[v] : stm'[o].user = v /\ IsQuery(stm'[o])
  BY <1>2, <1>3, <1>4 DEF Owns, IsQuery
<1>6. prepared[v] # 0 => stm'[prepared[v]].user = v /\ ~stm'[prepared[v]].child
  BY <1>2, <1>3, <1>4 DEF Owns
<1>7. obj[v] # 0 =>
        /\ stm'[obj[v]].user = v
        /\ (stm'[obj[v]].closed <=> stm[obj[v]].closed) /\ (stm'[obj[v]].more <=> stm[obj[v]].more)
  BY <1>2, <1>3, <1>4 DEF Owns
<1> QED BY <1>1, <1>2, <1>5, <1>6, <1>7 DEF Owns

\* What u has when it is in no round trip that goes on.
LEMMA OwnsAfter ==
  ASSUME Typed, NEW u \in Users, Owns(u),
         \A o \in DOMAIN stm : stm'[o].user = stm[o].user /\ stm'[o].child = stm[o].child,
         pc'[u] \in {"idle", "close", "relock"}, pc'[u] # "idle" => obj'[u] # 0,
         obj'[u] # 0 => stm'[obj'[u]].user = u,
         prepared'[u] \in {0, prepared[u]},
         \A o \in readers'[u] :
           o \in readers[u] \/ (stm'[o].user = u /\ IsQuery(stm'[o]) /\ o # prepared'[u])
  PROVE  Owns(u)'
<1>1. /\ prepared[u] # 0 => prepared[u] \in DOMAIN stm
      /\ readers[u] \subseteq DOMAIN stm
  BY Parts
<1>2. \A o \in readers'[u] : stm'[o].user = u /\ IsQuery(stm'[o]) /\ (o # prepared'[u] \/ prepared'[u] = 0)
  BY <1>1 DEF Owns, IsQuery
<1>3. prepared'[u] # 0 => stm'[prepared'[u]].user = u /\ ~stm'[prepared'[u]].child
  BY <1>1 DEF Owns
<1> QED BY <1>2, <1>3 DEF Owns

\* Statements keep their shapes if each is as it was, or new and well shaped.
LEMMA ShapesAfter ==
  ASSUME Typed, Shapes, stm' \in Seq(Statement), Len(stm') >= Len(stm),
         \A o \in DOMAIN stm :
           /\ stm'[o].user = stm[o].user /\ stm'[o].child = stm[o].child
           /\ stm'[o].define => stm'[o].noPrefetch
           /\ stm'[o].noPrefetch => stm[o].noPrefetch \/ HasLobs(stm[o])
           /\ \/ stm'[o].implicit \in {0, stm[o].implicit}
              \/ stm'[stm'[o].implicit].child /\ stm'[stm'[o].implicit].user = stm[o].user,
         \A o \in DOMAIN stm' \ DOMAIN stm :
           (stm'[o].define => stm'[o].noPrefetch) /\ (stm'[o].noPrefetch => stm'[o].child) /\ stm'[o].implicit = 0
  PROVE  Shapes'
<1> SUFFICES ASSUME NEW o \in DOMAIN stm'
             PROVE  Shaped(o)'
  BY DEF Shapes
<1>1. CASE o \in DOMAIN stm
  <2>1. stm[o] \in Statement /\ stm[o].implicit \in Nat /\ stm[o].implicit <= Len(stm)
    BY <1>1, Parts, Fields DEF Typed
  <2>2. stm[o].implicit # 0 => stm[o].implicit \in DOMAIN stm
    BY <2>1, Parts
  <2>3. Shaped(o)
    BY <1>1 DEF Shapes
  <2>5. stm'[o].noPrefetch => HasLobs(stm'[o])
    BY <1>1, <2>3 DEF Shaped, HasLobs
  <2>6. stm'[o].implicit # 0 =>
          stm'[stm'[o].implicit].child /\ stm'[stm'[o].implicit].user = stm'[o].user
    BY <1>1, <2>2, <2>3 DEF Shaped
  <2> QED BY <1>1, <2>5, <2>6 DEF Shaped
<1>2. CASE o \notin DOMAIN stm
  BY <1>2 DEF Shaped, HasLobs
<1> QED BY <1>1, <1>2

\* What u has is its own entry of the functions of users.
LEMMA Entries ==
  ASSUME Typed, NEW u \in Users
  PROVE  /\ pc = [pc EXCEPT ![u] = pc[u]] /\ op = [op EXCEPT ![u] = op[u]]
         /\ obj = [obj EXCEPT ![u] = obj[u]] /\ prepared = [prepared EXCEPT ![u] = prepared[u]]
         /\ readers = [readers EXCEPT ![u] = readers[u]]
BY DEF Typed, TypeOK

\* The list of cursors to close is one of cursors.
LEMMA AddCursorFacts ==
  ASSUME NEW list \in Seq(Ids), NEW id \in 0 .. MaxCursors
  PROVE  AddCursor(list, id) \in Seq(Ids)
<1>1. id # 0 => id \in Ids
  BY DEF Ids
<1> QED BY <1>1, AppendProperties DEF AddCursor

\* Base is kept by each step; first those that close and fail, then those of a round trip.
LEMMA CloseBase ==
  ASSUME Base, NEW u \in Users, Close(u)
  PROVE  Base'
<1> DEFINE o == obj[u]
<1>1. /\ pc[u] = "close" /\ mu = Nobody /\ mu' = mu /\ pc' = [pc EXCEPT ![u] = "idle"]
      /\ UNCHANGED <<op, obj, second, prepared, readers, ops, req, resp, cursors>>
      /\ toClose' = AddCursor(toClose, stm[o].cursor)
  BY DEF Close, Goto
<1>2. o \in DOMAIN stm /\ stm[o] \in Statement
  BY <1>1, Parts DEF Base, Possession, Owns
<1>3. /\ stm' \in Seq(Statement) /\ Len(stm') = Len(stm) /\ DOMAIN stm' = DOMAIN stm
      /\ \A p \in DOMAIN stm :
           /\ stm'[p].user = stm[p].user /\ stm'[p].child = stm[p].child
           /\ stm'[p].define = stm[p].define /\ stm'[p].noPrefetch = stm[p].noPrefetch
           /\ stm'[p].more = stm[p].more /\ stm'[p].implicit = stm[p].implicit
           /\ stm'[p].closed = stm[p].closed
  <2>1. stm \in Seq(Statement) /\ stm' = [stm EXCEPT ![o].cursor = 0]
    BY Parts DEF Base, Close
  <2> HIDE DEF o
  <2> QED BY <1>2, <2>1, ZeroedFacts, Domains
<1>4. Typed'
  <2>1. toClose' \in Seq(Ids)
    BY <1>1, <1>2, Fields, AddCursorFacts DEF Base, Typed, TypeOK
  <2> QED BY <1>1, <1>3, <2>1, TypedAfter, Entries, Parts DEF Base, Typed, TypeOK
<1>5. Holders'
  BY <1>1, HoldersStay DEF Base, Busy
<1>6. Possession'
  <2>1. Owns(u)'
    <3>1. pc'[u] = "idle" /\ Owns(u)
      BY <1>1 DEF Base, Typed, TypeOK, Possession
    <3> QED BY <1>1, <1>2, <1>3, <3>1, OwnsAfter DEF Base, Owns
  <2>2. Apart(u)
    BY <1>1 DEF Base, Typed, TypeOK, Apart
  <2>3. Typed /\ Possession
    BY DEF Base
  <2>4. \A p \in DOMAIN stm :
          /\ stm'[p].user = stm[p].user /\ stm'[p].child = stm[p].child
          /\ stm[p].user # u => (stm'[p].closed <=> stm[p].closed) /\ (stm'[p].more <=> stm[p].more)
    BY ONLY <1>3
  <2>5. Len(stm') >= Len(stm)
    BY <1>3, <2>3, Parts
  <2> QED BY <1>3, <2>1, <2>2, <2>3, <2>4, <2>5, PossessionAfter
<1>7. Shapes'
  <2>1. Typed /\ Shapes
    BY DEF Base
  <2>2. \A p \in DOMAIN stm :
          /\ stm'[p].user = stm[p].user /\ stm'[p].child = stm[p].child
          /\ stm'[p].define => stm'[p].noPrefetch
          /\ stm'[p].noPrefetch => stm[p].noPrefetch \/ HasLobs(stm[p])
          /\ stm'[p].implicit \in {0, stm[p].implicit}
    <3>1. \A p \in DOMAIN stm : stm[p].define => stm[p].noPrefetch
      BY DEF Base, Shapes, Shaped
    <3> QED BY ONLY <1>3, <3>1
  <2>3. Len(stm') >= Len(stm)
    BY <1>3, <2>1, Parts
  <2> QED BY <1>3, <2>1, <2>2, <2>3, ShapesAfter
<1> QED BY ONLY <1>4, <1>5, <1>6, <1>7 DEF Base

\* Statements s that a step of u makes of those there are: they keep what
\* makes their shape, new ones are u's, and none is closed yet.
Follows(u, s) ==
  /\ s \in Seq(Statement) /\ Len(s) >= Len(stm)
  /\ \A o \in DOMAIN stm :
       /\ s[o].user = stm[o].user /\ s[o].child = stm[o].child /\ s[o].closed = stm[o].closed
       /\ s[o].define => s[o].noPrefetch
       /\ s[o].noPrefetch => stm[o].noPrefetch \/ HasLobs(stm[o])
       /\ \/ s[o].implicit \in {0, stm[o].implicit}
          \/ s[o].implicit \in DOMAIN s /\ s[s[o].implicit].child /\ s[s[o].implicit].user = stm[o].user
       /\ stm[o].user # u => s[o].more = stm[o].more
  /\ \A o \in DOMAIN s \ DOMAIN stm :
       s[o].user = u /\ s[o].child /\ (s[o].define => s[o].noPrefetch) /\ s[o].implicit = 0

\* Statements that follow keep their implicit results in range.
LEMMA FollowsSmall ==
  ASSUME Typed, NEW u, NEW s, Follows(u, s)
  PROVE  /\ Len(s) \in Nat /\ DOMAIN s = 1 .. Len(s) /\ DOMAIN stm \subseteq DOMAIN s
         /\ \A o \in DOMAIN s : s[o] \in Statement /\ s[o].implicit <= Len(s)
<1>1. Len(s) \in Nat /\ DOMAIN s = 1 .. Len(s) /\ \A o \in DOMAIN s : s[o] \in Statement
  BY Domains DEF Follows
<1>2. DOMAIN stm \subseteq DOMAIN s /\ Len(stm) \in Nat /\ Len(s) >= Len(stm)
  BY <1>1, Parts DEF Follows
<1>3. ASSUME NEW o \in DOMAIN s PROVE s[o].implicit <= Len(s)
  <2>1. CASE o \in DOMAIN stm
    <3>1. stm[o].implicit \in Nat /\ stm[o].implicit <= Len(stm)
      BY <2>1, Parts, Fields DEF Typed
    <3>2. s[o].implicit \in {0, stm[o].implicit} \/ s[o].implicit \in DOMAIN s
      BY <2>1 DEF Follows
    <3> QED BY <1>1, <1>2, <3>1, <3>2
  <2>2. CASE o \notin DOMAIN stm
    BY <1>1, <2>2 DEF Follows
  <2> QED BY <2>1, <2>2
<1> QED BY <1>1, <1>2, <1>3

\* What u reads from now on: what it has read, and queries it has not prepared.
Readable(u, s, r, b) ==
  r \subseteq DOMAIN s /\ \A o \in r : o \in readers[u] \/ (s[o].user = u /\ IsQuery(s[o]) /\ o # b)

\* u leaves with r to read and b prepared.
Left(u, s, c, r, b) ==
  /\ mu' = Nobody /\ Leaves(u, s, c) /\ c \in Nat /\ (c # 0 => s[c].user = u)
  /\ readers' = [readers EXCEPT ![u] = r] /\ Readable(u, s, r, b)
  /\ prepared' = [prepared EXCEPT ![u] = b] /\ b \in {0, prepared[u]}

\* A user that has left its operation, with what it owns then.
LEMMA LeftBase ==
  ASSUME Base, NEW u \in Users, NEW s, Follows(u, s), NEW c, NEW r, NEW b, Left(u, s, c, r, b),
         mu \in {Nobody, u}, pc[u] \in {"lock", "write", "wait"},
         toClose' \in Seq(Ids), op' = op, second' \in BOOLEAN, ops' = ops, req' = <<>>, resp' = <<>>,
         cursors' \in [Ids -> [owner: 0 .. Len(s), ran: BOOLEAN, defined: BOOLEAN, left: 0 .. Rows]]
  PROVE  Base'
<1>0. /\ mu' = Nobody /\ Leaves(u, s, c) /\ c \in Nat /\ (c # 0 => s[c].user = u)
      /\ readers' = [readers EXCEPT ![u] = r] /\ Readable(u, s, r, b)
      /\ prepared' = [prepared EXCEPT ![u] = b] /\ b \in {0, prepared[u]}
  BY DEF Left
<1>1. /\ Len(s) \in Nat /\ DOMAIN s = 1 .. Len(s) /\ DOMAIN stm \subseteq DOMAIN s
      /\ \A o \in DOMAIN s : s[o] \in Statement /\ s[o].implicit <= Len(s)
  BY FollowsSmall DEF Base
<1>2. /\ stm' \in Seq(Statement) /\ Len(stm') = Len(s) /\ DOMAIN stm' = DOMAIN s
      /\ \A o \in DOMAIN s :
           /\ stm'[o].user = s[o].user /\ stm'[o].child = s[o].child /\ stm'[o].more = s[o].more
           /\ stm'[o].define = s[o].define /\ stm'[o].noPrefetch = s[o].noPrefetch
           /\ stm'[o].implicit = s[o].implicit /\ (stm'[o].closed <=> s[o].closed \/ o = c)
  <2>1. Kept(s, stm', c)
    BY <1>0 DEF Leaves
  <2>2. stm' \in Seq(Statement) /\ Len(stm') = Len(s)
    BY <2>1 DEF Kept
  <2>3. DOMAIN stm' = DOMAIN s
    BY <1>1, <2>2, Domains
  <2> QED BY <2>1, <2>2, <2>3 DEF Kept
<1>3. PICK x \in {"idle", "close"}, a \in DOMAIN s \cup {obj[u]} :
        /\ pc' = [pc EXCEPT ![u] = x] /\ obj' = [obj EXCEPT ![u] = a]
        /\ a = obj[u] \/ (a = c /\ c # 0)
  <2>1. CASE c = 0
    <3>1. pc' = [pc EXCEPT ![u] = "idle"] /\ obj' = [obj EXCEPT ![u] = obj[u]]
      BY <1>0, <1>1, <2>1, Entries DEF Leaves, Base
    <3> QED BY <3>1
  <2>2. CASE c # 0
    <3>1. c \in DOMAIN s /\ pc' = [pc EXCEPT ![u] = "close"] /\ obj' = [obj EXCEPT ![u] = c]
      BY <1>0, <2>2 DEF Leaves
    <3> QED BY <2>2, <3>1
  <2> QED BY <2>1, <2>2
<1>4. obj[u] \in DOMAIN stm /\ stm[obj[u]].user = u /\ Owns(u)
  BY Parts DEF Base, Possession, Owns
<1>5. a \in DOMAIN s /\ a # 0 /\ s[a].user = u
  BY <1>0, <1>1, <1>3, <1>4, Parts DEF Base, Follows
<1>6. pc'[u] = x /\ obj'[u] = a /\ readers'[u] = r /\ prepared'[u] = b /\ Apart(u)
  BY <1>0, <1>3 DEF Base, Typed, TypeOK, Apart
<1>7. Typed'
  <2>1. b \in 0 .. Len(stm') /\ a \in 0 .. Len(stm') /\ Len(stm') >= Len(stm) /\ r \in SUBSET (1 .. Len(stm'))
    BY <1>0, <1>1, <1>2, <1>5, Parts DEF Base, Follows, Readable
  <2>2. \A o \in DOMAIN stm' : stm'[o].implicit <= Len(stm')
    BY <1>1, <1>2
  <2>3. op' \in [Users -> {"query", "update", "schema", "fetch"}] /\ ops' \in [Users -> 0 .. MaxOps]
    BY DEF Base, Typed, TypeOK
  <2> QED BY <1>0, <1>2, <1>3, <2>1, <2>2, <2>3, TypedAfter DEF Base
<1>8. Holders'
  BY <1>0, <1>3, HoldersFree DEF Base
<1>9. Possession'
  <2>1. \A o \in DOMAIN stm :
          /\ stm'[o].user = stm[o].user /\ stm'[o].child = stm[o].child
          /\ stm[o].user # u => (stm'[o].closed <=> stm[o].closed) /\ (stm'[o].more <=> stm[o].more)
    <3> SUFFICES ASSUME NEW o \in DOMAIN stm
                 PROVE  /\ stm'[o].user = stm[o].user /\ stm'[o].child = stm[o].child
                        /\ stm[o].user # u => /\ stm'[o].closed <=> stm[o].closed
                                              /\ stm'[o].more <=> stm[o].more
      OBVIOUS
    <3>1. /\ s[o].user = stm[o].user /\ s[o].child = stm[o].child /\ s[o].closed = stm[o].closed
          /\ stm[o].user # u => s[o].more = stm[o].more
      BY DEF Follows
    <3>2. stm[o].user # u => o # c
      BY <1>0, <1>1, <3>1, Parts DEF Base
    <3> QED BY <1>1, <1>2, <3>1, <3>2
  <2>2. \A o \in readers'[u] : o \in readers[u] \/ (stm'[o].user = u /\ IsQuery(stm'[o]) /\ o # prepared'[u])
    BY <1>0, <1>2, <1>6 DEF IsQuery, Readable
  <2>3. stm'[obj'[u]].user = u
    BY <1>2, <1>5, <1>6
  <2>4. /\ pc'[u] \in {"idle", "close", "relock"} /\ obj'[u] # 0 /\ prepared'[u] \in {0, prepared[u]}
        /\ \A o \in DOMAIN stm : stm'[o].user = stm[o].user /\ stm'[o].child = stm[o].child
    BY <1>0, <1>5, <1>6, <2>1
  <2>5. Owns(u)'
    BY <1>4, <2>2, <2>3, <2>4, OwnsAfter DEF Base
  <2> QED BY <1>1, <1>2, <1>6, <2>1, <2>5, PossessionAfter, Parts DEF Base, Follows
<1>10. Shapes'
  <2>1. ASSUME NEW o \in DOMAIN stm
        PROVE  /\ stm'[o].user = stm[o].user /\ stm'[o].child = stm[o].child
               /\ stm'[o].define => stm'[o].noPrefetch
               /\ stm'[o].noPrefetch => stm[o].noPrefetch \/ HasLobs(stm[o])
               /\ \/ stm'[o].implicit \in {0, stm[o].implicit}
                  \/ stm'[stm'[o].implicit].child /\ stm'[stm'[o].implicit].user = stm[o].user
    <3>1. o \in DOMAIN s
      BY <1>1
    <3>2. s[o].implicit \in DOMAIN s /\ s[s[o].implicit].child /\ s[s[o].implicit].user = stm[o].user
            => stm'[stm'[o].implicit].child /\ stm'[stm'[o].implicit].user = stm[o].user
      BY <1>2, <3>1
    <3>3. /\ s[o].user = stm[o].user /\ s[o].child = stm[o].child
          /\ s[o].define => s[o].noPrefetch
          /\ s[o].noPrefetch => stm[o].noPrefetch \/ HasLobs(stm[o])
          /\ \/ s[o].implicit \in {0, stm[o].implicit}
             \/ s[o].implicit \in DOMAIN s /\ s[s[o].implicit].child /\ s[s[o].implicit].user = stm[o].user
      BY DEF Follows
    <3>4. /\ stm'[o].user = s[o].user /\ stm'[o].child = s[o].child
          /\ stm'[o].define = s[o].define /\ stm'[o].noPrefetch = s[o].noPrefetch
          /\ stm'[o].implicit = s[o].implicit
      BY <1>2, <3>1
    <3> QED BY <3>2, <3>3, <3>4
  <2>2. \A o \in DOMAIN stm' \ DOMAIN stm :
          (stm'[o].define => stm'[o].noPrefetch) /\ (stm'[o].noPrefetch => stm'[o].child) /\ stm'[o].implicit = 0
    <3>1. \A o \in DOMAIN s \ DOMAIN stm : s[o].child /\ (s[o].define => s[o].noPrefetch) /\ s[o].implicit = 0
      BY ONLY Follows(u, s) DEF Follows
    <3> QED BY ONLY <1>2, <3>1
  <2>3. Len(stm') >= Len(stm)
    BY <1>2 DEF Follows
  <2> QED BY <1>2, <2>1, <2>2, <2>3, ShapesAfter DEF Base
<1> QED BY <1>7, <1>8, <1>9, <1>10 DEF Base

\* What a user works on is still its own in statements that follow.
LEMMA FollowsWorker ==
  ASSUME Base, NEW u \in Users, NEW s, Follows(u, s), pc[u] # "idle"
  PROVE  /\ obj[u] \in DOMAIN stm /\ obj[u] \in DOMAIN s /\ obj[u] # 0 /\ obj[u] \in Nat
         /\ stm[obj[u]].user = u /\ s[obj[u]].user = u
         /\ readers[u] \subseteq DOMAIN s
<1>1. DOMAIN stm \subseteq DOMAIN s
  BY FollowsSmall DEF Base
<1>2. obj[u] \in DOMAIN stm /\ obj[u] # 0 /\ obj[u] \in Nat /\ readers[u] \subseteq DOMAIN stm
  BY Parts DEF Base, Possession, Owns
<1>3. stm[obj[u]].user = u
  BY <1>2 DEF Base, Possession, Owns
<1>4. s[obj[u]].user = u
  BY <1>2, <1>3 DEF Follows
<1> QED BY <1>1, <1>2, <1>3, <1>4

LEMMA FailedBase ==
  ASSUME Base, NEW u \in Users, NEW s, Follows(u, s), Failed(u, s),
         mu \in {Nobody, u}, pc[u] \in {"lock", "write", "wait"},
         toClose' \in Seq(Ids), op' = op, second' \in BOOLEAN, ops' = ops, req' = <<>>, resp' = <<>>,
         cursors' \in [Ids -> [owner: 0 .. Len(s), ran: BOOLEAN, defined: BOOLEAN, left: 0 .. Rows]]
  PROVE  Base'
<1>1. /\ obj[u] \in DOMAIN s /\ obj[u] # 0 /\ s[obj[u]].user = u /\ readers[u] \subseteq DOMAIN s
      /\ obj[u] \in Nat
  BY FollowsWorker
<1>2. PICK r \in SUBSET readers[u], c \in {0, obj[u]} :
        readers' = [readers EXCEPT ![u] = r] /\ Leaves(u, s, c)
  <2>1. CASE readers' = [readers EXCEPT ![u] = @ \ {obj[u]}] /\ Leaves(u, s, obj[u])
    <3>1. readers[u] \ {obj[u]} \in SUBSET readers[u]
      OBVIOUS
    <3> QED BY <2>1, <3>1
  <2>2. CASE readers' = readers /\ Leaves(u, s, 0)
    <3>1. readers' = [readers EXCEPT ![u] = readers[u]]
      BY <2>2, Entries DEF Base
    <3> QED BY <2>2, <3>1
  <2> QED BY <2>1, <2>2 DEF Failed
<1>3. prepared' = [prepared EXCEPT ![u] = prepared[u]] /\ mu' = Nobody
  BY Entries DEF Base, Failed
<1>4. Left(u, s, c, r, prepared[u])
  BY <1>1, <1>2, <1>3 DEF Readable, Left
<1> QED BY <1>4, LeftBase

LEMMA SucceededBase ==
  ASSUME Base, NEW u \in Users, NEW s, Follows(u, s), Succeeded(u, s),
         mu \in {Nobody, u}, pc[u] \in {"lock", "write", "wait"},
         toClose' \in Seq(Ids), op' = op, second' \in BOOLEAN, ops' = ops, req' = <<>>, resp' = <<>>,
         cursors' \in [Ids -> [owner: 0 .. Len(s), ran: BOOLEAN, defined: BOOLEAN, left: 0 .. Rows]]
  PROVE  Base'
<1> DEFINE q == Result(u, s)
<1>1. /\ obj[u] \in DOMAIN s /\ obj[u] # 0 /\ s[obj[u]].user = u /\ readers[u] \subseteq DOMAIN s
      /\ obj[u] \in DOMAIN stm /\ DOMAIN s = 1 .. Len(s) /\ Len(s) \in Nat
      /\ \A o \in DOMAIN s : s[o] \in Statement /\ s[o].implicit <= Len(s)
  BY FollowsWorker, FollowsSmall DEF Base
<1>2. q # 0 => q \in DOMAIN s /\ s[q].user = u /\ IsQuery(s[q]) /\ (s[q].child \/ q = obj[u])
  <2>1. CASE IsQuery(s[obj[u]])
    BY <1>1, <2>1 DEF Result
  <2>2. CASE ~IsQuery(s[obj[u]])
    <3> DEFINE i == s[obj[u]].implicit
    <3>1. q = i
      BY <2>2 DEF Result
    <3>2. i \in Nat /\ i <= Len(s) /\ (i # 0 => i \in DOMAIN s)
      BY <1>1, Fields
    <3>3. i # 0 => s[i].child /\ s[i].user = u
      <4>1. stm[obj[u]].user = u
        BY DEF Base, Possession, Owns
      <4>2. \/ i \in {0, stm[obj[u]].implicit}
            \/ s[i].child /\ s[i].user = u
        BY <1>1, <4>1 DEF Follows
      <4>3. stm[obj[u]].implicit # 0 =>
              /\ stm[stm[obj[u]].implicit].child /\ stm[stm[obj[u]].implicit].user = u
              /\ stm[obj[u]].implicit \in DOMAIN stm
        <5>1. stm[obj[u]].implicit \in Nat /\ stm[obj[u]].implicit <= Len(stm)
          BY <1>1, Parts, Fields DEF Base, Typed
        <5> QED BY <1>1, <4>1, <5>1, Parts DEF Base, Shapes, Shaped
      <4>4. stm[obj[u]].implicit # 0 =>
              s[stm[obj[u]].implicit].child /\ s[stm[obj[u]].implicit].user = u
        BY <4>3 DEF Follows
      <4> HIDE DEF i
      <4> QED BY <4>2, <4>4
    <3> QED BY <3>1, <3>2, <3>3 DEF IsQuery
  <2> QED BY <2>1, <2>2
<1>3. q \in Nat
  BY <1>1, <1>2
<1> HIDE DEF q
<1>4. prepared[u] # 0 => prepared[u] \in DOMAIN stm /\ ~s[prepared[u]].child
  BY Parts DEF Base, Possession, Owns, Follows
<1>5. op[u] = "query" => obj[u] = prepared[u]
  BY DEF Base, Possession, Owns
<1>6. mu' = Nobody
  BY DEF Succeeded
<1>7. CASE /\ op[u] = "query" /\ q # 0 /\ Leaves(u, s, 0)
           /\ readers' = [readers EXCEPT ![u] = @ \cup {q}]
           /\ prepared' = IF s[q].child THEN prepared ELSE [prepared EXCEPT ![u] = 0]
  <2> DEFINE all == readers[u] \cup {q}
  <2>1. PICK b \in {0, prepared[u]} : prepared' = [prepared EXCEPT ![u] = b] /\ (s[q].child \/ b = 0)
    <3>1. CASE s[q].child
      <4>1. prepared' = [prepared EXCEPT ![u] = prepared[u]]
        BY <1>7, <3>1, Entries DEF Base
      <4> QED BY <3>1, <4>1
    <3>2. CASE ~s[q].child
      BY <1>7, <3>2
    <3> QED BY <3>1, <3>2
  <2>2. all \in SUBSET DOMAIN s /\ readers' = [readers EXCEPT ![u] = all]
    BY <1>1, <1>2, <1>7
  <2>3. q # b
    BY <1>4, <1>7, <2>1
  <2>4. Readable(u, s, all, b)
    BY <1>2, <1>7, <2>2, <2>3 DEF Readable
  <2> HIDE DEF all
  <2>5. Left(u, s, 0, all, b)
    BY <1>6, <1>7, <2>1, <2>2, <2>4 DEF Left
  <2> QED BY <2>5, LeftBase
<1>8. CASE \E c \in {0, obj[u], q}, b \in {0, prepared[u]} :
             /\ Leaves(u, s, c) /\ readers' = readers /\ prepared' = [prepared EXCEPT ![u] = b]
  <2>1. PICK c \in {0, obj[u], q}, b \in {0, prepared[u]} :
          Leaves(u, s, c) /\ readers' = readers /\ prepared' = [prepared EXCEPT ![u] = b]
    BY <1>8
  <2>2. c \in Nat /\ (c # 0 => s[c].user = u)
    BY <1>1, <1>2, <1>3
  <2>3. readers' = [readers EXCEPT ![u] = readers[u]] /\ readers[u] \in SUBSET DOMAIN s
    BY <1>1, <2>1, Entries DEF Base
  <2>4. Readable(u, s, readers[u], b)
    BY <1>1 DEF Readable
  <2>5. Left(u, s, c, readers[u], b)
    BY <1>6, <2>1, <2>2, <2>3, <2>4 DEF Left
  <2> QED BY <2>5, LeftBase
<1>9. \/ /\ op[u] = "query" /\ q # 0 /\ Leaves(u, s, 0)
         /\ readers' = [readers EXCEPT ![u] = @ \cup {q}]
         /\ prepared' = IF s[q].child THEN prepared ELSE [prepared EXCEPT ![u] = 0]
      \/ \E c \in {0, obj[u], q}, b \in {0, prepared[u]} :
             /\ Leaves(u, s, c) /\ readers' = readers /\ prepared' = [prepared EXCEPT ![u] = b]
  <2>1. prepared = [prepared EXCEPT ![u] = prepared[u]]
    BY Entries DEF Base
  <2> QED BY <2>1 DEF Succeeded, q
<1> QED BY <1>7, <1>8, <1>9

LEMMA FollowsSelf ==
  ASSUME Base, NEW u
  PROVE  Follows(u, stm)
BY Parts DEF Base, Shapes, Shaped, Follows

LEMMA FollowsStarted ==
  ASSUME Base, NEW u \in Users, obj[u] \in DOMAIN stm, stm[obj[u]].user = u
  PROVE  Follows(u, Started(u)) /\ Len(Started(u)) = Len(stm)
<1> DEFINE s == Started(u)
<1>1. /\ s \in Seq(Statement) /\ Len(s) = Len(stm)
      /\ \A p \in DOMAIN stm :
           /\ s[p].user = stm[p].user /\ s[p].child = stm[p].child /\ s[p].closed = stm[p].closed
           /\ s[p].define = stm[p].define /\ s[p].noPrefetch = stm[p].noPrefetch
           /\ s[p].implicit = stm[p].implicit
           /\ s[p].more <=> stm[p].more \/ (p = obj[u] /\ IsQuery(stm[p]) /\ op[u] # "schema")
  BY StartedFacts, Parts DEF Base
<1>2. \A p \in DOMAIN stm : stm[p].user # u => s[p].more = stm[p].more
  <2>1. \A p \in DOMAIN stm : stm[p].more \in BOOLEAN /\ s[p].more \in BOOLEAN
    BY <1>1, Parts, Domains, Fields DEF Base
  <2> QED BY <1>1, <2>1
<1>3. DOMAIN s = DOMAIN stm /\ Len(stm) \in Nat
  BY <1>1, Parts, Domains DEF Base
<1>4. \A p \in DOMAIN stm : Shaped(p)
  BY DEF Base, Shapes
<1> HIDE DEF s
<1>5. Follows(u, s)
  BY <1>1, <1>2, <1>3, <1>4 DEF Follows, Shaped
<1> QED BY <1>1, <1>5 DEF s

LEMMA FollowsDescribed ==
  ASSUME Base, NEW u \in Users, obj[u] \in DOMAIN stm, stm[obj[u]].user = u, resp \in Responses
  PROVE  LET s == [stm EXCEPT ![obj[u]] = Described(@)]
         IN  Follows(u, s) /\ Len(s) = Len(stm)
<1> DEFINE s == [stm EXCEPT ![obj[u]] = Described(@)]
<1>1. resp.describe \in BOOLEAN
  BY DEF Responses
<1>2. /\ s \in Seq(Statement) /\ Len(s) = Len(stm)
      /\ \A p \in DOMAIN stm :
           /\ s[p].user = stm[p].user /\ s[p].child = stm[p].child /\ s[p].closed = stm[p].closed
           /\ s[p].implicit = stm[p].implicit /\ s[p].more = stm[p].more
           /\ s[p].define <=> stm[p].define \/ (p = obj[u] /\ resp.describe /\ HasLobs(stm[p]))
           /\ s[p].noPrefetch <=> stm[p].noPrefetch \/ (p = obj[u] /\ resp.describe /\ HasLobs(stm[p]))
  BY <1>1, DescribedFacts, Parts DEF Base
<1>3. DOMAIN s = DOMAIN stm /\ Len(stm) \in Nat
  BY <1>2, Parts, Domains DEF Base
<1>4. \A p \in DOMAIN stm : Shaped(p)
  BY DEF Base, Shapes
<1> HIDE DEF s
<1>5. Follows(u, s)
  BY <1>2, <1>3, <1>4 DEF Follows, Shaped
<1> QED BY <1>2, <1>5 DEF s

LEMMA FollowsAfter ==
  ASSUME Base, NEW u \in Users, obj[u] \in DOMAIN stm, stm[obj[u]].user = u, resp \in Responses
  PROVE  /\ Follows(u, After(u)) /\ After(u)[obj[u]].closed = stm[obj[u]].closed
         /\ Len(After(u)) = IF resp.results = <<>> THEN Len(stm) ELSE Len(stm) + 1
<1> DEFINE t == After(u)
           n == Len(stm) + 1
           o == obj[u]
           lobs == resp.describe /\ HasLobs(stm[o])
<1>1. /\ t \in Seq(Statement)
      /\ Len(t) = IF resp.results = <<>> THEN Len(stm) ELSE n
      /\ resp.results # <<>> => t[n] = Child(u, resp.results[1])
      /\ t[o].user = stm[o].user /\ t[o].child = stm[o].child /\ t[o].closed = stm[o].closed
      /\ t[o].define = Heard(u).define /\ t[o].noPrefetch = Heard(u).noPrefetch
      /\ t[o].implicit = IF resp.results = <<>> THEN stm[o].implicit ELSE n
      /\ \A p \in DOMAIN stm : p # o =>
           /\ t[p].user = stm[p].user /\ t[p].child = stm[p].child
           /\ t[p].define = stm[p].define /\ t[p].noPrefetch = stm[p].noPrefetch
           /\ t[p].more = stm[p].more /\ t[p].closed = stm[p].closed
           /\ t[p].implicit = stm[p].implicit
  <2>1. stm \in Seq(Statement)
    BY Parts DEF Base
  <2> QED BY ONLY <2>1, obj[u] \in DOMAIN stm, resp \in Responses, u \in Users, AfterFacts
<1>2. stm[o] \in Statement /\ Len(stm) \in Nat /\ DOMAIN stm = 1 .. Len(stm)
  BY Parts DEF Base
<1>3. /\ Heard(u).define => (stm[o].define \/ lobs) /\ ~Clears(stm[o])
      /\ Heard(u).noPrefetch <=> (stm[o].noPrefetch \/ lobs) /\ ~Clears(stm[o])
  BY <1>2, HeardFacts
<1>4. \A p \in DOMAIN stm : Shaped(p)
  BY DEF Base, Shapes
<1> HIDE DEF t, lobs
<1>5. DOMAIN t = 1 .. Len(t) /\ Len(t) >= Len(stm)
  BY <1>1, <1>2, Domains
<1>6. resp.results # <<>> =>
        /\ n \in DOMAIN t /\ DOMAIN t = DOMAIN stm \cup {n}
        /\ t[n].user = u /\ t[n].child /\ (t[n].define => t[n].noPrefetch) /\ t[n].implicit = 0
  <2> SUFFICES ASSUME resp.results # <<>>
               PROVE  /\ n \in DOMAIN t /\ DOMAIN t = DOMAIN stm \cup {n}
                      /\ t[n].user = u /\ t[n].child /\ (t[n].define => t[n].noPrefetch) /\ t[n].implicit = 0
    OBVIOUS
  <2>1. n \in DOMAIN t /\ DOMAIN t = DOMAIN stm \cup {n}
    BY <1>1, <1>2, <1>5
  <2>2. resp.results[1] \in Ids
    <3>1. resp.results \in Seq(Ids)
      BY DEF Responses
    <3> QED BY <3>1, EmptySeq, LenProperties, ElementOfSeq
  <2> QED BY <1>1, <2>1, <2>2, ChildFacts
<1>7. resp.results = <<>> => DOMAIN t = DOMAIN stm
  BY <1>1, <1>2, <1>5
<1>8. ASSUME NEW p \in DOMAIN stm
      PROVE  /\ t[p].user = stm[p].user /\ t[p].child = stm[p].child /\ t[p].closed = stm[p].closed
             /\ t[p].define => t[p].noPrefetch
             /\ t[p].noPrefetch => stm[p].noPrefetch \/ HasLobs(stm[p])
             /\ \/ t[p].implicit \in {0, stm[p].implicit}
                \/ t[p].implicit \in DOMAIN t /\ t[t[p].implicit].child /\ t[t[p].implicit].user = stm[p].user
             /\ stm[p].user # u => t[p].more = stm[p].more
  <2>1. CASE p = o
    <3>1. t[o].define => t[o].noPrefetch
      BY <1>1, <1>3, <1>4 DEF Shaped
    <3>2. t[o].noPrefetch => stm[o].noPrefetch \/ HasLobs(stm[o])
      BY <1>1, <1>3 DEF lobs
    <3> QED BY <1>1, <1>6, <2>1, <3>1, <3>2
  <2>2. CASE p # o
    BY <1>1, <1>4, <2>2 DEF Shaped
  <2> QED BY <2>1, <2>2
<1>9. Follows(u, t)
  BY <1>1, <1>5, <1>6, <1>7, <1>8 DEF Follows
<1> QED BY <1>1, <1>9 DEF t

\* Where a user in a round trip is.
LEMMA Working ==
  ASSUME Base, NEW u \in Users, pc[u] \in {"lock", "write", "wait", "close", "relock"}
  PROVE  /\ obj[u] \in DOMAIN stm /\ obj[u] # 0 /\ stm[obj[u]] \in Statement /\ stm[obj[u]].user = u
         /\ pc[u] \in {"lock", "write", "wait"} => ~stm[obj[u]].closed
         /\ pc[u] \in {"write", "wait", "relock"} => mu = u
         /\ pc[u] \in {"write", "wait", "relock"} => At = pc[u]
<1>1. obj[u] \in DOMAIN stm /\ obj[u] # 0 /\ stm[obj[u]] \in Statement
  BY Parts DEF Base, Possession, Owns
<1>2. stm[obj[u]].user = u /\ (pc[u] \in {"lock", "write", "wait"} => ~stm[obj[u]].closed)
  BY <1>1 DEF Base, Possession, Owns
<1>3. pc[u] \in {"write", "wait", "relock"} => mu = u
  BY DEF Base, Holders, Busy
<1> QED BY <1>1, <1>2, <1>3 DEF At

\* Lock fails before anything is sent.
LEMMA LockFails ==
  ASSUME Base, NEW u \in Users, pc[u] = "lock", mu = Nobody, Fail(u, stm),
         UNCHANGED <<toClose, op, second, ops, req, resp, cursors>>
  PROVE  Base' /\ Failed(u, stm) /\ req = <<>> /\ resp = <<>>
<1>1. Failed(u, stm)
  BY Working, FailFacts, Parts DEF Base
<1>2. req = <<>> /\ resp = <<>>
  BY DEF Base, Holders, At
<1>3. /\ toClose' \in Seq(Ids) /\ second' \in BOOLEAN
      /\ cursors' \in [Ids -> [owner: 0 .. Len(stm), ran: BOOLEAN, defined: BOOLEAN, left: 0 .. Rows]]
  BY DEF Base, Typed, TypeOK
<1>4. Base'
  BY <1>1, <1>2, <1>3, FollowsSelf, FailedBase
<1> QED BY <1>1, <1>2, <1>4

\* Locked, with an implicit result still open: u waits for the lock it holds.
LEMMA LockRelocks ==
  ASSUME Base, NEW u \in Users, pc[u] = "lock", mu = Nobody, mu' = u, second' = FALSE,
         op[u] # "fetch", stm[obj[u]].implicit # 0,
         stm' = [stm EXCEPT ![stm[obj[u]].implicit].closed = TRUE], Goto(u, "relock"),
         UNCHANGED <<toClose, op, ops, req, resp, cursors, obj, prepared, readers>>
  PROVE  /\ Base' /\ At' = "relock" /\ req = <<>> /\ resp = <<>>
         /\ stm[obj[u]].implicit \in DOMAIN stm /\ Kept(stm, stm', stm[obj[u]].implicit)
<1> DEFINE i == stm[obj[u]].implicit
<1>1. i \in Nat /\ i <= Len(stm) /\ obj[u] \in DOMAIN stm
  BY Working, Fields DEF Base, Typed
<1>2. i \in DOMAIN stm /\ stm[i].user = u
  BY <1>1, Parts, Working DEF Base, Shapes, Shaped
<1> HIDE DEF i
<1>3. Kept(stm, stm', i)
  BY <1>2, KeptButOne, Parts DEF Base, i
<1>4. req = <<>> /\ resp = <<>>
  BY DEF Base, Holders, At
<1>5. /\ stm' \in Seq(Statement) /\ Len(stm') = Len(stm) /\ DOMAIN stm' = DOMAIN stm
  BY <1>3, Domains, Parts DEF Kept, Base
<1>6. pc' = [pc EXCEPT ![u] = "relock"] /\ pc'[u] = "relock" /\ Apart(u)
  BY DEF Goto, Base, Typed, TypeOK, Apart
<1>7. Typed'
  <2>1. \A p \in DOMAIN stm' : stm'[p].implicit <= Len(stm')
    <3>1. \A p \in DOMAIN stm : stm[p].implicit <= Len(stm)
      BY DEF Base, Typed
    <3>2. \A p \in DOMAIN stm : stm'[p].implicit = stm[p].implicit
      BY ONLY <1>3 DEF Kept
    <3> QED BY ONLY <1>5, <3>1, <3>2
  <2> QED BY <1>4, <1>5, <1>6, <2>1, TypedAfter, Entries, Parts DEF Base, Typed, TypeOK
<1>8. Holders' /\ At' = "relock"
  BY <1>4, <1>6, HoldersHeld DEF Base, Busy
<1>9. Possession'
  <2>1. \A o \in DOMAIN stm :
          /\ stm'[o].user = stm[o].user /\ stm'[o].child = stm[o].child
          /\ stm[o].user # u => (stm'[o].closed <=> stm[o].closed) /\ (stm'[o].more <=> stm[o].more)
    BY ONLY <1>2, <1>3 DEF Kept
  <2>2. obj'[u] # 0 /\ stm'[obj'[u]].user = u /\ prepared'[u] = prepared[u] /\ readers'[u] = readers[u]
    BY <2>1, Working
  <2>3. Owns(u)'
    BY <1>6, <2>1, <2>2, OwnsAfter DEF Base, Possession
  <2>4. Len(stm') >= Len(stm) /\ Typed /\ Possession
    BY <1>5, Parts DEF Base
  <2> QED BY <1>5, <1>6, <2>1, <2>3, <2>4, PossessionAfter
<1>10. Shapes'
  <2>1. \A o \in DOMAIN stm :
          /\ stm'[o].user = stm[o].user /\ stm'[o].child = stm[o].child
          /\ stm'[o].define => stm'[o].noPrefetch
          /\ stm'[o].noPrefetch => stm[o].noPrefetch \/ HasLobs(stm[o])
          /\ stm'[o].implicit \in {0, stm[o].implicit}
    <3>1. \A o \in DOMAIN stm : stm[o].define => stm[o].noPrefetch
      BY DEF Base, Shapes, Shaped
    <3> QED BY ONLY <1>3, <3>1 DEF Kept
  <2>2. Len(stm') >= Len(stm) /\ Typed /\ Shapes
    BY <1>5, Parts DEF Base
  <2> QED BY <1>5, <2>1, <2>2, ShapesAfter
<1> QED BY <1>2, <1>3, <1>4, <1>7, <1>8, <1>9, <1>10 DEF Base, i

\* A user in a round trip that goes on has what it works on.
LEMMA OwnsOn ==
  ASSUME Base, NEW u \in Users, pc[u] \in {"lock", "write", "wait"}, pc'[u] \in {"write", "wait"},
         stm' \in Seq(Statement), Len(stm') >= Len(stm),
         \A o \in DOMAIN stm :
           /\ stm'[o].user = stm[o].user /\ stm'[o].child = stm[o].child
           /\ stm'[o].closed = stm[o].closed /\ (op[u] = "fetch" /\ stm[o].more => stm'[o].more),
         op' = op, obj' = obj, prepared' = prepared, readers' = readers
  PROVE  Owns(u)'
<1>1. Owns(u) /\ obj[u] \in DOMAIN stm /\ readers[u] \subseteq DOMAIN stm
      /\ (prepared[u] # 0 => prepared[u] \in DOMAIN stm)
  BY Working, Parts DEF Base, Possession
<1>2. \A o \in readers[u] : stm'[o].user = u /\ IsQuery(stm'[o])
  BY <1>1 DEF Owns, IsQuery
<1>3. prepared[u] # 0 => stm'[prepared[u]].user = u /\ ~stm'[prepared[u]].child
  BY <1>1 DEF Owns
<1>4. obj[u] # 0 /\ stm'[obj[u]].user = u /\ ~stm'[obj[u]].closed
  BY <1>1, Working
<1>5. op[u] = "fetch" => obj[u] \in readers[u] /\ stm'[obj[u]].more
  BY <1>1 DEF Owns
<1>6. op[u] # "fetch" => op[u] \in Ops /\ obj[u] = prepared[u] /\ prepared[u] \notin readers[u]
  BY <1>1, <1>4 DEF Owns
<1>7. prepared[u] # 0 => prepared[u] \notin readers[u]
  BY <1>1 DEF Owns
<1> QED BY <1>2, <1>3, <1>4, <1>5, <1>6, <1>7 DEF Owns

\* Lock goes on to write the request.
LEMMA LockGoes ==
  ASSUME Base, NEW u \in Users, pc[u] = "lock", mu = Nobody, mu' = u, second' = FALSE,
         stm' = [stm EXCEPT ![obj[u]].implicit = IF op[u] = "fetch" THEN @ ELSE 0],
         Goto(u, "write"),
         UNCHANGED <<toClose, op, ops, req, resp, cursors, obj, prepared, readers>>
  PROVE  /\ Base' /\ At' = "write" /\ req = <<>> /\ resp = <<>>
         /\ stm' \in Seq(Statement) /\ Len(stm') = Len(stm) /\ DOMAIN stm' = DOMAIN stm
         /\ \A p \in DOMAIN stm :
              /\ stm'[p].user = stm[p].user /\ stm'[p].child = stm[p].child /\ stm'[p].cursor = stm[p].cursor
              /\ stm'[p].define = stm[p].define /\ stm'[p].noPrefetch = stm[p].noPrefetch
              /\ stm'[p].more = stm[p].more /\ stm'[p].rows = stm[p].rows /\ stm'[p].closed = stm[p].closed
              /\ stm'[p].implicit = IF p = obj[u] /\ op[u] # "fetch" THEN 0 ELSE stm[p].implicit
<1> DEFINE i == IF op[u] = "fetch" THEN stm[obj[u]].implicit ELSE 0
<1>1. obj[u] \in DOMAIN stm /\ stm \in Seq(Statement) /\ i \in Nat
  BY Working, Parts, Fields DEF Base
<1>2. stm' = [stm EXCEPT ![obj[u]].implicit = i]
  OBVIOUS
<1> HIDE DEF i
<1>3. /\ stm' \in Seq(Statement) /\ Len(stm') = Len(stm)
      /\ \A p \in DOMAIN stm :
           /\ stm'[p].user = stm[p].user /\ stm'[p].child = stm[p].child /\ stm'[p].cursor = stm[p].cursor
           /\ stm'[p].define = stm[p].define /\ stm'[p].noPrefetch = stm[p].noPrefetch
           /\ stm'[p].more = stm[p].more /\ stm'[p].rows = stm[p].rows /\ stm'[p].closed = stm[p].closed
           /\ stm'[p].implicit = IF p = obj[u] THEN i ELSE stm[p].implicit
  <2> DEFINE t == [stm EXCEPT ![obj[u]].implicit = i]
  <2>1. /\ t \in Seq(Statement) /\ Len(t) = Len(stm)
        /\ \A p \in DOMAIN stm :
             /\ t[p].user = stm[p].user /\ t[p].child = stm[p].child /\ t[p].cursor = stm[p].cursor
             /\ t[p].define = stm[p].define /\ t[p].noPrefetch = stm[p].noPrefetch
             /\ t[p].more = stm[p].more /\ t[p].rows = stm[p].rows /\ t[p].closed = stm[p].closed
             /\ t[p].implicit = IF p = obj[u] THEN i ELSE stm[p].implicit
    BY <1>1, ImplicitFacts
  <2> HIDE DEF t
  <2>2. stm' = t
    BY <1>2 DEF t
  <2> QED BY ONLY <2>1, <2>2
<1>4. DOMAIN stm' = DOMAIN stm
  BY <1>3, Domains, Parts DEF Base
<1>5. \A p \in DOMAIN stm : stm'[p].implicit = IF p = obj[u] /\ op[u] # "fetch" THEN 0 ELSE stm[p].implicit
  BY <1>3 DEF i
<1>6. req = <<>> /\ resp = <<>>
  BY DEF Base, Holders, At
<1>7. pc' = [pc EXCEPT ![u] = "write"] /\ pc'[u] = "write" /\ Apart(u)
  BY DEF Goto, Base, Typed, TypeOK, Apart
<1>8. Typed'
  <2>1. \A p \in DOMAIN stm' : stm'[p].implicit <= Len(stm')
    BY <1>3, <1>4, <1>5, Parts DEF Base, Typed
  <2> QED BY <1>3, <1>4, <1>6, <1>7, <2>1, TypedAfter, Entries, Parts DEF Base, Typed, TypeOK
<1>9. Holders' /\ At' = "write"
  BY <1>6, <1>7, HoldersHeld DEF Base, Busy
<1>10. Len(stm') >= Len(stm) /\ Typed /\ Possession /\ Shapes
  BY <1>3, Parts DEF Base
<1>11. Possession'
  <2>1. Owns(u)'
    BY <1>3, <1>7, <1>10, OwnsOn
  <2>2. \A o \in DOMAIN stm :
          /\ stm'[o].user = stm[o].user /\ stm'[o].child = stm[o].child
          /\ stm[o].user # u => (stm'[o].closed <=> stm[o].closed) /\ (stm'[o].more <=> stm[o].more)
    BY <1>3
  <2> QED BY <1>3, <1>7, <1>10, <2>1, <2>2, PossessionAfter
<1>12. Shapes'
  <2>1. \A o \in DOMAIN stm :
          /\ stm'[o].user = stm[o].user /\ stm'[o].child = stm[o].child
          /\ stm'[o].define => stm'[o].noPrefetch
          /\ stm'[o].noPrefetch => stm[o].noPrefetch \/ HasLobs(stm[o])
          /\ stm'[o].implicit \in {0, stm[o].implicit}
    BY <1>3, <1>5 DEF Base, Shapes, Shaped
  <2> QED BY <1>3, <1>4, <1>10, <2>1, ShapesAfter
<1> QED BY <1>3, <1>4, <1>5, <1>6, <1>8, <1>9, <1>11, <1>12 DEF Base

\* Lock is one of the three.
LEMMA LockFacts ==
  ASSUME Base, NEW u \in Users, Lock(u)
  PROVE  /\ pc[u] = "lock" /\ mu = Nobody /\ UNCHANGED <<toClose, op, ops, req, resp, cursors>>
         /\ \/ Fail(u, stm) /\ second' = second
            \/ /\ mu' = u /\ second' = FALSE /\ op[u] # "fetch" /\ stm[obj[u]].implicit # 0
               /\ stm' = [stm EXCEPT ![stm[obj[u]].implicit].closed = TRUE] /\ Goto(u, "relock")
               /\ UNCHANGED <<obj, prepared, readers>>
            \/ /\ mu' = u /\ second' = FALSE /\ (op[u] = "fetch" => stm[obj[u]].cursor # 0)
               /\ stm' = [stm EXCEPT ![obj[u]].implicit = IF op[u] = "fetch" THEN @ ELSE 0]
               /\ Goto(u, "write") /\ UNCHANGED <<obj, prepared, readers>>
BY DEF Lock

LEMMA LockBase ==
  ASSUME Base, NEW u \in Users, Lock(u)
  PROVE  Base'
BY LockFacts, LockFails, LockRelocks, LockGoes

\* A request has its type.
LEMMA RequestTyped ==
  ASSUME Base, NEW u \in Users, obj[u] \in DOMAIN stm
  PROVE  Request(u) \in Requests
<1> DEFINE s == stm[obj[u]]
           fetches == op[u] = "fetch" /\ ~s.child
           want == IF fetches \/ (IsQuery(s) /\ op[u] # "schema" /\ ~s.noPrefetch) THEN Want ELSE 0
           def == ~fetches /\ s.define
           ex == op[u] \in {"query", "update"} /\ ~s.define
           par == ~fetches /\ s.cursor = 0
           des == ~fetches /\ (s.cursor = 0 \/ op[u] = "schema")
<1>1. toClose \in Seq(Ids) /\ obj[u] \in Nat \ {0} /\ s.cursor \in 0 .. MaxCursors
  BY Parts, Fields DEF Base, Typed, TypeOK
<1>2. want \in {0, Want} /\ def \in BOOLEAN /\ ex \in BOOLEAN /\ par \in BOOLEAN /\ des \in BOOLEAN
  <2>1. s.define \in BOOLEAN /\ s.child \in BOOLEAN
    BY Parts, Fields DEF Base
  <2> QED BY <2>1
<1>3. Request(u) = [closes |-> toClose, object |-> obj[u], cursor |-> s.cursor, define |-> def,
                    exec |-> ex, parse |-> par, describe |-> des, want |-> want]
  BY DEF Request
<1> HIDE DEF s, fetches, want, def, ex, par, des
<1> QED BY <1>1, <1>2, <1>3 DEF Requests

LEMMA WriteBase ==
  ASSUME Base, NEW u \in Users, Write(u)
  PROVE  Base' /\ At' = "wait" /\ resp = <<>>
<1>1. /\ pc[u] = "write" /\ mu = u /\ req' = Request(u) /\ toClose' = <<>> /\ stm' = Started(u)
      /\ pc' = [pc EXCEPT ![u] = "wait"]
      /\ UNCHANGED <<mu, op, obj, second, prepared, readers, ops, resp, cursors>>
  BY DEF Write, Goto
<1>2. obj[u] \in DOMAIN stm /\ stm \in Seq(Statement) /\ stm[obj[u]].user = u
  BY <1>1, Working, Parts DEF Base
<1>3. /\ stm' \in Seq(Statement) /\ Len(stm') = Len(stm)
      /\ \A p \in DOMAIN stm :
           /\ stm'[p].user = stm[p].user /\ stm'[p].child = stm[p].child /\ stm'[p].cursor = stm[p].cursor
           /\ stm'[p].define = stm[p].define /\ stm'[p].noPrefetch = stm[p].noPrefetch
           /\ stm'[p].implicit = stm[p].implicit /\ stm'[p].rows = stm[p].rows /\ stm'[p].closed = stm[p].closed
           /\ stm'[p].more <=> stm[p].more \/ (p = obj[u] /\ IsQuery(stm[p]) /\ op[u] # "schema")
  BY <1>1, <1>2, StartedFacts
<1>4. DOMAIN stm' = DOMAIN stm /\ Len(stm') >= Len(stm) /\ Typed /\ Possession /\ Shapes
  BY <1>3, Domains, Parts DEF Base
<1>5. resp = <<>> /\ req' \in Requests
  BY <1>1, <1>2, RequestTyped DEF Base, Holders, At
<1>6. pc'[u] = "wait" /\ Apart(u)
  BY <1>1 DEF Base, Typed, TypeOK, Apart
<1>7. Typed'
  <2>1. \A p \in DOMAIN stm' : stm'[p].implicit <= Len(stm')
    BY <1>3, <1>4, Parts DEF Base, Typed
  <2>2. toClose' \in Seq(Ids)
    BY <1>1, EmptySeq
  <2>3. /\ mu' \in Users \cup {Nobody} /\ second' \in BOOLEAN /\ ops' \in [Users -> 0 .. MaxOps]
        /\ op' \in [Users -> {"query", "update", "schema", "fetch"}]
        /\ cursors' \in [Ids -> [owner: 0 .. Len(stm'), ran: BOOLEAN, defined: BOOLEAN, left: 0 .. Rows]]
    BY <1>1, <1>3 DEF Base, Typed, TypeOK
  <2>4. /\ obj[u] \in 0 .. Len(stm') /\ prepared[u] \in 0 .. Len(stm') /\ readers[u] \in SUBSET (1 .. Len(stm'))
        /\ obj' = [obj EXCEPT ![u] = obj[u]] /\ prepared' = [prepared EXCEPT ![u] = prepared[u]]
        /\ readers' = [readers EXCEPT ![u] = readers[u]]
    BY <1>1, <1>3, Parts, Entries DEF Base
  <2> DEFINE o == obj[u]
             b == prepared[u]
             r == readers[u]
  <2> HIDE DEF o, b, r
  <2>5. /\ o \in 0 .. Len(stm') /\ b \in 0 .. Len(stm') /\ r \in SUBSET (1 .. Len(stm'))
        /\ obj' = [obj EXCEPT ![u] = o] /\ prepared' = [prepared EXCEPT ![u] = b]
        /\ readers' = [readers EXCEPT ![u] = r]
    BY <2>4 DEF o, b, r
  <2>6. pc' = [pc EXCEPT ![u] = "wait"] /\ resp' = <<>> /\ req' \in Requests
    BY <1>1, <1>5
  <2> QED BY <1>3, <1>4, <2>1, <2>2, <2>3, <2>5, <2>6, TypedAfter
<1>8. Holders' /\ At' = "wait"
  BY <1>1, <1>5, HoldersHeld DEF Base, Busy
<1>9. Possession'
  <2>1. Owns(u)'
    BY <1>1, <1>3, <1>4, <1>6, OwnsOn
  <2>2. \A o \in DOMAIN stm :
          /\ stm'[o].user = stm[o].user /\ stm'[o].child = stm[o].child
          /\ stm[o].user # u => (stm'[o].closed <=> stm[o].closed) /\ (stm'[o].more <=> stm[o].more)
    BY <1>2, <1>3
  <2> QED BY <1>3, <1>4, <1>6, <2>1, <2>2, PossessionAfter
<1>10. Shapes'
  <2>1. \A o \in DOMAIN stm :
          /\ stm'[o].user = stm[o].user /\ stm'[o].child = stm[o].child
          /\ stm'[o].define => stm'[o].noPrefetch
          /\ stm'[o].noPrefetch => stm[o].noPrefetch \/ HasLobs(stm[o])
          /\ stm'[o].implicit \in {0, stm[o].implicit}
    BY <1>3 DEF Base, Shapes, Shaped
  <2> QED BY <1>3, <1>4, <2>1, ShapesAfter
<1> QED BY <1>5, <1>7, <1>8, <1>9, <1>10 DEF Base

LEMMA WriteDefersBase ==
  ASSUME Base, NEW u \in Users, WriteDefers(u)
  PROVE  Base' /\ Failed(u, Started(u)) /\ req = <<>> /\ resp = <<>>
<1>1. /\ pc[u] = "write" /\ mu = u /\ toClose' = <<>> /\ Fail(u, Started(u))
      /\ UNCHANGED <<op, second, ops, req, resp, cursors>>
  BY DEF WriteDefers
<1>2. obj[u] \in DOMAIN stm /\ stm[obj[u]].user = u /\ ~stm[obj[u]].closed /\ At = "write"
  BY <1>1, Working
<1>3. Follows(u, Started(u)) /\ Len(Started(u)) = Len(stm)
  BY <1>2, FollowsStarted
<1>4. /\ Started(u) \in Seq(Statement) /\ obj[u] \in DOMAIN Started(u)
      /\ ~Started(u)[obj[u]].closed
  BY <1>1, <1>2, <1>3, FollowsSmall DEF Follows, Base
<1>5. Failed(u, Started(u))
  BY <1>1, <1>4, FailFacts
<1>6. req = <<>> /\ resp = <<>>
  BY <1>2 DEF Base, Holders
<1>7. /\ toClose' \in Seq(Ids) /\ second' \in BOOLEAN
      /\ cursors' \in [Ids -> [owner: 0 .. Len(Started(u)), ran: BOOLEAN, defined: BOOLEAN, left: 0 .. Rows]]
  BY <1>1, <1>3, EmptySeq DEF Base, Typed, TypeOK
<1>8. Base'
  BY <1>1, <1>3, <1>5, <1>6, <1>7, FailedBase
<1> QED BY <1>5, <1>6, <1>8

\* What is known wherever a response is being processed.
LEMMA ResponseTyped ==
  ASSUME Base, resp # <<>>
  PROVE  /\ resp \in Responses /\ req = <<>> /\ resp.results \in Seq(Ids)
         /\ resp.describe \in BOOLEAN /\ resp.rows \in Nat /\ resp.rows <= Rows /\ resp.cursor \in 0 .. MaxCursors
         /\ resp.type \in {"ok", "nodata", "error", "integrity", "retry"}
<1>1. resp \in Responses /\ req = <<>>
  BY DEF Base, Typed, Holders
<1> QED BY <1>1 DEF Responses

\* Two results: the statements of both, the second closed.
LEMMA ResultsFacts ==
  ASSUME Base, NEW u \in Users, ProcessResults(u)
  PROVE  LET n == Len(stm)
             o == obj[u]
         IN  /\ pc[u] = "wait" /\ mu = u /\ o \in DOMAIN stm
             /\ resp # <<>> /\ Len(resp.results) > 1 /\ resp.results \in Seq(Ids)
             /\ pc' = [pc EXCEPT ![u] = "relock"]
             /\ UNCHANGED <<mu, toClose, op, obj, second, prepared, readers, ops, req, resp, cursors>>
             /\ stm' \in Seq(Statement) /\ Len(stm') = n + 2 /\ DOMAIN stm' = DOMAIN stm \cup {n + 1, n + 2}
             /\ \A p \in DOMAIN stm :
                  /\ stm'[p].user = stm[p].user /\ stm'[p].child = stm[p].child
                  /\ stm'[p].cursor = stm[p].cursor
                  /\ stm'[p].define = stm[p].define /\ stm'[p].noPrefetch = stm[p].noPrefetch
                  /\ stm'[p].more = stm[p].more /\ stm'[p].rows = stm[p].rows
                  /\ stm'[p].closed = stm[p].closed
                  /\ stm'[p].implicit = IF p = o THEN n + 1 ELSE stm[p].implicit
             /\ \A p \in {n + 1, n + 2} :
                  /\ stm'[p].user = u /\ stm'[p].child /\ (stm'[p].define => stm'[p].noPrefetch)
                  /\ stm'[p].more /\ stm'[p].rows = 0 /\ stm'[p].implicit = 0
                  /\ stm'[p].cursor = resp.results[p - n]
                  /\ stm'[p].closed <=> p = n + 2
<1> DEFINE n == Len(stm)
           a == Adopt(u, stm)
           e == Child(u, resp.results[2])
           f == [e EXCEPT !.closed = TRUE]
           t == Append(a, f)
<1>1. /\ pc[u] = "wait" /\ resp # <<>> /\ Len(resp.results) > 1 /\ stm' = t
      /\ pc' = [pc EXCEPT ![u] = "relock"]
      /\ UNCHANGED <<mu, toClose, op, obj, second, prepared, readers, ops, req, resp, cursors>>
  BY DEF ProcessResults, Goto
<1>2. mu = u /\ obj[u] \in DOMAIN stm /\ stm \in Seq(Statement) /\ n \in Nat /\ DOMAIN stm = 1 .. n
  BY <1>1, Working, Parts DEF Base
<1>3. resp \in Responses /\ resp.results \in Seq(Ids)
  BY <1>1, ResponseTyped
<1>4. resp.results[1] \in Ids /\ resp.results[2] \in Ids /\ resp.results # <<>>
  BY <1>1, <1>3
<1>5. /\ a \in Seq(Statement) /\ Len(a) = n + 1
      /\ a[n + 1] = Child(u, resp.results[1])
      /\ \A p \in DOMAIN stm :
           /\ a[p].user = stm[p].user /\ a[p].child = stm[p].child /\ a[p].cursor = stm[p].cursor
           /\ a[p].define = stm[p].define /\ a[p].noPrefetch = stm[p].noPrefetch
           /\ a[p].more = stm[p].more /\ a[p].rows = stm[p].rows /\ a[p].closed = stm[p].closed
           /\ a[p].implicit = IF p = obj[u] THEN n + 1 ELSE stm[p].implicit
  <2>1. /\ a \in Seq(Statement) /\ Len(a) = IF resp.results = <<>> THEN n ELSE n + 1
        /\ resp.results # <<>> => a[n + 1] = Child(u, resp.results[1])
        /\ \A p \in DOMAIN stm :
             /\ a[p].user = stm[p].user /\ a[p].child = stm[p].child /\ a[p].cursor = stm[p].cursor
             /\ a[p].define = stm[p].define /\ a[p].noPrefetch = stm[p].noPrefetch
             /\ a[p].more = stm[p].more /\ a[p].rows = stm[p].rows /\ a[p].closed = stm[p].closed
             /\ a[p].implicit = IF p = obj[u] /\ resp.results # <<>> THEN n + 1 ELSE stm[p].implicit
    <3>1. u \in Users /\ obj[u] \in DOMAIN stm /\ stm \in Seq(Statement) /\ resp \in Responses
      BY <1>2, <1>3
    <3> QED BY ONLY <3>1, AdoptFacts, ZenonT(60)
  <2> HIDE DEF a
  <2> QED BY <1>4, <2>1
<1>6. e \in Statement
  BY <1>4, ChildFacts
<1> HIDE DEF a
<1>7. /\ f.user = u /\ f.child = TRUE /\ f.cursor = resp.results[2] /\ (f.define => f.noPrefetch)
      /\ f.more = TRUE /\ f.closed = TRUE /\ f.implicit = 0 /\ f.rows = 0
  <2>1. /\ e.user = u /\ e.child = TRUE /\ e.cursor = resp.results[2] /\ (e.define => e.noPrefetch)
        /\ e.more = TRUE /\ e.implicit = 0 /\ e.rows = 0
    BY <1>4, ChildFacts
  <2> HIDE DEF e
  <2> QED BY <1>6, <2>1 DEF Statement
<1>8. f \in Statement
  BY <1>6 DEF Statement
<1> HIDE DEF e, f
<1>9. /\ t \in Seq(Statement) /\ Len(t) = n + 2 /\ t[n + 2] = f
      /\ \A p \in DOMAIN a : t[p] = a[p]
  BY <1>2, <1>5, <1>8, Added
<1>10. DOMAIN a = 1 .. n + 1 /\ DOMAIN t = 1 .. n + 2
  BY <1>2, <1>5, <1>9, Domains
<1> HIDE DEF t
<1>11. \A p \in DOMAIN stm :
           /\ t[p].user = stm[p].user /\ t[p].child = stm[p].child /\ t[p].cursor = stm[p].cursor
           /\ t[p].define = stm[p].define /\ t[p].noPrefetch = stm[p].noPrefetch
           /\ t[p].more = stm[p].more /\ t[p].rows = stm[p].rows /\ t[p].closed = stm[p].closed
           /\ t[p].implicit = IF p = obj[u] THEN n + 1 ELSE stm[p].implicit
  <2>1. \A p \in DOMAIN stm : t[p] = a[p]
    BY <1>2, <1>9, <1>10
  <2> QED BY <1>5, <2>1
<1>12. ASSUME NEW p \in {n + 1, n + 2}
       PROVE  /\ t[p].user = u /\ t[p].child /\ (t[p].define => t[p].noPrefetch)
              /\ t[p].more /\ t[p].rows = 0 /\ t[p].implicit = 0
              /\ t[p].cursor = resp.results[p - n]
              /\ t[p].closed <=> p = n + 2
  <2>1. CASE p = n + 1
    <3>1. t[p] = Child(u, resp.results[1]) /\ p - n = 1 /\ p # n + 2
      <4>1. n + 1 \in DOMAIN a /\ (n + 1) - n = 1 /\ n + 1 # n + 2
        BY <1>2, <1>10
      <4>2. t[n + 1] = Child(u, resp.results[1])
        BY <1>5, <1>9, <4>1
      <4> QED BY ONLY <2>1, <4>1, <4>2
    <3> QED BY <1>4, <2>1, <3>1, ChildFacts
  <2>2. CASE p = n + 2
    <3>1. t[p] = f /\ p - n = 2
      BY <1>2, <1>9, <2>2
    <3> QED BY <1>7, <2>2, <3>1
  <2> QED BY <2>1, <2>2
<1>13. DOMAIN t = DOMAIN stm \cup {n + 1, n + 2}
  BY <1>2, <1>10
<1> QED BY ONLY <1>1, <1>2, <1>3, <1>9, <1>11, <1>12, <1>13

LEMMA ResultsBase ==
  ASSUME Base, NEW u \in Users, ProcessResults(u)
  PROVE  Base' /\ At' = "relock"
<1> DEFINE n == Len(stm)
<1>1. /\ pc[u] = "wait" /\ mu = u /\ resp # <<>> /\ obj[u] \in DOMAIN stm
      /\ pc' = [pc EXCEPT ![u] = "relock"]
      /\ UNCHANGED <<mu, toClose, op, obj, second, prepared, readers, ops, req, resp, cursors>>
      /\ stm' \in Seq(Statement) /\ Len(stm') = n + 2 /\ DOMAIN stm' = DOMAIN stm \cup {n + 1, n + 2}
  BY ResultsFacts
<1>2. \A p \in DOMAIN stm :
        /\ stm'[p].user = stm[p].user /\ stm'[p].child = stm[p].child
        /\ stm'[p].define = stm[p].define /\ stm'[p].noPrefetch = stm[p].noPrefetch
        /\ stm'[p].more = stm[p].more /\ stm'[p].closed = stm[p].closed
        /\ stm'[p].implicit = IF p = obj[u] THEN n + 1 ELSE stm[p].implicit
  BY ResultsFacts
<1>3. \A p \in {n + 1, n + 2} :
        /\ stm'[p].user = u /\ stm'[p].child /\ (stm'[p].define => stm'[p].noPrefetch)
        /\ stm'[p].implicit = 0
  BY ResultsFacts
<1>4. n \in Nat /\ Len(stm') >= Len(stm) /\ Typed /\ Possession /\ Shapes /\ req = <<>>
  BY <1>1, ResponseTyped, Parts DEF Base
<1>5. Typed'
  <2>1. \A p \in DOMAIN stm' : stm'[p].implicit <= Len(stm')
    <3>1. \A p \in DOMAIN stm : stm'[p].implicit <= Len(stm')
      <4>1. \A p \in DOMAIN stm : stm[p].implicit \in Nat /\ stm[p].implicit <= n
        BY <1>4, Parts, Fields DEF Typed
      <4> QED BY <1>1, <1>2, <1>4, <4>1
    <3> QED BY <1>1, <1>3, <1>4, <3>1
  <2>2. /\ mu' \in Users \cup {Nobody} /\ toClose' \in Seq(Ids) /\ second' \in BOOLEAN
        /\ ops' \in [Users -> 0 .. MaxOps] /\ op' \in [Users -> {"query", "update", "schema", "fetch"}]
        /\ req' = <<>> /\ resp' \in Responses
    BY <1>1, <1>4 DEF Typed, TypeOK
  <2>3. cursors' \in [Ids -> [owner: 0 .. Len(stm'), ran: BOOLEAN, defined: BOOLEAN, left: 0 .. Rows]]
    <3>1. Len(stm') \in Nat
      BY <1>1, <1>4
    <3> QED BY <1>1, <1>4, <3>1, Grown
  <2> DEFINE o == obj[u]
             b == prepared[u]
             r == readers[u]
  <2>4. /\ o \in 0 .. Len(stm') /\ b \in 0 .. Len(stm') /\ r \in SUBSET (1 .. Len(stm'))
        /\ obj' = [obj EXCEPT ![u] = o] /\ prepared' = [prepared EXCEPT ![u] = b]
        /\ readers' = [readers EXCEPT ![u] = r]
    BY <1>1, <1>4, Parts, Entries
  <2> HIDE DEF o, b, r
  <2> QED BY <1>1, <1>4, <2>1, <2>2, <2>3, <2>4, TypedAfter
<1>6. Holders' /\ At' = "relock"
  BY <1>1, <1>4, HoldersHeld DEF Base, Busy
<1>7. Possession'
  <2>1. \A o \in DOMAIN stm :
          /\ stm'[o].user = stm[o].user /\ stm'[o].child = stm[o].child
          /\ stm[o].user # u => (stm'[o].closed <=> stm[o].closed) /\ (stm'[o].more <=> stm[o].more)
    BY <1>2
  <2>2. /\ pc'[u] = "relock" /\ obj'[u] # 0 /\ stm'[obj'[u]].user = u
        /\ prepared'[u] = prepared[u] /\ readers'[u] = readers[u] /\ Apart(u)
    <3>1. obj[u] # 0 /\ stm[obj[u]].user = u
      BY <1>1, Working
    <3>2. pc'[u] = "relock" /\ \A v \in Users : v # u => pc'[v] = pc[v]
      BY <1>1, <1>4 DEF Typed, TypeOK
    <3> QED BY <1>1, <2>1, <3>1, <3>2 DEF Apart
  <2>3. Owns(u)'
    BY <1>4, <2>1, <2>2, OwnsAfter DEF Possession
  <2> QED BY <1>1, <1>4, <2>1, <2>2, <2>3, PossessionAfter
<1>8. Shapes'
  <2>1. stm[obj[u]].user = u
    BY <1>1, Working
  <2>2. \A o \in DOMAIN stm :
          /\ stm'[o].user = stm[o].user /\ stm'[o].child = stm[o].child
          /\ stm'[o].define => stm'[o].noPrefetch
          /\ stm'[o].noPrefetch => stm[o].noPrefetch \/ HasLobs(stm[o])
          /\ \/ stm'[o].implicit \in {0, stm[o].implicit}
             \/ stm'[stm'[o].implicit].child /\ stm'[stm'[o].implicit].user = stm[o].user
    BY <1>2, <1>3, <2>1 DEF Base, Shapes, Shaped
  <2>3. \A o \in DOMAIN stm' \ DOMAIN stm :
          (stm'[o].define => stm'[o].noPrefetch) /\ (stm'[o].noPrefetch => stm'[o].child) /\ stm'[o].implicit = 0
    BY <1>1, <1>3
  <2> QED BY <1>1, <1>4, <2>2, <2>3, ShapesAfter
<1> QED BY <1>5, <1>6, <1>7, <1>8 DEF Base

\* The rows cannot be processed.
LEMMA AbortsBase ==
  ASSUME Base, NEW u \in Users, ProcessAborts(u)
  PROVE  Base' /\ Failed(u, [stm EXCEPT ![obj[u]] = Described(@)])
<1> DEFINE s == [stm EXCEPT ![obj[u]] = Described(@)]
<1>1. /\ pc[u] = "wait" /\ resp # <<>> /\ resp' = <<>> /\ Fail(u, s)
      /\ UNCHANGED <<toClose, op, second, ops, req, cursors>>
  BY DEF ProcessAborts
<1>2. obj[u] \in DOMAIN stm /\ stm[obj[u]].user = u /\ ~stm[obj[u]].closed /\ mu = u
  BY <1>1, Working
<1>3. resp \in Responses /\ req = <<>>
  BY <1>1, ResponseTyped
<1>4. Follows(u, s) /\ Len(s) = Len(stm)
  BY <1>2, <1>3, FollowsDescribed
<1> HIDE DEF s
<1>5. s \in Seq(Statement) /\ obj[u] \in DOMAIN s /\ ~s[obj[u]].closed
  BY <1>2, <1>4, FollowsSmall DEF Follows, Base
<1>6. Failed(u, s)
  BY <1>1, <1>5, FailFacts
<1>7. /\ toClose' \in Seq(Ids) /\ second' \in BOOLEAN /\ req' = <<>>
      /\ cursors' \in [Ids -> [owner: 0 .. Len(s), ran: BOOLEAN, defined: BOOLEAN, left: 0 .. Rows]]
  BY <1>1, <1>3, <1>4 DEF Base, Typed, TypeOK
<1>8. Base'
  BY <1>1, <1>2, <1>4, <1>6, <1>7, FailedBase
<1> QED BY <1>6, <1>8 DEF s

\* Claimed changes owners only.
LEMMA ClaimedFacts ==
  ASSUME Typed, resp \in Responses, NEW n \in Nat, n >= Len(stm),
         resp.results # <<>> => n >= Len(stm) + 1
  PROVE  /\ Claimed \in [Ids -> [owner: 0 .. n, ran: BOOLEAN, defined: BOOLEAN, left: 0 .. Rows]]
         /\ \A id \in Ids :
              /\ Claimed[id].owner = IF id \in ToSet(resp.results) THEN Len(stm) + 1 ELSE cursors[id].owner
              /\ Claimed[id].ran = cursors[id].ran /\ Claimed[id].defined = cursors[id].defined
              /\ Claimed[id].left = cursors[id].left
<1> DEFINE Cursor == [owner: 0 .. n, ran: BOOLEAN, defined: BOOLEAN, left: 0 .. Rows]
<1>1. cursors \in [Ids -> Cursor] /\ Len(stm) \in Nat
  BY Grown, Parts
<1>2. resp.results = <<>> => ToSet(resp.results) = {}
  BY DEF ToSet
<1>3. ASSUME NEW id \in Ids
      PROVE  /\ Claimed[id] \in Cursor
             /\ Claimed[id].owner = IF id \in ToSet(resp.results) THEN Len(stm) + 1 ELSE cursors[id].owner
             /\ Claimed[id].ran = cursors[id].ran /\ Claimed[id].defined = cursors[id].defined
             /\ Claimed[id].left = cursors[id].left
  <2>1. cursors[id] \in Cursor
    BY <1>1
  <2>2. CASE id \in ToSet(resp.results)
    <3>1. Claimed[id] = [cursors[id] EXCEPT !.owner = Len(stm) + 1]
      BY <2>2 DEF Claimed
    <3>2. Len(stm) + 1 \in 0 .. n
      BY <1>1, <1>2, <2>2
    <3> QED BY <2>1, <2>2, <3>1, <3>2
  <2>3. CASE id \notin ToSet(resp.results)
    <3>1. Claimed[id] = cursors[id]
      BY <2>3 DEF Claimed
    <3> QED BY <2>1, <2>3, <3>1
  <2> QED BY <2>2, <2>3
<1>4. Claimed = [id \in Ids |-> Claimed[id]]
  BY DEF Claimed
<1> QED BY <1>3, <1>4

\* The three ways a response is processed.
Repeats(u) ==
  /\ stm' = After(u) /\ pc' = [pc EXCEPT ![u] = "write"] /\ UNCHANGED <<mu, obj, prepared, readers>>
  /\ \/ resp.type = "retry" /\ second' = second
     \/ /\ resp.type \in {"ok", "nodata"} /\ Heard(u).define /\ op[u] # "schema"
        /\ op[u] = "fetch" => stm[obj[u]].child
        /\ ~second /\ second' = TRUE

\* Process, as one of the three ways.
LEMMA ProcessFacts ==
  ASSUME Base, NEW u \in Users, Process(u)
  PROVE  LET s == stm[obj[u]]
         IN  /\ pc[u] = "wait" /\ mu = u /\ At = "wait" /\ obj[u] \in DOMAIN stm /\ s.user = u /\ ~s.closed
             /\ resp # <<>> /\ resp \in Responses /\ req = <<>> /\ Len(resp.results) <= 1
             /\ toClose' = IF Clears(s) THEN AddCursor(toClose, Known(s)) ELSE toClose
             /\ resp' = <<>> /\ cursors' = Claimed /\ UNCHANGED <<op, ops, req>>
             /\ \/ Repeats(u)
                \/ resp.type \in {"error", "integrity"} /\ second' = second /\ Failed(u, After(u))
                \/ /\ resp.type \in {"ok", "nodata"} /\ second' = second /\ Succeeded(u, After(u))
                   /\ ~(NeedsDefine(u, Heard(u)) /\ ~second)
<1> DEFINE s == stm[obj[u]]
<1>1. /\ pc[u] = "wait" /\ resp # <<>> /\ Len(resp.results) <= 1
      /\ toClose' = IF Clears(s) THEN AddCursor(toClose, Known(s)) ELSE toClose
      /\ resp' = <<>> /\ cursors' = Claimed /\ UNCHANGED <<op, ops, req>>
  BY DEF Process
<1>2. /\ mu = u /\ At = "wait" /\ obj[u] \in DOMAIN stm /\ s \in Statement /\ s.user = u /\ ~s.closed
      /\ resp \in Responses /\ req = <<>>
  BY <1>1, Working, ResponseTyped
<1>3. (CASE resp.type = "retry" ->
              stm' = After(u) /\ Goto(u, "write") /\ UNCHANGED <<mu, obj, second, prepared, readers>>
         [] resp.type \in {"error", "integrity"} ->
              Fail(u, After(u)) /\ UNCHANGED second
         [] resp.type \in {"ok", "nodata"} /\ NeedsDefine(u, Heard(u)) /\ ~second ->
              /\ stm' = After(u) /\ Goto(u, "write") /\ second' = TRUE
              /\ UNCHANGED <<mu, obj, prepared, readers>>
         [] OTHER -> Succeed(u, After(u)) /\ UNCHANGED second)
  BY Zenon DEF Process, Heard, After
<1>4. Follows(u, After(u)) /\ After(u)[obj[u]].closed = s.closed
  BY <1>2, FollowsAfter
<1>5. /\ After(u) \in Seq(Statement) /\ obj[u] \in DOMAIN After(u) /\ ~After(u)[obj[u]].closed
      /\ After(u)[obj[u]].implicit <= Len(After(u))
  BY <1>2, <1>4, FollowsSmall DEF Follows, Base
<1>6. resp.type \in {"ok", "nodata", "error", "integrity", "retry"}
  BY <1>2 DEF Responses
<1>7. CASE resp.type = "retry"
  <2>1. stm' = After(u) /\ Goto(u, "write") /\ UNCHANGED <<mu, obj, second, prepared, readers>>
    BY <1>3, <1>7
  <2>2. Repeats(u)
    BY <1>7, <2>1 DEF Repeats, Goto
  <2> QED BY <1>1, <1>2, <2>2
<1>8. CASE resp.type \in {"error", "integrity"}
  <2>1. Fail(u, After(u)) /\ second' = second
    BY <1>3, <1>8
  <2>2. Failed(u, After(u))
    BY <1>5, <2>1, FailFacts
  <2> QED BY <1>1, <1>2, <1>8, <2>1, <2>2
<1>9. CASE resp.type \in {"ok", "nodata"} /\ NeedsDefine(u, Heard(u)) /\ ~second
  <2>1. /\ stm' = After(u) /\ Goto(u, "write") /\ second' = TRUE
        /\ UNCHANGED <<mu, obj, prepared, readers>>
    BY <1>3, <1>9
  <2>2. Heard(u).child = s.child
    BY <1>2, HeardFacts
  <2>3. Repeats(u)
    BY <1>9, <2>1, <2>2 DEF Repeats, Goto, NeedsDefine
  <2> QED BY <1>1, <1>2, <2>3
<1>10. CASE resp.type \in {"ok", "nodata"} /\ ~(NeedsDefine(u, Heard(u)) /\ ~second)
  <2>1. Succeed(u, After(u)) /\ second' = second
    BY <1>3, <1>10
  <2>2. Succeeded(u, After(u))
    BY <1>5, <2>1, SucceedFacts
  <2> QED BY <1>1, <1>2, <1>10, <2>1, <2>2
<1> QED BY <1>6, <1>7, <1>8, <1>9, <1>10

LEMMA ProcessBase ==
  ASSUME Base, NEW u \in Users, Process(u)
  PROVE  Base'
<1> DEFINE s == stm[obj[u]]
           t == After(u)
           n == Len(t)
<1>1. /\ pc[u] = "wait" /\ mu = u /\ At = "wait" /\ obj[u] \in DOMAIN stm /\ s.user = u /\ ~s.closed
      /\ resp # <<>> /\ resp \in Responses /\ req = <<>> /\ Len(resp.results) <= 1
      /\ toClose' = IF Clears(s) THEN AddCursor(toClose, Known(s)) ELSE toClose
      /\ resp' = <<>> /\ cursors' = Claimed /\ UNCHANGED <<op, ops, req>>
  BY ProcessFacts
<1>2. \/ Repeats(u)
      \/ resp.type \in {"error", "integrity"} /\ second' = second /\ Failed(u, t)
      \/ resp.type \in {"ok", "nodata"} /\ second' = second /\ Succeeded(u, t)
  BY ProcessFacts
<1>3. Follows(u, t) /\ n = IF resp.results = <<>> THEN Len(stm) ELSE Len(stm) + 1
  BY <1>1, FollowsAfter
<1>4. /\ n \in Nat /\ n >= Len(stm) /\ Len(stm) \in Nat /\ DOMAIN t = 1 .. n /\ DOMAIN stm \subseteq DOMAIN t
      /\ \A o \in DOMAIN t : t[o].implicit <= n
  <2>1. Len(stm) \in Nat /\ n >= Len(stm)
    BY <1>3, Parts DEF Base, Follows
  <2> HIDE DEF t
  <2> QED BY <1>3, <2>1, FollowsSmall DEF Base
<1>5. cursors' \in [Ids -> [owner: 0 .. n, ran: BOOLEAN, defined: BOOLEAN, left: 0 .. Rows]]
  BY <1>1, <1>3, <1>4, ClaimedFacts DEF Base
<1>6. toClose' \in Seq(Ids)
  <2>1. toClose \in Seq(Ids) /\ Known(s) \in 0 .. MaxCursors
    BY <1>1, Parts, Fields DEF Base, Typed, TypeOK, Known, Responses
  <2> QED BY <1>1, <2>1, AddCursorFacts
<1>7. CASE resp.type \in {"error", "integrity"} /\ second' = second /\ Failed(u, t)
  <2>1. second' \in BOOLEAN
    BY <1>7 DEF Base, Typed, TypeOK
  <2> QED BY <1>1, <1>3, <1>5, <1>6, <1>7, <2>1, FailedBase
<1>8. CASE resp.type \in {"ok", "nodata"} /\ second' = second /\ Succeeded(u, t)
  <2>1. second' \in BOOLEAN
    BY <1>8 DEF Base, Typed, TypeOK
  <2> QED BY <1>1, <1>3, <1>5, <1>6, <1>8, <2>1, SucceededBase
<1>9. CASE Repeats(u)
  <2>1. /\ stm' = t /\ pc' = [pc EXCEPT ![u] = "write"] /\ UNCHANGED <<mu, obj, prepared, readers>>
        /\ second' \in BOOLEAN
    BY <1>9 DEF Repeats, Base, Typed, TypeOK
  <2> HIDE DEF t, n, s
  <2>2. /\ stm' \in Seq(Statement) /\ Len(stm') = n /\ DOMAIN stm' = DOMAIN t
        /\ \A o \in DOMAIN stm :
             /\ stm'[o].user = stm[o].user /\ stm'[o].child = stm[o].child /\ stm'[o].closed = stm[o].closed
             /\ stm'[o].define => stm'[o].noPrefetch
             /\ stm'[o].noPrefetch => stm[o].noPrefetch \/ HasLobs(stm[o])
             /\ \/ stm'[o].implicit \in {0, stm[o].implicit}
                \/ stm'[stm'[o].implicit].child /\ stm'[stm'[o].implicit].user = stm[o].user
             /\ stm[o].user # u => stm'[o].more = stm[o].more
        /\ \A o \in DOMAIN stm' \ DOMAIN stm : (stm'[o].define => stm'[o].noPrefetch) /\ (stm'[o].noPrefetch => stm'[o].child) /\ stm'[o].implicit = 0
    BY <1>3, <2>1 DEF Follows, n
  <2>3. pc'[u] = "write" /\ Apart(u) /\ Typed /\ Possession /\ Shapes
    BY <1>1, <2>1 DEF Base, Typed, TypeOK, Apart
  <2>4. Typed'
    <3>1. \A p \in DOMAIN stm' : stm'[p].implicit <= Len(stm')
      BY <1>4, <2>1, <2>2
    <3>2. /\ mu' \in Users \cup {Nobody} /\ ops' \in [Users -> 0 .. MaxOps]
          /\ op' \in [Users -> {"query", "update", "schema", "fetch"}]
          /\ cursors' \in [Ids -> [owner: 0 .. Len(stm'), ran: BOOLEAN, defined: BOOLEAN, left: 0 .. Rows]]
      BY <1>1, <1>5, <2>1, <2>2 DEF Base, Typed, TypeOK
    <3>3. Moves(u, "write", obj[u], prepared[u], readers[u])
      BY <1>4, <2>1, <2>2, <2>3, Parts, Entries DEF Moves
    <3>4. resp' = <<>> /\ req' = <<>> /\ Len(stm') >= Len(stm) /\ second' \in BOOLEAN
      BY <1>1, <1>4, <2>1, <2>2
    <3> QED BY <1>6, <2>2, <2>3, <3>1, <3>2, <3>3, <3>4, TypedMoves
  <2>5. Holders'
    BY <1>1, <2>1, HoldersHeld DEF Base, Busy
  <2>6. Possession'
    <3>1. \A o \in DOMAIN stm :
            /\ stm'[o].user = stm[o].user /\ stm'[o].child = stm[o].child
            /\ stm[o].user # u => (stm'[o].closed <=> stm[o].closed) /\ (stm'[o].more <=> stm[o].more)
      BY <2>2
    <3>2. \A o \in DOMAIN stm : op[u] = "fetch" /\ stm[o].more => stm'[o].more
      <4>1. stm[obj[u]].more => stm'[obj[u]].more
        <5>1. resp.type # "nodata"
          <6>1. Heard(u).define => resp.type # "nodata"
            BY <1>1, HeardFacts, Parts DEF Base
          <6> QED BY <1>9, <6>1 DEF Repeats
        <5>2. stm'[obj[u]].more = Heard(u).more
          <6>1. stm \in Seq(Statement)
            BY Parts DEF Base
          <6>2. t[obj[u]].more = Heard(u).more
            BY ONLY <1>1, <6>1, u \in Users, AfterFacts DEF t
          <6> QED BY <2>1, <6>2
        <5>3. Heard(u).more <=> stm[obj[u]].more /\ resp.type # "nodata"
          BY <1>1, HeardFacts, Parts DEF Base
        <5> QED BY <5>1, <5>2, <5>3
      <4>2. \A o \in DOMAIN stm : o # obj[u] => stm'[o].more = stm[o].more
        <5>1. stm \in Seq(Statement)
          BY Parts DEF Base
        <5>2. \A o \in DOMAIN stm : o # obj[u] => t[o].more = stm[o].more
          BY ONLY <1>1, <5>1, u \in Users, AfterFacts DEF t
        <5> QED BY <2>1, <5>2
      <4> QED BY <4>1, <4>2
    <3>3. Owns(u)'
      <4>1. Len(stm') >= Len(stm) /\ op' = op /\ obj' = obj /\ prepared' = prepared /\ readers' = readers
        BY <1>1, <1>4, <2>1, <2>2
      <4> QED BY <1>1, <2>2, <2>3, <3>2, <4>1, OwnsOn
    <3> QED BY <1>4, <2>2, <2>3, <3>1, <3>3, PossessionAfter
  <2>7. Shapes'
    BY <1>4, <2>2, <2>3, ShapesAfter
  <2> QED BY <2>4, <2>5, <2>6, <2>7 DEF Base
<1> QED BY <1>2, <1>7, <1>8, <1>9

\* A user between operations closes one of its statements.
IdleLeft(u, c, r, b) ==
  /\ pc[u] = "idle" /\ Leaves(u, stm, c) /\ c \in Nat /\ (c # 0 => stm[c].user = u)
  /\ readers' = [readers EXCEPT ![u] = r] /\ r \subseteq readers[u]
  /\ prepared' = [prepared EXCEPT ![u] = b] /\ b \in {0, prepared[u]}
  /\ UNCHANGED <<mu, toClose, op, second, ops, req, resp, cursors>>

\* Closing a statement, or releasing a reader, between operations.
LEMMA IdleLeftBase ==
  ASSUME Base, NEW u \in Users, NEW c, NEW r, NEW b, IdleLeft(u, c, r, b)
  PROVE  Base' /\ At' = At
<1>1. /\ pc[u] = "idle" /\ Leaves(u, stm, c) /\ c \in Nat /\ (c # 0 => stm[c].user = u)
      /\ readers' = [readers EXCEPT ![u] = r] /\ r \subseteq readers[u]
      /\ prepared' = [prepared EXCEPT ![u] = b] /\ b \in {0, prepared[u]}
      /\ UNCHANGED <<mu, toClose, op, second, ops, req, resp, cursors>>
  BY DEF IdleLeft
<1>2. Typed /\ Possession /\ Shapes /\ Holders
  BY DEF Base
<1>3. /\ stm' \in Seq(Statement) /\ Len(stm') = Len(stm) /\ DOMAIN stm' = DOMAIN stm
      /\ Len(stm') >= Len(stm) /\ Len(stm) \in Nat /\ DOMAIN stm = 1 .. Len(stm)
      /\ \A o \in DOMAIN stm :
           /\ stm'[o].user = stm[o].user /\ stm'[o].child = stm[o].child /\ stm'[o].more = stm[o].more
           /\ stm'[o].define = stm[o].define /\ stm'[o].noPrefetch = stm[o].noPrefetch
           /\ stm'[o].implicit = stm[o].implicit /\ (stm'[o].closed <=> stm[o].closed \/ o = c)
  <2>1. Kept(stm, stm', c)
    BY <1>1 DEF Leaves
  <2>2. stm' \in Seq(Statement) /\ Len(stm') = Len(stm)
    BY <2>1 DEF Kept
  <2>3. DOMAIN stm' = DOMAIN stm /\ Len(stm) \in Nat /\ DOMAIN stm = 1 .. Len(stm)
    BY <1>2, <2>2, Domains, Parts
  <2> QED BY <2>1, <2>2, <2>3 DEF Kept
<1>4. PICK x \in {"idle", "close"}, a \in 0 .. Len(stm) :
        /\ pc' = [pc EXCEPT ![u] = x] /\ obj' = [obj EXCEPT ![u] = a]
        /\ (a # 0 => stm[a].user = u /\ a \in DOMAIN stm) /\ (x # "idle" => a # 0)
  <2>1. CASE c = 0
    <3>1. pc' = [pc EXCEPT ![u] = "idle"] /\ obj' = [obj EXCEPT ![u] = obj[u]]
      BY <1>1, <1>2, <1>3, <2>1, Entries DEF Leaves
    <3>2. obj[u] \in 0 .. Len(stm) /\ (obj[u] # 0 => stm[obj[u]].user = u /\ obj[u] \in DOMAIN stm)
      BY <1>2, Parts DEF Possession, Owns
    <3> QED BY <3>1, <3>2
  <2>2. CASE c # 0
    <3>1. c \in DOMAIN stm /\ pc' = [pc EXCEPT ![u] = "close"] /\ obj' = [obj EXCEPT ![u] = c]
      BY <1>1, <2>2 DEF Leaves
    <3>2. c \in 0 .. Len(stm) /\ stm[c].user = u
      BY <1>1, <1>3, <2>2, <3>1
    <3>3. "close" \in {"idle", "close"}
      OBVIOUS
    <3> QED BY ONLY <2>2, <3>1, <3>2, <3>3
  <2> QED BY <2>1, <2>2
<1>5. pc'[u] = x /\ obj'[u] = a /\ readers'[u] = r /\ prepared'[u] = b /\ Apart(u)
  BY <1>1, <1>2, <1>3, <1>4, Parts DEF Typed, TypeOK, Apart
<1>6. Typed'
  <2>1. Moves(u, x, a, b, r)
    BY <1>1, <1>2, <1>3, <1>4, Parts DEF Moves
  <2>2. \A o \in DOMAIN stm' : stm'[o].implicit <= Len(stm')
    BY <1>2, <1>3 DEF Typed
  <2>3. /\ mu' \in Users \cup {Nobody} /\ toClose' \in Seq(Ids) /\ second' \in BOOLEAN
        /\ ops' \in [Users -> 0 .. MaxOps] /\ op' \in [Users -> {"query", "update", "schema", "fetch"}]
        /\ cursors' \in [Ids -> [owner: 0 .. Len(stm'), ran: BOOLEAN, defined: BOOLEAN, left: 0 .. Rows]]
        /\ (req' # <<>> => req' \in Requests) /\ (resp' # <<>> => resp' \in Responses)
    BY <1>1, <1>2, <1>3 DEF Typed, TypeOK
  <2> QED BY <1>2, <1>3, <2>1, <2>2, <2>3, TypedMoves
<1>7. Holders' /\ At' = At
  BY <1>1, <1>2, <1>4, HoldersStay DEF Busy
<1>8. Possession'
  <2>1. \A o \in DOMAIN stm :
          /\ stm'[o].user = stm[o].user /\ stm'[o].child = stm[o].child
          /\ stm[o].user # u => (stm'[o].closed <=> stm[o].closed) /\ (stm'[o].more <=> stm[o].more)
    BY <1>1, <1>3
  <2>2. Owns(u) /\ (pc'[u] # "idle" => obj'[u] # 0) /\ (obj'[u] # 0 => stm'[obj'[u]].user = u)
    BY <1>2, <1>3, <1>4, <1>5 DEF Possession
  <2>3. pc'[u] \in {"idle", "close", "relock"} /\ prepared'[u] \in {0, prepared[u]}
        /\ \A o \in readers'[u] : o \in readers[u]
    BY <1>1, <1>5
  <2>4. Owns(u)'
    BY <1>2, <2>1, <2>2, <2>3, OwnsAfter
  <2> QED BY <1>2, <1>3, <1>5, <2>1, <2>4, PossessionAfter
<1>9. Shapes'
  <2>1. \A o \in DOMAIN stm :
          /\ stm'[o].user = stm[o].user /\ stm'[o].child = stm[o].child
          /\ stm'[o].define => stm'[o].noPrefetch
          /\ stm'[o].noPrefetch => stm[o].noPrefetch \/ HasLobs(stm[o])
          /\ stm'[o].implicit \in {0, stm[o].implicit}
    BY <1>2, <1>3 DEF Shapes, Shaped
  <2> QED BY <1>2, <1>3, <2>1, ShapesAfter
<1> QED BY <1>6, <1>7, <1>8, <1>9 DEF Base

\* SetSqlQuery and Close of an adbc statement are such a step.
LEMMA CloseStatementFacts ==
  ASSUME Base, NEW u \in Users, CloseStatement(u)
  PROVE  /\ prepared[u] # 0
         /\ \E c \in {0, prepared[u]} : IdleLeft(u, c, readers[u], 0) /\ (c = 0 => stm[prepared[u]].closed)
<1>1. /\ pc[u] = "idle" /\ prepared[u] # 0 /\ BeginClose(u, prepared[u], stm)
      /\ prepared' = [prepared EXCEPT ![u] = 0]
      /\ UNCHANGED <<mu, toClose, op, second, readers, ops, req, resp, cursors>>
  BY DEF CloseStatement
<1>2. prepared[u] \in DOMAIN stm /\ stm \in Seq(Statement) /\ prepared[u] \in Nat
  BY <1>1, Parts DEF Base
<1>3. PICK c \in {0, prepared[u]} : Leaves(u, stm, c) /\ (c = 0 => stm[prepared[u]].closed)
  BY <1>1, <1>2, BeginCloseFacts
<1>4. c \in Nat /\ (c # 0 => stm[c].user = u) /\ readers' = [readers EXCEPT ![u] = readers[u]]
  BY <1>1, <1>2, Entries DEF Base, Possession, Owns
<1>5. IdleLeft(u, c, readers[u], 0)
  BY <1>1, <1>3, <1>4 DEF IdleLeft
<1> QED BY <1>1, <1>3, <1>5

\* The release of a reader is such a step.
LEMMA ReleaseFacts ==
  ASSUME Base, NEW u \in Users, Release(u)
  PROVE  \E o \in readers[u], c \in Nat :
           /\ o \in DOMAIN stm /\ c \in {0, o} /\ IdleLeft(u, c, readers[u] \ {o}, prepared[u])
           /\ c = 0 => stm[o].closed
<1>1. PICK o \in readers[u] : BeginClose(u, o, stm) /\ readers' = [readers EXCEPT ![u] = @ \ {o}]
  BY DEF Release
<1>2. pc[u] = "idle" /\ UNCHANGED <<mu, toClose, op, second, prepared, ops, req, resp, cursors>>
  BY DEF Release
<1>3. o \in DOMAIN stm /\ stm \in Seq(Statement) /\ o \in Nat /\ stm[o].user = u
  BY Parts DEF Base, Possession, Owns
<1>4. PICK c \in {0, o} : Leaves(u, stm, c) /\ (c = 0 => stm[o].closed)
  BY <1>1, <1>3, BeginCloseFacts
<1>5. c \in Nat /\ (c # 0 => stm[c].user = u) /\ prepared' = [prepared EXCEPT ![u] = prepared[u]]
  BY <1>2, <1>3, Entries DEF Base
<1>6. IdleLeft(u, c, readers[u] \ {o}, prepared[u])
  BY <1>1, <1>2, <1>4, <1>5 DEF IdleLeft
<1> QED BY <1>3, <1>4, <1>5, <1>6

\* A statement is prepared.
LEMMA AppendedNew ==
  ASSUME Base, NEW u \in Users, stm' = Append(stm, NewStatement(u, FALSE, 0))
  PROVE  LET n == Len(stm) + 1
         IN  /\ stm' \in Seq(Statement) /\ Len(stm') = n /\ DOMAIN stm' = DOMAIN stm \cup {n}
             /\ n \in Nat /\ n # 0 /\ n \notin DOMAIN stm
             /\ \A p \in DOMAIN stm : stm'[p] = stm[p]
             /\ stm'[n].user = u /\ ~stm'[n].child /\ stm'[n].cursor = 0 /\ ~stm'[n].define
             /\ ~stm'[n].noPrefetch /\ ~stm'[n].more /\ ~stm'[n].closed /\ stm'[n].implicit = 0
             /\ stm'[n].rows = 0
<1> DEFINE n == Len(stm) + 1
           e == NewStatement(u, FALSE, 0)
<1>1. 0 \in 0 .. MaxCursors /\ FALSE \in BOOLEAN
  OBVIOUS
<1>2. e \in Statement /\ e.user = u /\ e.child = FALSE /\ e.cursor = 0 /\ e.more = FALSE
      /\ e.implicit = 0 /\ e.rows = 0 /\ ~e.define /\ ~e.noPrefetch /\ ~e.closed
  <2> DEFINE N(child, id) == NewStatement(u, child, id)
  <2>1. \A child \in BOOLEAN, id \in 0 .. MaxCursors :
          /\ N(child, id) \in Statement /\ N(child, id).user = u /\ N(child, id).child = child
          /\ N(child, id).cursor = id /\ N(child, id).more = child
          /\ N(child, id).implicit = 0 /\ N(child, id).rows = 0
          /\ ~N(child, id).define /\ ~N(child, id).noPrefetch /\ ~N(child, id).closed
    BY NewFacts
  <2> HIDE DEF N
  <2>2. e = N(FALSE, 0)
    BY DEF N
  <2> HIDE DEF e
  <2> QED BY Zenon, <1>1, <2>1, <2>2
<1>3. stm \in Seq(Statement) /\ Len(stm) \in Nat /\ DOMAIN stm = 1 .. Len(stm)
  BY Parts DEF Base
<1>4. stm' = Append(stm, e)
  OBVIOUS
<1> HIDE DEF e
<1>5. /\ stm' \in Seq(Statement) /\ Len(stm') = n /\ stm'[n] = e /\ \A p \in DOMAIN stm : stm'[p] = stm[p]
  BY ONLY <1>2, <1>3, <1>4, Added
<1>6. DOMAIN stm' = DOMAIN stm \cup {n} /\ n \notin DOMAIN stm
  BY ONLY <1>3, <1>5, Domains
<1> QED BY ONLY <1>2, <1>3, <1>5, <1>6

\* A user prepares n, or goes on to execute what is prepared.
Prepares(u, x, a, n) ==
  /\ pc[u] = "idle" /\ x \in {"idle", "lock"}
  /\ pc' = [pc EXCEPT ![u] = x] /\ obj' = [obj EXCEPT ![u] = a] /\ prepared' = [prepared EXCEPT ![u] = n]
  /\ (x = "idle" /\ a = obj[u]) \/ (x = "lock" /\ a = n /\ op'[u] \in Ops)
  /\ \E name \in {"query", "update", "schema", "fetch"} : op' = [op EXCEPT ![u] = name]
  /\ ops' \in [Users -> 0 .. MaxOps] /\ UNCHANGED <<mu, toClose, second, readers, req, resp, cursors>>
  /\ stm' \in Seq(Statement) /\ Len(stm') >= Len(stm) /\ DOMAIN stm' = DOMAIN stm \cup {n}
  /\ n \in Nat /\ n # 0 /\ n \notin readers[u]
  /\ stm'[n].user = u /\ ~stm'[n].child /\ ~stm'[n].closed
  /\ \A p \in DOMAIN stm : stm'[p] = stm[p]
  /\ n \notin DOMAIN stm =>
       /\ stm'[n].cursor = 0 /\ ~stm'[n].define /\ ~stm'[n].noPrefetch /\ ~stm'[n].more
       /\ stm'[n].implicit = 0 /\ stm'[n].rows = 0
  /\ n \in DOMAIN stm => n = prepared[u]

\* A statement newly prepared.
LEMMA PreparedNew ==
  ASSUME Base, NEW u \in Users, pc[u] = "idle", ops[u] < MaxOps,
         stm' = Append(stm, NewStatement(u, FALSE, 0)),
         prepared' = [prepared EXCEPT ![u] = Len(stm) + 1], ops' = [ops EXCEPT ![u] = @ + 1],
         UNCHANGED <<mu, toClose, second, readers, req, resp, cursors>>,
         NEW x \in {"idle", "lock"}, pc' = [pc EXCEPT ![u] = x],
         NEW a, obj' = [obj EXCEPT ![u] = a],
         (x = "idle" /\ a = obj[u]) \/ (x = "lock" /\ a = Len(stm) + 1 /\ op'[u] \in Ops),
         \E name \in {"query", "update", "schema", "fetch"} : op' = [op EXCEPT ![u] = name]
  PROVE  Prepares(u, x, a, Len(stm) + 1)
<1> DEFINE n == Len(stm) + 1
<1>1. /\ stm' \in Seq(Statement) /\ Len(stm') = n /\ DOMAIN stm' = DOMAIN stm \cup {n}
      /\ n \in Nat /\ n # 0 /\ n \notin DOMAIN stm
      /\ \A p \in DOMAIN stm : stm'[p] = stm[p]
      /\ stm'[n].user = u /\ ~stm'[n].child /\ stm'[n].cursor = 0 /\ ~stm'[n].define
      /\ ~stm'[n].noPrefetch /\ ~stm'[n].more /\ ~stm'[n].closed /\ stm'[n].implicit = 0
      /\ stm'[n].rows = 0
  BY AppendedNew
<1>2. Len(stm') >= Len(stm) /\ n \notin readers[u]
  BY <1>1, Parts DEF Base
<1>3. ops' \in [Users -> 0 .. MaxOps]
  BY DEF Base, Typed, TypeOK
<1>4. prepared' = [prepared EXCEPT ![u] = n]
  OBVIOUS
<1> HIDE DEF n
<1>5. (x = "idle" /\ a = obj[u]) \/ (x = "lock" /\ a = n /\ op'[u] \in Ops)
  BY DEF n
<1>6. Prepares(u, x, a, n)
  BY <1>1, <1>2, <1>3, <1>4, <1>5 DEF Prepares
<1> QED BY <1>6 DEF n

\* Prepare is such a step.
LEMMA PrepareFacts ==
  ASSUME Base, NEW u \in Users, Prepare(u)
  PROVE  Prepares(u, "idle", obj[u], Len(stm) + 1)
<1>1. /\ pc[u] = "idle" /\ ops[u] < MaxOps /\ stm' = Append(stm, NewStatement(u, FALSE, 0))
      /\ prepared' = [prepared EXCEPT ![u] = Len(stm) + 1] /\ ops' = [ops EXCEPT ![u] = @ + 1]
      /\ UNCHANGED <<mu, toClose, pc, op, obj, second, readers, req, resp, cursors>>
  BY DEF Prepare
<1>2. /\ pc' = [pc EXCEPT ![u] = "idle"] /\ obj' = [obj EXCEPT ![u] = obj[u]]
      /\ op' = [op EXCEPT ![u] = op[u]] /\ op[u] \in {"query", "update", "schema", "fetch"}
  BY <1>1, Entries, Parts DEF Base
<1> DEFINE a == obj[u]
           x == "idle"
<1>3. /\ x \in {"idle", "lock"} /\ pc' = [pc EXCEPT ![u] = x] /\ obj' = [obj EXCEPT ![u] = a]
      /\ x = "idle" /\ a = obj[u]
      /\ \E name \in {"query", "update", "schema", "fetch"} : op' = [op EXCEPT ![u] = name]
  BY <1>2
<1> HIDE DEF a, x
<1>4. Prepares(u, x, a, Len(stm) + 1)
  BY <1>1, <1>3, PreparedNew
<1> QED BY <1>4 DEF a, x

\* The begin of an operation is such a step.
LEMMA BeginFacts ==
  ASSUME Base, NEW u \in Users, Begin(u)
  PROVE  \E n \in Nat : Prepares(u, "lock", n, n)
<1>1. /\ pc[u] = "idle" /\ ops[u] < MaxOps /\ obj' = [obj EXCEPT ![u] = prepared'[u]]
      /\ pc' = [pc EXCEPT ![u] = "lock"] /\ ops' = [ops EXCEPT ![u] = @ + 1]
      /\ UNCHANGED <<mu, toClose, second, readers, req, resp, cursors>>
  BY DEF Begin, Goto
<1>2. PICK name \in Ops : op' = [op EXCEPT ![u] = name]
  BY DEF Begin
<1>3. /\ name \in {"query", "update", "schema", "fetch"} /\ op'[u] \in Ops
  BY <1>2 DEF Base, Typed, TypeOK
<1>4. CASE prepared[u] # 0
  <2> DEFINE n == prepared[u]
  <2>1. ~stm[n].closed /\ stm' = stm /\ prepared' = prepared
    BY <1>4 DEF Begin
  <2>2. n \in DOMAIN stm /\ n \in Nat /\ n # 0 /\ Len(stm) \in Nat /\ stm \in Seq(Statement)
    BY <1>4, Parts DEF Base
  <2>3. stm[n].user = u /\ ~stm[n].child /\ n \notin readers[u]
    BY <1>4 DEF Base, Possession, Owns
  <2>4. prepared' = [prepared EXCEPT ![u] = n]
    BY <2>1, Entries DEF Base
  <2>5. obj' = [obj EXCEPT ![u] = n] /\ ops' \in [Users -> 0 .. MaxOps]
    BY <1>1, <2>1 DEF Base, Typed, TypeOK
  <2>6. DOMAIN stm' = DOMAIN stm \cup {n} /\ Len(stm') >= Len(stm) /\ n = prepared[u]
    <3> HIDE DEF n
    <3>1. DOMAIN stm = DOMAIN stm \cup {n} /\ Len(stm') = Len(stm)
      BY <2>1, <2>2
    <3> QED BY <2>1, <2>2, <3>1 DEF n
  <2> HIDE DEF n
  <2>7. Prepares(u, "lock", n, n)
    BY <1>1, <1>2, <1>3, <2>1, <2>2, <2>3, <2>4, <2>5, <2>6 DEF Prepares
  <2> QED BY <2>2, <2>7
<1>5. CASE prepared[u] = 0
  <2> DEFINE n == Len(stm) + 1
             x == "lock"
  <2>1. stm' = Append(stm, NewStatement(u, FALSE, 0)) /\ prepared' = [prepared EXCEPT ![u] = n]
    BY <1>5 DEF Begin
  <2>2. n \in Nat /\ obj' = [obj EXCEPT ![u] = n]
    BY <1>1, <2>1, Parts DEF Base, Typed, TypeOK
  <2>3. x \in {"idle", "lock"} /\ x = "lock" /\ pc' = [pc EXCEPT ![u] = x]
    BY <1>1
  <2>4. \E m \in {"query", "update", "schema", "fetch"} : op' = [op EXCEPT ![u] = m]
    BY <1>2, <1>3
  <2> HIDE DEF x
  <2>5. Prepares(u, x, n, n)
    BY <1>1, <1>3, <2>1, <2>2, <2>3, <2>4, PreparedNew
  <2> HIDE DEF n
  <2> QED BY <2>2, <2>3, <2>5
<1> QED BY <1>4, <1>5

LEMMA PreparesBase ==
  ASSUME Base, NEW u \in Users, NEW x, NEW a, NEW n, Prepares(u, x, a, n)
  PROVE  Base' /\ At' = At
<1>1. /\ pc[u] = "idle" /\ x \in {"idle", "lock"}
      /\ pc' = [pc EXCEPT ![u] = x] /\ obj' = [obj EXCEPT ![u] = a] /\ prepared' = [prepared EXCEPT ![u] = n]
      /\ (x = "idle" /\ a = obj[u]) \/ (x = "lock" /\ a = n /\ op'[u] \in Ops)
      /\ \E name \in {"query", "update", "schema", "fetch"} : op' = [op EXCEPT ![u] = name]
      /\ ops' \in [Users -> 0 .. MaxOps] /\ UNCHANGED <<mu, toClose, second, readers, req, resp, cursors>>
      /\ stm' \in Seq(Statement) /\ Len(stm') >= Len(stm) /\ DOMAIN stm' = DOMAIN stm \cup {n}
      /\ n \in Nat /\ n # 0 /\ n \notin readers[u]
      /\ stm'[n].user = u /\ ~stm'[n].child /\ ~stm'[n].closed
      /\ \A p \in DOMAIN stm : stm'[p] = stm[p]
      /\ n \notin DOMAIN stm =>
           stm'[n].cursor = 0 /\ (stm'[n].define => stm'[n].noPrefetch) /\ (stm'[n].noPrefetch => stm'[n].child) /\ stm'[n].implicit = 0
      /\ n \in DOMAIN stm => n = prepared[u]
  BY DEF Prepares
<1>2. Typed /\ Possession /\ Shapes /\ Holders /\ Owns(u)
  BY DEF Base, Possession
<1>3. /\ Len(stm') \in Nat /\ DOMAIN stm' = 1 .. Len(stm') /\ Len(stm) \in Nat /\ DOMAIN stm = 1 .. Len(stm)
  BY <1>1, <1>2, Domains, Parts
<1>4. a \in 0 .. Len(stm') /\ n \in 0 .. Len(stm') /\ n \in DOMAIN stm' /\ (a # 0 => stm'[a].user = u)
  <2>1. n \in DOMAIN stm' /\ n \in 0 .. Len(stm')
    BY <1>1, <1>3
  <2>2. CASE a = n
    BY <1>1, <2>1, <2>2
  <2>3. CASE a = obj[u]
    <3>1. obj[u] \in 0 .. Len(stm) /\ (obj[u] # 0 => obj[u] \in DOMAIN stm /\ stm[obj[u]].user = u)
      BY <1>2, Parts DEF Owns
    <3> QED BY <1>1, <1>3, <2>3, <3>1
  <2> QED BY <1>1, <2>1, <2>2, <2>3
<1>5. pc'[u] = x /\ obj'[u] = a /\ prepared'[u] = n /\ readers' = readers /\ Apart(u)
  BY <1>1, <1>2 DEF Typed, TypeOK, Apart
<1>6. Typed'
  <2>1. Moves(u, x, a, n, readers[u])
    <3>1. readers[u] \in SUBSET (1 .. Len(stm')) /\ readers' = [readers EXCEPT ![u] = readers[u]]
      BY <1>1, <1>2, <1>3, Parts, Entries
    <3> QED BY <1>1, <1>4, <3>1 DEF Moves
  <2>2. \A o \in DOMAIN stm' : stm'[o].implicit <= Len(stm')
    <3>1. \A o \in DOMAIN stm : stm[o].implicit \in Nat /\ stm[o].implicit <= Len(stm)
      BY <1>2, Parts, Fields DEF Typed
    <3> QED BY <1>1, <1>3, <3>1
  <2>3. /\ mu' \in Users \cup {Nobody} /\ toClose' \in Seq(Ids) /\ second' \in BOOLEAN
        /\ ops' \in [Users -> 0 .. MaxOps] /\ op' \in [Users -> {"query", "update", "schema", "fetch"}]
        /\ (req' # <<>> => req' \in Requests) /\ (resp' # <<>> => resp' \in Responses)
    BY <1>1, <1>2 DEF Typed, TypeOK
  <2>4. cursors' \in [Ids -> [owner: 0 .. Len(stm'), ran: BOOLEAN, defined: BOOLEAN, left: 0 .. Rows]]
    BY <1>1, <1>2, <1>3, Grown
  <2>5. stm' \in Seq(Statement) /\ Len(stm') >= Len(stm)
    BY <1>1
  <2> QED BY ONLY u \in Users, <1>2, <2>1, <2>2, <2>3, <2>4, <2>5, TypedMoves
<1>7. Holders' /\ At' = At
  BY <1>1, <1>2, HoldersStay DEF Busy
<1>8. Possession'
  <2>1. \A o \in DOMAIN stm :
          /\ stm'[o].user = stm[o].user /\ stm'[o].child = stm[o].child
          /\ stm[o].user # u => (stm'[o].closed <=> stm[o].closed) /\ (stm'[o].more <=> stm[o].more)
    BY <1>1
  <2>2. Owns(u)'
    <3>1. \A o \in readers'[u] : stm'[o].user = u /\ IsQuery(stm'[o])
      <4>1. readers[u] \subseteq DOMAIN stm /\ \A o \in readers[u] : stm[o].user = u /\ IsQuery(stm[o])
        BY <1>2, Parts DEF Owns
      <4> QED BY <1>1, <4>1
    <3>2. pc'[u] # "idle" => pc'[u] = "lock" /\ obj'[u] = n /\ obj'[u] # 0 /\ op'[u] \in Ops /\ op'[u] # "fetch"
      BY <1>1, <1>5
    <3> QED BY <1>1, <1>4, <1>5, <3>1, <3>2 DEF Owns
  <2> QED BY <1>1, <1>2, <1>5, <2>1, <2>2, PossessionAfter
<1>9. Shapes'
  <2>1. \A o \in DOMAIN stm :
          /\ stm'[o].user = stm[o].user /\ stm'[o].child = stm[o].child
          /\ stm'[o].define => stm'[o].noPrefetch
          /\ stm'[o].noPrefetch => stm[o].noPrefetch \/ HasLobs(stm[o])
          /\ stm'[o].implicit \in {0, stm[o].implicit}
    BY <1>1, <1>2 DEF Shapes, Shaped
  <2>2. \A o \in DOMAIN stm' \ DOMAIN stm :
          (stm'[o].define => stm'[o].noPrefetch) /\ (stm'[o].noPrefetch => stm'[o].child) /\ stm'[o].implicit = 0
    BY <1>1
  <2> QED BY <1>1, <1>2, <2>1, <2>2, ShapesAfter
<1> QED BY <1>6, <1>7, <1>8, <1>9 DEF Base

LEMMA BeginFetchBase ==
  ASSUME Base, NEW u \in Users, BeginFetch(u)
  PROVE  Base' /\ At' = At
<1>1. PICK o \in readers[u] : ~stm[o].closed /\ stm[o].more /\ obj' = [obj EXCEPT ![u] = o]
  BY DEF BeginFetch
<1>2. /\ pc[u] = "idle" /\ op' = [op EXCEPT ![u] = "fetch"] /\ pc' = [pc EXCEPT ![u] = "lock"]
      /\ UNCHANGED <<mu, toClose, stm, second, prepared, readers, ops, req, resp, cursors>>
  BY DEF BeginFetch, Goto
<1>3. Typed /\ Possession /\ Shapes /\ Holders /\ Owns(u) /\ stm \in Seq(Statement) /\ Len(stm) \in Nat
  BY Parts DEF Base, Possession
<1>4. o \in DOMAIN stm /\ o \in 0 .. Len(stm) /\ o # 0 /\ stm[o].user = u
  BY <1>3, Parts DEF Owns
<1>5. pc'[u] = "lock" /\ obj'[u] = o /\ op'[u] = "fetch" /\ Apart(u)
  BY <1>1, <1>2, <1>3 DEF Typed, TypeOK, Apart
<1>6. Typed'
  <2>1. obj' \in [Users -> 0 .. Len(stm)] /\ op' \in [Users -> {"query", "update", "schema", "fetch"}]
        /\ pc' \in [Users -> {"idle", "lock", "write", "wait", "close", "relock"}]
    BY <1>1, <1>2, <1>3, <1>4 DEF Typed, TypeOK
  <2> QED BY <1>2, <1>3, <2>1 DEF Typed, TypeOK
<1>7. Holders' /\ At' = At
  BY <1>2, <1>3, HoldersStay DEF Busy
<1>8. Possession'
  <2>1. Owns(u)'
    BY <1>1, <1>2, <1>3, <1>4, <1>5 DEF Owns, IsQuery
  <2> QED BY <1>2, <1>3, <1>5, <2>1, PossessionAfter
<1>9. Shapes'
  BY <1>2, <1>3 DEF Shapes, Shaped, HasLobs
<1> QED BY <1>6, <1>7, <1>8, <1>9 DEF Base

---------------------------------------------------------------------------
(* Cursors: those of a request and those on the list have one statement,   *)
(* or none.                                                                *)

\* A request is what u asks for, but for the cursors to close.
Asked(u) ==
  LET s == stm[obj[u]]
      fetches == op[u] = "fetch" /\ ~s.child
  IN  /\ req.object = obj[u] /\ req.cursor = s.cursor
      /\ req.define <=> ~fetches /\ s.define
      /\ req.exec <=> op[u] \in {"query", "update"} /\ ~s.define
      /\ req.parse <=> ~fetches /\ s.cursor = 0
      /\ req.describe <=> ~fetches /\ (s.cursor = 0 \/ op[u] = "schema")
      /\ req.want = IF fetches \/ (IsQuery(s) /\ op[u] # "schema" /\ ~s.noPrefetch) THEN Want ELSE 0

Current == req # <<>> => Asked(mu)

\* The cursors to close, which a request takes along.
List == IF req = <<>> THEN toClose ELSE req.closes
Sent == At = "wait" => toClose = <<>>

\* No two statements have the same cursor.
Distinct ==
  \A o, p \in DOMAIN stm : stm[o].cursor # 0 /\ stm[o].cursor = stm[p].cursor => o = p

\* The cursor of a statement is open for it, except that results not yet
\* processed to the end are still open for the block that returned them.
Owned ==
  \A o \in DOMAIN stm : stm[o].cursor # 0 =>
    stm[o].cursor \in Open /\ (At # "relock" => cursors[stm[o].cursor].owner = o)

\* A cursor to close is open, listed once, and no statement's.
Listed ==
  /\ IsInjective(List)
  /\ \A i \in DOMAIN List : List[i] \in Open /\ \A o \in DOMAIN stm : stm[o].cursor # List[i]

\* A response reports a cursor of the statement it answers, and results of a
\* block that are open for that block.
Answered ==
  resp # <<>> /\ At = "wait" =>
    LET o == obj[mu]
    IN  /\ resp.type # "error" => resp.cursor # 0
        /\ resp.cursor # 0 => cursors[resp.cursor].owner = o /\ stm[o].cursor \in {0, resp.cursor}
        /\ IsInjective(resp.results)
        /\ \A i \in DOMAIN resp.results :
             /\ cursors[resp.results[i]].owner = o /\ resp.results[i] # resp.cursor
             /\ resp.type = "ok" /\ stm[o].user \in Blocks /\ op[mu] \in {"query", "update"}

CursorInv == Sent /\ Current /\ Distinct /\ Owned /\ Listed /\ Answered

Inv == Base /\ CursorInv

(* The server.                                                             *)

ServerCursor == [owner: 0 .. Len(stm), ran: BOOLEAN, defined: BOOLEAN, left: 0 .. Rows]

\* What is open when the server has closed what it was asked to.
LEMMA ClosedFacts ==
  ASSUME Base, CursorInv, req # <<>>
  PROVE  /\ req \in Requests /\ At = "wait" /\ mu \in Users /\ pc[mu] = "wait" /\ resp = <<>>
         /\ obj[mu] \in DOMAIN stm /\ Asked(mu) /\ toClose = <<>>
         /\ Closed \in [Ids -> ServerCursor]
         /\ \A id \in Ids : Closed[id] = IF id \in ToSet(req.closes) THEN Free ELSE cursors[id]
         /\ \A id \in Ids : Closed[id].owner = 0 => cursors[id].owner = 0 \/ id \in ToSet(req.closes)
<1>1. req \in Requests /\ At = "wait" /\ resp = <<>> /\ Asked(mu) /\ toClose = <<>>
  BY DEF Base, Typed, Holders, CursorInv, Current, Sent
<1>2. mu \in Users /\ pc[mu] = "wait"
  BY <1>1 DEF At, Base, Typed, TypeOK
<1>3. obj[mu] \in DOMAIN stm /\ Len(stm) \in Nat
  BY <1>2, Working, Parts DEF Base
<1>4. Free \in ServerCursor
  BY <1>3 DEF Free, ServerCursor
<1>5. cursors \in [Ids -> ServerCursor]
  BY DEF Base, Typed, TypeOK, ServerCursor
<1>6. Closed \in [Ids -> ServerCursor]
  BY <1>4, <1>5 DEF Closed
<1>7. \A id \in Ids : Closed[id] = IF id \in ToSet(req.closes) THEN Free ELSE cursors[id]
  BY DEF Closed
<1> QED BY <1>1, <1>2, <1>3, <1>6, <1>7

\* The fields of an answer.
LEMMA AnswerFacts ==
  ASSUME req \in Requests, NEW type \in {"ok", "nodata", "error", "integrity", "retry"},
         NEW id \in 0 .. MaxCursors, NEW n \in 0 .. Rows, NEW rs \in Seq(Ids),
         resp' = Answer(type, id, n, rs)
  PROVE  /\ resp' \in Responses /\ resp'.type = type /\ resp'.cursor = id /\ resp'.rows = n /\ resp'.results = rs
         /\ resp'.describe <=> req.describe /\ id # 0
<1>1. req.describe \in BOOLEAN
  BY DEF Requests
<1> DEFINE d == req.describe /\ id # 0
<1>2. resp' = [type |-> type, cursor |-> id, rows |-> n, results |-> rs, describe |-> d] /\ d \in BOOLEAN
  BY <1>1 DEF Answer
<1> HIDE DEF d
<1>3. resp' \in Responses
  BY <1>2 DEF Responses
<1>4. resp'.type = type /\ resp'.cursor = id /\ resp'.rows = n /\ resp'.results = rs /\ resp'.describe = d
  BY <1>2
<1> QED BY <1>3, <1>4 DEF d

\* The cursor that serves a request is the statement's, or a new one.
LEMMA ServesFacts ==
  ASSUME Base, CursorInv, NEW id \in Ids, Serves(id)
  PROVE  /\ req # <<>> /\ stm[obj[mu]].cursor \in {0, id}
         /\ stm[obj[mu]].cursor = id => Closed[id] = cursors[id] /\ cursors[id].owner = obj[mu]
         /\ stm[obj[mu]].cursor = 0 => Closed[id] = Free /\ req.parse /\ ~stm[obj[mu]].child
         /\ \A o \in DOMAIN stm : stm[o].cursor = id => o = obj[mu]
<1> DEFINE o == obj[mu]
<1>1. req # <<>>
  BY DEF Serves
<1>2. /\ Asked(mu) /\ o \in DOMAIN stm /\ At = "wait" /\ id # 0
      /\ Closed[id] = IF id \in ToSet(req.closes) THEN Free ELSE cursors[id]
  BY <1>1, ClosedFacts DEF Ids
<1>3. req.cursor = stm[o].cursor /\ req.object = o
  BY <1>2 DEF Asked
<1>4. CASE stm[o].cursor # 0
  <2>1. id = stm[o].cursor /\ Closed[id] # Free
    BY <1>3, <1>4 DEF Serves
  <2>2. Closed[id] = cursors[id]
    BY <1>2, <2>1
  <2>3. cursors[id].owner = o
    BY <1>2, <1>4, <2>1 DEF CursorInv, Owned
  <2>4. \A p \in DOMAIN stm : stm[p].cursor = id => p = o
    BY <1>2, <1>4, <2>1 DEF CursorInv, Distinct
  <2> QED BY <1>1, <1>2, <2>1, <2>2, <2>3, <2>4
<1>5. CASE stm[o].cursor = 0
  <2>1. Closed[id] = Free /\ req.parse /\ ~stm[o].child
    BY <1>3, <1>5 DEF Serves
  <2>2. ASSUME NEW p \in DOMAIN stm, stm[p].cursor = id PROVE FALSE
    <3>1. cursors[id].owner # 0
      BY <1>2, <2>2 DEF CursorInv, Owned, Open
    <3>2. id \in ToSet(req.closes)
      BY <1>2, <2>1, <3>1 DEF Free
    <3>3. PICK i \in DOMAIN req.closes : req.closes[i] = id
      BY <3>2 DEF ToSet
    <3> QED BY <1>1, <2>2, <3>3 DEF CursorInv, Listed, List
  <2> QED BY <1>1, <1>2, <1>5, <2>1, <2>2
<1> QED BY <1>4, <1>5

\* What a step of the server does to the cursors, where "id" has served the
\* request, or is 0, and "rs" are results.
Answers(id, rs) ==
  /\ req # <<>> /\ req' = <<>> /\ resp' \in Responses /\ resp'.cursor = id
  /\ UNCHANGED <<mu, toClose, stm, pc, op, obj, second, prepared, readers, ops>>
  /\ cursors' \in [Ids -> ServerCursor]
  /\ id # 0 => id \in Ids /\ Serves(id) /\ cursors'[id].owner = req.object
  /\ id = 0 => resp'.type = "error"
  /\ resp'.results = rs /\ IsInjective(rs) /\ rs \in Seq(Ids)
  /\ \A i \in DOMAIN rs :
       /\ rs[i] # id /\ Closed[rs[i]] = Free /\ cursors'[rs[i]].owner = req.object
       /\ resp'.type = "ok" /\ req.exec /\ stm[req.object].user \in Blocks
  /\ \A c \in Ids : c # id /\ c \notin ToSet(rs) => cursors'[c] = Closed[c]

\* Whatever the server answers, the cursors stay accounted for.
LEMMA AnswersInv ==
  ASSUME Base, CursorInv, NEW id, NEW rs, Answers(id, rs)
  PROVE  Inv' /\ At' = "wait" /\ At = "wait"
<1> DEFINE o == obj[mu]
<1>1. /\ req # <<>> /\ req' = <<>> /\ resp' \in Responses /\ resp'.cursor = id
      /\ UNCHANGED <<mu, toClose, stm, pc, op, obj, second, prepared, readers, ops>>
      /\ cursors' \in [Ids -> ServerCursor]
      /\ id # 0 => id \in Ids /\ Serves(id) /\ cursors'[id].owner = req.object
      /\ id = 0 => resp'.type = "error"
      /\ resp'.results = rs /\ IsInjective(rs) /\ rs \in Seq(Ids)
      /\ \A i \in DOMAIN rs :
           /\ rs[i] # id /\ Closed[rs[i]] = Free /\ cursors'[rs[i]].owner = req.object
           /\ resp'.type = "ok" /\ req.exec /\ stm[req.object].user \in Blocks
      /\ \A c \in Ids : c # id /\ c \notin ToSet(rs) => cursors'[c] = Closed[c]
  BY DEF Answers
<1>2. /\ req \in Requests /\ At = "wait" /\ mu \in Users /\ pc[mu] = "wait" /\ resp = <<>>
      /\ o \in DOMAIN stm /\ Asked(mu) /\ toClose = <<>>
      /\ \A c \in Ids : Closed[c] = IF c \in ToSet(req.closes) THEN Free ELSE cursors[c]
  BY <1>1, ClosedFacts
<1>3. req.object = o /\ At' = At /\ At' = "wait"
  BY <1>1, <1>2 DEF Asked, At
<1>4. Base'
  <2>1. Typed'
    <3>1. TypeOK'
      BY <1>1 DEF Base, Typed, TypeOK, ServerCursor
    <3> QED BY <1>1, <3>1 DEF Base, Typed
  <2>2. Holders'
    <3>1. resp' # <<>> => At' \in {"wait", "relock"}
      BY <1>3
    <3> QED BY <1>1, <3>1 DEF Base, Holders
  <2>3. Possession'
    BY <1>1 DEF Base, Possession, Owns, IsQuery
  <2>4. Shapes'
    BY <1>1 DEF Base, Shapes, Shaped, HasLobs
  <2> QED BY <2>1, <2>2, <2>3, <2>4 DEF Base
<1>5. Sent' /\ Current'
  BY <1>1, <1>2, <1>3 DEF Sent, Current
<1>6. Distinct'
  BY <1>1 DEF CursorInv, Distinct
<1>7. Owned'
  <2> SUFFICES ASSUME NEW p \in DOMAIN stm, stm[p].cursor # 0
               PROVE  cursors'[stm[p].cursor].owner = p /\ stm[p].cursor \in Open'
    BY <1>1 DEF Owned
  <2> DEFINE c == stm[p].cursor
  <2>1. c \in Ids /\ cursors[c].owner = p /\ p # 0
    <3>1. c \in 0 .. MaxCursors
      BY Parts, Fields DEF Base
    <3>2. p # 0
      BY Parts DEF Base
    <3> QED BY <1>2, <3>1, <3>2 DEF CursorInv, Owned, Ids
  <2>2. c \notin ToSet(req.closes)
    BY <1>1 DEF CursorInv, Listed, List, ToSet
  <2>3. Closed[c] = cursors[c] /\ Closed[c].owner # 0
    BY <1>2, <2>1, <2>2
  <2>4. c \notin ToSet(rs)
    BY <1>1, <2>3 DEF ToSet, Free
  <2>5. CASE c = id
    <3>1. p = o
      BY <1>1, <2>1, <2>5, ServesFacts DEF Ids
    <3>2. c \in Ids /\ cursors'[c].owner = p
      BY <1>1, <1>3, <2>1, <2>5, <3>1 DEF Ids
    <3> QED BY <2>1, <3>2 DEF Open
  <2>6. CASE c # id
    <3>1. cursors'[c] = cursors[c]
      BY <1>1, <2>1, <2>3, <2>4, <2>6
    <3> QED BY <2>1, <3>1 DEF Open
  <2> QED BY <2>5, <2>6
<1>8. Listed'
  <2>1. List' = <<>>
    BY <1>1, <1>2 DEF List
  <2> QED BY <2>1 DEF Listed, IsInjective
<1>9. Answered'
  <2>1. resp'.cursor # 0 => cursors'[resp'.cursor].owner = o /\ stm[o].cursor \in {0, resp'.cursor}
    BY <1>1, <1>3, ServesFacts
  <2>2. resp'.type # "error" => resp'.cursor # 0
    BY <1>1
  <2>3. \A i \in DOMAIN rs :
          /\ cursors'[rs[i]].owner = o /\ rs[i] # id
          /\ resp'.type = "ok" /\ stm[o].user \in Blocks /\ op[mu] \in {"query", "update"}
    BY <1>1, <1>2, <1>3 DEF Asked
  <2> QED BY <1>1, <2>1, <2>2, <2>3 DEF Answered
<1> QED BY <1>3, <1>2, <1>4, <1>5, <1>6, <1>7, <1>8, <1>9 DEF Inv, CursorInv

\* The four answers of the server.
Refuses == Answers(0, <<>>) /\ resp'.rows = 0 /\ ~resp'.describe /\ cursors' = Closed

Same(id) ==
  /\ cursors'[id].ran = Closed[id].ran /\ cursors'[id].defined = Closed[id].defined
  /\ cursors'[id].left = Closed[id].left

FailsWith(id) ==
  /\ Answers(id, <<>>) /\ id # 0 /\ resp'.rows = 0 /\ (resp'.describe <=> req.describe) /\ Same(id)
  /\ resp'.type \in {"error", "integrity", "retry"}
  /\ resp'.type = "integrity" => ~IsQuery(stm[req.object])
  /\ resp'.type = "retry" =>
       \/ "retry" \in Faults /\ IsQuery(stm[req.object]) /\ ~stm[req.object].child /\ (req.exec \/ req.define)
       \/ "fetchRetry" \in Faults

\* The rows a cursor has for a request, the columns defined and not.
Before(id) == IF req.exec THEN Rows ELSE Closed[id].left
Served(id) ==
  IF /\ Closed[id].ran \/ req.exec
     /\ IsQuery(stm[req.object]) /\ (req.exec /\ HasLobs(stm[req.object]) => LobRows)
  THEN IF req.want < Before(id) THEN req.want ELSE Before(id)
  ELSE 0

AnswersWith(id) ==
  /\ Answers(id, <<>>) /\ id # 0 /\ (resp'.describe <=> req.describe)
  /\ cursors'[id].ran <=> Closed[id].ran \/ req.exec
  /\ cursors'[id].defined <=> Closed[id].defined \/ req.define
  /\ resp'.rows = Served(id) /\ cursors'[id].left = Before(id) - Served(id)
  /\ resp'.type \in {"ok", "nodata"}
  /\ resp'.type = "nodata" <=> /\ Closed[id].ran \/ req.exec
                               /\ IsQuery(stm[req.object]) /\ Before(id) = Served(id) /\ Served(id) < req.want

ReturnsWith(id, rs) ==
  /\ Answers(id, rs) /\ id # 0 /\ rs # <<>> /\ MaxResults # 0 /\ (resp'.describe <=> req.describe)
  /\ resp'.type = "ok" /\ resp'.rows = 0 /\ req.exec /\ stm[req.object].user \in Blocks
  /\ cursors'[id].ran /\ cursors'[id].left = Rows
  /\ cursors'[id].defined <=> Closed[id].defined \/ req.define
  /\ \A i \in DOMAIN rs : cursors'[rs[i]].ran /\ cursors'[rs[i]].left = Rows

\* Each step of the server is an answer.
LEMMA RefusesFacts ==
  ASSUME Base, CursorInv, ServerRefuses
  PROVE  Refuses
<1>1. /\ req # <<>> /\ cursors' = Closed /\ resp' = Answer("error", 0, 0, <<>>) /\ req' = <<>>
      /\ UNCHANGED <<mu, toClose, stm, pc, op, obj, second, prepared, readers, ops>>
  BY DEF ServerRefuses
<1>2. req \in Requests /\ Closed \in [Ids -> ServerCursor]
  BY <1>1, ClosedFacts
<1>3. /\ resp' \in Responses /\ resp'.type = "error" /\ resp'.cursor = 0 /\ resp'.rows = 0 /\ resp'.results = <<>>
      /\ resp'.describe <=> req.describe /\ 0 # 0
  <2>1. "error" \in {"ok", "nodata", "error", "integrity", "retry"} /\ 0 \in 0 .. MaxCursors
        /\ 0 \in 0 .. Rows /\ <<>> \in Seq(Ids)
    BY EmptySeq
  <2> QED BY ONLY <1>1, <1>2, <2>1, AnswerFacts
<1>4. IsInjective(<<>>) /\ <<>> \in Seq(Ids)
  BY EmptySeq DEF IsInjective
<1>5. Answers(0, <<>>)
  BY <1>1, <1>2, <1>3, <1>4 DEF Answers
<1> QED BY <1>1, <1>3, <1>5 DEF Refuses

LEMMA FailsFacts ==
  ASSUME Base, CursorInv, ServerFails
  PROVE  \E id \in Ids : FailsWith(id)
<1>1. PICK id \in Ids :
        /\ Serves(id)
        /\ \E type \in Faults \cap {"error", "integrity", "retry", "fetchRetry"} :
             /\ type = "integrity" => ~IsQuery(stm[req.object])
             /\ type = "retry" => IsQuery(stm[req.object]) /\ ~stm[req.object].child /\ (req.exec \/ req.define)
             /\ resp' = Answer(IF type = "fetchRetry" THEN "retry" ELSE type, id, 0, <<>>)
        /\ cursors' = [Closed EXCEPT ![id].owner = req.object]
  BY DEF ServerFails
<1>2. PICK type \in Faults \cap {"error", "integrity", "retry", "fetchRetry"} :
        /\ type = "integrity" => ~IsQuery(stm[req.object])
        /\ type = "retry" => IsQuery(stm[req.object]) /\ ~stm[req.object].child /\ (req.exec \/ req.define)
        /\ resp' = Answer(IF type = "fetchRetry" THEN "retry" ELSE type, id, 0, <<>>)
  BY <1>1
<1>3. /\ req' = <<>> /\ req # <<>>
      /\ UNCHANGED <<mu, toClose, stm, pc, op, obj, second, prepared, readers, ops>>
  BY <1>1 DEF ServerFails, Serves
<1>4. /\ req \in Requests /\ Closed \in [Ids -> ServerCursor] /\ req.object = obj[mu] /\ obj[mu] \in DOMAIN stm
      /\ id # 0 /\ id \in 0 .. MaxCursors
  BY <1>3, ClosedFacts DEF Asked, Ids
<1> DEFINE t == IF type = "fetchRetry" THEN "retry" ELSE type
<1>5. t \in {"error", "integrity", "retry"} /\ resp' = Answer(t, id, 0, <<>>)
  BY <1>2
<1>6. /\ t = "integrity" => ~IsQuery(stm[req.object])
      /\ t = "retry" => \/ "retry" \in Faults /\ IsQuery(stm[req.object]) /\ ~stm[req.object].child /\ (req.exec \/ req.define)
                        \/ "fetchRetry" \in Faults
  BY <1>2
<1> HIDE DEF t
<1>7. /\ resp' \in Responses /\ resp'.type = t /\ resp'.cursor = id /\ resp'.rows = 0 /\ resp'.results = <<>>
      /\ resp'.describe <=> req.describe /\ id # 0
  <2>1. t \in {"ok", "nodata", "error", "integrity", "retry"} /\ 0 \in 0 .. Rows /\ <<>> \in Seq(Ids)
    BY <1>5, EmptySeq
  <2> QED BY ONLY <1>4, <1>5, <2>1, AnswerFacts
<1>8. IsInjective(<<>>) /\ <<>> \in Seq(Ids)
  BY EmptySeq DEF IsInjective
<1>9. /\ cursors' \in [Ids -> ServerCursor] /\ Same(id) /\ cursors'[id].owner = req.object
      /\ \A c \in Ids : c # id => cursors'[c] = Closed[c]
  <2>1. Len(stm) \in Nat /\ req.object \in 0 .. Len(stm)
    BY <1>4, Parts DEF Base
  <2> QED BY <1>1, <1>4, <2>1 DEF ServerCursor, Same
<1>10. Answers(id, <<>>)
  BY <1>1, <1>3, <1>4, <1>7, <1>8, <1>9 DEF Answers
<1>11. FailsWith(id)
  BY <1>4, <1>5, <1>6, <1>7, <1>9, <1>10 DEF FailsWith
<1> QED BY <1>11

LEMMA AnswersFacts ==
  ASSUME Base, CursorInv, ServerAnswers
  PROVE  \E id \in Ids : AnswersWith(id)
<1>1. PICK id \in Ids :
        /\ Serves(id)
        /\ LET c == Executed(id)
               n == RowsFor(c)
               end == c.ran /\ IsQuery(stm[c.owner]) /\ c.left = n /\ n < req.want
           IN  /\ resp' = Answer(IF end THEN "nodata" ELSE "ok", id, n, <<>>)
               /\ cursors' = [Closed EXCEPT ![id] = [c EXCEPT !.left = @ - n]]
  BY DEF ServerAnswers
<1>2. /\ req' = <<>> /\ req # <<>>
      /\ UNCHANGED <<mu, toClose, stm, pc, op, obj, second, prepared, readers, ops>>
  BY <1>1 DEF ServerAnswers, Serves
<1>3. /\ req \in Requests /\ Closed \in [Ids -> ServerCursor] /\ req.object = obj[mu] /\ obj[mu] \in DOMAIN stm
      /\ id # 0 /\ id \in 0 .. MaxCursors /\ Len(stm) \in Nat /\ req.object \in 0 .. Len(stm)
  <2>1. /\ req \in Requests /\ Closed \in [Ids -> ServerCursor] /\ req.object = obj[mu] /\ obj[mu] \in DOMAIN stm
    BY <1>2, ClosedFacts DEF Asked
  <2> QED BY <2>1, Parts DEF Ids, Base
<1> DEFINE c == Executed(id)
           n == RowsFor(c)
           end == c.ran /\ IsQuery(stm[c.owner]) /\ c.left = n /\ n < req.want
           t == IF end THEN "nodata" ELSE "ok"
           d == [c EXCEPT !.left = @ - n]
<1>4. resp' = Answer(t, id, n, <<>>) /\ cursors' = [Closed EXCEPT ![id] = d]
  BY <1>1
<1>5. /\ Closed[id].ran \in BOOLEAN /\ Closed[id].defined \in BOOLEAN /\ Closed[id].left \in 0 .. Rows
      /\ req.exec \in BOOLEAN /\ req.define \in BOOLEAN /\ req.want \in Nat
  BY <1>3 DEF ServerCursor, Requests
<1>6. /\ c.owner = req.object /\ c.left = Before(id) /\ Before(id) \in 0 .. Rows
      /\ (c.ran <=> Closed[id].ran \/ req.exec) /\ (c.defined <=> Closed[id].defined \/ req.define)
      /\ c \in ServerCursor
  <2> DEFINE ran == Closed[id].ran \/ req.exec
             def == Closed[id].defined \/ req.define
             left == Before(id)
  <2>1. ran \in BOOLEAN /\ def \in BOOLEAN /\ left \in 0 .. Rows
    BY <1>5 DEF Before
  <2>2. c = [owner |-> req.object, ran |-> ran, defined |-> def, left |-> left]
    BY DEF Executed, Before
  <2> HIDE DEF c, ran, def, left
  <2>3. c \in ServerCursor /\ c.owner = req.object /\ c.left = left /\ c.ran = ran /\ c.defined = def
    BY <1>3, <2>1, <2>2 DEF ServerCursor
  <2> QED BY <2>1, <2>3 DEF ran, def, left
<1> HIDE DEF c
<1>7. n = Served(id) /\ n \in 0 .. Rows /\ n <= Before(id)
  BY <1>5, <1>6 DEF RowsFor, Served
<1>8. t \in {"ok", "nodata"}
      /\ (t = "nodata" <=> /\ Closed[id].ran \/ req.exec
                           /\ IsQuery(stm[req.object]) /\ Before(id) = n /\ n < req.want)
  BY <1>6
<1> HIDE DEF n, t
<1>9. /\ d \in ServerCursor /\ d.owner = req.object /\ d.left = Before(id) - n
      /\ (d.ran <=> Closed[id].ran \/ req.exec) /\ (d.defined <=> Closed[id].defined \/ req.define)
  <2>1. Before(id) - n \in 0 .. Rows
    BY <1>6, <1>7
  <2>2. d = [c EXCEPT !.left = Before(id) - n]
    BY <1>6
  <2> HIDE DEF d
  <2> QED BY <1>6, <2>1, <2>2 DEF ServerCursor
<1> HIDE DEF d
<1>10. /\ cursors' \in [Ids -> ServerCursor] /\ cursors'[id] = d
       /\ \A e \in Ids : e # id => cursors'[e] = Closed[e]
  BY <1>3, <1>4, <1>9
<1>11. /\ resp' \in Responses /\ resp'.type = t /\ resp'.cursor = id /\ resp'.rows = n /\ resp'.results = <<>>
       /\ resp'.describe <=> req.describe /\ id # 0
  <2>1. t \in {"ok", "nodata", "error", "integrity", "retry"} /\ <<>> \in Seq(Ids)
    BY <1>8, EmptySeq
  <2> QED BY ONLY <1>3, <1>4, <1>7, <2>1, AnswerFacts
<1>12. IsInjective(<<>>) /\ <<>> \in Seq(Ids)
  BY EmptySeq DEF IsInjective
<1>13. Answers(id, <<>>)
  <2>1. Serves(id) /\ cursors'[id].owner = req.object
    BY <1>1, <1>9, <1>10
  <2> QED BY ONLY <1>2, <1>3, <1>10, <1>11, <1>12, <2>1, id \in Ids DEF Answers
<1>14. AnswersWith(id)
  BY <1>3, <1>7, <1>8, <1>9, <1>10, <1>11, <1>13 DEF AnswersWith
<1> QED BY <1>14

LEMMA ReturnsFacts ==
  ASSUME Base, CursorInv, ServerReturns
  PROVE  \E id \in Ids : \E rs \in Seq(Ids) : ReturnsWith(id, rs)
<1>1. PICK id \in Ids, rs \in UNION {[1 .. n -> Ids] : n \in 1 .. MaxResults}, lobs \in BOOLEAN :
       /\ Serves(id)
       /\ req.exec /\ stm[req.object].user \in Blocks
       /\ IsInjective(rs) /\ \A i \in DOMAIN rs : rs[i] # id /\ Closed[rs[i]] = Free
       /\ resp' = Answer("ok", id, 0, rs)
       /\ cursors' = [c \in Ids |->
            IF c = id THEN Executed(id)
            ELSE IF c \in ToSet(rs)
            THEN [owner |-> req.object, ran |-> TRUE, defined |-> ~lobs, left |-> Rows]
            ELSE Closed[c]]
  BY DEF ServerReturns
<1>2. rs \in Seq(Ids) /\ rs # <<>> /\ MaxResults # 0
  <2>1. PICK n \in 1 .. MaxResults : rs \in [1 .. n -> Ids]
    OBVIOUS
  <2>2. n \in Nat /\ n > 0
    BY <2>1
  <2>3. rs \in Seq(Ids)
    BY <2>1, <2>2, SeqDef
  <2> QED BY <2>1, <2>2, <2>3
<1>3. /\ req' = <<>> /\ req # <<>>
      /\ UNCHANGED <<mu, toClose, stm, pc, op, obj, second, prepared, readers, ops>>
  BY <1>1 DEF ServerReturns, Serves
<1>4. /\ req \in Requests /\ Closed \in [Ids -> ServerCursor] /\ req.object = obj[mu] /\ obj[mu] \in DOMAIN stm
      /\ id # 0 /\ id \in 0 .. MaxCursors /\ Len(stm) \in Nat /\ req.object \in 0 .. Len(stm)
  <2>1. /\ req \in Requests /\ Closed \in [Ids -> ServerCursor] /\ req.object = obj[mu] /\ obj[mu] \in DOMAIN stm
    BY <1>3, ClosedFacts DEF Asked
  <2> QED BY <2>1, Parts DEF Ids, Base
<1>5. /\ Closed[id].ran \in BOOLEAN /\ Closed[id].defined \in BOOLEAN
      /\ req.exec \in BOOLEAN /\ req.define \in BOOLEAN
  BY <1>4 DEF ServerCursor, Requests
<1> DEFINE c == Executed(id)
           r == [owner |-> req.object, ran |-> TRUE, defined |-> ~lobs, left |-> Rows]
<1>6. /\ c \in ServerCursor /\ c.owner = req.object /\ c.ran /\ c.left = Rows
      /\ c.defined <=> Closed[id].defined \/ req.define
  <2> DEFINE ran == Closed[id].ran \/ req.exec
             def == Closed[id].defined \/ req.define
  <2>1. ran \in BOOLEAN /\ def \in BOOLEAN /\ ran
    BY <1>1, <1>5
  <2>2. c = [owner |-> req.object, ran |-> ran, defined |-> def, left |-> Rows]
    BY <1>1 DEF Executed
  <2> HIDE DEF c, ran, def
  <2>3. c \in ServerCursor /\ c.owner = req.object /\ c.left = Rows /\ c.ran = ran /\ c.defined = def
    BY <1>4, <2>1, <2>2 DEF ServerCursor
  <2> QED BY <2>1, <2>3 DEF def
<1>7. r \in ServerCursor /\ r.owner = req.object /\ r.ran = TRUE /\ r.left = Rows
  BY <1>4 DEF ServerCursor
<1> HIDE DEF c, r
<1>8. cursors' = [e \in Ids |-> IF e = id THEN c ELSE IF e \in ToSet(rs) THEN r ELSE Closed[e]]
  BY <1>1 DEF c, r
<1>9. /\ cursors' \in [Ids -> ServerCursor] /\ cursors'[id] = c
      /\ \A e \in Ids : e # id /\ e \notin ToSet(rs) => cursors'[e] = Closed[e]
      /\ \A e \in Ids : e # id /\ e \in ToSet(rs) => cursors'[e] = r
  BY <1>4, <1>6, <1>7, <1>8
<1>10. \A i \in DOMAIN rs : rs[i] \in Ids /\ rs[i] \in ToSet(rs) /\ rs[i] # id
  BY <1>1, <1>2, ElementOfSeq, LenProperties DEF ToSet
<1>11. \A i \in DOMAIN rs : cursors'[rs[i]].owner = req.object /\ cursors'[rs[i]].ran = TRUE /\ cursors'[rs[i]].left = Rows
  BY <1>7, <1>9, <1>10
<1>12. /\ resp' \in Responses /\ resp'.type = "ok" /\ resp'.cursor = id /\ resp'.rows = 0 /\ resp'.results = rs
       /\ resp'.describe <=> req.describe /\ id # 0
  <2>1. "ok" \in {"ok", "nodata", "error", "integrity", "retry"} /\ 0 \in 0 .. Rows
    OBVIOUS
  <2>2. resp' = Answer("ok", id, 0, rs)
    BY <1>1
  <2> QED BY ONLY <1>2, <1>4, <2>1, <2>2, AnswerFacts
<1>13. Answers(id, rs)
  <2>1. Serves(id) /\ cursors'[id].owner = req.object /\ IsInjective(rs)
    BY <1>1, <1>6, <1>9
  <2>2. \A i \in DOMAIN rs :
          /\ rs[i] # id /\ Closed[rs[i]] = Free /\ cursors'[rs[i]].owner = req.object
          /\ resp'.type = "ok" /\ req.exec /\ stm[req.object].user \in Blocks
    BY <1>1, <1>11, <1>12
  <2>3. \A e \in Ids : e # id /\ e \notin ToSet(rs) => cursors'[e] = Closed[e]
    BY <1>9
  <2>4. cursors' \in [Ids -> ServerCursor]
    BY <1>9
  <2> QED BY ONLY <1>2, <1>3, <1>4, <1>12, <2>1, <2>2, <2>3, <2>4, id \in Ids DEF Answers
<1>14. ReturnsWith(id, rs)
  <2>1. req.exec /\ stm[req.object].user \in Blocks
    BY <1>1
  <2>2. /\ cursors'[id].ran /\ cursors'[id].left = Rows
        /\ cursors'[id].defined <=> Closed[id].defined \/ req.define
    BY ONLY <1>6, <1>9
  <2> QED BY ONLY <1>2, <1>4, <1>11, <1>12, <1>13, <2>1, <2>2 DEF ReturnsWith
<1> QED BY <1>2, <1>14

LEMMA ServerFacts ==
  ASSUME Base, CursorInv, ServerStep
  PROVE  \/ Refuses
         \/ \E id \in Ids : FailsWith(id) \/ AnswersWith(id)
         \/ \E id \in Ids : \E rs \in Seq(Ids) : ReturnsWith(id, rs)
BY RefusesFacts, FailsFacts, AnswersFacts, ReturnsFacts DEF ServerStep

\* The server keeps the invariant.
LEMMA ServerInv ==
  ASSUME Inv, ServerStep
  PROVE  Inv'
<1>1. Base /\ CursorInv
  BY DEF Inv
<1>2. \E id \in Ids \cup {0}, rs \in Seq(Ids) : Answers(id, rs)
  <2>1. <<>> \in Seq(Ids)
    BY EmptySeq
  <2> QED BY <1>1, <2>1, ServerFacts DEF Refuses, FailsWith, AnswersWith, ReturnsWith
<1> QED BY <1>1, <1>2, AnswersInv

(* The client.                                                             *)

\* A step that leaves the cursors, and the statements that have them, alone:
\* the one whose request is under way stays, or nothing is under way.
Framed ==
  /\ cursors' = cursors
  /\ DOMAIN stm \subseteq DOMAIN stm'
  /\ \A o \in DOMAIN stm : stm'[o].cursor = stm[o].cursor
  /\ \A o \in DOMAIN stm' \ DOMAIN stm : stm'[o].cursor = 0
  /\ \/ /\ UNCHANGED <<mu, toClose, req, resp>> /\ At' = At
        /\ At = "wait" =>
             /\ op'[mu] = op[mu] /\ obj'[mu] = obj[mu]
             /\ LET o == obj[mu]
                IN  /\ stm'[o].user = stm[o].user /\ stm'[o].child = stm[o].child
                    /\ stm'[o].define = stm[o].define /\ stm'[o].noPrefetch = stm[o].noPrefetch
     \/ /\ req = <<>> /\ req' = <<>> /\ resp' = <<>> /\ toClose' \in {toClose, <<>>}
        /\ At # "relock" /\ At' # "wait"

\* A step that leaves requests, responses and cursors alone keeps CursorInv.
LEMMA FramedInv ==
  ASSUME Base, CursorInv, Framed
  PROVE  CursorInv'
<1>1. /\ cursors' = cursors /\ DOMAIN stm \subseteq DOMAIN stm'
      /\ \A o \in DOMAIN stm : stm'[o].cursor = stm[o].cursor
      /\ \A o \in DOMAIN stm' \ DOMAIN stm : stm'[o].cursor = 0
  BY DEF Framed
<1>2. Distinct'
  BY <1>1 DEF CursorInv, Distinct
<1>3. \A o \in DOMAIN stm' : stm'[o].cursor # 0 => o \in DOMAIN stm /\ stm'[o].cursor = stm[o].cursor
  BY <1>1
<1>4. \A o \in DOMAIN stm' : stm'[o].cursor # 0 =>
        stm'[o].cursor \in Open' /\ (At # "relock" => cursors'[stm'[o].cursor].owner = o)
  BY <1>1, <1>3 DEF CursorInv, Owned, Open
<1>5. CASE /\ UNCHANGED <<mu, toClose, req, resp>> /\ At' = At
           /\ At = "wait" =>
                /\ op'[mu] = op[mu] /\ obj'[mu] = obj[mu]
                /\ LET o == obj[mu]
                   IN  /\ stm'[o].user = stm[o].user /\ stm'[o].child = stm[o].child
                       /\ stm'[o].define = stm[o].define /\ stm'[o].noPrefetch = stm[o].noPrefetch
  <2>1. Sent' /\ Owned'
    BY <1>4, <1>5 DEF CursorInv, Sent, Owned
  <2>2. At = "wait" => obj[mu] \in DOMAIN stm
    <3>1. At = "wait" => mu \in Users /\ pc[mu] = "wait"
      BY DEF At, Base, Typed, TypeOK
    <3> QED BY <3>1, Working
  <2>3. Current'
    <3> SUFFICES ASSUME req # <<>>
                 PROVE  Asked(mu)'
      BY <1>5 DEF Current
    <3>1. At = "wait" /\ Asked(mu)
      BY DEF Base, Holders, CursorInv, Current
    <3> DEFINE o == obj[mu]
    <3>2. /\ op'[mu] = op[mu] /\ obj'[mu] = o /\ o \in DOMAIN stm
          /\ stm'[o].user = stm[o].user /\ stm'[o].child = stm[o].child /\ stm'[o].cursor = stm[o].cursor
          /\ stm'[o].define = stm[o].define /\ stm'[o].noPrefetch = stm[o].noPrefetch
      BY <1>1, <1>5, <2>2, <3>1
    <3> QED BY <1>5, <3>1, <3>2 DEF Asked, IsQuery
  <2>4. Listed'
    <3>1. List' = List
      BY <1>5 DEF List
    <3>2. \A i \in DOMAIN List : List[i] \in Ids
      BY DEF CursorInv, Listed, Open
    <3> QED BY <1>1, <1>3, <3>1, <3>2 DEF CursorInv, Listed, Open, Ids
  <2>5. Answered'
    BY <1>1, <1>5, <2>2 DEF CursorInv, Answered
  <2> QED BY <1>2, <2>1, <2>3, <2>4, <2>5 DEF CursorInv
<1>6. CASE /\ req = <<>> /\ req' = <<>> /\ resp' = <<>> /\ toClose' \in {toClose, <<>>}
           /\ At # "relock" /\ At' # "wait"
  <2>1. Sent' /\ Owned' /\ Current' /\ Answered'
    BY <1>4, <1>6 DEF Sent, Owned, Current, Answered
  <2>2. Listed'
    <3>1. List' \in {List, <<>>}
      BY <1>6 DEF List
    <3>2. \A i \in DOMAIN List : List[i] \in Ids
      BY DEF CursorInv, Listed, Open
    <3>3. CASE List' = List
      BY <1>1, <1>3, <3>2, <3>3 DEF CursorInv, Listed, Open, Ids
    <3>4. CASE List' = <<>>
      BY <3>4 DEF Listed, IsInjective
    <3> QED BY <3>1, <3>3, <3>4
  <2> QED BY <1>2, <2>1, <2>2 DEF CursorInv
<1> QED BY <1>5, <1>6 DEF Framed

\* A user whose operation ends has its statements, one of them closed.
LEMMA ReturnedFacts ==
  ASSUME NEW u, NEW s, Failed(u, s) \/ Succeeded(u, s)
  PROVE  mu' = Nobody /\ At' = "free" /\ \E c : Kept(s, stm', c)
<1>1. mu' = Nobody
  BY DEF Failed, Succeeded
<1>2. At' = "free"
  BY <1>1 DEF At
<1>3. \E c : Leaves(u, s, c)
  BY DEF Failed, Succeeded
<1> QED BY <1>1, <1>2, <1>3 DEF Leaves

\* Closed or not, statements keep their cursors.
LEMMA KeptCursors ==
  ASSUME NEW s \in Seq(Statement), NEW c, Kept(s, stm', c)
  PROVE  /\ DOMAIN stm' = DOMAIN s
         /\ \A p \in DOMAIN s : stm'[p].cursor = s[p].cursor
<1>1. stm' \in Seq(Statement) /\ Len(stm') = Len(s)
  BY DEF Kept
<1> QED BY <1>1, Domains DEF Kept

\* The steps of the users keep the invariant.
LEMMA IdleLeftInv ==
  ASSUME Inv, NEW u \in Users, NEW c, NEW r, NEW b, IdleLeft(u, c, r, b)
  PROVE  Inv'
<1>1. Base /\ CursorInv
  BY DEF Inv
<1>2. Base' /\ At' = At
  BY <1>1, IdleLeftBase
<1>3. Kept(stm, stm', c) /\ pc[u] = "idle" /\ UNCHANGED <<mu, toClose, op, req, resp, cursors>>
  BY DEF IdleLeft, Leaves
<1>4. stm \in Seq(Statement)
  BY <1>1, Parts DEF Base
<1>5. DOMAIN stm' = DOMAIN stm /\ \A p \in DOMAIN stm : stm'[p].cursor = stm[p].cursor
  BY <1>3, <1>4, KeptCursors
<1>6. At = "wait" => /\ mu \in Users /\ pc[mu] = "wait" /\ mu # u /\ obj'[mu] = obj[mu] /\ obj[mu] \in DOMAIN stm
  <2>1. At = "wait" => mu \in Users /\ pc[mu] = "wait"
    BY <1>1 DEF At, Base, Typed, TypeOK
  <2>2. \A v \in Users : v # u => obj'[v] = obj[v]
    BY <1>1 DEF IdleLeft, Leaves, Base, Typed, TypeOK
  <2> QED BY <1>1, <1>3, <2>1, <2>2, Working
<1>7. Framed
  BY <1>2, <1>3, <1>5, <1>6 DEF Framed, Kept
<1> QED BY <1>1, <1>2, <1>7, FramedInv DEF Inv

LEMMA PreparesInv ==
  ASSUME Inv, NEW u \in Users, NEW x, NEW a, NEW n, Prepares(u, x, a, n)
  PROVE  Inv'
<1>1. Base /\ CursorInv
  BY DEF Inv
<1>2. Base' /\ At' = At
  BY <1>1, PreparesBase
<1>3. /\ pc[u] = "idle" /\ UNCHANGED <<mu, toClose, req, resp, cursors>>
      /\ DOMAIN stm' = DOMAIN stm \cup {n} /\ \A p \in DOMAIN stm : stm'[p] = stm[p]
      /\ n \notin DOMAIN stm => stm'[n].cursor = 0
  BY DEF Prepares
<1>4. At = "wait" => obj'[mu] = obj[mu] /\ op'[mu] = op[mu] /\ obj[mu] \in DOMAIN stm
  <2>1. At = "wait" => mu \in Users /\ pc[mu] = "wait"
    BY <1>1 DEF At, Base, Typed, TypeOK
  <2>2. \A v \in Users : v # u => obj'[v] = obj[v] /\ op'[v] = op[v]
    BY <1>1 DEF Prepares, Base, Typed, TypeOK
  <2> QED BY <1>1, <1>3, <2>1, <2>2, Working
<1>5. Framed
  BY <1>2, <1>3, <1>4 DEF Framed
<1> QED BY <1>1, <1>2, <1>5, FramedInv DEF Inv

LEMMA BeginFetchInv ==
  ASSUME Inv, NEW u \in Users, BeginFetch(u)
  PROVE  Inv'
<1>1. Base /\ CursorInv
  BY DEF Inv
<1>2. Base' /\ At' = At
  BY <1>1, BeginFetchBase
<1>3. pc[u] = "idle" /\ UNCHANGED <<mu, toClose, stm, req, resp, cursors>>
  BY DEF BeginFetch
<1>4. At = "wait" => obj'[mu] = obj[mu] /\ op'[mu] = op[mu]
  <2>1. At = "wait" => mu \in Users /\ pc[mu] = "wait"
    BY <1>1 DEF At, Base, Typed, TypeOK
  <2>2. \A v \in Users : v # u => obj'[v] = obj[v] /\ op'[v] = op[v]
    BY <1>1 DEF BeginFetch, Base, Typed, TypeOK
  <2> QED BY <1>3, <2>1, <2>2
<1>5. Framed
  BY <1>2, <1>3, <1>4 DEF Framed
<1> QED BY <1>1, <1>2, <1>5, FramedInv DEF Inv

LEMMA LockInv ==
  ASSUME Inv, NEW u \in Users, Lock(u)
  PROVE  Inv'
<1>1. Base /\ CursorInv /\ stm \in Seq(Statement)
  BY Parts DEF Inv, Base
<1>2. Base'
  BY <1>1, LockBase
<1>3. /\ pc[u] = "lock" /\ mu = Nobody /\ UNCHANGED <<toClose, op, ops, req, resp, cursors>>
      /\ \/ Fail(u, stm) /\ second' = second
         \/ /\ mu' = u /\ second' = FALSE /\ op[u] # "fetch" /\ stm[obj[u]].implicit # 0
            /\ stm' = [stm EXCEPT ![stm[obj[u]].implicit].closed = TRUE] /\ Goto(u, "relock")
            /\ UNCHANGED <<obj, prepared, readers>>
         \/ /\ mu' = u /\ second' = FALSE
            /\ stm' = [stm EXCEPT ![obj[u]].implicit = IF op[u] = "fetch" THEN @ ELSE 0]
            /\ Goto(u, "write") /\ UNCHANGED <<obj, prepared, readers>>
  BY <1>1, LockFacts
<1>4. /\ req = <<>> /\ resp = <<>> /\ At' # "wait"
      /\ DOMAIN stm' = DOMAIN stm /\ \A p \in DOMAIN stm : stm'[p].cursor = stm[p].cursor
  <2>1. CASE Fail(u, stm) /\ second' = second
    <3>1. Failed(u, stm) /\ req = <<>> /\ resp = <<>>
      BY <1>1, <1>3, <2>1, LockFails
    <3>2. At' = "free" /\ \E c : Kept(stm, stm', c)
      BY <3>1, ReturnedFacts
    <3> QED BY <1>1, <3>1, <3>2, KeptCursors
  <2>2. CASE /\ mu' = u /\ second' = FALSE /\ op[u] # "fetch" /\ stm[obj[u]].implicit # 0
             /\ stm' = [stm EXCEPT ![stm[obj[u]].implicit].closed = TRUE] /\ Goto(u, "relock")
             /\ UNCHANGED <<obj, prepared, readers>>
    <3>1. At' = "relock" /\ req = <<>> /\ resp = <<>> /\ \E c : Kept(stm, stm', c)
      BY <1>1, <1>3, <2>2, LockRelocks
    <3> QED BY <1>1, <3>1, KeptCursors
  <2>3. CASE /\ mu' = u /\ second' = FALSE
             /\ stm' = [stm EXCEPT ![obj[u]].implicit = IF op[u] = "fetch" THEN @ ELSE 0]
             /\ Goto(u, "write") /\ UNCHANGED <<obj, prepared, readers>>
    BY <1>1, <1>3, <2>3, LockGoes
  <2> QED BY <1>3, <2>1, <2>2, <2>3
<1>5. At # "relock"
  BY <1>3 DEF At
<1>6. Framed
  BY <1>3, <1>4, <1>5 DEF Framed
<1> QED BY <1>1, <1>2, <1>6, FramedInv DEF Inv

LEMMA WriteDefersInv ==
  ASSUME Inv, NEW u \in Users, WriteDefers(u)
  PROVE  Inv'
<1>1. Base /\ CursorInv /\ stm \in Seq(Statement)
  BY Parts DEF Inv, Base
<1>2. Base' /\ Failed(u, Started(u)) /\ req = <<>> /\ resp = <<>>
  BY <1>1, WriteDefersBase
<1>3. pc[u] = "write" /\ toClose' = <<>> /\ UNCHANGED <<req, resp, cursors>>
  BY DEF WriteDefers
<1>4. obj[u] \in DOMAIN stm /\ At = "write"
  BY <1>1, <1>3, Working
<1>5. /\ Started(u) \in Seq(Statement) /\ Len(Started(u)) = Len(stm)
      /\ \A p \in DOMAIN stm : Started(u)[p].cursor = stm[p].cursor
  BY <1>1, <1>4, StartedFacts
<1>6. At' = "free" /\ \E c : Kept(Started(u), stm', c)
  BY <1>2, ReturnedFacts
<1>7. DOMAIN stm' = DOMAIN stm /\ \A p \in DOMAIN stm : stm'[p].cursor = stm[p].cursor
  <2>1. DOMAIN Started(u) = DOMAIN stm
    BY <1>1, <1>5, Domains
  <2> QED BY <1>5, <1>6, <2>1, KeptCursors
<1>8. Framed
  BY <1>2, <1>3, <1>4, <1>6, <1>7 DEF Framed
<1> QED BY <1>1, <1>2, <1>8, FramedInv DEF Inv

LEMMA AbortsInv ==
  ASSUME Inv, NEW u \in Users, ProcessAborts(u)
  PROVE  Inv'
<1> DEFINE s == [stm EXCEPT ![obj[u]] = Described(@)]
<1>1. Base /\ CursorInv /\ stm \in Seq(Statement)
  BY Parts DEF Inv, Base
<1>2. Base' /\ Failed(u, s)
  BY <1>1, AbortsBase
<1>3. pc[u] = "wait" /\ resp # <<>> /\ resp' = <<>> /\ UNCHANGED <<toClose, req, cursors>>
  BY DEF ProcessAborts
<1>4. obj[u] \in DOMAIN stm /\ At = "wait" /\ req = <<>> /\ resp.describe \in BOOLEAN
  BY <1>1, <1>3, Working, ResponseTyped
<1>5. s \in Seq(Statement) /\ Len(s) = Len(stm) /\ \A p \in DOMAIN stm : s[p].cursor = stm[p].cursor
  BY <1>1, <1>4, DescribedFacts
<1> HIDE DEF s
<1>6. At' = "free" /\ \E c : Kept(s, stm', c)
  BY <1>2, ReturnedFacts
<1>7. DOMAIN stm' = DOMAIN stm /\ \A p \in DOMAIN stm : stm'[p].cursor = stm[p].cursor
  <2>1. DOMAIN s = DOMAIN stm
    BY <1>1, <1>5, Domains
  <2> QED BY <1>5, <1>6, <2>1, KeptCursors
<1>8. Framed
  BY <1>3, <1>4, <1>6, <1>7 DEF Framed
<1> QED BY <1>1, <1>2, <1>8, FramedInv DEF Inv

\* Close moves a cursor from its statement to the list.
LEMMA CloseInv ==
  ASSUME Inv, NEW u \in Users, Close(u)
  PROVE  Inv'
<1> DEFINE o == obj[u]
           id == stm[o].cursor
<1>1. Base /\ CursorInv /\ stm \in Seq(Statement)
  BY Parts DEF Inv, Base
<1>2. Base'
  BY <1>1, CloseBase
<1>3. /\ pc[u] = "close" /\ mu = Nobody /\ mu' = mu /\ toClose' = AddCursor(toClose, id)
      /\ UNCHANGED <<op, obj, req, resp, cursors>> /\ stm' = [stm EXCEPT ![o].cursor = 0]
  BY DEF Close
<1>4. At = "free" /\ At' = "free" /\ req = <<>> /\ resp = <<>> /\ o \in DOMAIN stm
  BY <1>1, <1>3, Working DEF At, Base, Holders
<1>5. /\ DOMAIN stm' = DOMAIN stm
      /\ \A p \in DOMAIN stm : stm'[p].cursor = IF p = o THEN 0 ELSE stm[p].cursor
  <2>1. stm' \in Seq(Statement) /\ Len(stm') = Len(stm)
        /\ \A p \in DOMAIN stm : stm'[p].cursor = IF p = o THEN 0 ELSE stm[p].cursor
    <3> HIDE DEF o
    <3> QED BY <1>1, <1>3, <1>4, ZeroedFacts
  <2> QED BY <1>1, <2>1, Domains
<1>6. Sent' /\ Current' /\ Answered'
  BY <1>3, <1>4 DEF Sent, Current, Answered
<1>7. Distinct' /\ Owned'
  BY <1>1, <1>3, <1>4, <1>5 DEF CursorInv, Distinct, Owned, Open
<1>8. Listed'
  <2>1. /\ List = toClose /\ List' = toClose' /\ toClose \in Seq(Ids) /\ id \in 0 .. MaxCursors
    BY <1>1, <1>3, <1>4, Parts, Fields DEF List, Base, Typed, TypeOK
  <2>2. \A i \in DOMAIN toClose : toClose[i] \in Open /\ toClose[i] # id
        /\ \A p \in DOMAIN stm' : stm'[p].cursor # toClose[i]
    <3>1. \A i \in DOMAIN toClose : toClose[i] \in Open /\ toClose[i] # 0
                                    /\ \A p \in DOMAIN stm : stm[p].cursor # toClose[i]
      BY <1>1, <2>1 DEF CursorInv, Listed, Open, Ids
    <3> QED BY <1>4, <1>5, <3>1
  <2>3. Open' = Open
    BY <1>3 DEF Open
  <2>4. CASE id = 0
    <3>1. toClose' = toClose
      BY <1>3, <2>4 DEF AddCursor
    <3> QED BY <1>1, <2>1, <2>2, <2>3, <3>1 DEF CursorInv, Listed
  <2>5. CASE id # 0
    <3> DEFINE n == Len(toClose) + 1
    <3>1. /\ toClose' = Append(toClose, id) /\ id \in Ids
      BY <1>3, <2>1, <2>5 DEF AddCursor, Ids
    <3>2. /\ DOMAIN toClose = 1 .. Len(toClose) /\ Len(toClose) \in Nat
          /\ DOMAIN toClose' = 1 .. n /\ toClose'[n] = id
          /\ \A i \in DOMAIN toClose : toClose'[i] = toClose[i]
      BY <2>1, <3>1, AppendProperties, LenProperties
    <3>3. id \in Open /\ \A p \in DOMAIN stm' : stm'[p].cursor # id
      BY <1>1, <1>4, <1>5, <2>5 DEF CursorInv, Owned, Distinct
    <3>4. \A i \in DOMAIN toClose' : i \in DOMAIN toClose \/ i = n
      BY <3>2
    <3> HIDE DEF n, id
    <3>5. IsInjective(toClose')
      <4>1. IsInjective(toClose)
        BY <1>1, <2>1 DEF CursorInv, Listed
      <4>2. \A i, j \in DOMAIN toClose : toClose[i] = toClose[j] => i = j
        BY <4>1 DEF IsInjective
      <4> QED BY <2>2, <3>2, <3>4, <4>2 DEF IsInjective
    <3> QED BY <2>1, <2>2, <2>3, <3>2, <3>3, <3>4, <3>5 DEF Listed
  <2> QED BY <2>4, <2>5
<1> QED BY <1>2, <1>6, <1>7, <1>8 DEF Inv, CursorInv

\* A request takes the list along.
LEMMA WriteInv ==
  ASSUME Inv, NEW u \in Users, Write(u)
  PROVE  Inv'
<1> DEFINE o == obj[u]
<1>1. Base /\ CursorInv /\ stm \in Seq(Statement)
  BY Parts DEF Inv, Base
<1>2. Base' /\ At' = "wait" /\ resp = <<>>
  BY <1>1, WriteBase
<1>3. /\ pc[u] = "write" /\ mu = u /\ req' = Request(u) /\ toClose' = <<>> /\ stm' = Started(u)
      /\ UNCHANGED <<mu, op, obj, resp, cursors>>
  BY DEF Write
<1>4. o \in DOMAIN stm /\ At = "write" /\ req = <<>>
  BY <1>1, <1>3, Working DEF Base, Holders
<1>5. /\ DOMAIN stm' = DOMAIN stm
      /\ \A p \in DOMAIN stm :
           /\ stm'[p].user = stm[p].user /\ stm'[p].child = stm[p].child /\ stm'[p].cursor = stm[p].cursor
           /\ stm'[p].define = stm[p].define /\ stm'[p].noPrefetch = stm[p].noPrefetch
  BY <1>1, <1>3, <1>4, StartedFacts, Domains
<1>6. Sent' /\ Answered'
  BY <1>2, <1>3 DEF Sent, Answered
<1>7. Current'
  <2> DEFINE s == stm[o]
             fetches == op[u] = "fetch" /\ ~s.child
  <2>1. /\ req'.object = o /\ req'.cursor = s.cursor
        /\ req'.define <=> ~fetches /\ s.define
        /\ req'.exec <=> op[u] \in {"query", "update"} /\ ~s.define
        /\ req'.parse <=> ~fetches /\ s.cursor = 0
        /\ req'.describe <=> ~fetches /\ (s.cursor = 0 \/ op[u] = "schema")
        /\ req'.want = IF fetches \/ (IsQuery(s) /\ op[u] # "schema" /\ ~s.noPrefetch) THEN Want ELSE 0
    <3> DEFINE a == ~fetches /\ s.define
               b == op[u] \in {"query", "update"} /\ ~s.define
               c == ~fetches /\ s.cursor = 0
               d == ~fetches /\ (s.cursor = 0 \/ op[u] = "schema")
               w == IF fetches \/ (IsQuery(s) /\ op[u] # "schema" /\ ~s.noPrefetch) THEN Want ELSE 0
    <3>1. req' = [closes |-> toClose, object |-> o, cursor |-> s.cursor, define |-> a, exec |-> b,
                  parse |-> c, describe |-> d, want |-> w]
      BY <1>3 DEF Request
    <3>3. a \in BOOLEAN /\ b \in BOOLEAN /\ c \in BOOLEAN /\ d \in BOOLEAN
      BY <1>1, <1>4, Domains, Fields
    <3> HIDE DEF a, b, c, d, w
    <3>2. /\ req'.object = o /\ req'.cursor = s.cursor /\ req'.define = a /\ req'.exec = b /\ req'.parse = c
          /\ req'.describe = d /\ req'.want = w
      BY <3>1
    <3> QED BY <3>2, <3>3 DEF a, b, c, d, w
  <2> HIDE DEF o
  <2>2. Asked(u)'
    BY <1>3, <1>4, <1>5, <2>1 DEF Asked, IsQuery, o
  <2> QED BY <1>3, <2>2 DEF Current
<1>8. Distinct' /\ Owned'
  BY <1>1, <1>2, <1>3, <1>4, <1>5 DEF CursorInv, Distinct, Owned, Open
<1>9. Listed'
  <2>1. List = toClose /\ List' = toClose
    <3>1. req' # <<>> /\ req'.closes = toClose
      BY <1>1, <1>3, <1>4, RequestTyped DEF Request
    <3> QED BY <1>4, <3>1 DEF List
  <2>2. Open' = Open
    BY <1>3 DEF Open
  <2> QED BY <1>1, <1>5, <2>1, <2>2 DEF CursorInv, Listed
<1> QED BY <1>2, <1>6, <1>7, <1>8, <1>9 DEF Inv, CursorInv

\* Two results: the cursors the response reported become those of new statements.
LEMMA ResultsInv ==
  ASSUME Inv, NEW u \in Users, ProcessResults(u)
  PROVE  Inv'
<1> DEFINE o == obj[u]
           n == Len(stm)
<1>1. Base /\ CursorInv /\ n \in Nat /\ DOMAIN stm = 1 .. n
  BY Parts DEF Inv, Base
<1>2. Base' /\ At' = "relock"
  BY <1>1, ResultsBase
<1>3. /\ pc[u] = "wait" /\ mu = u /\ o \in DOMAIN stm /\ resp # <<>> /\ Len(resp.results) > 1
      /\ resp.results \in Seq(Ids)
      /\ UNCHANGED <<mu, toClose, op, obj, req, resp, cursors>>
      /\ DOMAIN stm' = DOMAIN stm \cup {n + 1, n + 2}
      /\ \A p \in DOMAIN stm : stm'[p].cursor = stm[p].cursor
      /\ stm'[n + 1].cursor = resp.results[1] /\ stm'[n + 2].cursor = resp.results[2]
  <2>1. /\ pc[u] = "wait" /\ mu = u /\ o \in DOMAIN stm /\ resp # <<>> /\ Len(resp.results) > 1
        /\ resp.results \in Seq(Ids)
        /\ UNCHANGED <<mu, toClose, op, obj, req, resp, cursors>>
        /\ DOMAIN stm' = DOMAIN stm \cup {n + 1, n + 2}
        /\ \A p \in DOMAIN stm : stm'[p].cursor = stm[p].cursor
        /\ \A p \in {n + 1, n + 2} : stm'[p].cursor = resp.results[p - n]
    <3>1. Base /\ ProcessResults(u) /\ u \in Users
      BY <1>1
    <3> QED BY ONLY <3>1, ResultsFacts
  <2>2. (n + 1) - n = 1 /\ (n + 2) - n = 2
    BY <1>1
  <2> QED BY <2>1, <2>2
<1>4. At = "wait" /\ req = <<>> /\ toClose = <<>>
  BY <1>1, <1>3, Working, ResponseTyped DEF CursorInv, Sent
<1>5. 1 \in DOMAIN resp.results /\ 2 \in DOMAIN resp.results
      /\ \A i \in DOMAIN resp.results : resp.results[i] \in Ids
  BY <1>3, LenProperties, ElementOfSeq
<1>6. resp.results[1] # resp.results[2]
  BY <1>1, <1>3, <1>4, <1>5 DEF CursorInv, Answered, IsInjective
<1>7. \A i \in {1, 2} : /\ resp.results[i] \in Ids /\ cursors[resp.results[i]].owner = o
                        /\ \A p \in DOMAIN stm : stm[p].cursor # resp.results[i]
  <2> SUFFICES ASSUME NEW i \in {1, 2}
               PROVE  /\ resp.results[i] \in Ids /\ cursors[resp.results[i]].owner = o
                      /\ \A p \in DOMAIN stm : stm[p].cursor # resp.results[i]
    OBVIOUS
  <2> DEFINE id == resp.results[i]
  <2>1. /\ id \in Ids /\ cursors[id].owner = o /\ id # resp.cursor /\ resp.cursor # 0
        /\ stm[o].cursor \in {0, resp.cursor} /\ id # 0
    BY <1>1, <1>3, <1>4, <1>5 DEF CursorInv, Answered, Ids
  <2>2. ASSUME NEW p \in DOMAIN stm, stm[p].cursor = id PROVE FALSE
    <3>1. p = o
      BY <1>1, <1>4, <2>1, <2>2 DEF CursorInv, Owned
    <3> QED BY <2>1, <2>2, <3>1
  <2> QED BY <2>1, <2>2
<1>8. Sent' /\ Current' /\ Answered'
  BY <1>2, <1>3, <1>4 DEF Sent, Current, Answered
<1>9. Listed'
  <2>1. List' = <<>>
    BY <1>3, <1>4 DEF List
  <2> QED BY <2>1 DEF Listed, IsInjective
<1>10. n + 1 \notin DOMAIN stm /\ n + 2 \notin DOMAIN stm /\ n + 1 # n + 2 /\ o # 0
  BY <1>1, <1>3
<1> HIDE DEF n
<1>11. Distinct'
  BY <1>1, <1>3, <1>6, <1>7, <1>10 DEF CursorInv, Distinct
<1>12. Owned'
  BY <1>1, <1>2, <1>3, <1>4, <1>7, <1>10 DEF CursorInv, Owned, Open
<1> QED BY <1>2, <1>8, <1>9, <1>11, <1>12 DEF Inv, CursorInv

\* The statements a response leaves: the one it answers as it is heard, and
\* that of a result.
Processed(u) ==
  LET o == obj[u]
      n == Len(stm) + 1
      h == Heard(u)
  IN  /\ pc[u] = "wait" /\ mu = u /\ At = "wait" /\ o \in DOMAIN stm /\ o # 0
      /\ resp # <<>> /\ resp \in Responses /\ req = <<>> /\ req' = <<>> /\ resp' = <<>>
      /\ op' = op /\ cursors' = Claimed /\ At' \in {"free", "write"}
      /\ toClose' = IF Clears(stm[o]) THEN AddCursor(toClose, Known(stm[o])) ELSE toClose
      /\ n \in Nat /\ n \notin DOMAIN stm
      /\ DOMAIN stm' = IF resp.results = <<>> THEN DOMAIN stm ELSE DOMAIN stm \cup {n}
      /\ stm'[o].user = stm[o].user /\ stm'[o].child = stm[o].child
      /\ stm'[o].cursor = h.cursor /\ stm'[o].define = h.define /\ stm'[o].noPrefetch = h.noPrefetch
      /\ stm'[o].more = h.more /\ stm'[o].rows = h.rows
      /\ stm'[o].implicit = IF resp.results = <<>> THEN stm[o].implicit ELSE n
      /\ \A p \in DOMAIN stm : p # o =>
           /\ stm'[p].user = stm[p].user /\ stm'[p].child = stm[p].child /\ stm'[p].cursor = stm[p].cursor
           /\ stm'[p].define = stm[p].define /\ stm'[p].noPrefetch = stm[p].noPrefetch
           /\ stm'[p].more = stm[p].more /\ stm'[p].rows = stm[p].rows
           /\ stm'[p].implicit = stm[p].implicit
      /\ resp.results # <<>> =>
           /\ stm'[n].user = u /\ stm'[n].child /\ stm'[n].cursor = resp.results[1]
           /\ (stm'[n].define => stm'[n].noPrefetch) /\ stm'[n].more /\ stm'[n].rows = 0
           /\ stm'[n].implicit = 0

\* Process leaves such statements.
LEMMA ProcessedFacts ==
  ASSUME Base, NEW u \in Users, Process(u)
  PROVE  Processed(u)
<1> DEFINE o == obj[u]
           n == Len(stm) + 1
           h == Heard(u)
           t == After(u)
<1>1. /\ pc[u] = "wait" /\ mu = u /\ At = "wait" /\ o \in DOMAIN stm
      /\ resp # <<>> /\ resp \in Responses /\ req = <<>>
      /\ toClose' = IF Clears(stm[o]) THEN AddCursor(toClose, Known(stm[o])) ELSE toClose
      /\ resp' = <<>> /\ cursors' = Claimed /\ UNCHANGED <<op, ops, req>>
  BY ProcessFacts
<1>2. \/ Repeats(u)
      \/ resp.type \in {"error", "integrity"} /\ second' = second /\ Failed(u, t)
      \/ resp.type \in {"ok", "nodata"} /\ second' = second /\ Succeeded(u, t)
  BY ProcessFacts
<1>3. stm \in Seq(Statement) /\ Len(stm) \in Nat /\ DOMAIN stm = 1 .. Len(stm) /\ n \in Nat /\ n \notin DOMAIN stm
  BY Parts DEF Base
<1>4. o # 0
  BY <1>1, <1>3
<1>5. /\ t \in Seq(Statement)
      /\ Len(t) = IF resp.results = <<>> THEN Len(stm) ELSE n
      /\ resp.results # <<>> => t[n] = Child(u, resp.results[1])
      /\ t[o].user = stm[o].user /\ t[o].child = stm[o].child
      /\ t[o].cursor = h.cursor /\ t[o].define = h.define /\ t[o].noPrefetch = h.noPrefetch
      /\ t[o].more = h.more /\ t[o].rows = h.rows
      /\ t[o].implicit = IF resp.results = <<>> THEN stm[o].implicit ELSE n
      /\ \A p \in DOMAIN stm : p # o =>
           /\ t[p].user = stm[p].user /\ t[p].child = stm[p].child /\ t[p].cursor = stm[p].cursor
           /\ t[p].define = stm[p].define /\ t[p].noPrefetch = stm[p].noPrefetch
           /\ t[p].more = stm[p].more /\ t[p].rows = stm[p].rows
           /\ t[p].implicit = stm[p].implicit
  <2>1. obj[u] \in DOMAIN stm /\ resp \in Responses /\ stm \in Seq(Statement)
    BY <1>1, <1>3
  <2> QED BY ONLY <2>1, u \in Users, AfterFacts
<1> HIDE DEF t, h
<1>6. At' \in {"free", "write"} /\ \E c : Kept(t, stm', c)
  <2>1. CASE Repeats(u)
    <3>1. stm' = t /\ mu' = mu /\ pc' = [pc EXCEPT ![u] = "write"]
      BY <2>1 DEF Repeats, t
    <3>2. At' = "write"
      BY <1>1, <3>1 DEF At, Base, Typed, TypeOK
    <3>3. Kept(t, t, 0)
      BY <1>5, KeptAll
    <3>4. \E c : Kept(t, t, c)
      BY <3>3
    <3> QED BY <3>1, <3>2, <3>4
  <2>2. CASE Failed(u, t) \/ Succeeded(u, t)
    BY <2>2, ReturnedFacts
  <2> QED BY <1>2, <2>1, <2>2 DEF t
<1>7. PICK c : Kept(t, stm', c)
  BY <1>6
<1>8. /\ DOMAIN t = IF resp.results = <<>> THEN DOMAIN stm ELSE DOMAIN stm \cup {n}
      /\ DOMAIN stm' = DOMAIN t
      /\ \A p \in DOMAIN t :
           /\ stm'[p].user = t[p].user /\ stm'[p].child = t[p].child /\ stm'[p].cursor = t[p].cursor
           /\ stm'[p].define = t[p].define /\ stm'[p].noPrefetch = t[p].noPrefetch
           /\ stm'[p].more = t[p].more /\ stm'[p].implicit = t[p].implicit /\ stm'[p].rows = t[p].rows
  <2>1. DOMAIN t = 1 .. Len(t)
    BY <1>5, Domains
  <2>2. DOMAIN t = IF resp.results = <<>> THEN DOMAIN stm ELSE DOMAIN stm \cup {n}
    <3>1. Len(t) = IF resp.results = <<>> THEN Len(stm) ELSE n
      BY <1>5
    <3>2. 1 .. n = 1 .. Len(stm) \cup {n}
      BY ONLY <1>3
    <3> HIDE DEF n
    <3> QED BY ONLY <1>3, <2>1, <3>1, <3>2
  <2>3. DOMAIN stm' = DOMAIN t
    BY <1>5, <1>7, KeptCursors
  <2> QED BY <1>7, <2>2, <2>3 DEF Kept
<1>9. resp.results # <<>> =>
        /\ stm'[n].user = u /\ stm'[n].child /\ stm'[n].cursor = resp.results[1]
        /\ (stm'[n].define => stm'[n].noPrefetch) /\ stm'[n].more /\ stm'[n].rows = 0
        /\ stm'[n].implicit = 0
  <2> SUFFICES ASSUME resp.results # <<>>
               PROVE  /\ stm'[n].user = u /\ stm'[n].child /\ stm'[n].cursor = resp.results[1]
                      /\ (stm'[n].define => stm'[n].noPrefetch) /\ stm'[n].more /\ stm'[n].rows = 0
                      /\ stm'[n].implicit = 0
    OBVIOUS
  <2>1. /\ stm'[n].user = t[n].user /\ stm'[n].child = t[n].child /\ stm'[n].cursor = t[n].cursor
        /\ stm'[n].define = t[n].define /\ stm'[n].noPrefetch = t[n].noPrefetch
        /\ stm'[n].more = t[n].more /\ stm'[n].implicit = t[n].implicit /\ stm'[n].rows = t[n].rows
    BY <1>8
  <2>2. t[n] = Child(u, resp.results[1])
    BY <1>5
  <2>3. resp.results[1] \in Ids
    <3>1. resp.results \in Seq(Ids)
      BY <1>1 DEF Responses
    <3> QED BY <3>1, EmptySeq, LenProperties, ElementOfSeq
  <2> HIDE DEF n
  <2> QED BY ONLY <2>1, <2>2, <2>3, u \in Users, ChildFacts
<1>10. /\ stm'[o].user = stm[o].user /\ stm'[o].child = stm[o].child
       /\ stm'[o].cursor = h.cursor /\ stm'[o].define = h.define /\ stm'[o].noPrefetch = h.noPrefetch
       /\ stm'[o].more = h.more /\ stm'[o].rows = h.rows
       /\ stm'[o].implicit = IF resp.results = <<>> THEN stm[o].implicit ELSE n
  BY ONLY <1>1, <1>5, <1>8
<1>11. \A p \in DOMAIN stm : p # o =>
         /\ stm'[p].user = stm[p].user /\ stm'[p].child = stm[p].child /\ stm'[p].cursor = stm[p].cursor
         /\ stm'[p].define = stm[p].define /\ stm'[p].noPrefetch = stm[p].noPrefetch
         /\ stm'[p].more = stm[p].more /\ stm'[p].rows = stm[p].rows
         /\ stm'[p].implicit = stm[p].implicit
  BY ONLY <1>5, <1>8
<1>12. DOMAIN stm' = IF resp.results = <<>> THEN DOMAIN stm ELSE DOMAIN stm \cup {n}
  BY <1>8
<1>13. req' = <<>> /\ op' = op
  BY <1>1
<1> HIDE DEF o, n
<1> QED BY ONLY <1>1, <1>3, <1>4, <1>6, <1>9, <1>10, <1>11, <1>12, <1>13 DEF o, n, h, Processed

\* A response processed: its cursor is the statement's or, cleared, on the list.
LEMMA ProcessInv ==
  ASSUME Inv, NEW u \in Users, Process(u)
  PROVE  Inv'
<1> DEFINE o == obj[u]
           n == Len(stm) + 1
           k == Known(stm[o])
<1>1. Base /\ CursorInv
  BY DEF Inv
<1>2. Base'
  BY <1>1, ProcessBase
<1>3. /\ pc[u] = "wait" /\ mu = u /\ At = "wait" /\ o \in DOMAIN stm /\ o # 0
      /\ resp # <<>> /\ resp \in Responses /\ req = <<>> /\ req' = <<>> /\ resp' = <<>>
      /\ cursors' = Claimed /\ At' \in {"free", "write"}
      /\ toClose' = IF Clears(stm[o]) THEN AddCursor(toClose, k) ELSE toClose
      /\ n \in Nat /\ n \notin DOMAIN stm
      /\ DOMAIN stm' = IF resp.results = <<>> THEN DOMAIN stm ELSE DOMAIN stm \cup {n}
      /\ stm'[o].cursor = Heard(u).cursor
      /\ \A p \in DOMAIN stm : p # o => stm'[p].cursor = stm[p].cursor
      /\ resp.results # <<>> => stm'[n].cursor = resp.results[1]
  <2>1. Processed(u)
    BY <1>1, ProcessedFacts
  <2> QED BY ONLY <2>1 DEF Processed
<1>4. stm'[o].cursor = IF Clears(stm[o]) THEN 0 ELSE k
  BY <1>1, <1>3, HeardFacts, Parts DEF Base
<1>5. /\ toClose = <<>> /\ Len(stm) \in Nat /\ n # 0 /\ stm[o].cursor \in 0 .. MaxCursors
      /\ resp.cursor \in 0 .. MaxCursors
  BY <1>1, <1>3, Parts, Fields, ResponseTyped DEF CursorInv, Sent, Base
<1>6. /\ resp.type # "error" => resp.cursor # 0
      /\ resp.cursor # 0 => cursors[resp.cursor].owner = o /\ stm[o].cursor \in {0, resp.cursor}
      /\ \A i \in DOMAIN resp.results :
           cursors[resp.results[i]].owner = o /\ resp.results[i] # resp.cursor /\ resp.type = "ok"
  BY <1>1, <1>3 DEF CursorInv, Answered
<1>7. k # 0 => k \in Ids /\ cursors[k].owner = o /\ \A p \in DOMAIN stm : stm[p].cursor = k => p = o
  <2> SUFFICES ASSUME k # 0
               PROVE  k \in Ids /\ cursors[k].owner = o /\ \A p \in DOMAIN stm : stm[p].cursor = k => p = o
    OBVIOUS
  <2>1. k \in Ids
    BY <1>5 DEF Known, Ids
  <2>2. cursors[k].owner = o
    <3>1. CASE resp.cursor # 0
      BY <1>6, <3>1 DEF Known
    <3>2. CASE resp.cursor = 0
      <4>1. k = stm[o].cursor
        BY <3>2 DEF Known
      <4> QED BY <1>1, <1>3, <4>1 DEF CursorInv, Owned
    <3> QED BY <3>1, <3>2
  <2>3. \A p \in DOMAIN stm : stm[p].cursor = k => p = o
    BY <1>1, <1>3, <2>2 DEF CursorInv, Owned
  <2> QED BY <2>1, <2>2, <2>3
<1>8. resp.results # <<>> =>
        /\ resp.results[1] \in Ids /\ resp.results[1] \in ToSet(resp.results) /\ cursors[resp.results[1]].owner = o
        /\ resp.results[1] # k /\ resp.results[1] # 0 /\ resp.type = "ok"
        /\ \A p \in DOMAIN stm : stm[p].cursor = resp.results[1] => p = o
  <2> SUFFICES ASSUME resp.results # <<>>
               PROVE  /\ resp.results[1] \in Ids /\ resp.results[1] \in ToSet(resp.results)
                      /\ cursors[resp.results[1]].owner = o
                      /\ resp.results[1] # k /\ resp.results[1] # 0 /\ resp.type = "ok"
                      /\ \A p \in DOMAIN stm : stm[p].cursor = resp.results[1] => p = o
    OBVIOUS
  <2>1. resp.results \in Seq(Ids) /\ 1 \in DOMAIN resp.results
    <3>1. resp.results \in Seq(Ids)
      BY <1>3 DEF Responses
    <3> QED BY <3>1, EmptySeq, LenProperties
  <2>2. resp.results[1] \in Ids /\ resp.results[1] # 0 /\ resp.results[1] \in ToSet(resp.results)
    BY <2>1, ElementOfSeq DEF Ids, ToSet
  <2>3. cursors[resp.results[1]].owner = o /\ resp.results[1] # resp.cursor /\ resp.type = "ok" /\ resp.cursor # 0
    BY <1>6, <2>1
  <2>4. \A p \in DOMAIN stm : stm[p].cursor = resp.results[1] => p = o
    BY <1>1, <1>3, <2>2, <2>3 DEF CursorInv, Owned
  <2> QED BY <2>2, <2>3, <2>4 DEF Known
<1>9. \A id \in Ids : Claimed[id].owner = IF id \in ToSet(resp.results) THEN n ELSE cursors[id].owner
  <2>1. n >= Len(stm) /\ n >= Len(stm) + 1 /\ Typed
    BY <1>1, <1>5 DEF Base
  <2>2. n \in Nat /\ resp \in Responses
    BY <1>3
  <2> HIDE DEF n
  <2> QED BY <2>1, <2>2, ClaimedFacts DEF n
<1>10. \A id \in ToSet(resp.results) : cursors[id].owner = o /\ id # resp.cursor /\ resp.cursor # 0
  BY <1>6 DEF ToSet
<1> HIDE DEF n, k
<1>11. Sent' /\ Current' /\ Answered'
  BY <1>3 DEF Sent, Current, Answered
<1>12. Distinct'
  BY <1>1, <1>3, <1>4, <1>7, <1>8 DEF CursorInv, Distinct
<1>13. Owned'
  <2> SUFFICES ASSUME NEW p \in DOMAIN stm', stm'[p].cursor # 0
               PROVE  stm'[p].cursor \in Ids /\ cursors'[stm'[p].cursor].owner = p /\ p # 0
    BY DEF Owned, Open
  <2>1. CASE p = o
    <3>1. stm'[p].cursor = k /\ k # 0 /\ k \in Ids
      BY <1>4, <1>7, <2>1
    <3>2. k \notin ToSet(resp.results)
      <4>1. k \in ToSet(resp.results) => k # resp.cursor /\ resp.cursor # 0
        BY <1>10
      <4> QED BY <4>1 DEF k, Known
    <3> QED BY <1>3, <1>7, <1>9, <2>1, <3>1, <3>2
  <2>2. CASE p # o /\ p \in DOMAIN stm
    <3>1. stm'[p].cursor = stm[p].cursor /\ stm[p].cursor \in Ids /\ cursors[stm[p].cursor].owner = p /\ p # 0
      <4>1. stm'[p].cursor = stm[p].cursor
        BY <1>3, <2>2
      <4>2. stm[p].cursor # 0
        BY <4>1
      <4>3. stm[p].cursor \in Open /\ cursors[stm[p].cursor].owner = p
        BY <1>1, <1>3, <2>2, <4>2 DEF CursorInv, Owned
      <4> QED BY <4>1, <4>3 DEF Open
    <3>2. stm[p].cursor \notin ToSet(resp.results)
      BY <1>10, <2>2, <3>1
    <3> QED BY <1>3, <1>9, <3>1, <3>2
  <2>3. CASE p \notin DOMAIN stm
    <3>1. p = n /\ resp.results # <<>> /\ n # 0
      BY <1>3, <1>5, <2>3
    <3> QED BY <1>3, <1>8, <1>9, <3>1
  <2> QED BY <2>1, <2>2, <2>3
<1>14. Listed'
  <2>1. List' = toClose'
    BY <1>3 DEF List
  <2>2. CASE Clears(stm[o]) /\ k # 0
    <3>1. toClose' = <<k>>
      BY <1>3, <1>5, <2>2 DEF AddCursor
    <3>2. resp.results = <<>>
      <4>1. resp.type # "ok"
        BY <2>2 DEF Clears
      <4> QED BY <1>8, <4>1
    <3>3. k \in Ids /\ cursors'[k].owner = o
      <4>1. ToSet(resp.results) = {}
        BY <3>2 DEF ToSet
      <4> QED BY <1>3, <1>7, <1>9, <2>2, <4>1
    <3>4. \A p \in DOMAIN stm' : stm'[p].cursor # k
      <4>1. DOMAIN stm' = DOMAIN stm
        BY <1>3, <3>2
      <4>2. stm'[o].cursor = 0
        BY <1>4, <2>2
      <4> QED BY <1>3, <1>7, <2>2, <4>1, <4>2
    <3>5. DOMAIN <<k>> = {1} /\ <<k>>[1] = k
      OBVIOUS
    <3> QED BY <1>3, <2>1, <3>1, <3>3, <3>4, <3>5 DEF Listed, IsInjective, Open
  <2>3. CASE ~(Clears(stm[o]) /\ k # 0)
    <3>1. toClose' = <<>>
      BY <1>3, <1>5, <2>3 DEF AddCursor
    <3> QED BY <2>1, <3>1 DEF Listed, IsInjective
  <2> QED BY <2>2, <2>3
<1> QED BY <1>2, <1>11, <1>12, <1>13, <1>14 DEF Inv, CursorInv

---------------------------------------------------------------------------
(* Every step.                                                             *)

\* The invariant holds at first, and is kept by every step.
LEMMA InitInv == Init => Inv
<1> SUFFICES ASSUME Init
             PROVE  Inv
  OBVIOUS
<1>1. /\ stm = <<>> /\ stm \in Seq(Statement) /\ Len(stm) = 0 /\ DOMAIN stm = {} /\ toClose = <<>>
      /\ toClose \in Seq(Ids) /\ mu = Nobody /\ req = <<>> /\ resp = <<>>
  BY EmptySeq DEF Init
<1>2. TypeOK
  <2>1. cursors \in [Ids -> [owner: 0 .. Len(stm), ran: BOOLEAN, defined: BOOLEAN, left: 0 .. Rows]]
    BY <1>1 DEF Init, Free
  <2>2. readers \in [Users -> SUBSET (1 .. Len(stm))]
    BY <1>1 DEF Init
  <2>3. 0 \in 0 .. MaxOps /\ 0 \in 0 .. Len(stm)
    BY <1>1
  <2>4. /\ obj \in [Users -> 0 .. Len(stm)] /\ prepared \in [Users -> 0 .. Len(stm)]
        /\ ops \in [Users -> 0 .. MaxOps]
    BY <2>3 DEF Init
  <2>5. /\ pc \in [Users -> {"idle", "lock", "write", "wait", "close", "relock"}]
        /\ op \in [Users -> {"query", "update", "schema", "fetch"}] /\ second \in BOOLEAN
    BY DEF Init
  <2> QED BY <1>1, <2>1, <2>2, <2>4, <2>5 DEF TypeOK
<1>3. Base
  <2>1. Typed
    BY <1>1, <1>2 DEF Typed
  <2>2. Holders
    BY <1>1 DEF Init, Holders, Busy
  <2>3. Possession
    BY <1>1 DEF Init, Possession, Owns
  <2>4. Shapes
    BY <1>1 DEF Shapes
  <2> QED BY <2>1, <2>2, <2>3, <2>4 DEF Base
<1>4. CursorInv
  <2>1. List = <<>>
    BY <1>1 DEF List
  <2>2. Listed
    BY <2>1 DEF Listed, IsInjective
  <2> QED BY <1>1, <2>2 DEF CursorInv, Sent, Current, Distinct, Owned, Answered
<1> QED BY <1>3, <1>4 DEF Inv

LEMMA StutterInv ==
  ASSUME Inv, UNCHANGED vars
  PROVE  Inv'
<1>1. UNCHANGED <<mu, toClose, stm, pc, op, obj, second, prepared, readers, ops, req, resp, cursors>>
  BY DEF vars
<1>2. Base'
  BY <1>1 DEF Inv, Base, Typed, TypeOK, Holders, At, Possession, Owns, IsQuery, Shapes, Shaped, HasLobs
<1>3. Framed
  BY <1>1 DEF Framed, At
<1>4. CursorInv'
  BY <1>3, FramedInv DEF Inv
<1> QED BY <1>2, <1>4 DEF Inv

LEMMA CloseStatementInv ==
  ASSUME Inv, NEW u \in Users, CloseStatement(u)
  PROVE  Inv'
BY CloseStatementFacts, IdleLeftInv DEF Inv

LEMMA ReleaseInv ==
  ASSUME Inv, NEW u \in Users, Release(u)
  PROVE  Inv'
BY ReleaseFacts, IdleLeftInv DEF Inv

LEMMA PrepareInv ==
  ASSUME Inv, NEW u \in Users, Prepare(u)
  PROVE  Inv'
BY PrepareFacts, PreparesInv DEF Inv

LEMMA BeginInv ==
  ASSUME Inv, NEW u \in Users, Begin(u)
  PROVE  Inv'
BY BeginFacts, PreparesInv DEF Inv

LEMMA NextInv ==
  ASSUME Inv, [Next]_vars
  PROVE  Inv'
<1>1. ASSUME NEW u \in Users, UserStep(u) PROVE Inv'
  BY <1>1, CloseInv, LockInv, WriteInv, WriteDefersInv, ResultsInv, AbortsInv, ProcessInv DEF UserStep
<1>2. ASSUME NEW u \in Users, UserBegins(u) PROVE Inv'
  BY <1>2, CloseStatementInv, ReleaseInv, PrepareInv, BeginInv, BeginFetchInv DEF UserBegins
<1>3. CASE ServerStep
  BY <1>3, ServerInv
<1>4. CASE UNCHANGED vars
  BY <1>4, StutterInv
<1> QED BY <1>1, <1>2, <1>3, <1>4 DEF Next, Idle

\* The invariant the other theorems build on.
THEOREM Invariance == Spec => []Inv
BY InitInv, NextInv, PTL DEF Spec

\* The variables keep their types: cursor ids and statements stay in bounds,
\* whatever the users do and the server answers.
THEOREM TypeCorrect == Spec => []TypeOK
<1>1. Inv => TypeOK
  BY DEF Inv, Base, Typed
<1> QED BY <1>1, Invariance, PTL

\* What is on the list of cursors to close, or on its way to the server, is
\* open, is there once, and no statement has it any more: clearCursor, Close
\* and writePiggybacks, whatever fails in between.
THEOREM NothingClosedTwice == Spec => []ClosesAreDead
<1>1. Inv => ClosesAreDead
  <2> SUFFICES ASSUME Inv
               PROVE  ClosesAreDead
    OBVIOUS
  <2> DEFINE list == toClose \o IF req = <<>> THEN <<>> ELSE req.closes
  <2>1. toClose \in Seq(Ids) /\ (req # <<>> => req.closes \in Seq(Ids) /\ toClose = <<>>)
    BY DEF Inv, Base, Typed, TypeOK, Requests, Holders, CursorInv, Sent
  <2>2. list = List
    <3>1. CASE req = <<>>
      BY <2>1, <3>1, ConcatEmptySeq DEF List
    <3>2. CASE req # <<>>
      BY <2>1, <3>2, ConcatEmptySeq DEF List
    <3> QED BY <3>1, <3>2
  <2>3. Listed
    BY DEF Inv, CursorInv
  <2> HIDE DEF list
  <2>4. /\ IsInjective(list)
        /\ \A i \in DOMAIN list :
             /\ list[i] \in Open
             /\ \A o \in DOMAIN stm : ~stm[o].closed => stm[o].cursor # list[i]
    BY <2>2, <2>3 DEF Listed
  <2> QED BY <2>4 DEF ClosesAreDead, list
<1> QED BY <1>1, Invariance, PTL

=============================================================================
