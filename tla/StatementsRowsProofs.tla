------------------------ MODULE StatementsRowsProofs -------------------------
(***************************************************************************)
(* What becomes of the rows and of the cursors they come from: a request   *)
(* names the cursor of its statement, asks for rows of an executed cursor  *)
(* only, every reader gets each row once, of columns that are defined, and *)
(* no cursor is lost.  Each of these holds as long as certain things do    *)
(* not go wrong, which its theorem names.                                  *)
(***************************************************************************)
EXTENDS StatementsProofs

USE StatementsAssumption

---------------------------------------------------------------------------
(* Steps, as far as cursors and rows are concerned.                        *)

\* The rows on their way to statement o.
Coming(o) == IF resp # <<>> /\ At = "wait" /\ o = obj[mu] THEN resp.rows ELSE 0

\* A step leaves statement o and its cursor alone, and gives it to nobody.
Stays(o) ==
  LET s == stm[o]
      t == stm'[o]
  IN  /\ t.user = s.user /\ t.child = s.child /\ t.cursor = s.cursor /\ t.define = s.define
      /\ t.noPrefetch = s.noPrefetch /\ t.rows = s.rows
      /\ s.closed => t.closed
      /\ s.cursor # 0 => /\ cursors'[s.cursor].ran = cursors[s.cursor].ran
                         /\ cursors'[s.cursor].defined = cursors[s.cursor].defined
                         /\ cursors'[s.cursor].left = cursors[s.cursor].left
      /\ o \in readers'[s.user] => o \in readers[s.user] /\ t.more = s.more /\ Coming(o)' = Coming(o)
      /\ o = prepared'[s.user] => o = prepared[s.user]
      /\ o \in readers[s.user] => o \in readers'[s.user] \/ t.closed

\* The cursor of s has been executed.
Ran(s) == s.cursor # 0 /\ cursors[s.cursor].ran

\* Nobody uses o any more, or not yet.
Gone(o) == stm[o].closed /\ o \notin readers[stm[o].user]
Plain(o) ==
  LET s == stm[o]
  IN  /\ s.rows = 0 /\ o \notin readers[s.user]
      /\ s.child => o # prepared[s.user] /\ Ran(s)
      /\ ~s.child => s.cursor = 0 /\ ~s.define

Steady ==
  /\ DOMAIN stm \subseteq DOMAIN stm'
  /\ \A o \in DOMAIN stm : Stays(o) \/ Gone(o)'
  /\ \A o \in DOMAIN stm' \ DOMAIN stm : Plain(o)'

\* What is closed stays closed.
Ages == \A o \in DOMAIN stm : stm[o].closed => stm'[o].closed

\* The round trip under way, if any, stays as it is; there is none any more;
\* one begins; its request leaves.
Rests ==
  /\ At' = At /\ UNCHANGED <<mu, second, req, resp, cursors>>
  /\ At \in {"write", "wait"} =>
       op'[mu] = op[mu] /\ obj'[mu] = obj[mu] /\ stm'[obj[mu]] = stm[obj[mu]]

Ends == At' \notin {"write", "wait"}

Goes(u) ==
  LET o == obj[u]
  IN  /\ At' = "write" /\ mu' = u /\ ~second' /\ resp' = <<>> /\ cursors' = cursors
      /\ op' = op /\ obj' = obj /\ stm'[o].cursor = stm[o].cursor
      /\ IF op[u] = "fetch" THEN stm[o].cursor # 0 ELSE stm'[o].implicit = 0

Sends(u) ==
  LET o == obj[u]
      s == stm[o]
      t == stm'[o]
  IN  /\ At = "write" /\ At' = "wait" /\ mu = u /\ resp' = <<>>
      /\ UNCHANGED <<mu, op, obj, second, cursors>>
      /\ t.user = s.user /\ t.child = s.child /\ t.cursor = s.cursor /\ t.define = s.define
      /\ t.implicit = s.implicit
      /\ IsQuery(s) /\ op[u] # "schema" => t.more

\* A statement is its fields.
LEMMA Equal ==
  ASSUME NEW s \in Statement, NEW t \in Statement,
         t.user = s.user, t.child = s.child, t.cursor = s.cursor, t.define = s.define,
         t.noPrefetch = s.noPrefetch, t.more = s.more, t.closed = s.closed, t.implicit = s.implicit,
         t.rows = s.rows
  PROVE  t = s
<1>1. s = [user |-> s.user, child |-> s.child, cursor |-> s.cursor, define |-> s.define,
           noPrefetch |-> s.noPrefetch, more |-> s.more, closed |-> s.closed,
           implicit |-> s.implicit, rows |-> s.rows]
  BY DEF Statement
<1>2. t = [user |-> t.user, child |-> t.child, cursor |-> t.cursor, define |-> t.define,
           noPrefetch |-> t.noPrefetch, more |-> t.more, closed |-> t.closed,
           implicit |-> t.implicit, rows |-> t.rows]
  BY DEF Statement
<1> QED BY <1>1, <1>2

\* A user that is not in a round trip leaves the one under way alone.
LEMMA Elsewhere ==
  ASSUME Base, NEW u \in Users, pc[u] \notin Busy, mu' = mu, At' = At, resp' = resp,
         \A v \in Users : v # u => obj'[v] = obj[v] /\ op'[v] = op[v]
  PROVE  /\ At \in Busy =>
              /\ mu \in Users /\ mu # u /\ obj'[mu] = obj[mu] /\ op'[mu] = op[mu]
              /\ obj[mu] \in DOMAIN stm /\ stm[obj[mu]].user = mu
         /\ \A o : Coming(o)' = Coming(o)
<1>1. ASSUME At \in Busy
      PROVE  /\ mu \in Users /\ mu # u /\ obj'[mu] = obj[mu] /\ op'[mu] = op[mu]
             /\ obj[mu] \in DOMAIN stm /\ stm[obj[mu]].user = mu
  <2>1. mu \in Users /\ pc[mu] \in Busy
    BY <1>1 DEF At, Busy, Base, Typed, TypeOK
  <2>2. mu # u
    BY <2>1
  <2>3. obj[mu] \in DOMAIN stm /\ stm[obj[mu]].user = mu
    BY <2>1, Working DEF Busy
  <2> QED BY <2>1, <2>2, <2>3
<1>2. \A o : Coming(o)' = Coming(o)
  BY <1>1 DEF Coming, Busy
<1> QED BY <1>1, <1>2

\* Each step of a user is of one of these kinds: between operations ...
LEMMA IdleLeftSteps ==
  ASSUME Base, NEW u \in Users, NEW c, NEW r, NEW b, IdleLeft(u, c, r, b),
         \A o \in readers[u] : o \in r \/ stm[o].closed \/ o = c
  PROVE  Steady /\ Rests
<1>1. /\ pc[u] = "idle" /\ Kept(stm, stm', c) /\ c \in Nat /\ (c # 0 => stm[c].user = u)
      /\ readers' = [readers EXCEPT ![u] = r] /\ r \subseteq readers[u]
      /\ prepared' = [prepared EXCEPT ![u] = b] /\ b \in {0, prepared[u]}
      /\ UNCHANGED <<mu, toClose, op, second, ops, req, resp, cursors>>
  BY DEF IdleLeft, Leaves
<1>2. \A v \in Users : v # u => obj'[v] = obj[v] /\ op'[v] = op[v]
  BY DEF IdleLeft, Leaves, Base, Typed, TypeOK
<1>3. At' = At
  BY IdleLeftBase
<1>4. /\ At \in Busy =>
              /\ mu \in Users /\ mu # u /\ obj'[mu] = obj[mu] /\ op'[mu] = op[mu]
              /\ obj[mu] \in DOMAIN stm /\ stm[obj[mu]].user = mu
      /\ \A o : Coming(o)' = Coming(o)
  BY <1>1, <1>2, <1>3, Elsewhere DEF Busy
<1>5. /\ stm' \in Seq(Statement) /\ DOMAIN stm' = DOMAIN stm
      /\ \A p \in DOMAIN stm :
           /\ stm[p] \in Statement /\ stm'[p] \in Statement /\ stm[p].user \in Users
           /\ stm[p].closed \in BOOLEAN /\ stm'[p].closed \in BOOLEAN /\ p # 0
           /\ stm'[p].user = stm[p].user /\ stm'[p].child = stm[p].child /\ stm'[p].cursor = stm[p].cursor
           /\ stm'[p].define = stm[p].define /\ stm'[p].noPrefetch = stm[p].noPrefetch
           /\ stm'[p].more = stm[p].more /\ stm'[p].implicit = stm[p].implicit /\ stm'[p].rows = stm[p].rows
           /\ stm'[p].closed <=> stm[p].closed \/ p = c
  <2>1. stm' \in Seq(Statement) /\ stm \in Seq(Statement)
    BY <1>1, Parts DEF Kept, Base
  <2>2. DOMAIN stm' = DOMAIN stm
    BY <1>1, <2>1, KeptCursors
  <2>3. \A p \in DOMAIN stm : stm[p] \in Statement /\ stm'[p] \in Statement /\ p # 0
    BY <2>1, <2>2, Domains
  <2> QED BY <1>1, <2>1, <2>2, <2>3, Fields DEF Kept
<1>6. ASSUME NEW o \in DOMAIN stm PROVE Stays(o)
  <2>1. CASE stm[o].user = u
    <3>1. prepared'[u] = b /\ readers'[u] = r
      BY <1>1 DEF Base, Typed, TypeOK
    <3> QED BY <1>1, <1>4, <1>5, <2>1, <3>1 DEF Stays
  <2>2. CASE stm[o].user # u
    <3>1. prepared'[stm[o].user] = prepared[stm[o].user] /\ readers'[stm[o].user] = readers[stm[o].user]
      BY <1>1, <1>5, <2>2 DEF Base, Typed, TypeOK
    <3> QED BY <1>1, <1>4, <1>5, <2>2, <3>1 DEF Stays
  <2> QED BY <2>1, <2>2
<1>7. Steady
  BY <1>5, <1>6 DEF Steady
<1>8. Rests
  <2>1. ASSUME At \in {"write", "wait"} PROVE stm'[obj[mu]] = stm[obj[mu]]
    <3>1. obj[mu] \in DOMAIN stm /\ obj[mu] # c
      BY <1>1, <1>4, <1>5, <2>1 DEF Busy
    <3>2. stm'[obj[mu]].closed = stm[obj[mu]].closed
      BY <1>5, <3>1
    <3> QED BY <1>5, <3>1, <3>2, Equal
  <2> QED BY <1>1, <1>3, <1>4, <2>1 DEF Rests, Busy
<1> QED BY <1>7, <1>8

LEMMA PreparesSteps ==
  ASSUME Base, NEW u \in Users, NEW x, NEW a, NEW n, Prepares(u, x, a, n)
  PROVE  Steady /\ Rests
<1>1. /\ pc[u] = "idle" /\ prepared' = [prepared EXCEPT ![u] = n]
      /\ UNCHANGED <<mu, second, readers, req, resp, cursors>>
      /\ DOMAIN stm' = DOMAIN stm \cup {n}
      /\ n \notin readers[u] /\ stm'[n].user = u /\ ~stm'[n].child
      /\ \A p \in DOMAIN stm : stm'[p] = stm[p]
      /\ n \notin DOMAIN stm => stm'[n].cursor = 0 /\ ~stm'[n].define /\ stm'[n].rows = 0
      /\ n \in DOMAIN stm => n = prepared[u]
  BY DEF Prepares
<1>2. \A v \in Users : v # u => obj'[v] = obj[v] /\ op'[v] = op[v]
  BY DEF Prepares, Base, Typed, TypeOK
<1>3. At' = At
  BY PreparesBase
<1>4. /\ At \in Busy =>
              /\ mu \in Users /\ mu # u /\ obj'[mu] = obj[mu] /\ op'[mu] = op[mu]
              /\ obj[mu] \in DOMAIN stm /\ stm[obj[mu]].user = mu
      /\ \A o : Coming(o)' = Coming(o)
  BY <1>1, <1>2, <1>3, Elsewhere DEF Busy
<1>5. ASSUME NEW o \in DOMAIN stm PROVE Stays(o)
  <2>1. stm[o].user \in Users /\ prepared'[u] = n
    BY <1>1, Parts, Fields DEF Base, Typed, TypeOK
  <2>2. o = prepared'[stm[o].user] => o = prepared[stm[o].user]
    BY <1>1, <2>1 DEF Base, Typed, TypeOK
  <2> QED BY <1>1, <1>4, <2>2 DEF Stays
<1>6. Steady
  BY <1>1, <1>5 DEF Steady, Plain
<1>7. Rests
  BY <1>1, <1>3, <1>4 DEF Rests, Busy
<1> QED BY <1>6, <1>7

LEMMA BeginFetchSteps ==
  ASSUME Base, NEW u \in Users, BeginFetch(u)
  PROVE  Steady /\ Rests
<1>1. pc[u] = "idle" /\ UNCHANGED <<mu, stm, second, prepared, readers, req, resp, cursors>>
  BY DEF BeginFetch
<1>2. \A v \in Users : v # u => obj'[v] = obj[v] /\ op'[v] = op[v]
  BY DEF BeginFetch, Base, Typed, TypeOK
<1>3. At' = At
  BY BeginFetchBase
<1>4. /\ At \in Busy =>
              /\ mu \in Users /\ mu # u /\ obj'[mu] = obj[mu] /\ op'[mu] = op[mu]
              /\ obj[mu] \in DOMAIN stm /\ stm[obj[mu]].user = mu
      /\ \A o : Coming(o)' = Coming(o)
  BY <1>1, <1>2, <1>3, Elsewhere DEF Busy
<1> QED BY <1>1, <1>3, <1>4 DEF Steady, Stays, Rests, Busy

LEMMA StutterSteps ==
  ASSUME Base, UNCHANGED vars
  PROVE  Steady /\ Rests
<1>1. UNCHANGED <<mu, toClose, stm, pc, op, obj, second, prepared, readers, ops, req, resp, cursors>>
  BY DEF vars
<1>2. At' = At /\ \A o : Coming(o)' = Coming(o)
  BY <1>1 DEF At, Coming
<1> QED BY <1>1, <1>2 DEF Steady, Stays, Rests

\* A user closes a statement after its operation.
Leaving == \A u \in Users : pc[u] = "close" => stm[obj[u]].closed /\ obj[u] \notin readers[u]

LEMMA CloseSteps ==
  ASSUME Base, Leaving, NEW u \in Users, Close(u)
  PROVE  Steady /\ Ends
<1> PICK o : o = obj[u]
  OBVIOUS
<1>1. /\ pc[u] = "close" /\ mu = Nobody /\ stm' = [stm EXCEPT ![o].cursor = 0]
      /\ UNCHANGED <<mu, op, obj, second, prepared, readers, ops, req, resp, cursors>>
  BY DEF Close
<1>2. o \in DOMAIN stm /\ stm \in Seq(Statement) /\ stm[o].closed /\ stm[o].user = u /\ o \notin readers[u]
  BY <1>1, Working, Parts DEF Base, Leaving
<1>3. /\ DOMAIN stm' = DOMAIN stm
      /\ \A p \in DOMAIN stm :
           /\ stm'[p].user = stm[p].user /\ stm'[p].child = stm[p].child
           /\ stm'[p].cursor = IF p = o THEN 0 ELSE stm[p].cursor
           /\ stm'[p].define = stm[p].define /\ stm'[p].noPrefetch = stm[p].noPrefetch
           /\ stm'[p].more = stm[p].more /\ stm'[p].rows = stm[p].rows /\ stm'[p].closed = stm[p].closed
  <2> DEFINE t == [stm EXCEPT ![o].cursor = 0]
  <2>1. /\ t \in Seq(Statement) /\ Len(t) = Len(stm)
        /\ \A p \in DOMAIN stm :
             /\ t[p].user = stm[p].user /\ t[p].child = stm[p].child
             /\ t[p].cursor = IF p = o THEN 0 ELSE stm[p].cursor
             /\ t[p].define = stm[p].define /\ t[p].noPrefetch = stm[p].noPrefetch
             /\ t[p].more = stm[p].more /\ t[p].rows = stm[p].rows /\ t[p].closed = stm[p].closed
    BY <1>2, ZeroedFacts
  <2>2. stm' = t
    BY <1>1
  <2> HIDE DEF t
  <2>3. DOMAIN t = DOMAIN stm
    BY <1>2, <2>1, Domains
  <2> QED BY <2>1, <2>2, <2>3
<1>4. At' = "free" /\ At = "free"
  BY <1>1 DEF At
<1>5. Gone(o)'
  <2>1. stm'[o].closed = stm[o].closed /\ stm'[o].user = stm[o].user
    BY ONLY <1>2, <1>3
  <2>2. readers' = readers
    BY ONLY <1>1
  <2> QED BY ONLY <1>2, <2>1, <2>2 DEF Gone
<1>6. \A p \in DOMAIN stm : p # o => Stays(p)
  BY <1>1, <1>3, <1>4 DEF Stays, Coming
<1> QED BY <1>3, <1>4, <1>5, <1>6 DEF Steady, Ends

\* An operation fails before its response is processed.
LEMMA FailedSteps ==
  ASSUME Base, NEW u \in Users, NEW o, o = obj[u], pc[u] \in {"lock", "write", "wait"}, cursors' = cursors,
         NEW s \in Seq(Statement), Len(s) = Len(stm), Failed(u, s),
         \A p \in DOMAIN stm :
           /\ s[p].user = stm[p].user /\ s[p].child = stm[p].child /\ s[p].cursor = stm[p].cursor
           /\ s[p].rows = stm[p].rows /\ s[p].closed = stm[p].closed
           /\ p # o => /\ s[p].define = stm[p].define /\ s[p].noPrefetch = stm[p].noPrefetch
                            /\ s[p].more = stm[p].more /\ Coming(p) = 0
  PROVE  /\ Ends /\ DOMAIN stm' = DOMAIN stm /\ \A p \in DOMAIN stm : p # o => Stays(p)
         /\ \/ Gone(o)'
            \/ /\ op[u] # "fetch"
               /\ s[o].define = stm[o].define /\ s[o].noPrefetch = stm[o].noPrefetch => Stays(o)
<1>1. /\ o \in DOMAIN stm /\ stm[o].user = u /\ ~stm[o].closed /\ stm \in Seq(Statement)
      /\ op[u] # "fetch" => o \notin readers[u]
  BY Working, Parts DEF Base, Possession, Owns
<1>2. At' = "free" /\ \A p : Coming(p)' = 0
  BY DEF Failed, At, Coming
<1>3. PICK c : Leaves(u, s, c)
  BY DEF Failed
<1>4. DOMAIN s = DOMAIN stm /\ DOMAIN stm' = DOMAIN stm
  BY <1>1, <1>3, KeptCursors, Domains DEF Leaves
<1>5. \A p \in DOMAIN stm :
        /\ stm'[p].user = stm[p].user /\ stm'[p].child = stm[p].child /\ stm'[p].cursor = stm[p].cursor
        /\ stm'[p].define = s[p].define /\ stm'[p].noPrefetch = s[p].noPrefetch
        /\ stm'[p].more = s[p].more /\ stm'[p].rows = stm[p].rows
        /\ stm[p].closed => stm'[p].closed
  BY <1>3, <1>4 DEF Leaves, Kept
<1>6. prepared' = prepared
  BY DEF Failed
<1>7. CASE op[u] = "fetch" \/ (op[u] = "query" /\ IsQuery(s[o]))
  <2>1. Leaves(u, s, o) /\ readers' = [readers EXCEPT ![u] = @ \ {o}]
    BY <1>7 DEF Failed
  <2>2. stm'[o].closed
    BY <1>1, <1>4, <2>1 DEF Leaves, Kept
  <2>3. readers'[u] = readers[u] \ {o} /\ \A v \in Users : v # u => readers'[v] = readers[v]
    BY <2>1 DEF Base, Typed, TypeOK
  <2>4. Gone(o)'
    <3>1. stm'[o].user = u /\ o \notin readers'[u]
      BY <1>1, <1>5, <2>3
    <3> QED BY ONLY <2>2, <3>1 DEF Gone
  <2>5. ASSUME NEW p \in DOMAIN stm, p # o PROVE Stays(p)
    <3>1. stm[p].user \in Users /\ (p \in readers'[stm[p].user] <=> p \in readers[stm[p].user])
      BY <2>3, <2>5, Parts, Fields DEF Base
    <3> QED BY <1>2, <1>5, <1>6, <2>5, <3>1 DEF Stays
  <2> QED BY <1>2, <1>4, <2>4, <2>5 DEF Ends
<1>8. CASE ~(op[u] = "fetch" \/ (op[u] = "query" /\ IsQuery(s[o])))
  <2>1. readers' = readers
    BY <1>8 DEF Failed
  <2>2. \A p \in DOMAIN stm : p # o => Stays(p)
    BY <1>2, <1>5, <1>6, <2>1 DEF Stays
  <2>3. s[o].define = stm[o].define /\ s[o].noPrefetch = stm[o].noPrefetch => Stays(o)
    BY <1>1, <1>2, <1>5, <1>6, <1>8, <2>1 DEF Stays
  <2> QED BY <1>2, <1>4, <1>8, <2>2, <2>3 DEF Ends
<1> QED BY <1>7, <1>8

\* ... at the beginning of one ...
LEMMA LockSteps ==
  ASSUME Base, NEW u \in Users, Lock(u)
  PROVE  Steady /\ (Ends \/ Goes(u))
<1> PICK o : o = obj[u]
  OBVIOUS
<1>1. /\ pc[u] = "lock" /\ mu = Nobody /\ UNCHANGED <<toClose, op, ops, req, resp, cursors>>
      /\ \/ Fail(u, stm) /\ second' = second
         \/ /\ mu' = u /\ second' = FALSE /\ op[u] # "fetch" /\ stm[o].implicit # 0
            /\ stm' = [stm EXCEPT ![stm[o].implicit].closed = TRUE] /\ Goto(u, "relock")
            /\ UNCHANGED <<obj, prepared, readers>>
         \/ /\ mu' = u /\ second' = FALSE /\ (op[u] = "fetch" => stm[o].cursor # 0)
            /\ stm' = [stm EXCEPT ![o].implicit = IF op[u] = "fetch" THEN @ ELSE 0]
            /\ Goto(u, "write") /\ UNCHANGED <<obj, prepared, readers>>
  BY LockFacts
<1>2. At = "free" /\ \A p : Coming(p) = 0
  BY <1>1 DEF At, Coming
<1>3. o \in DOMAIN stm /\ stm \in Seq(Statement)
  BY <1>1, Working, Parts DEF Base
<1>4. CASE Fail(u, stm) /\ second' = second
  <2>1. Failed(u, stm)
    BY <1>1, <1>4, LockFails
  <2>2. /\ Ends /\ DOMAIN stm' = DOMAIN stm /\ (\A p \in DOMAIN stm : p # o => Stays(p))
        /\ Gone(o)' \/ Stays(o)
    BY <1>1, <1>2, <1>3, <2>1, FailedSteps
  <2> QED BY <2>2 DEF Steady
<1>5. CASE /\ mu' = u /\ second' = FALSE /\ op[u] # "fetch" /\ stm[o].implicit # 0
           /\ stm' = [stm EXCEPT ![stm[o].implicit].closed = TRUE] /\ Goto(u, "relock")
           /\ UNCHANGED <<obj, prepared, readers>>
  <2>1. At' = "relock" /\ Kept(stm, stm', stm[o].implicit)
    BY <1>1, <1>5, LockRelocks
  <2>2. DOMAIN stm' = DOMAIN stm /\ \A p : Coming(p)' = 0
    BY <1>3, <2>1, KeptCursors DEF Coming
  <2>3. UNCHANGED <<prepared, readers, cursors>>
    BY <1>1, <1>5
  <2>4. \A p \in DOMAIN stm : Stays(p)
    BY ONLY <1>2, <2>1, <2>2, <2>3 DEF Stays, Kept
  <2> QED BY ONLY <2>1, <2>2, <2>4 DEF Steady, Ends
<1>6. CASE /\ mu' = u /\ second' = FALSE /\ (op[u] = "fetch" => stm[o].cursor # 0)
           /\ stm' = [stm EXCEPT ![o].implicit = IF op[u] = "fetch" THEN @ ELSE 0]
           /\ Goto(u, "write") /\ UNCHANGED <<obj, prepared, readers>>
  <2>1. /\ At' = "write" /\ resp = <<>> /\ DOMAIN stm' = DOMAIN stm
        /\ \A p \in DOMAIN stm :
             /\ stm'[p].user = stm[p].user /\ stm'[p].child = stm[p].child /\ stm'[p].cursor = stm[p].cursor
             /\ stm'[p].define = stm[p].define /\ stm'[p].noPrefetch = stm[p].noPrefetch
             /\ stm'[p].more = stm[p].more /\ stm'[p].rows = stm[p].rows /\ stm'[p].closed = stm[p].closed
             /\ stm'[p].implicit = IF p = o /\ op[u] # "fetch" THEN 0 ELSE stm[p].implicit
    <3>1. stm' = [stm EXCEPT ![obj[u]].implicit = IF op[u] = "fetch" THEN @ ELSE 0]
      BY <1>6
    <3>2. /\ pc[u] = "lock" /\ mu = Nobody /\ mu' = u /\ second' = FALSE /\ Goto(u, "write")
          /\ UNCHANGED <<toClose, op, ops, req, resp, cursors, obj, prepared, readers>>
      BY <1>1, <1>6
    <3>3. Base /\ u \in Users
      OBVIOUS
    <3>4. /\ At' = "write" /\ resp = <<>> /\ DOMAIN stm' = DOMAIN stm
          /\ \A p \in DOMAIN stm :
             /\ stm'[p].user = stm[p].user /\ stm'[p].child = stm[p].child /\ stm'[p].cursor = stm[p].cursor
             /\ stm'[p].define = stm[p].define /\ stm'[p].noPrefetch = stm[p].noPrefetch
             /\ stm'[p].more = stm[p].more /\ stm'[p].rows = stm[p].rows /\ stm'[p].closed = stm[p].closed
             /\ stm'[p].implicit = IF p = obj[u] /\ op[u] # "fetch" THEN 0 ELSE stm[p].implicit
      BY ONLY <3>1, <3>2, <3>3, LockGoes
    <3> QED BY ONLY <3>4, o = obj[u]
  <2>2. \A p : Coming(p)' = 0
    BY <2>1 DEF Coming
  <2>3. \A p \in DOMAIN stm : Stays(p)
    <3>1. UNCHANGED <<prepared, readers, cursors>>
      BY <1>1, <1>6
    <3> QED BY ONLY <1>2, <2>1, <2>2, <3>1 DEF Stays
  <2>4. Goes(u)
    <3>1. /\ mu' = u /\ ~second' /\ resp' = <<>> /\ UNCHANGED <<cursors, op, obj>>
          /\ op[u] = "fetch" => stm[obj[u]].cursor # 0
      BY <1>1, <1>6, <2>1
    <3>2. stm'[obj[u]].cursor = stm[obj[u]].cursor /\ (op[u] # "fetch" => stm'[obj[u]].implicit = 0)
      BY ONLY <1>3, <2>1, o = obj[u]
    <3> QED BY ONLY <2>1, <3>1, <3>2 DEF Goes
  <2> QED BY <2>1, <2>3, <2>4 DEF Steady
<1> QED BY <1>1, <1>4, <1>5, <1>6

\* ... or in it.
LEMMA WriteSteps ==
  ASSUME Base, NEW u \in Users, Write(u)
  PROVE  Steady /\ Sends(u)
<1> DEFINE o == obj[u]
<1>1. /\ pc[u] = "write" /\ mu = u /\ stm' = Started(u)
      /\ UNCHANGED <<mu, op, obj, second, prepared, readers, resp, cursors>>
  BY DEF Write
<1>2. At' = "wait" /\ resp = <<>>
  BY WriteBase
<1>3. At = "write" /\ o \in DOMAIN stm /\ stm \in Seq(Statement) /\ stm[o].user = u
  BY <1>1, Working, Parts DEF Base
<1>4. /\ DOMAIN stm' = DOMAIN stm
      /\ \A p \in DOMAIN stm :
             /\ stm'[p].user = stm[p].user /\ stm'[p].child = stm[p].child /\ stm'[p].cursor = stm[p].cursor
             /\ stm'[p].define = stm[p].define /\ stm'[p].noPrefetch = stm[p].noPrefetch
             /\ stm'[p].implicit = stm[p].implicit
             /\ stm'[p].rows = stm[p].rows /\ stm'[p].closed = stm[p].closed
             /\ stm'[p].more \in BOOLEAN /\ stm[p].more \in BOOLEAN
             /\ stm'[p].more <=> stm[p].more \/ (p = o /\ IsQuery(stm[p]) /\ op[u] # "schema")
  <2>1. /\ stm' \in Seq(Statement) /\ Len(stm') = Len(stm)
        /\ \A p \in DOMAIN stm :
             /\ stm'[p].user = stm[p].user /\ stm'[p].child = stm[p].child /\ stm'[p].cursor = stm[p].cursor
             /\ stm'[p].define = stm[p].define /\ stm'[p].noPrefetch = stm[p].noPrefetch
             /\ stm'[p].implicit = stm[p].implicit
             /\ stm'[p].rows = stm[p].rows /\ stm'[p].closed = stm[p].closed
             /\ stm'[p].more <=> stm[p].more \/ (p = o /\ IsQuery(stm[p]) /\ op[u] # "schema")
    BY <1>1, <1>3, StartedFacts
  <2>2. DOMAIN stm' = DOMAIN stm /\ \A p \in DOMAIN stm : stm'[p].more \in BOOLEAN /\ stm[p].more \in BOOLEAN
    BY <1>3, <2>1, Domains, Fields
  <2> QED BY <2>1, <2>2
<1>5. o \in readers[u] => op[u] = "fetch" /\ stm[o].more
  BY <1>1 DEF Base, Possession, Owns
<1>6. \A p : Coming(p) = 0 /\ Coming(p)' = 0
  BY <1>1, <1>2 DEF Coming
<1>7. \A p \in DOMAIN stm : Stays(p)
  <2> SUFFICES ASSUME NEW p \in DOMAIN stm PROVE Stays(p)
    OBVIOUS
  <2>1. p \in readers[stm[p].user] => stm'[p].more = stm[p].more
    BY <1>3, <1>4, <1>5
  <2> QED BY <1>1, <1>4, <1>6, <2>1 DEF Stays
<1>8. Sends(u)
  BY <1>1, <1>2, <1>3, <1>4 DEF Sends
<1> QED BY <1>4, <1>7, <1>8 DEF Steady

LEMMA WriteDefersSteps ==
  ASSUME Base, NEW u \in Users, WriteDefers(u)
  PROVE  Steady /\ Ends
<1> DEFINE s == Started(u)
<1> PICK o : o = obj[u]
  OBVIOUS
<1>1. pc[u] = "write" /\ cursors' = cursors
  BY DEF WriteDefers
<1>2. Failed(u, s) /\ resp = <<>>
  BY WriteDefersBase
<1>3. o \in DOMAIN stm /\ stm \in Seq(Statement)
  BY <1>1, Working, Parts DEF Base
<1>4. /\ s \in Seq(Statement) /\ Len(s) = Len(stm)
      /\ \A p \in DOMAIN stm :
           /\ s[p].user = stm[p].user /\ s[p].child = stm[p].child /\ s[p].cursor = stm[p].cursor
           /\ s[p].define = stm[p].define /\ s[p].noPrefetch = stm[p].noPrefetch
           /\ s[p].rows = stm[p].rows /\ s[p].closed = stm[p].closed
           /\ p # o => s[p].more = stm[p].more
  <2>1. /\ s \in Seq(Statement) /\ Len(s) = Len(stm)
        /\ \A p \in DOMAIN stm :
             /\ s[p].user = stm[p].user /\ s[p].child = stm[p].child /\ s[p].cursor = stm[p].cursor
             /\ s[p].define = stm[p].define /\ s[p].noPrefetch = stm[p].noPrefetch
             /\ s[p].rows = stm[p].rows /\ s[p].closed = stm[p].closed
             /\ s[p].more <=> stm[p].more \/ (p = o /\ IsQuery(stm[p]) /\ op[u] # "schema")
    BY <1>3, StartedFacts
  <2>2. \A p \in DOMAIN stm : s[p].more \in BOOLEAN /\ stm[p].more \in BOOLEAN
    <3> HIDE DEF s
    <3>1. DOMAIN s = DOMAIN stm
      BY <1>3, <2>1, Domains
    <3> QED BY <1>3, <2>1, <3>1, Domains, Fields
  <2> QED BY <2>1, <2>2
<1>5. \A p : Coming(p) = 0
  BY <1>2 DEF Coming
<1> HIDE DEF s
<1>6. /\ Ends /\ DOMAIN stm' = DOMAIN stm /\ (\A p \in DOMAIN stm : p # o => Stays(p))
      /\ Gone(o)' \/ Stays(o)
  BY <1>1, <1>2, <1>3, <1>4, <1>5, FailedSteps
<1> QED BY <1>6 DEF Steady

---------------------------------------------------------------------------
(* The round trip under way.                                               *)

\* Lock has dropped the implicit result of the statement it executes, and a
\* query that is executed is to be fetched from.
Going ==
  At \in {"write", "wait"} =>
    LET s == stm[obj[mu]]
    IN  /\ op[mu] # "fetch" => s.implicit = 0
        /\ At = "wait" /\ IsQuery(s) /\ op[mu] # "schema" => s.more

\* What a response tells of the request it answers.
Told ==
  resp # <<>> /\ At = "wait" =>
    LET s == stm[obj[mu]]
    IN  /\ resp.describe <=>
             ~(op[mu] = "fetch" /\ ~s.child) /\ (s.cursor = 0 \/ op[mu] = "schema") /\ resp.cursor # 0
        /\ resp.type = "integrity" => ~IsQuery(s)
        /\ resp.type = "retry" => "fetchRetry" \in Faults \/ ("retry" \in Faults /\ op[mu] # "fetch")
        /\ op[mu] = "fetch" => resp.cursor \in {0, s.cursor}
        /\ resp.rows > 0 =>
             /\ resp.type \in {"ok", "nodata"} /\ IsQuery(s) /\ op[mu] # "schema"
             /\ HasLobs(s) => op[mu] = "fetch" \/ LobRows
             /\ s.child => ~s.noPrefetch
        /\ resp.type = "nodata" =>
             /\ IsQuery(s) /\ op[mu] # "schema"
             /\ cursors[resp.cursor].ran /\ cursors[resp.cursor].left = 0
        /\ \A i \in DOMAIN resp.results :
             /\ MaxResults # 0
             /\ cursors[resp.results[i]].ran /\ cursors[resp.results[i]].left = Rows

Trip == Leaving /\ Going /\ Told

\* Of a response nobody but the server and Process make anything.
LEMMA TripRests ==
  ASSUME Base, Going, Told, Rests
  PROVE  Going' /\ Told'
<1>1. /\ At' = At /\ UNCHANGED <<mu, second, req, resp, cursors>>
      /\ At \in {"write", "wait"} =>
           op'[mu] = op[mu] /\ obj'[mu] = obj[mu] /\ stm'[obj[mu]] = stm[obj[mu]]
  BY DEF Rests
<1>2. Going'
  BY <1>1 DEF Going, IsQuery
<1>3. Told'
  BY <1>1 DEF Told, IsQuery, HasLobs
<1> QED BY <1>2, <1>3

LEMMA TripEnds ==
  ASSUME Ends
  PROVE  Going' /\ Told'
BY DEF Ends, Going, Told

LEMMA TripGoes ==
  ASSUME Base, NEW u \in Users, Goes(u)
  PROVE  Going' /\ Told'
BY DEF Goes, Going, Told

LEMMA TripSends ==
  ASSUME Base, Going, NEW u \in Users, Sends(u)
  PROVE  Going' /\ Told'
BY DEF Sends, Going, Told, IsQuery

\* The server's answers, at once.
LEMMA ServerAnswersWith ==
  ASSUME Base, CursorInv, ServerStep
  PROVE  \E id \in 0 .. MaxCursors, rs \in Seq(Ids) :
           /\ Answers(id, rs)
           /\ \/ Refuses /\ id = 0 /\ rs = <<>>
              \/ FailsWith(id) /\ rs = <<>>
              \/ AnswersWith(id) /\ rs = <<>>
              \/ ReturnsWith(id, rs)
<1>1. CASE Refuses
  <2>1. Answers(0, <<>>) /\ 0 \in 0 .. MaxCursors /\ <<>> \in Seq(Ids)
    BY <1>1 DEF Refuses
  <2> QED BY <1>1, <2>1
<1>2. ASSUME NEW id \in Ids, FailsWith(id) \/ AnswersWith(id)
      PROVE  Answers(id, <<>>) /\ id \in 0 .. MaxCursors /\ <<>> \in Seq(Ids)
  BY <1>2 DEF FailsWith, AnswersWith, Ids
<1>3. ASSUME NEW id \in Ids, NEW rs \in Seq(Ids), ReturnsWith(id, rs)
      PROVE  Answers(id, rs) /\ id \in 0 .. MaxCursors
  BY <1>3 DEF ReturnsWith, Ids
<1> QED BY <1>1, <1>2, <1>3, ServerFacts

\* What the server answers is what a response tells.
LEMMA TripServer ==
  ASSUME Base, CursorInv, Going, ServerStep
  PROVE  Going' /\ Told'
<1>1. PICK id \in 0 .. MaxCursors, rs \in Seq(Ids) :
        /\ Answers(id, rs)
        /\ \/ Refuses /\ id = 0 /\ rs = <<>>
           \/ FailsWith(id) /\ rs = <<>>
           \/ AnswersWith(id) /\ rs = <<>>
           \/ ReturnsWith(id, rs)
  BY ServerAnswersWith
<1>2. /\ req # <<>> /\ resp'.cursor = id /\ resp'.results = rs
      /\ UNCHANGED <<mu, toClose, stm, pc, op, obj, second, prepared, readers, ops>>
      /\ At = "wait" /\ At' = "wait"
  BY <1>1, AnswersInv DEF Answers
<1> PICK u \in Users : u = mu
  BY <1>2, ClosedFacts
<1> PICK o \in DOMAIN stm : o = obj[mu]
  BY <1>2, ClosedFacts
<1>3. /\ stm[o] \in Statement /\ Asked(mu) /\ Shaped(o) /\ req \in Requests
      /\ op[mu] \in {"query", "update", "schema", "fetch"}
  BY <1>2, ClosedFacts, Parts DEF Base, Shapes
<1>4. Going'
  BY <1>2 DEF Going, IsQuery
<1>5. Told'
  <2>1. /\ req.object = o
        /\ req.define <=> ~(op[mu] = "fetch" /\ ~stm[o].child) /\ stm[o].define
        /\ req.exec <=> op[mu] \in {"query", "update"} /\ ~stm[o].define
        /\ req.parse <=> ~(op[mu] = "fetch" /\ ~stm[o].child) /\ stm[o].cursor = 0
        /\ req.describe <=> ~(op[mu] = "fetch" /\ ~stm[o].child) /\ (stm[o].cursor = 0 \/ op[mu] = "schema")
        /\ req.want \in Nat
        /\ req.want > 0 =>
             \/ op[mu] = "fetch" /\ ~stm[o].child
             \/ IsQuery(stm[o]) /\ op[mu] # "schema" /\ ~stm[o].noPrefetch
    BY <1>3 DEF Asked, Requests
  <2>2. resp'.describe <=> req.describe /\ id # 0
    BY <1>1, <1>2 DEF Refuses, FailsWith, AnswersWith, ReturnsWith
  <2>3. id # 0 => stm[o].cursor \in {0, id} /\ (stm[o].cursor = 0 => req.parse /\ ~stm[o].child)
    BY <1>1, ServesFacts DEF Answers
  <2>4. resp'.type = "integrity" => ~IsQuery(stm[o])
    BY <1>1, <2>1 DEF Refuses, FailsWith, AnswersWith, ReturnsWith, Answers
  <2>5. resp'.type = "retry" => "fetchRetry" \in Faults \/ ("retry" \in Faults /\ op[mu] # "fetch")
    <3>1. resp'.type = "retry" =>
            \/ "fetchRetry" \in Faults
            \/ "retry" \in Faults /\ (req.exec \/ req.define) /\ ~stm[o].child
      BY <1>1, <2>1 DEF Refuses, FailsWith, AnswersWith, ReturnsWith, Answers
    <3> QED BY <2>1, <3>1
  <2>9. AnswersWith(id) => Before(id) \in Nat
    <3> SUFFICES ASSUME AnswersWith(id) PROVE Before(id) \in Nat
      OBVIOUS
    <3>1. id \in Ids
      BY <1>1 DEF AnswersWith, Answers
    <3>2. Closed[id] \in ServerCursor
      BY <1>2, <3>1, ClosedFacts
    <3> QED BY <3>2 DEF Before, ServerCursor
  <2>6. resp'.rows > 0 =>
          /\ AnswersWith(id) /\ IsQuery(stm[o]) /\ op[mu] # "schema"
          /\ HasLobs(stm[o]) => op[mu] = "fetch" \/ LobRows
          /\ stm[o].child => ~stm[o].noPrefetch
    <3>1. resp'.rows > 0 => AnswersWith(id) /\ Served(id) > 0
      BY <1>1 DEF Refuses, FailsWith, AnswersWith, ReturnsWith
    <3>2. AnswersWith(id) /\ Served(id) > 0 =>
            /\ IsQuery(stm[o]) /\ req.want > 0 /\ (req.exec /\ HasLobs(stm[o]) => LobRows)
      BY <2>1, <2>9 DEF Served
    <3>3. stm[o].define => stm[o].noPrefetch
      BY <1>3 DEF Shaped
    <3>4. stm[o].noPrefetch \in BOOLEAN /\ stm[o].define \in BOOLEAN
      BY <1>3, Fields
    <3> QED BY <1>3, <2>1, <3>1, <3>2, <3>3, <3>4
  <2>7. resp'.type = "nodata" =>
          /\ IsQuery(stm[o]) /\ op[mu] # "schema" /\ cursors'[id].ran /\ cursors'[id].left = 0
    <3>1. resp'.type = "nodata" => AnswersWith(id)
      BY <1>1, <2>1 DEF Refuses, FailsWith, AnswersWith, ReturnsWith, Answers
    <3>2. AnswersWith(id) /\ resp'.type = "nodata" =>
            /\ Served(id) \in Nat /\ Served(id) < req.want /\ Before(id) = Served(id)
            /\ IsQuery(stm[o]) /\ cursors'[id].ran /\ cursors'[id].left = Before(id) - Served(id)
      <4>1. ASSUME AnswersWith(id), resp'.type = "nodata"
            PROVE  /\ Served(id) < req.want /\ Before(id) = Served(id)
                   /\ IsQuery(stm[o]) /\ cursors'[id].ran /\ cursors'[id].left = Before(id) - Served(id)
        BY <2>1, <4>1 DEF AnswersWith
      <4>2. AnswersWith(id) => Served(id) \in Nat
        BY <2>1, <2>9 DEF Served
      <4> QED BY <4>1, <4>2
    <3> QED BY <2>1, <3>1, <3>2
  <2>8. \A i \in DOMAIN rs : MaxResults # 0 /\ cursors'[rs[i]].ran /\ cursors'[rs[i]].left = Rows
    BY <1>1 DEF ReturnsWith
  <2>10. stm' = stm /\ op' = op /\ obj' = obj /\ mu' = mu /\ o = obj[mu]
    BY <1>2
  <2>11. /\ op[mu] = "fetch" => id \in {0, stm[o].cursor}
         /\ resp'.describe <=>
              ~(op[mu] = "fetch" /\ ~stm[o].child) /\ (stm[o].cursor = 0 \/ op[mu] = "schema") /\ id # 0
    BY ONLY <2>1, <2>2, <2>3, <2>4
  <2>12. resp'.rows > 0 => resp'.type \in {"ok", "nodata"}
    BY <2>6 DEF AnswersWith
  <2> QED BY ONLY <1>2, <2>4, <2>5, <2>6, <2>7, <2>8, <2>10, <2>11, <2>12 DEF Told, IsQuery, HasLobs
<1> QED BY <1>4, <1>5

---------------------------------------------------------------------------
(* A response is processed.                                                *)

\* Who has the other statements, and who has the one that is answered.
Others(o) ==
  \A p \in DOMAIN stm : LET v == stm[p].user IN
    /\ stm[p].closed => stm'[p].closed
    /\ p # o => p \in readers'[v] <=> p \in readers[v]
    /\ p # o /\ p = prepared'[v] => p = prepared[v]

Outcome(u, o) ==
  \/ At' = "free" /\ Gone(o)'
  \/ /\ At' = "write" /\ mu' = u /\ obj' = obj /\ readers' = readers /\ prepared' = prepared
     /\ \/ resp.type = "retry" /\ second' = second
        \/ /\ resp.type \in {"ok", "nodata"} /\ second'
           /\ Heard(u).define /\ op[u] # "schema" /\ (op[u] = "fetch" => stm[o].child)
  \/ /\ At' = "free" /\ (o \in readers[u] => o \in readers'[u]) /\ (o = prepared'[u] => o = prepared[u])
     /\ \/ resp.type \in {"error", "integrity"} /\ o \notin readers'[u]
        \/ /\ resp.type \in {"ok", "nodata"} /\ ~(NeedsDefine(u, Heard(u)) /\ ~second)
           /\ o \in readers'[u] => op[u] = "fetch" \/ (op[u] = "query" /\ IsQuery(stm[o]))
           /\ o = prepared'[u] => ~(IsQuery(stm[o]) /\ op[u] \in {"query", "update"})

Handled(u, o) ==
  /\ o = obj[u] /\ Processed(u) /\ Others(o) /\ Outcome(u, o)
  /\ \A p \in DOMAIN stm : p # o => Stays(p)
  /\ \A id \in Ids : /\ cursors'[id].ran = cursors[id].ran /\ cursors'[id].defined = cursors[id].defined
                     /\ cursors'[id].left = cursors[id].left
  /\ resp.results # <<>> => Len(stm) + 1 # prepared'[u]

\* What one user has of the functions of users after its own step.
LEMMA OwnEntries ==
  ASSUME Typed, NEW u \in Users, NEW r, readers' = [readers EXCEPT ![u] = r],
         NEW b, prepared' = [prepared EXCEPT ![u] = b]
  PROVE  /\ readers'[u] = r /\ prepared'[u] = b
         /\ \A v \in Users : v # u => readers'[v] = readers[v] /\ prepared'[v] = prepared[v]
BY DEF Typed, TypeOK

\* The three ways, given the statements t the response has made.
Made(u, o, t) ==
  /\ o \in DOMAIN stm /\ DOMAIN stm \subseteq DOMAIN t /\ t \in Seq(Statement)
  /\ o = obj[u] /\ stm[o].user = u /\ ~stm[o].closed /\ ~t[o].closed
  /\ t[o].user = u /\ t[o].child = stm[o].child
  /\ \A p \in DOMAIN stm : t[p].closed = stm[p].closed
  /\ op[u] # "fetch" => o = prepared[u] /\ o \notin readers[u] /\ ~stm[o].child
  /\ op[u] = "fetch" => o \in readers[u] /\ o # prepared[u]
  /\ op[u] = "fetch" \/ t[o].implicit \in {0, Len(stm) + 1}
  /\ Len(stm) + 1 \notin DOMAIN stm

LEMMA RepeatsFacts ==
  ASSUME Base, NEW u \in Users, NEW o, Made(u, o, After(u)), Repeats(u), mu = u
  PROVE  Others(o) /\ Outcome(u, o)
<1>1. stm' = After(u) /\ pc' = [pc EXCEPT ![u] = "write"] /\ UNCHANGED <<mu, obj, prepared, readers>>
  BY DEF Repeats
<1>2. At' = "write"
  BY <1>1 DEF At, Base, Typed, TypeOK
<1>3. \A p \in DOMAIN stm : stm'[p].closed = stm[p].closed
  BY <1>1 DEF Made
<1>4. Others(o)
  BY <1>1, <1>3 DEF Others
<1>5. \/ resp.type = "retry" /\ second' = second
      \/ /\ resp.type \in {"ok", "nodata"} /\ second'
         /\ Heard(u).define /\ op[u] # "schema" /\ (op[u] = "fetch" => stm[o].child)
  BY DEF Repeats, Made
<1> QED BY <1>1, <1>2, <1>4, <1>5 DEF Outcome

LEMMA FailedFacts ==
  ASSUME Base, NEW u \in Users, NEW o, NEW t, Made(u, o, t), Failed(u, t),
         resp.type \in {"error", "integrity"}
  PROVE  Others(o) /\ Outcome(u, o) /\ DOMAIN stm' = DOMAIN t /\ prepared' = prepared
<1>1. At' = "free" /\ mu' = Nobody /\ prepared' = prepared
  BY DEF Failed, At
<1>2. PICK c : Leaves(u, t, c)
  BY DEF Failed
<1>3. /\ DOMAIN stm' = DOMAIN t
      /\ \A p \in DOMAIN stm : stm'[p].user = t[p].user /\ (stm[p].closed => stm'[p].closed)
  BY <1>2, KeptCursors DEF Leaves, Kept, Made
<1>4. stm'[o].user = u
  BY <1>3 DEF Made
<1>5. CASE op[u] = "fetch" \/ (op[u] = "query" /\ IsQuery(t[o]))
  <2>1. Leaves(u, t, o) /\ readers' = [readers EXCEPT ![u] = @ \ {o}]
    BY <1>5 DEF Failed, Made
  <2>2. readers'[u] = readers[u] \ {o} /\ \A v \in Users : v # u => readers'[v] = readers[v]
    BY <2>1 DEF Base, Typed, TypeOK
  <2>3. stm'[o].closed
    BY <2>1 DEF Leaves, Kept, Made
  <2>4. Gone(o)'
    BY ONLY <1>4, <2>2, <2>3 DEF Gone
  <2>5. \A p \in DOMAIN stm : stm[p].user \in Users
    BY Parts, Fields DEF Base
  <2>6. Others(o)
    BY ONLY <1>1, <1>3, <2>2, <2>5 DEF Others
  <2> QED BY ONLY <1>1, <1>3, <2>4, <2>6 DEF Outcome
<1>6. CASE ~(op[u] = "fetch" \/ (op[u] = "query" /\ IsQuery(t[o])))
  <2>1. readers' = readers /\ o \notin readers[u]
    BY <1>6 DEF Failed, Made
  <2>2. Others(o)
    BY <1>1, <1>3, <2>1 DEF Others
  <2>3. Outcome(u, o)
    BY <1>1, <2>1 DEF Outcome
  <2> QED BY <1>1, <1>3, <2>2, <2>3
<1> QED BY <1>5, <1>6

LEMMA SucceededHow ==
  ASSUME Base, NEW u \in Users, NEW o, NEW t, Made(u, o, t), Succeeded(u, t),
         resp.type \in {"ok", "nodata"}, ~(NeedsDefine(u, Heard(u)) /\ ~second)
  PROVE  /\ Others(o) /\ Outcome(u, o) /\ DOMAIN stm' = DOMAIN t
         /\ prepared'[u] \in {0, prepared[u]}
<1> DEFINE r == Result(u, t)
           n == Len(stm) + 1
<1>1. At' = "free" /\ mu' = Nobody
  BY DEF Succeeded, At
<1>2. PICK c : Leaves(u, t, c)
  BY DEF Succeeded
<1>3. /\ DOMAIN stm' = DOMAIN t
      /\ \A p \in DOMAIN stm : stm'[p].user = t[p].user /\ (stm[p].closed => stm'[p].closed)
  BY <1>2, KeptCursors DEF Leaves, Kept, Made
<1>4. stm'[o].user = u /\ o # 0 /\ stm[o].user = u
  <2>1. o # 0
    BY Parts DEF Made, Base
  <2> QED BY <1>3, <2>1 DEF Made
<1>5. IsQuery(t[o]) <=> IsQuery(stm[o])
  BY DEF Made, IsQuery
<1>6. r = IF IsQuery(stm[o]) THEN o ELSE t[o].implicit
  BY <1>5 DEF Made, Result
<1>7. op[u] # "fetch" => r \in {0, o, n}
  BY <1>6 DEF Made
<1>8. \A p \in DOMAIN stm : stm[p].user \in Users
  BY Parts, Fields DEF Base
<1>9. n \notin DOMAIN stm
  BY DEF Made
<1> HIDE DEF r, n
<1>10. CASE /\ op[u] = "query" /\ r # 0 /\ readers' = [readers EXCEPT ![u] = @ \cup {r}]
            /\ prepared' = IF t[r].child THEN prepared ELSE [prepared EXCEPT ![u] = 0]
  <2>1. /\ readers'[u] = readers[u] \cup {r} /\ prepared'[u] \in {0, prepared[u]}
        /\ \A v \in Users : v # u => readers'[v] = readers[v] /\ prepared'[v] = prepared[v]
    BY <1>10 DEF Base, Typed, TypeOK
  <2>2. Others(o)
    <3> SUFFICES ASSUME NEW p \in DOMAIN stm, NEW v, v = stm[p].user
                 PROVE  /\ stm[p].closed => stm'[p].closed
                        /\ p # o => p \in readers'[v] <=> p \in readers[v]
                        /\ p # o /\ p = prepared'[v] => p = prepared[v]
      BY DEF Others
    <3>1. v \in Users /\ p # 0 /\ p # n
      BY <1>8, <1>9, Parts DEF Base
    <3> QED BY <1>3, <1>7, <1>10, <2>1, <3>1
  <2>3. o \in readers'[u] => IsQuery(stm[o])
    <3>1. o \notin readers[u] /\ o # n /\ (~IsQuery(stm[o]) => r # o)
      BY <1>6, <1>7, <1>9, <1>10 DEF Made
    <3> QED BY <2>1, <3>1
  <2>4. IsQuery(stm[o]) => o # prepared'[u]
    <3>1. IsQuery(stm[o]) => r = o /\ ~t[o].child
      BY <1>6, <1>10 DEF Made
    <3> QED BY <1>4, <1>10, <3>1 DEF Base, Typed, TypeOK
  <2> QED BY <1>1, <1>3, <1>4, <1>10, <2>1, <2>2, <2>3, <2>4 DEF Outcome
<1>11. CASE /\ op[u] = "query" /\ r # 0 /\ readers' = readers /\ prepared' = prepared
            /\ Leaves(u, t, IF t[r].closed THEN 0 ELSE r)
  <2>1. Others(o)
    BY <1>3, <1>11 DEF Others
  <2>2. o \notin readers[u]
    BY <1>11 DEF Made
  <2>3. IsQuery(stm[o]) => Gone(o)'
    <3>1. IsQuery(stm[o]) => stm'[o].closed
      BY <1>6, <1>11 DEF Made, Leaves, Kept
    <3> QED BY <1>4, <1>11, <2>2, <3>1 DEF Gone
  <2> QED BY <1>1, <1>3, <1>11, <2>1, <2>2, <2>3 DEF Outcome
<1>12. CASE op[u] = "update" /\ r = o /\ Leaves(u, t, o) /\ readers' = readers /\ prepared' = [prepared EXCEPT ![u] = 0]
  <2>1. /\ prepared'[u] = 0 /\ \A v \in Users : v # u => prepared'[v] = prepared[v]
    BY <1>12 DEF Base, Typed, TypeOK
  <2>2. Others(o)
    <3>1. \A p \in DOMAIN stm : p # 0
      BY Parts DEF Base
    <3> QED BY <1>3, <1>8, <1>12, <2>1, <3>1 DEF Others
  <2>3. o \notin readers[u]
    BY <1>12 DEF Made
  <2> QED BY <1>1, <1>3, <1>4, <1>12, <2>1, <2>2, <2>3 DEF Outcome
<1>13. CASE /\ ~(op[u] = "query" /\ r # 0) /\ ~(op[u] = "update" /\ r = o)
            /\ readers' = readers /\ prepared' = prepared
  <2>1. Others(o)
    BY <1>3, <1>13 DEF Others
  <2>2. o \in readers'[u] => op[u] = "fetch"
    BY <1>13 DEF Made
  <2>3. ~(IsQuery(stm[o]) /\ op[u] \in {"query", "update"})
    BY <1>4, <1>6, <1>13
  <2> QED BY <1>1, <1>3, <1>13, <2>1, <2>2, <2>3 DEF Outcome
<1>14. o = obj[u]
  BY DEF Made
<1> QED BY <1>10, <1>11, <1>12, <1>13, <1>14 DEF Succeeded, r

LEMMA MadeFacts ==
  ASSUME Base, Going, NEW u \in Users, Process(u), NEW o, o = obj[u]
  PROVE  Made(u, o, After(u))
<1>10. /\ mu = u /\ At = "wait" /\ pc[u] = "wait" /\ o \in DOMAIN stm /\ stm[o].user = u /\ ~stm[o].closed
       /\ resp \in Responses
  BY ProcessFacts
<1>11. stm \in Seq(Statement) /\ Len(stm) \in Nat /\ DOMAIN stm = 1 .. Len(stm)
  BY Parts DEF Base
<1> DEFINE t == After(u)
           n == Len(stm) + 1
<1>1. /\ t \in Seq(Statement) /\ Len(t) = IF resp.results = <<>> THEN Len(stm) ELSE n
      /\ t[o].user = stm[o].user /\ t[o].child = stm[o].child
      /\ t[o].implicit = IF resp.results = <<>> THEN stm[o].implicit ELSE n
      /\ \A p \in DOMAIN stm : t[p].closed = stm[p].closed
  <2>1. obj[u] \in DOMAIN stm /\ resp \in Responses /\ stm \in Seq(Statement) /\ o = obj[u]
    BY <1>10, <1>11
  <2>2. /\ t \in Seq(Statement) /\ Len(t) = IF resp.results = <<>> THEN Len(stm) ELSE n
        /\ t[obj[u]].user = stm[obj[u]].user /\ t[obj[u]].child = stm[obj[u]].child
        /\ t[obj[u]].closed = stm[obj[u]].closed
        /\ t[obj[u]].implicit = IF resp.results = <<>> THEN stm[obj[u]].implicit ELSE n
        /\ \A p \in DOMAIN stm : p # obj[u] => t[p].closed = stm[p].closed
    BY ONLY <2>1, u \in Users, AfterFacts
  <2> HIDE DEF t, n
  <2> QED BY ONLY <2>1, <2>2
<1>2. /\ op[u] # "fetch" => o = prepared[u] /\ o \notin readers[u] /\ ~stm[o].child
      /\ op[u] = "fetch" => o \in readers[u] /\ o # prepared[u]
  <2>1. Owns(u)
    BY DEF Base, Possession
  <2>2. o # 0
    BY <1>10, <1>11
  <2> QED BY <1>10, <2>1, <2>2 DEF Owns
<1>3. op[u] # "fetch" => stm[o].implicit = 0
  BY <1>10 DEF Going
<1> HIDE DEF t
<1>4. DOMAIN stm \subseteq DOMAIN t /\ n \notin DOMAIN stm
  <2>1. DOMAIN t = 1 .. Len(t) /\ Len(t) \in Nat
    BY <1>1, Domains
  <2>2. Len(t) >= Len(stm)
    <3>1. Len(t) = Len(stm) \/ Len(t) = Len(stm) + 1
      BY ONLY <1>1, Zenon
    <3>2. Len(stm) \in Nat
      BY <1>11
    <3> QED BY ONLY <3>1, <3>2
  <2> QED BY ONLY <1>11, <2>1, <2>2
<1>5. ~t[o].closed
  BY <1>10, <1>1
<1>6. op[u] = "fetch" \/ t[o].implicit \in {0, n}
  BY <1>1, <1>3
<1>7. \A p \in DOMAIN stm : t[p].closed = stm[p].closed
  BY <1>1
<1>8. t \in Seq(Statement) /\ t[o].user = u /\ t[o].child = stm[o].child
  BY <1>10, <1>1
<1> QED BY ONLY <1>10, <1>2, <1>4, <1>5, <1>6, <1>7, <1>8, o = obj[u] DEF Made, t, n

\* Process is a step of that kind.
LEMMA HandledFacts ==
  ASSUME Base, CursorInv, Going, NEW u \in Users, Process(u), NEW o, o = obj[u]
  PROVE  Handled(u, o)
<1>1. /\ pc[u] = "wait" /\ mu = u /\ At = "wait" /\ o \in DOMAIN stm /\ stm[o].user = u /\ ~stm[o].closed
      /\ resp # <<>> /\ resp \in Responses /\ cursors' = Claimed /\ resp' = <<>> /\ op' = op
      /\ \/ Repeats(u)
         \/ resp.type \in {"error", "integrity"} /\ Failed(u, After(u))
         \/ /\ resp.type \in {"ok", "nodata"} /\ Succeeded(u, After(u))
            /\ ~(NeedsDefine(u, Heard(u)) /\ ~second)
  BY ProcessFacts
<1>2. stm \in Seq(Statement) /\ Len(stm) \in Nat /\ DOMAIN stm = 1 .. Len(stm)
  BY Parts DEF Base
<1>3. Processed(u)
  BY ProcessedFacts
<1>4. Made(u, o, After(u))
  BY MadeFacts
<1>5. Others(o) /\ Outcome(u, o) /\ prepared'[u] \in {0, prepared[u]}
  <2>1. CASE Repeats(u)
    BY <1>1, <1>4, <2>1, RepeatsFacts DEF Repeats
  <2>2. CASE resp.type \in {"error", "integrity"} /\ Failed(u, After(u))
    <3>1. Others(o) /\ Outcome(u, o) /\ prepared' = prepared
      BY <1>4, <2>2, FailedFacts
    <3> QED BY <3>1
  <2>3. CASE /\ resp.type \in {"ok", "nodata"} /\ Succeeded(u, After(u))
             /\ ~(NeedsDefine(u, Heard(u)) /\ ~second)
    BY <1>4, <2>3, SucceededHow
  <2> QED BY <1>1, <2>1, <2>2, <2>3
<1>6. \A id \in Ids : /\ cursors'[id].ran = cursors[id].ran /\ cursors'[id].defined = cursors[id].defined
                      /\ cursors'[id].left = cursors[id].left
  <2>1. Len(stm) + 1 \in Nat /\ Len(stm) + 1 >= Len(stm)
    BY <1>2
  <2> QED BY <1>1, <2>1, ClaimedFacts DEF Base
<1>7. \A p \in DOMAIN stm : p # o => Stays(p)
  <2> SUFFICES ASSUME NEW p \in DOMAIN stm, p # o PROVE Stays(p)
    OBVIOUS
  <2>1. /\ stm'[p].user = stm[p].user /\ stm'[p].child = stm[p].child /\ stm'[p].cursor = stm[p].cursor
        /\ stm'[p].define = stm[p].define /\ stm'[p].noPrefetch = stm[p].noPrefetch
        /\ stm'[p].more = stm[p].more /\ stm'[p].rows = stm[p].rows
    BY <1>3 DEF Processed
  <2>2. stm[p].cursor # 0 => stm[p].cursor \in Ids
    BY <1>2, Fields, Parts DEF Ids, Base
  <2>3. Coming(p) = 0 /\ Coming(p)' = 0
    BY <1>1 DEF Coming
  <2> QED BY ONLY <1>5, <1>6, <2>1, <2>2, <2>3, p # o, p \in DOMAIN stm DEF Stays, Others
<1>8. Len(stm) + 1 # prepared'[u]
  BY <1>2, <1>5, Parts DEF Base
<1> QED BY ONLY <1>3, <1>5, <1>6, <1>7, <1>8, o = obj[u] DEF Handled

\* Two results: the goroutine is to wait for its own lock.
LEMMA ResultsSteps ==
  ASSUME Base, CursorInv, Told, NEW u \in Users, ProcessResults(u)
  PROVE  Steady /\ Ends
<1> DEFINE n == Len(stm)
<1> PICK o : o = obj[u]
  OBVIOUS
<1>1. /\ pc[u] = "wait" /\ mu = u /\ o \in DOMAIN stm
      /\ resp # <<>> /\ Len(resp.results) > 1 /\ resp.results \in Seq(Ids)
      /\ UNCHANGED <<mu, toClose, op, obj, second, prepared, readers, ops, req, resp, cursors>>
      /\ DOMAIN stm' = DOMAIN stm \cup {n + 1, n + 2}
      /\ \A p \in DOMAIN stm :
           /\ stm'[p].user = stm[p].user /\ stm'[p].child = stm[p].child /\ stm'[p].cursor = stm[p].cursor
           /\ stm'[p].define = stm[p].define /\ stm'[p].noPrefetch = stm[p].noPrefetch
           /\ stm'[p].more = stm[p].more /\ stm'[p].rows = stm[p].rows /\ stm'[p].closed = stm[p].closed
      /\ \A p \in {n + 1, n + 2} :
           /\ stm'[p].user = u /\ stm'[p].child /\ stm'[p].rows = 0
           /\ stm'[p].cursor = resp.results[p - n]
  <2>1. /\ pc[u] = "wait" /\ mu = u /\ o \in DOMAIN stm
        /\ resp # <<>> /\ Len(resp.results) > 1 /\ resp.results \in Seq(Ids)
        /\ UNCHANGED <<mu, toClose, op, obj, second, prepared, readers, ops, req, resp, cursors>>
    BY ResultsFacts
  <2>2. \A p \in DOMAIN stm :
           /\ stm'[p].user = stm[p].user /\ stm'[p].child = stm[p].child /\ stm'[p].cursor = stm[p].cursor
           /\ stm'[p].define = stm[p].define /\ stm'[p].noPrefetch = stm[p].noPrefetch
           /\ stm'[p].more = stm[p].more /\ stm'[p].rows = stm[p].rows /\ stm'[p].closed = stm[p].closed
    BY ResultsFacts
  <2>3. DOMAIN stm' = DOMAIN stm \cup {n + 1, n + 2}
    BY ResultsFacts
  <2>4. ASSUME NEW p \in {n + 1, n + 2}
        PROVE  stm'[p].user = u /\ stm'[p].child /\ stm'[p].rows = 0 /\ stm'[p].cursor = resp.results[p - n]
    BY ResultsFacts
  <2> QED BY ONLY <2>1, <2>2, <2>3, <2>4
<1>2. At' = "relock"
  BY ResultsBase
<1>3. o \notin readers[u] /\ \A p : Coming(p)' = 0 /\ (p # o => Coming(p) = 0)
  <2>1. At = "wait" /\ Owns(u)
    BY <1>1, Working DEF Base, Possession
  <2>2. 1 \in DOMAIN resp.results
    BY <1>1, LenProperties
  <2>3. op[u] # "fetch"
    BY <1>1, <2>1, <2>2 DEF CursorInv, Answered
  <2> QED BY <1>1, <1>2, <2>1, <2>3 DEF Owns, Coming
<1>4. ASSUME NEW p \in DOMAIN stm PROVE Stays(p)
  <2>1. p = o => stm[p].user = u
    BY <1>1, Working
  <2> QED BY ONLY <1>1, <1>3, <2>1, p \in DOMAIN stm DEF Stays
<1>5. ASSUME NEW p \in DOMAIN stm' \ DOMAIN stm PROVE Plain(p)'
  <2>1. p \notin readers[u] /\ (p # 0 => p # prepared[u])
    BY Parts DEF Base
  <2>2. p # 0 /\ p \in {n + 1, n + 2} /\ n \in Nat
    BY <1>1, Parts DEF Base
  <2>3. At = "wait"
    BY <1>1, Working DEF Base
  <2>4. p - n \in DOMAIN resp.results
    BY <1>1, <2>2, LenProperties
  <2>5. resp.results[p - n] \in Ids
    BY <1>1, <2>4, ElementOfSeq
  <2>6. stm'[p].cursor # 0
    BY <1>1, <2>2, <2>5 DEF Ids
  <2>7. cursors'[stm'[p].cursor].ran
    BY <1>1, <2>2, <2>3, <2>4 DEF Told
  <2> QED BY <1>1, <2>1, <2>2, <2>6, <2>7 DEF Plain, Ran
<1> QED BY <1>1, <1>2, <1>4, <1>5 DEF Steady, Ends

\* The client aborts a response with rows: nothing of the statement changes
\* unless the server sends rows with the description of LOB columns.
LEMMA AbortsSteps ==
  ASSUME Base, CursorInv, Going, Told, NEW u \in Users, ProcessAborts(u)
  PROVE  Ends /\ "abort" \in Faults /\ (LobRows \/ Steady) /\ Ages
<1> DEFINE s == [stm EXCEPT ![obj[u]] = Described(@)]
<1> PICK o : o = obj[u]
  OBVIOUS
<1>1. pc[u] = "wait" /\ resp # <<>> /\ resp.rows > 0 /\ "abort" \in Faults /\ cursors' = cursors
  BY DEF ProcessAborts
<1>2. Failed(u, s)
  BY AbortsBase
<1>3. o \in DOMAIN stm /\ stm \in Seq(Statement) /\ mu = u /\ At = "wait" /\ resp.describe \in BOOLEAN
  BY <1>1, Working, Parts, ResponseTyped DEF Base
<1>4. /\ s \in Seq(Statement) /\ Len(s) = Len(stm)
      /\ \A p \in DOMAIN stm :
           /\ s[p].user = stm[p].user /\ s[p].child = stm[p].child /\ s[p].cursor = stm[p].cursor
           /\ s[p].more = stm[p].more /\ s[p].implicit = stm[p].implicit
           /\ s[p].rows = stm[p].rows /\ s[p].closed = stm[p].closed
           /\ s[p].define <=> stm[p].define \/ (p = o /\ resp.describe /\ HasLobs(stm[p]))
           /\ s[p].noPrefetch <=> stm[p].noPrefetch \/ (p = o /\ resp.describe /\ HasLobs(stm[p]))
  BY <1>3, DescribedFacts
<1> HIDE DEF s
<1>5. \A p \in DOMAIN stm : s[p] \in Statement /\ stm[p] \in Statement
  BY <1>3, <1>4, Domains
<1>6. \A p \in DOMAIN stm :
        /\ s[p].define \in BOOLEAN /\ s[p].noPrefetch \in BOOLEAN
        /\ stm[p].define \in BOOLEAN /\ stm[p].noPrefetch \in BOOLEAN
  BY <1>5, Fields
<1>7. LobRows \/ ~(resp.describe /\ HasLobs(stm[o]))
  BY <1>1, <1>3 DEF Told, HasLobs
<1>8. \A p \in DOMAIN stm : p # o =>
        s[p].define = stm[p].define /\ s[p].noPrefetch = stm[p].noPrefetch /\ s[p].more = stm[p].more
  BY <1>4, <1>6
<1>9. LobRows \/ (s[o].define = stm[o].define /\ s[o].noPrefetch = stm[o].noPrefetch)
  BY <1>3, <1>4, <1>6, <1>7
<1>10. \A p \in DOMAIN stm : p # o => Coming(p) = 0
  BY <1>3 DEF Coming
<1>11. /\ Ends /\ DOMAIN stm' = DOMAIN stm /\ (\A p \in DOMAIN stm : p # o => Stays(p))
       /\ Gone(o)' \/ (s[o].define = stm[o].define /\ s[o].noPrefetch = stm[o].noPrefetch => Stays(o))
  <2>1. \A p \in DOMAIN stm :
           /\ s[p].user = stm[p].user /\ s[p].child = stm[p].child /\ s[p].cursor = stm[p].cursor
           /\ s[p].rows = stm[p].rows /\ s[p].closed = stm[p].closed
           /\ p # o => /\ s[p].define = stm[p].define /\ s[p].noPrefetch = stm[p].noPrefetch
                            /\ s[p].more = stm[p].more /\ Coming(p) = 0
    BY <1>4, <1>8, <1>10
  <2>2. pc[u] \in {"lock", "write", "wait"} /\ cursors' = cursors
    BY <1>1
  <2> QED BY <1>2, <1>4, <2>1, <2>2, FailedSteps
<1>12. Ages
  <2>1. PICK c : Leaves(u, s, c)
    BY <1>2 DEF Failed
  <2>2. DOMAIN s = DOMAIN stm
    BY <1>3, <1>4, Domains
  <2> QED BY <1>4, <2>1, <2>2 DEF Ages, Leaves, Kept
<1> QED BY <1>1, <1>9, <1>11, <1>12 DEF Steady

---------------------------------------------------------------------------
(* Who closes a statement after its operation does not read from it.       *)

\* A step of u, after which u is not about to close what it has.
Walks(u) ==
  /\ \A v \in Users : v # u => pc'[v] = pc[v] /\ obj'[v] = obj[v] /\ readers'[v] = readers[v]
  /\ pc'[u] = "close" => stm'[obj'[u]].closed /\ obj'[u] \notin readers'[u]

\* Leaving is kept by every step that walks on.
LEMMA LeavingAfter ==
  ASSUME Base, Leaving, NEW u \in Users, Walks(u), Ages
  PROVE  Leaving'
<1> SUFFICES ASSUME NEW v \in Users, pc'[v] = "close"
             PROVE  stm'[obj'[v]].closed /\ obj'[v] \notin readers'[v]
  BY DEF Leaving
<1>1. CASE v = u
  BY <1>1 DEF Walks
<1>2. CASE v # u
  <2>1. pc[v] = "close" /\ obj'[v] = obj[v] /\ readers'[v] = readers[v]
    BY <1>2 DEF Walks
  <2>2. obj[v] \in DOMAIN stm /\ stm[obj[v]].closed /\ obj[v] \notin readers[v]
    BY <2>1, Working DEF Leaving
  <2> QED BY <2>1, <2>2 DEF Ages
<1> QED BY <1>1, <1>2

\* How a user that returns walks.
LEMMA LeavesWalks ==
  ASSUME Typed, NEW u \in Users, NEW s \in Seq(Statement), NEW c, Leaves(u, s, c),
         NEW r, readers' = [readers EXCEPT ![u] = r], c # 0 => c \notin r
  PROVE  Walks(u)
<1>1. Kept(s, stm', c) /\ readers'[u] = r /\ \A v \in Users : v # u => readers'[v] = readers[v]
  BY DEF Leaves, Typed, TypeOK
<1>2. CASE c = 0 /\ pc' = [pc EXCEPT ![u] = "idle"] /\ obj' = obj
  BY <1>1, <1>2 DEF Walks, Typed, TypeOK
<1>3. CASE c \in DOMAIN s /\ pc' = [pc EXCEPT ![u] = "close"] /\ obj' = [obj EXCEPT ![u] = c]
  <2>1. obj'[u] = c /\ \A v \in Users : v # u => pc'[v] = pc[v] /\ obj'[v] = obj[v]
    BY <1>3 DEF Typed, TypeOK
  <2>2. c # 0 /\ stm'[c].closed
    BY <1>1, <1>3, Domains DEF Kept
  <2> QED BY <1>1, <2>1, <2>2 DEF Walks
<1> QED BY <1>2, <1>3 DEF Leaves

LEMMA FailedWalks ==
  ASSUME Typed, NEW u \in Users, NEW s \in Seq(Statement), Failed(u, s)
  PROVE  Walks(u)
<1>1. readers = [readers EXCEPT ![u] = readers[u]]
  BY Entries
<1>2. CASE Leaves(u, s, obj[u]) /\ readers' = [readers EXCEPT ![u] = @ \ {obj[u]}]
  <2>1. obj[u] \notin readers[u] \ {obj[u]}
    OBVIOUS
  <2> QED BY <1>2, <2>1, LeavesWalks
<1>3. CASE Leaves(u, s, 0) /\ readers' = readers
  BY <1>1, <1>3, LeavesWalks
<1> QED BY <1>2, <1>3 DEF Failed

LEMMA SucceededWalks ==
  ASSUME Base, NEW u \in Users, NEW o, NEW t, Made(u, o, t), Succeeded(u, t)
  PROVE  Walks(u)
<1> DEFINE r == Result(u, t)
           n == Len(stm) + 1
<1>1. readers = [readers EXCEPT ![u] = readers[u]] /\ t \in Seq(Statement) /\ Typed
  BY Entries DEF Made, Base
<1>2. r = IF IsQuery(t[o]) THEN o ELSE t[o].implicit
  BY DEF Made, Result
<1>3. op[u] # "fetch" => r \in {0, o, n} /\ o \notin readers[u]
  BY <1>2 DEF Made
<1>4. n \notin readers[u] /\ n # 0
  BY Parts DEF Made, Base
<1>5. o = obj[u]
  BY DEF Made
<1> HIDE DEF r, n
<1>6. CASE Leaves(u, t, 0)
  <2> PICK x : readers' = [readers EXCEPT ![u] = x]
    BY <1>1 DEF Succeeded
  <2> QED BY <1>1, <1>6, LeavesWalks
<1>7. CASE op[u] = "query" /\ r # 0 /\ readers' = readers /\ Leaves(u, t, r)
  BY <1>1, <1>3, <1>4, <1>7, LeavesWalks
<1>8. CASE op[u] = "update" /\ Leaves(u, t, o) /\ readers' = readers
  BY <1>1, <1>3, <1>8, LeavesWalks
<1> QED BY <1>5, <1>6, <1>7, <1>8 DEF Succeeded, r

---------------------------------------------------------------------------
(* Every step is of one of these kinds.                                    *)

Calm ==
  \/ Steady /\ Rests
  \/ Ends /\ (Steady \/ (LobRows /\ "abort" \in Faults))
  \/ Steady /\ \E u \in Users : Goes(u) \/ Sends(u)

LEMMA SteadyAges ==
  ASSUME Steady
  PROVE  Ages
BY DEF Steady, Stays, Gone, Ages

LEMMA IdleLeftWalks ==
  ASSUME Base, NEW u \in Users, NEW c, NEW r, NEW b, IdleLeft(u, c, r, b), c # 0 => c \notin r
  PROVE  Walks(u)
<1>1. Typed /\ stm \in Seq(Statement)
  BY Parts DEF Base
<1> QED BY <1>1, LeavesWalks DEF IdleLeft

LEMMA CloseStatementSteps ==
  ASSUME Base, NEW u \in Users, CloseStatement(u)
  PROVE  Steady /\ Rests /\ Walks(u)
<1>1. PICK c \in {0, prepared[u]} : IdleLeft(u, c, readers[u], 0)
  BY CloseStatementFacts
<1>2. c # 0 => c \notin readers[u]
  BY DEF Base, Possession, Owns
<1> QED BY <1>1, <1>2, IdleLeftSteps, IdleLeftWalks

LEMMA ReleaseSteps ==
  ASSUME Base, NEW u \in Users, Release(u)
  PROVE  Steady /\ Rests /\ Walks(u)
<1>1. PICK o \in readers[u], c \in Nat :
           /\ o \in DOMAIN stm /\ c \in {0, o} /\ IdleLeft(u, c, readers[u] \ {o}, prepared[u])
           /\ c = 0 => stm[o].closed
  BY ReleaseFacts
<1>2. Steady /\ Rests
  BY <1>1, IdleLeftSteps
<1>3. c # 0 => c \notin readers[u] \ {o}
  BY <1>1
<1> QED BY <1>1, <1>2, <1>3, IdleLeftWalks

LEMMA PreparesWalks ==
  ASSUME Base, NEW u \in Users, NEW x, NEW a, NEW n, Prepares(u, x, a, n)
  PROVE  Walks(u)
BY DEF Prepares, Walks, Base, Typed, TypeOK

LEMMA BeginSteps ==
  ASSUME Base, NEW u \in Users, Prepare(u) \/ Begin(u) \/ BeginFetch(u)
  PROVE  Steady /\ Rests /\ Walks(u)
<1>1. CASE Prepare(u)
  BY <1>1, PrepareFacts, PreparesSteps, PreparesWalks
<1>2. CASE Begin(u)
  BY <1>2, BeginFacts, PreparesSteps, PreparesWalks
<1>3. CASE BeginFetch(u)
  <2>1. Walks(u)
    BY <1>3 DEF BeginFetch, Walks, Goto, Base, Typed, TypeOK
  <2> QED BY <1>3, <2>1, BeginFetchSteps
<1> QED BY <1>1, <1>2, <1>3

\* A user that goes on in its round trip, or is about to.
LEMMA GotoWalks ==
  ASSUME Base, NEW u \in Users, NEW x, pc' = [pc EXCEPT ![u] = x], x # "close",
         obj' = obj, readers' = readers
  PROVE  Walks(u)
BY DEF Walks, Base, Typed, TypeOK

LEMMA LockWalks ==
  ASSUME Base, NEW u \in Users, Lock(u)
  PROVE  Walks(u)
<1>1. \/ Fail(u, stm) /\ second' = second
      \/ obj' = obj /\ readers' = readers /\ \E x \in {"relock", "write"} : Goto(u, x)
  BY LockFacts
<1>2. pc[u] = "lock" /\ mu = Nobody /\ UNCHANGED <<toClose, op, ops, req, resp, cursors>>
  BY LockFacts
<1>3. CASE Fail(u, stm) /\ second' = second
  <2>1. Failed(u, stm) /\ stm \in Seq(Statement) /\ Typed
    BY <1>2, <1>3, LockFails, Parts DEF Base
  <2> QED BY <2>1, FailedWalks
<1>4. CASE obj' = obj /\ readers' = readers /\ \E x \in {"relock", "write"} : Goto(u, x)
  BY <1>4, GotoWalks DEF Goto
<1> QED BY <1>1, <1>3, <1>4

\* Every step of a user but Process is calm.
LEMMA UserSteps ==
  ASSUME Base, CursorInv, Trip, NEW u \in Users,
         UserBegins(u) \/ Close(u) \/ Lock(u) \/ Write(u) \/ WriteDefers(u) \/ ProcessResults(u) \/ ProcessAborts(u)
  PROVE  Calm /\ Walks(u) /\ Ages
<1>0. Leaving /\ Going /\ Told /\ Typed
  BY DEF Trip, Base
<1>1. CASE UserBegins(u)
  BY <1>1, CloseStatementSteps, ReleaseSteps, BeginSteps, SteadyAges DEF UserBegins, Calm
<1>2. CASE Close(u)
  <2>1. Walks(u)
    BY <1>2, GotoWalks DEF Close, Goto
  <2> QED BY <1>0, <1>2, <2>1, CloseSteps, SteadyAges DEF Calm
<1>3. CASE Lock(u)
  BY <1>3, LockSteps, LockWalks, SteadyAges DEF Calm
<1>4. CASE Write(u)
  <2>1. Walks(u)
    BY <1>4, GotoWalks DEF Write, Goto
  <2> QED BY <1>4, <2>1, WriteSteps, SteadyAges DEF Calm
<1>5. CASE WriteDefers(u)
  <2>1. Started(u) \in Seq(Statement)
    BY <1>5, Working, Parts, StartedFacts DEF Base, WriteDefers
  <2>2. Walks(u)
    BY <1>0, <1>5, <2>1, WriteDefersBase, FailedWalks
  <2> QED BY <1>5, <2>2, WriteDefersSteps, SteadyAges DEF Calm
<1>6. CASE ProcessResults(u)
  <2>1. Walks(u)
    BY <1>6, GotoWalks DEF ProcessResults, Goto
  <2> QED BY <1>0, <1>6, <2>1, ResultsSteps, SteadyAges DEF Calm
<1>7. CASE ProcessAborts(u)
  <2> DEFINE s == [stm EXCEPT ![obj[u]] = Described(@)]
  <2>1. pc[u] = "wait" /\ resp # <<>>
    BY <1>7 DEF ProcessAborts
  <2>2. obj[u] \in DOMAIN stm /\ stm \in Seq(Statement) /\ resp.describe \in BOOLEAN
    BY <2>1, Working, Parts, ResponseTyped DEF Base
  <2>3. s \in Seq(Statement)
    BY <2>2, DescribedFacts
  <2>4. Failed(u, s)
    BY <1>7, AbortsBase
  <2> HIDE DEF s
  <2>5. Walks(u)
    BY <1>0, <2>3, <2>4, FailedWalks
  <2> QED BY <1>0, <1>7, <2>5, AbortsSteps DEF Calm
<1> QED BY <1>1, <1>2, <1>3, <1>4, <1>5, <1>6, <1>7

\* So walks one that has processed its response.
LEMMA ProcessWalks ==
  ASSUME Base, Going, NEW u \in Users, Process(u)
  PROVE  Walks(u)
<1> PICK o : o = obj[u]
  OBVIOUS
<1>1. \/ Repeats(u)
      \/ Failed(u, After(u))
      \/ Succeeded(u, After(u))
  BY ProcessFacts
<1>2. Made(u, o, After(u))
  BY MadeFacts
<1>3. After(u) \in Seq(Statement) /\ Typed
  BY <1>2 DEF Made, Base
<1>4. CASE Repeats(u)
  BY <1>4, GotoWalks DEF Repeats
<1> QED BY <1>1, <1>2, <1>3, <1>4, FailedWalks, SucceededWalks

\* Process ends the round trip, or begins its second message.
LEMMA TripProcess ==
  ASSUME Base, CursorInv, Going, Told, NEW u \in Users, NEW o, Handled(u, o)
  PROVE  Going' /\ Told'
<1>1. /\ o = obj[u] /\ mu = u /\ At = "wait" /\ o \in DOMAIN stm /\ resp # <<>> /\ resp \in Responses
      /\ At' \in {"free", "write"} /\ op' = op
      /\ stm'[o].implicit = IF resp.results = <<>> THEN stm[o].implicit ELSE Len(stm) + 1
  BY DEF Handled, Processed
<1>2. Told'
  BY <1>1 DEF Told
<1>3. CASE At' = "free"
  BY <1>2, <1>3 DEF Going
<1>4. CASE At' = "write"
  <2>1. /\ mu' = u /\ obj' = obj
        /\ \/ resp.type = "retry"
           \/ resp.type \in {"ok", "nodata"} /\ Heard(u).define
    BY <1>4 DEF Handled, Outcome
  <2>2. resp.results = <<>>
    <3> SUFFICES ASSUME resp.results # <<>> PROVE FALSE
      OBVIOUS
    <3>1. 1 \in DOMAIN resp.results
      <4>1. resp.results \in Seq(Ids)
        BY <1>1 DEF Responses
      <4> QED BY <4>1, EmptySeq, LenProperties
    <3>2. resp.type = "ok" /\ stm[o].user \in Blocks /\ op[u] \in {"query", "update"}
      BY <1>1, <3>1 DEF CursorInv, Answered
    <3>3. Heard(u).define
      BY <2>1, <3>2
    <3>4. stm[o].define \/ HasLobs(stm[o])
      <4>1. stm[obj[u]] \in Statement /\ resp \in Responses
        BY <1>1, Parts DEF Base
      <4>2. Heard(u).define => stm[obj[u]].define \/ HasLobs(stm[obj[u]])
        BY ONLY <4>1, u \in Users, HeardFacts
      <4> QED BY <1>1, <3>3, <4>2
    <3>5. HasLobs(stm[o])
      BY <1>1, <3>4 DEF Base, Shapes, Shaped
    <3>6. ~stm[o].child
      <4>1. pc[u] = "wait" /\ o # 0
        BY <1>1, Parts DEF Handled, Processed, Base
      <4>2. Owns(u)
        BY <1>1 DEF Base, Possession
      <4> QED BY <1>1, <3>2, <4>1, <4>2 DEF Owns
    <3> QED BY <3>2, <3>5, <3>6, StatementsAssumption DEF HasLobs
  <2> QED BY <1>1, <1>2, <1>4, <2>1, <2>2 DEF Going
<1> QED BY <1>1, <1>3, <1>4

\* What any step is.
Steps ==
  \/ Calm
  \/ ServerStep
  \/ \E u \in Users : \E o \in DOMAIN stm : Handled(u, o)

LEMMA NextSteps ==
  ASSUME Inv, Trip, [Next]_vars
  PROVE  Steps /\ Trip'
<1>1. Base /\ CursorInv /\ Leaving /\ Going /\ Told
  BY DEF Inv, Trip
<1>2. ASSUME NEW u \in Users,
             UserBegins(u) \/ Close(u) \/ Lock(u) \/ Write(u) \/ WriteDefers(u) \/ ProcessResults(u) \/ ProcessAborts(u)
      PROVE  Steps /\ Trip'
  <2>1. Calm /\ Walks(u) /\ Ages
    BY <1>1, <1>2, UserSteps
  <2>2. Leaving'
    BY <1>1, <2>1, LeavingAfter
  <2>3. Going' /\ Told'
    BY <1>1, <2>1, TripRests, TripEnds, TripGoes, TripSends DEF Calm
  <2> QED BY <2>1, <2>2, <2>3 DEF Steps, Trip
<1>3. ASSUME NEW u \in Users, Process(u)
      PROVE  Steps /\ Trip'
  <2>1. PICK o \in DOMAIN stm : o = obj[u]
    BY <1>1, <1>3, ProcessFacts
  <2>2. Handled(u, o) /\ Walks(u)
    BY <1>1, <1>3, <2>1, HandledFacts, ProcessWalks
  <2>3. Leaving'
    <3>1. Ages
      BY <2>2 DEF Handled, Others, Ages
    <3> QED BY <1>1, <2>2, <3>1, LeavingAfter
  <2>4. Going' /\ Told'
    BY <1>1, <2>2, TripProcess
  <2> QED BY <2>2, <2>3, <2>4 DEF Steps, Trip
<1>4. CASE ServerStep
  <2>1. Leaving'
    BY <1>1, <1>4 DEF ServerStep, ServerRefuses, ServerFails, ServerAnswers, ServerReturns, Leaving
  <2> QED BY <1>1, <1>4, <2>1, TripServer DEF Steps, Trip
<1>5. CASE UNCHANGED vars
  <2>1. Steady /\ Rests
    BY <1>1, <1>5, StutterSteps
  <2>2. Leaving'
    BY <1>1, <1>5 DEF vars, Leaving
  <2> QED BY <1>1, <2>1, <2>2, TripRests DEF Steps, Calm, Trip
<1> QED BY <1>2, <1>3, <1>4, <1>5 DEF Next, UserStep, Idle

\* Trip holds at first, and is kept by every step.
LEMMA InitTrip == Init => Trip
BY DEF Init, Trip, Leaving, Going, Told, At

LEMMA TripInvariant == Spec => [](Inv /\ Trip)
<1>1. Init => Inv /\ Trip
  BY InitInv, InitTrip
<1>2. Inv /\ Trip /\ [Next]_vars => Inv' /\ Trip'
  BY NextInv, NextSteps
<1> QED BY <1>1, <1>2, PTL DEF Spec

---------------------------------------------------------------------------
(* Requests name the cursor of their statement.                            *)

\* A fetch has a cursor to fetch from.
FetchesKnow == At \in {"write", "wait"} /\ op[mu] = "fetch" => stm[obj[mu]].cursor # 0

\* FetchesKnow is kept as long as no fetch is sent again.
LEMMA FetchesKnowNext ==
  ASSUME Inv, Trip, FetchesKnow, [Next]_vars, "fetchRetry" \notin Faults
  PROVE  FetchesKnow'
<1>1. Steps /\ Told /\ Base /\ CursorInv
  BY NextSteps DEF Trip, Inv
<1>2. CASE Steady /\ Rests
  BY <1>2 DEF Rests, FetchesKnow
<1>3. CASE Ends
  BY <1>3 DEF Ends, FetchesKnow
<1>4. ASSUME NEW u \in Users, Goes(u) \/ Sends(u) PROVE FetchesKnow'
  BY <1>4 DEF Goes, Sends, FetchesKnow
<1>5. CASE ServerStep
  BY <1>5 DEF ServerStep, ServerRefuses, ServerFails, ServerAnswers, ServerReturns, FetchesKnow, At
<1>6. ASSUME NEW u \in Users, NEW o \in DOMAIN stm, Handled(u, o) PROVE FetchesKnow'
  <2>1. /\ o = obj[u] /\ mu = u /\ At = "wait" /\ resp # <<>> /\ resp \in Responses
        /\ At' \in {"free", "write"} /\ op' = op
    BY <1>6 DEF Handled, Processed
  <2>2. CASE At' = "free"
    BY <2>2 DEF FetchesKnow
  <2>3. CASE At' = "write"
    <3>1. /\ mu' = u
          /\ resp.type \in {"retry", "ok", "nodata"} /\ obj' = obj
      BY <1>6, <2>3 DEF Handled, Outcome
    <3>2. resp.type = "retry" => op[u] # "fetch"
      BY <1>1, <2>1 DEF Told
    <3>3. resp.type \in {"ok", "nodata"} => stm'[o].cursor = Known(stm[o])
      <4>1. stm[obj[u]] \in Statement /\ resp \in Responses
        BY <1>1, <2>1, Parts DEF Base
      <4>2. Heard(u).cursor = IF Clears(stm[obj[u]]) THEN 0 ELSE Known(stm[obj[u]])
        BY ONLY <4>1, u \in Users, HeardFacts
      <4>3. stm'[o].cursor = Heard(u).cursor
        BY <1>6 DEF Handled, Processed
      <4> QED BY <2>1, <4>2, <4>3 DEF Clears
    <3> QED BY <2>1, <3>1, <3>2, <3>3 DEF FetchesKnow, Known
  <2> QED BY <2>1, <2>2, <2>3
<1> QED BY <1>1, <1>2, <1>3, <1>4, <1>5, <1>6 DEF Steps, Calm

\* With it, every request names a cursor as OwnCursor says.
LEMMA OwnCursorHolds ==
  ASSUME Inv, FetchesKnow
  PROVE  OwnCursor
<1> SUFFICES ASSUME req # <<>>
             PROVE  \/ req.cursor = 0 /\ req.parse
                    \/ req.cursor # 0 /\ req.cursor \notin InFlight /\ cursors[req.cursor].owner = req.object
  BY DEF OwnCursor
<1>1. Base /\ CursorInv
  BY DEF Inv
<1>2. At = "wait" /\ obj[mu] \in DOMAIN stm /\ Asked(mu)
  BY <1>1, ClosedFacts
<1>3. CASE req.cursor = 0
  BY <1>2, <1>3 DEF Asked, FetchesKnow
<1>4. CASE req.cursor # 0
  <2>1. req.cursor = stm[obj[mu]].cursor /\ req.object = obj[mu]
    BY <1>2 DEF Asked
  <2>2. cursors[req.cursor].owner = req.object
    BY <1>1, <1>2, <1>4, <2>1 DEF CursorInv, Owned
  <2>3. req.cursor \notin InFlight
    BY <1>1, <1>2, <2>1 DEF CursorInv, Listed, List, InFlight
  <2> QED BY <1>4, <2>2, <2>3
<1> QED BY <1>3, <1>4

\* A request that names a cursor names one the server has open for that very
\* statement, and is not about to close; and a fetch always names one, as
\* Fetch checks: unless a retry error answers a fetch, after which it is sent
\* again with the cursor that clearCursor has just dropped.
THEOREM RequestsNameTheirCursor ==
  ASSUME "fetchRetry" \notin Faults
  PROVE  Spec => []OwnCursor
<1>1. Init => Inv /\ Trip /\ FetchesKnow
  BY InitInv, InitTrip DEF Init, FetchesKnow, At
<1>2. Inv /\ Trip /\ FetchesKnow /\ [Next]_vars => (Inv /\ Trip /\ FetchesKnow)'
  BY NextInv, NextSteps, FetchesKnowNext
<1>3. Inv /\ Trip /\ FetchesKnow => OwnCursor
  BY OwnCursorHolds
<1> QED BY <1>1, <1>2, <1>3, PTL DEF Spec

---------------------------------------------------------------------------
(* The server answers the statement whose request it has, and leaves the   *)
(* cursors of the others alone.                                            *)

Replied(id) ==
  LET o == obj[mu]
      s == stm[o]
      c == cursors[id]
      d == cursors'[id]
      done == resp'.type \in {"ok", "nodata"}
      exec == done /\ op[mu] \in {"query", "update"} /\ ~s.define
      define == done /\ ~(op[mu] = "fetch" /\ ~s.child) /\ s.define
  IN  /\ At = "wait" /\ At' = "wait" /\ resp = <<>> /\ resp' # <<>> /\ resp'.cursor = id
      /\ UNCHANGED <<mu, stm, pc, op, obj, second, prepared, readers>>
      /\ mu \in Users /\ pc[mu] = "wait" /\ o \in DOMAIN stm
      /\ \A p \in DOMAIN stm : p # o => Stays(p)
      /\ ~done => resp'.rows = 0
      /\ id = 0 => Stays(o) /\ ~done
      /\ id # 0 =>
           /\ s.cursor \in {0, id} /\ (s.cursor = 0 => op[mu] # "fetch")
           /\ d.ran <=> (s.cursor = id /\ c.ran) \/ exec
           /\ d.defined <=> (s.cursor = id /\ c.defined) \/ define
           /\ d.ran => resp'.rows + d.left = IF exec THEN Rows ELSE c.left

\* The server leaves alone what it is not asked about.
LEMMA AnswersStays ==
  ASSUME Base, CursorInv, NEW id, NEW rs, Answers(id, rs), NEW p \in DOMAIN stm,
         p # obj[mu] \/ (id = 0 /\ rs = <<>> /\ resp'.rows = 0)
  PROVE  Stays(p)
<1> DEFINE x == stm[p].cursor
<1>1. /\ req # <<>> /\ UNCHANGED <<mu, toClose, stm, pc, op, obj, second, prepared, readers, ops>>
      /\ \A c \in Ids : c # id /\ c \notin ToSet(rs) => cursors'[c] = Closed[c]
      /\ id # 0 => id \in Ids /\ Serves(id)
      /\ \A i \in DOMAIN rs : Closed[rs[i]] = Free
      /\ rs \in Seq(Ids) /\ req \in Requests /\ resp = <<>>
      /\ \A c \in Ids : Closed[c] = IF c \in ToSet(req.closes) THEN Free ELSE cursors[c]
  BY ClosedFacts DEF Answers
<1>2. x # 0 => x \in Ids /\ cursors[x].owner # 0 /\ x \notin ToSet(req.closes)
  <2> SUFFICES ASSUME x # 0 PROVE x \in Ids /\ cursors[x].owner # 0 /\ x \notin ToSet(req.closes)
    OBVIOUS
  <2>1. x \in Open
    BY DEF CursorInv, Owned
  <2>2. \A i \in DOMAIN req.closes : x # req.closes[i]
    BY <1>1 DEF CursorInv, Listed, List
  <2> QED BY <2>1, <2>2 DEF Open, ToSet
<1>3. x # 0 => cursors'[x] = cursors[x]
  <2> SUFFICES ASSUME x # 0 PROVE cursors'[x] = cursors[x]
    OBVIOUS
  <2>1. Closed[x] = cursors[x]
    BY <1>1, <1>2
  <2>2. x \notin ToSet(rs)
    <3>1. ASSUME x \in ToSet(rs) PROVE FALSE
      <4>1. PICK i \in DOMAIN rs : rs[i] = x
        BY <3>1 DEF ToSet
      <4>2. cursors[x] = Free
        BY <1>1, <2>1, <4>1
      <4> QED BY <1>2, <4>2 DEF Free
    <3> QED BY <3>1
  <2>3. x # id
    <3>1. ASSUME x = id PROVE FALSE
      <4>1. Serves(id) /\ id \in Ids
        BY <1>1, <3>1
      <4> QED BY <3>1, <4>1, ServesFacts
    <3> QED BY <3>1
  <2> QED BY <1>1, <1>2, <2>1, <2>2, <2>3
<1>4. Coming(p)' = Coming(p)
  <2>1. Coming(p) = 0
    BY <1>1 DEF Coming
  <2>2. Coming(p)' = 0
    BY <1>1 DEF Coming
  <2> QED BY <2>1, <2>2
<1> HIDE DEF x
<1> QED BY ONLY <1>1, <1>3, <1>4 DEF Stays, x

\* Every answer is a reply of that kind.
LEMMA ServerReplies ==
  ASSUME Base, CursorInv, ServerStep
  PROVE  \E id \in 0 .. MaxCursors : Replied(id)
<1>1. PICK id \in 0 .. MaxCursors, rs \in Seq(Ids) :
        /\ Answers(id, rs)
        /\ \/ Refuses /\ id = 0 /\ rs = <<>>
           \/ FailsWith(id) /\ rs = <<>>
           \/ AnswersWith(id) /\ rs = <<>>
           \/ ReturnsWith(id, rs)
  BY ServerAnswersWith
<1>2. /\ req # <<>> /\ resp'.cursor = id /\ resp' # <<>>
      /\ UNCHANGED <<mu, stm, pc, op, obj, second, prepared, readers>>
      /\ At = "wait" /\ At' = "wait"
  <2>1. At = "wait" /\ At' = "wait"
    BY <1>1, AnswersInv
  <2>2. resp' # <<>>
    BY <1>1 DEF Answers, Responses
  <2> QED BY <1>1, <2>1, <2>2 DEF Answers
<1> DEFINE o == obj[mu]
           s == stm[o]
<1>3. /\ mu \in Users /\ pc[mu] = "wait" /\ o \in DOMAIN stm /\ resp = <<>> /\ Asked(mu) /\ req \in Requests
      /\ s \in Statement /\ op[mu] \in {"query", "update", "schema", "fetch"}
      /\ Closed \in [Ids -> ServerCursor]
  BY <1>2, ClosedFacts, Parts DEF Base
<1>4. \A p \in DOMAIN stm : p # o => Stays(p)
  BY <1>1, AnswersStays
<1>5. /\ req.object = o
      /\ req.define <=> ~(op[mu] = "fetch" /\ ~s.child) /\ s.define
      /\ req.exec <=> op[mu] \in {"query", "update"} /\ ~s.define
      /\ req.parse <=> ~(op[mu] = "fetch" /\ ~s.child) /\ s.cursor = 0
  BY <1>3 DEF Asked
<1> DEFINE done == resp'.type \in {"ok", "nodata"}
<1>6. ~done => resp'.rows = 0
  BY <1>1 DEF Refuses, FailsWith, AnswersWith, ReturnsWith
<1>7. id = 0 => Stays(o) /\ ~done
  <2> SUFFICES ASSUME id = 0 PROVE Stays(o) /\ ~done
    OBVIOUS
  <2>1. Refuses /\ rs = <<>>
    BY <1>1 DEF FailsWith, AnswersWith, ReturnsWith
  <2>2. ~done /\ resp'.rows = 0
    BY <2>1 DEF Refuses, Answers
  <2> QED BY <1>1, <1>3, <2>1, <2>2, AnswersStays
<1>8. ASSUME id # 0
      PROVE  LET c == cursors[id]
                 d == cursors'[id]
                 exec == done /\ op[mu] \in {"query", "update"} /\ ~s.define
                 define == done /\ ~(op[mu] = "fetch" /\ ~s.child) /\ s.define
             IN  /\ s.cursor \in {0, id} /\ (s.cursor = 0 => op[mu] # "fetch")
                 /\ d.ran <=> (s.cursor = id /\ c.ran) \/ exec
                 /\ d.defined <=> (s.cursor = id /\ c.defined) \/ define
                 /\ d.ran => resp'.rows + d.left = IF exec THEN Rows ELSE c.left
  <2> DEFINE c == cursors[id]
             d == cursors'[id]
             e == Closed[id]
  <2>1. id \in Ids /\ Serves(id)
    BY <1>1, <1>8 DEF Answers
  <2>2. /\ s.cursor \in {0, id}
        /\ s.cursor = id => e = c
        /\ s.cursor = 0 => e = Free /\ req.parse /\ ~s.child
    BY <2>1, ServesFacts
  <2>3. s.cursor = 0 => op[mu] # "fetch"
    BY <1>5, <2>2
  <2>4. e \in ServerCursor /\ e.ran \in BOOLEAN /\ e.defined \in BOOLEAN /\ e.left \in 0 .. Rows
    BY <1>3, <2>1 DEF ServerCursor
  <2>5. (e.ran <=> s.cursor = id /\ c.ran) /\ (e.defined <=> s.cursor = id /\ c.defined)
    BY <1>8, <2>2 DEF Free
  <2>6. (e.ran => e.left = c.left) /\ (~done => ~(done /\ req.exec))
    BY <2>2 DEF Free
  <2>7. /\ resp'.rows \in Nat /\ d.left \in Nat
    <3>1. resp' \in Responses /\ cursors' \in [Ids -> ServerCursor]
      BY <1>1 DEF Answers
    <3>2. d \in ServerCursor
      BY <2>1, <3>1
    <3> QED BY <3>1, <3>2 DEF Responses, ServerCursor
  <2>8. /\ d.ran <=> e.ran \/ (done /\ req.exec)
        /\ d.defined <=> e.defined \/ (done /\ req.define)
        /\ d.ran => resp'.rows + d.left = IF done /\ req.exec THEN Rows ELSE e.left
    <3> HIDE DEF c, e
    <3>1. CASE FailsWith(id)
      <4>1. ~done /\ resp'.rows = 0 /\ d.ran = e.ran /\ d.defined = e.defined /\ d.left = e.left
        BY <3>1 DEF FailsWith, Same, e
      <4> HIDE DEF d, done
      <4> QED BY ONLY <2>4, <4>1
    <3>2. CASE AnswersWith(id)
      <4>1. /\ done /\ (d.ran <=> e.ran \/ req.exec) /\ (d.defined <=> e.defined \/ req.define)
            /\ resp'.rows = Served(id) /\ d.left = Before(id) - Served(id)
        BY <3>2 DEF AnswersWith, e
      <4>2. Before(id) = IF req.exec THEN Rows ELSE e.left
        BY DEF Before, e
      <4>3. Before(id) \in Nat
        BY <2>4, <4>2
      <4> HIDE DEF d, done
      <4> QED BY ONLY <2>7, <4>1, <4>2, <4>3
    <3>3. CASE ReturnsWith(id, rs)
      <4>1. /\ done /\ req.exec /\ resp'.rows = 0 /\ d.ran /\ d.left = Rows
            /\ d.defined <=> e.defined \/ req.define
        BY <3>3 DEF ReturnsWith, e
      <4> HIDE DEF d, done
      <4> QED BY ONLY <4>1, StatementsAssumption
    <3> QED BY <1>1, <1>8, <3>1, <3>2, <3>3
  <2> HIDE DEF c, d, e
  <2> QED BY ONLY <1>5, <2>2, <2>3, <2>5, <2>6, <2>8 DEF done, c, d
<1> QED BY <1>2, <1>3, <1>4, <1>6, <1>7, <1>8 DEF Replied

---------------------------------------------------------------------------
(* Readers get every row once.                                             *)

\* The rows a reader has got, those on their way to it and those its cursor
\* has left are all there are.
Counted(o) ==
  LET s == stm[o]
  IN  o \in readers[s.user] =>
        IF s.more THEN Ran(s) => s.rows + cursors[s.cursor].left + Coming(o) = Rows
                  ELSE s.rows = Rows

\* A statement that is prepared has given no rows yet, and if its columns have
\* to be defined its cursor has all of them.
Fresh(o) ==
  LET s == stm[o]
  IN  o = prepared[s.user] /\ ~s.closed =>
        s.rows = 0 /\ (HasLobs(s) /\ Ran(s) => cursors[s.cursor].left = Rows)

\* The same of the response to an execution.
Sums ==
  resp # <<>> /\ At = "wait" =>
    LET s == stm[obj[mu]]
        c == cursors[resp.cursor]
    IN  /\ resp.type \in {"ok", "nodata"} /\ IsQuery(s) /\ op[mu] \in {"query", "update"} /\ c.ran =>
             resp.rows + c.left = Rows
        /\ HasLobs(s) /\ op[mu] # "fetch" /\ resp.cursor # 0 /\ c.ran => c.left = Rows

RowsInv == Sums /\ \A o \in DOMAIN stm : Counted(o) /\ Fresh(o)

\* The invariant of the rows is kept by what stays ...
LEMMA RowsStay ==
  ASSUME NEW o, Stays(o), Counted(o), Fresh(o)
  PROVE  Counted(o)' /\ Fresh(o)'
<1>1. Counted(o)'
  BY DEF Stays, Counted, Ran
<1>2. Fresh(o)'
  BY DEF Stays, Fresh, Ran, HasLobs
<1> QED BY <1>1, <1>2

\* ... by steady steps ...
LEMMA RowsSteady ==
  ASSUME Base, RowsInv, Steady
  PROVE  \A o \in DOMAIN stm' : Counted(o)' /\ Fresh(o)'
<1> SUFFICES ASSUME NEW o \in DOMAIN stm' PROVE Counted(o)' /\ Fresh(o)'
  OBVIOUS
<1>1. CASE Gone(o)'
  BY <1>1 DEF Gone, Counted, Fresh
<1>2. CASE Plain(o)'
  BY <1>2 DEF Plain, Counted, Fresh, Ran
<1>3. CASE o \in DOMAIN stm /\ Stays(o)
  BY <1>3, RowsStay DEF RowsInv
<1> QED BY <1>1, <1>2, <1>3 DEF Steady

\* ... by the server, which sends what it no longer has left ...
LEMMA RowsServer ==
  ASSUME Inv, Trip, Trip', RowsInv, ServerStep, ~LobRows
  PROVE  RowsInv'
<1>1. Base /\ CursorInv /\ Told'
  BY DEF Inv, Trip
<1>2. PICK id \in 0 .. MaxCursors : Replied(id)
  BY <1>1, ServerReplies
<1> PICK u \in Users : u = mu
  BY <1>2 DEF Replied
<1> PICK o \in DOMAIN stm : o = obj[u]
  BY <1>2 DEF Replied
<1> DEFINE s == stm[o]
           c == cursors[id]
           d == cursors'[id]
           done == resp'.type \in {"ok", "nodata"}
           exec == done /\ op[u] \in {"query", "update"} /\ ~s.define
<1>3. /\ At = "wait" /\ At' = "wait" /\ resp = <<>> /\ resp' # <<>> /\ resp'.cursor = id
      /\ UNCHANGED <<mu, stm, pc, op, obj, second, prepared, readers>> /\ pc[u] = "wait"
      /\ \A p \in DOMAIN stm : p # o => Stays(p)
      /\ id = 0 => Stays(o) /\ ~done
      /\ id # 0 =>
           /\ s.cursor \in {0, id} /\ (s.cursor = 0 => op[u] # "fetch")
           /\ d.ran <=> (s.cursor = id /\ c.ran) \/ exec
           /\ d.ran => resp'.rows + d.left = IF exec THEN Rows ELSE c.left
  BY <1>2 DEF Replied
<1>4. /\ Counted(o) /\ Fresh(o) /\ s \in Statement /\ s.user = u /\ ~s.closed /\ Shaped(o)
      /\ IF op[u] = "fetch" THEN o \in readers[u] /\ s.more /\ o # prepared[u]
                            ELSE o = prepared[u] /\ o \notin readers[u]
  <2>1. /\ s.user = u /\ ~s.closed /\ o # 0
    BY <1>1, <1>3, Working
  <2> QED BY <1>1, <1>3, <2>1, Parts DEF RowsInv, Base, Shapes, Possession, Owns
<1>5. /\ resp'.rows \in Nat /\ s.rows \in Nat /\ s.define \in BOOLEAN
      /\ id # 0 => id \in Ids /\ c.left \in Nat /\ d.left \in Nat
  <2>1. Base'
    BY ServerInv DEF Inv
  <2>2. resp'.rows \in Nat
    <3>1. resp' \in Responses
      BY <1>3, <2>1 DEF Base, Typed
    <3> QED BY <3>1 DEF Responses
  <2>3. s.rows \in Nat /\ s.define \in BOOLEAN
    BY <1>4, Fields
  <2>4. ASSUME id # 0 PROVE id \in Ids /\ c.left \in Nat /\ d.left \in Nat
    <3>1. id \in Ids
      BY <2>4 DEF Ids
    <3>2. cursors \in [Ids -> ServerCursor]
      BY <1>1 DEF Base, Typed, TypeOK, ServerCursor
    <3>3. cursors' \in [Ids -> [owner: 0 .. Len(stm'), ran: BOOLEAN, defined: BOOLEAN, left: 0 .. Rows]]
      BY <2>1 DEF Base, Typed, TypeOK
    <3>4. c \in ServerCursor /\ d \in [owner: 0 .. Len(stm'), ran: BOOLEAN, defined: BOOLEAN, left: 0 .. Rows]
      BY ONLY <3>1, <3>2, <3>3
    <3> QED BY ONLY <3>1, <3>4, StatementsAssumption DEF ServerCursor
  <2> QED BY <2>2, <2>3, <2>4
<1>6. HasLobs(s) /\ op[u] # "fetch" => resp'.rows = 0
  <2>1. resp'.rows > 0 => (HasLobs(s) => op[u] = "fetch")
    BY <1>1, <1>3 DEF Told, HasLobs
  <2> QED BY <1>5, <2>1
<1>7. s.define => HasLobs(s)
  BY <1>4 DEF Shaped
<1>8. CASE id = 0
  <2>1. Sums'
    BY <1>3, <1>8 DEF Sums
  <2>2. \A p \in DOMAIN stm : Stays(p)
    BY <1>3, <1>8
  <2>3. \A p \in DOMAIN stm : Counted(p)' /\ Fresh(p)'
    BY <2>2, RowsStay DEF RowsInv
  <2> QED BY <1>3, <2>1, <2>3 DEF RowsInv
<1>9. CASE id # 0
  <2> HIDE DEF c, d, s
  <2>1. HasLobs(s) /\ op[u] # "fetch" /\ d.ran => d.left = Rows
    <3> SUFFICES ASSUME HasLobs(s), op[u] # "fetch", d.ran PROVE d.left = Rows
      OBVIOUS
    <3>1. d.left = IF exec THEN Rows ELSE c.left
      BY <1>3, <1>5, <1>6, <1>9
    <3>2. ~exec => c.left = Rows
      BY <1>3, <1>4, <1>9 DEF Fresh, Ran, s, c
    <3> QED BY <3>1, <3>2
  <2>2. done /\ IsQuery(s) /\ op[u] \in {"query", "update"} /\ d.ran => resp'.rows + d.left = Rows
    <3> SUFFICES ASSUME done, op[u] \in {"query", "update"}, d.ran PROVE resp'.rows + d.left = Rows
      OBVIOUS
    <3>1. CASE exec
      BY <1>3, <1>9, <3>1
    <3>2. CASE ~exec
      <4>1. HasLobs(s) /\ op[u] # "fetch"
        BY <1>5, <1>7, <3>2
      <4>2. d.left = Rows /\ resp'.rows = 0
        BY <1>6, <2>1, <4>1
      <4> QED BY <4>2, StatementsAssumption
    <3> QED BY <3>1, <3>2
  <2>3. Sums'
    <3>1. (stm[obj[mu]])' = s /\ (op[mu])' = op[u] /\ (cursors[resp.cursor])' = d
      BY <1>3 DEF s, d
    <3> QED BY ONLY <2>1, <2>2, <3>1 DEF Sums, HasLobs, IsQuery, done
  <2>4. Counted(o)'
    <3> SUFFICES ASSUME o \in readers[u]
                 PROVE  s.more /\ (s.cursor # 0 /\ cursors'[s.cursor].ran =>
                                     s.rows + cursors'[s.cursor].left + resp'.rows = Rows)
      <4>1. stm' = stm /\ readers' = readers /\ s.user = u /\ Coming(o)' = resp'.rows
        BY <1>3, <1>4 DEF Coming
      <4> QED BY <4>1 DEF Counted, Ran, s
    <3>1. op[u] = "fetch" /\ s.more /\ s.cursor = id
      BY <1>3, <1>4, <1>9
    <3>2. d.ran => c.ran /\ resp'.rows + d.left = c.left
      BY <1>3, <1>9, <3>1
    <3>3. c.ran => s.rows + c.left + 0 = Rows
      <4>1. Coming(o) = 0
        BY <1>3 DEF Coming
      <4> QED BY <1>4, <1>9, <3>1, <4>1 DEF Counted, Ran, s, c
    <3>4. s.cursor = id /\ s.more /\ cursors'[s.cursor] = d
      BY <3>1 DEF d
    <3> QED BY ONLY <1>5, <1>9, <3>2, <3>3, <3>4, StatementsAssumption
  <2>5. Fresh(o)'
    <3>1. Fresh(o)' <=> (o = prepared[u] => s.rows = 0 /\ (HasLobs(s) /\ s.cursor # 0 /\ cursors'[s.cursor].ran
                                               => cursors'[s.cursor].left = Rows))
      <4>1. stm' = stm /\ prepared' = prepared /\ s.user = u /\ ~s.closed
        BY <1>3, <1>4 DEF s
      <4> QED BY <4>1 DEF Fresh, Ran, HasLobs, s
    <3>2. o = prepared[u] => op[u] # "fetch" /\ s.rows = 0
      BY <1>4 DEF Fresh, s
    <3>3. s.cursor # 0 => s.cursor = id
      BY <1>3, <1>9
    <3> QED BY <2>1, <3>1, <3>2, <3>3 DEF d
  <2>6. \A p \in DOMAIN stm : p # o => Counted(p)' /\ Fresh(p)'
    BY <1>3, RowsStay DEF RowsInv
  <2>7. DOMAIN stm' = DOMAIN stm
    BY <1>3
  <2> QED BY <2>3, <2>4, <2>5, <2>6, <2>7 DEF RowsInv
<1> QED BY <1>8, <1>9

\* What a response makes of the statement it answers.
Heeded(u, o) ==
  LET s == stm[o]
      t == stm'[o]
      done == resp.type \in {"ok", "nodata"}
      lobs == resp.describe /\ HasLobs(s)
  IN  /\ o = obj[u] /\ mu = u /\ At = "wait" /\ resp # <<>> /\ resp \in Responses /\ o \in DOMAIN stm
      /\ At' \in {"free", "write"} /\ op' = op /\ resp' = <<>>
      /\ s \in Statement /\ s.user = u /\ ~s.closed /\ t.user = u /\ t.child = s.child
      /\ IF op[u] = "fetch" THEN o \in readers[u] /\ s.more /\ o # prepared[u]
                            ELSE o = prepared[u] /\ o \notin readers[u] /\ ~s.child
      /\ IF done THEN resp.cursor \in Ids /\ t.cursor = resp.cursor ELSE resp.rows = 0
      /\ resp.type = "retry" => t.cursor = 0 /\ ~t.define
      /\ resp.type = "error" => t.cursor = 0 /\ (t.define => s.define /\ s.cursor = 0)
      /\ resp.type = "integrity" => ~IsQuery(s) /\ ~t.define
      /\ done => (t.define <=> (s.define \/ lobs) /\ resp.type # "nodata"
                               /\ ~(IsQuery(s) /\ op[u] # "schema" /\ resp.rows > 0))
      /\ t.define => Heard(u).define
      /\ Heard(u).define => HasLobs(s) /\ t.define
      /\ t.more <=> s.more /\ resp.type # "nodata"
      /\ LobRows \/ t.rows = s.rows + (IF Delivers(u) THEN resp.rows ELSE 0)
      /\ op[u] = "fetch" => ~resp.describe
      /\ s.child => (t.noPrefetch => s.noPrefetch) /\ (resp.rows > 0 => ~s.noPrefetch)

\* What matters of a response processed.
LEMMA HeededFacts ==
  ASSUME Base, CursorInv, Trip, NEW u \in Users, NEW o, Handled(u, o)
  PROVE  Heeded(u, o)
<1> DEFINE s == stm[o]
           t == stm'[o]
           h == Heard(u)
           done == resp.type \in {"ok", "nodata"}
           lobs == resp.describe /\ HasLobs(s)
<1>1. /\ o = obj[u] /\ mu = u /\ pc[u] = "wait" /\ At = "wait" /\ resp # <<>> /\ resp \in Responses /\ o \in DOMAIN stm
      /\ At' \in {"free", "write"} /\ op' = op /\ resp' = <<>>
      /\ t.user = s.user /\ t.child = s.child /\ t.cursor = h.cursor /\ t.define = h.define
      /\ t.more = h.more /\ t.rows = h.rows /\ t.noPrefetch = h.noPrefetch
  BY DEF Handled, Processed
<1>2. s \in Statement /\ s.user = u /\ ~s.closed /\ Shaped(o) /\ o # 0 /\ Owns(u)
  BY <1>1, Working, Parts DEF Base, Shapes, Possession
<1>3. IF op[u] = "fetch" THEN o \in readers[u] /\ s.more /\ o # prepared[u]
                         ELSE o = prepared[u] /\ o \notin readers[u] /\ ~s.child
  BY <1>1, <1>2 DEF Owns
<1>4. /\ h.cursor = IF Clears(s) THEN 0 ELSE Known(s)
      /\ h.define <=> /\ s.define \/ lobs
                      /\ ~(IsQuery(s) /\ op[u] # "schema" /\ resp.rows > 0)
                      /\ resp.type # "nodata" /\ ~Clears(s)
      /\ h.noPrefetch => s.noPrefetch \/ lobs
      /\ h.more <=> s.more /\ resp.type # "nodata"
      /\ h.rows = s.rows + Given(u)
      /\ h \in Statement
  <2>1. stm[obj[u]] \in Statement /\ resp \in Responses
    BY <1>1, <1>2
  <2> HIDE DEF h
  <2>2. /\ h.cursor = IF Clears(stm[obj[u]]) THEN 0 ELSE Known(stm[obj[u]])
        /\ h.define <=> /\ stm[obj[u]].define \/ (resp.describe /\ HasLobs(stm[obj[u]]))
                        /\ ~(IsQuery(stm[obj[u]]) /\ op[u] # "schema" /\ resp.rows > 0)
                        /\ resp.type # "nodata" /\ ~Clears(stm[obj[u]])
        /\ h.noPrefetch => stm[obj[u]].noPrefetch \/ (resp.describe /\ HasLobs(stm[obj[u]]))
        /\ h.more <=> stm[obj[u]].more /\ resp.type # "nodata"
        /\ h.rows = stm[obj[u]].rows + Given(u)
        /\ h \in Statement
    BY ONLY <2>1, u \in Users, HeardFacts DEF h
  <2> QED BY ONLY <1>1, <2>2
<1>5. /\ resp.type \in {"ok", "nodata", "error", "integrity", "retry"} /\ resp.cursor \in 0 .. MaxCursors
      /\ resp.describe \in BOOLEAN /\ resp.rows \in Nat
      /\ s.define \in BOOLEAN /\ s.more \in BOOLEAN /\ s.rows \in Nat
  BY <1>1, <1>2, Fields DEF Responses
<1>6. /\ resp.rows > 0 => done /\ (HasLobs(s) => op[u] = "fetch" \/ LobRows)
      /\ resp.type = "integrity" => ~IsQuery(s)
      /\ resp.describe => op[u] # "fetch" /\ resp.cursor # 0
      /\ resp.rows > 0 /\ s.child => ~s.noPrefetch
  BY <1>1 DEF Trip, Told
<1>7. done => resp.cursor \in Ids
  BY <1>1, <1>5 DEF CursorInv, Answered, Ids
<1>8. s.define \/ lobs => HasLobs(s)
  BY <1>2 DEF Shaped
<1>9. /\ Clears(s) <=> resp.type = "retry" \/ (resp.type = "error" /\ Known(s) # 0)
      /\ Known(s) = IF resp.cursor # 0 THEN resp.cursor ELSE s.cursor
  BY DEF Clears, Known
<1>10. LobRows \/ Given(u) = IF Delivers(u) THEN resp.rows ELSE 0
  <2> SUFFICES ASSUME ~LobRows PROVE Given(u) = IF Delivers(u) THEN resp.rows ELSE 0
    OBVIOUS
  <2>1. CASE resp.rows = 0
    BY <2>1 DEF Given
  <2>2. CASE resp.rows > 0
    <3>1. ~lobs
      BY <1>6, <2>2
    <3>2. ~(resp.describe /\ s.define)
      <4>1. s.define => HasLobs(s)
        BY <1>2 DEF Shaped
      <4> QED BY <1>6, <2>2, <4>1
    <3>3. Described(stm[obj[u]]).define <=> s.define \/ lobs
      <4>1. stm[obj[u]] \in Statement /\ resp.describe \in BOOLEAN /\ stm[obj[u]] = s
        BY <1>1, <1>2, <1>5
      <4>2. Described(stm[obj[u]]).define <=> stm[obj[u]].define \/ (resp.describe /\ HasLobs(stm[obj[u]]))
        BY ONLY <4>1, DescribedOne
      <4> QED BY <4>1, <4>2
    <3> QED BY <3>1, <3>2, <3>3 DEF Given
  <2> QED BY <1>5, <2>1, <2>2
<1> HIDE DEF s, t, h, done, lobs
<1>11. IF done THEN resp.cursor \in Ids /\ t.cursor = resp.cursor ELSE resp.rows = 0
  <2>1. done => t.cursor = resp.cursor
    BY <1>1, <1>4, <1>7, <1>9 DEF done, Ids
  <2> QED BY <1>5, <1>6, <1>7, <2>1
<1>12. /\ resp.type = "retry" => t.cursor = 0 /\ ~t.define
       /\ resp.type = "error" => t.cursor = 0 /\ (t.define => s.define /\ s.cursor = 0)
       /\ resp.type = "integrity" => ~IsQuery(s) /\ ~t.define
  <2>1. resp.type = "retry" => t.cursor = 0 /\ ~t.define
    BY <1>1, <1>4, <1>9
  <2>2. resp.type = "error" => t.cursor = 0 /\ (t.define => s.define /\ s.cursor = 0)
    <3>1. CASE Known(s) = 0
      <4>1. resp.cursor = 0 /\ s.cursor = 0 /\ ~lobs
        BY <1>5, <1>6, <1>9, <3>1 DEF lobs
      <4> QED BY <1>1, <1>4, <1>9, <3>1, <4>1
    <3>2. CASE Known(s) # 0
      BY <1>1, <1>4, <1>9, <3>2
    <3> QED BY <3>1, <3>2
  <2>3. HasLobs(s) => IsQuery(s)
    BY StatementsAssumption DEF HasLobs, IsQuery
  <2> QED BY <1>1, <1>4, <1>6, <1>8, <2>1, <2>2, <2>3
<1>13. done => (t.define <=> (s.define \/ lobs) /\ resp.type # "nodata"
                               /\ ~(IsQuery(s) /\ op[u] # "schema" /\ resp.rows > 0))
  <2>1. done => ~Clears(s)
    BY <1>9 DEF done
  <2> QED BY <1>1, <1>4, <2>1
<1>14. (t.define => h.define) /\ (h.define => HasLobs(s) /\ t.define)
  BY <1>1, <1>4, <1>8
<1>15. t.more <=> s.more /\ resp.type # "nodata"
  BY <1>1, <1>4
<1>16. LobRows \/ t.rows = s.rows + (IF Delivers(u) THEN resp.rows ELSE 0)
  BY <1>1, <1>4, <1>10
<1>17. t.user = u /\ t.child = s.child
  BY <1>1, <1>2
<1>18. op[u] = "fetch" => ~resp.describe
  BY <1>6
<1>19. s.child => (t.noPrefetch => s.noPrefetch) /\ (resp.rows > 0 => ~s.noPrefetch)
  BY <1>1, <1>3, <1>4, <1>6, <1>18 DEF lobs
<1> QED BY ONLY <1>1, <1>2, <1>3, <1>11, <1>12, <1>13, <1>14, <1>15, <1>16, <1>17, <1>18, <1>19
        DEF Heeded, s, t, h, done, lobs

\* The statement that an implicit result becomes.
LEMMA HandledNew ==
  ASSUME Base, Trip, NEW u \in Users, NEW o, Handled(u, o), NEW n \in DOMAIN stm', n \notin DOMAIN stm
  PROVE  LET t == stm'[n]
         IN  /\ t.user = u /\ t.child /\ t.more /\ t.rows = 0 /\ n # prepared'[u]
             /\ t.cursor # 0 /\ cursors'[t.cursor].ran /\ cursors'[t.cursor].left = Rows
<1> DEFINE id == resp.results[1]
<1>1. /\ Processed(u) /\ Told
      /\ \A c \in Ids : cursors'[c].ran = cursors[c].ran /\ cursors'[c].left = cursors[c].left
      /\ resp.results # <<>> => Len(stm) + 1 # prepared'[u]
  BY DEF Handled, Trip
<1>2. /\ At = "wait" /\ resp # <<>> /\ resp \in Responses
      /\ DOMAIN stm' = IF resp.results = <<>> THEN DOMAIN stm ELSE DOMAIN stm \cup {Len(stm) + 1}
  BY <1>1 DEF Processed
<1>3. resp.results # <<>> /\ n = Len(stm) + 1
  BY <1>2
<1>4. /\ stm'[n].user = u /\ stm'[n].child /\ stm'[n].cursor = id
      /\ stm'[n].more /\ stm'[n].rows = 0
  BY <1>1, <1>3 DEF Processed
<1>5. 1 \in DOMAIN resp.results /\ id \in Ids /\ id # 0
  <2>1. resp.results \in Seq(Ids)
    BY <1>2 DEF Responses
  <2>2. 1 \in DOMAIN resp.results
    BY <1>3, <2>1, EmptySeq, LenProperties
  <2> QED BY <2>1, <2>2, ElementOfSeq DEF Ids
<1>6. cursors[id].ran /\ cursors[id].left = Rows
  BY <1>1, <1>2, <1>5 DEF Told
<1> HIDE DEF id
<1> QED BY <1>1, <1>3, <1>4, <1>5, <1>6

\* ... by Process, which hands it to the reader ...
LEMMA RowsHandled ==
  ASSUME Inv, Trip, RowsInv, NEW u \in Users, NEW o \in DOMAIN stm, Handled(u, o), ~LobRows
  PROVE  RowsInv'
<1> DEFINE s == stm[o]
           t == stm'[o]
           id == resp.cursor
           c == cursors[id]
           done == resp.type \in {"ok", "nodata"}
<1>1. Base /\ CursorInv /\ Going /\ Told /\ Sums /\ Counted(o) /\ Fresh(o)
  BY DEF Inv, Trip, RowsInv
<1>2. Heeded(u, o)
  BY <1>1, HeededFacts
<1>3. /\ o = obj[u] /\ mu = u /\ At = "wait" /\ resp # <<>> /\ resp \in Responses /\ resp' = <<>>
      /\ s \in Statement /\ s.user = u /\ t.user = u /\ t.child = s.child
      /\ IF op[u] = "fetch" THEN o \in readers[u] /\ s.more /\ o # prepared[u]
                            ELSE o = prepared[u] /\ o \notin readers[u] /\ ~s.child
      /\ IF done THEN id \in Ids /\ t.cursor = id ELSE resp.rows = 0
      /\ resp.type = "retry" => t.cursor = 0
      /\ resp.type = "error" => t.cursor = 0
      /\ resp.type = "integrity" => ~IsQuery(s)
      /\ Heard(u).define => HasLobs(s)
      /\ t.more <=> s.more /\ resp.type # "nodata"
      /\ t.rows = s.rows + (IF Delivers(u) THEN resp.rows ELSE 0)
  BY <1>2 DEF Heeded
<1>4. Sums'
  BY <1>3 DEF Sums
<1>5. \A p : Coming(p)' = 0
  BY <1>3 DEF Coming
<1>6. \A p \in DOMAIN stm : p # o => Counted(p)' /\ Fresh(p)'
  BY RowsStay DEF RowsInv, Handled
<1>7. ASSUME NEW n \in DOMAIN stm', n \notin DOMAIN stm PROVE Counted(n)' /\ Fresh(n)'
  <2>1. /\ stm'[n].user = u /\ stm'[n].more /\ stm'[n].rows = 0 /\ n # prepared'[u]
        /\ cursors'[stm'[n].cursor].left = Rows
    BY <1>1, <1>3, <1>7, HandledNew
  <2>2. Counted(n)'
    BY <1>5, <2>1, StatementsAssumption DEF Counted
  <2>3. Fresh(n)'
    BY <2>1 DEF Fresh
  <2> QED BY <2>2, <2>3
<1>8. /\ resp.rows \in Nat /\ s.rows \in Nat /\ s.more \in BOOLEAN /\ (HasLobs(s) => IsQuery(s))
      /\ resp.type \in {"ok", "nodata", "error", "integrity", "retry"}
      /\ id # 0 => c.left \in Nat /\ id \in Ids
      /\ op[u] \in {"query", "update", "schema", "fetch"}
  <2>1. id \in 0 .. MaxCursors /\ (id # 0 => id \in Ids)
    BY <1>3 DEF Responses, Ids
  <2>2. cursors \in [Ids -> ServerCursor]
    BY <1>1 DEF Base, Typed, TypeOK, ServerCursor
  <2>3. id # 0 => c.left \in Nat
    BY <2>1, <2>2, StatementsAssumption DEF ServerCursor
  <2>4. HasLobs(s) => IsQuery(s)
    BY StatementsAssumption DEF HasLobs, IsQuery
  <2>5. op[u] \in {"query", "update", "schema", "fetch"}
    BY <1>1 DEF Base, Typed, TypeOK
  <2> QED BY <1>3, <2>1, <2>3, <2>4, <2>5, Fields DEF Responses
<1>9. /\ resp.rows > 0 => done /\ IsQuery(s) /\ op[u] # "schema" /\ (HasLobs(s) => op[u] = "fetch")
      /\ op[u] = "fetch" => id \in {0, s.cursor}
      /\ resp.type = "nodata" => c.ran /\ c.left = 0
      /\ IsQuery(s) /\ op[u] # "schema" => s.more
  BY <1>1, <1>3 DEF Told, Going
<1>10. /\ done /\ IsQuery(s) /\ op[u] \in {"query", "update"} /\ c.ran => resp.rows + c.left = Rows
       /\ HasLobs(s) /\ op[u] # "fetch" /\ id # 0 /\ c.ran => c.left = Rows
  BY <1>1, <1>3 DEF Sums
<1>11. \A i \in Ids : cursors'[i].ran = cursors[i].ran /\ cursors'[i].left = cursors[i].left
  BY DEF Handled
<1>12. /\ o \in readers[u] =>
            IF s.more THEN s.cursor # 0 /\ cursors[s.cursor].ran
                             => s.rows + cursors[s.cursor].left + resp.rows = Rows
                      ELSE s.rows = Rows
       /\ o = prepared[u] => s.rows = 0
  <2>1. Coming(o) = resp.rows /\ ~s.closed
    BY <1>2, <1>3 DEF Coming, Heeded
  <2> QED BY <1>1, <1>3, <2>1 DEF Counted, Fresh, Ran
<1>13. /\ 0 \notin Ids
  BY DEF Ids
<1>14. /\ Counted(o)' <=> (o \in readers'[u] =>
             IF t.more THEN t.cursor # 0 /\ cursors'[t.cursor].ran => t.rows + cursors'[t.cursor].left + 0 = Rows
                       ELSE t.rows = Rows)
       /\ Fresh(o)' <=> (o = prepared'[u] /\ ~t.closed =>
             t.rows = 0 /\ (HasLobs(t) /\ t.cursor # 0 /\ cursors'[t.cursor].ran => cursors'[t.cursor].left = Rows))
       /\ o = prepared[u] => (HasLobs(t) <=> HasLobs(s))
  <2>1. HasLobs(stm'[o]) <=> HasLobs(stm[o])'
    BY DEF HasLobs
  <2>2. o = prepared[u] => (HasLobs(t) <=> HasLobs(s))
    BY <1>3 DEF HasLobs
  <2> QED BY <1>3, <1>5, <2>1, <2>2 DEF Counted, Fresh, Ran
<1> HIDE DEF s, t, id, c, done
<1>15. \A i \in Ids : i = id => (cursors'[i].ran = c.ran /\ cursors'[i].left = c.left)
  BY <1>11 DEF c
<1>16. ASSUME Gone(o)' PROVE Counted(o)' /\ Fresh(o)'
  BY <1>3, <1>14, <1>16 DEF Gone, t
<1>17. ASSUME readers' = readers, prepared' = prepared,
              resp.type = "retry" \/ (done /\ HasLobs(s) /\ op[u] # "fetch")
       PROVE  Counted(o)' /\ Fresh(o)'
  <2>1. Counted(o)'
    BY ONLY <1>3, <1>8, <1>12, <1>14, <1>17, StatementsAssumption DEF done, Delivers
  <2>2. Fresh(o)'
    <3>1. ASSUME o = prepared[u]
          PROVE  t.rows = 0 /\ (HasLobs(s) /\ t.cursor # 0 /\ cursors'[t.cursor].ran => cursors'[t.cursor].left = Rows)
      <4>1. op[u] # "fetch" /\ s.rows = 0 /\ (done => t.cursor = id /\ id \in Ids /\ id # 0)
        BY ONLY <1>3, <1>12, <1>13, <3>1
      <4>2. resp.rows = 0
        BY ONLY <1>3, <1>8, <1>9, <1>17, <4>1 DEF done
      <4>3. t.rows = 0
        BY ONLY <1>3, <4>1, <4>2
      <4>4. HasLobs(s) /\ done /\ c.ran => c.left = Rows
        BY ONLY <1>10, <4>1
      <4> QED BY ONLY <1>3, <1>15, <1>17, <4>1, <4>3, <4>4
    <3> QED BY ONLY <1>14, <1>17, <3>1
  <2> QED BY ONLY <2>1, <2>2
<1>18. ASSUME resp.type \in {"error", "integrity"}, o \notin readers'[u], o = prepared'[u] => o = prepared[u]
       PROVE  Counted(o)' /\ Fresh(o)'
  <2>1. resp.rows = 0 /\ ~done
    BY ONLY <1>3, <1>18 DEF done
  <2>2. t.rows = s.rows
    BY ONLY <1>3, <1>8, <2>1
  <2>3. HasLobs(s) => t.cursor = 0
    BY ONLY <1>3, <1>8, <1>18
  <2> QED BY ONLY <1>12, <1>14, <1>18, <2>2, <2>3
<1>19. ASSUME done, o \in readers'[u] => op[u] = "fetch" \/ (op[u] = "query" /\ IsQuery(s)),
              o = prepared'[u] => o = prepared[u] /\ ~(IsQuery(s) /\ op[u] \in {"query", "update"})
       PROVE  Counted(o)' /\ Fresh(o)'
  <2>1. Counted(o)'
    <3>1. ASSUME op[u] = "fetch"
          PROVE  IF t.more THEN t.cursor # 0 /\ cursors'[t.cursor].ran => t.rows + cursors'[t.cursor].left + 0 = Rows
                           ELSE t.rows = Rows
      <4>1. id = s.cursor /\ t.cursor = id /\ id \in Ids /\ id # 0 /\ o \in readers[u] /\ s.more
        BY ONLY <1>3, <1>9, <1>13, <1>19, <3>1
      <4>2. c = cursors[s.cursor] /\ cursors'[t.cursor].ran = c.ran /\ cursors'[t.cursor].left = c.left
        BY ONLY <1>15, <4>1 DEF c, id
      <4>3. c.ran => s.rows + c.left + resp.rows = Rows
        BY ONLY <1>12, <4>1, <4>2
      <4>4. t.rows = s.rows + resp.rows
        BY ONLY <1>3, <3>1 DEF Delivers
      <4>5. ~t.more => c.ran /\ c.left = 0
        BY ONLY <1>3, <1>9, <4>1
      <4>6. c.left \in Nat
        BY ONLY <1>8, <4>1
      <4> QED BY ONLY <1>8, <4>2, <4>3, <4>4, <4>5, <4>6, StatementsAssumption
    <3>2. ASSUME op[u] = "query", IsQuery(s)
          PROVE  IF t.more THEN t.cursor # 0 /\ cursors'[t.cursor].ran => t.rows + cursors'[t.cursor].left + 0 = Rows
                           ELSE t.rows = Rows
      <4>1. t.cursor = id /\ id \in Ids /\ id # 0 /\ o = prepared[u] /\ s.more
        BY ONLY <1>3, <1>9, <1>13, <1>19, <3>2
      <4>2. cursors'[t.cursor].ran = c.ran /\ cursors'[t.cursor].left = c.left
        BY ONLY <1>15, <4>1
      <4>3. c.ran => resp.rows + c.left = Rows
        BY ONLY <1>10, <1>19, <3>2
      <4>4. t.rows = s.rows + resp.rows /\ s.rows = 0
        BY ONLY <1>3, <1>12, <3>2, <4>1 DEF Delivers
      <4>5. ~t.more => c.ran /\ c.left = 0
        BY ONLY <1>3, <1>9, <4>1
      <4>6. c.left \in Nat
        BY ONLY <1>8, <4>1
      <4> QED BY ONLY <1>8, <4>2, <4>3, <4>4, <4>5, <4>6, StatementsAssumption
    <3> QED BY ONLY <1>14, <1>19, <3>1, <3>2
  <2>2. Fresh(o)'
    <3>1. ASSUME o = prepared'[u]
          PROVE  t.rows = 0 /\ (HasLobs(s) /\ t.cursor # 0 /\ cursors'[t.cursor].ran => cursors'[t.cursor].left = Rows)
      <4>1. op[u] # "fetch" /\ o = prepared[u] /\ t.cursor = id /\ id \in Ids /\ id # 0 /\ s.rows = 0
        BY ONLY <1>3, <1>12, <1>13, <1>19, <3>1
      <4>2. resp.rows = 0
        BY ONLY <1>8, <1>9, <1>19, <3>1, <4>1
      <4>3. t.rows = 0
        BY ONLY <1>3, <4>1, <4>2
      <4>4. HasLobs(s) /\ c.ran => c.left = Rows
        BY ONLY <1>10, <4>1
      <4> QED BY ONLY <1>15, <4>1, <4>3, <4>4
    <3> QED BY ONLY <1>14, <1>19, <3>1
  <2> QED BY ONLY <2>1, <2>2
<1>20. Counted(o)' /\ Fresh(o)'
  <2>1. Outcome(u, o)
    BY DEF Handled
  <2>2. CASE readers' = readers /\ prepared' = prepared /\ done /\ Heard(u).define
    BY ONLY <1>3, <1>17, <1>19, <2>2
  <2> QED BY ONLY <1>3, <1>16, <1>17, <1>18, <1>19, <2>1, <2>2 DEF Outcome, done, s
<1> QED BY <1>4, <1>6, <1>7, <1>20 DEF RowsInv

\* ... and so by every step.
LEMMA RowsNext ==
  ASSUME Inv, Trip, RowsInv, [Next]_vars, ~LobRows
  PROVE  RowsInv'
<1>1. Base /\ Steps /\ Trip'
  BY NextSteps DEF Inv
<1>2. ASSUME Steady, Sums' PROVE RowsInv'
  BY <1>1, <1>2, RowsSteady DEF RowsInv
<1>3. CASE Steady /\ Rests
  <2>1. Sums'
    BY <1>3 DEF Rests, RowsInv, Sums, IsQuery, HasLobs
  <2> QED BY <1>2, <1>3, <2>1
<1>4. CASE Ends /\ (Steady \/ (LobRows /\ "abort" \in Faults))
  BY <1>2, <1>4 DEF Ends, Sums
<1>5. CASE Steady /\ \E u \in Users : Goes(u) \/ Sends(u)
  BY <1>2, <1>5 DEF Goes, Sends, Sums
<1>6. CASE ServerStep
  BY <1>1, <1>6, RowsServer
<1>7. ASSUME NEW u \in Users, NEW o \in DOMAIN stm, Handled(u, o) PROVE RowsInv'
  BY <1>7, RowsHandled
<1> QED BY <1>1, <1>3, <1>4, <1>5, <1>6, <1>7 DEF Steps, Calm

\* A reader that has come to its end has had every row, once, if the server
\* sends no rows of locators before their columns are defined: those that come
\* with a description are dropped, and not asked for again.
THEOREM ReadersGetEveryRowOnce ==
  ASSUME ~LobRows
  PROVE  Spec => []EveryRowOnce
<1>1. Init => Inv /\ Trip /\ RowsInv
  BY InitInv, InitTrip DEF Init, RowsInv, Sums
<1>2. Inv /\ Trip /\ RowsInv /\ [Next]_vars => (Inv /\ Trip /\ RowsInv)'
  BY NextInv, NextSteps, RowsNext
<1>3. Inv /\ RowsInv => EveryRowOnce
  <2> SUFFICES ASSUME Inv, RowsInv, NEW u \in Users, NEW o \in readers[u], ~stm[o].more
               PROVE  stm[o].rows = Rows
    BY DEF EveryRowOnce
  <2>1. o \in DOMAIN stm /\ stm[o].user = u
    BY Parts DEF Inv, Base, Possession, Owns, Typed, TypeOK
  <2> QED BY <2>1 DEF RowsInv, Counted
<1> QED BY <1>1, <1>2, <1>3, PTL DEF Spec

---------------------------------------------------------------------------
(* Execute runs the statement.                                             *)

\* No cursor that has not been executed is asked for rows: clearCursor does not
\* drop the cursor of a reader's fetch, ExecuteSchema describes no columns that
\* need a define pass, and no such description is taken from an answer that is
\* then broken off.
Executes ==
  /\ "fetchRetry" \notin Faults
  /\ "schema" \in Ops => Lobs = {}
  /\ "abort" \in Faults => ~LobRows

\* A statement due for its define pass has been executed, and so has one that
\* is read; and so has one whose execution is answered.
RanGood(o) ==
  LET s == stm[o]
  IN  /\ ~s.closed /\ s.define => Ran(s)
      /\ o \in readers[s.user] /\ s.cursor # 0 => Ran(s)

RanTold ==
  resp # <<>> /\ At = "wait" /\ resp.type \in {"ok", "nodata"} /\ op[mu] \in {"query", "update"} =>
    cursors[resp.cursor].ran

RanInv == RanTold /\ \A o \in DOMAIN stm : RanGood(o)

\* The same for cursors executed, step by step.
LEMMA RanStay ==
  ASSUME NEW o, Stays(o), RanGood(o)
  PROVE  RanGood(o)'
BY DEF Stays, RanGood, Ran

LEMMA RanSteady ==
  ASSUME RanInv, Steady
  PROVE  \A o \in DOMAIN stm' : RanGood(o)'
<1> SUFFICES ASSUME NEW o \in DOMAIN stm' PROVE RanGood(o)'
  OBVIOUS
<1>1. CASE Gone(o)'
  BY <1>1 DEF Gone, RanGood
<1>2. CASE Plain(o)'
  BY <1>2 DEF Plain, RanGood
<1>3. CASE o \in DOMAIN stm /\ Stays(o)
  BY <1>3, RanStay DEF RanInv
<1> QED BY <1>1, <1>2, <1>3 DEF Steady

LEMMA RanServer ==
  ASSUME Base, CursorInv, RanInv, ServerStep
  PROVE  RanInv'
<1>1. PICK id \in 0 .. MaxCursors : Replied(id)
  BY ServerReplies
<1> PICK o \in DOMAIN stm : o = obj[mu]
  BY <1>1 DEF Replied
<1> DEFINE s == stm[o]
           done == resp'.type \in {"ok", "nodata"}
           exec == done /\ op[mu] \in {"query", "update"} /\ ~s.define
<1>2. /\ At' = "wait" /\ resp' # <<>> /\ resp'.cursor = id
      /\ UNCHANGED <<mu, stm, op, readers>> /\ mu \in Users /\ pc[mu] = "wait"
      /\ \A p \in DOMAIN stm : p # o => Stays(p)
      /\ id = 0 => Stays(o) /\ ~done
      /\ id # 0 =>
           /\ s.cursor \in {0, id}
           /\ cursors'[id].ran <=> (s.cursor = id /\ cursors[id].ran) \/ exec
  BY <1>1 DEF Replied
<1>3. ~s.closed /\ RanGood(o)
  BY <1>2, Working DEF RanInv
<1>4. RanTold'
  BY <1>2, <1>3 DEF RanTold, RanGood, Ran
<1>5. CASE id = 0
  BY <1>2, <1>4, <1>5, RanStay DEF RanInv
<1>6. CASE id # 0
  <2>1. RanGood(o)'
    BY <1>2, <1>3, <1>6 DEF RanGood, Ran
  <2> QED BY <1>2, <1>4, <2>1, RanStay DEF RanInv
<1> QED BY <1>5, <1>6

LEMMA RanHandled ==
  ASSUME Base, CursorInv, Trip, RanInv, NEW u \in Users, NEW o \in DOMAIN stm, Handled(u, o), Executes
  PROVE  RanInv'
<1> DEFINE s == stm[o]
           t == stm'[o]
           id == resp.cursor
           done == resp.type \in {"ok", "nodata"}
<1>1. Heeded(u, o) /\ Told /\ RanTold /\ RanGood(o) /\ Outcome(u, o)
  BY HeededFacts DEF Trip, RanInv, Handled
<1>2. /\ o = obj[u] /\ mu = u /\ At = "wait" /\ resp # <<>> /\ resp' = <<>>
      /\ ~s.closed /\ s.user = u /\ t.user = u /\ t.child = s.child
      /\ IF op[u] = "fetch" THEN o \in readers[u] ELSE o = prepared[u] /\ o \notin readers[u]
      /\ done => id \in Ids /\ t.cursor = id
      /\ resp.type = "retry" => t.cursor = 0 /\ ~t.define
      /\ resp.type = "error" => t.cursor = 0 /\ (t.define => s.define /\ s.cursor = 0)
      /\ resp.type = "integrity" => ~t.define
      /\ done => (t.define => s.define \/ (resp.describe /\ HasLobs(s)))
      /\ Heard(u).define => HasLobs(s) /\ t.define
      /\ t.define => Heard(u).define
  BY <1>1 DEF Heeded
<1>3. RanTold'
  BY <1>2 DEF RanTold
<1>4. \A i \in Ids : cursors'[i].ran = cursors[i].ran
  BY DEF Handled
<1>5. ASSUME NEW n \in DOMAIN stm', n \notin DOMAIN stm PROVE RanGood(n)'
  BY <1>5, HandledNew DEF RanGood, Ran
<1>6. 0 \notin Ids /\ resp.type \in {"ok", "nodata", "error", "integrity", "retry"} /\ (HasLobs(s) /\ ~s.child => Lobs # {})
      /\ op[u] \in {"query", "update", "schema", "fetch"} /\ (op[u] = "fetch" \/ op[u] \in Ops)
  <2>1. op[u] = "fetch" \/ op[u] \in Ops
    BY <1>2, Working DEF Base, Possession, Owns, Handled, Processed
  <2>2. op[u] \in {"query", "update", "schema", "fetch"}
    BY DEF Base, Typed, TypeOK
  <2> QED BY <1>2, <2>1, <2>2, ResponseTyped DEF Ids, HasLobs
<1>7. /\ s.define => s.cursor # 0 /\ cursors[s.cursor].ran
      /\ o \in readers[u] /\ s.cursor # 0 => cursors[s.cursor].ran
      /\ done /\ op[u] \in {"query", "update"} => cursors[id].ran
      /\ op[u] = "fetch" => id \in {0, s.cursor}
      /\ IF op[u] = "fetch" THEN ~resp.describe ELSE ~s.child
  BY <1>1, <1>2 DEF RanGood, RanTold, Told, Ran, Heeded
<1>8. RanGood(o)' <=> /\ ~t.closed /\ t.define => t.cursor # 0 /\ cursors'[t.cursor].ran
                      /\ o \in readers'[u] /\ t.cursor # 0 => cursors'[t.cursor].ran
  BY <1>2 DEF RanGood, Ran
<1> HIDE DEF s, t, id, done
<1>9. ASSUME done, op[u] = "fetch" \/ op[u] \in {"query", "update"}, op[u] = "fetch" => s.cursor # 0 
      PROVE  t.cursor # 0 /\ cursors'[t.cursor].ran
  <2>1. t.cursor = id /\ id \in Ids /\ id # 0
    BY <1>2, <1>6, <1>9
  <2>2. cursors[id].ran
    BY <1>2, <1>7, <1>9, <2>1
  <2> QED BY <1>4, <2>1, <2>2
<1>10. t.define => t.cursor # 0 /\ cursors'[t.cursor].ran
  <2> SUFFICES ASSUME t.define PROVE t.cursor # 0 /\ cursors'[t.cursor].ran
    OBVIOUS
  <2>1. done /\ HasLobs(s) /\ op[u] # "schema"
    BY <1>2, <1>6, <1>7 DEF Executes, done
  <2>2. op[u] = "fetch" => s.define
    BY <1>2, <1>6, <1>7, <2>1
  <2> QED BY <1>6, <1>7, <1>9, <2>1, <2>2
<1>11. CASE Gone(o)'
  <2>1. RanGood(o)'
    BY <1>11 DEF Gone, RanGood
  <2> QED BY <1>3, <1>5, <2>1, RanStay DEF RanInv, Handled
<1>12. ASSUME o \in readers'[u], t.cursor # 0, ~Gone(o)' PROVE cursors'[t.cursor].ran
  <2>1. CASE done /\ op[u] = "fetch"
    <3>1. s.cursor # 0
      BY <1>2, <1>6, <1>7, <2>1
    <3> QED BY <1>9, <2>1, <3>1
  <2>2. CASE done /\ op[u] = "query"
    BY <1>9, <2>2
  <2>3. done /\ op[u] \in {"fetch", "query"}
    BY <1>1, <1>2, <1>6, <1>12 DEF Outcome, done, s, t
  <2> QED BY <2>1, <2>2, <2>3
<1> QED BY <1>3, <1>5, <1>8, <1>10, <1>11, <1>12, RanStay DEF RanInv, Handled

LEMMA RanNext ==
  ASSUME Inv, Trip, RanInv, [Next]_vars, Executes
  PROVE  RanInv'
<1>1. Base /\ CursorInv /\ Steps
  BY NextSteps DEF Inv
<1>2. ASSUME Steady, RanTold' PROVE RanInv'
  BY <1>2, RanSteady DEF RanInv
<1>3. CASE Steady /\ Rests
  <2>1. RanTold'
    BY <1>3 DEF Rests, RanInv, RanTold
  <2> QED BY <1>2, <1>3, <2>1
<1>4. CASE Ends /\ (Steady \/ (LobRows /\ "abort" \in Faults))
  BY <1>2, <1>4 DEF Ends, RanTold, Executes
<1>5. CASE Steady /\ \E u \in Users : Goes(u) \/ Sends(u)
  BY <1>2, <1>5 DEF Goes, Sends, RanTold
<1>6. CASE ServerStep
  BY <1>1, <1>6, RanServer
<1>7. ASSUME NEW u \in Users, NEW o \in DOMAIN stm, Handled(u, o) PROVE RanInv'
  BY <1>1, <1>7, RanHandled
<1> QED BY <1>1, <1>3, <1>4, <1>5, <1>6, <1>7 DEF Steps, Calm

\* What is asked for without execution has been executed.
LEMMA RanRequests ==
  ASSUME Inv, FetchesKnow, RanInv
  PROVE  ExecuteRuns
<1> SUFFICES ASSUME req # <<>>, ~req.exec, req.define \/ req.want > 0
             PROVE  req.cursor # 0 /\ cursors[req.cursor].ran
  BY DEF ExecuteRuns
<1> PICK o : o = obj[mu]
  OBVIOUS
<1>1. Base /\ CursorInv
  BY DEF Inv
<1>2. At = "wait" /\ mu \in Users /\ pc[mu] = "wait" /\ o \in DOMAIN stm /\ Asked(mu)
  BY <1>1, ClosedFacts
<1>3. /\ RanGood(o) /\ stm[o].user = mu /\ ~stm[o].closed
      /\ op[mu] \in {"query", "update", "schema", "fetch"}
      /\ op[mu] = "fetch" => o \in readers[mu] /\ stm[o].cursor # 0
  <2>1. op[mu] = "fetch" => o \in readers[mu] /\ stm[o].cursor # 0
    BY <1>1, <1>2 DEF FetchesKnow, Base, Possession, Owns
  <2>2. op[mu] \in {"query", "update", "schema", "fetch"}
    BY <1>1, <1>2 DEF Base, Typed, TypeOK
  <2> QED BY <1>1, <1>2, <2>1, <2>2, Working DEF RanInv
<1>4. req.cursor = stm[o].cursor /\ (stm[o].define \/ op[mu] = "fetch")
  BY <1>2, <1>3 DEF Asked
<1> QED BY <1>3, <1>4 DEF RanGood, Ran

\* "Execute runs the statement": columns are defined, and rows asked for, of an
\* executed cursor only, unless one of the three things happens that Executes
\* excludes.
THEOREM ColumnsOfExecutedCursors ==
  ASSUME Executes
  PROVE  Spec => []ExecuteRuns
<1>0. "fetchRetry" \notin Faults
  BY DEF Executes
<1>1. Init => Inv /\ Trip /\ FetchesKnow /\ RanInv
  BY InitInv, InitTrip DEF Init, FetchesKnow, At, RanInv, RanTold
<1>2. Inv /\ Trip /\ FetchesKnow /\ RanInv /\ [Next]_vars => (Inv /\ Trip /\ FetchesKnow /\ RanInv)'
  BY <1>0, NextInv, NextSteps, FetchesKnowNext, RanNext
<1>3. Inv /\ FetchesKnow /\ RanInv => ExecuteRuns
  BY RanRequests
<1> QED BY <1>1, <1>2, <1>3, PTL DEF Spec

---------------------------------------------------------------------------
(* Rows are of columns that are defined.                                   *)

\* No define pass is dropped, nor are there rows before it: no query is sent
\* again, with a new cursor, in its define pass.
DefinesFirst == ~LobRows /\ "retry" \notin Faults /\ "fetchRetry" \notin Faults

\* The cursor of a prepared query of LOB columns is defined or due for it, and
\* a reader of such columns has a cursor that is defined or no rows at all; a
\* child with such columns has no rows, as long as it is of use.
DefGood(o) ==
  LET s == stm[o]
      defined == s.cursor # 0 /\ cursors[s.cursor].defined
  IN  HasLobs(s) =>
        IF s.child THEN ~s.closed \/ o \in readers[s.user] => s.rows = 0
        ELSE /\ o = prepared[s.user] /\ ~s.closed /\ s.cursor # 0 => s.define \/ defined
             /\ o \in readers[s.user] => defined \/ (~s.more /\ s.rows = 0)

\* A define pass is one of a statement that needs it, and leaves it defined.
DefTold ==
  /\ At \in {"write", "wait"} /\ second => stm[obj[mu]].define
  /\ resp # <<>> /\ At = "wait" /\ resp.type \in {"ok", "nodata"} /\ op[mu] # "fetch" /\ stm[obj[mu]].define =>
       cursors[resp.cursor].defined

DefInv == DefTold /\ \A o \in DOMAIN stm : DefGood(o)

\* The same for columns defined.
LEMMA DefStay ==
  ASSUME NEW o, Stays(o), DefGood(o)
  PROVE  DefGood(o)'
BY DEF Stays, DefGood, HasLobs

LEMMA DefSteady ==
  ASSUME DefInv, Steady
  PROVE  \A o \in DOMAIN stm' : DefGood(o)'
<1> SUFFICES ASSUME NEW o \in DOMAIN stm' PROVE DefGood(o)'
  OBVIOUS
<1>1. CASE Gone(o)'
  BY <1>1 DEF Gone, DefGood
<1>2. CASE Plain(o)'
  BY <1>2 DEF Plain, DefGood, HasLobs
<1>3. CASE o \in DOMAIN stm /\ Stays(o)
  BY <1>3, DefStay DEF DefInv
<1> QED BY <1>1, <1>2, <1>3 DEF Steady

LEMMA DefServer ==
  ASSUME Base, CursorInv, DefInv, ServerStep
  PROVE  DefInv'
<1>1. PICK id \in 0 .. MaxCursors : Replied(id)
  BY ServerReplies
<1> PICK o \in DOMAIN stm : o = obj[mu]
  BY <1>1 DEF Replied
<1> DEFINE s == stm[o]
           done == resp'.type \in {"ok", "nodata"}
<1>2. /\ At = "wait" /\ At' = "wait" /\ resp' # <<>> /\ resp'.cursor = id
      /\ UNCHANGED <<mu, stm, op, obj, second, prepared, readers>>
      /\ \A p \in DOMAIN stm : p # o => Stays(p)
      /\ id = 0 => Stays(o) /\ ~done
      /\ id # 0 =>
           /\ s.cursor \in {0, id}
           /\ cursors'[id].defined <=> \/ s.cursor = id /\ cursors[id].defined
                                       \/ done /\ ~(op[mu] = "fetch" /\ ~s.child) /\ s.define
  BY <1>1 DEF Replied
<1>3. DefTold'
  BY <1>2 DEF DefInv, DefTold
<1>4. CASE id = 0
  BY <1>2, <1>3, <1>4, DefStay DEF DefInv
<1>5. CASE id # 0
  <2>1. DefGood(o)
    BY DEF DefInv
  <2>2. DefGood(o)'
    BY <1>2, <1>5, <2>1 DEF DefGood, HasLobs
  <2> QED BY <1>2, <1>3, <2>2, DefStay DEF DefInv
<1> QED BY <1>4, <1>5

LEMMA DefHandled ==
  ASSUME Base, CursorInv, Trip, RowsInv, DefInv, NEW u \in Users, NEW o \in DOMAIN stm, Handled(u, o), DefinesFirst
  PROVE  DefInv'
<1> DEFINE s == stm[o]
           t == stm'[o]
           id == resp.cursor
           done == resp.type \in {"ok", "nodata"}
           lobs == resp.describe /\ HasLobs(s)
<1>1. Heeded(u, o) /\ Told /\ Fresh(o) /\ DefTold /\ DefGood(o) /\ Outcome(u, o)
  BY HeededFacts DEF Trip, RowsInv, DefInv, Handled
<1>2. /\ o = obj[u] /\ mu = u /\ At = "wait" /\ resp # <<>> /\ resp' = <<>>
      /\ ~s.closed /\ s.user = u /\ t.user = u /\ t.child = s.child /\ op' = op
      /\ IF op[u] = "fetch" THEN o \in readers[u] /\ s.more ELSE o = prepared[u]
      /\ done => id \in Ids /\ t.cursor = id
      /\ resp.type = "error" => t.cursor = 0
      /\ resp.type = "integrity" => ~IsQuery(s)
      /\ done => (t.define <=> (s.define \/ lobs) /\ resp.type # "nodata"
                               /\ ~(IsQuery(s) /\ op[u] # "schema" /\ resp.rows > 0))
      /\ t.define => Heard(u).define
      /\ Heard(u).define => HasLobs(s) /\ t.define
      /\ t.more <=> s.more /\ resp.type # "nodata"
      /\ t.rows = s.rows + (IF Delivers(u) THEN resp.rows ELSE 0)
  BY <1>1 DEF Heeded, DefinesFirst
<1>3. DefTold'
  BY <1>1, <1>2 DEF DefTold, Told, Outcome, DefinesFirst
<1>4. \A i \in Ids : cursors'[i].defined = cursors[i].defined
  BY DEF Handled
<1>5. ASSUME NEW n \in DOMAIN stm', n \notin DOMAIN stm PROVE DefGood(n)'
  BY <1>5, HandledNew DEF DefGood, HasLobs
<1>6. /\ 0 \notin Ids /\ resp.rows \in Nat
      /\ resp.type \in {"ok", "nodata", "error", "integrity", "retry"}
      /\ HasLobs(s) => IsQuery(s)
  BY <1>2, ResponseTyped, StatementsAssumption DEF Ids, HasLobs, IsQuery
<1>7. /\ resp.describe <=> ~(op[u] = "fetch" /\ ~s.child) /\ (s.cursor = 0 \/ op[u] = "schema") /\ id # 0
      /\ resp.type # "retry"
      /\ op[u] = "fetch" => id \in {0, s.cursor}
      /\ resp.rows > 0 /\ HasLobs(s) => op[u] = "fetch"
      /\ resp.type = "nodata" => op[u] # "schema"
      /\ done /\ op[u] # "fetch" /\ s.define => cursors[id].defined
      /\ second => s.define
      /\ o = prepared[u] => s.rows = 0
  BY <1>1, <1>2 DEF Told, DefTold, DefinesFirst, Fresh
<1>8. id # 0 => s.cursor \in {0, id}
  BY <1>2 DEF CursorInv, Answered
<1>9. HasLobs(s) /\ ~s.child =>
        /\ o = prepared[u] /\ s.cursor # 0 => s.define \/ cursors[s.cursor].defined
        /\ o \in readers[u] /\ s.more => s.cursor # 0 /\ cursors[s.cursor].defined
  BY <1>1, <1>2 DEF DefGood
<1>10. ~s.child => (DefGood(o)' <=>
         (HasLobs(s) =>
           /\ o = prepared'[u] /\ ~t.closed /\ t.cursor # 0 => t.define \/ (t.cursor # 0 /\ cursors'[t.cursor].defined)
           /\ o \in readers'[u] => (t.cursor # 0 /\ cursors'[t.cursor].defined) \/ (~t.more /\ t.rows = 0)))
  BY <1>2 DEF DefGood, HasLobs
<1>11. \/ Gone(o)'
       \/ readers' = readers /\ Heard(u).define /\ (op[u] = "fetch" => s.child)
       \/ resp.type \in {"error", "integrity"} /\ o \notin readers'[u]
       \/ /\ done /\ ~(NeedsDefine(u, Heard(u)) /\ ~second)
          /\ o \in readers'[u] => op[u] = "fetch" \/ (op[u] = "query" /\ IsQuery(s))
          /\ o = prepared'[u] => o = prepared[u] /\ ~(IsQuery(s) /\ op[u] \in {"query", "update"})
  BY <1>1, <1>7 DEF Outcome
<1> HIDE DEF s, t, id, done, lobs
<1>12. ASSUME done, op[u] = "fetch" \/ s.define \/ ~lobs, HasLobs(s), ~s.child
       PROVE  t.cursor # 0 /\ cursors'[t.cursor].defined
  <2>1. t.cursor = id /\ id \in Ids /\ id # 0
    BY <1>2, <1>6, <1>12
  <2>2. cursors[id].defined
    <3>1. CASE op[u] = "fetch"
      BY <1>2, <1>7, <1>9, <1>12, <2>1, <3>1
    <3>2. CASE op[u] # "fetch" /\ s.define
      BY <1>7, <1>12, <3>2
    <3>3. CASE op[u] # "fetch" /\ ~s.define /\ ~lobs
      <4>1. s.cursor # 0 /\ s.cursor = id
        BY <1>7, <1>8, <1>12, <2>1, <3>3 DEF lobs
      <4> QED BY <1>2, <1>9, <1>12, <3>3, <4>1
    <3> QED BY <1>12, <3>1, <3>2, <3>3
  <2> QED BY <1>4, <2>1, <2>2
<1>13. ASSUME done, op[u] # "fetch", ~s.define, lobs, HasLobs(s)
       PROVE  resp.rows = 0 /\ (t.define <=> resp.type # "nodata") /\ t.rows = s.rows /\ s.rows = 0
  <2>1. resp.rows = 0
    BY <1>6, <1>7, <1>13
  <2>2. s.rows = 0
    BY <1>2, <1>7, <1>13
  <2> QED BY <1>2, <1>13, <2>1, <2>2
<1>14. ASSUME done, HasLobs(s), ~s.child, ~(NeedsDefine(u, Heard(u)) /\ ~second),
              o \in readers'[u] => op[u] = "fetch" \/ (op[u] = "query" /\ IsQuery(s)),
              o = prepared'[u] => o = prepared[u] /\ ~(IsQuery(s) /\ op[u] \in {"query", "update"})
       PROVE  /\ o = prepared'[u] => t.define \/ (t.cursor # 0 /\ cursors'[t.cursor].defined)
              /\ o \in readers'[u] => (t.cursor # 0 /\ cursors'[t.cursor].defined) \/ (~t.more /\ t.rows = 0)
  <2>1. CASE op[u] = "fetch" \/ s.define \/ ~lobs
    BY <1>12, <1>14, <2>1
  <2>2. CASE ~(op[u] = "fetch" \/ s.define \/ ~lobs)
    <3>1. (t.define <=> resp.type # "nodata") /\ t.rows = 0
      BY <1>13, <1>14, <2>2
    <3>2. o = prepared'[u] => t.define
      <4>1. op[u] \in {"query", "update", "schema", "fetch"}
        BY DEF Base, Typed, TypeOK
      <4> QED BY <1>6, <1>7, <1>14, <2>2, <3>1, <4>1
    <3>3. o \in readers'[u] => ~t.define
      BY <1>2, <1>7, <1>14, <2>2 DEF NeedsDefine
    <3> QED BY <1>2, <3>1, <3>2, <3>3
  <2> QED BY <2>1, <2>2
<1>15. ASSUME s.child PROVE DefGood(o)'
  <2>1. t.noPrefetch => s.noPrefetch /\ resp.rows = 0
    BY <1>1, <1>6, <1>15 DEF Heeded, s, t
  <2>2. s.noPrefetch => s.rows = 0
    BY <1>1, <1>2, <1>15 DEF DefGood, HasLobs, s
  <2>3. t.noPrefetch => t.rows = 0
    BY <1>2, <2>1, <2>2
  <2>4. t.child
    BY <1>2, <1>15
  <2> QED BY <2>3, <2>4 DEF DefGood, HasLobs, t
<1>16. ASSUME ~s.child PROVE DefGood(o)'
  <2>1. CASE Gone(o)'
    BY <1>2, <1>10, <1>16, <2>1 DEF Gone, t
  <2>2. CASE readers' = readers /\ Heard(u).define /\ (op[u] = "fetch" => s.child)
    <3>1. HasLobs(s) => o \notin readers[u] /\ t.define
      BY <1>1, <1>2, <1>6, <1>16, <2>2 DEF Heeded, s
    <3> QED BY <1>10, <1>16, <2>2, <3>1
  <2>3. CASE resp.type \in {"error", "integrity"} /\ o \notin readers'[u]
    BY <1>2, <1>6, <1>10, <1>16, <2>3
  <2>4. CASE /\ done /\ ~(NeedsDefine(u, Heard(u)) /\ ~second)
             /\ o \in readers'[u] => op[u] = "fetch" \/ (op[u] = "query" /\ IsQuery(s))
             /\ o = prepared'[u] => o = prepared[u] /\ ~(IsQuery(s) /\ op[u] \in {"query", "update"})
    BY <1>10, <1>14, <1>16, <2>4
  <2> QED BY <1>11, <2>1, <2>2, <2>3, <2>4
<1> QED BY <1>3, <1>5, <1>15, <1>16, DefStay DEF DefInv, Handled

LEMMA DefNext ==
  ASSUME Inv, Trip, RowsInv, DefInv, [Next]_vars, DefinesFirst
  PROVE  DefInv'
<1>1. Base /\ CursorInv /\ Steps
  BY NextSteps DEF Inv
<1>2. ASSUME Steady, DefTold' PROVE DefInv'
  BY <1>2, DefSteady DEF DefInv
<1>3. CASE Steady /\ Rests
  <2>1. DefTold'
    BY <1>3 DEF Rests, DefInv, DefTold
  <2> QED BY <1>2, <1>3, <2>1
<1>4. CASE Ends /\ (Steady \/ (LobRows /\ "abort" \in Faults))
  BY <1>2, <1>4 DEF Ends, DefTold, DefinesFirst
<1>5. ASSUME NEW u \in Users, Steady, Goes(u) \/ Sends(u) PROVE DefInv'
  <2>1. DefTold'
    BY <1>5 DEF Goes, Sends, DefInv, DefTold
  <2> QED BY <1>2, <1>5, <2>1
<1>6. CASE ServerStep
  BY <1>1, <1>6, DefServer
<1>7. ASSUME NEW u \in Users, NEW o \in DOMAIN stm, Handled(u, o) PROVE DefInv'
  BY <1>1, <1>7, DefHandled
<1> QED BY <1>1, <1>3, <1>4, <1>5, <1>6, <1>7 DEF Steps, Calm

\* "A define pass is required (LOB/JSON columns)": a reader is given no rows of
\* such a query before its columns are defined, unless the server sends them
\* unasked, or an error in the define pass has the query sent again.
THEOREM ReadersGetDefinedRows ==
  ASSUME DefinesFirst
  PROVE  Spec => []RowsAreDefined
<1>0. ~LobRows
  BY DEF DefinesFirst
<1>1. Init => Inv /\ Trip /\ RowsInv /\ DefInv
  BY InitInv, InitTrip DEF Init, RowsInv, Sums, DefInv, DefTold, At
<1>2. Inv /\ Trip /\ RowsInv /\ DefInv /\ [Next]_vars => (Inv /\ Trip /\ RowsInv /\ DefInv)'
  BY <1>0, NextInv, NextSteps, RowsNext, DefNext
<1>3. Inv /\ DefInv => RowsAreDefined
  <2> SUFFICES ASSUME Inv, DefInv, NEW u \in Users, NEW o \in readers[u], HasLobs(stm[o]), stm[o].rows > 0
               PROVE  cursors[stm[o].cursor].defined
    BY DEF RowsAreDefined
  <2>1. o \in DOMAIN stm /\ stm[o].user = u
    BY Parts DEF Inv, Base, Possession, Owns, Typed, TypeOK
  <2> QED BY <2>1 DEF DefInv, DefGood
<1> QED BY <1>1, <1>2, <1>3, PTL DEF Spec

---------------------------------------------------------------------------
(* No cursor is lost.                                                      *)

\* No request is dropped with the list of cursors to close in it, no answer is
\* broken off before it names the cursor, no prepared statement is overwritten,
\* and no block that ExecuteUpdate runs returns results.
NothingLost ==
  /\ "deferred" \notin Faults /\ "abort" \notin Faults /\ "drop" \notin Faults
  /\ "update" \in Ops => Blocks = {} \/ MaxResults = 0

\* Its user has statement o: prepared, in a reader, about to be closed, or as
\* an implicit result that stands in the way for ever.
Kin(o, v) ==
  pc[v] = "relock" /\
    (stm[obj[v]].implicit = o \/ (resp # <<>> /\ stm[o].cursor \in ToSet(resp.results)))

Held(o) ==
  LET v == stm[o].user
  IN  o = prepared[v] \/ o \in readers[v] \/ (pc[v] = "close" /\ obj[v] = o) \/ Kin(o, v)

\* A statement with a cursor is held, and if it is closed it is just about to
\* give the cursor back.
Lives(o) ==
  LET v == stm[o].user
  IN  /\ stm[o].cursor # 0 => Held(o)
      /\ stm[o].closed => stm[o].cursor = 0 \/ (pc[v] = "close" /\ obj[v] = o) \/ pc[v] = "relock"

\* An open cursor is a statement's, is to be closed, or has yet to be reported.
Traced(id) ==
  \/ \E o \in DOMAIN stm : stm[o].cursor = id
  \/ id \in ToSet(toClose) \cup InFlight
  \/ resp # <<>> /\ (id = resp.cursor \/ id \in ToSet(resp.results))

LeakInv == (\A o \in DOMAIN stm : Lives(o)) /\ (\A id \in Open : Traced(id))

\* What a step of user u leaves alone.
Aside(u) ==
  /\ \A v \in Users : v # u =>
       pc'[v] = pc[v] /\ obj'[v] = obj[v] /\ prepared'[v] = prepared[v] /\ readers'[v] = readers[v]
  /\ \A p \in DOMAIN stm :
       /\ stm'[p].user = stm[p].user
       /\ stm[p].user # u => stm'[p].cursor = stm[p].cursor /\ stm'[p].closed = stm[p].closed
  /\ mu \in {u, Nobody} \/ (resp' = resp /\ \A p \in DOMAIN stm : stm'[p].implicit = stm[p].implicit)

\* What others have is not affected by a step of u.
LEMMA LivesAside ==
  ASSUME Base, NEW u \in Users, Aside(u), NEW p \in DOMAIN stm, stm[p].user # u, Lives(p)
  PROVE  Lives(p)'
<1> PICK v : v = stm[p].user
  OBVIOUS
<1>1. v \in Users /\ v # u /\ v # Nobody
  BY Parts, Fields, StatementsAssumption DEF Base
<1>2. /\ stm'[p].user = v /\ stm'[p].cursor = stm[p].cursor /\ stm'[p].closed = stm[p].closed
      /\ pc'[v] = pc[v] /\ obj'[v] = obj[v] /\ prepared'[v] = prepared[v] /\ readers'[v] = readers[v]
  BY <1>1 DEF Aside
<1>3. pc[v] = "relock" => resp' = resp /\ stm'[obj[v]].implicit = stm[obj[v]].implicit
  <2> SUFFICES ASSUME pc[v] = "relock" PROVE resp' = resp /\ stm'[obj[v]].implicit = stm[obj[v]].implicit
    OBVIOUS
  <2>1. mu = v /\ obj[v] \in DOMAIN stm
    BY <1>1, Working
  <2> QED BY <1>1, <2>1 DEF Aside
<1>4. Kin(p, v)' <=> Kin(p, v)
  BY <1>2, <1>3 DEF Kin
<1> QED BY ONLY <1>2, <1>4, Lives(p), v = stm[p].user DEF Lives, Held

\* The statements of a user that is not closing one are prepared or read.
LEMMA Settled ==
  ASSUME NEW u, pc[u] \in {"idle", "lock", "write", "wait"}, NEW p, stm[p].user = u, Lives(p)
  PROVE  /\ stm[p].cursor # 0 => p = prepared[u] \/ p \in readers[u]
         /\ stm[p].closed => stm[p].cursor = 0
BY DEF Lives, Held, Kin

\* What u has after it has left an operation.
LEMMA LivesLeaves ==
  ASSUME Typed, NEW u \in Users, NEW s \in Seq(Statement), NEW c, Leaves(u, s, c),
         NEW p \in DOMAIN s, s[p].user = u,
         \/ p = c
         \/ /\ s[p].cursor # 0 => p = prepared'[u] \/ p \in readers'[u]
            /\ s[p].closed => s[p].cursor = 0
  PROVE  Lives(p)'
<1>1. /\ stm'[p].user = u /\ stm'[p].cursor = s[p].cursor
      /\ stm'[p].closed <=> s[p].closed \/ p = c
  BY DEF Leaves, Kept
<1>2. CASE c = 0
  <2>1. p # c
    BY <1>2, Domains
  <2> QED BY <1>1, <2>1 DEF Lives, Held
<1>3. CASE c # 0
  <2>1. pc'[u] = "close" /\ obj'[u] = c
    BY <1>3 DEF Leaves, Typed, TypeOK
  <2> QED BY <1>1, <2>1 DEF Lives, Held
<1> QED BY <1>2, <1>3

\* A step that leaves cursors, requests and responses alone.
LEMMA TracedStays ==
  ASSUME DOMAIN stm \subseteq DOMAIN stm', \A o \in DOMAIN stm : stm'[o].cursor = stm[o].cursor,
         UNCHANGED <<toClose, req, resp, cursors>>, \A id \in Open : Traced(id)
  PROVE  \A id \in Open' : Traced(id)'
BY DEF Open, Traced, InFlight

\* addCursorToClose adds the cursor, if there is one.
LEMMA AddedCursor ==
  ASSUME NEW list \in Seq(Ids), NEW id \in 0 .. MaxCursors
  PROVE  ToSet(AddCursor(list, id)) = ToSet(list) \cup ({id} \ {0})
<1>1. CASE id = 0
  BY <1>1 DEF AddCursor
<1>2. CASE id # 0
  <2>1. id \in Ids /\ AddCursor(list, id) = Append(list, id)
    BY <1>2 DEF AddCursor, Ids
  <2> DEFINE l == Append(list, id)
  <2>2. /\ Len(list) \in Nat /\ DOMAIN list = 1 .. Len(list) /\ DOMAIN l = 1 .. Len(list) + 1
        /\ \A i \in 1 .. Len(list) : l[i] = list[i]
        /\ l[Len(list) + 1] = id
    BY <2>1, AppendProperties, LenProperties
  <2> HIDE DEF l
  <2>3. \A x : x \in ToSet(l) <=> x \in ToSet(list) \/ x = id
    BY ONLY <2>2 DEF ToSet
  <2> QED BY <1>2, <2>1, <2>3 DEF l
<1> QED BY <1>1, <1>2

\* To leave an operation affects no other user.
LEMMA AsideLeaves ==
  ASSUME Typed, NEW u \in Users, NEW t \in Seq(Statement), NEW c, Leaves(u, t, c), DOMAIN stm \subseteq DOMAIN t,
         \A p \in DOMAIN stm :
           /\ t[p].user = stm[p].user
           /\ stm[p].user # u => t[p].cursor = stm[p].cursor /\ t[p].closed = stm[p].closed,
         c \in DOMAIN stm => stm[c].user = u,
         NEW r, readers' = [readers EXCEPT ![u] = r], NEW b, prepared' = [prepared EXCEPT ![u] = b],
         mu \in {u, Nobody} \/ (resp' = resp /\ \A p \in DOMAIN stm : stm'[p].implicit = stm[p].implicit)
  PROVE  Aside(u) /\ readers'[u] = r /\ prepared'[u] = b /\ DOMAIN stm' = DOMAIN t
<1>1. /\ readers'[u] = r /\ prepared'[u] = b
      /\ \A v \in Users : v # u =>
          pc'[v] = pc[v] /\ obj'[v] = obj[v] /\ prepared'[v] = prepared[v] /\ readers'[v] = readers[v]
  BY DEF Leaves, Typed, TypeOK
<1>2. DOMAIN stm' = DOMAIN t /\ stm' \in Seq(Statement)
  BY KeptCursors DEF Leaves, Kept
<1>3. \A p \in DOMAIN stm : t[p].closed \in BOOLEAN /\ stm'[p].closed \in BOOLEAN
  BY <1>2, Domains, Fields
<1>4. \A p \in DOMAIN stm :
        /\ stm'[p].user = stm[p].user
        /\ stm[p].user # u => stm'[p].cursor = stm[p].cursor /\ stm'[p].closed = stm[p].closed
  BY <1>3 DEF Leaves, Kept
<1> QED BY <1>1, <1>2, <1>4 DEF Aside

\* Between operations: whatever is given up is closed, or was.
LEMMA LeakIdle ==
  ASSUME Base, LeakInv, NEW u \in Users, NEW c, NEW r, NEW b, IdleLeft(u, c, r, b),
         \A o \in readers[u] : o \in r \/ stm[o].closed \/ o = c,
         prepared[u] = b \/ stm[prepared[u]].closed \/ prepared[u] = c
  PROVE  LeakInv'
<1>1. /\ pc[u] = "idle" /\ Leaves(u, stm, c) /\ Kept(stm, stm', c) /\ c \in Nat /\ (c # 0 => stm[c].user = u)
      /\ readers' = [readers EXCEPT ![u] = r] /\ prepared' = [prepared EXCEPT ![u] = b]
      /\ UNCHANGED <<mu, toClose, req, resp, cursors>>
  BY DEF IdleLeft, Leaves
<1>2. stm \in Seq(Statement) /\ \A p \in DOMAIN stm : p # 0
  BY Parts DEF Base
<1>3. Aside(u) /\ readers'[u] = r /\ prepared'[u] = b /\ Typed
  <2>1. \A p \in DOMAIN stm : stm'[p].implicit = stm[p].implicit
    BY <1>1 DEF Kept
  <2>2. c \in DOMAIN stm => stm[c].user = u
    BY <1>1, <1>2
  <2> QED BY <1>1, <1>2, <2>1, <2>2, AsideLeaves DEF Base
<1>4. DOMAIN stm' = DOMAIN stm /\ \A p \in DOMAIN stm : stm'[p].cursor = stm[p].cursor
  BY <1>1, <1>2, KeptCursors
<1>5. ASSUME NEW p \in DOMAIN stm PROVE Lives(p)'
  <2>1. CASE stm[p].user # u
    BY <1>3, <2>1, LivesAside DEF LeakInv
  <2>2. CASE stm[p].user = u
    <3>1. /\ stm[p].cursor # 0 => p = prepared[u] \/ p \in readers[u]
          /\ stm[p].closed => stm[p].cursor = 0
      BY <1>1, <2>2, Settled DEF LeakInv
    <3> QED BY <1>1, <1>2, <1>3, <2>2, <3>1, LivesLeaves
  <2> QED BY <2>1, <2>2
<1> QED BY <1>1, <1>4, <1>5, TracedStays DEF LeakInv

\* A statement is prepared where none was.
LEMMA LeakPrepares ==
  ASSUME Base, LeakInv, NEW u \in Users, NEW x, NEW a, NEW n, Prepares(u, x, a, n), prepared[u] \in {0, n}
  PROVE  LeakInv'
<1>1. /\ pc[u] = "idle" /\ x \in {"idle", "lock"} /\ pc' = [pc EXCEPT ![u] = x] /\ obj' = [obj EXCEPT ![u] = a]
      /\ prepared' = [prepared EXCEPT ![u] = n]
      /\ UNCHANGED <<toClose, readers, req, resp, cursors>>
      /\ DOMAIN stm' = DOMAIN stm \cup {n} /\ stm'[n].user = u /\ ~stm'[n].closed
      /\ \A p \in DOMAIN stm : stm'[p] = stm[p] /\ p # 0
      /\ n \notin DOMAIN stm => stm'[n].cursor = 0
  BY Parts DEF Prepares, Base
<1>2. Aside(u) /\ prepared'[u] = n /\ pc'[u] = x
  BY <1>1 DEF Aside, Base, Typed, TypeOK
<1>3. ASSUME NEW p \in DOMAIN stm PROVE Lives(p)'
  <2>1. CASE stm[p].user # u
    BY <1>2, <2>1, LivesAside DEF LeakInv
  <2>2. CASE stm[p].user = u
    <3>1. /\ stm[p].cursor # 0 => p = prepared[u] \/ p \in readers[u]
          /\ stm[p].closed => stm[p].cursor = 0
      BY <1>1, <2>2, Settled DEF LeakInv
    <3> QED BY <1>1, <1>2, <2>2, <3>1 DEF Lives, Held
  <2> QED BY <2>1, <2>2
<1>4. n \notin DOMAIN stm => Lives(n)'
  BY <1>1 DEF Lives
<1>5. \A id \in Open' : Traced(id)'
  BY <1>1, TracedStays DEF LeakInv
<1> QED BY <1>1, <1>3, <1>4, <1>5 DEF LeakInv

\* Statements stay as they are but for what a step of u, which is not closing
\* one, says of its own.
LEMMA LeakGoes ==
  ASSUME Base, LeakInv, NEW u \in Users, NEW x, pc' = [pc EXCEPT ![u] = x], x \in {"lock", "write", "wait", "relock"},
         pc[u] \in {"idle", "lock", "write", "wait"},
         \A v \in Users : v # u => obj'[v] = obj[v],
         UNCHANGED <<prepared, readers>>, DOMAIN stm \subseteq DOMAIN stm',
         mu \in {u, Nobody} \/ (resp' = resp /\ stm' = stm),
         \A p \in DOMAIN stm :
           /\ stm'[p].user = stm[p].user /\ stm'[p].cursor = stm[p].cursor
           /\ stm'[p].closed # stm[p].closed => stm[p].user = u /\ x = "relock",
         NEW p \in DOMAIN stm
  PROVE  Lives(p)'
<1>1. Aside(u) /\ pc'[u] = x
  BY DEF Aside, Base, Typed, TypeOK
<1>2. CASE stm[p].user # u
  BY <1>1, <1>2, LivesAside DEF LeakInv
<1>3. CASE stm[p].user = u
  <2>1. /\ stm[p].cursor # 0 => p = prepared[u] \/ p \in readers[u]
        /\ stm[p].closed => stm[p].cursor = 0
    BY <1>3, Settled DEF LeakInv
  <2> QED BY <1>1, <1>3, <2>1 DEF Lives, Held
<1> QED BY <1>2, <1>3

\* The cursor of a closed statement is on the list.
LEMMA LeakClose ==
  ASSUME Base, LeakInv, NEW u \in Users, Close(u)
  PROVE  LeakInv'
<1> PICK o : o = obj[u]
  OBVIOUS
<1> DEFINE k == stm[o].cursor
           t == [stm EXCEPT ![o].cursor = 0]
<1>1. /\ pc[u] = "close" /\ mu = Nobody /\ stm' = t /\ toClose' = AddCursor(toClose, k)
      /\ pc' = [pc EXCEPT ![u] = "idle"] /\ UNCHANGED <<obj, prepared, readers, req, resp, cursors>>
  BY DEF Close, Goto
<1>2. o \in DOMAIN stm /\ stm \in Seq(Statement) /\ stm[o].user = u /\ k \in 0 .. MaxCursors
  BY <1>1, Working, Parts, Fields DEF Base
<1>3. /\ DOMAIN stm' = DOMAIN stm
      /\ \A p \in DOMAIN stm :
           /\ stm'[p].user = stm[p].user /\ stm'[p].closed = stm[p].closed
           /\ stm'[p].cursor = IF p = o THEN 0 ELSE stm[p].cursor
  <2>1. /\ t \in Seq(Statement) /\ Len(t) = Len(stm)
        /\ \A p \in DOMAIN stm :
             /\ t[p].user = stm[p].user /\ t[p].closed = stm[p].closed
             /\ t[p].cursor = IF p = o THEN 0 ELSE stm[p].cursor
    BY <1>2, ZeroedFacts
  <2> HIDE DEF t
  <2> QED BY <1>1, <1>2, <2>1, Domains
<1> HIDE DEF t, k
<1>4. Aside(u) /\ pc'[u] = "idle"
  BY <1>1, <1>2, <1>3 DEF Aside, Base, Typed, TypeOK
<1>5. ASSUME NEW p \in DOMAIN stm PROVE Lives(p)'
  <2>1. CASE stm[p].user # u
    BY <1>4, <2>1, LivesAside DEF LeakInv
  <2>2. CASE stm[p].user = u
    <3>1. Lives(p)
      BY DEF LeakInv
    <3>2. p # o => /\ stm[p].cursor # 0 => p = prepared[u] \/ p \in readers[u]
                   /\ stm[p].closed => stm[p].cursor = 0
      BY <1>1, <2>2, <3>1 DEF Lives, Held, Kin
    <3> QED BY <1>1, <1>3, <2>2, <3>2 DEF Lives, Held
  <2> QED BY <2>1, <2>2
<1>6. ToSet(toClose') = ToSet(toClose) \cup ({k} \ {0})
  BY <1>1, <1>2, AddedCursor DEF Base, Typed, TypeOK
<1>7. ASSUME NEW id \in Open' PROVE Traced(id)'
  <2>1. id \in Open /\ Traced(id) /\ id # 0 /\ InFlight' = InFlight
    BY <1>1 DEF Open, LeakInv, Ids, InFlight
  <2>2. CASE \E p \in DOMAIN stm : stm[p].cursor = id
    BY <1>3, <1>6, <2>1, <2>2 DEF Traced, k
  <2>3. CASE id \in ToSet(toClose) \cup InFlight
    BY <1>6, <2>1, <2>3 DEF Traced
  <2> QED BY <1>1, <2>1, <2>2, <2>3 DEF Traced
<1> QED BY <1>3, <1>5, <1>7 DEF LeakInv

\* An operation fails or, in t, has failed at the server: a reader that is given
\* up is closed.
LEMMA LeakFailed ==
  ASSUME Base, NEW u \in Users, NEW o, o = obj[u], pc[u] \in {"lock", "wait"}, mu \in {u, Nobody},
         NEW t \in Seq(Statement), Failed(u, t), DOMAIN t = DOMAIN stm,
         \A p \in DOMAIN stm :
           /\ Lives(p) /\ t[p].user = stm[p].user /\ t[p].closed = stm[p].closed
           /\ p # o => t[p].cursor = stm[p].cursor,
         NEW p \in DOMAIN stm
  PROVE  Lives(p)' /\ DOMAIN stm' = DOMAIN stm /\ stm'[p].cursor = t[p].cursor
<1>1. /\ o \in DOMAIN stm /\ stm[o].user = u /\ ~stm[o].closed /\ Typed
      /\ IF op[u] = "fetch" THEN o \in readers[u] ELSE o = prepared[u]
  BY Working DEF Base, Possession, Owns
<1>2. prepared' = [prepared EXCEPT ![u] = prepared[u]]
  BY <1>1, Entries DEF Failed
<1>3. PICK c, r : /\ Leaves(u, t, c) /\ c \in {0, o} /\ readers' = [readers EXCEPT ![u] = r]
                  /\ IF c = o THEN r = readers[u] \ {o} ELSE r = readers[u] /\ op[u] # "fetch"
  <2>1. readers = [readers EXCEPT ![u] = readers[u]] /\ o # 0
    BY <1>1, Entries, Parts
  <2>2. CASE Leaves(u, t, obj[u]) /\ readers' = [readers EXCEPT ![u] = @ \ {obj[u]}]
    BY <2>2
  <2>3. CASE op[u] # "fetch" /\ Leaves(u, t, 0) /\ readers' = readers
    BY <2>1, <2>3
  <2> QED BY <2>2, <2>3 DEF Failed
<1>4. Aside(u) /\ readers'[u] = r /\ prepared'[u] = prepared[u] /\ DOMAIN stm' = DOMAIN t
  <2>1. \A q \in DOMAIN stm : stm[q].user # u => t[q].cursor = stm[q].cursor
    BY <1>1
  <2>2. c \in DOMAIN stm => stm[c].user = u
    <3>1. 0 \notin DOMAIN stm
      BY <1>1, Parts
    <3> QED BY <1>1, <1>3, <3>1
  <2>3. \A q \in DOMAIN stm :
          /\ t[q].user = stm[q].user
          /\ stm[q].user # u => t[q].cursor = stm[q].cursor /\ t[q].closed = stm[q].closed
    BY <2>1
  <2>4. DOMAIN stm \subseteq DOMAIN t
    OBVIOUS
  <2>5. mu \in {u, Nobody} \/ (resp' = resp /\ \A q \in DOMAIN stm : stm'[q].implicit = stm[q].implicit)
    OBVIOUS
  <2>6. Typed /\ u \in Users /\ t \in Seq(Statement) /\ Leaves(u, t, c) /\ readers' = [readers EXCEPT ![u] = r]
    BY <1>1, <1>3
  <2> QED BY ONLY <1>2, <2>2, <2>3, <2>4, <2>5, <2>6, AsideLeaves
<1>5. stm'[p].cursor = t[p].cursor
  BY <1>3 DEF Leaves, Kept
<1>6. CASE stm[p].user # u
  BY <1>4, <1>5, <1>6, LivesAside
<1>7. CASE stm[p].user = u
  <2>1. /\ stm[p].cursor # 0 => p = prepared[u] \/ p \in readers[u]
        /\ stm[p].closed => stm[p].cursor = 0
    BY <1>7, Settled
  <2>2. p = c \/ /\ t[p].cursor # 0 => p = prepared'[u] \/ p \in readers'[u]
                 /\ t[p].closed => t[p].cursor = 0
    BY <1>1, <1>3, <1>4, <2>1
  <2>3. /\ Typed /\ u \in Users /\ t \in Seq(Statement) /\ Leaves(u, t, c)
        /\ p \in DOMAIN t /\ t[p].user = u
    BY <1>1, <1>3, <1>7
  <2>4. \/ p = c
        \/ /\ t[p].cursor # 0 => p = prepared'[u] \/ p \in readers'[u]
           /\ t[p].closed => t[p].cursor = 0
    BY <2>2
  <2>5. Lives(p)'
    BY ONLY <2>3, <2>4, LivesLeaves
  <2> QED BY <1>4, <1>5, <2>5
<1> QED BY <1>4, <1>5, <1>6, <1>7

\* Lock fails, waits for itself, or goes on.
LEMMA LeakLock ==
  ASSUME Base, LeakInv, NEW u \in Users, Lock(u)
  PROVE  LeakInv'
<1>1. /\ pc[u] = "lock" /\ mu = Nobody /\ UNCHANGED <<toClose, op, ops, req, resp, cursors>>
      /\ \/ Fail(u, stm) /\ second' = second
         \/ /\ mu' = u /\ second' = FALSE /\ op[u] # "fetch" /\ stm[obj[u]].implicit # 0
            /\ stm' = [stm EXCEPT ![stm[obj[u]].implicit].closed = TRUE] /\ Goto(u, "relock")
            /\ UNCHANGED <<obj, prepared, readers>>
         \/ /\ mu' = u /\ second' = FALSE /\ (op[u] = "fetch" => stm[obj[u]].cursor # 0)
            /\ stm' = [stm EXCEPT ![obj[u]].implicit = IF op[u] = "fetch" THEN @ ELSE 0]
            /\ Goto(u, "write") /\ UNCHANGED <<obj, prepared, readers>>
  BY LockFacts
<1>2. stm \in Seq(Statement) /\ obj[u] \in DOMAIN stm /\ stm[obj[u]].user = u
  BY <1>1, Working, Parts DEF Base
<1>3. CASE Fail(u, stm) /\ second' = second
  <2>1. Failed(u, stm)
    BY <1>1, <1>3, LockFails
  <2>2. \A p \in DOMAIN stm : Lives(p)' /\ DOMAIN stm' = DOMAIN stm /\ stm'[p].cursor = stm[p].cursor
    <3>1. \A p \in DOMAIN stm : Lives(p)
      BY DEF LeakInv
    <3> QED BY <1>1, <1>2, <2>1, <3>1, LeakFailed
  <2> QED BY <1>1, <1>2, <2>2, TracedStays DEF LeakInv
<1>4. CASE /\ mu' = u /\ second' = FALSE /\ op[u] # "fetch" /\ stm[obj[u]].implicit # 0
           /\ stm' = [stm EXCEPT ![stm[obj[u]].implicit].closed = TRUE] /\ Goto(u, "relock")
           /\ UNCHANGED <<obj, prepared, readers>>
  <2>1. stm[obj[u]].implicit \in DOMAIN stm /\ Kept(stm, stm', stm[obj[u]].implicit)
    BY <1>1, <1>4, LockRelocks
  <2>2. stm[stm[obj[u]].implicit].user = u
    BY <1>2, <1>4 DEF Base, Shapes, Shaped
  <2>3. /\ DOMAIN stm' = DOMAIN stm
        /\ \A p \in DOMAIN stm :
             /\ stm'[p].user = stm[p].user /\ stm'[p].cursor = stm[p].cursor
             /\ stm'[p].closed # stm[p].closed => stm[p].user = u
    <3>1. DOMAIN stm' = DOMAIN stm /\ stm' \in Seq(Statement)
      BY <1>2, <2>1, KeptCursors DEF Kept
    <3>2. \A p \in DOMAIN stm : stm[p].closed \in BOOLEAN /\ stm'[p].closed \in BOOLEAN
      BY <1>2, <3>1, Domains, Fields
    <3> QED BY <2>1, <2>2, <3>1, <3>2 DEF Kept
  <2>4. \A p \in DOMAIN stm : Lives(p)'
    BY <1>1, <1>4, <2>3, LeakGoes DEF Goto
  <2> QED BY <1>1, <2>3, <2>4, TracedStays DEF LeakInv
<1>5. CASE /\ mu' = u /\ second' = FALSE /\ (op[u] = "fetch" => stm[obj[u]].cursor # 0)
           /\ stm' = [stm EXCEPT ![obj[u]].implicit = IF op[u] = "fetch" THEN @ ELSE 0]
           /\ Goto(u, "write") /\ UNCHANGED <<obj, prepared, readers>>
  <2>1. /\ DOMAIN stm' = DOMAIN stm
        /\ \A p \in DOMAIN stm :
             stm'[p].user = stm[p].user /\ stm'[p].cursor = stm[p].cursor /\ stm'[p].closed = stm[p].closed
    <3>1. stm' = [stm EXCEPT ![obj[u]].implicit = IF op[u] = "fetch" THEN @ ELSE 0]
      BY <1>5
    <3>2. /\ pc[u] = "lock" /\ mu = Nobody /\ mu' = u /\ second' = FALSE /\ Goto(u, "write")
          /\ UNCHANGED <<toClose, op, ops, req, resp, cursors, obj, prepared, readers>>
      BY <1>1, <1>5
    <3>3. Base /\ u \in Users
      OBVIOUS
    <3> QED BY ONLY <3>1, <3>2, <3>3, LockGoes
  <2>2. \A p \in DOMAIN stm : Lives(p)'
    <3>1. pc' = [pc EXCEPT ![u] = "write"] /\ UNCHANGED <<obj, prepared, readers>>
      BY <1>5 DEF Goto
    <3> QED BY <1>1, <2>1, <3>1, LeakGoes
  <2> QED BY <1>1, <2>1, <2>2, TracedStays DEF LeakInv
<1> QED BY <1>1, <1>3, <1>4, <1>5

\* The list goes to the server with the request.
LEMMA LeakWrite ==
  ASSUME Base, LeakInv, NEW u \in Users, Write(u)
  PROVE  LeakInv'
<1>1. /\ pc[u] = "write" /\ mu = u /\ req' = Request(u) /\ toClose' = <<>> /\ stm' = Started(u)
      /\ pc' = [pc EXCEPT ![u] = "wait"] /\ UNCHANGED <<mu, obj, prepared, readers, resp, cursors>>
  BY DEF Write, Goto
<1>2. obj[u] \in DOMAIN stm /\ stm \in Seq(Statement) /\ resp = <<>> /\ req = <<>>
  BY <1>1, Working, Parts, WriteBase DEF Base, Holders, At
<1>3. /\ DOMAIN stm' = DOMAIN stm
      /\ \A p \in DOMAIN stm :
           stm'[p].user = stm[p].user /\ stm'[p].cursor = stm[p].cursor /\ stm'[p].closed = stm[p].closed
  <2>1. /\ stm' \in Seq(Statement) /\ Len(stm') = Len(stm)
        /\ \A p \in DOMAIN stm :
             stm'[p].user = stm[p].user /\ stm'[p].cursor = stm[p].cursor /\ stm'[p].closed = stm[p].closed
    BY <1>1, <1>2, StartedFacts
  <2> QED BY <1>2, <2>1, Domains
<1>4. \A p \in DOMAIN stm : Lives(p)'
  BY <1>1, <1>3, LeakGoes
<1>5. req' # <<>> /\ req'.closes = toClose /\ InFlight = {}
  BY <1>1, <1>2 DEF Request, InFlight
<1>6. InFlight' = ToSet(toClose)
  BY <1>5 DEF InFlight, ToSet
<1>7. \A id \in Open : Traced(id)'
  BY <1>1, <1>2, <1>3, <1>5, <1>6 DEF Traced, LeakInv
<1>8. Open' = Open
  BY <1>1 DEF Open
<1> QED BY <1>3, <1>4, <1>7, <1>8 DEF LeakInv

\* The statements of two results: the first is the block's, the second is closed.
LEMMA LeakResults ==
  ASSUME Base, LeakInv, NEW u \in Users, ProcessResults(u)
  PROVE  LeakInv'
<1> PICK n : n = Len(stm)
  OBVIOUS
<1>1. /\ pc[u] = "wait" /\ mu = u /\ obj[u] \in DOMAIN stm
      /\ resp # <<>> /\ Len(resp.results) > 1 /\ resp.results \in Seq(Ids)
      /\ pc' = [pc EXCEPT ![u] = "relock"]
      /\ UNCHANGED <<mu, toClose, obj, prepared, readers, req, resp, cursors>>
      /\ DOMAIN stm' = DOMAIN stm \cup {n + 1, n + 2}
      /\ \A p \in DOMAIN stm :
           /\ stm'[p].user = stm[p].user /\ stm'[p].cursor = stm[p].cursor /\ stm'[p].closed = stm[p].closed
           /\ stm'[p].implicit = IF p = obj[u] THEN n + 1 ELSE stm[p].implicit
      /\ \A p \in {n + 1, n + 2} :
           /\ stm'[p].user = u /\ stm'[p].cursor = resp.results[p - n]
           /\ stm'[p].closed <=> p = n + 2
  <2>1. /\ pc[u] = "wait" /\ mu = u /\ obj[u] \in DOMAIN stm
        /\ resp # <<>> /\ Len(resp.results) > 1 /\ resp.results \in Seq(Ids)
        /\ pc' = [pc EXCEPT ![u] = "relock"]
        /\ UNCHANGED <<mu, toClose, obj, prepared, readers, req, resp, cursors>>
        /\ DOMAIN stm' = DOMAIN stm \cup {Len(stm) + 1, Len(stm) + 2}
    BY ONLY Base, u \in Users, ProcessResults(u), ResultsFacts
  <2>2. \A p \in DOMAIN stm :
          /\ stm'[p].user = stm[p].user /\ stm'[p].cursor = stm[p].cursor /\ stm'[p].closed = stm[p].closed
          /\ stm'[p].implicit = IF p = obj[u] THEN Len(stm) + 1 ELSE stm[p].implicit
    BY ONLY Base, u \in Users, ProcessResults(u), ResultsFacts
  <2>3. \A p \in {Len(stm) + 1, Len(stm) + 2} :
          /\ stm'[p].user = u /\ stm'[p].cursor = resp.results[p - Len(stm)]
          /\ stm'[p].closed <=> p = Len(stm) + 2
    BY ONLY Base, u \in Users, ProcessResults(u), ResultsFacts
  <2> QED BY <2>1, <2>2, <2>3
<1>2. pc'[u] = "relock" /\ n \in Nat
  BY <1>1, Parts DEF Base, Typed, TypeOK
<1>3. \A p \in DOMAIN stm : Lives(p)'
  <2>1. \A p \in DOMAIN stm :
          /\ stm'[p].user = stm[p].user /\ stm'[p].cursor = stm[p].cursor
          /\ stm'[p].closed # stm[p].closed => stm[p].user = u /\ "relock" = "relock"
    BY <1>1
  <2> QED BY <1>1, <2>1, LeakGoes
<1>4. stm'[n + 2].cursor \in ToSet(resp.results)
  <2>1. (n + 2) - n = 2 /\ 2 \in DOMAIN resp.results
    BY <1>1, <1>2, LenProperties
  <2>2. stm'[n + 2].cursor = resp.results[(n + 2) - n]
    BY <1>1
  <2> QED BY <2>1, <2>2 DEF ToSet
<1>5. Lives(n + 1)' /\ Lives(n + 2)'
  <2>1. /\ stm'[n + 1].user = u /\ stm'[n + 2].user = u /\ n + 1 # n + 2
        /\ stm'[obj'[u]].implicit = n + 1 /\ resp' # <<>> /\ resp' = resp
    BY <1>1, <1>2
  <2>2. Kin(n + 1, u)' /\ Kin(n + 2, u)'
    BY <1>2, <1>4, <2>1 DEF Kin
  <2> QED BY <1>1, <1>2, <2>1, <2>2 DEF Lives, Held
<1>6. \A id \in Open' : Traced(id)'
  <2>1. DOMAIN stm \subseteq DOMAIN stm' /\ \A o \in DOMAIN stm : stm'[o].cursor = stm[o].cursor
    BY <1>1
  <2> QED BY <1>1, <2>1, TracedStays DEF LeakInv
<1> QED BY <1>1, <1>3, <1>5, <1>6 DEF LeakInv

\* The cursors the server opens it reports.
LEMMA LeakServer ==
  ASSUME Base, CursorInv, LeakInv, ServerStep
  PROVE  LeakInv'
<1>1. PICK id \in 0 .. MaxCursors, rs \in Seq(Ids) : Answers(id, rs)
  BY ServerAnswersWith
<1>2. /\ req # <<>> /\ req' = <<>> /\ resp' \in Responses /\ resp'.cursor = id /\ resp'.results = rs
      /\ UNCHANGED <<mu, toClose, stm, pc, obj, prepared, readers>>
      /\ \A c \in Ids : c # id /\ c \notin ToSet(rs) => cursors'[c] = Closed[c]
      /\ \A c \in Ids : Closed[c] = IF c \in ToSet(req.closes) THEN Free ELSE cursors[c]
      /\ resp = <<>> /\ At = "wait"
  BY <1>1, ClosedFacts DEF Answers
<1>3. resp' # <<>>
  BY ServerReplies DEF Replied
<1>4. ASSUME NEW p \in DOMAIN stm PROVE Lives(p)'
  <2>1. ASSUME NEW v \in Users PROVE pc[v] # "relock"
    BY <1>2, Working DEF At
  <2>2. stm[p].user \in Users /\ Lives(p)
    BY Parts, Fields DEF Base, LeakInv
  <2>3. Kin(p, stm[p].user)' <=> Kin(p, stm[p].user)
    BY <1>2, <2>1, <2>2 DEF Kin
  <2> QED BY ONLY <1>2, <2>2, <2>3 DEF Lives, Held
<1>5. ASSUME NEW c \in Open' PROVE Traced(c)'
  <2>1. CASE c = id \/ c \in ToSet(rs)
    BY <1>2, <1>3, <2>1 DEF Traced
  <2>2. CASE c # id /\ c \notin ToSet(rs)
    <3>1. c \in Ids /\ Closed[c].owner # 0
      BY <1>2, <1>5, <2>2 DEF Open
    <3>2. c \in Open /\ c \notin ToSet(req.closes)
      BY <1>2, <3>1 DEF Open, Free
    <3>3. c \notin InFlight /\ Traced(c)
      BY <3>2 DEF InFlight, ToSet, LeakInv
    <3> QED BY <1>2, <3>3 DEF Traced
  <2> QED BY <2>1, <2>2
<1> QED BY <1>2, <1>4, <1>5 DEF LeakInv

\* An operation has succeeded at the server: the query or the implicit result
\* is read from now on or closed, and a block run by ExecuteUpdate returns none.
LEMMA LeakSucceeded ==
  ASSUME Base, NEW u \in Users, NEW o, o = obj[u], pc[u] = "wait", mu = u,
         NEW t \in Seq(Statement), Succeeded(u, t), DOMAIN stm \subseteq DOMAIN t,
         \A p \in DOMAIN stm :
           /\ Lives(p) /\ t[p].user = stm[p].user /\ t[p].closed = stm[p].closed
           /\ p # o => t[p].cursor = stm[p].cursor,
         NEW k, k = Result(u, t), k # 0 => k \in DOMAIN t /\ t[k].user = u /\ (t[k].child \/ k = o),
         \A p \in DOMAIN t : p \notin DOMAIN stm => t[p].user = u /\ ~t[p].closed /\ op[u] = "query" /\ k = p,
         NEW p \in DOMAIN t
  PROVE  Lives(p)' /\ DOMAIN stm' = DOMAIN t /\ stm'[p].cursor = t[p].cursor
<1>1. /\ o \in DOMAIN stm /\ stm[o].user = u /\ ~stm[o].closed /\ Typed
      /\ IF op[u] = "fetch" THEN o \in readers[u] ELSE o = prepared[u]
      /\ 0 \notin DOMAIN t
  BY Working, Domains DEF Base, Possession, Owns
<1>2. PICK c, r, b :
        /\ Leaves(u, t, c) /\ readers' = [readers EXCEPT ![u] = r] /\ prepared' = [prepared EXCEPT ![u] = b]
        /\ c \in {0, o, k} /\ readers[u] \subseteq r
        /\ prepared[u] = b \/ prepared[u] = c \/ prepared[u] \in r
        /\ op[u] = "query" /\ k # 0 => k = c \/ k \in r \/ t[k].closed
  <2>1. /\ prepared = [prepared EXCEPT ![u] = prepared[u]]
        /\ readers = [readers EXCEPT ![u] = readers[u]]
    BY <1>1, Entries
  <2>2. CASE /\ op[u] = "query" /\ k # 0 /\ Leaves(u, t, 0)
             /\ readers' = [readers EXCEPT ![u] = @ \cup {k}]
             /\ prepared' = IF t[k].child THEN prepared ELSE [prepared EXCEPT ![u] = 0]
    <3>1. PICK b : b = IF t[k].child THEN prepared[u] ELSE 0
      OBVIOUS
    <3>2. PICK r : r = readers[u] \cup {k}
      OBVIOUS
    <3>3. prepared' = [prepared EXCEPT ![u] = b]
      BY <2>1, <2>2, <3>1
    <3>4. readers' = [readers EXCEPT ![u] = r] /\ readers[u] \subseteq r /\ k \in r
      BY <2>2, <3>2
    <3>5. prepared[u] = b \/ prepared[u] \in r
      BY <1>1, <2>2, <3>1, <3>2
    <3> QED BY <2>2, <3>3, <3>4, <3>5
  <2>3. CASE /\ op[u] = "query" /\ k # 0 /\ readers' = readers /\ prepared' = prepared
             /\ Leaves(u, t, IF t[k].closed THEN 0 ELSE k)
    BY <2>1, <2>3
  <2>4. CASE /\ op[u] = "update" /\ k = o /\ Leaves(u, t, o)
             /\ readers' = readers /\ prepared' = [prepared EXCEPT ![u] = 0]
    BY <1>1, <2>1, <2>4
  <2>5. CASE /\ ~(op[u] = "query" /\ k # 0)
             /\ Leaves(u, t, 0) /\ readers' = readers /\ prepared' = prepared
    BY <2>1, <2>5
  <2> QED BY <2>2, <2>3, <2>4, <2>5 DEF Succeeded
<1>3. Aside(u) /\ readers'[u] = r /\ prepared'[u] = b /\ DOMAIN stm' = DOMAIN t
  <2>1. c \in DOMAIN stm => stm[c].user = u
    BY <1>1, <1>2
  <2>2. \A q \in DOMAIN stm :
          /\ t[q].user = stm[q].user
          /\ stm[q].user # u => t[q].cursor = stm[q].cursor /\ t[q].closed = stm[q].closed
    BY <1>1
  <2>3. /\ mu \in {u, Nobody} \/ (resp' = resp /\ \A q \in DOMAIN stm : stm'[q].implicit = stm[q].implicit)
        /\ DOMAIN stm \subseteq DOMAIN t /\ Typed /\ u \in Users /\ t \in Seq(Statement)
    BY <1>1
  <2> QED BY ONLY <1>2, <2>1, <2>2, <2>3, AsideLeaves
<1>4. stm'[p].cursor = t[p].cursor
  BY <1>2 DEF Leaves, Kept
<1>5. ASSUME p \in DOMAIN stm, stm[p].user # u PROVE Lives(p)'
  BY <1>3, <1>5, LivesAside
<1>6. ASSUME p \in DOMAIN stm => stm[p].user = u PROVE Lives(p)'
  <2>1. t[p].user = u
    BY <1>6
  <2>2. \/ p = c
        \/ /\ t[p].cursor # 0 => p = prepared'[u] \/ p \in readers'[u]
           /\ t[p].closed => t[p].cursor = 0
    <3>1. CASE p \in DOMAIN stm
      <4>1. /\ stm[p].cursor # 0 => p = prepared[u] \/ p \in readers[u]
            /\ stm[p].closed => stm[p].cursor = 0
        BY <1>6, <3>1, Settled
      <4>2. t[p].cursor # 0 => p = prepared[u] \/ p \in readers[u]
        BY <1>1, <3>1, <4>1
      <4>3. t[p].closed => t[p].cursor = 0
        BY <1>1, <3>1, <4>1
      <4> QED BY <1>2, <1>3, <4>2, <4>3
    <3>2. CASE p \notin DOMAIN stm
      BY <1>1, <1>2, <1>3, <3>2
    <3> QED BY <3>1, <3>2
  <2>3. Typed /\ u \in Users /\ t \in Seq(Statement) /\ Leaves(u, t, c) /\ p \in DOMAIN t
    BY <1>1, <1>2
  <2> QED BY ONLY <2>1, <2>2, <2>3, LivesLeaves
<1> QED BY <1>3, <1>4, <1>5, <1>6

\* What a response makes of the statements; k is what is read from now on.
Recorded(u, o, t, n, k) ==
  /\ o \in DOMAIN stm /\ t \in Seq(Statement) /\ n \notin DOMAIN stm
  /\ DOMAIN t = IF resp.results = <<>> THEN DOMAIN stm ELSE DOMAIN stm \cup {n}
  /\ \A p \in DOMAIN stm :
       /\ t[p].user = stm[p].user /\ t[p].closed = stm[p].closed
       /\ p # o => t[p].cursor = stm[p].cursor
  /\ t[o].cursor = IF Clears(stm[o]) THEN 0 ELSE Known(stm[o])
  /\ resp.results # <<>> =>
       /\ resp.type = "ok" /\ op[u] = "query" /\ ~Heard(u).define
       /\ t[n].user = u /\ ~t[n].closed /\ t[n].cursor = resp.results[1] /\ k = n
  /\ k # 0 => k \in DOMAIN t /\ t[k].user = u /\ (t[k].child \/ k = o)

LEMMA LeakMade ==
  ASSUME Inv, Trip, NothingLost, NEW u \in Users, Process(u), NEW o, o = obj[u], NEW t, t = After(u),
         NEW n, n = Len(stm) + 1, NEW k, k = Result(u, t)
  PROVE  Recorded(u, o, t, n, k)
<1>1. /\ pc[u] = "wait" /\ mu = u /\ At = "wait" /\ o \in DOMAIN stm /\ stm[o].user = u
      /\ resp # <<>> /\ resp \in Responses
  BY ProcessFacts DEF Inv
<1>2. Base /\ CursorInv /\ Told
  BY DEF Inv, Trip
<1>3. /\ stm \in Seq(Statement) /\ Len(stm) \in Nat /\ DOMAIN stm = 1 .. Len(stm)
      /\ stm[o] \in Statement /\ resp.results \in Seq(Ids)
  BY <1>1, <1>2, Parts DEF Base, Responses
<1>4. /\ t \in Seq(Statement) /\ Len(t) = IF resp.results = <<>> THEN Len(stm) ELSE n
      /\ resp.results # <<>> => t[n] = Child(u, resp.results[1])
      /\ t[o].user = stm[o].user /\ t[o].child = stm[o].child /\ t[o].closed = stm[o].closed
      /\ t[o].cursor = Heard(u).cursor
      /\ t[o].implicit = IF resp.results = <<>> THEN stm[o].implicit ELSE n
      /\ \A p \in DOMAIN stm : p # o =>
           /\ t[p].user = stm[p].user /\ t[p].child = stm[p].child /\ t[p].cursor = stm[p].cursor
           /\ t[p].closed = stm[p].closed
  <2>1. stm \in Seq(Statement) /\ u \in Users /\ obj[u] \in DOMAIN stm /\ resp \in Responses
    BY <1>1, <1>3
  <2> QED BY ONLY <2>1, o = obj[u], t = After(u), n = Len(stm) + 1, AfterFacts
<1>5. /\ Heard(u).cursor = IF Clears(stm[o]) THEN 0 ELSE Known(stm[o])
      /\ Heard(u).define => stm[o].define \/ HasLobs(stm[o])
  <2>1. stm[obj[u]] \in Statement /\ resp \in Responses
    BY <1>1, <1>3
  <2> QED BY ONLY <2>1, u \in Users, o = obj[u], HeardFacts
<1>6. DOMAIN t = IF resp.results = <<>> THEN DOMAIN stm ELSE DOMAIN stm \cup {n}
  <2>1. DOMAIN t = 1 .. Len(t)
    BY <1>4, Domains
  <2>2. Len(t) = IF resp.results = <<>> THEN Len(stm) ELSE n
    BY <1>4
  <2>3. 1 .. n = 1 .. Len(stm) \cup {n} /\ n \notin DOMAIN stm
    BY <1>3
  <2> QED BY ONLY <1>3, <2>1, <2>2, <2>3
<1>7. ASSUME resp.results # <<>>
      PROVE  /\ resp.type = "ok" /\ op[u] = "query" /\ ~Heard(u).define
             /\ t[n].user = u /\ t[n].child /\ ~t[n].closed /\ t[n].cursor = resp.results[1] /\ k = n
  <2>1. 1 \in DOMAIN resp.results /\ resp.results[1] \in 0 .. MaxCursors
    <3>1. 1 \in DOMAIN resp.results
      BY <1>3, <1>7, EmptySeq, LenProperties
    <3>2. resp.results[1] \in Ids
      BY <1>3, <3>1, ElementOfSeq
    <3> QED BY <3>1, <3>2 DEF Ids
  <2>2. resp.type = "ok" /\ u \in Blocks /\ op[u] \in {"query", "update"} /\ MaxResults # 0
    BY <1>1, <1>2, <2>1 DEF CursorInv, Answered, Told
  <2>3. op[u] \in Ops /\ o = prepared[u] /\ ~stm[o].child
    BY <1>1, <1>2, <1>3, <2>2 DEF Base, Possession, Owns
  <2>4. op[u] = "query"
    BY <2>2, <2>3 DEF NothingLost
  <2>5. ~IsQuery(t[o]) /\ ~HasLobs(stm[o])
    BY <1>1, <1>4, <2>2, <2>3, StatementsAssumption DEF IsQuery, HasLobs
  <2>6. ~Heard(u).define
    BY <1>1, <1>2, <1>5, <2>5 DEF Base, Shapes, Shaped
  <2>7. k = n
    BY <1>4, <1>7, <2>5 DEF Result
  <2>8. t[n].user = u /\ t[n].child /\ ~t[n].closed /\ t[n].cursor = resp.results[1]
    <3>1. PICK i \in Ids : i = resp.results[1]
      BY <1>3, <2>1, ElementOfSeq
    <3>2. /\ Child(u, i).user = u /\ Child(u, i).child /\ ~Child(u, i).closed
          /\ Child(u, i).cursor = i
      BY <3>1, ChildFacts
    <3> QED BY <1>4, <1>7, <3>1, <3>2
  <2> QED BY <2>2, <2>4, <2>6, <2>7, <2>8
<1>8. ASSUME k # 0 PROVE k \in DOMAIN t /\ t[k].user = u /\ (t[k].child \/ k = o)
  <2>1. CASE resp.results # <<>>
    BY <1>6, <1>7, <2>1
  <2>2. CASE resp.results = <<>> /\ IsQuery(t[o])
    BY <1>1, <1>4, <1>6, <2>2 DEF Result
  <2>3. CASE resp.results = <<>> /\ ~IsQuery(t[o])
    <3>1. k = stm[o].implicit
      BY <1>4, <2>3 DEF Result
    <3>2. k \in DOMAIN stm
      BY <1>1, <1>2, <1>3, <1>8, <3>1, Fields DEF Base, Typed
    <3>3. stm[k].child /\ stm[k].user = u
      BY <1>1, <1>2, <1>8, <3>1 DEF Base, Shapes, Shaped
    <3> QED BY <1>4, <1>6, <3>2, <3>3
  <2> QED BY <2>1, <2>2, <2>3
<1> QED BY <1>1, <1>3, <1>4, <1>5, <1>6, <1>7, <1>8 DEF Recorded

\* A response processed: the cursor it reports is the statement's, or to be closed.
LEMMA LeakProcess ==
  ASSUME Inv, Trip, LeakInv, NothingLost, NEW u \in Users, Process(u)
  PROVE  LeakInv'
<1> PICK o, t, n : o = obj[u] /\ t = After(u) /\ n = Len(stm) + 1
  OBVIOUS
<1> PICK k : k = Result(u, t)
  OBVIOUS
<1>1. /\ pc[u] = "wait" /\ mu = u /\ At = "wait" /\ stm[o].user = u /\ resp # <<>> /\ resp \in Responses
      /\ req = <<>> /\ Len(resp.results) <= 1 /\ resp' = <<>> /\ cursors' = Claimed /\ req' = req
      /\ toClose' = IF Clears(stm[o]) THEN AddCursor(toClose, Known(stm[o])) ELSE toClose
      /\ \/ Repeats(u)
         \/ resp.type \in {"error", "integrity"} /\ Failed(u, t)
         \/ resp.type \in {"ok", "nodata"} /\ Succeeded(u, t)
  BY ProcessFacts DEF Inv
<1>2. /\ o \in DOMAIN stm /\ t \in Seq(Statement) /\ n \notin DOMAIN stm
      /\ DOMAIN t = IF resp.results = <<>> THEN DOMAIN stm ELSE DOMAIN stm \cup {n}
      /\ \A p \in DOMAIN stm :
           /\ t[p].user = stm[p].user /\ t[p].closed = stm[p].closed
           /\ p # o => t[p].cursor = stm[p].cursor
      /\ t[o].cursor = IF Clears(stm[o]) THEN 0 ELSE Known(stm[o])
      /\ resp.results # <<>> =>
           /\ resp.type = "ok" /\ op[u] = "query" /\ ~Heard(u).define
           /\ t[n].user = u /\ ~t[n].closed /\ t[n].cursor = resp.results[1] /\ k = n
      /\ k # 0 => k \in DOMAIN t /\ t[k].user = u /\ (t[k].child \/ k = o)
  <2>1. Recorded(u, o, t, n, k)
    BY LeakMade
  <2> QED BY <2>1 DEF Recorded
<1>3. Base /\ Typed /\ CursorInv /\ \A p \in DOMAIN stm : Lives(p)
  BY DEF Inv, Base, LeakInv
<1>4. ASSUME NEW p \in DOMAIN t PROVE Lives(p)' /\ DOMAIN stm' = DOMAIN t /\ stm'[p].cursor = t[p].cursor
  <2>1. CASE Repeats(u)
    <3>1. /\ stm' = t /\ pc' = [pc EXCEPT ![u] = "write"] /\ UNCHANGED <<mu, obj, prepared, readers>>
          /\ resp.results = <<>>
      BY <1>2, <2>1 DEF Repeats
    <3>2. Aside(u) /\ pc'[u] = "write"
      BY <1>1, <1>2, <1>3, <3>1 DEF Aside, Typed, TypeOK
    <3>3. CASE stm[p].user # u
      BY <1>2, <1>3, <3>1, <3>2, <3>3, LivesAside
    <3>4. CASE stm[p].user = u
      <4>1. /\ stm[p].cursor # 0 => p = prepared[u] \/ p \in readers[u]
            /\ stm[p].closed => stm[p].cursor = 0
        BY <1>1, <1>2, <1>3, <3>1, <3>4, Settled
      <4>2. /\ p = o => ~stm[p].closed /\ (p = prepared[u] \/ p \in readers[u])
            /\ p \in DOMAIN stm
        BY <1>1, <1>2, <1>3, <3>1 DEF Base, Possession, Owns
      <4>3. stm'[p].user = u /\ (stm'[p].cursor # 0 => p = prepared[u] \/ p \in readers[u])
            /\ (stm'[p].closed => stm'[p].cursor = 0)
        BY <1>2, <3>1, <3>4, <4>1, <4>2
      <4> QED BY <3>1, <3>2, <4>3 DEF Lives, Held
    <3> QED BY <3>1, <3>3, <3>4
  <2>2. CASE resp.type \in {"error", "integrity"} /\ Failed(u, t)
    <3>1. DOMAIN t = DOMAIN stm
      BY <1>2, <2>2
    <3>2. /\ Base /\ pc[u] = "wait" /\ mu = u /\ t \in Seq(Statement) /\ Failed(u, t)
          /\ \A q \in DOMAIN stm :
               /\ Lives(q) /\ t[q].user = stm[q].user /\ t[q].closed = stm[q].closed
               /\ q # o => t[q].cursor = stm[q].cursor
          /\ p \in DOMAIN stm /\ o = obj[u] /\ u \in Users
      BY <1>1, <1>2, <1>3, <2>2, <3>1
    <3> QED BY ONLY <3>1, <3>2, LeakFailed
  <2>3. CASE Succeeded(u, t)
    <3>1. \A q \in DOMAIN t : q \notin DOMAIN stm => t[q].user = u /\ ~t[q].closed /\ op[u] = "query" /\ k = q
      BY <1>2
    <3>2. DOMAIN stm \subseteq DOMAIN t
      BY <1>2
    <3> QED BY <1>1, <1>2, <1>3, <2>3, <3>1, <3>2, LeakSucceeded
  <2> QED BY <1>1, <2>1, <2>2, <2>3
<1>5. ASSUME NEW id \in Open' PROVE Traced(id)'
  <2>1. /\ id \in Ids /\ id # 0
        /\ Claimed[id].owner # 0
    BY <1>1, <1>5 DEF Open, Ids
  <2>2. ASSUME NEW p \in DOMAIN t, t[p].cursor = id PROVE Traced(id)'
    BY <1>4, <2>2 DEF Traced
  <2>3. CASE id \in ToSet(resp.results)
    <3>1. resp.results \in Seq(Ids)
      BY <1>1 DEF Responses
    <3>2. resp.results # <<>> /\ id = resp.results[1]
      BY <1>1, <2>3, <3>1, LenProperties DEF ToSet
    <3> QED BY <1>2, <2>2, <3>2
  <2>4. CASE id \notin ToSet(resp.results)
    <3>1. id \in Open /\ Traced(id)
      BY <2>1, <2>4 DEF Claimed, Open, LeakInv
    <3>2. ToSet(toClose) \subseteq ToSet(toClose') /\ (Clears(stm[o]) /\ Known(stm[o]) = id => id \in ToSet(toClose'))
      <4>1. stm[o].cursor \in 0 .. MaxCursors /\ resp.cursor \in 0 .. MaxCursors /\ toClose \in Seq(Ids)
        BY <1>1, <1>2, <1>3, Parts, Fields DEF Responses, Typed, TypeOK
      <4>2. Known(stm[o]) \in 0 .. MaxCursors
        BY <4>1 DEF Known
      <4> QED BY <1>1, <2>1, <4>1, <4>2, AddedCursor
    <3>3. ASSUME Known(stm[o]) = id PROVE Traced(id)'
      <4>1. CASE Clears(stm[o])
        BY <3>2, <3>3, <4>1 DEF Traced
      <4>2. CASE ~Clears(stm[o])
        BY <1>2, <2>2, <3>3, <4>2
      <4> QED BY <4>1, <4>2
    <3>4. CASE \E p \in DOMAIN stm : stm[p].cursor = id
      <4>1. PICK p \in DOMAIN stm : stm[p].cursor = id
        BY <3>4
      <4>2. CASE p # o
        BY <1>2, <2>2, <4>1, <4>2
      <4>3. CASE p = o
        <5>1. resp.cursor # 0 => stm[o].cursor \in {0, resp.cursor}
          BY <1>1, <1>3 DEF CursorInv, Answered
        <5> QED BY <2>1, <3>3, <4>1, <4>3, <5>1 DEF Known
      <4> QED BY <4>2, <4>3
    <3>5. CASE id \in ToSet(toClose) \cup InFlight
      BY <1>1, <3>2, <3>5 DEF Traced, InFlight
    <3>6. CASE id = resp.cursor
      BY <2>1, <3>3, <3>6 DEF Known
    <3> QED BY <2>4, <3>1, <3>4, <3>5, <3>6 DEF Traced
  <2> QED BY <2>3, <2>4
<1>6. DOMAIN stm' = DOMAIN t
  BY <1>2, <1>4
<1> QED BY <1>4, <1>5, <1>6 DEF LeakInv

\* Every step keeps all cursors accounted for.
LEMMA LeakUser ==
  ASSUME Base, LeakInv, NothingLost, NEW u \in Users, UserBegins(u)
  PROVE  LeakInv'
<1>1. CASE CloseStatement(u)
  <2>1. PICK c \in {0, prepared[u]} : IdleLeft(u, c, readers[u], 0) /\ (c = 0 => stm[prepared[u]].closed)
    BY <1>1, CloseStatementFacts
  <2>2. \A o \in readers[u] : o \in readers[u] \/ stm[o].closed \/ o = c
    OBVIOUS
  <2>3. prepared[u] = 0 \/ stm[prepared[u]].closed \/ prepared[u] = c
    BY <2>1
  <2> QED BY <2>1, <2>2, <2>3, LeakIdle
<1>2. CASE Release(u)
  <2>1. PICK o \in readers[u], c \in Nat :
          /\ o \in DOMAIN stm /\ c \in {0, o} /\ IdleLeft(u, c, readers[u] \ {o}, prepared[u])
          /\ c = 0 => stm[o].closed
    BY <1>2, ReleaseFacts
  <2>2. \A p \in readers[u] : p \in readers[u] \ {o} \/ stm[p].closed \/ p = c
    BY <2>1
  <2> QED BY <2>1, <2>2, LeakIdle
<1>3. CASE Prepare(u)
  <2>1. prepared[u] = 0
    BY <1>3 DEF Prepare, NothingLost
  <2>2. Prepares(u, "idle", obj[u], Len(stm) + 1)
    BY <1>3, PrepareFacts
  <2>3. PICK a, n : Prepares(u, "idle", a, n)
    BY <2>2
  <2> QED BY <2>1, <2>3, LeakPrepares
<1>4. CASE Begin(u)
  <2>1. PICK n \in Nat : Prepares(u, "lock", n, n)
    BY <1>4, BeginFacts
  <2>2. prepared[u] \in {0, n}
    <3> SUFFICES ASSUME prepared[u] # 0 PROVE n = prepared[u]
      OBVIOUS
    <3>1. prepared' = prepared
      BY <1>4 DEF Begin
    <3> QED BY <2>1, <3>1 DEF Prepares, Base, Typed, TypeOK
  <2> QED BY <2>1, <2>2, LeakPrepares
<1>5. CASE BeginFetch(u)
  <2>1. /\ pc[u] = "idle" /\ pc' = [pc EXCEPT ![u] = "lock"] /\ \A v \in Users : v # u => obj'[v] = obj[v]
        /\ UNCHANGED <<mu, toClose, stm, prepared, readers, req, resp, cursors>>
    BY <1>5 DEF BeginFetch, Goto, Base, Typed, TypeOK
  <2>2. \A p \in DOMAIN stm :
          /\ stm'[p].user = stm[p].user /\ stm'[p].cursor = stm[p].cursor
          /\ stm'[p].closed # stm[p].closed => stm[p].user = u /\ "lock" = "relock"
    BY <2>1
  <2>3. \A p \in DOMAIN stm : Lives(p)'
    BY <2>1, <2>2, LeakGoes
  <2>4. \A id \in Open' : Traced(id)'
    BY <2>1, TracedStays DEF LeakInv
  <2> QED BY <2>1, <2>3, <2>4 DEF LeakInv
<1> QED BY <1>1, <1>2, <1>3, <1>4, <1>5 DEF UserBegins

LEMMA LeakNext ==
  ASSUME Inv, Trip, LeakInv, NothingLost, [Next]_vars
  PROVE  LeakInv'
<1>1. Base /\ CursorInv
  BY DEF Inv
<1>2. ASSUME NEW u \in Users, UserStep(u) PROVE LeakInv'
  <2>1. ~WriteDefers(u) /\ ~ProcessAborts(u)
    BY DEF NothingLost, WriteDefers, ProcessAborts
  <2> QED BY <1>1, <1>2, <2>1, LeakClose, LeakLock, LeakWrite, LeakResults, LeakProcess DEF UserStep
<1>3. CASE UNCHANGED vars
  BY <1>3 DEF vars, LeakInv, Lives, Held, Kin, Open, Traced, InFlight
<1> QED BY <1>1, <1>2, <1>3, LeakUser, LeakServer DEF Next, Idle

\* No cursor leaks: what the server has open is the cursor of a statement that
\* somebody still has, is about to be closed, or is yet to be reported.  Close
\* and clearCursor put every other one on the list of cursors to close; this
\* fails of the requests, answers and statements that NothingLost excludes.
THEOREM NoCursorIsLost ==
  ASSUME NothingLost
  PROVE  Spec => []OpenIsAccounted
<1>1. Init => LeakInv
  BY DEF Init, LeakInv, Open, Free
<1>2. Inv /\ Trip /\ LeakInv /\ [Next]_vars => LeakInv'
  BY LeakNext
<1>3. Inv /\ LeakInv => OpenIsAccounted
  <2> SUFFICES ASSUME Base, LeakInv, NEW id \in Open
               PROVE  \/ \E o \in Live : stm[o].cursor = id
                      \/ id \in ToSet(toClose) \cup InFlight
                      \/ resp # <<>> /\ (id = resp.cursor \/ id \in ToSet(resp.results))
    BY DEF Inv, OpenIsAccounted
  <2>1. Traced(id) /\ id # 0
    BY DEF LeakInv, Open, Ids
  <2>2. ASSUME NEW o \in DOMAIN stm, stm[o].cursor = id
        PROVE  o \in Live \/ (resp # <<>> /\ id \in ToSet(resp.results))
    <3> PICK v : v = stm[o].user
      OBVIOUS
    <3>1. v \in Users /\ Held(o) /\ o # 0
      BY <2>1, <2>2, Parts, Fields DEF Base, LeakInv, Lives
    <3>2. CASE o = prepared[v] \/ o \in readers[v] \/ (pc[v] = "close" /\ obj[v] = o)
      BY <3>1, <3>2 DEF Live
    <3>3. CASE Kin(o, v)
      <4>1. pc[v] = "relock" /\ obj[v] \in DOMAIN stm
        BY <3>1, <3>3, Working DEF Kin
      <4> QED BY <2>2, <3>1, <3>3, <4>1 DEF Kin, Live
    <3> QED BY <3>1, <3>2, <3>3 DEF Held
  <2> QED BY <2>1, <2>2 DEF Traced
<1> QED BY <1>1, <1>2, <1>3, TripInvariant, PTL DEF Spec

=============================================================================
