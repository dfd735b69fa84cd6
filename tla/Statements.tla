----------------------------- MODULE Statements -----------------------------
(***************************************************************************)
(* Statements and the cursors they hold at the server: adbc.Statement      *)
(* (statementImpl of driver/oracle/driver.go), the ttc.Statement objects   *)
(* it prepares, hands to record readers and drops (ttc/execute.go), and    *)
(* Conn.cursorsToClose, which carries the cursors of closed statements to  *)
(* the server with the next request (ttc/message.go).                      *)
(*                                                                         *)
(* Every user is one adbc.Statement, on a goroutine of its own, and all of *)
(* them share one session.  A round trip is three steps, the request       *)
(* written, answered and processed, under Conn.mu; what happens between    *)
(* the packets of a round trip is the subject of Session.                  *)
(***************************************************************************)
EXTENDS Naturals, Sequences, FiniteSets, SequencesExt

CONSTANTS
  Users,       \* the adbc statements, each with one SQL text
  Queries,     \* those whose SQL is a query
  Lobs,        \* the queries that select LOB, JSON or VECTOR columns; what a
               \* block returns may have such columns or not
  Blocks,      \* those whose SQL is a PL/SQL block; all others are DML
  Nobody,      \* "Conn.mu is free"
  Rows,        \* rows a query or an implicit result has
  Want,        \* rows asked for at a time
  MaxResults,  \* implicit results a block may return
  LobRows,     \* does the server return rows of locators before a define?
  Faults,      \* what may go wrong, see Fault
  MaxCursors,  \* bound: cursors a session may have open (OPEN_CURSORS)
  MaxMade,     \* bound: ttc.Statements prepared
  Ops,         \* the operations users begin: "query", "update", "schema"
  MaxOps       \* bound: operations each user begins

\* "refuse", "deferred", "abort" and "start" happen in the client: Execute
\* returns before it sends, a bind value does not convert, a response cannot
\* be processed, the reader cannot take the columns.  "drop" is Prepare called
\* while a statement is prepared.  The others are answers of the server:
\* ORA errors that cost the cursor, that keep it (integrityErrorCodes), and
\* those that have a query sent again, at its execution or at a fetch.
Fault == {"refuse", "deferred", "abort", "start", "drop",
          "error", "integrity", "retry", "fetchRetry"}

ASSUME StatementsAssumption ==
  /\ Queries \subseteq Users /\ Blocks \subseteq Users /\ Queries \cap Blocks = {}
  /\ Lobs \subseteq Queries /\ Nobody \notin Users
  /\ Rows \in Nat /\ Want \in Nat \ {0} /\ MaxResults \in Nat /\ LobRows \in BOOLEAN
  /\ Faults \subseteq Fault /\ Ops \subseteq {"query", "update", "schema"}
  /\ MaxCursors \in Nat /\ MaxMade \in Nat /\ MaxOps \in Nat

VARIABLES
  mu,        \* Conn.mu
  toClose,   \* Conn.cursorsToClose
  stm,       \* the ttc.Statements made so far; an object is an index of it
  pc, op,    \* where each user's goroutine is, and in which operation
  obj,       \* the ttc.Statement it works on
  second,    \* the message in progress is in its define pass
  prepared,  \* statementImpl.prepared, 0 for nil
  readers,   \* the statements owned by the record readers of each user
  ops,       \* operations begun
  req, resp, \* the request and the response under way, <<>> for none
  cursors    \* the cursors of the session at the server

vars == <<mu, toClose, stm, pc, op, obj, second, prepared, readers, ops, req, resp, cursors>>

---------------------------------------------------------------------------
Ids == 1 .. MaxCursors

\* A ttc.Statement; "implicit" is 0 for nil, and "rows" counts the rows its
\* reader has got, which only properties read.
Statement ==
  [user: Users, child: BOOLEAN, cursor: 0 .. MaxCursors, define: BOOLEAN, noPrefetch: BOOLEAN,
   more: BOOLEAN, closed: BOOLEAN, implicit: Nat, rows: Nat]

NewStatement(u, child, id) ==
  [user |-> u, child |-> child, cursor |-> id, define |-> FALSE, noPrefetch |-> FALSE,
   more |-> child, closed |-> FALSE, implicit |-> 0, rows |-> 0]

\* kind == KindQuery; the children of a block are queries.
IsQuery(s) == s.child \/ s.user \in Queries

\* Its columns need a define pass.  What a child has is described once, as it
\* is made, and noPrefetch keeps it.
HasLobs(s) == IF s.child THEN s.noPrefetch ELSE s.user \in Lobs

\* A cursor at the server: whose it is, whether it has been executed and its
\* columns are defined or need not be, and the rows it has left.
Free == [owner |-> 0, ran |-> FALSE, defined |-> FALSE, left |-> 0]
Open == {id \in Ids : cursors[id].owner # 0}

MayMake == Cardinality({o \in DOMAIN stm : ~stm[o].child}) < MaxMade

Goto(u, step) == pc' = [pc EXCEPT ![u] = step]

\* The rows of a statement are delivered to a reader, or there are none.
Delivers(u) == op[u] \in {"query", "fetch"}

\* Zero is a cursor like any other.
FaultyAddCursor(list, id) == Append(list, id)

\* addCursorToClose.
AddCursor(list, id) == IF id = 0 THEN list ELSE Append(list, id)

---------------------------------------------------------------------------
(* Closing.                                                                *)

\* The id of a closed statement is not put on the list.
FaultyClose(u) ==
  /\ pc[u] = "close" /\ mu = Nobody
  /\ stm' = [stm EXCEPT ![obj[u]].cursor = 0]
  /\ Goto(u, "idle")
  /\ UNCHANGED <<mu, toClose, op, obj, second, prepared, readers, ops, req, resp, cursors>>

\* Statement.Close after its "closed" check: the lock, the id noted, and zero.
Close(u) ==
  /\ pc[u] = "close" /\ mu = Nobody
  /\ toClose' = AddCursor(toClose, stm[obj[u]].cursor)
  /\ stm' = [stm EXCEPT ![obj[u]].cursor = 0]
  /\ Goto(u, "idle")
  /\ UNCHANGED <<mu, op, obj, second, prepared, readers, ops, req, resp, cursors>>

\* Statement.Close of o, from a user that does not hold the lock, where s are
\* the statements by then.  A closed statement is not closed again.
BeginClose(u, o, s) ==
  IF s[o].closed
  THEN stm' = s /\ Goto(u, "idle") /\ UNCHANGED obj
  ELSE stm' = [s EXCEPT ![o].closed = TRUE] /\ Goto(u, "close") /\ obj' = [obj EXCEPT ![u] = o]

\* SetSqlQuery and statementImpl.Close.
CloseStatement(u) ==
  /\ pc[u] = "idle" /\ prepared[u] # 0
  /\ BeginClose(u, prepared[u], stm)
  /\ prepared' = [prepared EXCEPT ![u] = 0]
  /\ UNCHANGED <<mu, toClose, op, second, readers, ops, req, resp, cursors>>

\* The last reference to a reader is released, or its rows are exhausted.
Release(u) ==
  /\ pc[u] = "idle"
  /\ \E o \in readers[u] :
       /\ BeginClose(u, o, stm)
       /\ readers' = [readers EXCEPT ![u] = @ \ {o}]
  /\ UNCHANGED <<mu, toClose, op, second, prepared, ops, req, resp, cursors>>

\* Prepare overwrites whatever is prepared.
Prepare(u) ==
  /\ pc[u] = "idle" /\ ops[u] < MaxOps /\ MayMake
  /\ prepared[u] # 0 => "drop" \in Faults
  /\ stm' = Append(stm, NewStatement(u, FALSE, 0))
  /\ prepared' = [prepared EXCEPT ![u] = Len(stm) + 1]
  /\ ops' = [ops EXCEPT ![u] = @ + 1]
  /\ UNCHANGED <<mu, toClose, pc, op, obj, second, readers, req, resp, cursors>>

---------------------------------------------------------------------------
(* The operations of a user: ExecuteQuery, ExecuteUpdate, ExecuteSchema,   *)
(* and the fetches of a reader's Next.                                     *)

\* statement(): what is prepared, or a new ttc.Statement.  A closed one is
\* refused, with no other effect.
Begin(u) ==
  /\ pc[u] = "idle" /\ ops[u] < MaxOps
  /\ \E name \in Ops : op' = [op EXCEPT ![u] = name]
  /\ IF prepared[u] # 0
     THEN ~stm[prepared[u]].closed /\ UNCHANGED <<stm, prepared>>
     ELSE /\ MayMake
          /\ stm' = Append(stm, NewStatement(u, FALSE, 0))
          /\ prepared' = [prepared EXCEPT ![u] = Len(stm) + 1]
  /\ obj' = [obj EXCEPT ![u] = prepared'[u]]
  /\ Goto(u, "lock")
  /\ ops' = [ops EXCEPT ![u] = @ + 1]
  /\ UNCHANGED <<mu, toClose, second, readers, req, resp, cursors>>

BeginFetch(u) ==
  /\ pc[u] = "idle"
  /\ \E o \in readers[u] :
       /\ ~stm[o].closed /\ stm[o].more
       /\ obj' = [obj EXCEPT ![u] = o]
  /\ op' = [op EXCEPT ![u] = "fetch"]
  /\ Goto(u, "lock")
  /\ UNCHANGED <<mu, toClose, stm, second, prepared, readers, ops, req, resp, cursors>>

\* A statement that is to be closed is closed before the lock is released.
FaultyFail(u, s) ==
  /\ UNCHANGED <<prepared, readers, obj>>
  /\ IF op[u] = "fetch" \/ (op[u] = "query" /\ IsQuery(s[obj[u]]))
     THEN stm' = [s EXCEPT ![obj[u]].closed = TRUE] /\ Goto(u, "relock") /\ UNCHANGED mu
     ELSE stm' = s /\ Goto(u, "idle") /\ mu' = Nobody

\* Execute or Fetch fails, and the lock is released.  A reader whose fetch
\* fails closes its statement, and so does one whose query fails (abandon);
\* elsewhere the statement stays prepared.
Fail(u, s) ==
  /\ mu' = Nobody
  /\ UNCHANGED prepared
  /\ IF op[u] = "fetch" \/ (op[u] = "query" /\ IsQuery(s[obj[u]]))
     THEN BeginClose(u, obj[u], s) /\ readers' = [readers EXCEPT ![u] = @ \ {obj[u]}]
     ELSE stm' = s /\ Goto(u, "idle") /\ UNCHANGED <<obj, readers>>

\* A query passes to a reader; so does the implicit result of a block.
StartReader(u, o, s) ==
  \/ /\ readers' = [readers EXCEPT ![u] = @ \cup {o}]
     /\ prepared' = IF s[o].child THEN prepared ELSE [prepared EXCEPT ![u] = 0]
     /\ stm' = s /\ Goto(u, "idle") /\ UNCHANGED obj
  \/ "start" \in Faults /\ BeginClose(u, o, s) /\ UNCHANGED <<readers, prepared>>

\* Execute or Fetch succeeds, and the lock is released.
Succeed(u, s) ==
  LET o == obj[u]
      result == IF IsQuery(s[o]) THEN o ELSE s[o].implicit
  IN  /\ mu' = Nobody
      /\ CASE op[u] = "query" /\ result # 0 -> StartReader(u, result, s)
           [] op[u] = "update" /\ result = o ->
                /\ BeginClose(u, o, s)
                /\ prepared' = [prepared EXCEPT ![u] = 0]
                /\ UNCHANGED readers
           [] OTHER -> stm' = s /\ Goto(u, "idle") /\ UNCHANGED <<obj, prepared, readers>>

\* Lock, and the checks before anything is sent.  Execute closes an implicit
\* result left from an earlier execution: Statement.Close, which locks again,
\* so that the goroutine waits for itself ("relock", where no step leaves).
Lock(u) ==
  LET o == obj[u]
      old == stm[o].implicit
  IN  /\ pc[u] = "lock" /\ mu = Nobody
      /\ \/ /\ IF op[u] = "fetch" THEN stm[o].cursor = 0 ELSE "refuse" \in Faults
            /\ Fail(u, stm)
            /\ UNCHANGED second
         \/ /\ op[u] = "fetch" => stm[o].cursor # 0
            /\ mu' = u
            /\ second' = FALSE
            /\ IF op[u] # "fetch" /\ old # 0 /\ ~stm[old].closed
               THEN stm' = [stm EXCEPT ![old].closed = TRUE] /\ Goto(u, "relock")
               ELSE /\ stm' = [stm EXCEPT ![o].implicit = IF op[u] = "fetch" THEN @ ELSE 0]
                    /\ Goto(u, "write")
            /\ UNCHANGED <<obj, prepared, readers>>
  /\ UNCHANGED <<toClose, op, ops, req, resp, cursors>>


---------------------------------------------------------------------------
(* A round trip of the user that holds the lock.                           *)

\* executeMessage.write and fetchMessage.write.  "want" is 0 without FETCH.
\* A define pass neither executes nor binds.
Request(u) ==
  LET s == stm[obj[u]]
      fetches == op[u] = "fetch" /\ ~s.child
  IN  [closes   |-> toClose,
       object   |-> obj[u],
       cursor   |-> s.cursor,
       define   |-> ~fetches /\ s.define,
       exec     |-> op[u] \in {"query", "update"} /\ ~s.define,
       parse    |-> ~fetches /\ s.cursor = 0,
       describe |-> ~fetches /\ (s.cursor = 0 \/ op[u] = "schema"),
       want     |-> IF fetches \/ (IsQuery(s) /\ op[u] # "schema" /\ ~s.noPrefetch) THEN Want ELSE 0]

\* A query is to be fetched from until the server says otherwise.
Started(u) ==
  [stm EXCEPT ![obj[u]].more = @ \/ (IsQuery(stm[obj[u]]) /\ op[u] # "schema")]

\* The list of cursors to close is not emptied.
FaultyWrite(u) ==
  /\ pc[u] = "write" /\ mu = u
  /\ req' = Request(u)
  /\ stm' = Started(u)
  /\ Goto(u, "wait")
  /\ UNCHANGED <<mu, toClose, op, obj, second, prepared, readers, ops, resp, cursors>>

Write(u) ==
  /\ pc[u] = "write" /\ mu = u
  /\ req' = Request(u) /\ toClose' = <<>>
  /\ stm' = Started(u)
  /\ Goto(u, "wait")
  /\ UNCHANGED <<mu, op, obj, second, prepared, readers, ops, resp, cursors>>

\* A bind value does not convert: the request is dropped, and with it the
\* list of cursors to close that writePiggybacks has emptied into it.
WriteDefers(u) ==
  /\ pc[u] = "write" /\ mu = u /\ "deferred" \in Faults /\ Request(u).exec
  /\ toClose' = <<>>
  /\ Fail(u, Started(u))
  /\ UNCHANGED <<op, second, ops, req, resp, cursors>>

(* The server, as execute.go and its comments use it.  It closes what the  *)
(* request asks it to, parses if there is no cursor, and reports the       *)
(* cursor with its answer, be it an error.                                 *)

Closed == [id \in Ids |-> IF id \in ToSet(req.closes) THEN Free ELSE cursors[id]]

Answer(type, id, rows, results) ==
  [type |-> type, cursor |-> id, rows |-> rows, results |-> results,
   describe |-> req.describe /\ id # 0]

\* The cursor that serves the request: the one it names, or for a statement
\* to parse (the children of a block have no SQL) the first that is free.
Serves(id) ==
  /\ req # <<>> /\ id \in Ids
  /\ IF req.cursor # 0 THEN id = req.cursor /\ Closed[id] # Free
     ELSE /\ req.parse /\ ~stm[req.object].child
          /\ Closed[id] = Free /\ \A i \in 1 .. id - 1 : Closed[i] # Free

\* There is none, or the SQL does not parse.
ServerRefuses ==
  /\ req # <<>>
  /\ (\A id \in Ids : ~Serves(id)) \/ (req.parse /\ "error" \in Faults)
  /\ cursors' = Closed
  /\ resp' = Answer("error", 0, 0, <<>>)
  /\ req' = <<>>
  /\ UNCHANGED <<mu, toClose, stm, pc, op, obj, second, prepared, readers, ops>>

\* The rows the server sends for the request, out of those left.
RowsFor(c) ==
  IF c.ran /\ IsQuery(stm[c.owner]) /\ (req.exec /\ HasLobs(stm[c.owner]) => LobRows)
  THEN IF req.want < c.left THEN req.want ELSE c.left
  ELSE 0

\* The request ends in an ORA error.
ServerFails ==
  /\ \E id \in Ids :
       /\ Serves(id)
       /\ \E type \in Faults \cap {"error", "integrity", "retry", "fetchRetry"} :
            /\ type = "integrity" => ~IsQuery(stm[req.object])
            /\ type = "retry" =>
                 /\ IsQuery(stm[req.object]) /\ ~stm[req.object].child
                 /\ req.exec \/ req.define
            /\ type = "fetchRetry" =>
                 /\ ~req.exec /\ ~req.describe
                 /\ ~req.define \/ stm[req.object].child
            /\ resp' = Answer(IF type = "fetchRetry" THEN "retry" ELSE type, id, 0, <<>>)
       /\ cursors' = [Closed EXCEPT ![id].owner = req.object]
  /\ req' = <<>>
  /\ UNCHANGED <<mu, toClose, stm, pc, op, obj, second, prepared, readers, ops>>

\* The statement is executed, if that is asked for, and its columns defined.
Executed(id) ==
  [owner   |-> req.object,
   ran     |-> Closed[id].ran \/ req.exec,
   defined |-> Closed[id].defined \/ req.define,
   left    |-> IF req.exec THEN Rows ELSE Closed[id].left]

\* The request is carried out, and "nodata" is ORA-01403 behind the last row.
ServerAnswers ==
  /\ \E id \in Ids :
       /\ Serves(id)
       /\ LET c == Executed(id)
              n == RowsFor(c)
              end == c.ran /\ IsQuery(stm[c.owner]) /\ c.left = n /\ n < req.want
          IN  /\ resp' = Answer(IF end THEN "nodata" ELSE "ok", id, n, <<>>)
              /\ cursors' = [Closed EXCEPT ![id] = [c EXCEPT !.left = @ - n]]
  /\ req' = <<>>
  /\ UNCHANGED <<mu, toClose, stm, pc, op, obj, second, prepared, readers, ops>>

\* A block returns results: open cursors, executed already, with columns that
\* are to be defined or without.
ServerReturns ==
  /\ \E id \in Ids, results \in UNION {[1 .. n -> Ids] : n \in 1 .. MaxResults}, lobs \in BOOLEAN :
       /\ Serves(id)
       /\ req.exec /\ stm[req.object].user \in Blocks
       /\ IsInjective(results) /\ \A i \in DOMAIN results : results[i] # id /\ Closed[results[i]] = Free
       /\ resp' = Answer("ok", id, 0, results)
       /\ cursors' = [c \in Ids |->
            IF c = id THEN Executed(id)
            ELSE IF c \in ToSet(results)
            THEN [owner |-> req.object, ran |-> TRUE, defined |-> ~lobs, left |-> Rows]
            ELSE Closed[c]]
  /\ req' = <<>>
  /\ UNCHANGED <<mu, toClose, stm, pc, op, obj, second, prepared, readers, ops>>

ServerStep == ServerRefuses \/ ServerFails \/ ServerAnswers \/ ServerReturns

(* The response.                                                           *)

\* processDescribeInfo: a define pass is needed for LOB columns.
Described(s) ==
  IF resp.describe /\ HasLobs(s) THEN [s EXCEPT !.define = TRUE, !.noPrefetch = TRUE] ELSE s

\* Rows are discarded whenever the columns once asked for a define pass.
FaultyDelivered(u, s) ==
  IF Delivers(u) /\ ~s.noPrefetch THEN [s EXCEPT !.rows = @ + resp.rows] ELSE s

\* Rows that come with a description asking for a define pass are discarded.
Delivered(u, s) ==
  IF Delivers(u) /\ ~(resp.describe /\ s.define) THEN [s EXCEPT !.rows = @ + resp.rows] ELSE s

\* The cursor is kept, or the define pass.
FaultyCleared(s) == [s EXCEPT !.define = FALSE, !.noPrefetch = FALSE]
FaultyRedefined(s) == [s EXCEPT !.cursor = 0]

\* clearCursor, but for the list of cursors to close.
Cleared(s) == [s EXCEPT !.cursor = 0, !.define = FALSE, !.noPrefetch = FALSE]

\* The cursor as the response reports it.
Known(s) == IF resp.cursor # 0 THEN resp.cursor ELSE s.cursor

\* The errors after which processErrorInfo clears the cursor.
Clears(s) == resp.type = "retry" \/ (resp.type = "error" /\ Known(s) # 0)

\* processErrorInfo.
Reported(u, s) ==
  LET inFetch == IsQuery(s) /\ op[u] # "schema"
      known == [s EXCEPT !.cursor = Known(s), !.define = @ /\ ~(inFetch /\ resp.rows > 0)]
  IN  CASE resp.type = "nodata" -> [known EXCEPT !.more = FALSE, !.define = FALSE]
        [] Clears(s) -> Cleared(known)
        [] OTHER -> known

\* The statement of a result, as describeInto and processImplicitResult make it.
Child(u, id) ==
  LET lobs == ~cursors[id].defined
  IN  [NewStatement(u, TRUE, id) EXCEPT !.define = lobs, !.noPrefetch = lobs]

\* processImplicitResult: the first result becomes the implicit result ...
Adopt(u, s) ==
  IF resp.results = <<>> THEN s
  ELSE Append([s EXCEPT ![obj[u]].implicit = Len(s) + 1], Child(u, resp.results[1]))

\* (from now on its cursor is that of a statement of its own) ...
Claimed ==
  [id \in Ids |-> IF id \in ToSet(resp.results) THEN [cursors[id] EXCEPT !.owner = Len(stm) + 1]
                                               ELSE cursors[id]]

\* ... and the second one is closed, under the lock that Close takes.
ProcessResults(u) ==
  /\ pc[u] = "wait" /\ resp # <<>> /\ Len(resp.results) > 1
  /\ stm' = Append(Adopt(u, stm),
                   [Child(u, resp.results[2]) EXCEPT !.closed = TRUE])
  /\ Goto(u, "relock")
  /\ UNCHANGED <<mu, toClose, op, obj, second, prepared, readers, ops, req, resp, cursors>>

\* The client cannot process the rows.  The server is broken off, and its
\* answer dropped before the error information that names the cursor.
ProcessAborts(u) ==
  /\ pc[u] = "wait" /\ resp # <<>> /\ resp.rows > 0 /\ "abort" \in Faults
  /\ resp' = <<>>
  /\ Fail(u, [stm EXCEPT ![obj[u]] = Described(@)])
  /\ UNCHANGED <<toClose, op, second, ops, req, cursors>>

\* No define pass.
FaultyNeedsDefine(u, s) == FALSE

\* finish() finds that the columns are still to be defined.
NeedsDefine(u, s) == s.define /\ op[u] # "schema" /\ (op[u] = "fetch" => s.child)

\* The response is processed to its end.  A query whose error asks for it is
\* sent again, and so is, once, a statement that needs a define pass.  For a
\* child that is once in every fetch: Fetch resets m.resend before the second
\* pass, so that finish() asks for another and never clears requiresDefine.
Process(u) ==
  LET o == obj[u]
      s == Reported(u, Delivered(u, Described(stm[o])))
      after == Adopt(u, [stm EXCEPT ![o] = s])
  IN  /\ pc[u] = "wait" /\ resp # <<>> /\ Len(resp.results) <= 1
      /\ toClose' = IF Clears(stm[o]) THEN AddCursor(toClose, Known(stm[o])) ELSE toClose
      /\ resp' = <<>>
      /\ cursors' = Claimed
      /\ CASE resp.type = "retry" ->
                stm' = after /\ Goto(u, "write") /\ UNCHANGED <<mu, obj, second, prepared, readers>>
           [] resp.type \in {"error", "integrity"} ->
                Fail(u, after) /\ UNCHANGED second
           [] resp.type \in {"ok", "nodata"} /\ NeedsDefine(u, s) /\ ~second ->
                /\ stm' = after /\ Goto(u, "write") /\ second' = TRUE
                /\ UNCHANGED <<mu, obj, prepared, readers>>
           [] OTHER -> Succeed(u, after) /\ UNCHANGED second
  /\ UNCHANGED <<op, ops, req>>

UserStep(u) ==
  \/ Close(u) \/ Lock(u) \/ Write(u) \/ WriteDefers(u)
  \/ ProcessResults(u) \/ ProcessAborts(u) \/ Process(u)

\* What a user may do between operations.
UserBegins(u) ==
  CloseStatement(u) \/ Release(u) \/ Prepare(u) \/ Begin(u) \/ BeginFetch(u)

---------------------------------------------------------------------------
Init ==
  /\ mu = Nobody /\ toClose = <<>> /\ stm = <<>>
  /\ pc = [u \in Users |-> "idle"] /\ op = [u \in Users |-> "query"] /\ obj = [u \in Users |-> 0]
  /\ second = FALSE
  /\ prepared = [u \in Users |-> 0] /\ readers = [u \in Users |-> {}] /\ ops = [u \in Users |-> 0]
  /\ req = <<>> /\ resp = <<>>
  /\ cursors = [id \in Ids |-> Free]

\* The users leave it at that.
Idle == (\A u \in Users : pc[u] = "idle") /\ UNCHANGED vars

Next == (\E u \in Users : UserStep(u) \/ UserBegins(u)) \/ ServerStep \/ Idle

Spec == Init /\ [][Next]_vars

\* An operation begun runs on, and the server answers.
FairSpec == Spec /\ (\A u \in Users : WF_vars(UserStep(u))) /\ WF_vars(ServerStep)

---------------------------------------------------------------------------
\* The variables keep their types; cursor ids and statements stay in bounds.
TypeOK ==
  /\ mu \in Users \cup {Nobody}
  /\ toClose \in Seq(Ids)
  /\ stm \in Seq(Statement)
  /\ pc \in [Users -> {"idle", "lock", "write", "wait", "close", "relock"}]
  /\ op \in [Users -> {"query", "update", "schema", "fetch"}]
  /\ obj \in [Users -> 0 .. Len(stm)]
  /\ second \in BOOLEAN
  /\ prepared \in [Users -> 0 .. Len(stm)]
  /\ readers \in [Users -> SUBSET (1 .. Len(stm))]
  /\ ops \in [Users -> 0 .. MaxOps]
  /\ cursors \in [Ids -> [owner: 0 .. Len(stm), ran: BOOLEAN, defined: BOOLEAN, left: 0 .. Rows]]

InFlight == {req.closes[i] : i \in IF req = <<>> THEN {} ELSE DOMAIN req.closes}

\* A request that names a cursor names one the server has open for that very
\* statement, not one closed and opened again for another; and a fetch always
\* names one, as Fetch checks ("oracle: cursor has been closed").
OwnCursor ==
  req # <<>> =>
    \/ req.cursor = 0 /\ req.parse
    \/ req.cursor # 0 /\ req.cursor \notin InFlight /\ cursors[req.cursor].owner = req.object

\* A cursor to be closed is open, is on the list once, and is not held by a
\* statement that may still be used.
ClosesAreDead ==
  LET list == toClose \o IF req = <<>> THEN <<>> ELSE req.closes
  IN  /\ IsInjective(list)
      /\ \A i \in DOMAIN list :
           /\ list[i] \in Open
           /\ \A o \in DOMAIN stm : ~stm[o].closed => stm[o].cursor # list[i]

\* Statements somebody still has: they are in use, or prepared, or read, or
\* the implicit result of such a statement.
Live ==
  LET held == {o \in DOMAIN stm :
                 \E u \in Users : o = prepared[u] \/ o \in readers[u] \/ (pc[u] # "idle" /\ o = obj[u])}
  IN  held \cup {stm[o].implicit : o \in {p \in held : stm[p].implicit # 0}}

\* No cursor leaks: what the server has open is the cursor of a statement that
\* somebody still has, is about to be closed, or is yet to be reported.
OpenIsAccounted ==
  \A id \in Open :
    \/ \E o \in Live : stm[o].cursor = id
    \/ id \in ToSet(toClose) \cup InFlight
    \/ resp # <<>> /\ (id = resp.cursor \/ id \in ToSet(resp.results))

\* A reader that has come to its end has had every row, once.
EveryRowOnce ==
  \A u \in Users : \A o \in readers[u] : ~stm[o].more => stm[o].rows = Rows

\* execute.go: "Execute runs the statement": columns are defined, and rows
\* asked for, of an executed cursor only.
ExecuteRuns ==
  req # <<>> /\ ~req.exec /\ (req.define \/ req.want > 0) =>
    req.cursor # 0 /\ cursors[req.cursor].ran

\* execute.go: "A define pass is required (LOB/JSON columns)": the reader is
\* given no rows of such a query before its columns are defined.
RowsAreDefined ==
  \A u \in Users : \A o \in readers[u] :
    HasLobs(stm[o]) /\ stm[o].rows > 0 => cursors[stm[o].cursor].defined

\* Every operation returns: nobody waits for a lock held for ever.
OperationsEnd == \A u \in Users : pc[u] # "idle" ~> pc[u] = "idle"

\* driver.go: "the next ExecuteQuery on this ADBC statement re-prepares": no
\* adbc statement is left with a ttc.Statement that refuses to execute.
PreparedIsOpen == \A u \in Users : prepared[u] # 0 => ~stm[prepared[u]].closed

=============================================================================
