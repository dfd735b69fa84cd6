-------------------------------- MODULE CApi --------------------------------
(***************************************************************************)
(* The C interface of the driver, pkg/oracle/driver.go: AdbcDatabase,      *)
(* AdbcConnection, AdbcStatement and ArrowArrayStream structs, whose       *)
(* private_data holds a runtime/cgo handle of a Go object; the context     *)
(* each connection and statement cancels; and globalPoison.                *)
(*                                                                         *)
(* adbc.h has the client serialise its calls, but for Cancel, which may    *)
(* come from any thread at any time: "call" is the call in progress, and   *)
(* "canceller" a Cancel beside it, one step for each read and write of the *)
(* fields of cancellableContext, which no lock guards.                     *)
(***************************************************************************)
EXTENDS Naturals, FiniteSets

CONSTANTS
  Db, Cn,       \* the structs of a database and of a connection
  Stmts,        \* the structs of statements
  Streams,      \* the structs of array streams
  Options,      \* options a client may set on the connection before it is initialised
  Refused,      \* those the driver refuses
  MaxContexts,  \* bound: contexts made
  MaxCancels    \* bound: calls of Cancel

ASSUME CApiAssumption ==
  /\ Db # Cn /\ Db \notin Stmts /\ Cn \notin Stmts /\ Refused \subseteq Options
  /\ ({Db, Cn} \cup Stmts) \cap Streams = {}
  /\ MaxContexts \in Nat /\ MaxCancels \in Nat

VARIABLES
  version,    \* of the table of functions the client loaded
  poisoned,   \* globalPoison
  data,       \* the structs whose private_data is set
  table,      \* the structs whose handle is in the handle table
  ready,      \* those whose Go object is there: cdb.db, conn.cnxn, cStmt.stmt
  args,       \* cConn.initArgs, not yet applied
  asked,      \* options asked for before Init
  applied,    \* those of them the connection has
  inited,     \* what Init of the connection last returned
  open,       \* the adbc.Connection is not closed
  bound,      \* what each statement has bound: nothing, rows, or a batch of no rows
  ctx,        \* cancellableContext.ctx of each, 0 for nil
  cancel,     \* cancellableContext.cancel of each, as the context it cancels, 0 for nil
  made, dead, \* the contexts made, 1 .. made, and those cancelled
  reader,     \* of each stream: the context it reads under (0: none), references, state
  call,       \* the call in progress
  canceller,  \* the Cancel in progress; "aim" is the context of the call it met
  cancels,    \* calls of Cancel so far
  code        \* "ok" or "failed", as a call that ended with this step returned, or "none"

handles == <<data, table, ready>>
options == <<args, asked, applied, inited>>
contexts == <<ctx, cancel, made, dead>>
cancelling == <<canceller, cancels>>
vars == <<version, poisoned, handles, options, open, bound, contexts, reader, call, cancelling, code>>

---------------------------------------------------------------------------
Cancellable == {Cn} \cup Stmts
Idle == [at |-> "idle", op |-> "none", x |-> Db, fn |-> 0, k |-> 0, out |-> Db]
NoCancel == [at |-> "idle", x |-> Cn, fn |-> 0, aim |-> 0]
NoReader == [k |-> 0, refs |-> 0, state |-> "none"]

\* The flag is not looked at.
FaultyAllocated(x) == x \in data

\* checkDBAlloc, checkConnAlloc, checkStmtAlloc.
Allocated(x) == ~poisoned /\ x \in data

\* checkDBInit, checkConnInit, checkStmtInit.
Initialised(x) == Allocated(x) /\ x \in ready

\* The client makes one call at a time.
Calls == call = Idle

\* setErr, setErrWithDetails, errToAdbcErr: a call ends, having changed nothing
\* else, with a status.
Return(status) ==
  /\ code' = status
  /\ UNCHANGED <<version, poisoned, handles, options, open, bound, contexts, reader, call, cancelling>>

\* A call that only asks the Go object of x, which may refuse.
Ask(x) ==
  /\ Calls
  /\ \E status \in IF Initialised(x) THEN {"ok", "failed"} ELSE {"failed"} : Return(status)

---------------------------------------------------------------------------
(* Databases.                                                              *)

\* A struct gets its handle: one in use is not taken.
New(x, Fresh) ==
  /\ Calls
  /\ IF poisoned \/ x \in data THEN Return("failed")
     ELSE /\ data' = data \cup {x} /\ table' = table \cup {x} /\ code' = "ok" /\ Fresh
          /\ UNCHANGED <<version, poisoned, ready, open, bound, contexts, reader, call, cancelling>>

\* OracleDatabaseNew.
DatabaseNew == New(Db, UNCHANGED options)

\* OracleDatabaseInit.  The options are parsed by Open, not here.
DatabaseInit ==
  /\ Calls
  /\ IF ~Allocated(Db) \/ Db \in ready THEN Return("failed")
     ELSE /\ ready' = ready \cup {Db} /\ code' = "ok"
          /\ UNCHANGED <<version, poisoned, data, table, options, open, bound, contexts, reader, call, cancelling>>

\* OracleDatabaseRelease.
DatabaseRelease ==
  /\ Calls
  /\ IF ~Allocated(Db) THEN Return("failed")
     ELSE /\ data' = data \ {Db} /\ table' = table \ {Db} /\ ready' = ready \ {Db} /\ code' = "ok"
          /\ UNCHANGED <<version, poisoned, options, open, bound, contexts, reader, call, cancelling>>

\* OracleDatabaseSetOption: before Init kept for it, after it passed on.
DatabaseSetOption ==
  IF Allocated(Db) /\ Db \notin ready THEN Calls /\ Return("ok") ELSE Ask(Db)

\* OracleDatabaseGetOption, GetOptionBytes, Double and Int.
DatabaseGetOption == version = "1.1.0" /\ Ask(Db)

\* OracleDatabaseSetOptionBytes, Double and Int.
DatabaseSetOptionTyped == version = "1.1.0" /\ Ask(Db)

---------------------------------------------------------------------------
(* Connections.                                                            *)

\* OracleConnectionNew.
ConnectionNew == New(Cn, args' = {} /\ asked' = {} /\ applied' = {} /\ inited' = "no")

\* OracleConnectionSetOption: kept for Init, or passed on to the connection.
ConnectionSetOption(o) ==
  /\ Calls
  /\ IF ~Allocated(Cn) \/ (Cn \in ready /\ o \in Refused) THEN Return("failed")
     ELSE /\ asked' = asked \cup {o} /\ code' = "ok"
          /\ IF Cn \in ready THEN applied' = applied \cup {o} /\ UNCHANGED args
                            ELSE args' = args \cup {o} /\ UNCHANGED applied
          /\ UNCHANGED <<version, poisoned, handles, inited, open, bound, contexts, reader, call, cancelling>>

\* An option that is refused does not fail the call.
FaultyApplyOptions(done) ==
  /\ applied' = args \ Refused /\ args' = {} /\ inited' = "ok" /\ code' = "ok"

\* The options kept for Init are applied, in the order of a Go map, up to one
\* that is refused; those applied stay, and so do all of them in initArgs.
ApplyOptions(done) ==
  \/ /\ args \cap Refused = {} /\ done = args
     /\ applied' = done /\ args' = {} /\ inited' = "ok" /\ code' = "ok"
  \/ /\ done \subseteq args \ Refused /\ done # args
     /\ applied' = done /\ inited' = "failed" /\ code' = "failed" /\ UNCHANGED args

\* OracleConnectionInit, when the database can be reached.
ConnectionInit ==
  /\ Calls
  /\ IF ~Allocated(Cn) \/ Cn \in ready \/ ~Initialised(Db) THEN Return("failed")
     ELSE /\ ready' = ready \cup {Cn} /\ open' = TRUE
          /\ \E done \in SUBSET args : ApplyOptions(done)
          /\ UNCHANGED <<version, poisoned, data, table, asked, bound, contexts, reader, call, cancelling>>

\* OracleConnectionInit, when Open fails.
ConnectionInitFails ==
  /\ Calls /\ Allocated(Cn) /\ Cn \notin ready /\ Initialised(Db)
  /\ inited' = "failed" /\ code' = "failed"
  /\ UNCHANGED <<version, poisoned, handles, args, asked, applied, open, bound, contexts, reader, call, cancelling>>

\* OracleConnectionGetOption, GetOptionBytes, Double and Int.
ConnectionGetOption == version = "1.1.0" /\ Ask(Cn)

\* OracleConnectionSetOptionBytes, Double and Int.
ConnectionSetOptionTyped == version = "1.1.0" /\ Ask(Cn)

\* OracleConnectionGetStatistics, GetStatisticNames: the driver has neither.
ConnectionStatistics == version = "1.1.0" /\ Calls /\ Return("failed")

\* The context of x is cancelled and dropped, nobody else being at it.
CancelContext(x) ==
  /\ dead' = dead \cup ({cancel[x]} \ {0})
  /\ ctx' = [ctx EXCEPT ![x] = 0] /\ cancel' = [cancel EXCEPT ![x] = 0]
  /\ UNCHANGED made

\* private_data is cleared, but the handle stays in the table.
FaultyForget(x) == data' = data \ {x} /\ ready' = ready \ {x} /\ UNCHANGED table

\* private_data is cleared and the handle deleted.
Forget(x) == data' = data \ {x} /\ table' = table \ {x} /\ ready' = ready \ {x}

\* No client cancels what it is releasing.
Quiet(x) == canceller.at = "idle" \/ canceller.x # x

\* OracleConnectionRelease: closes the adbc.Connection, if there is one, which
\* the statements made from it still refer to.
ConnectionRelease ==
  /\ Calls /\ Quiet(Cn)
  /\ IF ~Allocated(Cn) THEN Return("failed")
     ELSE /\ Forget(Cn) /\ CancelContext(Cn)
          /\ open' = FALSE /\ code' = "ok"
          /\ UNCHANGED <<version, poisoned, options, bound, reader, call, cancelling>>

---------------------------------------------------------------------------
(* Calls under a context: newContext, the Go call, and what is returned.   *)

\* Any thread may ask for no more contexts than the bound.
Begin(x, op, out) ==
  /\ Calls
  /\ IF ~Initialised(x) THEN Return("failed")
     ELSE /\ made < MaxContexts
          /\ call' = [at |-> "check", op |-> op, x |-> x, fn |-> 0, k |-> 0, out |-> out]
          /\ code' = "none"
          /\ UNCHANGED <<version, poisoned, handles, options, open, bound, contexts, reader, cancelling>>

\* OracleConnectionGetInfo, GetObjects: a stream held in memory.
Metadata(t) == t \notin data /\ Begin(Cn, "metadata", t)

\* OracleConnectionGetTableTypes.
TableTypes(t) == t \notin data /\ Begin(Cn, "metadata", t)

\* OracleConnectionGetTableSchema.
TableSchema == Begin(Cn, "plain", Db)

\* OracleConnectionReadPartition, which the driver refuses.
ReadPartition == Begin(Cn, "refused", Db)

\* OracleConnectionCommit, Rollback.
Transact == Begin(Cn, "plain", Db)

\* OracleStatementExecuteQuery, with and without a stream for the result.
Query(s, t) == t \notin data /\ Begin(s, "query", t)
Update(s) == Begin(s, "update", Db)

\* OracleStatementPrepare, which leaves the server alone.
Prepare(s) == Begin(s, "local", Db)

\* OracleStatementExecuteSchema.
ExecuteSchema(s) == version = "1.1.0" /\ Begin(s, "plain", Db)

\* OracleStatementExecutePartitions, which the driver refuses.
ExecutePartitions(s) == Begin(s, "refused", Db)

\* OracleStatementBind, BindStream.
Bind(s, rows) == Begin(s, rows, Db)

\* cancelContext, by a thread that goes from th to next, and at the end to
\* after: c.cancel is looked at, and called as it was or, read again, as it is
\* by now; then the two fields are set to nil, whatever is there.
CancelContextStep(th, next, after) ==
  \/ /\ th.at = "check"
     /\ next = [th EXCEPT !.at = IF cancel[th.x] = 0 THEN "dropCtx" ELSE "fire", !.fn = cancel[th.x]]
     /\ UNCHANGED contexts
  \/ /\ th.at = "fire"
     /\ \E k \in {th.fn, cancel[th.x]} \ {0} : dead' = dead \cup {k}
     /\ next = [th EXCEPT !.at = "dropCtx", !.fn = 0] /\ UNCHANGED <<ctx, cancel, made>>
  \/ /\ th.at = "dropCtx"
     /\ ctx' = [ctx EXCEPT ![th.x] = 0]
     /\ next = [th EXCEPT !.at = "dropCancel"] /\ UNCHANGED <<cancel, made, dead>>
  \/ /\ th.at = "dropCancel"
     /\ cancel' = [cancel EXCEPT ![th.x] = 0]
     /\ next = after /\ UNCHANGED <<ctx, made, dead>>

\* The other thread set c.cancel to nil after th looked, and th calls it.
CallsNil(th) == th.at = "fire" /\ cancel[th.x] = 0

\* newContext cancels what the struct has ...
Supersede ==
  /\ CancelContextStep(call, call', [call EXCEPT !.at = "newCtx"]) /\ code' = "none"
  /\ UNCHANGED <<version, poisoned, handles, options, open, bound, reader, cancelling>>

\* ... sets c.ctx ...
NewCtx ==
  /\ call.at = "newCtx"
  /\ made' = made + 1 /\ ctx' = [ctx EXCEPT ![call.x] = made + 1]
  /\ call' = [call EXCEPT !.at = "newCancel", !.k = made + 1] /\ code' = "none"
  /\ UNCHANGED <<version, poisoned, handles, options, open, bound, cancel, dead, reader, cancelling>>

\* The new cancel function is not kept.
FaultyNewCancel ==
  /\ call.at = "newCancel"
  /\ call' = [call EXCEPT !.at = "give"] /\ code' = "none"
  /\ UNCHANGED <<version, poisoned, handles, options, open, bound, contexts, reader, cancelling>>

\* ... and c.cancel ...
NewCancel ==
  /\ call.at = "newCancel"
  /\ cancel' = [cancel EXCEPT ![call.x] = call.k]
  /\ call' = [call EXCEPT !.at = "give"] /\ code' = "none"
  /\ UNCHANGED <<version, poisoned, handles, options, open, bound, ctx, made, dead, reader, cancelling>>

\* ... and gives the call c.ctx: nil, if a Cancel cleared it since and it is
\* read again.  The Go calls take a nil context for one that is never cancelled.
GiveCtx ==
  /\ call.at = "give"
  /\ \E k \in {call.k, ctx[call.x]} : call' = [call EXCEPT !.at = "run", !.k = k]
  /\ code' = "none"
  /\ UNCHANGED <<version, poisoned, handles, options, open, bound, contexts, reader, cancelling>>

\* Executing with a batch of no rows reads a row it does not have, unless it is
\* an ingestion, which passes over the batch.
EmptyBatch == call.op \in {"query", "update"} /\ bound[call.x] = "empty"

\* Calls that need no server.
Offline == call.op \in {"rows", "empty", "local"} \/ EmptyBatch

\* Bind takes the batch, and an execution gives it up, whatever its outcome.
Rebound ==
  CASE call.op \in {"rows", "empty"} -> [bound EXCEPT ![call.x] = call.op]
    [] call.op \in {"query", "update"} -> [bound EXCEPT ![call.x] = "nothing"]
    [] OTHER -> bound

\* The caller's reference is released and no other is taken.
FaultyExport(t) ==
  /\ data' = data \cup {t} /\ table' = table \cup {t}
  /\ reader' = [reader EXCEPT ![t] = [k |-> call.k, refs |-> 0, state |-> "rows"]]

\* exportRecordReader retains the reader, whose first reference its caller then
\* releases.
Export(t) ==
  /\ data' = data \cup {t} /\ table' = table \cup {t}
  /\ reader' = [reader EXCEPT ![t] =
       [k |-> IF call.op = "query" THEN call.k ELSE 0, refs |-> 1, state |-> "rows"]]

\* The Go call succeeds; with a closed connection none that needs it does.
Succeed ==
  /\ call.at = "run" /\ call.op # "refused" /\ (open \/ Offline)
  /\ IF call.out \in Streams THEN Export(call.out) ELSE UNCHANGED <<data, table, reader>>
  /\ bound' = Rebound /\ call' = Idle /\ code' = "ok"
  /\ UNCHANGED <<version, poisoned, ready, options, open, contexts, cancelling>>

\* It fails: nothing is exported.  What was bound stays if it was not used.
Fail ==
  /\ call.at = "run"
  /\ bound' \in {bound, Rebound} /\ call' = Idle /\ code' = "failed"
  /\ UNCHANGED <<version, poisoned, handles, options, open, contexts, reader, cancelling>>

\* A context that a Cancel clears while its two words are read has a type and
\* no value, and asking it whether it is cancelled panics.
HalfContext ==
  call.at = "give" /\ ctx[call.x] = 0 /\ call.op \in {"metadata", "plain", "query", "update"}

\* It panics: the deferred functions run, and the last of them is poison().
Panic ==
  /\ (call.at = "run" /\ EmptyBatch) \/ HalfContext \/ CallsNil(call)
  /\ poisoned' = TRUE
  /\ bound' \in {bound, Rebound} /\ call' = Idle /\ code' = "failed"
  /\ UNCHANGED <<version, handles, options, open, contexts, reader, cancelling>>

---------------------------------------------------------------------------
(* Statements.                                                             *)

\* OracleStatementNew.
StatementNew(s) ==
  /\ Calls
  /\ IF poisoned THEN Return("failed")
     ELSE IF s \in data \/ ~Initialised(Cn) THEN Return("failed")
     ELSE /\ data' = data \cup {s} /\ table' = table \cup {s} /\ ready' = ready \cup {s}
          /\ bound' = [bound EXCEPT ![s] = "nothing"] /\ code' = "ok"
          /\ UNCHANGED <<version, poisoned, options, open, contexts, reader, call, cancelling>>

\* OracleStatementRelease.
StatementRelease(s) ==
  /\ Calls /\ Quiet(s)
  /\ IF ~Allocated(s) THEN Return("failed")
     ELSE /\ Forget(s) /\ CancelContext(s)
          /\ bound' = [bound EXCEPT ![s] = "nothing"] /\ code' = "ok"
          /\ UNCHANGED <<version, poisoned, options, open, reader, call, cancelling>>

\* OracleStatementSetSqlQuery, SetSubstraitPlan.
StatementSetSql(s) == Ask(s)

\* OracleStatementSetOption.
StatementSetOption(s) == Ask(s)

\* OracleStatementGetParameterSchema.
StatementParameters(s) == Ask(s)

\* OracleStatementGetOption, GetOptionBytes, Double and Int.
StatementGetOption(s) == version = "1.1.0" /\ Ask(s)

\* OracleStatementSetOptionBytes, Double and Int.
StatementSetOptionTyped(s) == version = "1.1.0" /\ Ask(s)

---------------------------------------------------------------------------
(* Cancel, from another thread.                                            *)

\* OracleConnectionCancel, OracleStatementCancel.
BeginCancel(x) ==
  /\ version = "1.1.0" /\ canceller.at = "idle" /\ cancels < MaxCancels /\ Initialised(x)
  /\ canceller' = [at |-> "check", x |-> x, fn |-> 0,
                   aim |-> IF call.at = "run" /\ call.x = x THEN call.k ELSE 0]
  /\ cancels' = cancels + 1 /\ code' = "none"
  /\ UNCHANGED <<version, poisoned, handles, options, open, bound, contexts, reader, call>>

\* cancelContext.
Cancel ==
  /\ CancelContextStep(canceller, canceller', NoCancel) /\ code' = "none"
  /\ UNCHANGED <<version, poisoned, handles, options, open, bound, reader, call, cancels>>

\* A panic of Cancel, while the call beside it goes on.
CancelPanic ==
  /\ CallsNil(canceller)
  /\ poisoned' = TRUE /\ canceller' = NoCancel /\ code' = "failed"
  /\ UNCHANGED <<version, handles, options, open, bound, contexts, reader, call, cancels>>

---------------------------------------------------------------------------
(* Streams.                                                                *)

Released(t) == t \notin data

\* What Next of the reader may come to.  A reader whose context is cancelled,
\* or whose connection is closed, may still have rows it fetched before.
NextStates(r) ==
  IF r.state # "rows" THEN {r.state}
  ELSE {"rows", "end"} \cup (IF r.k # 0 THEN {"failed"} ELSE {})

\* OracleArrayStreamGetNext; maybeError gives the error of the reader.
GetNext(t) ==
  /\ Calls
  /\ IF Released(t) THEN Return("failed")
     ELSE \E state \in NextStates(reader[t]) :
            /\ reader' = [reader EXCEPT ![t].state = state]
            /\ code' = IF state = "failed" THEN "failed" ELSE "ok"
            /\ UNCHANGED <<version, poisoned, handles, options, open, bound, contexts, call, cancelling>>

\* OracleArrayStreamGetSchema: a reader whose context is cancelled has it still.
GetSchema(t) == Calls /\ Return(IF Released(t) THEN "failed" ELSE "ok")

\* OracleArrayStreamGetLastError, OracleErrorFromArrayStream: no error is
\* nil, which is what a stream that is released has too.
StreamError(t) ==
  Calls /\ Return(IF Released(t) \/ reader[t].state # "failed" THEN "none" ELSE "ok")

\* private_data is not cleared: a second release is as good as the first.
FaultyStreamRelease(t) ==
  /\ Calls
  /\ IF Released(t) THEN Return("none")
     ELSE /\ table' = table \ {t} /\ code' = "none"
          /\ reader' = [reader EXCEPT ![t] =
               IF @.refs = 1 THEN NoReader ELSE [@ EXCEPT !.refs = @ - 1]]
          /\ UNCHANGED <<version, poisoned, data, ready, options, open, bound, contexts, call, cancelling>>

\* OracleArrayStreamRelease.
StreamRelease(t) ==
  /\ Calls
  /\ IF Released(t) THEN Return("none")
     ELSE /\ data' = data \ {t} /\ table' = table \ {t}
          /\ reader' = [reader EXCEPT ![t] =
               IF @.refs = 1 THEN NoReader ELSE [@ EXCEPT !.refs = @ - 1]]
          /\ code' = "none"
          /\ UNCHANGED <<version, poisoned, ready, options, open, bound, contexts, call, cancelling>>

---------------------------------------------------------------------------
\* AdbcDriverOracleInit fills the table of functions of a version.
Init ==
  /\ version \in {"1.0.0", "1.1.0"}
  /\ poisoned = FALSE /\ data = {} /\ table = {} /\ ready = {}
  /\ args = {} /\ asked = {} /\ applied = {} /\ inited = "no" /\ open = FALSE
  /\ bound = [s \in Stmts |-> "nothing"]
  /\ ctx = [x \in Cancellable |-> 0] /\ cancel = ctx /\ made = 0 /\ dead = {}
  /\ reader = [t \in Streams |-> NoReader]
  /\ call = Idle /\ canceller = NoCancel /\ cancels = 0
  /\ code = "none"

DatabaseStep ==
  \/ DatabaseNew \/ DatabaseInit \/ DatabaseRelease \/ DatabaseSetOption
  \/ DatabaseGetOption \/ DatabaseSetOptionTyped

ConnectionStep ==
  \/ ConnectionNew \/ ConnectionInit \/ ConnectionInitFails \/ ConnectionRelease
  \/ ConnectionGetOption \/ ConnectionSetOptionTyped \/ ConnectionStatistics
  \/ TableSchema \/ ReadPartition \/ Transact
  \/ \E o \in Options : ConnectionSetOption(o)
  \/ \E t \in Streams : Metadata(t) \/ TableTypes(t)

StatementStep(s) ==
  \/ StatementNew(s) \/ StatementRelease(s) \/ StatementSetSql(s) \/ StatementSetOption(s)
  \/ StatementParameters(s) \/ StatementGetOption(s) \/ StatementSetOptionTyped(s)
  \/ Update(s) \/ Prepare(s) \/ ExecuteSchema(s) \/ ExecutePartitions(s)
  \/ \E t \in Streams : Query(s, t)
  \/ \E rows \in {"rows", "empty"} : Bind(s, rows)

StreamStep(t) == GetNext(t) \/ GetSchema(t) \/ StreamError(t) \/ StreamRelease(t)

CallStep == Supersede \/ NewCtx \/ NewCancel \/ GiveCtx \/ Succeed \/ Fail \/ Panic

CancelStep == (\E x \in Cancellable : BeginCancel(x)) \/ Cancel \/ CancelPanic

Next ==
  \/ DatabaseStep \/ ConnectionStep \/ CallStep \/ CancelStep
  \/ \E s \in Stmts : StatementStep(s)
  \/ \E t \in Streams : StreamStep(t)

Spec == Init /\ [][Next]_vars

---------------------------------------------------------------------------
\* The variables keep their types.
TypeOK ==
  /\ version \in {"1.0.0", "1.1.0"}
  /\ poisoned \in BOOLEAN /\ open \in BOOLEAN
  /\ data \subseteq {Db, Cn} \cup Stmts \cup Streams
  /\ table \subseteq {Db, Cn} \cup Stmts \cup Streams
  /\ ready \subseteq {Db, Cn} \cup Stmts
  /\ args \subseteq Options /\ asked \subseteq Options /\ applied \subseteq Options
  /\ inited \in {"no", "ok", "failed"}
  /\ bound \in [Stmts -> {"nothing", "rows", "empty"}]
  /\ ctx \in [Cancellable -> 0 .. MaxContexts] /\ cancel \in [Cancellable -> 0 .. MaxContexts]
  /\ made \in 0 .. MaxContexts /\ dead \subseteq 1 .. made
  /\ reader \in [Streams -> [k: 0 .. MaxContexts, refs: Nat, state: {"none", "rows", "end", "failed"}]]
  /\ call \in [at: {"idle", "check", "fire", "dropCtx", "dropCancel", "newCtx", "newCancel", "give", "run"},
               op: {"none", "metadata", "plain", "local", "query", "update", "rows", "empty", "refused"},
               x: {Db} \cup Cancellable, fn: 0 .. MaxContexts, k: 0 .. MaxContexts, out: {Db} \cup Streams]
  /\ canceller \in [at: {"idle", "check", "fire", "dropCtx", "dropCancel"}, x: Cancellable,
                    fn: 0 .. MaxContexts, aim: 0 .. MaxContexts]
  /\ cancels \in 0 .. MaxCancels
  /\ code \in {"none", "ok", "failed"}

\* driver.go, createHandle: private_data is the handle.  No struct names a
\* handle that is gone, and no handle stays that no struct names; a stream a
\* client holds keeps its reader, and nothing keeps it afterwards.
HandlesMatch ==
  /\ data = table /\ ready \subseteq data
  /\ \A t \in Streams : reader[t].refs = IF t \in data THEN 1 ELSE 0

\* driver.go: "C allow SetOption before Init ... so set them now": a
\* connection whose Init said OK has every option asked for before.
OptionsApplied == inited = "ok" => applied = asked

\* adbc.h: "Calling this function should make the other functions return
\* ADBC_STATUS_CANCELLED": a Cancel that finds a call in progress and returns
\* while it still is has cancelled the context of that call.
CancelReaches ==
  [][/\ canceller.at # "idle" /\ canceller'.at = "idle"
     /\ canceller.aim # 0 /\ call.at = "run" /\ call.k = canceller.aim
     => canceller.aim \in dead]_vars

\* After a panic no database, connection or statement is made, initialised,
\* released or given an option, and no call begins: what is bound changes, a
\* context is made and a stream appears only for a call that was in progress
\* when the Cancel beside it panicked.
PoisonIsFinal ==
  [][poisoned =>
       /\ poisoned' /\ data' \ Streams = data \ Streams /\ ready' = ready
       /\ applied' = applied /\ cancels' = cancels
       /\ Calls => call' = Idle /\ data' \subseteq data /\ UNCHANGED <<made, bound>>]_vars

\* driver.go, globalPoison: "Flag set if any method panic()ed - afterwards all
\* calls to driver will fail since internal state of driver is unknown".
PoisonedCallsFail == [][poisoned /\ Calls => code' # "ok"]_vars
=============================================================================
