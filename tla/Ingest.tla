------------------------------- MODULE Ingest -------------------------------
(***************************************************************************)
(* Transactions, bound parameters and bulk ingestion of one ADBC           *)
(* connection and one of its statements: driver/oracle/driver.go and       *)
(* bulk_ingest.go, over calls that the server of this module answers.      *)
(*                                                                         *)
(* A row is <<b, i>>: row i of what the b-th Bind or BindStream gave.  A   *)
(* call may succeed, fail at the server, be answered by a response that    *)
(* the client cannot process, or lose the session.                         *)
(***************************************************************************)
EXTENDS Integers, Sequences

CONSTANTS
  Modes,      \* ingest modes: "create", "append", "replace", "create_append"
  Ends,       \* what a client binds: after how many of its rows each batch ends
  BatchRows,  \* ingestBatchRows
  MaxBinds,   \* bound: calls of Bind and BindStream
  MaxFaults   \* bound: calls that do not go well

ASSUME IngestAssumption ==
  /\ Modes \subseteq {"create", "append", "replace", "create_append"}
  /\ Ends \subseteq Seq(Nat)
  /\ \A ends \in Ends : \A j \in DOMAIN ends : j > 1 => ends[j - 1] <= ends[j]
  /\ BatchRows \in Nat \ {0} /\ MaxBinds \in Nat /\ MaxFaults \in Nat

VARIABLES
  db,         \* the server: the table exists, its rows, those not committed
  dead,       \* the session is lost
  autoCommit, closed,   \* of connectionImpl
  txn,        \* Conn.txnInProgress
  unread,     \* the last call's response could not be processed
  sql, target, mode,    \* of statementImpl: SQL and a target table are set
  wanted,     \* which of the two the client set last
  bound,      \* what is bound, and its batches not yet read
  binds,      \* calls of Bind and BindStream so far
  rest,       \* the first and the last row of the last of them not yet read
  exec,       \* the ingestion in progress: its next step, rows of the current batch, total
  faults,     \* calls that did not go well so far
  result      \* what the last call did, whether it went well, and the rows it reports

session == <<db, dead, txn, unread, faults>>
settings == <<autoCommit, closed, sql, target, mode, wanted>>
params == <<bound, binds, rest>>
vars == <<session, settings, params, exec, result>>

---------------------------------------------------------------------------
Nothing == [kind |-> "none", left |-> <<>>, errs |-> FALSE]
Idle == [at |-> "idle", rows |-> <<>>, total |-> 0]
Busy == [op |-> "busy", ok |-> FALSE, n |-> 0]
Failed(op) == [op |-> op, ok |-> FALSE, n |-> 0]
Done(op, n) == [op |-> op, ok |-> TRUE, n |-> n]

\* The rows before the j-th batch, and the batches of bind b.
Before(ends, j) == IF j = 1 THEN 0 ELSE ends[j - 1]

Batches(b, ends) ==
  [j \in DOMAIN ends |->
     [i \in 1 .. ends[j] - Before(ends, j) |-> <<b, Before(ends, j) + i>>]]

Ready == exec = Idle

---------------------------------------------------------------------------
(* The server.                                                             *)

\* The rows of the table as the session sees them.
Seen == db.saved \o db.pending

Committed(d) == [table |-> d.table, saved |-> d.saved \o d.pending, pending |-> <<>>]
RolledBack(d) == [d EXCEPT !.pending = <<>>]
Added(d, rows) == [d EXCEPT !.pending = @ \o rows]

\* A call that would leave the database as "done", or as one of "failed" when
\* it fails, with the flag of the transaction its response carries.
Answers(done, failed) ==
  LET Processed(d, ok, n) ==
        [db |-> d, ok |-> ok, txn |-> d.pending # <<>>, dead |-> FALSE, unread |-> FALSE, faults |-> n]
  IN IF dead THEN {[db |-> db, ok |-> FALSE, txn |-> txn, dead |-> TRUE, unread |-> unread, faults |-> faults]}
     ELSE {Processed(done, TRUE, faults)} \cup
          IF faults = MaxFaults THEN {}
          ELSE {Processed(d, FALSE, faults + 1) : d \in failed} \cup
               {[db |-> done, ok |-> FALSE, txn |-> txn, dead |-> FALSE, unread |-> TRUE, faults |-> faults + 1]} \cup
               {[db |-> RolledBack(d), ok |-> FALSE, txn |-> txn, dead |-> TRUE, unread |-> unread,
                 faults |-> faults + 1] : d \in {db, done}}

\* A call the server refuses, leaving the database as one of ds.
Refuse(ds) ==
  IF dead THEN Answers(db, {})
  ELSE {[db |-> d, ok |-> FALSE, txn |-> d.pending # <<>>, dead |-> FALSE, unread |-> FALSE,
         faults |-> faults] : d \in ds}

\* The response is processed, up to c.txnInProgress.
Serve(a) ==
  db' = a.db /\ dead' = a.dead /\ txn' = a.txn /\ unread' = a.unread /\ faults' = a.faults

\* An array INSERT of rows.  Rows before one that fails are inserted; COMMIT, if
\* asked for, is part of an execution that succeeds.
Insert(rows, commit) ==
  IF ~db.table THEN Refuse({db})
  ELSE LET d == Added(db, rows)
       IN Answers(IF commit THEN Committed(d) ELSE d,
                  {Added(db, SubSeq(rows, 1, k)) : k \in 0 .. Len(rows)})

\* DDL commits what is pending before it does anything else.
CreateTable ==
  IF db.table THEN Refuse({db, Committed(db)})
  ELSE Answers([table |-> TRUE, saved |-> Seen, pending |-> <<>>], {db, Committed(db)})

DropTable ==
  IF ~db.table THEN Refuse({db, Committed(db)})
  ELSE Answers([table |-> FALSE, saved |-> <<>>, pending |-> <<>>], {db, Committed(db)})

---------------------------------------------------------------------------
(* The connection.                                                         *)

\* A call that does nothing but report.
Report(r) == result' = r /\ UNCHANGED <<session, settings, params, exec>>

\* connectionImpl.Commit, Rollback.
EndTransaction(op, done) ==
  /\ Ready
  /\ IF autoCommit THEN Report(Failed(op))
     ELSE \E a \in Answers(done, {db}) :
            /\ Serve(a) /\ result' = IF a.ok THEN Done(op, 0) ELSE Failed(op)
            /\ UNCHANGED <<settings, params, exec>>

Commit == EndTransaction("commit", Committed(db))
Rollback == EndTransaction("rollback", RolledBack(db))

\* connectionImpl.SetOption of autocommit: enabling it commits.
EnableAutoCommit ==
  /\ Ready
  /\ \/ /\ autoCommit \/ ~txn
        /\ autoCommit' = TRUE /\ result' = Done("enable", 0) /\ UNCHANGED session
     \/ /\ ~autoCommit /\ txn
        /\ \E a \in Answers(Committed(db), {db}) :
             /\ Serve(a) /\ autoCommit' = a.ok
             /\ result' = IF a.ok THEN Done("enable", 0) ELSE Failed("enable")
  /\ UNCHANGED <<closed, sql, target, mode, wanted, params, exec>>

DisableAutoCommit ==
  /\ Ready /\ autoCommit' = FALSE /\ result' = Done("disable", 0)
  /\ UNCHANGED <<session, closed, sql, target, mode, wanted, params, exec>>

\* Conn.Close: a rollback if the flag says so, then the logoff, at which the
\* server commits what is pending, and the end of the socket.
Logoff ==
  /\ \E d \in {IF txn THEN RolledBack(db) ELSE Committed(db), RolledBack(db)} :
       db' = IF dead THEN db ELSE d
  /\ dead' = TRUE
  /\ UNCHANGED <<txn, unread, faults>>

\* connectionImpl.Close.
Close ==
  /\ Ready
  /\ IF closed THEN Report(Failed("close"))
     ELSE /\ Logoff /\ closed' = TRUE /\ result' = Done("close", 0)
          /\ UNCHANGED <<autoCommit, sql, target, mode, wanted, params, exec>>

---------------------------------------------------------------------------
(* The statement.                                                          *)

\* statementImpl.SetSqlQuery: an INSERT into the table, with parameters.
SetSqlQuery ==
  /\ Ready /\ sql' = TRUE /\ wanted' = "sql" /\ result' = Done("set", 0)
  /\ UNCHANGED <<session, autoCommit, closed, target, mode, params, exec>>

\* statementImpl.SetOption: the target table and the mode.
SetTarget(m) ==
  /\ Ready /\ target' = TRUE /\ mode' = m /\ wanted' = "target" /\ result' = Done("set", 0)
  /\ UNCHANGED <<session, autoCommit, closed, sql, params, exec>>

\* Bind of a record, or BindStream of a stream that ends well or in an error,
\* in the place of what was bound.
Bind(kind, ends, errs) ==
  /\ Ready /\ binds < MaxBinds
  /\ kind = "record" => Len(ends) = 1 /\ ~errs
  /\ bound' = [kind |-> kind, left |-> Batches(binds + 1, ends), errs |-> errs]
  /\ binds' = binds + 1 /\ rest' = <<1, Before(ends, Len(ends) + 1)>> /\ result' = Done("bind", 0)
  /\ UNCHANGED <<session, settings, exec>>

\* The executions of rows that are bound: array DML, one row at least.
\* bindColumns makes one execution of a record of no rows, whose first value
\* panics.
Execute(rows) ==
  \/ /\ rows = <<>> /\ UNCHANGED session /\ result' = Failed("panic")
  \/ /\ rows # <<>>
     /\ \E a \in Insert(rows, autoCommit) :
          Serve(a) /\ result' = IF a.ok THEN Done("sql", Len(rows)) ELSE Failed("sql")

\* bindColumns when the batch's types cannot be bound: a batch of a stream has
\* been read by then, and what is bound stays.
BindFails ==
  /\ IF bound.kind = "stream"
     THEN /\ bound' = [bound EXCEPT !.left = Tail(@)]
          /\ rest' = [rest EXCEPT ![1] = @ + Len(Head(bound.left))]
     ELSE UNCHANGED <<bound, rest>>
  /\ faults < MaxFaults /\ faults' = faults + 1
  /\ result' = Failed("sql") /\ UNCHANGED <<db, dead, txn, unread>>

\* ExecuteQuery, ExecuteUpdate: which of the two is executed.
Ingests == target /\ bound.kind # "none"

\* ExecuteUpdate of the SQL, with the record, or the first batch of the stream.
ExecuteSql ==
  /\ Ready /\ ~Ingests
  /\ \/ /\ ~sql \/ bound.left = <<>>
        /\ Report(Failed("sql"))
     \/ /\ sql /\ bound.left # <<>>
        /\ Execute(Head(bound.left)) /\ bound' = Nothing
        /\ UNCHANGED <<settings, binds, rest, exec>>
     \/ /\ sql /\ bound.left # <<>>
        /\ BindFails
        /\ UNCHANGED <<settings, binds, exec>>

\* executeIngest, up to the DDL of the mode.
BeginIngest ==
  /\ Ready /\ Ingests
  /\ exec' = [Idle EXCEPT !.at = CASE mode = "append" -> "pump" [] mode = "replace" -> "drop"
                                   [] OTHER -> "create"]
  /\ result' = Busy
  /\ UNCHANGED <<session, settings, params>>

\* The deferred calls, and what executeIngest returns.
EndIngest(r) == exec' = Idle /\ bound' = Nothing /\ result' = r

\* A call of the ingestion, and what comes after it.
IngestCall(answers, on, off) ==
  /\ \E a \in answers :
       /\ Serve(a)
       /\ IF a.ok THEN exec' = on /\ UNCHANGED bound /\ result' = Busy
                  ELSE off
  /\ UNCHANGED <<settings, binds, rest>>

\* prepareIngestTarget, DROP TABLE: ORA-00942 is passed over.
Drop ==
  /\ exec.at = "drop"
  /\ IngestCall(DropTable, [exec EXCEPT !.at = "create"],
       IF ~db.table /\ ~dead THEN exec' = [exec EXCEPT !.at = "create"] /\ UNCHANGED bound /\ result' = Busy
       ELSE EndIngest(Failed("ddl")))

\* CREATE TABLE: ORA-00955 is passed over when the table may exist.
Create ==
  /\ exec.at = "create"
  /\ IngestCall(CreateTable, [exec EXCEPT !.at = "pump"],
       IF db.table /\ ~dead /\ mode = "create_append"
       THEN exec' = [exec EXCEPT !.at = "pump"] /\ UNCHANGED bound /\ result' = Busy
       ELSE EndIngest(Failed("ddl")))

\* The next batch; those of no rows are passed over.
NextBatch ==
  /\ exec.at = "pump" /\ exec.rows = <<>> /\ bound.left # <<>>
  /\ exec' = [exec EXCEPT !.rows = Head(bound.left)]
  /\ bound' = [bound EXCEPT !.left = Tail(@)]
  /\ UNCHANGED <<session, settings, binds, rest, result>>

Least(m, n) == IF m < n THEN m ELSE n

\* The slice starts again at the first row of its batch when it fails.
FaultyPump ==
  /\ exec.at = "pump" /\ exec.rows # <<>>
  /\ LET n == Least(BatchRows, Len(exec.rows))
     IN IngestCall(Insert(SubSeq(exec.rows, 1, n), autoCommit),
          [exec EXCEPT !.rows = SubSeq(@, n + 1, Len(@)), !.total = @ + n],
          IF dead' THEN EndIngest(Failed("ingest"))
          ELSE UNCHANGED <<exec, bound>> /\ result' = Busy)

\* Every slice is committed, whatever autocommit says.
FaultyCommit ==
  /\ exec.at = "pump" /\ exec.rows # <<>>
  /\ LET n == Least(BatchRows, Len(exec.rows))
     IN IngestCall(Insert(SubSeq(exec.rows, 1, n), TRUE),
          [exec EXCEPT !.rows = SubSeq(@, n + 1, Len(@)), !.total = @ + n],
          EndIngest(Failed("ingest")))

\* Only the first slice of a batch is sent.
FaultySlices ==
  /\ exec.at = "pump" /\ exec.rows # <<>>
  /\ LET n == Least(BatchRows, Len(exec.rows))
     IN IngestCall(Insert(SubSeq(exec.rows, 1, n), autoCommit),
          [exec EXCEPT !.rows = <<>>, !.total = @ + Len(exec.rows)],
          EndIngest(Failed("ingest")))

\* pump: the next slice of the batch.
Pump ==
  /\ exec.at = "pump" /\ exec.rows # <<>>
  /\ LET n == Least(BatchRows, Len(exec.rows))
     IN IngestCall(Insert(SubSeq(exec.rows, 1, n), autoCommit),
          [exec EXCEPT !.rows = SubSeq(@, n + 1, Len(@)), !.total = @ + n],
          EndIngest(Failed("ingest")))

\* A slice whose values cannot be bound.
PumpFails ==
  /\ exec.at = "pump" /\ exec.rows # <<>> /\ faults < MaxFaults
  /\ faults' = faults + 1 /\ EndIngest(Failed("ingest"))
  /\ UNCHANGED <<db, dead, txn, unread, settings, binds, rest>>

\* The stream has ended, in an error or not.
Pumped ==
  /\ exec.at = "pump" /\ exec.rows = <<>> /\ bound.left = <<>>
  /\ EndIngest(IF bound.errs THEN Failed("ingest") ELSE Done("ingest", exec.total))
  /\ UNCHANGED <<session, settings, binds, rest>>

---------------------------------------------------------------------------
Init ==
  /\ db = [table |-> FALSE, saved |-> <<>>, pending |-> <<>>] /\ dead = FALSE
  /\ autoCommit = TRUE /\ closed = FALSE /\ txn = FALSE /\ unread = FALSE
  /\ sql = FALSE /\ target = FALSE /\ mode = "create" /\ wanted = "none"
  /\ bound = Nothing /\ binds = 0 /\ rest = <<1, 0>> /\ exec = Idle /\ faults = 0
  /\ result = Done("open", 0)

ConnectionStep == Commit \/ Rollback \/ EnableAutoCommit \/ DisableAutoCommit \/ Close

StatementStep ==
  \/ SetSqlQuery \/ ExecuteSql \/ BeginIngest
  \/ \E m \in Modes : SetTarget(m)
  \/ \E kind \in {"record", "stream"}, ends \in Ends, errs \in BOOLEAN : Bind(kind, ends, errs)

IngestStep == Drop \/ Create \/ NextBatch \/ Pump \/ PumpFails \/ Pumped

Next == ConnectionStep \/ StatementStep \/ IngestStep

Spec == Init /\ [][Next]_vars

---------------------------------------------------------------------------
Rows == (1 .. MaxBinds) \X Nat

\* The variables keep their types.
TypeOK ==
  /\ db \in [table: BOOLEAN, saved: Seq(Rows), pending: Seq(Rows)]
  /\ dead \in BOOLEAN /\ autoCommit \in BOOLEAN /\ closed \in BOOLEAN /\ txn \in BOOLEAN
  /\ unread \in BOOLEAN /\ sql \in BOOLEAN /\ target \in BOOLEAN
  /\ mode \in Modes \cup {"create"} /\ wanted \in {"none", "sql", "target"}
  /\ bound \in [kind: {"none", "record", "stream"}, left: Seq(Seq(Rows)), errs: BOOLEAN]
  /\ binds \in 0 .. MaxBinds /\ rest \in Nat \X Nat /\ faults \in 0 .. MaxFaults
  /\ exec \in [at: {"idle", "drop", "create", "pump"}, rows: Seq(Rows), total: Nat]
  /\ result.op \in {"open", "set", "bind", "commit", "rollback", "enable", "disable", "close",
                    "busy", "sql", "panic", "ddl", "ingest"}
  /\ result.ok \in BOOLEAN /\ result.n \in Nat

\* bulk_ingest.go: whatever fails between two slices, and whatever is executed
\* again afterwards, the rows there are of one Bind are a run of consecutive
\* rows: none twice, none left out before a later one, none out of order.
RowsInOrder ==
  \A j, k \in DOMAIN Seen :
    j < k /\ Seen[j][1] = Seen[k][1]
    => \E m \in j .. k - 1 : Seen[m] = <<Seen[k][1], Seen[k][2] - 1>>

\* executeIngest returns a number of rows only when it is that of all the rows
\* there were to read, and those are in the table: committed under autocommit.
IngestComplete ==
  result.op = "ingest" /\ result.ok =>
    LET there == IF autoCommit THEN db.saved ELSE Seen
    IN /\ result.n = rest[2] - rest[1] + 1 /\ result.n <= Len(there)
       /\ \A i \in 1 .. result.n : there[Len(there) - result.n + i] = <<binds, rest[1] + i - 1>>

\* driver.go, connectionImpl: "with autocommit off nothing is committed until
\* Commit/Rollback", but for the DDL of an ingestion, for enabling autocommit,
\* and for a transaction whose flag was in a response that was not processed.
\* Enabling it leaves nothing uncommitted, which Commit and Rollback would then
\* refuse to end: the flag it goes by is that of the last response.
CommitsOnRequest ==
  [][/\ ~autoCommit /\ ~unread /\ db'.saved # db.saved
          => result'.op \in {"commit", "enable"} \/ exec.at \in {"drop", "create"}
     /\ ~autoCommit /\ autoCommit' /\ ~unread => db'.pending = <<>>]_vars

\* adbc.h, AdbcStatementSetSqlQuery: "Set the SQL query to execute.  The query
\* can then be executed with AdbcStatementExecute."
SqlIsExecuted == [][exec = Idle /\ exec' # Idle => wanted = "target"]_vars
=============================================================================
