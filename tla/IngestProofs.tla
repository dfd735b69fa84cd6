---------------------------- MODULE IngestProofs ----------------------------
(***************************************************************************)
(* What Ingest guarantees, for streams of any number and size of batches,  *)
(* any slices and any number of faults: of transactions, the flag the      *)
(* driver goes by, and that nothing is committed unasked; of ingestions,   *)
(* that rows arrive in order and, if it says so, that all of them do.      *)
(***************************************************************************)
EXTENDS Ingest, SequenceTheorems, TLAPS

USE IngestAssumption

---------------------------------------------------------------------------
Databases(S) == [table: BOOLEAN, saved: Seq(S), pending: Seq(S)]

Ingestions(S) == [at: {"idle", "drop", "create", "pump"}, rows: Seq(S), total: Nat]
Parameters(S) == [kind: {"none", "record", "stream"}, left: Seq(Seq(S)), errs: BOOLEAN]

\* The rows there are belong to S.
Typed(S) == db \in Databases(S) /\ exec \in Ingestions(S) /\ bound \in Parameters(S)

\* Nothing is pending in a session that is over.
Settled == dead => db.pending = <<>>

\* Conn.txnInProgress is what the server's last answer said, unless that answer
\* was not processed.
FlagKnown == ~dead /\ ~unread => (txn <=> db.pending # <<>>)

Operations ==
  {"open", "set", "bind", "commit", "rollback", "enable", "disable", "close", "busy", "sql", "panic",
   "ddl", "ingest"}
Outcome(r) == r.op \in Operations /\ r.ok \in BOOLEAN /\ r.n \in Nat

\* The types of what holds no rows; a row to be read has a number.
Scalars ==
  /\ dead \in BOOLEAN /\ txn \in BOOLEAN /\ unread \in BOOLEAN /\ faults \in 0 .. MaxFaults
  /\ autoCommit \in BOOLEAN /\ closed \in BOOLEAN /\ sql \in BOOLEAN /\ target \in BOOLEAN
  /\ mode \in Modes \cup {"create"} /\ wanted \in {"none", "sql", "target"}
  /\ binds \in 0 .. MaxBinds /\ rest \in (Nat \ {0}) \X Nat
  /\ Outcome(result)

Base == Typed(Rows) /\ Scalars /\ Settled /\ FlagKnown

---------------------------------------------------------------------------
\* What Committed and RolledBack make of a database.
LEMMA Transactions ==
  ASSUME NEW S, NEW d \in Databases(S)
  PROVE  /\ Committed(d) \in Databases(S) /\ Committed(d).pending = <<>>
         /\ d.pending = <<>> => Committed(d).saved = d.saved
         /\ RolledBack(d) \in Databases(S) /\ RolledBack(d).pending = <<>>
         /\ RolledBack(d).saved = d.saved
<1>1. d.saved \in Seq(S) /\ d.pending \in Seq(S) /\ d.table \in BOOLEAN
  BY DEF Databases
<1>2. d.saved \o d.pending \in Seq(S)
  BY <1>1, ConcatProperties
<1>3. d.saved \o <<>> = d.saved
  BY <1>1, ConcatEmptySeq
<1>4. <<>> \in Seq(S)
  BY EmptySeq
<1>5. Committed(d) = [table |-> d.table, saved |-> d.saved \o d.pending, pending |-> <<>>]
  BY DEF Committed, Databases
<1>6. RolledBack(d) = [table |-> d.table, saved |-> d.saved, pending |-> <<>>]
  BY DEF RolledBack, Databases
<1> QED BY <1>1, <1>2, <1>3, <1>4, <1>5, <1>6 DEF Databases

\* Rows are added to those that are pending.
LEMMA Adding ==
  ASSUME NEW S, NEW d \in Databases(S), NEW rows \in Seq(S)
  PROVE  Added(d, rows) \in Databases(S) /\ Added(d, rows).saved = d.saved
<1>1. d.pending \o rows \in Seq(S)
  BY ConcatProperties DEF Databases
<1> DEFINE longer == d.pending \o rows
<1>2. Added(d, rows) = [d EXCEPT !.pending = longer]
  BY Zenon DEF Added
<1> HIDE DEF longer
<1>3. [d EXCEPT !.pending = longer] = [table |-> d.table, saved |-> d.saved, pending |-> longer]
  BY DEF Databases
<1> QED BY <1>1, <1>2, <1>3 DEF Databases, longer

\* A call is answered with one of the databases it could leave, and the flag
\* that goes with it.
LEMMA AnswersFacts ==
  ASSUME NEW S, Typed(S), Settled, FlagKnown,
         NEW done \in Databases(S), NEW failed \in SUBSET Databases(S),
         NEW a \in Answers(done, failed), Serve(a)
  PROVE  /\ db' \in Databases(S) /\ Settled' /\ FlagKnown'
         /\ a.ok => db' = done
         /\ db'.saved \in {db.saved, done.saved} \cup {d.saved : d \in failed}
<1>1. db \in Databases(S)
  BY DEF Typed
<1>2. db' = a.db /\ dead' = a.dead /\ txn' = a.txn /\ unread' = a.unread
  BY DEF Serve
<1>3. CASE dead
  <2>1. a = [db |-> db, ok |-> FALSE, txn |-> txn, dead |-> TRUE, unread |-> unread, faults |-> faults]
    BY <1>3 DEF Answers
  <2> QED BY <1>1, <1>2, <1>3, <2>1 DEF Settled, FlagKnown
<1>4. CASE ~dead
  <2> DEFINE Processed(d, ok, n) ==
        [db |-> d, ok |-> ok, txn |-> d.pending # <<>>, dead |-> FALSE, unread |-> FALSE, faults |-> n]
  <2>1. \/ a = Processed(done, TRUE, faults)
        \/ \E d \in failed : a = Processed(d, FALSE, faults + 1)
        \/ a = [db |-> done, ok |-> FALSE, txn |-> txn, dead |-> FALSE, unread |-> TRUE, faults |-> faults + 1]
        \/ \E d \in {db, done} :
             a = [db |-> RolledBack(d), ok |-> FALSE, txn |-> txn, dead |-> TRUE, unread |-> unread,
                  faults |-> faults + 1]
    BY <1>4 DEF Answers
  <2>2. CASE a = Processed(done, TRUE, faults)
    BY <1>2, <2>2 DEF Settled, FlagKnown
  <2>3. ASSUME NEW d \in failed, a = Processed(d, FALSE, faults + 1)
        PROVE  /\ db' \in Databases(S) /\ Settled' /\ FlagKnown' /\ ~a.ok /\ db' = d
    BY <1>2, <2>3 DEF Settled, FlagKnown
  <2>4. CASE a = [db |-> done, ok |-> FALSE, txn |-> txn, dead |-> FALSE, unread |-> TRUE,
                  faults |-> faults + 1]
    BY <1>2, <2>4 DEF Settled, FlagKnown
  <2>5. ASSUME NEW d \in {db, done},
               a = [db |-> RolledBack(d), ok |-> FALSE, txn |-> txn, dead |-> TRUE, unread |-> unread,
                    faults |-> faults + 1]
        PROVE  /\ db' \in Databases(S) /\ Settled' /\ FlagKnown' /\ ~a.ok /\ db'.saved = d.saved
    <3>1. d \in Databases(S)
      BY <1>1
    <3>2. RolledBack(d) \in Databases(S) /\ RolledBack(d).pending = <<>> /\ RolledBack(d).saved = d.saved
      BY <3>1, Transactions
    <3> QED BY <1>2, <2>5, <3>2 DEF Settled, FlagKnown
  <2> QED BY <2>1, <2>2, <2>3, <2>4, <2>5
<1> QED BY <1>3, <1>4

\* Taking a call as refused is a case of the same.
LEMMA RefuseFacts ==
  ASSUME NEW S, Typed(S), Settled, FlagKnown, NEW ds \in SUBSET Databases(S),
         NEW a \in Refuse(ds), Serve(a)
  PROVE  /\ db' \in Databases(S) /\ Settled' /\ FlagKnown' /\ ~a.ok
         /\ db'.saved \in {db.saved} \cup {d.saved : d \in ds}
<1>1. db \in Databases(S)
  BY DEF Typed
<1>2. CASE dead
  <2>1. a = [db |-> db, ok |-> FALSE, txn |-> txn, dead |-> TRUE, unread |-> unread, faults |-> faults]
    BY <1>2 DEF Answers, Refuse
  <2> QED BY <1>1, <1>2, <2>1 DEF Serve, Settled, FlagKnown
<1>3. CASE ~dead
  <2>1. PICK d \in ds : a = [db |-> d, ok |-> FALSE, txn |-> d.pending # <<>>, dead |-> FALSE,
                             unread |-> FALSE, faults |-> faults]
    BY <1>3 DEF Refuse
  <2> QED BY <2>1 DEF Serve, Settled, FlagKnown
<1> QED BY <1>2, <1>3

\* An array INSERT leaves what is committed alone unless it is asked to commit.
LEMMA InsertFacts ==
  ASSUME NEW S, Typed(S), Settled, FlagKnown, NEW rows \in Seq(S), NEW commit,
         NEW a \in Insert(rows, commit), Serve(a)
  PROVE  /\ db' \in Databases(S) /\ Settled' /\ FlagKnown'
         /\ ~commit => db'.saved = db.saved
<1>1. db \in Databases(S) /\ db.pending \in Seq(S)
  BY DEF Typed, Databases
<1>2. CASE ~db.table
  <2>1. a \in Refuse({db})
    BY <1>2 DEF Insert
  <2> QED BY <1>1, <2>1, RefuseFacts
<1>3. CASE db.table
  <2> DEFINE full == Added(db, rows)
             part(k) == Added(db, SubSeq(rows, 1, k))
             failed == {part(k) : k \in 0 .. Len(rows)}
             done == IF commit THEN Committed(full) ELSE full
  <2>1. a \in Answers(done, failed)
    BY <1>3 DEF Insert
  <2>2. full \in Databases(S) /\ full.saved = db.saved
    BY <1>1, Adding
  <2>3. ASSUME NEW k \in 0 .. Len(rows)
        PROVE  part(k) \in Databases(S) /\ part(k).saved = db.saved
    <3>1. \A i \in 1 .. k : rows[i] \in S
      BY ElementOfSeq, LenProperties
    <3>2. SubSeq(rows, 1, k) \in Seq(S)
      BY <3>1, SubSeqProperties, LenProperties
    <3> QED BY <1>1, <3>2, Adding
  <2>4. done \in Databases(S) /\ (~commit => done.saved = db.saved)
    BY <2>2, Transactions
  <2>5. failed \in SUBSET Databases(S) /\ \A d \in failed : d.saved = db.saved
    BY <2>3
  <2> HIDE DEF done, failed
  <2>6. /\ db' \in Databases(S) /\ Settled' /\ FlagKnown'
        /\ db'.saved \in {db.saved, done.saved} \cup {d.saved : d \in failed}
    BY <2>1, <2>4, <2>5, AnswersFacts
  <2> QED BY <2>4, <2>5, <2>6
<1> QED BY <1>2, <1>3

\* DDL keeps the session's flag and what is pending in step, too.
LEMMA DefinitionFacts ==
  ASSUME NEW S, Typed(S), Settled, FlagKnown,
         NEW a \in CreateTable \cup DropTable, Serve(a)
  PROVE  db' \in Databases(S) /\ Settled' /\ FlagKnown'
<1> DEFINE made == [table |-> TRUE, saved |-> Seen, pending |-> <<>>]
           gone == [table |-> FALSE, saved |-> <<>>, pending |-> <<>>]
<1>1. db \in Databases(S) /\ Committed(db) \in Databases(S)
  BY Transactions DEF Typed
<1>2. {db, Committed(db)} \in SUBSET Databases(S)
  BY <1>1
<1>3. Seen \in Seq(S) /\ <<>> \in Seq(S)
  BY <1>1, ConcatProperties, EmptySeq DEF Seen, Databases
<1>4. made \in Databases(S)
  BY <1>3 DEF Databases
<1>5. gone \in Databases(S)
  BY EmptySeq DEF Databases
<1>6. \/ a \in Refuse({db, Committed(db)})
      \/ a \in Answers(made, {db, Committed(db)})
      \/ a \in Answers(gone, {db, Committed(db)})
  BY DEF CreateTable, DropTable
<1> HIDE DEF made, gone
<1> QED BY <1>2, <1>4, <1>5, <1>6, RefuseFacts, AnswersFacts

\* The logoff commits only what the flag does not tell of.
LEMMA LogoffFacts ==
  ASSUME NEW S, Typed(S), Settled, FlagKnown, Logoff
  PROVE  /\ db' \in Databases(S) /\ Settled' /\ FlagKnown'
         /\ ~unread => db'.saved = db.saved
<1>1. db \in Databases(S) /\ dead'
  BY DEF Typed, Logoff
<1>2. PICK d \in {IF txn THEN RolledBack(db) ELSE Committed(db), RolledBack(db)} :
        db' = IF dead THEN db ELSE d
  BY DEF Logoff
<1>3. /\ Committed(db) \in Databases(S) /\ Committed(db).pending = <<>>
      /\ db.pending = <<>> => Committed(db).saved = db.saved
      /\ RolledBack(db) \in Databases(S) /\ RolledBack(db).pending = <<>>
      /\ RolledBack(db).saved = db.saved
  BY <1>1, Transactions
<1> QED BY <1>1, <1>2, <1>3 DEF Settled, FlagKnown

---------------------------------------------------------------------------
\* CommitsOnRequest, of one step.
OnRequest ==
  /\ ~autoCommit /\ ~unread /\ db'.saved # db.saved
       => result'.op \in {"commit", "enable"} \/ exec.at \in {"drop", "create"}
  /\ ~autoCommit /\ autoCommit' /\ ~unread => db'.pending = <<>>

\* What a step of S leaves to be shown.
Kept(S) == Typed(S)' /\ Settled' /\ FlagKnown' /\ OnRequest

\* A step that makes no call keeps the session.
LEMMA NoCall ==
  ASSUME NEW S, Typed(S), Settled, FlagKnown, UNCHANGED session, UNCHANGED autoCommit,
         exec' \in Ingestions(S), bound' \in Parameters(S)
  PROVE  Kept(S)
<1>1. UNCHANGED <<db, dead, txn, unread>>
  BY DEF session
<1> QED BY <1>1 DEF Kept, Typed, Settled, FlagKnown, OnRequest

LEMMA IdleTyped ==
  ASSUME NEW S
  PROVE  Idle \in Ingestions(S) /\ Nothing \in Parameters(S)
BY EmptySeq DEF Idle, Nothing, Ingestions, Parameters

LEMMA EndTransactionStep ==
  ASSUME NEW S, Typed(S), Settled, FlagKnown, NEW op, NEW done \in Databases(S),
         EndTransaction(op, done), op = "commit" \/ done.saved = db.saved
  PROVE  Kept(S)
<1>1. UNCHANGED <<exec, bound, autoCommit>>
  BY DEF EndTransaction, Report, settings, params
<1>2. exec' \in Ingestions(S) /\ bound' \in Parameters(S) /\ db \in Databases(S)
  BY <1>1 DEF Typed
<1>3. CASE autoCommit
  BY <1>1, <1>2, <1>3, NoCall DEF EndTransaction, Report
<1>4. CASE ~autoCommit
  <2>1. PICK a \in Answers(done, {db}) :
          Serve(a) /\ result' = IF a.ok THEN Done(op, 0) ELSE Failed(op)
    BY <1>4 DEF EndTransaction
  <2>2. result'.op = op
    BY <2>1 DEF Done, Failed
  <2>3. /\ db' \in Databases(S) /\ Settled' /\ FlagKnown'
        /\ db'.saved \in {db.saved, done.saved} \cup {d.saved : d \in {db}}
    BY <1>2, <2>1, AnswersFacts
  <2> QED BY <1>1, <1>2, <1>4, <2>2, <2>3 DEF Kept, Typed, OnRequest
<1> QED BY <1>3, <1>4

LEMMA EnableStep ==
  ASSUME NEW S, Typed(S), Settled, FlagKnown, EnableAutoCommit
  PROVE  Kept(S)
<1>1. exec' \in Ingestions(S) /\ bound' \in Parameters(S) /\ db \in Databases(S)
  BY DEF EnableAutoCommit, Typed, params
<1>2. CASE UNCHANGED session /\ (autoCommit \/ ~txn)
  <2>1. UNCHANGED <<db, dead, txn, unread>>
    BY <1>2 DEF session
  <2>2. ~unread /\ ~txn => db.pending = <<>>
    BY DEF Settled, FlagKnown
  <2> QED BY <1>1, <1>2, <2>1, <2>2 DEF Kept, Typed, Settled, FlagKnown, OnRequest
<1>3. CASE ~(UNCHANGED session /\ (autoCommit \/ ~txn))
  <2>1. PICK a \in Answers(Committed(db), {db}) :
          /\ Serve(a) /\ autoCommit' = a.ok
          /\ result' = IF a.ok THEN Done("enable", 0) ELSE Failed("enable")
    BY <1>3 DEF EnableAutoCommit
  <2>2. Committed(db) \in Databases(S) /\ Committed(db).pending = <<>>
    BY <1>1, Transactions
  <2>3. db' \in Databases(S) /\ Settled' /\ FlagKnown' /\ (a.ok => db' = Committed(db))
    BY <1>1, <2>1, <2>2, AnswersFacts
  <2>4. result'.op = "enable"
    BY <2>1 DEF Done, Failed
  <2> QED BY <1>1, <2>1, <2>2, <2>3, <2>4 DEF Kept, Typed, OnRequest
<1> QED BY <1>2, <1>3

LEMMA CloseStep ==
  ASSUME NEW S, Typed(S), Settled, FlagKnown, Close
  PROVE  Kept(S)
<1>1. UNCHANGED <<exec, bound, autoCommit>>
  BY DEF Close, Report, settings, params
<1>2. exec' \in Ingestions(S) /\ bound' \in Parameters(S)
  BY <1>1 DEF Typed
<1>3. CASE UNCHANGED session
  BY <1>1, <1>2, <1>3, NoCall
<1>4. CASE Logoff
  <2>1. db' \in Databases(S) /\ Settled' /\ FlagKnown' /\ (~unread => db'.saved = db.saved)
    BY <1>4, LogoffFacts
  <2> QED BY <1>1, <1>2, <2>1 DEF Kept, Typed, OnRequest
<1> QED BY <1>3, <1>4 DEF Close, Report

\* Rows a statement sends are among those that are bound.
LEMMA ExecuteSqlStep ==
  ASSUME NEW S, Typed(S), Settled, FlagKnown, ExecuteSql
  PROVE  Kept(S)
<1>1. UNCHANGED <<exec, autoCommit>> /\ exec' \in Ingestions(S) /\ db \in Databases(S)
  BY DEF ExecuteSql, Report, settings, Typed
<1>2. Nothing \in Parameters(S) /\ bound.left \in Seq(Seq(S))
  BY IdleTyped DEF Typed, Parameters
<1>3. CASE Report(Failed("sql"))
  <2>1. UNCHANGED session /\ UNCHANGED bound
    BY <1>3 DEF Report, params
  <2> QED BY <1>1, <2>1, NoCall DEF Typed
<1>4. CASE bound.left # <<>> /\ Execute(Head(bound.left)) /\ bound' = Nothing
  <2>1. Head(bound.left) \in Seq(S)
    BY <1>2, <1>4, HeadTailProperties
  <2>2. CASE UNCHANGED session
    BY <1>1, <1>2, <1>4, <2>2, NoCall
  <2>3. CASE \E a \in Insert(Head(bound.left), autoCommit) : Serve(a)
    <3>1. /\ db' \in Databases(S) /\ Settled' /\ FlagKnown'
          /\ ~autoCommit => db'.saved = db.saved
      BY <2>1, <2>3, InsertFacts
    <3> QED BY <1>1, <1>2, <1>4, <3>1 DEF Kept, Typed, OnRequest
  <2> QED BY <1>4, <2>2, <2>3 DEF Execute
<1>5. CASE bound.left # <<>> /\ BindFails
  <2>1. UNCHANGED <<db, dead, txn, unread>>
    BY <1>5 DEF BindFails
  <2>2. bound' \in Parameters(S)
    <3>1. CASE bound.kind = "stream"
      <4>1. Tail(bound.left) \in Seq(Seq(S))
        BY <1>2, <1>5, HeadTailProperties
      <4>2. bound' = [bound EXCEPT !.left = Tail(bound.left)]
        BY <1>5, <3>1 DEF BindFails
      <4> QED BY <4>1, <4>2 DEF Typed, Parameters
    <3>2. CASE bound.kind # "stream"
      BY <1>5, <3>2 DEF BindFails, Typed
    <3> QED BY <3>1, <3>2
  <2> QED BY <1>1, <2>1, <2>2 DEF Kept, Typed, Settled, FlagKnown, OnRequest
<1> QED BY <1>3, <1>4, <1>5 DEF ExecuteSql

\* DDL commits, as is said of it; neither it nor a slice touches the setting.
LEMMA DefinitionStep ==
  ASSUME NEW S, Typed(S), Settled, FlagKnown, Drop \/ Create
  PROVE  Kept(S)
<1>1. exec.at \in {"drop", "create"} /\ UNCHANGED autoCommit
  BY DEF Drop, Create, IngestCall, settings
<1>2. \E a \in CreateTable \cup DropTable : Serve(a)
  BY DEF Drop, Create, IngestCall
<1>3. db' \in Databases(S) /\ Settled' /\ FlagKnown'
  BY <1>2, DefinitionFacts
<1>4. Idle \in Ingestions(S) /\ Nothing \in Parameters(S)
  BY IdleTyped
<1>5. \/ exec' = [exec EXCEPT !.at = "create"] /\ UNCHANGED bound
      \/ exec' = [exec EXCEPT !.at = "pump"] /\ UNCHANGED bound
      \/ exec' = Idle /\ bound' = Nothing
  BY DEF Drop, Create, IngestCall, EndIngest
<1>6. exec' \in Ingestions(S) /\ bound' \in Parameters(S)
  BY <1>4, <1>5 DEF Typed, Ingestions
<1> QED BY <1>1, <1>3, <1>6 DEF Kept, Typed, OnRequest

\* A slice is made of rows of the current batch.
LEMMA PumpStep ==
  ASSUME NEW S, Typed(S), Settled, FlagKnown, Pump
  PROVE  Kept(S)
<1> DEFINE n == Least(BatchRows, Len(exec.rows))
           slice == SubSeq(exec.rows, 1, n)
           later == SubSeq(exec.rows, n + 1, Len(exec.rows))
<1>1. exec.rows \in Seq(S) /\ Len(exec.rows) \in Nat /\ exec \in Ingestions(S)
  BY LenProperties DEF Typed, Ingestions
<1>2. n \in Nat /\ n <= Len(exec.rows)
  BY <1>1 DEF Least
<1>3. \E a \in Insert(slice, autoCommit) :
        /\ Serve(a)
        /\ IF a.ok THEN exec' = [exec EXCEPT !.rows = SubSeq(@, n + 1, Len(@)), !.total = @ + n]
                         /\ UNCHANGED bound /\ result' = Busy
                   ELSE EndIngest(Failed("ingest"))
  BY DEF Pump, IngestCall
<1>4. UNCHANGED autoCommit
  BY DEF Pump, IngestCall, settings
<1>5. \A i \in 1 .. Len(exec.rows) : exec.rows[i] \in S
  BY <1>1, ElementOfSeq
<1> HIDE DEF n
<1>6. slice \in Seq(S)
  BY <1>1, <1>2, <1>5, SubSeqProperties
<1>7. later \in Seq(S)
  BY <1>1, <1>2, <1>5, SubSeqProperties
<1> HIDE DEF slice, later
<1>8. db' \in Databases(S) /\ Settled' /\ FlagKnown' /\ (~autoCommit => db'.saved = db.saved)
  BY <1>3, <1>6, InsertFacts
<1>9. CASE exec' = Idle /\ bound' = Nothing
  BY <1>4, <1>8, <1>9, IdleTyped DEF Kept, Typed, OnRequest
<1>10. CASE exec' = [exec EXCEPT !.rows = later, !.total = exec.total + n] /\ UNCHANGED bound
  <2>1. exec' = [at |-> exec.at, rows |-> later, total |-> exec.total + n]
    BY <1>1, <1>10 DEF Ingestions
  <2>2. exec' \in Ingestions(S)
    BY <1>1, <1>2, <1>7, <2>1 DEF Ingestions
  <2> QED BY <1>4, <1>8, <1>10, <2>2 DEF Kept, Typed, OnRequest
<1> QED BY <1>3, <1>9, <1>10, Zenon DEF EndIngest, later

\* Between the calls of an ingestion its batches are read one by one.
LEMMA ReadStep ==
  ASSUME NEW S, Typed(S), Settled, FlagKnown, BeginIngest \/ NextBatch \/ PumpFails \/ Pumped
  PROVE  Kept(S)
<1>1. UNCHANGED <<db, dead, txn, unread, autoCommit>>
  BY DEF BeginIngest, NextBatch, PumpFails, Pumped, session, settings
<1>2. exec \in Ingestions(S) /\ bound \in Parameters(S) /\ bound.left \in Seq(Seq(S))
      /\ Idle \in Ingestions(S) /\ Nothing \in Parameters(S)
  BY IdleTyped DEF Typed, Parameters
<1>3. exec' \in Ingestions(S) /\ bound' \in Parameters(S)
  <2>1. CASE BeginIngest
    <3>1. \E at \in {"pump", "drop", "create"} : exec' = [Idle EXCEPT !.at = at]
      BY <2>1 DEF BeginIngest
    <3>2. UNCHANGED bound
      BY <2>1 DEF BeginIngest, params
    <3> QED BY <1>2, <3>1, <3>2 DEF Ingestions
  <2>2. CASE NextBatch
    <3>1. Head(bound.left) \in Seq(S) /\ Tail(bound.left) \in Seq(Seq(S))
      BY <1>2, <2>2, HeadTailProperties DEF NextBatch
    <3>2. exec' = [exec EXCEPT !.rows = Head(bound.left)]
      BY <2>2 DEF NextBatch
    <3>3. bound' = [bound EXCEPT !.left = Tail(bound.left)]
      BY <2>2 DEF NextBatch
    <3>4. exec' \in Ingestions(S)
      BY <1>2, <3>1, <3>2 DEF Ingestions
    <3>5. bound' \in Parameters(S)
      BY <1>2, <3>1, <3>3 DEF Parameters
    <3> QED BY <3>4, <3>5
  <2>3. CASE PumpFails \/ Pumped
    BY <1>2, <2>3 DEF PumpFails, Pumped, EndIngest
  <2> QED BY <2>1, <2>2, <2>3
<1> QED BY <1>1, <1>3 DEF Kept, Typed, Settled, FlagKnown, OnRequest

\* The settings.
LEMMA SettingStep ==
  ASSUME NEW S, Typed(S), Settled, FlagKnown,
         DisableAutoCommit \/ SetSqlQuery \/ (\E m \in Modes : SetTarget(m)) \/ UNCHANGED vars
  PROVE  Kept(S)
<1>1. UNCHANGED <<exec, bound>> /\ UNCHANGED session
  BY DEF DisableAutoCommit, SetSqlQuery, SetTarget, vars, params
<1>2. UNCHANGED <<db, dead, txn, unread>> /\ (autoCommit' => autoCommit)
  BY <1>1 DEF DisableAutoCommit, SetSqlQuery, SetTarget, vars, settings, session
<1> QED BY <1>1, <1>2 DEF Kept, Typed, Settled, FlagKnown, OnRequest

\* The batches that are bound are of rows of their own.
LEMMA BatchesTyped ==
  ASSUME NEW b \in 1 .. MaxBinds, NEW ends \in Ends
  PROVE  /\ Batches(b, ends) \in Seq(Seq(Rows)) /\ Len(Batches(b, ends)) = Len(ends)
         /\ Len(ends) \in Nat /\ DOMAIN ends = 1 .. Len(ends)
         /\ \A j \in 1 .. Len(ends) + 1 : Before(ends, j) \in Nat
         /\ \A j \in 1 .. Len(ends) : Before(ends, j) <= Before(ends, j + 1)
         /\ \A j \in 1 .. Len(ends) :
              Batches(b, ends)[j] =
                [i \in 1 .. Before(ends, j + 1) - Before(ends, j) |-> <<b, Before(ends, j) + i>>]
<1>1. /\ Len(ends) \in Nat /\ DOMAIN ends = 1 .. Len(ends)
      /\ \A j \in 1 .. Len(ends) : ends[j] \in Nat
      /\ \A j \in 1 .. Len(ends) : j > 1 => ends[j - 1] <= ends[j]
  BY LenProperties, ElementOfSeq
<1>2. \A j \in 1 .. Len(ends) + 1 : Before(ends, j) \in Nat
  BY <1>1 DEF Before
<1>3. \A j \in 1 .. Len(ends) : Before(ends, j + 1) = ends[j] /\ Before(ends, j) <= ends[j]
  BY <1>1 DEF Before
<1> DEFINE batch(j) == [i \in 1 .. Before(ends, j + 1) - Before(ends, j) |-> <<b, Before(ends, j) + i>>]
<1>4. Batches(b, ends) = [j \in 1 .. Len(ends) |-> batch(j)]
  BY <1>1, <1>3 DEF Batches
<1>5. ASSUME NEW j \in 1 .. Len(ends) PROVE batch(j) \in Seq(Rows)
  <2> PICK m, n : m = Before(ends, j) /\ n = Before(ends, j + 1) - m
    OBVIOUS
  <2>1. m \in Nat /\ n \in Nat
    <3>1. Before(ends, j + 1) = ends[j] /\ Before(ends, j) <= ends[j] /\ ends[j] \in Nat
      BY <1>1, <1>3
    <3>2. m \in Nat /\ m <= ends[j] /\ n = ends[j] - m
      BY <1>2, <3>1
    <3> QED BY <3>1, <3>2
  <2>2. \A i \in 1 .. n : <<b, m + i>> \in Rows
    BY <2>1 DEF Rows
  <2>3. [i \in 1 .. n |-> <<b, m + i>>] \in Seq(Rows)
    BY ONLY <2>1, <2>2, IsASeq
  <2> QED BY <2>3
<1> HIDE DEF batch
<1>6. [j \in 1 .. Len(ends) |-> batch(j)] \in Seq(Seq(Rows))
  BY <1>1, <1>5, IsASeq
<1>7. Len(Batches(b, ends)) = Len(ends)
  BY <1>1, <1>4, <1>6, LenProperties
<1> QED BY <1>1, <1>2, <1>3, <1>4, <1>6, <1>7 DEF batch

LEMMA BindStep ==
  ASSUME Base, NEW kind \in {"record", "stream"}, NEW ends \in Ends, NEW errs \in BOOLEAN,
         Bind(kind, ends, errs)
  PROVE  Kept(Rows)
<1>1. binds + 1 \in 1 .. MaxBinds
  BY DEF Base, Scalars, Bind
<1>2. Batches(binds + 1, ends) \in Seq(Seq(Rows))
  BY <1>1, BatchesTyped
<1>3. bound' \in Parameters(Rows)
  BY <1>2 DEF Bind, Parameters
<1>4. UNCHANGED <<exec, autoCommit>> /\ UNCHANGED session
  BY DEF Bind, settings
<1> QED BY <1>3, <1>4, NoCall DEF Base, Typed

---------------------------------------------------------------------------
\* Rows keep their types, the flag is kept, and no step commits unasked: one case per action.
LEMMA KeptNext ==
  ASSUME Base, [Next]_vars
  PROVE  Kept(Rows)
<1>1. Typed(Rows) /\ Settled /\ FlagKnown /\ db \in Databases(Rows)
  BY DEF Base, Typed
<1>2. CASE Commit
  <2>1. Committed(db) \in Databases(Rows)
    BY <1>1, Transactions
  <2> QED BY <1>1, <1>2, <2>1, EndTransactionStep DEF Commit
<1>3. CASE Rollback
  <2>1. RolledBack(db) \in Databases(Rows) /\ RolledBack(db).saved = db.saved
    BY <1>1, Transactions
  <2> QED BY <1>1, <1>3, <2>1, EndTransactionStep DEF Rollback
<1>4. CASE EnableAutoCommit \/ Close \/ ExecuteSql
  BY <1>1, <1>4, EnableStep, CloseStep, ExecuteSqlStep
<1>5. CASE IngestStep \/ BeginIngest
  BY <1>1, <1>5, DefinitionStep, PumpStep, ReadStep DEF IngestStep
<1>6. CASE DisableAutoCommit \/ SetSqlQuery \/ (\E m \in Modes : SetTarget(m)) \/ UNCHANGED vars
  BY <1>1, <1>6, SettingStep
<1>7. CASE \E kind \in {"record", "stream"}, ends \in Ends, errs \in BOOLEAN : Bind(kind, ends, errs)
  BY <1>7, BindStep
<1> QED
  BY <1>2, <1>3, <1>4, <1>5, <1>6, <1>7 DEF Next, ConnectionStep, StatementStep

\* What a call leaves of the session's scalars.
Session == dead' \in BOOLEAN /\ txn' \in BOOLEAN /\ unread' \in BOOLEAN /\ faults' \in 0 .. MaxFaults

LEMMA AnswersTyped ==
  ASSUME Base, NEW done, NEW failed, NEW ds, NEW a \in Answers(done, failed) \cup Refuse(ds), Serve(a)
  PROVE  Session /\ a.ok \in BOOLEAN
<1>1. /\ dead \in BOOLEAN /\ txn \in BOOLEAN /\ unread \in BOOLEAN /\ faults \in 0 .. MaxFaults
      /\ faults # MaxFaults => faults + 1 \in 0 .. MaxFaults
      /\ dead' = a.dead /\ txn' = a.txn /\ unread' = a.unread /\ faults' = a.faults
  BY DEF Base, Scalars, Serve
<1>2. ASSUME NEW d, NEW f, a \in Answers(d, f) PROVE Session /\ a.ok \in BOOLEAN
  <2>1. /\ a.ok \in BOOLEAN /\ a.dead \in BOOLEAN /\ a.txn \in BOOLEAN /\ a.unread \in BOOLEAN
        /\ a.faults = faults \/ (faults # MaxFaults /\ a.faults = faults + 1)
    <3>1. CASE dead
      <4>1. a = [db |-> db, ok |-> FALSE, txn |-> txn, dead |-> TRUE, unread |-> unread, faults |-> faults]
        BY <1>2, <3>1 DEF Answers
      <4> QED BY <1>1, <4>1
    <3>2. CASE ~dead
      <4> DEFINE Processed(e, ok, n) ==
            [db |-> e, ok |-> ok, txn |-> e.pending # <<>>, dead |-> FALSE, unread |-> FALSE, faults |-> n]
      <4>1. \/ a = Processed(d, TRUE, faults)
            \/ /\ faults # MaxFaults
               /\ \/ \E e \in f : a = Processed(e, FALSE, faults + 1)
                  \/ a = [db |-> d, ok |-> FALSE, txn |-> txn, dead |-> FALSE, unread |-> TRUE,
                          faults |-> faults + 1]
                  \/ \E e \in {db, d} :
                       a = [db |-> RolledBack(e), ok |-> FALSE, txn |-> txn, dead |-> TRUE, unread |-> unread,
                            faults |-> faults + 1]
        BY <1>2, <3>2 DEF Answers
      <4>2. ASSUME NEW e, NEW ok \in BOOLEAN, NEW n, a = Processed(e, ok, n)
            PROVE  /\ a.ok = ok /\ a.dead = FALSE /\ a.unread = FALSE /\ a.faults = n
                   /\ a.txn \in BOOLEAN
        BY <4>2
      <4> HIDE DEF Processed
      <4>3. CASE a = Processed(d, TRUE, faults) \/ \E e \in f : a = Processed(e, FALSE, faults + 1)
        BY <4>1, <4>2, <4>3
      <4>4. ASSUME NEW e, NEW t \in BOOLEAN, NEW b \in BOOLEAN, NEW w \in BOOLEAN, faults # MaxFaults,
                   a = [db |-> e, ok |-> FALSE, txn |-> t, dead |-> b, unread |-> w, faults |-> faults + 1]
            PROVE  /\ a.ok \in BOOLEAN /\ a.dead \in BOOLEAN /\ a.txn \in BOOLEAN /\ a.unread \in BOOLEAN
                   /\ faults # MaxFaults /\ a.faults = faults + 1
        BY <4>4
      <4> QED BY <1>1, <4>1, <4>3, <4>4
    <3> QED BY <3>1, <3>2
  <2> QED BY <1>1, <2>1 DEF Session
<1>3. CASE a \in Refuse(ds)
  <2>1. CASE dead
    BY <1>2, <1>3, <2>1 DEF Refuse
  <2>2. CASE ~dead
    <3>1. PICK d \in ds : a = [db |-> d, ok |-> FALSE, txn |-> d.pending # <<>>, dead |-> FALSE,
                               unread |-> FALSE, faults |-> faults]
      BY <1>3, <2>2 DEF Refuse
    <3> QED BY <1>1, <3>1 DEF Session
  <2> QED BY <2>1, <2>2
<1> QED BY <1>2, <1>3

LEMMA InsertTyped ==
  ASSUME Base, NEW rows, NEW commit, NEW a \in Insert(rows, commit), Serve(a)
  PROVE  Session /\ a.ok \in BOOLEAN
BY AnswersTyped DEF Insert

LEMMA DefinitionTyped ==
  ASSUME Base, NEW a \in CreateTable \cup DropTable, Serve(a)
  PROVE  Session /\ a.ok \in BOOLEAN
BY AnswersTyped DEF CreateTable, DropTable

LEMMA Outcomes ==
  ASSUME NEW op \in Operations, NEW n \in Nat
  PROVE  Outcome(Failed(op)) /\ Outcome(Done(op, n)) /\ Outcome(Busy)
BY DEF Failed, Done, Busy, Operations, Outcome

\* What an execution and an ingestion leave of the scalars.
LEMMA ExecuteTyped ==
  ASSUME Base, ExecuteSql
  PROVE  Session /\ UNCHANGED settings /\ UNCHANGED binds /\ rest' \in (Nat \ {0}) \X Nat /\ Outcome(result)'
<1>1. UNCHANGED settings /\ UNCHANGED binds /\ rest \in (Nat \ {0}) \X Nat
  BY DEF ExecuteSql, Report, params, Base, Scalars
<1>2. UNCHANGED session => Session
  BY DEF Base, Scalars, Session, session
<1>3. bound.left \in Seq(Seq(Rows))
  BY DEF Base, Typed, Parameters
<1>4. CASE Report(Failed("sql"))
  <2>1. UNCHANGED session /\ UNCHANGED rest /\ Outcome(result)'
    BY <1>4, Outcomes DEF Report, params, Operations
  <2> QED BY <1>1, <1>2, <2>1
<1>5. CASE bound.left # <<>> /\ Execute(Head(bound.left)) /\ UNCHANGED rest
  <2>1. Head(bound.left) \in Seq(Rows)
    BY <1>3, <1>5, HeadTailProperties
  <2>2. Len(Head(bound.left)) \in Nat
    BY <2>1, LenProperties
  <2>3. CASE UNCHANGED session /\ result' = Failed("panic")
    BY <1>1, <1>2, <1>5, <2>3, Outcomes DEF Operations
  <2>4. ASSUME NEW a \in Insert(Head(bound.left), autoCommit), Serve(a),
               result' = IF a.ok THEN Done("sql", Len(Head(bound.left))) ELSE Failed("sql")
        PROVE  Session /\ Outcome(result)'
    BY <2>2, <2>4, InsertTyped, Outcomes DEF Operations
  <2> QED BY <1>1, <1>5, <2>3, <2>4 DEF Execute
<1>6. CASE bound.left # <<>> /\ BindFails
  <2>1. Session /\ Outcome(result)'
    BY <1>6, Outcomes DEF BindFails, Base, Scalars, Session, Operations
  <2>2. CASE bound.kind = "stream"
    <3>1. Head(bound.left) \in Seq(Rows)
      BY <1>3, <1>6, HeadTailProperties
    <3>2. PICK n \in Nat : n = Len(Head(bound.left))
      BY <3>1, LenProperties
    <3>3. rest' = [rest EXCEPT ![1] = rest[1] + n]
      BY <1>6, <2>2, <3>2 DEF BindFails
    <3>4. rest' = <<rest[1] + n, rest[2]>>
      BY <1>1, <3>3
    <3> QED BY <1>1, <2>1, <3>2, <3>4
  <2>3. CASE bound.kind # "stream"
    BY <1>1, <1>6, <2>1, <2>3 DEF BindFails
  <2> QED BY <2>2, <2>3
<1> QED BY <1>4, <1>5, <1>6 DEF ExecuteSql, params

LEMMA IngestTyped ==
  ASSUME Base, IngestStep \/ BeginIngest
  PROVE  Scalars'
<1>1. UNCHANGED settings /\ UNCHANGED <<binds, rest>>
  BY DEF IngestStep, BeginIngest, Drop, Create, NextBatch, Pump, PumpFails, Pumped, IngestCall, params
<1>2. /\ Session
      /\ \/ UNCHANGED result
         \/ result' \in {Busy, Failed("ddl"), Failed("ingest"), Done("ingest", exec.total)}
  <2>1. CASE BeginIngest \/ NextBatch \/ Pumped
    <3>1. Session
      BY <2>1 DEF BeginIngest, NextBatch, Pumped, Base, Scalars, Session, session
    <3> QED BY <2>1, <3>1 DEF BeginIngest, NextBatch, Pumped, EndIngest
  <2>2. CASE PumpFails
    BY <2>2 DEF PumpFails, EndIngest, Base, Scalars, Session
  <2>3. CASE Drop \/ Create
    <3>1. \E a \in CreateTable \cup DropTable : Serve(a)
      BY <2>3 DEF Drop, Create, IngestCall
    <3>2. result' \in {Busy, Failed("ddl")}
      BY <2>3 DEF Drop, Create, IngestCall, EndIngest
    <3> QED BY <3>1, <3>2, DefinitionTyped
  <2>4. CASE Pump
    <3>1. \E rows : \E a \in Insert(rows, autoCommit) : Serve(a)
      BY <2>4 DEF Pump, IngestCall
    <3>2. result' \in {Busy, Failed("ingest")}
      BY <2>4 DEF Pump, IngestCall, EndIngest
    <3> QED BY <3>1, <3>2, InsertTyped
  <2> QED BY <2>1, <2>2, <2>3, <2>4 DEF IngestStep
<1>3. exec.total \in Nat
  BY DEF Base, Typed, Ingestions
<1>4. Outcome(result)'
  BY <1>2, <1>3, Outcomes DEF Base, Scalars, Operations
<1> QED BY <1>1, <1>2, <1>4 DEF Base, Scalars, Session, settings

\* The settings and the results, too, keep their types.
LEMMA ScalarsNext ==
  ASSUME Base, [Next]_vars
  PROVE  Scalars'
<1> DEFINE Set == /\ autoCommit \in BOOLEAN /\ closed \in BOOLEAN /\ sql \in BOOLEAN /\ target \in BOOLEAN
                  /\ mode \in Modes \cup {"create"} /\ wanted \in {"none", "sql", "target"}
           Read == binds \in 0 .. MaxBinds /\ rest \in (Nat \ {0}) \X Nat
<1>1. Set /\ Read /\ Outcome(result) /\ (UNCHANGED session => Session)
  BY DEF Base, Scalars, Session, session
<1>2. Set' /\ Read' /\ Outcome(result)' /\ Session => Scalars'
  BY DEF Scalars, Session
<1>3. (UNCHANGED settings => Set') /\ (UNCHANGED <<binds, rest>> => Read')
  BY <1>1 DEF settings
<1>4. CASE Commit \/ Rollback
  <2>1. PICK op, done : op \in {"commit", "rollback"} /\ EndTransaction(op, done)
    BY <1>4 DEF Commit, Rollback
  <2>2. UNCHANGED settings /\ UNCHANGED <<binds, rest>>
    BY <2>1 DEF EndTransaction, Report, params
  <2>3. CASE Report(Failed(op))
    <3>1. UNCHANGED session /\ Outcome(result)'
      BY <2>1, <2>3, Outcomes DEF Report, Operations
    <3> QED BY <1>1, <1>2, <1>3, <2>2, <3>1
  <2>4. ASSUME NEW a \in Answers(done, {db}), Serve(a), result' = IF a.ok THEN Done(op, 0) ELSE Failed(op)
        PROVE  Scalars'
    <3>1. Session
      BY <2>4, AnswersTyped
    <3>2. Outcome(result)'
      BY <2>1, <2>4, Outcomes DEF Operations
    <3> QED BY <1>1, <1>2, <1>3, <2>2, <3>1, <3>2
  <2> QED BY <2>1, <2>3, <2>4 DEF EndTransaction
<1>5. CASE EnableAutoCommit
  <2>1. UNCHANGED <<closed, sql, target, mode, wanted, binds, rest>>
    BY <1>5 DEF EnableAutoCommit, params
  <2>2. CASE autoCommit' = TRUE /\ result' = Done("enable", 0) /\ UNCHANGED session
    BY <1>1, <1>2, <2>1, <2>2, Outcomes DEF Operations
  <2>3. ASSUME NEW a \in Answers(Committed(db), {db}), Serve(a), autoCommit' = a.ok,
               result' = IF a.ok THEN Done("enable", 0) ELSE Failed("enable")
        PROVE  Scalars'
    <3>1. Session /\ a.ok \in BOOLEAN
      BY <2>3, AnswersTyped
    <3>2. Outcome(result)'
      BY <2>3, Outcomes DEF Operations
    <3> QED BY <1>1, <1>2, <2>1, <2>3, <3>1, <3>2
  <2> QED BY <1>5, <2>2, <2>3 DEF EnableAutoCommit
<1>6. CASE Close
  <2>1. CASE Report(Failed("close"))
    <3>1. UNCHANGED settings /\ UNCHANGED session /\ UNCHANGED <<binds, rest>> /\ Outcome(result)'
      BY <2>1, Outcomes DEF Report, params, Operations
    <3> QED BY <1>1, <1>2, <1>3, <3>1
  <2>2. CASE Logoff /\ closed' = TRUE /\ result' = Done("close", 0)
             /\ UNCHANGED <<autoCommit, sql, target, mode, wanted, params, exec>>
    <3>1. Session
      BY <2>2 DEF Logoff, Session, Base, Scalars
    <3>2. UNCHANGED <<binds, rest>> /\ Outcome(result)'
      BY <2>2, Outcomes DEF params, Operations
    <3> QED BY <1>1, <1>2, <1>3, <2>2, <3>1, <3>2
  <2> QED BY <1>6, <2>1, <2>2 DEF Close
<1>7. CASE DisableAutoCommit \/ SetSqlQuery \/ (\E m \in Modes : SetTarget(m))
  <2>1. UNCHANGED session /\ UNCHANGED <<binds, rest>> /\ Outcome(result)'
    BY <1>7, Outcomes DEF DisableAutoCommit, SetSqlQuery, SetTarget, params, Operations
  <2>2. Set'
    BY <1>1, <1>7 DEF DisableAutoCommit, SetSqlQuery, SetTarget
  <2> QED BY <1>1, <1>2, <1>3, <2>1, <2>2
<1>8. ASSUME NEW kind \in {"record", "stream"}, NEW ends \in Ends, NEW errs \in BOOLEAN, Bind(kind, ends, errs)
      PROVE  Scalars'
  <2>1. UNCHANGED session /\ UNCHANGED settings /\ Outcome(result)'
    BY <1>8, Outcomes DEF Bind, Operations
  <2>2. binds + 1 \in 1 .. MaxBinds /\ binds' = binds + 1 /\ rest' = <<1, Before(ends, Len(ends) + 1)>>
    BY <1>8 DEF Bind, Base, Scalars
  <2>3. Len(ends) \in Nat /\ Before(ends, Len(ends) + 1) \in Nat
    BY <2>2, BatchesTyped
  <2>4. Read'
    BY <2>2, <2>3
  <2> QED BY <1>1, <1>2, <1>3, <2>1, <2>4
<1>9. CASE ExecuteSql
  BY <1>9, ExecuteTyped, <1>1, <1>2, <1>3
<1>10. CASE IngestStep \/ BeginIngest
  BY <1>10, IngestTyped
<1>11. CASE UNCHANGED vars
  BY <1>1, <1>2, <1>3, <1>11 DEF vars, params
<1> QED
  BY <1>4, <1>5, <1>6, <1>7, <1>8, <1>9, <1>10, <1>11 DEF Next, ConnectionStep, StatementStep

\* Types, the flag and what is committed, of any step.
LEMMA BaseNext ==
  ASSUME Base, [Next]_vars
  PROVE  Base' /\ OnRequest
<1>1. Kept(Rows) /\ Scalars'
  BY KeptNext, ScalarsNext
<1> QED BY <1>1 DEF Base, Kept

\* Before anything is done there are no rows, and the flag is down.
LEMMA InitBase ==
  ASSUME Init
  PROVE  Base
<1>1. db = [table |-> FALSE, saved |-> <<>>, pending |-> <<>>] /\ exec = Idle /\ bound = Nothing
      /\ ~dead /\ ~txn
  BY DEF Init
<1>2. Typed(Rows) /\ db.pending = <<>>
  BY <1>1, IdleTyped, EmptySeq DEF Typed, Databases
<1>3. Scalars
  <2>1. Outcome(result)
    BY DEF Init, Outcome, Operations, Done
  <2>2. rest \in (Nat \ {0}) \X Nat
    BY DEF Init
  <2>3. binds \in 0 .. MaxBinds /\ faults \in 0 .. MaxFaults
    BY DEF Init
  <2> QED BY <2>1, <2>2, <2>3 DEF Init, Scalars
<1> QED BY <1>1, <1>2, <1>3 DEF Base, Settled, FlagKnown

\* Every variable keeps its type, rows of every number included.
THEOREM TypeCorrect == Spec => []TypeOK
<1>1. Base /\ [Next]_vars => Base'
  BY BaseNext
<1>2. Base => TypeOK
  BY DEF Base, Typed, Databases, Ingestions, Parameters, Scalars, Outcome, Operations, TypeOK
<1> QED BY InitBase, <1>1, <1>2, PTL DEF Spec

\* Conn.txnInProgress says whether the server has something to commit, unless
\* the session is lost or its last response was not processed.
THEOREM FlagIsServers == Spec => [](Settled /\ FlagKnown)
<1>1. Base /\ [Next]_vars => Base'
  BY BaseNext
<1>2. Base => Settled /\ FlagKnown
  BY DEF Base
<1> QED BY InitBase, <1>1, <1>2, PTL DEF Spec

\* driver.go commits nothing unasked while autocommit is off, and leaves nothing
\* uncommitted when it is turned on, whatever is bound, ingested and refused.
THEOREM NothingUnasked == Spec => CommitsOnRequest
<1>1. Base /\ [Next]_vars => Base'
  BY BaseNext
<1>2. Base /\ [Next]_vars =>
        [/\ ~autoCommit /\ ~unread /\ db'.saved # db.saved
              => result'.op \in {"commit", "enable"} \/ exec.at \in {"drop", "create"}
         /\ ~autoCommit /\ autoCommit' /\ ~unread => db'.pending = <<>>]_vars
  BY BaseNext DEF OnRequest
<1> QED BY InitBase, <1>1, <1>2, PTL DEF Spec, CommitsOnRequest

---------------------------------------------------------------------------
(* The rows there are, step by step.                                       *)

\* The rows of a database, and one that begins another.
Of(d) == d.saved \o d.pending
Starts(p, q) == Len(p) <= Len(q) /\ \A i \in 1 .. Len(p) : p[i] = q[i]

LEMMA Joined ==
  ASSUME NEW S, NEW p \in Seq(S), NEW q \in Seq(S)
  PROVE  /\ p \o q \in Seq(S) /\ Len(p) \in Nat /\ Len(q) \in Nat /\ Len(p \o q) = Len(p) + Len(q)
         /\ DOMAIN p = 1 .. Len(p) /\ DOMAIN q = 1 .. Len(q) /\ DOMAIN (p \o q) = 1 .. Len(p) + Len(q)
         /\ \A i \in 1 .. Len(p) : (p \o q)[i] = p[i] /\ p[i] \in S
         /\ \A i \in 1 .. Len(q) : (p \o q)[Len(p) + i] = q[i] /\ q[i] \in S
<1>1. p \o q \in Seq(S) /\ Len(p \o q) = Len(p) + Len(q) /\ Len(p) \in Nat /\ Len(q) \in Nat
      /\ DOMAIN p = 1 .. Len(p) /\ DOMAIN q = 1 .. Len(q)
  BY ConcatProperties, LenProperties
<1>2. DOMAIN (p \o q) = 1 .. Len(p) + Len(q)
  BY <1>1, LenProperties
<1>3. \A i \in 1 .. Len(p) + Len(q) : (p \o q)[i] = IF i <= Len(p) THEN p[i] ELSE q[i - Len(p)]
  BY ConcatProperties
<1>4. \A i \in 1 .. Len(p) : p[i] \in S
  BY ElementOfSeq
<1>5. \A i \in 1 .. Len(q) : q[i] \in S
  BY ElementOfSeq
<1>6. \A i \in 1 .. Len(p) : (p \o q)[i] = p[i]
  BY <1>1, <1>3
<1>7. \A i \in 1 .. Len(q) : (p \o q)[Len(p) + i] = q[i]
  <2> SUFFICES ASSUME NEW i \in 1 .. Len(q) PROVE (p \o q)[Len(p) + i] = q[i]
    OBVIOUS
  <2> PICK m, n, k : m = Len(p) /\ n = Len(q) /\ k = m + i
    OBVIOUS
  <2>1. k \in 1 .. m + n /\ ~(k <= m) /\ k - m = i
    BY <1>1
  <2> QED BY <1>3, <2>1
<1> QED BY <1>1, <1>2, <1>4, <1>5, <1>6, <1>7

LEMMA StartsFacts ==
  ASSUME NEW S, NEW p \in Seq(S), NEW q \in Seq(S)
  PROVE  Starts(p, p) /\ Starts(<<>>, p) /\ Starts(p, p \o q)
<1>1. Len(p) \in Nat /\ Len(<<>>) = 0
  BY LenProperties
<1> QED BY <1>1, Joined DEF Starts

LEMMA StartsOn ==
  ASSUME NEW S, NEW p \in Seq(S), NEW q \in Seq(S), NEW r \in Seq(S), Starts(p, q), Starts(q, r)
  PROVE  Starts(p, r)
<1>1. Len(p) \in Nat /\ Len(q) \in Nat /\ Len(r) \in Nat
  BY LenProperties
<1> QED BY <1>1 DEF Starts

\* What is done to a database is done to the end of its rows.
LEMMA OfFacts ==
  ASSUME NEW S, NEW d \in Databases(S), NEW rows \in Seq(S)
  PROVE  /\ Of(d) \in Seq(S) /\ Of(Committed(d)) = Of(d) /\ Of(Added(d, rows)) = Of(d) \o rows
         /\ Starts(Of(RolledBack(d)), Of(d)) /\ Committed(d).saved = Of(d)
<1>1. d.saved \in Seq(S) /\ d.pending \in Seq(S)
  BY DEF Databases
<1>2. Of(d) \in Seq(S) /\ d.saved \o d.pending \in Seq(S)
  BY <1>1, ConcatProperties DEF Of
<1>3. Committed(d).saved = d.saved \o d.pending /\ Committed(d).pending = <<>>
  BY DEF Committed
<1>4. Of(Committed(d)) = Of(d)
  BY <1>2, <1>3, ConcatEmptySeq DEF Of
<1>5. RolledBack(d).saved = d.saved /\ RolledBack(d).pending = <<>>
  BY Transactions
<1>6. Of(RolledBack(d)) = d.saved
  BY <1>1, <1>5, ConcatEmptySeq DEF Of
<1>7. Added(d, rows).saved = d.saved /\ Added(d, rows).pending = d.pending \o rows
  BY DEF Added, Databases
<1>8. Of(Added(d, rows)) = Of(d) \o rows
  <2> PICK p, q : p = d.saved /\ q = d.pending
    OBVIOUS
  <2>1. p \in Seq(S) /\ q \in Seq(S) /\ rows \in Seq(S)
    BY <1>1
  <2>2. (p \o q) \o rows = p \o (q \o rows)
    BY ONLY <2>1, ConcatAssociative
  <2> QED BY <1>7, <2>2 DEF Of
<1>9. Starts(d.saved, Of(d))
  BY <1>1, StartsFacts DEF Of
<1>10. Committed(d).saved = Of(d)
  BY <1>3 DEF Of
<1> QED BY <1>2, <1>4, <1>6, <1>8, <1>9, <1>10

LEMMA PartFacts ==
  ASSUME NEW S, NEW d \in Databases(S), NEW rows \in Seq(S), NEW k \in 0 .. Len(rows)
  PROVE  /\ Added(d, SubSeq(rows, 1, k)) \in Databases(S)
         /\ Starts(Of(Added(d, SubSeq(rows, 1, k))), Of(d) \o rows)
<1> DEFINE part == SubSeq(rows, 1, k)
<1>1. Len(rows) \in Nat /\ \A i \in 1 .. Len(rows) : rows[i] \in S
  BY LenProperties, ElementOfSeq
<1>2. part \in Seq(S) /\ Len(part) = k /\ \A i \in 1 .. k : part[i] = rows[i]
  <2>1. \A i \in 1 .. k : rows[i] \in S
    BY <1>1
  <2> QED BY <1>1, <2>1, SubSeqProperties
<1> HIDE DEF part
<1>3. Added(d, part) \in Databases(S) /\ Of(Added(d, part)) = Of(d) \o part /\ Of(d) \in Seq(S)
  BY <1>2, Adding, OfFacts
<1> PICK q, m : q = Of(d) /\ m = Len(q)
  OBVIOUS
<1>4. /\ Len(q \o part) = m + k /\ Len(q \o rows) = m + Len(rows) /\ m \in Nat
      /\ \A i \in 1 .. m : (q \o part)[i] = q[i] /\ (q \o rows)[i] = q[i]
      /\ \A i \in 1 .. k : (q \o part)[m + i] = part[i]
      /\ \A i \in 1 .. Len(rows) : (q \o rows)[m + i] = rows[i]
  <2>1. q \in Seq(S) /\ m = Len(q) /\ part \in Seq(S) /\ rows \in Seq(S) /\ Len(part) = k
        /\ Len(rows) \in Nat
    BY <1>1, <1>2, <1>3
  <2>2. /\ Len(q \o part) = Len(q) + Len(part) /\ Len(q) \in Nat
        /\ \A i \in 1 .. Len(q) : (q \o part)[i] = q[i]
        /\ \A i \in 1 .. Len(part) : (q \o part)[Len(q) + i] = part[i]
    <3>1. q \in Seq(S) /\ part \in Seq(S)
      BY <2>1
    <3> QED BY ONLY <3>1, Joined
  <2>3. /\ Len(q \o rows) = Len(q) + Len(rows)
        /\ \A i \in 1 .. Len(q) : (q \o rows)[i] = q[i]
        /\ \A i \in 1 .. Len(rows) : (q \o rows)[Len(q) + i] = rows[i]
    BY ONLY <2>1, Joined
  <2> QED BY ONLY <2>1, <2>2, <2>3
<1>5. ASSUME NEW i \in 1 .. m + k PROVE (q \o part)[i] = (q \o rows)[i]
  <2>1. CASE i <= m
    BY <1>4, <2>1
  <2>2. CASE i > m
    <3> PICK j : j = i - m
      OBVIOUS
    <3>1. j \in 1 .. k /\ j \in 1 .. Len(rows) /\ i = m + j
      BY <1>1, <1>4, <2>2
    <3> QED BY <1>2, <1>4, <3>1
  <2> QED BY <1>4, <2>1, <2>2
<1>6. Starts(q \o part, q \o rows)
  BY <1>1, <1>4, <1>5 DEF Starts
<1> QED BY <1>3, <1>6 DEF part

\* What a call leaves begins, as what it could leave does, with the rows q.
LEMMA AnswersSeen ==
  ASSUME Base, NEW q \in Seq(Rows), Starts(Seen, q),
         NEW done \in Databases(Rows), Starts(Of(done), q),
         NEW failed \in SUBSET Databases(Rows), \A d \in failed : Starts(Of(d), q),
         NEW a \in Answers(done, failed), Serve(a)
  PROVE  Starts(Seen', q) /\ (a.ok => db' = done /\ ~dead' /\ ~dead)
<1>1. db \in Databases(Rows) /\ Seen = Of(db) /\ Seen' = Of(db')
  BY DEF Base, Typed, Of, Seen
<1>2. db' = a.db /\ dead' = a.dead
  BY DEF Serve
<1>3. CASE dead
  <2>1. a = [db |-> db, ok |-> FALSE, txn |-> txn, dead |-> TRUE, unread |-> unread, faults |-> faults]
    BY <1>3 DEF Answers
  <2> QED BY <1>1, <1>2, <2>1
<1>4. CASE ~dead
  <2> DEFINE Processed(d, ok, n) ==
        [db |-> d, ok |-> ok, txn |-> d.pending # <<>>, dead |-> FALSE, unread |-> FALSE, faults |-> n]
  <2>1. \/ a = Processed(done, TRUE, faults)
        \/ \E d \in failed : a = Processed(d, FALSE, faults + 1)
        \/ a = [db |-> done, ok |-> FALSE, txn |-> txn, dead |-> FALSE, unread |-> TRUE, faults |-> faults + 1]
        \/ \E d \in {db, done} :
             a = [db |-> RolledBack(d), ok |-> FALSE, txn |-> txn, dead |-> TRUE, unread |-> unread,
                  faults |-> faults + 1]
    BY <1>4 DEF Answers
  <2>2. CASE a = Processed(done, TRUE, faults)
    BY <1>1, <1>2, <1>4, <2>2
  <2>3. ASSUME NEW d \in failed, a = Processed(d, FALSE, faults + 1) PROVE Starts(Seen', q) /\ ~a.ok
    BY <1>1, <1>2, <2>3
  <2>4. CASE a = [db |-> done, ok |-> FALSE, txn |-> txn, dead |-> FALSE, unread |-> TRUE,
                  faults |-> faults + 1]
    BY <1>1, <1>2, <2>4
  <2>5. ASSUME NEW d \in {db, done},
               a = [db |-> RolledBack(d), ok |-> FALSE, txn |-> txn, dead |-> TRUE, unread |-> unread,
                    faults |-> faults + 1]
        PROVE  Starts(Seen', q) /\ ~a.ok
    <3>1. d \in Databases(Rows) /\ Starts(Of(d), q) /\ db' = RolledBack(d) /\ ~a.ok
      BY <1>1, <1>2, <2>5
    <3>2. /\ Starts(Of(RolledBack(d)), Of(d)) /\ RolledBack(d) \in Databases(Rows)
          /\ Of(d) \in Seq(Rows) /\ Of(RolledBack(d)) \in Seq(Rows)
      BY <3>1, Transactions, OfFacts, EmptySeq
    <3>3. Starts(Of(RolledBack(d)), q)
      BY <3>1, <3>2, StartsOn
    <3> QED BY <1>1, <3>1, <3>3
  <2> QED BY <2>1, <2>2, <2>3, <2>4, <2>5
<1> QED BY <1>3, <1>4

LEMMA RefuseSeen ==
  ASSUME Base, NEW q \in Seq(Rows), Starts(Seen, q),
         NEW ds \in SUBSET Databases(Rows), \A d \in ds : Starts(Of(d), q),
         NEW a \in Refuse(ds), Serve(a)
  PROVE  Starts(Seen', q) /\ ~a.ok
<1>1. Seen' = Of(db') /\ db' = a.db /\ Seen = Of(db)
  BY DEF Of, Seen, Serve
<1>2. CASE dead
  <2>1. a = [db |-> db, ok |-> FALSE, txn |-> txn, dead |-> TRUE, unread |-> unread, faults |-> faults]
    BY <1>2 DEF Answers, Refuse
  <2> QED BY <1>1, <2>1
<1>3. CASE ~dead
  <2>1. PICK d \in ds : a = [db |-> d, ok |-> FALSE, txn |-> d.pending # <<>>, dead |-> FALSE,
                             unread |-> FALSE, faults |-> faults]
    BY <1>3 DEF Refuse
  <2> QED BY <1>1, <2>1
<1> QED BY <1>2, <1>3

\* An INSERT adds some first of its rows, all of them if it goes well.
LEMMA InsertSeen ==
  ASSUME Base, NEW rows \in Seq(Rows), NEW commit \in BOOLEAN, NEW a \in Insert(rows, commit), Serve(a)
  PROVE  /\ Starts(Seen', Seen \o rows)
         /\ a.ok => Seen' = Seen \o rows /\ ~dead' /\ (commit => db'.pending = <<>>)
<1>1. db \in Databases(Rows) /\ Seen = Of(db) /\ Seen' = Of(db') /\ Seen \in Seq(Rows)
  BY OfFacts, EmptySeq DEF Base, Typed, Of, Seen
<1> PICK q : q = Seen \o rows
  OBVIOUS
<1>2. q \in Seq(Rows) /\ Starts(Seen, q)
  BY <1>1, Joined, StartsFacts
<1>3. CASE ~db.table
  <2>1. a \in Refuse({db})
    BY <1>3 DEF Insert
  <2> QED BY <1>1, <1>2, <2>1, RefuseSeen
<1>4. CASE db.table
  <2> DEFINE full == Added(db, rows)
             part(k) == Added(db, SubSeq(rows, 1, k))
             failed == {part(k) : k \in 0 .. Len(rows)}
             done == IF commit THEN Committed(full) ELSE full
  <2>1. a \in Answers(done, failed)
    BY <1>4 DEF Insert
  <2>2. full \in Databases(Rows) /\ Of(full) = q /\ Committed(full) \in Databases(Rows)
        /\ Of(Committed(full)) = q /\ Committed(full).pending = <<>>
    <3>1. full \in Databases(Rows) /\ Of(full) = q
      BY <1>1, Adding, OfFacts
    <3> HIDE DEF full
    <3> QED BY <3>1, Transactions, OfFacts
  <2>3. \A k \in 0 .. Len(rows) : part(k) \in Databases(Rows) /\ Starts(Of(part(k)), q)
    BY <1>1, PartFacts
  <2>4. done \in Databases(Rows) /\ Of(done) = q /\ (commit => done.pending = <<>>)
    BY <2>2
  <2>5. failed \in SUBSET Databases(Rows) /\ \A d \in failed : Starts(Of(d), q)
    BY <2>3
  <2> HIDE DEF done, failed
  <2>6. Starts(Of(done), q)
    BY <1>2, <2>4, StartsFacts
  <2>7. Starts(Seen', q) /\ (a.ok => db' = done /\ ~dead')
    BY <1>2, <2>1, <2>4, <2>5, <2>6, AnswersSeen
  <2> QED BY <1>1, <2>4, <2>7
<1> QED BY <1>3, <1>4

\* DDL and the end of a transaction take rows off the end, or all.
LEMMA DefinitionSeen ==
  ASSUME Base, NEW a \in CreateTable \cup DropTable, Serve(a)
  PROVE  Starts(Seen', Seen)
<1> DEFINE made == [table |-> TRUE, saved |-> Seen, pending |-> <<>>]
           gone == [table |-> FALSE, saved |-> <<>>, pending |-> <<>>]
<1>1. db \in Databases(Rows) /\ Seen = Of(db) /\ Seen \in Seq(Rows) /\ <<>> \in Seq(Rows)
  BY OfFacts, EmptySeq DEF Base, Typed, Of, Seen
<1>2. Starts(Seen, Seen) /\ Starts(<<>>, Seen)
  BY <1>1, StartsFacts
<1>3. Committed(db) \in Databases(Rows) /\ Of(Committed(db)) = Seen
  BY <1>1, Transactions, OfFacts
<1>4. made \in Databases(Rows) /\ Of(made) = Seen
  BY <1>1, ConcatEmptySeq DEF Databases, Of
<1>5. gone \in Databases(Rows) /\ Of(gone) = <<>>
  BY <1>1, ConcatEmptySeq DEF Databases, Of
<1>6. \/ a \in Refuse({db, Committed(db)})
      \/ a \in Answers(made, {db, Committed(db)})
      \/ a \in Answers(gone, {db, Committed(db)})
  BY DEF CreateTable, DropTable
<1> HIDE DEF made, gone
<1>7. {db, Committed(db)} \in SUBSET Databases(Rows) /\ \A d \in {db, Committed(db)} : Starts(Of(d), Seen)
  BY <1>1, <1>2, <1>3
<1> QED BY <1>1, <1>2, <1>4, <1>5, <1>6, <1>7, AnswersSeen, RefuseSeen

LEMMA EndingSeen ==
  ASSUME Base, Commit \/ Rollback \/ EnableAutoCommit \/ Close
  PROVE  Starts(Seen', Seen)
<1>1. db \in Databases(Rows) /\ Seen = Of(db) /\ Seen' = Of(db') /\ Seen \in Seq(Rows)
  BY OfFacts, EmptySeq DEF Base, Typed, Of, Seen
<1>2. Starts(Seen, Seen)
  BY <1>1, StartsFacts
<1>3. /\ Committed(db) \in Databases(Rows) /\ Starts(Of(Committed(db)), Seen)
      /\ RolledBack(db) \in Databases(Rows) /\ Starts(Of(RolledBack(db)), Seen)
  BY <1>1, <1>2, Transactions, OfFacts, EmptySeq
<1>4. ASSUME NEW done \in {Committed(db), RolledBack(db)}, NEW a \in Answers(done, {db}), Serve(a)
      PROVE  Starts(Seen', Seen)
  BY <1>1, <1>2, <1>3, <1>4, AnswersSeen
<1>5. ASSUME UNCHANGED session PROVE Starts(Seen', Seen)
  BY <1>1, <1>2, <1>5 DEF session
<1>6. CASE Commit \/ Rollback
  BY <1>4, <1>5, <1>6 DEF Commit, Rollback, EndTransaction, Report
<1>7. CASE EnableAutoCommit
  BY <1>4, <1>5, <1>7 DEF EnableAutoCommit
<1>8. CASE Close
  <2>1. CASE Logoff
    BY <1>1, <1>2, <1>3, <2>1 DEF Logoff
  <2> QED BY <1>5, <1>8, <2>1 DEF Close, Report
<1> QED BY <1>6, <1>7, <1>8
---------------------------------------------------------------------------
(* In what order they are.                                                 *)

\* RowsInOrder, of any rows.
InOrder(q) ==
  \A j, k \in DOMAIN q :
    j < k /\ q[j][1] = q[k][1] => \E m \in j .. k - 1 : q[m] = <<q[k][1], q[k][2] - 1>>

\* No row is of a bind after b.
Known(q, b) == \A k \in 1 .. Len(q) : q[k][1] <= b

\* The rows of bind b that follow the first "from" of it.
Run(rows, b, from) == \A i \in 1 .. Len(rows) : rows[i] = <<b, from + i>>

\* Batches that take up those rows one after the other, up to row "to".
Continues(left, b, from, to) ==
  \E cut \in [0 .. Len(left) -> Nat] :
    /\ cut[0] = from /\ cut[Len(left)] = to
    /\ \A j \in 1 .. Len(left) :
         Len(left[j]) = cut[j] - cut[j - 1] /\ Run(left[j], b, cut[j - 1])

\* The last n rows are such rows of bind b, and no other row is of it.
Latest(q, b, n, from) ==
  /\ n <= Len(q)
  /\ \A i \in 1 .. n : q[Len(q) - n + i] = <<b, from + i>>
  /\ \A k \in 1 .. Len(q) - n : q[k][1] # b

\* What begins rows in order is in order.
LEMMA Shortened ==
  ASSUME NEW p \in Seq(Rows), NEW q \in Seq(Rows), Starts(p, q), NEW b, InOrder(q), Known(q, b)
  PROVE  /\ InOrder(p) /\ Known(p, b)
         /\ \A f, g : Latest(q, b, 0, f) => Latest(p, b, 0, g)
<1>1. /\ Len(p) \in Nat /\ Len(q) \in Nat /\ DOMAIN p = 1 .. Len(p) /\ DOMAIN q = 1 .. Len(q)
      /\ Len(p) <= Len(q) /\ \A i \in 1 .. Len(p) : p[i] = q[i]
  BY LenProperties DEF Starts
<1>2. InOrder(p)
  <2> SUFFICES ASSUME NEW j \in DOMAIN p, NEW k \in DOMAIN p, j < k, p[j][1] = p[k][1]
               PROVE  \E m \in j .. k - 1 : p[m] = <<p[k][1], p[k][2] - 1>>
    BY DEF InOrder
  <2>1. j \in DOMAIN q /\ k \in DOMAIN q /\ p[j] = q[j] /\ p[k] = q[k]
    BY <1>1
  <2>2. PICK m \in j .. k - 1 : q[m] = <<q[k][1], q[k][2] - 1>>
    BY <2>1 DEF InOrder
  <2>3. m \in 1 .. Len(p)
    BY <1>1
  <2> QED BY <1>1, <2>1, <2>2, <2>3
<1>3. Known(p, b)
  BY <1>1 DEF Known
<1>4. ASSUME NEW f, NEW g, Latest(q, b, 0, f) PROVE Latest(p, b, 0, g)
  BY <1>1, <1>4 DEF Latest
<1> QED BY <1>2, <1>3, <1>4

\* So is what the next rows of the latest bind are added to.
LEMMA Lengthened ==
  ASSUME NEW q \in Seq(Rows), NEW rows \in Seq(Rows), NEW b \in Nat, NEW n \in Nat, NEW from \in Nat,
         InOrder(q), Known(q, b), Latest(q, b, n, from), Run(rows, b, from + n)
  PROVE  /\ InOrder(q \o rows) /\ Known(q \o rows, b)
         /\ Latest(q \o rows, b, n + Len(rows), from)
<1> PICK r, l, w : r = q \o rows /\ l = Len(q) /\ w = Len(rows)
  OBVIOUS
<1>1. /\ r \in Seq(Rows) /\ Len(r) = l + w /\ DOMAIN q = 1 .. l /\ DOMAIN r = 1 .. l + w
      /\ \A i \in 1 .. l : r[i] = q[i]
      /\ \A i \in 1 .. w : r[l + i] = rows[i]
  BY Joined
<1>2. l \in Nat /\ w \in Nat /\ n \in Nat /\ from \in Nat /\ b \in Nat
  BY LenProperties
<1>3. \A i \in 1 .. w : r[l + i] = <<b, from + n + i>>
  BY <1>1 DEF Run
<1>4. /\ n <= l /\ \A i \in 1 .. n : r[l - n + i] = <<b, from + i>>
      /\ \A k \in 1 .. l - n : r[k][1] # b
  <2>1. /\ n <= l /\ \A i \in 1 .. n : q[l - n + i] = <<b, from + i>>
        /\ \A k \in 1 .. l - n : q[k][1] # b
    BY DEF Latest
  <2>2. \A i \in 1 .. n : l - n + i \in 1 .. l
    BY ONLY <1>2, <2>1
  <2>3. \A k \in 1 .. l - n : k \in 1 .. l
    BY ONLY <1>2, <2>1
  <2>4. \A i \in 1 .. n : r[l - n + i] = <<b, from + i>>
    BY <1>1, <2>1, <2>2
  <2>5. \A k \in 1 .. l - n : r[k][1] # b
    BY <1>1, <2>1, <2>3
  <2> QED BY ONLY <2>1, <2>4, <2>5
\* A row is an old one or one of the rows added.
<1>5. ASSUME NEW k \in 1 .. l + w, ~(k \in 1 .. l)
      PROVE  \E i \in 1 .. w : k = l + i /\ r[k] = <<b, from + n + i>>
  <2> PICK i : i = k - l
    OBVIOUS
  <2>1. i \in 1 .. w /\ k = l + i
    <3>1. k \in 1 .. l + w /\ ~(k \in 1 .. l) /\ i = k - l
      BY <1>5
    <3> QED BY ONLY <1>2, <3>1
  <2> QED BY <1>3, <2>1
<1>6. ASSUME NEW j \in 1 .. l + w, NEW k \in 1 .. l + w, j < k, r[j][1] = r[k][1]
      PROVE  \E m \in j .. k - 1 : r[m] = <<r[k][1], r[k][2] - 1>>
  <2>1. CASE k \in 1 .. l
    <3>1. j \in 1 .. l
      <4>1. j \in 1 .. l + w /\ j < k /\ k \in 1 .. l
        BY <1>6, <2>1
      <4> QED BY ONLY <1>2, <4>1
    <3>2. r[j] = q[j] /\ r[k] = q[k]
      BY <1>1, <2>1, <3>1
    <3>3. PICK m \in j .. k - 1 : q[m] = <<q[k][1], q[k][2] - 1>>
      <4>1. j \in DOMAIN q /\ k \in DOMAIN q /\ j < k /\ q[j][1] = q[k][1]
        BY <1>1, <1>6, <2>1, <3>1, <3>2
      <4> QED BY <4>1, Zenon DEF InOrder
    <3>4. m \in j .. k - 1 /\ m \in 1 .. l
      <4>1. m \in j .. k - 1 /\ j \in 1 .. l /\ k \in 1 .. l
        BY <2>1, <3>1
      <4> QED BY ONLY <1>2, <4>1
    <3>5. r[m] = <<r[k][1], r[k][2] - 1>>
      BY <1>1, <3>2, <3>3, <3>4
    <3> QED BY ONLY <3>4, <3>5
  <2>2. CASE ~(k \in 1 .. l)
    <3>1. PICK i \in 1 .. w : k = l + i /\ r[k] = <<b, from + n + i>>
      BY <1>5, <2>2
    <3> PICK f : f = from + n + i
      OBVIOUS
    <3>2. f \in Nat /\ k - 1 \in j .. k - 1
      <4>1. j \in 1 .. l + w /\ k \in 1 .. l + w /\ j < k /\ i \in 1 .. w /\ f = from + n + i
        BY <1>6
      <4> QED BY ONLY <1>2, <4>1
    <3>3. r[k][1] = b /\ r[k][2] = f
      BY ONLY <3>1, f = from + n + i
    <3>4. r[k - 1] = <<b, f - 1>>
      <4>1. CASE i # 1
        <5> PICK h : h = i - 1
          OBVIOUS
        <5>1. h \in 1 .. w /\ k - 1 = l + h /\ from + n + h = f - 1
          <6>1. i \in 1 .. w /\ i # 1 /\ h = i - 1 /\ k = l + i /\ f = from + n + i
            BY <3>1, <4>1
          <6> QED BY ONLY <1>2, <6>1
        <5> QED BY <1>3, <5>1
      <4>2. CASE i = 1
        <5>1. ~(j \in 1 .. l - n)
          BY ONLY <1>4, <1>6, <3>3
        <5>2. n \in 1 .. n /\ l - n + n = k - 1 /\ from + n = f - 1
          <6>1. /\ j \in 1 .. l + w /\ j < k /\ k = l + i /\ i = 1 /\ f = from + n + i
                /\ ~(j \in 1 .. l - n)
            BY <1>6, <3>1, <4>2, <5>1
          <6> QED BY ONLY <1>2, <6>1
        <5>3. r[l - n + n] = <<b, from + n>>
          BY ONLY <1>4, <5>2
        <5> QED BY ONLY <5>2, <5>3
      <4> QED BY ONLY <4>1, <4>2
    <3> QED BY ONLY <3>2, <3>3, <3>4
  <2> QED BY ONLY <2>1, <2>2
<1>7. InOrder(r)
  <2> SUFFICES ASSUME NEW j \in DOMAIN r, NEW k \in DOMAIN r, j < k /\ r[j][1] = r[k][1]
               PROVE  \E m \in j .. k - 1 : r[m] = <<r[k][1], r[k][2] - 1>>
    BY Zenon DEF InOrder
  <2>1. j \in 1 .. l + w /\ k \in 1 .. l + w /\ j < k /\ r[j][1] = r[k][1]
    BY <1>1
  <2> QED BY ONLY <1>6, <2>1
<1>8. Known(r, b)
  <2> SUFFICES ASSUME NEW k \in 1 .. l + w PROVE r[k][1] <= b
    BY <1>1 DEF Known
  <2>1. CASE k \in 1 .. l
    BY <1>1, <2>1 DEF Known
  <2>2. CASE ~(k \in 1 .. l)
    <3>1. PICK i \in 1 .. w : r[k] = <<b, from + n + i>>
      BY <1>5, <2>2
    <3>2. r[k][1] = b
      BY ONLY <3>1
    <3> QED BY ONLY <1>2, <3>2
  <2> QED BY ONLY <2>1, <2>2
<1>9. Latest(r, b, n + w, from)
  <2>1. n + w <= l + w /\ (l + w) - (n + w) = l - n
    BY ONLY <1>2, <1>4
  <2>2. ASSUME NEW i \in 1 .. n + w PROVE r[l - n + i] = <<b, from + i>>
    <3>1. CASE i \in 1 .. n
      BY ONLY <1>4, <3>1
    <3>2. CASE ~(i \in 1 .. n)
      <4> PICK h : h = i - n
        OBVIOUS
      <4>1. h \in 1 .. w /\ l - n + i = l + h /\ from + i = from + n + h
        <5>1. i \in 1 .. n + w /\ ~(i \in 1 .. n) /\ h = i - n /\ n <= l
          BY <1>4, <2>2, <3>2
        <5> QED BY ONLY <1>2, <5>1
      <4>2. r[l + h] = <<b, from + n + h>>
        BY ONLY <1>3, <4>1
      <4> QED BY ONLY <4>1, <4>2
    <3> QED BY ONLY <3>1, <3>2
  <2> QED BY <1>1, <1>4, <2>1, <2>2 DEF Latest
<1> QED BY <1>7, <1>8, <1>9

\* The first of the batches that are left, and the others.
LEMMA NextOfThem ==
  ASSUME NEW left \in Seq(Seq(Rows)), left # <<>>, NEW b, NEW from \in Nat, NEW to,
         Continues(left, b, from, to)
  PROVE  /\ Head(left) \in Seq(Rows) /\ Tail(left) \in Seq(Seq(Rows)) /\ Len(Head(left)) \in Nat
         /\ Run(Head(left), b, from)
         /\ Continues(Tail(left), b, from + Len(Head(left)), to)
<1> PICK n, h, t : n = Len(left) /\ h = Head(left) /\ t = Tail(left)
  OBVIOUS
<1>1. /\ h \in Seq(Rows) /\ t \in Seq(Seq(Rows)) /\ Len(t) = n - 1
      /\ \A i \in 1 .. Len(t) : t[i] = left[i + 1]
  BY HeadTailProperties
<1>2. n \in Nat \ {0} /\ h = left[1] /\ Len(h) \in Nat
  BY <1>1, LenProperties, EmptySeq
<1>3. PICK cut \in [0 .. n -> Nat] :
        /\ cut[0] = from /\ cut[n] = to
        /\ \A j \in 1 .. n : Len(left[j]) = cut[j] - cut[j - 1] /\ Run(left[j], b, cut[j - 1])
  BY DEF Continues
<1>4. Len(h) = cut[1] - cut[0] /\ Run(h, b, cut[0]) /\ cut[1] \in Nat
  <2>1. 1 \in 1 .. n /\ 1 \in 0 .. n /\ 1 - 1 = 0
    BY ONLY <1>2
  <2> QED BY <1>2, <1>3, <2>1
<1> DEFINE later == [j \in 0 .. n - 1 |-> cut[j + 1]]
<1>5. later \in [0 .. Len(t) -> Nat] /\ later[0] = cut[1] /\ later[Len(t)] = cut[n]
  BY <1>1, <1>2, <1>3
<1>6. ASSUME NEW j \in 1 .. Len(t)
      PROVE  Len(t[j]) = later[j] - later[j - 1] /\ Run(t[j], b, later[j - 1])
  <2>1. j + 1 \in 1 .. n /\ (j + 1) - 1 = j /\ j \in 0 .. n - 1 /\ j - 1 \in 0 .. n - 1 /\ (j - 1) + 1 = j
    BY <1>1, <1>2
  <2>2. t[j] = left[j + 1] /\ later[j] = cut[j + 1] /\ later[j - 1] = cut[j]
    BY <1>1, <2>1
  <2> QED BY <1>3, <2>1, <2>2
<1> HIDE DEF later
<1>7. from + Len(h) = cut[1]
  <2> PICK w, c : w = Len(h) /\ c = cut[1]
    OBVIOUS
  <2>1. w = c - from /\ w \in Nat /\ c \in Nat /\ from \in Nat
    BY <1>2, <1>3, <1>4
  <2>2. from + w = c
    BY ONLY <2>1
  <2> QED BY <2>2
<1>8. Continues(t, b, from + Len(h), to)
  BY <1>3, <1>5, <1>6, <1>7 DEF Continues
<1> QED BY <1>1, <1>2, <1>3, <1>4, <1>8

\* When none are left the rows have ended.
LEMMA NoneOfThem ==
  ASSUME NEW b, NEW from, NEW to, Continues(<<>>, b, from, to)
  PROVE  from = to
<1>1. Len(<<>>) = 0
  OBVIOUS
<1> QED BY <1>1 DEF Continues

\* What is bound continues from its first row to its last.
LEMMA AllOfThem ==
  ASSUME NEW b \in 1 .. MaxBinds, NEW ends \in Ends
  PROVE  /\ Continues(Batches(b, ends), b, 0, Before(ends, Len(ends) + 1))
         /\ Before(ends, Len(ends) + 1) \in Nat
<1> PICK n, left : n = Len(ends) /\ left = Batches(b, ends)
  OBVIOUS
<1>1. /\ left \in Seq(Seq(Rows)) /\ Len(left) = n /\ n \in Nat
      /\ \A j \in 1 .. n + 1 : Before(ends, j) \in Nat
      /\ \A j \in 1 .. n : Before(ends, j) <= Before(ends, j + 1)
      /\ \A j \in 1 .. n : left[j] = [i \in 1 .. Before(ends, j + 1) - Before(ends, j) |-> <<b, Before(ends, j) + i>>]
  BY BatchesTyped
<1> DEFINE cut == [j \in 0 .. n |-> Before(ends, j + 1)]
<1>2. \A j \in 0 .. n : j + 1 \in 1 .. n + 1
  BY <1>1
<1>3. cut \in [0 .. n -> Nat] /\ cut[0] = Before(ends, 1) /\ cut[n] = Before(ends, n + 1)
  BY <1>1, <1>2
<1>4. Before(ends, 1) = 0
  BY DEF Before
<1>5. ASSUME NEW j \in 1 .. n
      PROVE  Len(left[j]) = cut[j] - cut[j - 1] /\ Run(left[j], b, cut[j - 1])
  <2> PICK m, w : m = Before(ends, j) /\ w = Before(ends, j + 1) - m
    OBVIOUS
  <2>1. m \in Nat /\ w \in Nat
    <3> PICK c : c = Before(ends, j + 1)
      OBVIOUS
    <3>1. j \in 1 .. n + 1 /\ j + 1 \in 1 .. n + 1
      BY ONLY <1>1, j \in 1 .. n
    <3>2. m \in Nat /\ c \in Nat /\ m <= c /\ w = c - m
      BY <1>1, <3>1
    <3> QED BY ONLY <3>2
  <2>2. j - 1 \in 0 .. n /\ (j - 1) + 1 = j /\ j \in 0 .. n
    BY <1>1
  <2>3. cut[j - 1] = m /\ cut[j] - cut[j - 1] = w
    BY <2>2
  <2>4. left[j] = [i \in 1 .. w |-> <<b, m + i>>]
    BY <1>1
  <2>5. left[j] \in Seq(Rows)
    BY <1>1, ElementOfSeq
  <2>6. Len(left[j]) = w
    BY <2>1, <2>4, <2>5, LenProperties
  <2>7. Run(left[j], b, m)
    BY <2>4, <2>6 DEF Run
  <2> QED BY <2>3, <2>6, <2>7
<1> HIDE DEF cut
<1>6. Continues(left, b, 0, Before(ends, n + 1))
  BY <1>1, <1>3, <1>4, <1>5 DEF Continues
<1> QED BY <1>1, <1>2, <1>6

---------------------------------------------------------------------------
(* The rows sent and those to come.                                        *)

\* The number of the last row sent of what is bound.
Sent == rest[1] - 1 + exec.total

\* What was bound earlier is not taken up again.
Ordered == InOrder(Seen) /\ Known(Seen, binds)

\* The rows to send follow those that were sent, which are the last there are.
Numbered ==
  /\ bound.kind = "none" => bound.left = <<>>
  /\ exec.at # "pump" => exec.rows = <<>> /\ exec.total = 0
  /\ bound.kind # "none" =>
       /\ Run(exec.rows, binds, Sent)
       /\ Continues(bound.left, binds, Sent + Len(exec.rows), rest[2])
       /\ Latest(Seen, binds, exec.total, rest[1] - 1)

\* An ingestion goes on in a session that has lost nothing of it.
Lasting ==
  /\ exec.at = "pump" /\ exec.total > 0 => ~dead /\ (autoCommit => db.pending = <<>>)
  /\ exec.at # "idle" => result.op = "busy" /\ bound.kind # "none"

Good == Ordered /\ Numbered /\ Lasting

LEMMA Counts ==
  ASSUME Base
  PROVE  /\ rest[1] \in Nat \ {0} /\ rest[2] \in Nat /\ rest[1] - 1 \in Nat /\ binds \in Nat
         /\ exec.total \in Nat /\ Sent \in Nat
         /\ exec.rows \in Seq(Rows) /\ Len(exec.rows) \in Nat /\ bound.left \in Seq(Seq(Rows))
         /\ Seen \in Seq(Rows)
<1>1. rest[1] \in Nat \ {0} /\ rest[2] \in Nat /\ binds \in Nat
  BY DEF Base, Scalars
<1>2. exec.total \in Nat /\ exec.rows \in Seq(Rows) /\ bound.left \in Seq(Seq(Rows))
  BY DEF Base, Typed, Ingestions, Parameters
<1>3. Seen \in Seq(Rows)
  <2>1. db \in Databases(Rows) /\ Seen = Of(db)
    BY DEF Base, Typed, Of, Seen
  <2> QED BY <2>1, OfFacts, EmptySeq
<1>4. Len(exec.rows) \in Nat
  BY <1>2, LenProperties
<1>5. rest[1] - 1 \in Nat
  BY <1>1
<1>6. Sent \in Nat
  BY <1>2, <1>5 DEF Sent
<1> QED BY <1>1, <1>2, <1>3, <1>4, <1>5, <1>6

LEMMA SeenNext ==
  ASSUME Base'
  PROVE  Seen' \in Seq(Rows)
<1>1. db' \in Databases(Rows) /\ Seen' = Of(db')
  BY DEF Base, Typed, Of, Seen
<1> QED BY <1>1, OfFacts, EmptySeq

\* A step with no rows sent yet takes rows off the end, if any.
LEMMA ShortStep ==
  ASSUME Base, Good, Base', exec.rows = <<>>, exec.total = 0, Starts(Seen', Seen),
         UNCHANGED <<bound, binds, rest>>, exec'.rows = <<>>, exec'.total = 0,
         exec'.at # "idle" => result'.op = "busy" /\ bound.kind # "none"
  PROVE  Good'
<1>1. Seen \in Seq(Rows) /\ Seen' \in Seq(Rows)
  BY Counts, SeenNext
<1>2. InOrder(Seen) /\ Known(Seen, binds)
  BY DEF Good, Ordered
<1>3. /\ InOrder(Seen') /\ Known(Seen', binds)
      /\ Latest(Seen, binds, 0, rest[1] - 1) => Latest(Seen', binds, 0, rest[1] - 1)
  BY <1>1, <1>2, Shortened
<1>4. Ordered'
  BY <1>3 DEF Ordered
<1>5. Sent' = Sent
  BY DEF Sent
<1>6. Numbered'
  <2>1. bound.kind # "none" =>
          /\ Run(exec.rows, binds, Sent) /\ Continues(bound.left, binds, Sent + Len(exec.rows), rest[2])
          /\ Latest(Seen, binds, 0, rest[1] - 1)
    BY DEF Good, Numbered
  <2>2. bound.kind = "none" => bound.left = <<>>
    BY DEF Good, Numbered
  <2>3. bound'.kind # "none" =>
          /\ Run(exec'.rows, binds', Sent') /\ Continues(bound'.left, binds', Sent' + Len(exec'.rows), rest'[2])
          /\ Latest(Seen', binds', exec'.total, rest'[1] - 1)
    BY <1>3, <1>5, <2>1
  <2> QED BY <2>2, <2>3 DEF Numbered
<1>7. Lasting'
  BY DEF Lasting
<1> QED BY <1>4, <1>6, <1>7 DEF Good

\* What is bound is let go once some of its next rows are sent, or none.
LEMMA EndStep ==
  ASSUME Base, Good, Base', bound.kind # "none", NEW rows \in Seq(Rows), Run(rows, binds, Sent),
         Starts(Seen', Seen \o rows), UNCHANGED binds, exec' = Idle, bound' = Nothing
  PROVE  Good'
<1> PICK from, n, b, q : from = rest[1] - 1 /\ n = exec.total /\ b = binds /\ q = Seen
  OBVIOUS
<1>1. q \in Seq(Rows) /\ Seen' \in Seq(Rows) /\ rows \in Seq(Rows) /\ from \in Nat /\ n \in Nat /\ b \in Nat
  BY Counts, SeenNext
<1>2. InOrder(q) /\ Known(q, b) /\ Latest(q, b, n, from) /\ Run(rows, b, from + n)
  BY DEF Good, Ordered, Numbered, Sent
<1>3. InOrder(q \o rows) /\ Known(q \o rows, b)
  <2>1. q \in Seq(Rows) /\ rows \in Seq(Rows) /\ b \in Nat /\ n \in Nat /\ from \in Nat
    BY <1>1
  <2> QED BY ONLY <1>2, <2>1, Lengthened, Zenon
<1>4. q \o rows \in Seq(Rows) /\ Starts(Seen', q \o rows)
  BY <1>1, ConcatProperties
<1>5. InOrder(Seen') /\ Known(Seen', b)
  BY ONLY <1>1, <1>3, <1>4, Shortened
<1>6. Ordered'
  BY <1>5 DEF Ordered
<1>7. Numbered' /\ Lasting'
  BY DEF Numbered, Lasting, Idle, Nothing
<1> QED BY <1>6, <1>7 DEF Good

\* What is bound is of a bind of its own, from its first row to its last.
LEMMA BoundStep ==
  ASSUME Base, Good, Base', NEW kind \in {"record", "stream"}, NEW ends \in Ends, NEW errs \in BOOLEAN,
         Bind(kind, ends, errs)
  PROVE  Good'
<1> PICK b, left, last : b = binds + 1 /\ left = Batches(b, ends) /\ last = Before(ends, Len(ends) + 1)
  OBVIOUS
<1>1. /\ bound' = [kind |-> kind, left |-> left, errs |-> errs] /\ binds' = b /\ rest' = <<1, last>>
      /\ exec = Idle /\ exec' = Idle /\ UNCHANGED db /\ b \in 1 .. MaxBinds
  BY DEF Bind, Ready, session, Base, Scalars
<1>2. Continues(left, b, 0, last)
  BY <1>1, AllOfThem
<1>3. Seen' = Seen /\ Seen \in Seq(Rows) /\ Len(Seen) \in Nat /\ binds \in Nat
  BY <1>1, Counts, LenProperties DEF Seen
<1>4. InOrder(Seen) /\ \A k \in 1 .. Len(Seen) : Seen[k][1] <= binds /\ Seen[k][1] \in Nat
  <2>1. \A k \in 1 .. Len(Seen) : Seen[k] \in Rows
    BY <1>3, ElementOfSeq
  <2> QED BY <2>1 DEF Good, Ordered, Known, Rows
<1>5. Known(Seen, b) /\ Latest(Seen, b, 0, 0)
  <2>1. ASSUME NEW k \in 1 .. Len(Seen) PROVE Seen[k][1] <= b /\ Seen[k][1] # b
    <3> PICK x : x = Seen[k][1]
      OBVIOUS
    <3>1. x \in Nat /\ x <= binds /\ b = binds + 1 /\ binds \in Nat
      BY <1>3, <1>4
    <3>2. x <= b /\ x # b
      BY ONLY <3>1
    <3> QED BY <3>2
  <2>2. Len(Seen) - 0 = Len(Seen) /\ 0 <= Len(Seen)
    BY <1>3
  <2> QED BY <2>1, <2>2 DEF Known, Latest
<1>6. Ordered'
  BY <1>1, <1>3, <1>4, <1>5 DEF Ordered
<1>7. Numbered'
  <2>1. Sent' = 0 /\ exec'.rows = <<>> /\ Len(exec'.rows) = 0 /\ exec'.total = 0 /\ rest'[1] - 1 = 0
        /\ rest'[2] = last
    BY <1>1 DEF Idle, Sent
  <2>2. bound'.kind # "none" /\ bound'.left = left
    BY <1>1
  <2>3. Run(exec'.rows, b, 0)
    BY <2>1 DEF Run
  <2> QED BY <1>1, <1>2, <1>3, <1>5, <2>1, <2>2, <2>3 DEF Numbered
<1>8. Lasting'
  BY <1>1 DEF Lasting, Idle
<1> QED BY <1>6, <1>7, <1>8 DEF Good

\* The first batch is sent, some of it, or passed over, unless nothing is done.
LEMMA SqlStep ==
  ASSUME Base, Good, Base', ExecuteSql
  PROVE  Good'
<1> PICK first, others : first = Head(bound.left) /\ others = Tail(bound.left)
  OBVIOUS
<1>1. exec = Idle /\ UNCHANGED exec /\ UNCHANGED binds /\ exec.rows = <<>> /\ exec.total = 0 /\ exec.at = "idle"
  BY DEF ExecuteSql, Ready, Report, params, Idle
<1>2. Seen \in Seq(Rows) /\ Sent \in Nat /\ Sent = rest[1] - 1 + 0 /\ Len(exec.rows) = 0
  BY <1>1, Counts DEF Sent
<1>3. ASSUME bound.left # <<>>
      PROVE  /\ bound.kind # "none" /\ first \in Seq(Rows) /\ Len(first) \in Nat
             /\ Run(first, binds, Sent) /\ Continues(others, binds, Sent + Len(first), rest[2])
             /\ Latest(Seen, binds, 0, rest[1] - 1)
  <2>1. /\ bound.kind # "none" /\ Latest(Seen, binds, 0, rest[1] - 1)
        /\ Continues(bound.left, binds, Sent + Len(exec.rows), rest[2])
    BY <1>1, <1>3 DEF Good, Numbered
  <2>2. Sent + Len(exec.rows) = Sent
    BY <1>2
  <2>3. bound.left \in Seq(Seq(Rows))
    BY Counts
  <2> QED BY <1>2, <1>3, <2>1, <2>2, <2>3, NextOfThem
<1>4. CASE Report(Failed("sql"))
  <2>1. UNCHANGED <<bound, binds, rest>> /\ Seen' = Seen
    BY <1>4 DEF Report, params, session, Seen
  <2>2. Starts(Seen', Seen)
    BY <1>2, <2>1, StartsFacts
  <2> QED BY <1>1, <2>1, <2>2, ShortStep
<1>5. CASE bound.left # <<>> /\ Execute(first) /\ bound' = Nothing
  <2>1. Starts(Seen', Seen \o first)
    <3>1. CASE UNCHANGED session
      <4>1. Seen' = Seen
        BY <3>1 DEF session, Seen
      <4> QED BY <1>2, <1>3, <1>5, <4>1, StartsFacts
    <3>2. CASE \E a \in Insert(first, autoCommit) : Serve(a)
      <4>1. autoCommit \in BOOLEAN
        BY DEF Base, Scalars
      <4> QED BY <1>3, <1>5, <3>2, <4>1, InsertSeen
    <3> QED BY <1>5, <3>1, <3>2 DEF Execute
  <2> QED BY <1>1, <1>3, <1>5, <2>1, EndStep
<1>6. CASE bound.left # <<>> /\ BindFails
  <2>1. UNCHANGED db /\ Seen' = Seen
    BY <1>6 DEF BindFails, Seen
  <2>2. CASE bound.kind = "stream"
    <3> PICK w : w = Len(first)
      OBVIOUS
    <3>1. bound' = [bound EXCEPT !.left = others] /\ rest' = [rest EXCEPT ![1] = rest[1] + w]
      BY <1>6, <2>2 DEF BindFails
    <3>2. bound'.left = others /\ bound'.kind # "none" /\ rest' = <<rest[1] + w, rest[2]>>
      <4>1. bound'.left = others /\ bound'.kind = bound.kind
        BY <3>1 DEF Base, Typed, Parameters
      <4>2. rest \in (Nat \ {0}) \X Nat
        BY DEF Base, Scalars
      <4>3. [rest EXCEPT ![1] = rest[1] + w] = <<rest[1] + w, rest[2]>>
        BY ONLY <4>2
      <4> QED BY <2>2, <3>1, <4>1, <4>3
    <3>3. Sent' = Sent + w /\ rest'[2] = rest[2] /\ Sent + w \in Nat /\ Sent + w + 0 = Sent + w
      <4> PICK from, s, t : from = rest[1] /\ s = Sent /\ t = Sent'
        OBVIOUS
      <4>1. rest'[1] = from + w /\ rest'[2] = rest[2]
        BY <3>2
      <4>2. from \in Nat /\ s = from - 1 + 0 /\ s \in Nat /\ w \in Nat
        BY <1>2, <1>3, <1>6, Counts
      <4>3. t = (from + w) - 1 + 0
        BY <1>1, <4>1 DEF Sent
      <4>4. t = s + w /\ s + w \in Nat /\ s + w + 0 = s + w
        BY ONLY <4>2, <4>3
      <4> QED BY <4>1, <4>4
    <3>4. Latest(Seen, binds, 0, rest'[1] - 1)
      <4>1. Starts(Seen, Seen)
        BY <1>2, StartsFacts
      <4> QED BY <1>2, <1>3, <1>6, <4>1, Shortened DEF Good, Ordered
    <3>5. Run(exec'.rows, binds, Sent + w)
      BY <1>1, <1>2 DEF Run
    <3>6. Continues(bound'.left, binds', Sent' + Len(exec'.rows), rest'[2])
      BY <1>1, <1>2, <1>3, <1>6, <3>2, <3>3
    <3>7. Numbered'
      BY <1>1, <2>1, <3>2, <3>3, <3>4, <3>5, <3>6 DEF Numbered
    <3>8. Ordered' /\ Lasting'
      BY <1>1, <2>1 DEF Good, Ordered, Lasting
    <3> QED BY <3>7, <3>8 DEF Good
  <2>3. CASE bound.kind # "stream"
    <3>1. UNCHANGED <<bound, binds, rest>>
      BY <1>1, <1>6, <2>3 DEF BindFails
    <3>2. Starts(Seen', Seen)
      BY <1>2, <2>1, StartsFacts
    <3> QED BY <1>1, <3>1, <3>2, ShortStep
  <2> QED BY <2>2, <2>3
<1> QED BY <1>4, <1>5, <1>6 DEF ExecuteSql

\* The DDL of an ingestion comes before any of its rows.
LEMMA FirstStep ==
  ASSUME Base, Good, Base', BeginIngest \/ Drop \/ Create
  PROVE  Good'
<1>1. exec.at \in {"idle", "drop", "create"} /\ exec.rows = <<>> /\ exec.total = 0 /\ bound.kind # "none"
  BY DEF BeginIngest, Ready, Ingests, Drop, Create, Idle, Good, Numbered, Lasting
<1>2. Starts(Seen', Seen) /\ Seen \in Seq(Rows)
  <2>1. Seen \in Seq(Rows)
    BY Counts
  <2>2. CASE BeginIngest
    <3>1. Seen' = Seen
      BY <2>2 DEF BeginIngest, session, Seen
    <3> QED BY <2>1, <3>1, StartsFacts
  <2>3. CASE Drop \/ Create
    <3>1. \E a \in CreateTable \cup DropTable : Serve(a)
      BY <2>3 DEF Drop, Create, IngestCall
    <3> QED BY <2>1, <3>1, DefinitionSeen
  <2> QED BY <2>1, <2>2, <2>3
<1>3. UNCHANGED <<binds, rest>>
  BY DEF BeginIngest, Drop, Create, IngestCall, params
<1>4. CASE exec' = Idle /\ bound' = Nothing
  <2>1. Run(<<>>, binds, Sent) /\ <<>> \in Seq(Rows)
    BY EmptySeq DEF Run
  <2>2. Starts(Seen', Seen \o <<>>)
    BY <1>2, ConcatEmptySeq
  <2> QED BY <1>1, <1>3, <1>4, <2>1, <2>2, EndStep
<1>5. CASE exec'.rows = <<>> /\ exec'.total = 0 /\ UNCHANGED bound /\ result' = Busy
  <2>1. result'.op = "busy"
    BY <1>5 DEF Busy
  <2> QED BY <1>1, <1>2, <1>3, <1>5, <2>1, ShortStep
<1>6. CASE BeginIngest
  BY <1>5, <1>6 DEF BeginIngest, Idle, params
<1>7. CASE Drop \/ Create
  <2>1. \/ exec' = [exec EXCEPT !.at = "create"] /\ UNCHANGED bound /\ result' = Busy
        \/ exec' = [exec EXCEPT !.at = "pump"] /\ UNCHANGED bound /\ result' = Busy
        \/ exec' = Idle /\ bound' = Nothing
    BY <1>7 DEF Drop, Create, IngestCall, EndIngest
  <2>2. exec \in Ingestions(Rows)
    BY DEF Base, Typed
  <2> QED BY <1>1, <1>4, <1>5, <2>1, <2>2 DEF Ingestions
<1> QED BY <1>6, <1>7

\* Batches are read and an ingestion ends between the slices.
LEMMA BatchStep ==
  ASSUME Base, Good, Base', NextBatch
  PROVE  Good'
<1> PICK first, others, n : first = Head(bound.left) /\ others = Tail(bound.left) /\ n = Len(first)
  OBVIOUS
<1>1. exec.at = "pump" /\ exec.rows = <<>> /\ bound.left # <<>> /\ bound.kind # "none"
  BY DEF NextBatch, Good, Lasting
<1>2. /\ exec \in Ingestions(Rows) /\ bound \in Parameters(Rows) /\ bound.left \in Seq(Seq(Rows))
      /\ Sent \in Nat /\ Len(exec.rows) = 0 /\ Sent + Len(exec.rows) = Sent
  BY <1>1, Counts DEF Base, Typed
<1>3. Continues(bound.left, binds, Sent, rest[2]) /\ Latest(Seen, binds, exec.total, rest[1] - 1)
  BY <1>1, <1>2 DEF Good, Numbered
<1>4. Run(first, binds, Sent) /\ Continues(others, binds, Sent + n, rest[2])
  BY <1>1, <1>2, <1>3, NextOfThem
<1>5. exec' = [exec EXCEPT !.rows = first] /\ bound' = [bound EXCEPT !.left = others]
  BY DEF NextBatch
<1>6. /\ exec'.rows = first /\ exec'.total = exec.total /\ exec'.at = "pump"
      /\ bound'.left = others /\ bound'.kind # "none"
  BY <1>1, <1>2, <1>5 DEF Ingestions, Parameters
<1>7. UNCHANGED <<db, dead, autoCommit, binds, rest, result>> /\ Seen' = Seen /\ Sent' = Sent
  BY <1>6 DEF NextBatch, session, settings, Seen, Sent
<1>8. Numbered'
  BY <1>3, <1>4, <1>6, <1>7 DEF Numbered
<1>9. Ordered' /\ Lasting'
  BY <1>1, <1>6, <1>7 DEF Good, Ordered, Lasting
<1> QED BY <1>8, <1>9 DEF Good

\* A slice is the rows that come next; if all of it is sent, the rest of its
\* batch comes after it.
LEMMA SliceStep ==
  ASSUME Base, Good, Base', Pump
  PROVE  Good'
<1> PICK n, all : n = Least(BatchRows, Len(exec.rows)) /\ all = exec.rows
  OBVIOUS
<1> PICK slice, later, f : /\ slice = SubSeq(all, 1, n) /\ later = SubSeq(all, n + 1, Len(all)) /\ f = Sent
  OBVIOUS
<1>1. /\ exec.at = "pump" /\ bound.kind # "none" /\ autoCommit \in BOOLEAN /\ exec \in Ingestions(Rows)
      /\ UNCHANGED <<binds, rest, autoCommit>>
  BY DEF Pump, IngestCall, settings, Good, Lasting, Base, Scalars, Typed
<1>2. /\ all \in Seq(Rows) /\ Len(all) \in Nat /\ f \in Nat /\ exec.total \in Nat /\ rest[1] - 1 \in Nat
      /\ binds \in Nat /\ Seen \in Seq(Rows)
  BY Counts
<1>3. n \in Nat \ {0} /\ n <= Len(all)
  <2>1. all # <<>>
    BY DEF Pump
  <2>2. Len(all) # 0
    BY <1>2, <2>1, EmptySeq
  <2>3. n = IF BatchRows < Len(all) THEN BatchRows ELSE Len(all)
    BY DEF Least
  <2> QED BY <1>2, <2>2, <2>3
<1>4. \A i \in 1 .. Len(all) : all[i] \in Rows /\ all[i] = <<binds, f + i>>
  <2>1. Run(all, binds, f)
    BY <1>1 DEF Good, Numbered
  <2> QED BY <1>2, <2>1, ElementOfSeq DEF Run
<1>5. slice \in Seq(Rows) /\ Len(slice) = n /\ Run(slice, binds, f)
  <2>1. \A i \in 1 .. n : i \in 1 .. Len(all) /\ 1 + i - 1 = i /\ n - 1 + 1 = n
    BY ONLY <1>2, <1>3
  <2>2. /\ slice \in Seq(Rows) /\ Len(slice) = IF 1 <= n THEN n - 1 + 1 ELSE 0
        /\ \A i \in 1 .. n - 1 + 1 : slice[i] = all[1 + i - 1]
    BY <1>3, <1>4, <2>1, SubSeqProperties
  <2>3. Len(slice) = n /\ 1 .. n - 1 + 1 = 1 .. n
    BY <1>3, <2>2
  <2> QED BY <1>4, <2>1, <2>2, <2>3 DEF Run
<1>6. later \in Seq(Rows) /\ Len(later) = Len(all) - n /\ Run(later, binds, f + n)
  <2>1. \A i \in n + 1 .. Len(all) : i \in 1 .. Len(all)
    BY ONLY <1>2, <1>3
  <2>2. /\ later \in Seq(Rows)
        /\ Len(later) = IF n + 1 <= Len(all) THEN Len(all) - (n + 1) + 1 ELSE 0
        /\ \A i \in 1 .. Len(all) - (n + 1) + 1 : later[i] = all[n + 1 + i - 1]
    <3> PICK first, last : first = n + 1 /\ last = Len(all)
      OBVIOUS
    <3>1. first \in Int /\ last \in Int /\ \A i \in first .. last : all[i] \in Rows
      BY <1>2, <1>3, <1>4, <2>1
    <3>2. /\ SubSeq(all, first, last) \in Seq(Rows)
          /\ Len(SubSeq(all, first, last)) = IF first <= last THEN last - first + 1 ELSE 0
          /\ \A i \in 1 .. last - first + 1 : SubSeq(all, first, last)[i] = all[first + i - 1]
      BY ONLY <3>1, SubSeqProperties
    <3> QED BY ONLY <3>2, first = n + 1, last = Len(all), later = SubSeq(all, n + 1, Len(all))
  <2>3. Len(later) = Len(all) - n /\ 1 .. Len(all) - (n + 1) + 1 = 1 .. Len(all) - n
    BY <1>2, <1>3, <2>2
  <2>4. \A i \in 1 .. Len(all) - n :
          n + 1 + i - 1 = n + i /\ n + i \in 1 .. Len(all) /\ f + (n + i) = f + n + i
    BY ONLY <1>2, <1>3
  <2>5. \A i \in 1 .. Len(all) - n : later[i] = all[n + i]
    BY <2>2, <2>3, <2>4
  <2>6. ASSUME NEW i \in 1 .. Len(all) - n PROVE later[i] = <<binds, f + n + i>>
    <3> PICK j : j = n + i
      OBVIOUS
    <3>1. j \in 1 .. Len(all) /\ later[i] = all[j] /\ f + j = f + n + i
      BY <2>4, <2>5
    <3>2. all[j] = <<binds, f + j>>
      BY ONLY <1>4, <3>1
    <3> QED BY ONLY <3>1, <3>2
  <2> QED BY <2>2, <2>3, <2>6 DEF Run
<1>7. PICK a \in Insert(slice, autoCommit) :
        /\ Serve(a)
        /\ IF a.ok THEN /\ exec' = [exec EXCEPT !.rows = later, !.total = exec.total + n]
                        /\ UNCHANGED bound /\ result' = Busy
                   ELSE EndIngest(Failed("ingest"))
  BY Zenon DEF Pump, IngestCall
<1>8. /\ Starts(Seen', Seen \o slice)
      /\ a.ok => Seen' = Seen \o slice /\ ~dead' /\ (autoCommit => db'.pending = <<>>)
  BY <1>1, <1>5, <1>7, InsertSeen
<1>9. CASE ~a.ok
  BY <1>1, <1>5, <1>7, <1>8, <1>9, EndStep DEF EndIngest
<1>10. CASE a.ok
  <2>1. exec' = [at |-> "pump", rows |-> later, total |-> exec.total + n]
    BY <1>1, <1>7, <1>10 DEF Ingestions
  <2>2. UNCHANGED bound /\ result'.op = "busy"
    BY <1>7, <1>10 DEF Busy
  <2>3. Sent' = f + n /\ f + n + Len(later) = f + Len(all)
    <3> PICK from, total, m, w, s :
          from = rest[1] - 1 /\ total = exec.total /\ m = Len(all) /\ w = Len(later) /\ s = Sent'
      OBVIOUS
    <3>1. /\ from \in Nat /\ total \in Nat /\ m \in Nat /\ n \in Nat /\ n <= m /\ w = m - n
          /\ f = from + total
      BY <1>2, <1>3, <1>6 DEF Sent
    <3>2. s = from + (total + n)
      BY <1>1, <2>1 DEF Sent
    <3>3. s = f + n /\ f + n + w = f + m
      BY ONLY <3>1, <3>2
    <3> QED BY <3>3
  <2>4. InOrder(Seen') /\ Known(Seen', binds) /\ Latest(Seen', binds, exec.total + n, rest[1] - 1)
    <3>1. /\ InOrder(Seen) /\ Known(Seen, binds) /\ Latest(Seen, binds, exec.total, rest[1] - 1)
          /\ Run(slice, binds, rest[1] - 1 + exec.total)
      BY <1>1, <1>5 DEF Good, Ordered, Numbered, Sent
    <3>2. /\ InOrder(Seen \o slice) /\ Known(Seen \o slice, binds)
          /\ Latest(Seen \o slice, binds, exec.total + Len(slice), rest[1] - 1)
      BY ONLY <1>2, <1>5, <3>1, Lengthened, Zenon
    <3> QED BY <1>5, <1>8, <1>10, <3>2
  <2>5. Continues(bound'.left, binds', Sent' + Len(exec'.rows), rest'[2])
    <3>1. Continues(bound.left, binds, Sent + Len(all), rest[2])
      BY <1>1 DEF Good, Numbered
    <3> QED BY <1>1, <2>1, <2>2, <2>3, <3>1
  <2>6. Numbered'
    BY <1>1, <1>6, <2>1, <2>2, <2>3, <2>4, <2>5 DEF Numbered
  <2>7. Ordered' /\ Lasting'
    BY <1>1, <1>8, <1>10, <2>1, <2>2, <2>4 DEF Ordered, Lasting
  <2> QED BY <2>6, <2>7 DEF Good
<1> QED BY <1>9, <1>10

\* An ingestion ends for want of rows, or because they cannot be bound.
LEMMA LastStep ==
  ASSUME Base, Good, Base', PumpFails \/ Pumped
  PROVE  Good'
<1>1. /\ exec.at = "pump" /\ bound.kind # "none" /\ UNCHANGED <<db, binds>>
      /\ exec' = Idle /\ bound' = Nothing
  BY DEF PumpFails, Pumped, EndIngest, session, Good, Lasting
<1>2. Run(<<>>, binds, Sent) /\ <<>> \in Seq(Rows)
  BY EmptySeq DEF Run
<1>3. Seen' = Seen /\ Seen \in Seq(Rows) /\ Seen \o <<>> = Seen
  BY <1>1, Counts, ConcatEmptySeq DEF Seen
<1>4. Starts(Seen', Seen \o <<>>)
  BY <1>3, StartsFacts
<1> QED BY <1>1, <1>2, <1>4, EndStep

\* Rows stay in order: one case per action.
LEMMA GoodNext ==
  ASSUME Base, Good, [Next]_vars
  PROVE  Good'
<1>1. Base'
  BY BaseNext
<1>2. CASE Commit \/ Rollback \/ EnableAutoCommit \/ Close
  <2>1. /\ exec = Idle /\ UNCHANGED exec /\ UNCHANGED <<bound, binds, rest>>
    BY <1>2 DEF Commit, Rollback, EndTransaction, EnableAutoCommit, Close, Ready, Report, params
  <2> QED BY <1>1, <1>2, <2>1, EndingSeen, ShortStep DEF Idle
<1>3. CASE DisableAutoCommit \/ SetSqlQuery \/ (\E m \in Modes : SetTarget(m))
  <2>1. exec = Idle /\ UNCHANGED exec /\ UNCHANGED <<bound, binds, rest>> /\ Seen' = Seen
    BY <1>3 DEF DisableAutoCommit, SetSqlQuery, SetTarget, Ready, params, session, Seen
  <2>2. Starts(Seen', Seen)
    BY <2>1, Counts, StartsFacts
  <2> QED BY <1>1, <2>1, <2>2, ShortStep DEF Idle
<1>4. CASE \E kind \in {"record", "stream"}, ends \in Ends, errs \in BOOLEAN : Bind(kind, ends, errs)
  BY <1>1, <1>4, BoundStep
<1>5. CASE ExecuteSql \/ BeginIngest \/ IngestStep
  BY <1>1, <1>5, SqlStep, FirstStep, BatchStep, SliceStep, LastStep DEF IngestStep
<1>6. CASE UNCHANGED vars
  <2>1. UNCHANGED <<db, dead, autoCommit, bound, binds, rest, exec, result>>
    BY <1>6 DEF vars, session, settings, params
  <2> QED BY <2>1 DEF Good, Ordered, Numbered, Lasting, Seen, Sent
<1> QED
  BY <1>2, <1>3, <1>4, <1>5, <1>6 DEF Next, ConnectionStep, StatementStep

LEMMA InitGood ==
  ASSUME Init
  PROVE  Good /\ IngestComplete
<1>1. /\ db = [table |-> FALSE, saved |-> <<>>, pending |-> <<>>] /\ exec = Idle /\ bound = Nothing
      /\ result.op = "open"
  BY DEF Init, Done
<1>2. Seen = <<>> /\ Len(Seen) = 0
  <2>1. Seen = <<>> \o <<>> /\ <<>> \in Seq(Rows)
    BY <1>1, EmptySeq DEF Seen
  <2> QED BY <2>1, ConcatEmptySeq
<1>3. Ordered
  BY <1>2 DEF Ordered, InOrder, Known
<1> QED BY <1>1, <1>3 DEF Good, Numbered, Lasting, Idle, Nothing, IngestComplete

\* An ingestion that says how many rows it has sent has sent all there were.
LEMMA CompleteNext ==
  ASSUME Base, Good, IngestComplete, [Next]_vars
  PROVE  IngestComplete'
<1>1. CASE ~(result'.op = "ingest" /\ result'.ok)
  BY <1>1 DEF IngestComplete
<1>2. CASE UNCHANGED vars
  BY <1>2 DEF IngestComplete, Seen, vars, session, settings, params
<1>3. ASSUME result'.op = "ingest", result'.ok, Next PROVE Pumped
  <2>1. CASE ConnectionStep \/ StatementStep
    BY <1>3, <2>1 DEF ConnectionStep, StatementStep, Commit, Rollback, EndTransaction, EnableAutoCommit,
      DisableAutoCommit, Close, SetSqlQuery, SetTarget, Bind, ExecuteSql, Execute, BindFails,
      BeginIngest, Report, Failed, Done, Busy
  <2>2. CASE IngestStep
    BY <1>3, <2>2 DEF IngestStep, Drop, Create, NextBatch, Pump, PumpFails, IngestCall, EndIngest,
      Failed, Busy, Good, Lasting
  <2> QED BY <1>3, <2>1, <2>2 DEF Next
<1>4. CASE Pumped /\ result'.op = "ingest" /\ result'.ok
  <2> PICK n, from, l : n = exec.total /\ from = rest[1] - 1 /\ l = Len(Seen)
    OBVIOUS
  <2>1. /\ exec.at = "pump" /\ exec.rows = <<>> /\ bound.left = <<>> /\ bound.kind # "none"
        /\ UNCHANGED <<db, autoCommit, binds, rest>> /\ result' = Done("ingest", n)
    BY <1>4 DEF Pumped, EndIngest, session, settings, Good, Lasting, Failed
  <2>2. Continues(<<>>, binds, Sent + Len(exec.rows), rest[2]) /\ Latest(Seen, binds, n, from)
    BY <2>1 DEF Good, Numbered
  <2>3. Sent + Len(exec.rows) = rest[2]
    BY <2>2, NoneOfThem
  <2>4. /\ n \in Nat /\ from \in Nat /\ l \in Nat /\ rest[1] \in Nat /\ rest[2] \in Nat /\ Len(exec.rows) = 0
        /\ Seen \in Seq(Rows)
    BY <2>1, Counts, LenProperties
  <2>5. rest[2] = rest[1] - 1 + n + 0
    BY <2>3, <2>4 DEF Sent
  <2>6. n = rest[2] - rest[1] + 1
    BY ONLY <2>4, <2>5
  <2>7. n <= l /\ \A i \in 1 .. n : Seen[l - n + i] = <<binds, rest[1] + i - 1>>
    <3>1. n <= l /\ \A i \in 1 .. n : Seen[l - n + i] = <<binds, from + i>>
      BY <2>2 DEF Latest
    <3>2. \A i \in 1 .. n : from + i = rest[1] + i - 1
      <4>1. from = rest[1] - 1 /\ rest[1] \in Nat /\ n \in Nat
        BY <2>4
      <4> QED BY ONLY <4>1
    <3> QED BY <3>1, <3>2
  <2>8. n > 0 /\ autoCommit => db.saved = Seen
    <3>1. n > 0 /\ autoCommit => db.pending = <<>>
      BY <2>1 DEF Good, Lasting
    <3>2. db.saved \in Seq(Rows)
      BY DEF Base, Typed, Databases
    <3>3. db.saved \o <<>> = db.saved
      BY <3>2, ConcatEmptySeq
    <3> QED BY <3>1, <3>3 DEF Seen
  <2> PICK there : there = IF autoCommit THEN db.saved ELSE Seen
    OBVIOUS
  <2>9. n <= Len(there) /\ \A i \in 1 .. n : there[Len(there) - n + i] = <<binds, rest[1] + i - 1>>
    <3>1. CASE n > 0 \/ ~autoCommit
      <4>1. there = Seen
        BY <2>8, <3>1
      <4> QED BY <2>7, <4>1
    <3>2. CASE n = 0 /\ autoCommit
      <4>1. db.saved \in Seq(Rows)
        BY DEF Base, Typed, Databases
      <4>2. there = db.saved /\ Len(there) \in Nat
        BY <3>2, <4>1, LenProperties
      <4>3. n <= Len(there) /\ 1 .. n = {}
        BY ONLY <3>2, <4>2
      <4> QED BY ONLY <4>3
    <3>3. (n > 0 \/ ~autoCommit) \/ (n = 0 /\ autoCommit)
      BY <2>4
    <3> QED BY ONLY <3>1, <3>2, <3>3
  <2>10. result'.n = n /\ Seen' = Seen
    BY <2>1 DEF Done, Seen
  <2>11. there = IF autoCommit' THEN db'.saved ELSE Seen'
    BY <2>1, <2>10
  <2> QED BY <2>1, <2>6, <2>9, <2>10, <2>11 DEF IngestComplete
<1> QED BY <1>1, <1>2, <1>3, <1>4

\* bulk_ingest.go: the rows there are of one Bind are consecutive, in their
\* order, for streams of any batches, slices of any size and failures anywhere.
THEOREM RowsArriveInOrder == Spec => []RowsInOrder
<1>1. Init => Base /\ Good
  BY InitBase, InitGood
<1>2. Base /\ Good /\ [Next]_vars => Base' /\ Good'
  BY BaseNext, GoodNext
<1>3. Good => RowsInOrder
  BY Zenon DEF Good, Ordered, InOrder, RowsInOrder
<1> QED BY <1>1, <1>2, <1>3, PTL DEF Spec

\* executeIngest returns a number of rows only if these are all that were left
\* of the stream, the last in the table, and committed under autocommit.
THEOREM IngestionsAreComplete == Spec => []IngestComplete
<1>1. Init => Base /\ Good /\ IngestComplete
  BY InitBase, InitGood
<1>2. Base /\ Good /\ IngestComplete /\ [Next]_vars => Base' /\ Good' /\ IngestComplete'
  BY BaseNext, GoodNext, CompleteNext
<1> QED BY <1>1, <1>2, PTL DEF Spec

=============================================================================
