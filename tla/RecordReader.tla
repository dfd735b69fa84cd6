---------------------------- MODULE RecordReader ----------------------------
(***************************************************************************)
(* streamingRecordReader of driver/oracle/record_reader.go and the         *)
(* arrowSink it fetches into (arrow_conv.go): the rows of one query as a   *)
(* stream of Arrow records, bounded in rows by batch_size and in bytes by  *)
(* batch_bytes.  A row is its number in the result, and a record, a slice  *)
(* of one or what the sink has built is a block of consecutive rows.       *)
(***************************************************************************)
EXTENDS Naturals

CONSTANTS
  Total,         \* rows of the result
  BatchSize,     \* batch_size
  BatchBytes,    \* batch_bytes, 0 for no limit
  PrefetchRows,  \* prefetch_rows
  RowBytes,      \* what a row may add to the size of a batch
  MaxRefs        \* bound: references held to the reader

ASSUME RecordReaderAssumption ==
  /\ Total \in Nat /\ BatchBytes \in Nat /\ MaxRefs \in Nat \ {0}
  /\ BatchSize \in Nat \ {0} /\ PrefetchRows \in Nat \ {0}
  /\ RowBytes \subseteq Nat

VARIABLES
  pc,       \* "new", "idle", "fill" (inside Next), or "abandoned"
  asks,     \* do the requests of the statement ask for rows?  Those of an
            \* implicit result with LOB or JSON columns never do
  sent,     \* rows the server has sent
  more,     \* Statement.moreRows
  sink,     \* the rows in the builders of the sink
  bytes,    \* arrowSink.bytes
  pending,  \* the rows of the slices in r.pending
  per,      \* rows in each of these slices but the last
  current,  \* r.current
  given,    \* the last row handed to the consumer, which only properties read
  err, done, closed, refs

readVars == <<sent, more, sink, bytes>>
outVars == <<pending, per, current, given>>
vars == <<pc, asks, readVars, outVars, err, done, closed, refs>>

---------------------------------------------------------------------------
Block(first, rows) == [first |-> first, rows |-> rows]
Nil == Block(0, 0)

Least(a, b) == IF a < b THEN a ELSE b

\* What comes in answer to a request for so many rows.
Answers(rows) == IF asks THEN 0 .. rows ELSE {0}

\* The sink is given n rows of w bytes, in answer to an Execute or a Fetch,
\* and ORA-01403 is only sent behind the last row, to a request for rows.
Take(n, w) ==
  /\ sent + n <= Total
  /\ sent' = sent + n
  /\ more' \in BOOLEAN /\ (~more' => asks /\ sent' = Total)
  /\ sink' = IF sink.rows = 0 THEN Block(sent + 1, n) ELSE Block(sink.first, sink.rows + n)
  /\ bytes' = bytes + n * w

\* close(): the sink is released and the statement closed, once.
CloseReader ==
  IF closed THEN UNCHANGED <<closed, sink>> ELSE closed' = TRUE /\ sink' = Nil

\* ExecuteQuery: rows may be prefetched with the execution.
Execute ==
  /\ pc = "new"
  /\ \E n \in Answers(PrefetchRows), w \in RowBytes : Take(n, w)
  /\ pc' = "idle"
  /\ UNCHANGED <<asks, outVars, err, done, closed, refs>>

\* It fails, and the reader is abandoned.
ExecuteFails ==
  /\ pc = "new"
  /\ pc' = "abandoned"
  /\ CloseReader
  /\ UNCHANGED <<asks, sent, more, bytes, outVars, err, done, refs>>

Readable == refs > 0 /\ ~err /\ ~done /\ ~closed

\* The last slice is taken to be as long as the others.
FaultyHandOut(block, width) ==
  /\ current' = Block(block.first, width)
  /\ given' = block.first + width - 1
  /\ pending' = IF width = block.rows THEN Nil ELSE Block(block.first + width, block.rows - width)
  /\ per' = width

\* The next at most width rows of block become the current record, and the
\* rest is pending.
HandOut(block, width) ==
  LET n == Least(width, block.rows)
  IN  /\ current' = Block(block.first, n)
      /\ given' = block.first + n - 1
      /\ pending' = IF n = block.rows THEN Nil ELSE Block(block.first + n, block.rows - n)
      /\ per' = width

\* Pending slices are forgotten.
FaultyCallNext ==
  /\ pc = "idle" /\ Readable
  /\ current' = Nil /\ pending' = Nil /\ pc' = "fill"
  /\ UNCHANGED <<asks, readVars, per, given, err, done, closed, refs>>

\* Next gives up the current record.  What is pending goes first.
CallNext ==
  /\ pc = "idle" /\ Readable
  /\ IF pending.rows > 0
     THEN HandOut(pending, per) /\ UNCHANGED pc
     ELSE current' = Nil /\ pc' = "fill" /\ UNCHANGED <<pending, per, given>>
  /\ UNCHANGED <<asks, readVars, err, done, closed, refs>>

\* Fault: the end of the result is not looked at.
FaultyRowsWanted == sink.rows < BatchSize /\ (BatchBytes = 0 \/ bytes < BatchBytes)

\* The condition of the fetch loop, and the rows it asks for.
RowsWanted == sink.rows < BatchSize /\ more /\ (BatchBytes = 0 \/ bytes < BatchBytes)

\* A whole round trip is always asked for.
FaultyWant == PrefetchRows

Want == Least(BatchSize - sink.rows, PrefetchRows)

\* Statement.Fetch, which does nothing without more rows.  A request for rows
\* brings some, or the end.
Fetch ==
  /\ pc = "fill" /\ RowsWanted /\ more
  /\ \E n \in Answers(Want), w \in RowBytes : Take(n, w) /\ (asks /\ more' => n > 0)
  /\ UNCHANGED <<pc, asks, outVars, err, done, closed, refs>>

\* A fetch fails, a value does not convert, or an object cannot be decoded.
Fails ==
  /\ pc = "fill" /\ (RowsWanted \/ sink.rows > 0)
  /\ err' = TRUE
  /\ CloseReader
  /\ pc' = "idle"
  /\ UNCHANGED <<asks, sent, more, bytes, outVars, done, refs>>

\* The loop leaves no rows: the end.
Ends ==
  /\ pc = "fill" /\ ~RowsWanted /\ sink.rows = 0
  /\ done' = TRUE
  /\ CloseReader
  /\ pc' = "idle"
  /\ UNCHANGED <<asks, sent, more, bytes, outVars, err, refs>>

\* Rounded up.
FaultySliceRows == (sink.rows * BatchBytes + bytes - 1) \div bytes

\* Rows in a slice of a record that has become too large.
SliceRows ==
  LET n == (sink.rows * BatchBytes) \div bytes
  IN  IF n < 1 THEN 1 ELSE n

Oversized == BatchBytes > 0 /\ bytes > BatchBytes /\ sink.rows > 1

\* newRecord, handed out whole or slice by slice.
Builds ==
  /\ pc = "fill" /\ ~RowsWanted /\ sink.rows > 0
  /\ HandOut(sink, IF Oversized THEN SliceRows ELSE sink.rows)
  /\ sink' = Nil /\ bytes' = 0
  /\ pc' = "idle"
  /\ UNCHANGED <<asks, sent, more, err, done, closed, refs>>

Retain ==
  /\ pc = "idle" /\ refs \in 1 .. MaxRefs - 1
  /\ refs' = refs + 1
  /\ UNCHANGED <<pc, asks, readVars, outVars, err, done, closed>>

\* With the last reference go the records and the statement.
Release ==
  /\ pc = "idle" /\ refs > 0
  /\ refs' = refs - 1
  /\ IF refs' = 0
     THEN current' = Nil /\ pending' = Nil /\ CloseReader
     ELSE UNCHANGED <<current, pending, closed, sink>>
  /\ UNCHANGED <<pc, asks, sent, more, bytes, per, given, err, done>>

Init ==
  /\ pc = "new" /\ asks \in BOOLEAN
  /\ sent = 0 /\ more = TRUE /\ sink = Nil /\ bytes = 0
  /\ pending = Nil /\ per = 0 /\ current = Nil /\ given = 0
  /\ err = FALSE /\ done = FALSE /\ closed = FALSE /\ refs = 1

Fill == Fetch \/ Fails \/ Ends \/ Builds

\* The consumer has no use for the reader any more.
Over == (pc = "abandoned" \/ refs = 0) /\ UNCHANGED vars

Next == Execute \/ ExecuteFails \/ CallNext \/ Fill \/ Retain \/ Release \/ Over

Spec == Init /\ [][Next]_vars

\* Next goes on by itself, and no error need come to end it.
FairSpec == Spec /\ WF_vars(Fetch \/ Ends \/ Builds)

---------------------------------------------------------------------------
Blocks == [first: Nat, rows: Nat]

\* Every variable has its type; no row is beyond the end of the result.
TypeOK ==
  /\ pc \in {"new", "idle", "fill", "abandoned"} /\ asks \in BOOLEAN
  /\ sent \in 0 .. Total /\ more \in BOOLEAN
  /\ sink \in Blocks /\ bytes \in Nat
  /\ pending \in Blocks /\ per \in Nat /\ current \in Blocks
  /\ given \in 0 .. Total
  /\ err \in BOOLEAN /\ done \in BOOLEAN /\ closed \in BOOLEAN
  /\ refs \in 0 .. MaxRefs

\* Every record begins with the row behind the last one handed out and is not
\* empty, whatever fetches and slices the rows have come through.
BatchesInOrder ==
  [][current' # current /\ current' # Nil =>
       current'.first = given + 1 /\ current'.rows > 0 /\ given' = given + current'.rows]_vars

\* The consumer sees a RowStream: all rows before the end, and nothing behind
\* the end or an error.
Status == IF done THEN "end" ELSE IF closed THEN "cut" ELSE "open"
Stream == INSTANCE RowStream WITH status <- Status
Implements == Stream!Spec

\* record_reader.go: "Each Next() yields at most batchSize rows".
BatchWithinSize == current.rows <= BatchSize

\* A record of several rows is within batch_bytes, by the average length of
\* the rows it is cut from.
BatchWithinBytes ==
  [][pc = "fill" /\ current' # current /\ BatchBytes > 0 /\ current'.rows > 1 =>
       current'.rows * bytes <= sink.rows * BatchBytes]_vars

\* Next returns: the fetches of its loop come to a full batch or the end.  Not
\* so if they never ask for rows: then the loop goes on until a fetch fails.
NextReturns == asks /\ pc = "fill" ~> pc = "idle"

\* README.md: implicit results "stream back exactly like a query".  Violated:
\* Next of those with LOB or JSON columns need not return.
EveryNextReturns == pc = "fill" ~> pc = "idle"

=============================================================================
