------------------------- MODULE RecordReaderProofs -------------------------
(***************************************************************************)
(* What RecordReader guarantees for every result, batch size, byte limit   *)
(* and prefetch: records in order without gaps, the RowStream it           *)
(* implements, and the bound on the rows of a record.                      *)
(***************************************************************************)
EXTENDS RecordReader, TLAPS

USE RecordReaderAssumption

---------------------------------------------------------------------------
\* Where the rows sent and not yet handed out are: in the sink, or pending.
Contiguous ==
  /\ sink.rows > 0 => sink.first + sink.rows = sent + 1
  /\ ~closed /\ pending.rows = 0 => given + sink.rows = sent
  /\ ~closed /\ pending.rows > 0 =>
       /\ pending.first = given + 1 /\ pending.first + pending.rows = sent + 1
       /\ sink.rows = 0 /\ per > 0

\* Next only fills a sink that has nothing pending before it.
Filling == pc = "fill" => ~closed /\ ~done /\ ~err /\ refs > 0 /\ pending.rows = 0

Starting == pc = "new" => ~closed /\ sent = 0 /\ sink.rows = 0 /\ pending.rows = 0

\* An empty sink counts no bytes, and the server does not end early.
Counted == (sink.rows = 0 /\ ~closed => bytes = 0) /\ (~more => sent = Total)

Finished == (done => given = Total /\ closed) /\ (err => closed) /\ (refs = 0 => closed)

IInv == TypeOK /\ Contiguous /\ Filling /\ Starting /\ Counted /\ Finished

---------------------------------------------------------------------------
\* A slice has at least one row, and a record as long as it must be.
LEMMA SliceRowsType ==
  ASSUME TypeOK, Oversized
  PROVE  SliceRows \in Nat \ {0}
<1> DEFINE n == (sink.rows * BatchBytes) \div bytes
<1>1. sink.rows \in Nat /\ bytes \in Nat /\ bytes > 0 /\ BatchBytes \in Nat
  BY DEF TypeOK, Blocks, Oversized
<1>2. sink.rows * BatchBytes \in Nat
  BY <1>1
<1> DEFINE product == sink.rows * BatchBytes
<1>3. product \in Nat
  BY <1>2
<1> HIDE DEF product
<1>4. product \div bytes \in Nat
  BY <1>1, <1>3
<1>5. n \in Nat
  BY <1>4 DEF product
<1> QED BY <1>5 DEF SliceRows

\* Taking rows keeps the sink contiguous with what the server has sent.
LEMMA TakeFacts ==
  ASSUME TypeOK, NEW n \in Nat, NEW w \in RowBytes, Take(n, w)
  PROVE  /\ sent' = sent + n /\ sent' \in 0 .. Total
         /\ more' \in BOOLEAN /\ (~more' => sent' = Total)
         /\ sink' \in Blocks /\ sink'.rows = sink.rows + n
         /\ sink.rows = 0 => sink'.first = sent + 1
         /\ sink.rows # 0 => sink'.first = sink.first
         /\ bytes' \in Nat /\ (n = 0 => bytes' = bytes)
<1>1. w \in Nat
  OBVIOUS
<1>2. n * w \in Nat /\ (n = 0 => n * w = 0)
  BY <1>1
<1>3. bytes' \in Nat /\ (n = 0 => bytes' = bytes)
  BY <1>2 DEF Take, TypeOK
<1>4. sent' = sent + n /\ sent' \in 0 .. Total
  BY DEF Take, TypeOK
<1>5. more' \in BOOLEAN /\ (~more' => sent' = Total)
  BY DEF Take
<1>6. CASE sink.rows = 0
  <2>1. sink' = [first |-> sent + 1, rows |-> n]
    BY <1>6 DEF Take, Block
  <2> QED BY <2>1, <1>3, <1>4, <1>5, <1>6 DEF Blocks, TypeOK
<1>7. CASE sink.rows # 0
  <2>1. sink' = [first |-> sink.first, rows |-> sink.rows + n]
    BY <1>7 DEF Take, Block
  <2> QED BY <2>1, <1>3, <1>4, <1>5, <1>7 DEF Blocks, TypeOK
<1> QED BY <1>6, <1>7

\* What HandOut does with a block of rows up to the last one sent.
LEMMA HandOutFacts ==
  ASSUME TypeOK, NEW block \in Blocks, NEW width \in Nat \ {0}, block.rows > 0,
         block.first = given + 1, block.first + block.rows = sent + 1, HandOut(block, width)
  PROVE  /\ current' \in Blocks /\ current'.first = given + 1 /\ current'.rows > 0
         /\ current'.rows <= block.rows
         /\ given' = given + current'.rows /\ given' \in 0 .. Total
         /\ pending' \in Blocks /\ per' \in Nat
         /\ pending'.rows <= block.rows
         /\ pending'.rows = 0 => given' = sent
         /\ pending'.rows > 0 =>
              pending'.first = given' + 1 /\ pending'.first + pending'.rows = sent + 1 /\ per' > 0
<1> DEFINE n == Least(width, block.rows)
<1>1. n \in Nat /\ n > 0 /\ n <= block.rows
  BY DEF Least, Blocks
<1>2. current' = [first |-> block.first, rows |-> n] /\ given' = block.first + n - 1 /\ per' = width
  BY DEF HandOut, Block
<1>3. pending' = IF n = block.rows THEN Nil ELSE Block(block.first + n, block.rows - n)
  BY DEF HandOut
<1> HIDE DEF n
<1>4. CASE n = block.rows
  <2>1. pending' = [first |-> 0, rows |-> 0]
    BY <1>3, <1>4 DEF Nil, Block
  <2> QED BY <1>1, <1>2, <1>4, <2>1 DEF Blocks, TypeOK
<1>5. CASE n # block.rows
  <2>1. pending' = [first |-> block.first + n, rows |-> block.rows - n]
    BY <1>3, <1>5 DEF Block
  <2> QED BY <1>1, <1>2, <1>5, <2>1 DEF Blocks, TypeOK
<1> QED BY <1>4, <1>5

\* A closed reader has an empty sink, or the one it was closed with.
LEMMA CloseFacts ==
  ASSUME TypeOK, CloseReader
  PROVE  closed' /\ closed' \in BOOLEAN /\ sink' \in Blocks /\ (sink' = sink \/ sink'.rows = 0)
<1>1. closed' /\ closed' \in BOOLEAN
  BY Zenon DEF CloseReader, TypeOK
<1>2. sink' = sink \/ sink' = Nil
  BY Zenon DEF CloseReader
<1>3. Nil \in Blocks /\ Nil.rows = 0
  BY DEF Nil, Block, Blocks
<1> QED BY <1>1, <1>2, <1>3 DEF TypeOK

\* When the fetch loop of Next leaves an empty sink, all rows are handed out.
LEMMA EndsWithAll ==
  ASSUME IInv, pc = "fill", ~RowsWanted, sink.rows = 0
  PROVE  given = Total
<1>1. ~closed /\ pending.rows = 0
  BY DEF IInv, Filling
<1>2. bytes = 0
  BY <1>1 DEF IInv, Counted
<1>3. BatchSize > 0 /\ (BatchBytes = 0 \/ bytes < BatchBytes)
  BY <1>2
<1>4. ~more
  BY <1>3 DEF RowsWanted
<1>5. sent = Total
  BY <1>4 DEF IInv, Counted
<1> QED BY <1>1, <1>5 DEF IInv, Contiguous, TypeOK

---------------------------------------------------------------------------
\* The loop asks for a number of rows.
LEMMA WantIs ==
  ASSUME TypeOK, sink.rows < BatchSize
  PROVE  Want \in Nat
BY DEF TypeOK, Blocks, Want, Least

\* What a statement asks for stays.
LEMMA AsksStays ==
  ASSUME [Next]_vars
  PROVE  asks' = asks
BY DEF Next, Execute, ExecuteFails, CallNext, Fill, Fetch, Fails, Ends, Builds, Retain, Release, Over, vars

\* The invariant is inductive: one step per action.
LEMMA Inductive ==
  ASSUME IInv, [Next]_vars
  PROVE  IInv'
<1>0. TypeOK /\ Contiguous /\ Filling /\ Starting /\ Counted /\ Finished
  BY DEF IInv
<1>t. asks' \in BOOLEAN
  BY <1>0, AsksStays DEF TypeOK
<1>1. CASE Execute
  <2>1. PICK n \in 0 .. PrefetchRows, w \in RowBytes : Take(n, w)
    BY <1>1 DEF Execute, Answers
  <2>2. n \in Nat /\ pc = "new" /\ pc' = "idle" /\ UNCHANGED <<pending, per, current, given, refs>>
    BY <1>1 DEF Execute, outVars
  <2>3. UNCHANGED <<err, done, closed>>
    BY <1>1 DEF Execute
  <2>4. /\ sent' = sent + n /\ sent' \in 0 .. Total
        /\ more' \in BOOLEAN /\ (~more' => sent' = Total)
        /\ sink' \in Blocks /\ sink'.rows = sink.rows + n
        /\ sink.rows = 0 => sink'.first = sent + 1
        /\ bytes' \in Nat /\ (n = 0 => bytes' = bytes)
    BY <1>0, <2>1, <2>2, TakeFacts
  <2>5. TypeOK'
    BY <1>t, <1>0, <2>2, <2>3, <2>4 DEF TypeOK
  <2>6. Contiguous'
    BY <1>0, <2>2, <2>3, <2>4 DEF TypeOK, Blocks, Contiguous, Starting
  <2>7. Filling' /\ Starting' /\ Counted'
    BY <1>0, <2>2, <2>3, <2>4 DEF TypeOK, Blocks, Filling, Starting, Counted
  <2>8. Finished'
    BY <1>0, <2>2, <2>3 DEF Finished
  <2> QED BY <2>5, <2>6, <2>7, <2>8 DEF IInv
<1>2. CASE Fetch
  <2>1. PICK n \in 0 .. Want, w \in RowBytes : Take(n, w)
    BY <1>0, <1>2, WantIs DEF Fetch, Answers, RowsWanted
  <2>2. pc = "fill" /\ UNCHANGED <<pc, pending, per, current, given, refs>> /\ sink.rows < BatchSize
    BY <1>2 DEF Fetch, outVars, RowsWanted
  <2>3. UNCHANGED <<err, done, closed>>
    BY <1>2 DEF Fetch
  <2>4. n \in Nat
    BY <1>0, <2>1, <2>2 DEF Want, Least, TypeOK, Blocks
  <2>5. /\ sent' = sent + n /\ sent' \in 0 .. Total
        /\ more' \in BOOLEAN /\ (~more' => sent' = Total)
        /\ sink' \in Blocks /\ sink'.rows = sink.rows + n
        /\ sink.rows = 0 => sink'.first = sent + 1
        /\ sink.rows # 0 => sink'.first = sink.first
        /\ bytes' \in Nat /\ (n = 0 => bytes' = bytes)
    BY <1>0, <2>1, <2>4, TakeFacts
  <2>6. TypeOK'
    BY <1>t, <1>0, <2>2, <2>3, <2>5 DEF TypeOK
  <2>7. Contiguous'
    BY <1>0, <2>2, <2>3, <2>4, <2>5 DEF TypeOK, Blocks, Contiguous, Filling
  <2>8. Filling' /\ Starting' /\ Counted'
    BY <1>0, <2>2, <2>3, <2>4, <2>5 DEF TypeOK, Blocks, Filling, Starting, Counted
  <2>9. Finished'
    BY <1>0, <2>2, <2>3 DEF Finished
  <2> QED BY <2>6, <2>7, <2>8, <2>9 DEF IInv
<1>3. CASE ExecuteFails
  <2>1. pc = "new" /\ pc' = "abandoned" /\ CloseReader
        /\ UNCHANGED <<sent, bytes, pending, per, current, given, refs>>
    BY <1>3 DEF ExecuteFails, outVars
  <2>2. UNCHANGED <<more, err, done>>
    BY <1>3 DEF ExecuteFails
  <2>3. closed' /\ closed' \in BOOLEAN /\ sink' \in Blocks /\ (sink' = sink \/ sink'.rows = 0)
    BY <1>0, <2>1, CloseFacts
  <2>4. TypeOK'
    BY <1>t, <1>0, <2>1, <2>2, <2>3 DEF TypeOK
  <2>5. Contiguous' /\ Filling' /\ Starting'
    BY <1>0, <2>1, <2>3 DEF Contiguous, Filling, Starting, TypeOK, Blocks
  <2>6. Counted' /\ Finished'
    BY <1>0, <2>1, <2>2, <2>3 DEF Counted, Finished
  <2> QED BY <2>4, <2>5, <2>6 DEF IInv
<1>4. CASE Fails
  <2>1. pc = "fill" /\ pc' = "idle" /\ CloseReader
        /\ UNCHANGED <<sent, bytes, pending, per, current, given, refs>>
    BY <1>4 DEF Fails, outVars
  <2>2. UNCHANGED <<more, done>>
    BY <1>4 DEF Fails
  <2>3. err' \in BOOLEAN
    BY <1>4, Zenon DEF Fails
  <2>4. closed' /\ closed' \in BOOLEAN /\ sink' \in Blocks /\ (sink' = sink \/ sink'.rows = 0)
    BY <1>0, <2>1, CloseFacts
  <2>5. TypeOK'
    BY <1>t, <1>0, <2>1, <2>2, <2>3, <2>4 DEF TypeOK
  <2>6. Contiguous' /\ Filling' /\ Starting'
    BY <1>0, <2>1, <2>4 DEF Contiguous, Filling, Starting, TypeOK, Blocks
  <2>7. Counted' /\ Finished'
    BY <1>0, <2>1, <2>2, <2>4 DEF Counted, Finished
  <2> QED BY <2>5, <2>6, <2>7 DEF IInv
<1>5. CASE Ends
  <2>1. pc = "fill" /\ pc' = "idle" /\ CloseReader /\ ~RowsWanted /\ sink.rows = 0
        /\ UNCHANGED <<sent, bytes, pending, per, current, given, refs>>
    BY <1>5 DEF Ends, outVars
  <2>2. UNCHANGED <<more, err>>
    BY <1>5 DEF Ends
  <2>3. done' \in BOOLEAN
    BY <1>5, Zenon DEF Ends
  <2>4. closed' /\ closed' \in BOOLEAN /\ sink' \in Blocks /\ (sink' = sink \/ sink'.rows = 0)
    BY <1>0, <2>1, CloseFacts
  <2>5. given = Total
    BY <2>1, EndsWithAll
  <2>6. TypeOK'
    BY <1>t, <1>0, <2>1, <2>2, <2>3, <2>4 DEF TypeOK
  <2>7. Contiguous' /\ Filling' /\ Starting'
    BY <1>0, <2>1, <2>4 DEF Contiguous, Filling, Starting, TypeOK, Blocks
  <2>8. Counted' /\ Finished'
    BY <1>0, <2>1, <2>2, <2>4, <2>5 DEF Counted, Finished
  <2> QED BY <2>6, <2>7, <2>8 DEF IInv
<1>6. CASE CallNext
  <2>1. pc = "idle" /\ Readable /\ UNCHANGED <<sent, sink, bytes, refs>>
    BY <1>6 DEF CallNext, readVars
  <2>2. UNCHANGED <<more, err, done, closed>>
    BY <1>6 DEF CallNext, readVars
  <2>3. ~err /\ ~done /\ ~closed /\ refs > 0
    BY <2>1 DEF Readable
  <2>4. CASE pending.rows > 0
    <3>1. HandOut(pending, per) /\ pc' = pc
      BY <1>6, <2>4 DEF CallNext
    <3>2. /\ current' \in Blocks /\ given' \in 0 .. Total
          /\ pending' \in Blocks /\ per' \in Nat
          /\ pending'.rows = 0 => given' = sent
          /\ pending'.rows > 0 =>
               pending'.first = given' + 1 /\ pending'.first + pending'.rows = sent + 1 /\ per' > 0
      BY <1>0, <2>3, <2>4, <3>1, HandOutFacts DEF TypeOK, Contiguous
    <3>3. TypeOK'
      BY <1>0, <1>t, <2>1, <2>2, <3>1, <3>2 DEF TypeOK
    <3>4. Contiguous'
      BY <1>0, <2>1, <2>2, <2>3, <2>4, <3>2 DEF Contiguous, TypeOK, Blocks
    <3>5. Filling' /\ Starting'
      BY <1>0, <2>1, <3>1 DEF Filling, Starting
    <3>6. Counted' /\ Finished'
      BY <1>0, <2>1, <2>2, <2>3 DEF Counted, Finished
    <3> QED BY <3>3, <3>4, <3>5, <3>6 DEF IInv
  <2>5. CASE ~(pending.rows > 0)
    <3>1. current' = Nil /\ pc' = "fill" /\ UNCHANGED <<pending, per, given>>
      BY <1>6, <2>5 DEF CallNext
    <3>2. Nil \in Blocks
      BY DEF Nil, Block, Blocks
    <3>3. TypeOK'
      BY <1>0, <1>t, <2>1, <2>2, <3>1, <3>2 DEF TypeOK
    <3>4. Contiguous' /\ Filling' /\ Starting'
      BY <1>0, <2>1, <2>2, <2>3, <2>5, <3>1 DEF Contiguous, Filling, Starting, TypeOK, Blocks
    <3>5. Counted' /\ Finished'
      BY <1>0, <2>1, <2>2, <2>3 DEF Counted, Finished
    <3> QED BY <3>3, <3>4, <3>5 DEF IInv
  <2> QED BY <2>4, <2>5
<1>7. CASE Builds
  <2>1. pc = "fill" /\ pc' = "idle" /\ sink.rows > 0 /\ sink' = Nil /\ bytes' = 0
        /\ HandOut(sink, IF Oversized THEN SliceRows ELSE sink.rows)
        /\ UNCHANGED <<sent, refs>>
    BY <1>7 DEF Builds
  <2>2. UNCHANGED <<more, err, done, closed>>
    BY <1>7 DEF Builds
  <2>3. (IF Oversized THEN SliceRows ELSE sink.rows) \in Nat \ {0}
    BY <1>0, <2>1, SliceRowsType DEF TypeOK, Blocks
  <2>4. ~err /\ ~done /\ ~closed /\ refs > 0 /\ pending.rows = 0
    BY <1>0, <2>1 DEF Filling
  <2>5. sink \in Blocks /\ sink.first = given + 1 /\ sink.first + sink.rows = sent + 1
    BY <1>0, <2>1, <2>4 DEF Contiguous, TypeOK, Blocks
  <2>6. /\ current' \in Blocks /\ given' \in 0 .. Total
        /\ pending' \in Blocks /\ per' \in Nat
        /\ pending'.rows = 0 => given' = sent
        /\ pending'.rows > 0 =>
             pending'.first = given' + 1 /\ pending'.first + pending'.rows = sent + 1 /\ per' > 0
    BY <1>0, <2>1, <2>3, <2>5, HandOutFacts
  <2>7. sink' \in Blocks /\ sink'.rows = 0
    BY <2>1 DEF Nil, Block, Blocks
  <2>8. TypeOK'
    BY <1>t, <1>0, <2>1, <2>2, <2>6, <2>7 DEF TypeOK
  <2>9. Contiguous'
    <3>1. sent' = sent /\ sent \in Nat
      BY <1>0, <2>1 DEF TypeOK
    <3>2. pending'.rows = 0 => given' + sink'.rows = sent'
      BY <2>6, <2>7, <3>1
    <3>3. pending'.rows > 0 =>
            /\ pending'.first = given' + 1 /\ pending'.first + pending'.rows = sent' + 1
            /\ sink'.rows = 0 /\ per' > 0
      BY <2>6, <2>7, <3>1
    <3> QED BY <2>7, <3>2, <3>3 DEF Contiguous
  <2>10. Filling' /\ Starting'
    BY <1>0, <2>1 DEF Filling, Starting
  <2>11. Counted' /\ Finished'
    BY <1>0, <2>1, <2>2, <2>4 DEF Counted, Finished
  <2> QED BY <2>8, <2>9, <2>10, <2>11 DEF IInv
<1>8. CASE Retain
  <2>1. pc = "idle" /\ refs \in 1 .. MaxRefs - 1 /\ refs' = refs + 1
        /\ UNCHANGED <<pc, sent, sink, bytes, pending, per, current, given>>
    BY <1>8 DEF Retain, readVars, outVars
  <2>2. UNCHANGED <<more, err, done, closed>>
    BY <1>8 DEF Retain, readVars
  <2>3. TypeOK'
    BY <1>t, <1>0, <2>1, <2>2 DEF TypeOK
  <2>4. Contiguous' /\ Filling' /\ Starting' /\ Counted' /\ Finished'
    BY <1>0, <2>1, <2>2 DEF Contiguous, Filling, Starting, Counted, Finished, TypeOK
  <2> QED BY <2>3, <2>4 DEF IInv
<1>9. CASE Release
  <2>1. pc = "idle" /\ refs > 0 /\ refs' = refs - 1
        /\ UNCHANGED <<pc, sent, bytes, per, given>>
    BY <1>9 DEF Release
  <2>2. UNCHANGED <<more, err, done>>
    BY <1>9 DEF Release
  <2>3. CASE refs' = 0
    <3>1. current' = Nil /\ pending' = Nil /\ CloseReader
      BY <1>9, <2>3 DEF Release
    <3>2. closed' /\ closed' \in BOOLEAN /\ sink' \in Blocks /\ (sink' = sink \/ sink'.rows = 0)
      BY <1>0, <3>1, CloseFacts
    <3>3. Nil \in Blocks
      BY DEF Nil, Block, Blocks
    <3>4. TypeOK'
      BY <1>0, <1>t, <2>1, <2>2, <2>3, <3>1, <3>2, <3>3 DEF TypeOK
    <3>5. Contiguous' /\ Filling' /\ Starting'
      BY <1>0, <2>1, <3>1, <3>2 DEF Contiguous, Filling, Starting, TypeOK, Blocks
    <3>6. Counted' /\ Finished'
      BY <1>0, <2>1, <2>2, <3>2 DEF Counted, Finished
    <3> QED BY <3>4, <3>5, <3>6 DEF IInv
  <2>4. CASE refs' # 0
    <3>1. UNCHANGED <<current, pending, sink>>
      BY <1>9, <2>4 DEF Release
    <3>2. UNCHANGED closed
      BY <1>9, <2>4 DEF Release
    <3>3. TypeOK'
      BY <1>0, <1>t, <2>1, <2>2, <2>4, <3>1, <3>2 DEF TypeOK
    <3>4. Contiguous' /\ Filling' /\ Starting' /\ Counted' /\ Finished'
      BY <1>0, <2>1, <2>2, <2>4, <3>1, <3>2 DEF Contiguous, Filling, Starting, Counted, Finished, TypeOK
    <3> QED BY <3>3, <3>4 DEF IInv
  <2> QED BY <2>3, <2>4
<1>10. CASE UNCHANGED vars
  <2>1. UNCHANGED <<pc, sent, sink, bytes, pending, per, current, given, refs>>
    BY <1>10 DEF vars, readVars, outVars
  <2>2. UNCHANGED <<more, err, done, closed>>
    BY <1>10 DEF vars, readVars
  <2> QED BY <1>0, <1>t, <2>1, <2>2 DEF IInv, TypeOK, Contiguous, Filling, Starting, Counted, Finished
<1>11. CASE Over
  BY <1>10, <1>11 DEF Over
<1> QED
  BY <1>1, <1>2, <1>3, <1>4, <1>5, <1>6, <1>7, <1>8, <1>9, <1>10, <1>11 DEF Next, Fill

---------------------------------------------------------------------------
\* In every state the rows sent are handed out, pending or in the sink.
THEOREM Invariance == Spec => []IInv
<1>1. Init => IInv
  <2> SUFFICES ASSUME Init PROVE IInv
    OBVIOUS
  <2>1. Nil \in Blocks /\ Nil.rows = 0
    BY DEF Nil, Block, Blocks
  <2>2. more \in BOOLEAN /\ asks \in BOOLEAN /\ err \in BOOLEAN /\ done \in BOOLEAN /\ closed \in BOOLEAN
        /\ more /\ ~err /\ ~done /\ ~closed
    BY Zenon DEF Init
  <2>3. pc = "new" /\ sent = 0 /\ sink = Nil /\ bytes = 0 /\ pending = Nil /\ per = 0
        /\ current = Nil /\ given = 0 /\ refs = 1
    BY DEF Init
  <2> QED BY <2>1, <2>2, <2>3 DEF IInv, TypeOK, Contiguous, Filling, Starting, Counted, Finished
<1>2. IInv /\ [Next]_vars => IInv'
  BY Inductive
<1> QED BY <1>1, <1>2, PTL DEF Spec

\* No variable leaves its type: no row beyond the end of the result is handed
\* out or asked of a slice, whatever record_reader.go is configured with.
THEOREM TypeCorrect == Spec => []TypeOK
<1>1. IInv => TypeOK
  BY DEF IInv
<1> QED BY <1>1, Invariance, PTL

\* Init and every step of the reader are those of RowStream.
LEMMA Simulation ==
  ASSUME IInv, [Next]_vars
  PROVE  [Stream!Next]_<<given, Status>>
<1>0. TypeOK /\ Contiguous /\ Filling /\ Starting /\ Finished
  BY DEF IInv
<1>1. ASSUME given' = given, UNCHANGED <<done, closed>>
      PROVE  UNCHANGED <<given, Status>>
  BY <1>1 DEF Status
<1>2. ASSUME NEW block \in Blocks, NEW width \in Nat \ {0}, block.rows > 0, ~closed,
             block.first = given + 1, block.first + block.rows = sent + 1,
             HandOut(block, width), UNCHANGED <<done, closed>>
      PROVE  Stream!Emit
  <2>1. current' \in Blocks /\ current'.rows > 0 /\ given' = given + current'.rows
        /\ given' \in 0 .. Total
    BY <1>0, <1>2, HandOutFacts
  <2>2. current'.rows \in 1 .. Total - given
    BY <1>0, <2>1 DEF TypeOK, Blocks
  <2>3. Status = "open" /\ Status' = Status
    BY <1>0, <1>2 DEF Status, Finished
  <2> QED BY <2>1, <2>2, <2>3 DEF Stream!Emit
<1>3. ASSUME ~closed, closed', UNCHANGED <<given, done>>
      PROVE  Stream!Cut
  BY <1>0, <1>3 DEF Stream!Cut, Status, Finished
<1>4. CASE Execute
  BY <1>1, <1>4 DEF Execute, outVars
<1>5. CASE Fetch
  BY <1>1, <1>5 DEF Fetch, outVars
<1>6. CASE Retain
  BY <1>1, <1>6 DEF Retain, outVars
<1>7. CASE UNCHANGED vars \/ Over
  BY <1>1, <1>7 DEF Over, vars, outVars
<1>8. CASE ExecuteFails
  <2>1. pc = "new" /\ CloseReader /\ UNCHANGED <<given, done>>
    BY <1>8 DEF ExecuteFails, outVars
  <2>2. ~closed /\ closed'
    BY <1>0, <2>1, CloseFacts DEF Starting
  <2>3. Stream!Cut
    BY <1>3, <2>1, <2>2
  <2> QED BY <2>3 DEF Stream!Next
<1>9. CASE Fails
  <2>1. pc = "fill" /\ CloseReader /\ UNCHANGED <<given, done>>
    BY <1>9 DEF Fails, outVars
  <2>2. ~closed /\ closed'
    BY <1>0, <2>1, CloseFacts DEF Filling
  <2>3. Stream!Cut
    BY <1>3, <2>1, <2>2
  <2> QED BY <2>3 DEF Stream!Next
<1>10. CASE Ends
  <2>1. pc = "fill" /\ ~RowsWanted /\ sink.rows = 0 /\ UNCHANGED given
    BY <1>10 DEF Ends, outVars
  <2>2. done'
    BY <1>10, Zenon DEF Ends
  <2>3. given = Total
    BY <2>1, EndsWithAll
  <2>4. ~closed /\ ~done
    BY <1>0, <2>1 DEF Filling
  <2>5. Stream!End
    BY <2>1, <2>2, <2>3, <2>4 DEF Stream!End, Status
  <2> QED BY <2>5 DEF Stream!Next
<1>11. CASE CallNext
  <2>1. UNCHANGED <<done, closed>>
    BY <1>11 DEF CallNext
  <2>2. CASE pending.rows > 0
    <3>1. Readable /\ HandOut(pending, per)
      BY <1>11, <2>2 DEF CallNext
    <3>2. Stream!Emit
      BY <1>0, <1>2, <2>1, <2>2, <3>1 DEF Readable, TypeOK, Contiguous
    <3> QED BY <3>2 DEF Stream!Next
  <2>3. CASE ~(pending.rows > 0)
    BY <1>1, <1>11, <2>1, <2>3 DEF CallNext
  <2> QED BY <2>2, <2>3
<1>12. CASE Builds
  <2>1. pc = "fill" /\ sink.rows > 0
        /\ HandOut(sink, IF Oversized THEN SliceRows ELSE sink.rows)
    BY <1>12 DEF Builds
  <2>2. UNCHANGED <<done, closed>>
    BY <1>12 DEF Builds
  <2>3. (IF Oversized THEN SliceRows ELSE sink.rows) \in Nat \ {0}
    BY <1>0, <2>1, SliceRowsType DEF TypeOK, Blocks
  <2>4. ~closed /\ sink \in Blocks /\ sink.first = given + 1 /\ sink.first + sink.rows = sent + 1
    BY <1>0, <2>1 DEF Filling, Contiguous, TypeOK, Blocks
  <2>5. Stream!Emit
    BY <1>2, <2>1, <2>2, <2>3, <2>4
  <2> QED BY <2>5 DEF Stream!Next
<1>13. CASE Release
  <2>1. UNCHANGED <<given, done>>
    BY <1>13 DEF Release
  <2>2. CASE refs' = 0 /\ ~closed
    <3>1. closed'
      BY <1>0, <1>13, <2>2, CloseFacts DEF Release
    <3>2. Stream!Cut
      BY <1>3, <2>1, <2>2, <3>1
    <3> QED BY <3>2 DEF Stream!Next
  <2>3. CASE refs' # 0 \/ closed
    <3>1. UNCHANGED closed
      BY <1>13, <2>3, Zenon DEF Release, CloseReader
    <3> QED BY <1>1, <2>1, <3>1
  <2> QED BY <2>2, <2>3
<1> QED
  BY <1>4, <1>5, <1>6, <1>7, <1>8, <1>9, <1>10, <1>11, <1>12, <1>13 DEF Next, Fill

\* record_reader.go implements a RowStream: all rows of the result before the
\* end, in order and each once, and nothing after the end, an error or a release.
THEOREM Implementation == Spec => Implements
<1>1. Init => Stream!Init
  <2>1. Init => given = 0 /\ ~done /\ ~closed
    BY Zenon DEF Init
  <2> QED BY <2>1 DEF Stream!Init, Status
<1>2. IInv /\ [Next]_vars => [Stream!Next]_<<given, Status>>
  BY Simulation
<1> QED BY <1>1, <1>2, Invariance, PTL DEF Spec, Implements, Stream!Spec

\* Records follow one another without a gap or an overlap, whether they are
\* slices of record_reader.go's r.pending or built from fetched rows.
THEOREM InOrder == Spec => BatchesInOrder
<1> DEFINE InStep ==
      current' # current /\ current' # Nil =>
        current'.first = given + 1 /\ current'.rows > 0 /\ given' = given + current'.rows
<1>1. ASSUME IInv, [Next]_vars PROVE InStep
  <2>0. TypeOK /\ Contiguous /\ Filling
    BY <1>1 DEF IInv
  <2>1. ASSUME NEW block \in Blocks, NEW width \in Nat \ {0}, block.rows > 0,
               block.first = given + 1, block.first + block.rows = sent + 1, HandOut(block, width)
        PROVE  InStep
    BY <2>0, <2>1, HandOutFacts
  <2>2. CASE current' = current \/ current' = Nil
    BY <2>2
  <2>3. CASE CallNext /\ pending.rows > 0
    <3>1. Readable /\ HandOut(pending, per)
      BY <2>3 DEF CallNext
    <3> QED BY <2>0, <2>1, <2>3, <3>1 DEF Readable, TypeOK, Contiguous
  <2>4. CASE Builds
    <3>1. pc = "fill" /\ sink.rows > 0
          /\ HandOut(sink, IF Oversized THEN SliceRows ELSE sink.rows)
      BY <2>4 DEF Builds
    <3>2. (IF Oversized THEN SliceRows ELSE sink.rows) \in Nat \ {0}
      BY <2>0, <3>1, SliceRowsType DEF TypeOK, Blocks
    <3>3. sink \in Blocks /\ sink.first = given + 1 /\ sink.first + sink.rows = sent + 1
      BY <2>0, <3>1 DEF Filling, Contiguous, TypeOK, Blocks
    <3> QED BY <2>1, <3>1, <3>2, <3>3
  <2>5. CASE CallNext /\ ~(pending.rows > 0)
    BY <2>2, <2>5 DEF CallNext
  <2>6. CASE Execute \/ ExecuteFails \/ Fetch \/ Fails \/ Ends \/ Retain \/ Release \/ Over
    BY <2>2, <2>6 DEF Execute, ExecuteFails, Fetch, Fails, Ends, Retain, Release, Over, outVars, vars
  <2>7. CASE UNCHANGED vars
    BY <2>2, <2>7 DEF vars, outVars
  <2> QED BY <1>1, <2>3, <2>4, <2>5, <2>6, <2>7 DEF Next, Fill
<1>2. IInv /\ [Next]_vars => [InStep]_vars
  BY <1>1
<1> QED BY <1>2, Invariance, PTL DEF Spec, BatchesInOrder

---------------------------------------------------------------------------
\* No block of rows is longer than batch_size.
Bounded == sink.rows <= BatchSize /\ pending.rows <= BatchSize /\ current.rows <= BatchSize

LEMMA BoundedStep ==
  ASSUME PrefetchRows <= BatchSize, IInv, Bounded, [Next]_vars
  PROVE  Bounded'
<1>0. TypeOK /\ Contiguous /\ Filling /\ Starting
  BY DEF IInv
<1>1. Nil.rows = 0 /\ 0 <= BatchSize
  BY DEF Nil, Block
<1>2. CASE Execute
  <2>1. PICK n \in 0 .. PrefetchRows, w \in RowBytes : Take(n, w)
    BY <1>2 DEF Execute, Answers
  <2>2. n \in Nat /\ pc = "new" /\ UNCHANGED <<pending, current>>
    BY <1>2 DEF Execute, outVars
  <2>3. sink'.rows = sink.rows + n
    BY <1>0, <2>1, <2>2, TakeFacts
  <2> QED BY <1>0, <2>2, <2>3 DEF Bounded, Starting
<1>3. CASE Fetch
  <2>1. PICK n \in 0 .. Want, w \in RowBytes : Take(n, w)
    BY <1>0, <1>3, WantIs DEF Fetch, Answers, RowsWanted
  <2>2. UNCHANGED <<pending, current>> /\ sink.rows < BatchSize
    BY <1>3 DEF Fetch, outVars, RowsWanted
  <2>3. n \in Nat /\ n <= BatchSize - sink.rows
    BY <1>0, <2>1, <2>2 DEF Want, Least, TypeOK, Blocks
  <2>4. sink'.rows = sink.rows + n
    BY <1>0, <2>1, <2>3, TakeFacts
  <2> QED BY <1>0, <2>2, <2>3, <2>4 DEF Bounded, TypeOK, Blocks
<1>4. CASE ExecuteFails \/ Fails \/ Ends
  <2>1. CloseReader /\ UNCHANGED <<pending, current>>
    BY <1>4 DEF ExecuteFails, Fails, Ends, outVars
  <2>2. sink' = sink \/ sink'.rows = 0
    BY <1>0, <2>1, CloseFacts
  <2> QED BY <1>1, <2>1, <2>2 DEF Bounded
<1>5. CASE CallNext /\ pending.rows > 0
  <2>1. Readable /\ HandOut(pending, per) /\ UNCHANGED sink
    BY <1>5 DEF CallNext, readVars
  <2>2. current' \in Blocks /\ pending' \in Blocks
        /\ current'.rows <= pending.rows /\ pending'.rows <= pending.rows
    BY <1>0, <1>5, <2>1, HandOutFacts DEF Readable, TypeOK, Contiguous
  <2> QED BY <1>0, <2>1, <2>2 DEF Bounded, TypeOK, Blocks
<1>6. CASE CallNext /\ ~(pending.rows > 0)
  BY <1>1, <1>6 DEF CallNext, readVars, Bounded
<1>7. CASE Builds
  <2>1. pc = "fill" /\ sink.rows > 0 /\ sink' = Nil
        /\ HandOut(sink, IF Oversized THEN SliceRows ELSE sink.rows)
    BY <1>7 DEF Builds
  <2>2. (IF Oversized THEN SliceRows ELSE sink.rows) \in Nat \ {0}
    BY <1>0, <2>1, SliceRowsType DEF TypeOK, Blocks
  <2>3. sink \in Blocks /\ sink.first = given + 1 /\ sink.first + sink.rows = sent + 1
    BY <1>0, <2>1 DEF Filling, Contiguous, TypeOK, Blocks
  <2>4. current' \in Blocks /\ pending' \in Blocks
        /\ current'.rows <= sink.rows /\ pending'.rows <= sink.rows
    BY <1>0, <2>1, <2>2, <2>3, HandOutFacts
  <2> QED BY <1>0, <1>1, <2>1, <2>4 DEF Bounded, TypeOK, Blocks
<1>8. CASE Release
  <2>1. CASE refs' = 0
    <3>1. current' = Nil /\ pending' = Nil /\ CloseReader
      BY <1>8, <2>1 DEF Release
    <3>2. sink' = sink \/ sink'.rows = 0
      BY <1>0, <3>1, CloseFacts
    <3> QED BY <1>1, <3>1, <3>2 DEF Bounded
  <2>2. CASE refs' # 0
    BY <1>8, <2>2 DEF Release, Bounded
  <2> QED BY <2>1, <2>2
<1>9. CASE Retain \/ Over \/ UNCHANGED vars
  BY <1>9 DEF Retain, Over, vars, readVars, outVars, Bounded
<1> QED BY <1>2, <1>3, <1>4, <1>5, <1>6, <1>7, <1>8, <1>9 DEF Next, Fill

\* A record has at most batch_size rows, if no more are prefetched with the
\* execution: what record_reader.go says of Next, under the condition it needs.
THEOREM RecordsBounded ==
  ASSUME PrefetchRows <= BatchSize
  PROVE  Spec => []BatchWithinSize
<1>1. Init => Bounded
  BY DEF Init, Nil, Block, Bounded
<1>2. IInv /\ Bounded /\ [Next]_vars => Bounded'
  BY BoundedStep
<1>3. Bounded => BatchWithinSize
  BY DEF Bounded, BatchWithinSize
<1> QED BY <1>1, <1>2, <1>3, Invariance, PTL DEF Spec

---------------------------------------------------------------------------
\* Products of natural numbers grow with their factors.
LEMMA Monotone ==
  ASSUME NEW a \in Nat, NEW b \in Nat, NEW c \in Nat, a <= b
  PROVE  a * c <= b * c /\ c * a <= c * b
<1>1. b = a + (b - a) /\ b - a \in Nat
  OBVIOUS
<1>2. (b - a) * c \in Nat /\ a * c \in Nat
  BY <1>1
<1>3. b * c = a * c + (b - a) * c
  BY <1>1
<1>4. a * c <= b * c
  BY <1>2, <1>3
<1>5. c * a = a * c /\ c * b = b * c
  OBVIOUS
<1> QED BY <1>4, <1>5

\* What \div rounds down does not exceed what it divides.
LEMMA RoundedDown ==
  ASSUME NEW p \in Nat, NEW b \in Nat \ {0}
  PROVE  p \div b \in Nat /\ (p \div b) * b <= p
<1>1. p \div b \in Nat
  OBVIOUS
<1>2. (p \div b) * b <= p
  BY <1>1
<1> QED BY <1>1, <1>2

\* The rows of a record that is built, whole or as the first slice of many, have
\* on average no more than their share of the limit.
LEMMA SliceFits ==
  ASSUME TypeOK, BatchBytes > 0, sink.rows > 0,
         NEW n \in Nat, n > 1, n <= sink.rows, n <= IF Oversized THEN SliceRows ELSE sink.rows
  PROVE  n * bytes <= sink.rows * BatchBytes
<1>1. sink.rows \in Nat /\ bytes \in Nat /\ BatchBytes \in Nat
  BY DEF TypeOK, Blocks
<1> DEFINE product == sink.rows * BatchBytes
<1>2. product \in Nat
  BY <1>1
<1> HIDE DEF product
<1>3. CASE Oversized
  <2>1. bytes \in Nat \ {0} /\ n <= SliceRows
    BY <1>1, <1>3 DEF Oversized
  <2> DEFINE q == product \div bytes
  <2>2. q \in Nat /\ q * bytes <= product
    BY <1>2, <2>1, RoundedDown
  <2>3. SliceRows = IF q < 1 THEN 1 ELSE q
    BY DEF SliceRows, product
  <2> HIDE DEF q
  <2>4. n <= q
    BY <2>1, <2>2, <2>3
  <2>5. n * bytes <= q * bytes /\ n * bytes \in Nat /\ q * bytes \in Nat
    BY <1>1, <2>2, <2>4, Monotone
  <2>6. n * bytes <= product
    BY <1>2, <2>2, <2>5
  <2> QED BY <2>6 DEF product
<1>4. CASE ~Oversized
  <2>1. bytes <= BatchBytes
    BY <1>1, <1>4 DEF Oversized
  <2>2. n * bytes <= sink.rows * bytes
    BY <1>1, Monotone
  <2>3. sink.rows * bytes <= sink.rows * BatchBytes
    BY <1>1, <2>1, Monotone
  <2>4. n * bytes \in Nat /\ sink.rows * bytes \in Nat /\ sink.rows * BatchBytes \in Nat
    BY <1>1
  <2> QED BY <2>2, <2>3, <2>4
<1> QED BY <1>3, <1>4

\* A record of more than one row is within batch_bytes by the average length of
\* the rows that newRecord counted, for every limit and every weight of the rows.
THEOREM SlicesFit == Spec => BatchWithinBytes
<1> DEFINE Fits ==
      pc = "fill" /\ current' # current /\ BatchBytes > 0 /\ current'.rows > 1 =>
        current'.rows * bytes <= sink.rows * BatchBytes
<1>1. ASSUME IInv, [Next]_vars PROVE Fits
  <2> SUFFICES ASSUME pc = "fill", current' # current, BatchBytes > 0, current'.rows > 1
               PROVE  current'.rows * bytes <= sink.rows * BatchBytes
    OBVIOUS
  <2>0. TypeOK /\ Contiguous /\ Filling
    BY <1>1 DEF IInv
  <2>1. Builds
    BY <1>1 DEF Next, Fill, Execute, ExecuteFails, CallNext, Fetch, Fails, Ends, Retain, Release, Over,
       outVars, vars
  <2> DEFINE width == IF Oversized THEN SliceRows ELSE sink.rows
  <2>2. sink.rows > 0 /\ HandOut(sink, width)
    BY <2>1 DEF Builds
  <2>3. width \in Nat \ {0}
    BY <2>0, <2>2, SliceRowsType DEF TypeOK, Blocks
  <2>4. sink \in Blocks /\ sink.rows \in Nat
    BY <2>0 DEF TypeOK, Blocks
  <2> DEFINE n == Least(width, sink.rows)
  <2>5. current' = [first |-> sink.first, rows |-> n]
    BY <2>2 DEF HandOut, Block
  <2> HIDE DEF width
  <2>6. n \in Nat /\ n <= sink.rows /\ n <= width
    BY <2>3, <2>4 DEF Least
  <2> HIDE DEF n
  <2>7. current'.rows = n /\ n > 1
    BY <2>5
  <2>8. n * bytes <= sink.rows * BatchBytes
    BY <2>0, <2>2, <2>6, <2>7, SliceFits DEF width
  <2> QED BY <2>7, <2>8
<1>2. IInv /\ [Next]_vars => [Fits]_vars
  BY <1>1
<1> QED BY <1>2, Invariance, PTL DEF Spec, BatchWithinBytes
=============================================================================
