------------------------------ MODULE Packets ------------------------------
(***************************************************************************)
(* Values across packets (WriteBuffer and ReadBuffer of internal/tns): a   *)
(* message is written into DATA packets that are cut where the buffer is   *)
(* full, and read from packets that the server cuts where it likes.        *)
(*                                                                         *)
(* A packet is its payload, a sequence of bytes below Base.  The server    *)
(* answers with the fields it was sent; an OUT bind has its actual length  *)
(* behind it, a NULL is a mark.  No DATA packet is without a payload: an   *)
(* empty one sends even a single byte through the scratch buffer.          *)
(***************************************************************************)
EXTENDS Integers, Sequences, SequencesExt

CONSTANTS
  Base,             \* 256: the values of a byte
  SignBit,          \* 0x80: in the length of an integer, a minus
  MaxShortLength,   \* 252: the longest value with one length
  LongLength,       \* 254: the mark of a value in chunks
  NullLength,       \* 255: the mark of a NULL
  ChunkSize,        \* 32767: the longest chunk
  PacketSize,       \* the payload of the packets that are written
  MaxPackets,       \* bound: packets of an answer
  Messages          \* sequences of fields [kind, n]

\* An integer has four bytes, and so have the first length of a value with two
\* and the actual length of an OUT bind.
UB4 == 0 .. Base * Base * Base * Base - 1
Kinds == {"unsigned", "signed", "value", "sized", "out", "null"}
IsField(f) ==
  CASE f.kind \in {"unsigned", "sized", "out"} -> f.n \in UB4
    [] f.kind = "signed" -> f.n \in UB4 \/ -f.n \in UB4
    [] f.kind = "value" -> f.n >= 0
    [] f.kind = "null" -> f.n = 0

ASSUME PacketsAssumption ==
  /\ {Base, SignBit, MaxShortLength, LongLength, NullLength, ChunkSize, PacketSize, MaxPackets} \subseteq Nat
  /\ 4 < SignBit /\ SignBit + 4 < Base
  /\ MaxShortLength < LongLength /\ LongLength < NullLength /\ NullLength < Base
  /\ ChunkSize # 0 /\ ChunkSize \in UB4
  /\ 4 <= PacketSize
  /\ Messages \subseteq Seq([kind : Kinds, n : Int])
  /\ \A m \in Messages : m # <<>> /\ \A i \in DOMAIN m : IsField(m[i])

VARIABLES
  message,
  turn,       \* "write", "answer", "field", "value", "chunks", "skip", "actual", "failed"
  queue,      \* what is left to write
  packets,    \* those sent
  buffered,   \* the payload of the one being written
  incoming,   \* the packets of the answer
  reader,     \* the ReadBuffer: see NoReader
  chunk,      \* r.chunk
  answers     \* of the fields read or skipped

packetsVars == <<message, turn, queue, packets, buffered, incoming, reader, chunk, answers>>

---------------------------------------------------------------------------
(* WriteBuffer.  A piece is written whole, or cut wherever a packet ends.  *)

Least(a, b) == IF a < b THEN a ELSE b

Whole(b) == [bytes |-> b, whole |-> TRUE]
Raw(b) == [bytes |-> b, whole |-> FALSE]

ByteCount(n) == CASE n = 0 -> 0 [] n \in 1 .. Base - 1 -> 1 [] n \in Base .. Base * Base - 1 -> 2 [] OTHER -> 4
BigEndian(n, k) ==
  LET pair(m) == <<m \div Base, m % Base>>
  IN  CASE k = 1 -> <<n>> [] k = 2 -> pair(n) [] k = 4 -> pair(n \div (Base * Base)) \o pair(n % (Base * Base))

\* Length and bytes are two writes: a packet may end between them.
Universal(n, sign) ==
  <<Whole(<<ByteCount(n) + sign>>)>> \o IF n = 0 THEN <<>> ELSE <<Whole(BigEndian(n, ByteCount(n)))>>

WriteUB4(n) == Universal(n, 0)
WriteSB4(n) == IF n < 0 THEN Universal(-n, SignBit) ELSE Universal(n, 0)

Chunks(b) ==
  [i \in 1 .. (Len(b) + ChunkSize - 1) \div ChunkSize |->
     SubSeq(b, (i - 1) * ChunkSize + 1, Least(i * ChunkSize, Len(b)))]

WriteBytesWithLength(b) ==
  IF Len(b) <= MaxShortLength THEN <<Whole(<<Len(b)>>)>> \o IF b = <<>> THEN <<>> ELSE <<Raw(b)>>
  ELSE <<Whole(<<LongLength>>)>>
         \o FlattenSeq([i \in DOMAIN Chunks(b) |-> WriteUB4(Len(Chunks(b)[i])) \o <<Raw(Chunks(b)[i])>>])
         \o WriteUB4(0)

WriteBytesWithTwoLengths(b) ==
  WriteUB4(Len(b)) \o IF b = <<>> THEN <<>> ELSE WriteBytesWithLength(b)

\* The value of the i-th field: a number, or bytes that tell their place.
IsNumber(f) == f.kind \in {"unsigned", "signed"}
Meant(i) ==
  IF IsNumber(message[i]) THEN message[i].n ELSE [k \in 1 .. message[i].n |-> (3 * i + k) % Base]

Pieces(i) ==
  CASE message[i].kind = "unsigned" -> WriteUB4(Meant(i))
    [] message[i].kind = "signed" -> WriteSB4(Meant(i))
    [] message[i].kind = "sized" -> WriteBytesWithTwoLengths(Meant(i))
    [] OTHER -> WriteBytesWithLength(Meant(i))

Joined(pieces) == FlattenSeq([i \in DOMAIN pieces |-> pieces[i].bytes])

Room == PacketSize - Len(buffered)

\* ensure, and WriteRaw with nothing available.
SendPacket ==
  /\ turn = "write" /\ queue # <<>>
  /\ IF Head(queue).whole THEN Len(Head(queue).bytes) > Room ELSE Room = 0
  /\ packets' = Append(packets, buffered)
  /\ buffered' = <<>>
  /\ UNCHANGED <<message, turn, queue, incoming, reader, chunk, answers>>

PutPiece ==
  /\ turn = "write" /\ queue # <<>>
  /\ Head(queue).whole /\ Len(Head(queue).bytes) <= Room
  /\ buffered' = buffered \o Head(queue).bytes
  /\ queue' = Tail(queue)
  /\ UNCHANGED <<message, turn, packets, incoming, reader, chunk, answers>>

\* One round of WriteRaw.
PutRaw ==
  /\ turn = "write" /\ queue # <<>>
  /\ ~ Head(queue).whole /\ Room > 0
  /\ LET b == Head(queue).bytes
         n == Least(Len(b), Room)
     IN  /\ buffered' = buffered \o SubSeq(b, 1, n)
         /\ queue' = (IF n = Len(b) THEN <<>> ELSE <<Raw(SubSeq(b, n + 1, Len(b)))>>) \o Tail(queue)
  /\ UNCHANGED <<message, turn, packets, incoming, reader, chunk, answers>>

EndRequest ==
  /\ turn = "write" /\ queue = <<>>
  /\ packets' = Append(packets, buffered)
  /\ buffered' = <<>> /\ turn' = "answer"
  /\ UNCHANGED <<message, queue, incoming, reader, chunk, answers>>

---------------------------------------------------------------------------
(* The server, external: its answer, cut anywhere.                         *)

Answered(i) ==
  CASE message[i].kind = "out" ->
         {Joined(Pieces(i) \o WriteSB4(n)) : n \in {0, message[i].n}}
    [] message[i].kind = "null" -> {<<NullLength>>}
    [] OTHER -> {Joined(Pieces(i))}

\* Where the packets of b may end, and the packets.
Ends(b) ==
  UNION {{e \in [1 .. n -> 1 .. Len(b)] : e[n] = Len(b) /\ \A i \in 1 .. n - 1 : e[i] < e[i + 1]} : n \in 1 .. MaxPackets}

CutAt(b, ends) ==
  [i \in DOMAIN ends |-> SubSeq(b, (IF i = 1 THEN 0 ELSE ends[i - 1]) + 1, ends[i])]

Answer ==
  /\ turn = "answer"
  /\ \E parts \in {p \in [DOMAIN message -> UNION {Answered(i) : i \in DOMAIN message}] :
                     \A i \in DOMAIN message : p[i] \in Answered(i)} :
       LET b == FlattenSeq(parts)
       IN  \E ends \in Ends(b) : incoming' = CutAt(b, ends)
  /\ turn' = "field"
  /\ UNCHANGED <<message, queue, packets, buffered, reader, chunk, answers>>

---------------------------------------------------------------------------
(* ReadBuffer.  taken and pos are the packet being read and how much of it *)
(* was; scratch is the array split values are put together in, as long as  *)
(* the longest so far; out is what was read last, and whether it is a      *)
(* slice of scratch; err is the sticky error.                              *)

NoReader == [taken |-> 0, pos |-> 0, scratch |-> <<>>, out |-> <<>>, inScratch |-> FALSE, err |-> FALSE]

Left(r) == IF r.taken = 0 THEN 0 ELSE Len(incoming[r.taken]) - r.pos

\* n bytes of this packet and the next ones, as far as there are any.
Gathered(r, n) ==
  LET here == Least(n, Left(r))
      gathered[t \in r.taken .. Len(incoming)] ==
        IF t = r.taken
        THEN [taken |-> t, pos |-> r.pos + here,
              out |-> IF here = 0 THEN <<>> ELSE SubSeq(incoming[t], r.pos + 1, r.pos + here)]
        ELSE LET g == gathered[t - 1]
                 more == Least(n - Len(g.out), Len(incoming[t]))
             IN  IF Len(g.out) = n THEN g
                 ELSE [taken |-> t, pos |-> more, out |-> g.out \o SubSeq(incoming[t], 1, more)]
  IN  gathered[Len(incoming)]

\* An error is read as zeros.  A value is a slice of its packet if that holds
\* all of it, else of scratch, whose array is kept if it is long enough: a
\* slice taken before then changes.
Taken(r, n, g) ==
  LET short == r.err \/ Len(g.out) < n
      split == g.taken > r.taken + (IF Left(r) = 0 THEN 1 ELSE 0)
  IN  [taken |-> g.taken, pos |-> g.pos, err |-> short, inScratch |-> split,
       out |-> IF short THEN [i \in 1 .. n |-> 0] ELSE g.out,
       scratch |-> IF split THEN g.out \o SubSeq(r.scratch, n + 1, Len(r.scratch)) ELSE r.scratch]

getRaw(r, n) == Taken(r, n, Gathered(r, n))

\* Only what the packet at hand still has is skipped.
FaultySkipRawBytes(r, n) ==
  [r EXCEPT !.pos = @ + Least(n, Left(r))]

SkipRawBytes(r, n) == [getRaw(r, n) EXCEPT !.scratch = r.scratch]

\* readUnsigned, readSigned: the reader afterwards and the number.
Valued(r, neg) ==
  LET value[k \in 0 .. Len(r.out)] == IF k = 0 THEN 0 ELSE value[k - 1] * Base + r.out[k]
  IN  [reader |-> r, number |-> value[Len(r.out)] * IF neg THEN -1 ELSE 1]

AfterLength(r, neg, n, signed) ==
  CASE n > 4 \/ (neg /\ ~signed) -> [reader |-> [r EXCEPT !.err = TRUE], number |-> 0]
    [] n = 0 -> [reader |-> r, number |-> 0]
    [] OTHER -> Valued(getRaw(r, n), neg)

intLengthAndSign(r, signed) == AfterLength(r, r.out[1] >= SignBit, r.out[1] % SignBit, signed)

ReadInteger(r, signed) == intLengthAndSign(getRaw(r, 1), signed)

\* The slice that was read as r.out, seen after other reads have led to s.
Later(r, s) ==
  IF r.inScratch /\ Len(s.scratch) = Len(r.scratch) THEN SubSeq(s.scratch, 1, Len(r.out)) ELSE r.out

---------------------------------------------------------------------------
(* The fields, in order.  An error ends the response.                      *)

Field == message[Len(answers) + 1]
HasField == Len(answers) < Len(message)
Done(v) == [skipped |-> FALSE, value |-> v]
Skipped == [skipped |-> TRUE, value |-> <<>>]

Onward(r, next) ==
  /\ reader' = r
  /\ turn' = IF r.err THEN "failed" ELSE next
  /\ UNCHANGED <<message, queue, packets, buffered, incoming>>

ReadNumber ==
  /\ turn = "field" /\ HasField /\ IsNumber(Field)
  /\ \E i \in {ReadInteger(reader, Field.kind = "signed")} :
       answers' = Append(answers, Done(i.number)) /\ Onward(i.reader, "field")
  /\ UNCHANGED chunk

\* What is read is copied at once, but for an OUT bind, which keeps the slice.
Deliver(r) ==
  IF Field.kind = "out" THEN Onward(r, "actual") /\ UNCHANGED answers
  ELSE Onward(r, "field") /\ answers' = Append(answers, Done(r.out))

\* ReadRawBytesAndLength, up to the chunks of a long value.
BeginValue ==
  /\ \/ turn = "field" /\ HasField /\ Field.kind \in {"value", "out", "null"}
     \/ turn = "value"
  /\ \E g \in {getRaw(reader, 1)} :
       CASE g.out[1] \in {0, NullLength} -> Deliver([g EXCEPT !.out = <<>>, !.inScratch = FALSE])
         [] g.out[1] = LongLength -> Onward(g, "chunks") /\ UNCHANGED answers
         [] OTHER -> Deliver(getRaw(g, g.out[1]))
  /\ chunk' = <<>>

NextChunk ==
  /\ turn = "chunks"
  /\ \E i \in {ReadInteger(reader, FALSE)} :
       IF i.number = 0
       THEN Deliver([i.reader EXCEPT !.out = chunk, !.inScratch = FALSE]) /\ UNCHANGED chunk
       ELSE \E part \in {getRaw(i.reader, i.number)} :
              chunk' = chunk \o part.out /\ Onward(part, "chunks") /\ UNCHANGED answers

\* processOutBinds: the slice is copied after the actual length was read.
ReadActual ==
  /\ turn = "actual"
  /\ \E i \in {ReadInteger(reader, TRUE)} :
       answers' = Append(answers, Done(Later(reader, i.reader))) /\ Onward(i.reader, "field")
  /\ UNCHANGED chunk

\* ReadBytesWithLength, SkipBytesWithLength.
ReadSize ==
  /\ turn = "field" /\ HasField /\ Field.kind = "sized"
  /\ \E i \in {ReadInteger(reader, FALSE)} :
       IF i.number > 0
       THEN (\E next \in {"value", "skip"} : Onward(i.reader, next)) /\ UNCHANGED answers
       ELSE answers' = Append(answers, Done(<<>>)) /\ Onward(i.reader, "field")
  /\ UNCHANGED chunk

\* SkipBytes: a NULL's mark would be taken for a length.
BeginSkip ==
  /\ \/ turn = "field" /\ HasField /\ Field.kind = "value"
     \/ turn = "skip"
  /\ \E g \in {getRaw(reader, 1)} :
       IF g.out[1] = LongLength THEN Onward(g, "skip chunks") /\ UNCHANGED answers
       ELSE answers' = Append(answers, Skipped) /\ Onward(SkipRawBytes(g, g.out[1]), "field")
  /\ UNCHANGED chunk

SkipChunk ==
  /\ turn = "skip chunks"
  /\ \E i \in {ReadInteger(reader, FALSE)} :
       IF i.number > 0
       THEN Onward(SkipRawBytes(i.reader, i.number), "skip chunks") /\ UNCHANGED answers
       ELSE answers' = Append(answers, Skipped) /\ Onward(i.reader, "field")
  /\ UNCHANGED chunk

PacketsInit ==
  /\ message \in Messages /\ turn = "write"
  /\ queue = FlattenSeq([i \in DOMAIN message |-> Pieces(i)])
  /\ packets = <<>> /\ buffered = <<>> /\ incoming = <<>>
  /\ reader = NoReader /\ chunk = <<>> /\ answers = <<>>

PacketsNext ==
  \/ SendPacket \/ PutPiece \/ PutRaw \/ EndRequest
  \/ Answer
  \/ ReadNumber \/ BeginValue \/ NextChunk \/ ReadActual \/ ReadSize \/ BeginSkip \/ SkipChunk

PacketsSpec == PacketsInit /\ [][PacketsNext]_packetsVars

---------------------------------------------------------------------------
(* Properties.                                                             *)

\* writebuf.go, readbuf.go: wherever packets end, on the way there and on the
\* way back, no packet is too long, every field is read as it was written,
\* also when others were skipped or a slice was held over the next read, and
\* the response is read exactly to its end, with no wait for one packet more.
SameMessageBack ==
  /\ \A i \in DOMAIN packets : packets[i] # <<>> /\ Len(packets[i]) <= PacketSize
  /\ turn = "answer" => FlattenSeq(packets) = Joined(FlattenSeq([i \in DOMAIN message |-> Pieces(i)]))
  /\ turn # "failed"
  /\ \A i \in DOMAIN answers : answers[i].skipped \/ answers[i].value = Meant(i)
  /\ turn = "field" /\ ~HasField => reader.taken = Len(incoming) /\ Left(reader) = 0

=============================================================================
