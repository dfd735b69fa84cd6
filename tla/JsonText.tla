------------------------------ MODULE JsonText ------------------------------
(***************************************************************************)
(* Structured values as the server packs them, and the JSON text they      *)
(* become: OSON, its binary JSON (DecodeOSONToJSON of                      *)
(* internal/oratype/oson.go), and images of user-defined types             *)
(* (DecodeObjectImage of internal/ttc/objimage.go, written by jsonWriter of*)
(* driver/oracle/objects.go).  Nothing in either separates one value from  *)
(* the next but lengths and offsets, so that one wrong step reads          *)
(* something else as a value.                                              *)
(*                                                                         *)
(* An image is a sequence of bytes: flags are the set of them, an integer  *)
(* has one, two or four bytes, and the bytes of a scalar are opaque, each  *)
(* of them unlike the others.  The text is a sequence of tokens.  What     *)
(* bytes of a NUMBER or a date stand for is in NumberCodec and Values;     *)
(* escapes in strings are left out.  Every read looks first whether there  *)
(* is enough to read, and is an error otherwise: Refuse.                   *)
(***************************************************************************)
EXTENDS Naturals, Sequences, SequencesExt, FiniteSetsExt

CONSTANTS
  ByteValues,   \* 256, in integers of several bytes
  Documents     \* [way, image, types, dict, tree, sound]: see Text for the tree

VARIABLES
  document,   \* what arrives: an "oson" document, or an "object" of the type "top"
  spot,       \* where it is read, counted from 0
  open,       \* the objects and arrays being read, the outermost first
  header,     \* of an OSON document: names, size of ids, start of the tree, relative offsets
  json,       \* the text
  reads       \* "oson", "object", then "node" or "next", then "read" or "refused"

documentVars == <<document, spot, open, header, json, reads>>

Token(what) == <<<<what, <<>>>>>>
Name(n) == <<<<"name", n>>>> \o Token(":")

Image == document.image
Cell(p) == Image[p + 1]
Bytes(p, n) == SubSeq(Image, p + 1, p + n)
Uint(p, w) == MapThenSumSet(LAMBDA k : Cell(p + k) * ByteValues^(w - 1 - k), 0 .. w - 1)

Innermost == Last(open)
Limit == IF open = <<>> THEN Len(Image) ELSE Innermost.limit
Enough(p, n) == p + n <= Limit

\* A comma before every member but the first.
Separator == IF Innermost.done = 0 THEN <<>> ELSE Token(",")
Advanced == [open EXCEPT ![Len(open)].done = @ + 1]

-----------------------------------------------------------------------------
(* OSON: a header with the names of all fields, then a tree of nodes, that *)
(* refer to each other by offsets.                                         *)

Flags == Cell(4)
IdSize == IF "ids32" \in Flags THEN 4 ELSE IF "ids16" \in Flags THEN 2 ELSE 1
SegmentSize == IF "names32" \in Flags THEN 4 ELSE 2
TreeSize == IF "tree32" \in Flags THEN 4 ELSE 2
HasLongNames == Cell(3) = 3
Secondary == 6 + IdSize + SegmentSize

\* readFieldNames: n hashes, n offsets and a segment of texts, each behind its length.
ShortNames ==
  [n |-> Uint(6, IdSize), hash |-> 1, offset |-> SegmentSize, length |-> 1, size |-> Uint(6 + IdSize, SegmentSize)]
LongNames ==
  IF ~ HasLongNames THEN [n |-> 0, hash |-> 2, offset |-> 0, length |-> 2, size |-> 0]
  ELSE [n |-> Uint(Secondary + 2, 4), hash |-> 2, offset |-> IF "names16" \in Cell(Secondary) THEN 2 ELSE 4,
        length |-> 2, size |-> Uint(Secondary + 6, 4)]

Texts(t, p) == p + t.n * (t.hash + t.offset)
TableEnd(t, p) == IF t.n = 0 THEN p ELSE Texts(t, p) + t.size
TextAt(t, p, k) == Texts(t, p) + Uint(p + t.n * t.hash + (k - 1) * t.offset, t.offset)
NamesFit(t, p) ==
  /\ Enough(TableEnd(t, p), 0)
  /\ \A k \in 1 .. t.n :
       /\ TextAt(t, p, k) + t.length <= TableEnd(t, p)
       /\ TextAt(t, p, k) + t.length + Uint(TextAt(t, p, k), t.length) <= TableEnd(t, p)
NamesOf(t, p) == [k \in 1 .. t.n |-> Bytes(TextAt(t, p, k) + t.length, Uint(TextAt(t, p, k), t.length))]

TablesAt == Secondary + (IF HasLongNames THEN 10 ELSE 0) + TreeSize + 2

OpenDocument ==
  /\ reads = "oson" /\ Enough(0, 6)
  /\ Bytes(0, 3) = <<255, 74, 90>> /\ Cell(3) \in {1, 3}
  /\ IF "scalar" \in Flags
     THEN /\ spot' = 6 + TreeSize
          /\ header' = [header EXCEPT !.relative = "relative" \in Flags]
     ELSE LET long == TableEnd(ShortNames, TablesAt)
              tree == TableEnd(LongNames, long)
          IN /\ Enough(0, TablesAt) /\ NamesFit(ShortNames, TablesAt) /\ NamesFit(LongNames, long)
             /\ spot' = tree
             /\ header' = [names |-> NamesOf(ShortNames, TablesAt) \o NamesOf(LongNames, long),
                           idSize |-> IdSize, tree |-> tree, relative |-> "relative" \in Flags]
  /\ reads' = "node"
  /\ UNCHANGED <<document, open, json>>

\* The types of leaves: what they are, and how they say their length.
LeafKind(t) ==
  CASE t = 48 -> "null" [] t = 49 -> "true" [] t = 50 -> "false"
    [] t \in {60, 125} -> "date" [] t = 57 -> "timestamp" [] t = 124 -> "timestamptz"
    [] t = 127 -> "float" [] t = 54 -> "double" [] t = 62 -> "daysecond" [] t = 61 -> "yearmonth"
    [] t \in {51, 55, 56} \cup 0 .. 31 -> "string"
    [] t \in {58, 59, 126} -> "binary"
    [] t = 52 \/ t \in 32 .. 47 \cup 64 .. 111 -> "number"
    [] OTHER -> "unsupported"

LengthSize(t) == CASE t \in {51, 52, 126} -> 1 [] t \in {55, 58} -> 2 [] t \in {56, 59} -> 4 [] OTHER -> 0

LeafLength(p) ==
  LET t == Cell(p) IN
  CASE LengthSize(t) > 0 -> Uint(p + 1, LengthSize(t))
    [] t \in {60, 125} -> 7
    [] t \in {57, 62} -> 11
    [] t = 124 -> 13 [] t = 127 -> 4 [] t = 54 -> 8 [] t = 61 -> 5
    [] t \in 0 .. 31 -> t
    [] t \in 32 .. 47 \cup 96 .. 111 -> (t % 16) + 1
    [] t \in 64 .. 95 -> t % 16
    [] OTHER -> 0

ReadLeaf ==
  LET t == Cell(spot)
      from == spot + 1 + LengthSize(t)
  IN /\ reads = "node" /\ Enough(spot, 1) /\ t < 128 /\ LeafKind(t) /= "unsupported"
     /\ Enough(from, 0) /\ Enough(from, LeafLength(spot))
     /\ json' = Append(json, <<LeafKind(t), Bytes(from, LeafLength(spot))>>)
     /\ spot' = from + LeafLength(spot)
     /\ reads' = "next"
     /\ UNCHANGED <<document, open, header>>

\* The bits of the type of an object or array.
Counts(t) == <<1, 2, 4, 0>>[((t \div 8) % 4) + 1]
IsShared(t) == (t \div 8) % 4 = 3
OffsetSize(t) == IF (t \div 32) % 2 = 1 THEN 4 ELSE 2
IsArray(t) == (t \div 64) % 2 = 1

\* The position behind the type, to which nothing is relative.
FaultyNodeStart == spot + 1 - header.tree
NodeStart == spot - header.tree

\* A node may leave its count and ids to another one with the same fields.
EnterNode ==
  LET t == Cell(spot)
      like == IF IsShared(t) THEN header.tree + Uint(spot + 1, OffsetSize(t)) ELSE spot
      ids == like + 1 + Counts(Cell(like))
      n == IF Counts(Cell(like)) = 0 THEN 0 ELSE Uint(like + 1, Counts(Cell(like)))
  IN /\ reads = "node" /\ Enough(spot, 1) /\ t >= 128
     /\ IsShared(t) => Enough(spot + 1, OffsetSize(t)) /\ Enough(like, 1)
     /\ Enough(ids, 0)
     /\ open' = Append(open,
          [array |-> IsArray(t), start |-> NodeStart, offsetSize |-> OffsetSize(t), ids |-> ids,
           offsets |-> IF IsShared(t) THEN spot + 1 + OffsetSize(t)
                       ELSE ids + (IF IsArray(t) THEN 0 ELSE header.idSize * n),
           n |-> n, done |-> 0, limit |-> Limit])
     /\ json' = json \o Token(IF IsArray(t) THEN "[" ELSE "{")
     /\ reads' = "next"
     /\ UNCHANGED <<document, spot, header>>

\* The next child, found through the two lists the node has kept its place in.
NextChild ==
  LET f == Innermost
      id == Uint(f.ids + f.done * header.idSize, header.idSize)
      at == f.offsets + f.done * f.offsetSize
  IN /\ document.way = "oson" /\ reads = "next" /\ open /= <<>> /\ f.done < f.n
     /\ ~ f.array => /\ Enough(f.ids + f.done * header.idSize, header.idSize)
                     /\ id \in DOMAIN header.names
     /\ Enough(at, f.offsetSize)
     /\ json' = json \o Separator \o (IF f.array THEN <<>> ELSE Name(header.names[id]))
     /\ spot' = header.tree + Uint(at, f.offsetSize) + (IF header.relative THEN f.start ELSE 0)
     /\ open' = Advanced
     /\ reads' = "node"
     /\ UNCHANGED <<document, header>>

LeaveNode ==
  /\ document.way = "oson" /\ reads = "next" /\ open /= <<>> /\ Innermost.done = Innermost.n
  /\ json' = json \o Token(IF Innermost.array THEN "]" ELSE "}")
  /\ open' = Front(open)
  /\ UNCHANGED <<document, spot, header, reads>>

-----------------------------------------------------------------------------
(* Object images: one value behind the other, as the attributes of the type*)
(* are.  An object that is an element, and a collection, is an image of its*)
(* own inside.                                                             *)

LongForm == 254
NullMark == 255
AtomicNull == 253

\* imageReader.length, and bytesWithLength, to which 0 and 255 are NULL.
LengthBytes(p) == IF Cell(p) = LongForm THEN 5 ELSE 1
LengthAt(p) == IF Cell(p) = LongForm THEN Uint(p + 1, 4) ELSE Cell(p)
HasLength(p, limit) == p < limit /\ p + LengthBytes(p) <= limit
IsNil(p) == Cell(p) \in {0, NullMark}
Behind(p) == p + LengthBytes(p) + LengthAt(p)
HasValue(p, limit) == p < limit /\ (IsNil(p) \/ (HasLength(p, limit) /\ Behind(p) <= limit))
ValueAt(p) == Bytes(p + LengthBytes(p), LengthAt(p))

\* imageReader.header: flags, version, total length, prefix segment.
PrefixAt(p) == p + 2 + LengthBytes(p + 2)
HasHeader(p, limit) ==
  /\ p + 1 < limit /\ HasLength(p + 2, limit) /\ "degenerate" \notin Cell(p)
  /\ "noprefix" \notin Cell(p) => HasLength(PrefixAt(p), limit) /\ Behind(PrefixAt(p)) <= limit
BodyAt(p) == IF "noprefix" \in Cell(p) THEN PrefixAt(p) ELSE Behind(PrefixAt(p))

TypeOf(name) == document.types[name]
IsCollection(name) == TypeOf(name).kind /= "object"

\* decodeBody: the attributes, or flags and the number of elements.
HasBody(name, p, limit) == IsCollection(name) => p < limit /\ HasLength(p + 1, limit)
Body(name, p, limit, packed) ==
  [type |-> name, done |-> 0, limit |-> limit, packed |-> packed,
   n |-> IF IsCollection(name) THEN LengthAt(p + 1) ELSE Len(TypeOf(name).attrs)]
MembersAt(name, p) == IF IsCollection(name) THEN p + 1 + LengthBytes(p + 1) ELSE p

\* Indexes are there only with elements.
Braces(f) == IF TypeOf(f.type).kind = "object" \/ (TypeOf(f.type).kind = "map" /\ f.n > 0) THEN <<"{", "}">> ELSE <<"[", "]">>

EnterBody(label, stack, name, p, limit, packed) ==
  /\ HasBody(name, p, limit)
  /\ open' = Append(stack, Body(name, p, limit, packed))
  /\ spot' = MembersAt(name, p)
  /\ json' = json \o label \o Token(Braces(Body(name, p, limit, packed))[1])
  /\ UNCHANGED <<document, header>>

OpenImage ==
  /\ reads = "object" /\ HasHeader(0, Len(Image))
  /\ EnterBody(<<>>, <<>>, "top", BodyAt(0), Len(Image), TRUE)
  /\ reads' = "next"

\* The attribute or element to read, its place and its label.
Attribute ==
  LET t == TypeOf(Innermost.type) IN
  IF t.kind = "object" THEN t.attrs[Innermost.done + 1] ELSE t.attrs[1]
Labelled == TypeOf(Innermost.type).kind
MemberAt == IF Labelled = "map" THEN spot + 4 ELSE spot
Label ==
  Separator \o (CASE Labelled = "object" -> Name(Attribute.name)
                  [] Labelled = "map" -> Name(<<Uint(spot, 4)>>)
                  [] OTHER -> <<>>)

HasMember ==
  /\ document.way = "object" /\ reads = "next" /\ open /= <<>>
  /\ Innermost.done < Innermost.n /\ Enough(MemberAt, 1)
IsPlain == Attribute.is \in {"scalar", "lob", "xml"}
IsPacked == IsCollection(Attribute.is) \/ Labelled /= "object"
IsNull == IF IsPlain THEN IsNil(MemberAt) ELSE Cell(MemberAt) = AtomicNull \/ (IsPacked /\ IsNil(MemberAt))

Write(kind, value, next) ==
  /\ json' = json \o Label \o <<<<kind, value>>>>
  /\ spot' = next
  /\ open' = Advanced
  /\ UNCHANGED <<document, header, reads>>

ReadNull == HasMember /\ IsNull /\ Write("null", <<>>, MemberAt + 1)

ReadScalar ==
  /\ HasMember /\ Attribute.is \in {"scalar", "lob"} /\ ~ IsNull
  /\ HasValue(MemberAt, Limit)
  /\ Write(Attribute.is, ValueAt(MemberAt), Behind(MemberAt))

\* decodeXMLImage: a header, a version, flags of four bytes, then the text or a locator.
ReadXml ==
  LET p == MemberAt
      body == BodyAt(p + LengthBytes(p))
      flags == Cell(body + 1)
      rest == body + 5 + (IF "skip4" \in flags THEN 4 ELSE 0)
  IN /\ HasMember /\ Attribute.is = "xml" /\ ~ IsNull
     /\ HasValue(p, Limit) /\ HasHeader(p + LengthBytes(p), Behind(p)) /\ body + 5 <= Behind(p)
     /\ rest <= Behind(p) /\ flags \cap {"text", "lob"} /= {}
     /\ Write(IF "text" \in flags THEN "xml" ELSE "lob", Bytes(rest, Behind(p) - rest), Behind(p))

\* An attribute that is an object lies between the others; ...
EnterInline ==
  /\ HasMember /\ ~ IsPlain /\ ~ IsPacked /\ ~ IsNull
  /\ EnterBody(Label, Advanced, Attribute.is, MemberAt, Limit, FALSE)
  /\ UNCHANGED reads

\* ... other objects and collections are read within the length they have.
EnterPacked ==
  LET p == MemberAt
      image == p + LengthBytes(p)
  IN /\ HasMember /\ ~ IsPlain /\ IsPacked /\ ~ IsNull
     /\ HasValue(p, Limit) /\ HasHeader(image, Behind(p))
     /\ EnterBody(Label, Advanced, Attribute.is, BodyAt(image), Behind(p), TRUE)
     /\ UNCHANGED reads

\* The reader of the image outside is behind the whole of the one inside.
LeaveObject ==
  /\ document.way = "object" /\ reads = "next" /\ open /= <<>> /\ Innermost.done = Innermost.n
  /\ json' = json \o Token(Braces(Innermost)[2])
  /\ spot' = IF Innermost.packed THEN Innermost.limit ELSE spot
  /\ open' = Front(open)
  /\ UNCHANGED <<document, header, reads>>

-----------------------------------------------------------------------------
FinishText == reads = "next" /\ open = <<>> /\ reads' = "read" /\ UNCHANGED <<document, spot, open, header, json>>

Decode ==
  \/ OpenDocument \/ ReadLeaf \/ EnterNode \/ NextChild \/ LeaveNode
  \/ OpenImage \/ ReadNull \/ ReadScalar \/ ReadXml \/ EnterInline \/ EnterPacked \/ LeaveObject
  \/ FinishText

\* An error, from wherever it comes, gives the text up.
RefuseDocument ==
  /\ reads \notin {"read", "refused", "none"} /\ ~ ENABLED Decode
  /\ reads' = "refused"
  /\ UNCHANGED <<document, spot, open, header, json>>

NoHeader == [names |-> <<>>, idSize |-> 0, tree |-> 0, relative |-> FALSE]

DocumentsInit ==
  /\ document \in Documents
  /\ spot = 0 /\ open = <<>> /\ header = NoHeader /\ json = <<>>
  /\ reads = document.way

DocumentsNext == Decode \/ RefuseDocument

-----------------------------------------------------------------------------
\* The text of a tree of values, each node before its children:
\* [kind |-> "object", names, kids], [kind |-> "array", kids] or [kind |-> "leaf", token].
Text(tree, dict) ==
  LET member(i, k) ==
        (IF k = 1 THEN <<>> ELSE Token(",")) \o (IF tree[i].kind = "object" THEN Name(dict[tree[i].names[k]]) ELSE <<>>)
      text[i \in DOMAIN tree] ==
        IF tree[i].kind = "leaf" THEN <<tree[i].token>>
        ELSE LET inside == FlattenSeq([k \in DOMAIN tree[i].kids |-> member(i, k) \o text[tree[i].kids[k]]])
             IN IF tree[i].kind = "object" THEN Token("{") \o inside \o Token("}")
                                           ELSE Token("[") \o inside \o Token("]")
  IN text[1]

\* A JSON value, an object or a collection becomes the text of what the server
\* packed, whatever sizes of counts, ids, lengths and offsets it chose and
\* however deep it is nested; an image that is cut is an error, not other text.
SameJsonBack ==
  /\ reads = "read" => json = Text(document.tree, document.dict)
  /\ reads = "refused" => ~ document.sound

=============================================================================
