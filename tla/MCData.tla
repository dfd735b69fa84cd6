------------------------------ MODULE MCData ------------------------------
(* The modules of one goroutine that nothing is shared with, on all small  *)
(* inputs: a behaviour takes one input of one of them.                     *)
EXTENDS NumberCodec, SqlScan, Values, Geometry, ObjectTypes, Options, Packets, JsonText

Strings(S, n) == UNION {[1 .. k -> S] : k \in 0 .. n}

MCNumerals ==
  [neg : BOOLEAN, whole : Strings({0, 1, 9}, 2), frac : Strings({0, 1, 9}, 3),
   exp : {-128, -126, -1, 0, 1, 125, 126}]

\* Every text of four characters and more, then words where their order counts.
MCSqlTexts ==
  Strings({"'", "\"", "-", "/", "*", "?", ":", "\n", "X", "Q"}, 4)
    \cup [1 .. 6 -> {"'", "/", "*", "?", "-"}]
    \cup {<<w, " ">> \o t : w \in {"BEGIN", "INSERT", "CREATE"}, t \in Strings({":", "X", "'", "?", " "}, 5)}

MCMinPoint == -129

MCMinDay == -8

Options == [number |-> "auto", date |-> "timestamp", interval |-> "monthdaynano",
            boolean |-> TRUE, lob |-> FALSE, length |-> 2]
NumberModes == {[Options EXCEPT !.number = m] : m \in {"auto", "decimal", "double", "string"}}
DateModes == {[Options EXCEPT !.date = m] : m \in {"timestamp", "date32"}}
IntervalModes == {[Options EXCEPT !.interval = m] : m \in {"monthdaynano", "duration", "string"}}

Journey(way, types, options, values) ==
  [way : {way}, type : types, options : options, values : {{<<n>> : n \in values}}]
Carries(way, types, options, values) ==
  [way : {way}, type : types, options : options, values : {values}]

Hundreds(s) == {100 * n : n \in s}
Fractions == -130 .. 130 \cup {6450, 9900, 9999, 10000, 12345, 25599, 99900, 99999, 999900, -6450, -9999, -99900}

Ingested ==
  Journey("ingest", {Arrow("int", 4, 1)}, NumberModes, -8 .. 7)
    \cup Journey("ingest", {Arrow("int", 6, 2)}, NumberModes, -32 .. 31)
    \cup Journey("ingest", {Arrow("int", 9, 3)}, NumberModes, -256 .. 255)
    \cup Journey("ingest", {Arrow("uint", 9, 3)}, NumberModes, 0 .. 511)
    \cup Journey("ingest", {Arrow("bool", 0, 0)}, {Options, [Options EXCEPT !.boolean = FALSE]}, {0, 1})
    \cup Journey("ingest", {Arrow("double", 0, 0)}, {Options}, Hundreds(-63 .. 63))
    \cup Journey("ingest", {Arrow("decimal", 4, 2), Arrow("decimal", 5, 2)}, NumberModes, -130 .. 130 \cup {9999})
    \cup Journey("ingest", {Arrow("decimal", 2, 0), Arrow("decimal", 3, 0)}, NumberModes, Hundreds({-999, -99, -7, 0, 1, 99, 999}))
    \cup Journey("ingest", {Arrow("decimal", 2, -1), Arrow("decimal", 1, 2)}, NumberModes, {-9000, -9, 0, 9, 1000, 99000})
    \cup Journey("ingest", {Arrow("text", 0, 0), Arrow("bytes", 0, 0)},
                 {Options, [Options EXCEPT !.lob = TRUE], [Options EXCEPT !.length = 1]}, 0 .. 4)
    \cup Journey("ingest", {Arrow("date32", 0, 0)}, DateModes, -32 .. 31)
    \cup Journey("ingest", {Arrow("date64", 0, 0)}, DateModes, -256 .. 255)
    \cup Journey("ingest", [kind : {"timestamp"}, p : 0 .. 3, s : {0, 1}], {Options}, -256 .. 255)
    \cup Journey("ingest", [kind : {"duration"}, p : 0 .. 3, s : {0}], IntervalModes, -256 .. 255)
    \cup Carries("ingest", {Arrow("monthdaynano", 0, 0)}, IntervalModes,
                 {0, 1} \X (-2 .. 2) \X {-300, -65, -63, -1, 0, 1, 63, 64, 300})

Instants(unit) == {n * Ticks(unit) : n \in (MCMinDay * Day) \div Ticks(unit) .. (11 * Day) \div Ticks(unit)}

\* A timestamp as the server has it.
Stamp(t) == Append(EncodeDate(t), t % Second)

Selected ==
  Journey("column", [type : {"NUMBER"}, p : 0 .. 4, s : {-127, -1, 0, 1, 2}], NumberModes, Fractions)
    \cup Carries("column", {Oracle("DATE", 0, 0)}, DateModes, {EncodeDate(t) : t \in Instants(0)})
    \cup UNION {Carries("column", {Oracle("TIMESTAMP", 0, k)}, {Options}, {Stamp(t) : t \in Instants(k)})
                  : k \in 0 .. 3}
    \cup Carries("column", {Oracle("INTERVAL_DS", 0, 3)}, IntervalModes,
                 {SplitInterval(d, n) : d \in 0 .. 2, n \in 0 .. 63} \cup {SplitInterval(-d, -n) : d \in 0 .. 2, n \in 0 .. 63})

Returned ==
  Journey("out", {Arrow("int", 9, 3), Arrow("decimal", 3, 1), Arrow("decimal", 5, 1)}, NumberModes, Fractions \cup {25600})
    \cup Carries("out", {Arrow("timestamp", 2, 0), Arrow("timestamp", 0, 1)}, {Options}, {Stamp(t) : t \in Instants(1)})
    \cup Carries("out", {Arrow("duration", 2, 0)}, IntervalModes, {SplitInterval(1, n) : n \in 0 .. 63})

MCJourneys == Ingested \cup Selected \cup Returned

-----------------------------------------------------------------------------
\* Kinds of elements: type, interpretation, points, and ordinates too many.
Straight == {<<1, 1, 1, 0>>, <<1, 2, 2, 0>>, <<2, 1, 2, 0>>, <<1003, 1, 3, 0>>, <<1003, 3, 2, 0>>, <<2003, 1, 2, 0>>, <<2003, 3, 2, 0>>}
Unusual == {<<1, 0, 1, 0>>, <<1, 1, 1, -1>>, <<2, 2, 3, 0>>, <<4, 1, 0, 0>>, <<1003, 4, 3, 0>>, <<2003, 3, 2, -1>>}

Before(kinds, i, dims) == MapThenSumSet(LAMBDA k : kinds[k][3] * dims + kinds[k][4], 1 .. i - 1)

\* The elements one behind the other, the last short of some ordinates.
Shaped(dims, shape, kinds, point, more, short) ==
  [gtype |-> 1000 * dims + shape, point |-> point,
   info |-> FlattenSeq([i \in DOMAIN kinds |-> <<Before(kinds, i, dims) + 1, kinds[i][1], kinds[i][2]>>]) \o more,
   length |-> Before(kinds, Len(kinds) + 1, dims) - short]

MCGeometries ==
  {Shaped(d, s, k, "none", <<>>, 0) : d \in {2, 3}, s \in 1 .. 7, k \in Strings(Straight, 3)}
    \cup {Shaped(d, s, k, "none", <<>>, n) : d \in {2, 4}, s \in 1 .. 8, k \in Strings(Straight \cup Unusual, 2), n \in {0, 1}}
    \cup {Shaped(d, s, k, p, m, 0) : d \in 1 .. 5, s \in {1, 2}, k \in Strings(Straight, 1),
                                     p \in {"none", "xy", "xyz"}, m \in {<<>>, <<1>>}}

-----------------------------------------------------------------------------
MCDictionaries ==
  {[t \in Types |-> CASE t = "A" -> a [] t = "B" -> b [] t = "C" -> c [] OTHER -> <<>>] :
     a \in Strings({"A", "B", "C", "scalar"}, 2), b \in Strings({"A", "C", "scalar"}, 2) \cup {<<"missing">>},
     c \in {<<>>, <<"scalar">>, <<"A">>, <<"XMLTYPE">>, <<"scalar", "unsupported">>, <<"missing">>}}

-----------------------------------------------------------------------------
\* At most n of the names, each with one of its values.
Given(choices, n) ==
  UNION {{f \in [S -> UNION {choices[x] : x \in S}] : \A x \in S : f[x] \in choices[x]} :
           S \in {T \in SUBSET DOMAIN choices : Cardinality(T) <= n}}

Uri(form, tls, service, instance, user, addresses) ==
  [form |-> form, tls |-> tls, service |-> service, sid |-> instance, user |-> user, addresses |-> addresses]
Urls == {Uri("url", t, "service", "", "user", <<"">>) : t \in BOOLEAN}
Partial == {Uri("easy", t, "service", "", "", <<"">>) : t \in BOOLEAN}
             \cup {Uri("url", FALSE, "", "", "", <<>>), Uri("url", FALSE, "", "", "user", <<"">>)}
Descriptors ==
  {Uri("descriptor", FALSE, s, i, "", a) :
     s \in {"", "service"}, i \in {"", "sid"}, a \in {<<>>, <<"tcp">>, <<"tcp", "tcps">>}}
Nothing == {Uri("none", FALSE, "", "", "", <<>>), Uri("unreadable", FALSE, "", "", "", <<>>)}

Requested(uris, ps, os) == [uri : uris, params : ps, options : os]

Protection == [tls |-> {"on", "off"}, wallet |-> {"wallet", "unreadable"}, nne |-> {"required", "rejected"},
               nne_checksum |-> {"accepted", "bad"}]
Aliases == [ssl |-> {"on", "off"}, wallet |-> {"wallet"}, encryption |-> {"required", "bad"}, data_integrity |-> {"rejected"}]
Named(names) == [n \in names |-> {"explicit"}]
Whom == {"service_name", "sid", "user", "token", "host", "unknown"}

\* A descriptor with a TLS address is not combined with "tls off": see README.md.
MCRequests ==
  Requested(Urls, Given(Aliases, 2), Given(Protection, 3))
    \cup {r \in Requested(Descriptors, {<<>>}, Given(Protection @@ [user |-> {"user"}], 3)) :
            ~ ("tcps" \in Range(r.uri.addresses) /\ "tls" \in DOMAIN r.options)}
    \cup Requested(Urls \cup Partial, Given([n \in {"service", "sid", "token", "unknown"} |-> {"param"}], 2), Given(Named(Whom), 3))
    \cup Requested(Nothing, {<<>>}, Given(Named(Whom), 4))
    \cup Requested(Urls, Given([batch_size |-> {0, 2, 9}, prefetch_rows |-> {4}], 2),
                   Given([batch_size |-> {0, 3, 8}, prefetch_rows |-> {0, 5}], 2))

-----------------------------------------------------------------------------
Fields(kind, ns) == [kind : {kind}, n : ns]
\* Values around the longest short one and around one and two chunks.
Every ==
  Fields("unsigned", {0, 1, 15, 16, 255, 256, 65535}) \cup Fields("signed", {0, 9, 300, -1, -15, -16, -255, -256})
    \cup Fields("value", 0 .. 11) \cup Fields("sized", 0 .. 6) \cup Fields("out", 0 .. 6 \cup {16}) \cup Fields("null", {0})
Some == Fields("unsigned", {1, 256}) \cup Fields("value", {0, 3, 6}) \cup Fields("sized", {2}) \cup Fields("out", {3, 4})

MCMessages == {<<f>> : f \in Every} \cup {<<f, g>> : f \in Some, g \in Some} \cup {<<f, [kind |-> "out", n |-> 2], f>> : f \in Fields("value", {2, 3})}

-----------------------------------------------------------------------------
(* What the server packs.  The bytes of the scalar k are k + 1, k + 2, ...  *)

Wide(n, w) == [i \in 1 .. w |-> (n \div ByteValues^(w - i)) % ByteValues]
Opaque(k, n) == [i \in 1 .. n |-> k + i]
Object(names, kids) == [kind |-> "object", names |-> names, kids |-> kids]
Array(kids) == [kind |-> "array", kids |-> kids]

\* An OSON leaf: its type with its length, then n bytes.
Leaf(head, kind, k, n) == [kind |-> "leaf", head |-> head, token |-> <<kind, Opaque(k, n)>>]

\* c: sizes of field ids and of offsets to texts, of counts and of offsets,
\* whether these are relative, whether fields of the same names are shared.
Oson(tree, dict, c) ==
  LET short == Cardinality({i \in DOMAIN dict : Len(dict[i]) < ByteValues})
      like[i \in DOMAIN tree] == Min({j \in DOMAIN tree : tree[j].kind = "object" /\ tree[j].names = tree[i].names})
      shares(i) == c.share /\ tree[i].kind = "object" /\ like[i] < i
      size[i \in DOMAIN tree] ==
        IF tree[i].kind = "leaf" THEN Len(tree[i].head) + Len(tree[i].token[2])
        ELSE 1 + c.offset * Len(tree[i].kids)
               + (CASE shares(i) -> c.offset
                    [] tree[i].kind = "array" -> c.count
                    [] OTHER -> c.count + c.ids * Len(tree[i].kids))
      start[i \in DOMAIN tree] == IF i = 1 THEN 0 ELSE start[i - 1] + size[i - 1]
      type(i) ==
        128 + (IF tree[i].kind = "array" THEN 64 ELSE 0) + (IF c.offset = 4 THEN 32 ELSE 0)
            + 8 * (IF shares(i) THEN 3 ELSE CASE c.count = 1 -> 0 [] c.count = 2 -> 1 [] c.count = 4 -> 2)
      node(i) ==
        IF tree[i].kind = "leaf" THEN tree[i].head \o tree[i].token[2]
        ELSE LET n == Len(tree[i].kids) IN
             <<type(i)>>
               \o (IF shares(i) THEN Wide(start[like[i]], c.offset)
                   ELSE Wide(n, c.count)
                          \o (IF tree[i].kind = "array" THEN <<>>
                              ELSE FlattenSeq([k \in 1 .. n |-> Wide(tree[i].names[k], c.ids)])))
               \o FlattenSeq([k \in 1 .. n |->
                    Wide(start[tree[i].kids[k]] - (IF c.relative THEN start[i] ELSE 0), c.offset)])
      texts(from, to, l) == FlattenSeq([i \in 1 .. to - from + 1 |-> Wide(Len(dict[from + i - 1]), l) \o dict[from + i - 1]])
      table(from, to, hash, offset, l) ==
        FlattenSeq([i \in 1 .. to - from + 1 |-> Wide(0, hash)])
          \o FlattenSeq([i \in 1 .. to - from + 1 |-> Wide(Len(texts(from, from + i - 2, l)), offset)])
          \o texts(from, to, l)
      long == short < Len(dict)
      flags == (IF c.ids = 4 THEN {"ids32"} ELSE IF c.ids = 2 THEN {"ids16"} ELSE {})
                 \cup (IF c.names = 4 THEN {"names32"} ELSE {}) \cup (IF c.offset = 4 THEN {"tree32"} ELSE {})
                 \cup (IF c.relative THEN {"relative"} ELSE {})
                 \cup (IF tree[1].kind = "leaf" THEN {"scalar"} ELSE {})
  IN <<255, 74, 90, IF long THEN 3 ELSE 1, flags, 0>>
       \o (IF tree[1].kind = "leaf" THEN Wide(0, c.offset)
           ELSE Wide(short, c.ids) \o Wide(Len(texts(1, short, 1)), c.names)
                  \o (IF ~ long THEN <<>>
                      ELSE <<IF c.names = 2 THEN {"names16"} ELSE {}, 0>> \o Wide(Len(dict) - short, 4)
                             \o Wide(Len(texts(short + 1, Len(dict), 2)), 4))
                  \o Wide(0, c.offset) \o Wide(0, 2)
                  \o table(1, short, 1, c.names, 1)
                  \o (IF long THEN table(short + 1, Len(dict), 2, c.names, 2) ELSE <<>>))
       \o FlattenSeq([i \in DOMAIN tree |-> node(i)])

Sizes == [ids : {1, 2, 4}, names : {2, 4}, count : {1, 2, 4}, offset : {2, 4}, relative : BOOLEAN, share : BOOLEAN]

Dict == <<<<901>>, <<902, 903>>, <<904>>, [i \in 1 .. 17 |-> 920 + i]>>
Leaves ==
  {Leaf(<<48>>, "null", 300, 0), Leaf(<<49>>, "true", 300, 0), Leaf(<<50>>, "false", 300, 0), Leaf(<<60>>, "date", 300, 7),
   Leaf(<<125>>, "date", 300, 7), Leaf(<<57>>, "timestamp", 300, 11), Leaf(<<124>>, "timestamptz", 300, 13),
   Leaf(<<127>>, "float", 300, 4), Leaf(<<54>>, "double", 300, 8), Leaf(<<62>>, "daysecond", 300, 11),
   Leaf(<<61>>, "yearmonth", 300, 5), Leaf(<<0>>, "string", 300, 0), Leaf(<<31>>, "string", 300, 31),
   Leaf(<<51, 0>>, "string", 300, 0), Leaf(<<51>> \o Wide(3, 1), "string", 300, 3), Leaf(<<55>> \o Wide(18, 2), "string", 300, 18),
   Leaf(<<56>> \o Wide(18, 4), "string", 300, 18), Leaf(<<126>> \o Wide(2, 1), "binary", 300, 2),
   Leaf(<<58>> \o Wide(17, 2), "binary", 300, 17), Leaf(<<59>> \o Wide(17, 4), "binary", 300, 17),
   Leaf(<<52>> \o Wide(3, 1), "number", 300, 3), Leaf(<<32>>, "number", 300, 1), Leaf(<<98>>, "number", 300, 3),
   Leaf(<<66>>, "number", 300, 2), Leaf(<<95>>, "number", 300, 15)}
Trees ==
  {<<l>> : l \in Leaves} \cup {<<Object(<<1, 2>>, <<2, 3>>), l, Leaf(<<1>>, "string", 400, 1)>> : l \in Leaves}
    \cup {<<Array(<<>>)>>, <<Object(<<>>, <<>>)>>, <<Array(<<2, 3>>), Object(<<>>, <<>>), Array(<<>>)>>,
          <<Object(<<2, 4>>, <<2, 4>>), Object(<<3>>, <<3>>), Leaf(<<66>>, "number", 300, 2), Leaf(<<2>>, "string", 400, 2)>>,
          <<Array(<<2, 5, 6>>), Object(<<3, 1>>, <<3, 4>>), Leaf(<<1>>, "string", 300, 1), Leaf(<<65>>, "number", 310, 1),
            Leaf(<<48>>, "null", 320, 0), Object(<<3, 1>>, <<7, 8>>), Leaf(<<2>>, "string", 330, 2), Array(<<9, 9>>),
            Leaf(<<66>>, "number", 340, 2)>>,
          <<Object(<<1, 2>>, <<2, 5>>), Object(<<1, 2>>, <<3, 4>>), Leaf(<<1>>, "string", 300, 1), Leaf(<<65>>, "number", 310, 1),
            Object(<<1, 2>>, <<6, 7>>), Leaf(<<49>>, "true", 320, 0), Leaf(<<66>>, "number", 330, 2)>>}
Unreadable == {<<Array(<<2>>), Leaf(<<t>>, "unsupported", 300, 2)>> : t \in {53, 63, 112, 123}}

Arriving(way, image, types, dict, tree, sound) ==
  [way |-> way, image |-> image, types |-> types, dict |-> dict, tree |-> tree, sound |-> sound]
\* The names as far as the tree has them; with a long one the header has another version.
DictOf(t) == SubSeq(Dict, 1, Max({0} \cup UNION {Range(t[i].names) : i \in {j \in DOMAIN t : t[j].kind = "object"}}))
Osons(trees, sizes, sound) ==
  {Arriving("oson", Oson(t, DictOf(t), c), <<>>, DictOf(t), t, sound) : t \in trees, c \in sizes}

\* The image of a tree whose nodes say their types; c: a prefix segment, long lengths.
LengthOf(n, c) == IF c.long THEN <<LongForm>> \o Wide(n, 4) ELSE <<n>>
Headed(body, c) ==
  <<IF c.prefix THEN {} ELSE {"noprefix"}, 1>> \o LengthOf(0, c) \o (IF c.prefix THEN LengthOf(2, c) \o <<0, 0>> ELSE <<>>) \o body
Sized(b, c) == LengthOf(Len(b), c) \o b
ObjectImage(tree, types, c) ==
  LET collects(t) == types[t].kind /= "object"
      body[i \in DOMAIN tree] ==
        LET t == tree[i].type
            kids == tree[i].kids
            member(j, m) ==
              CASE tree[j].kind /= "leaf" ->
                     IF collects(t) \/ collects(tree[j].type) THEN Sized(Headed(body[j], c), c) ELSE body[j]
                [] m.is \in {"scalar", "lob"} -> IF tree[j].token[1] = "null" THEN <<tree[j].mark>> ELSE Sized(tree[j].token[2], c)
                [] m.is = "xml" ->
                     IF tree[j].token[1] = "null" THEN <<tree[j].mark>>
                     ELSE Sized(Headed(<<1, tree[j].flags, 0, 0, 0>> \o (IF "skip4" \in tree[j].flags THEN <<0, 0, 0, 0>> ELSE <<>>)
                                         \o tree[j].token[2], c), c)
                [] OTHER -> <<tree[j].mark>>
            attr(k) == IF collects(t) THEN types[t].attrs[1] ELSE types[t].attrs[k]
            index(k) == IF types[t].kind = "map" THEN Wide(tree[i].indexes[k], 4) ELSE <<>>
        IN (IF collects(t) THEN <<0>> \o LengthOf(Len(kids), c) ELSE <<>>)
             \o FlattenSeq([k \in DOMAIN kids |-> index(k) \o member(kids[k], attr(k))])
  IN Headed(body[1], c)

Node(kind, type, names, kids) == [kind |-> kind, type |-> type, names |-> names, kids |-> kids]
Map(type, indexes, kids) == [kind |-> "object", type |-> type, names |-> [k \in DOMAIN indexes |-> 10 + indexes[k]], kids |-> kids, indexes |-> indexes]
Scalar(kind, k, n) == [kind |-> "leaf", token |-> <<kind, Opaque(k, n)>>]
Xml(marks, k, n) == [kind |-> "leaf", token |-> <<IF "text" \in marks THEN "xml" ELSE "lob", Opaque(k, n)>>, flags |-> marks]
Nil(mark) == [kind |-> "leaf", token |-> <<"null", <<>>>>, mark |-> mark]

Attr(name, is) == [name |-> <<name>>, is |-> is]
Type(kind, is) == [kind |-> kind, attrs |-> [i \in DOMAIN is |-> Attr(900 + i, is[i])]]
Names == [i \in 1 .. 20 |-> IF i < 10 THEN <<900 + i>> ELSE <<i - 10>>]
Plain == [top |-> Type("object", <<"scalar", "lob", "xml", "point">>), point |-> Type("object", <<"scalar", "scalar">>)]
Lists == [top |-> Type("object", <<"list", "scalar", "map">>), list |-> Type("list", <<"scalar">>),
          map |-> Type("map", <<"point">>), point |-> Type("object", <<"scalar", "inner">>),
          inner |-> Type("object", <<"scalar">>)]
Nested == [top |-> Type("list", <<"list">>), list |-> Type("list", <<"point">>), point |-> Type("object", <<"xml", "list">>)]

Values3 == {Nil(NullMark), Nil(0), Scalar("scalar", 300, 1), Scalar("scalar", 300, 20)}
PlainTrees ==
  {<<Node("object", "top", <<1, 2, 3, 4>>, <<2, 3, 4, 5>>), v, l, x, Node("object", "point", <<1, 2>>, <<6, 7>>), w, Scalar("scalar", 400, 2)>> :
     v \in Values3, w \in Values3, l \in {Nil(NullMark), Scalar("lob", 500, 3)},
     x \in {Nil(0), Xml({"text"}, 600, 0), Xml({"text", "skip4"}, 600, 3), Xml({"lob"}, 600, 2)}}
    \cup {<<Node("object", "top", <<1, 2, 3, 4>>, <<2, 3, 4, 5>>), v, Nil(0), Nil(0), Nil(AtomicNull)>> : v \in Values3}
ListTrees ==
  {<<Node("object", "top", <<1, 2, 3>>, <<2, 3, 4>>), a, v, b>> : v \in Values3, a \in {Nil(NullMark), Node("array", "list", <<>>, <<>>)},
     b \in {Nil(NullMark), Nil(AtomicNull), Nil(0)}}
    \cup {<<Node("object", "top", <<1, 2, 3>>, <<2, 3, 4>>), Node("array", "list", <<>>, <<5, 6>>), v, Map("map", <<7, 3>>, <<7, 8>>),
            w, Scalar("scalar", 410, 2), Node("object", "point", <<1, 2>>, <<9, 10>>), Nil(m), Scalar("scalar", 420, 1), n>> :
            v \in Values3, w \in Values3, m \in {NullMark, AtomicNull, 0}, n \in {Nil(AtomicNull)}}
    \cup {<<Node("object", "top", <<1, 2, 3>>, <<2, 3, 4>>), Node("array", "list", <<>>, <<>>), v, Map("map", <<9>>, <<5>>),
            Node("object", "point", <<1, 2>>, <<6, 7>>), Scalar("scalar", 420, 1), Node("object", "inner", <<1>>, <<8>>), w>> :
            v \in Values3, w \in Values3}
NestedTrees ==
  {<<Node("array", "top", <<>>, <<2, 3>>), Node("array", "list", <<>>, <<4, 5>>), Node("array", "list", <<>>, <<>>),
     Node("object", "point", <<1, 2>>, <<6, 7>>), e, x, Node("array", "list", <<>>, <<8>>), Node("object", "point", <<1, 2>>, <<9, 10>>), x, n>> :
     e \in {Nil(NullMark), Nil(AtomicNull)}, n \in {Nil(NullMark), Nil(AtomicNull)}, x \in {Nil(0), Xml({"text", "skip4"}, 600, 3), Xml({"lob"}, 600, 2)}}

Objects(trees, types, sound) ==
  {Arriving("object", ObjectImage(t, types, c), types, Names, t, sound) : t \in trees, c \in [prefix : BOOLEAN, long : BOOLEAN]}

\* Every beginning of an image.
Cut(d) == {[d EXCEPT !.image = SubSeq(d.image, 1, n), !.sound = FALSE] : n \in 0 .. Len(d.image) - 1}

Wellformed == Objects(PlainTrees, Plain, TRUE) \cup Objects(ListTrees, Lists, TRUE) \cup Objects(NestedTrees, Nested, TRUE)
Larger == {c \in Sizes : c.relative = c.share /\ c.ids = c.count /\ (c.names = c.offset \/ c.ids = 1)}
DeepTrees == {t \in Trees : Len(t) > 3}
MCDocuments ==
  Osons(DeepTrees, Sizes, TRUE) \cup Osons(Trees, {c \in Larger : c.relative}, TRUE) \cup Osons(Unreadable, Larger, FALSE)
    \cup Wellformed
    \cup UNION {Cut(d) : d \in Osons(DeepTrees, {c \in Larger : c.offset = 2 /\ c.ids < 4}, TRUE)}
    \cup UNION {Cut(d) : d \in Objects({t \in NestedTrees : t[5] = t[10]}, Nested, TRUE)}

-----------------------------------------------------------------------------
NoNumeral == [neg |-> FALSE, whole |-> <<>>, frac |-> <<>>, exp |-> 0]

NoNumber == text = NoNumeral /\ wire = <<>> /\ value = Number(FALSE, <<>>, 0) /\ status = "none"
NoText ==
  /\ sql = <<>> /\ phase = "none" /\ pos = 1 /\ mode = "code" /\ count = 0 /\ out = <<>>
  /\ parsed = [names |-> <<>>]
  /\ last = "" /\ word = 0 /\ string = FALSE /\ bare = FALSE /\ odd = {}
NoValue ==
  /\ journey = [way |-> "none"] /\ given = <<>> /\ column = NoPrecision /\ bytes = <<>>
  /\ result = <<>> /\ back = Arrow("none", 0, 0) /\ stage = "none"
NoGeometry ==
  /\ geometry = [gtype |-> 0, point |-> "none", info |-> <<>>, length |-> 0]
  /\ at = 1 /\ wkb = <<>> /\ phaseG = "none"
NoType ==
  /\ dictionary = [t \in Types |-> <<>>] /\ cache = [t \in Types |-> "absent"]
  /\ attrs = [t \in Types |-> <<>>] /\ frames = <<>> /\ asked = XmlType /\ answer = "none"
  /\ lookups = MaxLookups /\ faults = 0
NoRequest ==
  /\ request = [uri |-> Uri("none", FALSE, "", "", "", <<>>), params |-> <<>>, options |-> <<>>]
  /\ step = "none" /\ unread = {} /\ settings = Unset /\ config = NoConfig

NoDocument ==
  /\ document = [way |-> "none"] /\ spot = 0 /\ open = <<>> /\ header = NoHeader /\ json = <<>> /\ reads = "none"

NoMessage ==
  /\ message = <<>> /\ turn = "none" /\ queue = <<>> /\ packets = <<>> /\ buffered = <<>>
  /\ incoming = <<>> /\ reader = NoReader /\ chunk = <<>> /\ answers = <<>>

Init ==
  \/ NumberInit /\ NoText /\ NoValue /\ NoGeometry /\ NoType /\ NoRequest /\ NoMessage /\ NoDocument
  \/ ScanInit /\ NoNumber /\ NoValue /\ NoGeometry /\ NoType /\ NoRequest /\ NoMessage /\ NoDocument
  \/ ValuesInit /\ NoNumber /\ NoText /\ NoGeometry /\ NoType /\ NoRequest /\ NoMessage /\ NoDocument
  \/ GeometryInit /\ NoNumber /\ NoText /\ NoValue /\ NoType /\ NoRequest /\ NoMessage /\ NoDocument
  \/ TypesInit /\ NoNumber /\ NoText /\ NoValue /\ NoGeometry /\ NoRequest /\ NoMessage /\ NoDocument
  \/ OptionsInit /\ NoNumber /\ NoText /\ NoValue /\ NoGeometry /\ NoType /\ NoMessage /\ NoDocument
  \/ PacketsInit /\ NoNumber /\ NoText /\ NoValue /\ NoGeometry /\ NoType /\ NoRequest /\ NoDocument
  \/ DocumentsInit /\ NoNumber /\ NoText /\ NoValue /\ NoGeometry /\ NoType /\ NoRequest /\ NoMessage

Next ==
  \/ NumberNext /\ UNCHANGED <<scanVars, valuesVars, geometryVars, typesVars, optionsVars, packetsVars, documentVars>>
  \/ ScanNext /\ UNCHANGED <<numberVars, valuesVars, geometryVars, typesVars, optionsVars, packetsVars, documentVars>>
  \/ ValuesNext /\ UNCHANGED <<numberVars, scanVars, geometryVars, typesVars, optionsVars, packetsVars, documentVars>>
  \/ GeometryNext /\ UNCHANGED <<numberVars, scanVars, valuesVars, typesVars, optionsVars, packetsVars, documentVars>>
  \/ TypesNext /\ UNCHANGED <<numberVars, scanVars, valuesVars, geometryVars, optionsVars, packetsVars, documentVars>>
  \/ OptionsNext /\ UNCHANGED <<numberVars, scanVars, valuesVars, geometryVars, typesVars, packetsVars, documentVars>>
  \/ PacketsNext /\ UNCHANGED <<numberVars, scanVars, valuesVars, geometryVars, typesVars, optionsVars, documentVars>>
  \/ DocumentsNext /\ UNCHANGED <<numberVars, scanVars, valuesVars, geometryVars, typesVars, optionsVars, packetsVars>>

Spec == Init /\ [][Next]_<<numberVars, scanVars, valuesVars, geometryVars, typesVars, optionsVars, packetsVars, documentVars>>

=============================================================================
