----------------------------- MODULE DataProofs -----------------------------
(***************************************************************************)
(* Proofs about what the driver does with data: the cache of object types  *)
(* (ObjectTypes), the settings of a connection (Options), the NUMBER codec *)
(* (NumberCodec), the way of a value (Values) and the packets of a message *)
(* (Packets), each from an inductive invariant of its own and from the     *)
(* assumption its module states on its inputs.  None of them bounds the    *)
(* dictionary, the requests, the numerals, the values or the messages.     *)
(***************************************************************************)
EXTENDS NumberCodec, Options, ObjectTypes, Values, Packets, SequenceTheorems, WellFoundedInduction, TLAPS

---------------------------------------------------------------------------
(***************************************************************************)
(* OBJECT TYPES                                                            *)
(***************************************************************************)

---------------------------------------------------------------------------
(* What types are made of: the least closed set.                           *)

\* It has what it starts from, is closed,
LEMMA WithinClosed ==
  ASSUME NEW S \in SUBSET Types
  PROVE  S \subseteq Within(S) /\ Within(S) \subseteq Types /\ Closed(Within(S))
<1>1. S \subseteq Within(S) /\ Within(S) \subseteq Types
  BY DEF Within
<1>2. ASSUME NEW t \in Within(S), NEW a \in AttrsOf(t) \cap Types PROVE a \in Within(S)
  <2> SUFFICES ASSUME NEW C \in SUBSET Types, S \subseteq C, Closed(C) PROVE a \in C
    BY DEF Within
  <2>1. t \in C
    BY DEF Within
  <2> QED
    BY <2>1 DEF Closed
<1> QED
  BY <1>1, <1>2 DEF Closed

\* and is within every such set.
LEMMA WithinLeast ==
  ASSUME NEW C \in SUBSET Types, NEW S \in SUBSET C, Closed(C)
  PROVE  Within(S) \subseteq C
BY DEF Within

\* Of each type, what its attributes are made of.
Below == [t \in Types |-> Within(AttrsOf(t) \cap Types)]

\* The dictionary is that of the database and does not change.
LEMMA WithinStays ==
  ASSUME UNCHANGED dictionary
  PROVE  /\ Below' = Below
         /\ \A t : AttrsOf(t)' = AttrsOf(t)
         /\ \A S : Within(S)' = Within(S)
         /\ \A t : IsRecursive(t)' = IsRecursive(t)
         /\ \A t, what : Lacks(t, what)' = Lacks(t, what)
<1>1. \A t : AttrsOf(t)' = AttrsOf(t)
  BY DEF AttrsOf
<1>2. \A S : Closed(S)' = Closed(S)
  BY <1>1 DEF Closed
<1>3. \A S : Within(S)' = Within(S)
  BY <1>2 DEF Within
<1>4. \A t : Parts(t)' = Parts(t)
  BY <1>3 DEF Parts
<1>5. Below' = Below
  <2>1. \A t : Within(AttrsOf(t) \cap Types)' = Within(AttrsOf(t) \cap Types)
    BY <1>1, <1>3
  <2> QED
    BY <2>1 DEF Below
<1> QED
  BY <1>1, <1>3, <1>4, <1>5 DEF IsRecursive, Lacks

---------------------------------------------------------------------------
(* The inductive invariant.                                                *)

\* What an attribute may be, and the types that are complete.
Attributes == Types \cup {"scalar", "unsupported"}
Resolved == {t \in Types : cache[t] = "resolved"}

\* The types of the variables.
TypesOK ==
  /\ dictionary \in [Types -> Seq(Attributes) \cup {<<"missing">>}] /\ dictionary[XmlType] = <<>>
  /\ cache \in [Types -> {"absent", "resolving", "resolved"}]
  /\ attrs \in [Types -> Seq(Attributes)]
  /\ frames \in Seq(Types \ {XmlType})
  /\ asked \in Types
  /\ answer \in {"none", "found", "failed", "missing", "unsupported", "recursive"}

\* The types being read are those of the calls under way, each of one call;
\* the outermost is the type asked for.
Stacked ==
  /\ \A t \in Types : cache[t] = "resolving" <=> \E i \in DOMAIN frames : frames[i] = t
  /\ \A i, j \in DOMAIN frames : frames[i] = frames[j] => i = j
  /\ frames # <<>> => frames[1] = asked

\* Each call is about the next attribute of the one around it, and so all of
\* them about something the type asked for is made of.
Nested ==
  /\ \A i \in DOMAIN frames : i + 1 \in DOMAIN frames =>
       /\ Len(attrs[frames[i]]) < Len(dictionary[frames[i]])
       /\ dictionary[frames[i]][Len(attrs[frames[i]]) + 1] = frames[i + 1]
  /\ \A i, j \in DOMAIN frames : i < j => frames[j] \in Below[frames[i]]

\* What is known of a type being read begins what the dictionary says of it,
\* and the types in it are complete.
Begun ==
  \A t \in Types : cache[t] = "resolving" =>
    /\ Len(attrs[t]) <= Len(dictionary[t])
    /\ \A i \in DOMAIN attrs[t] :
         attrs[t][i] = dictionary[t][i] /\ attrs[t][i] \in Resolved \cup {"scalar"}

\* A type is complete with all its attributes, which came before it.
CacheWhole ==
  \A t \in Resolved :
    /\ t # XmlType => attrs[t] = dictionary[t]
    /\ AttrsOf(t) \subseteq Resolved \cup {"scalar"}
    /\ t \notin Below[t]

\* What the last lookup said is so.
Answers ==
  /\ answer = "found" => asked \in Resolved
  /\ answer = "recursive" => IsRecursive(asked)
  /\ answer \in {"missing", "unsupported"} => Lacks(asked, answer)

TypesInv == TypesOK /\ Stacked /\ Nested /\ Begun /\ CacheWhole /\ Answers

\* The complete types are closed.
LEMMA ResolvedClosed == ASSUME CacheWhole PROVE Closed(Resolved)
BY TypesAssumption DEF CacheWhole, Closed

\* The property from the invariant.
LEMMA TypesAreWholeNow == ASSUME TypesInv PROVE TypesAreWhole
<1> USE DEF TypesInv
<1>1. Closed(Resolved) /\ Resolved \in SUBSET Types
  BY ResolvedClosed DEF Resolved
<1>2. ASSUME NEW t \in Resolved PROVE Parts(t) \subseteq Resolved
  <2>1. Within({t}) \subseteq Resolved
    BY <1>1, WithinLeast
  <2> QED
    BY <2>1 DEF Parts
<1>3. ASSUME NEW t \in Resolved PROVE ~IsRecursive(t) /\ ~Lacks(t, "missing")
  <2>1. \A u \in Parts(t) : u \in Resolved
    BY <1>2
  <2>2. \A u \in Resolved : u \notin Within(AttrsOf(u) \cap Types) /\ "missing" \notin AttrsOf(u)
    <3>1. "missing" \notin Types
      BY TypesAssumption
    <3> QED
      BY <3>1 DEF CacheWhole, Resolved, Below
  <2> QED
    BY <2>1, <2>2 DEF IsRecursive, Lacks
<1>4. ASSUME Quiet, NEW t \in Types, cache[t] # "absent" PROVE t \in Resolved
  BY <1>4 DEF Quiet, Stacked, TypesOK, Resolved
<1>5. ASSUME Quiet PROVE cache[XmlType] # "resolving"
  BY <1>5, TypesAssumption DEF Quiet, Stacked
<1>6. ASSUME NEW t \in Resolved, t # XmlType PROVE attrs[t] = dictionary[t]
  BY <1>6 DEF CacheWhole
<1> QED
  BY <1>2, <1>3, <1>4, <1>5, <1>6 DEF TypesAreWhole, Answers, Resolved

---------------------------------------------------------------------------
(* The steps.                                                              *)

\* Before the first lookup only XMLTYPE, which has no attributes, may be known.
LEMMA TypesInitInv == ASSUME TypesInit PROVE TypesInv
<1>1. TypesOK
  BY EmptySeq, TypesAssumption DEF TypesInit, TypesOK, Attributes
<1>2. Stacked /\ Nested /\ Begun /\ CacheWhole /\ Answers
  BY DEF TypesInit, Stacked, Nested, Begun, CacheWhole, Answers, Resolved
<1> QED
  BY <1>1, <1>2 DEF TypesInv

\* The innermost call, and its type.
LEMMA Innermost ==
  ASSUME TypesInv, ~Quiet
  PROVE  /\ Len(frames) \in DOMAIN frames /\ DOMAIN frames = 1 .. Len(frames)
         /\ Resolving = frames[Len(frames)] /\ Resolving \in Types \ {XmlType}
         /\ cache[Resolving] = "resolving"
         /\ attrs[Resolving] \in Seq(Attributes) /\ DOMAIN attrs[Resolving] = 1 .. Len(attrs[Resolving])
         /\ DOMAIN dictionary[Resolving] = 1 .. Len(dictionary[Resolving]) /\ Len(dictionary[Resolving]) \in Nat
         /\ ~IsMissing => dictionary[Resolving] \in Seq(Attributes)
<1>1. frames \in Seq(Types \ {XmlType}) /\ frames # <<>>
  BY DEF TypesInv, TypesOK, Quiet
<1>2. Len(frames) \in DOMAIN frames /\ DOMAIN frames = 1 .. Len(frames) /\ Resolving = frames[Len(frames)]
  BY <1>1 DEF Resolving, Last
<1>3. Resolving \in Types \ {XmlType}
  BY <1>1, <1>2
<1>4. cache[Resolving] = "resolving"
  BY <1>2, <1>3 DEF TypesInv, Stacked
<1>5. attrs[Resolving] \in Seq(Attributes) /\ dictionary[Resolving] \in Seq(Attributes) \cup {<<"missing">>}
  BY <1>3 DEF TypesInv, TypesOK
<1>6. DOMAIN dictionary[Resolving] = 1 .. Len(dictionary[Resolving]) /\ Len(dictionary[Resolving]) \in Nat
  <2>1. CASE dictionary[Resolving] \in Seq(Attributes)
    BY <2>1, LenProperties
  <2>2. CASE dictionary[Resolving] = <<"missing">>
    BY <2>2
  <2> QED
    BY <1>5, <2>1, <2>2
<1>7. DOMAIN attrs[Resolving] = 1 .. Len(attrs[Resolving])
  BY <1>5, LenProperties
<1> QED
  BY <1>2, <1>3, <1>4, <1>5, <1>6, <1>7 DEF IsMissing

\* A type is made of its attributes, of theirs and so on: the type of each call
\* is within what the type asked for is made of.
LEMMA FramesWithin ==
  ASSUME TypesInv, NEW i \in DOMAIN frames
  PROVE  frames[i] \in Parts(asked) /\ asked # XmlType
<1>1. frames \in Seq(Types \ {XmlType}) /\ 1 \in DOMAIN frames /\ frames[1] = asked /\ asked \in Types \ {XmlType}
  BY DEF TypesInv, TypesOK, Stacked
<1>2. Parts(asked) = Within({asked}) /\ asked \in Within({asked}) /\ Closed(Within({asked})) /\ Within({asked}) \in SUBSET Types
  BY <1>1, WithinClosed DEF Parts
<1>3. CASE i = 1
  BY <1>1, <1>2, <1>3
<1>4. CASE i # 1
  <2>1. 1 < i
    BY <1>1, <1>4
  <2>2. frames[i] \in Within(AttrsOf(asked) \cap Types)
    BY <1>1, <2>1 DEF TypesInv, Nested, Below
  <2>3. AttrsOf(asked) \cap Types \subseteq Within({asked})
    BY <1>2 DEF Closed
  <2>4. Within(AttrsOf(asked) \cap Types) \subseteq Within({asked})
    BY <1>2, <2>3, WithinLeast
  <2> QED
    BY <1>1, <1>2, <2>2, <2>4
<1> QED
  BY <1>1, <1>3, <1>4

\* An error: all calls end, and none of their types stays in the cache.
LEMMA ErrorInv ==
  ASSUME TypesInv, ~Quiet, NEW what \in {"failed", "missing", "unsupported", "recursive"}, ReturnError(what),
         what = "recursive" => IsRecursive(asked),
         what \in {"missing", "unsupported"} => Lacks(asked, what)
  PROVE  TypesInv'
<1>1. /\ cache' = [t \in Types |-> IF t \in Range(frames) THEN "absent" ELSE cache[t]]
      /\ frames' = <<>> /\ answer' = what
      /\ UNCHANGED <<dictionary, attrs, asked, lookups>>
  BY DEF ReturnError
<1>2. \A t \in Types : t \in Range(frames) <=> cache[t] = "resolving"
  BY DEF TypesInv, Stacked, Range
<1>3. Resolved' = Resolved /\ \A t \in Types : cache'[t] # "resolving"
  BY <1>1, <1>2 DEF Resolved
<1>4. TypesOK'
  BY <1>1, EmptySeq DEF TypesInv, TypesOK
<1>5. Stacked' /\ Nested' /\ Begun'
  BY <1>1, <1>3 DEF Stacked, Nested, Begun
<1>6. CacheWhole'
  <2>1. Below' = Below /\ \A t : AttrsOf(t)' = AttrsOf(t)
    BY <1>1, WithinStays
  <2>2. CacheWhole
    BY DEF TypesInv
  <2> QED
    BY <1>1, <1>3, <2>1, <2>2 DEF CacheWhole
<1>7. Answers'
  BY <1>1, WithinStays DEF Answers
<1> QED
  BY <1>4, <1>5, <1>6, <1>7 DEF TypesInv

\* A query that fails is an error of all the calls under way.
LEMMA QueryFailsInv == ASSUME TypesInv, QueryFails PROVE TypesInv'
BY ErrorInv DEF QueryFails

\* So is a type the dictionary does not have: the type asked for is made of it.
LEMMA NotFoundInv == ASSUME TypesInv, NotFound PROVE TypesInv'
<1>1. ~Quiet /\ IsMissing /\ ReturnError("missing")
  BY DEF NotFound
<1>2. "missing" \in AttrsOf(Resolving)
  BY <1>1 DEF IsMissing, AttrsOf, Range
<1>3. Resolving \in Parts(asked)
  BY <1>1, Innermost, FramesWithin
<1> QED
  BY <1>1, <1>2, <1>3, ErrorInv DEF Lacks

\* The next attribute is one the dictionary has.
LEMMA NextAttrOf ==
  ASSUME TypesInv, HasNext
  PROVE  /\ NextAttr \in AttrsOf(Resolving) /\ NextAttr \in Attributes
         /\ Len(attrs[Resolving]) + 1 \in DOMAIN dictionary[Resolving]
<1>1. ~Quiet /\ ~IsMissing /\ Len(attrs[Resolving]) < Len(dictionary[Resolving])
  BY DEF HasNext
<1>2. Len(attrs[Resolving]) + 1 \in DOMAIN dictionary[Resolving]
  BY <1>1, Innermost, LenProperties
<1> QED
  BY <1>1, <1>2, Innermost DEF NextAttr, AttrsOf, Range

\* And so is an attribute the driver has no codec for.
LEMMA UnsupportedInv == ASSUME TypesInv, UnsupportedAttr PROVE TypesInv'
<1>1. ~Quiet /\ ReturnError("unsupported") /\ "unsupported" \in AttrsOf(Resolving)
  BY NextAttrOf DEF UnsupportedAttr, HasNext
<1>2. Resolving \in Parts(asked)
  BY <1>1, Innermost, FramesWithin
<1> QED
  BY <1>1, <1>2, ErrorInv DEF Lacks

\* The type of a call that is met again is made of itself.
LEMMA RecursiveInv == ASSUME TypesInv, RecursiveAttr PROVE TypesInv'
<1>1. ~Quiet /\ ReturnError("recursive") /\ NextAttr \in AttrsOf(Resolving) \cap Types /\ cache[NextAttr] = "resolving"
  BY NextAttrOf DEF RecursiveAttr, HasNext
<1>2. PICK i \in DOMAIN frames : frames[i] = NextAttr
  BY <1>1 DEF TypesInv, Stacked
<1> DEFINE A == AttrsOf(NextAttr) \cap Types
<1>3. NextAttr \in Within(A)
  <2>1. A \subseteq Within(A) /\ Within(A) \subseteq Types /\ Closed(Within(A))
    BY WithinClosed
  <2>2. CASE i = Len(frames)
    BY <1>1, <1>2, <2>1, <2>2, Innermost
  <2>3. CASE i # Len(frames)
    <3>1. i < Len(frames) /\ Len(frames) \in DOMAIN frames /\ Resolving = frames[Len(frames)]
      BY <1>1, <2>3, Innermost
    <3>2. Resolving \in Within(A)
      BY <1>1, <1>2, <3>1 DEF TypesInv, Nested, Below
    <3> QED
      BY <1>1, <2>1, <3>2 DEF Closed
  <2> QED
    BY <2>2, <2>3
<1>4. NextAttr \in Parts(asked)
  BY <1>2, FramesWithin
<1>5. IsRecursive(asked)
  BY <1>3, <1>4 DEF IsRecursive
<1> QED
  BY <1>1, <1>5, ErrorInv

\* A step that completes the types in New and leaves those complete as they are.
LEMMA WholeStep ==
  ASSUME CacheWhole, UNCHANGED dictionary, NEW New \in SUBSET Types,
         Resolved' = Resolved \cup New,
         \A t \in Resolved : attrs'[t] = attrs[t],
         \A t \in New : /\ t # XmlType => attrs'[t] = dictionary[t]
                        /\ AttrsOf(t) \subseteq Resolved \cup {"scalar"}
                        /\ t \notin Below[t]
  PROVE  CacheWhole'
<1>1. Below' = Below /\ \A t : AttrsOf(t)' = AttrsOf(t)
  BY WithinStays
<1> SUFFICES ASSUME NEW t \in Resolved'
             PROVE  /\ t # XmlType => attrs'[t] = dictionary[t]
                    /\ AttrsOf(t) \subseteq Resolved \cup {"scalar"}
                    /\ t \notin Below[t]
  BY <1>1 DEF CacheWhole
<1>2. CASE t \in Resolved
  BY <1>2 DEF CacheWhole
<1> QED
  BY <1>2

\* XMLTYPE has no attributes.
LEMMA XmlTypeHasNone ==
  ASSUME TypesInv
  PROVE  AttrsOf(XmlType) = {} /\ Within({}) = {}
<1>1. AttrsOf(XmlType) = {}
  BY DEF TypesInv, TypesOK, AttrsOf, Range
<1>2. Closed({})
  BY DEF Closed
<1>3. Within({}) \subseteq {}
  BY <1>2, WithinLeast
<1> QED
  BY <1>1, <1>3

\* The next attribute, its type complete, goes to the innermost type.
LEMMA AttachInv ==
  ASSUME TypesInv, HasNext, Attach(NextAttr), UNCHANGED <<dictionary, frames, asked, answer>>,
         \/ NextAttr = "scalar" /\ cache' = cache
         \/ NextAttr \in Types /\ IsKnown(NextAttr) /\ Keep(NextAttr)
  PROVE  TypesInv'
<1> DEFINE R == Resolving
           a == NextAttr
           k == Len(attrs[R])
           n == Len(frames)
<1>1. ~Quiet /\ ~IsMissing /\ k < Len(dictionary[R])
  BY DEF HasNext
<1>2. /\ n \in DOMAIN frames /\ DOMAIN frames = 1 .. n /\ R = frames[n] /\ R \in Types \ {XmlType}
      /\ cache[R] = "resolving" /\ attrs[R] \in Seq(Attributes) /\ DOMAIN attrs[R] = 1 .. k
      /\ dictionary[R] \in Seq(Attributes) /\ k \in Nat /\ Len(dictionary[R]) \in Nat
  BY <1>1, Innermost, LenProperties
<1>3. a \in Attributes /\ a = dictionary[R][k + 1]
  BY NextAttrOf DEF NextAttr
<1>4. attrs' = [attrs EXCEPT ![R] = Append(attrs[R], a)]
  BY DEF Attach
<1>5. /\ Append(attrs[R], a) \in Seq(Attributes) /\ Len(Append(attrs[R], a)) = k + 1
      /\ \A i \in 1 .. k : Append(attrs[R], a)[i] = attrs[R][i]
      /\ Append(attrs[R], a)[k + 1] = a /\ DOMAIN Append(attrs[R], a) = 1 .. k + 1
  BY <1>2, <1>3, AppendProperties, LenProperties
<1>6. attrs'[R] = Append(attrs[R], a) /\ \A t \in Types : t # R => attrs'[t] = attrs[t]
  BY <1>2, <1>4 DEF TypesInv, TypesOK
<1> DEFINE New == {a} \cap Types
<1>7. /\ Resolved' = Resolved \cup New /\ a \in Resolved' \cup {"scalar"} /\ New \subseteq Resolved \cup {XmlType}
      /\ cache' \in [Types -> {"absent", "resolving", "resolved"}]
      /\ \A t \in Types : cache'[t] = "resolving" <=> cache[t] = "resolving"
  <2>1. cache[XmlType] # "resolving" /\ cache \in [Types -> {"absent", "resolving", "resolved"}]
    BY TypesAssumption DEF TypesInv, TypesOK, Stacked
  <2>2. CASE a = "scalar" /\ cache' = cache
    BY <2>1, <2>2, TypesAssumption DEF Resolved
  <2>3. CASE a \in Types /\ IsKnown(a) /\ Keep(a)
    BY <2>1, <2>3 DEF Resolved, IsKnown, Keep
  <2> QED
    BY <2>2, <2>3
<1> HIDE DEF New, a, k
<1>8. TypesOK'
  BY <1>2, <1>4, <1>5, <1>7 DEF TypesInv, TypesOK
<1>9. Stacked'
  BY <1>7 DEF TypesInv, Stacked
<1>10. Nested'
  <2>1. ASSUME NEW i \in DOMAIN frames, i + 1 \in DOMAIN frames PROVE attrs'[frames[i]] = attrs[frames[i]]
    <3>1. i \in 1 .. n /\ i + 1 \in 1 .. n /\ n \in 1 .. n
      BY <1>2, <2>1
    <3>2. frames[i] \in Types /\ i # n
      BY <1>2, <3>1 DEF TypesInv, TypesOK
    <3>3. frames[i] # frames[n]
      BY <1>2, <3>1, <3>2 DEF TypesInv, Stacked
    <3> QED
      BY <1>2, <1>6, <3>2, <3>3
  <2>2. Below' = Below
    BY WithinStays
  <2> QED
    BY <2>1, <2>2 DEF TypesInv, Nested
<1>11. Begun'
  <2> SUFFICES ASSUME NEW t \in Types, cache[t] = "resolving"
               PROVE  /\ Len(attrs'[t]) <= Len(dictionary[t])
                      /\ \A i \in DOMAIN attrs'[t] :
                           attrs'[t][i] = dictionary[t][i] /\ attrs'[t][i] \in Resolved' \cup {"scalar"}
    BY <1>7 DEF Begun
  <2>1. /\ Len(attrs[t]) <= Len(dictionary[t])
        /\ \A i \in DOMAIN attrs[t] :
             attrs[t][i] = dictionary[t][i] /\ attrs[t][i] \in Resolved \cup {"scalar"}
    BY DEF TypesInv, Begun
  <2>2. CASE t = R
    <3>1. attrs'[R] = Append(attrs[R], a) /\ Len(attrs'[R]) = k + 1 /\ DOMAIN attrs'[R] = 1 .. k + 1
      BY <1>5, <1>6
    <3>2. k + 1 <= Len(dictionary[R])
      BY <1>1, <1>2
    <3>3. attrs'[R][k + 1] = dictionary[R][k + 1] /\ attrs'[R][k + 1] \in Resolved' \cup {"scalar"}
      BY <1>3, <1>5, <1>7, <3>1
    <3>4. ASSUME NEW i \in 1 .. k
          PROVE  attrs'[R][i] = dictionary[R][i] /\ attrs'[R][i] \in Resolved' \cup {"scalar"}
      <4>1. attrs[R][i] = dictionary[R][i] /\ attrs[R][i] \in Resolved \cup {"scalar"}
        BY <1>2, <2>1, <2>2
      <4> QED
        BY <1>5, <1>7, <3>1, <4>1
    <3>5. \A i \in 1 .. k + 1 : i \in 1 .. k \/ i = k + 1
      BY <1>2
    <3> QED
      BY <2>2, <3>1, <3>2, <3>3, <3>4, <3>5
  <2>3. CASE t # R
    BY <1>6, <1>7, <2>1, <2>3
  <2> QED
    BY <2>2, <2>3
<1>12. CacheWhole'
  <2>1. \A t \in Resolved : attrs'[t] = attrs[t]
    BY <1>2, <1>6 DEF Resolved
  <2>2. CASE New \subseteq Resolved
    <3>1. Resolved' = Resolved \cup {}
      BY <1>7, <2>2
    <3> QED
      BY <2>1, <3>1, WholeStep, TypesAssumption DEF TypesInv
  <2>3. CASE New = {XmlType}
    <3>1. AttrsOf(XmlType) \subseteq Resolved \cup {"scalar"} /\ XmlType \notin Below[XmlType]
      <4>1. AttrsOf(XmlType) \cap Types = {}
        BY XmlTypeHasNone
      <4> QED
        BY <4>1, XmlTypeHasNone, TypesAssumption DEF Below
    <3>2. New \in SUBSET Types /\ \A t \in New : t = XmlType
      BY <2>3, TypesAssumption
    <3> QED
      BY <1>7, <2>1, <3>1, <3>2, WholeStep DEF TypesInv
  <2> QED
    BY <1>7, <2>2, <2>3 DEF New
<1>13. Answers'
  BY <1>7, WithinStays DEF TypesInv, Answers
<1> QED
  BY <1>8, <1>9, <1>10, <1>11, <1>12, <1>13 DEF TypesInv

\* A call begins: of a lookup, or for the next attribute of the innermost type.
LEMMA StartInv ==
  ASSUME TypesInv, NEW t \in Types, StartReading(t), UNCHANGED dictionary,
         \/ Quiet /\ asked' = t /\ answer' = "none"
         \/ HasNext /\ t = NextAttr /\ UNCHANGED <<asked, answer>>
  PROVE  TypesInv'
<1> DEFINE n == Len(frames)
<1>1. /\ cache[t] = "absent" /\ t # XmlType
      /\ cache' = [cache EXCEPT ![t] = "resolving"]
      /\ attrs' = [attrs EXCEPT ![t] = <<>>]
      /\ frames' = Append(frames, t)
  BY DEF StartReading
<1>2. frames \in Seq(Types \ {XmlType}) /\ DOMAIN frames = 1 .. n
  BY LenProperties DEF TypesInv, TypesOK
<1>3. n \in Nat
  BY LenProperties DEF TypesInv, TypesOK
<1>4. /\ frames' \in Seq(Types \ {XmlType}) /\ DOMAIN frames' = 1 .. n + 1 /\ frames'[n + 1] = t
      /\ \A i \in 1 .. n : frames'[i] = frames[i]
  BY <1>1, <1>2, AppendProperties, LenProperties
<1>5. \A i \in 1 .. n : frames[i] \in Types /\ frames[i] # t
  BY <1>1, <1>2 DEF TypesInv, Stacked
<1>6. /\ \A u \in Types : u # t => cache'[u] = cache[u] /\ attrs'[u] = attrs[u]
      /\ cache'[t] = "resolving" /\ attrs'[t] = <<>> /\ cache[t] # "resolving" /\ cache[t] # "resolved"
  BY <1>1 DEF TypesInv, TypesOK
<1>7. Resolved' = Resolved
  BY <1>6 DEF Resolved
<1>8. TypesOK'
  BY <1>1, <1>4, EmptySeq DEF TypesInv, TypesOK
<1>9. Stacked'
  <2>1. ASSUME NEW u \in Types PROVE cache'[u] = "resolving" <=> \E i \in 1 .. n + 1 : frames'[i] = u
    <3>1. cache[u] = "resolving" <=> \E i \in 1 .. n : frames[i] = u
      BY <1>2 DEF TypesInv, Stacked
    <3> QED
      BY <1>2, <1>3, <1>4, <1>5, <1>6, <3>1
  <2>2. ASSUME NEW i \in 1 .. n + 1, NEW j \in 1 .. n + 1, frames'[i] = frames'[j] PROVE i = j
    BY <1>2, <1>3, <1>4, <1>5, <2>2 DEF TypesInv, Stacked
  <2>3. frames'[1] = asked'
    <3>1. CASE Quiet
      BY <1>2, <1>3, <1>4, <3>1 DEF Quiet, HasNext
    <3>2. CASE ~Quiet
      BY <1>2, <1>3, <1>4, <3>2, Innermost DEF TypesInv, Stacked, Quiet
    <3> QED
      BY <3>1, <3>2
  <2> QED
    BY <1>4, <2>1, <2>2, <2>3 DEF Stacked
<1>10. ASSUME ~Quiet
      PROVE  /\ n >= 1 /\ Resolving = frames[n] /\ t \in AttrsOf(frames[n]) \cap Types
             /\ Len(attrs[frames[n]]) < Len(dictionary[frames[n]])
             /\ dictionary[frames[n]][Len(attrs[frames[n]]) + 1] = t
  BY <1>2, <1>3, <1>10, Innermost, NextAttrOf DEF HasNext, NextAttr
<1>11. Nested'
  <2>1. ASSUME NEW i \in 1 .. n + 1, i + 1 \in 1 .. n + 1
        PROVE  /\ Len(attrs'[frames'[i]]) < Len(dictionary[frames'[i]])
               /\ dictionary[frames'[i]][Len(attrs'[frames'[i]]) + 1] = frames'[i + 1]
    <3>1. i \in 1 .. n /\ ~Quiet /\ frames'[i] = frames[i] /\ attrs'[frames'[i]] = attrs[frames[i]]
      BY <1>2, <1>3, <1>4, <1>5, <1>6, <2>1 DEF Quiet
    <3>2. CASE i = n
      BY <1>2, <1>3, <1>4, <1>10, <3>1, <3>2
    <3>3. CASE i # n
      <4>1. i \in 1 .. n /\ i # n
        BY <3>1, <3>3
      <4>2. i + 1 \in 1 .. n
        BY <1>3, <4>1
      <4>3. frames'[i + 1] = frames[i + 1]
        BY <1>4, <4>2
      <4> QED
        BY <1>2, <3>1, <4>2, <4>3 DEF TypesInv, Nested
    <3> QED
      BY <3>2, <3>3
  <2>2. ASSUME NEW i \in 1 .. n + 1, NEW j \in 1 .. n + 1, i < j
        PROVE  frames'[j] \in Below[frames'[i]]
    <3> DEFINE A == AttrsOf(frames[i]) \cap Types
    <3>1. i \in 1 .. n /\ ~Quiet /\ frames'[i] = frames[i]
      BY <1>2, <1>3, <1>4, <2>2 DEF Quiet
    <3>2. /\ A \subseteq Within(A) /\ Within(A) \subseteq Types /\ Closed(Within(A))
          /\ Below[frames[i]] = Within(A)
      BY <1>5, <3>1, WithinClosed DEF Below
    <3>3. CASE j # n + 1
      <4>1. j \in 1 .. n /\ frames'[j] = frames[j] /\ i \in DOMAIN frames /\ j \in DOMAIN frames
        BY <1>2, <1>3, <1>4, <3>1, <3>3
      <4>2. frames[j] \in Within(A)
        BY <2>2, <3>2, <4>1 DEF TypesInv, Nested
      <4> QED
        BY <3>1, <3>2, <4>1, <4>2
    <3>4. CASE j = n + 1 /\ i = n
      BY <1>4, <1>10, <3>1, <3>2, <3>4
    <3>5. CASE j = n + 1 /\ i # n
      <4>1. i \in Nat /\ i < n
        BY <1>3, <3>1, <3>5
      <4>2. n \in DOMAIN frames /\ i \in DOMAIN frames
        BY <1>2, <1>3, <3>1, <4>1
      <4>3. frames[n] \in Within(A)
        BY <3>2, <4>1, <4>2 DEF TypesInv, Nested
      <4> QED
        BY <1>4, <1>10, <3>1, <3>2, <3>5, <4>3 DEF Closed
    <3> QED
      BY <3>3, <3>4, <3>5
  <2>3. Below' = Below
    BY WithinStays
  <2> QED
    BY <1>4, <2>1, <2>2, <2>3 DEF Nested
<1>12. Begun'
  <2> SUFFICES ASSUME NEW u \in Types, cache'[u] = "resolving"
               PROVE  /\ Len(attrs'[u]) <= Len(dictionary[u])
                      /\ \A i \in DOMAIN attrs'[u] :
                           attrs'[u][i] = dictionary[u][i] /\ attrs'[u][i] \in Resolved \cup {"scalar"}
    BY <1>7 DEF Begun
  <2>1. CASE u = t
    <3>1. attrs'[u] = <<>> /\ Len(dictionary[u]) \in Nat
      BY <1>6, <2>1, LenProperties DEF TypesInv, TypesOK
    <3> QED
      BY <3>1
  <2>2. CASE u # t
    BY <1>6, <2>2 DEF TypesInv, Begun
  <2> QED
    BY <2>1, <2>2
<1>13. CacheWhole'
  <2>1. CacheWhole /\ {} \in SUBSET Types /\ Resolved' = Resolved \cup {}
    BY <1>7 DEF TypesInv
  <2>2. \A u \in Resolved : attrs'[u] = attrs[u]
    BY <1>6 DEF Resolved
  <2> QED
    BY <2>1, <2>2, WholeStep
<1>14. Answers'
  BY <1>7, WithinStays DEF TypesInv, Answers
<1> QED
  BY <1>8, <1>9, <1>11, <1>12, <1>13, <1>14 DEF TypesInv

\* A lookup begins the reading of its type, or finds it complete.
LEMMA LookUpInv == ASSUME TypesInv, NEW t \in Types \ {XmlType}, LookUp(t) PROVE TypesInv'
<1>1. CASE StartReading(t)
  BY <1>1, StartInv DEF LookUp, StartReading
<1>2. CASE cache[t] = "resolved" /\ answer' = "found" /\ UNCHANGED <<cache, attrs, frames>>
  <2>1. Quiet /\ asked' = t /\ UNCHANGED dictionary
    BY DEF LookUp
  <2>2. Resolved' = Resolved /\ t \in Resolved
    BY <1>2 DEF Resolved
  <2>3. TypesOK' /\ Stacked' /\ Nested'
    BY <1>2, <2>1 DEF TypesInv, TypesOK, Stacked, Nested, Quiet
  <2>4. Begun'
    BY <1>2, <2>1, <2>2 DEF TypesInv, Begun
  <2>5. CacheWhole'
    BY <1>2, <2>1, <2>2, WholeStep, TypesAssumption DEF TypesInv
  <2> QED
    BY <1>2, <2>1, <2>2, <2>3, <2>4, <2>5 DEF TypesInv, Answers
<1> QED
  BY <1>1, <1>2 DEF LookUp

\* The innermost type is complete, and becomes the next attribute of the one around it.
LEMMA CompleteInv == ASSUME TypesInv, Complete PROVE TypesInv'
<1> DEFINE R == Resolving
           n == Len(frames)
<1>1. /\ ~Quiet /\ ~IsMissing /\ ~HasNext
      /\ cache' = [cache EXCEPT ![R] = "resolved"] /\ frames' = Front(frames)
      /\ UNCHANGED <<dictionary, asked>>
  BY DEF Complete
<1>2. /\ n \in DOMAIN frames /\ DOMAIN frames = 1 .. n /\ R = frames[n] /\ R \in Types \ {XmlType}
      /\ cache[R] = "resolving" /\ attrs[R] \in Seq(Attributes) /\ DOMAIN attrs[R] = 1 .. Len(attrs[R])
      /\ dictionary[R] \in Seq(Attributes)
  BY <1>1, Innermost
<1>3. n \in Nat /\ n # 0
  <2>1. n \in Nat
    BY LenProperties DEF TypesInv, TypesOK
  <2> QED
    BY <1>2, <2>1
<1>4. \A i \in 1 .. n : frames[i] \in Types \ {XmlType} /\ (i # n => frames[i] # R)
  <2>1. \A i \in 1 .. n : frames[i] \in Types \ {XmlType}
    BY <1>2 DEF TypesInv, TypesOK
  <2>2. \A i, j \in 1 .. n : frames[i] = frames[j] => i = j
    BY <1>2 DEF TypesInv, Stacked
  <2> QED
    BY <1>2, <2>1, <2>2
<1>5. /\ frames' \in Seq(Types \ {XmlType}) /\ Len(frames') = n - 1 /\ DOMAIN frames' = 1 .. n - 1
      /\ \A i \in 1 .. n - 1 : frames'[i] = frames[i]
  <2>1. frames' = SubSeq(frames, 1, n - 1) /\ frames \in Seq(Types \ {XmlType})
    BY <1>1 DEF Front, TypesInv, TypesOK
  <2>2. /\ SubSeq(frames, 1, n - 1) \in Seq(Types \ {XmlType})
        /\ Len(SubSeq(frames, 1, n - 1)) = IF 1 <= n - 1 THEN (n - 1) - 1 + 1 ELSE 0
        /\ \A i \in 1 .. (n - 1) - 1 + 1 : SubSeq(frames, 1, n - 1)[i] = frames[1 + i - 1]
    <3>1. \A i \in 1 .. n - 1 : frames[i] \in Types \ {XmlType}
      BY <1>3, <1>4
    <3> QED
      BY <1>3, <3>1, SubSeqProperties
  <2>3. frames' \in Seq(Types \ {XmlType}) /\ Len(frames') = n - 1
    <3> HIDE DEF n
    <3>1. (IF 1 <= n - 1 THEN (n - 1) - 1 + 1 ELSE 0) = n - 1
      BY <1>3
    <3>2. Len(frames') = IF 1 <= n - 1 THEN (n - 1) - 1 + 1 ELSE 0
      BY <2>1, <2>2
    <3> QED
      BY <2>1, <2>2, <3>1, <3>2
  <2>4. DOMAIN frames' = 1 .. n - 1
    BY <2>3, LenProperties
  <2>5. \A i \in 1 .. n - 1 : frames'[i] = frames[i]
    BY <1>3, <2>1, <2>2
  <2> QED
    BY <2>3, <2>4, <2>5
<1>6. attrs[R] = dictionary[R] /\ AttrsOf(R) \subseteq Resolved \cup {"scalar"}
  <2>1. /\ Len(attrs[R]) <= Len(dictionary[R])
        /\ \A i \in DOMAIN attrs[R] :
             attrs[R][i] = dictionary[R][i] /\ attrs[R][i] \in Resolved \cup {"scalar"}
    BY <1>2 DEF TypesInv, Begun
  <2>2. Len(attrs[R]) \in Nat /\ Len(dictionary[R]) \in Nat /\ ~(Len(attrs[R]) < Len(dictionary[R]))
    BY <1>1, <1>2, LenProperties DEF HasNext
  <2>3. Len(attrs[R]) = Len(dictionary[R])
    BY <2>1, <2>2
  <2>4. attrs[R] = dictionary[R]
    <3> DEFINE s == attrs[R]
               d == dictionary[R]
    <3>1. /\ s \in Seq(Attributes) /\ d \in Seq(Attributes) /\ Len(s) = Len(d)
          /\ \A i \in 1 .. Len(s) : s[i] = d[i]
      BY <1>2, <2>1, <2>3
    <3> HIDE DEF s, d
    <3>2. s = d
      BY <3>1, SeqEqual
    <3> QED
      BY <3>2 DEF s, d
  <2> QED
    BY <2>1, <2>4 DEF AttrsOf, Range
<1>7. R \notin Below[R]
  <2>1. Closed(Resolved) /\ Resolved \in SUBSET Types /\ R \notin Resolved
    BY <1>2, ResolvedClosed DEF TypesInv, Resolved
  <2>2. AttrsOf(R) \cap Types \subseteq Resolved
    BY <1>6, TypesAssumption
  <2>3. Within(AttrsOf(R) \cap Types) \subseteq Resolved
    BY <2>1, <2>2, WithinLeast
  <2> QED
    BY <1>2, <2>1, <2>3 DEF Below
<1>8. Resolved' = Resolved \cup {R} /\ \A t \in Types : t # R => cache'[t] = cache[t]
  BY <1>1, <1>2 DEF TypesInv, TypesOK, Resolved
<1>9. cache' \in [Types -> {"absent", "resolving", "resolved"}] /\ cache'[R] = "resolved"
  BY <1>1, <1>2 DEF TypesInv, TypesOK
<1>10. Stacked'
  <2>1. ASSUME NEW t \in Types PROVE cache'[t] = "resolving" <=> \E i \in 1 .. n - 1 : frames'[i] = t
    <3>1. cache[t] = "resolving" <=> \E i \in 1 .. n : frames[i] = t
      BY <1>2 DEF TypesInv, Stacked
    <3>2. \A i \in 1 .. n : i \in 1 .. n - 1 \/ i = n
      BY <1>3
    <3>3. \A i \in 1 .. n - 1 : i \in 1 .. n /\ i # n
      BY <1>3
    <3>4. CASE t = R
      BY <1>4, <1>5, <1>9, <3>3, <3>4
    <3>5. CASE t # R
      BY <1>2, <1>5, <1>8, <3>1, <3>2, <3>3, <3>5
    <3> QED
      BY <3>4, <3>5
  <2>2. ASSUME NEW i \in 1 .. n - 1, NEW j \in 1 .. n - 1, frames'[i] = frames'[j] PROVE i = j
    <3>1. i \in 1 .. n /\ j \in 1 .. n /\ frames[i] = frames[j]
      BY <1>3, <1>5, <2>2
    <3> QED
      BY <1>2, <3>1 DEF TypesInv, Stacked
  <2>3. frames' # <<>> => frames'[1] = asked'
    <3>1. frames[1] = asked
      BY <1>1 DEF TypesInv, Stacked, Quiet
    <3>2. frames' # <<>> => 1 \in 1 .. n - 1
      BY <1>3, <1>5, EmptySeq
    <3> QED
      BY <1>1, <1>5, <3>1, <3>2
  <2> QED
    BY <1>5, <2>1, <2>2, <2>3 DEF Stacked
<1>11. Below' = Below
  BY <1>1, WithinStays
<1>12. CASE n = 1
  <2>1. answer' = "found" /\ attrs' = attrs /\ DOMAIN frames' = {} /\ asked = R
    BY <1>1, <1>2, <1>3, <1>5, <1>12 DEF Complete, TypesInv, Stacked, Quiet
  <2>2. \A t \in Types : cache'[t] # "resolving"
    BY <1>10, <2>1 DEF Stacked
  <2>3. TypesOK'
    BY <1>1, <1>5, <1>9, <2>1 DEF TypesInv, TypesOK
  <2>6. Nested' /\ Begun'
    BY <2>1, <2>2 DEF Nested, Begun
  <2>4. CacheWhole'
    <3>1. CacheWhole /\ UNCHANGED dictionary /\ {R} \in SUBSET Types /\ \A t \in Resolved : attrs'[t] = attrs[t]
      BY <1>1, <1>2, <2>1 DEF TypesInv
    <3>2. \A t \in {R} : /\ t # XmlType => attrs'[t] = dictionary[t]
                         /\ AttrsOf(t) \subseteq Resolved \cup {"scalar"}
                         /\ t \notin Below[t]
      BY <1>6, <1>7, <2>1
    <3> HIDE DEF R
    <3> QED
      BY <1>8, <3>1, <3>2, WholeStep
  <2>5. Answers'
    BY <1>1, <1>8, <2>1 DEF Answers
  <2> QED
    BY <1>10, <2>3, <2>4, <2>5, <2>6 DEF TypesInv
<1>13. CASE n # 1
  <2> DEFINE Q == frames[n - 1]
             k == Len(attrs[Q])
  <2>1. n - 1 \in 1 .. n /\ n - 1 \in 1 .. n - 1 /\ (n - 1) + 1 = n /\ n - 1 # n
    <3>1. n \in Nat /\ n # 0 /\ n # 1
      BY <1>3, <1>13
    <3> HIDE DEF n
    <3> QED
      BY <3>1
  <2>2. Q \in Types /\ Q # R /\ Q # XmlType /\ cache[Q] = "resolving"
    BY <1>2, <1>4, <2>1, TypesAssumption DEF TypesInv, Stacked
  <2>3. attrs' = [attrs EXCEPT ![Q] = Append(attrs[Q], R)] /\ answer' = answer
    BY <1>13 DEF Complete
  <2>4. k < Len(dictionary[Q]) /\ dictionary[Q][k + 1] = R
    BY <1>2, <2>1 DEF TypesInv, Nested
  <2>5. attrs[Q] \in Seq(Attributes) /\ R \in Attributes /\ k \in Nat
    BY <1>2, <2>2, LenProperties DEF TypesInv, TypesOK, Attributes
  <2>6. Len(dictionary[Q]) \in Nat
    <3>1. dictionary[Q] \in Seq(Attributes) \/ dictionary[Q] = <<"missing">>
      BY <2>2 DEF TypesInv, TypesOK
    <3>2. Len(<<"missing">>) = 1
      OBVIOUS
    <3> QED
      BY <3>1, <3>2, LenProperties
  <2>7. /\ attrs'[Q] = Append(attrs[Q], R) /\ attrs'[Q] \in Seq(Attributes) /\ Len(attrs'[Q]) = k + 1
        /\ DOMAIN attrs'[Q] = 1 .. k + 1 /\ DOMAIN attrs[Q] = 1 .. k
        /\ \A i \in 1 .. k : attrs'[Q][i] = attrs[Q][i]
        /\ attrs'[Q][k + 1] = R
        /\ \A t \in Types : t # Q => attrs'[t] = attrs[t]
    <3>1. attrs'[Q] = Append(attrs[Q], R) /\ \A t \in Types : t # Q => attrs'[t] = attrs[t]
      BY <2>2, <2>3 DEF TypesInv, TypesOK
    <3> QED
      BY <2>5, <3>1, AppendProperties, LenProperties
  <2> HIDE DEF k
  <2>8. TypesOK'
    BY <1>1, <1>5, <1>9, <2>3, <2>5, <2>7 DEF TypesInv, TypesOK
  <2>9. Nested'
    <3>1. ASSUME NEW i \in 1 .. n - 1, i + 1 \in 1 .. n - 1
          PROVE  /\ Len(attrs'[frames'[i]]) < Len(dictionary[frames'[i]])
                 /\ dictionary[frames'[i]][Len(attrs'[frames'[i]]) + 1] = frames'[i + 1]
      <4>1. i \in 1 .. n /\ i + 1 \in 1 .. n /\ i # n - 1
        BY <1>3, <3>1
      <4>2. frames[i] \in Types /\ frames[i] # Q
        BY <1>2, <1>4, <2>1, <4>1 DEF TypesInv, Stacked
      <4>3. frames'[i] = frames[i] /\ frames'[i + 1] = frames[i + 1] /\ attrs'[frames[i]] = attrs[frames[i]]
        BY <1>5, <2>7, <3>1, <4>2
      <4> QED
        BY <1>2, <4>1, <4>3 DEF TypesInv, Nested
    <3>2. ASSUME NEW i \in 1 .. n - 1, NEW j \in 1 .. n - 1, i < j PROVE frames'[j] \in Below[frames'[i]]
      <4>1. i \in 1 .. n /\ j \in 1 .. n
        BY <1>3
      <4> QED
        BY <1>2, <1>5, <3>2, <4>1 DEF TypesInv, Nested
    <3> QED
      BY <1>1, <1>5, <1>11, <3>1, <3>2 DEF Nested
  <2>10. Begun'
    <3> SUFFICES ASSUME NEW t \in Types, cache'[t] = "resolving"
                 PROVE  /\ Len(attrs'[t]) <= Len(dictionary[t])
                        /\ \A i \in DOMAIN attrs'[t] :
                             attrs'[t][i] = dictionary[t][i] /\ attrs'[t][i] \in Resolved' \cup {"scalar"}
      BY <1>1 DEF Begun
    <3>1. cache[t] = "resolving"
      BY <1>8, <1>9
    <3>2. /\ Len(attrs[t]) <= Len(dictionary[t])
          /\ \A i \in DOMAIN attrs[t] :
               attrs[t][i] = dictionary[t][i] /\ attrs[t][i] \in Resolved \cup {"scalar"}
      BY <3>1 DEF TypesInv, Begun
    <3>3. CASE t = Q
      <4>1. k + 1 <= Len(dictionary[Q])
        BY <2>4, <2>5, <2>6 DEF k
      <4>2. \A i \in 1 .. k : attrs'[Q][i] = dictionary[Q][i] /\ attrs'[Q][i] \in Resolved' \cup {"scalar"}
        BY <1>8, <2>7, <3>2, <3>3
      <4>3. attrs'[Q][k + 1] = dictionary[Q][k + 1] /\ attrs'[Q][k + 1] \in Resolved' \cup {"scalar"}
        BY <1>8, <2>4, <2>7
      <4>4. \A i \in 1 .. k + 1 : i \in 1 .. k \/ i = k + 1
        BY <2>5 DEF k
      <4> QED
        BY <2>7, <3>3, <4>1, <4>2, <4>3, <4>4
    <3>4. CASE t # Q
      BY <1>8, <2>7, <3>2, <3>4
    <3> QED
      BY <3>3, <3>4
  <2>11. CacheWhole'
    <3>1. \A t \in Resolved : attrs'[t] = attrs[t]
      BY <2>2, <2>7 DEF Resolved
    <3>2. attrs'[R] = dictionary[R]
      BY <1>2, <1>6, <2>2, <2>7
    <3>3. CacheWhole /\ UNCHANGED dictionary /\ {R} \in SUBSET Types
      BY <1>1, <1>2 DEF TypesInv
    <3>4. \A t \in {R} : /\ t # XmlType => attrs'[t] = dictionary[t]
                         /\ AttrsOf(t) \subseteq Resolved \cup {"scalar"}
                         /\ t \notin Below[t]
      BY <1>6, <1>7, <3>2
    <3> HIDE DEF R
    <3> QED
      BY <1>8, <3>1, <3>3, <3>4, WholeStep
  <2>12. Answers'
    BY <1>1, <1>8, <2>3, WithinStays DEF TypesInv, Answers
  <2> QED
    BY <1>10, <2>8, <2>9, <2>10, <2>11, <2>12 DEF TypesInv
<1> QED
  BY <1>12, <1>13

---------------------------------------------------------------------------
(* The theorems.                                                           *)

\* objecttype.go: in every state of the type cache, what is cached as complete is
\* closed under attributes, and what is being read begins what the dictionary says.
THEOREM TypesInvariance == TypesSpec => []TypesInv
<1>1. TypesInit => TypesInv
  BY TypesInitInv
<1>2. TypesInv /\ [TypesNext]_typesVars => TypesInv'
  <2> SUFFICES ASSUME TypesInv, [TypesNext]_typesVars PROVE TypesInv'
    OBVIOUS
  <2>1. ASSUME NEW t \in Types \ {XmlType}, LookUp(t) PROVE TypesInv'
    BY <2>1, LookUpInv
  <2>2. CASE QueryFails
    BY <2>2, QueryFailsInv
  <2>3. CASE NotFound
    BY <2>3, NotFoundInv
  <2>4. CASE ScalarAttr
    BY <2>4, AttachInv DEF ScalarAttr
  <2>5. CASE UnsupportedAttr
    BY <2>5, UnsupportedInv
  <2>6. CASE KnownAttr
    BY <2>6, AttachInv DEF KnownAttr
  <2>7. CASE NestedAttr
    <3>1. HasNext /\ NextAttr \in Types /\ StartReading(NextAttr) /\ UNCHANGED <<dictionary, asked, answer>>
      BY <2>7 DEF NestedAttr
    <3> QED
      BY <3>1, StartInv
  <2>8. CASE RecursiveAttr
    BY <2>8, RecursiveInv
  <2>9. CASE Complete
    BY <2>9, CompleteInv
  <2>10. CASE UNCHANGED typesVars
    <3>1. Below' = Below /\ Resolved' = Resolved
      BY <2>10, WithinStays DEF typesVars, Resolved
    <3>2. TypesOK' /\ Stacked' /\ Nested' /\ Begun'
      BY <2>10, <3>1 DEF typesVars, TypesInv, TypesOK, Stacked, Nested, Begun
    <3>3. CacheWhole'
      BY <2>10, <3>1, WholeStep, TypesAssumption DEF typesVars, TypesInv
    <3>4. Answers'
      BY <2>10, <3>1, WithinStays DEF typesVars, TypesInv, Answers
    <3> QED
      BY <3>2, <3>3, <3>4 DEF TypesInv
  <2> QED
    BY <2>1, <2>2, <2>3, <2>4, <2>5, <2>6, <2>7, <2>8, <2>9, <2>10 DEF TypesNext
<1> QED
  BY <1>1, <1>2, PTL DEF TypesSpec

\* objecttype.go: no lookup, however it failed before, leaves a type in the cache
\* that is not whole: all of it, and of what it is made of, as the dictionary says.
THEOREM MetadataIsWhole == TypesSpec => []TypesAreWhole
<1>1. TypesInv => TypesAreWhole
  BY TypesAreWholeNow
<1> QED
  BY <1>1, TypesInvariance, PTL

---------------------------------------------------------------------------
(***************************************************************************)
(* OPTIONS                                                                 *)
(***************************************************************************)

\* What the settings are before the first name of the maps is read.
Rest == [Unset EXCEPT !.tls = TlsOf(request.uri),
                      !.service_name = request.uri.service, !.sid = request.uri.sid,
                      !.user = request.uri.user, !.protocols = request.uri.addresses]

\* The names read so far.
ReadParams == IF step = "params" THEN DOMAIN request.params \ unread ELSE DOMAIN request.params
ReadOptions == CASE step = "params" -> {}
                 [] step = "options" -> DOMAIN request.options \ unread
                 [] OTHER -> DOMAIN request.options

\* What is being read, and how far.
OptionsOK ==
  /\ request \in Requests
  /\ step \in {"uri", "params", "options", "done", "refused"}
  /\ step \in {"params", "options", "done"} => IsReadable(request.uri)
  /\ step = "params" => unread \subseteq DOMAIN request.params
  /\ step = "options" => unread \subseteq DOMAIN request.options
  /\ DOMAIN settings = Settable \cup {"protocols"}

\* What has been read is known and valid,
ReadValid ==
  step \in {"params", "options", "done"} =>
    /\ \A n \in ReadParams : n # "unknown" /\ IsValid(n, request.params[n])
    /\ \A n \in ReadOptions : IsValid(n, request.options[n])

\* and each setting is that of the option read, or else of the parameter read,
\* or else of the rest of the connect string.
ReadSettings ==
  step \in {"params", "options", "done"} =>
    /\ \A s \in Settable :
         /\ s \in ReadOptions => settings[s] = request.options[s]
         /\ s \notin ReadOptions =>
              /\ \A n \in ReadParams : Setting(n) = s => settings[s] = request.params[n]
              /\ (\A n \in ReadParams : Setting(n) # s) => settings[s] = Rest[s]
    /\ settings.protocols = IF "host" \in ReadOptions THEN <<"">> ELSE request.uri.addresses

\* A configuration is made of complete settings.
Built ==
  step = "done" =>
    /\ IsComplete /\ settings.wallet # "unreadable"
    /\ config = [protocols |-> [a \in DOMAIN settings.protocols |-> IF Tls THEN "tcps" ELSE settings.protocols[a]],
                 tls |-> Tls, encryption |-> Encryption, checksum |-> Checksum,
                 service |-> settings.service_name, sid |-> settings.sid,
                 batch |-> settings.batch_size, prefetch |-> Prefetch]

\* Only a request that is not acceptable is refused.
Refused == step = "refused" => ~IsAcceptable

OptionsInv == OptionsOK /\ ReadValid /\ ReadSettings /\ Built /\ Refused

---------------------------------------------------------------------------
(* Names.                                                                  *)

\* A request is one of those described.
LEMMA OfRequest ==
  ASSUME OptionsInv
  PROVE  /\ request.uri \in [form : STRING, tls : BOOLEAN, service : STRING, sid : STRING, user : STRING,
                             addresses : Seq({"", "tcp", "tcps"})]
         /\ IsNamed(request.params, ParamNames) /\ IsNamed(request.options, OptionNames)
         /\ \A m, n \in DOMAIN request.params : Setting(m) = Setting(n) => m = n
         /\ "tcps" \in Range(request.uri.addresses) =>
              /\ \A n \in DOMAIN request.params : Setting(n) = "tls" => request.params[n] = "on"
              /\ "tls" \in DOMAIN request.options => request.options["tls"] = "on"
BY OptionsAssumption DEF OptionsInv, OptionsOK

\* An option's name is that of a setting, a parameter's means one.
LEMMA SettingOf ==
  /\ \A n \in Settable : Setting(n) = n
  /\ \A n \in ParamNames \ {"unknown"} : Setting(n) \in Settable
BY DEF Setting, Settable, ParamNames

\* The settings of the rest of the connect string, one by one.
LEMMA RestOf ==
  /\ DOMAIN Rest = Settable \cup {"protocols"}
  /\ Rest.tls = TlsOf(request.uri) /\ Rest.wallet = "" /\ Rest.nne = "" /\ Rest.nne_checksum = ""
  /\ Rest.service_name = request.uri.service /\ Rest.sid = request.uri.sid
  /\ Rest.user = request.uri.user /\ Rest.token = ""
  /\ Rest.batch_size = DefaultBatch /\ Rest.prefetch_rows = 0
  /\ Rest.protocols = request.uri.addresses
BY DEF Rest, Unset, Settable

---------------------------------------------------------------------------
(* The property from the invariant.                                        *)

\* Once all is read, each setting is what was asked for.
LEMMA SettingsAreAsked ==
  ASSUME OptionsInv, ReadParams = DOMAIN request.params, ReadOptions = DOMAIN request.options,
         step \in {"options", "done"}, NEW s \in Settable
  PROVE  settings[s] = Asked(s, Rest[s])
<1>1. CASE s \in DOMAIN request.options
  BY <1>1 DEF OptionsInv, ReadSettings, Asked
<1>2. CASE s \notin DOMAIN request.options
  <2> DEFINE stated == {n \in DOMAIN request.params : Setting(n) = s}
  <2>1. CASE stated = {}
    <3>1. settings[s] = Rest[s]
      BY <1>2, <2>1 DEF OptionsInv, ReadSettings
    <3> QED
      BY <1>2, <2>1, <3>1 DEF Asked
  <2>2. CASE stated # {}
    <3>1. (CHOOSE n \in stated : TRUE) \in stated
      BY <2>2
    <3>2. \A n \in stated : settings[s] = request.params[n]
      BY <1>2 DEF OptionsInv, ReadSettings
    <3>3. settings[s] = request.params[CHOOSE n \in stated : TRUE]
      BY <3>1, <3>2
    <3> QED
      BY <1>2, <2>2, <3>3 DEF Asked
  <2> QED
    BY <2>1, <2>2
<1> QED
  BY <1>1, <1>2

\* All the settings at once.
LEMMA SettingsAre ==
  ASSUME OptionsInv, ReadParams = DOMAIN request.params, ReadOptions = DOMAIN request.options,
         step \in {"options", "done"}
  PROVE  /\ settings.tls = Asked("tls", TlsOf(request.uri)) /\ settings.wallet = Asked("wallet", "")
         /\ settings.nne = Asked("nne", "") /\ settings.nne_checksum = Asked("nne_checksum", "")
         /\ settings.service_name = Asked("service_name", request.uri.service)
         /\ settings.sid = Asked("sid", request.uri.sid)
         /\ settings.user = Asked("user", request.uri.user) /\ settings.token = Asked("token", "")
         /\ settings.batch_size = Asked("batch_size", DefaultBatch)
         /\ settings.prefetch_rows = Asked("prefetch_rows", 0)
         /\ settings.protocols = IF "host" \in DOMAIN request.options THEN <<"">> ELSE request.uri.addresses
<1>1. \A s \in Settable : settings[s] = Asked(s, Rest[s])
  BY SettingsAreAsked
<1>2. {"tls", "wallet", "nne", "nne_checksum", "service_name", "sid", "user", "token", "batch_size", "prefetch_rows"} \subseteq Settable
  BY DEF Settable
<1>3. /\ settings.tls = Asked("tls", Rest.tls) /\ settings.wallet = Asked("wallet", Rest.wallet)
      /\ settings.nne = Asked("nne", Rest.nne) /\ settings.nne_checksum = Asked("nne_checksum", Rest.nne_checksum)
      /\ settings.service_name = Asked("service_name", Rest.service_name)
      /\ settings.sid = Asked("sid", Rest.sid)
      /\ settings.user = Asked("user", Rest.user) /\ settings.token = Asked("token", Rest.token)
      /\ settings.batch_size = Asked("batch_size", Rest.batch_size)
      /\ settings.prefetch_rows = Asked("prefetch_rows", Rest.prefetch_rows)
  BY <1>1, <1>2
<1> QED
  BY <1>3, RestOf DEF OptionsInv, ReadSettings

\* What is asked for of rows is a number, of which only a parameter or an option may be 0.
LEMMA RowsAreNumbers ==
  ASSUME OptionsInv, NEW s \in {"batch_size", "prefetch_rows"}, NEW d \in Nat
  PROVE  Asked(s, d) \in Nat
<1>1. s \in Settable /\ IsRows(s) /\ \A n : Setting(n) = s => n = s
  BY DEF Settable, IsRows, Setting
<1>2. /\ \A n \in DOMAIN request.params : IsRows(n) => request.params[n] \in Nat
      /\ \A n \in DOMAIN request.options : IsRows(n) => request.options[n] \in Nat
  BY OfRequest DEF IsNamed
<1>3. CASE s \in DOMAIN request.options
  BY <1>1, <1>2, <1>3 DEF Asked
<1>4. CASE s \notin DOMAIN request.options
  <2> DEFINE stated == {n \in DOMAIN request.params : Setting(n) = s}
  <2>1. CASE stated # {}
    <3>1. (CHOOSE n \in stated : TRUE) \in stated
      BY <2>1
    <3>2. \A n \in stated : request.params[n] \in Nat
      BY <1>1, <1>2
    <3> HIDE DEF stated
    <3>3. request.params[CHOOSE n \in stated : TRUE] \in Nat
      BY <3>1, <3>2
    <3> QED
      BY <1>4, <2>1, <3>3 DEF Asked, stated
  <2> QED
    BY <1>4, <2>1 DEF Asked
<1> QED
  BY <1>3, <1>4

\* A request all of which is read and valid is acceptable if its settings are complete.
LEMMA Acceptable ==
  ASSUME OptionsInv, ReadParams = DOMAIN request.params, ReadOptions = DOMAIN request.options,
         step \in {"options", "done"}
  PROVE  IsAcceptable <=> IsComplete /\ settings.wallet # "unreadable"
<1>1. /\ IsReadable(request.uri)
      /\ "unknown" \notin DOMAIN request.params
      /\ \A n \in DOMAIN request.params : IsValid(n, request.params[n])
      /\ \A n \in DOMAIN request.options : IsValid(n, request.options[n])
  BY DEF OptionsInv, OptionsOK, ReadValid
<1>2. settings.protocols # <<>> <=> request.uri.addresses # <<>> \/ "host" \in DOMAIN request.options
  <2>1. <<"">> # <<>>
    OBVIOUS
  <2>2. settings.protocols = IF "host" \in DOMAIN request.options THEN <<"">> ELSE request.uri.addresses
    BY SettingsAre
  <2> QED
    BY <2>1, <2>2
<1> QED
  BY <1>1, <1>2, SettingsAre DEF IsAcceptable, IsComplete

\* TLS is on for all addresses or for none.
LEMMA AllOrNone ==
  ASSUME OptionsInv, step = "done"
  PROVE  /\ Tls = AskedTls
         /\ Tls => Range(config.protocols) = {"tcps"}
         /\ ~Tls => "tcps" \notin Range(config.protocols)
         /\ Len(config.protocols) = Len(settings.protocols)
<1>1. ReadParams = DOMAIN request.params /\ ReadOptions = DOMAIN request.options
  BY DEF ReadParams, ReadOptions
<1> DEFINE ps == settings.protocols
<1>2. config.protocols = [a \in DOMAIN ps |-> IF Tls THEN "tcps" ELSE ps[a]] /\ ps # <<>>
  <2>1. config = [protocols |-> [a \in DOMAIN settings.protocols |-> IF Tls THEN "tcps" ELSE settings.protocols[a]],
                  tls |-> Tls, encryption |-> Encryption, checksum |-> Checksum,
                  service |-> settings.service_name, sid |-> settings.sid,
                  batch |-> settings.batch_size, prefetch |-> Prefetch]
    BY DEF OptionsInv, Built
  <2>2. settings.protocols # <<>>
    BY DEF OptionsInv, Built, IsComplete
  <2> QED
    BY <2>1, <2>2
<1>3. ps \in Seq({"", "tcp", "tcps"}) /\ DOMAIN ps = 1 .. Len(ps) /\ Len(ps) \in Nat /\ Len(ps) # 0
  <2>1. request.uri.addresses \in Seq({"", "tcp", "tcps"})
    BY OfRequest
  <2>2. <<"">> \in Seq({"", "tcp", "tcps"})
    OBVIOUS
  <2>3. ps = <<"">> \/ ps = request.uri.addresses
    BY <1>1, SettingsAre
  <2> HIDE DEF ps
  <2>4. ps \in Seq({"", "tcp", "tcps"})
    BY <2>1, <2>2, <2>3
  <2> QED
    BY <1>2, <2>4, LenProperties, EmptySeq
<1>4. Len(config.protocols) = Len(ps) /\ DOMAIN config.protocols = DOMAIN ps
  <2> DEFINE n == Len(ps)
             f == [a \in 1 .. n |-> IF Tls THEN "tcps" ELSE ps[a]]
  <2>1. config.protocols = f /\ DOMAIN ps = 1 .. n /\ n \in Nat
    BY <1>2, <1>3
  <2> HIDE DEF n, ps
  <2>2. DOMAIN f = 1 .. n /\ Len(f) = n
    BY <2>1
  <2> HIDE DEF f
  <2> QED
    BY <2>1, <2>2 DEF n
<1>5. Tls = AskedTls
  BY <1>1, SettingsAre DEF Tls, AskedTls
<1>6. CASE Tls
  <2>1. \A a \in DOMAIN ps : config.protocols[a] = "tcps"
    BY <1>2, <1>6
  <2>2. 1 \in DOMAIN ps
    <3> DEFINE n == Len(ps)
    <3>1. DOMAIN ps = 1 .. n /\ n \in Nat /\ n # 0
      BY <1>3
    <3> HIDE DEF n, ps
    <3>2. 1 \in 1 .. n
      BY <3>1
    <3> QED
      BY <3>1, <3>2
  <2> QED
    BY <1>4, <1>5, <1>6, <2>1, <2>2 DEF Range
<1>7. CASE ~Tls
  <2>1. \A a \in DOMAIN ps : config.protocols[a] = ps[a]
    BY <1>2, <1>7
  <2>2. "tcps" \notin Range(ps)
    <3>1. CASE "host" \in DOMAIN request.options
      <4>1. ps = <<"">>
        BY <1>1, <3>1, SettingsAre
      <4>2. \A x \in DOMAIN <<"">> : <<"">>[x] # "tcps"
        <5>1. DOMAIN <<"">> = 1 .. 1 /\ <<"">>[1] = "" /\ \A x \in 1 .. 1 : x = 1
          OBVIOUS
        <5>2. \A x \in DOMAIN <<"">> : <<"">>[x] = ""
          BY <5>1
        <5> QED
          BY <5>2
      <4> QED
        BY <4>1, <4>2 DEF Range
    <3>2. CASE "host" \notin DOMAIN request.options
      <4>1. ps = request.uri.addresses
        BY <1>1, <3>2, SettingsAre
      <4>2. ASSUME "tcps" \in Range(request.uri.addresses) PROVE settings.tls = "on"
        <5>1. TlsOf(request.uri) = "on" /\ "tls" \in Settable /\ Rest["tls"] = "on"
          BY <4>2, RestOf DEF TlsOf, Settable
        <5>2. /\ "tls" \in ReadOptions => settings["tls"] = request.options["tls"]
              /\ "tls" \notin ReadOptions =>
                    /\ \A n \in ReadParams : Setting(n) = "tls" => settings["tls"] = request.params[n]
                    /\ (\A n \in ReadParams : Setting(n) # "tls") => settings["tls"] = Rest["tls"]
          BY <5>1 DEF OptionsInv, ReadSettings
        <5>3. /\ \A n \in DOMAIN request.params : Setting(n) = "tls" => request.params[n] = "on"
              /\ "tls" \in DOMAIN request.options => request.options["tls"] = "on"
          BY <4>2, OfRequest
        <5> QED
          BY <1>1, <5>1, <5>2, <5>3
      <4> QED
        BY <1>7, <4>1, <4>2 DEF Tls
    <3> QED
      BY <3>1, <3>2
  <2> QED
    BY <1>4, <1>5, <1>7, <2>1, <2>2 DEF Range
<1> QED
  BY <1>4, <1>5, <1>6, <1>7

\* The property from the invariant.
LEMMA ExplicitWinsNow == ASSUME OptionsInv PROVE ExplicitWins
<1>1. ASSUME step = "done"
      PROVE  /\ config.tls = AskedTls
             /\ config.tls => Range(config.protocols) = {"tcps"}
             /\ ~ config.tls => "tcps" \notin Range(config.protocols)
             /\ config.encryption = AskedLevel("nne", IF AskedTls THEN "rejected" ELSE "accepted")
             /\ config.checksum = AskedLevel("nne_checksum", config.encryption)
             /\ config.service = Asked("service_name", request.uri.service)
             /\ config.sid = Asked("sid", request.uri.sid)
             /\ Len(config.protocols) = (IF "host" \in DOMAIN request.options THEN 1 ELSE Len(request.uri.addresses))
             /\ config.batch = Asked("batch_size", DefaultBatch)
             /\ config.prefetch = Asked("prefetch_rows", config.prefetch)
             /\ config.prefetch > config.batch => Asked("prefetch_rows", 0) > 0
             /\ IsAcceptable
  <2>1. ReadParams = DOMAIN request.params /\ ReadOptions = DOMAIN request.options
    BY <1>1 DEF ReadParams, ReadOptions
  <2>2. /\ config.tls = Tls /\ config.encryption = Encryption /\ config.checksum = Checksum
        /\ config.service = settings.service_name /\ config.sid = settings.sid
        /\ config.batch = settings.batch_size /\ config.prefetch = Prefetch
    BY <1>1 DEF OptionsInv, Built
  <2>3. /\ settings.nne = Asked("nne", "") /\ settings.nne_checksum = Asked("nne_checksum", "")
        /\ settings.service_name = Asked("service_name", request.uri.service)
        /\ settings.sid = Asked("sid", request.uri.sid)
        /\ settings.batch_size = Asked("batch_size", DefaultBatch)
        /\ settings.prefetch_rows = Asked("prefetch_rows", 0)
        /\ settings.protocols = IF "host" \in DOMAIN request.options THEN <<"">> ELSE request.uri.addresses
    BY <1>1, <2>1, SettingsAre
  <2>4. Len(config.protocols) = (IF "host" \in DOMAIN request.options THEN 1 ELSE Len(request.uri.addresses))
    BY <1>1, <2>3, AllOrNone
  <2>5. config.encryption = AskedLevel("nne", IF AskedTls THEN "rejected" ELSE "accepted")
    BY <1>1, <2>2, <2>3, AllOrNone DEF Encryption, AskedLevel
  <2>6. config.checksum = AskedLevel("nne_checksum", config.encryption)
    BY <2>2, <2>3 DEF Checksum, AskedLevel
  <2>7. settings.batch_size \in Nat /\ settings.prefetch_rows \in Nat
    BY <2>3, RowsAreNumbers, OptionsAssumption
  <2>8. config.prefetch > config.batch => settings.prefetch_rows > 0
    <3> DEFINE b == settings.batch_size
               p == settings.prefetch_rows
               m == MaxPrefetch
    <3>1. m \in Nat /\ b \in Nat /\ p \in Nat
      BY <2>7, OptionsAssumption
    <3>2. config.batch = b /\ config.prefetch = IF p # 0 THEN p ELSE IF b > m THEN m ELSE b
      BY <2>2 DEF Prefetch
    <3> HIDE DEF b, p, m
    <3> QED
      BY <3>1, <3>2 DEF p
  <2>9. config.prefetch = Asked("prefetch_rows", config.prefetch)
    <3>1. settings.prefetch_rows # 0 => config.prefetch = settings.prefetch_rows
      BY <2>2 DEF Prefetch
    <3>2. CASE \/ "prefetch_rows" \in DOMAIN request.options
               \/ {n \in DOMAIN request.params : Setting(n) = "prefetch_rows"} # {}
      <4>1. settings.prefetch_rows = Asked("prefetch_rows", config.prefetch)
        BY <2>3, <3>2 DEF Asked
      <4>2. settings.prefetch_rows # 0
        <5>1. \A n : Setting(n) = "prefetch_rows" => n = "prefetch_rows"
          BY DEF Setting
        <5>2. /\ \A n \in ReadParams : IsValid(n, request.params[n])
              /\ \A n \in ReadOptions : IsValid(n, request.options[n])
          BY <1>1 DEF OptionsInv, ReadValid
        <5>3. /\ \A s \in Settable :
                   /\ s \in ReadOptions => settings[s] = request.options[s]
                   /\ s \notin ReadOptions =>
                        \A n \in ReadParams : Setting(n) = s => settings[s] = request.params[n]
          BY <1>1 DEF OptionsInv, ReadSettings
        <5>4. IsValid("prefetch_rows", settings["prefetch_rows"]) /\ "prefetch_rows" \in Settable
          BY <2>1, <3>2, <5>1, <5>2, <5>3 DEF Settable
        <5> QED
          BY <2>7, <5>4 DEF IsValid, IsRows
      <4> QED
        BY <3>1, <4>1, <4>2
    <3>3. CASE /\ "prefetch_rows" \notin DOMAIN request.options
               /\ {n \in DOMAIN request.params : Setting(n) = "prefetch_rows"} = {}
      BY <3>3 DEF Asked
    <3> QED
      BY <3>2, <3>3
  <2>10. IsAcceptable
    BY <1>1, <2>1, Acceptable DEF OptionsInv, Built
  <2> QED
    BY <1>1, <2>2, <2>3, <2>4, <2>5, <2>6, <2>8, <2>9, <2>10, AllOrNone
<1>2. step = "refused" => ~IsAcceptable
  BY DEF OptionsInv, Refused
<1>3. step \in {"done", "refused"} => (step = "done") = IsAcceptable
  <2>1. IsAcceptable \in BOOLEAN
    BY DEF IsAcceptable
  <2> QED
    BY <1>1, <1>2, <2>1
<1> QED
  BY <1>1, <1>3 DEF ExplicitWins

---------------------------------------------------------------------------
(* The steps.                                                              *)

\* Before anything is read nothing is claimed.
LEMMA OptionsInitInv == ASSUME OptionsInit PROVE OptionsInv
<1>1. DOMAIN Unset = Settable \cup {"protocols"}
  BY DEF Unset, Settable
<1> QED
  BY <1>1 DEF OptionsInit, OptionsInv, OptionsOK, ReadValid, ReadSettings, Built, Refused

\* A refusal is right if the request is not acceptable.
LEMMA RefuseInv == ASSUME OptionsInv, RefuseRequest, ~IsAcceptable PROVE OptionsInv'
<1>1. step' = "refused" /\ request' = request /\ unread' = unread /\ settings' = settings
  BY DEF RefuseRequest
<1>2. ~IsAcceptable'
  BY <1>1 DEF IsAcceptable, Asked
<1> QED
  BY <1>1, <1>2 DEF OptionsInv, OptionsOK, ReadValid, ReadSettings, Built, Refused

\* The connect string is refused if it is not readable; the rest of it is read.
LEMMA ReadUriInv == ASSUME OptionsInv, ReadUri PROVE OptionsInv'
<1>1. CASE ~IsReadable(request.uri)
  BY <1>1, RefuseInv DEF ReadUri, IsAcceptable
<1>2. CASE IsReadable(request.uri)
  <2>1. /\ settings' = Rest /\ step' = "params" /\ unread' = DOMAIN request.params
        /\ request' = request /\ config' = config
    BY <1>2 DEF ReadUri, Rest
  <2>2. ReadParams' = {} /\ ReadOptions' = {} /\ Rest' = Rest
    BY <2>1 DEF ReadParams, ReadOptions, Rest, TlsOf
  <2>3. OptionsOK'
    BY <1>2, <2>1, RestOf DEF OptionsInv, OptionsOK, IsReadable
  <2>4. ReadValid' /\ Built' /\ Refused'
    BY <2>1, <2>2 DEF ReadValid, Built, Refused
  <2>5. ReadSettings'
    BY <2>1, <2>2, RestOf DEF ReadSettings
  <2> QED
    BY <2>3, <2>4, <2>5 DEF OptionsInv
<1> QED
  BY <1>1, <1>2

\* A name read: only its setting changes.
LEMMA StoreChanges ==
  ASSUME OptionsInv, NEW name, NEW v, Store(name, v),
         name = "host" \/ Setting(name) \in Settable
  PROVE  /\ DOMAIN settings' = DOMAIN settings
         /\ name = "host" => /\ settings'.protocols = <<"">>
                             /\ \A s \in Settable : settings'[s] = settings[s]
         /\ name # "host" => /\ settings'.protocols = settings.protocols
                             /\ settings'[Setting(name)] = v
                             /\ \A s \in Settable : s # Setting(name) => settings'[s] = settings[s]
<1>1. DOMAIN settings = Settable \cup {"protocols"} /\ "protocols" \notin Settable
  BY DEF OptionsInv, OptionsOK, Settable
<1> QED
  BY <1>1 DEF Store

\* A parameter is refused if it is unknown or not valid; else its setting, which
\* no other parameter means, is that of the parameter.
LEMMA ReadParamInv == ASSUME OptionsInv, ReadParam PROVE OptionsInv'
<1>1. step = "params" /\ unread \subseteq DOMAIN request.params
  BY DEF ReadParam, OptionsInv, OptionsOK
<1>2. PICK name \in unread : IF name = "unknown" THEN RefuseRequest ELSE Read(name, request.params[name])
  BY DEF ReadParam
<1> DEFINE v == request.params[name]
<1>3. CASE name = "unknown"
  BY <1>1, <1>2, <1>3, RefuseInv DEF IsAcceptable
<1>4. CASE name # "unknown" /\ ~IsValid(name, v)
  BY <1>1, <1>2, <1>4, RefuseInv DEF IsAcceptable, Read
<1>5. CASE name # "unknown" /\ IsValid(name, v)
  <2>1. /\ Store(name, v) /\ unread' = unread \ {name} /\ request' = request /\ step' = step /\ config' = config
    BY <1>2, <1>5 DEF Read
  <2>2. Setting(name) \in Settable /\ name # "host"
    <3>1. name \in ParamNames
      BY <1>1, OfRequest DEF IsNamed
    <3> QED
      BY <1>5, <3>1, SettingOf DEF ParamNames, Settable
  <2>3. ReadParams' = ReadParams \cup {name} /\ ReadOptions' = {} /\ ReadOptions = {} /\ Rest' = Rest
    BY <1>1, <2>1 DEF ReadParams, ReadOptions, Rest, TlsOf
  <2>4. /\ DOMAIN settings' = DOMAIN settings /\ settings'.protocols = settings.protocols
        /\ settings'[Setting(name)] = v
        /\ \A s \in Settable : s # Setting(name) => settings'[s] = settings[s]
    BY <2>1, <2>2, StoreChanges
  <2>5. OptionsOK'
    BY <1>1, <2>1, <2>4 DEF OptionsInv, OptionsOK, IsReadable
  <2>6. ReadValid' /\ Built' /\ Refused'
    BY <1>1, <1>5, <2>1, <2>3 DEF OptionsInv, ReadValid, Built, Refused
  <2>7. ReadSettings'
    <3>1. ASSUME NEW s \in Settable
          PROVE  /\ \A n \in ReadParams' : Setting(n) = s => settings'[s] = request.params[n]
                 /\ (\A n \in ReadParams' : Setting(n) # s) => settings'[s] = Rest[s]
      <4>1. /\ \A n \in ReadParams : Setting(n) = s => settings[s] = request.params[n]
            /\ (\A n \in ReadParams : Setting(n) # s) => settings[s] = Rest[s]
        BY <1>1, <2>3 DEF OptionsInv, ReadSettings
      <4>2. CASE s = Setting(name)
        <5>1. \A n \in ReadParams' : Setting(n) = s => n = name
          BY <1>1, <2>3, <4>2, OfRequest DEF ReadParams
        <5> QED
          BY <2>3, <2>4, <4>2, <5>1
      <4>3. CASE s # Setting(name)
        BY <2>3, <2>4, <4>1, <4>3
      <4> QED
        BY <4>2, <4>3
    <3>2. settings'.protocols = request.uri.addresses
      BY <1>1, <2>3, <2>4 DEF OptionsInv, ReadSettings
    <3> QED
      BY <2>1, <2>3, <3>1, <3>2 DEF ReadSettings
  <2> QED
    BY <2>5, <2>6, <2>7 DEF OptionsInv
<1> QED
  BY <1>3, <1>4, <1>5

\* All parameters are read before the first option.
LEMMA ParamsReadInv == ASSUME OptionsInv, ParamsRead PROVE OptionsInv'
<1>1. /\ step = "params" /\ unread = {} /\ step' = "options" /\ unread' = DOMAIN request.options
      /\ request' = request /\ settings' = settings /\ config' = config
  BY DEF ParamsRead
<1>2. ReadParams' = ReadParams /\ ReadOptions' = ReadOptions /\ Rest' = Rest
  BY <1>1 DEF ReadParams, ReadOptions, Rest, TlsOf
<1> QED
  BY <1>1, <1>2 DEF OptionsInv, OptionsOK, ReadValid, ReadSettings, Built, Refused, IsReadable

\* An option is refused if it is not valid; else its setting is that of the option.
LEMMA ReadOptionInv == ASSUME OptionsInv, ReadOption PROVE OptionsInv'
<1>1. step = "options" /\ unread \subseteq DOMAIN request.options
  BY DEF ReadOption, OptionsInv, OptionsOK
<1>2. PICK name \in unread \ {"unknown"} : Read(name, request.options[name])
  BY DEF ReadOption
<1> DEFINE v == request.options[name]
<1>3. CASE ~IsValid(name, v)
  BY <1>1, <1>2, <1>3, RefuseInv DEF IsAcceptable, Read
<1>4. CASE IsValid(name, v)
  <2>1. /\ Store(name, v) /\ unread' = unread \ {name} /\ request' = request /\ step' = step /\ config' = config
    BY <1>2, <1>4 DEF Read
  <2>2. name = "host" \/ (name # "host" /\ name \in Settable /\ Setting(name) = name)
    <3>1. name \in OptionNames
      BY <1>1, OfRequest DEF IsNamed
    <3> QED
      BY <1>2, <3>1, SettingOf DEF OptionNames
  <2>3. ReadParams' = ReadParams /\ ReadOptions' = ReadOptions \cup {name} /\ Rest' = Rest
    BY <1>1, <2>1 DEF ReadParams, ReadOptions, Rest, TlsOf
  <2>4. /\ DOMAIN settings' = DOMAIN settings
        /\ settings'.protocols = IF name = "host" THEN <<"">> ELSE settings.protocols
        /\ \A s \in Settable : settings'[s] = IF s = name THEN v ELSE settings[s]
    <3>1. "host" \notin Settable
      BY DEF Settable
    <3>2. CASE name = "host"
      BY <2>1, <3>1, <3>2, StoreChanges
    <3>3. CASE name # "host"
      <4>1. Setting(name) = name /\ name \in Settable
        BY <2>2, <3>3
      <4>2. /\ DOMAIN settings' = DOMAIN settings
            /\ settings'.protocols = settings.protocols
            /\ settings'[Setting(name)] = v
            /\ \A s \in Settable : s # Setting(name) => settings'[s] = settings[s]
        BY <2>1, <3>3, <4>1, StoreChanges
      <4> QED
        BY <3>3, <4>1, <4>2
    <3> QED
      BY <3>2, <3>3
  <2>5. OptionsOK'
    BY <1>1, <2>1, <2>4 DEF OptionsInv, OptionsOK, IsReadable
  <2>6. ReadValid' /\ Built' /\ Refused'
    BY <1>1, <1>4, <2>1, <2>3 DEF OptionsInv, ReadValid, Built, Refused
  <2>7. ReadSettings'
    <3>1. ASSUME NEW s \in Settable
          PROVE  /\ s \in ReadOptions' => settings'[s] = request.options[s]
                 /\ s \notin ReadOptions' =>
                      /\ \A n \in ReadParams' : Setting(n) = s => settings'[s] = request.params[n]
                      /\ (\A n \in ReadParams' : Setting(n) # s) => settings'[s] = Rest[s]
      BY <1>1, <2>3, <2>4 DEF OptionsInv, ReadSettings
    <3>2. settings'.protocols = IF "host" \in ReadOptions' THEN <<"">> ELSE request.uri.addresses
      BY <1>1, <2>3, <2>4 DEF OptionsInv, ReadSettings
    <3> QED
      BY <2>1, <2>3, <3>1, <3>2 DEF ReadSettings
  <2> QED
    BY <2>5, <2>6, <2>7 DEF OptionsInv
<1> QED
  BY <1>3, <1>4

\* An unknown option is none of the settings.
LEMMA IgnoreOptionInv == ASSUME OptionsInv, IgnoreOption PROVE OptionsInv'
<1>1. /\ step = "options" /\ "unknown" \in unread /\ unread' = unread \ {"unknown"} /\ step' = step
      /\ request' = request /\ settings' = settings /\ config' = config
      /\ unread \subseteq DOMAIN request.options
  BY DEF IgnoreOption, OptionsInv, OptionsOK
<1>2. ReadParams' = ReadParams /\ ReadOptions' = ReadOptions \cup {"unknown"} /\ Rest' = Rest
  BY <1>1 DEF ReadParams, ReadOptions, Rest, TlsOf
<1>3. "unknown" \notin Settable /\ \A v : IsValid("unknown", v)
  BY DEF Settable, IsValid, IsLevel, IsRows, Setting
<1>4. OptionsOK'
  BY <1>1 DEF OptionsInv, OptionsOK, IsReadable
<1>5. ReadValid' /\ Built' /\ Refused'
  BY <1>1, <1>2, <1>3 DEF OptionsInv, ReadValid, Built, Refused
<1>6. ReadSettings'
  <2>1. "host" \in ReadOptions' <=> "host" \in ReadOptions
    BY <1>2
  <2> QED
    BY <1>1, <1>2, <1>3, <2>1 DEF OptionsInv, ReadSettings
<1> QED
  BY <1>4, <1>5, <1>6 DEF OptionsInv

\* The configuration is built of all that is read, or refused.
LEMMA BuildInv == ASSUME OptionsInv, Build PROVE OptionsInv'
<1>1. step = "options" /\ unread = {}
  BY DEF Build
<1>2. ReadParams = DOMAIN request.params /\ ReadOptions = DOMAIN request.options
  BY <1>1 DEF ReadParams, ReadOptions
<1>3. CASE ~IsComplete \/ settings.wallet = "unreadable"
  <2>1. RefuseRequest
    BY <1>3 DEF Build
  <2>2. ~IsAcceptable
    BY <1>1, <1>2, <1>3, Acceptable
  <2> QED
    BY <2>1, <2>2, RefuseInv
<1>4. CASE IsComplete /\ settings.wallet # "unreadable"
  <2>1. /\ config' = [protocols |-> [a \in DOMAIN settings.protocols |-> IF Tls THEN "tcps" ELSE settings.protocols[a]],
                      tls |-> Tls, encryption |-> Encryption, checksum |-> Checksum,
                      service |-> settings.service_name, sid |-> settings.sid,
                      batch |-> settings.batch_size, prefetch |-> Prefetch]
        /\ step' = "done" /\ request' = request /\ unread' = unread /\ settings' = settings
    BY <1>4 DEF Build
  <2>2. /\ Tls' = Tls /\ Prefetch' = Prefetch /\ (IsComplete' <=> IsComplete)
        /\ ReadParams' = ReadParams /\ ReadOptions' = ReadOptions /\ Rest' = Rest
    BY <1>1, <2>1 DEF Tls, Prefetch, IsComplete, ReadParams, ReadOptions, Rest, TlsOf
  <2>3. Encryption' = Encryption
    BY <2>1, <2>2 DEF Encryption
  <2>4. Checksum' = Checksum
    BY <2>1, <2>3 DEF Checksum
  <2>5. OptionsOK' /\ ReadValid' /\ Refused'
    BY <1>1, <2>1, <2>2 DEF OptionsInv, OptionsOK, ReadValid, Refused, IsReadable
  <2>6. ReadSettings'
    BY <1>1, <2>1, <2>2 DEF OptionsInv, ReadSettings
  <2>7. Built'
    BY <1>4, <2>1, <2>2, <2>3, <2>4 DEF Built
  <2> QED
    BY <2>5, <2>6, <2>7 DEF OptionsInv
<1> QED
  BY <1>3, <1>4

---------------------------------------------------------------------------
(* The theorems.                                                           *)

\* options.go: whatever the order in which the maps are read, each setting is that
\* of the option read, else of the parameter read, else of the rest.
THEOREM OptionsInvariance == OptionsSpec => []OptionsInv
<1>1. OptionsInit => OptionsInv
  BY OptionsInitInv
<1>2. OptionsInv /\ [OptionsNext]_optionsVars => OptionsInv'
  <2> SUFFICES ASSUME OptionsInv, [OptionsNext]_optionsVars PROVE OptionsInv'
    OBVIOUS
  <2>1. CASE ReadUri
    BY <2>1, ReadUriInv
  <2>2. CASE ReadParam
    BY <2>2, ReadParamInv
  <2>3. CASE ParamsRead
    BY <2>3, ParamsReadInv
  <2>4. CASE ReadOption
    BY <2>4, ReadOptionInv
  <2>5. CASE IgnoreOption
    BY <2>5, IgnoreOptionInv
  <2>6. CASE Build
    BY <2>6, BuildInv
  <2>7. CASE UNCHANGED optionsVars
    <3>1. request' = request /\ step' = step /\ unread' = unread /\ settings' = settings /\ config' = config
      BY <2>7 DEF optionsVars
    <3>2. /\ ReadParams' = ReadParams /\ ReadOptions' = ReadOptions /\ Rest' = Rest
          /\ Tls' = Tls /\ Prefetch' = Prefetch /\ (IsComplete' <=> IsComplete)
          /\ (IsAcceptable' <=> IsAcceptable)
      BY <3>1 DEF ReadParams, ReadOptions, Rest, TlsOf, Tls, Prefetch, IsComplete, IsAcceptable, Asked
    <3>3. Encryption' = Encryption /\ Checksum' = Checksum
      BY <3>1, <3>2 DEF Encryption, Checksum
    <3>4. OptionsOK' /\ ReadValid' /\ Refused'
      BY <3>1, <3>2 DEF OptionsInv, OptionsOK, ReadValid, Refused, IsReadable
    <3>5. ReadSettings'
      BY <3>1, <3>2 DEF OptionsInv, ReadSettings
    <3>6. Built'
      BY <3>1, <3>2, <3>3 DEF OptionsInv, Built
    <3> QED
      BY <3>4, <3>5, <3>6 DEF OptionsInv
  <2> QED
    BY <2>1, <2>2, <2>3, <2>4, <2>5, <2>6, <2>7 DEF OptionsNext
<1> QED
  BY <1>1, <1>2, PTL DEF OptionsSpec

\* options.go: what was asked for explicitly is what the configuration says, TLS is
\* on for all addresses or for none, and only what is not acceptable is refused.
THEOREM WhatWasAskedFor == OptionsSpec => []ExplicitWins
<1>1. OptionsInv => ExplicitWins
  BY ExplicitWinsNow
<1> QED
  BY <1>1, OptionsInvariance, PTL

---------------------------------------------------------------------------
(***************************************************************************)
(* NUMBERS                                                                 *)
(***************************************************************************)

---------------------------------------------------------------------------
(* The least and the largest of a set of positions.                        *)

\* Every set of natural numbers with a member has a least one.
LEMMA MinIs ==
  ASSUME NEW S \in SUBSET Nat, S # {}
  PROVE  Min(S) \in S /\ \A n \in S : Min(S) <= n
<1> DEFINE Less == {ss \in Nat \X Nat : ss[1] < ss[2]}
<1>1. IsWellFoundedOn(OpToRel(<, Nat), Nat)
  BY NatLessThanWellFounded
<1>2. OpToRel(<, Nat) = Less
  BY DEF OpToRel
<1>3. IsWellFoundedOn(Less, Nat)
  BY <1>1, <1>2
<1> HIDE DEF Less
<1>4. PICK m \in S : \A n \in S : ~ (<<n, m>> \in Less)
  BY <1>3, WFMin
<1>5. \A n \in S : m <= n
  <2> SUFFICES ASSUME NEW n \in S PROVE m <= n
    OBVIOUS
  <2>1. ~ (<<n, m>> \in Less) /\ n \in Nat /\ m \in Nat
    BY <1>4
  <2> QED
    BY <2>1 DEF Less
<1> QED
  BY <1>5 DEF Min

\* So has every set of numbers up to some n a largest one.
LEMMA MaxIs ==
  ASSUME NEW n \in Nat, NEW S \in SUBSET (0 .. n), S # {}
  PROVE  Max(S) \in S /\ \A m \in S : m <= Max(S)
<1> DEFINE Above == {k \in Nat : \A m \in S : m <= k}
<1>1. Above \in SUBSET Nat /\ Above # {}
  <2>1. n \in Above
    OBVIOUS
  <2> QED
    BY <2>1
<1>2. Min(Above) \in Above /\ \A k \in Above : Min(Above) <= k
  BY <1>1, MinIs
<1> DEFINE x == Min(Above)
<1>3. x \in Nat /\ (\A m \in S : m <= x) /\ \A k \in Nat : (\A m \in S : m <= k) => x <= k
  BY <1>2
<1> HIDE DEF x
<1>4. x \in S
  <2> SUFFICES ASSUME x \notin S PROVE FALSE
    OBVIOUS
  <2>1. \A m \in S : m \in Nat /\ m < x
    <3> SUFFICES ASSUME NEW m \in S PROVE m \in Nat /\ m < x
      OBVIOUS
    <3>1. m \in 0 .. n /\ m <= x /\ m # x
      BY <1>3
    <3> QED
      BY <1>3, <3>1
  <2>2. x - 1 \in Nat /\ \A m \in S : m <= x - 1
    <3>1. \A m \in S : m <= x - 1
      BY <1>3, <2>1
    <3>2. PICK m \in S : m \in Nat /\ m < x
      BY <2>1
    <3> QED
      BY <1>3, <3>1, <3>2
  <2> QED
    BY <1>3, <2>2
<1>5. \E y \in S : \A m \in S : y >= m
  BY <1>3, <1>4
<1> QED
  BY <1>5 DEF Max

---------------------------------------------------------------------------
(* The digits of a number.                                                 *)

\* The digits of a numeral.
Digits == 0 .. 9

\* All leading zeros are counted, and nothing else.
LEMMA ZerosIs ==
  ASSUME NEW s \in Seq(Digits)
  PROVE  /\ Zeros(s) \in 0 .. Len(s)
         /\ Zeros(s) < Len(s) => s[Zeros(s) + 1] # 0
<1> DEFINE n == Len(s)
           S == {k \in 0 .. n : \A i \in 1 .. k : s[i] = 0}
           z == Max(S)
<1>1. n \in Nat
  BY LenProperties
<1> HIDE DEF n
<1>2. 0 \in S
  BY <1>1
<1>3. S \in SUBSET (0 .. n) /\ S # {}
  BY <1>2
<1>4. z \in S /\ \A m \in S : m <= z
  BY <1>1, <1>3, MaxIs
<1> HIDE DEF z
<1>5. ASSUME z < n PROVE s[z + 1] # 0
  <2> SUFFICES ASSUME s[z + 1] = 0 PROVE FALSE
    OBVIOUS
  <2>1. \A i \in 1 .. z + 1 : s[i] = 0
    BY <1>1, <1>4
  <2>2. z + 1 \in S
    BY <1>1, <1>4, <1>5, <2>1
  <2> QED
    BY <1>1, <1>4, <2>2
<1> QED
  BY <1>4, <1>5 DEF Zeros, z, n

\* A sequence without its trailing zeros begins it, and ends in no zero.
LEMMA WithoutTrailingIs ==
  ASSUME NEW s \in Seq(Digits)
  PROVE  /\ WithoutTrailing(s) \in Seq(Digits) /\ Len(WithoutTrailing(s)) <= Len(s)
         /\ \A i \in 1 .. Len(WithoutTrailing(s)) : WithoutTrailing(s)[i] = s[i]
         /\ Len(WithoutTrailing(s)) # 0 => WithoutTrailing(s)[Len(WithoutTrailing(s))] # 0
<1> DEFINE n == Len(s)
           S == {k \in 0 .. n : \A i \in k + 1 .. n : s[i] = 0}
           e == Min(S)
<1>1. n \in Nat /\ \A i \in 1 .. n : s[i] \in Digits
  BY LenProperties
<1> HIDE DEF n
<1>2. n \in S
  BY <1>1
<1>3. S \in SUBSET Nat /\ S # {}
  <2>1. \A k \in S : k \in Nat
    BY <1>1
  <2> QED
    BY <1>2, <2>1
<1>4. e \in S /\ \A m \in S : e <= m
  BY <1>3, MinIs
<1> HIDE DEF e
<1>5. ASSUME e # 0 PROVE s[e] # 0
  <2> SUFFICES ASSUME s[e] = 0 PROVE FALSE
    OBVIOUS
  <2>1. e \in 1 .. n /\ e - 1 \in 0 .. n
    BY <1>1, <1>4, <1>5
  <2>2. \A i \in (e - 1) + 1 .. n : s[i] = 0
    <3>1. \A i \in (e - 1) + 1 .. n : i = e \/ i \in e + 1 .. n
      BY <1>1, <2>1
    <3> QED
      BY <1>4, <3>1
  <2>3. e - 1 \in S
    BY <2>1, <2>2
  <2> QED
    BY <1>4, <2>1, <2>3
<1>6. WithoutTrailing(s) = SubSeq(s, 1, e)
  BY DEF WithoutTrailing, e, n
<1>7. e \in 0 .. n /\ \A i \in 1 .. e : s[i] \in Digits
  BY <1>1, <1>4
<1>8. /\ SubSeq(s, 1, e) \in Seq(Digits)
      /\ Len(SubSeq(s, 1, e)) = IF 1 <= e THEN e - 1 + 1 ELSE 0
      /\ \A i \in 1 .. e - 1 + 1 : SubSeq(s, 1, e)[i] = s[1 + i - 1]
  BY <1>1, <1>7, SubSeqProperties
<1>9. (IF 1 <= e THEN e - 1 + 1 ELSE 0) = e /\ e - 1 + 1 = e /\ \A i \in 1 .. e : 1 + i - 1 = i
  BY <1>1, <1>7
<1>10. Len(SubSeq(s, 1, e)) = e /\ \A i \in 1 .. e : SubSeq(s, 1, e)[i] = s[i]
  BY <1>8, <1>9
<1>11. e # 0 => SubSeq(s, 1, e)[e] # 0
  BY <1>1, <1>5, <1>7, <1>10
<1> QED
  BY <1>1, <1>6, <1>7, <1>8, <1>10, <1>11 DEF n

\* What SignificantDigits leaves begins and ends in no zero.
LEMMA SignificantDigitsIs ==
  ASSUME NEW t \in Numerals
  PROVE  /\ SignificantDigits(t) \in Seq(Digits)
         /\ SignificantDigits(t) # <<>> =>
              /\ Len(SignificantDigits(t)) \in Nat /\ Len(SignificantDigits(t)) # 0
              /\ SignificantDigits(t)[1] # 0
              /\ SignificantDigits(t)[Len(SignificantDigits(t))] # 0
         /\ DecimalPoint(t) \in Int
<1> DEFINE all == t.whole \o t.frac
           n == Len(all)
           z == Zeros(all)
           u == SubSeq(all, z + 1, n)
           d == WithoutTrailing(u)
<1>1. all \in Seq(Digits) /\ Len(t.whole) \in Nat /\ t.exp \in Int
  BY NumberAssumption, ConcatProperties, LenProperties DEF Digits
<1>2. n \in Nat /\ \A i \in 1 .. n : all[i] \in Digits
  BY <1>1, LenProperties
<1>3. z \in 0 .. n /\ (z < n => all[z + 1] # 0)
  BY <1>1, ZerosIs
<1>4. SignificantDigits(t) = d
  BY DEF SignificantDigits
<1>5. DecimalPoint(t) = Len(t.whole) - z + t.exp
  BY DEF DecimalPoint
<1> HIDE DEF all, n, z
<1>6. /\ u \in Seq(Digits)
      /\ Len(u) = IF z + 1 <= n THEN n - (z + 1) + 1 ELSE 0
      /\ \A i \in 1 .. n - (z + 1) + 1 : u[i] = all[z + 1 + i - 1]
  <2>1. z + 1 \in Int /\ n \in Int /\ \A i \in z + 1 .. n : all[i] \in Digits
    BY <1>2, <1>3
  <2> QED
    BY <2>1, SubSeqProperties
<1>7. Len(u) \in Nat /\ (Len(u) # 0 => z < n /\ u[1] = all[z + 1])
  <2>1. Len(u) = n - z
    BY <1>2, <1>3, <1>6
  <2>2. ASSUME z < n PROVE u[1] = all[z + 1]
    <3>1. 1 \in 1 .. n - (z + 1) + 1 /\ z + 1 + 1 - 1 = z + 1
      BY <1>2, <1>3, <2>2
    <3> QED
      BY <1>6, <3>1
  <2> QED
    BY <1>2, <1>3, <2>1, <2>2
<1> HIDE DEF u
<1>8. /\ d \in Seq(Digits) /\ Len(d) <= Len(u)
      /\ \A i \in 1 .. Len(d) : d[i] = u[i]
      /\ Len(d) # 0 => d[Len(d)] # 0
  BY <1>6, WithoutTrailingIs
<1> HIDE DEF d
<1>9. Len(d) \in Nat /\ (d # <<>> => Len(d) # 0)
  BY <1>8, LenProperties, EmptySeq
<1>10. ASSUME d # <<>> PROVE d[1] # 0
  <2>1. 1 \in 1 .. Len(d) /\ Len(u) # 0
    BY <1>7, <1>8, <1>9, <1>10
  <2> QED
    BY <1>3, <1>7, <1>8, <2>1
<1>11. DecimalPoint(t) \in Int
  BY <1>1, <1>2, <1>3, <1>5
<1> QED
  BY <1>4, <1>8, <1>9, <1>10, <1>11

---------------------------------------------------------------------------
(* Encoding.                                                               *)

\* The digits of a text in pairs: a zero before them if the point is odd,
\* another behind them if one is missing, and no other zero at the ends.
LEMMA AlignedIs ==
  ASSUME NEW t \in Numerals, SignificantDigits(t) # <<>>
  PROVE  LET d == SignificantDigits(t)
             pre == IF Prepend(t) THEN 1 ELSE 0
             n == Len(d) + pre
         IN  /\ Aligned(t) \in Seq(Digits)
             /\ Len(Aligned(t)) = IF n % 2 = 1 THEN n + 1 ELSE n
             /\ \A i \in 1 .. Len(d) : Aligned(t)[i + pre] = d[i]
             /\ pre = 1 => Aligned(t)[1] = 0
             /\ n % 2 = 1 => Aligned(t)[n + 1] = 0
<1> DEFINE d == SignificantDigits(t)
           pre == IF Prepend(t) THEN 1 ELSE 0
           n == Len(d) + pre
           p == IF Prepend(t) THEN <<0>> ELSE <<>>
           s == p \o d
<1>1. d \in Seq(Digits) /\ Len(d) \in Nat
  BY SignificantDigitsIs
<1>2. /\ p \in Seq(Digits) /\ Len(p) = pre /\ pre \in {0, 1} /\ (pre = 1 => p[1] = 0)
      /\ <<0>> \in Seq(Digits) /\ Len(<<0>>) = 1 /\ <<0>>[1] = 0
  <2>1. <<0>> \in Seq(Digits) /\ Len(<<0>>) = 1 /\ <<0>>[1] = 0
    BY DEF Digits
  <2>2. <<>> \in Seq(Digits) /\ Len(<<>>) = 0
    BY EmptySeq
  <2> QED
    BY <2>1, <2>2
<1>3. Aligned(t) = IF Len(s) % 2 = 1 THEN s \o <<0>> ELSE s
  BY DEF Aligned
<1> HIDE DEF d, p, pre
<1>4. /\ s \in Seq(Digits) /\ Len(s) = pre + Len(d)
      /\ \A i \in 1 .. pre + Len(d) : s[i] = IF i <= pre THEN p[i] ELSE d[i - pre]
  BY <1>1, <1>2, ConcatProperties
<1> HIDE DEF s
<1>5. n \in Nat /\ Len(s) = n
  BY <1>1, <1>2, <1>4
<1>6. \A i \in 1 .. Len(d) : s[i + pre] = d[i]
  <2> SUFFICES ASSUME NEW i \in 1 .. Len(d) PROVE s[i + pre] = d[i]
    OBVIOUS
  <2>1. i + pre \in 1 .. pre + Len(d) /\ ~(i + pre <= pre) /\ (i + pre) - pre = i
    BY <1>1, <1>2
  <2> QED
    BY <1>4, <2>1
<1>7. pre = 1 => s[1] = 0 /\ 1 \in 1 .. n
  <2> SUFFICES ASSUME pre = 1 PROVE s[1] = 0 /\ 1 \in 1 .. n
    OBVIOUS
  <2>1. 1 \in 1 .. pre + Len(d) /\ 1 <= pre
    BY <1>1
  <2> QED
    BY <1>1, <1>2, <1>4, <2>1
<1> HIDE DEF n
<1>8. CASE n % 2 = 1
  <2>1. Aligned(t) = s \o <<0>>
    BY <1>3, <1>5, <1>8
  <2>2. /\ s \o <<0>> \in Seq(Digits) /\ Len(s \o <<0>>) = n + 1
        /\ \A i \in 1 .. n + 1 : (s \o <<0>>)[i] = IF i <= n THEN s[i] ELSE <<0>>[i - n]
    BY <1>2, <1>4, <1>5, ConcatProperties
  <2>3. (s \o <<0>>)[n + 1] = 0
    <3>1. n + 1 \in 1 .. n + 1 /\ ~(n + 1 <= n) /\ (n + 1) - n = 1
      BY <1>5
    <3> QED
      BY <1>2, <2>2, <3>1
  <2>4. \A i \in 1 .. n : (s \o <<0>>)[i] = s[i]
    BY <1>5, <2>2
  <2>5. \A i \in 1 .. Len(d) : i + pre \in 1 .. n
    BY <1>1, <1>2 DEF n
  <2> QED
    BY <1>6, <1>7, <1>8, <2>1, <2>2, <2>3, <2>4, <2>5 DEF d, pre, n
<1>9. CASE ~(n % 2 = 1)
  <2>1. Aligned(t) = s
    BY <1>3, <1>5, <1>9
  <2> QED
    BY <1>4, <1>5, <1>6, <1>7, <1>9, <2>1 DEF d, pre, n
<1> QED
  BY <1>8, <1>9

\* The byte of two digits, and what undoes it.
ByteOf(neg, x, y) == DigitByte(neg, 10 * x + y)
PairOf(neg, b) == IF neg THEN 101 - b ELSE b - 1

\* Two digits come back from their byte, and the byte is not the one that trails.
LEMMA ByteOfIs ==
  ASSUME NEW neg \in BOOLEAN, NEW x \in Digits, NEW y \in Digits
  PROVE  /\ ByteOf(neg, x, y) \in Nat /\ ByteOf(neg, x, y) # 102
         /\ PairOf(neg, ByteOf(neg, x, y)) \div 10 = x /\ PairOf(neg, ByteOf(neg, x, y)) % 10 = y
<1>1. 10 * x + y \in 0 .. 99 /\ (10 * x + y) \div 10 = x /\ (10 * x + y) % 10 = y
  BY DEF Digits
<1> DEFINE q == 10 * x + y
<1> HIDE DEF q
<1>2. q \in 0 .. 99 /\ 101 - (101 - q) = q /\ (q + 1) - 1 = q
  BY <1>1 DEF q
<1>3. /\ 101 - q \in Nat /\ 101 - q # 102 /\ q + 1 \in Nat /\ q + 1 # 102
  BY <1>2
<1> QED
  BY <1>1, <1>2, <1>3 DEF ByteOf, PairOf, DigitByte, q

\* The exponent byte, whose highest bit is the sign, and what undoes it.
WireExponent(x) ==
  LET w == (x - 193) % 256 IN 2 * (IF w >= 128 THEN w - 256 ELSE w) + 2

\* The sign and the point of the aligned digits come back from the exponent byte.
LEMMA ExponentByteIs ==
  ASSUME NEW t \in Numerals, DecimalPoint(t) \in MinPoint .. MaxPoint
  PROVE  /\ ExponentByte(t) \in 0 .. 255 /\ (ExponentByte(t) >= 128 <=> ~t.neg)
         /\ WireExponent(IF t.neg THEN 255 - ExponentByte(t) ELSE ExponentByte(t))
              = DecimalPoint(t) + IF Prepend(t) THEN 1 ELSE 0
<1> DEFINE p == DecimalPoint(t)
           r == IF Prepend(t) THEN p + 1 ELSE p
           q == r \div 2
<1>1. p \in -129 .. 126 /\ t.neg \in BOOLEAN
  <2>1. MinPoint \in -129 .. 0 /\ MaxPoint \in 0 .. 126 /\ t.neg \in BOOLEAN
    BY NumberAssumption
  <2> HIDE DEF p
  <2>2. MinPoint \in Int /\ MinPoint >= -129 /\ MaxPoint \in Int /\ MaxPoint <= 126
    BY <2>1
  <2>3. p \in MinPoint .. MaxPoint
    BY DEF p
  <2> QED
    BY <2>1, <2>2, <2>3
<1>2. Prepend(t) <=> p % 2 = 1
  BY DEF Prepend
<1>3. ExponentByte(t) = IF t.neg THEN 255 - (192 + q) ELSE 192 + q
  BY DEF ExponentByte
<1> HIDE DEF p
<1>4. q \in -64 .. 63 /\ 2 * q = r
  <2>1. CASE p % 2 = 1
    <3>1. r = p + 1
      BY <1>2, <2>1
    <3>2. (p + 1) \div 2 \in -64 .. 63 /\ 2 * ((p + 1) \div 2) = p + 1
      BY <1>1, <2>1
    <3> QED
      BY <3>1, <3>2
  <2>2. CASE p % 2 # 1
    <3>1. r = p
      BY <1>2, <2>2
    <3>2. p \div 2 \in -64 .. 63 /\ 2 * (p \div 2) = p
      BY <1>1, <2>2
    <3> QED
      BY <3>1, <3>2
  <2> QED
    BY <2>1, <2>2
<1> HIDE DEF q
<1> DEFINE x == 192 + q
           w == (x - 193) % 256
<1>5. x \in 128 .. 255 /\ 255 - (255 - x) = x /\ 255 - x \in 0 .. 127
  BY <1>4
<1>6. (IF w >= 128 THEN w - 256 ELSE w) = q - 1
  <2>1. x - 193 = q - 1
    BY <1>4
  <2>2. CASE q >= 1
    BY <1>4, <2>1, <2>2
  <2>3. CASE q < 1
    BY <1>4, <2>1, <2>3
  <2> QED
    BY <1>4, <2>2, <2>3
<1>7. 2 * (IF w >= 128 THEN w - 256 ELSE w) + 2 = r
  BY <1>4, <1>6
<1>8. r = DecimalPoint(t) + IF Prepend(t) THEN 1 ELSE 0
  BY <1>1 DEF p
<1> HIDE DEF r
<1>9. ExponentByte(t) = IF t.neg THEN 255 - x ELSE x
  BY <1>3
<1>10. (IF t.neg THEN 255 - ExponentByte(t) ELSE ExponentByte(t)) = x
  BY <1>1, <1>5, <1>9
<1>11. ExponentByte(t) \in 0 .. 255 /\ (ExponentByte(t) >= 128 <=> ~t.neg)
  BY <1>1, <1>5, <1>9
<1>12. WireExponent(x) = r
  BY <1>7 DEF WireExponent
<1> HIDE DEF x
<1> QED
  BY <1>8, <1>10, <1>11, <1>12

---------------------------------------------------------------------------
(* What is stored, and what is fetched again.                              *)

\* The bytes of a number that is not zero: the exponent, the pairs, the trailer.
LEMMA EncodeNumberIs ==
  ASSUME NEW t \in Numerals, SignificantDigits(t) # <<>>, DecimalPoint(t) \in MinPoint .. MaxPoint
  PROVE  LET a == Aligned(t)
             k == Len(a) \div 2
             b == EncodeNumber(t)
         IN  /\ b \in Seq(Nat) /\ k \in Nat /\ k # 0 /\ Len(a) = 2 * k
             /\ b[1] = ExponentByte(t)
             /\ Trailer(t) \in {<<>>, <<102>>} /\ (Trailer(t) = <<102>> => t.neg)
             /\ Len(b) = 1 + k + Len(Trailer(t))
             /\ \A i \in 1 .. k : b[1 + i] = ByteOf(t.neg, a[2 * i - 1], a[2 * i])
             /\ Trailer(t) = <<102>> => b[Len(b)] = 102
<1> DEFINE a == Aligned(t)
           k == Len(a) \div 2
           ps == [i \in 1 .. k |-> ByteOf(t.neg, a[2 * i - 1], a[2 * i])]
           e == <<ExponentByte(t)>>
           f == Trailer(t)
<1>1. EncodeNumber(t) = (e \o ps) \o f
  BY DEF EncodeNumber, ByteOf
<1>2. a \in Seq(Digits) /\ Len(a) \in Nat /\ Len(a) % 2 = 0 /\ Len(a) # 0
  <2> DEFINE n == Len(SignificantDigits(t)) + IF Prepend(t) THEN 1 ELSE 0
  <2>1. n \in Nat /\ n # 0
    BY SignificantDigitsIs
  <2>2. Aligned(t) \in Seq(Digits) /\ Len(Aligned(t)) = IF n % 2 = 1 THEN n + 1 ELSE n
    BY AlignedIs
  <2> HIDE DEF n
  <2>3. (IF n % 2 = 1 THEN n + 1 ELSE n) \in Nat \ {0} /\ (IF n % 2 = 1 THEN n + 1 ELSE n) % 2 = 0
    BY <2>1
  <2> QED
    BY <2>2, <2>3
<1>3. t.neg \in BOOLEAN
  BY NumberAssumption
<1> HIDE DEF a
<1>4. k \in Nat /\ k # 0 /\ Len(a) = 2 * k
  BY <1>2
<1>5. \A i \in 1 .. k : 2 * i - 1 \in 1 .. Len(a) /\ 2 * i \in 1 .. Len(a)
  BY <1>2, <1>4
<1> HIDE DEF k
<1>6. \A i \in 1 .. k : ByteOf(t.neg, a[2 * i - 1], a[2 * i]) \in Nat
  <2> SUFFICES ASSUME NEW i \in 1 .. k PROVE ByteOf(t.neg, a[2 * i - 1], a[2 * i]) \in Nat
    OBVIOUS
  <2>1. a[2 * i - 1] \in Digits /\ a[2 * i] \in Digits
    BY <1>2, <1>5, ElementOfSeq
  <2> QED
    BY <1>3, <2>1, ByteOfIs
<1>7. /\ ps \in Seq(Nat) /\ Len(ps) = k
      /\ \A i \in 1 .. k : ps[i] = ByteOf(t.neg, a[2 * i - 1], a[2 * i])
  <2>1. ps \in [1 .. k -> Nat]
    BY <1>6
  <2>2. \A i \in 1 .. k : ps[i] = ByteOf(t.neg, a[2 * i - 1], a[2 * i])
    OBVIOUS
  <2> HIDE DEF ps
  <2>3. ps \in Seq(Nat) /\ Len(ps) = k
    BY <1>4, <2>1
  <2> QED
    BY <2>2, <2>3
<1> HIDE DEF ps
<1>8. e \in Seq(Nat) /\ Len(e) = 1 /\ e[1] = ExponentByte(t)
  <2>1. ExponentByte(t) \in Nat
    <3>1. ExponentByte(t) \in 0 .. 255
      BY ExponentByteIs
    <3>2. 0 .. 255 \subseteq Nat
      OBVIOUS
    <3> QED
      BY <3>1, <3>2
  <2> QED
    BY <2>1
<1> HIDE DEF e
<1>9. f \in {<<>>, <<102>>} /\ (f = <<102>> => t.neg)
  BY DEF Trailer
<1>10. f \in Seq(Nat) /\ (f = <<>> => Len(f) = 0) /\ (f = <<102>> => Len(f) = 1 /\ f[1] = 102)
  <2>1. <<>> \in Seq(Nat) /\ Len(<<>>) = 0
    BY EmptySeq
  <2>2. <<102>> \in Seq(Nat) /\ Len(<<102>>) = 1 /\ <<102>>[1] = 102
    OBVIOUS
  <2> QED
    BY <1>9, <2>1, <2>2
<1> HIDE DEF f
<1>11. /\ e \o ps \in Seq(Nat) /\ Len(e \o ps) = 1 + k
       /\ \A i \in 1 .. 1 + k : (e \o ps)[i] = IF i <= 1 THEN e[i] ELSE ps[i - 1]
  <2>1. /\ e \o ps \in Seq(Nat) /\ Len(e \o ps) = Len(e) + Len(ps)
        /\ \A i \in 1 .. Len(e) + Len(ps) : (e \o ps)[i] = IF i <= Len(e) THEN e[i] ELSE ps[i - Len(e)]
    BY <1>7, <1>8, ConcatProperties
  <2>2. Len(e) = 1 /\ Len(ps) = k
    BY <1>7, <1>8
  <2> QED
    BY <2>1, <2>2
<1> DEFINE h == e \o ps
<1> HIDE DEF h
<1>12. /\ h \o f \in Seq(Nat) /\ Len(h \o f) = 1 + k + Len(f)
       /\ \A i \in 1 .. 1 + k + Len(f) : (h \o f)[i] = IF i <= 1 + k THEN h[i] ELSE f[i - (1 + k)]
  BY <1>10, <1>11, ConcatProperties DEF h
<1>13. Len(f) \in Nat
  BY <1>9, <1>10
<1>14. (h \o f)[1] = ExponentByte(t)
  <2>1. 1 \in 1 .. 1 + k + Len(f) /\ 1 <= 1 + k /\ 1 \in 1 .. 1 + k
    BY <1>4, <1>13
  <2> QED
    BY <1>8, <1>11, <1>12, <2>1 DEF h
<1>15. ASSUME NEW i \in 1 .. k PROVE (h \o f)[1 + i] = ps[i]
  <2>1. 1 + i \in 1 .. 1 + k + Len(f) /\ 1 + i <= 1 + k /\ 1 + i \in 1 .. 1 + k /\ ~(1 + i <= 1) /\ (1 + i) - 1 = i
    BY <1>4, <1>13
  <2> QED
    BY <1>11, <1>12, <2>1 DEF h
<1>16. f = <<102>> => (h \o f)[Len(h \o f)] = 102
  <2> HAVE f = <<102>>
  <2>1. Len(h \o f) = 1 + k + 1 /\ Len(h \o f) \in 1 .. 1 + k + Len(f) /\ ~(Len(h \o f) <= 1 + k) /\ Len(h \o f) - (1 + k) = 1
    BY <1>4, <1>10, <1>12
  <2> QED
    BY <1>10, <1>12, <2>1
<1> QED
  BY <1>1, <1>4, <1>7, <1>9, <1>12, <1>14, <1>15, <1>16 DEF h, a, k, f

\* The mantissa is the bytes of the pairs: no pair of a negative number is
\* the byte that trails it.
LEMMA MantissaIs ==
  ASSUME NEW t \in Numerals, SignificantDigits(t) # <<>>, DecimalPoint(t) \in MinPoint .. MaxPoint
  PROVE  LET a == Aligned(t)
             k == Len(a) \div 2
             b == EncodeNumber(t)
         IN  /\ IsPositive(b) <=> ~t.neg
             /\ Len(Mantissa(b)) = k
             /\ \A i \in 1 .. k : Mantissa(b)[i] = ByteOf(t.neg, a[2 * i - 1], a[2 * i])
<1> DEFINE a == Aligned(t)
           k == Len(a) \div 2
           b == EncodeNumber(t)
           f == Trailer(t)
<1>1. /\ b \in Seq(Nat) /\ k \in Nat /\ k # 0 /\ Len(a) = 2 * k
      /\ b[1] = ExponentByte(t)
      /\ f \in {<<>>, <<102>>} /\ (f = <<102>> => t.neg)
      /\ Len(b) = 1 + k + Len(f)
      /\ \A i \in 1 .. k : b[1 + i] = ByteOf(t.neg, a[2 * i - 1], a[2 * i])
      /\ f = <<102>> => b[Len(b)] = 102
  BY EncodeNumberIs
<1>2. a \in Seq(Digits) /\ t.neg \in BOOLEAN
  BY AlignedIs, NumberAssumption
<1>3. IsPositive(b) <=> ~t.neg
  BY <1>1, ExponentByteIs DEF IsPositive
<1>4. ASSUME NEW i \in 1 .. k PROVE b[1 + i] # 102
  <2>1. 2 * i - 1 \in 1 .. Len(a) /\ 2 * i \in 1 .. Len(a)
    BY <1>1
  <2>2. a[2 * i - 1] \in Digits /\ a[2 * i] \in Digits
    BY <1>2, <2>1, ElementOfSeq
  <2>3. ByteOf(t.neg, a[2 * i - 1], a[2 * i]) # 102
    <3> DEFINE x == a[2 * i - 1]
               y == a[2 * i]
               neg == t.neg
    <3>1. neg \in BOOLEAN /\ x \in Digits /\ y \in Digits
      BY <1>2, <2>2
    <3> HIDE DEF x, y, neg
    <3>2. ByteOf(neg, x, y) # 102
      BY <3>1, ByteOfIs
    <3> QED
      BY <3>2 DEF x, y, neg
  <2> QED
    BY <1>1, <2>3
<1>5. Mantissa(b) = IF t.neg /\ b[Len(b)] = 102 THEN SubSeq(b, 2, Len(b) - 1) ELSE Tail(b)
  BY <1>3 DEF Mantissa
<1> HIDE DEF b, a, k, f
<1>6. CASE f = <<102>>
  <2>1. Len(f) = 1
    BY <1>6
  <2>2. Len(b) = k + 2 /\ Mantissa(b) = SubSeq(b, 2, Len(b) - 1)
    BY <1>1, <1>5, <1>6, <2>1
  <2>3. Mantissa(b) = SubSeq(b, 2, k + 1)
    BY <1>1, <2>2
  <2>4. \A i \in 2 .. k + 1 : b[i] \in Nat
    <3>1. \A i \in 2 .. k + 1 : i \in 1 .. Len(b)
      BY <1>1, <2>2
    <3> QED
      BY <1>1, <3>1, ElementOfSeq
  <2>5. /\ Len(SubSeq(b, 2, k + 1)) = IF 2 <= k + 1 THEN k + 1 - 2 + 1 ELSE 0
        /\ \A i \in 1 .. k + 1 - 2 + 1 : SubSeq(b, 2, k + 1)[i] = b[2 + i - 1]
    BY <1>1, <2>4, SubSeqProperties
  <2>6. (IF 2 <= k + 1 THEN k + 1 - 2 + 1 ELSE 0) = k /\ k + 1 - 2 + 1 = k /\ \A i \in 1 .. k : 2 + i - 1 = 1 + i
    BY <1>1
  <2>7. Len(SubSeq(b, 2, k + 1)) = k /\ \A i \in 1 .. k : SubSeq(b, 2, k + 1)[i] = b[1 + i]
    BY <2>5, <2>6
  <2> QED
    BY <1>1, <1>3, <2>3, <2>7 DEF b, a, k, f
<1>7. CASE f = <<>>
  <2>1. Len(b) = 1 + k /\ b # <<>>
    <3>1. Len(f) = 0
      BY <1>7, EmptySeq
    <3>2. Len(b) = 1 + k + 0
      BY <1>1, <3>1
    <3>3. Len(b) = 1 + k /\ Len(b) # 0
      BY <1>1, <3>2
    <3> QED
      BY <3>3, EmptySeq
  <2>2. b[Len(b)] # 102
    <3>1. k \in 1 .. k
      BY <1>1
    <3> QED
      BY <1>4, <2>1, <3>1
  <2>3. Mantissa(b) = Tail(b)
    BY <1>5, <2>2
  <2>4. Len(Tail(b)) = Len(b) - 1 /\ \A i \in 1 .. Len(Tail(b)) : Tail(b)[i] = b[i + 1]
    BY <1>1, <2>1, HeadTailProperties
  <2>5. Len(b) - 1 = k /\ \A i \in 1 .. k : i + 1 = 1 + i
    BY <1>1, <2>1
  <2>6. Len(Tail(b)) = k /\ \A i \in 1 .. k : Tail(b)[i] = b[1 + i]
    BY <2>4, <2>5
  <2> QED
    BY <1>1, <1>3, <2>3, <2>6 DEF b, a, k, f
<1> QED
  BY <1>1, <1>6, <1>7

\* The digits the mantissa is decoded into.
Decoded(b) ==
  [i \in 1 .. 2 * Len(Mantissa(b)) |->
     IF i % 2 = 1 THEN (IF IsPositive(b) THEN Mantissa(b)[(i + 1) \div 2] - 1 ELSE 101 - Mantissa(b)[(i + 1) \div 2]) \div 10
     ELSE (IF IsPositive(b) THEN Mantissa(b)[i \div 2] - 1 ELSE 101 - Mantissa(b)[i \div 2]) % 10]

\* The digits DecodeNumber reads are those EncodeNumber aligned.
LEMMA DecodedIs ==
  ASSUME NEW t \in Numerals, SignificantDigits(t) # <<>>, DecimalPoint(t) \in MinPoint .. MaxPoint
  PROVE  Decoded(EncodeNumber(t)) = Aligned(t)
<1> DEFINE a == Aligned(t)
           k == Len(a) \div 2
           b == EncodeNumber(t)
           m == Mantissa(b)
<1>1. k \in Nat /\ Len(a) = 2 * k /\ a \in Seq(Digits) /\ t.neg \in BOOLEAN
  BY EncodeNumberIs, AlignedIs, NumberAssumption
<1>2. /\ IsPositive(b) <=> ~t.neg
      /\ Len(m) = k
      /\ \A i \in 1 .. k : m[i] = ByteOf(t.neg, a[2 * i - 1], a[2 * i])
  BY MantissaIs
<1> DEFINE pair(i) == IF IsPositive(b) THEN m[i] - 1 ELSE 101 - m[i]
<1>3. Decoded(b) = [i \in 1 .. 2 * k |-> IF i % 2 = 1 THEN pair((i + 1) \div 2) \div 10 ELSE pair(i \div 2) % 10]
  BY <1>2 DEF Decoded
<1> HIDE DEF a, k, b, m
<1>4. ASSUME NEW j \in 1 .. k PROVE pair(j) \div 10 = a[2 * j - 1] /\ pair(j) % 10 = a[2 * j]
  <2>1. 2 * j - 1 \in 1 .. Len(a) /\ 2 * j \in 1 .. Len(a)
    BY <1>1
  <2>2. a[2 * j - 1] \in Digits /\ a[2 * j] \in Digits
    BY <1>1, <2>1, ElementOfSeq
  <2> DEFINE q == PairOf(t.neg, ByteOf(t.neg, a[2 * j - 1], a[2 * j]))
  <2>3. q \div 10 = a[2 * j - 1] /\ q % 10 = a[2 * j]
    <3> DEFINE x == a[2 * j - 1]
               y == a[2 * j]
               neg == t.neg
    <3>1. neg \in BOOLEAN /\ x \in Digits /\ y \in Digits
      BY <1>1, <2>2
    <3> HIDE DEF x, y, neg
    <3>2. PairOf(neg, ByteOf(neg, x, y)) \div 10 = x /\ PairOf(neg, ByteOf(neg, x, y)) % 10 = y
      BY <3>1, ByteOfIs
    <3> QED
      BY <3>2 DEF x, y, neg
  <2>4. pair(j) = q
    BY <1>1, <1>2 DEF PairOf
  <2> HIDE DEF q, pair
  <2> QED
    BY <2>3, <2>4
<1> HIDE DEF pair
<1>5. ASSUME NEW i \in 1 .. 2 * k
      PROVE  (IF i % 2 = 1 THEN pair((i + 1) \div 2) \div 10 ELSE pair(i \div 2) % 10) = a[i]
  <2>1. CASE i % 2 = 1
    <3>1. (i + 1) \div 2 \in 1 .. k /\ 2 * ((i + 1) \div 2) - 1 = i
      BY <1>1, <2>1
    <3> QED
      BY <1>4, <2>1, <3>1
  <2>2. CASE i % 2 # 1
    <3>1. i \div 2 \in 1 .. k /\ 2 * (i \div 2) = i
      BY <1>1, <2>2
    <3> QED
      BY <1>4, <2>2, <3>1
  <2> QED
    BY <2>1, <2>2
<1>6. a \in [1 .. 2 * k -> Digits]
  BY <1>1, LenProperties
<1>7. Decoded(b) = [i \in 1 .. 2 * k |-> a[i]]
  BY <1>3, <1>5
<1>8. [i \in 1 .. 2 * k |-> a[i]] = a
  BY <1>6
<1> QED
  BY <1>7, <1>8 DEF a, b

\* What is fetched is what was bound.
LEMMA RoundTrip ==
  ASSUME NEW t \in Numerals, Representable(t)
  PROVE  DecodeNumber(EncodeNumber(t)) = ValueOf(t)
<1> DEFINE d == SignificantDigits(t)
           a == Aligned(t)
           b == EncodeNumber(t)
           p == DecimalPoint(t)
           pre == IF Prepend(t) THEN 1 ELSE 0
           n == Len(d) + pre
<1>1. d \in Seq(Digits) /\ p \in Int /\ p \in MinPoint .. MaxPoint /\ t.neg \in BOOLEAN
  BY SignificantDigitsIs, NumberAssumption DEF Representable
<1>2. CASE d = <<>>
  <2>1. b = <<128>> /\ Len(<<128>>) = 1 /\ <<128>>[1] >= 128
    BY <1>2 DEF EncodeNumber
  <2>2. DecodeNumber(b) = Number(FALSE, <<>>, 0)
    BY <2>1 DEF DecodeNumber, IsPositive
  <2> QED
    BY <1>2, <2>2 DEF Number, ValueOf
<1>3. CASE d # <<>>
  <2>1. /\ Len(d) \in Nat /\ Len(d) # 0 /\ d[1] # 0 /\ d[Len(d)] # 0
    BY <1>3, SignificantDigitsIs
  <2>2. /\ a \in Seq(Digits) /\ Len(a) = IF n % 2 = 1 THEN n + 1 ELSE n
        /\ \A i \in 1 .. Len(d) : a[i + pre] = d[i]
        /\ pre = 1 => a[1] = 0
        /\ n % 2 = 1 => a[n + 1] = 0
    BY <1>3, AlignedIs
  <2>3. b \in Seq(Nat) /\ Len(b) \in Nat /\ Len(b) # 1
    <3> DEFINE k == Len(a) \div 2
               f == Trailer(t)
    <3>1. b \in Seq(Nat) /\ k \in Nat /\ k # 0 /\ f \in {<<>>, <<102>>} /\ Len(b) = 1 + k + Len(f)
      BY <1>1, <1>3, EncodeNumberIs
    <3>2. Len(f) \in Nat
      BY <3>1, EmptySeq
    <3> HIDE DEF k, f, b
    <3> QED
      BY <3>1, <3>2
  <2>4. (IsPositive(b) <=> ~t.neg) /\ b[1] = ExponentByte(t) /\ Decoded(b) = a
    BY <1>1, <1>3, MantissaIs, EncodeNumberIs, DecodedIs
  <2>5. WirePoint(b) = p + pre
    <3>1. WirePoint(b) = WireExponent(IF IsPositive(b) THEN b[1] ELSE 255 - b[1])
      BY DEF WirePoint, WireExponent
    <3>2. WireExponent(IF t.neg THEN 255 - ExponentByte(t) ELSE ExponentByte(t)) = p + pre
      BY <1>1, ExponentByteIs
    <3> HIDE DEF b, p, pre
    <3> QED
      BY <2>4, <3>1, <3>2
  <2>6. DecodeNumber(b) =
          Number(~IsPositive(b),
                 SubSeq(Decoded(b), (IF Decoded(b)[1] = 0 THEN 1 ELSE 0) + 1,
                        IF Decoded(b)[Len(Decoded(b))] = 0 THEN Len(Decoded(b)) - 1 ELSE Len(Decoded(b))),
                 WirePoint(b) - IF Decoded(b)[1] = 0 THEN 1 ELSE 0)
    BY <2>3 DEF DecodeNumber, Decoded
  <2> DEFINE skip == IF a[1] = 0 THEN 1 ELSE 0
             end == IF a[Len(a)] = 0 THEN Len(a) - 1 ELSE Len(a)
  <2>7. DecodeNumber(b) = Number(~IsPositive(b), SubSeq(a, skip + 1, end), WirePoint(b) - skip)
    BY <2>4, <2>6
  <2>8. pre \in {0, 1}
    OBVIOUS
  <2> HIDE DEF a, d, b, p, pre
  <2>9. skip = pre
    <3>1. CASE pre = 1
      BY <2>2, <3>1
    <3>2. CASE pre = 0
      <4>1. 1 \in 1 .. Len(d) /\ 1 + pre = 1
        BY <2>1, <3>2
      <4>2. a[1] = d[1]
        BY <2>2, <4>1
      <4> QED
        BY <2>1, <3>2, <4>2
    <3> QED
      BY <2>8, <3>1, <3>2
  <2>10. end = n
    <3>1. n \in Nat /\ Len(d) \in 1 .. Len(d)
      BY <2>1, <2>8
    <3>2. CASE n % 2 = 1
      <4>1. Len(a) = n + 1 /\ a[Len(a)] = 0
        BY <2>2, <3>2
      <4>2. end = (n + 1) - 1
        BY <4>1
      <4> QED
        BY <3>1, <4>2
    <3>3. CASE n % 2 # 1
      <4>1. Len(a) = n /\ a[n] = d[Len(d)]
        BY <2>2, <3>1, <3>3
      <4> QED
        BY <2>1, <4>1
    <3> QED
      BY <3>2, <3>3
  <2>11. SubSeq(a, pre + 1, n) = d
    <3>1. n \in Nat /\ n <= Len(a) /\ Len(a) \in Nat /\ pre + 1 \in Int
      <4>1. n \in Nat
        BY <2>1, <2>8
      <4> HIDE DEF n
      <4> QED
        BY <2>2, <2>8, <4>1
    <3>2. \A i \in pre + 1 .. n : a[i] \in Digits
      <4>1. \A i \in pre + 1 .. n : i \in 1 .. Len(a)
        BY <2>8, <3>1
      <4> QED
        BY <2>2, <4>1, ElementOfSeq
    <3>3. /\ SubSeq(a, pre + 1, n) \in Seq(Digits)
          /\ Len(SubSeq(a, pre + 1, n)) = IF pre + 1 <= n THEN n - (pre + 1) + 1 ELSE 0
          /\ \A i \in 1 .. n - (pre + 1) + 1 : SubSeq(a, pre + 1, n)[i] = a[(pre + 1) + i - 1]
      BY <3>1, <3>2, SubSeqProperties
    <3>4. /\ (IF pre + 1 <= n THEN n - (pre + 1) + 1 ELSE 0) = Len(d)
          /\ n - (pre + 1) + 1 = Len(d)
          /\ \A i \in 1 .. Len(d) : (pre + 1) + i - 1 = i + pre
      BY <2>1, <2>8
    <3>5. Len(SubSeq(a, pre + 1, n)) = Len(d)
      BY <3>3, <3>4
    <3>6. \A i \in 1 .. Len(d) : SubSeq(a, pre + 1, n)[i] = d[i]
      BY <2>2, <3>3, <3>4
    <3> QED
      BY <1>1, <3>3, <3>5, <3>6, SeqEqual
  <2>12. WirePoint(b) - pre = p
    BY <1>1, <2>5, <2>8
  <2> DEFINE m == ~IsPositive(b)
  <2>13. m = t.neg
    <3>1. m \in BOOLEAN /\ (m <=> t.neg)
      BY <1>1, <2>4 DEF IsPositive
    <3> HIDE DEF m
    <3> QED
      BY <1>1, <3>1
  <2>14. DecodeNumber(b) = Number(m, SubSeq(a, skip + 1, end), WirePoint(b) - skip)
    BY <2>7
  <2> HIDE DEF skip, end, n, m
  <2>15. DecodeNumber(b) = Number(t.neg, d, p)
    BY <2>9, <2>10, <2>11, <2>12, <2>13, <2>14
  <2> QED
    BY <2>15 DEF ValueOf, b, d, p
<1> QED
  BY <1>2, <1>3

\* Only the overlong shape is too long to be decoded.
LEMMA TooLong ==
  ASSUME NEW t \in Numerals, Representable(t), ~Decodable(EncodeNumber(t))
  PROVE  Overlong(t)
<1> DEFINE d == SignificantDigits(t)
           b == EncodeNumber(t)
           f == Trailer(t)
           k == Len(Aligned(t)) \div 2
           pre == IF Prepend(t) THEN 1 ELSE 0
           n == Len(d) + pre
           padded == IF n % 2 = 1 THEN n + 1 ELSE n
<1>1. MaxDigits \in Nat /\ MaxDigits # 0 /\ MaxDigits % 2 = 0 /\ MaxBytes = MaxDigits \div 2 + 1
  BY NumberAssumption
<1>2. DecimalPoint(t) \in MinPoint .. MaxPoint /\ Len(d) <= MaxDigits
  BY DEF Representable
<1>3. d # <<>>
  <2> SUFFICES ASSUME d = <<>> PROVE FALSE
    OBVIOUS
  <2>1. b = <<128>> /\ Len(<<128>>) = 1 /\ <<128>> # <<>>
    BY DEF EncodeNumber
  <2>2. 1 <= MaxBytes
    BY <1>1
  <2> QED
    BY <2>1, <2>2 DEF Decodable
<1>4. /\ b \in Seq(Nat) /\ k \in Nat /\ k # 0 /\ Len(Aligned(t)) = 2 * k
      /\ f \in {<<>>, <<102>>} /\ Len(b) = 1 + k + Len(f)
  BY <1>2, <1>3, EncodeNumberIs
<1>5. Len(d) \in Nat /\ pre \in {0, 1}
  BY <1>3, SignificantDigitsIs
<1>6. Len(Aligned(t)) = padded
  BY <1>3, AlignedIs
<1>7. f = <<102>> => padded < MaxDigits
  BY DEF Trailer
<1>8. Len(b) > MaxBytes
  <2>1. Len(b) # 0 /\ Len(b) \in Nat
    <3>1. Len(f) \in Nat
      <4>1. Len(<<>>) \in Nat /\ Len(<<102>>) \in Nat
        OBVIOUS
      <4> QED
        BY <1>4, <4>1
    <3> HIDE DEF b, f, k
    <3> QED
      BY <1>4, <3>1
  <2>2. b # <<>>
    BY <2>1, EmptySeq
  <2>3. MaxBytes \in Nat
    BY <1>1
  <2>4. ~(Len(b) <= MaxBytes)
    BY <2>2 DEF Decodable
  <2> QED
    BY <2>1, <2>3, <2>4
<1>9. Len(f) = IF f = <<102>> THEN 1 ELSE 0
  <2>1. Len(<<102>>) = 1 /\ Len(<<>>) = 0
    BY EmptySeq
  <2> QED
    BY <1>4, <2>1
<1>10. pre = 1 <=> DecimalPoint(t) % 2 = 1
  BY DEF Prepend
<1> HIDE DEF b, f, k, d, pre
<1>11. n \in Nat /\ padded \in Nat /\ padded = 2 * k
  BY <1>4, <1>5, <1>6
<1>12. CASE f = <<102>>
  <2>1. 2 * k < MaxDigits
    BY <1>7, <1>11, <1>12
  <2>2. k + 1 <= MaxDigits \div 2
    BY <1>1, <1>4, <2>1
  <2> QED
    BY <1>1, <1>4, <1>8, <1>9, <1>12, <2>2
<1>13. CASE f # <<102>>
  <2>1. 1 + k > MaxDigits \div 2 + 1
    BY <1>1, <1>4, <1>8, <1>9, <1>13
  <2>2. padded > MaxDigits
    BY <1>1, <1>4, <1>11, <2>1
  <2>3. n >= MaxDigits + 1
    <3> HIDE DEF n
    <3> QED
      BY <1>1, <1>11, <2>2
  <2>4. pre = 1 /\ Len(d) = MaxDigits
    BY <1>1, <1>2, <1>5, <2>3
  <2> QED
    BY <1>10, <2>4 DEF Overlong, d
<1> QED
  BY <1>12, <1>13

---------------------------------------------------------------------------
(* The theorems.                                                           *)

\* What is stored is what was bound, encoded; what is fetched is that again.
NumberInv ==
  /\ text \in Numerals
  /\ status = "stored" => Representable(text) /\ wire = EncodeNumber(text)
  /\ status = "fetched" => value = ValueOf(text)
  /\ status = "undecodable" => Overlong(text)

\* number.go: every number stored is the one bound, encoded, and every number
\* fetched is the one bound.
THEOREM NumberInvariance == NumberSpec => []NumberInv
<1>1. NumberInit => NumberInv
  BY DEF NumberInit, NumberInv
<1>2. NumberInv /\ [NumberNext]_numberVars => NumberInv'
  <2> SUFFICES ASSUME NumberInv, [NumberNext]_numberVars PROVE NumberInv'
    OBVIOUS
  <2>1. CASE EncodeRefuses
    BY <2>1 DEF EncodeRefuses, NumberInv
  <2>2. CASE BindNumber
    BY <2>2 DEF BindNumber, NumberInv
  <2>3. CASE DecodeRefuses
    BY <2>3, TooLong DEF DecodeRefuses, NumberInv
  <2>4. CASE FetchNumber
    BY <2>4, RoundTrip DEF FetchNumber, NumberInv
  <2>5. CASE UNCHANGED numberVars
    BY <2>5 DEF numberVars, NumberInv
  <2> QED
    BY <2>1, <2>2, <2>3, <2>4, <2>5 DEF NumberNext
<1> QED
  BY <1>1, <1>2, PTL DEF NumberSpec

\* number.go: what is bound is what is fetched, for numerals of any length, and
\* only a number with all digits used and an odd point is too long to be decoded.
THEOREM NumbersComeBack == NumberSpec => []SameNumberBack
<1>1. NumberInv => SameNumberBack
  BY DEF NumberInv, SameNumberBack
<1> QED
  BY <1>1, NumberInvariance, PTL

---------------------------------------------------------------------------
(***************************************************************************)
(* VALUES                                                                  *)
(***************************************************************************)

\* Quotient and remainder, and nothing else, make up the dividend.
LEMMA DivisionIs ==
  ASSUME NEW a \in Int, NEW b \in Nat \ {0}
  PROVE  a \div b \in Int /\ a % b \in 0 .. b - 1 /\ a = b * (a \div b) + (a % b)
<1>1. a % b = a - b * (a \div b) /\ a % b \in 0 .. b - 1 /\ a \div b \in Int
  OBVIOUS
<1>2. b * (a \div b) \in Int
  BY <1>1
<1> QED
  BY <1>1, <1>2

\* Without a remainder there is only the quotient.
LEMMA ExactIs ==
  ASSUME NEW a \in Int, NEW b \in Nat \ {0}, a % b = 0
  PROVE  a \div b \in Int /\ a = b * (a \div b)
BY DivisionIs

\* Quotient and remainder are unique.
LEMMA DivisionOf ==
  ASSUME NEW q \in Int, NEW b \in Nat \ {0}, NEW r \in 0 .. b - 1
  PROVE  (b * q + r) \div b = q /\ (b * q + r) % b = r
OBVIOUS

\* In particular those of a multiple.
LEMMA MultipleOf ==
  ASSUME NEW a \in Int, NEW b \in Nat \ {0}
  PROVE  (a * b) \div b = a /\ (a * b) % b = 0
OBVIOUS

\* Go's division: the remainder has the sign of the dividend.
LEMMA QuoIs ==
  ASSUME NEW a \in Int, NEW b \in Nat \ {0}
  PROVE  /\ Quo(a, b) \in Int /\ Rem(a, b) \in Int
         /\ a = b * Quo(a, b) + Rem(a, b)
         /\ a >= 0 => Rem(a, b) \in 0 .. b - 1 /\ Quo(a, b) >= 0
         /\ a <= 0 => -Rem(a, b) \in 0 .. b - 1 /\ Quo(a, b) <= 0
<1>1. CASE a >= 0
  <2>1. Quo(a, b) = a \div b
    BY <1>1 DEF Quo
  <2>2. a \div b >= 0
    BY <1>1
  <2>3. b * (a \div b) \in Int /\ Rem(a, b) = a - b * (a \div b)
    BY <2>1, DivisionIs DEF Rem
  <2>4. Rem(a, b) = a % b
    BY <2>3
  <2>5. a = 0 => a \div b = 0 /\ a % b = 0
    OBVIOUS
  <2>6. a \div b \in Int /\ a % b \in 0 .. b - 1 /\ a = b * (a \div b) + (a % b)
    BY DivisionIs
  <2> QED
    BY <1>1, <2>1, <2>2, <2>4, <2>5, <2>6
<1>2. CASE a < 0
  <2> DEFINE c == -a
             q == c \div b
  <2>1. c \in Int /\ c > 0 /\ c \in Nat
    BY <1>2
  <2>2. q \in Int /\ c % b \in 0 .. b - 1 /\ c = b * q + (c % b)
    BY <2>1, DivisionIs
  <2>3. q >= 0
    BY <2>1
  <2>4. Quo(a, b) = -q
    BY <1>2 DEF Quo
  <2>5. b * Quo(a, b) = -(b * q) /\ b * q \in Int
    BY <2>2, <2>4
  <2>6. Rem(a, b) = -(c % b)
    BY <2>2, <2>5 DEF Rem
  <2> QED
    BY <1>2, <2>2, <2>3, <2>4, <2>5, <2>6
<1> QED
  BY <1>1, <1>2

\* The remainder is smaller than the divisor, whatever its sign.
LEMMA SplitIs ==
  ASSUME NEW a \in Int, NEW b \in Nat \ {0}
  PROVE  /\ Quo(a, b) \in Int /\ Rem(a, b) \in Int
         /\ a = b * Quo(a, b) + Rem(a, b)
         /\ -b < Rem(a, b) /\ Rem(a, b) < b
<1>1. CASE a >= 0
  BY <1>1, QuoIs
<1>2. CASE a < 0
  BY <1>2, QuoIs
<1> QED
  BY <1>1, <1>2

\* A quotient is bounded as the dividend is.
LEMMA QuoBound ==
  ASSUME NEW a \in Int, NEW b \in Nat \ {0}, NEW c \in Nat, a < c * b, -(c * b) < a
  PROVE  -c < Quo(a, b) /\ Quo(a, b) < c
<1> DEFINE q == Quo(a, b)
<1>1. q \in Int /\ Rem(a, b) \in Int /\ a = b * q + Rem(a, b)
  BY QuoIs
<1>2. CASE a >= 0
  <2>1. b * q <= a /\ q >= 0
    BY <1>1, <1>2, QuoIs
  <2>2. q >= c => b * q >= c * b
    BY <1>1
  <2> QED
    BY <1>1, <2>1, <2>2
<1>3. CASE a < 0
  <2>1. b * q >= a /\ q <= 0
    BY <1>1, <1>3, QuoIs
  <2>2. q <= -c => b * q <= -(c * b)
    BY <1>1
  <2> QED
    BY <1>1, <2>1, <2>2
<1> QED
  BY <1>2, <1>3

\* Go divides a multiple exactly,
LEMMA QuoOf ==
  ASSUME NEW q \in Int, NEW b \in Nat \ {0}
  PROVE  Quo(b * q, b) = q
<1>1. CASE b * q >= 0
  BY <1>1, MultipleOf DEF Quo
<1>2. CASE b * q < 0
  <2>1. -(b * q) = (-q) * b
    OBVIOUS
  <2>2. (-(b * q)) \div b = -q
    BY <2>1, MultipleOf
  <2> QED
    BY <1>2, <2>2 DEF Quo
<1> QED
  BY <1>1, <1>2

\* and so what leaves no remainder.
LEMMA QuoExact ==
  ASSUME NEW a \in Int, NEW b \in Nat \ {0}, a % b = 0
  PROVE  Quo(a, b) \in Int /\ Quo(a, b) * b = a
<1>1. a \div b \in Int /\ a = b * (a \div b)
  BY DivisionIs
<1>2. Quo(a, b) = a \div b
  BY <1>1, QuoOf
<1> QED
  BY <1>1, <1>2

\* A quotient does not change when both numbers are multiplied, if Go rounds it down.
LEMMA QuoOfMultiples ==
  ASSUME NEW U \in Int, NEW S \in Nat \ {0}, NEW D \in Nat \ {0},
         U >= 0 \/ (U * S) % (D * S) = 0
  PROVE  Quo(U, D) = (U * S) \div (D * S)
<1> DEFINE N == D * S
<1>1. N \in Nat \ {0} /\ U * S \in Int
  OBVIOUS
<1>2. CASE U >= 0
  <2>1. PICK q \in Int, m \in 0 .. D - 1 : q = U \div D /\ U = D * q + m
    BY DivisionIs
  <2>2. U * S = N * q + S * m
    <3> DEFINE x == D * q
    <3>1. x \in Int /\ m \in Int /\ U = x + m
      BY <2>1
    <3> HIDE DEF x
    <3>3. U * S = x * S + S * m
      BY <3>1
    <3>2. (D * q) * S = (D * S) * q
      BY <2>1
    <3> QED
      BY <3>2, <3>3 DEF x
  <2>3. S * m \in 0 .. N - 1
    <3>1. S * m >= 0 /\ S * (m + 1) <= S * D /\ S * (m + 1) = S * m + S /\ S * m \in Int
      BY <2>1
    <3> QED
      BY <1>1, <3>1
  <2>4. (U * S) \div N = q
    <3> DEFINE x == S * m
    <3> HIDE DEF N, x
    <3>1. (N * q + x) \div N = q
      BY <1>1, <2>1, <2>3, DivisionOf DEF x
    <3> QED
      BY <2>2, <3>1 DEF x
  <2> QED
    BY <1>2, <2>1, <2>4 DEF Quo
<1>3. CASE (U * S) % N = 0
  <2>1. PICK q \in Int : q = (U * S) \div N /\ U * S = N * q
    <3> HIDE DEF N
    <3> QED
      BY <1>1, <1>3, ExactIs
  <2>2. U * S = (D * q) * S
    BY <2>1
  <2>3. U = D * q
    BY <2>1, <2>2
  <2> QED
    BY <2>1, <2>3, QuoOf
<1> QED
  BY <1>2, <1>3

---------------------------------------------------------------------------
\* An int64 holds the digits of a NUMBER fetched as one.
LEMMA HalfIs == Half \in Nat \ {0} /\ \A p \in 1 .. IntDigits : 10^p <= Half
<1>1. Half \in Int
  BY ValuesAssumption DEF Half
<1>2. 10^1 = 10
  OBVIOUS
<1>3. 1 \in 1 .. IntDigits
  BY ValuesAssumption
<1>4. 10^1 <= Half
  BY <1>3, ValuesAssumption DEF Half
<1> QED
  BY <1>1, <1>2, <1>4, ValuesAssumption DEF Half

\* What is within its range is not wrapped.
LEMMA FitsIs ==
  ASSUME NEW n \in Int, -Half <= n, n < Half
  PROVE  Fits(n)
<1>1. n + Half \in 0 .. 2 * Half - 1
  BY HalfIs
<1>2. (n + Half) % (2 * Half) = n + Half
  BY <1>1, HalfIs
<1> QED
  BY <1>2, HalfIs DEF Fits, Wrap

\* Few enough digits are within its range.
LEMMA SmallFits ==
  ASSUME NEW n \in Int, NEW p \in 1 .. IntDigits, Abs(n) < 10^p
  PROVE  Fits(n)
<1>1. 10^p \in Int /\ 10^p <= Half
  BY HalfIs, ValuesAssumption
<1> QED
  BY <1>1, HalfIs, FitsIs DEF Abs

\* The parts of a day.
LEMMA PartsAre ==
  /\ ClockParts \in 1 .. 4 /\ SmallParts \in Nat \ {0} /\ YearDays \in Nat \ {0}
  /\ Second \in Nat \ {0} /\ Minute \in Nat \ {0} /\ Hour \in Nat \ {0} /\ Day \in Nat \ {0}
  /\ Minute = ClockParts * Second /\ Hour = ClockParts * Minute /\ Day = ClockParts * Hour
<1>1. ClockParts \in 1 .. 4 /\ SmallParts \in Nat \ {0} /\ YearDays \in Nat \ {0}
  BY ValuesAssumption
<1>2. SmallParts * SmallParts \in Nat \ {0}
  BY <1>1
<1>3. Second \in Nat \ {0}
  BY <1>1, <1>2 DEF Second
<1>4. Minute \in Nat \ {0}
  BY <1>1, <1>3 DEF Minute
<1>5. Hour \in Nat \ {0}
  BY <1>1, <1>4 DEF Hour
<1>6. Day \in Nat \ {0}
  BY <1>1, <1>5 DEF Day
<1> QED
  BY <1>1, <1>3, <1>4, <1>5, <1>6 DEF Minute, Hour, Day

\* A second is a whole number of any unit.
LEMMA TicksAre ==
  ASSUME NEW u \in 0 .. 3
  PROVE  Ticks(u) \in Nat \ {0} /\ \E k \in Nat \ {0} : Second = k * Ticks(u)
<1>1. SmallParts \in Nat \ {0} /\ SmallParts * SmallParts \in Nat \ {0} /\ Second \in Nat \ {0}
  BY PartsAre
<1>2. CASE u = 0
  <2>1. Ticks(u) = Second /\ Second = 1 * Second
    BY <1>1, <1>2 DEF Ticks
  <2> QED
    BY <1>1, <2>1
<1>3. CASE u = 1
  <2>1. Ticks(u) = SmallParts * SmallParts
    BY <1>3 DEF Ticks
  <2>2. Second = SmallParts * (SmallParts * SmallParts)
    BY <1>1 DEF Second
  <2> QED
    BY <1>1, <2>1, <2>2
<1>4. CASE u = 2
  <2>1. Ticks(u) = SmallParts
    BY <1>4 DEF Ticks
  <2>2. Second = (SmallParts * SmallParts) * SmallParts
    BY <1>1 DEF Second
  <2> QED
    BY <1>1, <2>1, <2>2
<1>5. CASE u = 3
  BY <1>1, <1>5 DEF Ticks
<1> QED
  BY <1>2, <1>3, <1>4, <1>5

---------------------------------------------------------------------------
(* From the server to an Arrow array.                                      *)

\* Whole units of a number survive the rounding to these units.
LEMMA AppendedDecimalIs ==
  ASSUME NEW n \in Int, NEW t, t.s \in 0 .. 2, HasScale(n, t.s)
  PROVE  AppendDecimal(n, t) = IF Abs(n \div 10^(2 - t.s)) < 10^(t.p) THEN {<<n>>} ELSE {}
<1> DEFINE unit == 10^(2 - t.s)
<1>1. unit \in {1, 10, 100}
  <2>1. 10^0 = 1 /\ 10^1 = 10 /\ 10^2 = 100
    OBVIOUS
  <2>2. 2 - t.s \in {0, 1, 2}
    OBVIOUS
  <2> QED
    BY <2>1, <2>2
<1>2. n % unit = 0
  BY DEF HasScale
<1> DEFINE r == ((n + unit \div 2) \div unit) * unit
<1>3. r = n
  <2> HIDE DEF unit
  <2>1. CASE unit = 1
    BY <2>1
  <2>2. CASE unit = 10
    BY <1>2, <2>2
  <2>3. CASE unit = 100
    BY <1>2, <2>3
  <2> QED
    BY <1>1, <2>1, <2>2, <2>3
<1>4. AppendDecimal(n, t) = IF Abs(r \div unit) < 10^(t.p) THEN {<<r>>} ELSE {}
  BY DEF AppendDecimal
<1> QED
  BY <1>3, <1>4

\* A whole number of an int64 is that number.
LEMMA AppendedInt64Is ==
  ASSUME NEW n \in Int, n % 100 = 0, Fits(n \div 100)
  PROVE  AppendInt64(n) = {<<n \div 100>>}
BY DEF AppendInt64

\* A float64 does not change a number its mantissa holds.
LEMMA FloatIs ==
  ASSUME NEW n \in Int, Abs(n) < Hundredths(2^Mantissa53)
  PROVE  Float(n) = n
<1> DEFINE S == {k \in 0 .. Width : Abs(n) < Hundredths(2^(Mantissa53 + k)) \/ k = Width}
<1>1. 0 \in S
  BY ValuesAssumption
<1>2. \A k \in S : 0 =< k
  OBVIOUS
<1>3. \A x \in S : (\A y \in S : x =< y) => x = 0
  BY <1>1, <1>2
<1>4. Min(S) = 0
  BY <1>1, <1>2, <1>3 DEF Min
<1> QED
  BY <1>4 DEF Float

\* What a column of numbers is fetched as, the cases apart where the code rounds.
LEMMA NumberFetched ==
  ASSUME NEW c, NEW mode, NEW n \in Int, NEW exact \in BOOLEAN,
         c.type = "NUMBER", IsStored(c, <<n>>), exact => \E long \in BOOLEAN : Holds(c, long, <<n>>),
         NEW t, t = numberArrowType(c, mode), NEW r \in Appended(c, t, <<n>>),
         t.kind = "double" => Abs(n) < Hundredths(2^Mantissa53),
         t.kind = "decimal" => c.p # 0 /\ c.s = t.s /\ exact,
         t.kind = "int" => exact \/ (Fits(n \div 100) /\ n % 100 = 0)
  PROVE  ArrowWorth(t, r) = n /\ t.kind # "date32"
<1>1. c.p \in 0 .. MaxPrecision /\ c.s \in {-127} \cup -1 .. 2
  BY DEF IsStored
<1>2. exact /\ c.p > 0 /\ c.s \in -1 .. 2 => HasScale(n, c.s) /\ Abs(n \div 10^(2 - c.s)) < 10^(c.p)
  BY DEF Holds
<1>3. CASE t.kind = "text"
  BY <1>3 DEF Appended, ArrowWorth
<1>4. CASE t.kind = "double"
  <2>1. r = <<n>>
    BY <1>4, FloatIs DEF Appended
  <2> QED
    BY <1>4, <2>1 DEF ArrowWorth
<1>5. CASE t.kind = "decimal"
  <2>1. c.s \in 0 .. 2 /\ c.p > 0
    BY <1>1, <1>5, ValuesAssumption DEF numberArrowType, Arrow
  <2>2. r \in AppendDecimal(n, t)
    BY <1>5 DEF Appended
  <2>3. r = <<n>>
    BY <1>2, <1>5, <2>1, <2>2, AppendedDecimalIs
  <2> QED
    BY <1>5, <2>3 DEF ArrowWorth
<1>6. CASE t.kind = "int"
  <2>1. c.p \in 1 .. IntDigits /\ c.s = 0
    BY <1>1, <1>6, ValuesAssumption DEF numberArrowType, Arrow, FitsInt64
  <2>2. Fits(n \div 100) /\ n % 100 = 0
    <3>1. 10^2 = 100 /\ 2 - c.s = 2
      BY <2>1
    <3>2. exact => n % 100 = 0 /\ Abs(n \div 100) < 10^(c.p)
      BY <1>2, <2>1, <3>1 DEF HasScale
    <3> QED
      BY <1>6, <2>1, <3>2, SmallFits
  <2>3. r = <<n \div 100>>
    BY <1>6, <2>2, AppendedInt64Is DEF Appended
  <2>4. Hundredths(n \div 100) = n
    BY <2>2 DEF Hundredths
  <2> QED
    BY <1>6, <2>3, <2>4 DEF ArrowWorth
<1>7. t.kind \in {"text", "double", "decimal", "int"}
  BY DEF numberArrowType, Arrow
<1> QED
  BY <1>3, <1>4, <1>5, <1>6, <1>7

\* A number is fetched if the server let it into its column; only in decimal mode
\* is there a column whose numbers the type may not hold.
LEMMA NumberIsFetched ==
  ASSUME NEW c, NEW mode, NEW n \in Int,
         c.type = "NUMBER", IsStored(c, <<n>>), \E long \in BOOLEAN : Holds(c, long, <<n>>),
         NEW t, t = numberArrowType(c, mode),
         t.kind = "decimal" => c.p # 0 /\ c.s \in 0 .. c.p
  PROVE  Appended(c, t, <<n>>) # {}
<1>1. c.p \in 0 .. MaxPrecision /\ c.s \in {-127} \cup -1 .. 2
  BY DEF IsStored
<1>2. c.p > 0 /\ c.s \in -1 .. 2 => HasScale(n, c.s) /\ Abs(n \div 10^(2 - c.s)) < 10^(c.p)
  BY DEF Holds
<1>3. CASE t.kind \in {"text", "double"}
  BY <1>3 DEF Appended
<1>4. CASE t.kind = "decimal"
  <2>1. c.s \in 0 .. 2 /\ c.p > 0 /\ t.s = c.s /\ t.p = c.p
    BY <1>1, <1>4 DEF numberArrowType, Arrow
  <2>2. AppendDecimal(n, t) = {<<n>>}
    BY <1>2, <2>1, AppendedDecimalIs
  <2> QED
    BY <1>4, <2>2 DEF Appended
<1>5. CASE t.kind = "int"
  <2>1. c.p \in 1 .. IntDigits /\ c.s = 0
    BY <1>1, <1>5, ValuesAssumption DEF numberArrowType, Arrow, FitsInt64
  <2>2. 10^2 = 100 /\ 2 - c.s = 2
    BY <2>1
  <2>3. n % 100 = 0 /\ Abs(n \div 100) < 10^(c.p)
    BY <1>2, <2>1, <2>2 DEF HasScale
  <2>4. Fits(n \div 100)
    BY <2>1, <2>3, SmallFits
  <2> QED
    BY <1>5, <2>3, <2>4, AppendedInt64Is DEF Appended
<1>6. t.kind \in {"text", "double", "decimal", "int"}
  BY DEF numberArrowType, Arrow
<1> QED
  BY <1>3, <1>4, <1>5, <1>6

\* The seconds of a day.
LEMMA DayIs ==
  ASSUME NEW D, D = Day \div Second
  PROVE  D \in Nat \ {0} /\ Day = D * Second /\ \A d \in Int : (d * Day) \div Second = d * D
<1> DEFINE C == ClockParts
           S == Second
           E == C * (C * C)
<1>1. C \in Nat \ {0} /\ S \in Nat \ {0}
  BY PartsAre
<1>2. C * C \in Nat \ {0}
  BY <1>1
<1>3. E \in Nat \ {0}
  BY <1>1, <1>2
<1>4. Day = C * (C * (C * S))
  BY DEF Day, Hour, Minute
<1>5. Day = E * S
  <2>1. C * (C * S) = (C * C) * S
    BY <1>1
  <2>2. C * ((C * C) * S) = (C * (C * C)) * S
    BY <1>1, <1>2
  <2> QED
    BY <1>4, <2>1, <2>2
<1>6. Day \div Second = E
  BY <1>1, <1>3, <1>5, MultipleOf
<1>7. ASSUME NEW d \in Int
      PROVE  (d * Day) \div Second = d * E
  <2> HIDE DEF E, S
  <2>1. d * (E * S) = (d * E) * S /\ d * E \in Int
    BY <1>1, <1>3
  <2>2. ((d * E) * S) \div S = d * E
    BY <1>1, <2>1, MultipleOf
  <2> QED
    BY <1>5, <2>1, <2>2 DEF S
<1> QED
  BY <1>3, <1>5, <1>6, <1>7

\* An instant of which the column has whole ticks is whole ticks of it.
LEMMA TicksOfIs ==
  ASSUME NEW u \in 0 .. 3, NEW x \in Int, NEW f \in Nat, f % Ticks(u) = 0
  PROVE  (x * Second + f) % Ticks(u) = 0
<1> DEFINE T == Ticks(u)
<1>1. T \in Nat \ {0}
  BY TicksAre
<1>2. PICK k \in Nat \ {0} : Second = k * T
  BY TicksAre
<1>3. PICK q \in Int : f = q * T
  <2> HIDE DEF T
  <2>1. f \in Int /\ f % T = 0
    BY DEF T
  <2>2. f \div T \in Int /\ f = T * (f \div T)
    BY <1>1, <2>1, ExactIs
  <2>3. T * (f \div T) = (f \div T) * T
    BY <1>1, <2>2
  <2> QED
    BY <2>2, <2>3
<1> HIDE DEF T
<1>4. x * Second + f = (x * k + q) * T
  BY <1>1, <1>2, <1>3
<1>5. x * k + q \in Int
  OBVIOUS
<1>6. (x * Second + f) % T = 0
  BY <1>1, <1>4, <1>5, MultipleOf
<1> QED
  BY <1>6 DEF T

\* The columns of instants.
IsInstantType(c) == c.type \in {"DATE", "TIMESTAMP", "TIMESTAMP_TZ"}

\* What the server sends of a timestamp.
LEMMA StoredTimestamp ==
  ASSUME NEW c, NEW b, IsInstantType(c), c.type # "DATE", IsStored(c, b)
  PROVE  b \in [1 .. 4 -> Int] /\ c.s \in 0 .. 3 /\ b[4] \in 0 .. Second - 1 /\ b[4] % Ticks(c.s) = 0
<1>1. CASE c.type = "TIMESTAMP"
  BY <1>1 DEF IsStored
<1>2. CASE c.type = "TIMESTAMP_TZ"
  BY <1>2 DEF IsStored
<1> QED
  BY <1>1, <1>2 DEF IsInstantType

\* An instant is its seconds and, in a timestamp, the ticks of the column behind them.
LEMMA InstantIs ==
  ASSUME NEW c, NEW b, IsInstantType(c), IsStored(c, b)
  PROVE  /\ DecodedDay(b) \in Int /\ Unix(b) \in Int /\ Instant(b) \in Int
         /\ c.type = "DATE" => Instant(b) = Unix(b) * Second
         /\ c.type # "DATE" => /\ c.s \in 0 .. 3 /\ b[4] \in 0 .. Second - 1 /\ b[4] % Ticks(c.s) = 0
                              /\ Instant(b) = Unix(b) * Second + b[4]
<1>1. b[1] \in Int /\ b[2] \in Int /\ b[3] \in Int
  <2>1. CASE c.type = "DATE"
    BY <2>1 DEF IsStored
  <2>2. CASE c.type # "DATE"
    BY <2>2, StoredTimestamp
  <2> QED
    BY <2>1, <2>2
<1>2. DecodedDay(b) \in Int
  <2>1. (b[1] - 4) * YearDays \in Int
    BY <1>1, PartsAre
  <2> QED
    BY <1>1, <2>1 DEF DecodedDay
<1>3. Unix(b) \in Int
  <2>1. Day \div Second \in Nat
    BY DayIs
  <2>2. (DecodedDay(b) * Day) \div Second \in Int
    BY <1>2, <2>1, DayIs
  <2> QED
    BY <1>1, <2>2 DEF Unix
<1>4. Unix(b) * Second \in Int
  BY <1>3, PartsAre
<1>5. CASE c.type = "DATE"
  <2>1. Len(b) = 3
    BY <1>5 DEF IsStored
  <2> QED
    BY <1>2, <1>3, <1>4, <1>5, <2>1 DEF Instant
<1>6. CASE c.type # "DATE"
  <2>1. Len(b) = 4 /\ c.s \in 0 .. 3 /\ b[4] \in 0 .. Second - 1 /\ b[4] % Ticks(c.s) = 0
    BY <1>6, StoredTimestamp
  <2>2. b[4] \in Int
    BY <2>1, PartsAre
  <2> QED
    BY <1>2, <1>3, <1>4, <1>6, <2>1, <2>2 DEF Instant
<1> QED
  BY <1>5, <1>6

\* An instant is fetched as what it is, or as its day.
LEMMA InstantFetched ==
  ASSUME NEW c, NEW o, NEW b, IsInstantType(c), IsStored(c, b),
         NEW t, t = arrowTypeFor(c, o), NEW r \in Appended(c, t, b),
         NEW W, W = Instant(b),
         t.kind = "timestamp" /\ t.p > 0 => Fits(W),
         t.kind = "date32" => W >= 0 \/ W % Day = 0
  PROVE  ArrowWorth(t, r) = IF t.kind = "date32" THEN (W \div Day) * Day ELSE W
<1> DEFINE U == Unix(b)
           S == Second
           D == Day \div Second
<1>1. U \in Int /\ W \in Int /\ S \in Nat \ {0} /\ D \in Nat \ {0} /\ Day = D * S /\ Day \in Nat \ {0}
  BY InstantIs, DayIs, PartsAre
<1>2. CASE t.kind = "date32"
  <2>1. c.type = "DATE"
    BY <1>2 DEF arrowTypeFor, Arrow, IsInstantType
  <2>2. W = U * S
    BY <2>1, InstantIs
  <2>3. r = <<Quo(U, D)>>
    BY <1>2 DEF Appended, IsInstantType
  <2>4. Quo(U, D) = W \div Day
    <3> HIDE DEF U, S, D
    <3>1. U >= 0 \/ (U * S) % (D * S) = 0
      <4>1. U < 0 => W < 0
        BY <1>1, <2>2
      <4> QED
        BY <1>1, <1>2, <2>2, <4>1
    <3> QED
      BY <1>1, <2>2, <3>1, QuoOfMultiples
  <2> QED
    BY <1>2, <2>3, <2>4 DEF ArrowWorth
<1>3. CASE t.kind # "date32"
  <2>1. t.kind = "timestamp" /\ t.p \in 0 .. 3 /\ (c.type = "DATE" => t.p = 0) /\ (c.type # "DATE" => t.p = c.s)
    <3>1. c.type # "DATE" => c.s \in 0 .. 3 /\ timestampUnit(c.s) = c.s
      BY InstantIs DEF timestampUnit
    <3>2. CASE c.type = "DATE"
      BY <1>3, <3>2 DEF arrowTypeFor, Arrow
    <3>3. CASE c.type = "TIMESTAMP"
      BY <3>1, <3>3 DEF arrowTypeFor, Arrow
    <3>4. CASE c.type = "TIMESTAMP_TZ"
      BY <3>1, <3>4 DEF arrowTypeFor, Arrow
    <3> QED
      BY <3>2, <3>3, <3>4 DEF IsInstantType
  <2>2. r = AppendTimestamp(b, t.p)
    BY <2>1 DEF Appended, IsInstantType
  <2>3. ArrowWorth(t, r) = r[1] * Ticks(t.p)
    BY <2>1 DEF ArrowWorth
  <2>4. CASE t.p = 0
    <3>1. r = <<U>> /\ Ticks(t.p) = S
      BY <2>2, <2>4 DEF AppendTimestamp, Ticks
    <3>2. W = U * S
      <4>1. CASE c.type = "DATE"
        BY <4>1, InstantIs
      <4>2. CASE c.type # "DATE"
        <5>1. b[4] \in 0 .. S - 1 /\ b[4] % S = 0 /\ W = U * S + b[4]
          BY <2>1, <2>4, <4>2, InstantIs DEF Ticks
        <5> HIDE DEF U, S
        <5>2. b[4] = 0
          BY <1>1, <5>1
        <5> QED
          BY <1>1, <5>1, <5>2
      <4> QED
        BY <4>1, <4>2
    <3> QED
      BY <1>3, <2>3, <3>1, <3>2
  <2>5. CASE t.p # 0
    <3>1. r = <<Quo(W, Ticks(t.p))>>
      BY <2>1, <2>2, <2>5 DEF AppendTimestamp, UnixNanos, Fits
    <3>2. Ticks(t.p) \in Nat \ {0}
      BY <2>1, TicksAre
    <3>3. W % Ticks(t.p) = 0
      <4>1. b[4] \in Nat /\ b[4] % Ticks(t.p) = 0 /\ W = U * S + b[4]
        BY <1>1, <2>1, <2>5, InstantIs
      <4> HIDE DEF U
      <4>2. (U * Second + b[4]) % Ticks(t.p) = 0
        BY <1>1, <2>1, <4>1, TicksOfIs
      <4> QED
        BY <4>1, <4>2
    <3> QED
      BY <1>1, <1>3, <2>3, <3>1, <3>2, <3>3, QuoExact
  <2> QED
    BY <2>4, <2>5
<1> QED
  BY <1>2, <1>3

\* What the server sends of a time span.
LEMMA StoredSpan ==
  ASSUME NEW c, NEW b, c.type = "INTERVAL_DS", IsStored(c, b)
  PROVE  c.s \in 0 .. 3 /\ b \in [1 .. 5 -> Int] /\ \A i \in 1 .. 5 : b[i] \in Int
<1>1. c.s \in 0 .. 3 /\ b \in [1 .. 5 -> Int]
  BY DEF IsStored
<1> QED
  BY <1>1

\* What a time span is fetched as.
LEMMA SpanTypeIs ==
  ASSUME NEW c, NEW o, c.type = "INTERVAL_DS"
  PROVE  arrowTypeFor(c, o) = CASE o.interval = "duration" -> Arrow("duration", timestampUnit(c.s), 0)
                                [] o.interval = "string" -> Arrow("text", 0, 0)
                                [] OTHER -> Arrow("monthdaynano", 0, 0)
BY DEF arrowTypeFor

\* A time span is fetched as what it is.
LEMMA SpanFetched ==
  ASSUME NEW c, NEW o, NEW b, c.type = "INTERVAL_DS", IsStored(c, b),
         NEW t, t = arrowTypeFor(c, o), NEW r \in Appended(c, t, b),
         NEW W, W = WireWorth(c, b),
         t.kind = "duration" => Fits(W) /\ W % Ticks(t.p) = 0
  PROVE  ArrowWorth(t, r) = W /\ t.kind # "date32"
<1> DEFINE d == DecodeIntervalDS(b)[1]
           n == IntervalTicks(b)
<1>1. W = d * Day + n /\ W \in Int
  <2>1. \A i \in 1 .. 5 : b[i] \in Int
    BY StoredSpan
  <2>2. b[1] \in Int /\ b[2] \in Int /\ b[3] \in Int /\ b[4] \in Int /\ b[5] \in Int
    BY <2>1
  <2>3. d \in Int
    BY <2>2 DEF DecodeIntervalDS
  <2>4. n = (b[2] - 3) * Hour + (b[3] - 3) * Minute + (b[4] - 3) * Second + b[5]
    BY DEF IntervalTicks, DecodeIntervalDS
  <2>5. (b[2] - 3) * Hour \in Int /\ (b[3] - 3) * Minute \in Int /\ (b[4] - 3) * Second \in Int /\ d * Day \in Int
    BY <2>2, <2>3, PartsAre
  <2>6. n \in Int
    BY <2>2, <2>4, <2>5
  <2> QED
    BY <2>5, <2>6 DEF WireWorth
<1>2. CASE t.kind = "duration"
  <2>1. t.p \in 0 .. 3
    BY <1>2, StoredSpan, SpanTypeIs DEF Arrow, timestampUnit
  <2>2. r = <<Quo(W, Ticks(t.p))>>
    BY <1>1, <1>2 DEF Appended, Fits
  <2>3. Quo(W, Ticks(t.p)) * Ticks(t.p) = W
    BY <1>1, <1>2, <2>1, QuoExact, TicksAre
  <2> QED
    BY <1>2, <2>2, <2>3 DEF ArrowWorth
<1>3. CASE t.kind # "duration"
  <2>1. t.kind \in {"monthdaynano", "text"}
    BY <1>3, SpanTypeIs DEF Arrow
  <2>2. r = <<0, d, n>>
    BY <2>1 DEF Appended
  <2>3. r[2] = d /\ r[3] = n /\ Len(r) = 3
    BY <2>2
  <2>4. ArrowWorth(t, r) = r[2] * Day + r[3]
    <3>1. CASE t.kind = "monthdaynano"
      BY <3>1 DEF ArrowWorth
    <3>2. CASE t.kind = "text"
      BY <2>3, <3>2 DEF ArrowWorth
    <3> QED
      BY <2>1, <3>1, <3>2
  <2> QED
    BY <1>1, <2>1, <2>3, <2>4
<1> QED
  BY <1>2, <1>3

\* Whatever is appended for a value is not NULL.
LEMMA AppendedIsValue ==
  ASSUME NEW c, NEW o, NEW b, b # <<>>, IsStored(c, b),
         NEW r \in Appended(c, arrowTypeFor(c, o), b)
  PROVE  r # <<>>
<1> DEFINE t == arrowTypeFor(c, o)
<1>1. c.type \in {"NUMBER", "DOUBLE", "BOOLEAN", "VARCHAR2", "CLOB", "RAW", "BLOB", "DATE", "TIMESTAMP", "TIMESTAMP_TZ", "INTERVAL_DS"}
  BY DEF IsStored
<1>2. CASE c.type = "NUMBER"
  <2>1. t = numberArrowType(c, o.number)
    BY <1>2 DEF arrowTypeFor
  <2>2. CASE t.kind = "int"
    <3>1. r \in AppendInt64(b[1])
      BY <1>2, <2>2 DEF Appended
    <3> DEFINE v == b[1]
               whole == v % 100 = 0 /\ Fits(v \div 100)
               f == Float(v)
               limit == Hundredths(Half)
    <3> HIDE DEF v
    <3>2. AppendInt64(v) = CASE whole -> {<<v \div 100>>}
                             [] ~whole /\ (f % 100 # 0 \/ Abs(f) > limit) -> {}
                             [] OTHER -> IF f = limit THEN {<<-Half>>, <<Half - 1>>} ELSE {<<f \div 100>>}
      BY Zenon DEF AppendInt64
    <3> DEFINE none == f % 100 # 0 \/ Abs(f) > limit
               x == v \div 100
               y == f \div 100
               z == -Half
               u == Half - 1
    <3> HIDE DEF whole, f, limit, none, x, y, z, u
    <3>3. AppendInt64(v) = CASE whole -> {<<x>>} [] ~whole /\ none -> {} [] OTHER -> IF f = limit THEN {<<z>>, <<u>>} ELSE {<<y>>}
      BY <3>2 DEF none, x, y, z, u
    <3>4. r \in {<<x>>, <<y>>, <<z>>, <<u>>}
      BY <3>1, <3>3 DEF v
    <3> QED
      BY <3>4
  <2>3. CASE t.kind = "decimal"
    <3>1. r \in AppendDecimal(b[1], t)
      BY <1>2, <2>3 DEF Appended
    <3>2. PICK x : r = <<x>>
      BY <3>1 DEF AppendDecimal
    <3> QED
      BY <3>2
  <2>4. CASE t.kind \in {"double", "text"}
    BY <1>2, <2>4 DEF Appended
  <2>5. t.kind \in {"int", "decimal", "double", "text"}
    BY <2>1 DEF numberArrowType, Arrow
  <2> QED
    BY <2>2, <2>3, <2>4, <2>5
<1>3. CASE c.type \in {"DOUBLE", "BOOLEAN"}
  BY <1>3 DEF Appended
<1>4. CASE c.type \in {"VARCHAR2", "CLOB", "RAW", "BLOB"}
  BY <1>4 DEF Appended
<1>5. CASE IsInstantType(c)
  BY <1>5 DEF Appended, IsInstantType, AppendTimestamp
<1>6. CASE c.type = "INTERVAL_DS"
  <2>1. t.kind \in {"duration", "monthdaynano", "text"}
    BY <1>6, SpanTypeIs DEF Arrow
  <2>2. CASE t.kind = "duration"
    <3>1. PICK x : r = <<x>>
      BY <1>6, <2>2 DEF Appended
    <3> QED
      BY <3>1
  <2>3. CASE t.kind \in {"monthdaynano", "text"}
    BY <1>6, <2>3 DEF Appended
  <2> QED
    BY <2>1, <2>2, <2>3
<1> QED
  BY <1>1, <1>2, <1>3, <1>4, <1>5, <1>6 DEF IsInstantType

---------------------------------------------------------------------------
(* From an Arrow array to the server.                                      *)

\* A value is not NULL if it has a part.
LEMMA NotEmpty ==
  ASSUME NEW v, Len(v) > 0
  PROVE  v # <<>>
OBVIOUS

\* So a number is not.
LEMMA OneNumber ==
  ASSUME NEW v \in [1 .. 1 -> Int]
  PROVE  Len(v) = 1 /\ v # <<>> /\ v[1] \in Int
<1>1. Len(v) = 1 /\ v[1] \in Int
  OBVIOUS
<1> QED
  BY <1>1, NotEmpty

\* What Append does.
LEMMA AppendedIs ==
  ASSUME NEW S, NEW e \in Seq(S), NEW n \in S
  PROVE  /\ Append(e, n) \in Seq(S) /\ Len(Append(e, n)) = Len(e) + 1
         /\ \A i \in 1 .. Len(e) : Append(e, n)[i] = e[i]
         /\ Append(e, n)[Len(e) + 1] = n
BY AppendProperties

\* The bytes of a date are decoded as the day and the second of the instant, if
\* its century fits the byte.
LEMMA EncodedDateIs ==
  ASSUME NEW t \in Int, NEW b, NEW day, day = t \div Day,
         b[1] = Byte(Quo(day, YearDays) + 4), b[2] = Rem(day, YearDays), b[3] = (t % Day) \div Second
  PROVE  /\ b[1] \in Int /\ b[2] \in Int /\ b[3] \in Int
         /\ day \in MinDay .. MaxDay => DecodedDay(b) = day /\ Unix(b) = t \div Second
<1> DEFINE S == Second
           D == Day \div Second
           q == Quo(day, YearDays)
           x == t % Day
           y == x \div S
           z == x % S
<1>1. S \in Nat \ {0} /\ D \in Nat \ {0} /\ Day \in Nat \ {0} /\ Day = D * S /\ YearDays \in Nat \ {0}
  BY PartsAre, DayIs
<1>2. day \in Int /\ x \in Int /\ t = Day * day + x
  <2>1. t \div Day \in Int /\ t % Day \in 0 .. Day - 1 /\ t = Day * (t \div Day) + (t % Day)
    BY <1>1, DivisionIs
  <2> QED
    BY <1>1, <2>1
<1>3. y \in Int /\ z \in 0 .. S - 1 /\ x = S * y + z
  BY <1>1, <1>2, DivisionIs
<1>4. q \in Int /\ Rem(day, YearDays) \in Int /\ day = YearDays * q + Rem(day, YearDays)
  BY <1>1, <1>2, QuoIs
<1>5. Byte(q + 4) \in Int
  BY <1>4 DEF Byte
<1>6. ASSUME day \in MinDay .. MaxDay
      PROVE  DecodedDay(b) = day /\ Unix(b) = t \div Second
  <2>1. q \in -4 .. 3
    <3>1. day < 4 * YearDays /\ -(5 * YearDays) < day
      BY <1>1, <1>2, <1>6, ValuesAssumption
    <3>2. day >= 0 => q < 4 /\ q >= 0
      <4>1. ASSUME day >= 0 PROVE -(4 * YearDays) < day
        BY <1>1, <1>2, <4>1
      <4> QED
        BY <1>1, <1>2, <3>1, <4>1, QuoBound, QuoIs
    <3>3. day < 0 => q > -5 /\ q <= 0
      <4>1. ASSUME day < 0 PROVE day < 5 * YearDays
        BY <1>1, <1>2, <4>1
      <4>2. ASSUME day < 0 PROVE -5 < q
        BY <1>1, <1>2, <3>1, <4>1, <4>2, QuoBound
      <4>3. ASSUME day < 0 PROVE q <= 0
        BY <1>1, <1>2, <4>3, QuoIs
      <4> QED
        BY <1>4, <4>2, <4>3
    <3> QED
      BY <1>2, <1>4, <3>2, <3>3
  <2>2. Byte(q + 4) - 4 = q
    BY <2>1 DEF Byte
  <2>3. DecodedDay(b) = day
    <3>1. DecodedDay(b) = q * YearDays + Rem(day, YearDays)
      BY <2>2 DEF DecodedDay
    <3>2. q * YearDays = YearDays * q
      BY <1>1, <1>4
    <3> QED
      BY <1>4, <3>1, <3>2
  <2>4. Unix(b) = day * D + y
    BY <1>2, <2>3, DayIs DEF Unix
  <2>5. t = S * (day * D + y) + z
    <3> HIDE DEF S, D, x, y, z
    <3>1. Day * day = S * (day * D)
      BY <1>1, <1>2
    <3>2. S * (day * D + y) = S * (day * D) + S * y
      BY <1>1, <1>2, <1>3
    <3>3. S * (day * D) \in Int /\ S * y \in Int
      BY <1>1, <1>2, <1>3
    <3> QED
      BY <1>1, <1>2, <1>3, <3>1, <3>2, <3>3
  <2>6. t \div S = day * D + y
    <3> DEFINE u == day * D + y
    <3>1. u \in Int
      BY <1>1, <1>2, <1>3
    <3> HIDE DEF S, u, z
    <3>2. (S * u + z) \div S = u
      BY <1>1, <1>3, <3>1, DivisionOf
    <3> QED
      BY <2>5, <3>2 DEF u
  <2> QED
    BY <2>3, <2>4, <2>6
<1> QED
  BY <1>1, <1>3, <1>4, <1>5, <1>6

\* An instant is the same on the server, if its century fits the byte and a
\* date is whole days.
LEMMA SentInstant ==
  ASSUME NEW t, NEW o, NEW v, t.kind \in {"date32", "date64", "timestamp"}, IsSent(t, v),
         NEW c, c = oracleTypeForArrow(t, o), NEW b, b = bindForArray(t, v), NEW W, W = ArrowWorth(t, v)
  PROVE  /\ b # <<>> /\ IsInstantType(c) /\ IsStored(c, b) /\ W \in Int
         /\ W \div Day \in MinDay .. MaxDay /\ (t.kind = "date64" => W % Day = 0) => Instant(b) = W
<1> DEFINE S == Second
<1>1. S \in Nat \ {0} /\ Day \in Nat \ {0}
  BY PartsAre
<1>2. v[1] \in Int
  BY DEF IsSent
<1>3. CASE t.kind \in {"date32", "date64"}
  <2>1. W \in Int
    <3>1. Ticks(1) \in Nat
      BY TicksAre
    <3> QED
      BY <1>1, <1>2, <1>3, <3>1 DEF ArrowWorth
  <2>2. PICK k \in Int : /\ b = EncodeDate(k * Day)
                         /\ (t.kind = "date64" => W % Day = 0) => k * Day = W
    <3>1. CASE t.kind = "date32"
      BY <1>2, <3>1 DEF bindForArray, ArrowWorth
    <3>2. CASE t.kind = "date64"
      <4>1. b = EncodeDate(Quo(W, Day) * Day)
        BY <3>2 DEF bindForArray, ArrowWorth
      <4>2. Quo(W, Day) \in Int
        BY <1>1, <2>1, SplitIs
      <4>3. W % Day = 0 => Quo(W, Day) * Day = W
        BY <1>1, <2>1, QuoExact
      <4> QED
        BY <3>2, <4>1, <4>2, <4>3
    <3> QED
      BY <1>3, <3>1, <3>2
  <2> DEFINE V == k * Day
  <2>3. V \in Int
    BY <1>1
  <2>4. /\ b[1] = Byte(Quo(V \div Day, YearDays) + 4) /\ b[2] = Rem(V \div Day, YearDays) /\ b[3] = (V % Day) \div Second
        /\ Len(b) = 3 /\ b = <<b[1], b[2], b[3]>>
    BY <2>2 DEF EncodeDate
  <2>5. V % Second = 0
    <3> DEFINE D == Day \div Second
    <3>1. D \in Nat /\ Day = D * Second
      BY DayIs
    <3> HIDE DEF D
    <3>2. V = (k * D) * Second /\ k * D \in Int
      BY <1>1, <3>1
    <3> QED
      BY <1>1, <3>2, MultipleOf
  <2> HIDE DEF V
  <2>6. b[1] \in Int /\ b[2] \in Int /\ b[3] \in Int
    BY <2>3, <2>4, EncodedDateIs
  <2>7. IsStored(c, b) /\ c.type = "DATE"
    <3>1. b \in [1 .. 3 -> Int]
      BY <2>4, <2>6
    <3>2. c = Oracle("DATE", 0, 0)
      BY <1>3 DEF oracleTypeForArrow
    <3> QED
      BY <3>1, <3>2 DEF IsStored, Oracle
  <2>8. ASSUME W \div Day \in MinDay .. MaxDay, t.kind = "date64" => W % Day = 0
        PROVE  Instant(b) = W
    <3>1. V = W
      BY <2>2, <2>8 DEF V
    <3>2. Unix(b) = V \div Second
      BY <2>3, <2>4, <2>8, <3>1, EncodedDateIs
    <3>3. V \div Second \in Int /\ V = Second * (V \div Second)
      BY <1>1, <2>3, <2>5, ExactIs
    <3>4. Instant(b) = Unix(b) * Second + 0
      BY <2>4 DEF Instant
    <3> QED
      BY <1>1, <2>3, <3>1, <3>2, <3>3, <3>4
  <2>9. b # <<>>
    BY <2>4
  <2> QED
    BY <2>1, <2>7, <2>8, <2>9 DEF IsInstantType
<1>4. CASE t.kind = "timestamp"
  <2> DEFINE T == Ticks(t.p)
  <2>1. t.p \in 0 .. 3
    BY <1>4 DEF IsSent
  <2>2. T \in Nat \ {0}
    BY <2>1, TicksAre
  <2>3. W = v[1] * T /\ W \in Int
    BY <1>2, <1>4, <2>2 DEF ArrowWorth
  <2>4. c.type \in {"TIMESTAMP", "TIMESTAMP_TZ"} /\ c.s = t.p /\ b = Append(EncodeDate(W), W % Second)
    BY <1>4, <2>3 DEF oracleTypeForArrow, Oracle, bindForArray, EncodeTimestamp
  <2>5. /\ b[1] = Byte(Quo(W \div Day, YearDays) + 4) /\ b[2] = Rem(W \div Day, YearDays) /\ b[3] = (W % Day) \div Second
        /\ b[4] = W % Second /\ Len(b) = 4 /\ b \in [1 .. 4 -> Int]
    <3> DEFINE x == Byte(Quo(W \div Day, YearDays) + 4)
               y == Rem(W \div Day, YearDays)
               z == (W % Day) \div Second
               n == W % Second
    <3> DEFINE e == EncodeDate(W)
    <3>1. e = <<x, y, z>>
      BY DEF EncodeDate
    <3>2. e[1] = x /\ e[2] = y /\ e[3] = z
      BY <3>1
    <3>3. x \in Int /\ y \in Int /\ z \in Int
      BY <2>3, <3>2, EncodedDateIs
    <3>4. n \in Int
      BY <1>1, <2>3
    <3> HIDE DEF x, y, z, n, e
    <3>5. e \in Seq(Int)
      BY <3>1, <3>3
    <3>6. Len(e) = 3
      BY <3>1
    <3>7. b = Append(e, n)
      BY <2>4 DEF e, n
    <3>8. b \in Seq(Int) /\ Len(b) = 4 /\ b[1] = e[1] /\ b[2] = e[2] /\ b[3] = e[3] /\ b[4] = n
      <4>1. b \in Seq(Int) /\ Len(b) = Len(e) + 1 /\ b[Len(e) + 1] = n /\ \A i \in 1 .. Len(e) : b[i] = e[i]
        BY <3>4, <3>5, <3>7, AppendedIs
      <4> QED
        BY <3>6, <4>1
    <3>9. b \in [1 .. 4 -> Int]
      BY <3>8, LenProperties
    <3> QED
      BY <3>2, <3>8, <3>9 DEF x, y, z, n
  <2>6. W % S \in 0 .. S - 1 /\ W \div S \in Int /\ W = S * (W \div S) + (W % S)
    BY <1>1, <2>3, DivisionIs
  <2>7. b[1] \in Int /\ b[2] \in Int /\ b[3] \in Int /\ b[4] \in 0 .. Second - 1 /\ b[4] \in Int
    BY <1>1, <2>3, <2>5, <2>6, EncodedDateIs
  <2>8. b[4] % T = 0
    <3>1. PICK k \in Nat \ {0} : S = k * T
      BY <2>1, TicksAre
    <3> DEFINE q == W \div S
               x == W % S
    <3> HIDE DEF S, T, q, x
    <3>2. x = (v[1] - k * q) * T
      <4>1. v[1] * T = (k * T) * q + x /\ x \in Int /\ q \in Int
        BY <1>1, <2>3, <2>6, <3>1 DEF q, x
      <4>2. (k * T) * q = (k * q) * T /\ k * q \in Int
        BY <2>2, <3>1, <4>1
      <4>3. (v[1] - k * q) * T = v[1] * T - (k * q) * T
        BY <1>2, <2>2, <4>2
      <4>4. v[1] * T \in Int /\ (k * q) * T \in Int
        BY <1>2, <2>2, <4>2
      <4> QED
        BY <4>1, <4>2, <4>3, <4>4
    <3>3. v[1] - k * q \in Int
      BY <1>2, <2>6, <3>1 DEF q
    <3>4. x % T = 0
      BY <2>2, <3>2, <3>3, MultipleOf
    <3> QED
      BY <2>5, <3>4 DEF x, S
  <2>9. IsStored(c, b) /\ IsInstantType(c)
    <3>1. b \in [1 .. 4 -> Int]
      BY <2>5
    <3>2. CASE c.type = "TIMESTAMP"
      BY <2>1, <2>4, <2>7, <2>8, <3>1, <3>2 DEF IsStored, IsInstantType
    <3>3. CASE c.type = "TIMESTAMP_TZ"
      BY <2>1, <2>4, <2>7, <2>8, <3>1, <3>3 DEF IsStored, IsInstantType
    <3> QED
      BY <2>4, <3>2, <3>3
  <2>10. ASSUME W \div Day \in MinDay .. MaxDay
         PROVE  Instant(b) = W
    <3>1. Unix(b) = W \div Second
      BY <2>3, <2>5, <2>10, EncodedDateIs
    <3>2. Instant(b) = Unix(b) * Second + b[4]
      BY <2>5 DEF Instant
    <3> QED
      BY <1>1, <2>3, <2>5, <2>6, <3>1, <3>2
  <2>11. b # <<>>
    <3>1. Len(b) = 4
      BY <2>5
    <3> QED
      BY <3>1, NotEmpty
  <2> QED
    BY <1>4, <2>3, <2>9, <2>10, <2>11
<1> QED
  BY <1>3, <1>4

\* The parts of a time span shorter than a day come back from their bytes.
LEMMA SplitIntervalIs ==
  ASSUME NEW days \in Int, NEW n \in Int, -Day < n, n < Day, NEW b, b = SplitInterval(days, n)
  PROVE  DecodeIntervalDS(b)[1] = days /\ IntervalTicks(b) = n
<1> DEFINE h == Quo(n, Hour)
           x == Rem(n, Hour)
           m == Quo(x, Minute)
           y == Rem(x, Minute)
           s == Quo(y, Second)
           z == Rem(y, Second)
<1>1. h \in Int /\ x \in Int /\ n = Hour * h + x /\ -Hour < x /\ x < Hour
  BY PartsAre, SplitIs
<1>2. m \in Int /\ y \in Int /\ x = Minute * m + y /\ -Minute < y /\ y < Minute
  BY <1>1, PartsAre, SplitIs
<1>3. s \in Int /\ z \in Int /\ y = Second * s + z
  BY <1>2, PartsAre, SplitIs
<1>4. -ClockParts < h /\ h < ClockParts
  BY PartsAre, QuoBound
<1>5. -ClockParts < m /\ m < ClockParts
  BY <1>1, PartsAre, QuoBound
<1>6. -ClockParts < s /\ s < ClockParts
  BY <1>2, PartsAre, QuoBound
<1>7. b = EncodeIntervalDS(days, h, m, s, z)
  BY DEF SplitInterval
<1> HIDE DEF h, m, s, x, y, z
<1>8. h \in -3 .. 3 /\ m \in -3 .. 3 /\ s \in -3 .. 3
  BY <1>1, <1>2, <1>3, <1>4, <1>5, <1>6, PartsAre
<1>9. Byte(h + 3) - 3 = h /\ Byte(m + 3) - 3 = m /\ Byte(s + 3) - 3 = s
  BY <1>8 DEF Byte
<1>10. /\ DecodeIntervalDS(b)[1] = days /\ DecodeIntervalDS(b)[2] = h /\ DecodeIntervalDS(b)[3] = m
       /\ DecodeIntervalDS(b)[4] = s /\ DecodeIntervalDS(b)[5] = z
  BY <1>7, <1>9 DEF DecodeIntervalDS, EncodeIntervalDS
<1>11. IntervalTicks(b) = h * Hour + m * Minute + s * Second + z
  BY <1>10 DEF IntervalTicks
<1>12. h * Hour = Hour * h /\ m * Minute = Minute * m /\ s * Second = Second * s
  BY <1>1, <1>2, <1>3, PartsAre
<1>13. h * Hour \in Int /\ m * Minute \in Int /\ s * Second \in Int
  BY <1>1, <1>2, <1>3, PartsAre
<1> QED
  BY <1>1, <1>2, <1>3, <1>10, <1>11, <1>12, <1>13

\* A time span is the same on the server, if it is an int64 of ticks and its days
\* are apart from the rest.
LEMMA SentSpan ==
  ASSUME NEW t, NEW o, NEW v, t.kind \in {"duration", "monthdaynano"}, IsSent(t, v), ~BindRefused(t, v),
         NEW c, c = oracleTypeForArrow(t, o), NEW b, b = bindForArray(t, v), NEW W, W = ArrowWorth(t, v)
  PROVE  /\ b # <<>> /\ c.type = "INTERVAL_DS" /\ IsStored(c, b)
         /\ (t.kind = "duration" => Fits(W)) /\ (t.kind = "monthdaynano" => Abs(v[3]) < Day)
               => WireWorth(c, b) = W
<1>1. c = Oracle("INTERVAL_DS", 0, 3)
  BY DEF oracleTypeForArrow
<1> DEFINE Split(days, n) == b = SplitInterval(days, n) /\ days \in Int /\ n \in Int
<1>2. ASSUME NEW days, NEW n, Split(days, n)
      PROVE  b # <<>> /\ IsStored(c, b) /\ (-Day < n /\ n < Day => WireWorth(c, b) = days * Day + n)
  <2> DEFINE h == Byte(Quo(n, Hour) + 3)
             m == Byte(Quo(Rem(n, Hour), Minute) + 3)
             s == Byte(Quo(Rem(Rem(n, Hour), Minute), Second) + 3)
             z == Rem(Rem(Rem(n, Hour), Minute), Second)
  <2>1. Rem(n, Hour) \in Int /\ Quo(n, Hour) \in Int
    BY <1>2, PartsAre, QuoIs
  <2>2. Rem(Rem(n, Hour), Minute) \in Int /\ Quo(Rem(n, Hour), Minute) \in Int
    BY <2>1, PartsAre, QuoIs
  <2>3. z \in Int /\ Quo(Rem(Rem(n, Hour), Minute), Second) \in Int
    BY <2>2, PartsAre, QuoIs
  <2>4. h \in Int /\ m \in Int /\ s \in Int
    BY <2>1, <2>2, <2>3 DEF Byte
  <2>5. b = <<days, h, m, s, z>>
    BY <1>2 DEF SplitInterval, EncodeIntervalDS
  <2> HIDE DEF h, m, s, z
  <2>6. b \in [1 .. 5 -> Int] /\ Len(b) = 5
    BY <1>2, <2>3, <2>4, <2>5 DEF z
  <2>7. b # <<>>
    BY <2>6
  <2>8. IsStored(c, b)
    BY <1>1, <2>6 DEF IsStored, Oracle
  <2>9. -Day < n /\ n < Day => WireWorth(c, b) = days * Day + n
    BY <1>1, <1>2, SplitIntervalIs DEF WireWorth, Oracle
  <2> QED
    BY <2>7, <2>8, <2>9
<1>3. CASE t.kind = "duration"
  <2> DEFINE d == Wrap(v[1] * Ticks(t.p))
  <2>1. v[1] \in Int /\ Ticks(t.p) \in Nat
    BY <1>3, TicksAre DEF IsSent
  <2>2. W = v[1] * Ticks(t.p) /\ W \in Int
    BY <1>3, <2>1 DEF ArrowWorth
  <2>3. d \in Int
    BY <2>2, HalfIs DEF Wrap
  <2>4. /\ Quo(d, Day) \in Int /\ Rem(d, Day) \in Int /\ d = Day * Quo(d, Day) + Rem(d, Day)
        /\ -Day < Rem(d, Day) /\ Rem(d, Day) < Day
    <3> HIDE DEF d
    <3> QED
      BY <2>3, PartsAre, SplitIs
  <2>5. b = SplitInterval(Quo(d, Day), Rem(d, Day))
    BY <1>3 DEF bindForArray
  <2>6. b # <<>> /\ IsStored(c, b) /\ WireWorth(c, b) = Quo(d, Day) * Day + Rem(d, Day)
    BY <1>2, <2>4, <2>5
  <2>7. Fits(W) => d = W
    BY <2>2 DEF Fits
  <2>8. Quo(d, Day) * Day = Day * Quo(d, Day)
    BY <2>4, PartsAre
  <2> QED
    BY <1>1, <1>3, <2>4, <2>6, <2>7, <2>8 DEF Oracle
<1>4. CASE t.kind = "monthdaynano"
  <2>1. v[2] \in Int /\ v[3] \in Int
    BY <1>4 DEF IsSent
  <2>2. b = SplitInterval(v[2], v[3]) /\ W = v[2] * Day + v[3]
    BY <1>4 DEF bindForArray, ArrowWorth
  <2>3. Abs(v[3]) < Day => -Day < v[3] /\ v[3] < Day
    BY <2>1, PartsAre DEF Abs
  <2> QED
    BY <1>1, <1>2, <1>4, <2>1, <2>2, <2>3 DEF Oracle
<1> QED
  BY <1>3, <1>4

\* Any other value is what it was, but an empty text is NULL.
LEMMA SentOther ==
  ASSUME NEW t, NEW o, NEW v, t.kind \notin {"date32", "date64", "timestamp", "duration", "monthdaynano"}, IsSent(t, v),
         o.boolean \in BOOLEAN, NEW c, c = oracleTypeForArrow(t, o), NEW b, b = bindForArray(t, v)
  PROVE  \/ b = <<>> /\ v = <<0>>
         \/ /\ b # <<>> /\ c.type \in {"NUMBER", "BOOLEAN", "DOUBLE", "VARCHAR2", "CLOB", "RAW", "BLOB"} /\ IsStored(c, b)
            /\ WireWorth(c, b) = ArrowWorth(t, v)
<1>1. t.kind \in {"int", "uint", "bool", "decimal", "double", "text", "bytes"}
  BY DEF IsSent
<1>2. CASE t.kind \in {"int", "uint"}
  <2>1. t.s \in 1 .. MaxPrecision /\ v \in [1 .. 1 -> Int] /\ v[1] \in Int
    BY <1>2 DEF IsSent
  <2>2. c = Oracle("NUMBER", t.s, 0) /\ b = <<Hundredths(v[1])>>
    BY <1>2 DEF oracleTypeForArrow, bindForArray
  <2>3. b[1] \in Int /\ b \in [1 .. 1 -> Int] /\ b # <<>>
    BY <2>1, <2>2 DEF Hundredths
  <2>4. IsStored(c, b)
    BY <2>1, <2>2, <2>3, ValuesAssumption DEF IsStored, Oracle
  <2>5. WireWorth(c, b) = ArrowWorth(t, v)
    BY <1>2, <2>2 DEF WireWorth, ArrowWorth, Oracle
  <2> QED
    BY <2>2, <2>3, <2>4, <2>5 DEF Oracle
<1>3. CASE t.kind = "bool"
  <2>1. v \in {<<0>>, <<1>>} /\ b = <<Hundredths(v[1])>>
    BY <1>3 DEF IsSent, bindForArray
  <2>2. b \in {<<0>>, <<100>>}
    BY <2>1 DEF Hundredths
  <2>3. b \in [1 .. 1 -> Int] /\ b # <<>>
    BY <2>2
  <2>4. c = Oracle("BOOLEAN", 0, 0) \/ c = Oracle("NUMBER", 1, 0)
    BY <1>3 DEF oracleTypeForArrow
  <2>5. IsStored(c, b)
    <3>1. CASE c = Oracle("BOOLEAN", 0, 0)
      BY <2>2, <3>1 DEF IsStored, Oracle
    <3>2. CASE c = Oracle("NUMBER", 1, 0)
      BY <2>3, <3>2, ValuesAssumption DEF IsStored, Oracle
    <3> QED
      BY <2>4, <3>1, <3>2
  <2>6. WireWorth(c, b) = ArrowWorth(t, v)
    BY <1>3, <2>1, <2>4 DEF WireWorth, ArrowWorth, Oracle
  <2> QED
    BY <2>3, <2>4, <2>5, <2>6 DEF Oracle
<1>4. CASE t.kind = "decimal"
  <2>1. t.p \in Nat \ {0} /\ t.s \in -1 .. 2 /\ v \in [1 .. 1 -> Int] /\ b = v
    <3>1. b = v
      BY <1>4 DEF bindForArray
    <3> QED
      BY <1>4, <3>1 DEF IsSent
  <2>2. Len(v) = 1 /\ v # <<>>
    BY <2>1, OneNumber
  <2>3. c = IF t.p > MaxPrecision THEN NoPrecision ELSE Oracle("NUMBER", t.p, t.s)
    BY <1>4 DEF oracleTypeForArrow
  <2>4. c.type = "NUMBER" /\ c.p \in 0 .. MaxPrecision /\ c.s \in {-127} \cup -1 .. 2
    BY <2>1, <2>3, ValuesAssumption DEF NoPrecision, Oracle
  <2>5. IsStored(c, b)
    BY <2>1, <2>4 DEF IsStored
  <2>6. WireWorth(c, b) = ArrowWorth(t, v)
    BY <1>4, <2>1, <2>2, <2>4 DEF WireWorth, ArrowWorth
  <2> QED
    BY <2>1, <2>2, <2>4, <2>5, <2>6
<1>5. CASE t.kind = "double"
  <2>1. v \in [1 .. 1 -> Int] /\ b = v /\ c = Oracle("DOUBLE", 0, 0)
    <3>1. b = v /\ c = Oracle("DOUBLE", 0, 0)
      BY <1>5 DEF bindForArray, oracleTypeForArrow
    <3> QED
      BY <1>5, <3>1 DEF IsSent
  <2>2. Len(v) = 1 /\ v # <<>>
    BY <2>1, OneNumber
  <2>3. IsStored(c, b)
    BY <2>1 DEF IsStored, Oracle
  <2>4. WireWorth(c, b) = ArrowWorth(t, v)
    BY <1>5, <2>1, <2>2 DEF WireWorth, ArrowWorth, Oracle
  <2> QED
    BY <2>1, <2>2, <2>3, <2>4 DEF Oracle
<1>6. CASE t.kind \in {"text", "bytes"}
  <2>1. v \in [1 .. 1 -> Nat] /\ b = (IF v[1] = 0 THEN <<>> ELSE v)
    BY <1>6 DEF IsSent, bindForArray
  <2>2. Len(v) = 1 /\ v # <<>> /\ v = <<v[1]>> /\ v \in [1 .. 1 -> Int]
    BY <2>1
  <2>3. c.type \in {"VARCHAR2", "CLOB", "RAW", "BLOB"}
    BY <1>6 DEF oracleTypeForArrow, Oracle
  <2>4. CASE v[1] = 0
    BY <2>1, <2>2, <2>4
  <2>5. CASE v[1] # 0
    <3>1. b = v
      BY <2>1, <2>5
    <3>2. IsStored(c, b)
      BY <2>2, <2>3, <3>1 DEF IsStored
    <3>3. WireWorth(c, b) = ArrowWorth(t, v)
      BY <1>6, <2>2, <2>3, <3>1 DEF WireWorth, ArrowWorth
    <3> QED
      BY <2>2, <2>3, <3>1, <3>2, <3>3
  <2> QED
    BY <2>4, <2>5
<1> QED
  BY <1>1, <1>2, <1>3, <1>4, <1>5, <1>6

---------------------------------------------------------------------------
(* The inductive invariant: what each stage of a journey has behind it.    *)

\* The journey is one of those that may be.
JourneyOK ==
  /\ journey.way \in {"ingest", "column", "out"} /\ journey.options.boolean \in BOOLEAN
  /\ given # <<>> =>
       CASE journey.way = "ingest" -> IsSent(journey.type, given)
         [] journey.way = "column" -> IsStored(journey.type, given)
         [] journey.way = "out" -> IsStored(outBindColumns(journey.type, journey.options), given)

\* The bytes bindForArray makes of the value.
Bound == IF given = <<>> THEN <<>> ELSE bindForArray(journey.type, given)

\* The column has its type, and an ingested value that is bound its bytes.
Prepared ==
  stage # "start" =>
    CASE journey.way = "ingest" ->
           /\ column = oracleTypeForArrow(journey.type, journey.options)
           /\ stage \notin {"created", "refused"} => ~BindRefused(journey.type, given) /\ bytes = Bound
      [] journey.way = "column" -> column = journey.type /\ bytes = given
      [] journey.way = "out" -> column = outBindColumns(journey.type, journey.options) /\ bytes = given

\* A column holds what the server let into it.
Accepted ==
  stage \in {"stored", "described", "fetched", "failed"} /\ journey.way # "out" /\ bytes # <<>> =>
    \E long \in BOOLEAN : Holds(column, long, bytes)

\* The Arrow type is that of the column.
Described == stage \in {"described", "fetched", "failed"} => back = arrowTypeFor(column, journey.options)

\* What was fetched is what may be appended, and nothing fails that can be.
Landed ==
  /\ stage = "fetched" => IF bytes = <<>> THEN result = <<>> ELSE result \in Appended(column, back, bytes)
  /\ stage = "failed" => bytes # <<>> /\ Appended(column, back, bytes) = {}

\* The conjunction is inductive.
ValuesInv ==
  /\ stage \in {"start", "created", "bound", "stored", "described", "fetched", "failed", "refused"}
  /\ stage \in {"created", "bound"} => journey.way = "ingest"
  /\ JourneyOK /\ Prepared /\ Accepted /\ Described /\ Landed

\* A journey starts with nothing behind it.
LEMMA ValuesInitInv == ASSUME ValuesInit PROVE ValuesInv
<1>1. PICK j \in Journeys : journey = [way |-> j.way, type |-> j.type, options |-> j.options] /\ given \in j.values \cup {<<>>}
  BY DEF ValuesInit
<1>2. journey.way = j.way /\ journey.type = j.type /\ journey.options = j.options
  BY <1>1
<1>3. JourneyOK
  BY <1>1, <1>2, JourneysAssumption DEF JourneyOK
<1> QED
  BY <1>3 DEF ValuesInit, ValuesInv, Prepared, Accepted, Described, Landed

\* Each step puts one more thing behind it.
LEMMA ValuesNextInv == ASSUME ValuesInv, [ValuesNext]_valuesVars PROVE ValuesInv'
<1> USE DEF ValuesInv
<1>1. CASE UNCHANGED valuesVars
  BY <1>1 DEF valuesVars, JourneyOK, Prepared, Accepted, Described, Landed, Bound
<1>2. ASSUME UNCHANGED <<journey, given>> PROVE JourneyOK'
  BY <1>2 DEF JourneyOK
<1>3. CASE CreateColumn
  BY <1>2, <1>3 DEF CreateColumn, At, Prepared, Accepted, Described, Landed
<1>4. CASE RefuseBind
  BY <1>2, <1>4 DEF RefuseBind, At, Prepared, Accepted, Described, Landed
<1>5. CASE BindValue
  BY <1>2, <1>5 DEF BindValue, At, Prepared, Accepted, Described, Landed, Bound
<1>6. CASE StoreValue
  <2>1. stage' = "stored" /\ bytes # <<>> => Holds(column, BoundAsLong(journey.type, given), bytes)
    BY <1>6 DEF StoreValue
  <2>2. BoundAsLong(journey.type, given) \in BOOLEAN
    BY DEF BoundAsLong
  <2>3. Accepted'
    BY <1>6, <2>1, <2>2 DEF StoreValue, Accepted
  <2> QED
    BY <1>2, <1>6, <2>3 DEF StoreValue, At, Prepared, Described, Landed, Bound
<1>7. CASE SelectColumn
  BY <1>2, <1>7 DEF SelectColumn, At, Prepared, Accepted, Described, Landed
<1>8. CASE ReturnBind
  BY <1>2, <1>8 DEF ReturnBind, At, Prepared, Accepted, Described, Landed
<1>9. CASE Describe
  BY <1>2, <1>9 DEF Describe, At, Prepared, Accepted, Described, Landed, Bound
<1>10. CASE Fetch
  BY <1>2, <1>10 DEF Fetch, At, Prepared, Accepted, Described, Landed, Bound
<1>11. CASE FetchFails
  BY <1>2, <1>11 DEF FetchFails, At, Prepared, Accepted, Described, Landed, Bound
<1> QED
  BY <1>1, <1>3, <1>4, <1>5, <1>6, <1>7, <1>8, <1>9, <1>10, <1>11 DEF ValuesNext

\* arrow_conv.go: in every state, what a journey has behind it is what its stages do.
THEOREM ValuesInvariance == ValuesSpec => []ValuesInv
<1>1. ValuesInit => ValuesInv
  BY ValuesInitInv
<1>2. ValuesInv /\ [ValuesNext]_valuesVars => ValuesInv'
  BY ValuesNextInv
<1> QED
  BY <1>1, <1>2, PTL DEF ValuesSpec

---------------------------------------------------------------------------
(* What comes back.                                                        *)

\* What is on its way to an Arrow array is a value of its column.
LEMMA OnTheServer ==
  ASSUME ValuesInv, stage \in {"stored", "described", "fetched", "failed"}
  PROVE  /\ given = <<>> => bytes = <<>>
         /\ given # <<>> /\ bytes = <<>> => given = <<0>>
         /\ bytes # <<>> => IsStored(column, bytes)
<1>1. JourneyOK /\ Prepared
  BY DEF ValuesInv
<1>2. CASE given = <<>>
  BY <1>1, <1>2 DEF JourneyOK, Prepared, Bound
<1>3. ASSUME given # <<>>, journey.way = "ingest"
      PROVE  (bytes = <<>> /\ given = <<0>>) \/ (bytes # <<>> /\ IsStored(column, bytes))
  <2>1. /\ column = oracleTypeForArrow(journey.type, journey.options) /\ bytes = bindForArray(journey.type, given)
        /\ ~BindRefused(journey.type, given) /\ IsSent(journey.type, given) /\ journey.options.boolean \in BOOLEAN
    BY <1>1, <1>3 DEF JourneyOK, Prepared, Bound
  <2>2. CASE journey.type.kind \in {"date32", "date64", "timestamp"}
    BY <2>1, <2>2, SentInstant
  <2>3. CASE journey.type.kind \in {"duration", "monthdaynano"}
    BY <2>1, <2>3, SentSpan
  <2>4. CASE journey.type.kind \notin {"date32", "date64", "timestamp", "duration", "monthdaynano"}
    <3>1. bytes # <<>> => IsStored(column, bytes)
      BY <2>1, <2>4, SentOther
    <3>2. bytes = <<>> => given = <<0>>
      BY <2>1, <2>4, SentOther
    <3> QED
      BY <3>1, <3>2
  <2> QED
    BY <2>2, <2>3, <2>4
<1>4. ASSUME given # <<>>, journey.way # "ingest"
      PROVE  bytes = given /\ IsStored(column, bytes)
  BY <1>1, <1>4 DEF JourneyOK, Prepared
<1> QED
  BY <1>2, <1>3, <1>4

\* And it is worth what was given, unless it is a case of Changed.
LEMMA WorthOnTheServer ==
  ASSUME ValuesInv, stage \in {"stored", "described", "fetched", "failed"}, bytes # <<>>, ~Changed
  PROVE  WireWorth(column, bytes) = Worth
<1>1. JourneyOK /\ Prepared /\ given # <<>>
  BY OnTheServer DEF ValuesInv
<1>2. CASE journey.way # "ingest"
  BY <1>2 DEF Worth
<1>3. CASE journey.way = "ingest"
  <2> DEFINE t == journey.type
             W == ArrowWorth(t, given)
  <2>1. /\ column = oracleTypeForArrow(t, journey.options) /\ bytes = bindForArray(t, given)
        /\ ~BindRefused(t, given) /\ IsSent(t, given) /\ journey.options.boolean \in BOOLEAN
    BY <1>1, <1>3 DEF JourneyOK, Prepared, Bound
  <2>2. Worth = W
    BY <1>3 DEF Worth
  <2>3. CASE t.kind \in {"date32", "date64", "timestamp"}
    <3>1. /\ IsInstantType(column) /\ W \in Int
          /\ W \div Day \in MinDay .. MaxDay /\ (t.kind = "date64" => W % Day = 0) => Instant(bytes) = W
      BY <2>1, <2>3, SentInstant
    <3>2. ~YearWraps /\ ~PartOfDay
      BY DEF Changed
    <3>3. W \div Day \in MinDay .. MaxDay /\ (t.kind = "date64" => W % Day = 0)
      BY <1>3, <2>2, <3>1, <3>2 DEF YearWraps, PartOfDay, IsInstant, IsInstantType
    <3>4. WireWorth(column, bytes) = Instant(bytes)
      BY <3>1 DEF WireWorth, IsInstantType
    <3> QED
      BY <2>2, <3>1, <3>3, <3>4
  <2>4. CASE t.kind \in {"duration", "monthdaynano"}
    <3>1. /\ column.type = "INTERVAL_DS"
          /\ (t.kind = "duration" => Fits(W)) /\ (t.kind = "monthdaynano" => Abs(given[3]) < Day) => WireWorth(column, bytes) = W
      BY <2>1, <2>4, SentSpan
    <3>2. ~SpanOverflows
      BY DEF Changed
    <3>3. t.kind = "duration" => Fits(W)
      BY <1>3, <2>2, <3>1, <3>2 DEF SpanOverflows, SentAs
    <3>4. t.kind = "monthdaynano" => Abs(given[3]) < Day
      <4>1. t.kind = "monthdaynano" => ~(Abs(given[3]) >= Day)
        BY <1>3, <3>1, <3>2 DEF SpanOverflows, SentAs
      <4>2. t.kind = "monthdaynano" => given[3] \in Int
        BY <2>1 DEF IsSent
      <4> QED
        BY <4>1, <4>2, PartsAre DEF Abs
    <3> QED
      BY <2>2, <3>1, <3>3, <3>4
  <2>5. CASE t.kind \notin {"date32", "date64", "timestamp", "duration", "monthdaynano"}
    BY <2>1, <2>2, <2>5, SentOther
  <2> QED
    BY <2>3, <2>4, <2>5
<1> QED
  BY <1>2, <1>3

\* A value that is fetched is worth what was given.
LEMMA WorthFetched ==
  ASSUME ValuesInv, stage = "fetched", bytes # <<>>, ~Changed
  PROVE  ArrowWorth(back, result) = Expected
<1> DEFINE W == WireWorth(column, bytes)
<1>1. Worth = W
  BY WorthOnTheServer
<1>2. IsStored(column, bytes) /\ back = arrowTypeFor(column, journey.options) /\ result \in Appended(column, back, bytes)
  BY OnTheServer DEF ValuesInv, Described, Landed
<1>3. /\ ~NanosWrap /\ ~DayRoundsUp /\ ~SpanOverflows /\ ~SpanCut /\ ~FloatRounds /\ ~ScaleRounds /\ ~IntRounds
  BY DEF Changed
<1>4. column.type \in {"NUMBER", "DOUBLE", "BOOLEAN", "VARCHAR2", "CLOB", "RAW", "BLOB", "DATE", "TIMESTAMP", "TIMESTAMP_TZ", "INTERVAL_DS"}
  BY <1>2 DEF IsStored
<1>5. CASE column.type = "NUMBER"
  <2> DEFINE n == bytes[1]
  <2>1. n \in Int /\ bytes = <<n>> /\ W = n
    <3>1. bytes \in [1 .. 1 -> Int]
      BY <1>2, <1>5 DEF IsStored
    <3> QED
      BY <1>5, <3>1 DEF WireWorth
  <2>2. back = numberArrowType(column, journey.options.number)
    BY <1>2, <1>5 DEF arrowTypeFor
  <2> DEFINE exact == journey.way # "out"
  <2>3. exact => \E long \in BOOLEAN : Holds(column, long, <<n>>)
    BY <2>1 DEF ValuesInv, Accepted
  <2>4. back.kind = "double" => Abs(n) < Hundredths(2^Mantissa53)
    <3>1. 2^Mantissa53 \in Int
      BY ValuesAssumption
    <3> QED
      BY <1>1, <1>3, <2>1, <3>1 DEF FloatRounds, Abs, Hundredths
  <2>5. back.kind = "decimal" => column.p # 0 /\ column.s = back.s /\ exact
    BY <1>3 DEF ScaleRounds
  <2>6. back.kind = "int" => exact \/ (Fits(n \div 100) /\ n % 100 = 0)
    BY <1>1, <1>3, <2>1 DEF IntRounds
  <2>7. exact \in BOOLEAN /\ IsStored(column, <<n>>) /\ result \in Appended(column, back, <<n>>)
    BY <1>2, <2>1
  <2> HIDE DEF n, exact
  <2>8. ArrowWorth(back, result) = n /\ back.kind # "date32"
    BY <1>5, <2>1, <2>2, <2>3, <2>4, <2>5, <2>6, <2>7, NumberFetched
  <2> QED
    BY <1>1, <2>1, <2>8 DEF Expected
<1>6. CASE column.type = "DOUBLE"
  <2> DEFINE n == bytes[1]
  <2>1. n \in Int /\ W = n
    <3>1. bytes \in [1 .. 1 -> Int]
      BY <1>2, <1>6 DEF IsStored
    <3> QED
      BY <1>6, <3>1 DEF WireWorth
  <2>2. back = Arrow("double", 0, 0)
    BY <1>2, <1>6 DEF arrowTypeFor
  <2>3. Abs(n) < Hundredths(2^Mantissa53)
    <3>1. 2^Mantissa53 \in Int
      BY ValuesAssumption
    <3> QED
      BY <1>1, <1>3, <2>1, <2>2, <3>1 DEF FloatRounds, Abs, Hundredths, Arrow
  <2>4. result = <<n>>
    BY <1>2, <1>6, <2>1, <2>3, FloatIs DEF Appended
  <2> QED
    BY <1>1, <2>1, <2>2, <2>4 DEF Expected, ArrowWorth, Arrow
<1>7. CASE column.type = "BOOLEAN"
  <2>1. bytes \in {<<0>>, <<100>>}
    BY <1>2, <1>7 DEF IsStored
  <2>2. back = Arrow("bool", 0, 0) /\ result = <<bytes[1] \div 100>>
    BY <1>2, <1>7 DEF arrowTypeFor, Appended
  <2>3. W = bytes[1]
    BY <1>7 DEF WireWorth
  <2>4. Hundredths(bytes[1] \div 100) = bytes[1]
    BY <2>1 DEF Hundredths
  <2> QED
    BY <1>1, <2>2, <2>3, <2>4 DEF Expected, ArrowWorth, Arrow
<1>8. CASE column.type \in {"VARCHAR2", "CLOB", "RAW", "BLOB"}
  <2>1. bytes \in [1 .. 1 -> Int]
    BY <1>2, <1>8 DEF IsStored
  <2>2. Len(bytes) = 1
    BY <2>1, OneNumber
  <2>3. back = Arrow("text", 0, 0) \/ back = Arrow("bytes", 0, 0)
    BY <1>2, <1>8 DEF arrowTypeFor
  <2>4. result = bytes
    BY <1>2, <1>8 DEF Appended
  <2>5. W = bytes[1]
    BY <1>8 DEF WireWorth
  <2> QED
    BY <1>1, <2>2, <2>3, <2>4, <2>5 DEF Expected, ArrowWorth, Arrow
<1>9. CASE IsInstantType(column)
  <2>1. W = Instant(bytes) /\ IsInstant
    BY <1>9 DEF WireWorth, IsInstantType, IsInstant
  <2>2. W \in Int
    BY <1>2, <1>9, <2>1, InstantIs
  <2>3. back.kind = "timestamp" /\ back.p > 0 => Fits(W)
    BY <1>1, <1>3, <2>1 DEF NanosWrap
  <2>4. back.kind = "date32" => W >= 0 \/ W % Day = 0
    BY <1>1, <1>3, <2>2 DEF DayRoundsUp
  <2>5. ArrowWorth(back, result) = IF back.kind = "date32" THEN (W \div Day) * Day ELSE W
    BY <1>2, <1>9, <2>1, <2>3, <2>4, InstantFetched
  <2> QED
    BY <1>1, <2>5 DEF Expected
<1>10. CASE column.type = "INTERVAL_DS"
  <2>1. back.kind = "duration" => Fits(W) /\ W % Ticks(back.p) = 0
    BY <1>1, <1>3, <1>10 DEF SpanOverflows, SpanCut
  <2>2. ArrowWorth(back, result) = W /\ back.kind # "date32"
    BY <1>2, <1>10, <2>1, SpanFetched
  <2> QED
    BY <1>1, <2>2 DEF Expected
<1> QED
  BY <1>4, <1>5, <1>6, <1>7, <1>8, <1>9, <1>10 DEF IsInstantType

\* A value that cannot be fetched is a number.
LEMMA OnlyNumbersFail ==
  ASSUME ValuesInv, stage = "failed"
  PROVE  journey.way = "out" \/ (back.kind = "decimal" /\ (column.p = 0 \/ column.s \notin 0 .. column.p))
<1>1. IsStored(column, bytes) /\ back = arrowTypeFor(column, journey.options) /\ bytes # <<>> /\ Appended(column, back, bytes) = {}
  BY OnTheServer DEF ValuesInv, Described, Landed
<1>2. column.type \in {"NUMBER", "DOUBLE", "BOOLEAN", "VARCHAR2", "CLOB", "RAW", "BLOB", "DATE", "TIMESTAMP", "TIMESTAMP_TZ", "INTERVAL_DS"}
  BY <1>1 DEF IsStored
<1>3. CASE column.type = "NUMBER"
  <2> DEFINE n == bytes[1]
  <2>1. n \in Int /\ bytes = <<n>>
    <3>1. bytes \in [1 .. 1 -> Int]
      BY <1>1, <1>3 DEF IsStored
    <3> QED
      BY <3>1
  <2>2. back = numberArrowType(column, journey.options.number)
    BY <1>1, <1>3 DEF arrowTypeFor
  <2>3. journey.way # "out" => \E long \in BOOLEAN : Holds(column, long, <<n>>)
    BY <1>1, <2>1 DEF ValuesInv, Accepted
  <2>4. IsStored(column, <<n>>) /\ Appended(column, back, <<n>>) = {}
    BY <1>1, <2>1
  <2> HIDE DEF n
  <2> QED
    BY <1>3, <2>1, <2>2, <2>3, <2>4, NumberIsFetched
<1>4. column.type = "NUMBER"
  <2>1. CASE column.type \in {"DOUBLE", "BOOLEAN", "VARCHAR2", "CLOB", "RAW", "BLOB"}
    BY <1>1, <2>1 DEF Appended
  <2>2. CASE column.type \in {"DATE", "TIMESTAMP", "TIMESTAMP_TZ"}
    BY <1>1, <2>2 DEF Appended
  <2>3. CASE column.type = "INTERVAL_DS"
    <3>1. back.kind \in {"duration", "monthdaynano", "text"}
      BY <1>1, <2>3, SpanTypeIs DEF Arrow
    <3> QED
      BY <1>1, <2>3, <3>1 DEF Appended
  <2> QED
    BY <1>2, <2>1, <2>2, <2>3
<1> QED
  BY <1>3, <1>4

\* The property from the invariant.
LEMMA SameValueNow == ASSUME ValuesInv PROVE SameValueBack
<1>1. ASSUME stage = "fetched", bytes = <<>>
      PROVE  result = <<>> /\ (given = <<>> \/ given = <<0>>)
  BY <1>1, OnTheServer DEF ValuesInv, Landed
<1>2. ASSUME stage = "fetched", bytes # <<>>
      PROVE  given # <<>> /\ result # <<>> /\ (Changed \/ ArrowWorth(back, result) = Expected)
  <2>1. given # <<>> /\ IsStored(column, bytes)
    BY <1>2, OnTheServer
  <2>2. result # <<>>
    BY <1>2, <2>1, AppendedIsValue DEF ValuesInv, Described, Landed
  <2> QED
    BY <1>2, <2>1, <2>2, WorthFetched
<1> QED
  BY <1>1, <1>2, OnTheServer, OnlyNumbersFail DEF SameValueBack

\* arrow_conv.go: a value comes back as what it is worth, in whatever type, the cases
\* of Changed apart, NULL comes back as NULL, and only numbers may fail to be fetched.
THEOREM ValuesComeBack == ValuesSpec => []SameValueBack
<1>1. ValuesInv => SameValueBack
  BY SameValueNow
<1> QED
  BY <1>1, ValuesInvariance, PTL

---------------------------------------------------------------------------
(***************************************************************************)
(* PACKETS                                                                 *)
(***************************************************************************)

\* What has 0 and with every number the next one has all numbers.
LEMMA AllNumbers ==
  ASSUME NEW S, 0 \in S, \A k \in Nat : k \in S => k + 1 \in S
  PROVE  Nat \subseteq S
<1> SUFFICES ASSUME Nat \ S # {} PROVE FALSE
  OBVIOUS
<1> DEFINE m == Min(Nat \ S)
<1>1. m \in Nat \ S /\ \A k \in Nat \ S : m <= k
  BY MinIs
<1> HIDE DEF m
<1>2. m - 1 \in Nat /\ m - 1 \in S
  <2>1. m # 0 /\ m \in Nat
    BY <1>1
  <2>2. m - 1 \in Nat /\ ~ m <= m - 1
    BY <2>1
  <2> QED
    BY <1>1, <2>2
<1>3. m - 1 + 1 \in S
  BY <1>2
<1>4. m - 1 + 1 = m
  BY <1>1
<1> QED
  BY <1>1, <1>3, <1>4

\* f takes the first n steps of next from a.
Steps(f, n, next, a, D) ==
  f \in [0 .. n -> D] /\ f[0] = a /\ \A k \in 0 .. n - 1 : f[k + 1] = next[k + 1][f[k]]

\* There is one.
LEMMA Recursion ==
  ASSUME NEW D, NEW a \in D, NEW n \in Nat, NEW next \in [1 .. n -> [D -> D]]
  PROVE  \E f : Steps(f, n, next, a, D)
<1> DEFINE S == {m \in Nat : m <= n => \E f : Steps(f, m, next, a, D)}
<1>1. 0 \in S
  <2> DEFINE f == [k \in 0 .. 0 |-> a]
  <2>1. f \in [0 .. 0 -> D] /\ f[0] = a
    OBVIOUS
  <2> HIDE DEF f
  <2>2. Steps(f, 0, next, a, D)
    BY <2>1 DEF Steps
  <2> QED
    BY <2>2
<1>2. ASSUME NEW m \in Nat, m \in S PROVE m + 1 \in S
  <2> SUFFICES ASSUME m + 1 <= n PROVE \E g : Steps(g, m + 1, next, a, D)
    OBVIOUS
  <2>1. PICK f : Steps(f, m, next, a, D)
    BY <1>2
  <2> DEFINE g == [k \in 0 .. m + 1 |-> IF k <= m THEN f[k] ELSE next[k][f[m]]]
  <2>2. f[m] \in D /\ next[m + 1][f[m]] \in D
    BY <2>1 DEF Steps
  <2>3. g \in [0 .. m + 1 -> D]
    <3> SUFFICES ASSUME NEW k \in 0 .. m + 1 PROVE g[k] \in D
      OBVIOUS
    <3>1. k <= m \/ k = m + 1
      OBVIOUS
    <3> QED
      BY <2>1, <2>2, <3>1 DEF Steps
  <2>4. (\A k \in 0 .. m : g[k] = f[k]) /\ g[m + 1] = next[m + 1][f[m]]
    OBVIOUS
  <2> HIDE DEF g
  <2>5. g[0] = a
    BY <2>1, <2>4 DEF Steps
  <2>6. ASSUME NEW k \in 0 .. m + 1 - 1 PROVE g[k + 1] = next[k + 1][g[k]]
    <3>1. CASE k < m
      BY <2>1, <2>4, <3>1 DEF Steps
    <3>2. CASE k = m
      BY <2>4, <3>2
    <3> QED
      BY <3>1, <3>2
  <2> QED
    BY <2>3, <2>5, <2>6 DEF Steps
<1> HIDE DEF S
<1>3. n \in S
  BY <1>1, <1>2, AllNumbers
<1> USE DEF S
<1> QED
  BY <1>3

---------------------------------------------------------------------------
(* A sequence of sequences, one behind the other.                          *)

\* f counts up what is behind one another.
Counts(f, ss, S) ==
  /\ f \in [0 .. Len(ss) -> Seq(S)]
  /\ f[0] = <<>> /\ \A k \in 0 .. Len(ss) - 1 : f[k + 1] = f[k] \o ss[k + 1]

\* FlattenSeq counts up, one sequence after the other:
LEMMA FlattenCounts ==
  ASSUME NEW S, NEW ss \in Seq(Seq(S))
  PROVE  \E f : Counts(f, ss, S) /\ FlattenSeq(ss) = f[Len(ss)]
<1> DEFINE n == Len(ss)
           D == Seq(S)
           next == [k \in 1 .. n |-> [s \in D |-> s \o ss[k]]]
<1>1. next \in [1 .. n -> [D -> D]]
  BY ConcatProperties
<1>2. <<>> \in D /\ n \in Nat
  OBVIOUS
<1>3. \A k \in 1 .. n : \A s \in D : next[k][s] = s \o ss[k]
  OBVIOUS
<1> HIDE DEF next
<1>4. PICK f : Steps(f, n, next, <<>>, D)
  BY <1>1, <1>2, Recursion
<1>5. f \in [0 .. n -> D] /\ f[0] = <<>>
  BY <1>4 DEF Steps
<1>6. \A k \in 0 .. n - 1 : f[k + 1] = f[k] \o ss[k + 1]
  <2> SUFFICES ASSUME NEW k \in 0 .. n - 1 PROVE f[k + 1] = f[k] \o ss[k + 1]
    OBVIOUS
  <2>1. k + 1 \in 1 .. n /\ k \in 0 .. n
    BY <1>2
  <2>2. f[k] \in D
    BY <1>5, <2>1
  <2>3. f[k + 1] = next[k + 1][f[k]]
    BY <1>4 DEF Steps
  <2> QED
    BY <1>3, <2>1, <2>2, <2>3, Zenon
<1>7. Counts(f, ss, S)
  BY <1>5, <1>6 DEF Counts
<1>8. CASE n = 0
  <2>1. FlattenSeq(ss) = ss /\ ss = <<>>
    BY <1>8 DEF FlattenSeq
  <2> QED
    BY <1>5, <1>7, <1>8, <2>1
<1>9. CASE n # 0
  <2> DEFINE Is(g) == g = [i \in 1 .. n |-> IF i = 1 THEN ss[i] ELSE g[i - 1] \o ss[i]]
             h == [i \in 1 .. n |-> f[i]]
             g == CHOOSE g : Is(g)
  <2>1. Is(h)
    <3>1. \A i \in 1 .. n : h[i] = IF i = 1 THEN ss[i] ELSE h[i - 1] \o ss[i]
      <4> SUFFICES ASSUME NEW i \in 1 .. n PROVE h[i] = IF i = 1 THEN ss[i] ELSE h[i - 1] \o ss[i]
        OBVIOUS
      <4>1. i - 1 \in 0 .. n - 1 /\ i - 1 + 1 = i
        OBVIOUS
      <4>2. f[i] = f[i - 1] \o ss[i]
        BY <1>6, <4>1
      <4>3. CASE i = 1
        <5>1. f[i - 1] = <<>> /\ ss[i] \in Seq(S)
          BY <1>5, <4>3
        <5> QED
          BY <4>2, <4>3, <5>1, ConcatEmptySeq
      <4>4. CASE i # 1
        <5>1. i - 1 \in 1 .. n
          BY <4>4
        <5>2. h[i] = f[i] /\ h[i - 1] = f[i - 1]
          BY <5>1
        <5> QED
          BY <4>2, <4>4, <5>2
      <4> QED
        BY <4>3, <4>4
    <3> QED
      BY <3>1
  <2>2. Is(g)
    BY <2>1
  <2>3. FlattenSeq(ss) = g[n]
    BY <1>9 DEF FlattenSeq
  <2> HIDE DEF g
  <2>4. g[1] = ss[1] /\ \A k \in 1 .. n - 1 : g[k + 1] = g[k] \o ss[k + 1]
    <3>1. \A i \in 1 .. n : g[i] = IF i = 1 THEN ss[i] ELSE g[i - 1] \o ss[i]
      BY <2>2
    <3>2. g[1] = ss[1]
      BY <1>9, <3>1
    <3> SUFFICES ASSUME NEW k \in 1 .. n - 1 PROVE g[k + 1] = g[k] \o ss[k + 1]
      BY <3>2
    <3>3. k + 1 \in 1 .. n /\ k + 1 # 1
      OBVIOUS
    <3> DEFINE j == k + 1
    <3>4. j - 1 = k /\ j \in 1 .. n /\ j # 1
      OBVIOUS
    <3> HIDE DEF j
    <3>5. g[j] = g[j - 1] \o ss[j]
      BY <3>1, <3>4
    <3>6. g[j] = g[k] \o ss[j]
      BY <3>4, <3>5
    <3> QED
      BY <3>6 DEF j
  <2> DEFINE T == {k \in Nat : k + 1 <= n => g[k + 1] = f[k + 1]}
  <2>5. 0 \in T
    <3>1. 0 \in 0 .. n - 1 /\ 1 \in 1 .. n
      BY <1>2, <1>9
    <3>2. \A k \in 0 .. n - 1 : k = 0 => f[1] = f[k] \o ss[1]
      <4> SUFFICES ASSUME NEW k \in 0 .. n - 1, k = 0 PROVE f[1] = f[k] \o ss[1]
        OBVIOUS
      <4>1. k + 1 = 1
        OBVIOUS
      <4>2. f[k + 1] = f[k] \o ss[k + 1]
        BY <1>6
      <4> QED
        BY <4>1, <4>2
    <3>3. f[1] = f[0] \o ss[1]
      BY <3>1, <3>2
    <3>4. ss[1] \in Seq(S)
      BY <3>1, ElementOfSeq
    <3> QED
      BY <1>5, <2>4, <3>3, <3>4, ConcatEmptySeq
  <2>6. ASSUME NEW k \in Nat, k \in T PROVE k + 1 \in T
    <3> SUFFICES ASSUME k + 1 + 1 <= n PROVE g[k + 1 + 1] = f[k + 1 + 1]
      OBVIOUS
    <3>1. k + 1 \in 1 .. n - 1 /\ k + 1 \in 0 .. n - 1 /\ k + 1 <= n
      OBVIOUS
    <3>2. g[k + 1] = f[k + 1]
      BY <2>6, <3>1
    <3> QED
      BY <1>6, <2>4, <3>1, <3>2
  <2> HIDE DEF T
  <2>7. n - 1 \in T
    <3>1. n - 1 \in Nat
      BY <1>2, <1>9
    <3>2. Nat \subseteq T
      BY <2>5, <2>6, AllNumbers
    <3> QED
      BY <3>1, <3>2
  <2> USE DEF T
  <2>8. g[n] = f[n]
    BY <1>9, <2>7
  <2> QED
    BY <1>7, <2>3, <2>8
<1> QED
  BY <1>8, <1>9

\* whatever counts that way ends with it.
LEMMA FlattenIs ==
  ASSUME NEW S, NEW ss \in Seq(Seq(S)), NEW f, Counts(f, ss, S)
  PROVE  FlattenSeq(ss) = f[Len(ss)] /\ FlattenSeq(ss) \in Seq(S)
<1>1. PICK g : Counts(g, ss, S) /\ FlattenSeq(ss) = g[Len(ss)]
  BY FlattenCounts
<1> DEFINE T == {k \in Nat : k <= Len(ss) => g[k] = f[k]}
<1>2. 0 \in T
  BY <1>1 DEF Counts
<1>3. ASSUME NEW k \in Nat, k \in T PROVE k + 1 \in T
  <2> SUFFICES ASSUME k + 1 <= Len(ss) PROVE g[k + 1] = f[k + 1]
    OBVIOUS
  <2>1. k \in 0 .. Len(ss) - 1 /\ k <= Len(ss)
    OBVIOUS
  <2>2. f[k + 1] = f[k] \o ss[k + 1] /\ g[k + 1] = g[k] \o ss[k + 1]
    BY <1>1, <2>1 DEF Counts
  <2> QED
    BY <1>3, <2>1, <2>2
<1> HIDE DEF T
<1>4. Len(ss) \in T
  BY <1>2, <1>3, AllNumbers
<1> USE DEF T
<1> QED
  BY <1>1, <1>4 DEF Counts

\* The joined sequences are a sequence of the same,
LEMMA FlattenType ==
  ASSUME NEW S, NEW ss \in Seq(Seq(S))
  PROVE  FlattenSeq(ss) \in Seq(S)
BY FlattenCounts, FlattenIs

\* empty if there are none,
LEMMA FlattenEmpty == FlattenSeq(<<>>) = <<>>
BY DEF FlattenSeq

\* those of two sequences of them, one behind the other,
LEMMA FlattenConcat ==
  ASSUME NEW S, NEW ss \in Seq(Seq(S)), NEW tt \in Seq(Seq(S))
  PROVE  FlattenSeq(ss \o tt) = FlattenSeq(ss) \o FlattenSeq(tt)
<1> DEFINE m == Len(ss)
           n == Len(tt)
           uu == ss \o tt
<1>1. PICK f : Counts(f, ss, S) /\ FlattenSeq(ss) = f[m]
  BY FlattenCounts
<1>2. PICK g : Counts(g, tt, S) /\ FlattenSeq(tt) = g[n]
  BY FlattenCounts
<1>3. uu \in Seq(Seq(S)) /\ Len(uu) = m + n /\ \A i \in 1 .. m + n : uu[i] = IF i <= m THEN ss[i] ELSE tt[i - m]
  BY ConcatProperties
<1>4. m \in Nat /\ n \in Nat
  OBVIOUS
<1>5. /\ f \in [0 .. m -> Seq(S)] /\ f[0] = <<>> /\ \A k \in 0 .. m - 1 : f[k + 1] = f[k] \o ss[k + 1]
      /\ g \in [0 .. n -> Seq(S)] /\ g[0] = <<>> /\ \A k \in 0 .. n - 1 : g[k + 1] = g[k] \o tt[k + 1]
  BY <1>1, <1>2 DEF Counts
<1> HIDE DEF uu, m, n
<1> DEFINE h == [k \in 0 .. m + n |-> IF k <= m THEN f[k] ELSE f[m] \o g[k - m]]
<1>6. f[m] \in Seq(S)
  BY <1>4, <1>5
<1>7. h \in [0 .. m + n -> Seq(S)]
  <2> SUFFICES ASSUME NEW k \in 0 .. m + n PROVE h[k] \in Seq(S)
    OBVIOUS
  <2>1. CASE k <= m
    BY <1>4, <1>5, <2>1
  <2>2. CASE ~ (k <= m)
    <3>1. g[k - m] \in Seq(S)
      BY <1>4, <1>5, <2>2
    <3>2. h[k] = f[m] \o g[k - m]
      BY <2>2
    <3> QED
      BY <1>6, <3>1, <3>2, ConcatProperties
  <2> QED
    BY <2>1, <2>2
<1>8. (\A k \in 0 .. m : h[k] = f[k]) /\ \A k \in 0 .. n : h[m + k] = f[m] \o g[k]
  <2>1. ASSUME NEW k \in 0 .. m PROVE h[k] = f[k]
    BY <1>4
  <2>2. ASSUME NEW k \in 0 .. n PROVE h[m + k] = f[m] \o g[k]
    <3>1. CASE k = 0
      <4>1. h[m + k] = f[m]
        BY <1>4, <3>1
      <4>2. g[k] = <<>>
        BY <1>5, <3>1
      <4> QED
        BY <1>6, <4>1, <4>2, ConcatEmptySeq
    <3>2. CASE k # 0
      <4> DEFINE j == m + k
      <4>1. j \in 0 .. m + n /\ ~ j <= m /\ j - m = k
        BY <1>4, <3>2
      <4> HIDE DEF j
      <4>2. h[j] = f[m] \o g[j - m]
        BY <4>1
      <4>3. h[j] = f[m] \o g[k]
        BY <4>1, <4>2
      <4> QED
        BY <4>3 DEF j
    <3> QED
      BY <3>1, <3>2
  <2> QED
    BY <2>1, <2>2
<1> HIDE DEF h
<1>9. ASSUME NEW k \in 0 .. m + n - 1 PROVE h[k + 1] = h[k] \o uu[k + 1]
  <2>1. CASE k < m
    <3>1. k \in 0 .. m - 1 /\ k \in 0 .. m /\ k + 1 \in 0 .. m /\ k + 1 \in 1 .. m + n /\ k + 1 <= m
      BY <1>4, <2>1
    <3>2. uu[k + 1] = ss[k + 1]
      BY <1>3, <3>1
    <3>3. h[k + 1] = f[k + 1] /\ h[k] = f[k] /\ f[k + 1] = f[k] \o ss[k + 1]
      BY <1>5, <1>8, <3>1
    <3> QED
      BY <3>2, <3>3
  <2>2. CASE ~ k < m
    <3> DEFINE j == k - m
    <3>1. j \in 0 .. n - 1 /\ j \in 0 .. n /\ j + 1 \in 0 .. n /\ j + 1 \in 1 .. n /\ m + j = k /\ m + (j + 1) = k + 1
      BY <1>4, <2>2
    <3>2. k + 1 \in 1 .. m + n /\ ~ (k + 1 <= m) /\ (k + 1) - m = j + 1
      BY <1>4, <2>2
    <3> HIDE DEF j
    <3>3. uu[k + 1] = IF k + 1 <= m THEN ss[k + 1] ELSE tt[(k + 1) - m]
      BY <1>3, <3>2, Zenon
    <3>4. uu[k + 1] = tt[j + 1]
      BY <3>2, <3>3, Zenon
    <3>5. h[m + j] = f[m] \o g[j] /\ h[m + (j + 1)] = f[m] \o g[j + 1]
      BY <1>8, <3>1
    <3>6. h[k] = f[m] \o g[j] /\ h[k + 1] = f[m] \o g[j + 1]
      BY <3>1, <3>5
    <3>7. g[j + 1] = g[j] \o tt[j + 1]
      BY <1>5, <3>1
    <3>8. g[j] \in Seq(S)
      BY <1>5, <3>1
    <3>9. tt[j + 1] \in Seq(S)
      BY <3>1, ElementOfSeq DEF n
    <3>10. (f[m] \o g[j]) \o tt[j + 1] = f[m] \o (g[j] \o tt[j + 1])
      <4>1. \A a, b, c \in Seq(S) : (a \o b) \o c = a \o (b \o c)
        BY ConcatAssociative
      <4> QED
        BY <1>6, <3>8, <3>9, <4>1, Zenon
    <3> QED
      BY <3>4, <3>6, <3>7, <3>10, Zenon
  <2> QED
    BY <2>1, <2>2
<1>10. Counts(h, uu, S)
  <2>1. h[0] = <<>>
    <3>1. 0 \in 0 .. m
      BY <1>4
    <3>2. h[0] = f[0] /\ f[0] = <<>>
      BY <1>5, <1>8, <3>1, Zenon
    <3> QED
      BY <3>2
  <2>2. Len(uu) = m + n
    BY <1>3
  <2>3. h \in [0 .. Len(uu) -> Seq(S)]
    BY <1>7, <2>2
  <2>4. \A k \in 0 .. Len(uu) - 1 : h[k + 1] = h[k] \o uu[k + 1]
    <3> SUFFICES ASSUME NEW k \in 0 .. Len(uu) - 1 PROVE h[k + 1] = h[k] \o uu[k + 1]
      OBVIOUS
    <3>1. k \in 0 .. m + n - 1
      BY <1>4, <2>2
    <3> QED
      BY <1>9, <3>1, Zenon
  <2> QED
    BY <2>1, <2>3, <2>4 DEF Counts
<1>11. FlattenSeq(uu) = h[m + n]
  BY <1>3, <1>10, FlattenIs
<1>12. h[m + n] = f[m] \o g[n]
  <2>1. n \in 0 .. n
    BY <1>4
  <2> QED
    BY <1>8, <2>1, Zenon
<1> QED
  BY <1>1, <1>2, <1>11, <1>12 DEF uu

\* the only one if there is one,
LEMMA FlattenOne ==
  ASSUME NEW S, NEW s \in Seq(S)
  PROVE  FlattenSeq(<<s>>) = s
<1> DEFINE f == [k \in 0 .. 1 |-> IF k = 0 THEN <<>> ELSE s]
           ss == <<s>>
<1>1. ss \in Seq(Seq(S)) /\ Len(ss) = 1 /\ ss[1] = s
  OBVIOUS
<1>2. f \in [0 .. 1 -> Seq(S)] /\ f[0] = <<>> /\ f[1] = s
  OBVIOUS
<1> HIDE DEF f, ss
<1>3. ASSUME NEW k \in 0 .. 1 - 1 PROVE f[k + 1] = f[k] \o ss[k + 1]
  <2>1. k = 0 /\ k + 1 = 1
    OBVIOUS
  <2>2. s = <<>> \o s
    BY ConcatEmptySeq
  <2>3. f[k + 1] = s /\ f[k] = <<>> /\ ss[k + 1] = s
    BY <1>1, <1>2, <2>1
  <2> QED
    BY <2>2, <2>3
<1>4. Counts(f, ss, S)
  BY <1>1, <1>2, <1>3 DEF Counts
<1>5. FlattenSeq(ss) = f[1]
  BY <1>1, <1>4, FlattenIs
<1> QED
  BY <1>2, <1>5 DEF ss

\* and with one more they have it at their end.
LEMMA FlattenAppend ==
  ASSUME NEW S, NEW ss \in Seq(Seq(S)), NEW s \in Seq(S)
  PROVE  FlattenSeq(Append(ss, s)) = FlattenSeq(ss) \o s
<1>1. Append(ss, s) = ss \o <<s>>
  BY AppendIsConcat
<1>2. <<s>> \in Seq(Seq(S))
  OBVIOUS
<1>3. FlattenSeq(ss \o <<s>>) = FlattenSeq(ss) \o FlattenSeq(<<s>>)
  BY <1>2, FlattenConcat
<1> QED
  BY <1>1, <1>3, FlattenOne

\* What is behind the first k, one by one.
LEMMA FlattenFrom ==
  ASSUME NEW S, NEW ss \in Seq(Seq(S)), NEW k \in 0 .. Len(ss) - 1
  PROVE  FlattenSeq(SubSeq(ss, k + 1, Len(ss))) = ss[k + 1] \o FlattenSeq(SubSeq(ss, k + 2, Len(ss)))
<1> DEFINE n == Len(ss)
           t == SubSeq(ss, k + 2, n)
<1>1. n \in Nat /\ k + 1 \in 1 .. n /\ (k + 1) + 1 = k + 2 /\ k + 2 \in 1 .. n + 1
  OBVIOUS
<1>2. SubSeq(ss, k + 1, n) = <<ss[k + 1]>> \o t
  <2>1. n \in k + 1 .. n
    BY <1>1
  <2>2. SubSeq(ss, k + 1, n) = <<ss[k + 1]>> \o SubSeq(ss, (k + 1) + 1, n)
    BY <1>1, <2>1, SubSeqRecursiveFirst
  <2> QED
    BY <1>1, <2>2
<1>3. <<ss[k + 1]>> \in Seq(Seq(S)) /\ ss[k + 1] \in Seq(S)
  BY <1>1, ElementOfSeq
<1>4. t \in Seq(Seq(S))
  <2>1. \A i \in k + 2 .. n : ss[i] \in Seq(S)
    BY <1>1, ElementOfSeq
  <2> QED
    BY <1>1, <2>1, SubSeqProperties
<1> HIDE DEF t, n
<1>5. FlattenSeq(<<ss[k + 1]>> \o t) = FlattenSeq(<<ss[k + 1]>>) \o FlattenSeq(t)
  BY <1>3, <1>4, FlattenConcat
<1>6. FlattenSeq(<<ss[k + 1]>>) = ss[k + 1]
  BY <1>3, FlattenOne
<1> QED
  BY <1>2, <1>5, <1>6 DEF t, n

---------------------------------------------------------------------------
(* Pieces, and their bytes.                                                *)

Octet == 0 .. Base - 1
Bytes == Seq(Octet)

\* What is written at once is no longer than a packet.
IsPiece(p) ==
  /\ p \in [bytes : Bytes, whole : BOOLEAN]
  /\ p.bytes # <<>> /\ (p.whole => Len(p.bytes) <= PacketSize)
Piece == {p \in [bytes : Bytes, whole : BOOLEAN] : IsPiece(p)}

\* The bytes of the pieces.
LEMMA BytesOf ==
  ASSUME NEW ps \in Seq(Piece)
  PROVE  /\ [i \in DOMAIN ps |-> ps[i].bytes] \in Seq(Bytes)
         /\ Len([i \in DOMAIN ps |-> ps[i].bytes]) = Len(ps)
<1>1. DOMAIN ps = 1 .. Len(ps) /\ Len(ps) \in Nat
  OBVIOUS
<1>2. \A i \in 1 .. Len(ps) : ps[i].bytes \in Bytes
  <2> SUFFICES ASSUME NEW i \in 1 .. Len(ps) PROVE ps[i].bytes \in Bytes
    OBVIOUS
  <2>1. ps[i] \in Piece
    BY ElementOfSeq
  <2> QED
    BY <2>1 DEF Piece
<1> DEFINE bs == [i \in 1 .. Len(ps) |-> ps[i].bytes]
<1>3. bs \in [1 .. Len(ps) -> Bytes]
  BY <1>2
<1>4. bs \in Seq(Bytes) /\ Len(bs) = Len(ps)
  BY <1>1, <1>3, IsASeq, LenProperties
<1> QED
  BY <1>1, <1>4

\* Joined pieces are bytes,
LEMMA JoinedType ==
  ASSUME NEW ps \in Seq(Piece)
  PROVE  Joined(ps) \in Bytes
BY BytesOf, FlattenType DEF Joined, Bytes

\* none if there is no piece,
LEMMA JoinedNone == Joined(<<>>) = <<>>
<1>1. [i \in DOMAIN <<>> |-> <<>>[i].bytes] = <<>>
  OBVIOUS
<1> QED
  BY <1>1, FlattenEmpty DEF Joined

\* those of the only one,
LEMMA JoinedOne ==
  ASSUME NEW p \in Piece
  PROVE  Joined(<<p>>) = p.bytes
<1>1. [i \in DOMAIN <<p>> |-> <<p>>[i].bytes] = <<p.bytes>>
  OBVIOUS
<1>2. p.bytes \in Bytes
  BY DEF Piece
<1> QED
  BY <1>1, <1>2, FlattenOne DEF Joined, Bytes

\* and of pieces behind each other one behind the other.
LEMMA JoinedConcat ==
  ASSUME NEW ps \in Seq(Piece), NEW qs \in Seq(Piece)
  PROVE  Joined(ps \o qs) = Joined(ps) \o Joined(qs)
<1> DEFINE m == Len(ps)
           n == Len(qs)
           rs == ps \o qs
           pb == [i \in DOMAIN ps |-> ps[i].bytes]
           qb == [i \in DOMAIN qs |-> qs[i].bytes]
           rb == [i \in DOMAIN rs |-> rs[i].bytes]
<1>1. rs \in Seq(Piece) /\ Len(rs) = m + n /\ \A i \in 1 .. m + n : rs[i] = IF i <= m THEN ps[i] ELSE qs[i - m]
  BY ConcatProperties
<1>2. pb \in Seq(Bytes) /\ Len(pb) = m /\ qb \in Seq(Bytes) /\ Len(qb) = n
  BY BytesOf
<1>3. rb \in Seq(Bytes) /\ Len(rb) = m + n
  BY <1>1, BytesOf
<1>4. DOMAIN rs = 1 .. m + n /\ DOMAIN ps = 1 .. m /\ DOMAIN qs = 1 .. n /\ m \in Nat /\ n \in Nat
  BY <1>1
<1>5. /\ pb \o qb \in Seq(Bytes) /\ Len(pb \o qb) = m + n
      /\ \A i \in 1 .. m + n : (pb \o qb)[i] = IF i <= m THEN pb[i] ELSE qb[i - m]
  <2> HIDE DEF pb, qb, m, n
  <2>1. /\ pb \o qb \in Seq(Bytes) /\ Len(pb \o qb) = Len(pb) + Len(qb)
        /\ \A i \in 1 .. Len(pb) + Len(qb) : (pb \o qb)[i] = IF i <= Len(pb) THEN pb[i] ELSE qb[i - Len(pb)]
    BY <1>2, ConcatProperties
  <2>2. Len(pb) = m /\ Len(qb) = n
    BY <1>2
  <2> QED
    BY <2>1, <2>2, Zenon
<1>6. ASSUME NEW i \in 1 .. m + n PROVE rb[i] = (pb \o qb)[i]
  <2>1. rb[i] = rs[i].bytes
    BY <1>4
  <2>2. CASE i <= m
    <3>1. i \in 1 .. m
      BY <1>4, <2>2
    <3>2. pb[i] = ps[i].bytes
      BY <1>4, <3>1
    <3>3. rs[i] = ps[i] /\ (pb \o qb)[i] = pb[i]
      BY <1>1, <1>5, <2>2
    <3> QED
      BY <2>1, <3>2, <3>3
  <2>3. CASE ~ i <= m
    <3>1. i - m \in 1 .. n
      BY <1>4, <2>3
    <3>2. qb[i - m] = qs[i - m].bytes
      BY <1>4, <3>1
    <3>3. rs[i] = qs[i - m] /\ (pb \o qb)[i] = qb[i - m]
      BY <1>1, <1>5, <2>3
    <3> QED
      BY <2>1, <3>2, <3>3
  <2> QED
    BY <2>2, <2>3
<1>7. rb = pb \o qb
  <2> HIDE DEF rb, pb, qb
  <2> QED
    BY <1>3, <1>5, <1>6, SeqEqual
<1> HIDE DEF rb, pb, qb
<1>8. FlattenSeq(rb) = FlattenSeq(pb) \o FlattenSeq(qb)
  BY <1>2, <1>7, FlattenConcat DEF Bytes
<1> QED
  BY <1>8 DEF Joined, rb, pb, qb

\* The bytes of several sequences of pieces.
LEMMA JoinedFlatten ==
  ASSUME NEW pp \in Seq(Seq(Piece))
  PROVE  /\ [i \in 1 .. Len(pp) |-> Joined(pp[i])] \in Seq(Bytes)
         /\ Joined(FlattenSeq(pp)) = FlattenSeq([i \in 1 .. Len(pp) |-> Joined(pp[i])])
<1> DEFINE n == Len(pp)
           bb == [i \in 1 .. n |-> Joined(pp[i])]
<1>1. n \in Nat /\ \A i \in 1 .. n : pp[i] \in Seq(Piece)
  BY ElementOfSeq
<1>2. bb \in [1 .. n -> Bytes]
  BY <1>1, JoinedType
<1>3. bb \in Seq(Bytes) /\ Len(bb) = n
  <2> HIDE DEF bb, n
  <2> QED
    BY <1>1, <1>2, IsASeq, LenProperties
<1>4. PICK f : Counts(f, pp, Piece) /\ FlattenSeq(pp) = f[n]
  BY FlattenCounts
<1>5. f \in [0 .. n -> Seq(Piece)] /\ f[0] = <<>> /\ \A k \in 0 .. n - 1 : f[k + 1] = f[k] \o pp[k + 1]
  BY <1>4 DEF Counts
<1> DEFINE g == [k \in 0 .. n |-> Joined(f[k])]
<1>6. g \in [0 .. n -> Bytes]
  BY <1>5, JoinedType
<1>7. g[0] = <<>>
  <2>1. 0 \in 0 .. n
    BY <1>1
  <2>2. g[0] = Joined(f[0])
    BY <2>1
  <2> QED
    BY <1>5, <2>2, JoinedNone
<1>8. ASSUME NEW k \in 0 .. Len(bb) - 1 PROVE g[k + 1] = g[k] \o bb[k + 1]
  <2>1. k \in 0 .. n - 1 /\ k \in 0 .. n /\ k + 1 \in 0 .. n /\ k + 1 \in 1 .. n
    BY <1>1, <1>3
  <2>2. g[k + 1] = Joined(f[k + 1]) /\ g[k] = Joined(f[k]) /\ bb[k + 1] = Joined(pp[k + 1])
    BY <2>1
  <2>3. f[k] \in Seq(Piece) /\ pp[k + 1] \in Seq(Piece)
    BY <1>1, <1>5, <2>1
  <2>4. f[k + 1] = f[k] \o pp[k + 1]
    BY <1>5, <2>1, Zenon
  <2>5. Joined(f[k] \o pp[k + 1]) = Joined(f[k]) \o Joined(pp[k + 1])
    BY <2>3, JoinedConcat
  <2> QED
    BY <2>2, <2>4, <2>5, Zenon
<1>9. Counts(g, bb, Octet)
  <2> HIDE DEF g, bb
  <2>1. g \in [0 .. Len(bb) -> Seq(Octet)]
    BY <1>3, <1>6 DEF Bytes
  <2> QED
    BY <1>7, <1>8, <2>1 DEF Counts
<1>10. FlattenSeq(bb) = g[n]
  <2> HIDE DEF g, bb
  <2>1. bb \in Seq(Seq(Octet))
    BY <1>3 DEF Bytes
  <2> QED
    BY <1>3, <1>9, <2>1, FlattenIs
<1>11. g[n] = Joined(f[n])
  BY <1>1
<1> QED
  BY <1>3, <1>4, <1>10, <1>11

---------------------------------------------------------------------------
(* Integers.                                                               *)

\* What is assumed of the sizes.
LEMMA SizesAre ==
  /\ Base \in Nat /\ Base > 9 /\ SignBit \in Nat /\ 4 < SignBit /\ SignBit + 4 < Base
  /\ MaxShortLength \in Nat /\ LongLength \in Nat /\ NullLength \in Nat /\ MaxShortLength < LongLength
  /\ LongLength < NullLength /\ NullLength < Base
  /\ ChunkSize \in Nat \ {0} /\ ChunkSize \in UB4 /\ PacketSize \in Nat /\ 4 <= PacketSize
  /\ MaxPackets \in Nat
<1>1. Base \in Nat /\ SignBit \in Nat /\ MaxShortLength \in Nat /\ LongLength \in Nat /\ NullLength \in Nat
      /\ ChunkSize \in Nat /\ PacketSize \in Nat /\ MaxPackets \in Nat
  BY PacketsAssumption
<1> QED
  BY <1>1, PacketsAssumption

\* The bytes behind the length of the integer v.
NumberBytes(v) == IF v = 0 THEN <<>> ELSE BigEndian(v, ByteCount(v))

\* A pair of bytes is a number below the square of Base.
LEMMA PairIs ==
  ASSUME NEW n \in Nat, n < Base * Base
  PROVE  n \div Base \in Octet /\ n % Base \in Octet /\ (n \div Base) * Base + (n % Base) = n
<1> DEFINE q == n \div Base
           r == n % Base
<1>1. Base \in Nat \ {0}
  BY SizesAre
<1>2. q \in Int /\ r \in 0 .. Base - 1 /\ n = Base * q + r
  BY <1>1, DivisionIs
<1> HIDE DEF q, r
<1>3. q >= 0
  <2> SUFFICES ASSUME q <= -1 PROVE FALSE
    BY <1>2
  <2>1. Base * q <= Base * (-1)
    BY <1>1, <1>2
  <2> QED
    BY <1>1, <1>2, <2>1
<1>4. q < Base
  <2> SUFFICES ASSUME q >= Base PROVE FALSE
    BY <1>1, <1>2
  <2>1. Base * q >= Base * Base
    BY <1>1, <1>2
  <2> QED
    BY <1>1, <1>2, <2>1
<1>5. q * Base = Base * q
  BY <1>1, <1>2
<1>6. q \in Octet /\ r \in Octet /\ q * Base + r = n
  BY <1>1, <1>2, <1>3, <1>4, <1>5 DEF Octet
<1> QED
  BY <1>6, Zenon DEF q, r

\* So are four bytes two pairs.
LEMMA PairsAre ==
  ASSUME NEW n \in UB4
  PROVE  /\ n \div (Base * Base) \in Nat /\ n \div (Base * Base) < Base * Base
         /\ n % (Base * Base) \in Nat /\ n % (Base * Base) < Base * Base
         /\ n = Base * Base * (n \div (Base * Base)) + (n % (Base * Base))
<1> DEFINE m == Base * Base
           q == n \div m
           r == n % m
<1>1. Base \in Nat /\ Base > 9
  BY SizesAre
<1>2. m \in Nat \ {0}
  BY <1>1
<1>3. n \in Nat /\ n < m * m
  <2>1. Base * Base * Base * Base = m * m
    BY <1>1
  <2> HIDE DEF m
  <2> QED
    BY <1>1, <2>1 DEF UB4
<1> HIDE DEF m
<1>4. q \in Int /\ r \in 0 .. m - 1 /\ n = m * q + r
  BY <1>2, <1>3, DivisionIs
<1> HIDE DEF q, r
<1>5. q >= 0
  <2> SUFFICES ASSUME q <= -1 PROVE FALSE
    BY <1>4
  <2>1. m * q <= m * (-1)
    BY <1>2, <1>4
  <2> QED
    BY <1>2, <1>3, <1>4, <2>1
<1>6. q < m
  <2> SUFFICES ASSUME q >= m PROVE FALSE
    BY <1>2, <1>4
  <2>1. m * q >= m * m
    BY <1>2, <1>4
  <2> QED
    BY <1>2, <1>3, <1>4, <2>1
<1>7. q \in Nat /\ r \in Nat /\ r < m
  BY <1>2, <1>4, <1>5
<1> QED
  BY <1>4, <1>6, <1>7, Zenon DEF q, r, m

\* decodeInteger.
NumberOf(b) ==
  LET worth[k \in 0 .. Len(b)] == IF k = 0 THEN 0 ELSE worth[k - 1] * Base + b[k]
  IN  worth[Len(b)]

\* The number that bytes are is counted up from them,
LEMMA NumberIs ==
  ASSUME NEW b \in Bytes
  PROVE  \E f : /\ f \in [0 .. Len(b) -> Int] /\ NumberOf(b) = f[Len(b)] /\ f[0] = 0
                /\ \A k \in 0 .. Len(b) - 1 : f[k + 1] = f[k] * Base + b[k + 1]
<1> DEFINE n == Len(b)
           next == [k \in 1 .. n |-> [v \in Int |-> v * Base + b[k]]]
<1>1. Base \in Nat /\ n \in Nat /\ \A k \in 1 .. n : b[k] \in Int
  BY SizesAre, ElementOfSeq DEF Bytes, Octet
<1>2. next \in [1 .. n -> [Int -> Int]]
  BY <1>1
<1>3. \A k \in 1 .. n : \A v \in Int : next[k][v] = v * Base + b[k]
  OBVIOUS
<1> HIDE DEF next, n
<1>4. PICK f : Steps(f, n, next, 0, Int)
  <2>1. 0 \in Int /\ n \in Nat
    BY <1>1
  <2> QED
    BY <1>2, <2>1, Recursion
<1>5. f \in [0 .. n -> Int] /\ f[0] = 0
  BY <1>4 DEF Steps
<1>6. \A k \in 0 .. n - 1 : f[k + 1] = f[k] * Base + b[k + 1]
  <2> SUFFICES ASSUME NEW k \in 0 .. n - 1 PROVE f[k + 1] = f[k] * Base + b[k + 1]
    OBVIOUS
  <2>1. k + 1 \in 1 .. n /\ k \in 0 .. n
    BY <1>1
  <2>2. f[k] \in Int
    BY <1>5, <2>1
  <2>3. f[k + 1] = next[k + 1][f[k]]
    BY <1>4 DEF Steps
  <2> QED
    BY <1>3, <2>1, <2>2, <2>3, Zenon
<1> DEFINE Is(g) == g = [k \in 0 .. n |-> IF k = 0 THEN 0 ELSE g[k - 1] * Base + b[k]]
           g == CHOOSE g : Is(g)
<1>7. Is(f)
  <2>1. \A k \in 0 .. n : f[k] = IF k = 0 THEN 0 ELSE f[k - 1] * Base + b[k]
    <3> SUFFICES ASSUME NEW k \in 0 .. n, k # 0 PROVE f[k] = f[k - 1] * Base + b[k]
      BY <1>5
    <3>1. k - 1 \in 0 .. n - 1 /\ k - 1 + 1 = k
      BY <1>1
    <3> QED
      BY <1>6, <3>1
  <2> QED
    BY <1>5, <2>1
<1>8. Is(g)
  BY <1>7
<1>9. NumberOf(b) = g[n]
  BY DEF NumberOf, n
<1> HIDE DEF g
<1>10. g[0] = 0 /\ \A k \in 0 .. n - 1 : g[k + 1] = g[k] * Base + b[k + 1]
  <2>1. \A k \in 0 .. n : g[k] = IF k = 0 THEN 0 ELSE g[k - 1] * Base + b[k]
    BY <1>8
  <2>2. g[0] = 0
    BY <1>1, <2>1
  <2> SUFFICES ASSUME NEW k \in 0 .. n - 1 PROVE g[k + 1] = g[k] * Base + b[k + 1]
    BY <2>2
  <2>3. k + 1 \in 0 .. n /\ k + 1 # 0 /\ (k + 1) - 1 = k
    BY <1>1
  <2> QED
    BY <2>1, <2>3
<1>11. g \in [0 .. n -> Int]
  <2> DEFINE T == {k \in Nat : k <= n => g[k] \in Int}
  <2>1. 0 \in T
    BY <1>10
  <2>2. ASSUME NEW k \in Nat, k \in T PROVE k + 1 \in T
    <3> SUFFICES ASSUME k + 1 <= n PROVE g[k + 1] \in Int
      OBVIOUS
    <3>1. k \in 0 .. n - 1 /\ k + 1 \in 1 .. n /\ k <= n
      BY <1>1
    <3>2. g[k + 1] = g[k] * Base + b[k + 1] /\ g[k] \in Int /\ b[k + 1] \in Int
      BY <1>1, <1>10, <2>2, <3>1
    <3> QED
      BY <1>1, <3>2
  <2> HIDE DEF T
  <2>3. Nat \subseteq T
    BY <2>1, <2>2, AllNumbers
  <2> USE DEF T
  <2>4. \A k \in 0 .. n : g[k] \in Int
    BY <1>1, <2>3
  <2> QED
    BY <1>8, <2>4
<1> QED
  BY <1>9, <1>10, <1>11 DEF n

\* and so zero of none,
LEMMA NumberOfNone == NumberOf(<<>>) = 0
<1>1. <<>> \in Bytes /\ Len(<<>>) = 0
  BY DEF Bytes
<1> QED
  BY <1>1, NumberIs

\* of one the byte,
LEMMA NumberOfOne ==
  ASSUME NEW a \in Octet
  PROVE  NumberOf(<<a>>) = a
<1> DEFINE s == <<a>>
<1>1. s \in Bytes /\ Len(s) = 1 /\ s[1] = a /\ a \in Int /\ Base \in Int
  BY SizesAre DEF Bytes, Octet
<1> HIDE DEF s
<1>2. PICK f : /\ f \in [0 .. Len(s) -> Int] /\ NumberOf(s) = f[Len(s)] /\ f[0] = 0
               /\ \A k \in 0 .. Len(s) - 1 : f[k + 1] = f[k] * Base + s[k + 1]
  BY <1>1, NumberIs
<1>3. f[1] = f[0] * Base + s[1]
  BY <1>1, <1>2
<1>4. f[1] = a
  BY <1>1, <1>2, <1>3
<1> QED
  BY <1>1, <1>2, <1>4 DEF s

\* of two a pair,
LEMMA NumberOfTwo ==
  ASSUME NEW a \in Octet, NEW b \in Octet
  PROVE  NumberOf(<<a, b>>) = a * Base + b
<1> DEFINE s == <<a, b>>
<1>1. s \in Bytes /\ Len(s) = 2 /\ s[1] = a /\ s[2] = b /\ a \in Int /\ b \in Int /\ Base \in Int
  BY SizesAre DEF Bytes, Octet
<1> HIDE DEF s
<1>2. PICK f : /\ f \in [0 .. Len(s) -> Int] /\ NumberOf(s) = f[Len(s)] /\ f[0] = 0
               /\ \A k \in 0 .. Len(s) - 1 : f[k + 1] = f[k] * Base + s[k + 1]
  BY <1>1, NumberIs
<1>3. f[1] = f[0] * Base + s[1] /\ f[2] = f[1] * Base + s[2]
  BY <1>1, <1>2
<1>4. f[1] = a
  BY <1>1, <1>2, <1>3
<1>5. f[2] = a * Base + b
  BY <1>1, <1>3, <1>4
<1> QED
  BY <1>1, <1>2, <1>5 DEF s

\* and of four two pairs.
LEMMA NumberOfFour ==
  ASSUME NEW a \in Octet, NEW b \in Octet, NEW c \in Octet, NEW d \in Octet
  PROVE  NumberOf(<<a, b, c, d>>) = Base * Base * (a * Base + b) + (c * Base + d)
<1> DEFINE s == <<a, b, c, d>>
<1>1. /\ s \in Bytes /\ Len(s) = 4 /\ s[1] = a /\ s[2] = b /\ s[3] = c /\ s[4] = d
      /\ a \in Int /\ b \in Int /\ c \in Int /\ d \in Int /\ Base \in Int
  BY SizesAre DEF Bytes, Octet
<1> HIDE DEF s
<1>2. PICK f : /\ f \in [0 .. Len(s) -> Int] /\ NumberOf(s) = f[Len(s)] /\ f[0] = 0
               /\ \A k \in 0 .. Len(s) - 1 : f[k + 1] = f[k] * Base + s[k + 1]
  BY <1>1, NumberIs
<1>3. /\ f[1] = f[0] * Base + s[1] /\ f[2] = f[1] * Base + s[2]
      /\ f[3] = f[2] * Base + s[3] /\ f[4] = f[3] * Base + s[4]
  BY <1>1, <1>2
<1>4. f[1] = a
  BY <1>1, <1>2, <1>3
<1>5. f[2] = a * Base + b
  BY <1>1, <1>3, <1>4
<1>6. f[3] = (a * Base + b) * Base + c
  BY <1>1, <1>3, <1>5
<1>7. f[4] = ((a * Base + b) * Base + c) * Base + d
  BY <1>1, <1>3, <1>6
<1>8. ((a * Base + b) * Base + c) * Base + d = Base * Base * (a * Base + b) + (c * Base + d)
  BY <1>1
<1> QED
  BY <1>1, <1>2, <1>7, <1>8 DEF s

\* Two pairs join to the number they were divided from.
LEMMA PairsJoin ==
  ASSUME NEW a \in Octet, NEW b \in Octet, NEW c \in Octet, NEW d \in Octet
  PROVE  <<a, b>> \o <<c, d>> = <<a, b, c, d>>
<1> DEFINE s == <<a, b>>
           t == <<c, d>>
           u == <<a, b, c, d>>
<1>1. s \in Bytes /\ Len(s) = 2 /\ s[1] = a /\ s[2] = b
  BY DEF Bytes
<1>2. t \in Bytes /\ Len(t) = 2 /\ t[1] = c /\ t[2] = d
  BY DEF Bytes
<1>3. u \in Bytes /\ Len(u) = 4 /\ u[1] = a /\ u[2] = b /\ u[3] = c /\ u[4] = d
  BY DEF Bytes
<1> HIDE DEF s, t, u
<1>4. s \o t \in Bytes /\ Len(s \o t) = Len(s) + Len(t)
      /\ \A i \in 1 .. Len(s) + Len(t) : (s \o t)[i] = IF i <= Len(s) THEN s[i] ELSE t[i - Len(s)]
  BY <1>1, <1>2, ConcatProperties DEF Bytes
<1>5. Len(s \o t) = 4 /\ (s \o t)[1] = a /\ (s \o t)[2] = b /\ (s \o t)[3] = c /\ (s \o t)[4] = d
  BY <1>1, <1>2, <1>4
<1>6. ASSUME NEW i \in 1 .. 4 PROVE (s \o t)[i] = u[i]
  <2>1. i = 1 \/ i = 2 \/ i = 3 \/ i = 4
    OBVIOUS
  <2> QED
    BY <1>3, <1>5, <2>1
<1>7. s \o t = u
  BY <1>3, <1>4, <1>5, <1>6, SeqEqual DEF Bytes
<1> QED
  BY <1>7 DEF s, t, u

\* The bytes of an integer are as many as ByteCount says, and mean it.
LEMMA NumberBytesAre ==
  ASSUME NEW v \in UB4
  PROVE  /\ ByteCount(v) \in 0 .. 4 /\ (ByteCount(v) = 0 <=> v = 0)
         /\ NumberBytes(v) \in Bytes /\ Len(NumberBytes(v)) = ByteCount(v) /\ NumberOf(NumberBytes(v)) = v
         /\ v # 0 => NumberBytes(v) = BigEndian(v, ByteCount(v))
<1>1. v \in Nat /\ Base \in Nat /\ Base > 9 /\ Base * Base \in Nat
  BY SizesAre DEF UB4
<1>2. CASE v = 0
  <2>1. ByteCount(v) = 0
    <3>1. v \notin 1 .. Base - 1 /\ v \notin Base .. Base * Base - 1
      BY <1>1, <1>2
    <3> QED
      BY <1>2, <3>1 DEF ByteCount
  <2>2. NumberBytes(v) = <<>>
    BY <1>2 DEF NumberBytes
  <2>3. <<>> \in Bytes /\ Len(<<>>) = 0
    BY DEF Bytes
  <2> QED
    BY <1>2, <2>1, <2>2, <2>3, NumberOfNone
<1>3. CASE v \in 1 .. Base - 1
  <2>1. ByteCount(v) = 1 /\ v # 0
    <3>1. v # 0 /\ v \notin Base .. Base * Base - 1
      BY <1>1, <1>3
    <3> QED
      BY <1>3, <3>1 DEF ByteCount
  <2>2. BigEndian(v, 1) = <<v>> /\ v \in Octet
    BY <1>1, <1>3 DEF BigEndian, Octet
  <2>3. <<v>> \in Bytes /\ Len(<<v>>) = 1
    BY <2>2 DEF Bytes
  <2> QED
    BY <2>1, <2>2, <2>3, NumberOfOne DEF NumberBytes
<1>4. CASE v \in Base .. Base * Base - 1
  <2>1. ByteCount(v) = 2 /\ v # 0
    <3>1. v # 0 /\ v \notin 1 .. Base - 1
      BY <1>1, <1>4
    <3> QED
      BY <1>4, <3>1 DEF ByteCount
  <2> DEFINE q == v \div Base
             r == v % Base
  <2>2. BigEndian(v, 2) = <<q, r>>
    BY DEF BigEndian
  <2>3. v < Base * Base
    BY <1>1, <1>4
  <2>4. q \in Octet /\ r \in Octet /\ q * Base + r = v
    BY <1>1, <2>3, PairIs
  <2> HIDE DEF q, r
  <2>5. <<q, r>> \in Bytes /\ Len(<<q, r>>) = 2
    BY <2>4 DEF Bytes
  <2>6. NumberOf(<<q, r>>) = v
    BY <2>4, NumberOfTwo
  <2> QED
    BY <2>1, <2>2, <2>5, <2>6 DEF NumberBytes
<1>5. CASE v >= Base * Base
  <2>1. ByteCount(v) = 4 /\ v # 0
    <3>1. Base * Base > Base
      BY <1>1
    <3>2. v # 0 /\ v \notin 1 .. Base - 1 /\ v \notin Base .. Base * Base - 1
      BY <1>1, <1>5, <3>1
    <3> QED
      BY <3>2 DEF ByteCount
  <2> DEFINE h == v \div (Base * Base)
             l == v % (Base * Base)
             a == h \div Base
             b == h % Base
             c == l \div Base
             d == l % Base
  <2>2. BigEndian(v, 4) = <<a, b>> \o <<c, d>>
    BY DEF BigEndian
  <2>3. h \in Nat /\ h < Base * Base /\ l \in Nat /\ l < Base * Base /\ v = Base * Base * h + l
    BY PairsAre, Zenon
  <2> HIDE DEF h, l
  <2>4. a \in Octet /\ b \in Octet /\ a * Base + b = h
    BY <2>3, PairIs, Zenon
  <2>5. c \in Octet /\ d \in Octet /\ c * Base + d = l
    BY <2>3, PairIs, Zenon
  <2> HIDE DEF a, b, c, d
  <2>6. <<a, b>> \o <<c, d>> = <<a, b, c, d>>
    BY <2>4, <2>5, PairsJoin
  <2>7. <<a, b, c, d>> \in Bytes /\ Len(<<a, b, c, d>>) = 4
    BY <2>4, <2>5 DEF Bytes
  <2>8. NumberOf(<<a, b, c, d>>) = v
    BY <2>3, <2>4, <2>5, NumberOfFour
  <2> QED
    BY <2>1, <2>2, <2>6, <2>7, <2>8 DEF NumberBytes
<1>6. v = 0 \/ v \in 1 .. Base - 1 \/ v \in Base .. Base * Base - 1 \/ v >= Base * Base
  BY <1>1
<1> QED
  BY <1>2, <1>3, <1>4, <1>5, <1>6

\* A written number is a piece or two.
LEMMA PieceIs ==
  ASSUME NEW b \in Bytes, b # <<>>
  PROVE  Raw(b) \in Piece /\ Raw(b).bytes = b /\ (Len(b) <= 4 => Whole(b) \in Piece /\ Whole(b).bytes = b)
<1>1. Len(b) \in Nat /\ PacketSize \in Nat /\ 4 <= PacketSize
  BY SizesAre DEF Bytes
<1>2. Raw(b).bytes = b /\ Whole(b).bytes = b /\ Raw(b).whole = FALSE
  BY DEF Raw, Whole
<1>3. Raw(b) \in [bytes : Bytes, whole : BOOLEAN] /\ Whole(b) \in [bytes : Bytes, whole : BOOLEAN]
  BY DEF Raw, Whole
<1>4. Len(b) <= 4 => Len(b) <= PacketSize
  BY <1>1
<1> QED
  BY <1>2, <1>3, <1>4 DEF Piece, IsPiece

\* An integer is written as a length, with the sign, and that many bytes.
LEMMA UniversalIs ==
  ASSUME NEW v \in UB4, NEW sign \in {0, SignBit}
  PROVE  /\ Universal(v, sign) \in Seq(Piece) /\ Universal(v, sign) # <<>>
         /\ ByteCount(v) + sign \in Octet
         /\ Joined(Universal(v, sign)) = <<ByteCount(v) + sign>> \o NumberBytes(v)
<1> DEFINE n == ByteCount(v)
           w == NumberBytes(v)
           h == <<n + sign>>
<1>1. n \in 0 .. 4 /\ w \in Bytes /\ Len(w) = n /\ (n = 0 <=> v = 0) /\ (v # 0 => w = BigEndian(v, n))
  BY NumberBytesAre
<1>2. n + sign \in Octet
  BY <1>1, SizesAre DEF Octet
<1>3. h \in Bytes /\ h # <<>> /\ Len(h) = 1
  BY <1>2 DEF Bytes
<1>4. Whole(h) \in Piece /\ Whole(h).bytes = h
  <2> HIDE DEF h
  <2>1. Len(h) <= 4
    BY <1>3
  <2> QED
    BY <1>3, <2>1, PieceIs
<1>5. CASE v = 0
  <2>1. w = <<>>
    BY <1>5 DEF NumberBytes
  <2>2. Universal(v, sign) = <<Whole(h)>> \o <<>>
    BY <1>5 DEF Universal
  <2>3. <<Whole(h)>> \in Seq(Piece) /\ <<Whole(h)>> # <<>>
    BY <1>4
  <2>4. Universal(v, sign) = <<Whole(h)>>
    BY <2>2, <2>3, ConcatEmptySeq
  <2>5. Joined(<<Whole(h)>>) = h
    BY <1>4, JoinedOne
  <2>6. h \o w = h
    BY <1>3, <2>1, ConcatEmptySeq DEF Bytes
  <2> QED
    BY <1>2, <2>3, <2>4, <2>5, <2>6
<1>6. CASE v # 0
  <2>1. w = BigEndian(v, n) /\ w # <<>> /\ Len(w) <= 4
    BY <1>1, <1>6
  <2>2. Whole(w) \in Piece /\ Whole(w).bytes = w
    BY <1>1, <2>1, PieceIs
  <2>3. Universal(v, sign) = <<Whole(h)>> \o <<Whole(w)>>
    BY <1>6, <2>1 DEF Universal
  <2>4. <<Whole(h)>> \in Seq(Piece) /\ <<Whole(w)>> \in Seq(Piece) /\ <<Whole(h)>> # <<>>
    BY <1>4, <2>2
  <2> HIDE DEF h, w
  <2>5. Universal(v, sign) \in Seq(Piece) /\ Universal(v, sign) # <<>>
    BY <2>3, <2>4, ConcatProperties, ConcatEqualIffEmpty
  <2>6. Joined(Universal(v, sign)) = Joined(<<Whole(h)>>) \o Joined(<<Whole(w)>>)
    BY <2>3, <2>4, JoinedConcat
  <2>7. Joined(<<Whole(h)>>) = h /\ Joined(<<Whole(w)>>) = w
    BY <1>4, <2>2, JoinedOne
  <2> QED
    BY <1>2, <2>5, <2>6, <2>7 DEF h, w
<1> QED
  BY <1>5, <1>6

---------------------------------------------------------------------------
(* Values, whole or in chunks.                                             *)

\* That of WriteUB4.
LEMMA WriteUB4Is ==
  ASSUME NEW v \in UB4
  PROVE  /\ WriteUB4(v) \in Seq(Piece) /\ WriteUB4(v) # <<>> /\ ByteCount(v) \in Octet
         /\ Joined(WriteUB4(v)) = <<ByteCount(v)>> \o NumberBytes(v) /\ Joined(WriteUB4(v)) \in Bytes
<1>1. /\ Universal(v, 0) \in Seq(Piece) /\ Universal(v, 0) # <<>>
      /\ ByteCount(v) + 0 \in Octet
      /\ Joined(Universal(v, 0)) = <<ByteCount(v) + 0>> \o NumberBytes(v)
  BY UniversalIs
<1>2. ByteCount(v) + 0 = ByteCount(v)
  BY NumberBytesAre
<1> QED
  BY <1>1, <1>2, JoinedType DEF WriteUB4

\* Where the i-th chunk ends.
ChunkEnd(b, i) == Least(i * ChunkSize, Len(b))
ChunkCount(b) == (Len(b) + ChunkSize - 1) \div ChunkSize

\* The chunks end one behind the other, the last at the end of the value.
LEMMA ChunkEnds ==
  ASSUME NEW b \in Bytes
  PROVE  /\ ChunkCount(b) \in Nat
         /\ \A i \in 0 .. ChunkCount(b) : ChunkEnd(b, i) \in 0 .. Len(b)
         /\ ChunkEnd(b, 0) = 0 /\ ChunkEnd(b, ChunkCount(b)) = Len(b)
         /\ \A i \in 1 .. ChunkCount(b) :
              /\ ChunkEnd(b, i - 1) = (i - 1) * ChunkSize
              /\ ChunkEnd(b, i) - ChunkEnd(b, i - 1) \in 1 .. ChunkSize
<1> DEFINE l == Len(b)
           c == ChunkSize
           n == ChunkCount(b)
<1>1. l \in Nat /\ c \in Nat \ {0}
  BY SizesAre DEF Bytes
<1>2. n \in Int /\ (l + c - 1) % c \in 0 .. c - 1 /\ l + c - 1 = c * n + ((l + c - 1) % c)
  <2>1. l + c - 1 \in Int
    BY <1>1
  <2> QED
    BY <1>1, <2>1, DivisionIs DEF ChunkCount
<1> HIDE DEF l, c, n
<1>3. c * n \in Int /\ c * n >= l /\ c * n <= l + c - 1
  BY <1>1, <1>2
<1>4. n >= 0
  <2> SUFFICES ASSUME n <= -1 PROVE FALSE
    BY <1>2
  <2>1. c * n <= c * (-1)
    BY <1>1, <1>2
  <2> QED
    BY <1>1, <1>3, <2>1
<1>5. \A i \in 0 .. n : i * c \in Nat /\ ChunkEnd(b, i) = IF i * c < l THEN i * c ELSE l
  <2> SUFFICES ASSUME NEW i \in 0 .. n PROVE i * c \in Nat /\ ChunkEnd(b, i) = IF i * c < l THEN i * c ELSE l
    OBVIOUS
  <2>1. i \in Nat
    BY <1>2
  <2> QED
    BY <1>1, <2>1 DEF ChunkEnd, Least, l, c
<1>6. ASSUME NEW i \in 1 .. n
      PROVE  (i - 1) * c < l /\ (i - 1) * c \in Nat /\ i * c = (i - 1) * c + c /\ i \in 0 .. n /\ i - 1 \in 0 .. n
  <2>1. i \in Nat /\ i - 1 \in Nat /\ i - 1 <= n - 1
    BY <1>2
  <2>2. i * c = (i - 1) * c + c /\ (i - 1) * c \in Nat
    BY <1>1, <2>1
  <2>3. (i - 1) * c <= (n - 1) * c
    BY <1>1, <1>2, <2>1
  <2>4. (n - 1) * c = c * n - c
    BY <1>1, <1>2
  <2> QED
    BY <1>1, <1>2, <1>3, <2>1, <2>2, <2>3, <2>4
<1>7. \A i \in 0 .. n : ChunkEnd(b, i) \in 0 .. l
  BY <1>1, <1>5
<1>8. ChunkEnd(b, 0) = 0
  <2>1. 0 \in 0 .. n /\ 0 * c = 0
    BY <1>1, <1>2, <1>4
  <2> QED
    BY <1>1, <1>5, <2>1
<1>9. ChunkEnd(b, n) = l
  <2>1. n \in 0 .. n /\ n * c = c * n
    BY <1>1, <1>2, <1>4
  <2> QED
    BY <1>1, <1>3, <1>5, <2>1
<1>10. ASSUME NEW i \in 1 .. n
       PROVE  ChunkEnd(b, i - 1) = (i - 1) * c /\ ChunkEnd(b, i) - ChunkEnd(b, i - 1) \in 1 .. c
  <2>1. ChunkEnd(b, i - 1) = (i - 1) * c
    BY <1>5, <1>6
  <2>2. ChunkEnd(b, i) = IF i * c < l THEN i * c ELSE l
    BY <1>5, <1>6
  <2> QED
    BY <1>1, <1>6, <2>1, <2>2
<1> QED
  BY <1>2, <1>4, <1>7, <1>8, <1>9, <1>10 DEF l, c, n

\* The chunks, one behind the other, are the value.
LEMMA ChunksAre ==
  ASSUME NEW b \in Bytes
  PROVE  /\ Len(Chunks(b)) = ChunkCount(b) /\ DOMAIN Chunks(b) = 1 .. ChunkCount(b)
         /\ \A i \in 1 .. ChunkCount(b) :
              /\ Chunks(b)[i] \in Bytes /\ Len(Chunks(b)[i]) \in 1 .. ChunkSize /\ Len(Chunks(b)[i]) \in UB4
              /\ SubSeq(b, 1, ChunkEnd(b, i - 1)) \o Chunks(b)[i] = SubSeq(b, 1, ChunkEnd(b, i))
<1> DEFINE n == ChunkCount(b)
<1>1. /\ n \in Nat
      /\ \A i \in 0 .. n : ChunkEnd(b, i) \in 0 .. Len(b)
      /\ \A i \in 1 .. n : /\ ChunkEnd(b, i - 1) = (i - 1) * ChunkSize
                           /\ ChunkEnd(b, i) - ChunkEnd(b, i - 1) \in 1 .. ChunkSize
  BY ChunkEnds
<1>2. Chunks(b) = [i \in 1 .. n |-> SubSeq(b, (i - 1) * ChunkSize + 1, ChunkEnd(b, i))]
  BY DEF Chunks, ChunkCount, ChunkEnd
<1> HIDE DEF n
<1>3. DOMAIN Chunks(b) = 1 .. n /\ \A i \in 1 .. n : Chunks(b)[i] = SubSeq(b, (i - 1) * ChunkSize + 1, ChunkEnd(b, i))
  BY <1>2
<1>4. ASSUME NEW i \in 1 .. n
      PROVE  /\ Chunks(b)[i] \in Bytes /\ Len(Chunks(b)[i]) \in 1 .. ChunkSize
             /\ SubSeq(b, 1, ChunkEnd(b, i - 1)) \o Chunks(b)[i] = SubSeq(b, 1, ChunkEnd(b, i))
  <2> DEFINE p == ChunkEnd(b, i - 1)
             q == ChunkEnd(b, i)
  <2>1. i - 1 \in 0 .. n /\ i \in 0 .. n
    BY <1>1
  <2>2. p \in 0 .. Len(b) /\ q \in 0 .. Len(b) /\ q - p \in 1 .. ChunkSize
    BY <1>1, <2>1
  <2>3. p = (i - 1) * ChunkSize
    BY <1>1
  <2>4. Chunks(b)[i] = SubSeq(b, p + 1, q)
    BY <1>3, <2>3
  <2> HIDE DEF p, q
  <2>5. Len(b) \in Nat /\ p \in Nat /\ q \in Nat /\ p + 1 <= q /\ q <= Len(b) /\ ChunkSize \in Nat
    BY <2>2, SizesAre DEF Bytes
  <2>6. \A j \in p + 1 .. q : b[j] \in Octet
    BY <2>5, ElementOfSeq DEF Bytes
  <2>7. SubSeq(b, p + 1, q) \in Bytes /\ Len(SubSeq(b, p + 1, q)) = IF p + 1 <= q THEN q - (p + 1) + 1 ELSE 0
    BY <2>5, <2>6, SubSeqProperties DEF Bytes
  <2>8. Len(SubSeq(b, p + 1, q)) \in 1 .. ChunkSize
    BY <2>2, <2>5, <2>7
  <2>9. SubSeq(b, 1, p) \o SubSeq(b, p + 1, q) = SubSeq(b, 1, q)
    <3>1. 1 \in 1 .. Len(b) + 1 /\ p \in 1 - 1 .. Len(b) /\ q \in p .. Len(b)
      BY <2>5
    <3> QED
      BY <3>1, ConcatAdjacentSubSeq DEF Bytes
  <2> QED
    BY <2>4, <2>7, <2>8, <2>9 DEF p, q
<1>5. ASSUME NEW i \in 1 .. n PROVE Len(Chunks(b)[i]) \in UB4
  BY <1>4, SizesAre DEF UB4
<1>6. Len(Chunks(b)) = n
  <2>1. Chunks(b) \in Seq(Bytes)
    <3>1. \A i \in 1 .. n : SubSeq(b, (i - 1) * ChunkSize + 1, ChunkEnd(b, i)) \in Bytes
      BY <1>3, <1>4
    <3> QED
      BY <1>1, <1>2, <3>1, IsASeq
  <2> QED
    BY <1>1, <1>3, <2>1, LenProperties
<1> QED
  BY <1>3, <1>4, <1>5, <1>6 DEF n

\* A chunk with its length.
SentChunks(b) == [i \in 1 .. ChunkCount(b) |-> Joined(WriteUB4(Len(Chunks(b)[i]))) \o Chunks(b)[i]]

\* A value as it goes over the wire.
ValueBytes(b) ==
  IF Len(b) <= MaxShortLength THEN <<Len(b)>> \o b
  ELSE <<LongLength>> \o (FlattenSeq(SentChunks(b)) \o Joined(WriteUB4(0)))

\* One piece is a sequence of pieces.
LEMMA OnePiece ==
  ASSUME NEW p \in Piece
  PROVE  <<p>> \in Seq(Piece) /\ <<p>> # <<>>
OBVIOUS

\* So is one byte.
LEMMA ByteIs ==
  ASSUME NEW n \in Octet
  PROVE  /\ <<n>> \in Bytes /\ Len(<<n>>) = 1 /\ <<n>>[1] = n
         /\ <<Whole(<<n>>)>> \in Seq(Piece) /\ Joined(<<Whole(<<n>>)>>) = <<n>>
<1>1. <<n>> \in Bytes /\ Len(<<n>>) = 1 /\ <<n>>[1] = n /\ <<n>> # <<>>
  BY DEF Bytes
<1>2. Whole(<<n>>) \in Piece /\ Whole(<<n>>).bytes = <<n>>
  <2> DEFINE s == <<n>>
  <2>1. s \in Bytes /\ s # <<>> /\ Len(s) <= 4
    BY <1>1
  <2> HIDE DEF s
  <2>2. Whole(s) \in Piece /\ Whole(s).bytes = s
    BY <2>1, PieceIs
  <2> QED
    BY <2>2 DEF s
<1> QED
  BY <1>1, <1>2, OnePiece, JoinedOne

\* The chunks with their lengths.
LEMMA SentChunksAre ==
  ASSUME NEW b \in Bytes
  PROVE  /\ SentChunks(b) \in Seq(Bytes) /\ Len(SentChunks(b)) = ChunkCount(b)
         /\ \A i \in 1 .. ChunkCount(b) : SentChunks(b)[i] = Joined(WriteUB4(Len(Chunks(b)[i]))) \o Chunks(b)[i]
<1> DEFINE n == ChunkCount(b)
<1>1. n \in Nat /\ \A i \in 1 .. n : Chunks(b)[i] \in Bytes /\ Len(Chunks(b)[i]) \in UB4
  BY ChunksAre, ChunkEnds
<1>2. ASSUME NEW i \in 1 .. n PROVE Joined(WriteUB4(Len(Chunks(b)[i]))) \o Chunks(b)[i] \in Bytes
  <2>1. Joined(WriteUB4(Len(Chunks(b)[i]))) \in Bytes /\ Chunks(b)[i] \in Bytes
    BY <1>1, WriteUB4Is
  <2> QED
    BY <2>1, ConcatProperties DEF Bytes
<1>3. SentChunks(b) = [i \in 1 .. n |-> Joined(WriteUB4(Len(Chunks(b)[i]))) \o Chunks(b)[i]]
  BY DEF SentChunks
<1> HIDE DEF n
<1>4. SentChunks(b) \in Seq(Bytes) /\ DOMAIN SentChunks(b) = 1 .. n
  BY <1>1, <1>2, <1>3, IsASeq
<1>5. \A i \in 1 .. n : SentChunks(b)[i] = Joined(WriteUB4(Len(Chunks(b)[i]))) \o Chunks(b)[i]
  BY <1>3
<1>6. Len(SentChunks(b)) = n
  BY <1>1, <1>4, LenProperties
<1> QED
  BY <1>4, <1>5, <1>6 DEF n

\* They are what the chunks are written as.
LEMMA ChunksWritten ==
  ASSUME NEW b \in Bytes
  PROVE  LET ps == FlattenSeq([i \in DOMAIN Chunks(b) |-> WriteUB4(Len(Chunks(b)[i])) \o <<Raw(Chunks(b)[i])>>])
         IN  ps \in Seq(Piece) /\ Joined(ps) = FlattenSeq(SentChunks(b))
<1> DEFINE n == ChunkCount(b)
           pp == [i \in 1 .. n |-> WriteUB4(Len(Chunks(b)[i])) \o <<Raw(Chunks(b)[i])>>]
<1>1. /\ n \in Nat /\ DOMAIN Chunks(b) = 1 .. n
      /\ \A i \in 1 .. n : /\ Chunks(b)[i] \in Bytes /\ Len(Chunks(b)[i]) \in UB4
                           /\ Len(Chunks(b)[i]) \in 1 .. ChunkSize
  BY ChunksAre, ChunkEnds
<1>2. ASSUME NEW i \in 1 .. n
      PROVE  /\ WriteUB4(Len(Chunks(b)[i])) \o <<Raw(Chunks(b)[i])>> \in Seq(Piece)
             /\ Joined(WriteUB4(Len(Chunks(b)[i])) \o <<Raw(Chunks(b)[i])>>)
                  = Joined(WriteUB4(Len(Chunks(b)[i]))) \o Chunks(b)[i]
  <2> DEFINE h == WriteUB4(Len(Chunks(b)[i]))
             r == Raw(Chunks(b)[i])
  <2>1. Chunks(b)[i] \in Bytes /\ Chunks(b)[i] # <<>>
    BY <1>1, SizesAre
  <2>2. r \in Piece /\ r.bytes = Chunks(b)[i]
    BY <2>1, PieceIs
  <2>3. h \in Seq(Piece)
    BY <1>1, WriteUB4Is
  <2> HIDE DEF h, r
  <2>4. <<r>> \in Seq(Piece) /\ Joined(<<r>>) = Chunks(b)[i]
    BY <2>2, JoinedOne, OnePiece
  <2>5. h \o <<r>> \in Seq(Piece) /\ Joined(h \o <<r>>) = Joined(h) \o Joined(<<r>>)
    BY <2>3, <2>4, JoinedConcat, ConcatProperties
  <2> QED
    BY <2>4, <2>5 DEF h, r
<1>3. pp \in Seq(Seq(Piece)) /\ Len(pp) = n
  <2>2. DOMAIN pp = 1 .. n /\ n \in Nat /\ \A i \in 1 .. n : pp[i] \in Seq(Piece)
    BY <1>1, <1>2
  <2>3. pp = [i \in 1 .. n |-> pp[i]]
    OBVIOUS
  <2> HIDE DEF pp, n
  <2>1. pp \in Seq(Seq(Piece))
    BY <2>2, <2>3, IsASeq
  <2> QED
    BY <1>1, <2>1, <2>2, LenProperties
<1>4. \A i \in 1 .. n : pp[i] = WriteUB4(Len(Chunks(b)[i])) \o <<Raw(Chunks(b)[i])>>
  OBVIOUS
<1>5. [i \in DOMAIN Chunks(b) |-> WriteUB4(Len(Chunks(b)[i])) \o <<Raw(Chunks(b)[i])>>] = pp
  BY <1>1
<1> HIDE DEF pp, n
<1>6. FlattenSeq(pp) \in Seq(Piece)
  BY <1>3, FlattenType
<1>7. Joined(FlattenSeq(pp)) = FlattenSeq([i \in 1 .. n |-> Joined(pp[i])])
  BY <1>3, JoinedFlatten
<1>8. [i \in 1 .. n |-> Joined(pp[i])] = SentChunks(b)
  <2>1. \A i \in 1 .. n : Joined(pp[i]) = Joined(WriteUB4(Len(Chunks(b)[i]))) \o Chunks(b)[i]
    BY <1>2, <1>4
  <2> QED
    BY <2>1 DEF SentChunks, n
<1> QED
  BY <1>5, <1>6, <1>7, <1>8

\* The end of the chunks is a zero.
LEMMA ZeroIs == 0 \in UB4 /\ Joined(WriteUB4(0)) = <<0>> /\ WriteUB4(0) \in Seq(Piece)
<1>1. 0 \in UB4
  <2>1. Base \in Nat /\ Base > 9
    BY SizesAre
  <2>2. Base * Base \in Nat /\ Base * Base > 0
    BY <2>1
  <2>3. Base * Base * Base \in Nat /\ Base * Base * Base > 0
    BY <2>1, <2>2
  <2>4. Base * Base * Base * Base \in Nat /\ Base * Base * Base * Base > 0
    BY <2>1, <2>3
  <2> QED
    BY <2>4 DEF UB4
<1>2. ByteCount(0) = 0 /\ NumberBytes(0) = <<>>
  BY <1>1, NumberBytesAre DEF NumberBytes
<1>3. <<0>> \o <<>> = <<0>>
  OBVIOUS
<1> QED
  BY <1>1, <1>2, <1>3, WriteUB4Is

\* A value is written as its bytes are expected.
LEMMA ValueWritten ==
  ASSUME NEW b \in Bytes
  PROVE  /\ WriteBytesWithLength(b) \in Seq(Piece) /\ WriteBytesWithLength(b) # <<>>
         /\ Joined(WriteBytesWithLength(b)) = ValueBytes(b) /\ ValueBytes(b) \in Bytes
<1>1. CASE Len(b) <= MaxShortLength
  <2>1. Len(b) \in Octet
    BY <1>1, SizesAre DEF Bytes, Octet
  <2> DEFINE h == <<Whole(<<Len(b)>>)>>
  <2>2. <<Len(b)>> \in Bytes /\ h \in Seq(Piece) /\ Joined(h) = <<Len(b)>> /\ h # <<>>
    BY <2>1, ByteIs
  <2>3. WriteBytesWithLength(b) = h \o IF b = <<>> THEN <<>> ELSE <<Raw(b)>>
    BY <1>1 DEF WriteBytesWithLength
  <2> DEFINE t == IF b = <<>> THEN <<>> ELSE <<Raw(b)>>
  <2>4. t \in Seq(Piece) /\ Joined(t) = b
    BY PieceIs, OnePiece, JoinedOne, JoinedNone
  <2> HIDE DEF h, t
  <2>5. h \o t \in Seq(Piece) /\ h \o t # <<>>
    BY <2>2, <2>4, ConcatProperties, ConcatEqualIffEmpty
  <2>6. Joined(h \o t) = <<Len(b)>> \o b
    BY <2>2, <2>4, JoinedConcat
  <2>7. WriteBytesWithLength(b) = h \o t
    BY <2>3 DEF t
  <2>8. ValueBytes(b) = <<Len(b)>> \o b
    BY <1>1 DEF ValueBytes
  <2> QED
    BY <2>5, <2>6, <2>7, <2>8, JoinedType
<1>2. CASE ~ Len(b) <= MaxShortLength
  <2> DEFINE h == <<Whole(<<LongLength>>)>>
             c == FlattenSeq([i \in DOMAIN Chunks(b) |-> WriteUB4(Len(Chunks(b)[i])) \o <<Raw(Chunks(b)[i])>>])
             z == WriteUB4(0)
             all == (h \o c) \o z
  <2>1. LongLength \in Octet
    BY SizesAre DEF Octet
  <2>2. h \in Seq(Piece) /\ Joined(h) = <<LongLength>> /\ h # <<>>
    BY <2>1, ByteIs
  <2>3. c \in Seq(Piece) /\ Joined(c) = FlattenSeq(SentChunks(b))
    BY ChunksWritten
  <2>4. z \in Seq(Piece)
    BY ZeroIs
  <2>5. WriteBytesWithLength(b) = all
    BY <1>2 DEF WriteBytesWithLength
  <2> HIDE DEF h, c, z
  <2>6. h \o c \in Seq(Piece) /\ h \o c # <<>> /\ Joined(h \o c) = Joined(h) \o Joined(c)
    <3>1. h \o c \in Seq(Piece)
      BY <2>2, <2>3, ConcatProperties
    <3>2. h \o c # <<>>
      BY <2>2, <2>3, ConcatEqualIffEmpty
    <3>3. Joined(h \o c) = Joined(h) \o Joined(c)
      BY <2>2, <2>3, JoinedConcat
    <3> QED
      BY <3>1, <3>2, <3>3
  <2>7. all \in Seq(Piece) /\ all # <<>>
    BY <2>4, <2>6, ConcatProperties, ConcatEqualIffEmpty
  <2>8. Joined(all) = (Joined(h) \o Joined(c)) \o Joined(z)
    BY <2>4, <2>6, JoinedConcat
  <2>9. (Joined(h) \o Joined(c)) \o Joined(z) = Joined(h) \o (Joined(c) \o Joined(z))
    <3>1. Joined(h) \in Bytes /\ Joined(c) \in Bytes /\ Joined(z) \in Bytes
      BY <2>2, <2>3, <2>4, JoinedType
    <3>2. \A x, y, w \in Bytes : (x \o y) \o w = x \o (y \o w)
      BY ConcatAssociative DEF Bytes
    <3> QED
      BY <3>1, <3>2, Zenon
  <2>10. ValueBytes(b) = <<LongLength>> \o (FlattenSeq(SentChunks(b)) \o Joined(z))
    BY <1>2 DEF ValueBytes, z
  <2>11. Joined(all) = ValueBytes(b)
    <3>1. Joined(all) = Joined(h) \o (Joined(c) \o Joined(z))
      BY <2>8, <2>9
    <3>2. Joined(h) \o (Joined(c) \o Joined(z)) = <<LongLength>> \o (FlattenSeq(SentChunks(b)) \o Joined(z))
      BY <2>2, <2>3, Zenon
    <3> HIDE DEF all
    <3> QED
      BY <3>1, <3>2, <2>10
  <2>12. Joined(all) \in Bytes
    BY <2>7, JoinedType
  <2> HIDE DEF all
  <2> QED
    BY <2>5, <2>7, <2>11, <2>12
<1> QED
  BY <1>1, <1>2

---------------------------------------------------------------------------
(* A message.                                                              *)

\* The messages that are sent.
IsMessage == message \in Messages

\* A message has fields,
LEMMA MessageIs ==
  ASSUME IsMessage
  PROVE  /\ message \in Seq([kind : Kinds, n : Int]) /\ Len(message) \in Nat /\ message # <<>> /\ DOMAIN message = 1 .. Len(message)
         /\ \A i \in 1 .. Len(message) : message[i].kind \in Kinds /\ message[i].n \in Int /\ IsField(message[i])
<1>1. message \in Seq([kind : Kinds, n : Int]) /\ message # <<>> /\ \A i \in DOMAIN message : IsField(message[i])
  BY PacketsAssumption DEF IsMessage
<1>2. Len(message) \in Nat /\ DOMAIN message = 1 .. Len(message)
  BY <1>1, LenProperties
<1>3. \A i \in 1 .. Len(message) : message[i] \in [kind : Kinds, n : Int]
  BY <1>1, ElementOfSeq
<1> QED
  BY <1>1, <1>2, <1>3

\* What a field means is a number or bytes.
LEMMA MeantIs ==
  ASSUME IsMessage, NEW i \in 1 .. Len(message)
  PROVE  /\ message[i].kind = "unsigned" => Meant(i) \in UB4
         /\ message[i].kind = "signed" => Meant(i) \in Int /\ (Meant(i) \in UB4 \/ -Meant(i) \in UB4)
         /\ ~ IsNumber(message[i]) => Meant(i) \in Bytes /\ Len(Meant(i)) = message[i].n
         /\ message[i].kind \in {"sized", "out"} => message[i].n \in UB4
         /\ message[i].kind = "null" => Meant(i) = <<>>
<1> DEFINE f == message[i]
           n == f.n
           b == [k \in 1 .. n |-> (3 * i + k) % Base]
<1>1. f.kind \in Kinds /\ n \in Int /\ IsField(f) /\ i \in Nat
  BY MessageIs
<1>2. CASE IsNumber(f)
  <2>1. Meant(i) = n
    BY <1>2 DEF Meant
  <2>2. f.kind = "unsigned" \/ f.kind = "signed"
    BY <1>2 DEF IsNumber
  <2>3. f.kind = "unsigned" => n \in UB4
    BY <1>1 DEF IsField
  <2>4. f.kind = "signed" => n \in UB4 \/ -n \in UB4
    BY <1>1 DEF IsField
  <2> QED
    BY <1>1, <1>2, <2>1, <2>2, <2>3, <2>4 DEF IsNumber
<1>3. CASE ~ IsNumber(f)
  <2>1. Meant(i) = b
    BY <1>3 DEF Meant
  <2>2. f.kind \in {"value", "sized", "out", "null"}
    BY <1>1, <1>3 DEF IsNumber, Kinds
  <2>3. n \in Nat /\ (f.kind \in {"sized", "out"} => n \in UB4) /\ (f.kind = "null" => n = 0)
    <3>1. \A m \in UB4 : m \in Nat
      BY DEF UB4
    <3>2. f.kind = "sized" => n \in UB4
      BY <1>1 DEF IsField
    <3>3. f.kind = "out" => n \in UB4
      BY <1>1 DEF IsField
    <3>4. f.kind = "value" => n >= 0
      BY <1>1 DEF IsField
    <3>5. f.kind = "null" => n = 0
      BY <1>1 DEF IsField
    <3> QED
      BY <1>1, <2>2, <3>1, <3>2, <3>3, <3>4, <3>5
  <2>4. \A k \in 1 .. n : (3 * i + k) % Base \in Octet
    <3>1. Base \in Nat \ {0}
      BY SizesAre
    <3> SUFFICES ASSUME NEW k \in 1 .. n PROVE (3 * i + k) % Base \in Octet
      OBVIOUS
    <3>2. 3 * i + k \in Int
      BY <1>1, <2>3
    <3> QED
      BY <3>1, <3>2, DivisionIs DEF Octet
  <2> HIDE DEF n
  <2>5. b \in Bytes /\ DOMAIN b = 1 .. n
    BY <2>3, <2>4, IsASeq DEF Bytes
  <2> HIDE DEF b
  <2>6. Len(b) = n
    BY <2>3, <2>5, LenProperties DEF Bytes
  <2>7. n = 0 => b = <<>>
    BY <2>5, <2>6 DEF Bytes
  <2> QED
    BY <1>3, <2>1, <2>2, <2>3, <2>5, <2>6, <2>7 DEF IsNumber, n
<1> QED
  BY <1>2, <1>3

\* A signed integer is written as pieces,
LEMMA SignedWritten ==
  ASSUME NEW v \in Int, v \in UB4 \/ -v \in UB4
  PROVE  WriteSB4(v) \in Seq(Piece) /\ WriteSB4(v) # <<>>
<1>1. v < 0 => -v \in UB4
  BY DEF UB4
<1>2. ~ v < 0 => v \in UB4
  BY DEF UB4
<1> QED
  BY <1>1, <1>2, UniversalIs DEF WriteSB4

\* Every field is written in pieces, at least one.
LEMMA PiecesAre ==
  ASSUME IsMessage, NEW i \in 1 .. Len(message)
  PROVE  Pieces(i) \in Seq(Piece) /\ Pieces(i) # <<>>
<1> DEFINE f == message[i]
<1>1. f.kind \in Kinds
  BY MessageIs
<1>2. CASE f.kind = "unsigned"
  <2>1. Meant(i) \in UB4
    BY <1>2, MeantIs
  <2> QED
    BY <1>2, <2>1, WriteUB4Is DEF Pieces
<1>3. CASE f.kind = "signed"
  <2>1. Meant(i) \in Int /\ (Meant(i) \in UB4 \/ -Meant(i) \in UB4)
    BY <1>3, MeantIs
  <2> QED
    BY <1>3, <2>1, SignedWritten DEF Pieces
<1>4. CASE f.kind = "sized"
  <2>1. Meant(i) \in Bytes /\ Len(Meant(i)) \in UB4
    BY <1>4, MeantIs DEF IsNumber
  <2>2. WriteUB4(Len(Meant(i))) \in Seq(Piece) /\ WriteUB4(Len(Meant(i))) # <<>>
    BY <2>1, WriteUB4Is
  <2> DEFINE t == IF Meant(i) = <<>> THEN <<>> ELSE WriteBytesWithLength(Meant(i))
  <2>3. t \in Seq(Piece)
    BY <2>1, ValueWritten
  <2>4. Pieces(i) = WriteUB4(Len(Meant(i))) \o t
    BY <1>4 DEF Pieces, WriteBytesWithTwoLengths
  <2> HIDE DEF t
  <2> QED
    BY <2>2, <2>3, <2>4, ConcatProperties, ConcatEqualIffEmpty
<1>5. CASE f.kind \in {"value", "out", "null"}
  <2>1. Meant(i) \in Bytes
    BY <1>5, MeantIs DEF IsNumber
  <2>2. Pieces(i) = WriteBytesWithLength(Meant(i))
    BY <1>5 DEF Pieces
  <2> QED
    BY <2>1, <2>2, ValueWritten
<1> QED
  BY <1>1, <1>2, <1>3, <1>4, <1>5 DEF Kinds

---------------------------------------------------------------------------
(* Bytes one behind the other.                                             *)

\* What concatenation does to bytes,
LEMMA BytesJoin ==
  /\ <<>> \in Bytes
  /\ \A x \in Bytes : x \o <<>> = x /\ <<>> \o x = x /\ Len(x) \in Nat /\ (Len(x) = 0 <=> x = <<>>)
  /\ \A x, y \in Bytes : x \o y \in Bytes /\ Len(x \o y) = Len(x) + Len(y)
  /\ \A x, y \in Bytes : x \o y = <<>> <=> (x = <<>> /\ y = <<>>)
  /\ \A x, y, z \in Bytes : (x \o y) \o z = x \o (y \o z)
  /\ \A x, y, z \in Bytes : x \o y = x \o z => y = z
<1>1. <<>> \in Bytes
  BY DEF Bytes
<1>2. ASSUME NEW x \in Bytes PROVE x \o <<>> = x /\ <<>> \o x = x /\ Len(x) \in Nat /\ (Len(x) = 0 <=> x = <<>>)
  BY ConcatEmptySeq, EmptySeq, LenProperties DEF Bytes
<1>3. ASSUME NEW x \in Bytes, NEW y \in Bytes PROVE x \o y \in Bytes /\ Len(x \o y) = Len(x) + Len(y)
  BY ConcatProperties DEF Bytes
<1>4. ASSUME NEW x \in Bytes, NEW y \in Bytes PROVE x \o y = <<>> <=> (x = <<>> /\ y = <<>>)
  BY ConcatEqualIffEmpty DEF Bytes
<1>5. ASSUME NEW x \in Bytes, NEW y \in Bytes, NEW z \in Bytes PROVE (x \o y) \o z = x \o (y \o z)
  BY ConcatAssociative DEF Bytes
<1>6. ASSUME NEW x \in Bytes, NEW y \in Bytes, NEW z \in Bytes, x \o y = x \o z PROVE y = z
  <2>1. x \in Seq(Octet) /\ y \in Seq(Octet) /\ z \in Seq(Octet)
    BY DEF Bytes
  <2>2. Len(x \o y) = Len(x) + Len(y) /\ Len(x \o z) = Len(x) + Len(z) /\ Len(x) \in Nat /\ Len(y) \in Nat /\ Len(z) \in Nat
    BY <2>1, ConcatProperties
  <2>3. Len(y) = Len(z)
    BY <1>6, <2>2
  <2>4. \A i \in 1 .. Len(y) : y[i] = z[i]
    <3> SUFFICES ASSUME NEW i \in 1 .. Len(y) PROVE y[i] = z[i]
      OBVIOUS
    <3>1. (x \o y)[Len(x) + i] = y[i]
      BY <2>1, <2>2
    <3>2. (x \o z)[Len(x) + i] = z[i]
      BY <2>1, <2>2, <2>3
    <3> QED
      BY <1>6, <3>1, <3>2
  <2> QED
    BY <2>1, <2>3, <2>4, SeqEqual
<1> QED
  BY <1>1, <1>2, <1>3, <1>4, <1>5, <1>6

\* in particular their lengths
LEMMA BytesConcat ==
  ASSUME NEW x \in Bytes, NEW y \in Bytes
  PROVE  x \o y \in Bytes /\ Len(x \o y) = Len(x) + Len(y)
BY BytesJoin

\* and their grouping.
LEMMA BytesAssoc ==
  ASSUME NEW x \in Bytes, NEW y \in Bytes, NEW z \in Bytes
  PROVE  (x \o y) \o z = x \o (y \o z)
BY BytesJoin

\* What is cut is joined again.
LEMMA BytesCut ==
  ASSUME NEW x \in Bytes, NEW n \in 0 .. Len(x)
  PROVE  /\ SubSeq(x, 1, n) \in Bytes /\ Len(SubSeq(x, 1, n)) = n
         /\ SubSeq(x, n + 1, Len(x)) \in Bytes /\ Len(SubSeq(x, n + 1, Len(x))) = Len(x) - n
         /\ SubSeq(x, 1, n) \o SubSeq(x, n + 1, Len(x)) = x
<1>1. x \in Seq(Octet) /\ Len(x) \in Nat
  BY DEF Bytes
<1>2. SubSeq(x, 1, n) \in Bytes /\ Len(SubSeq(x, 1, n)) = n
  BY <1>1 DEF Bytes
<1>3. SubSeq(x, n + 1, Len(x)) \in Bytes /\ Len(SubSeq(x, n + 1, Len(x))) = Len(x) - n
  BY <1>1 DEF Bytes
<1>4. SubSeq(x, 1, n) \o SubSeq(x, n + 1, Len(x)) = SubSeq(x, 1, Len(x))
  <2>1. 1 \in 1 .. Len(x) + 1 /\ n \in 1 - 1 .. Len(x) /\ Len(x) \in n .. Len(x)
    BY <1>1
  <2> QED
    BY <1>1, <2>1, ConcatAdjacentSubSeq
<1>5. SubSeq(x, 1, Len(x)) = x
  BY <1>1, SubSeqFull
<1> QED
  BY <1>2, <1>3, <1>4, <1>5

\* Two ways to join the same bytes, with beginnings of one length, are one.
SameJoined(x, y, u, v) ==
  x \in Bytes /\ y \in Bytes /\ u \in Bytes /\ v \in Bytes /\ x \o y = u \o v /\ Len(x) = Len(u)

\* Two equal joints with beginnings as long as each other are equal in both parts.
LEMMA SameBeginning ==
  ASSUME NEW x, NEW y, NEW u, NEW v, SameJoined(x, y, u, v)
  PROVE  x = u /\ y = v
<1>0. x \in Bytes /\ y \in Bytes /\ u \in Bytes /\ v \in Bytes /\ x \o y = u \o v /\ Len(x) = Len(u)
  BY DEF SameJoined
<1>1. x = u
  <2>1. \A i \in 1 .. Len(x) : x[i] = u[i]
    <3> SUFFICES ASSUME NEW i \in 1 .. Len(x) PROVE x[i] = u[i]
      OBVIOUS
    <3>0. x \in Seq(Octet) /\ y \in Seq(Octet) /\ u \in Seq(Octet) /\ v \in Seq(Octet)
      BY <1>0 DEF Bytes
    <3>3. Len(x) \in Nat /\ Len(y) \in Nat /\ Len(v) \in Nat
      BY <3>0
    <3>1. (x \o y)[i] = x[i]
      BY <3>0, <3>3, ConcatProperties
    <3>2. (u \o v)[i] = u[i]
      BY <1>0, <3>0, <3>3, ConcatProperties
    <3> QED
      BY <1>0, <3>1, <3>2
  <2> QED
    BY <1>0, <2>1, SeqEqual DEF Bytes
<1>2. x \o y = x \o v
  BY <1>0, <1>1
<1>3. \A a, b, c \in Bytes : a \o b = a \o c => b = c
  BY BytesJoin
<1>4. y = v
  BY <1>0, <1>2, <1>3, Zenon
<1> QED
  BY <1>1, <1>4

---------------------------------------------------------------------------
(* The writer: what was sent, what is buffered and what is still in the    *)
(* queue are the message.                                                  *)

AllPieces == FlattenSeq([i \in DOMAIN message |-> Pieces(i)])

PacketsAreSent ==
  packets \in Seq(Bytes) /\ \A i \in DOMAIN packets : packets[i] # <<>> /\ Len(packets[i]) <= PacketSize

Writing ==
  /\ queue \in Seq(Piece) /\ buffered \in Bytes /\ Len(buffered) <= PacketSize
  /\ queue = <<>> => buffered # <<>>
  /\ FlattenSeq(packets) \o (buffered \o Joined(queue)) = Joined(AllPieces)

WriterInv ==
  /\ PacketsAreSent
  /\ turn = "write" => Writing
  /\ turn = "answer" => FlattenSeq(packets) = Joined(AllPieces)

\* The message is written as pieces.
LEMMA AllPiecesAre ==
  ASSUME IsMessage
  PROVE  AllPieces \in Seq(Piece) /\ AllPieces # <<>>
<1> DEFINE n == Len(message)
           pp == [i \in 1 .. n |-> Pieces(i)]
<1>1. n \in Nat /\ n # 0 /\ DOMAIN message = 1 .. n
  <2>1. Len(message) \in Nat /\ message # <<>> /\ DOMAIN message = 1 .. Len(message) /\ message \in Seq([kind : Kinds, n : Int])
    BY MessageIs
  <2> QED
    BY <2>1, EmptySeq
<1>2. \A i \in 1 .. n : Pieces(i) \in Seq(Piece) /\ Pieces(i) # <<>>
  BY PiecesAre
<1>3. pp \in Seq(Seq(Piece)) /\ Len(pp) = n
  BY <1>1, <1>2
<1>4. AllPieces = FlattenSeq(pp)
  BY <1>1 DEF AllPieces
<1>6. FlattenSeq(pp) = pp[1] \o FlattenSeq(SubSeq(pp, 2, Len(pp)))
  <2>1. 0 \in 0 .. Len(pp) - 1
    BY <1>1, <1>3
  <2>2. FlattenSeq(SubSeq(pp, 0 + 1, Len(pp))) = pp[0 + 1] \o FlattenSeq(SubSeq(pp, 0 + 2, Len(pp)))
    BY <1>3, <2>1, FlattenFrom
  <2>3. 0 + 1 = 1 /\ 0 + 2 = 2
    OBVIOUS
  <2>4. pp = SubSeq(pp, 1, Len(pp))
    BY <1>3, SubSeqFull
  <2> HIDE DEF pp
  <2>5. FlattenSeq(SubSeq(pp, 1, Len(pp))) = pp[1] \o FlattenSeq(SubSeq(pp, 2, Len(pp)))
    BY <2>2, <2>3
  <2> QED
    BY <2>4, <2>5
<1>7. pp[1] \in Seq(Piece) /\ pp[1] # <<>>
  BY <1>1, <1>2
<1>8. SubSeq(pp, 2, Len(pp)) \in Seq(Seq(Piece))
  BY <1>3, <1>1
<1> HIDE DEF pp
<1>9. FlattenSeq(SubSeq(pp, 2, Len(pp))) \in Seq(Piece)
  BY <1>8, FlattenType
<1>10. FlattenSeq(pp) # <<>>
  BY <1>6, <1>7, <1>9, ConcatEqualIffEmpty
<1> QED
  BY <1>3, <1>4, <1>10, FlattenType

\* The queue is its first piece and the others.
LEMMA QueueIs ==
  ASSUME NEW q \in Seq(Piece), q # <<>>
  PROVE  /\ Head(q) \in Piece /\ Head(q).bytes \in Bytes /\ Head(q).bytes # <<>> /\ Tail(q) \in Seq(Piece)
         /\ Head(q).whole => Len(Head(q).bytes) <= PacketSize
         /\ Joined(q) = Head(q).bytes \o Joined(Tail(q))
<1>1. Head(q) \in Piece /\ Tail(q) \in Seq(Piece) /\ q = <<Head(q)>> \o Tail(q)
  <2>1. Head(q) \in Piece /\ Tail(q) \in Seq(Piece)
    BY HeadTailProperties
  <2>2. q = <<Head(q)>> \o Tail(q)
    <3>1. Len(q) \in Nat \ {0}
      BY EmptySeq
    <3>2. 1 \in 1 .. Len(q) /\ Len(q) \in 1 .. Len(q)
      BY <3>1
    <3>3. SubSeq(q, 1, Len(q)) = <<q[1]>> \o SubSeq(q, 1 + 1, Len(q))
      BY <3>2, SubSeqRecursiveFirst
    <3>4. SubSeq(q, 1, Len(q)) = q
      BY SubSeqFull
    <3>5. Tail(q) = SubSeq(q, 1 + 1, Len(q))
      BY TailIsSubSeq
    <3>6. Head(q) = q[1]
      OBVIOUS
    <3> QED
      BY <3>3, <3>4, <3>5, <3>6, Zenon
  <2> QED
    BY <2>1, <2>2
<1>2. Joined(<<Head(q)>>) = Head(q).bytes /\ <<Head(q)>> \in Seq(Piece)
  BY <1>1, JoinedOne
<1>3. Joined(<<Head(q)>> \o Tail(q)) = Joined(<<Head(q)>>) \o Joined(Tail(q))
  BY <1>1, <1>2, JoinedConcat
<1>4. Joined(q) = Head(q).bytes \o Joined(Tail(q))
  BY <1>1, <1>2, <1>3, Zenon
<1> QED
  BY <1>1, <1>4 DEF Piece, IsPiece

\* One packet more.
LEMMA OnePacketMore ==
  ASSUME PacketsAreSent, NEW b \in Bytes, b # <<>>, Len(b) <= PacketSize, packets' = Append(packets, b)
  PROVE  PacketsAreSent' /\ FlattenSeq(packets) \in Bytes /\ FlattenSeq(packets') = FlattenSeq(packets) \o b
<1>1. packets \in Seq(Bytes)
  BY DEF PacketsAreSent
<1>2. packets' \in Seq(Bytes) /\ DOMAIN packets' = 1 .. Len(packets) + 1 /\ Len(packets) \in Nat
  BY <1>1, AppendProperties
<1>3. \A i \in 1 .. Len(packets) : packets'[i] = packets[i] /\ i \in DOMAIN packets
  BY <1>1, AppendProperties
<1>4. packets'[Len(packets) + 1] = b
  BY <1>1, AppendProperties
<1>5. PacketsAreSent'
  BY <1>2, <1>3, <1>4 DEF PacketsAreSent
<1>6. FlattenSeq(packets) \in Bytes
  BY <1>1, FlattenType DEF Bytes
<1>7. FlattenSeq(packets') = FlattenSeq(packets) \o b
  BY <1>1, FlattenAppend DEF Bytes
<1> QED
  BY <1>5, <1>6, <1>7

\* The pieces go into packets in their order, cut where a packet is full.
LEMMA SendPacketWrites ==
  ASSUME WriterInv, IsMessage, SendPacket
  PROVE  WriterInv'
<1>1. PacketsAreSent /\ Writing /\ queue # <<>> /\ turn' = "write" /\ queue' = queue /\ message' = message
  BY DEF SendPacket, WriterInv
<1>2. packets' = Append(packets, buffered) /\ buffered' = <<>>
  BY DEF SendPacket
<1>3. queue \in Seq(Piece) /\ buffered \in Bytes /\ Len(buffered) <= PacketSize
  BY <1>1 DEF Writing
<1>4. buffered # <<>>
  <2>1. /\ Head(queue).bytes \in Bytes /\ (Head(queue).whole => Len(Head(queue).bytes) <= PacketSize)
    BY <1>1, <1>3, QueueIs
  <2>2. Len(buffered) \in Nat /\ Len(Head(queue).bytes) \in Nat
    BY <1>3, <2>1, BytesJoin
  <2>3. IF Head(queue).whole THEN Len(Head(queue).bytes) > PacketSize - Len(buffered) ELSE PacketSize - Len(buffered) = 0
    BY DEF SendPacket, Room
  <2>4. Len(buffered) > 0
    BY <2>1, <2>2, <2>3, SizesAre
  <2> QED
    BY <1>3, <2>4, BytesJoin
<1>5. PacketsAreSent' /\ FlattenSeq(packets) \in Bytes /\ FlattenSeq(packets') = FlattenSeq(packets) \o buffered
  BY <1>1, <1>2, <1>3, <1>4, OnePacketMore
<1>6. Writing'
  <2>1. AllPieces' = AllPieces
    BY <1>1 DEF AllPieces, Pieces, Meant
  <2>2. Joined(queue) \in Bytes /\ <<>> \in Bytes
    BY <1>3, JoinedType, BytesJoin
  <2>3. (FlattenSeq(packets) \o buffered) \o Joined(queue) = FlattenSeq(packets) \o (buffered \o Joined(queue))
    <3>1. \A x, y, z \in Bytes : (x \o y) \o z = x \o (y \o z)
      BY BytesJoin
    <3> QED
      BY <1>3, <1>5, <2>2, <3>1, Zenon
  <2>4. <<>> \o Joined(queue) = Joined(queue)
    BY <2>2, BytesJoin
  <2>5. FlattenSeq(packets') \o (<<>> \o Joined(queue)) = Joined(AllPieces)
    BY <1>1, <1>5, <2>3, <2>4 DEF Writing
  <2>6. Len(<<>>) <= PacketSize
    BY SizesAre
  <2>7. (Joined(queue))' = Joined(queue) /\ (Joined(AllPieces))' = Joined(AllPieces)
    BY <1>1, <2>1 DEF Joined
  <2>8. FlattenSeq(packets') \o (buffered' \o Joined(queue)') = Joined(AllPieces)'
    BY <1>2, <2>5, <2>7
  <2> QED
    BY <1>1, <1>2, <1>3, <2>2, <2>6, <2>8 DEF Writing
<1> QED
  BY <1>1, <1>5, <1>6 DEF WriterInv
\* The head of the queue goes into the buffer, or its first bytes do.
LEMMA IntoBuffer ==
  ASSUME WriterInv, turn = "write", NEW h \in Bytes, h # <<>>, NEW q \in Seq(Piece),
         Joined(queue) = h \o Joined(q), Len(h) <= Room,
         buffered' = buffered \o h, queue' = q,
         UNCHANGED <<message, turn, packets>>
  PROVE  WriterInv'
<1>1. PacketsAreSent /\ queue \in Seq(Piece) /\ buffered \in Bytes /\ Len(buffered) <= PacketSize
      /\ FlattenSeq(packets) \o (buffered \o Joined(queue)) = Joined(AllPieces)
  BY DEF WriterInv, Writing
<1>2. packets \in Seq(Bytes) /\ FlattenSeq(packets) \in Bytes /\ Joined(q) \in Bytes
  BY <1>1, FlattenType, JoinedType DEF PacketsAreSent, Bytes
<1>3. buffered' \in Bytes /\ buffered' # <<>> /\ Len(buffered') = Len(buffered) + Len(h)
  BY <1>1, BytesJoin
<1>4. Len(buffered') <= PacketSize
  <2>1. Len(buffered) \in Nat /\ Len(h) \in Nat /\ PacketSize \in Nat
    BY <1>1, BytesJoin, SizesAre
  <2>2. Len(h) <= PacketSize - Len(buffered)
    BY DEF Room
  <2> QED
    BY <1>3, <2>1, <2>2
<1>5. buffered \o (h \o Joined(q)) = (buffered \o h) \o Joined(q)
  <2>1. \A x, y, z \in Bytes : (x \o y) \o z = x \o (y \o z)
    BY BytesJoin
  <2> QED
    BY <1>1, <1>2, <2>1, Zenon
<1>6. AllPieces' = AllPieces
  BY DEF AllPieces, Pieces, Meant
<1>7. Joined(queue)' = Joined(q) /\ Joined(AllPieces)' = Joined(AllPieces)
  BY <1>6 DEF Joined
<1>8. FlattenSeq(packets') \o (buffered' \o Joined(queue)') = Joined(AllPieces)'
  BY <1>1, <1>5, <1>7
<1>9. Writing'
  BY <1>3, <1>4, <1>8 DEF Writing
<1>10. PacketsAreSent'
  BY <1>1 DEF PacketsAreSent
<1> QED
  BY <1>9, <1>10 DEF WriterInv

\* A whole piece leaves the queue for the buffer,
LEMMA PutPieceWrites ==
  ASSUME WriterInv, IsMessage, PutPiece
  PROVE  WriterInv'
<1> DEFINE h == Head(queue).bytes
<1>1. turn = "write" /\ queue # <<>> /\ Len(h) <= Room /\ buffered' = buffered \o h /\ queue' = Tail(queue)
      /\ UNCHANGED <<message, turn, packets>>
  BY DEF PutPiece
<1>2. queue \in Seq(Piece)
  BY <1>1 DEF WriterInv, Writing
<1>3. h \in Bytes /\ h # <<>> /\ Tail(queue) \in Seq(Piece) /\ Joined(queue) = h \o Joined(Tail(queue))
  BY <1>1, <1>2, QueueIs
<1> HIDE DEF h
<1> QED
  BY <1>1, <1>3, IntoBuffer

\* as much as there is room for of one that is not,
LEMMA PutRawWrites ==
  ASSUME WriterInv, IsMessage, PutRaw
  PROVE  WriterInv'
<1> DEFINE b == Head(queue).bytes
           n == Least(Len(b), Room)
           h == SubSeq(b, 1, n)
           t == SubSeq(b, n + 1, Len(b))
           q == (IF n = Len(b) THEN <<>> ELSE <<Raw(t)>>) \o Tail(queue)
<1>1. turn = "write" /\ queue # <<>> /\ Room > 0 /\ buffered' = buffered \o h /\ queue' = q
      /\ UNCHANGED <<message, turn, packets>>
  BY DEF PutRaw
<1>2. queue \in Seq(Piece) /\ buffered \in Bytes
  BY <1>1 DEF WriterInv, Writing
<1>3. b \in Bytes /\ b # <<>> /\ Tail(queue) \in Seq(Piece) /\ Joined(queue) = b \o Joined(Tail(queue))
  BY <1>1, <1>2, QueueIs
<1>4. n \in 1 .. Len(b) /\ n <= Room
  <2>1. Len(b) \in Nat /\ Len(b) # 0 /\ Len(buffered) \in Nat /\ PacketSize \in Nat
    BY <1>2, <1>3, BytesJoin, SizesAre
  <2>2. Room \in Int
    BY <2>1 DEF Room
  <2> QED
    BY <1>1, <2>1, <2>2 DEF Least
<1>5. h \in Bytes /\ Len(h) = n /\ t \in Bytes /\ Len(t) = Len(b) - n /\ h \o t = b
  <2>1. n \in 0 .. Len(b)
    BY <1>4
  <2> HIDE DEF b, n
  <2> QED
    BY <1>3, <2>1, BytesCut
<1>6. h # <<>>
  <2>1. Len(<<>>) = 0
    OBVIOUS
  <2>2. n # 0
    BY <1>4
  <2> QED
    BY <1>5, <2>1, <2>2
<1> HIDE DEF b, n, h, t
<1>7. q \in Seq(Piece) /\ Joined(q) = t \o Joined(Tail(queue))
  <2>0. Joined(Tail(queue)) \in Bytes
    BY <1>3, JoinedType
  <2>1. CASE n = Len(b)
    <3>1. t = <<>>
      <4>1. Len(b) \in Nat
        BY <1>3, BytesJoin
      <4> QED
        BY <1>5, <2>1, <4>1, BytesJoin
    <3>2. q = Tail(queue)
      BY <2>1, <1>3, ConcatEmptySeq
    <3> QED
      BY <1>3, <2>0, <3>1, <3>2, BytesJoin
  <2>2. CASE n # Len(b)
    <3>1. t # <<>>
      <4>1. Len(t) # 0
        <5>1. Len(b) \in Nat
          BY <1>3, BytesJoin
        <5> QED
          BY <1>4, <1>5, <2>2, <5>1
      <4> QED
        BY <4>1, <1>5, BytesJoin
    <3>2. Raw(t) \in Piece /\ Raw(t).bytes = t
      BY <1>5, <3>1, PieceIs
    <3>3. <<Raw(t)>> \in Seq(Piece) /\ Joined(<<Raw(t)>>) = t
      BY <3>2, OnePiece, JoinedOne
    <3>4. q = <<Raw(t)>> \o Tail(queue)
      BY <2>2
    <3>5. <<Raw(t)>> \o Tail(queue) \in Seq(Piece)
      BY <1>3, <3>3, ConcatProperties
    <3>6. Joined(<<Raw(t)>> \o Tail(queue)) = t \o Joined(Tail(queue))
      BY <1>3, <3>3, JoinedConcat
    <3> HIDE DEF q
    <3> QED
      BY <3>4, <3>5, <3>6
  <2> QED
    BY <2>1, <2>2
<1> HIDE DEF q
<1>8. Joined(queue) = h \o Joined(q)
  <2>1. \A x, y, z \in Bytes : (x \o y) \o z = x \o (y \o z)
    BY BytesJoin
  <2>2. Joined(Tail(queue)) \in Bytes
    BY <1>3, JoinedType
  <2>3. (h \o t) \o Joined(Tail(queue)) = h \o (t \o Joined(Tail(queue)))
    BY <1>5, <2>1, <2>2, Zenon
  <2> QED
    BY <1>3, <1>5, <1>7, <2>3
<1>9. Len(h) <= Room
  BY <1>4, <1>5
<1> QED
  BY <1>1, <1>5, <1>6, <1>7, <1>8, <1>9, IntoBuffer

\* and the last packet is what is left.
LEMMA EndRequestWrites ==
  ASSUME WriterInv, IsMessage, EndRequest
  PROVE  WriterInv'
<1>1. PacketsAreSent /\ Writing /\ queue = <<>> /\ turn' = "answer" /\ message' = message
      /\ packets' = Append(packets, buffered)
  BY DEF EndRequest, WriterInv
<1>2. buffered \in Bytes /\ Len(buffered) <= PacketSize /\ buffered # <<>>
      /\ FlattenSeq(packets) \o (buffered \o Joined(queue)) = Joined(AllPieces)
  BY <1>1 DEF Writing
<1>3. PacketsAreSent' /\ FlattenSeq(packets') = FlattenSeq(packets) \o buffered
  BY <1>1, <1>2, OnePacketMore
<1>4. Joined(queue) = <<>>
  BY <1>1, JoinedNone
<1>5. buffered \o Joined(queue) = buffered
  BY <1>2, <1>4, BytesJoin
<1>6. AllPieces' = AllPieces
  BY <1>1 DEF AllPieces, Pieces, Meant
<1>7. Joined(AllPieces)' = Joined(AllPieces)
  BY <1>6 DEF Joined
<1>8. FlattenSeq(packets') = Joined(AllPieces)'
  BY <1>2, <1>3, <1>5, <1>7
<1> QED
  BY <1>1, <1>3, <1>8 DEF WriterInv

---------------------------------------------------------------------------
(* The answer, cut into packets.                                           *)

IsAnswer ==
  incoming \in Seq(Bytes) /\ incoming # <<>> /\ \A i \in 1 .. Len(incoming) : incoming[i] # <<>>

\* The packets of an answer are not empty, and together the answer.
LEMMA CutAtIs ==
  ASSUME NEW b \in Bytes, NEW ends \in Ends(b)
  PROVE  /\ CutAt(b, ends) \in Seq(Bytes) /\ CutAt(b, ends) # <<>>
         /\ \A i \in 1 .. Len(CutAt(b, ends)) : CutAt(b, ends)[i] # <<>>
         /\ FlattenSeq(CutAt(b, ends)) = b
<1> DEFINE begin(k) == IF k = 0 THEN 0 ELSE ends[k]
           c == CutAt(b, ends)
<1>1. PICK n \in 1 .. MaxPackets : ends \in [1 .. n -> 1 .. Len(b)] /\ ends[n] = Len(b) /\ \A i \in 1 .. n - 1 : ends[i] < ends[i + 1]
  BY DEF Ends
<1>2. n \in Nat \ {0} /\ Len(b) \in Nat /\ b \in Seq(Octet)
  BY SizesAre DEF Bytes
<1>3. \A k \in 0 .. n : begin(k) \in 0 .. Len(b)
  BY <1>1, <1>2
<1>4. begin(0) = 0 /\ begin(n) = Len(b)
  BY <1>1, <1>2
<1>5. \A k \in 0 .. n - 1 : begin(k) < begin(k + 1)
  <2> SUFFICES ASSUME NEW k \in 0 .. n - 1 PROVE begin(k) < begin(k + 1)
    OBVIOUS
  <2>1. k + 1 \in 1 .. n /\ k + 1 # 0
    BY <1>2
  <2>2. ends[k + 1] \in 1 .. Len(b)
    BY <1>1, <2>1
  <2>3. CASE k = 0
    BY <2>1, <2>2, <2>3
  <2>4. CASE k # 0
    <3>1. k \in 1 .. n - 1
      BY <2>4
    <3> QED
      BY <1>1, <3>1, <2>1, <2>4
  <2> QED
    BY <2>3, <2>4
<1>6. c = [i \in 1 .. n |-> SubSeq(b, begin(i - 1) + 1, begin(i))]
  <2>1. DOMAIN ends = 1 .. n
    BY <1>1
  <2>2. \A i \in 1 .. n : (IF i = 1 THEN 0 ELSE ends[i - 1]) = begin(i - 1) /\ ends[i] = begin(i)
    BY <1>2
  <2>3. c = [i \in 1 .. n |-> SubSeq(b, (IF i = 1 THEN 0 ELSE ends[i - 1]) + 1, ends[i])]
    BY <2>1 DEF CutAt
  <2> HIDE DEF begin, c
  <2> QED
    BY <2>2, <2>3
<1> HIDE DEF begin, c
<1>7. \A k \in 0 .. n - 1 : c[k + 1] = SubSeq(b, begin(k) + 1, begin(k + 1)) /\ c[k + 1] \in Bytes /\ c[k + 1] # <<>>
  <2> SUFFICES ASSUME NEW k \in 0 .. n - 1
               PROVE  c[k + 1] = SubSeq(b, begin(k) + 1, begin(k + 1)) /\ c[k + 1] \in Bytes /\ c[k + 1] # <<>>
    OBVIOUS
  <2>1. k + 1 \in 1 .. n /\ (k + 1) - 1 = k /\ k \in 0 .. n /\ k + 1 \in 0 .. n
    BY <1>2
  <2>2. c[k + 1] = SubSeq(b, begin(k) + 1, begin(k + 1))
    <3>1. c[k + 1] = SubSeq(b, begin((k + 1) - 1) + 1, begin(k + 1))
      BY <1>6, <2>1
    <3> QED
      BY <2>1, <3>1
  <2>3. begin(k) \in 0 .. Len(b) /\ begin(k + 1) \in 0 .. Len(b) /\ begin(k) < begin(k + 1)
    BY <1>3, <1>5, <2>1
  <2>4. SubSeq(b, begin(k) + 1, begin(k + 1)) \in Bytes /\ Len(SubSeq(b, begin(k) + 1, begin(k + 1))) # 0
    BY <1>2, <2>3 DEF Bytes
  <2> QED
    BY <2>2, <2>4, BytesJoin
<1>8. DOMAIN c = 1 .. n /\ \A i \in 1 .. n : c[i] \in Bytes /\ c[i] # <<>>
  <2>1. \A i \in 1 .. n : i - 1 \in 0 .. n - 1 /\ (i - 1) + 1 = i
    BY <1>2
  <2>2. \A i \in 1 .. n : c[(i - 1) + 1] \in Bytes /\ c[(i - 1) + 1] # <<>>
    BY <1>7, <2>1
  <2> QED
    BY <1>6, <2>1, <2>2
<1>9. c \in Seq(Bytes) /\ Len(c) = n
  <2>1. c = [i \in 1 .. n |-> c[i]]
    BY <1>6
  <2>2. c \in Seq(Bytes)
    BY <1>2, <1>8, <2>1, IsASeq
  <2> QED
    BY <1>2, <1>8, <2>2, LenProperties
<1> DEFINE f == [k \in 0 .. n |-> SubSeq(b, 1, begin(k))]
<1>10. Counts(f, c, Octet)
  <2>1. f \in [0 .. n -> Seq(Octet)]
    <3> SUFFICES ASSUME NEW k \in 0 .. n PROVE SubSeq(b, 1, begin(k)) \in Seq(Octet)
      OBVIOUS
    <3>1. begin(k) \in 0 .. Len(b)
      BY <1>3
    <3> QED
      BY <1>2, <3>1
  <2>2. f[0] = <<>>
    <3>1. SubSeq(b, 1, 0) = <<>>
      BY SubSeqEmpty
    <3> QED
      BY <1>2, <1>4, <3>1
  <2>3. ASSUME NEW k \in 0 .. n - 1 PROVE f[k + 1] = f[k] \o c[k + 1]
    <3>1. k \in 0 .. n /\ k + 1 \in 0 .. n
      BY <1>2
    <3>2. begin(k) \in 0 .. Len(b) /\ begin(k + 1) \in begin(k) .. Len(b)
      BY <1>3, <1>5, <3>1
    <3>3. SubSeq(b, 1, begin(k)) \o SubSeq(b, begin(k) + 1, begin(k + 1)) = SubSeq(b, 1, begin(k + 1))
      <4>1. 1 \in 1 .. Len(b) + 1 /\ begin(k) \in 1 - 1 .. Len(b)
        BY <1>2, <3>2
      <4> QED
        BY <1>2, <3>2, <4>1, ConcatAdjacentSubSeq
    <3>4. f[k] = SubSeq(b, 1, begin(k)) /\ f[k + 1] = SubSeq(b, 1, begin(k + 1))
      BY <3>1
    <3> QED
      BY <1>7, <3>3, <3>4
  <2> HIDE DEF f
  <2> QED
    BY <1>9, <2>1, <2>2, <2>3 DEF Counts
<1>11. FlattenSeq(c) = f[n]
  <2> HIDE DEF f
  <2>1. c \in Seq(Seq(Octet))
    BY <1>9 DEF Bytes
  <2> QED
    BY <1>9, <1>10, <2>1, FlattenIs
<1>12. f[n] = b
  <2>1. f[n] = SubSeq(b, 1, Len(b))
    BY <1>2, <1>4
  <2> QED
    BY <1>2, <2>1, SubSeqFull
<1>13. c # <<>>
  BY <1>2, <1>9, EmptySeq
<1> QED
  BY <1>8, <1>9, <1>11, <1>12, <1>13 DEF c

---------------------------------------------------------------------------
(* The reader: what it has not read yet.                                   *)

RestAt(t, pos) ==
  (IF t = 0 THEN <<>> ELSE SubSeq(incoming[t], pos + 1, Len(incoming[t])))
    \o FlattenSeq(SubSeq(incoming, t + 1, Len(incoming)))

IsPlace(t, pos) ==
  t \in 0 .. Len(incoming) /\ pos \in Nat /\ IF t = 0 THEN pos = 0 ELSE pos <= Len(incoming[t])

IsReader(r) ==
  /\ r \in [taken : Nat, pos : Nat, scratch : Bytes, out : Bytes, inScratch : BOOLEAN, err : {FALSE}]
  /\ IsPlace(r.taken, r.pos)

Ahead(r) == RestAt(r.taken, r.pos)

\* Of this packet, and of those behind it.
Here(t, pos) == IF t = 0 THEN <<>> ELSE SubSeq(incoming[t], pos + 1, Len(incoming[t]))
Behind(t) == FlattenSeq(SubSeq(incoming, t + 1, Len(incoming)))

\* What is ahead of a place is behind it in its packet, and in those behind.
LEMMA PlaceIs ==
  ASSUME IsAnswer, NEW t, NEW pos, IsPlace(t, pos)
  PROVE  /\ Here(t, pos) \in Bytes /\ Behind(t) \in Bytes /\ RestAt(t, pos) = Here(t, pos) \o Behind(t)
         /\ RestAt(t, pos) \in Bytes
         /\ Len(Here(t, pos)) = (IF t = 0 THEN 0 ELSE Len(incoming[t]) - pos)
<1>1. Len(incoming) \in Nat /\ t \in 0 .. Len(incoming) /\ pos \in Nat /\ (t # 0 => incoming[t] \in Bytes /\ pos <= Len(incoming[t]))
  BY DEF IsAnswer, IsPlace
<1>2. Here(t, pos) \in Bytes /\ Len(Here(t, pos)) = (IF t = 0 THEN 0 ELSE Len(incoming[t]) - pos)
  <2>1. CASE t = 0
    BY <2>1, BytesJoin DEF Here
  <2>2. CASE t # 0
    <3>1. incoming[t] \in Bytes /\ pos \in 0 .. Len(incoming[t])
      <4>1. Len(incoming[t]) \in Nat
        BY <1>1, <2>2, BytesJoin
      <4> QED
        BY <1>1, <2>2, <4>1
    <3>2. /\ SubSeq(incoming[t], pos + 1, Len(incoming[t])) \in Bytes
          /\ Len(SubSeq(incoming[t], pos + 1, Len(incoming[t]))) = Len(incoming[t]) - pos
      BY <3>1, BytesCut
    <3> QED
      BY <2>2, <3>2 DEF Here
  <2> QED
    BY <2>1, <2>2
<1>3. Behind(t) \in Bytes
  <2>1. SubSeq(incoming, t + 1, Len(incoming)) \in Seq(Bytes)
    BY <1>1 DEF IsAnswer
  <2> QED
    BY <2>1, FlattenType DEF Behind, Bytes
<1>4. RestAt(t, pos) = Here(t, pos) \o Behind(t)
  BY DEF RestAt, Here, Behind
<1> QED
  BY <1>2, <1>3, <1>4, BytesJoin

\* Behind a packet is the next one,
LEMMA BehindIs ==
  ASSUME IsAnswer, NEW t \in 0 .. Len(incoming) - 1
  PROVE  Behind(t) = incoming[t + 1] \o Behind(t + 1) /\ incoming[t + 1] \in Bytes /\ incoming[t + 1] # <<>>
<1>1. incoming \in Seq(Seq(Octet)) /\ Len(incoming) \in Nat
  BY DEF IsAnswer, Bytes
<1>2. (t + 1) + 1 = t + 2 /\ t + 1 \in 1 .. Len(incoming)
  BY <1>1
<1>3. FlattenSeq(SubSeq(incoming, t + 1, Len(incoming))) = incoming[t + 1] \o FlattenSeq(SubSeq(incoming, t + 2, Len(incoming)))
  BY <1>1, FlattenFrom
<1>4. incoming[t + 1] \in Bytes /\ incoming[t + 1] # <<>>
  BY <1>1, <1>2, ElementOfSeq DEF IsAnswer
<1> QED
  BY <1>2, <1>3, <1>4 DEF Behind

\* and nothing behind the last.
LEMMA NoneBehind ==
  ASSUME IsAnswer
  PROVE  Behind(Len(incoming)) = <<>>
<1>1. Len(incoming) \in Nat
  BY DEF IsAnswer
<1>2. SubSeq(incoming, Len(incoming) + 1, Len(incoming)) = <<>>
  BY <1>1, SubSeqEmpty
<1> QED
  BY <1>2, FlattenEmpty DEF Behind

\* How the bytes of a read are gathered, packet by packet.
FirstPart(r, n) ==
  [taken |-> r.taken, pos |-> r.pos + Least(n, Left(r)),
   out |-> IF Least(n, Left(r)) = 0 THEN <<>> ELSE SubSeq(incoming[r.taken], r.pos + 1, r.pos + Least(n, Left(r)))]
With(g, t, n) ==
  IF Len(g.out) = n THEN g
  ELSE [taken |-> t, pos |-> Least(n - Len(g.out), Len(incoming[t])),
        out |-> g.out \o SubSeq(incoming[t], 1, Least(n - Len(g.out), Len(incoming[t])))]

\* The packet its first byte is in.
FirstPacket(r) == r.taken + (IF Left(r) = 0 THEN 1 ELSE 0)

Gathering(g, t, r, n) ==
  /\ IsPlace(g.taken, g.pos) /\ g.taken \in r.taken .. t
  /\ g.out \in Bytes /\ Len(g.out) <= n
  /\ g.out \o RestAt(g.taken, g.pos) = Ahead(r)
  /\ Len(g.out) < n => g.taken = t /\ Here(g.taken, g.pos) = <<>>
  /\ n <= 1 => g.taken <= FirstPacket(r) /\ (t >= FirstPacket(r) => Len(g.out) = n)

\* What a reader has left of its packet.
LEMMA LeftIs ==
  ASSUME IsAnswer, NEW r, IsReader(r)
  PROVE  /\ Left(r) \in Nat /\ Len(Here(r.taken, r.pos)) = Left(r)
         /\ r.taken \in Nat /\ r.pos \in Nat /\ r.taken <= Len(incoming) /\ Len(incoming) \in Nat
         /\ r.taken # 0 => incoming[r.taken] \in Bytes /\ r.pos + Left(r) = Len(incoming[r.taken]) /\ Len(incoming[r.taken]) \in Nat
<1>1. IsPlace(r.taken, r.pos)
  BY DEF IsReader
<1>2. Len(incoming) \in Nat /\ r.taken \in 0 .. Len(incoming) /\ r.pos \in Nat /\ (r.taken # 0 => incoming[r.taken] \in Bytes /\ r.pos <= Len(incoming[r.taken]))
  BY <1>1 DEF IsAnswer, IsPlace
<1>3. r.taken # 0 => Len(incoming[r.taken]) \in Nat
  BY <1>2, BytesJoin
<1>4. Len(Here(r.taken, r.pos)) = (IF r.taken = 0 THEN 0 ELSE Len(incoming[r.taken]) - r.pos)
  BY <1>1, PlaceIs
<1> QED
  BY <1>2, <1>3, <1>4 DEF Left

\* The first bytes of what is here.
LEMMA HereCut ==
  ASSUME IsAnswer, NEW t \in 1 .. Len(incoming), NEW pos \in Nat, NEW k \in Nat, pos + k <= Len(incoming[t])
  PROVE  /\ SubSeq(incoming[t], pos + 1, pos + k) \in Bytes /\ Len(SubSeq(incoming[t], pos + 1, pos + k)) = k
         /\ IsPlace(t, pos) /\ IsPlace(t, pos + k)
         /\ Here(t, pos) = SubSeq(incoming[t], pos + 1, pos + k) \o Here(t, pos + k)
<1>1. incoming[t] \in Seq(Octet) /\ Len(incoming[t]) \in Nat /\ t # 0 /\ t \in Nat /\ Len(incoming) \in Nat
  BY ElementOfSeq DEF IsAnswer, Bytes
<1>2. SubSeq(incoming[t], pos + 1, pos + k) \in Bytes /\ Len(SubSeq(incoming[t], pos + 1, pos + k)) = k
  BY <1>1 DEF Bytes
<1>3. IsPlace(t, pos) /\ IsPlace(t, pos + k)
  BY <1>1 DEF IsPlace
<1>4. SubSeq(incoming[t], pos + 1, pos + k) \o SubSeq(incoming[t], (pos + k) + 1, Len(incoming[t])) = SubSeq(incoming[t], pos + 1, Len(incoming[t]))
  <2>1. pos + 1 \in 1 .. Len(incoming[t]) + 1 /\ pos + k \in (pos + 1) - 1 .. Len(incoming[t]) /\ Len(incoming[t]) \in pos + k .. Len(incoming[t])
    BY <1>1
  <2> QED
    BY <1>1, <2>1, ConcatAdjacentSubSeq
<1> QED
  BY <1>1, <1>2, <1>3, <1>4 DEF Here

\* The first part of a read.
LEMMA BegunIs ==
  ASSUME IsAnswer, NEW r, IsReader(r), NEW n \in Nat
  PROVE  Gathering(FirstPart(r, n), r.taken, r, n)
<1> DEFINE k == Least(n, Left(r))
           g == FirstPart(r, n)
<1>1. /\ Left(r) \in Nat /\ Len(Here(r.taken, r.pos)) = Left(r) /\ r.taken \in Nat /\ r.pos \in Nat /\ r.taken <= Len(incoming)
      /\ Len(incoming) \in Nat
      /\ r.taken # 0 => incoming[r.taken] \in Bytes /\ r.pos + Left(r) = Len(incoming[r.taken]) /\ Len(incoming[r.taken]) \in Nat
  BY LeftIs
<1>2. k \in 0 .. n /\ k <= Left(r) /\ (k < n => k = Left(r))
  BY <1>1 DEF Least
<1>3. g.taken = r.taken /\ g.pos = r.pos + k /\ g.out = IF k = 0 THEN <<>> ELSE SubSeq(incoming[r.taken], r.pos + 1, r.pos + k)
  BY DEF FirstPart
<1>4. IsPlace(r.taken, r.pos)
  BY DEF IsReader
<1>5. /\ g.out \in Bytes /\ Len(g.out) = k /\ IsPlace(r.taken, r.pos + k)
      /\ Here(r.taken, r.pos) = g.out \o Here(r.taken, r.pos + k)
  <2>1. CASE k = 0
    <3>1. r.pos + k = r.pos
      BY <1>1, <2>1
    <3>2. Here(r.taken, r.pos) \in Bytes
      BY <1>4, PlaceIs
    <3>3. g.out = <<>>
      BY <1>3, <2>1
    <3> QED
      BY <1>4, <2>1, <3>1, <3>2, <3>3, BytesJoin
  <2>2. CASE k # 0
    <3>1. r.taken # 0
      BY <1>2, <2>2 DEF Left
    <3>2. r.taken \in 1 .. Len(incoming) /\ k \in Nat /\ r.pos + k <= Len(incoming[r.taken])
      BY <1>1, <1>2, <3>1
    <3>3. g.out = SubSeq(incoming[r.taken], r.pos + 1, r.pos + k)
      BY <1>3, <2>2
    <3>4. g.out \in Bytes /\ Len(g.out) = k /\ IsPlace(r.taken, r.pos + k)
          /\ Here(r.taken, r.pos) = g.out \o Here(r.taken, r.pos + k)
      <4> DEFINE t == r.taken
                 pos == r.pos
      <4>1. t \in 1 .. Len(incoming) /\ pos \in Nat /\ k \in Nat /\ pos + k <= Len(incoming[t])
        BY <1>1, <3>2
      <4>2. g.out = SubSeq(incoming[t], pos + 1, pos + k)
        BY <3>3
      <4> HIDE DEF k, g, t, pos
      <4>3. /\ SubSeq(incoming[t], pos + 1, pos + k) \in Bytes /\ Len(SubSeq(incoming[t], pos + 1, pos + k)) = k
            /\ IsPlace(t, pos + k) /\ Here(t, pos) = SubSeq(incoming[t], pos + 1, pos + k) \o Here(t, pos + k)
        BY <4>1, HereCut
      <4>4. g.out \in Bytes /\ Len(g.out) = k /\ IsPlace(t, pos + k) /\ Here(t, pos) = g.out \o Here(t, pos + k)
        BY <4>2, <4>3
      <4> QED
        BY <4>4 DEF t, pos
    <3> QED
      BY <3>4
  <2> QED
    BY <2>1, <2>2
<1>6. g.out \o RestAt(r.taken, r.pos + k) = Ahead(r)
  <2>1. Here(r.taken, r.pos + k) \in Bytes /\ Behind(r.taken) \in Bytes
        /\ RestAt(r.taken, r.pos + k) = Here(r.taken, r.pos + k) \o Behind(r.taken)
    BY <1>5, PlaceIs
  <2>2. Ahead(r) = Here(r.taken, r.pos) \o Behind(r.taken)
    BY <1>4, PlaceIs DEF Ahead
  <2>3. \A x, y, z \in Bytes : (x \o y) \o z = x \o (y \o z)
    BY BytesJoin
  <2> HIDE DEF k, g
  <2>4. (g.out \o Here(r.taken, r.pos + k)) \o Behind(r.taken) = g.out \o (Here(r.taken, r.pos + k) \o Behind(r.taken))
    BY <1>5, <2>1, <2>3, Zenon
  <2> QED
    BY <1>5, <2>1, <2>2, <2>4
<1>7. k < n => Here(r.taken, r.pos + k) = <<>>
  <2> SUFFICES ASSUME k < n PROVE Here(r.taken, r.pos + k) = <<>>
    OBVIOUS
  <2>1. k = Left(r)
    BY <1>2
  <2>2. Here(r.taken, r.pos + k) \in Bytes /\ Len(Here(r.taken, r.pos + k)) = (IF r.taken = 0 THEN 0 ELSE Len(incoming[r.taken]) - (r.pos + k))
    BY <1>5, PlaceIs
  <2>3. Len(Here(r.taken, r.pos + k)) = 0
    BY <1>1, <2>1, <2>2
  <2> QED
    BY <2>2, <2>3, BytesJoin
<1>8. n <= 1 => r.taken <= FirstPacket(r) /\ (r.taken >= FirstPacket(r) => k = n)
  <2> SUFFICES ASSUME n <= 1 PROVE r.taken <= FirstPacket(r) /\ (r.taken >= FirstPacket(r) => k = n)
    OBVIOUS
  <2>1. CASE Left(r) = 0
    BY <1>1, <2>1 DEF FirstPacket
  <2>2. CASE Left(r) # 0
    <3>1. k = n
      BY <1>1, <1>2, <2>2
    <3> QED
      BY <1>1, <2>2, <3>1 DEF FirstPacket
  <2> QED
    BY <2>1, <2>2
<1>9. r.taken \in r.taken .. r.taken
  BY <1>1
<1> HIDE DEF k, g
<1>10. Gathering(g, r.taken, r, n)
  <2>1. IsPlace(g.taken, g.pos) /\ g.taken \in r.taken .. r.taken
    BY <1>3, <1>5, <1>9
  <2>2. g.out \in Bytes /\ Len(g.out) <= n
    BY <1>2, <1>5
  <2>3. g.out \o RestAt(g.taken, g.pos) = Ahead(r)
    BY <1>3, <1>6
  <2>4. Len(g.out) < n => g.taken = r.taken /\ Here(g.taken, g.pos) = <<>>
    BY <1>3, <1>5, <1>7
  <2>5. n <= 1 => g.taken <= FirstPacket(r) /\ (r.taken >= FirstPacket(r) => Len(g.out) = n)
    BY <1>3, <1>5, <1>8
  <2> QED
    BY <2>1, <2>2, <2>3, <2>4, <2>5 DEF Gathering
<1> QED
  BY <1>10 DEF g

\* One packet more.
LEMMA WithIs ==
  ASSUME IsAnswer, NEW r, IsReader(r), NEW n \in Nat, NEW t \in r.taken .. Len(incoming) - 1,
         NEW g, Gathering(g, t, r, n)
  PROVE  Gathering(With(g, t + 1, n), t + 1, r, n)
<1> DEFINE u == t + 1
           k == Least(n - Len(g.out), Len(incoming[u]))
           h == With(g, u, n)
<1>1. /\ IsPlace(g.taken, g.pos) /\ g.taken \in r.taken .. t
      /\ g.out \in Bytes /\ Len(g.out) <= n
      /\ g.out \o RestAt(g.taken, g.pos) = Ahead(r)
      /\ Len(g.out) < n => g.taken = t /\ Here(g.taken, g.pos) = <<>>
      /\ n <= 1 => g.taken <= FirstPacket(r) /\ (t >= FirstPacket(r) => Len(g.out) = n)
  BY DEF Gathering
<1>2. /\ r.taken \in Nat /\ Len(incoming) \in Nat /\ t \in Nat /\ u \in 1 .. Len(incoming) /\ Len(g.out) \in Nat
      /\ Left(r) \in Nat /\ FirstPacket(r) \in Nat /\ t \in 0 .. Len(incoming) - 1
  <2>1. r.taken \in Nat /\ Len(incoming) \in Nat /\ Left(r) \in Nat
    BY LeftIs
  <2>2. Len(g.out) \in Nat
    BY <1>1, BytesJoin
  <2> QED
    BY <2>1, <2>2 DEF FirstPacket
<1>3. CASE Len(g.out) = n
  <2>1. h = g
    BY <1>3 DEF With
  <2>2. g.taken \in r.taken .. u
    BY <1>1, <1>2
  <2> HIDE DEF u, h
  <2>3. Gathering(g, u, r, n)
    BY <1>1, <1>3, <2>2 DEF Gathering
  <2> QED
    BY <2>1, <2>3 DEF u, h
<1>4. CASE Len(g.out) # n
  <2>1. h.taken = u /\ h.pos = k /\ h.out = g.out \o SubSeq(incoming[u], 1, k)
    BY <1>4 DEF With
  <2>2. incoming[u] \in Bytes /\ incoming[u] # <<>> /\ Behind(t) = incoming[u] \o Behind(u)
    BY <1>2, BehindIs
  <2>3. Len(incoming[u]) \in Nat \ {0}
    BY <2>2, BytesJoin
  <2>4. k \in 1 .. Len(incoming[u]) /\ Len(g.out) + k <= n /\ (Len(g.out) + k < n => k = Len(incoming[u]))
    <3> DEFINE a == n - Len(g.out)
               b == Len(incoming[u])
    <3>1. a \in Nat /\ a # 0 /\ b \in Nat /\ b # 0 /\ k = Least(a, b) /\ n = Len(g.out) + a
      BY <1>1, <1>2, <1>4, <2>3
    <3> HIDE DEF a, b, k
    <3>2. k \in 1 .. b /\ k <= a /\ (k < a => k = b) /\ k \in Nat
      BY <3>1 DEF Least
    <3>3. Len(g.out) \in Nat
      BY <1>2
    <3>4. Len(g.out) + k <= n /\ (Len(g.out) + k < n => k = b)
      BY <3>1, <3>2, <3>3
    <3> QED
      BY <3>2, <3>4 DEF b
  <2>5. SubSeq(incoming[u], 1, k) \in Bytes /\ Len(SubSeq(incoming[u], 1, k)) = k
        /\ IsPlace(u, k) /\ incoming[u] = SubSeq(incoming[u], 1, k) \o Here(u, k)
    <3>1. k \in 0 .. Len(incoming[u])
      BY <2>3, <2>4
    <3>2. SubSeq(incoming[u], 1, k) \in Bytes /\ Len(SubSeq(incoming[u], 1, k)) = k
          /\ SubSeq(incoming[u], 1, k) \o SubSeq(incoming[u], k + 1, Len(incoming[u])) = incoming[u]
      <4> HIDE DEF k, u
      <4> QED
        BY <2>2, <3>1, BytesCut
    <3>3. IsPlace(u, k)
      BY <1>2, <2>3, <2>4 DEF IsPlace
    <3>4. Here(u, k) = SubSeq(incoming[u], k + 1, Len(incoming[u]))
      <4>1. u # 0
        BY <1>2
      <4> HIDE DEF u, k
      <4> QED
        BY <4>1 DEF Here
    <3> QED
      BY <3>2, <3>3, <3>4
  <2>6. h.out \in Bytes /\ Len(h.out) = Len(g.out) + k
    <3> DEFINE s == SubSeq(incoming[u], 1, k)
    <3>1. h.out = g.out \o s /\ s \in Bytes /\ Len(s) = k /\ g.out \in Bytes
      BY <1>1, <2>1, <2>5
    <3> HIDE DEF u, k, h, s
    <3>2. g.out \o s \in Bytes /\ Len(g.out \o s) = Len(g.out) + Len(s)
      BY <3>1, BytesConcat, Zenon
    <3> QED
      BY <3>1, <3>2
  <2>7. Here(u, k) \in Bytes /\ Behind(u) \in Bytes /\ RestAt(u, k) = Here(u, k) \o Behind(u)
        /\ Len(Here(u, k)) = Len(incoming[u]) - k
    <3>1. u # 0
      BY <1>2
    <3> HIDE DEF u, k
    <3> QED
      BY <2>5, <3>1, PlaceIs
  <2>8. g.taken = t /\ Here(g.taken, g.pos) = <<>>
    BY <1>1, <1>2, <1>4
  <2>9. RestAt(g.taken, g.pos) = Behind(t)
    <3>1. Behind(t) \in Bytes /\ RestAt(g.taken, g.pos) = Here(g.taken, g.pos) \o Behind(t)
      BY <1>1, <2>8, PlaceIs
    <3> QED
      BY <2>8, <3>1, BytesJoin
  <2>10. h.out \o RestAt(u, k) = Ahead(r)
    <3> DEFINE s == SubSeq(incoming[u], 1, k)
    <3>1. \A x, y, z \in Bytes : (x \o y) \o z = x \o (y \o z)
      BY BytesJoin
    <3>2. s \in Bytes /\ incoming[u] = s \o Here(u, k)
      BY <2>5
    <3>0. s \o (Here(u, k) \o Behind(u)) \in Bytes /\ Here(u, k) \o Behind(u) \in Bytes
      BY <3>2, <2>7, BytesJoin
    <3> HIDE DEF s, u, k, h
    <3>3. Behind(t) = s \o (Here(u, k) \o Behind(u))
      <4>1. (s \o Here(u, k)) \o Behind(u) = s \o (Here(u, k) \o Behind(u))
        BY <2>7, <3>1, <3>2, Zenon
      <4> QED
        BY <2>2, <3>2, <4>1
    <3>4. (g.out \o s) \o (Here(u, k) \o Behind(u)) = g.out \o (s \o (Here(u, k) \o Behind(u)))
      BY <1>1, <3>0, <3>1, <3>2, Zenon
    <3>5. h.out = g.out \o s
      BY <2>1 DEF s
    <3>6. h.out \o RestAt(u, k) = g.out \o Behind(t)
      BY <2>7, <3>3, <3>4, <3>5
    <3> QED
      BY <1>1, <2>9, <3>6
  <2>11. Len(h.out) < n => Here(u, k) = <<>>
    <3>1. Len(h.out) < n => Len(Here(u, k)) = 0
      BY <2>3, <2>4, <2>6, <2>7
    <3> QED
      BY <2>7, <3>1, BytesJoin
  <2>12. n <= 1 => u <= FirstPacket(r) /\ Len(h.out) = n
    BY <1>1, <1>2, <1>4, <2>4, <2>6
  <2>13. Len(h.out) <= n /\ u \in r.taken .. u
    BY <1>2, <2>4, <2>6
  <2> HIDE DEF u, k, h
  <2>14. Gathering(h, u, r, n)
    BY <2>1, <2>5, <2>6, <2>10, <2>11, <2>12, <2>13 DEF Gathering
  <2> QED
    BY <2>14 DEF h, u
<1> QED
  BY <1>3, <1>4

\* A read of n bytes gets the next ones, and of one byte from where it is.
LEMMA GatheredIs ==
  ASSUME IsAnswer, NEW r, IsReader(r), NEW n \in Nat
  PROVE  Gathering(Gathered(r, n), Len(incoming), r, n)
<1> DEFINE a == r.taken
           N == Len(incoming)
           m == N - a
           D == {g \in [taken : Nat, pos : Nat, out : Bytes] : Len(g.out) <= n}
           next == [i \in 1 .. m |-> [g \in D |-> With(g, a + i, n)]]
<1>1. a \in Nat /\ N \in Nat /\ a <= N /\ m \in Nat
  BY LeftIs
<1>2. Gathering(FirstPart(r, n), a, r, n)
  BY BegunIs
<1> DEFINE Is(f) == f = [t \in a .. N |-> IF t = a THEN FirstPart(r, n) ELSE With(f[t - 1], t, n)]
           G == CHOOSE f : Is(f)
<1>3. Gathered(r, n) = G[N]
  BY DEF Gathered, FirstPart, With
<1>4. \E f : Is(f)
  <2>1. FirstPart(r, n) \in D
    <3>1. FirstPart(r, n).taken \in Nat /\ FirstPart(r, n).pos \in Nat /\ FirstPart(r, n).out \in Bytes /\ Len(FirstPart(r, n).out) <= n
      BY <1>1, <1>2 DEF Gathering, IsPlace
    <3> QED
      BY <3>1 DEF FirstPart
  <2>2. next \in [1 .. m -> [D -> D]]
    <3> SUFFICES ASSUME NEW i \in 1 .. m, NEW g \in D PROVE With(g, a + i, n) \in D
      OBVIOUS
    <3>1. a + i \in 1 .. N /\ a + i \in Nat
      BY <1>1
    <3> DEFINE u == a + i
               k == Least(n - Len(g.out), Len(incoming[u]))
    <3>2. incoming[u] \in Bytes
      BY <3>1 DEF IsAnswer
    <3>3. g.out \in Bytes /\ Len(g.out) \in Nat /\ Len(g.out) <= n /\ Len(incoming[u]) \in Nat
      BY <3>2, BytesJoin
    <3>4. k \in 0 .. Len(incoming[u]) /\ Len(g.out) + k <= n
      <4> DEFINE b == Len(incoming[u])
                 c == Len(g.out)
      <4>1. b \in Nat /\ c \in Nat /\ c <= n /\ k = Least(n - c, b)
        BY <3>3
      <4> HIDE DEF b, c, k
      <4>2. k \in 0 .. b /\ c + k <= n
        BY <4>1 DEF Least
      <4> QED
        BY <4>2 DEF b, c
    <3> HIDE DEF k, u
    <3>5. SubSeq(incoming[u], 1, k) \in Bytes /\ Len(SubSeq(incoming[u], 1, k)) = k
      BY <3>2, <3>4, BytesCut
    <3>6. g.out \o SubSeq(incoming[u], 1, k) \in Bytes /\ Len(g.out \o SubSeq(incoming[u], 1, k)) = Len(g.out) + k
      BY <3>3, <3>5, BytesConcat, Zenon
    <3>7. [taken |-> u, pos |-> k, out |-> g.out \o SubSeq(incoming[u], 1, k)] \in D
      <4>1. u \in Nat /\ k \in Nat
        BY <3>1, <3>3, <3>4 DEF u
      <4> QED
        BY <3>4, <3>6, <4>1
    <3>8. With(g, u, n) \in D
      BY <3>7 DEF With, k
    <3> QED
      BY <3>8 DEF u
  <2>3. \A i \in 1 .. m : \A g \in D : next[i][g] = With(g, a + i, n)
    OBVIOUS
  <2> HIDE DEF next, m, D
  <2>4. PICK f : Steps(f, m, next, FirstPart(r, n), D)
    BY <1>1, <2>1, <2>2, Recursion
  <2>5. f \in [0 .. m -> D] /\ f[0] = FirstPart(r, n)
    BY <2>4 DEF Steps
  <2>6. \A i \in 0 .. m - 1 : f[i + 1] = With(f[i], a + (i + 1), n)
    <3> SUFFICES ASSUME NEW i \in 0 .. m - 1 PROVE f[i + 1] = With(f[i], a + (i + 1), n)
      OBVIOUS
    <3>1. i + 1 \in 1 .. m /\ i \in 0 .. m
      BY <1>1
    <3>2. f[i] \in D
      BY <2>5, <3>1
    <3>3. f[i + 1] = next[i + 1][f[i]]
      BY <2>4 DEF Steps
    <3> QED
      BY <2>3, <3>1, <3>2, <3>3, Zenon
  <2> DEFINE h == [t \in a .. N |-> f[t - a]]
  <2>7. \A t \in a .. N : h[t] = IF t = a THEN FirstPart(r, n) ELSE With(h[t - 1], t, n)
    <3> SUFFICES ASSUME NEW t \in a .. N PROVE h[t] = IF t = a THEN FirstPart(r, n) ELSE With(h[t - 1], t, n)
      OBVIOUS
    <3>1. CASE t = a
      <4>1. t - a = 0
        BY <1>1, <3>1
      <4> QED
        BY <2>5, <3>1, <4>1
    <3>2. CASE t # a
      <4> DEFINE i == (t - 1) - a
      <4>1. i \in 0 .. m - 1 /\ i + 1 = t - a /\ a + (i + 1) = t /\ t - 1 \in a .. N
        BY <1>1, <3>2 DEF m
      <4>2. h[t] = f[i + 1] /\ h[t - 1] = f[i]
        BY <4>1
      <4> HIDE DEF i, h
      <4>3. f[i + 1] = With(f[i], t, n)
        BY <2>6, <4>1
      <4> QED
        BY <3>2, <4>2, <4>3
    <3> QED
      BY <3>1, <3>2
  <2>8. h = [t \in a .. N |-> h[t]]
    OBVIOUS
  <2> HIDE DEF h
  <2>9. Is(h)
    BY <2>7, <2>8
  <2> QED
    BY <2>9
<1>5. Is(G)
  <2> HIDE DEF Is
  <2> QED
    BY <1>4
<1> HIDE DEF G
<1>6. \A t \in a .. N : G[t] = IF t = a THEN FirstPart(r, n) ELSE With(G[t - 1], t, n)
  BY <1>5
<1> DEFINE T == {i \in Nat : a + i <= N => Gathering(G[a + i], a + i, r, n)}
<1>7. 0 \in T
  <2>1. a + 0 = a /\ a \in a .. N
    BY <1>1
  <2>2. G[a] = FirstPart(r, n)
    BY <1>6, <2>1
  <2> QED
    BY <1>2, <2>1, <2>2
<1>8. ASSUME NEW i \in Nat, i \in T PROVE i + 1 \in T
  <2> SUFFICES ASSUME a + (i + 1) <= N PROVE Gathering(G[a + (i + 1)], a + (i + 1), r, n)
    OBVIOUS
  <2> DEFINE t == a + i
  <2>1. a + (i + 1) = t + 1 /\ t + 1 \in a .. N /\ t + 1 # a /\ (t + 1) - 1 = t /\ t \in a .. N - 1 /\ t <= N
    BY <1>1
  <2>2. Gathering(G[t], t, r, n)
    BY <1>8, <2>1
  <2>3. G[t + 1] = With(G[t], t + 1, n)
    BY <1>6, <2>1
  <2> HIDE DEF t
  <2>4. Gathering(With(G[t], t + 1, n), t + 1, r, n)
    BY <2>1, <2>2, WithIs
  <2> QED
    BY <2>1, <2>3, <2>4
<1> HIDE DEF T
<1>9. Nat \subseteq T
  BY <1>7, <1>8, AllNumbers
<1>10. m \in T /\ a + m = N
  BY <1>1, <1>9
<1>11. Gathering(G[N], N, r, n)
  BY <1>1, <1>10 DEF T
<1> QED
  BY <1>3, <1>11

\* The beginning of a joint.
LEMMA FirstOf ==
  ASSUME NEW x \in Bytes, NEW y \in Bytes
  PROVE  SubSeq(x \o y, 1, Len(x)) = x
<1> DEFINE w == x \o y
           n == Len(x)
<1>1. w \in Bytes /\ Len(w) = Len(x) + Len(y) /\ Len(x) \in Nat /\ Len(y) \in Nat
  BY BytesConcat, BytesJoin
<1>2. n \in 0 .. Len(w)
  BY <1>1
<1>3. w = x \o y
  OBVIOUS
<1> HIDE DEF w, n
<1>4. SubSeq(w, 1, n) \in Bytes /\ Len(SubSeq(w, 1, n)) = n /\ SubSeq(w, n + 1, Len(w)) \in Bytes
      /\ SubSeq(w, 1, n) \o SubSeq(w, n + 1, Len(w)) = w
  BY <1>1, <1>2, BytesCut
<1>5. SubSeq(w, 1, n) = x
  <2>1. Len(SubSeq(w, 1, n)) = Len(x)
    BY <1>4 DEF n
  <2>2. SubSeq(w, 1, n) \o SubSeq(w, n + 1, Len(w)) = x \o y
    BY <1>3, <1>4
  <2>3. SameJoined(SubSeq(w, 1, n), SubSeq(w, n + 1, Len(w)), x, y)
    BY <1>4, <2>1, <2>2 DEF SameJoined
  <2> QED
    BY <2>3, SameBeginning
<1> QED
  BY <1>5 DEF w, n

\* The next n bytes are p, and q is what is behind them.
Reads(r, n, p, q) ==
  IsReader(r) /\ n \in Nat /\ p \in Bytes /\ q \in Bytes /\ Ahead(r) = p \o q /\ Len(p) = n

\* A read of what there is, as often as packets end in it.
LEMMA GetRawIs ==
  ASSUME IsAnswer, NEW r, NEW n, NEW p, NEW q, Reads(r, n, p, q)
  PROVE  /\ IsReader(getRaw(r, n)) /\ getRaw(r, n).out = p /\ Ahead(getRaw(r, n)) = q
         /\ n <= 1 => getRaw(r, n).scratch = r.scratch /\ getRaw(r, n).inScratch = FALSE
         /\ getRaw(r, n).inScratch => SubSeq(getRaw(r, n).scratch, 1, n) = p
<1> DEFINE g == Gathered(r, n)
           s == getRaw(r, n)
           split == g.taken > r.taken + (IF Left(r) = 0 THEN 1 ELSE 0)
           N == Len(incoming)
<1>0. IsReader(r) /\ n \in Nat /\ p \in Bytes /\ q \in Bytes /\ Ahead(r) = p \o q /\ Len(p) = n
  BY DEF Reads
<1>1. Gathering(g, N, r, n)
  BY <1>0, GatheredIs
<1>2. s = Taken(r, n, g)
  BY DEF getRaw
<1>3. r.scratch \in Bytes /\ r.err = FALSE
  BY <1>0 DEF IsReader
<1>4. Len(incoming) \in Nat /\ r.taken \in Nat /\ Left(r) \in Nat
  BY <1>0, LeftIs
<1> HIDE DEF g
<1>5. /\ IsPlace(g.taken, g.pos) /\ g.out \in Bytes /\ Len(g.out) <= n /\ g.out \o RestAt(g.taken, g.pos) = p \o q
      /\ Len(g.out) < n => g.taken = N /\ Here(g.taken, g.pos) = <<>>
      /\ n <= 1 => g.taken <= FirstPacket(r)
  BY <1>0, <1>1 DEF Gathering
<1>6. RestAt(g.taken, g.pos) \in Bytes /\ RestAt(g.taken, g.pos) = Here(g.taken, g.pos) \o Behind(g.taken)
  BY <1>5, PlaceIs
<1>7. Len(g.out) \in Nat
  BY <1>5, BytesJoin
<1>8. Len(g.out) = n
  <2> SUFFICES ASSUME Len(g.out) < n PROVE FALSE
    BY <1>0, <1>5, <1>7
  <2>1. g.taken = N /\ Here(g.taken, g.pos) = <<>>
    BY <1>5
  <2>2. Behind(g.taken) = <<>>
    BY <2>1, NoneBehind
  <2>3. RestAt(g.taken, g.pos) = <<>>
    BY <1>6, <2>1, <2>2, BytesJoin
  <2>4. g.out = p \o q
    <3>1. g.out \o <<>> = g.out
      BY <1>5, BytesJoin
    <3> QED
      BY <1>5, <2>3, <3>1
  <2>5. Len(g.out) = Len(p) + Len(q) /\ Len(q) \in Nat
    BY <1>0, <2>4, BytesConcat, BytesJoin
  <2> QED
    BY <1>0, <1>7, <2>5
<1>9. g.out = p /\ RestAt(g.taken, g.pos) = q
  <2>1. g.out \o RestAt(g.taken, g.pos) = p \o q /\ g.out \in Bytes /\ RestAt(g.taken, g.pos) \in Bytes /\ Len(g.out) = Len(p)
    BY <1>0, <1>5, <1>6, <1>8
  <2>2. SameJoined(g.out, RestAt(g.taken, g.pos), p, q)
    BY <2>1, <1>0 DEF SameJoined
  <2> QED
    BY <2>2, SameBeginning
<1>10. (r.err \/ Len(g.out) < n) = FALSE
  BY <1>0, <1>3, <1>8
<1>11. /\ s.taken = g.taken /\ s.pos = g.pos /\ s.err = FALSE /\ s.inScratch = split /\ s.out = g.out
       /\ s.scratch = IF split THEN g.out \o SubSeq(r.scratch, n + 1, Len(r.scratch)) ELSE r.scratch
  <2> DEFINE short == r.err \/ Len(g.out) < n
  <2>1. short = FALSE
    BY <1>10
  <2>2. s = [taken |-> g.taken, pos |-> g.pos, err |-> short, inScratch |-> split,
             out |-> IF short THEN [i \in 1 .. n |-> 0] ELSE g.out,
             scratch |-> IF split THEN g.out \o SubSeq(r.scratch, n + 1, Len(r.scratch)) ELSE r.scratch]
    BY <1>2 DEF Taken
  <2> HIDE DEF short, split, s
  <2> QED
    BY <2>1, <2>2
<1>19. s = [taken |-> s.taken, pos |-> s.pos, err |-> FALSE, inScratch |-> s.inScratch, out |-> s.out, scratch |-> s.scratch]
  <2> DEFINE short == r.err \/ Len(g.out) < n
  <2>1. short = FALSE
    BY <1>10
  <2>2. s = [taken |-> g.taken, pos |-> g.pos, err |-> short, inScratch |-> split,
             out |-> IF short THEN [i \in 1 .. n |-> 0] ELSE g.out,
             scratch |-> IF split THEN g.out \o SubSeq(r.scratch, n + 1, Len(r.scratch)) ELSE r.scratch]
    BY <1>2 DEF Taken
  <2> HIDE DEF short, split, s
  <2> QED
    BY <2>1, <2>2
<1>12. split \in BOOLEAN
  OBVIOUS
<1>13. n <= 1 => split = FALSE
  <2>1. g.taken \in Nat
    BY <1>4, <1>5 DEF IsPlace
  <2> QED
    BY <1>0, <1>4, <1>5, <2>1 DEF FirstPacket
<1> HIDE DEF s, split
<1>14. SubSeq(r.scratch, n + 1, Len(r.scratch)) \in Bytes
  <2>1. Len(r.scratch) \in Nat /\ r.scratch \in Seq(Octet)
    BY <1>3 DEF Bytes
  <2>3. n \in Nat
    BY <1>0
  <2>2. \A i \in n + 1 .. Len(r.scratch) : r.scratch[i] \in Octet
    BY <2>1, <2>3
  <2> QED
    BY <1>0, <2>1, <2>2, SubSeqProperties DEF Bytes
<1> DEFINE rest == SubSeq(r.scratch, n + 1, Len(r.scratch))
<1> HIDE DEF rest
<1>15. s.scratch \in Bytes /\ (split => SubSeq(s.scratch, 1, n) = p)
  <2>1. CASE split
    <3>1. s.scratch = p \o rest /\ rest \in Bytes
      BY <1>9, <1>11, <1>14, <2>1 DEF rest
    <3>2. p \o rest \in Bytes
      BY <1>0, <3>1, BytesConcat
    <3>3. SubSeq(p \o rest, 1, Len(p)) = p
      BY <1>0, <3>1, FirstOf
    <3> QED
      BY <1>0, <3>1, <3>2, <3>3
  <2>2. CASE ~ split
    BY <1>3, <1>11, <2>2
  <2> QED
    BY <2>1, <2>2
<1>16. IsReader(s) /\ s.out = p /\ Ahead(s) = q
  <2>1. s.taken \in Nat /\ s.pos \in Nat
    BY <1>4, <1>5, <1>11 DEF IsPlace
  <2>2. s = [taken |-> s.taken, pos |-> s.pos, err |-> FALSE, inScratch |-> s.inScratch, out |-> s.out, scratch |-> s.scratch]
    BY <1>19
  <2>3. s \in [taken : Nat, pos : Nat, scratch : Bytes, out : Bytes, inScratch : BOOLEAN, err : {FALSE}]
    BY <1>0, <1>9, <1>11, <1>12, <1>15, <2>1, <2>2
  <2> QED
    BY <1>5, <1>9, <1>11, <2>3 DEF IsReader, Ahead
<1>17. n <= 1 => s.scratch = r.scratch /\ s.inScratch = FALSE
  BY <1>11, <1>13
<1>18. s.inScratch => SubSeq(s.scratch, 1, n) = p
  BY <1>11, <1>15
<1> QED
  BY <1>16, <1>17, <1>18 DEF s

\* What is skipped is not read, and the reader is behind it all the same.
LEMMA SkipIs ==
  ASSUME IsAnswer, NEW r, NEW n, NEW p, NEW q, Reads(r, n, p, q)
  PROVE  IsReader(SkipRawBytes(r, n)) /\ Ahead(SkipRawBytes(r, n)) = q
<1> DEFINE s == getRaw(r, n)
           t == SkipRawBytes(r, n)
<1>1. IsReader(s) /\ Ahead(s) = q
  BY GetRawIs
<1>2. s = Taken(r, n, Gathered(r, n))
  BY DEF getRaw
<1>3. /\ t.taken = s.taken /\ t.pos = s.pos /\ t.err = s.err /\ t.inScratch = s.inScratch /\ t.out = s.out
      /\ t.scratch = r.scratch
  BY <1>2 DEF SkipRawBytes, Taken
<1>0. r.scratch \in Bytes
  BY DEF Reads, IsReader
<1> HIDE DEF s, t
<1>4. IsReader(t)
  <2>1. s \in [taken : Nat, pos : Nat, scratch : Bytes, out : Bytes, inScratch : BOOLEAN, err : {FALSE}]
    BY <1>1 DEF IsReader
  <2>2. t \in [taken : Nat, pos : Nat, scratch : Bytes, out : Bytes, inScratch : BOOLEAN, err : {FALSE}]
    BY <1>0, <2>1 DEF t, s, SkipRawBytes
  <2> QED
    BY <1>1, <1>3, <2>2 DEF IsReader
<1>5. Ahead(t) = q
  BY <1>1, <1>3 DEF Ahead
<1> QED
  BY <1>4, <1>5 DEF t

---------------------------------------------------------------------------
(* Integers are read as they were written.                                 *)

ReadsByte(r, b, q) ==
  IsReader(r) /\ b \in Octet /\ q \in Bytes /\ Ahead(r) = <<b>> \o q

\* A read of one byte never splits, nor does it touch the scratch buffer.
LEMMA OneByte ==
  ASSUME IsAnswer, NEW r, NEW b, NEW q, ReadsByte(r, b, q)
  PROVE  /\ IsReader(getRaw(r, 1)) /\ getRaw(r, 1).out = <<b>> /\ getRaw(r, 1).out[1] = b /\ Ahead(getRaw(r, 1)) = q
         /\ getRaw(r, 1).scratch = r.scratch /\ getRaw(r, 1).inScratch = FALSE
<1> DEFINE p == <<b>>
<1>0. IsReader(r) /\ b \in Octet /\ q \in Bytes /\ Ahead(r) = p \o q
  BY DEF ReadsByte
<1>1. p \in Bytes /\ Len(p) = 1 /\ p[1] = b /\ 1 \in Nat
  BY <1>0, ByteIs
<1> HIDE DEF p
<1>2. Reads(r, 1, p, q)
  BY <1>0, <1>1 DEF Reads
<1>3. /\ IsReader(getRaw(r, 1)) /\ getRaw(r, 1).out = p /\ Ahead(getRaw(r, 1)) = q
      /\ 1 <= 1 => getRaw(r, 1).scratch = r.scratch /\ getRaw(r, 1).inScratch = FALSE
  BY <1>2, GetRawIs
<1>4. 1 <= 1
  OBVIOUS
<1> QED
  BY <1>1, <1>3, <1>4 DEF p

ReadsInteger(r, v, sign, q) ==
  IsReader(r) /\ v \in UB4 /\ sign \in {0, SignBit} /\ q \in Bytes /\ Ahead(r) = Joined(Universal(v, sign)) \o q

\* An integer is read as it was written, and one of at most one byte without the
\* scratch buffer.
LEMMA IntegerIs ==
  ASSUME IsAnswer, NEW r, NEW v, NEW sign, NEW q, ReadsInteger(r, v, sign, q), NEW signed \in BOOLEAN, sign # 0 => signed
  PROVE  /\ IsReader(ReadInteger(r, signed).reader) /\ Ahead(ReadInteger(r, signed).reader) = q
         /\ ReadInteger(r, signed).number = IF sign = 0 THEN v ELSE -v
         /\ ByteCount(v) <= 1 => ReadInteger(r, signed).reader.scratch = r.scratch
<1> DEFINE c == ByteCount(v)
           w == NumberBytes(v)
           g == getRaw(r, 1)
           neg == g.out[1] >= SignBit
           i == ReadInteger(r, signed)
<1>0. IsReader(r) /\ v \in UB4 /\ sign \in {0, SignBit} /\ q \in Bytes /\ Ahead(r) = Joined(Universal(v, sign)) \o q
  BY DEF ReadsInteger
<1>1. /\ c \in 0 .. 4 /\ (c = 0 <=> v = 0) /\ w \in Bytes /\ Len(w) = c /\ NumberOf(w) = v
  BY <1>0, NumberBytesAre
<1>2. c + sign \in Octet /\ Joined(Universal(v, sign)) = <<c + sign>> \o w
  BY <1>0, UniversalIs
<1>3. Ahead(r) = <<c + sign>> \o (w \o q) /\ w \o q \in Bytes
  <2> DEFINE l == <<c + sign>>
  <2>1. l \in Bytes
    BY <1>2, ByteIs
  <2>2. Ahead(r) = (l \o w) \o q
    BY <1>0, <1>2
  <2> HIDE DEF l, w
  <2>3. (l \o w) \o q = l \o (w \o q) /\ w \o q \in Bytes
    BY <1>0, <1>1, <2>1, BytesAssoc, BytesConcat
  <2> QED
    BY <2>2, <2>3 DEF l
<1>4. IsReader(g) /\ g.out[1] = c + sign /\ Ahead(g) = w \o q /\ g.scratch = r.scratch
  <2>1. ReadsByte(r, c + sign, w \o q)
    BY <1>0, <1>2, <1>3 DEF ReadsByte
  <2> HIDE DEF c, w
  <2> QED
    BY <2>1, OneByte
<1>5. SignBit \in Nat /\ 4 < SignBit
  BY SizesAre
<1>6. neg = (sign # 0)
  BY <1>0, <1>1, <1>4, <1>5
<1>7. g.out[1] % SignBit = c
  <2>1. \A a \in 0 .. SignBit - 1 : a % SignBit = a /\ (a + SignBit) % SignBit = a
    BY <1>5
  <2>2. c \in 0 .. SignBit - 1
    BY <1>1, <1>5
  <2>3. CASE sign = 0
    BY <1>1, <1>4, <2>1, <2>2, <2>3
  <2>4. CASE sign = SignBit
    BY <1>4, <2>1, <2>2, <2>4
  <2> QED
    BY <1>0, <2>3, <2>4
<1>8. i = AfterLength(g, neg, c, signed)
  BY <1>7 DEF ReadInteger, intLengthAndSign
<1> HIDE DEF g, neg, w, i, c
<1>9. ~ (c > 4 \/ (neg /\ ~ signed))
  BY <1>1, <1>6
<1>10. CASE c = 0
  <2>1. i = [reader |-> g, number |-> 0]
    BY <1>8, <1>9, <1>10 DEF AfterLength
  <2>2. w \o q = q
    <3>1. w = <<>>
      BY <1>1, <1>10, BytesJoin
    <3> QED
      BY <1>0, <3>1, BytesJoin
  <2>3. v = 0 /\ -v = 0
    <3>1. v = 0
      BY <1>1, <1>10
    <3>2. \A x \in Int : x = 0 => -x = 0
      <4>1. \A x \in Int : x * (-1) = -x
        OBVIOUS
      <4>2. \A x \in Int : x = 0 => x * (-1) = 0
        OBVIOUS
      <4> QED
        BY <4>1, <4>2
    <3>3. v \in Int
      BY <3>1
    <3> QED
      BY <3>1, <3>2, <3>3
  <2> QED
    BY <1>4, <2>1, <2>2, <2>3 DEF i, c
<1>11. CASE c # 0
  <2> DEFINE s == getRaw(g, c)
  <2>1. i = Valued(s, neg)
    BY <1>8, <1>9, <1>11 DEF AfterLength
  <2>2. c \in Nat
    BY <1>1
  <2>3. /\ IsReader(s) /\ s.out = w /\ Ahead(s) = q /\ (c <= 1 => s.scratch = g.scratch)
    <3>1. Reads(g, c, w, q)
      BY <1>0, <1>1, <1>4, <2>2 DEF Reads
    <3> QED
      BY <3>1, GetRawIs
  <2>4. i.reader = s /\ i.number = NumberOf(s.out) * IF neg THEN -1 ELSE 1
    BY <2>1 DEF Valued, NumberOf
  <2> HIDE DEF s
  <2>5. v \in Int
    BY <1>0 DEF UB4
  <2>6. i.number = IF sign = 0 THEN v ELSE -v
    <3>1. i.number = v * IF neg THEN -1 ELSE 1
      BY <1>1, <2>3, <2>4
    <3>2. v * (-1) = -v /\ v * 1 = v
      BY <2>5
    <3>3. neg <=> sign # 0
      BY <1>6
    <3>4. CASE sign = 0
      <4>1. ~ neg
        BY <3>3, <3>4
      <4> QED
        BY <3>1, <3>2, <3>4, <4>1
    <3>5. CASE sign # 0
      <4>1. neg
        BY <3>3, <3>5
      <4> QED
        BY <3>1, <3>2, <3>5, <4>1
    <3> QED
      BY <3>4, <3>5
  <2> QED
    BY <1>4, <2>3, <2>4, <2>6 DEF i, c
<1> QED
  BY <1>10, <1>11

---------------------------------------------------------------------------
(* Values are read, or skipped, as they were written.                      *)

ReadsValue(r, b, w) == IsReader(r) /\ b \in Bytes /\ w \in Bytes /\ Ahead(r) = ValueBytes(b) \o w

\* From the c-th chunk on.
ChunksFrom(b, c) == FlattenSeq(SubSeq(SentChunks(b), c + 1, ChunkCount(b))) \o Joined(WriteUB4(0))
ReadsChunks(r, b, c, w) ==
  IsReader(r) /\ b \in Bytes /\ c \in 0 .. ChunkCount(b) /\ w \in Bytes /\ Ahead(r) = ChunksFrom(b, c) \o w

\* A short value has its length in front,
LEMMA LengthRead ==
  ASSUME IsAnswer, NEW r, NEW b, NEW w, ReadsValue(r, b, w), Len(b) <= MaxShortLength
  PROVE  IsReader(getRaw(r, 1)) /\ getRaw(r, 1).out[1] = Len(b) /\ Reads(getRaw(r, 1), Len(b), b, w)
<1> DEFINE n == Len(b)
           l == <<n>>
           g == getRaw(r, 1)
<1>1. IsReader(r) /\ b \in Bytes /\ w \in Bytes /\ Ahead(r) = ValueBytes(b) \o w
  BY DEF ReadsValue
<1>2. n \in Nat /\ n \in Octet
  <2>1. n \in Nat
    BY <1>1, BytesJoin
  <2> QED
    BY <2>1, SizesAre DEF Octet
<1>3. ValueBytes(b) = l \o b
  BY DEF ValueBytes
<1>4. l \in Bytes
  BY <1>2, ByteIs
<1>5. b \o w \in Bytes
  BY <1>1, BytesConcat
<1> HIDE DEF l, n
<1>6. (l \o b) \o w = l \o (b \o w)
  BY <1>1, <1>4, BytesAssoc
<1>7. ReadsByte(r, n, b \o w)
  BY <1>1, <1>2, <1>3, <1>5, <1>6 DEF ReadsByte, l
<1>8. IsReader(g) /\ g.out[1] = n /\ Ahead(g) = b \o w
  BY <1>7, OneByte
<1>9. Reads(g, n, b, w)
  BY <1>1, <1>2, <1>8 DEF Reads, n
<1> QED
  BY <1>8, <1>9 DEF n

\* a long one the mark and chunks.
LEMMA LongRead ==
  ASSUME IsAnswer, NEW r, NEW b, NEW w, ReadsValue(r, b, w), ~ Len(b) <= MaxShortLength
  PROVE  getRaw(r, 1).out[1] = LongLength /\ ReadsChunks(getRaw(r, 1), b, 0, w)
<1> DEFINE l == <<LongLength>>
           g == getRaw(r, 1)
           rest == FlattenSeq(SentChunks(b)) \o Joined(WriteUB4(0))
<1>1. IsReader(r) /\ b \in Bytes /\ w \in Bytes /\ Ahead(r) = ValueBytes(b) \o w
  BY DEF ReadsValue
<1>2. LongLength \in Octet
  BY SizesAre DEF Octet
<1>3. ValueBytes(b) = l \o rest
  BY DEF ValueBytes
<1>4. l \in Bytes
  BY <1>2, ByteIs
<1>5. rest \in Bytes
  <2>1. SentChunks(b) \in Seq(Bytes)
    BY <1>1, SentChunksAre
  <2>2. FlattenSeq(SentChunks(b)) \in Bytes
    BY <2>1, FlattenType DEF Bytes
  <2>3. Joined(WriteUB4(0)) \in Bytes
    BY ZeroIs, JoinedType
  <2> QED
    BY <2>2, <2>3, BytesConcat
<1>6. ChunksFrom(b, 0) = rest
  <2>1. SentChunks(b) \in Seq(Bytes) /\ Len(SentChunks(b)) = ChunkCount(b)
    BY <1>1, SentChunksAre
  <2>2. SubSeq(SentChunks(b), 1, Len(SentChunks(b))) = SentChunks(b)
    BY <2>1, SubSeqFull
  <2>3. 0 + 1 = 1
    OBVIOUS
  <2> QED
    BY <2>1, <2>2, <2>3 DEF ChunksFrom
<1> HIDE DEF l, rest
<1>7. (l \o rest) \o w = l \o (rest \o w) /\ rest \o w \in Bytes
  BY <1>1, <1>4, <1>5, BytesAssoc, BytesConcat
<1>8. ReadsByte(r, LongLength, rest \o w)
  BY <1>1, <1>2, <1>3, <1>7 DEF ReadsByte, l
<1>9. IsReader(g) /\ g.out[1] = LongLength /\ Ahead(g) = rest \o w
  BY <1>8, OneByte
<1>10. 0 \in 0 .. ChunkCount(b)
  BY <1>1, ChunkEnds
<1> QED
  BY <1>1, <1>6, <1>9, <1>10 DEF ReadsChunks

\* The last length is 0.
LEMMA LastChunk ==
  ASSUME IsAnswer, NEW r, NEW b, NEW w, ReadsChunks(r, b, ChunkCount(b), w)
  PROVE  /\ ReadInteger(r, FALSE).number = 0 /\ IsReader(ReadInteger(r, FALSE).reader)
         /\ Ahead(ReadInteger(r, FALSE).reader) = w /\ SubSeq(b, 1, ChunkEnd(b, ChunkCount(b))) = b
<1> DEFINE n == ChunkCount(b)
           z == Joined(WriteUB4(0))
<1>1. IsReader(r) /\ b \in Bytes /\ w \in Bytes /\ Ahead(r) = ChunksFrom(b, n) \o w
  BY DEF ReadsChunks
<1>2. n \in Nat /\ ChunkEnd(b, n) = Len(b)
  BY <1>1, ChunkEnds
<1>3. z \in Bytes /\ 0 \in UB4
  BY ZeroIs, JoinedType
<1>4. ChunksFrom(b, n) = z
  <2>1. SubSeq(SentChunks(b), n + 1, n) = <<>>
    BY <1>2, SubSeqEmpty
  <2>2. <<>> \o z = z
    BY <1>3, BytesJoin
  <2> QED
    BY <2>1, <2>2, FlattenEmpty DEF ChunksFrom
<1>5. ReadsInteger(r, 0, 0, w)
  BY <1>1, <1>3, <1>4 DEF ReadsInteger, WriteUB4
<1>6. FALSE \in BOOLEAN /\ (0 # 0 => FALSE)
  OBVIOUS
<1>7. ReadInteger(r, FALSE).number = 0 /\ IsReader(ReadInteger(r, FALSE).reader) /\ Ahead(ReadInteger(r, FALSE).reader) = w
  BY <1>5, <1>6, IntegerIs
<1>8. SubSeq(b, 1, Len(b)) = b
  BY <1>1, SubSeqFull DEF Bytes
<1> QED
  BY <1>2, <1>7, <1>8

\* The others are those of the chunks.
LEMMA ChunkRead ==
  ASSUME IsAnswer, NEW r, NEW b, NEW c, NEW w, ReadsChunks(r, b, c, w), c # ChunkCount(b)
  PROVE  LET i == ReadInteger(r, FALSE)
             s == getRaw(i.reader, i.number)
             t == SkipRawBytes(i.reader, i.number)
         IN  /\ IsReader(i.reader) /\ i.number \in Nat /\ i.number # 0
             /\ ReadsChunks(s, b, c + 1, w) /\ ReadsChunks(t, b, c + 1, w)
             /\ SubSeq(b, 1, ChunkEnd(b, c)) \o s.out = SubSeq(b, 1, ChunkEnd(b, c + 1))
<1> DEFINE n == ChunkCount(b)
           d == Chunks(b)[c + 1]
           h == Joined(WriteUB4(Len(d)))
           z == Joined(WriteUB4(0))
           more == FlattenSeq(SubSeq(SentChunks(b), c + 2, n))
           i == ReadInteger(r, FALSE)
           s == getRaw(i.reader, i.number)
           t == SkipRawBytes(i.reader, i.number)
<1>1. IsReader(r) /\ b \in Bytes /\ w \in Bytes /\ c \in 0 .. n /\ Ahead(r) = ChunksFrom(b, c) \o w
  BY DEF ReadsChunks
<1>2. n \in Nat /\ c \in 0 .. n - 1 /\ c + 1 \in 1 .. n /\ (c + 1) - 1 = c /\ (c + 1) + 1 = c + 2 /\ c + 1 \in 0 .. n
  <2>1. n \in Nat
    BY <1>1, ChunkEnds
  <2> QED
    BY <1>1, <2>1
<1>3. d \in Bytes /\ Len(d) \in UB4 /\ Len(d) \in Nat /\ Len(d) # 0
      /\ SubSeq(b, 1, ChunkEnd(b, c)) \o d = SubSeq(b, 1, ChunkEnd(b, c + 1))
  <2>1. Chunks(b)[c + 1] \in Bytes /\ Len(Chunks(b)[c + 1]) \in 1 .. ChunkSize /\ Len(Chunks(b)[c + 1]) \in UB4
        /\ SubSeq(b, 1, ChunkEnd(b, (c + 1) - 1)) \o Chunks(b)[c + 1] = SubSeq(b, 1, ChunkEnd(b, c + 1))
    BY <1>1, <1>2, ChunksAre
  <2>2. Len(Chunks(b)[c + 1]) # 0 /\ Len(Chunks(b)[c + 1]) \in Nat
    BY <2>1, SizesAre
  <2> QED
    BY <1>2, <2>1, <2>2
<1>4. h \in Bytes /\ z \in Bytes
  BY <1>3, WriteUB4Is, ZeroIs, JoinedType
<1>5. SentChunks(b) \in Seq(Bytes) /\ Len(SentChunks(b)) = n /\ SentChunks(b)[c + 1] = h \o d
  BY <1>1, <1>2, SentChunksAre
<1>6. FlattenSeq(SubSeq(SentChunks(b), c + 1, n)) = (h \o d) \o more
  <2>1. SentChunks(b) \in Seq(Seq(Octet)) /\ c \in 0 .. Len(SentChunks(b)) - 1
    BY <1>2, <1>5 DEF Bytes
  <2>2. FlattenSeq(SubSeq(SentChunks(b), c + 1, Len(SentChunks(b))))
          = SentChunks(b)[c + 1] \o FlattenSeq(SubSeq(SentChunks(b), c + 2, Len(SentChunks(b))))
    BY <2>1, FlattenFrom
  <2> QED
    BY <1>5, <2>2
<1>7. more \in Bytes
  <2>1. SubSeq(SentChunks(b), c + 2, n) \in Seq(Bytes)
    <3>1. \A j \in c + 2 .. n : SentChunks(b)[j] \in Bytes
      BY <1>2, <1>5, ElementOfSeq
    <3> QED
      BY <1>2, <3>1, SubSeqProperties
  <2> QED
    BY <2>1, FlattenType DEF Bytes
<1>8. ChunksFrom(b, c + 1) = more \o z
  BY <1>2 DEF ChunksFrom
<1>9. ChunksFrom(b, c) = ((h \o d) \o more) \o z
  BY <1>6 DEF ChunksFrom
<1> DEFINE rest == ChunksFrom(b, c + 1)
<1> HIDE DEF n, d, h, z, more, rest
<1>10. rest \in Bytes /\ rest \o w \in Bytes /\ d \o (rest \o w) \in Bytes
  <2>1. rest \in Bytes
    BY <1>4, <1>7, <1>8, BytesConcat DEF rest
  <2>2. rest \o w \in Bytes
    BY <1>1, <2>1, BytesConcat
  <2> QED
    BY <1>3, <2>1, <2>2, BytesConcat
<1>11. Ahead(r) = h \o (d \o (rest \o w))
  <2>1. h \o d \in Bytes
    BY <1>3, <1>4, BytesConcat
  <2>2. ((h \o d) \o more) \o z = (h \o d) \o (more \o z)
    BY <1>4, <1>7, <2>1, BytesAssoc
  <2>3. Ahead(r) = ((h \o d) \o rest) \o w
    BY <1>1, <1>8, <1>9, <2>2 DEF rest
  <2>4. ((h \o d) \o rest) \o w = (h \o d) \o (rest \o w)
    BY <1>1, <1>10, <2>1, BytesAssoc
  <2>5. (h \o d) \o (rest \o w) = h \o (d \o (rest \o w))
    BY <1>3, <1>4, <1>10, BytesAssoc
  <2> QED
    BY <2>3, <2>4, <2>5
<1>12. ReadsInteger(r, Len(d), 0, d \o (rest \o w))
  BY <1>1, <1>3, <1>10, <1>11 DEF ReadsInteger, WriteUB4, h
<1>13. FALSE \in BOOLEAN /\ (0 # 0 => FALSE)
  OBVIOUS
<1>14. IsReader(i.reader) /\ Ahead(i.reader) = d \o (rest \o w) /\ i.number = Len(d)
  BY <1>12, <1>13, IntegerIs
<1> HIDE DEF i
<1>15. Reads(i.reader, i.number, d, rest \o w)
  BY <1>3, <1>10, <1>14 DEF Reads
<1>16. IsReader(s) /\ s.out = d /\ Ahead(s) = rest \o w
  <2> DEFINE x == i.reader
             k == i.number
  <2>1. Reads(x, k, d, rest \o w)
    BY <1>15
  <2>2. s = getRaw(x, k)
    OBVIOUS
  <2> HIDE DEF x, k, s
  <2> DEFINE v == rest \o w
  <2> HIDE DEF v
  <2>3. Reads(x, k, d, v)
    BY <2>1 DEF v
  <2>4. IsReader(getRaw(x, k)) /\ getRaw(x, k).out = d /\ Ahead(getRaw(x, k)) = v
    BY <2>3, GetRawIs
  <2> QED
    BY <2>2, <2>4 DEF v
<1>17. IsReader(t) /\ Ahead(t) = rest \o w
  BY <1>15, SkipIs
<1> HIDE DEF s, t
<1>18. ReadsChunks(s, b, c + 1, w) /\ ReadsChunks(t, b, c + 1, w)
  BY <1>1, <1>2, <1>16, <1>17 DEF ReadsChunks, rest, n
<1>19. SubSeq(b, 1, ChunkEnd(b, c)) \o s.out = SubSeq(b, 1, ChunkEnd(b, c + 1))
  <2>1. SubSeq(b, 1, ChunkEnd(b, c)) \o d = SubSeq(b, 1, ChunkEnd(b, c + 1)) /\ s.out = d
    BY <1>3, <1>16
  <2> QED
    BY <2>1, Zenon
<1>20. /\ IsReader(i.reader) /\ i.number \in Nat /\ i.number # 0
       /\ ReadsChunks(s, b, c + 1, w) /\ ReadsChunks(t, b, c + 1, w)
       /\ SubSeq(b, 1, ChunkEnd(b, c)) \o s.out = SubSeq(b, 1, ChunkEnd(b, c + 1))
  BY <1>3, <1>14, <1>18, <1>19
<1> QED
  BY <1>20, Zenon DEF i, s, t

---------------------------------------------------------------------------
(* The answer, field by field.                                             *)

\* The bytes of the fields as the server sent them.
IsReceived(parts) ==
  parts \in Seq(Bytes) /\ Len(parts) = Len(message) /\ \A i \in 1 .. Len(message) : parts[i] \in Answered(i)

\* Those behind the first k.
Following(parts, k) == FlattenSeq(SubSeq(parts, k + 1, Len(parts)))

\* What is behind the value of the k-th.
After(parts, k, w) ==
  /\ w \in Bytes
  /\ IF message[k].kind = "out"
     THEN \E n \in {0, message[k].n} : w = Joined(WriteSB4(n)) \o Following(parts, k)
     ELSE w = Following(parts, k)

\* What is behind a field begins with the next one.
LEMMA FollowingIs ==
  ASSUME IsMessage, NEW parts, IsReceived(parts), NEW k \in 1 .. Len(message)
  PROVE  /\ parts[k] \in Bytes /\ Following(parts, k) \in Bytes /\ Following(parts, k - 1) \in Bytes
         /\ Following(parts, k - 1) = parts[k] \o Following(parts, k)
<1>1. parts \in Seq(Bytes) /\ Len(parts) = Len(message) /\ Len(message) \in Nat
  BY MessageIs DEF IsReceived
<1>2. parts \in Seq(Seq(Octet)) /\ k - 1 \in 0 .. Len(parts) - 1 /\ (k - 1) + 1 = k /\ (k - 1) + 2 = k + 1
  BY <1>1 DEF Bytes
<1>3. FlattenSeq(SubSeq(parts, (k - 1) + 1, Len(parts))) = parts[(k - 1) + 1] \o FlattenSeq(SubSeq(parts, (k - 1) + 2, Len(parts)))
  BY <1>2, FlattenFrom
<1>4. Following(parts, k - 1) = parts[k] \o Following(parts, k)
  BY <1>2, <1>3 DEF Following
<1>5. parts[k] \in Bytes
  BY <1>1, ElementOfSeq
<1>6. Following(parts, k) \in Bytes
  <2>1. \A j \in k + 1 .. Len(parts) : parts[j] \in Bytes
    BY <1>1, ElementOfSeq
  <2>2. SubSeq(parts, k + 1, Len(parts)) \in Seq(Bytes)
    BY <1>1, <2>1, SubSeqProperties
  <2> QED
    BY <2>2, FlattenType DEF Following, Bytes
<1>7. parts[k] \o Following(parts, k) \in Bytes
  BY <1>5, <1>6, BytesConcat
<1> QED
  BY <1>4, <1>5, <1>6, <1>7

\* A signed integer is sent as its amount and its sign.
LEMMA SignedIs ==
  ASSUME NEW v \in Int, v \in UB4 \/ -v \in UB4
  PROVE  \E u \in UB4, sign \in {0, SignBit} :
            /\ WriteSB4(v) = Universal(u, sign) /\ v = (IF sign = 0 THEN u ELSE -u)
            /\ 0 <= v => u = v
<1>1. CASE v < 0
  <2> DEFINE u == -v
  <2>1. u \in UB4 /\ v = -u /\ ~ 0 <= v /\ WriteSB4(v) = Universal(u, SignBit)
    BY <1>1 DEF UB4, WriteSB4
  <2>2. SignBit # 0
    BY SizesAre
  <2> HIDE DEF u
  <2> QED
    BY <2>1, <2>2
<1>2. CASE ~ v < 0
  <2>1. v \in UB4 /\ WriteSB4(v) = Universal(v, 0)
    BY <1>2 DEF UB4, WriteSB4
  <2> QED
    BY <2>1
<1> QED
  BY <1>1, <1>2

\* What the server sends of each field.
LEMMA PartIs ==
  ASSUME IsMessage, NEW parts, IsReceived(parts), NEW k \in 1 .. Len(message)
  PROVE  /\ message[k].kind = "unsigned" => parts[k] = Joined(WriteUB4(Meant(k)))
         /\ message[k].kind = "signed" => parts[k] = Joined(WriteSB4(Meant(k)))
         /\ message[k].kind = "sized" =>
              parts[k] = Joined(WriteUB4(Len(Meant(k)))) \o (IF Meant(k) = <<>> THEN <<>> ELSE ValueBytes(Meant(k)))
         /\ message[k].kind = "value" => parts[k] = ValueBytes(Meant(k))
         /\ message[k].kind = "out" => \E n \in {0, message[k].n} : parts[k] = ValueBytes(Meant(k)) \o Joined(WriteSB4(n))
         /\ message[k].kind = "null" => parts[k] = <<NullLength>>
<1> DEFINE b == Meant(k)
<1>1. parts[k] \in Answered(k) /\ message[k].kind \in Kinds
  BY MessageIs DEF IsReceived
<1>2. CASE message[k].kind = "unsigned"
  BY <1>1, <1>2 DEF Answered, Pieces
<1>3. CASE message[k].kind = "signed"
  BY <1>1, <1>3 DEF Answered, Pieces
<1>4. CASE message[k].kind = "sized"
  <2>1. b \in Bytes /\ Len(b) \in UB4
    BY <1>4, MeantIs DEF IsNumber
  <2>2. parts[k] = Joined(Pieces(k))
    BY <1>1, <1>4 DEF Answered
  <2> DEFINE t == IF b = <<>> THEN <<>> ELSE WriteBytesWithLength(b)
             h == WriteUB4(Len(b))
  <2>3. Pieces(k) = h \o t
    BY <1>4 DEF Pieces, WriteBytesWithTwoLengths
  <2>4. h \in Seq(Piece)
    BY <2>1, WriteUB4Is
  <2>5. t \in Seq(Piece) /\ Joined(t) = IF b = <<>> THEN <<>> ELSE ValueBytes(b)
    BY <2>1, ValueWritten, JoinedNone
  <2> HIDE DEF t, h
  <2>6. Joined(h \o t) = Joined(h) \o Joined(t)
    BY <2>4, <2>5, JoinedConcat
  <2>7. parts[k] = Joined(h) \o (IF b = <<>> THEN <<>> ELSE ValueBytes(b))
    BY <2>2, <2>3, <2>5, <2>6
  <2> QED
    BY <1>4, <2>7 DEF h
<1>5. CASE message[k].kind = "value"
  <2>1. b \in Bytes
    BY <1>5, MeantIs DEF IsNumber
  <2>2. parts[k] = Joined(WriteBytesWithLength(b))
    BY <1>1, <1>5 DEF Answered, Pieces
  <2> QED
    BY <1>5, <2>1, <2>2, ValueWritten
<1>6. CASE message[k].kind = "out"
  <2>1. b \in Bytes /\ message[k].n \in UB4
    BY <1>6, MeantIs DEF IsNumber
  <2>2. PICK n \in {0, message[k].n} : parts[k] = Joined(Pieces(k) \o WriteSB4(n))
    BY <1>1, <1>6 DEF Answered
  <2>3. Pieces(k) = WriteBytesWithLength(b)
    BY <1>6 DEF Pieces
  <2>4. n \in UB4 /\ n \in Int
    BY <2>1, ZeroIs DEF UB4
  <2>5. WriteSB4(n) \in Seq(Piece)
    BY <2>4, SignedWritten
  <2>6. Joined(Pieces(k) \o WriteSB4(n)) = Joined(Pieces(k)) \o Joined(WriteSB4(n))
    BY <2>1, <2>3, <2>5, ValueWritten, JoinedConcat
  <2>7. parts[k] = ValueBytes(b) \o Joined(WriteSB4(n))
    BY <2>1, <2>2, <2>3, <2>6, ValueWritten
  <2> QED
    BY <1>6, <2>7
<1>7. CASE message[k].kind = "null"
  BY <1>1, <1>7 DEF Answered
<1> QED
  BY <1>1, <1>2, <1>3, <1>4, <1>5, <1>6, <1>7 DEF Kinds

\* Where the reader r is, when m fields were read: before the next one, in a
\* value with two lengths, in the chunks of a value that is read, or skipped,
\* before the actual length of an OUT bind.
AtField(parts, r, m) == IsReader(r) /\ m \in 0 .. Len(message) /\ Ahead(r) = Following(parts, m)
AtValue(parts, r, k) ==
  /\ k \in 1 .. Len(message) /\ message[k].kind = "sized" /\ Meant(k) # <<>>
  /\ ReadsValue(r, Meant(k), Following(parts, k))
AtChunk(parts, r, k, ch) ==
  /\ k \in 1 .. Len(message) /\ message[k].kind \in {"value", "out", "sized"}
  /\ \E c, w : /\ After(parts, k, w) /\ ReadsChunks(r, Meant(k), c, w)
               /\ ch = SubSeq(Meant(k), 1, ChunkEnd(Meant(k), c))
AtSkipped(parts, r, k) ==
  /\ k \in 1 .. Len(message) /\ message[k].kind \in {"value", "sized"}
  /\ \E c : ReadsChunks(r, Meant(k), c, Following(parts, k))
HoldsValue(r, b) ==
  r.out = b /\ (r.inScratch => Len(b) <= MaxShortLength /\ SubSeq(r.scratch, 1, Len(b)) = b)
AtActual(parts, r, k) ==
  /\ k \in 1 .. Len(message) /\ message[k].kind = "out"
  /\ IsReader(r) /\ After(parts, k, Ahead(r)) /\ HoldsValue(r, Meant(k))

\* A number that is read.
LEMMA NumberAt ==
  ASSUME IsMessage, IsAnswer, NEW parts, IsReceived(parts), NEW k \in 1 .. Len(message), NEW r,
         AtField(parts, r, k - 1), IsNumber(message[k])
  PROVE  /\ ReadInteger(r, message[k].kind = "signed").number = Meant(k)
         /\ AtField(parts, ReadInteger(r, message[k].kind = "signed").reader, k) /\ Meant(k) \in Int
<1> DEFINE f == message[k]
           w == Following(parts, k)
           i == ReadInteger(r, f.kind = "signed")
<1>1. IsReader(r) /\ Ahead(r) = parts[k] \o w /\ w \in Bytes /\ k \in 0 .. Len(message)
  <2>1. k \in 0 .. Len(message)
    BY MessageIs
  <2> QED
    BY <2>1, FollowingIs DEF AtField
<1>2. CASE f.kind = "unsigned"
  <2>1. Meant(k) \in UB4 /\ parts[k] = Joined(Universal(Meant(k), 0))
    BY <1>2, MeantIs, PartIs DEF WriteUB4
  <2>2. ReadsInteger(r, Meant(k), 0, w)
    BY <1>1, <2>1 DEF ReadsInteger
  <2>3. (f.kind = "signed") = FALSE
    BY <1>2
  <2> DEFINE j == ReadInteger(r, FALSE)
  <2>4. IsReader(j.reader) /\ Ahead(j.reader) = w /\ j.number = Meant(k)
    <3>1. FALSE \in BOOLEAN /\ (0 # 0 => FALSE)
      OBVIOUS
    <3> QED
      BY <2>2, <3>1, IntegerIs
  <2>5. i = j
    BY <2>3
  <2>6. Meant(k) \in Int
    BY <2>1 DEF UB4
  <2> HIDE DEF i, j
  <2>7. i.number = Meant(k) /\ AtField(parts, i.reader, k)
    BY <1>1, <2>4, <2>5 DEF AtField
  <2> QED
    BY <2>6, <2>7 DEF i
<1>3. CASE f.kind = "signed"
  <2>1. Meant(k) \in Int /\ (Meant(k) \in UB4 \/ -Meant(k) \in UB4) /\ parts[k] = Joined(WriteSB4(Meant(k)))
    BY <1>3, MeantIs, PartIs
  <2>2. PICK u \in UB4, sign \in {0, SignBit} : WriteSB4(Meant(k)) = Universal(u, sign) /\ Meant(k) = (IF sign = 0 THEN u ELSE -u)
    BY <2>1, SignedIs
  <2>3. ReadsInteger(r, u, sign, w)
    BY <1>1, <2>1, <2>2 DEF ReadsInteger
  <2>4. (f.kind = "signed") = TRUE
    BY <1>3
  <2> DEFINE j == ReadInteger(r, TRUE)
  <2>5. IsReader(j.reader) /\ Ahead(j.reader) = w /\ j.number = Meant(k)
    <3>1. TRUE \in BOOLEAN /\ (sign # 0 => TRUE)
      OBVIOUS
    <3> QED
      BY <2>2, <2>3, <3>1, IntegerIs
  <2>6. i = j
    BY <2>4
  <2> HIDE DEF i, j
  <2>7. i.number = Meant(k) /\ AtField(parts, i.reader, k)
    BY <1>1, <2>5, <2>6 DEF AtField
  <2> QED
    BY <2>1, <2>7 DEF i
<1> QED
  BY <1>2, <1>3 DEF IsNumber

\* A value, and what is behind it.
LEMMA ValueAt ==
  ASSUME IsMessage, IsAnswer, NEW parts, IsReceived(parts), NEW k \in 1 .. Len(message), NEW r,
         \/ AtField(parts, r, k - 1) /\ message[k].kind \in {"value", "out"}
         \/ AtValue(parts, r, k)
  PROVE  /\ \E w : After(parts, k, w) /\ ReadsValue(r, Meant(k), w)
         /\ message[k].kind \in {"value", "out", "sized"}
<1> DEFINE b == Meant(k)
           f == Following(parts, k)
<1>1. f \in Bytes /\ Following(parts, k - 1) = parts[k] \o f
  BY FollowingIs
<1>2. CASE AtField(parts, r, k - 1) /\ message[k].kind = "value"
  <2>1. b \in Bytes /\ parts[k] = ValueBytes(b)
    BY <1>2, MeantIs, PartIs DEF IsNumber
  <2>2. ReadsValue(r, b, f)
    BY <1>1, <1>2, <2>1 DEF ReadsValue, AtField
  <2>3. After(parts, k, f)
    BY <1>1, <1>2 DEF After
  <2> QED
    BY <1>2, <2>2, <2>3
<1>3. CASE AtField(parts, r, k - 1) /\ message[k].kind = "out"
  <2>1. b \in Bytes /\ ValueBytes(b) \in Bytes /\ message[k].n \in UB4
    BY <1>3, MeantIs, ValueWritten DEF IsNumber
  <2>2. PICK n \in {0, message[k].n} : parts[k] = ValueBytes(b) \o Joined(WriteSB4(n))
    BY <1>3, PartIs
  <2>3. Joined(WriteSB4(n)) \in Bytes
    <3>1. n \in UB4 /\ n \in Int
      BY <2>1, ZeroIs DEF UB4
    <3> QED
      BY <3>1, SignedWritten, JoinedType
  <2> DEFINE w == Joined(WriteSB4(n)) \o f
  <2>4. w \in Bytes /\ (ValueBytes(b) \o Joined(WriteSB4(n))) \o f = ValueBytes(b) \o w
    <3> DEFINE x == ValueBytes(b)
               y == Joined(WriteSB4(n))
    <3>1. x \in Bytes /\ y \in Bytes /\ f \in Bytes
      BY <1>1, <2>1, <2>3
    <3> HIDE DEF x, y, f
    <3>2. y \o f \in Bytes /\ (x \o y) \o f = x \o (y \o f)
      BY <3>1, BytesConcat, BytesAssoc
    <3> QED
      BY <3>2 DEF x, y, f
  <2>5. ReadsValue(r, b, w)
    <3>1. IsReader(r) /\ Ahead(r) = Following(parts, k - 1)
      BY <1>3 DEF AtField
    <3>2. Ahead(r) = (ValueBytes(b) \o Joined(WriteSB4(n))) \o f
      BY <1>1, <2>2, <3>1
    <3> HIDE DEF w
    <3> QED
      BY <2>1, <2>4, <3>1, <3>2 DEF ReadsValue
  <2>6. After(parts, k, w)
    BY <1>3, <2>4 DEF After
  <2> HIDE DEF w
  <2> QED
    BY <1>3, <2>5, <2>6
<1>4. CASE AtValue(parts, r, k)
  <2>1. ReadsValue(r, b, f) /\ message[k].kind = "sized"
    BY <1>4 DEF AtValue
  <2>2. After(parts, k, f)
    BY <1>1, <2>1 DEF After
  <2> QED
    BY <2>1, <2>2
<1> QED
  BY <1>2, <1>3, <1>4

\* A value with two lengths has bytes if its first length says so.
LEMMA SizeAt ==
  ASSUME IsMessage, IsAnswer, NEW parts, IsReceived(parts), NEW k \in 1 .. Len(message), NEW r,
         AtField(parts, r, k - 1), message[k].kind = "sized"
  PROVE  /\ ReadInteger(r, FALSE).number > 0 => AtValue(parts, ReadInteger(r, FALSE).reader, k)
         /\ ~ ReadInteger(r, FALSE).number > 0 => AtField(parts, ReadInteger(r, FALSE).reader, k) /\ Meant(k) = <<>>
         /\ IsReader(ReadInteger(r, FALSE).reader)
<1> DEFINE b == Meant(k)
           f == Following(parts, k)
           t == IF b = <<>> THEN <<>> ELSE ValueBytes(b)
           i == ReadInteger(r, FALSE)
<1>1. f \in Bytes /\ Following(parts, k - 1) = parts[k] \o f /\ k \in 0 .. Len(message)
  <2>1. k \in 0 .. Len(message)
    BY MessageIs
  <2> QED
    BY <2>1, FollowingIs
<1>2. b \in Bytes /\ Len(b) \in UB4 /\ parts[k] = Joined(WriteUB4(Len(b))) \o t
  BY MeantIs, PartIs DEF IsNumber
<1>3. Joined(WriteUB4(Len(b))) \in Bytes /\ t \in Bytes
  BY <1>2, WriteUB4Is, ValueWritten, BytesJoin
<1>4. ReadsInteger(r, Len(b), 0, t \o f)
  <2>0. IsReader(r) /\ Ahead(r) = parts[k] \o f
    BY <1>1 DEF AtField
  <2> HIDE DEF t, f
  <2>1. t \o f \in Bytes /\ (Joined(WriteUB4(Len(b))) \o t) \o f = Joined(WriteUB4(Len(b))) \o (t \o f)
    BY <1>1, <1>3, BytesConcat, BytesAssoc
  <2> QED
    BY <1>2, <2>0, <2>1 DEF ReadsInteger, WriteUB4
<1>5. IsReader(i.reader) /\ Ahead(i.reader) = t \o f /\ i.number = Len(b)
  <2>1. FALSE \in BOOLEAN /\ (0 # 0 => FALSE)
    OBVIOUS
  <2> HIDE DEF t, f
  <2> QED
    BY <1>4, <2>1, IntegerIs
<1> HIDE DEF i
<1>6. CASE b = <<>>
  <2>1. Len(b) = 0 /\ ~ i.number > 0
    BY <1>5, <1>6
  <2>2. t \o f = f
    BY <1>1, <1>6, BytesJoin
  <2>3. AtField(parts, i.reader, k)
    BY <1>1, <1>5, <2>2 DEF AtField
  <2> QED
    BY <1>5, <1>6, <2>1, <2>3 DEF i
<1>7. CASE b # <<>>
  <2>1. Len(b) \in Nat /\ Len(b) # 0
    BY <1>2, <1>7, BytesJoin
  <2>2. i.number > 0
    BY <1>5, <2>1
  <2>3. AtValue(parts, i.reader, k)
    BY <1>1, <1>2, <1>5, <1>7 DEF AtValue, ReadsValue
  <2> QED
    BY <1>5, <2>2, <2>3 DEF i
<1> QED
  BY <1>6, <1>7

\* The slice is still what it was when the actual length has been read.
LEMMA ActualAt ==
  ASSUME IsMessage, IsAnswer, NEW parts, IsReceived(parts), NEW k, NEW r, AtActual(parts, r, k)
  PROVE  Later(r, ReadInteger(r, TRUE).reader) = Meant(k) /\ AtField(parts, ReadInteger(r, TRUE).reader, k)
<1> DEFINE b == Meant(k)
           f == Following(parts, k)
           i == ReadInteger(r, TRUE)
<1>1. /\ k \in 1 .. Len(message) /\ message[k].kind = "out" /\ IsReader(r) /\ After(parts, k, Ahead(r)) /\ r.out = b
      /\ r.inScratch => Len(b) <= MaxShortLength /\ SubSeq(r.scratch, 1, Len(b)) = b
  BY DEF AtActual, HoldsValue
<1>2. f \in Bytes /\ k \in 0 .. Len(message)
  BY <1>1, FollowingIs, MessageIs
<1>3. PICK n \in {0, message[k].n} : Ahead(r) = Joined(WriteSB4(n)) \o f
  BY <1>1 DEF After
<1>4. b \in Bytes /\ Len(b) = message[k].n /\ message[k].n \in UB4
  BY <1>1, MeantIs DEF IsNumber
<1>5. n \in UB4 /\ n \in Int /\ 0 <= n
  BY <1>4, ZeroIs DEF UB4
<1>6. WriteSB4(n) = Universal(n, 0)
  BY <1>5 DEF WriteSB4
<1>7. ReadsInteger(r, n, 0, f)
  BY <1>1, <1>2, <1>3, <1>5, <1>6 DEF ReadsInteger
<1>8. IsReader(i.reader) /\ Ahead(i.reader) = f /\ (ByteCount(n) <= 1 => i.reader.scratch = r.scratch)
  <2>1. TRUE \in BOOLEAN /\ (0 # 0 => TRUE)
    OBVIOUS
  <2> QED
    BY <1>7, <2>1, IntegerIs
<1> HIDE DEF i
<1>9. AtField(parts, i.reader, k)
  BY <1>2, <1>8 DEF AtField
<1>10. Later(r, i.reader) = b
  <2>1. CASE r.inScratch
    <3>1. n \in 0 .. Base - 1
      BY <1>1, <1>3, <1>4, <1>5, <2>1, SizesAre
    <3>2. ByteCount(n) <= 1
      <4>1. CASE n = 0
        BY <4>1, <1>5, NumberBytesAre
      <4>2. CASE n # 0
        <5>1. n \in 1 .. Base - 1
          BY <3>1, <4>2, SizesAre
        <5>2. ByteCount(n) = 1
          <6>1. Base \in Nat /\ Base * Base \in Nat
            BY SizesAre
          <6>2. ~ n \in Base .. Base * Base - 1
            BY <5>1, <6>1
          <6> QED
            BY <4>2, <5>1, <6>2, Zenon DEF ByteCount
        <5> QED
          BY <5>2
      <4> QED
        BY <4>1, <4>2
    <3>3. i.reader.scratch = r.scratch
      BY <1>8, <3>2
    <3> QED
      BY <1>1, <2>1, <3>3 DEF Later
  <2>2. CASE ~ r.inScratch
    BY <1>1, <2>2 DEF Later
  <2> QED
    BY <2>1, <2>2
<1> QED
  BY <1>9, <1>10 DEF i

ReadingAt(parts, r, t, ch, m) ==
  \/ t = "field" /\ AtField(parts, r, m)
  \/ t \in {"value", "skip"} /\ AtValue(parts, r, m + 1)
  \/ t = "chunks" /\ AtChunk(parts, r, m + 1, ch)
  \/ t = "skip chunks" /\ AtSkipped(parts, r, m + 1)
  \/ t = "actual" /\ AtActual(parts, r, m + 1)

AnswerSet == [skipped : BOOLEAN, value : Int \cup Bytes]
AnswersAre ==
  /\ answers \in Seq(AnswerSet) /\ Len(answers) <= Len(message)
  /\ \A i \in 1 .. Len(answers) : answers[i].skipped \/ answers[i].value = Meant(i)

Reading(parts) ==
  /\ IsMessage /\ IsAnswer /\ PacketsAreSent /\ AnswersAre /\ IsReceived(parts)
  /\ ReadingAt(parts, reader, turn, chunk, Len(answers))

\* What was sent is the message, and what has not been read of the answer is
\* that of the fields to come.
PacketsInv ==
  \/ IsMessage /\ WriterInv /\ AnswersAre /\ turn \in {"write", "answer"} /\ answers = <<>> /\ reader = NoReader
  \/ \E parts : Reading(parts)

\* From one place in the answer to the next.
LEMMA Onwards ==
  ASSUME NEW parts, Reading(parts), AnswersAre',
         UNCHANGED <<message, queue, packets, buffered, incoming>>,
         NEW r, NEW t, NEW ch, NEW m, reader' = r, turn' = t, chunk' = ch, Len(answers') = m,
         ReadingAt(parts, r, t, ch, m)
  PROVE  PacketsInv'
<1>1. IsMessage /\ IsAnswer /\ PacketsAreSent /\ IsReceived(parts)
  BY DEF Reading
<1>2. message' = message /\ incoming' = incoming /\ packets' = packets
  OBVIOUS
<1>3. IsMessage' /\ IsAnswer' /\ PacketsAreSent'
  BY <1>1, <1>2 DEF IsMessage, IsAnswer, PacketsAreSent
<1>4. IsReceived(parts)'
  BY <1>1, <1>2 DEF IsReceived, Answered, Pieces, Meant
<1>5. \A k : Meant(k)' = Meant(k)
  BY <1>2 DEF Meant
<1>6. \A t1, pos : IsPlace(t1, pos)' = IsPlace(t1, pos) /\ RestAt(t1, pos)' = RestAt(t1, pos)
  BY <1>2 DEF IsPlace, RestAt
<1>7. \A x : IsReader(x)' = IsReader(x) /\ Ahead(x)' = Ahead(x)
  BY <1>2 DEF IsReader, Ahead, IsPlace, RestAt
<1>8. AtField(parts, r, m) => AtField(parts, r, m)'
  BY <1>2, <1>7 DEF AtField
<1>9. \A k : AtValue(parts, r, k) => AtValue(parts, r, k)'
  BY <1>2, <1>5, <1>7 DEF AtValue, ReadsValue
<1>10. \A k : AtChunk(parts, r, k, ch) => AtChunk(parts, r, k, ch)'
  BY <1>2, <1>5, <1>7 DEF AtChunk, ReadsChunks, After
<1>11. \A k : AtSkipped(parts, r, k) => AtSkipped(parts, r, k)'
  BY <1>2, <1>5, <1>7 DEF AtSkipped, ReadsChunks
<1>12. \A k : AtActual(parts, r, k) => AtActual(parts, r, k)'
  BY <1>2, <1>5, <1>7 DEF AtActual, After
<1>13. ReadingAt(parts, r, t, ch, m)'
  BY <1>8, <1>9, <1>10, <1>11, <1>12 DEF ReadingAt
<1>14. ReadingAt(parts, reader, turn, chunk, Len(answers))'
  BY <1>13 DEF ReadingAt
<1>15. Reading(parts)'
  BY <1>3, <1>4, <1>14 DEF Reading
<1> QED
  BY <1>15 DEF PacketsInv

\* One answer more.
LEMMA AnswerMore ==
  ASSUME IsMessage, AnswersAre, Len(answers) < Len(message), message' = message,
         NEW a \in AnswerSet, a.skipped \/ a.value = Meant(Len(answers) + 1), answers' = Append(answers, a)
  PROVE  AnswersAre' /\ Len(answers') = Len(answers) + 1 /\ Len(answers) \in Nat
<1>1. answers \in Seq(AnswerSet) /\ Len(answers) \in Nat /\ Len(message) \in Nat
  BY MessageIs DEF AnswersAre
<1>2. /\ answers' \in Seq(AnswerSet) /\ Len(answers') = Len(answers) + 1 /\ answers'[Len(answers) + 1] = a
      /\ \A i \in 1 .. Len(answers) : answers'[i] = answers[i]
  BY <1>1, AppendProperties
<1>3. \A i : Meant(i)' = Meant(i)
  BY DEF Meant
<1>4. \A i \in 1 .. Len(answers') : answers'[i].skipped \/ answers'[i].value = Meant(i)
  <2> SUFFICES ASSUME NEW i \in 1 .. Len(answers') PROVE answers'[i].skipped \/ answers'[i].value = Meant(i)
    OBVIOUS
  <2>1. i \in 1 .. Len(answers) \/ i = Len(answers) + 1
    BY <1>1, <1>2
  <2> QED
    BY <1>2, <2>1 DEF AnswersAre
<1>5. AnswersAre'
  BY <1>1, <1>2, <1>3, <1>4 DEF AnswersAre
<1> QED
  BY <1>1, <1>2, <1>5

\* None more.
LEMMA AnswersStay ==
  ASSUME AnswersAre, message' = message, answers' = answers
  PROVE  AnswersAre'
BY DEF AnswersAre, Meant

\* A reader that has not failed goes on.
LEMMA OnwardIs ==
  ASSUME NEW r, NEW next, IsReader(r), Onward(r, next)
  PROVE  reader' = r /\ turn' = next /\ UNCHANGED <<message, queue, packets, buffered, incoming>>
BY DEF Onward, IsReader

\* An index is followed by one while there is one.
LEMMA NextIndex ==
  ASSUME NEW m \in Nat, NEW n \in Nat
  PROVE  (m < n <=> m + 1 \in 1 .. n) /\ (m + 1) - 1 = m /\ \A k \in 1 .. n : k \in 0 .. n
OBVIOUS

\* The field that is next.
LEMMA NextField ==
  ASSUME NEW parts, Reading(parts), turn \in {"value", "skip", "chunks", "skip chunks", "actual"} \/ HasField
  PROVE  /\ IsMessage /\ IsAnswer /\ IsReceived(parts) /\ AnswersAre
         /\ Len(answers) \in Nat /\ Len(answers) + 1 \in 1 .. Len(message) /\ (Len(answers) + 1) - 1 = Len(answers)
         /\ Len(answers) < Len(message) /\ Field = message[Len(answers) + 1] /\ Field.kind \in Kinds
<1>1. IsMessage /\ IsAnswer /\ IsReceived(parts) /\ AnswersAre /\ ReadingAt(parts, reader, turn, chunk, Len(answers))
  BY DEF Reading
<1>2. Len(answers) \in Nat /\ Len(message) \in Nat
  <2>1. answers \in Seq(AnswerSet)
    BY <1>1 DEF AnswersAre
  <2> QED
    BY <1>1, <2>1, MessageIs, LenProperties
<1> DEFINE m == Len(answers)
           n == Len(message)
<1>3. m + 1 \in 1 .. n
  <2>1. CASE HasField
    <3>1. m < n /\ m \in Nat /\ n \in Nat
      BY <1>2, <2>1 DEF HasField
    <3> HIDE DEF m, n
    <3> QED
      BY <3>1, NextIndex
  <2>2. CASE turn \in {"value", "skip", "chunks", "skip chunks", "actual"}
    BY <1>1, <2>2 DEF ReadingAt, AtValue, AtChunk, AtSkipped, AtActual
  <2> QED
    BY <2>1, <2>2
<1>4. Field = message[m + 1]
  BY DEF Field
<1>5. Field.kind \in Kinds
  BY <1>1, <1>3, <1>4, MessageIs
<1>6. (m + 1) - 1 = m /\ m < n
  <2>1. m \in Nat /\ n \in Nat
    BY <1>2
  <2> HIDE DEF m, n
  <2> QED
    BY <1>3, <2>1, NextIndex
<1> QED
  BY <1>1, <1>2, <1>3, <1>4, <1>5, <1>6

\* A number is read and is the one that was written.
LEMMA ReadNumberInv ==
  ASSUME NEW parts, Reading(parts), ReadNumber
  PROVE  PacketsInv'
<1> DEFINE k == Len(answers) + 1
           i == ReadInteger(reader, message[k].kind = "signed")
<1>1. turn = "field" /\ HasField /\ IsNumber(message[k]) /\ answers' = Append(answers, Done(i.number)) /\ Onward(i.reader, "field")
      /\ chunk' = chunk
  BY DEF ReadNumber, Field
<1>2. /\ IsMessage /\ IsAnswer /\ IsReceived(parts) /\ AnswersAre /\ Len(answers) \in Nat /\ k \in 1 .. Len(message)
      /\ k - 1 = Len(answers) /\ Len(answers) < Len(message)
  BY <1>1, NextField
<1>3. AtField(parts, reader, k - 1)
  BY <1>1, <1>2 DEF Reading, ReadingAt
<1> HIDE DEF k
<1>4. i.number = Meant(k) /\ AtField(parts, i.reader, k) /\ Meant(k) \in Int
  BY <1>1, <1>2, <1>3, NumberAt
<1> HIDE DEF i
<1>5. reader' = i.reader /\ turn' = "field" /\ UNCHANGED <<message, queue, packets, buffered, incoming>>
  BY <1>1, <1>4, OnwardIs DEF AtField
<1>6. Done(i.number) \in AnswerSet /\ Done(i.number).value = Meant(k)
  BY <1>4 DEF Done, AnswerSet
<1>7. AnswersAre' /\ Len(answers') = k
  BY <1>1, <1>2, <1>5, <1>6, AnswerMore DEF k
<1>8. ReadingAt(parts, i.reader, "field", chunk, k)
  BY <1>4 DEF ReadingAt
<1> QED
  BY <1>1, <1>5, <1>7, <1>8, Onwards

\* A value that is a copy.
CopyOf(r, b) == [r EXCEPT !.out = b, !.inScratch = FALSE]

\* It is behind the same bytes.
LEMMA CopyIs ==
  ASSUME NEW r, IsReader(r), NEW b \in Bytes
  PROVE  IsReader(CopyOf(r, b)) /\ Ahead(CopyOf(r, b)) = Ahead(r) /\ HoldsValue(CopyOf(r, b), b)
<1> DEFINE s == CopyOf(r, b)
<1>1. r \in [taken : Nat, pos : Nat, scratch : Bytes, out : Bytes, inScratch : BOOLEAN, err : {FALSE}]
  BY DEF IsReader
<1>2. /\ s \in [taken : Nat, pos : Nat, scratch : Bytes, out : Bytes, inScratch : BOOLEAN, err : {FALSE}]
      /\ s.taken = r.taken /\ s.pos = r.pos /\ s.out = b /\ s.inScratch = FALSE
  BY <1>1 DEF CopyOf
<1> HIDE DEF s
<1>3. IsReader(s) /\ Ahead(s) = Ahead(r)
  BY <1>2 DEF IsReader, Ahead
<1>4. HoldsValue(s, b)
  BY <1>2 DEF HoldsValue
<1> QED
  BY <1>3, <1>4 DEF s

\* A whole value is there: it is an answer, or the actual length is next.
LEMMA DeliverInv ==
  ASSUME NEW parts, Reading(parts), turn \in {"value", "skip", "chunks", "skip chunks", "actual"} \/ HasField,
         ~ IsNumber(Field), NEW r, Deliver(r), IsReader(r),
         HoldsValue(r, Meant(Len(answers) + 1)), After(parts, Len(answers) + 1, Ahead(r))
  PROVE  PacketsInv'
<1> DEFINE k == Len(answers) + 1
<1>1. /\ IsMessage /\ IsAnswer /\ IsReceived(parts) /\ AnswersAre /\ Len(answers) \in Nat /\ k \in 1 .. Len(message)
      /\ k - 1 = Len(answers) /\ Len(answers) < Len(message) /\ Field = message[k]
  BY NextField
<1>2. Meant(k) \in Bytes /\ r.out = Meant(k)
  BY <1>1, MeantIs DEF HoldsValue
<1>3. CASE Field.kind = "out"
  <2>1. Onward(r, "actual") /\ answers' = answers
    BY <1>3 DEF Deliver
  <2>2. reader' = r /\ turn' = "actual" /\ UNCHANGED <<message, queue, packets, buffered, incoming>>
    BY <2>1, OnwardIs
  <2>3. AnswersAre' /\ Len(answers') = Len(answers)
    BY <1>1, <2>1, <2>2, AnswersStay
  <2>4. AtActual(parts, r, k)
    BY <1>1, <1>3 DEF AtActual
  <2>5. ReadingAt(parts, r, "actual", chunk', Len(answers))
    BY <2>4 DEF ReadingAt
  <2> QED
    BY <2>2, <2>3, <2>5, Onwards
<1>4. CASE Field.kind # "out"
  <2>1. Onward(r, "field") /\ answers' = Append(answers, Done(r.out))
    BY <1>4 DEF Deliver
  <2>2. reader' = r /\ turn' = "field" /\ UNCHANGED <<message, queue, packets, buffered, incoming>>
    BY <2>1, OnwardIs
  <2>3. Done(r.out) \in AnswerSet /\ Done(r.out).value = Meant(k)
    BY <1>2 DEF Done, AnswerSet
  <2>4. AnswersAre' /\ Len(answers') = k
    BY <1>1, <2>1, <2>2, <2>3, AnswerMore
  <2>5. Ahead(r) = Following(parts, k)
    BY <1>1, <1>4 DEF After
  <2>6. k \in 0 .. Len(message)
    <3>1. Len(message) \in Nat
      BY <1>1, MessageIs
    <3> HIDE DEF k
    <3> QED
      BY <1>1, <3>1, NextIndex
  <2>7. AtField(parts, r, k)
    BY <2>5, <2>6 DEF AtField
  <2>8. ReadingAt(parts, r, "field", chunk', k)
    BY <2>7 DEF ReadingAt
  <2> QED
    BY <2>2, <2>4, <2>8, Onwards
<1> QED
  BY <1>3, <1>4

\* A NULL is its mark.
LEMMA NullAt ==
  ASSUME IsMessage, IsAnswer, NEW parts, IsReceived(parts), NEW k \in 1 .. Len(message), NEW r,
         AtField(parts, r, k - 1), message[k].kind = "null"
  PROVE  /\ IsReader(getRaw(r, 1)) /\ getRaw(r, 1).out[1] = NullLength /\ After(parts, k, Ahead(getRaw(r, 1)))
         /\ Meant(k) = <<>>
<1>1. parts[k] = <<NullLength>> /\ Meant(k) = <<>>
  BY PartIs, MeantIs
<1>2. Following(parts, k) \in Bytes /\ Following(parts, k - 1) = parts[k] \o Following(parts, k)
  BY FollowingIs
<1>3. NullLength \in Octet
  BY SizesAre DEF Octet
<1>4. ReadsByte(r, NullLength, Following(parts, k))
  BY <1>1, <1>2, <1>3 DEF ReadsByte, AtField
<1>5. IsReader(getRaw(r, 1)) /\ getRaw(r, 1).out[1] = NullLength /\ Ahead(getRaw(r, 1)) = Following(parts, k)
  BY <1>4, OneByte
<1> QED
  BY <1>1, <1>2, <1>5 DEF After

\* A NULL, a short value, or the beginning of a long one.
LEMMA BeginValueInv ==
  ASSUME NEW parts, Reading(parts), BeginValue
  PROVE  PacketsInv'
<1> DEFINE k == Len(answers) + 1
           b == Meant(k)
           g == getRaw(reader, 1)
           n == g.out[1]
<1>1. (turn = "field" /\ HasField /\ Field.kind \in {"value", "out", "null"}) \/ turn = "value"
  BY DEF BeginValue
<1>2. /\ IsMessage /\ IsAnswer /\ IsReceived(parts) /\ AnswersAre /\ Len(answers) \in Nat /\ k \in 1 .. Len(message)
      /\ k - 1 = Len(answers) /\ Len(answers) < Len(message) /\ Field = message[k]
  BY <1>1, NextField
<1>3. /\ n \in {0, NullLength} => Deliver(CopyOf(g, <<>>))
      /\ ~ n \in {0, NullLength} /\ n = LongLength => Onward(g, "chunks") /\ answers' = answers
      /\ ~ n \in {0, NullLength} /\ n # LongLength => Deliver(getRaw(g, n))
  <2>1. (CASE n \in {0, NullLength} -> Deliver(CopyOf(g, <<>>))
           [] n = LongLength -> Onward(g, "chunks") /\ UNCHANGED answers
           [] OTHER -> Deliver(getRaw(g, n)))
    BY Zenon DEF BeginValue, CopyOf
  <2>2. NullLength # LongLength /\ LongLength # 0
    BY SizesAre
  <2>3. ~ (n \in {0, NullLength} /\ n = LongLength)
    BY <2>2
  <2> HIDE DEF g, n
  <2> QED
    BY <2>1, <2>3
<1>4. chunk' = <<>>
  BY DEF BeginValue
<1>5. turn \in {"value", "skip", "chunks", "skip chunks", "actual"} \/ HasField
  BY <1>1
<1>6. \/ AtField(parts, reader, k - 1) /\ Field.kind \in {"value", "out", "null"}
      \/ AtValue(parts, reader, k)
  BY <1>1, <1>2 DEF Reading, ReadingAt
<1>7. <<>> \in Bytes
  BY BytesJoin
<1>8. CASE AtField(parts, reader, k - 1) /\ Field.kind = "null"
  <2>1. IsReader(g) /\ n = NullLength /\ After(parts, k, Ahead(g)) /\ b = <<>>
    BY <1>2, <1>8, NullAt
  <2>2. Deliver(CopyOf(g, <<>>))
    BY <1>3, <2>1
  <2>3. ~ IsNumber(Field)
    BY <1>8 DEF IsNumber
  <2> HIDE DEF g
  <2>4. IsReader(CopyOf(g, <<>>)) /\ Ahead(CopyOf(g, <<>>)) = Ahead(g) /\ HoldsValue(CopyOf(g, <<>>), <<>>)
    BY <1>7, <2>1, CopyIs
  <2> QED
    BY <1>5, <2>1, <2>2, <2>3, <2>4, DeliverInv
<1>9. CASE (AtField(parts, reader, k - 1) /\ Field.kind \in {"value", "out"}) \/ AtValue(parts, reader, k)
  <2>1. PICK w : After(parts, k, w) /\ ReadsValue(reader, b, w)
    BY <1>2, <1>9, ValueAt
  <2>2. Field.kind \in {"value", "out", "sized"}
    BY <1>2, <1>9, ValueAt
  <2>3. ~ IsNumber(Field)
    BY <2>2 DEF IsNumber
  <2>4. b \in Bytes
    BY <2>1 DEF ReadsValue
  <2>5. CASE Len(b) <= MaxShortLength
    <3>1. IsReader(g) /\ n = Len(b) /\ Reads(g, Len(b), b, w)
      BY <1>2, <2>1, <2>5, LengthRead
    <3>2. Len(b) \in Nat /\ Len(b) # NullLength /\ Len(b) # LongLength
      BY <2>4, <2>5, BytesJoin, SizesAre
    <3>3. CASE Len(b) = 0
      <4>1. b = <<>> /\ Deliver(CopyOf(g, <<>>))
        BY <1>3, <2>4, <3>1, <3>3, BytesJoin
      <4>2. Ahead(g) = w
        <5>1. Ahead(g) = b \o w /\ w \in Bytes
          BY <3>1 DEF Reads
        <5> QED
          BY <4>1, <5>1, BytesJoin
      <4> HIDE DEF g
      <4>3. IsReader(CopyOf(g, <<>>)) /\ Ahead(CopyOf(g, <<>>)) = Ahead(g) /\ HoldsValue(CopyOf(g, <<>>), <<>>)
        BY <1>7, <3>1, CopyIs
      <4> QED
        BY <1>5, <2>1, <2>3, <4>1, <4>2, <4>3, DeliverInv
    <3>4. CASE Len(b) # 0
      <4> DEFINE s == getRaw(g, Len(b))
      <4>1. Deliver(s)
        <5>1. ~ n \in {0, NullLength} /\ n # LongLength
          BY <3>1, <3>2, <3>4
        <5>2. Deliver(getRaw(g, n))
          BY <1>3, <5>1
        <5> QED
          BY <3>1, <5>2
      <4>2. IsReader(s) /\ s.out = b /\ Ahead(s) = w /\ (s.inScratch => SubSeq(s.scratch, 1, Len(b)) = b)
        BY <1>2, <3>1, GetRawIs
      <4> HIDE DEF s
      <4>3. HoldsValue(s, b)
        BY <2>5, <4>2 DEF HoldsValue
      <4> QED
        BY <1>5, <2>1, <2>3, <4>1, <4>2, <4>3, DeliverInv
    <3> QED
      BY <3>3, <3>4
  <2>6. CASE ~ Len(b) <= MaxShortLength
    <3>1. n = LongLength /\ ReadsChunks(g, b, 0, w)
      BY <1>2, <2>1, <2>6, LongRead
    <3>2. ~ n \in {0, NullLength}
      BY <3>1, SizesAre
    <3>3. Onward(g, "chunks") /\ answers' = answers
      BY <1>3, <3>1, <3>2
    <3> HIDE DEF g
    <3>4. reader' = g /\ turn' = "chunks" /\ UNCHANGED <<message, queue, packets, buffered, incoming>>
      BY <3>1, <3>3, OnwardIs DEF ReadsChunks
    <3>5. AnswersAre' /\ Len(answers') = Len(answers)
      BY <1>2, <3>3, <3>4, AnswersStay
    <3>6. SubSeq(b, 1, ChunkEnd(b, 0)) = <<>>
      <4>1. ChunkEnd(b, 0) = 0
        BY <2>4, ChunkEnds
      <4> QED
        BY <2>4, <4>1 DEF Bytes
    <3>7. AtChunk(parts, g, k, <<>>)
      BY <1>2, <2>1, <2>2, <3>1, <3>6 DEF AtChunk
    <3>8. ReadingAt(parts, g, "chunks", <<>>, Len(answers))
      BY <3>7 DEF ReadingAt
    <3> QED
      BY <1>4, <3>4, <3>5, <3>8, Onwards
  <2> QED
    BY <2>5, <2>6
<1> QED
  BY <1>6, <1>8, <1>9

\* One chunk more, or the end of a long value.
LEMMA NextChunkInv ==
  ASSUME NEW parts, Reading(parts), NextChunk
  PROVE  PacketsInv'
<1> DEFINE k == Len(answers) + 1
           b == Meant(k)
           i == ReadInteger(reader, FALSE)
           s == getRaw(i.reader, i.number)
<1>1. turn = "chunks"
  BY DEF NextChunk
<1>2. /\ i.number = 0 => Deliver(CopyOf(i.reader, chunk)) /\ chunk' = chunk
      /\ i.number # 0 => chunk' = chunk \o s.out /\ Onward(s, "chunks") /\ answers' = answers
  <2>1. IF i.number = 0 THEN Deliver(CopyOf(i.reader, chunk)) /\ UNCHANGED chunk
        ELSE \E part \in {s} : chunk' = chunk \o part.out /\ Onward(part, "chunks") /\ UNCHANGED answers
    BY Zenon DEF NextChunk, CopyOf
  <2> HIDE DEF i, s
  <2> QED
    BY <2>1
<1>3. /\ IsMessage /\ IsAnswer /\ IsReceived(parts) /\ AnswersAre /\ Len(answers) \in Nat /\ k \in 1 .. Len(message)
      /\ k - 1 = Len(answers) /\ Len(answers) < Len(message) /\ Field = message[k]
  BY <1>1, NextField
<1>4. AtChunk(parts, reader, k, chunk)
  BY <1>1 DEF Reading, ReadingAt
<1>5. PICK c, w : After(parts, k, w) /\ ReadsChunks(reader, b, c, w) /\ chunk = SubSeq(b, 1, ChunkEnd(b, c))
  BY <1>4 DEF AtChunk
<1>6. b \in Bytes /\ c \in 0 .. ChunkCount(b)
  BY <1>5 DEF ReadsChunks
<1>7. Field.kind \in {"value", "out", "sized"} /\ ~ IsNumber(Field)
  BY <1>3, <1>4 DEF AtChunk, IsNumber
<1>8. CASE c = ChunkCount(b)
  <2>1. i.number = 0 /\ IsReader(i.reader) /\ Ahead(i.reader) = w /\ chunk = b
    BY <1>3, <1>5, <1>8, LastChunk
  <2>2. Deliver(CopyOf(i.reader, b))
    BY <1>2, <2>1
  <2> DEFINE r == CopyOf(i.reader, b)
  <2>3. IsReader(r) /\ Ahead(r) = w /\ HoldsValue(r, b)
    BY <1>6, <2>1, CopyIs
  <2>4. turn \in {"value", "skip", "chunks", "skip chunks", "actual"} \/ HasField
    BY <1>1
  <2> HIDE DEF r
  <2>5. Deliver(r)
    BY <2>2 DEF r
  <2>6. After(parts, k, Ahead(r))
    BY <1>5, <2>3
  <2> QED
    BY <1>7, <2>3, <2>4, <2>5, <2>6, DeliverInv
<1>9. CASE c # ChunkCount(b)
  <2>1. /\ IsReader(i.reader) /\ i.number # 0 /\ ReadsChunks(s, b, c + 1, w)
        /\ SubSeq(b, 1, ChunkEnd(b, c)) \o s.out = SubSeq(b, 1, ChunkEnd(b, c + 1))
    BY <1>3, <1>5, <1>9, ChunkRead
  <2> HIDE DEF s, i
  <2>2. chunk' = SubSeq(b, 1, ChunkEnd(b, c + 1)) /\ Onward(s, "chunks") /\ answers' = answers
    BY <1>2, <1>5, <2>1
  <2>3. reader' = s /\ turn' = "chunks" /\ UNCHANGED <<message, queue, packets, buffered, incoming>>
    BY <2>1, <2>2, OnwardIs DEF ReadsChunks
  <2>4. AnswersAre' /\ Len(answers') = Len(answers)
    BY <1>3, <2>2, <2>3, AnswersStay
  <2>5. AtChunk(parts, s, k, chunk')
    BY <1>3, <1>5, <1>7, <2>1, <2>2 DEF AtChunk
  <2>6. ReadingAt(parts, s, "chunks", chunk', Len(answers))
    BY <2>5 DEF ReadingAt
  <2> QED
    BY <2>3, <2>4, <2>6, Onwards
<1> QED
  BY <1>8, <1>9

\* The actual length of an OUT bind, behind which its slice is copied.
LEMMA ReadActualInv ==
  ASSUME NEW parts, Reading(parts), ReadActual
  PROVE  PacketsInv'
<1> DEFINE k == Len(answers) + 1
           i == ReadInteger(reader, TRUE)
           v == Later(reader, i.reader)
<1>1. turn = "actual" /\ answers' = Append(answers, Done(v)) /\ Onward(i.reader, "field")
  BY DEF ReadActual
<1>2. /\ IsMessage /\ IsAnswer /\ IsReceived(parts) /\ AnswersAre /\ Len(answers) \in Nat /\ k \in 1 .. Len(message)
      /\ k - 1 = Len(answers) /\ Len(answers) < Len(message) /\ Field = message[k]
  BY <1>1, NextField
<1>3. AtActual(parts, reader, k)
  BY <1>1 DEF Reading, ReadingAt
<1>4. v = Meant(k) /\ AtField(parts, i.reader, k)
  BY <1>2, <1>3, ActualAt
<1>5. Meant(k) \in Bytes
  BY <1>2, <1>3, MeantIs DEF AtActual, IsNumber
<1> HIDE DEF v, i
<1>6. reader' = i.reader /\ turn' = "field" /\ UNCHANGED <<message, queue, packets, buffered, incoming>>
  BY <1>1, <1>4, OnwardIs DEF AtField
<1>7. Done(v) \in AnswerSet /\ Done(v).value = Meant(k)
  BY <1>4, <1>5 DEF Done, AnswerSet
<1>8. AnswersAre' /\ Len(answers') = k
  BY <1>1, <1>2, <1>6, <1>7, AnswerMore
<1>9. ReadingAt(parts, i.reader, "field", chunk', k)
  BY <1>4 DEF ReadingAt
<1> QED
  BY <1>6, <1>8, <1>9, Onwards

\* The first of two lengths.
LEMMA ReadSizeInv ==
  ASSUME NEW parts, Reading(parts), ReadSize
  PROVE  PacketsInv'
<1> DEFINE k == Len(answers) + 1
           i == ReadInteger(reader, FALSE)
<1>1. turn = "field" /\ HasField /\ Field.kind = "sized"
  BY DEF ReadSize
<1>2. IF i.number > 0
      THEN (\E next \in {"value", "skip"} : Onward(i.reader, next)) /\ UNCHANGED answers
      ELSE answers' = Append(answers, Done(<<>>)) /\ Onward(i.reader, "field")
  BY Zenon DEF ReadSize
<1>3. /\ IsMessage /\ IsAnswer /\ IsReceived(parts) /\ AnswersAre /\ Len(answers) \in Nat /\ k \in 1 .. Len(message)
      /\ k - 1 = Len(answers) /\ Len(answers) < Len(message) /\ Field = message[k]
  BY <1>1, NextField
<1>4. AtField(parts, reader, k - 1)
  BY <1>1, <1>3 DEF Reading, ReadingAt
<1>5. /\ i.number > 0 => AtValue(parts, i.reader, k)
      /\ ~ i.number > 0 => AtField(parts, i.reader, k) /\ Meant(k) = <<>>
      /\ IsReader(i.reader)
  BY <1>1, <1>3, <1>4, SizeAt
<1> HIDE DEF i
<1>6. CASE i.number > 0
  <2>1. PICK next \in {"value", "skip"} : Onward(i.reader, next)
    BY <1>2, <1>6
  <2>2. answers' = answers
    BY <1>2, <1>6
  <2>3. reader' = i.reader /\ turn' = next /\ UNCHANGED <<message, queue, packets, buffered, incoming>>
    BY <1>5, <2>1, OnwardIs
  <2>4. AnswersAre' /\ Len(answers') = Len(answers)
    BY <1>3, <2>2, <2>3, AnswersStay
  <2>5. ReadingAt(parts, i.reader, next, chunk', Len(answers))
    BY <1>5, <1>6 DEF ReadingAt
  <2> QED
    BY <2>3, <2>4, <2>5, Onwards
<1>7. CASE ~ i.number > 0
  <2>1. answers' = Append(answers, Done(<<>>)) /\ Onward(i.reader, "field")
    BY <1>2, <1>7
  <2>2. reader' = i.reader /\ turn' = "field" /\ UNCHANGED <<message, queue, packets, buffered, incoming>>
    BY <1>5, <2>1, OnwardIs
  <2>3. Done(<<>>) \in AnswerSet /\ Done(<<>>).value = Meant(k)
    <3>1. <<>> \in Bytes
      BY BytesJoin
    <3> QED
      BY <1>5, <1>7, <3>1 DEF Done, AnswerSet
  <2>4. AnswersAre' /\ Len(answers') = k
    BY <1>3, <2>1, <2>2, <2>3, AnswerMore
  <2>5. ReadingAt(parts, i.reader, "field", chunk', k)
    BY <1>5, <1>7 DEF ReadingAt
  <2> QED
    BY <2>2, <2>4, <2>5, Onwards
<1> QED
  BY <1>6, <1>7

\* What is skipped is not compared.
LEMMA SkippedIs == Skipped \in AnswerSet /\ Skipped.skipped
<1>1. <<>> \in Bytes
  BY BytesJoin
<1> QED
  BY <1>1 DEF Skipped, AnswerSet

\* A value is skipped.
LEMMA SkipInv ==
  ASSUME NEW parts, Reading(parts), turn \in {"value", "skip", "chunks", "skip chunks", "actual"} \/ HasField,
         NEW r, IsReader(r), Ahead(r) = Following(parts, Len(answers) + 1),
         answers' = Append(answers, Skipped), Onward(r, "field")
  PROVE  PacketsInv'
<1> DEFINE k == Len(answers) + 1
<1>1. /\ IsMessage /\ IsAnswer /\ IsReceived(parts) /\ AnswersAre /\ Len(answers) \in Nat /\ k \in 1 .. Len(message)
      /\ k - 1 = Len(answers) /\ Len(answers) < Len(message) /\ Field = message[k]
  BY NextField
<1>2. reader' = r /\ turn' = "field" /\ UNCHANGED <<message, queue, packets, buffered, incoming>>
  BY OnwardIs
<1>3. AnswersAre' /\ Len(answers') = k
  BY <1>1, <1>2, SkippedIs, AnswerMore
<1>4. k \in 0 .. Len(message)
  <2>1. Len(message) \in Nat
    BY <1>1, MessageIs
  <2> HIDE DEF k
  <2> QED
    BY <1>1, <2>1, NextIndex
<1>5. ReadingAt(parts, r, "field", chunk', k)
  BY <1>4 DEF ReadingAt, AtField
<1> QED
  BY <1>2, <1>3, <1>5, Onwards

\* A short value is skipped, or the mark of a long one,
LEMMA BeginSkipInv ==
  ASSUME NEW parts, Reading(parts), BeginSkip
  PROVE  PacketsInv'
<1> DEFINE k == Len(answers) + 1
           b == Meant(k)
           g == getRaw(reader, 1)
           n == g.out[1]
<1>1. (turn = "field" /\ HasField /\ Field.kind = "value") \/ turn = "skip"
  BY DEF BeginSkip
<1>2. /\ IsMessage /\ IsAnswer /\ IsReceived(parts) /\ AnswersAre /\ Len(answers) \in Nat /\ k \in 1 .. Len(message)
      /\ k - 1 = Len(answers) /\ Len(answers) < Len(message) /\ Field = message[k]
  BY <1>1, NextField
<1>3. /\ n = LongLength => Onward(g, "skip chunks") /\ answers' = answers
      /\ n # LongLength => answers' = Append(answers, Skipped) /\ Onward(SkipRawBytes(g, n), "field")
  <2>1. IF n = LongLength THEN Onward(g, "skip chunks") /\ UNCHANGED answers
        ELSE answers' = Append(answers, Skipped) /\ Onward(SkipRawBytes(g, n), "field")
    BY Zenon DEF BeginSkip
  <2> HIDE DEF g, n
  <2> QED
    BY <2>1
<1>4. turn \in {"value", "skip", "chunks", "skip chunks", "actual"} \/ HasField
  BY <1>1
<1>5. \/ AtField(parts, reader, k - 1) /\ Field.kind \in {"value", "out"}
      \/ AtValue(parts, reader, k)
  BY <1>1, <1>2 DEF Reading, ReadingAt
<1>6. Field.kind \in {"value", "sized"}
  BY <1>1, <1>2 DEF Reading, ReadingAt, AtValue
<1> DEFINE w == Following(parts, k)
<1>7. ReadsValue(reader, b, w)
  <2>1. PICK q : After(parts, k, q) /\ ReadsValue(reader, b, q)
    BY <1>2, <1>5, ValueAt
  <2>2. q = w
    BY <1>2, <1>6, <2>1 DEF After
  <2> QED
    BY <2>1, <2>2
<1>8. b \in Bytes
  BY <1>7 DEF ReadsValue
<1>9. CASE Len(b) <= MaxShortLength
  <2>1. n = Len(b) /\ Reads(g, Len(b), b, w)
    BY <1>2, <1>7, <1>9, LengthRead
  <2>2. Len(b) # LongLength
    BY <1>8, <1>9, BytesJoin, SizesAre
  <2> DEFINE s == SkipRawBytes(g, Len(b))
  <2>3. answers' = Append(answers, Skipped) /\ Onward(s, "field")
    <3>1. answers' = Append(answers, Skipped) /\ Onward(SkipRawBytes(g, n), "field")
      BY <1>3, <2>1, <2>2
    <3> QED
      BY <2>1, <3>1
  <2>4. IsReader(s) /\ Ahead(s) = w
    BY <1>2, <2>1, SkipIs
  <2> HIDE DEF s
  <2> QED
    BY <1>4, <2>3, <2>4, SkipInv
<1>10. CASE ~ Len(b) <= MaxShortLength
  <2>1. n = LongLength /\ ReadsChunks(g, b, 0, w)
    BY <1>2, <1>7, <1>10, LongRead
  <2>2. Onward(g, "skip chunks") /\ answers' = answers
    BY <1>3, <2>1
  <2> HIDE DEF g
  <2>3. reader' = g /\ turn' = "skip chunks" /\ UNCHANGED <<message, queue, packets, buffered, incoming>>
    BY <2>1, <2>2, OnwardIs DEF ReadsChunks
  <2>4. AnswersAre' /\ Len(answers') = Len(answers)
    BY <1>2, <2>2, <2>3, AnswersStay
  <2>5. ReadingAt(parts, g, "skip chunks", chunk', Len(answers))
    BY <1>2, <1>6, <2>1 DEF ReadingAt, AtSkipped
  <2> QED
    BY <2>3, <2>4, <2>5, Onwards
<1> QED
  BY <1>9, <1>10

\* and its chunks one by one.
LEMMA SkipChunkInv ==
  ASSUME NEW parts, Reading(parts), SkipChunk
  PROVE  PacketsInv'
<1> DEFINE k == Len(answers) + 1
           b == Meant(k)
           w == Following(parts, k)
           i == ReadInteger(reader, FALSE)
           s == SkipRawBytes(i.reader, i.number)
<1>1. turn = "skip chunks"
  BY DEF SkipChunk
<1>2. IF i.number > 0 THEN Onward(s, "skip chunks") /\ UNCHANGED answers
      ELSE answers' = Append(answers, Skipped) /\ Onward(i.reader, "field")
  BY Zenon DEF SkipChunk
<1>3. /\ IsMessage /\ IsAnswer /\ IsReceived(parts) /\ AnswersAre /\ Len(answers) \in Nat /\ k \in 1 .. Len(message)
      /\ k - 1 = Len(answers) /\ Len(answers) < Len(message) /\ Field = message[k]
  BY <1>1, NextField
<1>4. AtSkipped(parts, reader, k)
  BY <1>1 DEF Reading, ReadingAt
<1>5. PICK c : ReadsChunks(reader, b, c, w)
  BY <1>4 DEF AtSkipped
<1>6. CASE c = ChunkCount(b)
  <2>1. i.number = 0 /\ IsReader(i.reader) /\ Ahead(i.reader) = w
    BY <1>3, <1>5, <1>6, LastChunk
  <2> HIDE DEF i, s
  <2>2. ~ i.number > 0
    BY <2>1
  <2>3. answers' = Append(answers, Skipped) /\ Onward(i.reader, "field")
    BY <1>2, <2>2
  <2>4. turn \in {"value", "skip", "chunks", "skip chunks", "actual"} \/ HasField
    BY <1>1
  <2> QED
    BY <2>1, <2>3, <2>4, SkipInv
<1>7. CASE c # ChunkCount(b)
  <2>1. i.number \in Nat /\ i.number # 0 /\ ReadsChunks(s, b, c + 1, w)
    BY <1>3, <1>5, <1>7, ChunkRead
  <2> HIDE DEF i, s
  <2>2. i.number > 0
    BY <2>1
  <2>3. Onward(s, "skip chunks") /\ answers' = answers
    BY <1>2, <2>2
  <2>4. reader' = s /\ turn' = "skip chunks" /\ UNCHANGED <<message, queue, packets, buffered, incoming>>
    BY <2>1, <2>3, OnwardIs DEF ReadsChunks
  <2>5. AnswersAre' /\ Len(answers') = Len(answers)
    BY <1>3, <2>3, <2>4, AnswersStay
  <2>6. AtSkipped(parts, s, k)
    BY <1>4, <2>1 DEF AtSkipped
  <2>7. ReadingAt(parts, s, "skip chunks", chunk', Len(answers))
    BY <2>6 DEF ReadingAt
  <2> QED
    BY <2>4, <2>5, <2>7, Onwards
<1> QED
  BY <1>6, <1>7

\* The answer stays what it is.
LEMMA ReceivedStays ==
  ASSUME NEW parts, IsReceived(parts), message' = message
  PROVE  IsReceived(parts)'
<1>1. \A i : Meant(i)' = Meant(i)
  BY DEF Meant
<1>2. \A i : Pieces(i)' = Pieces(i)
  BY <1>1 DEF Pieces
<1>3. \A i : Answered(i)' = Answered(i)
  BY <1>2 DEF Answered
<1> QED
  BY <1>3 DEF IsReceived

\* The server answers with bytes.
LEMMA AnsweredAre ==
  ASSUME IsMessage, NEW i \in 1 .. Len(message), NEW x \in Answered(i)
  PROVE  x \in Bytes
<1>1. Pieces(i) \in Seq(Piece)
  BY PiecesAre
<1>2. CASE message[i].kind = "out"
  <2>1. PICK n \in {0, message[i].n} : x = Joined(Pieces(i) \o WriteSB4(n))
    BY <1>2 DEF Answered
  <2>2. n \in UB4 /\ n \in Int
    BY <1>2, MeantIs, ZeroIs DEF UB4
  <2>3. WriteSB4(n) \in Seq(Piece)
    BY <2>2, SignedWritten
  <2>4. Pieces(i) \o WriteSB4(n) \in Seq(Piece)
    BY <1>1, <2>3
  <2> QED
    BY <2>1, <2>4, JoinedType
<1>3. CASE message[i].kind = "null"
  <2>1. x = <<NullLength>> /\ NullLength \in Octet
    BY <1>3, SizesAre DEF Answered, Octet
  <2> QED
    BY <2>1, ByteIs
<1>4. CASE ~ message[i].kind \in {"out", "null"}
  <2>1. x = Joined(Pieces(i))
    BY <1>4 DEF Answered
  <2> QED
    BY <1>1, <2>1, JoinedType
<1> QED
  BY <1>2, <1>3, <1>4

\* The server answers with what it was sent.
LEMMA AnswerInv ==
  ASSUME IsMessage, WriterInv, AnswersAre, answers = <<>>, reader = NoReader, Answer
  PROVE  PacketsInv'
<1> DEFINE n == Len(message)
<1>1. turn' = "field" /\ UNCHANGED <<message, queue, packets, buffered, reader, chunk, answers>>
  BY DEF Answer
<1>2. n \in Nat /\ DOMAIN message = 1 .. n
  BY MessageIs
<1>3. PICK parts \in [DOMAIN message -> UNION {Answered(i) : i \in DOMAIN message}] :
             /\ \A i \in DOMAIN message : parts[i] \in Answered(i)
             /\ \E ends \in Ends(FlattenSeq(parts)) : incoming' = CutAt(FlattenSeq(parts), ends)
  BY DEF Answer
<1> DEFINE b == FlattenSeq(parts)
<1>4. parts \in Seq(Bytes) /\ Len(parts) = n /\ \A i \in 1 .. n : parts[i] \in Answered(i)
  <2>1. \A i \in 1 .. n : parts[i] \in Answered(i)
    BY <1>2, <1>3
  <2>2. \A i \in 1 .. n : parts[i] \in Bytes
    BY <2>1, AnsweredAre
  <2>3. DOMAIN parts = 1 .. n /\ parts = [i \in 1 .. n |-> parts[i]]
    BY <1>2, <1>3
  <2> HIDE DEF n
  <2>4. parts \in Seq(Bytes)
    BY <1>2, <2>2, <2>3, IsASeq
  <2>5. Len(parts) = n
    BY <1>2, <2>3, <2>4, LenProperties
  <2> QED
    BY <2>1, <2>4, <2>5
<1>5. b \in Bytes
  BY <1>4, FlattenType DEF Bytes
<1>6. PICK ends \in Ends(b) : incoming' = CutAt(b, ends)
  BY <1>3
<1>7. /\ incoming' \in Seq(Bytes) /\ incoming' # <<>> /\ FlattenSeq(incoming') = b
      /\ \A i \in 1 .. Len(incoming') : incoming'[i] # <<>>
  <2> HIDE DEF b
  <2> QED
    BY <1>5, <1>6, CutAtIs
<1>8. IsAnswer'
  BY <1>7 DEF IsAnswer
<1>9. IsReceived(parts)' /\ IsMessage' /\ PacketsAreSent' /\ AnswersAre'
  <2>1. IsReceived(parts)'
    <3>1. IsReceived(parts)
      BY <1>4 DEF IsReceived
    <3> QED
      BY <1>1, <3>1, ReceivedStays
  <2>2. IsMessage' /\ PacketsAreSent'
    BY <1>1 DEF IsMessage, WriterInv, PacketsAreSent
  <2>3. AnswersAre'
    BY <1>1, AnswersStay
  <2> QED
    BY <2>1, <2>2, <2>3
<1>10. IsReader(reader)'
  <2>1. reader' = NoReader
    BY <1>1
  <2>2. /\ NoReader \in [taken : Nat, pos : Nat, scratch : Bytes, out : Bytes, inScratch : BOOLEAN, err : {FALSE}]
        /\ NoReader.taken = 0 /\ NoReader.pos = 0
    BY BytesJoin DEF NoReader
  <2>3. IsPlace(0, 0)'
    <3>1. Len(incoming') \in Nat
      BY <1>7
    <3> QED
      BY <3>1 DEF IsPlace
  <2> QED
    BY <2>1, <2>2, <2>3 DEF IsReader
<1>11. (Ahead(reader))' = Following(parts, 0)
  <2>1. reader'.taken = 0 /\ reader'.pos = 0
    BY <1>1 DEF NoReader
  <2>2. SubSeq(incoming', 0 + 1, Len(incoming')) = incoming'
    BY <1>7, SubSeqFull
  <2>3. (RestAt(0, 0))' = <<>> \o b
    BY <1>7, <2>2 DEF RestAt
  <2>4. SubSeq(parts, 0 + 1, Len(parts)) = parts
    BY <1>4, SubSeqFull
  <2>5. Following(parts, 0) = b
    BY <2>4 DEF Following
  <2>6. (Ahead(reader))' = (RestAt(0, 0))'
    BY <2>1 DEF Ahead
  <2> HIDE DEF b
  <2> QED
    BY <1>5, <2>3, <2>5, <2>6, BytesJoin
<1>12. (Len(answers))' = 0 /\ 0 \in 0 .. Len(message')
  BY <1>1, <1>2
<1>13. AtField(parts, reader, Len(answers))'
  BY <1>10, <1>11, <1>12 DEF AtField
<1>14. ReadingAt(parts, reader, turn, chunk, Len(answers))'
  BY <1>1, <1>13 DEF ReadingAt
<1>15. Reading(parts)'
  BY <1>8, <1>9, <1>14 DEF Reading
<1> QED
  BY <1>15 DEF PacketsInv

\* Writing goes on.
LEMMA WritingInv ==
  ASSUME IsMessage, WriterInv', AnswersAre, answers = <<>>, reader = NoReader,
         message' = message, answers' = answers, reader' = reader, turn' \in {"write", "answer"}
  PROVE  PacketsInv'
<1>1. IsMessage' /\ AnswersAre'
  BY AnswersStay DEF IsMessage
<1> QED
  BY <1>1 DEF PacketsInv

\* All of the message is to be written.
LEMMA PacketsInitInv ==
  ASSUME PacketsInit
  PROVE  PacketsInv
<1>1. IsMessage /\ turn = "write" /\ queue = AllPieces /\ packets = <<>> /\ buffered = <<>> /\ reader = NoReader /\ answers = <<>>
  BY DEF PacketsInit, IsMessage, AllPieces
<1>2. AllPieces \in Seq(Piece) /\ AllPieces # <<>> /\ Joined(AllPieces) \in Bytes
  BY <1>1, AllPiecesAre, JoinedType
<1>3. <<>> \in Bytes /\ Len(<<>>) = 0 /\ 0 <= PacketSize /\ \A x \in Bytes : <<>> \o x = x
  BY BytesJoin, SizesAre
<1>4. PacketsAreSent
  BY <1>1 DEF PacketsAreSent
<1>5. FlattenSeq(packets) \o (buffered \o Joined(queue)) = Joined(AllPieces)
  BY <1>1, <1>2, <1>3, FlattenEmpty
<1>6. Writing
  BY <1>1, <1>2, <1>3, <1>5 DEF Writing
<1>7. WriterInv
  BY <1>1, <1>4, <1>6 DEF WriterInv
<1>8. AnswersAre
  <2>1. Len(message) \in Nat /\ Len(answers) = 0 /\ answers \in Seq(AnswerSet)
    BY <1>1, MessageIs
  <2> QED
    BY <2>1 DEF AnswersAre
<1> QED
  BY <1>1, <1>7, <1>8 DEF PacketsInv

\* Every step keeps the invariant.
LEMMA PacketsStepInv ==
  ASSUME PacketsInv, [PacketsNext]_packetsVars
  PROVE  PacketsInv'
<1>1. CASE IsMessage /\ WriterInv /\ AnswersAre /\ turn \in {"write", "answer"} /\ answers = <<>> /\ reader = NoReader
  <2>1. CASE SendPacket
    <3>1. WriterInv' /\ turn = "write" /\ turn' = turn /\ message' = message /\ answers' = answers /\ reader' = reader
      BY <1>1, <2>1, SendPacketWrites DEF SendPacket
    <3> QED
      BY <1>1, <3>1, WritingInv
  <2>2. CASE PutPiece
    <3>1. WriterInv' /\ turn = "write" /\ turn' = turn /\ message' = message /\ answers' = answers /\ reader' = reader
      BY <1>1, <2>2, PutPieceWrites DEF PutPiece
    <3> QED
      BY <1>1, <3>1, WritingInv
  <2>3. CASE PutRaw
    <3>1. WriterInv' /\ turn = "write" /\ turn' = turn /\ message' = message /\ answers' = answers /\ reader' = reader
      BY <1>1, <2>3, PutRawWrites DEF PutRaw
    <3> QED
      BY <1>1, <3>1, WritingInv
  <2>4. CASE EndRequest
    <3>1. WriterInv' /\ turn' = "answer" /\ message' = message /\ answers' = answers /\ reader' = reader
      BY <1>1, <2>4, EndRequestWrites DEF EndRequest
    <3> QED
      BY <1>1, <3>1, WritingInv
  <2>5. CASE Answer
    BY <1>1, <2>5, AnswerInv
  <2>6. CASE ReadNumber \/ BeginValue \/ NextChunk \/ ReadActual \/ ReadSize \/ BeginSkip \/ SkipChunk
    <3>1. turn \in {"field", "value", "chunks", "actual", "skip", "skip chunks"}
      BY <2>6 DEF ReadNumber, BeginValue, NextChunk, ReadActual, ReadSize, BeginSkip, SkipChunk
    <3> QED
      BY <1>1, <3>1
  <2>7. CASE UNCHANGED packetsVars
    <3>1. UNCHANGED <<message, turn, queue, packets, buffered, reader, answers>>
      BY <2>7 DEF packetsVars
    <3>2. WriterInv'
      BY <1>1, <3>1 DEF WriterInv, PacketsAreSent, Writing, AllPieces, Pieces, Meant
    <3> QED
      BY <1>1, <3>1, <3>2, WritingInv
  <2> QED
    BY <2>1, <2>2, <2>3, <2>4, <2>5, <2>6, <2>7 DEF PacketsNext
<1>2. ASSUME NEW parts, Reading(parts)
      PROVE  PacketsInv'
  <2>1. turn \in {"field", "value", "chunks", "actual", "skip", "skip chunks"}
    BY <1>2 DEF Reading, ReadingAt
  <2>2. CASE SendPacket \/ PutPiece \/ PutRaw \/ EndRequest \/ Answer
    <3>1. turn = "write" \/ turn = "answer"
      BY <2>2 DEF SendPacket, PutPiece, PutRaw, EndRequest, Answer
    <3> QED
      BY <2>1, <3>1
  <2>3. CASE ReadNumber
    BY <1>2, <2>3, ReadNumberInv
  <2>4. CASE BeginValue
    BY <1>2, <2>4, BeginValueInv
  <2>5. CASE NextChunk
    BY <1>2, <2>5, NextChunkInv
  <2>6. CASE ReadActual
    BY <1>2, <2>6, ReadActualInv
  <2>7. CASE ReadSize
    BY <1>2, <2>7, ReadSizeInv
  <2>8. CASE BeginSkip
    BY <1>2, <2>8, BeginSkipInv
  <2>9. CASE SkipChunk
    BY <1>2, <2>9, SkipChunkInv
  <2>10. CASE UNCHANGED packetsVars
    <3>1. UNCHANGED <<message, queue, packets, buffered, incoming>> /\ reader' = reader /\ turn' = turn /\ chunk' = chunk /\ answers' = answers
      BY <2>10 DEF packetsVars
    <3>2. AnswersAre' /\ Len(answers') = Len(answers)
      BY <1>2, <3>1, AnswersStay DEF Reading
    <3>3. ReadingAt(parts, reader, turn, chunk, Len(answers))
      BY <1>2 DEF Reading
    <3> QED
      BY <1>2, <3>1, <3>2, <3>3, Onwards
  <2> QED
    BY <2>2, <2>3, <2>4, <2>5, <2>6, <2>7, <2>8, <2>9, <2>10 DEF PacketsNext
<1> QED
  BY <1>1, <1>2 DEF PacketsInv

\* What was sent is the message, and what is left of the answer is that of the
\* fields to come, at every packet boundary.
THEOREM PacketsInvariance == PacketsSpec => []PacketsInv
<1>1. PacketsInit => PacketsInv
  BY PacketsInitInv
<1>2. PacketsInv /\ [PacketsNext]_packetsVars => PacketsInv'
  BY PacketsStepInv
<1> QED
  BY <1>1, <1>2, PTL DEF PacketsSpec

\* Nothing is left when the last field was read.
LEMMA ReadToTheEnd ==
  ASSUME IsAnswer, NEW r, IsReader(r), Ahead(r) = <<>>
  PROVE  r.taken = Len(incoming) /\ Left(r) = 0
<1> DEFINE h == Here(r.taken, r.pos)
           w == Behind(r.taken)
<1>1. /\ Left(r) \in Nat /\ Len(h) = Left(r) /\ r.taken \in Nat /\ r.taken <= Len(incoming) /\ Len(incoming) \in Nat
  BY LeftIs
<1>2. h \in Bytes /\ w \in Bytes /\ Ahead(r) = h \o w
  BY PlaceIs DEF IsReader, Ahead
<1>3. h = <<>> /\ w = <<>>
  <2> HIDE DEF h, w
  <2> QED
    BY <1>2, BytesJoin
<1>4. Left(r) = 0
  BY <1>1, <1>3
<1>5. r.taken = Len(incoming)
  <2> SUFFICES ASSUME r.taken # Len(incoming) PROVE FALSE
    OBVIOUS
  <2> DEFINE t == r.taken
             x == incoming[t + 1]
             y == Behind(t + 1)
  <2>1. t \in 0 .. Len(incoming) - 1
    BY <1>1
  <2>2. w = x \o y /\ x \in Bytes /\ x # <<>>
    BY <2>1, BehindIs
  <2>3. y \in Bytes
    <3>1. t + 1 \in 0 .. Len(incoming)
      BY <1>1, <2>1
    <3>2. IsPlace(t + 1, 0)
      <4>1. t + 1 \in 1 .. Len(incoming)
        BY <1>1, <2>1
      <4>2. Len(incoming[t + 1]) \in Nat
        BY <2>2, BytesJoin
      <4>3. 0 \in Nat /\ 0 <= Len(incoming[t + 1]) /\ ~ t + 1 = 0
        BY <1>1, <4>2
      <4> QED
        BY <3>1, <4>3 DEF IsPlace
    <3> QED
      BY <3>2, PlaceIs
  <2> HIDE DEF x, y, w
  <2> QED
    BY <1>3, <2>2, <2>3, BytesJoin
<1> QED
  BY <1>4, <1>5

\* The property from the invariant.
LEMMA SameMessageNow == ASSUME PacketsInv PROVE SameMessageBack
<1>1. CASE IsMessage /\ WriterInv /\ AnswersAre /\ turn \in {"write", "answer"} /\ answers = <<>> /\ reader = NoReader
  <2>1. \A i \in DOMAIN packets : packets[i] # <<>> /\ Len(packets[i]) <= PacketSize
    BY <1>1 DEF WriterInv, PacketsAreSent
  <2>2. turn = "answer" => FlattenSeq(packets) = Joined(FlattenSeq([i \in DOMAIN message |-> Pieces(i)]))
    BY <1>1 DEF WriterInv, AllPieces
  <2>3. turn # "failed" /\ turn # "field"
    BY <1>1
  <2>4. \A i \in DOMAIN answers : answers[i].skipped \/ answers[i].value = Meant(i)
    BY <1>1
  <2> QED
    BY <2>1, <2>2, <2>3, <2>4 DEF SameMessageBack
<1>2. ASSUME NEW parts, Reading(parts)
      PROVE  SameMessageBack
  <2>1. \A i \in DOMAIN packets : packets[i] # <<>> /\ Len(packets[i]) <= PacketSize
    BY <1>2 DEF Reading, PacketsAreSent
  <2>2. turn # "failed" /\ turn # "answer"
    BY <1>2 DEF Reading, ReadingAt
  <2>3. \A i \in DOMAIN answers : answers[i].skipped \/ answers[i].value = Meant(i)
    <3>1. answers \in Seq(AnswerSet) /\ \A i \in 1 .. Len(answers) : answers[i].skipped \/ answers[i].value = Meant(i)
      BY <1>2 DEF Reading, AnswersAre
    <3>2. DOMAIN answers = 1 .. Len(answers)
      BY <3>1, LenProperties
    <3> QED
      BY <3>1, <3>2
  <2>4. ASSUME turn = "field", ~ HasField
        PROVE  reader.taken = Len(incoming) /\ Left(reader) = 0
    <3> DEFINE m == Len(answers)
               n == Len(message)
    <3>1. IsMessage /\ IsAnswer /\ IsReceived(parts) /\ IsReader(reader) /\ Ahead(reader) = Following(parts, m) /\ m \in 0 .. n
      BY <1>2, <2>4 DEF Reading, ReadingAt, AtField
    <3>2. m = n
      <4>1. n \in Nat /\ ~ m < n
        BY <2>4, <3>1, MessageIs DEF HasField
      <4> HIDE DEF m, n
      <4> QED
        BY <3>1, <4>1
    <3>3. Following(parts, n) = <<>>
      <4>1. parts \in Seq(Bytes) /\ Len(parts) = n /\ n \in Nat
        BY <3>1, MessageIs DEF IsReceived
      <4>2. SubSeq(parts, n + 1, Len(parts)) = <<>>
        BY <4>1, SubSeqEmpty
      <4> QED
        BY <4>2, FlattenEmpty DEF Following
    <3> QED
      BY <3>1, <3>2, <3>3, ReadToTheEnd
  <2> QED
    BY <2>1, <2>2, <2>3, <2>4 DEF SameMessageBack
<1> QED
  BY <1>1, <1>2 DEF PacketsInv

\* writebuf.go, readbuf.go: wherever packets end, no packet is too long, every
\* field is read as it was written, and the response is read exactly to its end.
THEOREM MessagesComeBack == PacketsSpec => []SameMessageBack
<1>1. PacketsInv => SameMessageBack
  BY SameMessageNow
<1> QED
  BY <1>1, PacketsInvariance, PTL

=============================================================================
