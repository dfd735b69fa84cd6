------------------------------ MODULE Geometry ------------------------------
(***************************************************************************)
(* From a decoded SDO_GEOMETRY to WKB (sdoGeometryToWKB of                 *)
(* driver/oracle/objects.go): the elements are written one after the other,*)
(* each count before what it counts.                                       *)
(*                                                                         *)
(* A geometry is [gtype, point, info, length]: SDO_GTYPE, whether          *)
(* SDO_POINT is there (with Z or without), SDO_ELEM_INFO, and how many     *)
(* SDO_ORDINATES there are.  An ordinate is its position, 1 .. length, so  *)
(* that a lost or repeated one shows; X, Y and Z of SDO_POINT are -1, -2   *)
(* and -3, NaN is 0.  The bytes are tokens: a type code, a count, an       *)
(* ordinate; byte order and float bits are left out.                       *)
(***************************************************************************)
EXTENDS Integers, Sequences, SequencesExt, FiniteSetsExt

CONSTANT Geometries      \* the geometries the server sends

VARIABLES
  geometry,
  at,      \* the element to write next
  wkb,     \* what is written
  phaseG   \* "given", "writing", "written", "refused" or "panic"

geometryVars == <<geometry, at, wkb, phaseG>>

Dims == geometry.gtype \div 1000
Shape == geometry.gtype % 100

Elements == 1 .. Len(geometry.info) \div 3
Offset(i) == geometry.info[3 * i - 2]
Etype(i) == geometry.info[3 * i - 1]
Interp(i) == geometry.info[3 * i]
NextOffset(i) == IF i + 1 \in Elements THEN Offset(i + 1) ELSE geometry.length + 1

\* start and end lie within the ordinates; otherwise ordsOf is nil
Consistent(i) ==
  Offset(i) >= 1 /\ NextOffset(i) - 1 <= geometry.length /\ Offset(i) <= NextOffset(i)

OrdsOf(i) == IF Consistent(i) THEN [k \in 1 .. NextOffset(i) - Offset(i) |-> Offset(i) + k - 1] ELSE <<>>

TypeCode(base, dims) == base + (CASE dims = 3 -> 1000 [] dims = 4 -> 3000 [] OTHER -> 0)

Header(base, dims) == <<<<"type", TypeCode(base, dims)>>>>
Count(n) == <<<<"count", n>>>>
Coords(o) == [k \in DOMAIN o |-> <<"ordinate", o[k]>>]

Point(o) == Header(1, Dims) \o Coords(o)
Points(o) == [j \in 1 .. Len(o) \div Dims |-> SubSeq(o, (j - 1) * Dims + 1, j * Dims)]
PointsOf(o) == FlattenSeq([j \in DOMAIN Points(o) |-> Point(Points(o)[j])])

\* o[:dims] reaches past the element, up to the end of all ordinates.
PointFits(i) == Consistent(i) /\ Offset(i) - 1 + Dims <= geometry.length
FirstPoint(i) == [k \in 1 .. Dims |-> Offset(i) + k - 1]

WriteRing(o) == Count(Len(o) \div Dims) \o Coords(o)

IsRing(i) == Interp(i) = 1 \/ (Interp(i) = 3 /\ Len(OrdsOf(i)) >= 2 * Dims)

\* A rectangle is two corners; its ring runs one way outside, the other inside.
FaultyRing(i) ==
  LET o == OrdsOf(i)
      corner(x, y) == <<o[x], o[y]>> \o SubSeq(o, 3, Dims)
  IN IF Interp(i) = 1 THEN o
     ELSE corner(1, 2) \o corner(Dims + 1, 2) \o corner(Dims + 1, Dims + 2) \o corner(1, Dims + 2) \o corner(1, 2)

Ring(i) ==
  LET o == OrdsOf(i)
      corner(x, y) == <<o[x], o[y]>> \o SubSeq(o, 3, Dims)
      across == corner(Dims + 1, 2)
      up == corner(1, Dims + 2)
  IN IF Interp(i) = 1 THEN o
     ELSE corner(1, 2)
            \o (IF Etype(i) = 1003 THEN across \o corner(Dims + 1, Dims + 2) \o up
                                   ELSE up \o corner(Dims + 1, Dims + 2) \o across)
            \o corner(1, 2)

\* The exterior ring at i and the interior rings behind it.
LastRing(i) ==
  CHOOSE j \in Elements :
    /\ i <= j /\ \A k \in i + 1 .. j : Etype(k) = 2003
    /\ j + 1 \in Elements => Etype(j + 1) /= 2003

Polygon(i) ==
  LET rings == [k \in 1 .. LastRing(i) - i + 1 |-> WriteRing(Ring(i + k - 1))]
  IN Header(3, Dims) \o Count(Len(rings)) \o FlattenSeq(rings)

PolygonFits(i) == Etype(i) = 1003 /\ \A k \in i .. LastRing(i) : IsRing(k)

Line(i) == Header(2, Dims) \o WriteRing(OrdsOf(i))

-----------------------------------------------------------------------------

\* One element of the loop: what it writes, and what is behind it.
Emit(tokens, next) ==
  /\ wkb' = wkb \o tokens /\ at' = next
  /\ UNCHANGED <<geometry, phaseG>>

Stop(outcome) == phaseG' = outcome /\ UNCHANGED <<geometry, at, wkb>>

Refuses ==
  \/ Dims \notin 2 .. 4
  \/ Len(geometry.info) % 3 /= 0
  \/ Shape \notin 1 .. 7
  \/ Shape <= 3 /\ Elements = {}
  \/ Shape = 1 /\ Elements /= {} /\ Len(OrdsOf(1)) < Dims
  \/ Shape = 5 /\ \E i \in Elements : Etype(i) /= 1

IsOptimised == geometry.point /= "none" /\ Shape = 1 /\ geometry.info = <<>> /\ Dims \in 2 .. 4

RefuseGeometry ==
  /\ phaseG = "given" /\ ~ IsOptimised /\ Refuses
  /\ Stop("refused")

OptimisedPoint ==
  /\ phaseG = "given" /\ IsOptimised
  /\ wkb' = IF Dims = 2 THEN Header(1, 2) \o Coords(<<-1, -2>>)
            ELSE Header(1, 3) \o Coords(<<-1, -2, IF geometry.point = "xyz" THEN -3 ELSE 0>>)
  /\ phaseG' = "written"
  /\ UNCHANGED <<geometry, at>>

\* How many members are announced for the shape.
FaultyMembers ==
  CASE Shape = 6 -> Cardinality(Elements)
    [] Shape = 7 -> Cardinality({i \in Elements : Etype(i) = 1003})
    [] OTHER -> Cardinality(Elements)

Members ==
  CASE Shape = 6 -> Cardinality(Elements)
    [] Shape = 7 -> Cardinality({i \in Elements : Etype(i) = 1003})
    [] OTHER -> Cardinality({i \in Elements : Etype(i) /= 2003})

Begin ==
  /\ phaseG = "given" /\ ~ IsOptimised /\ ~ Refuses
  /\ phaseG' = "writing"
  /\ wkb' = CASE Shape = 4 -> Header(7, Dims) \o Count(Members)
              [] Shape \in {6, 7} -> Header(Shape - 1, Dims) \o Count(Members)
              [] OTHER -> <<>>
  /\ UNCHANGED <<geometry, at>>

\* The single shapes look at the first element only.
IsNext == phaseG = "writing" /\ at \in Elements /\ (Shape <= 3 => at = 1)

WritePoint ==
  /\ IsNext
  /\ Shape = 1 \/ (Shape = 4 /\ Etype(at) = 1 /\ Interp(at) <= 1)
  /\ IF PointFits(at) THEN Emit(Point(FirstPoint(at)), at + 1) ELSE Stop("panic")

WritePoints ==
  /\ IsNext /\ Shape = 4 /\ Etype(at) = 1 /\ Interp(at) > 1
  /\ LET o == OrdsOf(at) IN Emit(Header(4, Dims) \o Count(Len(o) \div Dims) \o PointsOf(o), at + 1)

WriteMultiPoint ==
  /\ phaseG = "writing" /\ Shape = 5 /\ at = 1
  /\ LET all == FlattenSeq([i \in Elements |-> Points(OrdsOf(i))])
     IN /\ wkb' = Header(4, Dims) \o Count(Len(all)) \o FlattenSeq([j \in DOMAIN all |-> Point(all[j])])
        /\ phaseG' = "written"
        /\ UNCHANGED <<geometry, at>>

WriteLine ==
  /\ IsNext
  /\ Shape \in {2, 6} \/ (Shape = 4 /\ Etype(at) = 2)
  /\ IF Interp(at) = 1 THEN Emit(Line(at), at + 1) ELSE Stop("refused")

WritePolygon ==
  /\ IsNext
  /\ Shape \in {3, 7} \/ (Shape = 4 /\ Etype(at) = 1003)
  /\ IF PolygonFits(at) THEN Emit(Polygon(at), LastRing(at) + 1) ELSE Stop("refused")

RefuseMember ==
  /\ IsNext /\ Shape = 4 /\ Etype(at) \notin {1, 2, 1003}
  /\ Stop("refused")

Finish ==
  /\ phaseG = "writing" /\ Shape /= 5
  /\ (Shape <= 3 /\ at > 1) \/ at \notin Elements
  /\ Stop("written")

GeometryInit ==
  geometry \in Geometries /\ at = 1 /\ wkb = <<>> /\ phaseG = "given"

GeometryNext ==
  \/ RefuseGeometry \/ OptimisedPoint \/ Begin
  \/ WritePoint \/ WritePoints \/ WriteMultiPoint \/ WriteLine \/ WritePolygon
  \/ RefuseMember \/ Finish

-----------------------------------------------------------------------------
(* A reader of WKB.  It has a list of what must come: a geometry, a count  *)
(* or a number of ordinates, each knowing where in the whole it belongs;   *)
(* what it keeps of an ordinate is that place.                             *)

Awaits(kind, within, dims, left) == [kind |-> kind, within |-> within, dims |-> dims, left |-> left]

BaseOf(code) == code % 1000
DimsOf(code) == CASE code \div 1000 = 0 -> 2 [] code \div 1000 = 1 -> 3 [] OTHER -> 4

\* What must come once the first thing awaited, t, is answered with n.
Awaited(t, n) ==
  CASE t.kind = "type" /\ BaseOf(n) = 1 -> <<Awaits("ordinate", Append(t.within, 1), DimsOf(n), DimsOf(n))>>
    [] t.kind = "type" /\ BaseOf(n) /= 1 -> <<Awaits("count", Append(t.within, BaseOf(n)), DimsOf(n), 0)>>
    [] t.kind = "ordinate" -> IF t.left = 1 THEN <<>> ELSE <<[t EXCEPT !.left = @ - 1]>>
    [] t.kind = "count" ->
         LET path == IF n = 0 THEN <<>> ELSE <<Awaits("ordinate", t.within, t.dims, n * t.dims)>>
             each(kind) == [m \in 1 .. n |-> Awaits(kind, Append(t.within, m), t.dims, 0)]
         IN CASE Len(t.within) % 2 = 0 -> path           \* a ring
              [] Last(t.within) = 2 -> path              \* a line
              [] Last(t.within) = 3 -> each("count")     \* the rings of a polygon
              [] OTHER -> each("type")

ReadToken(r, token) ==
  IF r.awaits = <<>> \/ Head(r.awaits).kind /= token[1] THEN [r EXCEPT !.valid = FALSE]
  ELSE LET t == Head(r.awaits)
       IN [r EXCEPT !.awaits = Awaited(t, token[2]) \o Tail(@),
                    !.got = IF t.kind = "ordinate" THEN Append(@, [within |-> t.within, dims |-> t.dims, ord |-> token[2]])
                            ELSE @]

Reading == FoldLeft(ReadToken, [awaits |-> <<Awaits("type", <<>>, 0, 0)>>, got |-> <<>>, valid |-> TRUE], wkb)

\* The ordinates read at a place.
PathAt(within) ==
  LET here == SelectSeq(Reading.got, LAMBDA x : x.within = within)
  IN [k \in DOMAIN here |-> here[k].ord]

-----------------------------------------------------------------------------
(* What a geometry is, element by element.                                 *)

IsOuter(i) == Etype(i) /= 2003
Member(i) == Cardinality({k \in 1 .. i : IsOuter(k)})
RingNumber(i) == i - (CHOOSE k \in 1 .. i : IsOuter(k) /\ \A l \in k + 1 .. i : ~ IsOuter(l)) + 1
PointsBefore(i) == (Offset(i) - 1) \div Dims

\* The place of the element, of its j-th point for a point element.
Place(i, j) ==
  CASE Shape = 1 -> <<1>>
    [] Shape = 2 -> <<2>>
    [] Shape = 3 -> <<3, RingNumber(i)>>
    [] Shape = 5 -> <<4, PointsBefore(i) + j, 1>>
    [] Shape = 6 -> <<5, i, 2>>
    [] Shape = 7 -> <<6, Member(i), 3, RingNumber(i)>>
    [] Shape = 4 -> <<7, Member(i)>> \o
         (CASE Etype(i) = 1 -> IF Interp(i) = 1 THEN <<1>> ELSE <<4, j, 1>>
            [] Etype(i) = 2 -> <<2>>
            [] OTHER -> <<3, RingNumber(i)>>)

\* Twice the signed area of a path, its ordinates as coordinates.
Area(o) ==
  LET x(k) == o[(k - 1) * Dims + 1]
      y(k) == o[(k - 1) * Dims + 2]
  IN MapThenSumSet(LAMBDA k : x(k) * y(k + 1) - x(k + 1) * y(k), 1 .. Len(o) \div Dims - 1)

\* The closed ring through the corners of a rectangle, outside counter-clockwise.
IsRectangle(path, i) ==
  LET o == OrdsOf(i)
      point(k) == SubSeq(path, (k - 1) * Dims + 1, k * Dims)
  IN /\ Len(path) = 5 * Dims
     /\ point(1) = point(5)
     /\ {point(k) : k \in 1 .. 4} =
          {<<x, y>> \o SubSeq(o, 3, Dims) : x \in {o[1], o[Dims + 1]}, y \in {o[2], o[Dims + 2]}}
     /\ IF Etype(i) = 1003 THEN Area(path) > 0 ELSE Area(path) < 0

IsDepicted(i) ==
  CASE Etype(i) = 1 -> \A j \in DOMAIN Points(OrdsOf(i)) : PathAt(Place(i, j)) = Points(OrdsOf(i))[j]
    [] Etype(i) /= 1 /\ Interp(i) = 3 -> IsRectangle(PathAt(Place(i, 1)), i)
    [] OTHER -> PathAt(Place(i, 1)) = OrdsOf(i)

\* What Oracle takes for a geometry with straight lines only.
IsStraight(i) ==
  LET n == Len(OrdsOf(i)) \div Dims
  IN /\ n >= 1 /\ Len(OrdsOf(i)) = n * Dims /\ Consistent(i)
     /\ CASE Etype(i) = 1 -> Interp(i) = n
          [] Etype(i) = 2 -> Interp(i) = 1
          [] Etype(i) = 1003 -> Interp(i) = 1 \/ (Interp(i) = 3 /\ n = 2)
          [] Etype(i) = 2003 -> (Interp(i) = 1 \/ (Interp(i) = 3 /\ n = 2)) /\ i > 1 /\ Etype(i - 1) \in {1003, 2003}
          [] OTHER -> FALSE

MayHold(shape) ==
  CASE shape \in {1, 5} -> {1}
    [] shape \in {2, 6} -> {2}
    [] shape \in {3, 7} -> {1003, 2003}
    [] shape = 4 -> {1, 2, 1003, 2003}
    [] OTHER -> {}

IsGeometry ==
  /\ Dims \in 2 .. 4 /\ Len(geometry.info) % 3 = 0
  /\ Elements /= {} /\ Offset(1) = 1
  /\ \A i \in Elements : IsStraight(i) /\ Etype(i) \in MayHold(Shape)
  /\ Shape <= 3 => Member(Len(geometry.info) \div 3) = 1
  /\ Shape = 1 => Interp(1) = 1

\* A geometry of straight lines is converted, and who reads the WKB finds it again: every
\* element at its place with its own ordinates in order, every count right and every type
\* code with the dimensions it has, rectangles as closed rings the right way round, and
\* nothing behind or missing (the WKB has no lengths: one wrong count shifts all the rest).
SameGeometryBack ==
  /\ IsGeometry => phaseG \notin {"refused", "panic"}
  /\ (IsGeometry /\ phaseG = "written") =>
       /\ Reading.valid /\ Reading.awaits = <<>>
       /\ \A x \in Range(Reading.got) : x.dims = Dims
       /\ \A i \in Elements : IsDepicted(i)
       /\ Len(Reading.got) =
            MapThenSumSet(LAMBDA i : IF Etype(i) /= 1 /\ Interp(i) = 3 THEN 5 * Dims ELSE Len(OrdsOf(i)), Elements)
  /\ (IsOptimised /\ phaseG = "written") =>
       /\ Reading.valid /\ Reading.awaits = <<>>
       /\ PathAt(<<1>>) \in {<<-1, -2>>, <<-1, -2, -3>>, <<-1, -2, 0>>}
       /\ Len(PathAt(<<1>>)) = (IF Dims = 2 THEN 2 ELSE 3)

=============================================================================
