--------------------------- MODULE LayoutGeometry ---------------------------
(***************************************************************************)
(* The geometry the layout sources share: points, rectangles, the affine   *)
(* transforms of references, and the tests of a hit.  The code computes in *)
(* doubles and rounds with llround; for quarter turns and whole            *)
(* magnifications, the only ones used here, integers are exact.            *)
(* LayoutSource.cpp, LayoutParser.cpp and LayoutBinaryProtocol.cpp hold    *)
(* copies of what is mapped to LayoutSpatialIndex.cpp.                     *)
(***************************************************************************)
EXTENDS Integers, Sequences, FiniteSets, FiniteSetsExt

Point(x, y) == [x |-> x, y |-> y]
Rect(x0, y0, x1, y1) == [x0 |-> x0, y0 |-> y0, x1 |-> x1, y1 |-> y1]

\* An optional rectangle that has no value.
NoBounds == <<>>

Low(S) == Min(S)
High(S) == Max(S)

Normalize(r) ==
  Rect(Low({r.x0, r.x1}), Low({r.y0, r.y1}), High({r.x0, r.x1}), High({r.y0, r.y1}))

Intersects(l, r) == /\ l.x0 <= r.x1 /\ l.x1 >= r.x0
                    /\ l.y0 <= r.y1 /\ l.y1 >= r.y0

\* The box of a set of points that is not empty.
BoxOf(P) == LET xs == {p.x : p \in P}
                ys == {p.y : p \in P}
            IN  Rect(Low(xs), Low(ys), High(xs), High(ys))

PointSet(points) == {points[k] : k \in DOMAIN points}

PointBounds(points) == IF points = <<>> THEN Rect(0, 0, 0, 0)
                                        ELSE BoxOf(PointSet(points))

Corners(r) == {Point(x, y) : x \in {r.x0, r.x1}, y \in {r.y0, r.y1}}

ExpandBounds(bounds, r) ==
  IF bounds = NoBounds THEN r ELSE BoxOf(Corners(bounds) \cup Corners(r))

Identity == [a |-> 1, b |-> 0, c |-> 0, d |-> 1, tx |-> 0, ty |-> 0]

ApplyTransform(t, p) == Point(t.a * p.x + t.c * p.y + t.tx, t.b * p.x + t.d * p.y + t.ty)

TransformBounds(t, r) == BoxOf({ApplyTransform(t, p) : p \in Corners(r)})

\* llround(n / m): to the nearest, halves away from zero.
RoundQuotient(n, m) ==
  LET num == IF m < 0 THEN -n ELSE n
      den == IF m < 0 THEN -m ELSE m
  IN  IF num < 0 THEN -((2 * (-num) + den) \div (2 * den))
                 ELSE (2 * num + den) \div (2 * den)

\* The box under the inverse of t; no transform of a reference is singular.
InverseBounds(t, r) ==
  LET det == t.a * t.d - t.b * t.c
      back(p) == Point(RoundQuotient(t.d * (p.x - t.tx) - t.c * (p.y - t.ty), det),
                       RoundQuotient(t.a * (p.y - t.ty) - t.b * (p.x - t.tx), det))
  IN  BoxOf({back(p) : p \in Corners(r)})

ComposeTransforms(up, t) ==
  [a  |-> up.a * t.a + up.c * t.b,
   b  |-> up.b * t.a + up.d * t.b,
   c  |-> up.a * t.c + up.c * t.d,
   d  |-> up.b * t.c + up.d * t.d,
   tx |-> up.a * t.tx + up.c * t.ty + up.tx,
   ty |-> up.b * t.tx + up.d * t.ty + up.ty]

Cosine(angle) == CASE angle = 0 -> 1 [] angle = 180 -> -1 [] OTHER -> 0
Sine(angle) == CASE angle = 90 -> 1 [] angle = 270 -> -1 [] OTHER -> 0

ReferenceTransform(ref, column, row) ==
  LET m       == IF ref.magnification = 0 THEN 1 ELSE ref.magnification
      reflect == IF ref.reflected THEN -1 ELSE 1
  IN  [a  |-> m * Cosine(ref.angle),
       b  |-> m * Sine(ref.angle),
       c  |-> -(m * Sine(ref.angle) * reflect),
       d  |-> m * Cosine(ref.angle) * reflect,
       tx |-> ref.origin.x + ref.column_vector.x * column + ref.row_vector.x * row,
       ty |-> ref.origin.y + ref.column_vector.y * column + ref.row_vector.y * row]

\* The box of the instances at the corners of the array, under the transform up.
CornerInstanceBounds(up, ref, target, columns, rows) ==
  BoxOf(UNION {Corners(TransformBounds(ComposeTransforms(up, ReferenceTransform(ref, c, r)), target)) :
               c \in {Low(columns), High(columns)}, r \in {Low(rows), High(rows)}})

Columns(ref) == 0 .. High({ref.columns, 1}) - 1
Rows(ref) == 0 .. High({ref.rows, 1}) - 1

ReferenceArrayBounds(ref, target) ==
  CornerInstanceBounds(Identity, ref, target, Columns(ref), Rows(ref))

\* Bug: one more than the floor, even when the division is exact.
NextQuotient(n, m) == n \div m + 1

CeilQuotient(n, m) == -((-n) \div m)

\* The indices of an axis of an array whose instances can meet the query.
AxisIndexRange(baseMin, baseMax, step, indices, queryMin, queryMax) ==
  CASE step = 0 -> IF baseMin <= queryMax /\ baseMax >= queryMin THEN indices ELSE {}
    [] step > 0 -> {i \in indices : i >= CeilQuotient(queryMin - baseMax, step)
                                 /\ i <= (queryMax - baseMin) \div step}
    [] step < 0 -> {i \in indices : i >= CeilQuotient(baseMin - queryMax, -step)
                                 /\ i <= (baseMax - queryMin) \div (-step)}

\* The columns and rows that can meet the box; a skewed array is not narrowed.
VisibleArrayRange(bbox, up, ref, target) ==
  LET whole == [columns |-> Columns(ref), rows |-> Rows(ref)]
      none  == [columns |-> {}, rows |-> {}]
      base  == TransformBounds(ComposeTransforms(up, ReferenceTransform(ref, 0, 0)), target)
      step(v) == Point(up.a * v.x + up.c * v.y, up.b * v.x + up.d * v.y)
      col   == step(ref.column_vector)
      row   == step(ref.row_vector)
      alongX(s, indices) == AxisIndexRange(base.x0, base.x1, s, indices, bbox.x0, bbox.x1)
      alongY(s, indices) == AxisIndexRange(base.y0, base.y1, s, indices, bbox.y0, bbox.y1)
      met(narrowed) == IF narrowed.columns = {} \/ narrowed.rows = {} THEN none ELSE narrowed
  IN  CASE bbox = NoBounds -> whole
        [] bbox # NoBounds /\ col.y = 0 /\ row.x = 0 ->
             met([columns |-> alongX(col.x, Columns(ref)), rows |-> alongY(row.y, Rows(ref))])
        [] bbox # NoBounds /\ ~(col.y = 0 /\ row.x = 0) /\ col.x = 0 /\ row.y = 0 ->
             met([columns |-> alongY(col.y, Columns(ref)), rows |-> alongX(row.x, Rows(ref))])
        [] OTHER -> whole

Square(v) == v * v
Distance2(p, q) == Square(p.x - q.x) + Square(p.y - q.y)

\* Whether p is within the radius of the segment from a to b.
PointOnSegment(p, a, b, radius) ==
  LET length2 == Distance2(a, b)
      along   == (p.x - a.x) * (b.x - a.x) + (p.y - a.y) * (b.y - a.y)
  IN  CASE length2 = 0 \/ along <= 0 -> Distance2(p, a) <= Square(radius)
        [] length2 > 0 /\ along >= length2 -> Distance2(p, b) <= Square(radius)
        [] OTHER -> Distance2(p, a) * length2 - Square(along) <= Square(radius) * length2

\* Even-odd rule: the edges a ray to the right of p crosses.
PointInPolygon(p, polygon) ==
  LET n == Len(polygon)
      crosses(i) ==
        LET q  == polygon[i]
            o  == polygon[IF i = 1 THEN n ELSE i - 1]
            dy == o.y - q.y
            at == (o.x - q.x) * (p.y - q.y)
        IN  /\ (q.y > p.y) # (o.y > p.y)
            /\ IF dy > 0 THEN (p.x - q.x) * dy < at ELSE (p.x - q.x) * dy > at
  IN  n >= 3 /\ Cardinality({i \in 1 .. n : crosses(i)}) % 2 = 1

\* The square of the distance from p to the rectangle.
RectDistance2(p, r) == LET n == Normalize(r)
                       IN  Square(High({n.x0 - p.x, 0, p.x - n.x1}))
                         + Square(High({n.y0 - p.y, 0, p.y - n.y1}))

\* An empty filter lets everything through.
Admits(filter, v) == filter = {} \/ v \in filter
=============================================================================
