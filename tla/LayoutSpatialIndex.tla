------------------------- MODULE LayoutSpatialIndex -------------------------
(***************************************************************************)
(* The spatial index of a GDSII library (layout/LayoutSpatialIndex.cpp):   *)
(* tiles, hit tests, inspection and selections.  Its answers are functions *)
(* of the data set, of the grids built so far and of the instances handed  *)
(* out so far; what a query adds to the two is part of its answer.         *)
(* The counters and times of the answers are left out.                     *)
(***************************************************************************)
EXTENDS GdsLibrary

CONSTANTS
  GridThreshold,  \* elements or references from which a cell is looked up by grid
  MinAxisBins,    \* bounds on the bins along an axis of a grid
  MaxAxisBins,
  HitLimit,       \* the least number of candidates of a hit test,
  CandidatesPerResult  \* and that for each result that is asked for

ASSUME SpatialIndexAssumption ==
  /\ {GridThreshold, MinAxisBins, MaxAxisBins, HitLimit, CandidatesPerResult} \subseteq Nat \ {0}
  /\ MinAxisBins <= MaxAxisBins

-----------------------------------------------------------------------------
(* Looking up the entries of a cell that meet a box.                       *)

\* An R-tree finds what meets the box; the code then sorts by index.
TreeCandidates(entries, box) == SelectSeq(entries, LAMBDA e : Intersects(e.bounds, box))

CeilSqrt(n) == CHOOSE k \in 1 .. n + 1 : k * k >= n /\ \A j \in 1 .. k - 1 : j * j < n

AxisBins(count) == Low({High({CeilSqrt(count \div 64 + 1), MinAxisBins}), MaxAxisBins})

\* The bin of a coordinate; what lies outside the grid is in its border.
BinOf(v, low, high, bins) ==
  LET span  == High({1, high - low + 1})
      width == High({1, (span + bins - 1) \div bins})
  IN  IF v <= low THEN 0 ELSE Low({(v - low) \div width, bins - 1})

BinRange(grid, bins, box) ==
  (BinOf(box.x0, grid.x0, grid.x1, bins) .. BinOf(box.x1, grid.x0, grid.x1, bins))
    \X (BinOf(box.y0, grid.y0, grid.y1, bins) .. BinOf(box.y1, grid.y0, grid.y1, bins))

\* A grid over the bounds of the cell: the entries of the bins the box touches,
\* each once and in order, then those that meet it.
GridCandidates(cellBounds, count, entries, box) ==
  LET grid == IF cellBounds = NoBounds THEN Rect(0, 0, 0, 0) ELSE cellBounds
      near == BinRange(grid, AxisBins(count), box)
      binned(e) == BinRange(grid, AxisBins(count), e.bounds) \cap near # {}
  IN  TreeCandidates(SelectSeq(entries, binned), box)

\* The drawable elements of a cell, with what the filters of a request see.
ElementEntries(data, cell) ==
  LET gds   == data.gds
      drawn == SelectSeq(cell.elements, LAMBDA k : IsDrawable(gds, Item(gds.elements, k)))
      entry(k) == LET e == Item(gds.elements, k)
                  IN  [index |-> k, bounds |-> ElementBounds(gds, e), kind |-> ShapeKind(e),
                       layer |-> FindGdsLayer(data.layers, e), datatype |-> e.datatype]
  IN  Map(drawn, entry)

HasTarget(gds, ref) ==
  HasItem(gds.cells, ref.target) /\ Item(gds.cells, ref.target).bounds # NoBounds

\* The references of a cell to something that has bounds, arrays as a whole.
ReferenceEntries(gds, cell) ==
  LET placed == SelectSeq(cell.references, LAMBDA k : HasTarget(gds, Item(gds.references, k)))
      entry(k) == LET ref == Item(gds.references, k)
                  IN  [index |-> k,
                       bounds |-> ReferenceArrayBounds(ref, Item(gds.cells, ref.target).bounds)]
  IN  Map(placed, entry)

-----------------------------------------------------------------------------
(* Instances.  The code names the instance of an object by a hash of the   *)
(* path of references to it, mixed again while the hash is another's; the  *)
(* model names it by the path and the cell, which is what the hash stands  *)
(* for.  A place is what the index remembers under that name.              *)

\* The paths of what is selected as it is defined, by itself or where its
\* reference puts it.
DefinitionPath == <<NoIndex>>
ReferencePath == <<NoIndex - 1>>

RootPath(root) == <<root>>

\* Bug: the columns of an array share a name.
ChildPathOfRow(path, ref, column, row) == Append(path, <<ref, 0, row>>)

ChildPath(path, ref, column, row) == Append(path, <<ref, column, row>>)

Instance(path, cell) == [path |-> path, cell |-> cell]

\* The first to take a name keeps it.
RememberInstance(places, id, t) == places @@ (id :> t)

IsKnown(places, id) == id \in DOMAIN places

-----------------------------------------------------------------------------
(* Walking the hierarchy for a tile.  The walk is the sequence of what it  *)
(* meets: shapes that may be shown, shapes that are only remembered since  *)
(* they miss the box, and grids it builds.                                 *)

Met(what, shape, t, grid) == [what |-> what, shape |-> shape, transform |-> t, grid |-> grid]
NoShape == [instance |-> NoInstance]
BuiltGrid(cell) == <<Met("grid", NoShape, Identity, cell)>>

Meets(request, box) == request.bbox = NoBounds \/ Intersects(box, request.bbox)

Placement(owner_kind, owner, cell, rect, path) ==
  [kind |-> "Placement", owner_kind |-> owner_kind, owner |-> owner, cell |-> cell,
   layer |-> NoIndex, datatype |-> 0, points |-> <<>>, rect |-> rect,
   instance |-> Instance(path, cell)]

MakeElementShape(data, index, t, path) ==
  ElementShape(data, index, t, Instance(path, Item(data.gds.elements, index).cell))

\* At low levels of detail placements stand for what they place.
IsOverview(request) ==
  /\ request.lod >= 2
  /\ request.layers = {} /\ request.datatypes = {}
  /\ Admits(request.kinds, "Placement")

\* One shape for the visible part of a reference; named by its first instance.
VisiblePlacement(data, request, index, t, path, columns, rows) ==
  LET ref == Item(data.gds.references, index)
      box == CornerInstanceBounds(t, ref, Item(data.gds.cells, ref.target).bounds, columns, rows)
  IN  IF columns = {} \/ ~Meets(request, box) THEN <<>>
      ELSE <<Met("shape",
                 Placement("Reference", index, ref.target, box,
                           ChildPath(path, index, Low(columns), Low(rows))),
                 ComposeTransforms(t, ReferenceTransform(ref, Low(columns), Low(rows))), NoIndex)>>

OverviewReference(data, request, index, t, path) ==
  LET ref == Item(data.gds.references, index)
      shown(visible) ==
        VisiblePlacement(data, request, index, t, path, visible.columns, visible.rows)
  IN  shown(VisibleArrayRange(request.bbox, t, ref, Item(data.gds.cells, ref.target).bounds))

\* A cell with references shows them, by its grid when there is one already;
\* another shows its own bounds.
Overview(data, request, index, t, path, local, grids) ==
  LET gds     == data.gds
      cell    == Item(gds.cells, index)
      entries == ReferenceEntries(gds, cell)
      byGrid  == /\ request.bbox # NoBounds
                 /\ Len(cell.references) >= GridThreshold
                 /\ index \in grids
      chosen  == IF byGrid THEN GridCandidates(cell.bounds, Len(cell.references), entries, local)
                           ELSE entries
      own     == Placement("Cell", index, index, TransformBounds(t, cell.bounds), path)
  IN  CASE cell.references # <<>> ->
             ForEach(chosen, LAMBDA e : OverviewReference(data, request, e.index, t, path))
        [] cell.references = <<>> /\ cell.bounds # NoBounds ->
             <<Met(IF Meets(request, own.rect) THEN "shape" ELSE "hidden", own, t, NoIndex)>>
        [] OTHER -> <<>>

\* At the middle level an element is the box of its own box.
ElementAtLod(request, entry, shape, t) ==
  IF request.lod = 1
  THEN [shape EXCEPT !.kind = "Rect", !.points = <<>>, !.rect = TransformBounds(t, entry.bounds)]
  ELSE shape

\* The elements of the cell: by its grid when the request is limited and has a
\* box, by the tree otherwise; both in the order of the elements.
WalkElements(data, request, index, t, path, local) ==
  LET cell    == Item(data.gds.cells, index)
      entries == ElementEntries(data, cell)
      byGrid  == /\ request.max_shapes # 0 \/ request.max_points # 0
                 /\ request.bbox # NoBounds
                 /\ Len(cell.elements) >= GridThreshold
      near    == IF local = NoBounds THEN entries
                 ELSE IF byGrid THEN GridCandidates(cell.bounds, Len(cell.elements), entries, local)
                 ELSE TreeCandidates(entries, local)
      wanted  == SelectSeq(near, LAMBDA e : /\ Admits(request.layers, e.layer)
                                            /\ Admits(request.kinds, e.kind)
                                            /\ Admits(request.datatypes, e.datatype))
      item(e) == LET shape == ElementAtLod(request, e, MakeElementShape(data, e.index, t, path), t)
                 IN  Met(IF Meets(request, shape.rect) THEN "shape" ELSE "hidden", shape, t, NoIndex)
  IN  Map(wanted, item)

Ascending(S) == IF S = {} THEN <<>> ELSE SelectSeq(Map(UpTo(High(S) + 1), LAMBDA k : k - 1),
                                                   LAMBDA k : k \in S)

\* A cell and, instance by instance, what it places.  A cell within itself is
\* passed over.  Without a box the cell's own bounds select, all of it.
RECURSIVE WalkCell(_, _, _, _, _, _, _)
WalkCell(data, request, index, t, path, stack, grids) ==
  IF index \in stack THEN <<>>
  ELSE
    LET gds     == data.gds
        cell    == Item(gds.cells, index)
        local   == IF request.bbox # NoBounds THEN InverseBounds(t, request.bbox) ELSE cell.bounds
        entries == ReferenceEntries(gds, cell)
        byGrid  == request.bbox # NoBounds /\ Len(cell.references) >= GridThreshold
        near    == CASE local = NoBounds -> entries
                     [] local # NoBounds /\ byGrid ->
                          GridCandidates(cell.bounds, Len(cell.references), entries, local)
                     [] OTHER -> TreeCandidates(entries, local)
        instance(k, c, r) ==
          LET ref   == Item(gds.references, k)
              child == ComposeTransforms(t, ReferenceTransform(ref, c, r))
          IN  IF ~Meets(request, TransformBounds(child, Item(gds.cells, ref.target).bounds)) THEN <<>>
              ELSE WalkCell(data, request, ref.target, child, ChildPath(path, k, c, r),
                            stack \cup {index}, grids)
        array(k) ==
          LET ref == Item(gds.references, k)
              walked(visible) ==
                ForEach(Ascending(visible.columns), LAMBDA c :
                  ForEach(Ascending(visible.rows), LAMBDA r : instance(k, c, r)))
          IN  walked(VisibleArrayRange(request.bbox, t, ref, Item(gds.cells, ref.target).bounds))
    IN  IF IsOverview(request) THEN Overview(data, request, index, t, path, local, grids)
        ELSE (IF request.lod < 2 THEN WalkElements(data, request, index, t, path, local) ELSE <<>>)
             \o (IF byGrid THEN BuiltGrid(index) ELSE <<>>)
             \o ForEach(near, LAMBDA e : array(e.index))

-----------------------------------------------------------------------------
(* The budget of a tile: skip what earlier pages showed, then show until a *)
(* shape would exceed the shapes or the points of the page.                *)

ShownIn(walk) == Ascending({k \in DOMAIN walk : walk[k].what = "shape"})

\* The points of the shapes from one place of the walk to another.
PointsOf(walk, places) == FoldLeft(LAMBDA sum, k : sum + Len(walk[k].shape.points), 0, places)

\* The place in the walk of the first shape that does not fit, or its end.
StopAt(walk, request, skip) ==
  LET shown == ShownIn(walk)
      refused == {n \in skip + 1 .. Len(shown) :
                    \/ request.max_shapes # 0 /\ n - skip > request.max_shapes
                    \/ request.max_points # 0
                         /\ PointsOf(walk, SubSeq(shown, skip + 1, n)) > request.max_points}
  IN  IF refused = {} THEN Len(walk) + 1 ELSE shown[Low(refused)]

\* The shape the walk stops at is remembered too: it was made before the
\* budget was asked.
Remembered(walk, places) ==
  LET made == {k \in DOMAIN walk : walk[k].what # "grid"}
      id(k) == walk[k].shape.instance
      first(i) == Low({k \in made : id(k) = i})
  IN  places @@ [i \in {id(k) : k \in made} |-> walk[first(i)].transform]

\* A tile of the walk: the page, whether it was cut, how many shapes are
\* behind it, and what the index has become.
TileOfWalk(index, walk, stop, skip) ==
  LET seen == SelectSeq(SubSeq(walk, 1, stop - 1), LAMBDA m : m.what = "shape")
      done == SubSeq(walk, 1, Low({stop, Len(walk)}))
  IN  [shapes    |-> Map(SubSeq(seen, skip + 1, Len(seen)), LAMBDA m : m.shape),
       truncated |-> stop <= Len(walk),
       next      |-> IF stop <= Len(walk) THEN Len(seen) ELSE 0,
       index     |-> [grids  |-> index.grids \cup {done[k].grid : k \in
                                    {j \in DOMAIN done : done[j].what = "grid"}},
                      places |-> Remembered(done, index.places)]]

QueryTile(data, index, request, skip) ==
  LET tile(walk) == TileOfWalk(index, walk, StopAt(walk, request, skip), skip)
  IN  tile(WalkCell(data, request, request.root, Identity, RootPath(request.root), {}, index.grids))

EmptyIndex == [grids |-> {}, places |-> <<>>]

\* The warm-up builds the grid of the top cell's references, whatever their
\* number; that of its elements has no bearing on later answers.
WarmupTopCell(data, index) ==
  IF data.gds.top = NoIndex \/ Item(data.gds.cells, data.gds.top).references = <<>> THEN index
  ELSE [index EXCEPT !.grids = @ \cup {data.gds.top}]

-----------------------------------------------------------------------------
(* Hit tests, inspection, selections.                                      *)

Object(kind, cell, reference, element, layer, datatype, instance) ==
  [kind |-> kind, cell |-> cell, reference |-> reference, element |-> element,
   layer |-> layer, datatype |-> datatype, instance |-> instance]

\* What a client is given to name a shape of a tile or of a hit.
ObjectOf(shape) ==
  CASE shape.owner_kind = "Reference" ->
         Object("Reference", shape.cell, shape.owner, NoIndex, shape.layer, shape.datatype, shape.instance)
    [] shape.owner_kind = "Element" ->
         Object("Element", shape.cell, NoIndex, shape.owner, shape.layer, shape.datatype, shape.instance)
    [] shape.owner_kind = "Cell" ->
         Object("Cell", shape.cell, NoIndex, NoIndex, shape.layer, shape.datatype, shape.instance)

ShapeBounds(shape) ==
  IF shape.points # <<>> THEN PointBounds(shape.points) ELSE Normalize(shape.rect)

\* Whether the shape itself, not only its box, is under the pointer.
IsPreciseHit(shape, point, radius) ==
  LET r == High({radius, 1})
      n == Len(shape.points)
  IN  CASE shape.kind = "Polygon" -> PointInPolygon(point, shape.points)
        [] shape.kind = "Path" /\ n >= 2 ->
             \E k \in 2 .. n : PointOnSegment(point, shape.points[k - 1], shape.points[k], r)
        [] OTHER -> RectDistance2(point, ShapeBounds(shape)) <= Square(r)

HitRank(shape) == CASE shape.owner_kind = "Reference" -> 3
                    [] shape.owner_kind # "Reference" /\ shape.kind = "Polygon" -> 0
                    [] shape.owner_kind # "Reference" /\ shape.kind = "Path" -> 1
                    [] OTHER -> 2

HitOf(shape, point) ==
  [object |-> ObjectOf(shape), bounds |-> ShapeBounds(shape), rank |-> HitRank(shape),
   distance |-> RectDistance2(point, ShapeBounds(shape))]

HitBefore(l, r) == \/ l.rank < r.rank
                   \/ l.rank = r.rank /\ l.distance < r.distance
                   \/ l.rank = r.rank /\ l.distance = r.distance /\ l.object.element < r.object.element

\* The places of a sequence, sorted; equals keep their order, as insertion
\* sort, the code's sort for so few, keeps it.
Ranked(hits) ==
  LET before(i, j) == HitBefore(hits[i], hits[j]) \/ (~HitBefore(hits[j], hits[i]) /\ i < j)
      order == SortSeq(UpTo(Len(hits)), before)
  IN  Map(order, LAMBDA k : hits[k])

FirstOf(seq, limit) == IF limit = 0 THEN seq ELSE SubSeq(seq, 1, Low({limit, Len(seq)}))

\* What the tiles of a hit test let through, as the walk met it.
HitsAmong(request, elements, references) ==
  LET p == request.point
      under(shape) == IsPreciseHit(shape, p, request.radius)
      near(shape)  == RectDistance2(p, ShapeBounds(shape)) <= Square(High({request.radius, 1}))
      asReference(shape) == [HitOf(shape, p) EXCEPT
                              !.rank = 3,
                              !.object = Object("Reference", shape.cell, shape.owner, NoIndex, NoIndex, 0,
                                                shape.instance)]
      hits == Map(SelectSeq(elements, under), LAMBDA shape : HitOf(shape, p))
              \o Map(SelectSeq(references, near), asReference)
  IN  hits

\* Bug: limited to the results asked for before they are sorted.
FirstHitsOf(request, elements, references) ==
  Ranked(FirstOf(HitsAmong(request, elements, references), request.max_results))

HitsOf(request, elements, references) ==
  FirstOf(Ranked(HitsAmong(request, elements, references)), request.max_results)

\* The shapes that are looked at before they are sorted, and with 16 times as
\* many points at most.
CandidateLimit(request) == High({HitLimit, High({request.max_results, 1}) * CandidatesPerResult})

\* A hit test: elements about the point, then, when layers and datatypes are
\* not asked for, the references about it.
HitTest(data, index, request) ==
  LET limit == CandidateLimit(request)
      p     == request.point
      tile(lod) == [root |-> request.root, lod |-> lod, max_shapes |-> limit,
                    max_points |-> limit * 16, layers |-> request.layers,
                    kinds |-> request.kinds, datatypes |-> request.datatypes,
                    bbox |-> Rect(p.x - request.radius, p.y - request.radius,
                                  p.x + request.radius, p.y + request.radius)]
      result(first, over) == [hits |-> HitsOf(request, first.shapes, over.shapes), index |-> over.index]
      then(first) ==
        result(first, IF IsOverview(tile(2)) THEN QueryTile(data, first.index, tile(2), 0)
                                             ELSE [shapes |-> <<>>, index |-> first.index])
  IN  then(QueryTile(data, index, tile(0), 0))

\* Inspection of an element or a reference in its instance, or, without one,
\* as it is defined.  A cell without bounds has the code's default rectangle.
Refused == [refused |-> TRUE]

BoundsOrZero(bounds) == IF bounds = NoBounds THEN Rect(0, 0, 0, 0) ELSE bounds

\* Bug: the instance is forgotten, and the first of an array is inspected.
InspectedDefinition(data, places, object) ==
  LET gds == data.gds
      ref == Item(gds.references, object.reference)
  IN  CASE object.kind = "Element" -> ElementBounds(gds, Item(gds.elements, object.element))
        [] object.kind = "Reference" /\ HasTarget(gds, ref) ->
             TransformBounds(ReferenceTransform(ref, 0, 0), Item(gds.cells, ref.target).bounds)
        [] OTHER -> Rect(0, 0, 0, 0)

InspectedBounds(data, places, object) ==
  LET gds      == data.gds
      here     == object.instance # NoInstance
      ref      == Item(gds.references, object.reference)
      element  == ElementBounds(gds, Item(gds.elements, object.element))
  IN  CASE object.kind = "Cell" -> BoundsOrZero(Item(gds.cells, object.cell).bounds)
        [] object.kind = "Reference" /\ ~HasTarget(gds, ref) -> Rect(0, 0, 0, 0)
        [] object.kind = "Reference" /\ HasTarget(gds, ref) ->
             TransformBounds(IF here THEN places[object.instance] ELSE ReferenceTransform(ref, 0, 0),
                             Item(gds.cells, ref.target).bounds)
        [] object.kind = "Element" ->
             IF here THEN TransformBounds(places[object.instance], element) ELSE element

NeedsInstance(data, object) ==
  /\ object.instance # NoInstance
  /\ \/ object.kind = "Element"
     \/ object.kind = "Reference" /\ HasTarget(data.gds, Item(data.gds.references, object.reference))

\* What an element stands for: a layer or a cell may say that it is a pad.
IsNamedPad(data, e) ==
  LET cell == Item(data.gds.cells, e.cell).name
  IN  \/ ContainsIgnoringCase(cell, <<"p", "a", "d">>) \/ ContainsIgnoringCase(cell, <<"i", "o">>)
      \/ ContainsIgnoringCase(LayerLabel(Item(data.layers, FindGdsLayer(data.layers, e))), <<"p", "a", "d">>)

ElementClass(data, e) ==
  CASE e.kind = "Path" -> "Wire"
    [] e.kind = "Text" -> "Label"
    [] OTHER -> IF IsNamedPad(data, e) THEN "Pad" ELSE "Shape"

\* An element of a layer nothing is drawn on has no class, which is an error.
LacksLayer(data, object) ==
  /\ object.kind = "Element"
  /\ LET e == Item(data.gds.elements, object.element)
     IN  e.kind \notin {"Path", "Text"} /\ ~HasGdsLayer(data.layers, e)

\* What is told of an object, without its bounds and its path.
Description(data, object) ==
  LET gds == data.gds
      ref == Item(gds.references, object.reference)
      e   == Item(gds.elements, object.element)
      plain == [object |-> object, name |-> <<>>, text |-> <<>>, class |-> "Cell",
                layer |-> 0, datatype |-> 0, element_kind |-> "Unknown", reference_kind |-> "Unknown"]
  IN  CASE object.kind = "Cell" ->
             [plain EXCEPT !.name = Item(gds.cells, object.cell).name] @@ [cell |-> object.cell]
        [] object.kind = "Reference" ->
             [plain EXCEPT !.name = ref.name, !.object.cell = ref.parent, !.reference_kind = ref.kind]
               @@ [cell |-> ref.target]
        [] object.kind = "Element" ->
             [plain EXCEPT !.object.cell = e.cell, !.text = e.text, !.class = ElementClass(data, e),
                           !.layer = e.layer, !.datatype = e.datatype, !.element_kind = e.kind]
               @@ [cell |-> e.cell]

IsOutOfRange(gds, object) ==
  \/ object.kind = "Cell" /\ ~HasItem(gds.cells, object.cell)
  \/ object.kind = "Reference" /\ ~HasItem(gds.references, object.reference)
  \/ object.kind = "Element" /\ ~HasItem(gds.elements, object.element)

Inspect(data, index, object) ==
  IF \/ IsOutOfRange(data.gds, object)
     \/ LacksLayer(data, object)
     \/ NeedsInstance(data, object) /\ ~IsKnown(index.places, object.instance) THEN Refused
  ELSE Description(data, object)
       @@ [bounds |-> InspectedBounds(data, index.places, object),
           path |-> IF NeedsInstance(data, object) THEN object.instance.path ELSE <<>>]

\* The shape of what is selected.  Without an instance the name given out is
\* that of the definition, which all references to a cell share.
SelectionGeometry(data, index, object) ==
  LET gds  == data.gds
      ref  == Item(gds.references, object.reference)
      here == object.instance # NoInstance
      cell == Item(gds.cells, object.cell)
      t    == CASE here -> index.places[object.instance]
                [] ~here /\ object.kind = "Reference" -> ReferenceTransform(ref, 0, 0)
                [] OTHER -> Identity
      path == CASE here -> object.instance.path
                [] ~here /\ object.kind = "Reference" -> ReferencePath
                [] OTHER -> DefinitionPath
      shape == CASE object.kind = "Element" -> MakeElementShape(data, object.element, t, path)
                 [] object.kind = "Reference" ->
                      Placement("Reference", object.reference, ref.target,
                                TransformBounds(t, Item(gds.cells, ref.target).bounds), path)
                 [] OTHER -> [Placement("Cell", object.cell, object.cell, cell.bounds, <<>>)
                                EXCEPT !.instance = NoInstance]
      empty == \/ object.kind = "Element" /\ ~IsDrawable(gds, Item(gds.elements, object.element))
               \/ object.kind = "Reference" /\ ~HasTarget(gds, ref)
               \/ object.kind = "Cell" /\ cell.bounds = NoBounds
  IN  IF IsOutOfRange(gds, object) THEN Refused
      ELSE IF empty THEN [shapes |-> <<>>, index |-> index]
      ELSE IF object.kind = "Cell" THEN [shapes |-> <<shape>>, index |-> index]
      ELSE IF here /\ ~IsKnown(index.places, object.instance) THEN Refused
      ELSE [shapes |-> <<shape>>,
                     index |-> [index EXCEPT !.places = RememberInstance(@, shape.instance, t)]]
=============================================================================
