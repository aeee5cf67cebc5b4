----------------------------- MODULE GdsLibrary -----------------------------
(***************************************************************************)
(* GDSII libraries.                                                        *)
(*                                                                         *)
(* The reader of stream files (layout/LayoutParser.cpp, GdsParser).  A file *)
(* is a sequence of records; a record has a type and the values the reader *)
(* decodes from its payload, none when the payload is too short.  Names and *)
(* texts are sequences of letters.  Offsets, wording, timing and the limits *)
(* of uint32 arenas are left out.                                          *)
(*                                                                         *)
(* What a layout source keeps of a file (layout/LayoutSource.cpp,          *)
(* loadGdsLayoutDataSet): the library, its layers in the order of their    *)
(* first shapes, the bounds of every cell with all it instantiates, and the *)
(* flattened geometry of a cell.                                           *)
(***************************************************************************)
EXTENDS LayoutGeometry, SequencesExt, Functions

NoIndex == -1

\* What stops the reader in the middle of a file: a header or a payload that
\* is cut off, or a length below the header's own.
Broken == [type |-> "BROKEN", values |-> <<>>]

\* The indices a sequence of items is addressed by start from 0 in the code.
Item(seq, index) == seq[index + 1]
HasItem(seq, index) == index >= 0 /\ index < Len(seq)

\* What an operation makes of each member of a sequence, one after the other.
\* The concatenation with <<>> has TLC evaluate each once.
ForEach(seq, Op(_)) == FlattenSeq(<<>> \o [k \in DOMAIN seq |-> Op(seq[k])])
Map(seq, Op(_)) == <<>> \o [k \in DOMAIN seq |-> Op(seq[k])]
UpTo(n) == [k \in 1 .. n |-> k]

NewElement(kind, cell) ==
  [kind |-> kind, cell |-> cell, layer |-> 0, datatype |-> 0, texttype |-> 0,
   reference |-> NoIndex, first_point |-> 0, point_count |-> 0, text |-> <<>>,
   bounds |-> NoBounds]

NewReference(kind, cell) ==
  [kind |-> kind, parent |-> cell, target |-> NoIndex, name |-> <<>>,
   reflected |-> FALSE, magnification |-> 1, angle |-> 0, origin |-> Point(0, 0),
   columns |-> 1, rows |-> 1, column_vector |-> Point(0, 0), row_vector |-> Point(0, 0)]

NewCell == [name |-> <<>>, elements |-> <<>>, references |-> <<>>, bounds |-> NoBounds,
            is_top |-> FALSE]

EmptyLibrary ==
  [version |-> 0, name |-> <<>>, units_per_micron |-> 1000, top |-> NoIndex,
   cells |-> <<>>, elements |-> <<>>, references |-> <<>>, points |-> <<>>,
   texts |-> <<>>, samples |-> <<>>, diagnostics |-> <<>>]

\* The reader: what it has built, and what is open.  No cell is NoIndex, no
\* element or reference is an empty sequence, an open one a sequence of one.
Fresh == [lib |-> EmptyLibrary, cell |-> NoIndex, element |-> <<>>, reference |-> <<>>,
          unsupported |-> <<>>]

Warn(p, what) == [p EXCEPT !.lib.diagnostics = Append(@, what)]

IsReferenceKind(kind) == kind \in {"Sref", "Aref"}

ElementPoints(lib, e) ==
  SubSeq(lib.points, e.first_point + 1,
         Low({Len(lib.points), e.first_point + e.point_count}))

IsDrawable(lib, e) == ~IsReferenceKind(e.kind) /\ ElementPoints(lib, e) # <<>>

ElementBounds(lib, e) ==
  IF e.bounds # NoBounds THEN e.bounds ELSE PointBounds(ElementPoints(lib, e))

StartCell(p) ==
  LET warned == IF p.cell # NoIndex THEN Warn(p, "cell inside a cell") ELSE p
  IN  [warned EXCEPT !.lib.cells = Append(@, NewCell), !.cell = Len(p.lib.cells)]

SetCurrentCellName(p, name) ==
  IF p.cell = NoIndex THEN Warn(p, "name outside a cell")
                      ELSE [p EXCEPT !.lib.cells[p.cell + 1].name = name]

\* The open reference takes its place from the points of its element.
PlacedReference(ref, points) ==
  LET apart(k) == Point(points[k].x - points[1].x, points[k].y - points[1].y)
  IN  IF points = <<>> THEN ref
      ELSE IF ref.kind = "Aref" /\ Len(points) >= 3
      THEN [ref EXCEPT !.origin = points[1], !.column_vector = apart(2), !.row_vector = apart(3)]
      ELSE [ref EXCEPT !.origin = points[1]]

\* Without bounds from an XY record the code takes the box of the points, or
\* none when there are none.
Closed(p, points) ==
  LET e == p.element[1]
  IN  [e EXCEPT
        !.bounds = IF @ = NoBounds /\ points # <<>> THEN PointBounds(points) ELSE @,
        !.reference = IF p.reference = <<>> THEN @ ELSE Len(p.lib.references)]

FinishElement(p) ==
  IF p.element = <<>> THEN Warn(p, "end without an element")
  ELSE
    LET points == ElementPoints(p.lib, p.element[1])
        e      == Closed(p, points)
        index  == Len(p.lib.elements)
        drawn  == ~IsReferenceKind(e.kind) /\ points # <<>>
        known  == \E k \in DOMAIN p.lib.samples :
                     /\ p.lib.samples[k].layer = e.layer
                     /\ p.lib.samples[k].datatype = e.datatype
        cell   == p.lib.cells[e.cell + 1]
        isRef  == p.reference # <<>>
    IN [p EXCEPT
         !.element = <<>>, !.reference = <<>>,
         !.lib.elements = Append(@, e),
         !.lib.references =
            IF isRef THEN Append(@, PlacedReference(p.reference[1], points)) ELSE @,
         !.lib.cells[e.cell + 1] =
            [cell EXCEPT !.elements = Append(@, index),
                         !.references = IF isRef THEN Append(@, e.reference) ELSE @,
                         !.bounds = IF e.bounds = NoBounds THEN @ ELSE ExpandBounds(@, e.bounds)],
         !.lib.samples = IF drawn /\ ~known
                         THEN Append(@, [layer |-> e.layer, datatype |-> e.datatype,
                                         element |-> index])
                         ELSE @,
         !.lib.texts = IF drawn /\ e.kind = "Text" THEN Append(@, index) ELSE @]

StartElement(p, kind) ==
  IF p.cell = NoIndex THEN Warn(p, "element outside a cell")
  ELSE
    LET free == IF p.element = <<>> THEN p
                ELSE FinishElement(Warn(p, "element inside an element"))
    IN  [free EXCEPT !.element = <<NewElement(kind, p.cell)>>,
                     !.reference = IF IsReferenceKind(kind) THEN <<NewReference(kind, p.cell)>>
                                                            ELSE @]

\* Bug: a second XY record adds its points to those of the first.
ParseXyTogether(p, numbers) ==
  LET points == [k \in 1 .. Len(numbers) \div 2 |-> Point(numbers[2 * k - 1], numbers[2 * k])]
      warned == IF Len(numbers) % 2 # 0 THEN Warn(p, "odd coordinates") ELSE p
      first  == p.element[1].point_count = 0
  IN  IF p.element = <<>> THEN warned
      ELSE [warned EXCEPT
             !.lib.points = @ \o points,
             !.element[1].first_point = IF first THEN Len(p.lib.points) ELSE @,
             !.element[1].point_count = @ + Len(points),
             !.element[1].bounds = IF points = <<>> THEN NoBounds ELSE PointBounds(points)]

\* The latest XY of an element counts; the points of earlier ones stay behind
\* in the arena.
ParseXy(p, numbers) ==
  LET points == [k \in 1 .. Len(numbers) \div 2 |-> Point(numbers[2 * k - 1], numbers[2 * k])]
      warned == IF Len(numbers) % 2 # 0 THEN Warn(p, "odd coordinates") ELSE p
  IN  IF p.element = <<>> THEN warned
      ELSE [warned EXCEPT
             !.lib.points = @ \o points,
             !.element[1].first_point = Len(p.lib.points),
             !.element[1].point_count = Len(points),
             !.element[1].bounds = IF points = <<>> THEN NoBounds ELSE PointBounds(points)]

ParseColRow(p, values) ==
  IF Len(values) < 2 THEN Warn(p, "missing value")
  ELSE IF p.reference = <<>> THEN p
  ELSE [p EXCEPT !.reference[1].columns = High({values[1], 1}),
                 !.reference[1].rows = High({values[2], 1})]

\* The record's value to a field of the open element; firstInt2 warns of a
\* record without one, open element or not.
SetElement(p, values, field) ==
  IF values = <<>> THEN Warn(p, "missing value")
  ELSE IF p.element = <<>> THEN p
  ELSE [p EXCEPT !.element[1][field] = values[1]]

\* The same for the open reference, with a default where the code has one.
SetReference(p, values, field, default) ==
  LET warned == IF values = <<>> THEN Warn(p, "missing value") ELSE p
  IN  IF p.reference = <<>> \/ (values = <<>> /\ field = "reflected") THEN warned
      ELSE [warned EXCEPT !.reference[1][field] = IF values = <<>> THEN default ELSE values[1]]

\* values[1] is the number of database units in a micron, as UNITS gives it.
ParseUnits(p, values) ==
  IF values = <<>> THEN Warn(p, "missing value")
  ELSE IF values[1] > 0 THEN [p EXCEPT !.lib.units_per_micron = values[1]] ELSE p

UnsupportedSampleLimit == 4

\* The first records of an unsupported type are reported one by one.
UnsupportedRecord(p, type) ==
  LET seen == Cardinality({k \in DOMAIN p.unsupported : p.unsupported[k] = type})
      more == [p EXCEPT !.unsupported = Append(@, type)]
  IN  IF seen < UnsupportedSampleLimit THEN Warn(more, "unsupported") ELSE more

\* One warning for each type of which records were passed over in silence.
FlushUnsupported(p) ==
  LET types == {type \in Range(p.unsupported) :
                  Cardinality({k \in DOMAIN p.unsupported : p.unsupported[k] = type})
                    > UnsupportedSampleLimit}
  IN  [p EXCEPT !.lib.diagnostics = @ \o [k \in 1 .. Cardinality(types) |-> "suppressed"]]

ElementKinds == [BOUNDARY |-> "Boundary", PATH |-> "Path", SREF |-> "Sref",
                 AREF |-> "Aref", TEXT |-> "Text"]

ElementFields == [LAYER |-> "layer", DATATYPE |-> "datatype", TEXTTYPE |-> "texttype"]

HandleRecord(p, record) ==
  LET type   == record.type
      values == record.values
  IN  CASE type = "HEADER" ->
             IF values = <<>> THEN Warn(p, "missing value")
                              ELSE [p EXCEPT !.lib.version = values[1]]
        [] type = "LIBNAME" -> [p EXCEPT !.lib.name = values]
        [] type = "UNITS" -> ParseUnits(p, values)
        [] type = "BGNSTR" -> StartCell(p)
        [] type = "STRNAME" -> SetCurrentCellName(p, values)
        [] type = "ENDSTR" -> [p EXCEPT !.cell = NoIndex]
        [] type \in DOMAIN ElementKinds -> StartElement(p, ElementKinds[type])
        [] type \in DOMAIN ElementFields -> SetElement(p, values, ElementFields[type])
        [] type = "XY" -> ParseXy(p, values)
        [] type = "SNAME" ->
             IF p.reference = <<>> THEN p ELSE [p EXCEPT !.reference[1].name = values]
        [] type = "COLROW" -> ParseColRow(p, values)
        [] type = "STRANS" -> SetReference(p, values, "reflected", FALSE)
        [] type = "MAG" -> SetReference(p, values, "magnification", 1)
        [] type = "ANGLE" -> SetReference(p, values, "angle", 0)
        [] type = "STRING" ->
             IF p.element = <<>> THEN p ELSE [p EXCEPT !.element[1].text = values]
        [] type = "ENDEL" -> FinishElement(p)
        [] type \in {"BGNLIB", "ENDLIB", "WIDTH", "PRESENTATION"} -> p
        [] OTHER -> UnsupportedRecord(p, type)

\* Every record up to the end of the file or to what breaks the reader off,
\* which can only be the last record.
ReadRecords(records) ==
  FoldLeft(HandleRecord, Fresh, SelectSeq(records, LAMBDA r : r # Broken))

\* What is open at the end is closed; a break leaves it open, and out.
EndOfFile(p) ==
  LET inCell == IF p.cell = NoIndex THEN p
                ELSE [Warn(p, "ended in a cell") EXCEPT !.cell = NoIndex]
  IN  IF p.element = <<>> THEN inCell
      ELSE FinishElement(Warn(inCell, "ended in an element"))

\* The cell a name stands for: the last of that name.
CellNamed(cells, name) ==
  LET of == {k \in DOMAIN cells : cells[k].name = name /\ name # <<>>}
  IN  IF of = {} THEN NoIndex ELSE High(of) - 1

ResolveReferences(lib) ==
  LET target(ref) == CellNamed(lib.cells, ref.name)
      nameless    == SelectSeq(lib.cells, LAMBDA c : c.name = <<>>)
      dangling    == SelectSeq(lib.references, LAMBDA r : target(r) = NoIndex)
  IN  [lib EXCEPT
        !.references = [k \in DOMAIN @ |-> [@[k] EXCEPT !.target = target(lib.references[k])]],
        !.diagnostics = @ \o [k \in DOMAIN nameless |-> "nameless cell"]
                          \o [k \in DOMAIN dangling |-> "missing target"]]

\* The first cell no reference names; with none, the first cell, and a warning.
InferTopCell(lib) ==
  LET named == {lib.references[k].target : k \in DOMAIN lib.references}
      tops  == (0 .. Len(lib.cells) - 1) \ named
      top   == IF tops = {} THEN 0 ELSE Low(tops)
      found == [lib EXCEPT !.top = top, !.cells[top + 1].is_top = TRUE]
  IN  CASE lib.cells = <<>> -> lib
        [] lib.cells # <<>> /\ tops = {} ->
             [found EXCEPT !.diagnostics = Append(@, "no top cell")]
        [] OTHER -> found

Parse(records) ==
  LET read == ReadRecords(records)
      done == IF Contains(records, Broken) THEN Warn(read, "error") ELSE EndOfFile(read)
  IN  InferTopCell(ResolveReferences(FlushUnsupported(done).lib))

-----------------------------------------------------------------------------
(* What a layout source keeps of a library.                                *)

\* A source of LEF and DEF files has no library.
NoLibrary == <<>>
HasGds(data) == data.gds # NoLibrary

EmptyData(title) ==
  [title |-> title, gds |-> NoLibrary, units |-> 1000, layers |-> <<>>, bounds |-> NoBounds,
   vias |-> <<>>, sites |-> <<>>, macros |-> <<>>, components |-> <<>>, pins |-> <<>>, nets |-> <<>>,
   shapes |-> <<>>, diagnostics |-> <<>>]

LayerLabel(layer) ==
  <<"G", "D", "S", ":", ToString(layer.layer), "/", ToString(layer.datatype)>>

RegisterGdsLayers(lib) ==
  [k \in DOMAIN lib.samples |-> [layer |-> lib.samples[k].layer, datatype |-> lib.samples[k].datatype]]

HasGdsLayer(layers, e) == [layer |-> e.layer, datatype |-> e.datatype] \in Range(layers)
FindGdsLayer(layers, e) ==
  (CHOOSE k \in DOMAIN layers : layers[k] = [layer |-> e.layer, datatype |-> e.datatype]) - 1

ShapeKind(e) == CASE e.kind = "Path" -> "Path" [] e.kind = "Text" -> "Text" [] OTHER -> "Polygon"

DirectDrawableCellBounds(lib, cell) ==
  LET drawn == {lib.elements[k + 1] : k \in Range(cell.elements)}
      boxes == {Corners(ElementBounds(lib, e)) : e \in {x \in drawn : IsDrawable(lib, x)}}
  IN  IF boxes = {} THEN NoBounds ELSE BoxOf(UNION boxes)

\* The bounds of a cell and of all below it, each cell's once: known maps the
\* cells that are done to their bounds, visiting holds the ones under way.
\* A cell met again while under way has the bounds the parser gave it.
RECURSIVE ResolveCell(_, _, _, _), ResolveReferencesOf(_, _, _, _, _)

ResolveCell(lib, index, visiting, known) ==
  IF index \in DOMAIN known \cup visiting THEN known
  ELSE LET cell   == Item(lib.cells, index)
           direct == DirectDrawableCellBounds(lib, cell)
           below  == ResolveReferencesOf(lib, cell.references, visiting \cup {index}, known, direct)
       IN  below.known @@ (index :> below.bounds)

ResolveReferencesOf(lib, references, visiting, known, bounds) ==
  IF references = <<>> THEN [known |-> known, bounds |-> bounds]
  ELSE LET ref    == Item(lib.references, Head(references))
           skip   == ~HasItem(lib.cells, ref.target)
           nowKnown == IF skip THEN known ELSE ResolveCell(lib, ref.target, visiting, known)
           target == CASE skip -> NoBounds
                       [] ~skip /\ ref.target \in DOMAIN nowKnown -> nowKnown[ref.target]
                       [] OTHER -> Item(lib.cells, ref.target).bounds
           wider  == IF target = NoBounds THEN bounds
                     ELSE ExpandBounds(bounds, ReferenceArrayBounds(ref, target))
       IN  ResolveReferencesOf(lib, Tail(references), visiting, nowKnown, wider)

\* Cell after cell, in their order.
ResolveHierarchyBounds(lib) ==
  LET known == FoldLeft(LAMBDA done, index : ResolveCell(lib, index, {}, done), <<>>,
                        [k \in DOMAIN lib.cells |-> k - 1])
  IN  [lib EXCEPT !.cells = [k \in DOMAIN @ |-> [@[k] EXCEPT !.bounds = known[k - 1]]]]

\* What is loaded from a file's records, under the title of the file.
Resolved(lib) == IF lib.top = NoIndex THEN lib ELSE ResolveHierarchyBounds(lib)

DataSetOf(lib, title) ==
  [EmptyData(title) EXCEPT
     !.gds = lib,
     !.units = lib.units_per_micron,
     !.layers = RegisterGdsLayers(lib),
     !.diagnostics = lib.diagnostics,
     !.bounds = IF lib.top = NoIndex THEN NoBounds ELSE Item(lib.cells, lib.top).bounds]

LoadGdsLayoutDataSet(records, title) == DataSetOf(Resolved(Parse(records)), title)

NoInstance == [path |-> <<>>, cell |-> NoIndex]

TransformedPoints(t, points) == Map(points, LAMBDA p : ApplyTransform(t, p))

\* A drawable element as a shape under a transform, in an instance if any.
ElementShape(data, index, t, instance) ==
  LET e      == Item(data.gds.elements, index)
      points == TransformedPoints(t, ElementPoints(data.gds, e))
  IN  [kind |-> ShapeKind(e), owner_kind |-> "Element", owner |-> index, cell |-> e.cell,
       layer |-> FindGdsLayer(data.layers, e), datatype |-> e.datatype,
       points |-> points, rect |-> PointBounds(points), instance |-> instance]

\* The shapes of a cell and of everything below it; a cell within itself is
\* passed over.
RECURSIVE FlattenCell(_, _, _, _)
FlattenCell(data, index, t, stack) ==
  IF index \in stack THEN <<>>
  ELSE
    LET gds   == data.gds
        cell  == Item(gds.cells, index)
        drawn == SelectSeq(cell.elements, LAMBDA k : IsDrawable(gds, Item(gds.elements, k)))
        whole == SelectSeq(cell.references,
                           LAMBDA k : HasItem(gds.cells, Item(gds.references, k).target))
        instances(k) ==
          LET ref  == Item(gds.references, k)
              rows == High(Rows(ref)) + 1
              at(i) == ReferenceTransform(ref, (i - 1) \div rows, (i - 1) % rows)
          IN  ForEach(UpTo((High(Columns(ref)) + 1) * rows),
                      LAMBDA i : FlattenCell(data, ref.target, ComposeTransforms(t, at(i)),
                                             stack \cup {index}))
    IN  Map(drawn, LAMBDA k : ElementShape(data, k, t, NoInstance)) \o ForEach(whole, instances)

\* The cells of a geometry request, or the top cell when it names none.
FlattenRequestedCells(data, roots) ==
  LET asked == IF roots # <<>> \/ data.gds.top = NoIndex THEN roots ELSE <<data.gds.top>>
  IN  ForEach(asked, LAMBDA root : FlattenCell(data, root, Identity, {}))

\* The letters used, capital and small.
Letter == [A |-> "a", D |-> "d", G |-> "g", I |-> "i", M |-> "m", O |-> "o", P |-> "p", S |-> "s",
           T |-> "t"]
Lower(text) == [k \in DOMAIN text |->
                  IF text[k] \in DOMAIN Letter THEN Letter[text[k]] ELSE text[k]]

ContainsIgnoringCase(value, needle) ==
  \E k \in 0 .. Len(value) - Len(needle) :
     SubSeq(Lower(value), k + 1, k + Len(needle)) = Lower(needle)
=============================================================================
