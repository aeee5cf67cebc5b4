----------------------------- MODULE LayoutWire -----------------------------
(***************************************************************************)
(* The payloads of the layout protocol (layout/LayoutBinaryProtocol.cpp):  *)
(* the bytes of the answers, with the places their headers give, and the   *)
(* requests that are read from bytes.  Times and counters are left out (a  *)
(* zero is in their place), and so are the bytes of the catalog, of which  *)
(* there are the rows.  Of enumerations the answers carry the names and    *)
(* the requests the codes.                                                 *)
(***************************************************************************)
EXTENDS LayoutSpatialIndex, LefDefParser, BinaryPayload

(* What a client is told of a source before any shape: the greeting, and   *)
(* the catalog with its tables.  A row names its string by its place in    *)
(* the table of strings, and lengths are in microns, which are the         *)
(* database units again by the units that are sent along.                  *)

\* Bug: the places of a macro's pins are counted from the macro's own shapes.
PinShapeRangeInMacro(data, macro, pin) ==
  LET own    == SelectSeq(data.shapes, LAMBDA s : s.macro = macro)
      shapes == {k \in DOMAIN own : own[k].owner_kind = "Pin" /\ own[k].owner = pin}
  IN  [first |-> IF shapes = {} THEN NoIndex ELSE Low(shapes) - 1, count |-> Cardinality(shapes)]

\* The first place and the number of the shapes of a pin: one of a macro, or
\* of the design when there is none.
PinShapeRange(data, macro, pin) ==
  LET shapes == {k \in DOMAIN data.shapes : /\ data.shapes[k].owner_kind = "Pin"
                                            /\ data.shapes[k].macro = macro
                                            /\ data.shapes[k].owner = pin}
  IN  [first |-> IF shapes = {} THEN NoIndex ELSE Low(shapes) - 1, count |-> Cardinality(shapes)]

\* A layer of a library has a name alone.
LayerRow(data, layer) ==
  IF HasGds(data) THEN [name |-> LayerLabel(layer), kind |-> "Unknown"]
  ELSE
  [name |-> layer.name, kind |-> layer.kind, pitch |-> ValueOr(layer.pitch, Zero),
   width |-> ValueOr(layer.width, Zero), spacing |-> ValueOr(layer.spacing, Zero)]

MacroRow(macro) ==
  [name |-> macro.name, class |-> macro.class, origin_x |-> macro.origin_x, origin_y |-> macro.origin_y,
   size_x |-> macro.size_x, size_y |-> macro.size_y, pins |-> Len(macro.pins)]

MacroPinRows(data, index) ==
  LET row(k, pin) == [macro |-> index, pin |-> k - 1, name |-> pin.name, use |-> pin.use,
                      direction |-> pin.direction, range |-> PinShapeRange(data, index, k - 1)]
      pins == Item(data.macros, index).pins
  IN  [k \in DOMAIN pins |-> row(k, pins[k])]

PinRow(data, index) ==
  LET pin == Item(data.pins, index)
  IN  [name |-> pin.name, net |-> pin.net, status |-> pin.status, at |-> pin.at,
       orientation |-> pin.orientation, range |-> PinShapeRange(data, NoIndex, index)]

NetRow(net) == [name |-> net.name, connections |-> Len(net.connections),
                shapes |-> Len(net.shapes), special |-> net.special]

\* A cell tells the first of its references and elements, and how many.
CellRow(cell) ==
  [name |-> cell.name, top |-> cell.is_top, bounds |-> cell.bounds,
   first_reference |-> IF cell.references = <<>> THEN 0 ELSE Head(cell.references),
   references |-> Len(cell.references),
   first_element |-> IF cell.elements = <<>> THEN 0 ELSE Head(cell.elements),
   elements |-> Len(cell.elements)]

ReferenceRow(ref) ==
  [parent |-> ref.parent, target |-> ref.target, kind |-> ref.kind, name |-> ref.name,
   reflected |-> ref.reflected, magnification |-> ref.magnification, angle |-> ref.angle,
   origin |-> ref.origin, columns |-> ref.columns, rows |-> ref.rows,
   column_vector |-> ref.column_vector, row_vector |-> ref.row_vector]

ElementRow(e) ==
  [cell |-> e.cell, kind |-> e.kind, layer |-> e.layer, datatype |-> e.datatype,
   reference |-> e.reference, first_point |-> e.first_point, point_count |-> e.point_count,
   text |-> e.text]

\* encodeCatalogResponsePayload; the tables of the library are empty for LEF
\* and DEF, the others for GDSII.
DesignCatalog(data) ==
  [source |-> "lefdef", units |-> data.units, shapes |-> Len(data.shapes), bounds |-> data.bounds # NoBounds,
   layers |-> Map(data.layers, LAMBDA l : LayerRow(data, l)), macros |-> Map(data.macros, MacroRow),
   macro_pins |-> ForEach(UpTo(Len(data.macros)), LAMBDA k : MacroPinRows(data, k - 1)),
   vias |-> Map(data.vias, LAMBDA v : [name |-> v.name, shapes |-> Len(v.shapes)]),
   components |-> data.components,
   pins |-> Map(UpTo(Len(data.pins)), LAMBDA k : PinRow(data, k - 1)),
   nets |-> Map(data.nets, NetRow), diagnostics |-> data.diagnostics]

LibraryRows(gds) ==
  [cells |-> Map(gds.cells, CellRow), references |-> Map(gds.references, ReferenceRow),
   elements |-> Map(gds.elements, ElementRow), points |-> gds.points]

LibraryCatalog(data) ==
  [source |-> "gds", units |-> data.units, shapes |-> 0, bounds |-> data.bounds # NoBounds,
   top |-> data.gds.top, layers |-> Map(data.layers, LAMBDA l : LayerRow(data, l)),
   rows |-> LibraryRows(data.gds), diagnostics |-> data.diagnostics]

WholeCatalog(data) == IF HasGds(data) THEN LibraryCatalog(data) ELSE DesignCatalog(data)

\* encodeHelloResponsePayload.
HelloOf(data) ==
  [layers |-> Len(data.layers), bounds |-> data.bounds,
   cells |-> IF HasGds(data) THEN Len(data.gds.cells) ELSE Len(data.macros),
   components |-> Len(data.components), nets |-> Len(data.nets), shapes |-> Len(data.shapes),
   diagnostics |-> Len(data.diagnostics)]

\* buildPagedStringTable.
PagedStrings(data) ==
  Map(data.layers, LAMBDA l : LayerRow(data, l).name)
  \o ForEach(data.macros, LAMBDA m : <<m.name, m.class>> \o ForEach(m.pins, LAMBDA pin : <<pin.name, pin.use>>))
  \o Map(data.vias, LAMBDA v : v.name)
  \o ForEach(data.components, LAMBDA c : <<c.name, c.macro, c.orientation>>)
  \o ForEach(data.pins, LAMBDA pin : <<pin.name, pin.net, pin.orientation>>)
  \o Map(data.nets, LAMBDA net : net.name)
  \o (IF ~HasGds(data) THEN <<>>
      ELSE Map(data.gds.cells, LAMBDA c : c.name) \o Map(data.gds.references, LAMBDA r : r.name)
           \o Map(data.gds.elements, LAMBDA e : e.text))
  \o data.diagnostics

-----------------------------------------------------------------------------
(* Frames. *)

ProtocolVersion == 3

Zeros(count) == [k \in 1 .. count |-> U8(0)[1]]

\* A payload whose header of the given size begins with the magic, the version
\* and the size, and is written over the zeros kept free for it.
Payload(magic, size, fields, body) ==
  WriteOver(Bytes(<<U32(magic), U16(ProtocolVersion), U16(size)>> \o fields), Zeros(size) \o body)

\* toMicrons: a quotient, which a client has in units again by multiplying.
Microns(value, units) == [units |-> value, per_micron |-> IF units = 0 THEN 1 ELSE units]

\* The parts of a rectangle, in microns.
MicronRect(r, units) ==
  Map(<<r.x0, r.y0, r.x1, r.y1>>, LAMBDA v : F64(Microns(v, units)))

-----------------------------------------------------------------------------
(* Answers.                                                                *)

HelloPayload(data) ==
  LET hello == HelloOf(data)
  IN  Bytes(<<U16(ProtocolVersion), U16(0), U32(data.units),
              U32(hello.layers), U32(hello.cells), U32(hello.components), U32(hello.nets),
              U32(hello.shapes), U32(hello.diagnostics)>>
            \o MicronRect(BoundsOrZero(data.bounds), data.units))

\* The summary: the first 64 layers and the sizes of the tables.
SummaryPayload(data) ==
  LET catalog == WholeCatalog(data)
      isGds   == HasGds(data)
      limit   == Low({Len(data.layers), 64})
      layers  == SubSeq(catalog.layers, 1, limit)
      names   == TableOffsets(Map(layers, LAMBDA l : l.name))
      row(k)  == Bytes(<<U32(names[k]), U16(layers[k].kind), U16(0), F64(0), F64(0), F64(0)>>)
      rows    == ForEach(UpTo(limit), row)
      strings == ForEach(layers, LAMBDA l : String(l.name))
      count(table) == IF isGds THEN Len(catalog.rows[table]) ELSE 0
  IN  Payload("PLCS", 152,
        <<U32(data.units), U32(catalog.source), U32(catalog.shapes), U32(catalog.bounds),
          U32(IF isGds THEN data.gds.top ELSE NoIndex)>>
        \o MicronRect(BoundsOrZero(data.bounds), data.units)
        \o <<U32(Len(data.layers)), U32(152), U32(limit), U32(Len(data.macros)), U32(Len(data.components)),
             U32(Len(data.pins)), U32(Len(data.nets)), U32(count("cells")), U32(count("references")),
             U32(count("elements")), U32(count("points")), U32(Len(PagedStrings(data))),
             U32(Len(data.diagnostics)), U32(Len(Align(rows, 4)) + 152), U32(Len(strings))>>,
        Align(rows, 4) \o strings)

\* A row for each shape, then its box and its points in columns.
MacroOf(data, shape) == IF HasGds(data) THEN shape.cell ELSE shape.macro

FirstPoints(shapes) ==
  [k \in DOMAIN shapes |->
     FoldLeft(LAMBDA sum, s : sum + Len(s.points), 0, SubSeq(shapes, 1, k - 1))]

ShapeRow(data, shape, first) ==
  Bytes(<<U32(shape.layer), U16(shape.kind), U16(shape.owner_kind), U32(shape.owner),
          U32(MacroOf(data, shape)), U32(0), U32(first), U32(Len(shape.points))>>)

\* A column of numbers of eight bytes.
Column(values, units) ==
  [k \in 1 .. 8 * Len(values) |->
     IF k % 8 = 1 THEN F64(Microns(values[(k + 7) \div 8], units))[1] ELSE Rest]

GeometryPayload(data, shapes, truncated) ==
  LET first  == FirstPoints(shapes)
      points == FlattenSeq(<<>> \o Map(shapes, LAMBDA s : s.points))
      rows   == ForEach(UpTo(Len(shapes)), LAMBDA k : ShapeRow(data, shapes[k], first[k]))
      start  == Len(Align(Zeros(96) \o rows, 8))
      box(k) == start + 8 * k * Len(shapes)
      column(values) == Column(values, data.units)
      columns == column(Map(shapes, LAMBDA s : s.rect.x0)) \o column(Map(shapes, LAMBDA s : s.rect.y0))
                 \o column(Map(shapes, LAMBDA s : s.rect.x1)) \o column(Map(shapes, LAMBDA s : s.rect.y1))
                 \o column(Map(points, LAMBDA p : p.x)) \o column(Map(points, LAMBDA p : p.y))
  IN  Payload("PLGE", 96,
        <<U32(data.units), U32(Len(shapes)), U32(Len(points)), U32(IF truncated THEN 1 ELSE 0), U32(96),
          U32(box(0)), U32(box(1)), U32(box(2)), U32(box(3)),
          U32(box(4)), U32(box(4) + 8 * Len(points)), U32(start + Len(columns))>>,
        rows \o Zeros(start - 96 - Len(rows)) \o columns)

\* A geometry within a header of its own.
TilePayload(data, tile) ==
  LET geometry == GeometryPayload(data, tile.shapes, tile.truncated)
  IN  Payload("PLTG", 108,
        <<U32(IF tile.truncated THEN 1 ELSE 0), U32(tile.next), U32(108), U32(Len(geometry)),
          U32(Len(tile.shapes)), U32(108 + Len(geometry))>>, geometry)

ObjectFields(object) ==
  <<U32(object.cell), U32(object.reference), U32(object.element), U32(object.layer), U32(object.datatype)>>

HitRow(data, hit) ==
  Bytes(<<U16(hit.object.kind), U16(0)>> \o ObjectFields(hit.object)
        \o <<U32(hit.rank), U32(0), U64(hit.object.instance), F64(hit.distance)>>
        \o MicronRect(hit.bounds, data.units))

HitPayload(data, hits) ==
  LET rows == ForEach(hits, LAMBDA hit : HitRow(data, hit))
  IN  Payload("PLHT", 64, <<U32(Len(hits)), U32(64), U32(80), U32(64 + Len(rows)), U32(0), U32(0)>>, rows)

\* The name, the text and the path follow the header; it gives the start of
\* their table and the place of each in it.
InspectPayload(data, told) ==
  LET texts   == <<told.name, told.text, told.path>>
      offsets == TableOffsets(texts)
      strings == ForEach(texts, String)
  IN  Payload("PLIN", 144,
        <<U32(told.object.kind)>> \o ObjectFields(told.object) \o <<U64(told.object.instance),
          U32(told.layer), U32(told.datatype), U32(0), U32(told.element_kind), U32(told.reference_kind),
          U32(offsets[1]), U32(offsets[2]), U32(144), U32(Len(strings)), U32(144 + Len(strings)), U32(0)>>
        \o MicronRect(told.bounds, data.units)
        \o <<U32(told.class), U32(told.cell), U32(offsets[3])>>, strings)

SearchRow(data, match, label) ==
  Bytes(<<U16(match.object.kind), U16(match.class)>> \o ObjectFields(match.object)
        \o <<U32(label), U32(0), U64(match.object.instance), U32(match.cell), U32(match.rank), U32(0), U32(0)>>
        \o MicronRect(match.bounds, data.units))

\* The labels of the rows are in a table behind them.
SearchPayload(data, results) ==
  LET labels  == TableOffsets(Map(results, LAMBDA r : r.label))
      rows    == ForEach(UpTo(Len(results)), LAMBDA k : SearchRow(data, results[k], labels[k]))
      strings == ForEach(results, LAMBDA r : String(r.label))
      start   == 56 + Len(rows)
  IN  Payload("PLSR", 56,
        <<U32(Len(results)), U32(56), U32(88), U32(start), U32(Len(strings)),
          U32(start + Len(strings))>>, rows \o strings)

StatusPayload(status) ==
  LET strings == String(<<>>)
  IN  Payload("PLST", 116,
        <<U32("Ready"), U32("Ready"), U64(0), U64(0), U32(0), U32(status.cells), U32(status.references),
          U32(status.elements), U32(status.points), U32(0), U32(status.diagnostics),
          U64(0), U64(0), U64(0), U32(status.scheduled), U32(status.ready), U32(116), U32(Len(strings))>>,
        strings)

-----------------------------------------------------------------------------
(* Requests, as they are read.  What is cut, or longer than it says, or has *)
(* a flag that is not supported is an error, and nothing is asked for.      *)

NoRequest == [error |-> "payload"]

ReadRect(bytes, offset) ==
  Rect(ReadF64(bytes, offset), ReadF64(bytes, offset + 8), ReadF64(bytes, offset + 16),
       ReadF64(bytes, offset + 24))

\* Lists of numbers that follow each other.
ReadLists(bytes, offset, count) ==
  FoldLeft(LAMBDA done, k : LET list == ReadU32List(bytes, done.end)
                            IN  [lists |-> Append(done.lists, list.values), end |-> list.end],
           [lists |-> <<>>, end |-> offset], UpTo(count))

KindOf(code) == CASE code = 1 -> "Rect" [] code = 2 -> "Polygon" [] code = 3 -> "Placement"
                  [] code = 4 -> "Path" [] code = 5 -> "Text" [] OTHER -> "Unknown"
Kinds(codes) == {KindOf(codes[k]) : k \in DOMAIN codes}

\* The end of the optional box of a request: a box is there with the flag 1.
AfterBox(flags, offset) == IF flags % 2 = 1 THEN offset + 32 ELSE offset
BoxOrNone(bytes, flags, offset) == IF flags % 2 = 1 THEN ReadRect(bytes, offset) ELSE NoBounds

DecodeGeometryRequest(bytes) ==
  LET flags == ReadU32(bytes, 0)
      read  == ReadLists(bytes, AfterBox(flags, 8), IF flags \div 2 = 1 THEN 4 ELSE 2)
      lists == read.lists \o IF flags \div 2 = 1 THEN <<>> ELSE <<<<>>, <<>>>>
  IN  IF flags \notin 0 .. 3 \/ read.end # Len(bytes) THEN NoRequest
      ELSE [max_shapes |-> ReadU32(bytes, 4), bbox |-> BoxOrNone(bytes, flags, 8),
            layers |-> Range(lists[1]), kinds |-> Kinds(lists[2]), macros |-> Range(lists[3]),
            roots |-> lists[4]]

\* A tile and the token that it goes on from.
DecodeTileRequest(bytes) ==
  LET flags == ReadU32(bytes, 0)
      read  == ReadLists(bytes, AfterBox(flags, 28), 3)
      request == [root |-> ReadU32(bytes, 4), max_shapes |-> ReadU32(bytes, 8),
                  max_points |-> ReadU32(bytes, 12), max_bytes |-> ReadU32(bytes, 16),
                  lod |-> ReadU32(bytes, 20), bbox |-> BoxOrNone(bytes, flags, 28),
                  layers |-> Range(read.lists[1]), kinds |-> Kinds(read.lists[2]),
                  datatypes |-> Range(read.lists[3])]
  IN  IF flags \notin 0 .. 1 \/ read.end # Len(bytes) THEN NoRequest
      ELSE [tile |-> request, token |-> ReadU32(bytes, 24)]

\* A radius below zero is none.
DecodeHitRequest(bytes) ==
  LET read == ReadLists(bytes, 36, 3)
  IN  IF ReadU32(bytes, 0) # 0 \/ read.end # Len(bytes) THEN NoRequest
      ELSE [root |-> ReadU32(bytes, 4), max_results |-> ReadU32(bytes, 8),
            point |-> Point(ReadF64(bytes, 12), ReadF64(bytes, 20)),
            radius |-> High({0, ReadF64(bytes, 28)}),
            layers |-> Range(read.lists[1]), kinds |-> Kinds(read.lists[2]),
            datatypes |-> Range(read.lists[3])]

ObjectKindOf(code) ==
  CASE code = 1 -> "Cell" [] code = 2 -> "Reference" [] code = 3 -> "Element" [] OTHER -> "Unknown"

\* The request of an inspection, and of a selection.
DecodeObject(bytes) ==
  IF ReadU32(bytes, 0) # 0 \/ Len(bytes) # 36 THEN NoRequest
  ELSE Object(ObjectKindOf(ReadU32(bytes, 4)), ReadU32(bytes, 8), ReadU32(bytes, 12),
              ReadU32(bytes, 16), ReadU32(bytes, 20), ReadU32(bytes, 24), ReadU64(bytes, 28))

\* The kinds of a search are the bits of a number.
SearchKinds(mask) ==
  {k \in {"cell", "reference", "text", "layer"} :
     (mask \div (CASE k = "cell" -> 1 [] k = "reference" -> 2 [] k = "text" -> 4 [] k = "layer" -> 8)) % 2 = 1}

DecodeSearchRequest(bytes) ==
  LET flags == ReadU32(bytes, 0)
      query == AfterBox(flags, 16)
  IN  IF flags \notin 0 .. 1 \/ ReadU32(bytes, query) = Torn
           \/ query + 4 + ReadU32(bytes, query) # Len(bytes) THEN NoRequest
      ELSE [max_results |-> ReadU32(bytes, 4), kinds |-> SearchKinds(ReadU32(bytes, 8)),
            root |-> ReadU32(bytes, 12), bbox |-> BoxOrNone(bytes, flags, 16),
            query |-> ReadText(bytes, query)]

CatalogTables == <<"layers", "cells", "references", "elements", "points", "strings", "diagnostics">>

DecodeCatalogRequest(bytes) ==
  IF \/ ReadU32(bytes, 0) # 0 \/ ReadU32(bytes, 4) \notin DOMAIN CatalogTables
     \/ ReadU32(bytes, 12) = NoIndex \/ Len(bytes) # 20 THEN NoRequest
  ELSE [table |-> CatalogTables[ReadU32(bytes, 4)], offset |-> ReadU32(bytes, 8),
        limit |-> ReadU32(bytes, 12), max_bytes |-> ReadU32(bytes, 16)]
=============================================================================
