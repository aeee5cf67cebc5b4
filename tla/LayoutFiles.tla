----------------------------- MODULE LayoutFiles ----------------------------
(***************************************************************************)
(* The files a layout source reads, as the tools write them, and what they *)
(* say.                                                                    *)
(*   A GDSII design is a sequence of cells [name, items]; an item is a     *)
(* shape [kind, layer, datatype, points, text, draft] or a placement       *)
(* [kind, name, reflected, magnification, angle, at, columns, rows,        *)
(* column_step, row_step].  A draft is an XY record the real one corrects. *)
(*   A LEF or DEF file is a sequence of parts [table, text, says]: the     *)
(* text of a row of a table with what it says, or text between rows, whose *)
(* table is "none".  Shapes are [kind, layer, points], the corners of a    *)
(* rectangle or the points of a polygon, in database units.                *)
(***************************************************************************)
EXTENDS LayoutWire

Rec(type, values) == [type |-> type, values |-> values]
Coordinates(points) == FlattenSeq([k \in DOMAIN points |-> <<points[k].x, points[k].y>>])
Plus(p, q) == Point(p.x + q.x, p.y + q.y)

IsPlacement(item) == IsReferenceKind(item.kind)

ShapeRecords(item) ==
  LET head == CASE item.kind = "Boundary" -> <<Rec("BOUNDARY", <<>>)>>
                [] item.kind = "Path" -> <<Rec("PATH", <<>>)>>
                [] item.kind = "Text" -> <<Rec("TEXT", <<>>)>>
  IN  head \o <<Rec("LAYER", <<item.layer>>)>>
      \o <<IF item.kind = "Text" THEN Rec("TEXTTYPE", <<0>>) ELSE Rec("DATATYPE", <<item.datatype>>)>>
      \o (IF item.kind = "Path" THEN <<Rec("WIDTH", <<1>>)>> ELSE <<>>)
      \o (IF item.draft = <<>> THEN <<>> ELSE <<Rec("XY", Coordinates(item.draft))>>)
      \o <<Rec("XY", Coordinates(item.points))>>
      \o (IF item.kind = "Text" THEN <<Rec("STRING", item.text)>> ELSE <<>>)
      \o <<Rec("ENDEL", <<>>)>>

\* An array gives its first place and those of the next column and row, as the
\* files of the repository's tests do.
PlacementRecords(item) ==
  LET corners == IF item.kind = "Sref" THEN <<item.at>>
                 ELSE <<item.at, Plus(item.at, item.column_step), Plus(item.at, item.row_step)>>
  IN  <<Rec(IF item.kind = "Sref" THEN "SREF" ELSE "AREF", <<>>), Rec("SNAME", item.name)>>
      \o (IF item.reflected \/ item.magnification # 1 \/ item.angle # 0
          THEN <<Rec("STRANS", <<item.reflected>>)>> ELSE <<>>)
      \o (IF item.magnification # 1 THEN <<Rec("MAG", <<item.magnification>>)>> ELSE <<>>)
      \o (IF item.angle # 0 THEN <<Rec("ANGLE", <<item.angle>>)>> ELSE <<>>)
      \o (IF item.kind = "Aref" THEN <<Rec("COLROW", <<item.columns, item.rows>>)>> ELSE <<>>)
      \o <<Rec("XY", Coordinates(corners)), Rec("ENDEL", <<>>)>>

CellRecords(cell) ==
  <<Rec("BGNSTR", <<>>), Rec("STRNAME", cell.name)>>
  \o FlattenSeq([k \in DOMAIN cell.items |->
        IF IsPlacement(cell.items[k]) THEN PlacementRecords(cell.items[k])
                                      ELSE ShapeRecords(cell.items[k])])
  \o <<Rec("ENDSTR", <<>>)>>

Records(design) ==
  <<Rec("HEADER", <<600>>), Rec("BGNLIB", <<>>), Rec("LIBNAME", <<"L">>), Rec("UNITS", <<2000>>)>>
  \o FlattenSeq([k \in DOMAIN design |-> CellRecords(design[k])])
  \o <<Rec("ENDLIB", <<>>)>>

-----------------------------------------------------------------------------
(* The drawing.  A placement mirrors what it places about the x axis, then *)
(* magnifies, turns and moves it.                                          *)

Turned(angle, p) == CASE angle = 0 -> p
                      [] angle = 90 -> Point(-p.y, p.x)
                      [] angle = 180 -> Point(-p.x, -p.y)
                      [] angle = 270 -> Point(p.y, -p.x)

Placed(item, column, row, p) ==
  LET mirrored == IF item.reflected THEN Point(p.x, -p.y) ELSE p
      turned   == Turned(item.angle, Point(item.magnification * mirrored.x,
                                           item.magnification * mirrored.y))
  IN  Point(turned.x + item.at.x + column * item.column_step.x + row * item.row_step.x,
            turned.y + item.at.y + column * item.column_step.y + row * item.row_step.y)

Moved(item, column, row, drawing) ==
  Map(drawing, LAMBDA shape :
        [shape EXCEPT !.points = Map(@, LAMBDA p : Placed(item, column, row, p))])

\* The shapes of a cell, first its own and then those it places, column by
\* column; not those of the cells in which it is drawn.
RECURSIVE Drawing(_, _, _)
Drawing(design, name, within) ==
  LET found == {k \in DOMAIN design : design[k].name = name /\ name \notin within}
      items == IF found = {} THEN <<>> ELSE design[CHOOSE k \in found : TRUE].items
      shape(item) == [kind |-> ShapeKind(item), layer |-> item.layer,
                      datatype |-> item.datatype, points |-> item.points]
      placed(item) ==
        LET target == Drawing(design, item.name, within \cup {name})
        IN  ForEach(UpTo(item.columns * item.rows),
                    LAMBDA i : Moved(item, (i - 1) \div item.rows, (i - 1) % item.rows, target))
      own    == SelectSeq(items, LAMBDA item : ~IsPlacement(item))
      others == SelectSeq(items, IsPlacement)
  IN  Map(own, shape) \o ForEach(others, placed)

-----------------------------------------------------------------------------
(* LEF and DEF files.                                                      *)

\* A statement is its words with blanks between them; a word that is not
\* written as a sequence of pieces is a piece.
Line(words) == FlattenSeq([k \in DOMAIN words |-> words[k] \o <<" ">>]) \o <<"\n">>
Lines(lines) == FlattenSeq([k \in DOMAIN lines |-> Line(lines[k])])
Word(piece) == <<piece>>
Words(pieces) == [k \in DOMAIN pieces |-> <<pieces[k]>>]
End == <<";">>

Part(table, text, says) == [table |-> table, text |-> text, says |-> says]
Plainly(text) == Part("none", text, <<>>)

RECURSIVE Digits(_)
Digits(n) == (IF n < 10 THEN <<>> ELSE Digits(n \div 10)) \o <<ToString(n % 10)>>

\* A number of database units, whole or in microns with four places.
Whole(n) == IF n < 0 THEN <<"-">> \o Digits(-n) ELSE Digits(n)
Micron(n, units) ==
  LET size  == ((IF n < 0 THEN -n ELSE n) * 10000) \div units
      parts == [k \in 1 .. 4 |-> ToString((size \div 10 ^ (4 - k)) % 10)]
  IN  (IF n < 0 THEN <<"-">> ELSE <<>>) \o Digits(size \div 10000) \o <<".">> \o parts
\* What a reader takes it for.
MicronNumber(n, units) == [num |-> (n * 10000) \div units, decimals |-> 4]

DrawnRect(layer, x0, y0, x1, y1) ==
  [kind |-> "Rect", layer |-> layer, points |-> <<Point(x0, y0), Point(x1, y1)>>]
DrawnPolygon(layer, points) == [kind |-> "Polygon", layer |-> layer, points |-> points]

Said(shape) ==
  [kind |-> shape.kind, layer |-> shape.layer, rect |-> PointBounds(shape.points),
   points |-> IF shape.kind = "Rect" THEN <<>> ELSE shape.points]

-----------------------------------------------------------------------------
(* LEF.                                                                    *)

Coordinates4(points, units) ==
  FlattenSeq([k \in DOMAIN points |-> <<Micron(points[k].x, units), Micron(points[k].y, units)>>])

LefShape(shape, units) ==
  Line(<<Word("LAYER"), shape.layer, End>>)
  \o Line(<<Word(IF shape.kind = "Rect" THEN "RECT" ELSE "POLYGON")>>
          \o Coordinates4(shape.points, units) \o <<End>>)
LefShapes(shapes, units) == FlattenSeq([k \in DOMAIN shapes |-> LefShape(shapes[k], units)])

Ending(name) == Line(<<Word("END"), name>>)

LayerPart(name, kind, pitch, units) ==
  Part("layers",
       Lines(<< <<Word("layer"), name>>, <<Word("TYPE"), Word(kind), End>>,
                <<Word("OFFSET"), Whole(0), End>>, <<Word("PITCH"), Micron(pitch, units), End>> >>)
       \o Line(<<Word("end"), name>>),
       [name |-> name, kind |-> kind, pitch |-> MicronNumber(pitch, units)])

ViaPart(name, shapes, units) ==
  Part("vias", Line(<<Word("VIA"), name>>) \o LefShapes(shapes, units) \o Ending(name),
       [name |-> name, shapes |-> Len(shapes)])

SitePart(name, size, units) ==
  Plainly(Lines(<< <<Word("SITE"), name>>, <<Word("CLASS"), Word("CORE"), End>>,
                   <<Word("SIZE"), Micron(size, units), Word("BY"), Micron(size, units), End>>,
                   <<Word("END"), name>> >>))

PinText(pin, units) ==
  Lines(<< <<Word("PIN"), pin.name>>, <<Word("DIRECTION"), Word(pin.direction), End>>,
           <<Word("USE"), pin.use, End>> >>)
  \o FlattenSeq([k \in DOMAIN pin.ports |->
       Line(<<Word("PORT")>>) \o LefShapes(pin.ports[k], units) \o Line(<<Word("END")>>)])
  \o Ending(pin.name)

MacroPart(macro, units) ==
  Part("macros",
       Lines(<< <<Word("MACRO"), macro.name>>, <<Word("CLASS"), Word("CORE"), Word("SPACER"), End>>,
                <<Word("ORIGIN"), Micron(macro.origin, units), Micron(0, units), End>>,
                <<Word("SIZE"), Micron(macro.size, units), Word("BY"), Micron(macro.size, units), End>> >>)
       \o FlattenSeq([k \in DOMAIN macro.pins |-> PinText(macro.pins[k], units)])
       \o Line(<<Word("OBS")>>) \o LefShapes(macro.obstructions, units) \o Line(<<Word("END")>>)
       \o Ending(macro.name),
       [name |-> macro.name, class |-> Words(<<"CORE", "SPACER">>),
        origin |-> MicronNumber(macro.origin, units), size |-> MicronNumber(macro.size, units),
        pins |-> Map(macro.pins, LAMBDA pin :
          [name |-> pin.name, direction |-> pin.direction, use |-> pin.use,
           shapes |-> Map(FlattenSeq(pin.ports), Said)]),
        obstructions |-> Map(macro.obstructions, Said)])

LefHead(units) ==
  Plainly(Lines(<< <<Word("VERSION"), <<"5", ".", "8">>, End>>, <<Word("#"), Word("MACRO"), Word(";")>>,
                   <<Word("UNITS")>>, <<Word("DATABASE"), Word("MICRONS"), Whole(units), End>>,
                   <<Word("END"), Word("UNITS")>> >>))
LefTail == Plainly(Line(<<Word("END"), Word("LIBRARY")>>))

-----------------------------------------------------------------------------
(* DEF.                                                                    *)

PointText(p) == <<Word("("), Whole(p.x), Whole(p.y), Word(")")>>
PointsText(points) == FlattenSeq([k \in DOMAIN points |-> PointText(points[k])])
PlacedText(status, at, orientation) ==
  <<Word("+"), Word(status)>> \o PointText(at) \o <<Word(orientation)>>

ComponentPart(name, macro, at) ==
  Part("components",
       Line(<<Word("-"), name, macro, Word("+"), Word("SOURCE"), Word("DIST")>>
            \o PlacedText("placed", at, "FN") \o <<End>>),
       [name |-> name, macro |-> macro, status |-> "PLACED", at |-> at, orientation |-> <<"FN">>])

DefPinPart(name, net, at, shapes) ==
  LET drawn(s) == <<Word("+"), Word("LAYER"), s.layer>> \o PointsText(s.points)
  IN  Part("pins",
           Line(<<Word("-"), name, Word("+"), Word("NET"), net>>
                \o FlattenSeq([k \in DOMAIN shapes |-> drawn(shapes[k])])
                \o PlacedText("FIXED", at, "N") \o <<End>>),
           [name |-> name, net |-> net, status |-> "FIXED", at |-> at, orientation |-> <<"N">>,
            shapes |-> Map(shapes, Said)])

NetPart(name, special, connections, layer, points) ==
  Part("nets",
       Line(<<Word("-"), name>>
            \o FlattenSeq([k \in DOMAIN connections |->
                 <<Word("("), connections[k], Word("A"), Word(")")>>])
            \o <<Word("+"), Word("ROUTED"), layer>> \o PointsText(points)
            \o <<Word("+"), Word("USE"), Word("SIGNAL"), End>>),
       [name |-> name, special |-> special, connections |-> Len(connections),
        shapes |-> [k \in 1 .. Len(points) - 1 |->
          Said([kind |-> "Rect", layer |-> layer, points |-> <<points[k], points[k + 1]>>])]])

BlockagePart(layer, corner, other) ==
  Part("blockages",
       Line(<<Word("-"), Word("LAYER"), layer, Word("RECT")>> \o PointsText(<<corner, other>>) \o <<End>>),
       Said([kind |-> "Rect", layer |-> layer, points |-> <<corner, other>>]))

SectionParts(word, parts) ==
  <<Plainly(Line(<<Word(word), Whole(Len(parts)), End>>))>> \o parts
  \o <<Plainly(Line(<<Word("END"), Word(word)>>))>>

DefHead(units, die) ==
  Plainly(Line(<<Word("DESIGN"), Word("CHIP"), End>>)
          \o Line(<<Word("UNITS"), Word("DISTANCE"), Word("MICRONS"), Whole(units), End>>)
          \o Line(<<Word("DIEAREA")>> \o PointsText(die) \o <<End>>))

-----------------------------------------------------------------------------
(* What a client reads of a source in its catalog and its geometry.        *)

NameOf(catalog, shape) == Item(catalog.layers, shape.layer).name
ReadShape(catalog, s) ==
  [kind |-> s.kind, layer |-> NameOf(catalog, s), rect |-> s.rect, points |-> s.points]
InRange(catalog, shapes, range) ==
  Map(SubSeq(shapes, range.first + 1, range.first + range.count), LAMBDA s : ReadShape(catalog, s))
OwnedBy(catalog, shapes, kinds, owner) ==
  Map(SelectSeq(shapes, LAMBDA s : s.owner_kind \in kinds /\ s.owner = owner),
      LAMBDA s : ReadShape(catalog, s))

ReadMacro(catalog, shapes, index) ==
  LET row  == Item(catalog.macros, index)
      pins == SelectSeq(catalog.macro_pins, LAMBDA pin : pin.macro = index)
  IN  [name |-> row.name, class |-> row.class, origin |-> row.origin_x, size |-> row.size_y,
       pins |-> Map(pins, LAMBDA pin :
         [name |-> pin.name, direction |-> pin.direction, use |-> pin.use,
          shapes |-> InRange(catalog, shapes, pin.range)]),
       obstructions |-> OwnedBy(catalog, shapes, {"Obstruction"}, index)]

ReadDefPin(catalog, shapes, row) ==
  [name |-> row.name, net |-> row.net, status |-> row.status, at |-> row.at,
   orientation |-> row.orientation, shapes |-> InRange(catalog, shapes, row.range)]

ReadNet(catalog, shapes, index) ==
  LET row == Item(catalog.nets, index)
  IN  [name |-> row.name, special |-> row.special, connections |-> row.connections,
       shapes |-> OwnedBy(catalog, shapes, {IF row.special THEN "SpecialNet" ELSE "Net"}, index)]

ReadTable(table, catalog, shapes) ==
  CASE table = "layers" -> Map(catalog.layers, LAMBDA l : [name |-> l.name, kind |-> l.kind, pitch |-> l.pitch])
    [] table = "macros" -> Map(UpTo(Len(catalog.macros)), LAMBDA k : ReadMacro(catalog, shapes, k - 1))
    [] table = "vias" -> catalog.vias
    [] table = "components" -> catalog.components
    [] table = "pins" -> Map(catalog.pins, LAMBDA row : ReadDefPin(catalog, shapes, row))
    [] table = "nets" -> Map(UpTo(Len(catalog.nets)), LAMBDA k : ReadNet(catalog, shapes, k - 1))
    [] table = "blockages" -> Map(SelectSeq(shapes, LAMBDA s : s.owner_kind = "Blockage"),
                                  LAMBDA s : ReadShape(catalog, s))

-----------------------------------------------------------------------------
(* The bytes a client sends.                                               *)

List(values) == U32(Len(values)) \o FlattenSeq(<<>> \o Map(values, U32))
KindCodes(kinds) == Ascending({code \in 1 .. 5 : KindOf(code) \in kinds})
HasBox(request) == IF request.bbox = NoBounds THEN 0 ELSE 1
BoxBytes(r) == IF r = NoBounds THEN <<>> ELSE F64(r.x0) \o F64(r.y0) \o F64(r.x1) \o F64(r.y1)
FilterBytes(request) == List(Ascending(request.layers)) \o List(KindCodes(request.kinds))

GeometryRequestBytes(request) ==
  U32(HasBox(request) + 2) \o U32(request.max_shapes) \o BoxBytes(request.bbox) \o FilterBytes(request)
  \o List(Ascending(request.macros)) \o List(request.roots)

TileRequestBytes(request, token) ==
  U32(HasBox(request)) \o U32(request.root) \o U32(request.max_shapes) \o U32(request.max_points)
  \o U32(request.max_bytes) \o U32(request.lod) \o U32(token) \o BoxBytes(request.bbox)
  \o FilterBytes(request) \o List(Ascending(request.datatypes))

HitRequestBytes(request) ==
  U32(0) \o U32(request.root) \o U32(request.max_results) \o F64(request.point.x) \o F64(request.point.y)
  \o F64(request.radius) \o FilterBytes(request) \o List(Ascending(request.datatypes))

ObjectBytes(object) ==
  U32(0) \o U32(CHOOSE code \in 1 .. 3 : ObjectKindOf(code) = object.kind)
  \o Bytes(ObjectFields(object)) \o U64(object.instance)

SearchRequestBytes(request) ==
  U32(HasBox(request)) \o U32(request.max_results)
  \o U32(CHOOSE mask \in 0 .. 15 : SearchKinds(mask) = request.kinds) \o U32(request.root)
  \o BoxBytes(request.bbox) \o String(request.query)

CatalogRequestBytes(request) ==
  U32(0) \o U32(CHOOSE code \in DOMAIN CatalogTables : CatalogTables[code] = request.table)
  \o U32(request.offset) \o U32(request.limit) \o U32(request.max_bytes)

-----------------------------------------------------------------------------
(* The bytes a client gets, in units of the greeting.                      *)

InUnits(micron, units) == (micron.units * IF units = 0 THEN 1 ELSE units) \div micron.per_micron
LengthAt(bytes, offset, units) == InUnits(ReadF64(bytes, offset), units)
RectAt(bytes, offset, units) ==
  Rect(LengthAt(bytes, offset, units), LengthAt(bytes, offset + 8, units),
       LengthAt(bytes, offset + 16, units), LengthAt(bytes, offset + 24, units))

ReadObject(bytes, kind, offset, instance) ==
  Object(kind, ReadU32(bytes, offset), ReadU32(bytes, offset + 4), ReadU32(bytes, offset + 8),
         ReadU32(bytes, offset + 12), ReadU32(bytes, offset + 16), ReadU64(bytes, instance))

ReadHits(bytes, units) ==
  LET stride == ReadU32(bytes, 16)
      hit(at) == [object |-> ReadObject(bytes, ReadU16(bytes, at), at + 4, at + 32),
                  rank |-> ReadU32(bytes, at + 24), distance |-> ReadF64(bytes, at + 40),
                  bounds |-> RectAt(bytes, at + 48, units)]
  IN  [k \in 1 .. ReadU32(bytes, 8) |-> hit(ReadU32(bytes, 12) + (k - 1) * stride)]

ReadInspect(bytes, units) ==
  LET strings == ReadU32(bytes, 68)
  IN  [object |-> ReadObject(bytes, ReadU32(bytes, 8), 12, 32),
       layer |-> ReadU32(bytes, 40), datatype |-> ReadU32(bytes, 44),
       element_kind |-> ReadU32(bytes, 52), reference_kind |-> ReadU32(bytes, 56),
       name |-> ReadText(bytes, strings + ReadU32(bytes, 60)),
       text |-> ReadText(bytes, strings + ReadU32(bytes, 64)),
       path |-> ReadText(bytes, strings + ReadU32(bytes, 124)),
       bounds |-> RectAt(bytes, 84, units), class |-> ReadU32(bytes, 116), cell |-> ReadU32(bytes, 120)]

ReadSearch(bytes, units) ==
  LET match(at) == [object |-> ReadObject(bytes, ReadU16(bytes, at), at + 4, at + 32),
                    class |-> ReadU16(bytes, at + 2), cell |-> ReadU32(bytes, at + 40),
                    rank |-> ReadU32(bytes, at + 44), bounds |-> RectAt(bytes, at + 56, units),
                    label |-> ReadText(bytes, ReadU32(bytes, 20) + ReadU32(bytes, at + 24))]
  IN  [k \in 1 .. ReadU32(bytes, 8) |-> match(ReadU32(bytes, 12) + (k - 1) * ReadU32(bytes, 16))]

\* The shapes of a geometry; its columns are where its header says.
ReadGeometry(bytes) ==
  LET units == ReadU32(bytes, 8)
      number(column, k) == LengthAt(bytes, ReadU32(bytes, column) + 8 * (k - 1), units)
      shape(k, at) ==
        [layer |-> ReadU32(bytes, at), kind |-> ReadU16(bytes, at + 4), owner_kind |-> ReadU16(bytes, at + 6),
         owner |-> ReadU32(bytes, at + 8), macro |-> ReadU32(bytes, at + 12),
         rect |-> Rect(number(28, k), number(32, k), number(36, k), number(40, k)),
         points |-> [n \in 1 .. ReadU32(bytes, at + 24) |->
                       LET p == ReadU32(bytes, at + 20) + n IN Point(number(44, p), number(48, p))]]
  IN  [shapes |-> [k \in 1 .. ReadU32(bytes, 12) |-> shape(k, ReadU32(bytes, 24) + 28 * (k - 1))],
       truncated |-> ReadU32(bytes, 20) = 1]

ReadTile(bytes) ==
  LET start == ReadU32(bytes, 16)
  IN  ReadGeometry(SubSeq(bytes, start + 1, start + ReadU32(bytes, 20))) @@ [next |-> ReadU32(bytes, 12)]

ReadHello(bytes) ==
  [layers |-> ReadU32(bytes, 8), cells |-> ReadU32(bytes, 12), components |-> ReadU32(bytes, 16),
   nets |-> ReadU32(bytes, 20), shapes |-> ReadU32(bytes, 24), diagnostics |-> ReadU32(bytes, 28),
   bounds |-> RectAt(bytes, 32, ReadU32(bytes, 4))]

ReadSummary(bytes) ==
  LET label(at) == ReadText(bytes, ReadU32(bytes, 112) + ReadU32(bytes, at))
  IN  [source |-> ReadU32(bytes, 12), top |-> ReadU32(bytes, 24), bounds |-> RectAt(bytes, 28, ReadU32(bytes, 8)),
       layers |-> [k \in 1 .. ReadU32(bytes, 68) |-> label(ReadU32(bytes, 64) + 32 * (k - 1))],
       macros |-> ReadU32(bytes, 72), cells |-> ReadU32(bytes, 88), references |-> ReadU32(bytes, 92),
       elements |-> ReadU32(bytes, 96), points |-> ReadU32(bytes, 100), diagnostics |-> ReadU32(bytes, 108)]

ReadStatus(bytes) ==
  [cells |-> ReadU32(bytes, 36), references |-> ReadU32(bytes, 40), elements |-> ReadU32(bytes, 44),
   points |-> ReadU32(bytes, 48), diagnostics |-> ReadU32(bytes, 56),
   scheduled |-> ReadU32(bytes, 84), ready |-> ReadU32(bytes, 88)]
=============================================================================
