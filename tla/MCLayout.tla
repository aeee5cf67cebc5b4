------------------------------ MODULE MCLayout ------------------------------
EXTENDS LayoutFiles, LayoutSource

Shape(kind, layer, datatype, points) ==
  [kind |-> kind, layer |-> layer, datatype |-> datatype, points |-> points,
   text |-> IF kind = "Text" THEN <<"P", "A", "D">> ELSE <<>>, draft |-> <<>>]

Box(layer, x0, y0, x1, y1) ==
  Shape("Boundary", layer, 0, <<Point(x0, y0), Point(x1, y0), Point(x1, y1), Point(x0, y1), Point(x0, y0)>>)

Place(name, at, reflected, magnification, angle) ==
  [kind |-> "Sref", name |-> name, reflected |-> reflected, magnification |-> magnification,
   angle |-> angle, at |-> at, columns |-> 1, rows |-> 1,
   column_step |-> Point(0, 0), row_step |-> Point(0, 0)]

Array(item, columns, rows, column_step, row_step) ==
  [item EXCEPT !.kind = "Aref", !.columns = columns, !.rows = rows,
               !.column_step = column_step, !.row_step = row_step]

Cell(name, items) == [name |-> name, items |-> items]
Top == <<"T", "O", "P">>
Mid == <<"M", "I", "D">>
Pad == <<"P", "A", "D">>

Label == Shape("Text", 3, 0, <<Point(1, 1)>>)
Wire  == Shape("Path", 2, 1, <<Point(0, 3), Point(4, 3), Point(4, 5)>>)

\* Arrays turned and mirrored on two levels, above and below what they place.
Nested ==
  << Cell(Mid, << Array(Place(Pad, Point(0, 0), FALSE, 1, 0), 2, 1, Point(7, 0), Point(0, 0)),
                  Place(Pad, Point(-3, 4), TRUE, 2, 90) >>),
     Cell(Pad, << Box(1, 0, 0, 2, 2), Wire >>),
     Cell(Top, << [Box(1, 30, 30, 33, 32) EXCEPT !.draft = <<Point(90, 90)>>], Label,
                  Place(Mid, Point(10, 0), FALSE, 1, 180),
                  Array(Place(Mid, Point(0, 50), TRUE, 2, 270), 1, 2, Point(0, 0), Point(40, 0)) >>) >>

\* A cell of enough shapes and places to be looked up by grid.
Wide ==
  << Cell(Pad, << Box(1, 0, 0, 1, 1) >>),
     Cell(Mid, << Place(Pad, Point(0, 0), FALSE, 3, 0) >>),
     Cell(Top, << Box(1, 0, 0, 2, 2), Box(2, 5, 0, 8, 3), Wire, Box(1, 20, 10, 22, 12),
                  Array(Place(Pad, Point(0, 20), FALSE, 1, 0), 3, 2, Point(4, 0), Point(0, 4)),
                  Array(Place(Pad, Point(20, 20), FALSE, 1, 0), 2, 1, Point(1, 3), Point(0, 0)),
                  Place(Mid, Point(5, 5), FALSE, 1, 0) >>) >>

\* A cell that places itself is no top; there is none here.  The cell without
\* references has the number of a reference to another.
Loop ==
  << Cell(Pad, << Box(2, 0, 0, 2, 1) >>),
     Cell(Top, << Box(1, 0, 0, 1, 1), Place(Top, Point(5, 0), FALSE, 1, 0),
                  Place(Pad, Point(3, 0), FALSE, 1, 0) >>) >>

\* Small enough to be cut at every record.
Plain ==
  << Cell(Pad, << Box(1, 0, 0, 2, 2), Label >>),
     Cell(Top, << Wire, Place(Pad, Point(2, 1), TRUE, 2, 90) >>) >>

File(design, cut, broken) == [design |-> design, cut |-> cut, broken |-> broken]
WholeFile(design) == File(design, Len(Records(design)), FALSE)

RecordsOf(file) == SubSeq(Records(file.design), 1, file.cut)
                   \o (IF file.broken THEN <<Broken>> ELSE <<>>)

CutFiles == [n \in 1 .. 2 * Len(Records(Plain)) |-> File(Plain, (n - 1) \div 2, n % 2 = 0)]

\* Files no tool should write, and the reader makes the best of.
Unsupported(n) == [k \in 1 .. n |-> Rec("PROPATTR", <<1>>)]
Inside(records) == <<Rec("BGNSTR", <<>>), Rec("STRNAME", Top)>> \o records \o <<Rec("ENDSTR", <<>>)>>
OddFiles ==
  << <<Rec("HEADER", <<>>), Rec("UNITS", <<>>), Rec("STRNAME", Top), Rec("BOUNDARY", <<>>), Rec("ENDEL", <<>>)>>,
    <<Rec("BGNSTR", <<>>), Rec("PATH", <<>>), Rec("XY", <<1, 2, 3>>), Rec("BGNSTR", <<>>), Rec("SREF", <<>>)>>,
    Inside(ShapeRecords(Wire) \o Unsupported(6)),
    Inside(<<Rec("AREF", <<>>), Rec("STRANS", <<>>), Rec("MAG", <<>>), Rec("ANGLE", <<>>),
             Rec("COLROW", <<2>>), Rec("XY", <<4, 4>>), Rec("TEXT", <<>>), Rec("LAYER", <<>>),
             Rec("COLROW", <<2, 2>>), Rec("ENDEL", <<>>)>>) >>

\* The files by their titles, which are numbers here: the two libraries, the
\* loop, the odd files, and the plain one, whole and then cut.
Files  == <<WholeFile(Nested), WholeFile(Wide), WholeFile(Loop), WholeFile(Plain)>>
          \o CutFiles
Titles == DOMAIN Files

-----------------------------------------------------------------------------
(* LEF and DEF files.                                                      *)

M1 == <<"M1">>
M2 == <<"M2">>
Units == 2000
Name(piece) == <<piece>>

InvPins ==
  << [name |-> Name("A"), direction |-> "INPUT", use |-> Name("SIGNAL"),
      ports |-> << <<DrawnRect(M2, 900, 100, 300, 400)>>,
                   <<DrawnPolygon(M1, <<Point(0, 0), Point(500, 0), Point(500, -700)>>),
                     DrawnRect(M1, 0, 0, 50, 50)>> >>],
     [name |-> Name("NC"), direction |-> "OUTPUT", use |-> Name("SIGNAL"), ports |-> <<>>],
     [name |-> Name("Y"), direction |-> "INOUT", use |-> Name("POWER"),
      ports |-> << <<DrawnRect(M2, 0, 0, 1, 1)>> >>] >>

Macro(name, pins, obstructions) ==
  MacroPart([name |-> Name(name), origin |-> -500, size |-> 3000, pins |-> pins,
             obstructions |-> obstructions], Units)

Tech ==
  << LefHead(Units), LayerPart(M1, "ROUTING", 400, Units), LayerPart(Name("V1"), "CUT", 1200, Units),
     LayerPart(M2, "ROUTING", 800, Units),
     ViaPart(Name("VIA12"), <<DrawnRect(M1, -50, -50, 50, 50), DrawnRect(M2, -60, -60, 60, 60)>>, Units),
     SitePart(Name("SITE"), 1000, Units),
     Macro("FILL", <<>>, <<DrawnRect(M1, 0, 0, 3000, 200), DrawnRect(M2, 0, 0, 3000, 100)>>), LefTail >>

Cells == << LefHead(Units), Macro("INV", InvPins, <<DrawnRect(M1, 7, 8, 9, 10)>>),
            Macro("BUF", <<InvPins[3]>>, <<>>), LefTail >>

Chip ==
  << DefHead(Units, <<Point(0, 0), Point(9000, 8000)>>) >>
  \o SectionParts("COMPONENTS", << ComponentPart(Name("u1"), Name("INV"), Point(-20, 30)),
                                   ComponentPart(Name("u2"), Name("FILL"), Point(400, 0)) >>)
  \o SectionParts("PINS", << DefPinPart(Name("IN"), Name("n1"), Point(5, 6),
                               <<DrawnRect(M2, 9, 9, 0, 0), DrawnRect(M1, 0, 0, 3, 4)>>),
                             DefPinPart(Name("OUT"), Name("n2"), Point(7, 0), <<DrawnRect(M1, 1, 2, 3, 5)>>) >>)
  \o SectionParts("SPECIALNETS", << NetPart(Name("VDD"), TRUE, <<>>, M2, <<Point(0, 9), Point(90, 9)>>) >>)
  \o SectionParts("NETS", << NetPart(Name("n1"), FALSE, <<Name("u1"), Name("PIN")>>, M1,
                                     <<Point(5, 6), Point(5, -20), Point(30, -20)>>) >>)
  \o SectionParts("BLOCKAGES", << BlockagePart(M2, Point(50, 60), Point(10, 20)),
                                  BlockagePart(M1, Point(0, 0), Point(1, 1)) >>)
  \o << Plainly(Line(<<Name("END"), Name("DESIGN")>>)) >>

\* The LEF files and the DEF file of a source, and how much there is of the
\* last of them.
LefDef(lefs, defs, cut) == [lefs |-> lefs, defs |-> defs, cut |-> cut]
TextOf(parts) == FlattenSeq([k \in DOMAIN parts |-> parts[k].text])
CutsOf(parts) == [n \in 1 .. Len(TextOf(parts)) \div 9 |-> 9 * n]
                 \o [k \in DOMAIN parts |-> Len(TextOf(SubSeq(parts, 1, k)))]

PartFiles ==
  <<LefDef(<<Tech, Cells>>, <<Chip>>, Len(TextOf(Chip))), LefDef(<<Cells, Tech>>, <<>>, Len(TextOf(Tech)))>>
  \o Map(CutsOf(Cells), LAMBDA n : LefDef(<<Cells>>, <<>>, n))
  \o Map(CutsOf(Chip), LAMBDA n : LefDef(<<Tech>>, <<Chip>>, n))

TextsOf(all, last, cut) ==
  [k \in DOMAIN all |-> IF last /\ k = Len(all) THEN SubSeq(TextOf(all[k]), 1, cut) ELSE TextOf(all[k])]
OpenParts(file, title) ==
  OpenLefDef(TextsOf(file.lefs, file.defs = <<>>, file.cut), TextsOf(file.defs, TRUE, file.cut), title)

\* More numbers than there are titles.
AllTitles == -9 .. 1999

LibrariesOf(files, odd) ==
  {LoadGdsLayoutDataSet(IF t > 0 THEN RecordsOf(files[t]) ELSE odd[-t], t) :
     t \in (-Len(odd) .. Len(files)) \ {0}}
DesignsOf(files) == {OpenParts(files[n], 1000 + n) : n \in DOMAIN files}

MCSources == LibrariesOf(Files, OddFiles) \cup DesignsOf(PartFiles)

-----------------------------------------------------------------------------
(* What clients ask for: of the two libraries whatever depends on what was *)
(* asked before, of the other files what only reads them.                  *)

WholeTile(root, lod) ==
  [root |-> root, lod |-> lod, bbox |-> NoBounds, max_shapes |-> 0, max_points |-> 0,
   max_bytes |-> 0, layers |-> {}, kinds |-> {}, datatypes |-> {}]

TileOf(lod, box) == [WholeTile(2, lod) EXCEPT !.bbox = box]

NestedTiles ==
  { [WholeTile(2, 0) EXCEPT !.max_shapes = 12],
    [TileOf(0, Rect(-9, -9, 12, 45)) EXCEPT !.max_points = 14, !.layers = {0, 1},
                                             !.kinds = {"Polygon", "Path"}],
    [TileOf(1, Rect(-9, -9, 60, 60)) EXCEPT !.max_bytes = 8, !.datatypes = {0}],
    TileOf(2, Rect(-9, -9, 9, 41)) }

WideTiles ==
  { [TileOf(0, Rect(1, 1, 21, 22)) EXCEPT !.max_shapes = 4],
    TileOf(0, Rect(5, 21, 20, 24)),
    TileOf(1, Rect(5, 21, 20, 24)),
    TileOf(2, Rect(6, 6, 7, 30)), [TileOf(2, Rect(0, 0, 30, 30)) EXCEPT !.max_shapes = 2] }

HitAt(root, x, y, radius, max) ==
  [root |-> root, point |-> Point(x, y), radius |-> radius, max_results |-> max,
   layers |-> {}, kinds |-> {}, datatypes |-> {}]

SearchFor(root, query, max) ==
  [root |-> root, query |-> query, kinds |-> {}, bbox |-> NoBounds, max_results |-> max]

Searches == {SearchFor(NoIndex, <<"p", "A">>, 0), SearchFor(1, <<"P", "a">>, 1)}

ForSource(nested, wide, other) ==
  [t \in AllTitles |->
     CASE t = 1 -> nested [] t = 2 -> wide [] OTHER -> other]

MCMaxRequests    == ForSource(3, 3, 1)
MCTileRequests   == ForSource(NestedTiles, WideTiles, {WholeTile(0, 2), WholeTile(1, 2)})
\* At each library's top, and at a cell without references.
MCHitRequests    == ForSource({HitAt(2, 9, -1, 1, 0), HitAt(1, 2, 2, 1, 0)},
                              {HitAt(2, 6, 5, 2, 1), HitAt(2, 6, 5, 6, 0), HitAt(0, 0, 0, 1, 0)},
                              {HitAt(2, 0, 0, 1, 0), HitAt(0, 0, 0, 1, 0)})
MCSearchRequests == ForSource(Searches \cup {SearchFor(NoIndex, <<"P", "A">>, 1)}, Searches,
                              {[SearchFor(2, <<>>, 0) EXCEPT !.kinds = {"cell", "reference", "layer"}]})
MCGeometryRequests ==
  LET all(most, roots, macros) == [roots |-> roots, macros |-> macros, layers |-> {}, kinds |-> {},
                                   bbox |-> NoBounds, max_shapes |-> most]
  IN  ForSource({}, {}, {all(0, <<>>, {}), all(3, <<1, 0>>, {}), all(0, <<>>, {1})})
MCCatalogRequests ==
  LET page(t, offset, limit, bytes) ==
        [table |-> t, offset |-> offset, limit |-> limit, max_bytes |-> bytes]
  IN  ForSource({}, {}, {page(t, 0, 3, 6) : t \in Range(CatalogTables)}
                        \cup {page("strings", 2, 0, 0), page("diagnostics", 1, 0, 0),
                              page("layers", 0, 3, MaxPageSize + 1)})

-----------------------------------------------------------------------------
\* What a library says each item is: the same as what its design says.
ToldItem(lib, e) ==
  LET ref == Item(lib.references, e.reference)
  IN  IF IsReferenceKind(e.kind)
      THEN [kind |-> ref.kind, name |-> ref.name, reflected |-> ref.reflected,
            magnification |-> ref.magnification, angle |-> ref.angle, at |-> ref.origin,
            columns |-> ref.columns, rows |-> ref.rows,
            column_step |-> ref.column_vector, row_step |-> ref.row_vector]
      ELSE [kind |-> e.kind, layer |-> e.layer, datatype |-> e.datatype,
            points |-> ElementPoints(lib, e), text |-> e.text]

DesignItem(item) ==
  IF IsPlacement(item) THEN item
  ELSE [kind |-> item.kind, layer |-> item.layer, datatype |-> item.datatype,
        points |-> item.points, text |-> item.text]

\* The items of a design with the places of their cells, in their order.
DesignItems(design) ==
  FlattenSeq([c \in DOMAIN design |->
                [k \in DOMAIN design[c].items |-> [cell |-> c - 1, item |-> DesignItem(design[c].items[k])]]])

DrawnShapes(data) ==
  LET shapes == FlattenRequestedCells(data, <<>>)
  IN  Map(shapes, LAMBDA s : [kind |-> s.kind, layer |-> Item(data.layers, s.layer).layer,
                              datatype |-> s.datatype, points |-> s.points])

CountOf(records, type) == Len(SelectSeq(records, LAMBDA r : r.type = type))

\* The cells of a catalog give the first and the number of their items.
IsRun(indices, first, count) == indices = {k \in first .. first + count - 1 : count > 0}
CellsTellTheirItems(rows) ==
  \A c \in DOMAIN rows.cells :
     LET cell == rows.cells[c]
     IN  /\ IsRun({k - 1 : k \in {j \in DOMAIN rows.elements : rows.elements[j].cell = c - 1}},
                  cell.first_element, cell.elements)
         /\ IsRun({k - 1 : k \in {j \in DOMAIN rows.references : rows.references[j].parent = c - 1}},
                  cell.first_reference, cell.references)

\* The items that end before the cut are read as they were written; at most
\* the one that was cut follows them, and the reader says so.  A file that is
\* not cut is drawn as its design is, and measured too unless a cell is in itself.
TellsTheFile(data, catalog, file) ==
  LET lib    == catalog.rows
      items  == DesignItems(file.design)
      count(type) == CountOf(RecordsOf(file), type)
      whole  == count("ENDEL")
      opened == count("BOUNDARY") + count("PATH") + count("TEXT") + count("SREF") + count("AREF")
      inside == count("BGNSTR") > count("ENDSTR")
      drawing == Drawing(file.design, Item(lib.cells, catalog.top).name, {})
  IN  /\ Len(lib.elements) = IF file.broken THEN whole ELSE opened
      /\ \A k \in 1 .. whole :
            [cell |-> lib.elements[k].cell, item |-> ToldItem(lib, lib.elements[k])] = items[k]
      /\ CellsTellTheirItems(lib)
      /\ inside \/ file.broken => catalog.diagnostics # <<>>
      /\ file = WholeFile(file.design) =>
            /\ DrawnShapes(data) = drawing
            /\ catalog.diagnostics = <<>> =>
                 data.bounds = BoxOf(UNION {PointSet(drawing[k].points) : k \in DOMAIN drawing})

\* The bytes of a request are what is asked, and when they are cut nothing is.
Frame(bytes) == EncodeFrame("PLD1", ProtocolVersion, [type |-> 1, request |-> 7, flags |-> 0, payload |-> bytes])
ReadsBack(Decode(_), bytes, asked) ==
  /\ DecodeFrame("PLD1", ProtocolVersion, Frame(bytes)).payload = bytes
  /\ Decode(bytes) = asked
  /\ \A n \in 1 .. Len(bytes) - 1 : Decode(SubSeq(bytes, 1, n)) = NoRequest

\* What the greeting, the summary and the status say of the tables.
TellTheSizes(catalog, hello, summary, status) ==
  LET sizes == [t \in {"cells", "references", "elements", "points"} |-> Len(catalog.rows[t])]
  IN  /\ hello.cells = sizes.cells
      /\ hello.layers = Len(catalog.layers)
      /\ hello.bounds = BoundsOrZero(source.bounds) /\ summary.bounds = hello.bounds
      /\ summary.layers = Map(catalog.layers, LAMBDA l : l.name)
      /\ summary.top = catalog.top
      /\ \A t \in DOMAIN sizes : summary[t] = sizes[t] /\ status[t] = sizes[t]
      /\ {hello.diagnostics, summary.diagnostics, status.diagnostics} = {Len(catalog.diagnostics)}
      /\ status.ready /\ status.scheduled => searchBuilt /\ index = WarmupTopCell(source, index)

\* What a client that has asked for the catalog knows of a GDSII file, cut or
\* whole, is what the file says; and what it is told by the way agrees.
LibraryTellsTheFile ==
  answer.op = "whole" /\ source.title \in Titles =>
    /\ TellsTheFile(source, answer.value.catalog, Files[source.title])
    /\ TellTheSizes(answer.value.catalog, ReadHello(HelloPayload(source)),
                    ReadSummary(SummaryPayload(source)), ReadStatus(StatusPayload(answer.value.status)))

\* What the parts of the files of a source say that are there to their end.
PartsThere(file) ==
  LET last   == Last(file.lefs \o file.defs)
      there  == SubSeq(last, 1, Cardinality({k \in DOMAIN last : Len(TextOf(SubSeq(last, 1, k))) <= file.cut}))
  IN  FlattenSeq(Front(file.lefs \o file.defs)) \o there
IsWhole(file) == file.cut = Len(TextOf(Last(file.lefs \o file.defs)))
SaysOf(parts, table) ==
  Map(SelectSeq(parts, LAMBDA part : part.table = table), LAMBDA part : part.says)

RowTables == {"vias", "macros", "components", "pins", "nets", "blockages"}

TellsTheParts(catalog, shapes, file) ==
  LET says(table) == SaysOf(PartsThere(file), table)
      read(table) == ReadTable(table, catalog, shapes)
      layers == read("layers")
  IN  /\ Range(says("layers")) \subseteq Range(layers)
      /\ \A j, k \in DOMAIN layers : layers[j].name = layers[k].name => j = k
      /\ \A table \in RowTables :
            /\ IsPrefix(says(table), read(table))
            /\ Len(read(table)) <= Len(says(table)) + IF IsWhole(file) THEN 0 ELSE 1
      /\ IsWhole(file) => catalog.diagnostics = <<>>

TellsTheMacros(catalog, shapes, macros) ==
  \A m \in answer.request.macros :
    HasItem(macros, m) =>
      Map(shapes, LAMBDA s : ReadShape(catalog, s))
        = FlattenSeq(Map(Item(macros, m).pins, LAMBDA pin : pin.shapes)) \o Item(macros, m).obstructions

TellsWhatWasAsked(catalog, shapes, file) ==
  IF answer.request.macros = {} THEN TellsTheParts(catalog, shapes, file)
  ELSE TellsTheMacros(catalog, shapes, SaysOf(PartsThere(file), "macros"))

\* What a client rebuilds of LEF and DEF files from the catalog and the geometry
\* of their source, its pins by their places among the shapes and the rest by
\* their owners, is what the files say up to where the last of them is cut;
\* and the geometry of a macro alone is the macro's.
DesignTellsTheFiles ==
  answer.op = "geometry" /\ ~HasGds(source) =>
    /\ TellsWhatWasAsked(WholeCatalog(source),
                         ReadGeometry(GeometryPayload(source, answer.value.shapes, answer.value.truncated)).shapes,
                         PartFiles[source.title - 1000])
    /\ ReadsBack(DecodeGeometryRequest, GeometryRequestBytes(answer.request), answer.request)

\* What a client is told of a source is what its files say, whatever their kind
\* and wherever they end (parseGdsFile, parseLefFile, parseDefFile).
SourcesTellTheirFiles == LibraryTellsTheFile /\ DesignTellsTheFiles

-----------------------------------------------------------------------------
WithoutInstance(shape) == [shape EXCEPT !.instance = NoInstance]

\* The shapes of everything below the root that the request lets through.
WantedShapes(request) ==
  LET all == FlattenCell(source, request.root, Identity, {})
      wanted(s) == /\ Meets(request, s.rect)
                   /\ Admits(request.layers, s.layer)
                   /\ Admits(request.kinds, s.kind)
                   /\ Admits(request.datatypes, s.datatype)
      found == SelectSeq(all, wanted)
  IN  IF request.lod = 0 THEN found
      ELSE Map(found, LAMBDA s : [s EXCEPT !.kind = "Rect", !.points = <<>>])

\* The boxes of the instances of a reference that meet the request's.
InstancesMet(request, ref) ==
  {box \in {TransformBounds(ReferenceTransform(ref, c, r), Item(source.gds.cells, ref.target).bounds) :
              c \in Columns(ref), r \in Rows(ref)} : Meets(request, box)}

\* A reference is shown when an instance of it meets the request, as a box
\* about all that do; a skewed array may be when only its own box does.
OverviewTells(request, pages) ==
  LET cell  == Item(source.gds.cells, request.root)
      ref(k) == Item(source.gds.references, k)
      shown == {pages[k].owner : k \in DOMAIN pages}
      boxOf(r) == pages[CHOOSE k \in DOMAIN pages : pages[k].owner = r].rect
  IN  IF cell.references = <<>> THEN {<<pages[k].owner_kind, pages[k].rect>> : k \in DOMAIN pages}
                                     = {<<"Cell", b>> : b \in {x \in {cell.bounds} : x # NoBounds /\ Meets(request, x)}}
      ELSE /\ shown \subseteq Range(cell.references)
           /\ \A k \in DOMAIN pages \ {1} : pages[k - 1].owner < pages[k].owner
           /\ \A r \in {k \in Range(cell.references) : HasTarget(source.gds, ref(k))} :
                 /\ InstancesMet(request, ref(r)) # {} => r \in shown
                 /\ r \in shown =>
                      /\ Meets(request, boxOf(r))
                      /\ \A box \in InstancesMet(request, ref(r)) :
                            Corners(box) \subseteq {p \in Corners(box) : RectDistance2(p, boxOf(r)) = 0}

\* What the bytes of a tile tell of its shapes.
Sent(shape) == [layer |-> shape.layer, kind |-> shape.kind, owner_kind |-> shape.owner_kind,
                owner |-> shape.owner, macro |-> shape.cell, rect |-> shape.rect, points |-> shape.points]
TilesAreSent ==
  answer.op = "tile" =>
    /\ ReadTile(TilePayload(source, answer.value)) = [answer.value EXCEPT !.shapes = Map(@, Sent)]
    /\ ReadsBack(DecodeTileRequest, TileRequestBytes(answer.request, walk.next),
                 [tile |-> answer.request, token |-> walk.next])

\* What a client gets that follows the tokens of its tile to the end is every
\* shape of the library that meets it, once and in order, whatever the limits,
\* the grids built and the tiles kept by then, as long as the token of a page
\* that was kept stands where the page ends; and each tile arrives as it is.
TilesTellTheLibrary ==
  /\ TilesAreSent
  /\ walk.whole /\ walk.next = 0 =>
       IF IsOverview(walk.request) THEN OverviewTells(walk.request, walk.pages)
       ELSE Map(walk.pages, WithoutInstance) = WantedShapes(walk.request)

\* The transform and the cell along a path of references.
AlongPath(path) ==
  FoldLeft(LAMBDA at, step :
             LET ref == Item(source.gds.references, step[1])
             IN  [t |-> ComposeTransforms(at.t, ReferenceTransform(ref, step[2], step[3])),
                  cell |-> ref.target],
           [t |-> Identity, cell |-> path[1]], Tail(path))

\* A root without references that was hit, and then selected as the reference of
\* its number, has the cell of that reference at its own path.
IsSelectedRoot(id) ==
  LET root == Head(id.path)
  IN  /\ Tail(id.path) = <<>> /\ Item(source.gds.cells, root).references = <<>>
      /\ HasItem(source.gds.references, root) /\ id.cell = Item(source.gds.references, root).target

\* What the index remembers under the name of an instance is where its path
\* leads, for as long as the source is open.
PlacesTellTheirPath ==
  \A id \in DOMAIN index.places :
    CASE id.path = DefinitionPath -> index.places[id] = Identity
      [] id.path = ReferencePath -> \E k \in DOMAIN source.gds.references :
           /\ source.gds.references[k].target = id.cell
           /\ index.places[id] = ReferenceTransform(source.gds.references[k], 0, 0)
      [] OTHER -> /\ index.places[id] = AlongPath(id.path).t
                  /\ id.cell = AlongPath(id.path).cell \/ IsSelectedRoot(id)

\* The hits of the last answer, as they arrive.
HitsSeen == ReadHits(HitPayload(source, answer.value), source.units)

\* An array is inspected by the first of its instances that is shown.
InspectsTheHit(hit, told) ==
  /\ IF hit.object.kind = "Element" THEN told.bounds = hit.bounds
     ELSE \A p \in Corners(told.bounds) : RectDistance2(p, hit.bounds) = 0
  /\ told.path = hit.object.instance.path
  /\ told.object.element = hit.object.element
  /\ told.name # <<>> \/ told.cell = hit.object.cell
TellsTheHit(hit, told) ==
  /\ told # Refused
  /\ InspectsTheHit(hit, ReadInspect(InspectPayload(source, told), source.units))

\* A root without references is hit as itself, under the name of the reference
\* that has its number: what is inspected is that reference, if there is one.
IsRootItself(hit) ==
  hit.object.kind = "Reference" /\ Item(source.gds.cells, answer.request.root).references = <<>>
TellsTheRoot(hit, told) ==
  LET root == answer.request.root
      refs == source.gds.references
  IN  /\ hit.bounds = Item(source.gds.cells, root).bounds
      /\ hit.object.cell = root /\ hit.object.reference = root
      /\ told = Refused <=> ~HasItem(refs, root)
      /\ told # Refused => told.name = Item(refs, root).name

\* What a hit shows can be inspected with what arrives of it, and is where it was
\* shown: the names of instances lead where their paths do (inspectLayoutObject).
\* The one exception is a root without references, which has no such name
\* (hitTest: a Reference of shape.owner_index, which is the cell's index then).
ShownIsInspected ==
  /\ PlacesTellTheirPath
  /\ answer.op = "hit" =>
       \A h \in Range(HitsSeen) :
         LET told == Inspect(source, index, h.object)
         IN  /\ ReadsBack(DecodeObject, ObjectBytes(h.object), h.object)
             /\ IF IsRootItself(h) THEN TellsTheRoot(h, told) ELSE TellsTheHit(h, told)

\* The shapes a hit test looks at: of those whose box meets the pointer's, the
\* first ones, up to the limits.
Candidates(asked) ==
  LET p     == asked.point
      box   == Rect(p.x - asked.radius, p.y - asked.radius, p.x + asked.radius, p.y + asked.radius)
      near  == SelectSeq(FlattenCell(source, asked.root, Identity, {}), LAMBDA s : Intersects(s.rect, box))
      limit == CandidateLimit(asked)
      points(n) == FoldSet(LAMBDA k, sum : sum + Len(near[k].points), 0, 1 .. n)
  IN  {near[k] : k \in {n \in DOMAIN near : n <= limit /\ points(n) <= 16 * limit}}

\* Every candidate under the pointer is among the hits, or the hits are as many
\* as were asked for and none comes after it; and each hit on an element is one.
TellsTheHits(asked, seen) ==
  LET under == {HitOf(s, asked.point) :
                  s \in {c \in Candidates(asked) : IsPreciseHit(c, asked.point, asked.radius)}}
      bare(h) == [h EXCEPT !.object.instance = NoInstance]
      hits  == {bare(h) : h \in Range(seen)}
  IN  /\ {h \in hits : h.object.kind = "Element"} \subseteq under
      /\ \A h \in under \ hits : /\ asked.max_results # 0
                                 /\ Len(seen) = asked.max_results
                                 /\ ~HitBefore(h, bare(Last(seen)))
HitsTellTheLibrary ==
  answer.op = "hit" =>
    /\ TellsTheHits(answer.request, HitsSeen)
    /\ ReadsBack(DecodeHitRequest, HitRequestBytes(answer.request), answer.request)

\* The cells below a root, in at most as many steps as there are cells.
Below(root) ==
  LET step(cells) == cells \cup {source.gds.references[k].target : k \in
                       {j \in DOMAIN source.gds.references : source.gds.references[j].parent \in cells}}
      after[n \in 0 .. Len(source.gds.cells)] == IF n = 0 THEN {root} ELSE step(after[n - 1])
  IN  after[Len(source.gds.cells)] \ {NoIndex}

\* What a search answers, kept or not, is what a fresh search would.
SearchesAreFresh ==
  answer.op = "search" =>
    /\ ReadSearch(SearchPayload(source, answer.value), source.units)
         = SearchAnswer(answer.request,
                        IF answer.request.root = NoIndex THEN 0 .. Len(source.gds.cells) - 1
                        ELSE Below(answer.request.root))
    /\ ReadsBack(DecodeSearchRequest, SearchRequestBytes(answer.request), answer.request)

\* The rows of a table, as the whole catalog tells them.
WholeTable(table) ==
  LET catalog == WholeCatalog(source)
  IN  IF table = "strings" THEN PagedStrings(source)
      ELSE IF table \in LibraryTables THEN catalog.rows[table] ELSE catalog[table]

TellsTheTable(request, told) ==
  LET rows == SubSeq(WholeTable(request.table), request.offset + 1, Len(WholeTable(request.table)))
      goesOn == [request EXCEPT !.offset = told.next]
  IN  /\ HasTable(source, request.table)
      /\ IsPrefix(told.rows, rows)
      /\ told.next = NoIndex => told.rows = rows
      /\ ReadsBack(DecodeCatalogRequest, CatalogRequestBytes(goesOn), goesOn)

\* A page cannot be told of a table the source has not or past its end, of bytes
\* no page has, or when a row alone is longer.
CannotBeTold(request) ==
  \/ ~HasTable(source, request.table)
  \/ request.max_bytes # 0 /\ request.max_bytes \notin PageHeader .. MaxPageSize
  \/ LET rows == WholeTable(request.table)
     IN  \/ request.offset > Len(rows)
         \/ \E k \in request.offset + 1 .. Len(rows) :
               PageHeader + RowUnits(request.table, rows[k]) > PageBytes(request)

\* The pages of a table, one after the other, are the table from where the first
\* begins as the whole catalog has it, and none is refused that can be told
\* (encodeCatalogPageV3ResponsePayload).
CatalogsAreWhole ==
  /\ answer.op = "catalog" => TellsTheTable(answer.request, answer.value)
  /\ answer.op = "refused" /\ "table" \in DOMAIN answer.request => CannotBeTold(answer.request)
=============================================================================
