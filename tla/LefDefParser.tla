---------------------------- MODULE LefDefParser ----------------------------
(***************************************************************************)
(* LEF and DEF files.                                                      *)
(*                                                                         *)
(* Reading a LEF file (layout/LayoutParser.cpp, LefParser): its layers,    *)
(* vias, sites and macros.  A section is a list of statements up to an END *)
(* or the end of the file, whichever comes first; what it makes is kept    *)
(* either way.  Shapes are in database units, sizes as they are written.   *)
(*                                                                         *)
(* Reading a DEF file (DefParser): its die area, components, pins, nets and *)
(* blockages.  A section is a list of items that start with a minus; an item *)
(* ends at a semicolon or with the file and is kept either way.            *)
(*                                                                         *)
(* What a layout source keeps of them (layout/LayoutSource.cpp,            *)
(* openLefDefLayoutSource), and the catalog a client reads it by           *)
(* (layout/LayoutBinaryProtocol.cpp).  The files of a source share one list *)
(* of layers, one list of macros and one list of shapes, in which each shape *)
(* names its owner.                                                        *)
(***************************************************************************)
EXTENDS LefDefText, GdsLibrary

NewLayer(name) ==
  [name |-> name, kind |-> "Unknown", pitch |-> <<>>, width |-> <<>>, spacing |-> <<>>]
NewVia(name) == [name |-> name, layer |-> 0, shapes |-> <<>>]
NewSite(name) == [name |-> name, width |-> Zero, height |-> Zero]
NewMacro(name) ==
  [name |-> name, class |-> <<>>, origin_x |-> Zero, origin_y |-> Zero, size_x |-> Zero,
   size_y |-> Zero, pins |-> <<>>, obstructions |-> <<>>]
NewPin(name) == [name |-> name, direction |-> "Unknown", use |-> <<>>, ports |-> <<>>]
NewPort == [layer |-> 0, shapes |-> <<>>]

EmptyLef ==
  [units |-> 1000, layers |-> <<>>, vias |-> <<>>, sites |-> <<>>, macros |-> <<>>]

\* A word of a few, or none of them; any text when there are no few.
LayerKinds    == {"ROUTING", "CUT", "IMPLANT", "MASTERSLICE", "OVERLAP"}
PinDirections == {"INPUT", "OUTPUT", "INOUT", "FEEDTHRU"}
OneOf(words, text) ==
  CASE words = {} -> text
    [] \E w \in words : Upper(text) = <<w>> -> Upper(text)[1]
    [] OTHER -> "Unknown"

\* Where the reader is, and what it makes there.
Making(p, item) == [p |-> p, item |-> item]

\* Statements of a name, of a number that may be missing, and of two numbers.
NamedField(p, item, field, words) ==
  LET name == ParseName(p)
  IN  Making(Consume(name.p, ";"),
             IF name.value = <<>> THEN item ELSE [item EXCEPT ![field] = OneOf(words, name.value[1])])

NumberField(p, item, field) ==
  LET number == ParseNumber(p)
  IN  Making(Consume(number.p, ";"), [item EXCEPT ![field] = <<ValueOr(number.value, Zero)>>])

TwoNumbers(p, item, first, by, second) ==
  LET x == ParseNumber(p)
      y == ParseNumber(ConsumeWord(x.p, by))
  IN  Making(Consume(y.p, ";"), [item EXCEPT ![first] = ValueOr(x.value, Zero),
                                             ![second] = ValueOr(y.value, Zero)])

\* Whatever else: a semicolon alone, or all up to one.
OtherStatement(p, item) ==
  Making(IF Is(p, ";") THEN Take(p) ELSE SkipUntilSemicolon(Take(p)), item)

-----------------------------------------------------------------------------
(* Shapes.                                                                 *)

\* A rectangle in the layer of its section.
RectStatement(p, item, field, layer) ==
  LET read == Numbers(p, 4)
      v    == read.values
      rect == RectBetween(DbuPoint(v[1], v[2], p.lib.units), DbuPoint(v[3], v[4], p.lib.units))
  IN  Making(Consume(read.p, ";"),
             IF Len(v) < 4 THEN item
             ELSE [item EXCEPT ![field] = Append(@, PlainShape("Rect", layer, rect, <<>>))])

RECURSIVE PolygonPoints(_, _)
PolygonPoints(p, points) ==
  LET read == Numbers(p, 2)
  IN  CASE Eof(p) \/ Is(p, ";") -> [p |-> p, points |-> points]
        [] ~Eof(p) /\ ~Is(p, ";") /\ Len(read.values) < 2 -> [p |-> read.p, points |-> points]
        [] OTHER -> PolygonPoints(read.p, Append(points, DbuPoint(read.values[1], read.values[2],
                                                                   p.lib.units)))

PolygonStatement(p, item, field, layer) ==
  LET read  == PolygonPoints(p, <<>>)
      told  == IF Len(read.points) < 3 THEN Tell(read.p, "Few points") ELSE read.p
  IN  Making(Consume(told, ";"),
             [item EXCEPT ![field] = Append(@, PlainShape("Polygon", layer, PointBounds(read.points),
                                                          read.points))])

\* The layer of the shapes that follow, one more of the library's if it is new.
\* In a via it ends at once, elsewhere it may say more.
LayerStatement(kind, p, item) ==
  LET name  == ParseName(p)
      found == FindOrAdd([k \in DOMAIN p.lib.layers |-> p.lib.layers[k].name], name.value[1])
      layers == IF found.index = Len(p.lib.layers) THEN Append(p.lib.layers, NewLayer(name.value[1]))
                                                   ELSE p.lib.layers
      end(q) == IF kind = "Via" THEN Consume(q, ";") ELSE SkipUntilSemicolon(q)
  IN  IF name.value = <<>> THEN Making(end(name.p), item)
      ELSE Making(end([name.p EXCEPT !.lib.layers = layers]), [item EXCEPT !.layer = found.index])

-----------------------------------------------------------------------------
(* Sections.                                                               *)

RECURSIVE Section(_, _), Statement(_, _, _)

\* parseLayer, parseVia, parseSite, parseMacro, parseMacroPin, parsePort and
\* parseObs: an END has a name but for those of ports and obstructions.
Section(kind, made) ==
  CASE Eof(made.p) -> made
    [] IsWord(made.p, "END") ->
         Making(IF kind = "Shapes" THEN Take(made.p) ELSE ParseName(Take(made.p)).p, made.item)
    [] OTHER -> Section(kind, Statement(kind, made.p, made.item))

\* A pin of a macro; one without a name is skipped.
WithPin(macro, made) == Making(made.p, [macro EXCEPT !.pins = Append(@, made.item)])
PinOf(p, macro) ==
  LET name == ParseName(p)
  IN  IF name.value = <<>> THEN Making(SkipSection(name.p), macro)
      ELSE WithPin(macro, Section("Pin", Making(name.p, NewPin(name.value[1]))))

WithPort(pin, made) == Making(made.p, [pin EXCEPT !.ports = Append(@, made.item.shapes)])
PortOf(p, pin) == WithPort(pin, Section("Shapes", Making(p, NewPort)))

WithObstructions(macro, made) == Making(made.p, [macro EXCEPT !.obstructions = made.item.shapes])
Obstructions(p, macro) ==
  WithObstructions(macro, Section("Shapes", Making(p, [layer |-> 0, shapes |-> macro.obstructions])))

\* All the words up to a semicolon.
RECURSIVE ClassWords(_, _)
ClassWords(p, words) ==
  IF Eof(p) \/ Is(p, ";") THEN Making(Take(p), words) ELSE ClassWords(Take(p), Append(words, Current(p).text))

WithClass(macro, made) == Making(made.p, [macro EXCEPT !.class = made.item])
ClassOf(p, macro) == WithClass(macro, ClassWords(p, <<>>))

Statement(kind, p, item) ==
  LET word(w) == IsWord(p, w)
      rest    == Take(p)
  IN  CASE kind = "Layer" /\ word("TYPE") -> NamedField(rest, item, "kind", LayerKinds)
        [] kind = "Layer" /\ word("PITCH") -> NumberField(rest, item, "pitch")
        [] kind = "Layer" /\ word("WIDTH") -> NumberField(rest, item, "width")
        [] kind = "Layer" /\ word("SPACING") -> NumberField(rest, item, "spacing")
        [] kind = "Site" /\ word("SIZE") -> TwoNumbers(rest, item, "width", "BY", "height")
        [] kind = "Macro" /\ word("CLASS") -> ClassOf(rest, item)
        [] kind = "Macro" /\ word("ORIGIN") -> TwoNumbers(rest, item, "origin_x", "", "origin_y")
        [] kind = "Macro" /\ word("SIZE") -> TwoNumbers(rest, item, "size_x", "BY", "size_y")
        [] kind = "Macro" /\ word("PIN") -> PinOf(rest, item)
        [] kind = "Macro" /\ word("OBS") -> Obstructions(rest, item)
        [] kind = "Pin" /\ word("DIRECTION") -> NamedField(rest, item, "direction", PinDirections)
        [] kind = "Pin" /\ word("USE") -> NamedField(rest, item, "use", {})
        [] kind = "Pin" /\ word("PORT") -> PortOf(rest, item)
        [] kind \in {"Via", "Shapes"} /\ word("LAYER") -> LayerStatement(kind, rest, item)
        [] kind \in {"Via", "Shapes"} /\ word("RECT") -> RectStatement(rest, item, "shapes", item.layer)
        [] kind = "Shapes" /\ word("POLYGON") -> PolygonStatement(rest, item, "shapes", item.layer)
        [] OTHER -> OtherStatement(p, item)

-----------------------------------------------------------------------------
(* The file.                                                               *)

\* A section of the library; one without a name is skipped.
Filed(table, made) == [made.p EXCEPT !.lib[table] = Append(@, made.item)]

NewItem(kind, name) ==
  CASE kind = "Layer" -> NewLayer(name) [] kind = "Via" -> NewVia(name)
    [] kind = "Site" -> NewSite(name) [] kind = "Macro" -> NewMacro(name)

Definition(p, kind, table) ==
  LET name == ParseName(p)
  IN  IF name.value = <<>> THEN SkipSection(name.p)
      ELSE Filed(table, Section(kind, Making(name.p, NewItem(kind, name.value[1]))))

LefStatement(p) ==
  LET rest == Take(p)
  IN  CASE IsWord(p, "VERSION") -> Consume(ParseName(rest).p, ";")
        [] IsWord(p, "UNITS") -> UnitsStatement(rest, "DATABASE")
        [] IsWord(p, "MANUFACTURINGGRID") -> Consume(ParseNumber(rest).p, ";")
        [] IsWord(p, "LAYER") -> Definition(rest, "Layer", "layers")
        [] IsWord(p, "VIA") -> Definition(rest, "Via", "vias")
        [] IsWord(p, "SITE") -> Definition(rest, "Site", "sites")
        [] IsWord(p, "MACRO") -> Definition(rest, "Macro", "macros")
        [] OTHER -> CommonStatement(p)

RECURSIVE ReadLef(_)
ReadLef(p) == IF Eof(p) THEN p ELSE ReadLef(LefStatement(p))

ParseLef(text) == ReadLef(Reader(text, EmptyLef))

-----------------------------------------------------------------------------
(* DEF.                                                                    *)

EmptyDef ==
  [units |-> 1000, name |-> <<>>, die |-> NoBounds, layers |-> <<>>, components |-> <<>>,
   pins |-> <<>>, nets |-> <<>>, blockages |-> <<>>]

NewComponent == [name |-> <<>>, macro |-> <<>>, status |-> "Unknown", at |-> Point(0, 0), orientation |-> <<>>]
NewDefPin == [name |-> <<>>, net |-> <<>>, status |-> "Unknown", at |-> Point(0, 0),
              orientation |-> <<>>, shapes |-> <<>>]
NewNet == [name |-> <<>>, special |-> FALSE, connections |-> <<>>, shapes |-> <<>>]

PlacementWords == {"PLACED", "FIXED", "COVER", "UNPLACED"}
RouteWords == {"ROUTED", "FIXED", "COVER", "SHIELD"}

\* Is the name one of the words?
Among(name, words) == name.value # <<>> /\ OneOf(words, name.value[1]) # "Unknown"

\* A field whose name may be missing.
MaybeNamed(p, item, field) ==
  LET name == ParseName(p)
  IN  Making(name.p, IF name.value = <<>> THEN item ELSE [item EXCEPT ![field] = name.value[1]])

\* Where a component or a pin is placed, and how it is turned.
PlacedAt(p, item, status) ==
  LET point  == ParsePoint(p)
      placed == [item EXCEPT !.status = status, !.at = ValueOr(point.value, item.at)]
  IN  MaybeNamed(point.p, placed, "orientation")

\* The place of a layer's name among those met so far.
LayerOf(p) ==
  LET name  == ParseName(p)
      found == FindOrAdd(p.lib.layers, name.value[1])
  IN  IF name.value = <<>> THEN Making(name.p, 0)
      ELSE Making([name.p EXCEPT !.lib.layers = found.names], found.index)

-----------------------------------------------------------------------------
(* Shapes.                                                                 *)

\* To a semicolon or the next plus.
Between(p) == ~Eof(p) /\ ~Is(p, ";") /\ ~Is(p, "+")

\* The first two points that are both there make a rectangle.
RECURSIVE FirstRect(_, _)
FirstRect(p, layer) ==
  LET first  == ParsePoint(p)
      second == ParsePoint(first.p)
      rect   == RectBetween(first.value[1], second.value[1])
  IN  CASE ~Between(p) -> Making(p, <<>>)
        [] Between(p) /\ ~Is(p, "(") -> FirstRect(Take(p), layer)
        [] OTHER -> IF first.value = <<>> \/ second.value = <<>> THEN FirstRect(second.p, layer)
                    ELSE Making(second.p, <<PlainShape("Rect", layer, rect, <<>>)>>)

ParseDefLayerShape(p) == LET layer == LayerOf(p) IN FirstRect(layer.p, layer.item)

RECURSIVE RoutePoints(_, _)
RoutePoints(p, points) ==
  LET point == ParsePoint(p)
  IN  CASE ~Between(p) -> Making(p, points)
        [] Between(p) /\ Is(p, "(") -> RoutePoints(point.p, points \o point.value)
        [] OTHER -> RoutePoints(Take(p), points)

\* A route is a rectangle between each of its points and the next.
ParseNetRoute(p, net) ==
  LET layer  == LayerOf(p)
      points == RoutePoints(layer.p, <<>>)
      segment(k) == PlainShape("Rect", layer.item, RectBetween(points.item[k], points.item[k + 1]), <<>>)
  IN  Making(points.p,
             [net EXCEPT !.shapes = @ \o IF points.item = <<>> THEN <<>>
                                         ELSE [k \in 1 .. Len(points.item) - 1 |-> segment(k)]])

-----------------------------------------------------------------------------
(* Items.                                                                  *)

\* The attribute of an item after its plus.
ComponentAttribute(p, component) ==
  LET keyword == ParseName(p)
  IN  IF Among(keyword, PlacementWords)
      THEN PlacedAt(keyword.p, component, Upper(keyword.value[1])[1]) ELSE Making(keyword.p, component)

WithShape(shape, pin) == Making(shape.p, [pin EXCEPT !.shapes = @ \o shape.item])

PinAttribute(p, pin) ==
  LET keyword == ParseName(p)
  IN  CASE Among(keyword, {"NET"}) -> MaybeNamed(keyword.p, pin, "net")
        [] Among(keyword, {"LAYER"}) -> WithShape(ParseDefLayerShape(keyword.p), pin)
        [] Among(keyword, PlacementWords) -> PlacedAt(keyword.p, pin, Upper(keyword.value[1])[1])
        [] OTHER -> Making(keyword.p, pin)

NetAttribute(p, net) ==
  LET keyword == ParseName(p)
  IN  IF Among(keyword, RouteWords) THEN ParseNetRoute(keyword.p, net) ELSE Making(keyword.p, net)

\* An instance and its pin, in brackets.
Connection(p, net) ==
  LET instance == ParseName(p)
      pin      == ParseName(instance.p)
      new      == [instance |-> ValueOr(instance.value, <<>>), pin |-> ValueOr(pin.value, <<>>)]
  IN  Making(Consume(pin.p, ")"), [net EXCEPT !.connections = Append(@, new)])

\* The shapes of blockages are all there is of them.
WithBlockage(shape, blockages) == Making(shape.p, blockages \o shape.item)

Attribute(kind, p, item) ==
  LET rest == Take(p)
  IN  CASE kind = "COMPONENTS" /\ Is(p, "+") -> ComponentAttribute(rest, item)
        [] kind = "PINS" /\ Is(p, "+") -> PinAttribute(rest, item)
        [] kind \in {"NETS", "SPECIALNETS"} /\ Is(p, "+") -> NetAttribute(rest, item)
        [] kind \in {"NETS", "SPECIALNETS"} /\ Is(p, "(") -> Connection(rest, item)
        [] kind = "BLOCKAGES" /\ IsWord(p, "LAYER") -> WithBlockage(ParseDefLayerShape(rest), item)
        [] OTHER -> Making(rest, item)

RECURSIVE Attributes(_, _)
Attributes(kind, made) ==
  IF Eof(made.p) \/ Is(made.p, ";") THEN Making(Consume(made.p, ";"), made.item)
  ELSE Attributes(kind, Attribute(kind, made.p, made.item))

\* What an item starts with, after its minus.
ItemHead(kind, p) ==
  LET component == MaybeNamed(p, NewComponent, "name")
  IN  CASE kind = "COMPONENTS" -> MaybeNamed(component.p, component.item, "macro")
        [] kind = "PINS" -> MaybeNamed(p, NewDefPin, "name")
        [] kind = "BLOCKAGES" -> Making(p, <<>>)
        [] OTHER -> MaybeNamed(p, [NewNet EXCEPT !.special = kind = "SPECIALNETS"], "name")

Kept(kind, made) ==
  CASE kind = "COMPONENTS" -> [made.p EXCEPT !.lib.components = Append(@, made.item)]
    [] kind = "PINS" -> [made.p EXCEPT !.lib.pins = Append(@, made.item)]
    [] kind = "BLOCKAGES" -> [made.p EXCEPT !.lib.blockages = @ \o made.item]
    [] OTHER -> [made.p EXCEPT !.lib.nets = Append(@, made.item)]

ReadItem(kind, p) == Kept(kind, Attributes(kind, ItemHead(kind, p)))

\* parseComponents, parsePins, parseNets and parseBlockages.
RECURSIVE Items(_, _)
Items(kind, p) ==
  CASE Eof(p) -> p
    [] IsWord(p, "END") -> ConsumeWord(Take(p), kind)
    [] ~Eof(p) /\ Is(p, "-") -> Items(kind, ReadItem(kind, Take(p)))
    [] OTHER -> Items(kind, Take(p))

-----------------------------------------------------------------------------
(* The file.                                                               *)

DefSections == {"COMPONENTS", "PINS", "NETS", "SPECIALNETS", "BLOCKAGES"}

DieArea(p) ==
  LET first  == ParsePoint(p)
      second == ParsePoint(first.p)
      end    == Consume(second.p, ";")
  IN  IF first.value = <<>> \/ second.value = <<>> THEN end
      ELSE [end EXCEPT !.lib.die = RectBetween(first.value[1], second.value[1])]

DefStatement(p) ==
  LET rest == Take(p)
      name == ParseName(rest)
  IN  CASE IsWord(p, "VERSION") -> Consume(name.p, ";")
        [] IsWord(p, "DESIGN") -> [Consume(name.p, ";") EXCEPT !.lib.name = ValueOr(name.value, @)]
        [] IsWord(p, "UNITS") -> UnitsStatement(rest, "DISTANCE")
        [] IsWord(p, "DIEAREA") -> DieArea(rest)
        [] \E kind \in DefSections : IsWord(p, kind) ->
             Items(CHOOSE kind \in DefSections : IsWord(p, kind), SkipUntilSemicolon(rest))
        [] OTHER -> CommonStatement(p)

RECURSIVE ReadDef(_)
ReadDef(p) == IF Eof(p) THEN p ELSE ReadDef(DefStatement(p))

LayersOfNames(p) == [p EXCEPT !.lib.layers = [k \in DOMAIN @ |-> NewLayer(@[k])]]
ParseDef(text) == LayersOfNames(ReadDef(Reader(text, EmptyDef)))

-----------------------------------------------------------------------------
(* What a layout source keeps of the files.                                *)

\* A layer that is known already keeps what it has and takes the rest.
Completed(known, layer) ==
  [known EXCEPT !.kind = IF @ = "Unknown" THEN layer.kind ELSE @,
                !.pitch = IF @ = <<>> THEN layer.pitch ELSE @,
                !.width = IF @ = <<>> THEN layer.width ELSE @,
                !.spacing = IF @ = <<>> THEN layer.spacing ELSE @]

\* The place of a layer by its name, letter by letter; -1 if there is none.
PlaceOfLayer(layers, name) ==
  Low({k \in DOMAIN layers : layers[k].name = name} \cup {Len(layers) + 1}) - 1

FindOrAddLayer(layers, layer) ==
  LET place == PlaceOfLayer(layers, layer.name)
  IN  IF place = Len(layers) THEN Append(layers, layer)
      ELSE [layers EXCEPT ![place + 1] = Completed(@, layer)]

AddLayers(data, layers) == [data EXCEPT !.layers = FoldLeft(FindOrAddLayer, @, layers)]

\* The source's place of the layer that is at the index of a file's.
LayerIn(data, layers, index) ==
  IF HasItem(layers, index) THEN PlaceOfLayer(data.layers, Item(layers, index).name) ELSE index

\* A shape of a file as the source has it.
Owned(data, layers, shape, owner_kind, owner, macro) ==
  [kind |-> shape.kind, rect |-> shape.rect, points |-> shape.points,
   layer |-> LayerIn(data, layers, shape.layer),
   owner_kind |-> owner_kind, owner |-> owner, macro |-> macro]

AppendShape(data, shape) ==
  [data EXCEPT !.shapes = Append(@, shape), !.bounds = ExpandBounds(@, shape.rect)]

AppendShapes(data, layers, shapes, owner_kind, owner, macro) ==
  FoldLeft(LAMBDA d, s : AppendShape(d, Owned(d, layers, s, owner_kind, owner, macro)), data, shapes)

-----------------------------------------------------------------------------
(* A LEF file: the pins of a macro in their order, then its obstructions.  *)

AppendMacro(data, layers, macro) ==
  LET index == Len(data.macros)
      pins  == FoldLeft(LAMBDA d, k : AppendShapes(d, layers, FlattenSeq(macro.pins[k].ports), "Pin",
                                                   k - 1, index),
                        data, [k \in DOMAIN macro.pins |-> k])
      all   == AppendShapes(pins, layers, macro.obstructions, "Obstruction", index, index)
  IN  [all EXCEPT !.macros = Append(@, macro)]

AppendVia(data, layers, via) ==
  [data EXCEPT !.vias = Append(@, [name |-> via.name, shapes |-> Map(via.shapes, LAMBDA s :
     [layer |-> LayerIn(data, layers, s.layer), rect |-> s.rect])])]

AppendLef(data, p) ==
  LET lef    == p.lib
      units  == IF data.units \in {0, 1000} THEN lef.units ELSE data.units
      layers == AddLayers([data EXCEPT !.units = units], lef.layers)
      vias   == FoldLeft(LAMBDA d, v : AppendVia(d, lef.layers, v), layers, lef.vias)
      macros == FoldLeft(LAMBDA d, m : AppendMacro(d, lef.layers, m), vias, lef.macros)
  IN  [macros EXCEPT !.sites = @ \o lef.sites, !.diagnostics = @ \o p.diagnostics]

-----------------------------------------------------------------------------
(* A DEF file: a mark for each component, then pins, nets and blockages.   *)

AppendComponent(data, component) ==
  LET shape == [kind |-> "Placement", rect |-> BoxOf({component.at}), points |-> <<>>, layer |-> 0,
                owner_kind |-> "Component", owner |-> Len(data.components), macro |-> NoIndex]
  IN  [AppendShape(data, shape) EXCEPT !.components = Append(@, component)]

AppendDefPin(data, layers, pin) ==
  [AppendShapes(data, layers, pin.shapes, "Pin", Len(data.pins), NoIndex) EXCEPT !.pins = Append(@, pin)]

AppendNet(data, layers, net) ==
  LET kind == IF net.special THEN "SpecialNet" ELSE "Net"
  IN  [AppendShapes(data, layers, net.shapes, kind, Len(data.nets), NoIndex) EXCEPT !.nets = Append(@, net)]

AppendBlockage(data, layers, shape) ==
  AppendShapes(data, layers, <<shape>>, "Blockage", Len(data.shapes), NoIndex)

AppendDef(data, p) ==
  LET def    == p.lib
      head   == [data EXCEPT !.units = IF def.units = 0 THEN @ ELSE def.units,
                             !.bounds = IF def.die = NoBounds THEN @ ELSE def.die]
      layers == AddLayers(head, def.layers)
      placed == FoldLeft(AppendComponent, layers, def.components)
      pins   == FoldLeft(LAMBDA d, pin : AppendDefPin(d, def.layers, pin), placed, def.pins)
      nets   == FoldLeft(LAMBDA d, net : AppendNet(d, def.layers, net), pins, def.nets)
      blocks == FoldLeft(LAMBDA d, s : AppendBlockage(d, def.layers, s), nets, def.blockages)
  IN  [blocks EXCEPT !.diagnostics = @ \o p.diagnostics]

\* Some LEF files, in their order, and then at most one DEF file.
OpenLefDef(lefs, defs, title) ==
  LET libraries == FoldLeft(LAMBDA d, text : AppendLef(d, ParseLef(text)), EmptyData(title), lefs)
  IN  FoldLeft(LAMBDA d, text : AppendDef(d, ParseDef(text)), libraries, defs)
=============================================================================
