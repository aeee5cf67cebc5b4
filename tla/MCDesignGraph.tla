---------------------------- MODULE MCDesignGraph ----------------------------
(***************************************************************************)
(* Three designs, and what the graph says of them against what their text  *)
(* does: bit by bit for the cones, by plain unfolding for the hierarchies. *)
(***************************************************************************)
EXTENDS DesignGraph

\* Data that is put together, selected, switched and registered; a module that is
\* instantiated twice, the second time with less.
Var(id, msb, lsb, direction) ==
  Declaration(direction, id, Abs(msb - lsb) + 1, <<Literal(32, msb), Literal(32, lsb)>>)
Bit(id, direction) == Declaration(direction, id, 1, <<>>)

ia == <<2>>  ib == <<3>>  oy == <<4>>  wa == <<5>>
ck == <<11>>  dd == <<12>>  qq == <<13>>  rr == <<14>>  se == <<15>>  tt == <<16>>  pp == <<17>>  vv == <<18>>  zz == <<19>>
uu == <<21>>  ww == <<22>>  ga == <<23>>  as == <<24>>

Mixer == Module("MIX", <<1>>, <<
  Declaration("parameter", wa, 32, <<Literal(32, 31), Literal(32, 0)>>),
  Var(ia, 3, 0, "input"), Var(ib, 0, 3, "input"), Var(oy, 3, 0, "output"),
  Assign(Signal(oy, 4), Concat(<<Bits(Signal(ia, 4), 1, 0), Bits(Signal(ib, 4), 0, 1)>>))>>)

Data == Module("DATA", <<10>>, <<
  Bit(ck, "input"), Var(dd, 3, 0, "input"), Var(qq, 3, 0, "output"), Var(rr, 3, 0, "wire"), Bit(se, "wire"),
  Var(tt, 1, 0, "wire"), Declaration("parameter", pp, 32, <<Literal(32, 31), Literal(32, 0)>>), Var(vv, 3, 0, "wire"),
  Var(zz, 3, 0, "wire"),
  DefaultClocking(Event("PosEdge", Signal(ck, 1))),
  Assign(Signal(tt, 2), Concat(<<Element(Signal(dd, 4), Literal(32, 3)), Unary("not", Element(Signal(dd, 4), Literal(32, 2)))>>)),
  Assign(Bits(Signal(rr, 4), 3, 1),
         Concat(<<Signal(se, 1), Conditional(Signal(ck, 1), Signal(tt, 2), Bits(Signal(dd, 4), 1, 0))>>)),
  Assign(Element(Signal(rr, 4), Literal(32, 0)), Element(Signal(vv, 4), Signal(se, 1))),
  Gate(ga, "bufif1", <<Signal(se, 1), Element(Signal(dd, 4), Literal(32, 0)), Signal(ck, 1)>>),
  Instance(uu, "MIX", <<Override(wa, Signal(pp, 32)),
                        Port(ia, Concat(<<Signal(tt, 2), Bits(Signal(dd, 4), 1, 0)>>)),
                        Port(ib, Conditional(Signal(se, 1), Signal(dd, 4), Signal(rr, 4))),
                        Port(oy, Signal(vv, 4))>>),
  Generate(<<Instance(ww, "MIX", <<Port(ia, Signal(tt, 2)), EmptyPort(ib), Port(oy, Invalid(Signal(NoSignal, 1)))>>)>>),
  Procedure(Timed(EventIff("PosEdge", Signal(ck, 1), Signal(tt, 2)),
    If(Signal(se, 1), <<Block(<<Assign(Bits(Signal(qq, 4), 3, 2), Signal(tt, 2))>>),
                        Case(Signal(dd, 4), <<Literal(4, 1)>>,
                             <<Assign(Bits(Signal(qq, 4), 1, 0), Bits(Signal(rr, 4), 2, 1))>>)>>))),
  Procedure(Block(<<Assign(Bits(Signal(zz, 4), 3, 2), Signal(tt, 2)),
                    Assign(Bits(Signal(zz, 4), 3, 0), Concat(<<Bits(Signal(vv, 4), 1, 0), Signal(tt, 2)>>))>>)),
  Assertion(as, TRUE, DisableIff(Signal(se, 1), Sequence(<<Signal(qq, 4), Binary("equal", Signal(tt, 2), Literal(2, 1))>>)))>>)
DataPath == Node("design", "", NoSignal, 0, 0, <<Mixer, Data>>)

\* Gates and switches, buses that count upwards, and text that names nothing.
na == <<41>>  nb == <<42>>  nc == <<43>>  nd == <<44>>  ne == <<45>>  nf == <<46>>  ng == <<47>>  nx == <<48>>
Gates == Module("GATES", <<40>>, <<
  Bit(na, "input"), Bit(nb, "inout"), Bit(nc, "inout"), Bit(nd, "output"), Var(ne, 0, 3, "wire"), Bit(nf, "wire"),
  Var(ng, 0, 3, "wire"), Bit(nx, "wire"),
  Gate(<<51>>, "tranif1", <<Signal(nb, 1), Signal(nc, 1), Signal(na, 1)>>),
  Gate(<<52>>, "buf", <<Signal(nf, 1), Signal(nx, 1), Element(Signal(ne, 4), Literal(32, 1))>>),
  Gate(<<53>>, "nand", <<Signal(nd, 1), Element(Signal(ne, 4), Signal(nf, 1)), Invalid(Signal(NoSignal, 1)), Signal(nb, 1),
                         Literal(1, 1)>>),
  Assign(Bits(Signal(ne, 4), 0, 1), Conditional(Signal(nc, 1), Binary("and", Signal(na, 1), Signal(nb, 1)),
                                                  Concat(<<Signal(nb, 1), Unary("not", Signal(nc, 1))>>))),
  Assign(Bits(Signal(ne, 4), 2, 3), Concat(<<Literal(1, 0), Element(Signal(ng, 4), Literal(32, 3))>>)),
  Assign(Signal(ng, 4), Concat(<<Bits(Signal(ne, 4), 1, 2), Invalid(Signal(NoSignal, 1))>>))>>)
GatesOnly == Node("design", "", NoSignal, 0, 0, <<Gates>>)

\* Modules that instantiate each other, one of them through two others, and one
\* that is nowhere.
Leafless(name, id, inside) ==
  Module(name, <<id>>, [k \in DOMAIN inside |-> Instance(<<id + k>>, inside[k], <<>>)])
Nested == Node("design", "", NoSignal, 0, 0, <<
  Leafless("LOOP", 60, <<"LEFT">>), Leafless("CHIP", 70, <<"LEFT", "RIGHT", "LEAF">>),
  Leafless("LEFT", 80, <<"LOOP", "LEAF">>), Leafless("RIGHT", 90, <<"LOOP", "ROM">>), Leafless("LEAF", 100, <<>>)>>)
\* Nobody is at the top of these.
Ring == Node("design", "", NoSignal, 0, 0, <<Leafless("PING", 110, <<"PONG">>), Leafless("PONG", 120, <<"PING">>)>>)

-----------------------------------------------------------------------------
(* Which bit is made of which, from the text.                              *)

DeclarationOf(design, id) ==
  CHOOSE d \in UNION {Declarations(module) : module \in Modules(design)} : d.id = id
\* From the last bit to the first.
BitsBetween(id, msb, lsb) ==
  [k \in 1 .. Abs(msb - lsb) + 1 |-> {<<id, IF msb >= lsb THEN lsb + k - 1 ELSE lsb - k + 1>>}]
BitsOfSymbol(design, id) ==
  LET d == DeclarationOf(design, id)
  IN  IF d.args = <<>> THEN BitsBetween(id, 0, 0) ELSE BitsBetween(id, d.args[1].value, d.args[2].value)
All(bits) == UNION ToSet(bits)
At(bits, k) == IF k \in DOMAIN bits THEN bits[k] ELSE {}

RECURSIVE BitsOf(_, _)
BitsOf(design, e) ==
  LET of(k) == BitsOf(design, e.args[k])
      each(parts, decides) ==
        [k \in 1 .. e.width |-> decides \cup UNION {At(part, k) : part \in parts}]
  IN  CASE e.op = "name" -> BitsOfSymbol(design, e.id)
        [] IsSelect(e) /\ DynamicSelectors(e) = {} -> BitsBetween(e.args[1].id, e.args[2].value, Last(e.args).value)
        [] IsSelect(e) /\ DynamicSelectors(e) # {} -> [k \in 1 .. e.width |-> All(of(1)) \cup All(of(2))]
        [] e.op = "concat" -> FlattenSeq(Reverse([k \in DOMAIN e.args |-> of(k)]))
        [] e.op = "conditional" -> each({of(2), of(3)}, All(of(1)))
        [] e.op \in {"binary", "unary"} -> each({of(k) : k \in DOMAIN e.args}, {})
        [] OTHER -> [k \in 1 .. e.width |-> {}]

RECURSIVE Lost(_)
Lost(e) == IsInvalid(e) \/ \E part \in ToSet(e.args) : Lost(part)

\* A target is a symbol, some of its bits, or one of them that is not known.
TargetBits(design, left) == IF IsSelect(left) /\ DynamicSelectors(left) # {} THEN <<All(BitsOf(design, left.args[1]))>>
                            ELSE BitsOf(design, left)
Driver(to, from, decides, whole, lost) ==
  [to |-> to, from |-> from, decides |-> decides, whole |-> whole, lost |-> lost]
BitsDeciding(design, expressions) == UNION {All(BitsOf(design, e)) : e \in expressions}

\* What decides whether the statements in a statement are done.
Deciding(statement) ==
  CASE statement.op = "timed" -> ToSet(statement.args[1].args)
    [] statement.op \in {"if", "case"} -> {e \in ToSet(statement.args) : ~IsStatement(e)}
    [] OTHER -> {}
RECURSIVE Assigning(_, _, _)
Assigning(design, statement, decides) ==
  IF statement.op = "assign"
    THEN LET left == statement.args[1]
         IN  {Driver(TargetBits(design, left), BitsOf(design, statement.args[2]), decides,
                     ~IsSelect(left), Lost(statement))}
    ELSE UNION {Assigning(design, inner, decides \cup BitsDeciding(design, Deciding(statement))) :
                inner \in {arg \in ToSet(statement.args) : IsStatement(arg)}}

Connecting(design, connection) ==
  LET port == BitsOfSymbol(design, connection.id)
      direction == DeclarationOf(design, connection.id).kind
      e == connection.args[1]
  IN  IF connection.args = <<>> THEN {}
      ELSE IF direction = "output" THEN {Driver(BitsOf(design, e), port, {}, TRUE, FALSE)}
      ELSE {Driver(port, BitsOf(design, e), {}, FALSE, Lost(e))}

\* Which pins a gate drives, and which it reads.
Driven(gate) ==
  CASE gate.kind = "tranif1" -> {1, 2} [] gate.kind = "buf" -> 1 .. Len(gate.args) - 1 [] OTHER -> {1}
Reading(gate) == IF gate.kind = "tranif1" THEN DOMAIN gate.args ELSE DOMAIN gate.args \ Driven(gate)
Gating(design, gate) ==
  {Driver(BitsOf(design, gate.args[k]), <<>>, BitsDeciding(design, {gate.args[i] : i \in Reading(gate) \ {k}}), TRUE,
          \E i \in Reading(gate) : Lost(gate.args[i]) \/ DynamicSelectors(gate.args[i]) # {}) : k \in Driven(gate)}

RECURSIVE NamesIn(_)
NamesIn(node) == (IF node.op = "name" THEN {node} ELSE {}) \cup UNION {NamesIn(arg) : arg \in ToSet(node.args)}
Asserting(design, assertion, module) ==
  {Driver(<<{<<assertion.id, 0>>}>>, <<>>,
          BitsDeciding(design, NamesIn(assertion) \cup UNION {NamesIn(d) : d \in Defaults(module.args, "clocking")}),
          TRUE, FALSE)}

Drivers(design) ==
  UNION {UNION {Assigning(design, part, {}) : part \in {part \in ToSet(module.args) : IsStatement(part)}} \cup
         UNION {UNION {Connecting(design, c) : c \in ToSet(Connections(instance))} : instance \in ToSet(Instances(module))} \cup
         UNION {Gating(design, gate) : gate \in ToSet(DirectItems(module, "gate"))} \cup
         UNION {Asserting(design, assertion, module) : assertion \in AssertionsWithin(module)} :
         module \in Modules(design)}

Positions(driver) == 1 .. Greater(Len(driver.to), Len(driver.from))
Made(driver) == UNION {At(driver.to, k) \X (At(driver.from, k) \cup driver.decides) : k \in Positions(driver)}
Bitwise(drivers) == UNION {Made(driver) : driver \in drivers}
SymbolOf(b) == b[1]
SymbolsOf(bits) == {SymbolOf(b) : b \in bits}
Symbolwise(drivers) ==
  UNION {SymbolsOf(All(d.to)) \X SymbolsOf(All(d.from) \cup d.decides) : d \in drivers}

RECURSIVE Reached(_, _)
Reached(steps, from) ==
  LET next == from \cup {step[2] : step \in {step \in steps : step[1] \in from}}
  IN  IF next = from THEN from ELSE Reached(steps, next)

\* The bits that are meant where a signal is named: those that are assigned there.
AssignedAt(module, id, position) ==
  {left \in {seed.left : seed \in ModuleSeeds(module)} :
   /\ Holds(RangeOf(left), position)
   /\ IsSelect(left)
   /\ DynamicSelectors(left) = {}
   /\ left.args[1].id = id}
RootBits(design, module, id, position) ==
  LET lefts == AssignedAt(module, id, position)
  IN  IF lefts = {} THEN All(BitsOfSymbol(design, id)) ELSE All(BitsOf(design, CHOOSE left \in lefts : TRUE))

\* Whatever is asked: a symbol, the place, the bits.
Questions(design, module) ==
  {[symbol |-> node.id, position |-> node.first, bits |-> RootBits(design, module, node.id, node.first)] :
   node \in Declarations(module) \cup {name \in NamesIn(module) : name.id # NoSignal}} \cup
  {[symbol |-> a.id, position |-> a.first, bits |-> {<<a.id, 0>>}] : a \in AssertionsWithin(module)}

\* The first step of a cone may take what is told of the bits or of the whole, what
\* decides about it included; a further step takes a symbol for the whole of it.
Near(driver, asked) ==
  \/ asked.bits \cap All(driver.to) # {}
  \/ driver.whole /\ asked.symbol \in SymbolsOf(All(driver.to))
Nearby(drivers, asked) ==
  LET near == {d \in drivers : Near(d, asked)}
      from(d) == IF d.whole THEN All(d.from)
                 ELSE UNION {At(d.from, k) : k \in {k \in DOMAIN d.to : d.to[k] \cap asked.bits # {}}}
  IN  {asked.symbol} \cup SymbolsOf(UNION {from(d) \cup d.decides : d \in near})

\* A cone does not come back to the symbol it starts from for other bits of it.
MustReach(bitwise, asked) ==
  SymbolsOf(Reached({step \in bitwise : step[1] \in asked.bits \/ SymbolOf(step[1]) # asked.symbol}, asked.bits))
MayReach(drivers, symbolwise, asked) ==
  Reached({step \in symbolwise : step[1] # asked.symbol}, Nearby(drivers, asked))

Told(cone) == [nodes |-> cone.nodes, edges |-> cone.edges, partial |-> cone.partial, truncated |-> cone.truncated]
CutIsSaid(cone, cut, cap) ==
  /\ Cardinality(cut.nodes) <= cap /\ Cardinality(cut.edges) <= cap
  /\ cut.nodes \subseteq cone.nodes /\ cut.edges \subseteq cone.edges
  /\ cut.truncated => cut.partial
  /\ ~cut.truncated => Told(cut) = Told(cone)

ConeIsWhole(graph, drivers, bitwise, symbolwise, asked) ==
  LET cone == ConeAt(graph, asked.symbol, asked.position, 0)
  IN  /\ MustReach(bitwise, asked) \subseteq cone.nodes
      /\ cone.nodes \subseteq MayReach(drivers, symbolwise, asked)
      /\ \A edge \in cone.edges : {edge.from, edge.to} \subseteq cone.nodes
      /\ (\E d \in drivers : d.lost /\ SymbolsOf(All(d.to)) \cap cone.nodes # {}) => cone.partial
      /\ \A cap \in 1 .. 4 : CutIsSaid(cone, ConeAt(graph, asked.symbol, asked.position, cap), cap)

Holding(design, graph, drivers) ==
  \A bitwise \in {Bitwise(drivers)}, symbolwise \in {Symbolwise(drivers)}, module \in Modules(design) :
    \A asked \in Questions(design, module) : ConeIsWhole(graph, drivers, bitwise, symbolwise, asked)

\* A backward cone names every symbol that a bit of those asked for is made of or
\* decided by, and no symbol that none of its drivers names; it says so when a driver
\* could not be read, and when it was cut (AstIndex.cpp, backwardCone).
EveryConeIsWhole ==
  \A design \in {DataPath, GatesOnly} :
    \A graph \in {BuildDesignGraphIndexes(design)}, drivers \in {Drivers(design)} : Holding(design, graph, drivers)

-----------------------------------------------------------------------------
(* A schematic draws what the cones tell.                                  *)

IsStaticSlice(slice) == slice.precision \in {"Whole", "Exact"}
Ends(ends, side) == {end \in ends : end.side = side}
IsOperatorOutput(net) == Len(net[1]) = 3

IsPinOfCell(end) == Len(end.pin) = 3

\* From a net through a cell, and on where the cell only feeds another cell.
ThroughCells(ends) ==
  {<<load.net, driver.net>> : <<load, driver>> \in
     {<<load, driver>> \in Ends(ends, "load") \X Ends(ends, "driver") :
      IsPinOfCell(load) /\ IsPinOfCell(driver) /\ load.node = driver.node}}
NetsFrom(steps, net) == Reached({step \in steps : step[1] = net \/ IsOperatorOutput(step[1])}, {net})
Drawn(ends) ==
  LET steps == ThroughCells(ends)
  IN  {<<target[1], net[1]>> : <<target, net>> \in
         {<<target, net>> \in {step[2] : step \in steps} \X {step[1] : step \in steps} :
          ~IsOperatorOutput(target) /\ ~IsOperatorOutput(net) /\ target[1] # net[1] /\
          target \in NetsFrom(steps, net)}}

Continuous(module) == ToSet(ItemsWithin(module, "assign")) \cup ToSet(DirectItems(module, "gate"))
ToldOf(graph, module) ==
  {<<edge.from, edge.to>> : edge \in
     {edge \in graph.edges :
      /\ edge.kind \in {"Assignment", "ControlDependency", "PrimitiveCell"}
      /\ edge.at \in {RangeOf(part) : part \in Continuous(module)}
      /\ IsStaticSlice(edge.source_slice) /\ IsStaticSlice(edge.sink_slice)
      /\ edge.from \in {d.id : d \in Declarations(module)}}}

\* An instance: which of its endpoints a net drives, and which drives a net.
Wired(ends, instances) ==
  {<<end.node, end.pin, end.net[1], end.side>> : end \in {end \in ends : end.node \in instances}}
Connected(graph, instances, signals) ==
  LET edges == {edge \in graph.edges : edge.kind = "InstancePort" /\ edge.instance \in instances /\
                                        IsStaticSlice(edge.source_slice) /\ IsStaticSlice(edge.sink_slice)}
  IN  {<<edge.instance, edge.to, edge.from, "driver">> : edge \in {edge \in edges : edge.from \in signals}} \cup
      {<<edge.instance, edge.from, edge.to, "load">> : edge \in {edge \in edges : edge.to \in signals}}

\* What drives a net of a schematic through the cells of an assignment or a gate is
\* what the cone of the net's symbol says drives it, and an instance is on the nets its
\* ports are connected to (buildSchematicNets, buildDesignGraphIndexes).
EverySchematicAgrees ==
  \A design \in {DataPath, GatesOnly} :
    \A graph \in {BuildDesignGraphIndexes(design)}, module \in Modules(design) :
      \A ends \in {BuildSchematicNets(design, module).ends},
         instances \in {{instance.id : instance \in ToSet(Instances(module))}} :
        /\ Drawn(ends) = ToldOf(graph, module)
        /\ Wired(ends, instances) = Connected(graph, instances, {d.id : d \in Declarations(module)})

-----------------------------------------------------------------------------
(* Hierarchies.                                                            *)

RECURSIVE Unfolded(_, _, _, _, _)
Unfolded(design, limit, name, instance, above) ==
  LET found == ModulesNamed(design, name)
      inside == IF found = {} \/ name \in ToSet(above) \/ Len(above) >= limit THEN <<>>
                ELSE Instances(CHOOSE module \in found : TRUE)
  IN  [module |-> name, instance |-> instance, unresolved |-> found = {},
       cycle |-> found # {} /\ name \in ToSet(above),
       truncated |-> found # {} /\ name \notin ToSet(above) /\ Len(above) >= limit,
       children |-> [k \in DOMAIN inside |->
                       Unfolded(design, limit, inside[k].kind, inside[k].id, Append(above, name))]]

IsExpanded(node) == ~node.unresolved /\ ~node.cycle /\ ~node.truncated
IdOf(design, name) == (CHOOSE module \in ModulesNamed(design, name) : TRUE).id
KnownChildren(design, node) ==
  {child \in ToSet(node.children) : ModulesNamed(design, child.module) # {}}
Item1(id) == [id |-> id, given |-> 1]

NodesAgree(design, calls, node) ==
  LET outgoing == OutgoingCalls(design, calls, 1, Item1(IdOf(design, node.module))).calls
      ids == {IdOf(design, child.module) : child \in KnownChildren(design, node)}
  IN  /\ Cardinality(outgoing) = Cardinality(KnownChildren(design, node))
      /\ ids = {call.other : call \in outgoing}
      /\ \A call \in outgoing :
           /\ [other |-> IdOf(design, node.module), from |-> call.from] \in
                 IncomingCalls(design, calls, 1, Item1(call.other)).calls
           /\ CallHierarchyItemAt(design, calls, call.from[1]) = call.other

\* A hierarchy is what plain unfolding gives, however often a part of it is met; the
\* calls of a module are its children, those into it the converse, and a schematic shows
\* the modules of the hierarchy (moduleHierarchy, incomingCalls, outgoingCalls, schematic).
EveryHierarchyAgrees ==
  \A design \in {DataPath, Nested, Ring}, limit \in 0 .. 4 :
    \A calls \in {BuildModuleCallEdgeIndex(design)}, told \in {HierarchyOf(design, <<>>, <<>>, limit)},
       shown \in {SchematicOf(design, <<>>, <<>>, limit)} :
      LET nodes == UNION {HierarchyNodes(root) : root \in ToSet(told.roots)}
          first == HierarchyNodes(Head(told.roots))
          views == {view.name : view \in ToSet(shown.modules)}
          known == {node.module : node \in {node \in first : ~node.unresolved}}
      IN  /\ \A root \in ToSet(told.roots) : root = Unfolded(design, limit, root.module, NoSignal, <<>>)
          /\ \A node \in {node \in nodes : IsExpanded(node)} : NodesAgree(design, calls, node)
          /\ views \subseteq known
          /\ ~shown.truncated => views = known
          /\ \A module \in Modules(design) :
               /\ OutgoingCalls(design, calls, 2, Item1(module.id)).unresolved
               /\ CallHierarchyItemAt(design, calls, module.first) = module.id
=============================================================================
