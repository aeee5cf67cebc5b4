----------------------------- MODULE DesignGraph -----------------------------
(***************************************************************************)
(* The graph of a compiled design: which signal is drawn from which        *)
(* (analysis/semantic/DesignGraphIndexBuilder.cpp), and what the editor is *)
(* told of it (DesignGraphProvider.cpp): the backward cone of a signal,    *)
(* the modules within a module, its schematic, who instantiates whom.      *)
(*                                                                         *)
(* A design is a node whose parts are its modules; a module is a node      *)
(* whose parts are its declarations and its items, its kind is its name,   *)
(* and names are ordered like the numbers of the modules.  Interfaces,     *)
(* structures and modules within modules are left out.                     *)
(***************************************************************************)
EXTENDS SignalSources

Declaration(direction, id, width, bounds) == Node("declaration", direction, id, width, 0, bounds)
Module(name, id, parts) == Node("module", name, id, 0, 0, parts)
Modules(design) == ToSet(design.args)
ModulesNamed(design, name) == {module \in Modules(design) : module.kind = name}
Declarations(module) == {part \in ToSet(module.args) : part.op = "declaration"}
Instances(module) == ItemsWithin(module, "instance")
Connections(instance) == Tail(instance.args)

DirectionFor(port) == port.kind
IsPort(declaration) == DirectionFor(declaration) \in {"input", "output", "inout", "ref"}
IsEndpoint(declaration) == IsPort(declaration) \/ declaration.kind = "parameter"
DeclaredSliceForEndpoint(declaration) ==
  IF declaration.args = <<>> THEN Exact(0, 0)
  ELSE Exact(declaration.args[1].value, declaration.args[2].value)

-----------------------------------------------------------------------------
(* The edges: a signal, one it is drawn from, and where that is said.      *)

RangeOf(node) == <<node.first, node.last>>
Edge(from, to, at, target, source, kind, role, origin, event, source_slice, sink_slice, instance) ==
  [from |-> from, to |-> to, at |-> at, target |-> target, source |-> RangeOf(source), kind |-> kind,
   role |-> role, origin |-> origin, event |-> event, source_slice |-> source_slice,
   sink_slice |-> sink_slice, instance |-> instance]
Unresolved(from, source) == [from |-> from, source |-> RangeOf(source)]
Facts(edges, unresolved) == [edges |-> edges, unresolved |-> unresolved]
AllFacts(facts) == Facts(UNION {f.edges : f \in facts}, UNION {f.unresolved : f \in facts})

LeastId(ids) == CHOOSE id \in ids : \A other \in ids : id[1] <= other[1]
LostOf(from, sources) == {Unresolved(from, s) : s \in {s \in sources : s.ids = {} /\ s.unresolved}}

\* An assignment is filed under one of its targets.
BuildAssignmentEdges(seed) ==
  LET left == LeastId(seed.left_ids)
      edge(source, to, kind, role, origin, event, sink) ==
        Edge(left, to, RangeOf(seed), RangeOf(seed.left), source, kind, role, origin, event, source.slice, sink, NoSignal)
  IN  Facts(UNION {{edge(s, to, "Assignment", "Data", "None", "None", s.sink) : to \in s.ids \ {left}} :
                   s \in seed.data} \cup
            UNION {{edge(c, to, "ControlDependency", "Control", c.origin, c.event, seed.sink) : to \in c.ids \ {left}} :
                   c \in seed.controls},
            LostOf(left, seed.data \cup seed.controls))

BuildAssertionObservationEdges(observation, symbols) ==
  LET sampled == {s \in observation.sources : ~s.unresolved}
      edges(s) == {Edge(observation.id, to, RangeOf(observation), RangeOf(observation), s, "AssertionSample", s.role,
                        s.origin, s.event, s.slice, WholeSlice, NoSignal) :
                   to \in (s.ids \cap symbols) \ {observation.id}}
  IN  Facts(UNION {edges(s) : s \in sampled},
            {Unresolved(observation.id, s) : s \in observation.sources \ sampled})

IsStaticPart(part) == ~part.unresolved /\ part.id # NoSignal /\ part.slice.precision \in {"Whole", "Exact"}
IsStaticPin(pin) == ~pin.unresolved /\ ~pin.literal /\ pin.net # NoSignal /\ pin.slice.precision \in {"Whole", "Exact"}

\* An output is drawn from the inputs of its gate, the ends of a switch from each other.
AppendPrimitiveCellConeEdges(pins) ==
  LET primitive(directions) == {pin \in pins : pin.kind = "Primitive" /\ pin.direction \in directions}
      feeds(source, sink) ==
        /\ source.cell = sink.cell
        /\ CASE sink.direction = "Output" -> source.direction \in {"Input", "Control"} /\ source.index # sink.index
             [] sink.direction = "Inout"  -> source.direction = "Control" \/ (source.direction = "Inout" /\ source # sink)
      pairs == {<<sink, source>> \in {pin \in primitive({"Output", "Inout"}) : IsStaticPin(pin)} \X
                                     primitive({"Input", "Control", "Inout"}) : feeds(source, sink)}
      controls(source) == source.direction = "Control"
      edge(sink, source) ==
        Edge(sink.net, source.net, sink.cell_at, RangeOf(sink), source, "PrimitiveCell",
             IF controls(source) THEN "Control" ELSE "Data", IF controls(source) THEN "PrimitiveControl" ELSE "None",
             "None", source.slice, sink.slice, NoSignal)
  IN  Facts({edge(p[1], p[2]) : p \in {p \in pairs : IsStaticPin(p[2])}},
            {Unresolved(p[1].net, p[2]) : p \in {p \in pairs : ~IsStaticPin(p[2]) /\ p[2].direction # "Inout"}})

\* What is connected to an endpoint of the module that is instantiated.
ConnectionFact(design, instance, connection) ==
  [instance |-> instance, endpoint |-> connection.id, override |-> connection.op = "override", at |-> connection,
   declared |-> UNION {{d \in Declarations(module) : d.id = connection.id /\ IsEndpoint(d)} :
                       module \in ModulesNamed(design, instance.kind)}]
PartsOfFact(fact, endpoint) ==
  ConnectionParts(fact.at, DirectionFor(endpoint), DeclaredSliceForEndpoint(endpoint))
ConnectionFacts(design, module) ==
  UNION {{ConnectionFact(design, instance, connection) : connection \in ToSet(Connections(instance))} :
         instance \in ToSet(Instances(module))}

ConnectionEdges(fact, endpoint) ==
  LET parts == PartsOfFact(fact, endpoint)
      at == IF fact.at.args = <<>> THEN RangeOf(fact.at) ELSE RangeOf(fact.at.args[1])
      kind == IF fact.override THEN "ParameterOverride" ELSE "InstancePort"
      into(p) == Edge(endpoint.id, p.id, at, RangeOf(endpoint), p, kind, p.role, p.origin, "None",
                      p.slice, p.endpoint, fact.instance.id)
      out(p)  == Edge(p.id, endpoint.id, at, RangeOf(p), p, kind, p.role, p.origin, "None",
                      p.endpoint, p.slice, fact.instance.id)
      resolved == {p \in parts : ~p.unresolved}
  IN  Facts((IF fact.override \/ DirectionFor(endpoint) # "output" THEN {into(p) : p \in resolved} ELSE {}) \cup
            (IF ~fact.override /\ DirectionFor(endpoint) # "input" THEN {out(p) : p \in resolved} ELSE {}),
            IF \E p \in parts : p.unresolved THEN {Unresolved(endpoint.id, fact.at)} ELSE {})

ItemIds(module) == {part.id : part \in Declarations(module) \cup AssertionsWithin(module) \cup ToSet(Instances(module))}
Symbols(design) == UNION {ItemIds(module) \cup {module.id} : module \in Modules(design)}

ModuleFacts(design, module, symbols) ==
  AllFacts({BuildAssignmentEdges(seed) : seed \in {seed \in ModuleSeeds(module) : seed.left_ids # {}}} \cup
           {BuildAssertionObservationEdges(Observation(assertion, module.args), symbols) :
            assertion \in AssertionsWithin(module)} \cup
           {AppendPrimitiveCellConeEdges(CellPins(module))} \cup
           UNION {{ConnectionEdges(fact, endpoint) : endpoint \in fact.declared} :
                  fact \in ConnectionFacts(design, module)})

-----------------------------------------------------------------------------
(* A cone starts from a symbol at a place; where that is a target, the     *)
(* bits it has there matter.                                               *)

Lesser(m, n)  == IF m <= n THEN m ELSE n
Greater(m, n) == IF m <= n THEN n ELSE m
Low(slice)  == Lesser(slice.msb, slice.lsb)
High(slice) == Greater(slice.msb, slice.lsb)

\* Bug: bits that touch are taken for apart.
ExactSlicesApart(lhs, rhs) ==
  ~IsExact(lhs) \/ ~IsExact(rhs) \/ (Low(lhs) < High(rhs) /\ Low(rhs) < High(lhs))
ExactSlicesIntersect(lhs, rhs) ==
  ~IsExact(lhs) \/ ~IsExact(rhs) \/ (Low(lhs) <= High(rhs) /\ Low(rhs) <= High(lhs))

\* What is told of the target once is merged: the bits between the first and the last.
FirstSlice(slices) == CHOOSE slice \in slices : TRUE
MergeRootSlices(slices, count) ==
  IF count = 1 THEN FirstSlice(slices)
  ELSE IF \E slice \in slices : ~IsExact(slice) THEN Loose("Aggregate")
  ELSE Exact(Max({High(slice) : slice \in slices}), Min({Low(slice) : slice \in slices}))

RootSelections(edges) ==
  LET of(target, symbol) == {edge \in edges : edge.target = target /\ edge.from = symbol}
      merged(of_root) == MergeRootSlices({edge.sink_slice : edge \in of_root}, Cardinality(of_root))
  IN  {[range |-> root[1], symbol |-> root[2], slice |-> merged(of(root[1], root[2]))] :
       root \in {<<edge.target, edge.from>> : edge \in edges}}

GraphOf(symbols, facts) ==
  [symbols |-> symbols, edges |-> facts.edges, unresolved |-> {u.from : u \in facts.unresolved},
   roots |-> RootSelections(facts.edges)]
GraphFacts(design, symbols) == AllFacts({ModuleFacts(design, module, symbols) : module \in Modules(design)})
BuildDesignGraphIndexes(design) == GraphOf(Symbols(design), GraphFacts(design, Symbols(design)))

Holds(range, position) == range[1] <= position /\ position <= range[2]
RootSlice(graph, symbol, position) ==
  LET at == {root \in graph.roots : root.symbol = symbol /\ Holds(root.range, position)}
  IN  IF at = {} THEN WholeSlice
      ELSE (CHOOSE root \in at : \A other \in at : root.range[1] <= other.range[1]).slice

-----------------------------------------------------------------------------
(* The backward cone.                                                      *)

EdgeKey(edge) == edge.to \o edge.at \o edge.target \o edge.source
\* The order of sequences of numbers.
Precedes(s, t) ==
  \E k \in DOMAIN s : k \in DOMAIN t /\ s[k] < t[k] /\ \A i \in 1 .. k - 1 : s[i] = t[i]
Ordered(edges) ==
  LET before(edge) == Cardinality({other \in edges : Precedes(EdgeKey(other), EdgeKey(edge))})
  IN  [k \in 1 .. Cardinality(edges) |-> CHOOSE edge \in edges : before(edge) = k - 1]

TraceEdge(edge) ==
  [from |-> edge.from, to |-> edge.to, at |-> edge.at[1], kind |-> edge.kind, role |-> edge.role,
   origin |-> edge.origin, event |-> edge.event, source_slice |-> edge.source_slice, sink_slice |-> edge.sink_slice]
IsDynamic(slice) == slice.precision = "Dynamic"

\* Bug: a cone that is cut is not said to be.
ReachedAfter(query, trace) ==
  query.cap > 0 /\ (Cardinality(trace.nodes) > query.cap \/ Cardinality(trace.edges) > query.cap)
ReachedCap(query, trace) ==
  query.cap > 0 /\ (Cardinality(trace.nodes) >= query.cap \/ Cardinality(trace.edges) >= query.cap)
MarkTruncated(trace) == [trace EXCEPT !.truncated = TRUE, !.partial = TRUE]

\* From the symbol that was asked for only the bits that were.
IsSkipped(query, edge) ==
  edge.from = query.symbol /\ IsExact(query.slice) /\ ~ExactSlicesIntersect(query.slice, edge.sink_slice)
IsUnproved(query, edge) ==
  /\ edge.from = query.symbol
  /\ IsExact(query.slice)
  /\ edge.sink_slice.precision \in {"Aggregate", "Dynamic", "Unresolved"}

FollowEdge(query, symbols, trace, edge) ==
  LET added == [trace EXCEPT
        !.partial = @ \/ IsUnproved(query, edge) \/ IsDynamic(edge.source_slice) \/ IsDynamic(edge.sink_slice),
        !.nodes = @ \cup ({edge.to} \cap symbols),
        !.edges = @ \cup {TraceEdge(edge)}]
  IN  CASE trace.truncated -> trace
        [] ~trace.truncated /\ ReachedCap(query, trace) -> MarkTruncated(trace)
        [] ~trace.truncated /\ ~ReachedCap(query, trace) /\ IsSkipped(query, edge) -> trace
        [] OTHER -> IF edge.to \in trace.visited \/ ReachedCap(query, added) THEN added
                    ELSE [added EXCEPT !.pending = Append(@, edge.to)]

Visit(graph, query, trace, symbol) ==
  LET known == [trace EXCEPT !.visited = @ \cup {symbol}, !.partial = @ \/ symbol \in graph.unresolved]
      follow(seen, edge) == FollowEdge(query, graph.symbols, seen, edge)
      followed == FoldLeft(follow, known, Ordered({edge \in graph.edges : edge.from = symbol}))
  IN  IF ReachedCap(query, followed) THEN MarkTruncated(followed) ELSE followed

RECURSIVE VisitPending(_, _, _)
VisitPending(graph, query, trace) ==
  LET symbol == Head(trace.pending)
      rest == [trace EXCEPT !.pending = Tail(@)]
  IN  CASE trace.pending = <<>> \/ trace.truncated -> trace
        [] trace.pending # <<>> /\ ~trace.truncated ->
             VisitPending(graph, query,
               IF symbol \in trace.visited \/ symbol \notin graph.symbols
                 THEN [rest EXCEPT !.visited = @ \cup {symbol}]
               ELSE IF ReachedCap(query, trace) THEN MarkTruncated(rest)
               ELSE Visit(graph, query, rest, symbol))

EmptyTrace(nodes) ==
  [nodes |-> nodes, edges |-> {}, pending |-> <<>>, visited |-> {}, truncated |-> FALSE, partial |-> FALSE]
BackwardCone(graph, query) ==
  IF graph.edges = {} /\ graph.unresolved = {} THEN EmptyTrace({})
  ELSE VisitPending(graph, query,
         [EmptyTrace({query.symbol} \cap graph.symbols) EXCEPT
            !.pending = <<query.symbol>>, !.partial = IsDynamic(query.slice)])
ConeAt(graph, symbol, position, cap) ==
  BackwardCone(graph, [symbol |-> symbol, slice |-> RootSlice(graph, symbol, position), cap |-> cap])

-----------------------------------------------------------------------------
(* The modules within modules.                                             *)

Sorted(modules) ==
  LET before(module) == Cardinality({other \in modules : other.id[1] < module.id[1]})
  IN  [k \in 1 .. Cardinality(modules) |-> (CHOOSE module \in modules : before(module) = k - 1).kind]
InstantiatedNames(design) == UNION {{instance.kind : instance \in ToSet(Instances(module))} : module \in Modules(design)}
InferredHierarchyRootNames(design) ==
  LET roots == {module \in Modules(design) : module.kind \notin InstantiatedNames(design)}
  IN  Sorted(IF roots = {} THEN Modules(design) ELSE roots)

\* What is asked for, or what is configured, or what nobody instantiates.
RootNames(design, asked, tops) ==
  IF asked # <<>> THEN asked ELSE IF tops # <<>> THEN tops ELSE InferredHierarchyRootNames(design)

HierarchyNode(name, unresolved, cycle, truncated, children) ==
  [module |-> name, instance |-> NoSignal, unresolved |-> unresolved, cycle |-> cycle,
   truncated |-> truncated, children |-> children]
InstantiateHierarchyTemplate(node, instance) == [node EXCEPT !.instance = instance]

\* Bug: what a module was expanded to is taken from another place of the hierarchy.
MemoKeyWithoutStack(name, depth, stack) == <<name, depth>>
HierarchyMemoKey(name, depth, stack) == <<name, depth, stack>>

RECURSIVE BuildNode(_, _, _, _, _)
BuildNode(design, limit, memo, name, stack) ==
  LET depth == Len(stack)
      key   == HierarchyMemoKey(name, depth, stack)
      kept  == {entry \in memo : entry.key = key}
      found == ModulesNamed(design, name)
      done(node, known) == [node |-> node, memo |-> known \cup {[key |-> key, node |-> node]}]
      child(built, instance) ==
        LET next == BuildNode(design, limit, built.memo, instance.kind, Append(stack, name))
        IN  [memo |-> next.memo,
             children |-> Append(built.children, InstantiateHierarchyTemplate(next.node, instance.id))]
      built == FoldLeft(child, [memo |-> memo, children |-> <<>>],
                        Instances(CHOOSE module \in found : TRUE))
  IN  CASE kept # {} -> [node |-> (CHOOSE entry \in kept : TRUE).node, memo |-> memo]
        [] kept = {} /\ found = {} -> done(HierarchyNode(name, TRUE, FALSE, FALSE, <<>>), memo)
        [] kept = {} /\ found # {} /\ name \in ToSet(stack) ->
             done(HierarchyNode(name, FALSE, TRUE, FALSE, <<>>), memo)
        [] kept = {} /\ found # {} /\ name \notin ToSet(stack) /\ depth >= limit ->
             done(HierarchyNode(name, FALSE, FALSE, TRUE, <<>>), memo)
        [] OTHER -> done(HierarchyNode(name, FALSE, FALSE, FALSE, built.children), built.memo)

RECURSIVE HierarchyNodes(_)
HierarchyNodes(node) == {node} \cup UNION {HierarchyNodes(child) : child \in ToSet(node.children)}

\* What is said of the whole is said of some node of it.
HierarchyOf(design, asked, tops, limit) ==
  LET add(built, name) ==
        LET next == BuildNode(design, limit, built.memo, name, <<>>)
        IN  [memo |-> next.memo, roots |-> Append(built.roots, next.node)]
      roots == FoldLeft(add, [memo |-> {}, roots |-> <<>>], RootNames(design, asked, tops)).roots
      nodes == UNION {HierarchyNodes(root) : root \in ToSet(roots)}
  IN  [roots |-> roots, unresolved |-> roots = <<>>,
       truncated |-> \E node \in nodes : node.truncated,
       partial |-> \E node \in nodes : node.truncated \/ node.cycle \/ node.unresolved]

-----------------------------------------------------------------------------
(* The schematic of a module: nets, each with the pins that drive it and   *)
(* those that load it.                                                     *)

End(net, side, node, pin) == [net |-> net, side |-> side, node |-> node, pin |-> pin]
Inverted(direction) ==
  CASE direction = "input" -> "output" [] direction = "output" -> "input" [] OTHER -> direction
AppendEndpointByDirection(net, direction, node, pin) ==
  {End(net, side, node, pin) : side \in (IF direction = "input" THEN {} ELSE {"driver"}) \cup
                                        (IF direction = "output" THEN {} ELSE {"load"})}
PinSides(direction) ==
  CASE direction \in {"Input", "Control"} -> {"load"} [] direction = "Output" -> {"driver"}
    [] direction = "Inout" -> {"driver", "load"} [] OTHER -> {}

PortEnds(net, ports) ==
  UNION {AppendEndpointByDirection(net, Inverted(DirectionFor(port)), <<"port">> \o port.id, port.id) : port \in ports}
Ports(module) == {declaration \in Declarations(module) : IsPort(declaration)}
SchematicFacts(design, module) ==
  UNION {{[fact |-> fact, endpoint |-> endpoint, parts |-> PartsOfFact(fact, endpoint)] : endpoint \in fact.declared} :
         fact \in {fact \in ConnectionFacts(design, module) : ~fact.override}}
IsLost(parts) == parts = {} \/ \E p \in parts : p.unresolved

\* The pins of the instances that are on a net, and those of the other cells.
WiredPins(facts) ==
  UNION {{[of |-> f, part |-> p] : p \in {p \in f.parts : IsStaticPart(p)}} : f \in {f \in facts : ~IsLost(f.parts)}}
DrawnPins(pins) == {pin \in pins : IsStaticPin(pin) /\ pin.direction # "Unknown"}

NetsOf(module, facts, pins, wired, drawn) ==
  LET ports(id) == {port \in Ports(module) : port.id = id}
      loose == {port \in Ports(module) : port.id \notin {w.part.id : w \in wired} \cup {pin.net : pin \in drawn}}
      instanceEnds(w) ==
        AppendEndpointByDirection(<<w.part.id, w.part.slice>>, DirectionFor(w.of.endpoint), w.of.fact.instance.id,
                                  w.of.endpoint.id) \cup
        PortEnds(<<w.part.id, w.part.slice>>, ports(w.part.id))
      pinEnds(pin) ==
        {End(<<pin.net, pin.slice>>, side, pin.cell, <<pin.direction, pin.index, pin.first>>) :
         side \in PinSides(pin.direction)} \cup
        PortEnds(<<pin.net, pin.slice>>, ports(pin.net))
      pinned == {pin.cell : pin \in pins}
  IN  [ends |-> UNION {instanceEnds(w) : w \in wired} \cup UNION {pinEnds(pin) : pin \in drawn} \cup
                UNION {PortEnds(<<port.id, Loose("Unconnected")>>, {port}) : port \in loose},
       partial |-> \/ \E f \in facts : IsLost(f.parts) \/ \E p \in f.parts : ~IsStaticPart(p)
                   \/ pins # drawn
                   \/ \E cell \in ToSet(Cells(module)) : cell.kind # "module" /\ cell.id \notin pinned]
NetsOfParts(module, facts, pins) == NetsOf(module, facts, pins, WiredPins(facts), DrawnPins(pins))
BuildSchematicNets(design, module) == NetsOfParts(module, SchematicFacts(design, module), CellPins(module))

AppendView(result, name, nets, truncated) ==
  [result EXCEPT !.modules = Append(@, [name |-> name, ends |-> nets.ends]),
                 !.partial = @ \/ nets.partial \/ truncated, !.truncated = @ \/ truncated]

RECURSIVE CollectSchematic(_, _, _, _, _)
CollectSchematic(design, limit, result, name, depth) ==
  LET found  == ModulesNamed(design, name)
      module == CHOOSE module \in found : TRUE
      within(seen, instance) == CollectSchematic(design, limit, seen, instance.kind, depth + 1)
  IN  CASE \E view \in ToSet(result.modules) : view.name = name -> result
        [] (\A view \in ToSet(result.modules) : view.name # name) /\ found = {} -> [result EXCEPT !.partial = TRUE]
        [] OTHER -> FoldLeft(within,
                             AppendView(result, name, BuildSchematicNets(design, module), depth >= limit),
                             IF depth >= limit THEN <<>> ELSE Instances(module))

SchematicOf(design, asked, tops, limit) ==
  LET names == RootNames(design, asked, tops)
      empty == [modules |-> <<>>, partial |-> FALSE, truncated |-> FALSE, unresolved |-> names = <<>>]
  IN  IF names = <<>> THEN empty ELSE CollectSchematic(design, limit, empty, Head(names), 0)

-----------------------------------------------------------------------------
(* Who instantiates whom.                                                  *)

BuildModuleCallEdgeIndex(design) ==
  UNION {{[caller |-> module.id, callee |-> callee.id, instance |-> instance.id, from |-> RangeOf(instance.args[1])] :
          <<instance, callee>> \in {<<instance, callee>> \in ToSet(Instances(module)) \X Modules(design) :
                                    instance.kind = callee.kind}} : module \in Modules(design)}

\* The smallest of what stands at a position: a module, or the name of one.
CallHierarchyItemAt(design, calls, position) ==
  LET ranges == {<<RangeOf(module), module.id>> : module \in Modules(design)} \cup
                {<<call.from, call.callee>> : call \in calls}
      at == {r \in ranges : Holds(r[1], position)}
      size(r) == r[1][2] - r[1][1]
  IN  IF at = {} THEN NoSignal
      ELSE (CHOOSE r \in at : \A other \in at :
              size(r) < size(other) \/ (size(r) = size(other) /\ r[2][1] <= other[2][1]))[2]

Refused == [unresolved |-> TRUE, calls |-> {}]
\* An item is of the generation it was given in.
IsCurrentItem(design, now, asked) ==
  asked.id # NoSignal /\ asked.given = now /\ \E module \in Modules(design) : module.id = asked.id
IncomingCalls(design, calls, now, asked) ==
  IF ~IsCurrentItem(design, now, asked) THEN Refused
  ELSE [unresolved |-> FALSE,
        calls |-> {[other |-> call.caller, from |-> call.from] : call \in {c \in calls : c.callee = asked.id}}]
OutgoingCalls(design, calls, now, asked) ==
  IF ~IsCurrentItem(design, now, asked) THEN Refused
  ELSE [unresolved |-> FALSE,
        calls |-> {[other |-> call.callee, from |-> call.from] : call \in {c \in calls : c.caller = asked.id}}]
=============================================================================
