---------------------------- MODULE SignalSources ----------------------------
(***************************************************************************)
(* What the index of a compiled design says of its expressions             *)
(* (analysis/semantic/AstIndex.cpp): the signals a value is drawn from,    *)
(* bit range by bit range, the signals that decide whether it is, and the  *)
(* cells and pins a schematic draws it with.                               *)
(*                                                                         *)
(* A node is an expression, a statement or an item of a module.  A file is *)
(* one line of text; a node stands from first up to last, around its parts *)
(* with a mark between each two.  A signal is a tuple of a number, and a   *)
(* name that is not declared has none.  Implicit conversions, structures,  *)
(* hierarchical names and the wording of expressions are left out.         *)
(***************************************************************************)
EXTENDS Integers, Sequences, SequencesExt, FiniteSetsExt

NoSignal == <<>>

RECURSIVE Shifted(_, _)
Shifted(node, by) ==
  [node EXCEPT !.first = @ + by, !.last = @ + by,
               !.args = <<>> \o [k \in DOMAIN @ |-> Shifted(@[k], by)]]

PlaceAfter(placed) == IF placed = <<>> THEN 1 ELSE Last(placed).last + 1
Laid(args) == FoldLeft(LAMBDA placed, arg : Append(placed, Shifted(arg, PlaceAfter(placed))), <<>>, args)

Node(op, kind, id, width, value, args) ==
  LET placed == Laid(args)
  IN  [op |-> op, kind |-> kind, id |-> id, width |-> width, value |-> value, args |-> placed,
       first |-> 0, last |-> PlaceAfter(placed) + 1]

Leaf(op, kind, id, width, value) ==
  [op |-> op, kind |-> kind, id |-> id, width |-> width, value |-> value, args |-> <<>>, first |-> 0, last |-> 2]

Abs(n) == IF n < 0 THEN -n ELSE n
Width(args) == FoldLeft(LAMBDA sum, arg : sum + arg.width, 0, args)
Widest(args) == Max({arg.width : arg \in ToSet(args)})

Signal(id, width)    == Leaf("name", "", id, width, 0)
Literal(width, n)    == Leaf("literal", "", NoSignal, width, n)
Element(e, selector) == Node("element", "bit", NoSignal, 1, 0, <<e, selector>>)
Bits(e, left, right) ==
  Node("range", "simple", NoSignal, Abs(left - right) + 1, 0, <<e, Literal(32, left), Literal(32, right)>>)
\* With +: and -: the second bound is the number of bits.
Upward(e, from, bits)   == Node("range", "ascending", NoSignal, bits, 0, <<e, from, Literal(32, bits)>>)
Downward(e, from, bits) == Node("range", "descending", NoSignal, bits, 0, <<e, from, Literal(32, bits)>>)
Concat(args)         == Node("concat", "", NoSignal, Width(args), 0, args)
Binary(kind, l, r)   == Node("binary", kind, NoSignal, Widest(<<l, r>>), 0, <<l, r>>)
Unary(kind, e)       == Node("unary", kind, NoSignal, e.width, 0, <<e>>)
Conditional(c, l, r) == Node("conditional", "", NoSignal, Widest(<<l, r>>), 0, <<c, l, r>>)
\* What is written where no expression could be bound.
Invalid(written)     == Node("invalid", "", NoSignal, 0, 0, <<written>>)

Encloses(outer, inner) == outer.first <= inner.first /\ inner.last <= outer.last

-----------------------------------------------------------------------------
(* Slices: the bits of a signal, or why they are not known.                *)

Slice(precision, msb, lsb) == [precision |-> precision, msb |-> msb, lsb |-> lsb]
Exact(msb, lsb)  == Slice("Exact", msb, lsb)
Loose(precision) == Slice(precision, 0, 0)
WholeSlice       == Loose("Whole")
IsExact(slice)   == slice.precision = "Exact"
SliceWidth(slice) == Abs(slice.msb - slice.lsb) + 1

IsStatic(e) == e.op = "literal"
IsSelect(e) == e.op \in {"element", "range"}
IsInvalid(e) == e.op = "invalid"
Selectors(e) == {e.args[k] : k \in 2 .. Len(e.args)}
DynamicSelectors(e) == {s \in Selectors(e) : ~IsStatic(s)}

SliceFact(e) ==
  CASE IsSelect(e) /\ DynamicSelectors(e) = {} -> Exact(e.args[2].value, Last(e.args).value)
    [] IsSelect(e) /\ DynamicSelectors(e) # {} -> Loose("Dynamic")
    [] e.op = "binary" -> Loose("Aggregate")
    [] IsInvalid(e) -> Loose("Unresolved")
    [] OTHER -> WholeSlice

Step(slice) == IF slice.msb >= slice.lsb THEN 1 ELSE -1

\* Bug: the operands are counted from the last bit.
SliceFromLsb(parent, offset, operand) ==
  IF ~IsExact(parent) THEN parent
  ELSE IF operand.width = 0 \/ offset + operand.width > SliceWidth(parent) THEN Loose("Aggregate")
  ELSE Exact(parent.lsb + Step(parent) * (offset + operand.width - 1), parent.lsb + Step(parent) * offset)

\* The bits an operand of a concatenation gives: the first operand gives the
\* first ones.
ConcatOperandSinkSlice(parent, offset, operand) ==
  LET start == parent.msb - Step(parent) * offset
  IN  IF ~IsExact(parent) THEN parent
      ELSE IF operand.width = 0 \/ offset + operand.width > SliceWidth(parent) THEN Loose("Aggregate")
      ELSE Exact(start, start - Step(parent) * (operand.width - 1))
Offset(args, k) == Width(SubSeq(args, 1, k - 1))
OperandSlice(concat, k, parent) ==
  ConcatOperandSinkSlice(parent, Offset(concat.args, k), concat.args[k])

\* The bits of a port that a connection reaches: the last ones.
ConnectionEndpointSlice(declared, e) ==
  CASE ~IsExact(declared) -> declared
    [] IsExact(declared) /\ (e.width = 0 \/ e.width > SliceWidth(declared)) -> Loose("Aggregate")
    [] OTHER -> Exact(declared.lsb + Step(declared) * (e.width - 1), declared.lsb)

-----------------------------------------------------------------------------
(* The signals an expression names.                                        *)

RECURSIVE DirectIds(_)
DirectIds(e) ==
  CASE e.op = "name" -> {e.id} \ {NoSignal}
    [] IsInvalid(e)  -> {}
    [] OTHER -> UNION {DirectIds(arg) : arg \in ToSet(e.args)}

\* Those its value is made of; a selector is not, unless it is within an operation
\* that is not looked into.
RECURSIVE DataIds(_)
DataIds(e) ==
  CASE IsSelect(e) -> DataIds(e.args[1])
    [] e.op \in {"concat", "binary"} -> UNION {DataIds(arg) : arg \in ToSet(e.args)}
    [] OTHER -> DirectIds(e)

RECURSIVE HasConditional(_)
HasConditional(e) ==
  \/ e.op = "conditional"
  \/ /\ e.op \in {"binary", "concat"}
     /\ \E arg \in ToSet(e.args) : HasConditional(arg)

\* The selectors that are no constants.
RECURSIVE SelectorsWithin(_)
SelectorsWithin(e) ==
  (IF IsSelect(e) THEN DynamicSelectors(e) ELSE {}) \cup
  (IF IsSelect(e) \/ e.op \in {"conditional", "binary", "concat"}
     THEN UNION {SelectorsWithin(arg) : arg \in ToSet(e.args)} ELSE {})

IsOpened(e) == e.op \in {"conditional", "concat"} \/ (e.op = "binary" /\ HasConditional(e))
Values(e) == IF e.op = "conditional" THEN {2, 3} ELSE DOMAIN e.args

RECURSIVE ConditionsWithin(_)
ConditionsWithin(e) ==
  (IF e.op = "conditional" THEN {e.args[1]} ELSE {}) \cup
  (IF IsOpened(e) THEN UNION {ConditionsWithin(e.args[k]) : k \in Values(e)} ELSE {})

-----------------------------------------------------------------------------
(* The sources of an assignment.                                           *)

Control(e, ids, origin, event, unresolved) ==
  [first |-> e.first, last |-> e.last, slice |-> SliceFact(e), ids |-> ids, origin |-> origin,
   event |-> event, unresolved |-> unresolved]
ConeControl(e, origin) ==
  Control(e, DataIds(e), origin, "None", DataIds(e) = {} /\ IsInvalid(e))
ControlsWithin(e) ==
  {ConeControl(s, "DynamicSelect") : s \in SelectorsWithin(e)} \cup
  {ConeControl(c, "TernaryCondition") : c \in ConditionsWithin(e)}

RECURSIVE DataSources(_, _)
DataSources(e, sink) ==
  IF IsOpened(e)
    THEN UNION {DataSources(e.args[k], IF e.op = "concat" THEN OperandSlice(e, k, sink) ELSE sink) :
                k \in Values(e)}
    ELSE {[first |-> e.first, last |-> e.last, slice |-> SliceFact(e), sink |-> sink,
           ids |-> DataIds(e), unresolved |-> IsInvalid(e)]}

Assign(left, right) == Node("assign", "", NoSignal, 0, 0, <<left, right>>)

Seed(assign, statements) ==
  LET left == assign.args[1]
  IN  [first |-> assign.first, last |-> assign.last, left |-> left, sink |-> SliceFact(left),
       left_ids |-> DirectIds(left), data |-> DataSources(assign.args[2], SliceFact(left)),
       controls |-> statements \cup ControlsWithin(assign.args[2])]

\* Bug: what decides about a procedural assignment is forgotten.
SeedWithoutStatements(assign, controls) == Seed(assign, {})
AssignmentSeed(assign, controls) == Seed(assign, controls)

\* Statements decide whether what is in them is done.
If(condition, statements) == Node("if", "", NoSignal, 0, 0, <<condition>> \o statements)
Case(selected, items, statements) ==
  Node("case", "", NoSignal, 0, 0, <<selected>> \o items \o statements)
Timed(event, statement) == Node("timed", "", NoSignal, 0, 0, <<event, statement>>)
Block(statements) == Node("block", "", NoSignal, 0, 0, statements)
Event(edge, e)          == Node("event", edge, NoSignal, 0, 0, <<e>>)
EventIff(edge, e, c)    == Node("event", edge, NoSignal, 0, 0, <<e, c>>)
Repeated(count, event)  == Node("repeated", "Repeated", NoSignal, 0, 0, <<count, event>>)
EventList(events)       == Node("events", "EventList", NoSignal, 0, 0, events)
ImplicitEvent           == Leaf("events", "Implicit", NoSignal, 0, 0)
Delay(n)                == Node("delay", "Unsupported", NoSignal, 0, 0, <<Literal(32, n)>>)

StatementControl(e, origin, event) ==
  Control(e, DirectIds(e), origin, event, DirectIds(e) = {} /\ (event # "None" \/ IsInvalid(e)))

RECURSIVE TimingSources(_)
TimingSources(timing) ==
  CASE timing.op = "event" ->
         {StatementControl(timing.args[1], "EventControl", timing.kind)} \cup
         {StatementControl(c, "EventIff", timing.kind) : c \in Selectors(timing)}
    [] timing.op = "events" -> UNION {TimingSources(event) : event \in ToSet(timing.args)}
    [] timing.op = "repeated" ->
         {StatementControl(timing.args[1], "EventControl", "Repeated")} \cup TimingSources(timing.args[2])
    [] timing.op = "delay" ->
         {[Control(timing, {}, "EventControl", "Unsupported", TRUE) EXCEPT !.slice = Loose("Unresolved")]}

IsStatement(node) == node.op \in {"assign", "if", "case", "timed", "block", "assertion", "procedure", "generate"}
StatementControls(statement) ==
  CASE statement.op = "if" -> {StatementControl(statement.args[1], "ConditionalStatement", "None")}
    [] statement.op = "case" -> {StatementControl(e, "CaseStatement", "None") :
                                 e \in {arg \in ToSet(statement.args) : ~IsStatement(arg)}}
    [] statement.op = "timed" -> TimingSources(statement.args[1])
    [] OTHER -> {}

\* The assignments of an item, with what its statements add.
RECURSIVE SeedsOf(_, _)
SeedsOf(node, controls) ==
  CASE node.op = "assign" -> {AssignmentSeed(node, controls)}
    [] IsStatement(node) /\ node.op # "assign" ->
         UNION {SeedsOf(arg, controls \cup StatementControls(node)) : arg \in ToSet(node.args)}
    [] OTHER -> {}

-----------------------------------------------------------------------------
(* Assertions observe signals; what they do not say of clock and reset the *)
(* module may.                                                             *)

Assertion(id, concurrent, property) ==
  Node("assertion", IF concurrent THEN "concurrent" ELSE "immediate", id, 0, 0, <<property>>)
Clocking(event, property)    == Node("clocking", "", NoSignal, 0, 0, <<event, property>>)
DisableIff(condition, property) == Node("disable", "", NoSignal, 0, 0, <<condition, property>>)
AbortOn(condition, property) == Node("abort", "", NoSignal, 0, 0, <<condition, property>>)
IfProperty(condition, properties) == Node("select", "", NoSignal, 0, 0, <<condition>> \o properties)
Sequence(properties)         == Node("sequence", "", NoSignal, 0, 0, properties)

AssertionSource(control, role, origin) ==
  [first |-> control.first, last |-> control.last, slice |-> control.slice, ids |-> control.ids,
   role |-> role, origin |-> origin, event |-> control.event, unresolved |-> control.unresolved]
AssertionExpressionSource(e, role, origin) ==
  {AssertionSource(c, role, origin) :
   c \in {c \in {StatementControl(e, origin, "None")} : c.ids # {} \/ c.unresolved}}
AssertionTimingSources(timing, origin) ==
  {AssertionSource(c, "Clock", origin) : c \in TimingSources(timing)}

RECURSIVE AssertionSources(_)
AssertionSources(property) ==
  LET within(k) == AssertionSources(property.args[k])
      guard(role, origin) ==
        AssertionExpressionSource(property.args[1], role, origin) \cup
        UNION {within(k) : k \in 2 .. Len(property.args)}
  IN  CASE property.op = "clocking" ->
             AssertionTimingSources(property.args[1], "AssertionClock") \cup within(2)
        [] property.op = "disable" -> guard("Disable", "AssertionDisable")
        [] property.op = "abort" -> guard("Abort", "AssertionAbort")
        [] property.op = "select" -> guard("Control", "AssertionConditional")
        [] property.op = "sequence" -> UNION {within(k) : k \in DOMAIN property.args}
        [] OTHER -> AssertionExpressionSource(property, "Sampled", "None")

DefaultClocking(event) == Node("default", "clocking", NoSignal, 0, 0, <<event>>)
DefaultDisable(e)      == Node("default", "disable", NoSignal, 0, 0, <<e>>)
Defaults(items, kind)  == {d \in ToSet(items) : d.op = "default" /\ d.kind = kind}

Observation(assertion, items) ==
  LET said == AssertionSources(assertion.args[1])
      lacks(role) == assertion.kind = "concurrent" /\ \A s \in said : s.role # role
  IN  [id |-> assertion.id, first |-> assertion.first, last |-> assertion.last,
       sources |-> said \cup
         (IF lacks("Clock") THEN UNION {AssertionTimingSources(d.args[1], "AssertionDefaultClock") :
                                        d \in Defaults(items, "clocking")} ELSE {}) \cup
         (IF lacks("Disable") THEN UNION {AssertionExpressionSource(d.args[1], "Disable", "AssertionDefaultDisable") :
                                          d \in Defaults(items, "disable")} ELSE {})]

RECURSIVE AssertionsWithin(_)
AssertionsWithin(node) ==
  IF node.op = "assertion" THEN {node}
  ELSE UNION {AssertionsWithin(arg) : arg \in {a \in ToSet(node.args) : IsStatement(a)}}

-----------------------------------------------------------------------------
(* The parts of what is connected to a port, a parameter or a pin.         *)

Port(endpoint, e)     == Node("port", "", endpoint, 0, 0, <<e>>)
EmptyPort(endpoint)   == Leaf("port", "", endpoint, 0, 0)
Override(endpoint, e) == Node("override", "", endpoint, 0, 0, <<e>>)
\* An instance stands with the name of its module, then with its connections.
Instance(id, module, connections) ==
  Node("instance", module, id, 0, 0, <<Leaf("reference", module, id, 0, 0)>> \o connections)
Gate(id, primitive, pins) == Node("gate", primitive, id, 0, 0, pins)
Generate(items)       == Node("generate", "", NoSignal, 0, 0, items)
Procedure(statement)  == Node("procedure", "", NoSignal, 0, 0, <<statement>>)

\* What decides about a value has an origin, what it is made of has none.
Role(origin) == IF origin = "None" THEN "Data" ELSE "Control"
SourcePart(id, node, origin, slice, endpoint, unresolved) ==
  [id |-> id, first |-> node.first, last |-> node.last, role |-> Role(origin), origin |-> origin,
   slice |-> slice, endpoint |-> endpoint, unresolved |-> unresolved]
PartsOf(node, ids, lost, origin, slice, endpoint) ==
  {SourcePart(id, node, origin, slice, endpoint, FALSE) : id \in ids} \cup
  (IF ids = {} /\ lost THEN {SourcePart(NoSignal, node, origin, slice, endpoint, TRUE)} ELSE {})

BoundParts(e, origin, slice, endpoint) == PartsOf(e, DataIds(e), IsInvalid(e), origin, slice, endpoint)

RECURSIVE ResolvedParts(_, _)
ResolvedParts(e, endpoint) ==
  CASE e.op = "conditional" ->
         BoundParts(e.args[1], "TernaryCondition", SliceFact(e.args[1]), endpoint) \cup
         ResolvedParts(e.args[2], endpoint) \cup ResolvedParts(e.args[3], endpoint)
    [] e.op = "concat" ->
         UNION {ResolvedParts(e.args[k], OperandSlice(e, k, endpoint)) : k \in DOMAIN e.args}
    [] IsSelect(e) ->
         UNION {BoundParts(s, "DynamicSelect", SliceFact(s), endpoint) : s \in DynamicSelectors(e)} \cup
         BoundParts(e.args[1], "None", SliceFact(e), endpoint)
    [] OTHER -> BoundParts(e, "None", SliceFact(e), endpoint)
CollectResolvedConnectionSourceParts(e, declared) == ResolvedParts(e, ConnectionEndpointSlice(declared, e))

\* Where an expression was not bound, its text says what it names.
RECURSIVE NamesWithin(_)
NamesWithin(e) ==
  IF e.op = "name" THEN {e.id} \ {NoSignal} ELSE UNION {NamesWithin(arg) : arg \in ToSet(e.args)}
WrittenParts(e, origin, slice, endpoint) == PartsOf(e, NamesWithin(e), ~IsStatic(e), origin, slice, endpoint)

SliceFactForSelector(e) ==
  LET left == e.args[2].value  right == Last(e.args).value
  IN  CASE DynamicSelectors(e) # {} -> Loose("Dynamic")
        [] DynamicSelectors(e) = {} /\ e.kind = "ascending"  -> Exact(left + right - 1, left)
        [] DynamicSelectors(e) = {} /\ e.kind = "descending" -> Exact(left, left - right + 1)
        [] OTHER -> Exact(left, right)

RECURSIVE CollectSyntaxConnectionSourceParts(_, _)
CollectSyntaxConnectionSourceParts(e, endpoint) ==
  CASE e.op = "concat" -> UNION {CollectSyntaxConnectionSourceParts(arg, endpoint) : arg \in ToSet(e.args)}
    [] IsSelect(e) ->
         (IF DynamicSelectors(e) = {} THEN {}
          ELSE UNION {WrittenParts(s, "DynamicSelect", Loose("Dynamic"), endpoint) : s \in Selectors(e)}) \cup
         WrittenParts(e.args[1], "None", SliceFactForSelector(e), endpoint)
    [] OTHER -> WrittenParts(e, "None", WholeSlice, endpoint)

\* What an output drives the compiler gives as an assignment to it, which is not
\* looked into.
DrivenParts(e, declared) ==
  PartsOf(e, DirectIds(e), FALSE, "None", WholeSlice, ConnectionEndpointSlice(declared, e))

\* What is connected to an endpoint of an instance, whose bits are declared so.
\* A parameter's value is never bound where it is read, only its text is.
ConnectionParts(connection, direction, declared) ==
  LET e == connection.args[1]
  IN  CASE connection.args = <<>> -> {}
        [] connection.op = "override" -> CollectSyntaxConnectionSourceParts(e, declared)
        [] connection.op = "port" /\ connection.args # <<>> ->
             IF direction \in {"output", "inout"} /\ ~IsInvalid(e) THEN DrivenParts(e, declared)
             ELSE CollectResolvedConnectionSourceParts(e, declared)

-----------------------------------------------------------------------------
(* The cells a module's schematic shows: its instances, its gates and the  *)
(* operators of its continuous assignments.                                *)

Item(id, type, kind, node) ==
  [id |-> id, type |-> type, kind |-> kind, first |-> node.first, last |-> node.last]
ItemCell(node) == Item(node.id, node.kind, IF node.op = "instance" THEN "module" ELSE node.kind, node)
LogicCell(number, type, e) == Item(<<"$", number>>, type, type, e)
IsDrawn(cell) == Len(cell.id) = 2

RECURSIVE ItemsWithin(_, _)
ItemsWithin(node, op) ==
  FlattenSeq([k \in DOMAIN node.args |->
    IF node.args[k].op = op THEN <<node.args[k]>>
    ELSE IF node.args[k].op = "generate" THEN ItemsWithin(node.args[k], op) ELSE <<>>])
DirectItems(node, op) == SelectSeq(node.args, LAMBDA arg : arg.op = op)

LogicKind(e) ==
  CASE e.op = "binary" /\ e.kind \in {"and", "or", "xor", "xnor"} -> e.kind
    [] e.op = "unary" /\ e.kind = "not" -> "not"
    [] e.op = "conditional" -> "mux"
    [] OTHER -> "none"

RECURSIVE LogicWithin(_)
LogicWithin(e) ==
  IF LogicKind(e) = "none" THEN <<>>
  ELSE Append(FlattenSeq([k \in DOMAIN e.args |-> LogicWithin(e.args[k])]), e)

AssignmentCells(cells, assign) ==
  LET logic == LogicWithin(assign.args[2])
  IN  cells \o [k \in DOMAIN logic |-> LogicCell(Len(cells) + k - 1, LogicKind(logic[k]), logic[k])]
            \o <<LogicCell(Len(cells) + Len(logic), "buf", assign)>>

\* The instances of generate blocks come last.
Cells(module) ==
  LET shown(nodes) == [k \in DOMAIN nodes |-> ItemCell(nodes[k])]
      direct == shown(DirectItems(module, "instance") \o DirectItems(module, "gate"))
      drawn  == FoldLeft(AssignmentCells, direct, ItemsWithin(module, "assign"))
  IN  drawn \o SelectSeq(shown(ItemsWithin(module, "instance")), LAMBDA cell : cell \notin ToSet(drawn))

-----------------------------------------------------------------------------
(* Their pins, and the net each is on.                                     *)

Pin(cell, kind, node, index, direction, role, net, slice, unresolved, literal) ==
  [cell |-> cell.id, kind |-> kind, cell_at |-> <<cell.first, cell.last>>, first |-> node.first,
   last |-> node.last, index |-> index, direction |-> direction, role |-> role, net |-> net,
   slice |-> slice, unresolved |-> unresolved, literal |-> literal]

PinDirection(primitive, index, count) ==
  CASE \/ index = 3 /\ primitive \in {"bufif0", "bufif1", "notif0", "notif1", "nmos", "pmos", "rnmos", "rpmos",
                                      "tranif0", "tranif1", "rtranif0", "rtranif1"}
       \/ index \in {3, 4} /\ primitive \in {"cmos", "rcmos"} -> "Control"
    [] primitive \in {"tran", "rtran", "tranif0", "tranif1", "rtranif0", "rtranif1"} /\ index < 3 -> "Inout"
    [] primitive \in {"buf", "not"} -> IF index = count THEN "Input" ELSE "Output"
    [] OTHER -> IF index = 1 THEN "Output" ELSE "Input"

GatePins(gate) ==
  LET count == Len(gate.args)
      direction(k) == PinDirection(gate.kind, k, count)
      parts(k) == IF direction(k) \in {"Output", "Inout"} /\ ~IsInvalid(gate.args[k])
                    THEN DrivenParts(gate.args[k], WholeSlice)
                    ELSE CollectResolvedConnectionSourceParts(gate.args[k], WholeSlice)
      pin(node, k, role, net, slice, unresolved, literal) ==
        Pin(ItemCell(gate), "Primitive", node, k, direction(k), role, net, slice, unresolved, literal)
  IN  UNION {{pin(p, k, p.role, p.id, p.slice, p.unresolved, FALSE) : p \in parts(k)} : k \in 1 .. count} \cup
      {pin(gate, k, "Data", NoSignal, WholeSlice, ~IsStatic(gate.args[k]), IsStatic(gate.args[k])) :
       k \in {k \in 1 .. count : parts(k) = {}}}

CellKind(cell) == IF cell.type = "buf" THEN "Assignment" ELSE "Operator"
DrawnPin(cell, node, direction, role, net, slice, unresolved, literal) ==
  Pin(cell, CellKind(cell), node, IF direction = "Output" THEN 0 ELSE -1, direction, role, net, slice,
      unresolved, literal)
OutputId(module, cell) == <<"out", module.kind, cell.id[2]>>

\* The smallest cell around a node, the buffer if no operator is.
TargetCell(cells, buffer, node) ==
  LET around == {cell \in cells \ {buffer} : Encloses(cell, node)}
  IN  IF around = {} THEN buffer ELSE CHOOSE cell \in around : \A other \in around : Encloses(other, cell)

SourcePins(cell, source, role) ==
  LET direction == IF role = "Control" THEN "Control" ELSE "Input"
  IN  IF source.ids = {}
        THEN {DrawnPin(cell, source, direction, role, NoSignal, source.slice, source.unresolved, ~source.unresolved)}
        ELSE {DrawnPin(cell, source, direction, role, id, source.slice, source.unresolved, FALSE) : id \in source.ids}

PinsWithin(module, cells, seed, controls) ==
  LET buffer == CHOOSE cell \in cells : cell.type = "buf"
      target(node) == TargetCell(cells, buffer, node)
      lefts  == IF seed.left_ids = {} THEN {NoSignal} ELSE seed.left_ids
  IN  {DrawnPin(buffer, seed.left, "Output", "Data", id, seed.sink, id = NoSignal, FALSE) : id \in lefts} \cup
      {DrawnPin(cell, cell, "Output", "Data", OutputId(module, cell), WholeSlice, FALSE, FALSE) :
       cell \in cells \ {buffer}} \cup
      {DrawnPin(TargetCell(cells \ {cell}, buffer, cell), cell, "Input", "Data", OutputId(module, cell), WholeSlice,
                FALSE, FALSE) : cell \in cells \ {buffer}} \cup
      UNION {SourcePins(target(source), source, "Data") : source \in seed.data} \cup
      UNION {SourcePins(target(source), source, "Control") : source \in controls}

\* Bug: what decides about an assignment is on no pin of its cells.
PinsWithoutControls(module, cells, seed) == PinsWithin(module, cells, seed, {})
AssignmentPins(module, cells, seed) == PinsWithin(module, cells, seed, seed.controls)

ModuleSeeds(module) == UNION {SeedsOf(part, {}) : part \in ToSet(module.args)}

\* A gate in a generate block is no cell and has no pins.
CellPins(module) ==
  LET drawn == {cell \in ToSet(Cells(module)) : IsDrawn(cell)}
      cells(seed) == {cell \in drawn : Encloses(seed, cell) \/ Encloses(cell, seed)}
      assigned == UNION {AssignmentPins(module, cells(seed), seed) :
                         seed \in {seed \in ModuleSeeds(module) : \E cell \in cells(seed) : cell.type = "buf"}}
  IN  UNION {GatePins(gate) : gate \in {gate \in ToSet(DirectItems(module, "gate")) : gate.id # NoSignal}} \cup
      assigned \cup
      {DrawnPin(cell, cell, "Unknown", "Data", NoSignal, WholeSlice, TRUE, FALSE) :
       cell \in {cell \in drawn : \A pin \in assigned : pin.cell # cell.id}}
=============================================================================
