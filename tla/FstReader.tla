----------------------------- MODULE FstReader ------------------------------
(***************************************************************************)
(* The reader of FST waveform files (FstReader.cpp).  A file is a header   *)
(* and blocks: the hierarchy, the lengths of the signals, and sections of  *)
(* changes.  The changes of a signal in a section are a chain of entries,  *)
(* each with the distance in the section's time table from the one before. *)
(* An index of the chains tells where the chain of each handle lies, or    *)
(* that it is that of another handle, or that there is none.  The measures *)
(* of the time a read takes are left out.                                  *)
(***************************************************************************)
EXTENDS FstBytes

ExtraValueChars == << "x", "z", "h", "u", "w", "l", "-", "?" >>

ScopeTag   == 254
UpscopeTag == 255
AttrBegin  == 252
AttrEnd    == 253
MaxVarType == 29
PortType   == 18
RealTypes  == {3, 4, 20, 29}
StringType == 21

\* Stands for the greatest 32-bit number: the length of values of any length.
AnyLength == 16383

Fail(data) == [data EXCEPT !.failed = TRUE]

-----------------------------------------------------------------------------
(***************************************************************************)
(* The hierarchy: scopes that open and close, and variables in them.  A    *)
(* variable that is no alias gets the next handle.                         *)
(***************************************************************************)
JoinPath(names) ==
    FoldLeft(LAMBDA path, name : IF name = << >> THEN path
                                 ELSE IF path = << >> THEN name ELSE path \o << "." >> \o name,
             << >>, names)

SignalWidth(type, width) ==
    LET told == CASE type = PortType   -> IF width >= 2 THEN (width - 2) \div 3 ELSE 0
                  [] type \in RealTypes -> 8
                  [] type = StringType  -> 0
                  [] OTHER              -> width
    IN  IF told \in {0, AnyLength} THEN 1 ELSE told

OpenScope(payload, s) ==
    LET name      == ReadNullString(payload, s.at + 2)
        component == ReadNullString(payload, name.at)
        unnamed   == name.value = << >>
        path      == Append(s.path, IF unnamed THEN << "$unnamed_scope_", ToString(s.unnamed) >>
                                    ELSE name.value)
        index     == Len(s.scopes)
    IN  [s EXCEPT !.scopes  = Append(@, [index |-> index, path |-> JoinPath(path),
                                         parent |-> IF s.open = << >> THEN 0 ELSE Last(s.open)]),
                  !.open    = Append(@, index),
                  !.path    = path,
                  !.unnamed = IF unnamed THEN @ + 1 ELSE @,
                  !.at      = component.at]

CloseScope(s) ==
    IF s.open = << >> THEN [s EXCEPT !.at = @ + 1]
    ELSE [s EXCEPT !.open = Front(@), !.path = Front(@), !.at = @ + 1]

\* An attribute is passed over: of two kinds, one that names a source file has
\* a number in the place of the text.
SkipAttribute(payload, s) ==
    LET source == ByteIs(payload, s.at + 1, 0) /\ payload[s.at + 3].value \in {4, 5}
        text   == IF source THEN ReadVarint(payload, s.at + 3).at ELSE s.at + 3
    IN  IF s.at + 3 > Len(payload) \/ (source /\ ReadByte(payload, text).value # 0)
        THEN [s EXCEPT !.at = Past(payload)]
        ELSE [s EXCEPT !.at = ReadVarint(payload, ReadNullString(payload, text).at).at]

AddVariable(payload, s) ==
    LET name   == ReadNullString(payload, s.at + 2)
        width  == ReadVarint(payload, name.at)
        alias  == ReadVarint(payload, width.at)
        handle == IF alias.value = 0 THEN s.next ELSE alias.value
    IN  [s EXCEPT !.signals = Append(@,
                      [handle |-> handle,
                       width  |-> SignalWidth(payload[s.at + 1].value, width.value),
                       scope  |-> IF s.open = << >> THEN 0 ELSE Last(s.open),
                       name   |-> name.value,
                       path   |-> JoinPath(Append(s.path, name.value))]),
                  !.next = IF alias.value = 0 THEN @ + 1 ELSE @,
                  !.at   = alias.at]

ParseRecord(payload, s) ==
    LET tag == payload[s.at + 1].value
    IN  CASE tag = ScopeTag   -> OpenScope(payload, s)
          [] tag = UpscopeTag -> CloseScope(s)
          [] tag = AttrBegin  -> SkipAttribute(payload, s)
          [] tag = AttrEnd    -> [s EXCEPT !.at = @ + 1]
          [] tag =< MaxVarType -> AddVariable(payload, s)
          [] OTHER            -> [s EXCEPT !.at = Past(payload)]

RECURSIVE ParseRecords(_, _)
ParseRecords(payload, s) ==
    IF s.at >= Len(payload) THEN s ELSE ParseRecords(payload, ParseRecord(payload, s))

Told(data, payload, read) ==
    IF read.at > Len(payload) THEN Fail(data)
    ELSE [data EXCEPT !.scopes = read.scopes, !.signals = read.signals]

ParseHierarchy(payload, data) ==
    Told(data, payload,
         ParseRecords(payload, [scopes |-> data.scopes, signals |-> data.signals, at |-> 0,
                                open |-> << >>, path |-> << >>, next |-> 1, unnamed |-> 0]))

\* The block of the hierarchy: as it is, or compressed behind its length, in
\* one of two ways once, or in one of them twice.
GzipMagic(payload) == Len(payload) >= 10 /\ ByteIs(payload, 8, 31) /\ ByteIs(payload, 9, 139)

ParseGzipHierarchy(payload, data) ==
    LET encoded == SubSeq(payload, 11, Len(payload))
    IN  IF GzipMagic(payload) /\ ~Inflates(encoded, ReadU64(payload, 0)) THEN Fail(data)
        ELSE ParseHierarchy(IF GzipMagic(payload) THEN Inflate(encoded) ELSE payload, data)

ParseLz4Hierarchy(payload, data) ==
    LET encoded == SubSeq(payload, 9, Len(payload))
    IN  IF Len(payload) >= 8 /\ Inflates(encoded, ReadU64(payload, 0))
        THEN ParseHierarchy(Inflate(encoded), data) ELSE Fail(data)

ParseLz4DuoHierarchy(payload, data) ==
    LET length == ReadVarint(payload, 8)
        outer  == SubSeq(payload, length.at + 1, Len(payload))
    IN  IF Len(payload) >= 8 /\ Inflates(outer, length.value)
        THEN ParseLz4Hierarchy(SubSeq(payload, 1, 8) \o Inflate(outer), data) ELSE Fail(data)

\* The length of the values of each handle (8 for a real); it replaces the
\* width the hierarchy told.  A length of 0 stands for values of any length.
ReadLength(geometry, s) ==
    LET read == ReadVarint(geometry, s.at)
    IN  [lengths |-> Append(s.lengths,
            CASE read.value = 0         -> [length |-> 8, real |-> TRUE]
              [] read.value = AnyLength -> [length |-> 0, real |-> FALSE]
              [] OTHER                  -> [length |-> read.value, real |-> FALSE]),
         at |-> read.at]

Widened(signals, lengths) ==
    [i \in DOMAIN signals |->
        IF signals[i].handle \notin DOMAIN lengths THEN signals[i]
        ELSE [signals[i] EXCEPT !.width = Max({1, lengths[signals[i].handle].length})]]

ParseGeometry(payload, data) ==
    LET length   == ReadU64(payload, 0)
        handles  == ReadU64(payload, 8)
        encoded  == SubSeq(payload, 17, Len(payload))
        geometry == Unpacked(encoded, length)
        read     == FoldLeft(LAMBDA s, h : IF s.at < Len(geometry) THEN ReadLength(geometry, s) ELSE s,
                             [lengths |-> << >>, at |-> 0], [h \in 1 .. handles |-> h])
    IN  IF \/ Len(payload) < 16
           \/ data.maxHandle # 0 /\ handles > data.maxHandle
           \/ ~Readable(encoded, length)
           \/ read.at > Len(geometry)
        THEN Fail(data)
        ELSE [data EXCEPT !.lengths = read.lengths, !.signals = Widened(@, read.lengths)]

-----------------------------------------------------------------------------
(***************************************************************************)
(* A section of changes: its range of times, the values it starts with,    *)
(* the chains, their index, and the time table, found from its end.        *)
(***************************************************************************)
TableMeta(payload) == Len(payload) - 24

EncodedTableLength(payload) == ReadU64(payload, TableMeta(payload) + 8)

NoTimes == [valid |-> FALSE, times |-> << >>]

DecodeTimeTable(payload) ==
    LET meta    == TableMeta(payload)
        length  == ReadU64(payload, meta)
        encoded == SubSeq(payload, meta - EncodedTableLength(payload) + 1, meta)
        table   == Unpacked(encoded, length)
        next(s) == LET read == ReadVarint(table, s.at)
                   IN  [times |-> Append(s.times, read.value + (IF s.times = << >> THEN 0 ELSE Last(s.times))),
                        at    |-> read.at]
        read    == FoldLeft(LAMBDA s, k : next(s), [times |-> << >>, at |-> 0],
                            [k \in 1 .. ReadU64(payload, meta + 16) |-> k])
    IN  IF \/ EncodedTableLength(payload) > meta \/ ~Readable(encoded, length)
           \/ read.at # Len(table)
        THEN NoTimes ELSE [valid |-> TRUE, times |-> read.times]

DecodeFrameBytes(payload) ==
    LET length  == ReadVarint(payload, 24)
        encoded == ReadVarint(payload, length.at)
        handles == ReadVarint(payload, encoded.at)
        bytes   == ReadBytes(payload, handles.at, encoded.value)
    IN  IF bytes.at > Len(payload) \/ ~Readable(bytes.value, length.value) THEN Broken(payload)
        ELSE [value |-> Unpacked(bytes.value, length.value), at |-> bytes.at]

\* The index lies before its length, which lies before the time table.
DecodeChainIndex(payload) ==
    LET at   == TableMeta(payload) - EncodedTableLength(payload) - 8
        from == at - ReadU64(payload, at)
    IN  IF at < 0 \/ from < 0 THEN Broken(payload)
        ELSE [value |-> SubSeq(payload, from + 1, at), at |-> from]

\* A change of a one-bit signal is one number: the value, and the distance
\* above it.
ScalarValue(vli) ==
    IF vli % 2 = 0 THEN << << "0", "1" >>[((vli \div 2) % 2) + 1] >>
    ELSE << ExtraValueChars[((vli \div 2) % 8) + 1] >>

TimeDelta(vli, geometry) ==
    IF geometry.length # 1 THEN vli \div 2 ELSE IF vli % 2 = 0 THEN vli \div 4 ELSE vli \div 16

SignalGeometry(data, handle) ==
    IF handle \in DOMAIN data.lengths THEN data.lengths[handle]
    ELSE LET declared == {i \in DOMAIN data.signals : data.signals[i].handle = handle}
         IN  [length |-> IF declared = {} THEN 1 ELSE data.signals[Min(declared)].width, real |-> FALSE]

ShouldDecode(options, handle) == options.handles = {} \/ handle \in options.handles

RealValue(bytes, at, data) ==
    LET read == ReadReal(bytes, at, data.hostOrder)
    IN  [value |-> << ToString(read.value) >>, at |-> read.at]

TextValue(bytes, at, length) ==
    LET read == ReadBytes(bytes, at, length)
    IN  [value |-> Text(read.value), at |-> read.at]

LongValue(bytes, at) ==
    LET length == ReadVarint(bytes, at)
    IN  TextValue(bytes, length.at, length.value)

ReadInitialFrameValue(frame, at, geometry, data) ==
    IF geometry.real THEN RealValue(frame, at, data)
    ELSE IF geometry.length = 0 THEN LongValue(frame, at)
    ELSE TextValue(frame, at, geometry.length)

\* Eight values of 0 or 1 in a byte, the first in its most significant bit.
PackedValue(bytes, at, length) ==
    LET read == ReadBytes(bytes, at, (length + 7) \div 8)
        bit(k) == (read.value[(k - 1) \div 8 + 1].value \div 2 ^ (7 - ((k - 1) % 8))) % 2
    IN  [value |-> IF read.at > Len(bytes) THEN << >>
                   ELSE [k \in 1 .. length |-> << "0", "1" >>[bit(k) + 1]],
         at |-> read.at]

\* The entry of a chain at an offset.  Its number tells whether the bits are
\* packed; a real that is packed is not read.
ReadEntry(chain, at, geometry, data) ==
    LET vli    == ReadVarint(chain, at)
        packed == vli.value % 2 = 0
    IN  IF geometry.length = 1      THEN [value |-> ScalarValue(vli.value), at |-> vli.at]
        ELSE IF geometry.length = 0 THEN LongValue(chain, vli.at)
        ELSE IF geometry.real       THEN IF packed THEN Broken(chain) ELSE RealValue(chain, vli.at, data)
        ELSE IF packed              THEN PackedValue(chain, vli.at, geometry.length)
        ELSE TextValue(chain, vli.at, geometry.length)

-----------------------------------------------------------------------------
(***************************************************************************)
(* The index of the chains.                                                *)
(***************************************************************************)
NoChain == [kind |-> "none", at |-> 0, length |-> 0, alias |-> 0]

NoLocations(handles) ==
    [locations |-> [h \in 1 .. handles |-> NoChain], index |-> 1, value |-> 0,
     previous |-> 0, alias |-> 0, at |-> 0]

\* A state of the decoder from which it does not go on.
Stuck(s, bytes) == [s EXCEPT !.at = Past(bytes)]

\* The length of a chain is known when the next one's offset is.
AssignPreviousLength(s, next) ==
    IF s.previous = 0 THEN s
    ELSE [s EXCEPT !.locations[s.previous].length = next - s.locations[s.previous].at]

AtOffset(s, by) ==
    LET at == s.value + by
    IN  [AssignPreviousLength(s, at) EXCEPT
            !.locations[s.index] = [NoChain EXCEPT !.kind = "offset", !.at = at],
            !.value = at, !.previous = s.index, !.index = @ + 1]

AliasOf(s, handle) ==
    [s EXCEPT !.locations[s.index] = [NoChain EXCEPT !.kind = "alias", !.alias = handle],
              !.alias = handle, !.index = @ + 1]

SkipZeros(s, count, bytes) ==
    IF s.index + count > Len(s.locations) + 1 THEN Stuck(s, bytes) ELSE [s EXCEPT !.index = @ + count]

NoChains == << [kind |-> "lost"] >>

\* An alias must be of a handle with a chain of its own, or of an earlier alias.
Finalize(s, end) ==
    LET closed  == AssignPreviousLength(s, end).locations
        resolve(ls, h) ==
            IF ls[h].kind # "alias" THEN ls
            ELSE IF ls[h].alias \in DOMAIN ls /\ ls[ls[h].alias].kind = "offset"
            THEN [ls EXCEPT ![h] = ls[ls[h].alias]]
            ELSE [ls EXCEPT ![h].kind = "lost"]
    IN  IF s.previous # 0 /\ end < s.locations[s.previous].at THEN NoChains
        ELSE FoldLeft(resolve, closed, [h \in DOMAIN closed |-> h])

PlainEntry(index, s) ==
    LET read  == ReadVarint(index, s.at)
        alias == ReadVarint(index, read.at)
    IN  IF read.value = 0
        THEN IF alias.value = 0 THEN Stuck(s, index)
             ELSE [AliasOf(s, alias.value) EXCEPT !.at = alias.at]
        ELSE IF read.value % 2 = 1
        THEN [AtOffset(s, read.value \div 2) EXCEPT !.at = read.at]
        ELSE SkipZeros([s EXCEPT !.at = read.at], read.value \div 2, index)

\* The later form has one signed number for an offset, an alias, and the alias
\* of before once more.
Alias2Entry(index, s) ==
    LET signed == ReadSignedVarint(index, s.at)
        by     == signed.value \div 2
        read   == ReadVarint(index, s.at)
    IN  IF index[s.at + 1].value % 2 = 0
        THEN SkipZeros([s EXCEPT !.at = read.at], read.value \div 2, index)
        ELSE IF by > 0 THEN [AtOffset(s, by) EXCEPT !.at = signed.at]
        ELSE IF by < 0 THEN [AliasOf(s, -by) EXCEPT !.at = signed.at]
        ELSE IF s.alias = 0 THEN Stuck(s, index)
        ELSE [AliasOf(s, s.alias) EXCEPT !.at = signed.at]

RECURSIVE PlainEntries(_, _, _)
PlainEntries(index, handles, s) ==
    IF s.at >= Len(index) THEN s
    ELSE PlainEntries(index, handles, IF s.index > handles THEN Stuck(s, index) ELSE PlainEntry(index, s))

DecodePlainChainLocations(index, handles, end) ==
    LET read == PlainEntries(index, handles, NoLocations(handles))
    IN  IF read.at > Len(index) THEN NoChains ELSE Finalize(read, end)

RECURSIVE Alias2Entries(_, _, _)
Alias2Entries(index, handles, s) ==
    IF s.at >= Len(index) THEN s
    ELSE Alias2Entries(index, handles, IF s.index > handles THEN Stuck(s, index) ELSE Alias2Entry(index, s))

DecodeAlias2ChainLocations(index, handles, end) ==
    LET read == Alias2Entries(index, handles, NoLocations(handles))
    IN  IF read.at > Len(index) THEN NoChains ELSE Finalize(read, end)

\* A chain follows the length it has unpacked, or 0 if it is not compressed.
\* One that is compressed with zlib is taken to end later than it does.
PackTypes == [Z |-> 90, four |-> 52, F |-> 70]

ChainBytes(payload, pack, location) ==
    LET end      == pack + location.at + location.length
        length   == ReadVarint(payload, pack + location.at)
        upTo     == IF length.value # 0 /\ ByteIs(payload, pack, PackTypes.Z)
                    THEN length.at + location.length ELSE end
        encoded  == SubSeq(payload, length.at + 1, upTo)
    IN  IF location.kind # "offset" \/ location.length = 0 THEN [value |-> << >>, at |-> 0]
        ELSE IF upTo > Len(payload) \/ length.at > end THEN Broken(payload)
        ELSE IF length.value = 0 THEN [value |-> encoded, at |-> end]
        ELSE IF Inflates(encoded, length.value) THEN [value |-> Inflate(encoded), at |-> end]
        ELSE Broken(payload)

\* The chains of all handles that are asked for.
ReadChains(payload, pack, locations, options) ==
    IF \E n \in DOMAIN locations : locations[n].kind = "lost" THEN Broken(payload)
    ELSE FoldLeft(LAMBDA s, h :
                      LET chain == IF ShouldDecode(options, h) THEN ChainBytes(payload, pack, locations[h])
                                   ELSE [value |-> << >>, at |-> 0]
                      IN  [value |-> Append(s.value, chain.value), at |-> Max({s.at, chain.at})],
                  [value |-> << >>, at |-> 0], [h \in DOMAIN locations |-> h])

-----------------------------------------------------------------------------
(***************************************************************************)
(* The changes of all chains in the order of time.  Each place of the time *)
(* table heads a list of the handles whose next entry lies there; a handle *)
(* is in one list at most, linked by scatter.                              *)
(***************************************************************************)
Link(s, handle, at) ==
    IF at \notin DOMAIN s.head THEN [s EXCEPT !.failed = TRUE]
    ELSE [s EXCEPT !.scatter[handle] = s.head[at], !.head[at] = handle]

\* The distance to the next entry of a chain, which is read twice.
NextDelta(chains, handle, at, data) ==
    TimeDelta(ReadVarint(chains[handle], at).value, SignalGeometry(data, handle))

FirstEntries(data, chains, times) ==
    FoldLeft(LAMBDA s, h : IF chains[h] = << >> THEN s ELSE Link(s, h, 1 + NextDelta(chains, h, 0, data)),
             [head |-> [t \in 1 .. Max({1, Len(times)}) |-> 0],
              scatter |-> [h \in DOMAIN chains |-> 0],
              read |-> [h \in DOMAIN chains |-> 0], out |-> << >>, failed |-> FALSE],
             [h \in DOMAIN chains |-> h])

\* Takes the first handle of the first list and links it where its next
\* entry lies.
NextEntry(data, chains, times, s) ==
    LET at     == Min({t \in DOMAIN s.head : s.head[t] # 0})
        handle == s.head[at]
        entry  == ReadEntry(chains[handle], s.read[handle], SignalGeometry(data, handle), data)
        taken  == [s EXCEPT
                      !.out = Append(@, [handle |-> handle, time |-> times[at], value |-> entry.value]),
                      !.read[handle] = entry.at,
                      !.head[at] = s.scatter[handle],
                      !.scatter[handle] = 0]
    IN  IF entry.at > Len(chains[handle]) THEN [s EXCEPT !.failed = TRUE]
        ELSE IF entry.at = Len(chains[handle]) THEN taken
        ELSE Link(taken, handle, at + NextDelta(chains, handle, entry.at, data))

RECURSIVE NextEntries(_, _, _, _)
NextEntries(data, chains, times, s) ==
    IF s.failed \/ times = << >> \/ \A t \in DOMAIN s.head : s.head[t] = 0 THEN s
    ELSE NextEntries(data, chains, times, NextEntry(data, chains, times, s))

ChainChanges(data, payload, chains, times) ==
    IF chains.at > Len(payload) THEN [failed |-> TRUE]
    ELSE NextEntries(data, chains.value, times, FirstEntries(data, chains.value, times))

\* The values the section starts with are read for the first section of the
\* window only, and only if its time table starts later.
FrameIsRead(section) == section.nth = 1 /\ (section.times = << >> \/ section.times[1] > section.begin)

InitialValue(frame, s, handle, section, data, options) ==
    LET read == ReadInitialFrameValue(frame, s.at, SignalGeometry(data, handle), data)
    IN  [at  |-> read.at,
         out |-> IF ShouldDecode(options, handle)
                 THEN Append(s.out, [handle |-> handle, time |-> section.begin, value |-> read.value])
                 ELSE s.out]

InitialValues(frame, handles, section, data, options) ==
    FoldLeft(LAMBDA s, h : InitialValue(frame, s, h, section, data, options),
             [at |-> 0, out |-> << >>], [h \in 1 .. IF FrameIsRead(section) THEN handles ELSE 0 |-> h])

ChainLocations(type, index, handles, end) ==
    IF type = "alias2" THEN DecodeAlias2ChainLocations(index, handles, end)
    ELSE DecodePlainChainLocations(index, handles, end)

Joined(data, frame, first, changes) ==
    IF first.at > Len(frame) \/ changes.failed THEN Fail(data)
    ELSE [data EXCEPT !.transitions = @ \o first.out \o changes.out]

\* The values a section starts with, and the changes of its chains.
DecodeChains(payload, frame, handles, index, section, data, options) ==
    IF \/ handles.at >= Len(payload)
       \/ \A pack \in DOMAIN PackTypes : ~ByteIs(payload, handles.at, PackTypes[pack])
       \/ index.at > Len(payload)
    THEN Fail(data)
    ELSE Joined(data, frame,
                InitialValues(frame, handles.value, section, data, options),
                ChainChanges(data, payload,
                             ReadChains(payload, handles.at,
                                        ChainLocations(section.type, index.value, handles.value,
                                                       index.at - handles.at), options),
                             section.times))

DecodeValueChanges(payload, section, data, options) ==
    LET frame == DecodeFrameBytes(payload)
    IN  DecodeChains(payload, frame.value, ReadVarint(payload, frame.at), DecodeChainIndex(payload),
                     section, data, options)

\* A form of the section that the tests write: a list of the changes.
Simple == << 80, 83, 84, 86 >>
IsSimple(payload) == Len(payload) >= 28 /\ \A k \in 1 .. 4 : ByteIs(payload, 23 + k, Simple[k])

ReadTransition(payload, s) ==
    LET handle == ReadVarint(payload, s.at)
        time   == ReadVarint(payload, handle.at)
        value  == LongValue(payload, time.at)
    IN  [at |-> value.at,
         out |-> Append(s.out, [handle |-> handle.value, time |-> time.value, value |-> value.value])]

ParseSimpleTransitions(payload, data) ==
    LET count == ReadVarint(payload, 28)
        read  == FoldLeft(LAMBDA s, k : ReadTransition(payload, s), [at |-> count.at, out |-> << >>],
                          [k \in 1 .. count.value |-> k])
    IN  IF Len(payload) < 40 THEN data
        ELSE IF read.at > Len(payload) THEN Fail(data)
        ELSE [data EXCEPT !.transitions = @ \o read.out]

-----------------------------------------------------------------------------
(***************************************************************************)
(* The blocks of a file.                                                   *)
(***************************************************************************)
BlockTypes == << "values", "blackout", "geometry", "hierarchy", "alias", "lz4", "lz4duo", "alias2" >>
Skip == 255

InWindow(block, options) ==
    /\ options.decode
    /\ block.begin =< options.end
    /\ block.end >= options.start

DecodePayload(payload, table, block, nth, data, options) ==
    IF ~table.valid THEN Fail(data)
    ELSE IF IsSimple(payload) THEN ParseSimpleTransitions(payload, data)
    ELSE IF Len(payload) >= 28
    THEN DecodeValueChanges(payload, [type |-> block.type, begin |-> block.begin, nth |-> nth,
                                      times |-> table.times], data, options)
    ELSE data

DecodeValueBlock(bytes, block, nth, data, options) ==
    LET payload == SubSeq(bytes, block.from, block.to)
    IN  DecodePayload(payload, DecodeTimeTable(payload), block, nth, data, options)

\* Of a section of changes only the range is read at first.
IndexValueBlock(payload, type, at, data) ==
    LET begin == ReadU64(payload, 0)
        end   == ReadU64(payload, 8)
    IN  IF Len(payload) < 24 \/ end < begin THEN Fail(data)
        ELSE [data EXCEPT !.blocks = Append(@, [type |-> type, begin |-> begin, end |-> end,
                                                from |-> at + 1, to |-> at + Len(payload)])]

ParseBlock(payload, code, at, data) ==
    LET type == IF code \in DOMAIN BlockTypes THEN BlockTypes[code] ELSE "other"
    IN  CASE type = "hierarchy" -> ParseGzipHierarchy(payload, data)
          [] type = "geometry"  -> ParseGeometry(payload, data)
          [] type \in {"values", "alias", "alias2"} -> IndexValueBlock(payload, type, at, data)
          [] type = "lz4"       -> ParseLz4Hierarchy(payload, data)
          [] type = "lz4duo"    -> ParseLz4DuoHierarchy(payload, data)
          [] OTHER              -> data

NextBlock(bytes, s) ==
    LET length == ReadU64(bytes, s.at + 1)
        end    == s.at + 1 + length
    IN  IF ByteIs(bytes, s.at, Skip) THEN [s EXCEPT !.at = Len(bytes)]
        ELSE IF length < 8 \/ end > Len(bytes) THEN [at |-> Len(bytes), data |-> Fail(s.data)]
        ELSE [at   |-> end,
              data |-> ParseBlock(SubSeq(bytes, s.at + 10, end), bytes[s.at + 1].value, s.at + 9, s.data)]

\* Blocks are read in the order of the file, the changes only when all else
\* is known.
RECURSIVE ScanBlocksFrom(_, _)
ScanBlocksFrom(bytes, s) ==
    IF s.data.failed \/ s.at >= Len(bytes) THEN s.data ELSE ScanBlocksFrom(bytes, NextBlock(bytes, s))

ScanBlocks(bytes, data) == ScanBlocksFrom(bytes, [at |-> HeaderLength, data |-> data])

DecodeValueBlocks(bytes, data, options) ==
    LET relevant == SelectSeq(data.blocks, LAMBDA b : InWindow(b, options))
    IN  FoldLeft(LAMBDA d, n : IF d.failed THEN d ELSE DecodeValueBlock(bytes, relevant[n], n, d, options),
                 data, [n \in DOMAIN relevant |-> n])

\* A header without times takes them from the sections.
HeaderTimes(data) ==
    IF data.start = 0 /\ data.end = 0 /\ data.blocks # << >>
    THEN [data EXCEPT !.start = Min({data.blocks[i].begin : i \in DOMAIN data.blocks}),
                      !.end = Max({data.blocks[i].end : i \in DOMAIN data.blocks})]
    ELSE data

NoData == [start |-> 0, end |-> 0, timescale |-> 0, hostOrder |-> TRUE, maxHandle |-> 0,
           scopes |-> << >>, signals |-> << >>, lengths |-> << >>, blocks |-> << >>,
           transitions |-> << >>, failed |-> FALSE]

HeaderData(header) ==
    [NoData EXCEPT !.start = header.start, !.end = header.end, !.timescale = header.timescale,
                   !.hostOrder = header.hostOrder, !.maxHandle = header.maxHandle]

\* The hierarchy of a file that is still written lies in a file beside it.
ParseSidecar(sidecar, data) == IF sidecar = << >> THEN data ELSE ParseHierarchy(sidecar, data)

\* A file outside the workspace is not read, nor one whose header tells of
\* variables while no hierarchy does.
ReadBlocks(file, bytes, header, indexed, options) ==
    IF ~file.inside \/ ~header.valid THEN Fail(NoData)
    ELSE IF indexed.failed \/ (indexed.signals = << >> /\ header.variables # 0) THEN Fail(indexed)
    ELSE DecodeValueBlocks(bytes, indexed, options)

ReadHeaded(file, bytes, header, options) ==
    ReadBlocks(file, bytes, header,
               HeaderTimes(ScanBlocks(bytes, ParseSidecar(file.sidecar, HeaderData(header)))), options)

ReadUnwrapped(file, bytes, options) == ReadHeaded(file, bytes, ParseHeader(bytes), options)

ReadFstFile(file, options) == ReadUnwrapped(file, ReadFstBytes(file.bytes), options)
=============================================================================
