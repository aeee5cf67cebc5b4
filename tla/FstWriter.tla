----------------------------- MODULE FstWriter ------------------------------
(***************************************************************************)
(* How a simulator's trace becomes an FST file: what the reader may be     *)
(* given.  The writer is the FST library; it is modelled from the layout   *)
(* that the reader takes apart.                                            *)
(*                                                                         *)
(* A trace is [records, lengths, reals, first, times, cuts, changes, ...]: *)
(* the hierarchy, the length of each handle's values, the handles that are *)
(* reals, the values given before the first time (or "x"), the times, the  *)
(* times at which a section ends, the changes of each handle, a sequence   *)
(* of [time, value], and the form the file has.                            *)
(***************************************************************************)
EXTENDS FstReader

\* The value of a handle at a time.
ValueOf(trace, handle, time) ==
    LET before == SelectSeq(trace.changes[handle], LAMBDA c : c.time =< time)
    IN  IF before = << >> THEN trace.first[handle] ELSE Last(before).value

\* A section starts at the last time of the one before.
SectionBegins(trace) ==
    << IF trace.early THEN 0 ELSE trace.times[1] >> \o trace.cuts
SectionEnds(trace) == trace.cuts \o << Last(trace.times) >>

SectionTimes(trace, k) ==
    LET begin == SectionBegins(trace)[k]
        inside(t) == t =< SectionEnds(trace)[k] /\ (k = 1 \/ t > begin)
    IN  (IF k = 1 THEN << >> ELSE << begin >>) \o SelectSeq(trace.times, inside)

Deltas(times) == [i \in DOMAIN times |-> IF i = 1 THEN times[1] ELSE times[i] - times[i - 1]]

\* The changes of a handle in a section, with their places in its time table.
SectionChanges(trace, k, handle) ==
    LET begin == SectionBegins(trace)[k]
        inside(c) == c.time =< SectionEnds(trace)[k] /\ (k = 1 \/ c.time > begin)
        own == SelectSeq(trace.changes[handle], inside)
        at(c) == CHOOSE i \in DOMAIN SectionTimes(trace, k) : SectionTimes(trace, k)[i] = c.time
    IN  [n \in DOMAIN own |-> [at |-> at(own[n]), time |-> own[n].time, value |-> own[n].value]]

-----------------------------------------------------------------------------
(* Bytes.                                                                  *)

Varint(n) ==
    IF n < 128 THEN U8(n) ELSE U8(128 + (n % 128)) \o U8(n \div 128)

SignedVarint(n) ==
    IF n \in -64 .. 63 THEN U8(n % 128) ELSE U8(128 + (n % 128)) \o U8((n \div 128) % 128)

Characters(text) ==
    Bytes([k \in DOMAIN text |-> U8(CHOOSE c \in DOMAIN Alphabet : Alphabet[c] = text[k])])

\* Two bytes stand for longer ones that are compressed.
Packed(bytes) == << [width |-> 2, value |-> bytes], Rest >>
Smaller(trace, bytes) == IF trace.small /\ Len(bytes) > 2 THEN Packed(bytes) ELSE bytes

Digit(text) == CHOOSE n \in 0 .. 9 : ToString(n) = text[1]

RealBytes(trace, value) ==
    F64(IF trace.hostOrder THEN Digit(value) ELSE Reversed(Digit(value)))

Bits(value) ==
    LET bit(k) == IF k \in DOMAIN value /\ value[k] = "1" THEN 1 ELSE 0
        byte(n) == FoldLeft(LAMBDA sum, k : 2 * sum + bit(8 * (n - 1) + k), 0, [k \in 1 .. 8 |-> k])
    IN  Bytes([n \in 1 .. (Len(value) + 7) \div 8 |-> U8(byte(n))])

ScalarVli(delta, value) ==
    IF value[1] \in {"0", "1"} THEN 4 * delta + (IF value[1] = "1" THEN 2 ELSE 0)
    ELSE 16 * delta + 2 * ((CHOOSE i \in DOMAIN ExtraValueChars : ExtraValueChars[i] = value[1]) - 1) + 1

Entry(trace, handle, delta, value) ==
    IF handle \in trace.reals THEN Varint(2 * delta + 1) \o RealBytes(trace, value)
    ELSE IF trace.lengths[handle] = 0 THEN Varint(2 * delta) \o Varint(Len(value)) \o Characters(value)
    ELSE IF trace.lengths[handle] = 1 THEN Varint(ScalarVli(delta, value))
    ELSE IF ToSet(value) \subseteq {"0", "1"} THEN Varint(2 * delta) \o Bits(value)
    ELSE Varint(2 * delta + 1) \o Characters(value)

Chain(trace, k, handle) ==
    LET changes == SectionChanges(trace, k, handle)
        delta(n) == changes[n].at - (IF n = 1 THEN 1 ELSE changes[n - 1].at)
    IN  Bytes([n \in DOMAIN changes |-> Entry(trace, handle, delta(n), changes[n].value)])

\* A chain behind the length it unpacks to, or 0 if it is as it was.
ChainPart(trace, chain) ==
    IF trace.small /\ Len(chain) > 2 THEN Varint(Len(chain)) \o Packed(chain) ELSE Varint(0) \o chain

\* The chains and their index: a chain that another handle has already is
\* written as its alias.  Runs of handles without a chain are counted.
ChainIndex(trace, chains) ==
    LET later  == trace.type = "alias2"
        zeros(s) == IF s.zeros = 0 THEN << >> ELSE Varint(2 * s.zeros)
        offset(by) == IF later THEN SignedVarint(2 * by + 1) ELSE Varint(2 * by + 1)
        alias(s, g) == IF ~later THEN Varint(0) \o Varint(g)
                       ELSE IF s.alias = g THEN SignedVarint(1) ELSE SignedVarint(1 - 2 * g)
        put(s, h) ==
            LET same == {g \in 1 .. h - 1 : chains[g] = chains[h] /\ trace.lengths[g] = trace.lengths[h]}
            IN  IF chains[h] = << >> THEN [s EXCEPT !.zeros = @ + 1]
                ELSE IF same # {} /\ trace.type # "values"
                THEN [s EXCEPT !.index = @ \o zeros(s) \o alias(s, Min(same)),
                               !.alias = Min(same), !.zeros = 0]
                ELSE [s EXCEPT !.index = @ \o zeros(s) \o offset(Len(s.region) + 1 - s.last),
                               !.last = Len(s.region) + 1, !.zeros = 0,
                               !.region = @ \o ChainPart(trace, chains[h])]
        all == FoldLeft(put, [index |-> << >>, region |-> << >>, last |-> 0, alias |-> 0, zeros |-> 0],
                        [h \in DOMAIN chains |-> h])
    IN  [region |-> all.region, index |-> all.index \o zeros(all)]

FirstValue(trace, handle, value) ==
    IF handle \in trace.reals THEN RealBytes(trace, value)
    ELSE IF trace.lengths[handle] = 0 THEN Varint(Len(value)) \o Characters(value)
    ELSE Characters(value)

Frame(trace, k) ==
    Bytes([h \in DOMAIN trace.changes |->
              FirstValue(trace, h, IF k = 1 THEN trace.first[h] ELSE ValueOf(trace, h, SectionBegins(trace)[k]))])

Sized(trace, bytes) ==
    Varint(Len(bytes)) \o Varint(Len(Smaller(trace, bytes))) \o Varint(Len(trace.changes)) \o Smaller(trace, bytes)

TimeTable(trace, k) ==
    LET times == SectionTimes(trace, k)
        bytes == Bytes([n \in DOMAIN times |-> Varint(Deltas(times)[n])])
    IN  Smaller(trace, bytes) \o U64(Len(bytes)) \o U64(Len(Smaller(trace, bytes))) \o U64(Len(times))

ChainSection(trace, k, all) ==
    Sized(trace, Frame(trace, k)) \o Varint(Len(trace.changes)) \o U8(trace.pack)
        \o all.region \o all.index \o U64(Len(all.index))

SimpleSection(trace, k) ==
    LET line(h, c) == Varint(h) \o Varint(c.time) \o Varint(Len(c.value)) \o Characters(c.value)
        lines(h) == LET own == SectionChanges(trace, k, h) IN Bytes([n \in DOMAIN own |-> line(h, own[n])])
        count == FoldLeft(LAMBDA sum, h : sum + Len(SectionChanges(trace, k, h)), 0,
                          [h \in DOMAIN trace.changes |-> h])
    IN  Bytes([n \in 1 .. 4 |-> U8(Simple[n])]) \o Varint(count)
           \o Bytes([h \in DOMAIN trace.changes |-> lines(h)])

ValueSection(trace, k) ==
    U64(SectionBegins(trace)[k]) \o U64(SectionEnds(trace)[k]) \o U64(0)
        \o (IF trace.simple THEN SimpleSection(trace, k)
            ELSE ChainSection(trace, k, ChainIndex(trace, [h \in DOMAIN trace.changes |-> Chain(trace, k, h)])))
        \o TimeTable(trace, k)

-----------------------------------------------------------------------------
Record(r) ==
    CASE r.tag = "scope"    -> U8(ScopeTag) \o U8(0) \o Characters(r.name) \o U8(0) \o U8(0)
      [] r.tag = "upscope"  -> U8(UpscopeTag)
      [] r.tag = "source"   -> U8(AttrBegin) \o U8(0) \o U8(4) \o Varint(1) \o U8(0) \o Varint(7)
      [] r.tag = "comment"  -> U8(AttrBegin) \o U8(0) \o U8(0) \o Characters(r.name) \o U8(0) \o Varint(0)
      [] r.tag = "end"      -> U8(AttrEnd)
      [] r.tag = "variable" -> U8(r.type) \o U8(0) \o Characters(r.name) \o U8(0)
                                  \o Varint(r.width) \o Varint(r.alias)

Hierarchy(trace) == Bytes([n \in DOMAIN trace.records |-> Record(trace.records[n])])

Lengths(trace) ==
    Bytes([h \in DOMAIN trace.lengths |->
              Varint(IF h \in trace.reals THEN 0
                     ELSE IF trace.lengths[h] = 0 THEN AnyLength ELSE trace.lengths[h])])

Block(type, payload) ==
    U8(CHOOSE code \in DOMAIN BlockTypes : BlockTypes[code] = type) \o U64(8 + Len(payload)) \o payload

GeometryBlock(trace) ==
    Block("geometry", U64(Len(Lengths(trace))) \o U64(Len(trace.lengths)) \o Smaller(trace, Lengths(trace)))

HierarchyBlock(trace, bytes) ==
    CASE trace.form = "plain"   -> Block("hierarchy", bytes)
      [] trace.form = "gzip"    -> Block("hierarchy", U64(Len(bytes)) \o U8(31) \o U8(139) \o Packed(bytes))
      [] trace.form = "lz4"     -> Block("lz4", U64(Len(bytes)) \o Packed(bytes))
      [] trace.form = "lz4duo"  -> Block("lz4duo", U64(Len(bytes)) \o Varint(2) \o Packed(Packed(bytes)))
      [] trace.form = "sidecar" -> << >>

Header(trace) ==
    U8(0) \o U64(HeaderSectionLength)
        \o U64(IF trace.timed THEN SectionBegins(trace)[1] ELSE 0)
        \o U64(IF trace.timed THEN Last(trace.times) ELSE 0)
        \o F64(IF trace.hostOrder THEN EndianTest ELSE Reversed(EndianTest))
        \o U64(0) \o U64(0)
        \o U64(Len(SelectSeq(trace.records, LAMBDA r : r.tag = "variable")))
        \o U64(Len(trace.lengths)) \o U64(Len(trace.cuts) + 1)
        \o U8(247) \o [k \in 1 .. 248 |-> U8(0)[1]] \o U64(0)

Wrapped(bytes, finished) ==
    U8(ZWrapper) \o U64(IF finished THEN WrapperBegin + 1 ELSE 0) \o U64(Len(bytes))
        \o Bytes(<< U8(31), U8(139), U8(8), U8(0) >>) \o [k \in 1 .. 6 |-> U8(0)[1]] \o Packed(bytes)

\* The sections of changes come first, as they are written while the
\* simulation runs.
FileBytes(trace) ==
    Header(trace)
        \o Bytes([k \in 1 .. Len(trace.cuts) + 1 |-> Block(trace.type, ValueSection(trace, k))])
        \o GeometryBlock(trace) \o HierarchyBlock(trace, Hierarchy(trace)) \o U8(Skip)

WriteFile(trace) ==
    [bytes |-> CASE trace.wrapper = "none"       -> FileBytes(trace)
                 [] trace.wrapper = "finished"   -> Wrapped(FileBytes(trace), TRUE)
                 [] trace.wrapper = "unfinished" -> Wrapped(FileBytes(trace), FALSE),
     sidecar |-> IF trace.form = "sidecar" THEN Hierarchy(trace) ELSE << >>,
     inside |-> trace.inside]
=============================================================================
