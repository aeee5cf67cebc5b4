----------------------------- MODULE MCWaveform -----------------------------
EXTENDS FstWriter, FstWaveformSource

Wire == 16
Real == 3

Scope(name) == [tag |-> "scope", name |-> name]
Variable(name, type, width, alias) ==
    [tag |-> "variable", name |-> name, type |-> type, width |-> width, alias |-> alias]

\* A scope with a clock, a bus, a bit, and the clock under another name; a
\* scope without a name is closed, the second one stays open.
Design == << Scope(<< "t", "o", "p" >>),
             [tag |-> "source"],
             Variable(<< "c", "l", "k" >>, Wire, 1, 0),
             Variable(<< "b", "u", "s" >>, PortType, 8, 0),
             Scope(<< >>),
             [tag |-> "upscope"],
             [tag |-> "comment", name |-> << "x" >>],
             [tag |-> "end"],
             Scope(<< "s", "u", "b" >>),
             Variable(<< "q" >>, Wire, 1, 0),
             Variable(<< "c" >>, Wire, 1, 1) >>

\* With a real and a string.
Mixed == Design \o << Variable(<< "w" >>, Real, 64, 0), Variable(<< "h" >>, StringType, 0, 0) >>

Change(time, value) == [time |-> time, value |-> value]

Clock == << Change(2, << "0" >>), Change(3, << "1" >>), Change(4, << "0" >>), Change(6, << "z" >>) >>
Bus   == << Change(2, << "0", "0" >>), Change(4, << "0", "1" >>), Change(6, << "x", "1" >>) >>
Still == << Change(2, << "0", "0" >>) >>
Rare  == << Change(2, << "1" >>) >>
Level == << Change(3, << "5" >>), Change(6, << "7" >>) >>
Word  == << Change(2, << "h", "b" >>), Change(4, << >>) >>

\* The form a file has depends on the kind of its sections.
Form(type) ==
    CASE type = "values" -> [pack |-> 90, form |-> "gzip", small |-> TRUE]
      [] type = "alias"  -> [pack |-> 52, form |-> "lz4", small |-> FALSE]
      [] type = "alias2" -> [pack |-> 70, form |-> "lz4duo", small |-> TRUE]

Trace(type, early, cuts, clk, bus, q) ==
    Form(type) @@
    [records |-> Design, lengths |-> << 1, 2, 1 >>, reals |-> {}, type |-> type,
     wrapper |-> "none", simple |-> FALSE, inside |-> TRUE, hostOrder |-> TRUE, timed |-> TRUE,
     early |-> early, times |-> << 2, 3, 4, 6 >>, cuts |-> cuts,
     first |-> IF early THEN << << "1" >>, << "1", "1" >>, << "0" >> >>
               ELSE << << "x" >>, << "x", "x" >>, << "x" >> >>,
     changes |-> << clk, bus, q >>]

Shapes == << << TRUE, << >> >>, << TRUE, << 3 >> >>, << FALSE, << 3, 4 >> >> >>

Plain   == [n \in DOMAIN Shapes |-> Trace("values", Shapes[n][1], Shapes[n][2], Clock, Bus, Clock)]
Aliased == [n \in DOMAIN Shapes |-> Trace("alias", Shapes[n][1], Shapes[n][2], Clock, Bus, Clock)]
Later   == [n \in DOMAIN Shapes |-> Trace("alias2", Shapes[n][1], Shapes[n][2], Clock, Bus, Clock)]

Sparse == << Trace("alias2", FALSE, << 3 >>, Clock, Bus, Rare),
             Trace("alias2", FALSE, << 4 >>, Clock, Still, Clock) >>

Rich ==
    [Trace("alias2", TRUE, << 3 >>, Clock, Bus, Clock) EXCEPT
        !.records = Mixed, !.lengths = << 1, 2, 1, 8, 0 >>, !.reals = {4},
        !.first = @ \o << << "7" >>, << "q" >> >>, !.changes = @ \o << Level, Word >>,
        !.hostOrder = FALSE, !.form = "sidecar", !.wrapper = "finished"]

\* As the tests write it, with a header that tells no times.
Simplest ==
    [Trace("values", FALSE, << 3 >>, Clock, Bus, Clock) EXCEPT
        !.simple = TRUE, !.form = "plain", !.timed = FALSE]

Traces == Plain \o Aliased \o Later \o Sparse \o << Rich, Simplest >>

\* Files that show nothing: packed in an unknown way, not finished, outside the
\* workspace, with fewer variables than the header tells, and cut short.
Other  == Trace("alias", FALSE, << 4 >>, Clock, Bus, Rare)

CutShort(bytes) ==
    [n \in 1 .. Len(bytes) \div 16 |->
        [bytes |-> SubSeq(bytes, 1, 16 * n), sidecar |-> << >>, inside |-> TRUE]]

Damaged == << WriteFile([Other EXCEPT !.pack = 65]),
              WriteFile([Other EXCEPT !.wrapper = "unfinished"]),
              WriteFile([Other EXCEPT !.inside = FALSE]),
              [bytes |-> FileBytes([Other EXCEPT !.form = "sidecar"]), sidecar |-> << >>, inside |-> TRUE] >>
           \o CutShort(FileBytes(Other))

MCDisk == [n \in DOMAIN Traces |-> WriteFile(Traces[n])] \o Damaged

MCWindows == {<< 0, 13 >>, << 4, 8 >>, << 5, 6 >>, << 7, 9 >>, << 9, 12 >>, << 12, 12 >>}
Ids     == {<< >>, << SignalId(2), SignalId(1), SignalId(2) >>, << SignalId(3) >>, << SignalId(5), SignalId(4) >>}

MCRequests ==
    {ViewportRequest(w[1], w[2], max, ids) : w \in MCWindows, max \in {0, 3}, ids \in Ids}
    \cup {ViewportRequest(0, 13, 0, << << "mem:", "1" >> >>)}
MCRequestsV2 ==
    {ViewportRequestV2(w[1], w[2], v[1], v[2], max, ids) :
        w \in {<< 0, 13 >>, << 7, 10 >>, << 10, 12 >>}, v \in {<< 7, 9 >>, << 10, 12 >>},
        max \in {0, 2}, ids \in {<< >>, << SignalId(2), SignalId(1) >>}}

\* What a file gives, when it is opened and for each window: functions put
\* together value by value, so that TLC reads a file once for each.
Windows(f, keys) == FoldSet(LAMBDA key, all : (key :> ReadFstFile(f, key)) @@ all, << >>, keys)

Reading(f, whole) ==
    (CatalogOptions :> whole)
        @@ IF whole.failed THEN << >> ELSE Windows(f, Keys(ToWaveformDataSet(whole).signals))

Readings == FoldLeft(LAMBDA all, f : Append(all, Reading(f, ReadFstFile(f, CatalogOptions))), << >>, MCDisk)

MCPaths == DOMAIN MCDisk
MCRead(path, options) == Readings[path][options]

-----------------------------------------------------------------------------
Whole == file \in DOMAIN Traces

\* The trace of the open file.
OpenTrace == Traces[file]

Shows(segment, signal, value) ==
    segment.kind = ValueKindFor(signal, value) /\ segment.label = LabelFor(signal, value)

\* The value of a signal at a time of a request.
TrueValue(signal, tick) == ValueOf(OpenTrace, HandleFromSignalId(signal.id), tick \div Ticks)

\* No section lies wholly before the window: the values that a signal keeps
\* from a skipped section are not read, it is unknown until its next change.
NothingSkipped ==
    \A k \in DOMAIN SectionEnds(OpenTrace) : SectionEnds(OpenTrace)[k] >= DecodeStart(request.start)

ShownAt(tick) ==
    \A k \in DOMAIN answer.table :
        LET row == answer.table[k]
            signal == catalog.signals[row.signal]
        IN  \A n \in DOMAIN SegmentsOf(row) :
               StartOf(request, SegmentsOf(row)[n]) =< tick /\ tick < EndOf(request, SegmentsOf(row)[n])
                  => Shows(SegmentsOf(row)[n], signal, TrueValue(signal, tick))

\* The times of a request that are not before the trace.
TicksOfRequest ==
    {tick \in request.start .. request.end - 1 : tick >= Ticks * SectionBegins(OpenTrace)[1]}

\* The positions of the variables in the records, and the scope of each: the
\* last one before it that is not closed.
VariablesOf(records) == SelectSeq([n \in DOMAIN records |-> n], LAMBDA n : records[n].tag = "variable")

OpenScopes(records, from, to) ==
    Cardinality({n \in from .. to : records[n].tag = "scope"})
        - Cardinality({n \in from .. to : records[n].tag = "upscope"})

ScopesBefore(records, n) ==
    {m \in 1 .. n - 1 : records[m].tag = "scope" /\ \A j \in m .. n - 1 : OpenScopes(records, m, j) >= 1}

\* What the service sends, and a client reads.
Sent(payload) == ReadWaveformFrame(WaveformFrame([type |-> 2, request |-> 7, flags |-> 0, payload |-> payload])).payload

\* What a client reads of the catalog is what the hierarchy says.
CatalogTellsTheFile ==
    LET client    == ReadCatalog(Sent(CatalogPayload(catalog)))
        hello     == ReadHello(Sent(HelloPayload(catalog)))
        records   == OpenTrace.records
        variables == VariablesOf(records)
    IN  /\ Len(client.signals) = Len(variables)
        /\ hello.signals = Len(variables)
        /\ hello.duration = Last(OpenTrace.times) - SectionBegins(OpenTrace)[1]
        /\ hello.unit = << "n", "s" >>
        /\ \A i \in DOMAIN variables :
              LET signal == client.signals[i]
                  record == records[variables[i]]
                  handle == HandleFromSignalId(signal.id)
                  scope  == Max(ScopesBefore(records, variables[i]))
              IN  /\ signal.name = record.name
                  /\ signal.kind = KindCode[catalog.signals[i].kind]
                  /\ signal.width = Max({1, OpenTrace.lengths[handle]})
                  /\ record.alias # 0 => handle = record.alias
                  /\ signal.group + 1 = Cardinality({m \in 1 .. scope : records[m].tag = "scope"})
                  /\ signal.path = client.groups[signal.group + 1].label \o << "." >> \o record.name

\* A request that was cut or has something behind it is refused.
AsDecoded(r, payload) ==
    IF "viewportStart" \in DOMAIN r THEN DecodeViewportRequestV2(payload) ELSE DecodeViewportRequest(payload)

OnlyWholeRequests ==
    LET payload == RequestPayload(request)
    IN  /\ \A n \in 0 .. Len(payload) - 1 : AsDecoded(request, SubSeq(payload, 1, n)) = Refused
        /\ AsDecoded(request, payload \o U8(0)) = Refused

\* What a client is shown is what the simulator wrote, whatever the encoding of
\* the file, the window and what was decoded before: where no section of the
\* file lies wholly before the window.  A file that is not whole is not shown.
FramesTellTheFile ==
    /\ Whole => CatalogTellsTheFile
    /\ request # None => OnlyWholeRequests
    /\ Answered => Whole
    /\ Answered /\ NothingSkipped => \A tick \in TicksOfRequest : ShownAt(tick)
=============================================================================
