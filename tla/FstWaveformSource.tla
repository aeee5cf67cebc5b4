------------------------- MODULE FstWaveformSource --------------------------
(***************************************************************************)
(* A waveform source over an FST file (FstWaveformSource.cpp): the catalog *)
(* is read when the source is opened, the changes of the asked signals in  *)
(* the asked window for each request, and the last decoded window is kept. *)
(* Requests come as the bytes of the waveform protocol.  One client at a   *)
(* time is served, by one thread.  The reader of the files is a parameter: *)
(* it is module FstReader.                                                 *)
(***************************************************************************)
EXTENDS WaveformViewport, WaveformWire

CONSTANTS Paths,           \* the FST files
          Read(_, _),      \* fst::readFstFile: what a file gives under some options
          Requests,        \* viewport requests of the first version
          RequestsV2       \* and of the second

\* Requests of the protocol; their times are in ticks.
ASSUME RequestsAssumption ==
    /\ Requests \subseteq [start : Int, end : Int, max : Nat, ids : Seq(Seq(STRING))]
    /\ RequestsV2 \subseteq [start : Int, end : Int, viewportStart : Int, viewportEnd : Int,
                             max : Nat, ids : Seq(Seq(STRING))]

VARIABLES file,        \* the number of the open file
          catalog,     \* what opening it read
          cacheKey,    \* the window and the handles decoded last
          cacheData,   \* and what they gave
          request,     \* the last request
          answer       \* and its answer

vars == << file, catalog, cacheKey, cacheData, request, answer >>

NoFile == 0
None  == [none |-> TRUE]
Error == [error |-> TRUE]

\* Times of requests are in halves of the file's time unit: a request may
\* start and end between two times of the file.
Ticks == 2

-----------------------------------------------------------------------------
TimescaleUnit(timescale) ==
    CASE timescale = -15 -> << "f", "s" >>
      [] timescale = -12 -> << "p", "s" >>
      [] timescale = -9  -> << "n", "s" >>
      [] timescale = -6  -> << "u", "s" >>
      [] timescale = -3  -> << "m", "s" >>
      [] timescale = 0   -> << "s" >>
      [] OTHER           -> << "10^", ToString(timescale), "s" >>

ClockNames == {<< "c", "l", "k" >>, << "c", "l", "o", "c", "k" >>}

SignalKindFor(signal) ==
    IF signal.width > 1 THEN "bus"
    ELSE IF \E clock \in ClockNames : signal.name = clock \/ IsSuffix(<< "_" >> \o clock, signal.name)
    THEN "clock" ELSE "logic"

Colors == 10
ColorFor(index) == (index - 1) % Colors

\* A change among those that are in order, after the ones of its time.
PutInTime(sorted, t) ==
    LET later == {s \in ToSet(sorted) : s.time > t.time}
    IN  Only(sorted, ToSet(sorted) \ later) \o << t >> \o Only(sorted, later)

\* The changes of a handle in the order of time; the value is unknown before
\* the first.  (The files have one change of a handle at one time: the sort
\* keeps no order of equal times.)
TransitionsFor(handle, data) ==
    LET own    == Only(data.transitions, {t \in ToSet(data.transitions) : t.handle = handle})
        sorted == FoldLeft(PutInTime, << >>, own)
        ticks  == [n \in DOMAIN sorted |-> [time |-> Ticks * sorted[n].time, value |-> sorted[n].value]]
    IN  IF sorted = << >> \/ sorted[1].time > data.start
        THEN << [time |-> Ticks * data.start, value |-> << "x" >>] >> \o ticks
        ELSE ticks

\* The identifier of a signal is its handle: the variables of a handle share
\* one.
SignalId(handle) == << "fst:", ToString(handle) >>

Groups(scopes) ==
    IF scopes = << >> THEN << [id |-> << "fst:root" >>, label |-> << "root" >>] >>
    ELSE [k \in DOMAIN scopes |-> [id    |-> << "fst:scope:", ToString(scopes[k].index) >>,
                                   label |-> scopes[k].path]]

ToWaveformDataSet(data) ==
    [id       |-> << >>, title |-> << >>,
     unit     |-> TimescaleUnit(data.timescale),
     duration |-> data.end - data.start,
     groups   |-> Groups(data.scopes),
     signals  |-> [i \in DOMAIN data.signals |->
        [id          |-> SignalId(data.signals[i].handle),
         group       |-> IF data.signals[i].scope < Len(Groups(data.scopes)) THEN data.signals[i].scope ELSE 0,
         name        |-> data.signals[i].name,
         path        |-> data.signals[i].path,
         kind        |-> SignalKindFor(data.signals[i]),
         color       |-> ColorFor(i),
         width       |-> data.signals[i].width,
         transitions |-> TransitionsFor(data.signals[i].handle, data)]]]

\* A handle is a number of one digit.
IsSignalId(id) == Len(id) = 2 /\ id[1] = "fst:" /\ \E handle \in 0 .. 9 : id[2] = ToString(handle)
HandleFromSignalId(id) == CHOOSE handle \in 0 .. 9 : id[2] = ToString(handle)

HandlesForRequest(signals, ids) ==
    {HandleFromSignalId(id) : id \in IF ids = << >> THEN {signals[i].id : i \in DOMAIN signals}
                                     ELSE ToSet(ids)}

DecodeStart(time) == IF time =< 0 THEN 0 ELSE time \div Ticks
DecodeEnd(time)   == IF time =< 0 THEN 0 ELSE (time + Ticks - 1) \div Ticks

DecodeKey(signals, r) ==
    [decode |-> TRUE, start |-> DecodeStart(r.start), end |-> DecodeEnd(r.end),
     handles |-> HandlesForRequest(signals, r.ids)]

-----------------------------------------------------------------------------
CatalogOptions == [decode |-> FALSE, start |-> 0, end |-> 0, handles |-> {}]

IsRequest(r) == \A k \in DOMAIN r.ids : IsSignalId(r.ids[k])

\* The windows that are decoded of a file.
Keys(signals) == {DecodeKey(signals, r) : r \in {q \in Requests \cup RequestsV2 : IsRequest(q)}}

\* What the reader gives has the types of its header (FstReader.h).
IsSeq(s) == s \in Seq({s[n] : n \in DOMAIN s})

IsReading(data) ==
    /\ data.start \in Int
    /\ IsSeq(data.signals)
    /\ IsSeq(data.transitions)
    /\ \A n \in DOMAIN data.transitions : data.transitions[n].time \in Int

ASSUME ReadAssumption ==
    \A path \in Paths :
        LET whole == Read(path, CatalogOptions)
        IN  ~whole.failed =>
              \A key \in Keys(ToWaveformDataSet(whole).signals) :
                  ~Read(path, key).failed => IsReading(Read(path, key))

Init ==
    /\ file = NoFile
    /\ catalog = None
    /\ cacheKey = None
    /\ cacheData = None
    /\ request = None
    /\ answer = None

\* Every file that is opened gets a source of its own; one that cannot be read
\* gets none.
Opened(path, read) ==
    /\ ~read.failed
    /\ file' = path
    /\ catalog' = ToWaveformDataSet(read)

Open(path) ==
    /\ file = NoFile
    /\ Opened(path, Read(path, CatalogOptions))
    /\ UNCHANGED << cacheKey, cacheData, request, answer >>

\* Bug: a kept window serves every signal.
KeptWindow(r) ==
    /\ cacheKey # None
    /\ cacheKey.start = DecodeKey(catalog.signals, r).start
    /\ cacheKey.end = DecodeKey(catalog.signals, r).end

Kept(r) == cacheKey = DecodeKey(catalog.signals, r)

Decoded(read) == IF read.failed THEN Error ELSE ToWaveformDataSet(read)

\* The data set for a request: kept, or decoded; none if the request is not
\* one, if it names a signal of another source, or if the file cannot be read.
DecodedDataSet(r) ==
    IF r = Refused THEN Error
    ELSE IF ~IsRequest(r) THEN Error
    ELSE IF Kept(r) THEN cacheData
    ELSE Decoded(Read(file, DecodeKey(catalog.signals, r)))

Keep(r, data) ==
    IF data = Error THEN UNCHANGED << cacheKey, cacheData >>
    ELSE cacheKey' = DecodeKey(catalog.signals, r) /\ cacheData' = data

\* The data set is decoded, and kept, before the request is looked at.
EncodeFrame1(r, data) ==
    /\ Keep(r, data)
    /\ answer' = IF data = Error THEN Error
                 ELSE IF ~Valid(r) \/ ~KnownIds(data.signals, r.ids) THEN Error
                 ELSE EncodeViewportFrame(data.signals, r)

EncodeFrame2(r, data) ==
    /\ Keep(r, data)
    /\ answer' = IF data = Error THEN Error
                 ELSE IF ~ValidV2(r) \/ ~KnownIds(data.signals, r.ids) THEN Error
                 ELSE EncodeViewportFrameV2(data.signals, r)

\* The service decodes the payload of a request and hands it to the source.
ViewportFrame(r) ==
    /\ file # NoFile
    /\ request' = r
    /\ LET told == DecodeViewportRequest(RequestPayload(r))
       IN  EncodeFrame1(told, DecodedDataSet(told))
    /\ UNCHANGED << file, catalog >>

ViewportFrameV2(r) ==
    /\ file # NoFile
    /\ request' = r
    /\ LET told == DecodeViewportRequestV2(RequestPayload(r))
       IN  EncodeFrame2(told, DecodedDataSet(told))
    /\ UNCHANGED << file, catalog >>

Next ==
    \/ \E path \in Paths : Open(path)
    \/ \E r \in Requests : ViewportFrame(r)
    \/ \E r \in RequestsV2 : ViewportFrameV2(r)

Spec == Init /\ [][Next]_vars

-----------------------------------------------------------------------------
Answered == request # None /\ answer # Error

\* The segments of a row of the table, and the times each shows.
SegmentsOf(row) == SubSeq(answer.segments, row.first + 1, row.first + row.count)
StartOf(r, segment) == IF "time0" \in DOMAIN segment THEN segment.time0 ELSE r.start + segment.x0
EndOf(r, segment)   == IF "time1" \in DOMAIN segment THEN segment.time1 ELSE r.start + segment.x1

Unlimited == [request EXCEPT !.max = 0]

LabelBytes == 0 .. 3

\* Each column of a frame lies where the header says, apart from the others
\* and where a typed view may start.
ColumnsAreApart ==
    \A bytes \in LabelBytes :
        LET columns == IF "viewportStart" \in DOMAIN request
                       THEN FrameColumnsV2(answer, bytes) ELSE FrameColumns(answer, bytes)
        IN  \A n \in DOMAIN columns :
               /\ columns[n].told = columns[n].at
               /\ columns[n].at % columns[n].unit = 0
               /\ n > 1 => columns[n].at >= ColumnEnd(columns[n - 1])

\* The segments of a signal follow each other without a gap from the start of
\* the range, up to its end unless the frame says it was cut; it says so only
\* if the limit would have been passed.  The columns of the frame are apart.
FramesAreComplete ==
    Answered =>
        /\ \A k \in DOMAIN answer.table :
              LET segments == SegmentsOf(answer.table[k])
              IN  /\ \A n \in DOMAIN segments :
                        StartOf(request, segments[n]) = IF n = 1 THEN request.start ELSE EndOf(request, segments[n - 1])
                  /\ ~answer.truncated => EndOf(request, Last(segments)) = request.end
        /\ answer.truncated <=>
              /\ request.max # 0
              /\ Len(answer.segments) = request.max
              /\ LET whole == IF "viewportStart" \in DOMAIN request
                              THEN EncodeViewportFrameV2(cacheData.signals, Unlimited)
                              ELSE EncodeViewportFrame(cacheData.signals, Unlimited)
                 IN  /\ Len(whole.segments) > request.max
                     /\ answer.segments = SubSeq(whole.segments, 1, request.max)
        /\ ColumnsAreApart
=============================================================================
