-------------------------- MODULE WaveformViewport --------------------------
(***************************************************************************)
(* The frame that answers a viewport request: for every selected signal    *)
(* the segments of constant value between two times                        *)
(* (WaveformViewportEncoder.cpp).  Times are numbers of a unit finer than  *)
(* the signals'; the pixels of a column are its time clamped to the        *)
(* viewport, the scale and the heights of the lanes are left out.          *)
(***************************************************************************)
EXTENDS Integers, Sequences, SequencesExt

\* A value is the sequence of its characters.
NoLabel == "none"

\* A request of the first version; the second has a viewport inside a
\* prepared range and is answered for the prepared range.
ViewportRequest(start, end, max, ids) ==
    [start |-> start, end |-> end, max |-> max, ids |-> ids]
ViewportRequestV2(start, end, from, to, max, ids) ==
    [start |-> start, end |-> end, viewportStart |-> from, viewportEnd |-> to,
     max |-> max, ids |-> ids]

\* The elements of a sequence that are in a set, in their order.
Only(s, elements) ==
    FoldLeft(LAMBDA kept, e : IF e \in elements THEN Append(kept, e) ELSE kept, << >>, s)

Valid(request) == request.start < request.end

ValidV2(request) ==
    /\ request.start < request.end
    /\ request.viewportStart < request.viewportEnd
    /\ request.start =< request.viewportStart
    /\ request.viewportEnd =< request.end

TimeToX(time, start, end) ==
    (IF time < start THEN start ELSE IF time > end THEN end ELSE time) - start

ValueKindFor(signal, value) ==
    IF value = << "0" >> THEN "low"
    ELSE IF value = << "1" >> THEN "high"
    ELSE IF value \in {<< "x" >>, << "X" >>} THEN "unknown"
    ELSE IF value \in {<< "z" >>, << "Z" >>} THEN "high impedance"
    ELSE IF signal.kind = "bus" THEN "bus" ELSE "unknown"

LabelFor(signal, value) == IF signal.kind = "bus" THEN value ELSE NoLabel

SignalWithId(data, id) ==
    CHOOSE i \in DOMAIN data :
        data[i].id = id /\ \A j \in DOMAIN data : data[j].id = id => i =< j

KnownIds(data, ids) == \A k \in DOMAIN ids : \E i \in DOMAIN data : data[i].id = ids[k]

\* The positions of the signals asked for, each once, in the order of the
\* request; of all signals when none is named.
SelectedSignals(data, ids) ==
    IF ids = << >> THEN [i \in DOMAIN data |-> i]
    ELSE LET first == Only([k \in DOMAIN ids |-> k],
                           {k \in DOMAIN ids : \A j \in 1 .. k - 1 : ids[j] # ids[k]})
         IN  [n \in DOMAIN first |-> SignalWithId(data, ids[first[n]])]

SelectedSignalsV2(data, ids) == SelectedSignals(data, ids)

ValueAtStart(signal, start) ==
    LET before == Only(signal.transitions, {t \in ToSet(signal.transitions) : t.time =< start})
    IN  IF before = << >> THEN signal.transitions[1].value ELSE Last(before).value

-----------------------------------------------------------------------------
NoColumns == [segments |-> << >>, table |-> << >>, truncated |-> FALSE]

\* Bug: one segment too many.
AppendOneMore(columns, segment, start, end, max) ==
    IF end =< start THEN columns
    ELSE IF max # 0 /\ Len(columns.segments) > max
         THEN [columns EXCEPT !.truncated = TRUE]
         ELSE [columns EXCEPT !.segments = Append(@, segment)]

\* One segment; the segments of a frame are limited and the flag tells that
\* one was left out.
AppendSegment(columns, segment, start, end, max) ==
    IF end =< start THEN columns
    ELSE IF max # 0 /\ Len(columns.segments) >= max
         THEN [columns EXCEPT !.truncated = TRUE]
         ELSE [columns EXCEPT !.segments = Append(@, segment)]

Segment(signal, value, start, end, from, to) ==
    [x0 |-> TimeToX(start, from, to), x1 |-> TimeToX(end, from, to),
     kind |-> ValueKindFor(signal, value), label |-> LabelFor(signal, value)]

SegmentV2(signal, value, start, end, from, to) ==
    [x0 |-> TimeToX(start, from, to), x1 |-> TimeToX(end, from, to),
     kind |-> ValueKindFor(signal, value), label |-> LabelFor(signal, value),
     time0 |-> start, time1 |-> end]

\* The transitions inside the range end a segment each; the last segment ends
\* with the range.
Within(signal, request) ==
    Only(signal.transitions,
         {t \in ToSet(signal.transitions) : request.start < t.time /\ t.time =< request.end})

\* The starts of the segments of a signal and their values, in order.
Changes(signal, request) ==
    << [time |-> request.start, value |-> ValueAtStart(signal, request.start)] >>
        \o Within(signal, request)

\* The segment of each change lasts until the next; a row is a signal with its
\* segments and the times each lasts from and to.
Lasting(changes, k, request) == IF k = Len(changes) THEN request.end ELSE changes[k + 1].time

DrawnRow(data, i, request) ==
    LET changes == Changes(data[i], request)
        from(k) == changes[k].time
        to(k)   == Lasting(changes, k, request)
    IN  [signal |-> i, pieces |-> [k \in DOMAIN changes |->
            [start |-> from(k), end |-> to(k),
             segment |-> Segment(data[i], changes[k].value, from(k), to(k), request.start, request.end)]]]

DrawnRowV2(data, i, request) ==
    LET changes == Changes(data[i], request)
        from(k) == changes[k].time
        to(k)   == Lasting(changes, k, request)
    IN  [signal |-> i, pieces |-> [k \in DOMAIN changes |->
            [start |-> from(k), end |-> to(k),
             segment |-> SegmentV2(data[i], changes[k].value, from(k), to(k),
                                   request.viewportStart, request.viewportEnd)]]]

AppendPieces(columns, pieces, max) ==
    FoldLeft(LAMBDA c, p : AppendSegment(c, p.segment, p.start, p.end, max), columns, pieces)

\* The segments of a signal, and where they lie in the table; a signal after the
\* limit is in the table, without segments.
InTable(columns, i, all) ==
    [all EXCEPT !.table = Append(@, [signal |-> i,
         first |-> Len(columns.segments),
         count |-> Len(all.segments) - Len(columns.segments)])]

AppendSignalSegments(columns, row, max) ==
    InTable(columns, row.signal,
            IF columns.truncated THEN columns ELSE AppendPieces(columns, row.pieces, max))

EncodeRows(rows, max) ==
    FoldLeft(LAMBDA c, row : AppendSignalSegments(c, row, max), NoColumns, rows)

EncodeViewportFrame(data, request) ==
    LET selected == SelectedSignals(data, request.ids)
    IN  EncodeRows([n \in DOMAIN selected |-> DrawnRow(data, selected[n], request)], request.max)

EncodeViewportFrameV2(data, request) ==
    LET selected == SelectedSignalsV2(data, request.ids)
    IN  EncodeRows([n \in DOMAIN selected |-> DrawnRowV2(data, selected[n], request)], request.max)

-----------------------------------------------------------------------------
(***************************************************************************)
(* The columns of a frame follow each other in one buffer: four-byte       *)
(* numbers, one byte for the kind of a value, eight-byte times.  The       *)
(* offset of a column is noted before the function that writes it aligns   *)
(* the buffer to the unit of the column; where the column before may have  *)
(* left the end unaligned, the caller aligns first.  A column is [told,    *)
(* at, size, unit]: the offset the header tells, the one its first element *)
(* has, its bytes, and the unit a typed view of the client is aligned to.  *)
(***************************************************************************)
AlignTo(size, unit) == ((size + unit - 1) \div unit) * unit

ColumnEnd(column) == column.at + column.size

Part(size, unit, align) == [size |-> size, unit |-> unit, align |-> align]

Columns(header, parts) ==
    FoldLeft(LAMBDA cs, p :
        LET told == AlignTo(IF cs = << >> THEN header ELSE ColumnEnd(Last(cs)), p.align)
        IN  Append(cs, [told |-> told, at |-> AlignTo(told, p.unit),
                        size |-> p.size, unit |-> p.unit]),
        << >>, parts)

\* The table of the signals, x0, x1, the lanes, the kinds, the labels' indices
\* and the labels of n segments.
FrameColumns(frame, labelBytes) ==
    LET n == Len(frame.segments)
    IN  Columns(56, << Part(16 * Len(frame.table), 4, 4), Part(4 * n, 4, 1), Part(4 * n, 4, 1),
                       Part(4 * n, 4, 1), Part(n, 1, 1), Part(4 * n, 4, 4),
                       Part(labelBytes, 1, 1) >>)

\* Bug: the times are aligned like the columns before them.
FrameColumnsUnaligned(frame, labelBytes) ==
    LET n == Len(frame.segments)
    IN  Columns(96, << Part(16 * Len(frame.table), 4, 4), Part(4 * n, 4, 1), Part(4 * n, 4, 1),
                       Part(4 * n, 4, 1), Part(n, 1, 1), Part(4 * n, 4, 4), Part(8 * n, 8, 4),
                       Part(8 * n, 8, 8), Part(labelBytes, 1, 4) >>)

\* With the times before the labels.
FrameColumnsV2(frame, labelBytes) ==
    LET n == Len(frame.segments)
    IN  Columns(96, << Part(16 * Len(frame.table), 4, 4), Part(4 * n, 4, 1), Part(4 * n, 4, 1),
                       Part(4 * n, 4, 1), Part(n, 1, 1), Part(4 * n, 4, 4), Part(8 * n, 8, 8),
                       Part(8 * n, 8, 8), Part(labelBytes, 1, 4) >>)
=============================================================================
