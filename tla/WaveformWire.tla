---------------------------- MODULE WaveformWire ----------------------------
(***************************************************************************)
(* The messages of the waveform protocol as bytes                          *)
(* (waveform/WaveformBinaryProtocol.cpp).  The heights of the lanes and    *)
(* the width of the viewport are carried as zeros.                         *)
(***************************************************************************)
EXTENDS BinaryPayload

Magic   == 1
Version == 1

WaveformFrame(frame)     == EncodeFrame(Magic, Version, frame)
ReadWaveformFrame(bytes) == DecodeFrame(Magic, Version, bytes)

HelloPayload(data) ==
    Bytes(<< U16(Version), U16(0), F64(data.duration), U32(Len(data.groups)), U32(Len(data.signals)),
             String(data.id), String(data.title), String(data.unit) >>)

\* The strings of the groups and the signals, in the order of their tables.
CatalogTexts(data) ==
    FoldLeft(LAMBDA texts, g : texts \o << g.id, g.label >>, << >>, data.groups)
        \o FoldLeft(LAMBDA texts, s : texts \o << s.id, s.name, s.path >>, << >>, data.signals)

GroupRow(k, offsets) == U32(offsets[2 * k - 1]) \o U32(offsets[2 * k])

KindCode == [clock |-> 1, logic |-> 2, bus |-> 3]

SignalRow(signal, first, offsets) ==
    Bytes(<< U32(offsets[first]), U32(offsets[first + 1]), U32(offsets[first + 2]), U32(signal.group),
             U8(KindCode[signal.kind]), U8(0), U8(0), U8(0), U32(signal.color), U32(signal.width) >>)

GroupTable(data, offsets) ==
    Bytes([k \in DOMAIN data.groups |-> GroupRow(k, offsets)])

SignalTable(data, offsets) ==
    Bytes([k \in DOMAIN data.signals |->
              SignalRow(data.signals[k], 2 * Len(data.groups) + 3 * k - 2, offsets)])

\* The tables, then the strings they point into.
CatalogParts(data, groups, signals, strings) ==
    Bytes(<< U32(Len(data.groups)), U32(Len(data.signals)), U32(Len(groups)), U32(Len(signals)),
             U32(Len(strings)), groups, signals, strings >>)

CatalogPayload(data) ==
    LET texts   == CatalogTexts(data)
        offsets == TableOffsets(texts)
    IN  CatalogParts(data, GroupTable(data, offsets), SignalTable(data, offsets),
                     Bytes([k \in DOMAIN texts |-> String(texts[k])]))

-----------------------------------------------------------------------------
(* Requests.  One that has not exactly the bytes it tells of is refused.   *)

Refused == [refused |-> TRUE]

\* The identifiers from an offset on, and where they end.
ReadIds(payload, at, count) ==
    FoldLeft(LAMBDA s, k :
                 LET length == ReadU32(payload, s.at)
                 IN  IF length = Torn \/ s.at + 4 + length > Len(payload) THEN [s EXCEPT !.at = Len(payload) + 1]
                     ELSE [ids |-> Append(s.ids, ReadText(payload, s.at)), at |-> s.at + 4 + length],
             [ids |-> << >>, at |-> at], [k \in 1 .. count |-> k])

DecodeViewportRequest(payload) ==
    LET times   == ReadColumn(payload, 0, 8, 2)
        heights == ReadColumn(payload, 16, 4, 3)
        numbers == ReadColumn(payload, 28, 4, 2)
        read    == ReadIds(payload, 36, numbers[2])
    IN  IF Torn \in ToSet(times \o heights \o numbers) THEN Refused
        ELSE IF read.at # Len(payload) THEN Refused
        ELSE [start |-> times[1], end |-> times[2], max |-> numbers[1], ids |-> read.ids]

DecodeViewportRequestV2(payload) ==
    LET times   == ReadColumn(payload, 0, 8, 4)
        heights == ReadColumn(payload, 32, 4, 3)
        numbers == ReadColumn(payload, 44, 4, 2)
        read    == ReadIds(payload, 52, numbers[2])
    IN  IF Torn \in ToSet(times \o heights \o numbers) THEN Refused
        ELSE IF read.at # Len(payload) THEN Refused
        ELSE [start |-> times[1], end |-> times[2], viewportStart |-> times[3],
              viewportEnd |-> times[4], max |-> numbers[1], ids |-> read.ids]

-----------------------------------------------------------------------------
(* The other side: what a client writes and reads.                         *)

Times(request) ==
    IF "viewportStart" \in DOMAIN request
    THEN << F64(request.start), F64(request.end), F64(request.viewportStart), F64(request.viewportEnd) >>
    ELSE << F64(request.start), F64(request.end) >>

RequestPayload(request) ==
    Bytes(Times(request) \o << F32(0), F32(0), F32(0), U32(request.max), U32(Len(request.ids)) >>
              \o [k \in DOMAIN request.ids |-> String(request.ids[k])])

ReadHello(payload) ==
    LET id    == 20
        title == id + 4 + ReadU32(payload, id)
        unit  == title + 4 + ReadU32(payload, title)
    IN  [duration |-> ReadF64(payload, 4), groups |-> ReadU32(payload, 12),
         signals |-> ReadU32(payload, 16), unit |-> ReadText(payload, unit)]

ReadGroup(payload, at, strings) ==
    [id    |-> ReadText(payload, strings + ReadU32(payload, at)),
     label |-> ReadText(payload, strings + ReadU32(payload, at + 4))]

ReadSignal(payload, at, strings) ==
    [id    |-> ReadText(payload, strings + ReadU32(payload, at)),
     name  |-> ReadText(payload, strings + ReadU32(payload, at + 4)),
     path  |-> ReadText(payload, strings + ReadU32(payload, at + 8)),
     group |-> ReadU32(payload, at + 12),
     kind  |-> ReadAt(payload, at + 16, 1),
     color |-> ReadU32(payload, at + 20),
     width |-> ReadU32(payload, at + 24)]

ReadCatalog(payload) ==
    LET groups  == 20
        signals == groups + ReadU32(payload, 8)
        strings == signals + ReadU32(payload, 12)
    IN  [groups  |-> [k \in 1 .. ReadU32(payload, 0) |-> ReadGroup(payload, groups + 8 * (k - 1), strings)],
         signals |-> [k \in 1 .. ReadU32(payload, 4) |-> ReadSignal(payload, signals + 28 * (k - 1), strings)]]
=============================================================================
