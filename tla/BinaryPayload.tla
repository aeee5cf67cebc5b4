---------------------------- MODULE BinaryPayload ---------------------------
(***************************************************************************)
(* The bytes of the layout and the waveform protocols                      *)
(* (layout/LayoutBinaryProtocol.cpp, waveform/WaveformBinaryProtocol.cpp). *)
(* A payload is a sequence of bytes; the first byte of a number carries    *)
(* the width and the value of it, its other bytes carry nothing.  A number *)
(* that is read where none of that width starts is torn.                   *)
(***************************************************************************)
EXTENDS Integers, Sequences, SequencesExt

Rest == [width |-> 0, value |-> 0]
Number(width, value) ==
  <<[width |-> width, value |-> value]>> \o [k \in 1 .. width - 1 |-> Rest]

U8(value)  == Number(1, value)
U16(value) == Number(2, value)
U32(value) == Number(4, value)
U64(value) == Number(8, value)
F32(value) == Number(4, value)
F64(value) == Number(8, value)

\* appendString: the length, then the characters.
String(text) == U32(Len(text)) \o [k \in DOMAIN text |-> U8(text[k])[1]]

Bytes(parts) == FoldLeft(LAMBDA bytes, part : bytes \o part, <<>>, parts)

\* alignTo, with zeros.
Align(bytes, alignment) ==
  bytes \o [k \in 1 .. (-Len(bytes)) % alignment |-> U8(0)[1]]

\* A header that is written over the bytes kept free for it.
WriteOver(header, bytes) == header \o SubSeq(bytes, Len(header) + 1, Len(bytes))

\* appendTableString: the place of each string in a table of all.
TableOffsets(texts) ==
  [k \in DOMAIN texts |-> FoldLeft(LAMBDA sum, text : sum + 4 + Len(text), 0, SubSeq(texts, 1, k - 1))]

-----------------------------------------------------------------------------
(* Reading.                                                                *)

Torn == -2

\* requireAvailable: what does not fit is not read.
ReadAt(bytes, offset, width) ==
  IF /\ 0 <= offset /\ offset + width <= Len(bytes)
     /\ bytes[offset + 1].width = width
  THEN bytes[offset + 1].value ELSE Torn

ReadU16(bytes, offset) == ReadAt(bytes, offset, 2)
ReadU32(bytes, offset) == ReadAt(bytes, offset, 4)
ReadU64(bytes, offset) == ReadAt(bytes, offset, 8)
ReadF64(bytes, offset) == ReadAt(bytes, offset, 8)

ReadText(bytes, offset) ==
  IF ReadU32(bytes, offset) = Torn \/ offset + 4 + ReadU32(bytes, offset) > Len(bytes) THEN <<Torn>>
  ELSE [k \in 1 .. ReadU32(bytes, offset) |-> ReadAt(bytes, offset + 3 + k, 1)]

\* Numbers that follow each other, all of one width.
ReadColumn(bytes, offset, width, count) ==
  [k \in 1 .. count |-> ReadAt(bytes, offset + (k - 1) * width, width)]

TornList == [values |-> <<>>, end |-> Torn]

\* readU32List: how many there are, then the numbers, if they are all there.
ReadU32List(bytes, offset) ==
  IF \/ ReadU32(bytes, offset) = Torn
     \/ ReadU32(bytes, offset) > (Len(bytes) - offset - 4) \div 4 THEN TornList
  ELSE [values |-> ReadColumn(bytes, offset + 4, 4, ReadU32(bytes, offset)),
        end    |-> offset + 4 + 4 * ReadU32(bytes, offset)]

-----------------------------------------------------------------------------
(* Frames: a request or a response with the number of the request.         *)

FrameHeaderSize == 24

EncodeFrame(magic, version, frame) ==
  Bytes(<<Number(4, magic), U16(version), U16(frame.type), U32(frame.request), U32(frame.flags),
          U32(Len(frame.payload)), U32(0), frame.payload>>)

NoFrame == [type |-> "none"]

\* decodeFrame: throws unless the bytes are one frame of this protocol.
DecodeFrame(magic, version, bytes) ==
  IF \/ ReadU32(bytes, 0) # magic \/ ReadU16(bytes, 4) # version
     \/ ReadU32(bytes, 16) = Torn \/ Len(bytes) # FrameHeaderSize + ReadU32(bytes, 16) THEN NoFrame
  ELSE [type |-> ReadU16(bytes, 6), request |-> ReadU32(bytes, 8), flags |-> ReadU32(bytes, 12),
        payload |-> SubSeq(bytes, FrameHeaderSize + 1, Len(bytes))]
=============================================================================
