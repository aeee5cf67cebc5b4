------------------------------ MODULE FstBytes ------------------------------
(***************************************************************************)
(* How the reader of FST files (FstReader.cpp) takes numbers, strings and  *)
(* compressed parts from bytes, and the header of a file.  A byte of a     *)
(* text is the place of its character in Alphabet.  A read gives what was  *)
(* read and the offset behind it; one that fails gives an offset beyond    *)
(* the end, where nothing more can be read.                                *)
(***************************************************************************)
EXTENDS BinaryPayload, FiniteSetsExt

Alphabet == << "0", "1", "x", "z", "h", "u", "w", "l", "-", "?", "c", "k", "b", "s", "q", "t", "o", "p" >>

Text(bytes) == [k \in DOMAIN bytes |-> Alphabet[bytes[k].value]]

Past(bytes) == Len(bytes) + 1
Broken(bytes) == [value |-> 0, at |-> Past(bytes)]

ByteIs(bytes, at, value) == bytes[at + 1].width = 1 /\ bytes[at + 1].value = value

ReadByte(bytes, at) ==
    IF at < Len(bytes) /\ bytes[at + 1].width = 1
    THEN [value |-> bytes[at + 1].value, at |-> at + 1] ELSE Broken(bytes)

ReadBytes(bytes, at, size) ==
    IF at + size > Len(bytes) THEN [value |-> << >>, at |-> Past(bytes)]
    ELSE [value |-> SubSeq(bytes, at + 1, at + size), at |-> at + size]

\* Seven bits in each byte, the least significant first; the eighth bit tells
\* that another byte follows.
MaxVarint == 10

VarintEnds(bytes, at) ==
    {k \in at .. Min({at + MaxVarint, Len(bytes)}) - 1 : bytes[k + 1].width = 1 /\ bytes[k + 1].value < 128}

VarintBits(bytes, at, end) ==
    FoldLeft(LAMBDA sum, k : sum + (bytes[at + k].value % 128) * 128 ^ (k - 1), 0,
             [k \in 1 .. end - at |-> k])

ReadVarint(bytes, at) ==
    LET ends == VarintEnds(bytes, at)
    IN  IF ends = {} THEN Broken(bytes)
        ELSE [value |-> VarintBits(bytes, at, Min(ends) + 1), at |-> Min(ends) + 1]

\* Bit 6 of the last byte is the sign.
ReadSignedVarint(bytes, at) ==
    LET read == ReadVarint(bytes, at)
    IN  IF read.at > Len(bytes) \/ bytes[read.at].value < 64 THEN read
        ELSE [read EXCEPT !.value = @ - 128 ^ (read.at - at)]

ReadNullString(bytes, at) ==
    LET ends == {k \in at .. Len(bytes) - 1 : ByteIs(bytes, k, 0)}
    IN  IF ends = {} THEN [value |-> << >>, at |-> Past(bytes)]
        ELSE [value |-> Text(SubSeq(bytes, at + 1, Min(ends))), at |-> Min(ends) + 1]

-----------------------------------------------------------------------------
(* Compressed bytes, of any of the four libraries: the first of them stands *)
(* for the whole, as a number whose width is the size and whose value is    *)
(* what was compressed.  The libraries do not mind bytes behind them.       *)

Inflates(bytes, expected) ==
    /\ bytes # << >>
    /\ bytes[1].width \in 2 .. Len(bytes)
    /\ Len(bytes[1].value) = expected

Inflate(bytes) == bytes[1].value

\* A part that is as long as what it stands for is not compressed.
Readable(bytes, expected)  == Len(bytes) = expected \/ Inflates(bytes, expected)
Unpacked(bytes, expected) == IF Len(bytes) = expected THEN bytes ELSE Inflate(bytes)

-----------------------------------------------------------------------------
(* A file may be wrapped whole in one compressed block; it is nothing while *)
(* the block is not finished.                                               *)

ZWrapper == 254
WrapperBegin == 27

GzipHeader(bytes) ==
    \A k \in 1 .. 4 : ByteIs(bytes, 16 + k, << 31, 139, 8, 0 >>[k])

ReadFstBytes(bytes) ==
    IF bytes = << >> \/ ~ByteIs(bytes, 0, ZWrapper) THEN bytes
    ELSE LET end == 1 + ReadU64(bytes, 1)
             encoded == SubSeq(bytes, WrapperBegin + 1, end)
         IN  IF /\ Len(bytes) >= WrapperBegin
                /\ end \in WrapperBegin .. Len(bytes)
                /\ GzipHeader(bytes)
                /\ Inflates(encoded, ReadU64(bytes, 9))
             THEN Inflate(encoded) ELSE << >>

HeaderLength == 330
HeaderSectionLength == 329

\* The bytes of a real in the other order: any involution that is none on the
\* number of the test.
Reversed(real) == -real
EndianTest == 3

Int8(byte) == IF byte > 127 THEN byte - 256 ELSE byte

BadHeader == [valid |-> FALSE]

ParseHeader(bytes) ==
    LET test == ReadF64(bytes, 25)
    IN  IF \/ Len(bytes) < HeaderLength
           \/ ~ByteIs(bytes, 0, 0)
           \/ ReadU64(bytes, 1) < HeaderSectionLength
           \/ test \notin {EndianTest, Reversed(EndianTest)}
           \/ ReadU64(bytes, 17) < ReadU64(bytes, 9)
        THEN BadHeader
        ELSE [valid |-> TRUE, start |-> ReadU64(bytes, 9), end |-> ReadU64(bytes, 17),
              hostOrder |-> test = EndianTest, variables |-> ReadU64(bytes, 49),
              maxHandle |-> ReadU64(bytes, 57), timescale |-> Int8(ReadByte(bytes, 73).value)]

ReadReal(bytes, at, hostOrder) ==
    IF ReadF64(bytes, at) = Torn THEN Broken(bytes)
    ELSE [value |-> IF hostOrder THEN ReadF64(bytes, at) ELSE Reversed(ReadF64(bytes, at)),
          at    |-> at + 8]
=============================================================================
