--------------------------- MODULE TextPositions ---------------------------
(***************************************************************************)
(* Positions in a text, as the server resolves them and as an editor       *)
(* computes them.                                                          *)
(* Sources: src/document/DocumentStore.cpp, include/pristine/text/Utf.h.   *)
(*                                                                         *)
(* A text is a sequence of characters, not of bytes: the JSON parser has   *)
(* refused what is not UTF-8, so the decoder of Utf.h never fails on a     *)
(* document, and an offset it stops at is the beginning of a character.    *)
(* All that matters of a character is whether it ends a line and whether   *)
(* UTF-16 needs a surrogate pair for it ("wide").  An offset is the number *)
(* of characters before it.                                                *)
(*                                                                         *)
(* The functions of the server throw where there is no such offset; here   *)
(* the set of offsets is then empty.                                       *)
(***************************************************************************)
EXTENDS Integers, Sequences, FiniteSets

Character == {"plain", "wide", "lf", "cr"}

---------------------------------------------------------------------------
(* The server *)

LineFeeds(text, offset) == Cardinality({k \in 1..offset : text[k] = "lf"})

LineOffsets(text, line) ==
  {o \in 0..Len(text) : (o = 0 \/ text[o] = "lf") /\ LineFeeds(text, o) = line}

IsLineBreak(character) == character \in {"lf", "cr"}

\* Bug: a character is one unit, whatever it is.
CodePoints(text, from, to) == to - from
\* The UTF-16 code units between two offsets.
Units(text, from, to) ==
  Cardinality({k \in (from + 1)..to : text[k] # "wide"})
    + 2 * Cardinality({k \in (from + 1)..to : text[k] = "wide"})

ByteOffsets(text, position) ==
  {o \in 0..Len(text) :
     \E start \in LineOffsets(text, position.line) :
       /\ start <= o
       /\ \A k \in (start + 1)..o : ~IsLineBreak(text[k])
       /\ Units(text, start, o) = position.character}

Replace(text, from, to, new) ==
  SubSeq(text, 1, from) \o new \o SubSeq(text, to + 1, Len(text))

---------------------------------------------------------------------------
(* The editor *)

\* The line ends of the protocol are "\n", "\r\n" and "\r".
EndsLine(text, k) ==
  \/ text[k] = "lf"
  \/ text[k] = "cr" /\ ~(k < Len(text) /\ text[k + 1] = "lf")

LineStart(text, offset) ==
  CHOOSE s \in 0..offset : /\ s = 0 \/ EndsLine(text, s)
                           /\ \A k \in (s + 1)..offset : ~EndsLine(text, k)

\* A surrogate pair is two units, every other character is one.
Utf16Length(text, from, to) ==
  to - from + Cardinality({k \in (from + 1)..to : text[k] = "wide"})

PositionOf(text, offset) ==
  [line |-> Cardinality({k \in 1..offset : EndsLine(text, k)}),
   character |-> Utf16Length(text, LineStart(text, offset), offset)]

\* Where a cursor can be: not inside "\r\n".
Cursors(text) ==
  {o \in 0..Len(text) :
     ~(0 < o /\ o < Len(text) /\ text[o] = "cr" /\ text[o + 1] = "lf")}

\* No "\r" stands alone.
Regular(text) ==
  \A k \in 1..Len(text) : text[k] = "cr" => k < Len(text) /\ text[k + 1] = "lf"
=============================================================================
