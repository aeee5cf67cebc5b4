----------------------------- MODULE LefDefText -----------------------------
(***************************************************************************)
(* The text of LEF and DEF files and what their readers share              *)
(* (layout/LayoutParser.cpp, Lexer, TokenStream and ParserBase).  A text   *)
(* is a sequence of pieces: a digit, a sign, a bracket, a blank, or a run  *)
(* of letters and digits that starts with a letter.  Lines, columns and    *)
(* the wording of diagnostics are left out; a number is [num, decimals],   *)
(* exactly, where the code has a double.                                   *)
(***************************************************************************)
EXTENDS LayoutGeometry, SequencesExt, Functions

Digit == [d \in {"0", "1", "2", "3", "4", "5", "6", "7", "8", "9"} |->
            CHOOSE n \in 0 .. 9 : ToString(n) = d]
IsDigit(piece) == piece \in DOMAIN Digit
Blanks == {" ", "\n"}

\* The words that are written in small letters.
Capital == [layer |-> "LAYER", m1 |-> "M1", end |-> "END", placed |-> "PLACED"]
Upper(text) == [k \in DOMAIN text |-> IF text[k] \in DOMAIN Capital THEN Capital[text[k]] ELSE text[k]]

Token(kind, text, number) == [kind |-> kind, text |-> text, number |-> number]
Zero == [num |-> 0, decimals |-> 0]
EndToken == Token("End", <<>>, Zero)

At(text, k) == IF k \in DOMAIN text THEN text[k] ELSE "end of text"

\* The first place from k on that holds one of the stops, or is past the end,
\* and the first that is no digit.
RECURSIVE NextOf(_, _, _), AfterDigits(_, _)
NextOf(text, k, stops) ==
  IF k > Len(text) \/ At(text, k) \in stops THEN k ELSE NextOf(text, k + 1, stops)
AfterDigits(text, k) == IF IsDigit(At(text, k)) THEN AfterDigits(text, k + 1) ELSE k

\* Past the end of a block comment; one that does not end leaves its last piece.
AfterBlock(text, k) ==
  LET ends == {n \in k + 2 .. Len(text) - 1 : text[n] = "*" /\ text[n + 1] = "/"}
  IN  IF ends # {} THEN Low(ends) + 2 ELSE High({k + 2, Len(text)})

RECURSIVE SkipWhitespaceAndComments(_, _)
SkipWhitespaceAndComments(text, k) ==
  CASE At(text, k) \in Blanks -> SkipWhitespaceAndComments(text, k + 1)
    [] At(text, k) = "#" \/ (At(text, k) = "/" /\ At(text, k + 1) = "/") ->
         SkipWhitespaceAndComments(text, NextOf(text, k, {"\n"}))
    [] At(text, k) = "/" /\ At(text, k + 1) = "*" ->
         SkipWhitespaceAndComments(text, AfterBlock(text, k))
    [] OTHER -> k

Read(kind, text, number, next) == [token |-> Token(kind, text, number), next |-> next]

\* A backslash takes the next piece as it is.
RECURSIVE Quoted(_, _, _)
Quoted(text, k, value) ==
  CASE k > Len(text) -> Read("String", value, Zero, k)
    [] At(text, k) = "\"" -> Read("String", value, Zero, k + 1)
    [] At(text, k) = "\\" /\ k < Len(text) -> Quoted(text, k + 2, Append(value, text[k + 1]))
    [] OTHER -> Quoted(text, k + 1, Append(value, text[k]))

ReadString(text, k) == Quoted(text, k + 1, <<>>)

DigitsValue(digits) == FoldLeft(LAMBDA sum, d : 10 * sum + Digit[d], 0, digits)

\* No digit at all reads as zero; the files here have no exponents.
ReadNumber(text, k) ==
  LET from  == IF text[k] = "-" THEN k + 1 ELSE k
      point == AfterDigits(text, from)
      next  == IF At(text, point) = "." THEN AfterDigits(text, point + 1) ELSE point
      whole == SubSeq(text, from, point - 1)
      part  == SubSeq(text, point + 1, next - 1)
      value == DigitsValue(whole \o part)
  IN  Read("Number", SubSeq(text, k, next - 1),
           [num |-> IF text[k] = "-" THEN -value ELSE value, decimals |-> Len(part)], next)

\* An escaped word ends only at a blank, a semicolon or a bracket.
ReadWord(text, k) ==
  LET escaped == text[k] = "\\"
      from    == IF escaped THEN k + 1 ELSE k
      stops   == Blanks \cup {";", "(", ")"} \cup IF escaped THEN {} ELSE {"+", "*"}
      next    == NextOf(text, from, stops)
  IN  Read("Word", SubSeq(text, from, next - 1), Zero, next)

Marks == [x \in {";", "(", ")", "+", "-", "*"} |-> x]

NextToken(text, k) ==
  LET piece  == text[k]
      number == IsDigit(piece) \/ piece = "."
                \/ (piece = "-" /\ (IsDigit(At(text, k + 1)) \/ At(text, k + 1) = "."))
  IN  CASE number -> ReadNumber(text, k)
        [] ~number /\ piece \in DOMAIN Marks -> Read(Marks[piece], <<piece>>, Zero, k + 1)
        [] piece = "\"" -> ReadString(text, k)
        [] OTHER -> ReadWord(text, k)

\* At most n tokens from k on, by halves, and where they end.
RECURSIVE Tokens(_, _, _)
Tokens(text, k, n) ==
  LET from == SkipWhitespaceAndComments(text, k)
      read == NextToken(text, from)
      half == Tokens(text, k, n \div 2)
      rest == Tokens(text, half.next, n - n \div 2)
  IN  CASE from > Len(text) -> [tokens |-> <<>>, next |-> from]
        [] from <= Len(text) /\ n = 1 -> [tokens |-> <<read.token>>, next |-> read.next]
        [] OTHER -> [tokens |-> half.tokens \o rest.tokens, next |-> rest.next]

-----------------------------------------------------------------------------
(* A reader is at a token of its file; it has built a library and told of  *)
(* what it did not expect.  An optional value is a sequence of at most one.*)

Reader(text, library) ==
  [tokens |-> Tokens(text, 1, Len(text)).tokens, at |-> 1, lib |-> library, diagnostics |-> <<>>]

Current(p) == IF p.at > Len(p.tokens) THEN EndToken ELSE p.tokens[p.at]
Eof(p) == p.at > Len(p.tokens)
Take(p) == IF Eof(p) THEN p ELSE [p EXCEPT !.at = @ + 1]

Is(p, kind) == Current(p).kind = kind
IsWord(p, word) == Is(p, "Word") /\ Upper(Current(p).text) = <<word>>
Consume(p, kind) == IF Is(p, kind) THEN Take(p) ELSE p
ConsumeWord(p, word) == IF IsWord(p, word) THEN Take(p) ELSE p

Tell(p, what) == [p EXCEPT !.diagnostics = Append(@, what)]

Some(p, value) == [p |-> p, value |-> <<value>>]
None(p) == [p |-> p, value |-> <<>>]
ValueOr(value, default) == IF value = <<>> THEN default ELSE value[1]

IsName(p) == Current(p).kind \in {"Word", "String", "Number"}
ParseName(p) ==
  IF IsName(p) THEN Some(Take(p), Current(p).text) ELSE None(Tell(p, "Expected name"))

ParseNumber(p) ==
  IF Is(p, "Number") THEN Some(Take(p), Current(p).number) ELSE None(Tell(p, "Expected number"))

\* To database units: the nearest, halves away from zero.
ToDbu(number, scale) == RoundQuotient(number.num * scale, 10 ^ number.decimals)

\* As many numbers as are asked for, less those that are missing.
Numbers(p, count) ==
  FoldLeft(LAMBDA read, k : LET number == ParseNumber(read.p)
                            IN  [p |-> number.p, values |-> read.values \o number.value],
           [p |-> p, values |-> <<>>], [k \in 1 .. count |-> k])

DbuPoint(x, y, scale) == Point(ToDbu(x, scale), ToDbu(y, scale))

\* Two numbers in brackets.
Bracketed(read) ==
  LET q == IF Is(read.p, ")") THEN Take(read.p) ELSE Tell(read.p, "Expected ')'")
  IN  IF Len(read.values) < 2 THEN None(q) ELSE Some(q, DbuPoint(read.values[1], read.values[2], 1))

ParsePoint(p) ==
  IF Is(p, "(") THEN Bracketed(Numbers(Take(p), 2)) ELSE None(Tell(p, "Expected '('"))

RECURSIVE Semicolon(_)
Semicolon(p) == IF Eof(p) \/ Is(p, ";") THEN p ELSE Semicolon(Take(p))
SkipUntilSemicolon(p) == Take(Semicolon(p))

\* Past the next END with a name, whichever.
RECURSIVE SkipSection(_)
SkipSection(p) ==
  CASE Eof(p) -> p
    [] IsWord(p, "END") /\ IsName(Take(p)) -> Take(Take(p))
    [] OTHER -> SkipSection(Take(p))

\* The place of a layer's name, whatever its letters, one more if it is new.
FindOrAdd(names, name) ==
  LET found == {k \in DOMAIN names : Upper(names[k]) = Upper(name)}
  IN  IF found = {} THEN [names |-> Append(names, name), index |-> Len(names)]
                    ELSE [names |-> names, index |-> Low(found) - 1]

\* The units after the word, or nothing up to a semicolon.
UnitsOf(p, number) ==
  IF number = <<>> THEN Consume(p, ";")
  ELSE [Consume(p, ";") EXCEPT !.lib.units = ToDbu(number[1], 1)]

RECURSIVE UnitsStatement(_, _)
UnitsStatement(p, word) ==
  LET number == ParseNumber(ConsumeWord(Take(p), "MICRONS"))
  IN  CASE Eof(p) -> p
        [] Is(p, ";") -> Take(p)
        [] IsWord(p, word) -> UnitsOf(number.p, number.value)
        [] OTHER -> UnitsStatement(Take(p), word)

\* What both files have between their statements, or do not know.
CommonStatement(p) ==
  CASE Is(p, ";") -> Take(p)
    [] IsWord(p, "END") -> Consume(IF Eof(Take(p)) \/ Is(Take(p), ";") THEN Take(p) ELSE Take(Take(p)), ";")
    [] OTHER -> SkipUntilSemicolon(Tell(Take(p), "Unsupported statement"))

PlainShape(kind, layer, rect, points) ==
  [kind |-> kind, layer |-> layer, rect |-> rect, points |-> points]
RectBetween(p, q) == BoxOf({p, q})
=============================================================================
