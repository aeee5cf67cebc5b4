--------------------------- MODULE SemanticTokens ---------------------------
(***************************************************************************)
(* The encoding of semantic tokens for the client, and the edit between    *)
(* two encodings.  Source: src/server/SemanticTokenService.cpp.            *)
(*                                                                         *)
(* A record [delta_line, delta_character, length, type] stands for the     *)
(* five integers of one token (the fifth, the modifiers, is always 0), so  *)
(* positions in the encoding count tokens where the code counts integers.  *)
(***************************************************************************)
EXTENDS SequencesExt, Integers

\* The types of the legend, in its order; the engine also has other types.
TokenType == 0..8

\* The tokens that can be shown: of a known type, on one line, not empty.
Drawable(tokens) ==
  {[line |-> t.line, character |-> t.start, length |-> t.end - t.start, type |-> t.type] :
     t \in {u \in Range(tokens) : /\ u.type \in TokenType
                                  /\ u.line = u.end_line
                                  /\ u.start < u.end}}

Before(a, b) ==
  \/ a.line < b.line
  \/ a.line = b.line /\ a.character < b.character
  \/ a.line = b.line /\ a.character = b.character /\ a.length < b.length
  \/ /\ a.line = b.line /\ a.character = b.character /\ a.length = b.length
     /\ a.type < b.type

\* In that order, without duplicates: behind every token those it stands before.
Sorted(drawable) ==
  [i \in 1..Cardinality(drawable) |->
     CHOOSE t \in drawable : Cardinality({u \in drawable : Before(u, t)}) = i - 1]

\* Bug: the character stays relative when a line begins.
AlwaysRelative(same_line, character, previous) == character - previous
\* The character is relative to the token before it on the same line.
Relative(same_line, character, previous) ==
  IF same_line THEN character - previous ELSE character

\* encode: every position is relative to the last.
Encode(tokens) ==
  LET sorted == Sorted(Drawable(tokens))
      line(i) == IF i = 0 THEN 0 ELSE sorted[i].line
      character(i) == IF i = 0 THEN 0 ELSE sorted[i].character
  IN [i \in DOMAIN sorted |->
        [delta_line |-> line(i) - line(i - 1),
         delta_character |-> Relative(line(i) = line(i - 1), character(i), character(i - 1)),
         length |-> sorted[i].length,
         type |-> sorted[i].type]]

---------------------------------------------------------------------------
(* singleDelta *)

\* Number of tokens the encodings have in common at the start ...
CommonPrefix(previous, current) ==
  Max({n \in 0..Min({Len(previous), Len(current)}) :
         \A i \in 1..n : previous[i] = current[i]})

\* ... and, outside the common start, at the end.
\* Bug: the common end may overlap the common start.
SuffixLimitLoose(previous, current, prefix) ==
  Min({Len(previous), Len(current)})
SuffixLimit(previous, current, prefix) ==
  Min({Len(previous), Len(current)}) - prefix

CommonSuffix(previous, current, limit) ==
  Max({n \in 0..limit :
         \A i \in 0..(n - 1) : previous[Len(previous) - i] = current[Len(current) - i]})

SingleDelta(previous, current) ==
  LET prefix == CommonPrefix(previous, current)
      suffix == CommonSuffix(previous, current, SuffixLimit(previous, current, prefix))
  IN [start |-> prefix,
      delete_count |-> Len(previous) - prefix - suffix,
      data |-> SubSeq(current, prefix + 1, Len(current) - suffix)]

---------------------------------------------------------------------------
(* The client *)

\* The client applies an edit to the encoding it holds ...
Apply(data, edit) ==
  SubSeq(data, 1, edit.start) \o edit.data
    \o SubSeq(data, edit.start + edit.delete_count + 1, Len(data))

\* ... and draws each token at its absolute position.
Decode(data) ==
  LET at[i \in 0..Len(data)] ==
        IF i = 0 THEN [line |-> 0, character |-> 0]
        ELSE IF data[i].delta_line = 0
          THEN [at[i - 1] EXCEPT !.character = @ + data[i].delta_character]
          ELSE [line |-> at[i - 1].line + data[i].delta_line,
                character |-> data[i].delta_character]
  IN {[line |-> at[i].line, character |-> at[i].character,
       length |-> data[i].length, type |-> data[i].type] : i \in DOMAIN data}
============================================================================
