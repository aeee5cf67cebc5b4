--------------------------- MODULE MCResultStore ---------------------------
(* Instances for TLC.  The results differ in the ways that matter to the   *)
(* edit: a token more in front, behind, or of a kind that repeats; one     *)
(* result has the diagnostics of another, one has tokens nobody can draw.  *)
EXTENDS ResultStore

Tok(l, s, t) == [line |-> l, end_line |-> l, start |-> s, end |-> s + 1, type |-> t]
Multiline == [line |-> 0, end_line |-> 1, start |-> 0, end |-> 1, type |-> 0]
Unknown == [line |-> 0, end_line |-> 0, start |-> 0, end |-> 1, type |-> 9]

Symmetry == Permutations(Document)

MCResult == 1..3
MCItems == << <<>>, <<"width">>, <<>> >>
MCTokens == << <<Tok(1, 1, 5), Tok(0, 1, 5), Multiline>>,
               <<Tok(0, 1, 5), Tok(1, 1, 5), Tok(0, 2, 5), Tok(0, 1, 5)>>,
               <<Tok(0, 2, 5), Tok(0, 1, 5), Tok(0, 3, 5), Unknown>> >>
============================================================================
