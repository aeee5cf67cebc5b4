---------------------------- MODULE MCDocuments ----------------------------
EXTENDS Documents

\* Surrogate pairs before and after a line end, which is of either kind.
MCText == {<<"wide", "lf", "plain">>, <<"plain", "cr", "lf", "wide", "plain">>}
MCFileText == {<<>>, <<"wide">>}

At(line, character) == [line |-> line, character |-> character]

\* Beyond the end of the line, inside a surrogate pair, backwards, and one that
\* can be applied.
MCStrayChange ==
  {[start |-> At(0, 0), end |-> At(0, 9), text |-> <<>>],
   [start |-> At(0, 1), end |-> At(0, 1), text |-> <<"lf">>],
   [start |-> At(0, 1), end |-> At(0, 0), text |-> <<>>],
   [start |-> At(0, 0), end |-> At(1, 0), text |-> <<>>]}
=============================================================================
