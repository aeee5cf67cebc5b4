--------------------------- MODULE MCSemanticEngine ---------------------------
EXTENDS SemanticEngine, MCDesignGraph

CONSTANTS main, pkg, hdr, oth,  \* documents
          TOP, PKG, X, OTH,     \* what they declare
          DEEP, FLAT,           \* macros: the first expands to the second
          any, short            \* prefixes

Scan(key, members, text, uses) ==
  [key |-> key, members |-> members, text |-> text, uses |-> uses, includes |-> {},
   defines |-> {}, invokes |-> {}, hidden |-> {}, complete |-> TRUE]

\* A module that names a package, and a member of it through a macro of a header;
\* and one that instantiates the module.
PkgText == Scan(PKG, {X}, {PKG, X}, {})
TopText == [Scan(TOP, {}, {TOP, PKG}, {}) EXCEPT !.includes = {hdr}, !.invokes = {DEEP}]
HdrText == [Scan(None, {}, {}, {}) EXCEPT !.defines = {DEEP, FLAT}]
OthText == Scan(OTH, {}, {OTH, TOP}, {TOP})

\* Other texts: without the member, without the header, with an import in it, and
\* one that pastes the name of the member together.
PkgLess == Scan(PKG, {}, {PKG}, {})
TopOwn  == Scan(TOP, {}, {TOP, PKG, X}, {PKG})
HdrUses == [HdrText EXCEPT !.text = {PKG}, !.uses = {PKG}]
OthOdd  == [Scan(OTH, {}, {OTH, PKG}, {PKG}) EXCEPT !.hidden = {X}, !.complete = FALSE]

\* A header that is not about macros: it names the member, and is read where the
\* package is imported.
HdrName  == [HdrText EXCEPT !.text = {X}]
TopReads == [Scan(TOP, {}, {TOP, PKG}, {PKG}) EXCEPT !.includes = {hdr}]

MCBody == DEEP :> {FLAT} @@ FLAT :> {X}
MCMatches == any :> {TOP, PKG, OTH} @@ short :> {PKG}
MCCandidateLimit == any :> 2 @@ short :> 1

Whole == main :> TopText @@ pkg :> PkgText @@ hdr :> HdrText @@ oth :> OthText
MCWorkspaces == {Whole}
MCText == {<<pkg, PkgLess>>, <<oth, OthOdd>>, <<main, TopOwn>>, <<hdr, HdrUses>>}
MCConfig == {[tops |-> {}, dirs |-> Document], [tops |-> {TOP}, dirs |-> Document \ {oth}]}
Ask(kinds, uri, roots) == [kind : kinds, uri : {uri}, roots : {roots}]
MCRequest ==
  Ask({"definitions", "typeDefinitions", "documentHighlights", "hover", "prepareRename",
       "signatureHelp", "inlayHints", "codeActions", "semanticTokens", "selectionRanges",
       "implementations", "backwardCone"}, main, {main}) \cup
  Ask({"hover", "inactiveRegions"}, hdr, {hdr}) \cup
  Ask({"diagnostics"}, main, {main, oth})
MCSymbol == {<<main, X>>, <<pkg, X>>}
MCCursor == {<<pkg, any>>, <<main, short>>}
MCTop == {TOP, OTH, None}

HeaderWorkspaces == {[Whole EXCEPT ![main] = TopReads, ![hdr] = HdrName]}

-----------------------------------------------------------------------------
(* What is answered from the design graph index of a snapshot; the designs are *)
(* those of MCDesignGraph.                                                     *)

\* A cone that is answered, and kept, names every symbol that a bit of those asked
\* for is made of or decided by, and no other, whatever design it is asked of; it
\* says so when a driver could not be read, and when it was cut
\* (SemanticEngine::backwardConeAt, AstIndex.cpp, DesignGraphProvider.cpp).
ConesAreWhole == Kept({"backwardCone"}) # {} => EveryConeIsWhole

\* A schematic that is answered, and kept, draws as drivers of a net what the cone of
\* the net's symbol names, through assignments, gates and instances
\* (SemanticEngine::schematic, buildSchematicNets).
SchematicsAgreeWithCones == Kept({"schematic"}) # {} => EverySchematicAgrees

\* A hierarchy that is answered, and kept, is what unfolding the instances gives, with
\* the cycles and the limit marked, and its children are the calls that are asked for
\* at their place (SemanticEngine::moduleHierarchy, incomingCalls, outgoingCalls).
CallsAgreeWithHierarchies == Kept({"moduleHierarchy"}) # {} => EveryHierarchyAgrees
=============================================================================
