-------------------------- MODULE WorkspaceDiscovery --------------------------
(***************************************************************************)
(* What the semantic engine knows of a workspace before it compiles        *)
(* anything (the discovery index), and the sets of documents it plans to   *)
(* compile for a query instead of all of them.                             *)
(* Sources: src/analysis/semantic/WorkspaceDiscoveryIndex.cpp,             *)
(* src/analysis/semantic/DocumentClosurePlanner.cpp.                       *)
(*                                                                         *)
(* A workspace is a function from finitely many documents to contents.  A  *)
(* content is what the scan of a text tells: the design unit it declares   *)
(* (key) and the members of it that others may name, the identifiers that  *)
(* occur outside macro bodies (text), the names of instances, imports and  *)
(* exports (uses), the includes, the macros defined and invoked, and       *)
(* the identifiers that only a compilation sees (hidden: escaped ones, and *)
(* those that macros paste together), of which the scan knows only whether *)
(* there may be any.  The identifiers of a macro's body are a constant.    *)
(*                                                                         *)
(* The last part is what a compilation of some documents makes of them     *)
(* (slang and src/analysis/semantic/AstIndex.cpp), as far as the choice of *)
(* documents matters: which occurrence of a name means which declaration.  *)
(***************************************************************************)
EXTENDS Naturals, FiniteSets, Sequences, SequencesExt

CONSTANTS Document,        \* document URIs
          Name,            \* identifiers other than macro names
          Design,          \* the names of modules and interfaces
          Macro,           \* macro names
          Body,            \* the identifiers in the body of each macro
          Prefix,          \* what completion is asked for
          Matches,         \* the names that begin with a prefix
          CandidateLimit,  \* kShort- or kLongWorkspaceCompletionCandidateLimit
          DocumentLimit,   \* kWorkspaceCompletionAdditionalDocumentLimit
          None             \* no name

ASSUME DiscoveryAssumption ==
  /\ Body \in [Macro -> SUBSET (Name \cup Macro)]
  /\ Design \subseteq Name /\ Name \cap Macro = {} /\ None \notin Name \cup Macro
  /\ Matches \in [Prefix -> SUBSET Name]
  /\ CandidateLimit \in [Prefix -> Nat] /\ DocumentLimit \in Nat

\* A declaration is itself an occurrence of the name, and so is an instance or
\* an import.
Content ==
  {c \in [key : Name \cup {None}, members : SUBSET Name, text : SUBSET Name,
          uses : SUBSET Name, includes : SUBSET Document, defines : SUBSET Macro,
          invokes : SUBSET Macro, hidden : SUBSET Name, complete : BOOLEAN] :
     /\ c.members \cup c.uses \cup ({c.key} \ {None}) \subseteq c.text
     /\ c.complete => c.hidden = {}}

IsWorkspace(docs) ==
  /\ DOMAIN docs \subseteq Document /\ IsFiniteSet(DOMAIN docs)
  /\ docs = [d \in DOMAIN docs |-> docs[d]]
  /\ \A d \in DOMAIN docs : docs[d] \in Content

Only(docs, uris) == [d \in DOMAIN docs \cap uris |-> docs[d]]

-----------------------------------------------------------------------------
\* Where a worklist ends that starts with roots and adds next[x] for every x.
Reachable(next, roots) ==
  LET closed == {S \in SUBSET DOMAIN next :
                   roots \subseteq S /\ \A y \in S : next[y] \subseteq S}
  IN {x \in DOMAIN next : \A S \in closed : x \in S}

\* The identifiers of a text, those of its macro bodies and the names it
\* declares included; and the names under which others find its document.
Referenced(c) ==
  c.text \cup c.invokes \cup c.defines \cup UNION {Body[m] : m \in c.defines}

VisibleNames(c) == {c.key} \cup c.members \cup c.defines

\* Bug: only what is included is needed.
IncludesOnly(index) == [d \in DOMAIN index |-> index[d].includes \cap DOMAIN index]

\* What the worklist of discoveryDocumentClosure adds for a document.
Dependencies(index) ==
  [d \in DOMAIN index |->
     (index[d].includes \cap DOMAIN index) \cup
     {e \in DOMAIN index : VisibleNames(index[e]) \cap Referenced(index[d]) # {}}]

DiscoveryDocumentClosure(index, root) ==
  IF root \notin DOMAIN index
  THEN [uris |-> {}, complete |-> FALSE]
  ELSE LET uris == Reachable(Dependencies(index), {root})
       IN [uris |-> uris,
           complete |-> \A d \in uris : /\ index[d].complete
                                        /\ index[d].includes \subseteq DOMAIN index]

\* Bug: a file that is included is not in it.
Instantiated(index, top) ==
  Reachable([d \in DOMAIN index |-> {e \in DOMAIN index : index[e].key \in index[d].uses}],
            {d \in DOMAIN index : index[d].key = top})

\* The documents of a design: from the files that declare the top along
\* instances, imports, exports and includes.  An included file that is not
\* indexed is in it.
DesignDependencies(index) ==
  [d \in DOMAIN index |->
     (index[d].includes \cap DOMAIN index) \cup
     {e \in DOMAIN index : index[e].key \in index[d].uses}]

DiscoveryDependencyClosure(index, top) ==
  LET uris == Reachable(DesignDependencies(index),
                        {d \in DOMAIN index : index[d].key = top})
  IN uris \cup UNION {index[d].includes : d \in uris}

\* The designs that are declared; a top may be each that nothing names, or else
\* every one.
Designs(docs) == {docs[d].key : d \in DOMAIN docs} \cap Design

Unnamed(declared, named) == IF declared \subseteq named THEN declared ELSE declared \ named

TopCandidates(index) == Unnamed(Designs(index), UNION {index[d].uses : d \in DOMAIN index})

\* The top that is asked for, or the only one that is configured, or the only
\* candidate.
InferredTop(requested, tops, index) ==
  LET only(set) == IF \E t \in set : set = {t} THEN CHOOSE t \in set : TRUE ELSE None
  IN IF requested # None THEN requested
     ELSE IF only(tops) # None THEN only(tops)
     ELSE only(TopCandidates(index))

\* Only what depends on a design is kept.
ClosureDocumentUris(index, top) ==
  IF top \in Designs(index) THEN DiscoveryDependencyClosure(index, top) ELSE {}

-----------------------------------------------------------------------------
\* planDocumentClosure: the closures of the roots and of the configured tops.
PlanDocumentClosure(index, roots, tops) ==
  LET closures == {DiscoveryDocumentClosure(index, r) : r \in roots}
      designs  == {ClosureDocumentUris(index, t) : t \in tops}
      uris     == (UNION {c.uris : c \in closures}) \cup UNION designs
  IN [uris |-> uris,
      complete |-> uris # {} /\ {} \notin designs /\ \A c \in closures : c.complete]

\* The workspace's declarations a completion may offer, with their documents.
Candidates(docs, prefix) ==
  {<<docs[d].key, d>> : d \in {e \in DOMAIN docs : docs[e].key \in Matches[prefix]}}

\* Bug: a candidate that is left out does not make the plan incomplete.
Unmentioned(plan, index, uri) == plan

\* planWorkspaceCompletionClosure: as many candidates as the limit allows, in an
\* order of their own, each with its closure if that is complete and within the
\* limit of additional documents.
AddCandidate(plan, index, uri) ==
  LET closure   == DiscoveryDocumentClosure(index, uri)
      additions == closure.uris \ plan.uris
  IN IF closure.complete /\ plan.added + Cardinality(additions) <= DocumentLimit
     THEN [plan EXCEPT !.uris = @ \cup additions, !.added = @ + Cardinality(additions)]
     ELSE [plan EXCEPT !.incomplete = TRUE]

AddCandidates(plan, index, candidates) ==
  LET planned[k \in 0..Len(candidates)] ==
        IF k = 0 THEN plan ELSE AddCandidate(planned[k - 1], index, candidates[k][2])
  IN planned[Len(candidates)]

PlanWorkspaceCompletionClosure(index, roots, tops, prefix) ==
  LET base       == PlanDocumentClosure(index, roots, tops)
      candidates == SetToSeq(Candidates(index, prefix))
      limited    == Len(candidates) > CandidateLimit[prefix]
      planned    == IF limited THEN SubSeq(candidates, 1, CandidateLimit[prefix])
                    ELSE candidates
  IN IF ~base.complete
     THEN [uris |-> base.uris, complete |-> FALSE, incomplete |-> FALSE, added |-> 0]
     ELSE AddCandidates([uris |-> base.uris, complete |-> TRUE, incomplete |-> limited, added |-> 0],
                        index, planned)

\* The macros that put a name into the text where they are invoked.
RelevantMacros(index, name) ==
  LET defined == UNION {index[d].defines : d \in DOMAIN index}
  IN Reachable([m \in defined |-> {k \in defined : m \in Body[k]}],
               {m \in defined : name \in Body[m]})

\* Bug: an invocation of a macro with the name is not noticed.
Naming(index, name, declaration_uri) ==
  {declaration_uri} \cup {d \in DOMAIN index : name \in Referenced(index[d])}

\* The documents that may refer to a declaration: those where its name occurs,
\* those that define or invoke a macro with it, and that of the declaration.
ReferenceCandidates(index, name, declaration_uri) ==
  {declaration_uri} \cup
  {d \in DOMAIN index :
     \/ name \in Referenced(index[d])
     \/ RelevantMacros(index, name) \cap Referenced(index[d]) # {}}

\* planReferenceCandidateClosure.
PlanReferenceCandidateClosure(index, roots, tops, name, declaration_uri) ==
  LET base       == PlanDocumentClosure(index, roots, tops)
      candidates == ReferenceCandidates(index, name, declaration_uri)
      closures   == {DiscoveryDocumentClosure(index, d) : d \in candidates}
      uris       == base.uris \cup UNION {c.uris : c \in closures}
  IN [uris |-> uris,
      requires_full |->
        \/ ~base.complete
        \/ \E d \in DOMAIN index : ~index[d].complete
        \/ \E c \in closures : ~c.complete
        \/ Cardinality(uris) >= Cardinality(DOMAIN index)]

-----------------------------------------------------------------------------
\* A document is read together with what it includes.
Unit(docs, d) ==
  Reachable([e \in DOMAIN docs |-> docs[e].includes \cap DOMAIN docs], {d})

\* The macros that are expanded in a unit.
Expanded(docs, unit) ==
  LET defined == UNION {docs[d].defines : d \in unit}
  IN Reachable([m \in defined |-> Body[m] \cap defined],
               (UNION {docs[d].invokes : d \in unit}) \cap defined)

\* The occurrences of names in a unit, each where its text stands.
Occurrences(docs, unit) ==
  LET expanded == Expanded(docs, unit)
  IN {o \in unit \X Name :
        \/ o[2] \in docs[o[1]].text \cup docs[o[1]].hidden
        \/ \E m \in docs[o[1]].defines \cap expanded : o[2] \in Body[m]}

\* What they mean: a design unit is known everywhere, its members where its name
\* occurs.
UnitFacts(docs, unit, u) ==
  LET occurrences == Occurrences(docs, unit)
  IN {f \in Name \X DOMAIN docs :
        /\ <<u, f[1]>> \in occurrences
        /\ \/ f[1] = docs[f[2]].key
           \/ f[1] \in docs[f[2]].members /\ \E d \in unit : <<d, docs[f[2]].key>> \in occurrences}

\* The names that a compilation of docs finds in a document, each with where it
\* is declared.
DocumentFacts(docs, u) ==
  UNION {UnitFacts(docs, Unit(docs, d), u) : d \in DOMAIN docs}

\* The documents in which it finds a reference to a declaration.
ReferenceFacts(docs, name, e) ==
  {d \in DOMAIN docs : <<name, e>> \in DocumentFacts(docs, d)}

\* What is instantiated and imported below a top, as it finds it.
HierarchyFacts(docs, top) ==
  LET uses    == [d \in DOMAIN docs |-> UNION {docs[e].uses : e \in Unit(docs, d)}]
      below   == [d \in DOMAIN docs |-> {e \in DOMAIN docs : docs[e].key \in uses[d]}]
      modules == Reachable(below, {d \in DOMAIN docs : docs[d].key = top})
  IN {i \in modules \X modules : i[2] \in below[i[1]]}

\* The tops of a design: those that are configured, or else those that no module
\* instantiates.
HierarchyRoots(docs, tops) ==
  LET units == {Unit(docs, d) : d \in {e \in DOMAIN docs : docs[e].key \in Design}}
  IN IF tops # {} THEN tops
     ELSE Unnamed(Designs(docs), UNION {docs[d].uses : d \in UNION units})

\* Whether some other document is read with d in it, and whether what is read so
\* holds nothing but the definitions of macros.
Included(docs, d) == \E e \in DOMAIN docs \ {d} : d \in docs[e].includes

HeadersOnlyDefine(docs) ==
  \A d \in DOMAIN docs : Included(docs, d) => docs[d].text = {} /\ docs[d].invokes = {} /\ docs[d].complete
=============================================================================
