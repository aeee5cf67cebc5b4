---------------------------- MODULE SemanticEngine ----------------------------
(***************************************************************************)
(* The semantic engine: the documents of a workspace, the snapshots        *)
(* compiled from all or some of them, and the answers to queries, each     *)
(* kept until something changes.                                           *)
(* Sources: src/analysis/SemanticEngine.cpp,                               *)
(* src/analysis/semantic/SemanticSnapshotCache.cpp, QueryCache.cpp.        *)
(*                                                                         *)
(* The engine is used by one thread at a time, so a query is one step.  A  *)
(* compilation may be cancelled or fail, and then the query throws.        *)
(* WorkspaceDiscovery says which documents a query compiles and what a     *)
(* compilation finds in them.  Hashes (cache keys, fingerprints, snapshot  *)
(* identities) are taken to be as good as what is hashed.                  *)
(***************************************************************************)
EXTENDS WorkspaceDiscovery

CONSTANTS Text,           \* the documents with the contents they may get
          Workspaces,     \* what is there before the first query
          Config,         \* configurations: [tops, dirs], dirs the documents
                          \* in the directories that are indexed
          Request,        \* what is asked of documents: [kind, uri, roots]
          Symbol,         \* the names that references are asked for, and where
          Cursor,         \* the prefixes that completion is asked for, and where
          Top,            \* the tops that hierarchies are asked for, None for none
          SnapshotLimit,  \* the snapshots kept: 4
          QueryLimit,     \* max_entries_per_query_
          Unavailable,    \* what is answered without a snapshot
          MaxKept,        \* bound on the kinds of answers kept at a time
          MaxGeneration   \* bound on the changes

ASSUME EngineAssumption ==
  /\ \A t \in Text : t[1] \in Document /\ t[2] \in Content
  /\ \A docs \in Workspaces : IsWorkspace(docs)
  /\ Config \subseteq [tops : SUBSET Name, dirs : SUBSET Document]
  /\ Request \subseteq [kind : STRING, uri : Document, roots : SUBSET Document]
  /\ \A r \in Request : r.uri \in r.roots
  /\ Symbol \subseteq Document \X Name /\ Cursor \subseteq Document \X Prefix
  /\ Top \subseteq Name \cup {None}
  /\ SnapshotLimit \in Nat \ {0} /\ QueryLimit \in Nat /\ MaxKept \in Nat /\ MaxGeneration \in Nat

VARIABLES
  documents,    \* documents_
  config,       \* config_
  generation,   \* generation_
  discovery,    \* discovery_snapshot_cache_ with its key, or None
  snapshots,    \* [cache, full, dirty]: semantic_snapshot_cache_ in order of
                \* last use, snapshot_ with snapshot_data_, snapshot_dirty_
  query_cache,  \* query_cache_: the answers of each kind, the latest stored last
  item          \* history: the last completion item: the identity of its
                \* snapshot, its documents, and up to SnapshotLimit others that
                \* were used since, until a change; or None

vars == <<documents, config, generation, discovery, snapshots, query_cache, item>>

\* What is asked of a document and answered from the snapshot that is chosen for
\* it, or from the snapshot of all documents.
DocumentKind ==
  {"diagnostics", "definitions", "typeDefinitions", "documentHighlights", "hover",
   "prepareRename", "signatureHelp", "inlayHints", "codeActions"}

WorkspaceKind == {"implementations", "backwardCone"}

Kind ==
  DocumentKind \cup WorkspaceKind \cup
  {"references", "rename", "completions", "moduleHierarchy", "schematic", "workspaceSymbols"}

NoAnswers == [kind \in Kind |-> <<>>]

\* Where the program is before the first query: configured, and told of the
\* documents that were found.
Init ==
  /\ documents \in Workspaces /\ config \in Config /\ generation = 0
  /\ discovery = None
  /\ snapshots = [cache |-> <<>>, full |-> None, dirty |-> TRUE]
  /\ query_cache = NoAnswers
  /\ item = None

-----------------------------------------------------------------------------
(* Changes *)

\* What is used after a change says nothing of an item from before it.
Outdate == item' = IF item = None THEN None ELSE [item EXCEPT !.others = {}]

\* Bug: the snapshots of parts of the workspace outlive a change.
InvalidateFull ==
  /\ generation < MaxGeneration /\ generation' = generation + 1
  /\ discovery' = None /\ query_cache' = NoAnswers
  /\ snapshots' = [snapshots EXCEPT !.dirty = TRUE]
  /\ Outdate

\* Every change drops all that was computed.
Invalidate ==
  /\ generation < MaxGeneration /\ generation' = generation + 1
  /\ discovery' = None /\ query_cache' = NoAnswers
  /\ snapshots' = [cache |-> <<>>, full |-> snapshots.full, dirty |-> TRUE]
  /\ Outdate

Clear ==
  /\ generation < MaxGeneration /\ generation' = generation + 1
  /\ documents' = [d \in {} |-> None]
  /\ config' = [tops |-> {}, dirs |-> Document]
  /\ discovery' = None /\ query_cache' = NoAnswers
  /\ snapshots' = [cache |-> <<>>, full |-> None, dirty |-> TRUE]
  /\ Outdate

SetWorkspaceRoot == Invalidate /\ UNCHANGED <<documents, config>>

Configure(c) == Invalidate /\ config' = c /\ UNCHANGED documents

UpdateDocument(uri, content) ==
  /\ Invalidate
  /\ documents' = [d \in DOMAIN documents \cup {uri} |-> IF d = uri THEN content ELSE documents[d]]
  /\ UNCHANGED config

RemoveDocument(uri) ==
  /\ Invalidate
  /\ documents' = Only(documents, DOMAIN documents \ {uri})
  /\ UNCHANGED config

-----------------------------------------------------------------------------
(* Snapshots *)

\* The configuration's index says which documents are scanned.
Indexed == Only(documents, config.dirs)

\* workspaceDiscoveryView: the index that is kept if its key is the present one.
DiscoveryKey == <<generation, config, documents>>

Index == IF discovery # None /\ discovery.key = DiscoveryKey THEN discovery.index ELSE Indexed

ViewDiscovery == discovery' = [key |-> DiscoveryKey, index |-> Index]

Identity(scope, roots, uris, seed) ==
  [scope |-> scope, generation |-> generation, roots |-> roots, uris |-> uris, seed |-> seed]

\* A sequence in which e is the latest, instead of what is at the positions.
Renewed(s, positions, e) ==
  Append(IF positions = {} THEN s ELSE RemoveAt(s, CHOOSE i \in positions : TRUE), e)

\* SemanticSnapshotCache::find with its update of last_used; and insert.
Unmoved(cache, entry) == cache  \* Bug: a use does not count.

Touch(cache, entry) == Renewed(cache, {i \in DOMAIN cache : cache[i] = entry}, entry)

Insert(cache, entry) == Append(IF Len(cache) >= SnapshotLimit THEN Tail(cache) ELSE cache, entry)

\* snapshot: the one of all documents, rebuilt if anything changed.
FullSelection(s) ==
  LET current == s.full # None /\ ~s.dirty
      full    == IF current THEN s.full
                 ELSE [identity |-> Identity("full", {}, DOMAIN documents, <<>>), docs |-> documents]
  IN [entry |-> full, built |-> ~current, after |-> [cache |-> s.cache, full |-> full, dirty |-> FALSE]]

\* The snapshot of a plan's documents: one that is kept, or built and kept.
ClosureSelection(s, identity) ==
  LET kept  == {e \in Range(s.cache) : e.identity = identity}
      entry == IF kept # {} THEN CHOOSE e \in kept : TRUE
               ELSE [identity |-> identity, docs |-> Only(documents, identity.uris)]
  IN [entry |-> entry, built |-> kept = {},
      after |-> [s EXCEPT !.cache = IF kept # {} THEN Touch(@, entry) ELSE Insert(@, entry)]]

\* The plan for a document needs every document, or one that is not there.
SnapshotForDocument(s, roots) ==
  LET plan == PlanDocumentClosure(Index, roots, config.tops)
  IN IF /\ plan.complete /\ plan.uris \subseteq DOMAIN documents
        /\ Cardinality(plan.uris) < Cardinality(DOMAIN documents)
     THEN ClosureSelection(s, Identity("closure", roots, plan.uris, <<>>))
     ELSE FullSelection(s)

\* The same with the documents a completion may need.
SnapshotForCompletion(s, uri, prefix) ==
  LET plan == PlanWorkspaceCompletionClosure(Index, {uri}, config.tops, prefix)
  IN IF plan.complete /\ plan.uris \subseteq DOMAIN documents
     THEN ClosureSelection(s, Identity("workspaceCompletion", {uri}, plan.uris,
                                       <<prefix, plan.added, plan.incomplete>>))
     ELSE FullSelection(s)

\* snapshotForReferenceQuery, once a base snapshot told the target: if the
\* snapshot that is built for it does not know the target, the full one.
SnapshotForReferences(s, uri, name, declaration_uri) ==
  LET plan     == PlanReferenceCandidateClosure(Index, {uri}, config.tops, name, declaration_uri)
      selected == ClosureSelection(s, Identity("referenceClosure", {uri}, plan.uris,
                                               <<name, declaration_uri>>))
      known    == <<name, declaration_uri>> \in DocumentFacts(selected.entry.docs, uri)
  IN IF plan.requires_full \/ ~(plan.uris \subseteq DOMAIN documents) THEN FullSelection(s)
     ELSE IF selected.built /\ ~known THEN FullSelection(selected.after)
     ELSE selected

-----------------------------------------------------------------------------
(* Queries *)

Cached(kind, query, g) ==
  {e \in Range(query_cache[kind]) : e.query = query /\ e.generation = g}

\* The answers stored are replaced by their key and evicted by their age, those
\* of diagnostics never.
Stored(cache, kind, entry) ==
  LET kept == cache[kind]
      all  == Renewed(kept, {i \in DOMAIN kept : kept[i].query = entry.query}, entry)
  IN [cache EXCEPT ![kind] =
        IF kind # "diagnostics" /\ Len(all) > QueryLimit THEN Tail(all) ELSE all]

Entry(query, g, facts, incomplete) ==
  [query |-> query, generation |-> g, facts |-> facts, incomplete |-> incomplete]

Room(kinds) == Cardinality({k \in Kind \ kinds : query_cache[k] # <<>>}) < MaxKept

\* The answer that is kept for a query, or else one that is computed and kept.
Answer(kind, query, g, facts, incomplete) ==
  IF Cached(kind, query, g) # {} THEN UNCHANGED query_cache
  ELSE Room({kind}) /\ query_cache' = Stored(query_cache, kind, Entry(query, g, facts, incomplete))

\* The history of an item: which others were used since it was offered.
Use(identities) ==
  item' = IF \/ item = None
             \/ item.identity.generation # generation
             \/ Cardinality(item.others) >= SnapshotLimit THEN item
          ELSE [item EXCEPT !.others = (@ \cup identities) \ {item.identity}]

Ready == ViewDiscovery /\ UNCHANGED <<documents, config, generation>>

\* What a snapshot tells of a document.
FactsOf(docs, uri) == IF uri \in DOMAIN docs THEN DocumentFacts(docs, uri) ELSE {}

\* A question about a document.  A request may carry other roots than the
\* document: the background worker asks with all open documents.
DocumentQuery(kind, uri, roots) ==
  LET selected == SnapshotForDocument(snapshots, roots)
  IN /\ Ready
     /\ snapshots' = selected.after
     /\ Answer(kind, <<uri>>, selected.entry.identity.generation,
               FactsOf(selected.entry.docs, uri), FALSE)
     /\ Use({selected.entry.identity})

DiagnosticsFor(uri, roots) == DocumentQuery("diagnostics", uri, roots)
DefinitionsAt(uri, roots) == DocumentQuery("definitions", uri, roots)
TypeDefinitionsAt(uri, roots) == DocumentQuery("typeDefinitions", uri, roots)
DocumentHighlightsAt(uri, roots) == DocumentQuery("documentHighlights", uri, roots)
HoverAt(uri, roots) == DocumentQuery("hover", uri, roots)
PrepareRenameAt(uri, roots) == DocumentQuery("prepareRename", uri, roots)
SignatureHelpAt(uri, roots) == DocumentQuery("signatureHelp", uri, roots)
InlayHints(uri, roots) == DocumentQuery("inlayHints", uri, roots)

\* The actions are computed from the diagnostics, which are kept as well.
CodeActionsAt(uri, roots) ==
  LET selected == SnapshotForDocument(snapshots, roots)
      g        == selected.entry.identity.generation
      entry    == Entry(<<uri>>, g, FactsOf(selected.entry.docs, uri), FALSE)
      told     == IF Cached("diagnostics", <<uri>>, g) # {} THEN query_cache
                  ELSE Stored(query_cache, "diagnostics", entry)
  IN /\ Ready
     /\ snapshots' = selected.after
     /\ IF Cached("codeActions", <<uri>>, g) # {} THEN UNCHANGED query_cache
        ELSE Room({"codeActions", "diagnostics"}) /\ query_cache' = Stored(told, "codeActions", entry)
     /\ Use({selected.entry.identity})

\* semanticTokens, selectionRangesAt and inactiveRegions keep the snapshot only.
UnkeptDocumentQuery(uri, roots) ==
  LET selected == SnapshotForDocument(snapshots, roots)
  IN /\ Ready
     /\ snapshots' = selected.after
     /\ Use({selected.entry.identity})
     /\ UNCHANGED query_cache

SemanticTokens(uri, roots) == UnkeptDocumentQuery(uri, roots)
SelectionRangesAt(uri, roots) == UnkeptDocumentQuery(uri, roots)
InactiveRegions(uri, roots) == UnkeptDocumentQuery(uri, roots)

\* What is answered from the snapshot of all documents.
WorkspaceQuery ==
  LET selected == FullSelection(snapshots)
  IN /\ snapshots' = selected.after
     /\ Use({selected.entry.identity})
     /\ UNCHANGED <<documents, config, generation, discovery>>

WorkspaceSymbols ==
  LET entry == FullSelection(snapshots).entry
  IN /\ WorkspaceQuery
     /\ Answer("workspaceSymbols", <<>>, entry.identity.generation,
               UNION {{<<n, d>> : n \in VisibleNames(entry.docs[d])} : d \in DOMAIN entry.docs}, FALSE)

PlaceQuery(kind, uri) ==
  LET entry == FullSelection(snapshots).entry
  IN /\ WorkspaceQuery
     /\ Answer(kind, <<uri>>, entry.identity.generation, FactsOf(entry.docs, uri), FALSE)

ImplementationsAt(uri) == PlaceQuery("implementations", uri)

\* A cone is kept even where there is no signal.
BackwardConeAt(uri) == PlaceQuery("backwardCone", uri)

\* lookupAt; prepareCallHierarchy, incomingCalls, outgoingCalls.
LookupAt == WorkspaceQuery /\ UNCHANGED query_cache
CallHierarchy == WorkspaceQuery /\ UNCHANGED query_cache

\* The declarations that a name in a document may mean.
Targets(docs, uri, name) ==
  IF uri \in DOMAIN docs THEN {f[2] : f \in {g \in DocumentFacts(docs, uri) : g[1] = name}} ELSE {}

\* What is asked of all references to a declaration.
ReferenceQuery(kind, uri, name) ==
  LET base    == SnapshotForDocument(snapshots, {uri})
      targets == Targets(base.entry.docs, uri, name)
  IN \/ /\ targets = {}
        /\ Ready /\ snapshots' = base.after
        /\ Answer(kind, <<uri, name, None, base.entry.identity>>,
                  base.entry.identity.generation, {}, FALSE)
        /\ Use({base.entry.identity})
     \/ \E e \in targets :
          LET selected == SnapshotForReferences(base.after, uri, name, e)
          IN /\ Ready /\ snapshots' = selected.after
             /\ Answer(kind, <<uri, name, e, selected.entry.identity>>,
                       selected.entry.identity.generation,
                       ReferenceFacts(selected.entry.docs, name, e), FALSE)
             /\ Use({base.entry.identity, selected.entry.identity})

ReferencesAt(uri, name) == ReferenceQuery("references", uri, name)

\* renameAt, to some new name: every reference is an edit.
RenameAt(uri, name) == ReferenceQuery("rename", uri, name)

\* completionsAt: every item carries the identity of its snapshot.
CompletionsAt(uri, prefix) ==
  LET selected == SnapshotForCompletion(snapshots, uri, prefix)
      identity == selected.entry.identity
  IN /\ Ready /\ snapshots' = selected.after
     /\ Answer("completions", <<uri, prefix, identity>>, identity.generation,
               Candidates(selected.entry.docs, prefix),
               identity.scope # "full" /\ identity.seed[3])
     /\ item' = [identity |-> identity, docs |-> selected.entry.docs, others |-> {}]

\* resolveCompletion: the item's snapshot is looked for, never built.
Resolution ==
  {e \in Range(snapshots.cache) \cup (IF snapshots.dirty THEN {} ELSE {snapshots.full}) :
     e.identity = item.identity}

ResolveCompletion ==
  /\ item # None
  /\ snapshots' = [snapshots EXCEPT !.cache =
       IF Resolution \cap Range(@) = {} THEN @
       ELSE Touch(@, CHOOSE e \in Resolution \cap Range(@) : TRUE)]
  /\ UNCHANGED <<documents, config, generation, discovery, query_cache, item>>

\* The snapshot of a design's documents is built for one answer; what is answered
\* when that fails is an answer as well.
ClosureDesignGraph(top) ==
  LET closure == ClosureDocumentUris(Index, top) \cap DOMAIN documents
  IN IF closure = {} \/ Cardinality(closure) >= Cardinality(DOMAIN documents) THEN {}
     ELSE {HierarchyFacts(Only(documents, closure), top), Unavailable}

\* Without a named top a hierarchy is that of all roots, a schematic that of one.
Shown(kind, requested, docs) ==
  LET roots == HierarchyRoots(docs, config.tops)
  IN IF requested # None THEN {{requested}}
     ELSE IF kind = "moduleHierarchy" \/ roots = {} THEN {roots}
     ELSE {{t} : t \in roots}

\* The answer that is kept is looked for first.
HierarchyQuery(kind, requested) ==
  LET graphs   == ClosureDesignGraph(InferredTop(requested, config.tops, Index))
      hit      == Cached(kind, <<requested>>, generation) # {}
      selected == FullSelection(snapshots)
      docs     == selected.entry.docs
  IN /\ Ready
     /\ IF hit THEN UNCHANGED <<query_cache, snapshots, item>>
        ELSE IF graphs # {}
        THEN /\ \E facts \in graphs : Answer(kind, <<requested>>, generation, facts, FALSE)
             /\ UNCHANGED <<snapshots, item>>
        ELSE /\ \E tops \in Shown(kind, requested, docs) :
                  Answer(kind, <<requested>>, selected.entry.identity.generation,
                         UNION {HierarchyFacts(docs, t) : t \in tops}, FALSE)
             /\ snapshots' = selected.after /\ Use({selected.entry.identity})

ModuleHierarchy(requested) == HierarchyQuery("moduleHierarchy", requested)
Schematic(requested) == HierarchyQuery("schematic", requested)

\* A compilation is cancelled or fails, the query throws: the discovery is kept,
\* and of two compilations the first.
Interrupt(uri) ==
  LET base == SnapshotForDocument(snapshots, {uri})
  IN /\ Ready
     /\ \/ (base.built \/ FullSelection(snapshots).built) /\ UNCHANGED <<snapshots, item>>
        \/ /\ \E s \in Symbol : s[1] = uri /\
                \E e \in Targets(base.entry.docs, uri, s[2]) :
                  SnapshotForReferences(base.after, uri, s[2], e).built
           /\ snapshots' = base.after /\ Use({base.entry.identity})
     /\ UNCHANGED query_cache

Asked(kind) == {r \in Request : r.kind = kind}

Next ==
  \/ Clear \/ SetWorkspaceRoot
  \/ \E c \in Config : Configure(c)
  \/ \E t \in Text : UpdateDocument(t[1], t[2])
  \/ \E u \in DOMAIN documents : RemoveDocument(u)
  \/ \E r \in Asked("diagnostics") : DiagnosticsFor(r.uri, r.roots)
  \/ \E r \in Asked("definitions") : DefinitionsAt(r.uri, r.roots)
  \/ \E r \in Asked("typeDefinitions") : TypeDefinitionsAt(r.uri, r.roots)
  \/ \E r \in Asked("documentHighlights") : DocumentHighlightsAt(r.uri, r.roots)
  \/ \E r \in Asked("hover") : HoverAt(r.uri, r.roots)
  \/ \E r \in Asked("prepareRename") : PrepareRenameAt(r.uri, r.roots)
  \/ \E r \in Asked("signatureHelp") : SignatureHelpAt(r.uri, r.roots)
  \/ \E r \in Asked("inlayHints") : InlayHints(r.uri, r.roots)
  \/ \E r \in Asked("codeActions") : CodeActionsAt(r.uri, r.roots)
  \/ \E r \in Asked("semanticTokens") : SemanticTokens(r.uri, r.roots)
  \/ \E r \in Asked("selectionRanges") : SelectionRangesAt(r.uri, r.roots)
  \/ \E r \in Asked("inactiveRegions") : InactiveRegions(r.uri, r.roots)
  \/ \E r \in Asked("implementations") : ImplementationsAt(r.uri)
  \/ \E r \in Asked("backwardCone") : BackwardConeAt(r.uri)
  \/ WorkspaceSymbols \/ LookupAt \/ CallHierarchy
  \/ \E s \in Symbol : ReferencesAt(s[1], s[2]) \/ RenameAt(s[1], s[2])
  \/ \E c \in Cursor : CompletionsAt(c[1], c[2])
  \/ ResolveCompletion
  \/ \E t \in Top : ModuleHierarchy(t) \/ Schematic(t)
  \/ \E r \in Request : Interrupt(r.uri)

Spec == Init /\ [][Next]_vars
-----------------------------------------------------------------------------
(* Properties *)

Identities ==
  [scope : {"full", "closure", "workspaceCompletion", "referenceClosure"},
   generation : 0..MaxGeneration, roots : SUBSET Document, uris : SUBSET Document,
   seed : {<<>>} \cup (Prefix \X Nat \X BOOLEAN) \cup (Name \X Document)]

\* All that the engine keeps was computed from the present documents: no change
\* leaves a snapshot, an index or an answer of older ones behind, whatever was
\* interrupted, and no kept snapshot is there twice or beyond the limit.
KeptIsCurrent ==
  /\ discovery # None => discovery.index = Indexed
  /\ ~snapshots.dirty => snapshots.full.docs = documents
  /\ \A e \in Range(snapshots.cache) :
       e.identity.generation = generation /\ e.docs = Only(documents, e.identity.uris)
  /\ Len(snapshots.cache) <= SnapshotLimit
  /\ \A i, j \in DOMAIN snapshots.cache :
       snapshots.cache[i].identity = snapshots.cache[j].identity => i = j
  /\ \A kind \in Kind : \A e \in Range(query_cache[kind]) : e.generation = generation

\* An answer says what a compilation of everything that is indexed would say,
\* and nothing that a compilation of everything would not.
Between(facts, partial, whole) == partial \subseteq facts /\ facts \subseteq whole

AtMostOne(set) == \A x, y \in set : x = y

Kept(kinds) == UNION {Range(query_cache[kind]) : kind \in kinds}

\* What is included elsewhere is asked for alone: then only part may be known.
DocumentIsWhole(a, docs, index) ==
  LET u == a.query[1]
  IN /\ a.facts \subseteq FactsOf(docs, u)
     /\ ~(u \in DOMAIN docs /\ Included(docs, u)) => FactsOf(index, u) \subseteq a.facts

\* Definitions, hovers, diagnostics and the like, computed from a few documents
\* and kept, are those of the whole workspace.
DocumentAnswersAreWhole ==
  \A a \in Kept(DocumentKind \cup WorkspaceKind) : DocumentIsWhole(a, documents, Indexed)

ReferenceIsWhole(a, docs, index) ==
  LET name == a.query[2]
      e    == a.query[3]
  IN e # None => Between(a.facts, ReferenceFacts(index, name, e), ReferenceFacts(docs, name, e))

\* The references to a declaration, and the edits that rename it, that are
\* answered from the documents that were planned for it are those of the whole
\* workspace.
ReferencesAreWhole ==
  \A a \in Kept({"references", "rename"}) : ReferenceIsWhole(a, documents, Indexed)

\* The same where what is included holds the definitions of macros only.
ReferencesAreWholeIfHeadersDefine == HeadersOnlyDefine(documents) => ReferencesAreWhole

HierarchyIsWhole(a, docs, index) ==
  LET top == a.query[1]
  IN top # None /\ a.facts # Unavailable =>
       Between(a.facts, HierarchyFacts(index, top), HierarchyFacts(docs, top))

\* Where nothing is excluded from the index and at most one top is configured, an
\* answer without a named top is what is below some of the roots, and all of it
\* for one of them.
RootsAreWhole(a, docs, tops) ==
  LET roots == HierarchyRoots(docs, tops)
  IN a.query[1] = None /\ a.facts # Unavailable =>
       /\ a.facts \subseteq UNION {HierarchyFacts(docs, t) : t \in roots}
       /\ roots # {} => \E t \in roots : HierarchyFacts(docs, t) \subseteq a.facts

\* The instances below a top, found in the documents that it depends on, are
\* those of the whole workspace, whether the top was named or inferred.
HierarchiesAreWhole ==
  \A a \in Kept({"moduleHierarchy", "schematic"}) :
    /\ HierarchyIsWhole(a, documents, Indexed)
    /\ Indexed = documents /\ AtMostOne(config.tops) => RootsAreWhole(a, documents, config.tops)

CompletionSaysSo(a, docs, index) ==
  /\ a.facts \subseteq Candidates(docs, a.query[2])
  /\ Candidates(index, a.query[2]) \subseteq a.facts \/ a.incomplete

\* A list of completions that lacks a declaration of the workspace says that it
\* is incomplete, so that the editor asks again.
CompletionsSaySo ==
  \A a \in Kept({"completions"}) : CompletionSaysSo(a, documents, Indexed)

\* A completion item is resolved in the very snapshot that offered it, never in
\* one from before a change, and it can be resolved while fewer snapshots than
\* are kept were used since.
ResolvedWhereOffered ==
  item # None =>
    /\ \A e \in Resolution : e.docs = item.docs /\ item.identity.generation = generation
    /\ item.identity.generation = generation /\ Cardinality(item.others) < SnapshotLimit =>
         Resolution # {}

=============================================================================
