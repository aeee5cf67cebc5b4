------------------------- MODULE SemanticEngineProofs -------------------------
(***************************************************************************)
(* Proofs that what is found in the documents planned for a query is what  *)
(* is found in all of them, that what the semantic engine keeps is         *)
(* current, and that its answers are those of the whole workspace, for     *)
(* every workspace, every limit and any number of changes, queries and     *)
(* interruptions.                                                          *)
(***************************************************************************)
EXTENDS SemanticEngine, SequenceTheorems, FiniteSetTheorems, NaturalsInduction, TLAPS

-----------------------------------------------------------------------------
(* Reachability *)

\* What can be reached is in the domain, the roots are, and so is what follows.
LEMMA ReachableClosed ==
  ASSUME NEW next, NEW roots \in SUBSET DOMAIN next
  PROVE  /\ Reachable(next, roots) \subseteq DOMAIN next
         /\ roots \subseteq Reachable(next, roots)
         /\ \A y \in Reachable(next, roots) : \A z \in next[y] \cap DOMAIN next :
              z \in Reachable(next, roots)
BY DEF Reachable

\* If a set has the roots and is closed under one function, which is nowhere on
\* it above another, then what the first reaches the second reaches, and is in
\* the set.
LEMMA ReachableWithin ==
  ASSUME NEW next1, NEW roots1, NEW next2, NEW roots2, NEW within,
         within \subseteq DOMAIN next1, within \subseteq DOMAIN next2,
         roots1 \subseteq within, roots1 \subseteq roots2,
         \A y \in within : next1[y] \subseteq within /\ next1[y] \subseteq next2[y]
  PROVE  /\ Reachable(next1, roots1) \subseteq Reachable(next2, roots2)
         /\ Reachable(next1, roots1) \subseteq within
<1>1. Reachable(next1, roots1) \subseteq within
  BY DEF Reachable
<1>2. ASSUME NEW x \in Reachable(next1, roots1),
             NEW S \in SUBSET DOMAIN next2, roots2 \subseteq S,
             \A y \in S : next2[y] \subseteq S
      PROVE  x \in S
  <2>1. /\ S \cap within \in SUBSET DOMAIN next1
        /\ roots1 \subseteq S \cap within
        /\ \A y \in S \cap within : next1[y] \subseteq S \cap within
    BY <1>2
  <2> QED
    BY <2>1 DEF Reachable
<1>3. Reachable(next1, roots1) \subseteq DOMAIN next2
  BY <1>1
<1> QED
  BY <1>1, <1>2, <1>3 DEF Reachable

-----------------------------------------------------------------------------
(* Compilations that share documents *)

Share(docs1, docs2, within) ==
  /\ within \subseteq DOMAIN docs1 /\ within \subseteq DOMAIN docs2
  /\ \A d \in within : docs1[d] = docs2[d]

\* What the includes of a set stay in.
ClosedUnderIncludes(docs, within) ==
  \A d \in within : docs[d].includes \cap DOMAIN docs \subseteq within

\* Some of the documents share all of them.
LEMMA OnlyShares ==
  ASSUME NEW docs, NEW uris
  PROVE  /\ DOMAIN Only(docs, uris) = DOMAIN docs \cap uris
         /\ Share(Only(docs, uris), docs, DOMAIN docs \cap uris)
BY DEF Only, Share

\* A unit of one compilation is part of the unit of the other.
LEMMA UnitWithin ==
  ASSUME NEW docs1, NEW docs2, NEW within, NEW d \in within,
         Share(docs1, docs2, within), ClosedUnderIncludes(docs1, within)
  PROVE  /\ Unit(docs1, d) \subseteq Unit(docs2, d)
         /\ Unit(docs1, d) \subseteq within
         /\ d \in Unit(docs1, d)
<1> DEFINE next1 == [e \in DOMAIN docs1 |-> docs1[e].includes \cap DOMAIN docs1]
           next2 == [e \in DOMAIN docs2 |-> docs2[e].includes \cap DOMAIN docs2]
<1>1. /\ within \subseteq DOMAIN next1 /\ within \subseteq DOMAIN next2
      /\ {d} \subseteq within
  BY DEF Share
<1>2. \A y \in within : next1[y] \subseteq within /\ next1[y] \subseteq next2[y]
  BY <1>1 DEF Share, ClosedUnderIncludes
<1>3. {d} \in SUBSET DOMAIN next1
  BY <1>1
<1>4. Unit(docs1, d) = Reachable(next1, {d}) /\ Unit(docs2, d) = Reachable(next2, {d})
  BY DEF Unit
<1> HIDE DEF next1, next2
<1> QED
  BY <1>1, <1>2, <1>3, <1>4, ReachableWithin, ReachableClosed

\* What is expanded in a part of a unit is expanded in the unit.
LEMMA ExpandedWithin ==
  ASSUME NEW docs1, NEW docs2, NEW within, NEW unit1 \in SUBSET within, NEW unit2,
         unit1 \subseteq unit2, Share(docs1, docs2, within)
  PROVE  Expanded(docs1, unit1) \subseteq Expanded(docs2, unit2)
<1> DEFINE defined1 == UNION {docs1[d].defines : d \in unit1}
           defined2 == UNION {docs2[d].defines : d \in unit2}
           next1 == [m \in defined1 |-> Body[m] \cap defined1]
           next2 == [m \in defined2 |-> Body[m] \cap defined2]
           roots1 == (UNION {docs1[d].invokes : d \in unit1}) \cap defined1
           roots2 == (UNION {docs2[d].invokes : d \in unit2}) \cap defined2
<1>1. defined1 \subseteq defined2
  BY DEF Share
<1>2. UNION {docs1[d].invokes : d \in unit1} \subseteq UNION {docs2[d].invokes : d \in unit2}
  BY DEF Share
<1>3. roots1 \subseteq roots2
  BY <1>1, <1>2
<1>4. \A y \in defined1 : next1[y] \subseteq defined1 /\ next1[y] \subseteq next2[y]
  BY <1>1
<1>5. /\ defined1 \subseteq DOMAIN next1 /\ defined1 \subseteq DOMAIN next2
      /\ roots1 \subseteq defined1
  BY <1>1
<1>6. /\ Expanded(docs1, unit1) = Reachable(next1, roots1)
      /\ Expanded(docs2, unit2) = Reachable(next2, roots2)
  BY DEF Expanded
<1> HIDE DEF defined1, next1, next2, roots1, roots2
<1> QED
  BY <1>3, <1>4, <1>5, <1>6, ReachableWithin

\* And so are the occurrences.
LEMMA OccurrencesWithin ==
  ASSUME NEW docs1, NEW docs2, NEW within, NEW unit1 \in SUBSET within, NEW unit2,
         unit1 \subseteq unit2, Share(docs1, docs2, within)
  PROVE  Occurrences(docs1, unit1) \subseteq Occurrences(docs2, unit2)
<1>1. Expanded(docs1, unit1) \subseteq Expanded(docs2, unit2)
  BY ExpandedWithin
<1>2. \A o \in unit1 \X Name : o \in unit2 \X Name /\ docs1[o[1]] = docs2[o[1]]
  BY DEF Share
<1> QED
  BY <1>1, <1>2 DEF Occurrences

\* A name that is found to be declared in a document that both have is found so
\* in the larger unit.
LEMMA UnitFactsWithin ==
  ASSUME NEW docs1, NEW docs2, NEW within, NEW unit1 \in SUBSET within, NEW unit2,
         unit1 \subseteq unit2, Share(docs1, docs2, within), NEW u,
         NEW f \in UnitFacts(docs1, unit1, u), f[2] \in within
  PROVE  f \in UnitFacts(docs2, unit2, u)
<1>1. Occurrences(docs1, unit1) \subseteq Occurrences(docs2, unit2)
  BY OccurrencesWithin
<1>2. /\ f \in Name \X DOMAIN docs1
      /\ <<u, f[1]>> \in Occurrences(docs1, unit1)
      /\ \/ f[1] = docs1[f[2]].key
         \/ f[1] \in docs1[f[2]].members /\ \E d \in unit1 : <<d, docs1[f[2]].key>> \in Occurrences(docs1, unit1)
  BY DEF UnitFacts
<1>3. f \in Name \X DOMAIN docs2 /\ docs1[f[2]] = docs2[f[2]]
  BY <1>2 DEF Share
<1> QED
  BY <1>1, <1>2, <1>3 DEF UnitFacts

\* A compilation of some documents finds nothing that a compilation of all does
\* not find.
LEMMA FactsGrow ==
  ASSUME NEW docs, NEW uris, NEW u
  PROVE  DocumentFacts(Only(docs, uris), u) \subseteq DocumentFacts(docs, u)
<1> DEFINE some == Only(docs, uris)
<1>1. Share(some, docs, DOMAIN some) /\ DOMAIN some \subseteq DOMAIN docs
  BY OnlyShares
<1>2. ClosedUnderIncludes(some, DOMAIN some)
  BY DEF ClosedUnderIncludes
<1> HIDE DEF some
<1>3. ASSUME NEW d \in DOMAIN some, NEW f \in UnitFacts(some, Unit(some, d), u)
      PROVE  f \in UnitFacts(docs, Unit(docs, d), u)
  <2>1. Unit(some, d) \subseteq Unit(docs, d) /\ Unit(some, d) \subseteq DOMAIN some
    BY <1>1, <1>2, UnitWithin
  <2>2. f[2] \in DOMAIN some
    BY DEF UnitFacts
  <2> QED
    BY <1>1, <2>1, <2>2, UnitFactsWithin
<1>4. DocumentFacts(some, u) \subseteq DocumentFacts(docs, u)
  BY <1>1, <1>3 DEF DocumentFacts
<1> QED
  BY <1>4 DEF some

-----------------------------------------------------------------------------
(* The closure of a document *)

IsClosure(index, closure) ==
  /\ closure \subseteq DOMAIN index
  /\ \A d \in closure : /\ Dependencies(index)[d] \subseteq closure
                        /\ index[d].complete

LEMMA CompleteIsClosure ==
  ASSUME NEW index, NEW root, DiscoveryDocumentClosure(index, root).complete
  PROVE  /\ root \in DiscoveryDocumentClosure(index, root).uris
         /\ IsClosure(index, DiscoveryDocumentClosure(index, root).uris)
<1> DEFINE uris == Reachable(Dependencies(index), {root})
<1>1. root \in DOMAIN index
  BY DEF DiscoveryDocumentClosure
<1>2. /\ DiscoveryDocumentClosure(index, root).uris = uris
      /\ \A d \in uris : index[d].complete
  BY <1>1 DEF DiscoveryDocumentClosure
<1>3. /\ DOMAIN Dependencies(index) = DOMAIN index
      /\ \A d \in DOMAIN index : Dependencies(index)[d] \subseteq DOMAIN index
  BY DEF Dependencies
<1>4. /\ uris \subseteq DOMAIN index
      /\ {root} \subseteq uris
      /\ \A y \in uris : \A z \in Dependencies(index)[y] \cap DOMAIN index : z \in uris
  BY <1>1, <1>3, ReachableClosed
<1>5. \A y \in uris : Dependencies(index)[y] \subseteq uris
  BY <1>3, <1>4
<1> QED
  BY <1>2, <1>4, <1>5 DEF IsClosure

LEMMA ClosureHasIncludes ==
  ASSUME NEW index, NEW closure, IsClosure(index, closure)
  PROVE  ClosedUnderIncludes(index, closure)
BY DEF IsClosure, ClosedUnderIncludes, Dependencies

\* A name that occurs in a document of a closure is declared in the closure.
LEMMA ClosureDeclares ==
  ASSUME NEW index, IsWorkspace(index), NEW closure, IsClosure(index, closure),
         NEW unit \in SUBSET closure,
         NEW u, NEW name, <<u, name>> \in Occurrences(index, unit),
         NEW e \in DOMAIN index, name \in VisibleNames(index[e])
  PROVE  e \in closure
<1>1. u \in unit /\ name \in Name
  BY DEF Occurrences
<1>2. u \in closure /\ u \in DOMAIN index
  BY <1>1 DEF IsClosure
<1>3. index[u].hidden = {}
  BY <1>2 DEF IsClosure, IsWorkspace, Content
<1>4. name \in Referenced(index[u])
  BY <1>3 DEF Occurrences, Referenced
<1>5. e \in Dependencies(index)[u]
  BY <1>2, <1>4 DEF Dependencies
<1> QED
  BY <1>2, <1>5 DEF IsClosure

\* So what is found in a unit of the closure is found in the closure alone, and
\* by every compilation that has the closure.
LEMMA ClosureFinds ==
  ASSUME NEW index, IsWorkspace(index), NEW closure, IsClosure(index, closure),
         NEW docs, Share(index, docs, closure), NEW d \in closure,
         NEW u, NEW f \in UnitFacts(index, Unit(index, d), u)
  PROVE  d \in DOMAIN docs /\ f \in UnitFacts(docs, Unit(docs, d), u)
<1>1. /\ Unit(index, d) \subseteq Unit(docs, d)
      /\ Unit(index, d) \in SUBSET closure
  BY ClosureHasIncludes, UnitWithin
<1>2. f[2] \in DOMAIN index /\ f[1] \in VisibleNames(index[f[2]])
  BY DEF UnitFacts, VisibleNames
<1>3. <<u, f[1]>> \in Occurrences(index, Unit(index, d))
  BY DEF UnitFacts
<1>4. f[2] \in closure
  BY <1>1, <1>2, <1>3, ClosureDeclares
<1> QED
  BY <1>1, <1>4, UnitFactsWithin DEF Share

\* A document that nothing includes is in its own unit only.
LEMMA OwnUnit ==
  ASSUME NEW index, NEW u \in DOMAIN index, ~Included(index, u),
         NEW d \in DOMAIN index, u \in Unit(index, d)
  PROVE  d = u
<1> DEFINE next == [e \in DOMAIN index |-> index[e].includes \cap DOMAIN index]
           others == DOMAIN index \ {u}
<1>1. SUFFICES ASSUME d # u PROVE FALSE
  OBVIOUS
<1>2. /\ others \subseteq DOMAIN next /\ {d} \subseteq others
      /\ \A y \in others : next[y] \subseteq others /\ next[y] \subseteq next[y]
      /\ {d} \subseteq {d}
  BY <1>1 DEF Included
<1>3. Unit(index, d) = Reachable(next, {d})
  BY DEF Unit
<1> HIDE DEF next, others
<1>4. Reachable(next, {d}) \subseteq others
  BY <1>2, ReachableWithin
<1> QED
  BY <1>3, <1>4 DEF others

\* The theorem about discoveryDocumentClosure: if the closure of a document is
\* complete, and nothing includes the document, then whatever a compilation of
\* all that is indexed finds in the document, a compilation that has the
\* documents of the closure finds too.
THEOREM DocumentClosureSuffices ==
  ASSUME NEW index, IsWorkspace(index), NEW u, ~Included(index, u),
         DiscoveryDocumentClosure(index, u).complete,
         NEW docs, Share(index, docs, DiscoveryDocumentClosure(index, u).uris)
  PROVE  DocumentFacts(index, u) \subseteq DocumentFacts(docs, u)
<1> DEFINE closure == DiscoveryDocumentClosure(index, u).uris
<1>1. u \in closure /\ IsClosure(index, closure) /\ u \in DOMAIN index
  BY CompleteIsClosure DEF IsClosure
<1> HIDE DEF closure
<1>2. ASSUME NEW d \in DOMAIN index, NEW f \in UnitFacts(index, Unit(index, d), u)
      PROVE  f \in DocumentFacts(docs, u)
  <2>1. u \in Unit(index, d)
    BY DEF UnitFacts, Occurrences
  <2>2. d = u
    BY <1>1, <2>1, OwnUnit
  <2>3. u \in DOMAIN docs /\ f \in UnitFacts(docs, Unit(docs, u), u)
    BY <1>1, <2>2, ClosureFinds DEF closure
  <2> QED
    BY <2>3 DEF DocumentFacts
<1> QED
  BY <1>2 DEF DocumentFacts

-----------------------------------------------------------------------------
(* The closure of a design *)

Below(docs) ==
  [d \in DOMAIN docs |->
     {e \in DOMAIN docs : docs[e].key \in UNION {docs[k].uses : k \in Unit(docs, d)}}]

Tops(docs, top) == {d \in DOMAIN docs : docs[d].key = top}

LEMMA HierarchyIs ==
  ASSUME NEW docs, NEW top
  PROVE  HierarchyFacts(docs, top) =
           {i \in Reachable(Below(docs), Tops(docs, top)) \X
                   Reachable(Below(docs), Tops(docs, top)) : i[2] \in Below(docs)[i[1]]}
<1> DEFINE uses == [d \in DOMAIN docs |-> UNION {docs[e].uses : e \in Unit(docs, d)}]
<1>1. [d \in DOMAIN docs |-> {e \in DOMAIN docs : docs[e].key \in uses[d]}] = Below(docs)
  BY DEF Below
<1> QED
  BY <1>1 DEF HierarchyFacts, Tops

\* The hierarchy below a top in a compilation is in that of another, if they
\* share the documents where the first finds it.
LEMMA HierarchyWithin ==
  ASSUME NEW docs1, NEW docs2, NEW within, NEW top,
         Share(docs1, docs2, within), ClosedUnderIncludes(docs1, within),
         Tops(docs1, top) \subseteq within,
         \A d \in within : Below(docs1)[d] \subseteq within
  PROVE  HierarchyFacts(docs1, top) \subseteq HierarchyFacts(docs2, top)
<1>1. \A d \in within : d \in DOMAIN docs1 /\ d \in DOMAIN docs2 /\ docs1[d] = docs2[d]
  BY DEF Share
<1>2. \A d \in within : /\ Unit(docs1, d) \subseteq Unit(docs2, d)
                         /\ Unit(docs1, d) \subseteq within
  BY UnitWithin
<1>3. Tops(docs1, top) \subseteq Tops(docs2, top)
  BY <1>1 DEF Tops
<1>4. ASSUME NEW d \in within, NEW e \in Below(docs1)[d]
      PROVE  e \in Below(docs2)[d]
  <2>1. PICK k \in Unit(docs1, d) : docs1[e].key \in docs1[k].uses
    BY <1>1 DEF Below
  <2>2. e \in within
    OBVIOUS
  <2>3. /\ k \in Unit(docs2, d) /\ docs2[e].key \in docs2[k].uses
        /\ e \in DOMAIN docs2 /\ d \in DOMAIN docs2
    BY <1>1, <1>2, <2>1, <2>2
  <2> QED
    BY <2>3 DEF Below
<1>5. DOMAIN Below(docs1) = DOMAIN docs1 /\ DOMAIN Below(docs2) = DOMAIN docs2
  BY DEF Below
<1>6. /\ within \subseteq DOMAIN Below(docs1) /\ within \subseteq DOMAIN Below(docs2)
      /\ \A d \in within : Below(docs1)[d] \subseteq within /\ Below(docs1)[d] \subseteq Below(docs2)[d]
  BY <1>1, <1>4, <1>5
<1>7. /\ Reachable(Below(docs1), Tops(docs1, top)) \subseteq Reachable(Below(docs2), Tops(docs2, top))
      /\ Reachable(Below(docs1), Tops(docs1, top)) \subseteq within
  BY <1>3, <1>6, ReachableWithin
<1> QED
  BY <1>6, <1>7, HierarchyIs

\* A compilation of some documents finds no more than one of all.
LEMMA HierarchyGrows ==
  ASSUME NEW docs, NEW uris, NEW top
  PROVE  HierarchyFacts(Only(docs, uris), top) \subseteq HierarchyFacts(docs, top)
<1> DEFINE some == Only(docs, uris)
<1>1. Share(some, docs, DOMAIN some)
  BY OnlyShares
<1>2. ClosedUnderIncludes(some, DOMAIN some)
  BY DEF ClosedUnderIncludes
<1>3. /\ Tops(some, top) \subseteq DOMAIN some
      /\ \A d \in DOMAIN some : Below(some)[d] \subseteq DOMAIN some
  BY DEF Tops, Below
<1> HIDE DEF some
<1>4. HierarchyFacts(some, top) \subseteq HierarchyFacts(docs, top)
  BY <1>1, <1>2, <1>3, HierarchyWithin
<1> QED
  BY <1>4 DEF some

\* The theorem about discoveryDependencyClosure: whatever hierarchy below a top a
\* compilation of all that is indexed finds, a compilation that has the indexed
\* documents of the closure of the top finds too, even where a closure would be
\* incomplete for other questions.
THEOREM DependencyClosureSuffices ==
  ASSUME NEW index, NEW top, NEW docs,
         Share(index, docs, DiscoveryDependencyClosure(index, top) \cap DOMAIN index)
  PROVE  HierarchyFacts(index, top) \subseteq HierarchyFacts(docs, top)
<1> DEFINE closure == Reachable(DesignDependencies(index), Tops(index, top))
<1>1. /\ DOMAIN DesignDependencies(index) = DOMAIN index
      /\ Tops(index, top) \in SUBSET DOMAIN DesignDependencies(index)
      /\ \A d \in DOMAIN index : DesignDependencies(index)[d] \subseteq DOMAIN index
  BY DEF DesignDependencies, Tops
<1>2. /\ closure \subseteq DOMAIN index
      /\ Tops(index, top) \subseteq closure
      /\ \A y \in closure : \A z \in DesignDependencies(index)[y] \cap DOMAIN index : z \in closure
  BY <1>1, ReachableClosed
<1>3. closure \subseteq DiscoveryDependencyClosure(index, top)
  BY DEF DiscoveryDependencyClosure, Tops
<1>4. Share(index, docs, closure)
  BY <1>2, <1>3 DEF Share
<1> HIDE DEF closure
<1>5. \A y \in closure : DesignDependencies(index)[y] \subseteq closure
  BY <1>1, <1>2
<1>6. ClosedUnderIncludes(index, closure)
  BY <1>2, <1>5 DEF ClosedUnderIncludes, DesignDependencies
<1>7. ASSUME NEW d \in closure, NEW e \in Below(index)[d]
      PROVE  e \in closure
  <2>1. PICK k \in Unit(index, d) : index[e].key \in index[k].uses /\ e \in DOMAIN index
    BY <1>2 DEF Below
  <2>2. k \in closure
    BY <1>4, <1>6, <2>1, UnitWithin
  <2>3. e \in DesignDependencies(index)[k]
    BY <1>2, <2>1, <2>2 DEF DesignDependencies
  <2> QED
    BY <1>5, <2>2, <2>3
<1> QED
  BY <1>2, <1>4, <1>6, <1>7, HierarchyWithin

-----------------------------------------------------------------------------
(* The candidates of a reference search *)

\* If a macro with the name in it, perhaps through others, is expanded in a unit,
\* then the unit invokes such a macro.
LEMMA ExpansionIsInvoked ==
  ASSUME NEW index, NEW name, NEW unit \in SUBSET DOMAIN index,
         NEW m \in Expanded(index, unit), name \in Body[m]
  PROVE  \E x \in unit : index[x].invokes \cap RelevantMacros(index, name) # {}
<1> DEFINE defined == UNION {index[d].defines : d \in DOMAIN index}
           above == [k \in defined |-> {j \in defined : k \in Body[j]}]
           having == {k \in defined : name \in Body[k]}
           relevant == Reachable(above, having)
           here == UNION {index[d].defines : d \in unit}
           next == [k \in here |-> Body[k] \cap here]
           roots == (UNION {index[d].invokes : d \in unit}) \cap here
           others == here \ relevant
<1>1. RelevantMacros(index, name) = relevant
  BY DEF RelevantMacros
<1>2. Expanded(index, unit) = Reachable(next, roots)
  BY DEF Expanded
<1>3. here \subseteq defined
  OBVIOUS
<1>4. having \in SUBSET DOMAIN above /\ DOMAIN above = defined /\ DOMAIN next = here
  OBVIOUS
<1>5. /\ having \subseteq relevant
      /\ \A z \in relevant : \A y \in above[z] \cap DOMAIN above : y \in relevant
      /\ relevant \subseteq defined
  <2> HIDE DEF above, having, defined
  <2> QED
    BY <1>4, ReachableClosed
<1>6. m \in here
  BY <1>2 DEF Reachable
<1>7. m \in relevant
  BY <1>3, <1>5, <1>6
<1>8. \A y \in others : next[y] \subseteq others /\ next[y] \subseteq next[y]
  <2>1. SUFFICES ASSUME NEW y \in others, NEW z \in Body[y] \cap here, z \in relevant
                 PROVE  FALSE
    OBVIOUS
  <2>2. y \in above[z] \cap DOMAIN above
    BY <1>3, <1>5, <2>1
  <2> QED
    BY <1>5, <2>1, <2>2
<1>9. others \subseteq DOMAIN next /\ roots \subseteq roots
  OBVIOUS
<1> HIDE DEF others, next, roots, relevant
<1>10. ~(roots \subseteq others)
  <2>1. SUFFICES ASSUME roots \subseteq others PROVE FALSE
    OBVIOUS
  <2>2. Reachable(next, roots) \subseteq others
    BY <1>8, <1>9, <2>1, ReachableWithin
  <2> QED
    BY <1>2, <1>7, <2>2 DEF others
<1> QED
  BY <1>1, <1>10 DEF roots, others

LEMMA ReferrersAreCandidates ==
  ASSUME NEW index, IsWorkspace(index), HeadersOnlyDefine(index),
         \A d \in DOMAIN index : index[d].complete,
         NEW name, NEW declaration_uri, NEW u \in DOMAIN index, NEW d \in DOMAIN index,
         <<u, name>> \in Occurrences(index, Unit(index, d))
  PROVE  d \in ReferenceCandidates(index, name, declaration_uri)
<1> DEFINE unit == Unit(index, d)
<1>1. unit \in SUBSET DOMAIN index
  BY DEF Unit, Reachable
<1>2. /\ u \in unit /\ index[u].hidden = {}
      /\ \/ name \in index[u].text
         \/ \E m \in index[u].defines \cap Expanded(index, unit) : name \in Body[m]
  BY <1>1 DEF Occurrences, IsWorkspace, Content
<1> HIDE DEF unit
<1>3. \A x \in unit : x # d => index[x].text = {} /\ index[x].invokes = {}
  BY <1>1, OwnUnit DEF unit, HeadersOnlyDefine
<1>4. CASE u = d
  BY <1>2, <1>4 DEF ReferenceCandidates, Referenced
<1>5. CASE u # d
  <2>1. PICK m \in index[u].defines \cap Expanded(index, unit) : name \in Body[m]
    BY <1>2, <1>3, <1>5
  <2>2. PICK x \in unit : index[x].invokes \cap RelevantMacros(index, name) # {}
    BY <1>1, <2>1, ExpansionIsInvoked
  <2>3. x = d
    BY <1>3, <2>2
  <2> QED
    BY <2>2, <2>3 DEF ReferenceCandidates, Referenced
<1> QED
  BY <1>4, <1>5

\* The theorem about planReferenceCandidateClosure: where what is included holds
\* the definitions of macros only, whatever references to a declaration a
\* compilation of all that is indexed finds, a compilation that has the planned
\* documents finds too, unless the plan asks for everything.
THEOREM ReferenceClosureSuffices ==
  ASSUME NEW index, IsWorkspace(index), HeadersOnlyDefine(index),
         NEW roots, NEW tops, NEW name, NEW e,
         ~PlanReferenceCandidateClosure(index, roots, tops, name, e).requires_full,
         NEW docs,
         Share(index, docs,
               PlanReferenceCandidateClosure(index, roots, tops, name, e).uris \cap DOMAIN index)
  PROVE  ReferenceFacts(index, name, e) \subseteq ReferenceFacts(docs, name, e)
<1> DEFINE plan == PlanReferenceCandidateClosure(index, roots, tops, name, e)
<1>1. /\ \A d \in DOMAIN index : index[d].complete
      /\ \A d \in ReferenceCandidates(index, name, e) :
           /\ DiscoveryDocumentClosure(index, d).complete
           /\ DiscoveryDocumentClosure(index, d).uris \subseteq plan.uris
  BY DEF PlanReferenceCandidateClosure
<1> HIDE DEF plan
<1>2. ASSUME NEW u \in DOMAIN index, NEW d \in DOMAIN index,
             <<name, e>> \in UnitFacts(index, Unit(index, d), u)
      PROVE  u \in DOMAIN docs /\ <<name, e>> \in DocumentFacts(docs, u)
  <2> DEFINE closure == DiscoveryDocumentClosure(index, d).uris
  <2>1. <<u, name>> \in Occurrences(index, Unit(index, d))
    BY <1>2 DEF UnitFacts
  <2>2. d \in ReferenceCandidates(index, name, e)
    BY <1>1, <2>1, ReferrersAreCandidates
  <2>3. d \in closure /\ IsClosure(index, closure)
    BY <1>1, <2>2, CompleteIsClosure
  <2>4. Share(index, docs, closure)
    BY <1>1, <2>2, <2>3 DEF Share, IsClosure, plan
  <2>5. u \in closure
    BY <2>1, <2>3, <2>4, ClosureHasIncludes, UnitWithin DEF Occurrences
  <2> HIDE DEF closure
  <2>6. d \in DOMAIN docs /\ <<name, e>> \in UnitFacts(docs, Unit(docs, d), u)
    BY <1>2, <2>3, <2>4, ClosureFinds
  <2> QED
    BY <2>4, <2>5, <2>6 DEF Share, DocumentFacts
<1> QED
  BY <1>2 DEF ReferenceFacts, DocumentFacts
-----------------------------------------------------------------------------
(* The candidates of a completion *)

LEMMA LeastExists ==
  ASSUME NEW S \in SUBSET Nat, S # {}
  PROVE  \E m \in S : \A y \in S : m =< y
<1>1. PICK m \in S : \A y \in S : <<y, m>> \notin OpToRel(<, Nat)
  BY NatLessThanWellFounded, WFMin
<1>2. \A y \in S : ~(y < m)
  BY <1>1 DEF OpToRel
<1> QED
  BY <1>2

\* The plan after k candidates, from those before.
PlanAfter(f, k, plan, index, candidates) ==
  IF k = 0 THEN plan ELSE AddCandidate(f[k - 1], index, candidates[k][2])

\* The candidates can be added one after the other.
LEMMA StepsExist ==
  ASSUME NEW n \in Nat, NEW plan, NEW index, NEW candidates
  PROVE  \E f : f = [k \in 0..n |-> PlanAfter(f, k, plan, index, candidates)]
<1> USE DEF PlanAfter
<1> DEFINE next(f, k) == PlanAfter(f, k, plan, index, candidates)
           bad == {m \in Nat : ~\E f : f = [k \in 0..m |-> next(f, k)]}
<1> SUFFICES ASSUME bad # {}
             PROVE  FALSE
  OBVIOUS
<1>1. PICK m \in bad : \A y \in bad : m =< y
  <2>1. bad \in SUBSET Nat
    OBVIOUS
  <2> HIDE DEF bad
  <2> QED
    BY <2>1, LeastExists
<1>2. m \in Nat /\ ~\E f : f = [k \in 0..m |-> next(f, k)]
  BY <1>1
<1>3. CASE m = 0
  <2> DEFINE g == [k \in 0..0 |-> plan]
  <2>1. \A k \in 0..m : next(g, k) = plan
    BY <1>3
  <2>2. g = [k \in 0..m |-> next(g, k)]
    BY <1>3, <2>1
  <2> HIDE DEF g, next
  <2> QED
    BY <1>2, <2>2
<1>4. CASE m # 0
  <2>1. m - 1 \in Nat /\ ~(m =< m - 1)
    BY <1>2, <1>4
  <2>2. PICK f : f = [k \in 0..(m - 1) |-> next(f, k)]
    BY <1>1, <2>1
  <2> DEFINE g == [k \in 0..m |-> next(f, k)]
  <2>3. ASSUME NEW k \in 0..m PROVE next(g, k) = next(f, k)
    <3>1. CASE k = 0
      BY <3>1
    <3>2. CASE k # 0
      <4>1. k - 1 \in 0..(m - 1) /\ k - 1 \in 0..m
        BY <1>2, <3>2
      <4>2. f[k - 1] = next(f, k - 1)
        <5> HIDE DEF next
        <5> QED
          BY <2>2, <4>1
      <4>3. g[k - 1] = next(f, k - 1)
        BY <4>1
      <4> HIDE DEF g
      <4> QED
        BY <3>2, <4>2, <4>3
    <3> QED
      BY <3>1, <3>2
  <2>4. g = [k \in 0..m |-> next(g, k)]
    <3> HIDE DEF next
    <3> QED
      BY <2>3
  <2> HIDE DEF g, next
  <2> QED
    BY <1>2, <2>4
<1> QED
  BY <1>3, <1>4

LEMMA StepsOfCandidates ==
  ASSUME NEW plan, NEW index, NEW candidates, Len(candidates) \in Nat
  PROVE  \E f : /\ f[0] = plan
                /\ \A k \in 1..Len(candidates) : f[k] = AddCandidate(f[k - 1], index, candidates[k][2])
                /\ AddCandidates(plan, index, candidates) = f[Len(candidates)]
<1> DEFINE n == Len(candidates)
           next(f, k) == PlanAfter(f, k, plan, index, candidates)
           planned == CHOOSE f : f = [k \in 0..n |-> next(f, k)]
<1>1. AddCandidates(plan, index, candidates) = planned[n]
  BY Zenon DEF AddCandidates, PlanAfter
<1>2. \E f : f = [k \in 0..n |-> next(f, k)]
  <2>1. n \in Nat
    OBVIOUS
  <2> HIDE DEF n
  <2> QED
    BY <2>1, StepsExist
<1>3. n \in Nat
  OBVIOUS
<1> HIDE DEF next, n
<1>4. planned = [k \in 0..n |-> next(planned, k)]
  BY <1>2
<1> HIDE DEF planned
<1>5. \A k \in 0..n : planned[k] = next(planned, k)
  BY <1>4
<1>6. planned[0] = plan
  BY <1>3, <1>5 DEF next, PlanAfter
<1>7. ASSUME NEW k \in 1..n PROVE planned[k] = AddCandidate(planned[k - 1], index, candidates[k][2])
  BY <1>3, <1>5 DEF next, PlanAfter
<1> QED
  BY <1>1, <1>6, <1>7 DEF n

\* A plan that is not said to be incomplete has the document of every candidate.
LEMMA CandidatesAreAdded ==
  ASSUME NEW index, NEW uris, NEW limited, NEW candidates, Len(candidates) \in Nat,
         NEW plan, plan = AddCandidates([uris |-> uris, complete |-> TRUE, incomplete |-> limited, added |-> 0],
                                        index, candidates)
  PROVE  ~plan.incomplete => /\ ~limited
                             /\ \A k \in 1..Len(candidates) : candidates[k][2] \in plan.uris
<1> DEFINE first == [uris |-> uris, complete |-> TRUE, incomplete |-> limited, added |-> 0]
           n == Len(candidates)
<1>1. PICK f : /\ f[0] = first
               /\ \A k \in 1..n : f[k] = AddCandidate(f[k - 1], index, candidates[k][2])
               /\ plan = f[n]
  BY StepsOfCandidates
<1> DEFINE good(k) ==
             /\ f[k] = [uris |-> f[k].uris, complete |-> TRUE, incomplete |-> f[k].incomplete, added |-> f[k].added]
             /\ ~f[k].incomplete => ~limited /\ \A j \in 1..k : candidates[j][2] \in f[k].uris
           bad == {k \in 0..n : ~good(k)}
<1>2. n \in Nat
  OBVIOUS
<1> HIDE DEF n
<1>3. bad = {}
  <2> SUFFICES ASSUME bad # {} PROVE FALSE
    OBVIOUS
  <2>1. PICK m \in bad : \A y \in bad : m =< y
    <3>1. bad \in SUBSET Nat
      BY <1>2
    <3> HIDE DEF bad
    <3> QED
      BY <3>1, LeastExists
  <2>2. m \in 0..n /\ ~good(m)
    BY <2>1
  <2>3. good(0)
    BY <1>1
  <2>4. m \in 1..n /\ m - 1 \in 0..n /\ ~(m =< m - 1)
    <3> HIDE DEF good
    <3> QED
      BY <1>2, <2>2, <2>3
  <2>5. good(m - 1)
    <3> HIDE DEF good
    <3> QED
      BY <2>1, <2>4
  <2> DEFINE p == f[m - 1]
             uri == candidates[m][2]
             closure == DiscoveryDocumentClosure(index, uri)
             additions == closure.uris \ p.uris
             enough == closure.complete /\ p.added + Cardinality(additions) <= DocumentLimit
  <2>6. f[m] = IF enough THEN [p EXCEPT !.uris = @ \cup additions, !.added = @ + Cardinality(additions)]
               ELSE [p EXCEPT !.incomplete = TRUE]
    <3>1. f[m] = AddCandidate(p, index, uri)
      BY <1>1, <2>4
    <3> QED
      BY <3>1 DEF AddCandidate
  <2>7. p = [uris |-> p.uris, complete |-> TRUE, incomplete |-> p.incomplete, added |-> p.added]
    BY <2>5
  <2>8. ~p.incomplete => ~limited /\ \A j \in 1..(m - 1) : candidates[j][2] \in p.uris
    BY <2>5
  <2>9. enough => uri \in closure.uris
    BY CompleteIsClosure
  <2> HIDE DEF p, closure
  <2>10. CASE enough
    <3> DEFINE u == p.uris \cup additions
               b == p.added + Cardinality(additions)
               i == p.incomplete
               v == p.uris
               w == p.added
    <3>0. f[m] = [uris |-> u, complete |-> TRUE, incomplete |-> i, added |-> b]
      <4>1. f[m] = [p EXCEPT !.uris = u, !.added = b]
        BY <2>6, <2>10
      <4>2. p = [uris |-> v, complete |-> TRUE, incomplete |-> i, added |-> w]
        BY <2>7
      <4> HIDE DEF u, b, i, v, w
      <4> QED
        BY <4>1, <4>2
    <3>5. u = p.uris \cup closure.uris
      OBVIOUS
    <3> HIDE DEF u, v, w
    <3>1. f[m] = [uris |-> p.uris \cup closure.uris, complete |-> TRUE, incomplete |-> p.incomplete, added |-> b]
      BY <3>0, <3>5
    <3> HIDE DEF b
    <3>2. \A j \in 1..m : j \in 1..(m - 1) \/ j = m
      BY <1>2, <2>4
    <3>3. /\ f[m].uris = p.uris \cup closure.uris /\ f[m].incomplete = p.incomplete
          /\ f[m] = [uris |-> f[m].uris, complete |-> TRUE, incomplete |-> f[m].incomplete, added |-> f[m].added]
      BY <3>1
    <3>4. ~f[m].incomplete => ~limited /\ \A j \in 1..m : candidates[j][2] \in f[m].uris
      BY <2>8, <2>9, <2>10, <3>2, <3>3
    <3> QED
      BY <2>2, <3>3, <3>4
  <2>11. CASE ~enough
    <3> DEFINE i == p.incomplete
               v == p.uris
               w == p.added
    <3>0. f[m] = [p EXCEPT !.incomplete = TRUE] /\ p = [uris |-> v, complete |-> TRUE, incomplete |-> i, added |-> w]
      BY <2>6, <2>7, <2>11
    <3> HIDE DEF i, v, w
    <3>1. f[m] = [uris |-> v, complete |-> TRUE, incomplete |-> TRUE, added |-> w]
      BY <3>0
    <3> QED
      BY <2>2, <3>1
  <2> QED
    BY <2>10, <2>11
<1>4. good(n)
  <2> HIDE DEF good
  <2> QED
    BY <1>2, <1>3
<1> QED
  BY <1>1, <1>4 DEF n

\* The candidates of a workspace can be put into a sequence that has them all.
LEMMA CandidatesInSequence ==
  ASSUME NEW docs, IsWorkspace(docs), NEW prefix, NEW s, s = SetToSeq(Candidates(docs, prefix))
  PROVE  Len(s) \in Nat /\ \A c \in Candidates(docs, prefix) : \E k \in 1..Len(s) : s[k] = c
<1> DEFINE S == Candidates(docs, prefix)
           n == Cardinality(S)
           found == {e \in DOMAIN docs : docs[e].key \in Matches[prefix]}
<1>1. IsFiniteSet(S)
  <2>1. IsFiniteSet(found)
    BY FS_Subset DEF IsWorkspace
  <2>2. S = {<<docs[d].key, d>> : d \in found}
    BY DEF Candidates
  <2> HIDE DEF found, S
  <2>3. IsFiniteSet({<<docs[d].key, d>> : d \in found})
    <3> DEFINE g == [d \in found |-> <<docs[d].key, d>>]
               T == {<<docs[d].key, d>> : d \in found}
    <3>1. g \in Surjection(found, T)
      BY DEF Surjection
    <3> HIDE DEF g, T
    <3>2. IsFiniteSet(T)
      BY <2>1, <3>1, FS_Surjection
    <3> QED
      BY <3>2 DEF T
  <2> QED
    BY <2>2, <2>3
<1> HIDE DEF S
<1>2. n \in Nat /\ ExistsBijection(1..n, S)
  BY <1>1, FS_CardinalityType
<1>3. PICK g : g \in Bijection(1..n, S)
  BY <1>2 DEF ExistsBijection
<1>4. \E f \in [1..n -> S] : IsInjective(f)
  BY <1>3 DEF Bijection, Injection, IsInjective
<1>5. s \in [1..n -> S] /\ IsInjective(s)
  BY <1>4 DEF SetToSeq, S
<1>6. Len(s) = n /\ Len(s) \in Nat
  BY <1>2, <1>5
<1>7. s \in Injection(1..n, S)
  BY <1>5 DEF Injection, IsInjective
<1>8. s \in Surjection(1..n, S)
  <2> SUFFICES ASSUME NEW t \in S, \A k \in 1..n : s[k] # t
               PROVE  FALSE
    BY <1>5 DEF Surjection
  <2>1. s \in Injection(1..n, S \ {t})
    BY <1>5 DEF Injection
  <2>2. Cardinality(S \ {t}) = n - 1 /\ IsFiniteSet(S \ {t})
    BY <1>1, FS_RemoveElement
  <2>3. Cardinality(1..n) = n
    BY <1>2, FS_Interval
  <2>4. Cardinality(1..n) <= Cardinality(S \ {t})
    BY <2>1, <2>2, FS_Injection
  <2> QED
    BY <1>2, <2>2, <2>3, <2>4
<1> QED
  BY <1>6, <1>8 DEF Surjection, S

-----------------------------------------------------------------------------
(* Sequences *)

IsSeq(s) == s \in Seq(Range(s))

\* What is at a place of s when e is at its end instead of what was at i.
Place(s, i, e, k) == IF k = Len(s) THEN e ELSE s[IF k < i THEN k ELSE k + 1]

\* A sequence whose last element is e: the others were there before, each once,
\* and if a position was given they are those at the other positions.
LEMMA RenewedIs ==
  ASSUME NEW s, IsSeq(s), NEW positions \in SUBSET DOMAIN s, NEW e,
         NEW r, r = Renewed(s, positions, e)
  PROVE  /\ IsSeq(r)
         /\ \A i \in DOMAIN r : r[i] = e \/ \E j \in DOMAIN s : r[i] = s[j]
         /\ positions = {} => r = Append(s, e) /\ Len(r) = Len(s) + 1
         /\ positions # {} =>
              /\ Len(r) = Len(s)
              /\ \E i \in positions : \A k \in DOMAIN r : r[k] = Place(s, i, e, k)
<1> DEFINE S == Range(s) \cup {e}
<1>1. /\ s \in Seq(S) /\ Len(s) \in Nat /\ DOMAIN s = 1..Len(s)
      /\ \A i \in DOMAIN s : s[i] \in S
  BY SeqMonotonic, LenProperties DEF IsSeq, Range
<1>2. ASSUME r \in Seq(S), \A i \in DOMAIN r : r[i] = e \/ \E j \in DOMAIN s : r[i] = s[j]
      PROVE  IsSeq(r)
  BY <1>2, SeqOfRange DEF IsSeq
<1> HIDE DEF S
<1>3. CASE positions = {}
  <2>1. r = Append(s, e)
    BY <1>3 DEF Renewed
  <2>2. /\ r \in Seq(S) /\ Len(r) = Len(s) + 1
        /\ \A i \in 1..Len(s) : r[i] = s[i]
        /\ r[Len(s) + 1] = e
    BY <1>1, <2>1, AppendProperties DEF S
  <2>3. \A i \in DOMAIN r : r[i] = e \/ \E j \in DOMAIN s : r[i] = s[j]
    BY <1>1, <2>2
  <2> QED
    BY <1>2, <1>3, <2>1, <2>2, <2>3
<1>4. CASE positions # {}
  <2> DEFINE i == CHOOSE x \in positions : TRUE
             before == SubSeq(s, 1, i - 1)
             after == SubSeq(s, i + 1, Len(s))
             rest == before \o after
  <2>1. i \in positions /\ i \in 1..Len(s)
    BY <1>1, <1>4
  <2>2. r = Append(rest, e)
    BY <1>4 DEF Renewed, RemoveAt
  <2> HIDE DEF i
  <2>3. /\ before \in Seq(S) /\ Len(before) = i - 1
        /\ \A k \in 1..(i - 1) : before[k] = s[k]
    <3>1. i - 1 \in Int /\ \A k \in 1..(i - 1) : s[k] \in S
      BY <1>1, <2>1
    <3> QED
      BY <2>1, <3>1, SubSeqProperties
  <2>4. /\ after \in Seq(S) /\ Len(after) = Len(s) - i
        /\ \A k \in 1..(Len(s) - i) : after[k] = s[i + k]
    <3>1. i + 1 \in Int /\ Len(s) \in Int /\ \A k \in (i + 1)..Len(s) : s[k] \in S
      BY <1>1, <2>1
    <3>2. /\ after \in Seq(S) /\ Len(after) = IF i + 1 <= Len(s) THEN Len(s) - (i + 1) + 1 ELSE 0
          /\ \A k \in 1..(Len(s) - (i + 1) + 1) : after[k] = s[i + 1 + k - 1]
      BY <3>1, SubSeqProperties
    <3> QED
      BY <1>1, <2>1, <3>2
  <2> HIDE DEF before, after
  <2>5. /\ rest \in Seq(S) /\ Len(rest) = Len(s) - 1
        /\ \A k \in 1..(Len(s) - 1) : rest[k] = IF k < i THEN s[k] ELSE s[k + 1]
    <3>1. /\ rest \in Seq(S) /\ Len(rest) = Len(before) + Len(after)
          /\ \A k \in 1..(Len(before) + Len(after)) :
               rest[k] = IF k <= Len(before) THEN before[k] ELSE after[k - Len(before)]
      BY <2>3, <2>4, ConcatProperties
    <3> HIDE DEF rest
    <3>2. i \in Nat /\ Len(s) \in Nat /\ i <= Len(s) /\ 1 <= i
      BY <1>1, <2>1
    <3>3. ASSUME NEW k \in 1..(Len(s) - 1), k < i
          PROVE  rest[k] = s[k]
      <4>1. k \in 1..(i - 1) /\ k <= Len(before) /\ k \in 1..(Len(before) + Len(after))
        BY <2>3, <2>4, <3>2, <3>3
      <4> QED
        BY <2>3, <3>1, <4>1
    <3>4. ASSUME NEW k \in 1..(Len(s) - 1), ~(k < i)
          PROVE  rest[k] = s[k + 1]
      <4>1. rest[k] = after[k - (i - 1)]
        BY <2>3, <2>4, <3>1, <3>2, <3>4
      <4>2. k - (i - 1) \in 1..(Len(s) - i) /\ i + (k - (i - 1)) = k + 1
        BY <3>2, <3>4
      <4> QED
        BY <2>4, <4>1, <4>2
    <3> QED
      BY <2>3, <2>4, <3>1, <3>2, <3>3, <3>4
  <2> HIDE DEF rest
  <2>6. /\ r \in Seq(S) /\ Len(r) = Len(s)
        /\ \A k \in 1..(Len(s) - 1) : r[k] = rest[k]
        /\ r[Len(s)] = e
    <3>1. /\ Append(rest, e) \in Seq(S) /\ Len(Append(rest, e)) = Len(rest) + 1
          /\ \A k \in 1..Len(rest) : Append(rest, e)[k] = rest[k]
          /\ Append(rest, e)[Len(rest) + 1] = e
      BY <2>5, AppendProperties DEF S
    <3> QED
      BY <1>1, <2>1, <2>2, <2>5, <3>1
  <2>7. \A k \in DOMAIN r : r[k] = IF k = Len(s) THEN e ELSE s[IF k < i THEN k ELSE k + 1]
    BY <1>1, <2>5, <2>6
  <2>8. \A k \in DOMAIN r : k # Len(s) => (IF k < i THEN k ELSE k + 1) \in DOMAIN s
    BY <1>1, <2>1, <2>6
  <2>9. \A k \in DOMAIN r : r[k] = e \/ \E j \in DOMAIN s : r[k] = s[j]
    BY <2>7, <2>8
  <2>10. IsSeq(r)
    BY <1>2, <2>6, <2>9
  <2>11. /\ IsSeq(r)
         /\ \A k \in DOMAIN r : r[k] = e \/ \E j \in DOMAIN s : r[k] = s[j]
         /\ Len(r) = Len(s)
         /\ \E x \in positions : \A k \in DOMAIN r : r[k] = Place(s, x, e, k)
    BY <2>1, <2>6, <2>7, <2>9, <2>10 DEF Place
  <2> QED
    BY <1>4, <2>11
<1> QED
  BY <1>3, <1>4

\* A sequence without its first element.
LEMMA TailIs ==
  ASSUME NEW s, IsSeq(s), s # <<>>
  PROVE  /\ IsSeq(Tail(s)) /\ Len(Tail(s)) = Len(s) - 1
         /\ \A i \in DOMAIN Tail(s) : i + 1 \in DOMAIN s /\ Tail(s)[i] = s[i + 1]
<1>1. /\ Tail(s) \in Seq(Range(s)) /\ Len(Tail(s)) = Len(s) - 1
      /\ \A i \in 1..Len(Tail(s)) : Tail(s)[i] = s[i + 1]
  BY HeadTailProperties DEF IsSeq
<1>2. DOMAIN Tail(s) = 1..Len(Tail(s)) /\ DOMAIN s = 1..Len(s) /\ Len(s) \in Nat
  BY <1>1, LenProperties DEF IsSeq
<1>3. IsSeq(Tail(s))
  BY <1>1, SeqOfRange DEF IsSeq
<1> QED
  BY <1>1, <1>2, <1>3

-----------------------------------------------------------------------------
(* The inductive invariant *)

WorkspaceInv ==
  /\ IsWorkspace(documents)
  /\ config.dirs \subseteq Document /\ config.tops \subseteq Name

GoodEntry(e, docs, current) ==
  e.identity.generation = current /\ e.docs = Only(docs, e.identity.uris)

GoodCache(cache, docs, current) ==
  /\ IsSeq(cache) /\ Len(cache) <= SnapshotLimit
  /\ \A i \in DOMAIN cache : GoodEntry(cache[i], docs, current)
  /\ \A i, j \in DOMAIN cache : cache[i].identity = cache[j].identity => i = j

GoodSnapshots(s, docs, current) ==
  /\ s = [cache |-> s.cache, full |-> s.full, dirty |-> s.dirty]
  /\ GoodCache(s.cache, docs, current)
  /\ s.dirty \in BOOLEAN
  /\ ~s.dirty => s.full.docs = docs /\ s.full.identity.generation = current

GoodAnswer(kind, a, docs, index, tops, current) ==
  /\ a.generation = current
  /\ kind \in DocumentKind \cup WorkspaceKind => DocumentIsWhole(a, docs, index)
  /\ kind \in {"references", "rename"} /\ HeadersOnlyDefine(docs) => ReferenceIsWhole(a, docs, index)
  /\ kind \in {"moduleHierarchy", "schematic"} =>
       /\ HierarchyIsWhole(a, docs, index)
       /\ index = docs /\ AtMostOne(tops) => RootsAreWhole(a, docs, tops)
  /\ kind = "completions" => CompletionSaysSo(a, docs, index)

GoodKept(cache, docs, index, tops, current) ==
  /\ cache = [kind \in Kind |-> cache[kind]]
  /\ \A kind \in Kind :
       /\ IsSeq(cache[kind])
       /\ \A i \in DOMAIN cache[kind] : GoodAnswer(kind, cache[kind][i], docs, index, tops, current)

GoodAnswers == GoodKept(query_cache, documents, Indexed, config.tops, generation)

IInv ==
  /\ WorkspaceInv
  /\ discovery # None => discovery.index = Indexed
  /\ GoodSnapshots(snapshots, documents, generation)
  /\ GoodAnswers

LEMMA EmptyIsSeq == IsSeq(<<>>) /\ Len(<<>>) = 0 /\ DOMAIN <<>> = {}
BY EmptySeq DEF IsSeq

LEMMA NoAnswersAreGood ==
  ASSUME query_cache = NoAnswers
  PROVE  GoodAnswers
BY EmptyIsSeq DEF NoAnswers, GoodAnswers, GoodKept

LEMMA OnlyIsWorkspace ==
  ASSUME NEW docs, IsWorkspace(docs), NEW uris
  PROVE  IsWorkspace(Only(docs, uris))
<1>1. IsFiniteSet(DOMAIN docs \cap uris)
  BY FS_Intersection DEF IsWorkspace
<1> QED
  BY <1>1 DEF IsWorkspace, Only

LEMMA OnlyAll ==
  ASSUME NEW docs, IsWorkspace(docs)
  PROVE  Only(docs, DOMAIN docs) = docs
BY DEF IsWorkspace, Only

-----------------------------------------------------------------------------
(* Snapshots *)

LEMMA TouchKeeps ==
  ASSUME NEW cache, GoodCache(cache, documents, generation), NEW e, e \in Range(cache)
  PROVE  GoodCache(Touch(cache, e), documents, generation)
<1> DEFINE positions == {i \in DOMAIN cache : cache[i] = e}
           r == Renewed(cache, positions, e)
<1>1. positions # {} /\ positions \in SUBSET DOMAIN cache
  BY DEF Range
<1>2. IsSeq(cache) /\ DOMAIN cache = 1..Len(cache) /\ Len(cache) \in Nat
  BY LenProperties DEF GoodCache, IsSeq
<1>3. /\ IsSeq(r) /\ Len(r) = Len(cache)
      /\ \E i \in positions : \A k \in DOMAIN r : r[k] = Place(cache, i, e, k)
  <2>1. r = Renewed(cache, positions, e)
    OBVIOUS
  <2>2. IsSeq(cache)
    BY <1>2
  <2> HIDE DEF positions, r
  <2> QED
    BY <1>1, <2>1, <2>2, RenewedIs
<1>4. DOMAIN r = 1..Len(r)
  BY <1>3, LenProperties DEF IsSeq
<1> HIDE DEF r
<1>5. PICK i \in positions : \A k \in DOMAIN r : r[k] = Place(cache, i, e, k)
  BY <1>3
<1> DEFINE p(k) == IF k = Len(cache) THEN i ELSE IF k < i THEN k ELSE k + 1
<1>6. \A k \in DOMAIN r : p(k) \in DOMAIN cache /\ r[k] = cache[p(k)]
  BY <1>2, <1>3, <1>4, <1>5 DEF Place
<1>7. \A j, k \in DOMAIN r : p(j) = p(k) => j = k
  BY <1>2, <1>3, <1>4, <1>5
<1> HIDE DEF p
<1>8. GoodCache(r, documents, generation)
  BY <1>2, <1>3, <1>6, <1>7 DEF GoodCache
<1> QED
  BY <1>8 DEF r, Touch

LEMMA InsertKeeps ==
  ASSUME NEW cache, GoodCache(cache, documents, generation), NEW e, GoodEntry(e, documents, generation),
         \A i \in DOMAIN cache : cache[i].identity # e.identity
  PROVE  GoodCache(Insert(cache, e), documents, generation)
<1> DEFINE rest == IF Len(cache) >= SnapshotLimit THEN Tail(cache) ELSE cache
           r == Append(rest, e)
<1>1. /\ IsSeq(cache) /\ DOMAIN cache = 1..Len(cache) /\ Len(cache) \in Nat
      /\ Len(cache) <= SnapshotLimit /\ SnapshotLimit \in Nat \ {0}
  BY LenProperties, EngineAssumption DEF GoodCache, IsSeq
<1>2. /\ IsSeq(rest) /\ Len(rest) < SnapshotLimit
      /\ \A i \in DOMAIN rest : GoodEntry(rest[i], documents, generation) /\ rest[i].identity # e.identity
      /\ \A i, j \in DOMAIN rest : rest[i].identity = rest[j].identity => i = j
  <2>1. CASE Len(cache) >= SnapshotLimit
    <3>1. cache # <<>> /\ rest = Tail(cache)
      BY <1>1, <2>1, EmptyIsSeq
    <3>2. /\ IsSeq(rest) /\ Len(rest) = Len(cache) - 1
          /\ \A i \in DOMAIN rest : i + 1 \in DOMAIN cache /\ rest[i] = cache[i + 1]
      BY <1>1, <3>1, TailIs
    <3>3. \A i \in DOMAIN rest : i \in Nat
      BY <3>2, LenProperties DEF IsSeq
    <3> HIDE DEF rest
    <3> QED
      BY <1>1, <2>1, <3>2, <3>3 DEF GoodCache
  <2>2. CASE ~(Len(cache) >= SnapshotLimit)
    <3>1. rest = cache
      BY <2>2
    <3> HIDE DEF rest
    <3> QED
      BY <1>1, <2>2, <3>1 DEF GoodCache
  <2> QED
    BY <2>1, <2>2
<1> HIDE DEF rest
<1>3. {} \in SUBSET DOMAIN rest /\ Renewed(rest, {}, e) = r
  BY DEF Renewed
<1>4. IsSeq(r) /\ Len(r) = Len(rest) + 1
  <2>1. IsSeq(Renewed(rest, {}, e)) /\ Len(Renewed(rest, {}, e)) = Len(rest) + 1
    BY <1>2, <1>3, RenewedIs
  <2> HIDE DEF r
  <2> QED
    BY <1>3, <2>1
<1>5. DOMAIN r = 1..Len(r) /\ DOMAIN rest = 1..Len(rest) /\ Len(rest) \in Nat
  BY <1>2, <1>4, LenProperties DEF IsSeq
<1>6. \A i \in DOMAIN r : r[i] = IF i = Len(rest) + 1 THEN e ELSE rest[i]
  <2>1. rest \in Seq(Range(rest) \cup {e}) /\ e \in Range(rest) \cup {e}
    BY <1>2, SeqMonotonic DEF IsSeq
  <2> QED
    BY <1>4, <1>5, <2>1, AppendProperties
<1> HIDE DEF r
<1>7. GoodCache(r, documents, generation)
  BY <1>1, <1>2, <1>4, <1>5, <1>6 DEF GoodCache
<1> QED
  BY <1>7 DEF r, rest, Insert

GoodSelection(selected) ==
  /\ GoodSnapshots(selected.after, documents, generation)
  /\ selected.entry.identity.generation = generation

LEMMA FullSelected ==
  ASSUME NEW s, GoodSnapshots(s, documents, generation)
  PROVE  /\ GoodSelection(FullSelection(s))
         /\ FullSelection(s).entry.docs = documents
<1> DEFINE current == s.full # None /\ ~s.dirty
           full == IF current THEN s.full
                   ELSE [identity |-> Identity("full", {}, DOMAIN documents, <<>>), docs |-> documents]
           after == [cache |-> s.cache, full |-> full, dirty |-> FALSE]
<1>1. FullSelection(s) = [entry |-> full, built |-> ~current, after |-> after]
  BY DEF FullSelection
<1>2. full.docs = documents /\ full.identity.generation = generation
  BY DEF GoodSnapshots, Identity
<1> HIDE DEF full
<1>3. GoodSnapshots(after, documents, generation)
  BY <1>2 DEF GoodSnapshots
<1> QED
  BY <1>1, <1>2, <1>3 DEF GoodSelection

LEMMA ClosureSelected ==
  ASSUME NEW s, GoodSnapshots(s, documents, generation), NEW identity, identity.generation = generation
  PROVE  /\ GoodSelection(ClosureSelection(s, identity))
         /\ ClosureSelection(s, identity).entry.docs = Only(documents, identity.uris)
<1> DEFINE kept == {e \in Range(s.cache) : e.identity = identity}
           entry == IF kept # {} THEN CHOOSE e \in kept : TRUE
                    ELSE [identity |-> identity, docs |-> Only(documents, identity.uris)]
           cache == IF kept # {} THEN Touch(s.cache, entry) ELSE Insert(s.cache, entry)
           after == [s EXCEPT !.cache = cache]
<1>1. /\ ClosureSelection(s, identity).entry = entry
      /\ ClosureSelection(s, identity).after = after
  <2>1. /\ s = [cache |-> s.cache, full |-> s.full, dirty |-> s.dirty]
    BY DEF GoodSnapshots
  <2> QED
    BY <2>1 DEF ClosureSelection
<1>2. GoodCache(s.cache, documents, generation)
  BY DEF GoodSnapshots
<1>3. entry.identity = identity /\ GoodEntry(entry, documents, generation)
  <2>1. CASE kept # {}
    BY <1>2, <2>1 DEF GoodCache, Range
  <2>2. CASE kept = {}
    BY <2>2 DEF GoodEntry
  <2> QED
    BY <2>1, <2>2
<1>4. GoodCache(cache, documents, generation)
  <2>1. CASE kept # {}
    <3>1. entry \in Range(s.cache)
      BY <2>1
    <3> QED
      BY <1>2, <2>1, <3>1, TouchKeeps
  <2>2. CASE kept = {}
    <3>1. \A i \in DOMAIN s.cache : s.cache[i].identity # entry.identity
      BY <1>3, <2>2 DEF Range
    <3> HIDE DEF entry, kept
    <3> QED
      BY <1>2, <1>3, <2>2, <3>1, InsertKeeps
  <2> QED
    BY <2>1, <2>2
<1> HIDE DEF entry, cache, kept
<1>5. after = [cache |-> cache, full |-> s.full, dirty |-> s.dirty]
  <2>1. s = [cache |-> s.cache, full |-> s.full, dirty |-> s.dirty]
    BY DEF GoodSnapshots
  <2> QED
    BY <2>1
<1>6. GoodSnapshots(after, documents, generation)
  BY <1>4, <1>5 DEF GoodSnapshots
<1> QED
  BY <1>1, <1>3, <1>6 DEF GoodSelection, GoodEntry

LEMMA IndexIsIndexed ==
  ASSUME IInv
  PROVE  Index = Indexed
<1>1. discovery # None => discovery.index = Indexed
  BY DEF IInv
<1> QED
  BY <1>1 DEF Index

LEMMA IndexedIsWorkspace ==
  ASSUME IInv
  PROVE  IsWorkspace(documents) /\ IsWorkspace(Indexed)
<1>1. IsWorkspace(documents)
  BY DEF IInv, WorkspaceInv
<1> QED
  BY <1>1, OnlyIsWorkspace DEF Indexed

\* Two parts of the workspace share the documents that both have.
LEMMA PartsShare ==
  ASSUME NEW docs, NEW uris1, NEW uris2, NEW within,
         within \subseteq DOMAIN docs \cap uris1, within \subseteq uris2
  PROVE  Share(Only(docs, uris1), Only(docs, uris2), within)
BY DEF Share, Only

-----------------------------------------------------------------------------
(* Answers *)

\* A snapshot that has the closure of a document, if there is one, or else
\* everything, answers for the whole workspace.
LEMMA WholeDocument ==
  ASSUME IInv, NEW docs, NEW uri, NEW a, a.query[1] = uri,
         a.facts = FactsOf(docs, uri),
         NEW uris, docs = Only(documents, uris),
         \/ docs = documents
         \/ /\ DiscoveryDocumentClosure(Indexed, uri).complete
            /\ DiscoveryDocumentClosure(Indexed, uri).uris \subseteq uris
  PROVE  DocumentIsWhole(a, documents, Indexed)
<1>1. /\ DocumentFacts(docs, uri) \subseteq DocumentFacts(documents, uri)
      /\ DOMAIN docs \subseteq DOMAIN documents
  BY FactsGrow, OnlyShares
<1>2. a.facts \subseteq FactsOf(documents, uri)
  BY <1>1 DEF FactsOf
<1>3. /\ DocumentFacts(Indexed, uri) \subseteq DocumentFacts(documents, uri)
      /\ Share(Indexed, documents, DOMAIN Indexed)
      /\ DOMAIN Indexed = DOMAIN documents \cap config.dirs
  <2>1. /\ DOMAIN Only(documents, config.dirs) = DOMAIN documents \cap config.dirs
        /\ Share(Only(documents, config.dirs), documents, DOMAIN documents \cap config.dirs)
    BY OnlyShares
  <2> QED
    BY <2>1, FactsGrow DEF Indexed
<1>4. ASSUME ~(uri \in DOMAIN documents /\ Included(documents, uri)), uri \in DOMAIN Indexed
      PROVE  DocumentFacts(Indexed, uri) \subseteq a.facts
  <2>1. CASE docs = documents
    BY <1>3, <1>4, <2>1 DEF FactsOf
  <2>2. CASE /\ DiscoveryDocumentClosure(Indexed, uri).complete
             /\ DiscoveryDocumentClosure(Indexed, uri).uris \subseteq uris
    <3> DEFINE closure == DiscoveryDocumentClosure(Indexed, uri).uris
    <3>1. uri \in closure /\ closure \subseteq DOMAIN Indexed
      BY <2>2, CompleteIsClosure DEF IsClosure
    <3>2. Share(Indexed, docs, closure)
      <4>1. closure \subseteq DOMAIN documents \cap config.dirs /\ closure \subseteq uris
        BY <1>3, <2>2, <3>1
      <4> HIDE DEF closure
      <4> QED
        BY <4>1, PartsShare DEF Indexed
    <3>3. ~Included(Indexed, uri)
      BY <1>3, <1>4 DEF Included, Share
    <3>4. DocumentFacts(Indexed, uri) \subseteq DocumentFacts(docs, uri)
      BY <2>2, <3>2, <3>3, IndexedIsWorkspace, DocumentClosureSuffices
    <3>5. uri \in DOMAIN docs
      BY <3>1, <3>2 DEF Share
    <3> QED
      BY <3>4, <3>5 DEF FactsOf
  <2> QED
    BY <2>1, <2>2
<1>5. ~(uri \in DOMAIN documents /\ Included(documents, uri)) => FactsOf(Indexed, uri) \subseteq a.facts
  BY <1>4 DEF FactsOf
<1> QED
  BY <1>2, <1>5 DEF DocumentIsWhole

LEMMA DocumentSelected ==
  ASSUME IInv, NEW s, GoodSnapshots(s, documents, generation), NEW roots, NEW uri \in roots,
         NEW selected, selected = SnapshotForDocument(s, roots)
  PROVE  /\ GoodSelection(selected)
         /\ \A a : a.query[1] = uri /\ a.facts = FactsOf(selected.entry.docs, uri)
                   => DocumentIsWhole(a, documents, Indexed)
<1> DEFINE plan == PlanDocumentClosure(Indexed, roots, config.tops)
           identity == Identity("closure", roots, plan.uris, <<>>)
<1>1. Index = Indexed
  BY IndexIsIndexed
<1>2. CASE ~(/\ plan.complete /\ plan.uris \subseteq DOMAIN documents
             /\ Cardinality(plan.uris) < Cardinality(DOMAIN documents))
  <2>1. selected = FullSelection(s)
    BY <1>1, <1>2 DEF SnapshotForDocument
  <2>2. GoodSelection(selected) /\ selected.entry.docs = documents
    BY <2>1, FullSelected
  <2>3. documents = Only(documents, DOMAIN documents)
    BY IndexedIsWorkspace, OnlyAll
  <2> QED
    BY <2>2, <2>3, WholeDocument
<1>3. CASE /\ plan.complete /\ plan.uris \subseteq DOMAIN documents
           /\ Cardinality(plan.uris) < Cardinality(DOMAIN documents)
  <2>1. selected = ClosureSelection(s, identity)
    BY <1>1, <1>3 DEF SnapshotForDocument
  <2>2. identity.generation = generation /\ identity.uris = plan.uris
    BY DEF Identity
  <2>3. /\ DiscoveryDocumentClosure(Indexed, uri).complete
        /\ DiscoveryDocumentClosure(Indexed, uri).uris \subseteq plan.uris
    BY <1>3 DEF PlanDocumentClosure
  <2> HIDE DEF plan, identity
  <2>4. GoodSelection(selected) /\ selected.entry.docs = Only(documents, plan.uris)
    BY <2>1, <2>2, ClosureSelected
  <2> QED
    BY <2>3, <2>4, WholeDocument
<1> QED
  BY <1>2, <1>3

LEMMA ReferencesGrow ==
  ASSUME NEW docs, NEW uris, NEW name, NEW e
  PROVE  ReferenceFacts(Only(docs, uris), name, e) \subseteq ReferenceFacts(docs, name, e)
BY FactsGrow, OnlyShares DEF ReferenceFacts

LEMMA IndexedHeaders ==
  ASSUME HeadersOnlyDefine(documents)
  PROVE  HeadersOnlyDefine(Indexed)
<1>1. /\ DOMAIN Indexed = DOMAIN documents \cap config.dirs
      /\ Share(Indexed, documents, DOMAIN documents \cap config.dirs)
  BY OnlyShares DEF Indexed
<1> QED
  BY <1>1 DEF HeadersOnlyDefine, Included, Share

LEMMA ReferencesSelected ==
  ASSUME IInv, NEW s, GoodSnapshots(s, documents, generation), NEW uri, NEW name, NEW e,
         NEW selected, selected = SnapshotForReferences(s, uri, name, e)
  PROVE  /\ GoodSelection(selected)
         /\ \A a : /\ a.query[2] = name /\ a.query[3] = e
                   /\ a.facts = ReferenceFacts(selected.entry.docs, name, e)
                   /\ HeadersOnlyDefine(documents)
                   => ReferenceIsWhole(a, documents, Indexed)
<1> DEFINE plan == PlanReferenceCandidateClosure(Indexed, {uri}, config.tops, name, e)
           identity == Identity("referenceClosure", {uri}, plan.uris, <<name, e>>)
           planned == ClosureSelection(s, identity)
<1>1. Index = Indexed
  BY IndexIsIndexed
<1>2. identity.generation = generation /\ identity.uris = plan.uris
  BY DEF Identity
<1>3. GoodSelection(planned) /\ planned.entry.docs = Only(documents, plan.uris)
  <2> HIDE DEF identity
  <2> QED
    BY <1>2, ClosureSelected
<1>4. \/ selected = FullSelection(s)
      \/ selected = FullSelection(planned.after)
      \/ selected = planned /\ ~plan.requires_full
  BY <1>1 DEF SnapshotForReferences
<1> HIDE DEF planned
<1>5. GoodSnapshots(planned.after, documents, generation)
  BY <1>3 DEF GoodSelection
<1>6. CASE selected = FullSelection(s) \/ selected = FullSelection(planned.after)
  <2>1. GoodSelection(selected) /\ selected.entry.docs = documents
    BY <1>5, <1>6, FullSelected
  <2>2. ReferenceFacts(Indexed, name, e) \subseteq ReferenceFacts(documents, name, e)
    BY ReferencesGrow DEF Indexed
  <2> QED
    BY <2>1, <2>2 DEF ReferenceIsWhole, Between
<1>7. CASE selected = planned /\ ~plan.requires_full
  <2>1. ReferenceFacts(selected.entry.docs, name, e) \subseteq ReferenceFacts(documents, name, e)
    BY <1>3, <1>7, ReferencesGrow
  <2>2. Share(Indexed, selected.entry.docs, plan.uris \cap DOMAIN Indexed)
    <3>1. plan.uris \cap DOMAIN Indexed \subseteq DOMAIN documents \cap config.dirs
      BY OnlyShares DEF Indexed
    <3> HIDE DEF plan
    <3> QED
      BY <1>3, <1>7, <3>1, PartsShare DEF Indexed
  <2>3. ASSUME HeadersOnlyDefine(documents)
        PROVE  ReferenceFacts(Indexed, name, e) \subseteq ReferenceFacts(selected.entry.docs, name, e)
    BY <1>7, <2>2, <2>3, IndexedIsWorkspace, IndexedHeaders, ReferenceClosureSuffices
  <2> QED
    BY <1>3, <1>7, <2>1, <2>3 DEF ReferenceIsWhole, Between
<1> QED
  BY <1>4, <1>6, <1>7

LEMMA WholeHierarchy ==
  ASSUME NEW top, NEW a, a.query[1] = top,
         \/ a.facts = Unavailable
         \/ a.facts = HierarchyFacts(documents, top)
         \/ a.facts = HierarchyFacts(
                          Only(documents, DiscoveryDependencyClosure(Indexed, top) \cap DOMAIN documents), top)
  PROVE  HierarchyIsWhole(a, documents, Indexed)
<1> DEFINE closure == DiscoveryDependencyClosure(Indexed, top)
           docs == Only(documents, closure \cap DOMAIN documents)
<1>1. CASE a.facts = Unavailable
  BY <1>1 DEF HierarchyIsWhole
<1>2. CASE a.facts = HierarchyFacts(documents, top)
  BY <1>2, HierarchyGrows DEF HierarchyIsWhole, Between, Indexed
<1>3. CASE a.facts = HierarchyFacts(docs, top)
  <2>1. closure \cap DOMAIN Indexed \subseteq DOMAIN documents \cap config.dirs
    BY OnlyShares DEF Indexed
  <2>2. closure \cap DOMAIN Indexed \subseteq closure \cap DOMAIN documents
    BY <2>1
  <2> HIDE DEF closure
  <2>3. Share(Indexed, docs, closure \cap DOMAIN Indexed)
    BY <2>1, <2>2, PartsShare DEF Indexed
  <2> HIDE DEF docs
  <2>4. HierarchyFacts(Indexed, top) \subseteq HierarchyFacts(docs, top)
    BY <2>3, DependencyClosureSuffices DEF closure
  <2>5. HierarchyFacts(docs, top) \subseteq HierarchyFacts(documents, top)
    BY HierarchyGrows DEF docs
  <2> QED
    BY <1>3, <2>4, <2>5 DEF HierarchyIsWhole, Between
<1> QED
  BY <1>1, <1>2, <1>3

\* The top that is inferred for a whole workspace is a root of its design.
LEMMA InferredIsRoot ==
  ASSUME NEW docs, NEW tops \in SUBSET Name, AtMostOne(tops),
         NEW top, top = InferredTop(None, tops, docs), top # None
  PROVE  top \in HierarchyRoots(docs, tops)
<1> DEFINE only(set) == IF \E t \in set : set = {t} THEN CHOOSE t \in set : TRUE ELSE None
<1>1. top = IF only(tops) # None THEN only(tops) ELSE only(TopCandidates(docs))
  BY DEF InferredTop
<1>2. ASSUME NEW set, only(set) # None PROVE set = {only(set)}
  BY <1>2
<1>3. CASE tops # {}
  <2>1. PICK t \in tops : tops = {t}
    BY <1>3 DEF AtMostOne
  <2>2. only(tops) = t /\ t # None
    BY <2>1, DiscoveryAssumption
  <2> HIDE DEF only
  <2> QED
    BY <1>1, <1>3, <2>2 DEF HierarchyRoots
<1>4. CASE tops = {}
  <2> DEFINE declared == Designs(docs)
             named == UNION {docs[d].uses : d \in DOMAIN docs}
             units == {Unit(docs, d) : d \in {e \in DOMAIN docs : docs[e].key \in Design}}
             used == UNION {docs[d].uses : d \in UNION units}
  <2>1. only(tops) = None
    BY <1>4
  <2>2. TopCandidates(docs) = {top}
    <3> HIDE DEF only
    <3> QED
      BY <1>1, <1>2, <2>1
  <2>3. used \subseteq named
    <3>1. \A d \in DOMAIN docs : Unit(docs, d) \subseteq DOMAIN docs
      BY DEF Unit, Reachable
    <3> QED
      BY <3>1
  <2>4. TopCandidates(docs) = Unnamed(declared, named)
    BY DEF TopCandidates
  <2>5. HierarchyRoots(docs, tops) = Unnamed(declared, used)
    BY <1>4 DEF HierarchyRoots
  <2> HIDE DEF declared, named, used
  <2>6. top \in Unnamed(declared, used)
    BY <2>2, <2>3, <2>4 DEF Unnamed
  <2> QED
    BY <2>5, <2>6
<1> QED
  BY <1>3, <1>4

\* What is shown without a named top is that of a root, or of all.
LEMMA RootsShown ==
  ASSUME IInv, NEW a, a.query[1] = None, Indexed = documents, AtMostOne(config.tops),
         \/ a.facts \in ClosureDesignGraph(InferredTop(None, config.tops, Indexed))
         \/ \E kind \in Kind : \E tops \in Shown(kind, None, documents) :
              a.facts = UNION {HierarchyFacts(documents, t) : t \in tops}
  PROVE  RootsAreWhole(a, documents, config.tops)
<1> DEFINE roots == HierarchyRoots(documents, config.tops)
<1>1. CASE a.facts \in ClosureDesignGraph(InferredTop(None, config.tops, Indexed))
  <2> DEFINE top == InferredTop(None, config.tops, documents)
             closure == ClosureDocumentUris(documents, top) \cap DOMAIN documents
  <2>1. Index = documents
    BY IndexIsIndexed
  <2>2. closure # {} /\ a.facts \in {HierarchyFacts(Only(documents, closure), top), Unavailable}
    BY <1>1, <2>1 DEF ClosureDesignGraph
  <2>3. top \in Designs(documents) /\ ClosureDocumentUris(documents, top) = DiscoveryDependencyClosure(documents, top)
    BY <2>2 DEF ClosureDocumentUris
  <2>4. top # None
    BY <2>3, DiscoveryAssumption DEF Designs
  <2>5. config.tops \in SUBSET Name
    BY DEF IInv, WorkspaceInv
  <2>6. top \in roots
    <3> DEFINE t == top
    <3>1. t = InferredTop(None, config.tops, documents) /\ t # None
      BY <2>4
    <3> HIDE DEF t
    <3>2. t \in HierarchyRoots(documents, config.tops)
      BY <2>5, <3>1, InferredIsRoot
    <3> QED
      BY <3>2 DEF t
  <2> HIDE DEF top
  <2>7. HierarchyFacts(Only(documents, closure), top) = HierarchyFacts(documents, top)
    <3>1. Share(documents, Only(documents, closure), DiscoveryDependencyClosure(documents, top) \cap DOMAIN documents)
      BY <2>3 DEF Share, Only
    <3> HIDE DEF closure
    <3>2. HierarchyFacts(documents, top) \subseteq HierarchyFacts(Only(documents, closure), top)
      BY <3>1, DependencyClosureSuffices
    <3>3. HierarchyFacts(Only(documents, closure), top) \subseteq HierarchyFacts(documents, top)
      BY HierarchyGrows
    <3> QED
      BY <3>2, <3>3
  <2> HIDE DEF closure
  <2> QED
    BY <2>2, <2>6, <2>7 DEF RootsAreWhole
<1>2. ASSUME NEW kind \in Kind, NEW tops \in Shown(kind, None, documents),
             a.facts = UNION {HierarchyFacts(documents, t) : t \in tops}
      PROVE  RootsAreWhole(a, documents, config.tops)
  <2>1. tops = roots \/ \E t \in roots : tops = {t}
    BY <1>2 DEF Shown
  <2> HIDE DEF roots
  <2>2. tops \subseteq roots /\ (roots # {} => \E t \in roots : t \in tops)
    BY <2>1
  <2> QED
    BY <1>2, <2>2 DEF RootsAreWhole, roots
<1> QED
  BY <1>1, <1>2

LEMMA AnswersStay ==
  ASSUME UNCHANGED <<documents, config, generation, query_cache>>, GoodAnswers
  PROVE  GoodAnswers'
BY DEF GoodAnswers, Indexed

\* What is known of the answers that are kept in some cache.
Good(cache) == GoodKept(cache, documents, Indexed, config.tops, generation)

LEMMA StoredKeeps ==
  ASSUME NEW cache, Good(cache), NEW kind \in Kind, NEW entry,
         GoodAnswer(kind, entry, documents, Indexed, config.tops, generation)
  PROVE  Good(Stored(cache, kind, entry))
<1> DEFINE kept == cache[kind]
           positions == {i \in DOMAIN kept : kept[i].query = entry.query}
           all == Renewed(kept, positions, entry)
           after == IF kind # "diagnostics" /\ Len(all) > QueryLimit THEN Tail(all) ELSE all
           result == Stored(cache, kind, entry)
<1>1. result = [cache EXCEPT ![kind] = after]
  BY DEF Stored
<1>2. /\ IsSeq(kept)
      /\ \A i \in DOMAIN kept : GoodAnswer(kind, kept[i], documents, Indexed, config.tops, generation)
  BY DEF Good, GoodKept
<1>3. /\ IsSeq(all)
      /\ \A i \in DOMAIN all : all[i] = entry \/ \E j \in DOMAIN kept : all[i] = kept[j]
      /\ all # <<>>
  <2>1. positions \in SUBSET DOMAIN kept /\ all = Renewed(kept, positions, entry)
    OBVIOUS
  <2> HIDE DEF positions, kept, all
  <2>2. /\ IsSeq(all)
        /\ \A i \in DOMAIN all : all[i] = entry \/ \E j \in DOMAIN kept : all[i] = kept[j]
        /\ positions = {} => Len(all) = Len(kept) + 1
        /\ positions # {} => Len(all) = Len(kept)
    BY <1>2, <2>1, RenewedIs
  <2>3. DOMAIN kept = 1..Len(kept) /\ Len(kept) \in Nat
    BY <1>2, LenProperties DEF IsSeq
  <2>4. Len(all) # 0
    BY <2>1, <2>2, <2>3
  <2> QED
    BY <2>2, <2>4, EmptyIsSeq
<1> HIDE DEF kept, positions, all
<1>4. IsSeq(after) /\ \A i \in DOMAIN after : \E j \in DOMAIN all : after[i] = all[j]
  BY <1>3, TailIs
<1>5. \A i \in DOMAIN after : GoodAnswer(kind, after[i], documents, Indexed, config.tops, generation)
  BY <1>2, <1>3, <1>4
<1> HIDE DEF after, result
<1>6. result = [k \in Kind |-> IF k = kind THEN after ELSE cache[k]]
  BY <1>1 DEF Good, GoodKept
<1>7. ASSUME NEW k \in Kind
      PROVE  /\ result[k] = IF k = kind THEN after ELSE cache[k]
             /\ IsSeq(result[k])
             /\ \A i \in DOMAIN result[k] :
                  GoodAnswer(k, result[k][i], documents, Indexed, config.tops, generation)
  BY <1>4, <1>5, <1>6 DEF Good, GoodKept
<1>8. result = [k \in Kind |-> result[k]]
  BY <1>6
<1> QED
  BY <1>7, <1>8 DEF Good, GoodKept, result

LEMMA GoodIsKept ==
  ASSUME UNCHANGED <<documents, config, generation>>, Good(query_cache')
  PROVE  GoodAnswers'
<1>1. Indexed' = Indexed
  BY DEF Indexed
<1> QED
  BY <1>1 DEF Good, GoodAnswers

LEMMA AnswerKeeps ==
  ASSUME GoodAnswers, UNCHANGED <<documents, config, generation>>,
         NEW kind \in Kind, NEW query, NEW g, NEW facts, NEW incomplete,
         GoodAnswer(kind, Entry(query, g, facts, incomplete),
                    documents, Indexed, config.tops, generation),
         Answer(kind, query, g, facts, incomplete)
  PROVE  GoodAnswers'
<1>1. CASE UNCHANGED query_cache
  BY <1>1, AnswersStay
<1>2. CASE query_cache' = Stored(query_cache, kind, Entry(query, g, facts, incomplete))
  <2>1. Good(query_cache')
    BY <1>2, StoredKeeps DEF GoodAnswers, Good
  <2> QED
    BY <2>1, GoodIsKept
<1> QED
  BY <1>1, <1>2 DEF Answer

-----------------------------------------------------------------------------
(* Changes *)

LEMMA InitInv == Init => IInv
<1> SUFFICES ASSUME Init PROVE IInv
  OBVIOUS
<1>1. WorkspaceInv
  BY EngineAssumption DEF Init, WorkspaceInv
<1>2. GoodAnswers
  BY NoAnswersAreGood DEF Init
<1>3. GoodSnapshots(snapshots, documents, generation)
  BY EmptyIsSeq, EngineAssumption DEF Init, GoodSnapshots, GoodCache
<1> QED
  BY <1>1, <1>2, <1>3 DEF IInv, Init

\* After a change there is nothing left that could be out of date.
LEMMA NothingIsCurrent ==
  ASSUME WorkspaceInv', discovery' = None, query_cache' = NoAnswers,
         NEW full, snapshots' = [cache |-> <<>>, full |-> full, dirty |-> TRUE]
  PROVE  IInv'
<1>1. GoodAnswers'
  BY EmptyIsSeq DEF NoAnswers, GoodAnswers, GoodKept
<1>2. GoodSnapshots(snapshots, documents, generation)'
  BY EmptyIsSeq, EngineAssumption DEF GoodSnapshots, GoodCache
<1> QED
  BY <1>1, <1>2 DEF IInv

LEMMA ClearInv ==
  ASSUME IInv, Clear
  PROVE  IInv'
<1>1. WorkspaceInv'
  BY FS_EmptySet DEF Clear, WorkspaceInv, IsWorkspace
<1> QED
  BY <1>1, NothingIsCurrent DEF Clear

LEMMA SetWorkspaceRootInv ==
  ASSUME IInv, SetWorkspaceRoot
  PROVE  IInv'
<1>1. WorkspaceInv'
  BY DEF SetWorkspaceRoot, WorkspaceInv, IInv
<1> QED
  BY <1>1, NothingIsCurrent DEF SetWorkspaceRoot, Invalidate

LEMMA ConfigureInv ==
  ASSUME IInv, NEW c \in Config, Configure(c)
  PROVE  IInv'
<1>1. WorkspaceInv'
  BY EngineAssumption DEF Configure, WorkspaceInv, IInv
<1> QED
  BY <1>1, NothingIsCurrent DEF Configure, Invalidate

LEMMA UpdateDocumentInv ==
  ASSUME IInv, NEW t \in Text, UpdateDocument(t[1], t[2])
  PROVE  IInv'
<1>1. t[1] \in Document /\ t[2] \in Content
  BY EngineAssumption
<1>2. IsWorkspace(documents) /\ config.dirs \subseteq Document /\ config.tops \subseteq Name
  BY DEF IInv, WorkspaceInv
<1>3. IsFiniteSet(DOMAIN documents \cup {t[1]})
  BY <1>2, FS_AddElement DEF IsWorkspace
<1>4. WorkspaceInv'
  BY <1>1, <1>2, <1>3 DEF UpdateDocument, WorkspaceInv, IsWorkspace
<1> QED
  BY <1>4, NothingIsCurrent DEF UpdateDocument, Invalidate

LEMMA RemoveDocumentInv ==
  ASSUME IInv, NEW uri, RemoveDocument(uri)
  PROVE  IInv'
<1>1. IsWorkspace(documents) /\ config.dirs \subseteq Document /\ config.tops \subseteq Name
  BY DEF IInv, WorkspaceInv
<1>2. WorkspaceInv'
  BY <1>1, OnlyIsWorkspace DEF RemoveDocument, WorkspaceInv
<1> QED
  BY <1>2, NothingIsCurrent DEF RemoveDocument, Invalidate

-----------------------------------------------------------------------------
(* Queries *)

\* What a query must keep while the documents are unchanged.
LEMMA QueryInv ==
  ASSUME IInv, UNCHANGED <<documents, config, generation>>,
         UNCHANGED discovery \/ ViewDiscovery,
         GoodSnapshots(snapshots', documents, generation),
         GoodAnswers'
  PROVE  IInv'
<1>1. Indexed' = Indexed
  BY DEF Indexed
<1>2. (discovery # None => discovery.index = Indexed)'
  BY <1>1, IndexIsIndexed DEF IInv, ViewDiscovery
<1>3. WorkspaceInv'
  BY DEF IInv, WorkspaceInv
<1>4. GoodSnapshots(snapshots, documents, generation)'
  OBVIOUS
<1> QED
  BY <1>2, <1>3, <1>4 DEF IInv

LEMMA DocumentAnswerIsGood ==
  ASSUME IInv, NEW kind \in DocumentKind, NEW r \in Request
  PROVE  LET selected == SnapshotForDocument(snapshots, r.roots)
         IN /\ GoodSelection(selected)
            /\ GoodAnswer(kind, Entry(<<r.uri>>, selected.entry.identity.generation,
                                      FactsOf(selected.entry.docs, r.uri), FALSE),
                          documents, Indexed, config.tops, generation)
<1> DEFINE selected == SnapshotForDocument(snapshots, r.roots)
           a == Entry(<<r.uri>>, selected.entry.identity.generation,
                      FactsOf(selected.entry.docs, r.uri), FALSE)
<1>1. r.uri \in r.roots /\ GoodSnapshots(snapshots, documents, generation)
  BY EngineAssumption DEF IInv
<1>2. /\ a.query[1] = r.uri /\ a.facts = FactsOf(selected.entry.docs, r.uri)
      /\ a.generation = selected.entry.identity.generation
  BY DEF Entry
<1>3. selected = SnapshotForDocument(snapshots, r.roots)
  OBVIOUS
<1> HIDE DEF a, selected
<1>4. GoodSelection(selected) /\ DocumentIsWhole(a, documents, Indexed)
  BY <1>1, <1>2, <1>3, DocumentSelected
<1>5. GoodAnswer(kind, a, documents, Indexed, config.tops, generation)
  BY <1>2, <1>4 DEF GoodAnswer, GoodSelection, DocumentKind
<1> QED
  BY <1>4, <1>5 DEF a, selected

LEMMA DocumentQueryInv ==
  ASSUME IInv, NEW kind \in DocumentKind, NEW r \in Request, DocumentQuery(kind, r.uri, r.roots)
  PROVE  IInv'
<1> DEFINE selected == SnapshotForDocument(snapshots, r.roots)
           facts == FactsOf(selected.entry.docs, r.uri)
           g == selected.entry.identity.generation
           a == Entry(<<r.uri>>, g, facts, FALSE)
<1>1. /\ Ready /\ snapshots' = selected.after
      /\ Answer(kind, <<r.uri>>, g, facts, FALSE)
  BY DEF DocumentQuery
<1>2. GoodSnapshots(snapshots, documents, generation) /\ GoodAnswers
  BY DEF IInv
<1>3. GoodSelection(selected) /\ GoodAnswer(kind, a, documents, Indexed, config.tops, generation)
  BY DocumentAnswerIsGood
<1> HIDE DEF selected, facts, a
<1>4. GoodAnswers'
  BY <1>1, <1>2, <1>3, AnswerKeeps DEF Kind, Ready, a
<1> QED
  BY <1>1, <1>3, <1>4, QueryInv DEF Ready, GoodSelection

LEMMA CodeActionsAtInv ==
  ASSUME IInv, NEW r \in Request, CodeActionsAt(r.uri, r.roots)
  PROVE  IInv'
<1> DEFINE selected == SnapshotForDocument(snapshots, r.roots)
           facts == FactsOf(selected.entry.docs, r.uri)
           g == selected.entry.identity.generation
           a == Entry(<<r.uri>>, g, facts, FALSE)
           told == IF Cached("diagnostics", <<r.uri>>, g) # {} THEN query_cache
                   ELSE Stored(query_cache, "diagnostics", a)
<1>1. /\ Ready /\ snapshots' = selected.after
      /\ UNCHANGED query_cache \/ query_cache' = Stored(told, "codeActions", a)
  BY DEF CodeActionsAt
<1>2. GoodSnapshots(snapshots, documents, generation) /\ GoodAnswers
  BY DEF IInv
<1>3. GoodSelection(selected)
  BY DocumentAnswerIsGood DEF DocumentKind
<1>4. \A kind \in DocumentKind : GoodAnswer(kind, a, documents, Indexed, config.tops, generation)
  BY DocumentAnswerIsGood
<1> HIDE DEF selected, facts, a
<1>5. Good(told)
  <2>1. "diagnostics" \in DocumentKind /\ "diagnostics" \in Kind
    BY DEF DocumentKind, Kind
  <2>2. Good(query_cache)
    BY <1>2 DEF GoodAnswers, Good
  <2> QED
    BY <1>4, <2>1, <2>2, StoredKeeps
<1> HIDE DEF told
<1>6. Good(Stored(told, "codeActions", a))
  BY <1>4, <1>5, StoredKeeps DEF DocumentKind, Kind
<1>7. GoodAnswers'
  BY <1>1, <1>2, <1>6, AnswersStay, GoodIsKept DEF Ready
<1> QED
  BY <1>1, <1>3, <1>7, QueryInv DEF Ready, GoodSelection

LEMMA UnkeptDocumentQueryInv ==
  ASSUME IInv, NEW r \in Request, UnkeptDocumentQuery(r.uri, r.roots)
  PROVE  IInv'
<1> DEFINE selected == SnapshotForDocument(snapshots, r.roots)
<1>1. Ready /\ snapshots' = selected.after /\ UNCHANGED query_cache
  BY DEF UnkeptDocumentQuery
<1>2. GoodSelection(selected)
  BY DocumentAnswerIsGood DEF DocumentKind
<1> HIDE DEF selected
<1>3. GoodAnswers'
  BY <1>1, AnswersStay DEF IInv, Ready
<1> QED
  BY <1>1, <1>2, <1>3, QueryInv DEF Ready, GoodSelection

LEMMA WorkspaceQueryInv ==
  ASSUME IInv, WorkspaceQuery, GoodAnswers'
  PROVE  IInv'
<1>1. /\ snapshots' = FullSelection(snapshots).after
      /\ UNCHANGED <<documents, config, generation, discovery>>
  BY DEF WorkspaceQuery
<1>2. GoodSelection(FullSelection(snapshots))
  BY FullSelected DEF IInv
<1> QED
  BY <1>1, <1>2, QueryInv DEF GoodSelection

LEMMA UnkeptWorkspaceQueryInv ==
  ASSUME IInv, LookupAt \/ CallHierarchy
  PROVE  IInv'
<1>1. WorkspaceQuery /\ UNCHANGED <<documents, config, generation, query_cache>>
  BY DEF LookupAt, CallHierarchy, WorkspaceQuery
<1>2. GoodAnswers'
  BY <1>1, AnswersStay DEF IInv
<1> QED
  BY <1>1, <1>2, WorkspaceQueryInv

LEMMA WorkspaceSymbolsInv ==
  ASSUME IInv, WorkspaceSymbols
  PROVE  IInv'
<1> DEFINE entry == FullSelection(snapshots).entry
           facts == UNION {{<<n, d>> : n \in VisibleNames(entry.docs[d])} : d \in DOMAIN entry.docs}
           g == entry.identity.generation
           a == Entry(<<>>, g, facts, FALSE)
<1>1. /\ WorkspaceQuery
      /\ Answer("workspaceSymbols", <<>>, g, facts, FALSE)
  BY DEF WorkspaceSymbols
<1>2. GoodAnswers /\ UNCHANGED <<documents, config, generation>>
  BY <1>1 DEF IInv, WorkspaceQuery
<1>3. g = generation
  BY FullSelected DEF IInv, GoodSelection
<1> HIDE DEF facts, g
<1>4. GoodAnswer("workspaceSymbols", a, documents, Indexed, config.tops, generation)
  BY <1>3 DEF GoodAnswer, Entry, DocumentKind, WorkspaceKind
<1>5. GoodAnswers'
  BY <1>1, <1>2, <1>4, AnswerKeeps DEF Kind
<1> QED
  BY <1>1, <1>5, WorkspaceQueryInv

LEMMA PlaceQueryInv ==
  ASSUME IInv, NEW kind \in WorkspaceKind, NEW uri, PlaceQuery(kind, uri)
  PROVE  IInv'
<1> DEFINE entry == FullSelection(snapshots).entry
           facts == FactsOf(entry.docs, uri)
           g == entry.identity.generation
           a == Entry(<<uri>>, g, facts, FALSE)
<1>1. WorkspaceQuery /\ Answer(kind, <<uri>>, g, facts, FALSE)
  BY DEF PlaceQuery
<1>2. GoodAnswers /\ UNCHANGED <<documents, config, generation>>
  BY <1>1 DEF IInv, WorkspaceQuery
<1>3. g = generation /\ facts = FactsOf(documents, uri)
  BY FullSelected DEF IInv, GoodSelection
<1>4. a.query[1] = uri /\ a.facts = FactsOf(documents, uri) /\ a.generation = generation
  BY <1>3 DEF Entry
<1> HIDE DEF a, facts, g, entry
<1>5. DocumentIsWhole(a, documents, Indexed)
  <2>1. documents = Only(documents, DOMAIN documents)
    BY IndexedIsWorkspace, OnlyAll
  <2> QED
    BY <1>4, <2>1, WholeDocument
<1>6. GoodAnswer(kind, a, documents, Indexed, config.tops, generation)
  BY <1>4, <1>5 DEF GoodAnswer, WorkspaceKind
<1>7. GoodAnswers'
  BY <1>1, <1>2, <1>6, AnswerKeeps DEF Kind, a
<1> QED
  BY <1>1, <1>7, WorkspaceQueryInv

LEMMA ReferenceQueryInv ==
  ASSUME IInv, NEW kind \in {"references", "rename"}, NEW uri, NEW name, ReferenceQuery(kind, uri, name)
  PROVE  IInv'
<1> DEFINE base == SnapshotForDocument(snapshots, {uri})
           targets == Targets(base.entry.docs, uri, name)
<1>1. GoodSnapshots(snapshots, documents, generation) /\ GoodAnswers
  BY DEF IInv
<1>2. GoodSelection(base)
  <2> DEFINE s == base
  <2>1. s = SnapshotForDocument(snapshots, {uri}) /\ uri \in {uri}
    OBVIOUS
  <2> HIDE DEF s
  <2> QED
    BY <1>1, <2>1, DocumentSelected
<1>3. CASE /\ Ready /\ snapshots' = base.after
           /\ Answer(kind, <<uri, name, None, base.entry.identity>>,
                     base.entry.identity.generation, {}, FALSE)
  <2> DEFINE query == <<uri, name, None, base.entry.identity>>
             g == base.entry.identity.generation
             a == Entry(query, g, {}, FALSE)
  <2>1. a.query[3] = None /\ a.generation = g
    BY DEF Entry
  <2> HIDE DEF query, base, a
  <2>2. GoodAnswer(kind, a, documents, Indexed, config.tops, generation)
    BY <1>2, <2>1 DEF GoodAnswer, GoodSelection, ReferenceIsWhole, DocumentKind, WorkspaceKind
  <2>3. GoodAnswers'
    BY <1>1, <1>3, <2>2, AnswerKeeps DEF Kind, Ready, query, a
  <2> QED
    BY <1>2, <1>3, <2>3, QueryInv DEF Ready, GoodSelection
<1>4. ASSUME NEW e, NEW selected, selected = SnapshotForReferences(base.after, uri, name, e),
             Ready, snapshots' = selected.after,
             Answer(kind, <<uri, name, e, selected.entry.identity>>,
                    selected.entry.identity.generation,
                    ReferenceFacts(selected.entry.docs, name, e), FALSE)
      PROVE  IInv'
  <2> DEFINE query == <<uri, name, e, selected.entry.identity>>
             g == selected.entry.identity.generation
             facts == ReferenceFacts(selected.entry.docs, name, e)
             a == Entry(query, g, facts, FALSE)
  <2>1. GoodSnapshots(base.after, documents, generation)
    BY <1>2 DEF GoodSelection
  <2>2. a.query[2] = name /\ a.query[3] = e /\ a.facts = facts /\ a.generation = g
    BY DEF Entry
  <2> HIDE DEF base, query, a
  <2>3. /\ GoodSelection(selected)
        /\ HeadersOnlyDefine(documents) => ReferenceIsWhole(a, documents, Indexed)
    BY <1>4, <2>1, <2>2, ReferencesSelected
  <2> HIDE DEF facts, a
  <2>4. GoodAnswer(kind, a, documents, Indexed, config.tops, generation)
    BY <2>2, <2>3 DEF GoodAnswer, GoodSelection, DocumentKind, WorkspaceKind
  <2>5. GoodAnswers'
    BY <1>1, <1>4, <2>4, AnswerKeeps DEF Kind, Ready, query, facts, a
  <2> QED
    BY <1>4, <2>3, <2>5, QueryInv DEF Ready, GoodSelection
<1> QED
  BY <1>3, <1>4 DEF ReferenceQuery

\* A plan that does not have a document of a candidate says so.
LEMMA CompletionSelected ==
  ASSUME IInv, NEW uri, NEW prefix \in Prefix,
         NEW selected, selected = SnapshotForCompletion(snapshots, uri, prefix),
         NEW a, a.query[2] = prefix, a.facts = Candidates(selected.entry.docs, prefix),
         a.incomplete = (selected.entry.identity.scope # "full" /\ selected.entry.identity.seed[3])
  PROVE  CompletionSaysSo(a, documents, Indexed)
<1> DEFINE plan == PlanWorkspaceCompletionClosure(Indexed, {uri}, config.tops, prefix)
           identity == Identity("workspaceCompletion", {uri}, plan.uris,
                                <<prefix, plan.added, plan.incomplete>>)
<1>1. Index = Indexed
  BY IndexIsIndexed
<1>2. GoodSnapshots(snapshots, documents, generation)
  BY DEF IInv
<1>3. \A uris : Candidates(Only(documents, uris), prefix) \subseteq Candidates(documents, prefix)
  BY DEF Candidates, Only
<1>4. CASE selected = FullSelection(snapshots)
  <2>1. selected.entry.docs = documents
    BY <1>2, <1>4, FullSelected
  <2> QED
    BY <1>3, <2>1 DEF CompletionSaysSo, Indexed
<1>5. CASE plan.complete /\ selected = ClosureSelection(snapshots, identity)
  <2>1. /\ identity.generation = generation /\ identity.uris = plan.uris
        /\ identity.scope # "full" /\ identity.seed[3] = plan.incomplete
    BY DEF Identity
  <2>2. /\ selected.entry.docs = Only(documents, identity.uris)
        /\ selected.entry.identity = identity
    <3> HIDE DEF identity
    <3>1. selected.entry.docs = Only(documents, identity.uris)
      BY <1>2, <1>5, <2>1, ClosureSelected
    <3>2. selected.entry.identity = identity
      BY <1>5 DEF ClosureSelection
    <3> QED
      BY <3>1, <3>2
  <2>3. ~plan.incomplete =>
          \A c \in Candidates(Indexed, prefix) : c[2] \in plan.uris
    <3> DEFINE candidates == SetToSeq(Candidates(Indexed, prefix))
               limited == Len(candidates) > CandidateLimit[prefix]
               planned == IF limited THEN SubSeq(candidates, 1, CandidateLimit[prefix]) ELSE candidates
               base == PlanDocumentClosure(Indexed, {uri}, config.tops)
               first == [uris |-> base.uris, complete |-> TRUE, incomplete |-> limited, added |-> 0]
    <3>1. /\ Len(candidates) \in Nat
          /\ \A c \in Candidates(Indexed, prefix) : \E k \in 1..Len(candidates) : candidates[k] = c
      BY IndexedIsWorkspace, CandidatesInSequence
    <3>2. plan = AddCandidates(first, Indexed, planned)
      BY <1>5 DEF PlanWorkspaceCompletionClosure
    <3>3. Len(planned) \in Nat
      <4>1. CASE limited
        <5>1. CandidateLimit[prefix] \in Nat
          BY DiscoveryAssumption
        <5> DEFINE m == CandidateLimit[prefix]
                   S == {candidates[k] : k \in 1..m}
        <5>2. Len(SubSeq(candidates, 1, m)) \in Nat
          <6>1. 1 \in Int /\ m \in Int /\ \A k \in 1..m : candidates[k] \in S
            BY <5>1
          <6> HIDE DEF m, S, candidates
          <6>2. SubSeq(candidates, 1, m) \in Seq(S)
            BY <6>1, SubSeqProperties
          <6> QED
            BY <6>2, LenProperties
        <5> QED
          BY <4>1, <5>2
      <4>2. CASE ~limited
        BY <3>1, <4>2
      <4> QED
        BY <4>1, <4>2
    <3> HIDE DEF limited, candidates, base, plan
    <3>4. ~plan.incomplete => ~limited /\ \A k \in 1..Len(planned) : planned[k][2] \in plan.uris
      <4> HIDE DEF planned
      <4> QED
        BY <3>2, <3>3, CandidatesAreAdded
    <3> QED
      BY <3>1, <3>4
  <2> HIDE DEF identity, plan
  <2>4. a.facts = Candidates(Only(documents, plan.uris), prefix) /\ (~a.incomplete => ~plan.incomplete)
    BY <2>1, <2>2
  <2>5. ASSUME ~plan.incomplete, NEW c \in Candidates(Indexed, prefix)
        PROVE  c \in Candidates(Only(documents, plan.uris), prefix)
    <3>1. PICK d \in DOMAIN Indexed : Indexed[d].key \in Matches[prefix] /\ c = <<Indexed[d].key, d>>
      BY DEF Candidates
    <3>2. d \in plan.uris /\ d \in DOMAIN documents /\ Indexed[d] = documents[d]
      BY <2>3, <2>5, <3>1 DEF Indexed, Only
    <3> QED
      BY <3>1, <3>2 DEF Candidates, Only
  <2>6. ~plan.incomplete => Candidates(Indexed, prefix) \subseteq a.facts
    BY <2>4, <2>5
  <2> QED
    BY <1>3, <2>4, <2>6 DEF CompletionSaysSo
<1> QED
  BY <1>1, <1>4, <1>5 DEF SnapshotForCompletion

LEMMA CompletionsAtInv ==
  ASSUME IInv, NEW uri, NEW prefix \in Prefix, CompletionsAt(uri, prefix)
  PROVE  IInv'
<1> DEFINE selected == SnapshotForCompletion(snapshots, uri, prefix)
           query == <<uri, prefix, selected.entry.identity>>
           g == selected.entry.identity.generation
           facts == Candidates(selected.entry.docs, prefix)
           incomplete == selected.entry.identity.scope # "full" /\ selected.entry.identity.seed[3]
           a == Entry(query, g, facts, incomplete)
<1>1. /\ Ready /\ snapshots' = selected.after
      /\ Answer("completions", query, g, facts, incomplete)
  BY DEF CompletionsAt
<1>2. GoodSnapshots(snapshots, documents, generation) /\ GoodAnswers
  BY DEF IInv
<1>3. GoodSelection(selected)
  <2> DEFINE plan == PlanWorkspaceCompletionClosure(Index, {uri}, config.tops, prefix)
             identity == Identity("workspaceCompletion", {uri}, plan.uris,
                                  <<prefix, plan.added, plan.incomplete>>)
  <2>1. selected = FullSelection(snapshots) \/ selected = ClosureSelection(snapshots, identity)
    BY DEF SnapshotForCompletion
  <2>2. identity.generation = generation
    BY DEF Identity
  <2> HIDE DEF selected, identity
  <2> QED
    BY <1>2, <2>1, <2>2, FullSelected, ClosureSelected
<1>6. CompletionSaysSo(a, documents, Indexed)
  <2> DEFINE s == selected
  <2>1. s = SnapshotForCompletion(snapshots, uri, prefix)
    OBVIOUS
  <2>2. /\ a.query[2] = prefix /\ a.facts = Candidates(s.entry.docs, prefix)
        /\ a.incomplete = (s.entry.identity.scope # "full" /\ s.entry.identity.seed[3])
    BY DEF Entry
  <2> HIDE DEF a, s
  <2> QED
    BY <2>1, <2>2, CompletionSelected
<1> HIDE DEF selected, query, facts, incomplete
<1>4. GoodAnswer("completions", a, documents, Indexed, config.tops, generation)
  BY <1>3, <1>6 DEF GoodAnswer, GoodSelection, Entry, DocumentKind, WorkspaceKind
<1>5. GoodAnswers'
  BY <1>1, <1>2, <1>4, AnswerKeeps DEF Kind, Ready
<1> QED
  BY <1>1, <1>3, <1>5, QueryInv DEF Ready, GoodSelection

LEMMA ResolveCompletionInv ==
  ASSUME IInv, ResolveCompletion
  PROVE  IInv'
<1> DEFINE found == Resolution \cap Range(snapshots.cache)
           cache == IF found = {} THEN snapshots.cache
                    ELSE Touch(snapshots.cache, CHOOSE e \in found : TRUE)
<1>1. /\ snapshots' = [snapshots EXCEPT !.cache = cache]
      /\ UNCHANGED <<documents, config, generation, discovery, query_cache>>
  BY DEF ResolveCompletion
<1>2. GoodSnapshots(snapshots, documents, generation) /\ GoodAnswers
  BY DEF IInv
<1>3. GoodCache(cache, documents, generation)
  <2>1. found # {} => (CHOOSE e \in found : TRUE) \in Range(snapshots.cache)
    OBVIOUS
  <2> QED
    BY <1>2, <2>1, TouchKeeps DEF GoodSnapshots
<1> HIDE DEF cache
<1>4. snapshots' = [cache |-> cache, full |-> snapshots.full, dirty |-> snapshots.dirty]
  <2>1. snapshots = [cache |-> snapshots.cache, full |-> snapshots.full, dirty |-> snapshots.dirty]
    BY <1>2 DEF GoodSnapshots
  <2> QED
    BY <1>1, <2>1
<1>5. GoodSnapshots(snapshots', documents, generation)
  BY <1>2, <1>3, <1>4 DEF GoodSnapshots
<1>6. GoodAnswers'
  BY <1>1, <1>2, AnswersStay
<1> QED
  BY <1>1, <1>5, <1>6, QueryInv

LEMMA HierarchyQueryInv ==
  ASSUME IInv, NEW kind \in {"moduleHierarchy", "schematic"}, NEW requested, HierarchyQuery(kind, requested)
  PROVE  IInv'
<1> DEFINE top == InferredTop(requested, config.tops, Indexed)
           selected == FullSelection(snapshots)
           answer(g, facts) == Entry(<<requested>>, g, facts, FALSE)
<1>1. Index = Indexed
  BY IndexIsIndexed
<1>2. GoodSnapshots(snapshots, documents, generation) /\ GoodAnswers
  BY DEF IInv
<1>3. Ready
  BY DEF HierarchyQuery
<1>4. kind \in Kind /\ kind \notin DocumentKind \cup WorkspaceKind \cup {"references", "rename"}
  BY DEF Kind, DocumentKind, WorkspaceKind
<1>5. \A g, facts : /\ answer(g, facts).query[1] = requested
                    /\ answer(g, facts).facts = facts /\ answer(g, facts).generation = g
  BY DEF Entry
<1>6. requested # None => top = requested
  BY DEF InferredTop
<1>7. CASE UNCHANGED <<query_cache, snapshots>>
  <2>1. GoodAnswers'
    BY <1>2, <1>3, <1>7, AnswersStay DEF Ready
  <2> QED
    BY <1>2, <1>3, <1>7, <2>1, QueryInv DEF Ready
<1>8. ASSUME NEW facts \in ClosureDesignGraph(top), UNCHANGED snapshots,
             Answer(kind, <<requested>>, generation, facts, FALSE)
      PROVE  IInv'
  <2> DEFINE a == answer(generation, facts)
             closure == ClosureDocumentUris(Indexed, top) \cap DOMAIN documents
  <2>1. a.query[1] = requested /\ a.facts = facts /\ a.generation = generation
    BY <1>5
  <2>2. closure # {} /\ facts \in {HierarchyFacts(Only(documents, closure), top), Unavailable}
    BY <1>1, <1>8 DEF ClosureDesignGraph
  <2>3. closure = DiscoveryDependencyClosure(Indexed, top) \cap DOMAIN documents
    BY <2>2 DEF ClosureDocumentUris
  <2> HIDE DEF a, closure, answer, top
  <2>4. HierarchyIsWhole(a, documents, Indexed)
    <3>1. CASE requested = None
      BY <2>1, <3>1 DEF HierarchyIsWhole
    <3>2. CASE requested # None
      <4>1. top = requested
        BY <1>6, <3>2
      <4> QED
        BY <2>1, <2>2, <2>3, <4>1, WholeHierarchy
    <3> QED
      BY <3>1, <3>2
  <2>5. Indexed = documents /\ AtMostOne(config.tops) => RootsAreWhole(a, documents, config.tops)
    <3>1. CASE requested = None
      <4>1. facts \in ClosureDesignGraph(InferredTop(None, config.tops, Indexed))
        BY <1>8, <3>1 DEF top
      <4> QED
        BY <2>1, <3>1, <4>1, RootsShown
    <3>2. CASE requested # None
      BY <2>1, <3>2 DEF RootsAreWhole
    <3> QED
      BY <3>1, <3>2
  <2>6. GoodAnswer(kind, a, documents, Indexed, config.tops, generation)
    BY <1>4, <2>1, <2>4, <2>5 DEF GoodAnswer
  <2>7. GoodAnswers'
    BY <1>2, <1>3, <1>4, <1>8, <2>6, AnswerKeeps DEF Ready, a, answer
  <2> QED
    BY <1>2, <1>3, <1>8, <2>7, QueryInv DEF Ready
<1>9. ASSUME NEW tops \in Shown(kind, requested, selected.entry.docs), snapshots' = selected.after,
             Answer(kind, <<requested>>, selected.entry.identity.generation,
                    UNION {HierarchyFacts(selected.entry.docs, t) : t \in tops}, FALSE)
      PROVE  IInv'
  <2> DEFINE facts == UNION {HierarchyFacts(documents, t) : t \in tops}
             a == answer(generation, facts)
  <2>1. GoodSelection(selected) /\ selected.entry.docs = documents
    BY <1>2, FullSelected
  <2>2. selected.entry.identity.generation = generation
    BY <2>1 DEF GoodSelection
  <2> HIDE DEF selected
  <2>3. tops \in Shown(kind, requested, documents) /\ Answer(kind, <<requested>>, generation, facts, FALSE)
    BY <1>9, <2>1, <2>2
  <2>4. a.query[1] = requested /\ a.facts = facts /\ a.generation = generation
    BY <1>5
  <2> HIDE DEF a, answer
  <2>5. HierarchyIsWhole(a, documents, Indexed)
    <3>1. CASE requested = None
      BY <2>4, <3>1 DEF HierarchyIsWhole
    <3>2. CASE requested # None
      <4>1. tops = {requested}
        BY <2>3, <3>2 DEF Shown
      <4>2. a.facts = HierarchyFacts(documents, requested)
        BY <2>4, <4>1
      <4> QED
        BY <2>4, <4>2, WholeHierarchy
    <3> QED
      BY <3>1, <3>2
  <2>6. Indexed = documents /\ AtMostOne(config.tops) => RootsAreWhole(a, documents, config.tops)
    <3>1. CASE requested = None
      BY <1>4, <2>3, <2>4, <3>1, RootsShown
    <3>2. CASE requested # None
      BY <2>4, <3>2 DEF RootsAreWhole
    <3> QED
      BY <3>1, <3>2
  <2>7. GoodAnswer(kind, a, documents, Indexed, config.tops, generation)
    BY <1>4, <2>4, <2>5, <2>6 DEF GoodAnswer
  <2> HIDE DEF facts
  <2>8. GoodAnswers'
    BY <1>2, <1>3, <1>4, <2>3, <2>7, AnswerKeeps DEF Ready, a, answer
  <2> QED
    BY <1>3, <1>9, <2>1, <2>8, QueryInv DEF Ready, GoodSelection
<1> QED
  BY <1>1, <1>7, <1>8, <1>9 DEF HierarchyQuery

LEMMA InterruptInv ==
  ASSUME IInv, NEW uri, Interrupt(uri)
  PROVE  IInv'
<1> DEFINE base == SnapshotForDocument(snapshots, {uri})
<1>1. GoodSnapshots(snapshots, documents, generation) /\ GoodAnswers
  BY DEF IInv
<1>2. GoodSnapshots(base.after, documents, generation)
  <2> DEFINE s == base
  <2>1. s = SnapshotForDocument(snapshots, {uri}) /\ uri \in {uri}
    OBVIOUS
  <2> HIDE DEF s
  <2>2. GoodSelection(s)
    BY <1>1, <2>1, DocumentSelected
  <2> QED
    BY <2>2 DEF s, GoodSelection
<1>3. Ready /\ (UNCHANGED snapshots \/ snapshots' = base.after) /\ UNCHANGED query_cache
  BY DEF Interrupt
<1> HIDE DEF base
<1>4. GoodSnapshots(snapshots', documents, generation)
  BY <1>1, <1>2, <1>3
<1>5. GoodAnswers'
  BY <1>1, <1>3, AnswersStay DEF Ready
<1> QED
  BY <1>3, <1>4, <1>5, QueryInv DEF Ready

-----------------------------------------------------------------------------
(* The last completion item *)

\* A snapshot is in the cache, and what was used after it is among others.
Latest(cache, id, others) ==
  \E i \in DOMAIN cache :
    /\ cache[i].identity = id
    /\ \A j \in DOMAIN cache : j > i => cache[j].identity \in others

\* A snapshot is there while fewer others were used than are kept.
Fresh(s, id, others) ==
  Cardinality(others) < SnapshotLimit =>
    (~s.dirty /\ s.full.identity = id) \/ Latest(s.cache, id, others)

\* The snapshot of all documents has one identity until a change.
FullIsFull(s) == ~s.dirty => s.full.identity = Identity("full", {}, DOMAIN documents, <<>>)

ItemInv ==
  /\ generation \in Nat
  /\ FullIsFull(snapshots)
  /\ item # None =>
       /\ item = [identity |-> item.identity, docs |-> item.docs, others |-> item.others]
       /\ item.identity.generation \in Nat /\ item.identity.generation <= generation
       /\ IsFiniteSet(item.others) /\ item.identity \notin item.others
       /\ item.identity.generation = generation =>
            /\ item.docs = Only(documents, item.identity.uris)
            /\ Fresh(snapshots, item.identity, item.others)

\* After the snapshots that were used, any snapshot is as late as these make it.
Follows(s, t, used) ==
  \A id, others, later :
    /\ IsFiniteSet(later) /\ others \subseteq later /\ used \subseteq later \cup {id}
    /\ Fresh(s, id, others)
    => Fresh(t, id, later)

LEMMA CachePlaces ==
  ASSUME NEW cache, GoodCache(cache, documents, generation)
  PROVE  IsSeq(cache) /\ DOMAIN cache = 1..Len(cache) /\ Len(cache) \in Nat /\ Len(cache) <= SnapshotLimit
BY LenProperties DEF GoodCache, IsSeq

LEMMA TouchLatest ==
  ASSUME NEW cache, GoodCache(cache, documents, generation), NEW e, e \in Range(cache),
         NEW id, NEW others, NEW later, others \subseteq later,
         e.identity = id \/ (e.identity \in later /\ Latest(cache, id, others))
  PROVE  Latest(Touch(cache, e), id, later)
<1> DEFINE positions == {i \in DOMAIN cache : cache[i] = e}
           r == Renewed(cache, positions, e)
           n == Len(cache)
<1>1. positions # {} /\ positions \in SUBSET DOMAIN cache
  BY DEF Range
<1>2. IsSeq(cache) /\ DOMAIN cache = 1..n /\ n \in Nat
  BY CachePlaces
<1>3. /\ IsSeq(r) /\ Len(r) = Len(cache)
      /\ \E p \in positions : \A k \in DOMAIN r : r[k] = Place(cache, p, e, k)
  <2>1. r = Renewed(cache, positions, e)
    OBVIOUS
  <2>2. IsSeq(cache)
    BY <1>2
  <2> HIDE DEF positions, r
  <2>3. /\ IsSeq(r)
        /\ positions # {} =>
             /\ Len(r) = Len(cache)
             /\ \E p \in positions : \A k \in DOMAIN r : r[k] = Place(cache, p, e, k)
    BY <1>1, <2>1, <2>2, RenewedIs
  <2> QED
    BY <1>1, <2>3
<1>4. DOMAIN r = 1..n
  BY <1>3, LenProperties DEF IsSeq
<1>5. PICK p \in positions : \A k \in DOMAIN r : r[k] = Place(cache, p, e, k)
  BY <1>3
<1>6. p \in 1..n /\ cache[p] = e
  BY <1>1, <1>2, <1>5
<1> HIDE DEF r, positions
<1>7. n \in DOMAIN r /\ r[n] = e
  BY <1>2, <1>4, <1>5, <1>6 DEF Place
<1>8. CASE e.identity = id
  <2>1. \A j \in DOMAIN r : ~(j > n)
    BY <1>2, <1>4
  <2> QED
    BY <1>7, <1>8, <2>1 DEF Latest, Touch, r, positions
<1>9. CASE e.identity # id
  <2>1. PICK i \in DOMAIN cache : /\ cache[i].identity = id
                                  /\ \A j \in DOMAIN cache : j > i => cache[j].identity \in others
    BY <1>9 DEF Latest
  <2>2. i # p /\ i \in 1..n
    BY <1>2, <1>6, <1>9, <2>1
  <2> DEFINE k == IF i < p THEN i ELSE i - 1
  <2>3. k \in DOMAIN r /\ k # n /\ r[k] = cache[i]
    <3>1. k \in 1..n /\ k # n /\ i = IF k < p THEN k ELSE k + 1
      BY <1>2, <1>6, <2>2
    <3>2. r[k] = Place(cache, p, e, k)
      BY <1>4, <1>5, <3>1
    <3> HIDE DEF k
    <3> QED
      BY <1>4, <3>1, <3>2 DEF Place
  <2>4. ASSUME NEW j \in DOMAIN r, j > k PROVE r[j].identity \in later
    <3>1. CASE j = n
      BY <1>7, <1>9, <3>1
    <3>2. CASE j # n
      <4> DEFINE q == IF j < p THEN j ELSE j + 1
      <4>1. q \in DOMAIN cache /\ q > i /\ r[j] = cache[q]
        BY <1>2, <1>4, <1>5, <1>6, <2>2, <2>4, <3>2 DEF Place
      <4> QED
        BY <2>1, <4>1
    <3> QED
      BY <3>1, <3>2
  <2> HIDE DEF k
  <2> QED
    BY <2>1, <2>3, <2>4 DEF Latest, Touch, r, positions
<1> QED
  BY <1>8, <1>9

\* Where everything is after an insertion.
LEMMA InsertPlaces ==
  ASSUME NEW cache, GoodCache(cache, documents, generation), NEW e
  PROVE  \E m \in Nat :
           /\ DOMAIN Insert(cache, e) = 1..m /\ m >= 1 /\ Insert(cache, e)[m] = e
           /\ Len(cache) >= SnapshotLimit =>
                m = Len(cache) /\ \A k \in 1..(m - 1) : Insert(cache, e)[k] = cache[k + 1]
           /\ ~(Len(cache) >= SnapshotLimit) =>
                m = Len(cache) + 1 /\ \A k \in 1..(m - 1) : Insert(cache, e)[k] = cache[k]
<1> DEFINE rest == IF Len(cache) >= SnapshotLimit THEN Tail(cache) ELSE cache
           r == Append(rest, e)
           S == Range(cache) \cup {e}
<1>1. /\ IsSeq(cache) /\ DOMAIN cache = 1..Len(cache) /\ Len(cache) \in Nat
      /\ Len(cache) <= SnapshotLimit /\ SnapshotLimit \in Nat \ {0}
  BY CachePlaces, EngineAssumption
<1>2. Insert(cache, e) = r
  BY DEF Insert
<1>3. /\ rest \in Seq(S)
      /\ Len(cache) >= SnapshotLimit =>
           Len(rest) = Len(cache) - 1 /\ \A k \in 1..Len(rest) : rest[k] = cache[k + 1]
      /\ ~(Len(cache) >= SnapshotLimit) => rest = cache
  <2>1. CASE Len(cache) >= SnapshotLimit
    <3>1. cache # <<>> /\ rest = Tail(cache) /\ cache \in Seq(S)
      BY <1>1, <2>1, EmptyIsSeq, SeqMonotonic DEF IsSeq
    <3> HIDE DEF rest, S
    <3>2. /\ Tail(cache) \in Seq(S) /\ Len(Tail(cache)) = Len(cache) - 1
          /\ \A k \in 1..Len(Tail(cache)) : Tail(cache)[k] = cache[k + 1]
      BY <3>1, HeadTailProperties
    <3> QED
      BY <2>1, <3>1, <3>2
  <2>2. CASE ~(Len(cache) >= SnapshotLimit)
    BY <1>1, <2>2, SeqMonotonic DEF IsSeq
  <2> QED
    BY <2>1, <2>2
<1>4. e \in S
  OBVIOUS
<1> HIDE DEF rest, S
<1> DEFINE m == Len(rest) + 1
<1>5. /\ r \in Seq(S) /\ Len(r) = m
      /\ \A k \in 1..Len(rest) : r[k] = rest[k]
      /\ r[m] = e
  BY <1>3, <1>4, AppendProperties
<1> HIDE DEF r
<1>6. Len(rest) \in Nat /\ m \in Nat /\ m >= 1 /\ DOMAIN r = 1..m /\ m - 1 = Len(rest)
  BY <1>3, <1>5, LenProperties
<1>7. /\ Len(cache) >= SnapshotLimit => m = Len(cache)
      /\ ~(Len(cache) >= SnapshotLimit) => m = Len(cache) + 1 /\ rest = cache
  <2>1. CASE Len(cache) >= SnapshotLimit
    <3>1. Len(rest) = Len(cache) - 1 /\ Len(cache) \in Nat
      BY <1>1, <1>3, <2>1
    <3> QED
      BY <2>1, <3>1
  <2>2. CASE ~(Len(cache) >= SnapshotLimit)
    <3>1. rest = cache
      BY <1>3, <2>2
    <3> QED
      BY <2>2, <3>1
  <2> QED
    BY <2>1, <2>2
<1> HIDE DEF m
<1>8. \A k \in 1..(m - 1) : r[k] = rest[k]
  BY <1>5, <1>6
<1>9. Len(cache) >= SnapshotLimit => \A k \in 1..(m - 1) : rest[k] = cache[k + 1]
  BY <1>3, <1>6
<1> QED
  BY <1>2, <1>5, <1>6, <1>7, <1>8, <1>9

\* An insertion pushes a snapshot out only if as many others as are kept were
\* used since.
LEMMA InsertLatest ==
  ASSUME NEW cache, GoodCache(cache, documents, generation), NEW e,
         \A i \in DOMAIN cache : cache[i].identity # e.identity,
         NEW id, NEW others, NEW later, others \subseteq later,
         IsFiniteSet(later), Cardinality(later) < SnapshotLimit,
         e.identity = id \/ (e.identity \in later /\ Latest(cache, id, others))
  PROVE  Latest(Insert(cache, e), id, later)
<1> DEFINE r == Insert(cache, e)
           n == Len(cache)
<1>1. PICK m \in Nat :
        /\ DOMAIN r = 1..m /\ m >= 1 /\ r[m] = e
        /\ n >= SnapshotLimit => m = n /\ \A k \in 1..(m - 1) : r[k] = cache[k + 1]
        /\ ~(n >= SnapshotLimit) => m = n + 1 /\ \A k \in 1..(m - 1) : r[k] = cache[k]
  BY InsertPlaces
<1>2. DOMAIN cache = 1..n /\ n \in Nat /\ n <= SnapshotLimit /\ SnapshotLimit \in Nat \ {0}
  BY CachePlaces, EngineAssumption
<1> HIDE DEF r, n
<1>3. CASE e.identity = id
  <2>1. \A j \in DOMAIN r : ~(j > m)
    BY <1>1
  <2> QED
    BY <1>1, <1>3, <2>1 DEF Latest, r
<1>4. CASE e.identity # id
  <2>1. PICK i \in DOMAIN cache : /\ cache[i].identity = id
                                  /\ \A j \in DOMAIN cache : j > i => cache[j].identity \in others
    BY <1>4 DEF Latest
  <2>2. CASE ~(n >= SnapshotLimit)
    <3>1. i \in DOMAIN r /\ r[i].identity = id
      BY <1>1, <1>2, <2>1, <2>2
    <3>2. ASSUME NEW j \in DOMAIN r, j > i PROVE r[j].identity \in later
      BY <1>1, <1>2, <1>4, <2>1, <2>2, <3>2
    <3> QED
      BY <3>1, <3>2 DEF Latest, r
  <2>3. CASE n >= SnapshotLimit /\ i # 1
    <3>1. i - 1 \in DOMAIN r /\ r[i - 1].identity = id
      BY <1>1, <1>2, <2>1, <2>3
    <3>2. ASSUME NEW j \in DOMAIN r, j > i - 1 PROVE r[j].identity \in later
      <4>1. CASE j = m
        BY <1>1, <1>4, <4>1
      <4>2. CASE j # m
        <5>1. j + 1 \in DOMAIN cache /\ j + 1 > i /\ r[j] = cache[j + 1]
          BY <1>1, <1>2, <2>1, <2>3, <3>2, <4>2
        <5> QED
          BY <2>1, <5>1
      <4> QED
        BY <4>1, <4>2
    <3> QED
      BY <3>1, <3>2 DEF Latest, r
  <2>4. CASE n >= SnapshotLimit /\ i = 1
    <3> DEFINE f == [k \in 1..n |-> r[k].identity]
    <3>1. n = SnapshotLimit /\ m = n
      BY <1>1, <1>2, <2>4
    <3>2. \A k \in 1..n : r[k].identity \in later
      <4>1. ASSUME NEW k \in 1..n, k # n PROVE r[k].identity \in later
        <5>1. k + 1 \in DOMAIN cache /\ k + 1 > i /\ r[k] = cache[k + 1]
          BY <1>1, <1>2, <2>4, <3>1, <4>1
        <5> QED
          BY <2>1, <5>1
      <4> QED
        BY <1>1, <1>4, <3>1, <4>1
    <3>3. \A j, k \in 1..n : r[j].identity = r[k].identity => j = k
      <4>1. ASSUME NEW k \in 1..n, k # n
            PROVE  /\ k + 1 \in DOMAIN cache /\ r[k] = cache[k + 1]
                   /\ r[k].identity # r[n].identity
        BY <1>1, <1>2, <2>4, <3>1, <4>1
      <4>2. \A j, k \in DOMAIN cache : cache[j].identity = cache[k].identity => j = k
        BY DEF GoodCache
      <4>3. ASSUME NEW j \in 1..n, NEW k \in 1..n, r[j].identity = r[k].identity PROVE j = k
        <5>1. CASE j = n \/ k = n
          BY <4>1, <4>3, <5>1
        <5>2. CASE j # n /\ k # n
          <6>1. j + 1 = k + 1
            BY <4>1, <4>2, <4>3, <5>2
          <6> QED
            BY <6>1
        <5> QED
          BY <5>1, <5>2
      <4> QED
        BY <4>3
    <3>4. f \in Injection(1..n, later)
      <4>1. f \in [1..n -> later]
        BY <3>2
      <4>2. \A j, k \in DOMAIN f : f[j] = f[k] => j = k
        BY <3>3
      <4> HIDE DEF f
      <4> QED
        BY <4>1, <4>2 DEF Injection, IsInjective
    <3>5. Cardinality(1..n) = n
      BY <1>2, FS_Interval
    <3>6. Cardinality(1..n) <= Cardinality(later) /\ Cardinality(later) \in Nat
      BY <3>4, FS_Injection, FS_CardinalityType
    <3> QED
      BY <1>2, <3>1, <3>5, <3>6
  <2> QED
    BY <2>2, <2>3, <2>4
<1> QED
  BY <1>3, <1>4

LEMMA FewerAreEnough ==
  ASSUME NEW later, IsFiniteSet(later), NEW others, others \subseteq later,
         Cardinality(later) < SnapshotLimit
  PROVE  Cardinality(others) < SnapshotLimit
<1>1. IsFiniteSet(others) /\ Cardinality(others) <= Cardinality(later)
  BY FS_Subset
<1>2. Cardinality(others) \in Nat /\ Cardinality(later) \in Nat
  BY <1>1, FS_CardinalityType
<1> QED
  BY <1>1, <1>2, EngineAssumption

LEMMA FullFollows ==
  ASSUME NEW s, FullIsFull(s)
  PROVE  /\ FullIsFull(FullSelection(s).after)
         /\ FullSelection(s).entry.identity = Identity("full", {}, DOMAIN documents, <<>>)
         /\ ~FullSelection(s).after.dirty
         /\ FullSelection(s).after.full = FullSelection(s).entry
         /\ \A used : Follows(s, FullSelection(s).after, used)
<1> DEFINE after == FullSelection(s).after
           entry == FullSelection(s).entry
<1>1. /\ after.cache = s.cache /\ after.full = entry /\ ~after.dirty
      /\ entry.identity = Identity("full", {}, DOMAIN documents, <<>>)
  BY DEF FullSelection, FullIsFull
<1>2. FullIsFull(after)
  BY <1>1 DEF FullIsFull
<1>3. ASSUME NEW id, NEW others, NEW later, IsFiniteSet(later), others \subseteq later, Fresh(s, id, others)
      PROVE  Fresh(after, id, later)
  <2> SUFFICES ASSUME Cardinality(later) < SnapshotLimit
               PROVE  after.full.identity = id \/ Latest(after.cache, id, later)
    BY <1>1 DEF Fresh
  <2>1. Cardinality(others) < SnapshotLimit
    BY <1>3, FewerAreEnough
  <2> HIDE DEF after, entry
  <2>2. CASE ~s.dirty /\ s.full.identity = id
    BY <1>1, <2>2 DEF FullIsFull
  <2>3. CASE Latest(s.cache, id, others)
    BY <1>1, <1>3, <2>3 DEF Latest
  <2> QED
    BY <1>3, <2>1, <2>2, <2>3 DEF Fresh
<1> QED
  BY <1>1, <1>2, <1>3 DEF Follows

LEMMA ClosureFollows ==
  ASSUME NEW s, GoodSnapshots(s, documents, generation), FullIsFull(s),
         NEW identity, identity.generation = generation,
         NEW selected, selected = ClosureSelection(s, identity)
  PROVE  /\ FullIsFull(selected.after)
         /\ selected.entry.identity = identity
         /\ selected.entry.docs = Only(documents, identity.uris)
         /\ Follows(s, selected.after, {identity})
         /\ \A later : IsFiniteSet(later) => Fresh(selected.after, identity, later)
<1> DEFINE kept == {e \in Range(s.cache) : e.identity = identity}
           entry == IF kept # {} THEN CHOOSE e \in kept : TRUE
                    ELSE [identity |-> identity, docs |-> Only(documents, identity.uris)]
           cache == IF kept # {} THEN Touch(s.cache, entry) ELSE Insert(s.cache, entry)
           after == [cache |-> cache, full |-> s.full, dirty |-> s.dirty]
<1>1. GoodCache(s.cache, documents, generation) /\ s = [cache |-> s.cache, full |-> s.full, dirty |-> s.dirty]
  BY DEF GoodSnapshots
<1>2. selected.entry = entry /\ selected.after = after
  BY <1>1 DEF ClosureSelection
<1>3. entry.identity = identity
  OBVIOUS
<1>4. FullIsFull(selected.after)
  BY <1>2 DEF FullIsFull
<1>5. ASSUME NEW id, NEW later, IsFiniteSet(later), Cardinality(later) < SnapshotLimit,
             \/ identity = id
             \/ identity \in later /\ \E others \in SUBSET later : Latest(s.cache, id, others)
      PROVE  Latest(cache, id, later)
  <2>0. \E others \in SUBSET later : identity = id \/ (identity \in later /\ Latest(s.cache, id, others))
    <3>1. CASE identity = id
      <4> WITNESS {} \in SUBSET later
      <4> QED
        BY <3>1
    <3>2. CASE identity # id
      BY <1>5, <3>2
    <3> QED
      BY <3>1, <3>2
  <2> DEFINE found == entry
  <2>3. found = entry /\ found.identity = identity
    BY <1>3
  <2> HIDE DEF found
  <2>4. PICK others \in SUBSET later : found.identity = id \/ (found.identity \in later /\ Latest(s.cache, id, others))
    BY <2>0, <2>3
  <2>1. CASE kept # {}
    <3>1. entry \in Range(s.cache)
      BY <2>1
    <3>2. Latest(Touch(s.cache, found), id, later)
      BY <1>1, <2>3, <2>4, <3>1, TouchLatest
    <3> QED
      BY <2>1, <2>3, <3>2
  <2>2. CASE kept = {}
    <3>1. \A i \in DOMAIN s.cache : s.cache[i].identity # found.identity
      BY <2>2, <2>3 DEF Range
    <3>2. Latest(Insert(s.cache, found), id, later)
      BY <1>1, <1>5, <2>4, <3>1, InsertLatest
    <3> QED
      BY <2>2, <2>3, <3>2
  <2> QED
    BY <2>1, <2>2
<1> HIDE DEF cache, entry, kept
<1>6. ASSUME NEW id, NEW others, NEW later, IsFiniteSet(later), others \subseteq later,
             {identity} \subseteq later \cup {id}, Fresh(s, id, others)
      PROVE  Fresh(after, id, later)
  <2> SUFFICES ASSUME Cardinality(later) < SnapshotLimit
               PROVE  (~s.dirty /\ s.full.identity = id) \/ Latest(cache, id, later)
    BY DEF Fresh
  <2>1. Cardinality(others) < SnapshotLimit
    BY <1>6, FewerAreEnough
  <2> QED
    BY <1>5, <1>6, <2>1 DEF Fresh
<1>7. ASSUME NEW later, IsFiniteSet(later) PROVE Fresh(after, identity, later)
  <2>1. Cardinality(later) < SnapshotLimit => Latest(cache, identity, later)
    BY <1>5, <1>7
  <2> QED
    BY <2>1 DEF Fresh
<1>8. selected.entry.docs = Only(documents, identity.uris)
  BY ClosureSelected
<1>9. Follows(s, after, {identity})
  BY <1>6 DEF Follows
<1> HIDE DEF after
<1> QED
  BY <1>2, <1>3, <1>4, <1>7, <1>8, <1>9

LEMMA FollowsComposes ==
  ASSUME NEW s, NEW t, NEW u, NEW used1, NEW used2, Follows(s, t, used1), Follows(t, u, used2)
  PROVE  Follows(s, u, used1 \cup used2)
<1> SUFFICES ASSUME NEW id, NEW others, NEW later, IsFiniteSet(later), others \subseteq later,
                    used1 \cup used2 \subseteq later \cup {id}, Fresh(s, id, others)
             PROVE  Fresh(u, id, later)
  BY DEF Follows
<1>1. Fresh(t, id, later)
  BY DEF Follows
<1> QED
  BY <1>1 DEF Follows

\* A step that uses some snapshots keeps what is known of the item.
LEMMA UseKeepsItem ==
  ASSUME IInv, ItemInv, UNCHANGED <<documents, generation>>, FullIsFull(snapshots'),
         NEW used, IsFiniteSet(used), Follows(snapshots, snapshots', used), Use(used)
  PROVE  ItemInv'
<1>1. FullIsFull(snapshots)'
  BY DEF FullIsFull, Identity
<1>2. CASE (item = None \/ item.identity.generation # generation) /\ UNCHANGED item
  BY <1>1, <1>2 DEF ItemInv
<1>3. CASE /\ item # None /\ item.identity.generation = generation
           /\ Cardinality(item.others) >= SnapshotLimit /\ UNCHANGED item
  <2>1. Cardinality(item.others) \in Nat /\ SnapshotLimit \in Nat
    BY <1>3, FS_CardinalityType, EngineAssumption DEF ItemInv
  <2>2. Fresh(snapshots', item.identity, item.others)
    BY <1>3, <2>1 DEF Fresh
  <2> QED
    BY <1>1, <1>3, <2>2 DEF ItemInv, Fresh, Latest
<1>4. CASE /\ item # None /\ item.identity.generation = generation
           /\ item' = [item EXCEPT !.others = (@ \cup used) \ {item.identity}]
  <2> DEFINE later == (item.others \cup used) \ {item.identity}
  <2>1. item' = [identity |-> item.identity, docs |-> item.docs, others |-> later]
    BY <1>4 DEF ItemInv
  <2>2. IsFiniteSet(item.others \cup used)
    BY <1>4, FS_Union DEF ItemInv
  <2>3. IsFiniteSet(later) /\ item.identity \notin later
    BY <2>2, FS_RemoveElement
  <2>4. /\ Fresh(snapshots, item.identity, item.others)
        /\ item.others \subseteq later /\ used \subseteq later \cup {item.identity}
    BY <1>4 DEF ItemInv
  <2> HIDE DEF later
  <2>5. Fresh(snapshots', item.identity, later)
    BY <2>3, <2>4 DEF Follows
  <2>6. /\ item'.identity = item.identity /\ item'.docs = item.docs /\ item'.others = later
    BY <2>1
  <2> QED
    BY <1>1, <1>4, <2>1, <2>3, <2>5, <2>6 DEF ItemInv, Fresh, Latest
<1> QED
  BY <1>2, <1>3, <1>4 DEF Use


-----------------------------------------------------------------------------
(* The item in each step *)

LEMMA DocumentFollows ==
  ASSUME IInv, FullIsFull(snapshots), NEW roots,
         NEW selected, selected = SnapshotForDocument(snapshots, roots)
  PROVE  /\ FullIsFull(selected.after)
         /\ Follows(snapshots, selected.after, {selected.entry.identity})
<1> DEFINE plan == PlanDocumentClosure(Index, roots, config.tops)
           identity == Identity("closure", roots, plan.uris, <<>>)
<1>1. GoodSnapshots(snapshots, documents, generation)
  BY DEF IInv
<1>2. CASE selected = FullSelection(snapshots)
  BY <1>2, FullFollows
<1>3. CASE selected = ClosureSelection(snapshots, identity)
  <2>1. identity.generation = generation
    BY DEF Identity
  <2> HIDE DEF identity
  <2>2. /\ FullIsFull(selected.after) /\ selected.entry.identity = identity
        /\ Follows(snapshots, selected.after, {identity})
    BY <1>1, <1>3, <2>1, ClosureFollows
  <2> QED
    BY <2>2
<1> QED
  BY <1>2, <1>3 DEF SnapshotForDocument

\* Whatever is selected for an item, it is there afterwards.
LEMMA CompletionFollows ==
  ASSUME IInv, FullIsFull(snapshots), NEW uri, NEW prefix,
         NEW selected, selected = SnapshotForCompletion(snapshots, uri, prefix)
  PROVE  /\ FullIsFull(selected.after)
         /\ selected.entry.identity.generation = generation
         /\ selected.entry.docs = Only(documents, selected.entry.identity.uris)
         /\ Fresh(selected.after, selected.entry.identity, {})
<1> DEFINE plan == PlanWorkspaceCompletionClosure(Index, {uri}, config.tops, prefix)
           identity == Identity("workspaceCompletion", {uri}, plan.uris,
                                <<prefix, plan.added, plan.incomplete>>)
<1>1. GoodSnapshots(snapshots, documents, generation)
  BY DEF IInv
<1>2. CASE selected = FullSelection(snapshots)
  <2>1. /\ FullIsFull(selected.after)
        /\ selected.entry.identity = Identity("full", {}, DOMAIN documents, <<>>)
        /\ ~selected.after.dirty /\ selected.after.full = selected.entry
        /\ selected.entry.docs = documents
    BY <1>1, <1>2, FullFollows, FullSelected
  <2>2. documents = Only(documents, DOMAIN documents)
    BY IndexedIsWorkspace, OnlyAll
  <2>3. selected.entry.identity.generation = generation /\ selected.entry.identity.uris = DOMAIN documents
    BY <2>1 DEF Identity
  <2> QED
    BY <2>1, <2>2, <2>3 DEF Fresh
<1>3. CASE selected = ClosureSelection(snapshots, identity)
  <2>1. identity.generation = generation
    BY DEF Identity
  <2> HIDE DEF identity
  <2>2. /\ FullIsFull(selected.after) /\ selected.entry.identity = identity
        /\ selected.entry.docs = Only(documents, identity.uris)
    <3>1. FullIsFull(selected.after) /\ selected.entry.identity = identity
      BY <1>1, <1>3, <2>1, ClosureFollows
    <3>2. selected.entry.docs = Only(documents, identity.uris)
      BY <1>1, <1>3, <2>1, ClosureSelected
    <3> QED
      BY <3>1, <3>2
  <2>3. \A later : IsFiniteSet(later) => Fresh(selected.after, identity, later)
    BY <1>1, <1>3, <2>1, ClosureFollows
  <2>4. Fresh(selected.after, identity, {})
    BY <2>3, FS_EmptySet
  <2> QED
    BY <2>1, <2>2, <2>4
<1> QED
  BY <1>2, <1>3 DEF SnapshotForCompletion

LEMMA InitItem == Init => ItemInv
BY DEF Init, ItemInv, FullIsFull

\* A change outdates the item.
LEMMA ChangeOutdates ==
  ASSUME ItemInv, generation' = generation + 1, snapshots'.dirty, Outdate
  PROVE  ItemInv'
<1>1. generation' \in Nat /\ FullIsFull(snapshots)'
  BY DEF ItemInv, FullIsFull
<1>2. CASE item = None
  BY <1>1, <1>2 DEF Outdate, ItemInv
<1>3. CASE item # None
  <2>1. item' = [identity |-> item.identity, docs |-> item.docs, others |-> {}]
    BY <1>3 DEF Outdate, ItemInv
  <2>2. /\ item'.identity = item.identity /\ item'.docs = item.docs /\ item'.others = {}
    BY <2>1
  <2>3. item.identity.generation \in Nat /\ item.identity.generation <= generation /\ generation \in Nat
    BY <1>3 DEF ItemInv
  <2>4. /\ item'.identity.generation \in Nat /\ item'.identity.generation <= generation'
        /\ item'.identity.generation # generation'
    BY <2>2, <2>3
  <2>5. IsFiniteSet(item'.others)
    BY <2>2, FS_EmptySet
  <2> QED
    BY <1>1, <2>1, <2>2, <2>4, <2>5 DEF ItemInv
<1> QED
  BY <1>2, <1>3

LEMMA SelectionKeepsItem ==
  ASSUME IInv, ItemInv, UNCHANGED <<documents, generation>>, NEW selected,
         FullIsFull(selected.after), Follows(snapshots, selected.after, {selected.entry.identity}),
         snapshots' = selected.after, Use({selected.entry.identity})
  PROVE  ItemInv'
<1>1. IsFiniteSet({selected.entry.identity})
  BY FS_Singleton
<1> QED
  BY <1>1, UseKeepsItem

LEMMA DocumentQueryItem ==
  ASSUME IInv, ItemInv, NEW roots, UNCHANGED <<documents, generation>>,
         snapshots' = SnapshotForDocument(snapshots, roots).after,
         Use({SnapshotForDocument(snapshots, roots).entry.identity})
  PROVE  ItemInv'
<1> DEFINE selected == SnapshotForDocument(snapshots, roots)
<1>1. selected = SnapshotForDocument(snapshots, roots)
  OBVIOUS
<1> HIDE DEF selected
<1>2. FullIsFull(selected.after) /\ Follows(snapshots, selected.after, {selected.entry.identity})
  BY <1>1, DocumentFollows DEF ItemInv
<1> QED
  BY <1>1, <1>2, SelectionKeepsItem

LEMMA WorkspaceQueryItem ==
  ASSUME IInv, ItemInv, UNCHANGED <<documents, generation>>,
         snapshots' = FullSelection(snapshots).after,
         Use({FullSelection(snapshots).entry.identity})
  PROVE  ItemInv'
<1> DEFINE selected == FullSelection(snapshots)
<1>1. FullIsFull(selected.after) /\ Follows(snapshots, selected.after, {selected.entry.identity})
  BY FullFollows DEF ItemInv
<1> HIDE DEF selected
<1>2. selected = FullSelection(snapshots)
  BY DEF selected
<1> QED
  BY <1>1, <1>2, SelectionKeepsItem

\* The snapshots, and the item with what was used since, are unchanged.
LEMMA SameItem ==
  ASSUME ItemInv, UNCHANGED <<documents, generation, snapshots, item>>
  PROVE  ItemInv'
BY DEF ItemInv, FullIsFull, Identity, Fresh, Latest

LEMMA CompletionsAtItem ==
  ASSUME IInv, ItemInv, NEW uri, NEW prefix, CompletionsAt(uri, prefix)
  PROVE  ItemInv'
<1> DEFINE selected == SnapshotForCompletion(snapshots, uri, prefix)
<1>1. /\ UNCHANGED <<documents, generation>> /\ snapshots' = selected.after
      /\ item' = [identity |-> selected.entry.identity, docs |-> selected.entry.docs, others |-> {}]
  BY DEF CompletionsAt, Ready
<1>2. selected = SnapshotForCompletion(snapshots, uri, prefix)
  OBVIOUS
<1> HIDE DEF selected
<1>3. /\ FullIsFull(selected.after)
      /\ selected.entry.identity.generation = generation
      /\ selected.entry.docs = Only(documents, selected.entry.identity.uris)
      /\ Fresh(selected.after, selected.entry.identity, {})
  BY <1>2, CompletionFollows DEF ItemInv
<1>4. /\ item'.identity = selected.entry.identity /\ item'.docs = selected.entry.docs
      /\ item'.others = {} /\ IsFiniteSet({})
  BY <1>1, FS_EmptySet
<1>5. FullIsFull(snapshots)'
  BY <1>1, <1>3 DEF FullIsFull, Identity
<1>6. generation \in Nat
  BY DEF ItemInv
<1> QED
  BY <1>1, <1>3, <1>4, <1>5, <1>6 DEF ItemInv, Fresh, Latest

\* A resolution uses the snapshot of the item itself.
LEMMA ResolveCompletionItem ==
  ASSUME IInv, ItemInv, ResolveCompletion
  PROVE  ItemInv'
<1> DEFINE found == Resolution \cap Range(snapshots.cache)
           e == CHOOSE x \in found : TRUE
           cache == IF found = {} THEN snapshots.cache ELSE Touch(snapshots.cache, e)
<1>1. /\ snapshots' = [snapshots EXCEPT !.cache = cache]
      /\ UNCHANGED <<documents, generation, item>> /\ item # None
  BY DEF ResolveCompletion
<1>2. GoodCache(snapshots.cache, documents, generation)
  BY DEF IInv, GoodSnapshots
<1>3. snapshots = [cache |-> snapshots.cache, full |-> snapshots.full, dirty |-> snapshots.dirty]
  BY DEF IInv, GoodSnapshots
<1>4. found # {} => e \in Range(snapshots.cache) /\ e.identity = item.identity
  BY DEF Resolution
<1> HIDE DEF found, e
<1>5. ASSUME NEW later, Latest(snapshots.cache, item.identity, later)
      PROVE  Latest(cache, item.identity, later)
  <2>1. CASE found = {}
    BY <1>5, <2>1
  <2>2. CASE found # {}
    <3>1. Latest(Touch(snapshots.cache, e), item.identity, later)
      BY <1>2, <1>4, <2>2, TouchLatest
    <3> QED
      BY <2>2, <3>1
  <2> QED
    BY <2>1, <2>2
<1> HIDE DEF cache
<1>6. /\ snapshots'.cache = cache /\ snapshots'.full = snapshots.full /\ snapshots'.dirty = snapshots.dirty
  BY <1>1, <1>3
<1>7. FullIsFull(snapshots)'
  BY <1>1, <1>6 DEF ItemInv, FullIsFull, Identity
<1>8. Fresh(snapshots, item.identity, item.others) => Fresh(snapshots', item.identity, item.others)
  BY <1>5, <1>6 DEF Fresh
<1> QED
  BY <1>1, <1>7, <1>8 DEF ItemInv, Fresh, Latest

LEMMA HierarchyQueryItem ==
  ASSUME IInv, ItemInv, NEW kind, NEW requested, HierarchyQuery(kind, requested)
  PROVE  ItemInv'
<1>1. UNCHANGED <<documents, generation>>
  BY DEF HierarchyQuery, Ready
<1>2. CASE UNCHANGED <<snapshots, item>>
  BY <1>1, <1>2, SameItem
<1>3. CASE /\ snapshots' = FullSelection(snapshots).after
           /\ Use({FullSelection(snapshots).entry.identity})
  BY <1>1, <1>3, WorkspaceQueryItem
<1> QED
  BY <1>2, <1>3 DEF HierarchyQuery

LEMMA InterruptItem ==
  ASSUME IInv, ItemInv, NEW uri, Interrupt(uri)
  PROVE  ItemInv'
<1>1. UNCHANGED <<documents, generation>>
  BY DEF Interrupt, Ready
<1>2. CASE UNCHANGED <<snapshots, item>>
  BY <1>1, <1>2, SameItem
<1>3. CASE /\ snapshots' = SnapshotForDocument(snapshots, {uri}).after
           /\ Use({SnapshotForDocument(snapshots, {uri}).entry.identity})
  BY <1>1, <1>3, DocumentQueryItem
<1> QED
  BY <1>2, <1>3 DEF Interrupt

\* A target that a part of the workspace told is known where the references are
\* looked for: the documents of the question are among those that are planned.
LEMMA TargetIsKnown ==
  ASSUME IInv, NEW uri, NEW name, NEW base, base = SnapshotForDocument(snapshots, {uri}),
         NEW e \in Targets(base.entry.docs, uri, name),
         NEW plan, plan = PlanReferenceCandidateClosure(Index, {uri}, config.tops, name, e),
         ~plan.requires_full, plan.uris \subseteq DOMAIN documents
  PROVE  <<name, e>> \in DocumentFacts(Only(documents, plan.uris), uri)
<1> DEFINE first == PlanDocumentClosure(Index, {uri}, config.tops)
           identity == Identity("closure", {uri}, first.uris, <<>>)
<1>1. GoodSnapshots(snapshots, documents, generation) /\ IsFiniteSet(DOMAIN documents)
  BY IndexedIsWorkspace DEF IInv, IsWorkspace
<1>2. /\ first.complete /\ first.uris \subseteq plan.uris
      /\ ~(Cardinality(plan.uris) >= Cardinality(DOMAIN Index))
  BY DEF PlanReferenceCandidateClosure
<1>3. Cardinality(first.uris) < Cardinality(DOMAIN documents)
  <2>1. DOMAIN Index \subseteq DOMAIN documents
    BY IndexIsIndexed DEF Indexed, Only
  <2> HIDE DEF first
  <2>2. /\ IsFiniteSet(plan.uris) /\ IsFiniteSet(first.uris) /\ IsFiniteSet(DOMAIN Index)
        /\ Cardinality(first.uris) <= Cardinality(plan.uris)
        /\ Cardinality(DOMAIN Index) <= Cardinality(DOMAIN documents)
    BY <1>1, <1>2, <2>1, FS_Subset
  <2>3. /\ Cardinality(first.uris) \in Nat /\ Cardinality(plan.uris) \in Nat
        /\ Cardinality(DOMAIN Index) \in Nat /\ Cardinality(DOMAIN documents) \in Nat
    BY <1>1, <2>2, FS_CardinalityType
  <2> QED
    BY <1>2, <2>2, <2>3
<1>4. base.entry.docs = Only(documents, first.uris)
  <2>1. base = ClosureSelection(snapshots, identity)
    BY <1>2, <1>3 DEF SnapshotForDocument
  <2>2. identity.generation = generation /\ identity.uris = first.uris
    BY DEF Identity
  <2> HIDE DEF identity
  <2> QED
    BY <1>1, <2>1, <2>2, ClosureSelected
<1> HIDE DEF first
<1>5. <<name, e>> \in DocumentFacts(Only(documents, first.uris), uri)
  <2>1. PICK f \in DocumentFacts(Only(documents, first.uris), uri) : f[1] = name /\ f[2] = e
    BY <1>4 DEF Targets
  <2>2. f = <<f[1], f[2]>>
    BY DEF DocumentFacts, UnitFacts
  <2> QED
    BY <2>1, <2>2
<1>6. Only(documents, first.uris) = Only(Only(documents, plan.uris), first.uris)
  BY <1>2 DEF Only
<1> QED
  BY <1>5, <1>6, FactsGrow

\* What is used for the references to a declaration is what the answer names.
LEMMA ReferencesFollow ==
  ASSUME IInv, ItemInv, NEW uri, NEW name, NEW base, base = SnapshotForDocument(snapshots, {uri}),
         NEW e \in Targets(base.entry.docs, uri, name),
         NEW selected, selected = SnapshotForReferences(base.after, uri, name, e)
  PROVE  /\ FullIsFull(selected.after)
         /\ Follows(snapshots, selected.after, {base.entry.identity, selected.entry.identity})
<1> DEFINE plan == PlanReferenceCandidateClosure(Index, {uri}, config.tops, name, e)
           identity == Identity("referenceClosure", {uri}, plan.uris, <<name, e>>)
           planned == ClosureSelection(base.after, identity)
<1>1. /\ FullIsFull(base.after) /\ Follows(snapshots, base.after, {base.entry.identity})
      /\ GoodSnapshots(base.after, documents, generation)
  <2>1. FullIsFull(base.after) /\ Follows(snapshots, base.after, {base.entry.identity})
    BY DocumentFollows DEF ItemInv
  <2>2. GoodSelection(base)
    BY DocumentSelected DEF IInv
  <2> QED
    BY <2>1, <2>2 DEF GoodSelection
<1>2. identity.generation = generation /\ identity.uris = plan.uris
  BY DEF Identity
<1>3. selected = FullSelection(base.after) \/ selected = planned
  <2>1. ASSUME ~plan.requires_full, plan.uris \subseteq DOMAIN documents
        PROVE  <<name, e>> \in DocumentFacts(planned.entry.docs, uri)
    <3>1. planned.entry.docs = Only(documents, plan.uris)
      <4> HIDE DEF identity, plan
      <4> QED
        BY <1>1, <1>2, ClosureSelected
    <3> HIDE DEF planned
    <3> QED
      BY <2>1, <3>1, TargetIsKnown
  <2> QED
    BY <2>1 DEF SnapshotForReferences
<1> HIDE DEF plan, identity
<1>4. /\ FullIsFull(selected.after)
      /\ Follows(base.after, selected.after, {selected.entry.identity})
  <2>1. CASE selected = FullSelection(base.after)
    BY <1>1, <2>1, FullFollows
  <2>2. CASE selected = planned
    <3>1. /\ FullIsFull(selected.after) /\ selected.entry.identity = identity
          /\ Follows(base.after, selected.after, {identity})
      BY <1>1, <1>2, <2>2, ClosureFollows
    <3> QED
      BY <3>1
  <2> QED
    BY <1>3, <2>1, <2>2
<1> DEFINE used1 == {base.entry.identity}
           used2 == {selected.entry.identity}
<1>5. {base.entry.identity, selected.entry.identity} = used1 \cup used2
  OBVIOUS
<1>6. Follows(snapshots, base.after, used1) /\ Follows(base.after, selected.after, used2)
  BY <1>1, <1>4
<1> HIDE DEF used1, used2
<1>7. Follows(snapshots, selected.after, used1 \cup used2)
  BY <1>6, FollowsComposes
<1> QED
  BY <1>4, <1>5, <1>7

LEMMA ReferenceQueryItem ==
  ASSUME IInv, ItemInv, NEW kind, NEW uri, NEW name, ReferenceQuery(kind, uri, name)
  PROVE  ItemInv'
<1> DEFINE base == SnapshotForDocument(snapshots, {uri})
<1>1. UNCHANGED <<documents, generation>>
  BY DEF ReferenceQuery, Ready
<1>2. CASE snapshots' = base.after /\ Use({base.entry.identity})
  BY <1>1, <1>2, DocumentQueryItem
<1>3. ASSUME NEW e \in Targets(base.entry.docs, uri, name), NEW selected,
             selected = SnapshotForReferences(base.after, uri, name, e),
             snapshots' = selected.after,
             Use({base.entry.identity, selected.entry.identity})
      PROVE  ItemInv'
  <2> DEFINE used == {base.entry.identity, selected.entry.identity}
             b == base
  <2>1. b = SnapshotForDocument(snapshots, {uri})
    OBVIOUS
  <2> HIDE DEF b
  <2>2. FullIsFull(selected.after) /\ Follows(snapshots, selected.after, used)
    BY <1>3, <2>1, ReferencesFollow
  <2>3. IsFiniteSet(used)
    <3>1. used = {base.entry.identity} \cup {selected.entry.identity}
      OBVIOUS
    <3> HIDE DEF base, used
    <3>2. IsFiniteSet({base.entry.identity})
      BY FS_Singleton
    <3> QED
      BY <3>1, <3>2, FS_AddElement
  <2>4. Use(used)
    BY <1>3
  <2> HIDE DEF used
  <2> QED
    BY <1>1, <1>3, <2>2, <2>3, <2>4, UseKeepsItem
<1> QED
  BY <1>2, <1>3 DEF ReferenceQuery

LEMMA NextItem == IInv /\ ItemInv /\ [Next]_vars => ItemInv'
<1> SUFFICES ASSUME IInv, ItemInv, [Next]_vars
             PROVE  ItemInv'
  OBVIOUS
<1>1. CASE Clear \/ SetWorkspaceRoot \/ (\E c \in Config : Configure(c))
           \/ (\E t \in Text : UpdateDocument(t[1], t[2])) \/ (\E u \in DOMAIN documents : RemoveDocument(u))
  <2>1. ASSUME Invalidate \/ Clear
        PROVE  generation' = generation + 1 /\ snapshots'.dirty /\ Outdate
    BY <2>1 DEF Clear, Invalidate
  <2>2. Invalidate \/ Clear
    BY <1>1 DEF SetWorkspaceRoot, Configure, UpdateDocument, RemoveDocument
  <2> QED
    BY <2>1, <2>2, ChangeOutdates
<1>2. ASSUME NEW kind, NEW r \in Request, DocumentQuery(kind, r.uri, r.roots) PROVE ItemInv'
  BY <1>2, DocumentQueryItem DEF DocumentQuery, Ready
<1>3. ASSUME NEW r \in Request, CodeActionsAt(r.uri, r.roots) PROVE ItemInv'
  BY <1>3, DocumentQueryItem DEF CodeActionsAt, Ready
<1>4. ASSUME NEW r \in Request, UnkeptDocumentQuery(r.uri, r.roots) PROVE ItemInv'
  BY <1>4, DocumentQueryItem DEF UnkeptDocumentQuery, Ready
<1>5. CASE WorkspaceQuery
  BY <1>5, WorkspaceQueryItem DEF WorkspaceQuery
<1>6. ASSUME NEW kind, NEW uri, NEW name, ReferenceQuery(kind, uri, name) PROVE ItemInv'
  BY <1>6, ReferenceQueryItem
<1>7. ASSUME NEW c \in Cursor, CompletionsAt(c[1], c[2]) PROVE ItemInv'
  BY <1>7, CompletionsAtItem
<1>8. CASE ResolveCompletion
  BY <1>8, ResolveCompletionItem
<1>9. ASSUME NEW kind, NEW t, HierarchyQuery(kind, t) PROVE ItemInv'
  BY <1>9, HierarchyQueryItem
<1>10. ASSUME NEW r \in Request, Interrupt(r.uri) PROVE ItemInv'
  BY <1>10, InterruptItem
<1>11. CASE UNCHANGED vars
  BY <1>11, SameItem DEF vars
<1> QED
  BY <1>1, <1>2, <1>3, <1>4, <1>5, <1>6, <1>7, <1>8, <1>9, <1>10, <1>11
  DEF Next, Asked, DiagnosticsFor, DefinitionsAt, TypeDefinitionsAt, DocumentHighlightsAt, HoverAt,
      PrepareRenameAt, SignatureHelpAt, InlayHints, SemanticTokens, SelectionRangesAt, InactiveRegions,
      ImplementationsAt, BackwardConeAt, PlaceQuery, WorkspaceSymbols, LookupAt, CallHierarchy,
      ReferencesAt, RenameAt, ModuleHierarchy, Schematic

-----------------------------------------------------------------------------
(* Theorems *)

LEMMA StutterInv ==
  ASSUME IInv, UNCHANGED vars
  PROVE  IInv'
<1>1. UNCHANGED <<documents, config, generation, discovery, snapshots, query_cache>>
  BY DEF vars
<1>2. GoodSnapshots(snapshots', documents, generation) /\ GoodAnswers'
  BY <1>1, AnswersStay DEF IInv
<1> QED
  BY <1>1, <1>2, QueryInv

LEMMA NextInv == IInv /\ [Next]_vars => IInv'
<1> SUFFICES ASSUME IInv, [Next]_vars
             PROVE  IInv'
  OBVIOUS
<1>1. CASE Clear
  BY <1>1, ClearInv
<1>2. CASE SetWorkspaceRoot
  BY <1>2, SetWorkspaceRootInv
<1>3. ASSUME NEW c \in Config, Configure(c) PROVE IInv'
  BY <1>3, ConfigureInv
<1>4. ASSUME NEW t \in Text, UpdateDocument(t[1], t[2]) PROVE IInv'
  BY <1>4, UpdateDocumentInv
<1>5. ASSUME NEW u \in DOMAIN documents, RemoveDocument(u) PROVE IInv'
  BY <1>5, RemoveDocumentInv
<1>6. ASSUME NEW r \in Request,
             \/ DiagnosticsFor(r.uri, r.roots) \/ DefinitionsAt(r.uri, r.roots)
             \/ TypeDefinitionsAt(r.uri, r.roots) \/ DocumentHighlightsAt(r.uri, r.roots)
             \/ HoverAt(r.uri, r.roots) \/ PrepareRenameAt(r.uri, r.roots)
             \/ SignatureHelpAt(r.uri, r.roots) \/ InlayHints(r.uri, r.roots)
      PROVE  IInv'
  <2>1. \E kind \in DocumentKind : DocumentQuery(kind, r.uri, r.roots)
    BY <1>6 DEF DocumentKind, DiagnosticsFor, DefinitionsAt, TypeDefinitionsAt, DocumentHighlightsAt,
                HoverAt, PrepareRenameAt, SignatureHelpAt, InlayHints
  <2> QED
    BY <2>1, DocumentQueryInv
<1>7. ASSUME NEW r \in Request, CodeActionsAt(r.uri, r.roots) PROVE IInv'
  BY <1>7, CodeActionsAtInv
<1>8. ASSUME NEW r \in Request,
             \/ SemanticTokens(r.uri, r.roots) \/ SelectionRangesAt(r.uri, r.roots)
             \/ InactiveRegions(r.uri, r.roots)
      PROVE  IInv'
  BY <1>8, UnkeptDocumentQueryInv DEF SemanticTokens, SelectionRangesAt, InactiveRegions
<1>9. ASSUME NEW uri, ImplementationsAt(uri) \/ BackwardConeAt(uri) PROVE IInv'
  BY <1>9, PlaceQueryInv DEF WorkspaceKind, ImplementationsAt, BackwardConeAt
<1>10. CASE WorkspaceSymbols
  BY <1>10, WorkspaceSymbolsInv
<1>11. CASE LookupAt \/ CallHierarchy
  BY <1>11, UnkeptWorkspaceQueryInv
<1>12. ASSUME NEW uri, NEW name, ReferencesAt(uri, name) \/ RenameAt(uri, name) PROVE IInv'
  BY <1>12, ReferenceQueryInv DEF ReferencesAt, RenameAt
<1>13. ASSUME NEW c \in Cursor, CompletionsAt(c[1], c[2]) PROVE IInv'
  BY <1>13, CompletionsAtInv, EngineAssumption
<1>14. CASE ResolveCompletion
  BY <1>14, ResolveCompletionInv
<1>15. ASSUME NEW t, ModuleHierarchy(t) \/ Schematic(t) PROVE IInv'
  BY <1>15, HierarchyQueryInv DEF ModuleHierarchy, Schematic
<1>16. ASSUME NEW r \in Request, Interrupt(r.uri) PROVE IInv'
  BY <1>16, InterruptInv
<1>17. CASE UNCHANGED vars
  BY <1>17, StutterInv
<1> QED
  BY <1>1, <1>2, <1>3, <1>4, <1>5, <1>6, <1>7, <1>8, <1>9, <1>10, <1>11, <1>12, <1>13, <1>14,
     <1>15, <1>16, <1>17 DEF Next, Asked

LEMMA Invariance == Spec => []IInv
BY InitInv, NextInv, PTL DEF Spec

LEMMA KeptIsGood ==
  ASSUME IInv, NEW kinds \in SUBSET Kind, NEW a \in Kept(kinds)
  PROVE  \E kind \in kinds : GoodAnswer(kind, a, documents, Indexed, config.tops, generation)
BY DEF IInv, GoodAnswers, GoodKept, Kept, Range

\* The engine keeps no index, snapshot or answer that a change has outdated, and
\* no more snapshots than the limit, each identity once: every change drops
\* everything, and every query, interrupted or not, computes from the present.
THEOREM CurrentIsKept == Spec => []KeptIsCurrent
<1>1. IInv => KeptIsCurrent
  <2> SUFFICES ASSUME IInv PROVE KeptIsCurrent
    OBVIOUS
  <2>1. /\ discovery # None => discovery.index = Indexed
        /\ GoodSnapshots(snapshots, documents, generation) /\ GoodAnswers
    BY DEF IInv
  <2>2. \A e \in Range(snapshots.cache) :
          e.identity.generation = generation /\ e.docs = Only(documents, e.identity.uris)
    BY <2>1 DEF GoodSnapshots, GoodCache, GoodEntry, Range
  <2>3. \A kind \in Kind : \A e \in Range(query_cache[kind]) : e.generation = generation
    BY <2>1 DEF GoodAnswers, GoodKept, GoodAnswer, Range
  <2> QED
    BY <2>1, <2>2, <2>3 DEF KeptIsCurrent, GoodSnapshots, GoodCache
<1> QED
  BY <1>1, Invariance, PTL

\* Whatever was compiled for it, a kept answer about a document is that of the
\* whole workspace, unless the document is included elsewhere.
THEOREM DocumentsAreWhole == Spec => []DocumentAnswersAreWhole
<1>1. IInv => DocumentAnswersAreWhole
  <2> SUFFICES ASSUME IInv, NEW a \in Kept(DocumentKind \cup WorkspaceKind)
               PROVE  DocumentIsWhole(a, documents, Indexed)
    BY DEF DocumentAnswersAreWhole
  <2>1. DocumentKind \cup WorkspaceKind \in SUBSET Kind
    BY DEF Kind
  <2>2. PICK kind \in DocumentKind \cup WorkspaceKind : GoodAnswer(kind, a, documents, Indexed, config.tops, generation)
    BY <2>1, KeptIsGood
  <2> QED
    BY <2>2 DEF GoodAnswer
<1> QED
  BY <1>1, Invariance, PTL

\* The references that are answered are those of the whole workspace, where what
\* is included holds the definitions of macros only.
THEOREM ReferenceAnswersAreWhole == Spec => []ReferencesAreWholeIfHeadersDefine
<1>1. IInv => ReferencesAreWholeIfHeadersDefine
  <2> SUFFICES ASSUME IInv, HeadersOnlyDefine(documents), NEW a \in Kept({"references", "rename"})
               PROVE  ReferenceIsWhole(a, documents, Indexed)
    BY DEF ReferencesAreWholeIfHeadersDefine, ReferencesAreWhole
  <2>1. {"references", "rename"} \in SUBSET Kind
    BY DEF Kind
  <2>2. PICK kind \in {"references", "rename"} :
               GoodAnswer(kind, a, documents, Indexed, config.tops, generation)
    BY <2>1, KeptIsGood
  <2> QED
    BY <2>2 DEF GoodAnswer
<1> QED
  BY <1>1, Invariance, PTL

\* The hierarchies that are answered are those of the whole workspace.
THEOREM HierarchyAnswersAreWhole == Spec => []HierarchiesAreWhole
<1>1. IInv => HierarchiesAreWhole
  <2> SUFFICES ASSUME IInv, NEW a \in Kept({"moduleHierarchy", "schematic"})
               PROVE  /\ HierarchyIsWhole(a, documents, Indexed)
                      /\ Indexed = documents /\ AtMostOne(config.tops) =>
                           RootsAreWhole(a, documents, config.tops)
    BY DEF HierarchiesAreWhole
  <2>1. {"moduleHierarchy", "schematic"} \in SUBSET Kind
    BY DEF Kind
  <2>2. PICK kind \in {"moduleHierarchy", "schematic"} :
               GoodAnswer(kind, a, documents, Indexed, config.tops, generation)
    BY <2>1, KeptIsGood
  <2> QED
    BY <2>2 DEF GoodAnswer
<1> QED
  BY <1>1, Invariance, PTL

\* A completion item is resolved in the documents it was offered from, and while
\* fewer other snapshots than are kept were used since, it can be: using a
\* snapshot makes it the latest, and one is pushed out only by the use of as many
\* others.
THEOREM ItemsAreResolved == Spec => []ResolvedWhereOffered
<1>1. IInv /\ ItemInv => ResolvedWhereOffered
  <2> SUFFICES ASSUME IInv, ItemInv, item # None
               PROVE  /\ \A e \in Resolution : e.docs = item.docs /\ item.identity.generation = generation
                      /\ item.identity.generation = generation /\ Cardinality(item.others) < SnapshotLimit =>
                           Resolution # {}
    BY DEF ResolvedWhereOffered
  <2>1. GoodSnapshots(snapshots, documents, generation) /\ IsWorkspace(documents)
    BY DEF IInv, WorkspaceInv
  <2>2. item.identity.generation = generation =>
          item.docs = Only(documents, item.identity.uris) /\ Fresh(snapshots, item.identity, item.others)
    BY DEF ItemInv
  <2>3. ASSUME NEW e \in Resolution PROVE e.docs = item.docs /\ item.identity.generation = generation
    <3>1. e.identity = item.identity
      BY DEF Resolution
    <3>2. CASE e \in Range(snapshots.cache)
      <4>1. GoodEntry(e, documents, generation)
        BY <2>1, <3>2 DEF GoodSnapshots, GoodCache, Range
      <4> QED
        BY <2>2, <3>1, <4>1 DEF GoodEntry
    <3>3. CASE ~snapshots.dirty /\ e = snapshots.full
      <4>1. e.docs = documents /\ e.identity.generation = generation
        BY <2>1, <3>3 DEF GoodSnapshots
      <4>2. e.identity.uris = DOMAIN documents
        BY <3>3 DEF ItemInv, FullIsFull, Identity
      <4> QED
        BY <2>1, <2>2, <3>1, <4>1, <4>2, OnlyAll
    <3> QED
      BY <3>2, <3>3 DEF Resolution
  <2>4. ASSUME item.identity.generation = generation, Cardinality(item.others) < SnapshotLimit
        PROVE  Resolution # {}
    BY <2>2, <2>4 DEF Resolution, Fresh, Latest, Range
  <2> QED
    BY <2>3, <2>4
<1>2. Spec => [](IInv /\ ItemInv)
  BY InitInv, NextInv, InitItem, NextItem, PTL DEF Spec
<1> QED
  BY <1>1, <1>2, PTL
\* The completions that are offered are declared in the workspace, and unless
\* the list says that it is incomplete they are all that match: a candidate that
\* is planned brings its document, and one that is not is admitted.
THEOREM CompletionsAreAdmitted == Spec => []CompletionsSaySo
<1>1. IInv => CompletionsSaySo
  <2> SUFFICES ASSUME IInv, NEW a \in Kept({"completions"})
               PROVE  CompletionSaysSo(a, documents, Indexed)
    BY DEF CompletionsSaySo
  <2>1. {"completions"} \in SUBSET Kind
    BY DEF Kind
  <2>2. GoodAnswer("completions", a, documents, Indexed, config.tops, generation)
    BY <2>1, KeptIsGood
  <2> QED
    BY <2>2 DEF GoodAnswer
<1> QED
  BY <1>1, Invariance, PTL

=============================================================================
