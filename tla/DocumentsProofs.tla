-------------------------- MODULE DocumentsProofs --------------------------
(***************************************************************************)
(* Proofs about positions and documents, for every set of documents, all   *)
(* texts and edits, and any number of messages and changes on disk.        *)
(***************************************************************************)
EXTENDS Documents, SequenceTheorems, FiniteSetTheorems, WellFoundedInduction, TLAPS

---------------------------------------------------------------------------
(* Positions *)

\* The last of the offsets up to o that has a property of the first.
LEMMA LastExists ==
  ASSUME NEW o \in Nat, NEW S \in SUBSET (0..o), 0 \in S
  PROVE  \E s \in S : \A k \in (s + 1)..o : k \notin S
<1> DEFINE distances == {n \in 0..o : o - n \in S}
<1>1. distances \in SUBSET Nat /\ o \in distances
  OBVIOUS
<1>2. PICK m \in distances : \A y \in distances : <<y, m>> \notin OpToRel(<, Nat)
  BY <1>1, NatLessThanWellFounded, WFMin
<1>3. \A y \in distances : ~(y < m)
  BY <1>1, <1>2 DEF OpToRel
<1>4. o - m \in S /\ \A k \in (o - m + 1)..o : k \notin S
  <2>1. ASSUME NEW k \in (o - m + 1)..o, k \in S PROVE FALSE
    <3>1. o - k \in distances /\ o - k < m
      BY <2>1
    <3> QED
      BY <3>1, <1>3
  <2> QED
    BY <2>1
<1> QED
  BY <1>4

LEMMA FiniteInterval ==
  ASSUME NEW i \in Nat, NEW j \in Nat, NEW S \in SUBSET ((i + 1)..j)
  PROVE  /\ IsFiniteSet(S) /\ Cardinality(S) \in Nat
         /\ i <= j => Cardinality((i + 1)..j) = j - i
<1>1. PICK a \in Int : a = i + 1
  OBVIOUS
<1>2. IsFiniteSet(a..j) /\ Cardinality(a..j) = IF a > j THEN 0 ELSE j - a + 1
  BY FS_Interval
<1>3. IsFiniteSet((i + 1)..j) /\ (i <= j => Cardinality((i + 1)..j) = j - i)
  BY <1>1, <1>2
<1> QED
  BY <1>3, FS_Subset, FS_CardinalityType

\* Two ways to count code units.
LEMMA UnitsAreUtf16 ==
  ASSUME NEW text, NEW i \in Nat, NEW j \in Nat, i <= j
  PROVE  Units(text, i, j) = Utf16Length(text, i, j) /\ Units(text, i, j) \in Nat
<1> DEFINE all == (i + 1)..j
           wide == {k \in all : text[k] = "wide"}
           narrow == {k \in all : text[k] # "wide"}
<1>1. IsFiniteSet(all) /\ Cardinality(all) = j - i
  BY FiniteInterval
<1>2. Cardinality(wide) \in Nat /\ Cardinality(narrow) \in Nat
  BY FiniteInterval
<1>3. narrow = all \ wide /\ wide = all \cap wide
  OBVIOUS
<1> HIDE DEF all, wide, narrow
<1>4. Cardinality(narrow) = Cardinality(all) - Cardinality(wide)
  BY <1>1, <1>3, FS_Difference
<1> QED
  BY <1>1, <1>2, <1>4 DEF all, wide, narrow, Units, Utf16Length

\* Every character counts.
LEMMA UnitsGrow ==
  ASSUME NEW text, NEW s \in Nat, NEW i \in Nat, NEW j \in Nat, s <= i, i < j
  PROVE  Units(text, s, i) < Units(text, s, j)
<1> DEFINE first == {k \in (s + 1)..i : text[k] = "wide"}
           both == {k \in (s + 1)..j : text[k] = "wide"}
<1>1. IsFiniteSet(both) /\ Cardinality(both) \in Nat /\ Cardinality(first) \in Nat
  BY FiniteInterval
<1>2. first \in SUBSET both
  OBVIOUS
<1>3. Cardinality(first) <= Cardinality(both)
  BY <1>1, <1>2, FS_Subset
<1>4. /\ Units(text, s, i) = i - s + Cardinality(first)
      /\ Units(text, s, j) = j - s + Cardinality(both)
  BY UnitsAreUtf16 DEF Utf16Length
<1> QED
  BY <1>1, <1>3, <1>4

\* A line begins at one offset.
LEMMA LineOffsetsOne ==
  ASSUME NEW text \in Seq(Character), NEW line,
         NEW s \in LineOffsets(text, line), NEW r \in LineOffsets(text, line)
  PROVE  s = r
<1>1. ASSUME NEW a \in LineOffsets(text, line), NEW b \in LineOffsets(text, line), a < b
      PROVE  FALSE
  <2> DEFINE before == {k \in 1..a : text[k] = "lf"}
             upto == {k \in 1..b : text[k] = "lf"}
  <2>1. a \in Nat /\ b \in Nat /\ text[b] = "lf"
    BY <1>1 DEF LineOffsets
  <2>2. Cardinality(before) = Cardinality(upto)
    BY DEF LineOffsets, LineFeeds
  <2>3. IsFiniteSet(upto)
    <3>1. upto \in SUBSET ((0 + 1)..b)
      OBVIOUS
    <3> QED
      BY <3>1, <2>1, FiniteInterval
  <2>4. before \in SUBSET upto /\ b \in upto /\ b \notin before
    BY <1>1, <2>1
  <2> QED
    BY <2>2, <2>3, <2>4, FS_Subset
<1>2. s \in Nat /\ r \in Nat
  BY DEF LineOffsets
<1> QED
  BY <1>1, <1>2

LEMMA LineStartIs ==
  ASSUME NEW text, NEW o \in Nat
  PROVE  LET s == LineStart(text, o)
         IN /\ s \in 0..o
            /\ s = 0 \/ EndsLine(text, s)
            /\ \A k \in (s + 1)..o : ~EndsLine(text, k)
<1> DEFINE S == {s \in 0..o : s = 0 \/ EndsLine(text, s)}
<1>1. \E s \in S : \A k \in (s + 1)..o : k \notin S
  <2>1. S \in SUBSET (0..o) /\ 0 \in S
    OBVIOUS
  <2> QED
    BY <2>1, LastExists
<1>2. \E s \in 0..o : /\ s = 0 \/ EndsLine(text, s)
                      /\ \A k \in (s + 1)..o : ~EndsLine(text, k)
  BY <1>1
<1> QED
  BY <1>2 DEF LineStart

\* In a regular text the lines of the protocol are those between line feeds.
LEMMA RegularLines ==
  ASSUME NEW text \in Seq(Character), Regular(text), NEW k \in 1..Len(text)
  PROVE  EndsLine(text, k) <=> text[k] = "lf"
BY DEF Regular, EndsLine

\* The server resolves the position of a cursor, in any text whose carriage
\* returns are followed by line feeds, to this cursor and to no other offset.
THEOREM PositionsResolve ==
  ASSUME NEW text \in Seq(Character), Regular(text), NEW o \in Cursors(text)
  PROVE  ByteOffsets(text, PositionOf(text, o)) = {o}
<1> DEFINE position == PositionOf(text, o)
           s == LineStart(text, o)
<1>1. o \in 0..Len(text) /\ o \in Nat /\ Len(text) \in Nat
  BY DEF Cursors
<1>2. /\ s \in 0..o
      /\ s = 0 \/ EndsLine(text, s)
      /\ \A k \in (s + 1)..o : ~EndsLine(text, k)
  BY <1>1, LineStartIs
<1>3. s = 0 \/ text[s] = "lf"
  BY <1>1, <1>2, RegularLines
<1>4. \A k \in (s + 1)..o : text[k] # "lf"
  BY <1>1, <1>2, RegularLines
<1>5. \A k \in (s + 1)..o : ~IsLineBreak(text[k])
  <2>1. ASSUME NEW k \in (s + 1)..o, text[k] = "cr" PROVE FALSE
    <3>1. k \in 1..Len(text) /\ k < Len(text) /\ text[k + 1] = "lf"
      BY <2>1, <1>1, <1>2 DEF Regular
    <3>2. k + 1 \notin (s + 1)..o
      BY <3>1, <1>4
    <3>3. k = o
      BY <3>2, <1>1, <1>2
    <3> QED
      BY <2>1, <3>1, <3>3, <1>1 DEF Cursors
  <2> QED
    BY <2>1, <1>4 DEF IsLineBreak
<1>6. position.line = LineFeeds(text, s)
  <2>1. position.line = Cardinality({k \in 1..o : EndsLine(text, k)})
    BY DEF PositionOf
  <2>2. {k \in 1..o : EndsLine(text, k)} = {k \in 1..s : text[k] = "lf"}
    <3>1. ASSUME NEW k \in 1..o
          PROVE  EndsLine(text, k) <=> k \in 1..s /\ text[k] = "lf"
      <4>1. EndsLine(text, k) <=> text[k] = "lf"
        BY <1>1, RegularLines
      <4>2. k \in 1..s \/ k \in (s + 1)..o
        BY <1>1, <1>2
      <4> QED
        BY <4>1, <4>2, <1>4
    <3>2. 1..s \subseteq 1..o
      BY <1>1, <1>2
    <3> QED
      BY <3>1, <3>2
  <2> QED
    BY <2>1, <2>2 DEF LineFeeds
<1>7. position.character = Units(text, s, o)
  BY <1>1, <1>2, UnitsAreUtf16 DEF PositionOf
<1>8. s \in LineOffsets(text, position.line)
  BY <1>1, <1>2, <1>3, <1>6 DEF LineOffsets
<1> HIDE DEF position, s
<1>9. o \in ByteOffsets(text, position)
  BY <1>1, <1>2, <1>5, <1>7, <1>8 DEF ByteOffsets
<1>10. ASSUME NEW r \in ByteOffsets(text, position) PROVE r = o
  <2>1. PICK start \in LineOffsets(text, position.line) :
          start <= r /\ Units(text, start, r) = position.character
    BY DEF ByteOffsets
  <2>2. start = s
    BY <1>8, LineOffsetsOne
  <2>3. r \in Nat /\ s \in Nat /\ s <= r /\ s <= o /\ Units(text, s, r) = Units(text, s, o)
    BY <1>1, <1>2, <1>7, <2>1, <2>2 DEF ByteOffsets
  <2>4. ~(r < o)
    <3>1. SUFFICES ASSUME r < o PROVE FALSE
      OBVIOUS
    <3>2. Units(text, s, r) < Units(text, s, o) /\ Units(text, s, o) \in Nat
      BY <3>1, <2>3, <1>1, UnitsGrow, UnitsAreUtf16
    <3> QED
      BY <3>2, <2>3
  <2>5. ~(o < r)
    <3>1. SUFFICES ASSUME o < r PROVE FALSE
      OBVIOUS
    <3>2. Units(text, s, o) < Units(text, s, r) /\ Units(text, s, o) \in Nat
      BY <3>1, <2>3, <1>1, UnitsGrow, UnitsAreUtf16
    <3> QED
      BY <3>2, <2>3
  <2> QED
    BY <2>3, <2>4, <2>5, <1>1
<1> QED
  BY <1>9, <1>10 DEF position

---------------------------------------------------------------------------
(* The invariant *)

\* A document that is being changed is open, and its outline is not current.
ChangingIsOpen ==
  changing # None => documents[changing.uri] # None /\ outline[changing.uri] = None

OutlinesAreOpen == \A u \in Uri : outline[u] # None => documents[u] # None

\* The hash kept with symbols is that of the text they were computed from.
EntriesAreKeyed ==
  \A u \in Uri : entries[u] # None => entries[u].symbols = entries[u].text_hash

Reported(u) == \E i \in 1..Len(watched) : watched[i].uri = u

ClosedAreOnDisk ==
  \A u \in Uri : documents[u] = None =>
    /\ semantic[u] # None => ~semantic[u].is_open
    /\ u \in Indexable /\ ~Reported(u) => semantic[u] = FromDisk(file[u])

\* The last report about a file tells whether it is there.
LastReportsTell ==
  \A i \in 1..Len(watched) :
    (\A j \in (i + 1)..Len(watched) : watched[j].uri # watched[i].uri)
      => (watched[i].deleted <=> file[watched[i].uri] = None)

IInv ==
  /\ TypeOK
  /\ StoreIsEditors
  /\ WorkspaceFollowsStore
  /\ OutlineIsCurrent
  /\ ChangingIsOpen
  /\ OutlinesAreOpen
  /\ EntriesAreKeyed
  /\ ClosedAreOnDisk
  /\ LastReportsTell

---------------------------------------------------------------------------
(* What the actions have in common *)

LEMMA EditsAreTexts ==
  ASSUME NEW s \in Text, NEW t \in Text, NEW e \in Edits(s, t)
  PROVE  /\ EditOf(s, t, e).text \in Seq(Character)
         /\ ChangedTexts(s, EditOf(s, t, e)) = {t}
<1> DEFINE new == SubSeq(t, e.from + 1, Len(t) - (Len(s) - e.to))
<1>1. s \in Seq(Character) /\ t \in Seq(Character) /\ Regular(s)
  BY DocumentsAssumption
<1>2. e.from \in Cursors(s) /\ e.to \in Cursors(s) /\ e.from <= e.to
      /\ t = Replace(s, e.from, e.to, new)
  BY DEF Edits
<1>3. e.from \in 0..Len(s) /\ e.to \in 0..Len(s) /\ Len(s) \in Nat /\ Len(t) \in Nat
  BY <1>1, <1>2 DEF Cursors
<1>4. new \in Seq(Character)
  <2>1. \A i \in (e.from + 1)..(Len(t) - (Len(s) - e.to)) : t[i] \in Character
    BY <1>1, <1>3
  <2>2. PICK a \in Int, b \in Int : a = e.from + 1 /\ b = Len(t) - (Len(s) - e.to)
    BY <1>3
  <2> QED
    BY <2>1, <2>2, SubSeqProperties
<1>5. /\ ByteOffsets(s, EditOf(s, t, e).start) = {e.from}
      /\ ByteOffsets(s, EditOf(s, t, e).end) = {e.to}
  BY <1>1, <1>2, PositionsResolve DEF EditOf
<1>6. EditOf(s, t, e).text = new
  BY DEF EditOf
<1> HIDE DEF new
<1>7. ChangedTexts(s, EditOf(s, t, e)) = {Replace(s, e.from, e.to, new)}
  <2>1. {r \in {e.from} \X {e.to} : r[1] <= r[2]} = {<<e.from, e.to>>}
    BY <1>2
  <2>2. ChangedTexts(s, EditOf(s, t, e)) =
          {Replace(s, range[1], range[2], new) :
             range \in {r \in {e.from} \X {e.to} : r[1] <= r[2]}}
    BY <1>5, <1>6 DEF ChangedTexts
  <2>3. <<e.from, e.to>>[1] = e.from /\ <<e.from, e.to>>[2] = e.to
    OBVIOUS
  <2> QED
    BY <2>1, <2>2, <2>3
<1> QED
  BY <1>2, <1>4, <1>6, <1>7

LEMMA ChangedTextsAreTexts ==
  ASSUME NEW text \in Seq(Character), NEW change, change.text \in Seq(Character),
         NEW t \in ChangedTexts(text, change)
  PROVE  t \in Seq(Character)
<1>1. PICK i \in 0..Len(text), j \in 0..Len(text) : t = Replace(text, i, j, change.text)
  BY DEF ChangedTexts, ByteOffsets
<1>2. SubSeq(text, 1, i) \in Seq(Character)
  BY SubSeqProperties
<1>3. SubSeq(text, j + 1, Len(text)) \in Seq(Character)
  <2>1. PICK k \in Int : k = j + 1
    OBVIOUS
  <2>2. \A n \in k..Len(text) : text[n] \in Character
    BY <2>1
  <2> QED
    BY <2>1, <2>2, SubSeqProperties
<1> QED
  BY <1>1, <1>2, <1>3, ConcatProperties DEF Replace

LEMMA Conversions ==
  /\ \A d \in TextDocument : FromStore(d) \in SemanticDocument /\ FromStore(d).is_open
  /\ \A t \in FileText \cup {None} :
       /\ FromDisk(t) \in SemanticDocument \cup {None}
       /\ FromDisk(t) # None => ~FromDisk(t).is_open
BY DocumentsAssumption, NoneAssumption
   DEF FromStore, FromDisk, TextDocument, SemanticDocument

LEMMA OpenDocument ==
  ASSUME IInv, NEW u \in Uri, client[u] # None
  PROVE  client[u] \in Text /\ documents[u] \in TextDocument
BY DEF IInv, TypeOK, StoreIsEditors

LEMMA ChangedDocument ==
  ASSUME IInv, changing # None
  PROVE  /\ changing \in Change /\ changing.uri \in Uri
         /\ client[changing.uri] \in Text
         /\ documents[changing.uri] \in TextDocument
<1>1. changing \in Change
  BY DEF IInv, TypeOK
<1>2. changing.uri \in Uri
  BY <1>1 DEF Change
<1>3. client[changing.uri] # None
  BY <1>2 DEF IInv, ChangingIsOpen, StoreIsEditors
<1> QED
  BY <1>1, <1>2, <1>3, OpenDocument

\* Nothing happens to what is closed.
LEMMA ClosedUntouched ==
  ASSUME IInv, UNCHANGED disk, NEW u \in Uri, documents'[u] # None,
         \A d \in Uri \ {u} : documents'[d] = documents[d] /\ semantic'[d] = semantic[d]
  PROVE  ClosedAreOnDisk' /\ LastReportsTell'
<1>1. ClosedAreOnDisk'
  BY DEF IInv, ClosedAreOnDisk, Reported, disk
<1>2. LastReportsTell'
  BY DEF IInv, LastReportsTell, disk
<1> QED
  BY <1>1, <1>2

\* The end of an open, a change and a save.
LEMMA Told ==
  ASSUME IInv, NEW u \in Uri, NEW document \in TextDocument, NEW t \in Text,
         documents' = [documents EXCEPT ![u] = document],
         client' = [client EXCEPT ![u] = t],
         changing = None \/ changing.uri = u,
         changing' = None,
         TellWorkspace(u),
         UNCHANGED disk,
         diverged' \subseteq Uri,
         \A d \in Uri \ {u} : d \in diverged' <=> d \in diverged,
         u \notin diverged' => document.text = t
  PROVE  IInv'
<1>1. /\ document # None /\ t # None
      /\ documents'[u] = document /\ client'[u] = t
      /\ \A d \in Uri \ {u} : documents'[d] = documents[d] /\ client'[d] = client[d]
  BY DocumentsAssumption, NoneAssumption DEF IInv, TypeOK
<1>2. /\ semantic' = [semantic EXCEPT ![u] = FromStore(document)]
      /\ entries' = [entries EXCEPT ![u] = None]
      /\ outline' = [outline EXCEPT ![u] = None]
      /\ detached' = detached \ {u}
  BY <1>1 DEF TellWorkspace, InvalidateSyntaxCache, ForgetOutline
<1>3. /\ semantic'[u] = FromStore(document) /\ entries'[u] = None /\ outline'[u] = None
      /\ \A d \in Uri \ {u} : /\ semantic'[d] = semantic[d] /\ entries'[d] = entries[d]
                              /\ outline'[d] = outline[d]
  BY <1>2 DEF IInv, TypeOK
<1>4. TypeOK'
  <2>1. FromStore(document) \in SemanticDocument
    BY Conversions
  <2>2. client' \in [Uri -> Text \cup {None}]
    BY DEF IInv, TypeOK
  <2>3. documents' \in [Uri -> TextDocument \cup {None}]
    BY DEF IInv, TypeOK
  <2>4. semantic' \in [Uri -> SemanticDocument \cup {None}]
    BY <1>2, <2>1 DEF IInv, TypeOK
  <2>5. /\ entries' \in [Uri -> Entry \cup {None}]
        /\ outline' \in [Uri -> Seq(Character) \cup {None}]
    BY <1>2 DEF IInv, TypeOK
  <2> QED
    BY <1>2, <2>2, <2>3, <2>4, <2>5 DEF IInv, TypeOK, disk
<1>5. StoreIsEditors'
  BY <1>1 DEF IInv, StoreIsEditors
<1>6. WorkspaceFollowsStore'
  BY <1>1, <1>2, <1>3 DEF IInv, WorkspaceFollowsStore
<1>7. OutlineIsCurrent'
  BY <1>1, <1>3 DEF IInv, OutlineIsCurrent
<1>8. ChangingIsOpen' /\ OutlinesAreOpen' /\ EntriesAreKeyed'
  BY <1>1, <1>3 DEF IInv, ChangingIsOpen, OutlinesAreOpen, EntriesAreKeyed
<1>9. ClosedAreOnDisk' /\ LastReportsTell'
  BY <1>1, <1>3, ClosedUntouched
<1> QED
  BY <1>4, <1>5, <1>6, <1>7, <1>8, <1>9 DEF IInv

\* One change of a list, applied or refused.
LEMMA OneChange ==
  ASSUME IInv, changing # None,
         NEW document \in TextDocument, NEW t \in Text,
         documents' = [documents EXCEPT ![changing.uri] = document],
         client' = [client EXCEPT ![changing.uri] = t],
         \/ /\ changing' \in Change /\ changing'.uri = changing.uri
            /\ changing'.applied # 0
            /\ UNCHANGED detached
         \/ /\ changing' = None
            /\ document = documents[changing.uri]
            /\ detached' = IF changing.applied > 0 THEN detached \cup {changing.uri}
                           ELSE detached,
         UNCHANGED <<semantic, entries, outline, disk>>,
         diverged' \subseteq Uri,
         \A d \in Uri \ {changing.uri} : d \in diverged' <=> d \in diverged,
         changing.uri \notin diverged' => document.text = t
  PROVE  IInv'
<1> DEFINE u == changing.uri
<1>1. u \in Uri /\ changing \in Change /\ documents[u] \in TextDocument
  BY ChangedDocument
<1>2. /\ document # None /\ t # None
      /\ documents'[u] = document /\ client'[u] = t
      /\ \A d \in Uri \ {u} : documents'[d] = documents[d] /\ client'[d] = client[d]
  BY <1>1, DocumentsAssumption, NoneAssumption DEF IInv, TypeOK
<1>3. outline[u] = None /\ changing'\in Change \cup {None}
  BY DEF IInv, ChangingIsOpen
<1>4. TypeOK'
  <2>1. client' \in [Uri -> Text \cup {None}] /\ documents' \in [Uri -> TextDocument \cup {None}]
    BY <1>1 DEF IInv, TypeOK
  <2>2. detached' \subseteq Uri
    BY <1>1 DEF IInv, TypeOK
  <2> QED
    BY <1>3, <2>1, <2>2 DEF IInv, TypeOK, disk
<1>5. StoreIsEditors'
  BY <1>1, <1>2 DEF IInv, StoreIsEditors
<1>6. WorkspaceFollowsStore'
  <2>1. CASE changing' \in Change /\ changing'.uri = u /\ changing'.applied # 0
             /\ UNCHANGED detached
    <3>1. changing' # None
      BY <2>1, NoneAssumption
    <3> QED
      BY <1>1, <1>2, <2>1, <3>1 DEF IInv, WorkspaceFollowsStore
  <2>2. CASE changing' = None
    <3>1. /\ document = documents[u]
          /\ detached' = IF changing.applied > 0 THEN detached \cup {u} ELSE detached
      BY <2>2, NoneAssumption
    <3>2. changing.applied > 0 \/ changing.applied = 0
      BY <1>1, DocumentsAssumption DEF Change
    <3> QED
      BY <1>1, <1>2, <2>2, <3>1, <3>2 DEF IInv, WorkspaceFollowsStore
  <2> QED
    BY <2>1, <2>2
<1>7. OutlineIsCurrent'
  BY <1>1, <1>2, <1>3 DEF IInv, OutlineIsCurrent
<1>8. ChangingIsOpen' /\ OutlinesAreOpen' /\ EntriesAreKeyed'
  BY <1>1, <1>2, <1>3 DEF IInv, ChangingIsOpen, OutlinesAreOpen, EntriesAreKeyed
<1>9. ClosedAreOnDisk' /\ LastReportsTell'
  BY <1>1, <1>2, ClosedUntouched
<1> QED
  BY <1>4, <1>5, <1>6, <1>7, <1>8, <1>9 DEF IInv

\* A change with a range.
LEMMA RangeApplied ==
  ASSUME IInv, changing # None, changing.applied < MaxChanges,
         NEW change, change.text \in Seq(Character),
         ApplyRange(change),
         NEW t \in Text,
         client' = [client EXCEPT ![changing.uri] = t],
         \/ UNCHANGED diverged
         \/ diverged' = diverged \cup {changing.uri},
         \/ changing.uri \in diverged'
         \/ ChangedTexts(documents[changing.uri].text, change) = {t},
         UNCHANGED <<semantic, entries, outline, disk>>
  PROVE  IInv'
<1> DEFINE u == changing.uri
           texts == ChangedTexts(documents[u].text, change)
<1>1. u \in Uri /\ changing \in Change /\ documents[u] \in TextDocument
  BY ChangedDocument
<1>2. diverged' \subseteq Uri /\ \A d \in Uri \ {u} : d \in diverged' <=> d \in diverged
  BY <1>1 DEF IInv, TypeOK
<1>3. CASE texts = {}
  <2>1. Refused /\ u \in diverged'
    BY <1>3 DEF ApplyRange
  <2>2. documents' = [documents EXCEPT ![u] = documents[u]]
    BY <2>1 DEF Refused, IInv, TypeOK
  <2> QED
    BY <1>1, <1>2, <2>1, <2>2, OneChange DEF Refused
<1>4. CASE texts # {}
  <2>1. PICK new \in texts : Applied(new)
    BY <1>4 DEF ApplyRange
  <2>2. documents[u].text \in Seq(Character)
    BY <1>1 DEF TextDocument
  <2>3. new \in Seq(Character)
    BY <2>1, <2>2, ChangedTextsAreTexts
  <2>4. PICK document \in TextDocument :
          document = [documents[u] EXCEPT !.text = new] /\ document.text = new
    <3>1. [documents[u] EXCEPT !.text = new] \in TextDocument
      BY <1>1, <2>3 DEF TextDocument
    <3> QED
      BY <3>1, <1>1, <2>3 DEF TextDocument
  <2>5. documents' = [documents EXCEPT ![u] = document]
    BY <1>1, <2>1, <2>4 DEF Applied
  <2>6. changing' \in Change /\ changing'.uri = u /\ changing'.applied # 0 /\ UNCHANGED detached
    BY <1>1, <2>1, DocumentsAssumption DEF Applied, Change
  <2>7. u \notin diverged' => document.text = t
    BY <2>1, <2>4
  <2> QED
    BY <1>1, <1>2, <2>4, <2>5, <2>6, <2>7, OneChange
<1> QED
  BY <1>3, <1>4

---------------------------------------------------------------------------
(* The actions *)

LEMMA DidOpenInv ==
  ASSUME NEW u \in Uri, IInv, DidOpen(u)
  PROVE  IInv'
<1>1. PICK v \in Version, t \in Text :
        /\ client' = [client EXCEPT ![u] = t]
        /\ documents' = [documents EXCEPT ![u] = [version |-> v, text |-> t, dirty |-> FALSE]]
  BY DEF DidOpen
<1>2. PICK document \in TextDocument :
        document = [version |-> v, text |-> t, dirty |-> FALSE] /\ document.text = t
  <2>1. [version |-> v, text |-> t, dirty |-> FALSE] \in TextDocument
    BY DocumentsAssumption DEF TextDocument
  <2> QED
    BY <2>1, DocumentsAssumption DEF TextDocument
<1>3. diverged' \subseteq Uri /\ \A d \in Uri \ {u} : d \in diverged' <=> d \in diverged
  BY DEF DidOpen, IInv, TypeOK
<1>4. changing = None /\ changing' = None /\ TellWorkspace(u) /\ UNCHANGED disk
  BY DEF DidOpen
<1> QED
  BY <1>1, <1>2, <1>3, <1>4, Told

LEMMA BeginChangeInv ==
  ASSUME NEW u \in Uri, IInv, BeginChange(u)
  PROVE  IInv'
<1>1. PICK v \in Version : changing' = [uri |-> u, version |-> v, applied |-> 0]
  BY DEF BeginChange
<1>2. changing' \in Change /\ changing' # None /\ changing'.uri = u /\ changing'.applied = 0
  BY <1>1, DocumentsAssumption, NoneAssumption DEF Change
<1>3. changing = None /\ documents[u] # None
  BY NoneAssumption, OpenDocument DEF BeginChange
<1>4. outline' = [outline EXCEPT ![u] = None]
      /\ UNCHANGED <<client, documents, semantic, entries, disk, history>>
  BY DEF BeginChange, ForgetOutline
<1>5. TypeOK'
  BY <1>2, <1>4 DEF IInv, TypeOK, disk, history
<1>6. StoreIsEditors' /\ EntriesAreKeyed'
  BY <1>4 DEF IInv, StoreIsEditors, EntriesAreKeyed, history
<1>7. WorkspaceFollowsStore'
  BY <1>3, <1>4 DEF IInv, WorkspaceFollowsStore, history
<1>8. OutlineIsCurrent'
  BY <1>3, <1>4 DEF IInv, TypeOK, OutlineIsCurrent, history
<1>9. ChangingIsOpen' /\ OutlinesAreOpen'
  BY <1>2, <1>3, <1>4 DEF IInv, TypeOK, ChangingIsOpen, OutlinesAreOpen
<1>10. ClosedAreOnDisk' /\ LastReportsTell'
  BY <1>3, <1>4, ClosedUntouched
<1> QED
  BY <1>5, <1>6, <1>7, <1>8, <1>9, <1>10 DEF IInv

LEMMA RefuseVersionInv ==
  ASSUME NEW u \in Uri, IInv, RefuseVersion(u)
  PROVE  IInv'
<1>1. PICK t \in Text : client' = [client EXCEPT ![u] = t]
  BY DEF RefuseVersion
<1>2. documents[u] # None /\ t # None
  BY DocumentsAssumption, NoneAssumption, OpenDocument DEF RefuseVersion
<1>3. /\ changing = None
      /\ diverged' = diverged \cup {u}
      /\ outline' = [outline EXCEPT ![u] = None]
      /\ UNCHANGED <<documents, changing, semantic, entries, disk, detached>>
  BY DEF RefuseVersion, ForgetOutline, server
<1>4. TypeOK'
  BY <1>1, <1>3 DEF IInv, TypeOK, disk
<1>5. StoreIsEditors' /\ EntriesAreKeyed'
  BY <1>1, <1>2, <1>3 DEF IInv, TypeOK, StoreIsEditors, EntriesAreKeyed
<1>6. WorkspaceFollowsStore'
  BY <1>3 DEF IInv, WorkspaceFollowsStore
<1>7. OutlineIsCurrent'
  BY <1>1, <1>3 DEF IInv, TypeOK, OutlineIsCurrent
<1>8. ChangingIsOpen' /\ OutlinesAreOpen'
  BY <1>2, <1>3 DEF IInv, TypeOK, ChangingIsOpen, OutlinesAreOpen
<1>9. ClosedAreOnDisk' /\ LastReportsTell'
  BY <1>2, <1>3, ClosedUntouched
<1> QED
  BY <1>4, <1>5, <1>6, <1>7, <1>8, <1>9 DEF IInv

LEMMA ApplyWholeInv ==
  ASSUME IInv, ApplyWhole
  PROVE  IInv'
<1> DEFINE u == changing.uri
<1>1. /\ changing # None /\ changing.applied < MaxChanges
      /\ diverged' = diverged \ {u}
      /\ UNCHANGED <<semantic, entries, outline, disk>>
  BY DEF ApplyWhole
<1>2. PICK t \in Text : client' = [client EXCEPT ![u] = t] /\ Applied(t)
  BY DEF ApplyWhole
<1>3. u \in Uri /\ changing \in Change /\ documents[u] \in TextDocument
  BY <1>1, ChangedDocument
<1>4. PICK document \in TextDocument :
        document = [documents[u] EXCEPT !.text = t] /\ document.text = t
  <2>1. [documents[u] EXCEPT !.text = t] \in TextDocument
    BY <1>3, DocumentsAssumption DEF TextDocument
  <2> QED
    BY <2>1, <1>3, DocumentsAssumption DEF TextDocument
<1>5. documents' = [documents EXCEPT ![u] = document]
  BY <1>2, <1>3, <1>4 DEF Applied
<1>6. changing' \in Change /\ changing'.uri = u /\ changing'.applied # 0 /\ UNCHANGED detached
  BY <1>1, <1>2, <1>3, DocumentsAssumption DEF Applied, Change
<1>7. diverged' \subseteq Uri /\ \A d \in Uri \ {u} : d \in diverged' <=> d \in diverged
  BY <1>1 DEF IInv, TypeOK
<1> QED
  BY <1>1, <1>2, <1>4, <1>5, <1>6, <1>7, OneChange

\* The positions of an edit resolve to the edit, so where the texts agree they
\* agree again.
LEMMA ApplyEditInv ==
  ASSUME IInv, ApplyEdit
  PROVE  IInv'
<1> DEFINE u == changing.uri
<1>1. /\ changing # None /\ changing.applied < MaxChanges
      /\ UNCHANGED <<semantic, entries, outline, disk, diverged>>
  BY DEF ApplyEdit
<1>2. PICK t \in Text : \E e \in Edits(client[u], t) :
        client' = [client EXCEPT ![u] = t] /\ ApplyRange(EditOf(client[u], t, e))
  BY DEF ApplyEdit
<1>3. PICK e \in Edits(client[u], t) :
        client' = [client EXCEPT ![u] = t] /\ ApplyRange(EditOf(client[u], t, e))
  BY <1>2
<1>4. u \in Uri /\ client[u] \in Text
  BY <1>1, ChangedDocument
<1>5. /\ EditOf(client[u], t, e).text \in Seq(Character)
      /\ ChangedTexts(client[u], EditOf(client[u], t, e)) = {t}
  BY <1>4, EditsAreTexts
<1>6. client[u] # None
  BY <1>4, DocumentsAssumption, NoneAssumption
<1>7. u \in diverged' \/ documents[u].text = client[u]
  BY <1>1, <1>4, <1>6 DEF IInv, StoreIsEditors
<1> QED
  BY <1>1, <1>5, <1>7, <1>3, RangeApplied

LEMMA ApplyStrayInv ==
  ASSUME IInv, ApplyStray
  PROVE  IInv'
<1> DEFINE u == changing.uri
<1>1. /\ changing # None /\ changing.applied < MaxChanges
      /\ diverged' = diverged \cup {u}
      /\ UNCHANGED <<client, semantic, entries, outline, disk>>
  BY DEF ApplyStray
<1>2. PICK change \in StrayChange : ApplyRange(change)
  BY DEF ApplyStray
<1>3. change.text \in Seq(Character)
  BY DocumentsAssumption
<1>4. u \in Uri /\ client[u] \in Text
  BY <1>1, ChangedDocument
<1>5. client' = [client EXCEPT ![u] = client[u]]
  BY <1>1 DEF IInv, TypeOK
<1>6. u \in diverged'
  BY <1>1
<1> QED
  BY <1>1, <1>2, <1>3, <1>4, <1>5, <1>6, RangeApplied

LEMMA FinishChangeInv ==
  ASSUME IInv, FinishChange
  PROVE  IInv'
<1> DEFINE u == changing.uri
<1>1. changing # None /\ changing' = None /\ TellWorkspace(u) /\ UNCHANGED <<client, disk, diverged>>
  BY DEF FinishChange
<1>2. /\ changing \in Change /\ u \in Uri /\ client[u] \in Text
      /\ documents[u] \in TextDocument
  BY <1>1, ChangedDocument
<1>3. PICK document \in TextDocument :
        /\ document = [documents[u] EXCEPT !.version = changing.version, !.dirty = TRUE]
        /\ document.text = documents[u].text
  <2>1. [documents[u] EXCEPT !.version = changing.version, !.dirty = TRUE] \in TextDocument
    BY <1>2 DEF TextDocument, Change
  <2> QED
    BY <2>1, <1>2 DEF TextDocument
<1>4. documents' = [documents EXCEPT ![u] = document]
  BY <1>2, <1>3 DEF FinishChange
<1>5. client' = [client EXCEPT ![u] = client[u]]
  BY <1>1 DEF IInv, TypeOK
<1>6. u \notin diverged' => document.text = client[u]
  BY <1>1, <1>2, <1>3, DocumentsAssumption, NoneAssumption DEF IInv, StoreIsEditors
<1>7. diverged' \subseteq Uri /\ \A d \in Uri \ {u} : d \in diverged' <=> d \in diverged
  BY <1>1 DEF IInv, TypeOK
<1> QED
  BY <1>1, <1>2, <1>3, <1>4, <1>5, <1>6, <1>7, Told

LEMMA DidSaveInv ==
  ASSUME NEW u \in Uri, IInv, DidSave(u)
  PROVE  IInv'
<1>1. changing = None /\ client[u] # None /\ TellWorkspace(u) /\ UNCHANGED <<client, changing, disk>>
  BY DEF DidSave
<1>2. client[u] \in Text /\ documents[u] \in TextDocument
  BY <1>1, OpenDocument
<1>3. client' = [client EXCEPT ![u] = client[u]]
  BY <1>1 DEF IInv, TypeOK
<1>4. diverged' \subseteq Uri /\ \A d \in Uri \ {u} : d \in diverged' <=> d \in diverged
  BY DEF DidSave, IInv, TypeOK
<1>5. CASE /\ documents' = [documents EXCEPT ![u].text = client[u], ![u].dirty = FALSE]
           /\ diverged' = diverged \ {u}
  <2>1. PICK document \in TextDocument :
          /\ document = [documents[u] EXCEPT !.text = client[u], !.dirty = FALSE]
          /\ document.text = client[u]
    <3>1. [documents[u] EXCEPT !.text = client[u], !.dirty = FALSE] \in TextDocument
      BY <1>2, DocumentsAssumption DEF TextDocument
    <3> QED
      BY <3>1, <1>2, DocumentsAssumption DEF TextDocument
  <2>2. documents' = [documents EXCEPT ![u] = document]
    BY <1>5, <2>1
  <2> QED
    BY <1>1, <1>2, <1>3, <1>4, <2>1, <2>2, Told
<1>6. CASE documents' = [documents EXCEPT ![u].dirty = FALSE] /\ UNCHANGED diverged
  <2>1. PICK document \in TextDocument :
          /\ document = [documents[u] EXCEPT !.dirty = FALSE]
          /\ document.text = documents[u].text
    <3>1. [documents[u] EXCEPT !.dirty = FALSE] \in TextDocument
      BY <1>2 DEF TextDocument
    <3> QED
      BY <3>1, <1>2 DEF TextDocument
  <2>2. documents' = [documents EXCEPT ![u] = document]
    BY <1>6, <2>1
  <2>3. u \notin diverged' => document.text = client[u]
    BY <1>1, <1>6, <2>1 DEF IInv, StoreIsEditors
  <2> QED
    BY <1>1, <1>2, <1>3, <1>4, <2>1, <2>2, <2>3, Told
<1> QED
  BY <1>5, <1>6 DEF DidSave

LEMMA DidCloseInv ==
  ASSUME NEW u \in Uri, IInv, DidClose(u)
  PROVE  IInv'
<1>1. /\ changing = None
      /\ client' = [client EXCEPT ![u] = None]
      /\ documents' = [documents EXCEPT ![u] = None]
      /\ entries' = [entries EXCEPT ![u] = None]
      /\ semantic' = [semantic EXCEPT ![u] = FromDisk(file[u])]
      /\ outline' = [outline EXCEPT ![u] = None]
      /\ diverged' = diverged \ {u}
      /\ detached' = detached \ {u}
      /\ UNCHANGED <<changing, disk>>
  BY DEF DidClose, InvalidateSyntaxCache, ForgetOutline, Restored
<1>2. file[u] \in FileText \cup {None} /\ UNCHANGED <<file, watched>>
  BY <1>1 DEF IInv, TypeOK, disk
<1>3. TypeOK'
  <2>1. semantic' \in [Uri -> SemanticDocument \cup {None}]
    BY <1>1, <1>2, Conversions DEF IInv, TypeOK
  <2> QED
    BY <1>1, <1>2, <2>1 DEF IInv, TypeOK
<1>4. StoreIsEditors' /\ EntriesAreKeyed'
  BY <1>1 DEF IInv, TypeOK, StoreIsEditors, EntriesAreKeyed
<1>5. WorkspaceFollowsStore'
  BY <1>1 DEF IInv, TypeOK, WorkspaceFollowsStore
<1>6. OutlineIsCurrent' /\ OutlinesAreOpen' /\ ChangingIsOpen'
  BY <1>1 DEF IInv, TypeOK, OutlineIsCurrent, OutlinesAreOpen, ChangingIsOpen
<1>7. ClosedAreOnDisk'
  BY <1>1, <1>2, Conversions DEF IInv, TypeOK, ClosedAreOnDisk, Reported
<1>8. LastReportsTell'
  BY <1>2 DEF IInv, LastReportsTell
<1> QED
  BY <1>3, <1>4, <1>5, <1>6, <1>7, <1>8 DEF IInv

\* The new report is the last one about its file.
LEMMA ChangeFileInv ==
  ASSUME NEW u \in Uri, IInv, ChangeFile(u)
  PROVE  IInv'
<1>1. PICK t \in FileText \cup {None} :
        /\ file' = [file EXCEPT ![u] = t]
        /\ watched' = Append(watched, [uri |-> u, deleted |-> t = None])
  BY DEF ChangeFile
<1>2. UNCHANGED <<client, documents, changing, semantic, entries, outline, diverged, detached>>
  BY DEF ChangeFile, server, history
<1> DEFINE report == [uri |-> u, deleted |-> t = None]
<1>3. /\ watched \in Seq([uri : Uri, deleted : BOOLEAN])
      /\ report \in [uri : Uri, deleted : BOOLEAN]
      /\ file' \in [Uri -> FileText \cup {None}]
      /\ file'[u] = t
      /\ \A d \in Uri \ {u} : file'[d] = file[d]
  BY <1>1 DEF IInv, TypeOK
<1>4. /\ watched' \in Seq([uri : Uri, deleted : BOOLEAN])
      /\ Len(watched) \in Nat
      /\ Len(watched') = Len(watched) + 1
      /\ \A i \in 1..Len(watched) : watched'[i] = watched[i]
      /\ watched'[Len(watched) + 1] = report
  BY <1>1, <1>3, AppendProperties
<1>5. TypeOK'
  BY <1>2, <1>3, <1>4 DEF IInv, TypeOK
<1>6. StoreIsEditors' /\ EntriesAreKeyed' /\ ChangingIsOpen' /\ OutlinesAreOpen'
  BY <1>2 DEF IInv, StoreIsEditors, EntriesAreKeyed, ChangingIsOpen, OutlinesAreOpen
<1>7. WorkspaceFollowsStore' /\ OutlineIsCurrent'
  BY <1>2 DEF IInv, WorkspaceFollowsStore, OutlineIsCurrent
<1>8. ClosedAreOnDisk'
  <2>1. Reported(u)'
    BY <1>4 DEF Reported
  <2>2. \A d \in Uri : Reported(d) => Reported(d)'
    BY <1>4 DEF Reported
  <2> QED
    BY <1>2, <1>3, <2>1, <2>2 DEF IInv, ClosedAreOnDisk
<1>9. LastReportsTell'
  <2>1. ASSUME NEW i \in 1..Len(watched'),
               \A j \in (i + 1)..Len(watched') : watched'[j].uri # watched'[i].uri
        PROVE  watched'[i].deleted <=> file'[watched'[i].uri] = None
    <3>1. CASE i = Len(watched) + 1
      BY <1>3, <1>4, <3>1
    <3>2. CASE i \in 1..Len(watched)
      <4>1. watched'[i] = watched[i] /\ watched[i] \in [uri : Uri, deleted : BOOLEAN]
        <5>1. watched'[i] = watched[i]
          BY <1>4, <3>2
        <5>2. \A S : watched \in Seq(S) => watched[i] \in S
          BY <3>2
        <5> QED
          BY <1>3, <5>1, <5>2
      <4>2. watched[i].uri # u
        <5>1. Len(watched) + 1 \in (i + 1)..Len(watched')
          BY <1>4, <3>2
        <5> QED
          BY <2>1, <4>1, <5>1, <1>4
      <4>3. \A j \in (i + 1)..Len(watched) : watched[j].uri # watched[i].uri
        BY <1>4, <2>1, <3>2, <4>1
      <4> QED
        BY <1>3, <3>2, <4>1, <4>2, <4>3 DEF IInv, LastReportsTell
    <3> QED
      BY <1>4, <3>1, <3>2
  <2> QED
    BY <2>1 DEF LastReportsTell
<1> QED
  BY <1>5, <1>6, <1>7, <1>8, <1>9 DEF IInv

\* The report handled is the last one about its file, and tells the truth, or
\* another one about it is under way.
LEMMA DidChangeWatchedFileInv ==
  ASSUME IInv, DidChangeWatchedFile
  PROVE  IInv'
<1> DEFINE report == Head(watched)
<1>1. /\ changing = None /\ watched # <<>> /\ watched' = Tail(watched)
      /\ UNCHANGED <<client, documents, changing, outline, file, diverged>>
  BY DEF DidChangeWatchedFile
<1>2. watched \in Seq([uri : Uri, deleted : BOOLEAN])
  BY DEF IInv, TypeOK
<1>3. /\ report \in [uri : Uri, deleted : BOOLEAN]
      /\ watched[1] = report
      /\ Len(watched) \in Nat \ {0}
      /\ watched' \in Seq([uri : Uri, deleted : BOOLEAN])
      /\ Len(watched') = Len(watched) - 1
      /\ \A i \in 1..Len(watched') : watched'[i] = watched[i + 1]
  <2>1. \A S : watched \in Seq(S) =>
          /\ Head(watched) \in S
          /\ Head(watched) = watched[1]
          /\ Len(watched) \in Nat
          /\ Len(watched) # 0
          /\ Tail(watched) \in Seq(S)
          /\ Len(Tail(watched)) = Len(watched) - 1
          /\ \A i \in 1..Len(Tail(watched)) : Tail(watched)[i] = watched[i + 1]
    <3>1. SUFFICES ASSUME NEW S, watched \in Seq(S)
                   PROVE  /\ Head(watched) \in S
                          /\ Head(watched) = watched[1]
                          /\ Len(watched) \in Nat
                          /\ Len(watched) # 0
                          /\ Tail(watched) \in Seq(S)
                          /\ Len(Tail(watched)) = Len(watched) - 1
                          /\ \A i \in 1..Len(Tail(watched)) : Tail(watched)[i] = watched[i + 1]
      OBVIOUS
    <3>2. Len(watched) \in Nat /\ Len(watched) # 0
      BY <1>1, <3>1, EmptySeq, LenProperties
    <3>3. /\ Head(watched) \in S
          /\ Tail(watched) \in Seq(S)
          /\ Len(Tail(watched)) = Len(watched) - 1
          /\ \A i \in 1..Len(Tail(watched)) : Tail(watched)[i] = watched[i + 1]
      BY <1>1, <3>1, <3>2, HeadTailProperties
    <3>4. Head(watched) = watched[1]
      BY <3>1
    <3> QED
      BY <3>2, <3>3, <3>4
  <2> QED
    BY <1>1, <1>2, <2>1
<1>4. PICK u \in Uri : u = report.uri /\ u = watched[1].uri /\ file[u] \in FileText \cup {None}
  BY <1>3 DEF IInv, TypeOK
<1>5. \A d \in Uri \ {u} : Reported(d) => Reported(d)'
  <2>1. ASSUME NEW d \in Uri \ {u}, NEW i \in 1..Len(watched), watched[i].uri = d
        PROVE  Reported(d)'
    <3>1. i - 1 \in 1..Len(watched')
      BY <1>3, <1>4, <2>1
    <3>2. watched'[i - 1] = watched[i]
      BY <1>3, <3>1
    <3> QED
      BY <2>1, <3>1, <3>2 DEF Reported
  <2> QED
    BY <2>1 DEF Reported
<1>6. ~Reported(u)' => (report.deleted <=> file[u] = None)
  <2>1. SUFFICES ASSUME ~Reported(u)' PROVE report.deleted <=> file[u] = None
    OBVIOUS
  <2>2. ASSUME NEW j \in 2..Len(watched) PROVE watched[j].uri # watched[1].uri
    <3>1. j - 1 \in 1..Len(watched') /\ watched'[j - 1] = watched[j]
      BY <1>3, <2>2
    <3> QED
      BY <1>3, <1>4, <2>1, <3>1 DEF Reported
  <2> QED
    BY <1>3, <1>4, <2>2 DEF IInv, LastReportsTell
<1>7. LastReportsTell'
  <2>1. ASSUME NEW i \in 1..Len(watched'),
               \A j \in (i + 1)..Len(watched') : watched'[j].uri # watched'[i].uri
        PROVE  watched'[i].deleted <=> file'[watched'[i].uri] = None
    <3>1. i + 1 \in 1..Len(watched) /\ watched'[i] = watched[i + 1]
      BY <1>3
    <3>2. ASSUME NEW j \in (i + 2)..Len(watched) PROVE watched[j].uri # watched[i + 1].uri
      <4>1. j - 1 \in (i + 1)..Len(watched') /\ watched'[j - 1] = watched[j]
        BY <1>3, <3>2
      <4> QED
        BY <2>1, <3>1, <4>1
    <3> QED
      BY <1>1, <3>1, <3>2 DEF IInv, LastReportsTell
  <2> QED
    BY <2>1 DEF LastReportsTell
<1>8. StoreIsEditors' /\ OutlineIsCurrent' /\ OutlinesAreOpen' /\ ChangingIsOpen'
  BY <1>1 DEF IInv, StoreIsEditors, OutlineIsCurrent, OutlinesAreOpen, ChangingIsOpen
<1>9. CASE u \notin Indexable /\ UNCHANGED <<semantic, entries, detached>>
  <2>1. TypeOK' /\ WorkspaceFollowsStore' /\ EntriesAreKeyed'
    BY <1>1, <1>3, <1>9 DEF IInv, TypeOK, WorkspaceFollowsStore, EntriesAreKeyed
  <2>2. ClosedAreOnDisk'
    BY <1>1, <1>5, <1>9 DEF IInv, ClosedAreOnDisk
  <2> QED
    BY <1>7, <1>8, <2>1, <2>2 DEF IInv
<1>10. CASE /\ u \in Indexable
            /\ report.deleted
            /\ entries' = [entries EXCEPT ![u] = None]
            /\ semantic' = [semantic EXCEPT ![u] = None]
            /\ detached' = IF documents[u] # None THEN detached \cup {u} ELSE detached
  <2>1. TypeOK'
    BY <1>1, <1>3, <1>4, <1>10 DEF IInv, TypeOK
  <2>2. WorkspaceFollowsStore' /\ EntriesAreKeyed'
    BY <1>1, <1>4, <1>10 DEF IInv, TypeOK, WorkspaceFollowsStore, EntriesAreKeyed
  <2>3. ClosedAreOnDisk'
    <3>1. ~Reported(u)' => FromDisk(file[u]) = None
      BY <1>6, <1>10 DEF FromDisk
    <3>2. semantic'[u] = None /\ \A d \in Uri \ {u} : semantic'[d] = semantic[d]
      BY <1>4, <1>10 DEF IInv, TypeOK
    <3>3. ClosedAreOnDisk
      BY DEF IInv
    <3>4. ASSUME NEW d \in Uri, documents'[d] = None
          PROVE  /\ semantic'[d] # None => ~semantic'[d].is_open
                 /\ d \in Indexable /\ ~Reported(d)' => semantic'[d] = FromDisk(file'[d])
      <4>1. CASE d = u
        <5>1. semantic'[d] = None
          BY <3>2, <4>1
        <5>2. ~Reported(d)' => FromDisk(file'[d]) = None
          BY <1>1, <3>1, <4>1 DEF Reported, FromDisk
        <5> QED
          BY <5>1, <5>2
      <4>2. CASE d # u
        BY <1>1, <1>5, <3>2, <3>3, <3>4, <4>2 DEF ClosedAreOnDisk
      <4> QED
        BY <4>1, <4>2
    <3> QED
      BY <3>4 DEF ClosedAreOnDisk
  <2> QED
    BY <1>7, <1>8, <2>1, <2>2, <2>3 DEF IInv
<1>11. CASE /\ u \in Indexable
            /\ semantic' = [semantic EXCEPT ![u] = Reread(u)]
            /\ IF Reread(u) = None THEN InvalidateSyntaxCache(u) ELSE UNCHANGED entries
            /\ detached' = detached \ {u}
  <2>1. /\ documents[u] # None => documents[u] \in TextDocument /\ Reread(u) = FromStore(documents[u])
        /\ documents[u] = None => Reread(u) = FromDisk(file[u])
    BY <1>4 DEF Reread, IInv, TypeOK
  <2>2. Reread(u) \in SemanticDocument \cup {None}
    BY <1>4, <2>1, Conversions
  <2>3. entries' = [entries EXCEPT ![u] = None] \/ entries' = entries
    BY <1>11 DEF InvalidateSyntaxCache
  <2>4. TypeOK'
    <3>1. semantic' \in [Uri -> SemanticDocument \cup {None}]
      BY <1>11, <2>2 DEF IInv, TypeOK
    <3>2. entries' \in [Uri -> Entry \cup {None}]
      BY <2>3 DEF IInv, TypeOK
    <3> QED
      BY <1>1, <1>3, <1>11, <3>1, <3>2 DEF IInv, TypeOK
  <2>5. EntriesAreKeyed'
    BY <2>3 DEF IInv, TypeOK, EntriesAreKeyed
  <2>6. WorkspaceFollowsStore'
    BY <1>1, <1>4, <1>11, <2>1 DEF IInv, TypeOK, WorkspaceFollowsStore
  <2>7. ClosedAreOnDisk'
    BY <1>1, <1>4, <1>5, <1>11, <2>1, Conversions DEF IInv, TypeOK, ClosedAreOnDisk
  <2> QED
    BY <1>7, <1>8, <2>4, <2>5, <2>6, <2>7 DEF IInv
<1> QED
  BY <1>4, <1>9, <1>10, <1>11 DEF DidChangeWatchedFile, InvalidateSyntaxCache

LEMMA DocumentSymbolInv ==
  ASSUME NEW u \in Uri, IInv, DocumentSymbol(u)
  PROVE  IInv'
<1>1. /\ changing = None
      /\ documents[u] \in TextDocument
      /\ outline' = [outline EXCEPT ![u] = entries'[u].symbols]
      /\ UNCHANGED <<client, documents, changing, semantic, disk, history>>
  BY DEF DocumentSymbol, IInv, TypeOK
<1>2. /\ entries' \in [Uri -> Entry \cup {None}]
      /\ entries'[u].symbols = documents[u].text
      /\ EntriesAreKeyed'
  <2>1. CASE Hit(u) /\ UNCHANGED entries
    BY <2>1 DEF Hit, IInv, TypeOK, EntriesAreKeyed
  <2>2. CASE entries' = [entries EXCEPT ![u] = [version |-> documents[u].version,
                                                text_hash |-> documents[u].text,
                                                symbols |-> documents[u].text]]
    <3>1. [version |-> documents[u].version, text_hash |-> documents[u].text,
           symbols |-> documents[u].text] \in Entry
      BY <1>1 DEF TextDocument, Entry
    <3> QED
      BY <2>2, <3>1 DEF IInv, TypeOK, EntriesAreKeyed
  <2> QED
    BY <2>1, <2>2 DEF DocumentSymbol
<1>3. documents[u].text \in Seq(Character) /\ documents[u] # None
  BY <1>1, NoneAssumption DEF TextDocument
<1>4. TypeOK'
  BY <1>1, <1>2, <1>3 DEF IInv, TypeOK, disk, history
<1>5. StoreIsEditors' /\ ChangingIsOpen'
  BY <1>1 DEF IInv, StoreIsEditors, ChangingIsOpen, history
<1>6. OutlineIsCurrent' /\ OutlinesAreOpen'
  BY <1>1, <1>2, <1>3 DEF IInv, TypeOK, StoreIsEditors, OutlineIsCurrent, OutlinesAreOpen, history
<1>7. WorkspaceFollowsStore'
  BY <1>1 DEF IInv, WorkspaceFollowsStore, history
<1>8. ClosedAreOnDisk' /\ LastReportsTell'
  BY <1>1, <1>3, ClosedUntouched
<1> QED
  BY <1>2, <1>4, <1>5, <1>6, <1>7, <1>8 DEF IInv

---------------------------------------------------------------------------
(* The theorems *)

LEMMA InitInv == Init => IInv
<1> SUFFICES ASSUME Init PROVE IInv
  OBVIOUS
<1>1. TypeOK
  <2>1. semantic \in [Uri -> SemanticDocument \cup {None}]
    BY Conversions DEF Init
  <2> QED
    BY <2>1 DEF Init, TypeOK
<1>2. StoreIsEditors /\ WorkspaceFollowsStore /\ OutlineIsCurrent
  BY DEF Init, StoreIsEditors, WorkspaceFollowsStore, OutlineIsCurrent
<1>3. ChangingIsOpen /\ OutlinesAreOpen /\ EntriesAreKeyed
  BY DEF Init, ChangingIsOpen, OutlinesAreOpen, EntriesAreKeyed
<1>4. ClosedAreOnDisk
  BY Conversions DEF Init, ClosedAreOnDisk
<1>5. LastReportsTell
  BY DEF Init, LastReportsTell
<1> QED
  BY <1>1, <1>2, <1>3, <1>4, <1>5 DEF IInv

LEMMA StutterInv == IInv /\ UNCHANGED vars => IInv'
<1> SUFFICES ASSUME IInv, UNCHANGED vars PROVE IInv'
  OBVIOUS
<1>1. UNCHANGED <<client, documents, changing, semantic, entries, outline, file, watched,
                  diverged, detached>>
  BY DEF vars, server, disk, history
<1>2. TypeOK' /\ StoreIsEditors' /\ WorkspaceFollowsStore' /\ OutlineIsCurrent'
  BY <1>1 DEF IInv, TypeOK, StoreIsEditors, WorkspaceFollowsStore, OutlineIsCurrent
<1>3. ChangingIsOpen' /\ OutlinesAreOpen' /\ EntriesAreKeyed'
  BY <1>1 DEF IInv, ChangingIsOpen, OutlinesAreOpen, EntriesAreKeyed
<1>4. ClosedAreOnDisk' /\ LastReportsTell'
  BY <1>1 DEF IInv, ClosedAreOnDisk, Reported, LastReportsTell
<1> QED
  BY <1>2, <1>3, <1>4 DEF IInv

LEMMA NextInv == IInv /\ [Next]_vars => IInv'
BY DidOpenInv, BeginChangeInv, RefuseVersionInv, ApplyWholeInv, ApplyEditInv, ApplyStrayInv,
   FinishChangeInv, DidSaveInv, DidCloseInv, ChangeFileInv, DidChangeWatchedFileInv,
   DocumentSymbolInv, StutterInv DEF Next

LEMMA Invariance == Spec => []IInv
BY InitInv, NextInv, PTL DEF Spec

\* Every variable has its type: however changes are refused, what the store,
\* the workspace and the cache hold are documents.
THEOREM TypeCorrect == Spec => []TypeOK
<1>1. IInv => TypeOK
  BY DEF IInv
<1> QED
  BY <1>1, Invariance, PTL

\* applyChanges leaves the store with the editor's text, for all texts, edits
\* and lists of changes that describe it.
THEOREM StoreCorrect == Spec => []StoreIsEditors
<1>1. IInv => StoreIsEditors
  BY DEF IInv
<1> QED
  BY <1>1, Invariance, PTL

\* The handlers of the session keep the workspace's open documents those of
\* the store.
THEOREM WorkspaceCorrect == Spec => []WorkspaceFollowsStore
<1>1. IInv => WorkspaceFollowsStore
  BY DEF IInv
<1> QED
  BY <1>1, Invariance, PTL

\* restoreClosedDocument and handleDidChangeWatchedFiles keep its other
\* documents those on disk, whatever the order of changes, reports and closes.
THEOREM DiskCorrect == Spec => []WorkspaceFollowsDisk
<1>1. IInv => WorkspaceFollowsDisk
  BY DEF IInv, ClosedAreOnDisk, Reported, WorkspaceFollowsDisk
<1> QED
  BY <1>1, Invariance, PTL

\* The syntax cache never answers with the symbols of another text.
THEOREM OutlineCorrect == Spec => []OutlineIsCurrent
<1>1. IInv => OutlineIsCurrent
  BY DEF IInv
<1> QED
  BY <1>1, Invariance, PTL
=============================================================================
