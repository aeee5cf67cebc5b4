---------------------------- MODULE ResultStore ----------------------------
(***************************************************************************)
(* The versioned document result store with the request handlers that use  *)
(* it (pull diagnostics, semantic tokens, token deltas) and what a client  *)
(* makes of their answers.                                                 *)
(* Sources: src/server/VersionedDocumentResultStore.cpp and the handlers   *)
(* of src/server/ServerSession.cpp.                                        *)
(*                                                                         *)
(* The handlers run on the dispatcher thread, which alone changes the      *)
(* documents and the semantic workspace, so a handler is one step.  It can *)
(* still be cancelled at its polls: before it has stored anything, which   *)
(* leaves no trace, or afterwards, when the store has changed but the      *)
(* client is not told.                                                     *)
(*                                                                         *)
(* The hash in a result id is taken to be injective.  There is only one    *)
(* version of the token legend.  The snapshot identity is a function of    *)
(* the generation.  The hit and miss counters are left out.                *)
(***************************************************************************)
EXTENDS SemanticTokens

CONSTANTS Document,
          Result,          \* the results the engine may compute of a document
          EngineItems,     \* the diagnostics of each result
          EngineTokens,    \* the tokens of each result
          MaxBuckets,      \* kMaxDocumentBuckets
          MaxHistory,      \* kMaxSemanticTokenHistory
          MaxGeneration,   \* bound on the changes of the workspace
          MaxAccess        \* bound on the uses of the store

ASSUME StoreAssumption ==
  /\ Result # {}
  /\ MaxBuckets \in Nat \ {0}
  /\ MaxHistory \in Nat \ {0}
  /\ MaxGeneration \in Nat
  /\ MaxAccess \in Nat

\* The engine's tokens are a vector, of positions and types that are not negative.
ASSUME TokenAssumption ==
  EngineTokens \in
    [Result -> Seq([line : Nat, end_line : Nat, start : Nat, end : Nat, type : Nat])]

VARIABLES
  version,       \* version of every open document, 0 for the others
  generation,    \* semantic_workspace_.engineGeneration()
  result,        \* what the engine computes for each document at present
  buckets,       \* buckets_; a bucket with last_access 0 does not exist
  access_clock,  \* access_clock_
  held           \* what the client holds for each document, and whether
                 \* it was answered since the last change

workspace == <<version, generation, result>>
store == <<buckets, access_clock>>
vars == <<workspace, store, held>>

NoBucket == [diagnostics |-> <<>>, semantic_tokens |-> <<>>, last_access |-> 0]
NoAnswer == [id |-> <<>>, content |-> <<>>, recent |-> FALSE]

\* The tokens to draw, and their encoding, of what the engine computes.
Drawing == [r \in Result |-> Drawable(EngineTokens[r])]
Encoding == [r \in Result |-> Encode(EngineTokens[r])]

Open == {d \in Document : version[d] > 0}
Present(bs) == {d \in Document : bs[d].last_access > 0}

DiagnosticId(d, items) == <<d, items>>
TokenId(d, data) == <<d, data>>

Items == {EngineItems[r] : r \in Result}
Encodings == {Encoding[r] : r \in Result}
EncodedToken == UNION {Range(Encoding[r]) : r \in Result}

Id(contents) == Document \X contents
Entry(contents) ==
  [result_id : Id(contents), content : contents, version : Nat, generation : Nat]
Bucket ==
  [diagnostics : Seq(Entry(Items)), semantic_tokens : Seq(Entry(Encodings)),
   last_access : Nat]
Held(ids, contents) ==
  [id : ids \cup {<<>>}, content : contents \cup {<<>>}, recent : BOOLEAN]

TypeOK ==
  /\ version \in [Document -> Nat]
  /\ generation \in Nat
  /\ result \in [Document -> Result]
  /\ buckets \in [Document -> Bucket]
  /\ \A d \in Document : buckets[d].last_access <= access_clock
  /\ access_clock \in Nat
  /\ held \in [Document -> [diagnostics : Held(Id(Items), Items),
                           tokens : Held(Id(Encodings), Seq(EncodedToken))]]

Init ==
  /\ version = [d \in Document |-> 0]
  /\ generation = 1
  /\ \E r \in Result : result = [d \in Document |-> r]
  /\ buckets = [d \in Document |-> NoBucket]
  /\ access_clock = 0
  /\ held = [d \in Document |-> [diagnostics |-> NoAnswer, tokens |-> NoAnswer]]

---------------------------------------------------------------------------
(* The documents and the engine *)

NextGeneration == generation + 1

Outdated(answer) == [answer EXCEPT !.recent = FALSE]

\* A document changes: it, or one that depends on it, may have another result.
\* (Every property is about one document at a time, so one is enough.)
Reanalyse ==
  /\ generation < MaxGeneration
  /\ generation' = NextGeneration
  /\ \E d \in Document, r \in Result : result' = [result EXCEPT ![d] = r]
  /\ held' = [d \in Document |-> [diagnostics |-> Outdated(held[d].diagnostics),
                                  tokens |-> Outdated(held[d].tokens)]]

DidOpen(d) ==
  /\ version[d] = 0
  /\ version' = [version EXCEPT ![d] = 1]
  /\ Reanalyse
  /\ UNCHANGED store

DidChange(d) ==
  /\ version[d] > 0
  /\ version' = [version EXCEPT ![d] = @ + 1]
  /\ Reanalyse
  /\ UNCHANGED store

\* didSave of an open document and didChangeWatchedFiles.
UpdateUnderVersion ==
  /\ UNCHANGED <<version, store>>
  /\ Reanalyse

\* Bug: the bucket outlives the document.
KeepUri(d) == UNCHANGED buckets
ClearUri(d) == buckets' = [buckets EXCEPT ![d] = NoBucket]

DidClose(d) ==
  /\ ClearUri(d)
  /\ version' = [version EXCEPT ![d] = 0]
  /\ Reanalyse
  /\ UNCHANGED access_clock

\* A second initialize: the store is cleared, the documents stay open.
Initialize ==
  /\ buckets' = [d \in Document |-> NoBucket]
  /\ access_clock' = 0
  /\ UNCHANGED version
  /\ Reanalyse

---------------------------------------------------------------------------
(* The store *)

\* metadataMatches, for the metadata a handler makes of document d.
IsCurrent(d, entry) ==
  entry.version = version[d] /\ entry.generation = generation
HasCurrent(d, entries) == \E entry \in Range(entries) : IsCurrent(d, entry)
NewestCurrent(d, entries) == SelectLastInSeq(entries, LAMBDA entry : IsCurrent(d, entry))

\* touchBucketLocked, and the touch of a hit.  The touches of one request count
\* as one.
Touched(bucket) == [bucket EXCEPT !.last_access = access_clock + 1]
TouchHit(bucket) == Touched(bucket)

\* evictLocked: the least recently used buckets go until the number fits.
\* Bug: one bucket too many stays.
FitsLoosely(bs, d) ==
  Cardinality({e \in Document : bs[e].last_access > bs[d].last_access}) <= MaxBuckets
\* Bug: of the other buckets, the one used last goes.
FitsOldest(bs, d) ==
  \/ \A e \in Document : bs[e].last_access <= bs[d].last_access
  \/ Cardinality({e \in Present(bs) : bs[e].last_access < bs[d].last_access})
       < MaxBuckets - 1
Fits(bs, d) ==
  Cardinality({e \in Document : bs[e].last_access > bs[d].last_access}) < MaxBuckets
Evict(bs) == [d \in Document |-> IF Fits(bs, d) THEN bs[d] ELSE NoBucket]

StoreBucket(d, bucket) ==
  buckets' = Evict([buckets EXCEPT ![d] = Touched(bucket)])

\* storeDiagnostics
FreshDiagnostics(d) ==
  LET items == EngineItems[result[d]]
  IN [result_id |-> DiagnosticId(d, items), content |-> items,
      version |-> version[d], generation |-> generation]

\* storeSemanticTokens: an entry of the same id is replaced where it is; a
\* new one is appended and may push out the oldest.
FreshTokens(d) ==
  LET data == Encoding[result[d]]
  IN [result_id |-> TokenId(d, data), content |-> data,
      version |-> version[d], generation |-> generation]

\* Bug: the new entry is dropped instead of the oldest one.
DropNewest(history) == SubSeq(history, 1, MaxHistory)
DropOldest(history) == Tail(history)

Remember(history, entry) ==
  LET same == {i \in DOMAIN history : history[i].result_id = entry.result_id}
  IN IF same # {}
       THEN [i \in DOMAIN history |-> IF i \in same THEN entry ELSE history[i]]
       ELSE IF Len(history) < MaxHistory
         THEN Append(history, entry)
         ELSE DropOldest(Append(history, entry))

\* semanticTokensForResultId
IndexOfId(history, id) ==
  SelectInSeq(history, LAMBDA entry : entry.result_id = id)

---------------------------------------------------------------------------
(* The requests *)

Uses(d) ==
  /\ d \in Open
  /\ access_clock < MaxAccess
  /\ access_clock' = access_clock + 1
  /\ UNCHANGED workspace

Hold(d, kind, entry, content) ==
  held' = [held EXCEPT ![d][kind] = [id |-> entry.result_id, content |-> content,
                                     recent |-> TRUE]]

\* handleDocumentDiagnostic, with the id of the last answer.  The answer
\* `unchanged' leaves the client with the diagnostics it has.
Pull(d, entry) ==
  Hold(d, "diagnostics", entry,
       IF held[d].diagnostics.id = entry.result_id
         THEN held[d].diagnostics.content ELSE entry.content)

DocumentDiagnostic(d, told) ==
  LET cached == buckets[d].diagnostics
  IN /\ Uses(d)
     /\ \/ /\ HasCurrent(d, cached)
           /\ buckets' = [buckets EXCEPT ![d] = TouchHit(@)]
           /\ IF told THEN Pull(d, cached[1]) ELSE UNCHANGED held
        \/ /\ ~HasCurrent(d, cached)
           /\ StoreBucket(d, [buckets[d] EXCEPT !.diagnostics = <<FreshDiagnostics(d)>>])
           /\ IF told THEN Pull(d, FreshDiagnostics(d)) ELSE UNCHANGED held

\* The answer to a request for tokens: an edit of the result of the previous
\* id if there is one and the store, as the request leaves it, still has that
\* result, else all the tokens.
Answer(d, entry, with_previous_id) ==
  LET history == buckets'[d].semantic_tokens
      previous == IndexOfId(history, held[d].tokens.id)
  IN Hold(d, "tokens", entry,
          IF with_previous_id /\ previous # 0
            THEN Apply(held[d].tokens.content,
                       SingleDelta(history[previous].content, entry.content))
            ELSE entry.content)

\* handleSemanticTokensFull and, with a previous id, handleSemanticTokensDelta.
SemanticTokens(d, with_previous_id, told) ==
  LET history == buckets[d].semantic_tokens
  IN /\ Uses(d)
     /\ \/ /\ HasCurrent(d, history)
           /\ buckets' = [buckets EXCEPT ![d] = TouchHit(@)]
           /\ IF told THEN Answer(d, history[NewestCurrent(d, history)], with_previous_id)
                   ELSE UNCHANGED held
        \/ /\ ~HasCurrent(d, history)
           /\ StoreBucket(d, [buckets[d] EXCEPT
                                !.semantic_tokens = Remember(history, FreshTokens(d))])
           /\ IF told THEN Answer(d, FreshTokens(d), with_previous_id)
                      ELSE UNCHANGED held

\* A request about a document that is not open: the store is not asked, and
\* the answer is empty, under an id that no document has.
AnswerClosed(d, kind) ==
  /\ d \notin Open
  /\ held' = [held EXCEPT ![d][kind] = NoAnswer]
  /\ UNCHANGED <<workspace, store>>

Request(d) ==
  \E told \in BOOLEAN :
    \/ DocumentDiagnostic(d, told)
    \/ \E with_previous_id \in BOOLEAN : SemanticTokens(d, with_previous_id, told)

Next ==
  \/ UpdateUnderVersion
  \/ Initialize
  \/ \E d \in Document :
       \/ DidOpen(d)
       \/ DidChange(d)
       \/ d \in Open /\ DidClose(d)
       \/ \E kind \in {"diagnostics", "tokens"} : AnswerClosed(d, kind)
       \/ Request(d)

Spec == Init /\ [][Next]_vars

---------------------------------------------------------------------------
(* Properties *)

\* The store never holds more buckets than kMaxDocumentBuckets, nor a bucket
\* more token results than kMaxSemanticTokenHistory, and no id twice: the
\* look-up by id has one answer.
StoreIsBounded ==
  /\ Cardinality(Present(buckets)) <= MaxBuckets
  /\ \A d \in Document :
       LET history == buckets[d].semantic_tokens
       IN /\ Len(history) <= MaxHistory
          /\ \A i, j \in DOMAIN history :
               history[i].result_id = history[j].result_id => i = j

\* An entry that the store would hand out as current holds what the engine
\* would compute now, whatever was opened, changed, saved, closed or
\* initialised again since it was stored.
CurrentEntriesAreFresh ==
  \A d \in Document :
    /\ \A i \in DOMAIN buckets[d].diagnostics :
         IsCurrent(d, buckets[d].diagnostics[i]) =>
           buckets[d].diagnostics[i].content = EngineItems[result[d]]
    /\ \A i \in DOMAIN buckets[d].semantic_tokens :
         IsCurrent(d, buckets[d].semantic_tokens[i]) =>
           buckets[d].semantic_tokens[i].content = Encoding[result[d]]

\* As long as nothing has changed since an answer, what the client has made
\* of it (all of the result, an edit of the one it had, or the news that
\* nothing changed) is what the engine computes.
AnswersAreCurrent ==
  \A d \in Open :
    /\ held[d].diagnostics.recent =>
         held[d].diagnostics.content = EngineItems[result[d]]
    /\ held[d].tokens.recent => held[d].tokens.content = Encoding[result[d]]

\* And what it draws then are the engine's tokens, each at its place.
TokensAreDrawn ==
  \A d \in Open :
    held[d].tokens.recent => Decode(held[d].tokens.content) = Drawing[result[d]]

\* The kinds of results that the client receives of an open document.
Answered(d) ==
  {kind \in {"diagnostics", "tokens"} :
     held'[d][kind].recent /\ held'[d][kind] # held[d][kind]}

\* An id that is handed out is one that the store can answer for: what an
\* insertion evicts, from the bucket or with it, is never what it inserted.
AnswerIsKept ==
  [][\A d \in Open :
       "tokens" \in Answered(d) =>
         IndexOfId(buckets'[d].semantic_tokens, held'[d].tokens.id) # 0]_vars

\* Nothing is kept for a document that is closed.
ClosedKeepsNothing == Present(buckets) \subseteq Open

\* The buckets are those of the documents used last, hits included.
RecencyOf(bs) ==
  {p \in Present(bs) \X Present(bs) : bs[p[1]].last_access >= bs[p[2]].last_access}
Recency == RecencyOf(buckets)

LRU == INSTANCE LeastRecentlyUsed WITH Capacity <- MaxBuckets, recency <- Recency

\* The access stamps and the search for the oldest implement that order.
ImplementsLeastRecentlyUsed == LRU!Spec
============================================================================
