# TLA+ specifications of pristine-engine

pristine-engine is a language server for SystemVerilog. It speaks JSON-RPC over
stdio, keeps the documents an editor has open, builds semantic snapshots of the
workspace with the slang front end, answers queries from them, publishes
diagnostics in the background, and serves waveform and layout files over pipes.
These modules specify the parts in which threads, caches and messages meet,
check them with TLC on small instances, and prove the central invariants with
TLAPS for every instance.

## 1. Inventory

| Component | State | Operations | What is hard | What must hold |
|---|---|---|---|---|
| `BackgroundDiagnosticsWorker` | one pending job, the active cancellation source, a generation, a reported state, one thread | `schedule`, `stop`, `waitUntilIdle`, `loop` | polls without the lock, publication without the lock, one condition variable, thread started by the initialiser list | latest job wins, no lost wake-up, `stop()` returns, at most one late publication |
| `ServerSession` | document store, semantic workspace, worker, refresh flags, two mutexes | LSP handlers on the dispatcher thread, callbacks on the worker thread, answers on the reader thread | handlers are several critical sections; the callbacks fall in between | what the client shows is what the workspace says |
| `JsonRpcServer` | message queue, registry of cancellation sources, pending server requests, exit code | `run`, `enqueueIncoming`, `cancelRequest`, `dispatchLoop`, `dispatchIncoming`, `sendRequest`, `consumeServerResponse` | reader and dispatcher threads, cancellation overtakes the queue, ids are reused | one answer per request, in order; a cancellation hits the request it means; `run` returns |
| `DocumentStore` | text and version of open documents | `open`, `applyChanges`, `save`, `close` | a change list that fails half way | the text is the one the client has |
| `VersionedDocumentResultStore` | diagnostics result ids, token results with a bounded history | store, lookup, clear | eviction at the limits | an id names the result it was given for |
| `SemanticTokenService` | none | token encoding, deltas | index arithmetic | applying a delta to the old tokens yields the new |
| `SyntaxDocumentCache`, `SemanticSnapshotCache`, `QueryCache` | cached results by version or generation | get, invalidate | stale entries | a hit equals a fresh computation |
| `SemanticWorkspace`, `SemanticEngine` | documents, generation, snapshots | update, remove, query | cold, partial and fresh snapshots, reuse after an edit | an answer is for the present generation |
| `WorkspaceDiscoveryIndex`, `DocumentClosurePlanner` | what a scan tells of each document | closures of a document, a top, a completion, a reference search | cycles, macros, includes, limits | what is compiled for a query is enough for its answer |
| `AffectedDependencyGraph` | include edges | affected documents | cycles | equal to reachability |
| `AstIndex`, design graph | per snapshot: signals and slices of expressions, cells, edges, instances | build; backward cone, hierarchy, schematic, calls | slices of concatenations and selects, cycles, depth and size limits | cones reach every source of a signal and nothing else, the schematic and the calls agree with cones and hierarchies |
| query providers | none | find in a snapshot | | |
| `WaveformPipeService`, `LayoutPipeService` | one session, its socket and its thread; a staged source with parse and warm-up threads | open, close and stop a session; requests of a connection | service thread against stop, a parse that ends while its status is asked for, clients that never read | nothing is left of a closed session, the status told never goes back, stop returns |
| `FstWaveformSource`, FST reader, viewport encoder | catalog, signal geometry, the last decoded window | open, hierarchy rows, viewport frames | files in many forms, windows that cut sections, kept windows | a frame shows the values the trace has, without gaps |
| layout source, parsers, spatial index | library or design, tile cache, grids, instance ids, search indices | catalog, tiles, hits, inspection, search, geometry | truncated files, hierarchies of references, caches, limits and continuations | what is answered is what the file says, whatever was asked or cached before |
| binary protocols | none | decode, encode | places and lengths in headers | a request is read as it was meant, the places of an answer are where its header says |
| LSP protocol, message framing, transport, workspace manager, compilation service | | conversions and I/O | | |

Interaction: the reader thread (`JsonRpcServer::run`) queues messages; the
dispatcher thread runs the session's handlers one at a time; a handler that
changes a document updates the semantic workspace, publishes or schedules a
background job, or asks the client for a refresh; the worker thread computes in
a workspace of its own and calls back into the session, which writes to the
client under the server's write lock. The reader also handles the client's
answers to server requests.

`PROJECT.json` lists every component with its status, and the hazards at their
lines.

## 2. Modules

| Module | Models | Composes |
|---|---|---|
| `LatestRequestWins` | abstract: a request box with one slot | |
| `BackgroundDiagnosticsWorker` | `src/server/BackgroundDiagnosticsWorker.cpp` | implements `LatestRequestWins` |
| `SessionDiagnostics` | the document notifications, `publishDiagnostics`, the worker's callbacks and the client's view (`src/server/ServerSession.cpp`) | extends the worker |
| `SessionDiagnosticsProofs` | their proofs | |
| `JsonRpcServer` | `src/jsonrpc/JsonRpcServer.cpp`, the shutdown and exit handlers | |
| `JsonRpcServerProofs` | its proofs | |
| `DiagnosticRefresh` | the refresh requests: `requestDiagnosticRefresh`, `sendRequest`, `consumeServerResponse`, `handleDiagnosticRefreshResponse`; and the proofs about them | |
| `SemanticTokens` | `src/server/SemanticTokenService.cpp`: `encode` and `singleDelta` as operators, and what a client does with their results | |
| `LeastRecentlyUsed` | abstract: which documents a bounded store keeps, by an order of their last use | |
| `ResultStore` | `src/server/VersionedDocumentResultStore.cpp` and the session's handlers of pull diagnostics, tokens and token deltas, with the client's copy of the results | extends `SemanticTokens`, implements `LeastRecentlyUsed` |
| `ResultStoreProofs` | its proofs, those of the token encoding and its deltas, and the refinement of `LeastRecentlyUsed` | |
| `TextPositions` | positions: `findLineOffset` and `findByteOffset` (`src/document/DocumentStore.cpp`), and how an editor computes them | |
| `Documents` | `DocumentStore`, the document and watched-files notifications, the documents of `SemanticWorkspace` and `SemanticEngine`, `SyntaxDocumentCache`; the editor's text and the disk | extends `TextPositions` |
| `DocumentsProofs` | their proofs | |
| `WorkspaceDiscovery` | `WorkspaceDiscoveryIndex`, `DocumentClosurePlanner`: the closures as operators, and what a compilation finds in the documents it is given | |
| `SemanticEngine` | `SemanticEngine`, `SemanticSnapshotCache`, `QueryCache`: changes, the choice and keeping of snapshots, the queries and what is kept of their answers | extends `WorkspaceDiscovery` |
| `SemanticEngineProofs` | that the closures are enough, and the proofs about the engine | |
| `SignalSources` | `AstIndex.cpp`: the sources and slices of expressions, assignments, connections and assertions; cells and pins | |
| `DesignGraph` | `DesignGraphIndexBuilder`, `DesignGraphProvider`: edges, backward cones, hierarchies, schematics, calls | extends `SignalSources` |
| `PipeService` | `WaveformPipeService`: the session, its endpoint, its thread, connections and frames | |
| `LayoutPipes` | `LayoutPipeService` and the stages of `StagedGdsLayoutSource`, beside the waveform service | extends `PipeService` |
| `PipesProofs` | their proofs | |
| `BinaryPayload` | the bytes of payloads: numbers with their width, texts, places in a header | |
| `FstBytes`, `FstReader` | `src/waveform/fst/FstReader.cpp` | `FstBytes` extends `BinaryPayload` |
| `FstWriter` | external: how a trace becomes an FST file, the forms the reader takes apart | extends `FstReader` |
| `WaveformViewport`, `WaveformWire` | the frames of a viewport and the messages of the waveform protocol | |
| `FstWaveformSource` | the source a session serves: catalog, hierarchy rows, kept window, frames; what the reader gives of a file is the parameter `Read` | extends the viewport and the wire |
| `WaveformProofs` | its proofs, those of the viewport's encoder and of the requests' bytes | |
| `LayoutGeometry` | points, rectangles, transforms, tests of a hit | |
| `GdsLibrary` | the GDSII reader and the library a source keeps | extends `LayoutGeometry` |
| `LefDefText`, `LefDefParser` | the lexer, the LEF and the DEF reader, their data set and its catalog | extends `GdsLibrary` |
| `LayoutSpatialIndex` | tiles, hit tests, inspection, selections | extends `GdsLibrary` |
| `LayoutWire` | the payloads of the layout protocol | extends the index, the parsers and `BinaryPayload` |
| `LayoutFiles` | external: the files tools write, and what they say | extends `LayoutWire` |
| `LayoutSource` | `DataSetLayoutSource`: caches, continuations, searches, warm-up | extends `LayoutWire` |
| `MC*` | instances for TLC; `MCSemanticEngine` extends `MCDesignGraph`, so the graph's designs are those of its queries | |

`refresh`, `rpc`, `session` and `session_closed` check the modules themselves:
their `.cfg` files give the constants their values.

### Correspondence

One action is one critical section of a mutex or the code between two of them.
A variable that has the name of a member (`pending_job`, `request_generation`,
`cancellation_states`, ...) is that member; `pc`, `owner`, `reader`, `handler`
and `dispatcher` say where a thread is.

* *Condition variables.* `waiting` (worker) and `blocked` (dispatcher) are true
  while the thread sleeps inside `wait`. Only a notification clears them; the
  thread then evaluates the predicate again. Spurious wake-ups are not modelled:
  they evaluate the predicate once more and change nothing.
* *Cancellation.* A source is the number of the job or request it was made for,
  and is cancelled when that number is in `cancelled`. The worker polls it
  without the mutex (`ThrowIfCancelled`).
* *The loop.* `Control` names every place where `loop()` can be interrupted. The
  order in which documents and source files are visited (sorted by URI) is left
  open. What is computed is not modelled; that a step may throw is (`MayThrow`).
* *The session.* The dispatcher handles one notification at a time. The client
  sends nothing after shutdown. A document is `<<version, text>>`, a text is a
  number. The engine's generation rises with every update. `shown` is the last
  `publishDiagnostics` notification of each document.
* *JSON-RPC.* A message is chosen when it is read. Its serial is its position in
  the input. Parsing is reduced to its outcome (`ReceiveInvalid`).
* *The result store.* The request handlers run on the dispatcher thread and
  nothing else touches the store, so a request is one step; `told` says whether
  it was cancelled after it had stored its result. A bucket that does not exist
  has `last_access` 0. The abstract store does not stamp: it has an order of last
  use, and keeps the first `Capacity` of it. The look-up and the insertion of one request stamp a
  bucket more than once in the code; the model counts them as one use, which
  leaves their order as it is. A result id is the pair of document and content:
  the hash is taken to be injective. The engine's results are constants
  (`EngineItems`, `EngineTokens`), and a change of the workspace may give one
  document another result. `held` is what a client has made of its answers; it
  asks for an edit only with the id it holds. Counters are left out.
* *Documents.* A text has four copies: `client` (the editor's), `documents` (the
  store's), `semantic` (the workspace's and the engine's `documents_`) and `file`
  (on disk); `entries` is the syntax cache and `outline` what the editor was last
  answered from it. The state begins after `initialize`, which indexes the files
  of the workspace. A `didChange` is applied one content change per step, because
  each may throw after others were applied (`Refused` leaves the rest out), and
  `FinishChange` is the end of `applyChanges` with what the handler does next; only
  the disk moves in between, for the dispatcher handles one message at a time. The
  other handlers are one step each, and so is each file of a `didChangeWatchedFiles`.
  A text is a sequence of four kinds of characters, an offset counts characters
  instead of bytes; the hash in a cache entry is taken to be injective and is the
  text itself. `diverged` and `detached` are history: they name the documents
  for which the editor has sent a change that is not one of its text (or an old
  version), and those the workspace was not told about.
* *The semantic engine.* One thread at a time uses it (the session's under a mutex,
  the worker an engine of its own), so a query is one step; the step contains the
  discovery, the choice of a snapshot, its build or reuse, and the look-up and
  storing of the answer. A build that is cancelled or fails makes the query throw:
  `Interrupt` keeps what the code has stored by then. `snapshots` holds the cache
  of partial snapshots in the order of their last use (`clock_`), the full one and
  `snapshot_dirty_`. `query_cache` has one list for each way of keeping an answer:
  There are the seventeen maps of the code, each with one place of a document, and
  one action per query; highlights are kept, completions and the graph's queries
  are kept by what was asked. A workspace maps URIs to contents; a
  content is what the scan of a text tells, with the identifiers it cannot see
  (`hidden`, only in a document that the scan calls incomplete). An index is the
  part of the workspace in the configured directories. Worklists are the least
  set closed under what they add (`Reachable`); `Pending` is the worklist itself.
  What a compilation finds is external (slang, `AstIndex`) and modelled as far as
  the choice of documents matters: a document is read in the unit of everything
  that includes it, a macro's identifiers stand where the macro is defined, a
  design unit is known everywhere, and its members where its name occurs. Hashes
  (cache key, fingerprint, identity) are what is hashed. `item` is history: the
  last completion item, and which snapshots were used since.

* *The design graph.* A design is a tree of nodes with places in a line of text; the
  index is the function of it that the code computes in one pass over the syntax
  and symbol trees. A slice is the whole signal, an exact range or an uncertain
  one; edges, cells and pins carry slices, and a backward cone follows them bit
  range by bit range. What is kept of these answers is in `SemanticEngine`, where a
  query's design is a constant: `ConesAreWhole`, `SchematicsAgreeWithCones` and
  `CallsAgreeWithHierarchies` speak of the answers that are kept.
* *The pipe services.* `caller` is where the dispatcher is inside `openSession`,
  `closeSession` or `stop`, `thread` where the session's thread is: binding, polling
  its endpoint, accepting, reading, answering, writing, hanging up. `conn` is each
  client's connection with the frames under way in both directions, `source` each
  session's layout source with its parse thread and warm-up thread (`parse`,
  `warmup`). Opening a session stops the one before it. Payloads are kinds.
* *Waveforms.* A trace is records, lengths and changes; `FstWriter` puts it into a
  file in each of the forms the format has, and `FstWaveformSource` answers requests
  given as bytes from what the reader makes of the file: its parameter `Read` is
  `ReadFstFile` in `MCWaveform`. The only state between requests is the kept window. A number in a file is a byte that carries width and
  value, followed by bytes that carry nothing; compressed bytes are a symbolic
  first byte, with bytes behind it that the libraries do not mind.
* *Layouts.* A file is a sequence of records (GDSII) or of pieces of text (LEF, DEF).
  The code's doubles are integers, for quarter turns and whole magnifications. A
  request is one step, the warm-up's two builds are steps between requests, the
  tile cache is looked up and filled in two critical sections of one request.

Operators whose comment begins with "Bug:" are never used by the specification:
each is a faulty version of the definition that follows it, and replacing that
definition by it must break the property it is listed with in `PROJECT.json`.

## 3. Runs

| Run | Shows | Bounds |
|---|---|---|
| `worker` | reported states are backed by work (`ReportedWorkExists`); a superseded job publishes at most once more (`AtMostOneLatePublication`); the worker refines the request box (`ImplementsBox`), its fairness included once it is constructed in order (`ImplementsFairness`); `stop()` returns (`StopReturns`) | 2 documents, 1 source file, 2 calls of `schedule`, repeated `stop`; the thread may start before its members are initialised |
| `session` | at rest, after a job made from the present workspace, every open document shows its current diagnostics (`LastJobLeavesCurrentDiagnostics`); the parser's diagnostics are followed by the engine's (`SemanticFollowsSyntax`) | 2 documents, 3 texts, 3 changes of the workspace |
| `session_closed` | **violated**: `didClose` between `should_publish` and `publish` leaves diagnostics on a closed document (`ClosedShowsNothing`) | same |
| `rpc` | the registry of cancellation sources is that of the requests at work (`RegistryMatchesWork`); what is cancelled was asked for, under the id it had (`CancelledMeansAsked`); every request is answered (`EveryRequestAnswered`) | 2 ids, 3 messages |
| `refresh` | the outstanding flag is up exactly while a refresh is under way (`OutstandingIsReal`); no change goes without one (`EveryChangeIsAnnounced`) | 2 callers and the reader, 5 changes |
| `results` | what the client makes of an answer (complete, edit, unchanged) is what the engine computes (`AnswersAreCurrent`), and it draws every token at its place (`TokensAreDrawn`); an id handed out is kept (`AnswerIsKept`); the eviction is least-recently-used, hits included (`ImplementsLeastRecentlyUsed`) | 3 documents, 3 results, 2 buckets, a history of 2, 3 changes, 3 requests |
| `documents` | the store has the editor's text, whatever the line ends and surrogate pairs (`StoreIsEditors`); the workspace has the open documents of the store (`WorkspaceFollowsStore`) and otherwise the files on disk (`WorkspaceFollowsDisk`), in any order of edits, refusals, saves, closes and reports; an outline is that of the present text (`OutlineIsCurrent`) | 2 documents, one of them a source of the workspace, one open at a time; 2 texts of the editor, 2 on disk; 2 versions, 2 changes in a list, 4 stray changes that make texts of at most 1 character, 2 reports under way |
| `engine` | nothing outdated is kept (`KeptIsCurrent`); answers about documents, references and hierarchies are those of the whole workspace (`...AreWhole...`); a list of completions that lacks something says so (`CompletionsSaySo`); an item is resolved where it was offered or not at all, and resolved while fewer snapshots were used since than are kept (`ResolvedWhereOffered`); cones have every source of their signal, bit by bit, and nothing else (`ConesAreWhole`); the wires of a schematic are those a cone follows (`SchematicsAgreeWithCones`); hierarchies are the unfolded instances, and their children the calls asked for at their place (`CallsAgreeWithHierarchies`) | 4 documents, 9 contents, 2 configurations, 1 change, 2 snapshots kept, 1 answer of each of 17 kinds, one other kind kept at a time (`MaxKept`); 3 designs: data through concatenations and selects, gates, nested blocks with a ring |
| `engine_headers` | **violated**: where a header names a package member, `referencesAt` does not compile the document that includes the header and leaves the reference out (`ReferencesAreWhole`) | the same with one other workspace |
| `waveform` | a frame shows the values the trace has (`FramesTellTheFile`), without gaps, and with its columns where its header says (`FramesAreComplete`) | 3 encodings of a trace with every cut into sections; each form of a block, lengths, index and hierarchy; requests of both versions of the protocol |
| `pipes` | when no operation is under way, endpoint, connections, source and thread are those of the active session (`SessionsAreApart`); the phases told never go back, and after "ready" nothing is refused as too early (`StatusNeverRegresses`); `stop` returns unless a client never reads (`StopReturns`) | 2 clients, 2 sessions, a backlog of 1, a socket buffer of 1 frame, 2 frames of 5 kinds; both services |
| `layout` | the reader keeps what a file says (`SourcesTellTheirFiles`); tiles (`TilesTellTheLibrary`), hits (`HitsTellTheLibrary`) and catalogs (`CatalogsAreWhole`) tell it, what a hit shows can be inspected, but for a root that is a leaf (`ShownIsInspected`, section 5), and a search is that of the present index (`SearchesAreFresh`), whatever was asked, cached, gridded or named before | GDSII files whole, cut at every record, or odd; LEF and DEF files in several orders; a tile cache of 60 units, a grid from 2 shapes on with 3 bins, 3 candidates of a hit, pages of 4 rows and 40 units, 3 requests of a source at most |

Why the bounds are enough: the worker compares generations only for equality
and order with the newest, so two jobs give a job, one that supersedes it, and
`stop` on top; two documents give a document before and one after the late
publication. In the session three changes allow an edit of each document and a
third event that interferes. Three messages allow a request, its
cancellation and a second use of its id. Five changes allow every thread to be
inside the refresh protocol while one more change is coalesced. Three documents
exceed the two buckets by one, three results the history of two; the results
differ by a token in front, behind and repeated, which are the cases of the
common start and end of two encodings, and one has tokens that cannot be shown.
The editor's two texts have surrogate pairs before and after a line end of each
kind, and the edits from one to the other begin and end at every cursor between
which they differ; the stray changes are beyond a line, inside a pair, backwards,
and a valid one. Two changes make a list that fails after it has begun, two
versions a change under a new one. Two reports about the same file can
contradict each other and the disk. Documents do not interact, so one is open
at a time; the other shows that handlers leave it alone and that a file
outside the workspace is treated as the code treats it.

In the engine, the four documents are a package, a module that names its member
through a macro that expands to another macro of a header, and one that
instantiates the module: every kind of dependency is there, and the changes take
the member or the header away, make a document incomplete, or put an import into
the header. Every query ends in one of the ways to keep an answer, and a change
drops everything (`CurrentIsKept` proves it for any number), so one change with
queries before and after it is a cycle. Two snapshots kept of the code's four are
exceeded by three queries; one answer per kind is exceeded by two. `MaxKept` keeps
the kinds of answers from multiplying, which do not read each other.

The graph's answers are checked over three designs and not over all small ones: they
have every form of expression, assignment and connection that the index tells
apart, a signal driven in parts, a cycle, and depth and size limits that are met.
In `pipes` a second session shows what is left of the first; a backlog of one is
full with the second client, and a buffer of one frame with the first answer.
In `waveform` and `layout` the files are chosen so that each branch of a reader
is taken; a cut file ends inside each record or section. The layout's limits are
lowered so that a library of a few shapes exceeds each: two shapes make a grid,
a fourth shape is past the candidates of a hit (`HitLimit`, 256 in the code, and
`CandidatesPerResult`, 32), one tile evicts another, and a page without a limit
ends after four rows (`DefaultPageLimit`, 4096). Sizes count rows and the letters
of names, so the header of a page is one unit (`PageHeader`) and the largest page
40 (`MaxPageSize`). Hits are asked at the tops and at cells without references,
with a reference of the cell's number to it, to another cell, and without one.
Every table of the catalog is asked of every file, those a file has not as well.

The two violated runs are recorded as findings, with the test or behaviour of
the repository they contradict.

Fairness. Weak fairness of the threads: the operating system schedules them and
nothing they wait for while holding a lock is modelled as endless (the debounce
is timed, engine calls return). In `pipes` the caller and the session's thread are
scheduled, and a parse and a warm-up end. The client is assumed to close its end of the
pipe some day (`rpc`) and to answer refresh requests (`refresh`); it need not
send anything. Nobody promises that a job is scheduled or `stop` called.

## 4. Proofs

All for every value of the constants: no bound on documents, jobs, messages,
clients or threads is used but that bounds are natural numbers, positive where a
store of size 0 would make no sense. Every invariant that was not inductive was
strengthened to one that is, and the strengthening checked by TLC on the run's
instance before it was proved.

* `SessionDiagnosticsProofs`, the worker. The invariants checked by `worker` are not
  inductive. `IInv` adds: which tokens are set (`Tokens`: exactly those before the
  active generation, and the active one after `stop`), how pending job, served
  job and active generation are ordered (`Jobs`), that nothing is asked of an
  unconstructed worker (`Built`), what a blocked worker has seen (`Blocked`),
  which states the loop can leave (`Reported`), and where a job that has published
  late can be (`History`: only on its way to the poll that ends it). From it
  follow `TypeCorrect`, `TokensCorrect`, `ReportsAreHonest`, `OneLatePublication`,
  `InOrder`, `NewestStarts`, and `Refinement` to `LatestRequestWins`.
  Assumptions: `JobRequest` consists of requests, `NoJob` is no job.
* `SessionDiagnosticsProofs`, the session. Every step of the session is a step of the worker or
  its owner, or leaves them alone (`SessionStepIsWorkers`), hence
  `SessionRunsWorker`: the worker's theorems hold in the session. The invariant
  adds that no job is newer than the workspace, and older while a handler that has
  changed it is not done (`HandlerInv`); that a job of the present generation has
  the present documents and is the newest (`JobsInv`: this is why the generation
  may stand for the versions in `should_publish_`); and where a live job is in its
  loop, with the documents it has been through current (`ProgressInv`). A live job
  passes every poll and check (`LivePasses`), and a publication makes its document
  current, so at the end all are: `LastJobIsShown`. Assumption: the jobs are those
  the session can schedule.
* `DiagnosticRefresh`. `OutstandingIsReal` needs that an answer on its way
  is one the server still waits for (`AnswersAreAwaited`), and is carried through
  the steps as `OneCarrier`, which names the places where the one refresh can be.
  Assumption: the reader is not one of the calling threads.
* `JsonRpcServerProofs`. `IInv`: serials order the queue and are those of messages
  read (`Serials`, `Sorted`); there is one id per request (`OneIdEach`); exit is the
  last message, so the sweep at the end finds nothing that could still be
  dispatched (`ExitIsLast`); what is registered is queued or at work
  (`RegistryParts`); a cancelled serial was asked for by a later message with its id
  (`CancelledAreAsked`). From it follow `TypeCorrect`, `RegistryCorrect` and
  `CancellationsCorrect`. Assumption: the bound on the messages is a natural number.
* `ResultStoreProofs`. `DeltaApplies`: the edit between two token sequences turns
  one into the other, whatever they have in common. The invariants of the store
  need that entries are dated no later than the workspace and named by their
  document and content (`GoodEntry`), and that the id a client holds names the
  content it holds (`GoodAnswer`): so an edit computed from the store's copy is
  one of the client's copy, and a change of the generation outdates everything.
  `Bounded` adds that stamps tell the buckets apart; after an eviction the least
  recent bucket has all the others before it, hence their number. From these
  follow `TypeCorrect`, `CurrentIsFresh`, `ClientsAreCurrent`,
  `NothingKeptWhenClosed`, `StoreStaysBounded` and `HandedOutIsKept`.
  `DecodesWhatWasEncoded`: decoding the encoding of any tokens gives the drawable
  ones, each at its line and character. The sort is by rank, so that sorting is a
  function that is a bijection; the decoder is a recursive function, and the place
  it has reached is shown to be the token's by taking the least index at which it
  is not. With what a client holds this gives `ClientsDrawTheTokens`.
  `StoreIsLeastRecentlyUsed` refines `LeastRecentlyUsed`: the order is that of the
  stamps, which are distinct and the newest the highest, and what an eviction
  leaves are the first `Capacity` of the order.
  Assumptions: the bounds are positive, there is a result, tokens have natural
  positions and types.
* `DocumentsProofs`. `PositionsResolve`: in every text without a lone carriage
  return, `findByteOffset` takes the position of a cursor to its offset and to no
  other. It rests on lemmas about counting code units (`UnitsAreUtf16`,
  `UnitsGrow`), about line starts (`LineOffsetsOne`, `LineStartIs`) and on a
  regular text having the same lines for both sides (`RegularLines`); from it
  `EditsAreTexts` has that applying an edit gives the editor's text and is never
  refused. The invariants need in addition that a document being changed is open
  and has no outline (`ChangingIsOpen`), that symbols are those of the text whose
  hash they are kept under (`EntriesAreKeyed`), and that the last report about a
  file tells whether it is there (`LastReportsTell`), without which handling it
  would not bring the workspace to what is on disk (`ClosedAreOnDisk`). From these
  follow `TypeCorrect`, `StoreCorrect`, `WorkspaceCorrect`, `DiskCorrect` and
  `OutlineCorrect`. Assumptions: the editor's texts have no lone carriage return,
  `None` is none of the values it stands beside.
* `SemanticEngineProofs`, the closures. A compilation of some documents finds
  nothing that one of all does not find (`FactsGrow`, `HierarchyGrows`). The other
  way is what the closures are for. A closure called complete has, for every name
  that occurs in it, the documents that declare the name (`ClosureDeclares`), so it
  finds what the whole index finds (`ClosureFinds`): with `OwnUnit` this is
  `DocumentClosureSuffices`. For references, a macro with the name in it that is
  expanded somewhere is expanded from an invocation that the planner looks for
  (`ExpansionIsInvoked`), hence `ReferenceClosureSuffices`.
  `DependencyClosureSuffices` needs no completeness. All rest on `ReachableWithin`:
  what one function reaches from inside a set closed under it, a larger one does.
* `SemanticEngineProofs`, the engine. `IInv` says of each snapshot that it was made
  of the present documents and of each answer that it is whole; a change empties
  everything (`NothingIsCurrent`), a query adds a good snapshot (`FullSelected`,
  `ClosureSelected`) and a good answer (`AnswerKeeps`). From it follow
  `CurrentIsKept`, `DocumentsAreWhole`, `ReferenceAnswersAreWhole` and
  `HierarchyAnswersAreWhole`. `CompletionsAreAdmitted`: the planner goes through the
  candidates until a limit stops it; a plan that does not call itself incomplete has
  the document of every candidate (`CandidatesAreAdded`, by the least candidate that
  is missing). `ItemsAreResolved` needs `ItemInv`: the full snapshot is that of all
  documents, and the item's own snapshot is found unless as many others as are kept
  were used since (`Fresh`, `Latest`), a relation between two states of the cache
  (`Follows`) that every selection satisfies and that composes. It also shows that
  `snapshotForReferenceQuery` never falls back to the full snapshot in the model: the
  closure always knows its target (`TargetIsKnown`).
  Assumptions: the limit on snapshots is positive, inputs have their types, a
  request's document is among its roots. That what a compilation finds is as
  `WorkspaceDiscovery` says is part of the model.
* `PipesProofs`. The session's thread is that of the active session, and done before
  the session is cleared and another is opened (`ThreadInv`); there is an endpoint
  only while its thread listens, and who waits in its backlog is queued there, once
  (`EndpointInv`); a served connection is the thread's (`ConnInv`); a source is that of
  the thread, or of the session that is being opened (`SourceInv`). From these
  `SessionsStayApart`. `ToldInv`: what a client was told, and what is on its way, is
  never ahead of the source, whose state, phase and `ready` are three writes of the
  parse thread; so a later snapshot is no earlier (`StatusStaysOrdered`).
  Assumption: the numbers of clients, sessions, messages and buffers are positive.
* `WaveformProofs`, the frames. `FramesComplete`: whatever the reader gives of a
  file, whatever was asked before and whatever the limit, the segments of a signal
  follow each other without a gap over the asked range, a frame tells that it was
  cut just when the limit left segments out and is then the beginning of the frame
  without a limit, and its columns lie apart, aligned, where its header says. Each
  loop of the code is a fold, and a fold is the last of the states it goes through
  (`Recursion`, `SetRecursion`; `PiecesAreAppended`, `RowsAreAppended`,
  `ColumnsStepByStep`, `BytesStepByStep`). The encoder with a limit is followed beside
  the one without: what the first has is the beginning of what the second has
  (`IsCut`, `PiecesWithLimit`), and each row it has finished is whole (`RowIsWhole`,
  `OneMoreRow`, `EncodedFrame`). That the pieces of a row have no gap needs that the
  changes come in the order of time (`SortedInTime`, `TransitionsInTime`,
  `SignalsInTime`), inside the range (`ChangesInTime`, `DrawnRowIsDrawn`). A column of
  wide units is aligned by its own, or lies behind a column of the same unit
  (`FallsInPlace`, `ColumnsApart`); with the eight-byte times aligned like the columns
  before them this fails, which is the mutant. A request comes as bytes:
  `RequestIsDecoded` and `RequestV2IsDecoded` have that it is read as it was meant, or
  refused.
* `WaveformProofs`, the source. `IInv`: the catalog is the open file's (`FileIsRead`);
  what is kept was read of that file for the key it is kept under (`KeptIsRead`);
  an answer is the frame of the last request of what is kept, under that request's key
  (`AnswerIsFrame`). From it follow `FramesComplete` and `FramesFresh`: the kept
  window is never told from a fresh one.
  Assumptions: `RequestsAssumption`, the requests have the types of the protocol;
  `ReadAssumption`, what the reader gives has the types of `FstReader.h`, and nothing
  is assumed of the order or the times of its changes.

Proved, and not also run: `FramesAreFresh`, `PublicationsInOrder` and `OnlyNewestStarts` (with
`ImplementsBox`), `ClosedKeepsNothing` and `StoreIsBounded` (from the inductive
invariant of the store), and the type invariants.

Only model-checked:

* liveness and fairness, which are out of the prover's reach: `StopReturns` of the
  worker and of the pipes, `ImplementsFairness`, `SemanticFollowsSyntax`,
  `EveryRequestAnswered`, `EveryChangeIsAnnounced`;
* that frames show what the file says (`FramesTellTheFile`), and the properties of
  layouts and of the design graph. Their readers and walks are RECURSIVE operators over bytes, cells and expressions, in whose modules
  the prover has no SMT backend, and an induction over such data cannot be stated.
  (Where a recursive function does, as for the tokens, the argument by the least
  counterexample replaces induction.)

## 5. Not modelled, and the plan

Not modelled: parsing and elaboration of SystemVerilog (slang), the contents of
diagnostics, path formats, stream I/O, the LSP structures, the workspace's
configuration file. A write to the client succeeds, except in `DiagnosticRefresh`.
`AffectedDependencyGraph` is used by the tests only, and left out with the include
edges and stale flags of `SemanticWorkspace`, which only its tests read. (Its
`removeDocument` erases the reverse edges of what includes the document.)
In `Documents` a document has one URI (two spellings of one file are two
documents of the store and one of the workspace), and carriage returns stand only
before line feeds (the store ends no line at another, the protocol does).

In `SemanticEngine` the include graph and depths of answers are left out, and an
answer about a document that is included elsewhere is only bounded above: it is
compiled alone. With two or more configured tops and a single candidate, a
hierarchy query that names no top answers for the candidate instead of the
configured tops when the closure is smaller than the workspace
(`inferredDiscoveryTop`, `SemanticEngine.cpp:418-432`); `HierarchiesAreWhole` is
stated for at most one configured top.

What the models take as the code has it, where a reader might expect another answer:

* Design graph. An assignment to several symbols enters cone edges under one symbol
  only, while the schematic drives each; a target's selectors are not among what
  decides about it; a cone that comes back to its root does not expand the root's
  other bits; a narrower concatenation is laid from the most significant bit of an
  exact slice and a connection from the least; literals make no edge; two sources of a
  whole symbol make the merged slice uncertain; gates inside generate blocks have no
  cell; a nested module's instances count as the outer module's in hierarchies but not
  in calls; a cap of exactly the cone's size reports a truncation. Interfaces, modports,
  structures, modules within modules, net labels and ordinals are left out.
* Waveforms. Geometry before the hierarchy does not widen signals; the values kept
  from a skipped section are unknown; a real 0 or 1 shows as low or high. Metrics,
  versions and dates, name lowering and range checks beyond 32 bits are left out.
* GDSII. The order of equal items after a sort that is not stable, a file rewritten
  while it is open, shapes with more points than a request allows, fractional
  magnifications and angles, and cycles of references whose bounds are memoised are
  left out. A shape past the limit of candidates is no hit, however near.
* Hits on a root without references. The second tile of a hit test then has the
  cell's own overview (`LayoutSpatialIndex.cpp:1717-1730`), and `hitTest` names every
  shape of it as the reference of the shape's `owner_index` (771-790), which is the
  cell's index here. Such a hit tells the cell's bounds, but inspecting it is refused
  when there is no reference of that number and describes that other reference when
  there is; selecting it gives that reference's cell at the root's place.
  `ShownIsInspected` states this as its exception and says what is told.
* Continuations. A tile that is answered from the cache has the token it was sent
  with, and the token stands for how far its last use went (`LayoutSource.cpp:503-534`):
  a client that asks for the first page, for the second, for the first again and then
  goes on gets the third. `TilesTellTheLibrary` is stated for walks whose cached pages
  have a token that still stands where they end.
* LEF and DEF. A file that ends in a section is accepted without a diagnostic; another
  unit before `DATABASE` loses the units; files with different units are told with the
  last; a point with `*` in a route is lost and `NEW` segments are joined on the first
  layer; a special net's `+ SHAPE` turns points into connections; a second `RECT` of a
  blockage and `RECT MASK n` are lost; layer names are compared without case by the
  parser and with case by the data set.
* Catalog pages. The tables of a library are refused of LEF and DEF files even when
  a page of them would be empty, and the whole catalog has them empty.
* Layout protocol. Times, counters, text types, the hello's strings, the catalog's
  bytes and error payloads are left out; the doubles of requests are integers.
* `openSession` takes the data of a staged source and then its status; a parse that
  ends in between makes the two disagree. It is a hazard without a property.

Plan, in order:

1. proofs: the worker's and the pipes' arguments for termination as safety (a measure
   that every step lowers), the caches of `LayoutSource` as invariants of their own,
   with its readers and its index as parameters, like the reader of `FstWaveformSource`;
2. the background worker's engine and the session's engine together;
3. query providers, as far as they filter and order what an index gives.
