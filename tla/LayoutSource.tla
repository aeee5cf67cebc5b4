---------------------------- MODULE LayoutSource ----------------------------
(***************************************************************************)
(* A GDSII layout source that serves its clients (layout/LayoutSource.cpp, *)
(* DataSetLayoutSource): the tile cache, the continuation of tiles that    *)
(* were cut, the search index and its caches, and the warm-up thread.      *)
(* A request holds the mutex of what it uses from its first look to its    *)
(* last write but for the tile cache, which it looks up and fills in two   *)
(* critical sections; one connection is served at a time, so a request is  *)
(* one step.  The warm-up's two builds are steps between requests.         *)
(***************************************************************************)
EXTENDS LayoutWire

CONSTANTS
  Sources,         \* the data sets of the files a source may be opened on
  TileRequests,    \* for each title, the tiles its clients may ask for, and so on
  HitRequests,
  SearchRequests,
  GeometryRequests,
  CatalogRequests,
  MaxRequests,     \* for each title, a bound on the requests that change what it keeps
  CacheBudget,     \* tile_cache_budget_bytes_
  PageHeader,      \* kCatalogPageHeaderSize, in units of a row, and so is the next
  MaxPageSize,     \* kMaxPayloadSize
  DefaultPageLimit \* kDefaultCatalogPageLimit, the rows of a page when no limit is asked

ASSUME PageAssumption ==
  /\ {PageHeader, MaxPageSize, DefaultPageLimit} \subseteq Nat \ {0}
  /\ PageHeader <= MaxPageSize

VARIABLES
  source,        \* data_set_: what was read when it was opened
  index,         \* spatial_index_
  tiles,         \* tile_cache_, most recently used first
  continuations, \* continuations_
  nextToken,     \* next_continuation_token_
  searchBuilt,   \* search_index_built_
  reachable,     \* search_reachable_cache_
  searches,      \* search_cache_
  warmup,        \* where the warm-up thread is
  answer,        \* the last request and its answer
  walk,          \* the tiles of the client that follows continuation tokens
  requests       \* how many requests so far

sourceVars == <<source, index, tiles, continuations, nextToken, searchBuilt, reachable, searches, warmup>>
vars == <<sourceVars, answer, walk, requests>>

NoAnswer == [op |-> "none"]
NoWalk == [pages |-> <<>>, next |-> NoIndex, request |-> [root |-> NoIndex], whole |-> FALSE]

Init ==
  /\ source \in Sources
  /\ index = EmptyIndex
  /\ tiles = <<>>
  /\ continuations = <<>>
  /\ nextToken = 1
  /\ searchBuilt = FALSE
  /\ reachable = <<>>
  /\ searches = <<>>
  /\ warmup \in IF HasGds(source) THEN {"none", "spatial"} ELSE {"none"}
  /\ answer = NoAnswer
  /\ walk = NoWalk
  /\ requests = 0

-----------------------------------------------------------------------------
(* What is sent of a shape: sizes are in units of a row of the payload.    *)

ShapeUnits(shape) == 1 + Len(shape.points)
PayloadUnits(payload) == 1 + FoldLeft(LAMBDA sum, shape : sum + ShapeUnits(shape), 0, payload.shapes)

MatchesGeometryRequest(request, shape) ==
  /\ Admits(request.layers, shape.layer)
  /\ Admits(request.kinds, shape.kind)
  /\ request.bbox = NoBounds \/ Intersects(shape.rect, request.bbox)

\* A tile is filtered once more as it is encoded.
EncodeTile(request, tile) ==
  [shapes    |-> SelectSeq(tile.shapes, LAMBDA s : MatchesGeometryRequest(request, s)),
   truncated |-> tile.truncated,
   next      |-> tile.next]

\* Halved until it fits the bytes asked for, or is a single shape.
FitBytes(request, tile, skip) ==
  LET all    == Len(tile.shapes)
      cut(n) == [tile EXCEPT !.shapes = SubSeq(@, 1, n), !.truncated = TRUE, !.next = skip + n]
      halved == {all \div 2^j : j \in 0 .. all}
      fits(n) == n <= 1 \/ PayloadUnits(EncodeTile(request, cut(n))) <= request.max_bytes
      most   == High({n \in halved : fits(n)})
  IN  IF request.max_bytes = 0 \/ most = all THEN tile ELSE cut(most)

-----------------------------------------------------------------------------
(* The tile cache.                                                         *)

CachedTiles(key) == SelectSeq(tiles, LAMBDA entry : entry.key = key)
OtherTiles(key) == SelectSeq(tiles, LAMBDA entry : entry.key # key)

CacheUnits(entries) ==
  FoldLeft(LAMBDA sum, entry : sum + PayloadUnits(entry.payload), 0, entries)

\* The most recently used entries that are within the budget together.
WithinBudget(entries) ==
  LET kept == CHOOSE n \in 0 .. Len(entries) :
                /\ CacheUnits(SubSeq(entries, 1, n)) <= CacheBudget
                /\ n < Len(entries) => CacheUnits(SubSeq(entries, 1, n + 1)) > CacheBudget
  IN  SubSeq(entries, 1, kept)

InsertTileCache(key, payload) ==
  IF PayloadUnits(payload) > CacheBudget THEN tiles
  ELSE WithinBudget(<<[key |-> key, payload |-> payload]>> \o OtherTiles(key))

-----------------------------------------------------------------------------
(* Continuations: a token stands for a request and how much of it is sent. *)

\* A token is the client's own again, or the next that is free.
TokenFor(clientToken) == IF clientToken # 0 THEN clientToken ELSE nextToken

\* A page that was kept has the token it was sent with, which stands where the
\* page ends unless a walk has taken it further since.
TokenStands(payload, skip) ==
  payload.next = 0 \/ continuations[payload.next].skip = skip + Len(payload.shapes)

\* The walk of a client that asks for a tile and then for what each answer
\* leaves; it is whole as long as each page leads on to the next.
WalkWith(request, token, payload, leads) ==
  LET follows == token # 0 /\ walk.next = token /\ walk.request = request
      before  == IF token = 0 THEN <<>> ELSE walk.pages
  IN  IF token # 0 /\ ~follows THEN NoWalk
      ELSE [pages   |-> before \o payload.shapes,
            next    |-> payload.next,
            request |-> request,
            whole   |-> leads /\ (payload.truncated => payload.next # 0) /\ (token = 0 \/ walk.whole)]

\* A cell a request may name; any other is an error.
IsCell(root) == HasGds(source) /\ HasItem(source.gds.cells, root)

Answer(op, request, value) == answer' = [op |-> op, request |-> request, value |-> value]
Refuse(request) == Answer("refused", request, <<>>)

\* A token that is not this request's is refused, and so is a cell there is not.
RefuseTile(request) ==
  /\ Refuse(request)
  /\ walk' = NoWalk
  /\ UNCHANGED <<index, tiles, continuations, nextToken>>

\* A page that is kept becomes the most recently used.
TileFromCache(request, token, found) ==
  /\ Answer("tile", request, found[1].payload)
  /\ walk' = WalkWith(request, token, found[1].payload, TokenStands(found[1].payload, found[1].key[2]))
  /\ tiles' = found \o OtherTiles(found[1].key)
  /\ UNCHANGED <<index, continuations, nextToken>>

\* A page that is not is sent and kept; the token goes on where it ends.
SendTile(key, token, more, next, payload) ==
  /\ Answer("tile", key[1], payload)
  /\ walk' = WalkWith(key[1], token, payload, TRUE)
  /\ tiles' = InsertTileCache(key, payload)
  /\ continuations' = IF more
                      THEN (TokenFor(token) :> [key |-> key[1], skip |-> next]) @@ continuations
                      ELSE continuations
  /\ nextToken' = IF more /\ token = 0 THEN nextToken + 1 ELSE nextToken

ComputedTile(key, token, tile) ==
  LET more == tile.truncated /\ tile.next # 0
  IN  SendTile(key, token, more, tile.next,
               EncodeTile(key[1], [tile EXCEPT !.next = IF more THEN TokenFor(token) ELSE 0]))

TileFromIndex(key, token, query) ==
  /\ index' = query.index
  /\ ComputedTile(key, token, FitBytes(key[1], query, key[2]))

\* encodeCachedTileGeometryResponse: the cache is asked for the page first.
Tile(request, token) ==
  /\ requests < MaxRequests[source.title]
  /\ requests' = requests + 1
  /\ LET known == token = 0 \/ (token \in DOMAIN continuations /\ continuations[token].key = request)
         skip  == IF token = 0 THEN 0 ELSE continuations[token].skip
         key   == <<request, skip>>
     IN  \/ /\ ~known \/ ~IsCell(request.root)
            /\ RefuseTile(request)
         \/ /\ known /\ CachedTiles(key) # <<>>
            /\ TileFromCache(request, token, CachedTiles(key))
         \/ /\ known /\ CachedTiles(key) = <<>> /\ IsCell(request.root)
            /\ TileFromIndex(key, token, QueryTile(source, index, request, skip))
  /\ UNCHANGED <<source, searchBuilt, reachable, searches, warmup>>

\* encodeHitTestResponse.
AnswerHit(request, result) ==
  /\ Answer("hit", request, result.hits)
  /\ index' = result.index

Hit(request) ==
  /\ requests < MaxRequests[source.title]
  /\ requests' = requests + 1
  /\ \/ /\ IsCell(request.root)
        /\ AnswerHit(request, HitTest(source, index, request))
     \/ /\ ~IsCell(request.root)
        /\ Refuse(request)
        /\ UNCHANGED index
  /\ walk' = NoWalk
  /\ UNCHANGED <<source, tiles, continuations, nextToken, searchBuilt, reachable, searches, warmup>>

\* What a client can pick: what it has just hit, or found by a search; before
\* its first request, what it still has from another opening of another file.
FormerObjects ==
  {Object("Element", 0, NoIndex, 0, NoIndex, 0, Instance(RootPath(0), 0)),
   Object("Cell", IF HasGds(source) THEN Len(source.gds.cells) ELSE 0, NoIndex, NoIndex, NoIndex, 0, NoInstance)}

NamedObjects == CASE answer.op \in {"hit", "search"} -> {r.object : r \in Range(answer.value)}
                  [] answer = NoAnswer -> FormerObjects
                  [] OTHER -> {}

\* encodeInspectResponse: only reads.
InspectObject(object) ==
  /\ LET told == IF HasGds(source) THEN Inspect(source, index, object) ELSE Refused
     IN  IF told = Refused THEN Refuse(object) ELSE Answer("inspect", object, told)
  /\ UNCHANGED <<sourceVars, walk, requests>>

\* encodeSelectionGeometryResponse.
AnswerSelection(object, selected) ==
  \/ /\ selected = Refused
     /\ Refuse(object)
     /\ UNCHANGED index
  \/ /\ selected # Refused
     /\ Answer("select", object, selected.shapes)
     /\ index' = selected.index

SelectObject(object) ==
  /\ AnswerSelection(object, IF HasGds(source) THEN SelectionGeometry(source, index, object) ELSE Refused)
  /\ UNCHANGED <<source, tiles, continuations, nextToken, searchBuilt, reachable, searches,
                 warmup, walk, requests>>

\* The shapes a geometry request is about: the cells of a library it names,
\* flattened, or those of a design.
RequestedShapes(request) ==
  IF HasGds(source) THEN FlattenRequestedCells(source, request.roots)
  ELSE SelectSeq(source.shapes, LAMBDA s : Admits(request.macros, s.macro))

\* A filter on macros is for a design, one on cells for a library.
IsMeant(request) ==
  IF HasGds(source)
  THEN request.macros = {} /\ \A root \in Range(request.roots) : IsCell(root)
  ELSE request.roots = <<>> /\ \A macro \in request.macros : HasItem(source.macros, macro)

\* encodeGeometryResponse; only reads.
Geometry(request) ==
  LET found == SelectSeq(RequestedShapes(request), LAMBDA s : MatchesGeometryRequest(request, s))
      wanted == [shapes |-> FirstOf(found, request.max_shapes),
                 truncated |-> request.max_shapes # 0 /\ Len(found) > request.max_shapes]
  IN  /\ IF IsMeant(request) THEN Answer("geometry", request, wanted) ELSE Refuse(request)
      /\ UNCHANGED <<sourceVars, walk, requests>>

-----------------------------------------------------------------------------
(* Search.                                                                 *)

Entry(kind, owner, label, object, bounds, class, cell, rank) ==
  [kind |-> kind, owner |-> owner,
   result |-> [object |-> object, bounds |-> bounds, label |-> label, class |-> class,
               cell |-> cell, rank |-> rank]]

\* ensureSearchIndex: cells, references, texts and layers, those with a label.
SearchIndex(data) ==
  LET gds == data.gds
      cell(k) == LET c == Item(gds.cells, k)
                 IN  Entry("cell", k, c.name, Object("Cell", k, NoIndex, NoIndex, NoIndex, 0, NoInstance),
                           BoundsOrZero(c.bounds), "Cell", k, 0)
      reference(k) ==
        LET ref == Item(gds.references, k)
            box == Item(gds.cells, ref.target).bounds
        IN  Entry("reference", ref.parent, ref.name,
                  Object("Reference", ref.parent, k, NoIndex, NoIndex, 0, NoInstance),
                  IF box = NoBounds THEN Rect(0, 0, 0, 0)
                                    ELSE TransformBounds(ReferenceTransform(ref, 0, 0), box),
                  "Cell", ref.target, 100)
      element(kind, k, label, rank) ==
        LET e == Item(gds.elements, k)
        IN  Entry(kind, e.cell, label,
                  Object("Element", e.cell, NoIndex, k, FindGdsLayer(data.layers, e), e.datatype, NoInstance),
                  ElementBounds(gds, e), ElementClass(data, e), e.cell, rank)
      cells      == Map(UpTo(Len(gds.cells)), LAMBDA k : cell(k - 1))
      placed     == SelectSeq([k \in DOMAIN gds.references |-> k - 1],
                              LAMBDA k : HasItem(gds.cells, Item(gds.references, k).target))
      references == Map(placed, reference)
      texts      == Map(gds.texts, LAMBDA k : element("text", k, Item(gds.elements, k).text, 200))
      samples    == Map(gds.samples, LAMBDA s : element("layer", s.element, LayerLabel(s), 300))
  IN  SelectSeq(cells \o references \o texts \o samples, LAMBDA e : e.result.label # <<>>)

\* collectReachableCellsForSearch: the cells below the root, itself among
\* them, each visited once; no root asks for every cell.
RECURSIVE CollectReachable(_, _, _)
CollectReachable(gds, frontier, found) ==
  IF frontier \subseteq found THEN found
  ELSE LET new == CHOOSE c \in frontier \ found : TRUE
           below == {Item(gds.references, k).target : k \in Range(Item(gds.cells, new).references)}
       IN  CollectReachable(gds, (frontier \cup below) \ {NoIndex}, found \cup {new})

ReachableCells(root) ==
  CASE root \in DOMAIN reachable -> reachable[root]
    [] root \notin DOMAIN reachable /\ root = NoIndex -> 0 .. Len(source.gds.cells) - 1
    [] OTHER -> CollectReachable(source.gds, {root}, {})

IsPrefixOf(prefix, text) == Len(prefix) <= Len(text) /\ SubSeq(text, 1, Len(prefix)) = prefix

\* An exact label first, then one that starts with the query, then the rest.
SearchRank(label, query, base) ==
  CASE query = <<>> -> base + 30
    [] query # <<>> /\ Lower(label) = Lower(query) -> base
    [] query # <<>> /\ Lower(label) # Lower(query) /\ IsPrefixOf(Lower(query), Lower(label)) -> base + 10
    [] OTHER -> base + 20

SearchMatches(request, within, entry) ==
  /\ Admits(request.kinds, entry.kind)
  /\ entry.owner \in within
  /\ ContainsIgnoringCase(entry.result.label, request.query)
  /\ request.bbox = NoBounds \/ Intersects(entry.result.bounds, request.bbox)

Alphabet == <<"/", "0", "1", "2", "3", ":", "A", "D", "G", "I", "M", "O", "P", "S", "T">>
LetterBefore(l, r) == (CHOOSE k \in DOMAIN Alphabet : Alphabet[k] = l)
                    < (CHOOSE k \in DOMAIN Alphabet : Alphabet[k] = r)
LabelBefore(l, r) ==
  \E k \in 1 .. Len(r) : /\ IsPrefixOf(SubSeq(r, 1, k - 1), l)
                         /\ k > Len(l) \/ LetterBefore(l[k], r[k])

\* By rank, which tells the kinds apart, then by label, then by index.
RankedEntries(request, found) ==
  LET label(k) == found[k].result.label
      rank(k) == SearchRank(label(k), request.query, found[k].result.rank)
      place(k) == <<found[k].result.object.cell, found[k].result.object.reference,
                    found[k].result.object.element>>
      before(i, j) ==
        LET l == label(i)  r == label(j)
            differ == {n \in 1 .. 3 : place(i)[n] # place(j)[n]}
        IN  \/ rank(i) < rank(j)
            \/ rank(i) = rank(j) /\ LabelBefore(l, r)
            \/ rank(i) = rank(j) /\ l = r /\ differ # {} /\ place(i)[Low(differ)] < place(j)[Low(differ)]
            \/ rank(i) = rank(j) /\ l = r /\ differ = {} /\ i < j
      order == SortSeq(UpTo(Len(found)), before)
  IN  FirstOf(Map(order, LAMBDA k : [found[k].result EXCEPT !.rank = rank(k)]), request.max_results)

SearchAnswer(request, within) ==
  RankedEntries(request,
                SelectSeq(SearchIndex(source), LAMBDA e : SearchMatches(request, within, e)))

\* Bug: kept for requests of any number of results.
SearchKeyOfAnyLimit(request) == [request EXCEPT !.query = Lower(@), !.max_results = 0]

SearchKey(request) == [request EXCEPT !.query = Lower(@)]

\* encodeSearchResponse: an answer is kept under the request in lower case.
KeepSearch(request, within, result) ==
  /\ Answer("search", request, result)
  /\ searchBuilt' = TRUE
  /\ reachable' = (request.root :> within) @@ reachable
  /\ searches' = (SearchKey(request) :> result) @@ searches

Search(request) ==
  LET key == SearchKey(request)
  IN  /\ requests < MaxRequests[source.title]
      /\ requests' = requests + 1
      /\ \/ /\ ~HasGds(source)
            /\ Refuse(request)
            /\ UNCHANGED <<searchBuilt, reachable, searches>>
         \/ /\ HasGds(source) /\ key \notin DOMAIN searches
            /\ request.root # NoIndex /\ ~IsCell(request.root)
            /\ Refuse(request)
            /\ searchBuilt' = TRUE
            /\ UNCHANGED <<reachable, searches>>
         \/ /\ key \in DOMAIN searches
            /\ Answer("search", request, searches[key])
            /\ UNCHANGED <<searchBuilt, reachable, searches>>
         \/ /\ HasGds(source) /\ key \notin DOMAIN searches
            /\ request.root = NoIndex \/ IsCell(request.root)
            /\ KeepSearch(request, ReachableCells(request.root),
                          SearchAnswer(request, ReachableCells(request.root)))
      /\ walk' = NoWalk
      /\ UNCHANGED <<source, index, tiles, continuations, nextToken, warmup>>

-----------------------------------------------------------------------------
(* The catalog, page by page.                                              *)

\* A source that is no library has none of the tables of one.
LibraryTables == {"cells", "references", "elements", "points"}
HasTable(data, table) == HasGds(data) \/ table \notin LibraryTables

\* The rows of a table, none where there is no such table, and the units each
\* takes in a page, its name included.
CatalogRows(data, table) ==
  CASE table = "layers" -> Map(data.layers, LAMBDA l : LayerRow(data, l))
    [] table = "strings" -> PagedStrings(data)
    [] table = "diagnostics" -> data.diagnostics
    [] table \in LibraryTables -> IF HasGds(data) THEN LibraryRows(data.gds)[table] ELSE <<>>

RowUnits(table, row) ==
  CASE table \in {"layers", "cells", "references"} -> 1 + Len(row.name)
    [] table = "elements" -> 1 + Len(row.text)
    [] table = "strings" -> 1 + Len(row)
    [] OTHER -> 1

\* Bug: the next page starts one row after the first that was left out.
NextRowSkipping(rows, end) == IF end + 1 < Len(rows) THEN end + 1 ELSE NoIndex

NextRow(rows, end) == IF end < Len(rows) THEN end ELSE NoIndex

PageLimit(request) == IF request.limit = 0 THEN DefaultPageLimit ELSE request.limit
PageBytes(request) == IF request.max_bytes = 0 THEN MaxPageSize ELSE request.max_bytes

\* As many rows from the offset as the limit and the bytes let in.  Errors are,
\* in this order, an offset past the end, a number of bytes that is out of
\* range, a table the source has not, and bytes too few for a single row.
CatalogPage(data, request, offset) ==
  LET rows   == CatalogRows(data, request.table)
      units(n) == PageHeader + FoldSet(LAMBDA k, sum : sum + RowUnits(request.table, rows[k]), 0,
                                       offset + 1 .. offset + n)
      limit  == Low({PageLimit(request), Len(rows) - offset})
      count  == High({n \in 0 .. limit : units(n) <= PageBytes(request)})
  IN  IF \/ offset > Len(rows)
         \/ PageBytes(request) \notin PageHeader .. MaxPageSize
         \/ ~HasTable(data, request.table)
         \/ offset < Len(rows) /\ count = 0 THEN Refused
      ELSE [rows |-> SubSeq(rows, offset + 1, offset + count), next |-> NextRow(rows, offset + count)]

\* LayoutSource::status and DataSetLayoutSource::status.
StatusOf(data) ==
  LET gds == data.gds
  IN  [cells      |-> IF HasGds(data) THEN Len(gds.cells) ELSE Len(data.macros),
       references |-> IF HasGds(data) THEN Len(gds.references) ELSE 0,
       elements   |-> IF HasGds(data) THEN Len(gds.elements) ELSE Len(data.shapes),
       points     |-> IF HasGds(data) THEN Len(gds.points) ELSE 0,
       diagnostics |-> Len(data.diagnostics),
       scheduled  |-> warmup # "none",
       ready      |-> warmup \in {"none", "done"}]

\* What a client asks first, the greeting, the state and the whole catalog.
Describe ==
  /\ answer = NoAnswer
  /\ Answer("whole", <<>>, [status |-> StatusOf(source), catalog |-> WholeCatalog(source)])
  /\ UNCHANGED <<sourceVars, walk, requests>>

\* A client that asks for a page and goes on where the last one ended; only reads.
Catalog(request) ==
  LET goesOn == answer.op = "catalog" /\ answer.request = request
      offset == IF goesOn THEN answer.value.next ELSE request.offset
      before == IF goesOn THEN answer.value.rows ELSE <<>>
      page   == CatalogPage(source, request, offset)
  IN  /\ offset # NoIndex
      /\ IF page = Refused THEN Refuse(request)
         ELSE Answer("catalog", request, [page EXCEPT !.rows = before \o @])
      /\ UNCHANGED <<sourceVars, walk, requests>>

-----------------------------------------------------------------------------
(* The warm-up thread: the spatial index under its mutex, then the search  *)
(* index under its own.                                                    *)

WarmupSpatialIndex ==
  /\ warmup = "spatial"
  /\ warmup' = "search"
  /\ index' = WarmupTopCell(source, index)
  /\ UNCHANGED <<source, tiles, continuations, nextToken, searchBuilt, reachable, searches,
                 answer, walk, requests>>

WarmupSearchIndex ==
  /\ warmup = "search"
  /\ warmup' = "done"
  /\ searchBuilt' = TRUE
  /\ UNCHANGED <<source, index, tiles, continuations, nextToken, reachable, searches,
                 answer, walk, requests>>

Next ==
  \/ Describe
  \/ \E r \in TileRequests[source.title], token \in {0} \cup DOMAIN continuations : Tile(r, token)
  \/ \E r \in HitRequests[source.title] : Hit(r)
  \/ \E object \in NamedObjects : InspectObject(object) \/ SelectObject(object)
  \/ \E r \in SearchRequests[source.title] : Search(r)
  \/ \E r \in GeometryRequests[source.title] : Geometry(r)
  \/ \E r \in CatalogRequests[source.title] : Catalog(r)
  \/ WarmupSpatialIndex
  \/ WarmupSearchIndex

Spec == Init /\ [][Next]_vars
=============================================================================
