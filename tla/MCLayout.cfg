SPECIFICATION Spec
CONSTANTS
  Sources <- MCSources
  TileRequests <- MCTileRequests
  HitRequests <- MCHitRequests
  SearchRequests <- MCSearchRequests
  GeometryRequests <- MCGeometryRequests
  CatalogRequests <- MCCatalogRequests
  CacheBudget = 60
  PageHeader = 1
  MaxPageSize = 40
  DefaultPageLimit = 4
  MaxRequests <- MCMaxRequests
  GridThreshold = 2
  MinAxisBins = 3
  MaxAxisBins = 3
  HitLimit = 3
  CandidatesPerResult = 1
INVARIANT SourcesTellTheirFiles
INVARIANT TilesTellTheLibrary
INVARIANT ShownIsInspected
INVARIANT HitsTellTheLibrary
INVARIANT SearchesAreFresh
INVARIANT CatalogsAreWhole
CHECK_DEADLOCK FALSE
