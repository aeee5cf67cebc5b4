CONSTANTS
  main = main
  pkg = pkg
  hdr = hdr
  oth = oth
  Document = {main, pkg, hdr, oth}
  TOP = TOP
  PKG = PKG
  X = X
  OTH = OTH
  Name = {TOP, PKG, X, OTH}
  Design = {TOP, OTH}
  DEEP = DEEP
  FLAT = FLAT
  Macro = {DEEP, FLAT}
  Body <- MCBody
  any = any
  short = short
  Prefix = {any, short}
  Matches <- MCMatches
  CandidateLimit <- MCCandidateLimit
  DocumentLimit = 2
  None = None
  Text <- MCText
  Workspaces <- MCWorkspaces
  Config <- MCConfig
  Request <- MCRequest
  Symbol <- MCSymbol
  Cursor <- MCCursor
  Top <- MCTop
  SnapshotLimit = 2
  QueryLimit = 1
  Unavailable = Unavailable
  MaxKept = 1
  MaxGeneration = 1
SPECIFICATION Spec
INVARIANTS
  KeptIsCurrent
  DocumentAnswersAreWhole
  ReferencesAreWholeIfHeadersDefine
  HierarchiesAreWhole
  CompletionsSaySo
  ResolvedWhereOffered
  ConesAreWhole
  SchematicsAgreeWithCones
  CallsAgreeWithHierarchies
