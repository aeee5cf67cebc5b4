SPECIFICATION Spec
CONSTANTS
  Paths <- MCPaths
  Read <- MCRead
  Requests <- MCRequests
  RequestsV2 <- MCRequestsV2
INVARIANT FramesTellTheFile
INVARIANT FramesAreComplete
