SPECIFICATION SessionSpec
CONSTANTS
  d1 = d1
  d2 = d2
  Document = {d1, d2}
  Path = {}
  NoJob = NoJob
  JobRequest <- SessionJobRequest
  MaxSchedules = 3
  MaxEdits = 3
  EarlyStart = FALSE
  SyntaxFirst = {TRUE, FALSE}
INVARIANTS
  LastJobLeavesCurrentDiagnostics
PROPERTY SemanticFollowsSyntax
