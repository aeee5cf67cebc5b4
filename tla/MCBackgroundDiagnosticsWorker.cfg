SPECIFICATION Spec
CONSTANTS
  d1 = d1
  d2 = d2
  p1 = p1
  Document = {d1, d2}
  Path = {p1}
  NoJob = NoJob
  JobRequest <- MCJobRequest
  MaxSchedules = 2
  EarlyStart = TRUE
INVARIANTS
  ReportedWorkExists
  AtMostOneLatePublication
PROPERTIES
  ImplementsBox
  StopReturns
  ImplementsFairness
