SPECIFICATION Spec
CONSTANTS
  MaxClients = 2
  Messages = {"data", "status", "malformed", "oversized", "close"}
  Backlog = 1
  Buffer = 1
  MaxSessions = 2
  MaxMessages = 2
INVARIANTS SessionsAreApart StatusNeverRegresses
PROPERTY StopReturns
CHECK_DEADLOCK FALSE
