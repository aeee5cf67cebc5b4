SPECIFICATION Spec
CONSTANTS
  Dispatcher = Dispatcher
  Worker = Worker
  Caller = {Dispatcher, Worker}
  Reader = Reader
  MaxChanges = 5
INVARIANTS
  OutstandingIsReal
PROPERTY EveryChangeIsAnnounced
