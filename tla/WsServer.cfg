SPECIFICATION Spec
CONSTANTS
  Ids = {a, b}
  Sess = {s1, s2, s3}
  Procs = {"unary", "server_stream", "bidi"}
  ShapeOf <- NamedByShape
  MaxInflight = 2
  RecvCap = 2
  WriteCap = 1
  MaxFrames = 5
  MaxSends = 1
  None = None
SYMMETRY Symmetry
CONSTRAINT Scenarios
INVARIANTS
  TypeOK
  RunsOnWholeRequest
  NotFoundAfterTerminal
  SlotAccounting
  TableExact
  NoSendOnClosedRecvCh
  NoSendOnClosedWriteCh
  UnblockedAtShutdown
PROPERTIES
  RejectsOnlyWhenFull
  ImplementsService
