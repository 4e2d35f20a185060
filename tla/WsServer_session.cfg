SPECIFICATION FairSpec
CONSTANTS
  Ids = {a}
  Sess = {s1}
  Procs = {"unary", "client_stream", "bidi"}
  ShapeOf <- NamedByShape
  MaxInflight = 1
  RecvCap = 2
  WriteCap = 1
  MaxFrames = 4
  MaxSends = 1
  None = None
PROPERTIES
  DeliveredInOrder
  ShutdownCompletes
  ClosedSessionEnds
  ReaderNotStuck
INVARIANTS
  RepliesWellFormed
