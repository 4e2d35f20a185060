SPECIFICATION UserSpec
CONSTANTS
  Calls = {"unary", "server_stream", "client_stream", "bidi"}
  ShapeOf <- NamedByShape
  RecvCap = 1
  WriteCap = 1
  MaxFrames = 3
  MaxSends = 1
  NoCall = NoCall
CONSTRAINT Scenarios
INVARIANTS
  TypeOK
  NoSendOnClosedRecvCh
  WaitersReleased
  TableExact
  DeliveredWithoutGap
PROPERTIES
  TerminalSticks
  PendingCallsEnd
CHECK_DEADLOCK FALSE
