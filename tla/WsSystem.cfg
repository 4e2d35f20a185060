SPECIFICATION FairSpec
CONSTANTS
  Calls = {"unary", "again", "server_stream", "client_stream", "bidi"}
  ShapeOf <- ShapeByName
  Sess = {s1, s2}
  s1 = s1
  s2 = s2
  MaxInflight = 1
  RecvCap = 2
  WriteCap = 1
  NetCap = 1
  MaxFrames = 1000
  MaxSends = 2
  None = None
CONSTRAINT Scenarios
INVARIANTS
  FramesFaithful
PROPERTIES
  ImplementsCalls
  CallsReturn
  CloseReleasesHandler
CHECK_DEADLOCK FALSE
