SPECIFICATION FairSpec
CONSTANTS
  Calls = {"server_stream"}
  ShapeOf <- NamedByShape
  RecvCap = 1
  WriteCap = 1
  MaxFrames = 2
  MaxSends = 0
  NoCall = NoCall
PROPERTIES
  LoopsEndAfterClose
CHECK_DEADLOCK FALSE
