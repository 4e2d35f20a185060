SPECIFICATION FairSpec
CONSTANTS
  Calls = {"unary"}
  ShapeOf <- NamedByShape
  RecvCap = 1
  WriteCap = 3
  MaxFrames = 1
  MaxSends = 0
  NoCall = NoCall
PROPERTIES
  CallAfterCloseEnds
CHECK_DEADLOCK FALSE
