SPECIFICATION FairSpec
CONSTANTS
  Calls = {"client_stream"}
  ShapeOf <- ShapeByName
  Sess = {s1}
  s1 = s1
  s2 = s2
  MaxInflight = 1
  RecvCap = 2
  WriteCap = 1
  NetCap = 1
  MaxFrames = 1000
  MaxSends = 9
  None = None
CONSTRAINT ReturnsEarly
PROPERTIES
  SendReturns
CHECK_DEADLOCK FALSE
