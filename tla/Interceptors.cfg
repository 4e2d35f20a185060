SPECIFICATION Spec
CONSTANTS
  Slots = 2
  MaxCalls = 2
  MaxMsgs = 2
  MaxSends = 1
INVARIANTS
  RequestsOnce
  OnionOrder
  NoNilOnWire
PROPERTIES
  ImplementsDirect
