SPECIFICATION Spec
CONSTANTS
  Services <- MCServices
  Programs <- MCPrograms
  Requests <- MCRequests
  Errors <- MCErrors
  MaxSends = 2
  Accepts <- MCAccepts
  Decodes <- MCDecodes
  Lower <- MCLower
  Parts <- MCParts
  None = None
INVARIANTS
  TreeExact
  RightMethod
  RequestFromLine
  CommandsRun
  Reported
