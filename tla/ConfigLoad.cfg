SPECIFICATION Spec
CONSTANTS
  None = None
  Fields <- MCFields
  Declarations <- MCDeclarations
  Argvs <- MCArgvs
INVARIANTS
  Precedence
  RequiredHaveValues
  ProcedureArgsKept
  OneFieldPerName
  FileMerged
