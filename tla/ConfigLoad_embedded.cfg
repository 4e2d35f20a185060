SPECIFICATION Spec
CONSTANTS
  None = None
  Fields <- MCFields
  Declarations <- MCDeclarations
  Argvs <- MCArgvs
INVARIANTS
  EmbeddedPopulated
