CONSTANTS
  Declarations <- MCDeclarations
  Programs <- MCPrograms
  MaxInstances = 12
SPECIFICATION Spec
INVARIANTS VerdictIsRight ImplsExist
PROPERTY InstantiationEnds
CHECK_DEADLOCK FALSE
