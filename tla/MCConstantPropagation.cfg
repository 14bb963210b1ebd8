CONSTANTS
  Half = 2
  Programs <- MCPrograms
  Name <- MCName
  Undefined = Undefined
SPECIFICATION FairSpec
INVARIANTS
  TypeOK
  OperandsPreserved
PROPERTY
  Converges
CHECK_DEADLOCK FALSE
