SPECIFICATION Spec
CONSTANTS
  Half = 8
  Undefined = Undefined
  NoValue = NoValue
  Identifiers <- MCIdentifiers
  Programs <- MCPrograms
  Inputs <- MCInputs
  TreeFuel = 20
  Fuel = 8
INVARIANTS
  TypeOK
  AcceptedDoesNotGoWrong
  TreeImplemented
CHECK_DEADLOCK FALSE
