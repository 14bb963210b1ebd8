CONSTANTS
  Half = 256
  ImmHalf = 16
  StackBytes = 256
  ArgRegs <- MCArgRegs
  SavedRegs <- MCSavedRegs
  TempRegs <- MCTempRegs
  Fuel = 8
  Undefined = Undefined
  Inputs <- MCInputs
  Programs <- MCPrograms
SPECIFICATION Spec
INVARIANTS TypeOK TextImplements LiveValuesApart SavedBeforeUse AllEncodable
CHECK_DEADLOCK FALSE
