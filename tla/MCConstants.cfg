CONSTANTS
  Half = 32
  ImmHalf = 8
  StackBytes = 16
  ArgRegs <- OneArgReg
  SavedRegs <- NoRegs
  TempRegs <- MCTempRegs
  Fuel = 3
  Undefined = Undefined
  Inputs <- Word
  Programs <- ConstantPrograms
SPECIFICATION Spec
INVARIANTS TextImplements AllEncodable
CHECK_DEADLOCK FALSE
