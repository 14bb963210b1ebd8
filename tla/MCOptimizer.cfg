CONSTANTS
  Half = 8
  InlineLimit = 24
  BaseLoopLimit = 96
  LoopLimit = 160
  SpecialLimit = 2048
  MaxRounds = 64
  MaxIterations = 8
  Inputs <- MCInputs
  Fuel = 7
  RecurrenceTrips = 5
  StateTrips = 7
  ControlTrips = 7
  Undefined = Undefined
  Sources <- MCSources
SPECIFICATION Spec
INVARIANTS MeaningKept NoDanglingUse WellFormed
CHECK_DEADLOCK FALSE
