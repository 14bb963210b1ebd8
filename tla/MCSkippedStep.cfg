CONSTANTS
  Half = 8
  InlineLimit = 9
  BaseLoopLimit = 9
  LoopLimit = 9
  SpecialLimit = 9
  MaxRounds = 64
  MaxIterations = 8
  Inputs <- MCInputs
  Fuel = 7
  RecurrenceTrips = 5
  StateTrips = 7
  ControlTrips = 7
  Undefined = Undefined
  Sources <- SkippedStep
SPECIFICATION Spec
INVARIANT HaltingProven
CHECK_DEADLOCK FALSE
