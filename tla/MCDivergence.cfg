CONSTANTS
  Half = 2
  Programs <- DivergingPrograms
  Name <- DivergingName
  Undefined = Undefined
SPECIFICATION FairSpec
PROPERTY Converges
CHECK_DEADLOCK FALSE
