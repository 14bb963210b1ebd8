CONSTANTS
  Name = {x, y}
  NoName = NoName
  MaxNesting = 3
  MaxDecls = 3
  MaxLabels = 6
SYMMETRY NameSymmetry
SPECIFICATION Spec
INVARIANTS
  TypeOK
  Agreement
  IrNamesUnique
  BreakBindsInnermost
PROPERTY
  StaticScoping
CHECK_DEADLOCK FALSE
