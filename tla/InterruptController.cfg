SPECIFICATION Spec
CONSTANTS
  Lines = {0, 1}
  Icw1s <- XtIcw1s
  SpecificEoi = FALSE
  MaxNest = 2
INVARIANTS
  TypeOK
  ServiceDrains
  PinCurrent
PROPERTIES
  PostQuiet
  IntrFollows
