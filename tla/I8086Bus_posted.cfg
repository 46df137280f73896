SPECIFICATION Spec
CONSTANTS
  BackToBack = TRUE
  MaxCycles = 5
INVARIANT
  StallsOnNext
