SPECIFICATION Spec
CONSTANTS
  BackToBack = FALSE
  MaxCycles = 7
INVARIANTS
  TypeOK
  InStep
  AnswerOwn
  NothingLeft
PROPERTY
  CyclesServed
