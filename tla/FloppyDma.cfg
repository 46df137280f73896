SPECIFICATION Spec
CONSTANTS
  Byte = 2
  BuiltIn = 1
  Drives = {0}
  Jobs <- BiosJobs
INVARIANTS
  TypeOK
  QuietAtRest
PROPERTIES
  JobEnds
  ImplementsFloppyDrive
