SPECIFICATION Spec
CONSTANTS
  MaxOpenFiles = 2
  Sfts = {s1, s2, s3}
  NoSft = NoSft
  Files = {f1, f2}
  NoFile = NoFile
  Functions = {"install", "info", "chdir", "attributes", "find", "open", "close", "read", "other"}
INVARIANTS TypeOK CallGetsOwnAnswer HandlesOwned
PROPERTIES CallReturns ImplementsRemoteDrive
