\* A build that fails.
SPECIFICATION Spec
CONSTANTS
  Dirs = {"build", "dist"}
  Targets = {"name", "other"}
  Ports = {18080}
  NoToml = NoToml
  NoNumber = NoNumber
  MaxEdits = 2
  WriteFaults = FALSE
INVARIANTS
  ExitZeroMeansBuilt
