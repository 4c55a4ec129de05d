\* Two build directories, a valid and an invalid port.
SPECIFICATION Spec
CONSTANTS
  Dirs = {"build", "dist"}
  Targets = {"name"}
  Ports = {18080, 65536}
  NoToml = NoToml
  NoNumber = NoNumber
  MaxEdits = 2
  WriteFaults = FALSE
INVARIANTS
  TypeOK
  BuildIsCurrent
  DevRunsItsOwnBuild
