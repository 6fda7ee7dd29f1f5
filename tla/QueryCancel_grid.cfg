\* A grid fetch that is stopped.
SPECIFICATION Spec
CONSTANTS
  Runs = {grid}
  Grids = {grid}
  Scripts = {}
  ScriptLength = 1
  Backends = {b1}
  NoBackend = NoBackend
  NoRun = NoRun
  Faults = {}
CHECK_DEADLOCK FALSE
PROPERTIES
  NoPidNoStatement
