\* A script of two statements that is stopped.
SPECIFICATION Spec
CONSTANTS
  Runs = {script}
  Grids = {}
  Scripts = {script}
  ScriptLength = 2
  Backends = {b1}
  NoBackend = NoBackend
  NoRun = NoRun
  Faults = {}
CHECK_DEADLOCK FALSE
PROPERTIES
  StopTakesHold
