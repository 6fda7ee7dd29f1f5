\* A script of two statements and a grid on a pool of two sessions.
SPECIFICATION FairSpec
CONSTANTS
  Runs = {script, grid}
  Grids = {grid}
  Scripts = {script}
  ScriptLength = 2
  Backends = {b1, b2}
  NoBackend = NoBackend
  NoRun = NoRun
  Faults = {"not_connected", "db_mismatch", "no_pid", "sql_error", "kill_err"}
CHECK_DEADLOCK FALSE
INVARIANTS
  TypeOK
  RegistriesCleared
  RecordedPidIsOwn
  OneStatementPerRun
PROPERTIES
  RunsScripts
  FiredCommandReturns
