\* Two exports of any sort to one file, with one power loss.
SPECIFICATION FairSpec
CONSTANTS
  file = file
  Exports = {e1, e2}
  Targets = {file}
  Jobs <- MCJobs
  Old = Old
  Capacity = 2
  MaxLosses = 1
CHECK_DEADLOCK FALSE
INVARIANTS
  TypeOK
  NoLeftovers
PROPERTIES
  ExportsReplaceWhole
  StoppedExportReturns
