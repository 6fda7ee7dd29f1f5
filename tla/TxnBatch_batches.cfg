\* Two batches over three rows, one of them with a twin, on every driver.
SPECIFICATION FairSpec
CONSTANTS
  r1 = r1
  r2 = r2
  twin = twin
  Batches = {b1, b2}
  Rows = {r1, r2, twin}
  Duplicated = {twin}
  Deletable = {r2}
  Engines = {"postgres", "sqlite", "mssql", "oracle", "duckdb"}
  Plans <- MCPlans
CHECK_DEADLOCK FALSE
INVARIANTS
  TypeOK
PROPERTIES
  BatchesAreAtomic
  CancelledBatchReturns
