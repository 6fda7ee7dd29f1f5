\* Two switches and a query over three databases, with a cap of two.
SPECIFICATION FairSpec
CONSTANTS
  DBs = {d1, d2, d3}
  Switchers = {s1, s2}
  Queries = {q1}
  Pools = {p1, p2, p3, p4, p5, p6}
  Cap = 2
  NoDb = NoDb
  NoPool = NoPool
CHECK_DEADLOCK FALSE
INVARIANTS
  TypeOK
  CacheBounded
  CurrentUsable
PROPERTIES
  OnlyOvertakenSwitchesLeak
  CachesLikeLru
  SwitchReturns
