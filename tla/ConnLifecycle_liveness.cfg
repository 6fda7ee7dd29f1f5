\* A SQL engine without a tunnel, under the scheduling the code relies on.
SPECIFICATION FairSpec
CONSTANTS
  Calls = {c1, c2}
  Sessions = {s1, s2}
  Adapters = {a1, a2}
  Nobody = Nobody
  MaxRetries = 1
  SshEnabled = FALSE
  KvSwitch = FALSE
  CloseCanFail = FALSE
INVARIANTS
  ConnectedHasPool
PROPERTIES
  CommandsReturn
  SupersededTaskEnds
  TornDownStaysDown
  ActsAsService
