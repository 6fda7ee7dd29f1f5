\* Redis through SSH with a driver whose disconnect() may fail: every action.
SPECIFICATION Spec
CONSTANTS
  Calls = {c1, c2}
  Sessions = {s1, s2, s3}
  Adapters = {a1, a2, a3, a4}
  Nobody = Nobody
  MaxRetries = 1
  SshEnabled = TRUE
  KvSwitch = TRUE
  CloseCanFail = TRUE
SYMMETRY Symm
INVARIANTS
  TypeOK
  TornDownClean
  NoLeakedTunnel
  OnePingLoop
  NotStuckConnecting
PROPERTIES
  OnlyAbortsLeak
  DisconnectLeavesNothing
