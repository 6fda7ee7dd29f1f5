\* The shared pool and a host-key lookup, three databases, three backup names.
SPECIFICATION Spec
CONSTANTS
  n1 = n1
  n2 = n2
  n3 = n3
  Names = {n1, n2, n3}
  Openers = {shared, pin}
  Shared = shared
  None = None
  Blank = Blank
  MaxDatabases = 3
SYMMETRY MCSymmetry
CHECK_DEADLOCK FALSE
INVARIANTS
  TypeOK
  NoForeignLog
PROPERTIES
  NothingThrownAway
