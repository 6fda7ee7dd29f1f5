\* A crash between the two renames of a save, and a keyring that comes and goes.
SPECIFICATION Spec
CONSTANTS
  Keys = {k1, k2, k3, k4, k5}
  NoKey = NoKey
  Zeroed = Zeroed
  Secrets = {password}
  Covered = {password}
  Worlds = {{"no_keyring", "torn_save"}}
SYMMETRY Symm
INVARIANTS
  NoOrphan
