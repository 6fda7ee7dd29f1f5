\* An SSH profile, whose secrets SECRET_FIELDS does not list, and a keyring that comes and goes.
SPECIFICATION Spec
CONSTANTS
  Keys = {k1, k2, k3, k4, k5}
  NoKey = NoKey
  Zeroed = Zeroed
  Secrets = {password, ssh_password}
  Covered = {password}
  Worlds = {{"no_keyring"}}
SYMMETRY Symm
INVARIANTS
  NoOrphan
