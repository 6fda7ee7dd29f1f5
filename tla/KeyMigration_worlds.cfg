\* Six worlds: a keyring that comes and goes, or stays, with failing writes and crashes inside a
\* boot; a steady keyring with torn saves; a keyring that is reset between whole boots, or between
\* boots that are cut short; everything at once.
SPECIFICATION Spec
CONSTANTS
  Keys = {k1, k2, k3, k4, k5, k6}
  NoKey = NoKey
  Zeroed = Zeroed
  Secrets = {password, wallet_password, ssh_password}
  Covered = {password, wallet_password}
  Worlds = {
            {"no_keyring", "read_err", "set_err", "set_lost", "publish_err", "delete_err", "crash_boot"},
            {"set_err", "set_lost", "publish_err", "delete_err", "crash_boot"},
            {"set_err", "set_lost", "torn_save"},
            {"keyring_lost", "set_err", "set_lost", "publish_err"},
            {"keyring_lost", "no_keyring", "set_err", "delete_err", "crash_boot"},
            {"no_keyring", "keyring_lost", "read_err", "set_err", "set_lost", "publish_err", "delete_err", "crash_boot", "torn_save"}}
SYMMETRY Symm
INVARIANTS
  TypeOK
  SecretsStored
  RetiredOpensNothing
  SessionOpens
  SealsMatch
PROPERTIES
  SavesAreAtomic
