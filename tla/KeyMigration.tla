---------------------------- MODULE KeyMigration ----------------------------
(***************************************************************************)
(* The master key and the file it protects: the boot that resolves the key *)
(* (storage/key_migration.rs), the saves and loads of connections.json     *)
(* (storage/mod.rs) and the on-demand disk key (storage/crypto.rs), over   *)
(* what survives a crash: the keyring entry, the disk `.key`,              *)
(* connections.json and its backup.                                        *)
(*                                                                         *)
(* A secret is represented by the key that seals it.  A step is one        *)
(* durable write (a keyring set, a rename, an unlink) with the code up to  *)
(* the next one, so that a crash can fall between any two.  What can go    *)
(* wrong in an execution, faults, is chosen before it starts.              *)
(*                                                                         *)
(* A definition named BUG_... is a plausible mistake in the definition     *)
(* that follows it; the model does not use it.                             *)
(***************************************************************************)

CONSTANTS
  Keys,      \* 32-byte keys
  NoKey,     \* no key: an empty field, a missing entry or file
  Zeroed,    \* a `.key` that was overwritten and not yet unlinked
  Secrets,   \* the secret fields of the saved connections
  Covered,   \* those the migration looks at (SECRET_FIELDS)
  Worlds     \* each a set of faults that may happen together

AllFaults == {"no_keyring",    \* is_available() is false at a boot
              "keyring_lost",  \* the profile moves, or the keyring is reset, between boots
              "read_err",      \* a keyring get returns Err
              "set_err",       \* a keyring set returns Err
              "set_lost",      \* a keyring set returns Ok and stores nothing
              "publish_err",   \* the re-encrypted document cannot be written
              "delete_err",    \* the `.key` or the backup cannot be overwritten or unlinked
              "crash_boot",    \* the process dies inside a boot
              "torn_save"}     \* a save stops between its two renames

ASSUME KeyAssumption ==
  /\ NoKey \notin Keys /\ Zeroed \notin Keys /\ NoKey # Zeroed
  /\ Covered \subseteq Secrets
  /\ Worlds \subseteq SUBSET AllFaults

VARIABLES
  faults,    \* what can go wrong in this execution
  keyring,   \* the keyring entry
  disk,      \* the `.key` file
  doc,       \* connections.json
  bak,       \* connections.json.bak
  pc,        \* where the process is, "off" when it is not running
  path,      \* the branch of the boot that is retiring the `.key`
  session,   \* the key seeded into MASTER_KEY, NoKey when none was
  pending    \* the document a save has written to its temp file

durable == <<keyring, disk, doc, bak>>
vars == <<faults, keyring, disk, doc, bak, pc, path, session, pending>>

Seals == [Secrets -> Keys \cup {NoKey}]
NoSeal == [f \in Secrets |-> NoKey]
\* "empty" is a document without connections, which is not worth protecting.
Files == [kind : {"absent", "empty", "held"}, seal : Seals]
Absent == [kind |-> "absent", seal |-> NoSeal]
Empty == [kind |-> "empty", seal |-> NoSeal]
Held(seal) == [kind |-> "held", seal |-> seal]

Pcs == {"off", "verifyNew", "verifyMigrated", "reseal", "dropBackup", "retire", "unlink",
        "run", "publish"}

TypeOK ==
  /\ faults \in Worlds
  /\ keyring \in Keys \cup {NoKey}
  /\ disk \in Keys \cup {NoKey, Zeroed}
  /\ doc \in Files /\ bak \in Files /\ pending \in Files
  /\ pc \in Pcs
  /\ path \in {"none", "migrate", "stale", "rekey"}
  /\ session \in Keys \cup {NoKey}

\* A new install, or one of a version that kept its key on disk only.
Init ==
  /\ faults \in Worlds
  /\ keyring = NoKey /\ bak = Absent
  /\ \/ disk = NoKey /\ doc = Absent
     \/ disk \in Keys /\ \E s \in [Secrets -> {disk, NoKey}] : doc = Held(s)
  /\ pc = "off" /\ path = "none" /\ session = NoKey /\ pending = Absent

-----------------------------------------------------------------------------
(* Documents *)

Sealed(d) == {f \in Secrets : d.seal[f] # NoKey}
\* has_secrets and secrets_decrypt_under look at the covered fields only.
HasSecrets(d) == Sealed(d) \cap Covered # {}
Opens(k, d) == \A f \in Sealed(d) \cap Covered : d.seal[f] = k

\* reencrypt_secrets: the covered fields move to key `k`.
BUG_Reseal(d, k) == d
Reseal(d, k) ==
  [d EXCEPT !.seal = [f \in Secrets |-> IF f \in Sealed(d) \cap Covered THEN k ELSE d.seal[f]]]

\* read_disk_key, NoKey when it fails.
BUG_DiskKey == disk
DiskKey == IF disk \in Keys THEN disk ELSE NoKey

\* A generated key is none that is stored anywhere.
FreshKeys ==
  {k \in Keys : /\ k \notin {keyring, disk, session}
                /\ \A f \in Secrets : k \notin {doc.seal[f], bak.seal[f], pending.seal[f]}}

\* The boot ends with `k` seeded (NoKey: Fatal or an error; the app still starts).
Wired(k) ==
  /\ pc' = "run"
  /\ session' = k

-----------------------------------------------------------------------------
(* migrate_or_initialize without a keyring: path_c_disk_fallback *)

FallbackToDisk ==
  /\ pc = "off" /\ "no_keyring" \in faults
  /\ disk # NoKey
  /\ Wired(DiskKey)
  /\ UNCHANGED <<faults, durable, path, pending>>

\* Covered ciphertext and no key at all: safe mode, no key is minted.
FallbackFatal ==
  /\ pc = "off" /\ "no_keyring" \in faults
  /\ disk = NoKey /\ HasSecrets(doc)
  /\ Wired(NoKey)
  /\ UNCHANGED <<faults, durable, path, pending>>

FallbackMint ==
  /\ pc = "off" /\ "no_keyring" \in faults
  /\ disk = NoKey /\ ~HasSecrets(doc)
  /\ \E k \in FreshKeys : disk' = k /\ Wired(k)
  /\ UNCHANGED <<faults, keyring, doc, bak, path, pending>>

-----------------------------------------------------------------------------
(* migrate_or_initialize with a keyring *)

ReadError ==
  /\ pc \in {"off", "verifyNew", "verifyMigrated", "reseal"} /\ "read_err" \in faults
  /\ Wired(NoKey)
  /\ UNCHANGED <<faults, durable, path, pending>>

FromKeyring ==
  /\ pc = "off" /\ keyring # NoKey /\ disk = NoKey
  /\ Wired(keyring)
  /\ UNCHANGED <<faults, durable, path, pending>>

\* Path A.  Set and readback failures end the boot with an error.
NewFatal ==
  /\ pc = "off" /\ keyring = NoKey /\ disk = NoKey /\ HasSecrets(doc)
  /\ Wired(NoKey)
  /\ UNCHANGED <<faults, durable, path, pending>>

NewMint ==
  /\ pc = "off" /\ keyring = NoKey /\ disk = NoKey /\ ~HasSecrets(doc)
  /\ keyring' \in FreshKeys
  /\ pc' = "verifyNew"
  /\ UNCHANGED <<faults, disk, doc, bak, path, session, pending>>

NewMintFails ==
  /\ pc = "off" /\ keyring = NoKey /\ disk = NoKey /\ ~HasSecrets(doc)
  /\ faults \cap {"set_err", "set_lost"} # {}
  /\ Wired(NoKey)
  /\ UNCHANGED <<faults, durable, path, pending>>

NewVerified ==
  /\ pc = "verifyNew"
  /\ Wired(keyring)
  /\ UNCHANGED <<faults, durable, path, pending>>

\* Path B, in the order (c) probe, (a) set, (b) readback, (d) secure delete.
MigrateUnreadable ==
  /\ pc = "off" /\ keyring = NoKey /\ disk = Zeroed
  /\ Wired(NoKey)
  /\ UNCHANGED <<faults, durable, path, pending>>

\* The probe, the set or the readback fails: the `.key` stays and is used.
MigrateDeferred ==
  /\ pc = "off" /\ keyring = NoKey /\ disk \in Keys
  /\ ~Opens(disk, doc) \/ faults \cap {"set_err", "set_lost"} # {}
  /\ Wired(disk)
  /\ UNCHANGED <<faults, durable, path, pending>>

BUG_MigrateSet ==
  /\ pc = "off" /\ keyring = NoKey /\ disk \in Keys /\ Opens(disk, doc)
  /\ keyring' \in FreshKeys
  /\ pc' = "verifyMigrated"
  /\ UNCHANGED <<faults, disk, doc, bak, path, session, pending>>
MigrateSet ==
  /\ pc = "off" /\ keyring = NoKey /\ disk \in Keys /\ Opens(disk, doc)
  /\ keyring' = disk
  /\ pc' = "verifyMigrated"
  /\ UNCHANGED <<faults, disk, doc, bak, path, session, pending>>

MigrateVerified ==
  /\ pc = "verifyMigrated"
  /\ path' = "migrate"
  /\ pc' = "retire"
  /\ UNCHANGED <<faults, durable, session, pending>>

-----------------------------------------------------------------------------
(* rekey_after_disk_exposure: a keyring entry and a `.key` *)

Exposed == pc = "off" /\ keyring # NoKey /\ disk # NoKey
\* The `.key` is the recovery anchor of everything there is to protect.
BUG_Anchored == TRUE
Anchored == HasSecrets(doc) => disk \in Keys /\ Opens(disk, doc)

\* The `.key` opens nothing and the keyring key opens everything: a leftover.
StaleKey ==
  /\ Exposed /\ ~Anchored /\ Opens(keyring, doc)
  /\ path' = "stale"
  /\ pc' = "retire"
  /\ UNCHANGED <<faults, durable, session, pending>>

\* Neither key opens the document: keep both.
KeepBoth ==
  /\ Exposed /\ ~Anchored /\ ~Opens(keyring, doc)
  /\ Wired(keyring)
  /\ UNCHANGED <<faults, durable, path, pending>>

\* Step 1 fails: the session runs on the key that opens the document.
BUG_RekeyDeferred ==
  /\ Exposed /\ Anchored /\ faults \cap {"set_err", "set_lost"} # {}
  /\ Wired(keyring)
  /\ UNCHANGED <<faults, durable, path, pending>>
RekeyDeferred ==
  /\ Exposed /\ Anchored /\ faults \cap {"set_err", "set_lost"} # {}
  /\ Wired(IF HasSecrets(doc) THEN disk ELSE keyring)
  /\ UNCHANGED <<faults, durable, path, pending>>

RekeySet ==
  /\ Exposed /\ Anchored
  /\ keyring' \in FreshKeys
  /\ pc' = "reseal"
  /\ UNCHANGED <<faults, disk, doc, bak, path, session, pending>>

\* Step 2, and step 3's way in.  Without covered ciphertext nothing is published.
ResealPublished ==
  /\ pc = "reseal" /\ HasSecrets(doc)
  /\ doc' = Reseal(doc, keyring)
  /\ pc' = "dropBackup"
  /\ UNCHANGED <<faults, keyring, disk, bak, path, session, pending>>

ResealFailed ==
  /\ pc = "reseal" /\ HasSecrets(doc) /\ "publish_err" \in faults
  /\ Wired(disk)
  /\ UNCHANGED <<faults, durable, path, pending>>

NothingToReseal ==
  /\ pc = "reseal" /\ ~HasSecrets(doc)
  /\ path' = "rekey"
  /\ pc' = "retire"
  /\ UNCHANGED <<faults, durable, session, pending>>

\* A backup that cannot be removed stays, under the key that is retired.
DropBackup ==
  /\ pc = "dropBackup"
  /\ bak' = Absent \/ ("delete_err" \in faults /\ UNCHANGED bak)
  /\ path' = "rekey"
  /\ pc' = "retire"
  /\ UNCHANGED <<faults, keyring, disk, doc, session, pending>>

-----------------------------------------------------------------------------
(* secure_delete: overwrite, then unlink *)

Overwrite ==
  /\ pc = "retire"
  /\ disk' = Zeroed
  /\ pc' = "unlink"
  /\ UNCHANGED <<faults, keyring, doc, bak, path, session, pending>>

Unlink ==
  /\ pc = "unlink"
  /\ disk' = NoKey
  /\ path' = "none"
  /\ Wired(keyring)
  /\ UNCHANGED <<faults, keyring, doc, bak, pending>>

\* Rekey only logs the failure; Path B returns it, and no key is seeded.
RetireFailed ==
  /\ pc \in {"retire", "unlink"} /\ "delete_err" \in faults
  /\ path' = "none"
  /\ Wired(IF path = "migrate" THEN NoKey ELSE keyring)
  /\ UNCHANGED <<faults, durable, pending>>

-----------------------------------------------------------------------------
(* The running application *)

\* load_storage_raw: put a missing document back from its backup, or give a
\* document that has none a backup.
Load ==
  /\ pc = "run"
  /\ IF doc.kind = "absent"
       THEN doc' = (IF bak.kind = "held" THEN bak ELSE Empty) /\ UNCHANGED bak
       ELSE doc.kind = "held" /\ bak.kind = "absent" /\ bak' = doc /\ UNCHANGED doc
  /\ UNCHANGED <<faults, keyring, disk, pc, path, session, pending>>

\* master_key() without a seeded key: crypto::get_or_create_key mints a `.key`
\* for a connect or a save, unless covered ciphertext would be orphaned.
GetOrCreateKey ==
  /\ pc = "run" /\ session = NoKey /\ doc.kind # "absent"
  /\ disk = NoKey /\ ~HasSecrets(doc)
  /\ disk' \in FreshKeys
  /\ UNCHANGED <<faults, keyring, doc, bak, pc, path, session, pending>>

\* save_storage_raw up to its first rename: what it replaces becomes the
\* backup, when it holds something.
BUG_SaveWithoutBackup(new) ==
  /\ pending' = new
  /\ doc' = IF doc.kind = "held" THEN Absent ELSE doc
  /\ pc' = "publish"
  /\ UNCHANGED <<faults, keyring, disk, bak, path, session>>
Save(new) ==
  /\ pending' = new
  /\ IF doc.kind = "held" THEN bak' = doc /\ doc' = Absent ELSE UNCHANGED <<doc, bak>>
  /\ pc' = "publish"
  /\ UNCHANGED <<faults, keyring, disk, path, session>>

\* The key a save seals with.
SealingKey == IF session # NoKey THEN session ELSE DiskKey

\* save_connection_with_wallet: seal one field, clear one, or keep them all.
SaveSecret(f) ==
  /\ pc = "run" /\ doc.kind # "absent"
  /\ SealingKey # NoKey
  /\ Save(Held([doc.seal EXCEPT ![f] = SealingKey]))

ClearSecret(f) ==
  /\ pc = "run" /\ doc.kind # "absent"
  /\ Save(Held([doc.seal EXCEPT ![f] = NoKey]))

SavePlain ==
  /\ pc = "run" /\ doc.kind # "absent"
  /\ Save(Held(doc.seal))

\* delete_connection, of the last one.
DeleteConnection ==
  /\ pc = "run" /\ doc.kind = "held"
  /\ Save(Empty)

\* The second rename, or its failure.
SavePublished ==
  /\ pc = "publish"
  /\ doc' = pending
  /\ pending' = Absent
  /\ pc' = "run"
  /\ UNCHANGED <<faults, keyring, disk, bak, path, session>>

SaveFailed ==
  /\ pc = "publish" /\ "torn_save" \in faults
  /\ pending' = Absent
  /\ pc' = "run"
  /\ UNCHANGED <<faults, durable, path, session>>

Stop ==
  /\ \/ pc = "run"
     \/ pc = "publish" /\ "torn_save" \in faults
     \/ pc \notin {"off", "run", "publish"} /\ "crash_boot" \in faults
  /\ pc' = "off" /\ path' = "none" /\ session' = NoKey /\ pending' = Absent
  /\ UNCHANGED <<faults, durable>>

\* Between two boots the entry is gone: a profile copied to another machine, a
\* keyring that was reset.
LoseKeyring ==
  /\ pc = "off" /\ keyring # NoKey /\ "keyring_lost" \in faults
  /\ keyring' = NoKey
  /\ UNCHANGED <<faults, disk, doc, bak, pc, path, session, pending>>

-----------------------------------------------------------------------------

Fallback == FallbackToDisk \/ FallbackFatal \/ FallbackMint
NewInstall == NewFatal \/ NewMint \/ NewMintFails \/ NewVerified
Migrate == MigrateUnreadable \/ MigrateDeferred \/ MigrateSet \/ MigrateVerified
Rekey ==
  \/ StaleKey \/ KeepBoth \/ RekeyDeferred \/ RekeySet
  \/ ResealPublished \/ ResealFailed \/ NothingToReseal \/ DropBackup
Retire == Overwrite \/ Unlink \/ RetireFailed
Use ==
  \/ Load \/ GetOrCreateKey \/ SavePlain \/ DeleteConnection \/ SavePublished \/ SaveFailed
  \/ \E f \in Secrets : SaveSecret(f) \/ ClearSecret(f)

Next ==
  \/ Fallback \/ ReadError \/ FromKeyring \/ NewInstall \/ Migrate \/ Rekey \/ Retire \/ Use \/ Stop
  \/ LoseKeyring

Spec == Init /\ [][Next]_vars

-----------------------------------------------------------------------------
(* Safety *)

\* The document the next load returns.
Recoverable == IF doc.kind = "absent" THEN bak ELSE doc

\* No secret is ever orphaned: whatever happens between two durable writes, the
\* key that seals it is still in the keyring or in a readable `.key`.
NoOrphan ==
  \A f \in Sealed(Recoverable) : Recoverable.seal[f] \in {keyring, disk}

\* Executions whose keyring stays reachable and whose boots run to their end;
\* the keyring may refuse writes, and saves may be torn.
Steady == faults \subseteq {"set_err", "set_lost", "torn_save"}

\* In steady executions no secret is orphaned at all; in those whose saves are
\* whole and whose keyring is not reset none that the migration covers.
SecretsStored ==
  /\ Steady => NoOrphan
  /\ faults \cap {"torn_save", "keyring_lost"} = {} =>
       \A f \in Sealed(Recoverable) \cap Covered : Recoverable.seal[f] \in {keyring, disk}

\* A key that was exposed on disk is no longer in use when the boot that
\* discards it deletes the file, nor if the deletion fails.
RetiredOpensNothing ==
  path \in {"rekey", "stale"} => \A f \in Sealed(doc) \cap Covered : doc.seal[f] # disk

\* A session never runs on a key that does not open the saved secrets, while
\* the keyring is reachable at every boot: one secret that does not open makes
\* every connect fail.
SessionOpens ==
  Steady /\ pc = "run" /\ session # NoKey =>
    \A f \in Sealed(Recoverable) : Recoverable.seal[f] = session

\* The store is atomic under any faults: what a load returns, connections and
\* the secrets they have, changes only when a save publishes all of its document;
\* a boot, a migration or a rekey changes neither.
Content(d) == [connections |-> d.kind = "held", secrets |-> Sealed(d)]
Saved == Content(Recoverable)
Draft == IF pc = "publish" THEN {Content(pending)} ELSE {}
Store == INSTANCE AtomicStore WITH
  Contents <- [connections : BOOLEAN, secrets : SUBSET Secrets], saved <- Saved, draft <- Draft
SavesAreAtomic == Store!Spec

\* Executions whose keyring answers every read and whose saves are whole. Boots
\* may be cut short and deletions fail, or the keyring be reset between boots; not
\* both, since after a reset Path B would trust whatever `.key` was left behind.
Orderly ==
  /\ faults \cap {"no_keyring", "read_err", "torn_save"} = {}
  /\ "keyring_lost" \in faults => faults \cap {"crash_boot", "delete_err"} = {}

\* A save never leaves the covered secrets of the connections under two keys: the
\* key it would seal with, seeded or read from the `.key`, opens what a load
\* returns, whatever boots, deferred rekeys and resets came before.
SealsMatch ==
  Orderly /\ pc = "run" /\ SealingKey # NoKey => Opens(SealingKey, Recoverable)

=============================================================================
