------------------------ MODULE KeyMigration_proofs ------------------------
(***************************************************************************)
(* Safety of KeyMigration for any keys, any secret fields and any faults.  *)
(***************************************************************************)
EXTENDS KeyMigration, TLAPS

-----------------------------------------------------------------------------
(* Types *)

LEMMA FileTypes ==
  /\ Absent \in Files /\ Empty \in Files
  /\ \A s \in Seals : Held(s) \in Files
  /\ \A d \in Files, k \in Keys : Reseal(d, k) \in Files
  BY DEF Files, Absent, Empty, Held, Seals, NoSeal, Reseal

\* Once the keyring entry is overwritten, what there is to protect can still be
\* read with the `.key` (the comment before step 1 of rekey_after_disk_exposure).
AnchorHeld ==
  pc = "reseal" => /\ keyring \in Keys
                   /\ HasSecrets(doc) => disk \in Keys /\ Opens(disk, doc)

Typing == TypeOK /\ AnchorHeld

LEMMA TypingInit == Init => Typing
  BY FileTypes DEF Init, Typing, TypeOK, AnchorHeld, Pcs, Seals

LEMMA TypingStep == Typing /\ [Next]_vars => Typing'
<1> SUFFICES ASSUME Typing, [Next]_vars PROVE Typing'
  OBVIOUS
<1> USE KeyAssumption, FileTypes DEF Typing, TypeOK, AnchorHeld, Pcs
<1>1. CASE FallbackToDisk
  BY <1>1 DEF FallbackToDisk, durable, Wired, DiskKey
<1>2. CASE FallbackFatal
  BY <1>2 DEF FallbackFatal, durable, Wired
<1>3. CASE FallbackMint
  BY <1>3 DEF FallbackMint, Wired, FreshKeys
<1>4. CASE ReadError
  BY <1>4 DEF ReadError, durable, Wired
<1>5. CASE FromKeyring
  BY <1>5 DEF FromKeyring, durable, Wired
<1>6. CASE NewFatal
  BY <1>6 DEF NewFatal, durable, Wired
<1>7. CASE NewMint
  BY <1>7 DEF NewMint, FreshKeys
<1>8. CASE NewMintFails
  BY <1>8 DEF NewMintFails, durable, Wired
<1>9. CASE NewVerified
  BY <1>9 DEF NewVerified, durable, Wired
<1>10. CASE MigrateUnreadable
  BY <1>10 DEF MigrateUnreadable, durable, Wired
<1>11. CASE MigrateDeferred
  BY <1>11 DEF MigrateDeferred, durable, Wired
<1>12. CASE MigrateSet
  BY <1>12 DEF MigrateSet
<1>13. CASE MigrateVerified
  BY <1>13 DEF MigrateVerified, durable
<1>14. CASE StaleKey
  BY <1>14 DEF StaleKey, durable, Exposed, Anchored
<1>15. CASE KeepBoth
  BY <1>15 DEF KeepBoth, durable, Wired, Exposed
<1>16. CASE RekeyDeferred
  BY <1>16 DEF RekeyDeferred, durable, Wired, Exposed, Anchored
<1>17. CASE RekeySet
  BY <1>17 DEF RekeySet, FreshKeys, Exposed, Anchored, HasSecrets, Opens
<1>18. CASE ResealPublished
  <2>1. keyring \in Keys
    BY <1>18 DEF ResealPublished
  <2> QED
    BY <1>18, <2>1 DEF ResealPublished
<1>19. CASE ResealFailed
  BY <1>19 DEF ResealFailed, durable, Wired
<1>20. CASE NothingToReseal
  BY <1>20 DEF NothingToReseal, durable
<1>21. CASE DropBackup
  BY <1>21 DEF DropBackup, Absent
<1>22. CASE Overwrite
  BY <1>22 DEF Overwrite
<1>23. CASE Unlink
  BY <1>23 DEF Unlink, Wired
<1>24. CASE RetireFailed
  BY <1>24 DEF RetireFailed, durable, Wired
<1>25. CASE Load
  BY <1>25 DEF Load, Empty
<1>26. CASE GetOrCreateKey
  BY <1>26 DEF GetOrCreateKey, FreshKeys
<1>27. CASE SavePlain
  <2>1. doc.seal \in Seals
    BY DEF Files
  <2> QED
    BY <1>27, <2>1 DEF SavePlain, Save
<1>28. CASE DeleteConnection
  BY <1>28 DEF DeleteConnection, Save, Empty, Absent
<1>29. CASE SavePublished
  BY <1>29 DEF SavePublished, Absent
<1>30. CASE SaveFailed
  BY <1>30 DEF SaveFailed, durable, Absent
<1>31. ASSUME NEW f \in Secrets, SaveSecret(f) PROVE Typing'
  <2>1. [doc.seal EXCEPT ![f] = SealingKey] \in Seals
    BY <1>31 DEF SaveSecret, SealingKey, DiskKey, Files, Seals
  <2> QED
    BY <1>31, <2>1 DEF SaveSecret, Save
<1>32. ASSUME NEW f \in Secrets, ClearSecret(f) PROVE Typing'
  <2>1. [doc.seal EXCEPT ![f] = NoKey] \in Seals
    BY DEF Files, Seals
  <2> QED
    BY <1>32, <2>1 DEF ClearSecret, Save
<1>33. CASE Stop
  BY <1>33 DEF Stop, durable, Absent
<1>34. CASE LoseKeyring
  BY <1>34 DEF LoseKeyring
<1>35. CASE UNCHANGED vars
  BY <1>35 DEF vars
<1> QED
  BY <1>1, <1>2, <1>3, <1>4, <1>5, <1>6, <1>7, <1>8, <1>9, <1>10, <1>11, <1>12,
     <1>13, <1>14, <1>15, <1>16, <1>17, <1>18, <1>19, <1>20, <1>21, <1>22, <1>23,
     <1>24, <1>25, <1>26, <1>27, <1>28, <1>29, <1>30, <1>31, <1>32, <1>33, <1>34, <1>35 DEF
     Next, Fallback, NewInstall, Migrate, Rekey, Retire, Use

LEMMA TypingInvariant == Spec => []Typing
<1> QED
  BY TypingInit, TypingStep, PTL DEF Spec

\* Every variable keeps its type: no session is seeded with a `.key` that was
\* being deleted, and no file holds what a key could not have sealed.
THEOREM TypeCorrect == Spec => []TypeOK
<1>1. Typing => TypeOK
  BY DEF Typing
<1> QED
  BY <1>1, TypingInvariant, PTL

-----------------------------------------------------------------------------
(* A retired key opens nothing *)

\* From the resealing to the deletion the two keys differ, and the document is
\* under the one in the keyring before the other is touched.
Retiring ==
  /\ pc = "dropBackup" => keyring \in Keys
  /\ pc \in {"dropBackup", "retire", "unlink"} => Opens(keyring, doc)
  /\ pc \in {"reseal", "dropBackup"} => keyring # disk
  /\ pc = "verifyMigrated" => keyring = disk /\ Opens(keyring, doc)
  /\ path \in {"rekey", "stale"} =>
       pc \in {"retire", "unlink"} /\ (HasSecrets(doc) => keyring # disk)

LEMMA RetiringInit == Init => Retiring
  BY DEF Init, Retiring

LEMMA RetiringStep == Typing /\ Retiring /\ [Next]_vars => Retiring'
<1> SUFFICES ASSUME Typing, Retiring, [Next]_vars PROVE Retiring'
  OBVIOUS
<1> USE KeyAssumption DEF Typing, TypeOK, AnchorHeld, Pcs, Retiring, Opens, HasSecrets, Sealed
<1>1. CASE FallbackToDisk
  BY <1>1 DEF FallbackToDisk, durable, Wired, DiskKey
<1>2. CASE FallbackFatal
  BY <1>2 DEF FallbackFatal, durable, Wired
<1>3. CASE FallbackMint
  BY <1>3 DEF FallbackMint, Wired, FreshKeys
<1>4. CASE ReadError
  BY <1>4 DEF ReadError, durable, Wired
<1>5. CASE FromKeyring
  BY <1>5 DEF FromKeyring, durable, Wired
<1>6. CASE NewFatal
  BY <1>6 DEF NewFatal, durable, Wired
<1>7. CASE NewMint
  BY <1>7 DEF NewMint, FreshKeys
<1>8. CASE NewMintFails
  BY <1>8 DEF NewMintFails, durable, Wired
<1>9. CASE NewVerified
  BY <1>9 DEF NewVerified, durable, Wired
<1>10. CASE MigrateUnreadable
  BY <1>10 DEF MigrateUnreadable, durable, Wired
<1>11. CASE MigrateDeferred
  BY <1>11 DEF MigrateDeferred, durable, Wired
<1>12. CASE MigrateSet
  BY <1>12 DEF MigrateSet
<1>13. CASE MigrateVerified
  BY <1>13 DEF MigrateVerified, durable
<1>14. CASE StaleKey
  BY <1>14 DEF StaleKey, durable, Exposed, Anchored
<1>15. CASE KeepBoth
  BY <1>15 DEF KeepBoth, durable, Wired, Exposed
<1>16. CASE RekeyDeferred
  BY <1>16 DEF RekeyDeferred, durable, Wired, Exposed, Anchored
<1>17. CASE RekeySet
  BY <1>17 DEF RekeySet, FreshKeys, Exposed, Anchored, HasSecrets, Opens
<1>18. CASE ResealPublished
  BY <1>18 DEF ResealPublished, Reseal
<1>19. CASE ResealFailed
  BY <1>19 DEF ResealFailed, durable, Wired
<1>20. CASE NothingToReseal
  BY <1>20 DEF NothingToReseal, durable
<1>21. CASE DropBackup
  BY <1>21 DEF DropBackup, Absent
<1>22. CASE Overwrite
  BY <1>22 DEF Overwrite
<1>23. CASE Unlink
  BY <1>23 DEF Unlink, Wired
<1>24. CASE RetireFailed
  BY <1>24 DEF RetireFailed, durable, Wired
<1>25. CASE Load
  BY <1>25 DEF Load, Empty
<1>26. CASE GetOrCreateKey
  BY <1>26 DEF GetOrCreateKey, FreshKeys
<1>27. CASE SavePlain
  BY <1>27 DEF SavePlain, Save, Held, Absent
<1>28. CASE DeleteConnection
  BY <1>28 DEF DeleteConnection, Save, Empty, Absent
<1>29. CASE SavePublished
  BY <1>29 DEF SavePublished, Absent
<1>30. CASE SaveFailed
  BY <1>30 DEF SaveFailed, durable, Absent
<1>31. ASSUME NEW f \in Secrets, SaveSecret(f) PROVE Retiring'
  BY <1>31 DEF SaveSecret, Save, Held, Absent, SealingKey, DiskKey
<1>32. ASSUME NEW f \in Secrets, ClearSecret(f) PROVE Retiring'
  BY <1>32 DEF ClearSecret, Save, Held, Absent
<1>33. CASE Stop
  BY <1>33 DEF Stop, durable, Absent
<1>34. CASE LoseKeyring
  BY <1>34 DEF LoseKeyring
<1>35. CASE UNCHANGED vars
  BY <1>35 DEF vars
<1> QED
  BY <1>1, <1>2, <1>3, <1>4, <1>5, <1>6, <1>7, <1>8, <1>9, <1>10, <1>11, <1>12,
     <1>13, <1>14, <1>15, <1>16, <1>17, <1>18, <1>19, <1>20, <1>21, <1>22, <1>23,
     <1>24, <1>25, <1>26, <1>27, <1>28, <1>29, <1>30, <1>31, <1>32, <1>33, <1>34, <1>35 DEF
     Next, Fallback, NewInstall, Migrate, Rekey, Retire, Use

LEMMA RetiringInvariant == Spec => [](Typing /\ Retiring)
<1> QED
  BY TypingInvariant, RetiringInit, RetiringStep, PTL DEF Spec

\* While a boot deletes an exposed `.key`, and when it fails to, no covered
\* secret is sealed with it, whatever the faults.
THEOREM RetiredKeyIsDead == Spec => []RetiredOpensNothing
<1>1. Typing /\ Retiring => RetiredOpensNothing
  BY KeyAssumption DEF Typing, TypeOK, Retiring, RetiredOpensNothing, HasSecrets, Opens, Sealed,
     Files, Seals
<1> QED
  BY <1>1, RetiringInvariant, PTL

-----------------------------------------------------------------------------
(* No secret is orphaned *)

\* The covered secrets of a document are sealed with keys that are kept.
Kept(d) == \A f \in Sealed(d) \cap Covered : d.seal[f] \in {keyring, disk}

\* What a save or a load can make of the files has its covered secrets under keys
\* that are kept, and a session seals with a key that is kept.
Preserved ==
  /\ \A d \in {doc, bak, pending} : d.kind # "held" => d.seal = NoSeal
  /\ Kept(doc)
  /\ pc = "publish" /\ doc.kind = "absent" => Kept(bak)
  /\ pc = "publish" => Kept(pending) /\ pending.kind # "absent"
  /\ pc # "publish" /\ doc.kind = "absent" => bak.kind # "held"
  /\ session # NoKey => pc \in {"run", "publish"} /\ session \in {keyring, disk}

LEMMA PreservedInit == Init => Preserved
  BY DEF Init, Preserved, Kept, Sealed, Held, Absent, NoSeal

\* The executions in which no save stops between its renames and no keyring is reset.
Whole == faults \cap {"torn_save", "keyring_lost"} = {}

LEMMA FaultsAreFixed == [Next]_vars => faults' = faults
<1> USE DEF durable
<1>1. Fallback \/ ReadError \/ FromKeyring \/ NewInstall \/ Migrate => faults' = faults
  BY DEF Fallback, FallbackToDisk, FallbackFatal, FallbackMint, ReadError, FromKeyring, NewInstall,
     NewFatal, NewMint, NewMintFails, NewVerified, Migrate, MigrateUnreadable, MigrateDeferred,
     MigrateSet, MigrateVerified
<1>2. Rekey \/ Retire => faults' = faults
  BY DEF Rekey, StaleKey, KeepBoth, RekeyDeferred, RekeySet, ResealPublished, ResealFailed,
     NothingToReseal, DropBackup, Retire, Overwrite, Unlink, RetireFailed
<1>3. Use \/ Stop \/ LoseKeyring => faults' = faults
  BY DEF Use, Load, GetOrCreateKey, SavePlain, DeleteConnection, SavePublished, SaveFailed,
     SaveSecret, ClearSecret, Save, Stop, LoseKeyring
<1> QED
  BY <1>1, <1>2, <1>3 DEF Next, vars

LEMMA PreservedStep ==
  /\ Whole
  /\ Typing /\ Retiring /\ Preserved /\ [Next]_vars
  => Preserved'
<1> SUFFICES ASSUME faults \cap {"torn_save", "keyring_lost"} = {}, Typing, Retiring, Preserved,
                    [Next]_vars
             PROVE  Preserved'
  BY DEF Whole
<1> USE KeyAssumption DEF Typing, TypeOK, AnchorHeld, Pcs, Retiring, Preserved, Kept, Opens,
        HasSecrets, Sealed, Files, Seals, NoSeal
<1>1. CASE FallbackToDisk
  BY <1>1 DEF FallbackToDisk, durable, Wired, DiskKey
<1>2. CASE FallbackFatal
  BY <1>2 DEF FallbackFatal, durable, Wired
<1>3. CASE FallbackMint
  BY <1>3 DEF FallbackMint, Wired, FreshKeys
<1>4. CASE ReadError
  BY <1>4 DEF ReadError, durable, Wired
<1>5. CASE FromKeyring
  BY <1>5 DEF FromKeyring, durable, Wired
<1>6. CASE NewFatal
  BY <1>6 DEF NewFatal, durable, Wired
<1>7. CASE NewMint
  BY <1>7 DEF NewMint, FreshKeys
<1>8. CASE NewMintFails
  BY <1>8 DEF NewMintFails, durable, Wired
<1>9. CASE NewVerified
  BY <1>9 DEF NewVerified, durable, Wired
<1>10. CASE MigrateUnreadable
  BY <1>10 DEF MigrateUnreadable, durable, Wired
<1>11. CASE MigrateDeferred
  BY <1>11 DEF MigrateDeferred, durable, Wired
<1>12. CASE MigrateSet
  BY <1>12 DEF MigrateSet
<1>13. CASE MigrateVerified
  BY <1>13 DEF MigrateVerified, durable
<1>14. CASE StaleKey
  BY <1>14 DEF StaleKey, durable, Exposed, Anchored
<1>15. CASE KeepBoth
  BY <1>15 DEF KeepBoth, durable, Wired, Exposed
<1>16. CASE RekeyDeferred
  BY <1>16 DEF RekeyDeferred, durable, Wired, Exposed, Anchored
<1>17. CASE RekeySet
  BY <1>17 DEF RekeySet, FreshKeys, Exposed, Anchored, HasSecrets, Opens
<1>18. CASE ResealPublished
  BY <1>18 DEF ResealPublished, Reseal
<1>19. CASE ResealFailed
  BY <1>19 DEF ResealFailed, durable, Wired
<1>20. CASE NothingToReseal
  BY <1>20 DEF NothingToReseal, durable
<1>21. CASE DropBackup
  BY <1>21 DEF DropBackup, Absent
<1>22. CASE Overwrite
  BY <1>22 DEF Overwrite
<1>23. CASE Unlink
  BY <1>23 DEF Unlink, Wired
<1>24. CASE RetireFailed
  BY <1>24 DEF RetireFailed, durable, Wired
<1>25. CASE Load
  BY <1>25 DEF Load, Empty
<1>26. CASE GetOrCreateKey
  BY <1>26 DEF GetOrCreateKey, FreshKeys
<1>27. CASE SavePlain
  BY <1>27 DEF SavePlain, Save, Held, Absent
<1>28. CASE DeleteConnection
  BY <1>28 DEF DeleteConnection, Save, Empty, Absent
<1>29. CASE SavePublished
  BY <1>29 DEF SavePublished, Absent
<1>30. CASE SaveFailed
  BY <1>30 DEF SaveFailed, durable, Absent
<1>31. ASSUME NEW f \in Secrets, SaveSecret(f) PROVE Preserved'
  BY <1>31 DEF SaveSecret, Save, Held, Absent, SealingKey, DiskKey
<1>32. ASSUME NEW f \in Secrets, ClearSecret(f) PROVE Preserved'
  BY <1>32 DEF ClearSecret, Save, Held, Absent
<1>33. CASE Stop
  BY <1>33 DEF Stop, durable, Absent
<1>34. CASE LoseKeyring
  BY <1>34 DEF LoseKeyring
<1>35. CASE UNCHANGED vars
  BY <1>35 DEF vars
<1> QED
  BY <1>1, <1>2, <1>3, <1>4, <1>5, <1>6, <1>7, <1>8, <1>9, <1>10, <1>11, <1>12,
     <1>13, <1>14, <1>15, <1>16, <1>17, <1>18, <1>19, <1>20, <1>21, <1>22, <1>23,
     <1>24, <1>25, <1>26, <1>27, <1>28, <1>29, <1>30, <1>31, <1>32, <1>33, <1>34, <1>35 DEF
     Next, Fallback, NewInstall, Migrate, Rekey, Retire, Use

LEMMA PreservedInvariant == Spec => [](Typing /\ (Whole => Preserved))
<1>1. Typing /\ Retiring /\ (Whole => Preserved) /\ [Next]_vars => (Whole => Preserved)'
  BY PreservedStep, FaultsAreFixed DEF Whole
<1> QED
  BY <1>1, RetiringInvariant, PreservedInit, PTL DEF Spec

-----------------------------------------------------------------------------
(* Where every boot runs to its end there is one key *)

TheKey == IF keyring # NoKey THEN keyring ELSE disk

\* The executions whose boots run to their end with the keyring at hand.
Complete == faults \cap {"no_keyring", "read_err", "delete_err", "crash_boot"} = {}

\* The `.key` and the keyring entry exist together only inside the migration of
\* the one into the other.
OneKey ==
  /\ pc \notin {"reseal", "dropBackup"}
  /\ pc \in {"off", "run", "publish"} => keyring = NoKey \/ disk = NoKey
  /\ pc = "verifyNew" => keyring \in Keys /\ disk = NoKey
  /\ pc \in {"verifyMigrated", "retire"} => keyring \in Keys /\ keyring = disk
  /\ pc = "unlink" => keyring \in Keys
  /\ pc # "unlink" => disk # Zeroed
  /\ session \in {NoKey, TheKey}
  /\ pc = "off" => session = NoKey
  /\ pc \in {"run", "publish"} /\ keyring # NoKey => session = keyring

LEMMA OneKeyInit == Init => OneKey
  BY KeyAssumption DEF Init, OneKey, TheKey

LEMMA OneKeyStep == Complete /\ Typing /\ OneKey /\ [Next]_vars => OneKey'
<1> SUFFICES ASSUME Complete, Typing, OneKey, [Next]_vars PROVE OneKey'
  OBVIOUS
<1> USE KeyAssumption DEF Typing, TypeOK, Pcs, Complete, OneKey, TheKey, durable
<1>1. CASE Fallback \/ ReadError
  BY <1>1 DEF Fallback, FallbackToDisk, FallbackFatal, FallbackMint, ReadError
<1>2. CASE FromKeyring
  BY <1>2 DEF FromKeyring, Wired
<1>3. CASE NewInstall
  BY <1>3 DEF NewInstall, NewFatal, NewMint, NewMintFails, NewVerified, Wired, FreshKeys
<1>4. CASE Migrate
  BY <1>4 DEF Migrate, MigrateUnreadable, MigrateDeferred, MigrateSet, MigrateVerified, Wired
<1>5. CASE Rekey
  BY <1>5 DEF Rekey, StaleKey, KeepBoth, RekeyDeferred, RekeySet, Exposed, ResealPublished,
     ResealFailed, NothingToReseal, DropBackup
<1>6. CASE Retire
  BY <1>6 DEF Retire, Overwrite, Unlink, RetireFailed, Wired
<1>7. CASE Load
  BY <1>7 DEF Load
<1>8. CASE GetOrCreateKey
  BY <1>8 DEF GetOrCreateKey, FreshKeys
<1>9. CASE SavePlain \/ DeleteConnection \/ \E f \in Secrets : SaveSecret(f) \/ ClearSecret(f)
  BY <1>9 DEF SavePlain, DeleteConnection, SaveSecret, ClearSecret, Save
<1>10. CASE SavePublished \/ SaveFailed
  BY <1>10 DEF SavePublished, SaveFailed
<1>11. CASE Stop
  BY <1>11 DEF Stop
<1>12. CASE LoseKeyring
  BY <1>12 DEF LoseKeyring
<1>13. CASE UNCHANGED vars
  BY <1>13 DEF vars
<1> QED
  BY <1>1, <1>2, <1>3, <1>4, <1>5, <1>6, <1>7, <1>8, <1>9, <1>10, <1>11, <1>12, <1>13
     DEF Next, Use

\* A save seals with the one key.
LEMMA SealsWithTheKey ==
  Typing /\ OneKey /\ pc = "run" /\ SealingKey # NoKey => SealingKey = TheKey
  BY KeyAssumption DEF Typing, TypeOK, OneKey, TheKey, SealingKey, DiskKey

\* In a steady execution everything that is sealed, in whatever file, is sealed
\* with that key.
OneSeal == \A d \in {doc, bak, pending} : \A f \in Secrets : d.seal[f] \in {NoKey, TheKey}

LEMMA OneSealInit == Init => OneSeal
  BY KeyAssumption DEF Init, OneSeal, TheKey, Held, Absent, NoSeal

LEMMA OneSealStep ==
  Steady /\ Typing /\ OneKey /\ OneSeal /\ [Next]_vars => OneSeal'
<1> SUFFICES ASSUME Steady, Typing, OneKey, OneSeal, [Next]_vars PROVE OneSeal'
  OBVIOUS
<1> USE KeyAssumption DEF Typing, TypeOK, Pcs, Steady, OneKey, OneSeal, TheKey, Files, Seals,
        NoSeal, HasSecrets, Opens, Sealed, durable
<1>1. CASE Fallback \/ ReadError
  BY <1>1 DEF Fallback, FallbackToDisk, FallbackFatal, FallbackMint, ReadError
<1>2. CASE FromKeyring
  BY <1>2 DEF FromKeyring, Wired
<1>3. CASE NewInstall
  BY <1>3 DEF NewInstall, NewFatal, NewMint, NewMintFails, NewVerified, Wired, FreshKeys
<1>4. CASE Migrate
  BY <1>4 DEF Migrate, MigrateUnreadable, MigrateDeferred, MigrateSet, MigrateVerified, Wired
<1>5. CASE Rekey
  BY <1>5 DEF Rekey, StaleKey, KeepBoth, RekeyDeferred, RekeySet, Exposed, ResealPublished,
     ResealFailed, NothingToReseal, DropBackup
<1>6. CASE Retire
  BY <1>6 DEF Retire, Overwrite, Unlink, RetireFailed, Wired
<1>7. CASE Load
  BY <1>7 DEF Load, Empty
<1>8. CASE GetOrCreateKey
  BY <1>8 DEF GetOrCreateKey, FreshKeys
<1>9. CASE SavePlain \/ DeleteConnection
  BY <1>9 DEF SavePlain, DeleteConnection, Save, Held, Empty, Absent
<1>10. CASE SavePublished \/ SaveFailed
  BY <1>10 DEF SavePublished, SaveFailed, Absent
<1>11. ASSUME NEW f \in Secrets, SaveSecret(f) PROVE OneSeal'
  <2>1. SealingKey = TheKey
    BY <1>11, SealsWithTheKey DEF SaveSecret
  <2>2. TheKey' = TheKey
    BY <1>11 DEF SaveSecret, Save
  <2>3. pending' = Held([doc.seal EXCEPT ![f] = TheKey]) /\ bak' \in {doc, bak}
        /\ doc' \in {doc, Absent}
    BY <1>11, <2>1 DEF SaveSecret, Save
  <2> QED
    BY <2>2, <2>3 DEF Held, Absent
<1>12. ASSUME NEW f \in Secrets, ClearSecret(f) PROVE OneSeal'
  BY <1>12 DEF ClearSecret, Save, Held, Absent
<1>13. CASE Stop
  BY <1>13 DEF Stop, Absent
<1>14. CASE LoseKeyring
  BY <1>14 DEF LoseKeyring
<1>15. CASE UNCHANGED vars
  BY <1>15 DEF vars
<1> QED
  BY <1>1, <1>2, <1>3, <1>4, <1>5, <1>6, <1>7, <1>8, <1>9, <1>10, <1>11, <1>12, <1>13, <1>14,
     <1>15 DEF Next, Use

LEMMA OneKeyInvariant ==
  Spec => [](Typing /\ (Complete => OneKey) /\ (Steady => OneKey /\ OneSeal))
<1>1. Steady => Complete
  BY DEF Steady, Complete
<1>2. Typing /\ (Complete => OneKey) /\ [Next]_vars => (Complete => OneKey)'
  BY OneKeyStep, FaultsAreFixed DEF Complete
<1>3. /\ Typing /\ (Complete => OneKey) /\ (Steady => OneKey /\ OneSeal)
      /\ [Next]_vars
      => (Steady => OneKey /\ OneSeal)'
  BY <1>1, OneKeyStep, OneSealStep, FaultsAreFixed DEF Steady
<1> QED
  BY <1>2, <1>3, TypingInvariant, OneKeyInit, OneSealInit, PTL DEF Spec

\* In steady executions every saved secret can be opened with the keyring entry or
\* the `.key`, because there is one key. Where boots may be cut short anywhere and
\* any call may fail, but no save stops between its renames and no keyring is
\* reset, so can every secret that SECRET_FIELDS lists.
THEOREM SecretsSurvive == Spec => []SecretsStored
<1>1. Typing /\ Preserved => Kept(Recoverable)
  BY DEF Typing, TypeOK, Preserved, Recoverable, Kept, Sealed, NoSeal
<1>2. Typing /\ OneSeal => NoOrphan
  BY DEF Typing, TypeOK, OneSeal, TheKey, NoOrphan, Recoverable, Sealed
<1>3. Typing /\ (Whole => Preserved) /\ (Steady => OneSeal) => SecretsStored
  BY <1>1, <1>2 DEF SecretsStored, Whole, Kept
<1> QED
  BY <1>3, PreservedInvariant, OneKeyInvariant, PTL

\* With a keyring that is reachable at every boot, though it may refuse writes, a
\* session never runs on a key that does not open what is saved.
THEOREM SessionsOpen == Spec => []SessionOpens
<1>1. Typing /\ (Steady => OneKey /\ OneSeal) => SessionOpens
  BY DEF Typing, TypeOK, OneKey, OneSeal, TheKey, SessionOpens, Recoverable, Sealed
<1> QED
  BY <1>1, OneKeyInvariant, PTL

-----------------------------------------------------------------------------
(* The files implement an atomic store *)

\* A document that holds no connection holds no secret; a save publishes a
\* document; and the backup goes only while there is a document.
Shaped ==
  /\ \A d \in {doc, bak, pending} : d.kind # "held" => d.seal = NoSeal
  /\ pc = "publish" => pending.kind # "absent"
  /\ pc = "dropBackup" => doc.kind = "held"

LEMMA ShapedInit == Init => Shaped
  BY DEF Init, Shaped, Held, Absent

LEMMA ShapedStep == Typing /\ Shaped /\ [Next]_vars => Shaped'
<1> SUFFICES ASSUME Typing, Shaped, [Next]_vars PROVE Shaped'
  OBVIOUS
<1> USE DEF Typing, TypeOK, Pcs, Shaped, Files, Seals, NoSeal, durable
<1>1. CASE Fallback \/ ReadError \/ FromKeyring \/ NewInstall \/ Migrate
  BY <1>1 DEF Fallback, FallbackToDisk, FallbackFatal, FallbackMint, ReadError, FromKeyring,
     NewInstall, NewFatal, NewMint, NewMintFails, NewVerified, Migrate, MigrateUnreadable,
     MigrateDeferred, MigrateSet, MigrateVerified, Wired
<1>2. CASE ResealPublished
  BY <1>2 DEF ResealPublished, Reseal, HasSecrets, Sealed
<1>3. CASE StaleKey \/ KeepBoth \/ RekeyDeferred \/ RekeySet \/ ResealFailed \/ NothingToReseal
  BY <1>3 DEF StaleKey, KeepBoth, RekeyDeferred, RekeySet, ResealFailed, NothingToReseal, Wired
<1>4. CASE DropBackup \/ Retire
  BY <1>4 DEF DropBackup, Retire, Overwrite, Unlink, RetireFailed, Wired, Absent
<1>5. CASE Load \/ GetOrCreateKey \/ SavePublished \/ SaveFailed
  BY <1>5 DEF Load, GetOrCreateKey, SavePublished, SaveFailed, Absent, Empty
<1>6. CASE SavePlain \/ DeleteConnection \/ \E f \in Secrets : SaveSecret(f) \/ ClearSecret(f)
  BY <1>6 DEF SavePlain, DeleteConnection, SaveSecret, ClearSecret, Save, Held, Absent, Empty
<1>7. CASE Stop \/ LoseKeyring \/ UNCHANGED vars
  BY <1>7 DEF Stop, LoseKeyring, vars, Absent
<1> QED
  BY <1>1, <1>2, <1>3, <1>4, <1>5, <1>6, <1>7 DEF Next, Rekey, Use

\* What a load returns has the content of one of the two files.
LEMMA StoreInit == Init => Store!Init
  BY DEF Init, Store!Init, Saved, Draft, Recoverable, Content, Sealed, Held, Absent

LEMMA ContentTyped ==
  \A d \in Files : Content(d) \in [connections : BOOLEAN, secrets : SUBSET Secrets]
  BY DEF Content, Sealed

LEMMA StoreStep == Typing /\ Shaped /\ [Next]_vars => [Store!Next]_(Store!vars)
<1> SUFFICES ASSUME Typing, Shaped, [Next]_vars PROVE [Store!Next]_(Store!vars)
  OBVIOUS
<1> USE DEF Typing, TypeOK, Pcs, Store!vars, Saved, Draft, Recoverable
<1>1. CASE Fallback \/ ReadError \/ FromKeyring \/ NewInstall \/ Migrate
  BY <1>1 DEF Fallback, FallbackToDisk, FallbackFatal, FallbackMint, ReadError, FromKeyring,
     NewInstall, NewFatal, NewMint, NewMintFails, NewVerified, Migrate, MigrateUnreadable,
     MigrateDeferred, MigrateSet, MigrateVerified, Wired, durable
<1>2. CASE ResealPublished
  <2>1. doc.kind = "held" /\ doc'.kind = "held"
    BY <1>2 DEF ResealPublished, Reseal, HasSecrets, Sealed, Shaped, NoSeal, Files
  <2>2. keyring \in Keys
    BY <1>2 DEF ResealPublished, AnchorHeld
  <2>3. Sealed(doc') = Sealed(doc)
    BY <1>2, <2>2, KeyAssumption DEF ResealPublished, Reseal, Sealed, Files, Seals
  <2> QED
    BY <1>2, <2>1, <2>3 DEF ResealPublished, Content
<1>3. CASE StaleKey \/ KeepBoth \/ RekeyDeferred \/ RekeySet \/ ResealFailed \/ NothingToReseal
  BY <1>3 DEF StaleKey, KeepBoth, RekeyDeferred, RekeySet, ResealFailed, NothingToReseal, Wired,
     Exposed, durable
<1>4. CASE DropBackup \/ Retire
  BY <1>4 DEF DropBackup, Retire, Overwrite, Unlink, RetireFailed, Wired, Shaped, durable
<1>5. CASE Load
  BY <1>5 DEF Load, Shaped, Content, Empty, Absent, Sealed, NoSeal, Files
<1>6. CASE GetOrCreateKey
  BY <1>6 DEF GetOrCreateKey
<1>7. CASE SavePlain \/ DeleteConnection \/ \E f \in Secrets : SaveSecret(f) \/ ClearSecret(f)
  <2>1. pc = "run" /\ pc' = "publish"
    BY <1>7 DEF SavePlain, DeleteConnection, SaveSecret, ClearSecret, Save
  <2>2. IF doc.kind = "held" THEN bak' = doc /\ doc' = Absent ELSE UNCHANGED <<doc, bak>>
    BY <1>7 DEF SavePlain, DeleteConnection, SaveSecret, ClearSecret, Save
  <2>4. Recoverable' = Recoverable
    BY <2>2 DEF Absent
  <2>3. pending' \in Files
    BY TypingStep
  <2> QED
    BY <2>1, <2>3, <2>4, ContentTyped DEF Content, Sealed, Store!Next, Store!Prepare
<1>8. CASE SavePublished
  BY <1>8 DEF SavePublished, Shaped, Store!Next, Store!Publish
<1>9. CASE SaveFailed
  BY <1>9 DEF SaveFailed, durable, Store!Next, Store!Discard
<1>10. CASE Stop
  BY <1>10 DEF Stop, durable, Store!Next, Store!Discard
<1>11. CASE LoseKeyring \/ UNCHANGED vars
  BY <1>11 DEF LoseKeyring, vars
<1> QED
  BY <1>1, <1>2, <1>3, <1>4, <1>5, <1>6, <1>7, <1>8, <1>9, <1>10, <1>11 DEF Next, Rekey, Use

\* Under any faults the two files and the temp file implement a store whose
\* content changes only when a save publishes all of it.
THEOREM FilesImplementStore == Spec => SavesAreAtomic
<1> QED
  BY TypingInvariant, ShapedInit, ShapedStep, StoreInit, StoreStep, PTL DEF Spec, Store!Spec,
     SavesAreAtomic

-----------------------------------------------------------------------------
(* A save seals with the key that opens what is saved *)

\* Some kept key opens all the covered secrets of a document.
Fits(d) ==
  HasSecrets(d) => \/ keyring \in Keys /\ Opens(keyring, d)
                   \/ disk \in Keys /\ Opens(disk, d)

\* The executions in which boots may be cut short but no keyring is reset.
CutShort == Orderly /\ "keyring_lost" \notin faults

\* The key a session seals with opens the document and the one it is saving, and
\* one that opens them is there for the next boot.
Matched ==
  /\ Fits(doc)
  /\ keyring = NoKey => disk # Zeroed
  /\ pc = "verifyNew" => keyring \in Keys /\ ~HasSecrets(doc)
  /\ pc \in {"verifyMigrated", "retire", "unlink"} => keyring \in Keys
  /\ pc = "retire" /\ path = "migrate" => keyring = disk
  /\ pc = "unlink" => disk = Zeroed
  /\ pc \in {"run", "publish"} /\ SealingKey # NoKey => Opens(SealingKey, doc)
  /\ pc = "publish" => Fits(pending)
  /\ pc = "publish" /\ SealingKey # NoKey => Opens(SealingKey, pending)

LEMMA MatchedInit == Init => Matched
  BY KeyAssumption DEF Init, Matched, Fits, HasSecrets, Opens, Sealed, Held, Absent, NoSeal

LEMMA MatchedStep ==
  CutShort /\ Typing /\ Retiring /\ Preserved /\ Matched /\ [Next]_vars => Matched'
<1> SUFFICES ASSUME faults \cap {"no_keyring", "read_err", "torn_save", "keyring_lost"} = {},
                    Typing, Retiring, Preserved, Matched, [Next]_vars
             PROVE  Matched'
  BY DEF CutShort, Orderly
<1> USE KeyAssumption DEF Typing, TypeOK, AnchorHeld, Pcs, Retiring, Preserved, Matched, Fits,
        Opens, HasSecrets, Sealed, Files, Seals, NoSeal, SealingKey, DiskKey, durable
<1>1. CASE Fallback \/ ReadError
  BY <1>1 DEF Fallback, FallbackToDisk, FallbackFatal, FallbackMint, ReadError
<1>2. CASE FromKeyring
  BY <1>2 DEF FromKeyring, Wired
<1>3. CASE NewFatal \/ NewMintFails \/ NewVerified
  BY <1>3 DEF NewFatal, NewMintFails, NewVerified, Wired
<1>4. CASE NewMint
  BY <1>4 DEF NewMint, FreshKeys
<1>5. CASE MigrateUnreadable \/ MigrateDeferred
  BY <1>5 DEF MigrateUnreadable, MigrateDeferred, Wired
<1>6. CASE MigrateSet
  BY <1>6 DEF MigrateSet
<1>7. CASE MigrateVerified
  BY <1>7 DEF MigrateVerified
<1>8. CASE StaleKey
  BY <1>8 DEF StaleKey, Exposed, Anchored
<1>9. CASE KeepBoth
  BY <1>9 DEF KeepBoth, Exposed, Anchored, Wired
<1>10. CASE RekeyDeferred
  BY <1>10 DEF RekeyDeferred, Exposed, Anchored, Wired
<1>11. CASE RekeySet
  BY <1>11 DEF RekeySet, FreshKeys, Exposed, Anchored
<1>12. CASE ResealPublished
  BY <1>12 DEF ResealPublished, Reseal
<1>13. CASE ResealFailed
  BY <1>13 DEF ResealFailed, Wired
<1>14. CASE NothingToReseal
  BY <1>14 DEF NothingToReseal
<1>15. CASE DropBackup
  BY <1>15 DEF DropBackup
<1>16. CASE Overwrite
  BY <1>16 DEF Overwrite
<1>17. CASE Unlink
  BY <1>17 DEF Unlink, Wired
<1>18. CASE RetireFailed
  BY <1>18 DEF RetireFailed, Wired
<1>19. CASE Load
  BY <1>19 DEF Load, Empty
<1>20. CASE GetOrCreateKey
  BY <1>20 DEF GetOrCreateKey, FreshKeys
<1>21. CASE SavePlain
  BY <1>21 DEF SavePlain, Save, Held, Absent
<1>22. CASE DeleteConnection
  BY <1>22 DEF DeleteConnection, Save, Empty, Absent
<1>23. CASE SavePublished \/ SaveFailed
  BY <1>23 DEF SavePublished, SaveFailed
<1>24. ASSUME NEW f \in Secrets, SaveSecret(f) PROVE Matched'
  BY <1>24 DEF SaveSecret, Save, Held, Absent
<1>25. ASSUME NEW f \in Secrets, ClearSecret(f) PROVE Matched'
  BY <1>25 DEF ClearSecret, Save, Held, Absent
<1>26. CASE Stop
  BY <1>26 DEF Stop
<1>27. CASE LoseKeyring
  BY <1>27 DEF LoseKeyring
<1>28. CASE UNCHANGED vars
  BY <1>28 DEF vars
<1> QED
  BY <1>1, <1>2, <1>3, <1>4, <1>5, <1>6, <1>7, <1>8, <1>9, <1>10, <1>11, <1>12, <1>13, <1>14,
     <1>15, <1>16, <1>17, <1>18, <1>19, <1>20, <1>21, <1>22, <1>23, <1>24, <1>25, <1>26, <1>27,
     <1>28 DEF Next, NewInstall, Migrate, Rekey, Retire, Use

\* The executions in which a keyring may be reset between whole boots.
Reset == Orderly /\ "keyring_lost" \in faults

\* The one key, unless it was lost, opens the document and the one being saved.
Opened ==
  /\ pc # "publish" /\ doc.kind = "absent" => bak.kind # "held"
  /\ TheKey \in Keys => Opens(TheKey, doc)
  /\ pc = "publish" /\ TheKey \in Keys => Opens(TheKey, pending)

LEMMA OpenedInit == Init => Opened
  BY KeyAssumption DEF Init, Opened, TheKey, Opens, Sealed, Held, Absent, NoSeal

LEMMA OpenedStep ==
  Reset /\ Typing /\ Shaped /\ OneKey /\ Opened /\ [Next]_vars => Opened'
<1> SUFFICES ASSUME Reset, Typing, Shaped, OneKey, Opened, [Next]_vars PROVE Opened'
  OBVIOUS
<1> USE KeyAssumption DEF Typing, TypeOK, Pcs, Reset, Orderly, Shaped, OneKey, Opened, TheKey,
        Opens, HasSecrets, Sealed, Files, Seals, NoSeal, durable
<1>1. CASE Fallback \/ ReadError
  BY <1>1 DEF Fallback, FallbackToDisk, FallbackFatal, FallbackMint, ReadError
<1>2. CASE FromKeyring
  BY <1>2 DEF FromKeyring, Wired
<1>3. CASE NewInstall
  BY <1>3 DEF NewInstall, NewFatal, NewMint, NewMintFails, NewVerified, Wired, FreshKeys
<1>4. CASE Migrate
  BY <1>4 DEF Migrate, MigrateUnreadable, MigrateDeferred, MigrateSet, MigrateVerified, Wired
<1>5. CASE Rekey
  BY <1>5 DEF Rekey, StaleKey, KeepBoth, RekeyDeferred, RekeySet, Exposed, ResealPublished,
     ResealFailed, NothingToReseal, DropBackup
<1>6. CASE Retire
  BY <1>6 DEF Retire, Overwrite, Unlink, RetireFailed, Wired
<1>7. CASE Load
  BY <1>7 DEF Load, Empty
<1>8. CASE GetOrCreateKey
  BY <1>8 DEF GetOrCreateKey, FreshKeys
<1>9. CASE SavePlain \/ DeleteConnection
  BY <1>9 DEF SavePlain, DeleteConnection, Save, Held, Empty, Absent
<1>10. CASE SavePublished \/ SaveFailed
  BY <1>10 DEF SavePublished, SaveFailed
<1>11. ASSUME NEW f \in Secrets, SaveSecret(f) PROVE Opened'
  <2>1. SealingKey = TheKey
    BY <1>11, SealsWithTheKey DEF SaveSecret
  <2> QED
    BY <1>11, <2>1 DEF SaveSecret, Save, Held, Absent
<1>12. ASSUME NEW f \in Secrets, ClearSecret(f) PROVE Opened'
  BY <1>12 DEF ClearSecret, Save, Held, Absent
<1>13. CASE Stop
  BY <1>13 DEF Stop
<1>14. CASE LoseKeyring
  BY <1>14 DEF LoseKeyring
<1>15. CASE UNCHANGED vars
  BY <1>15 DEF vars
<1> QED
  BY <1>1, <1>2, <1>3, <1>4, <1>5, <1>6, <1>7, <1>8, <1>9, <1>10, <1>11, <1>12, <1>13, <1>14,
     <1>15 DEF Next, Use

\* Where the keyring answers every read and saves are whole, boots cut short and
\* deletions that fail included, or resets of the keyring between whole boots, the
\* key a save seals with opens every covered secret that a load returns.
THEOREM SavesKeepOneKey == Spec => []SealsMatch
<1>1. Spec => [](Whole => Preserved)
  BY PreservedInvariant, PTL
<1>2. Spec => []Shaped
  BY TypingInvariant, ShapedInit, ShapedStep, PTL DEF Spec
<1>3. Spec => [](CutShort => Matched)
  <2>1. CutShort => Whole
    BY DEF CutShort, Orderly, Whole
  <2>2. /\ Typing /\ Retiring /\ (Whole => Preserved) /\ (CutShort => Matched)
        /\ [Next]_vars
        => (CutShort => Matched)'
    BY <2>1, MatchedStep, FaultsAreFixed DEF CutShort, Orderly
  <2> QED
    BY <2>2, <1>1, RetiringInvariant, MatchedInit, PTL DEF Spec
<1>4. Spec => [](Reset => OneKey /\ Opened)
  <2>1. Reset => Complete
    BY DEF Reset, Orderly, Complete
  <2>2. /\ Typing /\ Shaped /\ (Complete => OneKey) /\ (Reset => Opened)
        /\ [Next]_vars
        => (Reset => Opened)'
    BY <2>1, OpenedStep, FaultsAreFixed DEF Reset, Orderly
  <2>3. Spec => [](Reset => Opened)
    BY <2>2, <1>2, OneKeyInvariant, OpenedInit, PTL DEF Spec
  <2> QED
    BY <2>1, <2>3, OneKeyInvariant, PTL
<1>5. /\ Typing /\ Shaped /\ (Whole => Preserved) /\ (CutShort => Matched)
      /\ (Reset => OneKey /\ Opened)
      => SealsMatch
  <2> SUFFICES ASSUME Typing, Shaped, Whole => Preserved, CutShort => Matched,
                      Reset => OneKey /\ Opened, Orderly, pc = "run", SealingKey # NoKey
               PROVE  Opens(SealingKey, Recoverable)
    BY DEF SealsMatch
  <2>1. CASE CutShort
    <3>1. Preserved
      BY <2>1 DEF CutShort, Orderly, Whole
    <3> QED
      BY <2>1, <3>1 DEF Matched, Preserved, Recoverable, Opens, Sealed, NoSeal
  <2>2. CASE Reset
    <3>1. SealingKey = TheKey /\ TheKey \in Keys
      BY <2>2, SealsWithTheKey DEF OneKey, TheKey, Typing, TypeOK
    <3> QED
      BY <2>2, <3>1 DEF Opened, Shaped, Recoverable, Opens, Sealed, NoSeal
  <2> QED
    BY <2>1, <2>2 DEF CutShort, Reset
<1> QED
  BY <1>1, <1>2, <1>3, <1>4, <1>5, TypingInvariant, PTL

=============================================================================
