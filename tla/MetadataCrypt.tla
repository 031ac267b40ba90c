--------------------------- MODULE MetadataCrypt ---------------------------
(***************************************************************************)
(* The metadata encryption of /data (MetadataCrypt.cpp): at every boot     *)
(* init has vold find or make the key, put a crypto device on the          *)
(* partition, format it or encrypt it in place if it is not encrypted yet, *)
(* and mount it.  The keys are stored by KeyStorage.cpp and bound to a     *)
(* seed if the platform gave one before the first key was used; mountFstab *)
(* holds mLock and setStorageBindingSeed mCryptLock, so the two run at the *)
(* same time.                                                              *)
(*                                                                         *)
(* External: fs_mgr, which tells blank, plain and encrypted partitions     *)
(* apart by the superblock; Keystore; power cuts; the recovery, which      *)
(* wipes /data and /metadata; a /metadata partition that is lost.          *)
(***************************************************************************)
EXTENDS EncryptInplace

CONSTANTS
  Devices,     \* what fstab and properties say, one record per kind of device
  HasSeed,     \* whether the platform sets a storage binding seed
  MaxKeys,     \* keys that are ever generated
  MaxFaults    \* power cuts, failing calls, losses of /metadata

ASSUME MetadataAssumption ==
  /\ MaxKeys \in Nat \ {0} /\ MaxFaults \in Nat /\ HasSeed \in BOOLEAN
  /\ \A d \in Devices :
       /\ d.version \in Nat
       /\ d.options \in {"", "cipher", "wrappedkey", "unknown"}
       /\ {d.set_dun, d.checkpoint_blk, d.zoned, d.delete_all, d.dsu_is_host} \subseteq BOOLEAN

VARIABLES
  device,     \* the device: a member of Devices
  pc,         \* where fscrypt_mount_metadata_encrypted is; "off": before it is called
  needs,      \* [encrypt, format]: needs_encrypt and should_format of the call
  key,        \* the key in hand, 0: none
  stored,     \* stored[dir]: the key in a metadata_key_dir, NoKey if there is none
  keystore,   \* keys whose Keystore key has not been deleted
  keys,       \* how many keys have been generated
  seed,       \* storage_binding_info.state
  bindings,   \* the bindings that keys have been used with since vold started
  dm,         \* [state, key] of the device-mapper device "userdata"
  blank,      \* the partition holds nothing
  dataKey,    \* the key that the partition is encrypted with, 0: none
  mounted,    \* /data is mounted
  partial,    \* history: an encryption in place was interrupted after it had written
  lost,       \* history: /metadata was lost, and the key of the data with it
  faults      \* how many faults have happened

callVars == <<needs, key, mounted>>
keyVars  == <<stored, keystore, keys, lost>>
seedVars == <<seed, bindings>>
dataVars == <<blank, dataKey, partial>>
vars == <<device, pc, callVars, keyVars, seedVars, dataVars, dm, faults, inplaceVars>>

NoKey == [id |-> 0, bound |-> FALSE]
Dirs == {"default", "zoned", "dsu"}

Fault == faults < MaxFaults /\ faults' = faults + 1

-----------------------------------------------------------------------------
(* The options *)

\* lookup_cipher knows the ciphers; the only flag is the one for wrapped keys.
parse_options(options) == options \in {"", "cipher", "wrappedkey"}

OptionsOk(d) ==
  CASE d.version = 1 -> d.options = "" /\ (d.set_dun \/ ~d.checkpoint_blk)
    [] d.version = 2 -> parse_options(d.options)
    [] OTHER -> FALSE

-----------------------------------------------------------------------------
(* The binding seed *)

\* Mutant of setKeyStorageBindingSeed: a seed is taken after keys have been used without one.
SetSeedLate ==
  /\ HasSeed /\ pc # "off"
  /\ seed # "IN_USE" /\ seed' = "IN_USE"
  /\ UNCHANGED <<device, pc, callVars, keyVars, bindings, dataVars, dm, faults, inplaceVars>>

\* A call in another state is refused and changes nothing.
setKeyStorageBindingSeed ==
  /\ HasSeed /\ pc # "off"
  /\ seed = "UNINITIALIZED" /\ seed' = "IN_USE"
  /\ UNCHANGED <<device, pc, callVars, keyVars, bindings, dataVars, dm, faults, inplaceVars>>

\* The first key that is used without a seed settles that there will be none.
generateAppId ==
  /\ seed' = IF seed = "UNINITIALIZED" THEN "NOT_USED" ELSE seed
  /\ bindings' = bindings \cup {seed' = "IN_USE"}

-----------------------------------------------------------------------------
(* read_key *)

DirOf(first_key) == IF first_key THEN "default" ELSE "zoned"

\* Without a key there has been a factory reset, or so it seems.
KeystoreAfter(first_key) ==
  IF stored[DirOf(first_key)] = NoKey /\ first_key /\ device.delete_all
  THEN {} ELSE keystore

retrieveKey(first_key) ==
  LET k == stored[DirOf(first_key)] IN
  /\ k # NoKey
  /\ generateAppId
  /\ IF k.id \in keystore /\ k.bound = (seed' = "IN_USE")
     THEN /\ key' = k.id
          /\ pc' = IF first_key THEN "default_dev" ELSE "zoned_dev"
     ELSE key' = 0 /\ pc' = "failed"
  /\ UNCHANGED <<keyVars, faults>>

\* Mutant of MayGenerate: a key that is missing is generated whatever the call is.
MayAlwaysGenerate == TRUE

\* neverGen: the partition is encrypted, only its own key will do.
MayGenerate == needs.encrypt

generateStorageKey(first_key) ==
  LET id == keys + 1 IN
  /\ stored[DirOf(first_key)] = NoKey
  /\ MayGenerate
  /\ keys < MaxKeys /\ keys' = id
  /\ generateAppId
  /\ stored' = [stored EXCEPT ![DirOf(first_key)] = [id |-> id, bound |-> seed' = "IN_USE"]]
  /\ keystore' = KeystoreAfter(first_key) \cup {id}
  /\ key' = id
  /\ pc' = IF first_key THEN "default_dev" ELSE "zoned_dev"
  /\ UNCHANGED <<lost, faults>>

\* deleteAllKeys comes before it is known that no key may be generated.
NoKeyFound(first_key) ==
  /\ stored[DirOf(first_key)] = NoKey /\ ~MayGenerate
  /\ keystore' = KeystoreAfter(first_key)
  /\ pc' = "failed"
  /\ UNCHANGED <<key, stored, keys, lost, seedVars, faults>>

\* A directory cannot be made, Keystore does not answer, the key cannot be written.
ReadKeyFails(first_key) ==
  /\ Fault
  /\ keystore' = KeystoreAfter(first_key)
  /\ generateAppId
  /\ pc' = "failed"
  /\ UNCHANGED <<key, stored, keys, lost>>

read_key(first_key) ==
  /\ pc = IF first_key THEN "default_key" ELSE "zoned_key"
  /\ \/ retrieveKey(first_key)
     \/ generateStorageKey(first_key)
     \/ NoKeyFound(first_key)
     \/ ReadKeyFails(first_key)
  /\ UNCHANGED <<device, needs, mounted, dataVars, dm, inplaceVars>>

-----------------------------------------------------------------------------
(* create_crypto_blk_dev *)

\* The placeholder that vold made when it started is filled; else a device is made, which
\* fails if there is one already.
create_crypto_blk_dev(dm_name) ==
  /\ pc = IF dm_name = "userdata" THEN "default_dev" ELSE "zoned_dev"
  /\ IF dm_name = "userdata" /\ dm.state = "ACTIVE"
     THEN pc' = "failed" /\ dm' = dm
     ELSE /\ dm' = IF dm_name = "userdata" THEN [state |-> "ACTIVE", key |-> key] ELSE dm
          /\ pc' = IF dm_name = "userdata" /\ device.zoned THEN "zoned_key"
                   ELSE IF ~needs.encrypt THEN "mount"
                   ELSE IF needs.format THEN "format"
                   ELSE IF device.zoned THEN "failed" ELSE "inplace"
  /\ UNCHANGED <<device, callVars, keyVars, seedVars, dataVars, faults, inplaceVars>>

\* The size is not known, a wrapped key cannot be exported, the table cannot be loaded.
CreateFails ==
  /\ pc \in {"default_dev", "zoned_dev"}
  /\ Fault
  /\ pc' = "failed"
  /\ UNCHANGED <<device, callVars, keyVars, seedVars, dataVars, dm, inplaceVars>>

-----------------------------------------------------------------------------
(* fscrypt_mount_metadata_encrypted *)

\* The block with the superblock.
Super == IF fs.type = "ext4" THEN fs.first ELSE 0

\* init calls encryptFstab for a partition that is blank or that it could mount as it is,
\* and mountFstab for any other.  Vold has made the placeholder device when it started.
StartMount ==
  /\ pc = "off"
  /\ needs' = [encrypt |-> blank \/ medium[Super] = 0, format |-> blank]
  /\ pc' = IF OptionsOk(device) THEN "default_key" ELSE "failed"
  /\ dm' = [state |-> "SUSPENDED", key |-> 0]
  /\ seed' = "UNINITIALIZED" /\ bindings' = {}
  /\ key' = 0 /\ mounted' = FALSE
  /\ UNCHANGED <<device, keyVars, dataVars, faults, inplaceVars>>

Format ==
  /\ pc = "format" /\ pc' = "mount"
  /\ blank' = FALSE /\ dataKey' = dm.key /\ partial' = FALSE
  /\ enc' = [b \in Blocks |-> 1] /\ medium' = enc' /\ dropped' = {}
  /\ UNCHANGED <<fs, todo, first, pending, done, run>>
  /\ UNCHANGED <<device, callVars, keyVars, seedVars, dm, faults>>

FormatFails ==
  /\ pc = "format" /\ pc' = "failed" /\ Fault
  /\ UNCHANGED <<device, callVars, keyVars, seedVars, dataVars, dm, inplaceVars>>

\* encrypt_inplace, which knows only the two devices.
StartInPlace ==
  /\ pc = "inplace" /\ run = "idle"
  /\ InitFs /\ dataKey' = dm.key
  /\ UNCHANGED <<device, pc, callVars, keyVars, seedVars, blank, partial, dm, faults>>

InPlaceStep ==
  /\ pc = "inplace"
  /\ \/ (ProcessUsedBlock \/ EncryptInPlaceEnd) /\ UNCHANGED faults
     \/ (FlushFails \/ EncryptInPlaceFails) /\ Fault
  /\ UNCHANGED <<device, pc, callVars, keyVars, seedVars, dataVars, dm>>

EndInPlace ==
  /\ pc = "inplace" /\ run \in {"success", "failed"}
  /\ pc' = IF run = "success" THEN "mount" ELSE "failed"
  /\ UNCHANGED <<device, callVars, keyVars, seedVars, dataVars, dm, faults, inplaceVars>>

\* What fs_mgr needs to mount: the superblock, read through the crypto device.
Mountable == enc[Super] = 1 /\ dataKey = dm.key

\* Whether the mount succeeded is not looked at: the call returns true.
mount_via_fs_mgr ==
  /\ pc = "mount" /\ pc' = "done"
  /\ \/ mounted' = Mountable /\ UNCHANGED faults
     \/ mounted' = FALSE /\ Fault
  /\ UNCHANGED <<device, needs, key, keyVars, seedVars, dataVars, dm, inplaceVars>>

-----------------------------------------------------------------------------
(* The rest of the world *)

\* The directory of a guest system's key, which should not be the host's.
GetDsuMetadataKeyDir == IF device.dsu_is_host THEN "default" ELSE "dsu"

\* The key of a guest system that was tried out goes, unless it is the host's.
destroy_dsu_metadata_key ==
  LET dir == GetDsuMetadataKeyDir IN
  /\ pc = "done" /\ stored[dir] # NoKey /\ dir # "default"
  /\ stored' = [stored EXCEPT ![dir] = NoKey]
  /\ keystore' = keystore \ {stored[dir].id}
  /\ UNCHANGED <<device, pc, callVars, keys, lost, seedVars, dataVars, dm, faults, inplaceVars>>

\* What has been written by an encryption that did not end is a mixture.
PowerOff(kept) ==
  /\ pc' = "off" /\ mounted' = FALSE /\ key' = 0
  /\ InplaceCut(kept)
  /\ LET written == \E b \in Blocks : medium'[b] # 0 IN
       /\ dataKey' = IF written THEN dataKey ELSE 0
       /\ partial' = (partial \/ (run \in {"running", "failed"} /\ written))
  /\ UNCHANGED <<device, needs, keyVars, seedVars, blank, dm>>

PowerCut ==
  /\ pc \notin {"off", "done", "failed"} /\ Fault
  /\ \E kept \in SUBSET {b \in Blocks : enc[b] # medium[b]} : PowerOff(kept)

Reboot ==
  /\ pc \in {"done", "failed"} /\ UNCHANGED faults
  /\ PowerOff({b \in Blocks : enc[b] # medium[b]})

FactoryReset ==
  /\ pc = "off" /\ keys + 2 <= MaxKeys
  /\ blank' = TRUE /\ dataKey' = 0 /\ partial' = FALSE /\ lost' = FALSE
  /\ enc' = [b \in Blocks |-> 0] /\ medium' = enc' /\ dropped' = {}
  /\ stored' = [d \in Dirs |-> NoKey]
  /\ UNCHANGED <<fs, todo, first, pending, done, run>>
  /\ UNCHANGED <<device, pc, callVars, keystore, keys, seedVars, dm, faults>>

MetadataLost ==
  /\ pc = "off" /\ stored["default"] # NoKey /\ keys + 2 <= MaxKeys /\ Fault
  /\ stored' = [d \in Dirs |-> NoKey] /\ lost' = (dataKey # 0)
  /\ UNCHANGED <<device, pc, callVars, keystore, keys, seedVars, dataVars, dm, inplaceVars>>

-----------------------------------------------------------------------------

\* A new device, with data that is not encrypted or with none; a guest system left a key.
Init ==
  /\ InplaceInit
  /\ device \in Devices /\ blank \in BOOLEAN
  /\ pc = "off" /\ needs = [encrypt |-> FALSE, format |-> FALSE] /\ key = 0
  /\ stored = [d \in Dirs |-> IF d = "dsu" THEN [id |-> 1, bound |-> FALSE] ELSE NoKey]
  /\ keystore = {1} /\ keys = 1
  /\ seed = "UNINITIALIZED" /\ bindings = {} /\ dm = [state |-> "INVALID", key |-> 0]
  /\ dataKey = 0 /\ mounted = FALSE /\ partial = FALSE /\ lost = FALSE /\ faults = 0

Next ==
  \/ StartMount
  \/ \E first_key \in BOOLEAN : read_key(first_key)
  \/ \E dm_name \in {"userdata", "userdata_zoned"} : create_crypto_blk_dev(dm_name)
  \/ CreateFails \/ Format \/ FormatFails
  \/ StartInPlace \/ InPlaceStep \/ EndInPlace
  \/ mount_via_fs_mgr
  \/ setKeyStorageBindingSeed \/ destroy_dsu_metadata_key
  \/ PowerCut \/ Reboot \/ FactoryReset \/ MetadataLost

Spec == Init /\ [][Next]_vars

-----------------------------------------------------------------------------
(* Properties *)

\* The count of blocks that progress is measured against is the number of blocks that are
\* written: the warning that blocks_to_encrypt was incorrect appears only after an error.
CountRight == run = "success" /\ dropped = {} => done = blocks_to_encrypt(fs)

\* What is mounted can be read: every block that the file system uses has been encrypted
\* once, with the key of the device, and as many as were announced.  In the cases that the
\* code does not survive (the encryption in place was interrupted, a failing flush was not
\* noticed) it may not be.
EncryptedOnce ==
  /\ mounted /\ ~partial /\ dropped = {} =>
       /\ dataKey = dm.key
       /\ \A b \in InUse(fs) : enc[b] = 1
  /\ CountRight

\* The key that /data is encrypted with stays where it is: no boot, whether it fails or is
\* cut off, and no guest system removes or replaces it, and when /metadata is lost no key
\* that does not fit takes its place.
DataKeyKept ==
  dataKey # 0 /\ ~partial =>
    IF lost THEN stored["default"] = NoKey
    ELSE stored["default"].id = dataKey /\ dataKey \in keystore

\* All keys that vold uses between two starts are bound alike: to the seed, or not.
BoundAlike == Cardinality(bindings) <= 1
=============================================================================
