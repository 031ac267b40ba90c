# A TLA+ model of vold

`vold` is Android's volume daemon. It mounts and unmounts storage, keeps the keys of
encrypted directories, holds back and commits the writes of a system update (the userdata
checkpoint), and runs maintenance on the storage while the device is idle. This project
models its stateful core in TLA+, checks it with TLC on small instances, and proves the
main safety properties of nine components with TLAPS for all instances. `PROJECT.json` maps
every definition to the source lines it stands for and lists the runs, the mutants, the
hazards of the code, the findings and the theorems.

## 1. Inventory

### Threads and locks

All of vold's state is shared by four kinds of threads:

| thread | locks | calls |
|---|---|---|
| binder pool (`VoldNativeService.cpp`) | `VolumeManager::mLock` (`ACQUIRE_LOCK`) or `mCryptLock` (`ACQUIRE_CRYPT_LOCK`) for the whole handler | volumes, users, checkpoint, metadata encryption; keys |
| netlink (`NetlinkHandler.cpp`) | `mLock` in `handleBlockEvent` | disks that appear, change and vanish |
| detached threads | none at first; what they call takes locks for parts of its work | `runIdleMaint`, `abortIdleMaint`, `moveStorage`, `DoCheckpointCommittedWork`, `waitForBusyFiles` |
| health daemons (`cp_healthDaemon`), one per checkpointed mount | `isCheckpointingLock` inside the calls they make | commit or abort a checkpoint when space runs low |

Handlers under the same lock never overlap. What is hard is where this is not so: detached
threads, the daemons, two handlers under different locks, and the world outside the process
(a power cut, the kernel, Keystore, the boot control HAL, apps and processes that keep mounts
busy, cards that are exchanged, the framework that dies and reconnects).

### Components

| component | state | operations | what is hard | what makes it correct |
|---|---|---|---|---|
| Checkpoint (`Checkpoint.cpp`) | `/metadata/vold/checkpoint`, `isCheckpointing`, `needsCheckpointWasCalled`, `isBow`; slots and file systems outside | start, mark a boot attempt, decide, prepare, commit, abort, query, health daemon, reset | crash between any two steps, commit against abort, one mount of several failing, retry counter at its limit | no downgrade on newer data; flags and mounts agree; retries end; deferred work runs |
| dm-bow restore (`cp_restoreCheckpoint`) | the log on the block device | validate, replay, roll forward | power cut in the middle, overlapping relocations | all blocks as before the checkpoint, or all as after it |
| Metadata and in-place encryption (`MetadataCrypt.cpp`, `EncryptInplace.cpp`), storage binding seed | the metadata keys, the device-mapper device, the progress of a copy | mount, format, encrypt, set the seed | cut or failing at any step, a seed that is late | each used block is encrypted once, with the stored key; that key is never replaced |
| User keys (`FsCrypt.cpp`) on key storage (`KeyStorage.cpp`, `Keystore.cpp`) | key directories, `s_ce_policies`, `s_new_ce_keys`, `s_deferred_fixations`, `key_dirs_to_commit` | create, protect, unlock, lock, destroy, load, deferred work | Keystore does not roll back with userdata; fsync and crash order; lists of deferred work go stale | no key is lost; after protection only the secret opens the key; fixations happen |
| User storage and key installation (`FsCrypt.cpp`, `KeyUtil.cpp`, `vold_prepare_subdirs.cpp`) | kernel keyrings, policies of directories, keys of adopted volumes, busy-files workers | start, create, unlock, lock, remove users; prepare and destroy storage; forget a volume | interrupted first boots and removals, workers against unlocks | an unlocked user is usable; directories keep their keys; every start recovers |
| Volumes and disks (`VolumeManager.cpp`, `model/`) | `mDisks`, `mPendingDisks`, `mInternalEmulatedVolumes`, `mObbVolumes`, `mStartedUsers`, `mSecureKeyguardShowing`; `mCreated`, `mState`, stacked volumes of each volume | block events, partition, mount, unmount, format, users, keyguard, stubs, OBBs, reset, shutdown | any order of calls against the `CHECK`s; two lists built from both sides (users and private volumes) | no `CHECK` fails; each user has their volumes; no disk is forgotten; the listener's picture is right |
| Partitioning and adopted volumes (`Disk.cpp`, `PrivateVolume.cpp`, `VolumeEncryption.cpp`) | the table of a card, `mJustPartitioned`, `mSkipChange`, key files, dm-crypt mappings | partition, scan, forget | events that are queued, skipped, repeated; cards exchanged; calls that stop half-way | volumes are those of the card; nobody's card is formatted unasked; no partition without its key |
| Mounting (`PublicVolume`, `EmulatedVolume`, `PrivateVolume`, `ObbVolume`, `fs/`) | kernel mounts, FUSE, bind mounts, views of apps | `doMount`, `doUnmount`, `doFormat`, `unmountAll`, remount of apps | clean-up on each failing step, storage shared by two users | nothing stays mounted behind an unmounted volume, nothing mounted is checked or formatted |
| App directories (`VolumeManager.cpp`, `Utils.cpp`) | owner and quota project of `Android/*` directories | set up, create, fix up | calls cut off between two system calls, apps that write meanwhile | what an app stores is counted for it |
| Storage move (`MoveStorage.cpp`) | references to two volumes, `mSilent` | `moveStorage` | gives up the lock in the middle | data complete on one side; volumes come back |
| Idle maintenance (`IdleMaint.cpp`) | `idle_maint_stat`, `cv_abort`, `cv_stop`, gc_urgent and manual_gc files | run, abort, urgent pace | abort against start, timeout and end; early returns | runs exclude each other; gc_urgent is switched off; abort returns |
| Netlink, binder service, loop devices, AppFuse, utilities, benchmark, start-up | little of their own | I/O, dispatch | | |

Interactions: FsCrypt asks Checkpoint whether deletions must wait (`cp_needsCheckpoint`) and
is called back after the commit (`DoCheckpointCommittedWork`); MoveStorage works on volumes
that VolumeManager may take away; metadata encryption runs the encryption in place and stores
its keys with KeyStorage; disks create the private volumes on which the emulated volumes of
users are stacked; IdleMaint reads the list of private volumes; the health daemons call back
into Checkpoint.

## 2. Modules

| module | models | notes |
|---|---|---|
| `Checkpoint` | `Checkpoint.cpp` without the dm-bow log | one action per operation, or per step of it that others can see; a crash may come between any two |
| `BowRestore` | `cp_restoreCheckpoint` and what it calls | one action per read, copy and flush; refines `BowSpec` |
| `BowSpec` | | what a checkpoint on dm-bow promises: all blocks go back, or all stay, in one step |
| `EncryptInplace` | `EncryptInplace.cpp` | the blocks, the buffer, the flushes |
| `MetadataCrypt` | `MetadataCrypt.cpp`, the seed in `KeyStorage.cpp`, `EXTENDS EncryptInplace` | one action per step of `fscrypt_mount_metadata_encrypted` |
| `UserKeys` | `FsCrypt.cpp`, `KeyStorage.cpp`, `Keystore.cpp` for one user | a call that holds `mCryptLock` is a program counter with locals |
| `UserStorage` | the rest of `FsCrypt.cpp`, `KeyUtil.cpp`, `vold_prepare_subdirs.cpp` | a call is one step, the start one step per part, workers run beside |
| `Volumes` | `VolumeManager.cpp`, `Disk.cpp`, `VolumeBase.cpp` and what the volume classes add to them | one action per handler |
| `Disk` | `Disk.cpp`, `PrivateVolume::doCreate`, `VolumeEncryption.cpp` | one disk in depth; one action per handler and event |
| `Mounting` | `doMount`, `doUnmount`, `doFormat` of all volumes, `fs/`, `Process.cpp`, remounts for apps | a call goes through its steps up to one that fails |
| `AppDirs` | `setupAppDir`, `ensureAppDirsCreated`, `fixupAppDir` | a call is its sequence of system calls, or a prefix of it |
| `MoveStorage` | `MoveStorage.cpp`, `EXTENDS Volumes` | the composition: every handler of `Volumes` between any two steps of the thread |
| `IdleMaint` | `IdleMaint.cpp` | one program counter per detached thread |
| `xProofs` | | the inductive invariant of a component and its theorems (section 5): `Checkpoint` with `BowRestore`, `MetadataCrypt`, `UserKeys`, `UserStorage`, `Volumes` with `MoveStorage`, `Disk`, `Mounting`, `IdleMaint` |
| `MCx` | | the instances TLC checks |

### Checkpoint

Persistent state is `cpFile` (the metadata file: counter and slot suffix), the slots (`slot`,
`next`, `slotOk`, `sysVer`) and `base`, the data a reboot brings back on each mount. The
running system has the three flags, the mounts that are `held`, and `cur`, the data as it
reads now. Data is abstracted to the version of the system that wrote it last, which is all
that the purpose of a checkpoint is about.

Binder calls are serialised by `mLock`, so they are one thread; each health daemon is
another. `cp_commitChanges` is split at every point where the outside world can see a
difference (`CommitMark`, `CommitMount`, `CommitFail`, `CommitFinish`, `CommitRemove`), and
holds `isCheckpointingLock` from the first of these to the last. `cp_abortChanges` holds it
only while it decides, so `AbortRead` and `AbortWrite` are steps of their own. `Crash` is
enabled always: it loses what is held, and boots the slot the bootloader may choose.
`cp_resetCheckpoint` is the restart of userspace without a reboot: the latch is cleared, the
other flags, the mounts and the daemons stay, and the boot sequence is run again, also over
dm-bow devices that hold writes already. A daemon reads `isCheckpointing` without the lock
(`DaemonLowSpace`) and calls later (`DaemonCall`), when the checkpoint may be over. Whether userspace
can restart alone is a property of the device, as in init.

The order of a boot (mark the attempt, decide while userdata is mounted, prepare) comes from
init and fs_mgr and is marked external.

### BowRestore and BowSpec

The device is a function from blocks to contents; a block holds old data, new data, a log
sector or rubbish. `cache` holds the writes since the last `fsync`, of which a power cut keeps
any subset. dm-bow is external: `BowBackup`, `BowRoll` and `BowWrite` produce exactly the logs
that the code expects, with copies that are moved again and with several log sectors, and
`BowEnd` may damage one saved block.

`cp_restoreCheckpoint` has a step per log sector (`ReadSector`) and entry (`ReadEntry`).
While it validates, reads go through `relocations`, the ordered map of the code with its
slicing and splitting (`relocate`); while it replays, each copy may first save the partial
result (`SavePartial`, `SaveSync`), then copies (`Copy`), and flushes at the end of a log
sector. A restore that is cut off starts again from what is on the medium. Reads may fail; that a write
of `restoreSector` fails, which the code does not look at, is left out.

`BowSpec` has two variables, what each block reads as and whether the checkpoint is over. Its
`Settle` is a single step. The refinement mapping takes a device with a log in block 0 for
unsettled, and reads its blocks as the file system under dm-bow does.

### EncryptInplace and MetadataCrypt

`enc[b]` counts how often a block has been encrypted, `medium` the same on the medium. The
blocks of an ext4 come from its groups with the arithmetic of the code (a last group that is
short, a first data block of 1, groups without a bitmap), those of an f2fs from the library.
`ProcessUsedBlock` is the collecting buffer with its gaps, alignment and flushes.

`MetadataCrypt` follows `fscrypt_mount_metadata_encrypted`: options, the default key, the
zoned key, one crypto device each, formatting or encryption in place, and mounting. Each step
may fail, the power may go between any two, and `MetadataLost` and `FactoryReset` are what
happens to the partitions from outside. The binding seed has the three states of the code;
`setKeyStorageBindingSeed` is possible at any moment after init has started vold, as it runs
under another lock. On one of the devices the key directory of a guest system is the host's
(`GetDsuMetadataKeyDir`), which `destroy_dsu_metadata_key` must notice: without its check TLC
finds `DataKeyKept` violated.

### UserKeys

`view` is what the key directories read now, `stable` what a reboot brings back; the
difference is made permanent by an fsync, a writeback or a commit, and by none of the first
two under a checkpoint. `ks` is the set of Keystore keys, from which a deletion is final.
A directory has an authentication, a key, a Keystore blob and maybe an upgraded blob. A
call is split where it changes disk or Keystore, and a commit, a writeback or a crash may
come between.

The checkpoint is seen from outside: `cp`, `slotMarked`, `work`. What `Commit` relies on
(the slot is marked before the data is released, the deferred work runs after) is what
`Checkpoint` establishes in `CommitMark`, `LockInv` and `DeferredWorkRuns`.

### UserStorage

A key is named by its owner, its class and a generation, and stands for its policy. State is
what is stored (`deKey`, `ceKey`, `volkey`, `secdisc`), what vold remembers (`de`, `ce`,
`newCe`, `ephemeral`), what is in the kernel (`present`, `busy`, `provisioning`) and which
directory has which policy (`dirs`, `obb`). The start goes through the parts of
`fscrypt_initialize_systemwide_keys` and `fscrypt_init_user0` one by one; a reboot may come
after each. The other calls are single steps which may fail at each of their own steps: a
crash in the middle of a call is such a failure with a reboot after it. A `waitForBusyFiles`
worker takes `fscrypt_keyring_mutex` for each of its tries and may come at any moment. A start
passes over users whose DE key cannot be read, for the moment or for good, but not over user 0
(`PassedOver`). Of `fscrypt_set_user_key_protection` only the branch for a new key is here; the
other one, which changes the protection of a stored key, is in `UserKeys`.

### Volumes and MoveStorage

Each handler holds `mLock` throughout, and is one action. `Update` is the one place that
destroys, drops and creates, and it evaluates the `CHECK`s of `VolumeBase` and `Disk`:
`aborted` becomes true when one of them fails, and then only a restart of vold is possible.
What a scan of a disk finds is a choice among the disk's `Tables`. `heard` is the picture a
framework has that has connected and called `reset`.

`MoveStorage` adds the thread of `moveStorage`. Between `bringOffline` and `bringOnline` it
holds no lock, but keeps its references: a volume that a handler takes out of its list in
the meantime is `lost`, and the next `destroy()` of the thread fails its `CHECK`. `src` and `dst`
say where a complete copy of the data is, also after the move and across restarts of vold
(`MoveCut`). `execCp` either copies, or fails, or returns OK for a source that it could not read
to its end, which is recorded in `unread`.

### Disk

A reader in which cards are exchanged, with the table of each card, the queue of block events
and the `Disk` objects of the device (coldboot may announce it twice). An event is handled by
every object, as in `handleBlockEvent`; a handler, `partition` and `forgetPartition` are one
step each, and a call that fails stops after any of its parts. A card may come with a private
partition of another device (GUID 0), whose key is not here. `partition` is called for a disk with
a medium only, as the framework does; on an empty reader the code would set `mJustPartitioned` and
fail. `loose`, `leftover` and
`unread` record the cases in which the code does not promise anything (section 4).

### Mounting

`mounts[p]` is how many mounts are stacked on mount point `p`. A mount is a sequence of steps
(`PublicRawSteps`, `EmulatedSteps`, ...) taken in order up to the one that fails, after which
the clean-up of the code runs (`CleanedUp`: scope guards and the calls of `doUnmount`). The
processes that have files open survive signals as their `Nerve` says; a mount that is pinned by
one that nothing ends is detached lazily. `views` are the tmpfs mounts that
`handleAppStorageDirs` puts into the namespaces of apps. `fuse` is `mFuseMounted`, which only
failures after `MountUserFuse` and the `doUnmount` of a public volume reset (`ResetsFuse`); a failing
`initAsecStage` does not end the mount (`EndsMount`). A failure that the code is known not
to clean up marks the volume as `leaky`; each is listed in section 4. `unmountAll`, which only
`start()` calls, leaves the state of OBB volumes alone but unmounts what it finds below `/mnt`.
Two simplifications: the detaching of FUSE in the clean-up after a failed mount does not itself fail,
and a mount is asked for only while the volume is not mounted (`VoldNativeService::mount` would set
the flags and the user before it refuses).

### AppDirs

A path has an owner, a quota project and the inherit flag. A call is the sequence of its
system calls (`PrepareAppDirFromRoot`, `FixupAppDir`), of which any prefix may be what happens.
Between calls the app and others make and remove entries.

### IdleMaint

A critical section of `cv_m` is one step. Waiting on `cv_abort` always ends by itself after
10 s; waiting on `cv_stop` is a wait set from which `notify_one` takes one thread, and from
which a thread may also wake spuriously. Wakelock and sysfs writes may fail. The device's own
collection (`manual_gc`) comes after the trim; its loop ends by itself and does not look for an
abort, so it is one step, and switching it off another.

## 3. Runs

| run | instance | states | checks |
|---|---|---|---|
| `checkpoint` | one f2fs and one dm-bow mount, two slots, an A/B device and two without slots whose userspace may restart, one retry, one update | 1.08 M | `NoDowngrade`, `HeldImpliesCheckpointing`, `CheckpointingProtects`, `RetryBound`, `DeferredWorkRuns` |
| `bow_restore` | eight blocks, three in use, log sectors of two entries, three writes of up to two blocks, two faults | 86 k | `AllOrNothing`, `RelocationsFollow`, `Settles`, `AtomicSpec` (the refinement) |
| `boot` | five kinds of devices, four file systems of up to six blocks, a buffer of two, three faults | 103 k | `EncryptedOnce`, `DataKeyKept`, `BoundAlike` |
| `user_keys` | one user, directories `current`, `cx0`, `cx1`, one update, five Keystore keys, four keys | 801 k | `DeferredWorkValid`, `SecretOnly`, `KeyKept`, `FixationHappens` |
| `user_keys_early_fixation` | the same, six Keystore keys | violation | `KeyKeptUnderCheckpoint` |
| `user_storage` | users 0 and 10, an adopted volume with storage of user 10, one failing call, one worker with two tries | 1.00 M | `UnlockedUsable`, `NoStrayKeys`, `PoliciesKept`, `StartRecovers`, `Shredded` |
| `volumes` | a card, the virtual disk, a stub, an OBB, users 0 and 10 | 161 k | `ChecksHold`, `UserVolumes`, `PendingWaits`, `LockedDisksUnread`, `FrameworkInSync` |
| `disk` | two cards (symmetric) with three kinds of tables, two exchanges, three queued events, one failing call | 657 k | `InSync`, `FormatsAsked`, `KeysKept`, `RemovedClean` |
| `mounting` | three devices, three sets of volumes, three processes, two failing steps | 18 k | `MountsMatch`, `CheckedOffline`, `NoOrphanedViews` |
| `app_dirs` | the data, cache and OBB directories of an app on three kinds of volumes | 26 k | `PreparedRight`, `GrowthCounted` |
| `move_storage` | a card that may be adopted, users 0 and 10 | 237 k | `MoveKeepsData`, `VolumesComeBack` |
| `idle_maint` | two runners, two aborters, two f2fs paths, four runs | 352 k | `OneRun`, `UrgentOnlyInGc`, `AbortReturns` |

Deadlock is checked except in `bow_restore` (a restore that has returned is the end) and
`disk` (bounded queues and exchanges come to an end). Each property of a passing run has a
mutant in `PROJECT.json`: a plausible mistake in the code, written as a definition just before
the one it replaces, under which TLC finds the property violated.

### Bounds, and why they are enough

- *Checkpoint.* Two mounts of different kinds show every partial commit; two slots are what
  A/B has; with one retry the counter passes 2, 1, 0 and "no file"; with one update there is
  an old and a new system. The theorems do not depend on any of these bounds. Restarts
  of userspace are left to the devices without slots, with daemons that commit and daemons that
  abort: on an A/B device they make seven times as many states, too many for the liveness property.
  There the four safety properties rest on the theorems.
- *BowRestore.* Three writes of one or two blocks and log sectors of two entries give up to
  three log sectors, copies that are moved again by a later write, and overlapping ranges.
  Two faults cut a restore and the restore that resumes it.
- *EncryptInplace, MetadataCrypt.* The layouts are chosen for the boundaries: groups shorter
  than the buffer, gaps, and alignment inside a group. Three faults are a cut, a second one in
  the boot that follows, and a failing call.
- *UserKeys.* Three CE directories are the most that can exist at a time in the calls
  modelled (an old one, one of an interrupted change, a new one); Keystore keys and keys are
  counted so that an upgrade, a change of protection and a removal with re-creation fit in
  one behaviour. `Boot` is bounded by the number of Keystore keys left, so that the bound
  never stops a call half-way.
- *UserStorage.* User 0 and one more: no call relates two ordinary users. Two generations of
  each key show a removal with re-creation; two tries of a worker show a lock and an unlock
  between them. The worker of the code has five tries, which changes nothing but how long it
  lives.
- *Volumes.* No handler relates two physical cards; the card and the virtual disk differ in
  how they appear, the stub in how it is created. Two users, one of them user 0, show the
  special role of user 0. The model has no counters.
- *Disk.* Two cards show that one is taken for the other. Two private partitions, up to three
  queued events and two exchanges allow a partition call, an exchange and another call before
  the first event is handled.
- *Mounting.* Volumes that share nothing are in different layouts. Two failing steps are one
  in a mount and one in the clean-up or the next call. Processes are one that ends at a
  signal, one that never does, and the FUSE daemon, which is spared until the last round.
- *AppDirs.* A directory, two entries, one of them the cache, an entry below that, and another
  kind of directory: fix-ups reach one level, inheritance any level.
- *IdleMaint.* Two runners show a start against a running and an aborted run, two aborters
  show that `notify_one` wakes one of them; four runs let a blocked aborter meet a later run.

### Fairness

- `Checkpoint`: weak fairness of each thread's commit steps (a thread that has the lock goes
  on; no step of it waits), strong fairness of `DoCheckpointCommittedWork` (the detached
  threads of several commits are shown as one, and each stays runnable until it has run).
- `BowRestore`: weak fairness of the steps of the restore: every boot calls it before userdata
  is mounted, and it waits for nobody. Faults are bounded, not fair.
- `UserKeys`: weak fairness of the call that holds `mCryptLock`; strong fairness of
  `WorkBegin`, the detached thread that competes for that mutex with binder calls. A mutex
  that starved a waiter for ever would break it; bionic's does not promise a queue, and the
  assumption is no stronger than that each waiter gets the lock once in infinitely many
  releases. Nothing is assumed about apps, crashes or commits.
- `IdleMaint`: weak fairness of each thread. No spurious wake-up is relied upon.

## 4. What the runs show

*Checkpoint.* On mounts that no reported fault has left unprotected, no system ever runs on
data that a newer one made permanent. When vold believes there is no checkpoint, nothing is
silently held back, and when it believes there is one, everything is held but for known
faults and unfinished commits. `startCheckpoint(n)` is followed by at most `n` boots under a
checkpoint. The deferred work runs after a commit, unless the metadata file cannot be
removed.

*BowRestore.* However often a restore is interrupted, the device ends as it was before the
checkpoint, or, when the log is damaged or a read fails while nothing has been copied yet, as
it was at its end. The validation sees the same blocks as the replay. Restores end.

*Boot.* What is mounted as `/data` has been encrypted exactly once with the stored key, and
that key is not replaced by any boot that fails or is cut off, nor by a loss of `/metadata`.
`EncryptedOnce` leaves two cases out, in which the code is known to go wrong: `partial`, an encryption
in place that was cut off after it had written, and `dropped`, a failing flush that the code does not
notice.

*UserKeys.* No key is lost through upgrades, changes of protection, commits, rollbacks and
crashes. Two things are left out of `KeyKept` and recorded in `risk`: a failed fsync (what a
file system keeps after one is not defined) and the early fixation below.

*UserStorage.* An unlocked user's key is in the kernel whatever earlier workers do; directories
keep the key they were made with; interrupted starts and removals never make a later start
fail; the keys of a forgotten volume are of no use.

*Volumes, MoveStorage.* No order of events fails a `CHECK`, except with a storage move. Users
and private volumes always have exactly the emulated volumes they should; for user 0 the volume that
`start()` makes counts apart from that of the user (see the observations). A disk that waits is not forgotten
when the keyguard goes and user 0 starts, and none is read before. Wherever a move fails or is cut off, one
side is complete, unless the source could not be read; and a move always announces its volumes again.

*Disk.* When the queue is empty the volumes are those of the card in the reader, mapped with
their own keys. The event that `mSkipChange` throws away is never the one of the new table. A
partition never lacks its key.

*Mounting, AppDirs.* Every mount is undone on every way out but for the listed ones. A directory
that was prepared stays right, and what grows in it is counted, except in a cache directory that the
app made itself or that a repair counted as data.

*IdleMaint.* Runs exclude each other, gc_urgent and manual_gc are left on only if a write failed, and the
callers of abort do not all wait for ever, unless a run has returned without the wakelock.

### Finding

`user_keys_early_fixation`: an unlock under a pending checkpoint fixates at once
(`FsCrypt.cpp:223`) and deletes the Keystore key that a rollback needs, although the comment in
`FsCrypt.cpp:840` says why the fixation has to wait.

### Observations

Met while modelling. The models contain this behaviour; a property that would fail because of
it names the case as an exception (a history variable).

Checkpoint and idle maintenance:

- `cp_abortChanges` (`Checkpoint.cpp:254`) decides under `isCheckpointingLock` and writes the
  metadata file after releasing it. After a commit in between, `cp_needsRollback` is true.
- `isBow` is one flag for all dm-bow volumes (`Checkpoint.cpp:400`, `:212`). If one refuses
  state 1, the commit skips the others, which go on holding their writes back. After a restart of
  userspace under a checkpoint the devices that hold writes are asked again, and one that refuses
  has the same effect.
- Both iterators in `checkCollision` are the same, so that it always finds a collision: the
  partial result is saved for every entry. This costs time and is never wrong.
- Rolling forward writes block 0 and does not flush it; a cut then repeats the decision.
- Without the wakelock `RunIdleMaint` returns and leaves the status at running
  (`IdleMaint.cpp:413`); all later runs are turned away.
- `addFromVolumeManager` (`IdleMaint.cpp:99`) walks the list of disks without `mLock`.

Encryption at boot:

- An encryption in place that was interrupted cannot be resumed: nothing on disk says how far
  it came.
- `EncryptInPlaceExt4` drops the result of `ProcessUsedBlock` (`EncryptInplace.cpp:226`): a flush
  that fails leaves a block unencrypted in a file system reported as encrypted.
- The result of `mount_via_fs_mgr` is ignored (`MetadataCrypt.cpp:356`).
- `deleteAllKeys` runs before it is known whether a key may be generated.
- `delete_dir_contents` overwrites the result of an earlier error.

User storage:

- A key stays in the kernel when the session keyring refuses it (`installProvisioningKey`);
  vold takes the user for locked, and has nothing to evict.
- `fscrypt_lock_user_key` evicts the key of `/data` only, not those of adopted volumes.
- DE keys of ephemeral users are not reloaded after a restart of userspace.
- The directory entry of a new secdiscardable is not flushed.

Volumes, disks and mounting:

- OBB volumes survive `reset`, and a reconnected framework is not told of them
  (`FrameworkInSync` says so).
- `start()` creates an internal emulated volume for user 0 and `onUserStarted(0)` another
  with the same id; `findVolume` finds the first. `Volumes` names the first `Boot`, so that the double
  id is no `clash` and `UserVolumes` does not count it.
- `shutdown` returns at once when there is no internal volume (`VolumeManager.cpp:942`), which
  is so after a `reset` and before a user starts: disks are then not torn down.
- `execCp` returns OK when it finds nothing in the source (`MoveStorage.cpp:144`), also when
  `opendir` or `readdir` failed (`MoveStorage.cpp:65`): the move is announced as successful with nothing
  in the target, and the source is deleted (`unread` in `MoveKeepsData`).
- A card that is removed, a user who stops or a reset during a move destroys a volume the move
  still refers to, and its next `destroy()` fails a `CHECK` (`MoveStorage.cpp:187`,
  `VolumeBase.cpp:202`), which ends vold (`DestroyLost`).
- `mJustPartitioned` outlives a call that failed: the next card in the reader is formatted
  without being asked for (`loose`).
- `partitionMixed` checks the ratio only after the old table and the new key are written, and
  does not flush the key file.
- A device that is announced twice has two `Disk` objects; both hear all events.
- `vfat::Check` means to try a check again, but its `continue` in `do {} while (0)`
  (`Vfat.cpp:94`) leaves the loop.
- Mounts that stay behind (`leaky`): a public volume's raw mount when sdcardfs fails or times
  out, or when FUSE cannot be unmounted (`PublicVolume.cpp:300`); FUSE when its pass-through
  bind fails; a private volume when its common directories cannot be made; the trial mount of
  `ext4::Check` when it cannot be unmounted.
- A format as an unsupported file system wipes the device before it refuses.
- With FUSE BPF, apps with tmpfs views are not looked for when the storage goes.
- An owner that is mounted again while its clone stays mounted is not shared with it again.
- `fixupAppDir` of a package directory counts its cache as data, although `VolumeManager.h:188`
  says the result is as if it was created with `setupAppDir`; it reaches direct entries only,
  and what an app made before the inherit flag was set stays uncounted. A cache directory that
  the app makes itself inherits the project of the data (`Utils.cpp:411`) until a call has finished it.

## 5. What is proved

The proofs are checked by TLAPS, and hold for every value of the constants: any sets of mounts,
threads, disks, users, cards and tables, any sizes, and every bound. Each theorem but those about
types and `UnmountForgetsNothing` states a property that a run checks as well; the run shows on a small instance that the
property is not vacuous, and that a mutant of the code breaks it. In each module the non-temporal work is in one
lemma per action, `NextSound` (or `Next...`) collects them, and the theorems follow by `PTL`.

| module | theorem | property |
|---|---|---|
| `CheckpointProofs` | `TypeCorrect` | `TypeOK` |
| | `NoDowngradeHolds` | `NoDowngrade` |
| | `NoSilentHold` | `HeldImpliesCheckpointing` |
| | `CheckpointProtects` | `CheckpointingProtects` |
| | `RetriesBounded` | `RetryBound` |
| | `RelocationsAlwaysFollow` | `RelocationsFollow` of `BowRestore` |
| | `AlwaysAllOrNothing` | `AllOrNothing` of `BowRestore` |
| | `RestoresAreAtomic` | `AtomicSpec`: `BowRestore` refines `BowSpec` |
| `MetadataCryptProofs` | `MountedIsEncryptedOnce` | `EncryptedOnce` |
| | `TheDataKeyIsKept` | `DataKeyKept` |
| | `KeysBoundAlike` | `BoundAlike` |
| `UserKeysProofs` | `NoKeyLost` | `KeyKept` (an action property) |
| | `DeferredWorkStaysValid` | `DeferredWorkValid` |
| | `OnlyTheSecretReads` | `SecretOnly` |
| `UserStorageProofs` | `UnlockedUsersAreUsable` | `UnlockedUsable` |
| | `KernelKeysAreKnown` | `NoStrayKeys` |
| | `DirectoriesStayReadable` | `PoliciesKept` |
| | `StartsRecover` | `StartRecovers` |
| | `ForgottenIsShredded` | `Shredded` |
| `VolumesProofs` | `ChecksNeverFail` | `ChecksHold` |
| | `UsersHaveTheirVolumes` | `UserVolumes` |
| | `NoDiskForgotten` | `PendingWaits` |
| | `LockedDisksStayUnread` | `LockedDisksUnread` (an action property) |
| | `FrameworkStaysInSync` | `FrameworkInSync` |
| | `MoveNeverLosesData` | `MoveKeepsData` of `MoveStorage` |
| | `HiddenVolumesComeBack` | `VolumesComeBack` of `MoveStorage` |
| `DiskProofs` | `VolumesFollowTheCard` | `InSync` |
| | `OnlyAskedFormats` | `FormatsAsked` |
| | `PartitionsHaveKeys` | `KeysKept` |
| | `NothingStaysBehind` | `RemovedClean` |
| `MountingProofs` | `MountsAlwaysMatch` | `MountsMatch` |
| | `UnmountForgetsNothing` | `Removable`, defined with the proofs |
| | `NeverCheckedWhileMounted` | `CheckedOffline` |
| | `NoViewIsOrphaned` | `NoOrphanedViews` |
| `IdleMaintProofs` | `TypeCorrect` | `TypeOK` |
| | `RunsExclude` | `OneRun` |
| | `UrgentEnds` | `UrgentOnlyInGc` |

### Assumptions

They are named in the modules that declare the constants, and TLC evaluates each on the instance
of every run that uses it.

- `CheckpointAssumption`, `IdleMaintAssumption`, `UserKeysAssumption`, `StorageAssumption`,
  `DiskAssumption`, `MetadataAssumption`, `InplaceAssumption`, `MountingAssumption`: bounds are naturals, things with different names are
  different, records have the fields they should.
- `BowRestoreAssumption`: the same, and that dm-bow finds two free blocks to begin with.
- `VolumesAssumption`: the same, and that there is at most one virtual disk (the code has one
  flag for it) and that OBBs and disks have different names.
- `TablesAssumption`: the private partitions that cards have at first were not made by this
  device. Tables are those of `TableOf`: at most three partitions.
- `LayoutsAssumption`: the blocks of a file system are gone through in increasing order, are those
  in use, are as many as announced, and begin with the superblock. This is a statement about the
  recursive functions that compute them from the groups of an ext4; it would need an induction over
  groups, and is checked by TLC for the layouts of the instance only.

### Checkpoint

`NoDowngrade` is not inductive: it says nothing about the slot a bootloader may fall back to, nor
about the data that a commit is about to make permanent. `Safe` is the conjunction of

- `LockInv`: one thread at most is inside the commit; while it loops over the mounts the
  slot is marked, and what is still held is still to be visited;
- `LatchInv`: the latch is set once userdata is mounted, and while there is no checkpoint
  nothing is held;
- `SlotInv`: the next slot is the current one, or a newer system on trial next to a good one;
- `DataInv`: a mount that is not held reads what a reboot brings back; nothing permanent is
  newer than a system the bootloader may fall back to; while the slot is not marked, every
  mount is held, or excused by a fault.

Beside it, `DaemonInv`: when a daemon that has found too little space comes to call, the checkpoint is
still active or the commit that ended it has marked the slot.

The heart of the argument is the order in `cp_commitChanges`: data becomes permanent only
after the slot is marked, and once it is marked the bootloader does not fall back, so that
the last-but-two conjunct of `DataInv` is vacuous when a mount is released. `RetryInv` ties
the counter in the file to the boots that are still allowed; the boot attempt is counted
before the decision is taken.

### BowRestore

There are three theorems. The one about relocations has two halves. `RelocateFollows` is about `relocate` alone: for any map in
which each block has a greatest key up to it (`IsMap`), the new map finds the blocks of the restored
range where those of the saved range were found, and all others where they were; the cases are those of
the code, before the range, in its first and in its later slices, at the key that is split off
behind it, and beyond. The other half, `BowInv`, is about the log: what is looked up lies on the device
only if the entries do, and they come from blocks that were saved, moved, shortened, marked,
written to a cache and kept or not by a power cut. `Contents` says that any block that looks like a
log sector is one, wherever it is, and `Validating` that nothing is written while the log is validated.

`AllOrNothing` is about what a log means, and that is not visible in any one state: a log sector is saved
in a block that only the next sector names. The invariant `RestoreInv` therefore says that there is a
history `h` of the log (`Hist`): its entries in the order in which dm-bow made them, the log sector after
each of them, and for each the set of blocks that are needed to go back from there, with their contents. `Saves` is
the step from one entry to the next (the blocks it saves are no longer needed, those it saves them to are),
`Counted` says at which place of which sector it is written. A write under the checkpoint makes the
history longer (`Extends`, `BackupActive`); a restore walks it backwards. A device is always in one of
eleven phases of `h`:

- under the checkpoint (`Active`), or after it with nothing done yet (`Idle`, and `Check` at the j-th
  entry): block 0 is the last sector of `h`, and all that is needed is in place unless `rotten`. The
  validation fails at an entry only if something needed is damaged; that it looks for each block where
  the history has it comes from the theorem about relocations (`CheckEntry`);
- `Forward`, `Rolled` and `Kept`: the validation failed, which takes a damaged block or a fault (`Excused`),
  and the new data is kept by one write of block 0;
- `Replay` at the j-th entry, `Saving`, `Copying`, `Flushing`: the entry to be undone next is the j-th on
  the medium, and the run is at it or one before. Nothing that is needed is lost, because what the copies
  since the last partial result have written is never read again from there on (`ReplayReads`): a copy that was
  cut off is made again, and a cut between two entries finds either sector in block 0, both of which are
  right. A saved block that is damaged is caught by its checksum before each copy (`ReplayEntry`), so that the
  invariant has to keep track of the blocks in use alone (`Back`);
- `Restored`: block 0 and all blocks in use are the old ones.

There is one lemma for each phase and way out of it, and `PhaseStep` collects them. One lemma deserves a remark:
`AlwaysCollides`. `checkCollision` (`Checkpoint.cpp:535`) is true of every range, because the bound it finds is
never above the beginning of the range; so the partial result is saved before every copy, also where
nothing collides. That costs time, not safety, and the proof relies on it.

For the refinement, `SettledViewHolds` says that a device without a log in block 0 shows the old data or the
new, and `AtomicStep` goes through the steps: under the checkpoint blocks only become new, a restore
changes neither `role` nor `zero`, so that the view cannot change while a log is in block 0, nor after;
the one write that takes it away is `Settle`. The mapping needs no history: `h` is used in the proof only.

### MetadataCrypt

The three properties depend on each other. The key of the data is kept because a partition that
was encrypted is recognised by its superblock, also when the rest of the boot that encrypted it
was lost; so the superblock has to be encrypted whenever the data is (`DataSound`), which follows
from what the buffer does to each block: `BufferSound` says where the loop over the blocks is and
that what is pending was passed, `EncSound` that a block is encrypted if and only if it was passed
and is not pending. That an encryption starts on data that is not encrypted comes from
`CallSound`, which ties the program counter to the keys. `SeedSound` says that keys are used only
after the seed was settled.

### UserKeys

`KeyKept` compares what a reboot can read before and after each step. For each Keystore key that
a step deletes the invariant must say which directories, as they read now or after a reboot,
still want it (`Owned`: directories that share a Keystore key hold the same key; `Ahead`: an
upgraded blob that is a leftover is no directory's blob), for each directory it destroys what else
holds the key (`SecretStable`), and for each fsync that what it writes is at least as good as
what it replaces (`ViewGood`). `SlotSound` says that while the older system may boot again, a
reboot brings back only blobs which that system accepts: this is why an upgrade under a checkpoint
must not delete the old Keystore key. `CallSound` has one clause per step of the calls.

### UserStorage

`Ind` speaks of a user at a time. `UserOk`: what vold holds of a user's keys is what is stored, or
is not stored yet; a key that is damaged belongs to a user that leaves; a user that stays has its
DE key stored, and therefore `create_de_key` is refused for it (`storeKeyAtomically` does not
overwrite), which is all that keeps its directories readable; a user that the framework does not
know has nothing. `DirsOk`: the policies of the directories of a user that stays are those of the
stored keys, and on the adopted volume of keys with the hash of the present secdiscardable.
`StartSound` follows the start: a CE key of the system user that is not stored yet is the policy
of `/data/data` from `prepare_special_dirs` on. From these three it follows that no check of the
start refuses what an earlier boot left (`StartRecovers`). `KeyringSound` has what the workers need
(`Apart`: a key that is removed in part is not in use, so that a worker that finds it so harms
nobody) and what `try_reload_ce_keys` needs (`Provisioned`). `VolumeSound` is `Shredded` turned
into a statement about the secdiscardable. That keys differ from generation to generation is not
needed; only that they differ from user to user and from class to class.

### Volumes and MoveStorage

`Sound` says what the lists and flags have to do with each other: a disk is created if and only if
it is listed, a volume if and only if its disk is not pending (only the volume of a stub can be
there before), volumes are on disks that are in a list, what is mounted is created, and emulated
volumes are where users and mounted private volumes meet. Each `CHECK` follows from `Sound`, and
`Sound` holds after each handler because no `CHECK` failed in it. `MoveInd` adds the thread of a
move: where the data is at each of its steps (`MoveKeepsData` with its exception for a source that could
not be read), and that only volumes of the move are silent and are
there, or `lost`. The handlers keep `MoveInd` as they keep `Sound`, which was proved for them once.

### Disk

An object that does not show the card must have an event ahead of it that makes it do so: a
change, or two of them if the next is to be skipped, or the removal that destroys it (`ScanSound`).
`partitionPublic` sets `mSkipChange` only where it knows of two changes, and a scan that is skipped
uses up one of them. `PlugSound` is about the order of additions and removals in the queue: when the
reader is attached, an addition comes after the last removal, or an object is there and no removal
is queued. `JustSound`: `mJustPartitioned` belongs to a call on the card in the reader, or `loose`.
`DmSound`: what is mapped belongs to a volume of an object, or is left over.

### Mounting

`MountsMatch` needs `Removable`: what is mounted of a volume is what its `doUnmount` would unmount.
That depends on state which `doMount` left, possibly of an earlier mount: `mFuseMounted`,
`mSharedStorageMountPath`, the device. The steps of a mount are sequences, and are taken apart first:
`MountedWillGo` says that what a mount that succeeds has mounted is in `Removable`, `CleanUpComplete`
that one that fails leaves nothing, except at the steps of `KnownLeak`. Only the mount of the clone
touches a mount point of another volume; `PrimarySound` gives the state in which it finds it.
`ViewsFollow` is `NoOrphanedViews` also for storage that is mounted without FUSE, as an owner whose
mount failed halfway is.

### IdleMaint

`UrgentOnlyInGc` needs `OneRun`: the run that switches the collection off must be the only one
that could have switched it on. `OneRun` itself rests on the test for "not stopped" instead of
"running" at the start of a run.

### What the proofs found

- `fscrypt_vold_create_user_key` had been possible for a user of which a key directory was left;
  the framework calls it for new users only, and `KeyKept` depends on that: a new CE key would
  get the old directories.
- A table could not have a private partition of another device; the code finds such partitions
  and leaves them out, as their key is missing.
- `create_crypto_blk_dev` had overlapping guards in a `CASE`, of which TLC takes the first and
  the semantics any.
- That an OBB never has the name of a disk was assumed silently.
- A failing `initAsecStage` had ended the mount of a public volume; `PublicVolume.cpp:180` goes on.
- Every failing mount had reset `mFuseMounted`. A mount that fails before `MountUserFuse` leaves the
  flag of an earlier mount as it was, and `Removable` had to hold with that.
- `NoOrphanedViews` had an exception for leaky storage, which the proof does not need.

### Only model-checked

- Liveness, which is out of the prover's reach: `DeferredWorkRuns`, `FixationHappens`,
  `AbortReturns`, `Settles`.
- `PreparedRight` and `GrowthCounted` of `AppDirs`: a call folds the effects of a sequence of system
  calls, as long as its path and directory, and what a fold computes for every sequence is an
  induction over data.

## 6. What is not modelled, and the plan

Each component has its status and reason in `PROJECT.json`. Left out for good:

- parts without state of their own: loop devices, AppFuse, benchmarks, netlink parsing,
  validation of arguments, dumps, the parsing of fstab;
- the cryptography, and Keystore beyond the life of a key;
- the arithmetic of the urgent GC pace in `IdleMaint.cpp`: the rates come from kernel counters
  about which the code assumes nothing that could be checked; the device GC through a HAL, which
  nothing calls;
- kernels without file system keyrings, and the key that is made anew at every boot;
- the options of `mkfs`, `fsck` and `mount` of each file system.

The order in which the modules were written, which is also that of their importance: `Checkpoint` and
`UserKeys` (data and keys of all users), `Volumes` and `MoveStorage`, `IdleMaint`, `BowRestore` with
`BowSpec`, `MetadataCrypt`, `UserStorage`, `Disk`, `Mounting`, `AppDirs`; then the proofs of each. What
is left is listed under "Only model-checked".
