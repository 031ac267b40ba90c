----------------------------- MODULE Checkpoint -----------------------------
(***************************************************************************)
(* The userdata checkpoint of Checkpoint.cpp.                              *)
(*                                                                         *)
(* After an update the device boots with the writes to userdata held back  *)
(* (f2fs "checkpoint=disable", or a dm-bow device in state 1), so that a   *)
(* reboot brings the old data back.  cp_commitChanges makes them           *)
(* permanent; cp_abortChanges, or any reboot, throws them away.  The       *)
(* decision to checkpoint is taken once per boot, by the first             *)
(* cp_needsCheckpoint, from the boot slot and from a retry counter kept in *)
(* /metadata/vold/checkpoint.                                              *)
(*                                                                         *)
(* Threads: binder calls are serialised by VolumeManager::mLock, so they   *)
(* are one thread, Binder; every health daemon (one per checkpointed       *)
(* mount) is a thread of its own and takes only isCheckpointingLock.       *)
(* cp_commitChanges holds isCheckpointingLock from its first line to its   *)
(* last: the lock is held exactly while some thread's pc is inside it.     *)
(*                                                                         *)
(* External, modelled from the way the code uses it: the boot control HAL, *)
(* the bootloader, fs_mgr and init (which call markBootAttempt,            *)
(* needsCheckpoint and prepareCheckpoint in this order at every boot), and *)
(* the file systems.  Data is abstracted to the version of the system      *)
(* that wrote it last.                                                     *)
(***************************************************************************)
EXTENDS Integers

CONSTANTS
  FsMounts,        \* mounted volumes whose fstab entry says checkpoint_fs (f2fs)
  BlkMounts,       \* mounted volumes whose fstab entry says checkpoint_blk (dm-bow)
  Binder,          \* the thread of the (serialised) binder calls
  Slots,           \* A/B boot slots
  Devices,         \* the kinds of device: is there a boot control HAL, what does
                   \* ro.sys.cp_commit_on_full say, can userspace restart alone
  MaxRetry,        \* bound: largest retry given to startCheckpoint
  MaxSys           \* bound: number of system versions

Mounts == FsMounts \cup BlkMounts
Threads == Mounts \cup {Binder}

\* Values of a suffix field and of the metadata file that are no slot, no file.
NoSuffix == "no suffix"
NoFile == [n |-> -2, suffix |-> NoSuffix]

ASSUME CheckpointAssumption ==
  /\ FsMounts \cap BlkMounts = {}
  /\ Binder \notin Mounts
  /\ Slots # {} /\ NoSuffix \notin Slots
  /\ \A s1, s2, s3 \in Slots : s1 = s2 \/ s1 = s3 \/ s2 = s3  \* A and B
  /\ Devices \subseteq [bootControl : BOOLEAN, commitOnFull : BOOLEAN,
                         userspaceReboot : BOOLEAN]
  /\ MaxRetry \in Nat /\ MaxSys \in Nat

VARIABLES
  device,     \* the kind of this device; it never changes
  (* persistent *)
  cpFile,     \* kMetadataCPFile: counter and optional slot suffix, or NoFile
  slot,       \* the slot the device is running from
  next,       \* the slot the bootloader boots next
  slotOk,     \* slotOk[s]: s is marked successful
  sysVer,     \* sysVer[s]: version of the system installed in s
  base,       \* base[m]: version of the data a reboot brings back on m
  (* the running system *)
  phase,      \* progress of the boot
  isCheckpointing,
  needsCheckpointWasCalled,
  isBow,
  held,       \* the mounts whose writes are held back
  cur,        \* cur[m]: version of the data as it reads now
  pc,         \* what each thread is doing
  todo,       \* the mounts the commit loop has still to visit
  deferred,   \* DoCheckpointCommittedWork in this boot: "none" (there was no
              \* commit), "due", "started", "done", or "skipped" because the
              \* metadata file could not be removed
  (* history *)
  budget,     \* boots the last startCheckpoint still allows, Unlimited, or
              \* Sealed: that checkpoint has been committed
  exposed,    \* mounts some fault left unprotected during a checkpoint
  released    \* mounts released by a commit that has not come to its end

persistent == <<device, cpFile, slot, next, slotOk, sysVer, base>>
flags == <<isCheckpointing, needsCheckpointWasCalled, isBow>>
history == <<budget, exposed, released>>
vars == <<device, cpFile, slot, next, slotOk, sysVer, base, phase, isCheckpointing,
          needsCheckpointWasCalled, isBow, held, cur, pc, todo, deferred, budget, exposed, released>>

Phases == {"boot", "marked", "mounted", "running"}
Committing == {"commit mark", "commit mounts", "commit finish", "commit remove"}
Aborting == {"abort read", "abort write", "abort reboot"}
PCs == {"none", "idle", "poll", "low"} \cup Committing \cup Aborting

\* No count of boots applies: startCheckpoint(-1), or the file was not updated.
Unlimited == MaxRetry + 1
Sealed == MaxRetry + 2

\* vold.checkpoint_committed was set in this boot.
Committed == deferred # "none"

\* isCheckpointingLock: cp_commitChanges holds it throughout.
LockFree == \A t \in Threads : pc[t] \notin Committing

\* Where a thread goes when a call returns: the daemon's loop ends (break).
Returned(t) == IF t = Binder THEN "idle" ELSE "none"

NoThreads == [t \in Threads |-> IF t = Binder THEN "idle" ELSE "none"]

-----------------------------------------------------------------------------
(* The metadata file *)

Zero == [n |-> 0, suffix |-> NoSuffix]

\* cp_startCheckpoint: the counter is retry + 1; retry = -1 adds the slot.
cp_startCheckpoint(retry) ==
  /\ phase = "running" /\ pc[Binder] = "idle"
  /\ Mounts # {}
  /\ cpFile' = [n |-> retry + 1,
                suffix |-> IF retry = -1 /\ device.bootControl THEN slot ELSE NoSuffix]
  /\ budget' = IF retry = -1 THEN Unlimited ELSE retry
  /\ UNCHANGED <<device, slot, next, slotOk, sysVer, base, phase, flags, held, cur, pc,
                 todo, deferred, exposed, released>>

\* Mutant of Decremented: the guard "retry > 0" is off by one.
DecrementedLate(f) ==
  IF f.n > 1 THEN [n |-> f.n - 1, suffix |-> NoSuffix] ELSE f

\* The content cp_markBootAttempt writes: a counter of 0 is left as it is.
Decremented(f) ==
  IF f.n > 0 THEN [n |-> f.n - 1, suffix |-> NoSuffix] ELSE f

\* cp_markBootAttempt, called by init first thing in every boot.
cp_markBootAttempt ==
  /\ phase = "boot"
  /\ phase' = "marked"
  /\ \/ cpFile' = Decremented(cpFile) /\ UNCHANGED budget
     \/ cpFile.n > 0 /\ UNCHANGED cpFile /\ budget' = Unlimited
  /\ UNCHANGED <<device, slot, next, slotOk, sysVer, base, flags, held, cur, pc, todo,
                 deferred, exposed, released>>

-----------------------------------------------------------------------------
(* cp_needsCheckpoint *)

\* Mutant of LatchDecides: no latch, the file is read again in every call.
NoLatch == isCheckpointing

\* The three sources of the answer.  halOk: IsSlotMarkedSuccessful worked; fileOk:
\* so did the read of the file.
LatchDecides == needsCheckpointWasCalled \/ isCheckpointing
SlotDecides(halOk) == device.bootControl /\ halOk /\ ~slotOk[slot]
FileDecides(fileOk) == fileOk /\ cpFile # NoFile /\ cpFile # Zero

NeedsCheckpointResult(halOk, fileOk) ==
  IF LatchDecides THEN isCheckpointing ELSE SlotDecides(halOk) \/ FileDecides(fileOk)

\* One call of cp_needsCheckpoint: under isCheckpointingLock, hence atomic.
cp_needsCheckpoint(halOk, fileOk) ==
  /\ LockFree
  /\ needsCheckpointWasCalled' = TRUE
  /\ isCheckpointing' = NeedsCheckpointResult(halOk, fileOk)

\* cp_resetCheckpoint, called by init when it restarts userspace only: the
\* process, its flags and its threads survive, and the boot sequence is run
\* again.  init does so only on devices with userspace reboot.
cp_resetCheckpoint ==
  /\ device.userspaceReboot /\ phase = "running" /\ pc[Binder] = "idle" /\ LockFree
  /\ needsCheckpointWasCalled' = FALSE
  /\ phase' = "boot"
  /\ UNCHANGED <<persistent, isCheckpointing, isBow, held, cur, pc, todo,
                 deferred, history>>

\* fs_mgr mounts userdata and asks for the decision: under a checkpoint f2fs
\* is mounted with checkpoint=disable.  dm-bow starts to hold writes later.
MountUserdata(halOk, fileOk) ==
  /\ phase = "marked"
  /\ cp_needsCheckpoint(halOk, fileOk)
  /\ phase' = "mounted"
  /\ held' = IF isCheckpointing' THEN held \cup FsMounts ELSE held
  /\ budget' = IF ~LatchDecides /\ FileDecides(fileOk) /\ budget \in 0..MaxRetry
                THEN budget - 1 ELSE budget
  /\ exposed' = IF ~LatchDecides /\ ~isCheckpointing' /\ SlotDecides(TRUE)
                THEN Mounts ELSE exposed
  /\ UNCHANGED <<persistent, isBow, cur, pc, todo, deferred,
                 released>>

\* Any later call of cp_needsCheckpoint (the key code asks before it deletes
\* a Keystore key).
NeedsCheckpointAgain(halOk, fileOk) ==
  /\ phase \in {"mounted", "running"} /\ pc[Binder] = "idle"
  /\ cp_needsCheckpoint(halOk, fileOk)
  /\ UNCHANGED <<persistent, phase, isBow, held, cur, pc, todo, deferred, history>>

-----------------------------------------------------------------------------
(* cp_prepareCheckpoint: trims every dm-bow mount and puts it in state 1, and
   starts the health daemons.  A dm-bow mount that cannot be opened or trimmed is
   skipped, as are all mounts when /proc/mounts cannot be read; one whose state
   cannot be set clears isBow (noState).  After a restart of userspace a dm-bow
   mount may be in state 1 already, and stays in it. *)
Skippable == {Mounts} \cup SUBSET BlkMounts

cp_prepareCheckpoint(skipped, noState) ==
  /\ phase = "mounted" /\ LockFree
  /\ phase' = "running"
  /\ IF isCheckpointing
     THEN /\ isBow' = (isBow /\ noState = {})
          /\ held' = held \cup (BlkMounts \ (skipped \cup noState))
          /\ pc' = [t \in Threads |-> IF t \in Mounts \ skipped /\ pc[t] = "none"
                                      THEN "poll" ELSE pc[t]]
          /\ exposed' = exposed \cup ((BlkMounts \cap (skipped \cup noState)) \ held)
     ELSE UNCHANGED <<isBow, held, pc, exposed>>
  /\ UNCHANGED <<persistent, isCheckpointing, needsCheckpointWasCalled, cur,
                 todo, deferred, budget, released>>

-----------------------------------------------------------------------------
(* cp_commitChanges *)

\* Lock; nothing to do unless checkpointing; persist.vold.dont_commit_checkpoint.
CommitBegin(t) ==
  /\ LockFree
  /\ \/ /\ isCheckpointing
        /\ pc' = [pc EXCEPT ![t] = "commit mark"]
     \/ pc' = [pc EXCEPT ![t] = Returned(t)]
  /\ UNCHANGED <<persistent, phase, flags, held, cur, todo, deferred,
                 history>>

\* Mutant of MarkBootSuccessful: the slot is left unmarked.
MarkForgotten == slotOk

\* External: the HAL's MarkBootSuccessful().
MarkBootSuccessful ==
  IF device.bootControl THEN [slotOk EXCEPT ![slot] = TRUE] ELSE slotOk

\* Mutant of CommitLoop: dm-bow devices are forgotten.
CommitLoopFsOnly == FsMounts

\* The entries of /proc/mounts that the loop acts on.
CommitLoop == Mounts

\* MarkBootSuccessful; without a boot control HAL the commit goes on.
CommitMark(t) ==
  /\ pc[t] = "commit mark"
  /\ \/ /\ slotOk' = MarkBootSuccessful
        /\ todo' = CommitLoop
        /\ pc' = [pc EXCEPT ![t] = "commit mounts"]
     \/ /\ device.bootControl
        /\ pc' = [pc EXCEPT ![t] = Returned(t)]
        /\ UNCHANGED <<slotOk, todo>>
  /\ UNCHANGED <<device, cpFile, slot, next, sysVer, base, phase, flags, held, cur,
                 deferred, history>>

\* One round of the loop over the mounts: f2fs is remounted with
\* checkpoint=enable, a dm-bow device goes to state 2 unless isBow is false.
CommitMount(t, m) ==
  /\ pc[t] = "commit mounts" /\ m \in todo
  /\ todo' = todo \ {m}
  /\ IF m \in FsMounts \/ isBow
     THEN /\ held' = held \ {m}
          /\ base' = [base EXCEPT ![m] = cur[m]]
          /\ released' = released \cup {m}
     ELSE UNCHANGED <<held, base, released>>
  /\ UNCHANGED <<device, cpFile, slot, next, slotOk, sysVer, phase, flags, cur, pc,
                 deferred, budget, exposed>>

\* /proc/mounts cannot be read, a remount or a write of the bow state fails.
CommitFail(t) ==
  /\ pc[t] = "commit mounts" /\ todo # {}
  /\ pc' = [pc EXCEPT ![t] = Returned(t)]
  /\ todo' = {}
  /\ UNCHANGED <<persistent, phase, flags, held, cur, deferred,
                 history>>

CommitFinish(t) ==
  /\ pc[t] = "commit mounts" /\ todo = {}
  /\ deferred' = "due"
  /\ isCheckpointing' = FALSE
  /\ budget' = Sealed /\ released' = {}
  /\ exposed' = {m \in exposed : base[m] > sysVer[slot]}
  /\ pc' = [pc EXCEPT ![t] = "commit remove"]
  /\ UNCHANGED <<persistent, phase, needsCheckpointWasCalled, isBow, held, cur,
                 todo>>

\* Mutant of CommitRemove: the thread is not started when there was no file,
\* as in a checkpoint that only the boot slot asked for.
CommitRemoveOnlyIfPresent(t) ==
  /\ pc[t] = "commit remove"
  /\ pc' = [pc EXCEPT ![t] = Returned(t)]
  /\ cpFile' = NoFile
  /\ deferred' = IF cpFile = NoFile THEN deferred ELSE "started"
  /\ UNCHANGED <<device, slot, next, slotOk, sysVer, base, phase, flags, held, cur,
                 todo, budget, exposed, released>>

\* RemoveFileIfExists; only if that works is the deferred work started.
CommitRemove(t) ==
  /\ pc[t] = "commit remove"
  /\ pc' = [pc EXCEPT ![t] = Returned(t)]
  /\ \/ cpFile' = NoFile /\ deferred' = "started" /\ UNCHANGED budget
     \/ /\ cpFile # NoFile /\ UNCHANGED cpFile
        /\ deferred' = "skipped" /\ budget' = Unlimited
  /\ UNCHANGED <<device, slot, next, slotOk, sysVer, base, phase, flags, held, cur,
                 todo, exposed, released>>

\* The detached thread DoCheckpointCommittedWork.
DoCheckpointCommittedWork ==
  /\ deferred = "started"
  /\ deferred' = "done"
  /\ UNCHANGED <<persistent, phase, flags, held, cur, pc, todo, history>>

CommitStep(t) ==
  \/ CommitMark(t)
  \/ \E m \in Mounts : CommitMount(t, m)
  \/ CommitFail(t)
  \/ CommitFinish(t)
  \/ CommitRemove(t)

-----------------------------------------------------------------------------
(* Reboots *)

\* The device starts again from slot s: held writes are gone, memory is fresh.
BootInto(s) ==
  /\ slot' = s /\ next' = s
  /\ phase' = "boot"
  /\ isCheckpointing' = FALSE /\ needsCheckpointWasCalled' = FALSE
  /\ isBow' = TRUE
  /\ held' = {} /\ cur' = base
  /\ pc' = NoThreads /\ todo' = {}
  /\ deferred' = "none"
  /\ released' = {}
  /\ exposed' = {m \in exposed : ~slotOk[slot] \/ base[m] > sysVer[slot]}
  /\ UNCHANGED <<device, slotOk, sysVer, base, budget>>

\* The bootloader gives up on a slot that is not marked successful.
RebootSlot == {next} \cup {s \in Slots : slotOk[s] /\ ~slotOk[next]}

\* A reboot, a power cut or a crash of vold (reboot_on_failure) at any moment.
Crash == (\E s \in RebootSlot : BootInto(s)) /\ UNCHANGED cpFile

\* cp_abortChanges: returns unless cp_needsCheckpoint.
AbortBegin(t, retry) ==
  /\ \E halOk, fileOk \in BOOLEAN : cp_needsCheckpoint(halOk, fileOk)
  /\ pc' = [pc EXCEPT ![t] = IF ~isCheckpointing' THEN Returned(t)
                             ELSE IF retry THEN "abort reboot" ELSE "abort read"]
  /\ UNCHANGED <<persistent, phase, isBow, held, cur, todo, deferred,
                 history>>

\* abort_metadata_file reads the counter, and then writes "0" over it.
AbortRead(t) ==
  /\ pc[t] = "abort read"
  /\ pc' = [pc EXCEPT ![t] = IF cpFile.n > 0 THEN "abort write"
                                             ELSE "abort reboot"]
  /\ UNCHANGED <<persistent, phase, flags, held, cur, todo, deferred,
                 history>>

AbortWrite(t) ==
  /\ pc[t] = "abort write"
  /\ pc' = [pc EXCEPT ![t] = "abort reboot"]
  /\ cpFile' = Zero \/ UNCHANGED cpFile
  /\ UNCHANGED <<device, slot, next, slotOk, sysVer, base, phase, flags, held, cur,
                 todo, deferred, history>>

AbortReboot(t) == pc[t] = "abort reboot" /\ Crash

AbortStep(t) == AbortRead(t) \/ AbortWrite(t) \/ AbortReboot(t)

-----------------------------------------------------------------------------
(* cp_healthDaemon *)

DaemonExit(m) ==
  /\ pc[m] = "poll" /\ ~isCheckpointing
  /\ pc' = [pc EXCEPT ![m] = "none"]
  /\ UNCHANGED <<persistent, phase, flags, held, cur, todo, deferred,
                 history>>

\* isCheckpointing is read without the lock, and the space is found too low; the
\* call comes later.
DaemonLowSpace(m) ==
  /\ pc[m] = "poll" /\ isCheckpointing
  /\ pc' = [pc EXCEPT ![m] = "low"]
  /\ UNCHANGED <<persistent, phase, flags, held, cur, todo, deferred,
                 history>>

DaemonCall(m) ==
  /\ pc[m] = "low"
  /\ IF device.commitOnFull THEN CommitBegin(m) ELSE AbortBegin(m, FALSE)

cp_healthDaemon(m) == DaemonExit(m) \/ DaemonLowSpace(m) \/ DaemonCall(m)

-----------------------------------------------------------------------------
(* The rest of the system (external) *)

\* The running system writes to m, and leaves its version there.
AppWrite(m) ==
  /\ phase = "running"
  /\ cur' = [cur EXCEPT ![m] = sysVer[slot]]
  /\ base' = IF m \in held THEN base ELSE [base EXCEPT ![m] = sysVer[slot]]
  /\ UNCHANGED <<device, cpFile, slot, next, slotOk, sysVer, phase, flags, held, pc,
                 todo, deferred, history>>

\* update_engine installs a newer system in another slot and makes it active.
InstallUpdate(s) ==
  /\ phase = "running" /\ device.bootControl /\ s # slot /\ slotOk[slot]
  /\ sysVer[slot] < MaxSys
  /\ sysVer' = [sysVer EXCEPT ![s] = sysVer[slot] + 1]
  /\ slotOk' = [slotOk EXCEPT ![s] = FALSE]
  /\ next' = s
  /\ UNCHANGED <<device, cpFile, slot, base, phase, flags, held, cur, pc, todo,
                 deferred, history>>

\* update_verifier marks the slot itself when there is no checkpoint to commit.
UpdateVerifier ==
  /\ phase = "running" /\ device.bootControl /\ ~isCheckpointing /\ ~slotOk[slot]
  /\ slotOk' = [slotOk EXCEPT ![slot] = TRUE]
  /\ UNCHANGED <<device, cpFile, slot, next, sysVer, base, phase, flags, held, cur, pc,
                 todo, deferred, history>>

-----------------------------------------------------------------------------
Init ==
  /\ device \in Devices
  /\ cpFile = NoFile
  /\ slot = (CHOOSE s \in Slots : TRUE) /\ next = slot
  /\ slotOk = [s \in Slots |-> TRUE] /\ sysVer = [s \in Slots |-> 0]
  /\ base = [m \in Mounts |-> 0] /\ cur = [m \in Mounts |-> 0]
  /\ phase = "running"
  /\ isCheckpointing = FALSE /\ needsCheckpointWasCalled = TRUE /\ isBow = TRUE
  /\ held = {} /\ pc = NoThreads /\ todo = {}
  /\ deferred = "none"
  /\ budget = Unlimited /\ exposed = {} /\ released = {}

BinderCall ==
  /\ phase = "running" /\ pc[Binder] = "idle"
  /\ \/ CommitBegin(Binder)
     \/ \E retry \in BOOLEAN : AbortBegin(Binder, retry)

Next ==
  \/ \E retry \in -1..MaxRetry : cp_startCheckpoint(retry)
  \/ cp_markBootAttempt
  \/ \E halOk, fileOk \in BOOLEAN :
       MountUserdata(halOk, fileOk) \/ NeedsCheckpointAgain(halOk, fileOk)
  \/ \E skipped \in Skippable : \E noState \in SUBSET (BlkMounts \ skipped) :
       cp_prepareCheckpoint(skipped, noState)
  \/ cp_resetCheckpoint
  \/ BinderCall
  \/ \E t \in Threads : CommitStep(t) \/ AbortStep(t)
  \/ \E m \in Mounts : cp_healthDaemon(m) \/ AppWrite(m)
  \/ DoCheckpointCommittedWork
  \/ \E s \in Slots : InstallUpdate(s)
  \/ UpdateVerifier
  \/ Crash

Spec == Init /\ [][Next]_vars

\* A call that took isCheckpointingLock goes on, and a detached thread runs.
\* Strong fairness for the latter: userspace may restart and commit again
\* before the thread of an earlier commit has run; the model shows the threads
\* as one, and each of them stays runnable until it has run.
Fairness ==
  /\ SF_vars(DoCheckpointCommittedWork)
  /\ \A t \in Threads : WF_vars(CommitStep(t))

FairSpec == Spec /\ Fairness

-----------------------------------------------------------------------------
(* Properties *)

FileContents ==
  {NoFile} \cup [n : 0..(MaxRetry + 1), suffix : Slots \cup {NoSuffix}]

\* Every variable keeps its type (the metadata file never holds -1).
TypeOK ==
  /\ device \in Devices
  /\ cpFile \in FileContents
  /\ slot \in Slots /\ next \in Slots
  /\ slotOk \in [Slots -> BOOLEAN] /\ sysVer \in [Slots -> 0..MaxSys]
  /\ base \in [Mounts -> 0..MaxSys] /\ cur \in [Mounts -> 0..MaxSys]
  /\ phase \in Phases
  /\ isCheckpointing \in BOOLEAN /\ needsCheckpointWasCalled \in BOOLEAN
  /\ isBow \in BOOLEAN
  /\ held \subseteq Mounts /\ todo \subseteq Mounts
  /\ pc \in [Threads -> PCs]
  /\ deferred \in {"none", "due", "started", "done", "skipped"}
  /\ budget \in -1..Sealed
  /\ exposed \subseteq Mounts /\ released \subseteq Mounts

\* The purpose of the checkpoint: whatever crashes, aborts, partial commits and
\* slot fallbacks happen, no system ever runs on data that a newer system made
\* permanent, except on a mount that a reported fault left unprotected.
NoDowngrade ==
  \A m \in Mounts \ exposed : base[m] <= sysVer[slot]

\* No silent loss: when vold believes that there is no checkpoint (so that
\* cp_commitChanges does nothing), no mount is still holding its writes back,
\* unless a dm-bow device has failed before.
HeldImpliesCheckpointing == isBow /\ held # {} => isCheckpointing

\* When vold believes that a checkpoint is active on the running system, a reboot
\* does bring back every mount, but for those a fault left unprotected and those
\* an unfinished commit has already released.
CheckpointingProtects ==
  isCheckpointing /\ phase = "running" => Mounts = held \cup exposed \cup released

\* startCheckpoint(n) allows at most n boots under a checkpoint, however they end.
RetryBound == budget >= 0

\* After a commit the work that was deferred to it is done, unless the device
\* reboots or the metadata file could not be removed.
DeferredWorkRuns == Committed ~> (~Committed \/ deferred \in {"done", "skipped"})
=============================================================================
