-------------------------- MODULE CheckpointProofs --------------------------
(***************************************************************************)
(* Safety of the userdata checkpoint for every set of mounts, every kind   *)
(* of device and every bound.                                              *)
(*                                                                         *)
(* None of the properties is inductive alone.  The invariant Safe          *)
(* adds what ties the flags of vold to the file systems and to the boot    *)
(* control HAL: who holds isCheckpointingLock, what the latch              *)
(* needsCheckpointWasCalled means in each phase of a boot, that a mount    *)
(* which is not held reads what a reboot would bring back, and that a slot *)
(* the bootloader may still give up on has exposed nothing.                *)
(*                                                                         *)
(* The second half is about the restore of a dm-bow device: RestoreInv     *)
(* says that there is a history of the log, and how far a restore has gone *)
(* back in it.  From it follow AllOrNothing and the refinement of BowSpec. *)
(***************************************************************************)
EXTENDS Checkpoint, BowRestore, FiniteSetTheorems, WellFoundedInduction, TLAPS

\* At most one thread is inside cp_commitChanges, and it got there because a
\* checkpoint is active; while it runs its loop the slot is marked.
LockInv ==
  /\ \A t, u \in Threads : pc[t] \in Committing /\ pc[u] \in Committing => t = u
  /\ \A t \in Threads : pc[t] \in {"commit mark", "commit mounts"} => isCheckpointing
  /\ \A t \in Threads : pc[t] = "commit mounts" => slotOk[slot]
  /\ \A t \in Threads : pc[t] = "commit mounts" /\ isBow => held \subseteq todo

\* The latch is set once userdata is mounted.  Before that it is set only if a
\* health daemon has asked, in a restart of userspace alone.
LatchInv ==
  /\ phase \in {"mounted", "running"} => needsCheckpointWasCalled
  /\ phase \in {"boot", "marked"} /\ needsCheckpointWasCalled
       => isCheckpointing \/ slotOk[slot]
  /\ ~isCheckpointing /\ isBow => held = {}
  /\ phase \in {"mounted", "running"} /\ isCheckpointing
       => FsMounts \subseteq held \cup exposed \cup released
  /\ phase = "running" /\ isCheckpointing
       => BlkMounts \subseteq held \cup exposed \cup released

\* Slots: the next one is the current one, or a newer system on trial.
SlotInv ==
  /\ next # slot => slotOk[slot] /\ ~slotOk[next] /\ sysVer[slot] <= sysVer[next]
  /\ ~device.bootControl => next = slot /\ \A s \in Slots : slotOk[s]

\* Data: a mount that is not held reads what a reboot would bring back, a held
\* one may read what the running system wrote, nothing is newer
\* than the running system, and nothing permanent is newer than a system the
\* bootloader may fall back to.
DataInv ==
  /\ \A m \in Mounts \ held : base[m] = cur[m]
  /\ \A m \in Mounts : cur[m] = base[m] \/ cur[m] = sysVer[slot]
  /\ \A m \in Mounts \ exposed : base[m] <= sysVer[slot] /\ cur[m] <= sysVer[slot]
  /\ \A s \in Slots : ~slotOk[slot] /\ slotOk[s] =>
       \A m \in Mounts \ exposed : base[m] <= sysVer[s]
  /\ phase \in {"mounted", "running"} /\ ~slotOk[slot]
       => FsMounts \subseteq held \cup exposed
  /\ phase = "running" /\ ~slotOk[slot] => BlkMounts \subseteq held \cup exposed
  /\ phase \in {"mounted", "running"} /\ ~slotOk[slot] /\ ~isCheckpointing
       => Mounts \subseteq exposed

\* The counter in the file is what is left of the budget, until the next boot
\* attempt takes one off it.
RetryInv ==
  /\ RetryBound
  /\ budget < Unlimited => /\ cpFile.suffix = NoSuffix
                           /\ cpFile.n <= budget + 1
                           /\ phase = "marked" => cpFile.n <= budget

Safe == LockInv /\ LatchInv /\ SlotInv /\ DataInv

\* A health daemon that has found the space too low may be late with its call; if the
\* checkpoint is over by then, it was committed, and the slot is marked.
DaemonInv == \A m \in Mounts : pc[m] = "low" => isCheckpointing \/ slotOk[slot]

-----------------------------------------------------------------------------
(* Facts about the constants and the operators *)

LEMMA ThreadFacts ==
  /\ Binder \in Threads /\ Mounts \subseteq Threads
  /\ FsMounts \subseteq Mounts /\ BlkMounts \subseteq Mounts
  /\ \A m \in Mounts : m \in FsMounts \/ m \in BlkMounts
  BY DEF Threads, Mounts

\* The contents vold writes, and the one it leaves.
LEMMA FileFacts ==
  /\ NoFile \in FileContents /\ Zero \in FileContents
  /\ \A r \in -1..MaxRetry, x \in Slots \cup {NoSuffix} :
       [n |-> r + 1, suffix |-> x] \in FileContents
  /\ \A f \in FileContents : Decremented(f) \in FileContents
<1>1. NoFile \in FileContents /\ Zero \in FileContents
  BY CheckpointAssumption DEF FileContents, Zero
<1>2. \A r \in -1..MaxRetry, x \in Slots \cup {NoSuffix} :
        [n |-> r + 1, suffix |-> x] \in FileContents
  <2> TAKE r \in -1..MaxRetry, x \in Slots \cup {NoSuffix}
  <2>1. r + 1 \in 0..(MaxRetry + 1)
    BY CheckpointAssumption
  <2> QED
    BY <2>1 DEF FileContents
<1>3. ASSUME NEW f \in FileContents
      PROVE  Decremented(f) \in FileContents
  <2>1. CASE f = NoFile
    BY <1>1, <2>1 DEF Decremented, NoFile
  <2>2. CASE f # NoFile
    <3>1. f \in [n : 0..(MaxRetry + 1), suffix : Slots \cup {NoSuffix}]
      BY <2>2 DEF FileContents
    <3>2. CASE f.n > 0
      <4>1. f.n - 1 \in 0..(MaxRetry + 1)
        BY <3>1, <3>2, CheckpointAssumption
      <4>2. Decremented(f) = [n |-> f.n - 1, suffix |-> NoSuffix]
        BY <3>2 DEF Decremented
      <4> QED
        BY <4>1, <4>2 DEF FileContents
    <3>3. CASE ~(f.n > 0)
      BY <3>3 DEF Decremented
    <3> QED
      BY <3>2, <3>3
  <2> QED
    BY <2>1, <2>2
<1> QED
  BY <1>1, <1>2, <1>3

LEMMA ReturnedFacts ==
  \A t \in Threads : Returned(t) \in PCs /\ Returned(t) \notin Committing
  BY DEF Returned, PCs, Committing

\* The values of pc that the actions assign.
LEMMA PCFacts ==
  /\ "none" \in PCs /\ "idle" \in PCs /\ "poll" \in PCs /\ "low" \in PCs
  /\ "commit mark" \in PCs /\ "commit mounts" \in PCs /\ "commit remove" \in PCs
  /\ \A f \in [Threads -> PCs], t \in Threads, v \in PCs :
       [f EXCEPT ![t] = v] \in [Threads -> PCs]
  BY DEF PCs, Committing, Aborting

LEMMA TypeStep == TypeOK /\ [Next]_vars => TypeOK'
<1> SUFFICES ASSUME TypeOK, [Next]_vars PROVE TypeOK'
  OBVIOUS
<1> USE CheckpointAssumption, ThreadFacts, FileFacts, ReturnedFacts
    DEF TypeOK, Phases, Unlimited, Sealed, persistent, flags, history
<1>1. ASSUME NEW retry \in -1..MaxRetry, cp_startCheckpoint(retry)
      PROVE  TypeOK'
  BY <1>1 DEF cp_startCheckpoint
<1>2. ASSUME cp_markBootAttempt
      PROVE  TypeOK'
  BY <1>2 DEF cp_markBootAttempt
<1>3. ASSUME NEW halOk \in BOOLEAN, NEW fileOk \in BOOLEAN, MountUserdata(halOk, fileOk)
      PROVE  TypeOK'
  <2>1. isCheckpointing' \in BOOLEAN /\ needsCheckpointWasCalled' \in BOOLEAN
    BY <1>3 DEF MountUserdata, cp_needsCheckpoint, NeedsCheckpointResult,
           LatchDecides, SlotDecides, FileDecides
  <2>2. budget' \in -1..Sealed
    BY <1>3 DEF MountUserdata
  <2>3. held' \subseteq Mounts /\ exposed' \subseteq Mounts
    BY <1>3 DEF MountUserdata
  <2> QED
    BY <1>3, <2>1, <2>2, <2>3 DEF MountUserdata
<1>4. ASSUME NEW halOk \in BOOLEAN, NEW fileOk \in BOOLEAN, NeedsCheckpointAgain(halOk, fileOk)
      PROVE  TypeOK'
  BY <1>4 DEF NeedsCheckpointAgain, cp_needsCheckpoint, NeedsCheckpointResult,
         LatchDecides, SlotDecides, FileDecides
<1>5. ASSUME NEW skipped \in Skippable,
             NEW noState \in SUBSET (BlkMounts \ skipped),
             cp_prepareCheckpoint(skipped, noState)
      PROVE  TypeOK'
  <2>1. pc' \in [Threads -> PCs]
    <3>1. \/ pc' = pc
          \/ pc' = [t \in Threads |-> IF t \in Mounts \ skipped /\ pc[t] = "none"
                                      THEN "poll" ELSE pc[t]]
      BY <1>5, Zenon DEF cp_prepareCheckpoint
    <3>2. \A t \in Threads : pc[t] \in PCs /\ "poll" \in PCs
      BY PCFacts
    <3> QED
      BY ONLY <3>1, <3>2, pc \in [Threads -> PCs]
  <2>2. held' \subseteq Mounts /\ exposed' \subseteq Mounts
    <3>1. /\ held' = held \/ held' = held \cup (BlkMounts \ (skipped \cup noState))
          /\ exposed' = exposed \/ exposed' = exposed \cup ((BlkMounts \cap (skipped \cup noState)) \ held)
      BY <1>5, Zenon DEF cp_prepareCheckpoint
    <3> QED
      BY <3>1
  <2>3. isBow' \in BOOLEAN
    BY <1>5, Zenon DEF cp_prepareCheckpoint
  <2> QED
    BY <1>5, <2>1, <2>2, <2>3 DEF cp_prepareCheckpoint
<1>6. ASSUME cp_resetCheckpoint
      PROVE  TypeOK'
  BY <1>6 DEF cp_resetCheckpoint
<1>7. ASSUME NEW t \in Threads, CommitBegin(t)
      PROVE  TypeOK'
  <2>1. pc' \in [Threads -> PCs]
    <3>1. PICK v \in {"commit mark", Returned(t)} : pc' = [pc EXCEPT ![t] = v]
      BY <1>7, Zenon DEF CommitBegin
    <3>2. v \in PCs
      BY ONLY <3>1, t \in Threads, PCFacts, ReturnedFacts
    <3> QED
      BY <3>1, <3>2
  <2> QED
    BY <1>7, <2>1 DEF CommitBegin
<1>8. ASSUME NEW t \in Threads, NEW retry \in BOOLEAN, AbortBegin(t, retry)
      PROVE  TypeOK'
  BY <1>8 DEF AbortBegin, cp_needsCheckpoint, NeedsCheckpointResult, LatchDecides,
         SlotDecides, FileDecides, PCs, Aborting
<1>9. ASSUME NEW t \in Threads, CommitMark(t)
      PROVE  TypeOK'
  <2>1. pc' \in [Threads -> PCs]
    <3>1. PICK v \in {"commit mounts", Returned(t)} : pc' = [pc EXCEPT ![t] = v]
      BY <1>9, Zenon DEF CommitMark
    <3>2. v \in PCs
      BY ONLY <3>1, t \in Threads, PCFacts, ReturnedFacts
    <3> QED
      BY <3>1, <3>2
  <2>2. slotOk' \in [Slots -> BOOLEAN] /\ todo' \subseteq Mounts
    <3>1. /\ slotOk' = slotOk \/ slotOk' = [slotOk EXCEPT ![slot] = TRUE]
          /\ todo' = todo \/ todo' = Mounts
      BY <1>9, Zenon DEF CommitMark, MarkBootSuccessful, CommitLoop
    <3> QED
      BY ONLY <3>1, slotOk \in [Slots -> BOOLEAN], slot \in Slots, todo \subseteq Mounts
  <2> QED
    BY <1>9, <2>1, <2>2 DEF CommitMark
<1>10. ASSUME NEW t \in Threads, NEW m \in Mounts, CommitMount(t, m)
      PROVE  TypeOK'
  <2>1. /\ base' = base \/ base' = [base EXCEPT ![m] = cur[m]]
        /\ held' = held \/ held' = held \ {m}
        /\ released' = released \/ released' = released \cup {m}
        /\ todo' = todo \ {m}
    BY <1>10, Zenon DEF CommitMount
  <2>2. /\ base' \in [Mounts -> 0..MaxSys]
        /\ held' \subseteq Mounts /\ todo' \subseteq Mounts /\ released' \subseteq Mounts
    BY <2>1
  <2> QED
    BY <1>10, <2>2 DEF CommitMount
<1>11. ASSUME NEW t \in Threads, CommitFail(t)
      PROVE  TypeOK'
  BY <1>11 DEF CommitFail
<1>12. ASSUME NEW t \in Threads, CommitFinish(t)
      PROVE  TypeOK'
  <2>1. pc' \in [Threads -> PCs]
    BY <1>12, PCFacts DEF CommitFinish
  <2>2. budget' \in -1..Sealed /\ exposed' \subseteq Mounts
    <3>1. budget' = Sealed /\ exposed' \subseteq exposed
      BY <1>12, Zenon DEF CommitFinish
    <3> QED
      BY <3>1
  <2> QED
    BY <1>12, <2>1, <2>2 DEF CommitFinish
<1>13. ASSUME NEW t \in Threads, CommitRemove(t)
      PROVE  TypeOK'
  <2>1. pc' \in [Threads -> PCs]
    BY <1>13, PCFacts DEF CommitRemove
  <2>2. budget' \in -1..Sealed /\ cpFile' \in FileContents
    <3>1. /\ cpFile' = cpFile \/ cpFile' = NoFile
          /\ budget' = budget \/ budget' = Unlimited
      BY <1>13, Zenon DEF CommitRemove
    <3> QED
      BY <3>1
  <2> QED
    BY <1>13, <2>1, <2>2 DEF CommitRemove
<1>14. ASSUME NEW t \in Threads, AbortRead(t)
      PROVE  TypeOK'
  BY <1>14 DEF AbortRead, PCs, Aborting
<1>15. ASSUME NEW t \in Threads, AbortWrite(t)
      PROVE  TypeOK'
  <2>1. pc' \in [Threads -> PCs]
    <3>1. pc' = [pc EXCEPT ![t] = "abort reboot"]
      BY <1>15, Zenon DEF AbortWrite
    <3>2. "abort reboot" \in PCs
      BY DEF PCs, Aborting
    <3> QED
      BY ONLY <3>1, <3>2, PCFacts, t \in Threads, pc \in [Threads -> PCs]
  <2>2. cpFile' \in FileContents
    <3>1. cpFile' = Zero \/ cpFile' = cpFile
      BY <1>15, Zenon DEF AbortWrite
    <3> QED
      BY ONLY <3>1, FileFacts, cpFile \in FileContents
  <2> QED
    BY <1>15, <2>1, <2>2 DEF AbortWrite
<1>16. ASSUME NEW m \in Mounts, DaemonExit(m) \/ DaemonLowSpace(m)
      PROVE  TypeOK'
  BY <1>16 DEF DaemonExit, DaemonLowSpace, PCs
<1>17. ASSUME NEW m \in Mounts, AppWrite(m)
      PROVE  TypeOK'
  BY <1>17 DEF AppWrite
<1>18. ASSUME DoCheckpointCommittedWork
      PROVE  TypeOK'
  BY <1>18 DEF DoCheckpointCommittedWork
<1>19. ASSUME NEW s \in Slots, InstallUpdate(s)
      PROVE  TypeOK'
  BY <1>19 DEF InstallUpdate
<1>20. ASSUME UpdateVerifier
      PROVE  TypeOK'
  BY <1>20 DEF UpdateVerifier
<1>21. ASSUME Crash
      PROVE  TypeOK'
  <2>1. PICK s \in RebootSlot : BootInto(s)
    BY <1>21 DEF Crash
  <2>2. s \in Slots
    BY DEF RebootSlot
  <2>3. pc' \in [Threads -> PCs]
    BY <2>1, PCFacts DEF BootInto, NoThreads
  <2>4. exposed' \subseteq Mounts /\ cpFile' = cpFile
    BY <1>21, <2>1 DEF Crash, BootInto
  <2> QED
    BY <2>1, <2>2, <2>3, <2>4 DEF BootInto
<1>22. CASE UNCHANGED vars
  BY <1>22 DEF vars
<1> HIDE DEF TypeOK
<1>23. ASSUME NEW m \in Mounts, DaemonCall(m)
       PROVE  TypeOK'
  BY <1>7, <1>8, <1>23 DEF DaemonCall
<1>24. ASSUME BinderCall
       PROVE  TypeOK'
  BY <1>7, <1>8, <1>24 DEF BinderCall
<1>25. ASSUME NEW t \in Threads, CommitStep(t) \/ AbortStep(t)
       PROVE  TypeOK'
  BY <1>9, <1>10, <1>11, <1>12, <1>13, <1>14, <1>15, <1>21, <1>25
     DEF CommitStep, AbortStep, AbortReboot
<1>26. ASSUME NEW m \in Mounts, cp_healthDaemon(m) \/ AppWrite(m)
       PROVE  TypeOK'
  BY <1>16, <1>17, <1>23, <1>26 DEF cp_healthDaemon
<1> QED
  BY <1>1, <1>2, <1>3, <1>4, <1>5, <1>6, <1>18, <1>19, <1>20, <1>21, <1>22, <1>24,
     <1>25, <1>26 DEF Next

-----------------------------------------------------------------------------
(* The actions that need more than their own definition *)

\* Userdata is mounted: without a checkpoint on a slot that is on trial, the
\* HAL's answer was lost and every mount counts as exposed.
LEMMA MountUserdataStep ==
  ASSUME TypeOK, Safe, NEW halOk \in BOOLEAN, NEW fileOk \in BOOLEAN, MountUserdata(halOk, fileOk)
  PROVE  Safe'
<1> USE CheckpointAssumption DEF Safe
<1>1. /\ LockFree /\ phase = "marked" /\ phase' = "mounted"
      /\ UNCHANGED <<device, cpFile, slot, next, slotOk, sysVer, base, isBow, cur, pc,
                     todo, released>>
      /\ needsCheckpointWasCalled' = TRUE
  BY DEF MountUserdata, cp_needsCheckpoint, persistent
<1>2. LockInv'
  BY <1>1 DEF LockInv, LockFree, Committing
<1>3. SlotInv'
  BY <1>1 DEF SlotInv
<1>4. /\ isCheckpointing' => held' = held \cup FsMounts
      /\ ~isCheckpointing' => held' = held
      /\ exposed \subseteq exposed'
      /\ exposed' = exposed \/ exposed' = Mounts
  BY Zenon DEF MountUserdata, TypeOK
<1>5. ~isCheckpointing' => ~isCheckpointing
  BY Zenon DEF MountUserdata, cp_needsCheckpoint, NeedsCheckpointResult, LatchDecides
<1>6. LatchInv'
  BY <1>1, <1>4, <1>5 DEF LatchInv
<1>7. ~isCheckpointing' /\ ~slotOk[slot] => Mounts \subseteq exposed'
  <2> SUFFICES ASSUME ~isCheckpointing', ~slotOk[slot]
               PROVE  exposed' = Mounts
    OBVIOUS
  <2>1. device.bootControl
    BY Zenon DEF SlotInv, TypeOK
  <2>2. ~needsCheckpointWasCalled
    BY <1>1, <1>5 DEF LatchInv
  <2> QED
    BY <1>5, <2>1, <2>2, Zenon DEF MountUserdata, LatchDecides, SlotDecides
<1>8. DataInv'
  BY <1>1, <1>4, <1>7 DEF DataInv, TypeOK, Mounts
<1> QED
  BY <1>2, <1>3, <1>6, <1>8

\* The boot is complete: dm-bow devices start to hold, or are exposed.
LEMMA PrepareCheckpointStep ==
  ASSUME TypeOK, Safe,
         NEW skipped \in Skippable, NEW noState \in SUBSET (BlkMounts \ skipped),
         cp_prepareCheckpoint(skipped, noState)
  PROVE  Safe'
<1> USE CheckpointAssumption DEF Safe
<1>1. /\ LockFree /\ phase = "mounted" /\ phase' = "running"
      /\ UNCHANGED <<device, cpFile, slot, next, slotOk, sysVer, base, cur, todo,
                     isCheckpointing, needsCheckpointWasCalled, released>>
  BY DEF cp_prepareCheckpoint, persistent
<1>2. \A t \in Threads : pc'[t] = pc[t] \/ pc'[t] = "poll"
  <2>1. \/ pc' = pc
        \/ pc' = [t \in Threads |-> IF t \in Mounts \ skipped /\ pc[t] = "none"
                                    THEN "poll" ELSE pc[t]]
    BY Zenon DEF cp_prepareCheckpoint
  <2> QED
    BY <2>1, Zenon
<1>3. LockInv'
  <2>1. \A t \in Threads : pc'[t] \notin Committing
    BY <1>1, <1>2 DEF LockFree, Committing
  <2> QED
    BY <2>1 DEF LockInv, Committing
<1>4. SlotInv'
  BY <1>1 DEF SlotInv
<1>5. CASE isCheckpointing
  <2>1. /\ held' = held \cup (BlkMounts \ (skipped \cup noState))
        /\ exposed' = exposed \cup ((BlkMounts \cap (skipped \cup noState)) \ held)
    BY <1>5, Zenon DEF cp_prepareCheckpoint
  <2>2. LatchInv'
    BY <1>1, <1>5, <2>1 DEF LatchInv
  <2>3. DataInv'
    BY <1>1, <1>5, <2>1 DEF DataInv, Mounts
  <2> QED
    BY <1>3, <1>4, <2>2, <2>3
<1>6. CASE ~isCheckpointing
  <2>1. held' = held /\ exposed' = exposed /\ isBow' = isBow
    BY <1>6, Zenon DEF cp_prepareCheckpoint
  <2>2. LatchInv'
    BY <1>1, <1>6, <2>1 DEF LatchInv
  <2>3. DataInv'
    BY <1>1, <1>6, <2>1 DEF DataInv, Mounts
  <2> QED
    BY <1>3, <1>4, <2>2, <2>3
<1> QED
  BY <1>5, <1>6

\* The lock is taken by one thread, under a checkpoint.
LEMMA CommitBeginStep ==
  ASSUME TypeOK, Safe, NEW t \in Threads, CommitBegin(t)
  PROVE  Safe'
<1> USE CheckpointAssumption DEF Safe
<1>1. /\ LockFree
      /\ UNCHANGED <<device, cpFile, slot, next, slotOk, sysVer, base, phase,
                     isCheckpointing, needsCheckpointWasCalled, isBow, held, cur, todo,
                     exposed, released>>
  BY DEF CommitBegin, persistent, flags, history
<1>2. LatchInv' /\ SlotInv' /\ DataInv'
  BY <1>1 DEF LatchInv, SlotInv, DataInv
<1>3. PICK v \in {"commit mark", Returned(t)} :
        pc' = [pc EXCEPT ![t] = v] /\ (v = "commit mark" => isCheckpointing)
  <2>1. Returned(t) # "commit mark"
    BY DEF Returned
  <2> QED
    BY <2>1, Zenon DEF CommitBegin
<1>4. \A u \in Threads : u # t => pc'[u] \notin Committing
  <2>1. pc \in [Threads -> PCs]
    BY Zenon DEF TypeOK
  <2> QED
    BY ONLY <1>1, <1>3, <2>1, t \in Threads DEF LockFree
<1>5. pc'[t] \in Committing => pc'[t] = "commit mark" /\ isCheckpointing
  <2>1. pc'[t] = v
    BY <1>3 DEF TypeOK
  <2>2. v = "commit mark" \/ pc'[t] \notin Committing
    BY ONLY <1>3, <2>1, ReturnedFacts, t \in Threads
  <2> QED
    BY <1>3, <2>1, <2>2, Zenon
<1>6. LockInv'
  BY <1>1, <1>4, <1>5 DEF LockInv, Committing
<1> QED
  BY <1>2, <1>6

\* A commit marks the slot before it touches a mount: from here on the
\* bootloader no longer falls back.
LEMMA CommitMarkStep ==
  ASSUME TypeOK, Safe, NEW t \in Threads, CommitMark(t)
  PROVE  Safe'
<1> USE CheckpointAssumption DEF Safe
<1>1. /\ pc[t] = "commit mark"
      /\ UNCHANGED <<device, cpFile, slot, next, sysVer, base, phase,
                     isCheckpointing, needsCheckpointWasCalled, isBow, held, cur,
                     exposed, released>>
  BY DEF CommitMark, flags, history
<1>2. isCheckpointing /\ \A u \in Threads : u # t => pc[u] \notin Committing
  BY <1>1 DEF LockInv, Committing
<1>3. CASE pc' = [pc EXCEPT ![t] = Returned(t)] /\ slotOk' = slotOk
  <2>1. \A u \in Threads : pc'[u] \notin Committing
    BY <1>2, <1>3, ReturnedFacts DEF TypeOK
  <2>2. LockInv'
    BY <2>1 DEF LockInv, Committing
  <2>3. LatchInv' /\ SlotInv' /\ DataInv'
    BY <1>1, <1>3 DEF LatchInv, SlotInv, DataInv
  <2> QED
    BY <2>2, <2>3
<1>4. CASE pc' = [pc EXCEPT ![t] = "commit mounts"] /\ slotOk' = MarkBootSuccessful /\ todo' = Mounts
  <2>1. slotOk'[slot] /\ \A s \in Slots : s # slot => slotOk'[s] = slotOk[s]
    <3>1. CASE device.bootControl
      <4>1. slotOk' = [slotOk EXCEPT ![slot] = TRUE]
        BY <1>4, <3>1, Zenon DEF MarkBootSuccessful
      <4> QED
        BY <4>1 DEF TypeOK
    <3>2. CASE ~device.bootControl
      <4>1. slotOk' = slotOk /\ slotOk[slot]
        BY <1>4, <3>2, Zenon DEF MarkBootSuccessful, SlotInv, TypeOK
      <4> QED
        BY <4>1
    <3> QED
      BY <3>1, <3>2
  <2>2. \A u \in Threads : u # t => pc'[u] \notin Committing
    <3>1. \A u \in Threads : u # t => pc'[u] = pc[u]
      BY <1>4 DEF TypeOK
    <3> QED
      BY <1>2, <3>1
  <2>3. LockInv'
    BY <1>1, <1>2, <1>4, <2>1, <2>2 DEF LockInv, TypeOK, Committing
  <2>4. LatchInv'
    BY <1>1, <1>2, <2>1 DEF LatchInv
  <2>5. SlotInv'
    BY <1>1, <2>1 DEF SlotInv, TypeOK
  <2>6. DataInv'
    BY <1>1, <2>1 DEF DataInv, TypeOK
  <2> QED
    BY <2>3, <2>4, <2>5, <2>6
<1> QED
  BY <1>3, <1>4, Zenon DEF CommitMark, CommitLoop

\* A mount is released: what it reads becomes permanent.
LEMMA CommitMountStep ==
  ASSUME TypeOK, Safe, NEW t \in Threads, NEW m \in Mounts, CommitMount(t, m)
  PROVE  Safe'
<1> USE CheckpointAssumption DEF Safe
<1>1. /\ pc[t] = "commit mounts" /\ todo' = todo \ {m}
      /\ UNCHANGED <<device, cpFile, slot, next, slotOk, sysVer, phase,
                     isCheckpointing, needsCheckpointWasCalled, isBow, cur, pc, exposed>>
  BY DEF CommitMount, flags
<1>2. isCheckpointing /\ slotOk[slot]
  BY <1>1, Zenon DEF LockInv
<1>3. SlotInv'
  BY <1>1 DEF SlotInv
<1>4. CASE m \in FsMounts \/ isBow
  <2>1. /\ held' = held \ {m} /\ released' = released \cup {m}
        /\ base' = [base EXCEPT ![m] = cur[m]]
    BY <1>4, Zenon DEF CommitMount
  <2>2. LockInv'
    BY <1>1, <2>1 DEF LockInv
  <2>3. LatchInv'
    BY <1>1, <1>2, <2>1 DEF LatchInv
  <2>4. /\ base'[m] = cur[m]
        /\ \A k \in Mounts : k # m => base'[k] = base[k] /\ (k \in held' <=> k \in held)
    BY <2>1 DEF TypeOK
  <2>5. DataInv'
    BY <1>1, <1>2, <2>4 DEF DataInv, TypeOK
  <2> QED
    BY <1>3, <2>2, <2>3, <2>5
<1>5. CASE ~(m \in FsMounts \/ isBow)
  <2>1. ~isBow /\ held' = held /\ released' = released /\ base' = base
    BY <1>5, Zenon DEF CommitMount
  <2>2. LockInv'
    BY <1>1, <2>1 DEF LockInv
  <2>3. LatchInv' /\ DataInv'
    BY <1>1, <2>1 DEF LatchInv, DataInv
  <2> QED
    BY <1>3, <2>2, <2>3
<1> QED
  BY <1>4, <1>5

\* The commit is complete: the checkpoint is over, and every mount that a dm-bow
\* device has not failed is released.
LEMMA CommitFinishStep ==
  ASSUME TypeOK, Safe, NEW t \in Threads, CommitFinish(t)
  PROVE  Safe'
<1> USE CheckpointAssumption DEF Safe
<1>1. /\ pc[t] = "commit mounts" /\ todo = {} /\ isCheckpointing' = FALSE
      /\ pc' = [pc EXCEPT ![t] = "commit remove"]
      /\ UNCHANGED <<device, cpFile, slot, next, slotOk, sysVer, base, phase,
                     needsCheckpointWasCalled, isBow, held, cur, todo>>
  BY DEF CommitFinish, persistent
<1>2. slotOk[slot] /\ (isBow => held = {})
  <2>1. slotOk[slot] /\ (isBow => held \subseteq {})
    BY <1>1, Zenon DEF LockInv
  <2> QED
    BY <2>1
<1>3. \A u \in Threads : u # t => pc[u] \notin Committing /\ pc'[u] = pc[u]
  <2>1. \A u \in Threads : u # t => pc[u] \notin Committing
    <3>1. pc[t] \in Committing
      BY <1>1 DEF Committing
    <3> QED
      BY <3>1, Zenon DEF LockInv
  <2>2. pc \in [Threads -> PCs]
    BY Zenon DEF TypeOK
  <2>3. \A u \in Threads : u # t => pc'[u] = pc[u]
    BY ONLY <1>1, <2>2, t \in Threads
  <2> QED
    BY <2>1, <2>3, Zenon
<1>4. LockInv'
  BY <1>1, <1>3 DEF LockInv, Committing, TypeOK
<1>5. LatchInv'
  BY <1>1, <1>2 DEF LatchInv
<1>6. SlotInv'
  BY <1>1 DEF SlotInv
<1>7. \A m \in Mounts : m \notin exposed' => m \notin exposed \/ base[m] <= sysVer[slot]
  <2>1. exposed' = {m \in exposed : base[m] > sysVer[slot]}
    BY Zenon DEF CommitFinish
  <2> QED
    BY <2>1 DEF TypeOK
<1>8. DataInv'
  <2>1. \A m \in Mounts \ exposed' : base[m] <= sysVer[slot] /\ cur[m] <= sysVer[slot]
    <3> TAKE m \in Mounts \ exposed'
    <3>1. base[m] <= sysVer[slot]
      BY <1>7 DEF DataInv
    <3>2. cur[m] = base[m] \/ cur[m] = sysVer[slot]
      BY DEF DataInv
    <3> QED
      BY <3>1, <3>2 DEF TypeOK
  <2> QED
    BY <1>1, <1>2, <2>1 DEF DataInv
<1> QED
  BY <1>4, <1>5, <1>6, <1>8

\* Any reboot: every mount reads what is permanent, and the bootloader chose a
\* slot that this data is not too new for.
LEMMA CrashStep ==
  ASSUME TypeOK, Safe, Crash
  PROVE  Safe'
<1> USE CheckpointAssumption DEF Safe
<1>1. PICK s \in RebootSlot : BootInto(s)
  BY DEF Crash
<1>2. /\ slot' = s /\ next' = s /\ phase' = "boot"
      /\ isCheckpointing' = FALSE /\ needsCheckpointWasCalled' = FALSE
      /\ held' = {} /\ cur' = base
      /\ UNCHANGED <<device, slotOk, sysVer, base>>
  BY <1>1 DEF BootInto
<1>3. LockInv'
  <2>1. \A t \in Threads : pc'[t] \notin Committing
    BY <1>1 DEF BootInto, NoThreads, Committing
  <2> QED
    BY <2>1 DEF LockInv, Committing
<1>4. LatchInv'
  BY <1>2 DEF LatchInv
<1>5. s \in Slots /\ (s = next \/ (slotOk[s] /\ ~slotOk[next]))
  <2>1. s = next \/ (s \in Slots /\ slotOk[s] /\ ~slotOk[next])
    BY Zenon DEF RebootSlot
  <2>2. next \in Slots
    BY DEF TypeOK
  <2> QED
    BY ONLY <2>1, <2>2
<1>6. SlotInv'
  BY <1>2, <1>5 DEF SlotInv
<1>7. \A m \in Mounts : m \notin exposed' =>
        m \notin exposed \/ (slotOk[slot] /\ base[m] <= sysVer[slot])
  <2>1. exposed' = {m \in exposed : ~slotOk[slot] \/ base[m] > sysVer[slot]}
    BY <1>1, Zenon DEF BootInto
  <2> QED
    BY <2>1 DEF TypeOK
<1>8. \A m \in Mounts \ exposed' : base[m] <= sysVer[slot]
  BY <1>7 DEF DataInv
<1>9. \A m \in Mounts \ exposed' : base[m] <= sysVer[s]
  <2> TAKE m \in Mounts \ exposed'
  <2>1. CASE s = slot
    BY <1>8, <2>1
  <2>2. CASE s # slot /\ s = next
    <3>1. sysVer[slot] <= sysVer[s]
      BY <2>2 DEF SlotInv
    <3> QED
      BY <1>5, <1>8, <3>1 DEF TypeOK
  <2>3. CASE s # slot /\ s # next
    <3>1. next = slot
      BY <1>5, <2>3 DEF TypeOK
    <3>2. slotOk[s] /\ ~slotOk[slot]
      BY <1>5, <2>3, <3>1
    <3> QED
      BY <1>5, <1>7, <3>2 DEF DataInv
  <2> QED
    BY <2>1, <2>2, <2>3
<1>10. \A z \in Slots : ~slotOk[s] /\ slotOk[z] =>
         \A m \in Mounts \ exposed' : base[m] <= sysVer[z]
  <2> SUFFICES ASSUME NEW z \in Slots, ~slotOk[s], slotOk[z],
                      NEW m \in Mounts \ exposed'
               PROVE  base[m] <= sysVer[z]
    OBVIOUS
  <2>1. s = next /\ s # z
    BY <1>5
  <2>2. CASE z = slot
    BY <1>8, <2>2
  <2>3. CASE z # slot
    <3>1. slot = s
      BY <1>5, <2>1, <2>3 DEF TypeOK
    <3> QED
      BY <1>7, <3>1 DEF DataInv
  <2> QED
    BY <2>2, <2>3
<1>11. DataInv'
  BY <1>2, <1>9, <1>10 DEF DataInv
<1> QED
  BY <1>3, <1>4, <1>6, <1>11

-----------------------------------------------------------------------------
(* Every step *)

\* A thread that leaves or stays out of cp_commitChanges disturbs no other.
LEMMA LeaveLock ==
  ASSUME TypeOK, LockInv, NEW t \in Threads, NEW v, v \notin Committing,
         pc' = [pc EXCEPT ![t] = v],
         isCheckpointing => isCheckpointing',
         UNCHANGED <<slot, slotOk, isBow, held>>,
         todo' = todo \/ pc[t] \in Committing
  PROVE  LockInv'
<1>1. pc'[t] \notin Committing /\ \A u \in Threads : u # t => pc'[u] = pc[u]
  BY DEF TypeOK
<1>2. CASE todo' = todo
  BY <1>1, <1>2 DEF LockInv, Committing
<1>3. CASE pc[t] \in Committing
  <2>1. \A u \in Threads : pc'[u] \notin Committing
    BY <1>1, <1>3 DEF LockInv
  <2> QED
    BY <2>1 DEF LockInv, Committing
<1> QED
  BY <1>2, <1>3

LEMMA VersionFacts == TypeOK => sysVer[slot] \in Nat
  BY CheckpointAssumption DEF TypeOK

LEMMA SafeStep == TypeOK /\ Safe /\ DaemonInv /\ [Next]_vars => Safe'
<1> SUFFICES ASSUME TypeOK, Safe, DaemonInv, [Next]_vars PROVE Safe'
  OBVIOUS
<1> USE CheckpointAssumption, ReturnedFacts
    DEF TypeOK, Safe, Committing, persistent, flags, history
<1>1. ASSUME NEW retry \in -1..MaxRetry, cp_startCheckpoint(retry)
      PROVE  Safe'
  <2>1. LockInv'
    BY <1>1 DEF LockInv, cp_startCheckpoint
  <2>2. LatchInv'
    BY <1>1 DEF LatchInv, cp_startCheckpoint
  <2>3. SlotInv'
    BY <1>1 DEF SlotInv, cp_startCheckpoint
  <2>4. DataInv'
    BY <1>1 DEF DataInv, cp_startCheckpoint
  <2> QED
    BY <2>1, <2>2, <2>3, <2>4
<1>2. ASSUME cp_markBootAttempt
      PROVE  Safe'
  <2>1. LockInv'
    BY <1>2 DEF LockInv, cp_markBootAttempt
  <2>2. LatchInv'
    BY <1>2 DEF LatchInv, cp_markBootAttempt
  <2>3. SlotInv'
    BY <1>2 DEF SlotInv, cp_markBootAttempt
  <2>4. DataInv'
    BY <1>2 DEF DataInv, cp_markBootAttempt
  <2> QED
    BY <2>1, <2>2, <2>3, <2>4
<1>3. ASSUME NEW halOk \in BOOLEAN, NEW fileOk \in BOOLEAN, NeedsCheckpointAgain(halOk, fileOk)
      PROVE  Safe'
  <2>1. LockInv'
    BY <1>3 DEF LockInv, NeedsCheckpointAgain, cp_needsCheckpoint, NeedsCheckpointResult, LatchDecides
  <2>2. LatchInv'
    BY <1>3 DEF LatchInv, NeedsCheckpointAgain, cp_needsCheckpoint, NeedsCheckpointResult, LatchDecides
  <2>3. SlotInv'
    BY <1>3 DEF SlotInv, NeedsCheckpointAgain, cp_needsCheckpoint, NeedsCheckpointResult, LatchDecides
  <2>4. DataInv'
    BY <1>3 DEF DataInv, NeedsCheckpointAgain, cp_needsCheckpoint, NeedsCheckpointResult, LatchDecides
  <2> QED
    BY <2>1, <2>2, <2>3, <2>4
<1>4. ASSUME cp_resetCheckpoint
      PROVE  Safe'
  <2>1. LockInv'
    BY <1>4 DEF LockInv, cp_resetCheckpoint
  <2>2. LatchInv'
    BY <1>4 DEF LatchInv, cp_resetCheckpoint
  <2>3. SlotInv'
    BY <1>4 DEF SlotInv, cp_resetCheckpoint
  <2>4. DataInv'
    BY <1>4 DEF DataInv, cp_resetCheckpoint
  <2> QED
    BY <2>1, <2>2, <2>3, <2>4
<1>5. ASSUME NEW t \in Threads, NEW retry \in BOOLEAN, LatchDecides \/ slotOk[slot],
             AbortBegin(t, retry)
      PROVE  Safe'
  <2>1. LockInv'
    <3>1. PICK v \in {Returned(t), "abort reboot", "abort read"} :
            pc' = [pc EXCEPT ![t] = v]
      BY <1>5, Zenon DEF AbortBegin
    <3>2. isCheckpointing => isCheckpointing'
      BY <1>5, Zenon DEF AbortBegin, cp_needsCheckpoint, NeedsCheckpointResult, LatchDecides
    <3>3. v \notin Committing
      BY <1>5
    <3>4. UNCHANGED <<slot, slotOk, isBow, held, todo>>
      BY <1>5 DEF AbortBegin
    <3> QED
      BY ONLY TypeOK, LockInv, t \in Threads, <3>1, <3>2, <3>3, <3>4, LeaveLock
  <2>2. LatchInv'
    BY <1>5 DEF LatchInv, AbortBegin, cp_needsCheckpoint, NeedsCheckpointResult, LatchDecides
  <2>3. SlotInv'
    BY <1>5 DEF SlotInv, AbortBegin, cp_needsCheckpoint, NeedsCheckpointResult, LatchDecides
  <2>4. DataInv'
    BY <1>5 DEF DataInv, AbortBegin, cp_needsCheckpoint, NeedsCheckpointResult, LatchDecides
  <2> QED
    BY <2>1, <2>2, <2>3, <2>4
<1>6. ASSUME NEW t \in Threads, CommitFail(t)
      PROVE  Safe'
  <2>1. LockInv'
    BY <1>6, LeaveLock DEF CommitFail
  <2>2. LatchInv'
    BY <1>6 DEF LatchInv, CommitFail
  <2>3. SlotInv'
    BY <1>6 DEF SlotInv, CommitFail
  <2>4. DataInv'
    BY <1>6 DEF DataInv, CommitFail
  <2> QED
    BY <2>1, <2>2, <2>3, <2>4
<1>7. ASSUME NEW t \in Threads, CommitRemove(t)
      PROVE  Safe'
  <2>1. LockInv'
    <3>1. /\ pc' = [pc EXCEPT ![t] = Returned(t)]
          /\ UNCHANGED <<slot, slotOk, isBow, held, todo, isCheckpointing>>
      BY <1>7 DEF CommitRemove
    <3> QED
      BY <1>7, <3>1, LeaveLock
  <2>2. LatchInv'
    BY <1>7 DEF LatchInv, CommitRemove
  <2>3. SlotInv'
    BY <1>7 DEF SlotInv, CommitRemove
  <2>4. DataInv'
    BY <1>7 DEF DataInv, CommitRemove
  <2> QED
    BY <2>1, <2>2, <2>3, <2>4
<1>8. ASSUME NEW t \in Threads, AbortRead(t)
      PROVE  Safe'
  <2>1. LockInv'
    <3>1. PICK v \in {"abort write", "abort reboot"} : pc' = [pc EXCEPT ![t] = v]
      BY <1>8, Zenon DEF AbortRead
    <3>2. UNCHANGED <<slot, slotOk, isBow, held, todo, isCheckpointing>>
      BY <1>8 DEF AbortRead
    <3> QED
      BY <1>8, <3>1, <3>2, LeaveLock
  <2>2. LatchInv'
    BY <1>8 DEF LatchInv, AbortRead
  <2>3. SlotInv'
    BY <1>8 DEF SlotInv, AbortRead
  <2>4. DataInv'
    BY <1>8 DEF DataInv, AbortRead
  <2> QED
    BY <2>1, <2>2, <2>3, <2>4
<1>9. ASSUME NEW t \in Threads, AbortWrite(t)
      PROVE  Safe'
  <2>1. LockInv'
    BY <1>9, LeaveLock DEF AbortWrite
  <2>2. LatchInv'
    BY <1>9 DEF LatchInv, AbortWrite
  <2>3. SlotInv'
    BY <1>9 DEF SlotInv, AbortWrite
  <2>4. DataInv'
    BY <1>9 DEF DataInv, AbortWrite
  <2> QED
    BY <2>1, <2>2, <2>3, <2>4
<1>10. ASSUME NEW m \in Mounts, DaemonExit(m) \/ DaemonLowSpace(m)
      PROVE  Safe'
  <2>1. LockInv'
    <3>1. PICK v \in {"none", "low"} : pc' = [pc EXCEPT ![m] = v]
      BY <1>10, Zenon DEF DaemonExit, DaemonLowSpace
    <3>2. m \in Threads /\ UNCHANGED <<slot, slotOk, isBow, held, todo, isCheckpointing>>
      BY <1>10, ThreadFacts DEF DaemonExit, DaemonLowSpace
    <3>3. v \notin Committing
      OBVIOUS
    <3> QED
      BY ONLY <3>1, <3>2, <3>3, LeaveLock, TypeOK, LockInv
  <2>2. UNCHANGED <<device, slot, next, slotOk, sysVer, base, phase, isCheckpointing,
                    needsCheckpointWasCalled, isBow, held, cur, exposed, released>>
    BY <1>10 DEF DaemonExit, DaemonLowSpace
  <2>3. LatchInv' /\ SlotInv' /\ DataInv'
    BY <2>2 DEF LatchInv, SlotInv, DataInv
  <2> QED
    BY <2>1, <2>3
<1>11. ASSUME NEW m \in Mounts, AppWrite(m)
      PROVE  Safe'
  <2>1. LockInv'
    BY <1>11 DEF LockInv, AppWrite
  <2>2. LatchInv'
    BY <1>11 DEF LatchInv, AppWrite
  <2>3. SlotInv'
    BY <1>11 DEF SlotInv, AppWrite
  <2>4. DataInv'
    <3>1. /\ phase = "running" /\ UNCHANGED <<slot, slotOk, sysVer, phase, held, exposed,
                                              isCheckpointing>>
          /\ cur' = [cur EXCEPT ![m] = sysVer[slot]]
          /\ m \in held => base' = base
          /\ m \notin held => base' = [base EXCEPT ![m] = sysVer[slot]]
      BY <1>11, Zenon DEF AppWrite
    <3>2. /\ cur'[m] = sysVer[slot]
          /\ m \in held => base'[m] = base[m]
          /\ m \notin held => base'[m] = sysVer[slot]
          /\ \A k \in Mounts : k # m => cur'[k] = cur[k] /\ base'[k] = base[k]
      <4>1. CASE m \in held
        BY ONLY <3>1, <4>1, base \in [Mounts -> 0..MaxSys],
                cur \in [Mounts -> 0..MaxSys], m \in Mounts
      <4>2. CASE m \notin held
        <5>1. /\ base' = [base EXCEPT ![m] = sysVer[slot]]
              /\ cur' = [cur EXCEPT ![m] = sysVer[slot]]
          BY <3>1, <4>2
        <5> QED
          BY ONLY <4>2, <5>1, base \in [Mounts -> 0..MaxSys],
                  cur \in [Mounts -> 0..MaxSys], m \in Mounts
      <4> QED
        BY <4>1, <4>2
    <3>3. ~slotOk[slot] => m \in held \/ m \in exposed
      BY <1>11, <3>1, ThreadFacts DEF DataInv
    <3>4. /\ \A k \in Mounts \ held : base'[k] = cur'[k]
          /\ \A k \in Mounts : cur'[k] = base'[k] \/ cur'[k] = sysVer[slot]
          /\ \A k \in Mounts \ exposed : base'[k] <= sysVer[slot] /\ cur'[k] <= sysVer[slot]
      <4> SUFFICES ASSUME NEW k \in Mounts
                   PROVE  /\ k \notin held => base'[k] = cur'[k]
                          /\ cur'[k] = base'[k] \/ cur'[k] = sysVer[slot]
                          /\ k \notin exposed =>
                               base'[k] <= sysVer[slot] /\ cur'[k] <= sysVer[slot]
        OBVIOUS
      <4>1. CASE k = m
        <5>1. sysVer[slot] \in Nat /\ cur'[k] = sysVer[slot]
          BY <3>2, <4>1, VersionFacts
        <5>2. k \notin exposed => base[k] <= sysVer[slot]
          BY DEF DataInv
        <5>3. base'[k] = sysVer[slot] \/ (k \in held /\ base'[k] = base[k])
          BY <3>2, <4>1
        <5> QED
          BY ONLY <5>1, <5>2, <5>3
      <4>2. CASE k # m
        BY <1>11, <3>2, <4>2 DEF DataInv
      <4> QED
        BY <4>1, <4>2
    <3>5. \A s \in Slots : ~slotOk[slot] /\ slotOk[s] =>
            \A k \in Mounts \ exposed : base'[k] <= sysVer[s]
      BY <1>11, <3>2, <3>3 DEF DataInv
    <3> QED
      BY <3>1, <3>4, <3>5 DEF DataInv
  <2> QED
    BY <2>1, <2>2, <2>3, <2>4
<1>12. ASSUME DoCheckpointCommittedWork
      PROVE  Safe'
  <2>1. LockInv'
    BY <1>12 DEF LockInv, DoCheckpointCommittedWork
  <2>2. LatchInv'
    BY <1>12 DEF LatchInv, DoCheckpointCommittedWork
  <2>3. SlotInv'
    BY <1>12 DEF SlotInv, DoCheckpointCommittedWork
  <2>4. DataInv'
    BY <1>12 DEF DataInv, DoCheckpointCommittedWork
  <2> QED
    BY <2>1, <2>2, <2>3, <2>4
<1>13. ASSUME NEW s \in Slots, InstallUpdate(s)
      PROVE  Safe'
  <2>1. /\ UNCHANGED <<device, slot, base, phase, isCheckpointing,
                       needsCheckpointWasCalled, isBow, held, cur, pc, todo, exposed,
                       released>>
        /\ s # slot /\ next' = s
        /\ sysVer' = [sysVer EXCEPT ![s] = sysVer[slot] + 1]
        /\ slotOk' = [slotOk EXCEPT ![s] = FALSE]
    BY <1>13 DEF InstallUpdate
  <2>2. /\ slotOk'[slot] = slotOk[slot] /\ slotOk[slot] /\ ~slotOk'[s]
        /\ sysVer'[slot] = sysVer[slot] /\ sysVer'[s] = sysVer[slot] + 1
    <3>1. slotOk[slot]
      BY <1>13, Zenon DEF InstallUpdate
    <3>2. /\ slot \in Slots /\ s \in Slots
          /\ slotOk \in [Slots -> BOOLEAN] /\ sysVer \in [Slots -> 0..MaxSys]
      BY Zenon
    <3> QED
      BY ONLY <2>1, <3>1, <3>2
  <2>3. device.bootControl
    BY <1>13, Zenon DEF InstallUpdate
  <2>4. LockInv' /\ LatchInv'
    BY <2>1, <2>2 DEF LockInv, LatchInv
  <2>5. SlotInv'
    <3>1. slotOk'[slot'] /\ ~slotOk'[next']
      BY <2>1, <2>2
    <3>2. sysVer'[slot'] <= sysVer'[next']
      <4>1. sysVer[slot] \in Nat
        BY VersionFacts
      <4>2. sysVer'[slot'] = sysVer[slot] /\ sysVer'[next'] = sysVer[slot] + 1
        BY <2>1, <2>2
      <4> QED
        BY ONLY <4>1, <4>2
    <3>3. device'.bootControl
      BY <2>1, <2>3
    <3> QED
      BY <3>1, <3>2, <3>3, Zenon DEF SlotInv
  <2>6. DataInv'
    BY <2>1, <2>2 DEF DataInv
  <2> QED
    BY <2>4, <2>5, <2>6
<1>14. ASSUME UpdateVerifier
      PROVE  Safe'
  <2>1. LockInv'
    BY <1>14 DEF LockInv, UpdateVerifier, LatchInv
  <2>2. LatchInv'
    BY <1>14 DEF LatchInv, UpdateVerifier
  <2>3. SlotInv'
    BY <1>14 DEF SlotInv, UpdateVerifier
  <2>4. DataInv'
    BY <1>14 DEF DataInv, UpdateVerifier
  <2> QED
    BY <2>1, <2>2, <2>3, <2>4
<1>15. CASE UNCHANGED vars
  BY <1>15 DEF vars, LockInv, LatchInv, SlotInv, DataInv
<1> HIDE DEF Safe, TypeOK
<1>16. ASSUME NEW m \in Mounts, DaemonCall(m)
       PROVE  Safe'
  <2>1. LatchDecides \/ slotOk[slot]
    BY <1>16, Zenon DEF DaemonCall, DaemonInv, LatchDecides
  <2> QED
    BY <1>5, <1>16, <2>1, CommitBeginStep, ThreadFacts DEF DaemonCall
<1>17. ASSUME BinderCall
       PROVE  Safe'
  <2>1. CASE CommitBegin(Binder)
    BY <2>1, CommitBeginStep, ThreadFacts
  <2>2. CASE \E retry \in BOOLEAN : AbortBegin(Binder, retry)
    <3>1. LatchDecides /\ Binder \in Threads
      BY <1>17, ThreadFacts DEF BinderCall, Safe, LatchInv, LatchDecides
    <3>2. PICK retry \in BOOLEAN : AbortBegin(Binder, retry)
      BY <2>2, Zenon
    <3> HIDE DEF TypeOK, Safe
    <3> QED
      BY ONLY <1>5, <3>1, <3>2
  <2> QED
    BY <1>17, <2>1, <2>2, Zenon DEF BinderCall
<1>18. ASSUME NEW t \in Threads, CommitStep(t) \/ AbortStep(t)
       PROVE  Safe'
  BY <1>6, <1>7, <1>8, <1>9, <1>18, CommitMarkStep, CommitMountStep, CommitFinishStep,
     CrashStep DEF CommitStep, AbortStep, AbortReboot
<1>19. ASSUME NEW m \in Mounts, cp_healthDaemon(m) \/ AppWrite(m)
       PROVE  Safe'
  BY <1>10, <1>11, <1>16, <1>19 DEF cp_healthDaemon
<1> QED
  BY <1>1, <1>2, <1>3, <1>4, <1>12, <1>13, <1>14, <1>15, <1>17, <1>18, <1>19,
     MountUserdataStep, PrepareCheckpointStep, CrashStep DEF Next

\* No step takes the mark off the slot it runs in, and only a commit, which marks it,
\* ends a checkpoint without a reboot.
LEMMA DaemonStep == TypeOK /\ Safe /\ DaemonInv /\ [Next]_vars => DaemonInv'
<1> SUFFICES ASSUME TypeOK, Safe, DaemonInv, [Next]_vars PROVE DaemonInv'
  OBVIOUS
<1> USE DEF persistent, flags, history
<1>1. ASSUME NEW t \in Threads, NEW v, pc' = [pc EXCEPT ![t] = v],
             v # "low" \/ isCheckpointing',
             isCheckpointing \/ slotOk[slot] => isCheckpointing' \/ slotOk'[slot']
      PROVE  DaemonInv'
  <2>1. \A m \in Mounts : pc'[m] = IF m = t THEN v ELSE pc[m]
    BY <1>1, ThreadFacts DEF TypeOK
  <2> QED BY <1>1, <2>1 DEF DaemonInv
<1>2. ASSUME pc' = pc, isCheckpointing \/ slotOk[slot] => isCheckpointing' \/ slotOk'[slot']
      PROVE  DaemonInv'
  BY <1>2 DEF DaemonInv
<1>3. \A t \in Threads : Returned(t) # "low"
  BY DEF Returned
<1>4. ASSUME NEW halOk \in BOOLEAN, NEW fileOk \in BOOLEAN, cp_needsCheckpoint(halOk, fileOk)
      PROVE  isCheckpointing => isCheckpointing'
  BY <1>4, Zenon DEF cp_needsCheckpoint, NeedsCheckpointResult, LatchDecides
<1>5. ASSUME NEW t \in Threads, NEW retry \in BOOLEAN, AbortBegin(t, retry)
      PROVE  DaemonInv'
  <2>1. PICK v \in {Returned(t), "abort reboot", "abort read"} : pc' = [pc EXCEPT ![t] = v]
    BY <1>5, Zenon DEF AbortBegin
  <2>2. (isCheckpointing => isCheckpointing') /\ UNCHANGED <<slot, slotOk>>
    BY <1>4, <1>5 DEF AbortBegin
  <2> QED BY <1>1, <1>3, <2>1, <2>2
<1>6. ASSUME NEW t \in Threads, CommitBegin(t) PROVE DaemonInv'
  <2>1. PICK v \in {Returned(t), "commit mark"} : pc' = [pc EXCEPT ![t] = v]
    BY <1>6, Zenon DEF CommitBegin
  <2> QED BY <1>1, <1>3, <1>6, <2>1 DEF CommitBegin
<1>7. ASSUME NEW t \in Threads, CommitMark(t) PROVE DaemonInv'
  <2>1. PICK v \in {Returned(t), "commit mounts"} : pc' = [pc EXCEPT ![t] = v]
    BY <1>7, Zenon DEF CommitMark
  <2>2. isCheckpointing'
    BY <1>7, Zenon DEF CommitMark, Safe, LockInv
  <2> QED BY <1>1, <1>3, <2>1, <2>2
<1>8. ASSUME NEW t \in Threads, CommitFinish(t) PROVE DaemonInv'
  <2>1. slotOk'[slot'] /\ pc' = [pc EXCEPT ![t] = "commit remove"]
    BY <1>8 DEF CommitFinish, Safe, LockInv
  <2> QED BY <1>1, <2>1
<1>9. ASSUME NEW t \in Threads, CommitFail(t) \/ CommitRemove(t) PROVE DaemonInv'
  <2>1. pc' = [pc EXCEPT ![t] = Returned(t)] /\ UNCHANGED <<slot, slotOk, isCheckpointing>>
    BY <1>9, Zenon DEF CommitFail, CommitRemove
  <2> QED BY <1>1, <1>3, <2>1
<1>10. ASSUME NEW t \in Threads, AbortRead(t) \/ AbortWrite(t) PROVE DaemonInv'
  <2>1. PICK v \in {"abort write", "abort reboot"} : pc' = [pc EXCEPT ![t] = v]
    BY <1>10, Zenon DEF AbortRead, AbortWrite
  <2>2. UNCHANGED <<slot, slotOk, isCheckpointing>>
    BY <1>10, Zenon DEF AbortRead, AbortWrite
  <2> QED BY <1>1, <2>1, <2>2
<1>11. ASSUME Crash PROVE DaemonInv'
  <2>1. pc' = NoThreads
    BY <1>11 DEF Crash, BootInto
  <2> QED BY <2>1, ThreadFacts DEF DaemonInv, NoThreads
<1>12. ASSUME NEW m \in Mounts, cp_healthDaemon(m) \/ AppWrite(m) PROVE DaemonInv'
  <2>1. CASE DaemonExit(m) \/ DaemonLowSpace(m)
    <3>1. PICK v \in {"none", "low"} : pc' = [pc EXCEPT ![m] = v] /\ (v = "low" => isCheckpointing)
      BY <2>1, Zenon DEF DaemonExit, DaemonLowSpace
    <3>2. m \in Threads /\ UNCHANGED <<slot, slotOk, isCheckpointing>>
      BY <2>1, ThreadFacts DEF DaemonExit, DaemonLowSpace
    <3> QED BY <1>1, <3>1, <3>2
  <2>2. CASE DaemonCall(m)
    BY <1>5, <1>6, <2>2, ThreadFacts DEF DaemonCall
  <2>3. CASE AppWrite(m)
    BY <1>2, <2>3 DEF AppWrite
  <2> QED BY <1>12, <2>1, <2>2, <2>3 DEF cp_healthDaemon
<1>13. ASSUME NEW halOk \in BOOLEAN, NEW fileOk \in BOOLEAN,
              MountUserdata(halOk, fileOk) \/ NeedsCheckpointAgain(halOk, fileOk)
       PROVE  DaemonInv'
  BY <1>2, <1>4, <1>13 DEF MountUserdata, NeedsCheckpointAgain
<1>14. ASSUME NEW skipped \in Skippable, NEW noState \in SUBSET (BlkMounts \ skipped),
              cp_prepareCheckpoint(skipped, noState)
       PROVE  DaemonInv'
  <2>1. \A t \in Threads : pc'[t] = pc[t] \/ pc'[t] = "poll"
    <3>1. \/ pc' = pc
          \/ pc' = [t \in Threads |-> IF t \in Mounts \ skipped /\ pc[t] = "none"
                                      THEN "poll" ELSE pc[t]]
      BY <1>14, Zenon DEF cp_prepareCheckpoint
    <3> QED BY <3>1, Zenon
  <2> QED BY <1>14, <2>1, ThreadFacts DEF DaemonInv, cp_prepareCheckpoint
<1>15. ASSUME NEW s \in Slots, InstallUpdate(s) PROVE DaemonInv'
  BY <1>2, <1>15 DEF InstallUpdate, TypeOK
<1>16. ASSUME \/ \E retry \in -1..MaxRetry : cp_startCheckpoint(retry)
              \/ cp_markBootAttempt \/ cp_resetCheckpoint \/ DoCheckpointCommittedWork
              \/ UpdateVerifier \/ UNCHANGED vars
       PROVE  DaemonInv'
  BY <1>2, <1>16 DEF cp_startCheckpoint, cp_markBootAttempt, cp_resetCheckpoint,
     DoCheckpointCommittedWork, UpdateVerifier, TypeOK, vars
<1>17. ASSUME NEW t \in Threads, CommitStep(t) \/ AbortStep(t) PROVE DaemonInv'
  BY <1>2, <1>7, <1>8, <1>9, <1>10, <1>11, <1>17 DEF CommitStep, CommitMount, AbortStep, AbortReboot
<1> QED
  BY <1>5, <1>6, <1>11, <1>12, <1>13, <1>14, <1>15, <1>16, <1>17, ThreadFacts DEF Next, BinderCall

-----------------------------------------------------------------------------
(* The retry counter *)

LEMMA RetryStep == TypeOK /\ RetryInv /\ [Next]_vars => RetryInv'
<1> SUFFICES ASSUME TypeOK, RetryInv, [Next]_vars PROVE RetryInv'
  OBVIOUS
<1> USE CheckpointAssumption DEF RetryInv, RetryBound, Unlimited, Sealed
<1>1. budget \in Int
  BY DEF TypeOK
<1>2. /\ cpFile = NoFile \/ cpFile \in [n : 0..(MaxRetry + 1), suffix : Slots \cup {NoSuffix}]
      /\ cpFile.n \in Int
  BY DEF TypeOK, FileContents, NoFile
<1>3. ASSUME UNCHANGED <<budget, cpFile>>, phase' = phase \/ phase' # "marked"
      PROVE  RetryInv'
  BY <1>1, <1>2, <1>3
<1>4. ASSUME NEW retry \in -1..MaxRetry, cp_startCheckpoint(retry)
      PROVE  RetryInv'
  BY <1>4 DEF cp_startCheckpoint
<1>5. ASSUME cp_markBootAttempt
      PROVE  RetryInv'
  BY <1>1, <1>2, <1>5 DEF cp_markBootAttempt, Decremented
<1>6. ASSUME NEW halOk \in BOOLEAN, NEW fileOk \in BOOLEAN, MountUserdata(halOk, fileOk)
      PROVE  RetryInv'
  BY <1>1, <1>2, <1>6 DEF MountUserdata, FileDecides, Zero, NoFile, persistent
<1>7. ASSUME NEW t \in Threads, CommitFinish(t)
      PROVE  RetryInv'
  <2>1. budget' = Sealed
    BY <1>7 DEF CommitFinish
  <2> QED
    BY <2>1
<1>8. ASSUME NEW t \in Threads, CommitRemove(t)
      PROVE  RetryInv'
  <2>1. \/ cpFile' = NoFile /\ budget' = budget
        \/ budget' = Unlimited
    BY <1>8, Zenon DEF CommitRemove
  <2> QED
    BY <1>1, <2>1 DEF NoFile
<1>9. ASSUME NEW t \in Threads, AbortWrite(t)
      PROVE  RetryInv'
  <2>1. (cpFile' = Zero \/ cpFile' = cpFile) /\ budget' = budget /\ phase' = phase
    BY <1>9 DEF AbortWrite, history
  <2> QED
    BY <1>1, <2>1 DEF Zero
<1>10. ASSUME Crash
       PROVE  RetryInv'
  BY <1>3, <1>10 DEF Crash, BootInto
<1>11. ASSUME NEW t \in Threads, CommitBegin(t) \/ \E r \in BOOLEAN : AbortBegin(t, r)
       PROVE  RetryInv'
  BY <1>3, <1>11 DEF CommitBegin, AbortBegin, persistent, history
<1> HIDE DEF RetryInv
<1>12. ASSUME NEW t \in Threads, CommitStep(t) \/ AbortStep(t)
       PROVE  RetryInv'
  BY <1>3, <1>7, <1>8, <1>9, <1>10, <1>12 DEF CommitStep, CommitMark, CommitMount,
     CommitFail, AbortStep, AbortRead, AbortReboot, persistent, history
<1>13. ASSUME NEW m \in Mounts, cp_healthDaemon(m) \/ AppWrite(m)
       PROVE  RetryInv'
  BY <1>3, <1>11, <1>13, ThreadFacts DEF cp_healthDaemon, DaemonExit, DaemonLowSpace,
     DaemonCall, AppWrite, persistent, history
<1>14. ASSUME BinderCall
       PROVE  RetryInv'
  BY <1>11, <1>14, ThreadFacts DEF BinderCall
<1>15. ASSUME \/ \E halOk, fileOk \in BOOLEAN : NeedsCheckpointAgain(halOk, fileOk)
              \/ \E skipped \in Skippable :
                   \E noState \in SUBSET (BlkMounts \ skipped) :
                     cp_prepareCheckpoint(skipped, noState)
              \/ cp_resetCheckpoint
              \/ DoCheckpointCommittedWork
              \/ \E s \in Slots : InstallUpdate(s)
              \/ UpdateVerifier
              \/ UNCHANGED vars
       PROVE  RetryInv'
  BY <1>3, <1>15 DEF NeedsCheckpointAgain, cp_prepareCheckpoint, cp_resetCheckpoint,
     DoCheckpointCommittedWork, InstallUpdate, UpdateVerifier, vars, persistent, history
<1> QED
  BY <1>4, <1>5, <1>6, <1>10, <1>12, <1>13, <1>14, <1>15 DEF Next

-----------------------------------------------------------------------------
(* The theorems *)

LEMMA InitInv == Init => TypeOK /\ Safe /\ DaemonInv /\ RetryInv
<1> SUFFICES ASSUME Init PROVE TypeOK /\ Safe /\ DaemonInv /\ RetryInv
  OBVIOUS
<1> USE CheckpointAssumption DEF Init
<1>1. slot \in Slots /\ next = slot
  OBVIOUS
<1>2. TypeOK
  <2>1. pc \in [Threads -> PCs]
    BY PCFacts DEF NoThreads
  <2>2. budget \in -1..Sealed
    BY DEF Unlimited, Sealed
  <2>3. /\ sysVer \in [Slots -> 0..MaxSys]
        /\ base \in [Mounts -> 0..MaxSys] /\ cur \in [Mounts -> 0..MaxSys]
    OBVIOUS
  <2>4. cpFile \in FileContents /\ device \in Devices /\ slotOk \in [Slots -> BOOLEAN]
    BY FileFacts, Zenon
  <2>5. /\ isCheckpointing \in BOOLEAN /\ needsCheckpointWasCalled \in BOOLEAN
        /\ isBow \in BOOLEAN
    BY Zenon
  <2>6. /\ phase \in Phases /\ deferred \in {"none", "due", "started", "done", "skipped"}
        /\ held \subseteq Mounts /\ todo \subseteq Mounts
        /\ exposed \subseteq Mounts /\ released \subseteq Mounts
    BY DEF Phases
  <2> QED
    BY ONLY <1>1, <2>1, <2>2, <2>3, <2>4, <2>5, <2>6 DEF TypeOK
<1>3. LockInv
  BY DEF LockInv, NoThreads, Committing
<1>4. LatchInv /\ SlotInv /\ DataInv
  BY <1>1 DEF LatchInv, SlotInv, DataInv
<1>5. RetryInv
  BY DEF RetryInv, RetryBound, Unlimited
<1>6. DaemonInv
  BY ThreadFacts DEF DaemonInv, NoThreads
<1> QED
  BY <1>2, <1>3, <1>4, <1>5, <1>6 DEF Safe

LEMMA Inductive == Spec => [](TypeOK /\ Safe /\ DaemonInv /\ RetryInv)
<1>1. TypeOK /\ Safe /\ DaemonInv /\ RetryInv /\ [Next]_vars
        => (TypeOK /\ Safe /\ DaemonInv /\ RetryInv)'
  BY TypeStep, SafeStep, DaemonStep, RetryStep
<1> QED
  BY InitInv, <1>1, PTL DEF Spec

\* Every variable keeps its type; the metadata file never holds a negative counter.
THEOREM TypeCorrect == Spec => []TypeOK
  BY Inductive, PTL

\* No system runs on data that a newer system has made permanent, however commits,
\* aborts, crashes and slot fallbacks interleave, on mounts no fault has exposed.
THEOREM NoDowngradeHolds == Spec => []NoDowngrade
<1>1. Safe => NoDowngrade
  BY DEF Safe, DataInv, NoDowngrade
<1> QED
  BY Inductive, <1>1, PTL

\* While vold believes that there is no checkpoint, no mount holds writes back.
THEOREM NoSilentHold == Spec => []HeldImpliesCheckpointing
<1>1. Safe => HeldImpliesCheckpointing
  BY DEF Safe, LatchInv, HeldImpliesCheckpointing
<1> QED
  BY Inductive, <1>1, PTL

\* While vold believes that a checkpoint is active, every mount is protected but
\* for those a fault exposed and those an unfinished commit released.
THEOREM CheckpointProtects == Spec => []CheckpointingProtects
<1>1. TypeOK /\ Safe => CheckpointingProtects
  BY DEF TypeOK, Safe, LatchInv, CheckpointingProtects, Mounts
<1> QED
  BY Inductive, <1>1, PTL

\* startCheckpoint(n) is followed by at most n boots under a checkpoint.
THEOREM RetriesBounded == Spec => []RetryBound
<1>1. RetryInv => RetryBound
  BY DEF RetryInv
<1> QED
  BY Inductive, <1>1, PTL

-----------------------------------------------------------------------------
(***************************************************************************)
(* The restore of a dm-bow device (module BowRestore, the same source      *)
(* file), for every device, log and number of faults.  The map of          *)
(* relocations is followed through each relocate; that its ranges lie on   *)
(* the device needs what the log holds: every block that looks like a log  *)
(* sector is one, also among those saved, shortened, marked, copied back,  *)
(* or left by a power cut.                                                 *)
(***************************************************************************)
\* k is the key of the ordered map m that covers x; a map that covers every block.
IsFloor(m, x, k) == k \in DOMAIN m /\ k <= x /\ \A j \in DOMAIN m : j <= x => j <= k
IsMap(m) == /\ m \in [DOMAIN m -> Int] /\ DOMAIN m \subseteq Nat
            /\ \A x \in Nat : \E k \in DOMAIN m : IsFloor(m, x, k)

\* Floor and Lookup are given by the greatest key up to the block.
LEMMA FloorIs ==
  ASSUME NEW m, DOMAIN m \subseteq Nat, NEW x \in Nat, NEW k, IsFloor(m, x, k)
  PROVE  Floor(m, x) = k
<1> DEFINE S == {j \in DOMAIN m : j <= x}
<1>1. k \in S /\ \A y \in S : k >= y BY DEF IsFloor
<1>2. ASSUME NEW z \in S, \A y \in S : z >= y PROVE z = k BY <1>1, <1>2
<1> QED BY <1>1, <1>2 DEF Floor, Max

LEMMA LookupIs ==
  ASSUME NEW m, DOMAIN m \subseteq Nat, NEW x \in Nat, NEW k, IsFloor(m, x, k)
  PROVE  Lookup(m, x) = x + m[k] - k
BY FloorIs DEF Lookup

\* After relocate, the blocks of the restored range are found where those of the saved range were
\* found before, and all others where they were.
LEMMA RelocateFollows ==
  ASSUME NEW m, IsMap(m), NEW dest \in Nat, NEW source \in Nat, NEW count \in Nat \ {0},
         NEW r, r = relocate(m, dest, source, count)
  PROVE  /\ IsMap(r)
         /\ \A x \in Nat : Lookup(r, x) = IF dest <= x /\ x < dest + count
                                              THEN Lookup(m, x - dest + source) ELSE Lookup(m, x)
<1>1. PICK ks \in DOMAIN m : IsFloor(m, source, ks) BY DEF IsMap
<1>0. dest + count \in Nat OBVIOUS
<1>2. PICK ke \in DOMAIN m : IsFloor(m, dest + count, ke) BY <1>0 DEF IsMap
<1>3. DOMAIN m \subseteq Nat /\ \A k \in DOMAIN m : m[k] \in Int BY DEF IsMap
<1>4. Floor(m, source) = ks /\ Lookup(m, source) = source + m[ks] - ks
  BY <1>1, <1>3, FloorIs, LookupIs
<1>5. Lookup(m, dest + count) = dest + count + m[ke] - ke
  BY <1>2, <1>3, LookupIs
<1> DEFINE inner == {k \in DOMAIN m : ks < k /\ k < source + count}
           L == {dest} \cup {dest - source + k : k \in inner}
           kept == {k \in DOMAIN m : k < dest \/ k > dest + count}
<1>6. /\ DOMAIN r = kept \cup {dest + count} \cup L
      /\ \A x \in DOMAIN r : r[x] = IF x \in L THEN IF x = dest THEN source + m[ks] - ks
                                                    ELSE m[x - dest + source]
                                    ELSE IF x = dest + count THEN dest + count + m[ke] - ke
                                    ELSE m[x]
  BY <1>4, <1>5 DEF relocate
<1>7. r = [x \in DOMAIN r |-> r[x]] BY DEF relocate
<1>8. \A k \in inner : k > source
  BY <1>1, <1>3 DEF IsFloor
<1>9. \A x \in L : x \in Nat /\ dest <= x /\ x < dest + count /\ (x # dest => x - dest + source \in inner)
  BY <1>3, <1>8
<1>10. DOMAIN r \subseteq Nat BY <1>3, <1>6, <1>9
<1>11. \A x \in DOMAIN r : r[x] \in Int BY <1>3, <1>6, <1>9
<1> HIDE DEF inner, L
<1>12. ASSUME NEW x \in Nat
       PROVE  \E j \in DOMAIN r :
                /\ IsFloor(r, x, j)
                /\ x + r[j] - j = IF dest <= x /\ x < dest + count
                                  THEN Lookup(m, x - dest + source) ELSE Lookup(m, x)
  <2>1. CASE x < dest
    <3>1. PICK k \in DOMAIN m : IsFloor(m, x, k) BY DEF IsMap
    <3>2. k \in kept /\ k \in DOMAIN r /\ k \notin L /\ k # dest + count
      BY <1>3, <1>6, <1>9, <2>1, <3>1 DEF IsFloor
    <3>3. r[k] = m[k] BY <1>6, <3>2
    <3>4. \A j \in DOMAIN r : j <= x => j \in DOMAIN m BY <1>3, <1>6, <1>9, <2>1
    <3>5. IsFloor(r, x, k) BY <3>1, <3>2, <3>4 DEF IsFloor
    <3>6. Lookup(m, x) = x + m[k] - k BY <1>3, <3>1, LookupIs
    <3> QED BY <2>1, <3>2, <3>3, <3>5, <3>6
  <2>2. CASE dest <= x /\ x < dest + count
    <3> DEFINE y == x - dest + source
    <3>1. y \in Nat /\ source <= y /\ y < source + count BY <2>2
    <3>2. PICK k \in DOMAIN m : IsFloor(m, y, k) BY <3>1 DEF IsMap
    <3>3. Lookup(m, y) = y + m[k] - k BY <1>3, <3>1, <3>2, LookupIs
    <3>4. k \in Nat /\ ks \in Nat /\ k <= y /\ m[k] \in Int /\ m[ks] \in Int BY <1>1, <1>3, <3>2 DEF IsFloor
    <3>5. CASE k <= source
      <4>1. k = ks BY <1>1, <3>1, <3>2, <3>4, <3>5 DEF IsFloor
      <4>2. dest \in DOMAIN r /\ dest \in L BY <1>6 DEF L
      <4>3. r[dest] = source + m[ks] - ks BY <1>6, <4>2
      <4>4. ASSUME NEW j \in DOMAIN r, j <= x PROVE j <= dest
        <5>1. j \in Nat BY <1>10
        <5>2. CASE j \in L
          <6> SUFFICES ASSUME j # dest PROVE FALSE BY <5>1
          <6>1. j - dest + source \in DOMAIN m /\ j - dest + source > source
            BY <1>8, <1>9, <5>2 DEF inner
          <6>2. j - dest + source <= y BY <4>4, <5>1
          <6> QED BY <1>3, <3>2, <3>4, <3>5, <6>1, <6>2 DEF IsFloor
        <5>3. CASE j \notin L BY <1>6, <2>2, <4>4, <5>1, <5>3
        <5> QED BY <5>2, <5>3
      <4>5. IsFloor(r, x, dest) BY <2>2, <4>2, <4>4 DEF IsFloor
      <4> QED BY <2>2, <3>3, <3>4, <4>1, <4>2, <4>3, <4>5
    <3>6. CASE k > source
      <4>1. k \in inner
        <5>1. ks <= source BY <1>1 DEF IsFloor
        <5> QED BY <3>1, <3>4, <3>6, <5>1 DEF inner
      <4> DEFINE z == dest - source + k
      <4>2. z \in L /\ z \in DOMAIN r /\ z # dest /\ z <= x BY <1>6, <3>4, <3>6, <4>1 DEF L
      <4>3. r[z] = m[k]
        <5>1. z - dest + source = k BY <3>4
        <5> QED BY <1>6, <4>2, <5>1
      <4>4. ASSUME NEW j \in DOMAIN r, j <= x PROVE j <= z
        <5>1. j \in Nat BY <1>10
        <5>2. CASE j \in L /\ j # dest
          <6>1. j - dest + source \in DOMAIN m BY <1>9, <5>2 DEF inner
          <6>2. j - dest + source <= y BY <4>4, <5>1
          <6>3. j - dest + source <= k BY <3>2, <6>1, <6>2 DEF IsFloor
          <6> QED BY <3>4, <5>1, <6>3
        <5>3. CASE j = dest BY <3>4, <3>6, <5>3
        <5>4. CASE j \notin L BY <1>6, <1>9, <2>2, <3>4, <3>6, <4>4, <5>1, <5>4
        <5> QED BY <5>2, <5>3, <5>4
      <4>5. IsFloor(r, x, z) BY <4>2, <4>4 DEF IsFloor
      <4>6. x + r[z] - z = y + m[k] - k BY <3>4, <4>3
      <4> QED BY <2>2, <3>3, <4>2, <4>5, <4>6
    <3> QED BY <3>4, <3>5, <3>6
  <2>3. CASE dest + count <= x
    <3>1. PICK k \in DOMAIN m : IsFloor(m, x, k) BY DEF IsMap
    <3>2. Lookup(m, x) = x + m[k] - k BY <1>3, <3>1, LookupIs
    <3>3. k \in Nat /\ ke \in Nat /\ k <= x /\ m[k] \in Int /\ m[ke] \in Int BY <1>2, <1>3, <3>1 DEF IsFloor
    <3>4. CASE k <= dest + count
      <4>1. k = ke BY <1>2, <2>3, <3>1, <3>3, <3>4 DEF IsFloor
      <4>2. dest + count \in DOMAIN r /\ dest + count \notin L BY <1>6, <1>9
      <4>3. r[dest + count] = dest + count + m[ke] - ke BY <1>6, <4>2
      <4>4. ASSUME NEW j \in DOMAIN r, j <= x PROVE j <= dest + count
        <5>1. j \in Nat BY <1>10
        <5>2. CASE j \in L BY <1>9, <5>2
        <5>3. CASE j \in kept
          <6>1. j <= k BY <3>1, <4>4, <5>3 DEF IsFloor
          <6> QED BY <3>3, <3>4, <5>1, <6>1
        <5> QED BY <1>6, <5>1, <5>2, <5>3
      <4>5. IsFloor(r, x, dest + count) BY <2>3, <4>2, <4>4 DEF IsFloor
      <4> QED BY <2>3, <3>2, <3>3, <4>1, <4>2, <4>3, <4>5
    <3>5. CASE k > dest + count
      <4>1. k \in kept /\ k \in DOMAIN r /\ k \notin L /\ k # dest + count BY <1>6, <1>9, <3>3, <3>5
      <4>2. r[k] = m[k] BY <1>6, <4>1
      <4>3. ASSUME NEW j \in DOMAIN r, j <= x PROVE j <= k
        <5>1. j \in Nat BY <1>10
        <5>2. CASE j \in L BY <1>9, <3>3, <3>5, <5>2
        <5>3. CASE j \in kept BY <3>1, <4>3, <5>3 DEF IsFloor
        <5> QED BY <1>6, <3>3, <3>5, <5>1, <5>2, <5>3
      <4>4. IsFloor(r, x, k) BY <3>3, <4>1, <4>3 DEF IsFloor
      <4> QED BY <2>3, <3>2, <4>1, <4>2, <4>4
    <3> QED BY <3>3, <3>4, <3>5
  <2> QED BY <2>1, <2>2, <2>3
<1>13. IsMap(r)
  <2>1. r \in [DOMAIN r -> Int] BY <1>7, <1>11
  <2> QED BY <1>10, <1>12, <2>1 DEF IsMap
<1>14. ASSUME NEW x \in Nat
       PROVE  Lookup(r, x) = IF dest <= x /\ x < dest + count
                                 THEN Lookup(m, x - dest + source) ELSE Lookup(m, x)
  <2>1. PICK j \in DOMAIN r :
                /\ IsFloor(r, x, j)
                /\ x + r[j] - j = IF dest <= x /\ x < dest + count
                                  THEN Lookup(m, x - dest + source) ELSE Lookup(m, x)
    BY <1>12
  <2>2. Lookup(r, x) = x + r[j] - j BY <1>10, <2>1, LookupIs
  <2> QED BY <2>1, <2>2
<1> QED BY <1>13, <1>14

\* The empty map of relocations leaves every block in its place.
LEMMA NoRelocationsIs ==
  IsMap(NoRelocations) /\ \A x \in Nat : Lookup(NoRelocations, x) = x
<1> DEFINE m == NoRelocations
<1>1. DOMAIN m = {0} /\ m[0] = 0 /\ m \in [{0} -> {0}] BY DEF NoRelocations, At
<1> HIDE DEF m
<1>2. \A x \in Nat : IsFloor(m, x, 0) BY <1>1 DEF IsFloor
<1>3. IsMap(m) BY <1>1, <1>2 DEF IsMap
<1>4. ASSUME NEW x \in Nat PROVE Lookup(m, x) = x
  <2>1. Lookup(m, x) = x + m[0] - 0 BY <1>1, <1>2, LookupIs
  <2> QED BY <1>1, <2>1
<1> QED BY <1>3, <1>4 DEF m

\* Entries of the log lie on the device; so do those of a log sector, of which count are left, and
\* what looks like a log sector is one.
IsEntry(e) == /\ e.source \in Nat /\ e.dest \in Nat /\ e.size \in Nat \ {0}
              /\ Part(e.source, e.size) \subseteq Blocks
              /\ Part(e.dest, e.size) \subseteq Blocks
IsSector(c) ==
  /\ c = Log(c.magic, c.sequence, c.count, c.entries, c.sector0)
  /\ c.magic \in {"BOW", "WOB"}
  /\ c.count \in Nat /\ c.sector0 \in Blocks \ {0}
  /\ \E X : c.entries \in Seq(X) /\ c.count <= Len(c.entries) /\ \A e \in X : IsEntry(e)
IsContent(c) == IsLog(c) => IsSector(c)

\* The entries of a log sector that are still to be undone.
LEMMA SectorIs ==
  ASSUME NEW c, IsSector(c)
  PROVE  /\ IsLog(c) /\ IsContent(c)
         /\ \A i \in 1..c.count : IsEntry(c.entries[i])
<1>1. PICK E : c.entries \in Seq(E) /\ c.count <= Len(c.entries) /\ \A e \in E : IsEntry(e) BY DEF IsSector
<1>2. ASSUME NEW i \in 1..c.count PROVE IsEntry(c.entries[i])
  <2>1. c.count \in Nat BY DEF IsSector
  <2>2. i \in 1..Len(c.entries) BY <1>1, <2>1
  <2> QED BY <1>1, <2>2
<1> QED BY <1>2 DEF IsSector, IsContent, IsLog

\* Data and rubbish are no log sectors.
LEMMA PlainContent ==
  ASSUME NEW b PROVE IsContent(Old(b)) /\ IsContent(New(b)) /\ IsContent(Rubbish)
BY DEF IsContent, IsLog, Old, New, Rubbish

\* A log sector that is shortened and marked.
LEMMA SectorMarked ==
  ASSUME NEW c, IsSector(c), NEW n \in 1..c.count
  PROVE  /\ IsSector([c EXCEPT !.count = n, !.magic = "WOB"])
         /\ [c EXCEPT !.count = n, !.magic = "WOB"].count = n
         /\ [c EXCEPT !.count = n, !.magic = "WOB"].entries = c.entries
<1> DEFINE d == [c EXCEPT !.count = n, !.magic = "WOB"]
<1>1. c = Log(c.magic, c.sequence, c.count, c.entries, c.sector0) BY DEF IsSector
<1>2. d = Log("WOB", c.sequence, n, c.entries, c.sector0)
  <2>1. PICK mg, sq, ct, en, se : c = Log(mg, sq, ct, en, se) BY <1>1
  <2>2. d = [[Log(mg, sq, ct, en, se) EXCEPT !.count = n] EXCEPT !.magic = "WOB"] BY <2>1
  <2>5. [[Log(mg, sq, ct, en, se) EXCEPT !.count = n] EXCEPT !.magic = "WOB"]
        = Log("WOB", sq, n, en, se)
    <3>1. [Log(mg, sq, ct, en, se) EXCEPT !.count = n] = Log(mg, sq, n, en, se)
      BY ONLY TRUE DEF Log
    <3>2. [Log(mg, sq, n, en, se) EXCEPT !.magic = "WOB"] = Log("WOB", sq, n, en, se)
      BY ONLY TRUE DEF Log
    <3> QED BY ONLY <3>1, <3>2, Zenon
  <2> HIDE DEF d
  <2>3. d = Log("WOB", sq, n, en, se) BY <2>2, <2>5
  <2>4. c.sequence = sq /\ c.entries = en /\ c.sector0 = se BY <2>1 DEF Log
  <2> QED BY <2>3, <2>4
<1>4. PICK E : c.entries \in Seq(E) /\ c.count <= Len(c.entries) /\ \A x \in E : IsEntry(x) BY DEF IsSector
<1>5. c.count \in Nat /\ c.sector0 \in Blocks \ {0} BY DEF IsSector
<1>6. /\ d.magic = "WOB" /\ d.sequence = c.sequence /\ d.count = n /\ d.entries = c.entries
      /\ d.sector0 = c.sector0
  BY <1>2 DEF Log
<1> HIDE DEF d
<1>8. n \in Nat /\ n <= Len(c.entries) BY <1>4, <1>5
<1>9. IsSector(d) BY <1>2, <1>4, <1>5, <1>6, <1>8 DEF IsSector
<1> QED BY <1>6, <1>9 DEF d

\* A log sector that is only marked.
LEMMA SectorPartial ==
  ASSUME NEW c, IsSector(c) PROVE IsSector([c EXCEPT !.magic = "WOB"])
<1> DEFINE e == [c EXCEPT !.magic = "WOB"]
<1>1. c = Log(c.magic, c.sequence, c.count, c.entries, c.sector0) BY DEF IsSector
<1>2. e = Log("WOB", c.sequence, c.count, c.entries, c.sector0) BY <1>1 DEF Log
<1>3. PICK E : c.entries \in Seq(E) /\ c.count <= Len(c.entries) /\ \A x \in E : IsEntry(x) BY DEF IsSector
<1>4. c.count \in Nat /\ c.sector0 \in Blocks \ {0} BY DEF IsSector
<1>5. /\ e.magic = "WOB" /\ e.sequence = c.sequence /\ e.count = c.count /\ e.entries = c.entries
      /\ e.sector0 = c.sector0
  BY <1>2 DEF Log
<1> HIDE DEF e
<1>6. IsSector(e) BY <1>2, <1>3, <1>4, <1>5 DEF IsSector
<1> QED BY <1>6 DEF e

\* A log sector of dm-bow with one more entry, and a new one.
LEMMA SectorNew ==
  ASSUME NEW E, NEW s \in Seq(E), \A x \in E : IsEntry(x), NEW e, IsEntry(e), NEW z \in Blocks \ {0}, NEW q
  PROVE  /\ IsSector(Log("BOW", q, Len(s) + 1, Append(s, e), z))
         /\ IsSector(Log("BOW", q, 1, <<e>>, z))
<1> DEFINE F == E \cup {e}
           t == Append(s, e)
           c == Log("BOW", q, Len(s) + 1, t, z)
           d == Log("BOW", q, 1, <<e>>, z)
<1>1. t \in Seq(F) /\ Len(t) = Len(s) + 1 /\ Len(s) \in Nat OBVIOUS
<1>2. <<e>> \in Seq(F) /\ Len(<<e>>) = 1 OBVIOUS
<1>3. \A x \in F : IsEntry(x) OBVIOUS
<1> HIDE DEF t, F
<1>4. c.magic = "BOW" /\ c.sequence = q /\ c.count = Len(s) + 1 /\ c.entries = t /\ c.sector0 = z
  BY DEF Log
<1>5. d.magic = "BOW" /\ d.sequence = q /\ d.count = 1 /\ d.entries = <<e>> /\ d.sector0 = z
  BY DEF Log
<1>6. c = Log(c.magic, c.sequence, c.count, c.entries, c.sector0) BY <1>4
<1>7. d = Log(d.magic, d.sequence, d.count, d.entries, d.sector0) BY <1>5
<1> HIDE DEF c, d
<1>8. IsSector(c) BY <1>1, <1>3, <1>4, <1>6 DEF IsSector
<1>9. IsSector(d) BY <1>2, <1>3, <1>5, <1>7 DEF IsSector
<1> QED BY <1>8, <1>9 DEF c, d, t

\* The least element of a set of blocks is one of them.
LEMMA MinIs ==
  ASSUME NEW S \in SUBSET Nat, S # {}
  PROVE  Min(S) \in S
<1>1. PICK x \in S : \A y \in S : ~(<<y, x>> \in OpToRel(<, Nat))
  BY NatLessThanWellFounded, WFMin
<1>2. ASSUME NEW y \in S PROVE x <= y
  <2>1. x \in Nat /\ y \in Nat OBVIOUS
  <2>2. <<y, x>> \in Nat \X Nat /\ <<y, x>>[1] = y /\ <<y, x>>[2] = x BY <2>1
  <2>3. OpToRel(<, Nat) = {ss \in Nat \X Nat : ss[1] < ss[2]} BY DEF OpToRel
  <2>4. ~(y < x) BY <1>1, <2>2, <2>3
  <2> QED BY <2>1, <2>4
<1> QED BY <1>2 DEF Min

\* What holds of the locals of a restore, of what is on the device, and of both.
Follows(r) ==
  /\ r = [validating |-> r.validating, sequence |-> r.sequence, ls |-> r.ls, index |-> r.index,
          relocations |-> r.relocations, moved |-> r.moved, used |-> r.used, buffer |-> r.buffer,
          restored |-> r.restored]
  /\ IsMap(r.relocations) /\ r.moved \in [Blocks -> Blocks]
  /\ \A b \in Blocks : Lookup(r.relocations, b) = r.moved[b]
Contents ==
  /\ disk = [b \in Blocks |-> disk[b]] /\ \A b \in Blocks : IsContent(disk[b])
  /\ DOMAIN cache \subseteq Blocks /\ \A b \in DOMAIN cache : IsContent(cache[b])
Logging ==
  step = "bow" =>
    /\ DOMAIN cache = {} /\ IsSector(disk[0]) /\ disk[0].count = Len(disk[0].entries)
    /\ role = [b \in Blocks |-> role[b]] /\ role[0] = "log"
Reading ==
  step \in {"entry", "save", "save sync", "copy"} => IsSector(run.ls) /\ run.index \in 1..run.ls.count
Buffered ==
  step \in {"save", "save sync", "copy"} =>
    /\ run.buffer = [i \in 0..(run.ls.entries[run.index].size - 1) |-> run.buffer[i]]
    /\ \A i \in 0..(run.ls.entries[run.index].size - 1) : IsContent(run.buffer[i])
Validating ==
  /\ (run.validating /\ step \in {"sector", "entry"}) \/ step = "forward" => IsLog(Now[0])
  /\ step \in {"save", "save sync", "copy", "flush"} => ~run.validating
BowInv == Follows(run) /\ Contents /\ Logging /\ Reading /\ Buffered /\ Validating

\* Blocks are natural numbers, and 0 is one.
LEMMA BlocksAre ==
  0 \in Blocks /\ Blocks \subseteq Nat
BY BowRestoreAssumption DEF Blocks

\* The locals of a restore that begins.
LEMMA NoRunFollows ==
  ASSUME NEW va, NEW sq,
         NEW r, r = [NoRun EXCEPT !.validating = va, !.sequence = sq]
  PROVE  Follows(NoRun) /\ ~NoRun.validating /\ Follows(r) /\ r.validating = va
<1> DEFINE moved == [b \in Blocks |-> b]
<1>1. /\ IsMap(NoRelocations) /\ moved \in [Blocks -> Blocks]
      /\ \A b \in Blocks : Lookup(NoRelocations, b) = moved[b]
  BY BlocksAre, NoRelocationsIs
<1> HIDE DEF moved
<1> DEFINE n == NoRun
<1>2. n = [validating |-> FALSE, sequence |-> 0, ls |-> Rubbish, index |-> 0,
           relocations |-> NoRelocations, moved |-> moved,
           used |-> NoneUsed, buffer |-> <<>>, restored |-> FALSE]
  BY DEF NoRun, moved
<1> HIDE DEF n
<1>3. Follows(n) /\ ~n.validating
  <2>1. n.relocations = NoRelocations /\ n.moved = moved /\ ~n.validating BY <1>2
  <2>2. n = [validating |-> n.validating, sequence |-> n.sequence, ls |-> n.ls, index |-> n.index,
          relocations |-> n.relocations, moved |-> n.moved, used |-> n.used, buffer |-> n.buffer,
          restored |-> n.restored] BY <1>2
  <2> QED BY <1>1, <2>1, <2>2 DEF Follows
<1>4. r = [validating |-> va, sequence |-> sq, ls |-> Rubbish, index |-> 0,
           relocations |-> NoRelocations, moved |-> moved,
           used |-> NoneUsed, buffer |-> <<>>, restored |-> FALSE]
  <2>1. r = [n EXCEPT !.validating = va, !.sequence = sq] BY DEF n
  <2> QED BY <1>2, <2>1
<1>5. Follows(r) /\ r.validating = va
  <2>1. r.relocations = NoRelocations /\ r.moved = moved BY ONLY <1>4
  <2>3. r.validating = va BY <1>4, Zenon
  <2>2. r = [validating |-> r.validating, sequence |-> r.sequence, ls |-> r.ls, index |-> r.index,
          relocations |-> r.relocations, moved |-> r.moved, used |-> r.used, buffer |-> r.buffer,
          restored |-> r.restored] BY <1>4
  <2> QED BY <1>1, <2>1, <2>2, <2>3 DEF Follows
<1> QED BY <1>3, <1>5 DEF n

\* What is read is on the device, or was written and not yet flushed.
LEMMA NowIs ==
  ASSUME Contents
  PROVE  /\ Now = [b \in Blocks |-> Now[b]]
         /\ \A b \in Blocks : IsContent(Now[b])
         /\ DOMAIN cache = {} => Now = disk
<1>1. \A b \in Blocks : Now[b] = IF b \in DOMAIN cache THEN cache[b] ELSE disk[b] BY DEF Now
<1>2. Now = [b \in Blocks |-> Now[b]] BY DEF Now
<1>3. \A b \in Blocks : IsContent(Now[b]) BY <1>1 DEF Contents
<1>4. ASSUME DOMAIN cache = {} PROVE Now = disk
  <2>1. \A b \in Blocks : Now[b] = disk[b] BY <1>1, <1>4
  <2>2. disk = [b \in Blocks |-> disk[b]] BY DEF Contents
  <2> QED BY <1>2, <2>1, <2>2
<1> QED BY <1>2, <1>3, <1>4

\* Blocks that a write puts into the cache.
LEMMA WriteIs ==
  ASSUME Contents, NEW w, DOMAIN w \subseteq Blocks, \A b \in DOMAIN w : IsContent(w[b]),
         Write(w), disk' = disk
  PROVE  Contents'
<1>1. DOMAIN cache' = DOMAIN cache \cup DOMAIN w BY DEF Write
<1>2. \A b \in DOMAIN cache' : cache'[b] = IF b \in DOMAIN w THEN w[b] ELSE cache[b] BY DEF Write
<1> QED BY <1>1, <1>2 DEF Contents

\* The dm-bow device while the checkpoint is active.
LEMMA BowLogs ==
  ASSUME BowInv, NEW b \in Blocks, NEW d \in Blocks, NEW n \in 1..MaxRange,
         BowBackup(b, n, d) \/ BowRoll(b) \/ BowWrite(b)
  PROVE  BowInv'
<1>1. step = "bow" /\ step' = "bow" /\ run' = run /\ cache' = cache
  BY DEF BowBackup, BowRoll, BowWrite
<1>2. /\ Follows(run) /\ Contents /\ DOMAIN cache = {} /\ IsSector(disk[0])
      /\ disk[0].count = Len(disk[0].entries) /\ role = [x \in Blocks |-> role[x]] /\ role[0] = "log"
  BY <1>1 DEF BowInv, Logging
<1>3. 0 \in Blocks /\ Blocks \subseteq Nat BY BlocksAre
<1>4. PICK E : disk[0].entries \in Seq(E) /\ \A x \in E : IsEntry(x) BY <1>2 DEF IsSector
<1>5. disk[0].sector0 \in Blocks \ {0} BY <1>2 DEF IsSector
<1>6. ASSUME disk' = [x \in Blocks |-> disk'[x]], \A x \in Blocks : IsContent(disk'[x]),
             IsSector(disk'[0]), disk'[0].count = Len(disk'[0].entries),
             role' = [x \in Blocks |-> role'[x]], role'[0] = "log"
      PROVE  BowInv'
  BY <1>1, <1>2, <1>6 DEF BowInv, Follows, Contents, Logging, Reading, Buffered, Validating
<1>7. CASE BowBackup(b, n, d)
  <2> DEFINE entry == [source |-> b, dest |-> d, size |-> n,
                       checksum |-> crc32(b, [i \in 0..(n - 1) |-> disk[b + i]])]
             log == Log("BOW", disk[0].sequence, disk[0].count + 1,
                            Append(disk[0].entries, entry), disk[0].sector0)
  <2>1. n \in Nat \ {0} /\ b \in Nat /\ d \in Nat BY <1>3, BowRestoreAssumption
  <2>2. /\ Part(b, n) \subseteq Blocks /\ Part(d, n) \subseteq Blocks
        /\ 0 \notin Part(b, n) /\ 0 \notin Part(d, n)
    BY <1>2, <1>7 DEF BowBackup, AllIn
  <2>3. IsEntry(entry) BY <2>1, <2>2 DEF IsEntry
  <2>4. disk' = [x \in Blocks |-> IF x = 0 THEN log
                                      ELSE IF x \in Part(d, n)
                                          THEN [y \in Part(d, n) |-> disk[y - d + b]][x]
                                      ELSE IF x \in Part(b, n) THEN New(x) ELSE disk[x]]
    BY <1>7 DEF BowBackup
  <2>5. role' = [x \in Blocks |-> IF x \in Part(d, n) THEN "backup"
                                      ELSE IF x \in Part(b, n) THEN "changed" ELSE role[x]]
    BY <1>7 DEF BowBackup
  <2> HIDE DEF entry
  <2>6. IsSector(log) BY <1>2, <1>4, <1>5, <2>3, SectorNew
  <2>7. log.count = Len(log.entries)
    <3>1. Len(Append(disk[0].entries, entry)) = Len(disk[0].entries) + 1 BY <1>4
    <3> QED BY <1>2, <3>1 DEF Log
  <2> HIDE DEF log
  <2>8. \A x \in Part(d, n) : x - d + b \in Blocks
    <3>1. \A x \in Part(d, n) : x - d + b \in Part(b, n) BY <2>1 DEF Part
    <3> QED BY <2>2, <3>1
  <2>9. ASSUME NEW x \in Blocks PROVE IsContent(disk'[x])
    <3>1. \/ disk'[x] = log
          \/ \E y \in Blocks : disk'[x] = disk[y]
          \/ disk'[x] = New(x)
      BY <2>4, <2>8
    <3> QED BY <1>2, <2>6, <3>1, SectorIs, PlainContent DEF Contents
  <2>10. disk'[0] = log BY <1>3, <2>4
  <2>11. disk' = [x \in Blocks |-> disk'[x]] BY <2>4
  <2>12. role' = [x \in Blocks |-> role'[x]] /\ role'[0] = "log" BY <1>2, <1>3, <2>2, <2>5
  <2> QED BY <1>6, <2>6, <2>7, <2>9, <2>10, <2>11, <2>12
<1>8. CASE BowRoll(b)
  <2> DEFINE entry == [source |-> 0, dest |-> b, size |-> 1,
                       checksum |-> crc32(0, At(0, disk[0]))]
             log == Log("BOW", disk[0].sequence + 1, 1, <<entry>>, disk[0].sector0)
  <2>1. b # 0 /\ b \in Nat BY <1>2, <1>3, <1>8 DEF BowRoll
  <2>2. IsEntry(entry)
    <3>1. Part(0, 1) = {0} /\ Part(b, 1) = {b} BY <2>1 DEF Part
    <3> QED BY <1>3, <2>1, <3>1 DEF IsEntry
  <2>3. disk' = [disk EXCEPT ![b] = disk[0], ![0] = log] /\ role' = [role EXCEPT ![b] = "backup"]
    BY <1>8 DEF BowRoll
  <2> HIDE DEF entry
  <2>4. IsSector(log) BY <1>4, <1>5, <2>2, SectorNew
  <2>5. log.count = Len(log.entries) BY DEF Log
  <2> HIDE DEF log
  <2>6. DOMAIN disk = Blocks BY <1>2 DEF Contents
  <2>7. /\ disk' = [x \in Blocks |-> disk'[x]]
        /\ \A x \in Blocks : disk'[x] = IF x = 0 THEN log ELSE IF x = b THEN disk[0] ELSE disk[x]
    BY <1>3, <2>1, <2>3, <2>6
  <2>8. ASSUME NEW x \in Blocks PROVE IsContent(disk'[x])
    BY <1>2, <1>3, <2>4, <2>7, SectorIs DEF Contents
  <2>9. DOMAIN role = Blocks BY <1>2
  <2>10. role' = [x \in Blocks |-> role'[x]] /\ role'[0] = "log" BY <1>2, <1>3, <2>1, <2>3, <2>9
  <2>11. disk'[0] = log BY <1>3, <2>7
  <2> QED BY <1>6, <2>4, <2>5, <2>7, <2>8, <2>10, <2>11
<1>9. CASE BowWrite(b)
  <2>1. PICK z \in Blocks \ {0}, y \in Blocks : disk' = [disk EXCEPT ![z] = New(y)]
    <3>1. CASE role[b] = "free" /\ disk' = [disk EXCEPT ![b] = New(b)] BY <1>2, <3>1
    <3>2. CASE disk' = [disk EXCEPT ![disk[0].sector0] = New(0)] BY <1>3, <1>5, <3>2
    <3> QED BY <1>9, <3>1, <3>2 DEF BowWrite
  <2>2. \/ role' = role
        \/ b # 0 /\ role' = [role EXCEPT ![b] = "changed"]
    BY <1>2, <1>9 DEF BowWrite
  <2>3. DOMAIN disk = Blocks /\ DOMAIN role = Blocks BY <1>2 DEF Contents
  <2>4. /\ disk' = [x \in Blocks |-> disk'[x]]
        /\ \A x \in Blocks : disk'[x] = IF x = z THEN New(y) ELSE disk[x]
    BY <2>1, <2>3
  <2>5. \A x \in Blocks : IsContent(disk'[x]) BY <1>2, <2>4, PlainContent DEF Contents
  <2>6. disk'[0] = disk[0] BY <1>3, <2>1, <2>4
  <2>7. role' = [x \in Blocks |-> role'[x]] /\ role'[0] = "log"
    <3>1. CASE role' = role BY <1>2, <3>1
    <3>2. CASE b # 0 /\ role' = [role EXCEPT ![b] = "changed"] BY <1>2, <1>3, <2>3, <3>2
    <3> QED BY <2>2, <3>1, <3>2
  <2> QED BY <1>2, <1>6, <2>4, <2>5, <2>6, <2>7
<1> QED BY <1>7, <1>8, <1>9

\* A step after which nothing of the restore is known but that the map is followed.
LEMMA Outside ==
  ASSUME Follows(run'), Contents', step' \in {"off", "settled", "sector"},
         step' = "sector" /\ run'.validating => IsLog(Now'[0])
  PROVE  BowInv'
<1>1. Follows(run)' BY DEF Follows
<1>2. Logging' BY DEF Logging
<1>3. Reading' BY DEF Reading
<1>4. Buffered' BY DEF Buffered
<1>5. Validating' BY DEF Validating
<1> QED BY <1>1, <1>2, <1>3, <1>4, <1>5 DEF BowInv

\* A round of the outer loop.
LEMMA RoundKeeps ==
  ASSUME Contents, NEW va, Round(va), disk' = disk, cache' = cache
  PROVE  BowInv'
<1>1. Contents' /\ Now' = Now BY DEF Contents, Now
<1>2. CASE IsLog(Now[0])
  <2>1. step' = "sector" BY <1>2 DEF Round
  <2>2. Follows(run')
    <3> DEFINE v == va /\ Now[0].magic # "WOB"
               q == Now[0].sequence
    <3>1. run' = [NoRun EXCEPT !.validating = v, !.sequence = q] BY <1>2 DEF Round
    <3> HIDE DEF v, q
    <3> QED BY <3>1, NoRunFollows
  <2> QED BY <1>1, <1>2, <2>1, <2>2, Outside
<1>3. CASE ~IsLog(Now[0])
  <2>1. step' = "settled" /\ run' = NoRun BY <1>3 DEF Round
  <2>2. Follows(run') BY <2>1, NoRunFollows
  <2> QED BY <1>1, <2>1, <2>2, Outside
<1> QED BY <1>2, <1>3

\* A step that ends a restore, and leaves contents.
LEMMA EndsRun ==
  ASSUME Contents', step' \in {"off", "settled"}, run' = NoRun
  PROVE  BowInv'
<1>1. Follows(run') BY NoRunFollows
<1> QED BY <1>1, Outside

\* An error of the validation or of the replay.
LEMMA FailKeeps ==
  ASSUME BowInv, step \in {"sector", "entry"}, Fail, disk' = disk, cache' = cache
  PROVE  BowInv'
<1>1. Contents' /\ Now' = Now /\ run' = run BY DEF BowInv, Contents, Now, Fail
<1>2. Follows(run') BY <1>1 DEF BowInv
<1>3. CASE run.validating
  <2>1. step' = "forward" BY <1>3 DEF Fail
  <2>2. IsLog(Now'[0]) BY <1>1, <1>3 DEF BowInv, Validating
  <2>3. Follows(run)' BY <1>2 DEF Follows
  <2>4. Logging' BY <2>1 DEF Logging
  <2>5. Reading' BY <2>1 DEF Reading
  <2>6. Buffered' BY <2>1 DEF Buffered
  <2>7. Validating' BY <2>1, <2>2 DEF Validating
  <2> QED BY <1>1, <2>3, <2>4, <2>5, <2>6, <2>7 DEF BowInv
<1>4. CASE ~run.validating
  <2>1. step' = "off" BY <1>4 DEF Fail
  <2> QED BY <1>1, <1>2, <2>1, Outside
<1> QED BY <1>3, <1>4

\* The end of the checkpoint, the begin of a restore, rolling forward, and faults.
LEMMA OtherSteps ==
  ASSUME BowInv,
         \/ \E damaged \in SUBSET Blocks : BowEnd(damaged)
         \/ cp_restoreCheckpoint \/ RollForward
         \/ ReadFails \/ HitLimit \/ PowerCut
  PROVE  BowInv'
<1>0. 0 \in Blocks /\ Blocks \subseteq Nat /\ Contents /\ Follows(run) BY BlocksAre DEF BowInv
<1>1. ASSUME NEW damaged \in SUBSET Blocks, BowEnd(damaged) PROVE BowInv'
  <2>1. /\ step' = "off" /\ run' = run /\ cache' = cache
        /\ disk' = [b \in Blocks |-> IF b \in damaged THEN Rubbish ELSE disk[b]]
    BY <1>1 DEF BowEnd
  <2>2. /\ disk' = [b \in Blocks |-> disk'[b]]
        /\ \A b \in Blocks : disk'[b] = IF b \in damaged THEN Rubbish ELSE disk[b]
    BY <2>1
  <2>3. Contents' BY <1>0, <2>1, <2>2, PlainContent DEF Contents
  <2>4. Follows(run') BY <1>0, <2>1
  <2> QED BY <2>1, <2>3, <2>4, Outside
<1>2. CASE cp_restoreCheckpoint
  <2>1. Round(TRUE) /\ disk' = disk /\ cache' = cache BY <1>2 DEF cp_restoreCheckpoint
  <2> QED BY <1>0, <2>1, RoundKeeps
<1>3. CASE RollForward
  <2> DEFINE w == At(0, Now[Now[0].sector0])
  <2>1. step = "forward" /\ step' = "settled" /\ run' = NoRun /\ Write(w) /\ disk' = disk
    BY <1>3 DEF RollForward
  <2>2. IsSector(Now[0])
    <3>1. IsLog(Now[0]) BY <2>1 DEF BowInv, Validating
    <3> QED BY <1>0, <3>1, NowIs DEF IsContent
  <2>3. IsContent(Now[Now[0].sector0]) BY <1>0, <2>2, NowIs DEF IsSector
  <2>4. DOMAIN w = {0} /\ w[0] = Now[Now[0].sector0] BY DEF At
  <2> HIDE DEF w
  <2>5. Contents' BY <1>0, <2>1, <2>3, <2>4, WriteIs
  <2> QED BY <2>1, <2>5, EndsRun
<1>4. CASE ReadFails
  <2>1. disk' = disk /\ cache' = cache BY <1>4 DEF ReadFails
  <2>2. Contents' BY <1>0, <2>1 DEF Contents
  <2>3. CASE step \in {"sector", "entry"} /\ Fail BY <2>1, <2>3, FailKeeps
  <2>4. CASE step' = "off" /\ run' = NoRun BY <2>2, <2>4, EndsRun
  <2> QED BY <1>4, <2>3, <2>4 DEF ReadFails
<1>5. CASE HitLimit
  <2>1. disk' = disk /\ cache' = cache /\ step' = "off" /\ run' = NoRun BY <1>5 DEF HitLimit
  <2>2. Contents' BY <1>0, <2>1 DEF Contents
  <2> QED BY <2>1, <2>2, EndsRun
<1>6. CASE PowerCut
  <2>1. PICK kept \in SUBSET DOMAIN cache :
          disk' = [b \in Blocks |-> IF b \in kept THEN cache[b] ELSE disk[b]]
    BY <1>6 DEF PowerCut
  <2>2. step' = "off" /\ run' = NoRun /\ DOMAIN cache' = {} BY <1>6 DEF PowerCut, NoWrites
  <2>3. /\ disk' = [b \in Blocks |-> disk'[b]]
        /\ \A b \in Blocks : disk'[b] = IF b \in kept THEN cache[b] ELSE disk[b]
    BY <2>1
  <2>4. Contents' BY <1>0, <2>2, <2>3 DEF Contents
  <2> QED BY <2>2, <2>4, EndsRun
<1> QED BY <1>1, <1>2, <1>3, <1>4, <1>5, <1>6

\* A block of the device, read directly or through the map of relocations.
LEMMA ReadIs ==
  ASSUME Contents, Follows(run), NEW b \in Blocks
  PROVE  IsContent(relocatedRead(b))
<1>1. CASE run.validating
  <2>1. relocatedRead(b) = Now[Lookup(run.relocations, b)] BY <1>1 DEF relocatedRead
  <2>2. Lookup(run.relocations, b) \in Blocks BY DEF Follows
  <2> QED BY <2>1, <2>2, NowIs
<1>2. CASE ~run.validating
  <2>1. relocatedRead(b) = Now[b] BY <1>2 DEF relocatedRead
  <2> QED BY <2>1, NowIs
<1> QED BY <1>1, <1>2

\* The loop over the log sectors.
LEMMA SectorStep ==
  ASSUME BowInv, ReadSector
  PROVE  BowInv'
<1>0. 0 \in Blocks /\ Blocks \subseteq Nat /\ Contents /\ Follows(run) BY BlocksAre DEF BowInv
<1>1. step = "sector" /\ disk' = disk /\ cache' = cache BY DEF ReadSector
<1>2. Contents' /\ Now' = Now BY <1>0, <1>1 DEF Contents, Now
<1> DEFINE ls == relocatedRead(0)
<1>3. CASE EndOfLog
  <2>1. CASE Round(FALSE) BY <1>0, <1>1, <2>1, RoundKeeps
  <2>2. CASE step' = "settled" /\ run' = NoRun BY <1>2, <2>2, EndsRun
  <2> QED BY <1>3, <2>1, <2>2 DEF EndOfLog
<1>4. CASE Fail BY <1>1, <1>4, FailKeeps
<1>5. CASE /\ ValidSector(ls) /\ step' = "entry"
           /\ run' = [run EXCEPT !.ls = ls, !.index = ls.count, !.used = NoneUsed]
  <2>1. IsSector(ls)
    <3>1. IsLog(ls) BY <1>5 DEF ValidSector, IsLog
    <3> QED BY <1>0, <3>1, ReadIs DEF IsContent
  <2>2. ls.count \in 1..ls.count
    <3>1. ls.count \in Nat BY <2>1 DEF IsSector
    <3> QED BY <1>5, <3>1 DEF ValidSector
  <2> HIDE DEF ls
  <2>3. run' = [validating |-> run.validating, sequence |-> run.sequence, ls |-> ls, index |-> ls.count,
                relocations |-> run.relocations, moved |-> run.moved, used |-> NoneUsed,
                buffer |-> run.buffer, restored |-> run.restored]
    BY <1>0, <1>5 DEF Follows
  <2>4. /\ run'.ls = ls /\ run'.index = ls.count /\ run'.relocations = run.relocations
        /\ run'.moved = run.moved
    BY ONLY <2>3
  <2>5. run'.validating = run.validating BY ONLY <2>3, Zenon
  <2>6. run' = [validating |-> run'.validating, sequence |-> run'.sequence, ls |-> run'.ls,
                index |-> run'.index, relocations |-> run'.relocations, moved |-> run'.moved,
                used |-> run'.used, buffer |-> run'.buffer, restored |-> run'.restored]
    BY ONLY <2>3
  <2>7. Follows(run)' BY <1>0, <2>4, <2>6 DEF Follows
  <2>8. Logging' BY <1>5 DEF Logging
  <2>9. Reading' BY <2>1, <2>2, <2>4 DEF Reading
  <2>10. Buffered' BY <1>5 DEF Buffered
  <2>11. Validating' BY <1>1, <1>2, <1>5, <2>5 DEF BowInv, Validating
  <2> QED BY <1>2, <2>7, <2>8, <2>9, <2>10, <2>11 DEF BowInv
<1> QED BY <1>3, <1>4, <1>5 DEF ReadSector

\* The loop over the entries: the validation relocates, the replay reads ahead.
LEMMA EntryStep ==
  ASSUME BowInv, ReadEntry
  PROVE  BowInv'
<1>0. 0 \in Blocks /\ Blocks \subseteq Nat /\ Contents /\ Follows(run) BY BlocksAre DEF BowInv
<1>1. step = "entry" /\ disk' = disk /\ cache' = cache BY DEF ReadEntry
<1>2. Contents' /\ Now' = Now BY <1>0, <1>1 DEF Contents, Now
<1> DEFINE le == run.ls.entries[run.index]
           buffer == [i \in 0..(le.size - 1) |-> relocatedRead(le.dest + i)]
           relocations == relocate(run.relocations, le.source, le.dest, le.size)
           moved == [b \in Blocks |-> IF b \in Part(le.source, le.size)
                                          THEN run.moved[b - le.source + le.dest] ELSE run.moved[b]]
<1>3. IsSector(run.ls) /\ run.index \in 1..run.ls.count BY <1>1 DEF BowInv, Reading
<1>4. IsEntry(le) BY <1>3, SectorIs
<1>5. run.ls.count \in Nat /\ run.index \in Nat BY <1>3 DEF IsSector
<1>6. CASE Fail BY <1>1, <1>6, FailKeeps
<1>7. CASE /\ run.validating
           /\ run' = [run EXCEPT
               !.relocations = relocate(@, le.source, le.dest, le.size),
               !.moved = [b \in Blocks |-> IF b \in Part(le.source, le.size)
                                               THEN @[b - le.source + le.dest] ELSE @[b]],
               !.index = @ - 1,
               !.sequence = IF run.index = 1 THEN @ - 1 ELSE @]
           /\ step' = IF run.index = 1 THEN "sector" ELSE "entry"
  <2>1. run' = [validating |-> run.validating,
                sequence |-> IF run.index = 1 THEN run.sequence - 1 ELSE run.sequence,
                ls |-> run.ls, index |-> run.index - 1,
                relocations |-> relocations, moved |-> moved, used |-> run.used,
                buffer |-> run.buffer, restored |-> run.restored]
    BY <1>0, <1>7 DEF Follows
  <2>2. IsMap(run.relocations) /\ run.moved \in [Blocks -> Blocks] BY <1>0 DEF Follows
  <2>3. /\ IsMap(relocations)
        /\ \A x \in Nat : Lookup(relocations, x) =
                            IF le.source <= x /\ x < le.source + le.size
                            THEN Lookup(run.relocations, x - le.source + le.dest)
                            ELSE Lookup(run.relocations, x)
    <3>1. le.source \in Nat /\ le.dest \in Nat /\ le.size \in Nat \ {0} BY <1>4 DEF IsEntry
    <3>2. relocations = relocate(run.relocations, le.source, le.dest, le.size) OBVIOUS
    <3> HIDE DEF le, relocations
    <3>3. PICK m, s, d, c, r : /\ m = run.relocations /\ s = le.source /\ d = le.dest /\ c = le.size
                               /\ r = relocations
      OBVIOUS
    <3>4. IsMap(m) /\ s \in Nat /\ d \in Nat /\ c \in Nat \ {0} /\ r = relocate(m, s, d, c)
      BY <2>2, <3>1, <3>2, <3>3
    <3>5. IsMap(r) /\ \A x \in Nat : Lookup(r, x) = IF s <= x /\ x < s + c
                                       THEN Lookup(m, x - s + d) ELSE Lookup(m, x)
      BY ONLY <3>4, RelocateFollows
    <3> QED BY <3>3, <3>5
  <2>4. ASSUME NEW b \in Blocks
        PROVE  Lookup(relocations, b) = moved[b] /\ moved[b] \in Blocks
    <3>1. le.source \in Nat /\ le.dest \in Nat /\ le.size \in Nat \ {0} /\ b \in Nat
      BY <1>0, <1>4 DEF IsEntry
    <3>2. b \in Part(le.source, le.size) <=> le.source <= b /\ b < le.source + le.size
      BY <3>1 DEF Part
    <3>3. ASSUME b \in Part(le.source, le.size) PROVE b - le.source + le.dest \in Blocks
      <4>1. b - le.source + le.dest \in Part(le.dest, le.size) BY <3>1, <3>2, <3>3 DEF Part
      <4> QED BY <1>4, <4>1 DEF IsEntry
    <3> HIDE DEF le, relocations
    <3>4. moved[b] = IF b \in Part(le.source, le.size)
                     THEN run.moved[b - le.source + le.dest] ELSE run.moved[b] OBVIOUS
    <3>5. \A x \in Blocks : Lookup(run.relocations, x) = run.moved[x] BY <1>0 DEF Follows
    <3> QED BY <2>2, <2>3, <3>1, <3>2, <3>3, <3>4, <3>5
  <2>5. moved \in [Blocks -> Blocks] BY <2>4
  <2> HIDE DEF moved, relocations
  <2>6. /\ run'.ls = run.ls /\ run'.index = run.index - 1 /\ run'.relocations = relocations
        /\ run'.moved = moved
    BY ONLY <2>1
  <2>7. run' = [validating |-> run'.validating, sequence |-> run'.sequence, ls |-> run'.ls,
                index |-> run'.index, relocations |-> run'.relocations, moved |-> run'.moved,
                used |-> run'.used, buffer |-> run'.buffer, restored |-> run'.restored]
    BY ONLY <2>1
  <2>8. Follows(run') BY <2>3, <2>4, <2>5, <2>6, <2>7 DEF Follows
  <2>9. IsLog(Now'[0]) BY <1>1, <1>2, <1>7 DEF BowInv, Validating
  <2>10. CASE run.index = 1
    <3>1. step' = "sector" BY <1>7, <2>10
    <3> QED BY <1>2, <2>8, <2>9, <3>1, Outside
  <2>11. CASE run.index # 1
    <3>1. step' = "entry" BY <1>7, <2>11
    <3>2. Follows(run)' BY <2>8 DEF Follows
    <3>3. Logging' BY <3>1 DEF Logging
    <3>4. Reading'
      <4>1. run.index - 1 \in 1..run.ls.count BY <1>3, <1>5, <2>11
      <4>2. IsSector(run'.ls) /\ run'.index \in 1..run'.ls.count BY <1>3, <2>6, <4>1
      <4> QED BY <4>2 DEF Reading
    <3>5. Buffered' BY <3>1 DEF Buffered
    <3>6. Validating' BY <2>9, <3>1 DEF Validating
    <3> QED BY <1>2, <3>2, <3>3, <3>4, <3>5, <3>6 DEF BowInv
  <2> QED BY <2>10, <2>11
<1>8. CASE /\ ~run.validating /\ run' = [run EXCEPT !.buffer = buffer]
           /\ step' \in {"save", "copy"}
  <2>1. \A i \in 0..(le.size - 1) : IsContent(buffer[i])
    <3>1. \A i \in 0..(le.size - 1) : le.dest + i \in Blocks
      <4>1. le.dest \in Nat /\ le.size \in Nat BY <1>4 DEF IsEntry
      <4>2. \A i \in 0..(le.size - 1) : le.dest + i \in Part(le.dest, le.size) BY <4>1 DEF Part
      <4> QED BY <1>4, <4>2 DEF IsEntry
    <3> HIDE DEF le
    <3> QED BY <1>0, <3>1, ReadIs
  <2>2. buffer = [i \in 0..(le.size - 1) |-> buffer[i]] OBVIOUS
  <2> HIDE DEF buffer
  <2>3. run' = [validating |-> run.validating, sequence |-> run.sequence, ls |-> run.ls, index |-> run.index,
                relocations |-> run.relocations, moved |-> run.moved, used |-> run.used,
                buffer |-> buffer, restored |-> run.restored]
    BY <1>0, <1>8 DEF Follows
  <2>4. /\ run'.ls = run.ls /\ run'.index = run.index /\ run'.relocations = run.relocations
        /\ run'.moved = run.moved /\ run'.buffer = buffer
    BY ONLY <2>3
  <2>5. run' = [validating |-> run'.validating, sequence |-> run'.sequence, ls |-> run'.ls,
                index |-> run'.index, relocations |-> run'.relocations, moved |-> run'.moved,
                used |-> run'.used, buffer |-> run'.buffer, restored |-> run'.restored]
    BY ONLY <2>3
  <2>6. Follows(run)' BY <1>0, <2>4, <2>5 DEF Follows
  <2>7. Logging' BY <1>8 DEF Logging
  <2>8. Reading' BY <1>3, <2>4 DEF Reading
  <2>9. Buffered' BY <2>1, <2>2, <2>4 DEF Buffered
  <2>11. ~run'.validating
    <3>1. run'.validating = run.validating BY ONLY <2>3, Zenon
    <3> QED BY <1>8, <3>1
  <2>10. Validating' BY <1>8, <2>11 DEF Validating
  <2> QED BY <1>2, <2>6, <2>7, <2>8, <2>9, <2>10 DEF BowInv
<1>9. \/ Fail
      \/ /\ run.validating
         /\ run' = [run EXCEPT
               !.relocations = relocate(@, le.source, le.dest, le.size),
               !.moved = [b \in Blocks |-> IF b \in Part(le.source, le.size)
                                               THEN @[b - le.source + le.dest] ELSE @[b]],
               !.index = @ - 1,
               !.sequence = IF run.index = 1 THEN @ - 1 ELSE @]
         /\ step' = IF run.index = 1 THEN "sector" ELSE "entry"
      \/ /\ ~run.validating /\ run' = [run EXCEPT !.buffer = buffer]
         /\ step' \in {"save", "copy"}
  BY DEF ReadEntry, Entry
<1> QED BY <1>6, <1>7, <1>8, <1>9

\* fsync.
LEMMA SyncIs ==
  ASSUME Contents, fsync PROVE Contents' /\ DOMAIN cache' = {}
<1>1. disk' = Now /\ DOMAIN cache' = {} BY DEF fsync, NoWrites
<1> QED BY <1>1, NowIs DEF Contents

\* The partial result of a replay.
LEMMA SaveSteps ==
  ASSUME BowInv, SavePartial \/ SaveSync
  PROVE  BowInv'
<1>0. 0 \in Blocks /\ Blocks \subseteq Nat /\ Contents /\ Follows(run) BY BlocksAre DEF BowInv
<1>1. step \in {"save", "save sync"} BY DEF SavePartial, SaveSync
<1>2. IsSector(run.ls) /\ run.index \in 1..run.ls.count BY <1>1 DEF BowInv, Reading
<1>3. /\ run.buffer = [i \in 0..(run.ls.entries[run.index].size - 1) |-> run.buffer[i]]
      /\ \A i \in 0..(run.ls.entries[run.index].size - 1) : IsContent(run.buffer[i])
  BY <1>1 DEF BowInv, Buffered
<1>4. CASE SavePartial
  <2> DEFINE ls == [run.ls EXCEPT !.count = run.index, !.magic = "WOB"]
  <2>1. /\ step' = "save sync" /\ run' = [run EXCEPT !.ls = ls, !.used = NoneUsed]
        /\ disk' = Now /\ cache' = At(0, ls)
    BY <1>4 DEF SavePartial
  <2>2. IsSector(ls) /\ ls.count = run.index /\ ls.entries = run.ls.entries
    BY <1>2, SectorMarked
  <2> HIDE DEF ls
  <2>3. DOMAIN cache' = {0} /\ cache'[0] = ls BY <2>1 DEF At
  <2>4. IsContent(ls) BY <2>2, SectorIs
  <2>5. Contents' BY <1>0, <2>1, <2>3, <2>4, NowIs DEF Contents
  <2>6. run' = [validating |-> run.validating, sequence |-> run.sequence, ls |-> ls, index |-> run.index,
                relocations |-> run.relocations, moved |-> run.moved, used |-> NoneUsed,
                buffer |-> run.buffer, restored |-> run.restored]
    BY <1>0, <2>1 DEF Follows
  <2>7. /\ run'.ls = ls /\ run'.index = run.index /\ run'.relocations = run.relocations
        /\ run'.moved = run.moved /\ run'.buffer = run.buffer
    BY ONLY <2>6
  <2>8. run' = [validating |-> run'.validating, sequence |-> run'.sequence, ls |-> run'.ls,
                index |-> run'.index, relocations |-> run'.relocations, moved |-> run'.moved,
                used |-> run'.used, buffer |-> run'.buffer, restored |-> run'.restored]
    BY ONLY <2>6
  <2>9. Follows(run)' BY <1>0, <2>7, <2>8 DEF Follows
  <2>10. Logging' BY <2>1 DEF Logging
  <2>11. Reading'
    <3>1. run.index \in 1..run.index
      <4>1. run.ls.count \in Nat BY <1>2 DEF IsSector
      <4> QED BY <1>2, <4>1
    <3>2. IsSector(run'.ls) /\ run'.index \in 1..run'.ls.count BY <2>2, <2>7, <3>1
    <3> QED BY <3>2 DEF Reading
  <2>12. Buffered'
    <3>1. run'.ls.entries[run'.index] = run.ls.entries[run.index] BY <2>2, <2>7
    <3> QED BY <1>3, <2>7, <3>1 DEF Buffered
  <2>13. Validating'
    <3>1. run'.validating = run.validating BY ONLY <2>6, Zenon
    <3>2. ~run'.validating BY <1>1, <3>1 DEF BowInv, Validating
    <3> QED BY <2>1, <3>2 DEF Validating
  <2> QED BY <2>5, <2>9, <2>10, <2>11, <2>12, <2>13 DEF BowInv
<1>5. CASE SaveSync
  <2>1. step' = "copy" /\ run' = run /\ fsync BY <1>5 DEF SaveSync
  <2>2. Contents' BY <1>0, <2>1, SyncIs
  <2>3. Follows(run)' BY <1>0, <2>1 DEF Follows
  <2>4. Logging' BY <2>1 DEF Logging
  <2>5. Reading' BY <1>2, <2>1 DEF Reading
  <2>6. Buffered' BY <1>3, <2>1 DEF Buffered
  <2>7. Validating' BY <1>1, <2>1 DEF BowInv, Validating
  <2> QED BY <2>2, <2>3, <2>4, <2>5, <2>6, <2>7 DEF BowInv
<1> QED BY <1>4, <1>5

\* The copy of an entry, and the flush after the last.
LEMMA CopySteps ==
  ASSUME BowInv, Copy \/ Flush
  PROVE  BowInv'
<1>0. 0 \in Blocks /\ Blocks \subseteq Nat /\ Contents /\ Follows(run) BY BlocksAre DEF BowInv
<1>1. CASE Flush
  <2>1. step = "flush" /\ step' = "sector" /\ fsync /\ run' = [run EXCEPT !.sequence = @ - 1]
    BY <1>1 DEF Flush
  <2>2. run' = [validating |-> run.validating, sequence |-> run.sequence - 1, ls |-> run.ls,
                index |-> run.index, relocations |-> run.relocations, moved |-> run.moved,
                used |-> run.used, buffer |-> run.buffer, restored |-> run.restored]
    BY <1>0, <2>1 DEF Follows
  <2>3. run'.relocations = run.relocations /\ run'.moved = run.moved BY ONLY <2>2
  <2>4. run' = [validating |-> run'.validating, sequence |-> run'.sequence, ls |-> run'.ls,
                index |-> run'.index, relocations |-> run'.relocations, moved |-> run'.moved,
                used |-> run'.used, buffer |-> run'.buffer, restored |-> run'.restored]
    BY ONLY <2>2
  <2>5. Follows(run') BY <1>0, <2>3, <2>4 DEF Follows
  <2>6. ~run'.validating
    <3>1. run'.validating = run.validating BY ONLY <2>2, Zenon
    <3> QED BY <2>1, <3>1 DEF BowInv, Validating
  <2>7. Contents' BY <1>0, <2>1, SyncIs
  <2> QED BY <2>1, <2>5, <2>6, <2>7, Outside
<1>2. CASE Copy
  <2> DEFINE le == run.ls.entries[run.index]
             next1 == IF run.index = 1 /\ run.ls.sequence # 0 /\ run.buffer[0].magic = "BOW"
                      THEN [run.buffer EXCEPT ![0].magic = "WOB"] ELSE run.buffer
             w == [b \in Part(le.source, le.size) |-> next1[b - le.source]]
             used1 == markUsed(run.used, le.dest, le.dest + le.size)
  <2>1. /\ step = "copy" /\ Write(w) /\ disk' = disk
        /\ step' = IF run.index = 1 THEN "flush" ELSE "entry"
    BY <1>2 DEF Copy, Copied, Entry
  <2>2. run' = [run EXCEPT !.used = markUsed(@, le.dest, le.dest + le.size),
                           !.buffer = <<>>, !.restored = TRUE, !.index = @ - 1]
    BY <1>2 DEF Copy, Entry
  <2>3. IsSector(run.ls) /\ run.index \in 1..run.ls.count BY <2>1 DEF BowInv, Reading
  <2>4. IsEntry(le) /\ run.ls.count \in Nat BY <2>3, SectorIs DEF IsSector
  <2>5. /\ run.buffer = [i \in 0..(le.size - 1) |-> run.buffer[i]]
        /\ \A i \in 0..(le.size - 1) : IsContent(run.buffer[i])
    BY <2>1 DEF BowInv, Buffered
  <2>6. le.source \in Nat /\ le.size \in Nat \ {0} BY <2>4 DEF IsEntry
  <2>7. ~run.validating BY <2>1 DEF BowInv, Validating
  <2>8. \A i \in 0..(le.size - 1) : IsContent(next1[i])
    <3>1. CASE run.index = 1 /\ run.ls.sequence # 0 /\ run.buffer[0].magic = "BOW"
      <4> DEFINE head == [run.buffer[0] EXCEPT !.magic = "WOB"]
      <4>1. next1 = [run.buffer EXCEPT ![0] = head] BY <3>1
      <4>2. 0 \in 0..(le.size - 1) BY <2>6
      <4>3. IsSector(run.buffer[0]) BY <2>5, <3>1, <4>2 DEF IsContent, IsLog
      <4>4. IsContent(head) BY <4>3, SectorPartial, SectorIs
      <4> HIDE DEF head, le, next1
      <4>5. DOMAIN run.buffer = 0..(le.size - 1) BY <2>5
      <4>6. \A i \in 0..(le.size - 1) : next1[i] = IF i = 0 THEN head ELSE run.buffer[i] BY <4>1, <4>5
      <4> QED BY <2>5, <4>4, <4>6
    <3>2. CASE ~(run.index = 1 /\ run.ls.sequence # 0 /\ run.buffer[0].magic = "BOW")
      <4>1. next1 = run.buffer BY <3>2
      <4> QED BY <2>5, <4>1
    <3> QED BY <3>1, <3>2
  <2>9. Contents'
    <3>1. DOMAIN w \subseteq Blocks BY <2>4 DEF IsEntry
    <3>2. \A b \in Part(le.source, le.size) : b - le.source \in 0..(le.size - 1) BY <2>6 DEF Part
    <3>3. \A b \in DOMAIN w : IsContent(w[b]) BY <2>8, <3>2
    <3> HIDE DEF w
    <3> QED BY <1>0, <2>1, <3>1, <3>3, WriteIs
  <2>10. run' = [validating |-> run.validating, sequence |-> run.sequence, ls |-> run.ls,
                index |-> run.index - 1, relocations |-> run.relocations, moved |-> run.moved,
                used |-> used1, buffer |-> <<>>, restored |-> TRUE]
    BY <1>0, <2>2 DEF Follows
  <2> HIDE DEF used1
  <2>11. /\ run'.relocations = run.relocations /\ run'.moved = run.moved /\ run'.ls = run.ls
         /\ run'.index = run.index - 1
    BY ONLY <2>10
  <2>12. run' = [validating |-> run'.validating, sequence |-> run'.sequence, ls |-> run'.ls,
                index |-> run'.index, relocations |-> run'.relocations, moved |-> run'.moved,
                used |-> run'.used, buffer |-> run'.buffer, restored |-> run'.restored]
    BY ONLY <2>10
  <2>13. Follows(run)' BY <1>0, <2>11, <2>12 DEF Follows
  <2>14. ~run'.validating
    <3>1. run'.validating = run.validating BY ONLY <2>10, Zenon
    <3> QED BY <2>7, <3>1
  <2>15. step' \in {"flush", "entry"} BY <2>1
  <2>16. Logging' BY <2>15 DEF Logging
  <2>17. Reading'
    <3>1. CASE run.index = 1
      <4>1. step' = "flush" BY <2>1, <3>1
      <4> QED BY <4>1 DEF Reading
    <3>2. CASE run.index # 1
      <4>1. run.index - 1 \in 1..run.ls.count BY <2>3, <2>4, <3>2
      <4>2. IsSector(run'.ls) /\ run'.index \in 1..run'.ls.count BY <2>3, <2>11, <4>1
      <4> QED BY <4>2 DEF Reading
    <3> QED BY <3>1, <3>2
  <2>18. Buffered' BY <2>15 DEF Buffered
  <2>19. Validating' BY <2>14, <2>15 DEF Validating
  <2> QED BY <2>9, <2>13, <2>16, <2>17, <2>18, <2>19 DEF BowInv
<1> QED BY <1>1, <1>2

\* The log that dm-bow begins with.
LEMMA InitLogs ==
  ASSUME RestoreInit PROVE BowInv
<1> DEFINE free == Blocks \ InUse
           sector0 == Min(free)
           saved == Min(free \ {sector0})
           entry == [source |-> 0, dest |-> saved, size |-> 1,
                     checksum |-> crc32(0, At(0, Old(0)))]
           log == Log("BOW", 0, 1, <<entry>>, sector0)
<1>1. 0 \in Blocks /\ Blocks \subseteq Nat BY BlocksAre
<1>2. free # {} /\ \A x : free \ {x} # {}
  <2>1. Cardinality(free) >= 2 BY BowRestoreAssumption
  <2>2. IsFiniteSet(free)
    <3>1. IsFiniteSet(0..MaxBlock) BY FS_Interval, BowRestoreAssumption
    <3> QED BY <3>1, FS_Subset DEF Blocks
  <2>3. free # {} BY <2>1, FS_EmptySet
  <2>4. ASSUME NEW x, free \ {x} = {} PROVE FALSE
    <3>1. free = {x} BY <2>3, <2>4
    <3>2. Cardinality({x}) = 1 BY FS_Singleton
    <3> QED BY <2>1, <3>1, <3>2
  <2> QED BY <2>3, <2>4
<1>3. sector0 \in free /\ saved \in free
  <2>1. sector0 \in free BY <1>1, <1>2, MinIs
  <2>2. saved \in free \ {sector0}
    <3> HIDE DEF sector0
    <3> QED BY <1>1, <1>2, MinIs
  <2> QED BY <2>1, <2>2
<1>4. 0 \notin free /\ free \subseteq Blocks BY BowRestoreAssumption
<1>5. /\ disk = [b \in Blocks |-> IF b = 0 THEN log
                                      ELSE IF b \in {sector0, saved} THEN Old(0) ELSE Old(b)]
      /\ role = [b \in Blocks |-> IF b = 0 THEN "log" ELSE IF b = sector0 THEN "current"
                                      ELSE IF b = saved THEN "backup"
                                      ELSE IF b \in InUse THEN "unchanged" ELSE "free"]
      /\ DOMAIN cache = {} /\ step = "bow" /\ run = NoRun
  BY DEF RestoreInit, NoWrites
<1> HIDE DEF sector0, saved
<1>6. IsEntry(entry)
  <2>1. saved \in Nat BY <1>1, <1>3, <1>4
  <2>2. Part(0, 1) = {0} /\ Part(saved, 1) = {saved} BY <2>1 DEF Part
  <2> QED BY <1>1, <1>3, <1>4, <2>1, <2>2 DEF IsEntry
<1> HIDE DEF entry
<1>7. IsSector(log)
  <2>1. <<>> \in Seq({}) OBVIOUS
  <2>2. sector0 \in Blocks \ {0} BY <1>3, <1>4
  <2>3. \A x \in {} : IsEntry(x) OBVIOUS
  <2>4. PICK e, z, s, E : e = entry /\ z = sector0 /\ s = <<>> /\ E = {} OBVIOUS
  <2>5. s \in Seq(E) /\ (\A x \in E : IsEntry(x)) /\ IsEntry(e) /\ z \in Blocks \ {0}
    BY <1>6, <2>1, <2>2, <2>3, <2>4
  <2>6. IsSector(Log("BOW", 0, 1, <<e>>, z)) BY ONLY <2>5, SectorNew
  <2> QED BY <2>4, <2>6
<1>8. log.count = Len(log.entries) BY DEF Log
<1> HIDE DEF log
<1>9. disk[0] = log /\ role[0] = "log" BY <1>1, <1>5
<1>10. \A b \in Blocks : IsContent(disk[b])
  <2>1. \A b \in Blocks : disk[b] = log \/ \E x : disk[b] = Old(x) BY <1>5
  <2> QED BY <1>7, <2>1, SectorIs, PlainContent
<1>11. Contents BY <1>5, <1>10 DEF Contents
<1>12. Logging BY <1>5, <1>7, <1>8, <1>9 DEF Logging
<1>13. Follows(run) /\ ~run.validating BY <1>5, NoRunFollows
<1>14. Reading /\ Buffered /\ Validating BY <1>5, <1>13 DEF Reading, Buffered, Validating
<1> QED BY <1>11, <1>12, <1>13, <1>14 DEF BowInv

\* Every step keeps the invariant.
LEMMA BowStep ==
  ASSUME BowInv, [RestoreNext]_restoreVars PROVE BowInv'
<1>1. CASE UNCHANGED restoreVars
  BY <1>1 DEF BowInv, Follows, Contents, Logging, Reading, Buffered, Validating, restoreVars, Now
<1>2. ASSUME NEW b \in Blocks, NEW d \in Blocks, NEW n \in 1..MaxRange, BowBackup(b, n, d)
      PROVE  BowInv'
  BY <1>2, BowLogs
<1>3. ASSUME NEW b \in Blocks, BowRoll(b) \/ BowWrite(b) PROVE BowInv'
  <2>1. 1 \in 1..MaxRange BY BowRestoreAssumption
  <2> QED BY <1>3, <2>1, BowLogs
<1>4. CASE \/ \E damaged \in SUBSET Blocks : BowEnd(damaged)
           \/ cp_restoreCheckpoint \/ RollForward
           \/ ReadFails \/ HitLimit \/ PowerCut
  BY <1>4, OtherSteps
<1>5. CASE ReadSector BY <1>5, SectorStep
<1>6. CASE ReadEntry BY <1>6, EntryStep
<1>7. CASE SavePartial \/ SaveSync BY <1>7, SaveSteps
<1>8. CASE Copy \/ Flush BY <1>8, CopySteps
<1> QED BY <1>1, <1>2, <1>3, <1>4, <1>5, <1>6, <1>7, <1>8 DEF RestoreNext, RestoreStep

\* The validation of a dm-bow log of any length, on a device of any size, sees every block where the
\* replay of the log would put it: the ordered map that relocate splits at the ends of overlapping
\* ranges means the same as moving every block by itself, whatever power cuts come between.
THEOREM RelocationsAlwaysFollow ==
  RestoreSpec => []RelocationsFollow
<1>1. RestoreInit => BowInv BY InitLogs
<1>2. BowInv /\ [RestoreNext]_restoreVars => BowInv' BY BowStep
<1>3. BowInv => RelocationsFollow BY DEF BowInv, Follows, RelocationsFollow
<1> QED BY <1>1, <1>2, <1>3, PTL DEF RestoreSpec

\* The blocks that an entry of the log is about: those it saves, and those it saves them to.
Src(e) == Part(e.source, e.size)
Dst(e) == Part(e.dest, e.size)

\* A history h of the log: h.n entries were written; h.need[j] are the blocks that are needed to go
\* back from the j-th; a block is needed once at most, with contents h.val[x], but for block 0, which
\* is h.log[j] after the j-th entry.
Was(h, j, x) == IF x = 0 THEN h.log[j] ELSE h.val[x]

\* What the j-th entry saves, ...
Saves(h, j, e) ==
  /\ IsEntry(e)
  /\ Src(e) \subseteq h.need[j - 1] /\ Dst(e) \cap h.need[j - 1] = {}
  /\ h.need[j] = (h.need[j - 1] \ Src(e)) \cup Dst(e) \cup {0}
  /\ \A i \in 0..(e.size - 1) : h.val[e.dest + i] = Was(h, j - 1, e.source + i)
  /\ e.checksum = crc32(e.source, [i \in 0..(e.size - 1) |-> Was(h, j - 1, e.source + i)])

\* ... and where it is in which log sector.
Counted(h, j, e) ==
  /\ h.seq[j] \in Nat /\ h.cnt[j] \in 1..LogSize /\ h.cnt[j] <= j
  /\ h.log[j].magic = "BOW" /\ h.log[j].sequence = h.seq[j] /\ h.log[j].count = h.cnt[j]
  /\ \A i \in 1..h.cnt[j] : h.log[j].entries[i] = h.ent[j - h.cnt[j] + i]
  /\ h.cnt[j] = 1 => e.source = 0 /\ e.size = 1 /\ h.seq[j] = h.seq[j - 1] + 1
  /\ h.cnt[j] # 1 => /\ 0 \notin Src(e) /\ h.seq[j] = h.seq[j - 1]
                     /\ j > 1 /\ h.cnt[j] = h.cnt[j - 1] + 1

Hist(h) ==
  /\ h.n \in Nat
  /\ \A j \in 1..h.n : Saves(h, j, h.ent[j]) /\ Counted(h, j, h.ent[j])
  /\ \A j \in 0..h.n : 0 \in h.need[j] /\ h.need[j] \subseteq Blocks
  /\ \A j \in 1..h.n : \A k \in j..h.n : Src(h.ent[j]) \cap h.need[k] \subseteq {0}
  /\ h.need[0] = InUse /\ \A x \in InUse \ {0} : h.val[x] = Old(x)
  /\ h.log[0] = Old(0) /\ h.seq[0] = -1

\* A history with one more entry.
Longer(h, e, l) ==
  [n |-> h.n + 1,
   ent |-> [j \in 1..(h.n + 1) |-> IF j = h.n + 1 THEN e ELSE h.ent[j]],
   need |-> [j \in 0..(h.n + 1) |-> IF j = h.n + 1 THEN (h.need[h.n] \ Src(e)) \cup Dst(e) \cup {0}
                                    ELSE h.need[j]],
   val |-> [x \in Blocks |-> IF x \in Dst(e) THEN Was(h, h.n, x - e.dest + e.source) ELSE h.val[x]],
   log |-> [j \in 0..(h.n + 1) |-> IF j = h.n + 1 THEN l ELSE h.log[j]],
   seq |-> [j \in 0..(h.n + 1) |-> IF j = h.n + 1 THEN l.sequence ELSE h.seq[j]],
   cnt |-> [j \in 1..(h.n + 1) |-> IF j = h.n + 1 THEN l.count ELSE h.cnt[j]]]

\* A range of blocks, by its numbers.
LEMMA PartIs ==
  ASSUME NEW b \in Nat, NEW n \in Nat \ {0}
  PROVE  /\ \A i \in 0..(n - 1) : b + i \in Part(b, n)
         /\ \A x \in Part(b, n) : x \in Nat /\ x - b \in 0..(n - 1)
BY DEF Part

\* What the longer history has at its end, and that it is the shorter one before.
LEMMA LongerIs ==
  ASSUME NEW h, NEW e, NEW l, h.n \in Nat, NEW g, g = Longer(h, e, l)
  PROVE  /\ g.n = h.n + 1 /\ g.ent[h.n + 1] = e /\ g.log[h.n + 1] = l
         /\ g.seq[h.n + 1] = l.sequence /\ g.cnt[h.n + 1] = l.count
         /\ g.need[h.n + 1] = (h.need[h.n] \ Src(e)) \cup Dst(e) \cup {0}
         /\ \A j \in 1..h.n : g.ent[j] = h.ent[j] /\ g.cnt[j] = h.cnt[j]
         /\ \A j \in 0..h.n : g.need[j] = h.need[j] /\ g.log[j] = h.log[j] /\ g.seq[j] = h.seq[j]
         /\ \A x \in Blocks \ Dst(e) : g.val[x] = h.val[x]
         /\ \A x \in Dst(e) \cap Blocks : g.val[x] = Was(h, h.n, x - e.dest + e.source)
<1>1. PICK n : n = h.n BY Zenon
<1>2. h.n + 1 \in Nat /\ h.n + 1 \in 1..(h.n + 1) /\ h.n + 1 \in 0..(h.n + 1)
      /\ (\A j \in 1..h.n : j \in 1..(h.n + 1) /\ j # h.n + 1)
      /\ (\A j \in 0..h.n : j \in 0..(h.n + 1) /\ j # h.n + 1)
  OBVIOUS
<1>3. g.n = h.n + 1 BY DEF Longer
<1>4. g.ent[h.n + 1] = e /\ \A j \in 1..h.n : g.ent[j] = h.ent[j] BY <1>2 DEF Longer
<1>5. /\ g.need[h.n + 1] = (h.need[h.n] \ Src(e)) \cup Dst(e) \cup {0}
      /\ \A j \in 0..h.n : g.need[j] = h.need[j] BY <1>2 DEF Longer
<1>6. g.log[h.n + 1] = l /\ \A j \in 0..h.n : g.log[j] = h.log[j] BY <1>2 DEF Longer
<1>7. g.seq[h.n + 1] = l.sequence /\ \A j \in 0..h.n : g.seq[j] = h.seq[j] BY <1>2 DEF Longer
<1>8. g.cnt[h.n + 1] = l.count /\ \A j \in 1..h.n : g.cnt[j] = h.cnt[j] BY <1>2 DEF Longer
<1>9. /\ \A x \in Blocks \ Dst(e) : g.val[x] = h.val[x]
      /\ \A x \in Dst(e) \cap Blocks : g.val[x] = Was(h, h.n, x - e.dest + e.source) BY DEF Longer
<1> QED BY <1>3, <1>4, <1>5, <1>6, <1>7, <1>8, <1>9

\* An entry that saves and counts as it should makes a history longer.
LEMMA Extends ==
  ASSUME NEW h, Hist(h), NEW e, IsEntry(e), Src(e) \subseteq h.need[h.n],
         \A j \in 0..h.n : Dst(e) \cap h.need[j] = {},
         e.checksum = crc32(e.source, [i \in 0..(e.size - 1) |-> Was(h, h.n, e.source + i)]),
         NEW l, l.magic = "BOW", l.sequence \in Nat, l.count \in 1..LogSize, l.count <= h.n + 1,
         l.entries[l.count] = e,
         \A i \in 1..(l.count - 1) : l.entries[i] = h.ent[h.n + 1 - l.count + i],
         l.count = 1 => e.source = 0 /\ e.size = 1 /\ l.sequence = h.seq[h.n] + 1,
         l.count # 1 => 0 \notin Src(e) /\ l.sequence = h.seq[h.n] /\ h.n >= 1 /\ l.count = h.cnt[h.n] + 1,
         NEW g, g = Longer(h, e, l)
  PROVE  Hist(g)
<1> DEFINE n == h.n
           m == h.n + 1
<1>1. n \in Nat /\ m \in Nat /\ m \in 1..m BY DEF Hist
<1>2. /\ g.n = m /\ g.ent[m] = e /\ g.log[m] = l /\ g.seq[m] = l.sequence /\ g.cnt[m] = l.count
      /\ g.need[m] = (h.need[n] \ Src(e)) \cup Dst(e) \cup {0}
      /\ \A j \in 1..n : g.ent[j] = h.ent[j] /\ g.cnt[j] = h.cnt[j]
      /\ \A j \in 0..n : g.need[j] = h.need[j] /\ g.log[j] = h.log[j] /\ g.seq[j] = h.seq[j]
      /\ \A x \in Blocks \ Dst(e) : g.val[x] = h.val[x]
      /\ \A x \in Dst(e) \cap Blocks : g.val[x] = Was(h, n, x - e.dest + e.source)
  BY <1>1, LongerIs
<1>3. /\ \A j \in 1..n : Saves(h, j, h.ent[j]) /\ Counted(h, j, h.ent[j])
      /\ \A j \in 0..n : 0 \in h.need[j] /\ h.need[j] \subseteq Blocks
      /\ \A j \in 1..n : \A k \in j..n : Src(h.ent[j]) \cap h.need[k] \subseteq {0}
      /\ h.need[0] = InUse /\ \A x \in InUse \ {0} : h.val[x] = Old(x)
      /\ h.log[0] = Old(0) /\ h.seq[0] = -1
  BY DEF Hist
<1>4. 0 \notin Dst(e) /\ Dst(e) \subseteq Blocks /\ Src(e) \subseteq Blocks /\ Src(e) \cap Dst(e) = {}
  <2>1. n \in 0..n BY <1>1
  <2>2. Dst(e) \cap h.need[n] = {} /\ 0 \in h.need[n] BY <1>3, <2>1
  <2>3. Dst(e) \subseteq Blocks /\ Src(e) \subseteq Blocks BY DEF IsEntry, Src, Dst
  <2> QED BY <2>2, <2>3
<1>5. e.source \in Nat /\ e.dest \in Nat /\ e.size \in Nat \ {0} BY DEF IsEntry
<1> HIDE DEF m, n
<1>6. ASSUME NEW j \in 0..n, NEW x \in h.need[j] PROVE Was(g, j, x) = Was(h, j, x)
  <2>1. x \in Blocks \ Dst(e) BY <1>3 DEF n
  <2> QED BY <1>2, <2>1 DEF Was
<1>7. ASSUME NEW j \in 1..m PROVE Saves(g, j, g.ent[j]) /\ Counted(g, j, g.ent[j])
  <2>1. CASE j \in 1..n
    <3> DEFINE f == h.ent[j]
    <3>1. g.ent[j] = f /\ j - 1 \in 0..n /\ j \in 0..n /\ j \in Nat BY <1>1, <1>2, <2>1
    <3>2. Saves(h, j, f) /\ Counted(h, j, f) BY <1>3, <2>1
    <3> HIDE DEF f
    <3>3. Saves(g, j, f)
      <4>1. \A x \in Src(f) : Was(g, j - 1, x) = Was(h, j - 1, x) BY <1>6, <3>1, <3>2 DEF Saves
      <4>2. f.source \in Nat /\ f.dest \in Nat /\ f.size \in Nat \ {0} BY <3>2 DEF Saves, IsEntry
      <4>3. \A i \in 0..(f.size - 1) : f.source + i \in Src(f) /\ f.dest + i \in Dst(f)
        BY <4>2, PartIs DEF Src, Dst
      <4>4. g.need[j] = h.need[j] /\ g.need[j - 1] = h.need[j - 1] BY <1>2, <3>1
      <4>5. \A x \in Dst(f) : g.val[x] = h.val[x]
        <5>1. Dst(f) \subseteq h.need[j] BY <3>2 DEF Saves
        <5>2. Dst(f) \subseteq Blocks \ Dst(e) BY <1>3, <3>1, <5>1 DEF n
        <5> QED BY <1>2, <5>2
      <4>6. \A i \in 0..(f.size - 1) : Was(g, j - 1, f.source + i) = Was(h, j - 1, f.source + i)
        BY <4>1, <4>3
      <4>7. \A i \in 0..(f.size - 1) : g.val[f.dest + i] = Was(g, j - 1, f.source + i)
        BY <3>2, <4>3, <4>5, <4>6 DEF Saves
      <4>8. [i \in 0..(f.size - 1) |-> Was(g, j - 1, f.source + i)]
            = [i \in 0..(f.size - 1) |-> Was(h, j - 1, f.source + i)] BY <4>6
      <4>9. f.checksum = crc32(f.source, [i \in 0..(f.size - 1) |-> Was(g, j - 1, f.source + i)])
        BY <3>2, <4>8 DEF Saves
      <4> QED BY <3>2, <4>4, <4>7, <4>9 DEF Saves
    <3>4. Counted(g, j, f)
      <4>1. g.seq[j] = h.seq[j] /\ g.seq[j - 1] = h.seq[j - 1] /\ g.cnt[j] = h.cnt[j] /\ g.log[j] = h.log[j]
        BY <1>2, <2>1, <3>1
      <4>2. h.cnt[j] \in Nat /\ h.cnt[j] <= j /\ \A i \in 1..h.cnt[j] : j - h.cnt[j] + i \in 1..n
        BY <1>1, <2>1, <3>1, <3>2, BowRestoreAssumption DEF Counted
      <4>3. \A i \in 1..g.cnt[j] : g.log[j].entries[i] = g.ent[j - g.cnt[j] + i]
        <5>1. ASSUME NEW i \in 1..h.cnt[j] PROVE h.log[j].entries[i] = g.ent[j - h.cnt[j] + i]
          <6>1. h.log[j].entries[i] = h.ent[j - h.cnt[j] + i] BY <3>2 DEF Counted
          <6> QED BY <1>2, <4>2, <6>1
        <5> QED BY <4>1, <5>1
      <4>4. h.cnt[j] # 1 => j - 1 \in 1..n /\ g.cnt[j - 1] = h.cnt[j - 1]
        BY <1>1, <1>2, <2>1, <3>2 DEF Counted
      <4> QED BY <3>2, <4>1, <4>3, <4>4 DEF Counted
    <3> QED BY <3>1, <3>3, <3>4
  <2>2. CASE j = m
    <3>1. g.ent[j] = e /\ j - 1 = n /\ n \in 0..n /\ j = m BY <1>1, <1>2, <2>2 DEF m, n
    <3>2. \A x \in Src(e) : Was(g, n, x) = Was(h, n, x) BY <1>6, <3>1 DEF n
    <3>3. \A i \in 0..(e.size - 1) : e.source + i \in Src(e) /\ e.dest + i \in Dst(e)
      BY <1>5, PartIs DEF Src, Dst
    <3>4. \A i \in 0..(e.size - 1) : g.val[e.dest + i] = Was(g, n, e.source + i)
      <4> SUFFICES ASSUME NEW i \in 0..(e.size - 1) PROVE g.val[e.dest + i] = Was(g, n, e.source + i)
        OBVIOUS
      <4>1. PICK x : x = e.dest + i OBVIOUS
      <4>2. x \in Dst(e) \cap Blocks BY <1>4, <3>3, <4>1
      <4>3. g.val[x] = Was(h, n, x - e.dest + e.source) BY <1>2, <4>2
      <4>4. x - e.dest + e.source = e.source + i BY <1>5, <4>1
      <4>5. Was(g, n, e.source + i) = Was(h, n, e.source + i) BY <3>2, <3>3
      <4> QED BY <4>1, <4>3, <4>4, <4>5
    <3>5. [i \in 0..(e.size - 1) |-> Was(g, n, e.source + i)]
          = [i \in 0..(e.size - 1) |-> Was(h, n, e.source + i)] BY <3>2, <3>3
    <3>6. e.checksum = crc32(e.source, [i \in 0..(e.size - 1) |-> Was(g, n, e.source + i)])
      BY <3>5 DEF n
    <3>7. g.need[n] = h.need[n] BY <1>2, <3>1
    <3>8. Src(e) \subseteq h.need[n] /\ Dst(e) \cap h.need[n] = {} BY <3>1 DEF n
    <3>11. g.need[j] = (g.need[j - 1] \ Src(e)) \cup Dst(e) \cup {0} BY <1>2, <3>1, <3>7
    <3>12. \A i \in 0..(e.size - 1) : g.val[e.dest + i] = Was(g, j - 1, e.source + i) BY <3>1, <3>4
    <3>13. e.checksum = crc32(e.source, [i \in 0..(e.size - 1) |-> Was(g, j - 1, e.source + i)])
      BY <3>1, <3>6
    <3>14. Src(e) \subseteq g.need[j - 1] /\ Dst(e) \cap g.need[j - 1] = {} BY <3>1, <3>7, <3>8
    <3>9. Saves(g, j, e) BY <3>11, <3>12, <3>13, <3>14 DEF Saves
    <3>10. Counted(g, j, e)
      <4>1. g.seq[j] = l.sequence /\ g.seq[j - 1] = h.seq[n] /\ g.cnt[j] = l.count /\ g.log[j] = l
        BY <1>2, <3>1
      <4>2. l.count \in Nat BY BowRestoreAssumption
      <4>3. ASSUME NEW i \in 1..l.count PROVE l.entries[i] = g.ent[j - l.count + i]
        <5>1. CASE i = l.count
          <6>1. j - l.count + i = m BY <1>1, <3>1, <4>2, <5>1
          <6> QED BY <1>2, <5>1, <6>1
        <5>2. CASE i # l.count
          <6>1. i \in 1..(l.count - 1) BY <4>2, <5>2
          <6>2. j = n + 1 /\ l.count <= n + 1 /\ h.n = n BY <1>1, <3>1 DEF m, n
          <6>3. j - l.count + i \in 1..n BY <1>1, <4>2, <6>1, <6>2
          <6>5. h.n + 1 - l.count + i = j - l.count + i BY <1>1, <4>2, <6>2
          <6>4. l.entries[i] = h.ent[j - l.count + i] BY <6>1, <6>5
          <6> QED BY <1>2, <6>3, <6>4
        <5> QED BY <5>1, <5>2
      <4>4. l.count <= j BY <3>1 DEF m
      <4>5. l.count = 1 => e.source = 0 /\ e.size = 1 /\ l.sequence = h.seq[n] + 1 BY DEF n
      <4>6. l.count # 1 => /\ 0 \notin Src(e) /\ l.sequence = h.seq[n] /\ j > 1
                           /\ l.count = g.cnt[j - 1] + 1
        <5> SUFFICES ASSUME l.count # 1 PROVE /\ 0 \notin Src(e) /\ l.sequence = h.seq[n] /\ j > 1
                                              /\ l.count = g.cnt[j - 1] + 1
          OBVIOUS
        <5>1. 0 \notin Src(e) /\ l.sequence = h.seq[n] /\ n >= 1 /\ l.count = h.cnt[n] + 1 BY DEF n
        <5>2. n \in 1..n /\ j > 1 BY <1>1, <3>1, <5>1 DEF m, n
        <5>3. g.cnt[n] = h.cnt[n] BY <1>2, <5>2
        <5> QED BY <3>1, <5>1, <5>2, <5>3
      <4> QED BY <4>1, <4>3, <4>4, <4>5, <4>6 DEF Counted
    <3> QED BY <3>1, <3>9, <3>10
  <2>3. j = m \/ j \in 1..n BY <1>1 DEF m, n
  <2> QED BY <2>1, <2>2, <2>3
<1>8. ASSUME NEW j \in 0..m PROVE 0 \in g.need[j] /\ g.need[j] \subseteq Blocks
  <2>1. CASE j = m BY <1>1, <1>2, <1>3, <1>4, <2>1
  <2>2. CASE j \in 0..n BY <1>2, <1>3, <2>2
  <2>3. j = m \/ j \in 0..n BY <1>1 DEF m, n
  <2> QED BY <2>1, <2>2, <2>3
<1>9. ASSUME NEW j \in 1..m, NEW k \in j..m PROVE Src(g.ent[j]) \cap g.need[k] \subseteq {0}
  <2>1. CASE j \in 1..n /\ k \in j..n
    <3>1. k \in 0..n BY <1>1, <2>1
    <3> QED BY <1>2, <1>3, <2>1, <3>1
  <2>2. CASE j \in 1..n /\ k = m
    <3>1. n \in j..n /\ j - 1 \in 0..n BY <1>1, <2>2
    <3>2. Src(h.ent[j]) \cap h.need[n] \subseteq {0} BY <1>3, <2>2, <3>1
    <3>3. Src(h.ent[j]) \subseteq h.need[j - 1] BY <1>3, <2>2 DEF Saves
    <3>4. Src(h.ent[j]) \cap Dst(e) = {} BY <3>1, <3>3 DEF n
    <3> QED BY <1>2, <2>2, <3>2, <3>4
  <2>3. CASE j = m
    <3>1. k = m BY <1>1, <2>3
    <3> QED BY <1>2, <1>4, <2>3, <3>1
  <2>4. j = m \/ (j \in 1..n /\ k = m) \/ (j \in 1..n /\ k \in j..n) BY <1>1 DEF m, n
  <2> QED BY <2>1, <2>2, <2>3, <2>4
<1>10. /\ g.need[0] = InUse /\ \A x \in InUse \ {0} : g.val[x] = Old(x)
       /\ g.log[0] = Old(0) /\ g.seq[0] = -1
  <2>1. 0 \in 0..n BY <1>1
  <2>2. \A x \in InUse : x \in Blocks \ Dst(e) BY <1>3, <2>1 DEF n
  <2> QED BY <1>2, <1>3, <2>1, <2>2
<1> QED BY <1>1, <1>2, <1>7, <1>8, <1>9, <1>10 DEF Hist

\* A device d is as needed to go back from the j-th entry, and a log sector or the locals of the
\* replay are there.
Good(h, d, j) == \A x \in h.need[j] \ {0} : d[x] = h.val[x]
LogAt(h, c, j) ==
  /\ c.sequence = h.seq[j] /\ c.count = h.cnt[j]
  /\ \A i \in 1..h.cnt[j] : c.entries[i] = h.ent[j - h.cnt[j] + i]
RunAt(h, j) ==
  /\ j \in 1..h.n /\ run.sequence = h.seq[j] /\ run.ls.sequence = h.seq[j] /\ run.index = h.cnt[j]
  /\ \A i \in 1..h.cnt[j] : run.ls.entries[i] = h.ent[j - h.cnt[j] + i]
BufferAt(h, j) ==
  \A i \in 0..(h.ent[j].size - 1) : run.buffer[i] = Was(h, j - 1, h.ent[j].source + i)

\* The history ends with what dm-bow uses the blocks for.
Roles(h) ==
  /\ h.n >= 1 /\ role[0] = "log"
  /\ h.need[h.n] = {x \in Blocks : role[x] \in {"unchanged", "backup", "log"}}

\* The blocks are what they were when the checkpoint ended, with those of block 0 in z.
Current(d, z) ==
  /\ \A b \in InUse \cup {x \in Blocks : role[x] = "changed"} :
       b # 0 => d[b] = IF role[b] = "changed" THEN New(b) ELSE Old(b)
  /\ z \in Blocks \ {0} /\ d[z] = IF zero THEN New(0) ELSE Old(0)

\* Nothing was restored yet.
Untouched(h) ==
  /\ disk[0] = h.log[h.n] /\ Current(disk, disk[0].sector0)
  /\ ~rotten => Good(h, disk, h.n)

\* The checkpoint is active.
Active(h) ==
  /\ step = "bow" /\ DOMAIN cache = {} /\ Untouched(h) /\ Good(h, disk, h.n)
  /\ \A x \in InUse : role[x] \in {"unchanged", "changed", "log"}
  /\ \A j \in 0..h.n : \A x \in h.need[j] : role[x] # "free"
  /\ role[disk[0].sector0] = "current"

\* A write under the checkpoint that saves blocks makes the history longer by an entry.
LEMMA BackupActive ==
  ASSUME BowInv, NEW h, Hist(h), Roles(h), Active(h),
         NEW b \in Blocks, NEW d \in Blocks, NEW n \in 1..MaxRange, BowBackup(b, n, d)
  PROVE  \E g : Hist(g) /\ (Roles(g) /\ Active(g))'
<1>a. PICK e : e = [source |-> b, dest |-> d, size |-> n,
                    checksum |-> crc32(b, [i \in 0..(n - 1) |-> disk[b + i]])]
  OBVIOUS
<1>b. PICK l : l = Log("BOW", disk[0].sequence, disk[0].count + 1, Append(disk[0].entries, e), disk[0].sector0)
  OBVIOUS
<1>c. PICK g : g = Longer(h, e, l) OBVIOUS
<1>d. PICK m : m = h.n + 1 OBVIOUS
<1>1. 0 \in Blocks /\ Blocks \subseteq Nat BY BlocksAre
<1>2. step = "bow" /\ DOMAIN cache = {} /\ disk[0] = h.log[h.n] /\ Current(disk, disk[0].sector0)
      /\ Good(h, disk, h.n) /\ role[0] = "log" /\ h.n \in Nat \ {0} /\ role[disk[0].sector0] = "current"
      /\ h.need[h.n] = {x \in Blocks : role[x] \in {"unchanged", "backup", "log"}}
  BY DEF Active, Untouched, Roles, Hist
<1>3. IsSector(disk[0]) /\ disk[0].count = Len(disk[0].entries) BY <1>2 DEF BowInv, Logging
<1>4. PICK E : disk[0].entries \in Seq(E) BY <1>3 DEF IsSector
<1>5. n \in Nat \ {0} /\ b \in Nat /\ d \in Nat BY <1>1, BowRestoreAssumption
<1>6. /\ disk[0].count < LogSize
      /\ Part(b, n) \subseteq Blocks /\ Part(d, n) \subseteq Blocks
      /\ \A x \in Part(b, n) : role[x] \in {"unchanged", "backup"}
      /\ \A x \in Part(d, n) : role[x] = "free"
  BY DEF BowBackup, AllIn
<1>7. /\ disk' = [x \in Blocks |-> IF x = 0 THEN l
                                   ELSE IF x \in Part(d, n) THEN [y \in Part(d, n) |-> disk[y - d + b]][x]
                                   ELSE IF x \in Part(b, n) THEN New(x) ELSE disk[x]]
      /\ role' = [x \in Blocks |-> IF x \in Part(d, n) THEN "backup"
                                   ELSE IF x \in Part(b, n) THEN "changed" ELSE role[x]]
      /\ cache' = cache /\ step' = step /\ zero' = zero /\ rotten' = rotten
  BY <1>a, <1>b DEF BowBackup
<1>8. e.source = b /\ e.dest = d /\ e.size = n /\ Src(e) = Part(b, n) /\ Dst(e) = Part(d, n)
  BY <1>a DEF Src, Dst
<1>9. e.checksum = crc32(b, [i \in 0..(n - 1) |-> disk[b + i]]) BY <1>a
<1>10. /\ l.magic = "BOW" /\ l.sequence = disk[0].sequence /\ l.count = disk[0].count + 1
       /\ l.entries = Append(disk[0].entries, e) /\ l.sector0 = disk[0].sector0
  BY <1>b DEF Log
<1>11. Counted(h, h.n, h.ent[h.n]) BY <1>2 DEF Hist
<1>12. /\ disk[0].sequence = h.seq[h.n] /\ disk[0].sequence \in Nat /\ disk[0].count = h.cnt[h.n]
       /\ disk[0].count \in Nat \ {0} /\ disk[0].count <= h.n
       /\ \A i \in 1..disk[0].count : disk[0].entries[i] = h.ent[h.n - disk[0].count + i]
  BY <1>2, <1>11, BowRestoreAssumption DEF Counted
<1>13. /\ \A x \in Src(e) : x \in Blocks /\ x # 0 /\ x \in h.need[h.n] /\ Was(h, h.n, x) = disk[x]
       /\ 0 \notin Src(e) /\ 0 \notin Dst(e)
  BY <1>2, <1>6, <1>8 DEF Good, Was
<1>14. Hist(g)
  <2>1. IsEntry(e) BY <1>5, <1>6, <1>8 DEF IsEntry
  <2>2. Src(e) \subseteq h.need[h.n] BY <1>13
  <2>3. \A j \in 0..h.n : Dst(e) \cap h.need[j] = {} BY <1>6, <1>8 DEF Active
  <2>4. e.checksum = crc32(e.source, [i \in 0..(e.size - 1) |-> Was(h, h.n, e.source + i)])
    <3>1. \A i \in 0..(n - 1) : b + i \in Src(e) BY <1>5, <1>8, PartIs
    <3>2. [i \in 0..(n - 1) |-> disk[b + i]] = [i \in 0..(n - 1) |-> Was(h, h.n, b + i)] BY <1>13, <3>1
    <3> QED BY <1>8, <1>9, <3>2
  <2>5. l.count \in 1..LogSize /\ l.count <= h.n + 1 /\ l.count # 1
    BY <1>2, <1>6, <1>10, <1>12, BowRestoreAssumption
  <2>6. /\ l.entries[l.count] = e
        /\ \A i \in 1..(l.count - 1) : l.entries[i] = h.ent[h.n + 1 - l.count + i]
    <3>1. Append(disk[0].entries, e)[disk[0].count + 1] = e BY <1>3, <1>4
    <3>2. \A i \in 1..disk[0].count : Append(disk[0].entries, e)[i] = disk[0].entries[i] BY <1>3, <1>4
    <3>3. l.count - 1 = disk[0].count /\ \A i \in 1..disk[0].count : h.n + 1 - l.count + i = h.n - disk[0].count + i
      <4>1. h.n \in Nat /\ disk[0].count \in Nat /\ l.count = disk[0].count + 1 BY <1>2, <1>10, <1>12
      <4> QED BY ONLY <4>1
    <3> QED BY <1>10, <1>12, <3>1, <3>2, <3>3
  <2>7. l.sequence \in Nat /\ l.sequence = h.seq[h.n] /\ l.count = h.cnt[h.n] + 1 /\ h.n >= 1
    BY <1>2, <1>10, <1>12
  <2>8. /\ l.magic = "BOW" /\ l.count = 1 => e.source = 0 /\ e.size = 1 /\ l.sequence = h.seq[h.n] + 1
        /\ l.count # 1 => 0 \notin Src(e) /\ l.sequence = h.seq[h.n] /\ h.n >= 1 /\ l.count = h.cnt[h.n] + 1
    BY <1>10, <1>13, <2>5, <2>7
  <2>9. l.sequence \in Nat BY <2>7
  <2>10. Hist(h) OBVIOUS
  <2> QED BY ONLY <1>c, <1>10, <2>1, <2>2, <2>3, <2>4, <2>5, <2>6, <2>8, <2>9, <2>10, Extends
<1>15. /\ g.n = m /\ g.log[m] = l
       /\ g.need[m] = (h.need[h.n] \ Src(e)) \cup Dst(e) \cup {0}
       /\ \A j \in 0..h.n : g.need[j] = h.need[j]
       /\ \A x \in Blocks \ Dst(e) : g.val[x] = h.val[x]
       /\ \A x \in Dst(e) \cap Blocks : g.val[x] = Was(h, h.n, x - e.dest + e.source)
  BY ONLY <1>c, <1>d, <1>2, LongerIs
<1>16. Roles(g)'
  <2>1. role'[0] = "log" BY <1>1, <1>2, <1>7, <1>8, <1>13
  <2>2. g.need[m] = {x \in Blocks : role'[x] \in {"unchanged", "backup", "log"}}
    BY <1>1, <1>2, <1>6, <1>7, <1>8, <1>15
  <2>3. m >= 1 BY <1>d, <1>2
  <2> QED BY <1>15, <2>1, <2>2, <2>3 DEF Roles
<1>17. Active(g)'
  <2>1. disk'[0] = l /\ l.sector0 = disk[0].sector0 BY <1>1, <1>7, <1>10
  <2>2. Good(g, disk', m)
    <3>1. ASSUME NEW x \in Dst(e) PROVE disk'[x] = g.val[x]
      <4>1. x \in Blocks /\ x # 0 BY <1>6, <1>8, <1>13
      <4>2. x - d + b \in Src(e)
        <5>1. x \in Nat /\ x - d \in 0..(n - 1) BY <1>5, <1>8, PartIs
        <5>2. b + (x - d) \in Src(e) BY <1>5, <1>8, <5>1, PartIs
        <5>3. b + (x - d) = x - d + b BY <1>5, <5>1
        <5> QED BY <5>2, <5>3
      <4>3. disk'[x] = disk[x - d + b] BY <1>7, <1>8, <4>1
      <4>4. g.val[x] = Was(h, h.n, x - d + b) BY <1>8, <1>15, <4>1
      <4> QED BY <1>13, <4>2, <4>3, <4>4
    <3>2. ASSUME NEW x \in h.need[h.n] \ Src(e), x # 0, x \notin Dst(e) PROVE disk'[x] = g.val[x]
      <4>1. x \in Blocks /\ disk[x] = h.val[x] BY <1>2, <3>2 DEF Good
      <4> QED BY <1>7, <1>8, <1>15, <3>2, <4>1
    <3> QED BY <1>15, <3>1, <3>2 DEF Good
  <2>3. disk[0].sector0 \in Blocks \ {0} /\ disk[0].sector0 \notin Part(d, n) /\ disk[0].sector0 \notin Part(b, n)
    BY <1>2, <1>6 DEF Current
  <2>4. \A x \in Blocks : role'[x] = IF x \in Part(d, n) THEN "backup"
                                     ELSE IF x \in Part(b, n) THEN "changed" ELSE role[x]
    BY <1>7
  <2>5. Current(disk, disk[0].sector0)'
    <3>1. ASSUME NEW x \in InUse \cup {y \in Blocks : role'[y] = "changed"}, x # 0
          PROVE  disk'[x] = IF role'[x] = "changed" THEN New(x) ELSE Old(x)
      <4>1. x \in Blocks BY BowRestoreAssumption
      <4>2. x \notin Part(d, n) BY <1>6, <2>4, <4>1 DEF Active
      <4>3. CASE x \in Part(b, n) BY <1>7, <2>4, <3>1, <4>1, <4>2, <4>3
      <4>4. CASE x \notin Part(b, n)
        <5>1. role'[x] = role[x] /\ disk'[x] = disk[x] BY <1>7, <2>4, <3>1, <4>1, <4>2, <4>4
        <5> QED BY <1>2, <3>1, <4>1, <5>1 DEF Current
      <4> QED BY <4>3, <4>4
    <3>2. disk'[disk[0].sector0] = disk[disk[0].sector0] BY <1>7, <2>3
    <3> QED BY <1>2, <1>7, <2>1, <2>3, <3>1, <3>2 DEF Current
  <2>6. \A x \in InUse : role'[x] \in {"unchanged", "changed", "log"}
    BY <1>6, <2>4, BowRestoreAssumption DEF Active
  <2>7. ASSUME NEW j \in 0..m, NEW x \in g.need[j] PROVE role'[x] # "free"
    <3>1. CASE j \in 0..h.n
      <4>1. x \in h.need[j] /\ x \in Blocks BY <1>15, <3>1 DEF Hist
      <4>2. role[x] # "free" BY <3>1, <4>1 DEF Active
      <4> QED BY <2>4, <4>1, <4>2
    <3>2. CASE j = m
      <4>1. x \in h.need[h.n] \/ x \in Dst(e) \/ x = 0 BY <1>15, <3>2
      <4>2. h.need[h.n] \subseteq Blocks BY <1>2
      <4> QED BY <1>1, <1>2, <1>6, <1>8, <2>4, <4>1, <4>2
    <3> QED BY <1>d, <1>2, <3>1, <3>2
  <2>8. role'[disk'[0].sector0] = "current" BY <1>2, <2>1, <2>3, <2>4
  <2>9. step' = "bow" /\ DOMAIN cache' = {} BY <1>2, <1>7
  <2>10. Untouched(g)' BY <1>15, <2>1, <2>2, <2>5 DEF Untouched, Good
  <2> QED BY <1>15, <2>2, <2>6, <2>7, <2>8, <2>9, <2>10 DEF Active, Good
<1> QED BY <1>14, <1>16, <1>17

\* The full log sector is saved as an entry of the next one.
LEMMA RollActive ==
  ASSUME BowInv, NEW h, Hist(h), Roles(h), Active(h), NEW f \in Blocks, BowRoll(f)
  PROVE  \E g : Hist(g) /\ (Roles(g) /\ Active(g))'
<1>a. PICK e : e = [source |-> 0, dest |-> f, size |-> 1, checksum |-> crc32(0, At(0, disk[0]))]
  OBVIOUS
<1>b. PICK l : l = Log("BOW", disk[0].sequence + 1, 1, <<e>>, disk[0].sector0) OBVIOUS
<1>c. PICK g : g = Longer(h, e, l) OBVIOUS
<1>d. PICK m : m = h.n + 1 OBVIOUS
<1>1. 0 \in Blocks /\ Blocks \subseteq Nat BY BlocksAre
<1>2. step = "bow" /\ DOMAIN cache = {} /\ disk[0] = h.log[h.n] /\ Current(disk, disk[0].sector0)
      /\ Good(h, disk, h.n) /\ role[0] = "log" /\ h.n \in Nat \ {0} /\ role[disk[0].sector0] = "current"
      /\ h.need[h.n] = {x \in Blocks : role[x] \in {"unchanged", "backup", "log"}}
  BY DEF Active, Untouched, Roles, Hist
<1>3. /\ disk = [x \in Blocks |-> disk[x]] /\ role = [x \in Blocks |-> role[x]]
  BY <1>2 DEF BowInv, Contents, Logging
<1>4. role[f] = "free" /\ f # 0 /\ f \in Nat BY <1>1, <1>2 DEF BowRoll
<1>5. /\ disk' = [disk EXCEPT ![f] = disk[0], ![0] = l] /\ role' = [role EXCEPT ![f] = "backup"]
      /\ cache' = cache /\ step' = step /\ zero' = zero /\ rotten' = rotten
  BY <1>a, <1>b DEF BowRoll
<1>6. /\ \A x \in Blocks : disk'[x] = IF x = 0 THEN l ELSE IF x = f THEN disk[0] ELSE disk[x]
      /\ \A x \in Blocks : role'[x] = IF x = f THEN "backup" ELSE role[x]
  BY <1>1, <1>3, <1>4, <1>5
<1>7. e.source = 0 /\ e.dest = f /\ e.size = 1 /\ Src(e) = {0} /\ Dst(e) = {f}
      /\ e.checksum = crc32(0, At(0, disk[0]))
  BY <1>a, <1>4 DEF Src, Dst, Part
<1>8. /\ l.magic = "BOW" /\ l.sequence = disk[0].sequence + 1 /\ l.count = 1
      /\ l.entries = <<e>> /\ l.sector0 = disk[0].sector0
  BY <1>b DEF Log
<1>9. disk[0].sequence = h.seq[h.n] /\ disk[0].sequence \in Nat BY <1>2 DEF Hist, Counted
<1>10. Hist(g)
  <2>1. IsEntry(e) BY <1>1, <1>4, <1>7 DEF IsEntry, Src, Dst
  <2>2. Src(e) \subseteq h.need[h.n] BY <1>1, <1>2, <1>7
  <2>3. \A j \in 0..h.n : Dst(e) \cap h.need[j] = {} BY <1>4, <1>7 DEF Active
  <2>4. e.checksum = crc32(e.source, [i \in 0..(e.size - 1) |-> Was(h, h.n, e.source + i)])
    <3>1. [i \in 0..(e.size - 1) |-> Was(h, h.n, e.source + i)] = At(0, disk[0])
      BY <1>2, <1>7 DEF Was, At
    <3> QED BY <1>7, <3>1
  <2>5. l.count \in 1..LogSize /\ l.count <= h.n + 1 BY <1>2, <1>8, BowRestoreAssumption
  <2>6. /\ l.entries[l.count] = e
        /\ \A i \in 1..(l.count - 1) : l.entries[i] = h.ent[h.n + 1 - l.count + i]
    BY <1>8
  <2>7. /\ l.magic = "BOW" /\ l.count = 1 => e.source = 0 /\ e.size = 1 /\ l.sequence = h.seq[h.n] + 1
        /\ l.count # 1 => 0 \notin Src(e) /\ l.sequence = h.seq[h.n] /\ h.n >= 1 /\ l.count = h.cnt[h.n] + 1
    BY <1>7, <1>8, <1>9
  <2>8. l.sequence \in Nat /\ Hist(h) BY <1>8, <1>9
  <2> QED BY ONLY <1>c, <1>8, <2>1, <2>2, <2>3, <2>4, <2>5, <2>6, <2>7, <2>8, Extends
<1>11. /\ g.n = m /\ g.log[m] = l
       /\ g.need[m] = (h.need[h.n] \ Src(e)) \cup Dst(e) \cup {0}
       /\ \A j \in 0..h.n : g.need[j] = h.need[j]
       /\ \A x \in Blocks \ Dst(e) : g.val[x] = h.val[x]
       /\ \A x \in Dst(e) \cap Blocks : g.val[x] = Was(h, h.n, x - e.dest + e.source)
  BY ONLY <1>c, <1>d, <1>2, LongerIs
<1>12. Roles(g)'
  <2>1. role'[0] = "log" BY <1>1, <1>2, <1>4, <1>6
  <2>2. g.need[m] = {x \in Blocks : role'[x] \in {"unchanged", "backup", "log"}}
    <3>1. 0 \in h.need[h.n] BY <1>1, <1>2
    <3>2. g.need[m] = h.need[h.n] \cup {f} BY <1>7, <1>11, <3>1
    <3> QED BY <1>2, <1>4, <1>6, <3>2
  <2>3. m >= 1 BY <1>d, <1>2
  <2> QED BY <1>11, <2>1, <2>2, <2>3 DEF Roles
<1>13. Active(g)'
  <2>1. disk'[0] = l /\ l.sector0 = disk[0].sector0 BY <1>1, <1>6, <1>8
  <2>2. Good(g, disk', m)
    <3>1. disk'[f] = g.val[f]
      <4>1. f - e.dest + e.source = 0 BY <1>4, <1>7
      <4>2. g.val[f] = Was(h, h.n, 0) BY <1>7, <1>11, <4>1
      <4> QED BY <1>2, <1>4, <1>6, <4>2 DEF Was
    <3>2. ASSUME NEW x \in h.need[h.n], x # 0, x # f PROVE disk'[x] = g.val[x]
      <4>1. x \in Blocks /\ disk[x] = h.val[x] BY <1>2, <3>2 DEF Good
      <4> QED BY <1>6, <1>7, <1>11, <3>2, <4>1
    <3> QED BY <1>7, <1>11, <3>1, <3>2 DEF Good
  <2>3. disk[0].sector0 \in Blocks \ {0} /\ disk[0].sector0 # f BY <1>2, <1>4 DEF Current
  <2>4. Current(disk, disk[0].sector0)'
    <3>1. ASSUME NEW x \in InUse \cup {y \in Blocks : role'[y] = "changed"}, x # 0
          PROVE  disk'[x] = IF role'[x] = "changed" THEN New(x) ELSE Old(x)
      <4>1. x \in Blocks BY BowRestoreAssumption
      <4>2. x # f BY <1>4, <1>6, <4>1 DEF Active
      <4>3. role'[x] = role[x] /\ disk'[x] = disk[x] BY <1>6, <3>1, <4>1, <4>2
      <4> QED BY <1>2, <3>1, <4>1, <4>3 DEF Current
    <3>2. disk'[disk[0].sector0] = disk[disk[0].sector0] BY <1>6, <2>3
    <3> QED BY <1>2, <1>5, <2>1, <2>3, <3>1, <3>2 DEF Current
  <2>5. \A x \in InUse : role'[x] \in {"unchanged", "changed", "log"}
    BY <1>4, <1>6, BowRestoreAssumption DEF Active
  <2>6. ASSUME NEW j \in 0..m, NEW x \in g.need[j] PROVE role'[x] # "free"
    <3>1. CASE j \in 0..h.n
      <4>1. x \in h.need[j] /\ x \in Blocks BY <1>11, <3>1 DEF Hist
      <4>2. role[x] # "free" BY <3>1, <4>1 DEF Active
      <4> QED BY <1>6, <4>1, <4>2
    <3>2. CASE j = m
      <4>1. x \in h.need[h.n] \/ x = f \/ x = 0 BY <1>7, <1>11, <3>2
      <4>2. h.need[h.n] \subseteq Blocks BY <1>2
      <4> QED BY <1>1, <1>2, <1>6, <4>1, <4>2
    <3> QED BY <1>d, <1>2, <3>1, <3>2
  <2>7. role'[disk'[0].sector0] = "current" BY <1>2, <1>6, <2>1, <2>3
  <2>8. step' = "bow" /\ DOMAIN cache' = {} BY <1>2, <1>5
  <2>9. Untouched(g)' BY <1>11, <2>1, <2>2, <2>4 DEF Untouched, Good
  <2> QED BY <1>11, <2>2, <2>5, <2>6, <2>7, <2>8, <2>9 DEF Active, Good
<1> QED BY <1>10, <1>12, <1>13

\* A write that needs no saving.
LEMMA WriteActive ==
  ASSUME BowInv, NEW h, Hist(h), Roles(h), Active(h), NEW b \in Blocks, BowWrite(b)
  PROVE  (Roles(h) /\ Active(h))'
<1>1. 0 \in Blocks /\ Blocks \subseteq Nat BY BlocksAre
<1>2. step = "bow" /\ DOMAIN cache = {} /\ disk[0] = h.log[h.n] /\ Current(disk, disk[0].sector0)
      /\ Good(h, disk, h.n) /\ role[0] = "log" /\ h.n >= 1 /\ role[disk[0].sector0] = "current"
      /\ h.need[h.n] = {x \in Blocks : role[x] \in {"unchanged", "backup", "log"}}
      /\ (\A x \in InUse : role[x] \in {"unchanged", "changed", "log"})
      /\ (\A j \in 0..h.n : \A x \in h.need[j] : role[x] # "free")
  BY DEF Active, Untouched, Roles, Hist
<1>3. /\ disk = [x \in Blocks |-> disk[x]] /\ role = [x \in Blocks |-> role[x]]
  BY <1>2 DEF BowInv, Contents, Logging
<1>4. cache' = cache /\ step' = step /\ rotten' = rotten BY DEF BowWrite
<1>5. disk[0].sector0 \in Blocks \ {0} BY <1>2 DEF Current
<1>6. \A j \in 0..h.n : h.need[j] \subseteq Blocks BY DEF Hist
<1>7. CASE /\ role[b] = "free" /\ role' = [role EXCEPT ![b] = "changed"] /\ zero' = zero
           /\ disk' = [disk EXCEPT ![b] = New(b)]
  <2>1. /\ \A x \in Blocks : disk'[x] = IF x = b THEN New(b) ELSE disk[x]
        /\ \A x \in Blocks : role'[x] = IF x = b THEN "changed" ELSE role[x]
    BY <1>3, <1>7
  <2>2. b # 0 /\ b \notin InUse /\ b # disk[0].sector0 BY <1>2, <1>7
  <2>3. disk'[0] = disk[0] /\ role'[0] = "log" BY <1>1, <1>2, <2>1, <2>2
  <2>4. h.need[h.n] = {x \in Blocks : role'[x] \in {"unchanged", "backup", "log"}}
    BY <1>2, <1>7, <2>1
  <2>5. Good(h, disk', h.n) BY <1>2, <1>7, <2>1 DEF Good
  <2>6. Current(disk, disk[0].sector0)'
    <3>1. ASSUME NEW x \in InUse \cup {y \in Blocks : role'[y] = "changed"}, x # 0
          PROVE  disk'[x] = IF role'[x] = "changed" THEN New(x) ELSE Old(x)
      <4>1. x \in Blocks BY BowRestoreAssumption
      <4>2. CASE x = b BY <2>1, <4>1, <4>2
      <4>3. CASE x # b
        <5>1. role'[x] = role[x] /\ disk'[x] = disk[x] BY <2>1, <4>1, <4>3
        <5> QED BY <1>2, <3>1, <4>1, <5>1 DEF Current
      <4> QED BY <4>2, <4>3
    <3>2. disk'[disk[0].sector0] = disk[disk[0].sector0] BY <1>5, <2>1, <2>2
    <3> QED BY <1>2, <1>5, <1>7, <2>3, <3>1, <3>2 DEF Current
  <2>7. \A x \in InUse : role'[x] \in {"unchanged", "changed", "log"}
    BY <1>2, <2>1, <2>2, BowRestoreAssumption
  <2>8. \A j \in 0..h.n : \A x \in h.need[j] : role'[x] # "free" BY <1>2, <1>6, <2>1
  <2>9. role'[disk'[0].sector0] = "current" BY <1>2, <1>5, <2>1, <2>2, <2>3
  <2>10. Untouched(h)' BY <1>2, <2>3, <2>5, <2>6 DEF Untouched, Good
  <2> QED BY <1>2, <1>4, <2>3, <2>4, <2>5, <2>7, <2>8, <2>9, <2>10 DEF Roles, Active, Good
<1>8. CASE role[b] = "log" /\ role' = role /\ zero' = TRUE /\ disk' = [disk EXCEPT ![disk[0].sector0] = New(0)]
  <2>1. \A x \in Blocks : disk'[x] = IF x = disk[0].sector0 THEN New(0) ELSE disk[x] BY <1>3, <1>8
  <2>2. disk'[0] = disk[0] /\ disk'[disk[0].sector0] = New(0) BY <1>1, <1>5, <2>1
  <2>3. disk[0].sector0 \notin InUse /\ disk[0].sector0 \notin h.need[h.n] BY <1>2
  <2>4. Good(h, disk', h.n) BY <1>2, <2>1, <2>3 DEF Good
  <2>5. Current(disk, disk[0].sector0)'
    <3>1. ASSUME NEW x \in InUse \cup {y \in Blocks : role'[y] = "changed"}, x # 0
          PROVE  disk'[x] = IF role'[x] = "changed" THEN New(x) ELSE Old(x)
      <4>1. x \in Blocks /\ x # disk[0].sector0 BY <1>2, <1>8, <2>3, BowRestoreAssumption
      <4>2. role'[x] = role[x] /\ disk'[x] = disk[x] BY <1>8, <2>1, <4>1
      <4> QED BY <1>2, <3>1, <4>1, <4>2 DEF Current
    <3> QED BY <1>5, <1>8, <2>2, <3>1 DEF Current
  <2>6. Untouched(h)' BY <1>2, <2>2, <2>4, <2>5 DEF Untouched, Good
  <2> QED BY <1>2, <1>4, <1>8, <2>2, <2>4, <2>6 DEF Roles, Active, Good
<1> QED BY <1>7, <1>8 DEF BowWrite

\* The log that dm-bow begins with has one entry.
LEMMA InitActive ==
  ASSUME RestoreInit PROVE \E g : Hist(g) /\ Roles(g) /\ Active(g)
<1> DEFINE free == Blocks \ InUse
           sector0 == Min(free)
           saved == Min(free \ {sector0})
<1>1. 0 \in Blocks /\ Blocks \subseteq Nat BY BlocksAre
<1>2. free # {} /\ \A x : free \ {x} # {}
  <2>1. Cardinality(free) >= 2 BY BowRestoreAssumption
  <2>2. IsFiniteSet(free)
    <3>1. IsFiniteSet(0..MaxBlock) BY FS_Interval, BowRestoreAssumption
    <3> QED BY <3>1, FS_Subset DEF Blocks
  <2>3. free # {} BY <2>1, FS_EmptySet
  <2>4. ASSUME NEW x, free \ {x} = {} PROVE FALSE
    <3>1. free = {x} BY <2>3, <2>4
    <3>2. Cardinality({x}) = 1 BY FS_Singleton
    <3> QED BY <2>1, <3>1, <3>2
  <2> QED BY <2>3, <2>4
<1>3. sector0 \in free /\ saved \in free /\ saved # sector0
  <2>1. sector0 \in free BY <1>1, <1>2, MinIs
  <2>2. saved \in free \ {sector0}
    <3> HIDE DEF sector0
    <3> QED BY <1>1, <1>2, MinIs
  <2> QED BY <2>1, <2>2
<1>4. PICK s, f : s = sector0 /\ f = saved OBVIOUS
<1>5. PICK e : e = [source |-> 0, dest |-> f, size |-> 1, checksum |-> crc32(0, At(0, Old(0)))] OBVIOUS
<1>6. PICK l : l = Log("BOW", 0, 1, <<e>>, s) OBVIOUS
<1>7. /\ disk = [b \in Blocks |-> IF b = 0 THEN l ELSE IF b \in {s, f} THEN Old(0) ELSE Old(b)]
      /\ role = [b \in Blocks |-> IF b = 0 THEN "log" ELSE IF b = s THEN "current"
                                  ELSE IF b = f THEN "backup"
                                  ELSE IF b \in InUse THEN "unchanged" ELSE "free"]
      /\ DOMAIN cache = {} /\ step = "bow" /\ zero = FALSE
  BY <1>4, <1>5, <1>6 DEF RestoreInit, NoWrites
<1> HIDE DEF sector0, saved
<1>8. /\ s \in Blocks /\ f \in Blocks /\ s # f /\ s # 0 /\ f # 0 /\ s \notin InUse /\ f \notin InUse
      /\ f \in Nat /\ InUse \subseteq Blocks /\ 0 \in InUse
  BY <1>1, <1>3, <1>4, BowRestoreAssumption
<1>9. e.source = 0 /\ e.dest = f /\ e.size = 1 /\ Src(e) = {0} /\ Dst(e) = {f}
      /\ e.checksum = crc32(0, At(0, Old(0)))
  BY <1>5, <1>8 DEF Src, Dst, Part
<1>10. /\ l.magic = "BOW" /\ l.sequence = 0 /\ l.count = 1 /\ l.entries = <<e>> /\ l.sector0 = s
  BY <1>6 DEF Log
<1>11. PICK h : h = [n |-> 0, ent |-> <<>>, need |-> [j \in {0} |-> InUse], val |-> [x \in Blocks |-> Old(x)],
                     log |-> [j \in {0} |-> Old(0)], seq |-> [j \in {0} |-> -1], cnt |-> <<>>]
  OBVIOUS
<1>12. h.n = 0 /\ h.need[0] = InUse /\ h.log[0] = Old(0) /\ h.seq[0] = -1
       /\ \A x \in Blocks : h.val[x] = Old(x)
  BY <1>11
<1>13. Hist(h)
  <2>1. h.n \in Nat /\ (\A j \in 1..h.n : FALSE) /\ (\A j \in 0..h.n : j = 0) BY <1>12
  <2>2. \A j \in 0..h.n : 0 \in h.need[j] /\ h.need[j] \subseteq Blocks BY <1>8, <1>12, <2>1
  <2>3. \A x \in InUse \ {0} : h.val[x] = Old(x) BY <1>8, <1>12
  <2> QED BY <1>12, <2>1, <2>2, <2>3 DEF Hist
<1>14. PICK g : g = Longer(h, e, l) OBVIOUS
<1>15. Hist(g)
  <2>1. IsEntry(e) BY <1>1, <1>8, <1>9 DEF IsEntry, Src, Dst
  <2>2. Src(e) \subseteq h.need[h.n] BY <1>8, <1>9, <1>12
  <2>3. \A j \in 0..h.n : Dst(e) \cap h.need[j] = {} BY <1>8, <1>9, <1>12
  <2>4. e.checksum = crc32(e.source, [i \in 0..(e.size - 1) |-> Was(h, h.n, e.source + i)])
    <3>1. [i \in 0..(e.size - 1) |-> Was(h, h.n, e.source + i)] = At(0, Old(0))
      BY <1>9, <1>12 DEF Was, At
    <3> QED BY <1>9, <3>1
  <2>5. l.count \in 1..LogSize /\ l.count <= h.n + 1 BY <1>10, <1>12, BowRestoreAssumption
  <2>6. /\ l.entries[l.count] = e
        /\ \A i \in 1..(l.count - 1) : l.entries[i] = h.ent[h.n + 1 - l.count + i]
    BY <1>10
  <2>7. /\ l.magic = "BOW" /\ l.count = 1 => e.source = 0 /\ e.size = 1 /\ l.sequence = h.seq[h.n] + 1
        /\ l.count # 1 => 0 \notin Src(e) /\ l.sequence = h.seq[h.n] /\ h.n >= 1 /\ l.count = h.cnt[h.n] + 1
    BY <1>9, <1>10, <1>12
  <2>8. l.sequence \in Nat /\ l.magic = "BOW" BY <1>10
  <2> QED BY ONLY <1>13, <1>14, <2>1, <2>2, <2>3, <2>4, <2>5, <2>6, <2>7, <2>8, Extends
<1>16. /\ g.n = 1 /\ g.log[1] = l
       /\ g.need[1] = (InUse \ {0}) \cup {f} \cup {0} /\ g.need[0] = InUse
       /\ (\A x \in Blocks \ {f} : g.val[x] = Old(x)) /\ g.val[f] = Old(0)
  <2>1. h.n + 1 = 1 /\ h.n \in Nat /\ 0 \in 0..h.n BY <1>12
  <2>2. /\ g.n = h.n + 1 /\ g.log[h.n + 1] = l
        /\ g.need[h.n + 1] = (h.need[h.n] \ Src(e)) \cup Dst(e) \cup {0}
        /\ \A j \in 0..h.n : g.need[j] = h.need[j]
        /\ \A x \in Blocks \ Dst(e) : g.val[x] = h.val[x]
        /\ \A x \in Dst(e) \cap Blocks : g.val[x] = Was(h, h.n, x - e.dest + e.source)
    BY ONLY <1>14, <2>1, LongerIs
  <2>3. f - e.dest + e.source = 0 BY <1>8, <1>9
  <2>4. g.val[f] = Was(h, 0, 0) BY <1>8, <1>9, <1>12, <2>2, <2>3
  <2> QED BY <1>9, <1>12, <2>1, <2>2, <2>4 DEF Was
<1>17. /\ \A x \in Blocks : disk[x] = IF x = 0 THEN l ELSE IF x \in {s, f} THEN Old(0) ELSE Old(x)
       /\ \A x \in Blocks : role[x] = IF x = 0 THEN "log" ELSE IF x = s THEN "current"
                                      ELSE IF x = f THEN "backup"
                                      ELSE IF x \in InUse THEN "unchanged" ELSE "free"
  BY <1>7
<1>18. disk[0] = l /\ role[0] = "log" /\ role[s] = "current" /\ disk[s] = Old(0) BY <1>1, <1>8, <1>17
<1>19. Roles(g)
  <2>1. g.need[1] = {x \in Blocks : role[x] \in {"unchanged", "backup", "log"}}
    <3>1. g.need[1] = InUse \cup {f} BY <1>8, <1>16
    <3> QED BY <1>8, <1>17, <3>1
  <2> QED BY <1>16, <1>18, <2>1 DEF Roles
<1>20. Good(g, disk, 1)
  <2> SUFFICES ASSUME NEW x \in InUse \cup {f}, x # 0 PROVE disk[x] = g.val[x] BY <1>16 DEF Good
  <2>1. x # s /\ x \in Blocks BY <1>8
  <2> QED BY <1>16, <1>17, <2>1
<1>21. Current(disk, disk[0].sector0)
  <2>1. ASSUME NEW x \in InUse \cup {y \in Blocks : role[y] = "changed"}, x # 0
        PROVE  disk[x] = IF role[x] = "changed" THEN New(x) ELSE Old(x)
    <3>1. x \in Blocks BY <1>8
    <3>2. role[x] # "changed" BY <1>17, <3>1
    <3>3. x # s /\ x # f BY <1>8, <3>2
    <3> QED BY <1>17, <2>1, <3>1, <3>2, <3>3
  <2> QED BY <1>7, <1>8, <1>10, <1>18, <2>1 DEF Current
<1>22. \A j \in 0..1 : \A x \in g.need[j] : role[x] # "free"
  <2>1. \A x \in InUse \cup {f} : role[x] # "free" BY <1>8, <1>17
  <2>2. \A j \in 0..1 : j = 0 \/ j = 1 OBVIOUS
  <2>3. g.need[0] \subseteq InUse \cup {f} /\ g.need[1] \subseteq InUse \cup {f} BY <1>8, <1>16
  <2> QED BY <2>1, <2>2, <2>3
<1>23. \A x \in InUse : role[x] \in {"unchanged", "changed", "log"} BY <1>8, <1>17
<1>24. Untouched(g) BY <1>16, <1>18, <1>20, <1>21 DEF Untouched
<1>25. Active(g) BY <1>7, <1>10, <1>16, <1>18, <1>20, <1>22, <1>23, <1>24 DEF Active
<1> QED BY <1>15, <1>19, <1>25

\* No restore is under way, and none has changed the device.
Idle(h) == step = "off" /\ DOMAIN cache = {} /\ Untouched(h)

\* The reboot that ends the checkpoint.
LEMMA EndIdle ==
  ASSUME BowInv, NEW h, Hist(h), Roles(h), Active(h), NEW damaged \in SUBSET Blocks, BowEnd(damaged)
  PROVE  (Roles(h) /\ Idle(h))'
<1>1. 0 \in Blocks BY BlocksAre
<1>2. /\ step' = "off" /\ cache' = cache /\ role' = role /\ zero' = zero
      /\ \A b \in damaged : role[b] = "backup"
      /\ rotten' = (damaged # {})
      /\ \A b \in Blocks : disk'[b] = IF b \in damaged THEN Rubbish ELSE disk[b]
  BY DEF BowEnd
<1>3. /\ disk[0] = h.log[h.n] /\ Current(disk, disk[0].sector0) /\ DOMAIN cache = {} /\ Good(h, disk, h.n)
      /\ role[0] = "log" /\ role[disk[0].sector0] = "current" /\ h.need[h.n] \subseteq Blocks
      /\ \A x \in InUse : role[x] \in {"unchanged", "changed", "log"}
  BY DEF Active, Untouched, Roles
<1>4. disk'[0] = disk[0] BY <1>1, <1>2, <1>3
<1>5. Current(disk, disk[0].sector0)'
  <2>1. ASSUME NEW x \in InUse \cup {y \in Blocks : role'[y] = "changed"}, x # 0
        PROVE  disk'[x] = IF role'[x] = "changed" THEN New(x) ELSE Old(x)
    <3>1. x \in Blocks /\ x \notin damaged BY <1>2, <1>3, BowRestoreAssumption
    <3>2. disk'[x] = disk[x] BY <1>2, <3>1
    <3> QED BY <1>2, <1>3, <2>1, <3>1, <3>2 DEF Current
  <2>2. disk[0].sector0 \in Blocks \ {0} /\ disk[0].sector0 \notin damaged BY <1>2, <1>3 DEF Current
  <2>3. disk'[disk[0].sector0] = disk[disk[0].sector0] BY <1>2, <2>2
  <2> QED BY <1>2, <1>3, <1>4, <2>1, <2>2, <2>3 DEF Current
<1>6. ~rotten' => Good(h, disk', h.n) BY <1>2, <1>3 DEF Good
<1>7. Untouched(h)' BY <1>3, <1>4, <1>5, <1>6 DEF Untouched, Good
<1> QED BY <1>2, <1>3, <1>7 DEF Idle, Roles

\* The log is being followed, with the entries after the j-th behind.
Check(h, j) ==
  /\ step \in {"sector", "entry"} /\ run.validating /\ DOMAIN cache = {} /\ Untouched(h) /\ j \in 0..h.n
  /\ ~rotten => \A x \in h.need[j] \ {0} : disk[run.moved[x]] = h.val[x]
  /\ step = "sector" => run.sequence = h.seq[j] /\ disk[run.moved[0]] = h.log[j]
  /\ step = "entry" => RunAt(h, j)

\* The log is not valid: the new data is kept.
Excused == rotten \/ faults > 0
Forward(h) == step = "forward" /\ DOMAIN cache = {} /\ Untouched(h) /\ Excused
Rolled(h) ==
  /\ step = "settled" /\ DOMAIN cache = {0} /\ Untouched(h) /\ Excused
  /\ cache[0] = disk[disk[0].sector0]
Kept == step \in {"off", "settled"} /\ DOMAIN cache = {} /\ ~IsLog(disk[0]) /\ NewImage(disk) /\ Excused

\* The medium d from which the entries up to the j-th are to be undone.
Back(h, d, j) == \A x \in h.need[j] \cap InUse : x # 0 => d[x] = Old(x)
Medium(h, j) == j \in 1..h.n /\ LogAt(h, disk[0], j) /\ IsLog(disk[0]) /\ Back(h, disk, j)
Begun(h, j) == disk[0].magic = "WOB" \/ (Untouched(h) /\ j = h.n)

\* The j-th entry is on the medium as the next to be undone; the replay is at the k-th.
ReplayAt(h, k) == RunAt(h, k) /\ Back(h, Now, k) /\ (step = "save" => BufferAt(h, k))
Replay(h, j) ==
  /\ Medium(h, j) /\ step \in {"off", "sector", "entry", "save"}
  /\ 0 \notin DOMAIN cache
  /\ \A x \in DOMAIN cache : x \in Src(h.ent[j]) /\ cache[x] = h.val[x]
  /\ step # "off" => ~run.validating
  /\ disk[0].magic = "WOB" \/ (Untouched(h) /\ j = h.n /\ DOMAIN cache = {} /\ step # "off")
  /\ step = "sector" => run.sequence = h.seq[j]
  /\ step \in {"entry", "save"} => \E k \in {j, j - 1} : ReplayAt(h, k)
Saving(h, j, k) ==
  /\ step = "save sync" /\ Medium(h, j) /\ Begun(h, j) /\ Back(h, disk, k)
  /\ RunAt(h, k) /\ BufferAt(h, k)
  /\ run.ls.magic = "WOB" /\ LogAt(h, run.ls, k)
  /\ DOMAIN cache = {0} /\ cache[0] = run.ls
Copying(h, k) ==
  /\ step = "copy" /\ Medium(h, k) /\ disk[0].magic = "WOB" /\ DOMAIN cache = {}
  /\ RunAt(h, k) /\ BufferAt(h, k)

\* What block 0 is restored to before the entries up to the j-th are undone.
Begins(h, c, j) == IF j = 0 THEN c = Old(0) ELSE c.magic = "WOB" /\ LogAt(h, c, j)
Flushing(h, k) ==
  /\ step = "flush" /\ Medium(h, k) /\ disk[0].magic = "WOB" /\ h.cnt[k] = 1
  /\ run.sequence = h.seq[k]
  /\ DOMAIN cache = {0} /\ Begins(h, cache[0], k - 1)
Restored(h) ==
  /\ step \in {"off", "sector", "settled"} /\ cache = NoWrites
  /\ disk[0] = Old(0) /\ Back(h, disk, 0)
  /\ step = "sector" => run.sequence = -1 /\ ~run.validating

Phase(h) ==
  \/ Active(h) \/ Idle(h) \/ Forward(h) \/ Rolled(h) \/ Kept \/ Restored(h)
  \/ \E j \in 0..h.n : Check(h, j)
  \/ \E j \in 1..h.n : Replay(h, j) \/ Copying(h, j) \/ Flushing(h, j)
  \/ \E j, k \in 1..h.n : Saving(h, j, k)

\* What a history says of its j-th entry.
LEMMA Entries ==
  ASSUME NEW h, Hist(h), NEW j \in 1..h.n, NEW e, e = h.ent[j]
  PROVE  /\ j \in Nat /\ j - 1 \in 0..h.n /\ j \in 0..h.n
         /\ IsEntry(e) /\ 0 \in h.need[j] /\ 0 \in h.need[j - 1]
         /\ h.need[j] \subseteq Blocks /\ h.need[j - 1] \subseteq Blocks
         /\ Src(e) \cap h.need[j] \subseteq {0} /\ Src(e) \subseteq h.need[j - 1]
         /\ h.need[j - 1] \subseteq h.need[j] \cup Src(e)
         /\ Dst(e) \subseteq h.need[j] /\ 0 \notin Dst(e)
         /\ \A i \in 0..(e.size - 1) : h.val[e.dest + i] = Was(h, j - 1, e.source + i)
         /\ e.checksum = crc32(e.source, [i \in 0..(e.size - 1) |-> Was(h, j - 1, e.source + i)])
<1>1. h.n \in Nat BY DEF Hist
<1>2. j \in Nat /\ j - 1 \in 0..h.n /\ j \in 0..h.n /\ j \in j..h.n BY <1>1
<1>3. Saves(h, j, e) BY DEF Hist
<1>4. 0 \in h.need[j] /\ 0 \in h.need[j - 1] /\ h.need[j] \subseteq Blocks /\ h.need[j - 1] \subseteq Blocks
  BY <1>2 DEF Hist
<1>5. Src(e) \cap h.need[j] \subseteq {0} BY <1>2 DEF Hist
<1> QED BY <1>2, <1>3, <1>4, <1>5 DEF Saves

\* The log sector after the j-th entry, as the checks of a restore see it.
LEMMA Sectors ==
  ASSUME NEW h, Hist(h), NEW j \in 1..h.n
  PROVE  /\ h.seq[j] \in Nat /\ h.seq[j - 1] \in Int /\ h.cnt[j] \in 1..LogSize /\ h.cnt[j] \in Nat
         /\ h.log[j].magic = "BOW" /\ LogAt(h, h.log[j], j)
         /\ h.ent[j - h.cnt[j] + h.cnt[j]] = h.ent[j]
         /\ h.cnt[j] = 1 => /\ h.ent[j].source = 0 /\ h.ent[j].size = 1 /\ Src(h.ent[j]) = {0}
                            /\ h.seq[j - 1] = h.seq[j] - 1
                            /\ (h.seq[j] = 0 <=> j = 1) /\ (j # 1 => j - 1 \in 1..h.n)
         /\ h.cnt[j] # 1 => /\ 0 \notin Src(h.ent[j]) /\ j - 1 \in 1..h.n /\ h.seq[j - 1] = h.seq[j]
                            /\ h.cnt[j - 1] = h.cnt[j] - 1 /\ h.cnt[j - 1] \in Nat
                            /\ j - 1 - h.cnt[j - 1] = j - h.cnt[j]
<1>1. h.n \in Nat /\ h.seq[0] = -1 BY DEF Hist
<1>2. j \in Nat /\ LogSize \in Nat BY <1>1, BowRestoreAssumption
<1>3. Counted(h, j, h.ent[j]) BY DEF Hist
<1>4. h.seq[j] \in Nat /\ h.cnt[j] \in 1..LogSize /\ h.cnt[j] \in Nat /\ h.cnt[j] <= j BY <1>2, <1>3 DEF Counted
<1>5. j # 1 => j - 1 \in 1..h.n BY <1>1, <1>2
<1>6. j # 1 => h.seq[j - 1] \in Nat
  <2> SUFFICES ASSUME j # 1 PROVE h.seq[j - 1] \in Nat OBVIOUS
  <2>1. Counted(h, j - 1, h.ent[j - 1]) BY <1>5 DEF Hist
  <2> QED BY <2>1 DEF Counted
<1>7. j = 1 => j - 1 = 0 /\ h.seq[j - 1] = -1 BY <1>1
<1>8. h.seq[j - 1] \in Int BY <1>6, <1>7
<1>9. LogAt(h, h.log[j], j) /\ h.log[j].magic = "BOW" BY <1>3 DEF LogAt, Counted
<1>10. j - h.cnt[j] + h.cnt[j] = j BY <1>2, <1>4
<1>11. h.cnt[j] = 1 => /\ h.ent[j].source = 0 /\ h.ent[j].size = 1 /\ Src(h.ent[j]) = {0}
                       /\ h.seq[j - 1] = h.seq[j] - 1 /\ (h.seq[j] = 0 <=> j = 1)
  <2> SUFFICES ASSUME h.cnt[j] = 1 PROVE /\ h.ent[j].source = 0 /\ h.ent[j].size = 1 /\ Src(h.ent[j]) = {0}
                       /\ h.seq[j - 1] = h.seq[j] - 1 /\ (h.seq[j] = 0 <=> j = 1)
    OBVIOUS
  <2>1. h.ent[j].source = 0 /\ h.ent[j].size = 1 /\ h.seq[j] = h.seq[j - 1] + 1 BY <1>3 DEF Counted
  <2>2. Src(h.ent[j]) = {0} BY <2>1 DEF Src, Part
  <2>3. h.seq[j - 1] = h.seq[j] - 1 BY <1>4, <1>8, <2>1
  <2>4. h.seq[j] = 0 <=> j = 1 BY <1>4, <1>6, <1>7, <2>1
  <2> QED BY <2>1, <2>2, <2>3, <2>4
<1>12. h.cnt[j] # 1 => /\ 0 \notin Src(h.ent[j]) /\ j - 1 \in 1..h.n /\ h.seq[j - 1] = h.seq[j]
                       /\ h.cnt[j - 1] = h.cnt[j] - 1 /\ h.cnt[j - 1] \in Nat
                       /\ j - 1 - h.cnt[j - 1] = j - h.cnt[j]
  <2> SUFFICES ASSUME h.cnt[j] # 1
               PROVE  /\ 0 \notin Src(h.ent[j]) /\ j - 1 \in 1..h.n /\ h.seq[j - 1] = h.seq[j]
                      /\ h.cnt[j - 1] = h.cnt[j] - 1 /\ h.cnt[j - 1] \in Nat
                      /\ j - 1 - h.cnt[j - 1] = j - h.cnt[j]
    OBVIOUS
  <2>1. 0 \notin Src(h.ent[j]) /\ h.seq[j] = h.seq[j - 1] /\ j > 1 /\ h.cnt[j] = h.cnt[j - 1] + 1
    BY <1>3 DEF Counted
  <2>2. j - 1 \in 1..h.n BY <1>2, <1>5, <2>1
  <2>3. Counted(h, j - 1, h.ent[j - 1]) BY <2>2 DEF Hist
  <2>4. h.cnt[j - 1] \in Nat BY <1>2, <2>3 DEF Counted
  <2>5. h.cnt[j - 1] = h.cnt[j] - 1 /\ j - 1 - h.cnt[j - 1] = j - h.cnt[j] BY <1>2, <1>4, <2>1, <2>4
  <2> QED BY <2>1, <2>2, <2>4, <2>5
<1> QED BY <1>4, <1>5, <1>8, <1>9, <1>10, <1>11, <1>12

\* A step that leaves the medium alone.
LEMMA StillUntouched ==
  ASSUME NEW h, Untouched(h), disk' = disk, UNCHANGED bow
  PROVE  Untouched(h)'
BY DEF Untouched, Current, Good, bow

\* What the history says of the roles does not depend on what a restore does.
LEMMA StillRoles ==
  ASSUME NEW h, Roles(h), UNCHANGED bow
  PROVE  Roles(h)'
BY DEF Roles, bow

\* What an untouched device is for those who keep the new data, and for those who go back.
LEMMA UntouchedIs ==
  ASSUME NEW h, Hist(h), Roles(h), Untouched(h)
  PROVE  /\ h.n \in 1..h.n /\ disk[0] = h.log[h.n] /\ disk[0].magic = "BOW" /\ Medium(h, h.n)
         /\ disk[0].sector0 \in Blocks \ {0}
         /\ disk[disk[0].sector0] = IF zero THEN New(0) ELSE Old(0)
<1>1. h.n \in 1..h.n BY DEF Hist, Roles
<1>2. disk[0] = h.log[h.n] /\ Current(disk, disk[0].sector0) BY DEF Untouched
<1>3. disk[0].magic = "BOW" /\ LogAt(h, disk[0], h.n) /\ IsLog(disk[0]) BY <1>1, <1>2, Sectors DEF IsLog
<1>4. Back(h, disk, h.n)
  <2> SUFFICES ASSUME NEW x \in h.need[h.n] \cap InUse, x # 0 PROVE disk[x] = Old(x) BY DEF Back
  <2>1. role[x] # "changed" BY DEF Roles
  <2> QED BY <1>2, <2>1 DEF Current
<1>5. Medium(h, h.n) BY <1>1, <1>3, <1>4 DEF Medium
<1> QED BY <1>1, <1>2, <1>3, <1>5 DEF Current

\* A power cut.
LEMMA CutIs ==
  ASSUME Contents, PowerCut
  PROVE  /\ step' = "off" /\ cache' = NoWrites /\ DOMAIN cache' = {} /\ run' = NoRun
         /\ faults' = faults + 1 /\ UNCHANGED bow
         /\ \E kept \in SUBSET DOMAIN cache :
              /\ \A b \in Blocks : disk'[b] = IF b \in kept THEN cache[b] ELSE disk[b]
              /\ kept = {} => disk' = disk
<1>1. PICK kept \in SUBSET DOMAIN cache : disk' = [b \in Blocks |-> IF b \in kept THEN cache[b] ELSE disk[b]]
  BY DEF PowerCut
<1>2. disk = [b \in Blocks |-> disk[b]] BY DEF Contents
<1>3. kept = {} => disk' = disk BY <1>1, <1>2
<1>4. \A b \in Blocks : disk'[b] = IF b \in kept THEN cache[b] ELSE disk[b] BY <1>1
<1>5. DOMAIN cache' = {} BY DEF PowerCut, NoWrites
<1> QED BY <1>3, <1>4, <1>5 DEF PowerCut

\* A round of the outer loop over a log.
LEMMA RoundIs ==
  ASSUME NEW va \in BOOLEAN, Round(va), NEW c, c = Now[0], IsLog(c)
  PROVE  /\ step' = "sector" /\ (run'.validating <=> va /\ c.magic # "WOB") /\ run'.sequence = c.sequence
         /\ run'.moved = [b \in Blocks |-> b]
<1>1. /\ step' = "sector"
      /\ run' = [NoRun EXCEPT !.validating = (va /\ c.magic # "WOB"), !.sequence = c.sequence]
  BY DEF Round
<1>2. run' = [validating |-> va /\ c.magic # "WOB", sequence |-> c.sequence, ls |-> Rubbish, index |-> 0,
              relocations |-> NoRelocations, moved |-> [b \in Blocks |-> b], used |-> NoneUsed,
              buffer |-> <<>>, restored |-> FALSE]
  BY <1>1 DEF NoRun
<1>3. run'.sequence = c.sequence /\ run'.moved = [b \in Blocks |-> b] BY ONLY <1>2
<1>4. run'.validating = (va /\ c.magic # "WOB") BY ONLY <1>2, Zenon
<1> QED BY <1>1, <1>3, <1>4

\* The validation begins.
LEMMA IdleStarts ==
  ASSUME BowInv, NEW h, Hist(h), Roles(h), Idle(h), cp_restoreCheckpoint
  PROVE  Check(h, h.n)'
<1>1. Contents /\ DOMAIN cache = {} /\ Untouched(h) BY DEF BowInv, Idle
<1>2. Now = disk BY <1>1, NowIs
<1>3. /\ h.n \in 1..h.n /\ disk[0] = h.log[h.n] /\ disk[0].magic = "BOW" /\ IsLog(disk[0])
      /\ LogAt(h, disk[0], h.n)
  BY <1>1, UntouchedIs DEF Medium
<1>4. Round(TRUE) /\ disk' = disk /\ cache' = cache /\ UNCHANGED bow BY DEF cp_restoreCheckpoint
<1>5. /\ step' = "sector" /\ (run'.validating <=> TRUE /\ disk[0].magic # "WOB")
      /\ run'.sequence = disk[0].sequence /\ run'.moved = [b \in Blocks |-> b]
  BY <1>2, <1>3, <1>4, RoundIs
<1>6. run'.validating BY <1>3, <1>5
<1>7. run'.sequence = h.seq[h.n] BY <1>3, <1>5 DEF LogAt
<1>8. h.n \in 0..h.n /\ h.need[h.n] \subseteq Blocks /\ 0 \in Blocks BY <1>3, BlocksAre DEF Roles
<1>9. run'.moved[0] = 0 /\ \A x \in h.need[h.n] : run'.moved[x] = x BY <1>5, <1>8
<1>10. ~rotten' => \A x \in h.need[h.n] \ {0} : disk'[run'.moved[x]] = h.val[x]
  <2>1. rotten' = rotten BY <1>4 DEF bow
  <2> QED BY <1>1, <1>4, <1>9, <2>1 DEF Untouched, Good
<1>11. Untouched(h)' BY <1>1, <1>4, StillUntouched
<1>12. disk'[run'.moved[0]] = h.log[h.n] BY <1>3, <1>4, <1>9
<1> QED BY <1>1, <1>4, <1>5, <1>6, <1>7, <1>8, <1>10, <1>11, <1>12 DEF Check

\* The validation reads a block where the relocations say.
LEMMA CheckReads ==
  ASSUME BowInv, DOMAIN cache = {}, run.validating, NEW b \in Blocks
  PROVE  relocatedRead(b) = disk[run.moved[b]]
<1>1. Now = disk BY NowIs DEF BowInv
<1>2. Lookup(run.relocations, b) = run.moved[b] BY DEF BowInv, Follows
<1> QED BY <1>1, <1>2 DEF relocatedRead

\* It comes to the end of the log, or to a log sector.
LEMMA CheckSector ==
  ASSUME BowInv, NEW h, Hist(h), Roles(h), NEW j, Check(h, j), ReadSector
  PROVE  (\E k \in 1..h.n : Replay(h, k))' \/ Check(h, j)'
<1>1. /\ step = "sector" /\ disk' = disk /\ cache' = cache /\ UNCHANGED bow
  BY DEF ReadSector
<1>2. /\ run.validating /\ DOMAIN cache = {} /\ Untouched(h) /\ j \in 0..h.n /\ Contents /\ Follows(run)
      /\ run.sequence = h.seq[j] /\ disk[run.moved[0]] = h.log[j]
  BY <1>1 DEF Check, BowInv
<1>3. Now = disk /\ Untouched(h)' BY <1>1, <1>2, NowIs, StillUntouched
<1>4. /\ h.n \in 1..h.n /\ disk[0].magic = "BOW" /\ IsLog(disk[0]) /\ LogAt(h, disk[0], h.n)
      /\ Medium(h, h.n)
  BY <1>2, UntouchedIs DEF Medium
<1>5. CASE j = 0
  <2>1. run.sequence < 0 BY <1>2, <1>5 DEF Hist
  <2>2. Round(FALSE) BY <1>2, <2>1 DEF ReadSector, EndOfLog
  <2>3. /\ step' = "sector" /\ (run'.validating <=> FALSE /\ disk[0].magic # "WOB")
        /\ run'.sequence = disk[0].sequence
    BY <1>3, <1>4, <2>2, RoundIs
  <2>4. ~run'.validating BY <2>3
  <2>5. run'.sequence = h.seq[h.n] BY <1>4, <2>3 DEF LogAt
  <2>6. Medium(h, h.n)' BY <1>1, <1>4 DEF Medium, LogAt, Back
  <2>7. Replay(h, h.n)' BY <1>1, <1>2, <1>3, <2>3, <2>4, <2>5, <2>6 DEF Replay
  <2> QED BY <1>4, <2>7
<1>6. CASE j # 0
  <2>1. j \in 1..h.n BY <1>2, <1>4, <1>6 DEF Hist
  <2> DEFINE ls == relocatedRead(0)
  <2>2. ls = h.log[j] BY <1>2, BlocksAre, CheckReads
  <2>3. /\ h.seq[j] \in Nat /\ h.cnt[j] \in 1..LogSize /\ h.log[j].magic = "BOW" /\ LogAt(h, h.log[j], j)
    BY <2>1, Sectors
  <2> HIDE DEF ls
  <2>4. ValidSector(ls) /\ ~(run.sequence < 0)
    BY <1>2, <2>2, <2>3, BowRestoreAssumption DEF ValidSector, LogAt
  <2>5. step' = "entry" /\ run' = [run EXCEPT !.ls = ls, !.index = ls.count, !.used = NoneUsed]
    BY <2>4 DEF ReadSector, ls
  <2>6. run' = [validating |-> run.validating, sequence |-> run.sequence, ls |-> ls, index |-> ls.count,
                relocations |-> run.relocations, moved |-> run.moved, used |-> NoneUsed,
                buffer |-> run.buffer, restored |-> run.restored]
    BY <1>2, <2>5 DEF Follows
  <2>7. /\ run'.sequence = run.sequence /\ run'.ls = ls /\ run'.index = ls.count /\ run'.moved = run.moved
    BY ONLY <2>6
  <2>8. run'.validating = run.validating BY ONLY <2>6, Zenon
  <2>9. run'.validating BY <1>2, <2>8
  <2>10. RunAt(h, j)' BY <1>2, <2>1, <2>2, <2>3, <2>7 DEF RunAt, LogAt
  <2>11. ~rotten' => \A x \in h.need[j] \ {0} : disk'[run'.moved[x]] = h.val[x]
    BY <1>1, <2>7 DEF bow, Check
  <2>12. Check(h, j)' BY <1>1, <1>2, <1>3, <2>5, <2>9, <2>10, <2>11 DEF Check
  <2> QED BY <2>12
<1> QED BY <1>5, <1>6

\* The entry that the locals stand at.
LEMMA EntryAt ==
  ASSUME NEW h, Hist(h), NEW j, RunAt(h, j)
  PROVE  j \in 1..h.n /\ Entry = h.ent[j]
<1>1. j \in 1..h.n /\ run.index = h.cnt[j] /\ \A i \in 1..h.cnt[j] : run.ls.entries[i] = h.ent[j - h.cnt[j] + i]
  BY DEF RunAt
<1>2. h.cnt[j] \in 1..LogSize /\ h.cnt[j] \in Nat /\ h.ent[j - h.cnt[j] + h.cnt[j]] = h.ent[j] BY <1>1, Sectors
<1>3. h.cnt[j] \in 1..h.cnt[j] BY <1>2
<1> QED BY <1>1, <1>2, <1>3 DEF Entry

\* From an entry that is not the first of its sector, the locals go to the one before.
LEMMA EntryBefore ==
  ASSUME NEW h, Hist(h), NEW j, RunAt(h, j), h.cnt[j] # 1,
         run'.sequence = run.sequence, run'.ls = run.ls, run'.index = run.index - 1
  PROVE  RunAt(h, j - 1)'
<1>1. /\ j \in 1..h.n /\ run.sequence = h.seq[j] /\ run.ls.sequence = h.seq[j] /\ run.index = h.cnt[j]
      /\ \A i \in 1..h.cnt[j] : run.ls.entries[i] = h.ent[j - h.cnt[j] + i]
  BY DEF RunAt
<1>2. /\ j - 1 \in 1..h.n /\ h.seq[j - 1] = h.seq[j] /\ h.cnt[j - 1] = h.cnt[j] - 1 /\ h.cnt[j - 1] \in Nat
      /\ j - 1 - h.cnt[j - 1] = j - h.cnt[j] /\ h.cnt[j] \in Nat
  BY <1>1, Sectors
<1>3. \A i \in 1..h.cnt[j - 1] : i \in 1..h.cnt[j] BY <1>2
<1>4. \A i \in 1..h.cnt[j - 1] : run.ls.entries[i] = h.ent[j - 1 - h.cnt[j - 1] + i] BY <1>1, <1>2, <1>3
<1> QED BY <1>1, <1>2, <1>4 DEF RunAt

\* An entry is followed, unless a saved block is damaged.
LEMMA CheckEntry ==
  ASSUME BowInv, NEW h, Hist(h), Roles(h), NEW j, Check(h, j), ReadEntry
  PROVE  Forward(h)' \/ (j - 1 \in 0..h.n /\ Check(h, j - 1)')
<1>1. /\ step = "entry" /\ disk' = disk /\ cache' = cache /\ UNCHANGED bow /\ faults' = faults
  BY DEF ReadEntry
<1>2. /\ run.validating /\ DOMAIN cache = {} /\ Untouched(h) /\ RunAt(h, j) /\ Contents /\ Follows(run)
      /\ ~rotten => \A x \in h.need[j] \ {0} : disk[run.moved[x]] = h.val[x]
  BY <1>1 DEF Check, BowInv
<1>3. Untouched(h)' /\ rotten' = rotten BY <1>1, <1>2, StillUntouched DEF bow
<1>4. PICK e : e = Entry OBVIOUS
<1>5. j \in 1..h.n /\ e = h.ent[j] BY <1>2, <1>4, EntryAt
<1>6. /\ j \in Nat /\ j - 1 \in 0..h.n /\ IsEntry(e) /\ h.need[j - 1] \subseteq Blocks
      /\ h.need[j - 1] \subseteq h.need[j] \cup Src(e)
      /\ Dst(e) \subseteq h.need[j] /\ 0 \notin Dst(e)
      /\ \A i \in 0..(e.size - 1) : h.val[e.dest + i] = Was(h, j - 1, e.source + i)
      /\ e.checksum = crc32(e.source, [i \in 0..(e.size - 1) |-> Was(h, j - 1, e.source + i)])
  BY <1>5, Entries
<1>7. /\ e.source \in Nat /\ e.dest \in Nat /\ e.size \in Nat \ {0}
      /\ Src(e) \subseteq Blocks /\ Dst(e) \subseteq Blocks
  BY <1>6 DEF IsEntry, Src, Dst
<1>8. /\ \A i \in 0..(e.size - 1) : e.source + i \in Src(e) /\ e.dest + i \in Dst(e)
      /\ \A x \in Src(e) : x \in Nat /\ x - e.source \in 0..(e.size - 1)
  BY <1>7, PartIs DEF Src, Dst
<1> DEFINE buffer == [i \in 0..(e.size - 1) |-> relocatedRead(e.dest + i)]
<1>9. \A i \in 0..(e.size - 1) : buffer[i] = disk[run.moved[e.dest + i]] BY <1>2, <1>7, <1>8, CheckReads
<1>10. CASE crc32(e.source, buffer) # e.checksum
  <2>1. Fail BY <1>4, <1>10 DEF ReadEntry
  <2>2. rotten
    <3> SUFFICES ASSUME ~rotten PROVE FALSE OBVIOUS
    <3>1. \A i \in 0..(e.size - 1) : buffer[i] = Was(h, j - 1, e.source + i) BY <1>2, <1>6, <1>8, <1>9
    <3>2. buffer = [i \in 0..(e.size - 1) |-> Was(h, j - 1, e.source + i)] BY <3>1
    <3> QED BY <1>6, <1>10, <3>2
  <2> QED BY <1>1, <1>2, <1>3, <2>1, <2>2 DEF Fail, Forward, Excused
<1>11. CASE crc32(e.source, buffer) = e.checksum
  <2>1. buffer = [i \in 0..(e.size - 1) |-> Was(h, j - 1, e.source + i)] BY <1>6, <1>11 DEF crc32
  <2>2. \A i \in 0..(e.size - 1) : disk[run.moved[e.dest + i]] = Was(h, j - 1, e.source + i)
    <3>1. \A i \in 0..(e.size - 1) : buffer[i] = Was(h, j - 1, e.source + i) BY <2>1
    <3> QED BY <1>9, <3>1
  <2> DEFINE moved == [b \in Blocks |-> IF b \in Part(e.source, e.size)
                                        THEN run.moved[b - e.source + e.dest] ELSE run.moved[b]]
             relocations == relocate(run.relocations, e.source, e.dest, e.size)
  <2>3. /\ run' = [run EXCEPT
               !.relocations = relocate(@, e.source, e.dest, e.size),
               !.moved = [b \in Blocks |-> IF b \in Part(e.source, e.size)
                                               THEN @[b - e.source + e.dest] ELSE @[b]],
               !.index = @ - 1,
               !.sequence = IF run.index = 1 THEN @ - 1 ELSE @]
        /\ step' = IF run.index = 1 THEN "sector" ELSE "entry"
    BY <1>2, <1>4, <1>11 DEF ReadEntry
  <2>4. run' = [validating |-> run.validating,
                sequence |-> IF run.index = 1 THEN run.sequence - 1 ELSE run.sequence,
                ls |-> run.ls, index |-> run.index - 1,
                relocations |-> relocations, moved |-> moved, used |-> run.used,
                buffer |-> run.buffer, restored |-> run.restored]
    BY <1>2, <2>3 DEF Follows
  <2>5. \A x \in Blocks : moved[x] = IF x \in Src(e) THEN run.moved[x - e.source + e.dest] ELSE run.moved[x]
    BY DEF Src
  <2> HIDE DEF moved, relocations, buffer
  <2>6. /\ run'.sequence = (IF run.index = 1 THEN run.sequence - 1 ELSE run.sequence)
        /\ run'.ls = run.ls /\ run'.index = run.index - 1 /\ run'.moved = moved
    BY ONLY <2>4
  <2>7. run'.validating
    <3>1. run'.validating = run.validating BY ONLY <2>4, Zenon
    <3> QED BY <1>2, <3>1
  <2>8. \A x \in Src(e) : disk[moved[x]] = Was(h, j - 1, x)
    <3> SUFFICES ASSUME NEW x \in Src(e) PROVE disk[moved[x]] = Was(h, j - 1, x) OBVIOUS
    <3>1. PICK i \in 0..(e.size - 1) : i = x - e.source BY <1>8
    <3>2. x = e.source + i /\ x - e.source + e.dest = e.dest + i BY <1>7, <1>8, <3>1
    <3> QED BY <1>7, <2>2, <2>5, <3>2
  <2>9. ASSUME ~rotten, NEW x \in h.need[j - 1] \ {0} PROVE disk[moved[x]] = h.val[x]
    <3>1. CASE x \in Src(e) BY <2>8, <3>1 DEF Was
    <3>2. CASE x \notin Src(e) BY <1>2, <1>6, <2>5, <2>9, <3>2
    <3> QED BY <3>1, <3>2
  <2>10. CASE h.cnt[j] = 1
    <3>1. h.seq[j - 1] = h.seq[j] - 1 /\ Src(e) = {0} BY <1>5, <2>10, Sectors
    <3>2. run.index = 1 /\ run.sequence = h.seq[j] BY <1>2, <2>10 DEF RunAt
    <3>3. step' = "sector" /\ run'.sequence = h.seq[j - 1] BY <2>3, <2>6, <3>1, <3>2
    <3>4. disk[moved[0]] = h.log[j - 1] BY <2>8, <3>1 DEF Was
    <3>5. Check(h, j - 1)' BY <1>1, <1>2, <1>3, <1>6, <2>6, <2>7, <2>9, <3>3, <3>4 DEF Check
    <3> QED BY <1>6, <3>5
  <2>11. CASE h.cnt[j] # 1
    <3>1. run.index = h.cnt[j] BY <1>2 DEF RunAt
    <3>2. step' = "entry" /\ run'.sequence = run.sequence BY <2>3, <2>6, <2>11, <3>1
    <3>3. RunAt(h, j - 1)' BY <1>2, <2>6, <2>11, <3>2, EntryBefore
    <3>4. Check(h, j - 1)' BY <1>1, <1>2, <1>3, <1>6, <2>6, <2>7, <2>9, <3>2, <3>3 DEF Check
    <3> QED BY <1>6, <3>4
  <2> QED BY <2>10, <2>11
<1> QED BY <1>10, <1>11

\* A fault while the log is followed.
LEMMA CheckStops ==
  ASSUME BowInv, NEW h, NEW j, Check(h, j), faults \in Nat, ReadFails \/ HitLimit \/ PowerCut
  PROVE  Forward(h)' \/ Idle(h)'
<1>1. Contents /\ run.validating /\ DOMAIN cache = {} /\ Untouched(h) /\ step \in {"sector", "entry"}
  BY DEF BowInv, Check
<1>2. CASE ReadFails
  <2>1. disk' = disk /\ cache' = cache /\ UNCHANGED bow /\ faults' = faults + 1 BY <1>2 DEF ReadFails
  <2>2. step' = "forward" BY <1>1, <1>2 DEF ReadFails, Fail
  <2>3. faults' > 0 BY <2>1
  <2> QED BY <1>1, <2>1, <2>2, <2>3, StillUntouched DEF Forward, Excused
<1>3. CASE HitLimit
  <2>1. disk' = disk /\ cache' = cache /\ UNCHANGED bow /\ step' = "off" BY <1>3 DEF HitLimit
  <2> QED BY <1>1, <2>1, StillUntouched DEF Idle
<1>4. CASE PowerCut
  <2>1. disk' = disk /\ DOMAIN cache' = {} /\ UNCHANGED bow /\ step' = "off" BY <1>1, <1>4, CutIs
  <2> QED BY <1>1, <2>1, StillUntouched DEF Idle
<1> QED BY <1>2, <1>3, <1>4

\* The log is given up.
LEMMA ForwardGoes ==
  ASSUME BowInv, NEW h, Hist(h), Roles(h), Forward(h), faults \in Nat, RollForward \/ ReadFails \/ PowerCut
  PROVE  Rolled(h)' \/ Idle(h)'
<1>1. Contents /\ DOMAIN cache = {} /\ Untouched(h) /\ step = "forward" /\ Excused
  BY DEF BowInv, Forward
<1>2. CASE ReadFails
  <2>1. disk' = disk /\ cache' = cache /\ UNCHANGED bow BY <1>2 DEF ReadFails
  <2>2. step' = "off" BY <1>1, <1>2 DEF ReadFails
  <2> QED BY <1>1, <2>1, <2>2, StillUntouched DEF Idle
<1>3. CASE PowerCut
  <2>1. disk' = disk /\ DOMAIN cache' = {} /\ UNCHANGED bow /\ step' = "off" BY <1>1, <1>3, CutIs
  <2> QED BY <1>1, <2>1, StillUntouched DEF Idle
<1>4. CASE RollForward
  <2>1. disk' = disk /\ UNCHANGED bow /\ step' = "settled" /\ faults' = faults
        /\ Write(At(0, Now[Now[0].sector0]))
    BY <1>4 DEF RollForward
  <2>2. Now = disk BY <1>1, NowIs
  <2>3. DOMAIN cache' = {0} /\ cache'[0] = disk[disk[0].sector0] BY <1>1, <2>1, <2>2 DEF Write, At
  <2>4. Excused' BY <1>1, <2>1 DEF Excused, bow
  <2> QED BY <1>1, <2>1, <2>3, <2>4, StillUntouched DEF Rolled
<1> QED BY <1>2, <1>3, <1>4

\* With the new contents of block 0, the device holds the new data.
LEMMA RolledIs ==
  ASSUME NEW h, Hist(h), Roles(h), Untouched(h), NEW d,
         d[0] = disk[disk[0].sector0], \A b \in Blocks : b # 0 => d[b] = disk[b]
  PROVE  NewImage(d) /\ ~IsLog(d[0])
<1>1. disk[disk[0].sector0] = (IF zero THEN New(0) ELSE Old(0)) /\ Current(disk, disk[0].sector0)
  BY DEF Untouched, Current
<1>2. role[0] # "changed" BY DEF Roles
<1>3. ASSUME NEW b \in InUse \cup {x \in Blocks : role[x] = "changed"}
      PROVE  d[b] = IF (b = 0 /\ zero) \/ role[b] = "changed" THEN New(b) ELSE Old(b)
  <2>1. CASE b = 0 BY <1>1, <1>2, <2>1
  <2>2. CASE b # 0
    <3>1. b \in Blocks BY BowRestoreAssumption
    <3>2. d[b] = disk[b] BY <2>2, <3>1
    <3>3. disk[b] = IF role[b] = "changed" THEN New(b) ELSE Old(b) BY <1>1, <2>2 DEF Current
    <3> QED BY <2>2, <3>2, <3>3
  <2> QED BY <2>1, <2>2
<1>4. ~IsLog(d[0]) BY <1>1 DEF IsLog, New, Old
<1> QED BY <1>3, <1>4 DEF NewImage

\* A power cut after rolling forward leaves the log, or the new data.
LEMMA RolledCut ==
  ASSUME BowInv, NEW h, Hist(h), Roles(h), Rolled(h), faults \in Nat, PowerCut
  PROVE  Kept' \/ Idle(h)'
<1>1. Contents /\ DOMAIN cache = {0} /\ Untouched(h) /\ cache[0] = disk[disk[0].sector0] /\ Excused
  BY DEF BowInv, Rolled
<1>2. /\ step' = "off" /\ DOMAIN cache' = {} /\ faults' = faults + 1 /\ UNCHANGED bow
      /\ \E kept \in SUBSET DOMAIN cache :
              /\ \A b \in Blocks : disk'[b] = IF b \in kept THEN cache[b] ELSE disk[b]
              /\ kept = {} => disk' = disk
  BY <1>1, CutIs
<1>3. PICK kept \in SUBSET {0} : /\ \A b \in Blocks : disk'[b] = IF b \in kept THEN cache[b] ELSE disk[b]
                                 /\ kept = {} => disk' = disk
  BY <1>1, <1>2
<1>4. CASE kept = {}
  <2>1. Untouched(h)' BY <1>1, <1>2, <1>3, <1>4, StillUntouched
  <2> QED BY <1>2, <2>1 DEF Idle
<1>5. CASE kept # {}
  <2>1. kept = {0} BY <1>5
  <2>2. disk'[0] = disk[disk[0].sector0] /\ \A b \in Blocks : b # 0 => disk'[b] = disk[b]
    BY <1>1, <1>3, <2>1, BlocksAre
  <2>3. NewImage(disk') /\ ~IsLog(disk'[0]) BY <1>1, <2>2, RolledIs
  <2>4. NewImage(disk)' BY <1>2, <2>3 DEF NewImage, bow
  <2>5. Excused' BY <1>2 DEF Excused
  <2> QED BY <1>2, <2>3, <2>4, <2>5 DEF Kept
<1> QED BY <1>4, <1>5

\* The new data stays.
LEMMA KeptStays ==
  ASSUME BowInv, Kept, faults \in Nat, cp_restoreCheckpoint \/ PowerCut
  PROVE  Kept'
<1>1. Contents /\ DOMAIN cache = {} /\ ~IsLog(disk[0]) /\ NewImage(disk) /\ Excused BY DEF BowInv, Kept
<1>2. CASE cp_restoreCheckpoint
  <2>1. disk' = disk /\ cache' = cache /\ UNCHANGED bow /\ faults' = faults /\ Round(TRUE)
    BY <1>2 DEF cp_restoreCheckpoint
  <2>2. Now = disk BY <1>1, NowIs
  <2>3. step' = "settled" BY <1>1, <2>1, <2>2 DEF Round
  <2>4. NewImage(disk)' /\ Excused' BY <1>1, <2>1 DEF NewImage, Excused, bow
  <2> QED BY <1>1, <2>1, <2>3, <2>4 DEF Kept
<1>3. CASE PowerCut
  <2>1. disk' = disk /\ DOMAIN cache' = {} /\ UNCHANGED bow /\ step' = "off" /\ faults' = faults + 1
    BY <1>1, <1>3, CutIs
  <2>2. NewImage(disk)' /\ Excused' BY <1>1, <2>1 DEF NewImage, Excused, bow
  <2> QED BY <1>1, <2>1, <2>2 DEF Kept
<1> QED BY <1>2, <1>3

\* And an untouched device stays untouched when the power goes.
LEMMA IdleCut ==
  ASSUME BowInv, NEW h, Idle(h), PowerCut PROVE Idle(h)'
<1>1. Contents /\ DOMAIN cache = {} /\ Untouched(h) BY DEF BowInv, Idle
<1>2. disk' = disk /\ DOMAIN cache' = {} /\ UNCHANGED bow /\ step' = "off" BY <1>1, CutIs
<1> QED BY <1>1, <1>2, StillUntouched DEF Idle

\* A medium whose needed blocks are left alone.
LEMMA StillMedium ==
  ASSUME NEW h, NEW j, Medium(h, j), disk'[0] = disk[0],
         \A x \in h.need[j] \cap InUse : x # 0 => disk'[x] = disk[x]
  PROVE  Medium(h, j)'
BY DEF Medium, LogAt, Back

\* The writes of a replay do not touch what is needed to repeat it.
LEMMA ReplayReads ==
  ASSUME BowInv, NEW h, Hist(h), NEW j, Replay(h, j)
  PROVE  /\ j \in 1..h.n /\ Now[0] = disk[0] /\ DOMAIN cache \cap (h.need[j] \cup {0}) = {}
         /\ \A x \in h.need[j] : Now[x] = disk[x]
         /\ \A x \in Blocks : Now[x] = IF x \in DOMAIN cache THEN cache[x] ELSE disk[x]
<1>1. j \in 1..h.n /\ 0 \notin DOMAIN cache /\ \A x \in DOMAIN cache : x \in Src(h.ent[j])
  BY DEF Replay, Medium
<1>2. Src(h.ent[j]) \cap h.need[j] \subseteq {0} /\ h.need[j] \subseteq Blocks BY <1>1, Entries
<1>3. DOMAIN cache \cap (h.need[j] \cup {0}) = {} BY <1>1, <1>2
<1>4. \A x \in Blocks : Now[x] = IF x \in DOMAIN cache THEN cache[x] ELSE disk[x] BY DEF Now
<1> QED BY <1>1, <1>2, <1>3, <1>4, BlocksAre

\* A replay that returns.
LEMMA ReplayOff ==
  ASSUME NEW h, NEW j, Replay(h, j), step' = "off", disk' = disk, cache' = cache, UNCHANGED bow
  PROVE  Replay(h, j)' \/ Idle(h)'
<1>1. Medium(h, j) BY DEF Replay
<1>2. Medium(h, j)' BY <1>1, StillMedium
<1>3. /\ 0 \notin DOMAIN cache' /\ \A x \in DOMAIN cache' : x \in Src(h.ent[j]) /\ cache'[x] = h.val[x]
  BY DEF Replay
<1>4. CASE disk[0].magic = "WOB"
  <2>1. disk'[0].magic = "WOB" BY <1>4
  <2> QED BY <1>2, <1>3, <2>1 DEF Replay
<1>5. CASE Untouched(h) /\ DOMAIN cache = {} BY <1>5, StillUntouched DEF Idle
<1> QED BY <1>4, <1>5 DEF Replay

\* One that is cut off.
LEMMA ReplayCut ==
  ASSUME BowInv, NEW h, Hist(h), NEW j, Replay(h, j), PowerCut
  PROVE  Replay(h, j)' \/ Idle(h)'
<1>1. Contents /\ Medium(h, j) BY DEF BowInv, Replay
<1>2. /\ step' = "off" /\ DOMAIN cache' = {} /\ UNCHANGED bow
      /\ \E kept \in SUBSET DOMAIN cache :
              /\ \A b \in Blocks : disk'[b] = IF b \in kept THEN cache[b] ELSE disk[b]
              /\ kept = {} => disk' = disk
  BY <1>1, CutIs
<1>3. PICK kept \in SUBSET DOMAIN cache :
              /\ \A b \in Blocks : disk'[b] = IF b \in kept THEN cache[b] ELSE disk[b]
              /\ kept = {} => disk' = disk
  BY <1>2
<1>4. j \in 1..h.n /\ DOMAIN cache \cap (h.need[j] \cup {0}) = {} BY ReplayReads
<1>5. h.need[j] \subseteq Blocks BY <1>4 DEF Hist
<1>6. disk'[0] = disk[0] /\ \A x \in h.need[j] : disk'[x] = disk[x] BY <1>3, <1>4, <1>5, BlocksAre
<1>7. Medium(h, j)' BY <1>1, <1>6, StillMedium
<1>8. CASE disk[0].magic = "WOB"
  <2>1. disk'[0].magic = "WOB" BY <1>6, <1>8
  <2> QED BY <1>2, <1>7, <2>1 DEF Replay
<1>9. CASE Untouched(h) /\ DOMAIN cache = {}
  <2>1. disk' = disk BY <1>3, <1>9
  <2> QED BY <1>2, <1>9, <2>1, StillUntouched DEF Idle
<1> QED BY <1>8, <1>9 DEF Replay

\* One that is resumed.
LEMMA ReplayStarts ==
  ASSUME BowInv, NEW h, Hist(h), NEW j, Replay(h, j), cp_restoreCheckpoint
  PROVE  Replay(h, j)'
<1>1. /\ step = "off" /\ disk' = disk /\ cache' = cache /\ UNCHANGED bow /\ Round(TRUE)
  BY DEF cp_restoreCheckpoint
<1>2. Medium(h, j) /\ disk[0].magic = "WOB" /\ Now[0] = disk[0] BY <1>1, ReplayReads DEF Replay
<1>3. IsLog(disk[0]) /\ disk[0].sequence = h.seq[j] BY <1>2 DEF Medium, LogAt
<1>4. /\ step' = "sector" /\ (run'.validating <=> TRUE /\ disk[0].magic # "WOB")
      /\ run'.sequence = disk[0].sequence
  BY <1>1, <1>2, <1>3, RoundIs
<1>5. ~run'.validating BY <1>2, <1>4
<1>6. Medium(h, j)' BY <1>1, <1>2, StillMedium
<1>7. disk'[0].magic = "WOB" BY <1>1, <1>2
<1>8. /\ 0 \notin DOMAIN cache' /\ \A x \in DOMAIN cache' : x \in Src(h.ent[j]) /\ cache'[x] = h.val[x]
  BY <1>1 DEF Replay
<1> QED BY <1>3, <1>4, <1>5, <1>6, <1>7, <1>8 DEF Replay

\* What a replay that goes on without a write keeps.
LEMMA ReplayOn ==
  ASSUME NEW h, NEW j, Replay(h, j), step # "off", disk' = disk, cache' = cache, UNCHANGED bow,
         step' \in {"entry", "save"}, ~run'.validating, NEW k \in {j, j - 1}, ReplayAt(h, k)'
  PROVE  Replay(h, j)'
<1>1. Medium(h, j) BY DEF Replay
<1>2. Medium(h, j)' BY <1>1, StillMedium
<1>3. /\ 0 \notin DOMAIN cache' /\ \A x \in DOMAIN cache' : x \in Src(h.ent[j]) /\ cache'[x] = h.val[x]
  BY DEF Replay
<1>4. disk'[0].magic = "WOB" \/ (Untouched(h)' /\ j = h.n /\ DOMAIN cache' = {} /\ step' # "off")
  <2>1. disk[0].magic = "WOB" \/ (Untouched(h) /\ j = h.n /\ DOMAIN cache = {}) BY DEF Replay
  <2> QED BY <2>1, StillUntouched
<1> QED BY <1>2, <1>3, <1>4 DEF Replay

\* A log sector is read from the medium.
LEMMA ReplaySector ==
  ASSUME BowInv, NEW h, Hist(h), NEW j, Replay(h, j), ReadSector
  PROVE  Replay(h, j)' \/ Idle(h)'
<1>1. step = "sector" /\ disk' = disk /\ cache' = cache /\ UNCHANGED bow BY DEF ReadSector
<1>2. ~run.validating /\ run.sequence = h.seq[j] /\ Medium(h, j) /\ Follows(run) BY <1>1 DEF Replay, BowInv
<1>3. /\ j \in 1..h.n /\ Now[0] = disk[0] /\ \A x \in h.need[j] : Now[x] = disk[x] BY ReplayReads
<1>4. h.seq[j] \in Nat /\ ~(run.sequence < 0) BY <1>2, <1>3, Sectors
<1> DEFINE ls == relocatedRead(0)
<1>5. ls = disk[0] BY <1>2, <1>3 DEF relocatedRead
<1>6. CASE Fail
  <2>1. step' = "off" BY <1>2, <1>6 DEF Fail
  <2> QED BY <1>1, <2>1, ReplayOff
<1>7. CASE step' = "entry" /\ run' = [run EXCEPT !.ls = ls, !.index = ls.count, !.used = NoneUsed]
  <2> HIDE DEF ls
  <2>1. run' = [validating |-> run.validating, sequence |-> run.sequence, ls |-> ls, index |-> ls.count,
                relocations |-> run.relocations, moved |-> run.moved, used |-> NoneUsed,
                buffer |-> run.buffer, restored |-> run.restored]
    BY <1>2, <1>7 DEF Follows
  <2>2. run'.sequence = run.sequence /\ run'.ls = ls /\ run'.index = ls.count BY ONLY <2>1
  <2>3. run'.validating = run.validating BY ONLY <2>1, Zenon
  <2>4. ~run'.validating BY <1>2, <2>3
  <2>5. RunAt(h, j)' BY <1>2, <1>3, <1>5, <2>2 DEF RunAt, Medium, LogAt
  <2>6. Now' = Now BY <1>1 DEF Now
  <2>7. Back(h, Now, j) BY <1>2, <1>3 DEF Medium, Back
  <2>8. ReplayAt(h, j)' BY <1>7, <2>5, <2>6, <2>7 DEF ReplayAt, Back
  <2> QED BY <1>1, <1>7, <2>4, <2>8, ReplayOn
<1> QED BY <1>4, <1>6, <1>7 DEF ReadSector

\* The bounds of the ranges that were read since the partial result was saved.
Bounds(used) == DOMAIN used \subseteq Nat /\ 0 \in DOMAIN used

\* The greatest of some numbers up to a bound.
LEMMA MaxIs ==
  ASSUME NEW S \in SUBSET Nat, S # {}, NEW n \in Nat, \A x \in S : x <= n
  PROVE  Max(S) \in S
<1> DEFINE T == {y \in Nat : n - y \in S}
<1>1. PICK s : s \in S OBVIOUS
<1>2. T \in SUBSET Nat /\ T # {}
  <2>1. s \in Nat /\ s <= n BY <1>1
  <2>2. n - s \in Nat /\ n - (n - s) = s BY <2>1
  <2>3. n - s \in T BY <1>1, <2>2
  <2> QED BY <2>3
<1> HIDE DEF T
<1>3. PICK t \in T : \A u \in T : ~(<<u, t>> \in OpToRel(<, Nat)) BY <1>2, NatLessThanWellFounded, WFMin
<1>4. ASSUME NEW u \in T PROVE t <= u
  <2>1. t \in Nat /\ u \in Nat BY <1>2
  <2>2. <<u, t>> \in Nat \X Nat /\ <<u, t>>[1] = u /\ <<u, t>>[2] = t BY <2>1
  <2>3. OpToRel(<, Nat) = {ss \in Nat \X Nat : ss[1] < ss[2]} BY DEF OpToRel
  <2>4. ~(u < t) BY <1>3, <2>2, <2>3
  <2> QED BY <2>1, <2>4
<1>5. n - t \in S /\ t \in Nat BY DEF T
<1>6. ASSUME NEW x \in S PROVE n - t >= x
  <2>1. x \in Nat /\ x <= n BY <1>6
  <2>2. n - x \in Nat /\ n - (n - x) = x BY <2>1
  <2>3. n - x \in T BY <2>2 DEF T
  <2>4. t <= n - x BY <1>4, <2>3
  <2> QED BY <1>5, <2>1, <2>4
<1>7. ASSUME NEW z \in S, \A y \in S : z >= y PROVE z = n - t
  <2>1. z \in Nat /\ z >= n - t /\ n - t >= z BY <1>5, <1>6, <1>7
  <2> QED BY <1>5, <2>1
<1> QED BY <1>5, <1>6, <1>7 DEF Max

\* Every entry collides: its own beginning is never below the bound that is found for it.
LEMMA AlwaysCollides ==
  ASSUME NEW used, Bounds(used), NEW start \in Nat, NEW end \in Nat, start < end
  PROVE  checkCollision(used, start, end)
<1> DEFINE S == {k \in DOMAIN used : k <= start}
<1>1. S \in SUBSET Nat /\ 0 \in S /\ S # {} /\ \A x \in S : x <= start BY DEF Bounds
<1> HIDE DEF S
<1>2. PICK U, n : U = S /\ n = start OBVIOUS
<1>3. U \in SUBSET Nat /\ U # {} /\ n \in Nat /\ \A x \in U : x <= n BY <1>1, <1>2
<1>4. Max(U) \in U BY ONLY <1>3, MaxIs
<1>5. Max(S) < end
  <2>1. Max(S) \in Nat /\ Max(S) <= start BY <1>1, <1>2, <1>4
  <2> QED BY <2>1
<1> QED BY <1>5 DEF checkCollision, Floor, S

\* A range that is marked keeps the bounds.
LEMMA MarkedBounds ==
  ASSUME NEW used, Bounds(used), NEW start \in Nat, NEW end \in Nat, start < end
  PROVE  Bounds(markUsed(used, start, end))
<1> DEFINE m == [k \in DOMAIN used \cup {start, end} |->
                   IF k = start THEN TRUE ELSE IF k = end THEN FALSE ELSE used[k]]
           before == {k \in DOMAIN m : k < start}
           after == {k \in DOMAIN m : k > end}
           above == {k \in DOMAIN m : k > start}
           first == IF before = {} \/ ~m[Max(before)] THEN Min(above) ELSE start
           last == IF after # {} /\ ~m[Min(after)] THEN Min(after) ELSE end
           K == {k \in DOMAIN m : k < first \/ k >= last}
<1>1. markUsed(used, start, end) = [x \in K |-> m[x]] BY DEF markUsed, Restrict
<1>2. DOMAIN m = DOMAIN used \cup {start, end} /\ DOMAIN m \subseteq Nat /\ 0 \in DOMAIN m BY DEF Bounds
<1> HIDE DEF m
<1>3. Min(above) \in above
  <2>1. end \in above BY <1>2
  <2>2. above \in SUBSET Nat BY <1>2
  <2> HIDE DEF above
  <2> QED BY <2>1, <2>2, MinIs
<1>4. first \in Nat /\ first > 0
  <2>1. Min(above) \in Nat /\ Min(above) > 0 BY <1>2, <1>3
  <2>2. before # {} => start > 0 BY <1>2
  <2> HIDE DEF above, before
  <2>3. CASE before = {} \/ ~m[Max(before)] BY <2>1, <2>3
  <2>4. CASE before # {} /\ m[Max(before)] BY <2>2, <2>4
  <2> QED BY <2>3, <2>4
<1> HIDE DEF first, last
<1>5. 0 \in K /\ K \subseteq Nat BY <1>2, <1>4
<1> HIDE DEF K
<1>6. DOMAIN [x \in K |-> m[x]] = K OBVIOUS
<1> QED BY <1>1, <1>5, <1>6 DEF Bounds

\* An entry is read: its contents are right, or the replay returns.
LEMMA ReplayEntry ==
  ASSUME BowInv, NEW h, Hist(h), NEW j, Replay(h, j), ReadEntry, Bounds(run.used)
  PROVE  Replay(h, j)' \/ Idle(h)'
<1>1. step = "entry" /\ disk' = disk /\ cache' = cache /\ UNCHANGED bow BY DEF ReadEntry
<1>2. ~run.validating /\ Follows(run) BY <1>1 DEF Replay, BowInv
<1>3. PICK k \in {j, j - 1} : ReplayAt(h, k) BY <1>1 DEF Replay
<1>4. RunAt(h, k) /\ Back(h, Now, k) BY <1>3 DEF ReplayAt
<1>5. PICK e : e = Entry OBVIOUS
<1>6. k \in 1..h.n /\ e = h.ent[k] BY <1>4, <1>5, EntryAt
<1>7. /\ IsEntry(e)
      /\ e.checksum = crc32(e.source, [i \in 0..(e.size - 1) |-> Was(h, k - 1, e.source + i)])
  BY <1>6, Entries
<1>8. e.source \in Nat /\ e.source + e.size \in Nat /\ e.source < e.source + e.size BY <1>7 DEF IsEntry
<1>9. checkCollision(run.used, e.source, e.source + e.size) BY <1>8, AlwaysCollides
<1> DEFINE buffer == [i \in 0..(e.size - 1) |-> relocatedRead(e.dest + i)]
<1>10. CASE Fail
  <2>1. step' = "off" BY <1>2, <1>10 DEF Fail
  <2> QED BY <1>1, <2>1, ReplayOff
<1>11. CASE crc32(e.source, buffer) = e.checksum /\ step' = "save" /\ run' = [run EXCEPT !.buffer = buffer]
  <2>1. buffer = [i \in 0..(e.size - 1) |-> Was(h, k - 1, e.source + i)] BY <1>7, <1>11 DEF crc32
  <2>2. \A i \in 0..(e.size - 1) : buffer[i] = Was(h, k - 1, e.source + i) BY <2>1
  <2> HIDE DEF buffer
  <2>3. run' = [validating |-> run.validating, sequence |-> run.sequence, ls |-> run.ls, index |-> run.index,
                relocations |-> run.relocations, moved |-> run.moved, used |-> run.used,
                buffer |-> buffer, restored |-> run.restored]
    BY <1>2, <1>11 DEF Follows
  <2>4. run'.sequence = run.sequence /\ run'.ls = run.ls /\ run'.index = run.index /\ run'.buffer = buffer
    BY ONLY <2>3
  <2>5. run'.validating = run.validating BY ONLY <2>3, Zenon
  <2>6. ~run'.validating BY <1>2, <2>5
  <2>7. RunAt(h, k)' BY <1>4, <2>4 DEF RunAt
  <2>8. Now' = Now BY <1>1 DEF Now
  <2>9. BufferAt(h, k)' BY <1>6, <2>2, <2>4 DEF BufferAt
  <2>10. ReplayAt(h, k)' BY <1>4, <2>7, <2>8, <2>9 DEF ReplayAt, Back
  <2> QED BY <1>1, <1>11, <2>6, <2>10, ReplayOn
<1>12. Fail \/ (crc32(e.source, buffer) = e.checksum /\ step' = "save" /\ run' = [run EXCEPT !.buffer = buffer])
  BY <1>2, <1>5, <1>9 DEF ReadEntry
<1> QED BY <1>10, <1>11, <1>12

\* What is left to do is saved in the log sector.
LEMMA ReplaySaves ==
  ASSUME BowInv, NEW h, Hist(h), NEW j, Replay(h, j), SavePartial
  PROVE  (\E i, k \in 1..h.n : Saving(h, i, k))'
<1> DEFINE ls == [run.ls EXCEPT !.count = run.index, !.magic = "WOB"]
<1>1. /\ step = "save" /\ step' = "save sync" /\ run' = [run EXCEPT !.ls = ls, !.used = NoneUsed]
      /\ disk' = Now /\ cache' = At(0, ls) /\ UNCHANGED bow
  BY DEF SavePartial
<1>2. Follows(run) /\ IsSector(run.ls) /\ run.index \in 1..run.ls.count BY <1>1 DEF BowInv, Reading
<1>3. PICK k \in {j, j - 1} : ReplayAt(h, k) BY <1>1 DEF Replay
<1>4. RunAt(h, k) /\ Back(h, Now, k) /\ BufferAt(h, k) BY <1>1, <1>3 DEF ReplayAt
<1>5. ls.magic = "WOB" /\ ls.sequence = run.ls.sequence /\ ls.count = run.index /\ ls.entries = run.ls.entries
  <2>1. PICK mg, sq, ct, en, se : run.ls = Log(mg, sq, ct, en, se) BY <1>2 DEF IsSector
  <2>2. ls = [[Log(mg, sq, ct, en, se) EXCEPT !.count = run.index] EXCEPT !.magic = "WOB"] BY <2>1
  <2>3. [Log(mg, sq, ct, en, se) EXCEPT !.count = run.index] = Log(mg, sq, run.index, en, se)
    BY ONLY TRUE DEF Log
  <2>4. [Log(mg, sq, run.index, en, se) EXCEPT !.magic = "WOB"] = Log("WOB", sq, run.index, en, se)
    BY ONLY TRUE DEF Log
  <2> HIDE DEF ls
  <2>5. ls = Log("WOB", sq, run.index, en, se) BY ONLY <2>2, <2>3, <2>4, Zenon
  <2> QED BY <2>1, <2>5 DEF Log
<1> HIDE DEF ls
<1>6. DOMAIN cache' = {0} /\ cache'[0] = ls BY <1>1 DEF At
<1>7. run' = [validating |-> run.validating, sequence |-> run.sequence, ls |-> ls, index |-> run.index,
              relocations |-> run.relocations, moved |-> run.moved, used |-> NoneUsed,
              buffer |-> run.buffer, restored |-> run.restored]
  BY <1>1, <1>2 DEF Follows
<1>8. run'.sequence = run.sequence /\ run'.ls = ls /\ run'.index = run.index /\ run'.buffer = run.buffer
  BY ONLY <1>7
<1>9. RunAt(h, k)' /\ BufferAt(h, k)' BY <1>4, <1>5, <1>8 DEF RunAt, BufferAt
<1>10. LogAt(h, run.ls, k)' BY <1>4, <1>5, <1>8 DEF RunAt, LogAt
<1>11. /\ j \in 1..h.n /\ Now[0] = disk[0] /\ \A x \in h.need[j] : Now[x] = disk[x] BY ReplayReads
<1>12. Medium(h, j)'
  <2>1. Medium(h, j) BY DEF Replay
  <2> QED BY <1>1, <1>11, <2>1, StillMedium
<1>13. Begun(h, j)'
  <2>1. CASE disk[0].magic = "WOB" BY <1>1, <1>11, <2>1 DEF Begun
  <2>2. CASE Untouched(h) /\ j = h.n /\ DOMAIN cache = {}
    <3>1. disk' = disk BY <1>1, <2>2, NowIs DEF BowInv
    <3> QED BY <1>1, <2>2, <3>1, StillUntouched DEF Begun
  <2> QED BY <2>1, <2>2 DEF Replay
<1>14. Back(h, disk, k)' BY <1>1, <1>4 DEF Back
<1>15. k \in 1..h.n BY <1>4 DEF RunAt
<1>16. Saving(h, j, k)' BY <1>1, <1>5, <1>6, <1>8, <1>9, <1>10, <1>12, <1>13, <1>14 DEF Saving
<1> QED BY <1>11, <1>15, <1>16

\* The medium with the new log sector.
LEMMA SavedMedium ==
  ASSUME NEW h, NEW j, NEW k \in 1..h.n, Saving(h, j, k),
         disk'[0] = run.ls, \A x \in Blocks : x # 0 => disk'[x] = disk[x]
  PROVE  Medium(h, k)' /\ disk'[0].magic = "WOB"
<1>1. run.ls.magic = "WOB" /\ LogAt(h, run.ls, k) /\ Back(h, disk, k) BY DEF Saving
<1>2. IsLog(disk'[0]) BY <1>1 DEF IsLog
<1>3. LogAt(h, disk[0], k)' BY <1>1 DEF LogAt
<1>4. Back(h, disk, k)' BY <1>1, BowRestoreAssumption DEF Back
<1> QED BY <1>1, <1>2, <1>3, <1>4 DEF Medium

\* From a partial result that is being saved, the replay goes on to copy or starts over.
LEMMA SavingGoes ==
  ASSUME BowInv, NEW h, Hist(h), NEW j \in 1..h.n, NEW k \in 1..h.n, Saving(h, j, k), SaveSync \/ PowerCut
  PROVE  Copying(h, k)' \/ Replay(h, j)' \/ Replay(h, k)' \/ Idle(h)'
<1>1. /\ Contents /\ Medium(h, j) /\ Begun(h, j) /\ RunAt(h, k) /\ BufferAt(h, k)
      /\ DOMAIN cache = {0} /\ cache[0] = run.ls
  BY DEF BowInv, Saving
<1>2. CASE SaveSync
  <2>1. step' = "copy" /\ run' = run /\ fsync BY <1>2 DEF SaveSync
  <2>2. DOMAIN cache' = {} /\ disk' = Now BY <1>1, <2>1, SyncIs DEF fsync
  <2>3. disk'[0] = run.ls /\ \A x \in Blocks : x # 0 => disk'[x] = disk[x] BY <1>1, <2>2, BlocksAre DEF Now
  <2>4. Medium(h, k)' /\ disk'[0].magic = "WOB" BY <2>3, SavedMedium
  <2>5. RunAt(h, k)' /\ BufferAt(h, k)' BY <1>1, <2>1 DEF RunAt, BufferAt
  <2> QED BY <2>1, <2>2, <2>4, <2>5 DEF Copying
<1>3. CASE PowerCut
  <2>1. /\ step' = "off" /\ DOMAIN cache' = {} /\ UNCHANGED bow
        /\ \E kept \in SUBSET DOMAIN cache :
              /\ \A b \in Blocks : disk'[b] = IF b \in kept THEN cache[b] ELSE disk[b]
              /\ kept = {} => disk' = disk
    BY <1>1, <1>3, CutIs
  <2>2. PICK kept \in SUBSET {0} :
              /\ \A b \in Blocks : disk'[b] = IF b \in kept THEN cache[b] ELSE disk[b]
              /\ kept = {} => disk' = disk
    BY <1>1, <2>1
  <2>3. CASE kept = {}
    <3>1. disk' = disk BY <2>2, <2>3
    <3>2. Medium(h, j)' BY <1>1, <3>1, StillMedium
    <3>3. CASE disk[0].magic = "WOB"
      <4>1. disk'[0].magic = "WOB" BY <3>1, <3>3
      <4> QED BY <2>1, <3>2, <4>1 DEF Replay
    <3>4. CASE Untouched(h) BY <2>1, <3>1, <3>4, StillUntouched DEF Idle
    <3> QED BY <1>1, <3>3, <3>4 DEF Begun
  <2>4. CASE kept # {}
    <3>1. kept = {0} BY <2>4
    <3>2. disk'[0] = run.ls /\ \A x \in Blocks : x # 0 => disk'[x] = disk[x] BY <1>1, <2>2, <3>1, BlocksAre
    <3>3. Medium(h, k)' /\ disk'[0].magic = "WOB" BY <3>2, SavedMedium
    <3> QED BY <2>1, <3>3 DEF Replay
  <2> QED BY <2>3, <2>4
<1> QED BY <1>2, <1>3

\* The copy of an entry, or a power cut before it.
LEMMA CopyingGoes ==
  ASSUME BowInv, NEW h, Hist(h), NEW k \in 1..h.n, Copying(h, k), Copy \/ PowerCut
  PROVE  Replay(h, k)' \/ Flushing(h, k)'
<1>1. /\ Contents /\ Medium(h, k) /\ disk[0].magic = "WOB" /\ DOMAIN cache = {} /\ RunAt(h, k) /\ BufferAt(h, k)
      /\ step = "copy" /\ Follows(run)
  BY DEF BowInv, Copying
<1>2. CASE PowerCut
  <2>1. disk' = disk /\ DOMAIN cache' = {} /\ step' = "off" BY <1>1, <1>2, CutIs
  <2>2. Medium(h, k)' BY <1>1, <2>1, StillMedium
  <2>3. disk'[0].magic = "WOB" BY <1>1, <2>1
  <2> QED BY <2>1, <2>2, <2>3 DEF Replay
<1>3. CASE Copy
  <2>1. PICK e : e = Entry OBVIOUS
  <2>2. e = h.ent[k] BY <1>1, <2>1, EntryAt
  <2>3. /\ IsEntry(e) /\ h.need[k] \subseteq Blocks /\ h.need[k - 1] \subseteq Blocks
        /\ h.need[k - 1] \subseteq h.need[k] \cup Src(e) /\ k - 1 \in 0..h.n /\ k \in Nat
    BY <2>2, Entries
  <2>4. /\ e.source \in Nat /\ e.size \in Nat \ {0} /\ Src(e) \subseteq Blocks
    BY <2>3 DEF IsEntry, Src
  <2>5. \A x \in Src(e) : x \in Nat /\ x - e.source \in 0..(e.size - 1) BY <2>4, PartIs DEF Src
  <2> DEFINE contents == IF run.index = 1 /\ run.ls.sequence # 0 /\ run.buffer[0].magic = "BOW"
                         THEN [run.buffer EXCEPT ![0].magic = "WOB"] ELSE run.buffer
             used == markUsed(run.used, e.dest, e.dest + e.size)
             w == [b \in Part(e.source, e.size) |-> contents[b - e.source]]
  <2>6. /\ Write(w) /\ disk' = disk /\ UNCHANGED bow
        /\ run' = [run EXCEPT !.used = markUsed(@, e.dest, e.dest + e.size),
                           !.buffer = <<>>, !.restored = TRUE, !.index = @ - 1]
        /\ step' = IF run.index = 1 THEN "flush" ELSE "entry"
    BY <1>3, <2>1 DEF Copy, Copied
  <2>7. run' = [validating |-> run.validating, sequence |-> run.sequence, ls |-> run.ls,
                index |-> run.index - 1, relocations |-> run.relocations, moved |-> run.moved,
                used |-> used, buffer |-> <<>>, restored |-> TRUE]
    BY <1>1, <2>6 DEF Follows
  <2> HIDE DEF used
  <2>8. run'.sequence = run.sequence /\ run'.ls = run.ls /\ run'.index = run.index - 1 BY ONLY <2>7
  <2>9. ~run'.validating
    <3>1. run'.validating = run.validating BY ONLY <2>7, Zenon
    <3> QED BY <1>1, <3>1 DEF BowInv, Validating
  <2>10. DOMAIN cache' = Src(e) /\ \A x \in Src(e) : cache'[x] = contents[x - e.source]
    BY <1>1, <2>6 DEF Write, Src
  <2> HIDE DEF contents, w
  <2>11. Medium(h, k)' /\ disk'[0].magic = "WOB" BY <1>1, <2>6, StillMedium
  <2>12. /\ \A i \in 0..(e.size - 1) : run.buffer[i] = Was(h, k - 1, e.source + i)
         /\ run.index = h.cnt[k] /\ run.sequence = h.seq[k] /\ run.ls.sequence = h.seq[k]
    BY <1>1, <2>2 DEF BufferAt, RunAt
  <2>13. CASE h.cnt[k] # 1
    <3>1. 0 \notin Src(e) BY <2>2, <2>13, Sectors
    <3>2. contents = run.buffer /\ step' = "entry" BY <2>6, <2>12, <2>13 DEF contents
    <3>3. \A x \in Src(e) : cache'[x] = h.val[x]
      <4> SUFFICES ASSUME NEW x \in Src(e) PROVE cache'[x] = h.val[x] OBVIOUS
      <4>1. PICK i \in 0..(e.size - 1) : i = x - e.source BY <2>5
      <4>2. x = e.source + i /\ x # 0 BY <2>4, <2>5, <3>1, <4>1
      <4>3. run.buffer[i] = h.val[x] BY <2>12, <4>2 DEF Was
      <4> QED BY <2>10, <3>2, <4>1, <4>3
    <3>4. RunAt(h, k - 1)' BY <1>1, <2>8, <2>13, EntryBefore
    <3>5. Back(h, Now, k - 1)'
      <4> SUFFICES ASSUME NEW x \in h.need[k - 1] \cap InUse, x # 0 PROVE Now'[x] = Old(x) BY DEF Back
      <4>1. x \in Blocks BY <2>3
      <4>2. Now'[x] = IF x \in DOMAIN cache' THEN cache'[x] ELSE disk'[x] BY <4>1 DEF Now
      <4>3. CASE x \in Src(e)
        <5>1. h.val[x] = Old(x) BY DEF Hist
        <5> QED BY <2>10, <3>3, <4>2, <4>3, <5>1
      <4>4. CASE x \notin Src(e)
        <5>1. x \in h.need[k] BY <2>3, <4>4
        <5>2. disk[x] = Old(x) BY <1>1, <5>1 DEF Medium, Back
        <5> QED BY <2>6, <2>10, <4>2, <4>4, <5>2
      <4> QED BY <4>3, <4>4
    <3>6. ReplayAt(h, k - 1)' BY <3>2, <3>4, <3>5 DEF ReplayAt
    <3>7. 0 \notin DOMAIN cache' /\ \A x \in DOMAIN cache' : x \in Src(h.ent[k]) /\ cache'[x] = h.val[x]
      BY <2>2, <2>10, <3>1, <3>3
    <3> QED BY <2>9, <2>11, <3>2, <3>6, <3>7 DEF Replay
  <2>14. CASE h.cnt[k] = 1
    <3>1. /\ e.source = 0 /\ e.size = 1 /\ Src(e) = {0} /\ (h.seq[k] = 0 <=> k = 1)
          /\ (k # 1 => k - 1 \in 1..h.n)
      BY <2>2, <2>14, Sectors
    <3>2. step' = "flush" /\ run'.sequence = h.seq[k] BY <2>6, <2>8, <2>12, <2>14
    <3>3. run.buffer[0] = h.log[k - 1] BY <2>12, <3>1 DEF Was
    <3>4. DOMAIN cache' = {0} /\ cache'[0] = contents[0] BY <2>10, <3>1
    <3>5. Begins(h, cache'[0], k - 1)
      <4>1. CASE k = 1
        <5>1. contents = run.buffer /\ k - 1 = 0 BY <2>12, <3>1, <4>1 DEF contents
        <5>2. h.log[0] = Old(0) BY DEF Hist
        <5> QED BY <3>3, <3>4, <5>1, <5>2 DEF Begins
      <4>2. CASE k # 1
        <5>1. h.log[k - 1].magic = "BOW" /\ LogAt(h, h.log[k - 1], k - 1) BY <3>1, <4>2, Sectors
        <5>2. contents = [run.buffer EXCEPT ![0].magic = "WOB"] BY <2>12, <2>14, <3>1, <3>3, <4>2, <5>1 DEF contents
        <5>3. /\ run.buffer = [i \in 0..(e.size - 1) |-> run.buffer[i]]
              /\ \A i \in 0..(e.size - 1) : IsContent(run.buffer[i])
          BY <1>1, <2>1 DEF BowInv, Buffered, Entry
        <5>4. 0 \in 0..(e.size - 1) BY <3>1
        <5>5. IsSector(run.buffer[0]) BY <3>3, <5>1, <5>3, <5>4 DEF IsContent, IsLog
        <5>6. PICK c : c = run.buffer[0] OBVIOUS
        <5>7. 0 \in DOMAIN run.buffer BY <5>3, <5>4
        <5>8. contents[0] = [c EXCEPT !.magic = "WOB"] BY <5>2, <5>6, <5>7
        <5>9. c = Log(c.magic, c.sequence, c.count, c.entries, c.sector0) BY <5>5, <5>6 DEF IsSector
        <5>10. contents[0] = Log("WOB", c.sequence, c.count, c.entries, c.sector0) BY <5>8, <5>9 DEF Log
        <5>11. /\ contents[0].magic = "WOB" /\ contents[0].sequence = c.sequence /\ contents[0].count = c.count
               /\ contents[0].entries = c.entries
          BY <5>10 DEF Log
        <5>12. LogAt(h, contents[0], k - 1) BY <3>3, <5>1, <5>6, <5>11 DEF LogAt
        <5>13. k - 1 # 0 BY <2>3, <4>2
        <5> QED BY <3>4, <5>11, <5>12, <5>13 DEF Begins
      <4> QED BY <4>1, <4>2
    <3> QED BY <2>11, <2>14, <3>2, <3>4, <3>5 DEF Flushing, Begins, LogAt
  <2> QED BY <2>13, <2>14
<1> QED BY <1>2, <1>3

\* With the log sector before, or the old contents of block 0, on the medium.
LEMMA FlushedMedium ==
  ASSUME NEW h, Hist(h), NEW k \in 1..h.n, Flushing(h, k),
         disk'[0] = cache[0], \A x \in Blocks : x # 0 => disk'[x] = disk[x]
  PROVE  /\ h.seq[k - 1] = h.seq[k] - 1
         /\ IF k = 1 THEN disk'[0] = Old(0) /\ Back(h, disk, 0)' /\ h.seq[k] = 0
            ELSE k - 1 \in 1..h.n /\ Medium(h, k - 1)' /\ disk'[0].magic = "WOB"
<1>1. Medium(h, k) /\ h.cnt[k] = 1 /\ Begins(h, cache[0], k - 1) BY DEF Flushing
<1>2. /\ Src(h.ent[k]) = {0} /\ h.seq[k - 1] = h.seq[k] - 1 /\ (h.seq[k] = 0 <=> k = 1)
      /\ (k # 1 => k - 1 \in 1..h.n)
  BY <1>1, Sectors
<1>3. h.need[k - 1] \subseteq h.need[k] \cup {0} /\ h.need[k - 1] \subseteq Blocks /\ k \in Nat
  <2>1. PICK e : e = h.ent[k] OBVIOUS
  <2>2. Hist(h) /\ k \in 1..h.n OBVIOUS
  <2>3. h.need[k - 1] \subseteq h.need[k] \cup Src(e) /\ h.need[k - 1] \subseteq Blocks /\ k \in Nat
    BY ONLY <2>1, <2>2, Entries
  <2> QED BY <1>2, <2>1, <2>3
<1>4. Back(h, disk, k - 1)' BY <1>1, <1>3 DEF Medium, Back
<1>5. CASE k = 1
  <2>1. k - 1 = 0 BY <1>5
  <2> QED BY <1>1, <1>2, <1>4, <1>5, <2>1 DEF Begins
<1>6. CASE k # 1
  <2>1. k - 1 # 0 BY <1>3, <1>6
  <2>2. disk'[0].magic = "WOB" /\ LogAt(h, cache[0], k - 1) BY <1>1, <2>1 DEF Begins
  <2>3. LogAt(h, disk[0], k - 1)' BY <2>2 DEF LogAt
  <2>4. IsLog(disk'[0]) BY <2>2 DEF IsLog
  <2> QED BY <1>2, <1>4, <1>6, <2>2, <2>3, <2>4 DEF Medium
<1> QED BY <1>5, <1>6

\* Block 0 is flushed last: the replay goes on with the sector it brings back, or the device is restored.
LEMMA FlushingGoes ==
  ASSUME BowInv, NEW h, Hist(h), NEW k \in 1..h.n, Flushing(h, k), Flush \/ PowerCut
  PROVE  Replay(h, k)' \/ Restored(h)' \/ (k - 1 \in 1..h.n /\ Replay(h, k - 1)')
<1>1. /\ Contents /\ Medium(h, k) /\ disk[0].magic = "WOB" /\ DOMAIN cache = {0} /\ run.sequence = h.seq[k]
      /\ Follows(run) /\ step = "flush"
  BY DEF BowInv, Flushing
<1>2. CASE Flush
  <2>1. step' = "sector" /\ fsync /\ run' = [run EXCEPT !.sequence = @ - 1] BY <1>2 DEF Flush
  <2>2. DOMAIN cache' = {} /\ cache' = NoWrites /\ disk' = Now BY <1>1, <2>1, SyncIs DEF fsync
  <2>3. disk'[0] = cache[0] /\ \A x \in Blocks : x # 0 => disk'[x] = disk[x] BY <1>1, <2>2, BlocksAre DEF Now
  <2>4. run' = [validating |-> run.validating, sequence |-> run.sequence - 1, ls |-> run.ls,
                index |-> run.index, relocations |-> run.relocations, moved |-> run.moved,
                used |-> run.used, buffer |-> run.buffer, restored |-> run.restored]
    BY <1>1, <2>1 DEF Follows
  <2>5. run'.sequence = run.sequence - 1 BY ONLY <2>4
  <2>6. ~run'.validating
    <3>1. run'.validating = run.validating BY ONLY <2>4, Zenon
    <3> QED BY <1>1, <3>1 DEF BowInv, Validating
  <2>7. /\ h.seq[k - 1] = h.seq[k] - 1
        /\ IF k = 1 THEN disk'[0] = Old(0) /\ Back(h, disk, 0)' /\ h.seq[k] = 0
           ELSE k - 1 \in 1..h.n /\ Medium(h, k - 1)' /\ disk'[0].magic = "WOB"
    BY <2>3, FlushedMedium
  <2>8. CASE k = 1
    <3>1. run'.sequence = -1 BY <1>1, <2>5, <2>7, <2>8
    <3> QED BY <2>1, <2>2, <2>6, <2>7, <2>8, <3>1 DEF Restored
  <2>9. CASE k # 1
    <3>1. run'.sequence = h.seq[k - 1] BY <1>1, <2>5, <2>7
    <3> QED BY <2>1, <2>2, <2>6, <2>7, <2>9, <3>1 DEF Replay
  <2> QED BY <2>8, <2>9
<1>3. CASE PowerCut
  <2>1. /\ step' = "off" /\ DOMAIN cache' = {} /\ cache' = NoWrites /\ UNCHANGED bow
        /\ \E kept \in SUBSET DOMAIN cache :
              /\ \A b \in Blocks : disk'[b] = IF b \in kept THEN cache[b] ELSE disk[b]
              /\ kept = {} => disk' = disk
    BY <1>1, <1>3, CutIs
  <2>2. PICK kept \in SUBSET {0} :
              /\ \A b \in Blocks : disk'[b] = IF b \in kept THEN cache[b] ELSE disk[b]
              /\ kept = {} => disk' = disk
    BY <1>1, <2>1
  <2>3. CASE kept = {}
    <3>1. disk' = disk BY <2>2, <2>3
    <3>2. Medium(h, k)' BY <1>1, <3>1, StillMedium
    <3>3. disk'[0].magic = "WOB" BY <1>1, <3>1
    <3> QED BY <2>1, <3>2, <3>3 DEF Replay
  <2>4. CASE kept # {}
    <3>1. kept = {0} BY <2>4
    <3>2. disk'[0] = cache[0] /\ \A x \in Blocks : x # 0 => disk'[x] = disk[x] BY <1>1, <2>2, <3>1, BlocksAre
    <3>3. IF k = 1 THEN disk'[0] = Old(0) /\ Back(h, disk, 0)' /\ h.seq[k] = 0
          ELSE k - 1 \in 1..h.n /\ Medium(h, k - 1)' /\ disk'[0].magic = "WOB"
      BY <3>2, FlushedMedium
    <3>4. CASE k = 1 BY <2>1, <3>3, <3>4 DEF Restored
    <3>5. CASE k # 1 BY <2>1, <3>3, <3>5 DEF Replay
    <3> QED BY <3>4, <3>5
  <2> QED BY <2>3, <2>4
<1> QED BY <1>2, <1>3

\* The old data stays.
LEMMA RestoredStays ==
  ASSUME BowInv, NEW h, Restored(h), cp_restoreCheckpoint \/ ReadSector \/ ReadFails \/ HitLimit \/ PowerCut
  PROVE  Restored(h)'
<1>1. /\ Contents /\ cache = NoWrites /\ disk[0] = Old(0) /\ Back(h, disk, 0)
      /\ step = "sector" => run.sequence = -1 /\ ~run.validating
      /\ step \in {"off", "sector", "settled"}
  BY DEF BowInv, Restored
<1>2. DOMAIN cache = {} BY <1>1 DEF NoWrites
<1>3. Now = disk BY <1>1, <1>2, NowIs
<1>4. disk' = disk => disk'[0] = Old(0) /\ Back(h, disk, 0)' BY <1>1 DEF Back
<1>5. CASE cp_restoreCheckpoint
  <2>1. disk' = disk /\ cache' = cache /\ Round(TRUE) BY <1>5 DEF cp_restoreCheckpoint
  <2>2. step' = "settled" BY <1>1, <1>3, <2>1 DEF Round, IsLog, Old
  <2> QED BY <1>1, <1>4, <2>1, <2>2 DEF Restored
<1>6. CASE ReadSector
  <2>1. disk' = disk /\ cache' = cache /\ step = "sector" BY <1>6 DEF ReadSector
  <2>2. run.sequence < 0 BY <1>1, <2>1
  <2>3. step' = "settled" BY <1>1, <1>6, <2>1, <2>2 DEF ReadSector, EndOfLog
  <2> QED BY <1>1, <1>4, <2>1, <2>3 DEF Restored
<1>7. CASE ReadFails
  <2>1. step = "sector" /\ run.sequence >= 0 BY <1>1, <1>7 DEF ReadFails
  <2> QED BY <1>1, <2>1
<1>8. CASE HitLimit
  <2>1. disk' = disk /\ cache' = cache /\ step' = "off" BY <1>8 DEF HitLimit
  <2> QED BY <1>1, <1>4, <2>1 DEF Restored
<1>9. CASE PowerCut
  <2>1. disk' = disk /\ cache' = NoWrites /\ step' = "off" BY <1>1, <1>2, <1>9, CutIs
  <2> QED BY <1>1, <1>4, <2>1 DEF Restored
<1> QED BY <1>5, <1>6, <1>7, <1>8, <1>9

\* What holds beside the phases.
Tame ==
  /\ faults \in Nat
  /\ step \in {"entry", "save", "save sync", "copy"} => Bounds(run.used)

\* The counter of faults and the bounds of the used sectors keep their form.
LEMMA TameStep ==
  ASSUME BowInv, Tame, [RestoreNext]_restoreVars
  PROVE  Tame'
<1>1. Follows(run) /\ faults \in Nat BY DEF BowInv, Tame
<1>2. Bounds(NoneUsed) BY DEF Bounds, NoneUsed, At
<1>3. CASE UNCHANGED restoreVars BY <1>3 DEF Tame, restoreVars
<1>4. CASE ReadSector
  <2>1. faults' = faults /\ step = "sector" BY <1>4 DEF ReadSector
  <2>2. CASE step' # "entry"
    <3>1. step' \notin {"entry", "save", "save sync", "copy"}
      BY <1>4, <2>2 DEF ReadSector, EndOfLog, Round, Fail
    <3> QED BY <1>1, <2>1, <3>1 DEF Tame
  <2>3. CASE step' = "entry"
    <3> DEFINE ls == relocatedRead(0)
    <3>1. run' = [run EXCEPT !.ls = ls, !.index = ls.count, !.used = NoneUsed]
      BY <1>4, <2>3 DEF ReadSector, EndOfLog, Round, Fail
    <3> HIDE DEF ls
    <3>2. run' = [validating |-> run.validating, sequence |-> run.sequence, ls |-> ls, index |-> ls.count,
                  relocations |-> run.relocations, moved |-> run.moved, used |-> NoneUsed,
                  buffer |-> run.buffer, restored |-> run.restored]
      BY <1>1, <3>1 DEF Follows
    <3>3. run'.used = NoneUsed BY ONLY <3>2
    <3> QED BY <1>1, <1>2, <2>1, <3>3 DEF Tame
  <2> QED BY <2>2, <2>3
<1>5. CASE ReadEntry
  <2>1. faults' = faults /\ step = "entry" /\ Bounds(run.used) BY <1>5 DEF ReadEntry, Tame
  <2>2. PICK le : le = Entry OBVIOUS
  <2> DEFINE buffer == [i \in 0..(le.size - 1) |-> relocatedRead(le.dest + i)]
             relocations == relocate(run.relocations, le.source, le.dest, le.size)
             moved == [b \in Blocks |-> IF b \in Part(le.source, le.size)
                                        THEN run.moved[b - le.source + le.dest] ELSE run.moved[b]]
  <2>3. CASE Fail BY <1>1, <2>1, <2>3 DEF Fail, Tame
  <2>4. CASE run' = [run EXCEPT
               !.relocations = relocate(@, le.source, le.dest, le.size),
               !.moved = [b \in Blocks |-> IF b \in Part(le.source, le.size)
                                               THEN @[b - le.source + le.dest] ELSE @[b]],
               !.index = @ - 1,
               !.sequence = IF run.index = 1 THEN @ - 1 ELSE @]
    <3>1. run' = [validating |-> run.validating,
                  sequence |-> IF run.index = 1 THEN run.sequence - 1 ELSE run.sequence,
                  ls |-> run.ls, index |-> run.index - 1,
                  relocations |-> relocations, moved |-> moved, used |-> run.used,
                  buffer |-> run.buffer, restored |-> run.restored]
      BY <1>1, <2>4 DEF Follows
    <3> HIDE DEF relocations, moved
    <3>2. run'.used = run.used BY ONLY <3>1
    <3> QED BY <1>1, <2>1, <3>2 DEF Tame
  <2>5. CASE run' = [run EXCEPT !.buffer = buffer]
    <3> HIDE DEF buffer
    <3>1. run' = [validating |-> run.validating, sequence |-> run.sequence, ls |-> run.ls, index |-> run.index,
                  relocations |-> run.relocations, moved |-> run.moved, used |-> run.used,
                  buffer |-> buffer, restored |-> run.restored]
      BY <1>1, <2>5 DEF Follows
    <3>2. run'.used = run.used BY ONLY <3>1
    <3> QED BY <1>1, <2>1, <3>2 DEF Tame
  <2> QED BY <1>5, <2>2, <2>3, <2>4, <2>5 DEF ReadEntry
<1>6. CASE SavePartial
  <2> DEFINE ls == [run.ls EXCEPT !.count = run.index, !.magic = "WOB"]
  <2>1. run' = [run EXCEPT !.ls = ls, !.used = NoneUsed] /\ faults' = faults BY <1>6 DEF SavePartial
  <2> HIDE DEF ls
  <2>2. run' = [validating |-> run.validating, sequence |-> run.sequence, ls |-> ls, index |-> run.index,
                relocations |-> run.relocations, moved |-> run.moved, used |-> NoneUsed,
                buffer |-> run.buffer, restored |-> run.restored]
    BY <1>1, <2>1 DEF Follows
  <2>3. run'.used = NoneUsed BY ONLY <2>2
  <2> QED BY <1>1, <1>2, <2>1, <2>3 DEF Tame
<1>7. CASE SaveSync BY <1>1, <1>7 DEF SaveSync, Tame
<1>8. CASE Copy
  <2>1. PICK le : le = Entry OBVIOUS
  <2> DEFINE used == markUsed(run.used, le.dest, le.dest + le.size)
  <2>2. /\ run' = [run EXCEPT !.used = markUsed(@, le.dest, le.dest + le.size),
                           !.buffer = <<>>, !.restored = TRUE, !.index = @ - 1]
        /\ faults' = faults /\ step = "copy"
    BY <1>8, <2>1 DEF Copy
  <2>3. run' = [validating |-> run.validating, sequence |-> run.sequence, ls |-> run.ls,
                index |-> run.index - 1, relocations |-> run.relocations, moved |-> run.moved,
                used |-> used, buffer |-> <<>>, restored |-> TRUE]
    BY <1>1, <2>2 DEF Follows
  <2>4. Bounds(used)
    <3>1. IsEntry(le) BY <2>1, <2>2, SectorIs DEF BowInv, Reading, Entry
    <3>2. le.dest \in Nat /\ le.dest + le.size \in Nat /\ le.dest < le.dest + le.size BY <3>1 DEF IsEntry
    <3>3. Bounds(run.used) BY <2>2 DEF Tame
    <3> QED BY <3>2, <3>3, MarkedBounds
  <2> HIDE DEF used
  <2>5. run'.used = used BY ONLY <2>3
  <2> QED BY <1>1, <2>2, <2>4, <2>5 DEF Tame
<1>9. CASE Flush \/ RollForward \/ cp_restoreCheckpoint
  <2>1. step' \in {"sector", "settled"} /\ faults' = faults
    BY <1>9 DEF Flush, RollForward, cp_restoreCheckpoint, Round
  <2> QED BY <1>1, <2>1 DEF Tame
<1>10. CASE ReadFails
  <2>1. step' = "forward" \/ step' = "off" BY <1>10 DEF ReadFails, Fail
  <2>2. faults' = faults + 1 BY <1>10 DEF ReadFails
  <2>3. faults + 1 \in Nat BY <1>1
  <2>4. step' \notin {"entry", "save", "save sync", "copy"} BY <2>1
  <2> QED BY <2>2, <2>3, <2>4 DEF Tame
<1>11. CASE HitLimit \/ PowerCut
  <2>1. step' = "off" /\ faults' = faults + 1 BY <1>11 DEF HitLimit, PowerCut
  <2>2. faults + 1 \in Nat /\ step' \notin {"entry", "save", "save sync", "copy"} BY <1>1, <2>1
  <2> QED BY <2>1, <2>2 DEF Tame
<1>12. ASSUME NEW b \in Blocks, NEW d \in Blocks, NEW n \in 1..MaxRange, BowBackup(b, n, d) PROVE Tame'
  BY <1>1, <1>12 DEF BowBackup, Tame
<1>13. ASSUME NEW b \in Blocks, BowRoll(b) \/ BowWrite(b) PROVE Tame'
  BY <1>1, <1>13 DEF BowRoll, BowWrite, Tame
<1>14. ASSUME NEW damaged \in SUBSET Blocks, BowEnd(damaged) PROVE Tame'
  BY <1>1, <1>14 DEF BowEnd, Tame
<1> QED BY <1>3, <1>4, <1>5, <1>6, <1>7, <1>8, <1>9, <1>10, <1>11, <1>12, <1>13, <1>14
        DEF RestoreNext, RestoreStep

\* The phases of a restore.
LEMMA PhaseStep ==
  ASSUME BowInv, Tame, NEW h, Hist(h), Roles(h), Phase(h), step # "bow",
         \/ RestoreStep \/ ReadFails \/ HitLimit \/ PowerCut
  PROVE  Roles(h)' /\ Phase(h)'
<1>1. UNCHANGED bow
  BY DEF RestoreStep, cp_restoreCheckpoint, ReadSector, ReadEntry, SavePartial, SaveSync, Copy, Flush,
         RollForward, ReadFails, HitLimit, PowerCut
<1>2. Roles(h)' BY <1>1, StillRoles
<1>3. faults \in Nat /\ h.n \in 0..h.n
  <2>1. h.n \in Nat /\ faults \in Nat BY DEF Tame, Hist
  <2> QED BY <2>1
<1>4. CASE Idle(h)
  <2>1. cp_restoreCheckpoint \/ PowerCut
    BY <1>4 DEF Idle, RestoreStep, ReadSector, ReadEntry, SavePartial, SaveSync, Copy, Flush,
                RollForward, ReadFails, HitLimit
  <2>2. Check(h, h.n)' \/ Idle(h)' BY <1>4, <2>1, IdleStarts, IdleCut
  <2> QED BY <1>2, <1>3, <2>2 DEF Phase
<1>5. CASE Forward(h)
  <2>1. RollForward \/ ReadFails \/ PowerCut
    BY <1>5 DEF Forward, RestoreStep, cp_restoreCheckpoint, ReadSector, ReadEntry, SavePartial, SaveSync,
                Copy, Flush, HitLimit
  <2>2. Rolled(h)' \/ Idle(h)' BY <1>3, <1>5, <2>1, ForwardGoes
  <2> QED BY <1>2, <2>2 DEF Phase
<1>6. CASE Rolled(h)
  <2>1. PowerCut
    BY <1>6 DEF Rolled, RestoreStep, cp_restoreCheckpoint, ReadSector, ReadEntry, SavePartial, SaveSync,
                Copy, Flush, HitLimit, RollForward, ReadFails
  <2>2. Kept' \/ Idle(h)' BY <1>3, <1>6, <2>1, RolledCut
  <2> QED BY <1>2, <2>2 DEF Phase
<1>7. CASE Kept
  <2>1. cp_restoreCheckpoint \/ PowerCut
    BY <1>7 DEF Kept, RestoreStep, ReadSector, ReadEntry, SavePartial, SaveSync,
                Copy, Flush, HitLimit, RollForward, ReadFails
  <2>2. Kept' BY <1>3, <1>7, <2>1, KeptStays
  <2> QED BY <1>2, <2>2 DEF Phase
<1>8. CASE Restored(h)
  <2>1. cp_restoreCheckpoint \/ ReadSector \/ ReadFails \/ HitLimit \/ PowerCut
    BY <1>8 DEF Restored, RestoreStep, ReadEntry, SavePartial, SaveSync, Copy, Flush, RollForward
  <2>2. Restored(h)' BY <1>8, <2>1, RestoredStays
  <2> QED BY <1>2, <2>2 DEF Phase
<1>9. ASSUME NEW j \in 0..h.n, Check(h, j) PROVE Phase(h)'
  <2>1. ReadSector \/ ReadEntry \/ ReadFails \/ HitLimit \/ PowerCut
    BY <1>9 DEF Check, RestoreStep, cp_restoreCheckpoint, SavePartial, SaveSync, Copy, Flush, RollForward
  <2>2. CASE ReadSector
    <3>1. (\E k \in 1..h.n : Replay(h, k))' \/ Check(h, j)' BY <1>9, <2>2, CheckSector
    <3> QED BY <3>1 DEF Phase
  <2>3. CASE ReadEntry
    <3>1. Forward(h)' \/ (j - 1 \in 0..h.n /\ Check(h, j - 1)') BY <1>9, <2>3, CheckEntry
    <3> QED BY <3>1 DEF Phase
  <2>4. CASE ReadFails \/ HitLimit \/ PowerCut
    <3>1. Forward(h)' \/ Idle(h)' BY <1>3, <1>9, <2>4, CheckStops
    <3> QED BY <3>1 DEF Phase
  <2> QED BY <2>1, <2>2, <2>3, <2>4
<1>10. ASSUME NEW j \in 1..h.n, Replay(h, j) PROVE Phase(h)'
  <2>1. step \in {"off", "sector", "entry", "save"} BY <1>10 DEF Replay
  <2>2. CASE cp_restoreCheckpoint
    <3>1. Replay(h, j)' BY <1>10, <2>2, ReplayStarts
    <3> QED BY <3>1 DEF Phase
  <2>3. CASE ReadSector
    <3>1. Replay(h, j)' \/ Idle(h)' BY <1>10, <2>3, ReplaySector
    <3> QED BY <3>1 DEF Phase
  <2>4. CASE ReadEntry
    <3>1. Bounds(run.used) BY <2>4 DEF ReadEntry, Tame
    <3>2. Replay(h, j)' \/ Idle(h)' BY <1>10, <2>4, <3>1, ReplayEntry
    <3> QED BY <3>2 DEF Phase
  <2>5. CASE SavePartial
    <3>1. (\E i, k \in 1..h.n : Saving(h, i, k))' BY <1>10, <2>5, ReplaySaves
    <3> QED BY <3>1 DEF Phase
  <2>6. CASE ReadFails
    <3>1. step \in {"sector", "entry"} /\ Fail /\ disk' = disk /\ cache' = cache BY <2>1, <2>6 DEF ReadFails
    <3>2. ~run.validating BY <1>10, <3>1 DEF Replay
    <3>3. step' = "off" BY <3>1, <3>2 DEF Fail
    <3>4. Replay(h, j)' \/ Idle(h)' BY <1>1, <1>10, <3>1, <3>3, ReplayOff
    <3> QED BY <3>4 DEF Phase
  <2>7. CASE HitLimit
    <3>1. step' = "off" /\ disk' = disk /\ cache' = cache BY <2>7 DEF HitLimit
    <3>2. Replay(h, j)' \/ Idle(h)' BY <1>1, <1>10, <3>1, ReplayOff
    <3> QED BY <3>2 DEF Phase
  <2>8. CASE PowerCut
    <3>1. Replay(h, j)' \/ Idle(h)' BY <1>10, <2>8, ReplayCut
    <3> QED BY <3>1 DEF Phase
  <2> QED BY <2>1, <2>2, <2>3, <2>4, <2>5, <2>6, <2>7, <2>8 DEF RestoreStep, SaveSync, Copy, Flush, RollForward
<1>11. ASSUME NEW j \in 1..h.n, NEW k \in 1..h.n, Saving(h, j, k) PROVE Phase(h)'
  <2>1. SaveSync \/ PowerCut
    BY <1>11 DEF Saving, RestoreStep, cp_restoreCheckpoint, ReadSector, ReadEntry, SavePartial,
                 Copy, Flush, RollForward, ReadFails, HitLimit
  <2>2. Copying(h, k)' \/ Replay(h, j)' \/ Replay(h, k)' \/ Idle(h)' BY <1>11, <2>1, SavingGoes
  <2> QED BY <2>2 DEF Phase
<1>12. ASSUME NEW k \in 1..h.n, Copying(h, k) PROVE Phase(h)'
  <2>1. Copy \/ PowerCut
    BY <1>12 DEF Copying, RestoreStep, cp_restoreCheckpoint, ReadSector, ReadEntry, SavePartial,
                 SaveSync, Flush, RollForward, ReadFails, HitLimit
  <2>2. Replay(h, k)' \/ Flushing(h, k)' BY <1>12, <2>1, CopyingGoes
  <2> QED BY <2>2 DEF Phase
<1>13. ASSUME NEW k \in 1..h.n, Flushing(h, k) PROVE Phase(h)'
  <2>1. Flush \/ PowerCut
    BY <1>13 DEF Flushing, RestoreStep, cp_restoreCheckpoint, ReadSector, ReadEntry, SavePartial,
                 SaveSync, Copy, RollForward, ReadFails, HitLimit
  <2>2. Replay(h, k)' \/ Restored(h)' \/ (k - 1 \in 1..h.n /\ Replay(h, k - 1)') BY <1>13, <2>1, FlushingGoes
  <2> QED BY <2>2 DEF Phase
<1>14. ~Active(h) BY DEF Active
<1> QED BY <1>2, <1>4, <1>5, <1>6, <1>7, <1>8, <1>9, <1>10, <1>11, <1>12, <1>13, <1>14 DEF Phase

\* The history of the log, the phase that the device is in, and what holds beside.
RestoreInv == BowInv /\ Tame /\ \E h : Hist(h) /\ Roles(h) /\ Phase(h)

\* The invariant holds when the checkpoint starts, ...
LEMMA RestoreInvInit ==
  ASSUME RestoreInit PROVE RestoreInv
<1>1. BowInv BY InitLogs
<1>2. Tame BY DEF RestoreInit, Tame
<1>3. \E h : Hist(h) /\ Roles(h) /\ Phase(h) BY InitActive DEF Phase
<1> QED BY <1>1, <1>2, <1>3 DEF RestoreInv

\* ... and every step preserves it.
LEMMA RestoreInvStep ==
  ASSUME RestoreInv, [RestoreNext]_restoreVars PROVE RestoreInv'
<1>1. BowInv /\ Tame BY DEF RestoreInv
<1>2. BowInv' /\ Tame' BY <1>1, BowStep, TameStep
<1>3. PICK h : Hist(h) /\ Roles(h) /\ Phase(h) BY DEF RestoreInv
<1>4. step = "bow" => Active(h)
  BY <1>3 DEF Phase, Idle, Forward, Rolled, Kept, Restored, Check, Replay, Copying, Flushing, Saving
<1>5. (\E g : Hist(g) /\ Roles(g) /\ Phase(g))'
  <2>1. ASSUME NEW b \in Blocks, NEW d \in Blocks, NEW n \in 1..MaxRange, BowBackup(b, n, d)
        PROVE  \E g : Hist(g) /\ (Roles(g) /\ Active(g))'
    <3>1. Active(h) BY <1>4, <2>1 DEF BowBackup
    <3> QED BY <1>1, <1>3, <2>1, <3>1, BackupActive
  <2>2. ASSUME NEW b \in Blocks, BowRoll(b) PROVE \E g : Hist(g) /\ (Roles(g) /\ Active(g))'
    <3>1. Active(h) BY <1>4, <2>2 DEF BowRoll
    <3> QED BY <1>1, <1>3, <2>2, <3>1, RollActive
  <2>3. ASSUME NEW b \in Blocks, BowWrite(b) PROVE \E g : Hist(g) /\ (Roles(g) /\ Active(g))'
    <3>1. Active(h) BY <1>4, <2>3 DEF BowWrite
    <3> QED BY <1>1, <1>3, <2>3, <3>1, WriteActive
  <2>4. ASSUME NEW damaged \in SUBSET Blocks, BowEnd(damaged) PROVE \E g : Hist(g) /\ (Roles(g) /\ Idle(g))'
    <3>1. Active(h) BY <1>4, <2>4 DEF BowEnd
    <3> QED BY <1>1, <1>3, <2>4, <3>1, EndIdle
  <2>5. CASE RestoreStep \/ ReadFails \/ HitLimit \/ PowerCut
    <3>1. step # "bow"
      BY <2>5 DEF RestoreStep, cp_restoreCheckpoint, ReadSector, ReadEntry, SavePartial, SaveSync, Copy,
                  Flush, RollForward, ReadFails, HitLimit, PowerCut
    <3>2. Roles(h)' /\ Phase(h)' BY <1>1, <1>3, <2>5, <3>1, PhaseStep
    <3> QED BY <1>3, <3>2 DEF Hist
  <2>6. CASE UNCHANGED restoreVars
    <3>1. Roles(h)' BY <1>3, <2>6 DEF Roles, restoreVars
    <3>2. Phase(h)'
      <4>1. /\ disk' = disk /\ cache' = cache /\ step' = step /\ run' = run /\ role' = role
            /\ zero' = zero /\ rotten' = rotten /\ faults' = faults /\ UNCHANGED bow
        BY <2>6 DEF restoreVars, bow
      <4>2. Untouched(h) => Untouched(h)' BY <4>1, StillUntouched
      <4>3. Active(h) => Active(h)' BY <4>1, <4>2 DEF Active, Good
      <4>4. Idle(h) \/ Forward(h) \/ Rolled(h) => (Idle(h) \/ Forward(h) \/ Rolled(h))'
        BY <4>1, <4>2 DEF Idle, Forward, Rolled, Excused
      <4>5. Kept => Kept' BY <4>1 DEF Kept, NewImage, Excused
      <4>6. Restored(h) => Restored(h)' BY <4>1 DEF Restored, Back
      <4>7. \A j : RunAt(h, j) => RunAt(h, j)' BY <4>1 DEF RunAt
      <4>8. \A j : Check(h, j) => Check(h, j)' BY <4>1, <4>2, <4>7 DEF Check
      <4>9. \A j : Medium(h, j) => Medium(h, j)' BY <4>1 DEF Medium, LogAt, Back
      <4>10. \A j : BufferAt(h, j) => BufferAt(h, j)' BY <4>1 DEF BufferAt
      <4>11. \A j : ReplayAt(h, j) => ReplayAt(h, j)' BY <4>1, <4>7, <4>10 DEF ReplayAt, Back, Now
      <4>12. \A j : Replay(h, j) => Replay(h, j)' BY <4>1, <4>2, <4>9, <4>11 DEF Replay
      <4>13. \A j : Copying(h, j) => Copying(h, j)' BY <4>1, <4>7, <4>9, <4>10 DEF Copying
      <4>14. \A j : Flushing(h, j) => Flushing(h, j)' BY <4>1, <4>9 DEF Flushing, Begins, LogAt
      <4>15. \A j, k : Saving(h, j, k) => Saving(h, j, k)'
        BY <4>1, <4>2, <4>7, <4>9, <4>10 DEF Saving, Begun, Back, LogAt
      <4> QED BY <1>3, <4>3, <4>4, <4>5, <4>6, <4>8, <4>12, <4>13, <4>14, <4>15 DEF Phase
    <3> QED BY <1>3, <3>1, <3>2 DEF Hist
  <2>7. ASSUME NEW g, Hist(g), Active(g)' \/ Idle(g)' PROVE Phase(g)' BY <2>7 DEF Phase
  <2>8. CASE \E g : Hist(g) /\ Roles(g)' /\ (Active(g)' \/ Idle(g)')
    BY <2>7, <2>8
  <2> QED BY <2>1, <2>2, <2>3, <2>4, <2>5, <2>6, <2>8 DEF RestoreNext
<1> QED BY <1>2, <1>5 DEF RestoreInv

\* A restore of a dm-bow device that returns for good leaves the old file system on the medium or, only
\* if a saved block was damaged or a fault came, the new one: whatever the length of the log and the
\* size of the device, and however many power cuts, failed reads and limits come between its steps.
THEOREM AlwaysAllOrNothing ==
  RestoreSpec => []AllOrNothing
<1>1. RestoreInit => RestoreInv BY RestoreInvInit
<1>2. RestoreInv /\ [RestoreNext]_restoreVars => RestoreInv' BY RestoreInvStep
<1>3. RestoreInv => AllOrNothing
  <2> SUFFICES ASSUME RestoreInv, step = "settled"
               PROVE  \/ OldImage(disk) /\ cache = NoWrites
                      \/ (rotten \/ faults > 0) /\ NewImage(Now)
    BY DEF AllOrNothing
  <2>1. PICK h : Hist(h) /\ Roles(h) /\ Phase(h) BY DEF RestoreInv
  <2>2. Contents BY DEF RestoreInv, BowInv
  <2>3. Restored(h) \/ Rolled(h) \/ Kept
    BY <2>1 DEF Phase, Active, Idle, Forward, Check, Replay, Copying, Flushing, Saving
  <2>4. CASE Restored(h)
    <3>1. h.need[0] = InUse BY <2>1 DEF Hist
    <3>2. OldImage(disk) BY <2>4, <3>1 DEF Restored, Back, OldImage
    <3> QED BY <2>4, <3>2 DEF Restored
  <2>5. CASE Rolled(h)
    <3>1. Untouched(h) /\ DOMAIN cache = {0} /\ cache[0] = disk[disk[0].sector0] /\ Excused BY <2>5 DEF Rolled
    <3>2. Now[0] = disk[disk[0].sector0] /\ \A b \in Blocks : b # 0 => Now[b] = disk[b]
      BY <3>1, BlocksAre DEF Now
    <3>3. NewImage(Now) BY <2>1, <3>1, <3>2, RolledIs
    <3> QED BY <3>1, <3>3 DEF Excused
  <2>6. CASE Kept
    <3>1. Now = disk BY <2>2, <2>6, NowIs DEF Kept
    <3> QED BY <2>6, <3>1 DEF Kept, Excused
  <2> QED BY <2>3, <2>4, <2>5, <2>6
<1> QED BY <1>1, <1>2, <1>3, PTL DEF RestoreSpec

\* What the atomic specification sees of a device.
View == [b \in Blocks |->
           IF IsLog(disk[0])
           THEN IF (b = 0 /\ zero) \/ role[b] = "changed" THEN "new" ELSE "old"
           ELSE CASE disk[b] = Old(b) -> "old" [] disk[b] = New(b) -> "new" [] OTHER -> "lost"]
Settled == ~IsLog(disk[0])

\* The actions of the atomic specification, in terms of the view.
LEMMA AtomicIs ==
  /\ Atomic!Init <=> View = [b \in Blocks |-> "old"] /\ Settled = FALSE
  /\ \A S : Atomic!Write(S) <=> /\ ~Settled /\ Settled' = FALSE
                                /\ View' = [b \in Blocks |-> IF b \in S THEN "new" ELSE View[b]]
  /\ Atomic!Settle <=> /\ ~Settled /\ Settled' = TRUE
                       /\ View' \in [Blocks -> {"old", "new", "lost"}]
                       /\ \/ \A b \in InUse : View'[b] = "old"
                          \/ \A b \in Blocks : b \in InUse \/ View[b] = "new" => View'[b] = View[b]
<1>1. Atomic!Init <=> View = [b \in Blocks |-> "old"] /\ Settled = FALSE
  BY DEF Atomic!Init, View, Settled
<1>2. ASSUME NEW S PROVE Atomic!Write(S) <=> /\ ~Settled /\ Settled' = FALSE
                                /\ View' = [b \in Blocks |-> IF b \in S THEN "new" ELSE View[b]]
  BY DEF Atomic!Write, View, Settled
<1>3. Atomic!Settle <=> /\ ~Settled /\ Settled' = TRUE
                       /\ View' \in [Blocks -> {"old", "new", "lost"}]
                       /\ \/ \A b \in InUse : View'[b] = "old"
                          \/ \A b \in Blocks : b \in InUse \/ View[b] = "new" => View'[b] = View[b]
  BY DEF Atomic!Settle, Atomic!GoBack, Atomic!Keep, View, Settled
<1> QED BY <1>1, <1>2, <1>3

\* A device that is settled has the old data or the new, and one that is not has a log.
LEMMA SettledIs ==
  ASSUME RestoreInv, Settled
  PROVE  /\ Kept \/ \E h : Hist(h) /\ Restored(h)
         /\ DOMAIN cache = {} /\ step \in {"off", "sector", "settled"}
<1>1. PICK h : Hist(h) /\ Roles(h) /\ Phase(h) BY DEF RestoreInv
<1>2. ~Untouched(h) BY <1>1, UntouchedIs DEF Settled, IsLog
<1>3. ~Active(h) /\ ~Idle(h) /\ ~Forward(h) /\ ~Rolled(h) /\ \A j : ~Check(h, j)
  BY <1>2 DEF Active, Idle, Forward, Rolled, Check
<1>4. \A j : ~Medium(h, j) BY DEF Medium, Settled
<1>5. \A j, k : ~Replay(h, j) /\ ~Copying(h, j) /\ ~Flushing(h, j) /\ ~Saving(h, j, k)
  BY <1>4 DEF Replay, Copying, Flushing, Saving
<1>6. Kept \/ Restored(h) BY <1>1, <1>3, <1>5 DEF Phase
<1> QED BY <1>1, <1>6 DEF Kept, Restored, NoWrites

\* With the old data every block in use is seen as it was, ...
LEMMA RestoredView ==
  ASSUME NEW h, Hist(h), Restored(h)
  PROVE  \A b \in InUse : View[b] = "old"
<1>1. disk[0] = Old(0) /\ Back(h, disk, 0) /\ h.need[0] = InUse BY DEF Restored, Hist
<1>2. ~IsLog(disk[0]) BY <1>1 DEF IsLog, Old
<1>3. ASSUME NEW b \in InUse PROVE View[b] = "old"
  <2>1. b \in Blocks BY BowRestoreAssumption
  <2>2. disk[b] = Old(b) BY <1>1 DEF Back
  <2>3. View[b] = CASE disk[b] = Old(b) -> "old" [] disk[b] = New(b) -> "new" [] OTHER -> "lost"
    BY <1>2, <2>1 DEF View
  <2>4. Old(b) # New(b) BY DEF Old, New
  <2> QED BY ONLY <2>2, <2>3, <2>4
<1> QED BY <1>3

\* ... and with the new data as it was written.
LEMMA KeptView ==
  ASSUME Kept
  PROVE  \A b \in InUse \cup {x \in Blocks : role[x] = "changed"} :
           View[b] = IF (b = 0 /\ zero) \/ role[b] = "changed" THEN "new" ELSE "old"
<1>1. ~IsLog(disk[0]) /\ NewImage(disk) BY DEF Kept
<1>2. ASSUME NEW b \in InUse \cup {x \in Blocks : role[x] = "changed"}
      PROVE  View[b] = IF (b = 0 /\ zero) \/ role[b] = "changed" THEN "new" ELSE "old"
  <2>1. b \in Blocks BY BowRestoreAssumption
  <2>2. View[b] = CASE disk[b] = Old(b) -> "old" [] disk[b] = New(b) -> "new" [] OTHER -> "lost"
    BY <1>1, <2>1 DEF View
  <2>3. Old(b) # New(b) BY DEF Old, New
  <2>4. disk[b] = IF (b = 0 /\ zero) \/ role[b] = "changed" THEN New(b) ELSE Old(b) BY <1>1 DEF NewImage
  <2>5. CASE (b = 0 /\ zero) \/ role[b] = "changed"
    <3>1. disk[b] = New(b) BY <2>4, <2>5
    <3>2. View[b] = "new" BY ONLY <2>2, <2>3, <3>1
    <3> QED BY <2>5, <3>2
  <2>6. CASE ~((b = 0 /\ zero) \/ role[b] = "changed")
    <3>1. disk[b] = Old(b) BY <2>4, <2>6
    <3>2. View[b] = "old" BY ONLY <2>2, <2>3, <3>1
    <3> QED BY <2>6, <3>2
  <2> QED BY <2>5, <2>6
<1> QED BY <1>2

\* The view of a device that is settled.
SettledView ==
  Settled => \/ \A b \in InUse : View[b] = "old"
             \/ \A b \in InUse \cup {x \in Blocks : role[x] = "changed"} :
                  View[b] = IF (b = 0 /\ zero) \/ role[b] = "changed" THEN "new" ELSE "old"

\* The invariant implies it: a settled device has the old data, or the new.
LEMMA SettledViewHolds ==
  ASSUME RestoreInv PROVE SettledView
<1> SUFFICES ASSUME Settled
             PROVE  \/ \A b \in InUse : View[b] = "old"
                    \/ \A b \in InUse \cup {x \in Blocks : role[x] = "changed"} :
                         View[b] = IF (b = 0 /\ zero) \/ role[b] = "changed" THEN "new" ELSE "old"
  BY DEF SettledView
<1>1. Kept \/ \E h : Hist(h) /\ Restored(h) BY SettledIs
<1>2. CASE Kept BY <1>2, KeptView
<1>3. CASE \E h : Hist(h) /\ Restored(h)
  <2>1. PICK h : Hist(h) /\ Restored(h) BY <1>3
  <2>2. \A b \in InUse : View[b] = "old" BY <2>1, RestoredView
  <2> QED BY <2>2
<1> QED BY <1>1, <1>2, <1>3

\* Under the checkpoint the view only changes as blocks are written.
LEMMA BowView ==
  ASSUME RestoreInv, step = "bow", RestoreNext
  PROVE  ~Settled /\ ~Settled' /\ \A b \in Blocks : View[b] = "new" => View'[b] = "new"
<1>1. BowInv /\ BowInv' BY RestoreInvStep DEF RestoreInv
<1>2. IsLog(disk[0]) BY <1>1, SectorIs DEF BowInv, Logging
<1>3. \A b \in Blocks : View[b] = IF (b = 0 /\ zero) \/ role[b] = "changed" THEN "new" ELSE "old"
  BY <1>2 DEF View
<1>4. role = [b \in Blocks |-> role[b]] /\ disk = [b \in Blocks |-> disk[b]] /\ role[0] = "log" /\ 0 \in Blocks
  BY <1>1, BlocksAre DEF BowInv, Logging, Contents
<1>5. CASE step' = "bow" /\ (zero => zero') /\ \A b \in Blocks : role[b] = "changed" => role'[b] = "changed"
  <2>1. IsLog(disk'[0]) BY <1>1, <1>5, SectorIs DEF BowInv, Logging
  <2>2. \A b \in Blocks : View'[b] = IF (b = 0 /\ zero') \/ role'[b] = "changed" THEN "new" ELSE "old"
    BY <2>1 DEF View
  <2> QED BY <1>2, <1>3, <1>5, <2>1, <2>2 DEF Settled
<1>6. ASSUME NEW b \in Blocks, NEW d \in Blocks, NEW n \in 1..MaxRange, BowBackup(b, n, d)
      PROVE  step' = "bow" /\ (zero => zero') /\ \A x \in Blocks : role[x] = "changed" => role'[x] = "changed"
  <2>1. /\ step' = "bow" /\ zero' = zero /\ \A x \in Part(d, n) : role[x] = "free"
        /\ role' = [x \in Blocks |-> IF x \in Part(d, n) THEN "backup"
                                     ELSE IF x \in Part(b, n) THEN "changed" ELSE role[x]]
    BY <1>6 DEF BowBackup, AllIn
  <2> QED BY <2>1
<1>7. ASSUME NEW f \in Blocks, BowRoll(f)
      PROVE  step' = "bow" /\ (zero => zero') /\ \A x \in Blocks : role[x] = "changed" => role'[x] = "changed"
  BY <1>4, <1>7 DEF BowRoll
<1>8. ASSUME NEW b \in Blocks, BowWrite(b)
      PROVE  step' = "bow" /\ (zero => zero') /\ \A x \in Blocks : role[x] = "changed" => role'[x] = "changed"
  BY <1>4, <1>8 DEF BowWrite
<1>9. ASSUME NEW damaged \in SUBSET Blocks, BowEnd(damaged)
      PROVE  ~Settled /\ ~Settled' /\ \A b \in Blocks : View[b] = "new" => View'[b] = "new"
  <2>1. /\ role' = role /\ zero' = zero /\ (\A b \in damaged : role[b] = "backup")
        /\ \A b \in Blocks : disk'[b] = IF b \in damaged THEN Rubbish ELSE disk[b]
    BY <1>9 DEF BowEnd
  <2>2. disk'[0] = disk[0] BY <1>4, <2>1
  <2>3. \A b \in Blocks : View'[b] = IF (b = 0 /\ zero') \/ role'[b] = "changed" THEN "new" ELSE "old"
    BY <1>2, <2>2 DEF View
  <2> QED BY <1>2, <1>3, <2>1, <2>2, <2>3 DEF Settled
<1>10. ~RestoreStep /\ ~ReadFails /\ ~HitLimit /\ ~PowerCut
  BY DEF RestoreStep, cp_restoreCheckpoint, ReadSector, ReadEntry, SavePartial, SaveSync, Copy,
         Flush, RollForward, ReadFails, HitLimit, PowerCut
<1> QED BY <1>5, <1>6, <1>7, <1>8, <1>9, <1>10 DEF RestoreNext

\* Every step of the restores is one of the atomic specification, or none.
LEMMA AtomicStep ==
  ASSUME RestoreInv, SettledView', [RestoreNext]_restoreVars
  PROVE  Atomic!Next \/ (View' = View /\ Settled' = Settled)
<1>1. RestoreInv' BY RestoreInvStep
<1>2. /\ Settled \in BOOLEAN /\ Settled' \in BOOLEAN
      /\ View = [b \in Blocks |-> View[b]] /\ View' = [b \in Blocks |-> View'[b]]
      /\ \A b \in Blocks : View[b] \in {"old", "new", "lost"} /\ View'[b] \in {"old", "new", "lost"}
  BY DEF View, Settled
<1>3. CASE UNCHANGED restoreVars BY <1>3 DEF View, Settled, restoreVars
<1>4. CASE RestoreNext /\ step = "bow"
  <2>1. /\ ~Settled /\ ~Settled' /\ \A b \in Blocks : View[b] = "new" => View'[b] = "new"
        BY <1>4, BowView
  <2>2. \A b \in Blocks : View'[b] \in {"old", "new"} /\ View[b] \in {"old", "new"}
    BY <2>1 DEF View, Settled
  <2>3. PICK S : S = {b \in Blocks : View'[b] = "new"} OBVIOUS
  <2>4. \A b \in Blocks : View'[b] = IF b \in S THEN "new" ELSE View[b] BY <2>1, <2>2, <2>3
  <2>5. View' = [b \in Blocks |-> IF b \in S THEN "new" ELSE View[b]] BY <1>2, <2>4
  <2>6. Settled' = FALSE BY <1>2, <2>1
  <2>7. Atomic!Write(S) BY <2>1, <2>5, <2>6, AtomicIs
  <2> QED BY <2>3, <2>7 DEF Atomic!Next
<1>5. CASE RestoreNext /\ step # "bow"
  <2>1. RestoreStep \/ ReadFails \/ HitLimit \/ PowerCut
    BY <1>5 DEF RestoreNext, BowBackup, BowRoll, BowWrite, BowEnd
  <2>2. role' = role /\ zero' = zero
    BY <2>1 DEF RestoreStep, cp_restoreCheckpoint, ReadSector, ReadEntry, SavePartial, SaveSync, Copy, Flush,
                RollForward, ReadFails, HitLimit, PowerCut, bow
  <2>3. CASE ~Settled /\ ~Settled' BY <2>2, <2>3 DEF View, Settled
  <2>4. CASE Settled
    <3>1. DOMAIN cache = {} /\ step \in {"off", "sector", "settled"} BY <2>4, SettledIs
    <3>2. disk' = disk
      <4>1. CASE PowerCut BY <3>1, <4>1, CutIs DEF RestoreInv, BowInv
      <4>2. CASE ~PowerCut
        BY <2>1, <3>1, <4>2 DEF RestoreStep, cp_restoreCheckpoint, ReadSector, ReadEntry, SavePartial, SaveSync,
                                Copy, Flush, RollForward, ReadFails, HitLimit
      <4> QED BY <4>1, <4>2
    <3> QED BY <2>2, <3>2 DEF View, Settled
  <2>5. CASE ~Settled /\ Settled'
    <3>1. ASSUME \A b \in InUse \cup {x \in Blocks : role'[x] = "changed"} :
                   View'[b] = IF (b = 0 /\ zero') \/ role'[b] = "changed" THEN "new" ELSE "old",
                 NEW c \in Blocks, c \in InUse \/ View[c] = "new"
          PROVE  View'[c] = View[c]
      <4>1. View[c] = IF (c = 0 /\ zero) \/ role[c] = "changed" THEN "new" ELSE "old"
        BY <2>5 DEF View, Settled
      <4>2. c \in InUse \cup {x \in Blocks : role'[x] = "changed"}
        BY <2>2, <3>1, <4>1, BowRestoreAssumption
      <4>3. View'[c] = IF (c = 0 /\ zero) \/ role[c] = "changed" THEN "new" ELSE "old"
        BY <2>2, <3>1, <4>2
      <4> QED BY <4>1, <4>3
    <3>2. (\A b \in InUse : View'[b] = "old")
          \/ \A b \in Blocks : b \in InUse \/ View[b] = "new" => View'[b] = View[b]
      BY <2>5, <3>1 DEF SettledView
    <3>3. View' \in [Blocks -> {"old", "new", "lost"}] BY <1>2
    <3>4. Settled' = TRUE BY <1>2, <2>5
    <3>5. Atomic!Settle BY <2>5, <3>2, <3>3, <3>4, AtomicIs
    <3> QED BY <3>5 DEF Atomic!Next
  <2> QED BY <2>3, <2>4, <2>5
<1> QED BY <1>3, <1>4, <1>5

\* Restores with power cuts between their steps implement the specification in which the device settles
\* in one step, with all blocks that were in use as they were or all of them as they were written.
THEOREM RestoresAreAtomic ==
  RestoreSpec => AtomicSpec
<1>1. RestoreInit => RestoreInv /\ Atomic!Init
  <2> SUFFICES ASSUME RestoreInit PROVE Atomic!Init BY RestoreInvInit
  <2>1. RestoreInv /\ step = "bow" BY RestoreInvInit DEF RestoreInit
  <2>2. IsLog(disk[0]) BY <2>1, SectorIs DEF RestoreInv, BowInv, Logging
  <2>3. zero = FALSE /\ \A b \in Blocks : role[b] # "changed" BY DEF RestoreInit
  <2>4. View = [b \in Blocks |-> "old"] /\ Settled = FALSE BY <2>2, <2>3 DEF View, Settled
  <2> QED BY <2>4, AtomicIs
<1>2. RestoreInv /\ [RestoreNext]_restoreVars => RestoreInv' BY RestoreInvStep
<1>3. RestoreInv => SettledView BY SettledViewHolds
<1>4. RestoreInv /\ SettledView' /\ [RestoreNext]_restoreVars => [Atomic!Next]_<<View, Settled>>
  BY AtomicStep
<1>5. AtomicSpec <=> Atomic!Init /\ [][Atomic!Next]_<<View, Settled>>
  BY DEF AtomicSpec, Atomic!Spec, View, Settled
<1> QED BY <1>1, <1>2, <1>3, <1>4, <1>5, PTL DEF RestoreSpec
=============================================================================
