------------------------------ MODULE Mounting ------------------------------
(***************************************************************************)
(* How each kind of volume is mounted, unmounted and formatted: the mount  *)
(* table, the processes that keep mounts busy, and the mounts in the       *)
(* namespaces of apps.  A public volume, a private one, an OBB image, and  *)
(* the primary emulated volumes of two users, of which the second, a clone *)
(* profile, shares the storage of the first.                               *)
(*                                                                         *)
(* mLock is held through every call, so that a call is one step.  A call   *)
(* goes through its steps in the order of the code up to one that fails,   *)
(* and leaves through the code's clean-up at that step.  A mount point     *)
(* stands for one path; the four paths of sdcardfs, which come and go      *)
(* together, are one.                                                      *)
(***************************************************************************)
EXTENDS Naturals, Sequences, FiniteSets, SequencesExt

CONSTANTS
  Procs,        \* processes that may open files on volumes
  FuseDaemon,   \* the one that is MediaProvider (IsFuseDaemon)
  Nerve,        \* Nerve[p]: which of SIGINT, SIGTERM and SIGKILL is the first to end p (4: none)
  Devices,      \* kinds of devices: sets of "sdcardfs", "isolation", "bpf"
  Layouts,      \* sets of volumes that are there together
  Supported,    \* of "vfat" and "exfat", those with their tools
  MaxFaults     \* bound: system calls and programs that fail

ASSUME MountingAssumption ==
  /\ FuseDaemon \in Procs /\ Nerve \in [Procs -> 1..4]
  /\ \A d \in Devices : d \subseteq {"sdcardfs", "isolation", "bpf"}
  /\ \A l \in Layouts : l \subseteq {"owner", "clone", "public", "private", "obb"}
  /\ Supported \subseteq {"vfat", "exfat"} /\ MaxFaults \in Nat

Users == {"owner", "clone"}
Volumes == Users \cup {"public", "private", "obb"}
Devs == {"public", "private"}         \* volumes with a block device to format

VARIABLES
  dev,       \* what this device uses (IsSdcardfsUsed, app data isolation, FUSE BPF)
  present,   \* the volumes there are
  state,     \* mState
  primary,   \* mounted volumes with the flag kPrimary
  fuse,      \* volumes with mFuseMounted
  shared,    \* volumes with an mSharedStorageMountPath
  mounts,    \* mounts[p]: the mounts stacked on mount point p
  pinned,    \* volumes that a process nothing ends keeps busy
  views,     \* views[p]: tmpfs mounts on Android/data and Android/obb in p's namespace
  fs,        \* fs[v]: the file system on the device
  (* history *)
  hot,       \* volumes checked or formatted by the last call although mounted
  leaky,     \* volumes some known failure has left mounts of
  faults

device == <<dev, present>>
vars == <<device, state, primary, fuse, shared, mounts, pinned, views, fs, hot, leaky, faults>>

-----------------------------------------------------------------------------
(* Mount points *)

Raw(v) == <<"raw", v>>               \* /mnt/media_rw/X, /mnt/expand/X, /mnt/obb/X
Asec == <<"asec", "public">>         \* /mnt/secure/asec
SdcardFs(v) == <<"sdcardfs", v>>     \* /mnt/runtime/*/X; the owner's stands for "emulated"
Fuse(v) == <<"fuse", v>>             \* /mnt/user/U/X
PassThrough(v) == <<"pass", v>>      \* /mnt/pass_through/U/X
Bind(dir, u) == <<dir, u>>           \* Android/data and Android/obb in /mnt/user/U/emulated/U,
                                     \* and Android/obb below /mnt/installer
Shared(u) == <<"shared", u>>         \* the other user's directory in /mnt/user/U/emulated

Dirs == {"data", "obb", "installer"}

PointsOf(v) ==
  CASE v = "public" -> {Raw(v), Asec, SdcardFs(v), Fuse(v), PassThrough(v)}
    [] v = "owner" -> {SdcardFs(v), Fuse(v), PassThrough(v), Shared(v)} \cup (Dirs \X {v})
    [] v = "clone" -> {Fuse(v), PassThrough(v), Shared(v)} \cup (Dirs \X {v})
    [] OTHER -> {Raw(v)}

Points == UNION {PointsOf(v) : v \in Volumes}

-----------------------------------------------------------------------------
(* Processes *)

\* Those of S that are still there after a signal, if the FUSE daemon is spared or not.
KillProcessesWithOpenFiles(S, signal, killFuseDaemon) ==
  {p \in S : Nerve[p] > signal \/ (p = FuseDaemon /\ ~killFuseDaemon)}

\* Every round stops if it finds nobody; only the last one looks at the FUSE daemon.
KillProcessesUsingPath(S) ==
  LET Found(T) == T \ {FuseDaemon}
      Round(T, signal) == IF Found(T) = {} THEN T
                          ELSE KillProcessesWithOpenFiles(T, signal, FALSE)
      third == Round(Round(S, 1), 2)
  IN IF Found(third) = {} THEN third
     ELSE KillProcessesWithOpenFiles(Round(third, 3), 3, TRUE)

\* ForceUnmount tries again after each signal: who still pins the mount at the end.
ForceKilled(S) ==
  FoldLeft(LAMBDA T, i : KillProcessesWithOpenFiles(T, i, TRUE), S, <<1, 2, 3>>)

\* Mutant of KillProcessesWithTmpfsMounts: only the first signal is sent.
KillProcessesOnce == {p \in Procs : "obb" \in views[p] /\ Nerve[p] <= 1}

\* The processes of the owner's apps that have a tmpfs on Android/obb get all signals.
KillProcessesWithTmpfsMounts == {p \in Procs : "obb" \in views[p] /\ Nerve[p] <= 3}

\* Processes P end.
Ended(P) == views' = [p \in Procs |-> IF p \in P THEN {} ELSE views[p]]

-----------------------------------------------------------------------------
(* Mounting and unmounting *)

Mounted(m, S) == [p \in Points |-> IF p \in S THEN m[p] + 1 ELSE m[p]]
Unmounted(m, S) == [p \in Points |-> IF p \in S /\ m[p] > 0 THEN m[p] - 1 ELSE m[p]]

\* UnmountTree, and UnmountUserFuse for the FUSE mount, detach; ForceUnmount fails while
\* somebody pins the mount.
Detaches(p) == p[1] \notin {"raw", "asec", "sdcardfs", "pass"}
Freed(S, busy) == {p \in S : Detaches(p) \/ ~busy}

BindMount(m, S) == Mounted(Unmounted(m, S), S)

\* The mounts that BindMount makes; the others are mounted on top of what is there.
Binds == {p \in Points : p[1] \in Dirs \cup {"asec", "pass", "shared"}}
MountAll(m, S) == Mounted(BindMount(m, S \cap Binds), S \ Binds)

\* The steps of doMount in their order, with what each mounts.

\* MountUserFuse, and the answer of the callback onVolumeChecking.
FuseSteps(v) == << <<"fuse", {Fuse(v)}>>, <<"pass", {PassThrough(v)}>>, <<"ready", {}>> >>

SdcardFsSteps(v) == IF "sdcardfs" \in dev THEN << <<"sdcardfs", {SdcardFs(v)}>> >> ELSE <<>>

initAsecStage(fl) == IF "primary" \in fl THEN << <<"asec", {Asec}>> >> ELSE <<>>

\* blkid tells the file system, if there is one.
readMetadata == <<"metadata", {}>>

\* fsck of the file system's kind.  What is not an error lets the mount go on: vfat::Check does
\* not check a modified file system again (the continue leaves the loop) and takes it as good,
\* and ext4::Check is skipped without e2fsck.
Check == <<"check", {}>>

\* A public volume up to the point that ends the mount of an invisible one, and the rest.
PublicRawSteps(fl) ==
  << readMetadata, <<"prepare", {}>>, Check, <<"raw", {Raw("public")}>> >>
  \o initAsecStage(fl)

PublicViewSteps(fl) ==
  IF "visible" \in fl THEN SdcardFsSteps("public") \o FuseSteps("public") ELSE <<>>

PrepareAndroidDirs == << <<"android dirs", {}>> >>

\* A user's storage gets that of the other one.
bindMountVolume(step, u) == <<step, {Shared(u)}>>

\* mountFuseBindMounts
BindSteps(u) ==
  << <<"data", {Bind("data", u)}>>, <<"obb", {Bind("obb", u)}>> >> \o
  (IF "sdcardfs" \in dev THEN << <<"installer", {Bind("installer", u)}>> >> ELSE <<>>) \o
  (IF u = "clone" /\ "owner" \in primary
   THEN << bindMountVolume("share", "owner"), bindMountVolume("share back", "clone") >>
   ELSE <<>>)

EmulatedSteps(u, fl) ==
  << <<"prepare", {}>> >> \o (IF u = "owner" THEN SdcardFsSteps(u) ELSE <<>>) \o
  (IF "visible" \in fl
   THEN PrepareAndroidDirs \o FuseSteps(u) \o (IF "bpf" \in dev THEN <<>> ELSE BindSteps(u))
   ELSE <<>>)

PrivateSteps == << readMetadata, <<"prepare", {}>>, Check,
                   <<"raw", {Raw("private")}>>, <<"common dirs", {}>> >>

ObbSteps == << <<"prepare", {}>>, <<"raw", {Raw("obb")}>> >>

Steps(v, fl) ==
  CASE v = "public" -> PublicRawSteps(fl) \o PublicViewSteps(fl)
    [] v \in Users -> EmulatedSteps(v, fl)
    [] v = "private" -> PrivateSteps [] OTHER -> ObbSteps

Names(steps) == {steps[i][1] : i \in DOMAIN steps}
\* What has been mounted before the step f.
Done(steps, f) ==
  UNION {steps[i][2] : i \in {j \in DOMAIN steps : \A k \in 1..j : steps[k][1] # f}}

\* The failures that end doMount, and what a failure leaves mounted: that initAsecStage fails
\* is ignored.
EndsMount(f) == f \notin {"none", "asec"}
DoneIfFails(steps, f) == IF EndsMount(f) THEN Done(steps, f)
                         ELSE Done(steps, "none") \ (IF f = "asec" THEN {Asec} ELSE {})

\* What doUnmount unmounts of a volume, if mFuseMounted is set or not.
UnmountUserFuse(v) == {Fuse(v), PassThrough(v)}

unmountSdcardFs(v) == IF "sdcardfs" \in dev THEN {SdcardFs(v)} ELSE {}

unmountFuseBindMounts(u) ==
  {Bind("data", u), Bind("obb", u)} \cup (IF u \in shared THEN {Shared(u)} ELSE {})
  \cup (IF dev \cap {"sdcardfs", "isolation"} # {} THEN {Bind("installer", u)} ELSE {})

PublicUnmounts(mFuseMounted) ==
  (IF mFuseMounted THEN UnmountUserFuse("public") ELSE {})
  \cup {Asec, Raw("public")} \cup unmountSdcardFs("public")

EmulatedUnmounts(u, mFuseMounted) ==
  (IF mFuseMounted THEN UnmountUserFuse(u) ELSE {})
  \cup (IF mFuseMounted /\ "bpf" \notin dev THEN unmountFuseBindMounts(u) ELSE {})
  \cup (IF u = "owner" THEN unmountSdcardFs(u) ELSE {})

UnmountedByDoUnmount(v, mFuseMounted) ==
  CASE v = "public" -> PublicUnmounts(mFuseMounted)
    [] v \in Users -> EmulatedUnmounts(v, mFuseMounted)
    [] OTHER -> {Raw(v)}

\* The steps after MountUserFuse, which sets mFuseMounted, and those whose failure resets it.
AfterFuse == {"ready", "share", "share back"} \cup Dirs
ResetsFuse(v, f) == f \in AfterFuse \/ (v = "public" /\ f \in {"fuse", "pass"})

\* Mutant of CleanedUp: the scope guard of sdcardfs is forgotten.
CleanedUpButSdcardFs(v, f, steps) ==
  CASE v = "public" -> IF ResetsFuse(v, f)
                       THEN UnmountedByDoUnmount(v, f \in AfterFuse \/ v \in fuse) ELSE {}
    [] v \in Users -> IF f \in AfterFuse THEN Done(steps, f) \ {SdcardFs(v)} ELSE {}
    [] OTHER -> {}

\* What doMount unmounts when the step f fails: PublicVolume calls doUnmount, of whose
\* mounts FUSE counts only if mFuseMounted is set; EmulatedVolume has scope guards for the
\* bind mounts, for FUSE, once MountUserFuse has succeeded, and for sdcardfs.
CleanedUp(v, f, steps) ==
  CASE v = "public" -> IF ResetsFuse(v, f)
                       THEN UnmountedByDoUnmount(v, f \in AfterFuse \/ v \in fuse) ELSE {}
    [] v \in Users ->
         IF f \in AfterFuse THEN Done(steps, f)
         ELSE IF f \in {"android dirs", "fuse", "pass"} THEN {SdcardFs("owner")} \cap PointsOf(v)
         ELSE {}
    [] OTHER -> {}

\* The failures that leave something mounted, although the volume is not.
KnownLeak(v, f) ==
  \/ v = "public" /\ f \in {"sdcardfs", "pass"}
  \/ v \in Users /\ f \in {"sdcardfs", "pass"}
  \/ v = "private" /\ f = "common dirs"

-----------------------------------------------------------------------------
(* Calls *)

Fault(f) == IF f = "none" THEN faults' = faults
            ELSE faults < MaxFaults /\ faults' = faults + 1

\* That processes outlive SIGKILL (in an uninterruptible wait) is a fault too.
FaultOr(f, still) ==
  IF still = {} THEN Fault(f) ELSE f = "none" /\ Fault("stuck")

\* VoldNativeService::mount, VolumeBase::mount and doMount of each kind.  What the scope guards
\* and doUnmount detach of FUSE after a failed step always goes; and the framework does not ask
\* to mount a volume that is mounted, which would set its flags and user before the EBUSY.
mount(v, fl, f) ==
  LET steps == Steps(v, fl)
      done == DoneIfFails(steps, f)
      failed == EndsMount(f)
      cleaned == IF failed THEN Freed(CleanedUp(v, f, steps), v \in pinned) ELSE {}
      m == Unmounted(MountAll(mounts, done), cleaned)
      checks == v \in Devs /\ "check" \in Names(steps) /\ f \notin {"metadata", "prepare"}
  IN
  /\ state[v] \in {"unmounted", "unmountable"}
  /\ f \in {"none"} \cup Names(steps) /\ Fault(f)
  /\ \A p \in done : mounts[p] < 2
  /\ fs[v] = "none" => f = "metadata"
  /\ primary' = IF ~failed /\ "primary" \in fl THEN primary \cup {v} ELSE primary
  /\ state' = [state EXCEPT ![v] = IF failed THEN "unmountable" ELSE "mounted"]
  /\ mounts' = m
  /\ fuse' = IF failed /\ ResetsFuse(v, f) THEN fuse \ {v}
             ELSE IF ~failed /\ Fuse(v) \in done THEN fuse \cup {v} ELSE fuse
  /\ shared' = shared \cup {u \in Users : Shared(u) \in done}
  /\ hot' = IF checks /\ mounts[Raw(v)] > 0 THEN {v} ELSE {}
  /\ leaky' = IF failed /\ (KnownLeak(v, f) \/ v \in pinned) THEN leaky \cup {v} ELSE leaky
  /\ UNCHANGED <<device, pinned, views, fs>>

\* ext4::Check mounts the file system first; that it cannot unmount it again is ignored, and
\* e2fsck then refuses.
CheckLeavesMounted(v) ==
  /\ fs[v] = "ext4" /\ state[v] \in {"unmounted", "unmountable"}
  /\ faults < MaxFaults /\ faults' = faults + 1
  /\ mounts[Raw(v)] = 0
  /\ mounts' = Mounted(mounts, {Raw(v)})
  /\ state' = [state EXCEPT ![v] = "unmountable"]
  /\ hot' = {v} /\ leaky' = leaky \cup {v}
  /\ UNCHANGED <<device, primary, fuse, shared, pinned, views, fs>>

\* doUnmount of each kind, while the processes S have files open.  The detaching of FUSE
\* may fail, and then the rest stays.
doUnmount(v, S, f) ==
  LET still == ForceKilled(KillProcessesUsingPath(S))
      killed == (S \ still)
                \cup (IF v \in fuse /\ v = "owner" /\ "isolation" \in dev /\ "bpf" \notin dev
                      THEN KillProcessesWithTmpfsMounts ELSE {})
      all == UnmountedByDoUnmount(v, v \in fuse)
      kept == {Fuse(v), PassThrough(v), SdcardFs(v), Asec, Raw(v)}
      m == Unmounted(mounts, Freed(IF f = "detach" THEN all \ kept ELSE all,
                                   still # {} \/ v \in pinned))
  IN
  /\ f = "detach" => v \in fuse
  /\ FaultOr(f, still)
  /\ mounts' = m
  /\ Ended(killed)
  /\ state' = [state EXCEPT ![v] = "unmounted"]
  /\ fuse' = IF f = "detach" THEN fuse ELSE fuse \ {v}
  /\ shared' = IF v \in fuse /\ "bpf" \notin dev THEN shared \ {v} ELSE shared
  /\ primary' = primary \ {v}
  /\ pinned' = IF still # {} THEN pinned \cup {v} ELSE pinned
  /\ leaky' = IF f = "detach" \/ still # {} \/ v \in pinned THEN leaky \cup {v} ELSE leaky

unmount(v, S, f) ==
  /\ state[v] = "mounted"
  /\ doUnmount(v, S, f)
  /\ hot' = {} /\ UNCHANGED <<device, fs>>

\* PublicVolume::doFormat: "none" if the file system is not supported.
PickFs(fsType, big) ==
  IF fsType = "auto" /\ {"vfat", "exfat"} \subseteq Supported
  THEN IF big THEN "exfat" ELSE "vfat"
  ELSE IF fsType = "auto" /\ "exfat" \in Supported THEN "exfat"
  ELSE IF fsType = "auto" /\ "vfat" \in Supported THEN "vfat"
  ELSE IF fsType \in Supported THEN fsType ELSE "none"

\* PrivateVolume::doFormat.
PickPrivateFs(fsType, flash) ==
  IF fsType = "auto" THEN IF flash THEN "f2fs" ELSE "ext4"
  ELSE IF fsType \in {"ext4", "f2fs"} THEN fsType ELSE "none"

\* Nothing is recognised on the device any more; that the wipe fails is only logged.
WipeBlockDevice == "none"

\* What is on the device afterwards: a public one is wiped before all else.
Formatted(v, fsType, big, f) ==
  LET pick == IF v = "public" THEN PickFs(fsType, big) ELSE PickPrivateFs(fsType, big) IN
  IF v = "private" /\ pick = "none" THEN fs[v] ELSE IF f = "mkfs" THEN WipeBlockDevice
  ELSE pick

\* Mutant of FormatFirst: the volume is not unmounted.
FormatNoUnmount(v, S, f) ==
  /\ S = {} /\ Fault(f)
  /\ UNCHANGED <<state, primary, mounts, pinned, views, fuse, shared, leaky>>

\* VolumeBase::format: a mounted volume is unmounted first.
FormatFirst(v, S, f) ==
  \/ state[v] = "mounted" /\ doUnmount(v, S, f)
  \/ /\ state[v] # "mounted" /\ S = {} /\ f # "detach" /\ Fault(f)
     /\ state' = [state EXCEPT ![v] = "unmounted"]
     /\ UNCHANGED <<primary, mounts, pinned, views, fuse, shared, leaky>>

format(v, S, f) ==
  /\ f \in {"none", "mkfs", "detach"}
  /\ FormatFirst(v, S, f)
  /\ \E fsType \in {"auto", "vfat", "ext4"}, big \in BOOLEAN :
       fs' = [fs EXCEPT ![v] = Formatted(v, fsType, big, f)]
  /\ hot' = IF mounts'[Raw(v)] > 0 THEN {v} ELSE {}
  /\ UNCHANGED device

\* VolumeManager::unmountAll, of start(): every volume but OBBs, and then what is mounted below
\* /mnt, but not /mnt/installer, also the mount of an OBB that still counts as mounted, while the processes S have files of the volumes of W open.
unmountAll(S, W) ==
  LET mounted == {v \in Volumes \ {"obb"} : state[v] = "mounted"}
      still == ForceKilled(KillProcessesUsingPath(S))
      stuck == IF still # {} THEN pinned \cup W ELSE pinned
      killed == (S \ still)
                \cup (IF "owner" \in fuse \cap mounted /\ "isolation" \in dev /\ "bpf" \notin dev
                      THEN KillProcessesWithTmpfsMounts ELSE {})
      gone == UNION {Freed(UnmountedByDoUnmount(v, v \in fuse), v \in stuck) : v \in mounted}
      stale == {p \in UNION {PointsOf(v) : v \in Volumes \ stuck} : p[1] # "installer"}
      m == [p \in Points |-> IF p \in stale THEN 0 ELSE Unmounted(mounts, gone)[p]]
  IN
  /\ W = {} <=> S = {}
  /\ FaultOr("none", still)
  /\ mounts' = m
  /\ pinned' = stuck
  /\ Ended(killed)
  /\ state' = [v \in Volumes |-> IF v \in mounted THEN "unmounted" ELSE state[v]]
  /\ fuse' = fuse \ mounted
  /\ shared' = IF "bpf" \in dev THEN shared ELSE shared \ (fuse \cap mounted)
  /\ primary' = {} /\ hot' = {}
  /\ leaky' = {v \in Volumes : \E p \in PointsOf(v) : m[p] > 0}
  /\ UNCHANGED <<device, fs>>

\* In the namespace of an app: both tmpfs are unmounted, or are mounted one after the other,
\* of which the second may fail.  A tmpfs that is there already is covered by another one.
umountStorageDirs == {{}}
remountStorageDirs == {{"data"}, {"data", "obb"}}

\* forkAndRemountStorage for a process of the owner's apps, a failure of which is ignored.
\* The framework asks for it only where app data is isolated.
handleAppStorageDirs(p, got) ==
  /\ "isolation" \in dev /\ state["owner"] = "mounted" /\ "owner" \in fuse
  /\ p # FuseDaemon /\ got \in umountStorageDirs \cup remountStorageDirs
  /\ Fault(IF got = {"data"} THEN "obb" ELSE "none")
  /\ views' = [views EXCEPT ![p] = IF got = {} THEN {} ELSE views[p] \cup got]
  /\ hot' = {}
  /\ UNCHANGED <<device, state, primary, fuse, shared, mounts, pinned, fs, leaky>>

-----------------------------------------------------------------------------
Init ==
  /\ dev \in Devices /\ present \in Layouts
  /\ state = [v \in Volumes |-> "unmounted"]
  /\ primary = {} /\ pinned = {} /\ fuse = {} /\ shared = {}
  /\ hot = {} /\ leaky = {} /\ faults = 0
  /\ mounts = [p \in Points |-> 0]
  /\ views = [p \in Procs |-> {}]
  /\ \E t \in {"vfat", "exfat", "ext4", "f2fs", "ntfs"} :
       /\ "public" \notin present => t = "vfat"
       /\ fs = [v \in Volumes |-> IF v = "public" THEN t ELSE IF v = "private" THEN "f2fs" ELSE "any"]

\* The flags the framework mounts with: a primary emulated volume is visible.
FlagsFor(v) ==
  IF v = "public" THEN SUBSET {"visible", "primary"}
  ELSE IF v \in Users THEN {{}, {"visible", "primary"}} ELSE {{}}

AllSteps == {"metadata", "prepare", "check", "raw", "asec", "sdcardfs",
             "android dirs", "fuse", "pass", "ready", "common dirs", "share", "share back"}
            \cup Dirs

Next ==
  \/ \E v \in present, f \in AllSteps \cup {"none"} : \E fl \in FlagsFor(v) : mount(v, fl, f)
  \/ \E v \in Devs \cap present : CheckLeavesMounted(v)
  \/ \E v \in present, S \in SUBSET Procs, f \in {"none", "detach"} : unmount(v, S, f)
  \/ \E v \in Devs \cap present, S \in SUBSET Procs, f \in {"none", "mkfs", "detach"} : format(v, S, f)
  \/ \E S \in SUBSET Procs, W \in SUBSET {v \in present : state[v] = "mounted"} : unmountAll(S, W)
  \/ \E p \in Procs, got \in SUBSET {"data", "obb"} : handleAppStorageDirs(p, got)

Spec == Init /\ [][Next]_vars

-----------------------------------------------------------------------------
(* Properties *)

\* Every mount point of a volume has one mount at most, and none once the volume is not
\* mounted any more: however far a mount had come, in whatever order users' storage is shared
\* and remounted, unless one of the failures that the code does not clean up has happened.
MountsMatch ==
  \A v \in Volumes \ leaky : \A p \in PointsOf(v) :
    mounts[p] <= IF state[v] = "mounted" THEN 1 ELSE 0

\* A device is checked and formatted only while no file system on it is mounted, except on a
\* volume that one of the known failures (leaky) has left mounted: format goes on after an
\* unmount that failed, and a check of ext4 after a trial mount that stays.
CheckedOffline == hot \subseteq leaky

\* Once the owner's storage is gone, even if some of it could not be unmounted, no app has a
\* tmpfs on its Android/obb any more, except one that cannot be killed or, with FUSE BPF,
\* where apps are not looked for.
NoOrphanedViews ==
  state["owner"] # "mounted" /\ "isolation" \in dev /\ "bpf" \notin dev
  => \A p \in Procs : "obb" \in views[p] => Nerve[p] > 3
=============================================================================
