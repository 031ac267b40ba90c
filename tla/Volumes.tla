------------------------------ MODULE Volumes -------------------------------
(***************************************************************************)
(* VolumeManager and the model classes Disk and VolumeBase: which disks    *)
(* and volumes exist, in which state, and what the framework has been told *)
(* about them, while block events, users, the keyguard, resets and         *)
(* shutdowns come in any order.                                            *)
(*                                                                         *)
(* Every handler holds VolumeManager::mLock from its first line to its     *)
(* last (handleBlockEvent for the netlink thread, ACQUIRE_LOCK for binder  *)
(* calls), so a handler is a step and the states kChecking, kEjecting and  *)
(* kFormatting are not seen between steps.  No guard of the code tells     *)
(* kUnmounted from kUnmountable: a volume is mounted or it is not.         *)
(*                                                                         *)
(* What the scan of a disk finds (sgdisk, the partition types, the key of  *)
(* a private volume, mSkipChange) is a choice among its Tables.            *)
(*                                                                         *)
(* A volume is <<kind, host, user>>: the host is the disk for volumes on a *)
(* disk and for the emulated volumes stacked above its private volume.     *)
(* External: the kernel announces a device once between two removals, and  *)
(* the framework mounts an emulated volume for the user it was told of.    *)
(***************************************************************************)
CONSTANTS
  Devices,       \* block devices that match a disk source, and the virtual disk
  VirtualDisks,  \* the virtual disk (persist.sys.virtual_disk), if there is one
  Tables,        \* Tables[d]: the sets of volumes that a scan of d may find
  Stubs,         \* disks for createStubVolume
  Obbs,          \* images for createObb
  Users, UserZero,
  Boot,          \* not a user: tells the volume of start() from that of user 0
  None           \* no disk, no user

Kinds == {"public", "private"}
Disks == Devices \cup Stubs

OnDisk(k, d) == <<k, d, None>>
Stub(s) == <<"stub", s, None>>
Obb(o) == <<"obb", o, None>>
Emulated(host, u) == <<"emulated", host, u>>

DiskVolumes == {OnDisk(k, d) : k \in Kinds, d \in Devices}
StubVolumes == {Stub(s) : s \in Stubs}
Stacked == {Emulated(d, u) : d \in Devices, u \in Users}
Internal == {Emulated(None, u) : u \in Users \cup {Boot}}
ObbVolumes == {Obb(o) : o \in Obbs}
Volumes == DiskVolumes \cup StubVolumes \cup Stacked \cup Internal \cup ObbVolumes

ASSUME VolumesAssumption ==
  /\ VirtualDisks \subseteq Devices
  /\ \A d, e \in VirtualDisks : d = e
  /\ Tables \in [Devices -> SUBSET SUBSET Kinds]
  /\ Devices \cap Stubs = {} /\ None \notin Disks /\ Obbs \cap Disks = {}
  /\ UserZero \in Users /\ Boot \notin Users /\ None \notin Users

VARIABLES
  attached,   \* devices the kernel has announced and not withdrawn
  place,      \* place[d]: d is in mDisks ("listed"), in mPendingDisks, or absent
  scanned,    \* disks with mCreated
  virtual,    \* mVirtualDisk is not null
  vols,       \* the volumes in mInternalEmulatedVolumes, mObbVolumes, in the
              \* mVolumes of a disk and in the mVolumes of a private volume
  created,    \* volumes with mCreated
  mounted,    \* volumes in kMounted
  started,    \* mStartedUsers
  keyguard,   \* mSecureKeyguardShowing
  framework,  \* "none", "connected" (setListener), "synced" (and reset)
  (* history *)
  heard,      \* volumes a synced framework has been told of, since that reset
  down,       \* there was a shutdown, and no reset since
  aborted,    \* a CHECK has failed
  clash       \* a volume was added under the id of another

env == <<attached, place, scanned, virtual>>
vars == <<attached, place, scanned, virtual, vols, created, mounted, started, keyguard,
          framework, heard, down, aborted, clash>>

Listed == {d \in Disks : place[d] = "listed"}
Pending == {d \in Disks : place[d] = "pending"}

-----------------------------------------------------------------------------
(* VolumeBase and Disk *)

StackedOn(v) == {w \in vols \cap Stacked : v = OnDisk("private", w[2])}
Above(S) == UNION {StackedOn(v) : v \in S}

\* Mutant of Destroyed: unmount forgets the volumes that are stacked above.
DestroyedAlone(S) == S

\* The volumes that VolumeBase::destroy destroys: a mounted one is unmounted,
\* and unmount destroys what is stacked above it.
Destroyed(S) == S \cup Above(S \cap mounted)

\* mVolumes of the disks in D.
VolumesOf(D) == {v \in vols : v[2] \in D /\ v \notin Stacked}

\* What readPartitions may create on the devices in D.
Scans(D) ==
  {found \in SUBSET {OnDisk(k, d) : k \in Kinds, d \in D \cap Devices} :
     \A d \in D \cap Devices : {k \in Kinds : OnDisk(k, d) \in found} \in Tables[d]}

\* A handler destroys some volumes, drops some from their lists (with what is
\* stacked above), and creates some; it destroys and creates disks.  CHECKs:
\* destroy of what is created, create of what is not, no destructor of what is
\* created, and a stub disk is created with its one volume.
Update(destroyed, dropped, fresh, closed, opened) ==
  LET stubs == {Stub(s) : s \in opened \cap Stubs}
      gone == dropped \cup Above(dropped) IN
  /\ vols' = (vols \ gone) \cup fresh
  /\ created' = (created \ destroyed) \cup fresh \cup stubs
  /\ scanned' = (scanned \ closed) \cup opened
  /\ heard' = IF framework' = "synced" THEN (heard \ destroyed) \cup fresh \cup stubs
                                       ELSE {}
  /\ aborted' = \/ ~(destroyed \subseteq created)
                \/ gone \cap (created \ destroyed) # {}
                \/ ~(closed \subseteq scanned)
                \/ opened \cap (scanned \ closed) # {}
                \/ \E d \in scanned' : place'[d] = "absent"
                \/ ~(stubs \subseteq vols \ gone)
  /\ clash' = (clash \/ fresh \cap (vols \ gone) # {})

-----------------------------------------------------------------------------
(* Disks *)

\* Mutant of Waiting: nobody looks at the keyguard.
WaitingForUser(users) == UserZero \notin users

\* handleDiskAdded and createPendingDisksIfNeeded: disks have to wait.
Waiting(users) == keyguard \/ UserZero \notin users

\* handleDiskAdded, for a device (kAdd).
handleDiskAdded(d) ==
  LET opened == IF Waiting(started) THEN {} ELSE {d} IN
  /\ d \notin attached \cup VirtualDisks
  /\ attached' = attached \cup {d}
  /\ place' = [place EXCEPT ![d] = IF opened = {} THEN "pending" ELSE "listed"]
  /\ UNCHANGED <<framework, virtual, mounted, started, keyguard, down>>
  /\ \E found \in Scans(opened) : Update({}, {}, found, {}, opened)

\* handleDiskChanged: Disk::readPartitions, which may also skip the change; a
\* pending disk is ignored.
handleDiskChanged(d) ==
  LET old == VolumesOf({d}) IN
  /\ place[d] = "listed"
  /\ mounted' = mounted \ Destroyed(old)
  /\ UNCHANGED <<framework, attached, place, virtual, started, keyguard, down>>
  /\ \E found \in Scans({d}) : Update(Destroyed(old), old, found, {}, {})

\* handleDiskRemoved, in both lists.
Remove(D) ==
  LET old == VolumesOf(D \cap Listed) IN
  /\ place' = [d \in Disks |-> IF d \in D THEN "absent" ELSE place[d]]
  /\ mounted' = mounted \ Destroyed(old)
  /\ Update(Destroyed(old), VolumesOf(D), {}, D \cap Listed, {})

handleDiskRemoved(d) ==
  /\ d \in attached
  /\ attached' = attached \ {d}
  /\ UNCHANGED <<framework, virtual, started, keyguard, down>>
  /\ Remove({d})

\* partitionPublic, partitionPrivate, partitionMixed: the volumes are destroyed
\* first, whatever becomes of the partition table.
partition(d) ==
  LET old == VolumesOf({d}) IN
  /\ place[d] = "listed"
  /\ mounted' = mounted \ Destroyed(old)
  /\ UNCHANGED <<framework, attached, place, virtual, started, keyguard, down>>
  /\ Update(Destroyed(old), old, {}, {}, {})

\* createStubVolume: initializePartition, and handleDiskAdded.
createStubVolume(s) ==
  /\ place[s] = "absent"
  /\ vols' = vols \cup {Stub(s)}
  /\ IF Waiting(started)
     THEN place' = [place EXCEPT ![s] = "pending"] /\ UNCHANGED <<scanned, created, heard>>
     ELSE /\ place' = [place EXCEPT ![s] = "listed"]
          /\ scanned' = scanned \cup {s} /\ created' = created \cup {Stub(s)}
          /\ heard' = IF framework = "synced" THEN heard \cup {Stub(s)} ELSE {}
  /\ UNCHANGED <<attached, virtual, mounted, started, keyguard, framework, down, aborted, clash>>

destroyStubVolume(s) ==
  /\ place[s] # "absent"
  /\ UNCHANGED <<framework, attached, virtual, started, keyguard, down>>
  /\ Remove({s})

-----------------------------------------------------------------------------
(* Users and the keyguard *)

\* createPendingDisksIfNeeded, together with the fresh volumes of its caller.
CreatePending(waiting, fresh) ==
  LET opened == IF waiting THEN {} ELSE Pending IN
  /\ place' = [d \in Disks |-> IF d \in opened THEN "listed" ELSE place[d]]
  /\ \E found \in Scans(opened) : Update({}, {}, fresh \cup found, {}, opened)

\* createEmulatedVolumesForUser: one internal, one above every mounted private.
EmulatedVolumesForUser(u) ==
  {Emulated(None, u)} \cup
    {Emulated(d, u) : d \in {e \in Devices : OnDisk("private", e) \in vols \cap mounted}}

\* Mutant of onUserStarted: the volumes are created whether or not u has started.
onUserStartedAgain(u) ==
  /\ started' = started \cup {u}
  /\ UNCHANGED <<framework, attached, virtual, mounted, keyguard, down>>
  /\ CreatePending(Waiting(started'), EmulatedVolumesForUser(u))

onUserStarted(u) ==
  /\ started' = started \cup {u}
  /\ UNCHANGED <<framework, attached, virtual, mounted, keyguard, down>>
  /\ CreatePending(Waiting(started'),
                   IF u \in started THEN {} ELSE EmulatedVolumesForUser(u))

\* destroyEmulatedVolumesForUser: by mount user, and only above mounted volumes.
VolumesOfUser(u) ==
  {v \in vols \cap Internal : v[3] = u \/ (v[3] = Boot /\ u = UserZero)} \cup
    {v \in vols \cap Stacked : v[3] = u /\ OnDisk("private", v[2]) \in vols \cap mounted}

\* onUserStopped, and onUserRemoved.
onUserStopped(u) ==
  LET old == IF u \in started THEN VolumesOfUser(u) ELSE {} IN
  /\ started' = started \ {u}
  /\ mounted' = mounted \ old
  /\ UNCHANGED <<framework, attached, place, virtual, keyguard, down>>
  /\ Update(old, old, {}, {}, {})

\* Mutant of onSecureKeyguardStateChanged: the pending disks are forgotten.
onSecureKeyguardStateChangedOnly(isShowing) ==
  /\ keyguard' = isShowing
  /\ UNCHANGED <<attached, place, scanned, virtual, vols, created, mounted, started, framework,
                 heard, down, aborted, clash>>

onSecureKeyguardStateChanged(isShowing) ==
  /\ keyguard' = isShowing
  /\ UNCHANGED <<framework, attached, virtual, mounted, started, down>>
  /\ CreatePending(isShowing \/ UserZero \notin started, {})

-----------------------------------------------------------------------------
(* Volumes *)

\* findVolume: the volume of start() hides the one that user 0 has got since.
findVolume ==
  {v \in vols : /\ v[2] \notin Pending
                /\ v = Emulated(None, UserZero) => Emulated(None, Boot) \notin vols}

\* PrivateVolume::doPostMount: an emulated volume above it for every started user.
PostMount(v) ==
  {Emulated(d, u) : d \in {e \in Devices : v = OnDisk("private", e)}, u \in started}

\* mount: doMount (when it fails the volume is as it was), and doPostMount.
mount(v) ==
  /\ v \in findVolume \ mounted
  /\ mounted' = mounted \cup {v}
  /\ UNCHANGED <<framework, attached, place, virtual, started, keyguard, down>>
  /\ Update({}, {}, PostMount(v), {}, {})

\* unmount, and format, which unmounts a mounted volume.
unmount(v) ==
  LET old == StackedOn(v) IN
  /\ v \in findVolume \cap mounted
  /\ mounted' = mounted \ (old \cup {v})
  /\ UNCHANGED <<framework, attached, place, virtual, started, keyguard, down>>
  /\ Update(old, old, {}, {}, {})

createObb(o) ==
  /\ Obb(o) \notin vols
  /\ UNCHANGED <<framework, attached, place, virtual, mounted, started, keyguard, down>>
  /\ Update({}, {}, {Obb(o)}, {}, {})

destroyObb(o) ==
  /\ Obb(o) \in vols
  /\ mounted' = mounted \ {Obb(o)}
  /\ UNCHANGED <<framework, attached, place, virtual, started, keyguard, down>>
  /\ Update({Obb(o)}, {Obb(o)}, {}, {}, {})

-----------------------------------------------------------------------------
(* The whole *)

\* A framework (re)connects: it has not heard anything yet.
setListener ==
  /\ framework' = "connected" /\ heard' = {}
  /\ UNCHANGED <<env, vols, created, mounted, started, keyguard, down, aborted, clash>>

\* The disks that reset creates again.
Recreated == Listed \ Stubs

\* Mutant of TornDown: the internal volumes survive.
TornDownDisksOnly == VolumesOf(Listed)

\* The volumes that reset and shutdown destroy, each with what is above it.
TornDown == (vols \cap Internal) \cup VolumesOf(Listed)

\* updateVirtualDisk: prop says that persist.sys.virtual_disk is set, and that the
\* loop device can be made.
VirtualAdded(prop) == IF prop /\ ~virtual THEN VirtualDisks ELSE {}
VirtualRemoved(prop) == IF ~prop /\ virtual THEN VirtualDisks ELSE {}

\* reset: internal volumes are destroyed, disks destroyed and created again, stubs
\* removed; updateVirtualDisk still sees the users that were started before.  OBB
\* volumes stay.
reset(prop) ==
  LET added == VirtualAdded(prop)
      removed == VirtualRemoved(prop)
      reopened == Recreated \ removed
      opened == reopened \cup (IF Waiting(started) THEN {} ELSE added)
      old == TornDown
      mentioned == Stubs \cup removed IN
  /\ framework' = IF framework = "none" THEN "none" ELSE "synced"
  /\ virtual' = ((virtual \/ added # {}) /\ removed = {})
  /\ place' = [d \in Disks |->
                 IF d \in mentioned THEN "absent"
                 ELSE IF d \in added THEN IF Waiting(started) THEN "pending" ELSE "listed"
                 ELSE place[d]]
  /\ mounted' = mounted \ Destroyed(old)
  /\ started' = {} /\ down' = FALSE
  /\ UNCHANGED <<attached, keyguard>>
  /\ \E found \in Scans(opened) :
       Update(Destroyed(old), old \cup VolumesOf(mentioned), found, Listed, opened)

\* shutdown: returns at once when there is no internal volume.
shutdown ==
  LET old == TornDown IN
  /\ vols \cap Internal # {}
  /\ place' = [d \in Disks |-> "absent"]
  /\ mounted' = mounted \ Destroyed(old)
  /\ down' = TRUE
  /\ UNCHANGED <<framework, attached, virtual, started, keyguard>>
  /\ Update(Destroyed(old), old \cup VolumesOf(Pending), {}, Listed, {})
-----------------------------------------------------------------------------
\* start(), in a fresh process: the volume of user 0 and maybe the virtual disk,
\* which has to wait (the keyguard is taken to be showing).
Init ==
  /\ attached = {} /\ scanned = {}
  /\ virtual \in {FALSE, VirtualDisks # {}}
  /\ place = [d \in Disks |-> IF virtual /\ d \in VirtualDisks THEN "pending" ELSE "absent"]
  /\ vols = {Emulated(None, Boot)} /\ created = vols
  /\ mounted = {} /\ started = {} /\ keyguard = TRUE
  /\ framework = "none" /\ heard = {}
  /\ down = FALSE /\ aborted = FALSE /\ clash = FALSE

\* vold ends, on a failed CHECK or with the device, and comes up again.
Restart ==
  /\ attached' = {} /\ scanned' = {}
  /\ virtual' \in {FALSE, VirtualDisks # {}}
  /\ place' = [d \in Disks |-> IF virtual' /\ d \in VirtualDisks THEN "pending" ELSE "absent"]
  /\ vols' = {Emulated(None, Boot)} /\ created' = vols'
  /\ mounted' = {} /\ started' = {} /\ keyguard' = TRUE
  /\ framework' = "none" /\ heard' = {}
  /\ down' = FALSE /\ aborted' = FALSE /\ clash' = FALSE

Handler ==
  \/ \E d \in Devices : handleDiskAdded(d) \/ handleDiskChanged(d) \/ handleDiskRemoved(d)
  \/ \E d \in Disks : partition(d)
  \/ \E s \in Stubs : createStubVolume(s) \/ destroyStubVolume(s)
  \/ \E u \in Users : onUserStarted(u) \/ onUserStopped(u)
  \/ \E isShowing \in BOOLEAN : onSecureKeyguardStateChanged(isShowing)
  \/ \E v \in Volumes : mount(v) \/ unmount(v)
  \/ \E o \in Obbs : createObb(o) \/ destroyObb(o)
  \/ setListener
  \/ \E prop \in BOOLEAN : reset(prop)
  \/ shutdown

Next == (~aborted /\ Handler) \/ Restart

Spec == Init /\ [][Next]_vars

-----------------------------------------------------------------------------
(* Properties *)

\* No order of block events, binder calls, resets and shutdowns makes a CHECK of
\* VolumeBase or Disk fail (create twice, destroy twice, destructor of a created
\* one), which would end vold and reboot the device.
ChecksHold == ~aborted

\* However starts and stops of users interleave with mounts of private volumes,
\* every started user has an emulated volume of their own, internal and above every
\* mounted private volume; a stopped user has none, and none is there twice, the
\* volume of start() apart: until a reset, user 0 has that one as well as their own.
UserVolumes ==
  /\ ~clash
  /\ \A u \in Users :
       /\ u \in started /\ ~down => Emulated(None, u) \in vols
       /\ u \notin started => Emulated(None, u) \notin vols
  /\ \A d \in Devices, u \in Users :
       Emulated(d, u) \in vols <=> u \in started /\ OnDisk("private", d) \in vols \cap mounted

\* A disk that had to wait is not forgotten: there are pending disks only while the
\* keyguard shows or user 0 is not started, whichever of the two ends first.
PendingWaits == Pending # {} => keyguard \/ UserZero \notin started

\* A disk that came while the device was locked is not looked at too early: no event,
\* call, reset or stub makes vold read a disk that it has not read before (and create
\* its volumes) unless the keyguard is gone and user 0 is started, or was started
\* until the reset in question.
LockedDisksUnread ==
  [][\A d \in scanned' \ scanned : ~keyguard' /\ UserZero \in started \cup started']_vars

\* After the reset of a newly connected framework, its picture of the volumes stays
\* right: it has heard of every volume there is, and of the end of every other,
\* except that OBB volumes from before the reset are still there.
FrameworkInSync ==
  framework = "synced" => heard \subseteq created /\ created \ heard \subseteq ObbVolumes
=============================================================================
