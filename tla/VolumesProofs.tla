---------------------------- MODULE VolumesProofs ----------------------------
(***************************************************************************)
(* Proofs about Volumes and MoveStorage: the properties of both, for any   *)
(* disks, partition tables, users, stub disks and OBB images.              *)
(*                                                                         *)
(* The argument: Sound relates the lists (place, vols) to the flags        *)
(* (created, scanned, mounted).  From it, the volumes that a handler       *)
(* destroys are all created ones, what it drops is destroyed first, and    *)
(* what it creates is new, so no CHECK fails; and a handler tells the      *)
(* framework of exactly what it creates and destroys.                      *)
(***************************************************************************)
EXTENDS MoveStorage, TLAPS

\* The values of the variables.
Typed ==
  /\ attached \subseteq Devices \ VirtualDisks
  /\ place \in [Disks -> {"absent", "pending", "listed"}]
  /\ virtual \in BOOLEAN /\ keyguard \in BOOLEAN
  /\ vols \subseteq Volumes
  /\ started \subseteq Users
  /\ framework \in {"none", "connected", "synced"}

\* mCreated of the disks is what the lists say; only attached devices, and the virtual
\* disk while there is one, are in a list.
DisksKept ==
  /\ scanned = Listed
  /\ \A d \in Devices \ VirtualDisks : place[d] # "absent" => d \in attached
  /\ \A d \in VirtualDisks : place[d] # "absent" => virtual

\* Volumes are on disks that are in a list; a pending disk has none but the volume of a
\* stub, which is the only kind of volume that can be there and not created; what is
\* mounted is created.
VolumesKept ==
  /\ \A s \in Stubs : /\ Stub(s) \in vols => place[s] # "absent"
                      /\ place[s] = "pending" => Stub(s) \in vols
  /\ \A k \in Kinds, d \in Devices : OnDisk(k, d) \in vols => place[d] = "listed"
  /\ created = {v \in vols : v[2] \notin Pending}
  /\ mounted \subseteq created

\* The lists and flags are in order, whatever the framework has heard.
Sound == Typed /\ DisksKept /\ VolumesKept /\ PendingWaits /\ UserVolumes
           /\ (framework # "synced" => heard = {})

\* What holds between any two handlers: the strengthening that makes the four
\* properties of Volumes inductive.
Ind == Sound /\ ChecksHold /\ FrameworkInSync

\* What the parts of a volume's name are, by its kind.
LEMMA VolumeForms ==
  /\ \A v \in DiskVolumes : /\ v[1] \in Kinds /\ v[2] \in Devices /\ v = OnDisk(v[1], v[2])
                            /\ v \notin Stacked
  /\ \A v \in StubVolumes : /\ v[2] \in Stubs /\ v = Stub(v[2]) /\ v \notin Stacked
  /\ \A v \in Stacked : v[2] \in Devices /\ v[3] \in Users /\ v = Emulated(v[2], v[3])
  /\ \A v \in Internal : /\ v[2] = None /\ v[3] \in Users \cup {Boot} /\ v = Emulated(None, v[3])
                         /\ v \notin Stacked
  /\ \A v \in ObbVolumes : v[2] \in Obbs /\ v[2] \notin Disks /\ v = Obb(v[2]) /\ v \notin Stacked
BY VolumesAssumption DEF DiskVolumes, StubVolumes, Stacked, Internal, ObbVolumes, OnDisk, Stub,
     Emulated, Obb, Kinds, Disks

\* The converse: where the volume with given parts belongs.
LEMMA Constructors ==
  /\ \A k \in Kinds, d \in Devices : /\ OnDisk(k, d) \in DiskVolumes /\ OnDisk(k, d)[2] = d
                                     /\ OnDisk(k, d)[1] = k
  /\ \A s \in Stubs : Stub(s) \in StubVolumes /\ Stub(s)[2] = s
  /\ \A d \in Devices, u \in Users : /\ Emulated(d, u) \in Stacked /\ Emulated(d, u)[2] = d
                                     /\ Emulated(d, u)[3] = u
  /\ \A u \in Users \cup {Boot} : /\ Emulated(None, u) \in Internal /\ Emulated(None, u)[2] = None
                                  /\ Emulated(None, u)[3] = u
  /\ \A o \in Obbs : Obb(o) \in ObbVolumes /\ Obb(o)[2] = o
BY DEF DiskVolumes, StubVolumes, Stacked, Internal, ObbVolumes, OnDisk, Stub, Emulated, Obb

\* What is stacked above the volumes in S.
LEMMA AboveIs ==
  \A S : Above(S) = {w \in vols \cap Stacked : OnDisk("private", w[2]) \in S}
BY DEF Above, StackedOn

\* With what is stacked above them, the volumes of the disks in D are all the volumes
\* that these disks are the hosts of.
LEMMA HostedIs ==
  ASSUME Sound, NEW D \in SUBSET Disks
  PROVE  /\ Destroyed(VolumesOf(D)) = {v \in vols : v[2] \in D}
         /\ VolumesOf(D) \cup Above(VolumesOf(D)) = {v \in vols : v[2] \in D}
BY VolumeForms, Constructors, AboveIs, VolumesAssumption
   DEF Sound, Typed, VolumesOf, Destroyed, UserVolumes, Volumes, Kinds

\* The same for what reset and shutdown tear down, with the disks in D dropped too.
LEMMA TornDownIs ==
  ASSUME Sound, NEW D \in SUBSET Disks
  PROVE  /\ Destroyed(TornDown) = (vols \cap Internal) \cup {v \in vols : v[2] \in Listed}
         /\ (TornDown \cup VolumesOf(D)) \cup Above(TornDown \cup VolumesOf(D))
              = (vols \cap Internal) \cup {v \in vols : v[2] \in Listed \cup D}
<1> DEFINE I == vols \cap Internal
<1>1. /\ VolumesOf(Listed) \cup Above(VolumesOf(Listed)) = {v \in vols : v[2] \in Listed}
      /\ VolumesOf(Listed) \cup Above(VolumesOf(Listed) \cap mounted) = {v \in vols : v[2] \in Listed}
      /\ VolumesOf(D) \cup Above(VolumesOf(D)) = {v \in vols : v[2] \in D}
  BY HostedIs DEF Listed, Destroyed
<1>2. \A v \in I : \A w \in vols \cap Stacked : v # OnDisk("private", w[2])
  BY VolumeForms, Constructors, VolumesAssumption DEF Kinds, Disks
<1>3. /\ Above(TornDown \cap mounted) = Above(VolumesOf(Listed) \cap mounted)
      /\ Above(TornDown \cup VolumesOf(D)) = Above(VolumesOf(Listed)) \cup Above(VolumesOf(D))
  BY <1>2, AboveIs DEF TornDown
<1> QED BY <1>1, <1>3 DEF Destroyed, TornDown

\* What a scan finds is on the scanned devices.
LEMMA ScansIs ==
  ASSUME NEW D, NEW found \in Scans(D)
  PROVE  found \in SUBSET DiskVolumes /\ \A v \in found : v[2] \in D \cap Devices
BY DEF Scans, DiskVolumes, OnDisk

\* A volume on a device is of no other kind.
LEMMA DiskVolumesOnly ==
  ASSUME NEW v \in DiskVolumes
  PROVE  /\ v \in Volumes /\ v \notin Stacked /\ v \notin StubVolumes /\ v \notin Internal
         /\ v \notin ObbVolumes
BY DEF DiskVolumes, OnDisk, Stacked, StubVolumes, Internal, ObbVolumes, Volumes, Emulated, Stub,
       Obb, Kinds

\* A volume on a disk: the disk is known, and pending only for a stub volume.
LEMMA Hosts ==
  ASSUME Sound, NEW v \in vols, v[2] \in Disks
  PROVE  /\ place[v[2]] # "absent"
         /\ v[2] \in Devices => place[v[2]] = "listed"
         /\ v \in Stacked => place[v[2]] = "listed"
         /\ v[2] \in Stubs => v = Stub(v[2])
BY VolumeForms, Constructors, VolumesAssumption
   DEF Sound, Typed, VolumesKept, UserVolumes, Volumes, Kinds, Disks

\* FrameworkInSync, except for the volumes in Q, which are hidden from the framework.
InSync(Q) ==
  framework = "synced" => heard \subseteq created \ Q /\ (created \ Q) \ heard \subseteq ObbVolumes

\* The same after a step, for those of Q that are left.
InSyncNext(Q) ==
  framework' = "synced" =>
    /\ heard' \subseteq created' \ (Q \cap vols')
    /\ (created' \ (Q \cap vols')) \ heard' \subseteq ObbVolumes

\* What a move can hide.
Hideable == vols \cap (Stacked \cup Internal)

\* What every handler keeps.
Keeps == /\ Sound' /\ ~aborted'
         /\ \A Q \in SUBSET Hideable : InSync(Q) => InSyncNext(Q)

\* A handler keeps the framework in sync if no CHECK fails and it creates nothing
\* under the name of a hidden volume.
LEMMA UpdateSync ==
  ASSUME NEW Q \in SUBSET Hideable, InSync(Q), ~aborted', framework' = framework,
         NEW destroyed, NEW dropped, NEW fresh, NEW closed, NEW opened,
         Update(destroyed, dropped, fresh, closed, opened), fresh \cap Q = {}
  PROVE  InSyncNext(Q)
<1> DEFINE stubs == {Stub(s) : s \in opened \cap Stubs}
<1>1. stubs \cap Q = {}
  BY VolumeForms, Constructors, VolumesAssumption DEF Hideable, Stub, Stacked, Internal, Emulated
<1>2. Q \cap vols' = Q \ (dropped \cup Above(dropped))
  BY DEF Update, Hideable
<1>3. (dropped \cup Above(dropped)) \cap created \subseteq destroyed
  BY DEF Update
<1>4. created' = (created \ destroyed) \cup fresh \cup stubs
  BY DEF Update
<1>5. ASSUME framework' = "synced" PROVE heard' = (heard \ destroyed) \cup fresh \cup stubs
  BY <1>5 DEF Update
<1> HIDE DEF stubs
<1> QED BY <1>1, <1>2, <1>3, <1>4, <1>5 DEF InSync, InSyncNext

\* Disk::readPartitions and the partition calls: the volumes of one listed disk are
\* destroyed, with what is above them, and others take their place.
LEMMA Rescanned ==
  ASSUME Sound, NEW d \in Disks, place[d] = "listed",
         NEW found \in SUBSET DiskVolumes, \A v \in found : v[2] = d,
         Update(Destroyed(VolumesOf({d})), VolumesOf({d}), found, {}, {}),
         mounted' = mounted \ Destroyed(VolumesOf({d})),
         UNCHANGED <<framework, attached, place, virtual, started, keyguard, down>>
  PROVE  Keeps
<1> DEFINE old == VolumesOf({d})
<1> DEFINE gone == {v \in vols : v[2] \in {d}}
<1>1. Update(Destroyed(old), old, found, {}, {}) /\ \A v \in found : v[2] = d
  OBVIOUS
<1>2. /\ place[d] = "listed" /\ mounted' = mounted \ Destroyed(old)
      /\ UNCHANGED <<framework, attached, place, virtual, started, keyguard, down>>
  OBVIOUS
<1>3. Destroyed(old) = gone /\ old \cup Above(old) = gone
  BY HostedIs
<1>4. /\ vols' = (vols \ gone) \cup found /\ created' = (created \ gone) \cup found
      /\ mounted' = mounted \ gone /\ scanned' = scanned
      /\ clash' = (clash \/ found \cap (vols \ gone) # {})
  BY <1>1, <1>2, <1>3 DEF Update
<1> HIDE DEF old
<1>5. Typed'
  BY <1>2, <1>4, DiskVolumesOnly DEF Sound, Typed
<1>6. DisksKept'
  BY <1>2, <1>4 DEF Sound, DisksKept, Listed
<1>7. VolumesKept'
  <2>1. \A s \in Stubs : /\ Stub(s) \in vols' => place'[s] # "absent"
                         /\ place'[s] = "pending" => Stub(s) \in vols'
    BY <1>2, <1>4, DiskVolumesOnly, Constructors DEF Sound, VolumesKept
  <2>2. \A k \in Kinds, e \in Devices : OnDisk(k, e) \in vols' => place'[e] = "listed"
    BY <1>1, <1>2, <1>4, Constructors DEF Sound, VolumesKept
  <2>3. created' = {v \in vols' : v[2] \notin Pending'}
    BY <1>1, <1>2, <1>4 DEF Sound, VolumesKept, Pending
  <2>4. mounted' \subseteq created'
    BY <1>4 DEF Sound, VolumesKept
  <2> QED BY <2>1, <2>2, <2>3, <2>4 DEF VolumesKept
<1>8. UserVolumes'
  <2>1. ~clash'
    BY <1>1, <1>4, DiskVolumesOnly DEF Sound, UserVolumes
  <2>2. \A u \in Users : /\ u \in started' /\ ~down' => Emulated(None, u) \in vols'
                         /\ u \notin started' => Emulated(None, u) \notin vols'
    BY <1>2, <1>4, DiskVolumesOnly, Constructors, VolumesAssumption DEF Sound, UserVolumes
  <2>3. ASSUME NEW e \in Devices, NEW u \in Users
        PROVE  Emulated(e, u) \in vols'
                 <=> u \in started' /\ OnDisk("private", e) \in vols' \cap mounted'
    <3>1. /\ Emulated(e, u) \notin found /\ Emulated(e, u)[2] = e
          /\ OnDisk("private", e)[2] = e /\ mounted \subseteq vols
      BY DiskVolumesOnly, Constructors DEF Sound, VolumesKept, Kinds
    <3>2. Emulated(e, u) \in vols <=> u \in started /\ OnDisk("private", e) \in vols \cap mounted
      BY DEF Sound, UserVolumes
    <3> QED BY <1>1, <1>2, <1>4, <3>1, <3>2
  <2> QED BY <2>1, <2>2, <2>3 DEF UserVolumes
<1>9. PendingWaits' /\ (framework' # "synced" => heard' = {})
  BY <1>1, <1>2 DEF Sound, PendingWaits, Pending, Update
<1>10. ~aborted'
  BY <1>1, <1>2, <1>3 DEF Sound, VolumesKept, DisksKept, Listed, Update, Pending
<1>11. ASSUME NEW Q \in SUBSET Hideable, InSync(Q) PROVE InSyncNext(Q)
  BY <1>1, <1>2, <1>10, <1>11, UpdateSync, DiskVolumesOnly DEF Hideable
<1> QED BY <1>5, <1>6, <1>7, <1>8, <1>9, <1>10, <1>11 DEF Sound, Keeps

\* handleDiskAdded.
LEMMA Added ==
  ASSUME Sound, NEW d \in Devices, handleDiskAdded(d)
  PROVE  Keeps
<1> DEFINE opened == IF Waiting(started) THEN {} ELSE {d}
<1>1. PICK found \in Scans(opened) : Update({}, {}, found, {}, opened)
  BY DEF handleDiskAdded
<1>2. /\ d \notin attached \cup VirtualDisks
      /\ attached' = attached \cup {d}
      /\ place' = [place EXCEPT ![d] = IF opened = {} THEN "pending" ELSE "listed"]
      /\ UNCHANGED <<framework, virtual, mounted, started, keyguard, down>>
  BY DEF handleDiskAdded
<1>3. /\ place[d] = "absent" /\ d \in Disks /\ d \notin Stubs
      /\ \A v \in vols : v[2] # d
      /\ \A v \in found : v[2] = d /\ opened # {}
      /\ opened \subseteq {d}
      /\ Above({}) = {} /\ {Stub(s) : s \in opened \cap Stubs} = {}
  BY <1>1, <1>2, Hosts, ScansIs, DiskVolumesOnly, AboveIs, VolumesAssumption DEF Sound, DisksKept, Disks
<1>4. /\ vols' = vols \cup found /\ created' = created \cup found /\ scanned' = scanned \cup opened
      /\ clash' = (clash \/ found \cap vols # {})
  BY <1>1, <1>3 DEF Update
<1>5. /\ opened = {} => place'[d] = "pending" /\ Waiting(started)
      /\ opened # {} => place'[d] = "listed"
      /\ \A e \in Disks : e # d => place'[e] = place[e]
      /\ place' \in [Disks -> {"absent", "pending", "listed"}]
  BY <1>2, <1>3 DEF Sound, Typed
<1> HIDE DEF opened
<1>6. Typed'
  BY <1>2, <1>4, <1>5, <1>1, ScansIs, DiskVolumesOnly DEF Sound, Typed
<1>7. DisksKept'
  BY <1>2, <1>3, <1>4, <1>5 DEF Sound, DisksKept, Listed
<1>8. VolumesKept'
  <2>1. \A s \in Stubs : /\ Stub(s) \in vols' => place'[s] # "absent"
                         /\ place'[s] = "pending" => Stub(s) \in vols'
    BY <1>1, <1>3, <1>4, <1>5, ScansIs, DiskVolumesOnly, Constructors DEF Sound, VolumesKept, Disks
  <2>2. \A k \in Kinds, e \in Devices : OnDisk(k, e) \in vols' => place'[e] = "listed"
    BY <1>3, <1>4, <1>5, Constructors DEF Sound, VolumesKept, Disks
  <2>3. created' = {v \in vols' : v[2] \notin Pending'}
    BY <1>3, <1>4, <1>5 DEF Sound, VolumesKept, Pending
  <2>4. mounted' \subseteq created'
    BY <1>2, <1>4 DEF Sound, VolumesKept
  <2> QED BY <2>1, <2>2, <2>3, <2>4 DEF VolumesKept
<1>9. UserVolumes'
  <2>1. ~clash'
    BY <1>3, <1>4 DEF Sound, UserVolumes
  <2>2. \A u \in Users : /\ u \in started' /\ ~down' => Emulated(None, u) \in vols'
                         /\ u \notin started' => Emulated(None, u) \notin vols'
    BY <1>1, <1>2, <1>4, ScansIs, DiskVolumesOnly, Constructors DEF Sound, UserVolumes
  <2>3. ASSUME NEW e \in Devices, NEW u \in Users
        PROVE  Emulated(e, u) \in vols'
                 <=> u \in started' /\ OnDisk("private", e) \in vols' \cap mounted'
    BY <1>1, <1>2, <1>3, <1>4, ScansIs, DiskVolumesOnly, Constructors DEF Sound, VolumesKept, UserVolumes, Kinds
  <2> QED BY <2>1, <2>2, <2>3 DEF UserVolumes
<1>10. PendingWaits' /\ (framework' # "synced" => heard' = {})
  BY <1>1, <1>2, <1>3, <1>5 DEF Sound, PendingWaits, Pending, Update, Waiting
<1>11. ~aborted'
  BY <1>1, <1>3, <1>4, <1>5 DEF Sound, DisksKept, Listed, Update
<1>12. ASSUME NEW Q \in SUBSET Hideable, InSync(Q) PROVE InSyncNext(Q)
  BY <1>1, <1>2, <1>11, <1>12, UpdateSync, ScansIs, DiskVolumesOnly DEF Hideable
<1> QED BY <1>6, <1>7, <1>8, <1>9, <1>10, <1>11, <1>12 DEF Sound, Keeps

\* Disks are removed, listed or pending (handleDiskRemoved, destroyStubVolume).
LEMMA Removal ==
  ASSUME Sound, NEW D \in SUBSET Disks, Remove(D),
         attached \ D \subseteq attached', attached' \subseteq attached,
         UNCHANGED <<framework, virtual, started, keyguard, down>>
  PROVE  Keeps
<1> DEFINE old == VolumesOf(D \cap Listed)
<1> DEFINE destroyed == {v \in vols : v[2] \in D \cap Listed}
<1> DEFINE gone == {v \in vols : v[2] \in D}
<1>1. /\ Update(Destroyed(old), VolumesOf(D), {}, D \cap Listed, {})
      /\ place' = [d \in Disks |-> IF d \in D THEN "absent" ELSE place[d]]
      /\ mounted' = mounted \ Destroyed(old)
  BY DEF Remove
<1>2. Destroyed(old) = destroyed /\ VolumesOf(D) \cup Above(VolumesOf(D)) = gone
  BY HostedIs DEF Listed
<1>3. /\ vols' = vols \ gone /\ created' = created \ destroyed
      /\ mounted' = mounted \ destroyed /\ scanned' = scanned \ (D \cap Listed)
      /\ ~clash'
  BY <1>1, <1>2 DEF Update, Sound, UserVolumes
<1>4. created \cap gone = destroyed
  BY Hosts DEF Sound, VolumesKept, Typed, Listed, Pending
<1>5. /\ place' \in [Disks -> {"absent", "pending", "listed"}]
      /\ \A d \in D : place'[d] = "absent"
      /\ \A d \in Disks \ D : place'[d] = place[d]
  BY <1>1 DEF Sound, Typed
<1> HIDE DEF old
<1>6. Typed'
  BY <1>3, <1>5 DEF Sound, Typed
<1>7. DisksKept'
  BY <1>3, <1>5, VolumesAssumption DEF Sound, DisksKept, Listed, Disks
<1>8. VolumesKept'
  <2>1. \A s \in Stubs : /\ Stub(s) \in vols' => place'[s] # "absent"
                         /\ place'[s] = "pending" => Stub(s) \in vols'
    BY <1>3, <1>5, Constructors DEF Sound, VolumesKept, Disks
  <2>2. \A k \in Kinds, e \in Devices : OnDisk(k, e) \in vols' => place'[e] = "listed"
    BY <1>3, <1>5, Constructors DEF Sound, VolumesKept, Disks
  <2>3. created' = {v \in vols' : v[2] \notin Pending'}
    BY <1>3, <1>4, <1>5 DEF Sound, VolumesKept, Pending
  <2>4. mounted' \subseteq created'
    BY <1>3 DEF Sound, VolumesKept
  <2> QED BY <2>1, <2>2, <2>3, <2>4 DEF VolumesKept
<1>9. UserVolumes'
  <2>1. ~clash'
    BY <1>3 DEF Sound, UserVolumes
  <2>2. \A u \in Users : /\ u \in started' /\ ~down' => Emulated(None, u) \in vols'
                         /\ u \notin started' => Emulated(None, u) \notin vols'
    BY <1>3, Constructors, VolumesAssumption DEF Sound, UserVolumes
  <2>3. ASSUME NEW e \in Devices, NEW u \in Users
        PROVE  Emulated(e, u) \in vols'
                 <=> u \in started' /\ OnDisk("private", e) \in vols' \cap mounted'
    <3>1. /\ Emulated(e, u)[2] = e /\ OnDisk("private", e)[2] = e /\ mounted \subseteq created
      BY Constructors DEF Sound, VolumesKept, Kinds
    <3>2. Emulated(e, u) \in vols <=> u \in started /\ OnDisk("private", e) \in vols \cap mounted
      BY DEF Sound, UserVolumes
    <3> QED BY <1>3, <1>4, <3>1, <3>2
  <2> QED BY <2>1, <2>2, <2>3 DEF UserVolumes
<1>10. PendingWaits' /\ (framework' # "synced" => heard' = {})
  BY <1>1, <1>5 DEF Sound, PendingWaits, Pending, Update
<1>11. ~aborted'
  BY <1>1, <1>2, <1>3, <1>4, <1>5 DEF Sound, VolumesKept, DisksKept, Listed, Update
<1>12. ASSUME NEW Q \in SUBSET Hideable, InSync(Q) PROVE InSyncNext(Q)
  BY <1>1, <1>11, <1>12, UpdateSync
<1> QED BY <1>6, <1>7, <1>8, <1>9, <1>10, <1>11, <1>12 DEF Sound, Keeps

\* onUserStopped.
LEMMA Stopped ==
  ASSUME Sound, NEW u \in Users, onUserStopped(u)
  PROVE  Keeps
<1> DEFINE old == IF u \in started THEN VolumesOfUser(u) ELSE {}
<1>1. /\ Update(old, old, {}, {}, {})
      /\ started' = started \ {u} /\ mounted' = mounted \ old
      /\ UNCHANGED <<framework, attached, place, virtual, keyguard, down>>
  BY DEF onUserStopped
<1>2. /\ old \subseteq vols \cap (Stacked \cup Internal) /\ Above(old) = {}
      /\ \A v \in old : v[2] \notin Stubs /\ v[2] \notin Pending
      /\ old \subseteq created
      /\ {Stub(s) : s \in {} \cap Stubs} = {}
  <2>1. old \subseteq vols \cap (Stacked \cup Internal)
    BY DEF VolumesOfUser
  <2>2. \A v \in Stacked \cup Internal : \A w \in Stacked : v # OnDisk("private", w[2])
    BY VolumeForms, Constructors, DiskVolumesOnly, VolumesAssumption DEF Kinds
  <2>3. Above(old) = {}
    BY <2>1, <2>2, AboveIs
  <2>4. \A v \in old : v[2] \notin Stubs /\ v[2] \notin Pending
    BY <2>1, Hosts, VolumeForms, VolumesAssumption DEF Disks, Pending
  <2> QED BY <2>1, <2>3, <2>4 DEF Sound, VolumesKept
<1>3. /\ vols' = vols \ old /\ created' = created \ old /\ scanned' = scanned /\ ~clash'
  BY <1>1, <1>2 DEF Update, Sound, UserVolumes
<1>4. /\ u \in started /\ Emulated(None, u) \in vols => Emulated(None, u) \in old
      /\ \A w \in Users : w # u => Emulated(None, w) \notin old
      /\ \A d \in Devices : Emulated(d, u) \in vols => Emulated(d, u) \in old
      /\ \A d \in Devices, w \in Users : w # u => Emulated(d, w) \notin old
  BY Constructors, VolumeForms, VolumesAssumption
     DEF VolumesOfUser, Sound, UserVolumes
<1>5. (mounted \cap DiskVolumes) \ old = mounted \cap DiskVolumes
  BY <1>2, DiskVolumesOnly
<1> HIDE DEF old
<1>6. Typed'
  BY <1>1, <1>3 DEF Sound, Typed
<1>7. DisksKept'
  BY <1>1, <1>3 DEF Sound, DisksKept, Listed
<1>8. VolumesKept'
  <2>1. \A s \in Stubs : /\ Stub(s) \in vols' => place'[s] # "absent"
                         /\ place'[s] = "pending" => Stub(s) \in vols'
    BY <1>1, <1>2, <1>3, Constructors DEF Sound, VolumesKept
  <2>2. \A k \in Kinds, e \in Devices : OnDisk(k, e) \in vols' => place'[e] = "listed"
    BY <1>1, <1>3 DEF Sound, VolumesKept
  <2>3. created' = {v \in vols' : v[2] \notin Pending'}
    BY <1>1, <1>3 DEF Sound, VolumesKept, Pending
  <2>4. mounted' \subseteq created'
    BY <1>1, <1>3 DEF Sound, VolumesKept
  <2> QED BY <2>1, <2>2, <2>3, <2>4 DEF VolumesKept
<1>9. UserVolumes'
  <2>1. ~clash'
    BY <1>3 DEF Sound, UserVolumes
  <2>2. \A w \in Users : /\ w \in started' /\ ~down' => Emulated(None, w) \in vols'
                         /\ w \notin started' => Emulated(None, w) \notin vols'
    BY <1>1, <1>3, <1>4 DEF Sound, UserVolumes
  <2>3. ASSUME NEW e \in Devices, NEW w \in Users
        PROVE  Emulated(e, w) \in vols'
                 <=> w \in started' /\ OnDisk("private", e) \in vols' \cap mounted'
    BY <1>1, <1>2, <1>3, <1>4, <1>5, Constructors, DiskVolumesOnly DEF Sound, UserVolumes, Kinds
  <2> QED BY <2>1, <2>2, <2>3 DEF UserVolumes
<1>10. PendingWaits' /\ (framework' # "synced" => heard' = {})
  BY <1>1 DEF Sound, PendingWaits, Pending, Update
<1>11. ~aborted'
  BY <1>1, <1>2, <1>3 DEF Sound, DisksKept, Listed, Update
<1>12. ASSUME NEW Q \in SUBSET Hideable, InSync(Q) PROVE InSyncNext(Q)
  BY <1>1, <1>11, <1>12, UpdateSync
<1> QED BY <1>6, <1>7, <1>8, <1>9, <1>10, <1>11, <1>12 DEF Sound, Keeps

\* createPendingDisksIfNeeded for a caller that adds the volumes in fresh.
LEMMA PendingCreated ==
  ASSUME Sound, NEW waiting \in BOOLEAN, NEW fresh \in SUBSET (Stacked \cup Internal),
         fresh \cap vols = {}, CreatePending(waiting, fresh),
         ~waiting => ~(keyguard' \/ UserZero \notin started'),
         Pending # {} /\ waiting => keyguard' \/ UserZero \notin started',
         keyguard' \in BOOLEAN, started' \subseteq Users,
         \A w \in fresh : w[2] \notin Pending,
         \A u \in Users : /\ u \in started' /\ ~down => Emulated(None, u) \in vols \cup fresh
                          /\ u \notin started' => Emulated(None, u) \notin vols \cup fresh,
         \A d \in Devices, u \in Users : Emulated(d, u) \in vols \cup fresh
            <=> u \in started' /\ OnDisk("private", d) \in vols \cap mounted,
         UNCHANGED <<framework, attached, virtual, mounted, down>>
  PROVE  Keeps
<1> DEFINE opened == IF waiting THEN {} ELSE Pending
<1> DEFINE stubs == {Stub(s) : s \in opened \cap Stubs}
<1>1. PICK found \in Scans(opened) : Update({}, {}, fresh \cup found, {}, opened)
  BY DEF CreatePending
<1>2. /\ place' = [d \in Disks |-> IF d \in opened THEN "listed" ELSE place[d]]
      /\ opened \subseteq Pending
  BY DEF CreatePending
<1>3. /\ found \subseteq DiskVolumes /\ \A v \in found : v[2] \in opened \cap Devices
      /\ Above({}) = {}
      /\ found \cap vols = {}
  BY <1>1, <1>2, ScansIs, Hosts, AboveIs DEF Disks, Pending
<1>4. /\ vols' = vols \cup fresh \cup found /\ created' = created \cup fresh \cup found \cup stubs
      /\ scanned' = scanned \cup opened /\ ~clash'
  BY <1>1, <1>3 DEF Update, Sound, UserVolumes
<1>5. /\ place' \in [Disks -> {"absent", "pending", "listed"}]
      /\ \A d \in opened : place'[d] = "listed"
      /\ \A d \in Disks \ opened : place'[d] = place[d]
  BY <1>2 DEF Sound, Typed, Pending
<1>6. stubs = {v \in vols : v[2] \in opened}
  BY <1>2, Hosts, Constructors, VolumeForms, VolumesAssumption
     DEF Sound, VolumesKept, Pending, Disks
<1>7. opened = {} \/ opened = Pending
  OBVIOUS
<1>8. opened # {} => ~waiting
  OBVIOUS
<1> HIDE DEF opened, stubs
<1>9. Typed'
  BY <1>3, <1>4, <1>5, DiskVolumesOnly DEF Sound, Typed, Volumes
<1>10. DisksKept'
  BY <1>2, <1>4, <1>5, VolumesAssumption DEF Sound, DisksKept, Listed, Disks, Pending
<1>11. VolumesKept'
  <2>1. \A s \in Stubs : /\ Stub(s) \in vols' => place'[s] # "absent"
                         /\ place'[s] = "pending" => Stub(s) \in vols'
    <3>1. \A s \in Stubs : Stub(s) \notin fresh \cup found
      BY <1>3, Constructors, VolumeForms, VolumesAssumption DEF Disks
    <3> QED BY <1>2, <1>4, <1>5, <3>1 DEF Sound, VolumesKept, Disks, Pending
  <2>2. \A k \in Kinds, e \in Devices : OnDisk(k, e) \in vols' => place'[e] = "listed"
    <3>1. \A k \in Kinds, e \in Devices : OnDisk(k, e) \notin fresh
      BY Constructors, DiskVolumesOnly
    <3> QED BY <1>2, <1>3, <1>4, <1>5, <3>1, Constructors DEF Sound, VolumesKept, Disks, Pending
  <2>3. created' = {v \in vols' : v[2] \notin Pending'}
    BY <1>2, <1>3, <1>4, <1>5, <1>6 DEF Sound, VolumesKept, Pending
  <2>4. mounted' \subseteq created'
    BY <1>4 DEF Sound, VolumesKept
  <2> QED BY <2>1, <2>2, <2>3, <2>4 DEF VolumesKept
<1>12. UserVolumes'
  <2>1. \A u \in Users : /\ u \in started' /\ ~down' => Emulated(None, u) \in vols'
                         /\ u \notin started' => Emulated(None, u) \notin vols'
    BY <1>3, <1>4, DiskVolumesOnly, Constructors
  <2>2. ASSUME NEW e \in Devices, NEW u \in Users
        PROVE  Emulated(e, u) \in vols'
                 <=> u \in started' /\ OnDisk("private", e) \in vols' \cap mounted'
    <3>1. Emulated(e, u) \notin found
      BY <1>3, DiskVolumesOnly, Constructors
    <3>2. mounted \subseteq vols
      BY DEF Sound, VolumesKept
    <3> QED BY <1>4, <3>1, <3>2
  <2> QED BY <1>4, <2>1, <2>2 DEF UserVolumes
<1>13. PendingWaits' /\ (framework' # "synced" => heard' = {})
  <2>1. Pending' # {} => opened = {} /\ Pending # {}
    BY <1>2, <1>5, <1>7 DEF Pending
  <2>2. opened = {} /\ Pending # {} => waiting
    BY DEF opened
  <2> QED BY <1>1, <2>1, <2>2 DEF PendingWaits, Update
<1>14. ~aborted'
  BY <1>1, <1>2, <1>3, <1>4, <1>5, <1>6 DEF Sound, DisksKept, Listed, Pending, Update, stubs
<1>15. ASSUME NEW Q \in SUBSET Hideable, InSync(Q) PROVE InSyncNext(Q)
  BY <1>1, <1>3, <1>14, <1>15, UpdateSync DEF Hideable
<1> QED BY <1>9, <1>10, <1>11, <1>12, <1>13, <1>14, <1>15 DEF Sound, Keeps

\* onSecureKeyguardStateChanged.
LEMMA Keyguard ==
  ASSUME Sound, NEW isShowing \in BOOLEAN, onSecureKeyguardStateChanged(isShowing)
  PROVE  Keeps
<1> DEFINE waiting == isShowing \/ UserZero \notin started
<1>1. /\ CreatePending(waiting, {}) /\ keyguard' = isShowing /\ waiting \in BOOLEAN
      /\ UNCHANGED <<framework, attached, virtual, mounted, started, down>>
  BY DEF onSecureKeyguardStateChanged
<1>2. /\ ~waiting => ~(keyguard' \/ UserZero \notin started')
      /\ Pending # {} /\ waiting => keyguard' \/ UserZero \notin started'
      /\ keyguard' \in BOOLEAN /\ started' \subseteq Users
  BY <1>1 DEF Sound, Typed
<1>3. /\ \A u \in Users : /\ u \in started' /\ ~down => Emulated(None, u) \in vols \cup {}
                          /\ u \notin started' => Emulated(None, u) \notin vols \cup {}
      /\ \A d \in Devices, u \in Users : Emulated(d, u) \in vols \cup {}
            <=> u \in started' /\ OnDisk("private", d) \in vols \cap mounted
  BY <1>1 DEF Sound, UserVolumes
<1> HIDE DEF waiting
<1> QED BY <1>1, <1>2, <1>3, PendingCreated

\* onUserStarted.
LEMMA Started ==
  ASSUME Sound, NEW u \in Users, onUserStarted(u)
  PROVE  Keeps
<1> DEFINE fresh == IF u \in started THEN {} ELSE EmulatedVolumesForUser(u)
<1> DEFINE waiting == keyguard \/ UserZero \notin started'
<1>1. /\ CreatePending(waiting, fresh) /\ started' = started \cup {u}
      /\ UNCHANGED <<framework, attached, virtual, mounted, keyguard, down>>
  BY DEF onUserStarted, Waiting
<1>2. /\ ~waiting => ~(keyguard' \/ UserZero \notin started')
      /\ Pending # {} /\ waiting => keyguard' \/ UserZero \notin started'
      /\ keyguard' \in BOOLEAN /\ started' \subseteq Users
      /\ waiting \in BOOLEAN
  BY <1>1 DEF Sound, Typed
<1>3. /\ fresh \in SUBSET (Stacked \cup Internal) /\ fresh \cap vols = {}
      /\ \A w \in fresh : w[2] \notin Pending
  BY VolumesAssumption, Constructors
     DEF EmulatedVolumesForUser, Sound, UserVolumes, VolumesKept, Kinds, Pending, Disks
<1>4. /\ u \notin started => Emulated(None, u) \in fresh
      /\ \A w \in Users : w # u => Emulated(None, w) \notin fresh
      /\ \A d \in Devices, w \in Users :
           Emulated(d, w) \in fresh
             <=> w = u /\ u \notin started /\ OnDisk("private", d) \in vols \cap mounted
  BY VolumesAssumption DEF EmulatedVolumesForUser, Emulated, Disks
<1> HIDE DEF fresh
<1>5. /\ \A w \in Users : /\ w \in started' /\ ~down => Emulated(None, w) \in vols \cup fresh
                          /\ w \notin started' => Emulated(None, w) \notin vols \cup fresh
      /\ \A d \in Devices, w \in Users : Emulated(d, w) \in vols \cup fresh
            <=> w \in started' /\ OnDisk("private", d) \in vols \cap mounted
  BY <1>1, <1>4 DEF Sound, UserVolumes
<1> HIDE DEF waiting
<1> QED BY <1>1, <1>2, <1>3, <1>5, PendingCreated

\* mount, with doPostMount.
LEMMA Mounts ==
  ASSUME Sound, NEW v \in Volumes, mount(v)
  PROVE  Keeps
<1> DEFINE fresh == PostMount(v)
<1>1. /\ Update({}, {}, fresh, {}, {}) /\ v \in findVolume \ mounted
      /\ mounted' = mounted \cup {v}
      /\ UNCHANGED <<framework, attached, place, virtual, started, keyguard, down>>
  BY DEF mount
<1>2. v \in created /\ v \in vols
  BY <1>1 DEF findVolume, Sound, VolumesKept
<1>3. \A d \in Devices, u \in Users :
        Emulated(d, u) \in fresh <=> v = OnDisk("private", d) /\ u \in started
  BY DEF PostMount, Emulated, Sound, Typed
<1>4. \A w \in fresh : /\ w \in Stacked /\ w \notin vols /\ place[w[2]] = "listed"
                       /\ v = OnDisk("private", w[2])
  BY <1>1, <1>2, Constructors, VolumeForms DEF PostMount, Sound, Typed, UserVolumes, VolumesKept, Kinds
<1>5. /\ vols' = vols \cup fresh /\ created' = created \cup fresh /\ scanned' = scanned
      /\ ~clash'
  BY <1>1, <1>4, AboveIs DEF Update, Sound, UserVolumes
<1> HIDE DEF fresh
<1>6. Typed'
  BY <1>1, <1>4, <1>5 DEF Sound, Typed, Volumes
<1>7. DisksKept'
  BY <1>1, <1>5 DEF Sound, DisksKept, Listed
<1>8. VolumesKept'
  <2>1. \A s \in Stubs : Stub(s) \notin fresh
    BY <1>4, Constructors, VolumeForms
  <2>2. \A k \in Kinds, e \in Devices : OnDisk(k, e) \notin fresh
    BY <1>4, Constructors, DiskVolumesOnly
  <2>3. created' = {w \in vols' : w[2] \notin Pending'}
    BY <1>1, <1>4, <1>5 DEF Sound, VolumesKept, Pending
  <2>4. mounted' \subseteq created'
    BY <1>1, <1>2, <1>5 DEF Sound, VolumesKept
  <2> QED BY <1>1, <1>5, <2>1, <2>2, <2>3, <2>4 DEF Sound, VolumesKept
<1>9. UserVolumes'
  <2>1. \A u \in Users : Emulated(None, u) \notin fresh
    BY <1>4, Constructors, VolumeForms
  <2>2. ASSUME NEW e \in Devices, NEW u \in Users
        PROVE  Emulated(e, u) \in vols'
                 <=> u \in started' /\ OnDisk("private", e) \in vols' \cap mounted'
    <3>1. OnDisk("private", e) \notin fresh /\ mounted \subseteq vols
      BY <1>4, Constructors, DiskVolumesOnly DEF Kinds, Sound, VolumesKept
    <3>2. Emulated(e, u) \in vols <=> u \in started /\ OnDisk("private", e) \in vols \cap mounted
      BY DEF Sound, UserVolumes
    <3> QED BY <1>1, <1>2, <1>3, <1>5, <3>1, <3>2
  <2> QED BY <1>1, <1>5, <2>1, <2>2 DEF Sound, UserVolumes
<1>10. PendingWaits' /\ (framework' # "synced" => heard' = {})
  BY <1>1 DEF Sound, PendingWaits, Pending, Update
<1>11. ~aborted'
  BY <1>1, <1>5, AboveIs DEF Sound, DisksKept, Listed, Update
<1>12. ASSUME NEW Q \in SUBSET Hideable, InSync(Q) PROVE InSyncNext(Q)
  BY <1>1, <1>4, <1>11, <1>12, UpdateSync DEF Hideable
<1> QED BY <1>6, <1>7, <1>8, <1>9, <1>10, <1>11, <1>12 DEF Sound, Keeps

\* unmount.
LEMMA Unmounts ==
  ASSUME Sound, NEW v \in Volumes, unmount(v)
  PROVE  Keeps
<1> DEFINE old == StackedOn(v)
<1>1. /\ Update(old, old, {}, {}, {}) /\ v \in vols \cap mounted
      /\ mounted' = mounted \ (old \cup {v})
      /\ UNCHANGED <<framework, attached, place, virtual, started, keyguard, down>>
  BY DEF unmount, findVolume
<1>2. \A w : w \in old <=> w \in vols \cap Stacked /\ v = OnDisk("private", w[2])
  BY DEF StackedOn
<1>3. \A w \in old : w \in Stacked /\ w \in vols /\ w \in created
  BY <1>2, Hosts, VolumeForms DEF Sound, VolumesKept, Pending, Disks
<1>4. Above(old) = {}
  BY <1>3, AboveIs, VolumeForms, Constructors, DiskVolumesOnly DEF Kinds
<1>5. /\ vols' = vols \ old /\ created' = created \ old /\ scanned' = scanned /\ ~clash'
  BY <1>1, <1>4 DEF Update, Sound, UserVolumes
<1> HIDE DEF old
<1>6. Typed'
  BY <1>1, <1>5 DEF Sound, Typed
<1>7. DisksKept'
  BY <1>1, <1>5 DEF Sound, DisksKept, Listed
<1>8. VolumesKept'
  <2>1. \A s \in Stubs : Stub(s) \notin old
    BY <1>3, Constructors, VolumeForms
  <2>2. created' = {w \in vols' : w[2] \notin Pending'}
    BY <1>1, <1>5 DEF Sound, VolumesKept, Pending
  <2> QED BY <1>1, <1>5, <2>1, <2>2 DEF Sound, VolumesKept
<1>9. UserVolumes'
  <2>1. \A u \in Users : Emulated(None, u) \notin old
    BY <1>3, Constructors, VolumeForms
  <2>2. ASSUME NEW e \in Devices, NEW u \in Users
        PROVE  Emulated(e, u) \in vols'
                 <=> u \in started' /\ OnDisk("private", e) \in vols' \cap mounted'
    <3>1. OnDisk("private", e) \notin old /\ mounted \subseteq vols
      BY <1>3, Constructors, DiskVolumesOnly DEF Kinds, Sound, VolumesKept
    <3>2. Emulated(e, u) \in vols <=> u \in started /\ OnDisk("private", e) \in vols \cap mounted
      BY DEF Sound, UserVolumes
    <3>3. Emulated(e, u) \in old <=> Emulated(e, u) \in vols /\ v = OnDisk("private", e)
      BY <1>2, Constructors
    <3> QED BY <1>1, <1>5, <3>1, <3>2, <3>3
  <2> QED BY <1>1, <1>5, <2>1, <2>2 DEF Sound, UserVolumes
<1>10. PendingWaits' /\ (framework' # "synced" => heard' = {})
  BY <1>1 DEF Sound, PendingWaits, Pending, Update
<1>11. ~aborted'
  BY <1>1, <1>3, <1>4, <1>5 DEF Sound, DisksKept, Listed, Update
<1>12. ASSUME NEW Q \in SUBSET Hideable, InSync(Q) PROVE InSyncNext(Q)
  BY <1>1, <1>11, <1>12, UpdateSync
<1> QED BY <1>6, <1>7, <1>8, <1>9, <1>10, <1>11, <1>12 DEF Sound, Keeps

\* Lists of OBB volumes, which nothing else refers to.
LEMMA ObbUpdated ==
  ASSUME Sound, NEW o \in Obbs, NEW fresh \in SUBSET {Obb(o)}, NEW old \in SUBSET {Obb(o)},
         fresh \cap vols = {}, old \subseteq vols, fresh = {} \/ old = {},
         Update(old, old, fresh, {}, {}), mounted' = mounted \ old,
         UNCHANGED <<framework, attached, place, virtual, started, keyguard, down>>
  PROVE  Keeps
<1>1. /\ Obb(o) \in ObbVolumes /\ Obb(o)[2] \notin Disks /\ Obb(o) \in Volumes
      /\ \A k \in Kinds, d \in Devices : OnDisk(k, d) # Obb(o)
      /\ \A s \in Stubs : Stub(s) # Obb(o)
      /\ \A h, u : Emulated(h, u) # Obb(o)
  BY VolumesAssumption DEF ObbVolumes, Obb, Volumes, OnDisk, Stub, Emulated, Kinds
<1>2. Above(old) = {}
  BY <1>1, AboveIs, VolumeForms DEF Kinds
<1>3. /\ vols' = (vols \ old) \cup fresh /\ created' = (created \ old) \cup fresh
      /\ scanned' = scanned /\ ~clash'
  BY <1>2 DEF Update, Sound, UserVolumes
<1>4. Typed'
  BY <1>1, <1>3 DEF Sound, Typed
<1>5. DisksKept'
  BY <1>3 DEF Sound, DisksKept, Listed
<1>6. VolumesKept'
  <2>1. created' = {w \in vols' : w[2] \notin Pending'}
    BY <1>1, <1>3 DEF Sound, VolumesKept, Pending
  <2> QED BY <1>1, <1>3, <2>1 DEF Sound, VolumesKept
<1>7. UserVolumes'
  BY <1>1, <1>3 DEF Sound, UserVolumes, Kinds
<1>8. PendingWaits' /\ (framework' # "synced" => heard' = {})
  BY DEF Sound, PendingWaits, Pending, Update
<1>9. old \subseteq created
  BY <1>1 DEF Sound, VolumesKept, Pending
<1>10. ~aborted'
  BY <1>2, <1>3, <1>9 DEF Sound, DisksKept, Listed, Update
<1>11. ASSUME NEW Q \in SUBSET Hideable, InSync(Q) PROVE InSyncNext(Q)
  BY <1>10, <1>11, UpdateSync DEF Hideable
<1> QED BY <1>4, <1>5, <1>6, <1>7, <1>8, <1>10, <1>11 DEF Sound, Keeps

\* createStubVolume.
LEMMA StubCreated ==
  ASSUME Sound, ~aborted, NEW s \in Stubs, createStubVolume(s)
  PROVE  Keeps
<1>1. /\ place[s] = "absent" /\ vols' = vols \cup {Stub(s)}
      /\ UNCHANGED <<attached, virtual, mounted, started, keyguard, framework, down, aborted, clash>>
  BY DEF createStubVolume
<1>2. /\ Stub(s) \in Volumes /\ Stub(s)[2] = s
      /\ \A k \in Kinds, d \in Devices : OnDisk(k, d) # Stub(s)
      /\ \A h, u : Emulated(h, u) # Stub(s)
      /\ \A r \in Stubs : Stub(r) = Stub(s) => r = s
      /\ s \in Disks /\ s \notin Devices
      /\ \A v \in vols : v[2] # s
  BY <1>1, Hosts, VolumesAssumption DEF StubVolumes, Volumes, OnDisk, Stub, Emulated, Kinds, Disks
<1>3. /\ place' \in [Disks -> {"absent", "pending", "listed"}]
      /\ \A d \in Disks : d # s => place'[d] = place[d]
      /\ \/ /\ Waiting(started) /\ place'[s] = "pending" /\ UNCHANGED <<scanned, created, heard>>
         \/ /\ place'[s] = "listed" /\ scanned' = scanned \cup {s} /\ created' = created \cup {Stub(s)}
            /\ heard' = IF framework = "synced" THEN heard \cup {Stub(s)} ELSE {}
  BY <1>2 DEF createStubVolume, Sound, Typed
<1>4. Typed'
  BY <1>1, <1>2, <1>3 DEF Sound, Typed
<1>5. DisksKept'
  BY <1>1, <1>2, <1>3, VolumesAssumption DEF Sound, DisksKept, Listed, Disks
<1>6. VolumesKept'
  <2>1. created' = {w \in vols' : w[2] \notin Pending'}
    BY <1>1, <1>2, <1>3 DEF Sound, VolumesKept, Pending
  <2>2. \A r \in Stubs : /\ Stub(r) \in vols' => place'[r] # "absent"
                         /\ place'[r] = "pending" => Stub(r) \in vols'
    BY <1>1, <1>2, <1>3 DEF Sound, VolumesKept, Disks
  <2>3. \A k \in Kinds, d \in Devices : OnDisk(k, d) \in vols' => place'[d] = "listed"
    BY <1>1, <1>2, <1>3 DEF Sound, VolumesKept, Disks
  <2> QED BY <1>1, <1>3, <2>1, <2>2, <2>3 DEF Sound, VolumesKept
<1>7. UserVolumes'
  BY <1>1, <1>2 DEF Sound, UserVolumes, Kinds
<1>8. PendingWaits' /\ (framework' # "synced" => heard' = {})
  BY <1>1, <1>3 DEF Sound, PendingWaits, Pending, Waiting
<1>9. ASSUME NEW Q \in SUBSET Hideable, InSync(Q) PROVE InSyncNext(Q)
  BY <1>1, <1>2, <1>3, <1>9 DEF InSync, InSyncNext, Hideable
<1> QED BY <1>1, <1>4, <1>5, <1>6, <1>7, <1>8, <1>9 DEF Sound, Keeps

\* setListener.
LEMMA Listener ==
  ASSUME Sound, ~aborted, setListener
  PROVE  Keeps
<1> USE DEF setListener, env
<1>1. Typed' /\ DisksKept' /\ VolumesKept' /\ PendingWaits' /\ UserVolumes'
  BY DEF Sound, Typed, DisksKept, VolumesKept, PendingWaits, UserVolumes, Listed, Pending
<1> QED BY <1>1 DEF Sound, Keeps, InSyncNext

\* shutdown.
LEMMA Shutdown ==
  ASSUME Sound, shutdown
  PROVE  Keeps
<1> DEFINE destroyed == (vols \cap Internal) \cup {v \in vols : v[2] \in Listed}
<1> DEFINE gone == (vols \cap Internal) \cup {v \in vols : v[2] \in Listed \cup Pending}
<1>1. /\ Update(Destroyed(TornDown), TornDown \cup VolumesOf(Pending), {}, Listed, {})
      /\ place' = [d \in Disks |-> "absent"] /\ mounted' = mounted \ Destroyed(TornDown)
      /\ down' = TRUE
      /\ UNCHANGED <<framework, attached, virtual, started, keyguard>>
  BY DEF shutdown
<1>2. /\ Destroyed(TornDown) = destroyed
      /\ (TornDown \cup VolumesOf(Pending)) \cup Above(TornDown \cup VolumesOf(Pending)) = gone
  BY TornDownIs DEF Pending
<1>3. /\ vols' = vols \ gone /\ created' = created \ destroyed /\ mounted' = mounted \ destroyed
      /\ scanned' = scanned \ Listed /\ ~clash'
  BY <1>1, <1>2 DEF Update, Sound, UserVolumes
<1>4. created \cap gone = destroyed
  BY VolumeForms, VolumesAssumption
     DEF Sound, VolumesKept, Typed, Listed, Pending
<1>5. \A v \in vols' : v[2] \notin Disks /\ v \notin Internal
  BY <1>3, Hosts DEF Sound, Typed, Listed, Pending
<1>6. Typed'
  BY <1>1, <1>3 DEF Sound, Typed
<1>7. DisksKept'
  BY <1>1, <1>3, VolumesAssumption DEF Sound, DisksKept, Listed, Disks
<1>8. VolumesKept'
  <2>1. /\ \A s \in Stubs : Stub(s) \notin vols' /\ place'[s] # "pending"
        /\ \A k \in Kinds, d \in Devices : OnDisk(k, d) \notin vols'
    BY <1>1, <1>5, Constructors DEF Disks
  <2>2. Pending' = {}
    BY <1>1 DEF Pending
  <2>3. created' = {w \in vols' : w[2] \notin Pending'}
    BY <1>3, <1>4, <1>5, <2>2 DEF Sound, VolumesKept, Pending
  <2> QED BY <1>3, <2>1, <2>3 DEF Sound, VolumesKept
<1>9. UserVolumes'
  BY <1>1, <1>3, <1>5, Constructors DEF UserVolumes, Disks, Kinds
<1>10. PendingWaits' /\ (framework' # "synced" => heard' = {})
  BY <1>1 DEF PendingWaits, Pending, Update
<1>11. ~aborted'
  BY <1>1, <1>2, <1>3, <1>4 DEF Sound, VolumesKept, DisksKept, Update
<1>12. ASSUME NEW Q \in SUBSET Hideable, InSync(Q) PROVE InSyncNext(Q)
  BY <1>1, <1>11, <1>12, UpdateSync
<1> QED BY <1>6, <1>7, <1>8, <1>9, <1>10, <1>11, <1>12 DEF Sound, Keeps

\* reset, with updateVirtualDisk.
LEMMA Reset ==
  ASSUME Sound, NEW prop \in BOOLEAN, reset(prop)
  PROVE  Keeps
<1> DEFINE added == VirtualAdded(prop)
<1> DEFINE removed == VirtualRemoved(prop)
<1> DEFINE reopened == Recreated \ removed
<1> DEFINE opened == reopened \cup (IF Waiting(started) THEN {} ELSE added)
<1> DEFINE mentioned == Stubs \cup removed
<1> DEFINE destroyed == (vols \cap Internal) \cup {v \in vols : v[2] \in Listed}
<1> DEFINE gone == (vols \cap Internal) \cup {v \in vols : v[2] \in Listed \cup mentioned}
<1>1. PICK found \in Scans(opened) :
        Update(Destroyed(TornDown), TornDown \cup VolumesOf(mentioned), found, Listed, opened)
  BY DEF reset
<1>2. /\ framework' = (IF framework = "none" THEN "none" ELSE "synced")
      /\ virtual' = ((virtual \/ added # {}) /\ removed = {})
      /\ place' = [d \in Disks |->
                     IF d \in mentioned THEN "absent"
                     ELSE IF d \in added THEN IF Waiting(started) THEN "pending" ELSE "listed"
                     ELSE place[d]]
      /\ mounted' = mounted \ Destroyed(TornDown)
      /\ started' = {} /\ down' = FALSE
      /\ UNCHANGED <<attached, keyguard>>
  BY DEF reset
<1>3. /\ added \subseteq VirtualDisks /\ removed \subseteq VirtualDisks
      /\ added # {} => removed = {} /\ ~virtual
      /\ removed # {} => removed = VirtualDisks
      /\ mentioned \subseteq Disks /\ opened \subseteq Devices /\ opened \cap mentioned = {}
      /\ added \cap Stubs = {}
  BY VolumesAssumption DEF VirtualAdded, VirtualRemoved, Recreated, Listed, Disks
<1>4. /\ Destroyed(TornDown) = destroyed
      /\ (TornDown \cup VolumesOf(mentioned)) \cup Above(TornDown \cup VolumesOf(mentioned)) = gone
  BY <1>3, TornDownIs
<1>5. {Stub(s) : s \in opened \cap Stubs} = {}
  BY <1>3, VolumesAssumption
<1>6. /\ vols' = (vols \ gone) \cup found /\ created' = (created \ destroyed) \cup found
      /\ mounted' = mounted \ destroyed /\ scanned' = (scanned \ Listed) \cup opened
      /\ heard' = IF framework' = "synced" THEN (heard \ destroyed) \cup found ELSE {}
      /\ clash' = (clash \/ found \cap (vols \ gone) # {})
  BY <1>1, <1>2, <1>4, <1>5 DEF Update
<1>7. created \cap gone = destroyed
  BY Hosts, VolumeForms, VolumesAssumption, <1>3
     DEF Sound, VolumesKept, Typed, Listed, Pending
<1>8. /\ found \subseteq DiskVolumes /\ \A v \in found : v[2] \in opened
  BY <1>1, ScansIs
<1>9. vols \ gone \subseteq ObbVolumes
  BY Hosts, VolumeForms, <1>3 DEF Sound, Typed, Volumes, Listed, Disks
<1>10. /\ place' \in [Disks -> {"absent", "pending", "listed"}]
       /\ \A d \in mentioned : place'[d] = "absent"
       /\ \A d \in Disks \ (mentioned \cup added) : place'[d] = place[d]
       /\ \A d \in added : place'[d] = IF Waiting(started) THEN "pending" ELSE "listed"
  BY <1>2, <1>3, VolumesAssumption DEF Sound, Typed, Disks
<1>11. Listed' = opened
  <2>1. \A d \in added : d \notin Listed
    BY <1>3, VolumesAssumption DEF Listed, Sound, DisksKept
  <2> QED BY <1>3, <1>10, <2>1, VolumesAssumption DEF Listed, Recreated, Disks
<1> HIDE DEF added, removed, mentioned, opened, reopened
<1>12. Typed'
  BY <1>2, <1>6, <1>8, <1>10, DiskVolumesOnly DEF Sound, Typed
<1>13. DisksKept'
  <2>1. scanned' = Listed'
    BY <1>6, <1>11 DEF Sound, DisksKept
  <2>2. ASSUME NEW d \in Devices \ VirtualDisks PROVE place'[d] # "absent" => d \in attached'
    BY <1>2, <1>3, <1>10 DEF Sound, DisksKept, Disks, mentioned
  <2>3. ASSUME NEW d \in VirtualDisks PROVE place'[d] # "absent" => virtual'
    BY <1>2, <1>3, <1>10, VolumesAssumption DEF Sound, DisksKept, Disks, mentioned
  <2> QED BY <2>1, <2>2, <2>3 DEF DisksKept
<1>14. \A v \in vols' : v \in ObbVolumes \/ (v \in DiskVolumes /\ place'[v[2]] = "listed")
  BY <1>6, <1>8, <1>9, <1>11 DEF Listed
<1>15. VolumesKept'
  <2>1. /\ \A s \in Stubs : Stub(s) \notin vols' /\ place'[s] # "pending"
        /\ \A k \in Kinds, d \in Devices : OnDisk(k, d) \in vols' => place'[d] = "listed"
    <3>1. \A s \in Stubs : Stub(s) \notin ObbVolumes \cup DiskVolumes
      BY DEF Stub, ObbVolumes, Obb, DiskVolumes, OnDisk, Kinds
    <3>2. \A k \in Kinds, d \in Devices : OnDisk(k, d) \notin ObbVolumes
      BY Constructors, DiskVolumesOnly
    <3> QED BY <1>10, <1>14, <3>1, <3>2, Constructors DEF mentioned
  <2>2. created' = {w \in vols' : w[2] \notin Pending'}
    BY <1>6, <1>7, <1>8, <1>9, <1>14, VolumeForms DEF Sound, VolumesKept, Pending
  <2>3. mounted' \subseteq created'
    BY <1>6 DEF Sound, VolumesKept
  <2> QED BY <2>1, <2>2, <2>3 DEF VolumesKept
<1>16. UserVolumes'
  <2>1. ~clash'
    BY <1>6, <1>8, <1>9, DiskVolumesOnly DEF Sound, UserVolumes
  <2>2. \A h, u : Emulated(h, u) \notin vols'
    BY <1>14 DEF Emulated, ObbVolumes, Obb, DiskVolumes, OnDisk, Kinds
  <2> QED BY <1>2, <2>1, <2>2 DEF UserVolumes
<1>17. PendingWaits' /\ (framework' # "synced" => heard' = {})
  BY <1>2, <1>6 DEF PendingWaits
<1>18. ~aborted'
  BY <1>1, <1>4, <1>5, <1>6, <1>7, <1>11 DEF Sound, VolumesKept, DisksKept, Listed, Update
<1>19. ASSUME NEW Q \in SUBSET Hideable, InSync(Q) PROVE InSyncNext(Q)
  <2>1. created \ destroyed \subseteq ObbVolumes
    BY <1>7, <1>9 DEF Sound, VolumesKept
  <2>2. framework = "none" \/ framework = "connected" \/ framework = "synced"
    BY DEF Sound, Typed
  <2>3. heard \subseteq created
    BY <2>2, <1>19 DEF Sound, InSync
  <2>4. Q \cap vols' = {}
    BY <1>14 DEF Hideable, Stacked, Internal, Emulated, ObbVolumes, Obb, DiskVolumes, OnDisk, Kinds
  <2> QED BY <1>6, <2>1, <2>3, <2>4 DEF InSyncNext
<1> QED BY <1>12, <1>13, <1>15, <1>16, <1>17, <1>18, <1>19 DEF Sound, Keeps

\* A process that starts is in order.
LEMMA Fresh ==
  ASSUME Init
  PROVE  Sound /\ ChecksHold /\ FrameworkInSync
<1> USE DEF Init
<1>1. Typed
  <2>1. virtual \in BOOLEAN
    BY Zenon
  <2>2. place \in [Disks -> {"absent", "pending", "listed"}]
    OBVIOUS
  <2> QED BY <2>1, <2>2, Constructors DEF Typed, Volumes
<1>2. DisksKept
  BY VolumesAssumption DEF DisksKept, Listed, Disks
<1>3. VolumesKept
  <2>1. vols = {Emulated(None, Boot)} /\ created = vols /\ mounted = {}
    OBVIOUS
  <2>2. \A s \in Stubs : place[s] = "absent"
    BY VolumesAssumption DEF Disks
  <2>3. /\ \A s \in Stubs : Stub(s) # Emulated(None, Boot)
        /\ \A k \in Kinds, d \in Devices : OnDisk(k, d) # Emulated(None, Boot)
        /\ Emulated(None, Boot)[2] \notin Disks
    BY VolumesAssumption DEF Stub, Emulated, OnDisk, Kinds
  <2> QED BY <2>1, <2>2, <2>3 DEF VolumesKept, Pending
<1>4. UserVolumes
  BY Constructors, VolumesAssumption DEF UserVolumes, Disks
<1>5. PendingWaits /\ (framework # "synced" => heard = {}) /\ ChecksHold /\ FrameworkInSync
  BY DEF PendingWaits, ChecksHold, FrameworkInSync
<1> QED BY <1>1, <1>2, <1>3, <1>4, <1>5 DEF Sound

\* So is one that starts again.
LEMMA Restarted ==
  ASSUME Restart
  PROVE  (Sound /\ ChecksHold /\ FrameworkInSync)'
<1> USE DEF Restart
<1>1. Typed'
  <2>1. virtual' \in BOOLEAN
    BY Zenon
  <2>2. place' \in [Disks -> {"absent", "pending", "listed"}]
    OBVIOUS
  <2> QED BY <2>1, <2>2, Constructors DEF Typed, Volumes
<1>2. DisksKept'
  BY VolumesAssumption DEF DisksKept, Listed, Disks
<1>3. VolumesKept'
  BY Constructors, VolumesAssumption, VolumeForms, DiskVolumesOnly DEF VolumesKept, Pending, Disks
<1>4. UserVolumes'
  BY Constructors, VolumesAssumption DEF UserVolumes, Disks
<1>5. (PendingWaits /\ (framework # "synced" => heard = {}) /\ ChecksHold /\ FrameworkInSync)'
  BY DEF PendingWaits, ChecksHold, FrameworkInSync
<1> QED BY <1>1, <1>2, <1>3, <1>4, <1>5 DEF Sound

\* Every handler keeps all of it.
LEMMA HandlerKeeps ==
  ASSUME Sound, ~aborted, Handler
  PROVE  Keeps
<1>1. ASSUME NEW d \in Devices, handleDiskAdded(d) PROVE Keeps
  BY <1>1, Added
<1>2. ASSUME NEW d \in Devices, handleDiskChanged(d) PROVE Keeps
  <2>1. PICK found \in Scans({d}) :
          Update(Destroyed(VolumesOf({d})), VolumesOf({d}), found, {}, {})
    BY <1>2 DEF handleDiskChanged
  <2>2. found \in SUBSET DiskVolumes /\ \A v \in found : v[2] = d
    BY <2>1, ScansIs
  <2> QED BY <1>2, <2>1, <2>2, Rescanned DEF handleDiskChanged, Disks
<1>3. ASSUME NEW d \in Devices, handleDiskRemoved(d) PROVE Keeps
  BY <1>3, Removal, {d} \in SUBSET Disks DEF handleDiskRemoved, Disks
<1>4. ASSUME NEW d \in Disks, partition(d) PROVE Keeps
  BY <1>4, Rescanned, {} \in SUBSET DiskVolumes DEF partition
<1>5. ASSUME NEW s \in Stubs, createStubVolume(s) PROVE Keeps
  BY <1>5, StubCreated
<1>6. ASSUME NEW s \in Stubs, destroyStubVolume(s) PROVE Keeps
  BY <1>6, Removal, {s} \in SUBSET Disks DEF destroyStubVolume, Disks
<1>7. ASSUME NEW o \in Obbs, createObb(o) PROVE Keeps
  BY <1>7, ObbUpdated, {} \in SUBSET {Obb(o)}, {Obb(o)} \in SUBSET {Obb(o)},
     mounted \ {} = mounted DEF createObb
<1>8. ASSUME NEW o \in Obbs, destroyObb(o) PROVE Keeps
  BY <1>8, ObbUpdated, {} \in SUBSET {Obb(o)}, {Obb(o)} \in SUBSET {Obb(o)} DEF destroyObb
<1> QED BY <1>1, <1>2, <1>3, <1>4, <1>5, <1>6, <1>7, <1>8, Started, Stopped, Keyguard, Mounts,
           Unmounts, Listener, Reset, Shutdown DEF Handler

\* Ind is inductive.
LEMMA Inductive ==
  Sound /\ ChecksHold /\ FrameworkInSync /\ [Next]_vars => (Sound /\ ChecksHold /\ FrameworkInSync)'
<1> SUFFICES ASSUME Sound, ChecksHold, FrameworkInSync, [Next]_vars
             PROVE  (Sound /\ ChecksHold /\ FrameworkInSync)'
  OBVIOUS
<1>1. CASE ~aborted /\ Handler
  <2>1. Keeps
    BY <1>1, HandlerKeeps
  <2>2. InSync({}) => InSyncNext({})
    BY <2>1 DEF Keeps
  <2> QED BY <2>1, <2>2 DEF Keeps, InSync, InSyncNext, ChecksHold, FrameworkInSync
<1>2. CASE Restart
  BY <1>2, Restarted
<1>3. CASE UNCHANGED vars
  BY <1>3 DEF vars, Sound, Typed, DisksKept, VolumesKept, PendingWaits, UserVolumes, Listed,
     Pending, ChecksHold, FrameworkInSync
<1> QED BY <1>1, <1>2, <1>3 DEF Next

\* Ind holds of every behaviour.
LEMMA VolumesInvariant == Spec => []Ind
<1>1. Init => Ind
  BY Fresh DEF Ind
<1>2. Ind /\ [Next]_vars => Ind'
  BY Inductive DEF Ind
<1> QED BY <1>1, <1>2, PTL DEF Spec

\* No order of block events, users, keyguard, mounts, resets and shutdowns fails a CHECK
\* of VolumeBase::create, VolumeBase::destroy, their destructors or those of Disk,
\* whatever the number of disks, users and volumes.
THEOREM ChecksNeverFail == Spec => []ChecksHold
<1>1. Ind => ChecksHold
  BY DEF Ind
<1> QED BY <1>1, VolumesInvariant, PTL

\* onUserStarted, onUserStopped and PrivateVolume::doPostMount between them keep exactly
\* one emulated volume for every started user above every mounted private volume.
THEOREM UsersHaveTheirVolumes == Spec => []UserVolumes
<1>1. Ind => UserVolumes
  BY DEF Ind, Sound
<1> QED BY <1>1, VolumesInvariant, PTL

\* createPendingDisksIfNeeded is called wherever the wait can end: no disk stays pending
\* once the keyguard is gone and user 0 is started.
THEOREM NoDiskForgotten == Spec => []PendingWaits
<1>1. Ind => PendingWaits
  BY DEF Ind, Sound
<1> QED BY <1>1, VolumesInvariant, PTL

\* A handler creates a disk that is not created only when no disk has to wait.
LEMMA OpenedUnlocked ==
  ASSUME Sound, Handler
  PROVE  \A d \in scanned' \ scanned : ~keyguard' /\ UserZero \in started \cup started'
<1> DEFINE Unlocked == \A d \in scanned' \ scanned : ~keyguard' /\ UserZero \in started \cup started'
<1>1. \A destroyed, dropped, fresh, closed, opened :
        Update(destroyed, dropped, fresh, closed, opened) => scanned' \subseteq scanned \cup opened
  BY DEF Update
<1>2. ASSUME NEW d \in Devices, handleDiskAdded(d) PROVE Unlocked
  BY <1>1, <1>2 DEF handleDiskAdded, Waiting
<1>3. ASSUME NEW d \in Devices, handleDiskChanged(d) PROVE Unlocked
  BY <1>1, <1>3 DEF handleDiskChanged
<1>4. ASSUME NEW D, Remove(D) PROVE Unlocked
  BY <1>1, <1>4 DEF Remove
<1>5. ASSUME NEW d \in Disks, partition(d) PROVE Unlocked
  BY <1>1, <1>5 DEF partition
<1>6. ASSUME NEW s \in Stubs, createStubVolume(s) PROVE Unlocked
  BY <1>6 DEF createStubVolume, Waiting
<1>7. ASSUME NEW waiting \in BOOLEAN, NEW fresh, CreatePending(waiting, fresh),
             ~waiting => ~keyguard' /\ UserZero \in started'
      PROVE  Unlocked
  BY <1>1, <1>7 DEF CreatePending
<1>8. ASSUME NEW u \in Users, onUserStarted(u) PROVE Unlocked
  <2>1. /\ Waiting(started') \in BOOLEAN
        /\ ~Waiting(started') => ~keyguard' /\ UserZero \in started'
    BY <1>8 DEF onUserStarted, Waiting, Sound, Typed
  <2> QED BY <1>7, <1>8, <2>1 DEF onUserStarted
<1>9. ASSUME NEW isShowing \in BOOLEAN, onSecureKeyguardStateChanged(isShowing) PROVE Unlocked
  BY <1>7, <1>9 DEF onSecureKeyguardStateChanged
<1>10. ASSUME NEW u \in Users, onUserStopped(u) PROVE Unlocked
  BY <1>1, <1>10 DEF onUserStopped
<1>11. ASSUME NEW v, mount(v) \/ unmount(v) PROVE Unlocked
  BY <1>1, <1>11 DEF mount, unmount
<1>12. ASSUME NEW o, createObb(o) \/ destroyObb(o) PROVE Unlocked
  BY <1>1, <1>12 DEF createObb, destroyObb
<1>13. ASSUME NEW prop \in BOOLEAN, reset(prop) PROVE Unlocked
  <2>1. Recreated \subseteq scanned
    BY DEF Recreated, Sound, DisksKept
  <2>2. scanned' \subseteq scanned \/ (keyguard' = keyguard /\ ~Waiting(started))
    BY <1>1, <1>13, <2>1 DEF reset
  <2> QED BY <2>2 DEF Waiting
<1>14. CASE shutdown \/ setListener
  BY <1>1, <1>14 DEF shutdown, setListener, env
<1>15. ASSUME NEW d, handleDiskRemoved(d) \/ destroyStubVolume(d) PROVE Unlocked
  BY <1>4, <1>15 DEF handleDiskRemoved, destroyStubVolume
<1> QED BY <1>2, <1>3, <1>5, <1>6, <1>8, <1>9, <1>10, <1>11, <1>12, <1>13, <1>14, <1>15 DEF Handler

\* handleDiskAdded, createPendingDisksIfNeeded, updateVirtualDisk and reset between them
\* read no disk for the first time while the device is locked.
THEOREM LockedDisksStayUnread == Spec => LockedDisksUnread
<1>1. Ind /\ [Next]_vars =>
        [\A d \in scanned' \ scanned : ~keyguard' /\ UserZero \in started \cup started']_vars
  BY OpenedUnlocked DEF Ind, Next, Restart
<1> QED BY <1>1, VolumesInvariant, PTL DEF Spec, LockedDisksUnread

\* After a reset, the volumes that the listener was told of (and not told of the end of)
\* are the created ones, OBB volumes from before the reset apart.
THEOREM FrameworkStaysInSync == Spec => []FrameworkInSync
<1>1. Ind => FrameworkInSync
  BY DEF Ind
<1> QED BY <1>1, VolumesInvariant, PTL

-----------------------------------------------------------------------------
(* MoveStorage *)

Labels == {"none", "offline", "clean", "copy", "undo", "online", "delete", "fail"}

\* The values of the thread's variables.
MoveTyped ==
  /\ move \in [pc : Labels, from : EmulatedVolumes \cup {None}, to : EmulatedVolumes \cup {None},
               lost : SUBSET EmulatedVolumes, src : BOOLEAN, dst : BOOLEAN, unread : BOOLEAN]
  /\ move.pc # "none" => move.from \in EmulatedVolumes /\ move.to \in EmulatedVolumes

\* Where the data are, by what the thread does.
DataKept ==
  /\ move.pc \notin {"none", "fail"} => move.src
  /\ move.pc \in {"online", "delete"} => move.dst \/ move.unread
  /\ MoveKeepsData

\* The volumes of the move are there or lost, and only they are hidden, while it works
\* on them.
MoveTracked ==
  /\ move.pc # "none" /\ move.lost = {} => Both \subseteq vols
  /\ silent \subseteq vols /\ silent \subseteq EmulatedVolumes
  /\ move.pc # "none" => silent \subseteq Both
  /\ move.pc \in {"none", "offline", "delete"} => silent = {}

\* The strengthening for MoveStorage: it rests on Sound, which every handler keeps
\* whether or not a move is going on.
MoveInd == MoveTyped /\ DataKept /\ MoveTracked /\ Sound /\ InSync(silent)

\* Emulated volumes may be mounted or not: no other volume depends on it.
LEMMA EmulatedMounts ==
  ASSUME Sound, NEW B \in SUBSET (vols \cap EmulatedVolumes), NEW M \in SUBSET B,
         mounted' = (mounted \ B) \cup M, framework' # "synced" => heard' = {},
         UNCHANGED <<env, vols, created, started, keyguard, framework, down, clash>>
  PROVE  Sound'
<1>1. \A v \in B : v \in created /\ v \notin DiskVolumes
  BY Hosts, VolumeForms, DiskVolumesOnly, VolumesAssumption
     DEF EmulatedVolumes, Sound, VolumesKept, Pending, Disks
<1>2. VolumesKept'
  BY <1>1 DEF Sound, VolumesKept, Pending, env
<1>3. UserVolumes'
  BY <1>1, Constructors DEF Sound, UserVolumes, Kinds
<1>4. Typed' /\ DisksKept' /\ PendingWaits'
  BY DEF Sound, Typed, DisksKept, PendingWaits, Pending, Listed, env
<1> QED BY <1>2, <1>3, <1>4 DEF Sound

\* However a move ends, the data is where the move has left it.
LEMMA Ends ==
  ASSUME MoveTyped, NEW src \in BOOLEAN, MoveEnded(src), src \/ move.dst \/ move.unread
  PROVE  MoveTyped' /\ DataKept' /\ move'.pc = "none"
<1>1. /\ move' = [pc |-> "none", from |-> None, to |-> None, lost |-> {},
                  src |-> src, dst |-> move.dst, unread |-> move.unread]
      /\ move.dst \in BOOLEAN /\ move.unread \in BOOLEAN
  BY DEF MoveEnded, NoMove, MoveTyped
<1>2. MoveTyped' /\ move'.pc = "none"
  BY <1>1 DEF MoveTyped, Labels
<1>3. move'.src = src /\ move'.dst = move.dst /\ move'.unread = move.unread
  BY <1>1
<1> QED BY <1>2, <1>3 DEF DataKept, MoveKeepsData

\* A move begins with nothing hidden and nothing lost.
LEMMA MoveInitial == MoveInit => MoveInd
<1> SUFFICES ASSUME MoveInit PROVE MoveInd
  OBVIOUS
<1> USE DEF MoveInit, NoMove
<1>1. Sound /\ ChecksHold /\ FrameworkInSync
  BY Fresh
<1>2. MoveTyped /\ DataKept /\ MoveTracked
  BY <1>1 DEF MoveTyped, Labels, DataKept, MoveKeepsData, MoveTracked
<1> QED BY <1>1, <1>2 DEF MoveInd, InSync, FrameworkInSync

\* A handler of VolumeManager between two steps of the move.
LEMMA HandlerDuringMove ==
  ASSUME MoveInd, ~aborted, Handler, NoticeLost
  PROVE  MoveInd'
<1>1. Keeps
  BY HandlerKeeps DEF MoveInd
<1>2. silent \in SUBSET Hideable
  BY DEF MoveInd, MoveTracked, Hideable, EmulatedVolumes
<1>3. silent' = silent \cap vols'
  BY DEF NoticeLost
<1>4. InSync(silent)'
  BY <1>1, <1>2, <1>3 DEF Keeps, MoveInd, InSync, InSyncNext
<1>5. CASE move.pc = "none"
  <2>1. move' = move
    BY <1>5 DEF NoticeLost
  <2>2. MoveTyped' /\ DataKept' /\ MoveTracked'
    BY <1>1, <1>3, <1>5, <2>1 DEF MoveInd, MoveTyped, DataKept, MoveKeepsData, MoveTracked, Keeps
  <2> QED BY <1>1, <1>4, <2>2 DEF MoveInd, Keeps
<1>6. CASE move.pc # "none"
  <2>1. move' = [move EXCEPT !.lost = move.lost \cup (Both \ vols')]
    BY <1>6 DEF NoticeLost
  <2>2. /\ move'.lost = move.lost \cup (Both \ vols')
        /\ move'.pc = move.pc /\ move'.src = move.src /\ move'.dst = move.dst
        /\ move'.from = move.from /\ move'.to = move.to /\ move'.unread = move.unread
    BY <2>1 DEF MoveInd, MoveTyped
  <2>3. Both' = Both /\ Both \subseteq EmulatedVolumes
    BY <1>6, <2>2 DEF Both, MoveInd, MoveTyped
  <2>4. MoveTyped'
    BY <2>1, <2>2, <2>3, <1>6 DEF MoveInd, MoveTyped
  <2>5. DataKept'
    BY <2>2 DEF MoveInd, DataKept, MoveKeepsData
  <2>6. MoveTracked'
    BY <1>1, <1>3, <1>6, <2>2, <2>3 DEF MoveInd, MoveTracked, Keeps
  <2> QED BY <1>1, <1>4, <2>4, <2>5, <2>6 DEF MoveInd, Keeps
<1> QED BY <1>5, <1>6

\* The binder call that starts the thread.
LEMMA MoveBegins ==
  ASSUME MoveInd, NEW from \in EmulatedVolumes, NEW to \in EmulatedVolumes, moveStorage(from, to),
         ~aborted
  PROVE  MoveInd'
<1>1. /\ move.pc = "none" /\ {from, to} \subseteq vols
      /\ move' = [pc |-> "offline", from |-> from, to |-> to, lost |-> {},
                   src |-> TRUE, dst |-> FALSE, unread |-> FALSE]
      /\ UNCHANGED <<vars, silent>>
  BY DEF moveStorage, NoMove, findVolume
<1>2. Sound' /\ InSync(silent)' /\ aborted' = aborted
  BY <1>1 DEF MoveInd, vars, Sound, Typed, DisksKept, VolumesKept, PendingWaits, UserVolumes,
     Listed, Pending, InSync
<1>3. MoveTyped' /\ DataKept'
  BY <1>1 DEF MoveTyped, Labels, DataKept, MoveKeepsData
<1>4. MoveTracked'
  BY <1>1, <1>2 DEF MoveInd, MoveTracked, Both, vars
<1> QED BY <1>2, <1>3, <1>4 DEF MoveInd

\* The steps of the thread.
LEMMA MoveSteps ==
  ASSUME MoveInd, ~aborted, MoveStep
  PROVE  MoveInd'
<1> USE DEF MoveInd
<1>1. ASSUME NEW nowMounted \in SUBSET Both, bringOffline(nowMounted) PROVE MoveInd'
  <2>1. /\ move.pc = "offline" /\ move.lost = {} /\ move' = [move EXCEPT !.pc = "clean"]
        /\ mounted' = (mounted \ Both) \cup nowMounted
        /\ silent' = silent \cup Both /\ heard' = heard \ Both
        /\ UNCHANGED <<env, vols, created, started, keyguard, framework, down, aborted, clash>>
    BY <1>1 DEF bringOffline, MoveTo
  <2>2. Both \subseteq vols \cap EmulatedVolumes /\ Both' = Both
    BY <2>1 DEF MoveTracked, MoveTyped, Both
  <2>3. Sound'
    BY <1>1, <2>1, <2>2, EmulatedMounts DEF Sound
  <2>4. MoveTyped' /\ DataKept'
    BY <2>1 DEF MoveTyped, Labels, DataKept, MoveKeepsData
  <2>5. move'.pc = "clean" /\ move'.lost = {}
    BY <2>1 DEF MoveTyped
  <2>6. MoveTracked'
    BY <2>1, <2>2, <2>5 DEF MoveTracked
  <2>7. InSync(silent)'
    BY <2>1, <2>2 DEF InSync
  <2> QED BY <2>3, <2>4, <2>6, <2>7
<1>2. ASSUME UNCHANGED <<vars, silent>>, move' \in [pc : Labels, from : {move.from}, to : {move.to},
                lost : {move.lost}, src : BOOLEAN, dst : BOOLEAN, unread : BOOLEAN],
             move.pc # "none", move'.pc \notin {"none", "offline", "delete"}, DataKept'
      PROVE  MoveInd'
  <2>1. Sound' /\ InSync(silent)' /\ aborted' = aborted
    BY <1>2 DEF vars, Sound, Typed, DisksKept, VolumesKept, PendingWaits, UserVolumes,
       Listed, Pending, InSync
  <2>2. /\ move'.from = move.from /\ move'.to = move.to /\ move'.lost = move.lost
        /\ Both' = Both /\ vols' = vols /\ silent' = silent
    BY <1>2 DEF Both, vars
  <2>3. MoveTyped'
    BY <1>2, <2>2 DEF MoveTyped
  <2>4. MoveTracked'
    BY <1>2, <2>1, <2>2 DEF MoveTracked
  <2> QED BY <1>2, <2>1, <2>3, <2>4
<1>3. CASE CleanTarget
  BY <1>2, <1>3 DEF CleanTarget, MoveTo, MoveTyped, DataKept, MoveKeepsData, Labels
<1>4. CASE CopyData
  BY <1>2, <1>4 DEF CopyData, MoveTo, MoveTyped, DataKept, MoveKeepsData, Labels
<1>5. CASE UndoCopy
  BY <1>2, <1>5 DEF UndoCopy, MoveTo, MoveTyped, DataKept, MoveKeepsData, Labels
<1>6. ASSUME BringOnline, move.pc # "none",
             \/ move' = [move EXCEPT !.pc = "delete"] /\ move.pc = "online"
             \/ MoveEnded(move.src)
      PROVE  MoveInd'
  <2>1. /\ move.lost = {} /\ mounted' = mounted \ Both /\ silent' = silent \ Both
        /\ heard' = IF framework = "synced" THEN heard \cup Both ELSE {}
        /\ UNCHANGED <<env, vols, created, started, keyguard, framework, down, aborted, clash>>
    BY <1>6 DEF BringOnline
  <2>2. Both \subseteq vols \cap EmulatedVolumes /\ silent' = {}
    BY <1>6, <2>1 DEF MoveTracked, MoveTyped, Both
  <2>3. Both \subseteq created
    BY <2>2, Hosts, VolumeForms, VolumesAssumption
       DEF EmulatedVolumes, Sound, VolumesKept, Pending, Disks
  <2>4. Sound'
    BY <2>1, <2>2, EmulatedMounts DEF Sound
  <2>5. MoveTyped' /\ DataKept'
    <3>1. CASE move' = [move EXCEPT !.pc = "delete"] /\ move.pc = "online"
      <4>1. /\ move'.pc = "delete" /\ move'.src = move.src /\ move'.dst = move.dst
            /\ move'.unread = move.unread /\ move.src /\ (move.dst \/ move.unread)
        BY <2>1, <3>1 DEF MoveTyped, DataKept
      <4>2. MoveTyped'
        BY <3>1 DEF MoveTyped, Labels
      <4> QED BY <4>1, <4>2 DEF DataKept, MoveKeepsData
    <3>2. CASE MoveEnded(move.src)
      BY <3>2, Ends DEF MoveTyped, DataKept, MoveKeepsData
    <3> QED BY <1>6, <3>1, <3>2
  <2>6. MoveTracked'
    <3>1. CASE move' = [move EXCEPT !.pc = "delete"]
      <4>1. move'.pc = "delete" /\ move'.lost = {} /\ Both' = Both
        BY <2>1, <3>1 DEF MoveTyped, Both
      <4> QED BY <2>1, <2>2, <4>1 DEF MoveTracked
    <3>2. CASE MoveEnded(move.src)
      BY <2>1, <2>2, <3>2 DEF MoveTracked, MoveEnded, NoMove
    <3> QED BY <1>6, <3>1, <3>2
  <2>7. InSync(silent)'
    BY <2>1, <2>2, <2>3 DEF InSync, MoveTracked
  <2> QED BY <2>4, <2>5, <2>6, <2>7
<1>7. CASE bringOnline
  BY <1>6, <1>7 DEF bringOnline, MoveTo
<1>8. CASE MoveFail
  BY <1>6, <1>8 DEF MoveFail
<1>9. CASE DeleteSource
  <2>1. PICK src \in BOOLEAN : MoveEnded(src) \/ move' = [move EXCEPT !.pc = "fail", !.src = src]
    BY <1>9 DEF DeleteSource
  <2>2. CASE move' = [move EXCEPT !.pc = "fail", !.src = src]
    BY <1>2, <1>9, <2>2 DEF DeleteSource, MoveTyped, DataKept, MoveKeepsData, Labels
  <2>3. CASE MoveEnded(src)
    <3>1. Sound' /\ InSync(silent)' /\ silent' = {} /\ vols' = vols
      BY <1>9 DEF DeleteSource, vars, Sound, Typed, DisksKept, VolumesKept, PendingWaits,
         UserVolumes, Listed, Pending, InSync, MoveTracked
    <3>2. MoveTyped' /\ DataKept' /\ move'.pc = "none"
      BY <1>9, <2>3, Ends DEF DeleteSource, DataKept
    <3> QED BY <3>1, <3>2 DEF MoveTracked
  <2> QED BY <2>1, <2>2, <2>3
<1>10. CASE DestroyLost
  <2>1. Sound' /\ InSync(silent)' /\ MoveTyped' /\ DataKept'
    BY <1>10 DEF DestroyLost, env, Sound, Typed, DisksKept, VolumesKept, PendingWaits, UserVolumes,
       Listed, Pending, InSync, MoveTyped, DataKept, MoveKeepsData
  <2> QED BY <1>10, <2>1 DEF DestroyLost, MoveTracked, Both
<1> QED BY <1>1, <1>3, <1>4, <1>5, <1>7, <1>8, <1>9, <1>10 DEF MoveStep

\* MoveInd is inductive.
LEMMA MoveInductive == MoveInd /\ [MoveNext]_moveVars => MoveInd'
<1> SUFFICES ASSUME MoveInd, [MoveNext]_moveVars PROVE MoveInd'
  OBVIOUS
<1>1. CASE MoveCut
  <2>1. (Sound /\ ChecksHold /\ FrameworkInSync)' /\ silent' = {}
    BY <1>1, Restarted DEF MoveCut
  <2>2. PICK src \in {move.src, move.src /\ move.pc # "delete"} : MoveEnded(src)
    BY <1>1 DEF MoveCut
  <2>3. src \in BOOLEAN /\ (src \/ move.dst \/ move.unread)
    BY <2>2 DEF MoveInd, MoveTyped, DataKept, MoveKeepsData
  <2>4. MoveTyped' /\ DataKept' /\ move'.pc = "none"
    BY <2>2, <2>3, Ends DEF MoveInd
  <2> QED BY <2>1, <2>4 DEF MoveInd, MoveTracked, InSync, FrameworkInSync
<1>2. CASE UNCHANGED moveVars
  BY <1>2 DEF moveVars, vars, MoveInd, MoveTyped, DataKept, MoveKeepsData, MoveTracked, Both, Sound, Typed,
     DisksKept, VolumesKept, PendingWaits, UserVolumes, Listed, Pending, InSync
<1> QED BY <1>1, <1>2, HandlerDuringMove, MoveBegins, MoveSteps DEF MoveNext

\* MoveInd holds of every behaviour.
LEMMA MoveInvariant == MoveSpec => []MoveInd
BY MoveInitial, MoveInductive, PTL DEF MoveSpec

\* moveStorageInternal never deletes the only complete copy: not when a step of it fails,
\* not when handlers take the volumes away under it, and not when vold ends; unless execCp
\* took a source that it could not read to its end for a copied one.
THEOREM MoveNeverLosesData == MoveSpec => []MoveKeepsData
<1>1. MoveInd => MoveKeepsData
  BY DEF MoveInd, DataKept
<1> QED BY <1>1, MoveInvariant, PTL

\* bringOnline on every way out of a move: nothing stays hidden from the listener.
THEOREM HiddenVolumesComeBack == MoveSpec => []VolumesComeBack
<1>1. MoveInd => VolumesComeBack
  BY DEF MoveInd, MoveTracked, VolumesComeBack, InSync
<1> QED BY <1>1, MoveInvariant, PTL
=============================================================================
