-------------------------------- MODULE Disk --------------------------------
(***************************************************************************)
(* One removable disk (model/Disk.cpp): a card reader whose cards can be   *)
(* exchanged.  How a partition table is read, written and turned into      *)
(* volumes, which volumes are formatted on the way, the keys of private    *)
(* partitions, and their device-mapper devices (PrivateVolume::doCreate    *)
(* and doDestroy, VolumeEncryption.cpp).                                   *)
(*                                                                         *)
(* Block events are queued by the kernel and handled under mLock, which    *)
(* partition and forgetPartition hold too: each of them is one step.  A    *)
(* call that fails, also because vold dies in it, stops after any of its   *)
(* parts.  What the listener hears and how volumes are mounted is in       *)
(* Volumes and Mounting.                                                   *)
(*                                                                         *)
(* External: sgdisk and the kernel.  Writing a table and exchanging a card *)
(* cause a change event; sgdisk --zap-all always causes one where an MBR   *)
(* was, as partitionPublic relies on, and may cause one elsewhere.  The    *)
(* replay of coldboot may announce the disk in addition to the kernel.     *)
(***************************************************************************)
EXTENDS Naturals, Sequences, FiniteSets, SequencesExt

CONSTANTS
  Cards,      \* the cards
  Tables,     \* the partition tables that they may have at first
  NoCard,     \* the reader is empty
  MaxGuid,    \* how many private partitions are made
  MaxQueue,   \* events that wait
  MaxSwaps,   \* how often the card is exchanged
  MaxFaults   \* calls that fail

ASSUME DiskAssumption ==
  /\ NoCard \notin Cards
  /\ {MaxGuid, MaxQueue, MaxSwaps, MaxFaults} \subseteq Nat

\* A partition: its type and, if it is private, its GUID; 0 is one of another device.  A
\* table without partitions may be a file system on the whole disk.
Part(t, g) == [type |-> t, guid |-> g]
Zapped == [kind |-> "none", parts |-> <<>>, fs |-> FALSE]
Parts  == 1..3

PartType == {"public", "expand", "meta", "other"}
TableOf(guids) == [kind : {"none", "mbr", "gpt"}, fs : BOOLEAN,
                   parts : UNION {[1..n -> [type : PartType, guid : guids]] : n \in {0} \cup Parts}]

ASSUME TablesAssumption == Tables \subseteq TableOf({0})

VARIABLES
  plugged,   \* the reader is attached
  card,      \* the card in it
  table,     \* table[c]: the partition table of a card
  keys,      \* GUIDs whose key file exists
  disks,     \* the Disk objects of the device, in the order of mDisks
  dm,        \* dm[i]: the GUID whose key the mapping of partition i has, 0: none
  method,    \* ro.crypto.volume.metadata.method
  queue,     \* block events
  guids,     \* how many GUIDs have been made
  swaps, faults,
  asked,     \* history: cards on which partition was called
  lost,      \* history: cards that were formatted without that
  loose,     \* history: a call failed, or the card was exchanged before the scan that follows it
  leftover,  \* history: a mapping was busy, or vold died
  forgotten  \* history: GUIDs that were forgotten

history == <<asked, lost, loose, leftover, forgotten>>
vars == <<plugged, card, table, keys, disks, dm, method, queue, guids, swaps, faults, history>>

Fault == faults < MaxFaults /\ faults' = faults + 1
Post(events) == Len(queue) + Len(events) <= MaxQueue /\ queue' = queue \o events

-----------------------------------------------------------------------------
(* Volumes *)

\* mJustPartitioned, mSkipChange, mSize (of which card), mVolumes; and, as history, owed: a
\* call has succeeded, and unread: a call or a scan has failed, and no scan followed.
NewDisk == [just |-> FALSE, skip |-> FALSE, size |-> NoCard, vols |-> {}, owed |-> FALSE, unread |-> FALSE]

createPublicVolume(i) == [kind |-> "public", part |-> i, guid |-> 0]
createPrivateVolume(i, g) == [kind |-> "private", part |-> i, guid |-> g]

\* What a scan of the card in the reader finds.  Private partitions without a key are left out.
VolumesOnCard ==
  IF card = NoCard \/ ~plugged THEN {}
  ELSE LET ps == table[card].parts IN
       IF ps = <<>> THEN IF table[card].fs THEN {createPublicVolume(0)} ELSE {}
       ELSE {createPublicVolume(i) : i \in {j \in DOMAIN ps : ps[j].type = "public"}} \cup
            {createPrivateVolume(i, ps[i].guid) :
               i \in {j \in DOMAIN ps : ps[j].type = "expand" /\ ps[j].guid \in keys}}

Private(vols, i) == {v \in vols : v.kind = "private" /\ v.part = i}

\* The mappings after doDestroy of the volumes vols.
doDestroy(vols) == [i \in Parts |-> IF Private(vols, i) # {} THEN 0 ELSE dm[i]]

\* Old mappings are torn down first.
DeleteDeviceIfExists(old, g) == g

\* The mappings m after doCreate of the volumes vols.
doCreate(m, vols) ==
  [i \in Parts |-> IF Private(vols, i) = {} THEN m[i]
                   ELSE DeleteDeviceIfExists(m[i], (CHOOSE v \in vols : v \in Private(vols, i)).guid)]

-----------------------------------------------------------------------------
(* Scans *)

\* mSkipChange skips both.
readMetadata(d) == IF d.skip THEN d ELSE [d EXCEPT !.size = card]

\* Mutant of readPartitions: the flag stays.
ReadPartitionsKeepFlag(d) ==
  IF d.skip THEN [d EXCEPT !.skip = FALSE]
  ELSE [d EXCEPT !.vols = VolumesOnCard, !.owed = FALSE, !.unread = FALSE]

\* The flag is cleared on every way out, but not when the scan is skipped.
readPartitions(d) ==
  IF d.skip THEN [d EXCEPT !.skip = FALSE]
  ELSE [d EXCEPT !.vols = VolumesOnCard, !.just = FALSE, !.owed = FALSE, !.unread = FALSE]

AllVolumes(ds) == UNION {d.vols : d \in ToSet(ds)}

\* The objects ds that do not skip the scan, and the volumes they had.
Scanned(ds) == {d \in ToSet(ds) : ~d.skip}
Dropped(ds) == UNION {d.vols : d \in Scanned(ds)}

\* Objects that were just partitioned format every volume they find.
Formats(ds) ==
  lost' = IF VolumesOnCard # {} /\ card \notin asked /\ \E d \in Scanned(ds) : d.just
          THEN lost \cup {card} ELSE lost

\* The objects ds, which come after others, are scanned one after the other.
Scan(others, ds) ==
  /\ disks' = others \o [i \in DOMAIN ds |-> readPartitions(readMetadata(ds[i]))]
  /\ dm' = IF Scanned(ds) = {} THEN dm ELSE doCreate(doDestroy(Dropped(ds)), VolumesOnCard)
  /\ Formats(ds)
  /\ UNCHANGED <<leftover, faults>>

\* The number of minors cannot be read, sgdisk fails, or a mapping cannot be set up or the
\* one before it is busy: the volume is there nevertheless.
ScanFails(others, ds) ==
  LET After(Read(_)) == others \o [i \in DOMAIN ds |-> [Read(readMetadata(ds[i])) EXCEPT !.unread = TRUE]] IN
  /\ Fault
  /\ \/ disks' = After(LAMBDA d : d) /\ UNCHANGED <<dm, lost, leftover>>
     \/ /\ Scanned(ds) # {}
        /\ disks' = After(LAMBDA d : [readPartitions(d) EXCEPT !.vols = IF d.skip THEN @ ELSE {}])
        /\ dm' = doDestroy(Dropped(ds)) /\ UNCHANGED <<lost, leftover>>
     \/ /\ Scanned(ds) # {}
        /\ disks' = After(readPartitions) /\ Formats(ds)
        /\ \/ dm' = doDestroy(Dropped(ds)) /\ leftover' = leftover
           \/ dm' = dm /\ leftover' = TRUE

-----------------------------------------------------------------------------
(* Block events *)

Handles(event) == queue # <<>> /\ Head(queue) = event /\ queue' = Tail(queue)
EventRest == UNCHANGED <<plugged, card, table, keys, method, guids, swaps, asked, loose, forgotten>>

\* A disk that is there already is not looked for.
handleDiskAdded ==
  /\ Handles("add")
  /\ Scan(disks, <<NewDisk>>) \/ ScanFails(disks, <<NewDisk>>)
  /\ EventRest

handleDiskChanged ==
  /\ Handles("change")
  /\ Scan(<<>>, disks) \/ ScanFails(<<>>, disks)
  /\ EventRest

\* Mutant of RemainingDisks: the first object of the device is taken for the only one.
AllButFirst == IF disks = <<>> THEN <<>> ELSE Tail(disks)

\* Every object of the device is destroyed.
RemainingDisks == <<>>

handleDiskRemoved ==
  /\ Handles("remove")
  /\ disks' = RemainingDisks
  /\ \/ dm' = doDestroy(AllVolumes(disks)) /\ UNCHANGED <<leftover, faults>>
     \/ AllVolumes(disks) # {} /\ Fault /\ dm' = dm /\ leftover' = TRUE
  /\ UNCHANGED lost
  /\ EventRest

-----------------------------------------------------------------------------
(* Partitioning *)

\* Mutant of Steps: the key is stored when the partition is there.
StepsTableFirst(kind) == IF kind = "public" THEN <<"zap", "table">> ELSE <<"zap", "table", "key">>

Steps(kind) == IF kind = "public" THEN <<"zap", "table">> ELSE <<"zap", "key", "table">>

\* The ratio of a mixed table is looked at after the disk was zapped and the key stored.
RatioOk(ratio) == ratio = 0 \/ (10 <= ratio /\ ratio <= 90)

\* No key is generated where the method is not configured rightly.
generate_volume_key == method # "failed"

NewTable(kind, ratio) ==
  IF kind = "public" THEN [kind |-> "mbr", parts |-> <<Part("public", 0)>>, fs |-> FALSE]
  ELSE [kind |-> "gpt", fs |-> FALSE,
        parts |-> (IF ratio > 0 THEN <<Part("public", 0)>> ELSE <<>>) \o
                  <<Part("meta", 0), Part("expand", guids + 1)>>]

\* Mutant of SkipsFirst: the first event is skipped whatever there was.
SkipsAlways(kind) == kind = "public"

\* partitionPublic expects an event for the removal of an MBR and one for the new table.
SkipsFirst(kind) == kind = "public" /\ table[card].kind = "mbr"

\* The first n steps are taken.  The framework partitions a disk with a medium only: without
\* one the code would note mJustPartitioned before it fails.  Zapping causes an event where an MBR was, or perhaps.
partition(kind, ratio) ==
  LET steps == Steps(kind)
      Done(step, n) == \E i \in 1..n : steps[i] = step
      may == IF kind # "public" /\ ~generate_volume_key THEN 1
             ELSE IF kind # "public" /\ ~RatioOk(ratio) THEN 2 ELSE Len(steps)
      d == Head(disks)
  IN
  /\ disks # <<>> /\ plugged /\ card # NoCard /\ guids < MaxGuid
  /\ \E n \in 0..may, told \in BOOLEAN :
       /\ told => n > 0 /\ table[card].kind # "mbr"
       /\ IF n < may THEN Fault ELSE UNCHANGED faults
       /\ LET ok == n = Len(steps) IN
          /\ table' = IF n = 0 THEN table
                      ELSE [table EXCEPT ![card] = IF Done("table", n) THEN NewTable(kind, ratio) ELSE Zapped]
          /\ keys' = IF Done("key", n) THEN keys \cup {guids + 1} ELSE keys
          /\ Post((IF n > 0 /\ (told \/ table[card].kind = "mbr") THEN <<"change">> ELSE <<>>) \o
                  (IF Done("table", n) THEN <<"change">> ELSE <<>>))
          /\ disks' = <<[d EXCEPT !.vols = {}, !.just = TRUE, !.skip = d.skip \/ SkipsFirst(kind),
                                  !.owed = ok, !.unread = d.unread \/ ~ok]>> \o Tail(disks)
          /\ loose' = (loose \/ ~ok)
  /\ guids' = IF kind = "public" THEN guids ELSE guids + 1
  /\ dm' = doDestroy(d.vols)
  /\ asked' = asked \cup {card}
  /\ UNCHANGED <<plugged, card, method, swaps, lost, leftover, forgotten>>

\* The framework forgets partitions that are not there.
forgetPartition(g) ==
  /\ g \in keys /\ \A v \in AllVolumes(disks) : v.guid # g
  /\ card # NoCard => \A i \in DOMAIN table[card].parts : table[card].parts[i].guid # g
  /\ keys' = keys \ {g} /\ forgotten' = forgotten \cup {g}
  /\ UNCHANGED <<plugged, card, table, disks, dm, method, queue, guids, swaps, faults,
                 asked, lost, loose, leftover>>

-----------------------------------------------------------------------------
(* The device *)

Owed == \E i \in DOMAIN disks : disks[i].owed

\* The card is taken out or another one is put in.
Exchange(c) ==
  /\ plugged /\ c # card /\ swaps < MaxSwaps /\ swaps' = swaps + 1
  /\ card' = c /\ Post(<<"change">>)
  /\ loose' = (loose \/ Owed) /\ asked' = asked \ {c}
  /\ UNCHANGED <<plugged, table, keys, disks, dm, method, guids, faults, lost, leftover, forgotten>>

Unplug ==
  /\ plugged /\ swaps < MaxSwaps /\ swaps' = swaps + 1
  /\ plugged' = FALSE /\ Post(<<"remove">>)
  /\ UNCHANGED <<card, table, keys, disks, dm, method, guids, faults, history>>

Plug ==
  /\ ~plugged /\ plugged' = TRUE /\ Post(<<"add">>)
  /\ UNCHANGED <<card, table, keys, disks, dm, method, guids, swaps, faults, history>>

\* vold dies and starts again; mappings stay.
Restart ==
  /\ Fault
  /\ disks' = <<>> /\ leftover' = (leftover \/ \E i \in Parts : dm[i] # 0)
  /\ queue' \in IF plugged THEN {<<"add">>, <<"add", "add">>} ELSE {<<>>}
  /\ UNCHANGED <<plugged, card, table, keys, dm, method, guids, swaps, asked, lost, loose, forgotten>>

-----------------------------------------------------------------------------

Init ==
  /\ plugged = TRUE /\ card \in Cards /\ table \in [Cards -> Tables]
  /\ keys = {} /\ disks = <<>> /\ dm = [i \in Parts |-> 0]
  /\ method \in {"crypt", "failed"}
  /\ queue \in {<<"add">>, <<"add", "add">>}
  /\ guids = 0 /\ swaps = 0 /\ faults = 0
  /\ asked = {} /\ lost = {} /\ loose = FALSE /\ leftover = FALSE /\ forgotten = {}

Next ==
  \/ handleDiskAdded \/ handleDiskChanged \/ handleDiskRemoved
  \/ partition("public", 0)
  \/ \E ratio \in {0, 5, 50} : partition("mixed", ratio)
  \/ \E g \in keys : forgetPartition(g)
  \/ \E c \in Cards \cup {NoCard} : Exchange(c)
  \/ Plug \/ Unplug \/ Restart

Spec == Init /\ [][Next]_vars

-----------------------------------------------------------------------------
(* Properties *)

Quiet == queue = <<>> /\ plugged /\ \A d \in ToSet(disks) : ~d.unread

\* When every event has been handled the volumes are those of the card that is in the reader,
\* mapped with their own keys: whatever tables were written in which order, the event that
\* mSkipChange skips is never the one that tells of the new table, and what an earlier vold
\* left is replaced.
InSync ==
  Quiet => /\ disks # <<>>
           /\ \A i \in DOMAIN disks : disks[i].vols = VolumesOnCard /\ disks[i].size = card
           /\ \A v \in VolumesOnCard : v.kind = "private" => dm[v.part] = v.guid

\* A card on which nobody called partition is formatted only after a call failed, or when it
\* was put in before the scan that follows a call.
FormatsAsked == lost # {} => loose

\* A private partition that was made here has its key, wherever the call that made it stopped.
KeysKept ==
  \A c \in Cards : \A i \in DOMAIN table[c].parts :
    LET p == table[c].parts[i] IN p.type = "expand" /\ p.guid # 0 => p.guid \in keys \cup forgotten

\* When the reader is gone nothing of it is left, also if it was announced twice.
RemovedClean ==
  ~plugged /\ queue = <<>> => disks = <<>> /\ (leftover \/ \A i \in Parts : dm[i] = 0)
=============================================================================
