----------------------------- MODULE BowRestore -----------------------------
(***************************************************************************)
(* cp_restoreCheckpoint of Checkpoint.cpp: after a reboot during a         *)
(* checkpoint, the log of a dm-bow device is replayed backwards, so that   *)
(* the device is again what it was when the checkpoint began.  The log is  *)
(* first validated, by following its entries in a map of relocations       *)
(* without writing anything; if it is not valid the device keeps the new   *)
(* data.  Power cuts can come at any moment of the restore, also of one    *)
(* that resumes an earlier one.                                            *)
(*                                                                         *)
(* The unit is a block (block_size = kSectorSize).  A block holds data of  *)
(* before the checkpoint, data written since, a log sector, or rubbish.    *)
(* Writes stay in a cache, from which a power cut keeps any of them, until *)
(* fsync.                                                                  *)
(*                                                                         *)
(* External, modelled from the log that the code expects: dm-bow, which    *)
(* saves a block to free space before it is first overwritten, moves such  *)
(* a copy on when the file system writes over it, keeps the log sector in  *)
(* block 0 and the current contents of block 0 in sector0.  A full log     *)
(* sector is saved as well, as the first entry of the next one.            *)
(*                                                                         *)
(* The specification is RestoreSpec, as CheckpointProofs extends this      *)
(* module beside Checkpoint.                                               *)
(***************************************************************************)
EXTENDS Integers, Sequences, FiniteSets, FiniteSetsExt, Functions

CONSTANTS
  MaxBlock,   \* blocks are 0..MaxBlock
  InUse,      \* those the file system uses when the checkpoint begins
  LogSize,    \* entries that fit into a log sector
  MaxRange,   \* bound: blocks saved by one entry
  MaxWrites,  \* bound: writes under the checkpoint
  MaxFaults   \* bound: power cuts, failed reads and test limits during restores

Blocks == 0..MaxBlock

ASSUME BowRestoreAssumption ==
  /\ MaxBlock \in Nat /\ InUse \subseteq Blocks /\ 0 \in InUse
  /\ Cardinality(Blocks \ InUse) >= 2
  /\ LogSize \in Nat \ {0, 1} /\ MaxRange \in Nat \ {0}
  /\ MaxWrites \in Nat /\ MaxFaults \in Nat

VARIABLES
  disk,     \* what is on the medium
  cache,    \* blocks written since the last fsync
  step,     \* "bow": the checkpoint is active; "off": before or between restores;
            \* "settled": a restore has returned; else a step of the restore
  run,      \* locals of cp_restoreCheckpoint
  (* dm-bow *)
  role,     \* role[b]: what b is used for
  writes,
  (* history *)
  zero,     \* the file system has written to block 0
  rotten,   \* a saved block was damaged
  faults

bow == <<role, writes, zero, rotten>>
restoreVars == <<disk, cache, step, run, role, writes, zero, rotten, faults>>

Old(b) == [magic |-> "old", block |-> b]
New(b) == [magic |-> "new", block |-> b]
Rubbish == [magic |-> "rubbish", block |-> 0]

Log(magic, sequence, count, entries, sector0) ==
  [magic |-> magic, sequence |-> sequence, count |-> count, entries |-> entries,
   sector0 |-> sector0]
IsLog(c) == c.magic \in {"BOW", "WOB"}     \* kMagic, kPartialRestoreMagic

\* What a read returns.
Now == [b \in Blocks |-> IF b \in DOMAIN cache THEN cache[b] ELSE disk[b]]
NoWrites == <<>>                           \* an empty cache

Write(w) == cache' = [b \in DOMAIN cache \cup DOMAIN w |->
                        IF b \in DOMAIN w THEN w[b] ELSE cache[b]]
At(b, c) == [x \in {b} |-> c]

Part(b, n) == b..(b + n - 1)

\* The checksum of blocks to be restored to source.  It tells all contents apart:
\* that the code takes 0 for no checksum and that a CRC can collide is left out.
crc32(source, blocks) == <<source, blocks>>

-----------------------------------------------------------------------------
(* Ordered maps, as std::map *)

\* The key that --m.upper_bound(x) finds.
Floor(m, x) == Max({k \in DOMAIN m : k <= x})

\* Relocations: block x is to be read at Lookup(m, x).
NoRelocations == At(0, 0)
Lookup(m, x) == x + m[Floor(m, x)] - Floor(m, x)

\* Mutant of relocate: the rest of the map behind the range is not split off.
RelocateUnsplit(m, dest, source, count) ==
  LET slice == [x \in {dest} |-> Lookup(m, source)]
      kept == {k \in DOMAIN m : k < dest \/ k >= dest + count}
  IN [x \in kept \cup {dest} |-> IF x = dest THEN slice[x] ELSE m[x]]

relocate(m, dest, source, count) ==
  LET inner == {k \in DOMAIN m : Floor(m, source) < k /\ k < source + count}
      slice == [x \in {dest} \cup {dest - source + k : k \in inner} |->
                  IF x = dest THEN Lookup(m, source) ELSE m[x - dest + source]]
      kept == {k \in DOMAIN m : k < dest \/ k > dest + count}
  IN [x \in kept \cup {dest + count} \cup DOMAIN slice |->
        IF x \in DOMAIN slice THEN slice[x]
        ELSE IF x = dest + count THEN Lookup(m, dest + count)
        ELSE m[x]]

\* Used_Sectors.
NoneUsed == At(0, FALSE)

\* Mutant of checkCollision: nothing ever collides.
NoCollision(used, start, end) == FALSE

\* Both iterators of the code point to the same key, --upper_bound(start), which is
\* below end: every entry collides, and saves the partial result first.
checkCollision(used, start, end) ==
  LET overlap == Floor(used, start) IN used[overlap] \/ overlap < end

markUsed(used, start, end) ==
  LET m == [k \in DOMAIN used \cup {start, end} |->
              IF k = start THEN TRUE ELSE IF k = end THEN FALSE ELSE used[k]]
      before == {k \in DOMAIN m : k < start}
      after == {k \in DOMAIN m : k > end}
      first == IF before = {} \/ ~m[Max(before)]
               THEN Min({k \in DOMAIN m : k > start}) ELSE start
      last == IF after # {} /\ ~m[Min(after)] THEN Min(after) ELSE end
  IN Restrict(m, {k \in DOMAIN m : k < first \/ k >= last})

-----------------------------------------------------------------------------
(* dm-bow, while the checkpoint is active (external) *)

AllIn(b, n, roles) == Part(b, n) \subseteq Blocks /\ \A x \in Part(b, n) : role[x] \in roles

\* The file system writes n blocks from b: what was there is saved from d on, and
\* an entry of the log says so.
BowBackup(b, n, d) ==
  /\ step = "bow" /\ writes < MaxWrites
  /\ disk[0].count < LogSize
  /\ AllIn(b, n, {"unchanged"}) \/ AllIn(b, n, {"backup"})
  /\ AllIn(d, n, {"free"})
  /\ LET saved == [x \in Part(d, n) |-> disk[x - d + b]]
         entry == [source |-> b, dest |-> d, size |-> n,
                   checksum |-> crc32(b, [i \in 0..(n - 1) |-> disk[b + i]])]
         log == Log("BOW", disk[0].sequence, disk[0].count + 1,
                    Append(disk[0].entries, entry), disk[0].sector0)
     IN disk' = [x \in Blocks |-> IF x = 0 THEN log
                                  ELSE IF x \in Part(d, n) THEN saved[x]
                                  ELSE IF x \in Part(b, n) THEN New(x) ELSE disk[x]]
  /\ role' = [x \in Blocks |-> IF x \in Part(d, n) THEN "backup"
                               ELSE IF x \in Part(b, n) THEN "changed" ELSE role[x]]
  /\ writes' = writes + 1
  /\ UNCHANGED <<cache, step, run, zero, rotten, faults>>

\* The log sector is full: it is saved at f, and a new one begins.
BowRoll(f) ==
  /\ step = "bow" /\ disk[0].count = LogSize /\ role[f] = "free"
  /\ LET entry == [source |-> 0, dest |-> f, size |-> 1, checksum |-> crc32(0, At(0, disk[0]))]
     IN disk' = [disk EXCEPT ![f] = disk[0],
                             ![0] = Log("BOW", disk[0].sequence + 1, 1, <<entry>>,
                                        disk[0].sector0)]
  /\ role' = [role EXCEPT ![f] = "backup"]
  /\ UNCHANGED <<cache, step, run, writes, zero, rotten, faults>>

\* Blocks that need no saving: free ones, and block 0, whose contents are elsewhere.
BowWrite(b) ==
  /\ step = "bow" /\ writes < MaxWrites
  /\ \/ role[b] = "free" /\ role' = [role EXCEPT ![b] = "changed"] /\ zero' = zero
        /\ disk' = [disk EXCEPT ![b] = New(b)]
     \/ role[b] = "log" /\ role' = role /\ zero' = TRUE
        /\ disk' = [disk EXCEPT ![disk[0].sector0] = New(0)]
  /\ writes' = writes + 1
  /\ UNCHANGED <<cache, step, run, rotten, faults>>

\* The reboot that ends the checkpoint; a saved block may turn out to be damaged.
BowEnd(damaged) ==
  /\ step = "bow" /\ step' = "off"
  /\ damaged \subseteq {b \in Blocks : role[b] = "backup"} /\ Cardinality(damaged) <= 1
  /\ rotten' = (damaged # {})
  /\ disk' = [b \in Blocks |-> IF b \in damaged THEN Rubbish ELSE disk[b]]
  /\ UNCHANGED <<cache, run, role, writes, zero, faults>>

-----------------------------------------------------------------------------
(* cp_restoreCheckpoint *)

\* moved is the pointwise meaning of relocations, kept to check relocate.
NoRun == [validating |-> FALSE, sequence |-> 0, ls |-> Rubbish, index |-> 0,
          relocations |-> NoRelocations, moved |-> [b \in Blocks |-> b],
          used |-> NoneUsed, buffer |-> <<>>, restored |-> FALSE]

Entry == run.ls.entries[run.index]

\* One round of the outer loop: to validate the log, or to replay it.
Round(validating) ==
  IF IsLog(Now[0])
  THEN /\ step' = "sector"
       /\ run' = [NoRun EXCEPT !.validating = (validating /\ Now[0].magic # "WOB"),
                               !.sequence = Now[0].sequence]
  ELSE step' = "settled" /\ run' = NoRun

cp_restoreCheckpoint ==
  /\ step = "off" /\ Round(TRUE)
  /\ UNCHANGED <<disk, cache, bow, faults>>

\* An error: a log that is not valid is rolled forward, else the call returns.
Fail == step' = (IF run.validating THEN "forward" ELSE "off") /\ run' = run

\* relocatedRead, of one block.
relocatedRead(b) == Now[IF run.validating THEN Lookup(run.relocations, b) ELSE b]

ValidSector(ls) ==
  /\ ls.magic = "BOW" \/ (ls.magic = "WOB" /\ ~run.validating)
  /\ ls.sequence = run.sequence
  /\ 1 <= ls.count /\ ls.count <= LogSize

\* Mutant of EndOfLog: validating is not reset.
EndOfLogAgain == Round(TRUE)

\* All log sectors are done: a validated log is replayed.
EndOfLog == IF run.validating THEN Round(FALSE) ELSE step' = "settled" /\ run' = NoRun

\* The loop over the log sectors, the last one first.
ReadSector ==
  /\ step = "sector"
  /\ IF run.sequence < 0 THEN EndOfLog
     ELSE LET ls == relocatedRead(0) IN
          IF ValidSector(ls)
          THEN step' = "entry" /\ run' = [run EXCEPT !.ls = ls, !.index = ls.count,
                                                   !.used = NoneUsed]
          ELSE Fail
  /\ UNCHANGED <<disk, cache, bow, faults>>

\* The loop over the entries of a sector, the last one first.
ReadEntry ==
  LET le == Entry
      buffer == [i \in 0..(le.size - 1) |-> relocatedRead(le.dest + i)]
      restored == Part(le.source, le.size)
  IN
  /\ step = "entry"
  /\ IF crc32(le.source, buffer) # le.checksum THEN Fail
     ELSE IF run.validating
     THEN /\ run' = [run EXCEPT
               !.relocations = relocate(@, le.source, le.dest, le.size),
               !.moved = [b \in Blocks |-> IF b \in restored THEN @[b - le.source + le.dest]
                                                             ELSE @[b]],
               !.index = @ - 1,
               !.sequence = IF run.index = 1 THEN @ - 1 ELSE @]
          /\ step' = IF run.index = 1 THEN "sector" ELSE "entry"
     ELSE /\ run' = [run EXCEPT !.buffer = buffer]
          /\ step' = IF checkCollision(run.used, le.source, le.source + le.size)
                   THEN "save" ELSE "copy"
  /\ UNCHANGED <<disk, cache, bow, faults>>

fsync == disk' = Now /\ cache' = NoWrites

\* Mutant of SavePartial: the copies made so far are not flushed first.
SavePartialUnsynced ==
  /\ step = "save" /\ step' = "save sync"
  /\ LET ls == [run.ls EXCEPT !.count = run.index, !.magic = "WOB"] IN
     run' = [run EXCEPT !.ls = ls, !.used = NoneUsed] /\ Write(At(0, ls))
  /\ UNCHANGED <<disk, bow, faults>>

\* restoreSector, when there is a collision: what is left to do is written to the
\* log sector, after a flush and before another.
SavePartial ==
  /\ step = "save" /\ step' = "save sync"
  /\ LET ls == [run.ls EXCEPT !.count = run.index, !.magic = "WOB"] IN
     /\ run' = [run EXCEPT !.ls = ls, !.used = NoneUsed]
     /\ disk' = Now /\ cache' = At(0, ls)
  /\ UNCHANGED <<bow, faults>>

SaveSync ==
  /\ step = "save sync" /\ step' = "copy" /\ fsync
  /\ UNCHANGED <<run, bow, faults>>

Copied == step' = IF run.index = 1 THEN "flush" ELSE "entry"

\* restoreSector: the copy itself.  A log sector gets the magic of a partial restore.
Copy ==
  LET le == Entry
      next == IF run.index = 1 /\ run.ls.sequence # 0 /\ run.buffer[0].magic = "BOW"
              THEN [run.buffer EXCEPT ![0].magic = "WOB"] ELSE run.buffer
  IN
  /\ step = "copy"
  /\ Write([b \in Part(le.source, le.size) |-> next[b - le.source]])
  /\ run' = [run EXCEPT !.used = markUsed(@, le.dest, le.dest + le.size),
                        !.buffer = <<>>, !.restored = TRUE,
                        !.index = @ - 1]
  /\ Copied
  /\ UNCHANGED <<disk, bow, faults>>

\* ... and the flush after the last entry of a log sector.
Flush ==
  /\ step = "flush" /\ step' = "sector" /\ fsync
  /\ run' = [run EXCEPT !.sequence = @ - 1]
  /\ UNCHANGED <<bow, faults>>

\* The log is not valid: block 0 gets its current contents, and the log is gone.
RollForward ==
  /\ step = "forward" /\ step' = "settled" /\ run' = NoRun
  /\ Write(At(0, Now[Now[0].sector0]))
  /\ UNCHANGED <<disk, bow, faults>>

\* A read fails.
ReadFails ==
  /\ faults < MaxFaults /\ faults' = faults + 1
  /\ \/ step \in {"sector", "entry"} /\ run.sequence >= 0 /\ Fail
     \/ step = "forward" /\ step' = "off" /\ run' = NoRun
  /\ UNCHANGED <<disk, cache, bow>>

\* restoreCheckpointPart: the limit is reached after some entry.
HitLimit ==
  /\ step \in {"entry", "sector"} /\ run.restored
  /\ faults < MaxFaults /\ faults' = faults + 1
  /\ step' = "off" /\ run' = NoRun
  /\ UNCHANGED <<disk, cache, bow>>

\* The power goes: any of the writes since the last fsync may have been made.
PowerCut ==
  /\ step # "bow"
  /\ faults < MaxFaults /\ faults' = faults + 1
  /\ \E kept \in SUBSET DOMAIN cache :
       disk' = [b \in Blocks |-> IF b \in kept THEN cache[b] ELSE disk[b]]
  /\ cache' = NoWrites /\ step' = "off" /\ run' = NoRun
  /\ UNCHANGED bow

-----------------------------------------------------------------------------
\* dm-bow has just begun: the current contents of block 0 are in the first free
\* block, and a copy to go back to in the second.
RestoreInit ==
  LET free == Blocks \ InUse
      sector0 == Min(free)
      saved == Min(free \ {sector0})
      entry == [source |-> 0, dest |-> saved, size |-> 1, checksum |-> crc32(0, At(0, Old(0)))]
  IN
  /\ disk = [b \in Blocks |-> IF b = 0 THEN Log("BOW", 0, 1, <<entry>>, sector0)
                              ELSE IF b \in {sector0, saved} THEN Old(0) ELSE Old(b)]
  /\ role = [b \in Blocks |-> IF b = 0 THEN "log" ELSE IF b = sector0 THEN "current"
                              ELSE IF b = saved THEN "backup"
                              ELSE IF b \in InUse THEN "unchanged" ELSE "free"]
  /\ cache = NoWrites /\ step = "bow" /\ run = NoRun
  /\ writes = 0 /\ zero = FALSE /\ rotten = FALSE /\ faults = 0

RestoreStep ==
  \/ cp_restoreCheckpoint
  \/ ReadSector
  \/ ReadEntry
  \/ SavePartial
  \/ SaveSync
  \/ Copy
  \/ Flush
  \/ RollForward

RestoreNext ==
  \/ \E b, d \in Blocks, n \in 1..MaxRange : BowBackup(b, n, d)
  \/ \E b \in Blocks : BowRoll(b) \/ BowWrite(b)
  \/ \E damaged \in SUBSET Blocks : BowEnd(damaged)
  \/ RestoreStep
  \/ ReadFails
  \/ HitLimit
  \/ PowerCut

RestoreSpec == RestoreInit /\ [][RestoreNext]_restoreVars

\* Every boot calls the restore, and the call goes on.
FairRestore == RestoreSpec /\ WF_restoreVars(RestoreStep)

-----------------------------------------------------------------------------
(* Properties *)

\* The file system as it was, and as it was when the checkpoint ended.
OldImage(d) == \A b \in InUse : d[b] = Old(b)
NewImage(d) ==
  \A b \in InUse \cup {x \in Blocks : role[x] = "changed"} :
    d[b] = IF (b = 0 /\ zero) \/ role[b] = "changed" THEN New(b) ELSE Old(b)

\* All or nothing: whatever power cuts and errors interrupt the restores, when one
\* has returned for good the file system is the old one, on the medium, or, if the
\* log was damaged or could not be read, the new one; never a mixture.
AllOrNothing ==
  step = "settled" => \/ OldImage(disk) /\ cache = NoWrites
                      \/ (rotten \/ faults > 0) /\ NewImage(Now)

\* The validation sees the device as the replay would leave it: the ordered map of
\* relocations means the same as moving every block by itself.
RelocationsFollow ==
  \A b \in Blocks : Lookup(run.relocations, b) = run.moved[b]

\* A restore comes to an end, once the faults do.
Settles == step = "off" ~> step = "settled"

\* The medium implements one that settles in a single step (module BowSpec).
Atomic ==
  INSTANCE BowSpec WITH
    settled <- ~IsLog(disk[0]),
    view <- [b \in Blocks |->
               IF IsLog(disk[0])
               THEN IF (b = 0 /\ zero) \/ role[b] = "changed" THEN "new" ELSE "old"
               ELSE CASE disk[b] = Old(b) -> "old" [] disk[b] = New(b) -> "new"
                      [] OTHER -> "lost"]

\* Restores refine the atomic specification.
AtomicSpec == Atomic!Spec
=============================================================================
