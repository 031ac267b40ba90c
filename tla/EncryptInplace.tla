--------------------------- MODULE EncryptInplace ---------------------------
(***************************************************************************)
(* The encryption of a block device in place (EncryptInplace.cpp): each    *)
(* block that the file system uses is read from the real device and        *)
(* written back through the crypto device that lies on it.  Blocks next to *)
(* each other are collected and written together, at most a buffer of      *)
(* them, aligned to the buffer.                                            *)
(*                                                                         *)
(* Only what happens to a block matters: how often it has been encrypted.  *)
(* A read or a write that fails writes nothing.                            *)
(***************************************************************************)
EXTENDS Naturals, Sequences, FiniteSets, FiniteSetsExt, SequencesExt

CONSTANTS
  Layouts,       \* the file systems that may be found: records, see below
  BufferBlocks,  \* kIOBufferSize in blocks
  NumBlocks      \* blocks of the device

\* An ext4 has groups of "per" blocks from block "first" up to block "len"; a group with a
\* bitmap that is not initialized holds at most a backup of the superblock and "desc" blocks
\* of descriptors.  Of f2fs, which libf2fs_sparseblock reads, only the used blocks are known.
Group == [uninit : BOOLEAN, super : BOOLEAN, bitmap : SUBSET (0..NumBlocks)]

ASSUME InplaceAssumption ==
  /\ BufferBlocks \in Nat \ {0} /\ NumBlocks \in Nat
  /\ \A d \in Layouts :
       /\ d.type \in {"ext4", "f2fs", "none"}
       /\ d.type = "ext4" => /\ \A i \in DOMAIN d.groups : d.groups[i] \in Group
                             /\ d.len <= NumBlocks
       /\ d.type = "f2fs" => d.used \subseteq 0..(NumBlocks - 1)

VARIABLES
  fs,           \* the file system that was on the device
  enc,          \* enc[b]: how often block b has been encrypted
  medium,       \* the same, of what has reached the medium
  todo,         \* blocks still to process, in order
  first,        \* first_pending_block_
  pending,      \* blocks_pending_
  done,         \* blocks_done_
  run,          \* "idle", "running", "failed", "success"
  dropped       \* history: blocks whose flush failed and was not noticed

inplaceVars == <<fs, enc, medium, todo, first, pending, done, run, dropped>>

Blocks == 0..(NumBlocks - 1)

-----------------------------------------------------------------------------
(* The blocks to encrypt *)

FirstBlockInGroup(d, group) == d.first + group * d.per

NumBlocksInGroup(d, group) == Min({d.per, d.len - FirstBlockInGroup(d, group)})

NumBaseMetaBlocksInGroup(d, group) == IF d.groups[group + 1].super THEN 1 + d.desc ELSE 0

Ext4Blocks(d) ==
  LET OfGroup(group) ==
        LET g == d.groups[group + 1]
            count == IF g.uninit THEN NumBaseMetaBlocksInGroup(d, group)
                     ELSE NumBlocksInGroup(d, group)
            offsets == {i \in 0..(count - 1) : g.uninit \/ i \in g.bitmap}
        IN SetToSortSeq({FirstBlockInGroup(d, group) + i : i \in offsets}, <)
  IN FlattenSeq([i \in DOMAIN d.groups |-> OfGroup(i - 1)])

\* What DoEncryptInPlace goes through; without a file system it is the whole device.
BlocksOf(d) ==
  CASE d.type = "ext4" -> Ext4Blocks(d)
    [] d.type = "f2fs" -> SetToSortSeq(d.used, <)
    [] OTHER -> [i \in 1..NumBlocks |-> i - 1]

\* External: what the descriptor says of a group.  The bits after the end are all set.
bg_free_blocks_count(d, group) ==
  Cardinality({b \in FirstBlockInGroup(d, group)..(d.len - 1) :
                 /\ b < FirstBlockInGroup(d, group + 1)
                 /\ b - FirstBlockInGroup(d, group) \notin d.groups[group + 1].bitmap})

blocks_to_encrypt(d) ==
  LET OfGroup(group) == IF d.groups[group + 1].uninit THEN NumBaseMetaBlocksInGroup(d, group)
                        ELSE NumBlocksInGroup(d, group) - bg_free_blocks_count(d, group)
  IN IF d.type = "ext4"
     THEN FoldLeft(LAMBDA n, i : n + OfGroup(i - 1), 0, [i \in DOMAIN d.groups |-> i])
     ELSE Len(BlocksOf(d))

\* The reference: the blocks that the file system d uses.
InUse(d) ==
  CASE d.type = "ext4" ->
         {b \in d.first..(d.len - 1) :
            LET g == d.groups[((b - d.first) \div d.per) + 1]
                i == (b - d.first) % d.per
            IN IF g.uninit THEN g.super /\ i <= d.desc ELSE i \in g.bitmap}
    [] d.type = "f2fs" -> d.used
    [] OTHER -> Blocks

\* Of each file system the blocks are gone through in increasing order, they are the ones in
\* use and as many as announced, and the first has the superblock.
ASSUME LayoutsAssumption ==
  \A d \in Layouts :
    LET b == BlocksOf(d) IN
    /\ b \in Seq(Blocks) \ {<<>>} /\ \A i, j \in DOMAIN b : i < j => b[i] < b[j]
    /\ ToSet(b) = InUse(d) /\ Len(b) = blocks_to_encrypt(d)
    /\ b[1] = IF d.type = "ext4" THEN d.first ELSE 0

-----------------------------------------------------------------------------
(* encrypt_inplace *)

InitFs ==
  /\ run' = "running"
  /\ todo' = BlocksOf(fs) /\ first' = 0 /\ pending' = 0 /\ done' = 0
  /\ UNCHANGED <<fs, enc, medium, dropped>>

Pending == first..(first + pending - 1)

\* Afterwards n blocks are pending.
EncryptPendingData(n) ==
  /\ enc' = [b \in Blocks |-> IF b \in Pending THEN enc[b] + 1 ELSE enc[b]]
  /\ done' = done + pending
  /\ pending' = n

\* Mutant of MustFlush: a gap between the blocks is overlooked.
MustFlushFull(b) ==
  \/ pending = BufferBlocks
  \/ b % BufferBlocks = 0

MustFlush(b) ==
  \/ pending = BufferBlocks
  \/ b # first + pending
  \/ b % BufferBlocks = 0

ProcessUsedBlock ==
  /\ run = "running" /\ todo # <<>>
  /\ todo' = Tail(todo)
  /\ IF MustFlush(Head(todo))
     THEN EncryptPendingData(1) /\ first' = Head(todo)
     ELSE pending' = pending + 1 /\ UNCHANGED <<enc, done, first>>
  /\ UNCHANGED <<fs, medium, run, dropped>>

\* The flush fails.  EncryptInPlaceExt4 does not look at the result: it goes on with the next
\* block, and this one is never encrypted.
FlushFails ==
  /\ run = "running" /\ todo # <<>> /\ MustFlush(Head(todo)) /\ pending > 0
  /\ IF fs.type = "ext4"
     THEN todo' = Tail(todo) /\ dropped' = dropped \cup {Head(todo)} /\ run' = run
     ELSE run' = "failed" /\ UNCHANGED <<todo, dropped>>
  /\ UNCHANGED <<fs, enc, medium, first, pending, done>>

\* The last flush and the fsync.  A wrong count is only logged.
EncryptInPlaceEnd ==
  /\ run = "running" /\ todo = <<>>
  /\ EncryptPendingData(0)
  /\ medium' = enc' /\ run' = "success"
  /\ UNCHANGED <<fs, todo, first, dropped>>

\* The bitmap of a group is read before its first block is processed.
ReadExt4BlockBitmap ==
  /\ fs.type = "ext4"
  /\ \E i \in DOMAIN fs.groups :
       ToSet(todo) = {b \in ToSet(BlocksOf(fs)) : b >= FirstBlockInGroup(fs, i - 1)}

\* A bitmap cannot be read, or the last flush or the fsync fails.
EncryptInPlaceFails ==
  /\ run = "running"
  /\ todo = <<>> \/ ReadExt4BlockBitmap
  /\ run' = "failed"
  /\ UNCHANGED <<fs, enc, medium, todo, first, pending, done, dropped>>

\* The power goes: of the blocks written since the last fsync any may have reached the medium.
InplaceCut(kept) ==
  /\ LET m == [b \in Blocks |-> IF b \in kept THEN enc[b] ELSE medium[b]] IN
     medium' = m /\ enc' = m
  /\ run' = "idle" /\ todo' = <<>> /\ first' = 0 /\ pending' = 0 /\ done' = 0
  /\ UNCHANGED <<fs, dropped>>

InplaceInit ==
  /\ fs \in Layouts
  /\ enc = [b \in Blocks |-> 0] /\ medium = enc
  /\ todo = <<>> /\ first = 0 /\ pending = 0 /\ done = 0 /\ run = "idle" /\ dropped = {}
=============================================================================
