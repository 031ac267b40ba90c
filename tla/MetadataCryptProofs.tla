------------------------ MODULE MetadataCryptProofs ------------------------
(***************************************************************************)
(* The three safety properties of MetadataCrypt, for every kind of device, *)
(* every size of the buffer, and any number of boots and faults.  Of the   *)
(* file systems LayoutsAssumption is used: the blocks are gone through in  *)
(* increasing order, are those in use and as many as announced.            *)
(*                                                                         *)
(* The properties depend on each other.  The key of the data is not        *)
(* replaced because a partition that was encrypted is recognised by its    *)
(* superblock; that the superblock is encrypted whenever the data is       *)
(* follows from what the buffer does to each block; and this in turn needs *)
(* that an encryption starts on data that is not encrypted at all, or of   *)
(* which it is known (partial) that an earlier one was cut off.            *)
(***************************************************************************)
EXTENDS MetadataCrypt, FiniteSetTheorems, TLAPS

\* Where a call can be.
Pcs == {"off", "default_key", "default_dev", "zoned_key", "zoned_dev", "format", "inplace",
        "mount", "done", "failed"}

\* The types of the variables, in three parts.
TypedKeys ==
  /\ pc \in Pcs /\ needs \in [encrypt : BOOLEAN, format : BOOLEAN] /\ key \in Nat
  /\ stored \in [Dirs -> [id : Nat, bound : BOOLEAN]] /\ keystore \in SUBSET Nat
  /\ keys \in Nat \ {0} /\ lost \in BOOLEAN
  /\ dm \in [state : {"INVALID", "SUSPENDED", "ACTIVE"}, key : Nat]

TypedData ==
  /\ blank \in BOOLEAN /\ dataKey \in Nat /\ mounted \in BOOLEAN /\ partial \in BOOLEAN

TypedBlocks ==
  /\ fs \in Layouts /\ enc \in [Blocks -> Nat] /\ medium \in [Blocks -> Nat]
  /\ run \in {"idle", "running", "failed", "success"} /\ dropped \in SUBSET Blocks
  /\ first \in Nat /\ pending \in Nat /\ done \in Nat /\ todo \in Seq(Blocks)

\* How many blocks have been processed, and which.
At == Len(BlocksOf(fs)) - Len(todo)
Passed == {BlocksOf(fs)[i] : i \in 1..At}

\* While the encryption goes on, what is still to do is the rest of the blocks, what is
\* pending has been processed, and all that was processed is counted or pending.
BufferSound ==
  run = "running" =>
    /\ At >= 0 /\ \A i \in 1..Len(todo) : todo[i] = BlocksOf(fs)[At + i]
    /\ Pending \subseteq Passed
    /\ dropped = {} => done + pending = At

\* The file system is not encrypted at all, but for what was processed and is not pending.
EncSound ==
  run = "running" /\ ~partial =>
    /\ \A b \in Blocks : medium[b] = 0
    /\ \A b \in Blocks \ dropped : enc[b] = IF b \in Passed \ Pending THEN 1 ELSE 0

\* Every block in use has been encrypted once, except where a failing flush went unnoticed.
WholeOnce == \A b \in InUse(fs) \ dropped : enc[b] = 1

\* Between encryptions the medium holds what is read; data with a key is encrypted as a whole,
\* data without one not at all, unless an earlier encryption was cut off.  During and after
\* one, the key of the data is that of the device, and /metadata has not been lost.  The
\* superblock comes first, so that its flush is never the one that goes unnoticed.
DataSound ==
  /\ run \in {"idle", "success"} => enc = medium
  /\ run \in {"idle", "success"} /\ ~partial /\ dataKey # 0 => WholeOnce
  /\ run = "idle" /\ ~partial /\ dataKey = 0 => \A b \in Blocks : enc[b] = 0
  /\ run # "idle" => /\ pc \in {"inplace", "mount", "done", "failed"}
                     /\ dataKey # 0 /\ dataKey = dm.key /\ ~blank
                     /\ ~partial => ~lost
  /\ Super \notin dropped
  /\ blank => dataKey = 0 /\ ~partial /\ ~lost
  /\ lost /\ ~partial => dataKey # 0
  /\ CountRight

\* A call knows whether the data is encrypted; from the first device on, its key is the stored
\* one and alive in Keystore; only data that is not encrypted is formatted or encrypted.
CallPcs == {"default_key", "default_dev", "zoned_key", "zoned_dev", "format", "inplace"}

CallSound ==
  /\ pc \in CallPcs /\ run = "idle" =>
       /\ needs.encrypt = (blank \/ medium[Super] = 0)
       /\ needs.format = blank
  /\ pc \in {"default_dev", "zoned_key", "zoned_dev", "format", "inplace"} => stored["default"].id # 0
  /\ pc = "default_dev" => key = stored["default"].id /\ key \in keystore
  /\ pc \in {"zoned_key", "zoned_dev", "format", "inplace"} =>
       dm.key = stored["default"].id /\ dm.key \in keystore
  /\ pc \in {"format", "inplace"} => needs.encrypt
  /\ pc = "format" => needs.format
  /\ pc = "inplace" => ~needs.format
  /\ pc \in {"mount", "done"} => run \in {"idle", "success"}
  /\ mounted => pc = "done"

\* The key of the guest system is no other directory's, so that destroying it harms nobody.
IdsSound ==
  /\ \A d \in Dirs : stored[d].id = 0 => stored[d] = NoKey
  /\ stored["dsu"].id \in {0, 1} /\ stored["default"].id # 1 /\ stored["zoned"].id # 1

\* Keys have been used only after the seed was settled, and with the seed as it is.
SeedSound ==
  /\ seed \in {"UNINITIALIZED", "IN_USE", "NOT_USED"}
  /\ bindings \in SUBSET BOOLEAN
  /\ bindings # {} => seed # "UNINITIALIZED" /\ bindings = {seed = "IN_USE"}

\* What is mounted was whole, and read with its own key.
MountSound ==
  mounted /\ ~partial => dataKey = dm.key /\ dataKey # 0 /\ run \in {"idle", "success"}

\* The inductive invariant.
Ind == /\ TypedKeys /\ TypedData /\ TypedBlocks /\ BufferSound /\ EncSound /\ DataSound
       /\ CallSound /\ IdsSound /\ SeedSound /\ MountSound /\ DataKeyKept

-----------------------------------------------------------------------------

\* LayoutsAssumption for the file system on the device.
LEMMA Layout ==
  ASSUME fs \in Layouts
  PROVE  /\ BlocksOf(fs) \in Seq(Blocks) /\ Len(BlocksOf(fs)) >= 1
         /\ BlocksOf(fs)[1] = Super
         /\ \A i, j \in 1..Len(BlocksOf(fs)) : i < j => BlocksOf(fs)[i] < BlocksOf(fs)[j]
         /\ InUse(fs) = {BlocksOf(fs)[i] : i \in 1..Len(BlocksOf(fs))}
         /\ Len(BlocksOf(fs)) = blocks_to_encrypt(fs)
         /\ InUse(fs) \subseteq Blocks /\ Super \in InUse(fs)
<1> DEFINE B == BlocksOf(fs)
<1>1. /\ B \in Seq(Blocks) /\ B # <<>>
      /\ \A i, j \in DOMAIN B : i < j => B[i] < B[j]
      /\ ToSet(B) = InUse(fs) /\ Len(B) = blocks_to_encrypt(fs)
      /\ B[1] = IF fs.type = "ext4" THEN fs.first ELSE 0
  BY LayoutsAssumption
<1> HIDE DEF B
<1>2. DOMAIN B = 1..Len(B) /\ Len(B) \in Nat /\ Len(B) >= 1
  BY <1>1
<1>3. InUse(fs) = {B[i] : i \in 1..Len(B)}
  BY <1>1, <1>2 DEF ToSet
<1>4. InUse(fs) \subseteq Blocks
  BY <1>1, <1>2, <1>3
<1>5. B[1] = Super
  BY <1>1 DEF Super
<1>6. Super \in InUse(fs)
  BY <1>2, <1>3, <1>5
<1> QED
  BY <1>1, <1>2, <1>3, <1>4, <1>5, <1>6 DEF B

\* Blocks are numbers.
LEMMA BlocksAreNat == Blocks \subseteq Nat
  BY InplaceAssumption DEF Blocks

\* A new device satisfies the invariant.
LEMMA InitSound == Init => Ind
<1> SUFFICES ASSUME Init PROVE Ind
  OBVIOUS
<1>0. fs \in Layouts
  BY DEF Init, InplaceInit
<1>a. stored \in [Dirs -> [id : Nat, bound : BOOLEAN]]
  <2>1. NoKey \in [id : Nat, bound : BOOLEAN] /\ [id |-> 1, bound |-> FALSE] \in [id : Nat, bound : BOOLEAN]
    BY DEF NoKey
  <2> QED
    BY <2>1 DEF Init
<1>b. dm \in [state : {"INVALID", "SUSPENDED", "ACTIVE"}, key : Nat]
  BY DEF Init
<1>c. needs \in [encrypt : BOOLEAN, format : BOOLEAN]
  BY DEF Init
<1>d. pc \in Pcs /\ key \in Nat /\ keystore \in SUBSET Nat /\ keys \in Nat \ {0} /\ lost \in BOOLEAN
  <2>1. pc = "off" /\ key = 0 /\ keystore = {1} /\ keys = 1 /\ lost = FALSE
    BY DEF Init
  <2>2. {1} \in SUBSET Nat /\ 1 \in Nat \ {0}
    OBVIOUS
  <2>3. pc \in Pcs /\ key \in Nat
    BY <2>1 DEF Pcs
  <2> QED
    BY <2>1, <2>2, <2>3
<1>1. TypedKeys
  BY <1>a, <1>b, <1>c, <1>d DEF TypedKeys
<1>2. TypedData
  BY DEF Init, TypedData
<1>3. TypedBlocks
  BY DEF Init, InplaceInit, TypedBlocks
<1>4. BufferSound /\ EncSound /\ MountSound
  BY DEF Init, InplaceInit, BufferSound, EncSound, MountSound
<1>5. DataSound
  BY DEF Init, InplaceInit, DataSound, CountRight
<1>6. CallSound
  BY DEF Init, CallSound, CallPcs
<1>7. IdsSound
  BY DEF Init, IdsSound, NoKey, Dirs
<1>8. SeedSound
  BY DEF Init, SeedSound
<1>9. DataKeyKept
  BY DEF Init, DataKeyKept
<1> QED
  BY <1>1, <1>2, <1>3, <1>4, <1>5, <1>6, <1>7, <1>8, <1>9 DEF Ind

-----------------------------------------------------------------------------

\* Steps that leave the blocks alone.
LEMMA BlocksKept ==
  ASSUME TypedBlocks, BufferSound, EncSound, UNCHANGED inplaceVars, partial' = partial
  PROVE  TypedBlocks' /\ BufferSound' /\ EncSound'
<1>1. TypedBlocks'
  BY DEF inplaceVars, TypedBlocks
<1>2. At' = At /\ Passed' = Passed /\ Pending' = Pending
  BY DEF inplaceVars, At, Passed, Pending
<1>3. BufferSound'
  BY <1>2 DEF inplaceVars, BufferSound
<1>4. EncSound'
  BY <1>2 DEF inplaceVars, EncSound
<1> QED
  BY <1>1, <1>3, <1>4

\* Steps that leave blocks and data alone, and the device if an encryption has begun.
LEMMA DataKept ==
  ASSUME DataSound, UNCHANGED <<inplaceVars, dataVars, lost>>,
         run # "idle" => pc' \in {"inplace", "mount", "done", "failed"} /\ dm'.key = dm.key
  PROVE  DataSound'
<1>1. Super' = Super /\ (WholeOnce' <=> WholeOnce) /\ (CountRight' <=> CountRight)
  BY DEF inplaceVars, Super, WholeOnce, CountRight
<1> QED
  BY <1>1 DEF inplaceVars, dataVars, DataSound

\* Steps that leave the default key where it is, in its directory and in Keystore.
LEMMA DataKeyStays ==
  ASSUME DataKeyKept, UNCHANGED <<dataKey, partial, lost>>, stored'["default"] = stored["default"],
         stored["default"].id # 0 /\ stored["default"].id \in keystore
           => stored["default"].id \in keystore'
  PROVE  DataKeyKept'
  BY DEF DataKeyKept

\* The start of a boot: the call finds out what the partition holds.
LEMMA StartMountStep ==
  ASSUME Ind, StartMount
  PROVE  Ind'
<1>0. run = "idle"
  BY DEF Ind, DataSound, StartMount
<1>1. TypedKeys'
  <2>1. needs' \in [encrypt : BOOLEAN, format : BOOLEAN]
    BY DEF StartMount, Ind, TypedData
  <2>2. dm' \in [state : {"INVALID", "SUSPENDED", "ACTIVE"}, key : Nat]
    BY DEF StartMount
  <2> QED
    BY <2>1, <2>2 DEF Ind, StartMount, TypedKeys, Pcs, keyVars
<1>2. TypedData'
  BY DEF Ind, StartMount, TypedData, dataVars
<1>3. TypedBlocks' /\ BufferSound' /\ EncSound'
  BY BlocksKept DEF Ind, StartMount, dataVars
<1>4. DataSound'
  BY <1>0, DataKept DEF Ind, StartMount, keyVars
<1>5. CallSound'
  <2>1. Super' = Super
    BY DEF StartMount, Super, inplaceVars
  <2> QED
    BY <1>0, <2>1 DEF StartMount, CallSound, CallPcs, dataVars, inplaceVars
<1>6. IdsSound'
  BY DEF Ind, StartMount, IdsSound, keyVars
<1>7. SeedSound'
  BY DEF StartMount, SeedSound
<1>8. MountSound'
  BY DEF StartMount, MountSound
<1>9. DataKeyKept'
  BY DEF Ind, StartMount, DataKeyKept, keyVars, dataVars
<1> QED
  BY <1>1, <1>2, <1>3, <1>4, <1>5, <1>6, <1>7, <1>8, <1>9 DEF Ind

\* The use of a key settles the seed.
LEMMA SeedUsed ==
  ASSUME SeedSound, generateAppId
  PROVE  SeedSound' /\ (seed' = "IN_USE") \in BOOLEAN
<1>1. seed' \in {"UNINITIALIZED", "IN_USE", "NOT_USED"} /\ seed' # "UNINITIALIZED"
  BY DEF SeedSound, generateAppId
<1>2. bindings' \in SUBSET BOOLEAN
  BY DEF SeedSound, generateAppId
<1>3. bindings' = {seed' = "IN_USE"}
  <2>1. CASE bindings = {}
    BY <2>1 DEF generateAppId
  <2>2. CASE bindings # {}
    <3>1. seed' = seed /\ bindings = {seed = "IN_USE"}
      BY <2>2 DEF SeedSound, generateAppId
    <3> QED
      BY <3>1 DEF generateAppId
  <2> QED
    BY <2>1, <2>2
<1> QED
  BY <1>1, <1>2, <1>3 DEF SeedSound

\* The bindings that vold has used since it started are one at most.
LEMMA SeedIsOne ==
  ASSUME SeedSound
  PROVE  BoundAlike
<1>1. bindings = {} \/ bindings = {seed = "IN_USE"}
  BY DEF SeedSound
<1>2. CASE bindings = {}
  BY <1>2, FS_EmptySet DEF BoundAlike
<1>3. CASE bindings = {seed = "IN_USE"}
  <2>1. PICK b : bindings = {b}
    BY <1>3
  <2>2. Cardinality({b}) = 1
    BY FS_Singleton
  <2> QED
    BY <2>1, <2>2 DEF BoundAlike
<1> QED
  BY <1>1, <1>2, <1>3

-----------------------------------------------------------------------------

\* A seed is taken only before the first key is used.
LEMMA SetSeedStep ==
  ASSUME Ind, setKeyStorageBindingSeed
  PROVE  Ind'
<1>1. TypedKeys' /\ TypedData' /\ IdsSound' /\ MountSound' /\ DataKeyKept'
  BY DEF Ind, setKeyStorageBindingSeed, TypedKeys, TypedData, IdsSound, MountSound, DataKeyKept,
     callVars, keyVars, dataVars, inplaceVars
<1>2. TypedBlocks' /\ BufferSound' /\ EncSound'
  BY BlocksKept DEF Ind, setKeyStorageBindingSeed, dataVars
<1>3. DataSound'
  BY DataKept DEF Ind, setKeyStorageBindingSeed, keyVars, DataSound
<1>4. CallSound'
  BY DEF Ind, setKeyStorageBindingSeed, CallSound, CallPcs, Super, callVars, keyVars, dataVars, inplaceVars
<1>5. SeedSound'
  BY DEF Ind, setKeyStorageBindingSeed, SeedSound
<1> QED
  BY <1>1, <1>2, <1>3, <1>4, <1>5 DEF Ind

\* What read_key leaves alone.
LEMMA ReadKeyRest ==
  ASSUME Ind, NEW first_key \in BOOLEAN, read_key(first_key)
  PROVE  /\ TypedData' /\ TypedBlocks' /\ BufferSound' /\ EncSound' /\ MountSound'
         /\ run = "idle" /\ Super' = Super /\ mounted = FALSE /\ mounted' = FALSE /\ lost' = lost
<1>1. run = "idle" /\ mounted = FALSE
  <2>1. pc \in {"default_key", "zoned_key"}
    BY DEF read_key
  <2>2. ~mounted /\ mounted \in BOOLEAN
    BY <2>1 DEF Ind, CallSound, TypedData
  <2>3. run = "idle"
    BY <2>1 DEF Ind, DataSound
  <2> QED
    BY <2>2, <2>3
<1>2. UNCHANGED <<device, needs, mounted, dataVars, dm, inplaceVars>>
  BY DEF read_key
<1>3. lost' = lost
  BY DEF read_key, retrieveKey, generateStorageKey, NoKeyFound, ReadKeyFails, keyVars
<1>4. TypedBlocks' /\ BufferSound' /\ EncSound'
  BY <1>2, BlocksKept DEF Ind, dataVars
<1>5. TypedData' /\ MountSound'
  BY <1>1, <1>2 DEF Ind, TypedData, MountSound, dataVars
<1>6. Super' = Super
  BY <1>2 DEF Super, inplaceVars
<1> QED
  BY <1>1, <1>2, <1>3, <1>4, <1>5, <1>6

\* Where a key is found or made: it is in the directory and in Keystore.
LEMMA ReadKeyDone ==
  ASSUME Ind, NEW first_key \in BOOLEAN, read_key(first_key),
         TypedKeys', IdsSound', SeedSound', DataKeyKept',
         \/ pc' = "failed"
         \/ /\ pc' = IF first_key THEN "default_dev" ELSE "zoned_dev"
            /\ key' = stored'[DirOf(first_key)].id /\ key' \in keystore' /\ key' # 0
            /\ ~first_key => stored'["default"] = stored["default"] /\ keystore \subseteq keystore'
  PROVE  Ind'
<1>1. UNCHANGED <<device, needs, mounted, dataVars, dm, inplaceVars>>
  BY DEF read_key
<1>2. pc = IF first_key THEN "default_key" ELSE "zoned_key"
  BY DEF read_key
<1>3. DataSound'
  BY <1>1, ReadKeyRest, DataKept DEF Ind
<1>4. CallSound'
  <2>1. CASE pc' = "failed"
    BY <2>1, ReadKeyRest DEF CallSound, CallPcs
  <2>2. CASE pc' # "failed" /\ first_key
    <3>1. pc' = "default_dev" /\ key' = stored'["default"].id /\ key' \in keystore' /\ key' # 0
      BY <2>2 DEF DirOf
    <3> QED
      BY <1>1, <1>2, <2>2, <3>1, ReadKeyRest DEF Ind, CallSound, CallPcs, dataVars, inplaceVars
  <2>3. CASE pc' # "failed" /\ ~first_key
    <3>1. pc' = "zoned_dev" /\ stored'["default"] = stored["default"] /\ keystore \subseteq keystore'
      BY <2>3
    <3> QED
      BY <1>1, <1>2, <2>3, <3>1, ReadKeyRest DEF Ind, CallSound, CallPcs, dataVars, inplaceVars
  <2> QED
    BY <2>1, <2>2, <2>3
<1> QED
  BY <1>3, <1>4, ReadKeyRest DEF Ind

\* deleteAllKeys comes only where there is no default key.
LEMMA KeystoreStays ==
  ASSUME Ind, NEW first_key \in BOOLEAN
  PROVE  /\ KeystoreAfter(first_key) \in SUBSET Nat /\ KeystoreAfter(first_key) \subseteq keystore
         /\ stored["default"].id # 0 \/ ~first_key => KeystoreAfter(first_key) = keystore
<1>1. stored["default"].id # 0 => stored["default"] # NoKey
  BY DEF NoKey
<1> QED
  BY <1>1 DEF Ind, TypedKeys, KeystoreAfter, DirOf

\* read_key: a key is generated only for data that is not encrypted, so none is replaced.
LEMMA ReadKeyStep ==
  ASSUME Ind, NEW first_key \in BOOLEAN, read_key(first_key)
  PROVE  Ind'
<1>1. UNCHANGED <<device, needs, mounted, dataVars, dm, inplaceVars>>
  BY DEF read_key
<1>2. pc = IF first_key THEN "default_key" ELSE "zoned_key"
  BY DEF read_key
<1>3. CASE retrieveKey(first_key)
  <2>1. SeedSound'
    BY <1>3, SeedUsed DEF Ind, retrieveKey
  <2>2. DirOf(first_key) \in Dirs /\ stored[DirOf(first_key)].id # 0 /\ stored[DirOf(first_key)].id \in Nat
    <3>1. DirOf(first_key) \in Dirs
      BY DEF DirOf, Dirs
    <3> QED
      BY <1>3, <3>1 DEF retrieveKey, Ind, IdsSound, TypedKeys
  <2>3. TypedKeys' /\ IdsSound' /\ DataKeyKept'
    <3>1. pc' \in Pcs /\ key' \in Nat
      BY <1>3, <2>2 DEF retrieveKey, Pcs
    <3> QED
      BY <1>1, <1>3, <3>1 DEF retrieveKey, Ind, TypedKeys, IdsSound, DataKeyKept, keyVars, dataVars
  <2> QED
    BY <1>3, <2>1, <2>2, <2>3, ReadKeyDone DEF retrieveKey, keyVars
<1>4. CASE generateStorageKey(first_key)
  <2> DEFINE dir == DirOf(first_key)
             new == [id |-> keys + 1, bound |-> seed' = "IN_USE"]
  <2>1. SeedSound' /\ new \in [id : Nat, bound : BOOLEAN] /\ new.id = keys + 1 /\ keys \in Nat /\ keys >= 1
    <3>1. SeedSound' /\ (seed' = "IN_USE") \in BOOLEAN
      BY <1>4, SeedUsed DEF Ind, generateStorageKey
    <3>2. keys \in Nat /\ keys >= 1
      BY DEF Ind, TypedKeys
    <3> QED
      BY <3>1, <3>2
  <2>2. dir \in {"default", "zoned"} /\ dir \in Dirs /\ (first_key <=> dir = "default")
    BY DEF DirOf, Dirs
  <2>3. stored' = [stored EXCEPT ![dir] = new] /\ key' = keys + 1 /\ stored[dir] = NoKey
        /\ keystore' = KeystoreAfter(first_key) \cup {keys + 1} /\ needs.encrypt /\ keys' = keys + 1
        /\ pc' = (IF first_key THEN "default_dev" ELSE "zoned_dev") /\ lost' = lost
    BY <1>4 DEF generateStorageKey, MayGenerate
  <2> HIDE DEF dir, new
  <2>4. stored \in [Dirs -> [id : Nat, bound : BOOLEAN]]
    BY DEF Ind, TypedKeys
  <2>5. stored' \in [Dirs -> [id : Nat, bound : BOOLEAN]] /\ stored'[dir] = new
        /\ \A d \in Dirs \ {dir} : stored'[d] = stored[d]
    BY <2>1, <2>2, <2>3, <2>4
  <2>6. TypedKeys'
    BY <1>1, <2>1, <2>3, <2>5, KeystoreStays DEF Ind, TypedKeys, Pcs
  <2>7. IdsSound'
    BY <2>1, <2>2, <2>5 DEF Ind, IdsSound, Dirs
  <2>8. DataKeyKept'
    <3>1. CASE first_key
      <4>1. blank \/ medium[Super] = 0
        BY <1>2, <2>3, <3>1, ReadKeyRest DEF Ind, CallSound, CallPcs
      <4>2. dataKey = 0 \/ partial
        <5>1. Super \in InUse(fs) /\ InUse(fs) \subseteq Blocks
          BY Layout DEF Ind, TypedBlocks
        <5>2. ~partial /\ dataKey # 0 => enc = medium /\ WholeOnce /\ ~blank
          BY ReadKeyRest DEF Ind, DataSound
        <5>3. Super \notin dropped
          BY DEF Ind, DataSound
        <5> QED
          BY <4>1, <5>1, <5>2, <5>3 DEF WholeOnce
      <4> QED
        BY <1>1, <4>2 DEF DataKeyKept, dataVars
    <3>2. CASE ~first_key
      <4>1. stored'["default"] = stored["default"] /\ keystore \subseteq keystore'
        BY <2>2, <2>3, <2>5, <3>2, KeystoreStays DEF Dirs
      <4> QED
        BY <1>1, <2>3, <4>1, DataKeyStays DEF Ind, dataVars
    <3> QED
      BY <3>1, <3>2
  <2>9. ~first_key => stored'["default"] = stored["default"] /\ keystore \subseteq keystore'
    BY <2>2, <2>3, <2>5, KeystoreStays DEF Dirs
  <2>10. key' = stored'[DirOf(first_key)].id /\ key' \in keystore' /\ key' # 0
    BY <2>1, <2>3, <2>5 DEF dir
  <2> QED
    BY <2>1, <2>3, <2>6, <2>7, <2>8, <2>9, <2>10, ReadKeyDone
<1>5. CASE NoKeyFound(first_key) \/ ReadKeyFails(first_key)
  <2>1. keystore' = KeystoreAfter(first_key) /\ pc' = "failed" /\ UNCHANGED <<key, stored, keys, lost>>
    BY <1>5 DEF NoKeyFound, ReadKeyFails
  <2>2. SeedSound'
    <3>1. UNCHANGED seedVars \/ generateAppId
      BY <1>5 DEF NoKeyFound, ReadKeyFails
    <3>2. CASE UNCHANGED seedVars
      BY <3>2 DEF Ind, SeedSound, seedVars
    <3> QED
      BY <3>1, <3>2, SeedUsed DEF Ind
  <2>3. TypedKeys' /\ IdsSound'
    BY <1>1, <2>1, KeystoreStays DEF Ind, TypedKeys, IdsSound, Pcs
  <2>4. DataKeyKept'
    BY <1>1, <2>1, KeystoreStays, DataKeyStays DEF Ind, dataVars
  <2> QED
    BY <2>1, <2>2, <2>3, <2>4, ReadKeyDone
<1> QED
  BY <1>3, <1>4, <1>5 DEF read_key

-----------------------------------------------------------------------------

\* The steps of a call that leave keys, seed and blocks alone.
LEMMA CallRest ==
  ASSUME Ind, UNCHANGED <<keyVars, seedVars, dataVars, inplaceVars, needs, key>>
  PROVE  /\ TypedData /\ TypedBlocks' /\ BufferSound' /\ EncSound' /\ IdsSound' /\ SeedSound' /\ DataKeyKept'
         /\ Super' = Super
<1>1. TypedBlocks' /\ BufferSound' /\ EncSound'
  BY BlocksKept DEF Ind, dataVars
<1>2. IdsSound' /\ SeedSound' /\ DataKeyKept'
  BY DEF Ind, IdsSound, SeedSound, DataKeyKept, keyVars, seedVars, dataVars
<1>3. Super' = Super
  BY DEF Super, inplaceVars
<1> QED
  BY <1>1, <1>2, <1>3 DEF Ind

\* The crypto device gets the key in hand, which is the stored one.
LEMMA CreateDevStep ==
  ASSUME Ind, NEW dm_name \in {"userdata", "userdata_zoned"}, create_crypto_blk_dev(dm_name)
  PROVE  Ind'
<1>1. UNCHANGED <<device, callVars, keyVars, seedVars, dataVars, faults, inplaceVars>>
  BY DEF create_crypto_blk_dev
<1>2. pc = IF dm_name = "userdata" THEN "default_dev" ELSE "zoned_dev"
  BY DEF create_crypto_blk_dev
<1>3. run = "idle" /\ ~mounted
  BY <1>2 DEF Ind, DataSound, CallSound
<1>4. pc' \in {"failed", "zoned_key", "format", "inplace", "mount"}
  BY DEF create_crypto_blk_dev
<1>5. /\ pc' # "failed" /\ dm_name = "userdata" => dm'.key = key
      /\ dm_name # "userdata" => dm' = dm
      /\ dm' \in [state : {"INVALID", "SUSPENDED", "ACTIVE"}, key : Nat]
      /\ pc' = "format" => needs.encrypt /\ needs.format
      /\ pc' = "inplace" => needs.encrypt /\ ~needs.format
  <2>1. dm \in [state : {"INVALID", "SUSPENDED", "ACTIVE"}, key : Nat] /\ key \in Nat
    BY DEF Ind, TypedKeys
  <2>2. CASE dm_name = "userdata" /\ dm.state = "ACTIVE"
    BY <2>1, <2>2 DEF create_crypto_blk_dev
  <2>3. CASE ~(dm_name = "userdata" /\ dm.state = "ACTIVE")
    <3>1. dm' = IF dm_name = "userdata" THEN [state |-> "ACTIVE", key |-> key] ELSE dm
      BY <2>3 DEF create_crypto_blk_dev
    <3>2. /\ pc' = "format" => needs.encrypt /\ needs.format
          /\ pc' = "inplace" => needs.encrypt /\ ~needs.format
      BY <2>3 DEF create_crypto_blk_dev
    <3> QED
      BY <2>1, <3>1, <3>2
  <2> QED
    BY <2>2, <2>3
<1>6. TypedKeys' /\ TypedData'
  BY <1>1, <1>4, <1>5 DEF Ind, TypedKeys, TypedData, Pcs, callVars, keyVars, dataVars
<1>7. DataSound'
  BY <1>1, <1>3, DataKept DEF Ind, keyVars
<1>8. Super' = Super
  BY <1>1, CallRest DEF callVars
<1>9. CallSound'
  BY <1>1, <1>2, <1>3, <1>4, <1>5, <1>8 DEF Ind, CallSound, CallPcs, callVars, keyVars, dataVars, inplaceVars
<1>10. MountSound'
  BY <1>1, <1>3 DEF MountSound, callVars
<1> QED
  BY <1>1, <1>6, <1>7, <1>9, <1>10, CallRest DEF Ind, callVars

\* A call that fails before anything was written leaves the data alone.
LEMMA CallFailsStep ==
  ASSUME Ind, CreateFails \/ FormatFails
  PROVE  Ind'
<1>1. UNCHANGED <<device, callVars, keyVars, seedVars, dataVars, dm, inplaceVars>> /\ pc' = "failed"
      /\ pc \in {"default_dev", "zoned_dev", "format"}
  BY DEF CreateFails, FormatFails
<1>3. run = "idle" /\ ~mounted
  BY <1>1 DEF Ind, DataSound, CallSound
<1>6. TypedKeys' /\ TypedData'
  BY <1>1 DEF Ind, TypedKeys, TypedData, Pcs, callVars, keyVars, dataVars
<1>7. DataSound'
  BY <1>1, <1>3, DataKept DEF Ind, keyVars
<1>9. CallSound' /\ MountSound'
  BY <1>1, <1>3 DEF Ind, CallSound, MountSound, CallPcs, callVars
<1> QED
  BY <1>1, <1>6, <1>7, <1>9, CallRest DEF Ind, callVars

\* The end of an encryption in place.
LEMMA EndInPlaceStep ==
  ASSUME Ind, EndInPlace
  PROVE  Ind'
<1>1. UNCHANGED <<device, callVars, keyVars, seedVars, dataVars, dm, inplaceVars>> /\ pc' \in {"mount", "failed"}
      /\ pc = "inplace"
  BY DEF EndInPlace
<1>2. pc' = "mount" => run = "success"
  BY DEF EndInPlace
<1>3. ~mounted
  BY <1>1 DEF Ind, CallSound
<1>6. TypedKeys' /\ TypedData'
  BY <1>1 DEF Ind, TypedKeys, TypedData, Pcs, callVars, keyVars, dataVars
<1>7. DataSound'
  BY <1>1, DataKept DEF Ind, keyVars
<1>9. CallSound' /\ MountSound'
  BY <1>1, <1>2, <1>3 DEF Ind, CallSound, MountSound, CallPcs, callVars, inplaceVars
<1> QED
  BY <1>1, <1>6, <1>7, <1>9, CallRest DEF Ind, callVars

\* What can be mounted has a key: data without one has a superblock that is not encrypted.
LEMMA MountStep ==
  ASSUME Ind, mount_via_fs_mgr
  PROVE  Ind'
<1>1. UNCHANGED <<device, needs, key, keyVars, seedVars, dataVars, dm, inplaceVars>>
      /\ pc = "mount" /\ pc' = "done"
  BY DEF mount_via_fs_mgr
<1>2. mounted' \in BOOLEAN /\ (mounted' => Mountable)
  BY DEF mount_via_fs_mgr, Mountable
<1>6. TypedKeys' /\ TypedData'
  BY <1>1, <1>2 DEF Ind, TypedKeys, TypedData, Pcs, keyVars, dataVars
<1>7. DataSound'
  BY <1>1, DataKept DEF Ind, keyVars
<1>8. CallSound'
  BY <1>1 DEF Ind, CallSound, CallPcs, inplaceVars
<1>9. MountSound'
  <2>1. SUFFICES ASSUME Mountable, ~partial
                 PROVE  dataKey = dm.key /\ dataKey # 0 /\ run \in {"idle", "success"}
    BY <1>1, <1>2 DEF MountSound, dataVars, inplaceVars
  <2>2. dataKey = dm.key /\ enc[Super] = 1
    BY <2>1 DEF Mountable
  <2>3. Super \in Blocks
    BY Layout DEF Ind, TypedBlocks
  <2>4. dataKey # 0
    BY <2>1, <2>2, <2>3 DEF Ind, DataSound
  <2> QED
    BY <1>1, <2>2, <2>4 DEF Ind, CallSound
<1> QED
  BY <1>1, <1>6, <1>7, <1>8, <1>9, CallRest DEF Ind

\* The key of the guest system goes, and no other.
LEMMA DestroyDsuStep ==
  ASSUME Ind, destroy_dsu_metadata_key
  PROVE  Ind'
<1>1. UNCHANGED <<device, pc, callVars, keys, lost, seedVars, dataVars, dm, faults, inplaceVars>> /\ pc = "done"
  BY DEF destroy_dsu_metadata_key
<1>2. /\ stored' = [stored EXCEPT !["dsu"] = NoKey] /\ keystore' = keystore \ {stored["dsu"].id}
      /\ stored \in [Dirs -> [id : Nat, bound : BOOLEAN]]
      /\ NoKey \in [id : Nat, bound : BOOLEAN] /\ NoKey.id = 0
  BY DEF destroy_dsu_metadata_key, GetDsuMetadataKeyDir, Ind, TypedKeys, NoKey
<1>3. /\ stored' \in [Dirs -> [id : Nat, bound : BOOLEAN]]
      /\ stored'["dsu"] = NoKey /\ \A d \in Dirs \ {"dsu"} : stored'[d] = stored[d]
  BY <1>2 DEF Dirs
<1>4. stored["dsu"].id \in {0, 1} /\ stored["default"].id # 1
  BY DEF Ind, IdsSound
<1>5. TypedKeys' /\ TypedData'
  BY <1>1, <1>2, <1>3 DEF Ind, TypedKeys, TypedData, callVars, dataVars
<1>6. IdsSound'
  BY <1>2, <1>3 DEF Ind, IdsSound, Dirs
<1>7. DataKeyKept'
  <2>1. stored'["default"] = stored["default"]
    BY <1>3 DEF Dirs
  <2>2. stored["default"].id # 0 /\ stored["default"].id \in keystore => stored["default"].id \in keystore'
    BY <1>2, <1>4
  <2> QED
    BY <1>1, <2>1, <2>2, DataKeyStays DEF Ind, dataVars
<1>8. TypedBlocks' /\ BufferSound' /\ EncSound'
  BY <1>1, BlocksKept DEF Ind, dataVars
<1>9. DataSound'
  BY <1>1, DataKept DEF Ind, DataSound
<1>10. CallSound' /\ MountSound' /\ SeedSound'
  BY <1>1 DEF Ind, CallSound, CallPcs, MountSound, SeedSound, callVars, seedVars, dataVars, inplaceVars
<1> QED
  BY <1>5, <1>6, <1>7, <1>8, <1>9, <1>10 DEF Ind

\* /metadata is lost, and the key of the data with it.
LEMMA MetadataLostStep ==
  ASSUME Ind, MetadataLost
  PROVE  Ind'
<1>1. UNCHANGED <<device, pc, callVars, keystore, keys, seedVars, dataVars, dm, inplaceVars>> /\ pc = "off"
  BY DEF MetadataLost
<1>2. /\ stored' = [d \in Dirs |-> NoKey] /\ lost' = (dataKey # 0)
      /\ NoKey \in [id : Nat, bound : BOOLEAN] /\ NoKey.id = 0 /\ {"default", "zoned", "dsu"} = Dirs
  BY DEF MetadataLost, NoKey, Dirs
<1>3. run = "idle" /\ ~mounted
  BY <1>1 DEF Ind, DataSound, CallSound
<1>5. TypedKeys' /\ TypedData'
  <2>1. stored' \in [Dirs -> [id : Nat, bound : BOOLEAN]] /\ lost' \in BOOLEAN
    BY <1>2
  <2> QED
    BY <1>1, <2>1 DEF Ind, TypedKeys, TypedData, callVars, dataVars
<1>6. IdsSound' /\ DataKeyKept'
  <2>1. lost' \/ dataKey' = 0
    BY <1>1, <1>2 DEF dataVars
  <2>2. stored'["default"] = NoKey
    BY <1>2
  <2>3. DataKeyKept'
    BY <2>1, <2>2 DEF DataKeyKept
  <2> QED
    BY <1>2, <2>3 DEF IdsSound
<1>8. TypedBlocks' /\ BufferSound' /\ EncSound'
  BY <1>1, BlocksKept DEF Ind, dataVars
<1>9. DataSound'
  <2>1. Super' = Super /\ (WholeOnce' <=> WholeOnce) /\ (CountRight' <=> CountRight)
    BY <1>1 DEF inplaceVars, Super, WholeOnce, CountRight
  <2> QED
    BY <1>1, <1>2, <1>3, <2>1 DEF Ind, DataSound, inplaceVars, dataVars
<1>10. CallSound' /\ MountSound' /\ SeedSound'
  BY <1>1, <1>3 DEF Ind, CallSound, CallPcs, MountSound, SeedSound, callVars, seedVars, dataVars, inplaceVars
<1> QED
  BY <1>5, <1>6, <1>8, <1>9, <1>10 DEF Ind

\* Everything starts anew.
LEMMA FactoryResetStep ==
  ASSUME Ind, FactoryReset
  PROVE  Ind'
<1>1. UNCHANGED <<device, pc, callVars, keystore, keys, seedVars, dm, faults, fs, todo, first, pending, done, run>>
      /\ pc = "off" /\ blank' = TRUE /\ dataKey' = 0 /\ partial' = FALSE /\ lost' = FALSE
      /\ enc' = [b \in Blocks |-> 0] /\ medium' = enc' /\ dropped' = {}
  BY DEF FactoryReset
<1>2. /\ stored' = [d \in Dirs |-> NoKey]
      /\ NoKey \in [id : Nat, bound : BOOLEAN] /\ NoKey.id = 0 /\ {"default", "zoned", "dsu"} = Dirs
  BY DEF FactoryReset, NoKey, Dirs
<1>3. run = "idle" /\ ~mounted
  BY <1>1 DEF Ind, DataSound, CallSound
<1>5. TypedKeys' /\ TypedData'
  <2>1. stored' \in [Dirs -> [id : Nat, bound : BOOLEAN]]
    BY <1>2
  <2> QED
    BY <1>1, <2>1 DEF Ind, TypedKeys, TypedData, callVars
<1>6. IdsSound' /\ DataKeyKept'
  BY <1>1, <1>2 DEF IdsSound, DataKeyKept
<1>8. TypedBlocks' /\ BufferSound' /\ EncSound'
  BY <1>1, <1>3 DEF Ind, TypedBlocks, BufferSound, EncSound
<1>9. DataSound'
  BY <1>1, <1>3 DEF DataSound, CountRight
<1>10. CallSound' /\ MountSound' /\ SeedSound'
  BY <1>1, <1>3 DEF Ind, CallSound, CallPcs, MountSound, SeedSound, callVars, seedVars
<1> QED
  BY <1>5, <1>6, <1>8, <1>9, <1>10 DEF Ind

\* A blank partition is formatted through the device: all of it is encrypted once.
LEMMA FormatStep ==
  ASSUME Ind, Format
  PROVE  Ind'
<1>1. UNCHANGED <<device, callVars, keyVars, seedVars, dm, faults, fs, todo, first, pending, done, run>>
      /\ pc = "format" /\ pc' = "mount"
      /\ blank' = FALSE /\ dataKey' = dm.key /\ partial' = FALSE
      /\ enc' = [b \in Blocks |-> 1] /\ medium' = enc' /\ dropped' = {}
  BY DEF Format
<1>2. run = "idle" /\ ~mounted /\ blank /\ ~lost /\ dm.key = stored["default"].id /\ dm.key \in keystore
      /\ dm.key # 0
  BY <1>1 DEF Ind, DataSound, CallSound, CallPcs
<1>3. TypedKeys' /\ TypedData'
  BY <1>1 DEF Ind, TypedKeys, TypedData, Pcs, callVars, keyVars
<1>4. IdsSound' /\ DataKeyKept'
  BY <1>1, <1>2 DEF Ind, IdsSound, DataKeyKept, keyVars
<1>5. TypedBlocks' /\ BufferSound' /\ EncSound'
  BY <1>1, <1>2 DEF Ind, TypedBlocks, BufferSound, EncSound
<1>6. DataSound'
  <2>1. WholeOnce'
    <3>1. InUse(fs) \subseteq Blocks
      BY Layout DEF Ind, TypedBlocks
    <3> QED
      BY <1>1, <3>1 DEF WholeOnce
  <2> QED
    BY <1>1, <1>2, <2>1 DEF DataSound, CountRight, keyVars
<1>7. CallSound' /\ MountSound' /\ SeedSound'
  BY <1>1, <1>2 DEF Ind, CallSound, CallPcs, MountSound, SeedSound, callVars, seedVars
<1> QED
  BY <1>3, <1>4, <1>5, <1>6, <1>7 DEF Ind

-----------------------------------------------------------------------------

\* An encryption starts on data that is not encrypted, or was cut off before.
LEMMA StartInPlaceStep ==
  ASSUME Ind, StartInPlace
  PROVE  Ind'
<1>1. UNCHANGED <<device, pc, callVars, keyVars, seedVars, blank, partial, dm, faults, fs, enc, medium, dropped>>
      /\ pc = "inplace" /\ run = "idle" /\ dataKey' = dm.key /\ run' = "running"
      /\ todo' = BlocksOf(fs) /\ first' = 0 /\ pending' = 0 /\ done' = 0
  BY DEF StartInPlace, InitFs
<1>2. ~mounted /\ ~blank /\ medium[Super] = 0 /\ dm.key = stored["default"].id /\ dm.key \in keystore
      /\ dm.key # 0
  BY <1>1 DEF Ind, CallSound, CallPcs
<1>3. ~partial => /\ dataKey = 0 /\ ~lost
                  /\ \A b \in Blocks : enc[b] = 0 /\ medium[b] = 0
  <2>1. Super \in InUse(fs) /\ InUse(fs) \subseteq Blocks
    BY Layout DEF Ind, TypedBlocks
  <2>2. ~partial /\ dataKey # 0 => enc = medium /\ WholeOnce
    BY <1>1 DEF Ind, DataSound
  <2>3. Super \notin dropped
    BY DEF Ind, DataSound
  <2>4. ~partial => dataKey = 0
    BY <1>2, <2>1, <2>2, <2>3 DEF WholeOnce
  <2> QED
    BY <1>1, <2>4 DEF Ind, DataSound
<1>4. TypedKeys' /\ TypedData'
  BY <1>1 DEF Ind, TypedKeys, TypedData, callVars, keyVars
<1>5. IdsSound' /\ DataKeyKept'
  BY <1>1, <1>2, <1>3 DEF Ind, IdsSound, DataKeyKept, keyVars
<1>6. BlocksOf(fs) \in Seq(Blocks) /\ Len(BlocksOf(fs)) \in Nat
  BY Layout DEF Ind, TypedBlocks
<1>7. TypedBlocks'
  BY <1>1, <1>6 DEF Ind, TypedBlocks
<1>8. At' = 0 /\ Passed' = {} /\ Pending' = {}
  BY <1>1, <1>6 DEF At, Passed, Pending
<1>9. BufferSound' /\ EncSound'
  BY <1>1, <1>3, <1>6, <1>8 DEF BufferSound, EncSound
<1>10. DataSound'
  BY <1>1, <1>2, <1>3 DEF Ind, DataSound, CountRight, Super, keyVars
<1>11. CallSound' /\ MountSound' /\ SeedSound'
  BY <1>1, <1>2 DEF Ind, CallSound, CallPcs, MountSound, SeedSound, callVars, seedVars, keyVars
<1> QED
  BY <1>4, <1>5, <1>7, <1>9, <1>10, <1>11 DEF Ind

\* The steps of an encryption in place, as far as they concern the blocks.
LEMMA InPlaceRest ==
  ASSUME Ind, InPlaceStep, TypedBlocks', BufferSound', EncSound', fs' = fs, Super \notin dropped',
         run' \in {"running", "success", "failed"},
         run' = "success" => enc' = medium' /\ CountRight' /\ (~partial => WholeOnce')
  PROVE  Ind'
<1>1. UNCHANGED <<device, pc, callVars, keyVars, seedVars, dataVars, dm>> /\ pc = "inplace"
  BY DEF InPlaceStep
<1>2. run = "running"
  BY DEF InPlaceStep, ProcessUsedBlock, EncryptInPlaceEnd, FlushFails, EncryptInPlaceFails
<1>3. TypedKeys' /\ TypedData' /\ IdsSound' /\ DataKeyKept' /\ SeedSound'
  BY <1>1 DEF Ind, TypedKeys, TypedData, IdsSound, DataKeyKept, SeedSound, callVars, keyVars, seedVars, dataVars
<1>4. CallSound' /\ MountSound'
  BY <1>1 DEF Ind, CallSound, CallPcs, MountSound, callVars, keyVars, dataVars
<1>5. DataSound'
  BY <1>1, <1>2 DEF Ind, DataSound, CountRight, Super, keyVars, dataVars
<1> QED
  BY <1>3, <1>4, <1>5 DEF Ind

\* One more block has been processed.
LEMMA OneMore ==
  ASSUME TypedBlocks, BufferSound, run = "running", todo # <<>>, todo' = Tail(todo), fs' = fs
  PROVE  /\ todo' \in Seq(Blocks) /\ At' = At + 1 /\ At \in Nat /\ Head(todo) \in Blocks
         /\ Passed' = Passed \cup {Head(todo)} /\ Passed \subseteq Blocks
         /\ \A i \in 1..Len(todo') : todo'[i] = BlocksOf(fs)[At' + i]
         /\ \A b \in Passed : b < Head(todo)
         /\ Super = Head(todo) => At = 0
<1>0. fs \in Layouts /\ todo \in Seq(Blocks)
  BY DEF TypedBlocks
<1> DEFINE B == BlocksOf(fs)
<1>1. B \in Seq(Blocks) /\ B[1] = Super /\ \A i, j \in 1..Len(B) : i < j => B[i] < B[j]
  BY <1>0, Layout
<1>2. Len(todo) \in Nat /\ Len(todo) >= 1 /\ Len(B) \in Nat
      /\ todo' \in Seq(Blocks) /\ Len(todo') = Len(todo) - 1
      /\ \A i \in 1..Len(todo') : todo'[i] = todo[i + 1]
      /\ Head(todo) = todo[1]
  BY <1>0, <1>1
<1>3. At = Len(B) - Len(todo) /\ At' = Len(B) - Len(todo')
  BY DEF At
<1>4. At >= 0 /\ \A i \in 1..Len(todo) : todo[i] = B[At + i]
  BY DEF BufferSound
<1>5. Passed = {B[i] : i \in 1..At} /\ Passed' = {B[i] : i \in 1..At'}
  BY DEF Passed
<1> HIDE DEF B
<1>6. At' = At + 1 /\ At \in Nat /\ At + 1 \in 1..Len(B) /\ Head(todo) = B[At + 1]
  BY <1>2, <1>3, <1>4
<1>7. Head(todo) \in Blocks
  BY <1>1, <1>6
<1>8. Passed' = Passed \cup {Head(todo)}
  <2>1. 1..At' = 1..At \cup {At + 1}
    BY <1>6
  <2> QED
    BY <1>5, <1>6, <2>1
<1>9. Passed \subseteq Blocks
  <2>1. \A i \in 1..At : i \in 1..Len(B)
    BY <1>6, <1>2
  <2> QED
    BY <1>1, <1>5, <2>1
<1>10. \A i \in 1..Len(todo') : todo'[i] = B[At' + i]
  BY <1>2, <1>4, <1>6
<1>11. \A b \in Passed : b < Head(todo)
  <2>1. \A i \in 1..At : i \in 1..Len(B) /\ i < At + 1
    BY <1>6, <1>2
  <2> QED
    BY <1>1, <1>5, <1>6, <2>1
<1>12. Super = Head(todo) => At = 0
  <2>1. SUFFICES ASSUME At > 0 PROVE Super # Head(todo)
    BY <1>6
  <2>2. 1 \in 1..Len(B) /\ 1 < At + 1
    BY <1>2, <1>6, <2>1
  <2>3. B[1] < B[At + 1]
    BY <1>1, <1>6, <2>2
  <2>4. B[1] \in Nat /\ B[At + 1] \in Nat
    <3>1. B[1] \in Blocks /\ B[At + 1] \in Blocks
      BY <1>1, <1>6, <2>2
    <3> QED
      BY <3>1, BlocksAreNat
  <2> QED
    BY <1>1, <1>6, <2>3, <2>4
<1> QED
  BY <1>2, <1>6, <1>7, <1>8, <1>9, <1>10, <1>11, <1>12 DEF B

\* The buffer is written: what was pending has been encrypted once more.
LEMMA Flushed ==
  ASSUME TypedBlocks, BufferSound, EncSound, run = "running", NEW n \in Nat, EncryptPendingData(n),
         Passed \subseteq Blocks
  PROVE  /\ enc' \in [Blocks -> Nat] /\ done' \in Nat /\ pending' = n
         /\ done' = done + pending
         /\ ~partial => \A b \in Blocks \ dropped : enc'[b] = IF b \in Passed THEN 1 ELSE 0
<1>1. enc' = [b \in Blocks |-> IF b \in Pending THEN enc[b] + 1 ELSE enc[b]]
      /\ done' = done + pending /\ pending' = n
  BY DEF EncryptPendingData
<1>2. enc \in [Blocks -> Nat] /\ done \in Nat /\ pending \in Nat
  BY DEF TypedBlocks
<1>3. Pending \subseteq Passed
  BY DEF BufferSound
<1>4. ~partial => \A b \in Blocks \ dropped : enc[b] = IF b \in Passed \ Pending THEN 1 ELSE 0
  BY DEF EncSound
<1>5. enc' \in [Blocks -> Nat] /\ \A b \in Blocks : enc'[b] = IF b \in Pending THEN enc[b] + 1 ELSE enc[b]
  BY <1>1, <1>2
<1>6. ~partial => \A b \in Blocks \ dropped : enc'[b] = IF b \in Passed THEN 1 ELSE 0
  BY <1>3, <1>4, <1>5
<1> QED
  BY <1>1, <1>2, <1>5, <1>6

\* A block joins the ones pending, or starts anew after they were written.
LEMMA ProcessUsedBlockStep ==
  ASSUME Ind, InPlaceStep, ProcessUsedBlock
  PROVE  Ind'
<1>0. TypedBlocks /\ BufferSound /\ EncSound /\ DataSound
  BY DEF Ind
<1>1. UNCHANGED <<fs, medium, run, dropped>> /\ run = "running" /\ todo # <<>> /\ todo' = Tail(todo)
      /\ partial' = partial
  BY DEF ProcessUsedBlock, InPlaceStep, dataVars
<1>2. /\ todo' \in Seq(Blocks) /\ At' = At + 1 /\ At \in Nat /\ Head(todo) \in Blocks
      /\ Passed' = Passed \cup {Head(todo)} /\ Passed \subseteq Blocks
      /\ \A i \in 1..Len(todo') : todo'[i] = BlocksOf(fs)[At' + i]
      /\ \A b \in Passed : b < Head(todo)
  BY <1>0, <1>1, OneMore
<1>3. Head(todo) \in Nat /\ Head(todo) \notin Passed
  <2>1. Head(todo) \in Nat
    BY <1>2, BlocksAreNat
  <2>2. ~(Head(todo) < Head(todo))
    BY <2>1
  <2> QED
    BY <1>2, <2>1, <2>2
<1>4. Pending \subseteq Passed /\ (dropped = {} => done + pending = At) /\ At' >= 0
  BY <1>0, <1>1, <1>2 DEF BufferSound
<1>5. CASE MustFlush(Head(todo))
  <2>1. EncryptPendingData(1) /\ first' = Head(todo)
    BY <1>5 DEF ProcessUsedBlock
  <2>2. /\ enc' \in [Blocks -> Nat] /\ done' \in Nat /\ pending' = 1
        /\ done' = done + pending
        /\ ~partial => \A b \in Blocks \ dropped : enc'[b] = IF b \in Passed THEN 1 ELSE 0
    BY <1>0, <1>1, <1>2, <2>1, Flushed
  <2>3. Pending' = {Head(todo)}
    BY <1>3, <2>1, <2>2 DEF Pending
  <2>4. TypedBlocks'
    BY <1>0, <1>1, <1>2, <1>3, <2>1, <2>2 DEF TypedBlocks
  <2>5. BufferSound'
    BY <1>1, <1>2, <1>4, <2>2, <2>3 DEF BufferSound
  <2>6. EncSound'
    <3>1. Passed' \ Pending' = Passed
      BY <1>2, <1>3, <2>3
    <3> QED
      BY <1>0, <1>1, <2>2, <3>1 DEF EncSound
  <2> QED
    BY <1>0, <1>1, <2>4, <2>5, <2>6, InPlaceRest DEF DataSound
<1>6. CASE ~MustFlush(Head(todo))
  <2>1. pending' = pending + 1 /\ UNCHANGED <<enc, done, first>> /\ Head(todo) = first + pending
    BY <1>6 DEF ProcessUsedBlock, MustFlush
  <2>2. Pending' = Pending \cup {Head(todo)}
    <3>1. first \in Nat /\ pending \in Nat
      BY <1>0 DEF TypedBlocks
    <3> QED
      BY <2>1, <3>1 DEF Pending
  <2>4. TypedBlocks'
    BY <1>0, <1>1, <1>2, <1>3, <2>1 DEF TypedBlocks
  <2>5. BufferSound'
    <3>1. done + pending' = done + pending + 1
      BY <1>0, <2>1 DEF TypedBlocks
    <3> QED
      BY <1>1, <1>2, <1>4, <2>1, <2>2, <3>1 DEF BufferSound
  <2>6. EncSound'
    <3>1. Passed' \ Pending' = Passed \ Pending
      BY <1>2, <1>3, <2>2
    <3> QED
      BY <1>0, <1>1, <2>1, <3>1 DEF EncSound
  <2> QED
    BY <1>0, <1>1, <2>4, <2>5, <2>6, InPlaceRest DEF DataSound
<1> QED
  BY <1>5, <1>6

\* A flush that fails loses the block at hand, which is not the first.
LEMMA FlushFailsStep ==
  ASSUME Ind, InPlaceStep, FlushFails
  PROVE  Ind'
<1>0. TypedBlocks /\ BufferSound /\ EncSound /\ DataSound
  BY DEF Ind
<1>1. UNCHANGED <<fs, enc, medium, first, pending, done>> /\ run = "running" /\ todo # <<>> /\ pending > 0
      /\ partial' = partial
  BY DEF FlushFails, InPlaceStep, dataVars
<1>2. CASE fs.type = "ext4"
  <2>1. todo' = Tail(todo) /\ dropped' = dropped \cup {Head(todo)} /\ run' = run
    BY <1>2 DEF FlushFails
  <2>2. /\ todo' \in Seq(Blocks) /\ At' = At + 1 /\ At \in Nat /\ Head(todo) \in Blocks
        /\ Passed' = Passed \cup {Head(todo)} /\ Passed \subseteq Blocks
        /\ \A i \in 1..Len(todo') : todo'[i] = BlocksOf(fs)[At' + i]
        /\ Super = Head(todo) => At = 0
    BY <1>0, <1>1, <2>1, OneMore
  <2>3. Pending \subseteq Passed /\ At' >= 0
    BY <1>0, <1>1, <2>2 DEF BufferSound
  <2>4. Pending' = Pending
    BY <1>1 DEF Pending
  <2>5. Super \notin dropped'
    <3>1. At # 0
      <4>1. first \in Pending
        BY <1>0, <1>1 DEF Pending, TypedBlocks
      <4> QED
        BY <2>3, <4>1 DEF Passed
    <3> QED
      BY <1>0, <2>1, <2>2, <3>1 DEF DataSound
  <2>6. TypedBlocks'
    BY <1>0, <1>1, <2>1, <2>2 DEF TypedBlocks
  <2>7. BufferSound'
    BY <1>1, <2>1, <2>2, <2>3, <2>4 DEF BufferSound
  <2>8. EncSound'
    BY <1>0, <1>1, <2>1, <2>2, <2>4 DEF EncSound
  <2> QED
    BY <1>1, <2>1, <2>5, <2>6, <2>7, <2>8, InPlaceRest
<1>3. CASE fs.type # "ext4"
  <2>1. run' = "failed" /\ UNCHANGED <<todo, dropped>>
    BY <1>3 DEF FlushFails
  <2>2. TypedBlocks' /\ BufferSound' /\ EncSound'
    BY <1>0, <1>1, <2>1 DEF TypedBlocks, BufferSound, EncSound
  <2> QED
    BY <1>0, <1>1, <2>1, <2>2, InPlaceRest DEF DataSound
<1> QED
  BY <1>2, <1>3

\* At the end all blocks in use have been passed, and none is pending.
LEMMA InPlaceEndStep ==
  ASSUME Ind, InPlaceStep, EncryptInPlaceEnd
  PROVE  Ind'
<1>0. TypedBlocks /\ BufferSound /\ EncSound /\ DataSound
  BY DEF Ind
<1>1. UNCHANGED <<fs, todo, first, dropped>> /\ run = "running" /\ todo = <<>> /\ EncryptPendingData(0)
      /\ medium' = enc' /\ run' = "success" /\ partial' = partial
  BY DEF EncryptInPlaceEnd, InPlaceStep, dataVars
<1>2. /\ InUse(fs) = {BlocksOf(fs)[i] : i \in 1..Len(BlocksOf(fs))} /\ InUse(fs) \subseteq Blocks
      /\ Len(BlocksOf(fs)) = blocks_to_encrypt(fs) /\ BlocksOf(fs) \in Seq(Blocks)
  BY <1>0, Layout DEF TypedBlocks
<1>3. At = Len(BlocksOf(fs)) /\ Passed = InUse(fs)
  <2>1. Len(todo) = 0 /\ Len(BlocksOf(fs)) \in Nat
    BY <1>1, <1>2
  <2> QED
    BY <1>2, <2>1 DEF At, Passed
<1>4. /\ enc' \in [Blocks -> Nat] /\ done' \in Nat /\ pending' = 0
      /\ done' = done + pending
      /\ ~partial => \A b \in Blocks \ dropped : enc'[b] = IF b \in Passed THEN 1 ELSE 0
  BY <1>0, <1>1, <1>2, <1>3, Flushed
<1>5. TypedBlocks'
  BY <1>0, <1>1, <1>4 DEF TypedBlocks
<1>6. BufferSound' /\ EncSound'
  BY <1>1 DEF BufferSound, EncSound
<1>7. CountRight'
  BY <1>0, <1>1, <1>2, <1>3, <1>4 DEF CountRight, BufferSound
<1>8. ~partial => WholeOnce'
  BY <1>1, <1>2, <1>3, <1>4 DEF WholeOnce
<1> QED
  BY <1>0, <1>1, <1>5, <1>6, <1>7, <1>8, InPlaceRest DEF DataSound

\* Every step of an encryption in place.
LEMMA InPlaceStepStep ==
  ASSUME Ind, InPlaceStep
  PROVE  Ind'
<1>1. CASE EncryptInPlaceFails
  <2>1. UNCHANGED <<fs, enc, medium, todo, first, pending, done, dropped>> /\ run' = "failed"
    BY <1>1 DEF EncryptInPlaceFails
  <2>2. TypedBlocks' /\ BufferSound' /\ EncSound' /\ Super \notin dropped'
    BY <2>1 DEF Ind, DataSound, TypedBlocks, BufferSound, EncSound
  <2> QED
    BY <2>1, <2>2, InPlaceRest
<1> QED
  BY <1>1, ProcessUsedBlockStep, FlushFailsStep, InPlaceEndStep DEF InPlaceStep

-----------------------------------------------------------------------------

\* When the power goes what is on the medium is what there was, unless an encryption in
\* place was going on; then it is a mixture, or nothing was written at all.
LEMMA PowerOffStep ==
  ASSUME Ind, NEW kept \in SUBSET {b \in Blocks : enc[b] # medium[b]}, PowerOff(kept)
  PROVE  Ind'
<1> DEFINE m == [b \in Blocks |-> IF b \in kept THEN enc[b] ELSE medium[b]]
           written == \E b \in Blocks : medium'[b] # 0
<1>0. TypedBlocks /\ DataSound /\ enc \in [Blocks -> Nat] /\ medium \in [Blocks -> Nat]
  BY DEF Ind, TypedBlocks
<1>1. UNCHANGED <<device, needs, keyVars, seedVars, blank, dm, fs, dropped>>
      /\ pc' = "off" /\ mounted' = FALSE /\ key' = 0
      /\ medium' = m /\ enc' = m /\ run' = "idle" /\ todo' = <<>> /\ first' = 0 /\ pending' = 0 /\ done' = 0
  BY DEF PowerOff, InplaceCut
<1>2. /\ dataKey' = (IF written THEN dataKey ELSE 0)
      /\ partial' = (partial \/ (run \in {"running", "failed"} /\ written))
  BY DEF PowerOff
<1>3. m \in [Blocks -> Nat]
  BY <1>0
<1>4. run \in {"idle", "success"} => m = medium
  <2>1. ASSUME run \in {"idle", "success"} PROVE m = medium
    <3>1. kept = {}
      BY <1>0, <2>1 DEF DataSound
    <3> QED
      BY <1>0, <3>1
  <2> QED
    BY <2>1
<1> HIDE DEF m, written
<1>5. TypedKeys' /\ TypedData'
  <2>1. partial' \in BOOLEAN /\ dataKey' \in Nat
    BY <1>2 DEF Ind, TypedData
  <2> QED
    BY <1>1, <2>1 DEF Ind, TypedKeys, TypedData, Pcs, keyVars
<1>6. TypedBlocks' /\ BufferSound' /\ EncSound'
  BY <1>0, <1>1, <1>3 DEF TypedBlocks, BufferSound, EncSound
<1>7. CallSound' /\ MountSound' /\ SeedSound' /\ IdsSound'
  BY <1>1 DEF Ind, CallSound, CallPcs, MountSound, SeedSound, IdsSound, keyVars, seedVars
<1>8. Super' = Super
  BY <1>1 DEF Super
<1>9. CASE run \in {"idle", "success"}
  <2>1. medium' = medium /\ enc' = medium /\ enc = medium /\ (WholeOnce' <=> WholeOnce)
    BY <1>0, <1>1, <1>4, <1>9 DEF DataSound, WholeOnce
  <2>2. partial' = partial
    BY <1>2, <1>9 DEF Ind, TypedData
  <2>3. ~partial => (dataKey' = dataKey /\ (dataKey = 0 => \A b \in Blocks : medium[b] = 0))
    <3>1. ASSUME ~partial, dataKey # 0 PROVE dataKey' = dataKey
      <4>1. WholeOnce /\ Super \notin dropped
        BY <1>0, <1>9, <3>1 DEF DataSound
      <4>2. Super \in InUse(fs) /\ Super \in Blocks
        BY <1>0, Layout DEF TypedBlocks
      <4>3. written
        BY <2>1, <4>1, <4>2 DEF WholeOnce, written
      <4> QED
        BY <1>2, <4>3
    <3>2. ASSUME ~partial, dataKey = 0 PROVE dataKey' = dataKey /\ \A b \in Blocks : medium[b] = 0
      <4>1. run = "idle"
        BY <1>0, <1>9, <3>2 DEF DataSound
      <4> QED
        BY <1>0, <1>2, <2>1, <3>2, <4>1 DEF DataSound
    <3> QED
      BY <3>1, <3>2
  <2>4. ~partial /\ lost => dataKey # 0
    BY <1>0 DEF DataSound
  <2>5. DataSound'
    <3>1. blank => dataKey' = 0 /\ ~partial /\ ~lost
      BY <1>0, <2>3 DEF DataSound
    <3> QED
      BY <1>0, <1>1, <1>8, <1>9, <2>1, <2>2, <2>3, <2>4, <3>1 DEF DataSound, CountRight, keyVars
  <2>6. DataKeyKept'
    BY <1>1, <2>2, <2>3 DEF Ind, DataKeyKept, keyVars
  <2> QED
    BY <1>5, <1>6, <1>7, <2>5, <2>6 DEF Ind
<1>10. CASE run \in {"running", "failed"}
  <2>1. ~blank /\ (~partial => ~lost)
    BY <1>0, <1>10 DEF DataSound
  <2>2. ~partial' => ~partial /\ dataKey' = 0 /\ \A b \in Blocks : medium'[b] = 0
    BY <1>2, <1>10 DEF written
  <2>3. DataSound'
    BY <1>0, <1>1, <1>8, <2>1, <2>2 DEF DataSound, CountRight, keyVars
  <2>4. DataKeyKept'
    BY <2>2 DEF DataKeyKept
  <2> QED
    BY <1>5, <1>6, <1>7, <2>3, <2>4 DEF Ind
<1> QED
  BY <1>0, <1>9, <1>10 DEF TypedBlocks

\* Every step keeps the invariant.
LEMMA NextSound == Ind /\ [Next]_vars => Ind'
<1> SUFFICES ASSUME Ind, [Next]_vars PROVE Ind'
  OBVIOUS
<1>1. CASE UNCHANGED vars
  <2>1. TypedBlocks' /\ BufferSound' /\ EncSound'
    BY <1>1, BlocksKept DEF Ind, vars, dataVars
  <2>2. DataSound'
    BY <1>1, DataKept DEF Ind, vars, keyVars, DataSound
  <2>3. TypedKeys' /\ TypedData' /\ IdsSound' /\ SeedSound' /\ DataKeyKept' /\ MountSound'
    BY <1>1 DEF Ind, TypedKeys, TypedData, IdsSound, SeedSound, DataKeyKept, MountSound,
       vars, callVars, keyVars, seedVars, dataVars, inplaceVars
  <2>4. CallSound'
    BY <1>1 DEF Ind, CallSound, CallPcs, Super, vars, callVars, keyVars, dataVars, inplaceVars
  <2> QED
    BY <2>1, <2>2, <2>3, <2>4 DEF Ind
<1>2. CASE PowerCut \/ Reboot
  BY <1>2, PowerOffStep DEF PowerCut, Reboot
<1> QED
  BY <1>1, <1>2, StartMountStep, ReadKeyStep, CreateDevStep, CallFailsStep, FormatStep, StartInPlaceStep,
     InPlaceStepStep, EndInPlaceStep, MountStep, SetSeedStep, DestroyDsuStep, FactoryResetStep,
     MetadataLostStep DEF Next

\* The invariant holds always.
LEMMA Inductive == Spec => []Ind
<1>1. Init => Ind
  BY InitSound
<1>2. Ind /\ [Next]_vars => Ind'
  BY NextSound
<1> QED
  BY <1>1, <1>2, PTL DEF Spec

\* EncryptedOnce, for every layout, buffer and number of faults: what is mounted as /data has
\* each used block encrypted once with the key of the device, whatever was cut off before, and
\* encrypt_inplace writes as many blocks as it announced.
THEOREM MountedIsEncryptedOnce == Spec => []EncryptedOnce
<1>1. Ind => EncryptedOnce
  BY DEF Ind, DataSound, MountSound, WholeOnce, EncryptedOnce
<1> QED
  BY <1>1, Inductive, PTL

\* DataKeyKept, for every device and any number of boots, cuts, resets and losses: the key that
\* /data is encrypted with is neither removed nor replaced by read_key.
THEOREM TheDataKeyIsKept == Spec => []DataKeyKept
<1>1. Ind => DataKeyKept
  BY DEF Ind
<1> QED
  BY <1>1, Inductive, PTL

\* BoundAlike: all keys used between two starts of vold are bound to the seed, or none is,
\* whenever setKeyStorageBindingSeed is called.
THEOREM KeysBoundAlike == Spec => []BoundAlike
<1>1. Ind => BoundAlike
  BY SeedIsOne DEF Ind
<1> QED
  BY <1>1, Inductive, PTL
=============================================================================
