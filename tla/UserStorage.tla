---------------------------- MODULE UserStorage ----------------------------
(***************************************************************************)
(* The storage of users (FsCrypt.cpp, KeyUtil.cpp, vold_prepare_subdirs):  *)
(* which keys vold has installed in the kernel, the directories that carry *)
(* an encryption policy on /data and on an adopted volume, the keys of     *)
(* that volume, and fscrypt_init_user0, which every boot and every restart *)
(* of userspace goes through.                                              *)
(*                                                                         *)
(* Calls hold mCryptLock; a call is one step that may fail at each of its  *)
(* own steps, and a crash in the middle of a call is such a failure with a *)
(* reboot after it.  fscrypt_init_user0 is a step per part.  The workers   *)
(* of waitForBusyFiles run beside all that, under fscrypt_keyring_mutex,   *)
(* which is held for a whole installKey and evictKey.                      *)
(*                                                                         *)
(* A key stands for its policy.  How a CE key is protected is in UserKeys. *)
(*                                                                         *)
(* External: the kernel's keyrings; the framework, which prepares the CE   *)
(* storage of a user only when the CE key is saved, and removes the users  *)
(* that it had not finished to make.                                       *)
(***************************************************************************)
EXTENDS Naturals, Integers, Sequences, FiniteSets, SequencesExt

CONSTANTS
  Users,       \* user ids; 0 is the system user
  VolUsers,    \* users whose storage is prepared on the adopted volume
  MaxGen,      \* how often a key is generated for one purpose
  MaxKeys,     \* how many keys are generated in all
  MaxTries,    \* tries of a worker: 5
  MaxWorkers,  \* workers at a time
  MaxFaults    \* calls that fail

ASSUME StorageAssumption ==
  0 \in Users /\ Users \subseteq Nat /\ VolUsers \subseteq Users /\ {MaxGen, MaxKeys, MaxTries, MaxWorkers, MaxFaults} \subseteq Nat \ {0}

Sys     == -1                            \* the system, as the owner of a key
Classes == {"de", "ce"}
Purposes == {<<Sys, "de">>} \cup (Users \X {"de", "ce", "vol_de", "vol_ce"})
Key     == {<<p[1], p[2], n>> : p \in Purposes, n \in 1..MaxGen}
NoKey   == <<Sys, "none", 0>>
Damaged == <<Sys, "damaged", 0>>         \* a stored key of which only a part is left
Absent  == <<Sys, "absent", 0>>          \* of a directory: it does not exist
Plain   == <<Sys, "plain", 0>>           \* of a directory: it has no policy of its own

\* The directories of a user that get a policy, in the order in which they are prepared.
\* Those that no other part of the code looks at are one with another of the same class:
\* misc stands for system, vendor, misc, media and, where it is not /data/data, user.
DirsOf(v, u, c) ==
  CASE v = "data" /\ c = "ce" /\ u = 0 -> <<"misc_ce", "user_ce">>
    [] v = "data" /\ ~(c = "ce" /\ u = 0) -> <<IF c = "de" THEN "misc_de" ELSE "misc_ce">>
    [] v = "ext" -> <<IF c = "de" THEN "user_de" ELSE "user_ce">>

Dirs == UNION {{<<v, u, n>> : n \in ToSet(DirsOf(v, u, c))} : v \in {"data", "ext"}, u \in Users, c \in Classes}
MiscDir(u, c) == <<"data", u, IF c = "de" THEN "misc_de" ELSE "misc_ce">>
DataData == <<"data", 0, "user_ce">>     \* /data/data, which is /data/user/0

VARIABLES
  phase,      \* which part of the start is next; "up", "failed"
  fw,         \* fw[u]: a user as the framework sees it: "none", "making", "alive", "leaving"
  deKey,      \* deKey[u]: the stored DE key; deKey[Sys]: the system's
  ceKey,      \* ceKey[u]: the stored CE key
  de, ce,     \* s_device_policy and s_de_policies, s_ce_policies
  newCe,      \* s_new_ce_keys
  ephemeral,  \* s_ephemeral_users
  dirs,       \* dirs[d]: the policy of a directory
  obb,        \* the policy of /data/media/obb
  volkey,     \* volkey[<<u, c>>]: [key, hash] stored for the adopted volume
  secdisc,    \* which secdiscardable the adopted volume has, 0: none
  present,    \* keys in the keyrings of the file systems: pairs of mount point and key
  busy,       \* the same, incompletely removed
  provisioning, \* keys in the session keyring
  workers,    \* threads of waitForBusyFiles: [key, left]
  gen,        \* gen[p]: how many keys have been generated for a purpose
  forgotten,  \* the adopted volume has been forgotten
  erred,      \* history: a step of the start failed
  stray,      \* history: keys that a failing call left behind
  unshredded, \* history: secdiscard failed
  faults      \* how many calls have failed

fsVars     == <<dirs, obb>>
storedVars == <<deKey, ceKey>>
policyVars == <<de, ce, newCe, ephemeral>>
volVars    == <<volkey, secdisc, forgotten, unshredded>>
keyring    == <<present, busy, provisioning, workers>>
bookVars   == <<erred, stray, faults>>
vars == <<phase, fw, storedVars, policyVars, fsVars, volVars, keyring, gen, bookVars>>

Fault == faults < MaxFaults /\ faults' = faults + 1 /\ erred' = (phase # "up")
NoFault == UNCHANGED <<faults, erred>>

-----------------------------------------------------------------------------
(* KeyUtil *)

Installed(m, k) == <<m, k>> \in present

\* A key that is incompletely removed is made whole again.
installFsKeyringKey(m, ks) ==
  /\ present' = present \cup ({m} \X ks)
  /\ busy' = busy \ ({m} \X ks)

installKey(m, ks) ==
  /\ installFsKeyringKey(m, ks)
  /\ provisioning' = provisioning \cup ks
  /\ UNCHANGED <<workers, stray>>

\* The key cannot be added, or it is added and the session keyring refuses it.
installKeyFails(m, ks) ==
  /\ Fault
  /\ \/ UNCHANGED <<keyring, stray>>
     \/ /\ installFsKeyringKey(m, ks)
        /\ stray' = stray \cup ks
        /\ UNCHANGED <<provisioning, workers>>

\* The key has left the file system's keyring by then.
evictProvisioningKey(ks) ==
  \/ provisioning' = provisioning \ ks /\ NoFault
  \/ provisioning' = provisioning /\ Fault

\* Files may be open: the key is then removed for new files only, and a worker is started.
evictKey(m, ks) ==
  /\ \E open \in SUBSET {k \in ks : Installed(m, k)} :
       /\ busy' = busy \cup ({m} \X open)
       /\ workers' = workers \cup {[key |-> k, left |-> MaxTries] : k \in open}
       /\ open # {} => Cardinality(workers') <= MaxWorkers
  /\ present' = present \ ({m} \X ks)
  /\ evictProvisioningKey(ks)
  /\ UNCHANGED stray

evictKeyFails(ks) ==
  /\ Fault
  /\ stray' = stray \cup ks
  /\ UNCHANGED keyring

\* Mutant of StillBusy: what became of the key in the meantime is not asked.
AlwaysBusy(k) == TRUE

StillBusy(k) == <<"data", k>> \in busy

\* A worker wakes up, looks at the key, and tries to remove it again.
waitForBusyFiles(w) ==
  /\ \/ ~StillBusy(w.key) /\ workers' = workers \ {w} /\ UNCHANGED <<present, busy>>
     \/ /\ StillBusy(w.key)
        /\ present' = present \ {<<"data", w.key>>}
        /\ \/ busy' = busy \ {<<"data", w.key>>} /\ workers' = workers \ {w}
           \/ /\ busy' = busy \cup {<<"data", w.key>>}
              /\ workers' = (workers \ {w}) \cup
                   (IF w.left > 1 THEN {[w EXCEPT !.left = @ - 1]} ELSE {})
  /\ UNCHANGED <<phase, fw, storedVars, policyVars, fsVars, volVars, provisioning, gen, bookVars>>

-----------------------------------------------------------------------------
(* The keys of users *)

NextKey(p) == <<p[1], p[2], gen[p] + 1>>
generateStorageKey(ps) ==
  /\ \A p \in ps : gen[p] < MaxGen
  /\ gen' = [p \in Purposes |-> IF p \in ps THEN gen[p] + 1 ELSE gen[p]]
  /\ MapThenSumSet(LAMBDA p : gen'[p], Purposes) <= MaxKeys

\* Mutant of MayStore: a key that is stored already is overwritten.
MayOverwrite(u) == TRUE

\* storeKeyAtomically refuses a path that exists.
MayStore(u) == deKey[u] = NoKey

\* Ephemeral users have no keys on disk.
create_de_key(u, eph) ==
  LET k == NextKey(<<u, "de">>) IN
  /\ eph \/ MayStore(u)
  /\ deKey' = IF eph THEN deKey ELSE [deKey EXCEPT ![u] = k]
  /\ de' = [de EXCEPT ![u] = k]

\* The key cannot be stored, or is stored and cannot be installed.
create_de_key_fails(u, eph) ==
  LET k == NextKey(<<u, "de">>) IN
  \/ Fault /\ UNCHANGED <<deKey, keyring, stray, gen>>
  \/ /\ eph \/ MayStore(u)
     /\ generateStorageKey({<<u, "de">>})
     /\ deKey' = IF eph THEN deKey ELSE [deKey EXCEPT ![u] = k]
     /\ installKeyFails("data", {k})

\* The key stays in memory until it can be protected; insert keeps the one that is there.
create_ce_key(u, eph) ==
  LET k == NextKey(<<u, "ce">>) IN
  /\ ce' = [ce EXCEPT ![u] = k]
  /\ newCe' = IF eph \/ newCe[u] # NoKey THEN newCe ELSE [newCe EXCEPT ![u] = k]

create_ce_key_fails(u, eph) ==
  LET k == NextKey(<<u, "ce">>) IN
  /\ newCe' = IF eph \/ newCe[u] # NoKey THEN newCe ELSE [newCe EXCEPT ![u] = k]
  /\ ce' = ce

\* The framework makes users when the storage of the system user is there.
fscrypt_vold_create_user_key(u, eph) ==
  /\ phase = "up" /\ u # 0 /\ ce[u] = NoKey /\ ce[0] # NoKey /\ dirs[MiscDir(0, "ce")] = ce[0]
  /\ fw[u] = "none" \/ (fw[u] = "alive" /\ ~eph)
  /\ \/ /\ create_de_key(u, eph) /\ create_ce_key(u, eph)
        /\ generateStorageKey({<<u, "de">>, <<u, "ce">>})
        /\ installKey("data", {NextKey(<<u, "de">>), NextKey(<<u, "ce">>)})
        /\ ephemeral' = IF eph THEN ephemeral \cup {u} ELSE ephemeral
        /\ NoFault
     \/ create_de_key_fails(u, eph) /\ UNCHANGED policyVars
     \/ ~eph /\ ~MayStore(u) /\ NoFault /\ UNCHANGED <<deKey, policyVars, keyring, stray, gen>>
     \/ /\ create_de_key(u, eph) /\ create_ce_key_fails(u, eph)
        /\ generateStorageKey({<<u, "de">>, <<u, "ce">>})
        /\ Fault
        /\ installKey("data", {NextKey(<<u, "de">>)})
        /\ UNCHANGED ephemeral
  /\ fw' = [fw EXCEPT ![u] = IF @ = "none" THEN "making" ELSE @]
  /\ UNCHANGED <<phase, ceKey, fsVars, volVars>>

\* The CE key is saved.  What the call does for a key that is stored already, a change of its
\* protection, leaves the key as it is: UserKeys has that branch.
fscrypt_set_user_key_protection(u) ==
  /\ phase = "up" /\ newCe[u] # NoKey
  /\ ceKey' = [ceKey EXCEPT ![u] = newCe[u]]
  /\ newCe' = [newCe EXCEPT ![u] = NoKey]
  /\ UNCHANGED <<phase, fw, deKey, de, ce, ephemeral, fsVars, volVars, keyring, gen, bookVars>>

fscrypt_unlock_user_key(u) ==
  /\ phase = "up" /\ ce[u] = NoKey /\ ceKey[u] # NoKey
  /\ \/ installKey("data", {ceKey[u]}) /\ ce' = [ce EXCEPT ![u] = ceKey[u]] /\ NoFault
     \/ installKeyFails("data", {ceKey[u]}) /\ ce' = ce
  /\ UNCHANGED <<phase, fw, storedVars, de, newCe, ephemeral, fsVars, volVars, gen>>

\* Mutant of evict_ce_key: vold forgets the key, the kernel does not.
evict_ce_key_forgets(u) ==
  /\ UNCHANGED <<keyring, bookVars>>
  /\ ce' = [ce EXCEPT ![u] = NoKey]
  /\ newCe' = [newCe EXCEPT ![u] = NoKey]

evict_ce_key(u) ==
  /\ evictKey("data", {ce[u]} \ {NoKey}) \/ evictKeyFails({ce[u]} \ {NoKey})
  /\ ce' = [ce EXCEPT ![u] = NoKey]
  /\ newCe' = [newCe EXCEPT ![u] = NoKey]

\* The framework locks users whose key is saved; the system user is never stopped.
fscrypt_lock_user_key(u) ==
  /\ phase = "up" /\ u # 0 /\ ce[u] # NoKey /\ newCe[u] = NoKey /\ u \notin ephemeral
  /\ evict_ce_key(u)
  /\ UNCHANGED <<phase, fw, storedVars, de, ephemeral, fsVars, volVars, gen>>

\* Both keys are evicted; each step goes on whatever became of the others.
fscrypt_destroy_user_key(u) ==
  LET ks == {ce[u], de[u]} \ {NoKey} IN
  /\ phase = "up" /\ fw[u] = "leaving"
  /\ ks # {} \/ deKey[u] # NoKey \/ ceKey[u] # NoKey
  /\ ce' = [ce EXCEPT ![u] = NoKey] /\ newCe' = [newCe EXCEPT ![u] = NoKey]
  /\ de' = [de EXCEPT ![u] = NoKey] /\ ephemeral' = ephemeral \ {u}
  /\ \/ /\ evictKey("data", ks)
        /\ deKey' = [deKey EXCEPT ![u] = NoKey] /\ ceKey' = [ceKey EXCEPT ![u] = NoKey]
     \/ /\ evictKeyFails(ks)
        /\ deKey' \in {[deKey EXCEPT ![u] = k] : k \in {NoKey, IF deKey[u] = NoKey THEN NoKey ELSE Damaged}}
        /\ ceKey' \in {ceKey, [ceKey EXCEPT ![u] = NoKey]}
  /\ UNCHANGED <<phase, fw, fsVars, volVars, gen>>

-----------------------------------------------------------------------------
(* Directories with a policy *)

\* EnsurePolicy sets the policy of a directory that has none, and accepts its own.
EnsurePolicy(d, p) == dirs[d] \in {Absent, Plain, p}

\* The directories ds after the first k of them have been prepared: the loop stops where a
\* policy does not fit; the next one may have been made without getting its policy.
Prepared(v, u, c, p, k) ==
  LET ds == DirsOf(v, u, c)
      Fit(i) == \A j \in 1..i : EnsurePolicy(<<v, u, ds[j]>>, p)
  IN [d \in Dirs |->
        IF \E i \in 1..Len(ds) : d = <<v, u, ds[i]>> /\ i <= k /\ Fit(i) THEN p
        ELSE IF k < Len(ds) /\ d = <<v, u, ds[k + 1]>> /\ Fit(k) /\ dirs[d] = Absent THEN Plain
        ELSE dirs[d]]

\* Every directory is prepared, or one of the steps fails; the last one is that of
\* vold_prepare_subdirs, which makes the directories below.
PrepareDirs(v, u, c, p) ==
  \/ dirs' = Prepared(v, u, c, p, Len(DirsOf(v, u, c))) /\ NoFault
  \/ Fault /\ \E k \in 0..Len(DirsOf(v, u, c)) : dirs' = Prepared(v, u, c, p, k)

PolicyOf(u, c) == IF c = "de" THEN de[u] ELSE ce[u]

\* Internal storage.
PrepareInternal(u, c) ==
  /\ phase = "up" /\ fw[u] # "none"
  /\ c = "ce" => ceKey[u] # NoKey \/ u \in ephemeral
  /\ PolicyOf(u, c) # NoKey
  /\ PrepareDirs("data", u, c, PolicyOf(u, c))
  /\ UNCHANGED <<phase, fw, storedVars, policyVars, obb, volVars, keyring, gen, stray>>

-----------------------------------------------------------------------------
(* The adopted volume *)

NoVolkey == [key |-> NoKey, hash |-> 0]
VolPurpose(u, c) == <<u, IF c = "de" THEN "vol_de" ELSE "vol_ce">>

\* The key of a volume lies in the internal storage of the user, which must be unlocked.
Reachable(u, c) == Installed("data", dirs[MiscDir(u, c)])

\* All keys of a volume depend on one secdiscardable file.
WithSecdiscardable == IF secdisc = 0 THEN 1 ELSE secdisc

\* The stored keys without those of us that can be found.
destroy_volkey(us) ==
  [uc \in DOMAIN volkey |-> IF uc[1] \in us /\ Reachable(uc[1], uc[2]) THEN NoVolkey ELSE volkey[uc]]

\* vold_prepare_subdirs empties the misc directories, in which the keys of volumes lie.
destroy_subdirs(u) == [uc \in DOMAIN volkey |-> IF uc[1] = u THEN NoVolkey ELSE volkey[uc]]

\* The key is read, or generated and stored; the secdiscardable stays if the rest fails.
PrepareExternal(u, c) ==
  LET old == volkey[<<u, c>>]
      k == IF old.key = NoKey THEN NextKey(VolPurpose(u, c)) ELSE old.key
  IN
  /\ phase = "up" /\ u \in VolUsers /\ fw[u] # "none" /\ ~forgotten
  /\ dirs[MiscDir(u, c)] # Absent /\ Reachable(u, c)
  /\ secdisc' = WithSecdiscardable
  /\ \/ /\ old.key # NoKey => old.hash = secdisc'
        /\ volkey' = [volkey EXCEPT ![<<u, c>>] = [key |-> k, hash |-> secdisc']]
        /\ IF old.key = NoKey THEN generateStorageKey({VolPurpose(u, c)}) ELSE UNCHANGED gen
        /\ \/ installKey("ext", {k}) /\ PrepareDirs("ext", u, c, k)
           \/ installKeyFails("ext", {k}) /\ dirs' = dirs
     \/ /\ Fault
        /\ UNCHANGED <<volkey, gen, keyring, stray, dirs>>
  /\ UNCHANGED <<phase, fw, storedVars, policyVars, obb, forgotten, unshredded>>

\* The framework asks for both classes.  A directory may stay behind.
fscrypt_destroy_user_storage(v, u) ==
  LET mine == {d \in Dirs : d[1] = v /\ d[2] = u}
      keysLeft == IF v = "data" THEN destroy_subdirs(u) ELSE destroy_volkey({u})
  IN
  /\ phase = "up" /\ fw[u] = "leaving"
  /\ \E d \in mine : dirs[d] # Absent
  /\ \/ /\ dirs' = [d \in Dirs |-> IF d \in mine THEN Absent ELSE dirs[d]] /\ NoFault
        /\ volkey' = keysLeft
     \/ /\ Fault
        /\ \E d \in mine : dirs' = [e \in Dirs |-> IF e \in mine \ {d} THEN Absent ELSE dirs[e]]
        /\ volkey' \in {volkey, keysLeft}
  /\ UNCHANGED <<phase, fw, storedVars, policyVars, obb, secdisc, forgotten, unshredded,
                 keyring, gen, stray>>

\* Mutant of fscrypt_destroy_volume_keys: only the keys that can be found are destroyed.
DestroyKeysFound ==
  /\ phase = "up" /\ ~forgotten /\ forgotten' = TRUE
  /\ volkey' = destroy_volkey(Users)
  /\ present' = {mk \in present : mk[1] # "ext"}
  /\ dirs' = [d \in Dirs |-> IF d[1] = "ext" THEN Absent ELSE dirs[d]]
  /\ UNCHANGED <<phase, fw, storedVars, policyVars, obb, secdisc, unshredded, busy,
                 provisioning, workers, gen, bookVars>>

\* The volume is forgotten.  The keys of users that are locked cannot be found, but without
\* the secdiscardable file they are of no use.
fscrypt_destroy_volume_keys ==
  /\ phase = "up" /\ ~forgotten /\ forgotten' = TRUE
  /\ \/ secdisc' = 0 /\ NoFault /\ unshredded' = unshredded
     \/ secdisc' = secdisc /\ Fault /\ unshredded' = TRUE
  /\ volkey' = destroy_volkey(Users)
  /\ present' = {mk \in present : mk[1] # "ext"}
  /\ dirs' = [d \in Dirs |-> IF d[1] = "ext" THEN Absent ELSE dirs[d]]
  /\ UNCHANGED <<phase, fw, storedVars, policyVars, obb, busy, provisioning, workers, gen, stray>>

-----------------------------------------------------------------------------
(* The start *)

Continue(part) == phase' = part /\ NoFault

\* The key of the system is read or generated and installed.
fscrypt_initialize_systemwide_keys ==
  LET k == IF deKey[Sys] = NoKey THEN NextKey(<<Sys, "de">>) ELSE deKey[Sys] IN
  /\ phase = "sys"
  /\ deKey' = [deKey EXCEPT ![Sys] = k]
  /\ IF deKey[Sys] = NoKey THEN generateStorageKey({<<Sys, "de">>}) ELSE UNCHANGED gen
  /\ \/ installKey("data", {k}) /\ de' = [de EXCEPT ![Sys] = k] /\ Continue("user0_de")
     \/ installKeyFails("data", {k}) /\ de' = de /\ phase' = "failed"
  /\ UNCHANGED <<fw, ceKey, ce, newCe, ephemeral, fsVars, volVars>>

InitDe ==
  /\ phase = "user0_de"
  /\ \/ deKey[0] # NoKey /\ Continue("user0_ce") /\ UNCHANGED <<deKey, de, gen, keyring, stray>>
     \/ /\ deKey[0] = NoKey /\ create_de_key(0, FALSE) /\ generateStorageKey({<<0, "de">>})
        /\ installKey("data", {NextKey(<<0, "de">>)}) /\ Continue("user0_ce")
     \/ deKey[0] = NoKey /\ create_de_key_fails(0, FALSE) /\ de' = de /\ phase' = "failed"
  /\ UNCHANGED <<fw, ceKey, ce, newCe, ephemeral, fsVars, volVars>>

ce_key_exists(u) == ceKey[u] # NoKey

InitCe ==
  /\ phase = "user0_ce"
  /\ \/ ce_key_exists(0) /\ Continue("load") /\ UNCHANGED <<ce, newCe, gen, keyring, stray>>
     \/ /\ ~ce_key_exists(0) /\ create_ce_key(0, FALSE) /\ generateStorageKey({<<0, "ce">>})
        /\ installKey("data", {NextKey(<<0, "ce">>)}) /\ Continue("load")
     \/ /\ ~ce_key_exists(0) /\ create_ce_key_fails(0, FALSE) /\ generateStorageKey({<<0, "ce">>})
        /\ installKeyFails("data", {NextKey(<<0, "ce">>)}) /\ phase' = "failed"
  /\ UNCHANGED <<fw, storedVars, de, ephemeral, fsVars, volVars>>

\* The keys that are whole; of the others it is assumed that they belong to users that
\* have been removed in part.
Retrieved == {u \in Users : deKey[u] \notin {NoKey, Damaged}}

\* retrieveKey may also fail for a key that is whole: the user, if it is not user 0, is passed
\* over too, and has no DE key until the next start.
PassedOver(missed) ==
  IF missed = {} THEN NoFault
  ELSE faults < MaxFaults /\ faults' = faults + 1 /\ UNCHANGED erred

load_all_de_keys(missed) ==
  LET read == Retrieved \ missed
      ks == {deKey[u] : u \in read}
      consistent == deKey[0] # Damaged /\ \A u \in read : de[u] \in {NoKey, deKey[u]}
  IN
  /\ phase = "load" /\ 0 \notin missed
  /\ \/ /\ installKey("data", ks) /\ PassedOver(missed)
        /\ phase' = IF consistent THEN "special" ELSE "failed"
        /\ de' = IF consistent THEN [u \in DOMAIN de |-> IF u \in read THEN deKey[u] ELSE de[u]] ELSE de
     \/ missed = {} /\ installKeyFails("data", ks) /\ de' = de /\ phase' = "failed"
  /\ UNCHANGED <<fw, storedVars, ce, newCe, ephemeral, fsVars, volVars, gen>>

\* Mutant of DataDataPolicy: a directory from an interrupted first boot is left as it is.
DataDataOnce == IF ce[0] # NoKey THEN dirs[DataData] ELSE Plain

\* /data/data gets the policy of a CE key that was just made; if it has another one it is
\* from a first boot that was interrupted, and empty, and is made anew.
DataDataPolicy ==
  IF ce[0] # NoKey THEN ce[0] ELSE IF dirs[DataData] = Absent THEN Plain ELSE dirs[DataData]

prepare_special_dirs ==
  /\ phase = "special"
  /\ \/ /\ dirs' = [dirs EXCEPT ![DataData] = DataDataPolicy]
        /\ obb' = IF obb = Absent THEN de[Sys] ELSE obb
        /\ Continue(IF ce[0] # NoKey => DataDataPolicy = ce[0] THEN "prepare" ELSE "failed")
     \/ /\ phase' = "failed" /\ Fault
        /\ dirs' \in {dirs, [dirs EXCEPT ![DataData] = IF @ = Absent THEN Plain ELSE @]}
        /\ obb' = obb
  /\ UNCHANGED <<fw, storedVars, policyVars, volVars, keyring, gen, stray>>

PrepareUser0 ==
  /\ phase = "prepare"
  /\ PrepareDirs("data", 0, "de", de[0])
  /\ phase' = IF /\ faults' = faults
                 /\ EnsurePolicy(MiscDir(0, "de"), de[0])
              THEN "reload" ELSE "failed"
  /\ UNCHANGED <<fw, storedVars, policyVars, obb, volVars, keyring, gen, stray>>

\* After a restart of userspace the CE keys come back from the session keyring.
try_reload_ce_keys ==
  LET ks == {ce[u] : u \in Users} \ {NoKey} IN
  /\ phase = "reload"
  /\ \/ /\ present' = present \cup ({"data"} \X (ks \cap provisioning))
        /\ Continue(IF ks \subseteq provisioning THEN "up" ELSE "failed")
     \/ ks # {} /\ Fault /\ phase' = "failed" /\ present' = present
  /\ UNCHANGED <<fw, storedVars, policyVars, fsVars, volVars, busy, provisioning, workers, gen, stray>>

-----------------------------------------------------------------------------
(* The framework and the device *)

\* A user is complete when its keys and its DE storage are there; an ephemeral one at once.
FinishUser(u) ==
  /\ phase = "up" /\ fw[u] = "making"
  /\ de[u] # NoKey /\ ce[u] # NoKey
  /\ u \in ephemeral \/ (ceKey[u] = ce[u] /\ deKey[u] = de[u])
  /\ dirs[MiscDir(u, "de")] = de[u]
  /\ fw' = [fw EXCEPT ![u] = "alive"]
  /\ UNCHANGED <<phase, storedVars, policyVars, fsVars, volVars, keyring, gen, bookVars>>

RemoveUser(u) ==
  /\ phase = "up" /\ u # 0 /\ fw[u] \in {"making", "alive"}
  /\ fw' = [fw EXCEPT ![u] = "leaving"]
  /\ UNCHANGED <<phase, storedVars, policyVars, fsVars, volVars, keyring, gen, bookVars>>

UserGone(u) ==
  /\ phase = "up" /\ fw[u] = "leaving"
  /\ deKey[u] = NoKey /\ ceKey[u] = NoKey /\ de[u] = NoKey
  /\ \A d \in Dirs : d[2] = u => dirs[d] = Absent
  /\ fw' = [fw EXCEPT ![u] = "none"]
  /\ UNCHANGED <<phase, storedVars, policyVars, fsVars, volVars, keyring, gen, bookVars>>

\* /data is unmounted and mounted again; vold and the session keyring stay.  A worker holds
\* /data open, and the framework restarts userspace only when the boot was completed.
UserspaceRestart ==
  /\ phase = "up" /\ workers = {} /\ ce_key_exists(0)
  /\ phase' = "sys" /\ present' = {} /\ busy' = {} /\ erred' = FALSE
  /\ UNCHANGED <<fw, storedVars, policyVars, fsVars, volVars, provisioning, workers, gen, stray, faults>>

\* A reboot, at any time.
Reboot ==
  /\ phase' = "sys"
  /\ de' = [u \in DOMAIN de |-> NoKey] /\ ce' = [u \in Users |-> NoKey]
  /\ newCe' = [u \in Users |-> NoKey] /\ ephemeral' = {}
  /\ fw' = [u \in Users |-> IF u \in ephemeral \/ fw[u] = "making" THEN "leaving" ELSE fw[u]]
  /\ present' = {} /\ busy' = {} /\ provisioning' = {} /\ workers' = {}
  /\ erred' = FALSE /\ stray' = {}
  /\ UNCHANGED <<storedVars, fsVars, volVars, gen, faults>>

-----------------------------------------------------------------------------

Init ==
  /\ phase = "sys" /\ fw = [u \in Users |-> IF u = 0 THEN "alive" ELSE "none"]
  /\ deKey = [u \in Users \cup {Sys} |-> NoKey] /\ ceKey = [u \in Users |-> NoKey]
  /\ de = deKey /\ ce = ceKey /\ newCe = ceKey /\ ephemeral = {}
  /\ dirs = [d \in Dirs |-> Absent] /\ obb = Absent
  /\ volkey = [uc \in Users \X Classes |-> NoVolkey] /\ secdisc = 0 /\ forgotten = FALSE
  /\ present = {} /\ busy = {} /\ provisioning = {} /\ workers = {}
  /\ gen = [p \in Purposes |-> 0]
  /\ erred = FALSE /\ stray = {} /\ unshredded = FALSE /\ faults = 0

Start ==
  \/ fscrypt_initialize_systemwide_keys \/ InitDe \/ InitCe
  \/ \E missed \in SUBSET Retrieved : load_all_de_keys(missed)
  \/ prepare_special_dirs \/ PrepareUser0 \/ try_reload_ce_keys

Call ==
  \/ \E u \in Users :
       \/ \E eph \in BOOLEAN : fscrypt_vold_create_user_key(u, eph)
       \/ fscrypt_set_user_key_protection(u) \/ fscrypt_unlock_user_key(u)
       \/ fscrypt_lock_user_key(u) \/ fscrypt_destroy_user_key(u)
       \/ \E c \in Classes : PrepareInternal(u, c) \/ PrepareExternal(u, c)
       \/ \E v \in {"data", "ext"} : fscrypt_destroy_user_storage(v, u)
       \/ FinishUser(u) \/ RemoveUser(u) \/ UserGone(u)
  \/ fscrypt_destroy_volume_keys
  \/ UserspaceRestart

Next == Start \/ Call \/ Reboot \/ \E w \in workers : waitForBusyFiles(w)

Spec == Init /\ [][Next]_vars

-----------------------------------------------------------------------------
(* Properties *)

\* A user that vold takes for unlocked is: the key is in the kernel, whatever the workers
\* that were started for earlier locks do, and after a restart of userspace too.
UnlockedUsable ==
  phase = "up" => \A u \in Users : ce[u] # NoKey => Installed("data", ce[u])

\* A key that is in the kernel is one that vold knows, and can therefore evict, except
\* those that a failing call left behind.
NoStrayKeys ==
  phase = "up" => \A mk \in present :
    mk[1] = "data" /\ mk[2] \notin stray => \E u \in DOMAIN de : mk[2] = de[u] \/ (u # Sys /\ mk[2] = ce[u])

\* The directories of a user can be read after the next boot: their policies belong to keys
\* that are stored.  A new /data/data may have the policy of a key that is not stored yet.
PoliciesKept ==
  \A d \in Dirs :
    LET u == d[2] IN
    fw[u] = "alive" /\ u \notin ephemeral /\ dirs[d] \notin {Absent, Plain} =>
      \/ d = DataData /\ ceKey[0] = NoKey
      \/ d[1] = "data" /\ dirs[d] \in {deKey[u], ceKey[u]}
      \/ d[1] = "ext" /\ \E c \in Classes : volkey[<<u, c>>] = [key |-> dirs[d], hash |-> secdisc]

\* No sequence of boots that were interrupted or that failed, and of users that were made
\* and removed in part, makes a later start fail: it fails only by an error of its own.
StartRecovers == phase = "failed" => erred

\* The keys of a volume that was forgotten are of no use, also those of locked users.
Shredded ==
  forgotten /\ ~unshredded =>
    \A uc \in DOMAIN volkey : volkey[uc].key # NoKey => volkey[uc].hash # secdisc
=============================================================================
