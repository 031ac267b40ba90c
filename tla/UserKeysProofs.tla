--------------------------- MODULE UserKeysProofs ---------------------------
(***************************************************************************)
(* Proofs about module UserKeys: no CE or DE key is lost, the lists of     *)
(* deferred work are valid, and a protected key needs the secret.          *)
(*                                                                         *)
(* KeyKept compares the keys readable after a reboot before and after a    *)
(* step.  It needs to know, of every Keystore key that a step deletes,     *)
(* which directories of view and of stable still want it (Owned, Ahead,    *)
(* FixGood); of every directory it destroys, what else holds the key       *)
(* (SecretStable, SlotSound); and of every fsync, that what it writes is   *)
(* at least as good as what it replaces (ViewGood).                        *)
(***************************************************************************)
EXTENDS UserKeys, NaturalsInduction, WellFoundedInduction, TLAPS

\* What the counters and the directories range over.
Blob == [id : Nat, ver : Nat]
KeyDir == [auth : {"none", "empty", "secret"}, key : Nat, blob : Blob, up : Blob]

\* Type invariant, without the bounds.
Typed ==
  /\ sys \in Nat /\ slotMarked \in BOOLEAN /\ cp \in BOOLEAN
  /\ view \in [Dirs -> KeyDir] /\ stable \in [Dirs -> KeyDir]
  /\ ks \in SUBSET Blob /\ nextKs \in Nat \ {0} /\ nextKey \in Nat \ {0}
  /\ newKey \in 0..(nextKey - 1)
  /\ pending \in SUBSET Dirs /\ deferred \in Paths \cup {NoPath}
  /\ work \in {"none", "started", "done"} /\ secured \in BOOLEAN
  /\ call \in [why : {"load", "reprotect", "check", "unlock", "protect", "work", "destroy"},
               auth : {"empty", "secret"}, fix : Dirs, paths : SUBSET Dirs,
               key : 0..(nextKey - 1), old : Blob, sync : BOOLEAN]

\* The directories of view or of stable: a directory is bound to a Keystore key or to
\* the secret; all CE directories hold one key, which is not the DE key, and at most
\* one of them is bound to Keystore.
DirsFormed(f) ==
  /\ \A p \in Dirs :
       /\ f[p].auth = "none" => f[p] = NoDir
       /\ f[p].auth # "none" => f[p].key # 0
       /\ f[p].auth = "secret" => f[p].blob = NoBlob /\ f[p].up = NoBlob /\ p # DE
       /\ f[p].auth = "empty" => f[p].blob # NoBlob
       /\ f[p].key < nextKey /\ f[p].blob.id < nextKs /\ f[p].up.id < nextKs
       /\ f[p].blob.ver <= sys
  /\ \A p, q \in Paths : f[p].auth # "none" /\ f[q].auth # "none" => f[p].key = f[q].key
  /\ \A p, q \in Dirs : f[p].auth = "empty" /\ f[q].auth = "empty" /\ p # q => f[p].key # f[q].key
  /\ \A p \in Paths : f[p].auth # "none" => f[p].key # f[DE].key

\* The Keystore keys of a directory.
Blobs(d) == {d.blob, d.up} \ {NoBlob}

\* Directories that share a Keystore key hold the same key.
Owned(f, g) == \A p, q \in Dirs : Blobs(f[p]) \cap Blobs(g[q]) # {} => f[p].key = g[q].key
\* An upgraded blob is not yet the blob of any directory: it can go when it is a
\* leftover.
Ahead(f, g) == \A p, q \in Dirs : f[p].up # NoBlob => f[p].up # g[q].blob

\* Keystore, and the directories as they read now and after a reboot.
KeystoreSound ==
  /\ NoBlob \notin ks /\ \A b \in ks : b.id < nextKs
  /\ DirsFormed(view) /\ DirsFormed(stable)
  /\ Owned(view, view) /\ Owned(view, stable) /\ Owned(stable, stable)
  /\ Ahead(view, view) /\ Ahead(view, stable) /\ Ahead(stable, stable)

\* While the older system may boot again, a reboot brings back only blobs that it
\* accepts; and a blob in use here is one of those, or its key is new.
SlotSound ==
  /\ ~slotMarked => /\ cp /\ sys > 0
                    /\ \A p \in Dirs : stable[p].blob.ver < sys
  /\ cp => \A p \in Dirs : view[p].auth = "empty" =>
             \/ \E q \in Dirs : stable[q].blob = view[p].blob
             \/ \A q \in Dirs : stable[q].key # view[p].key

\* Some directory lets the system v read the key k.
Good(f, k, v) == \E p \in Dirs : f[p].key = k /\ Readable(f[p], v)

\* What a reboot can read now, it can read from the directories as they are now: so
\* writing them out loses nothing.
ViewGood ==
  risk = {} => \A k \in Nat \ (retired \cup {0}) : \A v \in BootSystems :
                 Good(stable, k, v) => Good(view, k, v)

\* Without a checkpoint, what is bound to the secret here is so after a reboot: so a
\* fixation may destroy the others.
SecretStable ==
  risk = {} /\ ~cp /\ pc # "store sync" =>
    \A p \in Dirs : view[p].auth = "secret" =>
      \E q \in Dirs : stable[q].auth = "secret" /\ stable[q].key = view[p].key

\* The state of the directories and of Keystore.
KeysHeld == KeystoreSound /\ SlotSound /\ ViewGood

\* The CE key directories that exist.
Exists(p) == view[p].auth # "none"
Here == {p \in Paths : Exists(p)}

\* Which call may be at which step.
CallShape ==
  /\ pc \in {"retrieve", "upgrade"} => call.why \in Reads \cup {"load"}
  /\ pc = "found" => call.why \in Reads
  /\ pc \in {"upgrade sync", "upgrade delete"} => call.why \in Reads \cup {"load", "work"}
  /\ pc \in {"fixate", "fixate sync"} => call.why \in Reads \cup {"protect", "work"}
  /\ pc \in {"store", "store sync", "decide"} => call.why = "reprotect"
  /\ pc = "destroy" => call.why = "destroy"
  /\ pc = "work" => call.why = "work"
  /\ pc = "idle" => call.why = "load"
  /\ pc \in {"upgrade", "upgrade sync", "upgrade delete", "work"} => call.auth = "empty"
  /\ call.why = "check" => call.auth = "secret"
  /\ call.why \in {"protect", "work"} => ~cp
  /\ work = "started" => ~cp

\* The steps of a read.
Reading == pc \in {"retrieve", "upgrade", "upgrade sync", "upgrade delete", "found"}

\* The directories a call works on are the ones that exist.
CallDirs ==
  /\ Reading /\ call.why \in Reads => call.fix \in call.paths /\ call.paths = Here
  /\ Reading /\ call.why = "load" => call.fix = DE
  /\ pc \in {"fixate", "store sync", "decide"} =>
       call.fix \in Here /\ call.fix \notin call.paths /\ Here = call.paths \cup {call.fix}
  /\ pc = "fixate sync" => Here = {0}
  /\ pc = "destroy" => \A p \in Dirs : Exists(p) => view[p].key \in retired

\* The directory a call keeps or upgrades can be read; the Keystore key that an
\* upgrade deletes is in no directory, and a reboot brings it back only in the one
\* that is upgraded.
FixGood ==
  /\ pc \in {"found", "fixate"} /\ view[call.fix].auth = "empty" => view[call.fix].blob \in ks
  /\ pc = "upgrade" =>
       /\ call.fix \notin pending /\ view[call.fix].auth = "empty" /\ view[call.fix].blob \in ks
       /\ view[call.fix].up \in ks /\ view[call.fix].up.ver = sys
  /\ pc \in {"upgrade sync", "upgrade delete"} =>
       /\ ~cp /\ (call.why # "work" => call.fix \notin pending)
       /\ view[call.fix].auth = "empty" /\ view[call.fix].blob \in ks /\ view[call.fix].up = NoBlob
       /\ call.old # NoBlob /\ (call.why = "work" => call.fix \notin call.paths)
       /\ \A q \in Dirs : call.old \notin Blobs(view[q])
       /\ \A q \in Dirs : call.old \in Blobs(stable[q]) => stable[q].key = view[call.fix].key
  /\ pc = "upgrade delete" => \A q \in Dirs : stable[q].blob # call.old

\* A fixation on behalf of the secret keeps a directory bound to the secret.
FixSecret ==
  /\ pc \in {"found", "fixate"} /\ (call.auth = "secret" \/ call.why \in {"protect", "work"})
       => view[call.fix].auth = "secret"
  /\ pc = "fixate sync" /\ (call.auth = "secret" \/ call.why \in {"protect", "work"})
       => view[0].auth = "secret"
  /\ pc \in {"store sync", "decide"} => view[call.fix].auth = "secret"

\* The key a call holds is the one of the directories.
CallKey ==
  /\ pc \in {"upgrade", "upgrade sync", "upgrade delete", "found"} /\ call.why \in Reads
       => view[call.fix].key = call.key
  /\ pc \in {"fixate", "fixate sync", "store"} /\ call.why = "reprotect" =>
       /\ call.key # 0 /\ call.key # view[DE].key
       /\ \A p \in Here : view[p].key = call.key
       /\ newKey # 0 => newKey = call.key
  /\ newKey # 0 => newKey # view[DE].key /\ \A p \in Here : view[p].key = newKey

\* The upgraded blob of a pending commit can replace the old one.
Upgraded(p) ==
  view[p].auth = "empty" /\ view[p].blob \in ks /\ view[p].up \in ks /\ view[p].up.ver = sys

\* The deferred work is committing Keystore keys.
InWork == call.why = "work" /\ pc \in {"work", "upgrade sync", "upgrade delete"}

\* The lists of deferred work; while the work runs, what is left of its copy.
ListsValid ==
  /\ ~InWork => \A p \in pending : Upgraded(p)
  /\ InWork => \A p \in call.paths : Upgraded(p)
  /\ deferred # NoPath => view[deferred].auth = "secret"
  /\ pc \in {"fixate", "fixate sync", "destroy"} => deferred = NoPath

\* After fscrypt_set_user_key_protection has succeeded.
SecuredRight ==
  /\ secured => call.why \notin {"reprotect", "check", "protect", "destroy"}
  /\ secured /\ call.why = "unlock" => call.auth = "secret"
  /\ secured /\ deferred = NoPath /\ pc # "fixate" => \A p \in Here : view[p].auth = "secret"

\* What the call that holds mCryptLock relies on.
CallSound == CallShape /\ CallDirs /\ FixGood /\ FixSecret /\ CallKey /\ ListsValid /\ SecuredRight

\* The inductive invariant.
Ind == Typed /\ KeysHeld /\ SecretStable /\ CallSound

-----------------------------------------------------------------------------
\* The order of Nat as a relation, for the minimum of a set.
Less == {ss \in Nat \X Nat : ss[1] < ss[2]}

\* The order of Nat is well founded.
LEMMA LessWellFounded == IsWellFoundedOn(Less, Nat)
<1>1. OpToRel(<, Nat) = Less
  BY Zenon DEF OpToRel, Less
<1>2. IsWellFoundedOn(OpToRel(<, Nat), Nat)
  BY Zenon, NatLessThanWellFounded
<1> QED BY Zenon, <1>1, <1>2

\* Max of a bounded, non-empty set of integers is its greatest element.
LEMMA MaxIn ==
  ASSUME NEW n \in Nat, NEW S \in SUBSET (-1..n), S # {}
  PROVE  Max(S) \in S /\ \A y \in S : y <= Max(S)
<1> DEFINE T == {n - x : x \in S}
<1>1. T \subseteq Nat /\ T # {}
  <2>1. \A x \in S : n - x \in Nat
    OBVIOUS
  <2> QED BY <2>1
<1>2. \E t \in T : \A y \in T : ~(<<y, t>> \in Less)
  <2> HIDE DEF T
  <2> QED BY <1>1, LessWellFounded, WFMin
<1>3. PICK t \in T : \A y \in T : ~(<<y, t>> \in Less)
  BY <1>2
<1>4. \A y \in T : t <= y
  <2>1. \A y \in T : y \in Nat /\ t \in Nat
    BY <1>1
  <2> HIDE DEF T
  <2>2. ASSUME NEW y \in T PROVE t <= y
    <3>1. y \in Nat /\ t \in Nat /\ <<y, t>> \notin Less
      BY <1>3, <2>1
    <3>2. y < t => <<y, t>> \in Less
      BY <3>1 DEF Less
    <3> QED BY <3>1, <3>2
  <2> QED BY <2>2
<1>5. PICK m \in S : t = n - m
  OBVIOUS
<1>6. \A y \in S : m >= y
  <2> TAKE y \in S
  <2>1. n - m <= n - y
    BY <1>4, <1>5
  <2>2. y \in Int /\ m \in Int
    OBVIOUS
  <2> QED BY <2>1, <2>2
<1>7. Max(S) \in S /\ \A y \in S : Max(S) >= y
  BY <1>6 DEF Max
<1> QED BY <1>7

\* Max picks the newest of some key directories.
LEMMA MaxPaths ==
  ASSUME NEW S \in SUBSET Dirs, S # {}
  PROVE  Max(S) \in S /\ \A y \in S : y <= Max(S)
<1>1. S \in SUBSET (-1..MaxPath) /\ MaxPath \in Nat
  BY UserKeysAssumption DEF Dirs, Paths, DE
<1> QED BY <1>1, MaxIn

\* The directories that get_ce_key_paths finds.
LEMMA PathsFound ==
  ASSUME DirsFormed(view)
  PROVE  get_ce_key_paths = Here /\ \A d \in Dirs : view[d] = NoDir <=> ~Exists(d)
BY DEF DirsFormed, get_ce_key_paths, Here, Exists, NoDir, Dirs

\* get_ce_key_new_path is a name that is not taken.
LEMMA NewPath ==
  ASSUME DirsFormed(view), get_ce_key_new_path <= MaxPath
  PROVE  get_ce_key_new_path \in Paths \ Here
<1>1. CASE get_ce_key_paths = {}
  BY <1>1, PathsFound, UserKeysAssumption DEF get_ce_key_new_path, Paths
<1>2. CASE get_ce_key_paths # {}
  <2>1. get_ce_key_paths \in SUBSET Dirs
    BY DEF get_ce_key_paths, Dirs
  <2>2. /\ Max(get_ce_key_paths) \in Paths
        /\ \A y \in get_ce_key_paths : y <= Max(get_ce_key_paths)
    BY <1>2, <2>1, MaxPaths DEF get_ce_key_paths
  <2>3. get_ce_key_new_path = Max(get_ce_key_paths) + 1
    BY <1>2 DEF get_ce_key_new_path
  <2> QED BY <2>2, <2>3, PathsFound, UserKeysAssumption DEF Paths
<1> QED BY <1>1, <1>2

\* What the locals of a call can become.
CallType(n) == [why : {"load", "reprotect", "check", "unlock", "protect", "work", "destroy"},
                auth : {"empty", "secret"}, fix : Dirs, paths : SUBSET Dirs,
                key : 0..(n - 1), old : Blob, sync : BOOLEAN]

\* The locals of no call.
LEMMA NoCallTyped == ASSUME NEW n \in Nat \ {0} PROVE NoCall \in CallType(n)
BY DEF NoCall, CallType, Dirs, DE, Blob, NoBlob

-----------------------------------------------------------------------------
(* What a step does to the directories and to Keystore *)

\* A key that the next boot could read can still be read after the step.
KeepsKeys ==
  \A k \in Nat \ (retired \cup {0}) : Recoverable(k) /\ risk' = {} => Recoverable(k)'

\* What most steps leave alone, and how the counters and the history may move.
Kernel == <<sys, slotMarked, cp, view, stable, ks, nextKs>>
\* The counters only grow, and the history forgets nothing.
Grows == /\ nextKey' \in Nat /\ nextKey <= nextKey' /\ (risk' = {} => risk = {})
         /\ retired \subseteq retired'

\* A step that leaves the directories and Keystore alone.
LEMMA Unmoved ==
  ASSUME Typed, KeysHeld, UNCHANGED Kernel, Grows
  PROVE  KeysHeld' /\ KeepsKeys
<1> USE DEF Kernel, Grows
<1>1. DirsFormed(view)' /\ DirsFormed(stable)'
  <2>1. DirsFormed(view) /\ DirsFormed(stable)
    BY DEF KeysHeld, KeystoreSound
  <2> QED BY <2>1 DEF DirsFormed, Typed, KeyDir
<1>2. KeystoreSound'
  BY <1>1 DEF KeysHeld, KeystoreSound, Owned, Ahead, Blobs
<1>3. SlotSound'
  BY DEF KeysHeld, SlotSound
<1>4. BootSystems' = BootSystems /\ \A d, v : Readable(d, v)' <=> Readable(d, v)
  BY DEF BootSystems, Readable
<1>5. ViewGood'
  BY <1>4 DEF KeysHeld, ViewGood, Good
<1>6. KeepsKeys
  BY <1>4 DEF KeepsKeys, Recoverable
<1> QED BY <1>2, <1>3, <1>5, <1>6 DEF KeysHeld

\* The blobs in use stay or go as they were.
LEMMA SameReads ==
  ASSUME Typed, KeysHeld, UNCHANGED <<sys, slotMarked, stable, risk, retired>>,
         \A p \in Dirs : /\ view'[p].key = view[p].key /\ view'[p].auth = view[p].auth
                         /\ view'[p].blob = view[p].blob,
         \A p \in Dirs : stable[p].blob \in ks => stable[p].blob \in ks',
         \A p \in Dirs : stable[p].blob \in ks' => stable[p].blob \in ks,
         \A p \in Dirs : view[p].blob \in ks => view[p].blob \in ks'
  PROVE  ViewGood' /\ KeepsKeys
<1>1. BootSystems' = BootSystems
  BY DEF BootSystems
<1>2. \A p \in Dirs, v \in BootSystems : Readable(stable[p], v)' <=> Readable(stable[p], v)
  BY DEF Readable
<1>3. \A p \in Dirs, v \in BootSystems : Readable(view[p], v) => Readable(view[p], v)'
  BY DEF Readable
<1>4. \A k, v : v \in BootSystems => (Good(stable, k, v)' => Good(stable, k, v))
  BY <1>2 DEF Good
<1>5. \A k, v : v \in BootSystems => (Good(view, k, v) => Good(view, k, v)')
  BY <1>3 DEF Good
<1>6. ViewGood'
  BY <1>1, <1>4, <1>5 DEF KeysHeld, ViewGood
<1>7. KeepsKeys
  BY <1>1, <1>2 DEF KeepsKeys, Recoverable
<1> QED BY <1>6, <1>7

\* The upgraded blob of a directory is deleted, and replaced by a new one or not.
LEMMA LeftoverGone ==
  ASSUME Typed, KeysHeld, NEW p \in Dirs, NEW u \in Blob,
         UNCHANGED <<sys, slotMarked, cp, stable, nextKey, risk, retired>>,
         view' = [view EXCEPT ![p].up = u],
         \/ u = NoBlob /\ ks' = ks \ {view[p].up} /\ nextKs' = nextKs
         \/ /\ u = [id |-> nextKs, ver |-> sys] /\ nextKs' = nextKs + 1
            /\ view[p].auth = "empty" /\ ks' = (ks \ {view[p].up}) \cup {u}
  PROVE  KeysHeld' /\ KeepsKeys
<1>1. /\ \A q \in Dirs : view'[q].key = view[q].key /\ view'[q].auth = view[q].auth
                         /\ view'[q].blob = view[q].blob
      /\ \A q \in Dirs : q # p => view'[q].up = view[q].up
      /\ view'[p].up = u
      /\ view' \in [Dirs -> KeyDir]
  BY DEF Typed, KeyDir
<1>2. \A q \in Dirs : view[q].blob.id < nextKs /\ stable[q].blob.id < nextKs
                      /\ view[q].up.id < nextKs /\ stable[q].up.id < nextKs
  BY DEF KeysHeld, KeystoreSound, DirsFormed
<1>3. u = NoBlob \/ u.id = nextKs
  OBVIOUS
<1>4. nextKs \in Nat /\ nextKs # 0 /\ \A q \in Dirs : view[q] \in KeyDir /\ stable[q] \in KeyDir
  BY DEF Typed
<1>5. \A q \in Dirs : u # NoBlob => u # view[q].blob /\ u # stable[q].blob /\ u # view[q].up /\ u # stable[q].up
  BY <1>2, <1>3, <1>4
<1>6. view[p].up # NoBlob => \A q \in Dirs : view[p].up # view[q].blob /\ view[p].up # stable[q].blob
  BY DEF KeysHeld, KeystoreSound, Ahead
<1>7. NoBlob \notin ks
  BY DEF KeysHeld, KeystoreSound
<1>8. /\ \A q \in Dirs : stable[q].blob \in ks => stable[q].blob \in ks'
      /\ \A q \in Dirs : view[q].blob \in ks => view[q].blob \in ks'
  BY <1>6, <1>7
<1>9. \A q \in Dirs : stable[q].blob \in ks' => stable[q].blob \in ks
  BY <1>2, <1>4
<1>10. ViewGood' /\ KeepsKeys
  BY <1>1, <1>8, <1>9, SameReads
<1>11. DirsFormed(view)' /\ DirsFormed(stable)'
  <2>1. DirsFormed(view) /\ DirsFormed(stable)
    BY DEF KeysHeld, KeystoreSound
  <2>2. u = NoBlob \/ view[p].auth = "empty"
    OBVIOUS
  <2>3. nextKs' \in Nat /\ u.id < nextKs' /\ nextKs <= nextKs'
    BY <1>4 DEF NoBlob
  <2>4. DirsFormed(stable)'
    BY <2>1, <2>3, <1>4 DEF DirsFormed, KeyDir, Blob
  <2>5. \A q \in Dirs : view[q].auth = "none" => view'[q] = NoDir
    BY <2>1, <2>2 DEF DirsFormed, NoDir, Typed
  <2>6. DirsFormed(view)'
    BY <2>1, <2>2, <2>3, <2>5, <1>1, <1>4 DEF DirsFormed, KeyDir, Blob
  <2> QED BY <2>4, <2>6
<1>12. Owned(view, view)' /\ Owned(view, stable)' /\ Owned(stable, stable)'
  <2>1. Owned(view, view) /\ Owned(view, stable) /\ Owned(stable, stable)
    BY DEF KeysHeld, KeystoreSound
  <2>2. \A q \in Dirs : Blobs(view[q])' \subseteq Blobs(view[q]) \cup ({u} \ {NoBlob})
    BY <1>1 DEF Blobs
  <2>3. \A q \in Dirs : q # p => Blobs(view[q])' = Blobs(view[q])
    BY <1>1 DEF Blobs
  <2>4. \A q \in Dirs : u # NoBlob => u \notin Blobs(view[q]) /\ u \notin Blobs(stable[q])
    BY <1>5 DEF Blobs
  <2>5. \A q \in Dirs : Blobs(stable[q])' = Blobs(stable[q])
    BY DEF Blobs
  <2>6. Owned(view, view)'
    BY <2>1, <2>2, <2>3, <2>4, <1>1 DEF Owned
  <2>7. Owned(view, stable)'
    BY <2>1, <2>2, <2>4, <2>5, <1>1 DEF Owned
  <2> QED BY <2>1, <2>5, <2>6, <2>7 DEF Owned
<1>13. Ahead(view, view)' /\ Ahead(view, stable)' /\ Ahead(stable, stable)'
  BY <1>1, <1>5 DEF KeysHeld, KeystoreSound, Ahead
<1>14. KeystoreSound'
  <2>1. NoBlob \notin ks' /\ \A b \in ks' : b.id < nextKs'
    BY <1>3, <1>4, <1>7 DEF KeysHeld, KeystoreSound, Typed, NoBlob, Blob
  <2> QED BY <2>1, <1>11, <1>12, <1>13 DEF KeystoreSound
<1>15. SlotSound'
  BY <1>1 DEF KeysHeld, SlotSound
<1> QED BY <1>10, <1>14, <1>15 DEF KeysHeld

\* Without a checkpoint the slot is marked, and only this system can boot.
LEMMA OneSystem == ASSUME SlotSound, ~cp PROVE slotMarked /\ BootSystems = {sys}
BY DEF SlotSound, BootSystems

\* The upgraded blob takes the place of the old one.
LEMMA UpgradePromoted ==
  ASSUME Typed, KeysHeld, NEW p \in Dirs, Upgraded(p), ~cp,
         UNCHANGED <<sys, slotMarked, cp, stable, ks, nextKs, nextKey, risk, retired>>,
         \A q \in Dirs : q # p => view'[q] = view[q],
         view'[p].auth = view[p].auth, view'[p].key = view[p].key,
         view'[p].blob = view[p].up, view'[p].up = NoBlob
  PROVE  KeysHeld' /\ KeepsKeys
<1>1. /\ \A q \in Dirs : view'[q].key = view[q].key /\ view'[q].auth = view[q].auth
      /\ \A q \in Dirs : q # p => view'[q] = view[q]
      /\ view'[p].up = NoBlob /\ view'[p].blob = view[p].up
  OBVIOUS
<1>2. /\ DirsFormed(view) /\ DirsFormed(stable)
      /\ Owned(view, view) /\ Owned(view, stable) /\ Owned(stable, stable)
      /\ Ahead(view, view) /\ Ahead(view, stable) /\ Ahead(stable, stable)
      /\ NoBlob \notin ks /\ \A b \in ks : b.id < nextKs
  BY DEF KeysHeld, KeystoreSound
<1>3. slotMarked /\ BootSystems = {sys}
  BY OneSystem DEF KeysHeld
<1>4. BootSystems' = BootSystems /\ sys \in Nat
  BY DEF BootSystems, Typed
<1>5. view[p].auth = "empty" /\ view[p].up \in ks /\ view[p].up.ver = sys
  BY DEF Upgraded
<1>6. DirsFormed(stable)'
  BY <1>2 DEF DirsFormed
<1>7. DirsFormed(view)'
  <2>1. 0 < nextKs /\ NoBlob.id = 0
    BY DEF Typed, NoBlob
  <2>2. \A q \in Dirs : view'[q].auth = "none" => q # p
    BY <1>1, <1>5
  <2>3. Paths \subseteq Dirs /\ DE \in Dirs
    BY DEF Dirs
  <2>4. view'[p].blob # NoBlob /\ view'[p].blob.id < nextKs /\ view'[p].up.id < nextKs
        /\ view'[p].blob.ver <= sys
    BY <1>1, <1>2, <1>4, <1>5, <2>1
  <2>5. view'[p].auth = "empty" /\ view'[p].key # 0 /\ view'[p].key < nextKey
    BY <1>1, <1>2, <1>5 DEF DirsFormed
  <2>6. \A q \in Dirs :
          /\ view'[q].auth = "none" => view'[q] = NoDir
          /\ view'[q].auth # "none" => view'[q].key # 0
          /\ view'[q].auth = "secret" => view'[q].blob = NoBlob /\ view'[q].up = NoBlob /\ q # DE
          /\ view'[q].auth = "empty" => view'[q].blob # NoBlob
          /\ view'[q].key < nextKey /\ view'[q].blob.id < nextKs /\ view'[q].up.id < nextKs
          /\ view'[q].blob.ver <= sys
    BY <1>1, <1>2, <2>4, <2>5 DEF DirsFormed
  <2> QED BY <1>1, <1>2, <2>3, <2>6 DEF DirsFormed
<1>8. Owned(view, view)' /\ Owned(view, stable)' /\ Owned(stable, stable)'
  <2>1. \A q \in Dirs : Blobs(view[q])' \subseteq Blobs(view[q]) /\ Blobs(stable[q])' = Blobs(stable[q])
    BY <1>1 DEF Blobs
  <2>2. ASSUME NEW a \in Dirs, NEW b \in Dirs, Blobs(view[a])' \cap Blobs(view[b])' # {}
        PROVE  view'[a].key = view'[b].key
    <3>1. Blobs(view[a]) \cap Blobs(view[b]) # {}
      BY <2>1, <2>2
    <3> QED BY <1>1, <1>2, <3>1 DEF Owned
  <2>3. ASSUME NEW a \in Dirs, NEW b \in Dirs, Blobs(view[a])' \cap Blobs(stable[b])' # {}
        PROVE  view'[a].key = stable'[b].key
    <3>1. Blobs(view[a]) \cap Blobs(stable[b]) # {}
      BY <2>1, <2>3
    <3> QED BY <1>1, <1>2, <3>1 DEF Owned
  <2> QED BY <1>2, <2>1, <2>2, <2>3 DEF Owned
<1>9. Ahead(view, view)' /\ Ahead(view, stable)' /\ Ahead(stable, stable)'
  <2>1. ASSUME NEW q \in Dirs, q # p, view[q].up # NoBlob PROVE view[q].up # view[p].up
    <3>1. view[q].auth = "empty"
      BY <1>2, <2>1 DEF DirsFormed, NoDir, Typed, KeyDir
    <3>2. view[q].key # view[p].key
      BY <1>2, <1>5, <2>1, <3>1 DEF DirsFormed
    <3> QED BY <1>2, <1>5, <2>1, <3>2 DEF Owned, Blobs
  <2> QED BY <1>1, <1>2, <2>1 DEF Ahead
<1>10. KeystoreSound'
  BY <1>2, <1>6, <1>7, <1>8, <1>9 DEF KeystoreSound
<1>11. SlotSound'
  BY <1>3 DEF SlotSound
<1>12. ViewGood'
  <2>1. \A q \in Dirs, v \in BootSystems : Readable(stable[q], v)' <=> Readable(stable[q], v)
    BY DEF Readable
  <2>2. \A q \in Dirs, v \in BootSystems : Readable(view[q], v) => Readable(view[q], v)'
    BY <1>1, <1>3, <1>4, <1>5 DEF Readable
  <2>3. \A k, v : v \in BootSystems => (Good(stable, k, v)' => Good(stable, k, v))
    BY <2>1 DEF Good
  <2>4. \A k, v : v \in BootSystems => (Good(view, k, v) => Good(view, k, v)')
    BY <1>1, <2>2 DEF Good
  <2> QED BY <1>4, <2>3, <2>4 DEF KeysHeld, ViewGood
<1>13. KeepsKeys
  BY <1>4 DEF KeepsKeys, Recoverable, Readable
<1> QED BY <1>10, <1>11, <1>12, <1>13 DEF KeysHeld

\* The fsync of a directory with an upgraded blob: it replaces what a reboot brings
\* back of it, under any name.
LEMMA UpgradeSynced ==
  ASSUME Typed, KeysHeld, NEW p \in Dirs, ~cp,
         view[p].auth = "empty", view[p].blob \in ks, view[p].up = NoBlob,
         UNCHANGED <<sys, slotMarked, cp, view, ks, nextKs, nextKey, risk, retired>>,
         stable' = SyncDir(p)
  PROVE  KeysHeld' /\ KeepsKeys /\ stable' \in [Dirs -> KeyDir]
<1> DEFINE Same(d) == stable[d].auth = "empty" /\ stable[d].key = view[p].key
<1>1. /\ \A d \in Dirs : stable'[d] = IF Same(d) THEN view[p] ELSE stable[d]
      /\ stable' \in [Dirs -> KeyDir]
  BY DEF SyncDir, Typed
<1>2. /\ DirsFormed(view) /\ DirsFormed(stable)
      /\ Owned(view, view) /\ Owned(view, stable) /\ Owned(stable, stable)
      /\ Ahead(view, view) /\ Ahead(view, stable) /\ Ahead(stable, stable)
      /\ NoBlob \notin ks /\ \A b \in ks : b.id < nextKs
  BY DEF KeysHeld, KeystoreSound
<1>3. slotMarked /\ BootSystems = {sys}
  BY OneSystem DEF KeysHeld
<1>4. BootSystems' = BootSystems /\ sys \in Nat
  BY DEF BootSystems, Typed
<1>5. DirsFormed(view)'
  BY <1>2 DEF DirsFormed
<1>6. \A d \in Dirs : stable'[d].auth = stable[d].auth /\ stable'[d].key = stable[d].key
  BY <1>1
<1>7. DirsFormed(stable)'
  <2>1. \A d \in Dirs : /\ stable'[d].auth = "none" => stable'[d] = NoDir
                        /\ stable'[d].auth # "none" => stable'[d].key # 0
                        /\ stable'[d].auth = "secret" => /\ stable'[d].blob = NoBlob
                                                         /\ stable'[d].up = NoBlob /\ d # DE
                        /\ stable'[d].auth = "empty" => stable'[d].blob # NoBlob
                        /\ stable'[d].key < nextKey /\ stable'[d].blob.id < nextKs
                        /\ stable'[d].up.id < nextKs /\ stable'[d].blob.ver <= sys
    BY <1>1, <1>2 DEF DirsFormed
  <2> HIDE DEF Same
  <2>2. Paths \subseteq Dirs /\ DE \in Dirs
    BY DEF Dirs
  <2> QED BY <1>2, <1>6, <2>1, <2>2 DEF DirsFormed
<1>8. Owned(view, view)' /\ Owned(view, stable)' /\ Owned(stable, stable)'
  <2>1. \A d \in Dirs : Blobs(stable[d])' = IF Same(d) THEN Blobs(view[p]) ELSE Blobs(stable[d])
    BY <1>1 DEF Blobs
  <2>2. \A d \in Dirs : Blobs(view[d])' = Blobs(view[d])
    BY DEF Blobs
  <2>3. Owned(view, view)'
    BY <1>2, <2>2 DEF Owned
  <2>5. Owned(view, stable)'
    <3> SUFFICES ASSUME NEW a \in Dirs, NEW b \in Dirs, Blobs(view[a])' \cap Blobs(stable[b])' # {}
                 PROVE  view'[a].key = stable'[b].key
      BY DEF Owned
    <3>1. CASE Same(b)
      BY <3>1, <1>2, <1>6, <2>1, <2>2 DEF Owned
    <3>2. CASE ~Same(b)
      <4> HIDE DEF Same
      <4> QED BY <3>2, <1>2, <1>6, <2>1, <2>2 DEF Owned
    <3> QED BY <3>1, <3>2
  <2>4. ASSUME NEW a \in Dirs, NEW b \in Dirs, Blobs(stable[a])' \cap Blobs(stable[b])' # {}
        PROVE  stable'[a].key = stable'[b].key
    BY <1>2, <1>6, <2>1, <2>4 DEF Owned
  <2> QED BY <2>3, <2>4, <2>5 DEF Owned
<1>9. Ahead(view, view)' /\ Ahead(view, stable)' /\ Ahead(stable, stable)'
  <2>1. ASSUME NEW q \in Dirs, ~Same(q), stable[q].up # NoBlob PROVE stable[q].up # view[p].blob
    <3>1. stable[q].auth = "empty"
      BY <1>2, <2>1 DEF DirsFormed, NoDir, Typed, KeyDir
    <3>2. stable[q].key # view[p].key
      BY <2>1, <3>1
    <3> QED BY <1>2, <2>1, <3>2 DEF Owned, Blobs
  <2> HIDE DEF Same
  <2> QED BY <1>1, <1>2, <2>1 DEF Ahead
<1>10. KeystoreSound'
  BY <1>2, <1>5, <1>7, <1>8, <1>9 DEF KeystoreSound
<1>11. SlotSound'
  BY <1>3 DEF SlotSound
<1>12. \A q \in Dirs : Readable(view[p], sys) /\ (Readable(stable[q], sys) => Readable(stable[q], sys)')
  BY <1>1, <1>2 DEF Readable, DirsFormed
<1>13. ViewGood'
  <2>1. \A k : Good(stable, k, sys)' => Good(stable, k, sys) \/ Good(view, k, sys)
    BY <1>1, <1>12 DEF Good, Readable
  <2>2. \A k : Good(view, k, sys)' <=> Good(view, k, sys)
    BY DEF Good, Readable
  <2> QED BY <1>3, <1>4, <2>1, <2>2 DEF KeysHeld, ViewGood
<1>14. KeepsKeys
  BY <1>3, <1>4, <1>6, <1>12 DEF KeepsKeys, Recoverable
<1> QED BY <1>1, <1>10, <1>11, <1>13, <1>14 DEF KeysHeld

\* A Keystore key that no directory needs is deleted.
LEMMA OldDeleted ==
  ASSUME Typed, KeysHeld, NEW b, ks' = ks \ {b},
         \A q \in Dirs : b # view[q].blob /\ b # stable[q].blob,
         UNCHANGED <<sys, slotMarked, cp, view, stable, nextKs, nextKey, risk, retired>>
  PROVE  KeysHeld' /\ KeepsKeys
<1>1. ViewGood' /\ KeepsKeys
  BY SameReads
<1>2. DirsFormed(view)' /\ DirsFormed(stable)'
  BY DEF KeysHeld, KeystoreSound, DirsFormed
<1>3. KeystoreSound'
  BY <1>2 DEF KeysHeld, KeystoreSound, Owned, Ahead, Blobs
<1>4. SlotSound'
  BY DEF KeysHeld, SlotSound
<1> QED BY <1>1, <1>3, <1>4 DEF KeysHeld

\* A directory is destroyed, with its Keystore keys.  Its key is retired; or it can
\* be read with the secret here; or, where this one was bound to Keystore, after
\* any reboot.
LEMMA DirDestroyed ==
  ASSUME Typed, KeysHeld, NEW p \in Dirs, view[p].auth # "none",
         UNCHANGED <<sys, slotMarked, cp, stable, nextKs, nextKey, retired>>,
         ks' = ks \ {view[p].blob, view[p].up},
         view'[p] = NoDir, \A q \in Dirs : q # p => view'[q] = view[q],
         risk' = {} => risk = {},
         \/ view[p].key \in retired
         \/ view[p].auth = "secret" /\ \E f \in Dirs \ {p} :
              /\ view[f].key = view[p].key
              /\ \A v \in BootSystems :
                   Good(stable, view[p].key, v) => Readable(view[f], v)
         \/ /\ risk' = {} =>
                 /\ \E f \in Dirs \ {p} : view[f].key = view[p].key /\ view[f].auth = "secret"
                 /\ \E q \in Dirs : stable[q].key = view[p].key /\ stable[q].auth = "secret"
  PROVE  KeysHeld' /\ KeepsKeys
<1>1. /\ DirsFormed(view) /\ DirsFormed(stable)
      /\ Owned(view, view) /\ Owned(view, stable) /\ Owned(stable, stable)
      /\ Ahead(view, view) /\ Ahead(view, stable) /\ Ahead(stable, stable)
      /\ NoBlob \notin ks /\ \A b \in ks : b.id < nextKs
  BY DEF KeysHeld, KeystoreSound
<1>2. /\ NoDir.auth = "none" /\ NoDir.key = 0 /\ NoDir.blob = NoBlob /\ NoDir.up = NoBlob
      /\ NoBlob.id = 0 /\ NoBlob.ver = 0
  BY DEF NoDir, NoBlob
<1>3. 0 < nextKs /\ 0 < nextKey /\ 0 <= sys /\ Paths \subseteq Dirs /\ DE \in Dirs
  BY DEF Typed, Dirs
<1>4. DirsFormed(stable)'
  BY <1>1 DEF DirsFormed
<1>5. DirsFormed(view)'
  <2>1. \A q \in Dirs :
          /\ view'[q].auth = "none" => view'[q] = NoDir
          /\ view'[q].auth # "none" => view'[q].key # 0
          /\ view'[q].auth = "secret" => view'[q].blob = NoBlob /\ view'[q].up = NoBlob /\ q # DE
          /\ view'[q].auth = "empty" => view'[q].blob # NoBlob
          /\ view'[q].key < nextKey /\ view'[q].blob.id < nextKs /\ view'[q].up.id < nextKs
          /\ view'[q].blob.ver <= sys
    BY <1>1, <1>2, <1>3 DEF DirsFormed
  <2>2. \A q \in Paths : view'[q].auth # "none" => view'[q].key # view'[DE].key
    BY <1>1, <1>2, <1>3 DEF DirsFormed
  <2> QED BY <1>1, <1>2, <1>3, <2>1, <2>2 DEF DirsFormed
<1>6. Owned(view, view)' /\ Owned(view, stable)' /\ Owned(stable, stable)'
  <2>1. /\ Blobs(view[p])' = {}
        /\ \A q \in Dirs : q # p => Blobs(view[q])' = Blobs(view[q])
        /\ \A q \in Dirs : Blobs(stable[q])' = Blobs(stable[q])
    BY <1>2 DEF Blobs
  <2>2. ASSUME NEW a \in Dirs, NEW b \in Dirs, Blobs(view[a])' \cap Blobs(view[b])' # {}
        PROVE  view'[a].key = view'[b].key
    BY <1>1, <2>1, <2>2 DEF Owned
  <2>3. ASSUME NEW a \in Dirs, NEW b \in Dirs, Blobs(view[a])' \cap Blobs(stable[b])' # {}
        PROVE  view'[a].key = stable'[b].key
    BY <1>1, <2>1, <2>3 DEF Owned
  <2>4. Owned(stable, stable)'
    BY <1>1, <2>1 DEF Owned
  <2> QED BY <2>2, <2>3, <2>4 DEF Owned
<1>7. Ahead(view, view)' /\ Ahead(view, stable)' /\ Ahead(stable, stable)'
  BY <1>1, <1>2 DEF Ahead
<1>8. KeystoreSound'
  BY <1>1, <1>4, <1>5, <1>6, <1>7 DEF KeystoreSound
<1>9. SlotSound'
  BY <1>2 DEF KeysHeld, SlotSound
<1>10. BootSystems' = BootSystems
  BY DEF BootSystems
<1>11. \A q \in Dirs : stable[q].blob \in ks \ ks' => stable[q].key = view[p].key
  <2> SUFFICES ASSUME NEW q \in Dirs, stable[q].blob \in ks \ ks' PROVE stable[q].key = view[p].key
    OBVIOUS
  <2>1. stable[q].blob \in Blobs(stable[q]) \cap Blobs(view[p])
    BY <1>1 DEF Blobs
  <2> QED BY <1>1, <2>1 DEF Owned
<1>12. \A q \in Dirs : view[q].blob \in ks \ ks' => view[q].key = view[p].key
  <2> SUFFICES ASSUME NEW q \in Dirs, view[q].blob \in ks \ ks' PROVE view[q].key = view[p].key
    OBVIOUS
  <2>1. view[q].blob \in Blobs(view[q]) \cap Blobs(view[p])
    BY <1>1 DEF Blobs
  <2> QED BY <1>1, <2>1 DEF Owned
<1>13. \A k, v : Good(stable, k, v)' => Good(stable, k, v)
  BY DEF Good, Readable
<1>14. \A k, v : k # view[p].key /\ Good(view, k, v) => Good(view, k, v)'
  BY <1>12 DEF Good, Readable
<1>15. \A k, v : k # view[p].key /\ Good(stable, k, v) => Good(stable, k, v)'
  BY <1>11 DEF Good, Readable
<1>16. \A k : Recoverable(k) <=> \A v \in BootSystems : Good(stable, k, v)
  BY DEF Recoverable, Good
<1>17. \A k : Recoverable(k)' <=> \A v \in BootSystems : Good(stable, k, v)'
  BY <1>10 DEF Recoverable, Good
<1> PICK own \in Nat : own = view[p].key
  BY DEF Typed, KeyDir
<1>18. CASE view[p].key \in retired
  <2>1. ViewGood'
    BY <1>10, <1>13, <1>14, <1>18 DEF KeysHeld, ViewGood
  <2>2. KeepsKeys
    BY <1>15, <1>16, <1>17, <1>18 DEF KeepsKeys
  <2> QED BY <1>8, <1>9, <2>1, <2>2 DEF KeysHeld
<1>19. ASSUME view[p].auth = "secret", NEW f \in Dirs \ {p}, view[f].key = view[p].key,
              \A v \in BootSystems : Good(stable, view[p].key, v) => Readable(view[f], v)
       PROVE  KeysHeld' /\ KeepsKeys
  <2>1. ks' = ks
    BY <1>1, <1>19 DEF DirsFormed
  <2>2. \A v \in BootSystems : Good(stable, own, v) => Good(view, own, v)'
    BY <1>19, <2>1 DEF Good, Readable
  <2>3. ViewGood'
    BY <1>10, <1>13, <1>14, <2>2 DEF KeysHeld, ViewGood
  <2>4. \A k, v : Good(stable, k, v) <=> Good(stable, k, v)'
    BY <2>1 DEF Good, Readable
  <2>5. KeepsKeys
    BY <1>16, <1>17, <2>4 DEF KeepsKeys
  <2> QED BY <1>8, <1>9, <2>3, <2>5 DEF KeysHeld
<1>20. CASE risk' = {} => /\ \E f \in Dirs \ {p} : view[f].key = view[p].key /\ view[f].auth = "secret"
                          /\ \E q \in Dirs : stable[q].key = view[p].key /\ stable[q].auth = "secret"
  <2>1. risk' = {} => \A v : Good(view, own, v)' /\ Good(stable, own, v)'
    BY <1>20 DEF Good, Readable
  <2>2. ViewGood'
    BY <1>10, <1>13, <1>14, <2>1 DEF KeysHeld, ViewGood
  <2>3. KeepsKeys
    BY <1>15, <1>16, <1>17, <2>1 DEF KeepsKeys
  <2> QED BY <1>8, <1>9, <2>2, <2>3 DEF KeysHeld
<1> QED BY <1>18, <1>19, <1>20

\* The directories are written out.
LEMMA AllSynced ==
  ASSUME Typed, KeysHeld, slotMarked, UNCHANGED <<sys, slotMarked, view, ks, nextKs, nextKey, retired>>,
         risk' = {} => risk = {}, ~cp', stable' = view
  PROVE  KeysHeld' /\ KeepsKeys
<1>1. DirsFormed(view)' /\ DirsFormed(stable)'
  BY DEF KeysHeld, KeystoreSound, DirsFormed
<1>2. KeystoreSound'
  BY <1>1 DEF KeysHeld, KeystoreSound, Owned, Ahead, Blobs
<1>3. SlotSound'
  BY DEF SlotSound
<1>4. ViewGood'
  BY DEF ViewGood, Good
<1>5. BootSystems' = BootSystems
  BY DEF BootSystems
<1>6. \A k, v : Good(view, k, v) <=> Good(stable, k, v)'
  BY DEF Good, Readable
<1>7. \A k : Recoverable(k) <=> \A v \in BootSystems : Good(stable, k, v)
  BY DEF Recoverable, Good
<1>8. \A k : Recoverable(k)' <=> \A v \in BootSystems : Good(stable, k, v)'
  BY <1>5 DEF Recoverable, Good
<1>9. KeepsKeys
  BY <1>6, <1>7, <1>8 DEF KeysHeld, ViewGood, KeepsKeys
<1> QED BY <1>2, <1>3, <1>4, <1>9 DEF KeysHeld

\* A directory takes the free name "current".
LEMMA DirRenamed ==
  ASSUME Typed, KeysHeld, NEW f \in Paths, f # 0, view[0] = NoDir,
         UNCHANGED <<sys, slotMarked, cp, stable, ks, nextKs, nextKey, risk, retired>>,
         view'[0] = view[f], view'[f] = NoDir, \A q \in Dirs \ {0, f} : view'[q] = view[q]
  PROVE  KeysHeld' /\ KeepsKeys
<1>1. /\ DirsFormed(view) /\ DirsFormed(stable)
      /\ Owned(view, view) /\ Owned(view, stable) /\ Owned(stable, stable)
      /\ Ahead(view, view) /\ Ahead(view, stable) /\ Ahead(stable, stable)
      /\ NoBlob \notin ks /\ \A b \in ks : b.id < nextKs
  BY DEF KeysHeld, KeystoreSound
<1>2. /\ 0 \in Paths /\ Paths \subseteq Dirs /\ DE \in Dirs /\ DE \notin Paths
      /\ Dirs \ {DE} = Paths
  BY UserKeysAssumption DEF Dirs, Paths, DE
\* the name it had before
<1> DEFINE Was(q) == IF q = 0 THEN f ELSE IF q = f THEN 0 ELSE q
<1>3. \A q \in Dirs : view'[q] = view[Was(q)] /\ Was(q) \in Dirs /\ (q \in Paths <=> Was(q) \in Paths)
  BY <1>2
<1>4. Was(DE) = DE /\ \A q, r \in Dirs : Was(q) = Was(r) => q = r
  BY <1>2
<1>5. \A q \in Dirs : Was(Was(q)) = q
  BY <1>2
<1> HIDE DEF Was
<1>6. DirsFormed(stable)'
  BY <1>1 DEF DirsFormed
<1>7. DirsFormed(view)'
  <2>1. \A q \in Dirs :
          /\ view'[q].auth = "none" => view'[q] = NoDir
          /\ view'[q].auth # "none" => view'[q].key # 0
          /\ view'[q].auth = "secret" => view'[q].blob = NoBlob /\ view'[q].up = NoBlob /\ q # DE
          /\ view'[q].auth = "empty" => view'[q].blob # NoBlob
          /\ view'[q].key < nextKey /\ view'[q].blob.id < nextKs /\ view'[q].up.id < nextKs
          /\ view'[q].blob.ver <= sys
    BY <1>1, <1>3, <1>4 DEF DirsFormed
  <2>2. \A q, r \in Paths : view'[q].auth # "none" /\ view'[r].auth # "none" => view'[q].key = view'[r].key
    BY <1>1, <1>2, <1>3 DEF DirsFormed
  <2>3. \A q, r \in Dirs : view'[q].auth = "empty" /\ view'[r].auth = "empty" /\ q # r => view'[q].key # view'[r].key
    BY <1>1, <1>3, <1>4 DEF DirsFormed
  <2>4. \A q \in Paths : view'[q].auth # "none" => view'[q].key # view'[DE].key
    BY <1>1, <1>2, <1>3, <1>4 DEF DirsFormed
  <2> QED BY <2>1, <2>2, <2>3, <2>4 DEF DirsFormed
<1>8. Owned(view, view)' /\ Owned(view, stable)' /\ Owned(stable, stable)'
  <2>1. /\ \A q \in Dirs : Blobs(view[q])' = Blobs(view[Was(q)])
        /\ \A q \in Dirs : Blobs(stable[q])' = Blobs(stable[q])
    BY <1>3 DEF Blobs
  <2>2. ASSUME NEW a \in Dirs, NEW b \in Dirs, Blobs(view[a])' \cap Blobs(view[b])' # {}
        PROVE  view'[a].key = view'[b].key
    BY <1>1, <1>3, <2>1, <2>2 DEF Owned
  <2>3. ASSUME NEW a \in Dirs, NEW b \in Dirs, Blobs(view[a])' \cap Blobs(stable[b])' # {}
        PROVE  view'[a].key = stable'[b].key
    BY <1>1, <1>3, <2>1, <2>3 DEF Owned
  <2>4. Owned(stable, stable)'
    BY <1>1, <2>1 DEF Owned
  <2> QED BY <2>2, <2>3, <2>4 DEF Owned
<1>9. Ahead(view, view)' /\ Ahead(view, stable)' /\ Ahead(stable, stable)'
  BY <1>1, <1>3 DEF Ahead
<1>10. KeystoreSound'
  BY <1>1, <1>6, <1>7, <1>8, <1>9 DEF KeystoreSound
<1>11. SlotSound'
  BY <1>3 DEF KeysHeld, SlotSound
<1>12. BootSystems' = BootSystems
  BY DEF BootSystems
<1>13. \A k, v : Good(stable, k, v)' <=> Good(stable, k, v)
  BY DEF Good, Readable
<1>14. \A k, v : Good(view, k, v) => Good(view, k, v)'
  <2> SUFFICES ASSUME NEW k, NEW v, NEW q \in Dirs, view[q].key = k, Readable(view[q], v)
               PROVE  Good(view, k, v)'
    BY DEF Good
  <2>1. Was(q) \in Dirs /\ view'[Was(q)] = view[q]
    BY <1>3, <1>5
  <2> QED BY <2>1 DEF Good, Readable
<1>15. ViewGood'
  BY <1>12, <1>13, <1>14 DEF KeysHeld, ViewGood
<1>16. KeepsKeys
  BY <1>12 DEF KeepsKeys, Recoverable, Readable
<1> QED BY <1>10, <1>11, <1>15, <1>16 DEF KeysHeld

\* The CE key is stored once more, bound to the secret.
LEMMA DirStored ==
  ASSUME Typed, KeysHeld, NEW n \in Paths \ Here, NEW key \in 1..(nextKey - 1),
         key # view[DE].key, \A p \in Here : view[p].key = key,
         UNCHANGED <<sys, slotMarked, cp, stable, ks, nextKs, nextKey, risk, retired>>,
         view'[n].auth = "secret", view'[n].key = key, view'[n].blob = NoBlob,
         view'[n].up = NoBlob, \A q \in Dirs \ {n} : view'[q] = view[q]
  PROVE  KeysHeld' /\ KeepsKeys
<1>1. /\ DirsFormed(view) /\ DirsFormed(stable)
      /\ Owned(view, view) /\ Owned(view, stable) /\ Owned(stable, stable)
      /\ Ahead(view, view) /\ Ahead(view, stable) /\ Ahead(stable, stable)
      /\ NoBlob \notin ks /\ \A b \in ks : b.id < nextKs
  BY DEF KeysHeld, KeystoreSound
<1>2. /\ n \in Dirs /\ n # DE /\ Paths \subseteq Dirs /\ DE \in Dirs /\ DE \notin Paths
      /\ NoBlob.id = 0 /\ NoBlob.ver = 0 /\ 0 < nextKs /\ 0 <= sys /\ key < nextKey /\ key # 0
  BY UserKeysAssumption DEF Dirs, Paths, DE, NoBlob, Typed
<1>3. /\ view'[n].auth = "secret" /\ view'[n].key = key /\ view'[n].blob = NoBlob
      /\ view'[n].up = NoBlob
  OBVIOUS
<1>4. view[n].auth = "none" /\ \A p \in Paths : view[p].auth # "none" => view[p].key = key
  BY DEF Here, Exists
<1>5. DirsFormed(stable)'
  BY <1>1 DEF DirsFormed
<1>6. DirsFormed(view)'
  <2>1. \A q \in Dirs :
          /\ view'[q].auth = "none" => view'[q] = NoDir
          /\ view'[q].auth # "none" => view'[q].key # 0
          /\ view'[q].auth = "secret" => view'[q].blob = NoBlob /\ view'[q].up = NoBlob /\ q # DE
          /\ view'[q].auth = "empty" => view'[q].blob # NoBlob
          /\ view'[q].key < nextKey /\ view'[q].blob.id < nextKs /\ view'[q].up.id < nextKs
          /\ view'[q].blob.ver <= sys
    BY <1>1, <1>2, <1>3 DEF DirsFormed
  <2>2. \A q \in Paths : view'[q].auth # "none" => view'[q].key = key
    BY <1>2, <1>3, <1>4
  <2>3. \A q, r \in Dirs : view'[q].auth = "empty" /\ view'[r].auth = "empty" /\ q # r => view'[q].key # view'[r].key
    BY <1>1, <1>2, <1>3 DEF DirsFormed
  <2>4. view'[DE] = view[DE]
    BY <1>2
  <2> QED BY <2>1, <2>2, <2>3, <2>4 DEF DirsFormed
<1>7. Owned(view, view)' /\ Owned(view, stable)' /\ Owned(stable, stable)'
  <2>1. /\ Blobs(view[n])' = {}
        /\ \A q \in Dirs : q # n => Blobs(view[q])' = Blobs(view[q])
        /\ \A q \in Dirs : Blobs(stable[q])' = Blobs(stable[q])
    BY <1>3 DEF Blobs
  <2>2. ASSUME NEW a \in Dirs, NEW b \in Dirs, Blobs(view[a])' \cap Blobs(view[b])' # {}
        PROVE  view'[a].key = view'[b].key
    BY <1>1, <2>1, <2>2 DEF Owned
  <2>3. ASSUME NEW a \in Dirs, NEW b \in Dirs, Blobs(view[a])' \cap Blobs(stable[b])' # {}
        PROVE  view'[a].key = stable'[b].key
    BY <1>1, <2>1, <2>3 DEF Owned
  <2>4. Owned(stable, stable)'
    BY <1>1, <2>1 DEF Owned
  <2> QED BY <2>2, <2>3, <2>4 DEF Owned
<1>8. Ahead(view, view)' /\ Ahead(view, stable)' /\ Ahead(stable, stable)'
  BY <1>1, <1>3 DEF Ahead
<1>9. KeystoreSound'
  BY <1>1, <1>5, <1>6, <1>7, <1>8 DEF KeystoreSound
<1>10. SlotSound'
  BY <1>3 DEF KeysHeld, SlotSound
<1>11. BootSystems' = BootSystems
  BY DEF BootSystems
<1>12. \A k, v : Good(stable, k, v)' <=> Good(stable, k, v)
  BY DEF Good, Readable
<1>13. \A k, v : Good(view, k, v) => Good(view, k, v)'
  BY <1>4 DEF Good, Readable
<1>14. ViewGood'
  BY <1>11, <1>12, <1>13 DEF KeysHeld, ViewGood
<1>15. KeepsKeys
  BY <1>11 DEF KeepsKeys, Recoverable, Readable
<1> QED BY <1>9, <1>10, <1>14, <1>15 DEF KeysHeld

\* A new user gets a DE key.
LEMMA UserCreated ==
  ASSUME Typed, KeysHeld, \A d \in Dirs : view[d] = NoDir,
         UNCHANGED <<sys, slotMarked, cp, risk, retired>>,
         nextKs' = nextKs + 1, nextKey' = nextKey + 2,
         ks' = ks \cup {[id |-> nextKs, ver |-> sys]},
         view'[DE] = [auth |-> "empty", key |-> nextKey,
                      blob |-> [id |-> nextKs, ver |-> sys], up |-> NoBlob],
         \A q \in Dirs \ {DE} : view'[q] = NoDir,
         stable' = IF cp THEN stable ELSE view'
  PROVE  KeysHeld' /\ KeepsKeys
<1>1. /\ DirsFormed(stable) /\ Owned(stable, stable) /\ Ahead(stable, stable)
      /\ NoBlob \notin ks /\ \A b \in ks : b.id < nextKs
  BY DEF KeysHeld, KeystoreSound
<1>2. /\ DE \in Dirs /\ DE \notin Paths /\ Paths \subseteq Dirs /\ nextKs \in Nat /\ nextKs # 0
      /\ nextKey \in Nat /\ nextKey # 0 /\ sys \in Nat /\ stable \in [Dirs -> KeyDir] /\ ks \subseteq Blob
  BY UserKeysAssumption DEF Dirs, Paths, DE, Typed
<1>3. /\ NoDir.auth = "none" /\ NoDir.key = 0 /\ NoDir.blob = NoBlob /\ NoDir.up = NoBlob
      /\ NoBlob.id = 0 /\ NoBlob.ver = 0
  BY DEF NoDir, NoBlob
<1> PICK b : b = [id |-> nextKs, ver |-> sys]
  OBVIOUS
<1>4. b # NoBlob /\ b.id = nextKs /\ b.ver = sys
  BY <1>2, <1>3
<1>5. /\ view'[DE].auth = "empty" /\ view'[DE].key = nextKey /\ view'[DE].blob = b
      /\ view'[DE].up = NoBlob
      /\ \A q \in Dirs \ {DE} : view'[q] = NoDir
  OBVIOUS
<1>6. DirsFormed(view)'
  <2>1. \A q \in Dirs :
          /\ view'[q].auth = "none" => view'[q] = NoDir
          /\ view'[q].auth # "none" => view'[q].key # 0
          /\ view'[q].auth = "secret" => view'[q].blob = NoBlob /\ view'[q].up = NoBlob /\ q # DE
          /\ view'[q].auth = "empty" => view'[q].blob # NoBlob
          /\ view'[q].key < nextKey' /\ view'[q].blob.id < nextKs' /\ view'[q].up.id < nextKs'
          /\ view'[q].blob.ver <= sys
    BY <1>2, <1>3, <1>4, <1>5
  <2>2. \A q \in Paths : view'[q].auth = "none"
    BY <1>2, <1>3, <1>5
  <2> QED BY <1>3, <1>5, <2>1, <2>2 DEF DirsFormed
<1>7. /\ Blobs(view[DE])' = {b} /\ \A q \in Dirs \ {DE} : Blobs(view[q])' = {}
  BY <1>3, <1>4, <1>5 DEF Blobs
<1>8. Owned(view, view)'
  BY <1>7 DEF Owned
<1>9. Ahead(view, view)' /\ Ahead(view, stable)'
  BY <1>3, <1>5 DEF Ahead
<1>10. NoBlob \notin ks' /\ \A x \in ks' : x.id < nextKs'
  BY <1>1, <1>2, <1>4 DEF Blob
<1>11. BootSystems' = BootSystems /\ sys \in BootSystems
  BY DEF BootSystems
<1>12. \A k, v : ~Good(view, k, v)
  BY <1>3 DEF Good, Readable
<1>13. \A k : Recoverable(k) <=> \A v \in BootSystems : Good(stable, k, v)
  BY DEF Recoverable, Good
<1>14. CASE cp
  <2>1. stable' = stable
    BY <1>14
  <2>2. DirsFormed(stable)'
    BY <1>1, <1>2, <2>1 DEF DirsFormed, KeyDir, Blob
  <2>3. Blobs(stable[DE])' = Blobs(stable[DE]) /\ \A q \in Dirs : Blobs(stable[q])' = Blobs(stable[q]) /\ b \notin Blobs(stable[q])
    BY <1>1, <1>2, <1>4, <2>1 DEF DirsFormed, Blobs, KeyDir, Blob
  <2>4. Owned(view, stable)' /\ Owned(stable, stable)'
    <3>1. Owned(stable, stable)'
      BY <1>1, <2>1, <2>3 DEF Owned
    <3>2. \A p, q \in Dirs : Blobs(view[p])' \cap Blobs(stable[q])' = {}
      BY <1>7, <2>3
    <3> QED BY <3>1, <3>2 DEF Owned
  <2>5. Ahead(stable, stable)'
    BY <1>1, <2>1 DEF Ahead
  <2>6. KeystoreSound'
    BY <1>6, <1>8, <1>9, <1>10, <2>2, <2>4, <2>5 DEF KeystoreSound
  <2>7. \A q \in Dirs : stable[q].key # nextKey
    BY <1>1, <1>2 DEF DirsFormed, KeyDir
  <2>8. SlotSound'
    BY <1>3, <1>5, <2>1, <2>7 DEF KeysHeld, SlotSound
  <2>9. \A q \in Dirs : stable[q].blob # b
    BY <1>1, <1>2, <1>4 DEF DirsFormed
  <2>10. \A k, v : Good(stable, k, v)' <=> Good(stable, k, v)
    BY <2>1, <2>9 DEF Good, Readable
  <2>11. ViewGood'
    BY <1>11, <1>12, <2>10 DEF KeysHeld, ViewGood
  <2>12. KeepsKeys
    BY <1>11, <2>1, <2>9 DEF KeepsKeys, Recoverable, Readable
  <2> QED BY <2>6, <2>8, <2>11, <2>12 DEF KeysHeld
<1>15. CASE ~cp
  <2>1. stable' = view'
    BY <1>15
  <2>2. DirsFormed(stable)' /\ Owned(view, stable)' /\ Owned(stable, stable)' /\ Ahead(stable, stable)'
    <3>1. DirsFormed(stable)'
      BY <1>6, <2>1 DEF DirsFormed
    <3>2. Owned(view, stable)' /\ Owned(stable, stable)'
      BY <1>8, <2>1 DEF Owned, Blobs
    <3>3. Ahead(stable, stable)'
      BY <1>9, <2>1 DEF Ahead
    <3> QED BY <3>1, <3>2, <3>3
  <2>3. KeystoreSound'
    BY <1>6, <1>8, <1>9, <1>10, <2>2 DEF KeystoreSound
  <2>4. SlotSound'
    BY <1>15, OneSystem DEF KeysHeld, SlotSound
  <2>5. ViewGood'
    BY <2>1 DEF ViewGood, Good
  <2>6. KeepsKeys
    BY <1>11, <1>12, <1>13 DEF KeepsKeys, KeysHeld, ViewGood
  <2> QED BY <2>3, <2>4, <2>5, <2>6 DEF KeysHeld
<1> QED BY <1>14, <1>15

\* cp_commitChanges marks the slot: the older system is out.
LEMMA SlotMarked ==
  ASSUME Typed, KeysHeld, cp, slotMarked',
         UNCHANGED <<sys, cp, view, stable, ks, nextKs, nextKey, risk, retired>>
  PROVE  KeysHeld' /\ KeepsKeys
<1>1. DirsFormed(view)' /\ DirsFormed(stable)'
  BY DEF KeysHeld, KeystoreSound, DirsFormed
<1>2. KeystoreSound'
  BY <1>1 DEF KeysHeld, KeystoreSound, Owned, Ahead, Blobs
<1>3. SlotSound'
  BY DEF KeysHeld, SlotSound
<1>4. BootSystems' \subseteq BootSystems
  BY DEF BootSystems
<1>5. ViewGood'
  BY <1>4 DEF KeysHeld, ViewGood, Good, Readable
<1>6. KeepsKeys
  BY <1>4 DEF KeepsKeys, Recoverable, Readable
<1> QED BY <1>2, <1>3, <1>5, <1>6 DEF KeysHeld

\* A reboot, into this system, the one before or the next.
LEMMA Rebooted ==
  ASSUME Typed, KeysHeld, UNCHANGED <<stable, ks, nextKs, nextKey, risk, retired>>, view' = stable,
         \/ slotMarked /\ sys' = sys /\ slotMarked'
         \/ ~slotMarked /\ sys' = sys /\ ~slotMarked' /\ cp'
         \/ ~slotMarked /\ sys' = sys - 1 /\ slotMarked'
         \/ slotMarked /\ sys' = sys + 1 /\ ~slotMarked' /\ cp'
  PROVE  KeysHeld' /\ KeepsKeys /\ sys' \in Nat
<1>1. /\ DirsFormed(stable) /\ Owned(stable, stable) /\ Ahead(stable, stable)
      /\ NoBlob \notin ks /\ \A b \in ks : b.id < nextKs
  BY DEF KeysHeld, KeystoreSound
<1>2. /\ ~slotMarked => cp /\ sys > 0 /\ \A p \in Dirs : stable[p].blob.ver < sys
      /\ sys \in Nat /\ \A p \in Dirs : stable[p].blob.ver \in Nat
  BY DEF KeysHeld, SlotSound, Typed, KeyDir, Blob
<1>3. sys' \in Nat
  BY <1>2
<1>4. \A p \in Dirs : stable[p].blob.ver <= sys' /\ (~slotMarked' => stable[p].blob.ver < sys')
  BY <1>1, <1>2, <1>3 DEF DirsFormed
<1>5. DirsFormed(view)' /\ DirsFormed(stable)'
  BY <1>1, <1>4 DEF DirsFormed
<1>6. KeystoreSound'
  BY <1>1, <1>5 DEF KeystoreSound, Owned, Ahead, Blobs
<1>7. SlotSound'
  BY <1>2, <1>3, <1>4 DEF SlotSound
<1>8. ViewGood'
  BY DEF ViewGood, Good
<1>9. KeepsKeys
  <2> SUFFICES ASSUME NEW k \in Nat, Recoverable(k) PROVE Recoverable(k)'
    BY DEF KeepsKeys
  <2>1. \A v \in BootSystems' : \E w \in BootSystems : w <= v /\ w \in Int /\ v \in Int
    <3>1. BootSystems = IF slotMarked THEN {sys} ELSE {sys, sys - 1}
      BY DEF BootSystems
    <3>2. BootSystems' = IF slotMarked' THEN {sys'} ELSE {sys', sys' - 1}
      BY DEF BootSystems
    <3> TAKE v \in BootSystems'
    <3>3. v = sys' \/ (v = sys' - 1 /\ ~slotMarked')
      BY <3>2
    <3>4. CASE slotMarked
      <4>1. sys \in BootSystems /\ sys <= v /\ v \in Int
        BY <1>2, <1>3, <3>1, <3>3, <3>4
      <4> QED BY <1>2, <4>1
    <3>5. CASE ~slotMarked
      <4>1. sys - 1 \in BootSystems /\ sys - 1 <= v /\ v \in Int
        BY <1>2, <1>3, <3>1, <3>3, <3>5
      <4> QED BY <1>2, <4>1
    <3> QED BY <3>4, <3>5
  <2>2. ASSUME NEW v \in BootSystems'
        PROVE  \E p \in Dirs : stable[p].key = k /\ Readable(stable[p], v)'
    <3>1. PICK w \in BootSystems : w <= v /\ w \in Int /\ v \in Int
      BY <2>1
    <3>2. PICK p \in Dirs : stable[p].key = k /\ Readable(stable[p], w)
      BY DEF Recoverable
    <3> QED BY <1>2, <3>1, <3>2 DEF Readable
  <2> QED BY <2>2 DEF Recoverable
<1> QED BY <1>3, <1>6, <1>7, <1>8, <1>9 DEF KeysHeld

-----------------------------------------------------------------------------
(* Every step keeps the invariant *)

\* read_and_fixate_user_ce_key has found the key.
LEMMA ReadFoundStep == ASSUME Ind, ReadFound PROVE Ind' /\ KeepsKeys
<1> USE DEF Ind, CallSound, ReadFound, device, memory, history
<1>1. KeysHeld' /\ KeepsKeys
  BY Unmoved DEF Kernel, Grows, Typed
<1>2. Typed'
  BY DEF Typed
<1>3. SecretStable'
  BY DEF SecretStable
<1>4. CallShape'
  BY DEF CallShape, Typed, Reads
<1>5. CallDirs'
  BY DEF CallDirs, Reading, Here, Exists, Typed, CallShape
<1>6. FixGood' /\ FixSecret'
  BY DEF FixGood, FixSecret, Typed
<1>7. CallKey'
  BY DEF CallKey, CallShape, CallDirs, Here, Exists, Typed, KeysHeld, KeystoreSound, DirsFormed, Reading, Reads
<1>8. ListsValid'
  BY DEF ListsValid, InWork, Upgraded, CallShape, Reads, Typed
<1>9. SecuredRight'
  BY DEF SecuredRight, Typed
<1> QED BY <1>1, <1>2, <1>3, <1>4, <1>5, <1>6, <1>7, <1>8, <1>9

\* A read starts with the newest directory.
LEMMA Started ==
  ASSUME Typed, KeystoreSound, get_ce_key_paths # {}
  PROVE  get_ce_key_paths = Here /\ Max(get_ce_key_paths) \in Here /\ Max(get_ce_key_paths) \in Dirs
<1>1. get_ce_key_paths = Here /\ Here \in SUBSET Dirs
  BY PathsFound DEF KeystoreSound, Here, Dirs
<1> QED BY <1>1, MaxPaths

\* fscrypt_set_user_key_protection begins.
LEMMA ProtectionStep ==
  ASSUME Ind, fscrypt_set_user_key_protection PROVE Ind' /\ KeepsKeys
<1> USE DEF Ind, CallSound, fscrypt_set_user_key_protection, device, memory, history
<1>1. KeysHeld' /\ KeepsKeys
  BY Unmoved DEF Kernel, Grows, Typed
<1>2. /\ get_ce_key_paths = Here /\ Here \subseteq Dirs
      /\ get_ce_key_paths # {} => Max(get_ce_key_paths) \in Here /\ Max(get_ce_key_paths) \in Dirs
      /\ DE \in Dirs
  BY PathsFound, Started DEF KeysHeld, KeystoreSound, Here, Dirs
<1>3. \/ /\ newKey # 0 /\ pc' = "store" /\ newKey' = newKey /\ nextKey' = nextKey
         /\ call' = [NoCall EXCEPT !.why = "reprotect", !.key = newKey]
      \/ /\ newKey = 0 /\ pc' = "retrieve" /\ newKey' = newKey /\ nextKey' = nextKey
         /\ Here # {} /\ Max(Here) \in Here
         /\ call' = [NoCall EXCEPT !.why = "reprotect", !.auth = "empty", !.paths = Here,
                                   !.fix = Max(Here)]
      \/ /\ newKey = 0 /\ Here = {} /\ pc' = "store" /\ newKey' = nextKey /\ nextKey' = nextKey + 1
         /\ call' = [NoCall EXCEPT !.why = "reprotect", !.key = nextKey]
  BY <1>2 DEF Start
<1>4. /\ call'.why = "reprotect" /\ call'.auth = "empty"
      /\ call'.old = NoBlob /\ ~call'.sync
      /\ pc' = "store" => call'.key = newKey' /\ call'.fix = DE /\ call'.paths = {}
      /\ pc' = "retrieve" => call'.paths = Here /\ call'.fix \in Here /\ call'.key = 0
      /\ pc' \in {"store", "retrieve"}
  BY <1>3 DEF NoCall
<1>5. Typed'
  <2>1. NoCall \in CallType(nextKey')
    BY <1>3, NoCallTyped DEF Typed
  <2>2. nextKey' \in Nat \ {0} /\ newKey' \in 0..(nextKey' - 1)
    BY <1>3 DEF Typed
  <2>3. call' \in CallType(nextKey')
    <3>1. CASE pc' = "store"
      BY <1>2, <1>3, <2>1, <2>2, <3>1 DEF CallType
    <3>2. CASE pc' = "retrieve"
      BY <1>2, <1>3, <2>1, <2>2, <3>2 DEF CallType
    <3> QED BY <1>4, <3>1, <3>2
  <2> QED BY <2>2, <2>3 DEF Typed, CallType
<1>6. SecretStable'
  BY <1>4 DEF SecretStable
<1>7. CallShape'
  BY <1>4 DEF CallShape, Reads
<1>8. CallDirs'
  BY <1>4 DEF CallDirs, Reading, Here, Exists, Reads
<1>9. FixGood' /\ FixSecret'
  BY <1>4 DEF FixGood, FixSecret
<1>10. CallKey'
  <2>1. view[DE].key < nextKey /\ view[DE].key \in Nat /\ nextKey \in Nat \ {0}
    BY DEF Typed, KeysHeld, KeystoreSound, DirsFormed, Dirs, KeyDir
  <2>2. newKey' # 0 => newKey' # view[DE].key /\ \A p \in Here : view[p].key = newKey'
    BY <1>3, <2>1 DEF CallKey
  <2>3. pc' = "store" => newKey' # 0
    BY <1>3, <2>1
  <2>4. Here' = Here
    BY DEF Here, Exists
  <2> QED BY <1>4, <2>2, <2>3, <2>4 DEF CallKey
<1>11. ListsValid'
  BY <1>4 DEF ListsValid, InWork, Upgraded, CallShape
<1>12. SecuredRight'
  BY DEF SecuredRight
<1> QED BY <1>1, <1>5, <1>6, <1>7, <1>8, <1>9, <1>10, <1>11, <1>12

\* fscrypt_unlock_user_key begins.
LEMMA UnlockStep ==
  ASSUME Ind, NEW auth \in {"empty", "secret"}, fscrypt_unlock_user_key(auth)
  PROVE  Ind' /\ KeepsKeys
<1> USE DEF Ind, CallSound, fscrypt_unlock_user_key, device, memory, history
<1>1. KeysHeld' /\ KeepsKeys
  BY Unmoved DEF Kernel, Grows, Typed
<1>2. get_ce_key_paths = Here /\ Here # {} /\ Max(Here) \in Here /\ Max(Here) \in Dirs /\ Here \subseteq Dirs
  BY PathsFound, Started DEF KeysHeld, KeystoreSound, Here, Dirs
<1>3. /\ pc' = "retrieve"
      /\ call' = [NoCall EXCEPT !.why = "unlock", !.auth = auth, !.paths = Here, !.fix = Max(Here)]
  BY <1>2 DEF Start, NoCall
<1>4. /\ call'.why = "unlock" /\ call'.auth = auth
      /\ call'.paths = Here /\ call'.fix \in Here /\ call'.key = 0
  BY <1>2, <1>3 DEF NoCall
<1>5. Typed'
  <2>1. call' \in CallType(nextKey)
    BY <1>2, <1>3, NoCallTyped DEF CallType, Typed
  <2> QED BY <2>1 DEF Typed, CallType
<1>6. SecretStable'
  BY <1>3 DEF SecretStable
<1>7. CallShape'
  BY <1>3, <1>4 DEF CallShape, Reads
<1>8. CallDirs'
  BY <1>3, <1>4 DEF CallDirs, Reading, Here, Exists, Reads
<1>9. FixGood' /\ FixSecret' /\ CallKey'
  BY <1>3, <1>4 DEF FixGood, FixSecret, CallKey, Here, Exists
<1>10. ListsValid'
  BY <1>3, <1>4 DEF ListsValid, InWork, Upgraded, CallShape
<1>11. SecuredRight'
  BY <1>3, <1>4 DEF SecuredRight, Here, Exists
<1> QED BY <1>1, <1>5, <1>6, <1>7, <1>8, <1>9, <1>10, <1>11

\* fscrypt_lock_user_key.
LEMMA LockStep == ASSUME Ind, fscrypt_lock_user_key PROVE Ind' /\ KeepsKeys
<1> USE DEF Ind, CallSound, fscrypt_lock_user_key, device, history
<1>1. KeysHeld' /\ KeepsKeys
  BY Unmoved DEF Kernel, Grows, Typed
<1>2. Typed'
  BY DEF Typed
<1>3. SecretStable' /\ CallShape' /\ CallDirs' /\ FixGood' /\ FixSecret'
  BY DEF SecretStable, CallShape, CallDirs, FixGood, FixSecret, Reading, Here, Exists, Blobs
<1>4. CallKey'
  BY DEF CallKey, Here, Exists
<1>5. ListsValid' /\ SecuredRight'
  BY DEF ListsValid, InWork, Upgraded, SecuredRight, Here, Exists
<1> QED BY <1>1, <1>2, <1>3, <1>4, <1>5

\* DoCheckpointCommittedWork gets the lock.
LEMMA WorkBeginStep == ASSUME Ind, WorkBegin PROVE Ind' /\ KeepsKeys
<1> USE DEF Ind, CallSound, WorkBegin, device, memory, history
<1>1. KeysHeld' /\ KeepsKeys
  BY Unmoved DEF Kernel, Grows, Typed
<1>2. /\ call'.why = "work" /\ call'.auth = "empty" /\ call'.paths = pending /\ call'.fix = DE
      /\ call'.old = NoBlob
  BY DEF NoCall
<1>3. Typed'
  <2>1. call' \in CallType(nextKey)
    BY NoCallTyped DEF CallType, Typed
  <2> QED BY <2>1 DEF Typed, CallType
<1>4. SecretStable' /\ CallDirs' /\ FixGood' /\ FixSecret'
  BY DEF SecretStable, CallDirs, FixGood, FixSecret, Reading
<1>5. CallShape'
  BY <1>2 DEF CallShape
<1>6. CallKey'
  BY <1>2 DEF CallKey, Here, Exists
<1>7. ListsValid' /\ SecuredRight'
  BY <1>2 DEF ListsValid, InWork, Upgraded, SecuredRight, Here, Exists, CallShape
<1> QED BY <1>1, <1>3, <1>4, <1>5, <1>6, <1>7

\* fscrypt_deferred_fixate_ce_keys: the directory on the list is bound to the secret.
LEMMA WorkFixateStep == ASSUME Ind, WorkFixate PROVE Ind' /\ KeepsKeys
<1> USE DEF Ind, CallSound, WorkFixate, device, memory, history
<1>1. KeysHeld' /\ KeepsKeys
  BY Unmoved DEF Kernel, Grows, Typed
<1>2. get_ce_key_paths = Here /\ Here \subseteq Dirs
  BY PathsFound DEF KeysHeld, KeystoreSound, Here, Dirs
<1>3. call.why = "work" /\ ~cp
  BY DEF CallShape
<1>4. CASE deferred = NoPath /\ Done
  <2>1. pc' = "idle" /\ call' = NoCall /\ call'.why = "load" /\ call'.auth = "empty"
    BY <1>4 DEF Done, NoCall
  <2>2. Typed'
    BY <2>1, NoCallTyped DEF Typed, CallType
  <2>3. SecretStable' /\ CallDirs' /\ FixGood' /\ FixSecret' /\ CallShape'
    BY <2>1 DEF SecretStable, CallDirs, FixGood, FixSecret, Reading, CallShape
  <2>4. CallKey'
    BY <2>1 DEF CallKey, Here, Exists
  <2>5. ListsValid' /\ SecuredRight'
    BY <1>4, <2>1 DEF ListsValid, InWork, Upgraded, SecuredRight, Here, Exists, CallShape
  <2> QED BY <1>1, <2>2, <2>3, <2>4, <2>5
<1>5. CASE deferred # NoPath /\ pc' = "fixate"
  <2>1. deferred \in Here /\ view[deferred].auth = "secret"
    BY <1>5 DEF ListsValid, Typed, Here, Exists
  <2>2. /\ call'.why = "work" /\ call'.fix = deferred /\ call'.paths = Here \ {deferred}
        /\ call'.key = call.key /\ call'.auth = call.auth
    BY <1>2, <1>3, <1>5 DEF Typed
  <2>3. Typed'
    <3> DEFINE others == Here \ {deferred}
    <3>1. call' = [call EXCEPT !.fix = deferred, !.paths = others, !.sync = others # {}]
      BY <1>2, <1>5
    <3>2. (others # {}) \in BOOLEAN /\ others \in SUBSET Dirs /\ deferred \in Dirs
      BY <1>2, <2>1
    <3> HIDE DEF others
    <3>3. call' \in CallType(nextKey)
      BY <3>1, <3>2 DEF CallType, Typed
    <3> QED BY <3>3 DEF Typed, CallType
  <2>4. SecretStable' /\ CallShape'
    BY <1>3, <1>5, <2>2 DEF SecretStable, CallShape
  <2>5. CallDirs'
    BY <1>5, <2>1, <2>2 DEF CallDirs, Reading, Here, Exists
  <2>6. FixGood' /\ FixSecret'
    BY <1>5, <2>1, <2>2 DEF FixGood, FixSecret
  <2>7. CallKey'
    BY <1>5, <2>2 DEF CallKey, Here, Exists
  <2>8. ListsValid'
    BY <1>5 DEF ListsValid, InWork, Upgraded
  <2>9. SecuredRight'
    BY <1>3, <1>5, <2>2 DEF SecuredRight
  <2> QED BY <1>1, <2>3, <2>4, <2>5, <2>6, <2>7, <2>8, <2>9
<1> QED BY <1>4, <1>5

\* Two directories share no Keystore key.
LEMMA OthersStay ==
  ASSUME Typed, KeystoreSound, NEW p \in Dirs, NEW q \in Dirs, p # q
  PROVE  Blobs(view[p]) \cap Blobs(view[q]) = {}
<1>1. DirsFormed(view) /\ Owned(view, view)
  BY DEF KeystoreSound
<1>2. \A d \in Dirs : Blobs(view[d]) # {} => view[d].auth = "empty"
  BY <1>1 DEF DirsFormed, Blobs, NoDir, Typed, KeyDir
<1> QED BY <1>1, <1>2 DEF DirsFormed, Owned

\* fscrypt_destroy_user_key begins: its keys are retired.
LEMMA DestroyStep == ASSUME Ind, fscrypt_destroy_user_key PROVE Ind' /\ KeepsKeys
<1> USE DEF Ind, CallSound, fscrypt_destroy_user_key, device
<1>1. KeysHeld' /\ KeepsKeys
  BY Unmoved DEF Kernel, Grows, Typed
<1>2. SecretStable' /\ SecuredRight'
  BY DEF SecretStable, SecuredRight
<1>0. /\ newKey' \in 0..(nextKey - 1) /\ secured' \in BOOLEAN
      /\ UNCHANGED <<sys, slotMarked, cp, view, stable, ks, nextKs, nextKey, pending, work>>
  <2>1. secured' \in BOOLEAN
    BY Zenon
  <2>2. newKey' \in 0..(nextKey - 1)
    BY DEF Typed
  <2> QED BY <2>1, <2>2
<1>3. CASE UNCHANGED <<pc, call, deferred>>
  <2>1. Typed'
    <3> USE <1>0, <1>3
    <3> HIDE DEF fscrypt_destroy_user_key
    <3> QED BY DEF Typed
  <2>2. CallShape' /\ CallDirs' /\ FixGood' /\ FixSecret'
    BY <1>3 DEF CallShape, CallDirs, FixGood, FixSecret, Reading, Here, Exists, Blobs
  <2>3. CallKey' /\ ListsValid'
    BY <1>3 DEF CallKey, ListsValid, InWork, Upgraded, Here, Exists
  <2> QED BY <1>1, <1>2, <2>1, <2>2, <2>3
<1>4. CASE pc' = "destroy" /\ deferred' = NoPath
           /\ call' = [NoCall EXCEPT !.why = "destroy",
                         !.paths = get_ce_key_paths \cup {d \in {DE} : view[d] # NoDir}]
  <2>1. call'.why = "destroy" /\ call'.auth = "empty"
    BY <1>4 DEF NoCall
  <2>2. get_ce_key_paths \cup {d \in {DE} : view[d] # NoDir} \in SUBSET Dirs
    BY DEF get_ce_key_paths, Dirs
  <2>3. call' \in CallType(nextKey)
    BY <1>4, <2>2, NoCallTyped DEF CallType, Typed
  <2>4. Typed'
    <3> USE <1>0, <1>4, <2>3
    <3> HIDE DEF fscrypt_destroy_user_key
    <3> QED BY DEF Typed, CallType
  <2>5. CallShape' /\ FixGood' /\ FixSecret'
    BY <1>4, <2>1 DEF CallShape, FixGood, FixSecret
  <2>6. CallDirs'
    BY <1>4 DEF CallDirs, Reading, Exists
  <2>7. CallKey' /\ ListsValid'
    BY <1>4, <2>1 DEF CallKey, ListsValid, InWork, Upgraded, Here, Exists, CallShape
  <2> QED BY <1>1, <1>2, <2>4, <2>5, <2>6, <2>7
<1> QED BY <1>3, <1>4

\* What destroying a directory leaves of the others and of the lists.
LEMMA DestroyKeyFacts ==
  ASSUME Typed, KeysHeld, NEW p \in Dirs, destroyKey(p)
  PROVE  /\ view' \in [Dirs -> KeyDir] /\ ks' \in SUBSET Blob /\ pending' \in SUBSET Dirs
         /\ view'[p] = NoDir /\ \A q \in Dirs : q # p => view'[q] = view[q]
         /\ \A q \in Dirs : q # p /\ view[q].blob \in ks => view[q].blob \in ks'
         /\ \A q \in Dirs : q # p /\ view[q].up \in ks => view[q].up \in ks'
         /\ pending' = pending \ {p}
         /\ Here' = Here \ {p}
<1> USE DEF destroyKey, CancelPendingKeyCommit
<1>1. view' \in [Dirs -> KeyDir] /\ ks' \in SUBSET Blob /\ pending' \in SUBSET Dirs
  BY DEF Typed, KeyDir, NoDir, NoBlob, Blob
<1>2. view'[p] = NoDir /\ \A q \in Dirs : q # p => view'[q] = view[q]
  BY DEF Typed
<1>3. Here' = Here \ {p}
  BY <1>2 DEF Here, Exists, NoDir, Dirs
<1>4. ASSUME NEW q \in Dirs, q # p, NEW b \in Blobs(view[q]), b \in ks PROVE b \in ks'
  <2>1. b \notin Blobs(view[p])
    BY <1>4, OthersStay DEF KeysHeld
  <2> QED BY <1>4, <2>1 DEF Blobs
<1>5. NoBlob \notin ks
  BY DEF KeysHeld, KeystoreSound
<1>6. /\ \A q \in Dirs : q # p /\ view[q].blob \in ks => view[q].blob \in ks'
      /\ \A q \in Dirs : q # p /\ view[q].up \in ks => view[q].up \in ks'
  BY <1>4, <1>5 DEF Blobs
<1> QED BY <1>1, <1>2, <1>3, <1>6

\* fscrypt_destroy_user_key destroys a directory: no other user's, and of retired keys.
LEMMA DestroyNextStep == ASSUME Ind, DestroyNext PROVE Ind' /\ KeepsKeys
<1> USE DEF Ind, CallSound, DestroyNext, device, memory, history
<1>1. call.why = "destroy" /\ deferred = NoPath /\ ~secured /\ pc = "destroy"
  BY DEF CallShape, ListsValid, SecuredRight
<1>2. CASE Done /\ UNCHANGED <<view, ks, pending>>
  <2>1. KeysHeld' /\ KeepsKeys
    BY <1>2, Unmoved DEF Kernel, Grows, Typed
  <2>2. pc' = "idle" /\ call' = NoCall /\ call'.why = "load" /\ call'.auth = "empty"
    BY <1>2 DEF Done, NoCall
  <2>3. Typed'
    BY <1>2, <2>2, NoCallTyped DEF Typed, CallType
  <2>4. SecretStable' /\ CallShape' /\ CallDirs' /\ FixGood' /\ FixSecret'
    BY <1>1, <1>2, <2>2 DEF SecretStable, CallShape, CallDirs, FixGood, FixSecret, Reading
  <2>5. CallKey' /\ ListsValid' /\ SecuredRight'
    BY <1>1, <1>2, <2>2 DEF CallKey, ListsValid, InWork, Upgraded, Here, Exists, SecuredRight
  <2> QED BY <2>1, <2>3, <2>4, <2>5
<1>3. ASSUME call.paths # {}, destroyKey(Max(call.paths)),
             call' = [call EXCEPT !.paths = @ \ {Max(call.paths)}], pc' = pc
      PROVE  Ind' /\ KeepsKeys
  <2> PICK p \in Dirs : p = Max(call.paths)
    BY <1>3, MaxPaths DEF Typed
  <2>1. destroyKey(p)
    BY <1>3
  <2>2. /\ view' \in [Dirs -> KeyDir] /\ ks' \in SUBSET Blob /\ pending' \in SUBSET Dirs
        /\ view'[p] = NoDir /\ \A q \in Dirs : q # p => view'[q] = view[q]
        /\ \A q \in Dirs : q # p /\ view[q].blob \in ks => view[q].blob \in ks'
        /\ \A q \in Dirs : q # p /\ view[q].up \in ks => view[q].up \in ks'
        /\ pending' = pending \ {p}
        /\ Here' = Here \ {p}
    BY <2>1, DestroyKeyFacts
  <2>3. KeysHeld' /\ KeepsKeys
    <3>1. CASE view[p].auth # "none"
      <4>1. view[p].key \in retired
        BY <1>1, <3>1 DEF CallDirs, Exists
      <4>2. ks' = ks \ {view[p].blob, view[p].up}
        BY <2>1 DEF destroyKey
      <4> QED BY <2>2, <3>1, <4>1, <4>2, DirDestroyed
    <3>2. CASE view[p].auth = "none"
      <4>1. view[p] = NoDir /\ NoBlob \notin ks
        BY <3>2 DEF KeysHeld, KeystoreSound, DirsFormed
      <4>2. view' = view /\ ks' = ks
        BY <2>1, <2>2, <4>1 DEF destroyKey, NoDir, Typed
      <4> QED BY <4>2, Unmoved DEF Kernel, Grows, Typed
    <3> QED BY <3>1, <3>2
  <2>4. Typed'
    <3>1. call' \in CallType(nextKey)
      BY <1>3 DEF Typed, CallType
    <3> QED BY <2>2, <3>1 DEF Typed, CallType
  <2>5. call'.why = "destroy" /\ call'.auth = call.auth
    BY <1>1, <1>3 DEF Typed
  <2>6. /\ NoDir.auth = "none" /\ NoDir.key = 0
        /\ \A q \in Dirs : view'[q].auth # "none" => q # p /\ view'[q] = view[q]
    BY <2>2 DEF NoDir
  <2>7. SecretStable' /\ CallShape' /\ FixGood' /\ FixSecret'
    BY <1>1, <1>3, <2>5, <2>6 DEF SecretStable, CallShape, FixGood, FixSecret
  <2>8. CallDirs'
    BY <1>1, <1>3, <2>6 DEF CallDirs, Reading, Exists
  <2>9. CallKey'
    <3>1. \A q \in Here' : q \in Here /\ view'[q] = view[q]
      BY <2>2 DEF Here, Dirs
    <3>2. view'[DE].key = view[DE].key \/ view'[DE].key = 0
      BY <2>2, <2>6 DEF Dirs
    <3> QED BY <1>1, <1>3, <3>1, <3>2 DEF CallKey
  <2>10. ListsValid' /\ SecuredRight'
    BY <1>1, <1>3, <2>2, <2>5 DEF ListsValid, InWork, Upgraded, SecuredRight, Typed
  <2> QED BY <2>3, <2>4, <2>7, <2>8, <2>9, <2>10
<1> QED BY <1>2, <1>3

\* The fixation destroys another directory: the kept one still reads the key, here and,
\* when the destroyed one was bound to Keystore, after any reboot.
LEMMA FixateDestroyStep == ASSUME Ind, FixateDestroy PROVE Ind' /\ KeepsKeys
<1> USE DEF Ind, CallSound
<1>1. /\ pc = "fixate" /\ pc' = pc /\ deferred = NoPath /\ deferred' = deferred
      /\ call.fix \in Here /\ call.fix \notin call.paths /\ Here = call.paths \cup {call.fix}
      /\ call.why \in Reads \cup {"protect", "work"}
      /\ UNCHANGED <<sys, slotMarked, cp, stable, nextKs, nextKey, newKey, deferred, work, secured, retired>>
  BY DEF FixateDestroy, CallDirs, CallShape, ListsValid, device, memory
<1> PICK p \in Dirs : p = Max(call.paths) /\ p \in call.paths
  BY MaxPaths DEF Typed, FixateDestroy
<1>2. /\ destroyKey(p) /\ call' = [call EXCEPT !.paths = call.paths \ {p}]
      /\ risk' = IF cp /\ view[p].auth = "empty" /\ call.why \in Reads THEN risk \cup {"early"} ELSE risk
  BY DEF FixateDestroy
<1>3. /\ view' \in [Dirs -> KeyDir] /\ ks' \in SUBSET Blob /\ pending' \in SUBSET Dirs
      /\ view'[p] = NoDir /\ \A q \in Dirs : q # p => view'[q] = view[q]
      /\ \A q \in Dirs : q # p /\ view[q].blob \in ks => view[q].blob \in ks'
      /\ \A q \in Dirs : q # p /\ view[q].up \in ks => view[q].up \in ks'
      /\ pending' = pending \ {p}
      /\ Here' = Here \ {p}
  BY <1>2, DestroyKeyFacts
<1> PICK f \in Dirs : f = call.fix
  BY DEF Typed
<1>4. f # p /\ p \in Here /\ f \in Here /\ view[p].auth # "none" /\ view[f].auth # "none" /\ view[f].key = view[p].key
  BY <1>1 DEF Here, Exists, KeysHeld, KeystoreSound, DirsFormed
<1>5. KeysHeld' /\ KeepsKeys
  <2>1. ks' = ks \ {view[p].blob, view[p].up} /\ (risk' = {} => risk = {})
    BY <1>2 DEF destroyKey
  <2>2. CASE view[p].auth = "secret"
    <3>1. \A v \in BootSystems : Good(stable, view[p].key, v) => Readable(view[f], v)
      <4> SUFFICES ASSUME NEW v \in BootSystems, Good(stable, view[p].key, v), view[f].auth # "secret"
                   PROVE  Readable(view[f], v)
        BY DEF Readable
      <4>1. view[f].auth = "empty"
        BY <1>4 DEF Typed, KeyDir
      <4>2. view[f].blob \in ks
        BY <1>1, <4>1 DEF FixGood
      <4>3. view[f].blob.ver <= sys /\ view[f].blob.ver \in Nat /\ sys \in Nat
        BY DEF KeysHeld, KeystoreSound, DirsFormed, Typed, KeyDir, Blob
      <4>4. CASE slotMarked
        BY <4>1, <4>2, <4>3, <4>4 DEF BootSystems, Readable
      <4>5. CASE ~slotMarked
        <5>1. cp /\ \A q \in Dirs : stable[q].blob.ver < sys
          BY <4>5 DEF KeysHeld, SlotSound
        <5>2. \E q \in Dirs : stable[q].key = view[f].key
          BY <1>4 DEF Good
        <5>3. \E q \in Dirs : stable[q].blob = view[f].blob
          BY <4>1, <5>1, <5>2 DEF KeysHeld, SlotSound
        <5>4. view[f].blob.ver <= sys - 1
          BY <4>3, <5>1, <5>3
        <5>5. v = sys \/ v = sys - 1
          BY DEF BootSystems
        <5> QED BY <4>1, <4>2, <4>3, <5>4, <5>5 DEF Readable
      <4> QED BY <4>4, <4>5
    <3> QED BY <1>1, <1>3, <1>4, <2>1, <2>2, <3>1, DirDestroyed
  <2>3. CASE view[p].auth = "empty"
    <3>1. view[f].auth = "secret"
      BY <1>4, <2>3 DEF KeysHeld, KeystoreSound, DirsFormed, Typed, KeyDir
    <3>2. risk' = {} => \E q \in Dirs : stable[q].key = view[p].key /\ stable[q].auth = "secret"
      <4>1. risk' = {} => risk = {} /\ ~cp
        BY <1>1, <1>2, <2>3 DEF CallShape
      <4> QED BY <1>1, <1>4, <3>1, <4>1 DEF SecretStable
    <3> QED BY <1>1, <1>3, <1>4, <2>1, <3>1, <3>2, DirDestroyed
  <2> QED BY <1>4, <2>2, <2>3 DEF Typed, KeyDir
<1>6. /\ call'.why = call.why /\ call'.auth = call.auth /\ call'.fix = f /\ call'.key = call.key
      /\ call'.paths = call.paths \ {p} /\ call' \in CallType(nextKey)
  BY <1>2 DEF Typed, CallType
<1>7. Typed'
  BY <1>1, <1>3, <1>6 DEF Typed, CallType
<1>8. /\ NoDir.auth = "none" /\ NoDir.key = 0
      /\ \A q \in Dirs : view'[q].auth # "none" => q # p /\ view'[q] = view[q]
  BY <1>3 DEF NoDir
<1>9. SecretStable'
  <2>1. risk' = {} => risk = {}
    BY <1>2
  <2> QED BY <1>1, <1>8, <2>1 DEF SecretStable
<1>10. CallShape'
  BY <1>1, <1>6 DEF CallShape
<1>11. CallDirs'
  BY <1>1, <1>3, <1>4, <1>6 DEF CallDirs, Reading
<1>12. FixGood' /\ FixSecret'
  BY <1>1, <1>3, <1>4, <1>6 DEF FixGood, FixSecret
<1>13. CallKey'
  <2>1. \A q \in Here' : q \in Here /\ view'[q] = view[q]
    BY <1>3 DEF Here, Dirs
  <2>2. view'[DE].key = view[DE].key \/ view'[DE].key = 0
    BY <1>3, <1>8 DEF Dirs
  <2> QED BY <1>1, <1>6, <2>1, <2>2 DEF CallKey
<1>14. ListsValid'
  BY <1>1, <1>3, <1>6 DEF ListsValid, InWork, Upgraded, Typed
<1>15. SecuredRight'
  BY <1>1, <1>6 DEF SecuredRight
<1> QED BY <1>5, <1>7, <1>9, <1>10, <1>11, <1>12, <1>13, <1>14, <1>15

\* The key in s_new_ce_keys has been generated.
LEMMA NewKeyTyped == ASSUME Typed PROVE newKey \in 0..(nextKey - 1) /\ 0 \in 0..(nextKey - 1)
BY DEF Typed

\* Where fixate_user_ce_key returns to its caller.
LEMMA FixatedControl ==
  ASSUME Ind, pc \in {"fixate", "fixate sync"}, NEW ok \in BOOLEAN, Fixated(ok),
         UNCHANGED <<sys, cp, view, ks, nextKey, pending, deferred, work>>,
         NEW f \in Dirs, Here = {f},
         call.auth = "secret" \/ call.why \in {"protect", "work"} => view[f].auth = "secret"
  PROVE  /\ pc' \in {"idle", "store"} /\ CallSound'
         /\ call' \in CallType(nextKey) /\ newKey' \in 0..(nextKey - 1) /\ secured' \in BOOLEAN
<1> USE DEF Ind, CallSound
<1>0. newKey \in 0..(nextKey - 1) /\ 0 \in 0..(nextKey - 1)
  BY Zenon, NewKeyTyped
<1>1. call.why \in Reads \cup {"protect", "work"} /\ deferred = NoPath
  BY DEF CallShape, ListsValid
<1>2. Here' = Here
  BY DEF Here, Exists
<1>3. NoCall.why = "load" /\ NoCall.auth = "empty" /\ NoCall \in CallType(nextKey)
  BY NoCallTyped DEF NoCall, Typed
<1>4. ASSUME pc' = "idle", call' = NoCall, newKey' = newKey \/ newKey' = 0,
             secured' \in BOOLEAN, secured' => view[f].auth = "secret"
      PROVE  CallSound' /\ call' \in CallType(nextKey) /\ newKey' \in 0..(nextKey - 1)
  <2>1. CallShape' /\ CallDirs' /\ FixGood' /\ FixSecret'
    BY <1>3, <1>4 DEF CallShape, CallDirs, FixGood, FixSecret, Reading
  <2>2. CallKey'
    BY <1>2, <1>4 DEF CallKey
  <2>3. ListsValid'
    BY <1>1, <1>3, <1>4 DEF ListsValid, InWork, Upgraded, CallShape
  <2>4. SecuredRight'
    BY <1>2, <1>3, <1>4 DEF SecuredRight
  <2>5. newKey' \in 0..(nextKey - 1)
    BY Zenon, <1>0, <1>4
  <2> QED BY <1>3, <1>4, <2>1, <2>2, <2>3, <2>4, <2>5
<1>5. CASE call.why = "unlock"
  <2>1. pc' = "idle" /\ call' = NoCall /\ newKey' = newKey /\ (secured' <=> secured) /\ secured' \in BOOLEAN
    BY <1>5 DEF Fixated, Done, Typed
  <2>2. secured' => view[f].auth = "secret"
    BY <1>5, <2>1 DEF SecuredRight
  <2> QED BY <1>4, <2>1, <2>2
<1>6. CASE call.why = "reprotect"
  <2>1. pc' = "store" /\ call' = call /\ newKey' = newKey /\ (secured' <=> secured) /\ secured' \in BOOLEAN
    BY <1>6 DEF Fixated, Typed
  <2>2. ~secured
    BY <1>6 DEF SecuredRight
  <2>3. CallShape' /\ CallDirs' /\ FixGood' /\ FixSecret'
    BY <1>6, <2>1 DEF CallShape, CallDirs, FixGood, FixSecret, Reading, Reads
  <2>4. CallKey'
    BY <1>2, <1>6, <2>1 DEF CallKey
  <2>5. ListsValid'
    BY <1>1, <1>6, <2>1 DEF ListsValid, InWork, Upgraded
  <2>6. SecuredRight'
    BY <2>1, <2>2 DEF SecuredRight
  <2> QED BY <2>1, <2>3, <2>4, <2>5, <2>6 DEF Typed, CallType
<1>7. CASE call.why = "protect"
  <2>1. pc' = "idle" /\ call' = NoCall /\ newKey' = (IF ok THEN 0 ELSE newKey) /\ secured' = ok
    BY <1>7 DEF Fixated, Done
  <2>2. secured' \in BOOLEAN
    BY <2>1, Zenon
  <2> QED BY <1>4, <1>7, <2>1, <2>2
<1>8. CASE call.why \in {"check", "work"}
  <2>1. pc' = "idle" /\ call' = NoCall /\ newKey' = newKey /\ secured' = (secured \/ call.why = "check")
    BY <1>8 DEF Fixated, Done
  <2>2. secured' \in BOOLEAN
    BY <2>1, Zenon
  <2>3. view[f].auth = "secret"
    BY <1>8 DEF CallShape
  <2> QED BY <1>4, <2>1, <2>2, <2>3
<1> QED BY <1>1, <1>5, <1>6, <1>7, <1>8 DEF Reads

\* The fixation renames the kept directory to "current", which is then free.
LEMMA FixateRenameStep == ASSUME Ind, FixateRename PROVE Ind' /\ KeepsKeys
<1> USE DEF Ind, CallSound
<1>1. /\ pc = "fixate" /\ deferred = NoPath /\ call.paths = {} /\ Here = {call.fix}
      /\ call.fix \in Paths /\ view[call.fix].auth # "none"
      /\ call.why \in Reads \cup {"protect", "work"}
      /\ UNCHANGED <<sys, slotMarked, cp, stable, ks, nextKs, nextKey, deferred, work, risk, retired>>
  BY DEF FixateRename, CallDirs, CallShape, ListsValid, device, history, Here, Exists
<1> PICK f \in Dirs : f = call.fix
  BY DEF Typed
<1>2. /\ call.auth = "secret" \/ call.why \in {"protect", "work"} => view[f].auth = "secret"
      /\ secured => view[f].auth = "secret"
  BY <1>1 DEF FixSecret, SecuredRight, Reads
<1>3. SecretStable' \/ view' # view
  BY <1>1 DEF SecretStable
<1>4. ASSUME f = 0, pc' = "fixate sync", UNCHANGED <<view, pending, call, memory, secured>>
      PROVE  Ind' /\ KeepsKeys
  <2>1. newKey' = newKey /\ (secured' <=> secured) /\ secured' \in BOOLEAN /\ UNCHANGED <<view, pending, call>>
    BY <1>4 DEF memory, Typed
  <2>2. KeysHeld' /\ KeepsKeys
    BY <1>1, <2>1, Unmoved DEF Kernel, Grows, Typed
  <2>3. Typed'
    BY <1>1, <2>1 DEF Typed
  <2>4. Here' = Here
    BY <2>1 DEF Here, Exists
  <2>5. CallShape' /\ CallDirs'
    BY <1>1, <1>4, <2>1, <2>4 DEF CallShape, CallDirs, Reading
  <2>6. FixGood' /\ FixSecret'
    BY <1>1, <1>2, <1>4, <2>1 DEF FixGood, FixSecret
  <2>7. CallKey'
    BY <1>1, <1>4, <2>1, <2>4 DEF CallKey
  <2>8. ListsValid'
    BY <1>1, <1>4, <2>1 DEF ListsValid, InWork, Upgraded
  <2>9. SecuredRight'
    BY <1>1, <1>2, <1>4, <2>1, <2>4 DEF SecuredRight
  <2> QED BY <1>3, <2>1, <2>2, <2>3, <2>5, <2>6, <2>7, <2>8, <2>9
<1>5. ASSUME Fixated(TRUE), UNCHANGED <<view, pending, ephemeral>>
      PROVE  Ind' /\ KeepsKeys
  <2>1. KeysHeld' /\ KeepsKeys
    BY <1>1, <1>5, Unmoved DEF Kernel, Grows, Typed
  <2>2. /\ CallSound'
        /\ call' \in CallType(nextKey) /\ newKey' \in 0..(nextKey - 1) /\ secured' \in BOOLEAN
    BY <1>1, <1>2, <1>5, FixatedControl
  <2>3. Typed'
    BY <1>1, <1>5, <2>2 DEF Typed, CallType
  <2> QED BY <1>3, <1>5, <2>1, <2>2, <2>3
<1>6. ASSUME f # 0, view[0] = NoDir, RenameKeyDir(f, 0), pc' = "fixate sync",
             UNCHANGED <<call, memory, secured>>
      PROVE  Ind' /\ KeepsKeys
  <2>1. newKey' = newKey /\ (secured' <=> secured) /\ secured' \in BOOLEAN /\ UNCHANGED call
    BY <1>6 DEF memory, Typed
  <2>2. f \in Paths /\ 0 \in Paths /\ Paths \subseteq Dirs /\ DE \notin Paths /\ DE \in Dirs
    BY <1>1, UserKeysAssumption DEF Dirs, Paths, DE
  <2>3. /\ view'[0] = view[f] /\ view'[f] = NoDir /\ \A q \in Dirs \ {0, f} : view'[q] = view[q]
        /\ view' \in [Dirs -> KeyDir]
    BY <1>6, <2>2 DEF RenameKeyDir, Typed, KeyDir, NoDir, NoBlob, Blob
  <2>4. KeysHeld' /\ KeepsKeys
    BY <1>1, <1>6, <2>2, <2>3, DirRenamed
  <2>5. /\ 0 \notin pending
        /\ pending' = IF f \in pending THEN (pending \ {f}) \cup {0} ELSE pending
        /\ pending' \subseteq Dirs
    <3>5. NoDir.auth = "none"
      BY DEF NoDir
    <3>0. view[0].auth = "none"
      BY <1>6, <3>5
    <3>1. ~InWork /\ view[0].auth = "none"
      BY <1>1, <3>0 DEF InWork
    <3>2. 0 \notin pending
      BY <3>1 DEF ListsValid, Upgraded
    <3>3. pending' = IF f \in pending THEN (pending \ {f}) \cup {0} ELSE pending
      BY <1>6 DEF RenameKeyDir, RenamePending
    <3>4. pending \subseteq Dirs
      BY DEF Typed
    <3> QED BY <2>2, <3>2, <3>3, <3>4
  <2>6. Typed'
    BY <1>1, <2>1, <2>3, <2>5 DEF Typed
  <2>7. Here' = {0} /\ NoDir.auth = "none"
    <3>1. NoDir.auth = "none"
      BY DEF NoDir
    <3>2. \A q \in Paths : view'[q].auth # "none" <=> q = 0
      BY <1>1, <2>2, <2>3, <3>1 DEF Here, Exists
    <3> QED BY <2>2, <3>1, <3>2 DEF Here, Exists
  <2>8. SecretStable'
    <3>1. \A q \in Dirs : view'[q].auth = "secret" =>
            \E r \in Dirs : view[r].auth = "secret" /\ view[r].key = view'[q].key
      BY <2>2, <2>3, <2>7
    <3>2. risk = {} /\ ~cp => \A r \in Dirs : view[r].auth = "secret" =>
            \E s \in Dirs : stable[s].auth = "secret" /\ stable[s].key = view[r].key
      BY <1>1 DEF SecretStable
    <3>3. risk = {} /\ ~cp => \A q \in Dirs : view'[q].auth = "secret" =>
            \E s \in Dirs : stable[s].auth = "secret" /\ stable[s].key = view'[q].key
      BY <3>1, <3>2
    <3> QED BY <1>1, <3>3 DEF SecretStable
  <2>9. CallShape' /\ CallDirs'
    BY <1>1, <1>6, <2>1, <2>7 DEF CallShape, CallDirs, Reading
  <2>10. FixGood' /\ FixSecret'
    BY <1>2, <1>6, <2>1, <2>3 DEF FixGood, FixSecret
  <2>11. CallKey'
    <3>1. view'[DE] = view[DE]
      BY <2>2, <2>3
    <3> QED BY <1>1, <1>6, <2>1, <2>3, <2>7, <3>1 DEF CallKey
  <2>12. ListsValid'
    <3>1. ~InWork /\ ~InWork'
      BY <1>1, <1>6 DEF InWork
    <3>2. \A q \in pending : Upgraded(q)
      BY <3>1 DEF ListsValid
    <3>3. \A q \in pending' : Upgraded(q)'
      <4> SUFFICES ASSUME NEW q \in pending' PROVE Upgraded(q)'
        OBVIOUS
      <4>1. CASE q = 0
        BY <1>1, <2>3, <2>5, <3>2, <4>1 DEF Upgraded
      <4>2. CASE q # 0
        <5>1. q \in pending /\ q # f /\ q \in Dirs
          BY <2>5, <4>2
        <5> QED BY <1>1, <2>3, <3>2, <4>2, <5>1 DEF Upgraded
      <4> QED BY <4>1, <4>2
    <3> QED BY <1>1, <3>1, <3>3 DEF ListsValid
  <2>13. SecuredRight'
    BY <1>1, <1>2, <1>6, <2>1, <2>3, <2>7 DEF SecuredRight
  <2> QED BY <2>4, <2>6, <2>8, <2>9, <2>10, <2>11, <2>12, <2>13
<1>7. view[f] # NoDir /\ (f # 0 => view[0] = NoDir)
  <2>1. 0 \in Paths /\ DirsFormed(view)
    BY UserKeysAssumption DEF Paths, KeysHeld, KeystoreSound
  <2> QED BY <1>1, <2>1 DEF NoDir, Here, Exists, DirsFormed, Dirs
<1> QED BY <1>4, <1>5, <1>6, <1>7 DEF FixateRename

\* The fixation ends with the fsync.
LEMMA FixateSyncStep == ASSUME Ind, FixateSync PROVE Ind' /\ KeepsKeys
<1> USE DEF Ind, CallSound
<1>8. pc = "fixate sync"
  BY Zenon DEF FixateSync
<1>9. Here = {0}
  BY <1>8 DEF CallDirs
<1>10. 0 \in Dirs
  BY UserKeysAssumption DEF Dirs, Paths
<1>1. UNCHANGED <<sys, slotMarked, cp, view, ks, nextKs, nextKey, pending, deferred, work, risk, retired>>
  BY DEF FixateSync, device, history
<1>7. stable' = stable \/ (~cp /\ stable' = view)
  BY DEF FixateSync, SyncAll
<1>2. KeysHeld' /\ KeepsKeys
  <2>1. CASE stable' = stable
    BY <1>1, <2>1, Unmoved DEF Kernel, Grows, Typed
  <2>2. CASE ~cp /\ stable' = view
    BY <1>1, <2>2, AllSynced, OneSystem DEF KeysHeld
  <2> QED BY <1>7, <2>1, <2>2
<1>3. \E ok \in BOOLEAN : Fixated(ok)
  BY DEF FixateSync
<1>4. /\ CallSound' /\ pc' \in {"idle", "store"}
      /\ call' \in CallType(nextKey) /\ newKey' \in 0..(nextKey - 1) /\ secured' \in BOOLEAN
  <2>1. call.auth = "secret" \/ call.why \in {"protect", "work"} => view[0].auth = "secret"
    BY <1>8 DEF FixSecret
  <2> QED BY Zenon, <1>1, <1>3, <1>8, <1>9, <1>10, <2>1, FixatedControl
<1>5. Typed'
  BY <1>1, <1>4, <1>7 DEF Typed, CallType
<1>6. SecretStable'
  BY <1>1, <1>7, <1>8 DEF SecretStable
<1> QED BY <1>2, <1>4, <1>5, <1>6

\* The call returns and leaves the directories alone.
LEMMA DoneControl ==
  ASSUME Ind, Done, UNCHANGED <<sys, cp, view, ks, nextKey, newKey, pending, deferred, work, secured>>,
         ~InWork, secured /\ deferred = NoPath => \A p \in Here : view[p].auth = "secret"
  PROVE  CallSound' /\ call' \in CallType(nextKey) /\ pc' = "idle"
<1> USE DEF Ind, CallSound
<1>1. pc' = "idle" /\ call' = NoCall /\ call'.why = "load" /\ call'.auth = "empty"
  BY DEF Done, NoCall
<1>2. call' \in CallType(nextKey)
  BY <1>1, NoCallTyped DEF Typed
<1>3. Here' = Here
  BY DEF Here, Exists
<1>4. CallShape' /\ CallDirs' /\ FixGood' /\ FixSecret' /\ CallKey'
  BY <1>1, <1>3 DEF CallShape, CallDirs, FixGood, FixSecret, CallKey, Reading
<1>5. ListsValid'
  BY <1>1 DEF ListsValid, InWork, Upgraded
<1>6. SecuredRight'
  BY <1>1, <1>3 DEF SecuredRight
<1> QED BY <1>1, <1>2, <1>4, <1>5, <1>6

\* A new directory, under a name that is not taken.
LEMMA StoreKeyStep == ASSUME Ind, StoreKey PROVE Ind' /\ KeepsKeys
<1> USE DEF Ind, CallSound
<1>1. /\ pc = "store" /\ call.why = "reprotect" /\ ~secured
      /\ UNCHANGED <<sys, slotMarked, cp, stable, ks, nextKs, nextKey, newKey, pending, deferred, work,
                     secured, risk, retired>>
  BY DEF StoreKey, CallShape, SecuredRight, device, memory, history
<1>2. CASE Done /\ UNCHANGED view
  <2>1. KeysHeld' /\ KeepsKeys
    BY <1>1, <1>2, Unmoved DEF Kernel, Grows, Typed
  <2>2. CallSound' /\ call' \in CallType(nextKey) /\ pc' = "idle"
    BY <1>1, <1>2, DoneControl DEF InWork
  <2>3. Typed'
    BY <1>1, <1>2, <2>2 DEF Typed, CallType
  <2>4. SecretStable'
    BY <1>1, <1>2 DEF SecretStable
  <2> QED BY <2>1, <2>2, <2>3, <2>4
<1>3. ASSUME get_ce_key_new_path <= MaxPath,
             view' = [view EXCEPT ![get_ce_key_new_path] =
                        [NoDir EXCEPT !.auth = "secret", !.key = call.key]],
             call' = [call EXCEPT !.fix = get_ce_key_new_path, !.paths = get_ce_key_paths],
             pc' = "store sync"
      PROVE  Ind' /\ KeepsKeys
  <2>1. get_ce_key_paths = Here /\ get_ce_key_new_path \in Paths \ Here
    BY <1>3, PathsFound, NewPath DEF KeysHeld, KeystoreSound
  <2> PICK n \in Paths \ Here : n = get_ce_key_new_path
    BY <2>1
  <2>2. n \in Dirs /\ Paths \subseteq Dirs /\ Here \subseteq Paths /\ n # DE /\ DE \in Dirs
    BY UserKeysAssumption DEF Dirs, Here, DE, Paths
  <2> PICK new : new = [NoDir EXCEPT !.auth = "secret", !.key = call.key]
    OBVIOUS
  <2>3. new.auth = "secret" /\ new.key = call.key /\ new.blob = NoBlob /\ new.up = NoBlob
    BY DEF NoDir
  <2>4. /\ view'[n] = new
        /\ \A q \in Dirs \ {n} : view'[q] = view[q]
        /\ call'.fix = n /\ call'.paths = Here /\ call'.why = "reprotect" /\ call'.auth = call.auth
        /\ call'.key = call.key
    BY <1>1, <1>3, <2>1, <2>2, <2>3 DEF Typed
  <2>5. /\ call.key # view[DE].key /\ call.key \in 1..(nextKey - 1)
        /\ \A p \in Here : view[p].key = call.key
        /\ newKey # 0 => newKey = call.key
    BY <1>1 DEF CallKey, Typed
  <2>6. KeysHeld' /\ KeepsKeys
    <3>1. /\ view'[n].auth = "secret" /\ view'[n].key = call.key /\ view'[n].blob = NoBlob
          /\ view'[n].up = NoBlob /\ \A q \in Dirs \ {n} : view'[q] = view[q]
      BY <2>3, <2>4
    <3>2. UNCHANGED <<sys, slotMarked, cp, stable, ks, nextKs, nextKey, risk, retired>>
      BY <1>1
    <3> HIDE DEF Ind
    <3>3. Typed /\ KeysHeld
      BY DEF Ind
    <3> QED BY <2>5, <3>1, <3>2, <3>3, DirStored
  <2>7. Typed'
    <3>0. NoDir \in KeyDir
      BY DEF NoDir, KeyDir, Blob, NoBlob
    <3>1. new \in KeyDir
      <4>1. call.key \in Nat
        BY DEF Typed
      <4>2. new = [auth |-> "secret", key |-> call.key, blob |-> NoDir.blob, up |-> NoDir.up]
        BY <3>0 DEF KeyDir
      <4> QED BY <3>0, <4>1, <4>2 DEF KeyDir
    <3>2. view' \in [Dirs -> KeyDir]
      BY <1>3, <2>2, <3>1 DEF Typed
    <3>3. call' \in CallType(nextKey)
      BY <1>3, <2>1, <2>2 DEF Typed, CallType
    <3> QED BY <1>1, <3>2, <3>3 DEF Typed, CallType
  <2>8. /\ view'[n].auth = "secret" /\ view'[n].key = call.key
        /\ view[n].auth = "none" /\ n \notin Here
    BY <2>3, <2>4 DEF Here, Exists
  <2>9. Here' = Here \cup {n}
    BY <2>2, <2>4, <2>8 DEF Here, Exists
  <2>10. SecretStable' /\ CallShape'
    BY <1>1, <1>3, <2>4 DEF SecretStable, CallShape
  <2>11. CallDirs'
    <3>1. call'.fix \in Here' /\ call'.fix \notin call'.paths /\ Here' = call'.paths \cup {call'.fix}
      BY <2>4, <2>8, <2>9
    <3> QED BY <1>3, <3>1 DEF CallDirs, Reading
  <2>12. FixGood' /\ FixSecret'
    BY <1>3, <2>4, <2>8 DEF FixGood, FixSecret
  <2>13. CallKey'
    <3>1. view'[DE] = view[DE] /\ \A p \in Here : view'[p] = view[p]
      BY <2>2, <2>4
    <3> QED BY <1>1, <1>3, <2>5, <2>8, <2>9, <3>1 DEF CallKey
  <2>14. ListsValid'
    <3>1. ~InWork /\ ~InWork'
      BY <1>1, <1>3 DEF InWork
    <3>2. \A p \in pending : Upgraded(p)'
      BY <1>1, <2>4, <2>8, <3>1 DEF ListsValid, Upgraded, Typed
    <3>3. deferred # NoPath => deferred \in Dirs /\ deferred # n
      BY <2>2, <2>8 DEF ListsValid, Typed
    <3> QED BY <1>1, <1>3, <2>4, <3>1, <3>2, <3>3 DEF ListsValid
  <2>15. SecuredRight'
    BY <1>1 DEF SecuredRight
  <2> QED BY <2>6, <2>7, <2>10, <2>11, <2>12, <2>13, <2>14, <2>15
<1> QED BY <1>2, <1>3 DEF StoreKey

\* The fsync of the new directory, or its failure.
LEMMA StoreSyncStep == ASSUME Ind, StoreSync PROVE Ind' /\ KeepsKeys
<1> USE DEF Ind, CallSound
<1>6. /\ UNCHANGED <<sys, slotMarked, cp, view, ks, nextKs, nextKey, retired>>
      /\ risk' = {} => risk = {}
  BY DEF StoreSync, device
<1>1. /\ pc = "store sync" /\ call.why = "reprotect" /\ ~secured
      /\ UNCHANGED <<sys, slotMarked, cp, view, ks, nextKs, nextKey, newKey, pending, deferred, work,
                     secured, retired>>
  BY DEF StoreSync, CallShape, SecuredRight, device, memory
<1>2. stable' = stable \/ (~cp /\ stable' = view)
  BY DEF StoreSync, SyncAll
<1>3. KeysHeld' /\ KeepsKeys
  <2>1. CASE stable' = stable
    BY <1>6, <2>1, Unmoved DEF Kernel, Grows, Typed
  <2>2. CASE ~cp /\ stable' = view
    BY <1>6, <2>2, AllSynced, OneSystem DEF KeysHeld
  <2> QED BY <1>2, <2>1, <2>2
<1>4. CASE pc' = "decide" /\ UNCHANGED call /\ stable' = SyncAll
  <2>1. Typed'
    BY <1>1, <1>2, <1>4 DEF Typed
  <2>2. SecretStable'
    BY <1>1, <1>4 DEF SecretStable, SyncAll
  <2>3. CallShape' /\ CallDirs' /\ FixGood' /\ FixSecret'
    BY <1>1, <1>4 DEF CallShape, CallDirs, FixGood, FixSecret, Reading, Here, Exists
  <2>4. CallKey' /\ ListsValid' /\ SecuredRight'
    BY <1>1, <1>4 DEF CallKey, ListsValid, SecuredRight, InWork, Upgraded, Here, Exists
  <2> QED BY <1>3, <2>1, <2>2, <2>3, <2>4
<1>5. CASE Done /\ risk' = risk \cup {"unsynced"}
  <2>1. CallSound' /\ call' \in CallType(nextKey) /\ pc' = "idle"
    BY <1>1, <1>5, DoneControl DEF InWork
  <2>2. Typed'
    BY <1>1, <1>2, <2>1 DEF Typed, CallType
  <2>3. SecretStable'
    BY <1>5 DEF SecretStable
  <2> QED BY <1>3, <2>1, <2>2, <2>3
<1> QED BY <1>4, <1>5 DEF StoreSync

\* The fixation is deferred under a checkpoint.
LEMMA DecideStep == ASSUME Ind, Decide PROVE Ind' /\ KeepsKeys
<1> USE DEF Ind, CallSound
<1>1. /\ pc = "decide" /\ call.why = "reprotect" /\ ~secured
      /\ call.fix \in Here /\ call.fix \notin call.paths /\ Here = call.paths \cup {call.fix}
      /\ view[call.fix].auth = "secret"
      /\ UNCHANGED <<sys, slotMarked, cp, view, stable, ks, nextKs, nextKey, pending, work, risk, retired>>
  BY DEF Decide, CallShape, CallDirs, FixSecret, SecuredRight, device, history
<1>2. KeysHeld' /\ KeepsKeys
  BY <1>1, Unmoved DEF Kernel, Grows, Typed
<1>3. Here' = Here /\ call.fix \in Paths /\ call.fix # NoPath
  BY <1>1 DEF Here, Exists, Paths, NoPath
<1>4. SecretStable'
  BY <1>1 DEF SecretStable
<1>5. CASE deferred' = call.fix /\ newKey' = 0 /\ secured' = TRUE /\ Done
  <2>1. pc' = "idle" /\ call' = NoCall /\ call'.why = "load" /\ call'.auth = "empty" /\ NoCall \in CallType(nextKey)
    BY <1>5, NoCallTyped DEF Done, NoCall, Typed
  <2>2. secured' \in BOOLEAN
    BY <1>5, Zenon
  <2>3. newKey' \in 0..(nextKey - 1) /\ deferred' \in Paths
    BY <1>3, <1>5, NewKeyTyped
  <2>4. Typed'
    BY <1>1, <2>1, <2>2, <2>3 DEF Typed, CallType
  <2>5. CallShape' /\ CallDirs' /\ FixGood' /\ FixSecret'
    BY <1>1, <2>1 DEF CallShape, CallDirs, FixGood, FixSecret, Reading
  <2>6. CallKey'
    BY <1>5, <2>1 DEF CallKey
  <2>7. ListsValid'
    BY <1>1, <1>5, <2>1 DEF ListsValid, InWork, Upgraded
  <2>8. SecuredRight'
    BY <1>3, <1>5, <2>1 DEF SecuredRight
  <2> QED BY <1>2, <1>4, <2>4, <2>5, <2>6, <2>7, <2>8
<1>6. ASSUME ~cp, deferred' = NoPath, pc' = "fixate",
             call' = [call EXCEPT !.why = "protect", !.sync = call.paths # {}],
             UNCHANGED <<newKey, secured>>
      PROVE  Ind' /\ KeepsKeys
  <2>1. /\ call'.why = "protect" /\ call'.auth = call.auth /\ call'.fix = call.fix
        /\ call'.paths = call.paths /\ call'.key = call.key
    BY <1>6 DEF Typed
  <2>2. (call.paths # {}) \in BOOLEAN
    BY Zenon
  <2>3. call' \in CallType(nextKey)
    BY <1>6, <2>2 DEF Typed, CallType
  <2>4. Typed'
    BY <1>1, <1>6, <2>3 DEF Typed, CallType
  <2>5. CallShape' /\ CallDirs'
    BY <1>1, <1>3, <1>6, <2>1 DEF CallShape, CallDirs, Reading
  <2>6. FixGood' /\ FixSecret'
    BY <1>1, <1>6, <2>1 DEF FixGood, FixSecret
  <2>7. CallKey'
    BY <1>1, <1>3, <1>6, <2>1 DEF CallKey
  <2>8. ListsValid' /\ SecuredRight'
    BY <1>1, <1>6, <2>1 DEF ListsValid, InWork, Upgraded, SecuredRight
  <2> QED BY <1>2, <1>4, <2>4, <2>5, <2>6, <2>7, <2>8
<1> QED BY <1>5, <1>6 DEF Decide, FixateNow

\* fscrypt_vold_create_user_key.
LEMMA CreateStep ==
  ASSUME Ind, NEW eph \in BOOLEAN, fscrypt_vold_create_user_key(eph)
  PROVE  Ind' /\ KeepsKeys
<1> USE DEF Ind, CallSound
<1>1. /\ pc = "idle" /\ pc' = pc /\ nextKey' = nextKey + 2
      /\ \A d \in Dirs : view[d] = NoDir
      /\ UNCHANGED <<sys, slotMarked, cp, pending, deferred, work, call, risk, retired>>
      /\ (secured' <=> secured) /\ secured' \in BOOLEAN
  BY DEF fscrypt_vold_create_user_key, device, history, Typed
<1>2. nextKey \in Nat \ {0} /\ nextKey' \in Nat \ {0} /\ call' \in CallType(nextKey')
  BY <1>1 DEF Typed, CallType
<1>3. pending = {} /\ deferred = NoPath /\ Here = {} /\ ~InWork
  <2>1. \A d \in Dirs : view[d].auth = "none"
    BY <1>1 DEF NoDir
  <2> QED BY <1>1, <2>1 DEF ListsValid, InWork, Upgraded, Here, Exists, Typed, Dirs
<1>4. CASE UNCHANGED <<view, stable, ks, nextKs, newKey>>
  <2>1. KeysHeld' /\ KeepsKeys
    BY <1>1, <1>2, <1>4, Unmoved DEF Kernel, Grows, Typed
  <2>2. newKey' \in 0..(nextKey' - 1)
    BY <1>1, <1>4 DEF Typed
  <2>3. Typed'
    BY <1>1, <1>2, <1>4, <2>2 DEF Typed, CallType
  <2>4. SecretStable' /\ CallShape' /\ CallDirs' /\ FixGood' /\ FixSecret'
    BY <1>1, <1>4 DEF SecretStable, CallShape, CallDirs, FixGood, FixSecret, Reading
  <2>5. CallKey' /\ ListsValid' /\ SecuredRight'
    BY <1>1, <1>3, <1>4 DEF CallKey, ListsValid, SecuredRight, InWork, Here, Exists
  <2> QED BY <2>1, <2>3, <2>4, <2>5
<1>5. ASSUME ks' = ks \cup {[id |-> nextKs, ver |-> sys]},
             view' = [view EXCEPT ![DE] = [auth |-> "empty", key |-> nextKey,
                                           blob |-> [id |-> nextKs, ver |-> sys], up |-> NoBlob]],
             stable' = IF cp THEN stable ELSE view', nextKs' = nextKs + 1, newKey' = nextKey + 1
      PROVE  Ind' /\ KeepsKeys
  <2>1. /\ view'[DE] = [auth |-> "empty", key |-> nextKey,
                        blob |-> [id |-> nextKs, ver |-> sys], up |-> NoBlob]
        /\ \A q \in Dirs \ {DE} : view'[q] = NoDir
        /\ DE \in Dirs
    BY <1>1, <1>5 DEF Typed, Dirs
  <2>2. KeysHeld' /\ KeepsKeys
    <3>1. Typed /\ KeysHeld
      OBVIOUS
    <3>2. /\ UNCHANGED <<sys, slotMarked, cp, risk, retired>> /\ nextKey' = nextKey + 2
          /\ \A d \in Dirs : view[d] = NoDir
      BY <1>1
    <3> HIDE DEF Ind
    <3> QED BY <1>5, <2>1, <3>1, <3>2, UserCreated
  <2>3. Typed'
    <3>1. [id |-> nextKs, ver |-> sys] \in Blob /\ nextKs' \in Nat \ {0}
      BY <1>5 DEF Typed, Blob
    <3>2. [auth |-> "empty", key |-> nextKey, blob |-> [id |-> nextKs, ver |-> sys], up |-> NoBlob] \in KeyDir
      BY <1>2, <3>1 DEF KeyDir, Blob, NoBlob
    <3>3. view' \in [Dirs -> KeyDir]
      BY <1>5, <3>2 DEF Typed
    <3>4. stable' \in [Dirs -> KeyDir] /\ ks' \in SUBSET Blob /\ newKey' \in 0..(nextKey' - 1)
      BY <1>1, <1>2, <1>5, <3>1, <3>3 DEF Typed
    <3> QED BY <1>1, <1>2, <3>1, <3>3, <3>4 DEF Typed, CallType
  <2>4. SecretStable'
    BY <1>1, <1>5 DEF SecretStable
  <2>5. CallShape' /\ CallDirs' /\ FixGood' /\ FixSecret'
    BY <1>1 DEF CallShape, CallDirs, FixGood, FixSecret, Reading
  <2>6. Here' = {}
    BY <2>1, UserKeysAssumption DEF Here, Exists, NoDir, Dirs, DE, Paths
  <2>7. CallKey'
    BY <1>1, <1>2, <1>5, <2>1, <2>6 DEF CallKey
  <2>8. ListsValid' /\ SecuredRight'
    BY <1>1, <1>3, <2>6 DEF ListsValid, SecuredRight, InWork
  <2> QED BY <2>2, <2>3, <2>4, <2>5, <2>7, <2>8
<1> QED BY <1>4, <1>5 DEF fscrypt_vold_create_user_key

\* The slot is marked.
LEMMA CommitMarkStep == ASSUME Ind, CommitMark PROVE Ind' /\ KeepsKeys
<1> USE DEF Ind, CallSound
<1>1. /\ cp /\ slotMarked' /\ slotMarked' \in BOOLEAN
      /\ UNCHANGED <<sys, cp, view, stable, ks, nextKs, nextKey, newKey, pending, deferred,
                     work, pc, call, secured, risk, retired>>
  <2>1. slotMarked' \in BOOLEAN
    BY Zenon DEF CommitMark
  <2> QED BY <2>1 DEF CommitMark, memory, history
<1>2. KeysHeld' /\ KeepsKeys
  BY <1>1, SlotMarked
<1>3. Typed'
  BY <1>1 DEF Typed
<1>4. SecretStable' /\ CallShape' /\ CallDirs' /\ FixGood' /\ FixSecret'
  BY <1>1 DEF SecretStable, CallShape, CallDirs, FixGood, FixSecret, Reading, Here, Exists, Blobs
<1>5. CallKey' /\ ListsValid' /\ SecuredRight'
  BY <1>1 DEF CallKey, ListsValid, SecuredRight, InWork, Upgraded, Here, Exists
<1> QED BY <1>2, <1>3, <1>4, <1>5

\* What a call knows does not depend on what a reboot would bring back, as long as
\* that is what it sees.
LEMMA SyncedControl ==
  ASSUME Ind, stable' = view, ~cp',
         UNCHANGED <<sys, view, ks, newKey, pending, deferred, pc, call, retired>>,
         (secured' <=> secured)
  PROVE  CallSound' /\ SecretStable'
<1> USE DEF Ind, CallSound
<1>1. SecretStable'
  BY DEF SecretStable
<1>2. CallShape' /\ CallDirs' /\ FixSecret'
  BY DEF CallShape, CallDirs, FixSecret, Reading, Here, Exists
<1>3. FixGood'
  BY DEF FixGood, Blobs
<1>4. CallKey' /\ ListsValid' /\ SecuredRight'
  BY DEF CallKey, ListsValid, SecuredRight, InWork, Upgraded, Here, Exists
<1> QED BY <1>1, <1>2, <1>3, <1>4

\* The checkpoint is committed: the directories as they are become permanent.
LEMMA CommitStep == ASSUME Ind, Commit PROVE Ind' /\ KeepsKeys
<1> USE DEF Ind, CallSound
<1>1. /\ slotMarked /\ ~cp' /\ cp' \in BOOLEAN /\ stable' = view /\ work' \in {"started", "done"}
      /\ UNCHANGED <<sys, slotMarked, view, ks, nextKs, nextKey, newKey, pending, deferred,
                     pc, call, secured, risk, retired>>
  <2>1. cp' \in BOOLEAN
    BY Zenon DEF Commit
  <2> QED BY <2>1 DEF Commit, memory, history
<1>2. KeysHeld' /\ KeepsKeys
  BY <1>1, AllSynced
<1>3. Typed'
  BY <1>1 DEF Typed
<1>4. CallSound' /\ SecretStable'
  BY <1>1, SyncedControl
<1> QED BY <1>2, <1>3, <1>4

\* The file system writes back.
LEMMA WritebackStep == ASSUME Ind, Writeback PROVE Ind' /\ KeepsKeys
<1> USE DEF Ind, CallSound
<1>1. /\ ~cp /\ stable' = view
      /\ UNCHANGED <<sys, slotMarked, cp, view, ks, nextKs, nextKey, newKey, pending, deferred,
                     work, pc, call, secured, risk, retired>>
  BY DEF Writeback, device, memory, history
<1>2. slotMarked
  BY <1>1, OneSystem DEF KeysHeld
<1>3. KeysHeld' /\ KeepsKeys
  BY <1>1, <1>2, AllSynced
<1>4. Typed'
  BY <1>1 DEF Typed
<1>5. CallSound' /\ SecretStable'
  BY <1>1, SyncedControl
<1> QED BY <1>3, <1>4, <1>5

\* A crash, a rollback or an update.
LEMMA BootStep == ASSUME Ind, Crash \/ Update PROVE Ind' /\ KeepsKeys
<1> USE DEF Ind, CallSound
<1>1. /\ \E v, marked, checkpoint : Boot(v, marked, checkpoint)
      /\ \/ slotMarked /\ sys' = sys /\ slotMarked'
         \/ ~slotMarked /\ sys' = sys /\ ~slotMarked' /\ cp'
         \/ ~slotMarked /\ sys' = sys - 1 /\ slotMarked'
         \/ slotMarked /\ sys' = sys + 1 /\ ~slotMarked' /\ cp'
      /\ slotMarked' \in BOOLEAN /\ cp' \in BOOLEAN
  BY Zenon DEF Crash, Update, Boot
<1>2. /\ view' = stable /\ UNCHANGED <<stable, ks, nextKs, nextKey, risk, retired>>
      /\ newKey' = 0 /\ pending' = {} /\ deferred' = NoPath /\ work' = "none"
      /\ pc' \in {"idle", "retrieve"} /\ call' = NoCall /\ ~secured'
  BY <1>1, Zenon DEF Boot, history
<1>3. KeysHeld' /\ KeepsKeys /\ sys' \in Nat
  BY <1>1, <1>2, Rebooted
<1>4. NoCall.why = "load" /\ NoCall.auth = "empty" /\ NoCall.fix = DE /\ NoCall \in CallType(nextKey)
  BY NoCallTyped DEF NoCall, Typed
<1>5. secured' \in BOOLEAN
  BY <1>1, Zenon DEF Boot
<1>6. Typed'
  BY <1>1, <1>2, <1>3, <1>4, <1>5 DEF Typed, CallType
<1>7. SecretStable'
  BY <1>2 DEF SecretStable
<1>8. CallShape' /\ CallDirs' /\ FixGood' /\ FixSecret' /\ CallKey'
  BY <1>2, <1>4 DEF CallShape, CallDirs, FixGood, FixSecret, CallKey, Reading, Reads
<1>9. ListsValid' /\ SecuredRight'
  BY <1>2, <1>4 DEF ListsValid, SecuredRight, InWork
<1> QED BY <1>3, <1>6, <1>7, <1>8, <1>9

\* SecretStable depends on the directories only through how they are bound.
LEMMA SecretKept ==
  ASSUME SecretStable, pc # "store sync", UNCHANGED <<cp, stable, risk>>,
         \A q \in Dirs : view'[q].auth = view[q].auth /\ view'[q].key = view[q].key
  PROVE  SecretStable'
<1>1. risk = {} /\ ~cp => \A q \in Dirs : view[q].auth = "secret" =>
        \E s \in Dirs : stable[s].auth = "secret" /\ stable[s].key = view[q].key
  BY DEF SecretStable
<1>2. risk = {} /\ ~cp => \A q \in Dirs : view'[q].auth = "secret" =>
        \E s \in Dirs : stable[s].auth = "secret" /\ stable[s].key = view'[q].key
  <2> SUFFICES ASSUME risk = {}, ~cp, NEW q \in Dirs, view'[q].auth = "secret"
               PROVE  \E s \in Dirs : stable[s].auth = "secret" /\ stable[s].key = view'[q].key
    OBVIOUS
  <2>1. view[q].auth = "secret" /\ view'[q].key = view[q].key
    OBVIOUS
  <2>2. PICK s \in Dirs : stable[s].auth = "secret" /\ stable[s].key = view[q].key
    BY <1>1, <2>1
  <2> QED BY <2>1, <2>2
<1> QED BY <1>2 DEF SecretStable

\* The directories look to a call as they did: at most leftovers are gone.
Looks ==
  /\ \A q \in Dirs : /\ view'[q].auth = view[q].auth /\ view'[q].key = view[q].key
                     /\ view'[q].blob = view[q].blob
                     /\ view[q].blob \in ks => view[q].blob \in ks'
  /\ \A q \in pending : view'[q] = view[q] /\ (view[q].up \in ks => view[q].up \in ks')
  /\ UNCHANGED <<sys, cp, nextKey, newKey, deferred, work, secured, retired>>

\* The same directories exist.
LEMMA LooksHere == ASSUME Looks PROVE Here' = Here /\ view'[DE].key = view[DE].key
BY DEF Looks, Here, Exists, Dirs

\* The directory is read.
LEMMA RetrievedControl ==
  ASSUME Ind, Looks, Reading, call.why # "work", NEW key \in 0..(nextKey - 1), Retrieved(key),
         pending' \subseteq Dirs, \A q \in pending' : q \in pending \/ Upgraded(q)',
         call.why # "load" => key = view[call.fix].key,
         view[call.fix].auth = "empty" => view[call.fix].blob \in ks',
         call.auth = "secret" => view[call.fix].auth = "secret"
  PROVE  CallSound' /\ call' \in CallType(nextKey) /\ pc' \in {"idle", "found"}
<1> USE DEF Ind, CallSound
<1>1. Here' = Here /\ view'[DE].key = view[DE].key
  BY LooksHere
<1>2. pc # "fixate" /\ ~InWork /\ call.why \in Reads \cup {"load"} /\ call.fix \in Dirs
  BY DEF Reading, InWork, CallShape, Typed
<1>3. \A q \in pending' : Upgraded(q)'
  <2>1. \A q \in pending : Upgraded(q)
    BY <1>2 DEF ListsValid
  <2>2. \A q \in pending : q \in Dirs /\ Upgraded(q)'
    BY <2>1 DEF Upgraded, Looks, Typed
  <2> QED BY <2>2
<1>4. deferred' # NoPath => view'[deferred].auth = "secret"
  BY DEF ListsValid, Looks, Typed, Dirs
<1>5. secured /\ deferred = NoPath => \A p \in Here' : view'[p].auth = "secret"
  BY <1>1, <1>2 DEF SecuredRight, Looks, Here, Dirs
<1>6. newKey' # 0 => newKey' # view'[DE].key /\ \A p \in Here' : view'[p].key = newKey'
  BY <1>1 DEF CallKey, Looks, Here, Dirs
<1>7. CASE call.why = "load"
  <2>1. pc' = "idle" /\ call' = NoCall /\ NoCall.why = "load" /\ NoCall.auth = "empty"
        /\ NoCall \in CallType(nextKey)
    BY <1>7, NoCallTyped DEF Retrieved, Done, NoCall, Typed
  <2>2. CallShape' /\ CallDirs' /\ FixGood' /\ FixSecret'
    BY <2>1 DEF CallShape, CallDirs, FixGood, FixSecret, Reading, Looks
  <2>3. CallKey'
    BY <1>6, <2>1 DEF CallKey
  <2>4. ListsValid'
    BY <1>3, <1>4, <2>1 DEF ListsValid, InWork, Looks
  <2>5. SecuredRight'
    BY <1>5, <2>1 DEF SecuredRight, Looks
  <2> QED BY <2>1, <2>2, <2>3, <2>4, <2>5
<1>8. CASE call.why # "load"
  <2>1. pc' = "found" /\ call' = [call EXCEPT !.key = key]
    BY <1>8 DEF Retrieved
  <2>2. /\ call'.why = call.why /\ call'.auth = call.auth /\ call'.fix = call.fix
        /\ call'.paths = call.paths /\ call'.key = key /\ call.why \in Reads
    BY <1>2, <1>8, <2>1 DEF Typed
  <2>3. call' \in CallType(nextKey)
    BY <2>1 DEF Typed, CallType
  <2>4. CallShape'
    BY <2>1, <2>2 DEF CallShape, Looks
  <2>5. CallDirs'
    BY <1>1, <2>1, <2>2 DEF CallDirs, Reading, Reads
  <2>6. FixGood' /\ FixSecret'
    <3>1. view'[call.fix].auth = view[call.fix].auth /\ view'[call.fix].blob = view[call.fix].blob
      BY <1>2 DEF Looks
    <3> QED BY <2>1, <2>2, <3>1 DEF FixGood, FixSecret, Reads
  <2>7. CallKey'
    <3>1. view'[call.fix].key = key
      BY <1>2, <1>8 DEF Looks
    <3> QED BY <1>6, <2>1, <2>2, <3>1 DEF CallKey
  <2>8. ListsValid'
    BY <1>3, <1>4, <2>1 DEF ListsValid, InWork, Looks
  <2>9. SecuredRight'
    BY <1>5, <2>1, <2>2 DEF SecuredRight, Looks
  <2> QED BY <2>1, <2>3, <2>4, <2>5, <2>6, <2>7, <2>8, <2>9
<1> QED BY <1>7, <1>8

\* The directory could not be read: the next one, the secret, or the end.
LEMMA NotRetrievedControl ==
  ASSUME Ind, Looks, Reading, call.why # "work", pending' = pending, NotRetrieved
  PROVE  CallSound' /\ call' \in CallType(nextKey) /\ pc' \in {"idle", "retrieve"}
<1> USE DEF Ind, CallSound
<1>1. Here' = Here /\ view'[DE].key = view[DE].key
  BY LooksHere
<1>2. pc # "fixate" /\ ~InWork /\ call.why \in Reads \cup {"load"} /\ call.fix \in Dirs
  BY DEF Reading, InWork, CallShape, Typed
<1>3. \A q \in pending' : Upgraded(q)'
  BY <1>2 DEF ListsValid, Upgraded, Looks, Typed
<1>4. deferred' # NoPath => view'[deferred].auth = "secret"
  BY DEF ListsValid, Looks, Typed, Dirs
<1>5. secured /\ deferred = NoPath => \A p \in Here' : view'[p].auth = "secret"
  BY <1>1, <1>2 DEF SecuredRight, Looks, Here, Dirs
<1>6. newKey' # 0 => newKey' # view'[DE].key /\ \A p \in Here' : view'[p].key = newKey'
  BY <1>1 DEF CallKey, Looks, Here, Dirs
<1>7. CASE Done
  <2>1. pc' = "idle" /\ call' = NoCall /\ NoCall.why = "load" /\ NoCall.auth = "empty"
        /\ NoCall \in CallType(nextKey)
    BY <1>7, NoCallTyped DEF Done, NoCall, Typed
  <2>2. CallShape' /\ CallDirs' /\ FixGood' /\ FixSecret'
    BY <2>1 DEF CallShape, CallDirs, FixGood, FixSecret, Reading, Looks
  <2>3. CallKey'
    BY <1>6, <2>1 DEF CallKey
  <2>4. ListsValid'
    BY <1>3, <1>4, <2>1 DEF ListsValid, InWork, Looks
  <2>5. SecuredRight'
    BY <1>5, <2>1 DEF SecuredRight, Looks
  <2> QED BY <2>1, <2>2, <2>3, <2>4, <2>5
<1>8. ASSUME pc' = "retrieve", call'.paths = call.paths, call'.fix \in call.paths,
             call' \in CallType(nextKey), call.why \in Reads, call'.why \in Reads,
             \/ call'.why = call.why /\ call'.auth = call.auth
             \/ call.why = "reprotect" /\ call'.why = "check" /\ call'.auth = "secret"
      PROVE  CallSound'
  <2>1. CallShape'
    BY <1>8 DEF CallShape, Looks, Reads
  <2>2. CallDirs'
    BY <1>1, <1>8 DEF CallDirs, Reading, Reads
  <2>3. FixGood' /\ FixSecret' /\ CallKey'
    BY <1>6, <1>8 DEF FixGood, FixSecret, CallKey
  <2>4. ListsValid'
    BY <1>3, <1>4, <1>8 DEF ListsValid, InWork, Looks
  <2>5. SecuredRight'
    BY <1>5, <1>8 DEF SecuredRight, Looks, Reads
  <2> QED BY <2>1, <2>2, <2>3, <2>4, <2>5
<1>9. ASSUME call.why # "load", {p \in call.paths : p < call.fix} # {}, pc' = "retrieve",
             call' = [call EXCEPT !.fix = Max({p \in call.paths : p < call.fix})]
      PROVE  CallSound' /\ call' \in CallType(nextKey)
  <2>1. {p \in call.paths : p < call.fix} \in SUBSET Dirs
    BY DEF Typed
  <2> PICK m \in call.paths : m = Max({p \in call.paths : p < call.fix})
    BY <1>9, <2>1, MaxPaths
  <2>2. m \in Dirs /\ call' = [call EXCEPT !.fix = m]
    BY <1>9 DEF Typed
  <2>3. /\ call'.why = call.why /\ call'.auth = call.auth /\ call'.fix = m
        /\ call'.paths = call.paths /\ call' \in CallType(nextKey)
    BY <2>2 DEF Typed, CallType
  <2> QED BY <1>2, <1>8, <1>9, <2>3
<1>10. ASSUME call.why = "reprotect", pc' = "retrieve",
              call' = [call EXCEPT !.why = "check", !.auth = "secret", !.fix = Max(call.paths)]
       PROVE  CallSound' /\ call' \in CallType(nextKey)
  <2>1. call.paths \in SUBSET Dirs /\ call.paths # {}
    BY <1>10 DEF Typed, CallDirs, Reads
  <2> PICK m \in call.paths : m = Max(call.paths)
    BY <2>1, MaxPaths
  <2>2. m \in Dirs /\ call' = [call EXCEPT !.why = "check", !.auth = "secret", !.fix = m]
    BY <1>10, <2>1
  <2>3. /\ call'.why = "check" /\ call'.auth = "secret" /\ call'.fix = m
        /\ call'.paths = call.paths /\ call' \in CallType(nextKey)
    BY <2>2 DEF Typed, CallType
  <2> QED BY <1>8, <1>10, <2>3 DEF Reads
<1>11. CASE pc' = "retrieve"
  BY <1>7, <1>9, <1>10, <1>11 DEF NotRetrieved, Done
<1> QED BY <1>7, <1>11 DEF NotRetrieved, Done

\* retrieveKey starts without the leftover of an upgrade that was never committed.
LEMMA LeftoverStep ==
  ASSUME Ind, NEW p \in Dirs, ~InWork,
         view' = WithoutLeftover(p), ks' = ks \ {DeleteUpgradedKey(p)},
         UNCHANGED <<sys, slotMarked, cp, stable, nextKs, nextKey, newKey, pending, deferred, work,
                     secured, risk, retired>>
  PROVE  /\ KeysHeld' /\ KeepsKeys /\ Looks
         /\ view' \in [Dirs -> KeyDir] /\ ks' \in SUBSET Blob
<1> USE DEF Ind, CallSound
<1>1. NoBlob \notin ks /\ view \in [Dirs -> KeyDir] /\ ks \in SUBSET Blob
  BY DEF KeysHeld, KeystoreSound, Typed
<1>2. CASE p \in pending
  <2>1. view' = view /\ ks' = ks
    BY <1>1, <1>2 DEF WithoutLeftover, DeleteUpgradedKey, IsKeyCommitPending, KeyDir
  <2>2. KeysHeld' /\ KeepsKeys
    BY <2>1, Unmoved DEF Kernel, Grows, Typed
  <2>3. Looks
    BY <2>1 DEF Looks
  <2> QED BY <1>1, <2>1, <2>2, <2>3
<1>3. CASE p \notin pending
  <2>1. view' = [view EXCEPT ![p].up = NoBlob] /\ ks' = ks \ {view[p].up}
    BY <1>3 DEF WithoutLeftover, DeleteUpgradedKey, IsKeyCommitPending
  <2>2. NoBlob \in Blob
    BY DEF NoBlob, Blob
  <2>3. KeysHeld' /\ KeepsKeys
    BY <2>1, <2>2, LeftoverGone
  <2>4. view' \in [Dirs -> KeyDir] /\ ks' \in SUBSET Blob
    BY <1>1, <2>1, <2>2 DEF KeyDir
  <2>5. /\ \A q \in Dirs : /\ view'[q].auth = view[q].auth /\ view'[q].key = view[q].key
                           /\ view'[q].blob = view[q].blob
        /\ \A q \in Dirs : q # p => view'[q] = view[q]
    BY <1>1, <2>1 DEF KeyDir
  <2>6. \A q \in Dirs : view[q].blob \in ks => view[q].blob \in ks'
    BY <1>1, <2>1 DEF KeysHeld, KeystoreSound, Ahead
  <2>7. ASSUME NEW q \in pending, view[q].up \in ks PROVE view[q].up \in ks'
    <3>1. q \in Dirs /\ q # p
      BY <1>3 DEF Typed
    <3>2. Blobs(view[q]) \cap Blobs(view[p]) = {}
      BY <3>1, OthersStay DEF KeysHeld
    <3> QED BY <1>1, <2>1, <2>7, <3>2 DEF Blobs
  <2>8. Looks
    BY <1>3, <2>5, <2>6, <2>7 DEF Looks, Typed
  <2> QED BY <2>3, <2>4, <2>8
<1> QED BY <1>2, <1>3

\* retrieveKey: only a leftover is deleted from Keystore.
LEMMA RetrieveStep == ASSUME Ind, retrieveKey PROVE Ind' /\ KeepsKeys
<1> USE DEF Ind, CallSound
<1>1. /\ pc = "retrieve" /\ call.why # "work" /\ Reading /\ ~InWork
      /\ UNCHANGED <<sys, slotMarked, cp, stable, nextKey, newKey, pending, deferred, work,
                     secured, risk, retired>>
  BY DEF retrieveKey, Reading, InWork, CallShape, Reads, device, memory, history
<1> PICK p \in Dirs : p = call.fix
  BY DEF Typed
<1>2. view[p] \in KeyDir /\ view[p].key \in 0..(nextKey - 1)
  BY DEF Typed, KeyDir, KeysHeld, KeystoreSound, DirsFormed
<1>3. ASSUME KeysHeld', KeepsKeys, CallSound', view' \in [Dirs -> KeyDir], ks' \in SUBSET Blob,
             nextKs' = nextKs, call' \in CallType(nextKey), pc' # "store sync", Looks
      PROVE  Ind' /\ KeepsKeys
  <2>1. Typed'
    BY <1>1, <1>3 DEF Typed, CallType
  <2>2. SecretStable'
    <3>1. \A q \in Dirs : view'[q].auth = view[q].auth /\ view'[q].key = view[q].key
      BY <1>3 DEF Looks
    <3>2. UNCHANGED <<cp, risk, stable>> /\ pc = "retrieve"
      BY <1>1
    <3> QED BY <3>1, <3>2, SecretKept
  <2> QED BY <1>3, <2>1, <2>2
<1>4. ASSUME view' = WithoutLeftover(p), ks' = ks \ {DeleteUpgradedKey(p)}, nextKs' = nextKs
      PROVE  KeysHeld' /\ KeepsKeys /\ Looks /\ view' \in [Dirs -> KeyDir] /\ ks' \in SUBSET Blob
  BY <1>1, <1>4, LeftoverStep
<1>5. ASSUME call.auth = "empty", RetrieveWithKeystore(p) PROVE Ind' /\ KeepsKeys
  <2>1. ASSUME Accepts(BlobOf(p)), view' = WithoutLeftover(p), ks' = ks \ {DeleteUpgradedKey(p)},
               Retrieved(view[p].key), nextKs' = nextKs
        PROVE  Ind' /\ KeepsKeys
    <3>1. KeysHeld' /\ KeepsKeys /\ Looks /\ view' \in [Dirs -> KeyDir] /\ ks' \in SUBSET Blob
      BY <1>4, <2>1
    <3>2. view[p].blob \in ks
      BY <1>1, <2>1 DEF Accepts, BlobOf, IsKeyCommitPending, ListsValid, Upgraded
    <3>3. view[p].blob \in ks' /\ pending' \subseteq Dirs
      BY <1>1, <3>1, <3>2 DEF Looks, Typed
    <3>4. CallSound' /\ call' \in CallType(nextKey) /\ pc' \in {"idle", "found"}
      BY <1>1, <1>2, <1>5, <2>1, <3>1, <3>3, RetrievedControl
    <3> QED BY <1>3, <2>1, <3>1, <3>4
  <2>2. ASSUME view' = WithoutLeftover(p), ks' = ks \ {DeleteUpgradedKey(p)}, NotRetrieved,
               nextKs' = nextKs
        PROVE  Ind' /\ KeepsKeys
    <3>1. KeysHeld' /\ KeepsKeys /\ Looks /\ view' \in [Dirs -> KeyDir] /\ ks' \in SUBSET Blob
      BY <1>4, <2>2
    <3>2. CallSound' /\ call' \in CallType(nextKey) /\ pc' \in {"idle", "retrieve"}
      BY <1>1, <2>2, <3>1, NotRetrievedControl
    <3> QED BY <1>3, <2>2, <3>1, <3>2
  <2>3. ASSUME NEW up, up = [id |-> nextKs, ver |-> sys],
               view[p].blob \in ks, p \notin pending, view' = [view EXCEPT ![p].up = up],
               ks' = (ks \ {view[p].up}) \cup {up}, nextKs' = nextKs + 1,
               pc' = "upgrade", call' = [call EXCEPT !.key = view[p].key]
        PROVE  Ind' /\ KeepsKeys
    <3>1. /\ NoBlob \notin ks /\ DirsFormed(view) /\ Ahead(view, view)
          /\ up \in Blob /\ up.ver = sys /\ nextKs' \in Nat \ {0}
      BY <2>3 DEF KeysHeld, KeystoreSound, Typed, Blob
    <3>2. view[p].auth = "empty"
      BY <1>2, <2>3, <3>1 DEF DirsFormed, NoDir, KeyDir
    <3>3. KeysHeld' /\ KeepsKeys
      BY <1>1, <2>3, <3>1, <3>2, LeftoverGone
    <3>4. view' \in [Dirs -> KeyDir] /\ ks' \in SUBSET Blob /\ view'[p].up = up
      BY <2>3, <3>1 DEF Typed, KeyDir
    <3>5. /\ \A q \in Dirs : /\ view'[q].auth = view[q].auth /\ view'[q].key = view[q].key
                             /\ view'[q].blob = view[q].blob
          /\ \A q \in Dirs : q # p => view'[q] = view[q]
      BY <2>3 DEF Typed, KeyDir
    <3>6. \A q \in Dirs : view[q].blob \in ks => view[q].blob \in ks'
      BY <2>3, <3>1 DEF Ahead
    <3>7. ASSUME NEW q \in pending, view[q].up \in ks PROVE view[q].up \in ks'
      <4>1. q \in Dirs /\ q # p
        BY <2>3 DEF Typed
      <4>2. Blobs(view[q]) \cap Blobs(view[p]) = {}
        BY <4>1, OthersStay DEF KeysHeld
      <4> QED BY <2>3, <3>1, <3>7, <4>2 DEF Blobs
    <3>8. Looks
      BY <1>1, <2>3, <3>5, <3>6, <3>7 DEF Looks, Typed
    <3>9. /\ call'.why = call.why /\ call'.auth = "empty" /\ call'.fix = p /\ call'.key = view[p].key
          /\ call'.paths = call.paths /\ call' \in CallType(nextKey)
      BY <1>2, <1>5, <2>3 DEF Typed, CallType
    <3>10. Here' = Here /\ view'[DE].key = view[DE].key
      BY <3>8, LooksHere
    <3>11. Typed'
      BY <1>1, <3>1, <3>4, <3>9 DEF Typed, CallType
    <3>12. SecretStable'
      BY <1>1, <2>3, <3>5 DEF SecretStable
    <3>13. CallShape'
      BY <1>1, <2>3, <3>9 DEF CallShape
    <3>14. CallDirs'
      BY <1>1, <2>3, <3>9, <3>10 DEF CallDirs, Reading
    <3>15. FixGood' /\ FixSecret'
      BY <1>1, <2>3, <3>1, <3>2, <3>4, <3>5, <3>6, <3>9 DEF FixGood, FixSecret
    <3>16. CallKey'
      <4>1. \A q \in Here : view'[q].key = view[q].key
        BY <3>5 DEF Here, Dirs
      <4> QED BY <1>1, <2>3, <3>5, <3>9, <3>10, <4>1 DEF CallKey
    <3>17. ListsValid'
      <4>1. \A q \in pending : Upgraded(q)'
        BY <1>1, <3>8 DEF ListsValid, Upgraded, Looks, Typed
      <4>2. deferred # NoPath => view'[deferred].auth = "secret"
        BY <3>5 DEF ListsValid, Typed, Dirs
      <4> QED BY <1>1, <2>3, <4>1, <4>2 DEF ListsValid, InWork
    <3>18. SecuredRight'
      <4>1. \A q \in Here : view'[q].auth = view[q].auth
        BY <3>5 DEF Here, Dirs
      <4> QED BY <1>1, <2>3, <3>9, <3>10, <4>1 DEF SecuredRight
    <3> QED BY <3>3, <3>11, <3>12, <3>13, <3>14, <3>15, <3>16, <3>17, <3>18
  <2>4. \A b, up : p \notin pending /\ Accepts(BlobOf(p)) => view[p].blob \in ks /\ DeleteUpgradedKey(p) = view[p].up
    BY DEF Accepts, BlobOf, IsKeyCommitPending, DeleteUpgradedKey
  <2> QED BY <1>5, <2>1, <2>2, <2>3, <2>4 DEF RetrieveWithKeystore, IsKeyCommitPending
<1>6. ASSUME call.auth = "secret", UNCHANGED <<view, ks, nextKs>>,
             IF view[p].auth = "secret" THEN Retrieved(view[p].key) ELSE NotRetrieved
      PROVE  Ind' /\ KeepsKeys
  <2>1. KeysHeld' /\ KeepsKeys
    BY <1>1, <1>6, Unmoved DEF Kernel, Grows, Typed
  <2>2. Looks /\ view' \in [Dirs -> KeyDir] /\ ks' \in SUBSET Blob /\ pending' \subseteq Dirs
    BY <1>1, <1>6 DEF Looks, Typed
  <2>3. CASE view[p].auth = "secret"
    <3>1. CallSound' /\ call' \in CallType(nextKey) /\ pc' \in {"idle", "found"}
      BY <1>1, <1>2, <1>6, <2>2, <2>3, RetrievedControl
    <3> QED BY <1>3, <1>6, <2>1, <2>2, <3>1
  <2>4. CASE view[p].auth # "secret"
    <3>1. CallSound' /\ call' \in CallType(nextKey) /\ pc' \in {"idle", "retrieve"}
      BY <1>1, <1>6, <2>2, <2>4, NotRetrievedControl
    <3> QED BY <1>3, <1>6, <2>1, <2>2, <3>1
  <2> QED BY <2>3, <2>4
<1> QED BY <1>5, <1>6 DEF retrieveKey

\* The directories after the upgraded blob took the place of the old one.
LEMMA PromotedView ==
  ASSUME view \in [Dirs -> KeyDir], NEW p \in Dirs,
         view' = [view EXCEPT ![p].blob = view[p].up, ![p].up = NoBlob]
  PROVE  /\ view'[p].auth = view[p].auth /\ view'[p].key = view[p].key
         /\ view'[p].blob = view[p].up /\ view'[p].up = NoBlob
         /\ \A q \in Dirs : q # p => view'[q] = view[q]
         /\ view' \in [Dirs -> KeyDir]
<1> DEFINE v == [view EXCEPT ![p].blob = view[p].up]
<1>1. v \in [Dirs -> KeyDir]
  BY DEF KeyDir
<1>2. /\ v[p].auth = view[p].auth /\ v[p].key = view[p].key /\ v[p].blob = view[p].up
      /\ \A q \in Dirs : q # p => v[q] = view[q]
  BY DEF KeyDir
<1>3. view' = [v EXCEPT ![p].up = NoBlob]
  OBVIOUS
<1> HIDE DEF v
<1>4. NoBlob \in Blob
  BY DEF NoBlob, Blob
<1>5. view' \in [Dirs -> KeyDir]
  BY <1>1, <1>3, <1>4 DEF KeyDir
<1>6. /\ view'[p].auth = v[p].auth /\ view'[p].key = v[p].key /\ view'[p].blob = v[p].blob
      /\ view'[p].up = NoBlob /\ \A q \in Dirs : q # p => view'[q] = v[q]
  BY <1>1, <1>3 DEF KeyDir
<1> QED BY <1>2, <1>5, <1>6

\* CommitUpgradedKey, in the read or in the deferred work: the new blob is in place.
LEMMA PromotedControl ==
  ASSUME Ind, NEW p \in Dirs, Upgraded(p), ~cp,
         UNCHANGED <<sys, slotMarked, cp, stable, ks, nextKs, nextKey, newKey, pending, deferred, work,
                     secured, risk, retired>>,
         view'[p].auth = view[p].auth, view'[p].key = view[p].key,
         view'[p].blob = view[p].up, view'[p].up = NoBlob,
         \A q \in Dirs : q # p => view'[q] = view[q],
         view' \in [Dirs -> KeyDir],
         pc # "store sync", pc # "fixate", pc' = "upgrade sync",
         call'.why = call.why, call'.auth = "empty", call'.fix = p, call'.old = view[p].blob,
         call'.key = call.key, call' \in CallType(nextKey),
         call.why \in Reads \cup {"load", "work"},
         call.why # "work" => p \notin pending /\ p = call.fix /\ call'.paths = call.paths /\ pc = "upgrade",
         call.why = "work" => call'.paths = call.paths \ {p} /\ InWork
  PROVE  Ind' /\ KeepsKeys
<1> USE DEF Ind, CallSound
<1>1. /\ view'[p].auth = view[p].auth /\ view'[p].key = view[p].key
      /\ view'[p].blob = view[p].up /\ view'[p].up = NoBlob
      /\ \A q \in Dirs : q # p => view'[q] = view[q]
  OBVIOUS
<1>2. KeysHeld' /\ KeepsKeys
  <2>1. Typed /\ KeysHeld
    OBVIOUS
  <2> HIDE DEF Ind
  <2> QED BY <1>1, <2>1, UpgradePromoted
<1>3. view[p].auth = "empty" /\ view[p].blob \in ks /\ view[p].up \in ks /\ view[p].up.ver = sys
  BY DEF Upgraded
<1>5. Typed'
  BY DEF Typed, CallType
<1>6. Here' = Here /\ \A q \in Dirs : view'[q].auth = view[q].auth /\ view'[q].key = view[q].key
  <2>1. \A q \in Dirs : view'[q].auth = view[q].auth /\ view'[q].key = view[q].key
    BY <1>1
  <2>2. \A q \in Paths : view'[q].auth = view[q].auth
    BY <2>1 DEF Dirs
  <2> QED BY <2>1, <2>2 DEF Here, Exists
<1>7. SecretStable'
  BY <1>6, SecretKept
<1>8. CallShape'
  BY DEF CallShape, Reads
<1>9. CallDirs'
  <2>1. call'.why \in Reads => call'.fix \in call'.paths /\ call'.paths = Here
    BY DEF CallDirs, Reading, Reads
  <2>2. call'.why = "load" => call'.fix = DE
    BY DEF CallDirs, Reading
  <2> HIDE DEF Ind
  <2> QED BY <1>6, <2>1, <2>2 DEF CallDirs
<1>10. FixGood'
  <2>1. NoBlob \notin ks /\ Ahead(view, view) /\ Owned(view, stable)
    BY DEF KeysHeld, KeystoreSound
  <2>2. view[p].blob # NoBlob /\ view[p].blob # view[p].up
    BY <1>3, <2>1 DEF Ahead
  <2>3. ASSUME NEW q \in Dirs PROVE view[p].blob \notin Blobs(view[q])'
    <3>1. CASE q = p
      BY <1>1, <2>2, <3>1 DEF Blobs
    <3>2. CASE q # p
      <4>1. Blobs(view[p]) \cap Blobs(view[q]) = {}
        BY <3>2, OthersStay DEF KeysHeld
      <4>2. view[p].blob \in Blobs(view[p])
        BY <2>2 DEF Blobs
      <4>3. Blobs(view[q])' = Blobs(view[q])
        BY <1>1, <3>2 DEF Blobs
      <4> QED BY <4>1, <4>2, <4>3
    <3> QED BY <3>1, <3>2
  <2>4. ASSUME NEW q \in Dirs, view[p].blob \in Blobs(stable[q]) PROVE stable[q].key = view[p].key
    <3>1. view[p].blob \in Blobs(view[p])
      BY <2>2 DEF Blobs
    <3> QED BY <2>1, <2>4, <3>1 DEF Owned
  <2>5. \A q \in Dirs : Blobs(stable[q])' = Blobs(stable[q])
    BY DEF Blobs
  <2>6. (call'.why # "work" => p \notin pending) /\ (call'.why = "work" => p \notin call'.paths)
    OBVIOUS
  <2> HIDE DEF Ind
  <2> QED BY <1>1, <1>3, <2>2, <2>3, <2>4, <2>5, <2>6 DEF FixGood
<1>11. FixSecret'
  BY DEF FixSecret
<1>12. CallKey'
  <2>1. \A q \in Here : view'[q].key = view[q].key
    BY <1>6 DEF Here, Dirs
  <2>2. view'[DE].key = view[DE].key
    BY <1>6 DEF Dirs
  <2> QED BY <1>6, <2>1, <2>2 DEF CallKey, Reads
<1>13. ListsValid'
  <2>1. \A q \in Dirs : q # p /\ Upgraded(q) => Upgraded(q)'
    BY <1>1 DEF Upgraded
  <2>2. deferred # NoPath => view'[deferred].auth = "secret"
    BY <1>6 DEF ListsValid, Typed, Dirs
  <2>3. CASE call.why = "work"
    <3>1. InWork /\ InWork' /\ call'.paths = call.paths \ {p} /\ call.paths \subseteq Dirs
      BY <2>3 DEF InWork, Typed
    <3> QED BY <2>1, <2>2, <3>1 DEF ListsValid
  <2>4. CASE call.why # "work"
    <3>1. ~InWork /\ ~InWork' /\ p \notin pending /\ pending \subseteq Dirs
      BY <2>4 DEF InWork, Typed
    <3> QED BY <2>1, <2>2, <3>1 DEF ListsValid
  <2> QED BY <2>3, <2>4
<1>14. SecuredRight'
  <2>1. \A q \in Here : view'[q].auth = view[q].auth
    BY <1>6 DEF Here, Dirs
  <2>2. secured => call'.why # "unlock"
    BY DEF SecuredRight, CallShape
  <2> QED BY <1>6, <2>1, <2>2 DEF SecuredRight, Reads
<1> QED BY <1>2, <1>5, <1>7, <1>8, <1>9, <1>10, <1>11, <1>12, <1>13, <1>14

\* DeferredCommitKeystoreKeys: a pending directory has its upgraded blob.
LEMMA WorkCommitKeyStep ==
  ASSUME Ind, NEW p \in Dirs, WorkCommitKey(p) PROVE Ind' /\ KeepsKeys
<1> USE DEF Ind, CallSound
<1>1. /\ pc = "work" /\ call.why = "work" /\ ~cp /\ InWork /\ p \in call.paths /\ call.auth = "empty"
      /\ call' = [call EXCEPT !.paths = @ \ {p}, !.fix = p, !.old = view[p].blob]
      /\ UNCHANGED <<sys, slotMarked, cp, stable, ks, nextKs, nextKey, newKey, pending, deferred, work,
                     secured, risk, retired>>
  BY DEF WorkCommitKey, CallShape, InWork, device, memory, history
<1>2. Upgraded(p) /\ view[p].up # NoBlob
  BY <1>1 DEF ListsValid, Upgraded, KeysHeld, KeystoreSound
<1>3. view' = [view EXCEPT ![p].blob = view[p].up, ![p].up = NoBlob] /\ pc' = "upgrade sync"
  BY <1>2 DEF WorkCommitKey
<1>4. view[p].blob \in Blob
  BY DEF Typed, KeyDir
<1>5. /\ call'.why = "work" /\ call'.auth = "empty" /\ call'.fix = p /\ call'.old = view[p].blob
      /\ call'.key = call.key /\ call'.paths = call.paths \ {p} /\ call' \in CallType(nextKey)
  BY <1>1, <1>4 DEF Typed, CallType
<1>6. /\ view'[p].auth = view[p].auth /\ view'[p].key = view[p].key
      /\ view'[p].blob = view[p].up /\ view'[p].up = NoBlob
      /\ \A q \in Dirs : q # p => view'[q] = view[q]
      /\ view' \in [Dirs -> KeyDir]
  BY <1>3, PromotedView DEF Typed
<1> HIDE DEF Ind
<1> QED BY <1>1, <1>2, <1>3, <1>5, <1>6, PromotedControl

\* The upgraded blob is put on the list under a checkpoint, else it is used at once.
LEMMA ScheduleStep == ASSUME Ind, ScheduleOrCommit PROVE Ind' /\ KeepsKeys
<1> USE DEF Ind, CallSound
<1>1. /\ pc = "upgrade" /\ call.why # "work" /\ Reading /\ ~InWork /\ call.auth = "empty"
      /\ call.why \in Reads \cup {"load"}
      /\ UNCHANGED <<sys, slotMarked, cp, stable, ks, nextKs, nextKey, newKey, deferred, work,
                     secured, risk, retired>>
  BY DEF ScheduleOrCommit, Reading, InWork, CallShape, Reads, device, memory, history
<1> PICK p \in Dirs : p = call.fix
  BY DEF Typed
<1>2. Upgraded(p) /\ p \notin pending
  BY <1>1 DEF FixGood, Upgraded
<1>3. CASE cp /\ pending' = pending \cup {p} /\ Retrieved(call.key) /\ UNCHANGED view
  <2>1. KeysHeld' /\ KeepsKeys
    BY <1>1, <1>3, Unmoved DEF Kernel, Grows, Typed
  <2>2. Looks /\ pending' \subseteq Dirs /\ call.key \in 0..(nextKey - 1)
    BY <1>1, <1>3 DEF Looks, Typed
  <2>3. \A q \in pending' : q \in pending \/ Upgraded(q)'
    BY <1>1, <1>2, <1>3 DEF Upgraded
  <2>4. /\ call.why # "load" => call.key = view[call.fix].key
        /\ view[call.fix].blob \in ks'
    BY <1>1, <1>2 DEF CallKey, Upgraded
  <2>5. CallSound' /\ call' \in CallType(nextKey) /\ pc' \in {"idle", "found"}
    BY <1>1, <1>3, <2>2, <2>3, <2>4, RetrievedControl
  <2>6. Typed'
    BY <1>1, <1>3, <2>2, <2>5 DEF Typed, CallType
  <2>7. SecretStable'
    BY <1>1, <1>3 DEF SecretStable
  <2> QED BY <2>1, <2>5, <2>6, <2>7
<1>4. ASSUME ~cp, view' = [view EXCEPT ![p].blob = view[p].up, ![p].up = NoBlob],
             call' = [call EXCEPT !.old = view[p].blob], pc' = "upgrade sync", pending' = pending
      PROVE  Ind' /\ KeepsKeys
  <2>1. view[p].blob \in Blob
    BY DEF Typed, KeyDir
  <2>2. /\ call'.why = call.why /\ call'.auth = "empty" /\ call'.fix = p /\ call'.old = view[p].blob
        /\ call'.key = call.key /\ call'.paths = call.paths /\ call' \in CallType(nextKey)
    BY <1>1, <1>4, <2>1 DEF Typed, CallType
  <2>3. /\ view'[p].auth = view[p].auth /\ view'[p].key = view[p].key
        /\ view'[p].blob = view[p].up /\ view'[p].up = NoBlob
        /\ \A q \in Dirs : q # p => view'[q] = view[q]
        /\ view' \in [Dirs -> KeyDir]
    BY <1>4, PromotedView DEF Typed
  <2> HIDE DEF Ind
  <2> QED BY <1>1, <1>2, <1>4, <2>2, <2>3, PromotedControl
<1> QED BY <1>3, <1>4 DEF ScheduleOrCommit

\* The fsync after the upgrade: no reboot brings the old blob back.
LEMMA UpgradeSyncStep == ASSUME Ind, CommitUpgradedKeySync PROVE Ind' /\ KeepsKeys
<1> USE DEF Ind, CallSound
<1>1. /\ pc = "upgrade sync" /\ Reading
      /\ UNCHANGED <<sys, slotMarked, cp, view, ks, nextKs, nextKey, newKey, pending, deferred, work,
                     secured, risk, retired>>
  BY DEF CommitUpgradedKeySync, UpgradeSync, Reading, device, memory, history
<1> PICK p \in Dirs : p = call.fix
  BY DEF Typed
<1>2. /\ ~cp /\ view[p].auth = "empty" /\ view[p].blob \in ks /\ view[p].up = NoBlob
      /\ call.old # NoBlob
      /\ \A q \in Dirs : call.old \notin Blobs(view[q])
      /\ \A q \in Dirs : call.old \in Blobs(stable[q]) => stable[q].key = view[p].key
  BY <1>1 DEF FixGood
<1>3. Here' = Here
  BY <1>1 DEF Here, Exists
<1>4. ASSUME stable' = SyncDir(p), pc' = "upgrade delete", UNCHANGED call PROVE Ind' /\ KeepsKeys
  <2>1. KeysHeld' /\ KeepsKeys /\ stable' \in [Dirs -> KeyDir]
    <3>1. Typed /\ KeysHeld
      OBVIOUS
    <3>2. UNCHANGED <<sys, slotMarked, cp, view, ks, nextKs, nextKey, risk, retired>>
      BY <1>1
    <3> HIDE DEF Ind
    <3> QED BY <1>2, <1>4, <3>1, <3>2, UpgradeSynced
  <2>2. Typed'
    BY <1>1, <1>4, <2>1 DEF Typed
  <2>3. \A q \in Dirs : stable'[q] = IF stable[q].auth = "empty" /\ stable[q].key = view[p].key
                                     THEN view[p] ELSE stable[q]
    BY <1>2, <1>4 DEF SyncDir
  <2>4. SecretStable'
    <3> SUFFICES ASSUME risk = {}, NEW q \in Dirs, view[q].auth = "secret"
                 PROVE  \E s \in Dirs : stable'[s].auth = "secret" /\ stable'[s].key = view[q].key
      BY <1>1 DEF SecretStable
    <3>1. PICK s \in Dirs : stable[s].auth = "secret" /\ stable[s].key = view[q].key
      BY <1>1, <1>2 DEF SecretStable
    <3>2. stable'[s] = stable[s]
      BY <2>3, <3>1
    <3> QED BY <3>1, <3>2
  <2>5. CallShape' /\ CallDirs' /\ FixSecret'
    BY <1>1, <1>3, <1>4 DEF CallShape, CallDirs, FixSecret, Reading, Exists
  <2>6. FixGood'
    <3>1. ASSUME NEW q \in Dirs PROVE stable'[q].blob # call.old
      <4>1. view[p].blob # call.old
        BY <1>2 DEF Blobs
      <4>2. ASSUME stable[q].blob = call.old
            PROVE  stable[q].auth = "empty" /\ stable[q].key = view[p].key
        <5>1. call.old \in Blobs(stable[q])
          BY <1>2, <4>2 DEF Blobs
        <5>2. stable[q].auth # "secret" /\ stable[q].auth # "none"
          BY <1>2, <4>2 DEF KeysHeld, KeystoreSound, DirsFormed, NoDir
        <5> QED BY <1>2, <5>1, <5>2 DEF Typed, KeyDir
      <4> QED BY <2>3, <4>1, <4>2
    <3>2. ASSUME NEW q \in Dirs, call.old \in Blobs(stable[q])' PROVE stable'[q].key = view[p].key
      BY <1>2, <2>3, <3>2 DEF Blobs
    <3>3. \A q \in Dirs : Blobs(view[q])' = Blobs(view[q])
      BY <1>1 DEF Blobs
    <3>4. /\ call.why # "work" => p \notin pending
          /\ call.why = "work" => p \notin call.paths
      BY <1>1 DEF FixGood
    <3> HIDE DEF Ind
    <3> QED BY <1>1, <1>2, <1>4, <3>1, <3>2, <3>3, <3>4 DEF FixGood
  <2>7. CallKey' /\ SecuredRight'
    BY <1>1, <1>3, <1>4 DEF CallKey, SecuredRight
  <2>8. ListsValid'
    BY <1>1, <1>4 DEF ListsValid, InWork, Upgraded
  <2> QED BY <2>1, <2>2, <2>4, <2>5, <2>6, <2>7, <2>8
<1>5. ASSUME UNCHANGED stable PROVE KeysHeld' /\ KeepsKeys
  <2>1. Typed /\ KeysHeld /\ nextKey \in Nat
    BY DEF Typed
  <2>2. UNCHANGED <<sys, slotMarked, cp, view, ks, nextKs, nextKey, risk, retired>>
    BY <1>1
  <2> HIDE DEF Ind
  <2> QED BY <1>5, <2>1, <2>2, Unmoved DEF Kernel, Grows
<1>6. ASSUME UNCHANGED stable, call.why = "work", pc' = "work", UNCHANGED call
      PROVE  Ind' /\ KeepsKeys
  <2>1. Typed'
    BY <1>1, <1>6 DEF Typed
  <2>2. SecretStable'
    BY <1>1, <1>6 DEF SecretStable
  <2>3. CallShape' /\ CallDirs' /\ FixGood' /\ FixSecret'
    BY <1>1, <1>6 DEF CallShape, CallDirs, FixGood, FixSecret, Reading
  <2>4. CallKey' /\ SecuredRight'
    BY <1>1, <1>3, <1>6 DEF CallKey, SecuredRight
  <2>5. ListsValid'
    BY <1>1, <1>6 DEF ListsValid, InWork, Upgraded
  <2> QED BY <1>5, <1>6, <2>1, <2>2, <2>3, <2>4, <2>5
<1>7. ASSUME UNCHANGED stable, call.why # "work", NotRetrieved PROVE Ind' /\ KeepsKeys
  <2>1. Looks
    BY <1>1 DEF Looks
  <2>2. CallSound' /\ call' \in CallType(nextKey) /\ pc' \in {"idle", "retrieve"}
    BY <1>1, <1>7, <2>1, NotRetrievedControl
  <2>3. Typed'
    BY <1>1, <1>7, <2>2 DEF Typed, CallType
  <2>4. SecretStable'
    BY <1>1, <1>7 DEF SecretStable
  <2> QED BY <1>5, <1>7, <2>2, <2>3, <2>4
<1> QED BY <1>4, <1>6, <1>7 DEF CommitUpgradedKeySync, UpgradeSync

\* The old Keystore key is deleted: no directory has it, now or after a reboot.
LEMMA UpgradeDeleteStep == ASSUME Ind, CommitUpgradedKeyDelete PROVE Ind' /\ KeepsKeys
<1> USE DEF Ind, CallSound
<1>1. /\ pc = "upgrade delete" /\ Reading /\ ks' = ks \ {call.old}
      /\ UNCHANGED <<sys, slotMarked, cp, view, stable, nextKs, nextKey, newKey, pending, deferred, work,
                     secured, risk, retired>>
  BY DEF CommitUpgradedKeyDelete, Reading, device, memory, history
<1> PICK p \in Dirs : p = call.fix
  BY DEF Typed
<1>2. /\ ~cp /\ view[p].auth = "empty" /\ view[p].blob \in ks /\ view[p].up = NoBlob
      /\ call.old # NoBlob
      /\ \A q \in Dirs : call.old \notin Blobs(view[q])
      /\ \A q \in Dirs : stable[q].blob # call.old
  BY <1>1 DEF FixGood
<1>3. \A q \in Dirs : call.old # view[q].blob /\ call.old # view[q].up
  BY <1>2 DEF Blobs
<1>4. KeysHeld' /\ KeepsKeys
  <2>1. Typed /\ KeysHeld
    OBVIOUS
  <2>2. UNCHANGED <<sys, slotMarked, cp, view, stable, nextKs, nextKey, risk, retired>> /\ ks' = ks \ {call.old}
    BY <1>1
  <2> HIDE DEF Ind
  <2> QED BY <1>2, <1>3, <2>1, <2>2, OldDeleted
<1>5. Looks
  BY <1>1, <1>3 DEF Looks, Typed
<1>6. SecretStable'
  BY <1>1 DEF SecretStable
<1>7. Here' = Here /\ ks' \subseteq Blob
  BY <1>1 DEF Here, Exists, Typed
<1>8. ASSUME call.why = "work", pc' = "work", UNCHANGED call PROVE Ind' /\ KeepsKeys
  <2>1. Typed'
    BY <1>1, <1>7, <1>8 DEF Typed
  <2>2. CallShape' /\ CallDirs' /\ FixGood' /\ FixSecret'
    BY <1>1, <1>8 DEF CallShape, CallDirs, FixGood, FixSecret, Reading
  <2>3. CallKey' /\ SecuredRight'
    BY <1>1, <1>7, <1>8 DEF CallKey, SecuredRight
  <2>4. ListsValid'
    <3>1. InWork /\ InWork' /\ call.paths \subseteq Dirs
      BY <1>1, <1>8 DEF InWork, Typed
    <3>2. \A q \in call.paths : Upgraded(q) /\ q \in Dirs
      BY <3>1 DEF ListsValid
    <3>3. \A q \in call.paths : Upgraded(q)'
      BY <1>1, <1>3, <3>2 DEF Upgraded
    <3> QED BY <1>1, <1>8, <3>1, <3>3 DEF ListsValid
  <2> QED BY <1>4, <1>6, <2>1, <2>2, <2>3, <2>4
<1>9. ASSUME call.why # "work", Retrieved(call.key) PROVE Ind' /\ KeepsKeys
  <2>1. /\ pending' \subseteq Dirs /\ call.key \in 0..(nextKey - 1) /\ call.auth = "empty"
        /\ call.why # "load" => call.key = view[call.fix].key
    BY <1>1, <1>9 DEF Typed, CallShape, CallKey
  <2>2. view[call.fix].blob \in ks'
    BY <1>1, <1>2, <1>3
  <2>3. CallSound' /\ call' \in CallType(nextKey) /\ pc' \in {"idle", "found"}
    BY <1>1, <1>5, <1>9, <2>1, <2>2, RetrievedControl
  <2>4. Typed'
    BY <1>1, <1>7, <2>3 DEF Typed, CallType
  <2> QED BY <1>4, <1>6, <2>3, <2>4
<1> QED BY <1>8, <1>9 DEF CommitUpgradedKeyDelete

-----------------------------------------------------------------------------
(* The theorems *)

\* A directory of the initial state.
LEMMA FirstDir ==
  ASSUME NEW k \in Nat, NEW d,
         d = [NoDir EXCEPT !.auth = "empty", !.key = k, !.blob = [id |-> k, ver |-> 0]]
  PROVE  /\ d \in KeyDir /\ d.auth = "empty" /\ d.key = k /\ d.up = NoBlob
         /\ d.blob.id = k /\ d.blob.ver = 0
<1>1. NoDir \in KeyDir /\ NoDir.up = NoBlob
  BY DEF KeyDir, Blob, NoBlob, NoDir
<1> PICK b : b = [id |-> k, ver |-> 0]
  OBVIOUS
<1>2. b \in Blob /\ b.id = k /\ b.ver = 0
  BY DEF Blob
<1>3. d = [NoDir EXCEPT !.auth = "empty", !.key = k, !.blob = b]
  OBVIOUS
<1>4. d.auth = "empty" /\ d.key = k /\ d.up = NoBlob /\ d.blob = b
  BY <1>1, <1>3 DEF KeyDir
<1>5. d = [auth |-> "empty", key |-> k, blob |-> b, up |-> NoDir.up]
  BY <1>1, <1>3 DEF KeyDir
<1>6. d \in KeyDir
  BY <1>1, <1>2, <1>5 DEF KeyDir
<1> QED BY <1>2, <1>4, <1>6

\* The initial state.
LEMMA InitInd == ASSUME Init PROVE Ind
<1>0. PICK p \in {0, 1} \cap Paths :
       view = [d \in Dirs |->
                 CASE d = DE -> [NoDir EXCEPT !.auth = "empty", !.key = 1,
                                              !.blob = [id |-> 1, ver |-> 0]]
                   [] d = p -> [NoDir EXCEPT !.auth = "empty", !.key = 2,
                                             !.blob = [id |-> 2, ver |-> 0]]
                   [] OTHER -> NoDir]
  BY DEF Init
<1>1. /\ DE \in Dirs /\ p \in Dirs /\ p \in Paths /\ p # DE /\ Paths \subseteq Dirs /\ DE \notin Paths
  BY UserKeysAssumption DEF Dirs, Paths, DE
<1>2. /\ \A q \in Dirs \ {DE, p} : view[q] = NoDir
      /\ view[DE] = [NoDir EXCEPT !.auth = "empty", !.key = 1, !.blob = [id |-> 1, ver |-> 0]]
      /\ view[p] = [NoDir EXCEPT !.auth = "empty", !.key = 2, !.blob = [id |-> 2, ver |-> 0]]
  BY <1>0, <1>1
<1>7. /\ view[DE] \in KeyDir /\ view[DE].auth = "empty" /\ view[DE].key = 1
      /\ view[DE].blob.id = 1 /\ view[DE].blob.ver = 0 /\ view[DE].up = NoBlob
  BY <1>2, FirstDir
<1>14. /\ view[p] \in KeyDir /\ view[p].auth = "empty" /\ view[p].key = 2
       /\ view[p].blob.id = 2 /\ view[p].blob.ver = 0 /\ view[p].up = NoBlob
  <2>1. PICK c : c = view[p]
    OBVIOUS
  <2>2. PICK k \in Nat : k = 2
    OBVIOUS
  <2>3. c = [NoDir EXCEPT !.auth = "empty", !.key = k, !.blob = [id |-> k, ver |-> 0]]
    BY <1>2, <2>1, <2>2
  <2>4. c \in KeyDir /\ c.auth = "empty" /\ c.key = k /\ c.up = NoBlob /\ c.blob.id = k /\ c.blob.ver = 0
    BY <2>3, FirstDir
  <2> QED BY <2>1, <2>2, <2>4
<1>15. \A q \in Dirs : q # DE /\ q # p => view[q] = NoDir
  BY <1>2
<1>16. view \in [Dirs -> KeyDir]
  <2>1. NoDir \in KeyDir
    BY DEF KeyDir, Blob, NoBlob, NoDir
  <2>2. \A q \in Dirs : view[q] \in KeyDir
    BY <1>7, <1>14, <1>15, <2>1
  <2>3. DOMAIN view = Dirs /\ view = [q \in Dirs |-> view[q]]
    BY <1>0
  <2> QED BY <2>2, <2>3
<1>3. /\ sys = 0 /\ slotMarked /\ slotMarked \in BOOLEAN /\ ~cp /\ cp \in BOOLEAN /\ stable = view
      /\ ks = {[id |-> 1, ver |-> 0], [id |-> 2, ver |-> 0]} /\ nextKs = 3 /\ nextKey = 3 /\ newKey = 0
      /\ pending = {} /\ deferred = NoPath /\ work = "none" /\ pc = "retrieve" /\ call = NoCall
      /\ ~secured /\ secured \in BOOLEAN
  BY Zenon DEF Init
<1>4. NoCall.why = "load" /\ NoCall.auth = "empty" /\ NoCall.fix = DE /\ NoCall \in CallType(3)
  <2>1. NoCall \in CallType(3)
    BY NoCallTyped
  <2> QED BY <2>1 DEF NoCall
<1>5. Typed
  BY <1>3, <1>4, <1>16 DEF Typed, CallType, Blob
<1>6. /\ NoDir.auth = "none" /\ NoDir.key = 0 /\ NoDir.blob = NoBlob /\ NoDir.up = NoBlob
      /\ NoBlob.id = 0 /\ NoBlob.ver = 0
  BY DEF NoDir, NoBlob
<1>8. DirsFormed(view) /\ \A q \in Dirs : view[q].up = NoBlob
  <2>1. \A q \in Dirs :
          /\ view[q].auth = "none" => view[q] = NoDir
          /\ view[q].auth # "none" => view[q].key # 0
          /\ view[q].auth = "secret" => view[q].blob = NoBlob /\ view[q].up = NoBlob /\ q # DE
          /\ view[q].auth = "empty" => view[q].blob # NoBlob
          /\ view[q].key < nextKey /\ view[q].blob.id < nextKs /\ view[q].up.id < nextKs
          /\ view[q].blob.ver <= sys /\ view[q].up = NoBlob
    BY <1>3, <1>6, <1>7, <1>14, <1>15
  <2>2. \A q \in Paths : view[q].auth # "none" => q = p
    BY <1>1, <1>6, <1>15
  <2>3. \A q, r \in Dirs : view[q].auth = "empty" /\ view[r].auth = "empty" /\ q # r => view[q].key # view[r].key
    BY <1>6, <1>7, <1>14, <1>15
  <2> QED BY <1>7, <1>14, <2>1, <2>2, <2>3 DEF DirsFormed
<1>9. Owned(view, view)
  <2>1. \A q, r \in Dirs : view[q].blob = view[r].blob => view[q].key = view[r].key
    BY <1>6, <1>7, <1>14, <1>15
  <2> QED BY <1>8, <2>1 DEF Owned, Blobs
<1>10. KeystoreSound
  <2>1. NoBlob \notin ks /\ \A b \in ks : b.id < nextKs
    BY <1>3 DEF NoBlob
  <2>2. DirsFormed(stable) /\ Owned(view, stable) /\ Owned(stable, stable)
    BY <1>3, <1>8, <1>9
  <2> QED BY <1>3, <1>8, <1>9, <2>1, <2>2 DEF KeystoreSound, Ahead
<1>11. SlotSound /\ ViewGood /\ SecretStable
  BY <1>3 DEF SlotSound, ViewGood, SecretStable
<1>12. CallShape /\ CallDirs /\ FixGood /\ FixSecret /\ CallKey
  BY <1>3, <1>4 DEF CallShape, CallDirs, FixGood, FixSecret, CallKey, Reading, Reads
<1>13. ListsValid /\ SecuredRight
  BY <1>3, <1>4 DEF ListsValid, SecuredRight, InWork
<1> QED BY <1>5, <1>10, <1>11, <1>12, <1>13 DEF Ind, KeysHeld, CallSound

\* A step of nothing.
LEMMA StutterInd == ASSUME Ind, UNCHANGED vars PROVE Ind' /\ KeepsKeys
<1> USE DEF Ind, CallSound, vars
<1>1. UNCHANGED <<sys, slotMarked, cp, view, stable, ks, nextKs, nextKey, risk, retired>>
  OBVIOUS
<1>2. KeysHeld' /\ KeepsKeys
  <2>1. Typed /\ KeysHeld /\ nextKey \in Nat
    BY DEF Typed
  <2> HIDE DEF Ind
  <2> QED BY <1>1, <2>1, Unmoved DEF Kernel, Grows
<1>3. Typed'
  BY DEF Typed
<1>4. SecretStable' /\ CallShape' /\ FixSecret'
  BY DEF SecretStable, CallShape, FixSecret
<1>5. CallDirs'
  BY DEF CallDirs, Reading, Here, Exists
<1>6. FixGood'
  BY DEF FixGood, Blobs
<1>7. CallKey' /\ ListsValid' /\ SecuredRight'
  BY DEF CallKey, ListsValid, SecuredRight, InWork, Upgraded, Here, Exists
<1> QED BY <1>2, <1>3, <1>4, <1>5, <1>6, <1>7

\* Every step keeps the invariant and every key.
LEMMA StepInd == ASSUME Ind, [Next]_vars PROVE Ind' /\ KeepsKeys
BY RetrieveStep, ScheduleStep, UpgradeSyncStep, UpgradeDeleteStep, ReadFoundStep, FixateDestroyStep,
   FixateRenameStep, FixateSyncStep, StoreKeyStep, StoreSyncStep, DecideStep, DestroyNextStep,
   WorkCommitKeyStep, WorkFixateStep, ProtectionStep, UnlockStep, LockStep, CreateStep, DestroyStep,
   WorkBeginStep, CommitMarkStep, CommitStep, WritebackStep, BootStep, StutterInd, Zenon
   DEF Next, KeyCall

\* The inductive invariant holds in every reachable state.
LEMMA KeysInvariant == Spec => []Ind
<1>1. Init => Ind
  BY InitInd
<1>2. Ind /\ [Next]_vars => Ind'
  BY StepInd
<1> QED BY <1>1, <1>2, PTL DEF Spec

\* The lists of deferred work always point to what they promise.
THEOREM DeferredWorkStaysValid == Spec => []DeferredWorkValid
<1>1. Ind => DeferredWorkValid
  BY DEF Ind, CallSound, ListsValid, InWork, Upgraded, DeferredWorkValid
<1> QED BY <1>1, KeysInvariant, PTL

\* Once the CE key is protected, it cannot be read without the secret.
THEOREM OnlyTheSecretReads == Spec => []SecretOnly
<1>1. Ind => SecretOnly
  <2> SUFFICES ASSUME Ind PROVE SecretOnly
    OBVIOUS
  <2>1. get_ce_key_paths = Here
    BY PathsFound DEF Ind, KeysHeld, KeystoreSound
  <2> QED BY <2>1 DEF Ind, CallSound, SecuredRight, SecretOnly
<1> QED BY <1>1, KeysInvariant, PTL

\* No key is ever lost, through upgrades, changes of protection, commits, rollbacks
\* and crashes, until the user is destroyed.
THEOREM NoKeyLost == Spec => KeyKept
<1>1. Ind /\ [Next]_vars =>
        [\A k \in (1..MaxKey) \ retired : Recoverable(k) /\ risk' = {} => Recoverable(k)']_vars
  <2> SUFFICES ASSUME Ind, [Next]_vars,
                      NEW k \in (1..MaxKey) \ retired, Recoverable(k), risk' = {}
               PROVE  Recoverable(k)'
    OBVIOUS
  <2>1. KeepsKeys
    BY StepInd
  <2>2. k \in Nat \ (retired \cup {0})
    BY UserKeysAssumption
  <2> QED BY <2>1, <2>2 DEF KeepsKeys
<1> QED BY <1>1, KeysInvariant, PTL DEF Spec, KeyKept
=============================================================================
