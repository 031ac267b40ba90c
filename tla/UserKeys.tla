------------------------------ MODULE UserKeys ------------------------------
(***************************************************************************)
(* The DE and CE keys of one user: FsCrypt.cpp on top of KeyStorage.cpp,   *)
(* while a userdata checkpoint may be pending.                             *)
(*                                                                         *)
(* A key is stored in a directory, bound either to a Keystore key (empty   *)
(* authentication) or to the user's secret.  Binding the CE key to a new   *)
(* secret stores a second directory and then "fixates" it: the others are  *)
(* destroyed, with their Keystore keys, and it is renamed to "current".    *)
(* A Keystore key made by an older system is upgraded when it is used.     *)
(*                                                                         *)
(* What makes this hard is that Keystore is not part of userdata: a reboot *)
(* brings userdata back to its last synced or checkpointed state, and      *)
(* never a deleted Keystore key.  So the deletions wait for the commit, in *)
(* key_dirs_to_commit and s_deferred_fixations, and for an fsync.          *)
(*                                                                         *)
(* Threads: binder calls on keys and DoCheckpointCommittedWork hold        *)
(* mCryptLock, so one of them runs at a time (pc, call), in steps between  *)
(* which a commit, a crash or a writeback may happen.                      *)
(*                                                                         *)
(* External: Keystore, the file system, the boot slots, and the checkpoint *)
(* as module Checkpoint shows it from outside (cp, slotMarked, work).  A   *)
(* failed deletion in Keystore only leaks a key and is left out, as is the *)
(* temporary directory a key is built in.                                  *)
(***************************************************************************)
EXTENDS Integers, FiniteSets, FiniteSetsExt

CONSTANTS
  MaxPath,  \* bound: CE key directories are "current" (0) and cx0.. (1..MaxPath)
  MaxSys,   \* bound: system versions 0..MaxSys
  MaxKs,    \* bound: Keystore keys ever made
  MaxKey    \* bound: CE keys ever generated

ASSUME UserKeysAssumption ==
  MaxPath \in Nat /\ MaxSys \in Nat /\ MaxKs \in Nat /\ MaxKey \in Nat

DE == -1                       \* user_keys/de/<id>
Paths == 0..MaxPath            \* user_keys/ce/<id>/..., in the order of their names
Dirs == {DE} \cup Paths
NoPath == -2

NoBlob == [id |-> 0, ver |-> 0]
NoDir == [auth |-> "none", key |-> 0, blob |-> NoBlob, up |-> NoBlob]

VARIABLES
  (* the device *)
  sys,         \* version of the running system
  slotMarked,  \* its slot is marked successful
  cp,          \* isCheckpointing: writes to userdata are held back
  view,        \* the key directories as they read now
  stable,      \* the key directories as a reboot brings them back
  ks,          \* the keys Keystore holds
  nextKs, nextKey,
  (* vold *)
  installed,   \* s_ce_policies: the CE key in use, 0 when locked
  newKey,      \* s_new_ce_keys
  ephemeral,   \* s_ephemeral_users
  pending,     \* key_dirs_to_commit
  deferred,    \* s_deferred_fixations
  work,        \* DoCheckpointCommittedWork: "none", "started", "done"
  pc, call,    \* the call that holds mCryptLock, its locals, and why it reads or fixates a key:
               \* at boot ("load"), for fscrypt_set_user_key_protection ("reprotect", "check",
               \* "protect"), in an unlock, in the deferred work, or to destroy it
  (* history *)
  secured,     \* fscrypt_set_user_key_protection has succeeded in this boot
  risk,        \* faults that void the promise: see KeyKept
  retired      \* keys of a user that was removed

device == <<sys, slotMarked, cp>>
memory == <<installed, newKey, ephemeral>>
history == <<risk, retired>>
vars == <<sys, slotMarked, cp, view, stable, ks, nextKs, nextKey, installed, newKey,
          ephemeral, pending, deferred, work, pc, call, secured, risk, retired>>

Reads == {"reprotect", "check", "unlock"}   \* callers of read_and_fixate_user_ce_key

NoCall == [why |-> "load", auth |-> "empty", fix |-> DE, paths |-> {}, key |-> 0,
           old |-> NoBlob, sync |-> FALSE]

\* get_ce_key_paths
get_ce_key_paths == {p \in Paths : view[p] # NoDir}

\* get_ce_key_new_path: "current", or the first name after all the others.
get_ce_key_new_path ==
  IF get_ce_key_paths = {} THEN 0 ELSE Max(get_ce_key_paths) + 1

\* FsyncDirectory of a directory bound to Keystore, under the name it has on disk
\* (only the fsync of its parent persists a rename), and of the parent.  Both are
\* held back under a checkpoint.
SyncDir(p) ==
  LET SameDir(d) == stable[d].auth = "empty" /\ stable[d].key = view[p].key IN
  IF cp THEN stable ELSE [d \in Dirs |-> IF SameDir(d) THEN view[p] ELSE stable[d]]
SyncAll == IF cp THEN stable ELSE view

\* The systems that may run after the next reboot.
BootSystems == {sys} \cup (IF slotMarked THEN {} ELSE {sys - 1})

-----------------------------------------------------------------------------
(* KeyStorage: retrieveKey and the upgrade of Keystore keys *)

\* Return from the call.
Done == pc' = "idle" /\ call' = NoCall

\* The directory is read: at boot that is all, else read_and_fixate goes on.
Retrieved(key) ==
  IF call.why = "load" THEN Done
  ELSE pc' = "found" /\ call' = [call EXCEPT !.key = key]

\* The next older directory; without one the read has failed, and
\* fscrypt_set_user_key_protection tries again with the secret.
NotRetrieved ==
  LET older == {p \in call.paths : p < call.fix} IN
  \/ /\ call.why # "load" /\ older # {}
     /\ pc' = "retrieve" /\ call' = [call EXCEPT !.fix = Max(older)]
  \/ /\ call.why = "reprotect" /\ older = {}
     /\ pc' = "retrieve"
     /\ call' = [call EXCEPT !.why = "check", !.auth = "secret", !.fix = Max(call.paths)]
  \/ call.why = "load" /\ Done
  \/ call.why \in {"check", "unlock"} /\ older = {} /\ Done

\* BeginKeystoreOp: the upgraded blob is used only while its commit is pending;
\* otherwise it is a leftover, deleted first.
IsKeyCommitPending(p) == p \in pending
DeleteUpgradedKey(p) == IF IsKeyCommitPending(p) THEN NoBlob ELSE view[p].up
BlobOf(p) == IF IsKeyCommitPending(p) THEN view[p].up ELSE view[p].blob
WithoutLeftover(p) == [view EXCEPT ![p].up = IF IsKeyCommitPending(p) THEN @ ELSE NoBlob]

\* keystore.begin with blob b works, after an upgrade if b is older.
Accepts(b) == b \in ks /\ b.ver <= sys

RetrieveWithKeystore(p) ==
  LET b == BlobOf(p)
      up == [id |-> nextKs, ver |-> sys]
      left == ks \ {DeleteUpgradedKey(p)}
  IN
  \/ /\ Accepts(b) /\ b.ver = sys
     /\ view' = WithoutLeftover(p) /\ ks' = left
     /\ Retrieved(view[p].key)
     /\ UNCHANGED nextKs
  \/ /\ Accepts(b) /\ b.ver < sys /\ ~IsKeyCommitPending(p)
     /\ view' = [view EXCEPT ![p].up = up] /\ ks' = left \cup {up}
     /\ nextKs' = nextKs + 1
     /\ pc' = "upgrade" /\ call' = [call EXCEPT !.key = view[p].key]
  \/ /\ view' = WithoutLeftover(p) /\ ks' = left   \* Keystore error, or no blob
     /\ NotRetrieved
     /\ UNCHANGED nextKs

\* retrieveKey of the directory call.fix with call.auth.
retrieveKey ==
  /\ pc = "retrieve"
  /\ LET p == call.fix IN
     \/ call.auth = "empty" /\ RetrieveWithKeystore(p)
     \/ /\ call.auth = "secret"
        /\ IF view[p].auth = "secret" THEN Retrieved(view[p].key) ELSE NotRetrieved
        /\ UNCHANGED <<view, ks, nextKs>>
  /\ UNCHANGED <<device, stable, nextKey, memory, pending, deferred, work, secured, history>>

\* The upgraded blob is written: replace the old one now, or after the commit.
ScheduleOrCommit ==
  /\ pc = "upgrade"
  /\ \/ /\ cp
        /\ pending' = pending \cup {call.fix}
        /\ Retrieved(call.key)
        /\ UNCHANGED view
     \/ /\ ~cp
        /\ view' = [view EXCEPT ![call.fix].blob = view[call.fix].up,
                                ![call.fix].up = NoBlob]
        /\ call' = [call EXCEPT !.old = view[call.fix].blob]
        /\ pc' = "upgrade sync"
        /\ UNCHANGED pending
  /\ UNCHANGED <<device, stable, ks, nextKs, nextKey, memory, deferred, work, secured, history>>

\* The rest of CommitUpgradedKey, in the deferred work as well.  A failed fsync
\* fails the read, but not the deferred work; the old key is then kept.
UpgradeSync(synced) ==
  /\ pc = "upgrade sync"
  /\ \/ stable' = synced /\ pc' = "upgrade delete" /\ UNCHANGED call
     \/ /\ UNCHANGED stable
        /\ \/ call.why = "work" /\ pc' = "work" /\ UNCHANGED call
           \/ call.why # "work" /\ NotRetrieved
  /\ UNCHANGED <<device, view, ks, nextKs, nextKey, memory, pending, deferred, work,
                 secured, history>>

\* Mutant of CommitUpgradedKeySync: the fsync is left out.
CommitUpgradedKeyNoSync == UpgradeSync(stable)

\* "Ensure that the rename is persisted before deleting the Keystore key."
CommitUpgradedKeySync == UpgradeSync(SyncDir(call.fix))

CommitUpgradedKeyDelete ==
  /\ pc = "upgrade delete"
  /\ ks' = ks \ {call.old}
  /\ \/ call.why = "work" /\ pc' = "work" /\ UNCHANGED call
     \/ call.why # "work" /\ Retrieved(call.key)
  /\ UNCHANGED <<device, view, stable, nextKs, nextKey, memory, pending, deferred, work,
                 secured, history>>

-----------------------------------------------------------------------------
(* Destroying and renaming key directories *)

\* Mutant of CancelPendingKeyCommit: the commit stays on the list.
KeepPendingKeyCommit(p) == pending

\* destroyKey(p): cancels the pending commit, deletes both Keystore keys and then
\* the files.
CancelPendingKeyCommit(p) == pending \ {p}

destroyKey(p) ==
  /\ pending' = CancelPendingKeyCommit(p)
  /\ ks' = ks \ {view[p].blob, view[p].up}
  /\ view' = [view EXCEPT ![p] = NoDir]

\* RenameKeyDir: a pending commit follows the directory.
RenamePending(from, to) ==
  IF from \in pending THEN (pending \ {from}) \cup {to} ELSE pending

RenameKeyDir(from, to) ==
  /\ view' = [view EXCEPT ![to] = view[from], ![from] = NoDir]
  /\ pending' = RenamePending(from, to)

-----------------------------------------------------------------------------
(* fixate_user_ce_key and its callers *)

\* read_and_fixate_user_ce_key has found the key.
ReadFound ==
  /\ pc = "found"
  /\ deferred' = NoPath
  /\ pc' = "fixate"
  /\ call' = [call EXCEPT !.paths = @ \ {call.fix}, !.sync = call.paths # {call.fix}]
  /\ UNCHANGED <<device, view, stable, ks, nextKs, nextKey, memory, pending, work,
                 secured, history>>

\* Where a caller goes on.  Only fscrypt_set_user_key_protection looks at the
\* result, when it fixates the directory it has just stored.
Fixated(ok) ==
  CASE call.why = "unlock" -> /\ installed' = call.key
                              /\ Done /\ UNCHANGED <<newKey, secured>>
    [] call.why = "reprotect" -> /\ pc' = "store"
                                 /\ UNCHANGED <<call, installed, newKey, secured>>
    [] call.why = "protect" -> /\ newKey' = IF ok THEN 0 ELSE newKey
                               /\ secured' = ok
                               /\ Done /\ UNCHANGED installed
    [] OTHER -> /\ secured' = (secured \/ call.why = "check")
                /\ Done /\ UNCHANGED <<installed, newKey>>

\* Destroys the other directories, newest first.  The fixation in a read asks for
\* no checkpoint: what it destroys while one is pending is recorded in risk.
FixateDestroy ==
  /\ pc = "fixate" /\ call.paths # {}
  /\ LET p == Max(call.paths) IN
     /\ destroyKey(p)
     /\ call' = [call EXCEPT !.paths = @ \ {p}]
     /\ risk' = IF cp /\ view[p].auth = "empty" /\ call.why \in Reads
                 THEN risk \cup {"early"} ELSE risk
  /\ UNCHANGED <<device, stable, nextKs, nextKey, memory, deferred, work, pc, secured,
                 retired>>

\* Renames the directory to "current", which fails if that still exists.  Without
\* a change there is nothing to sync.
FixateRename ==
  /\ pc = "fixate" /\ call.paths = {}
  /\ \/ /\ call.fix = 0 /\ call.sync
        /\ pc' = "fixate sync" /\ UNCHANGED <<view, pending, call, memory, secured>>
     \/ /\ call.fix = 0 /\ ~call.sync
        /\ Fixated(TRUE)
        /\ UNCHANGED <<view, pending, ephemeral>>
     \/ /\ call.fix # 0 /\ view[0] = NoDir /\ view[call.fix] # NoDir
        /\ RenameKeyDir(call.fix, 0)
        /\ pc' = "fixate sync" /\ UNCHANGED <<call, memory, secured>>
     \/ /\ call.fix # 0 /\ (view[0] # NoDir \/ view[call.fix] = NoDir)
        /\ Fixated(FALSE)
        /\ UNCHANGED <<view, pending, ephemeral>>
  /\ UNCHANGED <<device, stable, ks, nextKs, nextKey, deferred, work, history>>

FixateSync ==
  /\ pc = "fixate sync"
  /\ \/ stable' = SyncAll /\ Fixated(TRUE)
     \/ UNCHANGED stable /\ Fixated(FALSE)
  /\ UNCHANGED <<device, view, ks, nextKs, nextKey, ephemeral, pending, deferred, work, history>>

-----------------------------------------------------------------------------
(* Binder calls *)

Start(why, auth, to) ==
  /\ pc' = to
  /\ call' = [NoCall EXCEPT !.why = why, !.auth = auth, !.paths = get_ce_key_paths,
                !.fix = IF get_ce_key_paths = {} THEN 0 ELSE Max(get_ce_key_paths)]

\* fscrypt_set_user_key_protection: the key is new, or is read with the empty
\* authentication, or is lost and made again.
fscrypt_set_user_key_protection ==
  /\ pc = "idle" /\ ~ephemeral
  /\ secured' = FALSE
  /\ \/ /\ newKey # 0
        /\ pc' = "store"
        /\ call' = [NoCall EXCEPT !.why = "reprotect", !.key = newKey]
        /\ UNCHANGED <<installed, newKey, nextKey>>
     \/ /\ newKey = 0 /\ get_ce_key_paths # {}
        /\ Start("reprotect", "empty", "retrieve")
        /\ UNCHANGED <<installed, newKey, nextKey>>
     \/ /\ newKey = 0 /\ get_ce_key_paths = {} /\ nextKey <= MaxKey
        /\ newKey' = nextKey /\ installed' = nextKey /\ nextKey' = nextKey + 1
        /\ pc' = "store"
        /\ call' = [NoCall EXCEPT !.why = "reprotect", !.key = nextKey]
  /\ UNCHANGED <<device, view, stable, ks, nextKs, ephemeral, pending, deferred, work, history>>

\* storeKeyAtomically: the directory appears under its name complete, and is
\* synced; each part may fail.
StoreKey ==
  /\ pc = "store"
  /\ \/ /\ get_ce_key_new_path <= MaxPath
        /\ view' = [view EXCEPT ![get_ce_key_new_path] =
                      [NoDir EXCEPT !.auth = "secret", !.key = call.key]]
        /\ call' = [call EXCEPT !.fix = get_ce_key_new_path, !.paths = get_ce_key_paths]
        /\ pc' = "store sync"
     \/ Done /\ UNCHANGED view
  /\ UNCHANGED <<device, stable, ks, nextKs, nextKey, memory, pending, deferred, work,
                 secured, history>>

StoreSync ==
  /\ pc = "store sync"
  /\ \/ stable' = SyncAll /\ pc' = "decide" /\ UNCHANGED <<call, risk>>
     \/ Done /\ risk' = risk \cup {"unsynced"} /\ UNCHANGED stable
  /\ UNCHANGED <<device, view, ks, nextKs, nextKey, memory, pending, deferred, work, secured,
                 retired>>

\* "if a userdata filesystem checkpoint is pending, then we need to delay the
\* fixation until the checkpoint has been committed"
FixateNow == ~cp

Decide ==
  /\ pc = "decide"
  /\ \/ /\ ~FixateNow
        /\ deferred' = call.fix /\ newKey' = 0 /\ secured' = TRUE
        /\ Done
     \/ /\ FixateNow
        /\ deferred' = NoPath
        /\ pc' = "fixate"
        /\ call' = [call EXCEPT !.why = "protect", !.sync = call.paths # {}]
        /\ UNCHANGED <<newKey, secured>>
  /\ UNCHANGED <<device, view, stable, ks, nextKs, nextKey, installed, ephemeral, pending,
                 work, history>>

\* fscrypt_unlock_user_key.  Once the key is protected by the secret, the
\* framework unlocks with it.
fscrypt_unlock_user_key(auth) ==
  /\ pc = "idle" /\ installed = 0 /\ get_ce_key_paths # {}
  /\ auth = "empty" => ~secured
  /\ Start("unlock", auth, "retrieve")
  /\ UNCHANGED <<device, view, stable, ks, nextKs, nextKey, memory, pending, deferred,
                 work, secured, history>>

\* fscrypt_lock_user_key: evict_ce_key
fscrypt_lock_user_key ==
  /\ pc = "idle" /\ installed # 0
  /\ installed' = 0 /\ newKey' = 0
  /\ UNCHANGED <<device, view, stable, ks, nextKs, nextKey, ephemeral, pending, deferred,
                 work, pc, call, secured, history>>

\* fscrypt_vold_create_user_key: the DE key is stored, the CE key only installed.
\* The framework calls it for a new user, which has no keys yet.
fscrypt_vold_create_user_key(eph) ==
  /\ pc = "idle" /\ installed = 0 /\ nextKey + 1 <= MaxKey
  /\ \A d \in Dirs : view[d] = NoDir
  /\ \/ eph /\ UNCHANGED <<view, stable, ks, nextKs, newKey>>
     \/ /\ ~eph /\ nextKs <= MaxKs
        /\ LET b == [id |-> nextKs, ver |-> sys] IN
           /\ ks' = ks \cup {b}
           /\ view' = [view EXCEPT ![DE] = [auth |-> "empty", key |-> nextKey, blob |-> b,
                                            up |-> NoBlob]]
        /\ stable' = IF cp THEN stable ELSE view'
        /\ nextKs' = nextKs + 1
        /\ newKey' = nextKey + 1
  /\ installed' = nextKey + 1 /\ nextKey' = nextKey + 2
  /\ ephemeral' = (ephemeral \/ eph)
  /\ UNCHANGED <<device, pending, deferred, work, pc, call, secured, history>>

\* fscrypt_destroy_user_key: evicts the keys, destroys every directory.
fscrypt_destroy_user_key ==
  /\ pc = "idle"
  /\ installed' = 0 /\ newKey' = 0 /\ ephemeral' = FALSE
  /\ \/ ephemeral /\ UNCHANGED <<pc, call, deferred>>
     \/ /\ ~ephemeral
        /\ pc' = "destroy"
        /\ call' = [NoCall EXCEPT !.why = "destroy",
                      !.paths = get_ce_key_paths \cup {d \in {DE} : view[d] # NoDir}]
        /\ deferred' = NoPath
  /\ secured' = FALSE
  /\ retired' = retired \cup {view[d].key : d \in Dirs} \cup {stable[d].key : d \in Dirs}
  /\ UNCHANGED <<device, view, stable, ks, nextKs, nextKey, pending, work, risk>>

DestroyNext ==
  /\ pc = "destroy"
  /\ \/ call.paths = {} /\ Done /\ UNCHANGED <<view, ks, pending>>
     \/ /\ call.paths # {}
        /\ destroyKey(Max(call.paths))
        /\ call' = [call EXCEPT !.paths = @ \ {Max(call.paths)}] /\ UNCHANGED pc
  /\ UNCHANGED <<device, stable, nextKs, nextKey, memory, deferred, work, secured, history>>

-----------------------------------------------------------------------------
(* DoCheckpointCommittedWork *)

\* Mutant of WorkBegin: only pending key commits start the work.
WorkBeginForKeysOnly ==
  /\ pc = "idle" /\ work = "started" /\ pending # {}
  /\ pc' = "work" /\ call' = [NoCall EXCEPT !.why = "work", !.paths = pending]
  /\ UNCHANGED <<device, view, stable, ks, nextKs, nextKey, memory, pending, deferred,
                 work, secured, history>>

WorkBegin ==
  /\ pc = "idle" /\ work = "started"
  /\ pc' = "work" /\ call' = [NoCall EXCEPT !.why = "work", !.paths = pending]
  /\ UNCHANGED <<device, view, stable, ks, nextKs, nextKey, memory, pending, deferred,
                 work, secured, history>>

\* DeferredCommitKeystoreKeys: CommitUpgradedKey for each pending directory; one
\* without an upgraded blob is skipped.
WorkCommitKey(p) ==
  /\ pc = "work" /\ p \in call.paths
  /\ call' = [call EXCEPT !.paths = @ \ {p}, !.fix = p, !.old = view[p].blob]
  /\ IF view[p].up = NoBlob THEN UNCHANGED <<view, pc>>
     ELSE /\ view' = [view EXCEPT ![p].blob = view[p].up, ![p].up = NoBlob]
          /\ pc' = "upgrade sync"
  /\ UNCHANGED <<device, stable, ks, nextKs, nextKey, memory, pending, deferred, work,
                 secured, history>>

\* Mutant of WorkFixate: the fixations are dropped with the key commits.
WorkFixateForgotten ==
  /\ pc = "work" /\ call.paths = {}
  /\ pending' = {} /\ deferred' = NoPath /\ work' = "done"
  /\ Done
  /\ UNCHANGED <<device, view, stable, ks, nextKs, nextKey, memory, secured, history>>

\* fscrypt_deferred_fixate_ce_keys
WorkFixate ==
  /\ pc = "work" /\ call.paths = {}
  /\ pending' = {} /\ deferred' = NoPath /\ work' = "done"
  /\ \/ deferred = NoPath /\ Done
     \/ /\ deferred # NoPath
        /\ pc' = "fixate"
        /\ LET others == get_ce_key_paths \ {deferred} IN
           call' = [call EXCEPT !.fix = deferred, !.paths = others, !.sync = others # {}]
  /\ UNCHANGED <<device, view, stable, ks, nextKs, nextKey, memory, secured, history>>

-----------------------------------------------------------------------------
(* The checkpoint and the device (external) *)

\* cp_commitChanges marks the slot, then makes userdata permanent.
CommitMark ==
  /\ cp /\ ~slotMarked /\ slotMarked' = TRUE
  /\ UNCHANGED <<sys, cp, view, stable, ks, nextKs, nextKey, memory, pending, deferred,
                 work, pc, call, secured, history>>

\* The deferred work is not started if the metadata file cannot be removed.
Commit ==
  /\ cp /\ slotMarked /\ cp' = FALSE
  /\ stable' = view
  /\ work' \in {"started", "done"}
  /\ UNCHANGED <<sys, slotMarked, view, ks, nextKs, nextKey, memory, pending, deferred,
                 pc, call, secured, history>>

\* The file system writes back what it likes, when it is not held.
Writeback ==
  /\ ~cp /\ stable # view /\ stable' = view
  /\ UNCHANGED <<device, view, ks, nextKs, nextKey, memory, pending, deferred, work, pc,
                 call, secured, history>>

\* Reboot, into system v: fscrypt_init_user0 loads the DE keys first.
Boot(v, marked, checkpoint) ==
  /\ nextKs + 2 <= MaxKs
  /\ sys' = v /\ slotMarked' = marked /\ cp' = checkpoint
  /\ view' = stable
  /\ installed' = 0 /\ newKey' = 0 /\ ephemeral' = FALSE
  /\ pending' = {} /\ deferred' = NoPath /\ work' = "none"
  /\ pc' = (IF stable[DE] = NoDir THEN "idle" ELSE "retrieve") /\ call' = NoCall
  /\ secured' = FALSE
  /\ UNCHANGED <<stable, ks, nextKs, nextKey, history>>

\* Any reboot: a checkpoint is taken when the slot is not marked, or on request.
Crash ==
  \/ \E checkpoint \in BOOLEAN : slotMarked /\ Boot(sys, TRUE, checkpoint)
  \/ ~slotMarked /\ Boot(sys, FALSE, TRUE)
  \/ \E checkpoint \in BOOLEAN : ~slotMarked /\ Boot(sys - 1, TRUE, checkpoint)

\* A reboot into an updated system.
Update == sys < MaxSys /\ slotMarked /\ ~cp /\ Boot(sys + 1, FALSE, TRUE)

-----------------------------------------------------------------------------
\* A user of an older system: the CE key is bound to a Keystore key, in
\* "current" or, after a crash in fixate_user_ce_key, in another directory.
Init ==
  /\ sys = 0 /\ slotMarked = TRUE /\ cp = FALSE
  /\ ks = {[id |-> 1, ver |-> 0], [id |-> 2, ver |-> 0]} /\ nextKs = 3
  /\ \E p \in {0, 1} \cap Paths :
       view = [d \in Dirs |->
                 CASE d = DE -> [NoDir EXCEPT !.auth = "empty", !.key = 1,
                                              !.blob = [id |-> 1, ver |-> 0]]
                   [] d = p -> [NoDir EXCEPT !.auth = "empty", !.key = 2,
                                             !.blob = [id |-> 2, ver |-> 0]]
                   [] OTHER -> NoDir]
  /\ stable = view
  /\ nextKey = 3 /\ installed = 0 /\ newKey = 0 /\ ephemeral = FALSE
  /\ pending = {} /\ deferred = NoPath /\ work = "none"
  /\ pc = "retrieve" /\ call = NoCall
  /\ secured = FALSE /\ risk = {} /\ retired = {}

KeyCall ==
  \/ retrieveKey
  \/ ScheduleOrCommit
  \/ CommitUpgradedKeySync
  \/ CommitUpgradedKeyDelete
  \/ ReadFound
  \/ FixateDestroy
  \/ FixateRename
  \/ FixateSync
  \/ StoreKey
  \/ StoreSync
  \/ Decide
  \/ DestroyNext
  \/ \E p \in Dirs : WorkCommitKey(p)
  \/ WorkFixate

Next ==
  \/ KeyCall
  \/ fscrypt_set_user_key_protection
  \/ \E auth \in {"empty", "secret"} : fscrypt_unlock_user_key(auth)
  \/ fscrypt_lock_user_key
  \/ \E eph \in BOOLEAN : fscrypt_vold_create_user_key(eph)
  \/ fscrypt_destroy_user_key
  \/ WorkBegin
  \/ CommitMark
  \/ Commit
  \/ Writeback
  \/ Crash
  \/ Update

Spec == Init /\ [][Next]_vars

\* A call that holds mCryptLock goes on, and the detached thread that waits for
\* the lock gets it in the end.
Fairness == WF_vars(KeyCall) /\ SF_vars(WorkBegin)

FairSpec == Spec /\ Fairness

-----------------------------------------------------------------------------
(* Properties *)

\* The directory d can be read by the system v after a reboot.
Readable(d, v) ==
  \/ d.auth = "secret"
  \/ d.auth = "empty" /\ d.blob \in ks /\ d.blob.ver <= v

\* Whatever system a reboot brings up, it can read the key k.
Recoverable(k) ==
  \A v \in BootSystems : \E p \in Dirs : stable[p].key = k /\ Readable(stable[p], v)

\* No key is ever lost: a key that could be read after a reboot at this moment can
\* still be read after the next step, through upgrades, changes of protection,
\* commits, rollbacks and crashes, until the user is destroyed.  Left out: a fsync
\* that failed, and the fixation of KeyKeptUnderCheckpoint.
KeyKept ==
  [][\A k \in (1..MaxKey) \ retired :
       Recoverable(k) /\ risk' = {} => Recoverable(k)']_vars

\* "deleting keys from Keystore cannot be rolled back": while a checkpoint is
\* pending, nothing but the removal of the user makes a key unreadable that the
\* rollback needs.
KeyKeptUnderCheckpoint ==
  [][\A k \in (1..MaxKey) \ retired :
       cp /\ Recoverable(k) /\ "unsynced" \notin risk => Recoverable(k)']_vars

\* The lists of deferred work point to what they promise: an upgraded blob that
\* Keystore knows, and a directory bound to the secret.  Otherwise the work would
\* destroy the only good key.
DeferredWorkValid ==
  /\ \A p \in pending : pc # "work" /\ pc # "upgrade sync" /\ pc # "upgrade delete"
                          => view[p].up \in ks
  /\ deferred # NoPath => view[deferred].auth = "secret"

\* Once fscrypt_set_user_key_protection has succeeded and its fixation is not
\* deferred, no directory lets anyone read the CE key without the secret.
SecretOnly ==
  secured /\ pc = "idle" /\ deferred = NoPath =>
    \A p \in get_ce_key_paths : view[p].auth = "secret"

\* A fixation deferred to the commit is done after it, unless the device reboots.
FixationHappens ==
  (work = "started" /\ deferred # NoPath) ~> (deferred = NoPath)
=============================================================================
