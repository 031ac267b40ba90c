---------------------------- MODULE MoveStorage -----------------------------
(***************************************************************************)
(* MoveStorage.cpp composed with Volumes: a detached thread copies the     *)
(* shared storage from one emulated volume to another.  It holds mLock     *)
(* only while it takes both volumes offline and while it brings them back, *)
(* and it keeps its references to them in between, so every handler of     *)
(* Volumes can come between two of its steps.                              *)
(*                                                                         *)
(* A volume that a handler takes out of its list during the move has been  *)
(* destroyed; the thread's reference keeps the object, and the CHECK of    *)
(* its next destroy() fails.  Such a volume is lost to the move.           *)
(*                                                                         *)
(* External: the framework asks for one move at a time, between emulated   *)
(* volumes of one user on different storage.                               *)
(***************************************************************************)
EXTENDS Volumes

VARIABLES
  move,     \* the thread: what it does, its volumes, which of them are lost;
            \* and of this move or the last one: where (src, dst) a complete copy
            \* of the data is, and (history) whether execCp was content with a
            \* source that it could not read to its end
  silent    \* volumes with mSilent: no listener is called for them

moveVars == <<vars, move, silent>>

EmulatedVolumes == Stacked \cup Internal
NoMove == [pc |-> "none", from |-> None, to |-> None, lost |-> {},
           src |-> TRUE, dst |-> FALSE, unread |-> FALSE]

UserOf(v) == IF v[3] = Boot THEN UserZero ELSE v[3]    \* mMountUserId

Both == {move.from, move.to}
MoveTo(label) == move' = [move EXCEPT !.pc = label]

\* The thread is gone; the data is where it has left it.
MoveEnded(src) == move' = [NoMove EXCEPT !.src = src, !.dst = move.dst, !.unread = move.unread]

-----------------------------------------------------------------------------
\* The binder call looks both volumes up and starts the thread.
moveStorage(from, to) ==
  /\ move.pc = "none"
  /\ from[2] # to[2] /\ UserOf(from) = UserOf(to)
  /\ from \in findVolume /\ to \in findVolume
  /\ move' = [NoMove EXCEPT !.pc = "offline", !.from = from, !.to = to]
  /\ UNCHANGED <<vars, silent>>

\* CHECK(mCreated) in VolumeBase::destroy.
DestroyLost ==
  /\ move.lost # {}
  /\ aborted' = TRUE
  /\ UNCHANGED <<env, vols, created, mounted, started, keyguard, framework, heard, down, clash,
                 move, silent>>

\* bringOffline for both, under mLock: destroyed, created again in silence, and
\* mounted for nobody to see (either mount may fail).
bringOffline(nowMounted) ==
  /\ move.pc = "offline" /\ move.lost = {}
  /\ mounted' = (mounted \ Both) \cup nowMounted
  /\ silent' = silent \cup Both
  /\ heard' = heard \ Both
  /\ MoveTo("clean")
  /\ UNCHANGED <<env, vols, created, started, keyguard, framework, down, aborted, clash>>

\* execRm on the target.
CleanTarget ==
  /\ move.pc = "clean"
  /\ MoveTo("copy") \/ MoveTo("fail")
  /\ UNCHANGED <<vars, silent>>

\* Mutant of CopyData: the result of execCp is not looked at.
CopyDataUnchecked ==
  /\ move.pc = "copy"
  /\ \E copied \in BOOLEAN : move' = [move EXCEPT !.pc = "online", !.dst = copied]
  /\ UNCHANGED <<vars, silent>>

\* execCp: it copies all, or it fails; or it returns OK with nothing or only a part
\* copied, because it takes a source that cannot be opened, or an error of readdir,
\* for the end of the source.
CopyData ==
  /\ move.pc = "copy"
  /\ \/ move' = [move EXCEPT !.pc = "online", !.dst = TRUE]
     \/ move' = [move EXCEPT !.pc = "online", !.unread = TRUE]
     \/ MoveTo("undo")
  /\ UNCHANGED <<vars, silent>>

\* bringOnline for both, under mLock: destroyed, and created for all to hear.
BringOnline ==
  /\ move.lost = {}
  /\ mounted' = mounted \ Both
  /\ silent' = silent \ Both
  /\ heard' = IF framework = "synced" THEN heard \cup Both ELSE {}
  /\ UNCHANGED <<env, vols, created, started, keyguard, framework, down, aborted, clash>>

bringOnline == move.pc = "online" /\ BringOnline /\ MoveTo("delete")

\* execRm on the source: whether it succeeds or fails, files have gone or none has
\* (a source that cannot be opened is empty to execRm too).
DeleteSource ==
  /\ move.pc = "delete"
  /\ \E src \in BOOLEAN : MoveEnded(src) \/ move' = [move EXCEPT !.pc = "fail", !.src = src]
  /\ UNCHANGED <<vars, silent>>

\* copy_fail: the target is cleaned up again, whatever comes of it.
UndoCopy ==
  /\ move.pc = "undo"
  /\ MoveTo("fail")
  /\ UNCHANGED <<vars, silent>>

\* Mutant of MoveFail: the volumes are left as they are.
MoveFailSilently ==
  /\ move.pc = "fail" /\ move.lost = {}
  /\ MoveEnded(move.src)
  /\ UNCHANGED <<vars, silent>>

\* fail: the volumes are brought online, even if they are.
MoveFail == move.pc = "fail" /\ BringOnline /\ MoveEnded(move.src)

MoveStep ==
  \/ \E nowMounted \in SUBSET Both : bringOffline(nowMounted)
  \/ CleanTarget
  \/ CopyData
  \/ bringOnline
  \/ DeleteSource
  \/ UndoCopy
  \/ MoveFail
  \/ move.pc \in {"offline", "online", "fail"} /\ DestroyLost

\* The effect of a handler on the move: what has left its list is lost.
NoticeLost ==
  /\ silent' = silent \cap vols'
  /\ move' = IF move.pc = "none" THEN move ELSE [move EXCEPT !.lost = @ \cup (Both \ vols')]

\* vold ends, and the thread with it, in the middle of execRm perhaps.
MoveCut ==
  /\ Restart /\ silent' = {}
  /\ \E src \in {move.src, move.src /\ move.pc # "delete"} : MoveEnded(src)

MoveInit == Init /\ move = NoMove /\ silent = {}

MoveNext ==
  \/ ~aborted /\ Handler /\ NoticeLost
  \/ ~aborted /\ \E from, to \in EmulatedVolumes : moveStorage(from, to)
  \/ ~aborted /\ MoveStep
  \/ MoveCut

MoveSpec == MoveInit /\ [][MoveNext]_moveVars

-----------------------------------------------------------------------------
(* Properties *)

\* At every moment of a move and after it, whatever step of it fails, whatever
\* happens to the volumes meanwhile and wherever vold ends, the source or the target
\* has a complete copy of the data; unless execCp could not read the source to its
\* end and took what it saw for all there is.
MoveKeepsData == move.src \/ move.dst \/ move.unread

\* However a move ends, the volumes it hid from the framework are announced again:
\* without a move no volume is silent, and a synced framework has heard of every
\* volume that is not.
VolumesComeBack ==
  /\ move.pc = "none" => silent = {}
  /\ framework = "synced" => /\ heard \subseteq created \ silent
                             /\ (created \ silent) \ heard \subseteq ObbVolumes
=============================================================================
