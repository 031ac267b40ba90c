------------------------------ MODULE AppDirs -------------------------------
(***************************************************************************)
(* The directories of one app on shared storage, as setupAppDir,           *)
(* ensureAppDirsCreated and fixupAppDir of VolumeManager.cpp make and      *)
(* repair them (PrepareAppDirFromRoot and FixupAppDir of Utils.cpp): who   *)
(* owns them, and to which quota project their content is counted.         *)
(*                                                                         *)
(* A path is the sequence of its components below Android/: the kind of    *)
(* directory (data, media, obb), the package, and what is in it.  A call   *)
(* runs under mLock and is one step; one that fails, or in which vold      *)
(* dies, stops after any of its system calls.  Between calls the app and   *)
(* others (a file manager over MTP, an installer) make and remove entries. *)
(* Calls that find no mounted, writable volume for the path change nothing *)
(* and are no step; a list of paths is as many calls.                      *)
(***************************************************************************)
EXTENDS Naturals, Sequences, SequencesExt

CONSTANT Paths   \* the entries that there may be, with those that they are in

ASSUME AppDirsAssumption ==
  \A p \in Paths : /\ Len(p) >= 2 /\ p[1] \in {"data", "media", "obb"}
                   /\ Len(p) > 2 => Front(p) \in Paths

VARIABLES
  volume,    \* the volume: "emulated", "sdcardfs" (below sdcardfs), "public"
  tree,      \* tree[p]: the attributes of an entry that exists
  prepared   \* history: the directories that a call has finished

vars == <<volume, tree, prepared>>

Exists(t, p) == p \in DOMAIN t

-----------------------------------------------------------------------------
(* File system *)

\* A new entry takes the project and the flags of its directory, if that has
\* FS_PROJINHERIT_FL.  History: early, it or its directory was made in one that was not
\* finished; made, it was made in one that was; swept, it was counted with its directory.
NewEntry(t, p, owner) ==
  LET up == Front(p)
      in == Exists(t, up)
      flag == in /\ t[up].inherit
  IN [owner |-> owner, project |-> IF flag THEN t[up].project ELSE "none",
      inherit |-> flag, acl |-> in /\ t[up].acl,
      early |-> in /\ t[up].early, swept |-> in /\ t[up].swept, made |-> FALSE]

Put(t, p, entry) == [q \in DOMAIN t \cup {p} |-> IF q = p THEN entry ELSE t[q]]

\* The system calls: fs_prepare_dir, chown and chmod of an entry, SetQuotaProjectId of a
\* directory on the path or of an entry in one, SetDefaultAcl, SetQuotaInherit, mkdir.
Call(do, p, project) == [do |-> do, path |-> p, project |-> project]

IsCache(p) == Len(p) = 3 /\ p[1] = "data" /\ p[3] = "cache"

Effect(t, c) ==
  LET p == c.path IN
  CASE c.do = "prepare" ->
         Put(t, p, IF Exists(t, p) THEN [t[p] EXCEPT !.owner = "app"] ELSE NewEntry(t, p, "app"))
    [] c.do = "mkdir"   -> IF Exists(t, p) THEN t ELSE Put(t, p, NewEntry(t, p, "other"))
    [] c.do = "chown"   -> [t EXCEPT ![p].owner = "app"]
    [] c.do = "project" -> [t EXCEPT ![p].project = c.project, ![p].swept = FALSE]
    [] c.do = "entry"   -> [t EXCEPT ![p].project = c.project, ![p].swept = IsCache(p)]
    [] c.do = "acl"     -> [t EXCEPT ![p].acl = TRUE]
    [] c.do = "inherit" -> [t EXCEPT ![p].inherit = TRUE]

-----------------------------------------------------------------------------
(* The calls *)

Prefix(path, k) == SubSeq(path, 1, k)

\* Mutant of ProjectId: only the cache directory itself counts as cache.
ProjectIdNotSticky(path, k) ==
  IF path[1] = "obb" THEN "obb" ELSE IF IsCache(Prefix(path, k)) THEN "cache" ELSE "data"

\* The project of component k: that of the app, and from the cache directory on its cache.
ProjectId(path, k) ==
  IF path[1] = "obb" THEN "obb"
  ELSE IF \E i \in 2..k : IsCache(Prefix(path, i)) THEN "cache" ELSE "data"

PrepareDirWithProjectId(path, k) ==
  <<Call("prepare", Prefix(path, k), "none")>> \o
  IF volume = "sdcardfs" THEN <<>> ELSE <<Call("project", Prefix(path, k), ProjectId(path, k))>>

\* The directory, and then everything in it, gets the project of the directory.
FixupAppDir(path, k) ==
  LET entries == SetToSeq({p \in DOMAIN tree : Len(p) = k + 1 /\ Front(p) = Prefix(path, k)}) IN
  PrepareDirWithProjectId(path, k) \o
  FlattenSeq([i \in DOMAIN entries |->
                <<Call("chown", entries[i], "none"), Call("entry", entries[i], ProjectId(path, k))>>])

\* Attributes of the directory of the package, before anything is made in it.
TopLevel(path, k) ==
  IF k = 2 /\ volume # "sdcardfs"
  THEN <<Call("acl", Prefix(path, k), "none"), Call("inherit", Prefix(path, k), "none")>> ELSE <<>>

\* Mutant of PrepareAppDirFromRoot: these attributes are set in the end.
PrepareTopLevelLast(path, fixup) ==
  FlattenSeq([i \in 1..(Len(path) - 1) |->
    IF fixup THEN FixupAppDir(path, i + 1) ELSE PrepareDirWithProjectId(path, i + 1)]) \o TopLevel(path, 2)

\* The system calls for a path.  A path that is repaired exists with all its components.
PrepareAppDirFromRoot(path, fixup) ==
  FlattenSeq([i \in 1..(Len(path) - 1) |->
    (IF fixup THEN FixupAppDir(path, i + 1) ELSE PrepareDirWithProjectId(path, i + 1)) \o
    TopLevel(path, i + 1)])

\* fs_mkdirs on a public volume, where FUSE does the rest.
MakeDirs(path) == [i \in 1..(Len(path) - 1) |-> Call("mkdir", Prefix(path, i + 1), "none")]

\* The first n system calls are made.
setup(path, fixup) ==
  LET calls == IF volume = "public" THEN MakeDirs(path) ELSE PrepareAppDirFromRoot(path, fixup) IN
  /\ \E n \in 0..Len(calls) :
       /\ tree' = FoldLeft(Effect, tree, SubSeq(calls, 1, n))
       /\ prepared' = IF n = Len(calls) /\ volume # "public"
                      THEN prepared \cup {Prefix(path, k) : k \in 2..Len(path)} ELSE prepared
  /\ UNCHANGED volume

setupAppDir(path) == setup(path, FALSE)

\* For a bind mount it is enough that the directory exists.
ensureAppDirsCreated(path) == ~Exists(tree, path) /\ setup(path, FALSE)

\* sdcardfs does this itself.
fixupAppDir(path) == volume # "sdcardfs" /\ Exists(tree, path) /\ setup(path, TRUE)

-----------------------------------------------------------------------------
(* Apps *)

Create(p, owner) ==
  LET entry == NewEntry(tree, p, owner)
      up == Front(p)
      late == up \in prepared /\ ~tree[up].early
  IN
  /\ ~Exists(tree, p)
  /\ IF Len(p) = 2 THEN owner = "other" ELSE Exists(tree, up) /\ owner \in {tree[up].owner, "other"}
  /\ tree' = Put(tree, p, [entry EXCEPT !.early = Len(p) > 2 /\ ~late, !.made = late])
  /\ UNCHANGED <<volume, prepared>>

Delete(p) ==
  /\ Exists(tree, p)
  /\ LET kept == {q \in DOMAIN tree : ~IsPrefix(p, q)} IN
     /\ tree' = [q \in kept |-> tree[q]]
     /\ prepared' = prepared \cap kept
  /\ UNCHANGED volume

-----------------------------------------------------------------------------

Init ==
  /\ volume \in {"emulated", "sdcardfs", "public"}
  /\ tree = <<>> /\ prepared = {}

Next ==
  \E p \in Paths :
    \/ setupAppDir(p) \/ ensureAppDirsCreated(p) \/ fixupAppDir(p)
    \/ \E owner \in {"app", "other"} : Create(p, owner)
    \/ Delete(p)

Spec == Init /\ [][Next]_vars

-----------------------------------------------------------------------------
(* Properties *)

\* What an entry is to be counted as: whatever is in the cache of the app, at any depth, as
\* cache.
Counts(p) ==
  IF p[1] = "obb" THEN "obb"
  ELSE IF p[1] = "data" /\ Len(p) > 2 /\ p[3] = "cache" THEN "cache" ELSE "data"

\* A directory that a call has finished belongs to the app and is counted rightly, and later
\* calls, also those that fail half-way, leave it so.  The exception is a cache directory
\* whose parent was repaired without it.
PreparedRight ==
  \A p \in prepared :
    /\ tree[p].owner = "app"
    /\ volume = "emulated" => tree[p].swept \/ tree[p].project = Counts(p)

\* What an app makes in a finished directory is counted rightly by itself.  Exceptions:
\* that directory was made before the directory of the package was finished, or is a
\* cache directory whose parent was repaired without it; and a cache directory that the
\* app makes itself, which inherits the project of the data until a call has finished it.
GrowthCounted ==
  volume = "emulated" =>
    \A p \in DOMAIN tree :
      tree[p].made /\ ~tree[p].swept =>
        tree[p].project = Counts(p) \/ (IsCache(p) /\ p \notin prepared)
=============================================================================
