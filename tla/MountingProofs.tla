--------------------------- MODULE MountingProofs ---------------------------
(***************************************************************************)
(* Proofs about Mounting, for any processes, devices and sets of volumes,  *)
(* and any number of failing calls.                                        *)
(*                                                                         *)
(* The mounts of a volume match its state because of what is known of      *)
(* those that are there: Removable says that doUnmount would unmount every *)
(* one of them, which depends on mFuseMounted and mSharedStorageMountPath, *)
(* and on the device.  The steps of doMount are taken apart first: what    *)
(* each kind of volume mounts altogether, and what it has mounted before   *)
(* each step that may fail, from which follow MountedWillGo (a mount that  *)
(* succeeds keeps Removable) and CleanUpComplete (one that fails leaves    *)
(* nothing, except at the steps of KnownLeak).  Only the clone's mount     *)
(* touches a mount point of another volume, and it finds the owner's in    *)
(* the state that PrimarySound gives.                                      *)
(***************************************************************************)
EXTENDS Mounting, TLAPS

TypeOK ==
  /\ dev \subseteq {"sdcardfs", "isolation", "bpf"} /\ present \subseteq Volumes
  /\ state \in [Volumes -> {"unmounted", "unmountable", "mounted"}]
  /\ primary \subseteq Volumes /\ fuse \subseteq Volumes /\ shared \subseteq Users
  /\ pinned \subseteq Volumes /\ leaky \subseteq Volumes
  /\ mounts \in [Points -> Nat]
  /\ views \in [Procs -> SUBSET {"data", "obb"}]

\* A primary volume is mounted, and that of a user with FUSE.
PrimarySound ==
  /\ \A v \in primary : state[v] = "mounted"
  /\ primary \cap Users \subseteq fuse

\* What of a volume is mounted, its doUnmount would unmount.
Removable ==
  \A v \in Volumes \ leaky : \A p \in PointsOf(v) :
    mounts[p] > 0 => p \in UnmountedByDoUnmount(v, v \in fuse)

\* NoOrphanedViews, also while the owner's storage is mounted without FUSE.
ViewsFollow ==
  "isolation" \in dev /\ "bpf" \notin dev /\ ~(state["owner"] = "mounted" /\ "owner" \in fuse)
  => \A p \in Procs : "obb" \in views[p] => Nerve[p] > 3

-----------------------------------------------------------------------------
(* Mount points *)

\* The mount points of a volume are mount points, its second part names the volume.
LEMMA PointsIn ==
  ASSUME NEW v \in Volumes PROVE PointsOf(v) \subseteq Points
BY DEF Points

LEMMA PointsApart ==
  ASSUME NEW v \in Volumes, NEW p \in PointsOf(v) PROVE p[2] = v
BY DEF PointsOf, Raw, Asec, SdcardFs, Fuse, PassThrough, Shared, Volumes, Users

\* The mount points by name.
LEMMA PointsOfUser ==
  ASSUME NEW u \in Users
  PROVE  /\ Fuse(u) \in PointsOf(u) /\ PassThrough(u) \in PointsOf(u) /\ Shared(u) \in PointsOf(u)
         /\ Bind("data", u) \in PointsOf(u) /\ Bind("obb", u) \in PointsOf(u)
         /\ Bind("installer", u) \in PointsOf(u)
         /\ u = "owner" => SdcardFs(u) \in PointsOf(u)
BY DEF PointsOf, SdcardFs, Fuse, PassThrough, Shared, Bind, Dirs, Users

LEMMA PointsOfOthers ==
  /\ {Raw("public"), Asec, SdcardFs("public"), Fuse("public"), PassThrough("public")} \subseteq PointsOf("public")
  /\ Raw("private") \in PointsOf("private") /\ Raw("obb") \in PointsOf("obb")
BY DEF PointsOf, SdcardFs, Fuse, PassThrough, Raw, Asec

-----------------------------------------------------------------------------
(* Steps *)

\* A step and what it mounts; all that a row of steps mounts.
Step == AllSteps \X SUBSET Points
Mounts(s) == UNION {s[i][2] : i \in DOMAIN s}

\* Done and Mounts, by element.
LEMMA InDone ==
  ASSUME NEW s, NEW f, NEW p
  PROVE  p \in Done(s, f) <=> \E i \in DOMAIN s : p \in s[i][2] /\ \A k \in 1..i : s[k][1] # f
BY DEF Done

LEMMA InMounts ==
  ASSUME NEW s, NEW p PROVE p \in Mounts(s) <=> \E i \in DOMAIN s : p \in s[i][2]
BY DEF Mounts

\* Before a step at most all is mounted, and all of it if no step fails.
LEMMA DoneSome == ASSUME NEW s, NEW f PROVE Done(s, f) \subseteq Mounts(s)
BY DEF Mounts, Done

LEMMA DoneAll ==
  ASSUME NEW s \in Seq(Step), NEW f, f \notin Names(s) PROVE Done(s, f) = Mounts(s)
<1>1. ASSUME NEW i \in DOMAIN s, NEW k \in 1..i PROVE s[k][1] # f
  <2>1. k \in DOMAIN s OBVIOUS
  <2> QED BY <2>1 DEF Names
<1>2. ASSUME NEW p \in Mounts(s) PROVE p \in Done(s, f)
  <2>1. PICK i \in DOMAIN s : p \in s[i][2] BY InMounts
  <2> QED BY <1>1, <2>1, InDone
<1> QED BY <1>2, DoneSome

\* Steps in a row: names, mounts, and what is done before a step.
LEMMA ConcatAt ==
  ASSUME NEW s \in Seq(Step), NEW t \in Seq(Step), NEW i \in DOMAIN (s \o t)
  PROVE  \/ i \in DOMAIN s /\ (s \o t)[i] = s[i]
         \/ i \notin DOMAIN s /\ i - Len(s) \in DOMAIN t /\ (s \o t)[i] = t[i - Len(s)]
OBVIOUS

LEMMA NamesConcat ==
  ASSUME NEW s \in Seq(Step), NEW t \in Seq(Step) PROVE Names(s \o t) = Names(s) \cup Names(t)
<1>1. ASSUME NEW x \in Names(s \o t) PROVE x \in Names(s) \cup Names(t)
  <2>1. PICK i \in DOMAIN (s \o t) : x = (s \o t)[i][1] BY DEF Names
  <2> QED BY <2>1, ConcatAt DEF Names
<1>2. ASSUME NEW x \in Names(s) PROVE x \in Names(s \o t)
  <2>1. PICK i \in DOMAIN s : x = s[i][1] BY DEF Names
  <2>2. i \in DOMAIN (s \o t) /\ (s \o t)[i] = s[i] OBVIOUS
  <2> QED BY <2>1, <2>2 DEF Names
<1>3. ASSUME NEW x \in Names(t) PROVE x \in Names(s \o t)
  <2>1. PICK i \in DOMAIN t : x = t[i][1] BY DEF Names
  <2>2. i + Len(s) \in DOMAIN (s \o t) /\ (s \o t)[i + Len(s)] = t[i] OBVIOUS
  <2> QED BY <2>1, <2>2 DEF Names
<1> QED BY <1>1, <1>2, <1>3

LEMMA MountsConcat ==
  ASSUME NEW s \in Seq(Step), NEW t \in Seq(Step) PROVE Mounts(s \o t) = Mounts(s) \cup Mounts(t)
<1>1. ASSUME NEW x \in Mounts(s \o t) PROVE x \in Mounts(s) \cup Mounts(t)
  <2>1. PICK i \in DOMAIN (s \o t) : x \in (s \o t)[i][2] BY InMounts
  <2> QED BY <2>1, ConcatAt, InMounts
<1>2. ASSUME NEW x \in Mounts(s) PROVE x \in Mounts(s \o t)
  <2>1. PICK i \in DOMAIN s : x \in s[i][2] BY InMounts
  <2>2. i \in DOMAIN (s \o t) /\ (s \o t)[i] = s[i] OBVIOUS
  <2> QED BY <2>1, <2>2, InMounts
<1>3. ASSUME NEW x \in Mounts(t) PROVE x \in Mounts(s \o t)
  <2>1. PICK i \in DOMAIN t : x \in t[i][2] BY InMounts
  <2>2. i + Len(s) \in DOMAIN (s \o t) /\ (s \o t)[i + Len(s)] = t[i] OBVIOUS
  <2> QED BY <2>1, <2>2, InMounts
<1> QED BY <1>1, <1>2, <1>3

LEMMA DoneConcat ==
  ASSUME NEW s \in Seq(Step), NEW t \in Seq(Step), NEW f, NEW p \in Done(s \o t, f)
  PROVE  p \in Done(s, f) \/ (f \notin Names(s) /\ p \in Done(t, f))
<1>1. PICK i \in DOMAIN (s \o t) : p \in (s \o t)[i][2] /\ \A k \in 1..i : (s \o t)[k][1] # f
  BY InDone
<1>2. CASE i \in DOMAIN s
  <2>1. \A k \in 1..i : (s \o t)[k] = s[k] BY <1>2
  <2> QED BY <1>1, <1>2, <2>1, InDone
<1>3. CASE i \notin DOMAIN s
  <2>1. \A k \in DOMAIN s : k \in 1..i /\ (s \o t)[k] = s[k] BY <1>3
  <2>2. f \notin Names(s) BY <1>1, <2>1 DEF Names
  <2>3. i - Len(s) \in DOMAIN t /\ (s \o t)[i] = t[i - Len(s)] BY <1>3
  <2>4. \A k \in 1..(i - Len(s)) : k + Len(s) \in 1..i /\ (s \o t)[k + Len(s)] = t[k] BY <1>3, <2>3
  <2>5. \A k \in 1..(i - Len(s)) : t[k][1] # f BY <1>1, <2>4
  <2> QED BY <1>1, <2>2, <2>3, <2>5, InDone
<1> QED BY <1>2, <1>3

\* Short rows of steps.
LEMMA IsStep == ASSUME NEW n \in AllSteps, NEW S \in SUBSET Points PROVE <<n, S>> \in Step
BY DEF Step

LEMMA NoSteps == <<>> \in Seq(Step) /\ Names(<<>>) = {} /\ Mounts(<<>>) = {}
BY DEF Names, Mounts

LEMMA OneStep ==
  ASSUME NEW a \in Step
  PROVE  <<a>> \in Seq(Step) /\ Names(<<a>>) = {a[1]} /\ Mounts(<<a>>) = a[2]
BY DEF Names, Mounts

LEMMA TwoSteps ==
  ASSUME NEW a \in Step, NEW b \in Step
  PROVE  /\ <<a, b>> \in Seq(Step) /\ Names(<<a, b>>) = {a[1], b[1]}
         /\ Mounts(<<a, b>>) = a[2] \cup b[2]
BY DEF Names, Mounts

LEMMA ThreeSteps ==
  ASSUME NEW a \in Step, NEW b \in Step, NEW c \in Step
  PROVE  /\ <<a, b, c>> \in Seq(Step) /\ Names(<<a, b, c>>) = {a[1], b[1], c[1]}
         /\ Mounts(<<a, b, c>>) = a[2] \cup b[2] \cup c[2]
<1>1. <<a, b, c>> \in Seq(Step) /\ Names(<<a, b, c>>) = {a[1], b[1], c[1]} BY DEF Names
<1>2. Mounts(<<a, b, c>>) = a[2] \cup b[2] \cup c[2] BY DEF Mounts
<1> QED BY <1>1, <1>2

\* The pieces the code puts together: FUSE, sdcardfs, ASEC, the bind mounts.
LEMMA FuseStepsAre ==
  ASSUME NEW v \in Users \cup {"public"}
  PROVE  /\ FuseSteps(v) \in Seq(Step) /\ Names(FuseSteps(v)) = {"fuse", "pass", "ready"}
         /\ Mounts(FuseSteps(v)) = {Fuse(v), PassThrough(v)}
<1>1. Fuse(v) \in Points /\ PassThrough(v) \in Points
  BY PointsIn, PointsOfUser, PointsOfOthers DEF Volumes
<1> DEFINE a == <<"fuse", {Fuse(v)}>>
           b == <<"pass", {PassThrough(v)}>>
           c == <<"ready", {}>>
<1>2. a \in Step /\ b \in Step /\ c \in Step
  <2>1. {Fuse(v)} \in SUBSET Points /\ {PassThrough(v)} \in SUBSET Points /\ {} \in SUBSET Points BY <1>1
  <2>2. a \in Step BY <2>1, IsStep DEF AllSteps
  <2>3. b \in Step BY <2>1, IsStep DEF AllSteps
  <2>4. c \in Step BY <2>1, IsStep DEF AllSteps
  <2> QED BY <2>2, <2>3, <2>4
<1>3. FuseSteps(v) = <<a, b, c>> BY DEF FuseSteps
<1>4. a[1] = "fuse" /\ a[2] = {Fuse(v)} /\ b[1] = "pass" /\ b[2] = {PassThrough(v)}
      /\ c[1] = "ready" /\ c[2] = {}
  OBVIOUS
<1> HIDE DEF a, b, c
<1> QED BY <1>2, <1>3, <1>4, ThreeSteps

LEMMA SdcardFsStepsAre ==
  ASSUME NEW v \in {"owner", "public"}
  PROVE  /\ SdcardFsSteps(v) \in Seq(Step)
         /\ Names(SdcardFsSteps(v)) = IF "sdcardfs" \in dev THEN {"sdcardfs"} ELSE {}
         /\ Mounts(SdcardFsSteps(v)) = IF "sdcardfs" \in dev THEN {SdcardFs(v)} ELSE {}
<1>1. SdcardFs(v) \in Points
  BY PointsIn, PointsOfUser, PointsOfOthers DEF Volumes, Users
<1> DEFINE a == <<"sdcardfs", {SdcardFs(v)}>>
<1>2. a \in Step
  <2>1. {SdcardFs(v)} \in SUBSET Points BY <1>1
  <2> QED BY <2>1, IsStep DEF AllSteps
<1>3. SdcardFsSteps(v) = IF "sdcardfs" \in dev THEN <<a>> ELSE <<>> BY DEF SdcardFsSteps
<1>4. a[1] = "sdcardfs" /\ a[2] = {SdcardFs(v)} OBVIOUS
<1> HIDE DEF a
<1> QED BY <1>2, <1>3, <1>4, NoSteps, OneStep

LEMMA AsecStageIs ==
  ASSUME NEW fl
  PROVE  /\ initAsecStage(fl) \in Seq(Step)
         /\ Names(initAsecStage(fl)) \subseteq {"asec"}
         /\ Mounts(initAsecStage(fl)) \subseteq {Asec}
<1>1. Asec \in Points BY PointsIn, PointsOfOthers DEF Volumes
<1> DEFINE a == <<"asec", {Asec}>>
<1>2. a \in Step BY <1>1, IsStep DEF AllSteps
<1>3. initAsecStage(fl) = IF "primary" \in fl THEN <<a>> ELSE <<>> BY DEF initAsecStage
<1>4. a[1] = "asec" /\ a[2] = {Asec} OBVIOUS
<1> HIDE DEF a
<1> QED BY <1>2, <1>3, <1>4, NoSteps, OneStep

LEMMA ConcatIs ==
  ASSUME NEW s \in Seq(Step), NEW t \in Seq(Step)
  PROVE  /\ s \o t \in Seq(Step) /\ Names(s \o t) = Names(s) \cup Names(t)
         /\ Mounts(s \o t) = Mounts(s) \cup Mounts(t)
         /\ \A f : Done(s \o t, f) \subseteq Done(s, f) \cup (IF f \in Names(s) THEN {} ELSE Done(t, f))
BY NamesConcat, MountsConcat, DoneConcat

LEMMA BindStepsAre ==
  ASSUME NEW u \in Users
  PROVE  /\ BindSteps(u) \in Seq(Step)
         /\ Names(BindSteps(u)) \subseteq {"share", "share back"} \cup Dirs
         /\ Mounts(BindSteps(u)) \subseteq
              {Bind("data", u), Bind("obb", u)}
              \cup (IF "sdcardfs" \in dev THEN {Bind("installer", u)} ELSE {})
              \cup (IF u = "clone" /\ "owner" \in primary THEN {Shared("owner"), Shared("clone")} ELSE {})
<1> DEFINE a == <<"data", {Bind("data", u)}>>
           b == <<"obb", {Bind("obb", u)}>>
           c == <<"installer", {Bind("installer", u)}>>
           d == <<"share", {Shared("owner")}>>
           e == <<"share back", {Shared("clone")}>>
           I == IF "sdcardfs" \in dev THEN <<c>> ELSE <<>>
           H == IF u = "clone" /\ "owner" \in primary THEN <<d, e>> ELSE <<>>
<1>1. /\ {Bind("data", u)} \in SUBSET Points /\ {Bind("obb", u)} \in SUBSET Points
      /\ {Bind("installer", u)} \in SUBSET Points
      /\ {Shared("owner")} \in SUBSET Points /\ {Shared("clone")} \in SUBSET Points
  BY PointsIn, PointsOfUser DEF Volumes, Users
<1>2. a \in Step /\ b \in Step BY <1>1, IsStep DEF AllSteps, Dirs
<1>3. c \in Step BY <1>1, IsStep DEF AllSteps, Dirs
<1>4. d \in Step /\ e \in Step BY <1>1, IsStep DEF AllSteps, Dirs
<1>5. BindSteps(u) = (<<a, b>> \o I) \o H BY DEF BindSteps, bindMountVolume
<1>6. /\ a[1] = "data" /\ a[2] = {Bind("data", u)} /\ b[1] = "obb" /\ b[2] = {Bind("obb", u)}
      /\ c[1] = "installer" /\ c[2] = {Bind("installer", u)}
      /\ d[1] = "share" /\ d[2] = {Shared("owner")} /\ e[1] = "share back" /\ e[2] = {Shared("clone")}
  OBVIOUS
<1> HIDE DEF a, b, c, d, e
<1>7. <<a, b>> \in Seq(Step) /\ Names(<<a, b>>) \subseteq Dirs
      /\ Mounts(<<a, b>>) = {Bind("data", u), Bind("obb", u)}
  <2>1. <<a, b>> \in Seq(Step) /\ Names(<<a, b>>) = {a[1], b[1]} /\ Mounts(<<a, b>>) = a[2] \cup b[2]
    BY <1>2, TwoSteps
  <2>2. a[1] \in Dirs /\ b[1] \in Dirs BY <1>6 DEF Dirs
  <2>3. a[2] \cup b[2] = {Bind("data", u), Bind("obb", u)} BY <1>6
  <2> QED BY <2>1, <2>2, <2>3
<1>8. I \in Seq(Step) /\ Names(I) \subseteq Dirs
      /\ Mounts(I) = IF "sdcardfs" \in dev THEN {Bind("installer", u)} ELSE {}
  BY <1>3, <1>6, NoSteps, OneStep DEF Dirs
<1>9. H \in Seq(Step) /\ Names(H) \subseteq {"share", "share back"}
      /\ Mounts(H) = IF u = "clone" /\ "owner" \in primary THEN {Shared("owner"), Shared("clone")} ELSE {}
  <2>1. <<d, e>> \in Seq(Step) /\ Names(<<d, e>>) = {d[1], e[1]} /\ Mounts(<<d, e>>) = d[2] \cup e[2]
    BY <1>4, TwoSteps
  <2>2. {d[1], e[1]} = {"share", "share back"} BY <1>6
  <2>3. d[2] \cup e[2] = {Shared("owner"), Shared("clone")} BY <1>6
  <2> QED BY <2>1, <2>2, <2>3, NoSteps
<1> HIDE DEF I, H
<1>10. <<a, b>> \o I \in Seq(Step) /\ Names(<<a, b>> \o I) \subseteq Dirs
       /\ Mounts(<<a, b>> \o I) = Mounts(<<a, b>>) \cup Mounts(I)
  <2>1. /\ <<a, b>> \o I \in Seq(Step) /\ Names(<<a, b>> \o I) = Names(<<a, b>>) \cup Names(I)
        /\ Mounts(<<a, b>> \o I) = Mounts(<<a, b>>) \cup Mounts(I)
    BY ONLY <1>7, <1>8, ConcatIs
  <2> QED BY <1>7, <1>8, <2>1
<1>11. BindSteps(u) \in Seq(Step) /\ Names(BindSteps(u)) = Names(<<a, b>> \o I) \cup Names(H)
       /\ Mounts(BindSteps(u)) = Mounts(<<a, b>> \o I) \cup Mounts(H)
  <2> DEFINE AI == <<a, b>> \o I
  <2>1. AI \in Seq(Step) /\ BindSteps(u) = AI \o H BY <1>5, <1>10
  <2> HIDE DEF AI
  <2>2. AI \o H \in Seq(Step) /\ Names(AI \o H) = Names(AI) \cup Names(H)
        /\ Mounts(AI \o H) = Mounts(AI) \cup Mounts(H)
    BY ONLY <1>9, <2>1, ConcatIs
  <2> QED BY <2>1, <2>2 DEF AI
<1> QED BY <1>7, <1>8, <1>9, <1>10, <1>11

\* The mount of sdcardfs, which only the owner has.
SdcardFsOf(u) == IF u = "owner" /\ "sdcardfs" \in dev THEN {SdcardFs(u)} ELSE {}

LEMMA EmulatedBase ==
  ASSUME NEW u \in Users, NEW B, B = << <<"prepare", {}>> >> \o (IF u = "owner" THEN SdcardFsSteps(u) ELSE <<>>)
  PROVE  /\ B \in Seq(Step) /\ Names(B) \subseteq {"prepare", "sdcardfs"} /\ "prepare" \in Names(B)
         /\ Mounts(B) = SdcardFsOf(u) /\ Done(B, "prepare") = {}
<1> DEFINE a == <<"prepare", {}>>
           S == IF u = "owner" THEN SdcardFsSteps(u) ELSE <<>>
<1>1. a \in Step
  <2>1. {} \in SUBSET Points OBVIOUS
  <2> QED BY <2>1, IsStep DEF AllSteps
<1>2. a[1] = "prepare" /\ a[2] = {} OBVIOUS
<1> HIDE DEF a
<1>3. <<a>> \in Seq(Step) /\ Names(<<a>>) = {"prepare"} /\ Mounts(<<a>>) = {} BY <1>1, <1>2, OneStep
<1>4. S \in Seq(Step) /\ Names(S) \subseteq {"sdcardfs"} /\ Mounts(S) = SdcardFsOf(u)
  BY NoSteps, SdcardFsStepsAre DEF SdcardFsOf
<1> HIDE DEF S
<1>5. B = <<a>> \o S BY DEF a, S
<1>6. Done(<<a>>, "prepare") = {} BY <1>3, DoneSome
<1> DEFINE A == <<a>>
<1> HIDE DEF A
<1>7. /\ A \o S \in Seq(Step) /\ Names(A \o S) = Names(A) \cup Names(S)
      /\ Mounts(A \o S) = Mounts(A) \cup Mounts(S)
      /\ Done(A \o S, "prepare") \subseteq
           Done(A, "prepare") \cup (IF "prepare" \in Names(A) THEN {} ELSE Done(S, "prepare"))
  BY <1>3, <1>4, ConcatIs DEF A
<1> QED BY <1>3, <1>4, <1>5, <1>6, <1>7 DEF A

LEMMA EmulatedView ==
  ASSUME NEW u \in Users,
         NEW V, V = PrepareAndroidDirs \o FuseSteps(u) \o (IF "bpf" \in dev THEN <<>> ELSE BindSteps(u))
  PROVE  /\ V \in Seq(Step)
         /\ Names(V) \subseteq {"android dirs", "fuse", "pass"} \cup AfterFuse
         /\ Mounts(V) = {Fuse(u), PassThrough(u)} \cup (IF "bpf" \in dev THEN {} ELSE Mounts(BindSteps(u)))
         /\ Done(V, "android dirs") = {} /\ Done(V, "fuse") = {}
<1> DEFINE a == <<"android dirs", {}>>
           B == IF "bpf" \in dev THEN <<>> ELSE BindSteps(u)
<1>1. a \in Step
  <2>1. {} \in SUBSET Points OBVIOUS
  <2> QED BY <2>1, IsStep DEF AllSteps
<1>2. a[1] = "android dirs" /\ a[2] = {} OBVIOUS
<1> HIDE DEF a
<1>3. <<a>> \in Seq(Step) /\ Names(<<a>>) = {"android dirs"} /\ Mounts(<<a>>) = {} BY <1>1, <1>2, OneStep
<1>4. /\ FuseSteps(u) \in Seq(Step) /\ Names(FuseSteps(u)) = {"fuse", "pass", "ready"}
      /\ Mounts(FuseSteps(u)) = {Fuse(u), PassThrough(u)}
  BY FuseStepsAre
<1>5. /\ B \in Seq(Step) /\ Names(B) \subseteq AfterFuse
      /\ Mounts(B) = IF "bpf" \in dev THEN {} ELSE Mounts(BindSteps(u))
  BY NoSteps, BindStepsAre DEF AfterFuse
<1> HIDE DEF B
<1>6. V = (<<a>> \o FuseSteps(u)) \o B BY DEF a, B, PrepareAndroidDirs
<1>7. Done(FuseSteps(u), "fuse") = {}
  <2>1. FuseSteps(u)[1][1] = "fuse" BY DEF FuseSteps
  <2>2. \A i \in DOMAIN FuseSteps(u) : 1 \in 1..i BY <1>4
  <2> QED BY <2>1, <2>2, InDone
<1>8. Done(<<a>>, "android dirs") = {} /\ Done(<<a>>, "fuse") = {} BY <1>3, DoneSome
<1> DEFINE AF == <<a>> \o FuseSteps(u)
<1>9. /\ AF \in Seq(Step) /\ Names(AF) = {"android dirs", "fuse", "pass", "ready"}
      /\ Mounts(AF) = {Fuse(u), PassThrough(u)}
  <2>1. /\ AF \in Seq(Step) /\ Names(AF) = Names(<<a>>) \cup Names(FuseSteps(u))
        /\ Mounts(AF) = Mounts(<<a>>) \cup Mounts(FuseSteps(u))
    BY ONLY <1>3, <1>4, ConcatIs
  <2>2. {"android dirs"} \cup {"fuse", "pass", "ready"} = {"android dirs", "fuse", "pass", "ready"} OBVIOUS
  <2> HIDE DEF AF
  <2> QED BY <1>3, <1>4, <2>1, <2>2
<1>10. Done(AF, "android dirs") = {} /\ Done(AF, "fuse") = {}
  BY <1>3, <1>4, <1>7, <1>8, ConcatIs
<1>11. V = AF \o B BY <1>6
<1> HIDE DEF AF
<1>12. /\ V \in Seq(Step) /\ Names(V) = Names(AF) \cup Names(B) /\ Mounts(V) = Mounts(AF) \cup Mounts(B)
  <2>1. /\ AF \o B \in Seq(Step) /\ Names(AF \o B) = Names(AF) \cup Names(B)
        /\ Mounts(AF \o B) = Mounts(AF) \cup Mounts(B)
    BY ONLY <1>5, <1>9, ConcatIs
  <2> QED BY <1>11, <2>1
<1>13. Done(V, "android dirs") = {} /\ Done(V, "fuse") = {}
  BY <1>5, <1>9, <1>10, <1>11, ConcatIs
<1>14. Names(V) \subseteq {"android dirs", "fuse", "pass"} \cup AfterFuse
  BY <1>5, <1>9, <1>12 DEF AfterFuse
<1> QED BY <1>5, <1>9, <1>12, <1>13, <1>14

\* An emulated volume: what is mounted altogether, and before the steps whose failure has a
\* clean-up of its own.
LEMMA EmulatedStepsAre ==
  ASSUME NEW u \in Users, NEW fl
  PROVE  /\ EmulatedSteps(u, fl) \in Seq(Step)
         /\ Names(EmulatedSteps(u, fl)) \subseteq
              {"prepare", "sdcardfs", "android dirs", "fuse", "pass"} \cup AfterFuse
         /\ Mounts(EmulatedSteps(u, fl)) =
              SdcardFsOf(u) \cup (IF "visible" \in fl
                                  THEN {Fuse(u), PassThrough(u)}
                                       \cup (IF "bpf" \in dev THEN {} ELSE Mounts(BindSteps(u)))
                                  ELSE {})
         /\ Done(EmulatedSteps(u, fl), "prepare") = {}
         /\ Done(EmulatedSteps(u, fl), "android dirs") \subseteq SdcardFsOf(u)
         /\ Done(EmulatedSteps(u, fl), "fuse") \subseteq SdcardFsOf(u)
<1> DEFINE B == << <<"prepare", {}>> >> \o (IF u = "owner" THEN SdcardFsSteps(u) ELSE <<>>)
           V == PrepareAndroidDirs \o FuseSteps(u) \o (IF "bpf" \in dev THEN <<>> ELSE BindSteps(u))
           W == IF "visible" \in fl THEN V ELSE <<>>
<1>1. /\ B \in Seq(Step) /\ Names(B) \subseteq {"prepare", "sdcardfs"} /\ "prepare" \in Names(B)
      /\ Mounts(B) = SdcardFsOf(u) /\ Done(B, "prepare") = {}
  BY EmulatedBase
<1>2. /\ V \in Seq(Step)
      /\ Names(V) \subseteq {"android dirs", "fuse", "pass"} \cup AfterFuse
      /\ Mounts(V) = {Fuse(u), PassThrough(u)} \cup (IF "bpf" \in dev THEN {} ELSE Mounts(BindSteps(u)))
      /\ Done(V, "android dirs") = {} /\ Done(V, "fuse") = {}
  BY EmulatedView
<1>3. EmulatedSteps(u, fl) = B \o W BY DEF EmulatedSteps
<1> HIDE DEF B, V
<1>4. /\ W \in Seq(Step)
      /\ Names(W) \subseteq {"android dirs", "fuse", "pass"} \cup AfterFuse
      /\ Mounts(W) = IF "visible" \in fl
                     THEN {Fuse(u), PassThrough(u)} \cup (IF "bpf" \in dev THEN {} ELSE Mounts(BindSteps(u)))
                     ELSE {}
      /\ Done(W, "android dirs") = {} /\ Done(W, "fuse") = {}
  BY <1>2, NoSteps, DoneSome
<1> HIDE DEF W
<1>5. /\ B \o W \in Seq(Step) /\ Names(B \o W) = Names(B) \cup Names(W)
      /\ Mounts(B \o W) = Mounts(B) \cup Mounts(W)
      /\ \A f : Done(B \o W, f) \subseteq Done(B, f) \cup (IF f \in Names(B) THEN {} ELSE Done(W, f))
  BY ONLY <1>1, <1>4, ConcatIs
<1>6. Done(B, "android dirs") \subseteq SdcardFsOf(u) /\ Done(B, "fuse") \subseteq SdcardFsOf(u)
  BY <1>1, DoneSome
<1>7. Done(B \o W, "prepare") = {} BY <1>1, <1>5
<1>8. Done(B \o W, "android dirs") \subseteq SdcardFsOf(u) BY <1>4, <1>5, <1>6
<1>9. Done(B \o W, "fuse") \subseteq SdcardFsOf(u) BY <1>4, <1>5, <1>6
<1>10. Names(B \o W) \subseteq {"prepare", "sdcardfs", "android dirs", "fuse", "pass"} \cup AfterFuse
  BY <1>1, <1>4, <1>5
<1> QED BY <1>1, <1>3, <1>4, <1>5, <1>7, <1>8, <1>9, <1>10

\* The steps up to the mount of the file system.
RawNames == {"metadata", "prepare", "check", "raw"}

\* A public volume: nothing is mounted before the file system itself is.
LEMMA PublicRaw ==
  ASSUME NEW fl
  PROVE  /\ PublicRawSteps(fl) \in Seq(Step) /\ Names(PublicRawSteps(fl)) \subseteq RawNames \cup {"asec"}
         /\ RawNames \subseteq Names(PublicRawSteps(fl))
         /\ Mounts(PublicRawSteps(fl)) \subseteq {Raw("public"), Asec}
         /\ \A f \in RawNames : Done(PublicRawSteps(fl), f) = {}
<1> DEFINE a == <<"metadata", {}>>
           b == <<"prepare", {}>>
           c == <<"check", {}>>
           d == <<"raw", {Raw("public")}>>
           R == <<a, b, c, d>>
<1>1. {} \in SUBSET Points /\ {Raw("public")} \in SUBSET Points BY PointsIn, PointsOfOthers DEF Volumes
<1>2. a \in Step /\ b \in Step /\ c \in Step BY <1>1, IsStep DEF AllSteps
<1>3. d \in Step BY <1>1, IsStep DEF AllSteps
<1>4. /\ a[1] = "metadata" /\ a[2] = {} /\ b[1] = "prepare" /\ b[2] = {} /\ c[1] = "check" /\ c[2] = {}
      /\ d[1] = "raw" /\ d[2] = {Raw("public")}
  OBVIOUS
<1>5. PublicRawSteps(fl) = R \o initAsecStage(fl) BY DEF PublicRawSteps, readMetadata, Check
<1> HIDE DEF a, b, c, d
<1>6. R \in Seq(Step) BY <1>2, <1>3
<1>7. Names(R) = RawNames BY <1>4 DEF Names, RawNames
<1>8. ASSUME NEW p \in Mounts(R) PROVE p = Raw("public") BY <1>4, InMounts
<1>9. ASSUME NEW f \in RawNames, NEW p \in Done(R, f) PROVE FALSE
  <2>1. PICK i \in DOMAIN R : p \in R[i][2] /\ \A k \in 1..i : R[k][1] # f BY <1>9, InDone
  <2>2. i \in 1..4 /\ R[1] = a /\ R[2] = b /\ R[3] = c /\ R[4] = d OBVIOUS
  <2>3. i = 4 BY <1>4, <2>1, <2>2
  <2> QED BY <1>4, <2>1, <2>2, <2>3 DEF RawNames
<1> HIDE DEF R
<1> DEFINE N == initAsecStage(fl)
<1>10. N \in Seq(Step) /\ Names(N) \subseteq {"asec"} /\ Mounts(N) \subseteq {Asec} BY AsecStageIs
<1> HIDE DEF N
<1>11. /\ R \o N \in Seq(Step) /\ Names(R \o N) = Names(R) \cup Names(N)
       /\ Mounts(R \o N) = Mounts(R) \cup Mounts(N)
       /\ \A f : Done(R \o N, f) \subseteq Done(R, f) \cup (IF f \in Names(R) THEN {} ELSE Done(N, f))
  BY ONLY <1>6, <1>10, ConcatIs
<1>12. PublicRawSteps(fl) = R \o N BY <1>5 DEF N
<1>13. \A f \in RawNames : Done(R \o N, f) = {} BY <1>7, <1>9, <1>11
<1> QED BY <1>7, <1>8, <1>10, <1>11, <1>12, <1>13

LEMMA PublicView ==
  ASSUME NEW fl
  PROVE  /\ PublicViewSteps(fl) \in Seq(Step)
         /\ Names(PublicViewSteps(fl)) \subseteq {"sdcardfs", "fuse", "pass", "ready"}
         /\ Mounts(PublicViewSteps(fl)) =
              IF "visible" \in fl THEN unmountSdcardFs("public") \cup {Fuse("public"), PassThrough("public")}
              ELSE {}
         /\ Done(PublicViewSteps(fl), "fuse") \subseteq unmountSdcardFs("public")
<1> DEFINE S == SdcardFsSteps("public")
           F == FuseSteps("public")
<1>1. S \in Seq(Step) /\ Names(S) \subseteq {"sdcardfs"} /\ Mounts(S) = unmountSdcardFs("public")
  BY SdcardFsStepsAre DEF unmountSdcardFs
<1>2. /\ F \in Seq(Step) /\ Names(F) = {"fuse", "pass", "ready"}
      /\ Mounts(F) = {Fuse("public"), PassThrough("public")}
  BY FuseStepsAre
<1>3. Done(F, "fuse") = {}
  <2>1. F[1][1] = "fuse" BY DEF FuseSteps
  <2>2. \A i \in DOMAIN F : 1 \in 1..i BY <1>2
  <2> QED BY <2>1, <2>2, InDone
<1>4. PublicViewSteps(fl) = IF "visible" \in fl THEN S \o F ELSE <<>> BY DEF PublicViewSteps
<1> HIDE DEF S, F
<1>5. /\ S \o F \in Seq(Step) /\ Names(S \o F) = Names(S) \cup Names(F)
      /\ Mounts(S \o F) = Mounts(S) \cup Mounts(F)
      /\ \A f : Done(S \o F, f) \subseteq Done(S, f) \cup (IF f \in Names(S) THEN {} ELSE Done(F, f))
  BY ONLY <1>1, <1>2, ConcatIs
<1>6. Done(S \o F, "fuse") \subseteq unmountSdcardFs("public") BY <1>1, <1>3, <1>5, DoneSome
<1>7. Done(<<>>, "fuse") = {} BY NoSteps, DoneSome
<1> QED BY <1>1, <1>2, <1>4, <1>5, <1>6, <1>7, NoSteps

LEMMA PublicStepsAre ==
  ASSUME NEW fl
  PROVE  /\ Steps("public", fl) \in Seq(Step)
         /\ Names(Steps("public", fl)) \subseteq RawNames \cup {"asec", "sdcardfs", "fuse", "pass", "ready"}
         /\ Mounts(Steps("public", fl)) \subseteq
              {Raw("public"), Asec} \cup unmountSdcardFs("public")
              \cup (IF "visible" \in fl THEN {Fuse("public"), PassThrough("public")} ELSE {})
         /\ "visible" \in fl => Fuse("public") \in Mounts(Steps("public", fl))
         /\ \A f \in RawNames : Done(Steps("public", fl), f) = {}
         /\ Done(Steps("public", fl), "fuse") \subseteq {Raw("public"), Asec} \cup unmountSdcardFs("public")
<1> DEFINE R == PublicRawSteps(fl)
           V == PublicViewSteps(fl)
<1>1. /\ R \in Seq(Step) /\ Names(R) \subseteq RawNames \cup {"asec"} /\ RawNames \subseteq Names(R)
      /\ Mounts(R) \subseteq {Raw("public"), Asec}
      /\ \A f \in RawNames : Done(R, f) = {}
  BY PublicRaw
<1>2. /\ V \in Seq(Step) /\ Names(V) \subseteq {"sdcardfs", "fuse", "pass", "ready"}
      /\ Mounts(V) = IF "visible" \in fl
                     THEN unmountSdcardFs("public") \cup {Fuse("public"), PassThrough("public")} ELSE {}
      /\ Done(V, "fuse") \subseteq unmountSdcardFs("public")
  BY PublicView
<1>3. Steps("public", fl) = R \o V BY DEF Steps, Users
<1> HIDE DEF R, V
<1>4. /\ R \o V \in Seq(Step) /\ Names(R \o V) = Names(R) \cup Names(V)
      /\ Mounts(R \o V) = Mounts(R) \cup Mounts(V)
      /\ \A f : Done(R \o V, f) \subseteq Done(R, f) \cup (IF f \in Names(R) THEN {} ELSE Done(V, f))
  BY ONLY <1>1, <1>2, ConcatIs
<1>5. \A f \in RawNames : Done(R \o V, f) = {} BY <1>1, <1>4
<1>6. Done(R \o V, "fuse") \subseteq {Raw("public"), Asec} \cup unmountSdcardFs("public")
  BY <1>1, <1>2, <1>4, DoneSome
<1>7. Names(R \o V) \subseteq RawNames \cup {"asec", "sdcardfs", "fuse", "pass", "ready"}
  BY <1>1, <1>2, <1>4
<1> QED BY <1>1, <1>2, <1>3, <1>4, <1>5, <1>6, <1>7

\* Private volumes and OBB images have one mount.
LEMMA PrivateStepsAre ==
  ASSUME NEW fl
  PROVE  /\ Steps("private", fl) \in Seq(Step)
         /\ Names(Steps("private", fl)) \subseteq RawNames \cup {"common dirs"}
         /\ Mounts(Steps("private", fl)) \subseteq {Raw("private")}
         /\ \A f \in RawNames : Done(Steps("private", fl), f) = {}
<1> DEFINE a == <<"metadata", {}>>
           b == <<"prepare", {}>>
           c == <<"check", {}>>
           d == <<"raw", {Raw("private")}>>
           e == <<"common dirs", {}>>
           R == <<a, b, c, d, e>>
<1>1. {} \in SUBSET Points /\ {Raw("private")} \in SUBSET Points BY PointsIn, PointsOfOthers DEF Volumes
<1>2. a \in Step /\ b \in Step /\ c \in Step BY <1>1, IsStep DEF AllSteps
<1>3. d \in Step /\ e \in Step BY <1>1, IsStep DEF AllSteps
<1>4. /\ a[1] = "metadata" /\ a[2] = {} /\ b[1] = "prepare" /\ b[2] = {} /\ c[1] = "check" /\ c[2] = {}
      /\ d[1] = "raw" /\ d[2] = {Raw("private")} /\ e[1] = "common dirs" /\ e[2] = {}
  OBVIOUS
<1>5. Steps("private", fl) = R BY DEF Steps, PrivateSteps, readMetadata, Check, Users
<1> HIDE DEF a, b, c, d, e
<1>6. R \in Seq(Step) BY <1>2, <1>3
<1>a. DOMAIN R = 1..5 /\ R[1] = a /\ R[2] = b /\ R[3] = c /\ R[4] = d /\ R[5] = e OBVIOUS
<1>b. \A i \in 1..5 : i = 1 \/ i = 2 \/ i = 3 \/ i = 4 \/ i = 5 OBVIOUS
<1> HIDE DEF R
<1>7. ASSUME NEW x \in Names(R) PROVE x \in RawNames \cup {"common dirs"}
  <2>1. PICK i \in DOMAIN R : x = R[i][1] BY DEF Names
  <2> QED BY <1>4, <1>a, <1>b, <2>1 DEF RawNames
<1>8. ASSUME NEW p \in Mounts(R) PROVE p = Raw("private")
  <2>1. PICK i \in DOMAIN R : p \in R[i][2] BY InMounts
  <2> QED BY <1>4, <1>a, <1>b, <2>1
<1>9. ASSUME NEW f \in RawNames, NEW p \in Done(R, f) PROVE FALSE
  <2>1. PICK i \in DOMAIN R : p \in R[i][2] /\ \A k \in 1..i : R[k][1] # f BY <1>9, InDone
  <2>2. i = 4 BY <1>4, <1>a, <1>b, <2>1
  <2>3. 1 \in 1..4 /\ 2 \in 1..4 /\ 3 \in 1..4 /\ 4 \in 1..4 OBVIOUS
  <2> QED BY <1>4, <1>a, <2>1, <2>2, <2>3 DEF RawNames
<1> QED BY <1>5, <1>6, <1>7, <1>8, <1>9

LEMMA ObbStepsAre ==
  ASSUME NEW fl
  PROVE  /\ Steps("obb", fl) \in Seq(Step)
         /\ Names(Steps("obb", fl)) = {"prepare", "raw"}
         /\ Mounts(Steps("obb", fl)) \subseteq {Raw("obb")}
         /\ \A f \in {"prepare", "raw"} : Done(Steps("obb", fl), f) = {}
<1> DEFINE a == <<"prepare", {}>>
           b == <<"raw", {Raw("obb")}>>
           R == <<a, b>>
<1>1. {} \in SUBSET Points /\ {Raw("obb")} \in SUBSET Points BY PointsIn, PointsOfOthers DEF Volumes
<1>2. a \in Step /\ b \in Step BY <1>1, IsStep DEF AllSteps
<1>3. a[1] = "prepare" /\ a[2] = {} /\ b[1] = "raw" /\ b[2] = {Raw("obb")} OBVIOUS
<1>4. Steps("obb", fl) = R BY DEF Steps, ObbSteps, Users
<1> HIDE DEF a, b
<1>5. R \in Seq(Step) BY <1>2
<1>6. Names(R) = {"prepare", "raw"} BY <1>3 DEF Names
<1>7. ASSUME NEW p \in Mounts(R) PROVE p = Raw("obb") BY <1>3, InMounts
<1>8. ASSUME NEW f \in {"prepare", "raw"}, NEW p \in Done(R, f) PROVE FALSE
  <2>1. PICK i \in DOMAIN R : p \in R[i][2] /\ \A k \in 1..i : R[k][1] # f BY <1>8, InDone
  <2>2. i \in 1..2 /\ R[1] = a /\ R[2] = b OBVIOUS
  <2> QED BY <1>3, <2>1, <2>2
<1> HIDE DEF R
<1> QED BY <1>4, <1>5, <1>6, <1>7, <1>8

-----------------------------------------------------------------------------
(* What doMount leaves *)

LEMMA DoneIsMounts ==
  ASSUME NEW s \in Seq(Step), NEW f PROVE DoneIfFails(s, f) \subseteq Mounts(s)
BY DoneSome DEF DoneIfFails

LEMMA StepsTyped ==
  ASSUME NEW v \in Volumes, NEW fl
  PROVE  Steps(v, fl) \in Seq(Step) /\ "none" \notin Names(Steps(v, fl))
<1>1. CASE v \in Users
  <2>1. Steps(v, fl) = EmulatedSteps(v, fl) BY <1>1 DEF Steps, Users
  <2>2. "none" \notin {"prepare", "sdcardfs", "android dirs", "fuse", "pass"} \cup AfterFuse
    BY DEF AfterFuse, Dirs
  <2>3. /\ EmulatedSteps(v, fl) \in Seq(Step)
        /\ Names(EmulatedSteps(v, fl)) \subseteq
             {"prepare", "sdcardfs", "android dirs", "fuse", "pass"} \cup AfterFuse
    BY <1>1, EmulatedStepsAre
  <2> QED BY <2>1, <2>2, <2>3
<1>2. CASE v = "public"
  <2>1. "none" \notin RawNames \cup {"asec", "sdcardfs", "fuse", "pass", "ready"} BY DEF RawNames
  <2> QED BY <1>2, <2>1, PublicStepsAre
<1>3. CASE v = "private"
  <2>1. "none" \notin RawNames \cup {"common dirs"} BY DEF RawNames
  <2> QED BY <1>3, <2>1, PrivateStepsAre
<1>4. CASE v = "obb" BY <1>4, ObbStepsAre
<1> QED BY <1>1, <1>2, <1>3, <1>4 DEF Volumes

\* What doMount of an emulated volume may mount, and under which conditions.
LEMMA UserMounts ==
  ASSUME NEW u \in Users, NEW fl, NEW p \in Mounts(Steps(u, fl))
  PROVE  \/ p = SdcardFs("owner") /\ u = "owner" /\ "sdcardfs" \in dev
         \/ "visible" \in fl /\ p \in {Fuse(u), PassThrough(u)}
         \/ "visible" \in fl /\ "bpf" \notin dev /\ p \in {Bind("data", u), Bind("obb", u)}
         \/ "visible" \in fl /\ "bpf" \notin dev /\ p = Bind("installer", u) /\ "sdcardfs" \in dev
         \/ /\ "visible" \in fl /\ "bpf" \notin dev /\ u = "clone" /\ "owner" \in primary
            /\ p \in {Shared("owner"), Shared("clone")}
<1>1. Steps(u, fl) = EmulatedSteps(u, fl) BY DEF Steps, Users
<1>2. p \in SdcardFsOf(u) \cup (IF "visible" \in fl
                                  THEN {Fuse(u), PassThrough(u)}
                                       \cup (IF "bpf" \in dev THEN {} ELSE Mounts(BindSteps(u)))
                                  ELSE {})
  BY <1>1, EmulatedStepsAre
<1>3. p \in Mounts(BindSteps(u)) =>
              p \in {Bind("data", u), Bind("obb", u)}
              \cup (IF "sdcardfs" \in dev THEN {Bind("installer", u)} ELSE {})
              \cup (IF u = "clone" /\ "owner" \in primary THEN {Shared("owner"), Shared("clone")} ELSE {})
  BY BindStepsAre
<1> QED BY <1>2, <1>3 DEF SdcardFsOf

\* Only the clone mounts something in another volume, if the owner's is primary.
LEMMA MountsBelong ==
  ASSUME NEW v \in Volumes, NEW fl, NEW p \in Mounts(Steps(v, fl))
  PROVE  \/ p \in PointsOf(v)
         \/ p = Shared("owner") /\ v = "clone" /\ "owner" \in primary /\ "bpf" \notin dev
<1>1. CASE v \in Users BY <1>1, UserMounts, PointsOfUser DEF Users
<1>2. CASE v = "public"
  <2>1. unmountSdcardFs("public") \subseteq {SdcardFs("public")} BY DEF unmountSdcardFs
  <2>2. p \in {Raw("public"), Asec} \cup unmountSdcardFs("public") \cup {Fuse("public"), PassThrough("public")}
    BY <1>2, PublicStepsAre
  <2> QED BY <1>2, <2>1, <2>2, PointsOfOthers
<1>3. CASE v = "private" BY <1>3, PrivateStepsAre, PointsOfOthers
<1>4. CASE v = "obb" BY <1>4, ObbStepsAre, PointsOfOthers
<1> QED BY <1>1, <1>2, <1>3, <1>4 DEF Volumes

\* What a mount that succeeds has mounted, doUnmount unmounts.
LEMMA MountedWillGo ==
  ASSUME NEW v \in Volumes, NEW fl, NEW f, ~EndsMount(f),
         NEW D, D = DoneIfFails(Steps(v, fl), f),
         dev' = dev, shared' = shared \cup {u \in Users : Shared(u) \in D},
         fuse' = IF Fuse(v) \in D THEN fuse \cup {v} ELSE fuse,
         NEW p \in D, p \in PointsOf(v)
  PROVE  (p \in UnmountedByDoUnmount(v, v \in fuse))'
<1>1. p \in Mounts(Steps(v, fl)) BY StepsTyped, DoneIsMounts
<1>2. ASSUME NEW q \in Mounts(Steps(v, fl)), q # Asec PROVE q \in D
  <2>1. q \in Done(Steps(v, fl), "none") BY <1>2, StepsTyped, DoneAll
  <2> QED BY <1>2, <2>1 DEF DoneIfFails
<1>3. CASE v \in Users
  <2>1. (UnmountedByDoUnmount(v, v \in fuse))' = EmulatedUnmounts(v, v \in fuse)'
    BY <1>3 DEF UnmountedByDoUnmount, Users
  <2>2. Fuse(v) # Asec BY DEF Fuse, Asec
  <2>3. "visible" \in fl => v \in fuse'
    <3>1. Steps(v, fl) = EmulatedSteps(v, fl) BY <1>3 DEF Steps, Users
    <3>2. "visible" \in fl => Fuse(v) \in Mounts(Steps(v, fl)) BY <1>3, <3>1, EmulatedStepsAre
    <3> QED BY <1>2, <2>2, <3>2
  <2>4. p = Shared("owner") => v = "owner" BY PointsApart DEF Shared
  <2>5. p = Shared("clone") => v = "clone" BY PointsApart DEF Shared
  <2>6. CASE p = SdcardFs("owner") /\ v = "owner" /\ "sdcardfs" \in dev
    BY <2>1, <2>6 DEF EmulatedUnmounts, unmountSdcardFs
  <2>7. CASE "visible" \in fl /\ p \in {Fuse(v), PassThrough(v)}
    BY <2>1, <2>3, <2>7 DEF EmulatedUnmounts, UnmountUserFuse
  <2>8. CASE "visible" \in fl /\ "bpf" \notin dev /\ p \in {Bind("data", v), Bind("obb", v)}
    BY <2>1, <2>3, <2>8 DEF EmulatedUnmounts, unmountFuseBindMounts
  <2>9. CASE "visible" \in fl /\ "bpf" \notin dev /\ p = Bind("installer", v) /\ "sdcardfs" \in dev
    BY <2>1, <2>3, <2>9 DEF EmulatedUnmounts, unmountFuseBindMounts
  <2>10. CASE /\ "visible" \in fl /\ "bpf" \notin dev /\ v = "clone"
              /\ p \in {Shared("owner"), Shared("clone")}
    <3>1. p = Shared("clone") BY <2>4, <2>10
    <3>2. "clone" \in shared' BY <3>1 DEF Users
    <3> QED BY <2>1, <2>3, <2>10, <3>1, <3>2 DEF EmulatedUnmounts, unmountFuseBindMounts
  <2> QED BY <1>1, <1>3, <2>6, <2>7, <2>8, <2>9, <2>10, UserMounts
<1>4. CASE v = "public"
  <2>1. (UnmountedByDoUnmount(v, v \in fuse))' = PublicUnmounts(v \in fuse)'
    BY <1>4 DEF UnmountedByDoUnmount, Users
  <2>2. Fuse(v) # Asec BY DEF Fuse, Asec
  <2>3. "visible" \in fl => v \in fuse' BY <1>2, <1>4, <2>2, PublicStepsAre
  <2>4. \/ p \in {Raw("public"), Asec} \/ p \in unmountSdcardFs("public")
        \/ "visible" \in fl /\ p \in {Fuse("public"), PassThrough("public")}
    BY <1>1, <1>4, PublicStepsAre
  <2>5. unmountSdcardFs("public")' = unmountSdcardFs("public") BY DEF unmountSdcardFs
  <2> QED BY <1>4, <2>1, <2>3, <2>4, <2>5 DEF PublicUnmounts, UnmountUserFuse
<1>5. CASE v = "private"
  <2>1. p = Raw("private") BY <1>1, <1>5, PrivateStepsAre
  <2> QED BY <1>5, <2>1 DEF UnmountedByDoUnmount, Users
<1>6. CASE v = "obb"
  <2>1. p = Raw("obb") BY <1>1, <1>6, ObbStepsAre
  <2> QED BY <1>6, <2>1 DEF UnmountedByDoUnmount, Users
<1> QED BY <1>3, <1>4, <1>5, <1>6 DEF Volumes

\* A mount that fails unmounts what it has mounted, except at the steps of KnownLeak.
LEMMA CleanUpComplete ==
  ASSUME NEW v \in Volumes, NEW fl, NEW f \in Names(Steps(v, fl)), EndsMount(f), ~KnownLeak(v, f)
  PROVE  DoneIfFails(Steps(v, fl), f) \subseteq CleanedUp(v, f, Steps(v, fl))
<1> DEFINE s == Steps(v, fl)
<1>1. DoneIfFails(s, f) = Done(s, f) BY DEF DoneIfFails
<1>2. CASE v \in Users
  <2>1. s = EmulatedSteps(v, fl) BY <1>2 DEF Steps, Users
  <2>2. CleanedUp(v, f, s) = IF f \in AfterFuse THEN Done(s, f)
         ELSE IF f \in {"android dirs", "fuse", "pass"} THEN {SdcardFs("owner")} \cap PointsOf(v)
         ELSE {}
    BY <1>2 DEF CleanedUp, Users
  <2>3. f \in {"prepare", "android dirs", "fuse"} \cup AfterFuse
    BY <1>2, <2>1, EmulatedStepsAre DEF KnownLeak
  <2>4. SdcardFsOf(v) \subseteq {SdcardFs("owner")} \cap PointsOf(v) BY <1>2, PointsOfUser DEF SdcardFsOf
  <2>5. CASE f \in AfterFuse BY <1>1, <2>2, <2>5
  <2>6. CASE f \in {"android dirs", "fuse"}
    <3>1. f \notin AfterFuse BY <2>6 DEF AfterFuse, Dirs
    <3>2. Done(s, f) \subseteq SdcardFsOf(v) BY <1>2, <2>1, <2>6, EmulatedStepsAre
    <3> QED BY <1>1, <2>2, <2>4, <2>6, <3>1, <3>2
  <2>7. CASE f = "prepare"
    <3>1. Done(s, f) = {} BY <1>2, <2>1, <2>7, EmulatedStepsAre
    <3> QED BY <1>1, <3>1
  <2> QED BY <2>3, <2>5, <2>6, <2>7
<1>3. CASE v = "public"
  <2>1. f \in RawNames \cup {"fuse", "ready"} BY <1>3, PublicStepsAre DEF KnownLeak, EndsMount
  <2>2. CASE f \in RawNames
    <3>1. Done(s, f) = {} BY <1>3, <2>2, PublicStepsAre
    <3> QED BY <1>1, <3>1
  <2>3. CASE f \in {"fuse", "ready"}
    <3>1. CleanedUp(v, f, s) = UnmountedByDoUnmount(v, f \in AfterFuse \/ v \in fuse)
      <4>1. ResetsFuse(v, f) BY <1>3, <2>3 DEF ResetsFuse, AfterFuse
      <4> QED BY <1>3, <4>1 DEF CleanedUp, Users
    <3>2. UnmountedByDoUnmount(v, f \in AfterFuse \/ v \in fuse) = PublicUnmounts(f \in AfterFuse \/ v \in fuse)
      BY <1>3 DEF UnmountedByDoUnmount, Users
    <3>3. CASE f = "fuse"
      <4>1. Done(s, f) \subseteq {Raw("public"), Asec} \cup unmountSdcardFs("public") BY <1>3, <3>3, PublicStepsAre
      <4> QED BY <1>1, <3>1, <3>2, <4>1 DEF PublicUnmounts
    <3>4. CASE f = "ready"
      <4>1. Done(s, f) \subseteq {Raw("public"), Asec} \cup unmountSdcardFs("public")
                                 \cup {Fuse("public"), PassThrough("public")}
        BY <1>3, DoneSome, PublicStepsAre
      <4>2. f \in AfterFuse BY <3>4 DEF AfterFuse
      <4> QED BY <1>1, <1>3, <3>1, <3>2, <4>1, <4>2 DEF PublicUnmounts, UnmountUserFuse
    <3> QED BY <2>3, <3>3, <3>4
  <2> QED BY <2>1, <2>2, <2>3
<1>4. CASE v = "private"
  <2>1. Done(s, f) = {} BY <1>4, PrivateStepsAre DEF KnownLeak
  <2> QED BY <1>1, <2>1
<1>5. CASE v = "obb"
  <2>1. Done(s, f) = {} BY <1>5, ObbStepsAre
  <2> QED BY <1>1, <2>1
<1> QED BY <1>2, <1>3, <1>4, <1>5 DEF Volumes

-----------------------------------------------------------------------------
(* The mount table *)

\* What becomes of the number of mounts on a mount point.
LEMMA UnmountedAt ==
  ASSUME NEW m \in [Points -> Nat], NEW S
  PROVE  /\ Unmounted(m, S) \in [Points -> Nat]
         /\ \A p \in Points : Unmounted(m, S)[p] = IF p \in S /\ m[p] > 0 THEN m[p] - 1 ELSE m[p]
BY DEF Unmounted

LEMMA MountedAt ==
  ASSUME NEW m \in [Points -> Nat], NEW S
  PROVE  /\ Mounted(m, S) \in [Points -> Nat]
         /\ \A p \in Points : Mounted(m, S)[p] = IF p \in S THEN m[p] + 1 ELSE m[p]
BY DEF Mounted

LEMMA MountAllAt ==
  ASSUME NEW m \in [Points -> Nat], NEW S
  PROVE  /\ MountAll(m, S) \in [Points -> Nat]
         /\ \A p \in Points :
              MountAll(m, S)[p] = IF p \notin S THEN m[p]
                                  ELSE IF p \in Binds /\ m[p] > 0 THEN m[p] ELSE m[p] + 1
<1> DEFINE B == S \cap Binds
           u == Unmounted(m, B)
           b == Mounted(u, B)
<1>1. /\ u \in [Points -> Nat]
      /\ \A p \in Points : u[p] = IF p \in B /\ m[p] > 0 THEN m[p] - 1 ELSE m[p]
  BY UnmountedAt
<1> HIDE DEF u
<1>2. b \in [Points -> Nat] /\ \A p \in Points : b[p] = IF p \in B THEN u[p] + 1 ELSE u[p]
  BY <1>1, MountedAt
<1>3. MountAll(m, S) = Mounted(b, S \ Binds) BY DEF MountAll, BindMount, u
<1> HIDE DEF b
<1>4. /\ Mounted(b, S \ Binds) \in [Points -> Nat]
      /\ \A p \in Points : Mounted(b, S \ Binds)[p] = IF p \in S \ Binds THEN b[p] + 1 ELSE b[p]
  BY <1>2, MountedAt
<1>5. ASSUME NEW p \in Points
      PROVE  Mounted(b, S \ Binds)[p] = IF p \notin S THEN m[p]
                                        ELSE IF p \in Binds /\ m[p] > 0 THEN m[p] ELSE m[p] + 1
  <2>1. m[p] \in Nat OBVIOUS
  <2>2. CASE p \in B
    <3>1. u[p] = (IF m[p] > 0 THEN m[p] - 1 ELSE m[p]) /\ b[p] = u[p] + 1 BY <1>1, <1>2, <2>2
    <3>2. p \in S /\ p \in Binds /\ Mounted(b, S \ Binds)[p] = b[p] BY <1>4, <2>2
    <3> QED BY <2>1, <3>1, <3>2
  <2>3. CASE p \notin B BY <1>1, <1>2, <1>4, <2>1, <2>3
  <2> QED BY <2>2, <2>3
<1> QED BY <1>3, <1>4, <1>5

\* doUnmount unmounts as much of a volume as before, or more.
LEMMA UnmountsGrow ==
  ASSUME NEW w \in Volumes, dev' = dev, w \in fuse => w \in fuse', w \in shared => w \in shared',
         NEW p \in UnmountedByDoUnmount(w, w \in fuse)
  PROVE  (p \in UnmountedByDoUnmount(w, w \in fuse))'
<1>1. CASE w \in Users
  <2>1. UnmountedByDoUnmount(w, w \in fuse) = EmulatedUnmounts(w, w \in fuse)
    BY <1>1 DEF UnmountedByDoUnmount, Users
  <2>2. (UnmountedByDoUnmount(w, w \in fuse))' = EmulatedUnmounts(w, w \in fuse)'
    BY <1>1 DEF UnmountedByDoUnmount, Users
  <2>3. unmountFuseBindMounts(w) \subseteq unmountFuseBindMounts(w)' BY DEF unmountFuseBindMounts
  <2>4. unmountSdcardFs(w)' = unmountSdcardFs(w) BY DEF unmountSdcardFs
  <2> QED BY <2>1, <2>2, <2>3, <2>4 DEF EmulatedUnmounts
<1>2. CASE w = "public"
  <2>1. UnmountedByDoUnmount(w, w \in fuse) = PublicUnmounts(w \in fuse)
    BY <1>2 DEF UnmountedByDoUnmount, Users
  <2>2. (UnmountedByDoUnmount(w, w \in fuse))' = PublicUnmounts(w \in fuse)'
    BY <1>2 DEF UnmountedByDoUnmount, Users
  <2>3. unmountSdcardFs("public")' = unmountSdcardFs("public") BY DEF unmountSdcardFs
  <2> QED BY <2>1, <2>2, <2>3 DEF PublicUnmounts
<1>3. CASE w \in {"private", "obb"} BY <1>3 DEF UnmountedByDoUnmount, Users
<1> QED BY <1>1, <1>2, <1>3 DEF Volumes

\* doUnmount touches only the volume's own mount points.
LEMMA UnmountsOwn ==
  ASSUME NEW v \in Volumes, NEW p, p \in UnmountedByDoUnmount(v, v \in fuse) PROVE p[2] = v
<1>1. CASE v \in Users
  <2>1. UnmountedByDoUnmount(v, v \in fuse) = EmulatedUnmounts(v, v \in fuse)
    BY <1>1 DEF UnmountedByDoUnmount, Users
  <2>2. ASSUME p \in unmountFuseBindMounts(v) PROVE p[2] = v
    BY <2>2 DEF unmountFuseBindMounts, Bind, Shared
  <2>3. ASSUME p \in unmountSdcardFs(v) PROVE p[2] = v BY <2>3 DEF unmountSdcardFs, SdcardFs
  <2>4. ASSUME p \in UnmountUserFuse(v) PROVE p[2] = v BY <2>4 DEF UnmountUserFuse, Fuse, PassThrough
  <2> QED BY <2>1, <2>2, <2>3, <2>4 DEF EmulatedUnmounts
<1>2. CASE v = "public"
  <2>1. UnmountedByDoUnmount(v, v \in fuse) = PublicUnmounts(v \in fuse)
    BY <1>2 DEF UnmountedByDoUnmount, Users
  <2>2. ASSUME p \in UnmountUserFuse("public") PROVE p[2] = "public"
    BY <2>2 DEF UnmountUserFuse, Fuse, PassThrough
  <2>3. ASSUME p \in unmountSdcardFs("public") PROVE p[2] = "public" BY <2>3 DEF unmountSdcardFs, SdcardFs
  <2>4. ASSUME p \in {Asec, Raw("public")} PROVE p[2] = "public" BY <2>4 DEF Asec, Raw
  <2> QED BY <1>2, <2>1, <2>2, <2>3, <2>4 DEF PublicUnmounts
<1>3. CASE v \in {"private", "obb"} BY <1>3 DEF UnmountedByDoUnmount, Users, Raw
<1> QED BY <1>1, <1>2, <1>3 DEF Volumes

-----------------------------------------------------------------------------
(* The inductive invariant *)

MInv ==
  /\ TypeOK /\ PrimarySound /\ MountsMatch /\ Removable /\ ViewsFollow /\ CheckedOffline

LEMMA InitInv == Init => MInv
<1> SUFFICES ASSUME Init PROVE MInv OBVIOUS
<1>1. TypeOK BY MountingAssumption DEF Init, TypeOK, Volumes, Users
<1>2. PrimarySound BY DEF Init, PrimarySound
<1>3. \A v \in Volumes : \A p \in PointsOf(v) : mounts[p] = 0 BY PointsIn DEF Init
<1>4. MountsMatch /\ Removable BY <1>3 DEF MountsMatch, Removable
<1>5. ViewsFollow /\ CheckedOffline BY DEF Init, ViewsFollow, CheckedOffline
<1> QED BY <1>1, <1>2, <1>4, <1>5 DEF MInv

\* A volume that is not mounted has no mounts.
LEMMA NoMounts ==
  ASSUME MInv, NEW v \in Volumes \ leaky, state[v] # "mounted", NEW p \in PointsOf(v)
  PROVE  mounts[p] = 0
<1>1. mounts[p] \in Nat BY PointsIn DEF MInv, TypeOK
<1>2. mounts[p] <= 0 BY DEF MInv, MountsMatch
<1> QED BY <1>1, <1>2

LEMMA MountInv ==
  ASSUME MInv, NEW v \in Volumes, NEW fl \in FlagsFor(v), NEW f, mount(v, fl, f)
  PROVE  MInv'
<1> DEFINE s == Steps(v, fl)
           D == DoneIfFails(s, f)
           C == IF EndsMount(f) THEN Freed(CleanedUp(v, f, s), v \in pinned) ELSE {}
<1>1. /\ mounts' = Unmounted(MountAll(mounts, D), C)
      /\ f \in {"none"} \cup Names(s)
      /\ state[v] # "mounted"
  BY DEF mount
<1>2. state' = [state EXCEPT ![v] = IF EndsMount(f) THEN "unmountable" ELSE "mounted"] BY DEF mount
<1>3. /\ primary' = IF ~EndsMount(f) /\ "primary" \in fl THEN primary \cup {v} ELSE primary
      /\ fuse' = IF EndsMount(f) /\ ResetsFuse(v, f) THEN fuse \ {v}
                 ELSE IF ~EndsMount(f) /\ Fuse(v) \in D THEN fuse \cup {v} ELSE fuse
      /\ shared' = shared \cup {u \in Users : Shared(u) \in D}
      /\ leaky' = IF EndsMount(f) /\ (KnownLeak(v, f) \/ v \in pinned) THEN leaky \cup {v} ELSE leaky
      /\ dev' = dev /\ present' = present /\ pinned' = pinned /\ views' = views
  BY DEF mount, device
<1>4. hot' = {} \/ (hot' = {v} /\ v \in Devs /\ mounts[Raw(v)] > 0) BY DEF mount
<1>5. D \subseteq Mounts(s) /\ s \in Seq(Step) BY StepsTyped, DoneIsMounts
<1>6. \A p \in D : p \in PointsOf(v)
                   \/ (p = Shared("owner") /\ v = "clone" /\ "owner" \in primary /\ "bpf" \notin dev)
  BY <1>5, MountsBelong
<1>7. EndsMount(f) /\ ~KnownLeak(v, f) /\ v \notin pinned => D \subseteq C
  <2> SUFFICES ASSUME EndsMount(f), ~KnownLeak(v, f), v \notin pinned PROVE D \subseteq C OBVIOUS
  <2>1. f \in Names(s) BY <1>1 DEF EndsMount
  <2>2. D \subseteq CleanedUp(v, f, s) BY <2>1, CleanUpComplete
  <2>3. Freed(CleanedUp(v, f, s), v \in pinned) = CleanedUp(v, f, s) BY DEF Freed
  <2> QED BY <2>2, <2>3
<1>8. ~EndsMount(f) => C = {} OBVIOUS
<1>9. ASSUME ~EndsMount(f), NEW p \in D, p \in PointsOf(v)
      PROVE  (p \in UnmountedByDoUnmount(v, v \in fuse))'
  <2>1. fuse' = IF Fuse(v) \in D THEN fuse \cup {v} ELSE fuse BY <1>3, <1>9
  <2> QED BY <1>3, <1>9, <2>1, MountedWillGo
<1>10. ~EndsMount(f) /\ "primary" \in fl /\ v \in Users => Fuse(v) \in D
  <2> SUFFICES ASSUME ~EndsMount(f), "primary" \in fl, v \in Users PROVE Fuse(v) \in D OBVIOUS
  <2>1. "visible" \in fl BY DEF FlagsFor, Users
  <2>2. s = EmulatedSteps(v, fl) BY DEF Steps, Users
  <2>3. Fuse(v) \in Mounts(s) BY <2>1, <2>2, EmulatedStepsAre
  <2>4. Fuse(v) \in Done(s, "none") BY <2>3, StepsTyped, DoneAll
  <2> QED BY <2>4 DEF DoneIfFails, Fuse, Asec
<1> HIDE DEF s, D, C
<1>11. /\ mounts' \in [Points -> Nat] /\ mounts \in [Points -> Nat]
       /\ \A p \in Points : p \notin D => mounts'[p] <= mounts[p]
       /\ \A p \in Points : p \in D /\ p \in Binds /\ mounts[p] <= 1 => mounts'[p] <= 1
       /\ \A p \in Points : mounts[p] = 0 => mounts'[p] <= 1 /\ (mounts'[p] > 0 => p \in D \ C)
  <2>1. mounts \in [Points -> Nat] BY DEF MInv, TypeOK
  <2> DEFINE a == MountAll(mounts, D)
  <2>2. /\ a \in [Points -> Nat]
        /\ \A p \in Points : a[p] = IF p \notin D THEN mounts[p]
                                    ELSE IF p \in Binds /\ mounts[p] > 0 THEN mounts[p] ELSE mounts[p] + 1
    BY <2>1, MountAllAt
  <2>3. mounts' = Unmounted(a, C) BY <1>1
  <2> HIDE DEF a
  <2>4. /\ mounts' \in [Points -> Nat]
        /\ \A p \in Points : mounts'[p] = IF p \in C /\ a[p] > 0 THEN a[p] - 1 ELSE a[p]
    BY <2>2, <2>3, UnmountedAt
  <2>5. ASSUME NEW p \in Points
        PROVE  /\ p \notin D => mounts'[p] <= mounts[p]
               /\ p \in D /\ p \in Binds /\ mounts[p] <= 1 => mounts'[p] <= 1
               /\ mounts[p] = 0 => mounts'[p] <= 1 /\ (mounts'[p] > 0 => p \in D \ C)
    <3>1. mounts[p] \in Nat /\ a[p] \in Nat BY <2>1, <2>2
    <3> QED BY <2>2, <2>4, <3>1
  <2> QED BY <2>1, <2>4, <2>5
<1>12. TypeOK' BY <1>2, <1>3, <1>11 DEF MInv, TypeOK
<1>13. PrimarySound'
  <2>1. v \notin primary BY <1>1 DEF MInv, PrimarySound
  <2>2. \A w \in primary' : state'[w] = "mounted"
    BY <1>2, <1>3, <2>1 DEF MInv, TypeOK, PrimarySound
  <2>3. \A w \in primary' \cap Users : w \in fuse'
    BY <1>3, <1>10, <2>1 DEF MInv, PrimarySound
  <2> QED BY <2>2, <2>3 DEF PrimarySound
<1>14. ASSUME NEW w \in Volumes \ leaky', NEW p \in PointsOf(w)
       PROVE  /\ mounts'[p] <= IF state'[w] = "mounted" THEN 1 ELSE 0
              /\ mounts'[p] > 0 => (p \in UnmountedByDoUnmount(w, w \in fuse))'
  <2>1. w \notin leaky /\ p \in Points BY <1>3, PointsIn
  <2>2. mounts[p] \in Nat /\ mounts'[p] \in Nat BY <1>11, <2>1
  <2>3. CASE w = v
    <3>1. mounts[p] = 0 BY <1>1, <2>1, <2>3, NoMounts
    <3>2. mounts'[p] <= 1 /\ (mounts'[p] > 0 => p \in D \ C) BY <1>11, <2>1, <3>1
    <3>3. CASE EndsMount(f)
      <4>1. D \subseteq C BY <1>3, <1>7, <2>3, <3>3
      <4> QED BY <2>2, <3>2, <4>1
    <3>4. CASE ~EndsMount(f)
      <4>1. state'[w] = "mounted" BY <1>2, <2>3, <3>4 DEF MInv, TypeOK
      <4> QED BY <1>9, <2>3, <3>2, <3>4, <4>1
    <3> QED BY <3>3, <3>4
  <2>4. CASE w # v
    <3>1. state'[w] = state[w] /\ (w \in fuse' <=> w \in fuse) /\ (w \in shared => w \in shared')
      BY <1>2, <1>3, <2>4 DEF MInv, TypeOK
    <3>2. mounts[p] <= IF state[w] = "mounted" THEN 1 ELSE 0 BY <2>1 DEF MInv, MountsMatch
    <3>3. p \notin PointsOf(v) BY <2>4, PointsApart
    <3>4. CASE p \notin D
      <4>1. mounts'[p] <= mounts[p] BY <1>11, <2>1, <3>4
      <4>2. mounts'[p] <= IF state'[w] = "mounted" THEN 1 ELSE 0 BY <2>2, <3>1, <3>2, <4>1
      <4>3. ASSUME mounts'[p] > 0 PROVE (p \in UnmountedByDoUnmount(w, w \in fuse))'
        <5>1. mounts[p] > 0 BY <2>2, <4>1, <4>3
        <5>2. p \in UnmountedByDoUnmount(w, w \in fuse) BY <2>1, <5>1 DEF MInv, Removable
        <5> QED BY <1>3, <3>1, <5>2, UnmountsGrow
      <4> QED BY <4>2, <4>3
    <3>5. CASE p \in D
      <4>1. p = Shared("owner") /\ "owner" \in primary /\ "bpf" \notin dev BY <1>6, <3>3, <3>5
      <4>2. w = "owner" BY <4>1, PointsApart DEF Shared
      <4>3. state[w] = "mounted" /\ w \in fuse BY <4>1, <4>2 DEF MInv, PrimarySound, Users
      <4>4. p \in Binds BY <2>1, <4>1 DEF Binds, Shared
      <4>5. mounts'[p] <= 1 BY <1>11, <2>1, <3>2, <3>5, <4>3, <4>4
      <4>6. w \in shared' BY <1>3, <3>5, <4>1, <4>2 DEF Users
      <4>7. (UnmountedByDoUnmount(w, w \in fuse))' = EmulatedUnmounts(w, w \in fuse)'
        BY <4>2 DEF UnmountedByDoUnmount, Users
      <4>8. p \in unmountFuseBindMounts(w)' BY <4>1, <4>2, <4>6 DEF unmountFuseBindMounts
      <4>9. (p \in UnmountedByDoUnmount(w, w \in fuse))'
        BY <1>3, <3>1, <4>1, <4>3, <4>7, <4>8 DEF EmulatedUnmounts
      <4> QED BY <3>1, <4>3, <4>5, <4>9
    <3> QED BY <3>4, <3>5
  <2> QED BY <2>3, <2>4
<1>15. MountsMatch' /\ Removable' BY <1>14 DEF MountsMatch, Removable
<1>16. ViewsFollow'
  <2>1. v # "owner" => state'["owner"] = state["owner"] /\ ("owner" \in fuse' <=> "owner" \in fuse)
    BY <1>2, <1>3 DEF MInv, TypeOK
  <2> QED BY <1>1, <1>3, <2>1 DEF MInv, ViewsFollow
<1>17. CheckedOffline'
  <2>1. ASSUME v \in Devs, mounts[Raw(v)] > 0 PROVE v \in leaky
    <3>1. Raw(v) \in PointsOf(v) BY <2>1, PointsOfOthers DEF Devs
    <3> QED BY <1>1, <2>1, <3>1, NoMounts
  <2> QED BY <1>3, <1>4, <2>1 DEF CheckedOffline
<1> QED BY <1>12, <1>13, <1>15, <1>16, <1>17 DEF MInv

LEMMA CheckLeavesMountedInv ==
  ASSUME MInv, NEW v \in Devs, CheckLeavesMounted(v) PROVE MInv'
<1>1. /\ mounts' = Mounted(mounts, {Raw(v)}) /\ state[v] # "mounted"
      /\ state' = [state EXCEPT ![v] = "unmountable"] /\ hot' = {v} /\ leaky' = leaky \cup {v}
      /\ dev' = dev /\ present' = present /\ primary' = primary /\ fuse' = fuse /\ shared' = shared
      /\ pinned' = pinned /\ views' = views
  BY DEF CheckLeavesMounted, device
<1>2. v \in Volumes /\ v # "owner" BY DEF Devs, Volumes
<1>3. /\ mounts \in [Points -> Nat] /\ mounts' \in [Points -> Nat]
      /\ \A p \in Points : p # Raw(v) => mounts'[p] = mounts[p]
  BY <1>1, MountedAt DEF MInv, TypeOK
<1>4. TypeOK' BY <1>1, <1>2, <1>3 DEF MInv, TypeOK
<1>5. PrimarySound' BY <1>1 DEF MInv, TypeOK, PrimarySound
<1>6. ASSUME NEW w \in Volumes \ leaky', NEW p \in PointsOf(w)
      PROVE  /\ mounts'[p] <= IF state'[w] = "mounted" THEN 1 ELSE 0
             /\ mounts'[p] > 0 => (p \in UnmountedByDoUnmount(w, w \in fuse))'
  <2>1. w \notin leaky /\ w # v /\ p \in Points BY <1>1, PointsIn
  <2>2. p # Raw(v) BY <2>1, PointsApart DEF Raw
  <2>3. mounts'[p] = mounts[p] /\ state'[w] = state[w] BY <1>1, <1>3, <2>1, <2>2 DEF MInv, TypeOK
  <2>4. mounts[p] > 0 => p \in UnmountedByDoUnmount(w, w \in fuse) BY <2>1 DEF MInv, Removable
  <2>5. mounts[p] > 0 => (p \in UnmountedByDoUnmount(w, w \in fuse))' BY <1>1, <2>4, UnmountsGrow
  <2> QED BY <2>1, <2>3, <2>5 DEF MInv, MountsMatch
<1>7. MountsMatch' /\ Removable' BY <1>6 DEF MountsMatch, Removable
<1>8. ViewsFollow' BY <1>1, <1>2 DEF MInv, TypeOK, ViewsFollow
<1>9. CheckedOffline' BY <1>1 DEF CheckedOffline
<1> QED BY <1>4, <1>5, <1>7, <1>8, <1>9 DEF MInv

\* Whoever has a tmpfs on Android/obb and can be killed is not there any more.
LEMMA KilledViews ==
  ASSUME NEW K, views' = [p \in Procs |-> IF p \in K THEN {} ELSE views[p]],
         KillProcessesWithTmpfsMounts \subseteq K, NEW p \in Procs, "obb" \in views'[p]
  PROVE  Nerve[p] > 3
<1>1. p \notin K /\ "obb" \in views[p] OBVIOUS
<1>2. ~(Nerve[p] <= 3) BY <1>1 DEF KillProcessesWithTmpfsMounts
<1>3. Nerve[p] \in 1..4 BY MountingAssumption
<1> QED BY <1>2, <1>3

\* All but what the last call has checked or formatted.
MountedPart == TypeOK /\ PrimarySound /\ MountsMatch /\ Removable /\ ViewsFollow

LEMMA DoUnmountInv ==
  ASSUME MInv, NEW v \in Volumes, NEW S, NEW f, state[v] = "mounted", doUnmount(v, S, f),
         dev' = dev, present' = present
  PROVE  MountedPart'
<1> DEFINE still == ForceKilled(KillProcessesUsingPath(S))
           K == (S \ still)
                \cup (IF v \in fuse /\ v = "owner" /\ "isolation" \in dev /\ "bpf" \notin dev
                      THEN KillProcessesWithTmpfsMounts ELSE {})
           all == UnmountedByDoUnmount(v, v \in fuse)
           kept == {Fuse(v), PassThrough(v), SdcardFs(v), Asec, Raw(v)}
           U == Freed(IF f = "detach" THEN all \ kept ELSE all, still # {} \/ v \in pinned)
<1>1. mounts' = Unmounted(mounts, U) BY DEF doUnmount
<1>2. /\ state' = [state EXCEPT ![v] = "unmounted"]
      /\ fuse' = IF f = "detach" THEN fuse ELSE fuse \ {v}
      /\ shared' = IF v \in fuse /\ "bpf" \notin dev THEN shared \ {v} ELSE shared
      /\ primary' = primary \ {v}
  BY DEF doUnmount
<1>3. /\ pinned' = (IF still # {} THEN pinned \cup {v} ELSE pinned)
      /\ leaky' = IF f = "detach" \/ still # {} \/ v \in pinned THEN leaky \cup {v} ELSE leaky
  BY DEF doUnmount
<1>4. views' = [p \in Procs |-> IF p \in K THEN {} ELSE views[p]] BY DEF doUnmount, Ended
<1>5. v = "owner" /\ v \in fuse /\ "isolation" \in dev /\ "bpf" \notin dev
      => KillProcessesWithTmpfsMounts \subseteq K
  OBVIOUS
<1>6. U \subseteq all BY DEF Freed
<1>7. f # "detach" /\ still = {} /\ v \notin pinned => U = all BY DEF Freed
<1> HIDE DEF still, K, U, kept
<1>8. \A p \in U : p[2] = v BY <1>6, UnmountsOwn
<1>9. /\ mounts \in [Points -> Nat] /\ mounts' \in [Points -> Nat]
      /\ \A p \in Points : mounts'[p] = IF p \in U /\ mounts[p] > 0 THEN mounts[p] - 1 ELSE mounts[p]
  BY <1>1, UnmountedAt DEF MInv, TypeOK
<1>10. TypeOK'
  <2>1. views' \in [Procs -> SUBSET {"data", "obb"}] BY <1>4 DEF MInv, TypeOK
  <2> QED BY <1>2, <1>3, <1>9, <2>1 DEF MInv, TypeOK
<1>11. PrimarySound' BY <1>2 DEF MInv, TypeOK, PrimarySound
<1>12. ASSUME NEW w \in Volumes \ leaky', NEW p \in PointsOf(w)
       PROVE  /\ mounts'[p] <= IF state'[w] = "mounted" THEN 1 ELSE 0
              /\ mounts'[p] > 0 => (p \in UnmountedByDoUnmount(w, w \in fuse))'
  <2>1. w \notin leaky /\ p \in Points BY <1>3, PointsIn
  <2>2. mounts[p] \in Nat /\ mounts'[p] \in Nat BY <1>9, <2>1
  <2>3. /\ mounts[p] <= (IF state[w] = "mounted" THEN 1 ELSE 0)
        /\ mounts[p] > 0 => p \in UnmountedByDoUnmount(w, w \in fuse)
    BY <2>1 DEF MInv, MountsMatch, Removable
  <2>4. CASE w = v
    <3>1. U = all BY <1>3, <1>7, <2>4
    <3>2. mounts[p] > 0 => p \in U BY <2>3, <2>4, <3>1
    <3>3. mounts[p] <= 1 BY <2>2, <2>3
    <3>4. mounts'[p] = 0 BY <1>9, <2>1, <2>2, <3>2, <3>3
    <3> QED BY <3>4
  <2>5. CASE w # v
    <3>1. p \notin U BY <1>8, <2>5, PointsApart
    <3>2. mounts'[p] = mounts[p] BY <1>9, <2>1, <3>1
    <3>3. /\ state'[w] = state[w] /\ (w \in fuse => w \in fuse') /\ (w \in shared => w \in shared')
      BY <1>2, <2>5 DEF MInv, TypeOK
    <3>4. mounts[p] > 0 => (p \in UnmountedByDoUnmount(w, w \in fuse))' BY <2>3, <3>3, UnmountsGrow
    <3> QED BY <2>3, <3>2, <3>3, <3>4
  <2> QED BY <2>4, <2>5
<1>13. MountsMatch' /\ Removable' BY <1>12 DEF MountsMatch, Removable
<1>14. ViewsFollow'
  <2> SUFFICES ASSUME "isolation" \in dev, "bpf" \notin dev,
                      ~(state'["owner"] = "mounted" /\ "owner" \in fuse'),
                      NEW p \in Procs, "obb" \in views'[p]
               PROVE  Nerve[p] > 3
    BY DEF ViewsFollow
  <2>1. CASE v = "owner" /\ v \in fuse BY <1>4, <1>5, <2>1, KilledViews
  <2>2. CASE v # "owner" \/ v \notin fuse
    <3>1. ~(state["owner"] = "mounted" /\ "owner" \in fuse) BY <1>2, <2>2 DEF MInv, TypeOK
    <3>2. "obb" \in views[p] BY <1>4
    <3> QED BY <3>1, <3>2 DEF MInv, ViewsFollow
  <2> QED BY <2>1, <2>2
<1> QED BY <1>10, <1>11, <1>13, <1>14 DEF MountedPart

LEMMA UnmountInv ==
  ASSUME MInv, NEW v \in Volumes, NEW S, NEW f, unmount(v, S, f) PROVE MInv'
<1>1. MountedPart' BY DoUnmountInv DEF unmount, device
<1>2. CheckedOffline' BY DEF unmount, CheckedOffline
<1> QED BY <1>1, <1>2 DEF MountedPart, MInv

LEMMA FormatInv ==
  ASSUME MInv, NEW v \in Devs, NEW S, NEW f, format(v, S, f) PROVE MInv'
<1>1. /\ FormatFirst(v, S, f) /\ dev' = dev /\ present' = present
      /\ hot' = IF mounts'[Raw(v)] > 0 THEN {v} ELSE {}
  BY DEF format, device
<1>2. v \in Volumes /\ v # "owner" /\ Raw(v) \in PointsOf(v) BY PointsOfOthers DEF Devs, Volumes
<1>3. MountedPart' /\ state'[v] # "mounted"
  <2>1. CASE state[v] = "mounted" /\ doUnmount(v, S, f)
    <3>1. MountedPart' BY <1>1, <1>2, <2>1, DoUnmountInv
    <3>2. state' = [state EXCEPT ![v] = "unmounted"] BY <2>1 DEF doUnmount
    <3> QED BY <1>2, <3>1, <3>2 DEF MInv, TypeOK
  <2>2. CASE /\ state[v] # "mounted"
             /\ state' = [state EXCEPT ![v] = "unmounted"]
             /\ UNCHANGED <<primary, mounts, pinned, views, fuse, shared, leaky>>
    <3>1. TypeOK' BY <1>1, <1>2, <2>2 DEF MInv, TypeOK
    <3>2. PrimarySound' BY <2>2 DEF MInv, TypeOK, PrimarySound
    <3>3. \A w \in Volumes : state'[w] = "mounted" <=> state[w] = "mounted" BY <2>2 DEF MInv, TypeOK
    <3>4. MountsMatch' BY <2>2, <3>3 DEF MInv, MountsMatch
    <3>5. ASSUME NEW w \in Volumes \ leaky', NEW p \in PointsOf(w), mounts'[p] > 0
          PROVE  (p \in UnmountedByDoUnmount(w, w \in fuse))'
      <4>1. p \in UnmountedByDoUnmount(w, w \in fuse) BY <2>2, <3>5 DEF MInv, Removable
      <4> QED BY <1>1, <2>2, <4>1, UnmountsGrow
    <3>6. Removable' BY <3>5 DEF Removable
    <3>7. ViewsFollow' BY <1>1, <1>2, <2>2 DEF MInv, TypeOK, ViewsFollow
    <3>8. state'[v] # "mounted" BY <1>2, <2>2 DEF MInv, TypeOK
    <3> QED BY <3>1, <3>2, <3>4, <3>6, <3>7, <3>8 DEF MountedPart
  <2> QED BY <1>1, <2>1, <2>2 DEF FormatFirst
<1>4. mounts'[Raw(v)] > 0 => v \in leaky'
  <2>1. mounts'[Raw(v)] \in Nat BY <1>2, <1>3, PointsIn DEF MountedPart, TypeOK
  <2>2. v \notin leaky' => mounts'[Raw(v)] <= 0 BY <1>2, <1>3 DEF MountedPart, MountsMatch
  <2> QED BY <2>1, <2>2
<1>5. CheckedOffline' BY <1>1, <1>4 DEF CheckedOffline
<1> QED BY <1>3, <1>5 DEF MountedPart, MInv

LEMMA UnmountAllInv ==
  ASSUME MInv, NEW S, NEW W \in SUBSET Volumes, unmountAll(S, W) PROVE MInv'
<1> DEFINE mounted == {v \in Volumes \ {"obb"} : state[v] = "mounted"}
           still == ForceKilled(KillProcessesUsingPath(S))
           stuck == IF still # {} THEN pinned \cup W ELSE pinned
           K == (S \ still)
                \cup (IF "owner" \in fuse \cap mounted /\ "isolation" \in dev /\ "bpf" \notin dev
                      THEN KillProcessesWithTmpfsMounts ELSE {})
           gone == UNION {Freed(UnmountedByDoUnmount(v, v \in fuse), v \in stuck) : v \in mounted}
           stale == {p \in UNION {PointsOf(v) : v \in Volumes \ stuck} : p[1] # "installer"}
<1>1. mounts' = [p \in Points |-> IF p \in stale THEN 0 ELSE Unmounted(mounts, gone)[p]] BY DEF unmountAll
<1>2. /\ state' = [v \in Volumes |-> IF v \in mounted THEN "unmounted" ELSE state[v]]
      /\ fuse' = fuse \ mounted
      /\ shared' = IF "bpf" \in dev THEN shared ELSE shared \ (fuse \cap mounted)
      /\ primary' = {} /\ hot' = {} /\ dev' = dev /\ present' = present
  BY DEF unmountAll, device
<1>3. /\ pinned' = stuck
      /\ leaky' = {v \in Volumes : \E p \in PointsOf(v) : mounts'[p] > 0}
  BY DEF unmountAll
<1>4. views' = [p \in Procs |-> IF p \in K THEN {} ELSE views[p]] BY DEF unmountAll, Ended
<1>5. "owner" \in fuse \cap mounted /\ "isolation" \in dev /\ "bpf" \notin dev
      => KillProcessesWithTmpfsMounts \subseteq K
  OBVIOUS
<1>6. stuck \subseteq Volumes BY DEF MInv, TypeOK
<1> HIDE DEF still, K, gone, stale, stuck
<1>7. mounts' \in [Points -> Nat]
  <2>1. Unmounted(mounts, gone) \in [Points -> Nat] BY UnmountedAt DEF MInv, TypeOK
  <2> QED BY <1>1, <2>1
<1>8. TypeOK'
  <2>1. views' \in [Procs -> SUBSET {"data", "obb"}] BY <1>4 DEF MInv, TypeOK
  <2> QED BY <1>2, <1>3, <1>6, <1>7, <2>1 DEF MInv, TypeOK
<1>9. PrimarySound' BY <1>2 DEF PrimarySound
<1>10. ASSUME NEW v \in Volumes \ leaky', NEW p \in PointsOf(v) PROVE mounts'[p] = 0
  <2>1. mounts'[p] \in Nat BY <1>7, PointsIn
  <2> QED BY <1>3, <2>1
<1>11. MountsMatch' /\ Removable' BY <1>10 DEF MountsMatch, Removable
<1>12. ViewsFollow'
  <2> SUFFICES ASSUME "isolation" \in dev, "bpf" \notin dev, NEW p \in Procs, "obb" \in views'[p]
               PROVE  Nerve[p] > 3
    BY <1>2 DEF ViewsFollow
  <2>1. CASE "owner" \in fuse \cap mounted BY <1>4, <1>5, <2>1, KilledViews
  <2>2. CASE "owner" \notin fuse \cap mounted
    <3>1. ~(state["owner"] = "mounted" /\ "owner" \in fuse) BY <2>2 DEF Volumes, Users
    <3>2. "obb" \in views[p] BY <1>4
    <3> QED BY <3>1, <3>2 DEF MInv, ViewsFollow
  <2> QED BY <2>1, <2>2
<1>13. CheckedOffline' BY <1>2 DEF CheckedOffline
<1> QED BY <1>8, <1>9, <1>11, <1>12, <1>13 DEF MInv

LEMMA AppStorageInv ==
  ASSUME MInv, NEW p \in Procs, NEW got \in SUBSET {"data", "obb"}, handleAppStorageDirs(p, got)
  PROVE  MInv'
<1>1. /\ state["owner"] = "mounted" /\ "owner" \in fuse /\ hot' = {}
      /\ views' = [views EXCEPT ![p] = IF got = {} THEN {} ELSE views[p] \cup got]
      /\ dev' = dev /\ present' = present /\ state' = state /\ primary' = primary /\ fuse' = fuse
      /\ shared' = shared /\ mounts' = mounts /\ pinned' = pinned /\ leaky' = leaky
  BY DEF handleAppStorageDirs, device
<1>2. TypeOK' BY <1>1 DEF MInv, TypeOK
<1>3. PrimarySound' /\ MountsMatch' BY <1>1 DEF MInv, PrimarySound, MountsMatch
<1>4. ASSUME NEW w \in Volumes \ leaky', NEW q \in PointsOf(w), mounts'[q] > 0
      PROVE  (q \in UnmountedByDoUnmount(w, w \in fuse))'
  <2>1. q \in UnmountedByDoUnmount(w, w \in fuse) BY <1>1, <1>4 DEF MInv, Removable
  <2> QED BY <1>1, <2>1, UnmountsGrow
<1>5. Removable' BY <1>4 DEF Removable
<1>6. ViewsFollow' /\ CheckedOffline' BY <1>1 DEF ViewsFollow, CheckedOffline
<1> QED BY <1>2, <1>3, <1>5, <1>6 DEF MInv

LEMMA StutterInv == MInv /\ UNCHANGED vars => MInv'
<1> SUFFICES ASSUME MInv, UNCHANGED vars PROVE MInv' OBVIOUS
<1>1. /\ dev' = dev /\ present' = present /\ state' = state /\ primary' = primary /\ fuse' = fuse
      /\ shared' = shared /\ mounts' = mounts /\ pinned' = pinned /\ leaky' = leaky /\ views' = views
      /\ hot' = hot
  BY DEF vars, device
<1>2. TypeOK' BY <1>1 DEF MInv, TypeOK
<1>3. PrimarySound' /\ MountsMatch' BY <1>1 DEF MInv, PrimarySound, MountsMatch
<1>4. ASSUME NEW w \in Volumes \ leaky', NEW q \in PointsOf(w), mounts'[q] > 0
      PROVE  (q \in UnmountedByDoUnmount(w, w \in fuse))'
  <2>1. q \in UnmountedByDoUnmount(w, w \in fuse) BY <1>1, <1>4 DEF MInv, Removable
  <2> QED BY <1>1, <2>1, UnmountsGrow
<1>5. Removable' BY <1>4 DEF Removable
<1>6. ViewsFollow' /\ CheckedOffline' BY <1>1 DEF MInv, ViewsFollow, CheckedOffline
<1> QED BY <1>2, <1>3, <1>5, <1>6 DEF MInv

LEMMA NextInv == MInv /\ [Next]_vars => MInv'
<1> SUFFICES ASSUME MInv, [Next]_vars PROVE MInv' OBVIOUS
<1>1. present \subseteq Volumes BY DEF MInv, TypeOK
<1>2. CASE \E v \in present, f \in AllSteps \cup {"none"} : \E fl \in FlagsFor(v) : mount(v, fl, f)
  BY <1>1, <1>2, MountInv
<1>3. CASE \E v \in Devs \cap present : CheckLeavesMounted(v) BY <1>3, CheckLeavesMountedInv
<1>4. CASE \E v \in present, S \in SUBSET Procs, f \in {"none", "detach"} : unmount(v, S, f)
  BY <1>1, <1>4, UnmountInv
<1>5. CASE \E v \in Devs \cap present, S \in SUBSET Procs, f \in {"none", "mkfs", "detach"} : format(v, S, f)
  BY <1>5, FormatInv
<1>6. CASE \E S \in SUBSET Procs, W \in SUBSET {v \in present : state[v] = "mounted"} : unmountAll(S, W)
  <2>1. PICK S \in SUBSET Procs, W \in SUBSET {v \in present : state[v] = "mounted"} : unmountAll(S, W)
    BY <1>6
  <2>2. W \in SUBSET Volumes BY <1>1
  <2> QED BY <2>1, <2>2, UnmountAllInv
<1>7. CASE \E p \in Procs, got \in SUBSET {"data", "obb"} : handleAppStorageDirs(p, got)
  BY <1>7, AppStorageInv
<1>8. CASE UNCHANGED vars BY <1>8, StutterInv
<1> QED BY <1>2, <1>3, <1>4, <1>5, <1>6, <1>7, <1>8 DEF Next

\* Every call keeps the invariant.
THEOREM MountingInvariant == Spec => []MInv
<1> QED BY InitInv, NextInv, PTL DEF Spec

\* MountsMatch: a mount point has one mount at most, and none if its volume is not mounted,
\* unless one of the failures after which doMount and doUnmount leave something has happened.
THEOREM MountsAlwaysMatch == Spec => []MountsMatch
<1>1. MInv => MountsMatch BY DEF MInv
<1> QED BY <1>1, MountingInvariant, PTL

\* Removable: a volume is never mounted so that its doUnmount, which goes by mFuseMounted,
\* mSharedStorageMountPath and the device, would forget a mount, also one that the clone's
\* mount has made in the owner's storage.
THEOREM UnmountForgetsNothing == Spec => []Removable
<1>1. MInv => Removable BY DEF MInv
<1> QED BY <1>1, MountingInvariant, PTL

\* CheckedOffline: doMount checks, and doFormat formats, no device whose file system is mounted.
THEOREM NeverCheckedWhileMounted == Spec => []CheckedOffline
<1>1. MInv => CheckedOffline BY DEF MInv
<1> QED BY <1>1, MountingInvariant, PTL

\* NoOrphanedViews: KillProcessesWithTmpfsMountPrefix leaves no app a view of storage that is gone.
THEOREM NoViewIsOrphaned == Spec => []NoOrphanedViews
<1>1. MInv => NoOrphanedViews BY DEF MInv, ViewsFollow, NoOrphanedViews
<1> QED BY <1>1, MountingInvariant, PTL
=============================================================================
