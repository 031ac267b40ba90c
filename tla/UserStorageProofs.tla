------------------------- MODULE UserStorageProofs -------------------------
(***************************************************************************)
(* Proofs about UserStorage, for any set of users and any bounds.          *)
(*                                                                         *)
(* The invariant Ind speaks of a user at a time: UserOk relates what vold  *)
(* holds of its keys to what is stored, DirsOk the policies of its         *)
(* directories to the stored keys.  StartSound says how far the start has  *)
(* come with the system user, KeyringSound what the kernel's keyrings have *)
(* to do with the policies that vold holds.  An action touches one user,   *)
(* so that each lemma below shows UserOk and DirsOk for that user and      *)
(* takes the others from the frame lemmas.                                 *)
(***************************************************************************)
EXTENDS UserStorage, TLAPS

\* Keys with their owners, and what a stored key, a policy and a directory may be.
Owners    == Users \cup {Sys}
DeKeys(u) == {u} \X {"de"} \X Nat
CeKeys(u) == {u} \X {"ce"} \X Nat
Label == Owners \X {"de", "ce", "vol_de", "vol_ce", "none", "damaged", "absent", "plain"} \X Nat
Phases == {"sys", "user0_de", "user0_ce", "load", "special", "prepare", "reload", "up", "failed"}

\* Types: a user has only keys of its own, of the right class.
TypedUsers ==
  /\ phase \in Phases
  /\ fw \in [Users -> {"none", "making", "alive", "leaving"}]
  /\ deKey \in [Owners -> Label] /\ de \in [Owners -> Label]
  /\ ceKey \in [Users -> Label] /\ ce \in [Users -> Label] /\ newCe \in [Users -> Label]
  /\ \A u \in Owners : de[u] \in DeKeys(u) \cup {NoKey} /\ deKey[u] \in DeKeys(u) \cup {NoKey, Damaged}
  /\ \A u \in Users : {ce[u], newCe[u], ceKey[u]} \subseteq CeKeys(u) \cup {NoKey}
  /\ ephemeral \subseteq Users /\ gen \in [Purposes -> Nat] /\ faults \in Nat
  /\ deKey[Sys] # Damaged

TypedDirs ==
  /\ dirs \in [Dirs -> Label] /\ \A d \in Dirs : dirs[d] # NoKey
  /\ volkey \in [Users \X Classes -> [key : Label, hash : Nat]] /\ secdisc \in Nat

\* Outside calls no file is waited for; a start begins with an empty keyring.
Settled == /\ phase # "up" => busy = {} /\ workers = {}
           /\ phase = "sys" => present = {}

\* A key that is removed in part is not there, so that a worker harms nobody.
Apart == /\ \A mk \in present : mk = <<mk[1], mk[2]>>
         /\ \A mk \in busy : mk[1] = "data" => mk \notin present

\* The keys of unlocked users are in the session keyring too.
Provisioned == \A u \in Users : ce[u] # NoKey => ce[u] \in provisioning

\* NoStrayKeys, also during the start.
KnownKey(k) == /\ k # NoKey
               /\ k \in stray \/ \E u \in Owners : k = de[u] \/ (u # Sys /\ k = ce[u])
Known == phase # "failed" => \A mk \in present : mk[1] = "data" => KnownKey(mk[2])

\* The keys of a user: what vold holds is what is stored, or is not stored yet.
KeysOf(u) ==
  /\ de[u] # NoKey /\ deKey[u] \notin {NoKey, Damaged} => de[u] = deKey[u]
  /\ newCe[u] # NoKey => /\ ceKey[u] = NoKey /\ ce[u] \in {NoKey, newCe[u]}
                         /\ u = 0 \/ de[u] # NoKey
  /\ ce[u] # NoKey => /\ ceKey[u] # NoKey => ce[u] = ceKey[u]
                      /\ u = 0 \/ de[u] # NoKey \/ ceKey[u] # NoKey

\* A user of which the framework does not know has nothing.
Nothing(u) ==
  /\ de[u] = NoKey /\ ce[u] = NoKey /\ newCe[u] = NoKey /\ deKey[u] = NoKey /\ ceKey[u] = NoKey
  /\ u \notin ephemeral
  /\ \A d \in Dirs : d[2] = u => dirs[d] = Absent

UserOk(u) ==
  /\ KeysOf(u)
  /\ fw[u] = "none" => Nothing(u)
  /\ deKey[u] = Damaged => fw[u] = "leaving"
  /\ fw[u] = "alive" /\ u # 0 /\ u \notin ephemeral => deKey[u] # NoKey
  /\ u \in ephemeral => u # 0 /\ ce[u] # NoKey /\ de[u] # NoKey

UsersSound == fw[0] = "alive" /\ \A u \in Users : UserOk(u)

\* How far the start has come with the keys and the directories of the system user.
StartSound ==
  /\ de[0] # NoKey => deKey[0] = de[0]
  /\ phase \in {"sys", "user0_de", "user0_ce"} /\ ceKey[0] = NoKey => ce[0] = NoKey /\ newCe[0] = NoKey
  /\ phase \in {"load", "special", "prepare", "reload", "up"} /\ ceKey[0] = NoKey =>
       ce[0] # NoKey /\ newCe[0] = ce[0]
  /\ phase \in {"prepare", "reload", "up"} /\ ceKey[0] = NoKey => dirs[DataData] = ce[0]
  /\ phase \notin {"sys", "user0_de", "failed"} => deKey[0] # NoKey
  /\ phase \in {"special", "prepare", "reload", "up"} => de[0] = deKey[0]

\* The directory of a user on the adopted volume.
ExtDir(u, c) == <<"ext", u, IF c = "de" THEN "user_de" ELSE "user_ce">>

\* The policies of the directories of users that stay are those of their stored keys.
DirsOk(u) ==
  fw[u] \in {"making", "alive"} =>
    /\ u \notin ephemeral /\ (u = 0 \/ deKey[u] # NoKey) =>
         /\ dirs[MiscDir(u, "de")] \in {Absent, Plain, deKey[u]}
         /\ dirs[MiscDir(u, "ce")] \in {Absent, Plain, ceKey[u]}
         /\ u = 0 /\ ceKey[0] # NoKey => dirs[DataData] \in {Absent, Plain, ceKey[0]}
    /\ \A c \in Classes : dirs[ExtDir(u, c)] \notin {Absent, Plain} =>
         volkey[<<u, c>>] = [key |-> dirs[ExtDir(u, c)], hash |-> secdisc]

DirsSound == \A u \in Users : DirsOk(u)

\* Keys of the volume are stored with the hash of a secdiscardable file that exists.
VolumeSound ==
  /\ \A uc \in Users \X Classes : volkey[uc].key # NoKey => volkey[uc].hash > 0
  /\ forgotten /\ ~unshredded => secdisc = 0

\* The keyrings.
KeyringSound == Settled /\ Apart /\ Provisioned /\ Known /\ UnlockedUsable

\* The inductive invariant.
Ind == /\ TypedUsers /\ TypedDirs /\ KeyringSound
       /\ UsersSound /\ StartSound /\ DirsSound /\ VolumeSound /\ StartRecovers

-----------------------------------------------------------------------------
(* Keys and directories *)

\* Keys of different owners and classes are different, and none of them is one of the marks.
LEMMA KeyForms ==
  /\ 0 \in Users /\ 0 \in Owners /\ Sys \in Owners /\ Sys \notin Users /\ Users \subseteq Owners
  /\ NoKey \in Label /\ Damaged \in Label /\ Absent \in Label /\ Plain \in Label
  /\ NoKey # Damaged /\ NoKey # Absent /\ NoKey # Plain /\ Absent # Plain
  /\ \A u \in Owners : \A k \in DeKeys(u) :
       /\ k \in Label /\ k \notin {NoKey, Damaged, Absent, Plain}
       /\ \A w \in Owners : k \notin CeKeys(w) /\ (w # u => k \notin DeKeys(w))
  /\ \A u \in Owners : \A k \in CeKeys(u) :
       /\ k \in Label /\ k \notin {NoKey, Damaged, Absent, Plain}
       /\ \A w \in Owners : w # u => k \notin CeKeys(w)
<1>1. 0 \in Users /\ Sys \notin Users /\ 0 \in Owners /\ Sys \in Owners /\ Users \subseteq Owners
  BY StorageAssumption DEF Sys, Owners
<1> DEFINE Names == {"de", "ce", "vol_de", "vol_ce", "none", "damaged", "absent", "plain"}
<1>2. Label = Owners \X Names \X Nat
  BY DEF Label
<1>3. NoKey \in Label /\ Damaged \in Label /\ Absent \in Label /\ Plain \in Label
  BY <1>1 DEF Label, NoKey, Damaged, Absent, Plain
<1>4. NoKey[2] = "none" /\ Damaged[2] = "damaged" /\ Absent[2] = "absent" /\ Plain[2] = "plain"
  BY DEF NoKey, Damaged, Absent, Plain
<1>5. \A u : \A k \in DeKeys(u) : k = <<u, "de", k[3]>> /\ k[1] = u /\ k[2] = "de" /\ k[3] \in Nat
  BY DEF DeKeys
<1>6. \A u : \A k \in CeKeys(u) : k = <<u, "ce", k[3]>> /\ k[1] = u /\ k[2] = "ce" /\ k[3] \in Nat
  BY DEF CeKeys
<1>7. \A u \in Owners : \A n \in Nat : <<u, "de", n>> \in Label /\ <<u, "ce", n>> \in Label
  BY DEF Label
<1>8. NoKey # Damaged /\ NoKey # Absent /\ NoKey # Plain /\ Absent # Plain
  BY <1>4
<1>9. \A u \in Owners : \A k \in DeKeys(u) :
       /\ k \in Label /\ k \notin {NoKey, Damaged, Absent, Plain}
       /\ \A w \in Owners : k \notin CeKeys(w) /\ (w # u => k \notin DeKeys(w))
  <2> SUFFICES ASSUME NEW u \in Owners, NEW k \in DeKeys(u)
               PROVE  /\ k \in Label /\ k \notin {NoKey, Damaged, Absent, Plain}
                      /\ \A w \in Owners : k \notin CeKeys(w) /\ (w # u => k \notin DeKeys(w))
    OBVIOUS
  <2>1. k = <<u, "de", k[3]>> /\ k[1] = u /\ k[2] = "de" /\ k[3] \in Nat
    BY <1>5
  <2>2. k \in Label
    BY <2>1, <1>7
  <2>3. k \notin {NoKey, Damaged, Absent, Plain}
    BY <2>1, <1>4
  <2>4. \A w \in Owners : k \notin CeKeys(w) /\ (w # u => k \notin DeKeys(w))
    BY <2>1, <1>5, <1>6
  <2> QED
    BY <2>2, <2>3, <2>4
<1>10. \A u \in Owners : \A k \in CeKeys(u) :
       /\ k \in Label /\ k \notin {NoKey, Damaged, Absent, Plain}
       /\ \A w \in Owners : w # u => k \notin CeKeys(w)
  <2> SUFFICES ASSUME NEW u \in Owners, NEW k \in CeKeys(u)
               PROVE  /\ k \in Label /\ k \notin {NoKey, Damaged, Absent, Plain}
                      /\ \A w \in Owners : w # u => k \notin CeKeys(w)
    OBVIOUS
  <2>1. k = <<u, "ce", k[3]>> /\ k[1] = u /\ k[2] = "ce" /\ k[3] \in Nat
    BY <1>6
  <2>2. k \in Label
    BY <2>1, <1>7
  <2>3. k \notin {NoKey, Damaged, Absent, Plain}
    BY <2>1, <1>4
  <2>4. \A w \in Owners : w # u => k \notin CeKeys(w)
    BY <2>1, <1>6
  <2> QED
    BY <2>2, <2>3, <2>4
<1> QED
  BY <1>1, <1>3, <1>8, <1>9, <1>10

\* Keys that are generated.
LEMMA NextKeys ==
  ASSUME TypedUsers
  PROVE  /\ \A u \in Owners : NextKey(<<u, "de">>) \in DeKeys(u)
         /\ \A u \in Users : NextKey(<<u, "ce">>) \in CeKeys(u)
         /\ \A u \in Users, c \in Classes :
              NextKey(VolPurpose(u, c)) \in Label \ {NoKey, Damaged, Absent, Plain}
<1>1. \A u \in Owners : <<u, "de">> \in Purposes
  BY DEF Owners, Purposes
<1>2. \A u \in Users : <<u, "ce">> \in Purposes /\ <<u, "vol_de">> \in Purposes /\ <<u, "vol_ce">> \in Purposes
  BY DEF Purposes
<1>3. \A p \in Purposes : gen[p] + 1 \in Nat
  BY DEF TypedUsers
<1>4. \A u \in Owners : NextKey(<<u, "de">>) \in DeKeys(u)
  BY <1>1, <1>3 DEF NextKey, DeKeys
<1>5. \A u \in Users : NextKey(<<u, "ce">>) \in CeKeys(u)
  BY <1>2, <1>3 DEF NextKey, CeKeys
<1>6. ASSUME NEW u \in Users, NEW c \in Classes
      PROVE  NextKey(VolPurpose(u, c)) \in Label \ {NoKey, Damaged, Absent, Plain}
  <2>1. PICK t \in {"vol_de", "vol_ce"} : VolPurpose(u, c) = <<u, t>>
    BY DEF VolPurpose
  <2>2. NextKey(<<u, t>>) = <<u, t, gen[<<u, t>>] + 1>> /\ gen[<<u, t>>] + 1 \in Nat
    BY <1>2, <1>3 DEF NextKey
  <2>3. \A n \in Nat : <<u, t, n>> \in Label
    BY KeyForms DEF Label
  <2>4. <<u, t, gen[<<u, t>>] + 1>> \notin {NoKey, Damaged, Absent, Plain}
    BY DEF NoKey, Damaged, Absent, Plain
  <2> QED
    BY <2>1, <2>2, <2>3, <2>4
<1> QED
  BY <1>4, <1>5, <1>6

\* Generating keys counts them.
LEMMA GenTyped ==
  ASSUME gen \in [Purposes -> Nat], NEW ps, generateStorageKey(ps)
  PROVE  gen' \in [Purposes -> Nat]
<1>1. gen' = [p \in Purposes |-> IF p \in ps THEN gen[p] + 1 ELSE gen[p]]
  BY DEF generateStorageKey
<1> QED
  BY <1>1

\* The directories of users.
LEMMA DirForms ==
  /\ \A u \in Users, c \in Classes :
       /\ MiscDir(u, c) \in Dirs /\ MiscDir(u, c)[2] = u /\ MiscDir(u, c)[1] = "data"
       /\ ExtDir(u, c) \in Dirs /\ ExtDir(u, c)[2] = u /\ ExtDir(u, c)[1] = "ext"
       /\ MiscDir(u, c) # DataData /\ ExtDir(u, c) # DataData
  /\ \A u, w \in Users, b, c \in Classes :
       /\ MiscDir(u, b) # ExtDir(w, c)
       /\ MiscDir(u, b) = MiscDir(w, c) => u = w /\ b = c
       /\ ExtDir(u, b) = ExtDir(w, c) => u = w /\ b = c
  /\ DataData \in Dirs /\ DataData[2] = 0 /\ DataData[1] = "data"
  /\ \A d \in Dirs : d[2] \in Users /\ \/ \E c \in Classes : d \in {MiscDir(d[2], c), ExtDir(d[2], c)}
                                       \/ d = DataData
<1>1. /\ \A u \in Users : DirsOf("data", u, "de") = <<"misc_de">>
      /\ \A u \in Users : u # 0 => DirsOf("data", u, "ce") = <<"misc_ce">>
      /\ DirsOf("data", 0, "ce") = <<"misc_ce", "user_ce">>
      /\ \A u \in Users : DirsOf("ext", u, "de") = <<"user_de">> /\ DirsOf("ext", u, "ce") = <<"user_ce">>
  BY DEF DirsOf
<1>2. \A a, b : ToSet(<<a>>) = {a} /\ ToSet(<<a, b>>) = {a, b}
  BY DEF ToSet
<1>3. Dirs = UNION {{<<v, u, n>> : n \in ToSet(DirsOf(v, u, c))} : v \in {"data", "ext"}, u \in Users, c \in Classes}
  BY DEF Dirs
<1>d. \A v \in {"data", "ext"}, u \in Users, c \in Classes : \A n \in ToSet(DirsOf(v, u, c)) : <<v, u, n>> \in Dirs
  <2> SUFFICES ASSUME NEW v \in {"data", "ext"}, NEW u \in Users, NEW c \in Classes, NEW n \in ToSet(DirsOf(v, u, c))
               PROVE  <<v, u, n>> \in Dirs
    OBVIOUS
  <2> DEFINE F(x, y, z) == {<<x, y, m>> : m \in ToSet(DirsOf(x, y, z))}
  <2>1. <<v, u, n>> \in F(v, u, c)
    OBVIOUS
  <2>2. Dirs = UNION {F(x, y, z) : x \in {"data", "ext"}, y \in Users, z \in Classes}
    BY <1>3
  <2> HIDE DEF F
  <2> QED
    BY <2>1, <2>2
<1>n. \A u \in Users, c \in Classes :
        /\ (IF c = "de" THEN "misc_de" ELSE "misc_ce") \in ToSet(DirsOf("data", u, c))
        /\ (IF c = "de" THEN "user_de" ELSE "user_ce") \in ToSet(DirsOf("ext", u, c))
  BY <1>1, <1>2 DEF Classes
<1>4. \A u \in Users, c \in Classes : MiscDir(u, c) \in Dirs /\ ExtDir(u, c) \in Dirs
  BY <1>d, <1>n DEF MiscDir, ExtDir
<1>5. DataData \in Dirs
  BY <1>d, <1>1, <1>2, KeyForms DEF DataData, Classes
<1>6. \A d \in Dirs : d[2] \in Users /\ \/ \E c \in Classes : d \in {MiscDir(d[2], c), ExtDir(d[2], c)}
                                        \/ d = DataData
  <2> SUFFICES ASSUME NEW d \in Dirs
               PROVE  d[2] \in Users /\ \/ \E c \in Classes : d \in {MiscDir(d[2], c), ExtDir(d[2], c)}
                                        \/ d = DataData
    OBVIOUS
  <2>1. PICK v \in {"data", "ext"}, u \in Users, c \in Classes : \E n \in ToSet(DirsOf(v, u, c)) : d = <<v, u, n>>
    BY <1>3
  <2>2. PICK n \in ToSet(DirsOf(v, u, c)) : d = <<v, u, n>>
    BY <2>1
  <2>3. d[2] = u
    BY <2>2
  <2>4. \/ v = "data" /\ n = IF c = "de" THEN "misc_de" ELSE "misc_ce"
        \/ v = "ext" /\ n = IF c = "de" THEN "user_de" ELSE "user_ce"
        \/ v = "data" /\ u = 0 /\ n = "user_ce"
    BY <2>2, <1>1, <1>2 DEF Classes
  <2> QED
    BY <2>2, <2>3, <2>4 DEF MiscDir, ExtDir, DataData
<1>7. \A u \in Users, c \in Classes :
       /\ MiscDir(u, c)[2] = u /\ MiscDir(u, c)[1] = "data" /\ ExtDir(u, c)[2] = u /\ ExtDir(u, c)[1] = "ext"
       /\ MiscDir(u, c)[3] = IF c = "de" THEN "misc_de" ELSE "misc_ce"
       /\ ExtDir(u, c)[3] = IF c = "de" THEN "user_de" ELSE "user_ce"
  BY DEF MiscDir, ExtDir
<1>8. DataData[1] = "data" /\ DataData[2] = 0 /\ DataData[3] = "user_ce"
  BY DEF DataData
<1> QED
  BY <1>4, <1>5, <1>6, <1>7, <1>8 DEF Classes

\* The directories of one class of a user.
ClassDirs(v, u, c) ==
  IF v = "ext" THEN {ExtDir(u, c)}
  ELSE {MiscDir(u, c)} \cup (IF u = 0 /\ c = "ce" THEN {DataData} ELSE {})

\* Preparing directories gives a policy to those of the class that have none, and leaves the
\* others as they are, wherever it stops.
LEMMA PreparedIs ==
  ASSUME TypedDirs, NEW v \in {"data", "ext"}, NEW u \in Users, NEW c \in Classes,
         NEW p \in Label \ {NoKey}, PrepareDirs(v, u, c, p)
  PROVE  /\ dirs' \in [Dirs -> Label]
         /\ \A d \in Dirs : \/ dirs'[d] = dirs[d]
                            \/ d \in ClassDirs(v, u, c) /\ dirs[d] \in {Absent, Plain} /\ dirs'[d] \in {p, Plain}
<1> DEFINE ds == DirsOf(v, u, c)
<1>1. /\ Len(ds) \in Nat
      /\ \A i \in 1..Len(ds) : <<v, u, ds[i]>> \in ClassDirs(v, u, c)
  <2>1. CASE v = "data" /\ c = "ce" /\ u = 0
    <3>1. ds = <<"misc_ce", "user_ce">>
      BY <2>1 DEF DirsOf
    <3>2. Len(ds) = 2 /\ ds[1] = "misc_ce" /\ ds[2] = "user_ce"
      BY <3>1
    <3>3. ClassDirs(v, u, c) = {<<"data", 0, "misc_ce">>, <<"data", 0, "user_ce">>}
      BY <2>1 DEF ClassDirs, MiscDir, DataData
    <3> HIDE DEF ds
    <3> QED
      BY <3>2, <3>3, <2>1
  <2>2. CASE v = "data" /\ ~(c = "ce" /\ u = 0)
    <3>1. ds = <<IF c = "de" THEN "misc_de" ELSE "misc_ce">>
      BY <2>2 DEF DirsOf
    <3>2. Len(ds) = 1 /\ ds[1] = IF c = "de" THEN "misc_de" ELSE "misc_ce"
      BY <3>1
    <3>3. ClassDirs(v, u, c) = {MiscDir(u, c)}
      BY <2>2 DEF ClassDirs
    <3> HIDE DEF ds
    <3> QED
      BY <3>2, <3>3, <2>2 DEF MiscDir
  <2>3. CASE v = "ext"
    <3>1. ds = <<IF c = "de" THEN "user_de" ELSE "user_ce">>
      BY <2>3 DEF DirsOf
    <3>2. Len(ds) = 1 /\ ds[1] = IF c = "de" THEN "user_de" ELSE "user_ce"
      BY <3>1
    <3> HIDE DEF ds
    <3> QED
      BY <3>2, <2>3 DEF ClassDirs, ExtDir
  <2> QED
    BY <2>1, <2>2, <2>3
<1>2. PICK k \in Nat : dirs' = Prepared(v, u, c, p, k)
  BY <1>1 DEF PrepareDirs
<1> DEFINE Fit(i) == \A j \in 1..i : EnsurePolicy(<<v, u, ds[j]>>, p)
           First(d) == \E i \in 1..Len(ds) : d = <<v, u, ds[i]>> /\ i <= k /\ Fit(i)
           Next1(d) == k < Len(ds) /\ d = <<v, u, ds[k + 1]>> /\ Fit(k) /\ dirs[d] = Absent
<1>3. dirs' = [d \in Dirs |-> IF First(d) THEN p ELSE IF Next1(d) THEN Plain ELSE dirs[d]]
  BY <1>2 DEF Prepared
<1>4. \A d \in Dirs : First(d) => d \in ClassDirs(v, u, c) /\ dirs[d] \in {Absent, Plain, p}
  BY <1>1 DEF EnsurePolicy
<1>5. \A d \in Dirs : Next1(d) => d \in ClassDirs(v, u, c) /\ dirs[d] = Absent
  BY <1>1
<1> HIDE DEF First, Next1
<1>6. dirs' \in [Dirs -> Label]
  BY <1>3, KeyForms DEF TypedDirs
<1>7. ASSUME NEW d \in Dirs
      PROVE  \/ dirs'[d] = dirs[d]
             \/ d \in ClassDirs(v, u, c) /\ dirs[d] \in {Absent, Plain} /\ dirs'[d] \in {p, Plain}
  <2>1. dirs'[d] = IF First(d) THEN p ELSE IF Next1(d) THEN Plain ELSE dirs[d]
    BY <1>3
  <2> QED
    BY <2>1, <1>4, <1>5
<1> QED
  BY <1>6, <1>7

\* What ClassDirs has to do with the directories that are spoken of.
LEMMA ClassDirForms ==
  ASSUME NEW v \in {"data", "ext"}, NEW u \in Users, NEW c \in Classes, NEW d \in ClassDirs(v, u, c)
  PROVE  /\ d[2] = u /\ d[1] = v
         /\ \A w \in Users, b \in Classes :
              /\ d = MiscDir(w, b) => v = "data" /\ w = u /\ b = c
              /\ d = ExtDir(w, b) => v = "ext" /\ w = u /\ b = c
         /\ d = DataData => v = "data" /\ u = 0 /\ c = "ce"
BY DirForms DEF ClassDirs

-----------------------------------------------------------------------------
(* What a step leaves alone *)

SameUser(w) ==
  /\ de'[w] = de[w] /\ ce'[w] = ce[w] /\ newCe'[w] = newCe[w]
  /\ deKey'[w] = deKey[w] /\ ceKey'[w] = ceKey[w]
  /\ fw'[w] = fw[w] /\ (w \in ephemeral' <=> w \in ephemeral)

SameDirs(w) == \A d \in Dirs : d[2] = w => dirs'[d] = dirs[d]

SameVolume(w) == secdisc' = secdisc /\ \A c \in Classes : volkey'[<<w, c>>] = volkey[<<w, c>>]

\* A user that a step does not touch is as it was.
LEMMA UserFrame ==
  ASSUME NEW w \in Users, UserOk(w), SameUser(w), fw[w] = "none" => SameDirs(w)
  PROVE  UserOk(w)'
<1>1. KeysOf(w)'
  BY DEF UserOk, KeysOf, SameUser
<1>2. Nothing(w) /\ SameDirs(w) => Nothing(w)'
  BY DEF Nothing, SameUser, SameDirs
<1> QED
  BY <1>1, <1>2 DEF UserOk, SameUser

\* Its directories too.
LEMMA DirsFrame ==
  ASSUME NEW w \in Users, DirsOk(w), SameUser(w), SameDirs(w), SameVolume(w)
  PROVE  DirsOk(w)'
<1>1. \A c \in Classes : dirs'[MiscDir(w, c)] = dirs[MiscDir(w, c)] /\ dirs'[ExtDir(w, c)] = dirs[ExtDir(w, c)]
  BY DirForms DEF SameDirs
<1>2. w = 0 => dirs'[DataData] = dirs[DataData]
  BY DirForms DEF SameDirs
<1>3. "de" \in Classes /\ "ce" \in Classes
  BY DEF Classes
<1>4. ASSUME fw'[w] \in {"making", "alive"}, w \notin ephemeral', w = 0 \/ deKey'[w] # NoKey
      PROVE  /\ dirs'[MiscDir(w, "de")] \in {Absent, Plain, deKey'[w]}
             /\ dirs'[MiscDir(w, "ce")] \in {Absent, Plain, ceKey'[w]}
             /\ w = 0 /\ ceKey'[0] # NoKey => dirs'[DataData] \in {Absent, Plain, ceKey'[0]}
  BY <1>1, <1>2, <1>3, <1>4 DEF DirsOk, SameUser
<1>5. ASSUME fw'[w] \in {"making", "alive"}, NEW c \in Classes, dirs'[ExtDir(w, c)] \notin {Absent, Plain}
      PROVE  volkey'[<<w, c>>] = [key |-> dirs'[ExtDir(w, c)], hash |-> secdisc']
  BY <1>1, <1>5 DEF DirsOk, SameUser, SameVolume
<1> QED
  BY <1>4, <1>5 DEF DirsOk

\* A step that touches one user.
LEMMA OneUser ==
  ASSUME UsersSound, DirsSound, NEW u \in Users, UserOk(u)', DirsOk(u)', fw'[0] = "alive",
         \A w \in Users \ {u} : SameUser(w) /\ SameDirs(w) /\ SameVolume(w)
  PROVE  UsersSound' /\ DirsSound'
<1>1. ASSUME NEW w \in Users \ {u}
      PROVE  UserOk(w)'
  BY UserFrame DEF UsersSound
<1>2. ASSUME NEW w \in Users \ {u}
      PROVE  DirsOk(w)'
  BY DirsFrame DEF DirsSound
<1> QED
  BY <1>1, <1>2 DEF UsersSound, DirsSound

\* A step that leaves the system user and /data/data alone.
LEMMA StartFrame ==
  ASSUME StartSound, phase' = phase, SameUser(0), dirs'[DataData] = dirs[DataData]
  PROVE  StartSound'
BY DEF StartSound, SameUser

-----------------------------------------------------------------------------
(* The keyrings *)

\* Keys come, none goes.
Grown(m, ks) ==
  /\ present \subseteq present' /\ Apart' /\ busy' \subseteq busy
  /\ \A mk \in present' : mk \in present \/ (mk[1] = m /\ mk[2] \in ks)

\* A key that is installed is in one place: it is no longer one that is removed in part.
LEMMA InstallGrows ==
  ASSUME NEW m, NEW ks, Apart, installFsKeyringKey(m, ks)
  PROVE  Grown(m, ks) /\ \A k \in ks : <<m, k>> \in present'
<1>1. present' = present \cup ({m} \X ks) /\ busy' = busy \ ({m} \X ks)
  BY DEF installFsKeyringKey
<1>2. \A mk \in {m} \X ks : mk[1] = m /\ mk[2] \in ks
  OBVIOUS
<1>3. Apart'
  BY <1>1 DEF Apart
<1>4. \A k \in ks : <<m, k>> \in {m} \X ks
  OBVIOUS
<1> QED
  BY <1>1, <1>2, <1>3, <1>4 DEF Grown

\* Nothing is installed.
LEMMA SameGrows ==
  ASSUME Apart, UNCHANGED <<present, busy>>
  PROVE  Grown("data", {})
BY DEF Apart, Grown

\* Keys are installed, by a call or by a part of the start.
LEMMA Installs ==
  ASSUME KeyringSound, NEW m, NEW ks, Grown(m, ks), phase # "failed", phase' # "sys",
         phase' = "up" <=> phase = "up", workers' = workers,
         provisioning \subseteq provisioning', stray \subseteq stray',
         present = {} \/ \A u \in Owners : de[u] = NoKey \/ de'[u] = de[u],
         \A u \in Users : \/ ce'[u] = ce[u]
                          \/ ce[u] = NoKey /\ ce'[u] \in provisioning' /\ <<"data", ce'[u]>> \in present',
         phase' # "failed" /\ m = "data" => \A k \in ks : KnownKey(k)'
  PROVE  KeyringSound'
<1>1. Settled'
  BY DEF KeyringSound, Settled, Grown
<1>2. Apart'
  BY DEF Grown
<1>3. Provisioned'
  BY DEF KeyringSound, Provisioned
<1>4. Known'
  <2> SUFFICES ASSUME phase' # "failed", NEW mk \in present', mk[1] = "data"
               PROVE  KnownKey(mk[2])'
    BY DEF Known
  <2>1. CASE mk \in present
    <3>1. KnownKey(mk[2]) /\ \A u \in Owners : de[u] = NoKey \/ de'[u] = de[u]
      BY <2>1 DEF KeyringSound, Known
    <3>2. CASE mk[2] \in stray
      BY <3>1, <3>2 DEF KnownKey
    <3>3. CASE mk[2] \notin stray
      <4>1. mk[2] # NoKey
        BY <3>1 DEF KnownKey
      <4>2. PICK u \in Owners : mk[2] = de[u] \/ (u # Sys /\ mk[2] = ce[u])
        BY <3>1, <3>3 DEF KnownKey
      <4>3. u # Sys => u \in Users
        BY DEF Owners
      <4>4. mk[2] = de'[u] \/ (u # Sys /\ mk[2] = ce'[u])
        BY <3>1, <4>1, <4>2, <4>3
      <4> QED
        BY <4>1, <4>4 DEF KnownKey
    <3> QED
      BY <3>2, <3>3
  <2>2. CASE mk \notin present
    BY <2>2 DEF Grown
  <2> QED
    BY <2>1, <2>2
<1>5. UnlockedUsable'
  <2> SUFFICES ASSUME phase' = "up", NEW u \in Users, ce'[u] # NoKey
               PROVE  <<"data", ce'[u]>> \in present'
    BY DEF UnlockedUsable, Installed
  <2>1. ce'[u] = ce[u] => Installed("data", ce[u])
    BY DEF KeyringSound, UnlockedUsable
  <2> QED
    BY <2>1 DEF Installed, Grown
<1> QED
  BY <1>1, <1>2, <1>3, <1>4, <1>5 DEF KeyringSound

\* Keys are evicted, and vold forgets them, whether the kernel does or not.
LEMMA Evicts ==
  ASSUME KeyringSound, NEW ks, evictKey("data", ks) \/ evictKeyFails(ks), phase = "up", phase' = "up",
         \A u \in Owners : de'[u] = de[u] \/ de[u] \in ks \cup {NoKey},
         \A u \in Users : \/ ce'[u] = ce[u] /\ ce[u] \notin ks
                          \/ ce'[u] = NoKey /\ ce[u] \in ks \cup {NoKey}
  PROVE  KeyringSound'
<1>1. /\ present' \subseteq present
      /\ \A mk \in present : ~(mk[1] = "data" /\ mk[2] \in ks) => mk \in present'
      /\ \A k \in provisioning : k \notin ks => k \in provisioning'
      /\ stray \subseteq stray'
      /\ Apart'
      /\ \A mk \in present' : mk[1] = "data" /\ mk[2] \in ks => mk[2] \in stray'
  <2>1. CASE evictKeyFails(ks)
    <3>1. present' = present /\ busy' = busy /\ provisioning' = provisioning /\ stray' = stray \cup ks
      BY <2>1 DEF evictKeyFails, keyring
    <3>2. Apart'
      BY <3>1 DEF KeyringSound, Apart
    <3> QED
      BY <3>1, <3>2
  <2>2. CASE evictKey("data", ks)
    <3>1. PICK open \in SUBSET {k \in ks : Installed("data", k)} : busy' = busy \cup ({"data"} \X open)
      BY <2>2 DEF evictKey
    <3>2. present' = present \ ({"data"} \X ks) /\ stray' = stray
      BY <2>2 DEF evictKey
    <3>3. provisioning' \in {provisioning, provisioning \ ks}
      BY <2>2 DEF evictKey, evictProvisioningKey
    <3>4. \A mk \in {"data"} \X ks : mk[1] = "data" /\ mk[2] \in ks
      OBVIOUS
    <3>5. \A mk \in {"data"} \X open : mk \in {"data"} \X ks
      BY <3>1
    <3>6. Apart'
      BY <3>1, <3>2, <3>5 DEF KeyringSound, Apart
    <3>7. \A mk \in present' : mk \in present
      BY <3>2
    <3>8. \A mk \in present' : mk[1] = "data" /\ mk[2] \in ks => mk[2] \in stray'
      <4> SUFFICES ASSUME NEW mk \in present', mk[1] = "data", mk[2] \in ks
                   PROVE  FALSE
        OBVIOUS
      <4>1. mk = <<"data", mk[2]>>
        BY <3>7 DEF KeyringSound, Apart
      <4> QED
        BY <3>2, <4>1
    <3> QED
      BY <3>2, <3>3, <3>4, <3>6, <3>7, <3>8
  <2> QED
    BY <2>1, <2>2
<1>2. Settled'
  BY DEF Settled
<1>3. Provisioned'
  BY <1>1 DEF KeyringSound, Provisioned
<1>4. Known'
  <2> SUFFICES ASSUME NEW mk \in present', mk[1] = "data"
               PROVE  KnownKey(mk[2])'
    BY DEF Known
  <2>1. KnownKey(mk[2])
    BY <1>1 DEF KeyringSound, Known
  <2>2. mk[2] \in ks => mk[2] \in stray'
    BY <1>1
  <2>3. CASE mk[2] \in stray'
    BY <2>1, <2>3 DEF KnownKey
  <2>4. CASE mk[2] \notin stray'
    <3>1. mk[2] # NoKey /\ mk[2] \notin ks
      BY <2>1, <2>2, <2>4 DEF KnownKey
    <3>2. PICK u \in Owners : mk[2] = de[u] \/ (u # Sys /\ mk[2] = ce[u])
      BY <2>1, <2>4, <1>1 DEF KnownKey
    <3>3. u # Sys => u \in Users
      BY DEF Owners
    <3>4. mk[2] = de'[u] \/ (u # Sys /\ mk[2] = ce'[u])
      BY <3>1, <3>2, <3>3
    <3> QED
      BY <3>1, <3>4 DEF KnownKey
  <2> QED
    BY <2>3, <2>4
<1>5. UnlockedUsable'
  <2> SUFFICES ASSUME NEW u \in Users, ce'[u] # NoKey
               PROVE  <<"data", ce'[u]>> \in present'
    BY DEF UnlockedUsable, Installed
  <2>1. ce'[u] = ce[u] /\ ce[u] \notin ks
    OBVIOUS
  <2>2. <<"data", ce[u]>> \in present
    BY <2>1 DEF KeyringSound, UnlockedUsable, Installed
  <2> QED
    BY <1>1, <2>1, <2>2
<1> QED
  BY <1>1, <1>2, <1>3, <1>4, <1>5 DEF KeyringSound

-----------------------------------------------------------------------------
(* The steps *)

\* A worker finds its key gone, or removes what was removed already.
LEMMA WorkerKeeps ==
  ASSUME Ind, NEW w \in workers, waitForBusyFiles(w)
  PROVE  Ind'
<1>1. UNCHANGED <<phase, fw, storedVars, policyVars, fsVars, volVars, provisioning, gen, bookVars>>
  BY DEF waitForBusyFiles
<1>2. phase = "up" /\ phase' = "up"
  BY <1>1 DEF Ind, KeyringSound, Settled
<1>3. present' = present /\ \A mk \in busy' : mk \in busy
  <2>1. CASE ~StillBusy(w.key)
    BY <2>1 DEF waitForBusyFiles
  <2>2. CASE StillBusy(w.key)
    <3>1. <<"data", w.key>> \in busy
      BY <2>2 DEF StillBusy
    <3>2. <<"data", w.key>> \notin present
      BY <3>1 DEF Ind, KeyringSound, Apart
    <3>3. present' = present \ {<<"data", w.key>>}
      BY <2>2 DEF waitForBusyFiles
    <3>4. busy' \in {busy \ {<<"data", w.key>>}, busy \cup {<<"data", w.key>>}}
      BY <2>2 DEF waitForBusyFiles
    <3> QED
      BY <3>1, <3>2, <3>3, <3>4
  <2> QED
    BY <2>1, <2>2
<1>4. Settled' /\ Apart'
  BY <1>2, <1>3 DEF Ind, KeyringSound, Settled, Apart
<1>5. Provisioned' /\ Known' /\ UnlockedUsable'
  BY <1>1, <1>2, <1>3 DEF Ind, KeyringSound, Provisioned, Known, KnownKey, UnlockedUsable, Installed, policyVars, bookVars
<1>6. TypedUsers' /\ TypedDirs' /\ VolumeSound' /\ StartRecovers'
  BY <1>1 DEF Ind, TypedUsers, TypedDirs, VolumeSound, StartRecovers, storedVars, policyVars, fsVars, volVars, bookVars
<1>7. UsersSound' /\ StartSound' /\ DirsSound'
  BY <1>1 DEF Ind, UsersSound, UserOk, KeysOf, Nothing, StartSound, DirsSound, DirsOk,
              storedVars, policyVars, fsVars, volVars
<1> QED
  BY <1>4, <1>5, <1>6, <1>7 DEF Ind, KeyringSound

\* The keyrings when nothing happens to them.
LEMMA KeyringFrame ==
  ASSUME KeyringSound, UNCHANGED <<phase, policyVars, keyring, stray>>
  PROVE  KeyringSound'
BY DEF KeyringSound, Settled, Apart, Provisioned, Known, KnownKey, UnlockedUsable, Installed, policyVars, keyring

\* The framework's own steps.
LEMMA FrameworkKeeps ==
  ASSUME Ind, NEW u \in Users, FinishUser(u) \/ RemoveUser(u) \/ UserGone(u)
  PROVE  Ind'
<1>1. /\ UNCHANGED <<phase, storedVars, policyVars, fsVars, volVars, keyring, gen, bookVars>>
      /\ fw[u] \in {"making", "alive", "leaving"}
  BY DEF FinishUser, RemoveUser, UserGone
<1>2. PICK s \in {"none", "alive", "leaving"} : fw' = [fw EXCEPT ![u] = s]
  BY DEF FinishUser, RemoveUser, UserGone
<1>3. /\ fw' \in [Users -> {"none", "making", "alive", "leaving"}] /\ fw'[u] = s
      /\ \A w \in Users : w # u => fw'[w] = fw[w]
  BY <1>2 DEF Ind, TypedUsers
<1>4. u # 0 /\ fw'[0] = "alive"
  <2>1. fw[0] = "alive" /\ 0 \in Users
    BY KeyForms DEF Ind, UsersSound
  <2>2. u # 0
    BY <2>1 DEF FinishUser, RemoveUser, UserGone
  <2> QED
    BY <2>1, <2>2, <1>3
<1>5. UserOk(u)'
  <2>1. UserOk(u) /\ KeysOf(u)
    BY DEF Ind, UsersSound, UserOk
  <2>2. KeysOf(u)'
    BY <1>1, <2>1 DEF KeysOf, storedVars, policyVars
  <2>3. u \in Owners /\ deKey[u] \in DeKeys(u) \cup {NoKey, Damaged} /\ de[u] \in DeKeys(u) \cup {NoKey}
    BY KeyForms DEF Ind, TypedUsers
  <2>4. u \in ephemeral => u # 0 /\ ce[u] # NoKey /\ de[u] # NoKey
    BY <2>1 DEF UserOk
  <2>5. CASE FinishUser(u)
    <3>1. fw'[u] = "alive" /\ fw[u] = "making" /\ de[u] # NoKey /\ (u \in ephemeral \/ deKey[u] = de[u])
      BY <2>5, <1>3 DEF FinishUser, Ind, TypedUsers
    <3>2. deKey[u] # Damaged
      BY <3>1, <2>1 DEF UserOk
    <3> QED
      BY <3>1, <3>2, <2>2, <2>4, <1>1 DEF UserOk, storedVars, policyVars
  <2>6. CASE RemoveUser(u)
    <3>1. fw'[u] = "leaving"
      BY <2>6 DEF RemoveUser, Ind, TypedUsers
    <3> QED
      BY <3>1, <2>2, <2>4, <1>1 DEF UserOk, policyVars
  <2>7. CASE UserGone(u)
    <3>1. /\ fw'[u] = "none" /\ deKey[u] = NoKey /\ ceKey[u] = NoKey /\ de[u] = NoKey
          /\ \A d \in Dirs : d[2] = u => dirs[d] = Absent
      BY <2>7 DEF UserGone, Ind, TypedUsers
    <3>2. ce[u] = NoKey /\ newCe[u] = NoKey /\ u \notin ephemeral
      BY <3>1, <2>1, <2>4, <1>4 DEF KeysOf
    <3>3. Nothing(u)'
      BY <3>1, <3>2, <1>1 DEF Nothing, storedVars, policyVars, fsVars
    <3> QED
      BY <3>1, <3>2, <3>3, <2>2, <1>1, KeyForms DEF UserOk, storedVars, policyVars
  <2> QED
    BY <2>5, <2>6, <2>7
<1>6. DirsOk(u)'
  <2>1. s = "alive" => fw[u] = "making"
    BY <1>3 DEF FinishUser, RemoveUser, UserGone, Ind, TypedUsers
  <2> QED
    BY <1>1, <1>3, <2>1 DEF Ind, DirsSound, DirsOk, storedVars, policyVars, fsVars, volVars
<1>7. \A w \in Users \ {u} : SameUser(w) /\ SameDirs(w) /\ SameVolume(w)
  BY <1>1, <1>3 DEF SameUser, SameDirs, SameVolume, storedVars, policyVars, fsVars, volVars
<1>8. UsersSound' /\ DirsSound'
  BY <1>4, <1>5, <1>6, <1>7, OneUser DEF Ind
<1>9. KeyringSound' /\ TypedDirs' /\ VolumeSound' /\ StartRecovers'
  BY <1>1, KeyringFrame DEF Ind, TypedDirs, VolumeSound, StartRecovers, bookVars, fsVars, volVars
<1>10. TypedUsers'
  BY <1>1, <1>3 DEF Ind, TypedUsers, storedVars, policyVars, bookVars
<1>11. StartSound'
  BY <1>1, <1>4, <1>7, StartFrame, KeyForms DEF Ind, fsVars
<1> QED
  BY <1>8, <1>9, <1>10, <1>11 DEF Ind

\* The CE key of a user is saved.
LEMMA ProtectionKeeps ==
  ASSUME Ind, NEW u \in Users, fscrypt_set_user_key_protection(u)
  PROVE  Ind'
<1>1. /\ phase = "up" /\ newCe[u] # NoKey
      /\ UNCHANGED <<phase, fw, deKey, de, ce, ephemeral, fsVars, volVars, keyring, gen, bookVars>>
  BY DEF fscrypt_set_user_key_protection
<1>2. newCe[u] \in Label /\ newCe[u] \in CeKeys(u) \cup {NoKey} /\ NoKey \in Label
  BY KeyForms DEF Ind, TypedUsers
<1>3. /\ ceKey' \in [Users -> Label] /\ newCe' \in [Users -> Label]
      /\ ceKey'[u] = newCe[u] /\ newCe'[u] = NoKey
      /\ \A w \in Users : w # u => ceKey'[w] = ceKey[w] /\ newCe'[w] = newCe[w]
  BY <1>2 DEF fscrypt_set_user_key_protection, Ind, TypedUsers
<1>4. UserOk(u) /\ KeysOf(u) /\ fw[0] = "alive" /\ fw[u] # "none"
  BY <1>1 DEF Ind, UsersSound, UserOk, Nothing
<1>5. ceKey[u] = NoKey /\ ce[u] \in {NoKey, newCe[u]}
  BY <1>1, <1>4 DEF KeysOf
<1>6. TypedUsers'
  BY <1>1, <1>2, <1>3 DEF Ind, TypedUsers, bookVars
<1>7. UserOk(u)'
  <2>1. KeysOf(u)'
    BY <1>1, <1>3, <1>4, <1>5 DEF KeysOf
  <2> QED
    BY <2>1, <1>1, <1>4 DEF UserOk
<1>8. DirsOk(u)'
  <2>1. u = 0 => dirs[DataData] = newCe[0]
    BY <1>1, <1>5 DEF Ind, StartSound
  <2>2. dirs[MiscDir(u, "ce")] # NoKey
    BY DirForms DEF Ind, TypedDirs, Classes
  <2>3. DirsOk(u)
    BY DEF Ind, DirsSound
  <2> QED
    BY <2>1, <2>2, <2>3, <1>1, <1>3, <1>5 DEF DirsOk, fsVars, volVars
<1>9. \A w \in Users \ {u} : SameUser(w) /\ SameDirs(w) /\ SameVolume(w)
  BY <1>1, <1>3 DEF SameUser, SameDirs, SameVolume, fsVars, volVars
<1>10. UsersSound' /\ DirsSound'
  BY <1>1, <1>4, <1>7, <1>8, <1>9, OneUser DEF Ind
<1>11. KeyringSound'
  BY <1>1 DEF Ind, KeyringSound, Settled, Apart, Provisioned, Known, KnownKey, UnlockedUsable, Installed, keyring, bookVars
<1>12. TypedDirs' /\ VolumeSound' /\ StartRecovers'
  BY <1>1 DEF Ind, TypedDirs, VolumeSound, StartRecovers, bookVars, fsVars, volVars
<1>13. StartSound'
  <2>1. CASE u = 0
    BY <2>1, <1>1, <1>3 DEF Ind, StartSound, fsVars
  <2>2. CASE u # 0
    BY <2>2, <1>1, <1>9, StartFrame, KeyForms DEF Ind, fsVars
  <2> QED
    BY <2>1, <2>2
<1> QED
  BY <1>6, <1>10, <1>11, <1>12, <1>13 DEF Ind

\* A user is unlocked, or the kernel refuses its key.
LEMMA UnlockKeeps ==
  ASSUME Ind, NEW u \in Users, fscrypt_unlock_user_key(u)
  PROVE  Ind'
<1>1. /\ phase = "up" /\ ce[u] = NoKey /\ ceKey[u] # NoKey
      /\ UNCHANGED <<phase, fw, storedVars, de, newCe, ephemeral, fsVars, volVars, gen>>
  BY DEF fscrypt_unlock_user_key
<1>2. ceKey[u] \in Label /\ ceKey[u] \in CeKeys(u)
  BY <1>1 DEF Ind, TypedUsers
<1>3. /\ ce' \in [Users -> Label] /\ ce'[u] \in {NoKey, ceKey[u]}
      /\ \A w \in Users : w # u => ce'[w] = ce[w]
  BY <1>1, <1>2 DEF fscrypt_unlock_user_key, Ind, TypedUsers
<1>4. UserOk(u) /\ KeysOf(u) /\ fw[0] = "alive" /\ fw[u] # "none"
  BY <1>1 DEF Ind, UsersSound, UserOk, Nothing
<1>5. newCe[u] = NoKey /\ u \notin ephemeral
  BY <1>1, <1>4 DEF KeysOf, UserOk
<1>6. TypedUsers'
  <2>1. faults' \in Nat
    BY DEF fscrypt_unlock_user_key, installKeyFails, Fault, NoFault, Ind, TypedUsers
  <2> QED
    BY <2>1, <1>1, <1>2, <1>3 DEF Ind, TypedUsers, storedVars
<1>7. UserOk(u)'
  <2>1. KeysOf(u)'
    BY <1>1, <1>3, <1>4, <1>5 DEF KeysOf, storedVars
  <2> QED
    BY <2>1, <1>1, <1>4, <1>5 DEF UserOk, storedVars
<1>8. DirsOk(u)'
  BY <1>1 DEF Ind, DirsSound, DirsOk, fsVars, volVars, storedVars
<1>9. \A w \in Users \ {u} : SameUser(w) /\ SameDirs(w) /\ SameVolume(w)
  BY <1>1, <1>3 DEF SameUser, SameDirs, SameVolume, fsVars, volVars, storedVars
<1>10. UsersSound' /\ DirsSound'
  BY <1>1, <1>4, <1>7, <1>8, <1>9, OneUser DEF Ind
<1>11. KeyringSound'
  <2> DEFINE k == ceKey[u]
  <2>1. \A w \in Owners : de'[w] = de[w]
    BY <1>1
  <2>2. CASE installKey("data", {k}) /\ ce' = [ce EXCEPT ![u] = k]
    <3>1. installFsKeyringKey("data", {k}) /\ provisioning' = provisioning \cup {k} /\ UNCHANGED <<workers, stray>>
      BY <2>2 DEF installKey
    <3>2. Grown("data", {k}) /\ <<"data", k>> \in present'
      BY <3>1, InstallGrows DEF Ind, KeyringSound
    <3>3. ce'[u] = k /\ k # NoKey
      BY <2>2, <1>1 DEF Ind, TypedUsers
    <3>4. \A x \in {k} : KnownKey(x)'
      BY <3>3, KeyForms DEF KnownKey
    <3> QED
      BY <1>1, <1>3, <2>1, <3>1, <3>2, <3>3, <3>4, Installs DEF Ind
  <2>3. CASE installKeyFails("data", {k}) /\ ce' = ce
    <3>1. CASE UNCHANGED <<keyring, stray>>
      BY <1>1, <2>3, <3>1, KeyringFrame DEF Ind, policyVars
    <3>2. CASE /\ installFsKeyringKey("data", {k})
               /\ stray' = stray \cup {k} /\ UNCHANGED <<provisioning, workers>>
      <4>1. Grown("data", {k})
        BY <3>2, InstallGrows DEF Ind, KeyringSound
      <4>2. \A x \in {k} : KnownKey(x)'
        BY <1>1, <3>2 DEF KnownKey
      <4> QED
        BY <1>1, <2>1, <2>3, <3>2, <4>1, <4>2, Installs DEF Ind
    <3> QED
      BY <2>3, <3>1, <3>2 DEF installKeyFails
  <2> QED
    BY <2>2, <2>3 DEF fscrypt_unlock_user_key
<1>12. TypedDirs' /\ VolumeSound' /\ StartRecovers'
  BY <1>1 DEF Ind, TypedDirs, VolumeSound, StartRecovers, fsVars, volVars
<1>13. StartSound'
  <2>1. CASE u = 0
    BY <2>1, <1>1, <1>3 DEF Ind, StartSound, fsVars, storedVars
  <2>2. CASE u # 0
    BY <2>2, <1>1, <1>9, StartFrame, KeyForms DEF Ind, fsVars
  <2> QED
    BY <2>1, <2>2
<1> QED
  BY <1>6, <1>10, <1>11, <1>12, <1>13 DEF Ind

\* The keys of a user are no other user's.
LEMMA OwnKeys ==
  ASSUME TypedUsers, NEW u \in Users, NEW w \in Users, w # u
  PROVE  ce[w] \notin {ce[u], de[u]} \ {NoKey}
<1>1. /\ ce[w] \in CeKeys(w) \cup {NoKey} /\ ce[u] \in CeKeys(u) \cup {NoKey} /\ de[u] \in DeKeys(u) \cup {NoKey}
      /\ u \in Owners /\ w \in Owners
  BY KeyForms DEF TypedUsers
<1>2. ce[w] \in CeKeys(w) => ce[w] \notin CeKeys(u)
  BY <1>1, KeyForms
<1>3. ce[w] \in CeKeys(w) => ce[w] \notin DeKeys(u)
  BY <1>1, KeyForms
<1> QED
  BY <1>1, <1>2, <1>3

\* A user is locked.
LEMMA LockKeeps ==
  ASSUME Ind, NEW u \in Users, fscrypt_lock_user_key(u)
  PROVE  Ind'
<1>1. /\ phase = "up" /\ u # 0 /\ ce[u] # NoKey /\ newCe[u] = NoKey /\ u \notin ephemeral
      /\ UNCHANGED <<phase, fw, storedVars, de, ephemeral, fsVars, volVars, gen>>
  BY DEF fscrypt_lock_user_key
<1>2. /\ ce' \in [Users -> Label] /\ newCe' \in [Users -> Label] /\ ce'[u] = NoKey /\ newCe'[u] = NoKey
      /\ \A w \in Users : w # u => ce'[w] = ce[w] /\ newCe'[w] = newCe[w]
  BY <1>1, KeyForms DEF fscrypt_lock_user_key, evict_ce_key, Ind, TypedUsers
<1>3. UserOk(u) /\ KeysOf(u) /\ fw[0] = "alive" /\ fw[u] # "none"
  BY <1>1 DEF Ind, UsersSound, UserOk, Nothing
<1>4. TypedUsers'
  <2>1. faults' \in Nat
    BY DEF fscrypt_lock_user_key, evict_ce_key, evictKey, evictKeyFails, evictProvisioningKey, Fault, NoFault, Ind, TypedUsers
  <2> QED
    BY <2>1, <1>1, <1>2 DEF Ind, TypedUsers, storedVars
<1>5. UserOk(u)'
  <2>1. KeysOf(u)'
    BY <1>1, <1>2, <1>3 DEF KeysOf, storedVars
  <2> QED
    BY <2>1, <1>1, <1>3 DEF UserOk, storedVars
<1>6. DirsOk(u)'
  BY <1>1 DEF Ind, DirsSound, DirsOk, fsVars, volVars, storedVars
<1>7. \A w \in Users \ {u} : SameUser(w) /\ SameDirs(w) /\ SameVolume(w)
  BY <1>1, <1>2 DEF SameUser, SameDirs, SameVolume, fsVars, volVars, storedVars
<1>8. UsersSound' /\ DirsSound'
  BY <1>1, <1>3, <1>5, <1>6, <1>7, OneUser DEF Ind
<1>9. KeyringSound'
  <2> DEFINE ks == {ce[u]} \ {NoKey}
  <2>1. evictKey("data", ks) \/ evictKeyFails(ks)
    BY DEF fscrypt_lock_user_key, evict_ce_key
  <2>2. \A w \in Users : \/ ce'[w] = ce[w] /\ ce[w] \notin ks
                         \/ ce'[w] = NoKey /\ ce[w] \in ks \cup {NoKey}
    BY <1>2, OwnKeys DEF Ind
  <2>3. \A w \in Owners : de'[w] = de[w] \/ de[w] \in ks \cup {NoKey}
    BY <1>1
  <2> HIDE DEF ks
  <2> QED
    BY <1>1, <2>1, <2>2, <2>3, Evicts DEF Ind
<1>10. TypedDirs' /\ VolumeSound' /\ StartRecovers'
  BY <1>1 DEF Ind, TypedDirs, VolumeSound, StartRecovers, fsVars, volVars
<1>11. StartSound'
  BY <1>1, <1>7, StartFrame, KeyForms DEF Ind, fsVars
<1> QED
  BY <1>4, <1>8, <1>9, <1>10, <1>11 DEF Ind

\* The keys of a user that leaves are destroyed, as far as that succeeds.
LEMMA DestroyKeyKeeps ==
  ASSUME Ind, NEW u \in Users, fscrypt_destroy_user_key(u)
  PROVE  Ind'
<1>1. /\ phase = "up" /\ fw[u] = "leaving" /\ ephemeral' = ephemeral \ {u}
      /\ UNCHANGED <<phase, fw, fsVars, volVars, gen>>
  BY DEF fscrypt_destroy_user_key
<1>2. u # 0 /\ fw[0] = "alive" /\ u \in Owners
  BY <1>1, KeyForms DEF Ind, UsersSound
<1>3. /\ ce' \in [Users -> Label] /\ newCe' \in [Users -> Label] /\ de' \in [Owners -> Label]
      /\ ce'[u] = NoKey /\ newCe'[u] = NoKey /\ de'[u] = NoKey
      /\ \A w \in Users : w # u => ce'[w] = ce[w] /\ newCe'[w] = newCe[w]
      /\ \A w \in Owners : w # u => de'[w] = de[w]
  BY <1>2, KeyForms DEF fscrypt_destroy_user_key, Ind, TypedUsers
<1>4. \E k \in {NoKey, Damaged} : deKey' = [deKey EXCEPT ![u] = k]
  BY DEF fscrypt_destroy_user_key
<1>5. /\ deKey' \in [Owners -> Label] /\ deKey'[u] \in {NoKey, Damaged}
      /\ \A w \in Owners : w # u => deKey'[w] = deKey[w]
  BY <1>2, <1>4, KeyForms DEF Ind, TypedUsers
<1>6. ceKey' = ceKey \/ ceKey' = [ceKey EXCEPT ![u] = NoKey]
  BY DEF fscrypt_destroy_user_key
<1>7. /\ ceKey' \in [Users -> Label] /\ ceKey'[u] \in {NoKey, ceKey[u]}
      /\ \A w \in Users : w # u => ceKey'[w] = ceKey[w]
  BY <1>6, KeyForms DEF Ind, TypedUsers
<1>8. TypedUsers'
  <2>1. faults' \in Nat
    BY DEF fscrypt_destroy_user_key, evictKey, evictKeyFails, evictProvisioningKey, Fault, NoFault, Ind, TypedUsers
  <2>2. \A w \in Owners : de'[w] \in DeKeys(w) \cup {NoKey} /\ deKey'[w] \in DeKeys(w) \cup {NoKey, Damaged}
    BY <1>3, <1>5 DEF Ind, TypedUsers
  <2>3. \A w \in Users : {ce'[w], newCe'[w], ceKey'[w]} \subseteq CeKeys(w) \cup {NoKey}
    BY <1>3, <1>7 DEF Ind, TypedUsers
  <2>4. deKey'[Sys] # Damaged
    BY <1>5, KeyForms DEF Ind, TypedUsers
  <2> QED
    BY <2>1, <2>2, <2>3, <2>4, <1>1, <1>3, <1>5, <1>7 DEF Ind, TypedUsers
<1>9. UserOk(u)'
  <2>1. KeysOf(u)'
    BY <1>3, <1>5 DEF KeysOf
  <2> QED
    BY <2>1, <1>1 DEF UserOk
<1>10. DirsOk(u)'
  BY <1>1 DEF DirsOk
<1>11. \A w \in Users \ {u} : SameUser(w) /\ SameDirs(w) /\ SameVolume(w)
  BY <1>1, <1>3, <1>5, <1>7, KeyForms DEF SameUser, SameDirs, SameVolume, fsVars, volVars
<1>12. UsersSound' /\ DirsSound'
  BY <1>1, <1>2, <1>9, <1>10, <1>11, OneUser DEF Ind
<1>13. KeyringSound'
  <2> DEFINE ks == {ce[u], de[u]} \ {NoKey}
  <2>1. evictKey("data", ks) \/ evictKeyFails(ks)
    BY DEF fscrypt_destroy_user_key
  <2>2. \A w \in Users : \/ ce'[w] = ce[w] /\ ce[w] \notin ks
                         \/ ce'[w] = NoKey /\ ce[w] \in ks \cup {NoKey}
    BY <1>3, OwnKeys DEF Ind
  <2>3. \A w \in Owners : de'[w] = de[w] \/ de[w] \in ks \cup {NoKey}
    BY <1>3
  <2> HIDE DEF ks
  <2> QED
    BY <1>1, <2>1, <2>2, <2>3, Evicts DEF Ind
<1>14. TypedDirs' /\ VolumeSound' /\ StartRecovers'
  BY <1>1 DEF Ind, TypedDirs, VolumeSound, StartRecovers, fsVars, volVars
<1>15. StartSound'
  BY <1>1, <1>2, <1>11, StartFrame, KeyForms DEF Ind, fsVars
<1> QED
  BY <1>8, <1>12, <1>13, <1>14, <1>15 DEF Ind

\* A key cannot be installed: the kernel has it or has it not, and no policy changes.
LEMMA InstallFailsKeeps ==
  ASSUME Ind, NEW k \in Label \ {NoKey}, NEW m, installKeyFails(m, {k}), UNCHANGED <<de, ce>>,
         phase # "failed", phase' # "sys", phase' = "up" <=> phase = "up"
  PROVE  KeyringSound'
<1>1. KeyringSound /\ Apart
  BY DEF Ind, KeyringSound
<1>2. CASE UNCHANGED <<keyring, stray>>
  <2>1. Grown("data", {}) /\ provisioning' = provisioning /\ workers' = workers
    BY <1>1, <1>2, SameGrows DEF keyring
  <2>2. \A x \in {} : KnownKey(x)'
    OBVIOUS
  <2> QED
    BY <1>1, <1>2, <2>1, <2>2, Installs
<1>3. CASE /\ installFsKeyringKey(m, {k})
           /\ stray' = stray \cup {k} /\ UNCHANGED <<provisioning, workers>>
  <2>1. Grown(m, {k})
    BY <1>1, <1>3, InstallGrows
  <2>2. \A x \in {k} : KnownKey(x)'
    BY <1>3 DEF KnownKey
  <2> QED
    BY <1>1, <1>3, <2>1, <2>2, Installs
<1> QED
  BY <1>2, <1>3 DEF installKeyFails

\* The framework makes a user, or asks again for the key of one that it has.
LEMMA CreateKeeps ==
  ASSUME Ind, NEW u \in Users, NEW eph \in BOOLEAN, fscrypt_vold_create_user_key(u, eph)
  PROVE  Ind'
<1> DEFINE dk == NextKey(<<u, "de">>)
           ck == NextKey(<<u, "ce">>)
           Refused == UNCHANGED <<deKey, policyVars, keyring, stray, gen>> /\ faults' \in Nat
           Made == /\ create_de_key(u, eph) /\ create_ce_key(u, eph)
                   /\ generateStorageKey({<<u, "de">>, <<u, "ce">>})
                   /\ installKey("data", {dk, ck})
                   /\ ephemeral' = IF eph THEN ephemeral \cup {u} ELSE ephemeral
                   /\ NoFault
           NoDe == /\ UNCHANGED policyVars /\ (eph \/ MayStore(u))
                   /\ generateStorageKey({<<u, "de">>})
                   /\ deKey' = IF eph THEN deKey ELSE [deKey EXCEPT ![u] = dk]
                   /\ installKeyFails("data", {dk})
           NoCe == /\ create_de_key(u, eph) /\ create_ce_key_fails(u, eph)
                   /\ generateStorageKey({<<u, "de">>, <<u, "ce">>})
                   /\ Fault
                   /\ installKey("data", {dk})
                   /\ UNCHANGED ephemeral
<1>1. /\ phase = "up" /\ u # 0 /\ ce[u] = NoKey
      /\ fw[u] = "none" \/ (fw[u] = "alive" /\ ~eph)
      /\ UNCHANGED <<phase, ceKey, fsVars, volVars>>
      /\ fw' = [fw EXCEPT ![u] = IF @ = "none" THEN "making" ELSE @]
  BY DEF fscrypt_vold_create_user_key
<1>2. Refused \/ Made \/ NoDe \/ NoCe
  <2>1. faults \in Nat
    BY DEF Ind, TypedUsers
  <2>2. CASE Fault /\ UNCHANGED <<deKey, keyring, stray, gen>> /\ UNCHANGED policyVars
    BY <2>1, <2>2 DEF Fault
  <2>3. CASE NoFault /\ UNCHANGED <<deKey, policyVars, keyring, stray, gen>>
    BY <2>1, <2>3 DEF NoFault
  <2> QED
    BY <2>2, <2>3 DEF fscrypt_vold_create_user_key, create_de_key_fails
<1>3. /\ fw' \in [Users -> {"none", "making", "alive", "leaving"}]
      /\ fw'[u] = (IF fw[u] = "none" THEN "making" ELSE fw[u])
      /\ \A w \in Users : w # u => fw'[w] = fw[w]
  BY <1>1 DEF Ind, TypedUsers
<1>4. u \in Owners /\ 0 \in Users /\ Sys # u /\ Sys \in Owners
  BY KeyForms
<1>5. UserOk(u) /\ KeysOf(u) /\ fw[0] = "alive" /\ fw'[0] = "alive"
  BY <1>1, <1>3, <1>4 DEF Ind, UsersSound, UserOk
<1>6. TypedDirs' /\ VolumeSound' /\ StartRecovers'
  BY <1>1 DEF Ind, TypedDirs, VolumeSound, StartRecovers, fsVars, volVars
<1>7. fw[u] = "alive" => deKey[u] # NoKey
  BY <1>1, <1>5 DEF UserOk
<1>8. CASE Refused
  <2>1. UserOk(u)'
    <3>1. KeysOf(u)'
      BY <1>1, <1>5, <1>8 DEF KeysOf, policyVars
    <3> QED
      BY <3>1, <1>1, <1>3, <1>5, <1>8 DEF UserOk, Nothing, policyVars
  <2>2. DirsOk(u)'
    <3>1. CASE fw[u] = "none"
      <4>1. \A d \in Dirs : d[2] = u => dirs'[d] = Absent
        BY <1>1, <1>5, <3>1 DEF UserOk, Nothing, fsVars
      <4>2. \A c \in Classes : dirs'[MiscDir(u, c)] = Absent /\ dirs'[ExtDir(u, c)] = Absent
        BY <4>1, DirForms
      <4>3. "de" \in Classes /\ "ce" \in Classes
        BY DEF Classes
      <4> QED
        BY <4>2, <4>3, <1>1 DEF DirsOk
    <3>2. CASE fw[u] # "none"
      BY <3>2, <1>1, <1>3, <1>8 DEF Ind, DirsSound, DirsOk, policyVars, fsVars, volVars
    <3> QED
      BY <3>1, <3>2
  <2>3. \A w \in Users \ {u} : SameUser(w) /\ SameDirs(w) /\ SameVolume(w)
    BY <1>1, <1>3, <1>8 DEF SameUser, SameDirs, SameVolume, policyVars, fsVars, volVars
  <2>4. UsersSound' /\ DirsSound'
    BY <1>5, <2>1, <2>2, <2>3, OneUser DEF Ind
  <2>5. StartSound'
    BY <1>1, <1>4, <2>3, StartFrame DEF Ind, fsVars
  <2>6. KeyringSound'
    BY <1>1, <1>8, KeyringFrame DEF Ind
  <2>7. TypedUsers'
    BY <1>1, <1>3, <1>8 DEF Ind, TypedUsers, policyVars
  <2> QED
    BY <1>6, <2>4, <2>5, <2>6, <2>7 DEF Ind
<1>9. CASE Made \/ NoDe \/ NoCe
  <2>1. fw[u] = "none" /\ Nothing(u) /\ fw'[u] = "making"
    BY <1>1, <1>3, <1>5, <1>7, <1>9 DEF create_de_key, MayStore, UserOk
  <2>2. /\ de[u] = NoKey /\ newCe[u] = NoKey /\ deKey[u] = NoKey /\ ceKey[u] = NoKey /\ u \notin ephemeral
        /\ \A d \in Dirs : d[2] = u => dirs'[d] = Absent
    BY <2>1, <1>1 DEF Nothing, fsVars
  <2>3. dk \in DeKeys(u) /\ ck \in CeKeys(u) /\ dk \in Label \ {NoKey, Damaged} /\ ck \in Label \ {NoKey}
    <3>1. dk \in DeKeys(u) /\ ck \in CeKeys(u)
      BY <1>4, NextKeys DEF Ind
    <3> HIDE DEF dk, ck
    <3> QED
      BY <3>1, <1>4, KeyForms
  <2>4. gen' \in [Purposes -> Nat] /\ faults' \in Nat
    BY <1>9, GenTyped DEF Ind, TypedUsers, Fault, NoFault, installKeyFails
  <2>5. /\ deKey' \in [Owners -> Label] /\ deKey'[u] \in {NoKey, dk}
        /\ \A w \in Owners : w # u => deKey'[w] = deKey[w]
    <3>1. deKey' = deKey \/ deKey' = [deKey EXCEPT ![u] = dk]
      BY <1>9 DEF create_de_key
    <3> HIDE DEF dk
    <3> QED
      BY <3>1, <2>2, <2>3, <1>4 DEF Ind, TypedUsers
  <2>6. /\ de' \in [Owners -> Label] /\ de'[u] \in {NoKey, dk} /\ (Made \/ NoCe => de'[u] = dk)
        /\ \A w \in Owners : w # u => de'[w] = de[w]
    <3>1. CASE NoDe
      <4>1. de' = de
        BY <3>1 DEF policyVars
      <4>2. Made \/ NoCe => de' = [de EXCEPT ![u] = dk]
        BY DEF create_de_key
      <4> HIDE DEF dk, Made, NoDe, NoCe
      <4> QED
        BY <4>1, <4>2, <2>2, <1>4 DEF Ind, TypedUsers
    <3>2. CASE Made \/ NoCe
      <4>1. de' = [de EXCEPT ![u] = dk]
        BY <3>2 DEF create_de_key
      <4> HIDE DEF dk
      <4> QED
        BY <4>1, <2>3, <1>4 DEF Ind, TypedUsers
    <3> QED
      BY <1>9, <3>1, <3>2
  <2>7. /\ ce' \in [Users -> Label] /\ ce'[u] \in {NoKey, ck} /\ (Made => ce'[u] = ck) /\ (NoDe \/ NoCe => ce' = ce)
        /\ \A w \in Users : w # u => ce'[w] = ce[w]
    <3>1. CASE NoDe \/ NoCe
      <4>1. ce' = ce
        BY <3>1 DEF policyVars, create_ce_key_fails
      <4> QED
        BY <4>1, <1>1 DEF Ind, TypedUsers, create_ce_key
    <3>2. CASE Made
      <4>1. ce' = [ce EXCEPT ![u] = ck]
        BY <3>2 DEF create_ce_key
      <4>2. NoDe \/ NoCe => ce' = ce
        BY DEF policyVars, create_ce_key_fails
      <4> HIDE DEF ck
      <4> QED
        BY <4>1, <4>2, <2>3 DEF Ind, TypedUsers
    <3> QED
      BY <1>9, <3>1, <3>2
  <2>8. /\ newCe' \in [Users -> Label] /\ newCe'[u] \in {NoKey, ck} /\ (NoDe => newCe' = newCe)
        /\ \A w \in Users : w # u => newCe'[w] = newCe[w]
    <3>1. newCe' = newCe \/ newCe' = [newCe EXCEPT ![u] = ck]
      BY <1>9 DEF create_ce_key, create_ce_key_fails, policyVars
    <3>2. NoDe => newCe' = newCe
      BY DEF policyVars
    <3> HIDE DEF ck
    <3> QED
      BY <3>1, <3>2, <2>2, <2>3 DEF Ind, TypedUsers
  <2>9. /\ ephemeral' \subseteq Users /\ (~Made => ephemeral' = ephemeral)
        /\ \A w \in Users : w # u => (w \in ephemeral' <=> w \in ephemeral)
    BY <1>9 DEF policyVars, Ind, TypedUsers
  <2>10. TypedUsers'
    <3> HIDE DEF dk, ck, Made, NoDe, NoCe
    <3>1. \A w \in Owners : de'[w] \in DeKeys(w) \cup {NoKey} /\ deKey'[w] \in DeKeys(w) \cup {NoKey, Damaged}
      BY <2>3, <2>5, <2>6 DEF Ind, TypedUsers
    <3>2. \A w \in Users : {ce'[w], newCe'[w], ceKey'[w]} \subseteq CeKeys(w) \cup {NoKey}
      BY <1>1, <2>3, <2>7, <2>8 DEF Ind, TypedUsers
    <3>3. deKey'[Sys] # Damaged
      BY <2>5, <1>4 DEF Ind, TypedUsers
    <3> QED
      BY <3>1, <3>2, <3>3, <1>1, <1>3, <2>4, <2>5, <2>6, <2>7, <2>8, <2>9 DEF Ind, TypedUsers
  <2>11. UserOk(u)'
    <3> HIDE DEF dk, ck, Made, NoDe, NoCe
    <3>1. ce'[u] # NoKey \/ newCe'[u] # NoKey => de'[u] = dk
      BY <1>1, <1>9, <2>2, <2>6, <2>7, <2>8
    <3>2. u \in ephemeral' => ce'[u] = ck /\ de'[u] = dk
      BY <1>9, <2>2, <2>6, <2>7, <2>9
    <3>3. newCe'[u] # NoKey => ce'[u] \in {NoKey, newCe'[u]}
      BY <2>7, <2>8
    <3>4. KeysOf(u)'
      BY <3>1, <3>3, <1>1, <2>2, <2>3, <2>5, <2>6 DEF KeysOf
    <3> QED
      BY <3>2, <3>4, <1>1, <2>1, <2>3, <2>5, KeyForms DEF UserOk
  <2>12. DirsOk(u)'
    <3>1. \A c \in Classes : dirs'[MiscDir(u, c)] = Absent /\ dirs'[ExtDir(u, c)] = Absent
      BY <2>2, DirForms
    <3>2. "de" \in Classes /\ "ce" \in Classes
      BY DEF Classes
    <3> QED
      BY <3>1, <3>2, <1>1 DEF DirsOk
  <2>13. \A w \in Users \ {u} : SameUser(w) /\ SameDirs(w) /\ SameVolume(w)
    <3> HIDE DEF dk, ck, Made, NoDe, NoCe
    <3> QED
      BY <1>1, <1>3, <2>5, <2>6, <2>7, <2>8, <2>9, KeyForms DEF SameUser, SameDirs, SameVolume, fsVars, volVars
  <2>14. UsersSound' /\ DirsSound'
    BY <1>5, <2>11, <2>12, <2>13, OneUser DEF Ind
  <2>15. StartSound'
    BY <1>1, <1>4, <2>13, StartFrame DEF Ind, fsVars
  <2>16. KeyringSound'
    <3>1. CASE NoDe
      BY <3>1, <1>1, <2>3, InstallFailsKeeps DEF policyVars
    <3>2. CASE Made
      <4>1. /\ installFsKeyringKey("data", {dk, ck}) /\ provisioning' = provisioning \cup {dk, ck}
            /\ UNCHANGED <<workers, stray>>
        BY <3>2 DEF installKey
      <4>2. de'[u] = dk /\ ce'[u] = ck
        BY <3>2, <2>6, <2>7
      <4> HIDE DEF dk, ck, Made, NoDe, NoCe
      <4>3. Grown("data", {dk, ck}) /\ <<"data", ck>> \in present'
        BY <4>1, InstallGrows DEF Ind, KeyringSound
      <4>4. \A x \in {dk, ck} : KnownKey(x)'
        BY <4>2, <1>4, <2>3 DEF KnownKey
      <4>5. \A w \in Users : \/ ce'[w] = ce[w]
                             \/ ce[w] = NoKey /\ ce'[w] \in provisioning' /\ <<"data", ce'[w]>> \in present'
        BY <1>1, <2>7, <4>1, <4>2, <4>3
      <4> QED
        BY <1>1, <2>2, <2>6, <4>1, <4>3, <4>4, <4>5, Installs DEF Ind
    <3>3. CASE NoCe
      <4>1. /\ installFsKeyringKey("data", {dk}) /\ provisioning' = provisioning \cup {dk}
            /\ UNCHANGED <<workers, stray>>
        BY <3>3 DEF installKey
      <4>2. de'[u] = dk /\ ce' = ce
        BY <3>3, <2>6, <2>7
      <4> HIDE DEF dk, ck, Made, NoDe, NoCe
      <4>3. Grown("data", {dk})
        BY <4>1, InstallGrows DEF Ind, KeyringSound
      <4>4. \A x \in {dk} : KnownKey(x)'
        BY <4>2, <1>4, <2>3 DEF KnownKey
      <4> QED
        BY <1>1, <2>2, <2>6, <4>1, <4>2, <4>3, <4>4, Installs DEF Ind
    <3> QED
      BY <1>9, <3>1, <3>2, <3>3
  <2> QED
    BY <1>6, <2>10, <2>14, <2>15, <2>16 DEF Ind
<1> QED
  BY <1>2, <1>8, <1>9

\* The internal storage of a user is prepared, as far as that succeeds.
LEMMA InternalKeeps ==
  ASSUME Ind, NEW u \in Users, NEW c \in Classes, PrepareInternal(u, c)
  PROVE  Ind'
<1> DEFINE p == PolicyOf(u, c)
<1>1. /\ phase = "up" /\ fw[u] # "none" /\ (c = "ce" => ceKey[u] # NoKey \/ u \in ephemeral) /\ p # NoKey
      /\ PrepareDirs("data", u, c, p)
      /\ UNCHANGED <<phase, fw, storedVars, policyVars, obb, volVars, keyring, gen, stray>>
  BY DEF PrepareInternal
<1>2. p \in Label \ {NoKey} /\ p = (IF c = "de" THEN de[u] ELSE ce[u])
  BY <1>1, KeyForms DEF PolicyOf, Ind, TypedUsers
<1>3. faults' \in Nat
  BY <1>1 DEF PrepareDirs, Fault, NoFault, Ind, TypedUsers
<1> HIDE DEF p
<1>4. /\ dirs' \in [Dirs -> Label]
      /\ \A d \in Dirs : \/ dirs'[d] = dirs[d]
                         \/ d \in ClassDirs("data", u, c) /\ dirs[d] \in {Absent, Plain} /\ dirs'[d] \in {p, Plain}
  BY <1>1, <1>2, PreparedIs DEF Ind
<1>5. \A d \in Dirs : d \in ClassDirs("data", u, c) =>
        /\ d[2] = u
        /\ \A b \in Classes : d # ExtDir(u, b) /\ (d = MiscDir(u, b) => b = c)
        /\ d = DataData => u = 0 /\ c = "ce"
  BY ClassDirForms
<1>6. UserOk(u) /\ KeysOf(u) /\ fw[0] = "alive" /\ 0 \notin ephemeral
  BY KeyForms DEF Ind, UsersSound, UserOk
<1>7. /\ \A w \in Users : SameUser(w) /\ SameVolume(w)
      /\ \A w \in Users \ {u} : SameDirs(w)
  <2>1. \A w \in Users : SameUser(w) /\ SameVolume(w)
    BY <1>1 DEF SameUser, SameVolume, storedVars, policyVars, volVars
  <2>2. \A w \in Users \ {u} : SameDirs(w)
    BY <1>4, <1>5 DEF SameDirs
  <2> QED
    BY <2>1, <2>2
<1>8. UserOk(u)'
  BY <1>1, <1>6, <1>7, UserFrame
<1>9. DirsOk(u)'
  <2>1. \A b \in Classes : dirs'[ExtDir(u, b)] = dirs[ExtDir(u, b)]
    BY <1>4, <1>5, DirForms
  <2>2. "de" \in Classes /\ "ce" \in Classes /\ c \in {"de", "ce"}
    BY DEF Classes
  <2>3. ASSUME fw[u] \in {"making", "alive"}, u \notin ephemeral, u = 0 \/ deKey[u] # NoKey
        PROVE  /\ dirs'[MiscDir(u, "de")] \in {Absent, Plain, deKey[u]}
               /\ dirs'[MiscDir(u, "ce")] \in {Absent, Plain, ceKey[u]}
               /\ u = 0 /\ ceKey[0] # NoKey => dirs'[DataData] \in {Absent, Plain, ceKey[0]}
    <3>1. c = "de" => p = deKey[u]
      <4>1. deKey[u] # Damaged
        BY <2>3, <1>6 DEF UserOk
      <4>2. u = 0 => de[0] = deKey[0]
        BY <1>1 DEF Ind, StartSound
      <4> QED
        BY <4>1, <4>2, <2>3, <1>1, <1>2, <1>6 DEF KeysOf
    <3>2. c = "ce" => p = ceKey[u]
      BY <2>3, <1>1, <1>2, <1>6 DEF KeysOf
    <3>3. /\ dirs[MiscDir(u, "de")] \in {Absent, Plain, deKey[u]}
          /\ dirs[MiscDir(u, "ce")] \in {Absent, Plain, ceKey[u]}
          /\ u = 0 /\ ceKey[0] # NoKey => dirs[DataData] \in {Absent, Plain, ceKey[0]}
      BY <2>3 DEF Ind, DirsSound, DirsOk
    <3>4. /\ dirs'[MiscDir(u, "de")] = dirs[MiscDir(u, "de")] \/ (c = "de" /\ dirs'[MiscDir(u, "de")] \in {p, Plain})
          /\ dirs'[MiscDir(u, "ce")] = dirs[MiscDir(u, "ce")] \/ (c = "ce" /\ dirs'[MiscDir(u, "ce")] \in {p, Plain})
          /\ dirs'[DataData] = dirs[DataData] \/ (c = "ce" /\ dirs'[DataData] \in {p, Plain})
      BY <1>4, <1>5, <2>2, DirForms
    <3> QED
      BY <3>1, <3>2, <3>3, <3>4
  <2>4. ASSUME fw[u] \in {"making", "alive"}, NEW b \in Classes, dirs'[ExtDir(u, b)] \notin {Absent, Plain}
        PROVE  volkey'[<<u, b>>] = [key |-> dirs'[ExtDir(u, b)], hash |-> secdisc']
    BY <2>1, <2>4, <1>1 DEF Ind, DirsSound, DirsOk, volVars
  <2> QED
    BY <2>3, <2>4, <1>1 DEF DirsOk, storedVars, policyVars
<1>10. UsersSound' /\ DirsSound'
  BY <1>1, <1>6, <1>7, <1>8, <1>9, OneUser DEF Ind
<1>11. StartSound'
  <2>1. dirs'[DataData] = dirs[DataData] \/ ceKey[0] # NoKey
    BY <1>1, <1>4, <1>5, <1>6, DirForms
  <2> QED
    BY <2>1, <1>1 DEF Ind, StartSound, storedVars, policyVars
<1>12. TypedDirs'
  BY <1>1, <1>2, <1>4, KeyForms DEF Ind, TypedDirs, volVars
<1>13. TypedUsers'
  BY <1>1, <1>3 DEF Ind, TypedUsers, storedVars, policyVars
<1>14. KeyringSound' /\ VolumeSound' /\ StartRecovers'
  BY <1>1, KeyringFrame DEF Ind, VolumeSound, StartRecovers, volVars
<1> QED
  BY <1>10, <1>11, <1>12, <1>13, <1>14 DEF Ind

\* Directories of a user that leaves are removed.
LEMMA DestroyStorageKeeps ==
  ASSUME Ind, NEW u \in Users, NEW v \in {"data", "ext"}, fscrypt_destroy_user_storage(v, u)
  PROVE  Ind'
<1>1. /\ phase = "up" /\ fw[u] = "leaving"
      /\ UNCHANGED <<phase, fw, storedVars, policyVars, obb, secdisc, forgotten, unshredded, keyring, gen, stray>>
  BY DEF fscrypt_destroy_user_storage
<1>2. u # 0 /\ fw[0] = "alive"
  BY <1>1 DEF Ind, UsersSound
<1>3. faults' \in Nat
  BY DEF fscrypt_destroy_user_storage, Fault, NoFault, Ind, TypedUsers
<1>4. \E gone \in SUBSET {d \in Dirs : d[1] = v /\ d[2] = u} :
        dirs' = [d \in Dirs |-> IF d \in gone THEN Absent ELSE dirs[d]]
  <2> DEFINE mine == {d \in Dirs : d[1] = v /\ d[2] = u}
  <2>1. CASE dirs' = [d \in Dirs |-> IF d \in mine THEN Absent ELSE dirs[d]]
    BY <2>1
  <2>2. CASE \E d \in mine : dirs' = [e \in Dirs |-> IF e \in mine \ {d} THEN Absent ELSE dirs[e]]
    <3>1. PICK d \in mine : dirs' = [e \in Dirs |-> IF e \in mine \ {d} THEN Absent ELSE dirs[e]]
      BY <2>2
    <3>2. mine \ {d} \in SUBSET mine
      OBVIOUS
    <3> QED
      BY <3>1, <3>2
  <2> QED
    BY <2>1, <2>2 DEF fscrypt_destroy_user_storage
<1>5. PICK gone \in SUBSET {d \in Dirs : d[1] = v /\ d[2] = u} :
        dirs' = [d \in Dirs |-> IF d \in gone THEN Absent ELSE dirs[d]]
  BY <1>4
<1>6. /\ dirs' \in [Dirs -> Label] /\ \A d \in Dirs : dirs'[d] \in {Absent, dirs[d]}
      /\ \A d \in Dirs : d[2] # u => dirs'[d] = dirs[d]
  BY <1>5, KeyForms DEF Ind, TypedDirs
<1>7. volkey' = volkey \/ volkey' = destroy_subdirs(u) \/ volkey' = destroy_volkey({u})
  BY DEF fscrypt_destroy_user_storage
<1>8. DOMAIN volkey = Users \X Classes /\ NoVolkey \in [key : Label, hash : Nat]
  BY KeyForms DEF NoVolkey, Ind, TypedDirs
<1>9. /\ volkey' \in [Users \X Classes -> [key : Label, hash : Nat]]
      /\ \A uc \in Users \X Classes : volkey'[uc] \in {NoVolkey, volkey[uc]} /\ (uc[1] # u => volkey'[uc] = volkey[uc])
  <2>1. CASE volkey' = volkey
    BY <2>1 DEF Ind, TypedDirs
  <2>2. CASE volkey' = destroy_subdirs(u)
    <3> HIDE DEF NoVolkey
    <3> QED
      BY <1>8, <2>2 DEF destroy_subdirs, Ind, TypedDirs
  <2>3. CASE volkey' = destroy_volkey({u})
    <3> HIDE DEF NoVolkey
    <3> QED
      BY <1>8, <2>3 DEF destroy_volkey, Ind, TypedDirs
  <2> QED
    BY <1>7, <2>1, <2>2, <2>3
<1>10. \A w \in Users : SameUser(w)
  BY <1>1 DEF SameUser, storedVars, policyVars
<1>11. \A w \in Users \ {u} : SameDirs(w) /\ SameVolume(w)
  <2>1. \A w \in Users \ {u} : SameDirs(w)
    BY <1>6 DEF SameDirs
  <2>2. \A w \in Users, c \in Classes : <<w, c>> \in Users \X Classes /\ <<w, c>>[1] = w
    OBVIOUS
  <2>3. \A w \in Users \ {u}, c \in Classes : volkey'[<<w, c>>] = volkey[<<w, c>>]
    BY <1>9, <2>2
  <2> QED
    BY <1>1, <2>1, <2>3 DEF SameVolume
<1>12. UserOk(u)'
  BY <1>1, <1>10, UserFrame DEF Ind, UsersSound
<1>13. DirsOk(u)'
  BY <1>1 DEF DirsOk
<1>14. UsersSound' /\ DirsSound'
  BY <1>1, <1>2, <1>10, <1>11, <1>12, <1>13, OneUser DEF Ind
<1>15. StartSound'
  BY <1>1, <1>2, <1>6, <1>10, DirForms, KeyForms, StartFrame DEF Ind
<1>16. TypedDirs'
  BY <1>1, <1>6, <1>9, KeyForms DEF Ind, TypedDirs
<1>17. TypedUsers'
  BY <1>1, <1>3 DEF Ind, TypedUsers, storedVars, policyVars
<1>18. KeyringSound' /\ StartRecovers'
  BY <1>1, KeyringFrame DEF Ind, StartRecovers
<1>19. VolumeSound'
  <2>1. \A uc \in Users \X Classes : volkey'[uc].key # NoKey => volkey'[uc].hash > 0
    BY <1>9 DEF Ind, VolumeSound, NoVolkey
  <2> QED
    BY <2>1, <1>1 DEF Ind, VolumeSound
<1> QED
  BY <1>14, <1>15, <1>16, <1>17, <1>18, <1>19 DEF Ind

\* The storage of a user on the adopted volume is prepared, as far as that succeeds.
LEMMA ExternalKeeps ==
  ASSUME Ind, NEW u \in Users, NEW c \in Classes, PrepareExternal(u, c)
  PROVE  Ind'
<1> DEFINE old == volkey[<<u, c>>]
           k == IF old.key = NoKey THEN NextKey(VolPurpose(u, c)) ELSE old.key
<1>1. /\ phase = "up" /\ fw[u] # "none" /\ ~forgotten /\ secdisc' = WithSecdiscardable
      /\ UNCHANGED <<phase, fw, storedVars, policyVars, obb, forgotten, unshredded>>
  BY DEF PrepareExternal
<1>2. <<u, c>> \in Users \X Classes /\ old \in [key : Label, hash : Nat] /\ (old.key # NoKey => old.hash > 0)
  BY DEF Ind, TypedDirs, VolumeSound
<1>3. k \in Label \ {NoKey} /\ (old.key # NoKey => k = old.key)
  BY <1>2, NextKeys DEF Ind
<1>4. secdisc' \in Nat /\ secdisc' > 0 /\ (secdisc > 0 => secdisc' = secdisc)
  BY <1>1 DEF WithSecdiscardable, Ind, TypedDirs
<1>5. CASE Fault /\ UNCHANGED <<volkey, gen, keyring, stray, dirs>>
  <2>1. \A w \in Users : SameUser(w) /\ SameDirs(w)
    BY <1>1, <1>5 DEF SameUser, SameDirs, storedVars, policyVars
  <2>2. UsersSound'
    BY <1>1, <2>1, UserFrame DEF Ind, UsersSound
  <2>3. DirsSound'
    <3> SUFFICES ASSUME NEW w \in Users
                 PROVE  DirsOk(w)'
      BY DEF DirsSound
    <3>1. DirsOk(w)
      BY DEF Ind, DirsSound
    <3>2. ASSUME fw[w] \in {"making", "alive"}, NEW b \in Classes, dirs[ExtDir(w, b)] \notin {Absent, Plain}
          PROVE  secdisc' = secdisc
      <4>1. volkey[<<w, b>>] = [key |-> dirs[ExtDir(w, b)], hash |-> secdisc] /\ dirs[ExtDir(w, b)] # NoKey
        BY <3>1, <3>2, DirForms DEF DirsOk, Ind, TypedDirs
      <4>2. <<w, b>> \in Users \X Classes
        OBVIOUS
      <4>3. secdisc > 0
        BY <4>1, <4>2 DEF Ind, VolumeSound
      <4> QED
        BY <4>3, <1>4
    <3> QED
      BY <3>1, <3>2, <1>1, <1>5 DEF DirsOk, storedVars, policyVars
  <2>4. StartSound'
    BY <1>1, <1>5, <2>1, StartFrame, KeyForms DEF Ind
  <2>5. TypedUsers' /\ TypedDirs'
    BY <1>1, <1>4, <1>5 DEF Ind, TypedUsers, TypedDirs, storedVars, policyVars, Fault
  <2>6. KeyringSound' /\ StartRecovers' /\ VolumeSound'
    BY <1>1, <1>5, KeyringFrame DEF Ind, StartRecovers, VolumeSound
  <2> QED
    BY <2>2, <2>3, <2>4, <2>5, <2>6 DEF Ind
<1>6. CASE /\ old.key # NoKey => old.hash = secdisc'
           /\ volkey' = [volkey EXCEPT ![<<u, c>>] = [key |-> k, hash |-> secdisc']]
           /\ IF old.key = NoKey THEN generateStorageKey({VolPurpose(u, c)}) ELSE UNCHANGED gen
           /\ \/ installKey("ext", {k}) /\ PrepareDirs("ext", u, c, k)
              \/ installKeyFails("ext", {k}) /\ dirs' = dirs
  <2>1. gen' \in [Purposes -> Nat] /\ faults' \in Nat
    BY <1>6, GenTyped DEF Ind, TypedUsers, PrepareDirs, installKeyFails, Fault, NoFault
  <2> HIDE DEF old, k
  <2>2. /\ volkey' \in [Users \X Classes -> [key : Label, hash : Nat]]
        /\ volkey'[<<u, c>>] = [key |-> k, hash |-> secdisc']
        /\ \A uc \in Users \X Classes : uc # <<u, c>> => volkey'[uc] = volkey[uc]
    BY <1>2, <1>3, <1>4, <1>6 DEF Ind, TypedDirs
  <2>3. /\ dirs' \in [Dirs -> Label]
        /\ \A d \in Dirs : \/ dirs'[d] = dirs[d]
                           \/ d \in ClassDirs("ext", u, c) /\ dirs[d] \in {Absent, Plain} /\ dirs'[d] \in {k, Plain}
    <3>1. CASE dirs' = dirs
      BY <3>1 DEF Ind, TypedDirs
    <3>2. CASE PrepareDirs("ext", u, c, k)
      BY <3>2, <1>3, PreparedIs DEF Ind
    <3> QED
      BY <1>6, <3>1, <3>2
  <2>4. \A d \in Dirs : d \in ClassDirs("ext", u, c) =>
          /\ d[2] = u /\ d # DataData
          /\ \A b \in Classes : d # MiscDir(u, b) /\ (d = ExtDir(u, b) => b = c)
    BY ClassDirForms
  <2>5. \A w \in Users : SameUser(w)
    BY <1>1 DEF SameUser, storedVars, policyVars
  <2>6. \A w \in Users \ {u} : SameDirs(w)
    BY <2>3, <2>4 DEF SameDirs
  <2>7. UsersSound'
    <3> SUFFICES ASSUME NEW w \in Users
                 PROVE  UserOk(w)'
      BY <1>1 DEF Ind, UsersSound
    <3> QED
      BY <1>1, <2>5, <2>6, UserFrame DEF Ind, UsersSound
  <2>8. DirsSound'
    <3> SUFFICES ASSUME NEW w \in Users
                 PROVE  DirsOk(w)'
      BY DEF DirsSound
    <3>1. DirsOk(w)
      BY DEF Ind, DirsSound
    <3>2. ASSUME fw[w] \in {"making", "alive"}, NEW b \in Classes, dirs[ExtDir(w, b)] \notin {Absent, Plain}
          PROVE  /\ volkey[<<w, b>>] = [key |-> dirs[ExtDir(w, b)], hash |-> secdisc']
                 /\ secdisc' = secdisc /\ dirs[ExtDir(w, b)] # NoKey
      <4>1. volkey[<<w, b>>] = [key |-> dirs[ExtDir(w, b)], hash |-> secdisc] /\ dirs[ExtDir(w, b)] # NoKey
        BY <3>1, <3>2, DirForms DEF DirsOk, Ind, TypedDirs
      <4>2. <<w, b>> \in Users \X Classes
        OBVIOUS
      <4>3. secdisc > 0
        BY <4>1, <4>2 DEF Ind, VolumeSound
      <4> QED
        BY <4>1, <4>3, <1>4
    <3>3. ASSUME fw[w] \in {"making", "alive"}, NEW b \in Classes, dirs'[ExtDir(w, b)] \notin {Absent, Plain}
          PROVE  volkey'[<<w, b>>] = [key |-> dirs'[ExtDir(w, b)], hash |-> secdisc']
      <4> DEFINE e == ExtDir(w, b)
      <4>1. e \in Dirs /\ e[2] = w /\ (<<w, b>> = <<u, c>> <=> w = u /\ b = c) /\ <<w, b>> \in Users \X Classes
        BY DirForms
      <4>2. CASE dirs'[e] = dirs[e]
        <5>1. volkey[<<w, b>>] = [key |-> dirs[e], hash |-> secdisc'] /\ dirs[e] # NoKey
          BY <3>2, <3>3, <4>2
        <5>2. CASE <<w, b>> = <<u, c>>
          <6>1. old.key = dirs[e]
            BY <5>1, <5>2 DEF old
          <6> QED
            BY <5>1, <5>2, <6>1, <4>2, <2>2, <1>3
        <5>3. CASE <<w, b>> # <<u, c>>
          BY <5>1, <5>3, <4>1, <4>2, <2>2
        <5> QED
          BY <5>2, <5>3
      <4>3. CASE dirs'[e] # dirs[e]
        <5>1. e \in ClassDirs("ext", u, c) /\ dirs'[e] = k
          BY <4>1, <4>3, <3>3, <2>3
        <5>2. w = u /\ b = c
          BY <5>1, <4>1, <2>4
        <5> QED
          BY <5>1, <5>2, <2>2
      <4> QED
        BY <4>2, <4>3
    <3>4. \A b \in Classes : dirs'[MiscDir(w, b)] = dirs[MiscDir(w, b)]
      <4> SUFFICES ASSUME NEW b \in Classes
                   PROVE  dirs'[MiscDir(w, b)] = dirs[MiscDir(w, b)]
        OBVIOUS
      <4>1. MiscDir(w, b) \in Dirs /\ MiscDir(w, b)[2] = w
        BY DirForms
      <4> QED
        BY <4>1, <2>3, <2>4
    <3>5. dirs'[DataData] = dirs[DataData]
      BY <2>3, <2>4, DirForms
    <3>6. "de" \in Classes /\ "ce" \in Classes
      BY DEF Classes
    <3> QED
      BY <3>1, <3>3, <3>4, <3>5, <3>6, <1>1 DEF DirsOk, storedVars, policyVars
  <2>9. StartSound'
    BY <1>1, <2>3, <2>4, <2>5, DirForms, StartFrame, KeyForms DEF Ind
  <2>10. TypedUsers'
    BY <1>1, <2>1 DEF Ind, TypedUsers, storedVars, policyVars
  <2>11. TypedDirs'
    BY <1>3, <1>4, <2>2, <2>3, KeyForms DEF Ind, TypedDirs
  <2>12. KeyringSound'
    <3>1. CASE installKey("ext", {k})
      <4>1. /\ installFsKeyringKey("ext", {k}) /\ provisioning' = provisioning \cup {k}
            /\ UNCHANGED <<workers, stray>>
        BY <3>1 DEF installKey
      <4>2. Grown("ext", {k})
        BY <4>1, InstallGrows DEF Ind, KeyringSound
      <4>3. UNCHANGED <<de, ce>>
        BY <1>1 DEF policyVars
      <4> QED
        BY <1>1, <4>1, <4>2, <4>3, Installs DEF Ind
    <3>2. CASE installKeyFails("ext", {k})
      BY <3>2, <1>1, <1>3, InstallFailsKeeps DEF policyVars
    <3> QED
      BY <1>6, <3>1, <3>2
  <2>13. VolumeSound' /\ StartRecovers'
    <3>1. \A uc \in Users \X Classes : volkey'[uc].key # NoKey => volkey'[uc].hash > 0
      BY <1>4, <2>2 DEF Ind, VolumeSound
    <3> QED
      BY <3>1, <1>1 DEF VolumeSound, StartRecovers
  <2> QED
    BY <2>7, <2>8, <2>9, <2>10, <2>11, <2>12, <2>13 DEF Ind
<1> QED
  BY <1>5, <1>6 DEF PrepareExternal

\* The volume is forgotten.
LEMMA ForgetKeeps ==
  ASSUME Ind, fscrypt_destroy_volume_keys
  PROVE  Ind'
<1>1. /\ phase = "up" /\ secdisc' \in {0, secdisc} /\ (secdisc' = 0 \/ unshredded' = TRUE)
      /\ present' = {mk \in present : mk[1] # "ext"}
      /\ dirs' = [d \in Dirs |-> IF d[1] = "ext" THEN Absent ELSE dirs[d]]
      /\ volkey' = destroy_volkey(Users)
      /\ UNCHANGED <<phase, fw, storedVars, policyVars, obb, busy, provisioning, workers, gen, stray>>
  BY DEF fscrypt_destroy_volume_keys
<1>2. faults' \in Nat
  BY DEF fscrypt_destroy_volume_keys, Fault, NoFault, Ind, TypedUsers
<1>3. /\ dirs' \in [Dirs -> Label] /\ \A d \in Dirs : dirs'[d] \in {Absent, dirs[d]}
      /\ \A d \in Dirs : IF d[1] = "ext" THEN dirs'[d] = Absent ELSE dirs'[d] = dirs[d]
  BY <1>1, KeyForms DEF Ind, TypedDirs
<1>4. DOMAIN volkey = Users \X Classes /\ NoVolkey \in [key : Label, hash : Nat] /\ NoVolkey.key = NoKey
  BY KeyForms DEF NoVolkey, Ind, TypedDirs
<1>5. /\ volkey' \in [Users \X Classes -> [key : Label, hash : Nat]]
      /\ \A uc \in Users \X Classes : volkey'[uc] \in {NoVolkey, volkey[uc]}
  <2> HIDE DEF NoVolkey
  <2> QED
    BY <1>1, <1>4 DEF destroy_volkey, Ind, TypedDirs
<1>6. \A w \in Users : SameUser(w)
  BY <1>1 DEF SameUser, storedVars, policyVars
<1>7. UsersSound'
  <2> SUFFICES ASSUME NEW w \in Users
               PROVE  UserOk(w)'
    BY <1>1 DEF Ind, UsersSound
  <2>1. fw[w] = "none" => SameDirs(w)
    BY <1>3 DEF Ind, UsersSound, UserOk, Nothing, SameDirs
  <2> QED
    BY <2>1, <1>6, UserFrame DEF Ind, UsersSound
<1>8. DirsSound'
  <2> SUFFICES ASSUME NEW w \in Users
               PROVE  DirsOk(w)'
    BY DEF DirsSound
  <2>1. \A b \in Classes : dirs'[MiscDir(w, b)] = dirs[MiscDir(w, b)] /\ dirs'[ExtDir(w, b)] = Absent
    BY <1>3, DirForms
  <2>2. dirs'[DataData] = dirs[DataData]
    BY <1>3, DirForms
  <2>3. "de" \in Classes /\ "ce" \in Classes
    BY DEF Classes
  <2>4. DirsOk(w)
    BY DEF Ind, DirsSound
  <2> QED
    BY <2>1, <2>2, <2>3, <2>4, <1>1 DEF DirsOk, storedVars, policyVars
<1>9. StartSound'
  BY <1>1, <1>3, <1>6, DirForms, KeyForms, StartFrame DEF Ind
<1>10. TypedDirs'
  BY <1>1, <1>3, <1>5, KeyForms DEF Ind, TypedDirs
<1>11. TypedUsers'
  BY <1>1, <1>2 DEF Ind, TypedUsers, storedVars, policyVars
<1>12. KeyringSound'
  <2>1. \A mk \in present' : mk \in present
    BY <1>1
  <2>2. \A x : <<"data", x>> \in present => <<"data", x>> \in present'
    BY <1>1
  <2>3. Settled' /\ Provisioned'
    BY <1>1 DEF Ind, KeyringSound, Settled, Provisioned, policyVars
  <2>4. Apart'
    BY <1>1, <2>1 DEF Ind, KeyringSound, Apart
  <2>5. Known'
    BY <1>1, <2>1 DEF Ind, KeyringSound, Known, KnownKey, policyVars
  <2>6. UnlockedUsable'
    BY <1>1, <2>2 DEF Ind, KeyringSound, UnlockedUsable, Installed, policyVars
  <2> QED
    BY <2>3, <2>4, <2>5, <2>6 DEF KeyringSound
<1>13. VolumeSound' /\ StartRecovers'
  <2>1. \A uc \in Users \X Classes : volkey'[uc].key # NoKey => volkey'[uc].hash > 0
    BY <1>4, <1>5 DEF Ind, VolumeSound
  <2> QED
    BY <2>1, <1>1 DEF VolumeSound, StartRecovers
<1> QED
  BY <1>7, <1>8, <1>9, <1>10, <1>11, <1>12, <1>13 DEF Ind

-----------------------------------------------------------------------------
(* The start *)

\* A step of the start that fails is counted, and remembered.
LEMMA FaultSays ==
  ASSUME TypedUsers, phase # "up", Fault
  PROVE  erred' = TRUE /\ faults' \in Nat /\ faults' # faults
<1>1. erred' = (phase # "up") /\ faults' = faults + 1 /\ faults \in Nat
  BY DEF Fault, TypedUsers
<1>2. erred' = TRUE
  BY <1>1
<1>3. faults' \in Nat /\ faults' # faults
  BY <1>1
<1> QED
  BY <1>2, <1>3

\* The system's key is read, or made on the first boot.
LEMMA SysKeeps ==
  ASSUME Ind, fscrypt_initialize_systemwide_keys
  PROVE  Ind'
<1> DEFINE k == IF deKey[Sys] = NoKey THEN NextKey(<<Sys, "de">>) ELSE deKey[Sys]
<1>1. /\ phase = "sys" /\ deKey' = [deKey EXCEPT ![Sys] = k]
      /\ UNCHANGED <<fw, ceKey, ce, newCe, ephemeral, fsVars, volVars>>
  BY DEF fscrypt_initialize_systemwide_keys
<1>2. \/ installKey("data", {k}) /\ de' = [de EXCEPT ![Sys] = k] /\ phase' = "user0_de" /\ NoFault
      \/ installKeyFails("data", {k}) /\ de' = de /\ phase' = "failed"
  BY DEF fscrypt_initialize_systemwide_keys, Continue
<1>3. k \in DeKeys(Sys) /\ k \in Label \ {NoKey, Damaged}
  <2>1. deKey[Sys] \in DeKeys(Sys) \cup {NoKey}
    BY KeyForms DEF Ind, TypedUsers
  <2>2. k \in DeKeys(Sys)
    BY <2>1, NextKeys, KeyForms DEF Ind
  <2> HIDE DEF k
  <2> QED
    BY <2>2, KeyForms
<1>4. gen' \in [Purposes -> Nat] /\ faults' \in Nat
  BY GenTyped DEF fscrypt_initialize_systemwide_keys, Ind, TypedUsers, installKeyFails, Continue, Fault, NoFault
<1>5. phase' = "failed" => erred' = TRUE
  BY <1>1, <1>2 DEF installKeyFails, Fault
<1> HIDE DEF k
<1>6. /\ deKey' \in [Owners -> Label] /\ de' \in [Owners -> Label]
      /\ deKey'[Sys] = k /\ de'[Sys] \in {k, de[Sys]} /\ (phase' = "user0_de" => de'[Sys] = k)
      /\ \A w \in Owners : w # Sys => deKey'[w] = deKey[w] /\ de'[w] = de[w]
  <2>1. Sys \in Owners /\ deKey \in [Owners -> Label] /\ de \in [Owners -> Label]
    BY KeyForms DEF Ind, TypedUsers
  <2>2. /\ deKey' \in [Owners -> Label] /\ deKey'[Sys] = k
        /\ \A w \in Owners : w # Sys => deKey'[w] = deKey[w]
    BY <2>1, <1>1, <1>3
  <2>3. CASE de' = de /\ phase' = "failed"
    BY <2>1, <2>2, <2>3
  <2>4. CASE de' = [de EXCEPT ![Sys] = k]
    BY <2>1, <2>2, <2>4, <1>3
  <2> QED
    BY <1>2, <2>3, <2>4
<1>7. \A w \in Users : SameUser(w) /\ SameDirs(w) /\ SameVolume(w)
  BY <1>1, <1>6, KeyForms DEF SameUser, SameDirs, SameVolume, fsVars, volVars
<1>8. TypedUsers'
  <2>1. \A w \in Owners : de'[w] \in DeKeys(w) \cup {NoKey} /\ deKey'[w] \in DeKeys(w) \cup {NoKey, Damaged}
    BY <1>3, <1>6 DEF Ind, TypedUsers
  <2>2. phase' \in Phases
    BY <1>2 DEF Phases
  <2> QED
    BY <2>1, <2>2, <1>1, <1>3, <1>4, <1>6 DEF Ind, TypedUsers
<1>9. UsersSound' /\ DirsSound'
  BY <1>1, <1>7, UserFrame, DirsFrame DEF Ind, UsersSound, DirsSound
<1>10. TypedDirs' /\ VolumeSound' /\ StartRecovers'
  BY <1>1, <1>5 DEF Ind, TypedDirs, VolumeSound, StartRecovers, fsVars, volVars
<1>11. StartSound'
  <2>1. SameUser(0)
    BY <1>7, KeyForms
  <2> QED
    BY <2>1, <1>1, <1>2 DEF Ind, StartSound, SameUser
<1>12. KeyringSound'
  <2>1. present = {}
    BY <1>1 DEF Ind, KeyringSound, Settled
  <2>2. CASE installKey("data", {k}) /\ phase' = "user0_de"
    <3>1. /\ installFsKeyringKey("data", {k}) /\ provisioning' = provisioning \cup {k}
          /\ UNCHANGED <<workers, stray>>
      BY <2>2 DEF installKey
    <3>2. Grown("data", {k})
      BY <3>1, InstallGrows DEF Ind, KeyringSound
    <3>3. \A x \in {k} : KnownKey(x)'
      BY <2>2, <1>3, <1>6, KeyForms DEF KnownKey
    <3> QED
      BY <1>1, <2>1, <2>2, <3>1, <3>2, <3>3, Installs DEF Ind
  <2>3. CASE installKeyFails("data", {k}) /\ de' = de /\ phase' = "failed"
    BY <1>1, <1>3, <2>3, InstallFailsKeeps
  <2> QED
    BY <1>2, <2>2, <2>3
<1> QED
  BY <1>8, <1>9, <1>10, <1>11, <1>12 DEF Ind

\* The DE key of the system user.
LEMMA InitDeKeeps ==
  ASSUME Ind, InitDe
  PROVE  Ind'
<1> DEFINE k == NextKey(<<0, "de">>)
<1>1. phase = "user0_de" /\ UNCHANGED <<fw, ceKey, ce, newCe, ephemeral, fsVars, volVars>>
  BY DEF InitDe
<1>2. 0 \in Users /\ 0 \in Owners /\ Sys \in Owners /\ Sys # 0
  BY KeyForms DEF Sys
<1>3. k \in DeKeys(0) /\ k \in Label \ {NoKey, Damaged}
  <2>1. k \in DeKeys(0)
    BY <1>2, NextKeys DEF Ind
  <2> HIDE DEF k
  <2> QED
    BY <2>1, <1>2, KeyForms
<1>4. \/ /\ deKey[0] # NoKey /\ phase' = "user0_ce" /\ faults' = faults
         /\ UNCHANGED <<deKey, de, gen, keyring, stray>>
      \/ /\ deKey[0] = NoKey /\ deKey' = [deKey EXCEPT ![0] = k] /\ de' = [de EXCEPT ![0] = k]
         /\ installKey("data", {k}) /\ phase' = "user0_ce"
      \/ /\ deKey[0] = NoKey /\ Fault /\ de' = de /\ phase' = "failed" /\ UNCHANGED <<deKey, keyring, stray, gen>>
      \/ /\ deKey[0] = NoKey /\ deKey' = [deKey EXCEPT ![0] = k] /\ de' = de /\ phase' = "failed"
         /\ installKeyFails("data", {k})
  BY DEF InitDe, create_de_key, create_de_key_fails, Continue, NoFault
<1>5. gen' \in [Purposes -> Nat] /\ faults' \in Nat
  <2>1. gen' = gen \/ generateStorageKey({<<0, "de">>})
    BY DEF InitDe, create_de_key_fails
  <2>2. Fault \/ NoFault
    BY DEF InitDe, create_de_key_fails, installKeyFails, Continue
  <2> QED
    BY <2>1, <2>2, GenTyped DEF Ind, TypedUsers, Fault, NoFault
<1>6. phase' = "failed" => erred' = TRUE
  BY <1>1, <1>4 DEF installKeyFails, Fault
<1> HIDE DEF k
<1>7. deKey[0] = NoKey => de[0] = NoKey
  BY <1>2 DEF Ind, StartSound
<1>8. /\ deKey' \in [Owners -> Label] /\ de' \in [Owners -> Label]
      /\ \A w \in Owners : w # 0 => deKey'[w] = deKey[w] /\ de'[w] = de[w]
      /\ \/ deKey'[0] = deKey[0] /\ de'[0] = de[0]
         \/ deKey[0] = NoKey /\ deKey'[0] = k /\ de'[0] \in {NoKey, k}
      /\ phase' = "user0_ce" => deKey'[0] # NoKey
  BY <1>2, <1>3, <1>4, <1>7 DEF Ind, TypedUsers
<1>9. UserOk(0) /\ KeysOf(0) /\ fw[0] = "alive" /\ 0 \notin ephemeral
  BY <1>2 DEF Ind, UsersSound, UserOk
<1>10. UserOk(0)'
  <2>1. KeysOf(0)'
    <3>1. de'[0] # NoKey => de'[0] = deKey'[0]
      BY <1>8 DEF Ind, StartSound
    <3> QED
      BY <3>1, <1>1, <1>9 DEF KeysOf
  <2>2. deKey'[0] # Damaged
    BY <1>3, <1>8, <1>9 DEF UserOk
  <2> QED
    BY <2>1, <2>2, <1>1, <1>9 DEF UserOk
<1>11. DirsOk(0)'
  <2>1. DirsOk(0) /\ dirs[MiscDir(0, "de")] # NoKey
    BY <1>2, DirForms DEF Ind, DirsSound, TypedDirs, Classes
  <2> QED
    BY <2>1, <1>1, <1>8, <1>9 DEF DirsOk, fsVars, volVars
<1>12. \A w \in Users \ {0} : SameUser(w) /\ SameDirs(w) /\ SameVolume(w)
  BY <1>1, <1>8, KeyForms DEF SameUser, SameDirs, SameVolume, fsVars, volVars
<1>13. UsersSound' /\ DirsSound'
  BY <1>1, <1>2, <1>9, <1>10, <1>11, <1>12, OneUser DEF Ind
<1>14. TypedUsers'
  <2>1. \A w \in Owners : de'[w] \in DeKeys(w) \cup {NoKey} /\ deKey'[w] \in DeKeys(w) \cup {NoKey, Damaged}
    BY <1>3, <1>8 DEF Ind, TypedUsers
  <2>2. phase' \in Phases
    BY <1>4 DEF Phases
  <2>3. deKey'[Sys] # Damaged
    BY <1>2, <1>8 DEF Ind, TypedUsers
  <2> QED
    BY <2>1, <2>2, <2>3, <1>1, <1>5, <1>8 DEF Ind, TypedUsers
<1>15. TypedDirs' /\ VolumeSound' /\ StartRecovers'
  BY <1>1, <1>6 DEF Ind, TypedDirs, VolumeSound, StartRecovers, fsVars, volVars
<1>16. StartSound'
  <2>1. de'[0] # NoKey => de'[0] = deKey'[0]
    BY <1>8 DEF Ind, StartSound
  <2>2. phase' \in {"user0_ce", "failed"}
    BY <1>4
  <2> QED
    BY <2>1, <2>2, <1>1, <1>8 DEF Ind, StartSound
<1>17. KeyringSound'
  <2>1. phase # "up" /\ phase' # "up" /\ phase # "failed" /\ phase' # "sys"
    BY <1>1, <1>4
  <2>2. CASE UNCHANGED <<keyring, stray, de>>
    <3>1. Grown("data", {}) /\ provisioning' = provisioning /\ workers' = workers
      BY <2>2, SameGrows DEF keyring, Ind, KeyringSound
    <3>2. \A x \in {} : KnownKey(x)'
      OBVIOUS
    <3> QED
      BY <1>1, <2>1, <2>2, <3>1, <3>2, Installs DEF Ind
  <2>3. CASE deKey[0] = NoKey /\ installKey("data", {k}) /\ de' = [de EXCEPT ![0] = k]
    <3>1. /\ installFsKeyringKey("data", {k}) /\ provisioning' = provisioning \cup {k}
          /\ UNCHANGED <<workers, stray>>
      BY <2>3 DEF installKey
    <3>2. Grown("data", {k})
      BY <3>1, InstallGrows DEF Ind, KeyringSound
    <3>3. de'[0] = k
      BY <1>2, <2>3 DEF Ind, TypedUsers
    <3>4. \A x \in {k} : KnownKey(x)'
      BY <3>3, <1>2, <1>3 DEF KnownKey
    <3> QED
      BY <1>1, <1>7, <1>8, <2>1, <2>3, <3>1, <3>2, <3>4, Installs DEF Ind
  <2>4. CASE installKeyFails("data", {k}) /\ de' = de
    BY <1>1, <1>3, <2>1, <2>4, InstallFailsKeeps
  <2> QED
    BY <1>4, <2>2, <2>3, <2>4
<1> QED
  BY <1>13, <1>14, <1>15, <1>16, <1>17 DEF Ind

\* The CE key of the system user.
LEMMA InitCeKeeps ==
  ASSUME Ind, InitCe
  PROVE  Ind'
<1> DEFINE k == NextKey(<<0, "ce">>)
<1>1. phase = "user0_ce" /\ UNCHANGED <<fw, storedVars, de, ephemeral, fsVars, volVars>>
  BY DEF InitCe
<1>2. 0 \in Users /\ 0 \in Owners /\ Sys # 0
  BY KeyForms DEF Sys
<1>3. k \in CeKeys(0) /\ k \in Label \ {NoKey}
  <2>1. k \in CeKeys(0)
    BY <1>2, NextKeys DEF Ind
  <2> HIDE DEF k
  <2> QED
    BY <2>1, <1>2, KeyForms
<1>4. ceKey[0] = NoKey => ce[0] = NoKey /\ newCe[0] = NoKey
  BY <1>1 DEF Ind, StartSound
<1>5. \/ ceKey[0] # NoKey /\ phase' = "load" /\ UNCHANGED <<ce, newCe, keyring, stray>>
      \/ /\ ceKey[0] = NoKey /\ ce' = [ce EXCEPT ![0] = k] /\ newCe' = [newCe EXCEPT ![0] = k]
         /\ installKey("data", {k}) /\ phase' = "load"
      \/ /\ ceKey[0] = NoKey /\ ce' = ce /\ newCe' = [newCe EXCEPT ![0] = k]
         /\ installKeyFails("data", {k}) /\ phase' = "failed"
  BY <1>4 DEF InitCe, ce_key_exists, create_ce_key, create_ce_key_fails, Continue
<1>6. gen' \in [Purposes -> Nat] /\ faults' \in Nat
  <2>1. gen' = gen \/ generateStorageKey({<<0, "ce">>})
    BY DEF InitCe
  <2>2. Fault \/ NoFault
    BY DEF InitCe, installKeyFails, Continue
  <2> QED
    BY <2>1, <2>2, GenTyped DEF Ind, TypedUsers, Fault, NoFault
<1>7. phase' = "failed" => erred' = TRUE
  BY <1>1, <1>5 DEF installKeyFails, Fault
<1> HIDE DEF k
<1>8. /\ ce' \in [Users -> Label] /\ newCe' \in [Users -> Label]
      /\ \A w \in Users : w # 0 => ce'[w] = ce[w] /\ newCe'[w] = newCe[w]
      /\ \/ ceKey[0] # NoKey /\ ce'[0] = ce[0] /\ newCe'[0] = newCe[0]
         \/ ceKey[0] = NoKey /\ newCe'[0] = k /\ ce'[0] \in {NoKey, k} /\ (phase' = "load" => ce'[0] = k)
  <2>1. ce \in [Users -> Label] /\ newCe \in [Users -> Label]
    BY DEF Ind, TypedUsers
  <2>2. CASE ceKey[0] # NoKey
    BY <2>1, <2>2, <1>5
  <2>3. CASE ceKey[0] = NoKey /\ ce' = [ce EXCEPT ![0] = k] /\ newCe' = [newCe EXCEPT ![0] = k]
    BY <2>1, <2>3, <1>2, <1>3
  <2>4. CASE ceKey[0] = NoKey /\ ce' = ce /\ newCe' = [newCe EXCEPT ![0] = k] /\ phase' = "failed"
    BY <2>1, <2>4, <1>2, <1>3, <1>4
  <2> QED
    BY <1>5, <2>2, <2>3, <2>4
<1>9. UserOk(0) /\ KeysOf(0) /\ fw[0] = "alive" /\ 0 \notin ephemeral
  BY <1>2 DEF Ind, UsersSound, UserOk
<1>10. UserOk(0)'
  <2>1. KeysOf(0)'
    BY <1>1, <1>8, <1>9 DEF KeysOf, storedVars
  <2> QED
    BY <2>1, <1>1, <1>9 DEF UserOk, storedVars
<1>11. DirsOk(0)'
  BY <1>1, <1>2 DEF Ind, DirsSound, DirsOk, fsVars, volVars, storedVars
<1>12. \A w \in Users \ {0} : SameUser(w) /\ SameDirs(w) /\ SameVolume(w)
  BY <1>1, <1>8 DEF SameUser, SameDirs, SameVolume, fsVars, volVars, storedVars
<1>13. UsersSound' /\ DirsSound'
  BY <1>1, <1>2, <1>9, <1>10, <1>11, <1>12, OneUser DEF Ind
<1>14. TypedUsers'
  <2>1. \A w \in Users : {ce'[w], newCe'[w], ceKey'[w]} \subseteq CeKeys(w) \cup {NoKey}
    BY <1>1, <1>3, <1>8 DEF Ind, TypedUsers, storedVars
  <2>2. phase' \in Phases
    BY <1>5 DEF Phases
  <2> QED
    BY <2>1, <2>2, <1>1, <1>6, <1>8 DEF Ind, TypedUsers, storedVars
<1>15. TypedDirs' /\ VolumeSound' /\ StartRecovers'
  BY <1>1, <1>7 DEF Ind, TypedDirs, VolumeSound, StartRecovers, fsVars, volVars
<1>16. StartSound'
  <2>1. phase' \in {"load", "failed"}
    BY <1>5
  <2> QED
    BY <2>1, <1>1, <1>3, <1>8 DEF Ind, StartSound, storedVars
<1>17. KeyringSound'
  <2>1. phase # "up" /\ phase' # "up" /\ phase # "failed" /\ phase' # "sys"
    BY <1>1, <1>5
  <2>2. CASE UNCHANGED <<keyring, stray, ce>>
    <3>1. Grown("data", {}) /\ provisioning' = provisioning /\ workers' = workers
      BY <2>2, SameGrows DEF keyring, Ind, KeyringSound
    <3>2. \A x \in {} : KnownKey(x)'
      OBVIOUS
    <3> QED
      BY <1>1, <2>1, <2>2, <3>1, <3>2, Installs DEF Ind
  <2>3. CASE ceKey[0] = NoKey /\ installKey("data", {k}) /\ phase' = "load"
    <3>1. /\ installFsKeyringKey("data", {k}) /\ provisioning' = provisioning \cup {k}
          /\ UNCHANGED <<workers, stray>>
      BY <2>3 DEF installKey
    <3>2. Grown("data", {k}) /\ <<"data", k>> \in present'
      BY <3>1, InstallGrows DEF Ind, KeyringSound
    <3>3. ce'[0] = k
      BY <1>8, <2>3
    <3>4. \A x \in {k} : KnownKey(x)'
      BY <3>3, <1>2, <1>3 DEF KnownKey
    <3>5. \A w \in Users : \/ ce'[w] = ce[w]
                           \/ ce[w] = NoKey /\ ce'[w] \in provisioning' /\ <<"data", ce'[w]>> \in present'
      BY <1>4, <1>8, <2>3, <3>1, <3>2, <3>3
    <3> QED
      BY <1>1, <2>1, <3>1, <3>2, <3>4, <3>5, Installs DEF Ind
  <2>4. CASE installKeyFails("data", {k}) /\ ce' = ce
    BY <1>1, <1>3, <2>1, <2>4, InstallFailsKeeps
  <2> QED
    BY <1>5, <2>2, <2>3, <2>4
<1> QED
  BY <1>13, <1>14, <1>15, <1>16, <1>17 DEF Ind

\* The DE keys of all users: none that vold holds differs from the stored one.
LEMMA LoadKeeps ==
  ASSUME Ind, NEW missed \in SUBSET Retrieved, load_all_de_keys(missed)
  PROVE  Ind'
<1> DEFINE read == Retrieved \ missed
           ks == {deKey[u] : u \in read}
           consistent == deKey[0] # Damaged /\ \A u \in read : de[u] \in {NoKey, deKey[u]}
<1>1. phase = "load" /\ 0 \notin missed /\ UNCHANGED <<fw, storedVars, ce, newCe, ephemeral, fsVars, volVars, gen>>
  BY DEF load_all_de_keys
<1>2. 0 \in Users /\ 0 \in Owners /\ Sys # 0 /\ read \subseteq Users /\ Users \subseteq Owners
  BY KeyForms DEF Sys, Retrieved
<1>3. consistent /\ deKey[0] \notin {NoKey, Damaged}
  <2>1. deKey[0] # Damaged
    BY <1>2 DEF Ind, UsersSound, UserOk
  <2>2. \A u \in read : de[u] \in {NoKey, deKey[u]}
    BY <1>2 DEF Retrieved, Ind, UsersSound, UserOk, KeysOf
  <2>3. deKey[0] # NoKey
    BY <1>1 DEF Ind, StartSound
  <2> QED
    BY <2>1, <2>2, <2>3
<1>4. \/ /\ installKey("data", ks) /\ phase' = "special" /\ PassedOver(missed)
         /\ de' = [u \in DOMAIN de |-> IF u \in read THEN deKey[u] ELSE de[u]]
      \/ installKeyFails("data", ks) /\ de' = de /\ phase' = "failed"
  BY <1>3 DEF load_all_de_keys
<1>5. faults' \in Nat /\ (phase' = "failed" => erred' = TRUE)
  <2>1. (PassedOver(missed) /\ phase' = "special") \/ Fault
    BY <1>4 DEF installKeyFails
  <2>2. CASE PassedOver(missed) /\ phase' = "special"
    BY <2>2 DEF PassedOver, NoFault, Ind, TypedUsers
  <2>3. CASE Fault
    BY <2>3, <1>1, FaultSays DEF Ind
  <2> QED
    BY <2>1, <2>2, <2>3
<1>6. /\ de' \in [Owners -> Label]
      /\ \A u \in Owners : de'[u] = de[u] \/ (u \in read /\ de'[u] = deKey[u])
      /\ phase' = "special" => \A u \in read : de'[u] = deKey[u]
  <2>1. de \in [Owners -> Label] /\ deKey \in [Owners -> Label] /\ DOMAIN de = Owners
    BY DEF Ind, TypedUsers
  <2>2. CASE de' = de /\ phase' = "failed"
    BY <2>1, <2>2
  <2>3. CASE de' = [u \in DOMAIN de |-> IF u \in read THEN deKey[u] ELSE de[u]]
    BY <2>1, <2>3, <1>2
  <2> QED
    BY <1>4, <2>2, <2>3
<1>7. \A u \in read : deKey[u] \in DeKeys(u) /\ deKey[u] # NoKey /\ de[u] \in {NoKey, deKey[u]}
  BY <1>2, <1>3 DEF Retrieved, Ind, TypedUsers
<1> HIDE DEF ks, consistent, read
<1>8. TypedUsers'
  <2>1. \A u \in Owners : de'[u] \in DeKeys(u) \cup {NoKey}
    BY <1>6, <1>7 DEF Ind, TypedUsers
  <2>2. phase' \in Phases
    BY <1>4 DEF Phases
  <2> QED
    BY <2>1, <2>2, <1>1, <1>5, <1>6 DEF Ind, TypedUsers, storedVars
<1>9. UsersSound'
  <2> SUFFICES ASSUME NEW u \in Users
               PROVE  UserOk(u)'
    BY <1>1 DEF Ind, UsersSound
  <2>1. UserOk(u) /\ KeysOf(u)
    BY DEF Ind, UsersSound, UserOk
  <2>2. de[u] # NoKey => de'[u] # NoKey
    BY <1>2, <1>6, <1>7
  <2>3. de'[u] # NoKey /\ deKey[u] \notin {NoKey, Damaged} => de'[u] = deKey[u]
    BY <2>1, <1>2, <1>6 DEF KeysOf
  <2>4. KeysOf(u)'
    BY <2>1, <2>2, <2>3, <1>1 DEF KeysOf, storedVars
  <2>5. Nothing(u) => Nothing(u)'
    BY <1>1, <1>2, <1>6 DEF Nothing, Retrieved, read, storedVars, fsVars
  <2> QED
    BY <2>1, <2>2, <2>4, <2>5, <1>1 DEF UserOk, storedVars
<1>10. DirsSound'
  BY <1>1 DEF Ind, DirsSound, DirsOk, fsVars, volVars, storedVars
<1>11. StartSound'
  <2>1. 0 \in read
    BY <1>1, <1>2, <1>3 DEF Retrieved, read
  <2>2. de'[0] # NoKey => de'[0] = deKey[0]
    BY <1>2, <1>6 DEF Ind, StartSound
  <2>3. phase' = "special" \/ phase' = "failed"
    BY <1>4
  <2>4. phase' = "special" => de'[0] = deKey[0]
    BY <2>1, <1>6
  <2> QED
    BY <2>2, <2>3, <2>4, <1>1, <1>3 DEF Ind, StartSound, storedVars
<1>12. TypedDirs' /\ VolumeSound' /\ StartRecovers'
  BY <1>1, <1>5 DEF Ind, TypedDirs, VolumeSound, StartRecovers, fsVars, volVars
<1>13. KeyringSound'
  <2>1. phase # "up" /\ phase' # "up" /\ phase # "failed" /\ phase' # "sys"
    BY <1>1, <1>4
  <2>2. \A u \in Owners : de[u] = NoKey \/ de'[u] = de[u]
    BY <1>6, <1>7
  <2>3. CASE installKey("data", ks) /\ phase' = "special"
    <3>1. /\ installFsKeyringKey("data", ks) /\ provisioning' = provisioning \cup ks
          /\ UNCHANGED <<workers, stray>>
      BY <2>3 DEF installKey
    <3>2. Grown("data", ks)
      BY <3>1, InstallGrows DEF Ind, KeyringSound
    <3>3. \A x \in ks : KnownKey(x)'
      <4> SUFFICES ASSUME NEW x \in ks
                   PROVE  KnownKey(x)'
        OBVIOUS
      <4>1. PICK u \in read : x = deKey[u]
        BY DEF ks
      <4>2. u \in Owners /\ x = de'[u] /\ x # NoKey
        BY <4>1, <1>2, <1>6, <1>7, <2>3
      <4> QED
        BY <4>2 DEF KnownKey
    <3> QED
      BY <1>1, <2>1, <2>2, <3>1, <3>2, <3>3, Installs DEF Ind
  <2>4. CASE installKeyFails("data", ks) /\ phase' = "failed"
    <3>1. CASE UNCHANGED <<keyring, stray>>
      <4>1. Grown("data", {}) /\ provisioning' = provisioning /\ workers' = workers
        BY <3>1, SameGrows DEF keyring, Ind, KeyringSound
      <4> QED
        BY <1>1, <2>1, <2>2, <2>4, <3>1, <4>1, Installs DEF Ind
    <3>2. CASE /\ installFsKeyringKey("data", ks)
               /\ stray' = stray \cup ks /\ UNCHANGED <<provisioning, workers>>
      <4>1. Grown("data", ks)
        BY <3>2, InstallGrows DEF Ind, KeyringSound
      <4> QED
        BY <1>1, <2>1, <2>2, <2>4, <3>2, <4>1, Installs DEF Ind
    <3> QED
      BY <2>4, <3>1, <3>2 DEF installKeyFails
  <2> QED
    BY <1>4, <2>3, <2>4
<1> QED
  BY <1>8, <1>9, <1>10, <1>11, <1>12, <1>13 DEF Ind

\* /data/data and the other directories that are not a user's.
LEMMA SpecialKeeps ==
  ASSUME Ind, prepare_special_dirs
  PROVE  Ind'
<1>1. phase = "special" /\ UNCHANGED <<fw, storedVars, policyVars, volVars, keyring, gen, stray>>
  BY DEF prepare_special_dirs
<1>2. 0 \in Users /\ DataData \in Dirs /\ DataData[2] = 0 /\ UserOk(0) /\ KeysOf(0) /\ fw[0] = "alive"
  BY KeyForms, DirForms DEF Ind, UsersSound, UserOk
<1>3. \/ /\ dirs' = [dirs EXCEPT ![DataData] = DataDataPolicy]
         /\ phase' = "prepare" /\ NoFault
      \/ /\ phase' = "failed" /\ Fault
         /\ dirs' \in {dirs, [dirs EXCEPT ![DataData] = IF @ = Absent THEN Plain ELSE @]}
  BY DEF prepare_special_dirs, Continue, DataDataPolicy
<1>4. faults' \in Nat /\ (phase' = "failed" => erred' = TRUE)
  <2>1. (NoFault /\ phase' = "prepare") \/ Fault
    BY <1>3
  <2>2. CASE NoFault /\ phase' = "prepare"
    BY <2>2 DEF NoFault, Ind, TypedUsers
  <2>3. CASE Fault
    BY <2>3, <1>1, FaultSays DEF Ind
  <2> QED
    BY <2>1, <2>2, <2>3
<1>5. /\ dirs' \in [Dirs -> Label] /\ \A d \in Dirs : d # DataData => dirs'[d] = dirs[d]
      /\ dirs'[DataData] \in {dirs[DataData], Plain} \cup ({ce[0]} \ {NoKey})
      /\ phase' = "prepare" /\ ce[0] # NoKey => dirs'[DataData] = ce[0]
  <2>1. dirs \in [Dirs -> Label] /\ ce[0] \in Label /\ Plain \in Label
    BY <1>2, KeyForms DEF Ind, TypedDirs, TypedUsers
  <2>2. CASE dirs' = [dirs EXCEPT ![DataData] = DataDataPolicy]
    <3>1. /\ DataDataPolicy \in {dirs[DataData], Plain} \cup ({ce[0]} \ {NoKey})
          /\ ce[0] # NoKey => DataDataPolicy = ce[0]
      BY DEF DataDataPolicy
    <3>2. DataDataPolicy \in Label
      BY <2>1, <1>2, <3>1
    <3> QED
      BY <2>1, <2>2, <3>1, <3>2, <1>2
  <2>3. CASE dirs' = dirs /\ phase' = "failed"
    BY <2>1, <2>3
  <2>4. CASE dirs' = [dirs EXCEPT ![DataData] = IF @ = Absent THEN Plain ELSE @] /\ phase' = "failed"
    BY <2>1, <2>4, <1>2
  <2> QED
    BY <1>3, <2>2, <2>3, <2>4
<1>6. \A w \in Users : SameUser(w) /\ SameVolume(w) /\ (w # 0 => SameDirs(w))
  <2>1. \A w \in Users : SameUser(w) /\ SameVolume(w)
    BY <1>1 DEF SameUser, SameVolume, storedVars, policyVars, volVars
  <2>2. \A w \in Users : w # 0 => SameDirs(w)
    BY <1>2, <1>5 DEF SameDirs
  <2> QED
    BY <2>1, <2>2
<1>7. UserOk(0)'
  BY <1>2, <1>6, UserFrame
<1>8. DirsOk(0)'
  <2>1. \A c \in Classes : dirs'[MiscDir(0, c)] = dirs[MiscDir(0, c)] /\ dirs'[ExtDir(0, c)] = dirs[ExtDir(0, c)]
    BY <1>2, <1>5, DirForms
  <2>2. "de" \in Classes /\ "ce" \in Classes
    BY DEF Classes
  <2>3. DirsOk(0)
    BY <1>2 DEF Ind, DirsSound
  <2>4. ceKey[0] # NoKey => ce[0] \in {NoKey, ceKey[0]}
    BY <1>2 DEF KeysOf
  <2>5. 0 \notin ephemeral /\ ceKey[0] # NoKey => dirs'[DataData] \in {Absent, Plain, ceKey[0]}
    BY <2>3, <2>4, <1>2, <1>5 DEF DirsOk
  <2> QED
    BY <2>1, <2>2, <2>3, <2>5, <1>1 DEF DirsOk, storedVars, policyVars, volVars
<1>9. UsersSound' /\ DirsSound'
  BY <1>1, <1>2, <1>6, <1>7, <1>8, OneUser DEF Ind
<1>10. StartSound'
  <2>1. phase' \in {"prepare", "failed"}
    BY <1>3
  <2> QED
    BY <2>1, <1>1, <1>5 DEF Ind, StartSound, storedVars, policyVars
<1>11. TypedDirs'
  BY <1>1, <1>5, KeyForms DEF Ind, TypedDirs, volVars
<1>12. TypedUsers'
  <2>1. phase' \in Phases
    BY <1>3 DEF Phases
  <2> QED
    BY <2>1, <1>1, <1>4 DEF Ind, TypedUsers, storedVars, policyVars
<1>13. VolumeSound' /\ StartRecovers'
  BY <1>1, <1>4 DEF Ind, VolumeSound, StartRecovers, volVars
<1>14. KeyringSound'
  <2>1. phase' # "sys" /\ phase' # "up"
    BY <1>3
  <2> QED
    BY <2>1, <1>1 DEF Ind, KeyringSound, Settled, Apart, Provisioned, Known, KnownKey, UnlockedUsable, keyring, policyVars
<1> QED
  BY <1>9, <1>10, <1>11, <1>12, <1>13, <1>14 DEF Ind

\* The DE storage of the system user: what is there has the policy of the stored key.
LEMMA User0Keeps ==
  ASSUME Ind, PrepareUser0
  PROVE  Ind'
<1>1. /\ phase = "prepare" /\ PrepareDirs("data", 0, "de", de[0])
      /\ UNCHANGED <<fw, storedVars, policyVars, obb, volVars, keyring, gen, stray>>
  BY DEF PrepareUser0
<1>2. /\ 0 \in Users /\ UserOk(0) /\ KeysOf(0) /\ fw[0] = "alive" /\ 0 \notin ephemeral /\ DirsOk(0)
      /\ "de" \in Classes /\ "ce" \in Classes
  BY KeyForms, DirForms DEF Ind, UsersSound, UserOk, DirsSound, Classes
<1>3. de[0] = deKey[0] /\ de[0] \in Label \ {NoKey}
  <2>1. de[0] = deKey[0] /\ deKey[0] # NoKey
    BY <1>1 DEF Ind, StartSound
  <2> QED
    BY <2>1, KeyForms DEF Ind, TypedUsers
<1>4. dirs[MiscDir(0, "de")] \in {Absent, Plain, deKey[0]}
  BY <1>2 DEF DirsOk
<1>5. EnsurePolicy(MiscDir(0, "de"), de[0])
  BY <1>3, <1>4 DEF EnsurePolicy
<1>6. /\ faults' \in Nat /\ phase' \in {"reload", "failed"}
      /\ phase' = "failed" => erred' = TRUE
  <2>1. Fault \/ NoFault
    BY <1>1 DEF PrepareDirs
  <2>2. phase' = IF faults' = faults THEN "reload" ELSE "failed"
    BY <1>5 DEF PrepareUser0
  <2>3. CASE NoFault
    BY <2>2, <2>3 DEF NoFault, Ind, TypedUsers
  <2>4. CASE Fault
    BY <2>2, <2>4, <1>1, FaultSays DEF Ind
  <2> QED
    BY <2>1, <2>3, <2>4
<1>7. /\ dirs' \in [Dirs -> Label]
      /\ \A d \in Dirs : \/ dirs'[d] = dirs[d]
                         \/ /\ d \in ClassDirs("data", 0, "de") /\ dirs[d] \in {Absent, Plain}
                            /\ dirs'[d] \in {de[0], Plain}
  BY <1>1, <1>2, <1>3, PreparedIs DEF Ind
<1>8. \A d \in ClassDirs("data", 0, "de") : d = MiscDir(0, "de")
  BY DEF ClassDirs
<1>9. /\ MiscDir(0, "de")[2] = 0 /\ MiscDir(0, "de") # DataData /\ MiscDir(0, "de") # MiscDir(0, "ce")
      /\ \A c \in Classes : MiscDir(0, "de") # ExtDir(0, c) /\ ExtDir(0, c) \in Dirs /\ MiscDir(0, c) \in Dirs
      /\ DataData \in Dirs
  BY <1>2, DirForms
<1>10. \A d \in Dirs : d # MiscDir(0, "de") => dirs'[d] = dirs[d]
  BY <1>7, <1>8
<1>11. \A w \in Users : SameUser(w) /\ SameVolume(w) /\ (w # 0 => SameDirs(w))
  <2>1. \A w \in Users : SameUser(w) /\ SameVolume(w)
    BY <1>1 DEF SameUser, SameVolume, storedVars, policyVars, volVars
  <2>2. \A w \in Users : w # 0 => SameDirs(w)
    BY <1>9, <1>10 DEF SameDirs
  <2> QED
    BY <2>1, <2>2
<1>12. UserOk(0)'
  BY <1>2, <1>11, UserFrame
<1>13. DirsOk(0)'
  <2>1. \A c \in Classes : dirs'[ExtDir(0, c)] = dirs[ExtDir(0, c)]
    BY <1>9, <1>10
  <2>2. dirs'[MiscDir(0, "ce")] = dirs[MiscDir(0, "ce")] /\ dirs'[DataData] = dirs[DataData]
    BY <1>2, <1>9, <1>10
  <2>3. dirs'[MiscDir(0, "de")] \in {Absent, Plain, deKey[0]}
    BY <1>2, <1>3, <1>4, <1>7, <1>9
  <2> QED
    BY <2>1, <2>2, <2>3, <1>1, <1>2 DEF DirsOk, storedVars, policyVars, volVars
<1>14. UsersSound' /\ DirsSound'
  BY <1>1, <1>2, <1>11, <1>12, <1>13, OneUser DEF Ind
<1>15. StartSound'
  <2>1. dirs'[DataData] = dirs[DataData]
    BY <1>9, <1>10
  <2> QED
    BY <2>1, <1>1, <1>6 DEF Ind, StartSound, storedVars, policyVars
<1>16. TypedDirs'
  BY <1>1, <1>3, <1>7, KeyForms DEF Ind, TypedDirs, volVars
<1>17. TypedUsers'
  <2>1. phase' \in Phases
    BY <1>6 DEF Phases
  <2> QED
    BY <2>1, <1>1, <1>6 DEF Ind, TypedUsers, storedVars, policyVars
<1>18. VolumeSound' /\ StartRecovers'
  BY <1>1, <1>6 DEF Ind, VolumeSound, StartRecovers, volVars
<1>19. KeyringSound'
  <2>1. phase' # "sys" /\ phase' # "up"
    BY <1>6
  <2> QED
    BY <2>1, <1>1 DEF Ind, KeyringSound, Settled, Apart, Provisioned, Known, KnownKey, UnlockedUsable, keyring, policyVars
<1> QED
  BY <1>14, <1>15, <1>16, <1>17, <1>18, <1>19 DEF Ind

\* The CE keys that vold holds are in the session keyring, so that all of them come back.
LEMMA ReloadKeeps ==
  ASSUME Ind, try_reload_ce_keys
  PROVE  Ind'
<1> DEFINE ks == {ce[u] : u \in Users} \ {NoKey}
<1>1. /\ phase = "reload"
      /\ UNCHANGED <<fw, storedVars, policyVars, fsVars, volVars, busy, provisioning, workers, gen, stray>>
  BY DEF try_reload_ce_keys
<1>2. ks \subseteq provisioning
  BY DEF Ind, KeyringSound, Provisioned
<1>3. \/ present' = present \cup ({"data"} \X ks) /\ phase' = "up" /\ NoFault
      \/ Fault /\ phase' = "failed" /\ present' = present
  <2>1. ks \cap provisioning = ks
    BY <1>2
  <2> QED
    BY <1>2, <2>1 DEF try_reload_ce_keys, Continue
<1>4. faults' \in Nat /\ (phase' = "failed" => erred' = TRUE)
  <2>1. (NoFault /\ phase' = "up") \/ Fault
    BY <1>3
  <2>2. CASE NoFault /\ phase' = "up"
    BY <2>2 DEF NoFault, Ind, TypedUsers
  <2>3. CASE Fault
    BY <2>3, <1>1, FaultSays DEF Ind
  <2> QED
    BY <2>1, <2>2, <2>3
<1>5. \A w \in Users : SameUser(w) /\ SameDirs(w) /\ SameVolume(w)
  BY <1>1 DEF SameUser, SameDirs, SameVolume, storedVars, policyVars, fsVars, volVars
<1>6. UsersSound' /\ DirsSound'
  BY <1>1, <1>5, UserFrame, DirsFrame DEF Ind, UsersSound, DirsSound
<1>7. StartSound'
  BY <1>1, <1>3 DEF Ind, StartSound, storedVars, policyVars, fsVars
<1>8. TypedUsers' /\ TypedDirs'
  <2>1. phase' \in Phases
    BY <1>3 DEF Phases
  <2> QED
    BY <2>1, <1>1, <1>4 DEF Ind, TypedUsers, TypedDirs, storedVars, policyVars, fsVars, volVars
<1>9. VolumeSound' /\ StartRecovers'
  BY <1>1, <1>4 DEF Ind, VolumeSound, StartRecovers, volVars
<1>10. KeyringSound'
  <2>1. busy = {} /\ workers = {}
    BY <1>1 DEF Ind, KeyringSound, Settled
  <2>2. Settled' /\ Provisioned'
    BY <1>1, <1>3, <2>1 DEF Ind, KeyringSound, Settled, Provisioned, policyVars
  <2>3. \A mk \in present' : mk \in present \/ (mk = <<mk[1], mk[2]>> /\ mk[1] = "data" /\ mk[2] \in ks)
    BY <1>3
  <2>4. Apart'
    BY <1>1, <2>1, <2>3 DEF Ind, KeyringSound, Apart
  <2>5. \A x \in ks : KnownKey(x)
    <3> SUFFICES ASSUME NEW x \in ks
                 PROVE  KnownKey(x)
      OBVIOUS
    <3>1. PICK u \in Users : x = ce[u]
      OBVIOUS
    <3>2. u \in Owners /\ u # Sys /\ x # NoKey
      BY KeyForms
    <3> QED
      BY <3>1, <3>2 DEF KnownKey
  <2>6. Known'
    <3> SUFFICES ASSUME NEW mk \in present', mk[1] = "data"
                 PROVE  KnownKey(mk[2])'
      BY DEF Known
    <3>1. KnownKey(mk[2])
      BY <1>1, <2>3, <2>5 DEF Ind, KeyringSound, Known
    <3> QED
      BY <3>1, <1>1 DEF KnownKey, policyVars
  <2>7. UnlockedUsable'
    <3> SUFFICES ASSUME phase' = "up", NEW u \in Users, ce'[u] # NoKey
                 PROVE  <<"data", ce'[u]>> \in present'
      BY DEF UnlockedUsable, Installed
    <3>1. ce'[u] \in ks
      BY <1>1 DEF policyVars
    <3> QED
      BY <3>1, <1>3
  <2> QED
    BY <2>2, <2>4, <2>6, <2>7 DEF KeyringSound
<1> QED
  BY <1>6, <1>7, <1>8, <1>9, <1>10 DEF Ind

-----------------------------------------------------------------------------
(* Restarts *)

\* /data is mounted anew; vold keeps what it knows.
LEMMA RestartKeeps ==
  ASSUME Ind, UserspaceRestart
  PROVE  Ind'
<1>1. /\ phase = "up" /\ workers = {} /\ ceKey[0] # NoKey
      /\ phase' = "sys" /\ present' = {} /\ busy' = {}
      /\ UNCHANGED <<fw, storedVars, policyVars, fsVars, volVars, provisioning, workers, gen, stray, faults>>
  BY DEF UserspaceRestart, ce_key_exists
<1>2. \A w \in Users : SameUser(w) /\ SameDirs(w) /\ SameVolume(w)
  BY <1>1 DEF SameUser, SameDirs, SameVolume, storedVars, policyVars, fsVars, volVars
<1>3. UsersSound' /\ DirsSound'
  BY <1>1, <1>2, UserFrame, DirsFrame DEF Ind, UsersSound, DirsSound
<1>4. StartSound'
  BY <1>1 DEF Ind, StartSound, storedVars, policyVars
<1>5. TypedUsers' /\ TypedDirs'
  BY <1>1 DEF Ind, TypedUsers, TypedDirs, Phases, storedVars, policyVars, fsVars, volVars
<1>6. VolumeSound' /\ StartRecovers'
  BY <1>1 DEF Ind, VolumeSound, StartRecovers, volVars
<1>7. KeyringSound'
  BY <1>1 DEF Ind, KeyringSound, Settled, Apart, Provisioned, Known, UnlockedUsable, policyVars
<1> QED
  BY <1>3, <1>4, <1>5, <1>6, <1>7 DEF Ind

\* A reboot at any point: what was not stored is gone, and so are the users it belonged to.
LEMMA RebootKeeps ==
  ASSUME Ind, Reboot
  PROVE  Ind'
<1>1. /\ phase' = "sys" /\ ephemeral' = {}
      /\ de' = [u \in DOMAIN de |-> NoKey] /\ ce' = [u \in Users |-> NoKey] /\ newCe' = [u \in Users |-> NoKey]
      /\ fw' = [u \in Users |-> IF u \in ephemeral \/ fw[u] = "making" THEN "leaving" ELSE fw[u]]
      /\ present' = {} /\ busy' = {} /\ workers' = {}
      /\ UNCHANGED <<storedVars, fsVars, volVars, gen, faults>>
  BY DEF Reboot
<1>2. /\ de' \in [Owners -> Label] /\ ce' \in [Users -> Label] /\ newCe' \in [Users -> Label]
      /\ \A u \in Owners : de'[u] = NoKey
      /\ \A u \in Users : ce'[u] = NoKey /\ newCe'[u] = NoKey
  <2>1. DOMAIN de = Owners /\ NoKey \in Label
    BY KeyForms DEF Ind, TypedUsers
  <2> QED
    BY <1>1, <2>1
<1>3. /\ fw' \in [Users -> {"none", "making", "alive", "leaving"}]
      /\ \A u \in Users : fw'[u] = (IF u \in ephemeral \/ fw[u] = "making" THEN "leaving" ELSE fw[u])
  BY <1>1 DEF Ind, TypedUsers
<1>4. 0 \in Users /\ 0 \in Owners /\ fw'[0] = "alive"
  BY <1>3, KeyForms DEF Ind, UsersSound, UserOk
<1>5. TypedUsers'
  <2>1. \A u \in Users : {ce'[u], newCe'[u], ceKey'[u]} \subseteq CeKeys(u) \cup {NoKey}
    BY <1>1, <1>2 DEF Ind, TypedUsers, storedVars
  <2>2. \A u \in Owners : de'[u] \in DeKeys(u) \cup {NoKey} /\ deKey'[u] \in DeKeys(u) \cup {NoKey, Damaged}
    BY <1>1, <1>2 DEF Ind, TypedUsers, storedVars
  <2> QED
    BY <2>1, <2>2, <1>1, <1>2, <1>3 DEF Ind, TypedUsers, Phases, storedVars
<1>6. ASSUME NEW u \in Users
      PROVE  UserOk(u)' /\ DirsOk(u)'
  <2>1. UserOk(u) /\ DirsOk(u) /\ u \in Owners
    BY KeyForms DEF Ind, UsersSound, DirsSound
  <2>2. KeysOf(u)'
    BY <2>1, <1>2 DEF KeysOf
  <2>3. fw'[u] = "none" => Nothing(u)'
    BY <2>1, <1>1, <1>2, <1>3 DEF UserOk, Nothing, storedVars, fsVars
  <2>4. UserOk(u)'
    BY <2>1, <2>2, <2>3, <1>1, <1>3 DEF UserOk, storedVars
  <2>5. fw'[u] \in {"making", "alive"} => fw[u] = "alive" /\ u \notin ephemeral
    BY <1>3 DEF Ind, TypedUsers
  <2>6. DirsOk(u)'
    BY <2>1, <2>5, <1>1 DEF DirsOk, storedVars, fsVars, volVars
  <2> QED
    BY <2>4, <2>6
<1>7. UsersSound' /\ DirsSound'
  BY <1>4, <1>6 DEF UsersSound, DirsSound
<1>8. StartSound'
  BY <1>1, <1>2, <1>4 DEF StartSound
<1>9. TypedDirs' /\ VolumeSound' /\ StartRecovers'
  BY <1>1 DEF Ind, TypedDirs, VolumeSound, StartRecovers, fsVars, volVars
<1>10. KeyringSound'
  BY <1>1, <1>2 DEF KeyringSound, Settled, Apart, Provisioned, Known, UnlockedUsable
<1> QED
  BY <1>5, <1>7, <1>8, <1>9, <1>10 DEF Ind

-----------------------------------------------------------------------------
(* The invariant, and what follows from it *)

\* A new device: nothing is stored, and only the system user is there.
LEMMA InitInd ==
  ASSUME Init
  PROVE  Ind
<1>1. /\ phase = "sys" /\ fw = [u \in Users |-> IF u = 0 THEN "alive" ELSE "none"]
      /\ deKey = [u \in Owners |-> NoKey] /\ ceKey = [u \in Users |-> NoKey]
      /\ de = deKey /\ ce = ceKey /\ newCe = ceKey /\ ephemeral = {}
      /\ dirs = [d \in Dirs |-> Absent]
      /\ volkey = [uc \in Users \X Classes |-> NoVolkey] /\ secdisc = 0 /\ forgotten = FALSE
      /\ present = {} /\ busy = {} /\ provisioning = {} /\ workers = {}
      /\ gen = [p \in Purposes |-> 0] /\ faults = 0
  BY DEF Init, Owners
<1>2. /\ \A u \in Owners : de[u] = NoKey /\ deKey[u] = NoKey
      /\ \A u \in Users : ce[u] = NoKey /\ ceKey[u] = NoKey /\ newCe[u] = NoKey
      /\ \A d \in Dirs : dirs[d] = Absent
      /\ \A uc \in Users \X Classes : volkey[uc] = NoVolkey
  BY <1>1
<1>3. TypedUsers
  BY <1>1, <1>2, KeyForms DEF TypedUsers, Phases
<1>4. TypedDirs
  BY <1>1, <1>2, KeyForms DEF TypedDirs, NoVolkey
<1>5. KeyringSound
  BY <1>1, <1>2 DEF KeyringSound, Settled, Apart, Provisioned, Known, UnlockedUsable
<1>6. UsersSound
  <2>1. fw[0] = "alive" /\ \A u \in Users : fw[u] \in {"none", "alive"} /\ (fw[u] = "alive" => u = 0)
    BY <1>1, KeyForms
  <2>2. \A u \in Users : KeysOf(u) /\ Nothing(u)
    BY <1>1, <1>2, KeyForms DEF KeysOf, Nothing
  <2> QED
    BY <2>1, <2>2, <1>1, <1>2, KeyForms DEF UsersSound, UserOk
<1>7. StartSound
  BY <1>1, <1>2, KeyForms DEF StartSound
<1>8. DirsSound
  <2>1. \A u \in Users, c \in Classes : dirs[MiscDir(u, c)] = Absent /\ dirs[ExtDir(u, c)] = Absent
    BY <1>2, DirForms
  <2>2. "de" \in Classes /\ "ce" \in Classes /\ dirs[DataData] = Absent
    BY <1>2, DirForms DEF Classes
  <2> QED
    BY <2>1, <2>2 DEF DirsSound, DirsOk
<1>9. VolumeSound /\ StartRecovers
  BY <1>1, <1>2 DEF VolumeSound, NoVolkey, StartRecovers
<1> QED
  BY <1>3, <1>4, <1>5, <1>6, <1>7, <1>8, <1>9 DEF Ind

\* A step of the rest of the world.
LEMMA StutterKeeps ==
  ASSUME Ind, UNCHANGED vars
  PROVE  Ind'
<1>1. UNCHANGED <<phase, fw, deKey, ceKey, de, ce, newCe, ephemeral, dirs, volkey, secdisc, forgotten, unshredded,
                  present, busy, provisioning, workers, gen, erred, stray, faults>>
  BY DEF vars, storedVars, policyVars, fsVars, volVars, keyring, bookVars
<1>2. TypedUsers' /\ TypedDirs' /\ VolumeSound' /\ StartRecovers'
  BY <1>1 DEF Ind, TypedUsers, TypedDirs, VolumeSound, StartRecovers
<1>3. KeyringSound'
  BY <1>1, KeyringFrame DEF Ind, policyVars, keyring
<1>4. \A w \in Users : SameUser(w) /\ SameDirs(w) /\ SameVolume(w)
  BY <1>1 DEF SameUser, SameDirs, SameVolume
<1>5. UsersSound' /\ DirsSound'
  BY <1>1, <1>4, UserFrame, DirsFrame DEF Ind, UsersSound, DirsSound
<1>6. StartSound'
  BY <1>1, <1>4, StartFrame, KeyForms DEF Ind
<1> QED
  BY <1>2, <1>3, <1>5, <1>6 DEF Ind

\* Every step.
LEMMA NextKeeps ==
  ASSUME Ind, [Next]_vars
  PROVE  Ind'
<1>1. CASE UNCHANGED vars
  BY <1>1, StutterKeeps
<1>2. CASE Start
  BY <1>2, SysKeeps, InitDeKeeps, InitCeKeeps, LoadKeeps, SpecialKeeps, User0Keeps, ReloadKeeps DEF Start
<1>3. CASE Reboot
  BY <1>3, RebootKeeps
<1>4. CASE \E w \in workers : waitForBusyFiles(w)
  BY <1>4, WorkerKeeps
<1>5. CASE Call
  <2>1. CASE fscrypt_destroy_volume_keys
    BY <2>1, ForgetKeeps
  <2>2. CASE UserspaceRestart
    BY <2>2, RestartKeeps
  <2>3. CASE \E u \in Users :
               \/ \E eph \in BOOLEAN : fscrypt_vold_create_user_key(u, eph)
               \/ fscrypt_set_user_key_protection(u) \/ fscrypt_unlock_user_key(u)
               \/ fscrypt_lock_user_key(u) \/ fscrypt_destroy_user_key(u)
    BY <2>3, CreateKeeps, ProtectionKeeps, UnlockKeeps, LockKeeps, DestroyKeyKeeps
  <2>4. CASE \E u \in Users :
               \/ \E c \in Classes : PrepareInternal(u, c) \/ PrepareExternal(u, c)
               \/ \E v \in {"data", "ext"} : fscrypt_destroy_user_storage(v, u)
               \/ FinishUser(u) \/ RemoveUser(u) \/ UserGone(u)
    BY <2>4, InternalKeeps, ExternalKeeps, DestroyStorageKeeps, FrameworkKeeps
  <2> QED
    BY <1>5, <2>1, <2>2, <2>3, <2>4 DEF Call
<1> QED
  BY <1>1, <1>2, <1>3, <1>4, <1>5 DEF Next

\* The invariant that every step of vold, of its workers and of the framework keeps.
THEOREM Invariant == Spec => []Ind
<1>1. Init => Ind
  BY InitInd
<1>2. Ind /\ [Next]_vars => Ind'
  BY NextKeeps
<1> QED
  BY <1>1, <1>2, PTL DEF Spec

\* UnlockedUsable: the key of a user that vold takes for unlocked is in the kernel.  A worker
\* that was started for an earlier lock removes only what was removed in part (Apart), and
\* try_reload_ce_keys finds every key in the session keyring (Provisioned).
THEOREM UnlockedUsersAreUsable == Spec => []UnlockedUsable
<1>1. Ind => UnlockedUsable
  BY DEF Ind, KeyringSound
<1> QED
  BY <1>1, Invariant, PTL

\* NoStrayKeys: evictKey can reach every key in the kernel that a failing call did not leave.
THEOREM KernelKeysAreKnown == Spec => []NoStrayKeys
<1>1. Ind => NoStrayKeys
  <2> SUFFICES ASSUME Ind, phase = "up", NEW mk \in present, mk[1] = "data", mk[2] \notin stray
               PROVE  \E u \in DOMAIN de : mk[2] = de[u] \/ (u # Sys /\ mk[2] = ce[u])
    BY DEF NoStrayKeys
  <2>1. KnownKey(mk[2])
    BY DEF Ind, KeyringSound, Known
  <2>2. DOMAIN de = Owners
    BY DEF Ind, TypedUsers
  <2> QED
    BY <2>1, <2>2 DEF KnownKey
<1> QED
  BY <1>1, Invariant, PTL

\* PoliciesKept: EnsurePolicy never gives the directory of a user that stays a policy whose
\* key is lost with the next boot.
THEOREM DirectoriesStayReadable == Spec => []PoliciesKept
<1>1. Ind => PoliciesKept
  <2> SUFFICES ASSUME Ind, NEW d \in Dirs, fw[d[2]] = "alive", d[2] \notin ephemeral, dirs[d] \notin {Absent, Plain}
               PROVE  \/ d = DataData /\ ceKey[0] = NoKey
                      \/ d[1] = "data" /\ dirs[d] \in {deKey[d[2]], ceKey[d[2]]}
                      \/ d[1] = "ext" /\ \E c \in Classes : volkey[<<d[2], c>>] = [key |-> dirs[d], hash |-> secdisc]
    BY DEF PoliciesKept
  <2> DEFINE u == d[2]
  <2>1. u \in Users
    BY DirForms
  <2>2. u = 0 \/ deKey[u] # NoKey
    BY <2>1 DEF Ind, UsersSound, UserOk
  <2>3. DirsOk(u)
    BY <2>1 DEF Ind, DirsSound
  <2>4. /\ dirs[MiscDir(u, "de")] \in {Absent, Plain, deKey[u]}
        /\ dirs[MiscDir(u, "ce")] \in {Absent, Plain, ceKey[u]}
        /\ u = 0 /\ ceKey[0] # NoKey => dirs[DataData] \in {Absent, Plain, ceKey[0]}
    BY <2>2, <2>3 DEF DirsOk
  <2>5. \A c \in Classes : dirs[ExtDir(u, c)] \notin {Absent, Plain} =>
          volkey[<<u, c>>] = [key |-> dirs[ExtDir(u, c)], hash |-> secdisc]
    BY <2>3 DEF DirsOk
  <2>6. CASE d = DataData
    BY <2>4, <2>6, DirForms
  <2>7. CASE \E c \in Classes : d = MiscDir(u, c)
    BY <2>1, <2>4, <2>7, DirForms DEF Classes
  <2>8. CASE \E c \in Classes : d = ExtDir(u, c)
    BY <2>1, <2>5, <2>8, DirForms
  <2>9. d = DataData \/ \E c \in Classes : d \in {MiscDir(u, c), ExtDir(u, c)}
    BY DirForms
  <2> HIDE DEF u
  <2>10. \/ d = DataData \/ \E c \in Classes : d = MiscDir(u, c)
         \/ \E c \in Classes : d = ExtDir(u, c)
    BY <2>9
  <2> QED
    BY <2>6, <2>7, <2>8, <2>10
<1> QED
  BY <1>1, Invariant, PTL

\* StartRecovers: load_all_de_keys, prepare_special_dirs, prepare_user_storage and
\* try_reload_ce_keys refuse nothing that earlier boots, crashes and failures can leave.
THEOREM StartsRecover == Spec => []StartRecovers
<1>1. Ind => StartRecovers
  BY DEF Ind
<1> QED
  BY <1>1, Invariant, PTL

\* Shredded: without its secdiscardable file no key of a forgotten volume can be read.
THEOREM ForgottenIsShredded == Spec => []Shredded
<1>1. Ind => Shredded
  BY DEF Ind, VolumeSound, TypedDirs, Shredded
<1> QED
  BY <1>1, Invariant, PTL
=============================================================================
