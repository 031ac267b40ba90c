----------------------------- MODULE DiskProofs -----------------------------
(***************************************************************************)
(* The properties of Disk, for any cards, any tables that they may have at *)
(* first, and any number of events, calls, exchanges and faults.           *)
(*                                                                         *)
(* An object that does not show the card must have an event ahead of it    *)
(* that makes it: a change, two of them if the next is to be skipped, or   *)
(* the removal that destroys it (ScanSound).  partitionPublic sets         *)
(* mSkipChange only where it knows of two changes, and a scan that is      *)
(* skipped uses up one of them.  Whether there is an object at all follows *)
(* from the order of additions and removals in the queue (PlugSound).      *)
(***************************************************************************)
EXTENDS Disk, SequenceTheorems, TLAPS

\* Volumes, Disk objects and block events, and the types of the variables.  GUIDs are given
\* out in order, and those of keys and tables have been.
Volume == [kind : {"public", "private"}, part : Nat, guid : Nat]
Object == [just : BOOLEAN, skip : BOOLEAN, size : Cards \cup {NoCard}, vols : SUBSET Volume,
           owed : BOOLEAN, unread : BOOLEAN]
Event  == {"add", "change", "remove"}

Typed ==
  /\ plugged \in BOOLEAN /\ card \in Cards \cup {NoCard}
  /\ guids \in Nat /\ keys \subseteq 1..guids /\ forgotten \subseteq 1..guids
  /\ table \in [Cards -> TableOf(0..guids)]
  /\ disks \in Seq(Object) /\ dm \in [Parts -> Nat] /\ queue \in Seq(Event)
  /\ asked \in SUBSET Cards /\ loose \in BOOLEAN /\ leftover \in BOOLEAN

\* A flag that is set belongs to a call on the card in the reader whose scan is still to come.
JustSound == \A i \in DOMAIN disks : disks[i].just => loose \/ (disks[i].owed /\ card \in asked)

\* What is mapped is a volume of one of the objects, unless it was left over.
DmSound ==
  \/ leftover
  \/ \A i \in Parts : dm[i] # 0 => \E j \in DOMAIN disks : Private(disks[j].vols, i) # {}

\* What the queue holds: an event, two changes.
Has(q, e)   == \E i \in DOMAIN q : q[i] = e
TwoChanges(q) == \E i, j \in DOMAIN q : i < j /\ q[i] = "change" /\ q[j] = "change"
\* After an event e there is none of the events f.
Settles(q, e, f) == \E i \in DOMAIN q : q[i] = e /\ \A j \in DOMAIN q : j > i => q[j] # f

\* An object is announced, or there already, when the reader is attached, and goes when it is not.
PlugSound ==
  /\ plugged  => Settles(queue, "add", "remove") \/ (disks # <<>> /\ ~Has(queue, "remove"))
  /\ ~plugged => Settles(queue, "remove", "add") \/ (disks = <<>> /\ ~Has(queue, "add"))

\* The private volumes of the card are mapped with their keys.
Mapped == \A v \in VolumesOnCard : v.kind = "private" => dm[v.part] = v.guid

\* An object shows the card, or an event will have it scan the card again or destroyed.
Shows(d) == d.vols = VolumesOnCard /\ d.size = card /\ ~d.skip /\ Mapped
Followed(d) ==
  \/ Has(queue, "remove")
  \/ IF d.skip THEN TwoChanges(queue) ELSE Has(queue, "change")
  \/ Shows(d)

\* Only the first object is ever partitioned.
ScanSound ==
  \A i \in DOMAIN disks :
    /\ i > 1 => ~disks[i].skip
    /\ disks[1].unread \/ disks[i].unread \/ Followed(disks[i])

\* The invariant.
Ind == Typed /\ KeysKept /\ FormatsAsked /\ JustSound /\ DmSound /\ PlugSound /\ ScanSound

-----------------------------------------------------------------------------
(* The queue *)

\* An event is taken from the queue.
LEMMA QueueTail ==
  ASSUME NEW q \in Seq(Event), q # <<>>
  PROVE  /\ Tail(q) \in Seq(Event)
         /\ \A e : Has(Tail(q), e) => Has(q, e)
         /\ \A e : Has(q, e) => Head(q) = e \/ Has(Tail(q), e)
         /\ TwoChanges(q) => Has(Tail(q), "change")
         /\ TwoChanges(q) /\ Head(q) # "change" => TwoChanges(Tail(q))
         /\ \A e, f : Settles(q, e, f) => Settles(Tail(q), e, f) \/ (Head(q) = e /\ ~Has(Tail(q), f))
<1> DEFINE t == Tail(q)
<1>1. /\ t \in Seq(Event) /\ Len(q) \in Nat /\ Len(q) >= 1 /\ Len(t) = Len(q) - 1
      /\ Head(q) = q[1] /\ \A i \in 1..Len(t) : t[i] = q[i + 1]
      /\ DOMAIN q = 1..Len(q) /\ DOMAIN t = 1..Len(t)
  OBVIOUS
<1> HIDE DEF t
<1>2. \A i \in DOMAIN q : i = 1 \/ (i - 1 \in DOMAIN t /\ t[i - 1] = q[i])
  BY <1>1
<1>3. \A i \in DOMAIN t : i + 1 \in DOMAIN q /\ t[i] = q[i + 1] /\ i \in Nat /\ i >= 1
  BY <1>1
<1>4. \A e : Has(t, e) => Has(q, e)
  BY <1>3 DEF Has
<1>5. \A e : Has(q, e) => Head(q) = e \/ Has(t, e)
  BY <1>1, <1>2 DEF Has
<1>6. TwoChanges(q) => Has(t, "change")
  BY <1>1, <1>2 DEF Has, TwoChanges
<1>7. TwoChanges(q) /\ Head(q) # "change" => TwoChanges(t)
  <2>1. SUFFICES ASSUME NEW i \in DOMAIN q, NEW j \in DOMAIN q, i < j, q[i] = "change", q[j] = "change",
                        Head(q) # "change"
                 PROVE  TwoChanges(t)
    BY DEF TwoChanges
  <2>2. i - 1 \in DOMAIN t /\ j - 1 \in DOMAIN t /\ t[i - 1] = "change" /\ t[j - 1] = "change" /\ i - 1 < j - 1
    BY <1>1, <1>2, <2>1
  <2> QED
    BY <2>2 DEF TwoChanges
<1>8. \A e, f : Settles(q, e, f) => Settles(t, e, f) \/ (Head(q) = e /\ ~Has(t, f))
  <2>1. SUFFICES ASSUME NEW e, NEW f, NEW i \in DOMAIN q, q[i] = e, \A j \in DOMAIN q : j > i => q[j] # f
                 PROVE  Settles(t, e, f) \/ (Head(q) = e /\ ~Has(t, f))
    BY DEF Settles
  <2>2. CASE i = 1
    <3>1. \A j \in DOMAIN t : t[j] # f
      BY <1>3, <2>1, <2>2
    <3> QED
      BY <1>1, <2>1, <2>2, <3>1 DEF Has
  <2>3. CASE i # 1
    <3>1. i - 1 \in DOMAIN t /\ t[i - 1] = e
      BY <1>2, <2>1, <2>3
    <3>2. \A j \in DOMAIN t : j > i - 1 => t[j] # f
      BY <1>1, <1>3, <2>1
    <3> QED
      BY <3>1, <3>2 DEF Settles
  <2> QED
    BY <2>2, <2>3
<1> QED
  BY <1>1, <1>4, <1>5, <1>6, <1>7, <1>8 DEF t

\* Events are put into the queue.
LEMMA QueueAppend ==
  ASSUME NEW q \in Seq(Event), NEW s \in Seq(Event)
  PROVE  /\ q \o s \in Seq(Event)
         /\ \A e : Has(q \o s, e) <=> Has(q, e) \/ Has(s, e)
         /\ TwoChanges(q) \/ TwoChanges(s) => TwoChanges(q \o s)
         /\ \A e, f : Settles(q, e, f) /\ ~Has(s, f) => Settles(q \o s, e, f)
         /\ \A e, f : Settles(s, e, f) => Settles(q \o s, e, f)
<1> DEFINE r == q \o s
<1>1. /\ r \in Seq(Event) /\ Len(q) \in Nat /\ Len(s) \in Nat /\ Len(r) = Len(q) + Len(s)
      /\ \A i \in 1..Len(q) : r[i] = q[i]
      /\ \A i \in 1..Len(s) : r[Len(q) + i] = s[i]
      /\ DOMAIN q = 1..Len(q) /\ DOMAIN s = 1..Len(s) /\ DOMAIN r = 1..Len(r)
  OBVIOUS
<1> HIDE DEF r
<1>2. \A i \in DOMAIN r : \/ i \in DOMAIN q /\ r[i] = q[i]
                          \/ i > Len(q) /\ i - Len(q) \in DOMAIN s /\ r[i] = s[i - Len(q)]
  <2>1. SUFFICES ASSUME NEW i \in DOMAIN r, i \notin DOMAIN q
                 PROVE  i > Len(q) /\ i - Len(q) \in DOMAIN s /\ r[i] = s[i - Len(q)]
    BY <1>1
  <2>2. i > Len(q) /\ i - Len(q) \in 1..Len(s) /\ Len(q) + (i - Len(q)) = i
    BY <1>1, <2>1
  <2> QED
    BY <1>1, <2>2
<1>3. \A i \in DOMAIN q : i \in DOMAIN r /\ r[i] = q[i]
  BY <1>1
<1>4. \A i \in DOMAIN s : Len(q) + i \in DOMAIN r /\ r[Len(q) + i] = s[i]
  BY <1>1
<1>5. \A e : Has(r, e) <=> Has(q, e) \/ Has(s, e)
  BY <1>2, <1>3, <1>4 DEF Has
<1>6. TwoChanges(q) => TwoChanges(r)
  BY <1>3 DEF TwoChanges
<1>7. TwoChanges(s) => TwoChanges(r)
  <2>1. SUFFICES ASSUME NEW i \in DOMAIN s, NEW j \in DOMAIN s, i < j, s[i] = "change", s[j] = "change"
                 PROVE  TwoChanges(r)
    BY DEF TwoChanges
  <2>2. Len(q) + i < Len(q) + j
    BY <1>1, <2>1
  <2> QED
    BY <1>4, <2>1, <2>2 DEF TwoChanges
<1>8. \A e, f : Settles(q, e, f) /\ ~Has(s, f) => Settles(r, e, f)
  <2>1. SUFFICES ASSUME NEW e, NEW f, ~Has(s, f), NEW i \in DOMAIN q, q[i] = e,
                        \A j \in DOMAIN q : j > i => q[j] # f
                 PROVE  Settles(r, e, f)
    BY DEF Settles
  <2>2. \A j \in DOMAIN r : j > i => r[j] # f
    BY <1>2, <2>1 DEF Has
  <2> QED
    BY <1>3, <2>1, <2>2 DEF Settles
<1>9. \A e, f : Settles(s, e, f) => Settles(r, e, f)
  <2>1. SUFFICES ASSUME NEW e, NEW f, NEW i \in DOMAIN s, s[i] = e, \A j \in DOMAIN s : j > i => s[j] # f
                 PROVE  Settles(r, e, f)
    BY DEF Settles
  <2>2. \A j \in DOMAIN r : j > Len(q) + i => r[j] # f
    <3>1. SUFFICES ASSUME NEW j \in DOMAIN r, j > Len(q) + i PROVE r[j] # f
      OBVIOUS
    <3>2. j \notin DOMAIN q
      BY <1>1, <3>1
    <3>3. j - Len(q) \in DOMAIN s /\ r[j] = s[j - Len(q)] /\ j - Len(q) > i
      BY <1>1, <1>2, <3>1, <3>2
    <3> QED
      BY <2>1, <3>3
  <2> QED
    BY <1>4, <2>1, <2>2 DEF Settles
<1> QED
  BY <1>1, <1>5, <1>6, <1>7, <1>8, <1>9 DEF r

\* The events that are put into the queue.
LEMMA QueuePosts ==
  /\ <<"change">> \in Seq(Event) /\ Has(<<"change">>, "change")
  /\ ~Has(<<"change">>, "add") /\ ~Has(<<"change">>, "remove")
  /\ <<"change", "change">> \in Seq(Event) /\ TwoChanges(<<"change", "change">>)
  /\ Has(<<"change", "change">>, "change")
  /\ ~Has(<<"change", "change">>, "add") /\ ~Has(<<"change", "change">>, "remove")
  /\ <<"add">> \in Seq(Event) /\ Settles(<<"add">>, "add", "remove") /\ ~Has(<<"add">>, "remove")
  /\ <<"add", "add">> \in Seq(Event) /\ Settles(<<"add", "add">>, "add", "remove")
  /\ <<"remove">> \in Seq(Event) /\ Settles(<<"remove">>, "remove", "add") /\ Has(<<"remove">>, "remove")
  /\ \A e : ~Has(<<>>, e)
  /\ \A e, f : ~Settles(<<>>, e, f)
<1>1. <<"change">> \in Seq(Event) /\ <<"change", "change">> \in Seq(Event) /\ <<"add">> \in Seq(Event)
      /\ <<"add", "add">> \in Seq(Event) /\ <<"remove">> \in Seq(Event)
  BY DEF Event
<1>2. \A e : ~Has(<<>>, e)
  BY DEF Has
<1>3. \A e, f : ~Settles(<<>>, e, f)
  BY DEF Settles
<1>4. /\ Has(<<"change">>, "change") /\ ~Has(<<"change">>, "add") /\ ~Has(<<"change">>, "remove")
      /\ Has(<<"change", "change">>, "change")
      /\ ~Has(<<"change", "change">>, "add") /\ ~Has(<<"change", "change">>, "remove")
      /\ ~Has(<<"add">>, "remove") /\ Has(<<"remove">>, "remove")
  BY DEF Has
<1>5. TwoChanges(<<"change", "change">>)
  BY DEF TwoChanges
<1>6. Settles(<<"add">>, "add", "remove") /\ Settles(<<"remove">>, "remove", "add")
      /\ Settles(<<"add", "add">>, "add", "remove")
  BY DEF Settles
<1> QED
  BY <1>1, <1>2, <1>3, <1>4, <1>5, <1>6

-----------------------------------------------------------------------------
(* Tables and volumes *)

\* The parts of a table.
LEMMA TableParts ==
  ASSUME NEW S, NEW t \in TableOf(S)
  PROVE  /\ DOMAIN t.parts \subseteq Parts /\ t.kind \in {"none", "mbr", "gpt"} /\ t.fs \in BOOLEAN
         /\ \A i \in DOMAIN t.parts : t.parts[i] \in [type : PartType, guid : S]
<1>1. t.parts \in UNION {[1..n -> [type : PartType, guid : S]] : n \in {0} \cup Parts}
      /\ t.kind \in {"none", "mbr", "gpt"} /\ t.fs \in BOOLEAN
  BY DEF TableOf
<1>2. PICK n \in {0} \cup Parts : t.parts \in [1..n -> [type : PartType, guid : S]]
  BY <1>1
<1>3. 1..n \subseteq Parts
  BY DEF Parts
<1> QED
  BY <1>1, <1>2, <1>3

\* A table stays one when more GUIDs have been given out.
LEMMA TableGrows ==
  ASSUME NEW S, NEW T, S \subseteq T
  PROVE  TableOf(S) \subseteq TableOf(T)
<1>1. [type : PartType, guid : S] \subseteq [type : PartType, guid : T]
  OBVIOUS
<1>2. \A n \in {0} \cup Parts : [1..n -> [type : PartType, guid : S]] \subseteq [1..n -> [type : PartType, guid : T]]
  BY <1>1
<1>3. UNION {[1..n -> [type : PartType, guid : S]] : n \in {0} \cup Parts}
        \subseteq UNION {[1..n -> [type : PartType, guid : T]] : n \in {0} \cup Parts}
  BY <1>2
<1> QED
  BY <1>3 DEF TableOf

\* There is one private volume for each private partition whose key is there.
LEMMA VolumesTyped ==
  ASSUME Typed
  PROVE  /\ VolumesOnCard \in SUBSET Volume
         /\ \A v \in VolumesOnCard : v.kind = "private" => v.part \in Parts
         /\ \A v, w \in VolumesOnCard :
              v.kind = "private" /\ w.kind = "private" /\ v.part = w.part => v = w
<1>1. CASE card = NoCard \/ ~plugged
  BY <1>1 DEF VolumesOnCard
<1>2. CASE ~(card = NoCard \/ ~plugged)
  <2> DEFINE ps == table[card].parts
  <2>1. card \in Cards /\ table[card] \in TableOf(0..guids)
    BY <1>2 DEF Typed
  <2>2. DOMAIN ps \subseteq Parts /\ \A i \in DOMAIN ps : ps[i].guid \in 0..guids
    BY <2>1, TableParts
  <2>3. guids \in Nat /\ 0..guids \subseteq Nat /\ Parts \subseteq Nat
    BY DEF Typed, Parts
  <2> HIDE DEF ps
  <2>4. CASE ps = <<>>
    <3>1. VolumesOnCard \subseteq {createPublicVolume(0)}
      BY <1>2, <2>4 DEF VolumesOnCard, ps
    <3> QED
      BY <3>1 DEF createPublicVolume, Volume
  <2>5. CASE ps # <<>>
    <3>1. VolumesOnCard =
            {createPublicVolume(i) : i \in {j \in DOMAIN ps : ps[j].type = "public"}} \cup
            {createPrivateVolume(i, ps[i].guid) :
               i \in {j \in DOMAIN ps : ps[j].type = "expand" /\ ps[j].guid \in keys}}
      BY <1>2, <2>5 DEF VolumesOnCard, ps
    <3>2. \A v \in VolumesOnCard :
            \/ \E i \in DOMAIN ps : v = createPublicVolume(i)
            \/ \E i \in DOMAIN ps : v = createPrivateVolume(i, ps[i].guid)
      BY <3>1
    <3>3. \A i \in DOMAIN ps : createPublicVolume(i) \in Volume /\ createPublicVolume(i).kind = "public"
      BY <2>2, <2>3 DEF createPublicVolume, Volume
    <3>4. \A i \in DOMAIN ps : /\ createPrivateVolume(i, ps[i].guid) \in Volume
                               /\ createPrivateVolume(i, ps[i].guid).part = i
      BY <2>2, <2>3 DEF createPrivateVolume, Volume
    <3>5. \A v \in VolumesOnCard : v.kind = "private" =>
            v.part \in DOMAIN ps /\ v = createPrivateVolume(v.part, ps[v.part].guid)
      BY <3>2, <3>3, <3>4
    <3> QED
      BY <2>2, <3>2, <3>3, <3>4, <3>5
  <2> QED
    BY <2>4, <2>5
<1> QED
  BY <1>1, <1>2

\* Volumes are destroyed: their mappings go.
LEMMA DestroyedDm ==
  ASSUME Typed, NEW D
  PROVE  /\ doDestroy(D) \in [Parts -> Nat]
         /\ \A i \in Parts : doDestroy(D)[i] = IF Private(D, i) # {} THEN 0 ELSE dm[i]
  BY DEF Typed, doDestroy

\* The volumes of the card are created: each has its key, and nothing else is mapped that was not.
LEMMA CreatedDm ==
  ASSUME Typed, NEW m \in [Parts -> Nat]
  PROVE  LET n == doCreate(m, VolumesOnCard) IN
         /\ n \in [Parts -> Nat]
         /\ \A v \in VolumesOnCard : v.kind = "private" => n[v.part] = v.guid
         /\ \A i \in Parts : Private(VolumesOnCard, i) = {} => n[i] = m[i]
<1> DEFINE n == doCreate(m, VolumesOnCard)
           P(i) == CHOOSE v \in VolumesOnCard : v \in Private(VolumesOnCard, i)
<1>1. n = [i \in Parts |-> IF Private(VolumesOnCard, i) = {} THEN m[i] ELSE P(i).guid]
  BY DEF doCreate, DeleteDeviceIfExists
<1>2. \A i \in Parts : Private(VolumesOnCard, i) # {} => P(i) \in Private(VolumesOnCard, i) /\ P(i) \in VolumesOnCard
  BY DEF Private
<1> HIDE DEF n, P
<1>3. \A i \in Parts : Private(VolumesOnCard, i) # {} => P(i).guid \in Nat
  BY <1>2, VolumesTyped DEF Volume
<1>4. n \in [Parts -> Nat]
  BY <1>1, <1>3
<1>5. \A v \in VolumesOnCard : v.kind = "private" => n[v.part] = v.guid
  <2>1. SUFFICES ASSUME NEW v \in VolumesOnCard, v.kind = "private" PROVE n[v.part] = v.guid
    OBVIOUS
  <2>2. v \in Private(VolumesOnCard, v.part) /\ v.part \in Parts
    BY <2>1, VolumesTyped DEF Private
  <2>3. P(v.part) \in VolumesOnCard /\ P(v.part).kind = "private" /\ P(v.part).part = v.part
    BY <1>2, <2>2 DEF Private
  <2>4. P(v.part) = v
    BY <2>1, <2>3, VolumesTyped
  <2> QED
    BY <1>1, <2>2, <2>4
<1>6. \A i \in Parts : Private(VolumesOnCard, i) = {} => n[i] = m[i]
  BY <1>1
<1> QED
  BY <1>4, <1>5, <1>6 DEF n

\* The invariant holds when the kernel has announced the reader.
LEMMA InitSound == Init => Ind
<1> SUFFICES ASSUME Init PROVE Ind
  OBVIOUS
<1>1. Typed
  <2>1. table \in [Cards -> TableOf(0..guids)]
    <3>1. TableOf({0}) \subseteq TableOf(0..guids)
      <4>1. {0} \subseteq 0..guids
        BY DEF Init
      <4> QED
        BY <4>1, TableGrows
    <3> QED
      BY <3>1, TablesAssumption DEF Init
  <2>2. queue \in Seq(Event)
    BY QueuePosts DEF Init
  <2>3. dm \in [Parts -> Nat] /\ disks \in Seq(Object)
    BY DEF Init
  <2>4. plugged \in BOOLEAN /\ loose \in BOOLEAN /\ leftover \in BOOLEAN
    BY DEF Init
  <2> QED
    BY <2>1, <2>2, <2>3, <2>4 DEF Init, Typed
<1>2. KeysKept
  <2>1. \A c \in Cards : table[c] \in TableOf({0})
    BY TablesAssumption DEF Init
  <2>2. \A c \in Cards : \A i \in DOMAIN table[c].parts : table[c].parts[i].guid = 0
    <3>1. TAKE c \in Cards
    <3>2. \A i \in DOMAIN table[c].parts : table[c].parts[i] \in [type : PartType, guid : {0}]
      BY <2>1, TableParts
    <3> QED
      BY <3>2
  <2> QED
    BY <2>2 DEF KeysKept
<1>3. FormatsAsked /\ JustSound /\ DmSound /\ ScanSound
  BY DEF Init, FormatsAsked, JustSound, DmSound, ScanSound
<1>4. PlugSound
  BY QueuePosts DEF Init, PlugSound
<1> QED
  BY <1>1, <1>2, <1>3, <1>4 DEF Ind

-----------------------------------------------------------------------------
(* Block events *)

\* What an object is after a scan that succeeds.
LEMMA ObjectRead ==
  ASSUME Typed, NEW d \in Object
  PROVE  LET r == readPartitions(readMetadata(d)) IN
         /\ r \in Object /\ ~r.skip
         /\ d.skip => r.just = d.just /\ r.size = d.size /\ r.vols = d.vols /\ r.owed = d.owed
                      /\ r.unread = d.unread
         /\ ~d.skip => r.vols = VolumesOnCard /\ r.size = card /\ ~r.just /\ ~r.owed /\ ~r.unread
<1>1. VolumesOnCard \in SUBSET Volume /\ card \in Cards \cup {NoCard}
  BY VolumesTyped DEF Typed
<1>2. CASE d.skip
  <2>1. readPartitions(readMetadata(d)) = [d EXCEPT !.skip = FALSE]
    BY <1>2 DEF readPartitions, readMetadata
  <2> QED
    BY <1>2, <2>1 DEF Object
<1>3. CASE ~d.skip
  <2>1. readMetadata(d) = [d EXCEPT !.size = card] /\ readMetadata(d) \in Object /\ ~readMetadata(d).skip
        /\ readMetadata(d).size = card
    BY <1>1, <1>3 DEF readMetadata, Object
  <2>2. readPartitions(readMetadata(d)) =
          [readMetadata(d) EXCEPT !.vols = VolumesOnCard, !.just = FALSE, !.owed = FALSE, !.unread = FALSE]
    BY <2>1 DEF readPartitions
  <2> HIDE DEF readMetadata
  <2>3. PICK e \in Object : e = readMetadata(d)
    BY <2>1
  <2> DEFINE r == [e EXCEPT !.vols = VolumesOnCard, !.just = FALSE, !.owed = FALSE, !.unread = FALSE]
  <2>4. r \in Object
    BY <1>1 DEF Object
  <2>5. r.vols = VolumesOnCard /\ r.skip = e.skip /\ r.size = e.size
    BY <1>1 DEF Object
  <2>6. ~r.just /\ ~r.owed /\ ~r.unread
    BY <1>1 DEF Object
  <2>7. readPartitions(readMetadata(d)) = r
    BY <2>2, <2>3
  <2>8. ~e.skip /\ e.size = card
    BY <2>1, <2>3
  <2> HIDE DEF r
  <2> QED
    BY <1>3, <2>4, <2>5, <2>6, <2>7, <2>8
<1> QED
  BY <1>2, <1>3

\* What an object may be after a scan that fails: unread, and of the rest nothing is set that
\* was not set before.
Unscanned(d, r, vols) ==
  /\ r \in Object /\ r.unread
  /\ (r.skip => d.skip) /\ (r.just => d.just /\ (d.owed => r.owed))
  /\ r.vols = vols


\* The three ways in which a scan fails: the number of minors is unknown, sgdisk fails, or a
\* mapping cannot be set up.
ReadNothing(d)   == [readMetadata(d) EXCEPT !.unread = TRUE]
ReadNoVolumes(d) ==
  [[readPartitions(readMetadata(d)) EXCEPT !.vols = IF readMetadata(d).skip THEN @ ELSE {}] EXCEPT !.unread = TRUE]
ReadUnmapped(d)  == [readPartitions(readMetadata(d)) EXCEPT !.unread = TRUE]

\* What an object is after each of them.
LEMMA ObjectFails ==
  ASSUME Typed, NEW d \in Object
  PROVE  /\ Unscanned(d, ReadNothing(d), d.vols)
         /\ Unscanned(d, ReadNoVolumes(d), IF d.skip THEN d.vols ELSE {})
         /\ Unscanned(d, ReadUnmapped(d), IF d.skip THEN d.vols ELSE VolumesOnCard)
<1>1. VolumesOnCard \in SUBSET Volume /\ card \in Cards \cup {NoCard}
  BY VolumesTyped DEF Typed
<1> DEFINE e == readMetadata(d)
           r == readPartitions(e)
<1>2. e \in Object /\ e.vols = d.vols /\ e.skip = d.skip /\ e.just = d.just /\ e.owed = d.owed
  BY <1>1 DEF readMetadata, Object
<1>3. /\ r \in Object /\ ~r.skip
      /\ d.skip => r.just = d.just /\ r.vols = d.vols /\ r.owed = d.owed
      /\ ~d.skip => r.vols = VolumesOnCard /\ ~r.just
  BY ObjectRead
<1> HIDE DEF e, r
<1>4. Unscanned(d, [e EXCEPT !.unread = TRUE], d.vols)
  BY <1>2 DEF Unscanned, Object
<1>5. Unscanned(d, [r EXCEPT !.unread = TRUE], IF d.skip THEN d.vols ELSE VolumesOnCard)
  BY <1>3 DEF Unscanned, Object
<1>6. Unscanned(d, [[r EXCEPT !.vols = IF e.skip THEN @ ELSE {}] EXCEPT !.unread = TRUE],
                IF d.skip THEN d.vols ELSE {})
  <2>1. CASE d.skip
    <3>1. [r EXCEPT !.vols = IF e.skip THEN @ ELSE {}] = r
      BY <1>2, <1>3, <2>1 DEF Object
    <3> QED
      BY <1>5, <2>1, <3>1
  <2>2. CASE ~d.skip
    <3> DEFINE s == [r EXCEPT !.vols = IF e.skip THEN @ ELSE {}]
    <3>1. s \in Object
      BY <1>3 DEF Object
    <3>2. s.skip = r.skip /\ s.just = r.just
      BY <1>3 DEF Object
    <3>3. s.vols = {}
      BY <1>2, <1>3, <2>2 DEF Object
    <3> HIDE DEF s
    <3>4. ~s.skip /\ ~s.just
      BY <1>3, <2>2, <3>2
    <3>5. Unscanned(d, [s EXCEPT !.unread = TRUE], {})
      BY <3>1, <3>3, <3>4 DEF Unscanned, Object
    <3> QED
      BY <2>2, <3>5 DEF s
  <2> QED
    BY <2>1, <2>2
<1> QED
  BY <1>4, <1>5, <1>6 DEF e, r, ReadNothing, ReadNoVolumes, ReadUnmapped

\* What a failing scan leaves of the objects.
LEMMA FailsPointwise ==
  ASSUME NEW others, NEW ds, ScanFails(others, ds)
  PROVE  \/ disks' = others \o [i \in DOMAIN ds |-> ReadNothing(ds[i])] /\ UNCHANGED <<dm, lost, leftover>>
         \/ /\ disks' = others \o [i \in DOMAIN ds |-> ReadNoVolumes(ds[i])]
            /\ dm' = doDestroy(Dropped(ds)) /\ UNCHANGED <<lost, leftover>>
         \/ /\ disks' = others \o [i \in DOMAIN ds |-> ReadUnmapped(ds[i])] /\ Formats(ds)
            /\ \/ dm' = doDestroy(Dropped(ds)) /\ leftover' = leftover
               \/ dm' = dm /\ leftover' = TRUE
  BY DEF ScanFails, ReadNothing, ReadNoVolumes, ReadUnmapped

\* An event concerns the objects, the mappings and the queue only.
LEMMA EventKeeps ==
  ASSUME Ind, EventRest, NEW event \in Event, Handles(event),
         disks' \in Seq(Object), dm' \in [Parts -> Nat], leftover' \in BOOLEAN
  PROVE  Typed' /\ KeysKept' /\ VolumesOnCard' = VolumesOnCard
<1>1. queue' \in Seq(Event)
  BY QueueTail DEF Handles, Ind, Typed
<1>2. Typed'
  BY <1>1 DEF Ind, Typed, EventRest
<1>3. KeysKept'
  BY DEF Ind, KeysKept, EventRest
<1>4. VolumesOnCard' = VolumesOnCard
  BY DEF VolumesOnCard, EventRest
<1> QED
  BY <1>2, <1>3, <1>4

\* One more object is scanned, or is unread.
LEMMA Added ==
  ASSUME Ind, EventRest, Handles("add"), NEW r \in Object, disks' = Append(disks, r),
         dm' \in [Parts -> Nat], leftover' \in BOOLEAN, FormatsAsked',
         ~r.skip, ~r.just, r.unread \/ (r.vols = VolumesOnCard /\ r.size = card /\ Mapped'),
         leftover => leftover', Mapped => Mapped',
         leftover' \/ \A i \in Parts : dm'[i] # 0 => Private(r.vols, i) # {} \/ dm[i] # 0
  PROVE  Ind'
<1>1. disks \in Seq(Object) /\ queue \in Seq(Event) /\ queue # <<>> /\ queue' = Tail(queue) /\ Head(queue) = "add"
  BY DEF Ind, Typed, Handles
<1>2. /\ disks' \in Seq(Object) /\ Len(disks) \in Nat /\ Len(disks') = Len(disks) + 1
      /\ \A i \in 1..Len(disks) : disks'[i] = disks[i]
      /\ disks'[Len(disks) + 1] = r /\ DOMAIN disks = 1..Len(disks) /\ DOMAIN disks' = 1..(Len(disks) + 1)
  BY <1>1
<1>3. Typed' /\ KeysKept' /\ VolumesOnCard' = VolumesOnCard
  BY <1>2, EventKeeps DEF Event
<1>4. UNCHANGED <<plugged, card, asked, loose>>
  BY DEF EventRest
<1>5. JustSound'
  BY <1>2, <1>4 DEF Ind, JustSound
<1>6. DmSound'
  <2>1. CASE leftover'
    BY <2>1 DEF DmSound
  <2>2. CASE ~leftover'
    <3>1. SUFFICES ASSUME NEW i \in Parts, dm'[i] # 0
                   PROVE  \E j \in DOMAIN disks' : Private(disks'[j].vols, i) # {}
      BY DEF DmSound
    <3>2. Private(r.vols, i) # {} \/ dm[i] # 0
      BY <2>2, <3>1
    <3>3. CASE Private(r.vols, i) # {}
      <4>1. Len(disks) + 1 \in DOMAIN disks'
        BY <1>2
      <4> QED
        BY <1>2, <3>3, <4>1
    <3>4. CASE dm[i] # 0
      <4>1. PICK j \in DOMAIN disks : Private(disks[j].vols, i) # {}
        BY <2>2, <3>4 DEF Ind, DmSound
      <4>2. j \in DOMAIN disks' /\ disks'[j] = disks[j]
        BY <1>2
      <4> QED
        BY <4>1, <4>2
    <3> QED
      BY <3>2, <3>3, <3>4
  <2> QED
    BY <2>1, <2>2
<1>7. PlugSound'
  <2>1. disks' # <<>>
    BY <1>2
  <2>2. /\ Settles(queue, "add", "remove") => Settles(queue', "add", "remove") \/ ~Has(queue', "remove")
        /\ Settles(queue, "remove", "add") => Settles(queue', "remove", "add")
        /\ Has(queue', "remove") => Has(queue, "remove")
        /\ Has(queue, "add")
    <3>1. 1 \in DOMAIN queue /\ queue[1] = "add"
      BY <1>1
    <3> QED
      BY <1>1, <3>1, QueueTail DEF Has
  <2> QED
    BY <1>4, <2>1, <2>2 DEF Ind, PlugSound
<1>8. ScanSound'
  <2>1. SUFFICES ASSUME NEW i \in DOMAIN disks'
                 PROVE  /\ i > 1 => ~disks'[i].skip
                        /\ disks'[1].unread \/ disks'[i].unread \/ Followed(disks[i])'
    BY DEF ScanSound
  <2>2. CASE i = Len(disks) + 1
    BY <1>2, <1>3, <1>4, <2>2 DEF Followed, Shows
  <2>3. CASE i \in DOMAIN disks
    <3>1. disks'[i] = disks[i] /\ disks'[1] = disks[1]
      BY <1>2, <2>3
    <3>2. PICK d : d = disks[i]
      OBVIOUS
    <3>3. (i > 1 => ~d.skip) /\ (disks[1].unread \/ d.unread \/ Followed(d))
      BY <2>3, <3>2 DEF Ind, ScanSound
    <3>4. Followed(d) => Followed(d)'
      <4>1. /\ Has(queue, "remove") => Has(queue', "remove")
            /\ Has(queue, "change") => Has(queue', "change")
            /\ TwoChanges(queue) => TwoChanges(queue')
        BY <1>1, QueueTail
      <4> QED
        BY <1>3, <1>4, <4>1 DEF Followed, Shows
    <3> QED
      BY <3>1, <3>2, <3>3, <3>4
  <2> QED
    BY <1>2, <2>2, <2>3
<1> QED
  BY <1>3, <1>5, <1>6, <1>7, <1>8 DEF Ind

\* Every object is scanned, skips the scan, or is unread.
LEMMA Changed ==
  ASSUME Ind, EventRest, Handles("change"), disks' \in Seq(Object), Len(disks') = Len(disks),
         dm' \in [Parts -> Nat], leftover' \in BOOLEAN, FormatsAsked', DmSound',
         \A i \in 1..Len(disks) :
           /\ disks'[i].just => disks[i].just /\ (disks[i].owed => disks'[i].owed)
           /\ disks'[i].skip => disks[i].skip
           /\ \/ disks'[i].unread
              \/ disks[i].skip /\ ~disks'[i].skip /\ ~disks[i].unread
              \/ ~disks[i].skip /\ disks'[i].vols = VolumesOnCard /\ disks'[i].size = card /\ Mapped'
  PROVE  Ind'
<1>1. disks \in Seq(Object) /\ queue \in Seq(Event) /\ queue # <<>> /\ queue' = Tail(queue) /\ Head(queue) = "change"
  BY DEF Ind, Typed, Handles
<1>2. DOMAIN disks = 1..Len(disks) /\ DOMAIN disks' = 1..Len(disks) /\ Len(disks) \in Nat
      /\ (disks = <<>> <=> disks' = <<>>)
  BY <1>1
<1>3. Typed' /\ KeysKept' /\ VolumesOnCard' = VolumesOnCard
  BY EventKeeps DEF Event
<1>4. UNCHANGED <<plugged, card, asked, loose>>
  BY DEF EventRest
<1>5. JustSound'
  BY <1>2, <1>4 DEF Ind, JustSound
<1>6. /\ Settles(queue, "add", "remove") => Settles(queue', "add", "remove")
      /\ Settles(queue, "remove", "add") => Settles(queue', "remove", "add")
      /\ Has(queue', "remove") <=> Has(queue, "remove")
      /\ Has(queue', "add") => Has(queue, "add")
      /\ TwoChanges(queue) => Has(queue', "change")
  BY <1>1, QueueTail
<1>7. PlugSound'
  BY <1>2, <1>4, <1>6 DEF Ind, PlugSound
<1>8. ScanSound'
  <2>1. SUFFICES ASSUME NEW i \in 1..Len(disks)
                 PROVE  /\ i > 1 => ~disks'[i].skip
                        /\ disks'[1].unread \/ disks'[i].unread \/ Followed(disks[i])'
    BY <1>2 DEF ScanSound
  <2>2. i > 1 => ~disks[i].skip /\ ~disks'[i].skip
    BY <1>2 DEF Ind, ScanSound
  <2>3. CASE disks'[i].unread
    BY <2>2, <2>3
  <2>4. CASE disks[i].skip /\ ~disks'[i].skip /\ ~disks[i].unread
    <3>1. i = 1
      BY <1>2, <2>2, <2>4
    <3>2. Followed(disks[1])
      BY <1>2, <2>4, <3>1 DEF Ind, ScanSound
    <3>3. Has(queue, "remove") \/ TwoChanges(queue)
      BY <2>4, <3>1, <3>2 DEF Followed, Shows
    <3> QED
      BY <1>6, <2>2, <2>4, <3>3 DEF Followed
  <2>5. CASE ~disks[i].skip /\ disks'[i].vols = VolumesOnCard /\ disks'[i].size = card /\ Mapped'
    <3>1. ~disks'[i].skip
      BY <2>5
    <3> QED
      BY <1>3, <1>4, <2>2, <2>5, <3>1 DEF Followed, Shows
  <2> QED
    BY <2>3, <2>4, <2>5
<1> QED
  BY <1>3, <1>5, <1>7, <1>8 DEF Ind

\* A new object is scanned for the first time.
LEMMA NewScanned ==
  /\ NewDisk \in Object /\ ~NewDisk.skip /\ ~NewDisk.just /\ NewDisk.vols = {}
  /\ ToSet(<<NewDisk>>) = {NewDisk} /\ Scanned(<<NewDisk>>) = {NewDisk} /\ Dropped(<<NewDisk>>) = {}
<1>1. NewDisk \in Object /\ ~NewDisk.skip /\ ~NewDisk.just /\ NewDisk.vols = {}
  BY DEF NewDisk, Object
<1>2. ToSet(<<NewDisk>>) = {NewDisk}
  BY DEF ToSet
<1>3. Scanned(<<NewDisk>>) = {NewDisk}
  BY <1>1, <1>2 DEF Scanned
<1> QED
  BY <1>1, <1>2, <1>3 DEF Dropped

\* A disk is announced: one more object is made, whether or not there is one.
LEMMA AddedStep ==
  ASSUME Ind, handleDiskAdded
  PROVE  Ind'
<1>0. Typed /\ disks \in Seq(Object) /\ leftover \in BOOLEAN /\ dm \in [Parts -> Nat]
      /\ Handles("add") /\ EventRest /\ loose' = loose /\ FormatsAsked
  BY DEF Ind, Typed, handleDiskAdded, EventRest
<1>1. VolumesOnCard' = VolumesOnCard
  BY <1>0 DEF EventRest, VolumesOnCard
<1>2. Formats(<<NewDisk>>) => lost' = lost
  BY NewScanned DEF Formats
<1>3. doDestroy(Dropped(<<NewDisk>>)) = dm
  BY <1>0, NewScanned DEF doDestroy, Private
<1>4. CASE Scan(disks, <<NewDisk>>)
  <2> DEFINE r == readPartitions(readMetadata(NewDisk))
             m == doCreate(doDestroy(Dropped(<<NewDisk>>)), VolumesOnCard)
  <2>1. r \in Object /\ ~r.skip /\ r.vols = VolumesOnCard /\ r.size = card /\ ~r.just
    BY <1>0, NewScanned, ObjectRead
  <2>2. disks' = Append(disks, r)
    <3>1. [i \in DOMAIN <<NewDisk>> |-> readPartitions(readMetadata(<<NewDisk>>[i]))] = <<r>>
      OBVIOUS
    <3> QED
      BY <1>4, <1>0, <2>1, <3>1 DEF Scan
  <2>3. dm' = m /\ leftover' = leftover /\ lost' = lost
    BY <1>2, <1>4, NewScanned DEF Scan
  <2>4. /\ m \in [Parts -> Nat]
        /\ \A v \in VolumesOnCard : v.kind = "private" => m[v.part] = v.guid
        /\ \A i \in Parts : Private(VolumesOnCard, i) = {} => m[i] = dm[i]
    BY <1>0, <1>3, CreatedDm
  <2> HIDE DEF r, m
  <2>5. Mapped'
    BY <1>1, <2>3, <2>4 DEF Mapped
  <2>6. \A i \in Parts : dm'[i] # 0 => Private(r.vols, i) # {} \/ dm[i] # 0
    BY <2>1, <2>3, <2>4
  <2>7. FormatsAsked'
    BY <1>0, <2>3 DEF FormatsAsked
  <2> QED
    BY <1>0, <2>1, <2>2, <2>3, <2>4, <2>5, <2>6, <2>7, Added
<1>5. CASE ScanFails(disks, <<NewDisk>>)
  <2>1. PICK r \in Object : disks' = Append(disks, r) /\ \E V : Unscanned(NewDisk, r, V)
    <3>1. PICK f : /\ \E V : Unscanned(NewDisk, f, V)
                   /\ disks' = disks \o <<f>>
      <4>1. /\ [i \in DOMAIN <<NewDisk>> |-> ReadNothing(<<NewDisk>>[i])] = <<ReadNothing(NewDisk)>>
            /\ [i \in DOMAIN <<NewDisk>> |-> ReadNoVolumes(<<NewDisk>>[i])] = <<ReadNoVolumes(NewDisk)>>
            /\ [i \in DOMAIN <<NewDisk>> |-> ReadUnmapped(<<NewDisk>>[i])] = <<ReadUnmapped(NewDisk)>>
        OBVIOUS
      <4>2. \/ disks' = disks \o <<ReadNothing(NewDisk)>>
            \/ disks' = disks \o <<ReadNoVolumes(NewDisk)>>
            \/ disks' = disks \o <<ReadUnmapped(NewDisk)>>
        <5>1. \/ disks' = disks \o [i \in DOMAIN <<NewDisk>> |-> ReadNothing(<<NewDisk>>[i])]
              \/ disks' = disks \o [i \in DOMAIN <<NewDisk>> |-> ReadNoVolumes(<<NewDisk>>[i])]
              \/ disks' = disks \o [i \in DOMAIN <<NewDisk>> |-> ReadUnmapped(<<NewDisk>>[i])]
          BY <1>5, FailsPointwise
        <5> QED
          BY <4>1, <5>1
      <4>3. /\ \E V : Unscanned(NewDisk, ReadNothing(NewDisk), V)
            /\ \E V : Unscanned(NewDisk, ReadNoVolumes(NewDisk), V)
            /\ \E V : Unscanned(NewDisk, ReadUnmapped(NewDisk), V)
        BY <1>0, NewScanned, ObjectFails
      <4> QED
        BY <4>2, <4>3
    <3> QED
      BY <1>0, <3>1 DEF Unscanned
  <2>2. ~r.skip /\ ~r.just /\ r.unread
    BY <2>1, NewScanned DEF Unscanned
  <2>3. dm' = dm /\ leftover' \in BOOLEAN /\ (leftover => leftover') /\ lost' = lost
    <3>1. dm' = dm /\ lost' = lost
      BY <1>2, <1>3, <1>5 DEF ScanFails
    <3>2. leftover' = leftover \/ leftover' = TRUE
      BY <1>5 DEF ScanFails
    <3> QED
      BY <1>0, <3>1, <3>2
  <2>4. FormatsAsked' /\ (Mapped => Mapped')
    BY <1>0, <1>1, <2>3 DEF FormatsAsked, Mapped
  <2> QED
    BY <1>0, <2>1, <2>2, <2>3, <2>4, Added
<1> QED
  BY <1>4, <1>5 DEF handleDiskAdded

\* A card is formatted only if it was asked for, or after a call that failed.
LEMMA FormatsSound ==
  ASSUME Ind, Formats(disks), loose' = loose
  PROVE  FormatsAsked'
<1>1. CASE lost' = lost
  BY <1>1 DEF Ind, FormatsAsked
<1>2. CASE card \notin asked /\ \E d \in Scanned(disks) : d.just
  <2>1. PICK d \in ToSet(disks) : d.just
    BY <1>2 DEF Scanned
  <2>2. PICK i \in DOMAIN disks : d = disks[i]
    BY <2>1 DEF ToSet
  <2> QED
    BY <1>2, <2>1, <2>2 DEF Ind, JustSound, FormatsAsked
<1> QED
  BY <1>1, <1>2 DEF Formats

\* The mappings after the objects that do not skip the scan have dropped their volumes.
LEMMA DmAfter ==
  ASSUME Ind, leftover' = leftover, DOMAIN disks' = DOMAIN disks,
         \A j \in DOMAIN disks : disks[j].skip => disks'[j].vols = disks[j].vols,
         \A i \in Parts : dm'[i] # 0 =>
           \/ \E j \in DOMAIN disks : Private(disks'[j].vols, i) # {}
           \/ dm[i] # 0 /\ Private(Dropped(disks), i) = {}
  PROVE  DmSound'
<1>1. SUFFICES ASSUME ~leftover, NEW i \in Parts, dm[i] # 0, Private(Dropped(disks), i) = {}
               PROVE  \E j \in DOMAIN disks : Private(disks'[j].vols, i) # {}
  BY DEF DmSound
<1>2. PICK j \in DOMAIN disks : Private(disks[j].vols, i) # {}
  BY <1>1 DEF Ind, DmSound
<1>3. disks[j].skip
  <2>1. SUFFICES ASSUME ~disks[j].skip PROVE FALSE
    OBVIOUS
  <2>2. disks[j] \in Scanned(disks)
    BY <2>1 DEF Scanned, ToSet
  <2>3. disks[j].vols \subseteq Dropped(disks)
    BY <2>2 DEF Dropped
  <2> QED
    BY <1>1, <1>2, <2>3 DEF Private
<1> QED
  BY <1>2, <1>3

\* An object for each that there was.
LEMMA SameLength ==
  ASSUME NEW s \in Seq(Object), NEW f, DOMAIN f = DOMAIN s, \A i \in DOMAIN s : f[i] \in Object,
         f = [i \in DOMAIN s |-> f[i]]
  PROVE  <<>> \o f = f /\ f \in Seq(Object) /\ Len(f) = Len(s)
<1>1. DOMAIN s = 1..Len(s) /\ Len(s) \in Nat
  OBVIOUS
<1>2. f \in [1..Len(s) -> Object]
  BY <1>1
<1>3. f \in Seq(Object) /\ Len(f) = Len(s)
  BY <1>1, <1>2
<1> QED
  BY <1>3

\* A scan that succeeds, object by object.
ReadAll(d) == readPartitions(readMetadata(d))

\* A change whose scans succeed.
LEMMA ChangedScanStep ==
  ASSUME Ind, Handles("change"), EventRest, Scan(<<>>, disks)
  PROVE  Ind'
<1>0. Typed /\ disks \in Seq(Object) /\ leftover \in BOOLEAN /\ dm \in [Parts -> Nat] /\ loose' = loose
      /\ DOMAIN disks = 1..Len(disks) /\ \A i \in DOMAIN disks : disks[i] \in Object
  BY DEF Ind, Typed, EventRest
<1>1. VolumesOnCard' = VolumesOnCard
  BY DEF EventRest, VolumesOnCard
<1> DEFINE f == [i \in DOMAIN disks |-> ReadAll(disks[i])]
           m == doCreate(doDestroy(Dropped(disks)), VolumesOnCard)
<1>2. \A i \in DOMAIN disks : LET r == f[i] IN
         /\ r \in Object /\ ~r.skip
         /\ disks[i].skip => r.just = disks[i].just /\ r.vols = disks[i].vols /\ r.owed = disks[i].owed
                             /\ r.unread = disks[i].unread
         /\ ~disks[i].skip => r.vols = VolumesOnCard /\ r.size = card /\ ~r.just /\ ~r.owed /\ ~r.unread
  BY <1>0, ObjectRead DEF ReadAll
<1>3. <<>> \o f = f /\ f \in Seq(Object) /\ Len(f) = Len(disks) /\ DOMAIN f = DOMAIN disks
  BY <1>0, <1>2, SameLength
<1>4. disks' = f
  <2>1. disks' = <<>> \o f
    BY DEF Scan, ReadAll
  <2> QED
    BY <1>3, <2>1
<1>5. dm' = (IF Scanned(disks) = {} THEN dm ELSE m) /\ leftover' = leftover /\ Formats(disks)
  BY DEF Scan
<1>6. /\ m \in [Parts -> Nat]
      /\ \A v \in VolumesOnCard : v.kind = "private" => m[v.part] = v.guid
      /\ \A i \in Parts : Private(VolumesOnCard, i) = {} =>
           m[i] = IF Private(Dropped(disks), i) # {} THEN 0 ELSE dm[i]
  <2> DEFINE z == doDestroy(Dropped(disks))
  <2>1. /\ z \in [Parts -> Nat]
        /\ \A i \in Parts : z[i] = IF Private(Dropped(disks), i) # {} THEN 0 ELSE dm[i]
    BY <1>0, DestroyedDm
  <2> HIDE DEF z
  <2>2. /\ doCreate(z, VolumesOnCard) \in [Parts -> Nat]
        /\ \A v \in VolumesOnCard : v.kind = "private" => doCreate(z, VolumesOnCard)[v.part] = v.guid
        /\ \A i \in Parts : Private(VolumesOnCard, i) = {} => doCreate(z, VolumesOnCard)[i] = z[i]
    BY <1>0, <2>1, CreatedDm
  <2>3. m = doCreate(z, VolumesOnCard)
    BY DEF z
  <2> HIDE DEF m
  <2> QED
    BY <2>1, <2>2, <2>3
<1> HIDE DEF f, m
<1>7. FormatsAsked'
  BY <1>0, <1>5, FormatsSound
<1>8. \A i \in DOMAIN disks : ~disks[i].skip => Scanned(disks) # {}
  BY DEF Scanned, ToSet
<1>9. Scanned(disks) # {} => Mapped'
  BY <1>1, <1>5, <1>6 DEF Mapped
<1>10. DmSound'
  <2>1. \A i \in Parts : dm'[i] # 0 =>
           \/ \E j \in DOMAIN disks : Private(disks'[j].vols, i) # {}
           \/ dm[i] # 0 /\ Private(Dropped(disks), i) = {}
    <3>1. CASE Scanned(disks) = {}
      <4>1. Dropped(disks) = {}
        BY <3>1 DEF Dropped
      <4> QED
        BY <1>5, <3>1, <4>1 DEF Private
    <3>2. CASE Scanned(disks) # {}
      <4>1. PICK j \in DOMAIN disks : ~disks[j].skip
        BY <3>2 DEF Scanned, ToSet
      <4>2. disks'[j].vols = VolumesOnCard
        BY <1>2, <1>4, <4>1
      <4> QED
        BY <1>5, <1>6, <3>2, <4>2
    <3> QED
      BY <3>1, <3>2
  <2>2. \A j \in DOMAIN disks : disks[j].skip => disks'[j].vols = disks[j].vols
    BY <1>2, <1>4
  <2> QED
    BY <1>3, <1>4, <1>5, <2>1, <2>2, DmAfter
<1>11. dm' \in [Parts -> Nat]
  BY <1>0, <1>5, <1>6
<1>12. \A i \in 1..Len(disks) :
           /\ disks'[i].just => disks[i].just /\ (disks[i].owed => disks'[i].owed)
           /\ disks'[i].skip => disks[i].skip
           /\ \/ disks'[i].unread
              \/ disks[i].skip /\ ~disks'[i].skip /\ ~disks[i].unread
              \/ ~disks[i].skip /\ disks'[i].vols = VolumesOnCard /\ disks'[i].size = card /\ Mapped'
  <2>1. TAKE i \in 1..Len(disks)
  <2>2. CASE disks[i].skip
    BY <1>0, <1>2, <1>4, <2>2
  <2>3. CASE ~disks[i].skip
    BY <1>0, <1>2, <1>4, <1>8, <1>9, <2>3
  <2> QED
    BY <2>2, <2>3
<1> QED
  BY <1>0, <1>3, <1>4, <1>5, <1>7, <1>10, <1>11, <1>12, Changed

\* A change whose scans fail: what is wrong with an object is recorded in it.
LEMMA ChangedFailsStep ==
  ASSUME Ind, Handles("change"), EventRest, ScanFails(<<>>, disks)
  PROVE  Ind'
<1>0. Typed /\ disks \in Seq(Object) /\ leftover \in BOOLEAN /\ dm \in [Parts -> Nat] /\ loose' = loose
      /\ DOMAIN disks = 1..Len(disks) /\ \A i \in DOMAIN disks : disks[i] \in Object
  BY DEF Ind, Typed, EventRest
<1> DEFINE f1 == [i \in DOMAIN disks |-> ReadNothing(disks[i])]
           f2 == [i \in DOMAIN disks |-> ReadNoVolumes(disks[i])]
           f3 == [i \in DOMAIN disks |-> ReadUnmapped(disks[i])]
           Fails(f) == /\ DOMAIN f = DOMAIN disks
                       /\ \A i \in DOMAIN disks : \E V : Unscanned(disks[i], f[i], V)
                       /\ \A i \in DOMAIN disks : disks[i].skip => f[i].vols = disks[i].vols
                       /\ <<>> \o f = f /\ f \in Seq(Object) /\ Len(f) = Len(disks)
<1>1. Fails(f1) /\ Fails(f2) /\ Fails(f3)
  <2>1. \A i \in DOMAIN disks : /\ Unscanned(disks[i], f1[i], disks[i].vols)
                                /\ Unscanned(disks[i], f2[i], IF disks[i].skip THEN disks[i].vols ELSE {})
                                /\ Unscanned(disks[i], f3[i], IF disks[i].skip THEN disks[i].vols ELSE VolumesOnCard)
    BY <1>0, ObjectFails
  <2>2. \A i \in DOMAIN disks : /\ f1[i] \in Object /\ f2[i] \in Object /\ f3[i] \in Object
                                /\ disks[i].skip => /\ f1[i].vols = disks[i].vols
                                                    /\ f2[i].vols = disks[i].vols
                                                    /\ f3[i].vols = disks[i].vols
    BY <2>1 DEF Unscanned
  <2>3. <<>> \o f1 = f1 /\ f1 \in Seq(Object) /\ Len(f1) = Len(disks)
    BY <1>0, <2>2, SameLength
  <2>4. <<>> \o f2 = f2 /\ f2 \in Seq(Object) /\ Len(f2) = Len(disks)
    BY <1>0, <2>2, SameLength
  <2>5. <<>> \o f3 = f3 /\ f3 \in Seq(Object) /\ Len(f3) = Len(disks)
    BY <1>0, <2>2, SameLength
  <2>6. DOMAIN f1 = DOMAIN disks /\ DOMAIN f2 = DOMAIN disks /\ DOMAIN f3 = DOMAIN disks
    OBVIOUS
  <2> HIDE DEF f1, f2, f3
  <2> QED
    BY <2>1, <2>2, <2>3, <2>4, <2>5, <2>6
<1>2. PICK f : /\ Fails(f) /\ disks' = <<>> \o f
               /\ \/ f = f1 /\ UNCHANGED <<dm, lost, leftover>>
                  \/ dm' = doDestroy(Dropped(disks)) /\ leftover' = leftover
                  \/ leftover' = TRUE /\ dm' = dm
               /\ lost' = lost \/ Formats(disks)
  <2> HIDE DEF f1, f2, f3, Fails
  <2>1. \/ disks' = <<>> \o f1 /\ UNCHANGED <<dm, lost, leftover>>
        \/ disks' = <<>> \o f2 /\ dm' = doDestroy(Dropped(disks)) /\ UNCHANGED <<lost, leftover>>
        \/ /\ disks' = <<>> \o f3 /\ Formats(disks)
           /\ \/ dm' = doDestroy(Dropped(disks)) /\ leftover' = leftover
              \/ dm' = dm /\ leftover' = TRUE
    BY FailsPointwise DEF f1, f2, f3
  <2> QED
    BY <1>1, <2>1
<1>3. disks' = f
  BY <1>2
<1>4. \A i \in DOMAIN disks : /\ disks'[i].unread /\ (disks'[i].skip => disks[i].skip)
                              /\ disks'[i].just => disks[i].just /\ (disks[i].owed => disks'[i].owed)
  BY <1>2, <1>3 DEF Unscanned
<1>5. FormatsAsked'
  <2>1. CASE lost' = lost
    BY <1>0, <2>1 DEF Ind, FormatsAsked
  <2> QED
    BY <1>0, <1>2, <2>1, FormatsSound
<1>6. dm' \in [Parts -> Nat] /\ leftover' \in BOOLEAN
  <2>1. dm' = dm \/ dm' = doDestroy(Dropped(disks))
    BY <1>2
  <2>2. leftover' = leftover \/ leftover' = TRUE
    BY <1>2
  <2> QED
    BY <1>0, <2>1, <2>2, DestroyedDm
<1>7. DmSound'
  <2>1. CASE leftover' = TRUE
    BY <2>1 DEF DmSound
  <2>2. CASE f = f1 /\ UNCHANGED <<dm, leftover>>
    <3>1. \A i \in DOMAIN disks : Unscanned(disks[i], disks'[i], disks[i].vols)
      BY <1>0, <1>3, <2>2, ObjectFails
    <3>2. \A i \in DOMAIN disks : disks'[i].vols = disks[i].vols
      BY <3>1 DEF Unscanned
    <3>3. DOMAIN disks' = DOMAIN disks
      BY <1>2, <1>3
    <3> HIDE DEF f1
    <3> QED
      BY <2>2, <3>2, <3>3 DEF Ind, DmSound
  <2>3. CASE dm' = doDestroy(Dropped(disks)) /\ leftover' = leftover
    <3>1. \A i \in Parts : dm'[i] # 0 => dm[i] # 0 /\ Private(Dropped(disks), i) = {}
      BY <1>0, <2>3, DestroyedDm
    <3>2. DOMAIN disks' = DOMAIN disks /\ \A j \in DOMAIN disks : disks[j].skip => disks'[j].vols = disks[j].vols
      BY <1>2, <1>3
    <3> QED
      BY <2>3, <3>1, <3>2, DmAfter
  <2> QED
    BY <1>2, <2>1, <2>2, <2>3
<1>8. disks' \in Seq(Object) /\ Len(disks') = Len(disks)
  BY <1>2, <1>3
<1> QED
  BY <1>0, <1>4, <1>5, <1>6, <1>7, <1>8, Changed

\* The disk changes: each of its objects is scanned again.
LEMMA ChangedStep ==
  ASSUME Ind, handleDiskChanged
  PROVE  Ind'
  BY ChangedScanStep, ChangedFailsStep DEF handleDiskChanged

\* The disk goes: nothing of it is left, but for a mapping that was busy.
LEMMA RemovedStep ==
  ASSUME Ind, handleDiskRemoved
  PROVE  Ind'
<1>1. /\ Typed /\ queue \in Seq(Event) /\ queue # <<>> /\ Head(queue) = "remove" /\ queue' = Tail(queue)
      /\ Handles("remove") /\ EventRest /\ leftover \in BOOLEAN /\ dm \in [Parts -> Nat]
  BY DEF Ind, Typed, handleDiskRemoved, Handles
<1>2. disks' = <<>> /\ disks' \in Seq(Object) /\ DOMAIN disks' = {}
  BY DEF handleDiskRemoved, RemainingDisks
<1>3. UNCHANGED <<plugged, lost, loose>>
  BY DEF handleDiskRemoved, EventRest
<1>4. \/ dm' = doDestroy(AllVolumes(disks)) /\ leftover' = leftover
      \/ dm' = dm /\ leftover' = TRUE
  BY DEF handleDiskRemoved
<1>5. dm' \in [Parts -> Nat] /\ leftover' \in BOOLEAN
  <2>1. dm' = dm \/ dm' = doDestroy(AllVolumes(disks))
    BY <1>4
  <2>2. leftover' = leftover \/ leftover' = TRUE
    BY <1>4
  <2> QED
    BY <1>1, <2>1, <2>2, DestroyedDm
<1>6. Typed' /\ KeysKept'
  BY <1>1, <1>2, <1>5, EventKeeps DEF Event
<1>7. FormatsAsked' /\ JustSound' /\ ScanSound'
  BY <1>2, <1>3 DEF Ind, FormatsAsked, JustSound, ScanSound
<1>8. DmSound'
  <2>1. CASE leftover' = TRUE
    BY <2>1 DEF DmSound
  <2>2. CASE ~leftover /\ dm' = doDestroy(AllVolumes(disks))
    <3>1. SUFFICES ASSUME NEW i \in Parts, dm'[i] # 0 PROVE FALSE
      BY DEF DmSound
    <3>2. dm[i] # 0 /\ Private(AllVolumes(disks), i) = {}
      BY <1>1, <2>2, <3>1, DestroyedDm
    <3>3. PICK j \in DOMAIN disks : Private(disks[j].vols, i) # {}
      BY <2>2, <3>2 DEF Ind, DmSound
    <3>4. disks[j].vols \subseteq AllVolumes(disks)
      BY DEF AllVolumes, ToSet
    <3> QED
      BY <3>2, <3>3, <3>4 DEF Private
  <2> QED
    BY <1>1, <1>4, <2>1, <2>2
<1>9. PlugSound'
  <2>1. Has(queue, "remove")
    <3>1. 1 \in DOMAIN queue /\ queue[1] = "remove"
      BY <1>1
    <3> QED
      BY <3>1 DEF Has
  <2>2. /\ Settles(queue, "add", "remove") => Settles(queue', "add", "remove")
        /\ Settles(queue, "remove", "add") => Settles(queue', "remove", "add") \/ ~Has(queue', "add")
        /\ Has(queue', "add") => Has(queue, "add")
    BY <1>1, QueueTail
  <2> QED
    BY <1>2, <1>3, <2>1, <2>2 DEF Ind, PlugSound
<1> QED
  BY <1>6, <1>7, <1>8, <1>9 DEF Ind

-----------------------------------------------------------------------------
(* The device *)

\* Another card, or none: the event that tells of it is queued.
LEMMA ExchangeStep ==
  ASSUME Ind, NEW c \in Cards \cup {NoCard}, Exchange(c)
  PROVE  Ind'
<1>1. /\ queue \in Seq(Event) /\ queue' = queue \o <<"change">> /\ card' = c
      /\ loose' = (loose \/ Owed) /\ asked' = asked \ {c}
      /\ UNCHANGED <<plugged, table, keys, disks, dm, guids, lost, leftover, forgotten>>
  BY DEF Ind, Typed, Exchange, Post
<1>2. /\ queue' \in Seq(Event) /\ Has(queue', "change")
      /\ Has(queue, "remove") => Has(queue', "remove")
      /\ TwoChanges(queue) => TwoChanges(queue')
      /\ Has(queue', "add") => Has(queue, "add")
      /\ Has(queue', "remove") => Has(queue, "remove")
      /\ Settles(queue, "add", "remove") => Settles(queue', "add", "remove")
      /\ Settles(queue, "remove", "add") => Settles(queue', "remove", "add")
  BY <1>1, QueueAppend, QueuePosts
<1>3. Typed'
  <2>1. loose' \in BOOLEAN
    BY <1>1 DEF Ind, Typed
  <2> QED
    BY <1>1, <1>2, <2>1 DEF Ind, Typed
<1>4. KeysKept' /\ FormatsAsked' /\ DmSound' /\ PlugSound'
  <2>1. KeysKept'
    BY <1>1 DEF Ind, KeysKept
  <2>2. FormatsAsked'
    BY <1>1 DEF Ind, FormatsAsked
  <2>3. DmSound'
    BY <1>1 DEF Ind, DmSound
  <2>4. PlugSound'
    BY <1>1, <1>2 DEF Ind, PlugSound
  <2> QED
    BY <2>1, <2>2, <2>3, <2>4
<1>5. JustSound'
  BY <1>1 DEF Ind, JustSound, Owed
<1>6. ScanSound'
  <2>1. SUFFICES ASSUME NEW i \in DOMAIN disks
                 PROVE  /\ i > 1 => ~disks[i].skip
                        /\ disks[1].unread \/ disks[i].unread \/ Followed(disks[i])'
    BY <1>1 DEF ScanSound
  <2>2. (i > 1 => ~disks[i].skip) /\ (disks[1].unread \/ disks[i].unread \/ Followed(disks[i]))
    BY DEF Ind, ScanSound
  <2>3. Followed(disks[i]) => Followed(disks[i])'
    BY <1>1, <1>2 DEF Followed, Shows
  <2> QED
    BY <2>2, <2>3
<1> QED
  BY <1>3, <1>4, <1>5, <1>6 DEF Ind

\* The reader is taken away: the objects that there are will be destroyed.
LEMMA UnplugStep ==
  ASSUME Ind, Unplug
  PROVE  Ind'
<1>1. /\ queue \in Seq(Event) /\ queue' = queue \o <<"remove">> /\ plugged' = FALSE
      /\ UNCHANGED <<card, table, keys, disks, dm, guids, asked, lost, loose, leftover, forgotten>>
  BY DEF Ind, Typed, Unplug, Post, history
<1>2. /\ queue' \in Seq(Event) /\ Has(queue', "remove") /\ Settles(queue', "remove", "add")
  BY <1>1, QueueAppend, QueuePosts
<1>3. Typed'
  <2>1. plugged' \in BOOLEAN
    BY <1>1
  <2> QED
    BY <1>1, <1>2, <2>1 DEF Ind, Typed
<1>4. KeysKept'
  BY <1>1 DEF Ind, KeysKept
<1>5. FormatsAsked'
  BY <1>1 DEF Ind, FormatsAsked
<1>6. JustSound' /\ DmSound'
  BY <1>1 DEF Ind, JustSound, DmSound
<1>7. PlugSound'
  BY <1>1, <1>2 DEF PlugSound
<1>8. ScanSound'
  BY <1>1, <1>2 DEF Ind, ScanSound, Followed
<1> QED
  BY <1>3, <1>4, <1>5, <1>6, <1>7, <1>8 DEF Ind

\* The reader is attached: what there still is of it will be destroyed first.
LEMMA PlugStep ==
  ASSUME Ind, Plug
  PROVE  Ind'
<1>1. /\ queue \in Seq(Event) /\ queue' = queue \o <<"add">> /\ ~plugged /\ plugged' = TRUE
      /\ UNCHANGED <<card, table, keys, disks, dm, guids, asked, lost, loose, leftover, forgotten>>
  BY DEF Ind, Typed, Plug, Post, history
<1>2. /\ queue' \in Seq(Event) /\ Settles(queue', "add", "remove")
      /\ Has(queue, "remove") => Has(queue', "remove")
  BY <1>1, QueueAppend, QueuePosts
<1>3. Typed'
  <2>1. plugged' \in BOOLEAN
    BY <1>1
  <2> QED
    BY <1>1, <1>2, <2>1 DEF Ind, Typed
<1>4. KeysKept'
  BY <1>1 DEF Ind, KeysKept
<1>5. FormatsAsked'
  BY <1>1 DEF Ind, FormatsAsked
<1>6. JustSound' /\ DmSound'
  BY <1>1 DEF Ind, JustSound, DmSound
<1>7. PlugSound'
  BY <1>1, <1>2 DEF PlugSound
<1>8. ScanSound'
  <2>1. Has(queue, "remove") \/ disks = <<>>
    BY <1>1 DEF Ind, PlugSound, Settles, Has
  <2>2. CASE Has(queue, "remove")
    BY <1>1, <1>2, <2>2 DEF Ind, ScanSound, Followed
  <2>3. CASE disks = <<>>
    BY <1>1, <2>3 DEF ScanSound
  <2> QED
    BY <2>1, <2>2, <2>3
<1> QED
  BY <1>3, <1>4, <1>5, <1>6, <1>7, <1>8 DEF Ind

\* vold starts anew: a mapping that there was is left over.
LEMMA RestartStep ==
  ASSUME Ind, Restart
  PROVE  Ind'
<1>1. /\ disks' = <<>> /\ leftover' = (leftover \/ \E i \in Parts : dm[i] # 0)
      /\ queue' \in IF plugged THEN {<<"add">>, <<"add", "add">>} ELSE {<<>>}
      /\ UNCHANGED <<plugged, card, table, keys, dm, guids, asked, lost, loose, forgotten>>
  BY DEF Restart
<1>2. disks' \in Seq(Object) /\ DOMAIN disks' = {}
  BY <1>1
<1>3. queue' \in Seq(Event) /\ PlugSound'
  <2>1. CASE plugged
    BY <1>1, <2>1, QueuePosts DEF PlugSound
  <2>2. CASE ~plugged
    BY <1>1, <2>2, QueuePosts DEF PlugSound
  <2> QED
    BY <2>1, <2>2
<1>4. Typed'
  <2>1. leftover' \in BOOLEAN
    BY <1>1 DEF Ind, Typed
  <2> QED
    BY <1>1, <1>2, <1>3, <2>1 DEF Ind, Typed
<1>5. KeysKept'
  BY <1>1 DEF Ind, KeysKept
<1>6. FormatsAsked' /\ JustSound' /\ ScanSound'
  BY <1>1, <1>2 DEF Ind, FormatsAsked, JustSound, ScanSound
<1>7. DmSound'
  BY <1>1 DEF Ind, DmSound
<1> QED
  BY <1>3, <1>4, <1>5, <1>6, <1>7 DEF Ind

-----------------------------------------------------------------------------
(* Partitioning *)

\* A key is forgotten that no partition of the card and no volume has.
LEMMA ForgetStep ==
  ASSUME Ind, NEW g \in keys, forgetPartition(g)
  PROVE  Ind'
<1>1. /\ card # NoCard => \A i \in DOMAIN table[card].parts : table[card].parts[i].guid # g
      /\ keys' = keys \ {g} /\ forgotten' = forgotten \cup {g}
      /\ UNCHANGED <<plugged, card, table, disks, dm, queue, guids, asked, lost, loose, leftover>>
  BY DEF forgetPartition
<1>2. Typed'
  BY <1>1 DEF Ind, Typed
<1>3. KeysKept'
  <2>1. keys' \cup forgotten' = keys \cup forgotten
    BY <1>1
  <2> QED
    BY <1>1, <2>1 DEF Ind, KeysKept
<1>4. VolumesOnCard' = VolumesOnCard
  <2>1. CASE card = NoCard \/ ~plugged
    BY <1>1, <2>1 DEF VolumesOnCard
  <2>2. CASE card # NoCard /\ plugged
    <3> DEFINE ps == table[card].parts
    <3>1. {j \in DOMAIN ps : ps[j].type = "expand" /\ ps[j].guid \in keys \ {g}}
            = {j \in DOMAIN ps : ps[j].type = "expand" /\ ps[j].guid \in keys}
      BY <1>1, <2>2
    <3> QED
      BY <1>1, <2>2, <3>1 DEF VolumesOnCard
  <2> QED
    BY <2>1, <2>2
<1>5. FormatsAsked' /\ JustSound' /\ DmSound' /\ PlugSound'
  BY <1>1 DEF Ind, FormatsAsked, JustSound, DmSound, PlugSound
<1>6. ScanSound'
  BY <1>1, <1>4 DEF Ind, ScanSound, Followed, Shows, Mapped
<1> QED
  BY <1>2, <1>3, <1>5, <1>6 DEF Ind

\* A call has succeeded when the table is there; the key is stored before it.
LEMMA StepsTaken ==
  ASSUME NEW kind \in {"public", "mixed"}, NEW n \in 0..Len(Steps(kind))
  PROVE  /\ Len(Steps(kind)) \in Nat
         /\ (\E i \in 1..n : Steps(kind)[i] = "table") <=> n = Len(Steps(kind))
         /\ n = Len(Steps(kind)) => n > 0
         /\ (\E i \in 1..n : Steps(kind)[i] = "key") => kind = "mixed"
         /\ n = Len(Steps(kind)) /\ kind = "mixed" => \E i \in 1..n : Steps(kind)[i] = "key"
<1>1. CASE kind = "public"
  <2>1. Steps(kind) = <<"zap", "table">>
    BY <1>1 DEF Steps
  <2>2. Len(Steps(kind)) = 2 /\ Steps(kind)[1] = "zap" /\ Steps(kind)[2] = "table" /\ n \in 0..2
    BY <2>1
  <2>3. (\A i \in 1..n : i = 1 \/ i = 2) /\ (2 \in 1..n <=> n = 2)
    BY <2>2
  <2>4. PICK s : s = Steps(kind)
    OBVIOUS
  <2>5. Len(s) = 2 /\ s[1] = "zap" /\ s[2] = "table"
    BY <2>2, <2>4
  <2>6. \A i \in 1..n : s[i] # "key" /\ (s[i] = "table" => i = 2)
    BY <2>3, <2>5
  <2>7. (\E i \in 1..n : s[i] = "table") <=> n = 2
    BY <2>3, <2>5, <2>6
  <2>8. ~(\E i \in 1..n : s[i] = "key") /\ (n = 2 => n > 0) /\ Len(s) \in Nat
    BY <2>5, <2>6
  <2> QED
    BY <1>1, <2>4, <2>5, <2>7, <2>8
<1>2. CASE kind = "mixed"
  <2>1. Steps(kind) = <<"zap", "key", "table">>
    BY <1>2 DEF Steps
  <2>2. /\ Len(Steps(kind)) = 3 /\ n \in 0..3
        /\ Steps(kind)[1] = "zap" /\ Steps(kind)[2] = "key" /\ Steps(kind)[3] = "table"
    BY <2>1
  <2>3. (\A i \in 1..n : i = 1 \/ i = 2 \/ i = 3) /\ (3 \in 1..n <=> n = 3) /\ (n = 3 => 2 \in 1..n)
    BY <2>2
  <2>4. PICK s : s = Steps(kind)
    OBVIOUS
  <2>5. Len(s) = 3 /\ s[1] = "zap" /\ s[2] = "key" /\ s[3] = "table"
    BY <2>2, <2>4
  <2>6. \A i \in 1..n : s[i] = "table" => i = 3
    BY <2>3, <2>5
  <2>7. (\E i \in 1..n : s[i] = "table") <=> n = 3
    BY <2>3, <2>5, <2>6
  <2>8. (n = 3 => \E i \in 1..n : s[i] = "key") /\ (n = 3 => n > 0) /\ Len(s) \in Nat
    BY <2>3, <2>5
  <2> QED
    BY <1>2, <2>4, <2>5, <2>7, <2>8
<1> QED
  BY <1>1, <1>2

\* Short sequences that are put together.
LEMMA Joined ==
  ASSUME NEW a, NEW b, NEW c
  PROVE  /\ <<>> \o <<>> = <<>> /\ <<a>> \o <<>> = <<a>> /\ <<>> \o <<a>> = <<a>> /\ <<>> \o <<b, c>> = <<b, c>>
         /\ <<a>> \o <<b>> = <<a, b>> /\ <<a>> \o <<b, c>> = <<a, b, c>>
<1> DEFINE S == {a, b, c}
<1>1. /\ <<>> \in Seq(S) /\ <<a>> \in Seq(S) /\ <<b>> \in Seq(S) /\ <<a, b>> \in Seq(S)
      /\ <<b, c>> \in Seq(S) /\ <<a, b, c>> \in Seq(S)
  OBVIOUS
<1>2. <<>> \o <<>> = <<>> /\ <<a>> \o <<>> = <<a>> /\ <<>> \o <<a>> = <<a>> /\ <<>> \o <<b, c>> = <<b, c>>
  BY <1>1, ConcatEmptySeq
<1>3. <<a>> \o <<b>> = <<a, b>>
  <2>1. /\ <<a>> \o <<b>> \in Seq(S) /\ Len(<<a>> \o <<b>>) = 2 
        /\ (<<a>> \o <<b>>)[1] = a /\ (<<a>> \o <<b>>)[2] = b
    BY <1>1
  <2>2. PICK s \in Seq(S), t \in Seq(S) : s = <<a>> \o <<b>> /\ t = <<a, b>>
    BY <1>1, <2>1
  <2>3. Len(s) = 2 /\ Len(t) = 2 /\ s[1] = a /\ s[2] = b /\ t[1] = a /\ t[2] = b
    BY <2>1, <2>2
  <2>4. \A i \in 1..Len(s) : s[i] = t[i]
    BY <2>3
  <2>5. s = t
    BY <2>3, <2>4, SeqEqual
  <2> QED
    BY <2>2, <2>5
<1>4. <<a>> \o <<b, c>> = <<a, b, c>>
  <2>1. /\ <<a>> \o <<b, c>> \in Seq(S) /\ Len(<<a>> \o <<b, c>>) = 3
        /\ (<<a>> \o <<b, c>>)[1] = a /\ (<<a>> \o <<b, c>>)[2] = b /\ (<<a>> \o <<b, c>>)[3] = c
    BY <1>1
  <2>2. PICK s \in Seq(S), t \in Seq(S) : s = <<a>> \o <<b, c>> /\ t = <<a, b, c>>
    BY <1>1, <2>1
  <2>3. /\ Len(s) = 3 /\ s[1] = a /\ s[2] = b /\ s[3] = c
        /\ Len(t) = 3 /\ t[1] = a /\ t[2] = b /\ t[3] = c
    BY <2>1, <2>2
  <2>4. \A i \in 1..Len(s) : s[i] = t[i]
    BY <2>3
  <2>5. s = t
    BY <2>3, <2>4, SeqEqual
  <2> QED
    BY <2>2, <2>5
<1> QED
  BY <1>2, <1>3, <1>4

\* The tables that are written: a private partition is the one whose GUID is new.
LEMMA TablesWritten ==
  ASSUME guids \in Nat, NEW kind \in {"public", "mixed"}, NEW ratio \in Nat
  PROVE  /\ Zapped \in TableOf({0}) /\ DOMAIN Zapped.parts = {}
         /\ kind = "public" => NewTable(kind, ratio) \in TableOf({0})
         /\ NewTable(kind, ratio) \in TableOf({0, guids + 1})
         /\ \A i \in DOMAIN NewTable(kind, ratio).parts :
              NewTable(kind, ratio).parts[i].type = "expand" => kind = "mixed"
<1> DEFINE P(S) == [type : PartType, guid : S]
           Q(S) == UNION {[1..n -> P(S)] : n \in {0} \cup Parts}
<1>1. \A S : /\ <<>> \in Q(S)
             /\ \A a \in P(S) : <<a>> \in Q(S)
             /\ \A a, b \in P(S) : <<a, b>> \in Q(S)
             /\ \A a, b, c \in P(S) : <<a, b, c>> \in Q(S)
  <2>1. TAKE S
  <2>2. Parts = {1, 2, 3}
    BY DEF Parts
  <2>3. \A n \in {0, 1, 2, 3} : [1..n -> P(S)] \subseteq Q(S)
    BY <2>2
  <2>4. <<>> \in [1..0 -> P(S)]
    OBVIOUS
  <2>5. \A a \in P(S) : <<a>> \in [1..1 -> P(S)]
    OBVIOUS
  <2>6. \A a, b \in P(S) : <<a, b>> \in [1..2 -> P(S)]
    OBVIOUS
  <2>7. \A a, b, c \in P(S) : <<a, b, c>> \in [1..3 -> P(S)]
    OBVIOUS
  <2> HIDE DEF P, Q
  <2> QED
    BY <2>3, <2>4, <2>5, <2>6, <2>7
<1>2. \A S : \A k \in {"none", "mbr", "gpt"}, ps \in Q(S) : [kind |-> k, parts |-> ps, fs |-> FALSE] \in TableOf(S)
  BY DEF TableOf
<1>3. /\ Part("public", 0) \in P({0}) /\ Part("public", 0) \in P({0, guids + 1})
      /\ Part("meta", 0) \in P({0, guids + 1}) /\ Part("expand", guids + 1) \in P({0, guids + 1})
      /\ Part("public", 0).type = "public"
  BY DEF Part, PartType
<1> HIDE DEF P, Q
<1>4. Zapped \in TableOf({0}) /\ DOMAIN Zapped.parts = {}
  <2>1. DOMAIN Zapped.parts = {}
    BY DEF Zapped
  <2> QED
    BY <1>1, <1>2, <2>1 DEF Zapped
<1>5. CASE kind = "public"
  <2>1. NewTable(kind, ratio) = [kind |-> "mbr", parts |-> <<Part("public", 0)>>, fs |-> FALSE]
    BY <1>5 DEF NewTable
  <2>2. NewTable(kind, ratio) \in TableOf({0}) /\ NewTable(kind, ratio) \in TableOf({0, guids + 1})
    BY <1>1, <1>2, <1>3, <2>1
  <2>3. \A i \in DOMAIN NewTable(kind, ratio).parts : NewTable(kind, ratio).parts[i].type = "public"
    BY <1>3, <2>1
  <2> QED
    BY <1>4, <1>5, <2>2, <2>3
<1>6. CASE kind = "mixed"
  <2> DEFINE ps == (IF ratio > 0 THEN <<Part("public", 0)>> ELSE <<>>) \o <<Part("meta", 0), Part("expand", guids + 1)>>
  <2>1. NewTable(kind, ratio) = [kind |-> "gpt", parts |-> ps, fs |-> FALSE]
    BY <1>6 DEF NewTable
  <2>2. ps \in {<<Part("meta", 0), Part("expand", guids + 1)>>,
                <<Part("public", 0), Part("meta", 0), Part("expand", guids + 1)>>}
    <3>1. PICK a, b, c : a = Part("public", 0) /\ b = Part("meta", 0) /\ c = Part("expand", guids + 1)
      OBVIOUS
    <3>2. <<a>> \o <<b, c>> = <<a, b, c>>
      <4>1. /\ <<>> \o <<>> = <<>> /\ <<a>> \o <<>> = <<a>> /\ <<>> \o <<a>> = <<a>> /\ <<>> \o <<b, c>> = <<b, c>>
            /\ <<a>> \o <<b>> = <<a, b>> /\ <<a>> \o <<b, c>> = <<a, b, c>>
        BY Joined
      <4> QED
        BY <4>1
    <3>3. <<>> \o <<b, c>> = <<b, c>>
      BY Joined, Zenon
    <3> QED
      BY <3>1, <3>2, <3>3
  <2> HIDE DEF ps
  <2>3. ps \in Q({0, guids + 1})
    BY <1>1, <1>3, <2>2
  <2> QED
    BY <1>2, <1>4, <1>6, <2>1, <2>3
<1> QED
  BY <1>5, <1>6


\* What a call does, whichever of its steps it stops after.
LEMMA PartitionDoes ==
  ASSUME Ind, NEW kind \in {"public", "mixed"}, NEW ratio \in Nat, partition(kind, ratio)
  PROVE  \E n \in Nat, ok, keyed \in BOOLEAN, posts \in Seq(Event) :
           /\ ok => n > 0 /\ (kind = "mixed" => keyed)
           /\ keyed => kind = "mixed"
           /\ table' = IF n = 0 THEN table
                       ELSE [table EXCEPT ![card] = IF ok THEN NewTable(kind, ratio) ELSE Zapped]
           /\ keys' = IF keyed THEN keys \cup {guids + 1} ELSE keys
           /\ queue' = queue \o posts
           /\ ~Has(posts, "add") /\ ~Has(posts, "remove")
           /\ ok => Has(posts, "change") /\ (SkipsFirst(kind) => TwoChanges(posts))
           /\ disks' = <<[Head(disks) EXCEPT !.vols = {}, !.just = TRUE, !.skip = Head(disks).skip \/ SkipsFirst(kind),
                                  !.owed = ok, !.unread = Head(disks).unread \/ ~ok]>> \o Tail(disks)
           /\ loose' = (loose \/ ~ok)
<1> DEFINE steps == Steps(kind)
           Done(step, n) == \E i \in 1..n : steps[i] = step
           may == IF kind # "public" /\ ~generate_volume_key THEN 1
                  ELSE IF kind # "public" /\ ~RatioOk(ratio) THEN 2 ELSE Len(steps)
           Posts(n, told) == (IF n > 0 /\ (told \/ table[card].kind = "mbr") THEN <<"change">> ELSE <<>>) \o
                             (IF Done("table", n) THEN <<"change">> ELSE <<>>)
<1>1. PICK n \in 0..may, told \in BOOLEAN :
        /\ table' = IF n = 0 THEN table
                    ELSE [table EXCEPT ![card] = IF Done("table", n) THEN NewTable(kind, ratio) ELSE Zapped]
        /\ keys' = IF Done("key", n) THEN keys \cup {guids + 1} ELSE keys
        /\ queue' = queue \o Posts(n, told)
        /\ disks' = <<[Head(disks) EXCEPT !.vols = {}, !.just = TRUE, !.skip = Head(disks).skip \/ SkipsFirst(kind),
                               !.owed = (n = Len(steps)), !.unread = Head(disks).unread \/ ~(n = Len(steps))]>>
                    \o Tail(disks)
        /\ loose' = (loose \/ ~(n = Len(steps)))
  BY DEF partition, Post
<1>2. n \in 0..Len(steps) /\ n \in Nat
  <2>1. may \in Nat /\ may <= Len(steps) /\ Len(steps) \in Nat
    <3>1. CASE kind = "public"
      BY <3>1 DEF Steps
    <3>2. CASE kind = "mixed"
      BY <3>2 DEF Steps
    <3> QED
      BY <3>1, <3>2
  <2> HIDE DEF may, steps
  <2> QED
    BY <2>1
<1> DEFINE ok == n = Len(steps)
           keyed == Done("key", n)
           posts == Posts(n, told)
<1>3. /\ (Done("table", n) <=> ok) /\ (ok => n > 0)
      /\ (keyed => kind = "mixed") /\ (ok /\ kind = "mixed" => keyed)
  BY <1>2, StepsTaken
<1>4. ok \in BOOLEAN /\ keyed \in BOOLEAN
  OBVIOUS
<1>5. /\ posts \in {<<>>, <<"change">>, <<"change", "change">>}
      /\ ok => posts # <<>> /\ (SkipsFirst(kind) => posts = <<"change", "change">>)
  <2>1. /\ <<"change">> \o <<"change">> = <<"change", "change">> /\ <<"change">> \o <<>> = <<"change">>
        /\ <<>> \o <<"change">> = <<"change">> /\ <<>> \o <<>> = <<>>
    BY Joined
  <2> DEFINE zap == n > 0 /\ (told \/ table[card].kind = "mbr")
             p(z, w) == (IF z THEN <<"change">> ELSE <<>>) \o (IF w THEN <<"change">> ELSE <<>>)
  <2>2. posts = p(zap, Done("table", n))
    OBVIOUS
  <2>3. /\ p(TRUE, TRUE) = <<"change", "change">> /\ p(TRUE, FALSE) = <<"change">>
        /\ p(FALSE, TRUE) = <<"change">> /\ p(FALSE, FALSE) = <<>>
    BY <2>1
  <2>4. ok /\ SkipsFirst(kind) => zap
    BY <1>3 DEF SkipsFirst
  <2>5. <<"change">> # <<>> /\ <<"change", "change">> # <<>>
    OBVIOUS
  <2> HIDE DEF steps, Done, may, posts, p, zap, ok
  <2>6. \/ zap /\ ok /\ posts = p(TRUE, TRUE)
        \/ zap /\ ~ok /\ posts = p(TRUE, FALSE)
        \/ ~zap /\ ok /\ posts = p(FALSE, TRUE)
        \/ ~zap /\ ~ok /\ posts = p(FALSE, FALSE)
    BY <1>3, <2>2 DEF p
  <2> QED
    BY <2>3, <2>4, <2>5, <2>6
<1> HIDE DEF ok, keyed, posts
<1>6. /\ posts \in Seq(Event) /\ ~Has(posts, "add") /\ ~Has(posts, "remove")
      /\ ok => Has(posts, "change") /\ (SkipsFirst(kind) => TwoChanges(posts))
  <2>1. CASE posts = <<>>
    BY <1>5, <2>1, QueuePosts
  <2>2. CASE posts = <<"change">>
    <3>1. ok => ~SkipsFirst(kind)
      BY <1>5, <2>2
    <3> QED
      BY <2>2, <3>1, QueuePosts
  <2>3. CASE posts = <<"change", "change">>
    BY <2>3, QueuePosts
  <2> QED
    BY <1>5, <2>1, <2>2, <2>3
<1>7. /\ table' = IF n = 0 THEN table
                  ELSE [table EXCEPT ![card] = IF ok THEN NewTable(kind, ratio) ELSE Zapped]
      /\ keys' = IF keyed THEN keys \cup {guids + 1} ELSE keys
      /\ queue' = queue \o posts
      /\ disks' = <<[Head(disks) EXCEPT !.vols = {}, !.just = TRUE, !.skip = Head(disks).skip \/ SkipsFirst(kind),
                             !.owed = ok, !.unread = Head(disks).unread \/ ~ok]>> \o Tail(disks)
      /\ loose' = (loose \/ ~ok)
  <2>1. table' = IF n = 0 THEN table
                  ELSE [table EXCEPT ![card] = IF ok THEN NewTable(kind, ratio) ELSE Zapped]
    <3> HIDE DEF Done
    <3> QED
      BY <1>1, <1>3
  <2>2. keys' = IF keyed THEN keys \cup {guids + 1} ELSE keys
    BY <1>1 DEF keyed
  <2>3. queue' = queue \o posts
    BY <1>1 DEF posts
  <2>4. /\ disks' = <<[Head(disks) EXCEPT !.vols = {}, !.just = TRUE, !.skip = Head(disks).skip \/ SkipsFirst(kind),
                             !.owed = ok, !.unread = Head(disks).unread \/ ~ok]>> \o Tail(disks)
        /\ loose' = (loose \/ ~ok)
    BY <1>1 DEF ok
  <2> QED
    BY <2>1, <2>2, <2>3, <2>4
<1> HIDE DEF steps, Done, may, Posts
<1> QED
  BY <1>2, <1>3, <1>4, <1>6, <1>7

\* A disk is partitioned: the events that its new table causes are enough for the scan that
\* comes after the one that is skipped.
LEMMA PartitionStep ==
  ASSUME Ind, NEW kind \in {"public", "mixed"}, NEW ratio \in Nat, partition(kind, ratio)
  PROVE  Ind'
<1>1. /\ disks # <<>> /\ plugged /\ card # NoCard /\ card \in Cards
      /\ guids' = (IF kind = "public" THEN guids ELSE guids + 1)
      /\ dm' = doDestroy(Head(disks).vols) /\ asked' = asked \cup {card}
      /\ UNCHANGED <<plugged, card, lost, leftover, forgotten>>
  BY DEF Ind, Typed, partition
<1>2. /\ Typed /\ guids \in Nat /\ keys \subseteq 1..guids /\ forgotten \subseteq 1..guids
      /\ table \in [Cards -> TableOf(0..guids)] /\ disks \in Seq(Object) /\ queue \in Seq(Event)
      /\ asked \in SUBSET Cards /\ loose \in BOOLEAN /\ dm \in [Parts -> Nat]
  BY DEF Ind, Typed
<1>3. PICK n \in Nat, ok \in BOOLEAN, keyed \in BOOLEAN, posts \in Seq(Event) :
           /\ ok => n > 0 /\ (kind = "mixed" => keyed)
           /\ keyed => kind = "mixed"
           /\ table' = IF n = 0 THEN table
                       ELSE [table EXCEPT ![card] = IF ok THEN NewTable(kind, ratio) ELSE Zapped]
           /\ keys' = IF keyed THEN keys \cup {guids + 1} ELSE keys
           /\ queue' = queue \o posts
           /\ ~Has(posts, "add") /\ ~Has(posts, "remove")
           /\ ok => Has(posts, "change") /\ (SkipsFirst(kind) => TwoChanges(posts))
           /\ disks' = <<[Head(disks) EXCEPT !.vols = {}, !.just = TRUE, !.skip = Head(disks).skip \/ SkipsFirst(kind),
                                  !.owed = ok, !.unread = Head(disks).unread \/ ~ok]>> \o Tail(disks)
           /\ loose' = (loose \/ ~ok)
  BY PartitionDoes
<1>4. PICK h \in Object :
        /\ disks' = <<h>> \o Tail(disks) /\ h.vols = {}
        /\ (h.skip <=> disks[1].skip \/ SkipsFirst(kind)) /\ (h.owed <=> ok) /\ (h.unread <=> disks[1].unread \/ ~ok)
  <2>1. Head(disks) = disks[1] /\ Head(disks) \in Object /\ SkipsFirst(kind) \in BOOLEAN
    BY <1>1, <1>2 DEF SkipsFirst
  <2>2. PICK d \in Object, s \in BOOLEAN, u \in BOOLEAN :
          d = Head(disks) /\ s = (Head(disks).skip \/ SkipsFirst(kind)) /\ u = (Head(disks).unread \/ ~ok)
    BY <2>1
  <2> DEFINE h == [d EXCEPT !.vols = {}, !.just = TRUE, !.skip = s, !.owed = ok, !.unread = u]
  <2>3. h \in Object /\ h.vols = {} /\ h.skip = s /\ h.owed = ok /\ h.unread = u
    <3>1. h \in Object
      BY DEF Object
    <3>2. h.vols = {}
      BY DEF Object
    <3>3. h.skip = s /\ h.owed = ok /\ h.unread = u
      BY DEF Object
    <3> HIDE DEF h
    <3> QED
      BY <3>1, <3>2, <3>3
  <2>4. disks' = <<h>> \o Tail(disks)
    BY <1>3, <2>2
  <2> HIDE DEF h
  <2> QED
    BY <2>1, <2>2, <2>3, <2>4
<1>5. /\ disks' \in Seq(Object) /\ disks' # <<>> /\ DOMAIN disks' = DOMAIN disks /\ 1 \in DOMAIN disks
      /\ disks'[1] = h /\ \A i \in DOMAIN disks : i # 1 => disks'[i] = disks[i]
      /\ DOMAIN disks = 1..Len(disks)
  <2> DEFINE t == Tail(disks)
  <2>1. /\ t \in Seq(Object) /\ Len(disks) \in Nat /\ Len(disks) >= 1 /\ Len(t) = Len(disks) - 1
        /\ DOMAIN disks = 1..Len(disks) /\ \A i \in 1..Len(t) : t[i] = disks[i + 1]
    BY <1>1, <1>2
  <2> HIDE DEF t
  <2> DEFINE s == <<h>> \o t
  <2>2. s \in Seq(Object) /\ Len(s) = 1 + Len(t) /\ s[1] = h /\ \A i \in 1..Len(t) : s[1 + i] = t[i]
    BY <2>1
  <2>3. disks' = s
    BY <1>4 DEF t
  <2> HIDE DEF s
  <2>4. \A i \in DOMAIN disks : i # 1 => i - 1 \in 1..Len(t) /\ 1 + (i - 1) = i /\ (i - 1) + 1 = i
    BY <2>1
  <2>5. \A i \in DOMAIN disks : i # 1 => s[i] = disks[i]
    BY <2>1, <2>2, <2>4
  <2> QED
    BY <2>1, <2>2, <2>3, <2>5
<1>6. /\ queue' \in Seq(Event)
      /\ ok => Has(queue', "change") /\ (SkipsFirst(kind) => TwoChanges(queue'))
      /\ Has(queue, "remove") => Has(queue', "remove")
      /\ Has(queue', "remove") => Has(queue, "remove")
      /\ TwoChanges(queue) => TwoChanges(queue')
      /\ Settles(queue, "add", "remove") => Settles(queue', "add", "remove")
  BY <1>2, <1>3, QueueAppend
<1>7. Typed'
  <2>1. guids' \in Nat /\ 1..guids \subseteq 1..guids' /\ 0..guids \subseteq 0..guids'
        /\ (kind = "mixed" => guids + 1 \in 1..guids' /\ guids + 1 \in 0..guids') /\ 0 \in 0..guids'
    BY <1>1, <1>2
  <2>2. keys' \subseteq 1..guids' /\ forgotten' \subseteq 1..guids'
    BY <1>1, <1>2, <1>3, <2>1
  <2>3. TableOf(0..guids) \subseteq TableOf(0..guids') /\ TableOf({0}) \subseteq TableOf(0..guids')
        /\ (kind = "mixed" => TableOf({0, guids + 1}) \subseteq TableOf(0..guids'))
    <3>1. TableOf(0..guids) \subseteq TableOf(0..guids')
      BY <2>1, TableGrows
    <3>2. TableOf({0}) \subseteq TableOf(0..guids')
      <4>1. {0} \subseteq 0..guids'
        BY <2>1
      <4> QED
        BY <4>1, TableGrows
    <3>3. ASSUME kind = "mixed" PROVE TableOf({0, guids + 1}) \subseteq TableOf(0..guids')
      <4>1. {0, guids + 1} \subseteq 0..guids'
        BY <2>1, <3>3
      <4> QED
        BY <4>1, TableGrows
    <3> QED
      BY <3>1, <3>2, <3>3
  <2>4. Zapped \in TableOf(0..guids') /\ NewTable(kind, ratio) \in TableOf(0..guids')
    BY <1>2, <2>3, TablesWritten
  <2>5. table' \in [Cards -> TableOf(0..guids')]
    BY <1>1, <1>2, <1>3, <2>3, <2>4
  <2>6. dm' \in [Parts -> Nat]
    BY <1>1, <1>2, DestroyedDm
  <2>7. loose' \in BOOLEAN /\ leftover' \in BOOLEAN /\ plugged' \in BOOLEAN
    BY <1>1, <1>3 DEF Ind, Typed
  <2>8. card' \in Cards \cup {NoCard} /\ asked' \in SUBSET Cards
    BY <1>1, <1>2
  <2> QED
    BY <1>5, <1>6, <2>1, <2>2, <2>5, <2>6, <2>7, <2>8 DEF Typed
<1>8. KeysKept'
  <2>1. SUFFICES ASSUME NEW c \in Cards, NEW i \in DOMAIN table'[c].parts,
                        table'[c].parts[i].type = "expand", table'[c].parts[i].guid # 0
                 PROVE  table'[c].parts[i].guid \in keys' \cup forgotten'
    BY DEF KeysKept
  <2>2. CASE table'[c] = table[c]
    <3>1. table[c].parts[i].guid \in keys \cup forgotten
      BY <2>1, <2>2 DEF Ind, KeysKept
    <3> QED
      BY <1>1, <1>3, <2>2, <3>1
  <2>3. CASE table'[c] = Zapped
    BY <1>2, <2>1, <2>3, TablesWritten
  <2>4. CASE ok /\ table'[c] = NewTable(kind, ratio)
    <3>1. kind = "mixed"
      BY <1>2, <2>1, <2>4, TablesWritten
    <3>2. table'[c] \in TableOf({0, guids + 1})
      BY <1>2, <2>4, TablesWritten
    <3>3. table'[c].parts[i].guid = guids + 1
      <4>1. table'[c].parts[i] \in [type : PartType, guid : {0, guids + 1}]
        BY <3>2, TableParts
      <4> QED
        BY <2>1, <4>1
    <3> QED
      BY <1>3, <2>4, <3>1, <3>3
  <2> QED
    BY <1>1, <1>2, <1>3, <2>2, <2>3, <2>4
<1>9. FormatsAsked'
  BY <1>1, <1>3 DEF Ind, FormatsAsked
<1>10. JustSound'
  <2>1. SUFFICES ASSUME NEW i \in DOMAIN disks, disks'[i].just
                 PROVE  loose' \/ (disks'[i].owed /\ card' \in asked')
    BY <1>5 DEF JustSound
  <2>2. CASE i = 1
    BY <1>1, <1>3, <1>4, <1>5, <2>2
  <2>3. CASE i # 1
    <3>1. disks'[i] = disks[i]
      BY <1>5, <2>3
    <3>2. loose \/ (disks[i].owed /\ card \in asked)
      BY <2>1, <3>1 DEF Ind, JustSound
    <3> QED
      BY <1>1, <1>3, <3>1, <3>2
  <2> QED
    BY <2>2, <2>3
<1>11. DmSound'
  <2>1. SUFFICES ASSUME ~leftover, NEW i \in Parts, dm'[i] # 0
                 PROVE  \E j \in DOMAIN disks' : Private(disks'[j].vols, i) # {}
    BY <1>1 DEF DmSound
  <2>2. Head(disks) = disks[1]
    BY <1>1, <1>2
  <2>3. dm[i] # 0 /\ Private(disks[1].vols, i) = {}
    BY <1>1, <1>2, <2>1, <2>2, DestroyedDm
  <2>4. PICK j \in DOMAIN disks : Private(disks[j].vols, i) # {}
    BY <2>1, <2>3 DEF Ind, DmSound
  <2>5. j # 1 /\ disks'[j] = disks[j] /\ j \in DOMAIN disks'
    BY <1>5, <2>3, <2>4
  <2> QED
    BY <2>4, <2>5
<1>12. PlugSound'
  BY <1>1, <1>5, <1>6 DEF Ind, PlugSound
<1>13. ScanSound'
  <2>1. SUFFICES ASSUME NEW i \in DOMAIN disks
                 PROVE  /\ i > 1 => ~disks'[i].skip
                        /\ disks'[1].unread \/ disks'[i].unread \/ Followed(disks[i])'
    BY <1>5 DEF ScanSound
  <2>2. i \in Nat /\ (i > 1 => disks'[i] = disks[i] /\ ~disks[i].skip)
    BY <1>5 DEF Ind, ScanSound
  <2>3. CASE ~ok \/ disks[1].unread
    BY <1>4, <1>5, <2>2, <2>3
  <2>4. CASE ok /\ ~disks[1].unread /\ i = 1
    <3>1. Followed(disks[1])
      BY <1>5, <2>4 DEF Ind, ScanSound
    <3>2. disks[1].skip => Has(queue, "remove") \/ TwoChanges(queue)
      BY <3>1 DEF Followed, Shows
    <3>3. Has(queue', "remove") \/ (IF disks'[1].skip THEN TwoChanges(queue') ELSE Has(queue', "change"))
      BY <1>4, <1>5, <1>6, <2>4, <3>2
    <3> QED
      BY <2>2, <2>4, <3>3 DEF Followed
  <2>5. CASE ok /\ i # 1
    <3>1. i > 1
      BY <1>5, <2>5
    <3> QED
      BY <1>6, <2>2, <2>5, <3>1 DEF Followed
  <2> QED
    BY <2>3, <2>4, <2>5
<1> QED
  BY <1>7, <1>8, <1>9, <1>10, <1>11, <1>12, <1>13 DEF Ind

-----------------------------------------------------------------------------
(* The theorems *)

\* Every step keeps the invariant.
LEMMA NextSound ==
  ASSUME Ind, [Next]_vars
  PROVE  Ind'
<1>1. CASE handleDiskAdded
  BY <1>1, AddedStep
<1>2. CASE handleDiskChanged
  BY <1>2, ChangedStep
<1>3. CASE handleDiskRemoved
  BY <1>3, RemovedStep
<1>4. CASE partition("public", 0)
  BY <1>4, PartitionStep
<1>5. ASSUME NEW ratio \in {0, 5, 50}, partition("mixed", ratio) PROVE Ind'
  BY <1>5, PartitionStep
<1>6. ASSUME NEW g \in keys, forgetPartition(g) PROVE Ind'
  BY <1>6, ForgetStep
<1>7. ASSUME NEW c \in Cards \cup {NoCard}, Exchange(c) PROVE Ind'
  BY <1>7, ExchangeStep
<1>8. CASE Plug
  BY <1>8, PlugStep
<1>9. CASE Unplug
  BY <1>9, UnplugStep
<1>10. CASE Restart
  BY <1>10, RestartStep
<1>11. CASE UNCHANGED vars
  <2>1. UNCHANGED <<plugged, card, table, keys, disks, dm, queue, guids, asked, lost, loose, leftover, forgotten>>
    BY <1>11 DEF vars, history
  <2>2. Typed' /\ KeysKept' /\ FormatsAsked' /\ JustSound' /\ DmSound' /\ PlugSound'
    BY <2>1 DEF Ind, Typed, KeysKept, FormatsAsked, JustSound, DmSound, PlugSound
  <2>3. VolumesOnCard' = VolumesOnCard
    BY <2>1 DEF VolumesOnCard
  <2>4. ScanSound'
    BY <2>1, <2>3 DEF Ind, ScanSound, Followed, Shows, Mapped
  <2> QED
    BY <2>2, <2>4 DEF Ind
<1> QED
  BY <1>1, <1>2, <1>3, <1>4, <1>5, <1>6, <1>7, <1>8, <1>9, <1>10, <1>11 DEF Next

\* The invariant holds always.
LEMMA Inductive == Spec => []Ind
<1>1. Init => Ind
  BY InitSound
<1>2. Ind /\ [Next]_vars => Ind'
  BY NextSound
<1> QED
  BY <1>1, <1>2, PTL DEF Spec

\* When every event has been handled, the volumes are those of the card in the reader, mapped
\* with their own keys: the scan that mSkipChange skips is never the last one.
THEOREM VolumesFollowTheCard == Spec => []InSync
<1>1. Ind => InSync
  <2>1. SUFFICES ASSUME Ind, Quiet
                 PROVE  /\ disks # <<>>
                        /\ \A i \in DOMAIN disks : disks[i].vols = VolumesOnCard /\ disks[i].size = card
                        /\ \A v \in VolumesOnCard : v.kind = "private" => dm[v.part] = v.guid
    BY DEF InSync
  <2>2. (\A e : ~Has(queue, e)) /\ (\A e, f : ~Settles(queue, e, f)) /\ ~TwoChanges(queue)
    <3>1. queue = <<>>
      BY <2>1 DEF Quiet
    <3>2. DOMAIN queue = {}
      BY <3>1
    <3> QED
      BY <3>2 DEF Has, Settles, TwoChanges
  <2>3. disks # <<>>
    BY <2>1, <2>2 DEF Quiet, Ind, PlugSound
  <2>4. disks \in Seq(Object) /\ 1 \in DOMAIN disks
    BY <2>1, <2>3 DEF Ind, Typed
  <2>5. \A i \in DOMAIN disks : ~disks[i].unread
    BY <2>1 DEF Quiet, ToSet
  <2>6. \A i \in DOMAIN disks : Shows(disks[i])
    BY <2>1, <2>2, <2>4, <2>5 DEF Ind, ScanSound, Followed
  <2> QED
    BY <2>3, <2>4, <2>6 DEF Shows, Mapped
<1> QED
  BY <1>1, Inductive, PTL

\* A card is formatted without a call of partition only where a call failed or the card was
\* exchanged before the scan that follows the call (mJustPartitioned).
THEOREM OnlyAskedFormats == Spec => []FormatsAsked
<1>1. Ind => FormatsAsked
  BY DEF Ind
<1> QED
  BY <1>1, Inductive, PTL

\* The key of a private partition is on disk before the partition is: a call of partitionMixed
\* that stops anywhere leaves no partition that cannot be opened.
THEOREM PartitionsHaveKeys == Spec => []KeysKept
<1>1. Ind => KeysKept
  BY DEF Ind
<1> QED
  BY <1>1, Inductive, PTL

\* When the reader is gone, neither an object nor a mapping of it is left, however often it
\* was announced; but for mappings that were busy or that a vold that died had made.
THEOREM NothingStaysBehind == Spec => []RemovedClean
<1>1. Ind => RemovedClean
  <2>1. SUFFICES ASSUME Ind, ~plugged, queue = <<>>
                 PROVE  disks = <<>> /\ (leftover \/ \A i \in Parts : dm[i] = 0)
    BY DEF RemovedClean
  <2>2. DOMAIN queue = {}
    BY <2>1
  <2>3. disks = <<>>
    BY <2>1, <2>2 DEF Ind, PlugSound, Settles
  <2>4. DOMAIN disks = {}
    BY <2>3
  <2> QED
    BY <2>1, <2>3, <2>4 DEF Ind, DmSound
<1> QED
  BY <1>1, Inductive, PTL
=============================================================================
