---------------------------- MODULE Versions_proof ----------------------------
(***************************************************************************)
(* The guarantees of versioning for any number of operations, changes of   *)
(* the status and readers.                                                 *)
(*                                                                         *)
(* In the filesystem backend a version's files move between the canonical  *)
(* place and the archive, payload first, so the invariant says for every   *)
(* step of an operation which file is where (Laid, DataHead, MetaHead).    *)
(*                                                                         *)
(* In the erasure backend a pass reaches the drives that answer, so the    *)
(* invariant is about the drives that missed none (EAtRest, EAtWork).  Of  *)
(* the others it says that a history with the highest epoch is the one     *)
(* that counts (OneHistory).                                               *)
(***************************************************************************)
EXTENDS MCVersions, SequenceTheorems, FiniteSetTheorems, WellFoundedInduction, TLAPS

-------------------------------------------------------------------------------
\* The entries of h have different ids; those with an id of their own are the
\* PUTs that drew it, none later than operation n.
SoundList(h, n) ==
  /\ \A i \in 1 .. Len(h), j \in 1 .. Len(h) : h[i].vid = h[j].vid => i = j
  /\ \A i \in 1 .. Len(h) : /\ h[i].vid # Null => h[i].w = h[i].vid
                            /\ h[i].vid <= n

\* The operation adds a version or a marker.
Adding == op \in {"put", "delete"}

\* The operation has loaded the history.
Loaded == wpc \in {"drop", "dropmeta", "demote", "demotemeta", "promote", "promotemeta",
                   "place", "describe", "describefill", "record", "recordfill", "unlist"}

\* What the writer's place in its operation says of the operation.
Control ==
  /\ wpc = "idle" <=> op = "none"
  /\ op = "none" => pend = <<>> /\ victim = Canonical /\ shift = "stay"
  /\ op # "none" => cur > 0
  /\ shift = "demote" => Adding /\ wmode # "Off"
  /\ shift = "promote" => op = "remove"
  /\ shift # "stay" => Loaded /\ pend # <<>> /\ ~ pend[1].marker
  /\ wpc \in {"demote", "demotemeta"} => shift = "demote"
  /\ wpc \in {"promote", "promotemeta"} => shift = "promote"
  /\ wpc \in {"place", "describe", "describefill"} => op = "put"
  /\ wpc = "unlist" => op = "remove" /\ pend = <<>>
  /\ wpc \in {"record", "recordfill"} /\ op = "remove" => pend # <<>>
  /\ Adding /\ wmode = "Off" =>
       /\ wpc \in {"drop", "dropmeta", "place", "describe", "describefill"}
       /\ pend = <<>> /\ victim = Canonical
  /\ Adding => wvid = IF wmode = "Enabled" THEN cur ELSE Null

\* The id of a version that is being added is in no list yet.
NewId ==
  /\ \A i \in 1 .. Len(rhist) : rhist[i].vid = Null
  /\ Adding /\ wmode = "Enabled" /\ wpc # "recordfill" =>
       \A i \in 1 .. Len(hist) : hist[i].vid # cur
  /\ Adding /\ (wmode = "Enabled" \/ Loaded) =>
       \A i \in 1 .. Len(pend) : pend[i].vid # wvid

Base == /\ TypeOK /\ Control /\ NewId
        /\ SoundList(hist, cur) /\ SoundList(pend, cur) /\ SoundList(rhist, cur)

-------------------------------------------------------------------------------
\* Where the files of entry k of h are: those of the first at the canonical
\* place, if `atCan`, the others in the archive.
Spot(h, atCan, k) == IF k = 1 /\ atCan THEN Canonical ELSE h[k].vid

\* The files f are those of the versions that h lists, and no others, except
\* at the places in X.
Laid(f, h, atCan, X) ==
  /\ \A k \in 1 .. Len(h) : ~ h[k].marker /\ Spot(h, atCan, k) \notin X
                              => f[Spot(h, atCan, k)] = h[k].w
  /\ \A q \in Places \ X : f[q] # None =>
       \E k \in 1 .. Len(h) : ~ h[k].marker /\ Spot(h, atCan, k) = q

Fits(h) == Laid(data, h, TRUE, {}) /\ Laid(meta, h, TRUE, {})

\* What the files amount to, whether there is a history or not.
Listing == IF file # "none" THEN hist ELSE IF data[Canonical] # None THEN LegacyHistory ELSE <<>>

\* In an operation: whether the first of the versions that stay is, by its
\* payload and by its sidecar, at the canonical place.
DataHead == \/ op = "remove" /\ (shift = "stay" \/ wpc \in {"promotemeta", "record", "recordfill", "unlist"})
            \/ op # "remove" /\ shift = "demote" /\ wpc \in {"drop", "dropmeta", "demote"}
MetaHead == \/ op = "remove" /\ (shift = "stay" \/ wpc \in {"record", "recordfill", "unlist"})
            \/ op # "remove" /\ shift = "demote" /\ wpc \in {"drop", "dropmeta", "demote", "demotemeta"}

\* The canonical place is the new version's.
Taken == \/ wpc \in {"describe", "describefill"}
         \/ wpc = "place" /\ wmode = "Off"
         \/ wpc \in {"record", "recordfill"} /\ op = "put"
DataFree == IF wpc = "drop" THEN {victim} ELSE IF Taken THEN {Canonical} ELSE {}
MetaFree == IF wpc \in {"drop", "dropmeta"} THEN {victim} ELSE IF Taken THEN {Canonical} ELSE {}

\* The files in an operation, once the history is loaded.
AtWorkLaid ==
  /\ Laid(data, pend, DataHead, DataFree) /\ Laid(meta, pend, MetaHead, MetaFree)
  /\ wpc \in {"drop", "dropmeta"} =>
       \A k \in 1 .. Len(pend) : ~ pend[k].marker => Spot(pend, DataHead, k) # victim
  /\ wpc \in {"describe", "describefill"} \/ (wpc \in {"record", "recordfill"} /\ op = "put")
       => data[Canonical] = cur
  /\ wpc \in {"record", "recordfill"} /\ op = "put" => meta[Canonical] = cur

\* The history file, and who is writing it.
FileState ==
  /\ rpc # "lost" /\ (wpc # "idle" => rpc \notin {"seeding", "seedfill"})
  /\ file = "torn" <=> wpc \in {"seedfill", "recordfill"} \/ rpc = "seedfill"
  /\ file # "none" => hist # <<>>
  /\ wpc = "seeding" => Unseeded /\ pend = LegacyHistory
  /\ wpc = "seedfill" => hist = pend
  /\ wpc = "recordfill" => hist = NewHistory
  /\ wpc = "load" => ~ Unseeded
  /\ rpc = "seeding" => Unseeded /\ rhist = LegacyHistory
  /\ rpc = "seedfill" => hist = rhist
  /\ Adding /\ wmode = "Off" => file = "none"

\* List h has every version of the set o.
Lists(h, o) ==
  \A x \in o : \E k \in 1 .. Len(h) : h[k].vid = x.vid /\ h[k].w = x.w /\ ~ h[k].marker

\* An operation has given up what it replaces or removes.
GivenUp == op # "none" /\ (op = "remove" \/ wvid = Null) => \A x \in owed : x.vid # wvid

\* The archive has version v's files at place v.
ArchiveOwn == \A v \in Ops : data[v] \in {None, v} /\ meta[v] \in {None, v}

\* What the reader has found.
ReaderFound ==
  /\ rlone => wpc = "idle"
  /\ rpc \in {"meta", "open", "got"} => rplace \in {Canonical, rvid}
  /\ rvid # Null =>
       /\ rpc = "open" /\ rplace # Canonical => rmeta \in {None, rvid}
       /\ rpc = "got" /\ rplace # Canonical => rmeta \in {None, rvid} /\ rdata = rvid
       /\ rlone /\ rplace = Canonical =>
            /\ rpc \in {"meta", "open"} => data[Canonical] = rvid /\ meta[Canonical] = rvid
            /\ rpc \in {"open", "got"} => rmeta = rvid
            /\ rpc = "got" => rdata = rvid

\* Before an operation has loaded the history, the files are those of what it
\* lists; after that, those of the versions that stay.  Acknowledged versions
\* are among them.
AtRest == ~ Loaded => Fits(Listing) /\ Lists(Listing, owed)
AtWork == Loaded => AtWorkLaid /\ Lists(pend, owed)

Smooth ==
  /\ FileState /\ AtRest /\ AtWork
  /\ GivenUp /\ ArchiveOwn /\ ReaderFound
  /\ outcome # "error"

SmoothInv == upsets = {} => Smooth

-------------------------------------------------------------------------------
(* Lists of versions *)

LEMMA Bounds == MaxOps \in Nat /\ MaxSwitches \in Nat /\ MaxExtras \in Nat
BY BoundsAssumption

\* No version's place is the canonical one.
LEMMA PlaceFacts ==
  /\ Canonical \notin Vids /\ Canonical \in Places /\ Vids \subseteq Places
  /\ Null \in Vids /\ Ops \subseteq Vids /\ None \notin Ops /\ Torn \notin Ops /\ Null \notin Ops
  /\ Vids \subseteq Nat /\ Torn # None
BY BoundsAssumption DEF Canonical, Vids, Places, Ops, Null, None, Torn

LEMMA EntryFacts ==
  ASSUME NEW h \in Seq(Entry), NEW i \in 1 .. Len(h)
  PROVE  /\ h[i] \in Entry /\ h[i].vid \in Vids /\ h[i].marker \in BOOLEAN /\ h[i].w \in Ops
         /\ h[i].w # None /\ h[i].vid # Canonical
<1>1. h[i] \in Entry
  BY ElementOfSeq
<1>2. h[i].vid \in Vids /\ h[i].marker \in BOOLEAN /\ h[i].w \in Ops
  BY <1>1 DEF Entry
<1> QED
  BY <1>1, <1>2, PlaceFacts

\* Position finds the one entry with a given id.
LEMMA PositionFacts ==
  ASSUME NEW S, NEW h \in Seq(S), NEW v,
         \A i \in 1 .. Len(h), j \in 1 .. Len(h) : h[i].vid = h[j].vid => i = j
  PROVE  /\ Position(h, v) \in 0 .. Len(h)
         /\ Position(h, v) # 0 => h[Position(h, v)].vid = v
         /\ \A i \in 1 .. Len(h) : h[i].vid = v <=> Position(h, v) = i
<1> DEFINE I == {i \in 1 .. Len(h) : h[i].vid = v}
<1>1. Position(h, v) = IF I # {} THEN Min(I) ELSE 0
  BY DEF Position, SelectInSeq
<1>2. Len(h) \in Nat
  BY LenProperties
<1>3. CASE I = {}
  BY <1>1, <1>2, <1>3
<1>4. CASE I # {}
  <2>1. PICK i \in I : TRUE
    BY <1>4
  <2>2. I = {i}
    BY <2>1
  <2>3. Min({i}) = i
    BY <2>1, <1>2 DEF Min
  <2>4. Position(h, v) = i
    BY <1>1, <2>2, <2>3
  <2> QED
    BY <2>1, <2>2, <2>4, <1>2
<1> QED
  BY <1>3, <1>4

\* RemoveAt closes the gap.
LEMMA RemovedFacts ==
  ASSUME NEW S, NEW h \in Seq(S), NEW i \in 1 .. Len(h)
  PROVE  /\ RemoveAt(h, i) \in Seq(S)
         /\ Len(RemoveAt(h, i)) = Len(h) - 1
         /\ \A k \in 1 .. Len(RemoveAt(h, i)) :
              RemoveAt(h, i)[k] = h[IF k < i THEN k ELSE k + 1]
<1> DEFINE a == SubSeq(h, 1, i - 1)
           b == SubSeq(h, i + 1, Len(h))
<1>1. Len(h) \in Nat /\ \A k \in 1 .. Len(h) : h[k] \in S
  BY LenProperties, ElementOfSeq
<1>2. a \in Seq(S) /\ Len(a) = i - 1 /\ \A k \in 1 .. i - 1 : a[k] = h[k]
  <2>1. \A k \in 1 .. i - 1 : h[k] \in S
    BY <1>1
  <2> QED
    BY <1>1, <2>1, SubSeqProperties
<1>3. b \in Seq(S) /\ Len(b) = Len(h) - i /\ \A k \in 1 .. Len(h) - i : b[k] = h[i + k]
  <2>1. \A k \in i + 1 .. Len(h) : h[k] \in S
    BY <1>1
  <2>2. /\ b \in Seq(S)
        /\ Len(b) = IF i + 1 <= Len(h) THEN Len(h) - (i + 1) + 1 ELSE 0
        /\ \A k \in 1 .. Len(h) - (i + 1) + 1 : b[k] = h[i + 1 + k - 1]
    BY <1>1, <2>1, SubSeqProperties
  <2> QED
    BY <1>1, <2>2
<1>4. RemoveAt(h, i) = a \o b
  BY DEF RemoveAt
<1> HIDE DEF a, b
<1>5. /\ a \o b \in Seq(S) /\ Len(a \o b) = Len(a) + Len(b)
      /\ \A k \in 1 .. Len(a) + Len(b) :
           (a \o b)[k] = IF k <= Len(a) THEN a[k] ELSE b[k - Len(a)]
  BY <1>2, <1>3, ConcatProperties
<1>6. Len(a) + Len(b) = Len(h) - 1
  BY <1>1, <1>2, <1>3
<1>7. ASSUME NEW k \in 1 .. Len(h) - 1
      PROVE  (a \o b)[k] = h[IF k < i THEN k ELSE k + 1]
  <2>1. CASE k < i
    BY <2>1, <1>1, <1>2, <1>5, <1>6
  <2>2. CASE ~ (k < i)
    <3>1. k - (i - 1) \in 1 .. Len(h) - i /\ i + (k - (i - 1)) = k + 1 /\ ~ (k <= i - 1)
      BY <2>2, <1>1
    <3> QED
      BY <3>1, <2>2, <1>2, <1>3, <1>5, <1>6
  <2> QED
    BY <2>1, <2>2
<1> QED
  BY <1>4, <1>5, <1>6, <1>7

LEMMA RemoveAtFacts ==
  ASSUME NEW h \in Seq(Entry), NEW i \in 1 .. Len(h)
  PROVE  /\ RemoveAt(h, i) \in Seq(Entry)
         /\ Len(RemoveAt(h, i)) = Len(h) - 1
         /\ \A k \in 1 .. Len(RemoveAt(h, i)) :
              RemoveAt(h, i)[k] = h[IF k < i THEN k ELSE k + 1]
BY RemovedFacts

\* RemoveAt takes off no other entry, and the first stays the first.
LEMMA RestKeeps ==
  ASSUME NEW S, NEW h \in Seq(S), NEW i \in 1 .. Len(h), NEW p, p = RemoveAt(h, i),
         NEW j \in 1 .. Len(h), j # i
  PROVE  \E k \in 1 .. Len(p) : p[k] = h[j] /\ (i # 1 => (k = 1 <=> j = 1))
<1>0. Len(h) \in Nat
  BY LenProperties
<1>1. /\ p \in Seq(S) /\ Len(p) = Len(h) - 1
      /\ \A k \in 1 .. Len(p) : p[k] = h[IF k < i THEN k ELSE k + 1]
  BY RemovedFacts
<1>2. CASE j < i
  <2>1. j \in 1 .. Len(p) /\ p[j] = h[j]
    BY <1>0, <1>1, <1>2
  <2> QED
    BY <2>1
<1>3. CASE j > i
  <2>1. j - 1 \in 1 .. Len(p) /\ ~ (j - 1 < i) /\ j - 1 + 1 = j
    BY <1>0, <1>1, <1>3
  <2>2. p[j - 1] = h[j]
    BY <2>1, <1>1
  <2>3. i # 1 => j - 1 # 1 /\ j # 1
    BY <1>3
  <2> QED
    BY <2>1, <2>2, <2>3
<1> QED
  BY <1>0, <1>2, <1>3

\* What is left was in the list.
LEMMA RestFrom ==
  ASSUME NEW S, NEW h \in Seq(S), NEW i \in 1 .. Len(h), NEW p, p = RemoveAt(h, i),
         NEW k \in 1 .. Len(p)
  PROVE  \E j \in 1 .. Len(h) : j # i /\ p[k] = h[j] /\ (i # 1 => (k = 1 <=> j = 1))
<1>0. Len(h) \in Nat
  BY LenProperties
<1>1. /\ p \in Seq(S) /\ Len(p) = Len(h) - 1
      /\ p[k] = h[IF k < i THEN k ELSE k + 1]
  BY RemovedFacts
<1>2. CASE k < i
  BY <1>0, <1>1, <1>2
<1>3. CASE ~ (k < i)
  <2>1. k + 1 \in 1 .. Len(h) /\ k + 1 # i /\ k + 1 # 1 /\ (i # 1 => k # 1)
    BY <1>0, <1>1, <1>3
  <2>2. p[k] = h[k + 1]
    BY <1>1, <1>3
  <2> QED
    BY <2>1, <2>2
<1> QED
  BY <1>2, <1>3

\* The list without one entry.
LEMMA RestFacts ==
  ASSUME NEW S, NEW h \in Seq(S), NEW i \in 1 .. Len(h), NEW n, SoundList(h, n),
         NEW p, p = RemoveAt(h, i)
  PROVE  /\ p \in Seq(S) /\ SoundList(p, n)
         /\ i # 1 => p # <<>> /\ p[1] = h[1]
         /\ \A k \in 1 .. Len(p) : p[k].vid # h[i].vid
<1>0. Len(h) \in Nat
  BY LenProperties
<1>1. /\ p \in Seq(S) /\ Len(p) = Len(h) - 1
      /\ \A k \in 1 .. Len(p) : p[k] = h[IF k < i THEN k ELSE k + 1]
  BY RemovedFacts
<1>2. ASSUME NEW k \in 1 .. Len(p)
      PROVE  \E j \in 1 .. Len(h) : j # i /\ p[k] = h[j]
  BY RestFrom
<1>3. SoundList(p, n)
  <2>1. ASSUME NEW k \in 1 .. Len(p), NEW l \in 1 .. Len(p), p[k].vid = p[l].vid
        PROVE  k = l
    <3> DEFINE up(m) == IF m < i THEN m ELSE m + 1
    <3>1. up(k) \in 1 .. Len(h) /\ up(l) \in 1 .. Len(h)
      BY <1>0, <1>1
    <3>2. p[k] = h[up(k)] /\ p[l] = h[up(l)]
      BY <1>1
    <3>3. up(k) = up(l)
      BY <3>1, <3>2, <2>1 DEF SoundList
    <3> QED
      BY <3>3
  <2> QED
    BY <2>1, <1>2 DEF SoundList
<1>4. i # 1 => p # <<>> /\ p[1] = h[1]
  <2>1. SUFFICES ASSUME i # 1 PROVE p # <<>> /\ p[1] = h[1]
    OBVIOUS
  <2>2. 1 \in 1 .. Len(p) /\ 1 < i
    BY <2>1, <1>0, <1>1
  <2> QED
    BY <2>2, <1>1
<1>5. \A k \in 1 .. Len(p) : p[k].vid # h[i].vid
  BY <1>2 DEF SoundList
<1> QED
  BY <1>1, <1>3, <1>4, <1>5

\* The list with an entry in front.
LEMMA PushFacts ==
  ASSUME NEW S, NEW p \in Seq(S), NEW e \in S, NEW h, h = <<e>> \o p
  PROVE  /\ h \in Seq(S) /\ Len(h) = Len(p) + 1 /\ h # <<>> /\ h[1] = e
         /\ \A k \in 2 .. Len(h) : k - 1 \in 1 .. Len(p) /\ h[k] = p[k - 1]
         /\ \A k \in 1 .. Len(p) : k + 1 \in 2 .. Len(h) /\ h[k + 1] = p[k]
<1>1. <<e>> \in Seq(S) /\ Len(<<e>>) = 1 /\ <<e>>[1] = e /\ Len(p) \in Nat
  BY LenProperties
<1>2. /\ h \in Seq(S) /\ Len(h) = 1 + Len(p)
      /\ \A k \in 1 .. 1 + Len(p) : h[k] = IF k <= 1 THEN <<e>>[k] ELSE p[k - 1]
  BY <1>1, ConcatProperties
<1>3. Len(h) = Len(p) + 1 /\ h # <<>> /\ h[1] = e
  BY <1>1, <1>2
<1>4. ASSUME NEW k \in 2 .. Len(h) PROVE k - 1 \in 1 .. Len(p) /\ h[k] = p[k - 1]
  BY <1>1, <1>2
<1>5. ASSUME NEW k \in 1 .. Len(p) PROVE k + 1 \in 2 .. Len(h) /\ h[k + 1] = p[k]
  <2>1. k + 1 \in 2 .. Len(h) /\ k + 1 - 1 = k
    BY <1>1, <1>2
  <2> QED
    BY <2>1, <1>4
<1> QED
  BY <1>2, <1>3, <1>4, <1>5

LEMMA SoundPushed ==
  ASSUME NEW S, NEW p \in Seq(S), NEW n, SoundList(p, n),
         NEW e \in S, e.vid <= n, e.vid # Null => e.w = e.vid,
         \A k \in 1 .. Len(p) : p[k].vid # e.vid,
         NEW h, h = <<e>> \o p
  PROVE  SoundList(h, n)
<1>0. Len(p) \in Nat /\ Len(h) \in Nat
  BY LenProperties, PushFacts
<1>1. /\ Len(h) = Len(p) + 1 /\ h[1] = e
      /\ \A k \in 2 .. Len(h) : k - 1 \in 1 .. Len(p) /\ h[k] = p[k - 1]
  BY PushFacts
<1>2. ASSUME NEW i \in 1 .. Len(h), NEW j \in 1 .. Len(h), h[i].vid = h[j].vid
      PROVE  i = j
  <2>1. CASE i = 1 \/ j = 1
    <3>1. ASSUME NEW m \in 2 .. Len(h) PROVE h[m].vid # e.vid
      BY <1>1, <3>1
    <3> QED
      BY <1>0, <1>1, <1>2, <2>1, <3>1
  <2>2. CASE i # 1 /\ j # 1
    <3>1. i \in 2 .. Len(h) /\ j \in 2 .. Len(h)
      BY <2>2, <1>0
    <3>2. i - 1 \in 1 .. Len(p) /\ j - 1 \in 1 .. Len(p) /\ p[i - 1].vid = p[j - 1].vid
      BY <3>1, <1>1, <1>2
    <3>3. i - 1 = j - 1
      BY <3>2 DEF SoundList
    <3> QED
      BY <3>3
  <2> QED
    BY <2>1, <2>2
<1>3. ASSUME NEW i \in 1 .. Len(h)
      PROVE  (h[i].vid # Null => h[i].w = h[i].vid) /\ h[i].vid <= n
  <2>1. CASE i = 1
    BY <2>1, <1>1
  <2>2. CASE i # 1
    <3>1. i \in 2 .. Len(h)
      BY <2>2, <1>0
    <3>2. i - 1 \in 1 .. Len(p) /\ h[i] = p[i - 1]
      BY <3>1, <1>1
    <3> QED
      BY <3>2 DEF SoundList
  <2> QED
    BY <2>1, <2>2
<1> QED
  BY <1>2, <1>3 DEF SoundList

\* The list of one version, "null".
LEMMA SoundLegacy ==
  ASSUME NEW w \in Ops, NEW n \in Nat, NEW h, h = <<[vid |-> Null, marker |-> FALSE, w |-> w]>>
  PROVE  /\ h \in Seq(Entry) /\ SoundList(h, n) /\ Len(h) = 1 /\ h # <<>>
         /\ h[1].vid = Null /\ h[1].marker = FALSE /\ h[1].w = w
<1>1. [vid |-> Null, marker |-> FALSE, w |-> w] \in Entry
  BY PlaceFacts DEF Entry
<1>2. h \in Seq(Entry) /\ Len(h) = 1 /\ h[1] = [vid |-> Null, marker |-> FALSE, w |-> w]
  BY <1>1
<1>3. SoundList(h, n)
  BY <1>2 DEF SoundList, Null
<1>4. h # <<>>
  BY <1>2
<1> QED
  BY <1>2, <1>3, <1>4

LEMMA SoundEmpty ==
  ASSUME NEW n
  PROVE  <<>> \in Seq(Entry) /\ Len(<<>>) = 0 /\ SoundList(<<>>, n)
BY DEF SoundList

-------------------------------------------------------------------------------
(* Where the files are *)

\* An empty list has no files.
LEMMA LaidEmpty ==
  ASSUME NEW f, NEW c \in BOOLEAN, NEW X
  PROVE  Laid(f, <<>>, c, X) <=> \A q \in Places \ X : f[q] = None
BY DEF Laid

\* Without a version of its own the canonical place may as well not count.
LEMMA LaidHead ==
  ASSUME NEW f, NEW h \in Seq(Entry), NEW c \in BOOLEAN, NEW d \in BOOLEAN, NEW X,
         h = <<>> \/ h[1].marker, Laid(f, h, c, X)
  PROVE  Laid(f, h, d, X)
<1>1. \A k \in 1 .. Len(h) : ~ h[k].marker => k # 1
  <2>1. h = <<>> => Len(h) = 0
    OBVIOUS
  <2> QED
    BY <2>1
<1>2. \A k \in 1 .. Len(h) : ~ h[k].marker => Spot(h, c, k) = Spot(h, d, k)
  BY <1>1 DEF Spot
<1> QED
  BY <1>2 DEF Laid

\* A place may always be left out of account.
LEMMA LaidWeaker ==
  ASSUME NEW f, NEW h, NEW c, NEW X, NEW Y, Laid(f, h, c, X), X \subseteq Y
  PROVE  Laid(f, h, c, Y)
BY DEF Laid

\* A change at a place that is out of account, or that becomes so.
LEMMA LaidBut ==
  ASSUME NEW f \in [Places -> Nat], NEW h \in Seq(Entry), NEW c \in BOOLEAN,
         NEW v \in Places, NEW X, Laid(f, h, c, X), X \subseteq {v}, NEW x,
         NEW g, g = [f EXCEPT ![v] = x]
  PROVE  Laid(g, h, c, {v})
<1>1. \A q \in Places \ {v} : g[q] = f[q]
  OBVIOUS
<1>2. \A k \in 1 .. Len(h) : Spot(h, c, k) \in Places
  BY EntryFacts, PlaceFacts DEF Spot
<1> QED
  BY <1>1, <1>2 DEF Laid

\* The place that was out of account is cleared.
LEMMA LaidCleared ==
  ASSUME NEW f \in [Places -> Nat], NEW h \in Seq(Entry), NEW c \in BOOLEAN,
         NEW v \in Places, Laid(f, h, c, {v}),
         \A k \in 1 .. Len(h) : ~ h[k].marker => Spot(h, c, k) # v,
         NEW g, g = [f EXCEPT ![v] = None]
  PROVE  Laid(g, h, c, {})
<1>1. (\A q \in Places \ {v} : g[q] = f[q]) /\ g[v] = None
  OBVIOUS
<1>2. \A k \in 1 .. Len(h) : Spot(h, c, k) \in Places
  BY EntryFacts, PlaceFacts DEF Spot
<1> QED
  BY <1>1, <1>2 DEF Laid

\* Different versions have different places.
LEMMA SpotsDiffer ==
  ASSUME NEW h \in Seq(Entry), NEW n, SoundList(h, n), NEW c \in BOOLEAN,
         NEW i \in 1 .. Len(h), NEW j \in 1 .. Len(h), Spot(h, c, i) = Spot(h, c, j)
  PROVE  i = j
<1>1. h[i].vid # Canonical /\ h[j].vid # Canonical
  BY EntryFacts
<1> QED
  BY <1>1 DEF Spot, SoundList

\* The files after one is moved from place p to place q.
Moved(f, p, q) == [f EXCEPT ![q] = f[p], ![p] = None]

\* The head of the list moves between the canonical place and the archive.
LEMMA LaidMoved ==
  ASSUME NEW f \in [Places -> Nat], NEW h \in Seq(Entry), NEW n, SoundList(h, n),
         NEW c \in BOOLEAN, NEW d \in BOOLEAN, c # d, h # <<>>, ~ h[1].marker,
         Laid(f, h, c, {}), NEW p, p = Spot(h, c, 1), NEW q, q = Spot(h, d, 1)
  PROVE  f[p] = h[1].w /\ f[p] # None /\ Laid(Moved(f, p, q), h, d, {})
<1> DEFINE g == Moved(f, p, q)
<1>0. Len(h) \in Nat /\ 1 \in 1 .. Len(h)
  BY LenProperties, EmptySeq
<1>1. h[1].vid \in Vids /\ h[1].vid # Canonical /\ h[1].w # None
  BY <1>0, EntryFacts
<1>2. p # q /\ p \in Places /\ q \in Places
  BY <1>1, PlaceFacts DEF Spot
<1>3. f[p] = h[1].w
  BY <1>0 DEF Laid
<1>4. g[q] = h[1].w /\ g[p] = None /\ \A r \in Places \ {p, q} : g[r] = f[r]
  BY <1>2, <1>3 DEF Moved
<1> HIDE DEF g
<1>5. ASSUME NEW k \in 1 .. Len(h), k # 1
      PROVE  /\ Spot(h, c, k) = Spot(h, d, k) /\ Spot(h, c, k) \in Places
             /\ Spot(h, c, k) # p /\ Spot(h, c, k) # q
  <2>1. Spot(h, c, k) = h[k].vid /\ Spot(h, d, k) = h[k].vid
    BY <1>5 DEF Spot
  <2>2. h[k].vid \in Vids
    BY EntryFacts
  <2>3. Spot(h, c, k) # Spot(h, c, 1) /\ Spot(h, d, k) # Spot(h, d, 1)
    BY <1>0, <1>5, SpotsDiffer
  <2> QED
    BY <2>1, <2>2, <2>3, PlaceFacts
<1>6. ASSUME NEW k \in 1 .. Len(h), ~ h[k].marker
      PROVE  g[Spot(h, d, k)] = h[k].w
  <2>1. CASE k = 1
    BY <2>1, <1>4
  <2>2. CASE k # 1
    <3>1. f[Spot(h, c, k)] = h[k].w
      BY <1>6 DEF Laid
    <3> QED
      BY <3>1, <2>2, <1>4, <1>5
  <2> QED
    BY <2>1, <2>2
<1>7. ASSUME NEW r \in Places, g[r] # None
      PROVE  \E k \in 1 .. Len(h) : ~ h[k].marker /\ Spot(h, d, k) = r
  <2>1. CASE r = q
    BY <2>1, <1>0
  <2>2. CASE r # q
    <3>1. r # p /\ f[r] # None
      BY <2>2, <1>4, <1>7
    <3>2. PICK k \in 1 .. Len(h) : ~ h[k].marker /\ Spot(h, c, k) = r
      BY <3>1 DEF Laid
    <3> QED
      BY <3>1, <3>2, <1>5
  <2> QED
    BY <2>1, <2>2
<1>8. Laid(g, h, d, {})
  BY <1>6, <1>7 DEF Laid
<1> QED
  BY <1>1, <1>3, <1>8 DEF g

\* An entry is taken off the list: no entry that stays has its place.
LEMMA SpotFree ==
  ASSUME NEW h \in Seq(Entry), NEW n, SoundList(h, n),
         NEW i \in 1 .. Len(h), NEW p, p = RemoveAt(h, i), NEW c \in BOOLEAN, c <=> i # 1,
         NEW k \in 1 .. Len(p)
  PROVE  Spot(p, c, k) # Spot(h, TRUE, i)
<1>1. PICK j \in 1 .. Len(h) : j # i /\ p[k] = h[j] /\ (i # 1 => (k = 1 <=> j = 1))
  BY RestFrom
<1>2. Spot(p, c, k) = Spot(h, TRUE, j)
  BY <1>1 DEF Spot
<1>3. Spot(h, TRUE, j) # Spot(h, TRUE, i)
  BY <1>1, SpotsDiffer
<1> QED
  BY <1>2, <1>3

\* The files are those of the entries that stay, if the place of the one taken
\* off is left out of account.
LEMMA LaidRemoved ==
  ASSUME NEW f, NEW h \in Seq(Entry), NEW n, SoundList(h, n), Laid(f, h, TRUE, {}),
         NEW i \in 1 .. Len(h), NEW p, p = RemoveAt(h, i), NEW c \in BOOLEAN, c <=> i # 1,
         NEW X, X = {Spot(h, TRUE, i)} \/ (X = {} /\ h[i].marker)
  PROVE  Laid(f, p, c, X)
<1>1. \A k \in 1 .. Len(p) : ~ p[k].marker => f[Spot(p, c, k)] = p[k].w
  <2>1. SUFFICES ASSUME NEW k \in 1 .. Len(p), ~ p[k].marker PROVE f[Spot(p, c, k)] = p[k].w
    OBVIOUS
  <2>2. PICK j \in 1 .. Len(h) : j # i /\ p[k] = h[j] /\ (i # 1 => (k = 1 <=> j = 1))
    BY RestFrom
  <2>3. Spot(p, c, k) = Spot(h, TRUE, j)
    BY <2>2 DEF Spot
  <2>4. f[Spot(h, TRUE, j)] = h[j].w
    BY <2>1, <2>2 DEF Laid
  <2> QED
    BY <2>2, <2>3, <2>4
<1>2. ASSUME NEW q \in Places \ X, f[q] # None
      PROVE  \E k \in 1 .. Len(p) : ~ p[k].marker /\ Spot(p, c, k) = q
  <2>1. PICK j \in 1 .. Len(h) : ~ h[j].marker /\ Spot(h, TRUE, j) = q
    BY <1>2 DEF Laid
  <2>2. j # i
    BY <2>1, <1>2
  <2>3. PICK k \in 1 .. Len(p) : p[k] = h[j] /\ (i # 1 => (k = 1 <=> j = 1))
    BY <2>2, RestKeeps
  <2>4. Spot(p, c, k) = Spot(h, TRUE, j)
    BY <2>2, <2>3 DEF Spot
  <2> QED
    BY <2>1, <2>3, <2>4
<1> QED
  BY <1>1, <1>2 DEF Laid

\* A version is put in front: its files are at the canonical place, or it is a
\* marker and has none.
LEMMA LaidPushed ==
  ASSUME NEW f, NEW p \in Seq(Entry), NEW e \in Entry, NEW h, h = <<e>> \o p,
         \/ e.marker /\ Laid(f, p, FALSE, {})
         \/ ~ e.marker /\ Laid(f, p, FALSE, {Canonical}) /\ f[Canonical] = e.w
  PROVE  Laid(f, h, TRUE, {})
<1>0. /\ h \in Seq(Entry) /\ Len(h) = Len(p) + 1 /\ h[1] = e /\ Len(p) \in Nat
      /\ \A k \in 2 .. Len(h) : k - 1 \in 1 .. Len(p) /\ h[k] = p[k - 1]
      /\ \A k \in 1 .. Len(p) : k + 1 \in 2 .. Len(h) /\ h[k + 1] = p[k]
  BY PushFacts, LenProperties
<1>1. \A k \in 1 .. Len(p) : Spot(p, FALSE, k) = p[k].vid /\ p[k].vid # Canonical
  BY EntryFacts DEF Spot
<1>2. /\ \A k \in 1 .. Len(p) : ~ p[k].marker => f[p[k].vid] = p[k].w
      /\ \A q \in Places \ {Canonical} : f[q] # None =>
           \E k \in 1 .. Len(p) : ~ p[k].marker /\ p[k].vid = q
  BY <1>1 DEF Laid
<1>3. Spot(h, TRUE, 1) = Canonical /\ \A k \in 2 .. Len(h) : Spot(h, TRUE, k) = p[k - 1].vid
  BY <1>0 DEF Spot
<1>4. ASSUME NEW k \in 1 .. Len(h), ~ h[k].marker
      PROVE  f[Spot(h, TRUE, k)] = h[k].w
  <2>1. CASE k = 1
    BY <2>1, <1>0, <1>3, <1>4
  <2>2. CASE k # 1
    <3>1. k \in 2 .. Len(h)
      BY <2>2, <1>0
    <3>2. k - 1 \in 1 .. Len(p) /\ h[k] = p[k - 1] /\ Spot(h, TRUE, k) = p[k - 1].vid
      BY <3>1, <1>0, <1>3
    <3> QED
      BY <3>2, <1>2, <1>4
  <2> QED
    BY <2>1, <2>2
<1>5. ASSUME NEW q \in Places, f[q] # None
      PROVE  \E k \in 1 .. Len(h) : ~ h[k].marker /\ Spot(h, TRUE, k) = q
  <2>1. CASE q = Canonical
    <3>1. ~ e.marker
      <4>1. SUFFICES ASSUME Laid(f, p, FALSE, {}) PROVE FALSE
        OBVIOUS
      <4>2. \E k \in 1 .. Len(p) : Spot(p, FALSE, k) = Canonical
        BY <4>1, <2>1, <1>5 DEF Laid
      <4> QED
        BY <4>2, <1>1
    <3>2. 1 \in 1 .. Len(h)
      BY <1>0
    <3> QED
      BY <3>1, <3>2, <2>1, <1>0, <1>3
  <2>2. CASE q # Canonical
    <3>1. PICK k \in 1 .. Len(p) : ~ p[k].marker /\ p[k].vid = q
      BY <2>2, <1>2, <1>5
    <3>2. k + 1 \in 2 .. Len(h) /\ h[k + 1] = p[k] /\ k + 1 - 1 = k /\ k + 1 \in 1 .. Len(h)
      BY <1>0
    <3>3. Spot(h, TRUE, k + 1) = p[k].vid
      BY <3>2 DEF Spot
    <3> QED
      BY <3>1, <3>2, <3>3
  <2> QED
    BY <2>1, <2>2
<1> QED
  BY <1>4, <1>5 DEF Laid

\* The files of the one version "null".
LEMMA LaidLegacy ==
  ASSUME NEW f, NEW w \in Ops, f[Canonical] = w, \A q \in Places \ {Canonical} : f[q] = None,
         NEW h, h = <<[vid |-> Null, marker |-> FALSE, w |-> w]>>
  PROVE  Laid(f, h, TRUE, {})
<1>1. Len(h) = 1 /\ ~ h[1].marker /\ h[1].w = w /\ Spot(h, TRUE, 1) = Canonical
  BY DEF Spot
<1>2. 1 .. Len(h) = {1}
  BY <1>1
<1>3. \A q \in Places : f[q] # None => q = Canonical
  OBVIOUS
<1> HIDE DEF Spot
<1> QED
  BY <1>1, <1>2, <1>3 DEF Laid

\* The versions asked for are still listed when another is taken off.
LEMMA ListsRemoved ==
  ASSUME NEW S, NEW h \in Seq(S), NEW i \in 1 .. Len(h), NEW p, p = RemoveAt(h, i),
         NEW o, Lists(h, o), \A x \in o : x.vid # h[i].vid
  PROVE  Lists(p, o)
<1>1. SUFFICES ASSUME NEW x \in o
      PROVE  \E k \in 1 .. Len(p) : p[k].vid = x.vid /\ p[k].w = x.w /\ ~ p[k].marker
  BY DEF Lists
<1>2. PICK j \in 1 .. Len(h) : h[j].vid = x.vid /\ h[j].w = x.w /\ ~ h[j].marker
  BY DEF Lists
<1>3. j # i
  BY <1>2
<1>4. \E k \in 1 .. Len(p) : p[k] = h[j]
  BY <1>3, RestKeeps
<1> QED
  BY <1>2, <1>4

\* ... and when one is put in front.
LEMMA ListsPushed ==
  ASSUME NEW S, NEW p \in Seq(S), NEW e \in S, NEW h, h = <<e>> \o p,
         NEW o, Lists(p, o)
  PROVE  /\ Lists(h, o)
         /\ ~ e.marker => Lists(h, o \cup {[vid |-> e.vid, w |-> e.w]})
<1>0. /\ h[1] = e /\ Len(h) = Len(p) + 1 /\ Len(p) \in Nat
      /\ \A k \in 1 .. Len(p) : k + 1 \in 2 .. Len(h) /\ h[k + 1] = p[k]
  BY PushFacts, LenProperties
<1>1. Lists(h, o)
  <2>1. SUFFICES ASSUME NEW x \in o
        PROVE  \E k \in 1 .. Len(h) : h[k].vid = x.vid /\ h[k].w = x.w /\ ~ h[k].marker
    BY DEF Lists
  <2>2. PICK k \in 1 .. Len(p) : p[k].vid = x.vid /\ p[k].w = x.w /\ ~ p[k].marker
    BY DEF Lists
  <2>3. k + 1 \in 1 .. Len(h) /\ h[k + 1] = p[k]
    BY <1>0
  <2> QED
    BY <2>2, <2>3
<1>2. 1 \in 1 .. Len(h)
  BY <1>0
<1>3. ASSUME NEW x \in o \cup {[vid |-> e.vid, w |-> e.w]}, ~ e.marker
      PROVE  \E k \in 1 .. Len(h) : h[k].vid = x.vid /\ h[k].w = x.w /\ ~ h[k].marker
  <2>1. CASE x \in o
    BY <2>1, <1>1 DEF Lists
  <2>2. CASE x = [vid |-> e.vid, w |-> e.w]
    <3>1. x.vid = e.vid /\ x.w = e.w
      BY <2>2
    <3> QED
      BY <3>1, <1>0, <1>2, <1>3
  <2> QED
    BY <2>1, <2>2, <1>3
<1> QED
  BY <1>1, <1>3 DEF Lists

-------------------------------------------------------------------------------
(* The operations, whatever goes wrong *)

LEMMA BaseInit == Init => Base
<1> SUFFICES ASSUME Init PROVE Base
  OBVIOUS
<1>1. TypeOK
  <2>1. data \in [Places -> Ops \cup {None}] /\ meta \in [Places -> Ops \cup {None, Torn}]
    BY DEF Init
  <2>2. hist \in Seq(Entry) /\ pend \in Seq(Entry) /\ rhist \in Seq(Entry)
    BY SoundEmpty DEF Init
  <2>3. cur \in 0 .. MaxOps /\ reads \in 0 .. MaxExtras
    BY Bounds DEF Init
  <2>4. switches \in 0 .. MaxSwitches /\ faults \in 0 .. MaxExtras
    BY Bounds DEF Init
  <2>5. wvid \in Vids /\ rvid \in Vids /\ victim \in Places /\ rplace \in Places
    BY PlaceFacts DEF Init
  <2> QED
    BY <2>1, <2>2, <2>3, <2>4, <2>5 DEF Init, TypeOK, Modes
<1>2. Control /\ NewId
  BY DEF Init, Control, NewId, Adding, Loaded
<1>3. SoundList(hist, cur) /\ SoundList(pend, cur) /\ SoundList(rhist, cur)
  BY SoundEmpty DEF Init
<1> QED
  BY <1>1, <1>2, <1>3 DEF Base

\* Where the writer goes when nothing is left to drop.
LEMMA AfterMoveIn ==
  ASSUME NEW p
  PROVE  AfterMove(p) \in {"place", "return", "unlist", "record"}
BY DEF AfterMove

LEMMA ReadHistoryFacts ==
  ASSUME Base
  PROVE  /\ ReadHistory \in Seq(Entry) /\ SoundList(ReadHistory, cur)
         /\ ReadHistory = hist \/ ReadHistory = <<>>
BY SoundEmpty DEF Base, TypeOK, ReadHistory

LEMMA LegacyFacts ==
  ASSUME Base, Unseeded
  PROVE  \E w \in Ops : /\ LegacyHistory = <<[vid |-> Null, marker |-> FALSE, w |-> w]>>
                        /\ meta[Canonical] \in Ops => w = meta[Canonical]
                        /\ meta[Canonical] \notin Ops => w = data[Canonical]
<1>1. data[Canonical] \in Ops
  BY PlaceFacts DEF Base, TypeOK, Unseeded
<1> QED
  BY <1>1 DEF LegacyHistory

LEMMA LegacySound ==
  ASSUME Base, Unseeded
  PROVE  /\ LegacyHistory \in Seq(Entry) /\ SoundList(LegacyHistory, cur)
         /\ Len(LegacyHistory) = 1 /\ LegacyHistory # <<>>
         /\ \A i \in 1 .. Len(LegacyHistory) : LegacyHistory[i].vid = Null
<1>1. PICK w \in Ops : LegacyHistory = <<[vid |-> Null, marker |-> FALSE, w |-> w]>>
  BY LegacyFacts
<1>2. cur \in Nat
  BY Bounds DEF Base, TypeOK
<1>3. /\ LegacyHistory \in Seq(Entry) /\ SoundList(LegacyHistory, cur)
      /\ Len(LegacyHistory) = 1 /\ LegacyHistory # <<>> /\ LegacyHistory[1].vid = Null
  BY <1>1, <1>2, SoundLegacy
<1> QED
  BY <1>3

LEMMA BaseReader ==
  ASSUME Base, ReaderStep
  PROVE  Base'
<1>0. cur \in Nat /\ cur <= MaxOps
  BY Bounds DEF Base, TypeOK
<1>1. ASSUME NEW v \in Vids, GetVersion(v) PROVE Base'
  <2>1. SoundList(rhist', cur)
    BY <1>1, SoundEmpty DEF GetVersion
  <2>2. TypeOK'
    BY <1>1, Bounds, PlaceFacts DEF GetVersion, Base, TypeOK, status, disk, writer, seen
  <2> QED
    BY <1>1, <2>1, <2>2 DEF GetVersion, Base, Control, NewId, Adding, Loaded, SoundList, disk, writer
<1>2. CASE RSeed
  <2>1. CASE Unseeded
    <3>1. /\ rpc' = "seeding" /\ rhist' = LegacyHistory /\ upsets' \subseteq upsets \cup {"raced"}
          /\ UNCHANGED <<rvid, rplace, rmeta, rdata, reads, rlone, status, disk, writer, switches,
                         faults, outcome, owed>>
      BY <1>2, <2>1 DEF RSeed
    <3>2. /\ rhist' \in Seq(Entry) /\ SoundList(rhist', cur)
          /\ \A i \in 1 .. Len(rhist') : rhist'[i].vid = Null
      BY <2>1, <3>1, LegacySound
    <3>3. TypeOK'
      BY <3>1, <3>2 DEF Base, TypeOK, status, disk, writer
    <3> QED
      BY <3>1, <3>2, <3>3 DEF Base, Control, NewId, Adding, Loaded, SoundList, disk, writer
  <2>2. CASE ~ Unseeded
    <3>1. /\ rpc' = "load"
          /\ UNCHANGED <<rvid, rhist, rplace, rmeta, rdata, reads, rlone, status, disk, writer, seen>>
      BY <1>2, <2>2 DEF RSeed, RGoTo, seen
    <3>2. TypeOK'
      BY <3>1 DEF Base, TypeOK, status, disk, writer, seen
    <3> QED
      BY <3>1, <3>2 DEF Base, Control, NewId, Adding, Loaded, SoundList, disk, writer
  <2> QED
    BY <2>1, <2>2
<1>3. CASE RSeeding
  <2>1. /\ rpc' = "seedfill" /\ file' = "torn" /\ hist' = rhist
        /\ UNCHANGED <<rvid, rhist, rplace, rmeta, rdata, reads, rlone, status, data, meta, writer, seen>>
    BY <1>3 DEF RSeeding, TruncateHistory, RGoTo
  <2>2. TypeOK'
    BY <2>1 DEF Base, TypeOK, status, writer, seen
  <2>3. Adding => cur # Null
    BY DEF Base, Control, Adding, Null
  <2> QED
    BY <2>1, <2>2, <2>3 DEF Base, Control, NewId, Adding, Loaded, SoundList, writer
<1>4. CASE RSeedFill
  <2>1. /\ rpc' = "load"
        /\ \/ UNCHANGED <<file, hist>>
           \/ file' \in {"torn", "whole"} /\ hist' = rhist
        /\ UNCHANGED <<rvid, rhist, rplace, rmeta, rdata, reads, rlone, status, data, meta, writer, seen>>
    BY <1>4 DEF RSeedFill, FillHistory, RGoTo
  <2>2. TypeOK'
    BY <2>1 DEF Base, TypeOK, status, writer, seen
  <2>3. Adding => cur # Null
    BY DEF Base, Control, Adding, Null
  <2> QED
    BY <2>1, <2>2, <2>3 DEF Base, Control, NewId, Adding, Loaded, SoundList, writer
<1>5. CASE RLoad
  <2>1. /\ rpc' \in {"refused", "meta"} /\ rplace' \in {rplace, Canonical, rvid}
        /\ UNCHANGED <<rvid, rhist, rmeta, rdata, reads, rlone, status, disk, writer, seen>>
    BY <1>5 DEF RLoad, RGoTo
  <2>2. rplace' \in Places
    BY <2>1, PlaceFacts DEF Base, TypeOK
  <2>3. TypeOK'
    BY <2>1, <2>2 DEF Base, TypeOK, status, disk, writer, seen
  <2> QED
    BY <2>1, <2>3 DEF Base, Control, NewId, Adding, Loaded, SoundList, disk, writer
<1>6. CASE RMeta
  <2>1. /\ rpc' \in {"refused", "open"} /\ rmeta' \in {rmeta, meta[rplace]}
        /\ UNCHANGED <<rvid, rhist, rplace, rdata, reads, rlone, status, disk, writer, seen>>
    BY <1>6 DEF RMeta, RGoTo
  <2>2. TypeOK'
    BY <2>1 DEF Base, TypeOK, status, disk, writer, seen
  <2> QED
    BY <2>1, <2>2 DEF Base, Control, NewId, Adding, Loaded, SoundList, disk, writer
<1>7. CASE ROpen
  <2>1. TypeOK'
    BY <1>7 DEF ROpen, Base, TypeOK, status, disk, writer, seen
  <2> QED
    BY <1>7, <2>1 DEF ROpen, Base, Control, NewId, Adding, Loaded, SoundList, disk, writer
<1> QED
  BY <1>1, <1>2, <1>3, <1>4, <1>5, <1>6, <1>7 DEF ReaderStep

\* The next operation has an id of its own.
LEMMA SoundLater ==
  ASSUME NEW h \in Seq(Entry), NEW n \in Nat, SoundList(h, n)
  PROVE  SoundList(h, n + 1) /\ \A i \in 1 .. Len(h) : h[i].vid # n + 1
<1>1. \A i \in 1 .. Len(h) : h[i].vid \in Nat
  BY EntryFacts, PlaceFacts
<1> QED
  BY <1>1 DEF SoundList

LEMMA BaseBegin ==
  ASSUME Base, NEW o \in {"put", "delete", "remove"}, NEW v \in Vids, NEW pc, Begin(o, v, pc),
         o # "remove" => v = NewVid,
         pc = IF o = "remove" \/ mode # "Off" THEN "seed" ELSE IF o = "put" THEN "place" ELSE "drop"
  PROVE  Base'
<1>1. /\ wpc = "idle" /\ cur' = cur + 1 /\ op' = o /\ wvid' = v /\ wmode' = mode /\ wpc' = pc
      /\ outcome' = "none" /\ owed' \subseteq owed /\ rlone' = FALSE
      /\ upsets' \subseteq upsets \cup {"raced", "bypassed"}
      /\ UNCHANGED <<status, disk, pend, victim, shift, rpc, rvid, rhist, rplace, rmeta, rdata,
                     reads, switches, faults>>
  BY DEF Begin
<1>2. cur \in Nat /\ cur + 1 \in 0 .. MaxOps /\ cur + 1 \in Ops
  BY Bounds DEF Begin, Base, TypeOK, Ops
<1>3. op = "none" /\ pend = <<>> /\ victim = Canonical /\ shift = "stay"
  BY <1>1 DEF Base, Control
<1>4. /\ pc \in {"seed", "place", "drop"}
      /\ pc \in {"place", "drop"} => o # "remove" /\ mode = "Off"
      /\ pc = "place" => o = "put"
      /\ o # "remove" /\ mode = "Off" => pc \in {"place", "drop"}
  OBVIOUS
<1>5. TypeOK'
  <2>1. upsets' \subseteq {"cut", "raced", "bypassed"} /\ owed' \subseteq [vid : Vids, w : Ops]
    BY <1>1 DEF Base, TypeOK
  <2>2. mode' \in Modes /\ wmode' \in Modes /\ setting' \in Modes \cup {"none"}
    BY <1>1 DEF Base, TypeOK, status
  <2>3. /\ wpc' \in {"seed", "place", "drop"} /\ op' \in {"put", "delete", "remove"}
        /\ cur' \in 0 .. MaxOps /\ wvid' \in Vids /\ rlone' \in BOOLEAN
    BY <1>1, <1>2, <1>4
  <2> QED
    BY <1>1, <2>1, <2>2, <2>3 DEF Base, TypeOK, status, disk
<1>6. Control'
  <2>1. o # "remove" => v = IF mode = "Enabled" THEN cur + 1 ELSE Null
    BY DEF NewVid
  <2> QED
    BY <1>1, <1>2, <1>3, <1>4, <2>1 DEF Control, Adding, Loaded
<1>7. /\ SoundList(hist, cur + 1) /\ SoundList(pend, cur + 1) /\ SoundList(rhist, cur + 1)
      /\ \A i \in 1 .. Len(hist) : hist[i].vid # cur + 1
  BY <1>2, SoundLater DEF Base, TypeOK
<1>8. NewId'
  <2>1. Len(pend) = 0
    BY <1>3
  <2> QED
    BY <1>1, <1>7, <2>1 DEF Base, NewId, Adding, Loaded, disk
<1> QED
  BY <1>1, <1>5, <1>6, <1>7, <1>8 DEF Base, SoundList, disk

LEMMA BaseFinish ==
  ASSUME Base, wpc # "idle", NEW r \in {"ok", "nosuchversion", "error", "cut"}, Finish(r),
         data' \in [Places -> Ops \cup {None}], meta' \in [Places -> Ops \cup {None, Torn}],
         file' \in {"none", "torn", "whole"}, hist' \in Seq(Entry), SoundList(hist', cur),
         file' = "none" => hist' = <<>>,
         rpc' \in {rpc, "lost"}, faults' \in 0 .. MaxExtras,
         upsets' \subseteq {"cut", "raced", "bypassed"},
         UNCHANGED <<status, rvid, rhist, rplace, rmeta, rdata, reads, rlone>>
  PROVE  Base'
<1>1. /\ wpc' = "idle" /\ op' = "none" /\ wmode' = "Off" /\ wvid' = Null
      /\ pend' = <<>> /\ victim' = Canonical /\ shift' = "stay"
      /\ outcome' = r /\ cur' = cur /\ switches' = switches
  BY DEF Finish
<1>2. owed' \subseteq [vid : Vids, w : Ops]
  <2>1. op = "put" => cur \in Ops
    BY Bounds DEF Base, TypeOK, Control, Ops
  <2> QED
    BY <2>1 DEF Finish, Base, TypeOK
<1>3. TypeOK'
  <2>1. mode' \in Modes /\ wmode' \in Modes /\ setting' \in Modes \cup {"none"}
    BY <1>1 DEF Base, TypeOK, status, Modes
  <2>2. wvid' \in Vids /\ victim' \in Places /\ pend' \in Seq(Entry)
    BY <1>1, PlaceFacts, SoundEmpty
  <2>3. rpc' \in {"idle", "seed", "seeding", "seedfill", "lost", "load", "meta", "open",
                  "got", "refused"}
    BY DEF Base, TypeOK
  <2> QED
    BY <1>1, <1>2, <2>1, <2>2, <2>3 DEF Base, TypeOK, status
<1>4. Control'
  BY <1>1 DEF Control, Adding, Loaded
<1>5. NewId'
  BY <1>1 DEF Base, NewId, Adding
<1>6. SoundList(<<>>, cur)
  BY SoundEmpty
<1> QED
  BY <1>1, <1>3, <1>4, <1>5, <1>6 DEF Base, SoundList

\* The list with the new version, or without the one removed.
LEMMA NewHistoryFacts ==
  ASSUME Base, wpc \in {"record", "recordfill"}
  PROVE  /\ NewHistory \in Seq(Entry) /\ SoundList(NewHistory, cur) /\ NewHistory # <<>>
         /\ Adding => /\ [vid |-> wvid, marker |-> op = "delete", w |-> cur] \in Entry
                      /\ NewHistory = <<[vid |-> wvid, marker |-> op = "delete", w |-> cur]>> \o pend
         /\ op = "remove" => NewHistory = pend
<1>1. op \in {"put", "delete", "remove"} /\ cur \in Ops /\ cur \in Nat /\ pend \in Seq(Entry)
      /\ wvid \in Vids /\ SoundList(pend, cur)
  BY Bounds DEF Base, TypeOK, Control, Ops
<1>2. CASE op = "remove"
  BY <1>1, <1>2 DEF NewHistory, Base, Control, Adding
<1>3. CASE Adding
  <2> DEFINE e == [vid |-> wvid, marker |-> op = "delete", w |-> cur]
  <2>1. e \in Entry /\ e.vid = wvid /\ e.w = cur
    BY <1>1 DEF Entry
  <2>2. NewHistory = <<e>> \o pend
    BY <1>3 DEF NewHistory, Adding
  <2>3. \A k \in 1 .. Len(pend) : pend[k].vid # wvid
    BY <1>3 DEF Base, NewId, Loaded
  <2>4. wvid <= cur /\ (wvid # Null => wvid = cur)
    BY <1>1, <1>3 DEF Base, Control, Null
  <2> HIDE DEF e
  <2>5. NewHistory \in Seq(Entry) /\ NewHistory # <<>>
    BY <1>1, <2>1, <2>2, PushFacts
  <2>6. SoundList(NewHistory, cur)
    BY <1>1, <2>1, <2>2, <2>3, <2>4, SoundPushed
  <2>7. op # "remove"
    BY <1>3 DEF Adding
  <2> QED
    BY <2>1, <2>2, <2>5, <2>6, <2>7 DEF e
<1> QED
  BY <1>1, <1>2, <1>3 DEF Adding

LEMMA BaseGoTo ==
  ASSUME Base,
         NEW pc \in {"seed", "seeding", "seedfill", "load", "drop", "dropmeta", "demote",
                     "demotemeta", "promote", "promotemeta", "place", "describe",
                     "describefill", "record", "recordfill", "unlist"},
         GoTo(pc), UNCHANGED <<status, reader>>,
         data' \in [Places -> Ops \cup {None}], meta' \in [Places -> Ops \cup {None, Torn}],
         file' \in {"none", "torn", "whole"}, hist' \in Seq(Entry), SoundList(hist', cur),
         file' = "none" => hist' = <<>>,
         Control', NewId'
  PROVE  Base'
<1>1. /\ wpc' = pc
      /\ UNCHANGED <<op, wmode, wvid, cur, pend, victim, shift, switches, faults, outcome, owed,
                     upsets>>
  BY DEF GoTo, seen
<1>2. TypeOK'
  BY <1>1 DEF Base, TypeOK, status, reader
<1> QED
  BY <1>1, <1>2 DEF Base, SoundList, reader

\* A step that only touches the files at the places.
LEMMA BaseFiles ==
  ASSUME Base, wpc \in {"drop", "dropmeta", "demote", "demotemeta", "promote", "promotemeta",
                        "place", "describe", "describefill"},
         NEW pc \in {"dropmeta", "demote", "demotemeta", "promote", "promotemeta",
                     "place", "describe", "describefill", "record", "unlist"},
         GoTo(pc), UNCHANGED <<status, file, hist, reader>>,
         data' \in [Places -> Ops \cup {None}], meta' \in [Places -> Ops \cup {None, Torn}],
         Control'
  PROVE  Base'
<1>1. /\ wpc' = pc
      /\ UNCHANGED <<op, wmode, wvid, cur, pend, victim, shift>>
  BY DEF GoTo
<1>2. NewId'
  BY <1>1 DEF Base, NewId, Adding, Loaded, reader
<1>3. hist' \in Seq(Entry) /\ SoundList(hist', cur) /\ file' \in {"none", "torn", "whole"}
      /\ (file' = "none" => hist' = <<>>)
  BY DEF Base, TypeOK
<1> QED
  BY <1>2, <1>3, BaseGoTo

\* Where the writer goes when all is moved that is to be.
LEMMA AfterMoveFacts ==
  ASSUME op \in {"put", "delete", "remove"}, NEW p
  PROVE  /\ AfterMove(p) \in {"place", "return", "unlist", "record"}
         /\ AfterMove(p) = "place" <=> op = "put"
         /\ AfterMove(p) = "return" <=> op = "delete" /\ wmode = "Off"
         /\ AfterMove(p) = "unlist" <=> op = "remove" /\ p = <<>>
BY DEF AfterMove

LEMMA ControlAfterMove ==
  ASSUME Base, wpc \in {"dropmeta", "demotemeta", "promotemeta"},
         wpc = "dropmeta" => shift = "stay",
         AfterMove(pend) # "return", GoTo(AfterMove(pend))
  PROVE  Control' /\ AfterMove(pend) \in {"place", "unlist", "record"}
<1>1. wpc' = AfterMove(pend) /\ UNCHANGED <<op, wmode, wvid, cur, pend, victim, shift>>
  BY DEF GoTo
<1>2. op \in {"put", "delete", "remove"}
  BY DEF Base, TypeOK, Control
<1>3. Adding /\ wmode = "Off" => op = "put" /\ wpc = "dropmeta"
  BY <1>2, AfterMoveFacts DEF Base, Control, Adding
<1> QED
  BY <1>1, <1>2, <1>3, AfterMoveFacts DEF Base, Control, Adding, Loaded

LEMMA BaseSeed ==
  ASSUME Base, Seed
  PROVE  Base'
<1>1. CASE Unseeded
  <2>1. /\ wpc = "seed" /\ pend' = LegacyHistory /\ wpc' = "seeding"
        /\ UNCHANGED <<op, wmode, wvid, cur, victim, shift, seen, status, disk, reader>>
    BY <1>1 DEF Seed
  <2>2. pend' \in Seq(Entry) /\ SoundList(pend', cur) /\ \A i \in 1 .. Len(pend') : pend'[i].vid = Null
    BY <1>1, <2>1, LegacySound
  <2>3. TypeOK'
    BY <2>1, <2>2 DEF Base, TypeOK, status, disk, reader, seen
  <2>4. Control'
    BY <2>1 DEF Base, Control, Adding, Loaded
  <2>5. NewId'
    <3>1. Adding /\ wmode = "Enabled" => wvid # Null
      BY DEF Base, Control, Adding, Null
    <3> QED
      BY <2>1, <2>2, <3>1 DEF Base, NewId, Adding, Loaded, reader, disk
  <2> QED
    BY <2>1, <2>2, <2>3, <2>4, <2>5 DEF Base, SoundList, reader, disk
<1>2. CASE ~ Unseeded
  <2>1. wpc = "seed" /\ GoTo("load") /\ UNCHANGED <<status, disk, reader>>
    BY <1>2 DEF Seed
  <2>2. Control' /\ NewId'
    BY <2>1 DEF GoTo, Base, Control, NewId, Adding, Loaded, reader, disk
  <2> QED
    BY <2>1, <2>2, BaseGoTo DEF Base, TypeOK, disk
<1> QED
  BY <1>1, <1>2

LEMMA BaseHistory ==
  ASSUME Base, Seeding \/ SeedFill \/ Record
  PROVE  Base'
<1>1. CASE Seeding
  <2>1. /\ wpc = "seeding" /\ GoTo("seedfill") /\ file' = "torn" /\ hist' = pend
        /\ UNCHANGED <<status, data, meta, reader>>
    BY <1>1 DEF Seeding, Truncate, TruncateHistory
  <2>2. Control' /\ NewId'
    BY <2>1 DEF GoTo, Base, Control, NewId, Adding, Loaded, reader
  <2> QED
    BY <2>1, <2>2, BaseGoTo DEF Base, TypeOK
<1>2. CASE SeedFill
  <2>1. /\ wpc = "seedfill" /\ GoTo("load") /\ file' \in {"torn", "whole"} /\ hist' = pend
        /\ UNCHANGED <<status, data, meta, reader>>
    BY <1>2 DEF SeedFill, FillHistory
  <2>2. Control' /\ NewId'
    BY <2>1 DEF GoTo, Base, Control, NewId, Adding, Loaded, reader
  <2> QED
    BY <2>1, <2>2, BaseGoTo DEF Base, TypeOK
<1>3. CASE Record
  <2>1. /\ wpc = "record" /\ GoTo("recordfill") /\ file' = "torn" /\ hist' = NewHistory
        /\ UNCHANGED <<status, data, meta, reader>>
    BY <1>3 DEF Record, Truncate, TruncateHistory
  <2>2. Control' /\ NewId'
    BY <2>1 DEF GoTo, Base, Control, NewId, Adding, Loaded, reader
  <2> QED
    BY <2>1, <2>2, BaseGoTo, NewHistoryFacts DEF Base, TypeOK
<1> QED
  BY <1>1, <1>2, <1>3

\* What an adding operation takes off the list, and what it has to move.
LEMMA LoadForWriteFacts ==
  ASSUME Base, wpc = "load", op # "remove", LoadForWrite
  PROVE  \E i \in 0 .. Len(ReadHistory) :
           /\ i # 0 => wmode = "Suspended" /\ ReadHistory[i].vid = Null
           /\ wmode = "Suspended" /\ i = 0 =>
                \A k \in 1 .. Len(ReadHistory) : ReadHistory[k].vid # Null
           /\ i = 0 => pend' = ReadHistory
           /\ i # 0 => pend' = RemoveAt(ReadHistory, i)
           /\ shift' = IF i # 1 /\ pend' # <<>> /\ ~ pend'[1].marker THEN "demote" ELSE "stay"
           /\ i # 0 /\ ~ ReadHistory[i].marker =>
                wpc' = "drop" /\ victim' = Spot(ReadHistory, TRUE, i)
           /\ i = 0 \/ ReadHistory[i].marker => wpc' = AfterDrop(shift', pend')
           /\ victim' \in {Canonical, Null}
<1> DEFINE h == ReadHistory
           i == IF wmode = "Suspended" THEN Position(h, Null) ELSE 0
           p == IF i = 0 THEN h ELSE RemoveAt(h, i)
           inSlot == i = 1 /\ ~ h[1].marker
           s == IF h # <<>> /\ ~ h[1].marker /\ ~ inSlot THEN "demote" ELSE "stay"
<1>1. /\ pend' = p /\ shift' = s
      /\ victim' = IF inSlot THEN Canonical ELSE Null
      /\ wpc' = IF i # 0 /\ ~ h[i].marker THEN "drop" ELSE AfterDrop(s, p)
  BY DEF LoadForWrite
<1>2. h \in Seq(Entry) /\ SoundList(h, cur)
  BY ReadHistoryFacts
<1>3. /\ Position(h, Null) \in 0 .. Len(h)
      /\ Position(h, Null) # 0 => h[Position(h, Null)].vid = Null
      /\ \A k \in 1 .. Len(h) : h[k].vid = Null <=> Position(h, Null) = k
  <2>1. \A k \in 1 .. Len(h), l \in 1 .. Len(h) : h[k].vid = h[l].vid => k = l
    BY <1>2 DEF SoundList
  <2> HIDE DEF h
  <2> QED
    BY <1>2, <2>1, PositionFacts
<1>4. /\ i \in 0 .. Len(h) /\ Len(h) \in Nat
      /\ i # 0 => wmode = "Suspended" /\ h[i].vid = Null /\ i \in 1 .. Len(h)
      /\ wmode = "Suspended" /\ i = 0 => \A k \in 1 .. Len(h) : h[k].vid # Null
  BY <1>2, <1>3, LenProperties
<1> HIDE DEF h, i
<1>5. i # 0 /\ i # 1 => p # <<>> /\ p[1] = h[1] /\ h # <<>>
  <2>1. SUFFICES ASSUME i # 0, i # 1 PROVE p # <<>> /\ p[1] = h[1] /\ h # <<>>
    OBVIOUS
  <2>2. i \in 1 .. Len(h) /\ p = RemoveAt(h, i)
    BY <1>4, <2>1
  <2>3. p # <<>> /\ p[1] = h[1]
    BY <1>2, <2>1, <2>2, RestFacts
  <2>4. h # <<>>
    BY <2>2
  <2> QED
    BY <2>3, <2>4
<1>6. s = IF i # 1 /\ p # <<>> /\ ~ p[1].marker THEN "demote" ELSE "stay"
  <2>1. CASE i = 0
    BY <2>1
  <2>2. CASE i = 1
    BY <2>2
  <2>3. CASE i # 0 /\ i # 1
    BY <2>3, <1>5
  <2> QED
    BY <2>1, <2>2, <2>3
<1>7. i # 0 /\ ~ h[i].marker => victim' = Spot(h, TRUE, i)
  BY <1>1, <1>4 DEF Spot
<1>8. h = ReadHistory
  BY DEF h
<1> HIDE DEF s
<1>9. /\ i = 0 => pend' = h
      /\ i # 0 => pend' = RemoveAt(h, i)
      /\ shift' = IF i # 1 /\ pend' # <<>> /\ ~ pend'[1].marker THEN "demote" ELSE "stay"
      /\ i # 0 /\ ~ h[i].marker => wpc' = "drop"
      /\ i = 0 \/ h[i].marker => wpc' = AfterDrop(shift', pend')
      /\ victim' \in {Canonical, Null}
  BY <1>1, <1>6
<1> QED
  BY <1>4, <1>7, <1>8, <1>9

\* What DELETE of a version takes off the list, and what it has to move.
LEMMA LoadForRemoveFacts ==
  ASSUME Base, LoadForRemove
  PROVE  \E i \in 1 .. Len(ReadHistory) :
           /\ ReadHistory[i].vid = wvid
           /\ pend' = RemoveAt(ReadHistory, i)
           /\ shift' = IF i = 1 /\ pend' # <<>> /\ ~ pend'[1].marker THEN "promote" ELSE "stay"
           /\ victim' = Spot(ReadHistory, TRUE, i)
           /\ ~ ReadHistory[i].marker => wpc' = "drop"
           /\ ReadHistory[i].marker => wpc' = AfterDrop(shift', pend')
<1> DEFINE h == ReadHistory
           i == Position(h, wvid)
<1>1. /\ i # 0 /\ pend' = RemoveAt(h, i)
      /\ shift' = IF i = 1 /\ pend' # <<>> /\ ~ pend'[1].marker THEN "promote" ELSE "stay"
      /\ victim' = IF i = 1 THEN Canonical ELSE wvid
      /\ wpc' = IF h[i].marker THEN AfterDrop(shift', pend') ELSE "drop"
  BY DEF LoadForRemove
<1>2. h \in Seq(Entry) /\ SoundList(h, cur)
  BY ReadHistoryFacts
<1>3. i \in 0 .. Len(h) /\ (i # 0 => h[i].vid = wvid)
  <2>1. \A k \in 1 .. Len(h), l \in 1 .. Len(h) : h[k].vid = h[l].vid => k = l
    BY <1>2 DEF SoundList
  <2> HIDE DEF h
  <2> QED
    BY <1>2, <2>1, PositionFacts
<1>4. h = ReadHistory /\ Len(h) \in Nat
  BY <1>2, LenProperties
<1> HIDE DEF h, i
<1>5. i \in 1 .. Len(h)
  BY <1>1, <1>3, <1>4
<1>6. victim' = Spot(h, TRUE, i)
  BY <1>1, <1>3 DEF Spot
<1> QED
  BY <1>1, <1>3, <1>4, <1>5, <1>6

\* The list is loaded: where the writer goes fits the operation.
LEMMA BaseLoaded ==
  ASSUME Base, wpc = "load", NEW p, p \in Seq(Entry), SoundList(p, cur), NEW s,
         op = "remove" => s \in {"stay", "promote"}, op # "remove" => s \in {"stay", "demote"},
         s # "stay" => p # <<>> /\ ~ p[1].marker,
         wpc' = "drop" \/ wpc' = AfterDrop(s, p), pend' = p, shift' = s, victim' \in Places,
         Adding => \A k \in 1 .. Len(p) : p[k].vid # wvid,
         UNCHANGED <<op, wmode, wvid, cur, status, disk, reader, seen>>
  PROVE  Base'
<1>1. op \in {"put", "delete", "remove"} /\ (Adding => wmode # "Off")
  BY DEF Base, TypeOK, Control, Adding
<1>2. /\ s # "stay" => wpc' \in {"drop", s}
      /\ s = "stay" => /\ wpc' \in {"drop", "place", "unlist", "record"}
                       /\ wpc' = "place" => op = "put"
                       /\ wpc' = "unlist" => op = "remove" /\ p = <<>>
                       /\ wpc' = "record" /\ op = "remove" => p # <<>>
  BY <1>1, AfterMoveFacts DEF AfterDrop, Adding
<1>3. wpc' \in {"drop", "demote", "promote", "place", "unlist", "record"}
  BY <1>2
<1>4. TypeOK'
  BY <1>3 DEF Base, TypeOK, status, disk, reader, seen
<1>5. Control'
  BY <1>1, <1>2, <1>3 DEF Base, Control, Adding, Loaded
<1>6. NewId'
  BY <1>3 DEF Base, NewId, Adding, Loaded, reader, disk
<1> QED
  BY <1>4, <1>5, <1>6 DEF Base, SoundList, reader, disk

LEMMA BaseLoad ==
  ASSUME Base, Load
  PROVE  Base'
<1>0. wpc = "load" /\ UNCHANGED <<status, disk, reader>>
  BY DEF Load
<1>1. ReadHistory \in Seq(Entry) /\ SoundList(ReadHistory, cur) /\ (ReadHistory = hist \/ ReadHistory = <<>>)
  BY ReadHistoryFacts
<1>2. CASE op # "remove" /\ LoadForWrite /\ UNCHANGED <<op, wmode, wvid, cur, seen>>
  <2>1. PICK i \in 0 .. Len(ReadHistory) :
           /\ i # 0 => wmode = "Suspended" /\ ReadHistory[i].vid = Null
           /\ wmode = "Suspended" /\ i = 0 =>
                \A k \in 1 .. Len(ReadHistory) : ReadHistory[k].vid # Null
           /\ i = 0 => pend' = ReadHistory
           /\ i # 0 => pend' = RemoveAt(ReadHistory, i)
           /\ shift' = IF i # 1 /\ pend' # <<>> /\ ~ pend'[1].marker THEN "demote" ELSE "stay"
           /\ i # 0 /\ ~ ReadHistory[i].marker => wpc' = "drop"
           /\ i = 0 \/ ReadHistory[i].marker => wpc' = AfterDrop(shift', pend')
           /\ victim' \in {Canonical, Null}
    BY <1>0, <1>2, LoadForWriteFacts
  <2>2. /\ pend' \in Seq(Entry) /\ SoundList(pend', cur)
        /\ i # 0 => \A k \in 1 .. Len(pend') : pend'[k].vid # Null
    <3>1. CASE i = 0
      BY <3>1, <2>1, <1>1
    <3>2. CASE i # 0
      <4>1. i \in 1 .. Len(ReadHistory)
        BY <3>2
      <4> QED
        BY <4>1, <3>2, <2>1, <1>1, RestFacts
    <3> QED
      BY <3>1, <3>2
  <2>3. Adding => \A k \in 1 .. Len(pend') : pend'[k].vid # wvid
    <3>1. SUFFICES ASSUME Adding PROVE \A k \in 1 .. Len(pend') : pend'[k].vid # wvid
      OBVIOUS
    <3>2. wmode # "Off" /\ wmode \in Modes
      BY <1>0, <3>1 DEF Base, TypeOK, Control
    <3>3. CASE wmode = "Suspended"
      <4>1. wvid = Null
        BY <3>1, <3>3 DEF Base, Control
      <4> QED
        BY <4>1, <3>3, <2>1, <2>2
    <3>4. CASE wmode = "Enabled"
      <4>1. wvid = cur /\ i = 0 /\ pend' = ReadHistory
        BY <3>1, <3>4, <2>1 DEF Base, Control
      <4>2. \A k \in 1 .. Len(hist) : hist[k].vid # cur
        BY <1>0, <3>1, <3>4 DEF Base, NewId
      <4> QED
        BY <4>1, <4>2, <1>1
    <3> QED
      BY <3>2, <3>3, <3>4 DEF Modes
  <2>4. victim' \in Places
    BY <2>1, PlaceFacts
  <2>5. wpc' = "drop" \/ wpc' = AfterDrop(shift', pend')
    BY <2>1
  <2>6. shift' \in {"stay", "demote"} /\ (shift' # "stay" => pend' # <<>> /\ ~ pend'[1].marker)
    BY <2>1
  <2> QED
    BY <1>0, <1>2, <2>2, <2>3, <2>4, <2>5, <2>6, BaseLoaded
<1>3. CASE op = "remove" /\ LoadForRemove /\ UNCHANGED <<op, wmode, wvid, cur, seen>>
  <2>1. PICK i \in 1 .. Len(ReadHistory) :
           /\ ReadHistory[i].vid = wvid
           /\ pend' = RemoveAt(ReadHistory, i)
           /\ shift' = IF i = 1 /\ pend' # <<>> /\ ~ pend'[1].marker THEN "promote" ELSE "stay"
           /\ victim' = Spot(ReadHistory, TRUE, i)
           /\ ~ ReadHistory[i].marker => wpc' = "drop"
           /\ ReadHistory[i].marker => wpc' = AfterDrop(shift', pend')
    BY <1>3, LoadForRemoveFacts
  <2>2. pend' \in Seq(Entry) /\ SoundList(pend', cur)
    BY <2>1, <1>1, RestFacts
  <2>3. victim' \in Places
    BY <2>1, <1>1, EntryFacts, PlaceFacts DEF Spot
  <2>4. wpc' = "drop" \/ wpc' = AfterDrop(shift', pend')
    BY <2>1
  <2>5. shift' \in {"stay", "promote"} /\ (shift' # "stay" => pend' # <<>> /\ ~ pend'[1].marker)
    BY <2>1
  <2>6. ~ Adding
    BY <1>3 DEF Adding
  <2> QED
    BY <1>0, <1>3, <2>2, <2>3, <2>4, <2>5, <2>6, BaseLoaded
<1>4. CASE Finish("nosuchversion") /\ UNCHANGED <<faults, upsets>>
  BY <1>0, <1>4, BaseFinish DEF Base, TypeOK, disk, reader, status
<1> QED
  BY <1>2, <1>3, <1>4 DEF Load

LEMMA BaseDrop ==
  ASSUME Base, Drop \/ DropMeta
  PROVE  Base'
<1>1. CASE Drop
  <2>1. /\ wpc = "drop" /\ GoTo("dropmeta") /\ data' = [data EXCEPT ![victim] = None]
        /\ UNCHANGED <<status, meta, file, hist, reader>>
    BY <1>1 DEF Drop
  <2>2. Control'
    BY <2>1 DEF GoTo, Base, Control, Adding, Loaded
  <2>3. data' \in [Places -> Ops \cup {None}] /\ meta' \in [Places -> Ops \cup {None, Torn}]
    BY <2>1 DEF Base, TypeOK
  <2> QED
    BY <2>1, <2>2, <2>3, BaseFiles
<1>2. CASE DropMeta
  <2>1. /\ wpc = "dropmeta" /\ meta' = [meta EXCEPT ![victim] = None]
        /\ UNCHANGED <<status, data, file, hist, reader>>
    BY <1>2 DEF DropMeta
  <2>2. data' \in [Places -> Ops \cup {None}] /\ meta' \in [Places -> Ops \cup {None, Torn}]
    BY <2>1 DEF Base, TypeOK
  <2>3. CASE AfterDrop(shift, pend) # "return" /\ GoTo(AfterDrop(shift, pend))
    <3>1. CASE shift = "stay"
      <4>1. Control' /\ AfterMove(pend) \in {"place", "unlist", "record"} /\ GoTo(AfterMove(pend))
        BY <2>1, <2>3, <3>1, ControlAfterMove DEF AfterDrop
      <4> QED
        BY <4>1, <2>1, <2>2, BaseFiles
    <3>2. CASE shift # "stay"
      <4>1. shift \in {"demote", "promote"} /\ GoTo(shift)
        BY <2>3, <3>2 DEF AfterDrop, Base, TypeOK
      <4>2. Control'
        BY <4>1, <3>2, <2>1 DEF GoTo, Base, Control, Adding, Loaded
      <4> QED
        BY <4>1, <4>2, <2>1, <2>2, BaseFiles
    <3> QED
      BY <3>1, <3>2
  <2>4. CASE Finish("ok") /\ UNCHANGED <<faults, upsets>>
    BY <2>1, <2>2, <2>4, BaseFinish DEF Base, TypeOK, reader, status
  <2> QED
    BY <1>2, <2>3, <2>4 DEF DropMeta
<1> QED
  BY <1>1, <1>2

\* A file is renamed from the canonical place to the archive, or back.
LEMMA BaseMove ==
  ASSUME Base, Demote \/ Promote \/ DemoteMeta \/ PromoteMeta
  PROVE  Base'
<1>0. wpc \in {"demote", "demotemeta", "promote", "promotemeta"}
  BY DEF Demote, Promote, DemoteMeta, PromoteMeta
<1>1. pend[1].vid \in Places
  <2>1. pend # <<>> /\ pend \in Seq(Entry)
    BY <1>0 DEF Base, TypeOK, Control
  <2>2. 1 \in 1 .. Len(pend)
    BY <2>1, EmptySeq
  <2> QED
    BY <2>1, <2>2, EntryFacts, PlaceFacts
<1>2. ASSUME NEW p \in Places, NEW q \in Places, NEW pc \in {"demotemeta", "promotemeta"},
             MoveData(p, q, pc), pc = IF wpc = "demote" THEN "demotemeta" ELSE "promotemeta",
             wpc \in {"demote", "promote"}
      PROVE  Base'
  <2>1. UNCHANGED <<status, meta, file, hist, reader>>
    BY <1>2 DEF MoveData
  <2>2. CASE data' = [data EXCEPT ![q] = data[p], ![p] = None] /\ GoTo(pc)
    <3>1. data' \in [Places -> Ops \cup {None}] /\ meta' \in [Places -> Ops \cup {None, Torn}]
      BY <2>1, <2>2 DEF Base, TypeOK
    <3>2. Control'
      BY <1>2, <2>2 DEF GoTo, Base, Control, Adding, Loaded
    <3> QED
      BY <1>2, <2>1, <2>2, <3>1, <3>2, BaseFiles
  <2>3. CASE Finish("error") /\ UNCHANGED <<data, faults, upsets>>
    BY <1>2, <2>1, <2>3, BaseFinish DEF Base, TypeOK, reader, status
  <2> QED
    BY <1>2, <2>2, <2>3 DEF MoveData
<1>3. ASSUME NEW p \in Places, NEW q \in Places, MoveMeta(p, q),
             wpc \in {"demotemeta", "promotemeta"}
      PROVE  Base'
  <2>1. GoTo(AfterMove(pend)) /\ UNCHANGED <<status, data, file, hist, reader>>
    BY <1>3 DEF MoveMeta
  <2>2. data' \in [Places -> Ops \cup {None}] /\ meta' \in [Places -> Ops \cup {None, Torn}]
    <3>1. meta' \in {meta, [meta EXCEPT ![q] = meta[p], ![p] = None]}
      BY <1>3 DEF MoveMeta
    <3> QED
      BY <2>1, <3>1 DEF Base, TypeOK
  <2>3. AfterMove(pend) # "return"
    <3>1. op \in {"put", "delete", "remove"} /\ (op = "delete" => wmode # "Off")
      BY <1>3 DEF Base, TypeOK, Control, Adding
    <3> QED
      BY <3>1, AfterMoveFacts
  <2>4. Control' /\ AfterMove(pend) \in {"place", "unlist", "record"}
    BY <1>3, <2>1, <2>3, ControlAfterMove
  <2> QED
    BY <1>3, <2>1, <2>2, <2>4, BaseFiles
<1> QED
  BY <1>0, <1>1, <1>2, <1>3, PlaceFacts DEF Demote, Promote, DemoteMeta, PromoteMeta

LEMMA BasePlace ==
  ASSUME Base, Place \/ Describe \/ DescribeFill
  PROVE  Base'
<1>0. cur \in Ops
  BY Bounds DEF Base, TypeOK, Control, Ops, Place, Describe, DescribeFill
<1>1. CASE Place
  <2>1. /\ wpc = "place" /\ GoTo("describe") /\ data' = [data EXCEPT ![Canonical] = cur]
        /\ UNCHANGED <<status, meta, file, hist, reader>>
    BY <1>1 DEF Place
  <2>2. Control'
    BY <2>1 DEF GoTo, Base, Control, Adding, Loaded
  <2>3. data' \in [Places -> Ops \cup {None}] /\ meta' \in [Places -> Ops \cup {None, Torn}]
    BY <1>0, <2>1 DEF Base, TypeOK
  <2> QED
    BY <2>1, <2>2, <2>3, BaseFiles
<1>2. CASE Describe
  <2>1. /\ wpc = "describe" /\ GoTo("describefill") /\ meta' = [meta EXCEPT ![Canonical] = Torn]
        /\ UNCHANGED <<status, data, file, hist, reader>>
    BY <1>2 DEF Describe
  <2>2. Control'
    BY <2>1 DEF GoTo, Base, Control, Adding, Loaded
  <2>3. data' \in [Places -> Ops \cup {None}] /\ meta' \in [Places -> Ops \cup {None, Torn}]
    BY <2>1 DEF Base, TypeOK
  <2> QED
    BY <2>1, <2>2, <2>3, BaseFiles
<1>3. CASE DescribeFill
  <2>1. /\ wpc = "describefill" /\ meta' = [meta EXCEPT ![Canonical] = cur]
        /\ UNCHANGED <<status, data, file, hist, reader>>
    BY <1>3 DEF DescribeFill
  <2>2. data' \in [Places -> Ops \cup {None}] /\ meta' \in [Places -> Ops \cup {None, Torn}]
    BY <1>0, <2>1 DEF Base, TypeOK
  <2>3. CASE wmode # "Off" /\ GoTo("record")
    <3>1. Control'
      BY <2>1, <2>3 DEF GoTo, Base, Control, Adding, Loaded
    <3> QED
      BY <2>1, <2>2, <2>3, <3>1, BaseFiles
  <2>4. CASE Finish("ok") /\ UNCHANGED <<faults, upsets>>
    BY <2>1, <2>2, <2>4, BaseFinish DEF Base, TypeOK, reader, status
  <2> QED
    BY <1>3, <2>3, <2>4 DEF DescribeFill
<1> QED
  BY <1>1, <1>2, <1>3

LEMMA BaseEnd ==
  ASSUME Base, RecordFill \/ Unlist \/ Abandon
  PROVE  Base'
<1>1. CASE RecordFill
  <2>1. /\ wpc = "recordfill" /\ file' \in {"torn", "whole"} /\ hist' = NewHistory
        /\ Finish("ok") /\ UNCHANGED <<status, data, meta, reader, faults, upsets>>
    BY <1>1 DEF RecordFill, FillHistory
  <2>2. hist' \in Seq(Entry) /\ SoundList(hist', cur)
    BY <2>1, NewHistoryFacts
  <2> QED
    BY <2>1, <2>2, BaseFinish DEF Base, TypeOK, reader, status
<1>2. CASE Unlist
  <2>1. /\ wpc = "unlist" /\ file' = "none" /\ hist' = <<>> /\ rpc' \in {rpc, "lost"}
        /\ Finish("ok")
        /\ UNCHANGED <<status, data, meta, rvid, rhist, rplace, rmeta, rdata, reads, rlone, faults,
                       upsets>>
    BY <1>2 DEF Unlist, RemoveHistory
  <2> QED
    BY <2>1, SoundEmpty, BaseFinish DEF Base, TypeOK, status
<1>3. CASE Abandon
  <2>1. /\ wpc # "idle" /\ faults' = faults + 1 /\ reads + faults < MaxExtras /\ Finish("cut")
        /\ upsets' = upsets \cup {"cut"} /\ UNCHANGED <<status, disk, reader>>
    BY <1>3 DEF Abandon
  <2>2. faults' \in 0 .. MaxExtras
    BY <2>1, Bounds DEF Base, TypeOK
  <2>3. upsets' \subseteq {"cut", "raced", "bypassed"}
    BY <2>1 DEF Base, TypeOK
  <2> QED
    BY <2>1, <2>2, <2>3, BaseFinish DEF Base, TypeOK, reader, disk, status
<1> QED
  BY <1>1, <1>2, <1>3

LEMMA BaseStatus ==
  ASSUME Base, VersioningSet \/ \E m \in Modes : SetVersioning(m)
  PROVE  Base'
<1>1. /\ mode' \in Modes /\ setting' \in Modes \cup {"none"} /\ switches' \in 0 .. MaxSwitches
      /\ UNCHANGED <<disk, writer, reader, faults, outcome, owed, upsets>>
  <2>1. CASE VersioningSet
    BY <2>1 DEF VersioningSet, Base, TypeOK, seen
  <2>2. ASSUME NEW m \in Modes, SetVersioning(m)
        PROVE  /\ mode' \in Modes /\ setting' \in Modes \cup {"none"} /\ switches' \in 0 .. MaxSwitches
               /\ UNCHANGED <<disk, writer, reader, faults, outcome, owed, upsets>>
    BY <2>2, Bounds DEF SetVersioning, Base, TypeOK, Modes
  <2> QED
    BY <2>1, <2>2
<1>2. TypeOK'
  BY <1>1 DEF Base, TypeOK, disk, writer, reader
<1> QED
  BY <1>1, <1>2 DEF Base, Control, NewId, Adding, Loaded, SoundList, disk, writer, reader

LEMMA BaseNext ==
  ASSUME Base, [Next]_vars
  PROVE  Base'
<1>1. CASE ReaderStep
  BY <1>1, BaseReader
<1>2. CASE WriterStep
  <2>1. BeginPut \/ BeginDelete => NewVid \in Vids
    <3>1. BeginPut \/ BeginDelete => cur + 1 \in Ops
      BY Bounds DEF BeginPut, BeginDelete, Begin, Base, TypeOK, Ops
    <3> QED
      BY PlaceFacts, <3>1 DEF NewVid
  <2>2. CASE BeginPut
    <3>1. Begin("put", NewVid, IF mode = "Off" THEN "place" ELSE "seed")
      BY <2>2 DEF BeginPut
    <3> QED
      BY <2>1, <2>2, <3>1, BaseBegin
  <2>3. CASE BeginDelete
    <3>1. Begin("delete", NewVid, IF mode = "Off" THEN "drop" ELSE "seed")
      BY <2>3 DEF BeginDelete
    <3> QED
      BY <2>1, <2>3, <3>1, BaseBegin
  <2>4. CASE \E v \in Vids : v <= cur /\ BeginRemove(v)
    BY <2>4, BaseBegin DEF BeginRemove
  <2> QED
    BY <1>2, <2>2, <2>3, <2>4, BaseSeed, BaseHistory, BaseLoad, BaseDrop, BaseMove, BasePlace,
       BaseEnd DEF WriterStep
<1>3. CASE VersioningSet \/ \E m \in Modes : SetVersioning(m)
  BY <1>3, BaseStatus
<1>4. CASE UNCHANGED vars
  BY <1>4 DEF vars, status, disk, writer, reader, seen, Base, TypeOK, Control, NewId, Adding, Loaded,
              SoundList
<1> QED
  BY <1>1, <1>2, <1>3, <1>4 DEF Next

LEMMA BaseInductive == Spec => []Base
<1>1. Base /\ [Next]_vars => Base'
  BY BaseNext
<1> QED
  BY <1>1, BaseInit, PTL DEF Spec

\* The variables keep their types (FsVersions): the lists hold entries only, the
\* operations' numbers stay in range, and a removed history lists nothing.
THEOREM VersionsTypeCorrect == Spec => []TypeOK
<1>1. Base => TypeOK
  BY DEF Base
<1> QED
  BY <1>1, BaseInductive, PTL

-------------------------------------------------------------------------------
(* The operations, as long as nothing goes wrong *)

LEMMA SmoothInit == Init => Smooth
<1> SUFFICES ASSUME Init PROVE Smooth
  OBVIOUS
<1>1. ~ Loaded /\ Listing = <<>> /\ owed = {}
  BY PlaceFacts DEF Init, Loaded, Listing
<1>2. \A q \in Places : data[q] = None /\ meta[q] = None
  BY DEF Init
<1>3. Fits(<<>>)
  BY <1>2, LaidEmpty DEF Fits
<1>4. Lists(<<>>, owed)
  BY <1>1 DEF Lists
<1>5. FileState
  BY DEF Init, FileState, Adding
<1>6. GivenUp /\ ReaderFound /\ outcome # "error"
  BY DEF Init, GivenUp, ReaderFound
<1>7. ArchiveOwn
  BY <1>2, PlaceFacts DEF ArchiveOwn
<1> QED
  BY <1>1, <1>3, <1>4, <1>5, <1>6, <1>7 DEF Smooth, AtRest, AtWork

LEMMA ListingFacts ==
  ASSUME Base
  PROVE  /\ Listing \in Seq(Entry) /\ SoundList(Listing, cur)
         /\ file # "none" => Listing = hist
         /\ Unseeded => Listing = LegacyHistory
         /\ file = "none" /\ ~ Unseeded => Listing = <<>>
         /\ file = "whole" \/ (file = "none" /\ ~ Unseeded) => Listing = ReadHistory
<1>1. CASE file # "none"
  BY <1>1 DEF Listing, Base, TypeOK, Unseeded, ReadHistory
<1>2. CASE Unseeded
  BY <1>2, LegacySound DEF Listing, Unseeded
<1>3. CASE file = "none" /\ ~ Unseeded
  BY <1>3, SoundEmpty DEF Listing, Unseeded, ReadHistory
<1> QED
  BY <1>1, <1>2, <1>3

\* The files of the one version "null", or of none, leave the archive empty.
LEMMA OnlyCanonical ==
  ASSUME Base, file = "none", Fits(Listing), Lists(Listing, owed)
  PROVE  /\ \A q \in Places \ {Canonical} : data[q] = None /\ meta[q] = None
         /\ \A x \in owed : x.vid = Null
<1>1. \A k \in 1 .. Len(Listing) : Listing[k].vid = Null /\ k = 1
  <2>1. CASE Unseeded
    <3>1. Listing = LegacyHistory
      BY <2>1, ListingFacts
    <3>2. Len(LegacyHistory) = 1 /\ \A k \in 1 .. Len(LegacyHistory) : LegacyHistory[k].vid = Null
      BY <2>1, LegacySound
    <3> HIDE DEF Listing, LegacyHistory
    <3> QED
      BY <3>1, <3>2
  <2>2. CASE ~ Unseeded
    BY <2>2, ListingFacts, SoundEmpty
  <2> QED
    BY <2>1, <2>2
<1>2. \A k \in 1 .. Len(Listing) : Spot(Listing, TRUE, k) = Canonical
  BY <1>1 DEF Spot
<1>3. \A q \in Places \ {Canonical} : data[q] = None
  BY <1>2 DEF Fits, Laid
<1>4. \A q \in Places \ {Canonical} : meta[q] = None
  BY <1>2 DEF Fits, Laid
<1>5. \A x \in owed : x.vid = Null
  BY <1>1 DEF Lists
<1> QED
  BY <1>3, <1>4, <1>5

\* While the writer is at work, the reader that was alone with the files is not.
LEMMA ReaderAway ==
  ASSUME ReaderFound, wpc # "idle", UNCHANGED <<rpc, rvid, rplace, rmeta, rdata, rlone>>
  PROVE  ReaderFound'
<1>1. ~ rlone'
  BY DEF ReaderFound
<1> QED
  BY <1>1 DEF ReaderFound

LEMMA SmoothBegin ==
  ASSUME Base, Smooth, NEW o \in {"put", "delete", "remove"}, NEW v \in Vids, NEW pc,
         Begin(o, v, pc), o # "remove" => v = NewVid,
         pc = IF o = "remove" \/ mode # "Off" THEN "seed" ELSE IF o = "put" THEN "place" ELSE "drop",
         upsets' = {}
  PROVE  Smooth'
<1>1. /\ wpc = "idle" /\ cur' = cur + 1 /\ op' = o /\ wvid' = v /\ wmode' = mode /\ wpc' = pc
      /\ outcome' = "none" /\ owed' \subseteq owed /\ rlone' = FALSE
      /\ owed' = IF o = "remove" \/ v = Null THEN {x \in owed : x.vid # v} ELSE owed
      /\ UNCHANGED <<status, disk, pend, victim, shift, rpc, rvid, rhist, rplace, rmeta, rdata,
                     reads, switches, faults>>
  BY DEF Begin
<1>2. rpc \notin {"seeding", "seedfill"} /\ (o # "remove" /\ mode = "Off" => file = "none")
  BY DEF Begin
<1>3. op = "none" /\ pend = <<>> /\ victim = Canonical /\ shift = "stay"
  BY <1>1 DEF Base, Control
<1>4. /\ pc \in {"seed", "place", "drop"}
      /\ pc \in {"place", "drop"} <=> o # "remove" /\ mode = "Off"
      /\ pc = "place" => o = "put"
      /\ pc = "drop" => o = "delete"
  OBVIOUS
<1>5. ~ Loaded
  BY <1>1 DEF Loaded
<1>6. Fits(Listing) /\ Lists(Listing, owed) /\ Listing' = Listing
  BY <1>1, <1>5 DEF Smooth, AtRest, Listing, LegacyHistory, disk
<1>7. FileState'
  BY <1>1, <1>2, <1>3, <1>4 DEF Smooth, FileState, Adding, disk
<1>8. AtRest'
  BY <1>1, <1>6 DEF AtRest, Fits, Lists, disk
<1>9. AtWork'
  <2>1. SUFFICES ASSUME pc \in {"place", "drop"}, mode = "Off", o # "remove", file = "none"
        PROVE  AtWorkLaid' /\ Lists(pend', owed')
    BY <1>1, <1>2, <1>4 DEF AtWork, Loaded
  <2>2. /\ \A q \in Places \ {Canonical} : data[q] = None /\ meta[q] = None
        /\ \A x \in owed : x.vid = Null
    BY <1>6, <2>1, OnlyCanonical
  <2>3. v = Null
    BY <2>1 DEF NewVid
  <2>4. owed' = {}
    BY <1>1, <2>2, <2>3
  <2>5. Lists(pend', owed')
    BY <2>4 DEF Lists
  <2>6. DataHead' = FALSE /\ MetaHead' = FALSE /\ DataFree' = {Canonical} /\ MetaFree' = {Canonical}
    BY <1>1, <1>3, <1>4, <2>1 DEF DataHead, MetaHead, DataFree, MetaFree, Taken
  <2>7. Laid(data, <<>>, FALSE, {Canonical}) /\ Laid(meta, <<>>, FALSE, {Canonical})
    BY <2>2, LaidEmpty
  <2>8. AtWorkLaid'
    <3>1. pend' = <<>> /\ Len(<<>>) = 0 /\ wpc' \in {"place", "drop"} /\ data' = data /\ meta' = meta
      BY <1>1, <1>3, <2>1 DEF disk
    <3>2. Laid(data, pend, DataHead, DataFree)' /\ Laid(meta, pend, MetaHead, MetaFree)'
      BY <3>1, <2>6, <2>7
    <3> QED
      BY <3>1, <3>2 DEF AtWorkLaid
  <2> QED
    BY <2>5, <2>8
<1>10. GivenUp'
  BY <1>1 DEF GivenUp
<1>11. ArchiveOwn' /\ ReaderFound'
  BY <1>1 DEF Smooth, ArchiveOwn, ReaderFound, disk
<1> QED
  BY <1>1, <1>7, <1>8, <1>9, <1>10, <1>11 DEF Smooth

LEMMA SmoothFinish ==
  ASSUME Smooth, wpc # "idle", NEW r \in {"ok", "nosuchversion"}, Finish(r),
         UNCHANGED <<rpc, rvid, rplace, rmeta, rdata, rlone>>,
         file' # "torn", file' # "none" => hist' # <<>>,
         ArchiveOwn', Fits(Listing)', Lists(Listing, owed)'
  PROVE  Smooth'
<1>1. wpc' = "idle" /\ op' = "none" /\ outcome' = r
  BY DEF Finish
<1>2. FileState'
  BY <1>1 DEF Smooth, FileState, Adding
<1>3. AtRest' /\ AtWork'
  BY <1>1 DEF AtRest, AtWork, Loaded
<1>4. GivenUp'
  BY <1>1 DEF GivenUp
<1>5. ReaderFound'
  BY ReaderAway DEF Smooth
<1> QED
  BY <1>1, <1>2, <1>3, <1>4, <1>5 DEF Smooth

LEMMA SmoothSeed ==
  ASSUME Base, Smooth, Seed
  PROVE  Smooth'
<1>1. /\ wpc = "seed" /\ wpc' \in {"seeding", "load"}
      /\ wpc' = "seeding" => Unseeded /\ pend' = LegacyHistory
      /\ wpc' = "load" => ~ Unseeded
      /\ UNCHANGED <<op, wmode, wvid, cur, victim, shift, seen, status, disk, reader>>
  BY DEF Seed, GoTo
<1>2. Fits(Listing) /\ Lists(Listing, owed) /\ Listing' = Listing /\ ~ Loaded
  BY <1>1 DEF Smooth, AtRest, Loaded, Listing, LegacyHistory, disk
<1>3. (Unseeded <=> Unseeded') /\ LegacyHistory' = LegacyHistory
  BY <1>1 DEF Unseeded, LegacyHistory, disk
<1>4. FileState'
  BY <1>1, <1>3 DEF Smooth, FileState, Adding, disk, reader
<1>5. AtRest' /\ AtWork'
  BY <1>1, <1>2 DEF AtRest, AtWork, Loaded, Fits, Lists, disk, seen
<1>6. GivenUp' /\ ArchiveOwn'
  BY <1>1 DEF Smooth, GivenUp, ArchiveOwn, disk, seen
<1>7. ReaderFound'
  BY <1>1, ReaderAway DEF Smooth, reader
<1> QED
  BY <1>1, <1>4, <1>5, <1>6, <1>7 DEF Smooth, seen

LEMMA SmoothHistory ==
  ASSUME Base, Smooth, Seeding \/ SeedFill \/ Record
  PROVE  Smooth'
<1>0. wpc # "idle" /\ UNCHANGED <<op, wmode, wvid, cur, pend, victim, shift, seen, status, data, meta, reader>>
  BY DEF Seeding, SeedFill, Record, Truncate, GoTo
<1>1. GivenUp' /\ ArchiveOwn'
  BY <1>0 DEF Smooth, GivenUp, ArchiveOwn, seen
<1>2. ReaderFound'
  BY <1>0, ReaderAway DEF Smooth, reader
<1>3. outcome' # "error"
  BY <1>0 DEF Smooth, seen
<1>4. CASE Seeding
  <2>1. wpc = "seeding" /\ wpc' = "seedfill" /\ file' = "torn" /\ hist' = pend
    BY <1>4 DEF Seeding, Truncate, TruncateHistory, GoTo
  <2>2. pend = LegacyHistory /\ Unseeded
    BY <2>1 DEF Smooth, FileState
  <2>3. Listing = pend /\ pend # <<>>
    BY <2>2, ListingFacts, LegacySound
  <2>4. Listing' = Listing
    BY <2>1, <2>3 DEF Listing
  <2>5. ~ (Adding /\ wmode = "Off")
    BY <2>1 DEF Base, Control
  <2>6. FileState'
    BY <1>0, <2>1, <2>3, <2>5 DEF Smooth, FileState, Adding, reader
  <2>7. Fits(Listing) /\ Lists(Listing, owed)
    BY <2>1 DEF Smooth, AtRest, Loaded
  <2>8. AtRest' /\ AtWork'
    BY <1>0, <2>1, <2>4, <2>7 DEF AtRest, AtWork, Loaded, Fits, Lists, seen
  <2> QED
    BY <1>1, <1>2, <1>3, <2>6, <2>8 DEF Smooth
<1>5. CASE SeedFill
  <2>1. wpc = "seedfill" /\ wpc' = "load" /\ FillHistory(pend)
    BY <1>5 DEF SeedFill, GoTo
  <2>2. file = "torn" /\ hist = pend /\ hist # <<>>
    BY <2>1 DEF Smooth, FileState
  <2>3. file' = "whole" /\ hist' = hist
    BY <2>1, <2>2 DEF FillHistory
  <2>4. Listing' = Listing
    BY <2>2, <2>3 DEF Listing
  <2>5. ~ (Adding /\ wmode = "Off")
    BY <2>1 DEF Base, Control
  <2>6. FileState'
    BY <1>0, <2>1, <2>2, <2>3, <2>5 DEF Smooth, FileState, Adding, reader, Unseeded
  <2>7. Fits(Listing) /\ Lists(Listing, owed)
    BY <2>1 DEF Smooth, AtRest, Loaded
  <2>8. AtRest' /\ AtWork'
    BY <1>0, <2>1, <2>4, <2>7 DEF AtRest, AtWork, Loaded, Fits, Lists, seen
  <2> QED
    BY <1>1, <1>2, <1>3, <2>6, <2>8 DEF Smooth
<1>6. CASE Record
  <2>1. wpc = "record" /\ wpc' = "recordfill" /\ file' = "torn" /\ hist' = NewHistory
    BY <1>6 DEF Record, Truncate, TruncateHistory, GoTo
  <2>2. NewHistory # <<>> /\ NewHistory' = NewHistory
    BY <1>0, <2>1, NewHistoryFacts DEF NewHistory
  <2>3. ~ (Adding /\ wmode = "Off")
    BY <2>1 DEF Base, Control
  <2>4. FileState'
    BY <1>0, <2>1, <2>2, <2>3 DEF Smooth, FileState, Adding, reader
  <2>5. Loaded /\ Loaded'
    BY <2>1 DEF Loaded
  <2>6. /\ DataHead' = DataHead /\ MetaHead' = MetaHead
        /\ DataFree' = DataFree /\ MetaFree' = MetaFree
    BY <1>0, <2>1 DEF DataHead, MetaHead, DataFree, MetaFree, Taken
  <2>7. AtWorkLaid /\ Lists(pend, owed)
    BY <2>5 DEF Smooth, AtWork
  <2>8. AtWorkLaid'
    BY <1>0, <2>1, <2>6, <2>7 DEF AtWorkLaid
  <2>9. AtRest' /\ AtWork'
    BY <1>0, <2>5, <2>7, <2>8 DEF AtRest, AtWork, Lists, seen
  <2> QED
    BY <1>1, <1>2, <1>3, <2>4, <2>9 DEF Smooth
<1> QED
  BY <1>4, <1>5, <1>6

\* A step in the midst of an operation that only touches the files at the places.
LEMMA SmoothFiles ==
  ASSUME Base, Smooth, Loaded, wpc \notin {"record", "recordfill"},
         NEW pc \in {"dropmeta", "demote", "demotemeta", "promote", "promotemeta",
                     "place", "describe", "describefill", "record", "unlist"},
         GoTo(pc), UNCHANGED <<file, hist, reader>>, ArchiveOwn', AtWorkLaid'
  PROVE  Smooth'
<1>1. /\ wpc' = pc /\ wpc # "idle" /\ wpc \notin {"seeding", "seedfill", "load"}
      /\ UNCHANGED <<op, wmode, wvid, cur, pend, victim, shift, seen, reader>>
  BY DEF GoTo, Loaded
<1>2. Loaded'
  BY <1>1 DEF Loaded
<1>3. FileState'
  BY <1>1 DEF Smooth, FileState, Adding, reader
<1>4. AtRest' /\ AtWork'
  BY <1>1, <1>2 DEF Smooth, AtRest, AtWork, Lists, seen
<1>5. GivenUp' /\ outcome' # "error"
  BY <1>1 DEF Smooth, GivenUp, seen
<1>6. ReaderFound'
  BY <1>1, ReaderAway DEF Smooth, reader
<1> QED
  BY <1>3, <1>4, <1>5, <1>6 DEF Smooth

\* The list is loaded: c says whether the head of what stays of it is at the
\* canonical place, d whether the writer takes it to be.
LEMMA SmoothLoaded ==
  ASSUME Base, Smooth, wpc = "load", pend' \in Seq(Entry), NEW c \in BOOLEAN, NEW d \in BOOLEAN,
         c = d \/ pend' = <<>> \/ pend'[1].marker,
         wpc' \in {"drop", "demote", "promote", "place", "unlist", "record"},
         DataHead' = d, MetaHead' = d, ~ Taken',
         NEW X, X = (IF wpc' = "drop" THEN {victim'} ELSE {}),
         Laid(data, pend', c, X), Laid(meta, pend', c, X),
         wpc' = "drop" => \A k \in 1 .. Len(pend') : Spot(pend', c, k) # victim',
         wpc' = "record" => op # "put",
         Lists(pend', owed),
         UNCHANGED <<op, wmode, wvid, cur, status, disk, reader, seen>>
  PROVE  Smooth'
<1>1. Laid(data, pend', d, X) /\ Laid(meta, pend', d, X)
  BY LaidHead
<1>2. wpc' = "drop" => \A k \in 1 .. Len(pend') : ~ pend'[k].marker => Spot(pend', d, k) # victim'
  <2>1. \A k \in 1 .. Len(pend') : ~ pend'[k].marker /\ c # d => k # 1
    OBVIOUS
  <2> QED
    BY <2>1 DEF Spot
<1>3. DataFree' = X /\ MetaFree' = X
  BY DEF DataFree, MetaFree
<1>4. data' = data /\ meta' = meta
  BY DEF disk
<1>5. (Laid(data, pend, DataHead, DataFree) /\ Laid(meta, pend, MetaHead, MetaFree))'
  BY <1>1, <1>3, <1>4
<1>6. AtWorkLaid'
  BY <1>2, <1>5 DEF AtWorkLaid
<1>7. FileState'
  BY DEF Smooth, FileState, Adding, reader, disk
<1>8. AtRest' /\ AtWork'
  BY <1>6 DEF AtRest, AtWork, Loaded, Lists, seen
<1>9. GivenUp' /\ outcome' # "error"
  BY DEF Smooth, GivenUp, seen
<1>10. ReaderFound'
  BY ReaderAway DEF Smooth, reader
<1>11. ArchiveOwn'
  BY DEF Smooth, ArchiveOwn, disk
<1> QED
  BY <1>7, <1>8, <1>9, <1>10, <1>11 DEF Smooth

LEMMA SmoothLoad ==
  ASSUME Base, Smooth, Load
  PROVE  Smooth'
<1> DEFINE h == ReadHistory
<1>0. wpc = "load" /\ UNCHANGED <<status, disk, reader>>
  BY DEF Load
<1>1. h \in Seq(Entry) /\ SoundList(h, cur)
  BY ReadHistoryFacts
<1>2. file # "torn" /\ ~ Unseeded /\ (file # "none" => hist # <<>>)
  BY <1>0 DEF Smooth, FileState
<1>3. h = Listing
  BY <1>2, ListingFacts DEF Base, TypeOK
<1>4. Fits(Listing) /\ Lists(Listing, owed)
  BY <1>0 DEF Smooth, AtRest, Loaded
<1>5. Laid(data, h, TRUE, {}) /\ Laid(meta, h, TRUE, {}) /\ Lists(h, owed)
  BY <1>3, <1>4 DEF Fits
<1>6. op \in {"put", "delete", "remove"} /\ (Adding => wmode # "Off")
  BY <1>0 DEF Base, TypeOK, Control, Adding
<1> HIDE DEF h
<1>7. CASE op # "remove" /\ LoadForWrite /\ UNCHANGED <<op, wmode, wvid, cur, seen>>
  <2>1. PICK i \in 0 .. Len(h) :
           /\ i # 0 => wmode = "Suspended" /\ h[i].vid = Null
           /\ i = 0 => pend' = h
           /\ i # 0 => pend' = RemoveAt(h, i)
           /\ shift' = IF i # 1 /\ pend' # <<>> /\ ~ pend'[1].marker THEN "demote" ELSE "stay"
           /\ i # 0 /\ ~ h[i].marker => wpc' = "drop" /\ victim' = Spot(h, TRUE, i)
           /\ i = 0 \/ h[i].marker => wpc' = AfterDrop(shift', pend')
    BY <1>0, <1>7, LoadForWriteFacts DEF h
  <2> DEFINE c == i # 1
             d == shift' = "demote"
  <2>2. Adding /\ wmode # "Off"
    BY <1>6, <1>7 DEF Adding
  <2>3. /\ d => wpc' \in {"drop", "demote"}
        /\ ~ d => wpc' \in {"drop", "place", "record"}
        /\ wpc' = "record" => op # "put"
        /\ wpc' = "drop" => i # 0 /\ ~ h[i].marker /\ victim' = Spot(h, TRUE, i)
    <3>1. AfterDrop(shift', pend') \in {"demote", "place", "record"}
          /\ (d => AfterDrop(shift', pend') = "demote")
          /\ (~ d => AfterDrop(shift', pend') \in {"place", "record"})
          /\ (AfterDrop(shift', pend') = "record" => op # "put")
      BY <1>6, <1>7, <2>1, <2>2, AfterMoveFacts DEF AfterDrop
    <3> QED
      BY <2>1, <3>1
  <2>4. c = d \/ pend' = <<>> \/ pend'[1].marker
    BY <2>1
  <2>5. DataHead' = d /\ MetaHead' = d /\ ~ Taken'
    BY <1>7, <2>2, <2>3 DEF DataHead, MetaHead, Taken
  <2>6. CASE i = 0
    <3>1. pend' = h /\ c = TRUE /\ wpc' # "drop"
      BY <2>1, <2>3, <2>6
    <3> HIDE DEF c, d
    <3> QED
      BY <1>0, <1>1, <1>5, <1>7, <2>3, <2>4, <2>5, <3>1, SmoothLoaded DEF d
  <2>7. CASE i # 0
    <3>1. i \in 1 .. Len(h) /\ pend' = RemoveAt(h, i) /\ h[i].vid = Null /\ wmode = "Suspended"
      BY <2>1, <2>7
    <3>2. pend' \in Seq(Entry)
      BY <1>1, <3>1, RestFacts
    <3>3. \A x \in owed : x.vid # h[i].vid
      <4>1. wvid = Null /\ op # "none"
        BY <2>2, <3>1 DEF Base, Control, Adding
      <4> QED
        BY <4>1, <3>1 DEF Smooth, GivenUp
    <3>4. Lists(pend', owed)
      BY <1>1, <1>5, <3>1, <3>3, ListsRemoved
    <3> DEFINE v == Spot(h, TRUE, i)
    <3>5. /\ Laid(data, pend', c, {v}) /\ Laid(meta, pend', c, {v})
          /\ h[i].marker => Laid(data, pend', c, {}) /\ Laid(meta, pend', c, {})
          /\ \A k \in 1 .. Len(pend') : Spot(pend', c, k) # v
      <4>1. ASSUME NEW b \in BOOLEAN, b <=> i # 1,
                 NEW Y, Y = {Spot(h, TRUE, i)} \/ (Y = {} /\ h[i].marker)
            PROVE  Laid(data, pend', b, Y) /\ Laid(meta, pend', b, Y)
        <5>1. Laid(data, pend', b, Y)
          BY <1>1, <1>5, <3>1, <4>1, LaidRemoved
        <5>2. Laid(meta, pend', b, Y)
          BY <1>1, <1>5, <3>1, <4>1, LaidRemoved
        <5> QED
          BY <5>1, <5>2
      <4>2. ASSUME NEW b \in BOOLEAN, b <=> i # 1, NEW k \in 1 .. Len(pend')
            PROVE  Spot(pend', b, k) # Spot(h, TRUE, i)
        BY <1>1, <3>1, <4>2, SpotFree
      <4>3. c \in BOOLEAN /\ (c <=> i # 1) /\ v = Spot(h, TRUE, i)
        OBVIOUS
      <4> HIDE DEF c, v
      <4> QED
        BY <4>1, <4>2, <4>3
    <3>6. h[i].marker \in BOOLEAN /\ (wpc' = "drop" <=> ~ h[i].marker)
      BY <1>1, <2>1, <2>3, <2>7, <3>1, EntryFacts
    <3>7. wpc' = "drop" => victim' = v
      BY <2>3
    <3> DEFINE X == IF wpc' = "drop" THEN {victim'} ELSE {}
    <3>8. Laid(data, pend', c, X) /\ Laid(meta, pend', c, X)
      BY <3>5, <3>6, <3>7
    <3>9. wpc' = "drop" => \A k \in 1 .. Len(pend') : Spot(pend', c, k) # victim'
      BY <3>5, <3>7
    <3>10. wpc' \in {"drop", "demote", "promote", "place", "unlist", "record"}
           /\ (wpc' = "record" => op # "put") /\ c \in BOOLEAN /\ d \in BOOLEAN
      BY <2>3
    <3> HIDE DEF c, d, X, v
    <3>11. X = IF wpc' = "drop" THEN {victim'} ELSE {}
      BY DEF X
    <3> QED
      BY <1>0, <1>7, <2>4, <2>5, <3>2, <3>4, <3>8, <3>9, <3>10, <3>11, SmoothLoaded
  <2> QED
    BY <2>6, <2>7
<1>8. CASE op = "remove" /\ LoadForRemove /\ UNCHANGED <<op, wmode, wvid, cur, seen>>
  <2>1. PICK i \in 1 .. Len(h) :
           /\ h[i].vid = wvid
           /\ pend' = RemoveAt(h, i)
           /\ shift' = IF i = 1 /\ pend' # <<>> /\ ~ pend'[1].marker THEN "promote" ELSE "stay"
           /\ victim' = Spot(h, TRUE, i)
           /\ ~ h[i].marker => wpc' = "drop"
           /\ h[i].marker => wpc' = AfterDrop(shift', pend')
    BY <1>8, LoadForRemoveFacts DEF h
  <2> DEFINE c == i # 1
             d == shift' = "stay"
             v == Spot(h, TRUE, i)
             X == IF wpc' = "drop" THEN {victim'} ELSE {}
  <2>2. /\ d => wpc' \in {"drop", "unlist", "record"}
        /\ ~ d => wpc' \in {"drop", "promote"}
        /\ wpc' = "drop" <=> ~ h[i].marker
    <3>1. /\ ~ d => AfterDrop(shift', pend') = "promote"
          /\ d => AfterDrop(shift', pend') \in {"unlist", "record"}
      BY <1>8, <2>1, AfterMoveFacts DEF AfterDrop
    <3>2. h[i].marker \in BOOLEAN
      BY <1>1, EntryFacts
    <3> QED
      BY <2>1, <3>1, <3>2
  <2>3. c = d \/ pend' = <<>> \/ pend'[1].marker
    BY <2>1
  <2>4. DataHead' = d /\ MetaHead' = d /\ ~ Taken'
    BY <1>8, <2>2 DEF DataHead, MetaHead, Taken
  <2>5. pend' \in Seq(Entry)
    BY <1>1, <2>1, RestFacts
  <2>6. \A x \in owed : x.vid # h[i].vid
    BY <1>8, <2>1 DEF Smooth, GivenUp
  <2>7. Lists(pend', owed)
    BY <1>1, <1>5, <2>1, <2>6, ListsRemoved
  <2>8. /\ Laid(data, pend', c, {v}) /\ Laid(meta, pend', c, {v})
        /\ h[i].marker => Laid(data, pend', c, {}) /\ Laid(meta, pend', c, {})
        /\ \A k \in 1 .. Len(pend') : Spot(pend', c, k) # v
    <3>1. ASSUME NEW b \in BOOLEAN, b <=> i # 1,
               NEW Y, Y = {Spot(h, TRUE, i)} \/ (Y = {} /\ h[i].marker)
          PROVE  Laid(data, pend', b, Y) /\ Laid(meta, pend', b, Y)
      <4>1. Laid(data, pend', b, Y)
        BY <1>1, <1>5, <2>1, <3>1, LaidRemoved
      <4>2. Laid(meta, pend', b, Y)
        BY <1>1, <1>5, <2>1, <3>1, LaidRemoved
      <4> QED
        BY <4>1, <4>2
    <3>2. ASSUME NEW b \in BOOLEAN, b <=> i # 1, NEW k \in 1 .. Len(pend')
          PROVE  Spot(pend', b, k) # Spot(h, TRUE, i)
      <4>1. pend' = RemoveAt(h, i)
        BY <2>1
      <4> QED
        BY <1>1, <3>2, <4>1, SpotFree
    <3>3. c \in BOOLEAN /\ (c <=> i # 1) /\ v = Spot(h, TRUE, i)
      OBVIOUS
    <3> HIDE DEF c, v
    <3> QED
      BY <3>1, <3>2, <3>3
  <2>9. Laid(data, pend', c, X) /\ Laid(meta, pend', c, X)
    BY <2>1, <2>2, <2>8
  <2>10. wpc' = "drop" => \A k \in 1 .. Len(pend') : Spot(pend', c, k) # victim'
    BY <2>1, <2>8
  <2>11. wpc' \in {"drop", "demote", "promote", "place", "unlist", "record"}
         /\ op # "put" /\ c \in BOOLEAN /\ d \in BOOLEAN
    BY <1>8, <2>2
  <2> HIDE DEF c, d, X, v
  <2>12. X = IF wpc' = "drop" THEN {victim'} ELSE {}
    BY DEF X
  <2> QED
    BY <1>0, <1>8, <2>3, <2>4, <2>5, <2>7, <2>9, <2>10, <2>11, <2>12, SmoothLoaded
<1>9. CASE Finish("nosuchversion") /\ UNCHANGED <<faults, upsets>> /\ op = "remove"
  <2>1. owed' = owed
    BY <1>9 DEF Finish
  <2>2. Listing' = Listing
    BY <1>0 DEF Listing, LegacyHistory, disk
  <2>3. Fits(Listing)' /\ Lists(Listing, owed)' /\ ArchiveOwn'
    BY <1>0, <1>4, <2>1, <2>2 DEF Fits, Lists, disk, Smooth, ArchiveOwn
  <2> QED
    BY <1>0, <1>2, <1>9, <2>3, SmoothFinish DEF disk, reader
<1> QED
  BY <1>7, <1>8, <1>9 DEF Load

\* In an operation: the files are laid out, and typed.
LEMMA AtWorkFacts ==
  ASSUME Base, Smooth, Loaded
  PROVE  /\ AtWorkLaid /\ Lists(pend, owed) /\ pend \in Seq(Entry) /\ SoundList(pend, cur)
         /\ data \in [Places -> Nat] /\ meta \in [Places -> Nat]
         /\ DataHead \in BOOLEAN /\ MetaHead \in BOOLEAN
<1>1. Ops \cup {None} \subseteq Nat /\ Ops \cup {None, Torn} \subseteq Nat
  BY Bounds DEF Ops, None, Torn
<1>2. data \in [Places -> Nat] /\ meta \in [Places -> Nat]
  BY <1>1 DEF Base, TypeOK
<1>3. DataHead \in BOOLEAN /\ MetaHead \in BOOLEAN
  BY DEF DataHead, MetaHead
<1> QED
  BY <1>2, <1>3 DEF Base, TypeOK, Smooth, AtWork

LEMMA SmoothDrop ==
  ASSUME Base, Smooth, Drop
  PROVE  Smooth'
<1>1. /\ wpc = "drop" /\ GoTo("dropmeta") /\ data' = [data EXCEPT ![victim] = None]
      /\ UNCHANGED <<status, meta, file, hist, reader>>
  BY DEF Drop
<1>2. /\ wpc' = "dropmeta"
      /\ UNCHANGED <<op, wmode, wvid, cur, pend, victim, shift>>
  BY <1>1 DEF GoTo
<1>3. Loaded /\ victim \in Places
  BY <1>1 DEF Loaded, Base, TypeOK
<1>4. /\ AtWorkLaid /\ pend \in Seq(Entry) /\ data \in [Places -> Nat] /\ DataHead \in BOOLEAN
  BY <1>3, AtWorkFacts
<1>5. /\ Laid(data, pend, DataHead, {victim}) /\ Laid(meta, pend, MetaHead, {victim})
      /\ \A k \in 1 .. Len(pend) : ~ pend[k].marker => Spot(pend, DataHead, k) # victim
  BY <1>1, <1>4 DEF AtWorkLaid, DataFree, MetaFree
<1>6. Laid(data', pend, DataHead, {})
  BY <1>1, <1>3, <1>4, <1>5, LaidCleared
<1>7. DataHead' = DataHead /\ MetaHead' = MetaHead /\ DataFree' = {} /\ MetaFree' = {victim}
  BY <1>1, <1>2 DEF DataHead, MetaHead, DataFree, MetaFree, Taken
<1>8. Laid(data, pend, DataHead, DataFree)' /\ Laid(meta, pend, MetaHead, MetaFree)'
  BY <1>1, <1>2, <1>5, <1>6, <1>7
<1>9. AtWorkLaid'
  BY <1>2, <1>5, <1>7, <1>8 DEF AtWorkLaid
<1>10. ArchiveOwn'
  <2>1. \A v \in Places : data'[v] \in {None, data[v]}
    BY <1>1, <1>4
  <2> QED
    BY <1>1, <2>1, PlaceFacts DEF Smooth, ArchiveOwn
<1> QED
  BY <1>1, <1>3, <1>9, <1>10, SmoothFiles

\* An adding operation without versioning: no history, and nothing listed.
LEMMA OffFacts ==
  ASSUME Base, Smooth, Loaded, Adding, wmode = "Off"
  PROVE  file = "none" /\ pend = <<>> /\ owed = {} /\ hist = <<>> /\ shift = "stay"
<1>1. file = "none" /\ hist = <<>>
  BY DEF Smooth, FileState, Base, TypeOK
<1>2. pend = <<>>
  BY DEF Base, Control
<1>3. shift = "stay"
  BY <1>2 DEF Base, TypeOK, Control
<1>4. Lists(<<>>, owed)
  BY <1>2, AtWorkFacts
<1>5. owed = {}
  BY <1>4, SoundEmpty DEF Lists
<1> QED
  BY <1>1, <1>2, <1>3, <1>5

LEMMA SmoothDropMeta ==
  ASSUME Base, Smooth, DropMeta
  PROVE  Smooth'
<1>1. /\ wpc = "dropmeta" /\ meta' = [meta EXCEPT ![victim] = None]
      /\ UNCHANGED <<status, data, file, hist, reader>>
  BY DEF DropMeta
<1>2. Loaded /\ victim \in Places /\ op \in {"put", "delete", "remove"}
  BY <1>1 DEF Loaded, Base, TypeOK, Control
<1>3. /\ AtWorkLaid /\ pend \in Seq(Entry) /\ meta \in [Places -> Nat]
      /\ DataHead \in BOOLEAN /\ MetaHead \in BOOLEAN
  BY <1>2, AtWorkFacts
<1>4. DataHead = MetaHead
  BY <1>1 DEF DataHead, MetaHead
<1>5. /\ Laid(data, pend, DataHead, {}) /\ Laid(meta, pend, MetaHead, {victim})
      /\ \A k \in 1 .. Len(pend) : ~ pend[k].marker => Spot(pend, DataHead, k) # victim
  BY <1>1, <1>3 DEF AtWorkLaid, DataFree, MetaFree, Taken
<1>6. \A k \in 1 .. Len(pend) : ~ pend[k].marker => Spot(pend, MetaHead, k) # victim
  BY <1>4, <1>5
<1>7. Laid(meta', pend, MetaHead, {})
  BY <1>1, <1>2, <1>3, <1>5, <1>6, LaidCleared
<1>8. ArchiveOwn'
  <2>1. \A v \in Places : meta'[v] \in {None, meta[v]}
    BY <1>1, <1>3
  <2> QED
    BY <1>1, <2>1, PlaceFacts DEF Smooth, ArchiveOwn
<1>9. CASE AfterDrop(shift, pend) # "return" /\ GoTo(AfterDrop(shift, pend))
  <2>1. /\ wpc' = AfterDrop(shift, pend)
        /\ UNCHANGED <<op, wmode, wvid, cur, pend, victim, shift>>
    BY <1>9 DEF GoTo
  <2>2. /\ shift \in {"stay", "demote", "promote"}
        /\ shift # "stay" => wpc' = shift
        /\ shift = "stay" => /\ wpc' \in {"place", "unlist", "record"}
                             /\ wpc' = "place" <=> op = "put"
                             /\ wpc' = "unlist" => op = "remove"
        /\ shift = "promote" <=> op = "remove" /\ shift # "stay"
    BY <1>2, <1>9, <2>1, AfterMoveFacts DEF AfterDrop, Base, TypeOK, Control, Adding
  <2>3. DataHead' = DataHead /\ MetaHead' = MetaHead
    BY <1>1, <2>1, <2>2 DEF DataHead, MetaHead
  <2>4. DataFree' = MetaFree' /\ DataFree' \in {{}, {Canonical}}
    BY <2>1, <2>2 DEF DataFree, MetaFree
  <2>5. Laid(data, pend, DataHead, DataFree)' /\ Laid(meta, pend, MetaHead, MetaFree)'
    <3>1. Laid(data, pend, DataHead, DataFree')
      BY <1>5, LaidWeaker
    <3>2. Laid(meta', pend, MetaHead, MetaFree')
      BY <1>7, LaidWeaker
    <3> QED
      BY <1>1, <2>1, <2>3, <3>1, <3>2
  <2>6. AtWorkLaid'
    BY <2>1, <2>2, <2>5 DEF AtWorkLaid
  <2>7. AfterDrop(shift, pend) \in {"demote", "promote", "place", "record", "unlist"}
    BY <2>1, <2>2
  <2> QED
    BY <1>1, <1>2, <1>8, <1>9, <2>6, <2>7, SmoothFiles
<1>10. CASE AfterDrop(shift, pend) = "return" /\ Finish("ok")
  <2>1. op = "delete" /\ wmode = "Off"
    BY <1>2, <1>10, AfterMoveFacts DEF AfterDrop, Base, TypeOK
  <2>2. file = "none" /\ pend = <<>> /\ owed = {} /\ hist = <<>>
    BY <1>2, <2>1, OffFacts DEF Adding
  <2>3. owed' = {}
    BY <1>10, <2>1, <2>2 DEF Finish
  <2>4. \A q \in Places : data[q] = None /\ meta'[q] = None
    BY <1>3, <1>5, <1>7, <2>2, LaidEmpty
  <2>5. Listing' = <<>>
    BY <1>1, <2>2, <2>4, PlaceFacts DEF Listing
  <2>6. Laid(data, <<>>, TRUE, {}) /\ Laid(meta', <<>>, TRUE, {})
    BY <2>4, LaidEmpty
  <2>7. Fits(Listing)'
    BY <1>1, <2>5, <2>6 DEF Fits
  <2>8. Lists(Listing, owed)'
    BY <2>3 DEF Lists
  <2> QED
    BY <1>1, <1>8, <1>10, <2>2, <2>7, <2>8, SmoothFinish DEF reader
<1> QED
  BY <1>9, <1>10 DEF DropMeta

\* A move takes no file to another version's place.
LEMMA MovedOwn ==
  ASSUME NEW f \in [Places -> Nat], NEW h \in Seq(Entry), NEW n, SoundList(h, n), h # <<>>,
         NEW c \in BOOLEAN, NEW d \in BOOLEAN, c # d,
         NEW p, p = Spot(h, c, 1), NEW q, q = Spot(h, d, 1),
         f[p] = h[1].w, \A v \in Ops : f[v] \in {None, v},
         NEW g, g = Moved(f, p, q)
  PROVE  \A v \in Ops : g[v] \in {None, v}
<1>1. Len(h) \in Nat /\ 1 \in 1 .. Len(h)
  BY LenProperties, EmptySeq
<1>2. h[1].vid \in Vids /\ (h[1].vid # Null => h[1].w = h[1].vid) /\ h[1].vid # Canonical
  BY <1>1, EntryFacts DEF SoundList
<1>3. {p, q} = {Canonical, h[1].vid} /\ p # q /\ p \in Places /\ q \in Places
  BY <1>2, PlaceFacts DEF Spot
<1>4. ASSUME NEW v \in Ops PROVE g[v] \in {None, v}
  <2>1. v \in Places /\ v # Canonical /\ v # Null
    BY PlaceFacts
  <2>2. CASE v = q
    BY <1>2, <1>3, <2>1, <2>2 DEF Moved
  <2>3. CASE v # q
    BY <1>3, <2>1, <2>3 DEF Moved
  <2> QED
    BY <2>2, <2>3
<1> QED
  BY <1>4

\* The payload moves: what was to be moved is there.
LEMMA DataMoved ==
  ASSUME Base, Smooth, NEW c \in BOOLEAN, NEW p, p = Spot(pend, c, 1), NEW q, q = Spot(pend, ~ c, 1),
         wpc = IF c THEN "demote" ELSE "promote",
         NEW pc, pc = IF c THEN "demotemeta" ELSE "promotemeta",
         MoveData(p, q, pc)
  PROVE  Smooth'
<1>1. /\ Loaded /\ pend # <<>> /\ ~ pend[1].marker
      /\ IF c THEN op # "remove" /\ shift = "demote" ELSE op = "remove" /\ shift = "promote"
  BY DEF Loaded, Base, Control, Adding
<1>2. /\ AtWorkLaid /\ pend \in Seq(Entry) /\ SoundList(pend, cur) /\ data \in [Places -> Nat]
  BY <1>1, AtWorkFacts
<1>3. /\ DataHead = c /\ MetaHead = c /\ DataFree = {} /\ MetaFree = {}
  BY <1>1 DEF DataHead, MetaHead, DataFree, MetaFree, Taken
<1>4. Laid(data, pend, c, {}) /\ Laid(meta, pend, c, {})
  BY <1>2, <1>3 DEF AtWorkLaid
<1> DEFINE g == Moved(data, p, q)
           d == ~ c
<1>5. d \in BOOLEAN /\ c # d
  OBVIOUS
<1>6. g = Moved(data, p, q) /\ q = Spot(pend, d, 1)
  OBVIOUS
<1> HIDE DEF g, d
<1>7. data[p] = pend[1].w /\ data[p] # None /\ Laid(g, pend, d, {})
  BY <1>1, <1>2, <1>4, <1>5, <1>6, LaidMoved
<1>8. data' = g /\ GoTo(pc) /\ UNCHANGED <<status, meta, file, hist, reader>>
  BY <1>6, <1>7 DEF MoveData, Moved
<1>9. \A v \in Ops : g[v] \in {None, v}
  <2>1. \A v \in Ops : data[v] \in {None, v}
    BY DEF Smooth, ArchiveOwn
  <2> QED
    BY <1>1, <1>2, <1>5, <1>6, <1>7, <2>1, MovedOwn
<1>10. ArchiveOwn'
  BY <1>8, <1>9 DEF Smooth, ArchiveOwn
<1>11. wpc' = pc /\ UNCHANGED <<op, wmode, wvid, cur, pend, victim, shift>>
  BY <1>8 DEF GoTo
<1>12. DataHead' = d /\ MetaHead' = c /\ DataFree' = {} /\ MetaFree' = {}
  BY <1>1, <1>11 DEF DataHead, MetaHead, DataFree, MetaFree, Taken, d
<1>13. Laid(data, pend, DataHead, DataFree)' /\ Laid(meta, pend, MetaHead, MetaFree)'
  BY <1>4, <1>7, <1>8, <1>11, <1>12
<1>14. AtWorkLaid'
  BY <1>11, <1>13 DEF AtWorkLaid
<1> QED
  BY <1>1, <1>8, <1>10, <1>14, SmoothFiles

LEMMA MetaMoved ==
  ASSUME Base, Smooth, NEW c \in BOOLEAN, NEW p, p = Spot(pend, c, 1), NEW q, q = Spot(pend, ~ c, 1),
         wpc = IF c THEN "demotemeta" ELSE "promotemeta",
         MoveMeta(p, q)
  PROVE  Smooth'
<1>1. /\ Loaded /\ pend # <<>> /\ ~ pend[1].marker /\ op \in {"put", "delete", "remove"}
      /\ IF c THEN op # "remove" /\ shift = "demote" /\ wmode # "Off"
              ELSE op = "remove" /\ shift = "promote"
  BY DEF Loaded, Base, TypeOK, Control, Adding
<1>2. /\ AtWorkLaid /\ pend \in Seq(Entry) /\ SoundList(pend, cur) /\ meta \in [Places -> Nat]
  BY <1>1, AtWorkFacts
<1> DEFINE d == ~ c
<1>3. /\ DataHead = d /\ MetaHead = c /\ DataFree = {} /\ MetaFree = {}
  BY <1>1 DEF DataHead, MetaHead, DataFree, MetaFree, Taken
<1>4. Laid(data, pend, d, {}) /\ Laid(meta, pend, c, {})
  BY <1>2, <1>3 DEF AtWorkLaid
<1> DEFINE g == Moved(meta, p, q)
<1>5. d \in BOOLEAN /\ c # d
  OBVIOUS
<1>6. g = Moved(meta, p, q) /\ q = Spot(pend, d, 1)
  OBVIOUS
<1> HIDE DEF g, d
<1>7. meta[p] = pend[1].w /\ meta[p] # None /\ Laid(g, pend, d, {})
  BY <1>1, <1>2, <1>4, <1>5, <1>6, LaidMoved
<1>8. meta' = g /\ GoTo(AfterMove(pend)) /\ UNCHANGED <<status, data, file, hist, reader>>
  BY <1>6, <1>7 DEF MoveMeta, Moved
<1>9. \A v \in Ops : g[v] \in {None, v}
  <2>1. \A v \in Ops : meta[v] \in {None, v}
    BY DEF Smooth, ArchiveOwn
  <2> QED
    BY <1>1, <1>2, <1>5, <1>6, <1>7, <2>1, MovedOwn
<1>10. ArchiveOwn'
  BY <1>8, <1>9 DEF Smooth, ArchiveOwn
<1>11. wpc' = AfterMove(pend) /\ UNCHANGED <<op, wmode, wvid, cur, pend, victim, shift>>
  BY <1>8 DEF GoTo
<1>12. /\ AfterMove(pend) \in {"place", "record", "unlist"}
       /\ AfterMove(pend) = "place" <=> op = "put"
       /\ AfterMove(pend) = "unlist" => op = "remove"
  BY <1>1, AfterMoveFacts
<1>13. DataHead' = d /\ MetaHead' = d /\ DataFree' = {} /\ MetaFree' = {}
  BY <1>1, <1>11, <1>12 DEF DataHead, MetaHead, DataFree, MetaFree, Taken, d
<1>14. Laid(data, pend, DataHead, DataFree)' /\ Laid(meta, pend, MetaHead, MetaFree)'
  BY <1>4, <1>7, <1>8, <1>11, <1>13
<1>15. AtWorkLaid'
  BY <1>11, <1>12, <1>14 DEF AtWorkLaid
<1> QED
  BY <1>1, <1>8, <1>10, <1>12, <1>15, SmoothFiles

LEMMA SmoothMove ==
  ASSUME Base, Smooth, Demote \/ Promote \/ DemoteMeta \/ PromoteMeta
  PROVE  Smooth'
<1>1. Spot(pend, TRUE, 1) = Canonical /\ Spot(pend, FALSE, 1) = pend[1].vid
  BY DEF Spot
<1>2. CASE Demote
  BY <1>1, <1>2, DataMoved DEF Demote
<1>3. CASE Promote
  BY <1>1, <1>3, DataMoved DEF Promote
<1>4. CASE DemoteMeta
  BY <1>1, <1>4, MetaMoved DEF DemoteMeta
<1>5. CASE PromoteMeta
  BY <1>1, <1>5, MetaMoved DEF PromoteMeta
<1> QED
  BY <1>2, <1>3, <1>4, <1>5

LEMMA SmoothPlace ==
  ASSUME Base, Smooth, Place \/ Describe
  PROVE  Smooth'
<1>1. /\ Loaded /\ op = "put" /\ wpc \in {"place", "describe"} /\ cur \in Nat
      /\ ~ DataHead /\ ~ MetaHead
  BY Bounds DEF Place, Describe, Loaded, Base, TypeOK, Control, DataHead, MetaHead
<1>2. DataHead = FALSE /\ MetaHead = FALSE
  BY <1>1 DEF DataHead, MetaHead
<1>3. /\ AtWorkLaid /\ pend \in Seq(Entry) /\ data \in [Places -> Nat] /\ meta \in [Places -> Nat]
  BY <1>1, AtWorkFacts
<1>4. DataFree \subseteq {Canonical} /\ MetaFree \subseteq {Canonical}
  BY <1>1 DEF DataFree, MetaFree
<1>5. Laid(data, pend, FALSE, DataFree) /\ Laid(meta, pend, FALSE, MetaFree)
  BY <1>2, <1>3 DEF AtWorkLaid
<1>6. CASE Place
  <2>1. /\ wpc = "place" /\ GoTo("describe") /\ data' = [data EXCEPT ![Canonical] = cur]
        /\ UNCHANGED <<status, meta, file, hist, reader>>
    BY <1>6 DEF Place
  <2>2. wpc' = "describe" /\ UNCHANGED <<op, wmode, wvid, cur, pend, victim, shift>>
    BY <2>1 DEF GoTo
  <2>3. Laid(data', pend, FALSE, {Canonical})
    BY <1>3, <1>4, <1>5, <2>1, LaidBut, PlaceFacts
  <2>4. Laid(meta, pend, FALSE, {Canonical})
    BY <1>4, <1>5, LaidWeaker
  <2>5. /\ DataHead' = FALSE /\ MetaHead' = FALSE
        /\ DataFree' = {Canonical} /\ MetaFree' = {Canonical}
    BY <1>1, <2>2 DEF DataHead, MetaHead, DataFree, MetaFree, Taken
  <2>6. Laid(data, pend, DataHead, DataFree)' /\ Laid(meta, pend, MetaHead, MetaFree)'
    BY <2>1, <2>2, <2>3, <2>4, <2>5
  <2>7. data'[Canonical] = cur'
    BY <1>3, <2>1, <2>2, PlaceFacts
  <2>8. AtWorkLaid'
    BY <2>2, <2>6, <2>7 DEF AtWorkLaid
  <2>9. ArchiveOwn'
    BY <1>3, <2>1, PlaceFacts DEF Smooth, ArchiveOwn
  <2> QED
    BY <1>1, <2>1, <2>8, <2>9, SmoothFiles
<1>7. CASE Describe
  <2>1. /\ wpc = "describe" /\ GoTo("describefill") /\ meta' = [meta EXCEPT ![Canonical] = Torn]
        /\ UNCHANGED <<status, data, file, hist, reader>>
    BY <1>7 DEF Describe
  <2>2. wpc' = "describefill" /\ UNCHANGED <<op, wmode, wvid, cur, pend, victim, shift>>
    BY <2>1 DEF GoTo
  <2>3. Laid(meta', pend, FALSE, {Canonical})
    BY <1>3, <1>4, <1>5, <2>1, LaidBut, PlaceFacts
  <2>4. Laid(data, pend, FALSE, {Canonical})
    BY <1>4, <1>5, LaidWeaker
  <2>5. /\ DataHead' = FALSE /\ MetaHead' = FALSE
        /\ DataFree' = {Canonical} /\ MetaFree' = {Canonical}
    BY <1>1, <2>2 DEF DataHead, MetaHead, DataFree, MetaFree, Taken
  <2>6. Laid(data, pend, DataHead, DataFree)' /\ Laid(meta, pend, MetaHead, MetaFree)'
    BY <2>1, <2>2, <2>3, <2>4, <2>5
  <2>7. data'[Canonical] = cur'
    BY <1>3, <2>1, <2>2 DEF AtWorkLaid
  <2>8. AtWorkLaid'
    BY <2>2, <2>6, <2>7 DEF AtWorkLaid
  <2>9. ArchiveOwn'
    BY <1>3, <2>1, PlaceFacts DEF Smooth, ArchiveOwn
  <2> QED
    BY <1>1, <2>1, <2>8, <2>9, SmoothFiles
<1> QED
  BY <1>6, <1>7

LEMMA SmoothDescribeFill ==
  ASSUME Base, Smooth, DescribeFill
  PROVE  Smooth'
<1>1. /\ wpc = "describefill" /\ meta' = [meta EXCEPT ![Canonical] = cur]
      /\ UNCHANGED <<status, data, file, hist, reader>>
  BY DEF DescribeFill
<1>2. Loaded /\ op = "put" /\ cur \in Ops /\ cur \in Nat
  BY <1>1, Bounds DEF Loaded, Base, TypeOK, Control, Ops
<1>3. /\ AtWorkLaid /\ pend \in Seq(Entry) /\ data \in [Places -> Nat] /\ meta \in [Places -> Nat]
  BY <1>2, AtWorkFacts
<1>4. /\ DataHead = FALSE /\ MetaHead = FALSE
      /\ DataFree = {Canonical} /\ MetaFree = {Canonical}
  BY <1>1, <1>2 DEF DataHead, MetaHead, DataFree, MetaFree, Taken
<1>5. /\ Laid(data, pend, FALSE, {Canonical}) /\ Laid(meta, pend, FALSE, {Canonical})
      /\ data[Canonical] = cur
  BY <1>1, <1>3, <1>4 DEF AtWorkLaid
<1>6. Laid(meta', pend, FALSE, {Canonical}) /\ meta'[Canonical] = cur
  BY <1>1, <1>3, <1>5, LaidBut, PlaceFacts
<1>7. ArchiveOwn'
  BY <1>1, <1>3, PlaceFacts DEF Smooth, ArchiveOwn
<1>8. CASE wmode # "Off" /\ GoTo("record")
  <2>1. wpc' = "record" /\ UNCHANGED <<op, wmode, wvid, cur, pend, victim, shift>>
    BY <1>8 DEF GoTo
  <2>2. /\ DataHead' = FALSE /\ MetaHead' = FALSE
        /\ DataFree' = {Canonical} /\ MetaFree' = {Canonical}
    BY <1>2, <2>1 DEF DataHead, MetaHead, DataFree, MetaFree, Taken
  <2>3. Laid(data, pend, DataHead, DataFree)' /\ Laid(meta, pend, MetaHead, MetaFree)'
    BY <1>1, <1>5, <1>6, <2>1, <2>2
  <2>4. AtWorkLaid'
    BY <1>1, <1>5, <1>6, <2>1, <2>3 DEF AtWorkLaid
  <2> QED
    BY <1>1, <1>2, <1>7, <1>8, <2>4, SmoothFiles
<1>9. CASE wmode = "Off" /\ Finish("ok")
  <2>1. file = "none" /\ pend = <<>> /\ owed = {} /\ hist = <<>>
    BY <1>2, <1>9, OffFacts DEF Adding
  <2>2. wvid = Null
    BY <1>2, <1>9 DEF Base, Control, Adding
  <2>3. owed' = {[vid |-> Null, w |-> cur]}
    BY <1>2, <1>9, <2>1, <2>2 DEF Finish
  <2>4. \A q \in Places \ {Canonical} : data[q] = None /\ meta'[q] = None
    BY <1>5, <1>6, <2>1, LaidEmpty
  <2> DEFINE h == <<[vid |-> Null, marker |-> FALSE, w |-> cur]>>
  <2>5. Listing' = h
    <3>1. file' = "none" /\ data'[Canonical] = cur /\ meta'[Canonical] = cur /\ cur # None
      BY <1>1, <1>2, <1>5, <1>6, <2>1, PlaceFacts
    <3> QED
      BY <1>2, <3>1 DEF Listing, LegacyHistory
  <2>6. Laid(data, h, TRUE, {}) /\ Laid(meta', h, TRUE, {})
    BY <1>2, <1>5, <1>6, <2>4, LaidLegacy
  <2>7. Fits(Listing)'
    <3> HIDE DEF h
    <3> QED
      BY <1>1, <2>5, <2>6 DEF Fits
  <2>8. Lists(Listing, owed)'
    <3>1. Len(h) = 1 /\ h[1].vid = Null /\ h[1].w = cur /\ ~ h[1].marker /\ 1 \in 1 .. 1
      OBVIOUS
    <3> HIDE DEF h
    <3>2. Lists(h, {[vid |-> Null, w |-> cur]})
      BY <3>1 DEF Lists
    <3> QED
      BY <2>3, <2>5, <3>2
  <2> QED
    BY <1>1, <1>7, <1>9, <2>1, <2>7, <2>8, SmoothFinish DEF reader
<1> QED
  BY <1>8, <1>9 DEF DescribeFill

LEMMA SmoothRecordFill ==
  ASSUME Base, Smooth, RecordFill
  PROVE  Smooth'
<1>1. wpc = "recordfill" /\ FillHistory(NewHistory) /\ Finish("ok")
      /\ UNCHANGED <<status, data, meta, reader, faults, upsets>>
  BY DEF RecordFill
<1>2. file = "torn" /\ hist = NewHistory
  BY <1>1 DEF Smooth, FileState
<1>3. file' = "whole" /\ hist' = NewHistory
  BY <1>1, <1>2 DEF FillHistory
<1>4. Loaded /\ op \in {"put", "delete", "remove"}
  BY <1>1 DEF Loaded, Base, TypeOK, Control
<1>5. /\ AtWorkLaid /\ Lists(pend, owed) /\ pend \in Seq(Entry)
      /\ Laid(data, pend, DataHead, DataFree) /\ Laid(meta, pend, MetaHead, MetaFree)
  BY <1>4, AtWorkFacts DEF AtWorkLaid
<1>6. NewHistory \in Seq(Entry) /\ NewHistory # <<>>
  BY <1>1, NewHistoryFacts
<1>7. Listing' = NewHistory
  BY <1>3 DEF Listing
<1>8. ArchiveOwn'
  BY <1>1 DEF Smooth, ArchiveOwn
<1>9. /\ Laid(data, NewHistory, TRUE, {}) /\ Laid(meta, NewHistory, TRUE, {})
      /\ Lists(NewHistory, owed')
  <2>1. CASE op = "remove"
    <3>1. DataHead = TRUE /\ MetaHead = TRUE /\ DataFree = {} /\ MetaFree = {}
      BY <1>1, <2>1 DEF DataHead, MetaHead, DataFree, MetaFree, Taken
    <3>2. NewHistory = pend /\ owed' = owed
      BY <1>1, <2>1 DEF NewHistory, Finish
    <3> QED
      BY <1>5, <3>1, <3>2
  <2>2. CASE op \in {"put", "delete"}
    <3> DEFINE e == [vid |-> wvid, marker |-> op = "delete", w |-> cur]
    <3>1. e \in Entry /\ NewHistory = <<e>> \o pend
      BY <1>1, <2>2, NewHistoryFacts DEF Adding
    <3>2. e.vid = wvid /\ e.w = cur /\ (e.marker <=> op = "delete")
      OBVIOUS
    <3> HIDE DEF e
    <3>3. DataHead = FALSE /\ MetaHead = FALSE
      BY <1>1, <2>2 DEF DataHead, MetaHead
    <3>4. CASE op = "delete"
      <4>1. DataFree = {} /\ MetaFree = {}
        BY <1>1, <3>4 DEF DataFree, MetaFree, Taken
      <4>2. Laid(data, pend, FALSE, {}) /\ Laid(meta, pend, FALSE, {})
        BY <1>5, <3>3, <4>1
      <4>3. owed' = owed
        BY <1>1, <3>4 DEF Finish
      <4>4. Laid(data, NewHistory, TRUE, {})
        BY <1>5, <3>1, <3>2, <3>4, <4>2, LaidPushed
      <4>5. Laid(meta, NewHistory, TRUE, {})
        BY <1>5, <3>1, <3>2, <3>4, <4>2, LaidPushed
      <4>6. Lists(NewHistory, owed)
        BY <1>5, <3>1, ListsPushed
      <4> QED
        BY <4>3, <4>4, <4>5, <4>6
    <3>5. CASE op = "put"
      <4>1. DataFree = {Canonical} /\ MetaFree = {Canonical}
        BY <1>1, <3>5 DEF DataFree, MetaFree, Taken
      <4>2. Laid(data, pend, FALSE, {Canonical}) /\ Laid(meta, pend, FALSE, {Canonical})
        BY <1>5, <3>3, <4>1
      <4>3. data[Canonical] = cur /\ meta[Canonical] = cur
        BY <1>1, <1>5, <3>5 DEF AtWorkLaid
      <4>4. owed' = owed \cup {[vid |-> e.vid, w |-> e.w]}
        BY <1>1, <3>2, <3>5 DEF Finish
      <4>5. ~ e.marker /\ op # "delete"
        BY <3>2, <3>5
      <4>6. Laid(data, NewHistory, TRUE, {})
        BY <1>5, <3>1, <3>2, <4>2, <4>3, <4>5, LaidPushed
      <4>7. Laid(meta, NewHistory, TRUE, {})
        BY <1>5, <3>1, <3>2, <4>2, <4>3, <4>5, LaidPushed
      <4>8. Lists(NewHistory, owed \cup {[vid |-> e.vid, w |-> e.w]})
        BY <1>5, <3>1, <4>5, ListsPushed
      <4> QED
        BY <4>4, <4>6, <4>7, <4>8
    <3> QED
      BY <2>2, <3>4, <3>5
  <2> QED
    BY <1>4, <2>1, <2>2
<1>10. Fits(Listing)'
  BY <1>1, <1>7, <1>9 DEF Fits
<1>11. Lists(Listing, owed)'
  BY <1>7, <1>9
<1> QED
  BY <1>1, <1>3, <1>6, <1>8, <1>10, <1>11, SmoothFinish DEF reader

LEMMA SmoothUnlist ==
  ASSUME Base, Smooth, Unlist
  PROVE  Smooth'
<1>1. /\ wpc = "unlist" /\ RemoveHistory /\ Finish("ok")
      /\ UNCHANGED <<status, data, meta, rvid, rhist, rplace, rmeta, rdata, reads, rlone, faults,
                     upsets>>
  BY DEF Unlist
<1>2. Loaded /\ op = "remove" /\ pend = <<>>
  BY <1>1 DEF Loaded, Base, Control
<1>3. rpc # "seedfill"
  BY <1>1 DEF Smooth, FileState
<1>4. file' = "none" /\ hist' = <<>> /\ rpc' = rpc
  BY <1>1, <1>3 DEF RemoveHistory
<1>5. /\ DataHead = TRUE /\ MetaHead = TRUE /\ DataFree = {} /\ MetaFree = {}
  BY <1>1, <1>2 DEF DataHead, MetaHead, DataFree, MetaFree, Taken
<1>6. Laid(data, <<>>, TRUE, {}) /\ Laid(meta, <<>>, TRUE, {}) /\ Lists(<<>>, owed)
  BY <1>2, <1>5, AtWorkFacts DEF AtWorkLaid
<1>7. data[Canonical] = None
  BY <1>6, LaidEmpty, PlaceFacts
<1>8. Listing' = <<>>
  BY <1>1, <1>4, <1>7 DEF Listing
<1>9. owed' = owed
  BY <1>1, <1>2 DEF Finish
<1>10. Fits(Listing)' /\ Lists(Listing, owed)' /\ ArchiveOwn'
  BY <1>1, <1>6, <1>8, <1>9 DEF Fits, Smooth, ArchiveOwn
<1> QED
  BY <1>1, <1>4, <1>10, SmoothFinish

\* A step of the reader, or of the status, moves no file.
LEMMA SmoothAside ==
  ASSUME Smooth, UNCHANGED <<writer, data, meta, owed, outcome>>,
         ~ Loaded => Listing' = Listing, FileState', ReaderFound'
  PROVE  Smooth'
<1>1. /\ UNCHANGED <<wpc, op, wmode, wvid, cur, pend, victim, shift>>
      /\ (Loaded' <=> Loaded)
      /\ DataHead' = DataHead /\ MetaHead' = MetaHead
      /\ DataFree' = DataFree /\ MetaFree' = MetaFree
  BY DEF writer, Loaded, DataHead, MetaHead, DataFree, MetaFree, Taken
<1>2. AtWork'
  <2>1. SUFFICES ASSUME Loaded PROVE AtWorkLaid' /\ Lists(pend, owed)'
    BY <1>1 DEF AtWork
  <2>2. AtWorkLaid /\ Lists(pend, owed)
    BY <2>1 DEF Smooth, AtWork
  <2> QED
    BY <1>1, <2>2 DEF AtWorkLaid
<1>3. AtRest'
  <2>1. SUFFICES ASSUME ~ Loaded PROVE Fits(Listing)' /\ Lists(Listing, owed)'
    BY <1>1 DEF AtRest
  <2>2. Fits(Listing) /\ Lists(Listing, owed) /\ Listing' = Listing
    BY <2>1 DEF Smooth, AtRest
  <2> QED
    BY <2>2 DEF Fits
<1>4. GivenUp' /\ ArchiveOwn' /\ outcome' # "error"
  BY <1>1 DEF Smooth, GivenUp, ArchiveOwn
<1> QED
  BY <1>2, <1>3, <1>4 DEF Smooth

LEMMA SmoothReader ==
  ASSUME Base, Smooth, ReaderStep, upsets' = {}
  PROVE  Smooth'
<1>1. ASSUME NEW v \in Vids, GetVersion(v) PROVE Smooth'
  <2>1. /\ rpc \in {"idle", "got", "refused"} /\ rpc' = "seed" /\ rvid' = v
        /\ rlone' = (wpc = "idle")
        /\ UNCHANGED <<status, disk, writer, seen>>
    BY <1>1 DEF GetVersion
  <2>2. FileState'
    BY <2>1 DEF Smooth, FileState, Unseeded, LegacyHistory, NewHistory, Adding, disk, writer
  <2>3. ReaderFound'
    BY <2>1 DEF ReaderFound, writer
  <2>4. Listing' = Listing
    BY <2>1 DEF Listing, LegacyHistory, disk
  <2> QED
    BY <2>1, <2>2, <2>3, <2>4, SmoothAside DEF disk, seen
<1>2. CASE RSeed
  <2>1. /\ rpc = "seed" /\ rpc' \in {"seeding", "load"}
        /\ rpc' = "seeding" => Unseeded /\ rhist' = LegacyHistory
        /\ UNCHANGED <<status, disk, writer, outcome, owed, rvid, rplace, rmeta, rdata, rlone>>
    BY <1>2 DEF RSeed, RGoTo
  <2>2. rpc' = "seeding" => wpc = "idle"
    BY <1>2 DEF RSeed, RGoTo
  <2>3. (Unseeded' <=> Unseeded) /\ LegacyHistory' = LegacyHistory /\ Listing' = Listing
        /\ NewHistory' = NewHistory
    BY <2>1 DEF Unseeded, LegacyHistory, Listing, NewHistory, disk, writer
  <2>4. FileState'
    BY <2>1, <2>2, <2>3 DEF Smooth, FileState, Adding, disk, writer
  <2>5. ReaderFound'
    BY <2>1 DEF Smooth, ReaderFound, writer
  <2> QED
    BY <2>1, <2>3, <2>4, <2>5, SmoothAside DEF disk
<1>3. CASE RSeeding
  <2>1. /\ rpc = "seeding" /\ rpc' = "seedfill" /\ file' = "torn" /\ hist' = rhist
        /\ UNCHANGED <<status, data, meta, writer, seen, rvid, rhist, rplace, rmeta, rdata, reads, rlone>>
    BY <1>3 DEF RSeeding, TruncateHistory, RGoTo
  <2>2. Unseeded /\ rhist = LegacyHistory /\ wpc = "idle" /\ op = "none"
    BY <2>1 DEF Smooth, FileState, Base, Control
  <2>3. Listing = LegacyHistory /\ LegacyHistory # <<>>
    BY <2>2, ListingFacts, LegacySound
  <2>4. Listing' = Listing
    BY <2>1, <2>2, <2>3 DEF Listing
  <2>5. FileState'
    BY <2>1, <2>2, <2>3 DEF Smooth, FileState, Adding, writer
  <2>6. ReaderFound'
    BY <2>1 DEF Smooth, ReaderFound, writer
  <2> QED
    BY <2>1, <2>4, <2>5, <2>6, SmoothAside DEF seen
<1>4. CASE RSeedFill
  <2>1. /\ rpc \in {"seedfill", "lost"} /\ rpc' = "load"
        /\ rpc = "seedfill" => FillHistory(rhist)
        /\ UNCHANGED <<status, data, meta, writer, seen, rvid, rhist, rplace, rmeta, rdata, reads, rlone>>
    BY <1>4 DEF RSeedFill, RGoTo
  <2>2. rpc = "seedfill" /\ wpc = "idle" /\ op = "none" /\ file = "torn" /\ hist = rhist /\ hist # <<>>
    BY <2>1 DEF Smooth, FileState, Base, Control
  <2>3. file' = "whole" /\ hist' = hist
    BY <2>1, <2>2 DEF FillHistory
  <2>4. Listing' = Listing
    BY <2>2, <2>3 DEF Listing
  <2>5. FileState'
    BY <2>1, <2>2, <2>3 DEF Smooth, FileState, Adding, writer
  <2>6. ReaderFound'
    BY <2>1 DEF Smooth, ReaderFound, writer
  <2> QED
    BY <2>1, <2>4, <2>5, <2>6, SmoothAside DEF seen
<1>5. CASE RLoad \/ RMeta \/ ROpen
  <2>1. /\ rpc \in {"load", "meta", "open"} /\ rpc' \in {"refused", "meta", "open", "got"}
        /\ UNCHANGED <<status, disk, writer, seen, rvid, rhist, reads, rlone>>
    BY <1>5 DEF RLoad, RMeta, ROpen, RGoTo
  <2>2. Unseeded' = Unseeded /\ LegacyHistory' = LegacyHistory /\ Listing' = Listing
        /\ NewHistory' = NewHistory
    BY <2>1 DEF Unseeded, LegacyHistory, Listing, NewHistory, disk, writer
  <2>3. FileState'
    BY <2>1, <2>2 DEF Smooth, FileState, Adding, disk, writer
  <2>4. ReaderFound'
    <3>1. CASE RLoad
      <4> DEFINE h == ReadHistory
                 i == Position(h, rvid)
      <4>1. CASE i = 0 \/ h[i].marker
        <5>1. rpc' = "refused" /\ UNCHANGED <<rplace, rmeta, rdata>>
          BY <3>1, <4>1 DEF RLoad, RGoTo
        <5> QED
          BY <2>1, <5>1 DEF Smooth, ReaderFound, writer
      <4>2. CASE ~ (i = 0 \/ h[i].marker)
        <5>1. /\ rpc = "load" /\ rpc' = "meta" /\ rplace' = (IF i = 1 THEN Canonical ELSE rvid)
              /\ UNCHANGED <<rmeta, rdata>>
          BY <3>1, <4>2 DEF RLoad
        <5>2. rvid # Null /\ rlone /\ i = 1 => data[Canonical] = rvid /\ meta[Canonical] = rvid
          <6>1. SUFFICES ASSUME rvid # Null, rlone, i = 1
                PROVE  data[Canonical] = rvid /\ meta[Canonical] = rvid
            OBVIOUS
          <6>2. wpc = "idle" /\ ~ Loaded /\ file # "torn"
            BY <5>1, <6>1 DEF Smooth, ReaderFound, FileState, Loaded
          <6>3. h \in Seq(Entry) /\ SoundList(h, cur)
            BY ReadHistoryFacts
          <6>4. i \in 0 .. Len(h) /\ h[i].vid = rvid
            <7>1. \A k \in 1 .. Len(h), l \in 1 .. Len(h) : h[k].vid = h[l].vid => k = l
              BY <6>3 DEF SoundList
            <7> HIDE DEF h
            <7> QED
              BY <4>2, <6>3, <7>1, PositionFacts
          <6>5. 1 \in 1 .. Len(h) /\ h[1].vid = rvid /\ ~ h[1].marker /\ Len(h) \in Nat
            BY <4>2, <6>1, <6>3, <6>4, LenProperties
          <6>6. file = "whole"
            <7>1. file \in {"none", "whole"}
              BY <6>2 DEF Base, TypeOK
            <7>2. file = "none" => Len(h) = 0
              BY DEF ReadHistory
            <7> QED
              BY <6>5, <7>1, <7>2
          <6>7. h = Listing
            BY <6>6, ListingFacts
          <6>8. Laid(data, h, TRUE, {}) /\ Laid(meta, h, TRUE, {})
            BY <6>2, <6>7 DEF Smooth, AtRest, Fits
          <6>9. Spot(h, TRUE, 1) = Canonical /\ h[1].w = rvid
            BY <6>1, <6>3, <6>5 DEF Spot, SoundList
          <6> HIDE DEF h, i
          <6> QED
            BY <6>5, <6>8, <6>9 DEF Laid
        <5>3. rplace' = Canonical => i = 1
          BY <5>1, PlaceFacts DEF Base, TypeOK
        <5> QED
          BY <2>1, <5>1, <5>2, <5>3 DEF Smooth, ReaderFound, writer, disk
      <4> QED
        BY <4>1, <4>2
    <3>2. CASE RMeta
      <4>1. /\ rpc = "meta" /\ rpc' \in {"refused", "open"} /\ (rpc' = "open" => rmeta' = meta[rplace])
            /\ UNCHANGED <<rplace, rdata>>
        BY <3>2 DEF RMeta, RGoTo
      <4>2. rvid # Null => rvid \in Ops
        BY DEF Base, TypeOK, Vids
      <4>3. rvid \in Ops => meta[rvid] \in {None, rvid}
        BY DEF Smooth, ArchiveOwn
      <4> QED
        BY <2>1, <4>1, <4>2, <4>3 DEF Smooth, ReaderFound, writer, disk
    <3>3. CASE ROpen
      <4>1. /\ rpc = "open" /\ rpc' = (IF data[rplace] = None THEN "refused" ELSE "got")
            /\ rdata' = data[rplace] /\ UNCHANGED <<rplace, rmeta>>
        BY <3>3 DEF ROpen
      <4>2. rvid # Null => rvid \in Ops
        BY DEF Base, TypeOK, Vids
      <4>3. rvid \in Ops => data[rvid] \in {None, rvid}
        BY DEF Smooth, ArchiveOwn
      <4> QED
        BY <2>1, <4>1, <4>2, <4>3 DEF Smooth, ReaderFound, writer, disk
    <3> QED
      BY <1>5, <3>1, <3>2, <3>3
  <2> QED
    BY <2>1, <2>2, <2>3, <2>4, SmoothAside DEF disk, seen
<1> QED
  BY <1>1, <1>2, <1>3, <1>4, <1>5 DEF ReaderStep

LEMMA SmoothStatus ==
  ASSUME Smooth, UNCHANGED <<disk, writer, reader, outcome, owed>>
  PROVE  Smooth'
<1>1. FileState' /\ ReaderFound'
  BY DEF Smooth, FileState, ReaderFound, Unseeded, LegacyHistory, NewHistory, Adding, disk, writer, reader
<1>2. Listing' = Listing
  BY DEF Listing, LegacyHistory, disk
<1> QED
  BY <1>1, <1>2, SmoothAside DEF disk

LEMMA UpsetsGrow ==
  ASSUME [Next]_vars
  PROVE  upsets \subseteq upsets'
<1>1. ASSUME NEW v \in Vids, GetVersion(v) PROVE upsets' = upsets
  BY <1>1 DEF GetVersion, seen
<1>2. ASSUME NEW m \in Modes, SetVersioning(m) PROVE upsets' = upsets
  BY <1>2 DEF SetVersioning
<1>3. BeginPut \/ BeginDelete \/ (\E v \in Vids : BeginRemove(v)) => upsets \subseteq upsets'
  BY DEF BeginPut, BeginDelete, BeginRemove, Begin
<1>4. WriterStep => upsets \subseteq upsets'
  BY <1>3 DEF WriterStep, Seed, Seeding, SeedFill, Load, Drop, DropMeta, Demote, DemoteMeta, Promote,
              PromoteMeta, Place, Describe, DescribeFill, Record, RecordFill, Unlist, Abandon,
              Truncate, MoveData, MoveMeta, GoTo, seen
<1>5. ReaderStep => upsets \subseteq upsets'
  BY <1>1 DEF ReaderStep, RSeed, RSeeding, RSeedFill, RLoad, RMeta, ROpen, seen
<1> QED
  BY <1>2, <1>4, <1>5 DEF Next, VersioningSet, vars, seen

LEMMA SmoothNext ==
  ASSUME Base, SmoothInv, [Next]_vars
  PROVE  SmoothInv'
<1>1. SUFFICES ASSUME upsets' = {} PROVE Smooth'
  BY DEF SmoothInv
<1>2. upsets \subseteq upsets'
  BY UpsetsGrow
<1>3. Smooth
  BY <1>1, <1>2 DEF SmoothInv
<1>4. CASE ReaderStep
  BY <1>1, <1>3, <1>4, SmoothReader
<1>5. CASE WriterStep
  <2>1. BeginPut \/ BeginDelete => NewVid \in Vids
    <3>1. BeginPut \/ BeginDelete => cur + 1 \in Ops
      BY Bounds DEF BeginPut, BeginDelete, Begin, Base, TypeOK, Ops
    <3> QED
      BY PlaceFacts, <3>1 DEF NewVid
  <2>2. CASE BeginPut
    <3>1. Begin("put", NewVid, IF mode = "Off" THEN "place" ELSE "seed")
      BY <2>2 DEF BeginPut
    <3> QED
      BY <1>1, <1>3, <2>1, <2>2, <3>1, SmoothBegin
  <2>3. CASE BeginDelete
    <3>1. Begin("delete", NewVid, IF mode = "Off" THEN "drop" ELSE "seed")
      BY <2>3 DEF BeginDelete
    <3> QED
      BY <1>1, <1>3, <2>1, <2>3, <3>1, SmoothBegin
  <2>4. CASE \E v \in Vids : v <= cur /\ BeginRemove(v)
    BY <1>1, <1>3, <2>4, SmoothBegin DEF BeginRemove
  <2>5. ~ Abandon
    BY <1>1 DEF Abandon
  <2> QED
    BY <1>3, <1>5, <2>2, <2>3, <2>4, <2>5, SmoothSeed, SmoothHistory, SmoothLoad, SmoothDrop,
       SmoothDropMeta, SmoothMove, SmoothPlace, SmoothDescribeFill, SmoothRecordFill, SmoothUnlist
       DEF WriterStep
<1>6. CASE VersioningSet \/ (\E m \in Modes : SetVersioning(m)) \/ UNCHANGED vars
  <2>1. UNCHANGED <<disk, writer, reader, outcome, owed>>
    BY <1>6 DEF VersioningSet, SetVersioning, vars, seen
  <2> QED
    BY <1>3, <2>1, SmoothStatus
<1> QED
  BY <1>4, <1>5, <1>6 DEF Next

LEMMA SmoothInductive == Spec => [](Base /\ SmoothInv)
<1>1. Init => SmoothInv
  BY SmoothInit DEF SmoothInv
<1>2. Base /\ SmoothInv /\ [Next]_vars => SmoothInv'
  BY SmoothNext
<1> QED
  BY <1>1, <1>2, BaseInductive, PTL DEF Spec

-------------------------------------------------------------------------------
(* What follows *)

\* fs.rs, VersionHistory: between operations, history, payloads and sidecars
\* agree, and no sequence of requests and changes of the status leaves a key on
\* which a later operation fails for a file that is not there (Consistent).
THEOREM VersionsStayConsistent == Spec => []Consistent
<1>1. ASSUME Base, SmoothInv PROVE Consistent
  <2>1. NeverStuck
    BY <1>1 DEF SmoothInv, Smooth, NeverStuck
  <2>2. ASSUME wpc = "idle", upsets = {}, file # "none", rpc # "seedfill"
        PROVE  /\ file = "whole" /\ hist # <<>>
               /\ \A i \in 1 .. Len(hist) : ~ hist[i].marker => Held(i)
               /\ hist[1].marker => data[Canonical] = None /\ meta[Canonical] = None
               /\ \A v \in Vids : data[v] # None \/ meta[v] # None =>
                                    \E i \in 2 .. Len(hist) : hist[i].vid = v /\ ~ hist[i].marker
    <3>1. Smooth /\ ~ Loaded
      BY <1>1, <2>2 DEF SmoothInv, Loaded
    <3>2. file = "whole" /\ hist # <<>> /\ hist \in Seq(Entry) /\ SoundList(hist, cur)
      BY <1>1, <2>2, <3>1 DEF Smooth, FileState, Base, TypeOK
    <3>3. Laid(data, hist, TRUE, {}) /\ Laid(meta, hist, TRUE, {})
      BY <1>1, <2>2, <3>1, ListingFacts DEF Smooth, AtRest, Fits
    <3>4. \A i \in 1 .. Len(hist) : /\ i = 1 => Spot(hist, TRUE, i) = Canonical
                                    /\ i # 1 => Spot(hist, TRUE, i) = hist[i].vid
      BY DEF Spot
    <3>5. \A i \in 1 .. Len(hist) : hist[i].vid \in Vids /\ hist[i].vid # Canonical
      BY <3>2, EntryFacts
    <3>6. \A i \in 1 .. Len(hist) : ~ hist[i].marker => Held(i)
      BY <3>3, <3>4 DEF Held, Laid
    <3>7. ASSUME NEW f, Laid(f, hist, TRUE, {}), hist[1].marker
          PROVE  f[Canonical] = None
      <4>1. SUFFICES ASSUME f[Canonical] # None PROVE FALSE
        OBVIOUS
      <4>2. PICK k \in 1 .. Len(hist) : ~ hist[k].marker /\ Spot(hist, TRUE, k) = Canonical
        BY <3>7, <4>1, PlaceFacts DEF Laid
      <4> QED
        BY <3>4, <3>5, <3>7, <4>2
    <3>8. ASSUME NEW f, Laid(f, hist, TRUE, {}), NEW v \in Vids, f[v] # None
          PROVE  \E i \in 2 .. Len(hist) : hist[i].vid = v /\ ~ hist[i].marker
      <4>1. v \in Places /\ v # Canonical
        BY PlaceFacts
      <4>2. PICK k \in 1 .. Len(hist) : ~ hist[k].marker /\ Spot(hist, TRUE, k) = v
        BY <3>8, <4>1 DEF Laid
      <4>3. k # 1 /\ hist[k].vid = v
        BY <3>4, <4>1, <4>2
      <4>4. k \in 2 .. Len(hist)
        BY <3>2, <4>3, LenProperties
      <4> QED
        BY <4>2, <4>3, <4>4
    <3>9. hist[1].marker => data[Canonical] = None /\ meta[Canonical] = None
      BY <3>3, <3>7
    <3>10. \A v \in Vids : data[v] # None \/ meta[v] # None =>
                             \E i \in 2 .. Len(hist) : hist[i].vid = v /\ ~ hist[i].marker
      BY <3>3, <3>8
    <3> QED
      BY <3>2, <3>6, <3>9, <3>10
  <2>3. Agrees
    BY <2>2 DEF Agrees
  <2> QED
    BY <2>1, <2>3 DEF Consistent
<1> QED
  BY <1>1, SmoothInductive, PTL

\* docs/GLOSSARY.md, old versions remain retrievable: between operations every
\* acknowledged version that nobody gave up is what a GET of its id delivers, and
\* in the midst of an operation its payload is on the disk (Kept).
THEOREM VersionsAreKept == Spec => []Kept
<1>1. ASSUME Base, SmoothInv PROVE Kept
  <2>1. ASSUME wpc = "idle", upsets = {}, rpc # "seedfill", NEW x \in owed
        PROVE  Delivers(x.vid) = x.w
    <3> DEFINE h == IF Unseeded THEN LegacyHistory ELSE ReadHistory
    <3>1. Smooth /\ ~ Loaded
      BY <1>1, <2>1 DEF SmoothInv, Loaded
    <3>2. file # "torn"
      BY <2>1, <3>1 DEF Smooth, FileState
    <3>3. h = Listing
      BY <1>1, <3>2, ListingFacts DEF Base, TypeOK, Unseeded
    <3>4. h \in Seq(Entry) /\ SoundList(h, cur) /\ Laid(data, h, TRUE, {}) /\ Lists(h, owed)
      BY <1>1, <3>1, <3>3, ListingFacts DEF Smooth, AtRest, Fits
    <3>5. Delivers(x.vid) = IF Position(h, x.vid) = 0 \/ h[Position(h, x.vid)].marker THEN None
                            ELSE data[IF Position(h, x.vid) = 1 THEN Canonical ELSE x.vid]
      BY DEF Delivers
    <3> HIDE DEF h
    <3>6. PICK k \in 1 .. Len(h) : h[k].vid = x.vid /\ h[k].w = x.w /\ ~ h[k].marker
      BY <2>1, <3>4 DEF Lists
    <3>7. Position(h, x.vid) = k
      <4>1. \A i \in 1 .. Len(h), j \in 1 .. Len(h) : h[i].vid = h[j].vid => i = j
        BY <3>4 DEF SoundList
      <4> QED
        BY <3>4, <3>6, <4>1, PositionFacts
    <3>8. k # 0
      OBVIOUS
    <3>9. data[Spot(h, TRUE, k)] = x.w
      BY <3>4, <3>6 DEF Laid
    <3> QED
      BY <3>5, <3>6, <3>7, <3>8, <3>9 DEF Spot
  <2>2. ASSUME upsets = {}, NEW x \in owed
        PROVE  \E p \in Places : data[p] = x.w
    <3>1. Smooth
      BY <1>1, <2>2 DEF SmoothInv
    <3>2. CASE ~ Loaded
      <4>1. Laid(data, Listing, TRUE, {}) /\ Lists(Listing, owed) /\ Listing \in Seq(Entry)
        BY <1>1, <3>1, <3>2, ListingFacts DEF Smooth, AtRest, Fits
      <4>2. PICK k \in 1 .. Len(Listing) : Listing[k].w = x.w /\ ~ Listing[k].marker
        BY <2>2, <4>1 DEF Lists
      <4>3. data[Spot(Listing, TRUE, k)] = x.w
        BY <4>1, <4>2 DEF Laid
      <4>4. Spot(Listing, TRUE, k) \in Places
        BY <4>1, EntryFacts, PlaceFacts DEF Spot
      <4> QED
        BY <4>3, <4>4
    <3>3. CASE Loaded
      <4>1. /\ AtWorkLaid /\ Lists(pend, owed) /\ pend \in Seq(Entry)
            /\ Laid(data, pend, DataHead, DataFree)
        BY <1>1, <3>1, <3>3, AtWorkFacts DEF AtWorkLaid
      <4>2. PICK k \in 1 .. Len(pend) : pend[k].w = x.w /\ ~ pend[k].marker
        BY <2>2, <4>1 DEF Lists
      <4>3. Spot(pend, DataHead, k) \in Places /\ pend[k].vid # Canonical
        BY <4>1, EntryFacts, PlaceFacts DEF Spot
      <4>4. Spot(pend, DataHead, k) \notin DataFree
        <5>1. CASE wpc = "drop"
          BY <4>1, <4>2, <5>1 DEF AtWorkLaid, DataFree
        <5>2. CASE wpc # "drop" /\ Taken
          <6>1. op = "put" /\ ~ DataHead
            BY <1>1, <5>2 DEF Taken, DataHead, Base, Control
          <6> QED
            BY <4>3, <5>2, <6>1 DEF DataFree, Spot
        <5>3. CASE wpc # "drop" /\ ~ Taken
          BY <5>3 DEF DataFree
        <5> QED
          BY <5>1, <5>2, <5>3
      <4> QED
        BY <4>1, <4>2, <4>3, <4>4 DEF Laid
    <3> QED
      BY <3>2, <3>3
  <2> QED
    BY <2>1, <2>2 DEF Kept, Retrievable, OnDisk
<1> QED
  BY <1>1, SmoothInductive, PTL

\* storage/mod.rs, get_object_version: a GET of a version takes no lock, and yet
\* delivers no other version's metadata or payload from the archive, whatever is
\* written, promoted or removed meanwhile, nor from the canonical place unless an
\* operation overlaps it (GetsItsVersion).
THEOREM ReaderGetsItsVersion == Spec => []GetsItsVersion
<1>1. ASSUME Base, SmoothInv PROVE GetsItsVersion
  <2>1. SUFFICES ASSUME rpc = "got", rvid # Null, upsets = {}, rplace # Canonical \/ rlone
        PROVE  rdata = rvid /\ rmeta \notin Ops \ {rvid}
    BY DEF GetsItsVersion
  <2>2. ReaderFound
    BY <1>1, <2>1 DEF SmoothInv, Smooth
  <2>3. rdata = rvid /\ rmeta \in {None, rvid}
    BY <2>1, <2>2 DEF ReaderFound
  <2> QED
    BY <2>3, PlaceFacts
<1> QED
  BY <1>1, SmoothInductive, PTL

-------------------------------------------------------------------------------
(* The filesystem backend implements a versioned key *)

\* What an operation is about to record: the history it found, without the
\* version it replaces or removes.
Planned == Loaded /\ wpc # "recordfill" => pend = Abstract!Without(hist, wvid)

PlannedInv == upsets = {} => Planned

\* The list that the clients know: the history or, without one, the version
\* "null" at the canonical place, once it counts.
Unrecorded == op = "put" /\ wmode # "Off" /\ wpc \in {"describe", "describefill", "record"}
Known ==
  IF file # "none" THEN hist
  ELSE IF data[Canonical] = None \/ Unrecorded THEN <<>>
  ELSE <<[vid |-> Null, marker |-> FALSE, w |-> data[Canonical]]>>

\* What they know of an entry, and of a list.
Shown(e) == [vid |-> e.vid, body |-> IF e.marker THEN None ELSE e.w]
ShownAll(h) == [i \in 1 .. Len(h) |-> Shown(h[i])]
Views(S) == {Shown(e) : e \in S}

\* A list without a version that it has, and without one that it has not.
LEMMA WithoutFacts ==
  ASSUME NEW h, NEW v,
         \A i \in 1 .. Len(h), j \in 1 .. Len(h) : h[i].vid = h[j].vid => i = j
  PROVE  /\ \A i \in 1 .. Len(h) : h[i].vid = v => Abstract!Without(h, v) = RemoveAt(h, i)
         /\ (\A i \in 1 .. Len(h) : h[i].vid # v) => Abstract!Without(h, v) = h
<1>1. ASSUME NEW i \in 1 .. Len(h), h[i].vid = v
      PROVE  Abstract!Without(h, v) = RemoveAt(h, i)
  <2> DEFINE c == CHOOSE k \in 1 .. Len(h) : h[k].vid = v
  <2>1. c \in 1 .. Len(h) /\ h[c].vid = v
    BY <1>1
  <2>2. c = i
    BY <1>1, <2>1
  <2>3. Abstract!Without(h, v) = SubSeq(h, 1, c - 1) \o SubSeq(h, c + 1, Len(h))
    BY <1>1 DEF Abstract!Without
  <2> QED
    BY <2>2, <2>3 DEF RemoveAt
<1>2. (\A i \in 1 .. Len(h) : h[i].vid # v) => Abstract!Without(h, v) = h
  BY DEF Abstract!Without
<1> QED
  BY <1>1, <1>2

LEMMA WithoutEmpty ==
  ASSUME NEW v
  PROVE  Abstract!Without(<<>>, v) = <<>>
BY DEF Abstract!Without

LEMMA TableIsSeq ==
  ASSUME NEW S, NEW n \in Nat, NEW f \in [1 .. n -> S]
  PROVE  f \in Seq(S) /\ Len(f) = n
<1>1. f \in Seq(S)
  OBVIOUS
<1>2. DOMAIN f = 1 .. Len(f) /\ DOMAIN f = 1 .. n /\ Len(f) \in Nat
  BY <1>1, LenProperties
<1>3. n \in 1 .. Len(f) \/ n = 0
  BY <1>2
<1>4. Len(f) \in 1 .. n \/ Len(f) = 0
  BY <1>2
<1> QED
  BY <1>1, <1>2, <1>3, <1>4

LEMMA WithoutOnly ==
  ASSUME NEW e
  PROVE  Abstract!Without(<<e>>, e.vid) = <<>>
<1>1. <<e>> \in Seq({e}) /\ Len(<<e>>) = 1 /\ <<e>>[1] = e /\ 1 \in 1 .. Len(<<e>>)
  OBVIOUS
<1>2. Abstract!Without(<<e>>, e.vid) = RemoveAt(<<e>>, 1)
  <2>1. \A i \in 1 .. Len(<<e>>), j \in 1 .. Len(<<e>>) : <<e>>[i].vid = <<e>>[j].vid => i = j
    BY <1>1
  <2> QED
    BY <1>1, <2>1, WithoutFacts
<1>3. RemoveAt(<<e>>, 1) \in Seq({e}) /\ Len(RemoveAt(<<e>>, 1)) = 1 - 1
  BY <1>1, RemovedFacts
<1>4. RemoveAt(<<e>>, 1) = <<>>
  BY <1>3, EmptySeq
<1> QED
  BY <1>2, <1>4

LEMMA ShownFacts ==
  ASSUME NEW S, NEW h \in Seq(S)
  PROVE  /\ ShownAll(h) \in Seq(Views(S))
         /\ Len(ShownAll(h)) = Len(h)
         /\ \A i \in 1 .. Len(h) : ShownAll(h)[i] = Shown(h[i])
         /\ \A i \in 1 .. Len(h) : ShownAll(h)[i].vid = h[i].vid
<1>1. Len(h) \in Nat
  BY LenProperties
<1>2. ASSUME NEW i \in 1 .. Len(h)
      PROVE  Shown(h[i]) \in Views(S) /\ Shown(h[i]).vid = h[i].vid
  BY ElementOfSeq DEF Shown, Views
<1>3. ShownAll(h) \in [1 .. Len(h) -> Views(S)]
  BY <1>2 DEF ShownAll
<1>4. ShownAll(h) \in Seq(Views(S)) /\ Len(ShownAll(h)) = Len(h)
  BY <1>1, <1>3, TableIsSeq
<1> QED
  BY <1>2, <1>4 DEF ShownAll

\* Clients see the gap closed, and the entry in front.
LEMMA ShownRemoved ==
  ASSUME NEW S, NEW h \in Seq(S), NEW i \in 1 .. Len(h)
  PROVE  ShownAll(RemoveAt(h, i)) = RemoveAt(ShownAll(h), i)
<1> DEFINE p == RemoveAt(h, i)
           s == ShownAll(h)
           R == Views(S)
<1>1. /\ p \in Seq(S) /\ Len(p) = Len(h) - 1
      /\ \A k \in 1 .. Len(p) : p[k] = h[IF k < i THEN k ELSE k + 1]
  BY RemovedFacts
<1>2. s \in Seq(R) /\ Len(s) = Len(h) /\ \A k \in 1 .. Len(h) : s[k] = Shown(h[k])
  BY ShownFacts
<1>3. /\ RemoveAt(s, i) \in Seq(R) /\ Len(RemoveAt(s, i)) = Len(s) - 1
      /\ \A k \in 1 .. Len(RemoveAt(s, i)) :
           RemoveAt(s, i)[k] = s[IF k < i THEN k ELSE k + 1]
  <2> HIDE DEF s, R
  <2> QED
    BY <1>2, RemovedFacts
<1>4. /\ ShownAll(p) \in Seq(R) /\ Len(ShownAll(p)) = Len(p)
      /\ \A k \in 1 .. Len(p) : ShownAll(p)[k] = Shown(p[k])
  BY <1>1, ShownFacts
<1>5. Len(h) \in Nat
  BY LenProperties
<1> HIDE DEF p, s, R
<1>6. ASSUME NEW k \in 1 .. Len(p) PROVE ShownAll(p)[k] = RemoveAt(s, i)[k]
  <2>1. (IF k < i THEN k ELSE k + 1) \in 1 .. Len(h)
    BY <1>1, <1>5
  <2> QED
    BY <1>1, <1>2, <1>3, <1>4, <2>1
<1>7. ShownAll(p) = RemoveAt(s, i)
  BY <1>1, <1>2, <1>3, <1>4, <1>6, SeqEqual
<1> QED
  BY <1>7 DEF p, s

LEMMA ShownPushed ==
  ASSUME NEW S, NEW p \in Seq(S), NEW e \in S
  PROVE  ShownAll(<<e>> \o p) = <<Shown(e)>> \o ShownAll(p)
<1> DEFINE h == <<e>> \o p
           s == ShownAll(p)
           R == Views(S)
<1>1. /\ h \in Seq(S) /\ Len(h) = Len(p) + 1 /\ h[1] = e
      /\ \A k \in 2 .. Len(h) : k - 1 \in 1 .. Len(p) /\ h[k] = p[k - 1]
  BY PushFacts
<1>2. s \in Seq(R) /\ Len(s) = Len(p) /\ \A k \in 1 .. Len(p) : s[k] = Shown(p[k])
  BY ShownFacts
<1>3. ShownAll(h) \in Seq(R) /\ Len(ShownAll(h)) = Len(h)
      /\ \A k \in 1 .. Len(h) : ShownAll(h)[k] = Shown(h[k])
  BY <1>1, ShownFacts
<1>4. Shown(e) \in R
  BY DEF Views
<1>5. <<Shown(e)>> \in Seq(R) /\ Len(<<Shown(e)>>) = 1 /\ <<Shown(e)>>[1] = Shown(e)
  BY <1>4
<1>6. Len(p) \in Nat
  BY LenProperties
<1> DEFINE q == <<Shown(e)>>
<1> HIDE DEF h, s, R, q
<1>7. /\ q \o s \in Seq(R) /\ Len(q \o s) = 1 + Len(s)
      /\ \A k \in 1 .. 1 + Len(s) : (q \o s)[k] = IF k <= 1 THEN q[k] ELSE s[k - 1]
  BY <1>2, <1>5, ConcatProperties DEF q
<1>8. ASSUME NEW k \in 1 .. Len(h) PROVE ShownAll(h)[k] = (q \o s)[k]
  <2>1. CASE k = 1
    BY <1>1, <1>2, <1>3, <1>5, <1>6, <1>7, <2>1 DEF q
  <2>2. CASE k # 1
    <3>1. k \in 2 .. Len(h) /\ k - 1 \in 1 .. Len(p) /\ h[k] = p[k - 1]
      BY <1>1, <1>6, <2>2
    <3>2. (q \o s)[k] = s[k - 1]
      BY <1>1, <1>2, <1>6, <1>7, <3>1
    <3> QED
      BY <1>2, <1>3, <3>1, <3>2
  <2> QED
    BY <2>1, <2>2
<1>9. ShownAll(h) = q \o s
  BY <1>1, <1>2, <1>3, <1>6, <1>7, <1>8, SeqEqual
<1> QED
  BY <1>9 DEF h, q, s

LEMMA ShownWithout ==
  ASSUME NEW S, NEW h \in Seq(S), NEW v,
         \A i \in 1 .. Len(h), j \in 1 .. Len(h) : h[i].vid = h[j].vid => i = j
  PROVE  ShownAll(Abstract!Without(h, v)) = Abstract!Without(ShownAll(h), v)
<1> DEFINE s == ShownAll(h)
<1>1. Len(s) = Len(h) /\ \A i \in 1 .. Len(h) : s[i].vid = h[i].vid
  BY ShownFacts
<1>2. \A i \in 1 .. Len(s), j \in 1 .. Len(s) : s[i].vid = s[j].vid => i = j
  BY <1>1
<1> HIDE DEF s
<1>3. ASSUME NEW i \in 1 .. Len(h), h[i].vid = v
      PROVE  ShownAll(Abstract!Without(h, v)) = Abstract!Without(s, v)
  <2>1. Abstract!Without(h, v) = RemoveAt(h, i) /\ Abstract!Without(s, v) = RemoveAt(s, i)
    BY <1>1, <1>2, <1>3, WithoutFacts
  <2> QED
    BY <2>1, ShownRemoved DEF s
<1>4. ASSUME \A i \in 1 .. Len(h) : h[i].vid # v
      PROVE  ShownAll(Abstract!Without(h, v)) = Abstract!Without(s, v)
  <2>1. Abstract!Without(h, v) = h /\ Abstract!Without(s, v) = s
    BY <1>1, <1>2, <1>4, WithoutFacts
  <2> QED
    BY <2>1 DEF s
<1> QED
  BY <1>3, <1>4 DEF s

LEMMA KnownFacts ==
  ASSUME Base
  PROVE  /\ Known \in Seq(Entry) /\ SoundList(Known, cur)
         /\ versions = ShownAll(Known)
<1>1. CASE file # "none"
  <2>1. Known = hist
    BY <1>1 DEF Known
  <2> QED
    BY <1>1, <2>1 DEF Base, TypeOK, versions, ShownAll, Shown
<1>2. CASE file = "none" /\ (data[Canonical] = None \/ Unrecorded)
  <2>1. Known = <<>>
    BY <1>2 DEF Known
  <2>2. versions = <<>>
    BY <1>2 DEF versions, Unrecorded
  <2>3. ShownAll(<<>>) = <<>>
    <3>1. ShownAll(<<>>) \in [1 .. 0 -> {}]
      BY DEF ShownAll
    <3> QED
      BY <3>1
  <2> QED
    BY <2>1, <2>2, <2>3, SoundEmpty
<1>3. CASE file = "none" /\ ~ (data[Canonical] = None \/ Unrecorded)
  <2> DEFINE e == [vid |-> Null, marker |-> FALSE, w |-> data[Canonical]]
  <2>1. Known = <<e>>
    BY <1>3 DEF Known
  <2>2. data[Canonical] \in Ops /\ cur \in Nat
    BY <1>3, PlaceFacts, Bounds DEF Base, TypeOK
  <2>3. Known \in Seq(Entry) /\ SoundList(Known, cur)
    BY <2>1, <2>2, SoundLegacy
  <2>4. versions = <<[vid |-> Null, body |-> data[Canonical]]>>
    BY <1>3 DEF versions, Unrecorded
  <2>5. ShownAll(<<e>>) = <<[vid |-> Null, body |-> data[Canonical]]>>
    <3>1. Shown(e) = [vid |-> Null, body |-> data[Canonical]]
      BY DEF Shown
    <3>2. ShownAll(<<e>>) = [i \in 1 .. 1 |-> Shown(<<e>>[i])]
      BY DEF ShownAll
    <3> HIDE DEF e
    <3>3. ShownAll(<<e>>) = <<Shown(e)>>
      BY <3>2
    <3> QED
      BY <3>1, <3>3
  <2> QED
    BY <2>1, <2>3, <2>4, <2>5
<1> QED
  BY <1>1, <1>2, <1>3

\* What a step may make of the list: nothing new, one version less, or one in front.
KnownStep ==
  \/ Known' = Known
  \/ \E v \in Vids : Known' = Abstract!Without(Known, v)
  \/ \E e \in Entry : /\ e.vid # Null => \A i \in 1 .. Len(Known) : Known[i].vid # e.vid
                      /\ Known' = <<e>> \o Abstract!Without(Known, e.vid)

LEMMA KnownSame ==
  ASSUME file' = "none" <=> file = "none", hist' = hist,
         file = "none" => data'[Canonical] = data[Canonical] /\ (Unrecorded' <=> Unrecorded)
  PROVE  KnownStep
BY DEF KnownStep, Known

\* Each step of this kind is a step of the abstract specification.
LEMMA KnownImplements ==
  ASSUME Base, Base', KnownStep, versions' # versions
  PROVE  Abstract!Next
<1>1. /\ Known \in Seq(Entry) /\ SoundList(Known, cur)
      /\ versions = ShownAll(Known)
  BY KnownFacts
<1>2. versions' = ShownAll(Known')
  <2>1. (versions = ShownAll(Known))'
    BY KnownFacts, PTL
  <2> QED
    BY <2>1
<1>3. \A i \in 1 .. Len(Known), j \in 1 .. Len(Known) : Known[i].vid = Known[j].vid => i = j
  BY <1>1 DEF SoundList
<1>4. Known' # Known
  BY <1>1, <1>2
<1>5. CASE \E v \in Vids : Known' = Abstract!Without(Known, v)
  <2>1. PICK v \in Vids : Known' = Abstract!Without(Known, v)
    BY <1>5
  <2>2. versions' = Abstract!Without(versions, v)
    BY <1>1, <1>2, <1>3, <2>1, ShownWithout
  <2>3. Abstract!Remove(v)
    BY <2>2 DEF Abstract!Remove
  <2> QED
    BY <2>3 DEF Abstract!Next
<1>6. CASE \E e \in Entry : /\ e.vid # Null => \A i \in 1 .. Len(Known) : Known[i].vid # e.vid
                            /\ Known' = <<e>> \o Abstract!Without(Known, e.vid)
  <2>1. PICK e \in Entry : /\ e.vid # Null => \A i \in 1 .. Len(Known) : Known[i].vid # e.vid
                           /\ Known' = <<e>> \o Abstract!Without(Known, e.vid)
    BY <1>6
  <2> DEFINE p == Abstract!Without(Known, e.vid)
             b == IF e.marker THEN None ELSE e.w
  <2>2. p \in Seq(Entry)
    <3>1. CASE \A i \in 1 .. Len(Known) : Known[i].vid # e.vid
      <4>1. p = Known
        BY <1>3, <3>1, WithoutFacts
      <4> QED
        BY <1>1, <4>1
    <3>2. CASE \E i \in 1 .. Len(Known) : Known[i].vid = e.vid
      <4>1. PICK i \in 1 .. Len(Known) : Known[i].vid = e.vid
        BY <3>2
      <4>2. p = RemoveAt(Known, i)
        BY <1>3, <4>1, WithoutFacts
      <4> QED
        BY <1>1, <4>2, RemoveAtFacts
    <3> QED
      BY <3>1, <3>2
  <2>3. ShownAll(p) = Abstract!Without(versions, e.vid)
    BY <1>1, <1>3, ShownWithout
  <2>4. Known' = <<e>> \o p
    BY <2>1
  <2>5. /\ e.vid \in Vids /\ b \in Ops \cup {None}
        /\ Shown(e) = [vid |-> e.vid, body |-> b]
    BY DEF Entry, Shown
  <2> HIDE DEF p, b
  <2>6. versions' = <<[vid |-> e.vid, body |-> b]>> \o Abstract!Without(versions, e.vid)
    BY <1>2, <2>2, <2>3, <2>4, <2>5, ShownPushed
  <2>7. e.vid # Null => \A i \in 1 .. Len(versions) : versions[i].vid # e.vid
    BY <1>1, <2>1, ShownFacts
  <2>8. Abstract!Write(e.vid, b)
    BY <2>6, <2>7 DEF Abstract!Write
  <2> QED
    BY <2>5, <2>8 DEF Abstract!Next
<1> QED
  BY <1>4, <1>5, <1>6 DEF KnownStep

\* A history that is seeded lists what the clients knew without one.
LEMMA LegacyKnown ==
  ASSUME Base, Unseeded, ~ Unrecorded, Fits(Listing)
  PROVE  LegacyHistory = Known
<1>1. PICK w \in Ops : LegacyHistory = <<[vid |-> Null, marker |-> FALSE, w |-> w]>>
  BY LegacyFacts
<1>2. Listing = LegacyHistory /\ Len(LegacyHistory) = 1
  BY ListingFacts, LegacySound
<1>3. 1 \in 1 .. Len(LegacyHistory) /\ Spot(LegacyHistory, TRUE, 1) = Canonical
  BY <1>2 DEF Spot
<1>4. ~ LegacyHistory[1].marker /\ LegacyHistory[1].w = w
  BY <1>1
<1>5. data[Canonical] = w
  <2> HIDE DEF LegacyHistory
  <2>1. Laid(data, LegacyHistory, TRUE, {})
    BY <1>2 DEF Fits
  <2> QED
    BY <1>3, <1>4, <2>1 DEF Laid
<1> QED
  BY <1>1, <1>5 DEF Known, Unseeded

LEMMA PlannedSame ==
  ASSUME Planned, wpc' \in {"idle", "seed", "seeding", "seedfill", "load", "recordfill"}
                    \/ (Loaded /\ wpc # "recordfill" /\ UNCHANGED <<pend, hist, wvid>>)
  PROVE  Planned'
BY DEF Planned, Loaded

\* Without a history file, an operation leaves no version in the list, and the
\* canonical place is empty unless it has dropped or put something there.
LEMMA Unlisted ==
  ASSUME Base, Smooth, Planned, Loaded, wpc # "recordfill", file = "none"
  PROVE  /\ hist = <<>> /\ pend = <<>>
         /\ Canonical \notin DataFree => data[Canonical] = None
<1>1. hist = <<>> /\ pend = <<>>
  BY WithoutEmpty DEF Base, TypeOK, Planned
<1>2. Laid(data, <<>>, DataHead, DataFree)
  BY <1>1, AtWorkFacts DEF AtWorkLaid
<1>3. Len(<<>>) = 0
  OBVIOUS
<1> QED
  BY <1>1, <1>2, <1>3, PlaceFacts DEF Laid

LEMMA PlansBegin ==
  ASSUME Base, Smooth, NEW o \in {"put", "delete", "remove"}, NEW v, NEW pc,
         Begin(o, v, pc),
         pc = IF o = "remove" \/ mode # "Off" THEN "seed" ELSE IF o = "put" THEN "place" ELSE "drop",
         upsets' = {}
  PROVE  Planned' /\ KnownStep
<1>1. /\ wpc = "idle" /\ wpc' = pc /\ op' = o /\ wmode' = mode
      /\ UNCHANGED <<disk, pend>>
      /\ o # "remove" /\ mode = "Off" => file = "none"
  BY DEF Begin
<1>2. pend = <<>>
  BY <1>1 DEF Base, Control
<1>3. file = "none" => hist = <<>>
  BY DEF Base, TypeOK
<1>4. Planned'
  <2>1. CASE pc = "seed"
    BY <1>1, <2>1 DEF Planned, Loaded
  <2>2. CASE pc # "seed"
    <3>1. hist' = <<>> /\ pend' = <<>>
      BY <1>1, <1>2, <1>3, <2>2 DEF disk
    <3> QED
      BY <3>1, WithoutEmpty DEF Planned
  <2> QED
    BY <2>1, <2>2
<1>5. ~ Unrecorded /\ ~ Unrecorded'
  BY <1>1 DEF Unrecorded
<1>6. KnownStep
  BY <1>1, <1>5, KnownSame DEF disk
<1> QED
  BY <1>4, <1>6

LEMMA PlansSeed ==
  ASSUME Base, Smooth, Seed \/ Seeding \/ SeedFill
  PROVE  Planned' /\ KnownStep
<1>1. /\ wpc' \in {"seeding", "seedfill", "load"} /\ wpc \in {"seed", "seeding", "seedfill"}
      /\ UNCHANGED data
  BY DEF Seed, Seeding, SeedFill, Truncate, GoTo, disk
<1>2. Planned'
  BY <1>1 DEF Planned, Loaded
<1>3. ~ Unrecorded /\ ~ Unrecorded'
  BY <1>1 DEF Unrecorded
<1>4. CASE Seed
  <2>1. file' = file /\ hist' = hist
    BY <1>4 DEF Seed, disk
  <2> QED
    BY <1>1, <1>2, <1>3, <2>1, KnownSame
<1>5. CASE Seeding
  <2>1. /\ wpc = "seeding" /\ file' = "torn" /\ hist' = pend
    BY <1>5 DEF Seeding, Truncate, TruncateHistory
  <2>2. Unseeded /\ pend = LegacyHistory /\ Listing = LegacyHistory
    BY <2>1, ListingFacts DEF Smooth, FileState
  <2>3. LegacyHistory = Known
    BY <1>3, <2>1, <2>2, LegacyKnown DEF Loaded, Smooth, AtRest
  <2>4. Known' = LegacyHistory
    BY <2>1, <2>2 DEF Known
  <2> QED
    BY <1>2, <2>3, <2>4 DEF KnownStep
<1>6. CASE SeedFill
  <2>1. wpc = "seedfill" /\ file = "torn" /\ hist = pend
    BY <1>6 DEF SeedFill, Smooth, FileState
  <2>2. file' = "whole" /\ hist' = hist
    BY <1>6, <2>1 DEF SeedFill, FillHistory
  <2> QED
    BY <1>2, <2>1, <2>2, KnownSame
<1> QED
  BY <1>2, <1>4, <1>5, <1>6

LEMMA PlansLoad ==
  ASSUME Base, Smooth, Load
  PROVE  Planned' /\ KnownStep
<1>1. wpc = "load" /\ file' = file /\ hist' = hist /\ data' = data
  BY DEF Load, disk
<1>2. ReadHistory = hist /\ \A i \in 1 .. Len(hist), j \in 1 .. Len(hist) :
                              hist[i].vid = hist[j].vid => i = j
  <2>1. file # "torn"
    BY <1>1 DEF Smooth, FileState
  <2> QED
    BY <2>1 DEF ReadHistory, Base, TypeOK, SoundList
<1>3. CASE op # "remove" /\ LoadForWrite /\ UNCHANGED <<op, wmode, wvid, cur, seen>>
  <2>1. PICK i \in 0 .. Len(hist) :
           /\ i # 0 => wmode = "Suspended" /\ hist[i].vid = Null
           /\ wmode = "Suspended" /\ i = 0 => \A k \in 1 .. Len(hist) : hist[k].vid # Null
           /\ i = 0 => pend' = hist
           /\ i # 0 => pend' = RemoveAt(hist, i)
           /\ shift' = IF i # 1 /\ pend' # <<>> /\ ~ pend'[1].marker THEN "demote" ELSE "stay"
           /\ i # 0 /\ ~ hist[i].marker => wpc' = "drop"
           /\ i = 0 \/ hist[i].marker => wpc' = AfterDrop(shift', pend')
    BY <1>1, <1>2, <1>3, LoadForWriteFacts
  <2>2. Adding /\ wmode # "Off" /\ wvid = IF wmode = "Enabled" THEN cur ELSE Null
    BY <1>1, <1>3 DEF Base, TypeOK, Control, Adding
  <2>3. pend' = Abstract!Without(hist, wvid)
    <3>1. CASE i = 0
      <4>1. \A k \in 1 .. Len(hist) : hist[k].vid # wvid
        <5>1. CASE wmode = "Enabled"
          BY <1>1, <2>2, <5>1 DEF Base, NewId
        <5>2. CASE wmode # "Enabled"
          <6>1. wmode = "Suspended"
            BY <2>2, <5>2 DEF Base, TypeOK, Modes
          <6> QED
            BY <2>1, <2>2, <3>1, <6>1
        <5> QED
          BY <5>1, <5>2
      <4> QED
        BY <1>2, <2>1, <3>1, <4>1, WithoutFacts
    <3>2. CASE i # 0
      <4>1. i \in 1 .. Len(hist) /\ hist[i].vid = wvid
        BY <2>1, <2>2, <3>2
      <4> QED
        BY <1>2, <2>1, <3>2, <4>1, WithoutFacts
    <3> QED
      BY <3>1, <3>2
  <2>4. wpc' \notin {"describe", "describefill", "record"} \/ op # "put"
    <3>1. wpc' = "drop" \/ wpc' = AfterDrop(shift', pend')
      BY <2>1
    <3>2. op \in {"put", "delete", "remove"} /\ shift' \in {"stay", "demote"}
      BY <2>1, <2>2 DEF Adding
    <3> QED
      BY <3>1, <3>2, AfterMoveFacts DEF AfterDrop
  <2>5. ~ Unrecorded /\ ~ Unrecorded'
    BY <1>1, <1>3, <2>4 DEF Unrecorded
  <2>6. Planned'
    BY <1>1, <1>3, <2>3 DEF Planned
  <2>7. KnownStep
    BY <1>1, <2>5, KnownSame
  <2> QED
    BY <2>6, <2>7
<1>4. CASE op = "remove" /\ LoadForRemove /\ UNCHANGED <<op, wmode, wvid, cur, seen>>
  <2>1. PICK i \in 1 .. Len(hist) : hist[i].vid = wvid /\ pend' = RemoveAt(hist, i)
    BY <1>2, <1>4, LoadForRemoveFacts
  <2>2. pend' = Abstract!Without(hist, wvid)
    BY <1>2, <2>1, WithoutFacts
  <2>3. ~ Unrecorded /\ ~ Unrecorded'
    BY <1>1, <1>4 DEF Unrecorded
  <2>4. Planned'
    BY <1>1, <1>4, <2>2 DEF Planned
  <2>5. KnownStep
    BY <1>1, <2>3, KnownSame
  <2> QED
    BY <2>4, <2>5
<1>5. CASE Finish("nosuchversion")
  <2>1. wpc' = "idle" /\ ~ Unrecorded /\ ~ Unrecorded'
    BY <1>1, <1>5 DEF Finish, Unrecorded
  <2> QED
    BY <1>1, <2>1, KnownSame DEF Planned, Loaded
<1> QED
  BY <1>3, <1>4, <1>5 DEF Load

LEMMA PlansDrop ==
  ASSUME Base, Smooth, Planned, Drop \/ DropMeta
  PROVE  Planned' /\ KnownStep
<1>1. CASE Drop
  <2>1. /\ wpc = "drop" /\ wpc' = "dropmeta" /\ data' = [data EXCEPT ![victim] = None]
        /\ UNCHANGED <<pend, hist, wvid, file, op, wmode>>
    BY <1>1 DEF Drop, GoTo
  <2>2. Planned'
    BY <2>1, PlannedSame DEF Loaded
  <2>3. ~ Unrecorded /\ ~ Unrecorded'
    BY <2>1 DEF Unrecorded
  <2>4. data'[Canonical] \in {data[Canonical], None}
    BY <2>1, PlaceFacts DEF Base, TypeOK
  <2>5. CASE file # "none" \/ data'[Canonical] = data[Canonical]
    BY <2>1, <2>2, <2>3, <2>5, KnownSame
  <2>6. CASE file = "none" /\ data'[Canonical] = None /\ data[Canonical] # None
    <3> DEFINE e == [vid |-> Null, marker |-> FALSE, w |-> data[Canonical]]
    <3>1. Known = <<e>> /\ Known' = <<>>
      BY <2>1, <2>3, <2>6 DEF Known
    <3>2. <<e>> \in Seq(Entry) /\ e.vid = Null
      BY <3>1, KnownFacts
    <3> HIDE DEF e
    <3>3. Known' = Abstract!Without(Known, Null)
      BY <3>1, <3>2, WithoutOnly
    <3> QED
      BY <2>2, <3>3, PlaceFacts DEF KnownStep
  <2> QED
    BY <2>4, <2>5, <2>6
<1>2. CASE DropMeta
  <2>1. /\ wpc = "dropmeta" /\ UNCHANGED <<data, file, hist>>
        /\ \/ wpc' = "idle"
           \/ wpc' = AfterDrop(shift, pend) /\ UNCHANGED <<pend, wvid, op, wmode>>
    BY <1>2 DEF DropMeta, GoTo, Finish
  <2>2. Planned'
    BY <2>1, PlannedSame DEF Loaded
  <2>3. wpc' \notin {"describe", "describefill", "record"} \/ op' # "put"
    <3>1. op \in {"put", "delete", "remove"} /\ shift \in {"stay", "demote", "promote"}
      BY <2>1 DEF Base, TypeOK, Control
    <3> QED
      BY <2>1, <3>1, AfterMoveFacts DEF AfterDrop
  <2>4. ~ Unrecorded /\ ~ Unrecorded'
    BY <2>1, <2>3 DEF Unrecorded
  <2> QED
    BY <2>1, <2>2, <2>4, KnownSame
<1> QED
  BY <1>1, <1>2

LEMMA PlansMove ==
  ASSUME Base, Smooth, Planned, Demote \/ DemoteMeta \/ Promote \/ PromoteMeta
  PROVE  Planned' /\ KnownStep
<1>1. /\ wpc \in {"demote", "demotemeta", "promote", "promotemeta"} /\ Loaded /\ pend # <<>>
      /\ UNCHANGED <<file, hist>>
  BY DEF Demote, DemoteMeta, Promote, PromoteMeta, MoveData, MoveMeta, Base, Control, Loaded
<1>2. wpc' = "idle" \/ UNCHANGED <<pend, wvid>>
  BY DEF Demote, DemoteMeta, Promote, PromoteMeta, MoveData, MoveMeta, GoTo, Finish
<1>3. Planned'
  BY <1>1, <1>2, PlannedSame
<1>4. file # "none"
  BY <1>1, Unlisted
<1> QED
  BY <1>1, <1>3, <1>4, KnownSame

LEMMA PlansPlace ==
  ASSUME Base, Smooth, Planned, Place
  PROVE  Planned' /\ KnownStep
<1>1. /\ wpc = "place" /\ wpc' = "describe" /\ data' = [data EXCEPT ![Canonical] = cur]
      /\ UNCHANGED <<pend, hist, wvid, file, op, wmode, cur>> /\ op = "put" /\ Loaded
  BY DEF Place, GoTo, Base, Control, Loaded
<1>2. Planned'
  BY <1>1, PlannedSame
<1>3. data'[Canonical] = cur /\ cur \in Ops /\ cur # None
  <2>1. cur \in 0 .. MaxOps /\ cur > 0
    BY <1>1 DEF Base, TypeOK, Control
  <2>2. cur \in Ops
    BY <2>1, Bounds DEF Ops
  <2> QED
    BY <1>1, <2>2, PlaceFacts DEF Base, TypeOK
<1>4. CASE file # "none"
  BY <1>1, <1>2, <1>4, KnownSame
<1>5. CASE file = "none" /\ wmode # "Off"
  <2>1. ~ Unrecorded /\ Unrecorded'
    BY <1>1, <1>5 DEF Unrecorded
  <2>2. data[Canonical] = None
    BY <1>1, <1>5, Unlisted DEF DataFree, Taken
  <2> QED
    BY <1>1, <1>2, <1>5, <2>1, <2>2 DEF KnownStep, Known
<1>6. CASE file = "none" /\ wmode = "Off"
  <2> DEFINE e == [vid |-> Null, marker |-> FALSE, w |-> cur]
  <2>1. ~ Unrecorded /\ ~ Unrecorded'
    BY <1>1, <1>6 DEF Unrecorded
  <2>2. Known' = <<e>>
    BY <1>1, <1>3, <1>6, <2>1 DEF Known
  <2>3. Abstract!Without(Known, Null) = <<>>
    <3>1. CASE data[Canonical] = None
      BY <1>6, <3>1, WithoutEmpty DEF Known
    <3>2. CASE data[Canonical] # None
      <4> DEFINE o == [vid |-> Null, marker |-> FALSE, w |-> data[Canonical]]
      <4>1. Known = <<o>> /\ o.vid = Null
        BY <1>6, <2>1, <3>2 DEF Known
      <4> HIDE DEF o
      <4> QED
        BY <4>1, WithoutOnly, KnownFacts
    <3> QED
      BY <3>1, <3>2
  <2>4. e \in Entry /\ e.vid = Null
    BY <1>3, PlaceFacts DEF Entry
  <2>5. <<e>> \o <<>> = <<e>>
    <3>1. <<e>> \in Seq(Entry)
      BY <2>4
    <3> QED
      BY <3>1, ConcatEmptySeq
  <2> HIDE DEF e
  <2>6. Known' = <<e>> \o Abstract!Without(Known, e.vid)
    BY <2>2, <2>3, <2>4, <2>5
  <2> QED
    BY <1>2, <2>4, <2>6 DEF KnownStep
<1> QED
  BY <1>4, <1>5, <1>6

LEMMA PlansDescribe ==
  ASSUME Base, Smooth, Planned, Describe \/ DescribeFill
  PROVE  Planned' /\ KnownStep
<1>1. /\ wpc \in {"describe", "describefill"} /\ Loaded /\ op = "put"
      /\ UNCHANGED <<data, file, hist>>
  BY DEF Describe, DescribeFill, Base, Control, Loaded
<1>2. \/ wpc' \in {"describefill", "record"} /\ UNCHANGED <<pend, wvid, op, wmode>>
      \/ wmode = "Off" /\ wpc' = "idle"
  BY <1>1 DEF Describe, DescribeFill, GoTo, Finish
<1>3. Planned'
  BY <1>1, <1>2, PlannedSame
<1>4. Unrecorded' <=> Unrecorded
  BY <1>1, <1>2 DEF Unrecorded
<1> QED
  BY <1>1, <1>3, <1>4, KnownSame

LEMMA PlansRecord ==
  ASSUME Base, Smooth, Planned, Record
  PROVE  Planned' /\ KnownStep
<1>1. /\ wpc = "record" /\ wpc' = "recordfill" /\ file' = "torn" /\ hist' = NewHistory
      /\ Loaded /\ UNCHANGED data /\ op \in {"put", "delete", "remove"}
  BY DEF Record, Truncate, TruncateHistory, GoTo, Loaded, Base, TypeOK, Control
<1>2. Planned'
  BY <1>1, PlannedSame
<1>3. pend = Abstract!Without(hist, wvid) /\ wvid \in Vids
  BY <1>1 DEF Planned, Base, TypeOK
<1>4. Known = hist
  <2>1. CASE file # "none"
    BY <2>1 DEF Known
  <2>2. CASE file = "none"
    <3>1. hist = <<>> /\ pend = <<>>
      BY <1>1, <2>2, Unlisted
    <3>2. op # "remove"
      BY <1>1, <3>1 DEF Base, Control
    <3>3. CASE op = "put"
      <4>1. Unrecorded
        BY <1>1, <3>3 DEF Unrecorded, Base, Control, Adding
      <4> QED
        BY <2>2, <3>1, <4>1 DEF Known
    <3>4. CASE op = "delete"
      <4>1. data[Canonical] = None
        BY <1>1, <2>2, <3>4, Unlisted DEF DataFree, Taken
      <4> QED
        BY <2>2, <3>1, <4>1 DEF Known
    <3> QED
      BY <1>1, <3>2, <3>3, <3>4
  <2> QED
    BY <2>1, <2>2
<1>5. Known' = NewHistory
  BY <1>1 DEF Known
<1>6. CASE op = "remove"
  BY <1>2, <1>3, <1>4, <1>5, <1>6 DEF KnownStep, NewHistory
<1>7. CASE op # "remove"
  <2> DEFINE e == [vid |-> wvid, marker |-> op = "delete", w |-> cur]
  <2>1. NewHistory = <<e>> \o pend
    BY <1>7 DEF NewHistory
  <2>2. e \in Entry /\ e.vid = wvid
    <3>1. cur \in Ops
      BY <1>1, Bounds DEF Base, TypeOK, Control, Ops
    <3>2. (op = "delete") \in BOOLEAN
      OBVIOUS
    <3> QED
      BY <1>3, <3>1, <3>2 DEF Entry
  <2>3. wvid # Null => \A i \in 1 .. Len(hist) : hist[i].vid # wvid
    BY <1>1, <1>7 DEF Base, Control, NewId, Adding
  <2> HIDE DEF e
  <2>4. Known' = <<e>> \o Abstract!Without(Known, e.vid)
    BY <1>3, <1>4, <1>5, <2>1, <2>2
  <2> QED
    BY <1>2, <1>4, <2>2, <2>3, <2>4 DEF KnownStep
<1> QED
  BY <1>6, <1>7

LEMMA PlansEnd ==
  ASSUME Base, Smooth, Planned, RecordFill \/ Unlist
  PROVE  Planned' /\ KnownStep
<1>1. wpc' = "idle" /\ data' = data /\ ~ Unrecorded'
  BY DEF RecordFill, Unlist, Finish, Unrecorded
<1>2. Planned'
  BY <1>1, PlannedSame
<1>3. CASE RecordFill
  <2>1. wpc = "recordfill" /\ file = "torn" /\ hist = NewHistory
    BY <1>3 DEF RecordFill, Smooth, FileState
  <2>2. file' = "whole" /\ hist' = hist
    BY <1>3, <2>1 DEF RecordFill, FillHistory
  <2> QED
    BY <1>2, <2>1, <2>2, KnownSame
<1>4. CASE Unlist
  <2>1. /\ wpc = "unlist" /\ file' = "none" /\ hist' = <<>> /\ Loaded /\ op = "remove" /\ pend = <<>>
    BY <1>4 DEF Unlist, RemoveHistory, Loaded, Base, Control
  <2>2. data[Canonical] = None
    <3>1. Laid(data, <<>>, DataHead, DataFree) /\ DataFree = {}
      BY <2>1, AtWorkFacts DEF AtWorkLaid, DataFree, Taken
    <3>2. Len(<<>>) = 0
      OBVIOUS
    <3> QED
      BY <3>1, <3>2, PlaceFacts DEF Laid
  <2>3. Known' = <<>>
    BY <1>1, <2>1, <2>2 DEF Known
  <2>4. CASE file # "none"
    <3>1. Known = hist /\ wvid \in Vids /\ Abstract!Without(hist, wvid) = <<>>
      BY <2>1, <2>4 DEF Known, Planned, Base, TypeOK
    <3> QED
      BY <1>2, <2>3, <3>1 DEF KnownStep
  <2>5. CASE file = "none"
    BY <1>2, <2>2, <2>3, <2>5 DEF KnownStep, Known
  <2> QED
    BY <2>4, <2>5
<1> QED
  BY <1>3, <1>4

LEMMA PlansReader ==
  ASSUME Base, Smooth, Planned, upsets' = {},
         ReaderStep \/ VersioningSet \/ (\E m \in Modes : SetVersioning(m)) \/ UNCHANGED vars
  PROVE  Planned' /\ KnownStep
<1>1. data' = data /\ UNCHANGED writer
  <2>1. ReaderStep => data' = data /\ UNCHANGED writer
    BY DEF ReaderStep, GetVersion, RSeed, RSeeding, RSeedFill, RLoad, RMeta, ROpen, disk
  <2> QED
    BY <2>1 DEF VersioningSet, SetVersioning, vars, disk
<1>2. Unrecorded' <=> Unrecorded
  BY <1>1 DEF Unrecorded, writer
<1>3. CASE RSeeding
  <2>1. /\ rpc = "seeding" /\ file' = "torn" /\ hist' = rhist /\ wpc = "idle"
    BY <1>3 DEF RSeeding, TruncateHistory, Smooth, FileState
  <2>2. Unseeded /\ rhist = LegacyHistory
    BY <2>1 DEF Smooth, FileState
  <2>3. LegacyHistory = Known
    BY <2>1, <2>2, LegacyKnown DEF Smooth, AtRest, Loaded, Unrecorded
  <2>4. Known' = LegacyHistory
    BY <2>1, <2>2 DEF Known
  <2>5. Planned'
    BY <1>1, <2>1, PlannedSame DEF writer
  <2> QED
    BY <2>3, <2>4, <2>5 DEF KnownStep
<1>4. CASE RSeedFill
  <2>1. rpc = "seedfill" /\ file = "torn" /\ hist = rhist /\ wpc = "idle"
    BY <1>4 DEF RSeedFill, Smooth, FileState
  <2>2. file' = "whole" /\ hist' = hist
    BY <1>4, <2>1 DEF RSeedFill, FillHistory
  <2>3. Planned'
    BY <1>1, <2>1, PlannedSame DEF writer
  <2> QED
    BY <1>1, <1>2, <2>1, <2>2, <2>3, KnownSame
<1>5. CASE ~ RSeeding /\ ~ RSeedFill
  <2>1. file' = file /\ hist' = hist
    <3>1. ReaderStep => UNCHANGED disk
      BY <1>5 DEF ReaderStep, GetVersion, RSeed, RLoad, RMeta, ROpen
    <3> QED
      BY <3>1 DEF VersioningSet, SetVersioning, vars, disk
  <2>2. Planned'
    BY <1>1, <2>1 DEF Planned, Loaded, writer
  <2> QED
    BY <1>1, <1>2, <2>1, <2>2, KnownSame
<1> QED
  BY <1>3, <1>4, <1>5

LEMMA PlansNext ==
  ASSUME Base, Smooth, Planned, [Next]_vars, upsets' = {}
  PROVE  Planned' /\ KnownStep
<1>1. CASE WriterStep
  <2>1. CASE BeginPut
    <3>1. Begin("put", NewVid, IF mode = "Off" THEN "place" ELSE "seed")
      BY <2>1 DEF BeginPut
    <3> QED
      BY <3>1, PlansBegin
  <2>2. CASE BeginDelete
    <3>1. Begin("delete", NewVid, IF mode = "Off" THEN "drop" ELSE "seed")
      BY <2>2 DEF BeginDelete
    <3> QED
      BY <3>1, PlansBegin
  <2>3. CASE \E v \in Vids : v <= cur /\ BeginRemove(v)
    BY <2>3, PlansBegin DEF BeginRemove
  <2>4. ~ Abandon
    BY DEF Abandon
  <2> QED
    BY <1>1, <2>1, <2>2, <2>3, <2>4, PlansSeed, PlansLoad, PlansDrop, PlansMove, PlansPlace,
       PlansDescribe, PlansRecord, PlansEnd DEF WriterStep
<1>2. CASE ~ WriterStep
  BY <1>2, PlansReader DEF Next
<1> QED
  BY <1>1, <1>2

\* storage/mod.rs, what versioning promises of a key: until something goes wrong,
\* the steps of the filesystem backend, in which files are changed one by one,
\* amount to the steps of a versioned key, each of which adds one version in
\* front or removes one, and to nothing else (ImplementsVersionedKey).
THEOREM VersionsRefine == Spec => ImplementsVersionedKey
<1>1. Init => Abstract!Init /\ PlannedInv
  <2>1. Init => Planned
    BY DEF Init, Planned, Loaded
  <2>2. Init => versions = <<>>
    <3>1. Init => file = "none" /\ data[Canonical] = None
      BY PlaceFacts DEF Init
    <3> QED
      BY <3>1 DEF versions
  <2> QED
    BY <2>1, <2>2 DEF Abstract!Init, PlannedInv
<1>2. ASSUME Base, Base', SmoothInv, SmoothInv', PlannedInv, [Next]_vars
      PROVE  PlannedInv' /\ (upsets' = {} /\ versions' # versions => Abstract!Next)
  <2>1. SUFFICES ASSUME upsets' = {}
                 PROVE  Planned' /\ (versions' # versions => Abstract!Next)
    BY DEF PlannedInv
  <2>2. upsets = {}
    BY <1>2, <2>1, UpsetsGrow
  <2>3. Planned' /\ KnownStep
    BY <1>2, <2>1, <2>2, PlansNext DEF SmoothInv, PlannedInv
  <2> QED
    BY <1>2, <2>3, KnownImplements
<1>3. Base /\ Base' /\ SmoothInv /\ SmoothInv' /\ PlannedInv /\ [Next]_vars
        => PlannedInv' /\ [upsets' = {} /\ versions' # versions => Abstract!Next]_vars
  BY <1>2
<1> QED
  BY <1>1, <1>3, SmoothInductive, PTL DEF Spec, ImplementsVersionedKey

-------------------------------------------------------------------------------
(* The erasure backend *)

\* The operation adds a version or a marker; it goes without a history.
EAdding == eTask.op \in {"put", "delete"}
EPlain == EAdding /\ eTask.mode = "Off"

\* The operation has loaded the history.
ELoaded == eTask.pc \in {"drop", "move", "store", "record", "wipe"} /\ ~ EPlain

\* What the operation's place says of it.
EControl ==
  /\ eTask.pc = "idle" <=> eTask.op = "none"
  /\ eTask.op # "none" => eTally.ops > 0
  /\ ~ ELoaded => eTask.pend = <<>> /\ eTask.drop = Erasure!NoPlace /\ eTask.move = "stay"
  /\ EPlain => eTask.pc = IF eTask.op = "put" THEN "store" ELSE "wipe"
  /\ EAdding => eTask.vid = IF eTask.mode = "Enabled" THEN eTally.ops ELSE Null
  /\ eTask.move = "demote" => EAdding /\ eTask.pend # <<>> /\ ~ eTask.pend[1].marker
  /\ eTask.move = "promote" => eTask.op = "remove" /\ eTask.pend # <<>> /\ ~ eTask.pend[1].marker
  /\ eTask.pc = "store" => eTask.op = "put"
  /\ eTask.pc = "wipe" /\ ~ EPlain => eTask.op = "remove" /\ eTask.pend = <<>>
  /\ eTask.pc = "record" /\ eTask.op = "remove" => eTask.pend # <<>>

\* The id of a version that is being added is in no list yet.
ENewId ==
  /\ EAdding /\ eTask.mode = "Enabled" =>
       \A d \in Erasure!Drives :
         \A i \in 1 .. Len(eHistory[d].list) : eHistory[d].list[i].vid # eTask.vid
  /\ EAdding => \A i \in 1 .. Len(eTask.pend) : eTask.pend[i].vid # eTask.vid

\* The histories, and the shards, are of operations so far.
EHistories ==
  \A d \in Erasure!Drives : /\ SoundList(eHistory[d].list, eTally.ops)
                            /\ eHistory[d].epoch = 0 => eHistory[d] = Erasure!NoHistory
EShards == \A d \in Erasure!Drives : \A p \in Erasure!Places : eSlot[d][p] <= eTally.ops

EBase == /\ Erasure!OperationTypes /\ EControl /\ ENewId /\ EHistories /\ EShards
         /\ SoundList(eTask.pend, eTally.ops)

\* The history of an object that has none.
Legacy(w) == <<[vid |-> Null, marker |-> FALSE, w |-> w]>>

\* What a GET or HEAD is about to write is one version "null".
EGets == eGetter = <<>> \/ \E w \in Erasure!Ops : eGetter = Legacy(w)

\* The drives that missed nothing, and the history that counts.
Fresh == Erasure!Drives \ eBehind
Counts == Erasure!Newest(Erasure!Drives)

\* Where a drive keeps entry k of h, and that it has all that h lists.
ESpot(h, atCur, k) == IF k = 1 /\ atCur THEN Erasure!Current ELSE h[k].vid
Stored(f, h, atCur) ==
  \A k \in 1 .. Len(h) : ~ h[k].marker => f[ESpot(h, atCur, k)] = h[k].w

\* What the drives amount to, whether there is a history or not.
EListing ==
  IF Counts.epoch > 0 THEN Counts.list
  ELSE IF Erasure!Latest(Erasure!Current) = None THEN <<>>
  ELSE Legacy(Erasure!Latest(Erasure!Current))

\* In an operation: whether the first of the versions that stay is at the
\* current place.
EHead == \/ eTask.op = "remove" /\ (eTask.move = "stay" \/ eTask.pc \in {"record", "wipe"})
         \/ eTask.op # "remove" /\ eTask.move = "demote" /\ eTask.pc \in {"drop", "move"}

\* One history has the highest epoch, and drives that missed nothing have it.
OneHistory ==
  /\ \A d \in Erasure!Drives : eHistory[d].epoch = Counts.epoch => eHistory[d] = Counts
  /\ \A d \in Fresh : eHistory[d] = Counts

\* Before an operation drops anything the drives that missed nothing have what
\* is listed; after it has loaded the history, what is to stay.  Acknowledged
\* versions are in both.
EAtRest ==
  ~ ELoaded \/ eTask.pc = "drop" =>
    (\A d \in Fresh : Stored(eSlot[d], EListing, TRUE)) /\ Lists(EListing, eOwed)
EAtWork ==
  ELoaded =>
    /\ \A d \in Fresh : Stored(eSlot[d], eTask.pend, EHead)
    /\ Lists(eTask.pend, eOwed)
    /\ eTask.pc = "drop" => \A k \in 1 .. Len(eTask.pend) :
                              ~ eTask.pend[k].marker => ESpot(eTask.pend, EHead, k) # eTask.drop
    /\ eTask.pc = "record" /\ eTask.op = "put" =>
         \A d \in Fresh : eSlot[d][Erasure!Current] = eTally.ops

\* What an operation has loaded is the history that counts, and what it is
\* about to record that history without the version it replaces or removes.
EPlanned ==
  ELoaded => /\ eTask.epoch = Counts.epoch
             /\ eTask.pend = Abstract!Without(Counts.list, eTask.vid)

\* An operation that found no history found no object either.
EUnborn ==
  (eTask.pc = "load" \/ ELoaded) /\ Counts.epoch = 0 =>
    /\ eTask.op = "remove" => eTask.pc = "load"
    /\ eTask.drop = Erasure!NoPlace /\ eTask.move = "stay" /\ eTask.pend = <<>>
    /\ ~ (eTask.pc = "record" /\ eTask.op = "put") => Erasure!Latest(Erasure!Current) = None

\* An operation has given up what it replaces or removes.
EGivenUp ==
  eTask.op # "none" /\ (eTask.op = "remove" \/ eTask.vid = Null) => \A x \in eOwed : x.vid # eTask.vid

ESmooth == /\ OneHistory /\ EAtRest /\ EAtWork /\ EPlanned /\ EUnborn /\ EGivenUp
           /\ EPlain => Counts.epoch = 0

\* What a GET or HEAD is about to write is still what there is.
EPending ==
  eGetter # <<>> => /\ eTask.pc = "idle" /\ Counts.epoch = 0
                    /\ Erasure!Latest(Erasure!Current) # None
                    /\ eGetter = Legacy(Erasure!Latest(Erasure!Current))

ESmoothInv == eUpsets = {} => ESmooth /\ EPending

-------------------------------------------------------------------------------
(* Drives and the history that counts *)

LEMMA EPlaceFacts ==
  /\ Erasure!Current \notin Erasure!Vids /\ Erasure!Current \in Erasure!Places
  /\ Erasure!Vids \subseteq Erasure!Places /\ Null \in Erasure!Vids
  /\ Erasure!Ops \subseteq Erasure!Vids /\ Erasure!Ops \subseteq Nat /\ Erasure!Vids \subseteq Nat
  /\ Erasure!NoPlace \notin Erasure!Places /\ None \notin Erasure!Ops
BY ErasureAssumption DEF Erasure!Current, Erasure!Vids, Erasure!Places, Erasure!Ops, Erasure!Null,
   Erasure!NoPlace, Null, None

LEMMA EDriveFacts ==
  /\ Erasure!Drives # {} /\ Erasure!Drives \subseteq Nat
  /\ IsFiniteSet(Erasure!Drives) /\ N \in Erasure!Drives
<1>1. IsFiniteSet(1 .. N)
  BY ErasureAssumption, FS_Interval
<1> QED
  BY <1>1, ErasureAssumption DEF Erasure!Drives

\* A set of numbers has a least one.
LEMMA LeastExists ==
  ASSUME NEW D, D \subseteq Nat, D # {}
  PROVE  \E d \in D : \A e \in D : d <= e
<1>1. PICK d \in D : \A e \in D : ~ (<<e, d>> \in OpToRel(<, Nat))
  BY NatLessThanWellFounded, WFMin, Zenon
<1>2. \A e \in D : ~ (e < d)
  <2>1. ASSUME NEW e \in D, e < d PROVE <<e, d>> \in OpToRel(<, Nat)
    BY <2>1, Zenon DEF OpToRel
  <2> QED
    BY <1>1, <2>1, Zenon
<1>3. \A e \in D : d <= e
  BY <1>2
<1> QED
  BY <1>3

\* Of some drives, one has the highest number.
LEMMA HighestExists ==
  ASSUME NEW D, D \subseteq Erasure!Drives, D # {}, NEW f, \A d \in D : f[d] \in Nat
  PROVE  \E d \in D : \A e \in D : f[e] <= f[d]
<1> DEFINE P(n) == {d \in D : d <= n} # {} =>
                     \E d \in D : d <= n /\ \A e \in D : e <= n => f[e] <= f[d]
           B == {n \in 0 .. N : ~ P(n)}
<1>1. D \subseteq 1 .. N /\ N \in Nat
  BY ErasureAssumption DEF Erasure!Drives
<1>2. B = {}
  <2>1. SUFFICES ASSUME B # {} PROVE FALSE
    OBVIOUS
  <2>2. B \subseteq Nat
    BY <1>1
  <2>3. PICK n \in B : \A m \in B : n <= m
    BY <2>1, <2>2, LeastExists
  <2>4. n \in 0 .. N /\ ~ P(n)
    OBVIOUS
  <2>5. n # 0
    <3>1. SUFFICES ASSUME n = 0 PROVE FALSE
      OBVIOUS
    <3>2. \A d \in D : ~ (d <= n)
      BY <1>1, <3>1
    <3> QED
      BY <3>2, <2>4
  <2>6. P(n - 1)
    <3>1. n - 1 \in 0 .. N /\ ~ (n <= n - 1)
      BY <2>4, <2>5, <1>1
    <3> QED
      BY <3>1, <2>3
  <2>7. \A d \in D : d <= n <=> d <= n - 1 \/ d = n
    BY <1>1, <2>4
  <2>8. CASE {d \in D : d <= n - 1} = {}
    <3>1. \A d \in D : d <= n => d = n
      BY <2>7, <2>8
    <3>2. PICK d \in D : d <= n
      BY <2>4
    <3>3. d = n /\ f[n] <= f[n] /\ n <= n
      BY <1>1, <3>1, <3>2
    <3>4. \A e \in D : e <= n => f[e] <= f[d]
      BY <3>1, <3>3
    <3> QED
      BY <2>4, <3>2, <3>4
  <2>9. CASE {d \in D : d <= n - 1} # {}
    <3>1. PICK d \in D : d <= n - 1 /\ \A e \in D : e <= n - 1 => f[e] <= f[d]
      BY <2>6, <2>9
    <3>2. CASE n \in D /\ f[n] > f[d]
      <4>1. \A e \in D : e <= n => f[e] <= f[n]
        BY <3>1, <3>2, <2>7
      <4> QED
        BY <2>4, <3>2, <4>1
    <3>3. CASE n \notin D \/ ~ (f[n] > f[d])
      <4>1. \A e \in D : e <= n => f[e] <= f[d]
        BY <3>1, <3>3, <2>7
      <4>2. d <= n
        BY <3>1, <2>7
      <4> QED
        BY <2>4, <4>1, <4>2
    <3> QED
      BY <3>2, <3>3
  <2> QED
    BY <2>8, <2>9
<1>3. P(N)
  <2>1. N \in 0 .. N
    BY <1>1
  <2> QED
    BY <1>2, <2>1
<1>4. \A d \in D : d <= N
  BY <1>1
<1> QED
  BY <1>3, <1>4

\* Newest has the highest epoch among the drives asked.
LEMMA NewestFacts ==
  ASSUME Erasure!OperationTypes, NEW D, D \subseteq Erasure!Drives, D # {}
  PROVE  /\ \E d \in D : Erasure!Newest(D) = eHistory[d]
         /\ \A e \in D : eHistory[e].epoch <= Erasure!Newest(D).epoch
<1> DEFINE f == [d \in Erasure!Drives |-> eHistory[d].epoch]
           M == {d \in D : \A e \in D : eHistory[e].epoch <= eHistory[d].epoch}
           C(d) == /\ \A e \in D : eHistory[e].epoch <= eHistory[d].epoch
                   /\ \A e \in D : eHistory[e].epoch = eHistory[d].epoch => d <= e
<1>1. \A d \in D : f[d] = eHistory[d].epoch /\ eHistory[d].epoch \in Nat
  BY DEF Erasure!OperationTypes, Erasure!History
<1>2. \E d \in D : \A e \in D : f[e] <= f[d]
  <2>1. \A d \in D : f[d] \in Nat
    BY <1>1
  <2> HIDE DEF f
  <2> QED
    BY <2>1, HighestExists
<1>3. M # {} /\ M \subseteq Nat
  BY <1>1, <1>2, EDriveFacts
<1>4. PICK d \in M : \A e \in M : d <= e
  BY <1>3, LeastExists
<1>5. d \in D /\ C(d)
  BY <1>1, <1>4
<1>6. Erasure!Newest(D) = eHistory[CHOOSE c \in D : C(c)]
  BY DEF Erasure!Newest
<1>7. (CHOOSE c \in D : C(c)) \in D /\ C(CHOOSE c \in D : C(c))
  BY <1>5
<1> QED
  BY <1>6, <1>7

-------------------------------------------------------------------------------
(* The operations on drives, whatever goes wrong *)

LEMMA EBounds ==
  /\ MaxErasureOps \in Nat /\ MaxDriveFaults \in Nat /\ MaxSwitches \in Nat
  /\ N \in Nat \ {0} /\ K \in Nat \ {0}
BY ErasureAssumption, BoundsAssumption

LEMMA EBaseTypes ==
  ASSUME Erasure!OperationTypes
  PROVE  /\ eTally.ops \in Nat /\ eTally.ops <= MaxErasureOps
         /\ eUp \subseteq Erasure!Drives /\ eBehind \subseteq Erasure!Drives
         /\ eTask \in Erasure!Task /\ eTask.pend \in Seq(Erasure!Entry) /\ eTask.epoch \in Nat
         /\ eTask.vid \in Erasure!Vids /\ eTask.mode \in Erasure!Modes
         /\ \A d \in Erasure!Drives :
              /\ eHistory[d] \in Erasure!History
              /\ eHistory[d].list \in Seq(Erasure!Entry) /\ eHistory[d].epoch \in Nat
              /\ eSlot[d] \in [Erasure!Places -> Erasure!Ops \cup {None}]
<1>1. eTally.ops \in 0 .. MaxErasureOps
  BY DEF Erasure!OperationTypes
<1>2. eTask \in Erasure!Task
  BY DEF Erasure!OperationTypes
<1>3. /\ eTask.pend \in Seq(Erasure!Entry) /\ eTask.epoch \in Nat
      /\ eTask.vid \in Erasure!Vids /\ eTask.mode \in Erasure!Modes
  BY <1>2 DEF Erasure!Task
<1>4. ASSUME NEW d \in Erasure!Drives
      PROVE  /\ eHistory[d] \in Erasure!History
             /\ eHistory[d].list \in Seq(Erasure!Entry) /\ eHistory[d].epoch \in Nat
             /\ eSlot[d] \in [Erasure!Places -> Erasure!Ops \cup {None}]
  BY DEF Erasure!OperationTypes, Erasure!History, Erasure!None, None
<1>5. eUp \subseteq Erasure!Drives /\ eBehind \subseteq Erasure!Drives
  BY DEF Erasure!OperationTypes
<1> QED
  BY <1>1, <1>2, <1>3, <1>4, <1>5, EBounds

LEMMA ENewestType ==
  ASSUME Erasure!OperationTypes, NEW D, D \subseteq Erasure!Drives
  PROVE  /\ Erasure!Newest(D) \in Erasure!History
         /\ Erasure!Newest(D).list \in Seq(Erasure!Entry) /\ Erasure!Newest(D).epoch \in Nat
<1>1. CASE D = {}
  BY <1>1 DEF Erasure!Newest, Erasure!NoHistory, Erasure!History
<1>2. CASE D # {}
  BY <1>2, NewestFacts, EBaseTypes
<1> QED
  BY <1>1, <1>2

\* The histories that are read are sound too.
LEMMA ENewestSound ==
  ASSUME EBase, NEW D, D \subseteq Erasure!Drives
  PROVE  /\ SoundList(Erasure!Newest(D).list, eTally.ops)
         /\ EAdding /\ eTask.mode = "Enabled" =>
              \A i \in 1 .. Len(Erasure!Newest(D).list) : Erasure!Newest(D).list[i].vid # eTask.vid
         /\ Erasure!Newest(D).epoch = 0 => Erasure!Newest(D) = Erasure!NoHistory
<1>1. CASE D = {}
  <2>1. Erasure!Newest(D) = Erasure!NoHistory /\ Erasure!Newest(D).list = <<>>
    BY <1>1 DEF Erasure!Newest, Erasure!NoHistory
  <2> QED
    BY <2>1, SoundEmpty
<1>2. CASE D # {}
  <2>1. PICK d \in D : Erasure!Newest(D) = eHistory[d]
    BY <1>2, NewestFacts DEF EBase
  <2>2. d \in Erasure!Drives
    BY <2>1
  <2> QED
    BY <2>1, <2>2 DEF EBase, EHistories, ENewId
<1> QED
  BY <1>1, <1>2

\* What is found at a place is the shard of a drive that answers.
LEMMA DescribedFacts ==
  ASSUME Erasure!OperationTypes, NEW p \in Erasure!Places
  PROVE  \/ Erasure!Described(p) = None /\ \A d \in eUp : eSlot[d][p] = None
         \/ /\ Erasure!Described(p) \in Erasure!Ops
            /\ \E d \in eUp : Erasure!Described(p) = eSlot[d][p]
<1> DEFINE D == {d \in eUp : eSlot[d][p] # Erasure!None}
<1>1. D \subseteq Erasure!Drives /\ D \subseteq Nat
  BY EBaseTypes, EDriveFacts
<1>2. Erasure!Described(p) = IF D = {} THEN Erasure!None ELSE eSlot[Erasure!Min(D)][p]
  BY DEF Erasure!Described
<1>3. CASE D = {}
  BY <1>2, <1>3 DEF Erasure!None, None
<1>4. CASE D # {}
  <2>1. PICK d \in D : \A e \in D : d <= e
    BY <1>1, <1>4, LeastExists
  <2>2. Erasure!Min(D) \in D
    BY <2>1 DEF Erasure!Min
  <2>3. \A e \in D : e \in eUp /\ eSlot[e][p] \in Erasure!Ops
    BY <1>1, EBaseTypes DEF Erasure!None, None
  <2> HIDE DEF D
  <2> QED
    BY <1>2, <1>4, <2>2, <2>3
<1> QED
  BY <1>3, <1>4

\* The latest write at a place is the highest of the drives'.
LEMMA LatestFacts ==
  ASSUME Erasure!OperationTypes, NEW p \in Erasure!Places
  PROVE  /\ \E d \in Erasure!Drives : Erasure!Latest(p) = eSlot[d][p]
         /\ \A d \in Erasure!Drives : eSlot[d][p] <= Erasure!Latest(p)
         /\ Erasure!Latest(p) \in Erasure!Ops \cup {None}
<1> DEFINE f == [d \in Erasure!Drives |-> eSlot[d][p]]
           S == {eSlot[d][p] : d \in Erasure!Drives}
<1>1. \A d \in Erasure!Drives : f[d] = eSlot[d][p] /\ eSlot[d][p] \in Nat
                                /\ eSlot[d][p] \in Erasure!Ops \cup {None}
  BY EBaseTypes, EPlaceFacts DEF None
<1>2. \E d \in Erasure!Drives : \A e \in Erasure!Drives : f[e] <= f[d]
  <2>1. \A d \in Erasure!Drives : f[d] \in Nat
    BY <1>1
  <2> HIDE DEF f
  <2> QED
    BY <2>1, EDriveFacts, HighestExists
<1>3. \E x \in S : \A y \in S : x >= y
  BY <1>1, <1>2
<1>4. Erasure!Latest(p) \in S /\ \A y \in S : Erasure!Latest(p) >= y
  <2>1. Erasure!Latest(p) = CHOOSE x \in S : \A y \in S : x >= y
    BY DEF Erasure!Latest, Erasure!Max
  <2> HIDE DEF S
  <2> QED
    BY <1>3, <2>1
<1> QED
  BY <1>1, <1>4

LEMMA EEntryFacts ==
  ASSUME NEW h \in Seq(Erasure!Entry), NEW i \in 1 .. Len(h)
  PROVE  /\ h[i] \in Erasure!Entry /\ h[i].vid \in Erasure!Vids /\ h[i].marker \in BOOLEAN
         /\ h[i].w \in Erasure!Ops /\ h[i].vid # Erasure!Current /\ h[i].vid \in Erasure!Places
<1>1. h[i] \in Erasure!Entry
  BY ElementOfSeq
<1>2. h[i].vid \in Erasure!Vids /\ h[i].marker \in BOOLEAN /\ h[i].w \in Erasure!Ops
  BY <1>1 DEF Erasure!Entry
<1> QED
  BY <1>1, <1>2, EPlaceFacts

LEMMA ESoundLater ==
  ASSUME NEW h \in Seq(Erasure!Entry), NEW n \in Nat, SoundList(h, n)
  PROVE  SoundList(h, n + 1) /\ \A i \in 1 .. Len(h) : h[i].vid # n + 1
<1>1. \A i \in 1 .. Len(h) : h[i].vid \in Nat
  BY EEntryFacts, EPlaceFacts
<1> QED
  BY <1>1 DEF SoundList

LEMMA EPositionFacts ==
  ASSUME NEW h \in Seq(Erasure!Entry), NEW n, SoundList(h, n), NEW v
  PROVE  /\ Erasure!Position(h, v) \in 0 .. Len(h)
         /\ Erasure!Position(h, v) # 0 => h[Erasure!Position(h, v)].vid = v
         /\ \A i \in 1 .. Len(h) : h[i].vid = v <=> Erasure!Position(h, v) = i
<1>1. Erasure!Position(h, v) = Position(h, v)
  BY DEF Erasure!Position, Position, Erasure!SelectInSeq, SelectInSeq, Erasure!Min, Min
<1>2. \A i \in 1 .. Len(h), j \in 1 .. Len(h) : h[i].vid = h[j].vid => i = j
  BY DEF SoundList
<1> QED
  BY <1>1, <1>2, PositionFacts

LEMMA ERemoveAtFacts ==
  ASSUME NEW h \in Seq(Erasure!Entry), NEW i \in 1 .. Len(h), NEW n, SoundList(h, n),
         NEW p, p = Erasure!RemoveAt(h, i)
  PROVE  /\ p = RemoveAt(h, i) /\ p = Abstract!Without(h, h[i].vid)
         /\ p \in Seq(Erasure!Entry) /\ SoundList(p, n)
         /\ i # 1 => p # <<>> /\ p[1] = h[1]
         /\ \A k \in 1 .. Len(p) : p[k].vid # h[i].vid
<1>1. p = RemoveAt(h, i)
  BY DEF Erasure!RemoveAt, RemoveAt
<1>2. \A j \in 1 .. Len(h), k \in 1 .. Len(h) : h[j].vid = h[k].vid => j = k
  BY DEF SoundList
<1>3. p = Abstract!Without(h, h[i].vid)
  BY <1>1, <1>2, WithoutFacts
<1>4. /\ p \in Seq(Erasure!Entry) /\ SoundList(p, n)
      /\ i # 1 => p # <<>> /\ p[1] = h[1]
      /\ \A k \in 1 .. Len(p) : p[k].vid # h[i].vid
  BY <1>1, RestFacts
<1> QED
  BY <1>1, <1>3, <1>4

LEMMA ELegacyFacts ==
  ASSUME NEW w \in Erasure!Ops, NEW n \in Nat
  PROVE  /\ Legacy(w) \in Seq(Erasure!Entry) /\ SoundList(Legacy(w), n) /\ Len(Legacy(w)) = 1
         /\ Legacy(w) # <<>> /\ Legacy(w)[1].vid = Null /\ ~ Legacy(w)[1].marker /\ Legacy(w)[1].w = w
<1> DEFINE e == [vid |-> Null, marker |-> FALSE, w |-> w]
<1>1. e \in Erasure!Entry
  BY EPlaceFacts DEF Erasure!Entry
<1>2. Legacy(w) \in Seq(Erasure!Entry) /\ Len(Legacy(w)) = 1 /\ Legacy(w)[1] = e
  BY <1>1 DEF Legacy
<1>3. SoundList(Legacy(w), n)
  BY <1>2 DEF SoundList, Null
<1>4. Legacy(w) # <<>>
  BY <1>2
<1> QED
  BY <1>2, <1>3, <1>4

\* An operation that has ended.
LEMMA EIdleFacts ==
  ASSUME eTask' = Erasure!Idle
  PROVE  /\ eTask' \in Erasure!Task /\ EControl' /\ ~ EAdding' /\ ~ ELoaded'
         /\ eTask'.pend = <<>> /\ eTask'.op = "none" /\ eTask'.pc = "idle"
<1>1. /\ eTask'.pc = "idle" /\ eTask'.op = "none" /\ eTask'.pend = <<>> /\ eTask'.mode = "Off"
      /\ eTask'.drop = Erasure!NoPlace /\ eTask'.move = "stay"
  BY DEF Erasure!Idle
<1>2. eTask' \in Erasure!Task
  <2>1. <<>> \in Seq(Erasure!Entry)
    OBVIOUS
  <2> QED
    BY <2>1, EPlaceFacts DEF Erasure!Idle, Erasure!Task, Erasure!Modes, Erasure!Null, Null
<1>3. ~ EAdding' /\ ~ ELoaded'
  BY <1>1 DEF EAdding, ELoaded, EPlain
<1>4. EControl'
  BY <1>1, <1>3 DEF EControl, EPlain
<1> QED
  BY <1>1, <1>2, <1>3, <1>4

\* The operation ends, or goes on with what it has: the drives change otherwise.
LEMMA EBaseEnds ==
  ASSUME EBase, eTask' = Erasure!Idle, Erasure!OperationTypes', eTally'.ops = eTally.ops,
         EHistories', EShards'
  PROVE  EBase'
<1>1. EControl' /\ ~ EAdding' /\ eTask'.pend = <<>>
  BY EIdleFacts
<1>2. ENewId'
  BY <1>1 DEF ENewId
<1>3. SoundList(eTask.pend, eTally.ops)'
  BY <1>1, SoundEmpty
<1> QED
  BY <1>1, <1>2, <1>3 DEF EBase

\* A pass over the drives.
LEMMA PassFacts ==
  ASSUME EBase, NEW new, NEW t, Erasure!Pass(new, t),
         \A d \in Erasure!Drives : new[d] \in [Erasure!Places -> Erasure!Ops \cup {None}]
  PROVE  /\ eSlot' \in [Erasure!Drives -> [Erasure!Places -> Erasure!Ops \cup {None}]]
         /\ \A d \in Erasure!Drives : eSlot'[d] \in {eSlot[d], new[d]}
         /\ eTally' \in [ops : 0 .. MaxErasureOps, switches : 0 .. MaxSwitches,
                         faults : 0 .. MaxDriveFaults]
         /\ eTally'.ops = eTally.ops /\ eBehind' = eBehind \cup (Erasure!Drives \ eUp)
         /\ \/ /\ eTask' = t /\ eUpsets' = eUpsets
               /\ \A d \in Erasure!Drives : eSlot'[d] = IF d \in eUp THEN new[d] ELSE eSlot[d]
            \/ eTask' = Erasure!Idle /\ eUpsets' = eUpsets \cup {"cut"}
<1>1. PICK n \in Erasure!Drives :
        /\ eSlot' = [d \in Erasure!Drives |-> IF d \in eUp /\ d <= n THEN new[d] ELSE eSlot[d]]
        /\ \/ n = N /\ eTask' = t /\ UNCHANGED <<eTally, eUpsets>>
           \/ n < N /\ Erasure!Fault /\ eTask' = Erasure!Idle /\ eUpsets' = eUpsets \cup {"cut"}
        /\ eBehind' = eBehind \cup (Erasure!Drives \ eUp)
  BY DEF Erasure!Pass, Erasure!Finish, Erasure!Missed
<1>2. /\ eSlot' \in [Erasure!Drives -> [Erasure!Places -> Erasure!Ops \cup {None}]]
      /\ \A d \in Erasure!Drives : eSlot'[d] \in {eSlot[d], new[d]}
  BY <1>1, EBaseTypes DEF EBase
<1>3. /\ eTally' \in [ops : 0 .. MaxErasureOps, switches : 0 .. MaxSwitches,
                      faults : 0 .. MaxDriveFaults]
      /\ eTally'.ops = eTally.ops
  BY <1>1, EBounds DEF EBase, Erasure!OperationTypes, Erasure!Fault
<1>4. CASE n = N
  <2>1. \A d \in Erasure!Drives : d <= n
    BY <1>4, EBounds DEF Erasure!Drives
  <2> QED
    BY <1>1, <1>2, <1>3, <1>4, <2>1, EBounds
<1>5. CASE n < N
  BY <1>1, <1>2, <1>3, <1>5, EBounds
<1> QED
  BY <1>1, <1>4, <1>5, EBounds DEF Erasure!Drives

LEMMA EBaseGoesOn ==
  ASSUME EBase, Erasure!OperationTypes', EControl', EShards',
         eTask'.op = eTask.op, eTask'.mode = eTask.mode, eTask'.vid = eTask.vid,
         eTask'.pend = eTask.pend, eTally'.ops = eTally.ops, eHistory' = eHistory
  PROVE  EBase'
<1>1. EHistories'
  BY DEF EBase, EHistories
<1>2. ENewId'
  BY DEF EBase, ENewId, EAdding
<1>3. SoundList(eTask.pend, eTally.ops)'
  BY DEF EBase
<1> QED
  BY <1>1, <1>2, <1>3 DEF EBase

LEMMA EBaseQuiet ==
  ASSUME EBase, (\E m \in Erasure!Modes : Erasure!SetVersioning(m))
                \/ (\E d \in Erasure!Drives : Erasure!Flip(d)) \/ Erasure!GetSeeds
  PROVE  EBase'
<1>1. /\ UNCHANGED <<eSlot, eHistory, eTask, eOwed, eBehind>>
      /\ eUpsets' \subseteq eUpsets \cup {"raced", "stale"}
  BY DEF Erasure!SetVersioning, Erasure!Flip, Erasure!GetSeeds
<1>2. eTally' \in [ops : 0 .. MaxErasureOps, switches : 0 .. MaxSwitches, faults : 0 .. MaxDriveFaults]
      /\ eTally'.ops = eTally.ops
  <2> DEFINE T == [ops : 0 .. MaxErasureOps, switches : 0 .. MaxSwitches, faults : 0 .. MaxDriveFaults]
  <2>1. eTally \in T
    BY DEF EBase, Erasure!OperationTypes
  <2>2. \/ /\ eTally.switches < MaxSwitches
           /\ eTally' = [eTally EXCEPT !.switches = eTally.switches + 1]
        \/ /\ eTally.faults < MaxDriveFaults
           /\ eTally' = [eTally EXCEPT !.faults = eTally.faults + 1]
    BY DEF Erasure!SetVersioning, Erasure!Flip, Erasure!GetSeeds, Erasure!Fault
  <2> QED
    BY <2>1, <2>2, EBounds
<1>3. eStatus' \in Erasure!Modes /\ eUp' \subseteq Erasure!Drives
  BY DEF EBase, Erasure!OperationTypes, Erasure!SetVersioning, Erasure!Flip, Erasure!GetSeeds,
         Erasure!SymDiff
<1>4. Erasure!OperationTypes'
  BY <1>1, <1>2, <1>3 DEF EBase, Erasure!OperationTypes
<1>5. EControl'
  BY <1>1, <1>2 DEF EBase, EControl, ELoaded, EPlain, EAdding
<1>6. EShards'
  BY <1>1, <1>2 DEF EBase, EShards
<1> QED
  BY <1>1, <1>2, <1>4, <1>5, <1>6, EBaseGoesOn

LEMMA EBasePass ==
  ASSUME EBase, NEW new, NEW t, Erasure!Pass(new, t),
         \A d \in Erasure!Drives : new[d] \in [Erasure!Places -> Erasure!Ops \cup {None}],
         \A d \in Erasure!Drives : \A p \in Erasure!Places : new[d][p] <= eTally.ops,
         UNCHANGED <<eStatus, eHistory, eUp>>,
         eOwed' \subseteq [vid : Erasure!Vids, w : Erasure!Ops],
         eTask' = t => /\ t \in Erasure!Task /\ EControl'
                       /\ t.op = eTask.op /\ t.mode = eTask.mode /\ t.vid = eTask.vid
                       /\ t.pend = eTask.pend
  PROVE  EBase'
<1>1. /\ eSlot' \in [Erasure!Drives -> [Erasure!Places -> Erasure!Ops \cup {None}]]
      /\ \A d \in Erasure!Drives : eSlot'[d] \in {eSlot[d], new[d]}
      /\ eTally' \in [ops : 0 .. MaxErasureOps, switches : 0 .. MaxSwitches,
                      faults : 0 .. MaxDriveFaults]
      /\ eTally'.ops = eTally.ops /\ eBehind' = eBehind \cup (Erasure!Drives \ eUp)
      /\ \/ eTask' = t /\ eUpsets' = eUpsets
         \/ eTask' = Erasure!Idle /\ eUpsets' = eUpsets \cup {"cut"}
  BY PassFacts
<1>2. EShards'
  BY <1>1 DEF EBase, EShards
<1>3. EHistories'
  BY <1>1 DEF EBase, EHistories
<1>4. eTask' \in Erasure!Task
  BY <1>1, EIdleFacts
<1>5. Erasure!OperationTypes'
  BY <1>1, <1>4 DEF EBase, Erasure!OperationTypes, Erasure!None, None
<1>6. CASE eTask' = t
  BY <1>1, <1>2, <1>5, <1>6, EBaseGoesOn
<1>7. CASE eTask' = Erasure!Idle
  BY <1>1, <1>2, <1>3, <1>5, <1>7, EBaseEnds
<1> QED
  BY <1>1, <1>6, <1>7

\* A task that only goes to its next step.
LEMMA EGoesTo ==
  ASSUME EBase, NEW q \in {"load", "move", "store", "record", "wipe"},
         NEW t, t = [eTask EXCEPT !.pc = q]
  PROVE  /\ t \in Erasure!Task /\ t.pc = q
         /\ t.op = eTask.op /\ t.mode = eTask.mode /\ t.vid = eTask.vid /\ t.pend = eTask.pend
         /\ t.epoch = eTask.epoch /\ t.drop = eTask.drop /\ t.move = eTask.move
BY DEF EBase, Erasure!OperationTypes, Erasure!Task

LEMMA EBaseDrop ==
  ASSUME EBase, Erasure!Drop
  PROVE  EBase'
<1> DEFINE t == [eTask EXCEPT !.pc = "move"]
<1>1. /\ t \in Erasure!Task /\ t.pc = "move"
      /\ t.op = eTask.op /\ t.mode = eTask.mode /\ t.vid = eTask.vid /\ t.pend = eTask.pend
      /\ t.epoch = eTask.epoch /\ t.drop = eTask.drop /\ t.move = eTask.move
  BY EGoesTo
<1>2. eTask.pc = "drop" /\ UNCHANGED <<eStatus, eHistory, eUp, eOwed>>
  BY DEF Erasure!Drop
<1>3. eTally'.ops = eTally.ops /\ eTask' = t => EControl'
  BY <1>1, <1>2 DEF EBase, EControl, ELoaded, EPlain, EAdding
<1>4. CASE eTask.drop = Erasure!NoPlace
  <2>1. eTask' = t /\ UNCHANGED <<eSlot, eTally, eBehind, eUpsets>>
    BY <1>4 DEF Erasure!Drop
  <2>2. Erasure!OperationTypes'
    BY <1>1, <1>2, <2>1 DEF EBase, Erasure!OperationTypes
  <2>3. EShards'
    BY <2>1 DEF EBase, EShards
  <2> QED
    BY <1>1, <1>2, <1>3, <2>1, <2>2, <2>3, EBaseGoesOn
<1>5. CASE eTask.drop # Erasure!NoPlace
  <2> DEFINE new == [d \in Erasure!Drives |-> [eSlot[d] EXCEPT ![eTask.drop] = None]]
  <2>1. Erasure!Pass(new, t)
    BY <1>5 DEF Erasure!Drop, Erasure!None, None
  <2>2. \A d \in Erasure!Drives : new[d] \in [Erasure!Places -> Erasure!Ops \cup {None}]
    BY EBaseTypes DEF EBase
  <2>3. \A d \in Erasure!Drives : \A p \in Erasure!Places : new[d][p] <= eTally.ops
    BY EBaseTypes DEF EBase, EShards, None
  <2>4. eTally'.ops = eTally.ops
    BY <2>1, <2>2, PassFacts
  <2>5. eOwed' \subseteq [vid : Erasure!Vids, w : Erasure!Ops]
    BY <1>2 DEF EBase, Erasure!OperationTypes
  <2> HIDE DEF new, t
  <2> QED
    BY <1>1, <1>2, <1>3, <2>1, <2>2, <2>3, <2>4, <2>5, EBasePass
<1> QED
  BY <1>4, <1>5

\* The head of the list that is to be recorded, where one is moved.
LEMMA EHeadFacts ==
  ASSUME EBase, eTask.pend # <<>>
  PROVE  /\ 1 \in 1 .. Len(eTask.pend) /\ eTask.pend[1].vid \in Erasure!Places
         /\ eTask.pend[1].vid # Erasure!Current /\ eTask.pend[1].w \in Erasure!Ops
<1>1. eTask.pend \in Seq(Erasure!Entry)
  BY EBaseTypes DEF EBase
<1>2. 1 \in 1 .. Len(eTask.pend)
  BY <1>1, LenProperties, EmptySeq
<1> QED
  BY <1>1, <1>2, EEntryFacts

LEMMA EMovedType ==
  ASSUME NEW s \in [Erasure!Places -> Erasure!Ops \cup {None}], NEW n \in Nat,
         \A r \in Erasure!Places : s[r] <= n,
         NEW p \in Erasure!Places, NEW q \in Erasure!Places
  PROVE  /\ Erasure!Moved(s, p, q) \in [Erasure!Places -> Erasure!Ops \cup {None}]
         /\ \A r \in Erasure!Places : Erasure!Moved(s, p, q)[r] <= n
BY DEF Erasure!Moved, Erasure!None, None

LEMMA EShiftedType ==
  ASSUME EBase, eTask.move # "stay", NEW d \in Erasure!Drives
  PROVE  /\ Erasure!Shifted(eSlot[d]) \in [Erasure!Places -> Erasure!Ops \cup {None}]
         /\ \A r \in Erasure!Places : Erasure!Shifted(eSlot[d])[r] <= eTally.ops
<1>1. eTask.move \in {"demote", "promote"}
  BY EBaseTypes DEF EBase, Erasure!Task
<1>2. eTask.pend # <<>>
  BY <1>1 DEF EBase, EControl
<1>3. eTask.pend[1].vid \in Erasure!Places /\ Erasure!Current \in Erasure!Places
  BY <1>2, EHeadFacts, EPlaceFacts
<1>4. /\ eSlot[d] \in [Erasure!Places -> Erasure!Ops \cup {None}] /\ eTally.ops \in Nat
      /\ \A r \in Erasure!Places : eSlot[d][r] <= eTally.ops
  BY EBaseTypes DEF EBase, EShards
<1> QED
  BY <1>3, <1>4, EMovedType DEF Erasure!Shifted

LEMMA EBaseMove ==
  ASSUME EBase, Erasure!Move
  PROVE  EBase'
<1> DEFINE q == IF eTask.op = "put" THEN "store"
                ELSE IF eTask.op = "remove" /\ eTask.pend = <<>> THEN "wipe" ELSE "record"
           t == [eTask EXCEPT !.pc = q]
<1>1. /\ t \in Erasure!Task /\ t.pc = q
      /\ t.op = eTask.op /\ t.mode = eTask.mode /\ t.vid = eTask.vid /\ t.pend = eTask.pend
      /\ t.epoch = eTask.epoch /\ t.drop = eTask.drop /\ t.move = eTask.move
  BY EGoesTo
<1>2. eTask.pc = "move" /\ UNCHANGED <<eStatus, eHistory, eUp, eOwed>>
  BY DEF Erasure!Move
<1>3. eTally'.ops = eTally.ops /\ eTask' = t => EControl'
  <2>1. eTask.op # "none" /\ ~ EPlain /\ ELoaded
    BY <1>2 DEF EBase, EControl, ELoaded
  <2> HIDE DEF t
  <2> QED
    BY <1>1, <1>2, <2>1 DEF EBase, EControl, ELoaded, EPlain, EAdding
<1>4. CASE eTask.move = "stay"
  <2>1. eTask' = t /\ UNCHANGED <<eSlot, eTally, eBehind, eUpsets>>
    BY <1>4 DEF Erasure!Move
  <2>2. Erasure!OperationTypes'
    BY <1>1, <1>2, <2>1 DEF EBase, Erasure!OperationTypes
  <2>3. EShards'
    BY <2>1 DEF EBase, EShards
  <2> QED
    BY <1>1, <1>2, <1>3, <2>1, <2>2, <2>3, EBaseGoesOn
<1>5. CASE eTask.move # "stay"
  <2> DEFINE new == [d \in Erasure!Drives |-> Erasure!Shifted(eSlot[d])]
  <2>1. Erasure!Pass(new, t)
    BY <1>5 DEF Erasure!Move
  <2>2. \A d \in Erasure!Drives : new[d] \in [Erasure!Places -> Erasure!Ops \cup {None}]
    BY <1>5, EShiftedType
  <2>3. \A d \in Erasure!Drives : \A p \in Erasure!Places : new[d][p] <= eTally.ops
    BY <1>5, EShiftedType
  <2>4. eTally'.ops = eTally.ops
    <3> HIDE DEF new, t
    <3> QED
      BY <2>1, <2>2, PassFacts
  <2>5. eOwed' \subseteq [vid : Erasure!Vids, w : Erasure!Ops]
    BY <1>2 DEF EBase, Erasure!OperationTypes
  <2> HIDE DEF new, t
  <2> QED
    BY <1>1, <1>2, <1>3, <2>1, <2>2, <2>3, <2>4, <2>5, EBasePass
<1> QED
  BY <1>4, <1>5

LEMMA EOpsFacts ==
  ASSUME EBase, eTask.op # "none"
  PROVE  eTally.ops \in Erasure!Ops /\ eTally.ops \in Nat /\ eTally.ops # None
BY EBaseTypes DEF EBase, EControl, Erasure!Ops, None

LEMMA EAcknowledged ==
  ASSUME EBase, eTask.op # "none", Erasure!Acknowledge \/ UNCHANGED eOwed
  PROVE  eOwed' \subseteq [vid : Erasure!Vids, w : Erasure!Ops]
<1>1. eOwed \subseteq [vid : Erasure!Vids, w : Erasure!Ops]
  BY DEF EBase, Erasure!OperationTypes
<1>2. [vid |-> eTask.vid, w |-> eTally.ops] \in [vid : Erasure!Vids, w : Erasure!Ops]
  BY EOpsFacts, EBaseTypes DEF EBase
<1> QED
  BY <1>1, <1>2 DEF Erasure!Acknowledge

LEMMA EBaseStore ==
  ASSUME EBase, Erasure!Store
  PROVE  EBase'
<1> DEFINE t == IF eTask.mode = "Off" THEN Erasure!Idle ELSE [eTask EXCEPT !.pc = "record"]
           new == [d \in Erasure!Drives |-> [eSlot[d] EXCEPT ![Erasure!Current] = eTally.ops]]
<1>1. eTask.pc = "store" /\ eTask.op = "put" /\ UNCHANGED <<eStatus, eHistory, eUp>>
  BY DEF Erasure!Store, EBase, EControl
<1>2. Erasure!Pass(new, t)
  BY DEF Erasure!Store
<1>3. eTally.ops \in Erasure!Ops /\ eTally.ops \in Nat
  BY <1>1, EOpsFacts
<1>4. \A d \in Erasure!Drives : new[d] \in [Erasure!Places -> Erasure!Ops \cup {None}]
  BY <1>3, EBaseTypes DEF EBase
<1>5. \A d \in Erasure!Drives : \A p \in Erasure!Places : new[d][p] <= eTally.ops
  BY <1>3, EBaseTypes DEF EBase, EShards
<1>6. eOwed' \subseteq [vid : Erasure!Vids, w : Erasure!Ops]
  BY <1>1, EAcknowledged DEF Erasure!Store
<1> HIDE DEF new
<1>7. eTally'.ops = eTally.ops
  <2> HIDE DEF t
  <2> QED
    BY <1>2, <1>4, PassFacts
<1>8. CASE eTask.mode = "Off"
  <2>1. Erasure!OperationTypes' /\ EHistories' /\ EShards' /\ eTask' = Erasure!Idle
    <3>1. Erasure!Pass(new, Erasure!Idle)
      BY <1>2, <1>8
    <3>2. /\ eSlot' \in [Erasure!Drives -> [Erasure!Places -> Erasure!Ops \cup {None}]]
          /\ \A d \in Erasure!Drives : eSlot'[d] \in {eSlot[d], new[d]}
          /\ eTally' \in [ops : 0 .. MaxErasureOps, switches : 0 .. MaxSwitches,
                          faults : 0 .. MaxDriveFaults]
          /\ eTally'.ops = eTally.ops /\ eBehind' = eBehind \cup (Erasure!Drives \ eUp)
          /\ eTask' = Erasure!Idle /\ (eUpsets' = eUpsets \/ eUpsets' = eUpsets \cup {"cut"})
      BY <1>4, <3>1, PassFacts
    <3>3. EShards'
      BY <1>5, <3>2 DEF EBase, EShards
    <3>4. EHistories'
      BY <1>1, <3>2 DEF EBase, EHistories
    <3>5. eTask' \in Erasure!Task
      BY <3>2, EIdleFacts
    <3> QED
      BY <1>1, <1>6, <3>2, <3>3, <3>4, <3>5 DEF EBase, Erasure!OperationTypes, Erasure!None, None
  <2> QED
    BY <1>7, <2>1, EBaseEnds
<1>9. CASE eTask.mode # "Off"
  <2>1. /\ t \in Erasure!Task /\ t.pc = "record"
        /\ t.op = eTask.op /\ t.mode = eTask.mode /\ t.vid = eTask.vid /\ t.pend = eTask.pend
        /\ t.epoch = eTask.epoch /\ t.drop = eTask.drop /\ t.move = eTask.move
    BY <1>9, EGoesTo
  <2> HIDE DEF t
  <2>2. eTask' = t => EControl'
    BY <1>1, <1>7, <1>9, <2>1 DEF EBase, EControl, ELoaded, EPlain, EAdding
  <2> QED
    BY <1>1, <1>2, <1>4, <1>5, <1>6, <2>1, <2>2, EBasePass
<1> QED
  BY <1>8, <1>9

\* The object's directory goes from the drives that answer.
LEMMA WipedFacts ==
  ASSUME EBase, Erasure!Wiped(eUp), eTally' = eTally
  PROVE  /\ eSlot' \in [Erasure!Drives -> [Erasure!Places -> Erasure!Ops \cup {None}]]
         /\ eHistory' \in [Erasure!Drives -> Erasure!History]
         /\ eBehind' = eBehind \cup (Erasure!Drives \ eUp) /\ eBehind' \subseteq Erasure!Drives
         /\ EHistories' /\ EShards'
<1>1. /\ eSlot' = [d \in Erasure!Drives |-> IF d \in eUp THEN Erasure!Empty ELSE eSlot[d]]
      /\ eHistory' = [d \in Erasure!Drives |-> IF d \in eUp THEN Erasure!NoHistory ELSE eHistory[d]]
      /\ eBehind' = eBehind \cup (Erasure!Drives \ eUp)
  BY DEF Erasure!Wiped, Erasure!Missed
<1>2. /\ Erasure!Empty \in [Erasure!Places -> Erasure!Ops \cup {None}]
      /\ \A p \in Erasure!Places : Erasure!Empty[p] <= eTally.ops
  BY EBaseTypes DEF EBase, Erasure!Empty, Erasure!None, None
<1>3. Erasure!NoHistory \in Erasure!History /\ Erasure!NoHistory.list = <<>>
  BY DEF Erasure!NoHistory, Erasure!History
<1>4. eSlot' \in [Erasure!Drives -> [Erasure!Places -> Erasure!Ops \cup {None}]]
  BY <1>1, <1>2, EBaseTypes DEF EBase
<1>5. eHistory' \in [Erasure!Drives -> Erasure!History]
  BY <1>1, <1>3, EBaseTypes DEF EBase
<1>6. EShards'
  BY <1>1, <1>2 DEF EBase, EShards
<1>7. EHistories'
  <2>1. ASSUME NEW d \in Erasure!Drives
        PROVE  /\ SoundList(eHistory'[d].list, eTally.ops)
               /\ eHistory'[d].epoch = 0 => eHistory'[d] = Erasure!NoHistory
    <3>1. CASE d \in eUp
      BY <1>1, <1>3, <3>1, SoundEmpty
    <3>2. CASE d \notin eUp
      BY <1>1, <3>2 DEF EBase, EHistories
    <3> QED
      BY <3>1, <3>2
  <2> QED
    BY <2>1 DEF EHistories
<1>8. eBehind' \subseteq Erasure!Drives
  BY <1>1, EBaseTypes DEF EBase
<1> QED
  BY <1>1, <1>4, <1>5, <1>6, <1>7, <1>8

LEMMA EBaseWiped ==
  ASSUME EBase, Erasure!StoreFails \/ Erasure!Wipe
  PROVE  EBase'
<1>1. /\ Erasure!Wiped(eUp) /\ eTask' = Erasure!Idle
      /\ UNCHANGED <<eStatus, eUp, eTally, eOwed>>
      /\ eUpsets' \subseteq eUpsets \cup {"wiped", "revived"}
  BY DEF Erasure!StoreFails, Erasure!Wipe, Erasure!Finish
<1>2. /\ eSlot' \in [Erasure!Drives -> [Erasure!Places -> Erasure!Ops \cup {None}]]
      /\ eHistory' \in [Erasure!Drives -> Erasure!History]
      /\ eBehind' \subseteq Erasure!Drives /\ EHistories' /\ EShards'
  BY <1>1, WipedFacts
<1>3. eTask' \in Erasure!Task
  BY <1>1, EIdleFacts
<1>4. Erasure!OperationTypes'
  BY <1>1, <1>2, <1>3 DEF EBase, Erasure!OperationTypes, Erasure!None, None
<1> QED
  BY <1>1, <1>2, <1>4, EBaseEnds

LEMMA EBaseCut ==
  ASSUME EBase, Erasure!BodyFails \/ Erasure!Abandon
  PROVE  EBase'
<1>1. /\ eTask' = Erasure!Idle /\ Erasure!Fault
      /\ UNCHANGED <<eStatus, eSlot, eHistory, eUp, eOwed, eBehind>>
      /\ eUpsets' \subseteq eUpsets \cup {"cut"}
  BY DEF Erasure!BodyFails, Erasure!Abandon, Erasure!Finish
<1>2. /\ eTally' \in [ops : 0 .. MaxErasureOps, switches : 0 .. MaxSwitches,
                      faults : 0 .. MaxDriveFaults]
      /\ eTally'.ops = eTally.ops
  BY <1>1, EBounds DEF EBase, Erasure!OperationTypes, Erasure!Fault
<1>3. eTask' \in Erasure!Task
  BY <1>1, EIdleFacts
<1>4. Erasure!OperationTypes'
  BY <1>1, <1>2, <1>3 DEF EBase, Erasure!OperationTypes
<1>5. EHistories' /\ EShards'
  BY <1>1, <1>2 DEF EBase, EHistories, EShards
<1> QED
  BY <1>1, <1>2, <1>4, <1>5, EBaseEnds

\* A history is written to the drives that answer.
LEMMA WrittenFacts ==
  ASSUME EBase, NEW h \in Seq(Erasure!Entry), SoundList(h, eTally.ops), NEW e \in Nat,
         Erasure!WriteHistory(h, e), eTally'.ops = eTally.ops
  PROVE  /\ eHistory' \in [Erasure!Drives -> Erasure!History]
         /\ \A d \in Erasure!Drives :
              /\ d \in eUp => eHistory'[d].epoch = e + 1 /\ eHistory'[d].list = h
              /\ d \notin eUp => eHistory'[d] = eHistory[d]
         /\ EHistories'
<1> DEFINE g == [epoch |-> e + 1, list |-> h]
<1>1. eHistory' = [d \in Erasure!Drives |-> IF d \in eUp THEN g ELSE eHistory[d]]
  BY DEF Erasure!WriteHistory
<1>2. g \in Erasure!History /\ g.epoch = e + 1 /\ g.list = h /\ e + 1 # 0
  BY DEF Erasure!History
<1> HIDE DEF g
<1>3. eHistory' \in [Erasure!Drives -> Erasure!History]
  BY <1>1, <1>2, EBaseTypes DEF EBase
<1>4. ASSUME NEW d \in Erasure!Drives
      PROVE  /\ SoundList(eHistory'[d].list, eTally.ops)
             /\ eHistory'[d].epoch = 0 => eHistory'[d] = Erasure!NoHistory
  <2>1. CASE d \in eUp
    BY <1>1, <1>2, <2>1
  <2>2. CASE d \notin eUp
    BY <1>1, <2>2 DEF EBase, EHistories
  <2> QED
    BY <2>1, <2>2
<1>5. EHistories'
  BY <1>4 DEF EHistories
<1> QED
  BY <1>1, <1>2, <1>3, <1>5

\* What a write or a delete marker puts in front, and what is recorded.
Added == [vid |-> eTask.vid, marker |-> eTask.op = "delete", w |-> eTally.ops]
Recorded == IF eTask.op = "remove" THEN eTask.pend ELSE <<Added>> \o eTask.pend

LEMMA RecordedFacts ==
  ASSUME EBase, eTask.pc = "record"
  PROVE  /\ Recorded \in Seq(Erasure!Entry) /\ SoundList(Recorded, eTally.ops) /\ Recorded # <<>>
         /\ EAdding => Added \in Erasure!Entry
<1>1. eTask.pend \in Seq(Erasure!Entry) /\ SoundList(eTask.pend, eTally.ops)
  BY EBaseTypes DEF EBase
<1>2. eTask.op # "none" /\ eTask.op \in {"none", "put", "delete", "remove"}
  BY EBaseTypes DEF EBase, EControl, Erasure!Task
<1>3. CASE eTask.op = "remove"
  BY <1>1, <1>3 DEF Recorded, EBase, EControl, EAdding
<1>4. CASE EAdding
  <2>1. /\ Added \in Erasure!Entry /\ Added.vid = eTask.vid /\ Added.w = eTally.ops
    <3>1. eTask.vid \in Erasure!Vids /\ eTally.ops \in Erasure!Ops
      BY <1>2, EOpsFacts, EBaseTypes DEF EBase
    <3> QED
      BY <3>1 DEF Added, Erasure!Entry
  <2>2. Added.vid <= eTally.ops /\ (Added.vid # Null => Added.w = Added.vid)
    BY <1>2, <1>4, <2>1, EOpsFacts DEF EBase, EControl, Null
  <2>3. \A k \in 1 .. Len(eTask.pend) : eTask.pend[k].vid # Added.vid
    BY <1>4, <2>1 DEF EBase, ENewId
  <2>4. Recorded = <<Added>> \o eTask.pend
    BY <1>4 DEF Recorded, EAdding
  <2>5. Recorded \in Seq(Erasure!Entry) /\ Recorded # <<>>
    BY <1>1, <2>1, <2>4, PushFacts
  <2>6. SoundList(Recorded, eTally.ops)
    BY <1>1, <2>1, <2>2, <2>3, <2>4, SoundPushed
  <2> QED
    BY <2>1, <2>5, <2>6
<1> QED
  BY <1>2, <1>3, <1>4 DEF EAdding

LEMMA EBaseRecord ==
  ASSUME EBase, Erasure!Record
  PROVE  EBase'
<1>1. /\ eTask.pc = "record" /\ eTask' = Erasure!Idle /\ UNCHANGED <<eStatus, eSlot, eUp, eTally>>
      /\ eBehind' = eBehind \cup (Erasure!Drives \ eUp)
      /\ eUpsets' \subseteq eUpsets \cup {"cut"}
      /\ Erasure!Acknowledge \/ UNCHANGED eOwed
      /\ Erasure!WriteHistory(Recorded, eTask.epoch)
  BY DEF Erasure!Record, Erasure!Finish, Erasure!Missed, Recorded, Added
<1>2. /\ Recorded \in Seq(Erasure!Entry) /\ SoundList(Recorded, eTally.ops)
      /\ eTask.epoch \in Nat /\ eTask.op # "none"
  BY <1>1, RecordedFacts, EBaseTypes DEF EBase, EControl
<1>3. eHistory' \in [Erasure!Drives -> Erasure!History] /\ EHistories'
  BY <1>1, <1>2, WrittenFacts
<1>4. eOwed' \subseteq [vid : Erasure!Vids, w : Erasure!Ops]
  BY <1>1, <1>2, EAcknowledged
<1>5. eTask' \in Erasure!Task
  BY <1>1, EIdleFacts
<1>6. eBehind' \subseteq Erasure!Drives
  BY <1>1, EBaseTypes DEF EBase
<1>7. Erasure!OperationTypes'
  BY <1>1, <1>3, <1>4, <1>5, <1>6 DEF EBase, Erasure!OperationTypes
<1>8. EShards'
  BY <1>1 DEF EBase, EShards
<1> QED
  BY <1>1, <1>3, <1>7, <1>8, EBaseEnds

\* An operation has begun.
LEMMA EBegun ==
  ASSUME EBase, NEW o, NEW v, NEW q, Erasure!Begin(o, v, q)
  PROVE  /\ eTask.pc = "idle" /\ eTask'.pc = q /\ eTask'.op = o /\ eTask'.mode = eStatus /\ eTask'.vid = v
         /\ eTask'.pend = <<>> /\ eTask'.epoch = 0 /\ eTask'.drop = Erasure!NoPlace
         /\ eTask'.move = "stay"
         /\ eTally'.ops = eTally.ops + 1 /\ eTally'.ops <= MaxErasureOps
         /\ eTally' \in [ops : 0 .. MaxErasureOps, switches : 0 .. MaxSwitches,
                         faults : 0 .. MaxDriveFaults]
         /\ UNCHANGED <<eStatus, eSlot, eHistory, eUp, eBehind>>
         /\ eUpsets' \subseteq eUpsets \cup {"bypassed", "raced"} /\ eUpsets \subseteq eUpsets'
<1>1. eTally \in [ops : 0 .. MaxErasureOps, switches : 0 .. MaxSwitches, faults : 0 .. MaxDriveFaults]
  BY DEF EBase, Erasure!OperationTypes
<1>2. /\ eTally.ops < MaxErasureOps /\ eTally' = [eTally EXCEPT !.ops = eTally.ops + 1]
      /\ UNCHANGED <<eStatus, eSlot, eHistory, eUp, eBehind>> /\ eTask.pc = "idle"
      /\ eUpsets' \subseteq eUpsets \cup {"bypassed", "raced"} /\ eUpsets \subseteq eUpsets'
  BY DEF Erasure!Begin
<1>3. /\ eTask'.pc = q /\ eTask'.op = o /\ eTask'.mode = eStatus /\ eTask'.vid = v
      /\ eTask'.pend = <<>> /\ eTask'.epoch = 0 /\ eTask'.drop = Erasure!NoPlace
      /\ eTask'.move = "stay"
  BY DEF Erasure!Begin, Erasure!Idle
<1>4. /\ eTally'.ops = eTally.ops + 1 /\ eTally'.ops <= MaxErasureOps
      /\ eTally' \in [ops : 0 .. MaxErasureOps, switches : 0 .. MaxSwitches, faults : 0 .. MaxDriveFaults]
  BY <1>1, <1>2, EBounds
<1> QED
  BY <1>2, <1>3, <1>4

LEMMA EBaseBegin ==
  ASSUME EBase, NEW o \in {"put", "delete", "remove"}, NEW v \in Erasure!Vids,
         NEW q, Erasure!Begin(o, v, q),
         q = IF o = "remove" \/ eStatus # "Off" THEN "seed"
             ELSE IF o = "put" THEN "store" ELSE "wipe",
         o # "remove" => v = IF eStatus = "Enabled" THEN eTally.ops + 1 ELSE Null
  PROVE  EBase'
<1>1. /\ eTask.pc = "idle" /\ eTask'.pc = q /\ eTask'.op = o /\ eTask'.mode = eStatus /\ eTask'.vid = v
      /\ eTask'.pend = <<>> /\ eTask'.epoch = 0 /\ eTask'.drop = Erasure!NoPlace
      /\ eTask'.move = "stay"
      /\ eTally'.ops = eTally.ops + 1
      /\ eTally' \in [ops : 0 .. MaxErasureOps, switches : 0 .. MaxSwitches,
                      faults : 0 .. MaxDriveFaults]
      /\ UNCHANGED <<eStatus, eSlot, eHistory, eUp, eBehind>>
      /\ eUpsets' \subseteq eUpsets \cup {"bypassed", "raced"}
  BY EBegun
<1>2. eTask' \in Erasure!Task
  <2>1. eStatus \in Erasure!Modes
    BY DEF EBase, Erasure!OperationTypes
  <2>2. [Erasure!Idle EXCEPT !.pc = q, !.op = o, !.mode = eStatus, !.vid = v] \in Erasure!Task
    <3>1. <<>> \in Seq(Erasure!Entry)
      OBVIOUS
    <3> QED
      BY <2>1, <3>1 DEF Erasure!Idle, Erasure!Task
  <2>3. eTask' = [Erasure!Idle EXCEPT !.pc = q, !.op = o, !.mode = eStatus, !.vid = v]
    BY DEF Erasure!Begin
  <2> QED
    BY <2>2, <2>3
<1>3. eOwed' \subseteq [vid : Erasure!Vids, w : Erasure!Ops]
  <2>1. eOwed' \subseteq eOwed
    BY DEF Erasure!Begin
  <2> QED
    BY <2>1 DEF EBase, Erasure!OperationTypes
<1>4. Erasure!OperationTypes'
  BY <1>1, <1>2, <1>3 DEF EBase, Erasure!OperationTypes
<1>5. eTally.ops \in Nat
  BY EBaseTypes DEF EBase
<1>6. EControl'
  BY <1>1, <1>5 DEF EControl, ELoaded, EPlain, EAdding
<1>7. ASSUME NEW d \in Erasure!Drives
      PROVE  /\ SoundList(eHistory[d].list, eTally.ops + 1)
             /\ \A i \in 1 .. Len(eHistory[d].list) : eHistory[d].list[i].vid # eTally.ops + 1
  BY <1>5, ESoundLater, EBaseTypes DEF EBase, EHistories
<1>8. EHistories'
  BY <1>1, <1>7 DEF EBase, EHistories
<1>9. ENewId'
  BY <1>1, <1>7 DEF ENewId, EAdding
<1>10. EShards'
  <2>1. ASSUME NEW d \in Erasure!Drives, NEW p \in Erasure!Places PROVE eSlot[d][p] <= eTally.ops + 1
    <3>1. eSlot[d] \in [Erasure!Places -> Erasure!Ops \cup {None}]
      BY EBaseTypes DEF EBase
    <3>2. eSlot[d][p] \in Nat
      <4>1. eSlot[d][p] \in Erasure!Ops \cup {None}
        BY <3>1
      <4>2. Erasure!Ops \subseteq Nat /\ None \in Nat
        BY EPlaceFacts DEF None
      <4> QED
        BY <4>1, <4>2
    <3>3. eSlot[d][p] <= eTally.ops
      BY DEF EBase, EShards
    <3> QED
      BY <3>2, <3>3, <1>5
  <2> QED
    BY <1>1, <2>1 DEF EShards
<1>11. SoundList(eTask.pend, eTally.ops)'
  BY <1>1, SoundEmpty
<1> QED
  BY <1>4, <1>6, <1>8, <1>9, <1>10, <1>11 DEF EBase

LEMMA EBaseSeed ==
  ASSUME EBase, Erasure!Seed
  PROVE  EBase'
<1> DEFINE t == [eTask EXCEPT !.pc = "load"]
           w == Erasure!Described(Erasure!Current)
           seeds == Erasure!Newest(eUp).epoch = 0 /\ w # None
<1>1. /\ t \in Erasure!Task /\ t.pc = "load"
      /\ t.op = eTask.op /\ t.mode = eTask.mode /\ t.vid = eTask.vid /\ t.pend = eTask.pend
      /\ t.epoch = eTask.epoch /\ t.drop = eTask.drop /\ t.move = eTask.move
  BY EGoesTo
<1>2. /\ eTask.pc = "seed" /\ eTask' = t /\ UNCHANGED <<eStatus, eSlot, eUp, eTally, eOwed>>
      /\ eUpsets' \subseteq eUpsets \cup {"stale"}
      /\ IF seeds THEN /\ Erasure!WriteHistory(Legacy(w), 0)
                       /\ eBehind' = eBehind \cup (Erasure!Drives \ eUp)
         ELSE UNCHANGED <<eHistory, eBehind>>
  BY DEF Erasure!Seed, Erasure!Seeds, Erasure!LegacyHistory, Erasure!Missed, Erasure!None, None, Erasure!Null, Null, Legacy
<1> HIDE DEF t
<1>3. ~ ELoaded /\ eTask.pend = <<>> /\ eTask.op # "none" /\ ~ EPlain
  BY <1>2 DEF EBase, EControl, ELoaded
<1>4. EControl'
  BY <1>1, <1>2, <1>3 DEF EBase, EControl, ELoaded, EPlain, EAdding
<1>5. EShards'
  BY <1>2 DEF EBase, EShards
<1>6. SoundList(eTask.pend, eTally.ops)'
  BY <1>1, <1>2 DEF EBase
<1>7. CASE ~ seeds
  <2>1. UNCHANGED <<eHistory, eBehind>>
    BY <1>2, <1>7
  <2>2. Erasure!OperationTypes'
    BY <1>1, <1>2, <2>1 DEF EBase, Erasure!OperationTypes
  <2> QED
    BY <1>1, <1>2, <1>4, <1>5, <2>1, <2>2, EBaseGoesOn
<1>8. CASE seeds
  <2>1. /\ Erasure!WriteHistory(Legacy(w), 0) /\ eBehind' = eBehind \cup (Erasure!Drives \ eUp)
        /\ w # None
    BY <1>2, <1>8
  <2>2. w \in Erasure!Ops
    BY <2>1, EPlaceFacts, DescribedFacts DEF EBase
  <2>3. Legacy(w) \in Seq(Erasure!Entry) /\ SoundList(Legacy(w), eTally.ops)
        /\ Len(Legacy(w)) = 1 /\ Legacy(w)[1].vid = Null
    BY <2>2, ELegacyFacts, EBaseTypes DEF EBase
  <2> HIDE DEF w
  <2>4. /\ eHistory' \in [Erasure!Drives -> Erasure!History]
        /\ \A d \in Erasure!Drives :
             /\ d \in eUp => eHistory'[d].epoch = 0 + 1 /\ eHistory'[d].list = Legacy(w)
             /\ d \notin eUp => eHistory'[d] = eHistory[d]
        /\ EHistories'
    BY <1>2, <2>1, <2>3, WrittenFacts
  <2>5. eBehind' \subseteq Erasure!Drives
    BY <2>1, EBaseTypes DEF EBase
  <2>6. Erasure!OperationTypes'
    BY <1>1, <1>2, <2>4, <2>5 DEF EBase, Erasure!OperationTypes
  <2>7. ENewId'
    <3>1. ASSUME EAdding', eTask'.mode = "Enabled", NEW d \in Erasure!Drives,
                 NEW i \in 1 .. Len(eHistory'[d].list)
          PROVE  eHistory'[d].list[i].vid # eTask'.vid
      <4>0. EAdding /\ eTask.mode = "Enabled" /\ eTask'.vid = eTask.vid
        BY <1>1, <1>2, <3>1 DEF EAdding
      <4>1. eTask.vid # Null
        BY <1>3, <4>0, EOpsFacts DEF EBase, EControl, None, Null
      <4>2. CASE d \in eUp
        <5>1. eHistory'[d].list = Legacy(w)
          BY <2>4, <4>2
        <5>2. i = 1
          BY <5>1, <2>3
        <5> QED
          BY <5>1, <5>2, <2>3, <4>0, <4>1
      <4>3. CASE d \notin eUp
        <5>1. eHistory'[d] = eHistory[d]
          BY <2>4, <4>3
        <5>2. eHistory[d].list[i].vid # eTask.vid
          BY <3>1, <4>0, <5>1 DEF EBase, ENewId
        <5> QED
          BY <4>0, <5>1, <5>2
      <4> QED
        BY <4>2, <4>3
    <3>2. \A i \in 1 .. Len(eTask'.pend) : eTask'.pend[i].vid # eTask'.vid
      BY <1>1, <1>2, <1>3
    <3> QED
      BY <3>1, <3>2 DEF ENewId
  <2> QED
    BY <1>4, <1>5, <1>6, <2>4, <2>6, <2>7 DEF EBase
<1> QED
  BY <1>7, <1>8

\* What an operation is to do, from the history it loads: a write or a marker ...
LEMMA EForWriteFacts ==
  ASSUME EBase, EAdding, eTask.mode # "Off", NEW h \in Seq(Erasure!Entry), SoundList(h, eTally.ops),
         eTask.mode = "Enabled" => \A i \in 1 .. Len(h) : h[i].vid # eTask.vid,
         NEW t, t = Erasure!ForWrite(h)
  PROVE  /\ t.pc = "drop" /\ t.op = eTask.op /\ t.mode = eTask.mode /\ t.vid = eTask.vid
         /\ t.pend = Abstract!Without(h, eTask.vid)
         /\ t.pend \in Seq(Erasure!Entry) /\ SoundList(t.pend, eTally.ops)
         /\ \A k \in 1 .. Len(t.pend) : t.pend[k].vid # eTask.vid
         /\ t.drop = IF \E i \in 1 .. Len(h) : h[i].vid = eTask.vid /\ ~ h[i].marker
                     THEN IF h[1].vid = eTask.vid THEN Erasure!Current ELSE eTask.vid
                     ELSE Erasure!NoPlace
         /\ t.move = IF h # <<>> /\ ~ h[1].marker /\ h[1].vid # eTask.vid THEN "demote" ELSE "stay"
         /\ t.move = "demote" => t.pend # <<>> /\ t.pend[1] = h[1]
         /\ t \in Erasure!Task
<1> DEFINE i == IF eTask.mode = "Suspended" THEN Erasure!Position(h, Erasure!Null) ELSE 0
           inSlot == i = 1 /\ ~ h[1].marker
           p == IF i = 0 THEN h ELSE Erasure!RemoveAt(h, i)
           dr == IF inSlot THEN Erasure!Current
                 ELSE IF i # 0 /\ ~ h[i].marker THEN Erasure!Null ELSE Erasure!NoPlace
           mo == IF h # <<>> /\ ~ h[1].marker /\ ~ inSlot THEN "demote" ELSE "stay"
<1>1. eTask \in Erasure!Task /\ Len(h) \in Nat
  BY EBaseTypes, LenProperties DEF EBase
<1>2. eTask.mode \in {"Enabled", "Suspended"} /\ eTask.vid = (IF eTask.mode = "Enabled" THEN eTally.ops ELSE Null)
  BY EBaseTypes DEF EBase, EControl, Erasure!Modes
<1>3. t = [eTask EXCEPT !.pc = "drop", !.pend = p, !.drop = dr, !.move = mo]
  BY DEF Erasure!ForWrite
<1>4. /\ t.pc = "drop" /\ t.op = eTask.op /\ t.mode = eTask.mode /\ t.vid = eTask.vid
      /\ t.pend = p /\ t.drop = dr /\ t.move = mo
  <2> HIDE DEF p, dr, mo
  <2> QED
    BY <1>1, <1>3 DEF Erasure!Task
<1>5. i \in 0 .. Len(h) /\ \A k \in 1 .. Len(h) : h[k].vid = eTask.vid <=> i = k
  <2>1. CASE eTask.mode = "Enabled"
    BY <1>1, <2>1
  <2>2. CASE eTask.mode = "Suspended"
    <3>1. eTask.vid = Erasure!Null
      BY <1>2, <2>2 DEF Erasure!Null, Null
    <3> QED
      BY <2>2, <3>1, EPositionFacts
  <2> QED
    BY <1>2, <2>1, <2>2
<1>6. i # 0 => eTask.vid = Erasure!Null
  BY <1>2 DEF Erasure!Null, Null
<1> HIDE DEF i
<1>7. /\ p = Abstract!Without(h, eTask.vid) /\ p \in Seq(Erasure!Entry) /\ SoundList(p, eTally.ops)
      /\ i # 1 /\ h # <<>> => p # <<>> /\ p[1] = h[1]
      /\ \A k \in 1 .. Len(p) : p[k].vid # eTask.vid
  <2>1. CASE i = 0
    <3>1. p = h
      BY <2>1
    <3>2. \A k \in 1 .. Len(h) : h[k].vid # eTask.vid
      BY <1>5, <2>1
    <3>3. Abstract!Without(h, eTask.vid) = h
      BY <3>2 DEF Abstract!Without
    <3> QED
      BY <3>1, <3>2, <3>3
  <2>2. CASE i # 0
    <3>1. p = Erasure!RemoveAt(h, i) /\ i \in 1 .. Len(h) /\ h[i].vid = eTask.vid
      BY <1>1, <1>5, <2>2
    <3> HIDE DEF p
    <3> QED
      BY <3>1, ERemoveAtFacts
  <2> QED
    BY <2>1, <2>2
<1>8. h # <<>> => 1 \in 1 .. Len(h)
  BY <1>1, EmptySeq
<1>9. h # <<>> => (h[1].vid = eTask.vid <=> i = 1)
  BY <1>5, <1>8
<1>10. (\E k \in 1 .. Len(h) : h[k].vid = eTask.vid /\ ~ h[k].marker) <=> i # 0 /\ ~ h[i].marker
  BY <1>1, <1>5
<1>11. i # 0 => h # <<>>
  BY <1>1, <1>5
<1>12. dr = IF \E k \in 1 .. Len(h) : h[k].vid = eTask.vid /\ ~ h[k].marker
            THEN IF h[1].vid = eTask.vid THEN Erasure!Current ELSE eTask.vid
            ELSE Erasure!NoPlace
  BY <1>6, <1>9, <1>10, <1>11
<1>13. mo = IF h # <<>> /\ ~ h[1].marker /\ h[1].vid # eTask.vid THEN "demote" ELSE "stay"
  BY <1>9
<1>14. mo = "demote" => p # <<>> /\ p[1] = h[1]
  BY <1>7, <1>9, <1>13
<1>15. dr \in Erasure!Places \cup {Erasure!NoPlace} /\ mo \in {"stay", "demote", "promote"}
  <2>1. Erasure!Current \in Erasure!Places /\ Erasure!Null \in Erasure!Places
    BY EPlaceFacts DEF Erasure!Null, Null
  <2> QED
    BY <2>1
<1> HIDE DEF p, dr, mo
<1>16. t \in Erasure!Task
  BY <1>1, <1>3, <1>7, <1>15 DEF Erasure!Task
<1> QED
  BY <1>4, <1>7, <1>12, <1>13, <1>14, <1>16

\* ... or a removal.
LEMMA EForRemoveFacts ==
  ASSUME EBase, NEW h \in Seq(Erasure!Entry), SoundList(h, eTally.ops),
         Erasure!Position(h, eTask.vid) # 0, NEW t, t = Erasure!ForRemove(h)
  PROVE  /\ t.pc = "drop" /\ t.op = eTask.op /\ t.mode = eTask.mode /\ t.vid = eTask.vid
         /\ t.pend = Abstract!Without(h, eTask.vid) /\ h # <<>>
         /\ t.pend \in Seq(Erasure!Entry) /\ SoundList(t.pend, eTally.ops)
         /\ \A k \in 1 .. Len(t.pend) : t.pend[k].vid # eTask.vid
         /\ t.drop = IF \E i \in 1 .. Len(h) : h[i].vid = eTask.vid /\ ~ h[i].marker
                     THEN IF h[1].vid = eTask.vid THEN Erasure!Current ELSE eTask.vid
                     ELSE Erasure!NoPlace
         /\ t.move = IF h[1].vid = eTask.vid /\ t.pend # <<>> /\ ~ t.pend[1].marker
                     THEN "promote" ELSE "stay"
         /\ h[1].vid # eTask.vid => t.pend # <<>> /\ t.pend[1] = h[1]
         /\ t \in Erasure!Task
<1> DEFINE i == Erasure!Position(h, eTask.vid)
           p == Erasure!RemoveAt(h, i)
           dr == IF h[i].marker THEN Erasure!NoPlace ELSE IF i = 1 THEN Erasure!Current ELSE eTask.vid
           mo == IF i = 1 /\ p # <<>> /\ ~ p[1].marker THEN "promote" ELSE "stay"
<1>1. eTask \in Erasure!Task /\ Len(h) \in Nat
  BY EBaseTypes, LenProperties DEF EBase
<1>2. t = [eTask EXCEPT !.pc = "drop", !.pend = p, !.drop = dr, !.move = mo]
  BY DEF Erasure!ForRemove
<1>3. /\ t.pc = "drop" /\ t.op = eTask.op /\ t.mode = eTask.mode /\ t.vid = eTask.vid
      /\ t.pend = p /\ t.drop = dr /\ t.move = mo
  <2> HIDE DEF p, dr, mo
  <2> QED
    BY <1>1, <1>2 DEF Erasure!Task
<1>4. i \in 1 .. Len(h) /\ \A k \in 1 .. Len(h) : h[k].vid = eTask.vid <=> i = k
  BY <1>1, EPositionFacts
<1> HIDE DEF i
<1>5. p = Erasure!RemoveAt(h, i) /\ h[i].vid = eTask.vid
  BY <1>4
<1> HIDE DEF p
<1>6. /\ p = Abstract!Without(h, eTask.vid) /\ p \in Seq(Erasure!Entry) /\ SoundList(p, eTally.ops)
      /\ i # 1 => p # <<>> /\ p[1] = h[1]
      /\ \A k \in 1 .. Len(p) : p[k].vid # eTask.vid
  BY <1>4, <1>5, ERemoveAtFacts
<1>7. h # <<>> /\ 1 \in 1 .. Len(h)
  BY <1>1, <1>4
<1>8. h[1].vid = eTask.vid <=> i = 1
  BY <1>4, <1>7
<1>9. (\E k \in 1 .. Len(h) : h[k].vid = eTask.vid /\ ~ h[k].marker) <=> ~ h[i].marker
  BY <1>4
<1>10. dr = IF \E k \in 1 .. Len(h) : h[k].vid = eTask.vid /\ ~ h[k].marker
            THEN IF h[1].vid = eTask.vid THEN Erasure!Current ELSE eTask.vid
            ELSE Erasure!NoPlace
  BY <1>8, <1>9
<1>11. mo = IF h[1].vid = eTask.vid /\ p # <<>> /\ ~ p[1].marker THEN "promote" ELSE "stay"
  BY <1>8
<1>12. dr \in Erasure!Places \cup {Erasure!NoPlace} /\ mo \in {"stay", "demote", "promote"}
  <2>1. Erasure!Current \in Erasure!Places /\ eTask.vid \in Erasure!Places
    BY EPlaceFacts, EBaseTypes DEF EBase
  <2> QED
    BY <2>1
<1> HIDE DEF dr, mo
<1>13. t \in Erasure!Task
  BY <1>1, <1>2, <1>6, <1>12 DEF Erasure!Task
<1> QED
  BY <1>3, <1>6, <1>7, <1>8, <1>10, <1>11, <1>13

\* An operation that has loaded history h.
LEMMA ELoadedFacts ==
  ASSUME EBase, Erasure!Load, NEW h, h = Erasure!Newest(eUp), eTask' # Erasure!Idle
  PROVE  /\ eTask' = [IF eTask.op = "remove" THEN Erasure!ForRemove(h.list) ELSE Erasure!ForWrite(h.list)
                      EXCEPT !.epoch = h.epoch]
         /\ eTask.op = "remove" => Erasure!Position(h.list, eTask.vid) # 0
         /\ h.list \in Seq(Erasure!Entry) /\ SoundList(h.list, eTally.ops)
         /\ eTask.op # "remove" =>
              /\ EAdding /\ eTask.mode # "Off"
              /\ eTask.mode = "Enabled" => \A i \in 1 .. Len(h.list) : h.list[i].vid # eTask.vid
<1>1. eUp \subseteq Erasure!Drives /\ eTask \in Erasure!Task
  BY EBaseTypes DEF EBase
<1>2. h.list \in Seq(Erasure!Entry) /\ SoundList(h.list, eTally.ops)
      /\ (EAdding /\ eTask.mode = "Enabled" => \A i \in 1 .. Len(h.list) : h.list[i].vid # eTask.vid)
  BY <1>1, ENewestType, ENewestSound DEF EBase
<1>3. eTask.pc = "load" /\ eTask.op # "none" /\ ~ EPlain
  BY DEF Erasure!Load, EBase, EControl
<1>4. eTask.op # "remove" => EAdding /\ eTask.mode # "Off"
  BY <1>1, <1>3 DEF EAdding, EPlain, Erasure!Task
<1>5. /\ eTask' = [IF eTask.op = "remove" THEN Erasure!ForRemove(h.list) ELSE Erasure!ForWrite(h.list)
                      EXCEPT !.epoch = h.epoch]
      /\ eTask.op = "remove" => Erasure!Position(h.list, eTask.vid) # 0
  BY DEF Erasure!Load, Erasure!Finish
<1> QED
  BY <1>2, <1>4, <1>5

LEMMA EBaseLoad ==
  ASSUME EBase, Erasure!Load
  PROVE  EBase'
<1> DEFINE h == Erasure!Newest(eUp)
           t == IF eTask.op = "remove" THEN Erasure!ForRemove(h.list) ELSE Erasure!ForWrite(h.list)
<1>1. /\ eTask.pc = "load" /\ UNCHANGED <<eStatus, eSlot, eHistory, eUp, eTally, eOwed, eBehind>>
      /\ eUpsets' \subseteq eUpsets \cup {"stale"}
  BY DEF Erasure!Load
<1>2. h.list \in Seq(Erasure!Entry) /\ h.epoch \in Nat
  BY ENewestType, EBaseTypes DEF EBase
<1>3. CASE eTask' = Erasure!Idle
  <2>1. eTask' \in Erasure!Task
    BY <1>3, EIdleFacts
  <2>2. Erasure!OperationTypes'
    BY <1>1, <2>1 DEF EBase, Erasure!OperationTypes
  <2>3. EHistories' /\ EShards'
    BY <1>1 DEF EBase, EHistories, EShards
  <2> QED
    BY <1>1, <1>3, <2>2, <2>3, EBaseEnds
<1>4. CASE eTask' # Erasure!Idle
  <2>1. /\ eTask' = [t EXCEPT !.epoch = h.epoch]
        /\ eTask.op = "remove" => Erasure!Position(h.list, eTask.vid) # 0
        /\ SoundList(h.list, eTally.ops)
        /\ eTask.op # "remove" =>
              /\ EAdding /\ eTask.mode # "Off"
              /\ eTask.mode = "Enabled" => \A i \in 1 .. Len(h.list) : h.list[i].vid # eTask.vid
    BY <1>4, ELoadedFacts
  <2>2. /\ t \in Erasure!Task
        /\ t.pc = "drop" /\ t.op = eTask.op /\ t.mode = eTask.mode /\ t.vid = eTask.vid
        /\ SoundList(t.pend, eTally.ops) /\ \A k \in 1 .. Len(t.pend) : t.pend[k].vid # eTask.vid
        /\ t.move = "demote" => eTask.op # "remove" /\ t.pend # <<>> /\ ~ t.pend[1].marker
        /\ t.move = "promote" => eTask.op = "remove" /\ t.pend # <<>> /\ ~ t.pend[1].marker
    <3>1. CASE eTask.op = "remove"
      <4>1. t = Erasure!ForRemove(h.list)
        BY <3>1
      <4> HIDE DEF t, h
      <4> QED
        BY <1>2, <2>1, <3>1, <4>1, EForRemoveFacts
    <3>2. CASE eTask.op # "remove"
      <4>1. t = Erasure!ForWrite(h.list)
        BY <3>2
      <4> HIDE DEF t, h
      <4> QED
        BY <1>2, <2>1, <3>2, <4>1, EForWriteFacts
    <3> QED
      BY <3>1, <3>2
  <2> HIDE DEF t, h
  <2>3. /\ eTask' \in Erasure!Task /\ eTask'.epoch = h.epoch
        /\ eTask'.pc = "drop" /\ eTask'.op = eTask.op /\ eTask'.mode = eTask.mode
        /\ eTask'.vid = eTask.vid /\ eTask'.pend = t.pend /\ eTask'.move = t.move
    BY <1>2, <2>1, <2>2 DEF Erasure!Task
  <2>4. eTask.op # "none" /\ (eTask.op # "remove" => EAdding /\ eTask.mode # "Off")
    BY <1>1, <2>1 DEF EBase, EControl
  <2>5. EControl'
    <3>1. eTask'.op # "none" /\ ELoaded' /\ ~ EPlain'
      BY <2>3, <2>4 DEF ELoaded, EPlain, EAdding
    <3> QED
      BY <1>1, <2>2, <2>3, <2>4, <3>1 DEF EBase, EControl, EAdding
  <2>6. Erasure!OperationTypes'
    BY <1>1, <2>3 DEF EBase, Erasure!OperationTypes
  <2>7. EHistories' /\ EShards'
    BY <1>1 DEF EBase, EHistories, EShards
  <2>8. ENewId'
    BY <1>1, <2>2, <2>3 DEF EBase, ENewId, EAdding
  <2>9. SoundList(eTask.pend, eTally.ops)'
    BY <1>1, <2>2, <2>3
  <2> QED
    BY <2>5, <2>6, <2>7, <2>8, <2>9 DEF EBase
<1> QED
  BY <1>3, <1>4

LEMMA EBaseInit == Erasure!Init => EBase
<1> SUFFICES ASSUME Erasure!Init PROVE EBase
  OBVIOUS
<1>1. /\ eStatus = "Off" /\ eUp = Erasure!Drives /\ eTask = Erasure!Idle
      /\ eSlot = [d \in Erasure!Drives |-> Erasure!Empty]
      /\ eHistory = [d \in Erasure!Drives |-> Erasure!NoHistory]
      /\ eTally = [ops |-> 0, switches |-> 0, faults |-> 0]
      /\ eOwed = {} /\ eBehind = {} /\ eUpsets = {}
  BY DEF Erasure!Init
<1>2. Erasure!Empty \in [Erasure!Places -> Erasure!Ops \cup {None}]
      /\ \A p \in Erasure!Places : Erasure!Empty[p] <= 0
  BY DEF Erasure!Empty, Erasure!None, None
<1>3. Erasure!NoHistory \in Erasure!History /\ Erasure!NoHistory.list = <<>>
  BY DEF Erasure!NoHistory, Erasure!History
<1>4. /\ eTask \in Erasure!Task /\ eTask.pc = "idle" /\ eTask.op = "none" /\ eTask.pend = <<>>
      /\ eTask.drop = Erasure!NoPlace /\ eTask.move = "stay" /\ eTask.mode = "Off"
  <2>1. <<>> \in Seq(Erasure!Entry)
    OBVIOUS
  <2> QED
    BY <1>1, <2>1, EPlaceFacts DEF Erasure!Idle, Erasure!Task, Erasure!Modes, Erasure!Null, Null
<1>5. Erasure!OperationTypes
  BY <1>1, <1>2, <1>3, <1>4, EBounds DEF Erasure!OperationTypes, Erasure!None, None, Erasure!Modes
<1>6. EControl /\ ENewId
  BY <1>1, <1>4 DEF EControl, ENewId, ELoaded, EPlain, EAdding
<1>7. EHistories /\ EShards
  BY <1>1, <1>2, <1>3, SoundEmpty DEF EHistories, EShards
<1>8. SoundList(eTask.pend, eTally.ops)
  BY <1>4, SoundEmpty
<1> QED
  BY <1>5, <1>6, <1>7, <1>8 DEF EBase

\* The id of a write or a marker is one.
LEMMA ENewVidFacts ==
  ASSUME EBase, eTally.ops < MaxErasureOps
  PROVE  Erasure!NewVid \in Erasure!Vids
<1>1. eTally.ops + 1 \in Erasure!Ops
  BY EBaseTypes, EBounds DEF EBase, Erasure!Ops
<1> QED
  BY <1>1 DEF Erasure!NewVid, Erasure!Vids, Erasure!Null

LEMMA EBaseNext ==
  ASSUME EBase, Erasure!OperationStep
  PROVE  EBase'
<1>1. CASE \E m \in Erasure!Modes : Erasure!SetVersioning(m)
  BY <1>1, EBaseQuiet
<1>2. CASE \E d \in Erasure!Drives : Erasure!Flip(d)
  BY <1>2, EBaseQuiet
<1>3. CASE Erasure!BeginPut
  <2>1. Erasure!Begin("put", Erasure!NewVid, IF eStatus = "Off" THEN "store" ELSE "seed")
    BY <1>3 DEF Erasure!BeginPut
  <2>2. Erasure!NewVid \in Erasure!Vids
    BY <2>1, ENewVidFacts DEF Erasure!Begin
  <2>3. Erasure!NewVid = IF eStatus = "Enabled" THEN eTally.ops + 1 ELSE Null
    BY DEF Erasure!NewVid, Erasure!Null, Null
  <2> QED
    BY <2>1, <2>2, <2>3, EBaseBegin
<1>4. CASE Erasure!BeginDelete
  <2>1. Erasure!Begin("delete", Erasure!NewVid, IF eStatus = "Off" THEN "wipe" ELSE "seed")
    BY <1>4 DEF Erasure!BeginDelete
  <2>2. Erasure!NewVid \in Erasure!Vids
    BY <2>1, ENewVidFacts DEF Erasure!Begin
  <2>3. Erasure!NewVid = IF eStatus = "Enabled" THEN eTally.ops + 1 ELSE Null
    BY DEF Erasure!NewVid, Erasure!Null, Null
  <2> QED
    BY <2>1, <2>2, <2>3, EBaseBegin
<1>5. CASE \E v \in Erasure!Vids : v <= eTally.ops /\ Erasure!BeginRemove(v)
  <2>1. PICK v \in Erasure!Vids : Erasure!Begin("remove", v, "seed")
    BY <1>5 DEF Erasure!BeginRemove
  <2> QED
    BY <2>1, EBaseBegin
<1>6. CASE Erasure!Seed
  BY <1>6, EBaseSeed
<1>7. CASE Erasure!Load
  BY <1>7, EBaseLoad
<1>8. CASE Erasure!Drop
  BY <1>8, EBaseDrop
<1>9. CASE Erasure!Move
  BY <1>9, EBaseMove
<1>10. CASE Erasure!Store
  BY <1>10, EBaseStore
<1>11. CASE Erasure!StoreFails \/ Erasure!Wipe
  BY <1>11, EBaseWiped
<1>12. CASE Erasure!BodyFails \/ Erasure!Abandon
  BY <1>12, EBaseCut
<1>13. CASE Erasure!Record
  BY <1>13, EBaseRecord
<1> QED
  BY <1>1, <1>2, <1>3, <1>4, <1>5, <1>6, <1>7, <1>8, <1>9, <1>10, <1>11, <1>12, <1>13
     DEF Erasure!OperationStep, Erasure!Modes

\* A step that leaves the drives alone.
LEMMA EBaseStutter ==
  ASSUME EBase, UNCHANGED eVars
  PROVE  EBase'
BY DEF eVars, EBase, Erasure!OperationTypes, EControl, ENewId, EHistories, EShards, EAdding, EPlain,
   ELoaded

\* The unlocked seed of a GET or HEAD.
LEMMA EBaseGets ==
  ASSUME EBase, EGets, Erasure!GetWrites
  PROVE  EBase'
<1>1. /\ UNCHANGED <<eStatus, eSlot, eUp, eTask, eTally, eOwed, eUpsets>> /\ eGetter # <<>>
      /\ \/ Erasure!WriteHistory(eGetter, 0) /\ eBehind' = eBehind \cup (Erasure!Drives \ eUp)
         \/ UNCHANGED <<eHistory, eBehind>>
  BY DEF Erasure!GetWrites, Erasure!Missed
<1>2. EControl' /\ EShards' /\ SoundList(eTask.pend, eTally.ops)'
  BY <1>1 DEF EBase, EControl, EShards, ELoaded, EPlain, EAdding
<1>3. CASE UNCHANGED <<eHistory, eBehind>>
  <2>1. Erasure!OperationTypes'
    BY <1>1, <1>3 DEF EBase, Erasure!OperationTypes
  <2> QED
    BY <1>1, <1>2, <1>3, <2>1, EBaseGoesOn
<1>4. CASE Erasure!WriteHistory(eGetter, 0) /\ eBehind' = eBehind \cup (Erasure!Drives \ eUp)
  <2>1. PICK w \in Erasure!Ops : eGetter = Legacy(w)
    BY <1>1 DEF EGets
  <2>2. Legacy(w) \in Seq(Erasure!Entry) /\ SoundList(Legacy(w), eTally.ops)
        /\ Len(Legacy(w)) = 1 /\ Legacy(w)[1].vid = Null
    BY <2>1, ELegacyFacts, EBaseTypes DEF EBase
  <2>3. /\ eHistory' \in [Erasure!Drives -> Erasure!History]
        /\ \A d \in Erasure!Drives :
             /\ d \in eUp => eHistory'[d].epoch = 0 + 1 /\ eHistory'[d].list = Legacy(w)
             /\ d \notin eUp => eHistory'[d] = eHistory[d]
        /\ EHistories'
    BY <1>1, <1>4, <2>1, <2>2, WrittenFacts
  <2>4. eBehind' \subseteq Erasure!Drives
    BY <1>4, EBaseTypes DEF EBase
  <2>5. Erasure!OperationTypes'
    BY <1>1, <2>3, <2>4 DEF EBase, Erasure!OperationTypes
  <2>6. ENewId'
    <3>1. ASSUME EAdding', eTask'.mode = "Enabled", NEW d \in Erasure!Drives,
                 NEW i \in 1 .. Len(eHistory'[d].list)
          PROVE  eHistory'[d].list[i].vid # eTask'.vid
      <4>0. EAdding /\ eTask.mode = "Enabled" /\ eTask'.vid = eTask.vid
        BY <1>1, <3>1 DEF EAdding
      <4>1. eTask.vid # Null
        BY <4>0, EOpsFacts DEF EBase, EControl, EAdding, None, Null
      <4>2. CASE d \in eUp
        <5>1. eHistory'[d].list = Legacy(w)
          BY <2>3, <4>2
        <5>2. i = 1
          BY <5>1, <2>2
        <5> QED
          BY <5>1, <5>2, <2>2, <4>0, <4>1
      <4>3. CASE d \notin eUp
        <5>1. eHistory'[d] = eHistory[d]
          BY <2>3, <4>3
        <5>2. eHistory[d].list[i].vid # eTask.vid
          BY <3>1, <4>0, <5>1 DEF EBase, ENewId
        <5> QED
          BY <4>0, <5>1, <5>2
      <4> QED
        BY <4>2, <4>3
    <3>2. \A i \in 1 .. Len(eTask'.pend) : EAdding' => eTask'.pend[i].vid # eTask'.vid
      BY <1>1 DEF EBase, ENewId, EAdding
    <3> QED
      BY <3>1, <3>2 DEF ENewId
  <2> QED
    BY <1>2, <2>3, <2>5, <2>6 DEF EBase
<1> QED
  BY <1>1, <1>3, <1>4

LEMMA EGetsStep ==
  ASSUME EBase, EGets, Erasure!Next \/ UNCHANGED eVars
  PROVE  EGets'
<1>1. CASE (Erasure!OperationStep /\ UNCHANGED eGetter) \/ UNCHANGED eVars
  BY <1>1 DEF EGets, eVars
<1>2. CASE Erasure!GetSeeds
  <2>1. /\ eGetter' = Legacy(Erasure!Described(Erasure!Current))
        /\ Erasure!Described(Erasure!Current) # None
    BY <1>2 DEF Erasure!GetSeeds, Erasure!Seeds, Erasure!LegacyHistory, Legacy, Erasure!Null, Null,
                Erasure!None, None
  <2>2. Erasure!Described(Erasure!Current) \in Erasure!Ops
    BY <2>1, EPlaceFacts, DescribedFacts DEF EBase
  <2> QED
    BY <2>1, <2>2 DEF EGets
<1>3. CASE Erasure!GetWrites
  BY <1>3 DEF Erasure!GetWrites, EGets
<1> QED
  BY <1>1, <1>2, <1>3 DEF Erasure!Next

LEMMA EInvariance == MCSpec => [](EBase /\ EGets)
<1>1. MCInit => EBase /\ EGets
  BY EBaseInit DEF MCInit, EGets, Erasure!Init
<1>2. EBase /\ EGets /\ [MCNext]_<<vars, backend, eVars>> => EBase' /\ EGets'
  <2>1. SUFFICES ASSUME EBase, EGets, [MCNext]_<<vars, backend, eVars>> PROVE EBase' /\ EGets'
    OBVIOUS
  <2>2. UNCHANGED eVars \/ Erasure!Next
    BY <2>1 DEF MCNext
  <2>3. EBase'
    BY <2>1, <2>2, EBaseNext, EBaseStutter, EBaseQuiet, EBaseGets DEF Erasure!Next
  <2> QED
    BY <2>1, <2>2, <2>3, EGetsStep
<1> QED
  BY <1>1, <1>2, PTL DEF MCSpec

LEMMA EBaseInductive == MCSpec => []EBase
BY EInvariance, PTL

\* The drives, the histories and the operation at work stay what they are
\* declared to be, for any number of drives, operations and faults.
THEOREM ErasureVersionsTypeCorrect == MCSpec => [](Erasure!TypeOK)
<1>1. EBase /\ EGets => Erasure!TypeOK
  <2> SUFFICES ASSUME EBase, EGets PROVE Erasure!TypeOK
    OBVIOUS
  <2>1. eGetter \in Seq(Erasure!Entry)
    <3>1. CASE eGetter = <<>>
      BY <3>1
    <3>2. CASE \E w \in Erasure!Ops : eGetter = Legacy(w)
      <4> PICK w \in Erasure!Ops : eGetter = Legacy(w)
        BY <3>2
      <4>1. 0 \in Nat
        OBVIOUS
      <4>2. Legacy(w) \in Seq(Erasure!Entry)
        BY <4>1, ELegacyFacts
      <4> QED
        BY <4>2
    <3> QED
      BY <3>1, <3>2 DEF EGets
  <2> QED
    BY <2>1 DEF EBase, Erasure!TypeOK
<1> QED
  BY <1>1, EInvariance, PTL

-------------------------------------------------------------------------------
(* The operations on drives, as long as nothing goes wrong *)

LEMMA CountsFacts ==
  ASSUME EBase
  PROVE  /\ Counts.list \in Seq(Erasure!Entry) /\ SoundList(Counts.list, eTally.ops)
         /\ Counts.epoch \in Nat
         /\ Counts.epoch = 0 => Counts = Erasure!NoHistory
         /\ \A d \in Erasure!Drives : eHistory[d].epoch <= Counts.epoch
         /\ EAdding /\ eTask.mode = "Enabled" =>
              \A i \in 1 .. Len(Counts.list) : Counts.list[i].vid # eTask.vid
BY EDriveFacts, NewestFacts, ENewestType, ENewestSound DEF EBase, Counts

LEMMA CountsSame ==
  ASSUME eHistory' = eHistory
  PROVE  Counts' = Counts
BY DEF Counts, Erasure!Newest

LEMMA CountsHighest ==
  Erasure!OperationTypes => /\ \E d \in Erasure!Drives : Counts = eHistory[d]
                    /\ \A e \in Erasure!Drives : eHistory[e].epoch <= Counts.epoch
BY EDriveFacts, NewestFacts DEF Counts

\* A history that is written with the next epoch is the one that counts.
LEMMA CountsWritten ==
  ASSUME EBase, EBase', NEW h, Erasure!WriteHistory(h, Counts.epoch), eUp # {}
  PROVE  /\ Counts'.epoch = Counts.epoch + 1 /\ Counts'.list = h
         /\ \A d \in Erasure!Drives : d \in eUp <=> eHistory'[d].epoch = Counts'.epoch
         /\ \A d \in eUp : eHistory'[d] = Counts'
<1> DEFINE g == [epoch |-> Counts.epoch + 1, list |-> h]
<1>1. eHistory' = [d \in Erasure!Drives |-> IF d \in eUp THEN g ELSE eHistory[d]]
  BY DEF Erasure!WriteHistory
<1>2. g.epoch = Counts.epoch + 1 /\ g.list = h
  OBVIOUS
<1> HIDE DEF g
<1>3. /\ Counts.epoch \in Nat
      /\ \A d \in Erasure!Drives : eHistory[d].epoch \in Nat /\ eHistory[d].epoch <= Counts.epoch
  <2>1. \A d \in Erasure!Drives : eHistory[d].epoch \in Nat
    BY EBaseTypes DEF EBase
  <2>2. Counts.epoch \in Nat /\ \A d \in Erasure!Drives : eHistory[d].epoch <= Counts.epoch
    BY CountsFacts
  <2> QED
    BY <2>1, <2>2
<1>4. /\ \E d \in Erasure!Drives : Counts' = eHistory'[d]
      /\ \A e \in Erasure!Drives : eHistory'[e].epoch <= Counts'.epoch
  <2>1. (Erasure!OperationTypes => /\ \E d \in Erasure!Drives : Counts = eHistory[d]
                           /\ \A e \in Erasure!Drives : eHistory[e].epoch <= Counts.epoch)'
    BY CountsHighest, PTL
  <2> QED
    BY <2>1 DEF EBase
<1>5. PICK d \in Erasure!Drives : Counts' = eHistory'[d]
  BY <1>4
<1>6. PICK u \in eUp : u \in Erasure!Drives
  BY EBaseTypes DEF EBase
<1>7. eHistory'[u] = g /\ eHistory'[u].epoch <= Counts'.epoch
  BY <1>1, <1>4, <1>6
<1>8. d \in eUp
  BY <1>1, <1>2, <1>3, <1>5, <1>7
<1>9. Counts' = g
  BY <1>1, <1>5, <1>8
<1>10. \A e \in Erasure!Drives : e \in eUp <=> eHistory'[e].epoch = Counts'.epoch
  BY <1>1, <1>2, <1>3, <1>9
<1>11. \A e \in eUp : eHistory'[e] = Counts'
  BY <1>1, <1>9, EBaseTypes DEF EBase
<1> QED
  BY <1>2, <1>9, <1>10, <1>11

LEMMA EListingFacts ==
  ASSUME EBase
  PROVE  /\ EListing \in Seq(Erasure!Entry) /\ SoundList(EListing, eTally.ops)
         /\ Counts.epoch = 0 => \A i \in 1 .. Len(EListing) : EListing[i].vid = Null
<1> DEFINE w == Erasure!Latest(Erasure!Current)
<1>1. Counts.list \in Seq(Erasure!Entry) /\ SoundList(Counts.list, eTally.ops) /\ Counts.epoch \in Nat
  BY CountsFacts
<1>2. w \in Erasure!Ops \cup {None}
  BY LatestFacts, EPlaceFacts DEF EBase
<1>3. EListing = IF Counts.epoch > 0 THEN Counts.list ELSE IF w = None THEN <<>> ELSE Legacy(w)
  BY DEF EListing
<1> HIDE DEF w
<1>4. CASE Counts.epoch > 0
  BY <1>1, <1>3, <1>4
<1>5. CASE ~ (Counts.epoch > 0) /\ w = None
  BY <1>3, <1>5, SoundEmpty
<1>6. CASE ~ (Counts.epoch > 0) /\ w # None
  <2>1. /\ Legacy(w) \in Seq(Erasure!Entry) /\ SoundList(Legacy(w), eTally.ops)
        /\ Len(Legacy(w)) = 1 /\ Legacy(w)[1].vid = Null
    BY <1>2, <1>6, ELegacyFacts, EBaseTypes DEF EBase
  <2>2. EListing = Legacy(w)
    BY <1>3, <1>6
  <2> QED
    BY <2>1, <2>2
<1> QED
  BY <1>4, <1>5, <1>6

LEMMA EListingSame ==
  ASSUME UNCHANGED <<eSlot, eHistory>>
  PROVE  EListing' = EListing
<1>1. Counts' = Counts
  BY CountsSame
<1>2. Erasure!Latest(Erasure!Current)' = Erasure!Latest(Erasure!Current)
  BY DEF Erasure!Latest
<1> QED
  BY <1>1, <1>2 DEF EListing, Legacy

\* The histories stay, and no drive catches up.
LEMMA OneHistorySame ==
  ASSUME ESmooth, eHistory' = eHistory, eBehind \subseteq eBehind'
  PROVE  OneHistory' /\ Fresh' \subseteq Fresh
<1>1. Counts' = Counts
  BY CountsSame
<1>2. Fresh' \subseteq Fresh
  BY DEF Fresh
<1> QED
  BY <1>1, <1>2 DEF ESmooth, OneHistory

LEMMA ESmoothQuiet ==
  ASSUME EBase, ESmooth, UNCHANGED eVars \/ (\E m \in Erasure!Modes : Erasure!SetVersioning(m))
                         \/ (\E d \in Erasure!Drives : Erasure!Flip(d)) \/ Erasure!GetSeeds
  PROVE  ESmooth'
<1>1. UNCHANGED <<eSlot, eHistory, eTask, eOwed, eBehind>> /\ eTally'.ops = eTally.ops
  <2>1. eTally \in [ops : 0 .. MaxErasureOps, switches : 0 .. MaxSwitches, faults : 0 .. MaxDriveFaults]
    BY DEF EBase, Erasure!OperationTypes
  <2> QED
    BY <2>1 DEF Erasure!SetVersioning, Erasure!Flip, Erasure!GetSeeds, Erasure!Fault, eVars
<1>2. Counts' = Counts /\ EListing' = EListing
  BY <1>1, CountsSame, EListingSame
<1>3. OneHistory' /\ Fresh' = Fresh
  BY <1>1, OneHistorySame DEF Fresh
<1>4. Erasure!Latest(Erasure!Current)' = Erasure!Latest(Erasure!Current)
  BY <1>1 DEF Erasure!Latest
<1>5. (ELoaded <=> ELoaded') /\ (EPlain <=> EPlain') /\ (EHead <=> EHead')
  BY <1>1 DEF ELoaded, EPlain, EAdding, EHead
<1>6. EAtRest'
  BY <1>1, <1>2, <1>3, <1>5 DEF ESmooth, EAtRest
<1>7. EAtWork'
  BY <1>1, <1>2, <1>3, <1>5 DEF ESmooth, EAtWork, Stored, ESpot
<1>8. EPlanned' /\ EUnborn' /\ EGivenUp'
  BY <1>1, <1>2, <1>4, <1>5 DEF ESmooth, EPlanned, EUnborn, EGivenUp
<1> QED
  BY <1>2, <1>3, <1>5, <1>6, <1>7, <1>8 DEF ESmooth

LEMMA ESmoothBegin ==
  ASSUME EBase, ESmooth, NEW o \in {"put", "delete", "remove"}, NEW v,
         NEW q \in {"seed", "store", "wipe"}, Erasure!Begin(o, v, q),
         q # "seed" => o # "remove" /\ eStatus = "Off", eUpsets' = {}
  PROVE  ESmooth'
<1>1. /\ eTask.pc = "idle" /\ eTask'.pc = q /\ eTask'.op = o /\ eTask'.mode = eStatus /\ eTask'.vid = v
      /\ UNCHANGED <<eSlot, eHistory, eBehind>>
  BY EBegun
<1>2. /\ eOwed' = IF o = "remove" \/ v = Null THEN {x \in eOwed : x.vid # v} ELSE eOwed
      /\ o # "remove" /\ eStatus = "Off" => ~ (Counts.epoch > 0)
  BY DEF Erasure!Begin, Counts, Erasure!Null, Null
<1>3. Counts' = Counts /\ EListing' = EListing /\ Counts.epoch \in Nat
  BY <1>1, CountsSame, EListingSame, CountsFacts
<1>4. OneHistory' /\ Fresh' = Fresh
  BY <1>1, OneHistorySame DEF Fresh
<1>5. EPlain' => Counts'.epoch = 0
  BY <1>1, <1>2, <1>3 DEF EPlain, EAdding
<1>6. ~ ELoaded /\ ~ ELoaded' /\ eTask'.pc # "load"
  BY <1>1 DEF ELoaded, EPlain, EAdding
<1>7. EAtRest'
  <2>1. (\A d \in Fresh : Stored(eSlot[d], EListing, TRUE)) /\ Lists(EListing, eOwed)
    BY <1>6 DEF ESmooth, EAtRest
  <2>2. eOwed' \subseteq eOwed
    BY <1>2
  <2>3. Lists(EListing, eOwed')
    BY <2>1, <2>2 DEF Lists
  <2>4. \A d \in Fresh' : Stored(eSlot'[d], EListing', TRUE)
    BY <1>1, <1>3, <1>4, <2>1
  <2> QED
    BY <1>3, <2>3, <2>4 DEF EAtRest
<1>8. EAtWork' /\ EPlanned' /\ EUnborn'
  BY <1>6 DEF EAtWork, EPlanned, EUnborn
<1>9. EGivenUp'
  BY <1>1, <1>2 DEF EGivenUp
<1> QED
  BY <1>4, <1>5, <1>7, <1>8, <1>9 DEF ESmooth

\* An operation ends before it has dropped anything.
LEMMA ESmoothStops ==
  ASSUME EBase, ESmooth, ~ ELoaded \/ eTask.pc = "drop", eTask' = Erasure!Idle,
         UNCHANGED <<eSlot, eHistory, eOwed, eBehind>>
  PROVE  ESmooth'
<1>1. ~ EAdding' /\ ~ ELoaded' /\ eTask'.op = "none" /\ eTask'.pc = "idle"
  BY EIdleFacts
<1>2. EListing' = EListing
  BY EListingSame
<1>3. OneHistory' /\ Fresh' = Fresh
  BY OneHistorySame DEF Fresh
<1>4. EAtRest'
  <2>1. (\A d \in Fresh : Stored(eSlot[d], EListing, TRUE)) /\ Lists(EListing, eOwed)
    BY DEF ESmooth, EAtRest
  <2> QED
    BY <1>2, <1>3, <2>1 DEF EAtRest
<1>5. EAtWork' /\ EPlanned' /\ EUnborn' /\ EGivenUp'
  BY <1>1 DEF EAtWork, EPlanned, EUnborn, EGivenUp
<1> QED
  BY <1>1, <1>3, <1>4, <1>5 DEF ESmooth, EPlain

LEMMA ESmoothSeed ==
  ASSUME EBase, EBase', ESmooth, Erasure!Seed, eUpsets' = {}
  PROVE  ESmooth' /\ EListing' = EListing
<1> DEFINE w == Erasure!Described(Erasure!Current)
           seeds == Erasure!Newest(eUp).epoch = 0 /\ w # None
<1>1. /\ eTask.pc = "seed" /\ eTask' = [eTask EXCEPT !.pc = "load"]
      /\ UNCHANGED <<eSlot, eUp, eTally, eOwed>>
      /\ IF seeds THEN /\ Erasure!WriteHistory(Legacy(w), 0)
                       /\ eBehind' = eBehind \cup (Erasure!Drives \ eUp)
         ELSE UNCHANGED <<eHistory, eBehind>>
      /\ IF Counts.epoch = 0 THEN w = Erasure!Latest(Erasure!Current) ELSE ~ seeds
  BY DEF Erasure!Seed, Erasure!Seeds, Erasure!LegacyHistory, Erasure!Missed, Erasure!None, None, Erasure!Null, Null, Legacy, Counts
<1>2. /\ eTask'.pc = "load" /\ eTask'.op = eTask.op /\ eTask'.mode = eTask.mode
      /\ eTask'.vid = eTask.vid /\ eTask'.pend = eTask.pend /\ eTask'.drop = eTask.drop
      /\ eTask'.move = eTask.move
  BY <1>1, EGoesTo
<1>3. ~ ELoaded /\ ~ ELoaded' /\ ~ EPlain /\ ~ EPlain' /\ eTask.op # "none"
  BY <1>1, <1>2 DEF EBase, EControl, ELoaded, EPlain, EAdding
<1>4. EAtWork' /\ EPlanned' /\ EGivenUp'
  BY <1>1, <1>2, <1>3 DEF ESmooth, EAtWork, EPlanned, EGivenUp
<1>5. (\A d \in Fresh : Stored(eSlot[d], EListing, TRUE)) /\ Lists(EListing, eOwed)
  BY <1>3 DEF ESmooth, EAtRest
<1>6. Counts.epoch \in Nat
  BY CountsFacts
<1>7. CASE ~ seeds
  <2>1. UNCHANGED <<eHistory, eBehind>>
    BY <1>1, <1>7
  <2>2. OneHistory' /\ Fresh' = Fresh /\ EListing' = EListing /\ Counts' = Counts
    BY <1>1, <2>1, OneHistorySame, EListingSame, CountsSame DEF Fresh
  <2>3. EAtRest'
    BY <1>1, <1>5, <2>2 DEF EAtRest
  <2>4. Counts.epoch = 0 => Erasure!Latest(Erasure!Current) = None
    <3>1. SUFFICES ASSUME Counts.epoch = 0, w # None PROVE FALSE
      BY <1>1
    <3>2. Erasure!Newest(eUp).epoch = 0
      <4>1. Erasure!Newest(eUp).epoch \in Nat /\ eUp \subseteq Erasure!Drives
        BY ENewestType, EBaseTypes DEF EBase
      <4>2. CASE eUp = {}
        BY <4>2 DEF Erasure!Newest, Erasure!NoHistory
      <4>3. CASE eUp # {}
        <5>1. PICK d \in eUp : Erasure!Newest(eUp) = eHistory[d]
          BY <4>1, <4>3, NewestFacts DEF EBase
        <5>2. eHistory[d].epoch <= Counts.epoch
          BY <4>1, CountsFacts
        <5> QED
          BY <3>1, <4>1, <5>1, <5>2
      <4> QED
        BY <4>2, <4>3
    <3> QED
      BY <1>7, <3>1, <3>2
  <2>5. EUnborn'
    <3>1. Erasure!Latest(Erasure!Current)' = Erasure!Latest(Erasure!Current)
      BY <1>1 DEF Erasure!Latest
    <3>2. eTask.drop = Erasure!NoPlace /\ eTask.move = "stay" /\ eTask.pend = <<>>
      BY <1>3 DEF EBase, EControl
    <3> QED
      BY <1>2, <2>2, <2>4, <3>1, <3>2 DEF EUnborn
  <2> QED
    BY <1>3, <1>4, <2>2, <2>3, <2>5 DEF ESmooth
<1>8. CASE seeds
  <2>1. /\ Counts.epoch = 0 /\ w = Erasure!Latest(Erasure!Current) /\ w # None
        /\ Erasure!WriteHistory(Legacy(w), Counts.epoch)
        /\ eBehind' = eBehind \cup (Erasure!Drives \ eUp)
    BY <1>1, <1>8
  <2>2. w \in Erasure!Ops /\ eUp # {}
    BY <2>1, EPlaceFacts, DescribedFacts DEF EBase
  <2>3. EListing = Legacy(w)
    BY <2>1 DEF EListing
  <2> HIDE DEF w
  <2>4. /\ Counts'.epoch = 0 + 1 /\ Counts'.list = Legacy(w)
        /\ \A d \in Erasure!Drives : d \in eUp <=> eHistory'[d].epoch = Counts'.epoch
        /\ \A d \in eUp : eHistory'[d] = Counts'
    BY <2>1, <2>2, CountsWritten
  <2>5. Fresh' \subseteq Fresh /\ Fresh' \subseteq eUp
    BY <2>1 DEF Fresh
  <2>6. OneHistory'
    BY <2>4, <2>5 DEF OneHistory
  <2>7. EListing' = Legacy(w)
    BY <2>4 DEF EListing
  <2>8. EAtRest'
    BY <1>1, <1>5, <2>3, <2>5, <2>7 DEF EAtRest
  <2>9. EUnborn'
    BY <2>4 DEF EUnborn
  <2> QED
    BY <1>3, <1>4, <2>3, <2>6, <2>7, <2>8, <2>9 DEF ESmooth
<1> QED
  BY <1>7, <1>8

\* What is left of a list was in it, and where it is.
LEMMA EWithoutFrom ==
  ASSUME NEW h \in Seq(Erasure!Entry), NEW n, SoundList(h, n), NEW v,
         NEW p, p = Abstract!Without(h, v), NEW k \in 1 .. Len(p)
  PROVE  \E j \in 1 .. Len(h) : /\ p[k] = h[j] /\ h[j].vid # v
                                /\ h[1].vid # v => (k = 1 <=> j = 1)
                                /\ h[1].vid = v => j # 1
<1>1. \A i \in 1 .. Len(h), j \in 1 .. Len(h) : h[i].vid = h[j].vid => i = j
  BY DEF SoundList
<1>2. CASE \A i \in 1 .. Len(h) : h[i].vid # v
  <2>1. p = h
    BY <1>1, <1>2, WithoutFacts
  <2>2. Len(h) \in Nat
    BY LenProperties
  <2>3. 1 \in 1 .. Len(h)
    BY <2>1, <2>2
  <2> QED
    BY <1>2, <2>1, <2>3
<1>3. CASE \E i \in 1 .. Len(h) : h[i].vid = v
  <2>1. PICK i \in 1 .. Len(h) : h[i].vid = v
    BY <1>3
  <2>2. p = RemoveAt(h, i)
    BY <1>1, <2>1, WithoutFacts
  <2>3. PICK j \in 1 .. Len(h) : j # i /\ p[k] = h[j] /\ (i # 1 => (k = 1 <=> j = 1))
    BY <2>2, RestFrom
  <2>4. h[j].vid # v
    BY <1>1, <2>1, <2>3
  <2>5. 1 \in 1 .. Len(h)
    BY <2>1, LenProperties
  <2>6. h[1].vid = v <=> i = 1
    BY <1>1, <2>1, <2>5
  <2> QED
    BY <2>3, <2>4, <2>6
<1> QED
  BY <1>2, <1>3

\* Of what the drives have of list h they have what is left of it, and it is not
\* where the version that goes is.
LEMMA EStoredWithout ==
  ASSUME NEW h \in Seq(Erasure!Entry), NEW n, SoundList(h, n), NEW v \in Erasure!Vids,
         NEW p, p = Abstract!Without(h, v), NEW head,
         h # <<>> /\ h[1].vid # v /\ ~ h[1].marker => head,
         h # <<>> /\ h[1].vid = v => ~ head \/ p = <<>> \/ p[1].marker
  PROVE  /\ \A f : Stored(f, h, TRUE) => Stored(f, p, head)
         /\ \A k \in 1 .. Len(p) : ~ p[k].marker =>
              /\ ESpot(p, head, k) # IF h[1].vid = v THEN Erasure!Current ELSE v
              /\ ESpot(p, head, k) \in Erasure!Places
<1>1. ASSUME NEW k \in 1 .. Len(p), ~ p[k].marker
      PROVE  \E j \in 1 .. Len(h) : /\ p[k] = h[j] /\ h[j].vid # v
                                    /\ h[1].vid = v => j # 1
                                    /\ ESpot(p, head, k) = ESpot(h, TRUE, j)
  <2>1. PICK j \in 1 .. Len(h) : /\ p[k] = h[j] /\ h[j].vid # v
                                 /\ h[1].vid # v => (k = 1 <=> j = 1)
                                 /\ h[1].vid = v => j # 1
    BY EWithoutFrom
  <2>2. h # <<>> /\ p # <<>>
    BY <2>1
  <2>3. CASE h[1].vid = v
    <3>1. ~ (k = 1 /\ head)
      BY <1>1, <2>2, <2>3
    <3>2. ESpot(p, head, k) = p[k].vid /\ ESpot(h, TRUE, j) = h[j].vid
      BY <2>1, <2>3, <3>1 DEF ESpot
    <3> QED
      BY <2>1, <2>3, <3>2
  <2>4. CASE h[1].vid # v
    <3>1. CASE k = 1
      <4>1. j = 1 /\ head
        BY <1>1, <2>1, <2>2, <2>4, <3>1
      <4> QED
        BY <2>1, <2>4, <3>1, <4>1 DEF ESpot
    <3>2. CASE k # 1
      BY <2>1, <2>4, <3>2 DEF ESpot
    <3> QED
      BY <3>1, <3>2
  <2> QED
    BY <2>3, <2>4
<1>2. ASSUME NEW f, Stored(f, h, TRUE), NEW k \in 1 .. Len(p), ~ p[k].marker
      PROVE  f[ESpot(p, head, k)] = p[k].w
  <2>1. PICK j \in 1 .. Len(h) : p[k] = h[j] /\ ESpot(p, head, k) = ESpot(h, TRUE, j)
    BY <1>1, <1>2
  <2> QED
    BY <1>2, <2>1 DEF Stored
<1>3. ASSUME NEW k \in 1 .. Len(p), ~ p[k].marker
      PROVE  /\ ESpot(p, head, k) # IF h[1].vid = v THEN Erasure!Current ELSE v
             /\ ESpot(p, head, k) \in Erasure!Places
  <2>1. PICK j \in 1 .. Len(h) : /\ p[k] = h[j] /\ h[j].vid # v
                                 /\ h[1].vid = v => j # 1
                                 /\ ESpot(p, head, k) = ESpot(h, TRUE, j)
    BY <1>1, <1>3
  <2>2. h[j].vid \in Erasure!Places /\ h[j].vid # Erasure!Current
    BY EEntryFacts
  <2> QED
    BY <2>1, <2>2, EPlaceFacts DEF ESpot
<1>4. \A f : Stored(f, h, TRUE) => Stored(f, p, head)
  BY <1>2 DEF Stored
<1> QED
  BY <1>3, <1>4

\* The versions asked for stay listed when another one goes.
LEMMA EListsWithout ==
  ASSUME NEW h \in Seq(Erasure!Entry), NEW n, SoundList(h, n), NEW v,
         NEW p, p = Abstract!Without(h, v), NEW o, Lists(h, o),
         (\A x \in o : x.vid # v) \/ (\A i \in 1 .. Len(h) : h[i].vid # v)
  PROVE  Lists(p, o)
<1>1. \A i \in 1 .. Len(h), j \in 1 .. Len(h) : h[i].vid = h[j].vid => i = j
  BY DEF SoundList
<1>2. CASE \A i \in 1 .. Len(h) : h[i].vid # v
  <2>1. p = h
    BY <1>1, <1>2, WithoutFacts
  <2> QED
    BY <2>1
<1>3. CASE \E i \in 1 .. Len(h) : h[i].vid = v
  <2>1. PICK i \in 1 .. Len(h) : h[i].vid = v
    BY <1>3
  <2>2. p = RemoveAt(h, i)
    BY <1>1, <2>1, WithoutFacts
  <2>3. \A x \in o : x.vid # h[i].vid
    BY <2>1
  <2> QED
    BY <2>2, <2>3, ListsRemoved
<1> QED
  BY <1>2, <1>3

\* The history that is loaded is the one that counts.
LEMMA LoadsCounts ==
  ASSUME EBase, OneHistory, ~ (Erasure!Newest(eUp).epoch < Counts.epoch)
  PROVE  Erasure!Newest(eUp) = Counts
<1>1. /\ Erasure!Newest(eUp).epoch \in Nat /\ eUp \subseteq Erasure!Drives /\ Counts.epoch \in Nat
      /\ Erasure!Newest(eUp).epoch = 0 => Erasure!Newest(eUp) = Erasure!NoHistory
      /\ Counts.epoch = 0 => Counts = Erasure!NoHistory
  BY ENewestType, ENewestSound, EBaseTypes, CountsFacts DEF EBase
<1>2. CASE eUp = {}
  <2>1. Erasure!Newest(eUp).epoch = 0
    BY <1>2 DEF Erasure!Newest, Erasure!NoHistory
  <2> QED
    BY <1>1, <2>1
<1>3. CASE eUp # {}
  <2>1. PICK d \in eUp : Erasure!Newest(eUp) = eHistory[d]
    BY <1>1, <1>3, NewestFacts DEF EBase
  <2>2. d \in Erasure!Drives /\ eHistory[d].epoch <= Counts.epoch
    BY <1>1, <2>1, CountsFacts
  <2>3. eHistory[d].epoch = Counts.epoch
    BY <1>1, <2>1, <2>2
  <2> QED
    BY <2>1, <2>2, <2>3 DEF OneHistory
<1> QED
  BY <1>2, <1>3

LEMMA ESmoothLoad ==
  ASSUME EBase, EBase', ESmooth, Erasure!Load, eUpsets' = {}
  PROVE  ESmooth'
<1> DEFINE h == Counts.list
           v == eTask.vid
<1>1. /\ eTask.pc = "load" /\ UNCHANGED <<eStatus, eSlot, eHistory, eUp, eTally, eOwed, eBehind>>
      /\ ~ (Erasure!Newest(eUp).epoch < Counts.epoch)
  BY DEF Erasure!Load, Counts
<1>2. Erasure!Newest(eUp) = Counts
  BY <1>1, LoadsCounts DEF ESmooth
<1>3. /\ h \in Seq(Erasure!Entry) /\ SoundList(h, eTally.ops) /\ Counts.epoch \in Nat
      /\ Counts.epoch = 0 => h = <<>>
  BY CountsFacts DEF Erasure!NoHistory
<1>4. ~ ELoaded /\ eTask.op # "none" /\ ~ EPlain /\ v \in Erasure!Vids
  BY <1>1, EBaseTypes DEF EBase, EControl, ELoaded
<1>5. CASE eTask' = Erasure!Idle
  BY <1>1, <1>4, <1>5, ESmoothStops
<1>6. CASE eTask' # Erasure!Idle
  <2> DEFINE t == IF eTask.op = "remove" THEN Erasure!ForRemove(h) ELSE Erasure!ForWrite(h)
             dr == IF \E i \in 1 .. Len(h) : h[i].vid = v /\ ~ h[i].marker
                   THEN IF h[1].vid = v THEN Erasure!Current ELSE v
                   ELSE Erasure!NoPlace
  <2>1. /\ eTask' = [t EXCEPT !.epoch = Counts.epoch]
        /\ eTask.op = "remove" => Erasure!Position(h, v) # 0
        /\ eTask.op # "remove" =>
              /\ EAdding /\ eTask.mode # "Off"
              /\ eTask.mode = "Enabled" => \A i \in 1 .. Len(h) : h[i].vid # v
    BY <1>2, <1>6, ELoadedFacts
  <2>2. /\ t \in Erasure!Task
        /\ t.pc = "drop" /\ t.op = eTask.op /\ t.mode = eTask.mode /\ t.vid = v
        /\ t.pend = Abstract!Without(h, v) /\ t.drop = dr
        /\ eTask.op # "remove" =>
             /\ t.move = IF h # <<>> /\ ~ h[1].marker /\ h[1].vid # v THEN "demote" ELSE "stay"
             /\ t.move = "demote" => t.pend # <<>> /\ t.pend[1] = h[1]
        /\ eTask.op = "remove" =>
             /\ t.move = IF h[1].vid = v /\ t.pend # <<>> /\ ~ t.pend[1].marker
                         THEN "promote" ELSE "stay"
             /\ h[1].vid # v => t.pend # <<>> /\ t.pend[1] = h[1]
             /\ h # <<>>
    <3>1. CASE eTask.op = "remove"
      <4>1. t = Erasure!ForRemove(h)
        BY <3>1
      <4> HIDE DEF t, h
      <4> QED
        BY <1>3, <2>1, <3>1, <4>1, EForRemoveFacts
    <3>2. CASE eTask.op # "remove"
      <4>1. t = Erasure!ForWrite(h)
        BY <3>2
      <4> HIDE DEF t, h
      <4> QED
        BY <1>3, <2>1, <3>2, <4>1, EForWriteFacts
    <3> QED
      BY <3>1, <3>2
  <2> HIDE DEF t, h, dr
  <2>3. /\ eTask'.epoch = Counts.epoch
        /\ eTask'.pc = "drop" /\ eTask'.op = eTask.op /\ eTask'.mode = eTask.mode
        /\ eTask'.vid = v /\ eTask'.pend = t.pend /\ eTask'.move = t.move /\ eTask'.drop = dr
    BY <1>3, <2>1, <2>2 DEF Erasure!Task
  <2>4. Counts' = Counts /\ EListing' = EListing
        /\ Erasure!Latest(Erasure!Current)' = Erasure!Latest(Erasure!Current)
    BY <1>1, CountsSame, EListingSame DEF Erasure!Latest
  <2>5. OneHistory' /\ Fresh' = Fresh
    BY <1>1, OneHistorySame DEF Fresh
  <2>6. (\A d \in Fresh : Stored(eSlot[d], EListing, TRUE)) /\ Lists(EListing, eOwed)
    BY <1>4 DEF ESmooth, EAtRest
  <2>7. EAtRest'
    BY <1>1, <2>4, <2>5, <2>6 DEF EAtRest
  <2>8. Counts.epoch = 0 => Erasure!Latest(Erasure!Current) = None
    BY <1>1 DEF ESmooth, EUnborn
  <2>9. EListing = h
    BY <1>3, <2>8 DEF EListing, h
  <2>10. EPlanned'
    BY <2>2, <2>3, <2>4 DEF EPlanned, h
  <2>11. ~ EPlain' /\ ELoaded' /\ ~ (eTask'.pc \in {"record", "wipe"}) /\ eTask'.pc # "load"
    BY <1>4, <2>3 DEF EPlain, EAdding, ELoaded
  <2>12. EGivenUp'
    BY <1>1, <2>3 DEF ESmooth, EGivenUp
  <2>13. EUnborn'
    <3>1. SUFFICES ASSUME Counts.epoch = 0
          PROVE  /\ eTask.op # "remove" /\ dr = Erasure!NoPlace /\ t.move = "stay" /\ t.pend = <<>>
      BY <2>3, <2>4, <2>8 DEF EUnborn
    <3>2. h = <<>> /\ Len(h) = 0
      BY <1>3, <3>1
    <3>3. eTask.op # "remove"
      BY <2>2, <3>2
    <3>4. dr = Erasure!NoPlace
      BY <3>2 DEF dr
    <3>5. t.move = "stay" /\ t.pend = <<>>
      BY <2>2, <3>2, <3>3, WithoutEmpty
    <3> QED
      BY <3>3, <3>4, <3>5
  <2>14. EHead' <=> IF eTask.op = "remove" THEN t.move = "stay" ELSE t.move = "demote"
    BY <2>3, <2>11 DEF EHead
  <2>15. /\ h # <<>> /\ h[1].vid # v /\ ~ h[1].marker => EHead'
         /\ h # <<>> /\ h[1].vid = v => ~ EHead' \/ t.pend = <<>> \/ t.pend[1].marker
    BY <2>2, <2>14
  <2>16. /\ \A f : Stored(f, h, TRUE) => Stored(f, t.pend, EHead')
         /\ \A k \in 1 .. Len(t.pend) : ~ t.pend[k].marker =>
              /\ ESpot(t.pend, EHead', k) # IF h[1].vid = v THEN Erasure!Current ELSE v
              /\ ESpot(t.pend, EHead', k) \in Erasure!Places
    BY <1>3, <1>4, <2>2, <2>15, EStoredWithout
  <2>17. Lists(t.pend, eOwed)
    <3>1. (\A x \in eOwed : x.vid # v) \/ (\A i \in 1 .. Len(h) : h[i].vid # v)
      BY <1>4, <2>1 DEF ESmooth, EGivenUp, EBase, EControl, EAdding, EPlain
    <3> QED
      BY <1>3, <2>2, <2>6, <2>9, <3>1, EListsWithout
  <2>18. EAtWork'
    <3>1. \A d \in Fresh' : Stored(eSlot'[d], eTask'.pend, EHead')
      BY <1>1, <2>3, <2>5, <2>6, <2>9, <2>16
    <3>2. Lists(eTask'.pend, eOwed')
      BY <1>1, <2>3, <2>17
    <3>3. \A k \in 1 .. Len(eTask'.pend) :
            ~ eTask'.pend[k].marker => ESpot(eTask'.pend, EHead', k) # eTask'.drop
      BY <2>3, <2>16, EPlaceFacts DEF dr
    <3> QED
      BY <2>11, <3>1, <3>2, <3>3 DEF EAtWork, Stored, ESpot
  <2> QED
    BY <2>5, <2>7, <2>10, <2>11, <2>12, <2>13, <2>18 DEF ESmooth
<1> QED
  BY <1>5, <1>6

\* A pass that is not cut, on the drives that missed nothing.
LEMMA PassDone ==
  ASSUME EBase, NEW new, NEW t, Erasure!Pass(new, t), eUpsets' = {},
         \A d \in Erasure!Drives : new[d] \in [Erasure!Places -> Erasure!Ops \cup {None}]
  PROVE  /\ eTask' = t /\ eTally'.ops = eTally.ops
         /\ Fresh' \subseteq Fresh /\ Fresh' \subseteq eUp /\ eBehind \subseteq eBehind'
         /\ \A d \in Fresh' : eSlot'[d] = new[d]
         /\ \A d \in Erasure!Drives : eSlot'[d] = IF d \in eUp THEN new[d] ELSE eSlot[d]
<1>1. /\ eTally'.ops = eTally.ops /\ eBehind' = eBehind \cup (Erasure!Drives \ eUp)
      /\ \/ /\ eTask' = t /\ eUpsets' = eUpsets
            /\ \A d \in Erasure!Drives : eSlot'[d] = IF d \in eUp THEN new[d] ELSE eSlot[d]
         \/ eTask' = Erasure!Idle /\ eUpsets' = eUpsets \cup {"cut"}
  BY PassFacts
<1>2. "cut" \notin eUpsets'
  OBVIOUS
<1>3. Fresh' \subseteq Fresh /\ Fresh' \subseteq eUp /\ Fresh' \subseteq Erasure!Drives
  BY <1>1 DEF Fresh
<1> QED
  BY <1>1, <1>2, <1>3

\* An operation goes on from what it has loaded: what is left to show is what the
\* drives have.
LEMMA ESmoothGoesOn ==
  ASSUME EBase, EBase', ESmooth, ELoaded, ELoaded', eTask'.pc # "drop", eTask'.pc # "load",
         eTask'.op = eTask.op, eTask'.mode = eTask.mode, eTask'.vid = eTask.vid,
         eTask'.pend = eTask.pend, eTask'.epoch = eTask.epoch,
         eTask'.drop = eTask.drop, eTask'.move = eTask.move,
         UNCHANGED <<eHistory, eOwed>>, eBehind \subseteq eBehind', eTally'.ops = eTally.ops,
         \A d \in Fresh' : Stored(eSlot'[d], eTask.pend, EHead'),
         eTask'.pc = "record" /\ eTask.op = "put" =>
           \A d \in Fresh' : eSlot'[d][Erasure!Current] = eTally.ops,
         Counts.epoch = 0 /\ ~ (eTask'.pc = "record" /\ eTask.op = "put") =>
           Erasure!Latest(Erasure!Current)' = Erasure!Latest(Erasure!Current)
           /\ ~ (eTask.pc = "record" /\ eTask.op = "put")
  PROVE  ESmooth'
<1>1. OneHistory' /\ Counts' = Counts
  BY OneHistorySame, CountsSame
<1>2. EAtRest'
  BY DEF EAtRest
<1>3. EAtWork'
  <2>1. Lists(eTask'.pend, eOwed')
    BY DEF ESmooth, EAtWork
  <2> QED
    BY <2>1 DEF EAtWork
<1>4. EPlanned'
  BY <1>1 DEF ESmooth, EPlanned
<1>5. EUnborn'
  <2>1. eTask.pc # "load"
    BY DEF ELoaded
  <2>2. Counts.epoch = 0 =>
          /\ eTask.op # "remove" /\ eTask.drop = Erasure!NoPlace /\ eTask.move = "stay"
          /\ eTask.pend = <<>>
          /\ ~ (eTask.pc = "record" /\ eTask.op = "put") => Erasure!Latest(Erasure!Current) = None
    BY <2>1 DEF ESmooth, EUnborn
  <2> QED
    BY <1>1, <2>2, EPlaceFacts DEF EUnborn
<1>6. EGivenUp'
  BY DEF ESmooth, EGivenUp
<1>7. ~ EPlain'
  BY DEF ELoaded
<1> QED
  BY <1>1, <1>2, <1>3, <1>4, <1>5, <1>6, <1>7 DEF ESmooth

LEMMA ESmoothDrop ==
  ASSUME EBase, EBase', ESmooth, Erasure!Drop, eUpsets' = {}
  PROVE  ESmooth'
<1> DEFINE t == [eTask EXCEPT !.pc = "move"]
           new == [d \in Erasure!Drives |-> [eSlot[d] EXCEPT ![eTask.drop] = None]]
<1>1. /\ t.pc = "move"
      /\ t.op = eTask.op /\ t.mode = eTask.mode /\ t.vid = eTask.vid /\ t.pend = eTask.pend
      /\ t.epoch = eTask.epoch /\ t.drop = eTask.drop /\ t.move = eTask.move
  BY EGoesTo
<1>2. eTask.pc = "drop" /\ UNCHANGED <<eHistory, eOwed>>
  BY DEF Erasure!Drop
<1>3. ELoaded /\ ~ EPlain
  BY <1>2 DEF EBase, EControl, ELoaded
<1>4. /\ \A d \in Fresh : Stored(eSlot[d], eTask.pend, EHead)
      /\ \A k \in 1 .. Len(eTask.pend) :
           ~ eTask.pend[k].marker => ESpot(eTask.pend, EHead, k) # eTask.drop
      /\ Counts.epoch = 0 => eTask.drop = Erasure!NoPlace
  BY <1>2, <1>3 DEF ESmooth, EAtWork, EUnborn
<1>5. /\ eTask' = t /\ eTally'.ops = eTally.ops
      /\ eBehind \subseteq eBehind'
      /\ \A d \in Fresh' : Stored(eSlot'[d], eTask.pend, EHead)
      /\ Counts.epoch = 0 => eSlot' = eSlot
  <2>1. CASE eTask.drop = Erasure!NoPlace
    <3>1. eTask' = t /\ UNCHANGED <<eSlot, eTally, eBehind>>
      BY <2>1 DEF Erasure!Drop
    <3>2. Fresh' = Fresh
      BY <3>1 DEF Fresh
    <3> QED
      BY <1>4, <3>1, <3>2
  <2>2. CASE eTask.drop # Erasure!NoPlace
    <3>1. Erasure!Pass(new, t)
      BY <2>2 DEF Erasure!Drop, Erasure!None, None
    <3>2. \A d \in Erasure!Drives : new[d] \in [Erasure!Places -> Erasure!Ops \cup {None}]
      BY EBaseTypes DEF EBase
    <3>3. /\ eTask' = t /\ eTally'.ops = eTally.ops
          /\ Fresh' \subseteq Fresh /\ eBehind \subseteq eBehind'
          /\ \A d \in Fresh' : eSlot'[d] = new[d]
      <4> HIDE DEF new, t
      <4> QED
        BY <3>1, <3>2, PassDone
    <3>4. ASSUME NEW d \in Fresh', NEW k \in 1 .. Len(eTask.pend), ~ eTask.pend[k].marker
          PROVE  eSlot'[d][ESpot(eTask.pend, EHead, k)] = eTask.pend[k].w
      <4>1. d \in Fresh /\ d \in Erasure!Drives
        BY <3>3 DEF Fresh
      <4>2. ESpot(eTask.pend, EHead, k) # eTask.drop
            /\ eSlot[d][ESpot(eTask.pend, EHead, k)] = eTask.pend[k].w
        BY <1>4, <3>4, <4>1 DEF Stored
      <4>3. eSlot'[d] = [eSlot[d] EXCEPT ![eTask.drop] = None]
        BY <3>3, <4>1
      <4>4. ESpot(eTask.pend, EHead, k) \in Erasure!Places
        BY EEntryFacts, EPlaceFacts, EBaseTypes DEF ESpot, EBase
      <4>5. eSlot[d] \in [Erasure!Places -> Erasure!Ops \cup {None}]
        BY <4>1, EBaseTypes DEF EBase
      <4> QED
        BY <4>2, <4>3, <4>4, <4>5
    <3> QED
      BY <1>4, <2>2, <3>3, <3>4 DEF Stored
  <2> QED
    BY <2>1, <2>2
<1> HIDE DEF t
<1>6. ELoaded' /\ ~ EPlain'
  BY <1>1, <1>3, <1>5 DEF ELoaded, EPlain, EAdding
<1>7. EHead' <=> EHead
  BY <1>1, <1>2, <1>5 DEF EHead
<1>8. Counts.epoch = 0 => Erasure!Latest(Erasure!Current)' = Erasure!Latest(Erasure!Current)
  BY <1>5 DEF Erasure!Latest
<1>9. \A d \in Fresh' : Stored(eSlot'[d], eTask.pend, EHead')
  BY <1>5, <1>7 DEF Stored, ESpot
<1> QED
  BY <1>1, <1>2, <1>3, <1>5, <1>6, <1>8, <1>9, ESmoothGoesOn

\* The current version is moved, into the archive or from there.
LEMMA StoredMoved ==
  ASSUME EBase, eTask.pend # <<>>, ~ eTask.pend[1].marker,
         NEW f \in [Erasure!Places -> Erasure!Ops \cup {None}], NEW b \in BOOLEAN,
         Stored(f, eTask.pend, b),
         NEW p, p = ESpot(eTask.pend, b, 1), NEW q, q = ESpot(eTask.pend, ~ b, 1)
  PROVE  Stored(Erasure!Moved(f, p, q), eTask.pend, ~ b)
<1> DEFINE h == eTask.pend
           v == h[1].vid
           g == [f EXCEPT ![q] = f[p], ![p] = None]
<1>1. h \in Seq(Erasure!Entry) /\ SoundList(h, eTally.ops)
  BY EBaseTypes DEF EBase
<1>2. /\ 1 \in 1 .. Len(h) /\ v \in Erasure!Places /\ v # Erasure!Current
      /\ h[1].w \in Erasure!Ops /\ Erasure!Current \in Erasure!Places
  BY EHeadFacts, EPlaceFacts
<1>3. p \in {v, Erasure!Current} /\ q \in {v, Erasure!Current} /\ p # q
  BY <1>2 DEF ESpot
<1>4. f[p] = h[1].w /\ f[p] # None
  BY <1>2, EPlaceFacts DEF Stored
<1>5. Erasure!Moved(f, p, q) = g
  BY <1>4 DEF Erasure!Moved, Erasure!None, None
<1>6. g[q] = h[1].w /\ \A r \in Erasure!Places : r # p /\ r # q => g[r] = f[r]
  BY <1>2, <1>3, <1>4
<1> HIDE DEF g, h
<1>7. ASSUME NEW k \in 1 .. Len(h), ~ h[k].marker
      PROVE  g[ESpot(h, ~ b, k)] = h[k].w
  <2>1. CASE k = 1
    BY <1>6, <2>1 DEF h
  <2>2. CASE k # 1
    <3>1. /\ h[k].vid \in Erasure!Places /\ h[k].vid # Erasure!Current /\ h[k].vid # v
          /\ ESpot(h, ~ b, k) = h[k].vid /\ ESpot(h, b, k) = h[k].vid
      BY <1>1, <1>2, <2>2, EEntryFacts DEF SoundList, ESpot
    <3>2. f[h[k].vid] = h[k].w
      BY <1>7, <3>1 DEF Stored, h
    <3> QED
      BY <1>3, <1>6, <3>1, <3>2
  <2> QED
    BY <2>1, <2>2
<1> QED
  BY <1>5, <1>7 DEF Stored, h

LEMMA ESmoothMove ==
  ASSUME EBase, EBase', ESmooth, Erasure!Move, eUpsets' = {}
  PROVE  ESmooth'
<1> DEFINE q == IF eTask.op = "put" THEN "store"
                ELSE IF eTask.op = "remove" /\ eTask.pend = <<>> THEN "wipe" ELSE "record"
           t == [eTask EXCEPT !.pc = q]
           new == [d \in Erasure!Drives |-> Erasure!Shifted(eSlot[d])]
<1>1. /\ t.pc = q
      /\ t.op = eTask.op /\ t.mode = eTask.mode /\ t.vid = eTask.vid /\ t.pend = eTask.pend
      /\ t.epoch = eTask.epoch /\ t.drop = eTask.drop /\ t.move = eTask.move
  BY EGoesTo
<1>2. eTask.pc = "move" /\ UNCHANGED <<eHistory, eOwed>>
  BY DEF Erasure!Move
<1>3. ELoaded /\ ~ EPlain
  BY <1>2 DEF EBase, EControl, ELoaded
<1>4. /\ \A d \in Fresh : Stored(eSlot[d], eTask.pend, EHead)
      /\ Counts.epoch = 0 => eTask.move = "stay"
  BY <1>2, <1>3 DEF ESmooth, EAtWork, EUnborn
<1>5. eTask.move \in {"stay", "demote", "promote"}
  BY EBaseTypes DEF EBase, Erasure!Task
<1>6. CASE eTask.move = "stay"
  <2>1. eTask' = t /\ UNCHANGED <<eSlot, eTally, eBehind>>
    BY <1>6 DEF Erasure!Move
  <2> HIDE DEF t
  <2>2. ELoaded' /\ ~ EPlain' /\ (EHead' <=> EHead)
    BY <1>1, <1>2, <1>3, <1>6, <2>1 DEF ELoaded, EPlain, EAdding, EHead
  <2>3. Erasure!Latest(Erasure!Current)' = Erasure!Latest(Erasure!Current)
    BY <2>1 DEF Erasure!Latest
  <2>4. \A d \in Fresh' : Stored(eSlot'[d], eTask.pend, EHead')
    BY <1>4, <2>1, <2>2 DEF Stored, ESpot, Fresh
  <2>5. ~ (eTask'.pc = "record" /\ eTask.op = "put")
    BY <1>1, <2>1
  <2> QED
    BY <1>1, <1>2, <1>3, <2>1, <2>2, <2>3, <2>4, <2>5, ESmoothGoesOn
<1>7. CASE eTask.move # "stay"
  <2>1. Erasure!Pass(new, t)
    BY <1>7 DEF Erasure!Move
  <2>2. \A d \in Erasure!Drives : new[d] \in [Erasure!Places -> Erasure!Ops \cup {None}]
    BY <1>7, EShiftedType
  <2>3. /\ eTask' = t /\ eTally'.ops = eTally.ops
        /\ Fresh' \subseteq Fresh /\ eBehind \subseteq eBehind'
        /\ \A d \in Fresh' : eSlot'[d] = new[d]
    <3> HIDE DEF new, t
    <3> QED
      BY <2>1, <2>2, PassDone
  <2>4. ELoaded' /\ ~ EPlain'
    <3> HIDE DEF t
    <3> QED
      BY <1>1, <1>2, <1>3, <2>3 DEF ELoaded, EPlain, EAdding
  <2>5. eTask.pend # <<>> /\ ~ eTask.pend[1].marker
        /\ (eTask.move = "demote" <=> eTask.op # "remove")
    BY <1>5, <1>7 DEF EBase, EControl, EAdding
  <2>6. (EHead <=> eTask.move = "demote") /\ (EHead' <=> ~ (eTask.move = "demote"))
    <3> HIDE DEF t
    <3> QED
      BY <1>1, <1>2, <1>7, <2>3, <2>5 DEF EHead
  <2>7. \A d \in Fresh' : Stored(eSlot'[d], eTask.pend, EHead')
    <3>1. SUFFICES ASSUME NEW d \in Fresh' PROVE Stored(eSlot'[d], eTask.pend, EHead')
      OBVIOUS
    <3>2. d \in Fresh /\ d \in Erasure!Drives
      BY <2>3 DEF Fresh
    <3>3. eSlot'[d] = Erasure!Shifted(eSlot[d])
      BY <2>3, <3>2
    <3>4. eSlot[d] \in [Erasure!Places -> Erasure!Ops \cup {None}]
          /\ Stored(eSlot[d], eTask.pend, EHead)
      BY <1>4, <3>2, EBaseTypes DEF EBase
    <3>5. CASE eTask.move = "demote"
      <4>1. Stored(eSlot[d], eTask.pend, TRUE)
        BY <2>6, <3>4, <3>5 DEF Stored, ESpot
      <4>2. /\ Erasure!Current = ESpot(eTask.pend, TRUE, 1)
            /\ eTask.pend[1].vid = ESpot(eTask.pend, ~ TRUE, 1)
        BY DEF ESpot
      <4>3. Stored(Erasure!Moved(eSlot[d], Erasure!Current, eTask.pend[1].vid), eTask.pend, ~ TRUE)
        BY <2>5, <3>4, <4>1, <4>2, StoredMoved
      <4> QED
        BY <2>6, <3>3, <3>5, <4>3 DEF Stored, ESpot, Erasure!Shifted
    <3>6. CASE eTask.move # "demote"
      <4>1. Stored(eSlot[d], eTask.pend, FALSE)
        BY <2>6, <3>4, <3>6 DEF Stored, ESpot
      <4>2. /\ Erasure!Current = ESpot(eTask.pend, ~ FALSE, 1)
            /\ eTask.pend[1].vid = ESpot(eTask.pend, FALSE, 1)
        BY DEF ESpot
      <4>3. Stored(Erasure!Moved(eSlot[d], eTask.pend[1].vid, Erasure!Current), eTask.pend, ~ FALSE)
        BY <2>5, <3>4, <4>1, <4>2, StoredMoved
      <4> QED
        BY <2>6, <3>3, <3>6, <4>3 DEF Stored, ESpot, Erasure!Shifted
    <3> QED
      BY <3>5, <3>6
  <2>8. Counts.epoch # 0
    BY <1>4, <1>7
  <2>9. ~ (eTask'.pc = "record" /\ eTask.op = "put") /\ eTask'.pc # "drop" /\ eTask'.pc # "load"
    <3> HIDE DEF t
    <3> QED
      BY <1>1, <2>3
  <2> HIDE DEF t, new
  <2> QED
    BY <1>1, <1>2, <1>3, <2>3, <2>4, <2>7, <2>8, <2>9, ESmoothGoesOn
<1> QED
  BY <1>6, <1>7

\* A write without versioning has given up all there is.
LEMMA EPlainOwed ==
  ASSUME EBase, ESmooth, EPlain
  PROVE  Counts.epoch = 0 /\ \A x : x \notin eOwed
<1>1. Counts.epoch = 0 /\ eTask.op # "none" /\ eTask.vid = Null /\ ~ ELoaded
  BY DEF ESmooth, EPlain, EAdding, EBase, EControl, ELoaded
<1>2. Lists(EListing, eOwed) /\ \A x \in eOwed : x.vid # Null
  BY <1>1 DEF ESmooth, EAtRest, EGivenUp
<1>3. \A i \in 1 .. Len(EListing) : EListing[i].vid = Null
  BY <1>1, EListingFacts
<1> QED
  BY <1>1, <1>2, <1>3 DEF Lists

LEMMA CurrentLatest ==
  Erasure!OperationTypes =>
    /\ \E d \in Erasure!Drives : Erasure!Latest(Erasure!Current) = eSlot[d][Erasure!Current]
    /\ \A d \in Erasure!Drives : eSlot[d][Erasure!Current] <= Erasure!Latest(Erasure!Current)
BY LatestFacts, EPlaceFacts

\* What is latest where the drives that answer have just been written.
LEMMA LatestWritten ==
  ASSUME EBase, EBase', eUp # {}, eTally'.ops = eTally.ops,
         \A d \in eUp : eSlot'[d][Erasure!Current] = eTally.ops
  PROVE  Erasure!Latest(Erasure!Current)' = eTally.ops
<1>1. (/\ \E d \in Erasure!Drives : Erasure!Latest(Erasure!Current) = eSlot[d][Erasure!Current]
       /\ \A d \in Erasure!Drives : eSlot[d][Erasure!Current] <= Erasure!Latest(Erasure!Current))'
  <2>1. (Erasure!OperationTypes =>
          /\ \E d \in Erasure!Drives : Erasure!Latest(Erasure!Current) = eSlot[d][Erasure!Current]
          /\ \A d \in Erasure!Drives : eSlot[d][Erasure!Current] <= Erasure!Latest(Erasure!Current))'
    BY CurrentLatest, PTL
  <2> QED
    BY <2>1 DEF EBase
<1>2. PICK d \in Erasure!Drives : Erasure!Latest(Erasure!Current)' = eSlot'[d][Erasure!Current]
  BY <1>1
<1>3. eSlot'[d][Erasure!Current] <= eTally.ops
  BY EPlaceFacts DEF EBase, EShards
<1>4. PICK u \in eUp : u \in Erasure!Drives
  BY EBaseTypes DEF EBase
<1>5. eTally.ops <= Erasure!Latest(Erasure!Current)'
  BY <1>1, <1>4
<1>6. eTally.ops \in Nat /\ eSlot'[d][Erasure!Current] \in Nat
  <2>1. eSlot'[d] \in [Erasure!Places -> Erasure!Ops \cup {None}]
    BY DEF EBase, Erasure!OperationTypes, Erasure!None, None
  <2>2. eSlot'[d][Erasure!Current] \in Erasure!Ops \cup {None}
    BY <2>1, EPlaceFacts
  <2>3. Erasure!Ops \subseteq Nat /\ None \in Nat
    BY EPlaceFacts DEF None
  <2> QED
    BY <2>2, <2>3, EBaseTypes DEF EBase
<1> QED
  BY <1>2, <1>3, <1>5, <1>6

LEMMA ESizeFacts ==
  ASSUME NEW S
  PROVE  Erasure!Cardinality(S) = Cardinality(S)
BY DEF Erasure!Cardinality, Cardinality

LEMMA ESmoothStore ==
  ASSUME EBase, EBase', ESmooth, Erasure!Store, eUpsets' = {}
  PROVE  ESmooth' /\ (EPlain => /\ Counts'.epoch = 0
                                /\ Erasure!Latest(Erasure!Current)' = eTally.ops)
<1> DEFINE t == IF eTask.mode = "Off" THEN Erasure!Idle ELSE [eTask EXCEPT !.pc = "record"]
           new == [d \in Erasure!Drives |-> [eSlot[d] EXCEPT ![Erasure!Current] = eTally.ops]]
<1>1. /\ eTask.pc = "store" /\ eTask.op = "put" /\ UNCHANGED <<eHistory, eUp>>
      /\ Erasure!Pass(new, t)
  BY DEF Erasure!Store, EBase, EControl
<1>2. eTally.ops \in Erasure!Ops /\ eTally.ops \in Nat /\ eTally.ops # None
  BY <1>1, EOpsFacts
<1>3. \A d \in Erasure!Drives : new[d] \in [Erasure!Places -> Erasure!Ops \cup {None}]
  BY <1>2, EBaseTypes DEF EBase
<1>4. /\ eTask' = t /\ eTally'.ops = eTally.ops
      /\ Fresh' \subseteq Fresh /\ Fresh' \subseteq eUp /\ eBehind \subseteq eBehind'
      /\ \A d \in Erasure!Drives : eSlot'[d] = IF d \in eUp THEN new[d] ELSE eSlot[d]
  <2> HIDE DEF new, t
  <2> QED
    BY <1>1, <1>3, PassDone
<1>5. ASSUME NEW d \in eUp
      PROVE  /\ eSlot'[d][Erasure!Current] = eTally.ops
             /\ \A p \in Erasure!Places : p # Erasure!Current => eSlot'[d][p] = eSlot[d][p]
  <2>1. d \in Erasure!Drives /\ eSlot[d] \in [Erasure!Places -> Erasure!Ops \cup {None}]
    BY EBaseTypes DEF EBase
  <2>2. eSlot'[d] = [eSlot[d] EXCEPT ![Erasure!Current] = eTally.ops]
    BY <1>4, <2>1
  <2> QED
    BY <2>1, <2>2, EPlaceFacts
<1>6. eUp # {}
  <2>1. SUFFICES ASSUME eUp = {} PROVE FALSE
    OBVIOUS
  <2>2. Cardinality({}) = 0
    BY FS_EmptySet
  <2>3. Cardinality({}) >= K + 1
    BY <2>1, ESizeFacts DEF Erasure!Store, Erasure!EnoughShards, Erasure!WriteQuorum
  <2> QED
    BY <2>2, <2>3, EBounds
<1>7. OneHistory' /\ Counts' = Counts
  BY <1>1, <1>4, OneHistorySame, CountsSame
<1>8. CASE eTask.mode = "Off"
  <2>1. EPlain /\ eTask' = Erasure!Idle
    BY <1>1, <1>4, <1>8 DEF EPlain, EAdding
  <2>2. Counts.epoch = 0 /\ (\A x : x \notin eOwed) /\ eTask.vid = Null
    BY <1>8, <2>1, EPlainOwed DEF EPlain, EBase, EControl
  <2>3. Erasure!Latest(Erasure!Current)' = eTally.ops
    BY <1>4, <1>5, <1>6, LatestWritten
  <2>4. EListing' = Legacy(eTally.ops)
    <3>1. EListing' = IF Counts'.epoch > 0 THEN Counts'.list
                      ELSE IF Erasure!Latest(Erasure!Current)' = None THEN <<>>
                      ELSE Legacy(Erasure!Latest(Erasure!Current)')
      BY DEF EListing, Legacy
    <3>2. ~ (Counts'.epoch > 0)
      BY <1>7, <2>2
    <3> QED
      BY <1>2, <2>3, <3>1, <3>2
  <2>5. /\ Len(Legacy(eTally.ops)) = 1 /\ Legacy(eTally.ops)[1].vid = Null
        /\ ~ Legacy(eTally.ops)[1].marker /\ Legacy(eTally.ops)[1].w = eTally.ops
    BY <1>2, ELegacyFacts
  <2>6. ASSUME NEW d \in Fresh' PROVE Stored(eSlot'[d], EListing', TRUE)
    <3>1. eSlot'[d][Erasure!Current] = eTally.ops
      BY <1>4, <1>5
    <3>2. ASSUME NEW k \in 1 .. Len(EListing')
          PROVE  eSlot'[d][ESpot(EListing', TRUE, k)] = EListing'[k].w
      <4>1. k = 1
        BY <2>4, <2>5
      <4> QED
        BY <2>4, <2>5, <3>1, <4>1 DEF ESpot
    <3> QED
      BY <3>2 DEF Stored
  <2>7. Lists(EListing', eOwed')
    <3>1. \A x \in eOwed' : x = [vid |-> Null, w |-> eTally.ops]
      BY <2>2 DEF Erasure!Store, Erasure!Acknowledge
    <3>2. \A x \in eOwed' : x.vid = Null /\ x.w = eTally.ops
      BY <3>1
    <3>3. 1 \in 1 .. Len(EListing') /\ EListing'[1].vid = Null
          /\ EListing'[1].w = eTally.ops /\ ~ EListing'[1].marker
      BY <2>4, <2>5
    <3> QED
      BY <3>2, <3>3 DEF Lists
  <2>8. ~ EAdding' /\ ~ ELoaded' /\ eTask'.op = "none" /\ eTask'.pc = "idle"
    BY <2>1, EIdleFacts
  <2>9. EAtRest'
    BY <2>6, <2>7 DEF EAtRest
  <2>10. EAtWork' /\ EPlanned' /\ EUnborn' /\ EGivenUp' /\ ~ EPlain'
    BY <2>8 DEF EAtWork, EPlanned, EUnborn, EGivenUp, EPlain
  <2> QED
    BY <1>7, <2>2, <2>3, <2>9, <2>10 DEF ESmooth
<1>9. CASE eTask.mode # "Off"
  <2>1. /\ t.pc = "record"
        /\ t.op = eTask.op /\ t.mode = eTask.mode /\ t.vid = eTask.vid /\ t.pend = eTask.pend
        /\ t.epoch = eTask.epoch /\ t.drop = eTask.drop /\ t.move = eTask.move
    BY <1>9, EGoesTo
  <2> HIDE DEF t
  <2>2. ELoaded /\ ~ EPlain /\ ELoaded' /\ eOwed' = eOwed /\ ~ EHead /\ ~ EHead'
    BY <1>1, <1>4, <1>9, <2>1 DEF ELoaded, EPlain, EAdding, EHead, Erasure!Store
  <2>3. ASSUME NEW d \in Fresh' PROVE Stored(eSlot'[d], eTask.pend, EHead')
    <3>1. Stored(eSlot[d], eTask.pend, EHead) /\ d \in eUp
      BY <1>4, <2>2 DEF ESmooth, EAtWork
    <3>2. ASSUME NEW k \in 1 .. Len(eTask.pend), ~ eTask.pend[k].marker
          PROVE  eSlot'[d][ESpot(eTask.pend, EHead', k)] = eTask.pend[k].w
      <4>1. ESpot(eTask.pend, EHead', k) = eTask.pend[k].vid
            /\ ESpot(eTask.pend, EHead, k) = eTask.pend[k].vid
        BY <2>2 DEF ESpot
      <4>2. eTask.pend[k].vid \in Erasure!Places /\ eTask.pend[k].vid # Erasure!Current
        BY EEntryFacts, EBaseTypes DEF EBase
      <4>3. eSlot[d][eTask.pend[k].vid] = eTask.pend[k].w
        BY <3>1, <3>2, <4>1 DEF Stored
      <4> QED
        BY <1>5, <3>1, <4>1, <4>2, <4>3
    <3> QED
      BY <3>2 DEF Stored
  <2>4. \A d \in Fresh' : eSlot'[d][Erasure!Current] = eTally.ops
    BY <1>4, <1>5
  <2>5. ESmooth'
    BY <1>1, <1>4, <2>1, <2>2, <2>3, <2>4, ESmoothGoesOn
  <2> QED
    BY <2>2, <2>5
<1> QED
  BY <1>8, <1>9

LEMMA ESmoothRecord ==
  ASSUME EBase, EBase', ESmooth, Erasure!Record, eUpsets' = {}
  PROVE  ESmooth' /\ Counts'.epoch > 0 /\ Counts'.list = Recorded
<1>1. /\ eTask.pc = "record" /\ eTask' = Erasure!Idle /\ UNCHANGED <<eStatus, eSlot, eUp, eTally>>
      /\ eBehind' = eBehind \cup (Erasure!Drives \ eUp)
      /\ Erasure!WriteHistory(Recorded, eTask.epoch) /\ eUp # {}
      /\ IF eTask.op = "put" THEN eOwed' = eOwed \cup {[vid |-> eTask.vid, w |-> eTally.ops]}
         ELSE eOwed' = eOwed
  BY DEF Erasure!Record, Erasure!Finish, Erasure!Missed, Recorded, Added, Erasure!Acknowledge
<1>2. ELoaded /\ ~ EPlain /\ eTask.op # "none" /\ eTask.op \in {"none", "put", "delete", "remove"}
  BY <1>1, EBaseTypes DEF EBase, EControl, ELoaded, Erasure!Task
<1>3. /\ eTask.epoch = Counts.epoch /\ Lists(eTask.pend, eOwed)
      /\ \A d \in Fresh : Stored(eSlot[d], eTask.pend, EHead)
      /\ eTask.op = "put" => \A d \in Fresh : eSlot[d][Erasure!Current] = eTally.ops
      /\ EHead <=> eTask.op = "remove"
  BY <1>1, <1>2 DEF ESmooth, EPlanned, EAtWork, EHead
<1>4. /\ Counts'.epoch = Counts.epoch + 1 /\ Counts'.list = Recorded
      /\ \A d \in Erasure!Drives : d \in eUp <=> eHistory'[d].epoch = Counts'.epoch
      /\ \A d \in eUp : eHistory'[d] = Counts'
  BY <1>1, <1>3, CountsWritten
<1>5. Counts'.epoch > 0
  BY <1>4, CountsFacts
<1>6. Fresh' \subseteq Fresh /\ Fresh' \subseteq eUp
  BY <1>1 DEF Fresh
<1>7. OneHistory'
  BY <1>4, <1>6 DEF OneHistory
<1>8. EListing' = Recorded
  BY <1>4, <1>5 DEF EListing
<1>9. (\A d \in Fresh' : Stored(eSlot'[d], Recorded, TRUE)) /\ Lists(Recorded, eOwed')
  <2>1. CASE eTask.op = "remove"
    <3>1. Recorded = eTask.pend
      BY <2>1 DEF Recorded
    <3>2. \A d \in Fresh : Stored(eSlot[d], eTask.pend, TRUE)
      BY <1>3, <2>1 DEF Stored, ESpot
    <3> QED
      BY <1>1, <1>3, <1>6, <2>1, <3>1, <3>2
  <2>2. CASE eTask.op # "remove"
    <3>1. Recorded = <<Added>> \o eTask.pend /\ Added \in Erasure!Entry /\ eTask.pend \in Seq(Erasure!Entry)
      BY <1>1, <1>2, <2>2, RecordedFacts, EBaseTypes DEF Recorded, EAdding, EBase
    <3>2. /\ Recorded[1] = Added
          /\ \A k \in 2 .. Len(Recorded) : k - 1 \in 1 .. Len(eTask.pend) /\ Recorded[k] = eTask.pend[k - 1]
          /\ Len(Recorded) \in Nat
      BY <3>1, PushFacts, LenProperties
    <3>3. Added.vid = eTask.vid /\ Added.w = eTally.ops /\ (Added.marker <=> eTask.op = "delete")
      BY DEF Added
    <3>4. ASSUME NEW d \in Fresh', NEW k \in 1 .. Len(Recorded), ~ Recorded[k].marker
          PROVE  eSlot'[d][ESpot(Recorded, TRUE, k)] = Recorded[k].w
      <4>1. CASE k = 1
        <5>1. eTask.op = "put"
          BY <1>2, <2>2, <3>2, <3>3, <3>4, <4>1
        <5>2. eSlot[d][Erasure!Current] = eTally.ops
          BY <1>3, <1>6, <5>1
        <5> QED
          BY <1>1, <3>2, <3>3, <4>1, <5>2 DEF ESpot
      <4>2. CASE k # 1
        <5>1. k \in 2 .. Len(Recorded)
          BY <3>2, <4>2
        <5>2. k - 1 \in 1 .. Len(eTask.pend) /\ Recorded[k] = eTask.pend[k - 1]
          BY <3>2, <5>1
        <5>3. ESpot(eTask.pend, EHead, k - 1) = eTask.pend[k - 1].vid
          BY <1>3, <2>2 DEF ESpot
        <5>4. eSlot[d][eTask.pend[k - 1].vid] = eTask.pend[k - 1].w
          BY <1>3, <1>6, <3>4, <5>2, <5>3 DEF Stored
        <5> QED
          BY <1>1, <4>2, <5>2, <5>4 DEF ESpot
      <4> QED
        BY <4>1, <4>2
    <3>5. /\ Lists(Recorded, eOwed)
          /\ ~ Added.marker => Lists(Recorded, eOwed \cup {[vid |-> Added.vid, w |-> Added.w]})
      <4> DEFINE o == eOwed
                 e == Added
                 p == eTask.pend
      <4>1. e \in Erasure!Entry /\ p \in Seq(Erasure!Entry) /\ Lists(p, o) /\ Recorded = <<e>> \o p
        BY <1>3, <3>1
      <4> HIDE DEF o, e, p
      <4>2. Lists(Recorded, o)
        BY <4>1, ListsPushed
      <4>3. ~ e.marker => Lists(Recorded, o \cup {[vid |-> e.vid, w |-> e.w]})
        BY <4>1, ListsPushed
      <4> QED
        BY <4>2, <4>3 DEF o, e
    <3>6. Lists(Recorded, eOwed')
      <4>1. CASE eTask.op = "put"
        <5>1. eOwed' = eOwed \cup {[vid |-> Added.vid, w |-> Added.w]} /\ ~ Added.marker
          BY <1>1, <3>3, <4>1
        <5> QED
          BY <3>5, <5>1
      <4>2. CASE eTask.op # "put"
        BY <1>1, <3>5, <4>2
      <4> QED
        BY <4>1, <4>2
    <3> QED
      BY <3>4, <3>6 DEF Stored
  <2> QED
    BY <2>1, <2>2
<1>10. EAtRest'
  BY <1>8, <1>9 DEF EAtRest
<1>11. ~ EAdding' /\ ~ ELoaded' /\ eTask'.op = "none" /\ eTask'.pc = "idle"
  BY <1>1, EIdleFacts
<1>12. EAtWork' /\ EPlanned' /\ EUnborn' /\ EGivenUp' /\ ~ EPlain'
  BY <1>11 DEF EAtWork, EPlanned, EUnborn, EGivenUp, EPlain
<1> QED
  BY <1>4, <1>5, <1>7, <1>10, <1>12 DEF ESmooth

LEMMA ESmoothWipe ==
  ASSUME EBase, EBase', ESmooth, Erasure!Wipe, eUpsets' = {}
  PROVE  /\ ESmooth' /\ Counts'.epoch = 0 /\ Erasure!Latest(Erasure!Current)' = None
         /\ ~ EPlain => eTask.op = "remove" /\ eTask.pend = <<>>
<1>1. /\ eTask.pc = "wipe" /\ eTask' = Erasure!Idle /\ Erasure!Wiped(eUp) /\ eUp = Erasure!Drives
      /\ UNCHANGED <<eTally, eOwed>>
  BY DEF Erasure!Wipe, Erasure!Finish
<1>2. /\ eSlot' = [d \in Erasure!Drives |-> Erasure!Empty]
      /\ eHistory' = [d \in Erasure!Drives |-> Erasure!NoHistory]
  BY <1>1 DEF Erasure!Wiped
<1>3. Counts' = Erasure!NoHistory
  <2>1. (Erasure!OperationTypes => /\ \E d \in Erasure!Drives : Counts = eHistory[d]
                           /\ \A e \in Erasure!Drives : eHistory[e].epoch <= Counts.epoch)'
    BY CountsHighest, PTL
  <2> QED
    BY <1>2, <2>1 DEF EBase
<1>4. Erasure!Latest(Erasure!Current)' = None
  <2>1. (Erasure!OperationTypes =>
          /\ \E d \in Erasure!Drives : Erasure!Latest(Erasure!Current) = eSlot[d][Erasure!Current]
          /\ \A d \in Erasure!Drives : eSlot[d][Erasure!Current] <= Erasure!Latest(Erasure!Current))'
    BY CurrentLatest, PTL
  <2>2. PICK d \in Erasure!Drives : Erasure!Latest(Erasure!Current)' = eSlot'[d][Erasure!Current]
    BY <2>1 DEF EBase
  <2> QED
    BY <1>2, <2>2, EPlaceFacts DEF Erasure!Empty, Erasure!None, None
<1>5. ~ EPlain => ELoaded /\ eTask.op = "remove" /\ eTask.pend = <<>>
  BY <1>1 DEF ELoaded, EBase, EControl
<1>6. \A x : x \notin eOwed
  <2>1. CASE EPlain
    BY <2>1, EPlainOwed
  <2>2. CASE ~ EPlain
    <3>1. Lists(<<>>, eOwed)
      BY <1>5, <2>2 DEF ESmooth, EAtWork
    <3>2. Len(<<>>) = 0
      OBVIOUS
    <3> QED
      BY <3>1, <3>2 DEF Lists
  <2> QED
    BY <2>1, <2>2
<1>7. Counts'.epoch = 0
  BY <1>3 DEF Erasure!NoHistory
<1>8. EListing' = <<>>
  BY <1>4, <1>7 DEF EListing
<1>9. OneHistory'
  BY <1>2, <1>3 DEF OneHistory, Fresh
<1>10. EAtRest'
  <2>1. Len(<<>>) = 0
    OBVIOUS
  <2>2. \A f : Stored(f, <<>>, TRUE)
    BY <2>1 DEF Stored
  <2>3. Lists(<<>>, eOwed')
    BY <1>1, <1>6 DEF Lists
  <2> QED
    BY <1>8, <2>2, <2>3 DEF EAtRest
<1>11. ~ EAdding' /\ ~ ELoaded' /\ eTask'.op = "none" /\ eTask'.pc = "idle"
  BY <1>1, EIdleFacts
<1>12. EAtWork' /\ EPlanned' /\ EUnborn' /\ EGivenUp' /\ ~ EPlain'
  BY <1>11 DEF EAtWork, EPlanned, EUnborn, EGivenUp, EPlain
<1> QED
  BY <1>4, <1>5, <1>7, <1>9, <1>10, <1>12 DEF ESmooth

\* The process dies, or the body cannot be read: only before the operation has
\* changed anything does nothing go wrong.
LEMMA ESmoothCut ==
  ASSUME EBase, ESmooth, Erasure!StoreFails \/ Erasure!BodyFails \/ Erasure!Abandon, eUpsets' = {}
  PROVE  /\ ESmooth' /\ eTask' = Erasure!Idle /\ UNCHANGED <<eSlot, eHistory>>
         /\ eTask.pc # "record"
<1>1. "wiped" \notin eUpsets' /\ "cut" \notin eUpsets'
  OBVIOUS
<1>2. ~ Erasure!StoreFails
  BY <1>1 DEF Erasure!StoreFails
<1>3. /\ eTask' = Erasure!Idle /\ UNCHANGED <<eSlot, eHistory, eOwed, eBehind>>
      /\ (eTask.pc = "store" /\ eTask.mode = "Off") \/ eTask.pc \in {"seed", "load", "drop"}
  BY <1>1, <1>2 DEF Erasure!BodyFails, Erasure!Abandon, Erasure!Finish
<1>4. ~ ELoaded \/ eTask.pc = "drop"
  BY <1>3 DEF ELoaded, EPlain, EAdding, EBase, EControl
<1> QED
  BY <1>3, <1>4, ESmoothStops

\* What has gone wrong stays so.
LEMMA EUpsetsGrow ==
  ASSUME EBase, Erasure!Next \/ UNCHANGED eVars
  PROVE  eUpsets \subseteq eUpsets'
<1>1. CASE UNCHANGED eVars \/ Erasure!GetSeeds \/ Erasure!GetWrites
  BY <1>1 DEF eVars, Erasure!GetSeeds, Erasure!GetWrites
<1>2. CASE Erasure!OperationStep
  BY <1>2 DEF Erasure!OperationStep, Erasure!SetVersioning, Erasure!Flip, Erasure!BeginPut, Erasure!BeginDelete,
     Erasure!BeginRemove, Erasure!Begin, Erasure!Seed, Erasure!Load, Erasure!Drop, Erasure!Move,
     Erasure!Store, Erasure!StoreFails, Erasure!BodyFails, Erasure!Record, Erasure!Wipe,
     Erasure!Abandon, Erasure!Pass
<1> QED
  BY <1>1, <1>2 DEF Erasure!Next

LEMMA ESmoothNext ==
  ASSUME EBase, EBase', ESmooth, Erasure!OperationStep \/ UNCHANGED eVars, eUpsets' = {}
  PROVE  ESmooth'
<1>1. CASE UNCHANGED eVars \/ (\E m \in Erasure!Modes : Erasure!SetVersioning(m))
           \/ (\E d \in Erasure!Drives : Erasure!Flip(d))
  BY <1>1, ESmoothQuiet
<1>2. CASE Erasure!BeginPut
  <2>1. Erasure!Begin("put", Erasure!NewVid, IF eStatus = "Off" THEN "store" ELSE "seed")
    BY <1>2 DEF Erasure!BeginPut
  <2> QED
    BY <2>1, ESmoothBegin
<1>3. CASE Erasure!BeginDelete
  <2>1. Erasure!Begin("delete", Erasure!NewVid, IF eStatus = "Off" THEN "wipe" ELSE "seed")
    BY <1>3 DEF Erasure!BeginDelete
  <2> QED
    BY <2>1, ESmoothBegin
<1>4. CASE \E v \in Erasure!Vids : v <= eTally.ops /\ Erasure!BeginRemove(v)
  <2>1. PICK v \in Erasure!Vids : Erasure!Begin("remove", v, "seed")
    BY <1>4 DEF Erasure!BeginRemove
  <2> QED
    BY <2>1, ESmoothBegin
<1>5. CASE Erasure!Seed
  BY <1>5, ESmoothSeed
<1>6. CASE Erasure!Load
  BY <1>6, ESmoothLoad
<1>7. CASE Erasure!Drop
  BY <1>7, ESmoothDrop
<1>8. CASE Erasure!Move
  BY <1>8, ESmoothMove
<1>9. CASE Erasure!Store
  BY <1>9, ESmoothStore
<1>10. CASE Erasure!Record
  BY <1>10, ESmoothRecord
<1>11. CASE Erasure!Wipe
  BY <1>11, ESmoothWipe
<1>12. CASE Erasure!StoreFails \/ Erasure!BodyFails \/ Erasure!Abandon
  BY <1>12, ESmoothCut
<1> QED
  BY <1>1, <1>2, <1>3, <1>4, <1>5, <1>6, <1>7, <1>8, <1>9, <1>10, <1>11, <1>12
     DEF Erasure!OperationStep, Erasure!Modes

\* The unlocked seed writes what the drives amount to, or nothing.
LEMMA ESmoothGets ==
  ASSUME EBase, EBase', ESmooth, EPending, Erasure!GetWrites
  PROVE  ESmooth' /\ EListing' = EListing
<1> DEFINE w == Erasure!Latest(Erasure!Current)
<1>1. /\ UNCHANGED <<eSlot, eUp, eTask, eOwed>> /\ eGetter # <<>>
      /\ \/ eUp # {} /\ Erasure!WriteHistory(eGetter, 0)
            /\ eBehind' = eBehind \cup (Erasure!Drives \ eUp)
         \/ UNCHANGED <<eHistory, eBehind>>
  BY DEF Erasure!GetWrites, Erasure!Missed
<1>2. eTask.pc = "idle" /\ Counts.epoch = 0 /\ w # None /\ eGetter = Legacy(w)
  BY <1>1 DEF EPending
<1>3. ~ ELoaded /\ ~ ELoaded' /\ ~ EPlain /\ ~ EPlain' /\ eTask.op = "none"
      /\ eTask'.pc = "idle" /\ eTask'.op = "none"
  BY <1>1, <1>2 DEF EBase, EControl, ELoaded, EPlain, EAdding
<1>4. EAtWork' /\ EPlanned' /\ EGivenUp' /\ EUnborn'
  BY <1>3 DEF EAtWork, EPlanned, EGivenUp, EUnborn
<1>5. (\A d \in Fresh : Stored(eSlot[d], EListing, TRUE)) /\ Lists(EListing, eOwed)
  BY <1>3 DEF ESmooth, EAtRest
<1>6. CASE UNCHANGED <<eHistory, eBehind>>
  <2>1. OneHistory' /\ Fresh' = Fresh /\ EListing' = EListing
    BY <1>1, <1>6, OneHistorySame, EListingSame DEF Fresh
  <2>2. EAtRest'
    BY <1>1, <1>5, <2>1 DEF EAtRest
  <2> QED
    BY <1>3, <1>4, <2>1, <2>2 DEF ESmooth
<1>7. CASE /\ eUp # {} /\ Erasure!WriteHistory(eGetter, 0)
           /\ eBehind' = eBehind \cup (Erasure!Drives \ eUp)
  <2>1. Erasure!WriteHistory(Legacy(w), Counts.epoch)
    BY <1>2, <1>7
  <2>2. EListing = Legacy(w)
    BY <1>2 DEF EListing
  <2> HIDE DEF w
  <2>3. /\ Counts'.epoch = 0 + 1 /\ Counts'.list = Legacy(w)
        /\ \A d \in eUp : eHistory'[d] = Counts'
        /\ \A d \in Erasure!Drives : d \in eUp <=> eHistory'[d].epoch = Counts'.epoch
    BY <1>2, <1>7, <2>1, CountsWritten
  <2>4. Fresh' \subseteq Fresh /\ Fresh' \subseteq eUp
    BY <1>7 DEF Fresh
  <2>5. OneHistory'
    BY <2>3, <2>4 DEF OneHistory
  <2>6. EListing' = Legacy(w)
    BY <2>3 DEF EListing
  <2>7. EAtRest'
    BY <1>1, <1>5, <2>2, <2>4, <2>6 DEF EAtRest
  <2> QED
    BY <1>3, <1>4, <2>2, <2>5, <2>6, <2>7 DEF ESmooth
<1> QED
  BY <1>1, <1>6, <1>7

\* Nothing changes beside a GET or HEAD that is about to write, or it is told apart.
LEMMA EPendingStep ==
  ASSUME EBase, ESmooth, EPending, Erasure!Next \/ UNCHANGED eVars, eUpsets' = {}
  PROVE  EPending'
<1>1. CASE UNCHANGED eVars \/ (Erasure!OperationStep /\ UNCHANGED eGetter)
  <2>1. SUFFICES ASSUME eGetter # <<>>, eGetter' = eGetter
                 PROVE  UNCHANGED <<eTask, eHistory, eSlot>>
    <3>1. SUFFICES ASSUME eGetter' # <<>> PROVE EPending'
      BY DEF EPending
    <3>2. UNCHANGED <<eTask, eHistory, eSlot, eGetter>>
      BY <1>1, <2>1, <3>1 DEF eVars
    <3>3. Counts' = Counts /\ Erasure!Latest(Erasure!Current)' = Erasure!Latest(Erasure!Current)
      BY <3>2, CountsSame DEF Erasure!Latest
    <3> QED
      BY <3>2, <3>3 DEF EPending, Legacy
  <2>2. eTask.pc = "idle" /\ "raced" \notin eUpsets'
    BY <2>1 DEF EPending
  <2>3. \A o, v, q : ~ Erasure!Begin(o, v, q)
    BY <2>1, <2>2 DEF Erasure!Begin
  <2>4. ~ Erasure!BeginPut /\ ~ Erasure!BeginDelete /\ \A v : ~ Erasure!BeginRemove(v)
    BY <2>3 DEF Erasure!BeginPut, Erasure!BeginDelete, Erasure!BeginRemove
  <2>5. \/ UNCHANGED eVars \/ (\E m \in Erasure!Modes : Erasure!SetVersioning(m))
        \/ (\E d \in Erasure!Drives : Erasure!Flip(d))
    BY <1>1, <2>2, <2>4 DEF Erasure!OperationStep, Erasure!Seed, Erasure!Load, Erasure!Drop, Erasure!Move,
       Erasure!Store, Erasure!StoreFails, Erasure!BodyFails, Erasure!Record, Erasure!Wipe,
       Erasure!Abandon, Erasure!Modes
  <2> QED
    BY <2>5 DEF eVars, Erasure!SetVersioning, Erasure!Flip
<1>2. CASE Erasure!GetSeeds
  <2>1. /\ UNCHANGED <<eSlot, eHistory, eTask>> /\ eGetter' = Legacy(Erasure!Described(Erasure!Current))
        /\ Erasure!Described(Erasure!Current) # None
        /\ eTask.pc = "idle" /\ ~ (Counts.epoch > 0)
        /\ Erasure!Described(Erasure!Current) = Erasure!Latest(Erasure!Current)
    BY <1>2 DEF Erasure!GetSeeds, Erasure!Seeds, Erasure!LegacyHistory, Legacy, Erasure!Null, Null,
                Erasure!None, None, Counts
  <2>2. Counts.epoch = 0
    BY <2>1, CountsFacts
  <2>3. Counts' = Counts /\ Erasure!Latest(Erasure!Current)' = Erasure!Latest(Erasure!Current)
    BY <2>1, CountsSame DEF Erasure!Latest
  <2> QED
    BY <2>1, <2>2, <2>3 DEF EPending
<1>3. CASE Erasure!GetWrites
  BY <1>3 DEF Erasure!GetWrites, EPending
<1> QED
  BY <1>1, <1>2, <1>3 DEF Erasure!Next

LEMMA ESmoothInit == Erasure!Init => ESmooth
<1> SUFFICES ASSUME Erasure!Init PROVE ESmooth
  OBVIOUS
<1>0. EBase
  BY EBaseInit
<1>1. /\ eTask = Erasure!Idle /\ eOwed = {}
      /\ eSlot = [d \in Erasure!Drives |-> Erasure!Empty]
      /\ eHistory = [d \in Erasure!Drives |-> Erasure!NoHistory]
  BY DEF Erasure!Init
<1>2. Counts = Erasure!NoHistory
  BY <1>0, <1>1, CountsHighest DEF EBase
<1>3. Erasure!Latest(Erasure!Current) = None
  <2>1. PICK d \in Erasure!Drives : Erasure!Latest(Erasure!Current) = eSlot[d][Erasure!Current]
    BY <1>0, CurrentLatest DEF EBase
  <2> QED
    BY <1>1, <2>1, EPlaceFacts DEF Erasure!Empty, Erasure!None, None
<1>4. Counts.epoch = 0
  BY <1>2 DEF Erasure!NoHistory
<1>5. EListing = <<>>
  BY <1>3, <1>4 DEF EListing
<1>6. OneHistory
  BY <1>1, <1>2 DEF OneHistory, Fresh
<1>7. EAtRest
  <2>1. Len(<<>>) = 0
    OBVIOUS
  <2>2. \A f : Stored(f, <<>>, TRUE)
    BY <2>1 DEF Stored
  <2>3. Lists(<<>>, eOwed)
    BY <1>1 DEF Lists
  <2> QED
    BY <1>5, <2>2, <2>3 DEF EAtRest
<1>8. eTask.op = "none" /\ eTask.pc = "idle"
  BY <1>1 DEF Erasure!Idle
<1>9. ~ EAdding /\ ~ ELoaded
  BY <1>8 DEF EAdding, ELoaded
<1>10. EAtWork /\ EPlanned /\ EUnborn /\ EGivenUp /\ ~ EPlain
  BY <1>8, <1>9 DEF EAtWork, EPlanned, EUnborn, EGivenUp, EPlain
<1> QED
  BY <1>4, <1>6, <1>7, <1>10 DEF ESmooth

LEMMA ESmoothInductive == MCSpec => [](EBase /\ ESmoothInv)
<1>1. MCInit => ESmoothInv
  BY ESmoothInit DEF MCInit, ESmoothInv, EPending, Erasure!Init
<1>2. EBase /\ EBase' /\ ESmoothInv /\ [MCNext]_<<vars, backend, eVars>> => ESmoothInv'
  <2>1. SUFFICES ASSUME EBase, EBase', ESmoothInv, [MCNext]_<<vars, backend, eVars>>, eUpsets' = {}
                 PROVE  ESmooth' /\ EPending'
    BY DEF ESmoothInv
  <2>2. Erasure!Next \/ UNCHANGED eVars
    BY <2>1 DEF MCNext
  <2>3. eUpsets = {}
    BY <2>1, <2>2, EUpsetsGrow
  <2>4. ESmooth /\ EPending
    BY <2>1, <2>3 DEF ESmoothInv
  <2>5. EPending'
    BY <2>1, <2>2, <2>4, EPendingStep
  <2>6. ESmooth'
    BY <2>1, <2>2, <2>4, ESmoothNext, ESmoothQuiet, ESmoothGets DEF Erasure!Next
  <2> QED
    BY <2>5, <2>6
<1> QED
  BY <1>1, <1>2, EBaseInductive, PTL DEF MCSpec

-------------------------------------------------------------------------------
(* What follows for the erasure backend *)

\* The list a GET finds, and what it delivers.
ReadList == IF Erasure!Newest(eUp).epoch = 0 /\ Erasure!Described(Erasure!Current) # None
            THEN Legacy(Erasure!Described(Erasure!Current))
            ELSE Erasure!Newest(eUp).list

LEMMA DeliversFacts ==
  ASSUME NEW v, NEW i, i = Erasure!Position(ReadList, v),
         NEW p, p = IF i = 1 THEN Erasure!Current ELSE v,
         NEW w, w = Erasure!Described(p)
  PROVE  /\ i = 0 \/ ReadList[i].marker => Erasure!Delivers(v) = None
         /\ ~ (i = 0 \/ ReadList[i].marker) =>
              Erasure!Delivers(v) = IF Cardinality({d \in eUp : eSlot[d][p] = w}) >= K THEN w ELSE None
<1>1. ReadList = IF Erasure!Newest(eUp).epoch = 0 /\ Erasure!Described(Erasure!Current) # Erasure!None
                 THEN <<[vid |-> Erasure!Null, marker |-> FALSE, w |-> Erasure!Described(Erasure!Current)]>>
                 ELSE Erasure!Newest(eUp).list
  BY DEF ReadList, Legacy, Erasure!Null, Null, Erasure!None, None
<1> QED
  BY <1>1, ESizeFacts DEF Erasure!Delivers, Erasure!Seeds, Erasure!LegacyHistory, Erasure!None, None

\* A drive that missed nothing answers with the history that counts.
LEMMA FreshRead ==
  ASSUME EBase, OneHistory, NEW d \in eUp, d \in Fresh
  PROVE  Erasure!Newest(eUp) = Counts
<1>1. eUp \subseteq Erasure!Drives /\ eUp # {}
  BY EBaseTypes DEF EBase
<1>2. eHistory[d] = Counts
  BY DEF OneHistory
<1>3. eHistory[d].epoch <= Erasure!Newest(eUp).epoch
  BY <1>1, NewestFacts DEF EBase
<1>4. Counts.epoch \in Nat /\ Erasure!Newest(eUp).epoch \in Nat
  BY <1>1, CountsFacts, ENewestType DEF EBase
<1>5. ~ (Erasure!Newest(eUp).epoch < Counts.epoch)
  BY <1>2, <1>3, <1>4
<1> QED
  BY <1>5, LoadsCounts

\* An acknowledged version is listed once, and a drive that missed nothing has it.
LEMMA OwedFacts ==
  ASSUME EBase, ESmooth, eTask.pc = "idle", NEW x \in eOwed
  PROVE  /\ x.w \in Erasure!Ops /\ x.vid \in Erasure!Vids
         /\ \E k \in 1 .. Len(EListing) :
              /\ EListing[k].vid = x.vid /\ EListing[k].w = x.w /\ ~ EListing[k].marker
              /\ Erasure!Position(EListing, x.vid) = k
              /\ ESpot(EListing, TRUE, k) \in Erasure!Places
              /\ \A d \in Fresh : eSlot[d][ESpot(EListing, TRUE, k)] = x.w
         /\ Counts.epoch = 0 => /\ x.vid = Null /\ x.w = Erasure!Latest(Erasure!Current)
                                /\ EListing = Legacy(x.w)
                                /\ \A d \in Fresh : eSlot[d][Erasure!Current] = x.w
<1>1. x.w \in Erasure!Ops /\ x.vid \in Erasure!Vids
  BY DEF EBase, Erasure!OperationTypes
<1>2. EListing \in Seq(Erasure!Entry) /\ SoundList(EListing, eTally.ops)
  BY EListingFacts
<1>3. (\A d \in Fresh : Stored(eSlot[d], EListing, TRUE)) /\ Lists(EListing, eOwed)
  BY DEF ESmooth, EAtRest, ELoaded
<1>4. PICK k \in 1 .. Len(EListing) :
        EListing[k].vid = x.vid /\ EListing[k].w = x.w /\ ~ EListing[k].marker
  BY <1>3 DEF Lists
<1>5. Erasure!Position(EListing, x.vid) = k
  BY <1>2, <1>4, EPositionFacts
<1>6. ESpot(EListing, TRUE, k) \in Erasure!Places
  BY <1>2, EEntryFacts, EPlaceFacts DEF ESpot
<1>7. \A d \in Fresh : eSlot[d][ESpot(EListing, TRUE, k)] = x.w
  BY <1>3, <1>4 DEF Stored
<1>8. ASSUME Counts.epoch = 0
      PROVE  /\ x.vid = Null /\ x.w = Erasure!Latest(Erasure!Current)
             /\ EListing = Legacy(x.w)
             /\ \A d \in Fresh : eSlot[d][Erasure!Current] = x.w
  <2> DEFINE w == Erasure!Latest(Erasure!Current)
  <2>1. EListing = IF w = None THEN <<>> ELSE Legacy(w)
    BY <1>8 DEF EListing
  <2>2. w \in Erasure!Ops \cup {None}
    BY LatestFacts, EPlaceFacts DEF EBase
  <2> HIDE DEF w
  <2>3. w # None
    <3>1. SUFFICES ASSUME w = None PROVE FALSE
      OBVIOUS
    <3>2. Len(EListing) = 0
      BY <2>1, <3>1
    <3> QED
      BY <1>4, <3>2
  <2>4. EListing = Legacy(w)
    BY <2>1, <2>3
  <2>5. Len(Legacy(w)) = 1 /\ Legacy(w)[1].vid = Null /\ Legacy(w)[1].w = w
    BY <2>2, <2>3, ELegacyFacts, EBaseTypes DEF EBase
  <2>6. k = 1
    BY <1>4, <2>4, <2>5
  <2> QED
    BY <1>4, <1>7, <2>4, <2>5, <2>6 DEF ESpot, w
<1> QED
  BY <1>1, <1>4, <1>5, <1>6, <1>7, <1>8

\* An object without a history: what is found first on drives one of which missed
\* nothing, and the others no less, is the latest write.
LEMMA ERetrieved ==
  ASSUME EBase, ESmooth, eTask.pc = "idle", \A d \in eUp : d \in Fresh, eUp # {},
         Cardinality(eUp) >= K, NEW x \in eOwed
  PROVE  Erasure!Delivers(x.vid) = x.w
<1>1. PICK u \in eUp : u \in Fresh
  OBVIOUS
<1>2. Erasure!Newest(eUp) = Counts
  BY <1>1, FreshRead DEF ESmooth
<1>3. /\ x.w \in Erasure!Ops /\ x.w # None
      /\ Counts.epoch = 0 => /\ EListing = Legacy(x.w)
                             /\ \A d \in Fresh : eSlot[d][Erasure!Current] = x.w
  BY OwedFacts, EPlaceFacts
<1>4. PICK k \in 1 .. Len(EListing) :
              /\ EListing[k].vid = x.vid /\ EListing[k].w = x.w /\ ~ EListing[k].marker
              /\ Erasure!Position(EListing, x.vid) = k
              /\ ESpot(EListing, TRUE, k) \in Erasure!Places
              /\ \A d \in Fresh : eSlot[d][ESpot(EListing, TRUE, k)] = x.w
  BY OwedFacts
<1>5. ReadList = EListing
  <2>1. CASE Counts.epoch = 0
    <3>1. Erasure!Described(Erasure!Current) = x.w
      BY <1>1, <1>3, <2>1, DescribedFacts, EPlaceFacts DEF EBase
    <3> QED
      BY <1>2, <1>3, <2>1, <3>1 DEF ReadList
  <2>2. CASE Counts.epoch # 0
    <3>1. Counts.epoch > 0
      BY <2>2, CountsFacts
    <3> QED
      BY <1>2, <2>2, <3>1 DEF ReadList, EListing
  <2> QED
    BY <2>1, <2>2
<1> DEFINE p == ESpot(EListing, TRUE, k)
<1>6. p = (IF k = 1 THEN Erasure!Current ELSE x.vid) /\ p \in Erasure!Places
  BY <1>4 DEF ESpot
<1>7. \A d \in eUp : eSlot[d][p] = x.w
  BY <1>4
<1> HIDE DEF p
<1>8. Erasure!Described(p) = x.w
  BY <1>1, <1>3, <1>6, <1>7, DescribedFacts DEF EBase
<1>9. {d \in eUp : eSlot[d][p] = x.w} = eUp
  BY <1>7
<1>10. k # 0
  BY <1>4
<1>11. ~ (k = 0 \/ ReadList[k].marker) =>
         Erasure!Delivers(x.vid) = IF Cardinality({d \in eUp : eSlot[d][p] = x.w}) >= K THEN x.w ELSE None
  BY <1>4, <1>5, <1>6, <1>8, DeliversFacts
<1> QED
  BY <1>4, <1>5, <1>9, <1>10, <1>11

\* store.rs, demote_current: "write quorum + heal cover it".  Any K drives that
\* missed nothing deliver every acknowledged version, and at every moment of an
\* operation each of them has it (ErasureKept).
THEOREM ErasureVersionsAreKept == MCSpec => []ErasureKept
<1>1. EBase /\ ESmoothInv => ErasureKept
  <2>1. SUFFICES ASSUME EBase, ESmoothInv PROVE Erasure!Retrievable /\ Erasure!OnDrives
    BY DEF ErasureKept
  <2>2. Erasure!Retrievable
    <3>1. SUFFICES ASSUME eTask.pc = "idle", eUpsets = {}, eUp \cap eBehind = {},
                          Cardinality(eUp) >= K, NEW x \in eOwed
                   PROVE  Erasure!Delivers(x.vid) = x.w
      BY ESizeFacts DEF Erasure!Retrievable
    <3>2. \A d \in eUp : d \in Fresh
      BY <2>1, <3>1, EBaseTypes DEF Fresh, EBase
    <3>3. eUp # {}
      <4>1. Cardinality({}) = 0
        BY FS_EmptySet
      <4> QED
        BY <3>1, <4>1, EBounds
    <3> QED
      BY <2>1, <3>1, <3>2, <3>3, ERetrieved DEF ESmoothInv
  <2>3. Erasure!OnDrives
    <3>1. SUFFICES ASSUME eUpsets = {}, NEW x \in eOwed, NEW d \in Fresh
                   PROVE  \E p \in Erasure!Places : eSlot[d][p] = x.w
      BY DEF Erasure!OnDrives, Fresh
    <3>2. ESmooth
      BY <2>1, <3>1 DEF ESmoothInv
    <3>3. CASE ~ ELoaded
      <4>1. EListing \in Seq(Erasure!Entry) /\ Stored(eSlot[d], EListing, TRUE) /\ Lists(EListing, eOwed)
        BY <2>1, <3>2, <3>3, EListingFacts DEF ESmooth, EAtRest
      <4>2. PICK k \in 1 .. Len(EListing) : EListing[k].w = x.w /\ ~ EListing[k].marker
        BY <4>1 DEF Lists
      <4>3. ESpot(EListing, TRUE, k) \in Erasure!Places
        BY <4>1, EEntryFacts, EPlaceFacts DEF ESpot
      <4> QED
        BY <4>1, <4>2, <4>3 DEF Stored
    <3>4. CASE ELoaded
      <4>1. eTask.pend \in Seq(Erasure!Entry) /\ Stored(eSlot[d], eTask.pend, EHead) /\ Lists(eTask.pend, eOwed)
        BY <2>1, <3>2, <3>4, EBaseTypes DEF ESmooth, EAtWork, EBase
      <4>2. PICK k \in 1 .. Len(eTask.pend) : eTask.pend[k].w = x.w /\ ~ eTask.pend[k].marker
        BY <4>1 DEF Lists
      <4>3. ESpot(eTask.pend, EHead, k) \in Erasure!Places
        BY <4>1, EEntryFacts, EPlaceFacts DEF ESpot
      <4> QED
        BY <4>1, <4>2, <4>3 DEF Stored
    <3> QED
      BY <3>3, <3>4
  <2> QED
    BY <2>2, <2>3
<1> QED
  BY <1>1, ESmoothInductive, PTL

\* As many drives with the same shard as rebuild an object are more than those that
\* missed something.
LEMMA EnoughFresh ==
  ASSUME EBase, NEW S, S \subseteq eUp, Cardinality(S) >= K, Cardinality(eBehind) < K
  PROVE  \E d \in S : d \in Fresh
<1>1. SUFFICES ASSUME \A d \in S : d \notin Fresh PROVE FALSE
  OBVIOUS
<1>2. S \subseteq eBehind /\ eBehind \subseteq Erasure!Drives
  BY <1>1, EBaseTypes DEF Fresh, EBase
<1>3. IsFiniteSet(eBehind)
  BY <1>2, EDriveFacts, FS_Subset
<1>4. IsFiniteSet(S) /\ Cardinality(S) <= Cardinality(eBehind)
  BY <1>2, <1>3, FS_Subset
<1>5. Cardinality(S) \in Nat /\ Cardinality(eBehind) \in Nat
  BY <1>3, <1>4, FS_CardinalityType
<1> QED
  BY <1>4, <1>5, EBounds

\* storage/mod.rs, get_object_version: while the drives that missed something are
\* too few to make up an object, no GET of a version delivers the bytes of another,
\* whichever drives answer (ErasureNeverAnother).
THEOREM ErasureDeliversNoOther == MCSpec => []ErasureNeverAnother
<1>1. EBase /\ ESmoothInv => ErasureNeverAnother
  <2>1. SUFFICES ASSUME EBase, ESmoothInv, eTask.pc = "idle", eUpsets = {},
                        Cardinality(eBehind) < K, NEW x \in eOwed,
                        Erasure!Delivers(x.vid) # None
                 PROVE  Erasure!Delivers(x.vid) = x.w
    BY ESizeFacts DEF ErasureNeverAnother, Erasure!NeverAnother, Erasure!None, None
  <2>2. ESmooth
    BY <2>1 DEF ESmoothInv
  <2> DEFINE i == Erasure!Position(ReadList, x.vid)
             p == IF i = 1 THEN Erasure!Current ELSE x.vid
             w == Erasure!Described(p)
             S == {d \in eUp : eSlot[d][p] = w}
  <2>3. ~ (i = 0 \/ ReadList[i].marker)
    BY <2>1, DeliversFacts
  <2>4. Erasure!Delivers(x.vid) = IF Cardinality(S) >= K THEN w ELSE None
    BY <2>3, DeliversFacts
  <2> HIDE DEF i
  <2>5. Cardinality(S) >= K /\ Erasure!Delivers(x.vid) = w /\ w # None
    BY <2>1, <2>4
  <2>6. PICK d \in S : d \in Fresh
    <3>1. S \subseteq eUp
      OBVIOUS
    <3> HIDE DEF S
    <3> QED
      BY <2>1, <2>5, <3>1, EnoughFresh
  <2>7. d \in eUp /\ eSlot[d][p] = w
    BY <2>6
  <2>8. Erasure!Newest(eUp) = Counts
    BY <2>1, <2>2, <2>6, <2>7, FreshRead DEF ESmooth
  <2>9. CASE Counts.epoch = 0
    <3>1. /\ x.vid = Null /\ \A e \in Fresh : eSlot[e][Erasure!Current] = x.w
      BY <2>1, <2>2, <2>9, OwedFacts
    <3>2. ReadList = IF Erasure!Described(Erasure!Current) # None
                     THEN Legacy(Erasure!Described(Erasure!Current)) ELSE <<>>
      BY <2>1, <2>8, <2>9, CountsFacts DEF ReadList, Erasure!NoHistory
    <3>3. ReadList \in Seq(Erasure!Entry) /\ SoundList(ReadList, eTally.ops)
          /\ \A k \in 1 .. Len(ReadList) : k = 1
      <4> DEFINE c == Erasure!Described(Erasure!Current)
      <4>1. c \in Erasure!Ops \/ c = None
        BY <2>1, DescribedFacts, EPlaceFacts DEF EBase
      <4> HIDE DEF c
      <4>2. CASE c # None
        <5>1. ReadList = Legacy(c)
          BY <3>2, <4>2 DEF c
        <5>2. c \in Erasure!Ops /\ eTally.ops \in Nat
          BY <2>1, <4>1, <4>2, EBaseTypes DEF EBase
        <5>3. Legacy(c) \in Seq(Erasure!Entry) /\ SoundList(Legacy(c), eTally.ops) /\ Len(Legacy(c)) = 1
          BY <5>2, ELegacyFacts
        <5> QED
          BY <5>1, <5>3
      <4>3. CASE c = None
        <5>1. ReadList = <<>>
          BY <3>2, <4>3 DEF c
        <5> QED
          BY <5>1, SoundEmpty
      <4> QED
        BY <4>2, <4>3
    <3>4. i \in 1 .. Len(ReadList)
      <4>1. i \in 0 .. Len(ReadList)
        BY <3>3, EPositionFacts DEF i
      <4>2. Len(ReadList) \in Nat
        BY <3>3, LenProperties
      <4> QED
        BY <2>3, <4>1, <4>2
    <3>5. i = 1
      BY <3>3, <3>4
    <3> QED
      BY <2>5, <2>6, <2>7, <3>1, <3>5
  <2>10. CASE Counts.epoch # 0
    <3>1. ReadList = Counts.list /\ EListing = Counts.list
      <4>1. Counts.epoch > 0
        BY <2>1, <2>10, CountsFacts
      <4> QED
        BY <2>8, <2>10, <4>1 DEF ReadList, EListing
    <3>2. PICK k \in 1 .. Len(EListing) :
              /\ EListing[k].vid = x.vid
              /\ Erasure!Position(EListing, x.vid) = k
              /\ \A e \in Fresh : eSlot[e][ESpot(EListing, TRUE, k)] = x.w
      BY <2>1, <2>2, OwedFacts
    <3>3. i = k
      BY <3>1, <3>2 DEF i
    <3>4. p = ESpot(EListing, TRUE, k)
      BY <3>2, <3>3 DEF ESpot
    <3> HIDE DEF p, w
    <3> QED
      BY <2>5, <2>6, <2>7, <3>2, <3>4
  <2> QED
    BY <2>9, <2>10
<1> QED
  BY <1>1, ESmoothInductive, PTL

\* What the clients know of a key, entry by entry.
EUnrecorded == eTask.op = "put" /\ eTask.mode # "Off" /\ eTask.pc = "record"
EKnown == IF Counts.epoch > 0 THEN Counts.list
          ELSE IF Erasure!Latest(Erasure!Current) = None \/ EUnrecorded THEN <<>>
          ELSE Legacy(Erasure!Latest(Erasure!Current))

LEMMA ShownOnly ==
  ASSUME NEW w \in Erasure!Ops
  PROVE  ShownAll(Legacy(w)) = <<[vid |-> Null, body |-> w]>>
<1> DEFINE e == [vid |-> Null, marker |-> FALSE, w |-> w]
<1>1. Shown(e) = [vid |-> Null, body |-> w]
  BY DEF Shown
<1>2. ShownAll(<<e>>) = [i \in 1 .. 1 |-> Shown(<<e>>[i])]
  BY DEF ShownAll
<1>3. Legacy(w) = <<e>>
  BY DEF Legacy
<1> HIDE DEF e
<1>4. ShownAll(<<e>>) = <<Shown(e)>>
  BY <1>2
<1> QED
  BY <1>1, <1>3, <1>4

LEMMA EKnownFacts ==
  ASSUME EBase
  PROVE  /\ EKnown \in Seq(Erasure!Entry) /\ SoundList(EKnown, eTally.ops)
         /\ Erasure!versions = ShownAll(EKnown)
<1> DEFINE w == Erasure!Latest(Erasure!Current)
<1>0. Erasure!versions =
        IF Counts.epoch > 0
        THEN [i \in 1 .. Len(Counts.list) |->
               [vid |-> Counts.list[i].vid, body |-> IF Counts.list[i].marker THEN None ELSE Counts.list[i].w]]
        ELSE IF w = None \/ EUnrecorded THEN <<>> ELSE <<[vid |-> Null, body |-> w]>>
  BY DEF Erasure!versions, Counts, EUnrecorded, Erasure!None, None, Erasure!Null, Null
<1>1. EKnown = IF Counts.epoch > 0 THEN Counts.list
               ELSE IF w = None \/ EUnrecorded THEN <<>> ELSE Legacy(w)
  BY DEF EKnown
<1>2. w \in Erasure!Ops \cup {None}
  BY LatestFacts, EPlaceFacts DEF EBase
<1> HIDE DEF w
<1>3. CASE Counts.epoch > 0
  <2>1. EKnown = Counts.list
    BY <1>1, <1>3
  <2>2. EKnown \in Seq(Erasure!Entry) /\ SoundList(EKnown, eTally.ops)
    BY <2>1, CountsFacts
  <2>3. Erasure!versions = ShownAll(EKnown)
    BY <1>0, <1>3, <2>1 DEF ShownAll, Shown
  <2> QED
    BY <2>2, <2>3
<1>4. CASE ~ (Counts.epoch > 0) /\ (w = None \/ EUnrecorded)
  <2>1. EKnown = <<>> /\ Erasure!versions = <<>>
    BY <1>0, <1>1, <1>4
  <2>2. ShownAll(<<>>) = <<>>
    <3>1. ShownAll(<<>>) \in [1 .. 0 -> {}]
      BY DEF ShownAll
    <3> QED
      BY <3>1
  <2> QED
    BY <2>1, <2>2, SoundEmpty
<1>5. CASE ~ (Counts.epoch > 0) /\ ~ (w = None \/ EUnrecorded)
  <2>1. EKnown = Legacy(w) /\ Erasure!versions = <<[vid |-> Null, body |-> w]>> /\ w \in Erasure!Ops
    BY <1>0, <1>1, <1>2, <1>5
  <2>2. Legacy(w) \in Seq(Erasure!Entry) /\ SoundList(Legacy(w), eTally.ops)
    BY <2>1, ELegacyFacts, EBaseTypes DEF EBase
  <2> QED
    BY <2>1, <2>2, ShownOnly
<1> QED
  BY <1>3, <1>4, <1>5

EKnownStep ==
  \/ EKnown' = EKnown
  \/ EKnown' = Abstract!Without(EKnown, eTask.vid)
  \/ /\ EAdding
     /\ eTask.vid # Null => \A i \in 1 .. Len(EKnown) : EKnown[i].vid # eTask.vid
     /\ EKnown' = <<Added>> \o Abstract!Without(EKnown, eTask.vid)

\* Each step of this kind is a step of the abstract specification.
LEMMA EKnownImplements ==
  ASSUME EBase, EBase', EKnownStep, Erasure!versions' # Erasure!versions
  PROVE  Erasure!Abstract!Next
<1> DEFINE v == eTask.vid
           p == Abstract!Without(EKnown, v)
<1>1. /\ EKnown \in Seq(Erasure!Entry) /\ SoundList(EKnown, eTally.ops)
      /\ Erasure!versions = ShownAll(EKnown)
  BY EKnownFacts
<1>2. Erasure!versions' = ShownAll(EKnown')
  <2>1. (Erasure!versions = ShownAll(EKnown))'
    BY EKnownFacts, PTL
  <2> QED
    BY <2>1
<1>3. \A i \in 1 .. Len(EKnown), j \in 1 .. Len(EKnown) : EKnown[i].vid = EKnown[j].vid => i = j
  BY <1>1 DEF SoundList
<1>4. EKnown' # EKnown
  BY <1>1, <1>2
<1>5. v \in Erasure!Vids
  BY EBaseTypes DEF EBase
<1>6. ShownAll(p) = Erasure!Abstract!Without(Erasure!versions, v)
  <2>1. ShownAll(p) = Abstract!Without(Erasure!versions, v)
    BY <1>1, <1>3, ShownWithout
  <2> QED
    BY <2>1 DEF Abstract!Without, Erasure!Abstract!Without
<1>7. CASE EKnown' = p
  <2>1. Erasure!Abstract!Remove(v)
    BY <1>2, <1>6, <1>7 DEF Erasure!Abstract!Remove
  <2> QED
    BY <1>5, <2>1 DEF Erasure!Abstract!Next
<1>8. CASE /\ EAdding
           /\ v # Null => \A i \in 1 .. Len(EKnown) : EKnown[i].vid # v
           /\ EKnown' = <<Added>> \o p
  <2> DEFINE b == IF eTask.op = "delete" THEN None ELSE eTally.ops
  <2>1. p \in Seq(Erasure!Entry)
    <3>1. CASE \A i \in 1 .. Len(EKnown) : EKnown[i].vid # v
      BY <1>1, <1>3, <3>1, WithoutFacts
    <3>2. CASE \E i \in 1 .. Len(EKnown) : EKnown[i].vid = v
      <4>1. PICK i \in 1 .. Len(EKnown) : EKnown[i].vid = v
        BY <3>2
      <4>2. p = RemoveAt(EKnown, i)
        BY <1>3, <4>1, WithoutFacts
      <4> HIDE DEF p
      <4> QED
        BY <1>1, <4>2, RemovedFacts
    <3> QED
      BY <3>1, <3>2
  <2>2. eTally.ops \in Erasure!Ops
    BY <1>8, EOpsFacts DEF EAdding
  <2>3. Added \in Erasure!Entry /\ Shown(Added) = [vid |-> v, body |-> b]
    BY <1>5, <2>2 DEF Added, Erasure!Entry, Shown
  <2>4. b \in Erasure!Ops \cup {None}
    BY <2>2
  <2> HIDE DEF p, b
  <2>5. ShownAll(<<Added>> \o p) = <<Shown(Added)>> \o ShownAll(p)
    BY <2>1, <2>3, ShownPushed
  <2>6. Erasure!versions' = <<[vid |-> v, body |-> b]>> \o Erasure!Abstract!Without(Erasure!versions, v)
    BY <1>2, <1>6, <1>8, <2>3, <2>5
  <2>7. v # Null => \A i \in 1 .. Len(Erasure!versions) : Erasure!versions[i].vid # v
    BY <1>1, <1>8, ShownFacts
  <2>8. Erasure!Abstract!Write(v, b)
    BY <2>6, <2>7 DEF Erasure!Abstract!Write, Erasure!Null, Null
  <2> QED
    BY <1>5, <2>4, <2>8 DEF Erasure!Abstract!Next, Erasure!None, None
<1> QED
  BY <1>4, <1>7, <1>8 DEF EKnownStep

LEMMA EKnownListing == ~ EUnrecorded => EKnown = EListing
BY DEF EKnown, EListing

LEMMA EKnownSame ==
  ASSUME eHistory' = eHistory,
         Counts.epoch = 0 =>
           /\ Erasure!Latest(Erasure!Current)' = Erasure!Latest(Erasure!Current)
           /\ ~ EUnrecorded /\ ~ EUnrecorded',
         EBase
  PROVE  EKnownStep
<1>1. Counts' = Counts /\ Counts.epoch \in Nat
  BY CountsSame, CountsFacts
<1>2. Legacy(Erasure!Latest(Erasure!Current))' = Legacy(Erasure!Latest(Erasure!Current)')
  BY DEF Legacy
<1>3. EKnown' = EKnown
  <2>1. EKnown' = IF Counts'.epoch > 0 THEN Counts'.list
                  ELSE IF Erasure!Latest(Erasure!Current)' = None \/ EUnrecorded' THEN <<>>
                  ELSE Legacy(Erasure!Latest(Erasure!Current)')
    BY <1>2 DEF EKnown
  <2> QED
    BY <1>1, <2>1 DEF EKnown
<1> QED
  BY <1>3 DEF EKnownStep

\* A write without versioning, or a DELETE, leaves nothing of an object without a history.
LEMMA PlainWithout ==
  ASSUME EBase, Counts.epoch = 0
  PROVE  Abstract!Without(EKnown, Null) = <<>>
<1> DEFINE w == Erasure!Latest(Erasure!Current)
<1>1. EKnown = <<>> \/ EKnown = Legacy(w)
  BY DEF EKnown
<1> HIDE DEF w
<1>2. CASE EKnown = <<>>
  BY <1>2, WithoutEmpty
<1>3. CASE EKnown = Legacy(w)
  <2> DEFINE e == [vid |-> Null, marker |-> FALSE, w |-> w]
  <2>1. Legacy(w) = <<e>> /\ e.vid = Null
    BY DEF Legacy
  <2> HIDE DEF e
  <2>2. Abstract!Without(<<e>>, e.vid) = <<>>
    BY WithoutOnly
  <2> QED
    BY <1>3, <2>1, <2>2
<1> QED
  BY <1>1, <1>2, <1>3

LEMMA EKnownStore ==
  ASSUME EBase, EBase', ESmooth, Erasure!Store, eUpsets' = {}
  PROVE  EKnownStep
<1>1. /\ eTask.pc = "store" /\ eTask.op = "put" /\ eHistory' = eHistory
  BY DEF Erasure!Store, EBase, EControl
<1>2. CASE EPlain
  <2>1. Counts'.epoch = 0 /\ Erasure!Latest(Erasure!Current)' = eTally.ops
    BY <1>2, ESmoothStore
  <2>2. Counts.epoch = 0 /\ eTask.vid = Null /\ eTask.mode = "Off"
    BY <1>2, EPlainOwed DEF EPlain, EBase, EControl
  <2>3. ~ EUnrecorded'
    <3>1. eTask' = Erasure!Idle
      <4> DEFINE new == [d \in Erasure!Drives |-> [eSlot[d] EXCEPT ![Erasure!Current] = eTally.ops]]
      <4>1. Erasure!Pass(new, Erasure!Idle)
        BY <2>2 DEF Erasure!Store
      <4> QED
        BY <4>1 DEF Erasure!Pass, Erasure!Finish
    <3> QED
      BY <3>1, EIdleFacts DEF EUnrecorded
  <2>4. eTally.ops # None
    BY <1>1, EOpsFacts
  <2>5. EKnown' = Legacy(eTally.ops)
    <3>1. EKnown' = IF Counts'.epoch > 0 THEN Counts'.list
                    ELSE IF Erasure!Latest(Erasure!Current)' = None \/ EUnrecorded' THEN <<>>
                    ELSE Legacy(Erasure!Latest(Erasure!Current)')
      BY DEF EKnown, Legacy
    <3> QED
      BY <2>1, <2>3, <2>4, <3>1
  <2>6. Legacy(eTally.ops) = <<Added>>
    BY <1>1, <2>2 DEF Legacy, Added
  <2>7. <<Added>> \o <<>> = <<Added>>
    OBVIOUS
  <2>8. EKnown' = <<Added>> \o Abstract!Without(EKnown, eTask.vid)
    BY <2>2, <2>5, <2>6, <2>7, PlainWithout
  <2> QED
    BY <1>2, <2>2, <2>8 DEF EKnownStep, EPlain
<1>3. CASE ~ EPlain
  <2>1. ELoaded /\ eTask.mode # "Off"
    BY <1>1, <1>3 DEF ELoaded, EPlain, EAdding
  <2>2. eTask' = [eTask EXCEPT !.pc = "record"]
    <3> DEFINE t == [eTask EXCEPT !.pc = "record"]
               new == [d \in Erasure!Drives |-> [eSlot[d] EXCEPT ![Erasure!Current] = eTally.ops]]
    <3>1. Erasure!Pass(new, t)
      BY <2>1 DEF Erasure!Store
    <3>2. "cut" \notin eUpsets'
      OBVIOUS
    <3> HIDE DEF t, new
    <3> QED
      BY <3>1, <3>2 DEF Erasure!Pass, t
  <2>3. EUnrecorded' /\ ~ EUnrecorded
    <3>1. eTask'.op = eTask.op /\ eTask'.mode = eTask.mode /\ eTask'.pc = "record"
      BY <2>2, EGoesTo
    <3> QED
      BY <1>1, <2>1, <3>1 DEF EUnrecorded
  <2>4. Counts' = Counts
    BY <1>1, CountsSame
  <2>5. Counts.epoch = 0 => Erasure!Latest(Erasure!Current) = None
    BY <1>1, <2>1 DEF ESmooth, EUnborn
  <2>6. Counts.epoch \in Nat
    BY CountsFacts
  <2>7. EKnown' = EKnown
    <3>1. CASE Counts.epoch = 0
      BY <2>3, <2>4, <2>5, <3>1 DEF EKnown
    <3>2. CASE Counts.epoch # 0
      BY <2>4, <2>6, <3>2 DEF EKnown
    <3> QED
      BY <3>1, <3>2
  <2> QED
    BY <2>7 DEF EKnownStep
<1> QED
  BY <1>2, <1>3

LEMMA EKnownRecord ==
  ASSUME EBase, EBase', ESmooth, Erasure!Record, eUpsets' = {}
  PROVE  EKnownStep
<1>1. eTask.pc = "record" /\ Counts'.epoch > 0 /\ Counts'.list = Recorded
  BY ESmoothRecord DEF Erasure!Record
<1>2. /\ ELoaded /\ ~ EPlain /\ eTask.op # "none" /\ eTask.op \in {"none", "put", "delete", "remove"}
      /\ eTask.mode \in {"Off", "Enabled", "Suspended"}
  BY <1>1, EBaseTypes DEF EBase, EControl, ELoaded, Erasure!Task, Erasure!Modes
<1>3. EKnown' = Recorded
  BY <1>1 DEF EKnown
<1>4. eTask.pend = Abstract!Without(Counts.list, eTask.vid)
  BY <1>2 DEF ESmooth, EPlanned
<1>5. EKnown = Counts.list
  <2>1. CASE Counts.epoch = 0
    <3>1. Counts.list = <<>>
      BY <2>1, CountsFacts DEF Erasure!NoHistory
    <3>2. eTask.op # "remove" /\ (eTask.op # "put" => Erasure!Latest(Erasure!Current) = None)
      BY <1>1, <1>2, <2>1 DEF ESmooth, EUnborn
    <3>3. eTask.op = "put" => EUnrecorded
      BY <1>1, <1>2 DEF EUnrecorded, EPlain, EAdding
    <3> QED
      BY <2>1, <3>1, <3>2, <3>3 DEF EKnown
  <2>2. CASE Counts.epoch # 0
    <3>1. Counts.epoch > 0
      BY <2>2, CountsFacts
    <3> QED
      BY <3>1 DEF EKnown
  <2> QED
    BY <2>1, <2>2
<1>6. CASE eTask.op = "remove"
  BY <1>3, <1>4, <1>5, <1>6 DEF EKnownStep, Recorded
<1>7. CASE eTask.op # "remove"
  <2>1. EAdding
    BY <1>2, <1>7 DEF EAdding
  <2>2. eTask.vid # Null => \A i \in 1 .. Len(EKnown) : EKnown[i].vid # eTask.vid
    <3>1. eTask.vid # Null => eTask.mode = "Enabled"
      BY <2>1 DEF EBase, EControl
    <3> QED
      BY <1>5, <2>1, <3>1, CountsFacts
  <2>3. EKnown' = <<Added>> \o Abstract!Without(EKnown, eTask.vid)
    BY <1>3, <1>4, <1>5, <1>7 DEF Recorded
  <2> QED
    BY <2>1, <2>2, <2>3 DEF EKnownStep
<1> QED
  BY <1>6, <1>7

LEMMA EKnownWipe ==
  ASSUME EBase, EBase', ESmooth, Erasure!Wipe, eUpsets' = {}
  PROVE  EKnownStep
<1>1. /\ Counts'.epoch = 0 /\ Erasure!Latest(Erasure!Current)' = None /\ eTask.pc = "wipe"
      /\ ~ EPlain => eTask.op = "remove" /\ eTask.pend = <<>>
  BY ESmoothWipe DEF Erasure!Wipe
<1>2. EKnown' = <<>>
  BY <1>1 DEF EKnown
<1>3. CASE EPlain
  <2>1. Counts.epoch = 0 /\ eTask.vid = Null
    BY <1>3, EPlainOwed DEF EPlain, EBase, EControl
  <2> QED
    BY <1>2, <2>1, PlainWithout DEF EKnownStep
<1>4. CASE ~ EPlain
  <2>1. ELoaded /\ eTask.op = "remove"
    BY <1>1, <1>4 DEF ELoaded
  <2>2. <<>> = Abstract!Without(Counts.list, eTask.vid) /\ Counts.epoch # 0
    BY <1>1, <1>4, <2>1 DEF ESmooth, EPlanned, EUnborn
  <2>3. Counts.epoch > 0
    BY <2>2, CountsFacts
  <2>4. EKnown = Counts.list
    BY <2>3 DEF EKnown
  <2> QED
    BY <1>2, <2>2, <2>4 DEF EKnownStep
<1> QED
  BY <1>3, <1>4

\* The list stays, as the drives do or as there is a history.
LEMMA EKnownKeeps ==
  ASSUME EBase, EBase', ESmooth, eUpsets' = {}, Erasure!Drop \/ Erasure!Move
  PROVE  EKnownStep
<1>1. eTask.pc \in {"drop", "move"} /\ eHistory' = eHistory
  BY DEF Erasure!Drop, Erasure!Move
<1>2. ELoaded /\ ~ EUnrecorded
  BY <1>1 DEF ELoaded, EBase, EControl, EUnrecorded
<1>3. CASE Counts.epoch = 0
  <2>1. eTask.drop = Erasure!NoPlace /\ eTask.move = "stay"
    BY <1>2, <1>3 DEF ESmooth, EUnborn
  <2>2. /\ eSlot' = eSlot
        /\ eTask' \in {[eTask EXCEPT !.pc = "move"],
                       [eTask EXCEPT !.pc = IF eTask.op = "put" THEN "store"
                                  ELSE IF eTask.op = "remove" /\ eTask.pend = <<>> THEN "wipe"
                                  ELSE "record"]}
    BY <2>1 DEF Erasure!Drop, Erasure!Move
  <2>3. Erasure!Latest(Erasure!Current)' = Erasure!Latest(Erasure!Current)
    BY <2>2 DEF Erasure!Latest
  <2>4. ~ EUnrecorded'
    BY <2>2, EBaseTypes DEF EUnrecorded, EBase, Erasure!Task
  <2> QED
    BY <1>1, <1>2, <2>3, <2>4, EKnownSame
<1>4. CASE Counts.epoch # 0
  BY <1>1, <1>4, EKnownSame
<1> QED
  BY <1>3, <1>4

LEMMA ELoadsDrop ==
  ASSUME EBase, Erasure!Load, eTask' # Erasure!Idle
  PROVE  eTask'.pc = "drop"
<1> DEFINE h == Erasure!Newest(eUp)
           t == IF eTask.op = "remove" THEN Erasure!ForRemove(h.list) ELSE Erasure!ForWrite(h.list)
<1>1. /\ eTask' = [t EXCEPT !.epoch = h.epoch]
      /\ eTask.op = "remove" => Erasure!Position(h.list, eTask.vid) # 0
      /\ h.list \in Seq(Erasure!Entry) /\ SoundList(h.list, eTally.ops)
      /\ eTask.op # "remove" =>
            /\ EAdding /\ eTask.mode # "Off"
            /\ eTask.mode = "Enabled" => \A i \in 1 .. Len(h.list) : h.list[i].vid # eTask.vid
  BY ELoadedFacts
<1>2. t \in Erasure!Task /\ t.pc = "drop"
  <2>1. CASE eTask.op = "remove"
    <3>1. t = Erasure!ForRemove(h.list)
      BY <2>1
    <3> HIDE DEF t, h
    <3> QED
      BY <1>1, <2>1, <3>1, EForRemoveFacts
  <2>2. CASE eTask.op # "remove"
    <3>1. t = Erasure!ForWrite(h.list)
      BY <2>2
    <3> HIDE DEF t, h
    <3> QED
      BY <1>1, <2>2, <3>1, EForWriteFacts
  <2> QED
    BY <2>1, <2>2
<1> HIDE DEF t, h
<1> QED
  BY <1>1, <1>2 DEF Erasure!Task

LEMMA EKnownNext ==
  ASSUME EBase, EBase', ESmooth, EPending, Erasure!Next, eUpsets' = {}
  PROVE  EKnownStep
<1>0. CASE Erasure!GetSeeds
  <2>1. UNCHANGED <<eSlot, eHistory, eTask>>
    BY <1>0 DEF Erasure!GetSeeds
  <2>2. Counts' = Counts /\ Erasure!Latest(Erasure!Current)' = Erasure!Latest(Erasure!Current)
    BY <2>1, CountsSame DEF Erasure!Latest
  <2>3. EKnown' = EKnown
    BY <2>1, <2>2 DEF EKnown, EUnrecorded, Legacy
  <2> QED
    BY <2>3 DEF EKnownStep
<1>10. CASE Erasure!GetWrites
  <2>1. EListing' = EListing
    BY <1>10, ESmoothGets
  <2>2. eTask.pc = "idle" /\ eTask' = eTask
    BY <1>10 DEF Erasure!GetWrites, EPending
  <2>3. ~ EUnrecorded /\ ~ EUnrecorded'
    BY <2>2 DEF EUnrecorded
  <2>4. EKnown' = EListing'
    BY <2>3 DEF EKnown, EListing
  <2>5. EKnown' = EKnown
    BY <2>1, <2>3, <2>4, EKnownListing
  <2> QED
    BY <2>5 DEF EKnownStep
<1>1. CASE (\E m \in Erasure!Modes : Erasure!SetVersioning(m)) \/ (\E d \in Erasure!Drives : Erasure!Flip(d))
  <2>1. UNCHANGED <<eSlot, eHistory, eTask>>
    BY <1>1 DEF Erasure!SetVersioning, Erasure!Flip
  <2>2. Counts' = Counts /\ Erasure!Latest(Erasure!Current)' = Erasure!Latest(Erasure!Current)
    BY <2>1, CountsSame DEF Erasure!Latest
  <2>3. EKnown' = EKnown
    BY <2>1, <2>2 DEF EKnown, EUnrecorded, Legacy
  <2> QED
    BY <2>3 DEF EKnownStep
<1>2. CASE \/ Erasure!BeginPut \/ Erasure!BeginDelete
           \/ \E v \in Erasure!Vids : v <= eTally.ops /\ Erasure!BeginRemove(v)
  <2>1. \E o, v : \E q \in {"seed", "store", "wipe"} : Erasure!Begin(o, v, q)
    BY <1>2 DEF Erasure!BeginPut, Erasure!BeginDelete, Erasure!BeginRemove
  <2>2. PICK o, v : \E q \in {"seed", "store", "wipe"} : Erasure!Begin(o, v, q)
    BY <2>1
  <2>3. PICK q \in {"seed", "store", "wipe"} : Erasure!Begin(o, v, q)
    BY <2>2
  <2>4. UNCHANGED <<eSlot, eHistory>> /\ eTask.pc = "idle" /\ eTask'.pc # "record"
    BY <2>3, EBegun
  <2>5. Erasure!Latest(Erasure!Current)' = Erasure!Latest(Erasure!Current)
    BY <2>4 DEF Erasure!Latest
  <2>6. ~ EUnrecorded /\ ~ EUnrecorded'
    BY <2>4 DEF EUnrecorded
  <2> QED
    BY <2>4, <2>5, <2>6, EKnownSame
<1>3. CASE Erasure!Seed
  <2>1. EListing' = EListing
    BY <1>3, ESmoothSeed
  <2>2. eTask.pc = "seed" /\ eTask' = [eTask EXCEPT !.pc = "load"]
    BY <1>3 DEF Erasure!Seed
  <2>3. ~ EUnrecorded /\ ~ EUnrecorded'
    BY <2>2, EGoesTo DEF EUnrecorded
  <2>4. EKnown' = EListing'
    BY <2>3 DEF EKnown, EListing
  <2>5. EKnown' = EKnown
    BY <2>1, <2>3, <2>4, EKnownListing
  <2> QED
    BY <2>5 DEF EKnownStep
<1>4. CASE Erasure!Load
  <2>1. UNCHANGED <<eSlot, eHistory>> /\ eTask.pc = "load" /\ eTask'.pc \in {"idle", "drop"}
    <3>1. UNCHANGED <<eSlot, eHistory>> /\ eTask.pc = "load"
      BY <1>4 DEF Erasure!Load
    <3>2. CASE eTask' = Erasure!Idle
      BY <3>1, <3>2, EIdleFacts
    <3>3. CASE eTask' # Erasure!Idle
      BY <1>4, <3>1, <3>3, ELoadsDrop
    <3> QED
      BY <3>2, <3>3
  <2>2. Erasure!Latest(Erasure!Current)' = Erasure!Latest(Erasure!Current)
    BY <2>1 DEF Erasure!Latest
  <2>3. ~ EUnrecorded /\ ~ EUnrecorded'
    BY <2>1 DEF EUnrecorded
  <2> QED
    BY <2>1, <2>2, <2>3, EKnownSame
<1>5. CASE Erasure!Drop \/ Erasure!Move
  BY <1>5, EKnownKeeps
<1>6. CASE Erasure!Store
  BY <1>6, EKnownStore
<1>7. CASE Erasure!Record
  BY <1>7, EKnownRecord
<1>8. CASE Erasure!Wipe
  BY <1>8, EKnownWipe
<1>9. CASE Erasure!StoreFails \/ Erasure!BodyFails \/ Erasure!Abandon
  <2>1. UNCHANGED <<eSlot, eHistory>> /\ eTask' = Erasure!Idle /\ eTask.pc # "record"
    BY <1>9, ESmoothCut
  <2>2. Erasure!Latest(Erasure!Current)' = Erasure!Latest(Erasure!Current)
    BY <2>1 DEF Erasure!Latest
  <2>3. ~ EUnrecorded /\ ~ EUnrecorded'
    BY <2>1, EIdleFacts DEF EUnrecorded
  <2> QED
    BY <2>1, <2>2, <2>3, EKnownSame
<1> QED
  BY <1>0, <1>1, <1>2, <1>3, <1>4, <1>5, <1>6, <1>7, <1>8, <1>9, <1>10
     DEF Erasure!Next, Erasure!OperationStep, Erasure!Modes

\* ErasureVersions, versions: until something goes wrong that the operations do
\* not undo, what the drives tell of the key is a versioned key (storage/mod.rs,
\* the versioned operations), with any drives down or stale: a write or a marker
\* becomes the current version, in the place of the one it takes over, when the
\* history is recorded, or when the shards are where there is none, and a removal
\* takes one version out.
THEOREM ErasureVersionsRefine == MCSpec => ErasureImplementsVersionedKey
<1>1. MCInit => Erasure!Abstract!Init
  <2>1. SUFFICES ASSUME Erasure!Init PROVE Erasure!versions = <<>>
    BY DEF MCInit, Erasure!Abstract!Init
  <2>2. EBase /\ Erasure!versions = ShownAll(EKnown)
    BY <2>1, EBaseInit, EKnownFacts
  <2>3. Erasure!versions = <<>>
    <3>1. /\ eHistory = [d \in Erasure!Drives |-> Erasure!NoHistory]
          /\ eSlot = [d \in Erasure!Drives |-> Erasure!Empty]
      BY <2>1 DEF Erasure!Init
    <3>2. Counts.epoch = 0
      BY <2>2, <3>1, CountsHighest DEF EBase, Erasure!NoHistory
    <3>3. Erasure!Latest(Erasure!Current) = None
      <4>1. PICK d \in Erasure!Drives : Erasure!Latest(Erasure!Current) = eSlot[d][Erasure!Current]
        BY <2>2, CurrentLatest DEF EBase
      <4> QED
        BY <3>1, <4>1, EPlaceFacts DEF Erasure!Empty, Erasure!None, None
    <3> QED
      BY <3>2, <3>3 DEF Erasure!versions, Counts, Erasure!None, None
  <2> QED
    BY <2>3
<1>2. ASSUME EBase, EBase', ESmoothInv, [MCNext]_<<vars, backend, eVars>>,
             eVars' # eVars, eUpsets' = {}, Erasure!versions' # Erasure!versions
      PROVE  Erasure!Abstract!Next
  <2>1. Erasure!Next
    BY <1>2 DEF MCNext
  <2>2. eUpsets = {}
    BY <1>2, <2>1, EUpsetsGrow
  <2>3. EKnownStep
    BY <1>2, <2>1, <2>2, EKnownNext DEF ESmoothInv
  <2> QED
    BY <1>2, <2>3, EKnownImplements
<1>3. EBase /\ EBase' /\ ESmoothInv /\ [MCNext]_<<vars, backend, eVars>>
        => [(backend = "erasure" /\ eUpsets' = {} /\ Erasure!versions' # Erasure!versions)
              => Erasure!Abstract!Next]_eVars
  BY <1>2
<1> QED
  BY <1>1, <1>3, ESmoothInductive, PTL DEF MCSpec, ErasureImplementsVersionedKey
===============================================================================
