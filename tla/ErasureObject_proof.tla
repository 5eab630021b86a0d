-------------------------- MODULE ErasureObject_proof --------------------------
(***************************************************************************)
(* One erasure-coded object, for any number of drives, blocks, writes,      *)
(* heals, GETs and faults.                                                  *)
(*                                                                         *)
(* What makes stale drives harmless is a count: when a write has been       *)
(* acknowledged, at most N - (K + 1) drives hold a shard older than it, and  *)
(* no step puts an older shard back.  K shards of an older write are then   *)
(* not to be had as long as N - (K + 1) < K, that is, as long as parity is  *)
(* no larger than data.  A heal or a GET counts shards drive by drive while *)
(* the drives change under it, so the count is an invariant of the loop:    *)
(* the shards found so far and those the loop has still to come to.         *)
(***************************************************************************)
EXTENDS ErasureObject, FiniteSetTheorems, TLAPS

\* Parity is no larger than data.  It is unless ERASURE_PARITY says otherwise: the
\* default is half the drives, rounded down (main.rs, 368 and 409).
ParityWithinData == N <= 2 * K

Dir == [part : Numbers, rot : SUBSET Blocks, meta : Numbers \cup {Torn}, tmp : Numbers, htmp : Numbers]

\* Iterations of a loop over the shards of every block.
Last == N * shape.blocks

\* The types, and the bounds the loops keep.
DiskTypes ==
  /\ shape \in Shapes /\ disk \in [Drives -> Dir] /\ up \in [Drives -> BOOLEAN]
  /\ faults \in 0 .. shape.faults

WriterTypes ==
  /\ wpc \in {"idle", "stage", "publish", "seal", "sealing", "decide", "rollback", "delete"}
  /\ wat \in Drives /\ cur \in Numbers /\ ok \in SUBSET Drives

HealerTypes ==
  /\ hpc \in {"idle", "find", "metas", "scan", "judge", "create", "rebuild", "rename", "meta", "metafill"}
  /\ hat \in 1 .. Last /\ hmeta \in Numbers
  /\ badPart \in SUBSET Drives /\ badMeta \in SUBSET Drives
  /\ good \in 0 .. N /\ fewest \in 0 .. N /\ heals \in 0 .. shape.heals
  /\ hpc \in {"find", "metas", "create", "rename", "meta", "metafill"} => hat \in Drives
  /\ hpc \notin {"idle", "find"} => hmeta \in Writes
  /\ hpc # "idle" => healed = "none"
  /\ hpc \in {"idle", "find"} => badPart = {} /\ badMeta = {}
  /\ hpc = "metas" => badPart = {}
  /\ hpc \in {"idle", "find", "metas", "judge", "create"} => good = 0
  /\ hpc \in {"idle", "find", "metas"} => fewest = N
  /\ hpc \in {"idle", "judge"} => hat = 1
  /\ hpc = "scan" => good < DriveOf(hat)
  /\ hpc = "rebuild" => good < DriveOf(hat)

ReaderTypes ==
  /\ rpc \in {"idle", "find", "read", "whole", "short", "nokey"}
  /\ rat \in 1 .. Last /\ rmeta \in Numbers /\ rgood \in 0 .. N
  /\ reads \in 0 .. shape.reads
  /\ rpc = "find" => rat \in Drives /\ rgood = 0
  /\ rpc = "read" => rgood < DriveOf(rat) /\ rmeta \in Writes

SeenTypes ==
  /\ acked \in Numbers /\ rlow \in Numbers /\ calm \in BOOLEAN
  /\ placed \in SUBSET Drives /\ sound \in SUBSET Drives /\ spared \in SUBSET Drives

Types == DiskTypes /\ WriterTypes /\ HealerTypes /\ ReaderTypes /\ SeenTypes

-----------------------------------------------------------------------------
(* A heal that nothing disturbs.                                            *)

\* Drive d holds a whole shard of the write that is being healed.
Sound(d) == disk[d].part = hmeta /\ disk[d].rot = {}

\* The healer's temporary files hold shards of the write that is being healed.
Rebuilt ==
  /\ hpc = "create" => \A d \in badPart : d < hat => disk[d].htmp \in {hmeta, None}
  /\ hpc \in {"rebuild", "rename"} => \A d \in badPart : disk[d].htmp \in {hmeta, None}

\* What has been scanned and not found bad is good, and what was repaired is too.
Mended ==
  calm =>
    /\ hpc = "metas" => \A d \in Drives \ badMeta : d < hat => disk[d].meta \in Writes
    /\ hpc \in {"scan", "judge", "create", "rebuild", "rename"} =>
         \A d \in Drives \ badMeta : disk[d].meta \in Writes
    /\ hpc = "scan" =>
         \A i \in 1 .. hat - 1 : DriveOf(i) \notin badPart =>
           disk[DriveOf(i)].part = hmeta /\ BlockOf(i) \notin disk[DriveOf(i)].rot
    /\ hpc \in {"judge", "create", "rebuild", "rename"} => \A d \in Drives \ badPart : Sound(d)
    /\ hpc = "rename" => \A d \in badPart : d < hat => Sound(d)
    /\ hpc \in {"meta", "metafill"} =>
         /\ \A d \in Drives : Sound(d)
         /\ \A d \in Drives : d < hat \/ d \notin badPart \cup badMeta => disk[d].meta \in Writes
    /\ hpc = "idle" /\ healed \in {"healthy", "healed"} =>
         \A d \in Drives : Sound(d) /\ disk[d].meta \in Writes

HealInv == Types /\ Rebuilt /\ Mended

-----------------------------------------------------------------------------
(* What an acknowledged write leaves behind.                                *)

\* The drives with a shard older than write w.
Old(w) == {d \in Drives : disk[d].part # None /\ disk[d].part < w}

\* The older shards the loop at iteration i has still to come to in its block.
Ahead(w, i) == {d \in Old(w) : d >= DriveOf(i)}

\* n shards are too few to leave room for a write quorum beside them.
Spare(n) == n + WriteQuorum <= N

\* Writes are numbered in order.
Order ==
  /\ acked <= cur /\ rlow <= acked /\ hmeta <= cur
  /\ \A d \in Drives : disk[d].meta <= cur \/ disk[d].meta = Torn

\* What the PUT has done on the drives where it has not failed.
Written ==
  \A d \in ok :
    /\ (wpc = "stage" /\ d < wat) \/ (wpc = "publish" /\ d >= wat) =>
         disk[d].tmp \in {cur, None} /\ (d \in sound => disk[d].tmp = cur)
    /\ (wpc = "publish" /\ d < wat) \/ wpc \in {"seal", "sealing", "decide"} =>
         disk[d].part \in {cur, None} /\ (d \in sound => disk[d].part = cur /\ disk[d].rot = {})
    /\ (wpc \in {"seal", "sealing"} /\ d < wat) \/ wpc = "decide" =>
         (d \in sound => disk[d].meta = cur)

\* Few drives hold a shard older than the acknowledged write.
Few == Spare(Cardinality(Old(acked)))

\* A heal of an older write finds too few shards of it.
Scanned ==
  /\ hpc = "scan" /\ hmeta < acked =>
       /\ Spare(good + Cardinality(Ahead(acked, hat)))
       /\ hat > N => Spare(fewest)
  /\ hpc = "scan" /\ badPart = {} => good = DriveOf(hat) - 1 /\ fewest = N
  /\ hpc = "judge" /\ hmeta < acked => Spare(fewest)
  /\ hpc = "judge" /\ badPart = {} => fewest = N
  /\ hpc \in {"create", "rebuild", "rename", "meta", "metafill"} => hmeta >= acked

\* So does a GET of a write older than the one acknowledged when it began.
Gathered ==
  /\ rpc = "read" /\ rmeta < rlow => Spare(rgood + Cardinality(Ahead(rlow, rat)))
  /\ rpc = "whole" => rmeta >= rlow

\* Until a writer disturbs it, nothing newer than the acknowledged write is there.
Latest ==
  placed # {} =>
    /\ hpc \notin {"idle", "find"} => hmeta <= acked
    /\ \A d \in Drives : disk[d].meta <= acked \/ disk[d].meta = Torn

\* A quorum of drives has the acknowledged write, or has been hurt since.
Quorate == placed # {} => Cardinality(placed \cup (Drives \ spared)) >= WriteQuorum

\* Durable, of behaviours in which no heal has overlapped a writer's changes.
Kept ==
  \A d \in placed : /\ disk[d].part = acked /\ disk[d].rot = {}
                    /\ disk[d].meta \in {acked, Torn}

\* What holds until a heal overlaps a writer's changes.
StoreInv ==
  Types /\ Apart /\ Rebuilt /\ Order /\ Written /\ Few /\ Scanned /\ Gathered /\ Latest /\ Kept /\ Quorate

Uncrossed == ~ crossed => StoreInv

-----------------------------------------------------------------------------
(* Numbers, loops and counts.                                               *)

LEMMA ConstFacts ==
  /\ N \in Nat /\ K \in Nat \ {0} /\ N > K /\ MaxWrites \in Nat /\ WriteQuorum \in Nat
  /\ 1 \in Drives /\ N \in Drives /\ Drives \subseteq Nat
  /\ Numbers = 0 .. MaxWrites /\ Writes \subseteq Numbers /\ None \in Numbers /\ None \notin Writes
  /\ Torn \in Nat /\ Torn \notin Numbers /\ Torn \notin Writes
BY ShapeAssumption, BoundsAssumption DEF WriteQuorum, Drives, Numbers, Writes, None, Torn

LEMMA DrivesFinite ==
  /\ IsFiniteSet(Drives) /\ Cardinality(Drives) = N
  /\ \A S \in SUBSET Drives : IsFiniteSet(S) /\ Cardinality(S) \in Nat /\ Cardinality(S) <= N
<1>1. N \in Int /\ 1 \in Int
  BY ConstFacts
<1>2. IsFiniteSet(1 .. N) /\ Cardinality(1 .. N) = IF 1 > N THEN 0 ELSE N - 1 + 1
  BY <1>1, FS_Interval
<1>3. IsFiniteSet(Drives) /\ Cardinality(Drives) = N
  BY <1>2, ConstFacts DEF Drives
<1> QED
  BY <1>3, FS_Subset, FS_CardinalityType

\* Quotient and remainder are unique.
LEMMA DivMod ==
  ASSUME NEW q \in Nat, NEW r \in 0 .. N - 1
  PROVE  (N * q + r) \div N = q /\ (N * q + r) % N = r
<1> DEFINE a == N * q + r
<1>1. N \in Nat /\ N > 0 /\ a \in Nat
  BY ConstFacts
<1> DEFINE p == a \div N
           s == a % N
<1>2. p \in Nat /\ s \in 0 .. N - 1 /\ a = N * p + s
  BY <1>1
<1>3. N * q + r = N * p + s
  BY <1>2
<1> HIDE DEF p, s, a
<1>4. CASE q < p
  <2>1. PICK k \in Nat : p = q + 1 + k
    <3>1. p - q - 1 \in Nat /\ p = q + 1 + (p - q - 1)
      BY <1>2, <1>4
    <3> QED
      BY <3>1
  <2>2. N * p = N * q + N + N * k
    BY <1>1, <2>1
  <2>3. N * k \in Nat /\ N * q \in Nat
    BY <1>1
  <2> QED
    BY <1>1, <1>2, <1>3, <2>2, <2>3
<1>5. CASE p < q
  <2>1. PICK k \in Nat : q = p + 1 + k
    <3>1. q - p - 1 \in Nat /\ q = p + 1 + (q - p - 1)
      BY <1>2, <1>5
    <3> QED
      BY <3>1
  <2>2. N * q = N * p + N + N * k
    BY <1>1, <1>2, <2>1
  <2>3. N * k \in Nat /\ N * p \in Nat
    BY <1>1, <1>2
  <2> QED
    BY <1>1, <1>2, <1>3, <2>2, <2>3
<1>6. CASE p = q
  <2>1. N * p = N * q /\ N * q \in Nat
    BY <1>1, <1>6
  <2>2. s = r
    BY <1>2, <1>3, <2>1
  <2> QED
    BY <1>6, <2>2 DEF a, p, s
<1> QED
  BY <1>2, <1>4, <1>5, <1>6

\* Iteration i of a loop over the shards of b blocks.
LEMMA LoopFacts ==
  ASSUME NEW b \in Nat \ {0}, NEW i \in 1 .. N * b
  PROVE  /\ DriveOf(i) \in Drives /\ BlockOf(i) \in 1 .. b
         /\ i <= N => DriveOf(i) = i
         /\ DriveOf(i) = N => i >= N /\ DriveOf(i + 1) = 1
         /\ DriveOf(i) < N => i < N * b /\ DriveOf(i + 1) = DriveOf(i) + 1
<1>1. N \in Nat /\ N > 0 /\ N * b \in Nat
  BY ConstFacts
<1> DEFINE q == (i - 1) \div N
           r == (i - 1) % N
<1>2. q \in Nat /\ r \in 0 .. N - 1 /\ i - 1 = N * q + r
  BY <1>1
<1>3. DriveOf(i) = r + 1 /\ BlockOf(i) = q + 1
  BY DEF DriveOf, BlockOf
<1> HIDE DEF q, r
<1>4. q < b
  <2> SUFFICES ASSUME q >= b PROVE FALSE
    BY <1>2
  <2>1. PICK k \in Nat : q = b + k
    <3>1. q - b \in Nat /\ q = b + (q - b)
      BY <1>2
    <3> QED
      BY <3>1
  <2>2. N * q = N * b + N * k /\ N * k \in Nat
    BY <1>1, <2>1
  <2> QED
    BY <1>1, <1>2, <2>2
<1>5. ASSUME i <= N PROVE DriveOf(i) = i
  <2>1. q = 0
    <3> SUFFICES ASSUME q >= 1 PROVE FALSE
      BY <1>2
    <3>1. PICK k \in Nat : q = 1 + k
      <4>1. q - 1 \in Nat /\ q = 1 + (q - 1)
        BY <1>2
      <4> QED
        BY <4>1
    <3>2. N * q = N + N * k /\ N * k \in Nat
      BY <1>1, <3>1
    <3> QED
      BY <1>1, <1>2, <1>5, <3>2
  <2>2. N * q = 0
    BY <1>1, <2>1
  <2> QED
    BY <1>2, <1>3, <2>2
<1>6. ASSUME DriveOf(i) = N PROVE i >= N /\ DriveOf(i + 1) = 1
  <2>1. r = N - 1 /\ N * q \in Nat
    BY <1>1, <1>2, <1>3, <1>6
  <2>2. i = N * q + N
    BY <1>1, <1>2, <2>1
  <2>3. q + 1 \in Nat /\ 0 \in 0 .. N - 1 /\ N * (q + 1) + 0 = i
    BY <1>1, <1>2, <2>2
  <2>4. i % N = 0
    BY <2>3, DivMod
  <2>5. (i + 1) - 1 = i
    OBVIOUS
  <2> QED
    BY <1>1, <2>1, <2>2, <2>4, <2>5 DEF DriveOf
<1>7. ASSUME DriveOf(i) < N PROVE i < N * b /\ DriveOf(i + 1) = DriveOf(i) + 1
  <2>1. r + 1 \in 0 .. N - 1 /\ N * q + (r + 1) = i /\ N * q \in Nat
    BY <1>1, <1>2, <1>3, <1>7
  <2>2. i % N = r + 1
    BY <1>2, <2>1, DivMod
  <2>3. (i + 1) - 1 = i
    OBVIOUS
  <2>4. i # N * b
    <3> SUFFICES ASSUME i = N * b PROVE FALSE
      OBVIOUS
    <3>1. (N * b + 0) % N = 0
      BY <1>1, DivMod
    <3>2. N * b + 0 = i
      BY <1>1
    <3> QED
      BY <2>2, <1>2, <3>1, <3>2
  <2> QED
    BY <1>1, <1>3, <2>2, <2>3, <2>4 DEF DriveOf
<1> QED
  BY <1>1, <1>2, <1>3, <1>4, <1>5, <1>6, <1>7 DEF Drives

\* The loop comes to every shard of every block.
LEMMA LoopCovers ==
  ASSUME NEW b \in Nat \ {0}, NEW d \in Drives, NEW k \in 1 .. b
  PROVE  \E i \in 1 .. N * b : DriveOf(i) = d /\ BlockOf(i) = k
<1> DEFINE i == N * (k - 1) + (d - 1) + 1
<1>1. N \in Nat /\ d \in 1 .. N /\ k - 1 \in Nat /\ d - 1 \in 0 .. N - 1
  BY ConstFacts DEF Drives
<1>2. i - 1 = N * (k - 1) + (d - 1) /\ N * (k - 1) \in Nat
  BY <1>1
<1>3. (i - 1) \div N = k - 1 /\ (i - 1) % N = d - 1
  BY <1>1, <1>2, DivMod
<1>4. i \in 1 .. N * b
  <2>1. PICK j \in Nat : b = k + j
    <3>1. b - k \in Nat /\ b = k + (b - k)
      OBVIOUS
    <3> QED
      BY <3>1
  <2>2. N * b = N * (k - 1) + N + N * j /\ N * j \in Nat
    BY <1>1, <2>1
  <2> QED
    BY <1>1, <1>2, <2>2
<1> HIDE DEF i
<1>5. DriveOf(i) = d /\ BlockOf(i) = k
  BY <1>1, <1>3 DEF DriveOf, BlockOf
<1> QED
  BY <1>4, <1>5

-----------------------------------------------------------------------------
(* What each step writes to the drives.                                     *)

LEMMA DirFields ==
  ASSUME Types, NEW d \in Drives
  PROVE  /\ disk[d].part \in Numbers /\ disk[d].rot \in SUBSET Blocks
         /\ disk[d].meta \in Numbers \cup {Torn}
         /\ disk[d].tmp \in Numbers /\ disk[d].htmp \in Numbers
BY DEF Types, DiskTypes, Dir

LEMMA BlankFields ==
  /\ Blank.part = None /\ Blank.rot = {} /\ Blank.meta = None
  /\ Blank.tmp = None /\ Blank.htmp = None /\ Blank \in Dir
BY ConstFacts DEF Blank, Dir

\* Nothing is written.
Same(d) == disk'[d] = disk[d]

LEMMA StageWrites ==
  ASSUME Types, Stage
  PROVE  /\ disk' \in [Drives -> Dir] /\ wat \in Drives
         /\ \A d \in Drives : d # wat \/ ~ (up[wat]) => Same(d)
         /\ up[wat] =>
              /\ disk'[wat].tmp = cur
              /\ disk'[wat].part = disk[wat].part /\ disk'[wat].rot = disk[wat].rot /\ disk'[wat].meta = disk[wat].meta /\ disk'[wat].htmp = disk[wat].htmp
<1> DEFINE x == [disk[wat] EXCEPT !.tmp = cur]
<1>1. wat \in Drives /\ disk \in [Drives -> Dir] /\ cur \in Numbers
  BY ConstFacts DEF Types, DiskTypes, WriterTypes, HealerTypes, Dir
<1>2. ASSUME up[wat]
      PROVE  /\ x \in Dir
             /\ x.tmp = cur
             /\ x.part = disk[wat].part /\ x.rot = disk[wat].rot /\ x.meta = disk[wat].meta /\ x.htmp = disk[wat].htmp
  BY <1>1, <1>2, ConstFacts DEF Dir
<1>3. disk' = IF up[wat] THEN [disk EXCEPT ![wat] = x] ELSE disk
  BY DEF Stage
<1> HIDE DEF x
<1> QED
  BY <1>1, <1>2, <1>3 DEF Same

LEMMA PublishWrites ==
  ASSUME Types, Publish
  PROVE  /\ disk' \in [Drives -> Dir] /\ wat \in Drives
         /\ \A d \in Drives : d # wat \/ ~ (wat \in ok /\ up[wat] /\ disk[wat].tmp # None) => Same(d)
         /\ wat \in ok /\ up[wat] /\ disk[wat].tmp # None =>
              /\ disk'[wat].part = disk[wat].tmp /\ disk'[wat].rot = {} /\ disk'[wat].tmp = None
              /\ disk'[wat].meta = disk[wat].meta /\ disk'[wat].htmp = disk[wat].htmp
<1> DEFINE x == [disk[wat] EXCEPT !.part = disk[wat].tmp, !.rot = {}, !.tmp = None]
<1>1. wat \in Drives /\ disk \in [Drives -> Dir]
  BY ConstFacts DEF Types, DiskTypes, WriterTypes, HealerTypes, Dir
<1>2. ASSUME wat \in ok /\ up[wat] /\ disk[wat].tmp # None
      PROVE  /\ x \in Dir
             /\ x.part = disk[wat].tmp /\ x.rot = {} /\ x.tmp = None
             /\ x.meta = disk[wat].meta /\ x.htmp = disk[wat].htmp
  BY <1>1, <1>2, ConstFacts DEF Dir
<1>3. disk' = IF wat \in ok /\ up[wat] /\ disk[wat].tmp # None THEN [disk EXCEPT ![wat] = x] ELSE disk
  BY DEF Publish
<1> HIDE DEF x
<1> QED
  BY <1>1, <1>2, <1>3 DEF Same

LEMMA SealWrites ==
  ASSUME Types, Seal
  PROVE  /\ disk' \in [Drives -> Dir] /\ wat \in Drives
         /\ \A d \in Drives : d # wat \/ ~ (wat \in ok /\ up[wat]) => Same(d)
         /\ wat \in ok /\ up[wat] =>
              /\ disk'[wat].meta = Torn
              /\ disk'[wat].part = disk[wat].part /\ disk'[wat].rot = disk[wat].rot /\ disk'[wat].tmp = disk[wat].tmp /\ disk'[wat].htmp = disk[wat].htmp
<1> DEFINE x == [disk[wat] EXCEPT !.meta = Torn]
<1>1. wat \in Drives /\ disk \in [Drives -> Dir]
  BY ConstFacts DEF Types, DiskTypes, WriterTypes, HealerTypes, Dir
<1>2. ASSUME wat \in ok /\ up[wat]
      PROVE  /\ x \in Dir
             /\ x.meta = Torn
             /\ x.part = disk[wat].part /\ x.rot = disk[wat].rot /\ x.tmp = disk[wat].tmp /\ x.htmp = disk[wat].htmp
  BY <1>1, <1>2, ConstFacts DEF Dir
<1>3. disk' = IF wat \in ok /\ up[wat] THEN [disk EXCEPT ![wat] = x] ELSE disk
  BY DEF Seal
<1> HIDE DEF x
<1> QED
  BY <1>1, <1>2, <1>3 DEF Same

LEMMA SealFillWrites ==
  ASSUME Types, SealFill
  PROVE  /\ disk' \in [Drives -> Dir] /\ wat \in Drives
         /\ \A d \in Drives : d # wat \/ ~ (up[wat]) => Same(d)
         /\ up[wat] =>
              /\ disk'[wat].meta = cur
              /\ disk'[wat].part = disk[wat].part /\ disk'[wat].rot = disk[wat].rot /\ disk'[wat].tmp = disk[wat].tmp /\ disk'[wat].htmp = disk[wat].htmp
<1> DEFINE x == [disk[wat] EXCEPT !.meta = cur]
<1>1. wat \in Drives /\ disk \in [Drives -> Dir] /\ cur \in Numbers
  BY ConstFacts DEF Types, DiskTypes, WriterTypes, HealerTypes, Dir
<1>2. ASSUME up[wat]
      PROVE  /\ x \in Dir
             /\ x.meta = cur
             /\ x.part = disk[wat].part /\ x.rot = disk[wat].rot /\ x.tmp = disk[wat].tmp /\ x.htmp = disk[wat].htmp
  BY <1>1, <1>2, ConstFacts DEF Dir
<1>3. disk' = IF up[wat] THEN [disk EXCEPT ![wat] = x] ELSE disk
  BY DEF SealFill
<1> HIDE DEF x
<1> QED
  BY <1>1, <1>2, <1>3 DEF Same

LEMMA RemoveWrites ==
  ASSUME Types, RemoveDir
  PROVE  /\ disk' \in [Drives -> Dir] /\ wat \in Drives
         /\ \A e \in Drives : e # wat \/ ~ up[wat] => Same(e)
         /\ up[wat] => disk'[wat] = Blank
<1>1. wat \in Drives /\ disk \in [Drives -> Dir]
  BY DEF Types, DiskTypes, WriterTypes, HealerTypes, Dir
<1> QED
  BY <1>1, BlankFields DEF RemoveDir, Same

LEMMA HealCreateWrites ==
  ASSUME Types, HealCreate
  PROVE  /\ disk' \in [Drives -> Dir] /\ hat \in Drives
         /\ \A e \in Drives : e # hat \/ ~ (hat \in badPart /\ up[hat]) => Same(e)
         /\ hat \in badPart /\ up[hat] =>
              /\ disk'[hat].htmp = hmeta
              /\ disk'[hat].part = disk[hat].part /\ disk'[hat].rot = disk[hat].rot /\ disk'[hat].meta = disk[hat].meta /\ disk'[hat].tmp = disk[hat].tmp
<1> DEFINE x == [disk[hat] EXCEPT !.htmp = hmeta]
<1>1. hat \in Drives /\ disk \in [Drives -> Dir] /\ hmeta \in Numbers
  BY ConstFacts DEF Types, DiskTypes, WriterTypes, HealerTypes, Dir, HealCreate
<1>2. ASSUME hat \in badPart /\ up[hat]
      PROVE  /\ x \in Dir
             /\ x.htmp = hmeta
             /\ x.part = disk[hat].part /\ x.rot = disk[hat].rot /\ x.meta = disk[hat].meta /\ x.tmp = disk[hat].tmp
  BY <1>1, <1>2, ConstFacts DEF Dir
<1>3. disk' = IF hat \in badPart /\ up[hat] THEN [disk EXCEPT ![hat] = x] ELSE disk
  BY <1>1 DEF HealCreate
<1> HIDE DEF x
<1> QED
  BY <1>1, <1>2, <1>3 DEF Same

LEMMA HealRenameWrites ==
  ASSUME Types, HealRename
  PROVE  /\ disk' \in [Drives -> Dir] /\ hat \in Drives
         /\ \A e \in Drives : e # hat \/ ~ (hat \in badPart /\ up[hat] /\ disk[hat].htmp # None) => Same(e)
         /\ hat \in badPart /\ up[hat] /\ disk[hat].htmp # None =>
              /\ disk'[hat].part = disk[hat].htmp /\ disk'[hat].rot = {} /\ disk'[hat].htmp = None
              /\ disk'[hat].meta = disk[hat].meta /\ disk'[hat].tmp = disk[hat].tmp
<1> DEFINE x == [disk[hat] EXCEPT !.part = disk[hat].htmp, !.rot = {}, !.htmp = None]
<1>1. hat \in Drives /\ disk \in [Drives -> Dir]
  BY ConstFacts DEF Types, DiskTypes, WriterTypes, HealerTypes, Dir, HealRename
<1>2. ASSUME hat \in badPart /\ up[hat] /\ disk[hat].htmp # None
      PROVE  /\ x \in Dir
             /\ x.part = disk[hat].htmp /\ x.rot = {} /\ x.htmp = None
             /\ x.meta = disk[hat].meta /\ x.tmp = disk[hat].tmp
  BY <1>1, <1>2, ConstFacts DEF Dir
<1>3. disk' = IF hat \in badPart /\ up[hat] /\ disk[hat].htmp # None THEN [disk EXCEPT ![hat] = x] ELSE disk
  BY <1>1 DEF HealRename
<1> HIDE DEF x
<1> QED
  BY <1>1, <1>2, <1>3 DEF Same

LEMMA HealMetaWrites ==
  ASSUME Types, HealMeta
  PROVE  /\ disk' \in [Drives -> Dir] /\ hat \in Drives
         /\ \A e \in Drives : e # hat \/ ~ (hat \in badPart \cup badMeta /\ up[hat]) => Same(e)
         /\ hat \in badPart \cup badMeta /\ up[hat] =>
              /\ disk'[hat].meta = Torn
              /\ disk'[hat].part = disk[hat].part /\ disk'[hat].rot = disk[hat].rot /\ disk'[hat].tmp = disk[hat].tmp /\ disk'[hat].htmp = disk[hat].htmp
<1> DEFINE x == [disk[hat] EXCEPT !.meta = Torn]
<1>1. hat \in Drives /\ disk \in [Drives -> Dir]
  BY ConstFacts DEF Types, DiskTypes, WriterTypes, HealerTypes, Dir, HealMeta
<1>2. ASSUME hat \in badPart \cup badMeta /\ up[hat]
      PROVE  /\ x \in Dir
             /\ x.meta = Torn
             /\ x.part = disk[hat].part /\ x.rot = disk[hat].rot /\ x.tmp = disk[hat].tmp /\ x.htmp = disk[hat].htmp
  BY <1>1, <1>2, ConstFacts DEF Dir
<1>3. disk' = IF hat \in badPart \cup badMeta /\ up[hat] THEN [disk EXCEPT ![hat] = x] ELSE disk
  BY <1>1 DEF HealMeta
<1> HIDE DEF x
<1> QED
  BY <1>1, <1>2, <1>3 DEF Same

LEMMA HealMetaFillWrites ==
  ASSUME Types, HealMetaFill
  PROVE  /\ disk' \in [Drives -> Dir] /\ hat \in Drives
         /\ \A e \in Drives : e # hat \/ ~ (up[hat]) => Same(e)
         /\ up[hat] =>
              /\ disk'[hat].meta = hmeta
              /\ disk'[hat].part = disk[hat].part /\ disk'[hat].rot = disk[hat].rot /\ disk'[hat].tmp = disk[hat].tmp /\ disk'[hat].htmp = disk[hat].htmp
<1> DEFINE x == [disk[hat] EXCEPT !.meta = hmeta]
<1>1. hat \in Drives /\ disk \in [Drives -> Dir] /\ hmeta \in Numbers
  BY ConstFacts DEF Types, DiskTypes, WriterTypes, HealerTypes, Dir, HealMetaFill
<1>2. ASSUME up[hat]
      PROVE  /\ x \in Dir
             /\ x.meta = hmeta
             /\ x.part = disk[hat].part /\ x.rot = disk[hat].rot /\ x.tmp = disk[hat].tmp /\ x.htmp = disk[hat].htmp
  BY <1>1, <1>2, ConstFacts DEF Dir
<1>3. disk' = IF up[hat] THEN [disk EXCEPT ![hat] = x] ELSE disk
  BY <1>1 DEF HealMetaFill
<1> HIDE DEF x
<1> QED
  BY <1>1, <1>2, <1>3 DEF Same

LEMMA ReplaceWrites ==
  ASSUME Types, NEW d \in Drives, Replace(d)
  PROVE  /\ disk' \in [Drives -> Dir] /\ disk'[d] = Blank
         /\ \A e \in Drives : e # d => Same(e)
<1>1. disk \in [Drives -> Dir]
  BY DEF Types, DiskTypes, WriterTypes, HealerTypes, Dir
<1> QED
  BY <1>1, BlankFields DEF Replace, Same

LEMMA RotWrites ==
  ASSUME Types, NEW d \in Drives, NEW b \in Blocks, Rot(d, b)
  PROVE  /\ disk' \in [Drives -> Dir]
         /\ \A e \in Drives : e # d => Same(e)
         /\ disk'[d].rot = disk[d].rot \cup {b}
         /\ disk'[d].part = disk[d].part /\ disk'[d].meta = disk[d].meta
         /\ disk'[d].tmp = disk[d].tmp /\ disk'[d].htmp = disk[d].htmp
<1> DEFINE x == [disk[d] EXCEPT !.rot = disk[d].rot \cup {b}]
<1>1. disk \in [Drives -> Dir]
  BY DEF Types, DiskTypes, WriterTypes, HealerTypes, Dir
<1>2. /\ x \in Dir /\ x.rot = disk[d].rot \cup {b} /\ x.part = disk[d].part /\ x.meta = disk[d].meta
      /\ x.tmp = disk[d].tmp /\ x.htmp = disk[d].htmp
  BY <1>1 DEF Dir
<1>3. disk' = [disk EXCEPT ![d] = x]
  BY DEF Rot
<1> HIDE DEF x
<1> QED
  BY <1>1, <1>2, <1>3 DEF Same

-----------------------------------------------------------------------------
(* Types.                                                                   *)

LEMMA ShapeFacts ==
  ASSUME Types
  PROVE  /\ shape.blocks \in Nat \ {0} /\ shape.heals \in Nat /\ shape.reads \in Nat
         /\ shape.faults \in Nat /\ N * shape.blocks \in Nat /\ N <= N * shape.blocks
<1>1. shape.blocks \in Nat \ {0} /\ shape.heals \in Nat /\ shape.reads \in Nat /\ shape.faults \in Nat
  BY BoundsAssumption DEF Types, DiskTypes
<1>2. PICK k \in Nat : shape.blocks = 1 + k
  <2>1. shape.blocks - 1 \in Nat /\ shape.blocks = 1 + (shape.blocks - 1)
    BY <1>1
  <2> QED
    BY <2>1
<1>3. N * shape.blocks = N + N * k /\ N * k \in Nat
  BY <1>2, ConstFacts
<1> QED
  BY <1>1, <1>3, ConstFacts

LEMMA DiskTypesStep ==
  ASSUME Types, WriterStep \/ HealerStep \/ ReaderStep \/ DriveStep, UNCHANGED shape
  PROVE  DiskTypes'
<1>1. Dir' = Dir
  BY DEF Dir, Blocks
<1>2. disk' \in [Drives -> Dir]
  <2>1. CASE disk' = disk
    BY <2>1 DEF Types, DiskTypes
  <2>2. CASE Stage \/ Publish \/ Seal \/ SealFill \/ Rollback \/ Delete
    BY <2>2, StageWrites, PublishWrites, SealWrites, SealFillWrites, RemoveWrites DEF Rollback, Delete
  <2>3. CASE HealCreate \/ HealRename \/ HealMeta \/ HealMetaFill
    BY <2>3, HealCreateWrites, HealRenameWrites, HealMetaWrites, HealMetaFillWrites
  <2>4. ASSUME NEW d \in Drives, Replace(d) PROVE disk' \in [Drives -> Dir]
    BY <2>4, ReplaceWrites
  <2>5. ASSUME NEW d \in Drives, NEW b \in Blocks, Rot(d, b) PROVE disk' \in [Drives -> Dir]
    BY <2>5, RotWrites
  <2>6. WriterStep => disk' = disk \/ Stage \/ Publish \/ Seal \/ SealFill \/ Rollback \/ Delete
    BY DEF WriterStep, BeginPut, BodyFails, Decide, BeginDelete, Abandon
  <2>7. HealerStep => disk' = disk \/ HealCreate \/ HealRename \/ HealMeta \/ HealMetaFill
    BY DEF HealerStep, HealBegins, HealFind, HealMetas, HealScan, HealJudge, HealRebuild, HealAbandon
  <2>8. ReaderStep => disk' = disk
    BY DEF ReaderStep, GetBegins, GetFind, GetRead
  <2>9. DriveStep => \/ disk' = disk
                     \/ \E d \in Drives : Replace(d) \/ \E b \in Blocks : Rot(d, b)
    BY DEF DriveStep, Down, Return
  <2> QED
    BY <2>1, <2>2, <2>3, <2>4, <2>5, <2>6, <2>7, <2>8, <2>9
<1>3. up' \in [Drives -> BOOLEAN]
  <2>1. up' = up \/ \E d \in Drives : up' = [up EXCEPT ![d] = FALSE] \/ up' = [up EXCEPT ![d] = TRUE]
    <3>1. WriterStep => up' = up
      BY DEF WriterStep, BeginPut, Stage, BodyFails, Publish, Seal, SealFill, Decide, Rollback,
             BeginDelete, Delete, Abandon
    <3>2. HealerStep => up' = up
      BY DEF HealerStep, HealBegins, HealFind, HealMetas, HealScan, HealJudge, HealCreate,
             HealRebuild, HealRename, HealMeta, HealMetaFill, HealAbandon
    <3>3. ReaderStep => up' = up
      BY DEF ReaderStep, GetBegins, GetFind, GetRead
    <3>4. DriveStep => \/ up' = up
                       \/ \E d \in Drives : up' = [up EXCEPT ![d] = FALSE] \/ up' = [up EXCEPT ![d] = TRUE]
      BY DEF DriveStep, Down, Return, Replace, Rot
    <3> QED
      BY <3>1, <3>2, <3>3, <3>4
  <2> QED
    BY <2>1 DEF Types, DiskTypes
<1>4. faults' \in 0 .. shape.faults
  <2>1. faults' = faults \/ Fault
    <3>1. WriterStep => faults' = faults \/ Fault
      BY DEF WriterStep, BeginPut, Stage, BodyFails, Publish, Seal, SealFill, Decide, Rollback,
             BeginDelete, Delete, Abandon, Answered, NoFault
    <3>2. HealerStep => faults' = faults \/ Fault
      BY DEF HealerStep, HealBegins, HealFind, HealMetas, HealScan, HealJudge, HealCreate,
             HealRebuild, HealRename, HealMeta, HealMetaFill, HealAbandon
    <3>3. ReaderStep => faults' = faults
      BY DEF ReaderStep, GetBegins, GetFind, GetRead
    <3>4. DriveStep => faults' = faults \/ Fault
      BY DEF DriveStep, Down, Return, Replace, Rot
    <3> QED
      BY <3>1, <3>2, <3>3, <3>4
  <2> QED
    BY <2>1, ShapeFacts DEF Types, DiskTypes, Fault
<1> QED
  BY <1>1, <1>2, <1>3, <1>4 DEF Types, DiskTypes

LEMMA WriterTypesStep ==
  ASSUME Types, WriterStep \/ HealerStep \/ ReaderStep \/ DriveStep
  PROVE  WriterTypes'
<1>1. CASE UNCHANGED writer
  BY <1>1 DEF Types, WriterTypes, writer
<1>2. HealerStep => UNCHANGED writer
  BY DEF HealerStep, HealBegins, HealFind, HealMetas, HealScan, HealJudge, HealCreate,
         HealRebuild, HealRename, HealMeta, HealMetaFill, HealAbandon
<1>3. ReaderStep => UNCHANGED writer
  BY DEF ReaderStep, GetBegins, GetFind, GetRead
<1>4. DriveStep => UNCHANGED writer
  BY DEF DriveStep, Down, Return, Replace, Rot
<1>5. CASE WriterStep
  <2> USE ConstFacts DEF Types, WriterTypes, Drives
  <2>1. CASE BeginPut
    BY <2>1 DEF BeginPut
  <2>2. CASE Stage \/ BodyFails
    BY <2>2 DEF Stage, BodyFails, WNext
  <2>3. CASE Publish
    BY <2>3 DEF Publish, WNext, Answered
  <2>4. CASE Seal
    BY <2>4 DEF Seal, WNext
  <2>5. CASE SealFill
    BY <2>5 DEF SealFill, Answered
  <2>6. CASE Decide
    BY <2>6 DEF Decide
  <2>7. CASE Rollback \/ Delete
    <3>1. ok' = ok /\ cur' = cur
      BY <2>7 DEF Rollback, Delete
    <3>2. WNext("idle")
      BY <2>7 DEF Rollback, Delete
    <3> QED
      BY <3>1, <3>2 DEF WNext
  <2>8. CASE BeginDelete \/ Abandon
    BY <2>8 DEF BeginDelete, Abandon
  <2> QED
    BY <1>5, <2>1, <2>2, <2>3, <2>4, <2>5, <2>6, <2>7, <2>8 DEF WriterStep
<1> QED
  BY <1>1, <1>2, <1>3, <1>4, <1>5

LEMMA HealerTypesStep ==
  ASSUME Types, WriterStep \/ HealerStep \/ ReaderStep \/ DriveStep, UNCHANGED shape
  PROVE  HealerTypes'
<1>1. CASE UNCHANGED <<healer, healed>>
  BY <1>1 DEF Types, HealerTypes, healer, DriveOf, Last
<1>2. WriterStep => UNCHANGED <<healer, healed>>
  BY DEF WriterStep, BeginPut, Stage, BodyFails, Publish, Seal, SealFill, Decide, Rollback,
         BeginDelete, Delete, Abandon, seen
<1>3. ReaderStep => UNCHANGED <<healer, healed>>
  BY DEF ReaderStep, GetBegins, GetFind, GetRead, seen
<1>4. DriveStep => UNCHANGED <<healer, healed>>
  BY DEF DriveStep, Down, Return, Replace, Rot
<1>5. CASE HealerStep
  <2>1. Last' = Last /\ Last \in Nat /\ N <= Last /\ shape.heals \in Nat /\ N * shape.blocks = Last
    BY ShapeFacts DEF Last
  <2>2. /\ DriveOf(hat) \in Drives /\ BlockOf(hat) \in Blocks
        /\ hat <= N => DriveOf(hat) = hat
        /\ DriveOf(hat) = N => hat >= N /\ DriveOf(hat + 1) = 1
        /\ DriveOf(hat) < N => hat < Last /\ DriveOf(hat + 1) = DriveOf(hat) + 1
    BY ShapeFacts, LoopFacts DEF Types, HealerTypes, Blocks, Last
  <2>3. DriveOf(1) = 1 /\ 1 \in 1 .. Last
    BY <2>1, ConstFacts, LoopFacts, ShapeFacts DEF Last
  <2> DEFINE Ends == \E result : HealEnds(result)
  <2>4. Ends /\ hmeta' = hmeta /\ heals' = heals => HealerTypes'
    BY <2>1, <2>3, ConstFacts DEF HealEnds, Types, HealerTypes
  <2>0. DriveOf(hat)' = DriveOf(hat')
    BY DEF DriveOf
  <2> HIDE DEF Ends
  <2> USE ConstFacts DEF Types, HealerTypes, Drives
  <2>5. CASE HealBegins
    BY <2>1, <2>5 DEF HealBegins
  <2>6. CASE HealFind
    <3>1. CASE HasMeta(hat)
      BY <2>1, <2>3, <2>6, <3>1 DEF HealFind, HasMeta
    <3>2. CASE ~ HasMeta(hat) /\ hat < N
      <4>1. /\ hpc' = "find" /\ hpc = "find" /\ hat' = hat + 1
            /\ UNCHANGED <<hmeta, badPart, badMeta, good, fewest, healed, heals>>
        BY <2>6, <3>2 DEF HealFind
      <4>2. hat' \in Drives /\ hat' \in 1 .. Last
        BY <2>1, <3>2, <4>1
      <4> QED
        BY <2>1, <4>1, <4>2
    <3>3. CASE ~ HasMeta(hat) /\ hat = N
      <4>1. Ends /\ hmeta' = hmeta /\ heals' = heals
        BY <2>6, <3>3 DEF HealFind, Ends
      <4> QED
        BY <2>4, <4>1
    <3> QED
      BY <2>6, <3>1, <3>2, <3>3 DEF HealFind
  <2>7. CASE HealMetas
    BY <2>0, <2>1, <2>3, <2>7 DEF HealMetas, HNext, seen
  <2>8. CASE HealScan
    <3> DEFINE d == DriveOf(hat)
               match == Matches(d, BlockOf(hat), hmeta)
               count == IF match THEN good + 1 ELSE good
    <3>1. /\ hpc = "scan" /\ UNCHANGED <<hmeta, badMeta, heals, healed>>
          /\ badPart' = IF match THEN badPart ELSE badPart \cup {d}
          /\ good' = IF d = N THEN 0 ELSE count
          /\ fewest' = IF d = N /\ count < fewest THEN count ELSE fewest
          /\ HNext(Last, "judge")
      BY <2>1, <2>8 DEF HealScan, seen
    <3>2. d \in Drives /\ count \in 0 .. d /\ good \in 0 .. N
      BY <2>2, <3>1
    <3> HIDE DEF match, count
    <3> HIDE DEF d
    <3>3. badPart' \in SUBSET Drives /\ good' \in 0 .. N /\ fewest' \in 0 .. N
      <4>1. badPart' \in SUBSET Drives
        BY <3>1, <3>2
      <4>2. count \in 0 .. N
        BY <3>2
      <4>3. good' \in 0 .. N
        BY <3>1, <4>2
      <4>4. fewest' \in 0 .. N
        BY <3>1, <4>2
      <4> QED
        BY <4>1, <4>3, <4>4
    <3>4. CASE hat < Last
      <4>1. hpc' = "scan" /\ hat' = hat + 1
        BY <3>1, <3>4 DEF HNext
      <4>2. good' < DriveOf(hat')
        BY <2>1, <2>2, <3>1, <3>2, <4>1 DEF d
      <4> QED
        BY <2>0, <2>1, <3>1, <3>3, <3>4, <4>1, <4>2
    <3>5. CASE ~ (hat < Last)
      <4>1. hpc' = "judge" /\ hat' = 1
        BY <3>1, <3>5 DEF HNext
      <4>2. d = N
        BY <2>1, <2>2, <3>2, <3>5 DEF d
      <4> QED
        BY <2>1, <2>3, <3>1, <3>3, <4>1, <4>2
    <3> QED
      BY <3>4, <3>5
  <2>9. CASE HealJudge
    <3>1. CASE Ends
      BY <2>4, <2>9, <3>1 DEF HealJudge
    <3>2. CASE ~ Ends
      BY <2>0, <2>1, <2>3, <2>9, <3>2 DEF HealJudge, Ends
    <3> QED
      BY <3>1, <3>2
  <2>10. CASE HealCreate
    <3>1. CASE Ends
      BY <2>4, <2>10, <3>1 DEF HealCreate
    <3>2. CASE ~ Ends
      BY <2>0, <2>1, <2>3, <2>10, <3>2 DEF HealCreate, HNext, Ends
    <3> QED
      BY <3>1, <3>2
  <2>11. CASE HealRebuild
    <3>1. CASE Ends
      BY <2>4, <2>11, <3>1 DEF HealRebuild
    <3>2. CASE ~ Ends
      <4> DEFINE d == DriveOf(hat)
                 count == IF d \notin badPart /\ Matches(d, BlockOf(hat), hmeta) THEN good + 1 ELSE good
      <4>1. /\ hpc = "rebuild" /\ UNCHANGED <<hmeta, badPart, badMeta, fewest, heals, healed>>
            /\ good' = IF d = N THEN 0 ELSE count
            /\ HNext(Last, "rename")
        BY <2>1, <2>11, <3>2 DEF HealRebuild, Ends
      <4>2. d \in Drives /\ count \in 0 .. d /\ good \in 0 .. N
        BY <2>2, <4>1
      <4> HIDE DEF count
      <4>3. good' \in 0 .. N
        BY <4>1, <4>2
      <4> HIDE DEF d
      <4>4. CASE hat < Last
        <5>1. hpc' = "rebuild" /\ hat' = hat + 1
          BY <4>1, <4>4 DEF HNext
        <5>2. good' < DriveOf(hat')
          BY <2>1, <2>2, <4>1, <4>2, <5>1 DEF d
        <5> QED
          BY <2>0, <2>1, <4>1, <4>3, <4>4, <5>1, <5>2
      <4>5. CASE ~ (hat < Last)
        <5>1. hpc' = "rename" /\ hat' = 1
          BY <4>1, <4>5 DEF HNext
        <5> QED
          BY <2>1, <2>3, <4>1, <4>3, <5>1
      <4> QED
        BY <4>4, <4>5
    <3> QED
      BY <3>1, <3>2
  <2>12. CASE HealRename
    <3>1. CASE Ends
      BY <2>4, <2>12, <3>1 DEF HealRename
    <3>2. CASE ~ Ends
      BY <2>0, <2>1, <2>3, <2>12, <3>2 DEF HealRename, HNext, Ends
    <3> QED
      BY <3>1, <3>2
  <2>13. CASE HealMeta
    <3>1. CASE Ends
      BY <2>4, <2>13, <3>1 DEF HealMeta
    <3>2. CASE ~ Ends
      BY <2>0, <2>1, <2>3, <2>13, <3>2 DEF HealMeta, HealNextMeta, Ends
    <3> QED
      BY <3>1, <3>2
  <2>14. CASE HealMetaFill
    <3>1. CASE Ends
      BY <2>4, <2>14, <3>1 DEF HealMetaFill
    <3>2. CASE ~ Ends
      <4>1. /\ hat < N /\ hat' = hat + 1 /\ hpc' = "meta" /\ hpc = "metafill"
            /\ UNCHANGED <<badPart, badMeta, good, fewest, healed, hmeta, heals, shape>>
        BY <2>14, <3>2 DEF HealMetaFill, HealNextMeta, Ends
      <4> QED
        BY <2>1, <4>1
    <3> QED
      BY <3>1, <3>2
  <2>15. CASE HealAbandon
    BY <2>4, <2>15 DEF HealAbandon, Ends
  <2> QED
    BY <1>5, <2>5, <2>6, <2>7, <2>8, <2>9, <2>10, <2>11, <2>12, <2>13, <2>14, <2>15 DEF HealerStep
<1> QED
  BY <1>1, <1>2, <1>3, <1>4, <1>5

LEMMA ReaderTypesStep ==
  ASSUME Types, WriterStep \/ HealerStep \/ ReaderStep \/ DriveStep, UNCHANGED shape
  PROVE  ReaderTypes'
<1>1. CASE UNCHANGED reader
  BY <1>1 DEF Types, ReaderTypes, reader, DriveOf, Last
<1>2. WriterStep => UNCHANGED reader
  BY DEF WriterStep, BeginPut, Stage, BodyFails, Publish, Seal, SealFill, Decide, Rollback,
         BeginDelete, Delete, Abandon, seen
<1>3. HealerStep => UNCHANGED reader
  BY DEF HealerStep, HealBegins, HealFind, HealMetas, HealScan, HealJudge, HealCreate,
         HealRebuild, HealRename, HealMeta, HealMetaFill, HealAbandon
<1>4. DriveStep => UNCHANGED reader
  BY DEF DriveStep, Down, Return, Replace, Rot
<1>5. CASE ReaderStep
  <2>1. Last' = Last /\ Last \in Nat /\ N <= Last /\ shape.reads \in Nat /\ N * shape.blocks = Last
    BY ShapeFacts DEF Last
  <2>0. DriveOf(rat)' = DriveOf(rat')
    BY DEF DriveOf
  <2>2. /\ DriveOf(rat) \in Drives
        /\ rat <= N => DriveOf(rat) = rat
        /\ DriveOf(rat) = N => rat >= N /\ DriveOf(rat + 1) = 1
        /\ DriveOf(rat) < N => rat < Last /\ DriveOf(rat + 1) = DriveOf(rat) + 1
    BY ShapeFacts, LoopFacts DEF Types, ReaderTypes, Last
  <2>3. DriveOf(1) = 1 /\ 1 \in 1 .. Last
    BY <2>1, ConstFacts, LoopFacts, ShapeFacts DEF Last
  <2> USE ConstFacts DEF Types, ReaderTypes, Drives
  <2>4. CASE GetBegins
    BY <2>1, <2>3, <2>4 DEF GetBegins
  <2>5. CASE GetFind
    <3>1. CASE HasMeta(rat)
      <4>1. rmeta' \in Numbers /\ rmeta' \in Writes
        BY <2>5, <3>1 DEF GetFind, HasMeta
      <4> QED
        BY <2>0, <2>1, <2>3, <2>5, <3>1, <4>1 DEF GetFind
    <3>2. CASE ~ HasMeta(rat)
      BY <2>0, <2>1, <2>3, <2>5, <3>2 DEF GetFind
    <3> QED
      BY <3>1, <3>2
  <2>6. CASE GetRead
    BY <2>0, <2>1, <2>2, <2>3, <2>6 DEF GetRead
  <2> QED
    BY <1>5, <2>4, <2>5, <2>6 DEF ReaderStep
<1> QED
  BY <1>1, <1>2, <1>3, <1>4, <1>5

LEMMA SeenTypesStep ==
  ASSUME Types, WriterStep \/ HealerStep \/ ReaderStep \/ DriveStep
  PROVE  SeenTypes'
<1> USE ConstFacts DEF Types, SeenTypes, WriterTypes
<1>1. CASE WriterStep
  BY <1>1 DEF WriterStep, BeginPut, Stage, BodyFails, Publish, Seal, SealFill, Decide, Rollback,
         BeginDelete, Delete, Abandon, Disturb, seen
<1>2. CASE HealerStep
  BY <1>2 DEF HealerStep, HealBegins, HealFind, HealMetas, HealScan, HealJudge, HealCreate,
         HealRebuild, HealRename, HealMeta, HealMetaFill, HealAbandon, seen
<1>3. CASE ReaderStep
  BY <1>3 DEF ReaderStep, GetBegins, GetFind, GetRead, seen
<1>4. CASE DriveStep
  BY <1>4 DEF DriveStep, Down, Return, Replace, Rot, Hurt
<1> QED
  BY <1>1, <1>2, <1>3, <1>4

LEMMA InitTypes == Init => Types
<1> SUFFICES ASSUME Init PROVE Types
  OBVIOUS
<1>1. shape \in Shapes /\ shape.faults \in Nat /\ shape.heals \in Nat /\ shape.reads \in Nat
      /\ shape.blocks \in Nat \ {0}
  BY BoundsAssumption DEF Init
<1>2. DiskTypes
  BY <1>1, BlankFields DEF Init, DiskTypes
<1>3. 1 \in 1 .. N * shape.blocks
  <2>1. PICK k \in Nat : shape.blocks = 1 + k
    <3>1. shape.blocks - 1 \in Nat /\ shape.blocks = 1 + (shape.blocks - 1)
      BY <1>1
    <3> QED
      BY <3>1
  <2>2. N * shape.blocks = N + N * k /\ N * k \in Nat
    BY <2>1, ConstFacts
  <2> QED
    BY <2>2, ConstFacts
<1>4. WriterTypes
  BY ConstFacts DEF Init, WriterTypes
<1>5. HealerTypes
  BY <1>1, <1>3, ConstFacts DEF Init, HealerTypes, Last
<1>6. ReaderTypes
  BY <1>1, <1>3, ConstFacts DEF Init, ReaderTypes, Last
<1>7. SeenTypes
  BY ConstFacts DEF Init, SeenTypes
<1> QED
  BY <1>2, <1>4, <1>5, <1>6, <1>7 DEF Types

LEMMA TypesStep ==
  ASSUME Types, WriterStep \/ HealerStep \/ ReaderStep \/ DriveStep, UNCHANGED shape
  PROVE  Types'
BY DiskTypesStep, WriterTypesStep, HealerTypesStep, ReaderTypesStep, SeenTypesStep DEF Types

-----------------------------------------------------------------------------
(* A heal that nothing disturbs.                                            *)

\* Beside the healer, its temporary files stay or go; and unless the calm is
\* over, every drive keeps its shard and its metadata.
LEMMA BesideHealer ==
  ASSUME Types, WriterStep \/ ReaderStep \/ DriveStep
  PROVE  /\ UNCHANGED <<healer, healed>>
         /\ \A d \in Drives : disk'[d].htmp \in {disk[d].htmp, None}
         /\ calm' => /\ calm
                     /\ \A d \in Drives : /\ disk'[d].part = disk[d].part
                                          /\ disk'[d].rot = disk[d].rot /\ disk'[d].meta = disk[d].meta
<1> DEFINE Goal == /\ UNCHANGED <<healer, healed>>
                   /\ \A d \in Drives : disk'[d].htmp \in {disk[d].htmp, None}
                   /\ calm' => /\ calm
                               /\ \A d \in Drives : /\ disk'[d].part = disk[d].part
                                                    /\ disk'[d].rot = disk[d].rot
                                                    /\ disk'[d].meta = disk[d].meta
<1>1. CASE BeginPut \/ BodyFails \/ Decide \/ BeginDelete \/ Abandon
  BY <1>1 DEF BeginPut, BodyFails, Decide, BeginDelete, Abandon, seen
<1>2. CASE Stage
  <2>1. UNCHANGED <<healer, healed, calm>>
    BY <1>2 DEF Stage, seen
  <2> QED
    BY <1>2, <2>1, StageWrites DEF Same
<1>3. CASE Publish
  <2>1. UNCHANGED <<healer, healed>> /\ calm' = FALSE
    BY <1>3 DEF Publish, Disturb
  <2> QED
    BY <1>3, <2>1, PublishWrites DEF Same
<1>4. CASE Seal
  <2>1. UNCHANGED <<healer, healed>> /\ calm' = FALSE
    BY <1>4 DEF Seal, Disturb
  <2> QED
    BY <1>4, <2>1, SealWrites DEF Same
<1>5. CASE SealFill
  <2>1. UNCHANGED <<healer, healed>> /\ calm' = FALSE
    BY <1>5 DEF SealFill, Disturb
  <2> QED
    BY <1>5, <2>1, SealFillWrites DEF Same
<1>6. CASE Rollback \/ Delete
  <2>1. UNCHANGED <<healer, healed>> /\ calm' = FALSE /\ RemoveDir
    BY <1>6 DEF Rollback, Delete, Disturb
  <2> QED
    BY <2>1, RemoveWrites, BlankFields DEF Same
<1>7. CASE ReaderStep
  BY <1>7 DEF ReaderStep, GetBegins, GetFind, GetRead, seen
<1>8. CASE DriveStep
  <2>1. UNCHANGED <<healer, healed>> /\ calm' = FALSE
    BY <1>8 DEF DriveStep, Down, Return, Replace, Rot
  <2>2. \A d \in Drives : disk'[d].htmp \in {disk[d].htmp, None}
    <3>1. ASSUME NEW e \in Drives, Down(e) \/ Return(e)
          PROVE  \A d \in Drives : disk'[d].htmp \in {disk[d].htmp, None}
      BY <3>1 DEF Down, Return
    <3>2. ASSUME NEW e \in Drives, Replace(e)
          PROVE  \A d \in Drives : disk'[d].htmp \in {disk[d].htmp, None}
      BY <3>2, ReplaceWrites, BlankFields DEF Same
    <3>3. ASSUME NEW e \in Drives, NEW b \in Blocks, Rot(e, b)
          PROVE  \A d \in Drives : disk'[d].htmp \in {disk[d].htmp, None}
      BY <3>3, RotWrites DEF Same
    <3> QED
      BY <1>8, <3>1, <3>2, <3>3 DEF DriveStep
  <2> QED
    BY <2>1, <2>2
<1> QED
  BY <1>1, <1>2, <1>3, <1>4, <1>5, <1>6, <1>7, <1>8 DEF WriterStep

LEMMA RebuiltStep ==
  ASSUME Types, Rebuilt, WriterStep \/ HealerStep \/ ReaderStep \/ DriveStep
  PROVE  Rebuilt'
<1>1. CASE WriterStep \/ ReaderStep \/ DriveStep
  <2>1. /\ UNCHANGED <<hpc, hat, hmeta, badPart>>
        /\ \A d \in Drives : disk'[d].htmp \in {disk[d].htmp, None}
    BY <1>1, BesideHealer DEF healer
  <2>2. badPart \in SUBSET Drives
    BY DEF Types, HealerTypes
  <2> QED
    BY <2>1, <2>2 DEF Rebuilt
<1>2. CASE HealerStep
  <2>0. badPart \in SUBSET Drives /\ Drives \subseteq Nat /\ hat \in Nat /\ N \in Nat /\ Drives = 1 .. N
    BY ConstFacts DEF Types, HealerTypes, Drives
  <2>1. CASE HealBegins \/ HealFind \/ HealMetas \/ HealScan \/ HealAbandon
    <3>1. hpc' \notin {"create", "rebuild", "rename"}
      BY <2>1 DEF HealBegins, HealFind, HealMetas, HealScan, HealAbandon, HNext, HealEnds
    <3> QED
      BY <3>1 DEF Rebuilt
  <2>2. CASE HealJudge
    <3>1. hpc' = "create" => hat' = 1
      BY <2>2 DEF HealJudge, HealEnds, Types, HealerTypes
    <3>2. hpc' \notin {"rebuild", "rename"} /\ badPart' \in SUBSET Drives
      BY <2>2 DEF HealJudge, HealEnds, Types, HealerTypes
    <3>3. \A d \in Drives : ~ (d < 1)
      BY <2>0
    <3> QED
      BY <3>1, <3>2, <3>3 DEF Rebuilt
  <2>3. CASE HealCreate
    <3>1. CASE hpc' = "idle"
      BY <3>1 DEF Rebuilt
    <3>2. CASE hpc' # "idle"
      <4>1. /\ hpc = "create" /\ UNCHANGED <<badPart, hmeta>> /\ (hat \in badPart => up[hat])
            /\ hat < N => hat' = hat + 1 /\ hpc' = "create"
            /\ ~ (hat < N) => hpc' = "rebuild"
        BY <2>3, <3>2 DEF HealCreate, HNext, HealEnds
      <4>2. hat \in Drives
        BY <4>1 DEF Types, HealerTypes
      <4>3. \A d \in badPart : d < hat + 1 => disk'[d].htmp \in {hmeta, None}
        <5> SUFFICES ASSUME NEW d \in badPart, d < hat + 1 PROVE disk'[d].htmp \in {hmeta, None}
          OBVIOUS
        <5>1. CASE d = hat
          BY <2>3, <4>1, <5>1, HealCreateWrites
        <5>2. CASE d # hat
          BY <2>0, <2>3, <4>1, <5>2, HealCreateWrites DEF Same, Rebuilt
        <5> QED
          BY <5>1, <5>2
      <4>4. CASE hat < N
        <5>1. hpc' = "create" /\ hat' = hat + 1 /\ badPart' = badPart /\ hmeta' = hmeta
          BY <4>1, <4>4
        <5> QED
          BY <4>3, <5>1 DEF Rebuilt
      <4>5. CASE ~ (hat < N)
        <5>1. hpc' = "rebuild" /\ badPart' = badPart /\ hmeta' = hmeta
          BY <4>1, <4>5
        <5>2. \A d \in badPart : d < hat + 1
          BY <2>0, <4>2, <4>5
        <5> QED
          BY <4>3, <5>1, <5>2 DEF Rebuilt
      <4> QED
        BY <4>4, <4>5
    <3> QED
      BY <3>1, <3>2
  <2>4. CASE HealRebuild
    <3>1. CASE hpc' = "idle"
      BY <3>1 DEF Rebuilt
    <3>2. CASE hpc' # "idle"
      <4>1. /\ hpc = "rebuild" /\ UNCHANGED <<badPart, hmeta, disk>> /\ hpc' \in {"rebuild", "rename"}
        BY <2>4, <3>2 DEF HealRebuild, HNext, HealEnds
      <4> QED
        BY <4>1 DEF Rebuilt
    <3> QED
      BY <3>1, <3>2
  <2>5. CASE HealRename
    <3>1. CASE hpc' \in {"idle", "meta"}
      BY <3>1 DEF Rebuilt
    <3>2. CASE hpc' \notin {"idle", "meta"}
      <4>1. /\ hpc = "rename" /\ UNCHANGED <<badPart, hmeta>> /\ hpc' = "rename"
        BY <2>5, <3>2 DEF HealRename, HNext, HealEnds
      <4>2. \A d \in badPart : disk'[d].htmp \in {hmeta, None}
        <5> SUFFICES ASSUME NEW d \in badPart PROVE disk'[d].htmp \in {hmeta, None}
          OBVIOUS
        <5>1. disk[d].htmp \in {hmeta, None}
          BY <4>1 DEF Rebuilt
        <5> QED
          BY <2>0, <2>5, <5>1, HealRenameWrites DEF Same
      <4> QED
        BY <4>1, <4>2 DEF Rebuilt
    <3> QED
      BY <3>1, <3>2
  <2>6. CASE HealMeta \/ HealMetaFill
    <3>1. hpc' \notin {"create", "rebuild", "rename"}
      BY <2>6 DEF HealMeta, HealMetaFill, HealNextMeta, HealEnds
    <3> QED
      BY <3>1 DEF Rebuilt
  <2> QED
    BY <1>2, <2>1, <2>2, <2>3, <2>4, <2>5, <2>6 DEF HealerStep
<1> QED
  BY <1>1, <1>2

\* The healer goes past drive hat in its last loop.
LEMMA HealerPasses ==
  ASSUME Types, HealNextMeta, hat \in Drives, \A d \in Drives : Sound(d)',
         \A d \in Drives : d < hat + 1 \/ d \notin badPart \cup badMeta => disk'[d].meta \in Writes
  PROVE  Mended'
<1>1. hat \in Nat /\ Drives = 1 .. N /\ N \in Nat
  BY ConstFacts DEF Drives
<1>2. CASE hat < N
  <2>1. hat' = hat + 1 /\ hpc' = "meta" /\ UNCHANGED <<badPart, badMeta>>
    BY <1>2 DEF HealNextMeta
  <2> QED
    BY <2>1 DEF Mended
<1>3. CASE ~ (hat < N)
  <2>1. hpc' = "idle"
    BY <1>3 DEF HealNextMeta, HealEnds
  <2>2. \A d \in Drives : d < hat + 1
    BY <1>1, <1>3
  <2> QED
    BY <2>1, <2>2 DEF Mended
<1> QED
  BY <1>2, <1>3

LEMMA MendedStep ==
  ASSUME Types, Rebuilt, Mended, WriterStep \/ HealerStep \/ ReaderStep \/ DriveStep, UNCHANGED shape
  PROVE  Mended'
<1>1. CASE WriterStep \/ ReaderStep \/ DriveStep
  <2>1. UNCHANGED <<hpc, hat, hmeta, badPart, badMeta, healed>>
    BY <1>1, BesideHealer DEF healer
  <2>2. calm' => /\ calm
                 /\ \A d \in Drives : /\ disk'[d].part = disk[d].part
                                      /\ disk'[d].rot = disk[d].rot /\ disk'[d].meta = disk[d].meta
    BY <1>1, BesideHealer
  <2>3. CASE ~ calm'
    BY <2>3 DEF Mended
  <2>4. CASE calm'
    <3>1. \A d \in Drives : Sound(d) => Sound(d)'
      BY <2>1, <2>2, <2>4 DEF Sound
    <3>2. hpc = "scan" => \A i \in 1 .. hat - 1 : DriveOf(i) \in Drives
      BY ShapeFacts, LoopFacts DEF Types, HealerTypes, Last
    <3>3. CASE hpc = "scan"
      <4>1. \A i \in 1 .. hat - 1 : DriveOf(i) \notin badPart =>
              disk'[DriveOf(i)].part = hmeta /\ BlockOf(i) \notin disk'[DriveOf(i)].rot
        BY <2>2, <2>4, <3>2, <3>3 DEF Mended
      <4>2. \A d \in Drives \ badMeta : disk'[d].meta \in Writes
        BY <2>2, <2>4, <3>3 DEF Mended
      <4> QED
        BY <2>1, <3>3, <4>1, <4>2 DEF Mended
    <3>4. CASE hpc = "idle" \/ hpc = "metas"
      BY <2>1, <2>2, <2>4, <3>1, <3>4 DEF Mended
    <3>5. CASE hpc \in {"meta", "metafill"}
      BY <2>1, <2>2, <2>4, <3>1, <3>5 DEF Mended
    <3>6. CASE hpc \in {"judge", "create", "rebuild", "rename"}
      <4>1. badPart \in SUBSET Drives
        BY DEF Types, HealerTypes
      <4> QED
        BY <2>1, <2>2, <2>4, <3>1, <3>6, <4>1 DEF Mended
    <3> QED
      BY <2>1, <3>3, <3>4, <3>5, <3>6 DEF Mended
  <2> QED
    BY <2>3, <2>4
<1>2. CASE HealerStep
  <2>0. /\ badPart \in SUBSET Drives /\ badMeta \in SUBSET Drives /\ Drives \subseteq Nat
        /\ hat \in Nat /\ N \in Nat /\ Drives = 1 .. N
    BY ConstFacts DEF Types, HealerTypes, Drives
  <2> SUFFICES ASSUME calm' PROVE Mended'
    BY DEF Mended
  <2>1. CASE HealBegins
    <3>1. hpc' = "find"
      BY <2>1 DEF HealBegins
    <3> QED
      BY <3>1 DEF Mended
  <2>2. ASSUME hpc' = "idle", healed' \notin {"healthy", "healed"} PROVE Mended'
    BY <2>2 DEF Mended
  <2>3. CASE HealFind
    <3>1. CASE hpc' \notin {"metas", "find"}
      BY <2>2, <2>3, <3>1 DEF HealFind, HealEnds
    <3>2. CASE hpc' = "find"
      BY <3>2 DEF Mended
    <3>3. CASE hpc' = "metas"
      <4>1. hat' = 1
        BY <2>3, <3>3 DEF HealFind, HealEnds
      <4>2. \A d \in Drives : ~ (d < 1)
        BY <2>0
      <4> QED
        BY <3>3, <4>1, <4>2 DEF Mended
    <3> QED
      BY <3>1, <3>2, <3>3
  <2>4. CASE HealMetas
    <3>1. /\ hpc = "metas" /\ badMeta' = IF HasMeta(hat) THEN badMeta ELSE badMeta \cup {hat}
          /\ calm /\ disk' = disk /\ hat \in Drives /\ badPart' = badPart /\ hmeta' = hmeta
      BY <2>4 DEF HealMetas, seen, Types, HealerTypes
    <3>2. \A d \in Drives \ badMeta' : d < hat + 1 => disk'[d].meta \in Writes
      <4> SUFFICES ASSUME NEW d \in Drives \ badMeta', d < hat + 1 PROVE disk[d].meta \in Writes
        BY <3>1
      <4>1. CASE d = hat
        BY <3>1, <4>1 DEF HasMeta
      <4>2. CASE d # hat
        BY <2>0, <3>1, <4>2 DEF Mended
      <4> QED
        BY <4>1, <4>2
    <3>3. CASE hat < N
      <4>1. hpc' = "metas" /\ hat' = hat + 1
        BY <2>4, <3>1, <3>3 DEF HealMetas, HNext
      <4> QED
        BY <3>2, <4>1 DEF Mended
    <3>4. CASE ~ (hat < N)
      <4>1. hpc' = "scan" /\ hat' = 1
        BY <2>4, <3>4 DEF HealMetas, HNext
      <4>2. \A d \in Drives : d < hat + 1
        BY <2>0, <3>1, <3>4
      <4>3. 1 .. hat' - 1 = {}
        BY <4>1
      <4> QED
        BY <3>2, <4>1, <4>2, <4>3 DEF Mended
    <3> QED
      BY <3>3, <3>4
  <2>5. CASE HealScan
    <3> DEFINE d == DriveOf(hat)
               b == BlockOf(hat)
    <3>1. /\ hpc = "scan" /\ calm /\ disk' = disk /\ UNCHANGED <<badMeta, hmeta>>
          /\ badPart' = IF Matches(d, b, hmeta) THEN badPart ELSE badPart \cup {d}
          /\ HNext(N * shape.blocks, "judge")
      BY <2>5 DEF HealScan, seen
    <3>2. \A i \in 1 .. hat : DriveOf(i) \notin badPart' =>
            disk[DriveOf(i)].part = hmeta /\ BlockOf(i) \notin disk[DriveOf(i)].rot
      <4> SUFFICES ASSUME NEW i \in 1 .. hat, DriveOf(i) \notin badPart'
                   PROVE  disk[DriveOf(i)].part = hmeta /\ BlockOf(i) \notin disk[DriveOf(i)].rot
        OBVIOUS
      <4>1. CASE i = hat
        BY <3>1, <4>1 DEF Matches
      <4>2. CASE i # hat
        <5>1. i \in 1 .. hat - 1 /\ DriveOf(i) \notin badPart
          BY <2>0, <3>1, <4>2
        <5> QED
          BY <3>1, <5>1 DEF Mended
      <4> QED
        BY <4>1, <4>2
    <3>3. \A e \in Drives \ badMeta : disk[e].meta \in Writes
      BY <3>1 DEF Mended
    <3> HIDE DEF d, b
    <3>4. CASE hat < N * shape.blocks
      <4>1. hpc' = "scan" /\ hat' = hat + 1
        BY <3>1, <3>4 DEF HNext
      <4>2. 1 .. hat' - 1 = 1 .. hat
        BY <2>0, <4>1
      <4> QED
        BY <3>1, <3>2, <3>3, <4>1, <4>2 DEF Mended
    <3>5. CASE ~ (hat < N * shape.blocks)
      <4>1. hpc' = "judge" /\ hat = N * shape.blocks
        BY <3>1, <3>5, ShapeFacts DEF HNext, Types, HealerTypes, Last
      <4>2. \A e \in Drives \ badPart' : Sound(e)
        <5> SUFFICES ASSUME NEW e \in Drives \ badPart' PROVE Sound(e)
          OBVIOUS
        <5>1. ASSUME NEW k \in Blocks PROVE disk[e].part = hmeta /\ k \notin disk[e].rot
          <6>1. PICK i \in 1 .. N * shape.blocks : DriveOf(i) = e /\ BlockOf(i) = k
            BY ShapeFacts, LoopCovers DEF Blocks
          <6> QED
            BY <3>2, <4>1, <6>1
        <5>2. 1 \in Blocks /\ disk[e].rot \in SUBSET Blocks
          BY ShapeFacts, DirFields DEF Blocks
        <5> QED
          BY <5>1, <5>2 DEF Sound
      <4>3. \A e \in Drives \ badPart' : Sound(e)'
        BY <3>1, <4>2 DEF Sound
      <4> QED
        BY <3>1, <3>3, <4>1, <4>3 DEF Mended
    <3> QED
      BY <3>4, <3>5
  <2>6. CASE HealJudge
    <3>1. hpc = "judge" /\ calm /\ UNCHANGED <<disk, hmeta>> /\ \A d \in Drives : Sound(d)' <=> Sound(d)
      BY <2>6 DEF HealJudge, Sound
    <3>2. /\ \A d \in Drives \ badPart : Sound(d)
          /\ \A d \in Drives \ badMeta : disk[d].meta \in Writes
      BY <3>1 DEF Mended
    <3>3. CASE badPart = {} /\ badMeta = {} /\ HealEnds("healthy")
      BY <3>1, <3>2, <3>3 DEF Mended, HealEnds
    <3>4. CASE HealEnds("unrecoverable") \/ HealEnds("dry run")
      BY <2>2, <3>4 DEF HealEnds
    <3>5. CASE hpc' = (IF badPart # {} THEN "create" ELSE "meta") /\ UNCHANGED <<hat, badPart, badMeta>>
      <4>1. CASE badPart # {}
        BY <3>1, <3>2, <3>5, <4>1 DEF Mended
      <4>2. CASE badPart = {}
        <5>1. hat' = 1 /\ \A d \in Drives : ~ (d < 1)
          BY <2>0, <3>1, <3>5 DEF Types, HealerTypes
        <5> QED
          BY <3>1, <3>2, <3>5, <4>2, <5>1 DEF Mended
      <4> QED
        BY <4>1, <4>2
    <3> QED
      BY <2>6, <3>3, <3>4, <3>5 DEF HealJudge
  <2>7. CASE HealCreate
    <3>1. hpc = "create" /\ calm /\ hmeta' = hmeta /\ hat \in Drives
      BY <2>7 DEF HealCreate, Types, HealerTypes
    <3>2. \A d \in Drives : /\ disk'[d].part = disk[d].part /\ disk'[d].rot = disk[d].rot
                            /\ disk'[d].meta = disk[d].meta
      BY <2>7, HealCreateWrites DEF Same
    <3>3. /\ \A d \in Drives \ badPart : Sound(d)'
          /\ \A d \in Drives \ badMeta : disk'[d].meta \in Writes
      BY <3>1, <3>2 DEF Mended, Sound
    <3>4. \/ HealEnds("error")
          \/ hpc' \in {"create", "rebuild"} /\ UNCHANGED <<badPart, badMeta>>
      BY <2>7, <3>1 DEF HealCreate, HNext
    <3>5. CASE HealEnds("error")
      BY <2>2, <3>5 DEF HealEnds
    <3>6. CASE hpc' \in {"create", "rebuild"} /\ UNCHANGED <<badPart, badMeta>>
      BY <3>3, <3>6 DEF Mended
    <3> QED
      BY <3>4, <3>5, <3>6
  <2>8. CASE HealRebuild
    <3>1. hpc = "rebuild" /\ calm /\ UNCHANGED <<hmeta, disk>>
      BY <2>8 DEF HealRebuild
    <3>2. /\ \A d \in Drives \ badPart : Sound(d)'
          /\ \A d \in Drives \ badMeta : disk'[d].meta \in Writes
      BY <3>1 DEF Mended, Sound
    <3>3. \/ HealEnds("error")
          \/ hpc' = "rebuild" /\ UNCHANGED <<badPart, badMeta>>
          \/ hpc' = "rename" /\ hat' = 1 /\ UNCHANGED <<badPart, badMeta>>
      BY <2>8, <3>1 DEF HealRebuild, HNext
    <3>4. CASE HealEnds("error")
      BY <2>2, <3>4 DEF HealEnds
    <3>5. CASE hpc' = "rebuild" /\ UNCHANGED <<badPart, badMeta>>
      BY <3>2, <3>5 DEF Mended
    <3>6. CASE hpc' = "rename" /\ hat' = 1 /\ UNCHANGED <<badPart, badMeta>>
      <4>1. \A d \in Drives : ~ (d < 1)
        BY <2>0
      <4> QED
        BY <2>0, <3>2, <3>6, <4>1 DEF Mended
    <3> QED
      BY <3>3, <3>4, <3>5, <3>6
  <2>9. CASE HealRename
    <3> DEFINE fits == up[hat] /\ disk[hat].htmp # None
    <3>1. hpc = "rename" /\ calm /\ hmeta' = hmeta /\ hat \in Drives
      BY <2>9 DEF HealRename, Types, HealerTypes
    <3>2. \/ HealEnds("error")
          \/ (hat \in badPart => fits) /\ HNext(N, "meta") /\ UNCHANGED <<badPart, badMeta>>
      BY <2>9 DEF HealRename
    <3>3. CASE HealEnds("error")
      BY <2>2, <3>3 DEF HealEnds
    <3>4. CASE (hat \in badPart => fits) /\ HNext(N, "meta") /\ UNCHANGED <<badPart, badMeta>>
      <4>1. \A d \in Drives \ badMeta : disk'[d].meta \in Writes
        BY <2>9, <3>1, HealRenameWrites DEF Mended, Same
      <4>2. \A d \in Drives : d \notin badPart \/ d < hat + 1 => Sound(d)'
        <5> SUFFICES ASSUME NEW d \in Drives, d \notin badPart \/ d < hat + 1
                     PROVE  disk'[d].part = hmeta /\ disk'[d].rot = {}
          BY <3>1 DEF Sound
        <5>1. CASE d = hat /\ d \in badPart
          <6>1. disk[hat].htmp \in {hmeta, None} /\ disk[hat].htmp # None
            BY <3>1, <3>4, <5>1 DEF Rebuilt
          <6> QED
            BY <2>9, <3>4, <5>1, <6>1, HealRenameWrites
        <5>2. CASE ~ (d = hat /\ d \in badPart)
          <6>1. d \notin badPart \/ d < hat
            BY <2>0, <5>2
          <6>2. Sound(d)
            BY <3>1, <6>1 DEF Mended
          <6>3. disk'[d] = disk[d]
            BY <2>9, <5>2, HealRenameWrites DEF Same
          <6> QED
            BY <6>2, <6>3 DEF Sound
        <5> QED
          BY <5>1, <5>2
      <4>3. CASE hat < N
        <5>1. hpc' = "rename" /\ hat' = hat + 1
          BY <3>1, <3>4, <4>3 DEF HNext
        <5> QED
          BY <2>0, <3>4, <4>1, <4>2, <5>1 DEF Mended
      <4>4. CASE ~ (hat < N)
        <5>1. hpc' = "meta" /\ hat' = 1
          BY <3>4, <4>4 DEF HNext
        <5>2. \A d \in Drives : d < hat + 1 /\ ~ (d < 1)
          BY <2>0, <3>1, <4>4
        <5> QED
          BY <3>4, <4>1, <4>2, <5>1, <5>2 DEF Mended
      <4> QED
        BY <4>3, <4>4
    <3> QED
      BY <3>2, <3>3, <3>4
  <2>10. CASE HealMeta
    <3>1. hpc = "meta" /\ calm /\ hmeta' = hmeta /\ hat \in Drives
      BY <2>10 DEF HealMeta, Types, HealerTypes
    <3>2. /\ \A d \in Drives : Sound(d)
          /\ \A d \in Drives : d < hat \/ d \notin badPart \cup badMeta => disk[d].meta \in Writes
      BY <3>1 DEF Mended
    <3>3. \A d \in Drives : Sound(d)'
      BY <2>10, <3>1, <3>2, HealMetaWrites DEF Sound, Same
    <3>4. CASE HealEnds("error")
      BY <2>2, <3>4 DEF HealEnds
    <3>5. CASE hat \in badPart \cup badMeta /\ up[hat]
      <4>1. hpc' = "metafill" /\ UNCHANGED <<hat, badPart, badMeta>>
        BY <2>10, <3>5 DEF HealMeta
      <4>2. \A d \in Drives : d < hat \/ d \notin badPart \cup badMeta => disk'[d].meta \in Writes
        BY <2>0, <2>10, <3>1, <3>2, <3>5, HealMetaWrites DEF Same
      <4> QED
        BY <3>3, <4>1, <4>2 DEF Mended
    <3>6. CASE hat \notin badPart \cup badMeta
      <4>1. HealNextMeta /\ disk' = disk
        BY <2>10, <3>6 DEF HealMeta
      <4>2. \A d \in Drives : d < hat + 1 \/ d \notin badPart \cup badMeta => disk'[d].meta \in Writes
        BY <2>0, <3>2, <3>6, <4>1
      <4> QED
        BY <2>0, <3>1, <3>3, <4>1, <4>2, HealerPasses
    <3> QED
      BY <2>10, <3>4, <3>5, <3>6 DEF HealMeta
  <2>11. CASE HealMetaFill
    <3>1. hpc = "metafill" /\ calm /\ hmeta' = hmeta /\ hat \in Drives /\ hmeta \in Writes
      BY <2>11 DEF HealMetaFill, Types, HealerTypes
    <3>2. /\ \A d \in Drives : Sound(d)
          /\ \A d \in Drives : d < hat \/ d \notin badPart \cup badMeta => disk[d].meta \in Writes
      BY <3>1 DEF Mended
    <3>3. \A d \in Drives : Sound(d)'
      BY <2>11, <3>1, <3>2, HealMetaFillWrites DEF Sound, Same
    <3>4. CASE HealEnds("error")
      BY <2>2, <3>4 DEF HealEnds
    <3>5. CASE up[hat]
      <4>1. HealNextMeta
        BY <2>11, <3>5 DEF HealMetaFill
      <4>2. \A d \in Drives : d < hat + 1 \/ d \notin badPart \cup badMeta => disk'[d].meta \in Writes
        BY <2>0, <2>11, <3>1, <3>2, <3>5, HealMetaFillWrites DEF Same
      <4> QED
        BY <2>0, <3>1, <3>3, <4>1, <4>2, HealerPasses
    <3> QED
      BY <2>11, <3>4, <3>5 DEF HealMetaFill
  <2>12. CASE HealAbandon
    BY <2>2, <2>12 DEF HealAbandon, HealEnds
  <2> QED
    BY <1>2, <2>1, <2>3, <2>4, <2>5, <2>6, <2>7, <2>8, <2>9, <2>10, <2>11, <2>12 DEF HealerStep
<1> QED
  BY <1>1, <1>2

LEMMA NextSteps ==
  Next => /\ WriterStep \/ HealerStep \/ ReaderStep \/ DriveStep
          /\ UNCHANGED shape /\ (~ crossed' => ~ crossed /\ Apart')
BY DEF Next

\* The healer's invariant holds throughout.
THEOREM HealInvariance == Spec => []HealInv
<1>1. Init => HealInv
  <2> SUFFICES ASSUME Init PROVE HealInv
    OBVIOUS
  <2>1. hpc = "idle" /\ calm = FALSE
    BY DEF Init
  <2> QED
    BY <2>1, InitTypes DEF HealInv, Rebuilt, Mended
<1>2. HealInv /\ [Next]_vars => HealInv'
  <2> SUFFICES ASSUME HealInv, [Next]_vars PROVE HealInv'
    OBVIOUS
  <2>1. CASE Next
    BY <2>1, NextSteps, TypesStep, RebuiltStep, MendedStep DEF HealInv
  <2>2. CASE UNCHANGED vars
    <3>1. UNCHANGED <<shape, disk, up, faults, wpc, wat, cur, ok, hpc, hat, hmeta, badPart, badMeta,
                      good, fewest, heals, rpc, rat, rmeta, rgood, reads, acked, placed, sound,
                      spared, healed, calm, rlow>>
      BY <2>2 DEF vars, writer, healer, reader, seen
    <3>2. Types'
      BY <3>1 DEF HealInv, Types, DiskTypes, WriterTypes, HealerTypes, ReaderTypes, SeenTypes,
                  Dir, Blocks, Last, DriveOf
    <3>3. Rebuilt' /\ Mended'
      BY <3>1 DEF HealInv, Rebuilt, Mended, Sound, DriveOf, BlockOf
    <3> QED
      BY <3>2, <3>3 DEF HealInv
  <2> QED
    BY <2>1, <2>2
<1> QED
  BY <1>1, <1>2, PTL DEF Spec

\* Every loop index, count and file of the writer, the healer and the reader
\* keeps its type: no loop runs past the last drive or block.
THEOREM TypeCorrect == Spec => []TypeOK
<1>1. HealInv => TypeOK
  BY DEF HealInv, Types, DiskTypes, WriterTypes, HealerTypes, ReaderTypes, SeenTypes, TypeOK, Dir, Last
<1> QED
  BY <1>1, HealInvariance, PTL

\* heal_object: a heal that nothing disturbs and that reports success leaves
\* every shard whole, with metadata that parses beside it, for any number of
\* drives, blocks and bad shards.
THEOREM HealsRebuild == Spec => []HealRebuilds
<1>1. HealInv => HealRebuilds
  <2> SUFFICES ASSUME HealInv, calm, healed \in {"healthy", "healed"}
               PROVE  \A d \in Drives : disk[d].part = hmeta /\ disk[d].rot = {} /\ disk[d].meta \in Writes
    BY DEF HealRebuilds
  <2>1. hpc = "idle"
    BY DEF HealInv, Types, HealerTypes
  <2> QED
    BY <2>1 DEF HealInv, Mended, Sound
<1> QED
  BY <1>1, HealInvariance, PTL

-----------------------------------------------------------------------------
(* Counting shards.                                                         *)

\* A part of few shards is few.
LEMMA SpareSubset ==
  ASSUME NEW S \in SUBSET Drives, NEW T \in SUBSET S, NEW n \in Nat, Spare(n + Cardinality(S))
  PROVE  Spare(n + Cardinality(T)) /\ Spare(n)
<1>1. IsFiniteSet(S) /\ Cardinality(S) \in Nat
  BY DrivesFinite
<1>2. Cardinality(T) <= Cardinality(S) /\ Cardinality(T) \in Nat
  BY <1>1, FS_Subset, DrivesFinite
<1> QED
  BY <1>1, <1>2, ConstFacts DEF Spare

\* When older shards are few, a loop that starts on a block has few ahead.
LEMMA CountStarts ==
  ASSUME NEW w, Spare(Cardinality(Old(w))), NEW i
  PROVE  Spare(0 + Cardinality(Ahead(w, i)))
<1>1. Old(w) \in SUBSET Drives /\ Ahead(w, i) \in SUBSET Old(w)
  BY DEF Old, Ahead
<1>2. Cardinality(Old(w)) \in Nat
  BY <1>1, DrivesFinite
<1>3. Spare(0 + Cardinality(Old(w)))
  BY <1>2
<1> QED
  BY <1>1, <1>3, SpareSubset

\* One shard further, the shards of write m found so far and the older ones still
\* ahead are no more than before.
LEMMA CountGoesOn ==
  ASSUME Types, NEW w \in Numbers, NEW m \in Writes, m < w, NEW i \in 1 .. Last, NEW b,
         NEW n \in Nat, Spare(n + Cardinality(Ahead(w, i)))
  PROVE  LET c == IF Matches(DriveOf(i), b, m) THEN n + 1 ELSE n
         IN  c \in Nat /\ Spare(c) /\ Spare(c + Cardinality({e \in Old(w) : e > DriveOf(i)}))
<1> DEFINE d == DriveOf(i)
           after == {e \in Old(w) : e > d}
<1>1. d \in Drives /\ Drives \subseteq Nat
  BY ShapeFacts, LoopFacts, ConstFacts DEF Last
<1>2. Ahead(w, i) = {e \in Old(w) : e >= d} /\ Old(w) \in SUBSET Drives
  BY DEF Ahead, Old
<1> HIDE DEF d
<1>3. \A e \in Drives : (e > d => e >= d) /\ (e >= d <=> e > d \/ e = d) /\ ~ (d > d)
  BY <1>1
<1>4. after \in SUBSET Ahead(w, i) /\ Ahead(w, i) \in SUBSET Drives /\ d \notin after
  BY <1>2, <1>3, <1>1
<1>5. IsFiniteSet(after) /\ Cardinality(after) \in Nat
  BY <1>4, DrivesFinite
<1>6. CASE ~ Matches(d, b, m)
  BY <1>4, <1>6, SpareSubset DEF d
<1>7. CASE Matches(d, b, m)
  <2>1. d \in Old(w)
    <3>1. disk[d].part = m /\ m # None
      BY <1>7, ConstFacts DEF Matches
    <3> QED
      BY <1>1, <3>1 DEF Old
  <2>2. Ahead(w, i) = after \cup {d}
    BY <1>2, <1>3, <2>1
  <2> HIDE DEF after
  <2>3. Cardinality(after \cup {d}) = Cardinality(after) + 1
    BY <1>4, <1>5, FS_AddElement
  <2>4. Spare((n + 1) + Cardinality(after)) /\ Spare(n + 1)
    BY <1>5, <2>2, <2>3, ConstFacts DEF Spare
  <2> QED
    BY <1>7, <2>4 DEF after, d
<1> QED
  BY <1>6, <1>7 DEF d

-----------------------------------------------------------------------------
(* Where shards come from.                                                  *)

\* No shard is put on a drive that is older than the acknowledged write: the
\* writer publishes its own, and the healer shards of a write it found enough of.
LEMMA PartStep ==
  ASSUME Types, Rebuilt, Order, Written, Scanned, WriterStep \/ HealerStep \/ ReaderStep \/ DriveStep
  PROVE  \A d \in Drives : disk'[d].part \in {disk[d].part, None} \/ disk'[d].part >= acked
<1>1. CASE disk' = disk
  BY <1>1
<1>2. CASE Stage
  BY <1>2, StageWrites DEF Same
<1>3. CASE Publish
  <2>1. wat \in ok => disk[wat].tmp \in {cur, None}
    BY <1>3 DEF Publish, Written, Types, WriterTypes, Drives
  <2>2. cur >= acked
    BY ConstFacts DEF Order, Types, WriterTypes, SeenTypes
  <2> QED
    BY <1>3, <2>1, <2>2, PublishWrites DEF Same
<1>4. CASE Seal
  BY <1>4, SealWrites DEF Same
<1>5. CASE SealFill
  BY <1>5, SealFillWrites DEF Same
<1>6. CASE Rollback \/ Delete
  BY <1>6, RemoveWrites, BlankFields DEF Same, Rollback, Delete
<1>7. CASE HealCreate
  BY <1>7, HealCreateWrites DEF Same
<1>8. CASE HealRename
  <2>1. hpc = "rename" /\ hmeta >= acked
    BY <1>8 DEF HealRename, Scanned
  <2>2. hat \in badPart => disk[hat].htmp \in {hmeta, None}
    BY <2>1 DEF Rebuilt
  <2> QED
    BY <1>8, <2>1, <2>2, HealRenameWrites DEF Same
<1>9. CASE HealMeta
  BY <1>9, HealMetaWrites DEF Same
<1>10. CASE HealMetaFill
  BY <1>10, HealMetaFillWrites DEF Same
<1>11. ASSUME NEW e \in Drives, Replace(e)
       PROVE  \A d \in Drives : disk'[d].part \in {disk[d].part, None}
  BY <1>11, ReplaceWrites, BlankFields DEF Same
<1>12. ASSUME NEW e \in Drives, NEW b \in Blocks, Rot(e, b)
       PROVE  \A d \in Drives : disk'[d].part \in {disk[d].part, None}
  BY <1>12, RotWrites DEF Same
<1>13. WriterStep => disk' = disk \/ Stage \/ Publish \/ Seal \/ SealFill \/ Rollback \/ Delete
  BY DEF WriterStep, BeginPut, BodyFails, Decide, BeginDelete, Abandon
<1>14. HealerStep => disk' = disk \/ HealCreate \/ HealRename \/ HealMeta \/ HealMetaFill
  BY DEF HealerStep, HealBegins, HealFind, HealMetas, HealScan, HealJudge, HealRebuild, HealAbandon
<1>15. ReaderStep => disk' = disk
  BY DEF ReaderStep, GetBegins, GetFind, GetRead
<1>16. DriveStep => \/ disk' = disk
                    \/ \E d \in Drives : Replace(d) \/ \E b \in Blocks : Rot(d, b)
  BY DEF DriveStep, Down, Return
<1> QED
  BY <1>1, <1>2, <1>3, <1>4, <1>5, <1>6, <1>7, <1>8, <1>9, <1>10, <1>11, <1>12, <1>13, <1>14, <1>15, <1>16

\* So shards older than a write no newer than the acknowledged one only go.
LEMMA OldStep ==
  ASSUME Types, Rebuilt, Order, Written, Scanned, UNCHANGED shape,
         WriterStep \/ HealerStep \/ ReaderStep \/ DriveStep, NEW w \in Numbers, w <= acked
  PROVE  {d \in Drives : disk'[d].part # None /\ disk'[d].part < w} \subseteq Old(w)
<1> SUFFICES ASSUME NEW d \in Drives, disk'[d].part # None, disk'[d].part < w
             PROVE  disk[d].part # None /\ disk[d].part < w
  BY DEF Old
<1>1. disk'[d].part \in {disk[d].part, None} \/ disk'[d].part >= acked
  BY PartStep
<1>2. disk'[d].part \in Numbers
  BY DiskTypesStep DEF DiskTypes, Dir
<1> QED
  BY <1>1, <1>2, ConstFacts DEF Types, SeenTypes

\* Metadata comes from the PUT and from the write that is being healed.
LEMMA MetaStep ==
  ASSUME Types, WriterStep \/ HealerStep \/ ReaderStep \/ DriveStep, NEW d \in Drives
  PROVE  \/ disk'[d].meta \in {disk[d].meta, None, Torn}
         \/ SealFill /\ disk'[d].meta = cur
         \/ HealMetaFill /\ disk'[d].meta = hmeta
<1>1. CASE disk' = disk
  BY <1>1
<1>2. CASE Stage
  BY <1>2, StageWrites DEF Same
<1>3. CASE Publish
  BY <1>3, PublishWrites DEF Same
<1>4. CASE Seal
  BY <1>4, SealWrites DEF Same
<1>5. CASE SealFill
  BY <1>5, SealFillWrites DEF Same
<1>6. CASE Rollback \/ Delete
  BY <1>6, RemoveWrites, BlankFields DEF Same, Rollback, Delete
<1>7. CASE HealCreate
  BY <1>7, HealCreateWrites DEF Same
<1>8. CASE HealRename
  BY <1>8, HealRenameWrites DEF Same
<1>9. CASE HealMeta
  BY <1>9, HealMetaWrites DEF Same
<1>10. CASE HealMetaFill
  BY <1>10, HealMetaFillWrites DEF Same
<1>11. ASSUME NEW e \in Drives, Replace(e)
       PROVE  disk'[d].meta \in {disk[d].meta, None}
  BY <1>11, ReplaceWrites, BlankFields DEF Same
<1>12. ASSUME NEW e \in Drives, NEW b \in Blocks, Rot(e, b)
       PROVE  disk'[d].meta = disk[d].meta
  BY <1>12, RotWrites DEF Same
<1>13. WriterStep => disk' = disk \/ Stage \/ Publish \/ Seal \/ SealFill \/ Rollback \/ Delete
  BY DEF WriterStep, BeginPut, BodyFails, Decide, BeginDelete, Abandon
<1>14. HealerStep => disk' = disk \/ HealCreate \/ HealRename \/ HealMeta \/ HealMetaFill
  BY DEF HealerStep, HealBegins, HealFind, HealMetas, HealScan, HealJudge, HealRebuild, HealAbandon
<1>15. ReaderStep => disk' = disk
  BY DEF ReaderStep, GetBegins, GetFind, GetRead
<1>16. DriveStep => \/ disk' = disk
                    \/ \E e \in Drives : Replace(e) \/ \E b \in Blocks : Rot(e, b)
  BY DEF DriveStep, Down, Return
<1> QED
  BY <1>1, <1>2, <1>3, <1>4, <1>5, <1>6, <1>7, <1>8, <1>9, <1>10, <1>11, <1>12, <1>13, <1>14, <1>15, <1>16

\* Who changes the numbers.
LEMMA NumberSteps ==
  ASSUME WriterStep \/ HealerStep \/ ReaderStep \/ DriveStep
  PROVE  /\ cur' = cur \/ BeginPut
         /\ acked' = acked \/ (Decide /\ acked' = cur /\ EnoughShards)
         /\ rlow' = rlow \/ GetBegins
         /\ hmeta' = hmeta \/ HealBegins \/ HealFind
<1>1. CASE WriterStep
  BY <1>1 DEF WriterStep, BeginPut, Stage, BodyFails, Publish, Seal, SealFill, Decide, Rollback,
              BeginDelete, Delete, Abandon, healer, seen
<1>2. CASE HealerStep
  BY <1>2 DEF HealerStep, HealBegins, HealFind, HealMetas, HealScan, HealJudge, HealCreate,
              HealRebuild, HealRename, HealMeta, HealMetaFill, HealAbandon, writer, seen
<1>3. CASE ReaderStep
  BY <1>3 DEF ReaderStep, GetBegins, GetFind, GetRead, writer, healer, seen
<1>4. CASE DriveStep
  BY <1>4 DEF DriveStep, Down, Return, Replace, Rot, writer, healer
<1> QED
  BY <1>1, <1>2, <1>3, <1>4

LEMMA OrderStep ==
  ASSUME Types, Order, UNCHANGED shape, WriterStep \/ HealerStep \/ ReaderStep \/ DriveStep
  PROVE  Order'
<1>1. /\ cur \in Nat /\ acked \in Nat /\ rlow \in Nat /\ hmeta \in Nat /\ Torn \in Nat
      /\ None = 0 /\ Torn \notin Writes
  BY ConstFacts DEF Types, WriterTypes, HealerTypes, SeenTypes, None
<1>2. cur' \in Nat /\ cur <= cur'
  BY <1>1, NumberSteps DEF BeginPut
<1>3. acked' \in {acked, cur} /\ acked' \in Nat /\ acked <= acked'
  BY <1>1, NumberSteps DEF Order
<1>4. acked' <= cur'
  BY <1>1, <1>2, <1>3 DEF Order
<1>5. rlow' \in {rlow, acked}
  BY NumberSteps DEF GetBegins
<1>6. rlow' <= acked'
  BY <1>1, <1>3, <1>5 DEF Order
<1>7. hmeta' <= cur'
  <2>1. CASE hmeta' = hmeta
    BY <1>1, <1>2, <2>1 DEF Order
  <2>2. CASE HealBegins
    BY <1>1, <1>2, <2>2 DEF HealBegins
  <2>3. CASE HealFind
    <3>1. hmeta' = hmeta \/ (HasMeta(hat) /\ hmeta' = disk[hat].meta)
      BY <2>3 DEF HealFind
    <3>2. CASE HasMeta(hat) /\ hmeta' = disk[hat].meta
      <4>1. hat \in Drives /\ disk[hat].meta \in Writes /\ disk[hat].meta # Torn
        BY <1>1, <2>3, <3>2 DEF HealFind, HasMeta, Types, HealerTypes
      <4>2. disk[hat].meta <= cur /\ disk[hat].meta \in Nat
        BY <4>1, ConstFacts DEF Order, Writes
      <4> QED
        BY <1>1, <1>2, <3>2, <4>2
    <3> QED
      BY <2>1, <3>1, <3>2
  <2> QED
    BY <2>1, <2>2, <2>3, NumberSteps
<1>8. \A d \in Drives : disk'[d].meta <= cur' \/ disk'[d].meta = Torn
  <2> SUFFICES ASSUME NEW d \in Drives PROVE disk'[d].meta <= cur' \/ disk'[d].meta = Torn
    OBVIOUS
  <2>1. disk'[d].meta \in {disk[d].meta, None, Torn, cur, hmeta}
    BY MetaStep
  <2>2. disk[d].meta \in Nat /\ (disk[d].meta <= cur \/ disk[d].meta = Torn) /\ hmeta <= cur
    BY <1>1, DirFields, ConstFacts DEF Order
  <2> QED
    BY <1>1, <1>2, <2>1, <2>2
<1> QED
  BY <1>4, <1>6, <1>7, <1>8 DEF Order

\* What the PUT has written stays, on the drives that are not hurt.
LEMMA WrittenStays ==
  ASSUME Written, UNCHANGED <<wpc, wat, cur, ok>>,
         \A d \in ok : /\ disk'[d].tmp \in {disk[d].tmp, None}
                       /\ d \in sound' => d \in sound /\ disk'[d].tmp = disk[d].tmp,
         \A d \in ok : /\ wpc \notin {"idle", "stage"} => disk'[d].part \in {disk[d].part, None}
                       /\ wpc \notin {"idle", "stage"} /\ d \in sound' =>
                            /\ disk'[d].part = disk[d].part
                            /\ disk'[d].rot = disk[d].rot /\ disk'[d].meta = disk[d].meta
  PROVE  Written'
<1> SUFFICES ASSUME NEW d \in ok'
    PROVE  /\ (wpc' = "stage" /\ d < wat') \/ (wpc' = "publish" /\ d >= wat') =>
                disk'[d].tmp \in {cur', None} /\ (d \in sound' => disk'[d].tmp = cur')
           /\ (wpc' = "publish" /\ d < wat') \/ wpc' \in {"seal", "sealing", "decide"} =>
                /\ disk'[d].part \in {cur', None}
                /\ d \in sound' => disk'[d].part = cur' /\ disk'[d].rot = {}
           /\ (wpc' \in {"seal", "sealing"} /\ d < wat') \/ wpc' = "decide" =>
                (d \in sound' => disk'[d].meta = cur')
  BY DEF Written
<1>1. d \in ok
  OBVIOUS
<1>2. ASSUME (wpc = "stage" /\ d < wat) \/ (wpc = "publish" /\ d >= wat)
      PROVE  disk'[d].tmp \in {cur, None} /\ (d \in sound' => disk'[d].tmp = cur)
  BY <1>1, <1>2 DEF Written
<1>3. ASSUME (wpc = "publish" /\ d < wat) \/ wpc \in {"seal", "sealing", "decide"}
      PROVE  /\ disk'[d].part \in {cur, None}
             /\ d \in sound' => disk'[d].part = cur /\ disk'[d].rot = {}
  BY <1>1, <1>3 DEF Written
<1>4. ASSUME (wpc \in {"seal", "sealing"} /\ d < wat) \/ wpc = "decide"
      PROVE  d \in sound' => disk'[d].meta = cur
  BY <1>1, <1>4 DEF Written
<1> QED
  BY <1>2, <1>3, <1>4

LEMMA WrittenStep ==
  ASSUME Types, Apart, Written, UNCHANGED shape, WriterStep \/ HealerStep \/ ReaderStep \/ DriveStep,
         Apart'
  PROVE  Written'
<1>0. wat \in Drives /\ Drives = 1 .. N /\ N \in Nat /\ ok \in SUBSET Drives
  BY ConstFacts DEF Types, WriterTypes, Drives
<1>1. CASE WriterStep
  <2>1. CASE wpc' \in {"idle", "rollback", "delete"}
    BY <2>1 DEF Written
  <2>2. CASE BeginPut
    BY <1>0, <2>2 DEF BeginPut, Written
  <2>3. CASE Stage
    <3>1. /\ wpc = "stage" /\ UNCHANGED <<cur, sound>> /\ ok' \in SUBSET ok
          /\ wat \in ok' => up[wat]
          /\ (wpc' = "stage" /\ wat' = wat + 1) \/ (wpc' = "publish" /\ wat' = 1 /\ wat = N)
      BY <1>0, <2>3 DEF Stage, WNext, seen
    <3>2. \A d \in ok' : d <= wat =>
            disk'[d].tmp \in {cur, None} /\ (d \in sound => disk'[d].tmp = cur)
      <4> SUFFICES ASSUME NEW d \in ok', d <= wat
                   PROVE  disk'[d].tmp \in {cur, None} /\ (d \in sound => disk'[d].tmp = cur)
        OBVIOUS
      <4>1. d \in ok /\ d \in Drives
        BY <1>0, <3>1
      <4>2. CASE d = wat
        BY <2>3, <3>1, <4>2, StageWrites
      <4>3. CASE d # wat
        <5>1. d < wat
          BY <1>0, <4>1, <4>3
        <5>2. disk'[d] = disk[d]
          BY <2>3, <4>1, <4>3, StageWrites DEF Same
        <5> QED
          BY <3>1, <4>1, <5>1, <5>2 DEF Written
      <4> QED
        BY <4>2, <4>3
    <3>3. CASE wpc' = "stage" /\ wat' = wat + 1
      <4>1. \A d \in ok' : d < wat' => d <= wat
        BY <1>0, <3>1, <3>3
      <4> QED
        BY <3>1, <3>2, <3>3, <4>1 DEF Written
    <3>4. CASE wpc' = "publish" /\ wat' = 1 /\ wat = N
      <4>1. \A d \in ok' : d <= wat /\ ~ (d < wat')
        BY <1>0, <3>1, <3>4
      <4> QED
        BY <3>1, <3>2, <3>4, <4>1 DEF Written
    <3> QED
      BY <3>1, <3>3, <3>4
  <2>4. CASE Publish
    <3>1. /\ wpc = "publish" /\ UNCHANGED <<cur, sound>> /\ ok' \in SUBSET ok
          /\ wat \in ok' => wat \in ok /\ up[wat] /\ disk[wat].tmp # None
          /\ (wpc' = "publish" /\ wat' = wat + 1) \/ (wpc' = "seal" /\ wat' = 1 /\ wat = N)
      BY <1>0, <2>4 DEF Publish, WNext, Answered
    <3>2. \A d \in ok' : d > wat =>
            disk'[d].tmp \in {cur, None} /\ (d \in sound => disk'[d].tmp = cur)
      BY <1>0, <2>4, <3>1, PublishWrites DEF Same, Written
    <3>3. \A d \in ok' : d < wat =>
            disk'[d].part \in {cur, None} /\ (d \in sound => disk'[d].part = cur /\ disk'[d].rot = {})
      BY <1>0, <2>4, <3>1, PublishWrites DEF Same, Written
    <3>4. wat \in ok' => disk'[wat].part = cur /\ disk'[wat].rot = {}
      BY <1>0, <2>4, <3>1, PublishWrites DEF Written
    <3>5. \A d \in ok' : d < wat + 1 =>
            disk'[d].part \in {cur, None} /\ (d \in sound => disk'[d].part = cur /\ disk'[d].rot = {})
      BY <1>0, <3>1, <3>3, <3>4
    <3>6. CASE wpc' = "publish" /\ wat' = wat + 1
      BY <1>0, <3>1, <3>2, <3>5, <3>6 DEF Written
    <3>7. CASE wpc' = "seal" /\ wat' = 1 /\ wat = N
      <4>1. \A d \in ok' : d < wat + 1 /\ ~ (d < wat')
        BY <1>0, <3>1, <3>7
      <4>2. \A d \in ok' :
              disk'[d].part \in {cur', None} /\ (d \in sound' => disk'[d].part = cur' /\ disk'[d].rot = {})
        BY <3>1, <3>5, <4>1
      <4> QED
        BY <3>7, <4>1, <4>2 DEF Written
    <3> QED
      BY <3>1, <3>6, <3>7
  <2>5. CASE Seal
    <3>1. /\ wpc = "seal" /\ UNCHANGED <<cur, sound>> /\ ok' \in SUBSET ok
          /\ \/ wpc' = "sealing" /\ wat' = wat
             \/ wpc' = "seal" /\ wat' = wat + 1 /\ wat \notin ok'
             \/ wpc' = "decide" /\ wat = N /\ wat \notin ok'
      BY <1>0, <2>5 DEF Seal, WNext
    <3>2. \A d \in ok' : /\ disk'[d].part \in {cur, None}
                         /\ d \in sound => disk'[d].part = cur /\ disk'[d].rot = {}
      BY <1>0, <2>5, <3>1, SealWrites DEF Same, Written
    <3>3. \A d \in ok' : d < wat /\ d \in sound => disk'[d].meta = cur
      BY <1>0, <2>5, <3>1, SealWrites DEF Same, Written
    <3> QED
      BY <1>0, <3>1, <3>2, <3>3 DEF Written
  <2>6. CASE SealFill
    <3>1. /\ wpc = "sealing" /\ UNCHANGED <<cur, sound>> /\ ok' \in SUBSET ok
          /\ wat \in ok' => up[wat]
          /\ \/ wpc' = "seal" /\ wat' = wat + 1
             \/ wpc' = "decide" /\ wat = N
      BY <1>0, <2>6 DEF SealFill, Answered
    <3>2. \A d \in ok' : /\ disk'[d].part \in {cur, None}
                         /\ d \in sound => disk'[d].part = cur /\ disk'[d].rot = {}
      BY <1>0, <2>6, <3>1, SealFillWrites DEF Same, Written
    <3>3. \A d \in ok' : d <= wat /\ d \in sound => disk'[d].meta = cur
      BY <1>0, <2>6, <3>1, SealFillWrites DEF Same, Written
    <3> QED
      BY <1>0, <3>1, <3>2, <3>3 DEF Written
  <2>7. BodyFails \/ Decide \/ Abandon \/ BeginDelete => wpc' \in {"idle", "rollback", "delete"}
    BY DEF BodyFails, Decide, Abandon, BeginDelete
  <2>8. Rollback \/ Delete => wpc' \in {"idle", "rollback", "delete"}
    BY DEF Rollback, Delete, WNext
  <2> QED
    BY <1>1, <2>1, <2>2, <2>3, <2>4, <2>5, <2>6, <2>7, <2>8 DEF WriterStep
<1>2. CASE HealerStep
  <2>1. UNCHANGED <<wpc, wat, cur, ok, sound>>
    BY <1>2 DEF HealerStep, HealBegins, HealFind, HealMetas, HealScan, HealJudge, HealCreate,
                HealRebuild, HealRename, HealMeta, HealMetaFill, HealAbandon, writer, seen
  <2>2. CASE disk' = disk
    BY <2>1, <2>2, WrittenStays
  <2>3. CASE disk' # disk
    <3>1. HealCreate \/ HealRename \/ HealMeta \/ HealMetaFill
      BY <1>2, <2>3 DEF HealerStep, HealBegins, HealFind, HealMetas, HealScan, HealJudge, HealRebuild,
                        HealAbandon
    <3>2. wpc \in {"idle", "stage"}
      BY <3>1 DEF HealCreate, HealRename, HealMeta, HealMetaFill, Apart, Changing, Types, WriterTypes
    <3>3. \A d \in Drives : disk'[d].tmp = disk[d].tmp
      BY <3>1, HealCreateWrites, HealRenameWrites, HealMetaWrites, HealMetaFillWrites DEF Same
    <3> QED
      BY <1>0, <2>1, <3>2, <3>3, WrittenStays
  <2> QED
    BY <2>2, <2>3
<1>3. CASE ReaderStep
  <2>1. UNCHANGED <<wpc, wat, cur, ok, sound, disk>>
    BY <1>3 DEF ReaderStep, GetBegins, GetFind, GetRead, writer, seen
  <2> QED
    BY <2>1, WrittenStays
<1>4. CASE DriveStep
  <2>1. UNCHANGED <<wpc, wat, cur, ok>>
    BY <1>4 DEF DriveStep, Down, Return, Replace, Rot, writer
  <2>2. ASSUME NEW d \in Drives, Down(d) \/ Return(d) PROVE Written'
    <3>1. UNCHANGED <<disk, sound>>
      BY <2>2 DEF Down, Return
    <3> QED
      BY <2>1, <3>1, WrittenStays
  <2>3. ASSUME NEW d \in Drives, Replace(d) PROVE Written'
    <3>1. sound' = sound \ {d}
      BY <2>3 DEF Replace, Hurt
    <3> QED
      BY <1>0, <2>1, <2>3, <3>1, ReplaceWrites, BlankFields, WrittenStays DEF Same
  <2>4. ASSUME NEW d \in Drives, NEW b \in Blocks, Rot(d, b) PROVE Written'
    <3>1. sound' = sound \ {d}
      BY <2>4 DEF Rot, Hurt
    <3> QED
      BY <1>0, <2>1, <2>4, <3>1, RotWrites, WrittenStays DEF Same
  <2> QED
    BY <1>4, <2>2, <2>3, <2>4 DEF DriveStep
<1> QED
  BY <1>1, <1>2, <1>3, <1>4

\* An acknowledged PUT leaves older shards only where it failed.
LEMMA FewStep ==
  ASSUME Types, Rebuilt, Order, Written, Scanned, Few, UNCHANGED shape,
         WriterStep \/ HealerStep \/ ReaderStep \/ DriveStep
  PROVE  Few'
<1> DEFINE Left == {d \in Drives : disk'[d].part # None /\ disk'[d].part < acked'}
<1>1. Few' <=> Spare(Cardinality(Left))
  BY DEF Few, Old, Spare
<1>2. CASE acked' = acked
  <2>1. acked \in Numbers /\ acked <= acked
    BY ConstFacts DEF Types, SeenTypes
  <2>2. Left \subseteq Old(acked)
    BY <1>2, <2>1, OldStep
  <2>3. Old(acked) \in SUBSET Drives /\ Cardinality(Old(acked)) \in Nat
    BY DrivesFinite DEF Old
  <2>4. Spare(0 + Cardinality(Old(acked)))
    BY <2>3 DEF Few
  <2> HIDE DEF Left
  <2>5. Spare(0 + Cardinality(Left))
    BY <2>2, <2>3, <2>4, SpareSubset
  <2>6. Cardinality(Left) \in Nat
    BY <2>2, <2>3, DrivesFinite
  <2> QED
    BY <1>1, <2>5, <2>6
<1>3. CASE Decide /\ acked' = cur /\ EnoughShards
  <2>1. ok \in SUBSET Drives /\ cur \in Nat /\ wpc = "decide" /\ disk' = disk
    BY <1>3, ConstFacts DEF Decide, Types, WriterTypes
  <2>2. \A d \in ok : disk[d].part \in {cur, None}
    BY <2>1 DEF Written
  <2>3. Left \subseteq Drives \ ok
    BY <1>3, <2>1, <2>2
  <2>4. Cardinality(Drives \ ok) = N - Cardinality(ok) /\ Cardinality(ok) \in Nat
    <3>1. Drives \cap ok = ok
      BY <2>1
    <3> QED
      BY <2>1, <3>1, DrivesFinite, FS_Difference
  <2>5. Drives \ ok \in SUBSET Drives /\ Spare(0 + Cardinality(Drives \ ok))
    BY <1>3, <2>4, ConstFacts DEF Spare, EnoughShards
  <2> HIDE DEF Left
  <2>6. Spare(0 + Cardinality(Left))
    BY <2>3, <2>5, SpareSubset
  <2>7. Cardinality(Left) \in Nat
    BY <2>3, DrivesFinite
  <2> QED
    BY <1>1, <2>6, <2>7
<1> QED
  BY <1>2, <1>3, NumberSteps

\* Fewer shards are ahead of a loop that has not moved, and few stay few.
LEMMA AheadStep ==
  ASSUME Types, Rebuilt, Order, Written, Scanned, UNCHANGED shape,
         WriterStep \/ HealerStep \/ ReaderStep \/ DriveStep,
         NEW w \in Numbers, w <= acked, NEW i, NEW n \in Nat, Spare(n + Cardinality(Ahead(w, i)))
  PROVE  Spare(n + Cardinality({e \in {d \in Drives : disk'[d].part # None /\ disk'[d].part < w} :
                                  e >= DriveOf(i)}))
<1> DEFINE Left == {e \in {d \in Drives : disk'[d].part # None /\ disk'[d].part < w} : e >= DriveOf(i)}
<1>1. Left \subseteq Ahead(w, i)
  BY OldStep DEF Ahead
<1>2. Ahead(w, i) \in SUBSET Drives
  BY DEF Ahead, Old
<1> HIDE DEF Left
<1>3. Spare(n + Cardinality(Left))
  BY <1>1, <1>2, SpareSubset
<1> QED
  BY <1>3 DEF Left

\* Beside the healer: a PUT is not acknowledged while a heal is under way.
LEMMA ScannedBeside ==
  ASSUME Types, Apart, Rebuilt, Order, Written, Scanned, UNCHANGED shape,
         WriterStep \/ ReaderStep \/ DriveStep
  PROVE  Scanned'
<1>1. UNCHANGED <<hpc, hat, hmeta, badPart, good, fewest>>
  BY BesideHealer DEF healer
<1>2. CASE hpc = "idle"
  BY <1>1, <1>2 DEF Scanned
<1>3. CASE hpc # "idle"
  <2>1. acked' = acked
    BY <1>3, NumberSteps DEF Decide, Apart, Changing
  <2>2. acked \in Numbers /\ acked <= acked /\ good \in Nat
    BY ConstFacts DEF Types, SeenTypes, HealerTypes
  <2>3. hpc = "scan" /\ hmeta < acked => Spare(good + Cardinality(Ahead(acked, hat)))
    BY DEF Scanned
  <2>4. hpc = "scan" /\ hmeta < acked =>
          Spare(good + Cardinality({e \in {d \in Drives : disk'[d].part # None /\ disk'[d].part < acked} :
                                      e >= DriveOf(hat)}))
    BY <2>2, <2>3, AheadStep
  <2>5. DriveOf(hat)' = DriveOf(hat)
    BY <1>1 DEF DriveOf
  <2>6. Ahead(acked, hat)' = {e \in {d \in Drives : disk'[d].part # None /\ disk'[d].part < acked} :
                                      e >= DriveOf(hat)}
    BY <2>1, <2>5 DEF Ahead, Old
  <2>7. hpc' = "scan" /\ hmeta' < acked' =>
          /\ Spare(good' + Cardinality(Ahead(acked, hat)'))
          /\ hat' > N => Spare(fewest')
    <3>1. hpc = "scan" /\ hmeta < acked /\ hat > N => Spare(fewest)
      BY DEF Scanned
    <3> QED
      BY <1>1, <2>1, <2>4, <2>6, <3>1 DEF Spare
  <2>8. hpc' = "scan" /\ badPart' = {} => good' = DriveOf(hat)' - 1 /\ fewest' = N
    BY <1>1, <2>5 DEF Scanned
  <2>9. /\ hpc' = "judge" /\ hmeta' < acked' => Spare(fewest')
        /\ hpc' = "judge" /\ badPart' = {} => fewest' = N
        /\ hpc' \in {"create", "rebuild", "rename", "meta", "metafill"} => hmeta' >= acked'
    BY <1>1, <2>1 DEF Scanned, Spare
  <2> QED
    BY <2>7, <2>8, <2>9 DEF Scanned, Spare
<1> QED
  BY <1>2, <1>3

\* The scan, one shard further.
LEMMA ScannedOn ==
  ASSUME Types, Few, Scanned, HealScan
  PROVE  Scanned'
<1> DEFINE d == DriveOf(hat)
           match == Matches(d, BlockOf(hat), hmeta)
           count == IF match THEN good + 1 ELSE good
<1>1. /\ hpc = "scan" /\ UNCHANGED <<disk, hmeta, acked>>
      /\ badPart' = (IF match THEN badPart ELSE badPart \cup {d})
      /\ good' = (IF d = N THEN 0 ELSE count)
      /\ fewest' = (IF d = N /\ count < fewest THEN count ELSE fewest)
      /\ HNext(Last, "judge")
  BY DEF HealScan, seen, Last
<1>2. /\ hat \in 1 .. Last /\ Last \in Nat /\ N \in Nat /\ good \in Nat /\ fewest \in Nat
      /\ hmeta \in Writes /\ acked \in Numbers
  BY <1>1, ConstFacts, ShapeFacts DEF Types, HealerTypes, SeenTypes, Last
<1>3. /\ d \in Drives /\ d \in Nat /\ d <= N
      /\ hat <= N => d = hat
      /\ d = N => hat >= N /\ DriveOf(hat + 1) = 1
      /\ d < N => hat < Last /\ DriveOf(hat + 1) = d + 1
  <2>1. shape.blocks \in Nat \ {0} /\ hat \in 1 .. N * shape.blocks
    BY <1>2, ShapeFacts DEF Last
  <2>2. /\ d \in Drives /\ (hat <= N => d = hat)
        /\ d = N => hat >= N /\ DriveOf(hat + 1) = 1
        /\ d < N => hat < Last /\ DriveOf(hat + 1) = d + 1
    BY <2>1, LoopFacts DEF Last
  <2> HIDE DEF d
  <2>3. d \in Nat /\ d <= N
    BY <2>2, ConstFacts DEF Drives
  <2> QED
    BY <2>2, <2>3
<1>4. \/ hpc' = "scan" /\ hat' = hat + 1 /\ hat < Last
      \/ hpc' = "judge" /\ hat' = 1 /\ d = N
  BY <1>1, <1>2, <1>3 DEF HNext
<1>5. DriveOf(hat)' = DriveOf(hat')
  BY DEF DriveOf
<1>6. Ahead(acked, hat)' = Ahead(acked, hat')
  BY <1>1, <1>5 DEF Ahead, Old
<1> HIDE DEF d, match
<1>7. count \in Nat
  BY <1>2
<1>8. ASSUME hmeta < acked
      PROVE  Spare(count) /\ Spare(count + Cardinality({e \in Old(acked) : e > d}))
  <2>1. Spare(good + Cardinality(Ahead(acked, hat)))
    BY <1>1, <1>8 DEF Scanned
  <2> QED
    BY <1>2, <1>8, <2>1, CountGoesOn DEF d, match
<1>9. ASSUME hmeta < acked, d = N PROVE Spare(fewest')
  <2>1. fewest' = IF count < fewest THEN count ELSE fewest
    BY <1>1, <1>9
  <2> HIDE DEF count
  <2> QED
    BY <1>2, <1>7, <1>8, <1>9, <2>1, ConstFacts DEF Spare
<1>10. ASSUME hpc' = "scan", hmeta' < acked'
       PROVE  Spare(good' + Cardinality(Ahead(acked, hat')))
  <2>1. hat' = hat + 1 /\ hmeta < acked
    BY <1>1, <1>4, <1>10
  <2>2. CASE d = N
    <3>1. Spare(0 + Cardinality(Ahead(acked, hat')))
      BY CountStarts DEF Few
    <3> QED
      BY <1>1, <2>2, <3>1
  <2>3. CASE d # N
    <3>1. DriveOf(hat') = d + 1 /\ good' = count
      BY <1>1, <1>2, <1>3, <2>1, <2>3
    <3>2. \A e \in Drives : e >= d + 1 <=> e > d
      BY <1>3, ConstFacts
    <3>3. Ahead(acked, hat') = {e \in Old(acked) : e > d}
      BY <3>1, <3>2 DEF Ahead, Old
    <3> QED
      BY <1>8, <2>1, <3>1, <3>3
  <2> QED
    BY <2>2, <2>3
<1>11. ASSUME hpc' = "scan", hmeta' < acked', hat' > N PROVE Spare(fewest')
  <2>1. hat' = hat + 1 /\ hmeta < acked
    BY <1>1, <1>4, <1>11
  <2>2. CASE d = N
    BY <1>9, <2>1, <2>2
  <2>3. CASE d # N
    <3>1. hat > N
      BY <1>2, <1>3, <1>11, <2>1, <2>3
    <3> QED
      BY <1>1, <2>1, <2>3, <3>1 DEF Scanned
  <2> QED
    BY <2>2, <2>3
<1>12. ASSUME badPart' = {} PROVE count = d /\ fewest = N
  <2>1. badPart = {} /\ match
    BY <1>1, <1>12
  <2>2. good = d - 1 /\ fewest = N
    BY <1>1, <2>1 DEF Scanned, d
  <2> QED
    BY <1>3, <2>1, <2>2
<1>13. ASSUME hpc' = "scan", badPart' = {} PROVE good' = DriveOf(hat') - 1 /\ fewest' = N
  <2>1. hat' = hat + 1
    BY <1>4, <1>13
  <2> HIDE DEF count
  <2>2. count = d /\ fewest = N
    BY <1>12, <1>13
  <2>3. CASE d = N
    BY <1>1, <1>2, <1>3, <2>1, <2>2, <2>3
  <2>4. CASE d < N
    BY <1>1, <1>2, <1>3, <2>1, <2>2, <2>4
  <2> QED
    BY <1>2, <1>3, <2>3, <2>4
<1>14. hpc' = "judge" /\ hmeta' < acked' => Spare(fewest')
  BY <1>1, <1>4, <1>9
<1>15. hpc' = "judge" /\ badPart' = {} => fewest' = N
  <2> HIDE DEF count
  <2> QED
    BY <1>1, <1>2, <1>12
<1>16. hpc' \notin {"create", "rebuild", "rename", "meta", "metafill"}
  BY <1>4
<1> HIDE DEF count
<1>17. hpc' = "scan" /\ hmeta' < acked' =>
         /\ Spare(good' + Cardinality(Ahead(acked, hat)'))
         /\ hat' > N => Spare(fewest')
  BY <1>6, <1>10, <1>11
<1>18. hpc' = "scan" /\ badPart' = {} => good' = DriveOf(hat)' - 1 /\ fewest' = N
  BY <1>5, <1>13
<1> QED
  BY <1>14, <1>15, <1>16, <1>17, <1>18 DEF Scanned, Spare

LEMMA ScannedStep ==
  ASSUME ParityWithinData, Types, Apart, Rebuilt, Order, Written, Scanned, Few, UNCHANGED shape,
         WriterStep \/ HealerStep \/ ReaderStep \/ DriveStep
  PROVE  Scanned'
<1>1. CASE WriterStep \/ ReaderStep \/ DriveStep
  BY <1>1, ScannedBeside
<1>2. CASE HealerStep
  <2>1. acked' = acked
    BY <1>2 DEF HealerStep, HealBegins, HealFind, HealMetas, HealScan, HealJudge, HealCreate,
                HealRebuild, HealRename, HealMeta, HealMetaFill, HealAbandon, seen
  <2>2. CASE hpc' \in {"idle", "find", "metas"}
    BY <2>2 DEF Scanned
  <2>3. CASE HealMetas
    <3>1. /\ UNCHANGED <<disk, badPart, good, fewest, hmeta>> /\ HNext(N, "scan")
          /\ badPart = {} /\ good = 0 /\ fewest = N /\ hpc = "metas"
      BY <2>3 DEF HealMetas, Types, HealerTypes
    <3>2. CASE hpc' = "scan" /\ hat' = 1
      <4>1. DriveOf(hat)' = 1 /\ 1 \in Drives /\ ~ (hat' > N)
        <5>1. DriveOf(1) = 1 /\ N >= 1
          BY ShapeFacts, LoopFacts, ConstFacts
        <5> QED
          BY <3>2, <5>1, ConstFacts DEF DriveOf
      <4>2. Ahead(acked, hat)' = Ahead(acked, 1)
        BY <2>1, <3>1, <3>2 DEF Ahead, Old, DriveOf
      <4>3. Spare(0 + Cardinality(Ahead(acked, 1)))
        BY CountStarts DEF Few
      <4> QED
        BY <3>1, <3>2, <4>1, <4>2, <4>3 DEF Scanned, Spare
    <3>3. CASE hpc' = "metas"
      BY <2>2, <3>3
    <3> QED
      BY <3>1, <3>2, <3>3 DEF HNext
  <2>4. CASE HealScan
    BY <2>4, ScannedOn
  <2>5. CASE HealJudge
    <3>1. CASE HealEnds("healthy") \/ HealEnds("unrecoverable") \/ HealEnds("dry run")
      BY <2>2, <3>1 DEF HealEnds
    <3>2. CASE /\ badPart = {} \/ fewest >= K
               /\ hpc' = IF badPart # {} THEN "create" ELSE "meta"
      <4>1. hpc = "judge" /\ hmeta' = hmeta
        BY <2>5 DEF HealJudge
      <4>2. /\ fewest \in Nat /\ N \in Nat /\ K \in Nat \ {0}
            /\ hmeta \in Nat /\ acked \in Nat /\ WriteQuorum = K + 1
        BY ConstFacts DEF Types, HealerTypes, SeenTypes, WriteQuorum
      <4>3. ~ (hmeta < acked)
        <5> SUFFICES ASSUME hmeta < acked PROVE FALSE
          OBVIOUS
        <5>1. fewest + WriteQuorum <= N /\ (badPart = {} => fewest = N)
          BY <4>1 DEF Scanned, Spare
        <5> QED
          BY <3>2, <4>2, <5>1 DEF ParityWithinData
      <4>4. hpc' \in {"create", "meta"} /\ hmeta' >= acked'
        BY <2>1, <3>2, <4>1, <4>2, <4>3
      <4> QED
        BY <4>4 DEF Scanned
    <3> QED
      BY <2>5, <3>1, <3>2 DEF HealJudge
  <2>6. CASE /\ hpc \in {"create", "rebuild", "rename", "meta", "metafill"} /\ hmeta' = hmeta
             /\ hpc' \in {"idle", "create", "rebuild", "rename", "meta", "metafill"}
    <3>1. hmeta' >= acked'
      BY <2>1, <2>6 DEF Scanned
    <3> QED
      BY <2>6, <3>1 DEF Scanned
  <2>7. HealBegins \/ HealFind \/ HealAbandon => hpc' \in {"idle", "find", "metas"}
    BY DEF HealBegins, HealFind, HealAbandon, HealEnds
  <2>8. HealCreate \/ HealRebuild \/ HealRename \/ HealMeta \/ HealMetaFill =>
             /\ hpc \in {"create", "rebuild", "rename", "meta", "metafill"} /\ hmeta' = hmeta
             /\ hpc' \in {"idle", "create", "rebuild", "rename", "meta", "metafill"}
    BY DEF HealCreate, HealRebuild, HealRename, HealMeta, HealMetaFill, HNext, HealNextMeta, HealEnds
  <2> QED
    BY <1>2, <2>2, <2>3, <2>4, <2>5, <2>6, <2>7, <2>8 DEF HealerStep
<1> QED
  BY <1>1, <1>2

\* Beside a GET.
LEMMA GatheredBeside ==
  ASSUME Types, Rebuilt, Order, Written, Scanned, Gathered, UNCHANGED shape,
         WriterStep \/ HealerStep \/ DriveStep
  PROVE  Gathered'
<1>1. UNCHANGED <<rpc, rat, rmeta, rgood, rlow>>
  <2>1. CASE WriterStep
    BY <2>1 DEF WriterStep, BeginPut, Stage, BodyFails, Publish, Seal, SealFill, Decide, Rollback,
                BeginDelete, Delete, Abandon, reader, seen
  <2>2. CASE HealerStep
    BY <2>2 DEF HealerStep, HealBegins, HealFind, HealMetas, HealScan, HealJudge, HealCreate,
                HealRebuild, HealRename, HealMeta, HealMetaFill, HealAbandon, reader, seen
  <2>3. CASE DriveStep
    BY <2>3 DEF DriveStep, Down, Return, Replace, Rot, reader
  <2> QED
    BY <2>1, <2>2, <2>3
<1>2. rlow \in Numbers /\ rlow <= acked /\ rgood \in Nat
  BY ConstFacts DEF Types, SeenTypes, ReaderTypes, Order
<1>3. rpc = "read" /\ rmeta < rlow =>
        Spare(rgood + Cardinality({e \in {d \in Drives : disk'[d].part # None /\ disk'[d].part < rlow} :
                                     e >= DriveOf(rat)}))
  <2>1. rpc = "read" /\ rmeta < rlow => Spare(rgood + Cardinality(Ahead(rlow, rat)))
    BY DEF Gathered
  <2> QED
    BY <1>2, <2>1, AheadStep
<1>4. DriveOf(rat)' = DriveOf(rat)
  BY <1>1 DEF DriveOf
<1>5. Ahead(rlow, rat)' = {e \in {d \in Drives : disk'[d].part # None /\ disk'[d].part < rlow} :
                             e >= DriveOf(rat)}
  BY <1>1, <1>4 DEF Ahead, Old
<1>6. rpc' = "read" /\ rmeta' < rlow' => Spare(rgood' + Cardinality(Ahead(rlow, rat)'))
  BY <1>1, <1>3, <1>5
<1>7. rpc' = "whole" => rmeta' >= rlow'
  BY <1>1 DEF Gathered
<1> QED
  BY <1>6, <1>7 DEF Gathered, Spare

\* A GET gathers too few shards of a write older than the one acknowledged when
\* it began.
LEMMA GatheredStep ==
  ASSUME ParityWithinData, Types, Rebuilt, Order, Written, Scanned, Few, Gathered, UNCHANGED shape,
         WriterStep \/ HealerStep \/ ReaderStep \/ DriveStep
  PROVE  Gathered'
<1>1. CASE WriterStep \/ HealerStep \/ DriveStep
  BY <1>1, GatheredBeside
<1>2. CASE GetBegins
  BY <1>2 DEF GetBegins, Gathered
<1>3. CASE GetFind
  <2>1. /\ rpc = "find" /\ rgood' = 0 /\ UNCHANGED <<disk, rlow>>
        /\ rpc' \in {"find", "nokey"} \/ (rpc' = "read" /\ rat' = 1)
    BY <1>3 DEF GetFind, seen, Types, ReaderTypes
  <2>2. CASE rpc' \in {"find", "nokey"}
    BY <2>2 DEF Gathered
  <2>3. CASE rpc' = "read" /\ rat' = 1
    <3>1. rlow \in Nat /\ acked \in Nat /\ rlow <= acked
      BY ConstFacts DEF Types, SeenTypes, Order
    <3>2. \A d \in Drives : disk[d].part \in Nat
      <4> SUFFICES ASSUME NEW d \in Drives PROVE disk[d].part \in Nat
        OBVIOUS
      <4>1. disk[d].part \in Numbers
        BY DirFields
      <4> QED
        BY <4>1, ConstFacts
    <3>3. Old(rlow) \subseteq Old(acked) /\ Old(acked) \in SUBSET Drives
      BY <3>1, <3>2 DEF Old
    <3>4. Cardinality(Old(acked)) \in Nat /\ Cardinality(Old(rlow)) \in Nat
      BY <3>3, DrivesFinite
    <3>5. Spare(0 + Cardinality(Old(acked)))
      BY <3>4 DEF Few
    <3>6. Spare(0 + Cardinality(Old(rlow)))
      BY <3>3, <3>5, SpareSubset
    <3>7. Spare(Cardinality(Old(rlow)))
      BY <3>4, <3>6
    <3>8. Spare(0 + Cardinality(Ahead(rlow, 1)))
      BY <3>7, CountStarts
    <3>9. Ahead(rlow, rat)' = Ahead(rlow, 1)
      BY <2>1, <2>3 DEF Ahead, Old, DriveOf
    <3> QED
      BY <2>1, <2>3, <3>8, <3>9 DEF Gathered, Spare
  <2> QED
    BY <2>1, <2>2, <2>3
<1>4. CASE GetRead
  <2> DEFINE d == DriveOf(rat)
             match == Matches(d, BlockOf(rat), rmeta)
             count == IF match THEN rgood + 1 ELSE rgood
  <2>1. /\ rpc = "read" /\ UNCHANGED <<disk, rmeta, rlow>>
        /\ \/ d < N /\ rgood' = count /\ rat' = rat + 1 /\ rpc' = "read"
           \/ d = N /\ count >= K /\ rpc' \in {"read", "whole"}
           \/ d = N /\ rpc' = "short"
    BY <1>4 DEF GetRead, seen
  <2>2. /\ rat \in 1 .. Last /\ Last \in Nat /\ N \in Nat /\ K \in Nat /\ rgood \in Nat
        /\ rmeta \in Writes /\ rlow \in Numbers /\ WriteQuorum = K + 1
    BY <2>1, ConstFacts, ShapeFacts DEF Types, ReaderTypes, SeenTypes, Last, WriteQuorum
  <2>3. d \in Drives /\ (d < N => DriveOf(rat + 1) = d + 1)
    <3>1. shape.blocks \in Nat \ {0} /\ rat \in 1 .. N * shape.blocks
      BY <2>2, ShapeFacts DEF Last
    <3> QED
      BY <3>1, LoopFacts
  <2>4. DriveOf(rat)' = DriveOf(rat')
    BY DEF DriveOf
  <2>5. Ahead(rlow, rat)' = Ahead(rlow, rat')
    BY <2>1, <2>4 DEF Ahead, Old
  <2> HIDE DEF d, match
  <2>6. count \in Nat
    BY <2>2
  <2>7. ASSUME rmeta < rlow
        PROVE  Spare(count) /\ Spare(count + Cardinality({e \in Old(rlow) : e > d}))
    <3>1. Spare(rgood + Cardinality(Ahead(rlow, rat)))
      BY <2>1, <2>7 DEF Gathered
    <3> QED
      BY <2>2, <2>7, <3>1, CountGoesOn DEF d, match
  <2> HIDE DEF count
  <2>8. CASE d < N /\ rgood' = count /\ rat' = rat + 1 /\ rpc' = "read"
    <3>1. \A e \in Drives : e >= d + 1 <=> e > d
      BY <2>3, ConstFacts
    <3>2. Ahead(rlow, rat') = {e \in Old(rlow) : e > d}
      BY <2>3, <2>8, <3>1 DEF Ahead, Old
    <3>3. rmeta' < rlow' => Spare(rgood' + Cardinality(Ahead(rlow, rat)'))
      BY <2>1, <2>5, <2>7, <2>8, <3>2
    <3> QED
      BY <2>8, <3>3 DEF Gathered, Spare
  <2>9. CASE d = N /\ count >= K /\ rpc' \in {"read", "whole"}
    <3>1. ~ (rmeta < rlow)
      BY <2>2, <2>6, <2>7, <2>9 DEF Spare, ParityWithinData
    <3>2. rmeta \in Nat /\ rlow \in Nat
      BY <2>2, ConstFacts
    <3>3. ~ (rmeta' < rlow') /\ rmeta' >= rlow'
      BY <2>1, <3>1, <3>2
    <3> QED
      BY <3>3 DEF Gathered
  <2>10. CASE rpc' = "short"
    BY <2>10 DEF Gathered
  <2> QED
    BY <2>1, <2>8, <2>9, <2>10
<1> QED
  BY <1>1, <1>2, <1>3, <1>4 DEF ReaderStep

-----------------------------------------------------------------------------
(* Until a writer disturbs it.                                              *)

\* The acknowledged write is left where it was placed, is just being
\* acknowledged, or a drive is hurt; or a writer disturbs it.
LEMMA PlacedSteps ==
  ASSUME WriterStep \/ HealerStep \/ ReaderStep \/ DriveStep
  PROVE  \/ placed' = {}
         \/ /\ Decide /\ EnoughShards /\ wpc = "decide"
            /\ acked' = cur /\ placed' = ok \cap sound /\ spared' = sound
            /\ UNCHANGED <<disk, hpc, hmeta, cur>>
         \/ /\ UNCHANGED <<acked, placed, spared>> /\ ~ SealFill
            /\ disk' = disk \/ Stage \/ HealerStep
         \/ /\ acked' = acked
            /\ \E d \in Drives : Hurt(d) /\ (Replace(d) \/ \E b \in Blocks : Rot(d, b))
<1>1. CASE Publish \/ Seal \/ SealFill \/ Rollback \/ Delete
  BY <1>1 DEF Publish, Seal, SealFill, Rollback, Delete, Disturb
<1>2. CASE BeginPut \/ BodyFails \/ BeginDelete \/ Abandon
  <2>1. UNCHANGED <<acked, placed, spared, disk>> /\ ~ SealFill
    BY <1>2 DEF BeginPut, BodyFails, BeginDelete, Abandon, SealFill, Disturb
  <2> QED
    BY <2>1
<1>3. CASE Stage
  <2>1. UNCHANGED <<acked, placed, spared>> /\ ~ SealFill
    BY <1>3 DEF Stage, SealFill, seen
  <2> QED
    BY <1>3, <2>1
<1>4. CASE Decide
  <2>1. UNCHANGED <<disk, hpc, hmeta, cur>> /\ wpc = "decide" /\ ~ SealFill
    BY <1>4 DEF Decide, healer, SealFill
  <2>2. CASE EnoughShards
    <3>1. acked' = cur /\ placed' = ok \cap sound /\ spared' = sound
      BY <1>4, <2>2 DEF Decide
    <3> QED
      BY <1>4, <2>1, <2>2, <3>1
  <2>3. CASE ~ EnoughShards
    <3>1. UNCHANGED <<acked, placed, spared>>
      BY <1>4, <2>3 DEF Decide
    <3> QED
      BY <2>1, <3>1
  <2> QED
    BY <2>2, <2>3
<1>5. CASE HealerStep
  <2>1. UNCHANGED <<acked, placed, spared, wpc, wat, ok>>
    BY <1>5 DEF HealerStep, HealBegins, HealFind, HealMetas, HealScan, HealJudge, HealCreate,
                HealRebuild, HealRename, HealMeta, HealMetaFill, HealAbandon, seen, writer
  <2>2. SealFill => wpc' # wpc
    BY DEF SealFill
  <2> QED
    BY <1>5, <2>1, <2>2
<1>6. CASE ReaderStep
  <2>1. UNCHANGED <<acked, placed, spared, disk, wpc>>
    BY <1>6 DEF ReaderStep, GetBegins, GetFind, GetRead, seen, writer
  <2>2. SealFill => wpc' # wpc
    BY DEF SealFill
  <2> QED
    BY <2>1, <2>2
<1>7. ASSUME NEW d \in Drives, Down(d) \/ Return(d)
      PROVE  UNCHANGED <<acked, placed, spared, disk>> /\ ~ SealFill
  <2>1. UNCHANGED <<acked, placed, spared, disk, wpc>>
    BY <1>7 DEF Down, Return, writer
  <2>2. SealFill => wpc' # wpc
    BY DEF SealFill
  <2> QED
    BY <2>1, <2>2
<1>8. ASSUME NEW d \in Drives, Replace(d) \/ \E b \in Blocks : Rot(d, b)
      PROVE  acked' = acked /\ Hurt(d)
  BY <1>8 DEF Replace, Rot
<1> QED
  BY <1>1, <1>2, <1>3, <1>4, <1>5, <1>6, <1>7, <1>8 DEF WriterStep, DriveStep

\* The healer finds what it heals.
LEMMA HealerFinds ==
  ASSUME Types, HealerStep
  PROVE  \/ hpc' \in {"idle", "find"}
         \/ hpc \notin {"idle", "find"} /\ hmeta' = hmeta
         \/ hat \in Drives /\ disk[hat].meta \in Writes /\ hmeta' = disk[hat].meta
<1>1. CASE HealBegins \/ HealAbandon
  BY <1>1 DEF HealBegins, HealAbandon, HealEnds
<1>2. CASE HealFind
  BY <1>2 DEF HealFind, HealEnds, HasMeta, Types, HealerTypes
<1>3. CASE ~ (HealBegins \/ HealAbandon \/ HealFind)
  BY <1>3 DEF HealerStep, HealMetas, HealScan, HealJudge, HealCreate, HealRebuild, HealRename,
              HealMeta, HealMetaFill
<1> QED
  BY <1>1, <1>2, <1>3

LEMMA LatestStep ==
  ASSUME Types, Order, Latest, UNCHANGED shape, WriterStep \/ HealerStep \/ ReaderStep \/ DriveStep
  PROVE  Latest'
<1> SUFFICES ASSUME placed' # {} PROVE Latest'
  BY DEF Latest
<1>1. /\ acked \in Nat /\ hmeta \in Nat /\ cur \in Nat /\ None = 0 /\ Torn \notin Writes
      /\ Writes \subseteq Nat
  BY ConstFacts DEF Types, SeenTypes, HealerTypes, WriterTypes, None
<1>2. CASE /\ acked' = cur /\ UNCHANGED <<disk, hpc, hmeta, cur>>
  BY <1>2 DEF Latest, Order
<1>3. CASE acked' = acked /\ placed # {} /\ ~ SealFill
  <2>1. /\ hpc \notin {"idle", "find"} => hmeta <= acked
        /\ \A d \in Drives : disk[d].meta <= acked \/ disk[d].meta = Torn
    BY <1>3 DEF Latest
  <2>2. hpc' \notin {"idle", "find"} => hmeta' <= acked
    <3>1. CASE HealerStep
      <4>1. hat \in Drives /\ disk[hat].meta \in Writes => disk[hat].meta <= acked
        BY <1>1, <2>1
      <4> QED
        BY <2>1, <3>1, <4>1, HealerFinds
    <3>2. CASE WriterStep \/ ReaderStep \/ DriveStep
      <4>1. UNCHANGED <<hpc, hmeta>>
        BY <3>2, BesideHealer DEF healer
      <4> QED
        BY <2>1, <4>1
    <3> QED
      BY <3>1, <3>2
  <2>3. \A d \in Drives : disk'[d].meta <= acked \/ disk'[d].meta = Torn
    <3> SUFFICES ASSUME NEW d \in Drives PROVE disk'[d].meta <= acked \/ disk'[d].meta = Torn
      OBVIOUS
    <3>1. HealMetaFill => hpc = "metafill"
      BY DEF HealMetaFill
    <3>2. disk'[d].meta \in {disk[d].meta, None, Torn} \/ (hmeta <= acked /\ disk'[d].meta = hmeta)
      BY <1>3, <2>1, <3>1, MetaStep
    <3> QED
      BY <1>1, <2>1, <3>2
  <2> QED
    BY <1>3, <2>2, <2>3 DEF Latest
<1>4. SealFill => placed' = {}
  BY DEF SealFill, Disturb
<1>5. ASSUME NEW d \in Drives, Hurt(d) PROVE placed # {}
  BY <1>5 DEF Hurt
<1> QED
  BY <1>2, <1>3, <1>4, <1>5, PlacedSteps

LEMMA DurableStep ==
  ASSUME Types, Rebuilt, Order, Written, Scanned, Latest, Kept, UNCHANGED shape,
         WriterStep \/ HealerStep \/ ReaderStep \/ DriveStep
  PROVE  Kept'
<1> SUFFICES ASSUME NEW d \in placed'
             PROVE  disk'[d].part = acked' /\ disk'[d].rot = {} /\ disk'[d].meta \in {acked', Torn}
  BY DEF Kept
<1>1. placed \in SUBSET Drives /\ ok \in SUBSET Drives /\ acked \in Nat /\ hmeta \in Nat
  BY ConstFacts DEF Types, SeenTypes, WriterTypes, HealerTypes
<1>2. CASE /\ wpc = "decide" /\ acked' = cur /\ placed' = ok \cap sound /\ disk' = disk
  <2>1. d \in ok /\ d \in sound
    BY <1>2
  <2> QED
    BY <1>2, <2>1 DEF Written
<1>3. ASSUME UNCHANGED <<acked, placed>>, disk' = disk \/ Stage \/ HealerStep
      PROVE  disk'[d].part = acked' /\ disk'[d].rot = {} /\ disk'[d].meta \in {acked', Torn}
  <2>1. /\ d \in Drives /\ placed # {} /\ acked' = acked
        /\ disk[d].part = acked /\ disk[d].rot = {} /\ disk[d].meta \in {acked, Torn}
    BY <1>1, <1>3 DEF Kept
  <2>2. CASE disk' = disk
    BY <2>1, <2>2
  <2>3. CASE Stage
    BY <2>1, <2>3, StageWrites DEF Same
  <2>4. hpc \in {"rename", "metafill"} => hmeta = acked
    <3>1. hpc \in {"rename", "metafill"} => hmeta >= acked /\ hmeta <= acked
      BY <2>1 DEF Scanned, Latest
    <3> QED
      BY <1>1, <3>1
  <2>5. CASE HealCreate
    BY <2>1, <2>5, HealCreateWrites DEF Same
  <2>6. CASE HealRename
    <3>1. hpc = "rename" /\ (hat \in badPart => disk[hat].htmp \in {hmeta, None})
      BY <2>6 DEF HealRename, Rebuilt
    <3> QED
      BY <2>1, <2>4, <2>6, <3>1, HealRenameWrites DEF Same
  <2>7. CASE HealMeta
    BY <2>1, <2>7, HealMetaWrites DEF Same
  <2>8. CASE HealMetaFill
    <3>1. hpc = "metafill"
      BY <2>8 DEF HealMetaFill
    <3> QED
      BY <2>1, <2>4, <2>8, <3>1, HealMetaFillWrites DEF Same
  <2>9. HealerStep => disk' = disk \/ HealCreate \/ HealRename \/ HealMeta \/ HealMetaFill
    BY DEF HealerStep, HealBegins, HealFind, HealMetas, HealScan, HealJudge, HealRebuild, HealAbandon
  <2> QED
    BY <1>3, <2>2, <2>3, <2>5, <2>6, <2>7, <2>8, <2>9
<1>4. ASSUME acked' = acked, NEW e \in Drives, Hurt(e), Replace(e) \/ \E b \in Blocks : Rot(e, b)
      PROVE  disk'[d].part = acked' /\ disk'[d].rot = {} /\ disk'[d].meta \in {acked', Torn}
  <2>1. d \in placed /\ d \in Drives /\ d # e
    BY <1>1, <1>4 DEF Hurt
  <2>2. disk'[d] = disk[d]
    BY <1>4, <2>1, ReplaceWrites, RotWrites DEF Same
  <2> QED
    BY <1>4, <2>1, <2>2 DEF Kept
<1> QED
  BY <1>2, <1>3, <1>4, PlacedSteps

LEMMA QuorateStep ==
  ASSUME Types, Quorate, UNCHANGED shape, WriterStep \/ HealerStep \/ ReaderStep \/ DriveStep
  PROVE  Quorate'
<1> SUFFICES ASSUME placed' # {}
             PROVE  Cardinality(placed' \cup (Drives \ spared')) >= WriteQuorum
  BY DEF Quorate, WriteQuorum, Drives
<1> DEFINE now == placed \cup (Drives \ spared)
           next == placed' \cup (Drives \ spared')
<1>1. /\ placed \in SUBSET Drives /\ ok \in SUBSET Drives /\ placed' \in SUBSET Drives
      /\ WriteQuorum \in Nat
  BY SeenTypesStep, ConstFacts DEF Types, SeenTypes, WriterTypes
<1>2. next \in SUBSET Drives
  BY <1>1
<1>3. ASSUME NEW S \in SUBSET next, Cardinality(S) >= WriteQuorum
      PROVE  Cardinality(next) >= WriteQuorum
  <2> HIDE DEF next
  <2>1. /\ IsFiniteSet(next) /\ S \in SUBSET Drives
        /\ Cardinality(S) \in Nat /\ Cardinality(next) \in Nat
    BY <1>2, DrivesFinite
  <2>2. Cardinality(S) <= Cardinality(next)
    BY <2>1, FS_Subset
  <2> QED
    BY <1>1, <1>3, <2>1, <2>2
<1>4. CASE EnoughShards /\ placed' = ok \cap sound /\ spared' = sound
  <2>1. ok \in SUBSET next /\ Cardinality(ok) >= WriteQuorum
    BY <1>1, <1>4 DEF EnoughShards
  <2> QED
    BY <1>3, <2>1
<1>5. CASE UNCHANGED <<placed, spared>>
  BY <1>5 DEF Quorate
<1>6. ASSUME NEW d \in Drives, Hurt(d) PROVE Cardinality(next) >= WriteQuorum
  <2>1. placed # {} /\ now \in SUBSET next
    BY <1>1, <1>6 DEF Hurt
  <2>2. Cardinality(now) >= WriteQuorum
    BY <2>1 DEF Quorate
  <2> QED
    BY <1>3, <2>1, <2>2
<1> QED
  BY <1>4, <1>5, <1>6, PlacedSteps

-----------------------------------------------------------------------------
(* The theorems.                                                            *)

LEMMA InitStore == Init => StoreInv
<1> SUFFICES ASSUME Init PROVE StoreInv
  OBVIOUS
<1>1. /\ hpc = "idle" /\ rpc = "idle" /\ wpc = "idle" /\ placed = {} /\ ok = {}
      /\ acked = 0 /\ rlow = 0 /\ hmeta = 0 /\ cur = 0
      /\ \A d \in Drives : disk[d].meta = 0 /\ disk[d].part = None
  BY BlankFields DEF Init, None
<1>2. Old(acked) = {}
  BY <1>1 DEF Old
<1>3. Few
  <2>1. Cardinality({}) = 0
    BY FS_EmptySet
  <2>2. Spare(0)
    BY ConstFacts, ShapeAssumption DEF Spare, WriteQuorum
  <2> QED
    BY <1>2, <2>1, <2>2 DEF Few
<1>4. Types /\ Apart /\ Rebuilt
  BY <1>1, InitTypes DEF Apart, Rebuilt
<1>5. Order /\ Written /\ Latest /\ Kept /\ Quorate
  BY <1>1 DEF Order, Written, Latest, Kept, Quorate
<1>6. Scanned /\ Gathered
  BY <1>1 DEF Scanned, Gathered
<1> QED
  BY <1>3, <1>4, <1>5, <1>6 DEF StoreInv

\* The store's invariant holds until a heal overlaps a writer's changes.
THEOREM StoreInvariance ==
  ASSUME ParityWithinData
  PROVE  Spec => []Uncrossed
<1>1. Init => Uncrossed
  BY InitStore DEF Uncrossed
<1>2. Uncrossed /\ [Next]_vars => Uncrossed'
  <2> SUFFICES ASSUME Uncrossed, [Next]_vars, ~ crossed' PROVE StoreInv'
    BY DEF Uncrossed
  <2>0. StoreInv
    BY NextSteps DEF Uncrossed, vars
  <2>1. CASE Next
    <3>1. Types' /\ Apart' /\ Rebuilt' /\ Order' /\ Written'
      BY <2>0, <2>1, NextSteps, TypesStep, RebuiltStep, OrderStep, WrittenStep DEF StoreInv
    <3>2. Few' /\ Scanned' /\ Gathered'
      BY <2>0, <2>1, NextSteps, FewStep, ScannedStep, GatheredStep DEF StoreInv
    <3>3. Latest' /\ Kept' /\ Quorate'
      BY <2>0, <2>1, NextSteps, LatestStep, DurableStep, QuorateStep DEF StoreInv
    <3> QED
      BY <3>1, <3>2, <3>3 DEF StoreInv
  <2>2. CASE UNCHANGED vars
    <3>1. UNCHANGED <<shape, disk, up, faults, wpc, wat, cur, ok, hpc, hat, hmeta, badPart, badMeta,
                      good, fewest, heals, rpc, rat, rmeta, rgood, reads, acked, placed, sound,
                      spared, healed, calm, rlow>>
      BY <2>2 DEF vars, writer, healer, reader, seen
    <3>2. Types'
      BY <2>0, <3>1 DEF StoreInv, Types, DiskTypes, WriterTypes, HealerTypes, ReaderTypes, SeenTypes,
                  Dir, Blocks, Last, DriveOf
    <3>3. Apart' /\ Rebuilt' /\ Order' /\ Written'
      BY <2>0, <3>1 DEF StoreInv, Apart, Rebuilt, Order, Written
    <3>4. Few' /\ Scanned' /\ Gathered'
      BY <2>0, <3>1 DEF StoreInv, Few, Scanned, Gathered, Ahead, Old, Spare, DriveOf
    <3>5. Latest' /\ Kept' /\ Quorate'
      BY <2>0, <3>1 DEF StoreInv, Latest, Kept, Quorate
    <3> QED
      BY <3>2, <3>3, <3>4, <3>5 DEF StoreInv
  <2> QED
    BY <2>1, <2>2
<1> QED
  BY <1>1, <1>2, PTL DEF Spec

\* put_object, heal_object: whatever heals run, fail or break off, and whatever
\* drives go, come back or are lost, an acknowledged write stays whole on the
\* drives it was placed on until a writer changes the object, as long as no heal
\* has overlapped a writer's changes, for any number of drives with parity no
\* larger than data.
THEOREM AckedStays ==
  ASSUME ParityWithinData
  PROVE  Spec => []Durable
<1>1. Spec => []Uncrossed
  BY StoreInvariance
<1>2. Uncrossed => Durable
  BY DEF Uncrossed, StoreInv, Kept, Durable
<1> QED
  BY <1>1, <1>2, PTL

\* write_sharded's quorum of K + 1: an acknowledged write can lose any one drive
\* and K shards of it stay whole, until a writer changes the object, as long as no
\* heal has overlapped a writer's changes.
THEOREM OneLossIsSurvived ==
  ASSUME ParityWithinData
  PROVE  Spec => []SurvivesOneLoss
<1>1. Spec => []Uncrossed
  BY StoreInvariance
<1>2. Uncrossed => SurvivesOneLoss
  <2> DEFINE Whole == {d \in Drives : disk[d].part = acked /\ disk[d].rot = {}}
             hurt == Drives \ spared
  <2> SUFFICES ASSUME StoreInv, placed # {}, Cardinality(hurt) <= 1
               PROVE  Cardinality(Whole) >= K
    BY DEF SurvivesOneLoss, Uncrossed
  <2>1. placed \in SUBSET Drives /\ placed \in SUBSET Whole
    BY DEF StoreInv, Kept, Types, SeenTypes
  <2>2. Whole \in SUBSET Drives /\ hurt \in SUBSET Drives /\ placed \cap hurt \in SUBSET Drives
    BY <2>1
  <2>3. Cardinality(placed \cup hurt) >= WriteQuorum
    BY DEF StoreInv, Quorate
  <2> HIDE DEF Whole, hurt
  <2>4. /\ IsFiniteSet(placed) /\ IsFiniteSet(hurt) /\ IsFiniteSet(Whole)
        /\ Cardinality(placed) \in Nat /\ Cardinality(hurt) \in Nat /\ Cardinality(Whole) \in Nat
        /\ Cardinality(placed \cap hurt) \in Nat
    BY <2>1, <2>2, DrivesFinite
  <2>5. Cardinality(placed \cup hurt) =
          Cardinality(placed) + Cardinality(hurt) - Cardinality(placed \cap hurt)
    BY <2>4, FS_Union
  <2>6. Cardinality(placed) <= Cardinality(Whole)
    BY <2>1, <2>4, FS_Subset
  <2> QED
    BY <2>3, <2>4, <2>5, <2>6, ConstFacts DEF WriteQuorum
<1> QED
  BY <1>1, <1>2, PTL

\* read_xl, reconstruct_into: a GET that delivers a body to its end delivers the
\* write that was acknowledged when it began, or a newer one, though its drives
\* are read one after the other while writers, heals and faults change them, as
\* long as no heal has overlapped a writer's changes (it could put back an older
\* write, and a GET would deliver that).
THEOREM ReadsAreFresh ==
  ASSUME ParityWithinData
  PROVE  Spec => []ReadFresh
<1>1. Spec => []Uncrossed
  BY StoreInvariance
<1>2. Uncrossed => ReadFresh
  BY DEF Uncrossed, StoreInv, Gathered, ReadFresh
<1> QED
  BY <1>1, <1>2, PTL
================================================================================
