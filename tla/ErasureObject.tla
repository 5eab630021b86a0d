----------------------------- MODULE ErasureObject -----------------------------
(***************************************************************************)
(* One object of the erasure-coded store (erasure/store.rs): PUT, DELETE,  *)
(* GET and heal on N drives, each of which keeps one shard of the object   *)
(* and a copy of its metadata.  The bucket is not versioned.               *)
(*                                                                         *)
(* Writers of a key are serialised by its lock (LocalKeyLocks, DistLock),  *)
(* so there is one writer here.  GET and heal take no lock: they run       *)
(* beside it, drive by drive and block by block.  Drives go down, come     *)
(* back with what they had, are replaced by empty ones, and rot.           *)
(*                                                                         *)
(* Writes are numbered in the order they begin.  A shard carries the       *)
(* number of its write; the checksums in the metadata of write w accept    *)
(* exactly the blocks of w's shards that have not rotted.                  *)
(***************************************************************************)
EXTENDS Naturals, FiniteSets

CONSTANTS N,             \* drives
          K,             \* data shards: any K of the N rebuild a block
          MaxWrites,     \* bound: PUTs
          Shapes         \* bounds, one set of them for each behaviour: blocks of the
                         \* object, heals, GETs, faults of drives, calls and the process,
                         \* and whether a heal may overlap a writer's changes

ASSUME ShapeAssumption == K \in Nat \ {0} /\ N \in Nat /\ N > K
ASSUME BoundsAssumption ==
  /\ MaxWrites \in Nat
  /\ Shapes \subseteq [blocks : Nat \ {0}, heals : Nat, reads : Nat, faults : Nat,
                       overlap : BOOLEAN]

Drives == 1 .. N
Writes == 1 .. MaxWrites
WriteQuorum == K + 1
None == 0                  \* no such file, no such write
Torn == MaxWrites + 1      \* a metadata file that does not parse

VARIABLE shape       \* the bounds of this behaviour
Blocks == 1 .. shape.blocks

VARIABLES disk,      \* disk[d]: the object's directory on drive d
          up,        \* up[d]: drive d can be reached
          faults     \* the faults so far

\* The writer: the PUT or DELETE that has the key's lock.
VARIABLES wpc,       \* where it is
          wat,       \* the next drive of its loop
          cur,       \* the number of the last PUT to begin
          ok         \* the drives where the PUT has not failed
writer == <<wpc, wat, cur, ok>>

\* The healer: heal_object.
VARIABLES hpc,       \* where it is
          hat,       \* the iteration of its loop
          hmeta,     \* the write whose metadata it found
          badPart, badMeta,
          good,      \* good shards of the block at hand
          fewest,    \* good shards of the worst block so far
          heals      \* heal passes so far
healer == <<hpc, hat, hmeta, badPart, badMeta, good, fewest, heals>>

\* The reader: read_xl, then reconstruct_into.
VARIABLES rpc, rat, rmeta,
          rgood,     \* good shards of the block at hand
          reads      \* GETs so far
reader == <<rpc, rat, rmeta, rgood, reads>>

\* Observations, read by no action.
VARIABLES acked,     \* the last PUT that was acknowledged
          placed,    \* the sound drives it was placed on, until a writer disturbs it
          sound,     \* drives neither replaced nor rotted since the last PUT began
          spared,    \* the same, since the acknowledged PUT began
          outcome,   \* how the last PUT or DELETE ended
          healed,    \* how the last heal ended
          calm,      \* nothing but heal has changed a drive since the heal began
          rlow,      \* acked, when the GET began
          crossed    \* a heal has overlapped a writer's changes
seen == <<acked, placed, sound, spared, outcome, healed, calm, rlow>>

vars == <<shape, disk, up, faults, writer, healer, reader, seen, crossed>>

Blank == [part |-> None, rot |-> {}, meta |-> None, tmp |-> None, htmp |-> None]
Numbers == Writes \cup {None}

TypeOK ==
  /\ shape \in Shapes
  /\ disk \in [Drives -> [part : Numbers, rot : SUBSET Blocks, meta : Numbers \cup {Torn},
                          tmp : Numbers, htmp : Numbers]]
  /\ up \in [Drives -> BOOLEAN]
  /\ faults \in 0 .. shape.faults
  /\ wpc \in {"idle", "stage", "publish", "seal", "sealing", "decide", "rollback", "delete"}
  /\ wat \in Drives
  /\ cur \in Numbers
  /\ ok \subseteq Drives
  /\ hpc \in {"idle", "find", "metas", "scan", "judge", "create", "rebuild", "rename",
              "meta", "metafill"}
  /\ hat \in 1 .. N * shape.blocks
  /\ hmeta \in Numbers
  /\ badPart \subseteq Drives /\ badMeta \subseteq Drives
  /\ good \in 0 .. N /\ fewest \in 0 .. N
  /\ heals \in 0 .. shape.heals
  /\ rpc \in {"idle", "find", "read", "whole", "short", "nokey"}
  /\ rat \in 1 .. N * shape.blocks
  /\ rmeta \in Numbers
  /\ rgood \in 0 .. N
  /\ reads \in 0 .. shape.reads

Init ==
  /\ shape \in Shapes
  /\ disk = [d \in Drives |-> Blank]
  /\ up = [d \in Drives |-> TRUE]
  /\ faults = 0
  /\ wpc = "idle" /\ wat = 1 /\ cur = None /\ ok = {}
  /\ hpc = "idle" /\ hat = 1 /\ hmeta = None /\ badPart = {} /\ badMeta = {}
  /\ good = 0 /\ fewest = N /\ heals = 0
  /\ rpc = "idle" /\ rat = 1 /\ rmeta = None /\ rgood = 0 /\ reads = 0
  /\ acked = None /\ placed = {} /\ sound = {} /\ spared = {}
  /\ outcome = "none" /\ healed = "none" /\ calm = FALSE
  /\ rlow = None /\ crossed = FALSE

-------------------------------------------------------------------------------
Fault == faults < shape.faults /\ faults' = faults + 1
NoFault == UNCHANGED faults

\* Drive d can be read and has a metadata file that parses.
HasMeta(d) == up[d] /\ disk[d].meta \in Writes

\* Mutant of Matches: the shard is taken without its checksum.
MatchesUnchecked(d, b, w) == up[d] /\ disk[d].part # None

\* read_at of block b of d's shard, held against the checksums of write w.
Matches(d, b, w) == up[d] /\ disk[d].part = w /\ b \notin disk[d].rot

\* The writer's loop goes on to the next drive, or ends in pc.
WNext(pc) ==
  IF wat < N THEN wat' = wat + 1 /\ UNCHANGED wpc
             ELSE wat' = 1 /\ wpc' = pc

\* put_object takes the lock.
BeginPut ==
  /\ wpc = "idle" /\ cur < MaxWrites
  /\ cur' = cur + 1
  /\ wpc' = "stage" /\ wat' = 1 /\ ok' = Drives
  /\ sound' = Drives /\ outcome' = "none"
  /\ UNCHANGED <<disk, up, faults, healer, reader, acked, placed, spared, healed, calm, rlow>>

\* The shard is streamed to drive wat's temporary file; a drive that fails is
\* skipped from here on.
Stage ==
  /\ wpc = "stage"
  /\ IF up[wat] THEN disk' = [disk EXCEPT ![wat].tmp = cur] /\ UNCHANGED ok
                ELSE ok' = ok \ {wat} /\ UNCHANGED disk
  /\ WNext("publish")
  /\ UNCHANGED <<up, faults, cur, healer, reader, seen>>

\* The body cannot be read to its end: write_sharded returns at once.
BodyFails ==
  /\ wpc = "stage"
  /\ wpc' = "idle" /\ wat' = 1
  /\ outcome' = "unread"
  /\ UNCHANGED <<disk, up, faults, cur, ok, healer, reader, acked, placed, sound, spared, healed,
                 calm, rlow>>

\* A call of the writer's to drive wat takes effect; its answer may be lost.
Answered == (NoFault /\ UNCHANGED ok) \/ (Fault /\ ok' = ok \ {wat})

\* What was there before is being changed.
Disturb == placed' = {} /\ calm' = FALSE

\* Rename the temporary file to the shard.
Publish ==
  /\ wpc = "publish"
  /\ \/ /\ wat \in ok /\ up[wat] /\ disk[wat].tmp # None
        /\ disk' = [disk EXCEPT ![wat].part = disk[wat].tmp, ![wat].rot = {}, ![wat].tmp = None]
        /\ Answered
     \/ /\ ~ (wat \in ok /\ up[wat] /\ disk[wat].tmp # None)
        /\ ok' = ok \ {wat}
        /\ NoFault /\ UNCHANGED disk
  /\ WNext("seal")
  /\ Disturb
  /\ UNCHANGED <<up, cur, healer, reader, acked, sound, spared, outcome, healed, rlow>>

\* Write the metadata: the file is truncated, then filled.
Seal ==
  /\ wpc = "seal"
  /\ \/ /\ wat \in ok /\ up[wat]
        /\ disk' = [disk EXCEPT ![wat].meta = Torn]
        /\ wpc' = "sealing"
        /\ UNCHANGED <<wat, ok>>
     \/ /\ ~ (wat \in ok /\ up[wat])
        /\ ok' = ok \ {wat}
        /\ WNext("decide")
        /\ UNCHANGED disk
  /\ Disturb
  /\ UNCHANGED <<up, faults, cur, healer, reader, acked, sound, spared, outcome, healed, rlow>>

SealFill ==
  /\ wpc = "sealing"
  /\ \/ up[wat] /\ disk' = [disk EXCEPT ![wat].meta = cur] /\ Answered
     \/ ~ up[wat] /\ ok' = ok \ {wat} /\ NoFault /\ UNCHANGED disk
  /\ IF wat < N THEN wat' = wat + 1 /\ wpc' = "seal" ELSE wat' = 1 /\ wpc' = "decide"
  /\ Disturb
  /\ UNCHANGED <<up, cur, healer, reader, acked, sound, spared, outcome, healed, rlow>>

\* Mutant of EnoughShards: K shards are taken for enough.
EnoughButOne == Cardinality(ok) >= WriteQuorum - 1

EnoughShards == Cardinality(ok) >= WriteQuorum

\* The write quorum decides: the PUT is acknowledged, or rolled back.
Decide ==
  /\ wpc = "decide"
  /\ IF EnoughShards
       THEN /\ wpc' = "idle" /\ outcome' = "acked"
            /\ acked' = cur /\ placed' = ok \cap sound /\ spared' = sound
       ELSE /\ wpc' = "rollback"
            /\ UNCHANGED <<acked, placed, spared, outcome>>
  /\ UNCHANGED <<disk, up, faults, wat, cur, ok, healer, reader, sound, healed, calm, rlow>>

\* Remove the object's directory from drive wat; a drive that fails is ignored.
RemoveDir == disk' = IF up[wat] THEN [disk EXCEPT ![wat] = Blank] ELSE disk

Rollback ==
  /\ wpc = "rollback"
  /\ RemoveDir
  /\ WNext("idle")
  /\ outcome' = IF wat = N THEN "failed" ELSE outcome
  /\ Disturb
  /\ UNCHANGED <<up, faults, cur, ok, healer, reader, acked, sound, spared, healed, rlow>>

\* delete_object: the directory goes from every drive.
BeginDelete ==
  /\ wpc = "idle" /\ acked # None /\ outcome # "deleted"
  /\ wpc' = "delete" /\ wat' = 1
  /\ outcome' = "none"
  /\ UNCHANGED <<disk, up, faults, cur, ok, healer, reader, acked, placed, sound, spared, healed,
                 calm, rlow>>

Delete ==
  /\ wpc = "delete"
  /\ RemoveDir
  /\ WNext("idle")
  /\ outcome' = IF wat = N THEN "deleted" ELSE outcome
  /\ Disturb
  /\ UNCHANGED <<up, faults, cur, ok, healer, reader, acked, sound, spared, healed, rlow>>

\* The process dies or the request is dropped while the writer is at work.
Abandon ==
  /\ wpc # "idle" /\ Fault
  /\ wpc' = "idle" /\ wat' = 1
  /\ outcome' = "none"
  /\ UNCHANGED <<disk, up, cur, ok, healer, reader, acked, placed, sound, spared, healed, calm,
                 rlow>>

-------------------------------------------------------------------------------
\* The drive and the block of iteration i of a loop over the blocks' shards.
DriveOf(i) == ((i - 1) % N) + 1
BlockOf(i) == ((i - 1) \div N) + 1

\* The healer's loop goes on to its next iteration, or ends in pc.
HNext(last, pc) ==
  IF hat < last THEN hat' = hat + 1 /\ UNCHANGED hpc
                ELSE hat' = 1 /\ hpc' = pc

\* heal_object returns.
HealEnds(result) ==
  /\ hpc' = "idle" /\ hat' = 1
  /\ badPart' = {} /\ badMeta' = {} /\ good' = 0 /\ fewest' = N
  /\ healed' = result

HealBegins ==
  /\ hpc = "idle" /\ heals < shape.heals
  /\ hpc' = "find" /\ heals' = heals + 1
  /\ hmeta' = None /\ healed' = "none" /\ calm' = TRUE
  /\ UNCHANGED <<disk, up, faults, writer, reader, hat, badPart, badMeta, good, fewest,
                 acked, placed, sound, spared, outcome, rlow>>

\* read_xl_v: the first metadata file that parses decides.
HealFind ==
  /\ hpc = "find"
  /\ \/ /\ HasMeta(hat)
        /\ hmeta' = disk[hat].meta
        /\ hpc' = "metas" /\ hat' = 1
        /\ UNCHANGED <<badPart, badMeta, good, fewest, healed>>
     \/ /\ ~ HasMeta(hat) /\ hat < N
        /\ hat' = hat + 1
        /\ UNCHANGED <<hpc, hmeta, badPart, badMeta, good, fewest, healed>>
     \/ /\ ~ HasMeta(hat) /\ hat = N
        /\ HealEnds("unrecoverable")
        /\ UNCHANGED hmeta
  /\ UNCHANGED <<disk, up, faults, writer, reader, heals, acked, placed, sound, spared, outcome,
                 calm, rlow>>

\* Which drives lack a metadata file that parses?
HealMetas ==
  /\ hpc = "metas"
  /\ badMeta' = IF HasMeta(hat) THEN badMeta ELSE badMeta \cup {hat}
  /\ HNext(N, "scan")
  /\ UNCHANGED <<disk, up, faults, writer, reader, hmeta, badPart, good, fewest, heals, seen>>

\* Detection: hold every block of every shard against its checksum.
HealScan ==
  /\ hpc = "scan"
  /\ LET d == DriveOf(hat)
         match == Matches(d, BlockOf(hat), hmeta)
         count == IF match THEN good + 1 ELSE good
     IN  /\ badPart' = IF match THEN badPart ELSE badPart \cup {d}
         /\ good' = IF d = N THEN 0 ELSE count
         /\ fewest' = IF d = N /\ count < fewest THEN count ELSE fewest
  /\ HNext(N * shape.blocks, "judge")
  /\ UNCHANGED <<disk, up, faults, writer, reader, hmeta, badMeta, heals, seen>>

\* Nothing to do, too little to go by, a dry run, or on to the repair.
HealJudge ==
  /\ hpc = "judge"
  /\ \/ /\ badPart = {} /\ badMeta = {}
        /\ HealEnds("healthy")
     \/ /\ badPart # {} /\ fewest < K
        /\ HealEnds("unrecoverable")
     \/ /\ badPart \cup badMeta # {} /\ (badPart = {} \/ fewest >= K)
        /\ \/ HealEnds("dry run")
           \/ /\ hpc' = IF badPart # {} THEN "create" ELSE "meta"
              /\ UNCHANGED <<hat, badPart, badMeta, good, fewest, healed>>
  /\ UNCHANGED <<disk, up, faults, writer, reader, hmeta, heals, acked, placed, sound, spared,
                 outcome, calm, rlow>>

\* Mutant of HealCreate: the shard itself is opened, and truncated.
HealCreateInPlace ==
  /\ hpc = "create"
  /\ \/ /\ hat \in badPart => up[hat]
        /\ disk' = IF hat \in badPart THEN [disk EXCEPT ![hat].htmp = hmeta, ![hat].part = None]
                                      ELSE disk
        /\ HNext(N, "rebuild")
        /\ UNCHANGED <<badPart, badMeta, good, fewest, healed>>
     \/ /\ hat \in badPart /\ ~ up[hat]
        /\ HealEnds("error")
        /\ UNCHANGED disk
  /\ UNCHANGED <<up, faults, writer, reader, hmeta, heals, acked, placed, sound, spared, outcome,
                 calm, rlow>>

\* A temporary file on every drive whose shard is bad; one that cannot be made
\* ends the heal.
HealCreate ==
  /\ hpc = "create"
  /\ \/ /\ hat \in badPart => up[hat]
        /\ disk' = IF hat \in badPart THEN [disk EXCEPT ![hat].htmp = hmeta] ELSE disk
        /\ HNext(N, "rebuild")
        /\ UNCHANGED <<badPart, badMeta, good, fewest, healed>>
     \/ /\ hat \in badPart /\ ~ up[hat]
        /\ HealEnds("error")
        /\ UNCHANGED disk
  /\ UNCHANGED <<up, faults, writer, reader, hmeta, heals, acked, placed, sound, spared, outcome,
                 calm, rlow>>

\* Rebuild the blocks from the shards that were good throughout, read again.
HealRebuild ==
  /\ hpc = "rebuild"
  /\ LET d == DriveOf(hat)
         count == IF d \notin badPart /\ Matches(d, BlockOf(hat), hmeta) THEN good + 1 ELSE good
     IN  \/ /\ d < N \/ (count >= K /\ \A e \in badPart : up[e])
            /\ good' = IF d = N THEN 0 ELSE count
            /\ HNext(N * shape.blocks, "rename")
            /\ UNCHANGED <<badPart, badMeta, fewest, healed>>
         \/ /\ d = N /\ ~ (count >= K /\ \A e \in badPart : up[e])
            /\ HealEnds("error")
  /\ UNCHANGED <<disk, up, faults, writer, reader, hmeta, heals, acked, placed, sound, spared,
                 outcome, calm, rlow>>

\* Put the rebuilt shards in place.
HealRename ==
  /\ hpc = "rename"
  /\ LET fits == up[hat] /\ disk[hat].htmp # None
     IN  \/ /\ hat \in badPart => fits
            /\ disk' = IF hat \in badPart
                         THEN [disk EXCEPT ![hat].part = disk[hat].htmp, ![hat].rot = {},
                                           ![hat].htmp = None]
                         ELSE disk
            /\ HNext(N, "meta")
            /\ UNCHANGED <<badPart, badMeta, good, fewest, healed>>
         \/ /\ hat \in badPart /\ ~ fits
            /\ HealEnds("error")
            /\ UNCHANGED disk
  /\ UNCHANGED <<up, faults, writer, reader, hmeta, heals, acked, placed, sound, spared, outcome,
                 calm, rlow>>

\* The healer is past drive hat in its last loop.
HealNextMeta ==
  IF hat < N
    THEN hat' = hat + 1 /\ hpc' = "meta" /\ UNCHANGED <<badPart, badMeta, good, fewest, healed>>
    ELSE HealEnds("healed")

\* Write the metadata where it or the shard was bad: truncate, then fill.
HealMeta ==
  /\ hpc = "meta"
  /\ LET due == hat \in badPart \cup badMeta
     IN  \/ /\ due /\ up[hat]
            /\ disk' = [disk EXCEPT ![hat].meta = Torn]
            /\ hpc' = "metafill"
            /\ UNCHANGED <<hat, badPart, badMeta, good, fewest, healed>>
         \/ due /\ ~ up[hat] /\ HealEnds("error") /\ UNCHANGED disk
         \/ ~ due /\ HealNextMeta /\ UNCHANGED disk
  /\ UNCHANGED <<up, faults, writer, reader, hmeta, heals, acked, placed, sound, spared, outcome,
                 calm, rlow>>

HealMetaFill ==
  /\ hpc = "metafill"
  /\ \/ up[hat] /\ disk' = [disk EXCEPT ![hat].meta = hmeta] /\ HealNextMeta
     \/ ~ up[hat] /\ HealEnds("error") /\ UNCHANGED disk
  /\ UNCHANGED <<up, faults, writer, reader, hmeta, heals, acked, placed, sound, spared, outcome,
                 calm, rlow>>

\* The process dies or the request is dropped while the healer is at work.
HealAbandon ==
  /\ hpc # "idle" /\ Fault
  /\ HealEnds("none")
  /\ UNCHANGED <<disk, up, writer, reader, hmeta, heals, acked, placed, sound, spared, outcome,
                 calm, rlow>>

-------------------------------------------------------------------------------
GetBegins ==
  /\ rpc \notin {"find", "read"} /\ reads < shape.reads
  /\ rpc' = "find" /\ rat' = 1 /\ rmeta' = None /\ rgood' = 0 /\ reads' = reads + 1
  /\ rlow' = acked
  /\ UNCHANGED <<disk, up, faults, writer, healer, acked, placed, sound, spared, outcome, healed,
                 calm>>

\* read_xl: the first metadata file that parses decides.
GetFind ==
  /\ rpc = "find"
  /\ \/ HasMeta(rat) /\ rmeta' = disk[rat].meta /\ rpc' = "read" /\ rat' = 1
     \/ ~ HasMeta(rat) /\ rat < N /\ rat' = rat + 1 /\ UNCHANGED <<rpc, rmeta>>
     \/ ~ HasMeta(rat) /\ rat = N /\ rpc' = "nokey" /\ rat' = 1 /\ UNCHANGED rmeta
  /\ UNCHANGED <<disk, up, faults, writer, healer, rgood, reads, seen>>

\* reconstruct_into: gather the block's good shards; a block with too few ends
\* the body there.
GetRead ==
  /\ rpc = "read"
  /\ LET d == DriveOf(rat)
         count == IF Matches(d, BlockOf(rat), rmeta) THEN rgood + 1 ELSE rgood
     IN  \/ /\ d < N
            /\ rgood' = count /\ rat' = rat + 1
            /\ UNCHANGED rpc
         \/ /\ d = N /\ count >= K
            /\ rgood' = 0
            /\ IF rat < N * shape.blocks THEN rat' = rat + 1 /\ UNCHANGED rpc
                                    ELSE rat' = 1 /\ rpc' = "whole"
         \/ /\ d = N /\ count < K
            /\ rgood' = 0 /\ rat' = 1 /\ rpc' = "short"
  /\ UNCHANGED <<disk, up, faults, writer, healer, rmeta, reads, seen>>

-------------------------------------------------------------------------------
\* A drive goes down, with what it has.
Down(d) ==
  /\ up[d] /\ Fault
  /\ up' = [up EXCEPT ![d] = FALSE]
  /\ calm' = FALSE
  /\ UNCHANGED <<disk, writer, healer, reader, acked, placed, sound, spared, outcome, healed, rlow>>

\* It comes back as it was.
Return(d) ==
  /\ ~ up[d]
  /\ up' = [up EXCEPT ![d] = TRUE]
  /\ calm' = FALSE
  /\ UNCHANGED <<disk, faults, writer, healer, reader, acked, placed, sound, spared, outcome,
                 healed, rlow>>

\* Drive d has lost something it had.
Hurt(d) ==
  /\ sound' = sound \ {d} /\ spared' = spared \ {d}
  /\ placed' = placed \ {d}

\* It is replaced by an empty one.
Replace(d) ==
  /\ disk[d] # Blank /\ Fault
  /\ disk' = [disk EXCEPT ![d] = Blank]
  /\ Hurt(d) /\ calm' = FALSE
  /\ UNCHANGED <<up, writer, healer, reader, acked, outcome, healed, rlow>>

\* A block of its shard rots.
Rot(d, b) ==
  /\ disk[d].part # None /\ b \notin disk[d].rot /\ Fault
  /\ disk' = [disk EXCEPT ![d].rot = @ \cup {b}]
  /\ Hurt(d) /\ calm' = FALSE
  /\ UNCHANGED <<up, writer, healer, reader, acked, outcome, healed, rlow>>

WriterStep ==
  \/ BeginPut \/ Stage \/ BodyFails \/ Publish \/ Seal \/ SealFill \/ Decide \/ Rollback
  \/ BeginDelete \/ Delete \/ Abandon
HealerStep ==
  \/ HealBegins \/ HealFind \/ HealMetas \/ HealScan \/ HealJudge \/ HealCreate \/ HealRebuild
  \/ HealRename \/ HealMeta \/ HealMetaFill \/ HealAbandon
ReaderStep == GetBegins \/ GetFind \/ GetRead
DriveStep == \E d \in Drives : Down(d) \/ Return(d) \/ Replace(d) \/ \E b \in Blocks : Rot(d, b)

\* The writer is changing what was there.
Changing(pc) == pc \in {"publish", "seal", "sealing", "decide", "rollback", "delete"}

\* A heal takes no lock; one that overlaps a writer's changes can put the old
\* write back over the new one.
Apart == hpc = "idle" \/ ~ Changing(wpc)

Next ==
  /\ WriterStep \/ HealerStep \/ ReaderStep \/ DriveStep
  /\ UNCHANGED shape
  /\ crossed' = (crossed \/ ~ Apart')
  /\ crossed' => shape.overlap

Spec == Init /\ [][Next]_vars

-------------------------------------------------------------------------------
\* Drive d has write w: its whole shard and its metadata.
Has(d, w) == disk[d].part = w /\ disk[d].rot = {} /\ disk[d].meta = w

\* An acknowledged write stays where it was placed until a writer changes the
\* object: whatever heals run, fail or break off, and whatever other drives do or
\* come back with, its shards stay whole and its metadata is never replaced by
\* another write's.  A heal that finds the drive out of reach may rewrite the
\* metadata, and leave it torn if it is cut short.  A heal that has overlapped a
\* writer is excepted: it read the old metadata and renames the old shards over
\* the new ones.  Keys nested under this one are not in the model: deleting or
\* rolling back a key removes them with its directory.
Durable ==
  ~ crossed =>
    \A d \in placed : /\ disk[d].part = acked /\ disk[d].rot = {}
                      /\ disk[d].meta \in {acked, Torn}

\* An acknowledged write can lose any one drive: until a writer changes the
\* object, and if at most one drive has been replaced or has rotted since that
\* write began, K shards of it are whole.  (A write acknowledged with K shards
\* would have nothing to spare.)  As Durable, where no heal has overlapped a
\* writer's changes.
SurvivesOneLoss ==
  ~ crossed /\ placed # {} /\ Cardinality(Drives \ spared) <= 1 =>
    Cardinality({d \in Drives : disk[d].part = acked /\ disk[d].rot = {}}) >= K

\* A GET that delivers a body to its end delivers the write that was
\* acknowledged when it began, or a newer one, even when it runs beside writers,
\* beside a heal, and beside drives that return with older shards.  It does not
\* once a heal has overlapped a writer's changes: a heal that read the metadata
\* of one PUT and repairs it after another was acknowledged puts the older write
\* back, and GETs deliver that from then on.
ReadFresh == ~ crossed /\ rpc = "whole" => rmeta >= rlow

\* A heal that nothing disturbs, and that reports success, leaves every shard
\* whole, with metadata that parses beside it.
HealRebuilds ==
  calm /\ healed \in {"healthy", "healed"} =>
    \A d \in Drives : disk[d].part = hmeta /\ disk[d].rot = {} /\ disk[d].meta \in Writes

\* What a GET would deliver if it ran now: the write whose metadata it finds
\* first, if that can be rebuilt.
Delivers(w) ==
  \E d \in Drives :
    /\ HasMeta(d) /\ disk[d].meta = w
    /\ \A e \in 1 .. d - 1 : ~ HasMeta(e)
    /\ \A b \in Blocks : Cardinality({e \in Drives : Matches(e, b, w)}) >= K

\* store.rs, write_sharded: as long as a write quorum survives, the object is
\* still readable.
QuorumReadable ==
  wpc = "idle" /\ Cardinality({d \in placed : up[d] /\ Has(d, acked)}) >= WriteQuorum
    => Delivers(acked)
================================================================================
