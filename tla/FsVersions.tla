------------------------------ MODULE FsVersions ------------------------------
(***************************************************************************)
(* The versions of one key in the filesystem backend (storage/fs.rs).  The *)
(* current version is the canonical object file with its metadata sidecar; *)
(* older versions are pairs of such files in the key's archive; a history  *)
(* file lists the versions and delete markers, newest first.  An operation *)
(* changes these files one after the other.                                *)
(*                                                                         *)
(* PUT (also copy_object and complete_multipart, which end alike), DELETE  *)
(* and DELETE of a version hold the key's lock: there is one writer.  GET  *)
(* and HEAD of a version hold none, and yet may write: they begin with     *)
(* seed_legacy_history.  The bucket's versioning status may change at any  *)
(* time; an operation goes by the status it has read.                      *)
(*                                                                         *)
(* Operations are numbered.  A payload or sidecar is the number of the PUT *)
(* it stems from, and the version id an operation draws is its number.     *)
(* Tags, retention and legal hold of the key, and the pruning of empty     *)
(* directories, are left out.                                              *)
(***************************************************************************)
EXTENDS Naturals, SequencesExt

CONSTANTS MaxOps,        \* bound: PUTs, DELETEs, DELETEs of a version and GETs of one
          MaxSwitches,   \* bound: changes of the versioning status
          MaxExtras      \* bound: GETs of a version and operations cut short, together
ASSUME BoundsAssumption == MaxOps \in Nat /\ MaxSwitches \in Nat /\ MaxExtras \in Nat

Modes == {"Off", "Enabled", "Suspended"}
Ops == 1 .. MaxOps
Null == 0                  \* the version id "null"
Vids == Ops \cup {Null}
None == 0                  \* no such file
Torn == MaxOps + 1         \* a sidecar that does not parse
Canonical == MaxOps + 1    \* the place of the current version, beside those of the archive

\* An entry of the history: the etag and size it carries are those of PUT w.
Entry == [vid : Vids, marker : BOOLEAN, w : Ops]

VARIABLES mode,      \* the bucket's versioning status, as versioning_mode reads it
          setting,   \* the status being written
          data,      \* data[p]: the payload at place p
          meta,      \* meta[p]: the sidecar at place p
          file,      \* the history file: none, torn or whole
          hist       \* what it lists, once it is whole
disk == <<data, meta, file, hist>>

\* The writer: the operation that has the key's lock.
VARIABLES wpc,       \* where it is
          op,        \* put, delete, or remove (DELETE of a version)
          wmode,     \* the status it goes by
          wvid,      \* the version id it drew, or was given
          cur,       \* its number
          pend,      \* the history it is about to write
          victim,    \* the place whose version it drops
          shift      \* the move it owes between the canonical place and the archive
writer == <<wpc, op, wmode, wvid, cur, pend, victim, shift>>

\* The reader: get_object_version.
VARIABLES rpc, rvid,
          rhist,     \* the history it is about to write
          rplace,    \* where it looks for the version
          rmeta, rdata,
          reads,     \* GETs so far
          rlone      \* no operation has overlapped the GET
reader == <<rpc, rvid, rhist, rplace, rmeta, rdata, reads, rlone>>

\* Observations, read by no action.
VARIABLES switches,
          faults,
          outcome,   \* how the last operation ended
          owed,      \* versions acknowledged, and not given up by a later request
          upsets     \* what has gone wrong
seen == <<switches, faults, outcome, owed, upsets>>

status == <<mode, setting>>
vars == <<status, disk, writer, reader, seen>>

Places == Vids \cup {Canonical}

TypeOK ==
  /\ mode \in Modes /\ wmode \in Modes /\ setting \in Modes \cup {"none"}
  /\ data \in [Places -> Ops \cup {None}]
  /\ meta \in [Places -> Ops \cup {None, Torn}]
  /\ file \in {"none", "torn", "whole"}
  /\ hist \in Seq(Entry) /\ pend \in Seq(Entry) /\ rhist \in Seq(Entry)
  /\ file = "none" => hist = <<>>
  /\ wpc \in {"idle", "seed", "seeding", "seedfill", "load", "drop", "dropmeta", "demote",
              "demotemeta", "promote", "promotemeta", "place", "describe", "describefill",
              "record", "recordfill", "unlist"}
  /\ op \in {"none", "put", "delete", "remove"}
  /\ wvid \in Vids /\ cur \in 0 .. MaxOps
  /\ victim \in Places /\ shift \in {"stay", "demote", "promote"}
  /\ rpc \in {"idle", "seed", "seeding", "seedfill", "lost", "load", "meta", "open",
              "got", "refused"}
  /\ rvid \in Vids /\ rplace \in Places
  /\ rmeta \in Ops \cup {None, Torn} /\ rdata \in Ops \cup {None}
  /\ reads \in 0 .. MaxExtras /\ rlone \in BOOLEAN
  /\ switches \in 0 .. MaxSwitches /\ faults \in 0 .. MaxExtras
  /\ outcome \in {"none", "ok", "nosuchversion", "error", "cut"}
  /\ owed \subseteq [vid : Vids, w : Ops]
  /\ upsets \subseteq {"cut", "raced", "bypassed"}

Init ==
  /\ mode = "Off" /\ setting = "none"
  /\ data = [p \in Places |-> None] /\ meta = [p \in Places |-> None]
  /\ file = "none" /\ hist = <<>>
  /\ wpc = "idle" /\ op = "none" /\ wmode = "Off" /\ wvid = Null /\ cur = 0
  /\ pend = <<>> /\ victim = Canonical /\ shift = "stay"
  /\ rpc = "idle" /\ rvid = Null /\ rhist = <<>> /\ rplace = Canonical
  /\ rmeta = None /\ rdata = None /\ reads = 0 /\ rlone = FALSE
  /\ switches = 0 /\ faults = 0 /\ outcome = "none" /\ owed = {} /\ upsets = {}

-------------------------------------------------------------------------------
\* set_bucket_versioning: any status will do, and all but two mean "off".  The
\* file is truncated, then filled; one that does not parse means "off" too.
SetVersioning(m) ==
  /\ setting = "none" /\ m # mode /\ switches < MaxSwitches
  /\ mode' = "Off" /\ setting' = m /\ switches' = switches + 1
  /\ UNCHANGED <<disk, writer, reader, faults, outcome, owed, upsets>>

VersioningSet ==
  /\ setting # "none"
  /\ mode' = setting /\ setting' = "none"
  /\ UNCHANGED <<disk, writer, reader, seen>>

\* read_history: a history that does not parse counts as empty.
ReadHistory == IF file = "whole" THEN hist ELSE <<>>

\* The index of version v in history h, 0 if it is not there.
Position(h, v) == SelectInSeq(h, LAMBDA e : e.vid = v)

\* write_history truncates the file; what it lists is settled from here on.
TruncateHistory(h) == file' = "torn" /\ hist' = h

\* ... and fills it.  Somebody else may have filled it meanwhile: the shorter
\* text then leaves the tail of the longer behind it.
FillHistory(h) ==
  \/ file = "torn" /\ file' = "whole" /\ hist' = h
  \/ /\ file = "whole"
     /\ hist' = h
     /\ file' \in IF Len(h) > Len(hist) \/ h = hist THEN {"whole"}
                  ELSE IF Len(h) < Len(hist) THEN {"torn"} ELSE {"whole", "torn"}

\* seed_legacy_history has something to seed: a current version, but no history.
\* The entry's etag and size come from the sidecar, or else from the payload.
Unseeded == file = "none" /\ data[Canonical] # None
LegacyHistory ==
  <<[vid |-> Null, marker |-> FALSE,
     w |-> IF meta[Canonical] \in Ops THEN meta[Canonical] ELSE data[Canonical]]>>

\* Removing the history file takes it from under a reader that is filling it.
RemoveHistory ==
  /\ file' = "none" /\ hist' = <<>>
  /\ rpc' = IF rpc = "seedfill" THEN "lost" ELSE rpc

-------------------------------------------------------------------------------
\* An operation takes the lock and reads the status.
Begin(o, v, pc) ==
  /\ wpc = "idle" /\ cur + reads < MaxOps
  /\ cur' = cur + 1 /\ op' = o /\ wvid' = v /\ wmode' = mode /\ wpc' = pc
  /\ outcome' = "none"
  /\ upsets' = upsets \cup (IF rpc \in {"seeding", "seedfill"} THEN {"raced"} ELSE {})
                      \cup (IF o # "remove" /\ mode = "Off" /\ file # "none"
                              THEN {"bypassed"} ELSE {})
  /\ owed' = IF o = "remove" \/ v = Null THEN {x \in owed : x.vid # v} ELSE owed
  /\ rlone' = FALSE
  /\ UNCHANGED <<status, disk, pend, victim, shift, rpc, rvid, rhist, rplace, rmeta, rdata, reads,
                 switches, faults>>

\* The version id of a write or a delete marker.
NewVid == IF mode = "Enabled" THEN cur + 1 ELSE Null

BeginPut == Begin("put", NewVid, IF mode = "Off" THEN "place" ELSE "seed")
BeginDelete == Begin("delete", NewVid, IF mode = "Off" THEN "drop" ELSE "seed")
BeginRemove(v) == Begin("remove", v, "seed")

\* The operation returns.
Finish(result) ==
  /\ wpc' = "idle" /\ op' = "none" /\ wmode' = "Off" /\ wvid' = Null
  /\ pend' = <<>> /\ victim' = Canonical /\ shift' = "stay"
  /\ outcome' = result
  /\ owed' = IF result = "ok" /\ op = "put" THEN owed \cup {[vid |-> wvid, w |-> cur]} ELSE owed
  /\ UNCHANGED <<cur, switches>>

\* The writer goes on to pc.
GoTo(pc) ==
  wpc' = pc /\ UNCHANGED <<op, wmode, wvid, cur, pend, victim, shift, seen>>

Seed ==
  /\ wpc = "seed"
  /\ IF Unseeded
       THEN /\ pend' = LegacyHistory /\ wpc' = "seeding"
            /\ UNCHANGED <<op, wmode, wvid, cur, victim, shift, seen>>
       ELSE GoTo("load")
  /\ UNCHANGED <<status, disk, reader>>

\* Write the seed, or the history at the operation's end: truncate, then fill.
Truncate(from, h, pc) ==
  /\ wpc = from
  /\ TruncateHistory(h)
  /\ GoTo(pc)
  /\ UNCHANGED <<status, data, meta, reader>>
Seeding == Truncate("seeding", pend, "seedfill")
SeedFill ==
  /\ wpc = "seedfill"
  /\ FillHistory(pend)
  /\ GoTo("load")
  /\ UNCHANGED <<status, data, meta, reader>>

\* Where the writer goes once nothing is left to drop, and to move.
AfterMove(p) ==
  CASE op = "put"                          -> "place"
    [] op = "delete" /\ wmode = "Off"      -> "return"
    [] op = "remove" /\ p = <<>>           -> "unlist"
    [] OTHER                               -> "record"

\* Mutant of AfterDrop: the move is skipped.
AfterDropSkips(s, p) == AfterMove(p)

AfterDrop(s, p) == IF s = "stay" THEN AfterMove(p) ELSE s

\* begin_versioned_write and delete_object: a suspended write drops the version
\* "null"; a real version that still has the canonical place is to be demoted.
LoadForWrite ==
  LET h == ReadHistory
      i == IF wmode = "Suspended" THEN Position(h, Null) ELSE 0
      p == IF i = 0 THEN h ELSE RemoveAt(h, i)
      inSlot == i = 1 /\ ~ h[1].marker
      s == IF h # <<>> /\ ~ h[1].marker /\ ~ inSlot THEN "demote" ELSE "stay"
  IN  /\ pend' = p /\ shift' = s
      /\ victim' = IF inSlot THEN Canonical ELSE Null
      /\ wpc' = IF i # 0 /\ ~ h[i].marker THEN "drop" ELSE AfterDrop(s, p)

\* delete_object_version: if the current version goes, the next is promoted.
LoadForRemove ==
  LET h == ReadHistory
      i == Position(h, wvid)
      p == RemoveAt(h, i)
      s == IF i = 1 /\ p # <<>> /\ ~ p[1].marker THEN "promote" ELSE "stay"
  IN  /\ i # 0
      /\ pend' = p /\ shift' = s
      /\ victim' = IF i = 1 THEN Canonical ELSE wvid
      /\ wpc' = IF h[i].marker THEN AfterDrop(s, p) ELSE "drop"

Load ==
  /\ wpc = "load"
  /\ \/ op # "remove" /\ LoadForWrite /\ UNCHANGED <<op, wmode, wvid, cur, seen>>
     \/ op = "remove" /\ LoadForRemove /\ UNCHANGED <<op, wmode, wvid, cur, seen>>
     \/ /\ op = "remove" /\ Position(ReadHistory, wvid) = 0
        /\ Finish("nosuchversion") /\ UNCHANGED <<faults, upsets>>
  /\ UNCHANGED <<status, disk, reader>>

\* discard_canonical, remove_archive, and DELETE without versioning: the payload
\* goes, then the sidecar.
Drop ==
  /\ wpc = "drop"
  /\ data' = [data EXCEPT ![victim] = None]
  /\ GoTo("dropmeta")
  /\ UNCHANGED <<status, meta, file, hist, reader>>

DropMeta ==
  /\ wpc = "dropmeta"
  /\ meta' = [meta EXCEPT ![victim] = None]
  /\ \/ AfterDrop(shift, pend) # "return" /\ GoTo(AfterDrop(shift, pend))
     \/ AfterDrop(shift, pend) = "return" /\ Finish("ok") /\ UNCHANGED <<faults, upsets>>
  /\ UNCHANGED <<status, data, file, hist, reader>>

\* Rename the payload at place p to place q; without one the operation fails.
MoveData(p, q, pc) ==
  /\ \/ /\ data[p] # None
        /\ data' = [data EXCEPT ![q] = data[p], ![p] = None]
        /\ GoTo(pc)
     \/ data[p] = None /\ Finish("error") /\ UNCHANGED <<data, faults, upsets>>
  /\ UNCHANGED <<status, meta, file, hist, reader>>

\* Rename the sidecar likewise; without one nothing happens.
MoveMeta(p, q) ==
  /\ meta' = IF meta[p] = None THEN meta ELSE [meta EXCEPT ![q] = meta[p], ![p] = None]
  /\ GoTo(AfterMove(pend))
  /\ UNCHANGED <<status, data, file, hist, reader>>

Demote == wpc = "demote" /\ MoveData(Canonical, pend[1].vid, "demotemeta")
DemoteMeta == wpc = "demotemeta" /\ MoveMeta(Canonical, pend[1].vid)

\* Mutant of PromoteMeta: the sidecar stays in the archive.
PromoteMetaNot ==
  /\ wpc = "promotemeta" /\ GoTo(AfterMove(pend))
  /\ UNCHANGED <<status, data, meta, file, hist, reader>>

Promote == wpc = "promote" /\ MoveData(pend[1].vid, Canonical, "promotemeta")
PromoteMeta == wpc = "promotemeta" /\ MoveMeta(pend[1].vid, Canonical)

\* move_into_place: the new payload is renamed to the canonical place.
Place ==
  /\ wpc = "place"
  /\ data' = [data EXCEPT ![Canonical] = cur]
  /\ GoTo("describe")
  /\ UNCHANGED <<status, meta, file, hist, reader>>

\* write_meta: truncate, then fill.
Describe ==
  /\ wpc = "describe"
  /\ meta' = [meta EXCEPT ![Canonical] = Torn]
  /\ GoTo("describefill")
  /\ UNCHANGED <<status, data, file, hist, reader>>

DescribeFill ==
  /\ wpc = "describefill"
  /\ meta' = [meta EXCEPT ![Canonical] = cur]
  /\ \/ wmode # "Off" /\ GoTo("record")
     \/ wmode = "Off" /\ Finish("ok") /\ UNCHANGED <<faults, upsets>>
  /\ UNCHANGED <<status, data, file, hist, reader>>

\* Mutant of NewHistory: the new version is added at the end.
NewHistoryAppends ==
  IF op = "remove" THEN pend
  ELSE pend \o <<[vid |-> wvid, marker |-> op = "delete", w |-> cur]>>

\* The history with the new version or marker at its head.
NewHistory ==
  IF op = "remove" THEN pend
  ELSE <<[vid |-> wvid, marker |-> op = "delete", w |-> cur]>> \o pend

Record == Truncate("record", NewHistory, "recordfill")
RecordFill ==
  /\ wpc = "recordfill"
  /\ FillHistory(NewHistory)
  /\ Finish("ok")
  /\ UNCHANGED <<status, data, meta, reader, faults, upsets>>

\* No version is left: the history file goes.
Unlist ==
  /\ wpc = "unlist"
  /\ RemoveHistory
  /\ Finish("ok")
  /\ UNCHANGED <<status, data, meta, rvid, rhist, rplace, rmeta, rdata, reads, rlone, faults, upsets>>

\* A file operation fails, the request is dropped or the process dies.
Abandon ==
  /\ wpc # "idle" /\ reads + faults < MaxExtras
  /\ faults' = faults + 1
  /\ Finish("cut")
  /\ upsets' = upsets \cup {"cut"}
  /\ UNCHANGED <<status, disk, reader>>

-------------------------------------------------------------------------------
\* The reader goes on to pc.
RGoTo(pc) == rpc' = pc /\ UNCHANGED <<rvid, rhist, rplace, rmeta, rdata, reads, rlone>>

GetVersion(v) ==
  /\ rpc \in {"idle", "got", "refused"} /\ reads + faults < MaxExtras /\ cur + reads < MaxOps
  /\ v <= cur
  /\ rpc' = "seed" /\ rvid' = v /\ reads' = reads + 1
  /\ rhist' = <<>> /\ rplace' = Canonical /\ rmeta' = None /\ rdata' = None
  /\ rlone' = (wpc = "idle")
  /\ UNCHANGED <<status, disk, writer, seen>>

RSeed ==
  /\ rpc = "seed"
  /\ IF Unseeded
       THEN /\ rpc' = "seeding" /\ rhist' = LegacyHistory
            /\ upsets' = IF wpc = "idle" THEN upsets ELSE upsets \cup {"raced"}
            /\ UNCHANGED <<rvid, rplace, rmeta, rdata, reads, rlone>>
       ELSE RGoTo("load") /\ UNCHANGED upsets
  /\ UNCHANGED <<status, disk, writer, switches, faults, outcome, owed>>

RSeeding ==
  /\ rpc = "seeding"
  /\ TruncateHistory(rhist) /\ RGoTo("seedfill")
  /\ UNCHANGED <<status, data, meta, writer, seen>>

RSeedFill ==
  /\ rpc \in {"seedfill", "lost"}
  /\ IF rpc = "lost" THEN UNCHANGED <<file, hist>> ELSE FillHistory(rhist)
  /\ RGoTo("load")
  /\ UNCHANGED <<status, data, meta, writer, seen>>

\* Mutant of RLoad: a version the history does not list is taken for the current.
RLoadCurrent ==
  /\ rpc = "load"
  /\ LET i == Position(ReadHistory, rvid)
     IN  /\ rpc' = "meta"
         /\ rplace' = IF i < 2 THEN Canonical ELSE rvid
         /\ UNCHANGED <<rvid, rhist, rmeta, rdata, reads, rlone>>
  /\ UNCHANGED <<status, disk, writer, seen>>

\* Find the version: the first is at the canonical place, the others are in the
\* archive, and delete markers are refused.
RLoad ==
  /\ rpc = "load"
  /\ LET i == Position(ReadHistory, rvid)
     IN  IF i = 0 \/ ReadHistory[i].marker THEN RGoTo("refused")
         ELSE /\ rpc' = "meta"
              /\ rplace' = IF i = 1 THEN Canonical ELSE rvid
              /\ UNCHANGED <<rvid, rhist, rmeta, rdata, reads, rlone>>
  /\ UNCHANGED <<status, disk, writer, seen>>

\* read_stored fails for want of a payload; read_version_stored only if there is
\* no sidecar that parses either.
NoKey == data[Canonical] = None
NoVersion(v) == meta[v] \notin Ops /\ data[v] = None

RMeta ==
  /\ rpc = "meta"
  /\ IF (rplace = Canonical /\ NoKey) \/ (rplace # Canonical /\ NoVersion(rplace))
       THEN RGoTo("refused")
       ELSE /\ rpc' = "open" /\ rmeta' = meta[rplace]
            /\ UNCHANGED <<rvid, rhist, rplace, rdata, reads, rlone>>
  /\ UNCHANGED <<status, disk, writer, seen>>

ROpen ==
  /\ rpc = "open"
  /\ rpc' = IF data[rplace] = None THEN "refused" ELSE "got"
  /\ rdata' = data[rplace]
  /\ UNCHANGED <<status, disk, writer, seen, rvid, rhist, rplace, rmeta, reads, rlone>>

WriterStep ==
  \/ BeginPut \/ BeginDelete \/ \E v \in Vids : v <= cur /\ BeginRemove(v)
  \/ Seed \/ Seeding \/ SeedFill \/ Load \/ Drop \/ DropMeta
  \/ Demote \/ DemoteMeta \/ Promote \/ PromoteMeta
  \/ Place \/ Describe \/ DescribeFill \/ Record \/ RecordFill \/ Unlist
  \/ Abandon

ReaderStep ==
  \/ \E v \in Vids : GetVersion(v)
  \/ RSeed \/ RSeeding \/ RSeedFill \/ RLoad \/ RMeta \/ ROpen

Next == WriterStep \/ ReaderStep \/ VersioningSet \/ \E m \in Modes : SetVersioning(m)

Spec == Init /\ [][Next]_vars

-------------------------------------------------------------------------------
\* Version e.vid is where a reader of entry i looks for it, whole.
Held(i) ==
  LET p == IF i = 1 THEN Canonical ELSE hist[i].vid
  IN  data[p] = hist[i].w /\ meta[p] = hist[i].w

\* The canonical place holds the head of the history if
\* that is a real version, the archive the others, and nothing else is there.
\* This holds whenever no operation is at work, unless one was cut short, a
\* reader's seed crossed an operation, or the status was "off" with a history.
Agrees ==
  wpc = "idle" /\ upsets = {} /\ file # "none" /\ rpc # "seedfill" =>
    /\ file = "whole" /\ hist # <<>>
    /\ \A i \in 1 .. Len(hist) : ~ hist[i].marker => Held(i)
    /\ hist[1].marker => data[Canonical] = None /\ meta[Canonical] = None
    /\ \A v \in Vids : data[v] # None \/ meta[v] # None =>
                         \E i \in 2 .. Len(hist) : hist[i].vid = v /\ ~ hist[i].marker

\* What a GET of version v delivers if it runs now, alone: 0 if it is refused.
Delivers(v) ==
  LET h == IF Unseeded THEN LegacyHistory ELSE ReadHistory
      i == Position(h, v)
  IN  IF i = 0 \/ h[i].marker THEN None
      ELSE data[IF i = 1 THEN Canonical ELSE v]

\* A version that was acknowledged, and that no later request gave up, is what a GET of its id
\* delivers, whatever versions were written, marked deleted or removed since,
\* and however often the status changed.
Retrievable ==
  wpc = "idle" /\ upsets = {} /\ rpc # "seedfill" => \A x \in owed : Delivers(x.vid) = x.w

\* At every moment, in the middle of an operation too, the payload of every
\* acknowledged version is on the disk: no operation gives up the only copy of a
\* version it has not been asked to, so cutting it short destroys none.
OnDisk == upsets = {} => \A x \in owed : \E p \in Places : data[p] = x.w

\* No operation is in the way of a later one: a payload that is to be moved is
\* there.
NeverStuck == outcome = "error" => upsets # {}

\* fs.rs, VersionHistory: between operations, history, payloads and sidecars
\* agree, and no sequence of requests and changes of the status, however long,
\* leaves a key on which a later operation fails.
Consistent == Agrees /\ NeverStuck

\* docs/GLOSSARY.md: old versions remain retrievable.  Every acknowledged version
\* that nobody gave up is what a GET of its id delivers, and while an operation
\* is at work, its payload is somewhere on the disk.
Kept == Retrievable /\ OnDisk

\* storage/mod.rs, get_object_version: a version's metadata, and a reader of its
\* bytes.  A GET of a version takes no lock, and yet never delivers another
\* version's metadata or payload if the version is in the archive, whatever is
\* written, promoted or removed meanwhile; and if it is the current one, unless
\* an operation overlaps the GET and puts another in its place.  (Between the
\* moves of the two files the metadata may be missing, and is made up.)
GetsItsVersion ==
  (rpc = "got" /\ rvid # Null /\ upsets = {} /\ (rplace # Canonical \/ rlone))
    => rdata = rvid /\ rmeta \notin Ops \ {rvid}

\* The versions of the key as its clients know them: what the history lists, or
\* the one version "null" where there is no history.  A write without a history
\* counts once it is recorded.
versions ==
  LET unrecorded == op = "put" /\ wmode # "Off" /\ wpc \in {"describe", "describefill", "record"}
      body(e) == IF e.marker THEN None ELSE e.w
  IN  IF file # "none"
        THEN [i \in 1 .. Len(hist) |-> [vid |-> hist[i].vid, body |-> body(hist[i])]]
        ELSE IF data[Canonical] = None \/ unrecorded THEN <<>>
             ELSE <<[vid |-> Null, body |-> data[Canonical]]>>

Abstract == INSTANCE VersionedKey WITH Ids <- Vids, Bodies <- Ops \cup {None}

\* Until something goes wrong, the files implement a versioned key: each
\* operation takes effect in one step, adds one version in front or removes the
\* one it names, and touches no other.
ImplementsVersionedKey ==
  Abstract!Init /\ [][upsets' = {} /\ versions' # versions => Abstract!Next]_vars
===============================================================================
