--------------------------- MODULE ErasureVersions ---------------------------
(***************************************************************************)
(* Versions of one key in the erasure-coded store (erasure/store.rs): PUT, *)
(* DELETE and DELETE of one version, on N drives that fail and come back,  *)
(* by a process that may die.                                              *)
(*                                                                         *)
(* Each drive keeps the current version in the object's directory, older   *)
(* ones under .v/<id>, and a copy of the history, where the copy with the  *)
(* highest epoch counts.  Moving a version is best effort, drive by drive; *)
(* only a new version's shards need the write quorum.  Operations hold the *)
(* key's lock, so there is one at a time.  GET and HEAD of a version hold  *)
(* none, and yet may write: they begin with seed_legacy_history.  A pass   *)
(* over the drives is one step, or is cut after some of them when the      *)
(* process dies; the shard and its metadata, written and moved together,   *)
(* are one file here (they are apart in ErasureObject).                    *)
(***************************************************************************)
EXTENDS Naturals, FiniteSets, SequencesExt

CONSTANTS N,           \* drives
          K,           \* data shards: any K of the N rebuild the object
          MaxOps,      \* bound: operations
          MaxSwitches, \* bound: changes of the versioning status
          MaxFaults    \* bound: drive changes, deaths, unread bodies, and GETs and HEADs
                       \* of a version that seed a history

Drives == 1 .. N
WriteQuorum == K + 1
Ops == 1 .. MaxOps
Null == 0                   \* the version id "null"
Vids == Ops \cup {Null}
None == 0                   \* no such file
Current == MaxOps + 1       \* the place of the current version
Places == Vids \cup {Current}
NoPlace == MaxOps + 2
Empty == [p \in Places |-> None]
NoHistory == [epoch |-> 0, list |-> <<>>]

VARIABLES
  status,    \* the bucket's versioning status
  slot,      \* slot[d][p]: the write whose shard drive d keeps at place p
  history,   \* history[d]: d's copy; epoch 0 when it has none
  up,        \* drives that answer
  task,      \* the operation at work
  getter,    \* the history a GET or HEAD of a version is about to write
  tally,     \* operations, changes of status and faults so far
  owed,      \* versions acknowledged and not given up since
  behind,    \* drives that missed a pass
  upsets     \* what has gone wrong that the operations do not undo

vars == <<status, slot, history, up, task, getter, tally, owed, behind, upsets>>

Idle == [pc |-> "idle", op |-> "none", mode |-> "Off", vid |-> Null,
         pend |-> <<>>, epoch |-> 0, drop |-> NoPlace, move |-> "stay"]

Modes == {"Off", "Enabled", "Suspended"}
Entry == [vid : Vids, marker : BOOLEAN, w : Ops]
History == [epoch : Nat, list : Seq(Entry)]
Task == [pc : {"idle", "seed", "load", "drop", "move", "store", "record", "wipe"},
         op : {"none", "put", "delete", "remove"}, mode : Modes, vid : Vids,
         pend : Seq(Entry), epoch : Nat, drop : Places \cup {NoPlace},
         move : {"stay", "demote", "promote"}]

OperationTypes ==
  /\ status \in Modes
  /\ slot \in [Drives -> [Places -> Ops \cup {None}]]
  /\ history \in [Drives -> History]
  /\ up \subseteq Drives /\ behind \subseteq Drives
  /\ task \in Task
  /\ tally \in [ops : 0 .. MaxOps, switches : 0 .. MaxSwitches, faults : 0 .. MaxFaults]
  /\ owed \subseteq [vid : Vids, w : Ops]
  /\ upsets \subseteq {"cut", "wiped", "bypassed", "stale", "revived", "raced"}

TypeOK == OperationTypes /\ getter \in Seq(Entry)

Init ==
  /\ status = "Off" /\ up = Drives /\ task = Idle
  /\ slot = [d \in Drives |-> Empty] /\ history = [d \in Drives |-> NoHistory]
  /\ tally = [ops |-> 0, switches |-> 0, faults |-> 0]
  /\ owed = {} /\ behind = {} /\ upsets = {} /\ getter = <<>>
-------------------------------------------------------------------------------
Fault == tally.faults < MaxFaults /\ tally' = [tally EXCEPT !.faults = @ + 1]

SetVersioning(m) ==
  /\ m /= status /\ tally.switches < MaxSwitches
  /\ status' = m /\ tally' = [tally EXCEPT !.switches = @ + 1]
  /\ UNCHANGED <<slot, history, up, task, owed, behind, upsets>>

Flip(d) ==
  /\ Fault /\ up' = SymDiff(up, {d})
  /\ UNCHANGED <<status, slot, history, task, owed, behind, upsets>>

\* Mutant of Newest: the first drive's copy will do.
NewestFirst(ds) == IF ds = {} THEN NoHistory ELSE history[Min(ds)]

\* read_history: of the drives that answer, the first copy with the highest epoch.
Newest(ds) ==
  IF ds = {} THEN NoHistory
  ELSE history[CHOOSE d \in ds : /\ \A e \in ds : history[e].epoch <= history[d].epoch
                                 /\ \A e \in ds : history[e].epoch = history[d].epoch => d <= e]

\* The index of version v in list h, 0 if it is not there.
Position(h, v) == SelectInSeq(h, LAMBDA e : e.vid = v)

\* read_xl_v: the first drive that answers with metadata decides.
Described(p) ==
  LET ds == {d \in up : slot[d][p] /= None} IN IF ds = {} THEN None ELSE slot[Min(ds)][p]
\* The latest write at p on any drive.
Latest(p) == Max({slot[d][p] : d \in Drives})

\* write_history: the epoch after the one that was read, on every drive that
\* answers.
WriteHistory(h, epoch) ==
  history' = [d \in Drives |-> IF d \in up THEN [epoch |-> epoch + 1, list |-> h]
                               ELSE history[d]]

\* The operation returns.
Finish == task' = Idle
Missed == behind' = behind \cup (Drives \ up)

\* A pass over the drives leaves new[d] on each that answers, and the operation
\* goes on to t; or the process dies with the pass behind it on some drives only.
Pass(new, t) ==
  \E n \in Drives :
    /\ slot' = [d \in Drives |-> IF d \in up /\ d <= n THEN new[d] ELSE slot[d]]
    /\ \/ n = N /\ task' = t /\ UNCHANGED <<tally, upsets>>
       \/ n < N /\ Fault /\ Finish /\ upsets' = upsets \cup {"cut"}
    /\ Missed

\* A rename: where there is nothing to move, nothing is moved.
Moved(s, p, q) == IF s[p] = None THEN s ELSE [s EXCEPT ![q] = s[p], ![p] = None]
-------------------------------------------------------------------------------
\* The operation has the lock and reads the status.
Begin(o, v, pc) ==
  /\ task.pc = "idle" /\ tally.ops < MaxOps
  /\ tally' = [tally EXCEPT !.ops = @ + 1]
  /\ task' = [Idle EXCEPT !.pc = pc, !.op = o, !.mode = status, !.vid = v]
  /\ upsets' = upsets
       \cup (IF o /= "remove" /\ status = "Off" /\ Newest(Drives).epoch > 0
             THEN {"bypassed"} ELSE {})
       \cup (IF getter /= <<>> THEN {"raced"} ELSE {})
  /\ owed' = IF o = "remove" \/ v = Null THEN {x \in owed : x.vid /= v} ELSE owed
  /\ UNCHANGED <<status, slot, history, up, behind>>

\* The version id of a write or a delete marker.
NewVid == IF status = "Enabled" THEN tally.ops + 1 ELSE Null
BeginPut == Begin("put", NewVid, IF status = "Off" THEN "store" ELSE "seed")
BeginDelete == Begin("delete", NewVid, IF status = "Off" THEN "wipe" ELSE "seed")
BeginRemove(v) == Begin("remove", v, "seed")

\* seed_legacy_history: an object without a history becomes version "null",
\* described by the metadata found first.  The drives that answer may not have
\* the history, or not the object.
Seeds == Newest(up).epoch = 0 /\ Described(Current) /= None
LegacyHistory == <<[vid |-> Null, marker |-> FALSE, w |-> Described(Current)]>>

Seed ==
  /\ task.pc = "seed"
  /\ task' = [task EXCEPT !.pc = "load"]
  /\ LET seeds == Seeds
     IN /\ IF seeds THEN WriteHistory(LegacyHistory, 0) /\ Missed
                    ELSE UNCHANGED <<history, behind>>
        /\ upsets' = IF IF Newest(Drives).epoch = 0 THEN Described(Current) /= Latest(Current)
                        ELSE seeds
                     THEN upsets \cup {"stale"} ELSE upsets
  /\ UNCHANGED <<status, slot, up, tally, owed>>

\* Mutant of ForWrite: the archived "null" is left where it is.
ForWriteKeepsNull(h) ==
  [task EXCEPT !.pc = "drop", !.pend = h,
               !.move = IF h /= <<>> /\ ~h[1].marker THEN "demote" ELSE "stay"]

\* begin_versioned_write, and delete_object likewise: under a suspended status
\* the version "null" is dropped, wherever it is; a current version that stays is
\* to be moved into the archive.
ForWrite(h) ==
  LET i      == IF task.mode = "Suspended" THEN Position(h, Null) ELSE 0
      inSlot == i = 1 /\ ~h[1].marker
  IN [task EXCEPT !.pc = "drop",
                  !.pend = IF i = 0 THEN h ELSE RemoveAt(h, i),
                  !.drop = IF inSlot THEN Current
                           ELSE IF i /= 0 /\ ~h[i].marker THEN Null ELSE NoPlace,
                  !.move = IF h /= <<>> /\ ~h[1].marker /\ ~inSlot THEN "demote" ELSE "stay"]

\* delete_object_version: the version goes from its place; if it was the
\* current one, the next takes over, unless that is a delete marker.
ForRemove(h) ==
  LET i == Position(h, task.vid)
      p == RemoveAt(h, i)
  IN [task EXCEPT !.pc = "drop", !.pend = p,
                  !.drop = IF h[i].marker THEN NoPlace ELSE IF i = 1 THEN Current ELSE task.vid,
                  !.move = IF i = 1 /\ p /= <<>> /\ ~p[1].marker THEN "promote" ELSE "stay"]

Load ==
  /\ task.pc = "load"
  /\ LET h == Newest(up)
     IN /\ upsets' = IF h.epoch < Newest(Drives).epoch THEN upsets \cup {"stale"} ELSE upsets
        /\ IF task.op = "remove" /\ Position(h.list, task.vid) = 0 THEN Finish
           ELSE task' = [IF task.op = "remove" THEN ForRemove(h.list) ELSE ForWrite(h.list)
                         EXCEPT !.epoch = h.epoch]
  /\ UNCHANGED <<status, slot, history, up, tally, owed, behind>>

\* discard_current, remove_archive.
Drop ==
  /\ task.pc = "drop"
  /\ LET t == [task EXCEPT !.pc = "move"]
     IN IF task.drop = NoPlace THEN task' = t /\ UNCHANGED <<slot, tally, behind, upsets>>
        ELSE Pass([d \in Drives |-> [slot[d] EXCEPT ![task.drop] = None]], t)
  /\ UNCHANGED <<status, history, up, owed>>

\* Mutant of Shifted: the current version is not moved away.
ShiftedStays(s) ==
  IF task.move = "demote" THEN s ELSE Moved(s, task.pend[1].vid, Current)

\* demote_current, promote_archive on one drive.
Shifted(s) ==
  IF task.move = "demote" THEN Moved(s, Current, task.pend[1].vid)
  ELSE Moved(s, task.pend[1].vid, Current)

Move ==
  /\ task.pc = "move"
  /\ LET t == [task EXCEPT !.pc = IF task.op = "put" THEN "store"
                                  ELSE IF task.op = "remove" /\ task.pend = <<>> THEN "wipe"
                                  ELSE "record"]
     IN IF task.move = "stay" THEN task' = t /\ UNCHANGED <<slot, tally, behind, upsets>>
        ELSE Pass([d \in Drives |-> Shifted(slot[d])], t)
  /\ UNCHANGED <<status, history, up, owed>>

Acknowledge == owed' = owed \cup {[vid |-> task.vid, w |-> tally.ops]}

EnoughShards == Cardinality(up) >= WriteQuorum

\* write_sharded puts the new version in place on the drives that answer.
Store ==
  /\ task.pc = "store" /\ EnoughShards
  /\ LET t == IF task.mode = "Off" THEN Idle ELSE [task EXCEPT !.pc = "record"]
     IN /\ Pass([d \in Drives |-> [slot[d] EXCEPT ![Current] = tally.ops]], t)
        /\ IF task.mode = "Off" /\ upsets' = upsets THEN Acknowledge ELSE UNCHANGED owed
  /\ UNCHANGED <<status, history, up>>

\* remove_dir_all of the object's directory: all versions and the history.
Wiped(ds) ==
  /\ slot' = [d \in Drives |-> IF d \in ds THEN Empty ELSE slot[d]]
  /\ history' = [d \in Drives |-> IF d \in ds THEN NoHistory ELSE history[d]]
  /\ Missed

\* Too few drives answer: what was written is removed, and with it the archive.
StoreFails ==
  /\ task.pc = "store" /\ ~EnoughShards
  /\ Wiped(up) /\ Finish
  /\ upsets' = upsets \cup {"wiped"}
  /\ UNCHANGED <<status, up, tally, owed>>

\* The body cannot be read to its end, after the current version was moved
\* away: nothing moves it back.
BodyFails ==
  /\ task.pc = "store" /\ Fault /\ Finish
  /\ upsets' = IF task.mode = "Off" THEN upsets ELSE upsets \cup {"cut"}
  /\ UNCHANGED <<status, slot, history, up, owed, behind>>

\* The history gets the new version or marker in front, or loses the one removed;
\* one drive that answers is enough.
Record ==
  /\ task.pc = "record"
  /\ WriteHistory(IF task.op = "remove" THEN task.pend
                  ELSE <<[vid |-> task.vid, marker |-> task.op = "delete", w |-> tally.ops]>>
                       \o task.pend, task.epoch)
  /\ IF task.op = "put" /\ up /= {} THEN Acknowledge ELSE UNCHANGED owed
  /\ upsets' = IF up = {} THEN upsets \cup {"cut"} ELSE upsets
  /\ Finish /\ Missed
  /\ UNCHANGED <<status, slot, up, tally>>

\* DELETE without versioning, or of the last version.  A drive that is down
\* keeps its copy, and shows it when it is back.
Wipe ==
  /\ task.pc = "wipe"
  /\ Wiped(up) /\ Finish
  /\ upsets' = IF up = Drives THEN upsets ELSE upsets \cup {"revived"}
  /\ UNCHANGED <<status, up, tally, owed>>

\* The process dies, or the request is dropped, between two passes.
Abandon ==
  /\ task.pc /= "idle" /\ Fault /\ Finish
  /\ upsets' = IF task.pc \in {"seed", "load", "drop"} THEN upsets ELSE upsets \cup {"cut"}
  /\ UNCHANGED <<status, slot, history, up, owed, behind>>

\* get_object_version and head_object_version find no history and read what there
\* is of the object, without the key's lock.
GetSeeds ==
  /\ getter = <<>> /\ Seeds /\ Fault
  /\ getter' = LegacyHistory
  /\ upsets' = upsets
       \cup (IF task.pc = "idle" THEN {} ELSE {"raced"})
       \cup (IF Newest(Drives).epoch > 0 \/ Described(Current) /= Latest(Current)
             THEN {"stale"} ELSE {})
  /\ UNCHANGED <<status, slot, history, up, task, owed, behind>>

\* They write the history, over whatever an operation has recorded meanwhile; or
\* no drive answers, or the request is dropped.
GetWrites ==
  /\ getter /= <<>> /\ getter' = <<>>
  /\ \/ up /= {} /\ WriteHistory(getter, 0) /\ Missed
     \/ UNCHANGED <<history, behind>>
  /\ UNCHANGED <<status, slot, up, task, tally, owed, upsets>>

OperationStep ==
  \/ \E m \in {"Off", "Enabled", "Suspended"} : SetVersioning(m)
  \/ \E d \in Drives : Flip(d)
  \/ BeginPut \/ BeginDelete \/ \E v \in Vids : v <= tally.ops /\ BeginRemove(v)
  \/ Seed \/ Load \/ Drop \/ Move \/ Store \/ StoreFails \/ BodyFails \/ Record \/ Wipe
  \/ Abandon

Next == (OperationStep /\ UNCHANGED getter) \/ GetSeeds \/ GetWrites

Spec == Init /\ [][Next]_vars
-------------------------------------------------------------------------------
\* What a GET of version v delivers if it runs now: the place the history
\* gives it, the metadata found first there, and K shards that match them.
Delivers(v) ==
  LET h == IF Seeds THEN LegacyHistory ELSE Newest(up).list
      i == Position(h, v)
      p == IF i = 1 THEN Current ELSE v
  IN IF i = 0 \/ h[i].marker THEN None
     ELSE LET w == Described(p)
          IN IF Cardinality({d \in up : slot[d][p] = w}) >= K THEN w ELSE None

\* store.rs, demote_current: "write quorum + heal cover it".  Any K drives that
\* missed no pass deliver every acknowledged version nobody gave up, whichever
\* drives were down while it was written, moved into the archive or back.  What
\* upsets tells apart is excepted; among it, a GET or HEAD of a version whose seed
\* an operation has overlapped: it writes over what the operation recorded.
Retrievable ==
  (task.pc = "idle" /\ upsets = {} /\ up \cap behind = {} /\ Cardinality(up) >= K)
    => \A x \in owed : Delivers(x.vid) = x.w

\* storage/mod.rs, get_object_version: a GET of a version delivers the bytes of
\* that version, or an error, never those of another version (store.rs, VHistory: a
\* drive that missed a write cannot serve a stale history once it is back).  That is
\* so, whichever drives answer, as long as those that missed something are too few
\* to make up an object.  Beyond that it fails: a DELETE of the current version asks
\* for no quorum, and the drives that missed it hold the deleted version at the
\* place of the one that took over.
NeverAnother ==
  (task.pc = "idle" /\ upsets = {} /\ Cardinality(behind) < K)
    => \A x \in owed : Delivers(x.vid) \in {x.w, None}

\* At every moment of an operation, each drive that missed no pass has the
\* shard of every acknowledged version at some place, so an operation that
\* dies there has destroyed none.
OnDrives ==
  upsets = {} => \A x \in owed : \A d \in Drives \ behind : \E p \in Places : slot[d][p] = x.w

\* The versions of the key as its clients know them.
versions ==
  LET newest     == Newest(Drives)
      h          == newest.list
      unrecorded == task.op = "put" /\ task.mode /= "Off" /\ task.pc = "record"
  IN IF newest.epoch > 0
     THEN [i \in 1 .. Len(h) |-> [vid |-> h[i].vid, body |-> IF h[i].marker THEN None ELSE h[i].w]]
     ELSE IF Latest(Current) = None \/ unrecorded THEN <<>>
     ELSE <<[vid |-> Null, body |-> Latest(Current)]>>

Abstract == INSTANCE VersionedKey WITH Ids <- Vids, Bodies <- Ops \cup {None}
===============================================================================
