------------------------------ MODULE Retention ------------------------------
(***************************************************************************)
(* Object lock (legal hold and retention), object tags, the deletes that    *)
(* respect the lock and those that do not, and the lifecycle worker.        *)
(*                                                                          *)
(* The lock of an object lives in sidecar files beside it, in the erasure   *)
(* backend one copy of each per drive: written drive by drive, acknowledged *)
(* if one drive took it, read from the first drive that has the file.       *)
(* Setting one takes no key lock, and DELETE reads them before it calls the *)
(* store, so every order of the steps below can happen.  The object itself  *)
(* is one value here, what its shards go through is in ErasureObject.       *)
(***************************************************************************)
EXTENDS Integers, Sequences, FiniteSets, FiniteSetsExt

CONSTANTS Keys,        \* object keys, numbered in listing order
          Under,       \* Under[k]: the keys whose directory lies in k's ("a/b" in "a")
          Touched,     \* keys that clients delete and write (a bound)
          DriveCount,  \* drives of the erasure backend
          Failing,     \* drives that may fail (a bound)
          Setters, Deleters, Writers,   \* concurrent requests, by what they ask for
          Settings,    \* the sidecars that requests set: <<key, file, what it says>> (a bound)
          Days,        \* the lifecycle rule: age at which an object expires
          PageMax,     \* objects in one listing page (1000 in the code)
          MaxClock, MaxRequests, MaxUpsets   \* bounds of the model

Worker  == "worker"
Clients == Setters \cup Deleters \cup Writers
Procs   == Clients \cup {Worker}

ASSUME RetentionAssumption ==
  /\ Keys \subseteq Nat \ {0} /\ IsFiniteSet(Keys)
  /\ Under \in [Keys -> SUBSET Keys] /\ Touched \subseteq Keys
  /\ DriveCount \in Nat \ {0} /\ Failing \subseteq 1 .. DriveCount /\ PageMax \in Nat \ {0}
  /\ Worker \notin Clients /\ Days \in Nat
  /\ \A s \in Settings : /\ s[1] \in Keys
                         /\ s[2] \in {"tags", "hold", "retain"} /\ s[3] \in Nat \cup {-1}
  /\ {MaxClock, MaxRequests, MaxUpsets} \subseteq Nat

VARIABLES backend, mode,   \* "fs" | "erasure"; versioning "off" | "enabled"
          clock, requests,
          upsets,          \* crashes, and drives that failed
          up,              \* the drives that answer
          obj,             \* key -> last_modified of its current object, or None
          arch,            \* key -> last_modified of an archived version, or None
          side,            \* drive -> key -> file -> what its copy says
          uneven,          \* file -> key -> the copies that may not be the last acknowledged
          due,             \* key -> file -> what was acknowledged to a client
          op,              \* what each process is doing
          pass,            \* the worker's pass: [now, token, page, failed]
          breach, leaked   \* history: locked data removed; key -> drives left with sidecars

vars == <<backend, mode, clock, requests, upsets, up, obj, arch, side, uneven,
          due, op, pass, breach, leaked>>

Drives == 1 .. DriveCount
Copies == IF backend = "fs" THEN {1} ELSE Drives
Files  == {"tags", "hold", "retain"}

\* What a sidecar says: a date, On, Off, nothing as there is no file, or nothing
\* as it was emptied and not yet filled.
On == 1
Off == 0
None == -1
Torn == -2
NoSide == [f \in Files |-> None]

Idle   == [k |-> 0, phase |-> "idle", goal |-> "none", file |-> "tags", val |-> 0, left |-> {},
           missed |-> {}, heard |-> FALSE, excused |-> FALSE, alone |-> TRUE]
NoPass == [now |-> None, token |-> 0, page |-> <<>>, failed |-> FALSE]
InPass == pass.now # None

Init == /\ backend \in {"fs", "erasure"} /\ mode \in {"off", "enabled"}
        /\ clock = 0 /\ requests = 0 /\ upsets = 0 /\ up = Drives
        /\ obj = [k \in Keys |-> 0] /\ arch = [k \in Keys |-> None]
        /\ side = [d \in Drives |-> [k \in Keys |-> NoSide]]
        /\ uneven = [f \in Files |-> [k \in Keys |-> {}]]
        /\ due = [k \in Keys |-> NoSide]
        /\ op = [p \in Procs |-> Idle] /\ pass = NoPass
        /\ breach = FALSE /\ leaked = [k \in Keys |-> {}]

\* A DELETE of key k in the erasure backend removes the directory <bucket>/<k>,
\* and the keys nested in it with it.
Gone(k) == IF backend = "erasure" THEN {k} \cup Under[k] ELSE {k}

Removing(k) == \E p \in Procs : op[p].phase = "sides" /\ k \in Gone(op[p].k)
Busy(k)     == \E p \in Procs : op[p].k = k /\ op[p].phase \in {"sides", "body"}   \* the key lock is held
Done(p)     == op' = [op EXCEPT ![p] = Idle]
world       == <<backend, mode, upsets, up>>

\* Mutant of Blocks: the date itself and later ones are over.
BlocksNever(f, v, now) == IF f = "hold" THEN v = On ELSE f = "retain" /\ v > now + 1

\* Whether a lock file that says v keeps an object from deletion at time now.
Blocks(f, v, now) == IF f = "hold" THEN v = On ELSE f = "retain" /\ v > now

\* The lock a client was told of, at this time.
Protected(k) == due[k]["hold"] = On \/ due[k]["retain"] > clock

(***************************************************************************)
(* Requests.                                                                *)
(***************************************************************************)
Removals == Touched \X {"remove", "removeVersion"}

\* What the object routes let a client ask for.  Batch deletion and the console
\* never look at the lock.
Asked(c) ==
  (IF c \in Deleters
   THEN {[Idle EXCEPT !.k = r[1], !.phase = "check", !.file = "hold", !.goal = r[2]] : r \in Removals}
        \cup {[Idle EXCEPT !.k = r[1], !.phase = r[2], !.excused = TRUE] : r \in Removals} ELSE {})
  \cup
  (IF c \in Setters
   THEN {[Idle EXCEPT !.k = s[1], !.phase = "head", !.file = s[2], !.val = s[3]] : s \in Settings} ELSE {})

Setting == {"head", "truncate", "fill"}

\* What the answer to o promises: a sidecar that is removed or says OFF nothing.
Promise(o) == IF o.val = Off THEN None ELSE o.val

\* Process p is writing the sidecar that n sets.
Clashes(p, n) == /\ n.phase \in Setting /\ op[p].phase \in Setting
                 /\ op[p].k = n.k /\ op[p].file = n.file

\* Asking for something else ends the promise that stands, whatever comes of it.
\* Of two writers of one sidecar at a time none is alone.
Request(c) ==
  /\ op[c] = Idle /\ requests < MaxRequests /\ requests' = requests + 1
  /\ \E n \in Asked(c) :
       /\ op' = [p \in Procs |->
                   IF p = c THEN [n EXCEPT !.alone = \A q \in Procs : ~Clashes(q, n)]
                   ELSE IF Clashes(p, n) THEN [op[p] EXCEPT !.alone = FALSE] ELSE op[p]]
       /\ due' = IF n.phase = "head" /\ due[n.k][n.file] # Promise(n)
                 THEN [due EXCEPT ![n.k][n.file] = None] ELSE due
  /\ UNCHANGED <<world, clock, obj, arch, side, uneven, pass, breach, leaked>>

\* A versioned bucket keeps the current object when another, or a delete
\* marker, takes its place (one archived version is told apart).
Archived(k) == IF mode = "off" \/ obj[k] = None THEN arch ELSE [arch EXCEPT ![k] = obj[k]]

\* put_object of the routes that write an object (PUT, copy, form upload,
\* console): none of them looks at the object lock.  It takes the key's lock and
\* reads the body from the client,
PutBegin(c) ==
  /\ c \in Writers /\ op[c] = Idle /\ requests < MaxRequests /\ requests' = requests + 1
  /\ \E k \in Touched : ~Busy(k) /\ op' = [op EXCEPT ![c] = [Idle EXCEPT !.k = k, !.phase = "body"]]
  /\ UNCHANGED <<world, clock, obj, arch, side, uneven, due, pass, breach, leaked>>

\* then writes: an unversioned object is replaced, its sidecars stay; a versioned
\* one is archived.
PutEnd(c) == /\ op[c].phase = "body"
             /\ obj' = [obj EXCEPT ![op[c].k] = clock]
             /\ arch' = Archived(op[c].k)
             /\ Done(c)
             /\ UNCHANGED <<world, clock, requests, side, uneven, due, pass, breach, leaked>>

\* The client hangs up.
PutFails(c) == /\ op[c].phase = "body" /\ Done(c)
               /\ UNCHANGED <<world, clock, requests, obj, arch, side, uneven, due, pass, breach, leaked>>

(***************************************************************************)
(* Sidecars: set_object_legal_hold, set_object_retention, set_object_tags,  *)
(* delete_object_tags.                                                      *)
(***************************************************************************)
\* A file is emptied and filled (fs::write), or removed (val = None).
Opening(o) == IF o.val = None THEN "fill" ELSE "truncate"

\* head_object first; an absent object ends the request.
SetHead(c) == /\ op[c].phase = "head"
              /\ IF obj[op[c].k] = None THEN Done(c)
                 ELSE op' = [op EXCEPT ![c].phase = Opening(op[c]), ![c].left = Copies]
              /\ UNCHANGED <<world, clock, requests, obj, arch, side, uneven, due, pass, breach, leaked>>

\* The copy of drive d says v from now on.  A sidecar written now may have no
\* object, or one that is being deleted.
WriteCopy(c, d, v) ==
  LET o == op[c]
  IN /\ side' = [side EXCEPT ![d][o.k][o.file] = v]
     /\ uneven' = [uneven EXCEPT ![o.file][o.k] = @ \cup {d}]
     /\ leaked' = IF obj[o.k] = None \/ Removing(o.k) THEN [leaked EXCEPT ![o.k] = @ \cup {d}] ELSE leaked
     /\ UNCHANGED <<world, clock, requests, obj, arch, due, pass, breach>>

SetTruncate(c) == LET o == op[c]
                  IN /\ o.phase = "truncate" /\ o.left # {} /\ Min(o.left) \in up
                     /\ WriteCopy(c, Min(o.left), Torn)
                     /\ op' = [op EXCEPT ![c].phase = "fill"]

SetFill(c) == LET o == op[c]
              IN /\ o.phase = "fill" /\ o.left # {} /\ Min(o.left) \in up
                 /\ WriteCopy(c, Min(o.left), o.val)
                 /\ op' = [op EXCEPT ![c].phase = Opening(o), ![c].left = @ \ {Min(o.left)}]

\* A drive that does not answer, or whose directory is removed meanwhile, is passed over.
SetMiss(c) == LET o == op[c]
              IN /\ o.phase \in {"truncate", "fill"} /\ o.left # {}
                 /\ Min(o.left) \notin up \/ Removing(o.k)
                 /\ op' = [op EXCEPT ![c].phase = Opening(o), ![c].left = @ \ {Min(o.left)},
                                     ![c].missed = @ \cup {Min(o.left)}]
                 /\ UNCHANGED <<world, clock, requests, obj, arch, side, uneven, due, pass, breach, leaked>>

\* Delete o has read sidecar f, or holds it for read.
Concluded(o, f) ==
  \/ o.phase \in {"remove", "removeVersion"}
  \/ f = "hold" /\ o.file = "retain" /\ o.phase \in {"check", "read"}
  \/ o.phase = "read" /\ o.file = f /\ o.heard

\* The answer.  One drive that took a file is enough.  A lock on an object still
\* there is due from now on, too late for the deletes that have read that sidecar.
SetDone(c) ==
  LET o == op[c]
  IN /\ o.phase \in {"truncate", "fill"} /\ o.left = {}
     /\ IF o.missed = Copies /\ o.val # None
        THEN Done(c) /\ UNCHANGED <<uneven, due>>
        ELSE /\ op' = [p \in Procs |->
                        IF p = c THEN Idle
                        ELSE IF op[p].k = o.k /\ Concluded(op[p], o.file)
                             THEN [op[p] EXCEPT !.excused = TRUE] ELSE op[p]]
             /\ uneven' = [uneven EXCEPT ![o.file][o.k] = IF o.alone THEN o.missed ELSE Copies]
             /\ due' = [due EXCEPT ![o.k][o.file] = IF obj[o.k] = None THEN None ELSE Promise(o)]
     /\ UNCHANGED <<world, clock, requests, obj, arch, side, pass, breach, leaked>>

(***************************************************************************)
(* check_object_lock and its mirror object_locked: the hold, then the       *)
(* retention, each by head_object and meta_read_any.                        *)
(***************************************************************************)
\* What meta_read_any finds, as long as the drives stay as they are.
ReadAny(k, f) == LET ds == {d \in Copies \cap up : side[d][k][f] # None}
                 IN IF ds = {} THEN None ELSE side[Min(ds)][k][f]

Locked(k) == \E f \in {"hold", "retain"} : Blocks(f, ReadAny(k, f), clock)

\* Nothing found: on to the retention, or to the removal.
Passed(o) == IF o.file = "hold" THEN [o EXCEPT !.phase = "check", !.file = "retain"]
             ELSE [o EXCEPT !.phase = o.goal]

\* An object that is not there is not locked.
CheckHead(p) ==
  LET o == op[p]
  IN /\ o.phase = "check"
     /\ op' = [op EXCEPT ![p] = IF obj[o.k] = None THEN Passed([o EXCEPT !.excused = TRUE])
                                ELSE [o EXCEPT !.phase = "read", !.left = Copies, !.heard = FALSE]]
     /\ UNCHANGED <<world, clock, requests, obj, arch, side, uneven, due, pass, breach, leaked>>

\* The first drive that has the file decides.  After a refusal the handler answers
\* 403 and the worker goes to its next object.  (A delete is excused that was
\* decided by an uneven copy, or by no copy at all.)
CheckRead(p) ==
  LET o     == op[p]
      d     == Min(o.left)
      found == d \in up /\ side[d][o.k][o.file] # None
      even  == d \notin uneven[o.file][o.k]
      n     == [o EXCEPT !.left = @ \ {d}, !.heard = @ \/ (d \in up /\ even)]
  IN /\ o.phase = "read"
     /\ op' = [op EXCEPT ![p] =
           IF found /\ Blocks(o.file, side[d][o.k][o.file], IF p = Worker THEN pass.now ELSE clock) THEN Idle
           ELSE IF found THEN Passed([o EXCEPT !.excused = @ \/ ~even, !.left = {}])
           ELSE IF n.left = {} THEN Passed([n EXCEPT !.excused = @ \/ ~n.heard])
           ELSE n]
     /\ UNCHANGED <<world, clock, requests, obj, arch, side, uneven, due, pass, breach, leaked>>

(***************************************************************************)
(* Removal.                                                                 *)
(***************************************************************************)
Record(p, destroys) == breach' = (breach \/ (destroys /\ Protected(op[p].k) /\ ~op[p].excused))

\* The object goes, and in the erasure backend what is nested in its directory;
\* the drives are still to be gone through, under the same key lock.
Sweep(p) ==
  LET ks == Gone(op[p].k)
  IN /\ obj' = [k \in Keys |-> IF k \in ks THEN None ELSE obj[k]]
     /\ arch' = [k \in Keys |-> IF k \in ks THEN None ELSE arch[k]]
     /\ due' = [k \in Keys |-> IF k \in ks THEN NoSide ELSE due[k]]
     /\ op' = [op EXCEPT ![p].phase = "sides", ![p].left = Copies]

\* delete_object: a marker in a versioned bucket; else the object goes for good.
Remove(p) ==
  LET k == op[p].k
  IN /\ op[p].phase = "remove" /\ ~Busy(k)
     /\ IF mode = "enabled"
        THEN /\ obj' = [obj EXCEPT ![k] = None] /\ arch' = Archived(k)
             /\ Done(p) /\ UNCHANGED due
        ELSE Sweep(p)
     /\ Record(p, mode = "off" /\ obj[k] # None)
     /\ UNCHANGED <<world, clock, requests, side, uneven, pass, leaked>>

\* Mutant of Emptied: the legal hold stays behind.
EmptiedButHold(ks, d) ==
  /\ side' = IF d \in up THEN [side EXCEPT ![d] = [k \in Keys |->
                 IF k \in ks THEN [NoSide EXCEPT !["hold"] = side[d][k]["hold"]] ELSE @[k]]] ELSE side
  /\ leaked' = [k \in Keys |-> IF k \notin ks THEN leaked[k]
                               ELSE IF d \in up THEN leaked[k] \ {d} ELSE leaked[k] \cup {d}]

\* The sidecars of ks go from drive d (everything below the directory, in the
\* erasure backend), which keeps them if it does not answer.
Emptied(ks, d) ==
  /\ side' = IF d \in up THEN [side EXCEPT ![d] = [k \in Keys |-> IF k \in ks THEN NoSide ELSE @[k]]] ELSE side
  /\ leaked' = [k \in Keys |-> IF k \notin ks THEN leaked[k]
                               ELSE IF d \in up THEN leaked[k] \ {d} ELSE leaked[k] \cup {d}]

\* One drive after the other; a nested key written meanwhile may go too.
RemoveSides(p) ==
  LET o  == op[p]
      d  == Min(o.left)
      ks == Gone(o.k)
  IN /\ o.phase = "sides"
     /\ Emptied(ks, d)
     /\ \E lost \in SUBSET (ks \ {o.k}) :
          /\ obj' = [k \in Keys |-> IF k \in lost THEN None ELSE obj[k]]
          /\ arch' = [k \in Keys |-> IF k \in lost THEN None ELSE arch[k]]
     /\ due' = [k \in Keys |-> IF k \in ks THEN NoSide ELSE due[k]]
     /\ op' = [q \in Procs |->
          IF q = p THEN IF o.left = {d} THEN Idle ELSE [o EXCEPT !.left = @ \ {d}]
          ELSE IF op[q].phase \in Setting /\ op[q].k \in ks THEN [op[q] EXCEPT !.alone = FALSE]
          ELSE op[q]]
     /\ UNCHANGED <<world, clock, requests, uneven, pass, breach>>

\* delete_object_version of one data version: an archived one, or the current
\* one, whose place the newest archived version takes.  (An unversioned object is
\* version "null"; the filesystem leaves its sidecars.)
RemoveVersion(p) ==
  LET k == op[p].k
  IN /\ op[p].phase = "removeVersion" /\ ~Busy(k)
     /\ \/ /\ arch[k] # None
           /\ obj' \in {obj, [obj EXCEPT ![k] = IF @ = None THEN None ELSE arch[k]]}
           /\ arch' = [arch EXCEPT ![k] = None]
           /\ Record(p, TRUE) /\ UNCHANGED leaked
        \/ /\ obj[k] # None /\ arch[k] = None
           /\ ~(mode = "off" /\ backend = "erasure")
           /\ obj' = [obj EXCEPT ![k] = None]
           /\ leaked' = IF mode = "off" THEN [leaked EXCEPT ![k] = @ \cup Copies] ELSE leaked
           /\ Record(p, TRUE) /\ UNCHANGED arch
        \/ /\ obj[k] = None /\ arch[k] = None   \* NoSuchVersion
           /\ UNCHANGED <<obj, arch, breach, leaked>>
     /\ Done(p)
     /\ UNCHANGED <<world, clock, requests, side, uneven, due, pass>>

\* The last version of a key: the erasure backend removes the key's directory.
RemoveLastVersion(p) ==
  LET k == op[p].k
  IN /\ op[p].phase = "removeVersion" /\ ~Busy(k) /\ backend = "erasure"
     /\ (obj[k] = None) # (arch[k] = None)
     /\ Sweep(p) /\ Record(p, TRUE)
     /\ UNCHANGED <<world, clock, requests, side, uneven, pass, leaked>>

(***************************************************************************)
(* The lifecycle worker.                                                    *)
(***************************************************************************)
\* list_objects_v2 from a token: the first PageMax current keys not below it,
\* with the first key left out as the next token (0 when there is none).
Page(token) ==
  LET ks  == {k \in Keys : k >= token /\ obj[k] /= None}
      idx == {k \in ks : Cardinality({j \in ks : j < k}) < PageMax}
      seq == [i \in 1..Cardinality(idx) |->
                CHOOSE k \in idx : Cardinality({j \in idx : j < k}) = i - 1]
  IN [objects |-> [i \in DOMAIN seq |-> [k |-> seq[i], at |-> obj[seq[i]]]],
      token   |-> IF ks = idx THEN 0 ELSE Min(ks \ idx)]

\* should_expire, the Days variant.
ShouldExpire(at, now) == now - at >= Days

\* run_lifecycle_pass / expire_bucket: the time of the pass is taken once.
PassBegin == /\ ~InPass /\ op[Worker] = Idle
             /\ LET page == Page(0)
                IN pass' = [now |-> clock, token |-> page.token, page |-> page.objects, failed |-> FALSE]
             /\ UNCHANGED <<world, clock, requests, obj, arch, side, uneven, due, op, breach, leaked>>

\* expire_objects: the next object of the page; what is not old enough is passed over.
PassObject ==
  /\ op[Worker] = Idle /\ pass.page /= <<>>
  /\ LET o == Head(pass.page)
     IN op' = IF ShouldExpire(o.at, pass.now)
              THEN [op EXCEPT ![Worker] = [Idle EXCEPT !.k = o.k, !.phase = "check", !.file = "hold", !.goal = "remove"]]
              ELSE op
  /\ pass' = [pass EXCEPT !.page = Tail(@)]
  /\ UNCHANGED <<world, clock, requests, obj, arch, side, uneven, due, breach, leaked>>

\* Mutant of PassPage: a truncated listing ends the pass.
PassPageOnce == /\ InPass /\ op[Worker] = Idle /\ pass.page = <<>>
                /\ pass' = [NoPass EXCEPT !.failed = pass.failed]
                /\ UNCHANGED <<world, clock, requests, obj, arch, side, uneven, due, op, breach, leaked>>

\* The next page, or the end of the pass; the worker then sleeps.
PassPage == /\ InPass /\ op[Worker] = Idle /\ pass.page = <<>>
            /\ pass' = IF pass.token = 0 THEN [NoPass EXCEPT !.failed = pass.failed]
                       ELSE LET page == Page(pass.token)
                            IN [pass EXCEPT !.token = page.token, !.page = page.objects]
            /\ UNCHANGED <<world, clock, requests, obj, arch, side, uneven, due, op, breach, leaked>>

\* list_objects_v2 fails and ends the pass, or delete_object fails and the worker
\* goes to its next object.
PassFails ==
  /\ \/ op[Worker] = Idle /\ pass.page = <<>> /\ pass' = [NoPass EXCEPT !.failed = TRUE] /\ UNCHANGED op
     \/ op[Worker].phase = "remove" /\ pass' = [pass EXCEPT !.failed = TRUE] /\ Done(Worker)
  /\ UNCHANGED <<world, clock, requests, obj, arch, side, uneven, due, breach, leaked>>

(***************************************************************************)
(* Time, drives and restarts.                                               *)
(***************************************************************************)
Tick == /\ clock < MaxClock /\ clock' = clock + 1
        /\ UNCHANGED <<world, requests, obj, arch, side, uneven, due, op, pass, breach, leaked>>

DriveDown(d) == /\ backend = "erasure" /\ d \in up /\ upsets < MaxUpsets
                /\ up' = up \ {d} /\ upsets' = upsets + 1
                /\ UNCHANGED <<backend, mode, clock, requests, obj, arch, side, uneven, due,
                               op, pass, breach, leaked>>

DriveUp(d) == /\ d \notin up /\ up' = up \cup {d}
              /\ UNCHANGED <<backend, mode, clock, requests, upsets, obj, arch, side, uneven,
                             due, op, pass, breach, leaked>>

\* A crash drops every operation; one between an object's removal and that of
\* its sidecars leaves them.
Crash == /\ upsets < MaxUpsets /\ upsets' = upsets + 1
         /\ leaked' = [k \in Keys |-> IF Removing(k) THEN Copies ELSE leaked[k]]
         /\ op' = [p \in Procs |-> Idle] /\ pass' = NoPass
         /\ UNCHANGED <<backend, mode, clock, requests, up, obj, arch, side, uneven, due, breach>>

Step(p) == CheckHead(p) \/ CheckRead(p) \/ Remove(p) \/ RemoveSides(p) \/ RemoveVersion(p) \/ RemoveLastVersion(p)
Set(c)  == SetHead(c) \/ SetTruncate(c) \/ SetFill(c) \/ SetMiss(c) \/ SetDone(c)
Work    == PassBegin \/ PassObject \/ PassPage \/ Step(Worker)

Next == \/ \E c \in Clients : Request(c) \/ Set(c) \/ Step(c) \/ PutBegin(c) \/ PutEnd(c) \/ PutFails(c)
        \/ Work \/ PassFails \/ Tick \/ Crash
        \/ \E d \in Failing : DriveDown(d) \/ DriveUp(d)

\* The worker's task runs, a removal under way comes to its end, and time passes.
\* An upload goes on as long as its client sends: nothing ends it.
Fairness == /\ WF_vars(Work) /\ WF_vars(Tick)
            /\ \A c \in Deleters : WF_vars(RemoveSides(c))

Spec == Init /\ [][Next]_vars /\ Fairness

(***************************************************************************)
(* Properties.                                                              *)
(***************************************************************************)
\* The fields have their types, a key lock has one holder, and the worker is
\* busy only within a pass.
TypeOK == /\ clock \in 0..MaxClock /\ requests \in 0..MaxRequests /\ up \subseteq Drives
          /\ \A k \in Keys : /\ obj[k] \in {None} \cup 0..clock
                             /\ leaked[k] \subseteq Copies
                             /\ Cardinality({p \in Procs : op[p].k = k /\ op[p].phase \in {"sides", "body"}}) <= 1
          /\ breach \in BOOLEAN
          /\ op[Worker] # Idle => InPass

\* An acknowledged legal hold or retention keeps the data from every checked
\* DELETE of its key and every lifecycle expiry of its key, although drives miss
\* writes and come back.  Excused is a delete that a delete marker kept from seeing
\* the object, that had read the sidecar before the lock was acknowledged, or
\* whose answer came from no copy, or from a copy that missed the last write, or
\* is being rewritten, or was written by two requests at a time.
LockHonoured == ~breach

\* An unversioned key without an object has no sidecars for its next object to
\* inherit, on any drive, unless the drive did not answer when they were removed,
\* one was set while the object was being deleted, the process died in between,
\* or the filesystem removed the object as version "null".
SidecarsBelong ==
  \A k \in Keys, d \in Copies :
    (mode = "off" /\ obj[k] = None /\ ~Removing(k) /\ side[d][k] # NoSide) => d \in leaked[k]

\* The lifecycle worker gets to every object: none stays expired and unlocked
\* for ever, whatever page of the listing it is on, unless an upload never ends
\* (it holds the lock of its key, and the worker waits for it) or the worker's
\* lists and deletes keep failing.
Expires ==
  \/ \E c \in Writers : <>[](op[c].phase = "body")
  \/ []<>pass.failed
  \/ \A k \in Keys : ~<>[](obj[k] # None /\ ShouldExpire(obj[k], clock) /\ ~Locked(k))
=============================================================================
