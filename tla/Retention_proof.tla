--------------------------- MODULE Retention_proof ---------------------------
(***************************************************************************)
(* Object lock for any number of keys, drives, requests, deletes, failures  *)
(* of drives and crashes: an acknowledged lock keeps its object from every  *)
(* checked delete of its key, and sidecars go with their object.            *)
(*                                                                         *)
(* Three facts carry the first.  A copy that is not counted uneven says     *)
(* what was acknowledged last (Backed); for a request still writing, that   *)
(* no other writes the same sidecar and the copies it has been to say what  *)
(* it asks for (Alone, Promised, Walked).  And what a delete has read is    *)
(* still true, or the delete is excused (ChecksHold).                       *)
(***************************************************************************)
EXTENDS Retention, FiniteSetTheorems, SequenceTheorems, WellFoundedInduction, TLAPS

Phases == {"idle", "head", "truncate", "fill", "check", "read",
           "remove", "removeVersion", "sides", "body"}
Held   == {"sides", "body"}

OpSet == [k : Keys \cup {0}, phase : Phases, goal : {"none", "remove", "removeVersion"},
          file : Files, val : Nat \cup {None}, left : SUBSET Drives, missed : SUBSET Drives,
          heard : BOOLEAN, excused : BOOLEAN, alone : BOOLEAN]

Says == [Files -> Nat \cup {None, Torn}]
Lock == [Files -> Nat \cup {None}]

Listed == [k : Keys, at : Nat]
Pass   == {r \in [now : Nat \cup {None}, token : Int, page : Seq(Listed), failed : BOOLEAN] :
             r.page # <<>> => r.now # None}

Types ==
  /\ backend \in {"fs", "erasure"} /\ mode \in {"off", "enabled"}
  /\ clock \in 0 .. MaxClock /\ requests \in 0 .. MaxRequests /\ upsets \in Nat /\ up \subseteq Drives
  /\ obj \in [Keys -> {None} \cup 0 .. clock] /\ arch \in [Keys -> {None} \cup 0 .. clock]
  /\ side \in [Drives -> [Keys -> Says]] /\ uneven \in [Files -> [Keys -> SUBSET Drives]]
  /\ due \in [Keys -> Lock] /\ op \in [Procs -> OpSet] /\ pass \in Pass
  /\ breach \in BOOLEAN /\ leaked \in [Keys -> SUBSET Copies]

\* Whoever is at work has a key; a walk is over the copies and not at its end, a
\* check is of a lock file and for a removal; the worker is at work within its
\* pass, whose time is past.
Ready(o) ==
  /\ o.phase # "idle" => o.k \in Keys
  /\ o.left \subseteq Copies /\ o.missed \subseteq Copies
  /\ o.phase \in {"read", "sides"} => o.left # {}
  /\ o.phase \in {"check", "read"} => o.goal # "none" /\ o.file # "tags"

Placed ==
  /\ \A p \in Procs : Ready(op[p])
  /\ InPass => pass.now \in 0 .. clock
  /\ op[Worker] # Idle => InPass

\* One process holds a key's lock.
OneHolder ==
  \A p, q \in Procs : op[p].phase \in Held /\ op[q].phase \in Held /\ op[p].k = op[q].k => p = q

\* An even copy says what was promised.
Backed ==
  \A f \in Files, k \in Keys, d \in Copies :
    d \notin uneven[f][k] /\ due[k][f] # None => side[d][k][f] = due[k][f]

\* A request that is alone has no other on its sidecar,
Alone ==
  \A p, q \in Procs :
    op[p].phase \in Setting /\ op[p].alone
    /\ op[q].phase \in Setting /\ op[q].k = op[p].k /\ op[q].file = op[p].file => q = p

\* nothing but what it asks for is promised,
Promised ==
  \A p \in Procs : op[p].phase \in Setting /\ op[p].alone =>
    due[op[p].k][op[p].file] \in {None, Promise(op[p])}

\* and the copies it has been to say so.
Walked ==
  \A p \in Procs : op[p].phase \in {"truncate", "fill"} /\ op[p].alone =>
    \A d \in Copies : d \notin op[p].left /\ d \notin op[p].missed =>
      side[d][op[p].k][op[p].file] = op[p].val

\* What a delete has concluded holds, unless it is excused.
Sound(o) == ~o.excused => \A f \in Files : Concluded(o, f) => ~Blocks(f, due[o.k][f], clock)

ChecksHold == \A p \in Procs : Sound(op[p])

\* A removal is still to come to drive d of key k.
Pending(k, d) == \E p \in Procs : op[p].phase = "sides" /\ k \in Gone(op[p].k) /\ d \in op[p].left

Swept ==
  mode = "off" =>
    \A k \in Keys, d \in Copies :
      (obj[k] = None \/ Removing(k)) /\ side[d][k] # NoSide => d \in leaked[k] \/ Pending(k, d)

IInv == /\ Types /\ Placed /\ OneHolder /\ Backed /\ Alone /\ Promised /\ Walked
        /\ ChecksHold /\ Swept /\ LockHonoured

-----------------------------------------------------------------------------
LEMMA RecordFacts ==
  /\ Idle \in OpSet /\ Idle.phase = "idle" /\ Idle.k = 0 /\ Idle.left = {} /\ Idle.missed = {}
  /\ ~Idle.excused /\ Idle.goal = "none"
  /\ NoSide \in Says /\ NoSide \in Lock /\ \A f \in Files : NoSide[f] = None
  /\ NoPass \in Pass /\ NoPass.now = None /\ NoPass.page = <<>>
BY DEF Idle, OpSet, Phases, NoSide, Says, Lock, Files, NoPass, Pass, None

LEMMA ProcFacts == Worker \in Procs /\ Worker \notin Clients /\ Clients \subseteq Procs
BY RetentionAssumption DEF Procs

LEMMA DriveFacts == Drives \subseteq Nat /\ Copies \subseteq Drives /\ Copies # {} /\ 1 \in Copies
BY RetentionAssumption DEF Drives, Copies

LEMMA Least == ASSUME NEW S \in SUBSET Nat, S # {} PROVE Min(S) \in S
<1>1. S \subseteq Nat
  OBVIOUS
<1>2. PICK d \in S : \A e \in S : ~ (<<e, d>> \in OpToRel(<, Nat))
  BY <1>1, NatLessThanWellFounded, WFMin, Zenon
<1>3. \A e \in S : ~ (e < d)
  <2>1. ASSUME NEW e \in S, e < d PROVE <<e, d>> \in OpToRel(<, Nat)
    BY <1>1, <2>1, Zenon DEF OpToRel
  <2> QED
    BY <1>2, <2>1, Zenon
<1>4. \A e \in S : d <= e
  BY <1>1, <1>3
<1> QED
  BY <1>4, Zenon DEF Min

\* The drive whose turn it is.
LEMMA Turn == ASSUME NEW S \in SUBSET Drives, S # {} PROVE Min(S) \in S
BY DriveFacts, Least

LEMMA GoneFacts == ASSUME Types, NEW k \in Keys PROVE Gone(k) \subseteq Keys /\ k \in Gone(k)
BY RetentionAssumption DEF Gone

\* What one process does beside another: it may be excused, or be alone no more.
Milder(m, o) ==
  /\ m.k = o.k /\ m.phase = o.phase /\ m.goal = o.goal /\ m.file = o.file /\ m.val = o.val
  /\ m.left = o.left /\ m.missed = o.missed /\ m.heard = o.heard
  /\ o.excused => m.excused
  /\ m.alone => o.alone

Others(p) == \A q \in Procs : q # p => Milder(op'[q], op[q])

\* Promises are only withdrawn.
Withdrawn ==
  /\ due' \in [Keys -> Lock]
  /\ \A k \in Keys, f \in Files : due'[k][f] \in {due[k][f], None}

LEMMA SameDue == ASSUME Types, UNCHANGED due PROVE Withdrawn
BY DEF Types, Withdrawn, Lock

LEMMA NoneIsFree == ASSUME NEW f, NEW now \in Nat PROVE ~Blocks(f, None, now)
BY DEF Blocks, None, On

LEMMA SameOp ==
  ASSUME Types, NEW p \in Procs, NEW n \in OpSet, op' = [op EXCEPT ![p] = n]
  PROVE  op' \in [Procs -> OpSet] /\ op'[p] = n /\ Others(p)
         /\ \A q \in Procs : q # p => op'[q] = op[q]
<1>1. \A q \in Procs : op'[q] = IF q = p THEN n ELSE op[q]
  BY DEF Types
<1>2. \A q \in Procs : Milder(op[q], op[q])
  BY DEF Milder
<1> QED
  BY <1>1, <1>2 DEF Types, Others

LEMMA HoldersKept ==
  ASSUME OneHolder, NEW p \in Procs, Others(p),
         op'[p].phase \in Held => (op[p].phase \in Held /\ op'[p].k = op[p].k) \/ ~Busy(op'[p].k)
  PROVE  OneHolder'
<1> SUFFICES ASSUME NEW q \in Procs, NEW r \in Procs, op'[q].phase \in Held, op'[r].phase \in Held,
                    op'[q].k = op'[r].k, q # r
             PROVE  FALSE
  BY DEF OneHolder
<1>1. \A s \in Procs : s # p => op'[s].k = op[s].k /\ op'[s].phase = op[s].phase
  BY DEF Others, Milder
<1>2. CASE q # p /\ r # p
  BY <1>1, <1>2 DEF OneHolder
<1>3. ASSUME NEW s \in Procs, s # p, op'[s].phase \in Held, op'[p].phase \in Held, op'[s].k = op'[p].k
      PROVE  FALSE
  <2>1. op[s].phase \in Held /\ op[s].k = op'[p].k
    BY <1>1, <1>3
  <2>2. Busy(op'[p].k)
    BY <2>1 DEF Busy, Held
  <2> QED
    BY <1>3, <2>1, <2>2 DEF OneHolder
<1> QED
  BY <1>2, <1>3

LEMMA ChecksKept ==
  ASSUME Types, Placed, ChecksHold, NEW p \in Procs, Others(p), Withdrawn, UNCHANGED clock,
         \A f \in Files : ~op'[p].excused /\ Concluded(op'[p], f) => ~Blocks(f, due'[op'[p].k][f], clock)
  PROVE  ChecksHold'
<1> SUFFICES ASSUME NEW q \in Procs, q # p, NEW f \in Files, ~op'[q].excused, Concluded(op'[q], f)
             PROVE  ~Blocks(f, due'[op'[q].k][f], clock')
  BY DEF ChecksHold, Sound
<1>1. Milder(op'[q], op[q])
  BY DEF Others
<1>2. ~op[q].excused /\ Concluded(op[q], f) /\ op'[q].k = op[q].k
  BY <1>1 DEF Milder, Concluded
<1>3. ~Blocks(f, due[op[q].k][f], clock)
  BY <1>2 DEF ChecksHold, Sound
<1>4. op[q].k \in Keys
  BY <1>2 DEF Placed, Ready, Concluded
<1>5. clock \in Nat
  BY RetentionAssumption DEF Types
<1>6. due'[op[q].k][f] \in {due[op[q].k][f], None}
  BY <1>4 DEF Withdrawn
<1> QED
  BY <1>2, <1>3, <1>5, <1>6, NoneIsFree

LEMMA BackedKept ==
  ASSUME Types, Backed, Withdrawn, UNCHANGED <<backend, side, uneven>>
  PROVE  Backed'
BY DEF Backed, Withdrawn, Copies

LEMMA AloneKept ==
  ASSUME Alone, NEW p \in Procs, Others(p),
         op'[p].phase \in Setting =>
           /\ op[p].phase \in Setting /\ op'[p].k = op[p].k /\ op'[p].file = op[p].file
           /\ op'[p].alone => op[p].alone
  PROVE  Alone'
<1>1. \A q \in Procs : op'[q].phase \in Setting =>
        /\ op[q].phase \in Setting /\ op'[q].k = op[q].k /\ op'[q].file = op[q].file
        /\ op'[q].alone => op[q].alone
  BY DEF Others, Milder
<1> SUFFICES ASSUME NEW q \in Procs, NEW r \in Procs, op'[q].phase \in Setting, op'[q].alone,
                    op'[r].phase \in Setting, op'[r].k = op'[q].k, op'[r].file = op'[q].file
             PROVE  r = q
  BY DEF Alone
<1>2. /\ op[q].phase \in Setting /\ op[q].alone /\ op[r].phase \in Setting
      /\ op[r].k = op[q].k /\ op[r].file = op[q].file
  BY <1>1
<1> QED
  BY <1>2 DEF Alone

LEMMA PromisedKept ==
  ASSUME Types, Placed, Promised, NEW p \in Procs, Others(p), Withdrawn,
         op'[p].phase \in Setting =>
           /\ op[p].phase \in Setting /\ op'[p].k = op[p].k /\ op'[p].file = op[p].file
           /\ op'[p].val = op[p].val /\ (op'[p].alone => op[p].alone)
  PROVE  Promised'
<1> SUFFICES ASSUME NEW q \in Procs, op'[q].phase \in Setting, op'[q].alone
             PROVE  due'[op'[q].k][op'[q].file] \in {None, Promise(op'[q])}
  BY DEF Promised
<1>1. /\ op[q].phase \in Setting /\ op'[q].k = op[q].k /\ op'[q].file = op[q].file
      /\ op'[q].val = op[q].val /\ op[q].alone
  BY DEF Others, Milder
<1>2. op[q].k \in Keys /\ op[q].file \in Files
  BY <1>1 DEF Placed, Ready, Setting, Types, OpSet
<1>3. due[op[q].k][op[q].file] \in {None, Promise(op[q])} /\ Promise(op'[q]) = Promise(op[q])
  BY <1>1 DEF Promised, Promise
<1> QED
  BY <1>1, <1>2, <1>3 DEF Withdrawn

LEMMA WalkedKept ==
  ASSUME Walked, NEW p \in Procs, Others(p), UNCHANGED <<backend, side>>,
         op'[p].phase \in {"truncate", "fill"} /\ op'[p].alone =>
           \A d \in Copies : d \notin op'[p].left /\ d \notin op'[p].missed =>
             side[d][op'[p].k][op'[p].file] = op'[p].val
  PROVE  Walked'
<1> SUFFICES ASSUME NEW q \in Procs, q # p, op'[q].phase \in {"truncate", "fill"}, op'[q].alone,
                    NEW d \in Copies, d \notin op'[q].left, d \notin op'[q].missed
             PROVE  side[d][op'[q].k][op'[q].file] = op'[q].val
  BY DEF Walked, Copies
<1>1. Milder(op'[q], op[q])
  BY DEF Others
<1> QED
  BY <1>1 DEF Milder, Walked

\* A step that leaves removals alone, and no object gone without its sidecars.
LEMMA SweptKept ==
  ASSUME Swept, NEW p \in Procs, Others(p), op[p].phase # "sides", op'[p].phase # "sides",
         UNCHANGED <<backend, mode, side>>, \A k \in Keys : leaked[k] \subseteq leaked'[k],
         \A k \in Keys : mode = "off" /\ obj'[k] = None => obj[k] = None \/ Copies \subseteq leaked'[k]
  PROVE  Swept'
<1> SUFFICES ASSUME mode = "off", NEW k \in Keys, NEW d \in Copies, obj'[k] = None \/ Removing(k)',
                    side[d][k] # NoSide, d \notin leaked'[k]
             PROVE  Pending(k, d)'
  BY DEF Swept, Copies
<1>1. \A q \in Procs : op[q].phase = "sides" \/ op'[q].phase = "sides" =>
        op'[q].phase = op[q].phase /\ op'[q].k = op[q].k /\ op'[q].left = op[q].left
  BY DEF Others, Milder
<1>2. Removing(k)' => Removing(k)
  BY <1>1 DEF Removing, Gone
<1>3. Pending(k, d)
  BY <1>2 DEF Swept
<1> QED
  BY <1>1, <1>3 DEF Pending, Gone

\* One process takes a step that leaves the sidecars, and the acknowledgements,
\* as they are, and takes no object whose sidecars stay unnoticed.
LEMMA OneStep ==
  ASSUME IInv, NEW p \in Procs, NEW n \in OpSet, op' = [op EXCEPT ![p] = n], Ready(n),
         UNCHANGED <<backend, mode, upsets, up, clock, side, uneven, due>>, breach' = FALSE,
         obj' \in [Keys -> {None} \cup 0 .. clock], arch' \in [Keys -> {None} \cup 0 .. clock],
         leaked' \in [Keys -> SUBSET Copies], \A k \in Keys : leaked[k] \subseteq leaked'[k],
         \A k \in Keys : mode = "off" /\ obj'[k] = None => obj[k] = None \/ Copies \subseteq leaked'[k],
         requests' \in 0 .. MaxRequests, pass' \in Pass,
         pass'.now # None => pass'.now \in 0 .. clock, op'[Worker] # Idle => pass'.now # None,
         op[p].phase # "sides", n.phase # "sides", n.phase \in Held => ~Busy(n.k),
         n.phase \in Setting =>
           /\ op[p].phase \in Setting /\ n.k = op[p].k /\ n.file = op[p].file
           /\ n.val = op[p].val /\ (n.alone => op[p].alone),
         n.phase \in {"truncate", "fill"} /\ n.alone =>
           \A d \in Copies : d \notin n.left /\ d \notin n.missed => side[d][n.k][n.file] = n.val,
         \A f \in Files : ~n.excused /\ Concluded(n, f) => ~Blocks(f, due[n.k][f], clock)
  PROVE  IInv'
<1> USE DEF IInv
<1>1. /\ op' \in [Procs -> OpSet] /\ op'[p] = n /\ Others(p)
      /\ \A q \in Procs : q # p => op'[q] = op[q]
  BY SameOp
<1>2. Withdrawn
  BY SameDue
<1>3. Types'
  BY <1>1 DEF Types, Copies
<1>4. Placed'
  <2>1. \A q \in Procs : Ready(op[q])' <=> Ready(op'[q])
    BY DEF Ready, Copies
  <2>2. \A q \in Procs : Ready(op'[q])
    BY <1>1 DEF Placed
  <2> QED
    BY <2>1, <2>2 DEF Placed, InPass, Ready, Copies
<1>5. OneHolder'
  BY <1>1, HoldersKept
<1>6. Backed'
  BY <1>2, BackedKept
<1>7. Alone'
  BY <1>1, AloneKept
<1>8. Promised'
  BY <1>1, <1>2, PromisedKept
<1>9. Walked'
  BY <1>1, WalkedKept
<1>10. ChecksHold'
  BY <1>1, <1>2, ChecksKept
<1>11. Swept'
  BY <1>1, SweptKept
<1>12. LockHonoured'
  BY DEF LockHonoured
<1> QED
  BY <1>3, <1>4, <1>5, <1>6, <1>7, <1>8, <1>9, <1>10, <1>11, <1>12

\* One process takes a step of its own: nothing but its record changes (and the
\* pass, and how many requests there were).
LEMMA OneOp ==
  ASSUME IInv, NEW p \in Procs, NEW n \in OpSet, op' = [op EXCEPT ![p] = n], Ready(n),
         UNCHANGED <<backend, mode, upsets, up, clock, obj, arch, side, uneven, due, breach, leaked>>,
         requests' \in 0 .. MaxRequests, pass' \in Pass,
         pass'.now # None => pass'.now \in 0 .. clock, op'[Worker] # Idle => pass'.now # None,
         op[p].phase # "sides", n.phase # "sides", n.phase \in Held => ~Busy(n.k),
         n.phase \in Setting =>
           /\ op[p].phase \in Setting /\ n.k = op[p].k /\ n.file = op[p].file
           /\ n.val = op[p].val /\ (n.alone => op[p].alone),
         n.phase \in {"truncate", "fill"} /\ n.alone =>
           \A d \in Copies : d \notin n.left /\ d \notin n.missed => side[d][n.k][n.file] = n.val,
         \A f \in Files : ~n.excused /\ Concluded(n, f) => ~Blocks(f, due[n.k][f], clock)
  PROVE  IInv'
<1>1. /\ breach' = FALSE /\ leaked' \in [Keys -> SUBSET Copies]
      /\ obj' \in [Keys -> {None} \cup 0 .. clock] /\ arch' \in [Keys -> {None} \cup 0 .. clock]
  BY DEF IInv, Types, LockHonoured
<1>2. \A k \in Keys : leaked[k] \subseteq leaked'[k] /\ (obj'[k] = None => obj[k] = None)
  OBVIOUS
<1> QED
  BY <1>1, <1>2, OneStep

\* A process that ends an operation.
LEMMA OneIdle ==
  ASSUME IInv, NEW p \in Procs, op' = [op EXCEPT ![p] = Idle], op[p].phase # "sides",
         UNCHANGED <<backend, mode, upsets, up, clock, requests, obj, arch, side, uneven, due, breach, leaked>>,
         pass' \in Pass, pass'.now = pass.now
  PROVE  IInv'
<1>1. /\ Ready(Idle) /\ Idle.phase \notin Setting /\ Idle.phase \notin Held /\ Idle.phase # "sides"
      /\ Idle.phase \notin {"truncate", "fill"} /\ \A f \in Files : ~Concluded(Idle, f)
  BY RecordFacts DEF Ready, Setting, Held, Concluded
<1>2. requests' \in 0 .. MaxRequests /\ (pass'.now # None => pass'.now \in 0 .. clock)
  BY DEF IInv, Types, Placed, InPass
<1>3. op'[Worker] # Idle => pass'.now # None
  BY ProcFacts DEF IInv, Types, Placed, InPass
<1> QED
  BY <1>1, <1>2, <1>3, RecordFacts, OneOp

-----------------------------------------------------------------------------
\* Requests and uploads.
LEMMA StepRequest == ASSUME IInv, NEW c \in Clients, Request(c) PROVE IInv'
<1> USE DEF IInv
<1>1. PICK n \in Asked(c) :
        /\ op' = [p \in Procs |->
                   IF p = c THEN [n EXCEPT !.alone = \A q \in Procs : ~Clashes(q, n)]
                   ELSE IF Clashes(p, n) THEN [op[p] EXCEPT !.alone = FALSE] ELSE op[p]]
        /\ due' = IF n.phase = "head" /\ due[n.k][n.file] # Promise(n)
                  THEN [due EXCEPT ![n.k][n.file] = None] ELSE due
  BY DEF Request
<1>2. op[c] = Idle /\ requests' \in 0 .. MaxRequests /\ c \in Procs
      /\ UNCHANGED <<world, clock, obj, arch, side, uneven, pass, breach, leaked>>
  BY RetentionAssumption, ProcFacts DEF Request, Types
<1>3. /\ n \in OpSet /\ n.k \in Keys /\ n.left = {} /\ n.missed = {}
      /\ n.phase \in {"check", "remove", "removeVersion", "head"}
      /\ n.phase = "check" => n.goal # "none" /\ n.file = "hold"
      /\ n.phase \in {"remove", "removeVersion"} => n.excused
  <2> DEFINE checked   == {[Idle EXCEPT !.k = r[1], !.phase = "check", !.file = "hold", !.goal = r[2]] : r \in Removals}
             unchecked == {[Idle EXCEPT !.k = r[1], !.phase = r[2], !.excused = TRUE] : r \in Removals}
             sets      == {[Idle EXCEPT !.k = s[1], !.phase = "head", !.file = s[2], !.val = s[3]] : s \in Settings}
  <2>1. n \in checked \/ n \in unchecked \/ n \in sets
    BY <1>1 DEF Asked
  <2>2. \A r \in Removals : r[1] \in Keys /\ r[2] \in {"remove", "removeVersion"}
    BY RetentionAssumption DEF Removals
  <2>3. CASE n \in checked
    <3>1. PICK r \in Removals : n = [Idle EXCEPT !.k = r[1], !.phase = "check", !.file = "hold", !.goal = r[2]]
      BY <2>3
    <3> QED
      BY <2>2, <3>1 DEF Idle, OpSet, Phases, Files
  <2>4. CASE n \in unchecked
    <3>1. PICK r \in Removals : n = [Idle EXCEPT !.k = r[1], !.phase = r[2], !.excused = TRUE]
      BY <2>4
    <3> QED
      BY <2>2, <3>1 DEF Idle, OpSet, Phases, Files
  <2>5. CASE n \in sets
    <3>1. PICK s \in Settings : n = [Idle EXCEPT !.k = s[1], !.phase = "head", !.file = s[2], !.val = s[3]]
      BY <2>5
    <3> QED
      BY <3>1, RetentionAssumption DEF Idle, OpSet, Phases, Files, None
  <2> QED
    BY <2>1, <2>3, <2>4, <2>5
<1> DEFINE m == [n EXCEPT !.alone = \A q \in Procs : ~Clashes(q, n)]
<1>4. /\ m \in OpSet /\ m.k = n.k /\ m.phase = n.phase /\ m.goal = n.goal /\ m.file = n.file
      /\ m.val = n.val /\ m.left = n.left /\ m.missed = n.missed /\ m.heard = n.heard
      /\ m.excused = n.excused /\ (m.alone => \A q \in Procs : ~Clashes(q, n))
  BY <1>3 DEF OpSet
<1>5. \A q \in Procs : q # c =>
        /\ op'[q] \in OpSet /\ Milder(op'[q], op[q]) /\ (Clashes(q, n) => ~op'[q].alone)
        /\ op'[q].excused = op[q].excused
        /\ q = Worker /\ op'[q] # Idle => op[q] # Idle
  <2> SUFFICES ASSUME NEW q \in Procs, q # c
               PROVE  /\ op'[q] \in OpSet /\ Milder(op'[q], op[q]) /\ (Clashes(q, n) => ~op'[q].alone)
                      /\ op'[q].excused = op[q].excused
                      /\ q = Worker /\ op'[q] # Idle => op[q] # Idle
    OBVIOUS
  <2>1. op[q] \in OpSet
    BY DEF Types
  <2>2. CASE Clashes(q, n)
    <3>1. op'[q] = [op[q] EXCEPT !.alone = FALSE]
      BY <1>1, <2>2
    <3>2. op[q].phase \in Setting
      BY <2>2 DEF Clashes
    <3>3. op[q] # Idle
      BY <3>2, RecordFacts DEF Setting
    <3> QED
      BY <2>1, <3>1, <3>3 DEF Milder, OpSet
  <2>3. CASE ~Clashes(q, n)
    BY <1>1, <2>1, <2>3 DEF Milder
  <2> QED
    BY <2>2, <2>3
<1>6. op'[c] = m /\ op' \in [Procs -> OpSet] /\ Others(c)
  <2>1. op'[c] = m
    BY <1>1, <1>2
  <2>2. op' = [q \in Procs |-> op'[q]]
    BY <1>1
  <2>3. \A q \in Procs : op'[q] \in OpSet
    BY <1>4, <1>5, <2>1
  <2> QED
    BY <1>5, <2>1, <2>2, <2>3 DEF Others
<1>7. Withdrawn
  BY <1>1, <1>3 DEF Withdrawn, Types, Lock, OpSet, None
<1> HIDE DEF m
<1>8. Types'
  BY <1>2, <1>6, <1>7 DEF Types, world, Copies, Withdrawn
<1>9. Placed'
  <2>1. Ready(m)
    BY <1>3, <1>4 DEF Ready
  <2>2. \A q \in Procs : Ready(op'[q])
    BY <1>5, <1>6, <2>1 DEF Placed, Ready, Milder
  <2>3. op'[Worker] # Idle => InPass
    BY <1>2, <1>5, ProcFacts DEF Placed
  <2> QED
    BY <1>2, <2>2, <2>3 DEF Placed, InPass, Ready, Copies, world
<1>10. OneHolder'
  BY <1>2, <1>3, <1>4, <1>6, HoldersKept DEF Held
<1>11. Backed'
  BY <1>2, <1>7, BackedKept DEF world
<1>12. Alone'
  <2> SUFFICES ASSUME NEW q \in Procs, NEW r \in Procs, op'[q].phase \in Setting, op'[q].alone,
                      op'[r].phase \in Setting, op'[r].k = op'[q].k, op'[r].file = op'[q].file, r # q
               PROVE  FALSE
    BY DEF Alone
  <2>1. CASE q # c /\ r # c
    <3>1. /\ op[q].phase \in Setting /\ op[q].alone /\ op[r].phase \in Setting
          /\ op[r].k = op[q].k /\ op[r].file = op[q].file
      BY <1>5, <2>1 DEF Milder
    <3> QED
      BY <3>1 DEF Alone
  <2>2. CASE q = c
    <3>1. r # c /\ m.phase \in Setting /\ m.alone /\ op[r].phase \in Setting
          /\ op[r].k = n.k /\ op[r].file = n.file
      BY <1>4, <1>5, <1>6, <2>2 DEF Milder
    <3>2. Clashes(r, n)
      BY <1>4, <3>1 DEF Clashes
    <3> QED
      BY <1>4, <3>1, <3>2
  <2>3. CASE r = c
    <3>1. q # c /\ m.phase \in Setting /\ op[q].phase \in Setting /\ op[q].k = n.k /\ op[q].file = n.file
      BY <1>4, <1>5, <1>6, <2>3 DEF Milder
    <3>2. Clashes(q, n)
      BY <1>4, <3>1 DEF Clashes
    <3> QED
      BY <1>5, <3>1, <3>2
  <2> QED
    BY <2>1, <2>2, <2>3
<1>13. Promised'
  <2> SUFFICES ASSUME NEW q \in Procs, op'[q].phase \in Setting, op'[q].alone
               PROVE  due'[op'[q].k][op'[q].file] \in {None, Promise(op'[q])}
    BY DEF Promised
  <2>1. CASE q = c
    <3>1. op'[q].k = n.k /\ op'[q].file = n.file /\ n.phase = "head" /\ Promise(op'[q]) = Promise(n)
      BY <1>3, <1>4, <1>6, <2>1 DEF Setting, Promise
    <3>2. n.k \in Keys /\ n.file \in Files
      BY <1>3 DEF OpSet
    <3> QED
      BY <1>1, <3>1, <3>2 DEF Types, Lock
  <2>2. CASE q # c
    <3>1. /\ op[q].phase \in Setting /\ op'[q].k = op[q].k /\ op'[q].file = op[q].file
          /\ op'[q].val = op[q].val /\ op[q].alone
      BY <1>5, <2>2 DEF Milder
    <3>2. op[q].k \in Keys /\ op[q].file \in Files
      BY <3>1 DEF Placed, Ready, Setting, Types, OpSet
    <3>3. due[op[q].k][op[q].file] \in {None, Promise(op[q])} /\ Promise(op'[q]) = Promise(op[q])
      BY <3>1 DEF Promised, Promise
    <3> QED
      BY <1>7, <3>1, <3>2, <3>3 DEF Withdrawn
  <2> QED
    BY <2>1, <2>2
<1>14. Walked'
  BY <1>2, <1>3, <1>4, <1>6, WalkedKept DEF world
<1>15. ChecksHold'
  <2>1. ASSUME NEW f \in Files, ~m.excused PROVE ~Concluded(m, f)
    BY <1>3, <1>4, <2>1 DEF Concluded
  <2> QED
    BY <1>2, <1>6, <1>7, <2>1, ChecksKept
<1>16. Swept'
  BY <1>2, <1>3, <1>4, <1>6, RecordFacts, SweptKept DEF world
<1>17. LockHonoured'
  BY <1>2 DEF LockHonoured
<1> QED
  BY <1>8, <1>9, <1>10, <1>11, <1>12, <1>13, <1>14, <1>15, <1>16, <1>17

LEMMA StepPutBegin == ASSUME IInv, NEW c \in Clients, PutBegin(c) PROVE IInv'
<1>1. PICK k \in Touched : ~Busy(k) /\ op' = [op EXCEPT ![c] = [Idle EXCEPT !.k = k, !.phase = "body"]]
  BY DEF PutBegin
<1> DEFINE n == [Idle EXCEPT !.k = k, !.phase = "body"]
<1>2. /\ n \in OpSet /\ n.k \in Keys /\ n.k = k /\ n.phase = "body" /\ n.left = {} /\ n.missed = {}
  BY <1>1, RetentionAssumption DEF Idle, OpSet, Phases, Files
<1> HIDE DEF n
<1>3. op[c] = Idle /\ requests' \in 0 .. MaxRequests /\ c \in Procs /\ c # Worker
      /\ UNCHANGED <<backend, mode, upsets, up, clock, obj, arch, side, uneven, due, pass, breach, leaked>>
  BY RetentionAssumption, ProcFacts DEF PutBegin, IInv, Types, world
<1>4. op' = [op EXCEPT ![c] = n]
  BY <1>1 DEF n
<1>5. Ready(n) /\ n.phase \notin Setting /\ n.phase \notin {"truncate", "fill"} /\ \A f \in Files : ~Concluded(n, f)
  BY <1>2 DEF Ready, Setting, Concluded
<1>6. /\ pass' \in Pass /\ (pass'.now # None => pass'.now \in 0 .. clock)
      /\ op'[Worker] # Idle => pass'.now # None
  BY <1>3, <1>4, ProcFacts DEF IInv, Types, Placed, InPass
<1>7. op[c].phase # "sides" /\ n.phase # "sides" /\ ~Busy(n.k)
  BY <1>1, <1>2, <1>3, RecordFacts
<1> QED
  BY <1>2, <1>3, <1>4, <1>5, <1>6, <1>7, OneOp

LEMMA StepPutFails == ASSUME IInv, NEW c \in Clients, PutFails(c) PROVE IInv'
BY ProcFacts, OneIdle DEF PutFails, Done, world, IInv, Types

LEMMA StepPutEnd == ASSUME IInv, NEW c \in Clients, PutEnd(c) PROVE IInv'
<1>1. /\ op[c].phase = "body" /\ op' = [op EXCEPT ![c] = Idle] /\ c \in Procs
      /\ obj' = [obj EXCEPT ![op[c].k] = clock] /\ arch' = Archived(op[c].k)
      /\ UNCHANGED <<backend, mode, upsets, up, clock, requests, side, uneven, due, pass, breach, leaked>>
  BY ProcFacts DEF PutEnd, Done, world
<1>2. op[c].k \in Keys /\ clock \in Nat
  BY <1>1, RetentionAssumption DEF IInv, Placed, Ready, Types
<1>3. obj' \in [Keys -> {None} \cup 0 .. clock] /\ \A k \in Keys : obj'[k] = None => obj[k] = None
  BY <1>1, <1>2 DEF IInv, Types, None
<1>4. arch' \in [Keys -> {None} \cup 0 .. clock]
  BY <1>1, <1>2 DEF Archived, IInv, Types
<1>5. /\ Ready(Idle) /\ Idle.phase \notin Setting /\ Idle.phase \notin Held /\ Idle.phase # "sides"
      /\ Idle.phase \notin {"truncate", "fill"} /\ \A f \in Files : ~Concluded(Idle, f)
  BY RecordFacts DEF Ready, Setting, Held, Concluded
<1>6. /\ requests' \in 0 .. MaxRequests /\ pass' \in Pass /\ (pass'.now # None => pass'.now \in 0 .. clock)
      /\ breach' = FALSE /\ leaked' \in [Keys -> SUBSET Copies]
  BY <1>1 DEF IInv, Types, Placed, InPass, LockHonoured
<1>7. op'[Worker] # Idle => pass'.now # None
  BY <1>1, ProcFacts DEF IInv, Types, Placed, InPass
<1> QED
  BY <1>1, <1>3, <1>4, <1>5, <1>6, <1>7, RecordFacts, OneStep

-----------------------------------------------------------------------------
\* Sidecars.
LEMMA WorkerBusy ==
  ASSUME IInv, NEW p \in Procs, op[p] # Idle, NEW n, op' = [op EXCEPT ![p] = n], UNCHANGED pass
  PROVE  op'[Worker] # Idle => pass'.now # None
<1>1. p = Worker => InPass
  BY DEF IInv, Placed
<1>2. p # Worker => op'[Worker] = op[Worker]
  BY ProcFacts DEF IInv, Types
<1> QED
  BY <1>1, <1>2 DEF IInv, Placed, InPass

LEMMA StepSetHead == ASSUME IInv, NEW c \in Clients, SetHead(c) PROVE IInv'
<1>1. /\ op[c].phase = "head" /\ c \in Procs /\ c # Worker
      /\ UNCHANGED <<backend, mode, upsets, up, clock, requests, obj, arch, side, uneven, due, pass, breach, leaked>>
  BY ProcFacts DEF SetHead, world
<1>2. CASE op' = [op EXCEPT ![c] = Idle]
  BY <1>1, <1>2, OneIdle DEF IInv, Types
<1>3. CASE op' = [op EXCEPT ![c].phase = Opening(op[c]), ![c].left = Copies]
  <2> DEFINE n == [op[c] EXCEPT !.phase = Opening(op[c]), !.left = Copies]
  <2>1. op[c] \in OpSet /\ Ready(op[c]) /\ Opening(op[c]) \in {"truncate", "fill"}
    BY <1>1 DEF IInv, Types, Placed, Opening
  <2>2. /\ n \in OpSet /\ n.phase \in {"truncate", "fill"} /\ n.left = Copies
        /\ n.k = op[c].k /\ n.file = op[c].file /\ n.val = op[c].val /\ n.alone = op[c].alone
        /\ n.missed = op[c].missed
    BY <2>1, DriveFacts DEF OpSet, Phases
  <2>3. op' = [op EXCEPT ![c] = n]
    BY <1>1, <1>3 DEF IInv, Types
  <2> HIDE DEF n
  <2>4. Ready(n) /\ n.phase \notin Held /\ n.phase # "sides" /\ \A f \in Files : ~Concluded(n, f)
    BY <1>1, <2>1, <2>2 DEF Ready, Held, Concluded
  <2>5. op[c].phase \in Setting /\ op[c] # Idle
    BY <1>1, RecordFacts DEF Setting
  <2>6. requests' \in 0 .. MaxRequests /\ pass' \in Pass /\ (pass'.now # None => pass'.now \in 0 .. clock)
    BY <1>1 DEF IInv, Types, Placed, InPass
  <2> QED
    BY <1>1, <2>2, <2>3, <2>4, <2>5, <2>6, OneOp, WorkerBusy
<1> QED
  BY <1>2, <1>3 DEF SetHead, Done

LEMMA StepSetMiss == ASSUME IInv, NEW c \in Clients, SetMiss(c) PROVE IInv'
<1> DEFINE o == op[c]
           d == Min(o.left)
           n == [o EXCEPT !.phase = Opening(o), !.left = @ \ {d}, !.missed = @ \cup {d}]
<1>1. /\ o.phase \in {"truncate", "fill"} /\ o.left # {} /\ c \in Procs
      /\ UNCHANGED <<backend, mode, upsets, up, clock, requests, obj, arch, side, uneven, due, pass, breach, leaked>>
  BY ProcFacts DEF SetMiss, world
<1>2. o \in OpSet /\ Ready(o) /\ Opening(o) \in {"truncate", "fill"}
  BY <1>1 DEF IInv, Types, Placed, Opening
<1>3. d \in o.left /\ d \in Copies
  BY <1>1, <1>2, DriveFacts, Turn DEF Ready
<1>4. op' = [op EXCEPT ![c] = n]
  BY <1>1 DEF SetMiss, IInv, Types
<1>5. /\ n \in OpSet /\ n.phase \in {"truncate", "fill"} /\ n.left = o.left \ {d} /\ n.missed = o.missed \cup {d}
      /\ n.k = o.k /\ n.file = o.file /\ n.val = o.val /\ n.alone = o.alone
  <2>1. o.left \ {d} \in SUBSET Drives /\ o.missed \cup {d} \in SUBSET Drives
    BY <1>2, <1>3, DriveFacts DEF OpSet
  <2> HIDE DEF d
  <2> QED
    BY <1>2, <2>1 DEF OpSet, Phases
<1>6. \A e \in Copies : o.alone /\ e \notin o.left /\ e \notin o.missed => side[e][o.k][o.file] = o.val
  BY <1>1 DEF IInv, Walked
<1>7. requests' \in 0 .. MaxRequests /\ pass' \in Pass /\ (pass'.now # None => pass'.now \in 0 .. clock)
  BY <1>1 DEF IInv, Types, Placed, InPass
<1>8. o.phase \in Setting /\ o.phase # "sides" /\ o # Idle
  BY <1>1, RecordFacts DEF Setting
<1> HIDE DEF n, d
<1>9. Ready(n) /\ n.phase \notin Held /\ n.phase # "sides" /\ \A f \in Files : ~Concluded(n, f)
  BY <1>1, <1>2, <1>3, <1>5 DEF Ready, Held, Concluded
<1>10. op'[Worker] # Idle => pass'.now # None
  BY <1>1, <1>4, <1>8, WorkerBusy
<1> QED
  BY <1>1, <1>3, <1>4, <1>5, <1>6, <1>7, <1>8, <1>9, <1>10, OneOp

\* A request writes the copy of the drive whose turn it is, and that copy is
\* uneven from now on.
LEMMA StepWrite ==
  ASSUME IInv, NEW c \in Clients, NEW d \in Copies, NEW v \in Nat \cup {None, Torn},
         op[c].phase \in {"truncate", "fill"}, WriteCopy(c, d, v), UNCHANGED <<world, clock>>,
         NEW n \in OpSet, op' = [op EXCEPT ![c] = n], Milder(n, [op[c] EXCEPT !.phase = n.phase, !.left = n.left]),
         n.phase \in {"truncate", "fill"}, n.alone = op[c].alone,
         (n.left = op[c].left /\ d \in op[c].left) \/ (n.left = op[c].left \ {d} /\ v = op[c].val)
  PROVE  IInv'
<1> USE DEF IInv
<1> DEFINE o == op[c]
           touched == obj[o.k] = None \/ Removing(o.k)
<1>1. /\ c \in Procs /\ o \in OpSet /\ o.k \in Keys /\ o.file \in Files /\ d \in Drives /\ Ready(o)
      /\ UNCHANGED <<backend, mode, upsets, up, clock, requests, obj, arch, due, pass, breach>>
  BY ProcFacts, DriveFacts DEF Types, Placed, Ready, OpSet, WriteCopy, world
<1>2. /\ n.k = o.k /\ n.file = o.file /\ n.val = o.val /\ n.goal = o.goal /\ n.missed = o.missed
      /\ n.left \subseteq o.left
  BY <1>1 DEF Milder, OpSet
<1>3. /\ op' \in [Procs -> OpSet] /\ op'[c] = n /\ Others(c)
      /\ \A q \in Procs : q # c => op'[q] = op[q]
  BY <1>1, SameOp
<1>4. Withdrawn
  BY <1>1, SameDue
<1>5. \A e \in Drives, j \in Keys, g \in Files :
        side'[e][j][g] = IF e = d /\ j = o.k /\ g = o.file THEN v ELSE side[e][j][g]
  <2>1. side' = [side EXCEPT ![d][o.k][o.file] = v]
    BY DEF WriteCopy
  <2> QED
    BY <1>1, <2>1 DEF Types, Says
<1>6. \A e \in Drives, j \in Keys : e # d \/ j # o.k => side'[e][j] = side[e][j]
  <2>1. side' = [side EXCEPT ![d][o.k][o.file] = v]
    BY DEF WriteCopy
  <2> QED
    BY <1>1, <2>1 DEF Types
<1>7. \A g \in Files, j \in Keys :
        uneven'[g][j] = IF g = o.file /\ j = o.k THEN uneven[g][j] \cup {d} ELSE uneven[g][j]
  <2>1. uneven' = [uneven EXCEPT ![o.file][o.k] = @ \cup {d}]
    BY DEF WriteCopy
  <2> QED
    BY <1>1, <2>1 DEF Types
<1>8. \A j \in Keys : /\ leaked[j] \subseteq leaked'[j] /\ leaked'[j] \subseteq Copies
                      /\ j = o.k /\ touched => d \in leaked'[j]
  <2>1. leaked' = IF touched THEN [leaked EXCEPT ![o.k] = @ \cup {d}] ELSE leaked
    BY DEF WriteCopy
  <2> QED
    BY <1>1, <2>1 DEF Types
<1>9. Types'
  <2>1. side' \in [Drives -> [Keys -> Says]]
    <3>1. side' = [side EXCEPT ![d][o.k][o.file] = v]
      BY DEF WriteCopy
    <3> QED
      BY <1>1, <3>1 DEF Types, Says
  <2>2. uneven' \in [Files -> [Keys -> SUBSET Drives]]
    <3>1. uneven' = [uneven EXCEPT ![o.file][o.k] = @ \cup {d}]
      BY DEF WriteCopy
    <3> QED
      BY <1>1, <3>1 DEF Types
  <2>3. leaked' \in [Keys -> SUBSET Copies]
    <3>1. leaked' = IF touched THEN [leaked EXCEPT ![o.k] = @ \cup {d}] ELSE leaked
      BY DEF WriteCopy
    <3> QED
      BY <1>1, <3>1 DEF Types
  <2> QED
    BY <1>1, <1>3, <2>1, <2>2, <2>3 DEF Types, Copies
<1> HIDE DEF touched
<1>10. Placed'
  <2>1. \A q \in Procs : Ready(op'[q])
    BY <1>1, <1>2, <1>3 DEF Placed, Ready
  <2>2. op[c] # Idle
    BY RecordFacts
  <2>3. op'[Worker] # Idle => pass'.now # None
    BY <1>1, <2>2, WorkerBusy
  <2> QED
    BY <1>1, <2>1, <2>3 DEF Placed, InPass, Ready, Copies
<1>11. OneHolder'
  BY <1>1, <1>3, HoldersKept DEF Held
<1>12. Backed'
  <2> SUFFICES ASSUME NEW f \in Files, NEW k \in Keys, NEW e \in Copies,
                      e \notin uneven'[f][k], due[k][f] # None
               PROVE  side'[e][k][f] = due[k][f]
    BY <1>1 DEF Backed, Copies
  <2>1. e \notin uneven[f][k] /\ ~(e = d /\ k = o.k /\ f = o.file)
    BY <1>7
  <2> QED
    BY <1>5, <2>1, DriveFacts DEF Backed
<1>13. Alone'
  BY <1>1, <1>2, <1>3, AloneKept DEF Setting
<1>14. Promised'
  BY <1>1, <1>2, <1>3, <1>4, PromisedKept DEF Setting
<1>15. Walked'
  <2> SUFFICES ASSUME NEW q \in Procs, op'[q].phase \in {"truncate", "fill"}, op'[q].alone,
                      NEW e \in Copies, e \notin op'[q].left, e \notin op'[q].missed
               PROVE  side'[e][op'[q].k][op'[q].file] = op'[q].val
    BY <1>1 DEF Walked, Copies
  <2>1. CASE q = c
    <3>1. e # d => e \notin o.left /\ e \notin o.missed
      BY <1>2, <1>3, <2>1
    <3>2. e # d => side[e][o.k][o.file] = o.val
      BY <1>1, <1>2, <1>3, <2>1, <3>1 DEF Walked
    <3>3. e = d => v = o.val
      BY <1>3, <2>1
    <3> QED
      BY <1>1, <1>2, <1>3, <1>5, <2>1, <3>2, <3>3, DriveFacts
  <2>2. CASE q # c
    <3>1. op'[q] = op[q] /\ op[q].k \in Keys /\ op[q].file \in Files
      BY <1>3, <2>2 DEF Placed, Ready, Types, OpSet
    <3>2. ~(op[q].k = o.k /\ op[q].file = o.file)
      BY <1>1, <2>2, <3>1 DEF Alone, Setting
    <3>3. side[e][op[q].k][op[q].file] = op[q].val
      BY <3>1 DEF Walked
    <3> QED
      BY <1>5, <3>1, <3>2, <3>3, DriveFacts
  <2> QED
    BY <2>1, <2>2
<1>16. ChecksHold'
  <2>1. \A f \in Files : ~Concluded(n, f)
    BY DEF Concluded
  <2> QED
    BY <1>1, <1>3, <1>4, <2>1, ChecksKept
<1>17. Swept'
  <2> SUFFICES ASSUME mode = "off", NEW k \in Keys, NEW e \in Copies, obj[k] = None \/ Removing(k)',
                      side'[e][k] # NoSide, e \notin leaked'[k]
               PROVE  Pending(k, e)'
    BY <1>1 DEF Swept, Copies
  <2>1. \A q \in Procs : op[q].phase = "sides" \/ op'[q].phase = "sides" => op'[q] = op[q]
    BY <1>3
  <2>2. Removing(k)' => Removing(k)
    BY <1>1, <2>1 DEF Removing, Gone
  <2>3. ~(e = d /\ k = o.k)
    BY <1>8, <2>2 DEF touched
  <2>4. Pending(k, e)
    BY <1>6, <1>8, <2>2, <2>3, DriveFacts DEF Swept
  <2> QED
    BY <1>1, <2>1, <2>4 DEF Pending, Gone
<1>18. LockHonoured'
  BY <1>1 DEF LockHonoured
<1> QED
  BY <1>9, <1>10, <1>11, <1>12, <1>13, <1>14, <1>15, <1>16, <1>17, <1>18

LEMMA StepSetTruncate == ASSUME IInv, NEW c \in Clients, SetTruncate(c) PROVE IInv'
<1> DEFINE o == op[c]
           d == Min(o.left)
           n == [o EXCEPT !.phase = "fill"]
<1>1. o.phase = "truncate" /\ o.left # {} /\ WriteCopy(c, d, Torn) /\ op' = [op EXCEPT ![c].phase = "fill"]
  BY DEF SetTruncate
<1>2. o \in OpSet /\ Ready(o)
  BY ProcFacts DEF IInv, Types, Placed
<1>3. d \in o.left /\ d \in Copies
  BY <1>1, <1>2, DriveFacts, Turn DEF Ready
<1>4. op' = [op EXCEPT ![c] = n]
  BY <1>1 DEF IInv, Types
<1>5. /\ n \in OpSet /\ n.phase = "fill" /\ n.left = o.left /\ n.alone = o.alone
      /\ Milder(n, [o EXCEPT !.phase = n.phase, !.left = n.left])
  BY <1>2 DEF OpSet, Phases, Milder
<1>6. UNCHANGED <<world, clock>> /\ Torn \in Nat \cup {None, Torn}
  BY <1>1 DEF WriteCopy
<1> DEFINE v == Torn
<1>7. WriteCopy(c, d, v) /\ v \in Nat \cup {None, Torn}
  BY <1>1, <1>6
<1> HIDE DEF n, d, v
<1>8. /\ op[c].phase \in {"truncate", "fill"} /\ n.phase \in {"truncate", "fill"}
      /\ n.left = op[c].left /\ d \in op[c].left
  BY <1>1, <1>3, <1>5
<1>9. /\ n \in OpSet /\ n.alone = op[c].alone /\ op' = [op EXCEPT ![c] = n]
       /\ Milder(n, [op[c] EXCEPT !.phase = n.phase, !.left = n.left])
  BY <1>4, <1>5
<1> QED
  BY <1>3, <1>6, <1>7, <1>8, <1>9, StepWrite

LEMMA StepSetFill == ASSUME IInv, NEW c \in Clients, SetFill(c) PROVE IInv'
<1> DEFINE o == op[c]
           d == Min(o.left)
           n == [o EXCEPT !.phase = Opening(o), !.left = @ \ {d}]
<1>1. o.phase = "fill" /\ o.left # {} /\ WriteCopy(c, d, o.val)
  BY DEF SetFill
<1>2. o \in OpSet /\ Ready(o) /\ Opening(o) \in {"truncate", "fill"}
  BY ProcFacts DEF IInv, Types, Placed, Opening
<1>3. d \in o.left /\ d \in Copies
  BY <1>1, <1>2, DriveFacts, Turn DEF Ready
<1>4. op' = [op EXCEPT ![c] = n]
  BY DEF SetFill, IInv, Types
<1>5. /\ n \in OpSet /\ n.phase \in {"truncate", "fill"} /\ n.left = o.left \ {d} /\ n.alone = o.alone
      /\ Milder(n, [o EXCEPT !.phase = n.phase, !.left = n.left])
  <2>1. o.left \ {d} \in SUBSET Drives
    BY <1>2 DEF OpSet
  <2> HIDE DEF d
  <2> QED
    BY <1>2, <2>1 DEF OpSet, Phases, Milder
<1>6. UNCHANGED <<world, clock>> /\ o.val \in Nat \cup {None, Torn}
  BY <1>1, <1>2 DEF WriteCopy, OpSet
<1> HIDE DEF n, d
<1> QED
  BY <1>1, <1>3, <1>4, <1>5, <1>6, StepWrite

\* An acknowledged write: the copies it missed are uneven, or all if it was not
\* alone, and a delete that has read the sidecar is excused.
LEMMA StepSetDone == ASSUME IInv, NEW c \in Clients, SetDone(c) PROVE IInv'
<1> USE DEF IInv
<1> DEFINE o == op[c]
<1>1. /\ o.phase \in {"truncate", "fill"} /\ o.left = {} /\ c \in Procs /\ c # Worker /\ o \in OpSet
      /\ o.k \in Keys /\ o.file \in Files /\ Ready(o)
      /\ UNCHANGED <<backend, mode, upsets, up, clock, requests, obj, arch, side, pass, breach, leaked>>
  BY ProcFacts DEF SetDone, world, Types, Placed, Ready, OpSet
<1>2. CASE Done(c) /\ UNCHANGED <<uneven, due>>
  BY <1>1, <1>2, OneIdle DEF Done, Types
<1>3. CASE
        /\ op' = [p \in Procs |-> IF p = c THEN Idle
                                  ELSE IF op[p].k = o.k /\ Concluded(op[p], o.file)
                                       THEN [op[p] EXCEPT !.excused = TRUE] ELSE op[p]]
        /\ uneven' = [uneven EXCEPT ![o.file][o.k] = IF o.alone THEN o.missed ELSE Copies]
        /\ due' = [due EXCEPT ![o.k][o.file] = IF obj[o.k] = None THEN None ELSE Promise(o)]
  <2> DEFINE told == IF obj[o.k] = None THEN None ELSE Promise(o)
             new  == IF o.alone THEN o.missed ELSE Copies
  <2>1. told \in Nat \cup {None} /\ (told # None => told = o.val) /\ new \subseteq Copies
    BY <1>1 DEF Promise, OpSet, Ready
  <2>2. \A k \in Keys, f \in Files : due'[k][f] = IF k = o.k /\ f = o.file THEN told ELSE due[k][f]
    BY <1>1, <1>3 DEF Types, Lock
  <2>3. \A k \in Keys, f \in Files : uneven'[f][k] = IF k = o.k /\ f = o.file THEN new ELSE uneven[f][k]
    BY <1>1, <1>3 DEF Types
  <2>4. due' \in [Keys -> Lock]
    BY <1>1, <1>3, <2>1 DEF Types, Lock
  <2>5. uneven' \in [Files -> [Keys -> SUBSET Drives]]
    BY <1>1, <1>3, <2>1, DriveFacts DEF Types
  <2> HIDE DEF told, new
  <2>6. op'[c] = Idle
    BY <1>1, <1>3
  <2>7. \A q \in Procs : q # c =>
          /\ op'[q] \in OpSet /\ Milder(op'[q], op[q]) /\ op'[q].alone = op[q].alone
          /\ (op[q].k = o.k /\ Concluded(op[q], o.file)) => op'[q].excused
          /\ q = Worker /\ op'[q] # Idle => op[q] # Idle
    <3> SUFFICES ASSUME NEW q \in Procs, q # c
                 PROVE  /\ op'[q] \in OpSet /\ Milder(op'[q], op[q]) /\ op'[q].alone = op[q].alone
                        /\ (op[q].k = o.k /\ Concluded(op[q], o.file)) => op'[q].excused
                        /\ q = Worker /\ op'[q] # Idle => op[q] # Idle
      OBVIOUS
    <3>1. op[q] \in OpSet
      BY DEF Types
    <3>2. CASE op[q].k = o.k /\ Concluded(op[q], o.file)
      <4>1. op'[q] = [op[q] EXCEPT !.excused = TRUE]
        BY <1>3, <3>2
      <4>2. op[q] # Idle
        BY <3>2, RecordFacts DEF Concluded
      <4> QED
        BY <3>1, <4>1, <4>2 DEF Milder, OpSet
    <3>3. CASE ~(op[q].k = o.k /\ Concluded(op[q], o.file))
      <4>1. op'[q] = op[q]
        BY <1>3, <3>3
      <4> QED
        BY <3>1, <3>3, <4>1 DEF Milder
    <3> QED
      BY <3>2, <3>3
  <2>8. op' \in [Procs -> OpSet] /\ Others(c)
    <3>1. op' = [q \in Procs |-> op'[q]]
      BY <1>3
    <3>2. \A q \in Procs : op'[q] \in OpSet
      BY <2>6, <2>7, RecordFacts
    <3> QED
      BY <2>7, <3>1, <3>2 DEF Others
  <2>9. Types'
    BY <1>1, <2>4, <2>5, <2>8 DEF Types, Copies
  <2>10. Placed'
    <3>1. Ready(Idle)
      BY RecordFacts DEF Ready
    <3>2. \A q \in Procs : Ready(op'[q])
      BY <2>6, <2>7, <3>1 DEF Placed, Ready, Milder
    <3>3. op'[Worker] # Idle => InPass
      BY <1>1, <2>7, ProcFacts DEF Placed
    <3> QED
      BY <1>1, <3>2, <3>3 DEF Placed, InPass, Ready, Copies
  <2>11. OneHolder'
    BY <1>1, <2>6, <2>8, RecordFacts, HoldersKept DEF Held
  <2>12. Backed'
    <3> SUFFICES ASSUME NEW f \in Files, NEW k \in Keys, NEW d \in Copies,
                        d \notin uneven'[f][k], due'[k][f] # None
                 PROVE  side[d][k][f] = due'[k][f]
      BY <1>1 DEF Backed, Copies
    <3>1. CASE k = o.k /\ f = o.file
      <4>1. d \notin new /\ due'[k][f] = told /\ told # None
        BY <2>2, <2>3, <3>1
      <4>2. o.alone /\ d \notin o.missed
        BY <4>1 DEF new
      <4>3. side[d][o.k][o.file] = o.val
        BY <1>1, <4>2 DEF Walked
      <4> QED
        BY <2>1, <3>1, <4>1, <4>3
    <3>2. CASE ~(k = o.k /\ f = o.file)
      BY <2>2, <2>3, <3>2 DEF Backed
    <3> QED
      BY <3>1, <3>2
  <2>13. Alone'
    BY <1>1, <2>6, <2>8, RecordFacts, AloneKept DEF Setting
  <2>14. Promised'
    <3> SUFFICES ASSUME NEW q \in Procs, op'[q].phase \in Setting, op'[q].alone
                 PROVE  due'[op'[q].k][op'[q].file] \in {None, Promise(op'[q])}
      BY DEF Promised
    <3>1. q # c
      BY <2>6, RecordFacts DEF Setting
    <3>2. /\ op[q].phase \in Setting /\ op'[q].k = op[q].k /\ op'[q].file = op[q].file
          /\ op'[q].val = op[q].val /\ op[q].alone
      BY <2>7, <3>1 DEF Milder
    <3>3. op[q].k \in Keys /\ op[q].file \in Files
      BY <3>2 DEF Placed, Ready, Setting, Types, OpSet
    <3>4. ~(op[q].k = o.k /\ op[q].file = o.file)
      BY <1>1, <3>1, <3>2 DEF Alone, Setting
    <3>5. due[op[q].k][op[q].file] \in {None, Promise(op[q])} /\ Promise(op'[q]) = Promise(op[q])
      BY <3>2 DEF Promised, Promise
    <3> QED
      BY <2>2, <3>2, <3>3, <3>4, <3>5
  <2>15. Walked'
    BY <1>1, <2>6, <2>8, RecordFacts, WalkedKept
  <2>16. ChecksHold'
    <3> SUFFICES ASSUME NEW q \in Procs, ~op'[q].excused, NEW f \in Files, Concluded(op'[q], f)
                 PROVE  ~Blocks(f, due'[op'[q].k][f], clock)
      BY <1>1 DEF ChecksHold, Sound
    <3>1. q # c
      BY <2>6, RecordFacts DEF Concluded
    <3>2. op'[q].k = op[q].k /\ ~op[q].excused /\ Concluded(op[q], f)
      BY <2>7, <3>1 DEF Milder, Concluded
    <3>3. op[q].k \in Keys /\ ~(op[q].k = o.k /\ f = o.file)
      BY <2>7, <3>1, <3>2 DEF Placed, Ready, Concluded
    <3>4. ~Blocks(f, due[op[q].k][f], clock)
      BY <3>2 DEF ChecksHold, Sound
    <3> QED
      BY <2>2, <3>2, <3>3, <3>4
  <2>17. Swept'
    BY <1>1, <2>6, <2>8, RecordFacts, SweptKept
  <2>18. LockHonoured'
    BY <1>1 DEF LockHonoured
  <2> QED
    BY <2>9, <2>10, <2>11, <2>12, <2>13, <2>14, <2>15, <2>16, <2>17, <2>18
<1> QED
  BY <1>2, <1>3 DEF SetDone

-----------------------------------------------------------------------------
\* Checks.
LEMMA StepCheckHead == ASSUME IInv, NEW p \in Procs, CheckHead(p) PROVE IInv'
<1> DEFINE o == op[p]
<1>1. /\ o.phase = "check" /\ o \in OpSet /\ Ready(o)
      /\ UNCHANGED <<backend, mode, upsets, up, clock, requests, obj, arch, side, uneven, due, pass, breach, leaked>>
  BY DEF CheckHead, world, IInv, Types, Placed
<1>2. requests' \in 0 .. MaxRequests /\ pass' \in Pass /\ (pass'.now # None => pass'.now \in 0 .. clock)
  BY <1>1 DEF IInv, Types, Placed, InPass
<1>3. o # Idle /\ o.phase # "sides"
  BY <1>1, RecordFacts
<1>4. ASSUME NEW n \in OpSet, op' = [op EXCEPT ![p] = n], Ready(n),
             n.phase \in {"check", "read", "remove", "removeVersion"},
             \A f \in Files : ~n.excused /\ Concluded(n, f) => ~Blocks(f, due[n.k][f], clock)
      PROVE  IInv'
  <2>1. op'[Worker] # Idle => pass'.now # None
    BY <1>1, <1>3, <1>4, WorkerBusy
  <2>2. n.phase \notin Held /\ n.phase \notin Setting /\ n.phase # "sides" /\ n.phase \notin {"truncate", "fill"}
    BY <1>4 DEF Held, Setting
  <2> QED
    BY <1>1, <1>2, <1>3, <1>4, <2>1, <2>2, OneOp
<1>5. CASE obj[o.k] = None
  <2> DEFINE n == Passed([o EXCEPT !.excused = TRUE])
  <2>1. /\ n \in OpSet /\ Ready(n) /\ n.excused /\ n.phase \in {"check", "read", "remove", "removeVersion"}
    BY <1>1 DEF Passed, OpSet, Phases, Files, Ready
  <2>2. op' = [op EXCEPT ![p] = n]
    BY <1>5 DEF CheckHead
  <2> HIDE DEF n
  <2> QED
    BY <1>4, <2>1, <2>2
<1>6. CASE obj[o.k] # None
  <2> DEFINE n == [o EXCEPT !.phase = "read", !.left = Copies, !.heard = FALSE]
  <2>1. /\ n \in OpSet /\ Ready(n) /\ n.phase = "read" /\ n.k = o.k /\ n.file = o.file
        /\ n.excused = o.excused /\ ~n.heard
    BY <1>1, DriveFacts DEF OpSet, Phases, Ready
  <2>2. op' = [op EXCEPT ![p] = n]
    BY <1>6 DEF CheckHead
  <2> HIDE DEF n
  <2>3. \A f \in Files : Concluded(n, f) => Concluded(o, f)
    BY <1>1, <2>1 DEF Concluded
  <2>4. \A f \in Files : ~n.excused /\ Concluded(n, f) => ~Blocks(f, due[n.k][f], clock)
    BY <2>1, <2>3 DEF IInv, ChecksHold, Sound
  <2> QED
    BY <1>4, <2>1, <2>2, <2>4
<1> QED
  BY <1>5, <1>6

\* A check that passes one lock file: what it has concluded, this file included,
\* carries it on.
LEMMA PassedOn ==
  ASSUME Types, NEW o \in OpSet, Ready(o), o.phase = "read", Sound(o),
         NEW x \in OpSet, x.k = o.k, x.file = o.file, x.goal = o.goal, x.phase = "read",
         x.left \subseteq Copies, x.missed \subseteq Copies,
         ~x.excused => ~o.excused /\ ~Blocks(o.file, due[o.k][o.file], clock)
  PROVE  /\ Passed(x) \in OpSet /\ Ready(Passed(x))
         /\ Passed(x).phase \in {"check", "remove", "removeVersion"}
         /\ \A f \in Files : ~Passed(x).excused /\ Concluded(Passed(x), f)
                               => ~Blocks(f, due[Passed(x).k][f], clock)
<1> DEFINE m == Passed(x)
<1>1. o.goal \in {"remove", "removeVersion"} /\ o.file \in {"hold", "retain"} /\ o.k \in Keys
  BY DEF Ready, OpSet, Files
<1>2. CASE o.file = "hold"
  <2>1. m = [x EXCEPT !.phase = "check", !.file = "retain"]
    BY <1>2 DEF Passed
  <2>2. /\ m \in OpSet /\ m.phase = "check" /\ m.file = "retain" /\ m.k = o.k /\ m.goal = o.goal
        /\ m.excused = x.excused /\ m.left = x.left /\ m.missed = x.missed
    BY <2>1 DEF OpSet, Phases, Files
  <2> HIDE DEF m
  <2>3. Ready(m)
    BY <1>1, <2>2 DEF Ready
  <2>4. \A f \in Files : Concluded(m, f) => f = "hold"
    BY <2>2 DEF Concluded
  <2>5. \A f \in Files : ~m.excused /\ Concluded(m, f) => ~Blocks(f, due[m.k][f], clock)
    BY <1>2, <2>2, <2>4
  <2> QED
    BY <2>2, <2>3, <2>5 DEF m
<1>3. CASE o.file = "retain"
  <2>1. m = [x EXCEPT !.phase = o.goal]
    BY <1>3 DEF Passed
  <2>2. /\ m \in OpSet /\ m.phase = o.goal /\ m.file = "retain" /\ m.k = o.k /\ m.goal = o.goal
        /\ m.excused = x.excused /\ m.left = x.left /\ m.missed = x.missed
    BY <1>1, <1>3, <2>1 DEF OpSet, Phases, Files
  <2> HIDE DEF m
  <2>3. Ready(m)
    BY <1>1, <2>2 DEF Ready
  <2>4. Concluded(o, "hold") /\ "hold" \in Files
    BY <1>3 DEF Concluded, Files
  <2>5. ~o.excused => ~Blocks("hold", due[o.k]["hold"], clock)
    BY <2>4 DEF Sound
  <2>6. ~Blocks("tags", due[o.k]["tags"], clock)
    BY DEF Blocks
  <2>7. \A f \in Files : ~m.excused => ~Blocks(f, due[m.k][f], clock)
    BY <1>3, <2>2, <2>5, <2>6 DEF Files
  <2> QED
    BY <1>1, <2>2, <2>3, <2>7 DEF m
<1> QED
  BY <1>1, <1>2, <1>3

LEMMA StepCheckRead == ASSUME IInv, NEW p \in Procs, CheckRead(p) PROVE IInv'
<1> DEFINE o     == op[p]
           d     == Min(o.left)
           now   == IF p = Worker THEN pass.now ELSE clock
           copy  == side[d][o.k][o.file]
           found == d \in up /\ copy # None
           even  == d \notin uneven[o.file][o.k]
           n     == [o EXCEPT !.left = @ \ {d}, !.heard = @ \/ (d \in up /\ even)]
<1>1. /\ o.phase = "read" /\ o \in OpSet /\ Ready(o) /\ Sound(o)
      /\ UNCHANGED <<backend, mode, upsets, up, clock, requests, obj, arch, side, uneven, due, pass, breach, leaked>>
  BY DEF CheckRead, world, IInv, Types, Placed, ChecksHold
<1>2. /\ o.k \in Keys /\ o.file \in {"hold", "retain"} /\ o.file \in Files /\ o.left \subseteq Copies
      /\ o.missed \subseteq Copies /\ o.left # {}
  BY <1>1 DEF Ready, OpSet, Files
<1>3. d \in o.left /\ d \in Copies /\ d \in Drives
  BY <1>2, DriveFacts, Turn
<1>4. requests' \in 0 .. MaxRequests /\ pass' \in Pass /\ (pass'.now # None => pass'.now \in 0 .. clock)
  BY <1>1 DEF IInv, Types, Placed, InPass
<1>5. o # Idle /\ o.phase # "sides"
  BY <1>1, RecordFacts
<1>6. now \in 0 .. clock /\ clock \in Nat
  BY <1>5, RetentionAssumption DEF IInv, Placed, InPass, Types
<1>7. op' = [op EXCEPT ![p] =
           IF found /\ Blocks(o.file, copy, now) THEN Idle
           ELSE IF found THEN Passed([o EXCEPT !.excused = @ \/ ~even, !.left = {}])
           ELSE IF n.left = {} THEN Passed([n EXCEPT !.excused = @ \/ ~n.heard])
           ELSE n]
  BY Zenon DEF CheckRead
<1>8. /\ n \in OpSet /\ n.k = o.k /\ n.file = o.file /\ n.goal = o.goal /\ n.phase = "read"
      /\ n.left = o.left \ {d} /\ n.missed = o.missed /\ n.excused = o.excused
      /\ (n.heard <=> (o.heard \/ (d \in up /\ even)))
  <2>1. o.left \ {d} \in SUBSET Drives
    BY <1>1 DEF OpSet
  <2> HIDE DEF d, even
  <2> QED
    BY <1>1, <2>1 DEF OpSet
<1>9. copy \in Nat \cup {None, Torn} /\ due[o.k][o.file] \in Nat \cup {None}
  BY <1>2, <1>3 DEF IInv, Types, Says, Lock
<1>10. even => due[o.k][o.file] \in {None, copy}
  BY <1>2, <1>3 DEF IInv, Backed
<1>11. even /\ ~Blocks(o.file, copy, now) => ~Blocks(o.file, due[o.k][o.file], clock)
  <2> HIDE DEF copy, now, even
  <2> QED
    BY <1>2, <1>6, <1>9, <1>10 DEF Blocks, None, On, Torn
<1>12. d \in up /\ even /\ ~found => ~Blocks(o.file, due[o.k][o.file], clock)
  BY <1>6, <1>10, NoneIsFree
<1>13. o.heard => Concluded(o, o.file)
  BY <1>1 DEF Concluded
<1>14. o.heard /\ ~o.excused => ~Blocks(o.file, due[o.k][o.file], clock)
  BY <1>1, <1>2, <1>13 DEF Sound
<1>15. ASSUME NEW m \in OpSet, op' = [op EXCEPT ![p] = m], Ready(m),
              m.phase \in {"check", "read", "remove", "removeVersion"},
              \A f \in Files : ~m.excused /\ Concluded(m, f) => ~Blocks(f, due[m.k][f], clock)
       PROVE  IInv'
  <2>1. op'[Worker] # Idle => pass'.now # None
    BY <1>1, <1>5, <1>15, WorkerBusy
  <2>2. m.phase \notin Held /\ m.phase \notin Setting /\ m.phase # "sides" /\ m.phase \notin {"truncate", "fill"}
    BY <1>15 DEF Held, Setting
  <2> QED
    BY <1>1, <1>4, <1>5, <1>15, <2>1, <2>2, OneOp
<1>16. CASE found /\ Blocks(o.file, copy, now)
  <2>1. op' = [op EXCEPT ![p] = Idle]
    BY <1>7, <1>16
  <2> QED
    BY <1>1, <1>5, <2>1, OneIdle DEF IInv, Types
<1> HIDE DEF now, copy
<1>17. CASE found /\ ~Blocks(o.file, copy, now)
  <2> DEFINE x == [o EXCEPT !.excused = @ \/ ~even, !.left = {}]
  <2>1. /\ x \in OpSet /\ x.k = o.k /\ x.file = o.file /\ x.goal = o.goal /\ x.phase = "read"
        /\ x.left = {} /\ x.missed = o.missed /\ (~x.excused => ~o.excused /\ even)
    <3> HIDE DEF even, d
    <3> QED
      BY <1>1 DEF OpSet
  <2>2. op' = [op EXCEPT ![p] = Passed(x)]
    BY <1>7, <1>17
  <2>3. ~x.excused => ~o.excused /\ ~Blocks(o.file, due[o.k][o.file], clock)
    BY <1>11, <1>17, <2>1
  <2> HIDE DEF x
  <2>4. /\ Passed(x) \in OpSet /\ Ready(Passed(x))
        /\ Passed(x).phase \in {"check", "remove", "removeVersion"}
        /\ \A f \in Files : ~Passed(x).excused /\ Concluded(Passed(x), f)
                              => ~Blocks(f, due[Passed(x).k][f], clock)
    BY <1>1, <1>2, <2>1, <2>3, PassedOn DEF IInv
  <2> QED
    BY <1>15, <2>2, <2>4
<1>18. CASE ~found /\ n.left = {}
  <2> DEFINE x == [n EXCEPT !.excused = @ \/ ~n.heard]
  <2>1. op' = [op EXCEPT ![p] = Passed(x)]
    BY <1>7, <1>18
  <2> HIDE DEF n
  <2>2. /\ x \in OpSet /\ x.k = o.k /\ x.file = o.file /\ x.goal = o.goal /\ x.phase = "read"
        /\ x.left = {} /\ x.missed = o.missed /\ (~x.excused => ~o.excused /\ n.heard)
    BY <1>8, <1>18 DEF OpSet
  <2> HIDE DEF x
  <2>3. ~x.excused => ~o.excused /\ ~Blocks(o.file, due[o.k][o.file], clock)
    BY <1>8, <1>12, <1>14, <1>18, <2>2
  <2>4. /\ Passed(x) \in OpSet /\ Ready(Passed(x))
        /\ Passed(x).phase \in {"check", "remove", "removeVersion"}
        /\ \A f \in Files : ~Passed(x).excused /\ Concluded(Passed(x), f)
                              => ~Blocks(f, due[Passed(x).k][f], clock)
    BY <1>1, <1>2, <2>2, <2>3, PassedOn DEF IInv
  <2> QED
    BY <1>15, <2>1, <2>4
<1>19. CASE ~found /\ n.left # {}
  <2>1. op' = [op EXCEPT ![p] = n]
    BY <1>7, <1>19
  <2> HIDE DEF n
  <2>2. Ready(n)
    BY <1>1, <1>2, <1>8, <1>19 DEF Ready
  <2>3. ASSUME NEW f \in Files, ~n.excused, Concluded(n, f)
        PROVE  ~Blocks(f, due[n.k][f], clock)
    <3>1. CASE Concluded(o, f)
      BY <1>1, <1>8, <2>3, <3>1 DEF Sound
    <3>2. CASE ~Concluded(o, f)
      <4>1. f = o.file /\ n.heard
        BY <1>1, <1>8, <2>3, <3>2 DEF Concluded
      <4> QED
        BY <1>8, <1>12, <1>14, <1>19, <2>3, <4>1
    <3> QED
      BY <3>1, <3>2
  <2> QED
    BY <1>8, <1>15, <2>1, <2>2, <2>3
<1> QED
  BY <1>16, <1>17, <1>18, <1>19

-----------------------------------------------------------------------------
\* Removals.
LEMMA NothingBreached ==
  ASSUME IInv, NEW p \in Procs, op[p].phase \in {"remove", "removeVersion"}, NEW destroys \in BOOLEAN,
         Record(p, destroys)
  PROVE  breach' = FALSE
<1>1. op[p].k \in Keys /\ Sound(op[p]) /\ breach = FALSE
  BY DEF IInv, Placed, Ready, ChecksHold, LockHonoured, Types
<1>2. {"hold", "retain"} \subseteq Files /\ \A f \in Files : Concluded(op[p], f)
  BY DEF Concluded, Files
<1>3. ~op[p].excused => ~Protected(op[p].k)
  BY <1>1, <1>2 DEF Sound, Blocks, Protected
<1> QED
  BY <1>1, <1>3 DEF Record

\* The end of a removal that leaves no work on the drives.
LEMMA RemovalEnds ==
  ASSUME IInv, NEW p \in Procs, op[p].phase \in {"remove", "removeVersion"}, op' = [op EXCEPT ![p] = Idle],
         UNCHANGED <<world, clock, requests, side, uneven, due, pass>>, breach' = FALSE,
         obj' \in [Keys -> {None} \cup 0 .. clock], arch' \in [Keys -> {None} \cup 0 .. clock],
         leaked' \in [Keys -> SUBSET Copies], \A k \in Keys : leaked[k] \subseteq leaked'[k],
         \A k \in Keys : mode = "off" /\ obj'[k] = None => obj[k] = None \/ Copies \subseteq leaked'[k]
  PROVE  IInv'
<1>1. /\ Ready(Idle) /\ Idle.phase \notin Setting /\ Idle.phase \notin Held /\ Idle.phase # "sides"
      /\ Idle.phase \notin {"truncate", "fill"} /\ \A f \in Files : ~Concluded(Idle, f)
  BY RecordFacts DEF Ready, Setting, Held, Concluded
<1>2. requests' \in 0 .. MaxRequests /\ pass' \in Pass /\ (pass'.now # None => pass'.now \in 0 .. clock)
  BY DEF IInv, Types, Placed, InPass
<1>3. op'[Worker] # Idle => pass'.now # None
  BY ProcFacts DEF IInv, Types, Placed, InPass
<1>4. op[p].phase # "sides" /\ UNCHANGED <<backend, mode, upsets, up>>
  BY DEF world
<1> QED
  BY <1>1, <1>2, <1>3, <1>4, RecordFacts, OneStep

LEMMA StepSweep ==
  ASSUME IInv, NEW p \in Procs, op[p].phase \in {"remove", "removeVersion"}, ~Busy(op[p].k), Sweep(p),
         breach' = FALSE, UNCHANGED <<world, clock, requests, side, uneven, pass, leaked>>
  PROVE  IInv'
<1> USE DEF IInv
<1> DEFINE o  == op[p]
           ks == Gone(o.k)
           n  == [o EXCEPT !.phase = "sides", !.left = Copies]
<1>1. o \in OpSet /\ Ready(o) /\ o.k \in Keys /\ ks \subseteq Keys /\ o.k \in ks
      /\ UNCHANGED <<backend, mode, upsets, up, clock, requests, side, uneven, pass, leaked>>
  BY GoneFacts DEF Types, Placed, Ready, world
<1>2. /\ n \in OpSet /\ n.phase = "sides" /\ n.left = Copies /\ n.k = o.k /\ n.missed = o.missed
  BY <1>1, DriveFacts DEF OpSet, Phases
<1>3. op' = [op EXCEPT ![p] = n]
  BY DEF Sweep, Types
<1> HIDE DEF n
<1>4. /\ op' \in [Procs -> OpSet] /\ op'[p] = n /\ Others(p)
      /\ \A q \in Procs : q # p => op'[q] = op[q]
  BY <1>2, <1>3, SameOp
<1>5. /\ obj' \in [Keys -> {None} \cup 0 .. clock] /\ arch' \in [Keys -> {None} \cup 0 .. clock]
      /\ due' \in [Keys -> Lock]
      /\ \A k \in Keys : k \notin ks => obj'[k] = obj[k]
      /\ \A k \in Keys : due'[k] = IF k \in ks THEN NoSide ELSE due[k]
  <2>1. obj' = [k \in Keys |-> IF k \in ks THEN None ELSE obj[k]]
    BY DEF Sweep
  <2>2. arch' = [k \in Keys |-> IF k \in ks THEN None ELSE arch[k]]
    BY DEF Sweep
  <2>3. due' = [k \in Keys |-> IF k \in ks THEN NoSide ELSE due[k]]
    BY DEF Sweep
  <2> HIDE DEF ks
  <2> QED
    BY <2>1, <2>2, <2>3, RecordFacts DEF Types
<1>6. Withdrawn
  BY <1>5, RecordFacts DEF Withdrawn
<1>7. Types'
  BY <1>1, <1>4, <1>5 DEF Types, Copies
<1>8. Placed'
  <2>1. Ready(n)
    BY <1>1, <1>2, DriveFacts DEF Ready
  <2>2. \A q \in Procs : Ready(op'[q])
    BY <1>4, <2>1 DEF Placed
  <2>3. o # Idle
    BY RecordFacts
  <2>4. op'[Worker] # Idle => pass'.now # None
    BY <1>1, <1>3, <2>3, WorkerBusy
  <2> QED
    BY <1>1, <2>2, <2>4 DEF Placed, InPass, Ready, Copies
<1>9. OneHolder'
  BY <1>2, <1>4, HoldersKept
<1>10. Backed'
  BY <1>1, <1>6, BackedKept
<1>11. Alone'
  BY <1>2, <1>4, AloneKept DEF Setting
<1>12. Promised'
  BY <1>2, <1>4, <1>6, PromisedKept DEF Setting
<1>13. Walked'
  BY <1>1, <1>2, <1>4, WalkedKept
<1>14. ChecksHold'
  <2>1. \A f \in Files : ~Concluded(n, f)
    BY <1>2 DEF Concluded
  <2> QED
    BY <1>1, <1>4, <1>6, <2>1, ChecksKept
<1>15. Swept'
  <2> SUFFICES ASSUME mode = "off", NEW k \in Keys, NEW d \in Copies, obj'[k] = None \/ Removing(k)',
                      side[d][k] # NoSide, d \notin leaked[k]
               PROVE  Pending(k, d)'
    BY <1>1 DEF Swept, Copies
  <2>1. CASE k \in ks
    BY <1>1, <1>2, <1>4, <2>1 DEF Pending, Gone
  <2>2. CASE k \notin ks
    <3>1. PICK q \in Procs : obj'[k] = None \/ (op'[q].phase = "sides" /\ k \in Gone(op'[q].k))
      BY <1>1 DEF Removing, Gone
    <3>2. obj[k] = None \/ Removing(k)
      BY <1>2, <1>4, <1>5, <2>2, <3>1 DEF Removing
    <3>3. PICK r \in Procs : op[r].phase = "sides" /\ k \in Gone(op[r].k) /\ d \in op[r].left
      BY <3>2 DEF Swept, Pending
    <3>4. op'[r] = op[r]
      BY <1>4, <3>3
    <3> QED
      BY <1>1, <3>3, <3>4 DEF Pending, Gone
  <2> QED
    BY <2>1, <2>2
<1>16. LockHonoured'
  BY DEF LockHonoured
<1> QED
  BY <1>7, <1>8, <1>9, <1>10, <1>11, <1>12, <1>13, <1>14, <1>15, <1>16

LEMMA StepRemove == ASSUME IInv, NEW p \in Procs, Remove(p) PROVE IInv'
<1>1. /\ op[p].phase = "remove" /\ ~Busy(op[p].k) /\ Record(p, mode = "off" /\ obj[op[p].k] # None)
      /\ UNCHANGED <<world, clock, requests, side, uneven, pass, leaked>>
  BY DEF Remove
<1>2. breach' = FALSE
  BY <1>1, NothingBreached
<1>3. CASE mode = "enabled"
  <2>1. /\ obj' = [obj EXCEPT ![op[p].k] = None] /\ arch' = Archived(op[p].k)
        /\ op' = [op EXCEPT ![p] = Idle] /\ UNCHANGED due
    BY <1>3 DEF Remove, Done
  <2>2. op[p].k \in Keys
    BY <1>1 DEF IInv, Placed, Ready
  <2>3. /\ obj' \in [Keys -> {None} \cup 0 .. clock] /\ arch' \in [Keys -> {None} \cup 0 .. clock]
        /\ leaked' \in [Keys -> SUBSET Copies] /\ \A k \in Keys : leaked[k] \subseteq leaked'[k]
    BY <1>1, <2>1, <2>2 DEF IInv, Types, Archived
  <2> QED
    BY <1>1, <1>2, <1>3, <2>1, <2>3, RemovalEnds
<1>4. CASE mode # "enabled"
  BY <1>1, <1>2, <1>4, StepSweep DEF Remove
<1> QED
  BY <1>3, <1>4

LEMMA StepRemoveVersion == ASSUME IInv, NEW p \in Procs, RemoveVersion(p) PROVE IInv'
<1> DEFINE k == op[p].k
<1>1. /\ op[p].phase = "removeVersion" /\ op' = [op EXCEPT ![p] = Idle]
      /\ UNCHANGED <<world, clock, requests, side, uneven, due, pass>>
  BY DEF RemoveVersion, Done
<1>2. k \in Keys /\ obj \in [Keys -> {None} \cup 0 .. clock] /\ arch \in [Keys -> {None} \cup 0 .. clock]
      /\ leaked \in [Keys -> SUBSET Copies]
  BY <1>1 DEF IInv, Placed, Ready, Types
<1>3. CASE /\ arch[k] # None
           /\ obj' \in {obj, [obj EXCEPT ![k] = IF @ = None THEN None ELSE arch[k]]}
           /\ arch' = [arch EXCEPT ![k] = None] /\ Record(p, TRUE) /\ UNCHANGED leaked
  <2>1. /\ obj' \in [Keys -> {None} \cup 0 .. clock] /\ arch' \in [Keys -> {None} \cup 0 .. clock]
        /\ \A j \in Keys : obj'[j] = None => obj[j] = None
    BY <1>2, <1>3
  <2>2. breach' = FALSE
    BY <1>1, <1>3, NothingBreached
  <2> QED
    BY <1>1, <1>2, <1>3, <2>1, <2>2, RemovalEnds
<1>4. CASE /\ obj' = [obj EXCEPT ![k] = None] /\ UNCHANGED arch
           /\ leaked' = IF mode = "off" THEN [leaked EXCEPT ![k] = @ \cup Copies] ELSE leaked
           /\ Record(p, TRUE)
  <2>1. obj' \in [Keys -> {None} \cup 0 .. clock] /\ leaked' \in [Keys -> SUBSET Copies]
    BY <1>2, <1>4
  <2>2. /\ \A j \in Keys : leaked[j] \subseteq leaked'[j]
        /\ \A j \in Keys : mode = "off" /\ obj'[j] = None => obj[j] = None \/ Copies \subseteq leaked'[j]
    BY <1>2, <1>4
  <2>3. breach' = FALSE
    BY <1>1, <1>4, NothingBreached
  <2> QED
    BY <1>1, <1>2, <1>4, <2>1, <2>2, <2>3, RemovalEnds
<1>5. CASE UNCHANGED <<obj, arch, breach, leaked>>
  BY <1>1, <1>2, <1>5, RemovalEnds DEF IInv, LockHonoured, Types
<1> QED
  BY <1>3, <1>4, <1>5 DEF RemoveVersion

LEMMA StepRemoveLastVersion == ASSUME IInv, NEW p \in Procs, RemoveLastVersion(p) PROVE IInv'
BY NothingBreached, StepSweep DEF RemoveLastVersion

\* One drive loses the sidecars of the keys that go, or keeps them and is noted.
LEMMA StepRemoveSides == ASSUME IInv, NEW p \in Procs, RemoveSides(p) PROVE IInv'
<1> USE DEF IInv
<1> DEFINE o  == op[p]
           d  == Min(o.left)
           ks == Gone(o.k)
           n  == IF o.left = {d} THEN Idle ELSE [o EXCEPT !.left = @ \ {d}]
<1>1. /\ o.phase = "sides" /\ o \in OpSet /\ Ready(o) /\ o.k \in Keys /\ ks \subseteq Keys /\ o.k \in ks
      /\ UNCHANGED <<backend, mode, upsets, up, clock, requests, uneven, pass, breach>>
  BY GoneFacts DEF Types, Placed, Ready, world, RemoveSides
<1>2. d \in o.left /\ d \in Copies /\ d \in Drives
  BY <1>1, DriveFacts, Turn DEF Ready
<1>3. /\ n \in OpSet /\ Ready(n) /\ n.phase \in {"idle", "sides"}
      /\ n.phase = "sides" => n.k = o.k /\ n.left = o.left \ {d}
      /\ o.left # {d} => n.phase = "sides"
  <2>1. o.left \ {d} \in SUBSET Drives
    BY <1>1 DEF OpSet
  <2>2. CASE o.left = {d}
    BY <2>2, RecordFacts DEF Ready
  <2>3. CASE o.left # {d}
    <3> DEFINE m == [o EXCEPT !.left = @ \ {d}]
    <3>1. o.left \ {d} # {}
      BY <1>2, <2>3
    <3> HIDE DEF d
    <3>2. m \in OpSet /\ m.phase = "sides" /\ m.k = o.k /\ m.left = o.left \ {d} /\ m.missed = o.missed
      BY <1>1, <2>1 DEF OpSet
    <3> HIDE DEF m
    <3>3. Ready(m)
      BY <1>1, <3>1, <3>2 DEF Ready
    <3>4. n = m
      BY <2>3 DEF m
    <3> QED
      BY <2>3, <3>2, <3>3, <3>4
  <2> QED
    BY <2>2, <2>3
<1>4. op' = [q \in Procs |-> IF q = p THEN n
             ELSE IF op[q].phase \in Setting /\ op[q].k \in ks THEN [op[q] EXCEPT !.alone = FALSE]
             ELSE op[q]]
  BY Zenon DEF RemoveSides
<1>5. PICK lost \in SUBSET (ks \ {o.k}) :
        /\ obj' = [k \in Keys |-> IF k \in lost THEN None ELSE obj[k]]
        /\ arch' = [k \in Keys |-> IF k \in lost THEN None ELSE arch[k]]
  BY Zenon DEF RemoveSides
<1>6. due' = [k \in Keys |-> IF k \in ks THEN NoSide ELSE due[k]]
  BY Zenon DEF RemoveSides
<1>7. Emptied(ks, d)
  BY Zenon DEF RemoveSides
<1> HIDE DEF n, d, ks
<1>8. \A q \in Procs : q # p =>
        /\ op'[q] \in OpSet /\ Milder(op'[q], op[q])
        /\ op[q].phase \in Setting /\ op[q].k \in ks => ~op'[q].alone
        /\ op[q].phase \notin Setting => op'[q] = op[q]
        /\ op'[q] # Idle => op[q] # Idle
  <2> SUFFICES ASSUME NEW q \in Procs, q # p
               PROVE  /\ op'[q] \in OpSet /\ Milder(op'[q], op[q])
                      /\ op[q].phase \in Setting /\ op[q].k \in ks => ~op'[q].alone
                      /\ op[q].phase \notin Setting => op'[q] = op[q]
                      /\ op'[q] # Idle => op[q] # Idle
    OBVIOUS
  <2>1. op[q] \in OpSet
    BY DEF Types
  <2>2. CASE op[q].phase \in Setting /\ op[q].k \in ks
    <3>1. op'[q] = [op[q] EXCEPT !.alone = FALSE]
      BY <1>4, <2>2
    <3>2. op[q] # Idle
      BY <2>2, RecordFacts DEF Setting
    <3> QED
      BY <2>1, <2>2, <3>1, <3>2 DEF Milder, OpSet
  <2>3. CASE ~(op[q].phase \in Setting /\ op[q].k \in ks)
    <3>1. op'[q] = op[q]
      BY <1>4, <2>3
    <3> QED
      BY <2>1, <2>3, <3>1 DEF Milder
  <2> QED
    BY <2>2, <2>3
<1>9. op'[p] = n /\ op' \in [Procs -> OpSet] /\ Others(p)
  <2>1. op'[p] = n
    BY <1>4
  <2>2. op' = [q \in Procs |-> op'[q]]
    BY <1>4
  <2>3. \A q \in Procs : op'[q] \in OpSet
    BY <1>3, <1>8, <2>1
  <2> QED
    BY <1>8, <2>1, <2>2, <2>3 DEF Others
<1>10. /\ obj' \in [Keys -> {None} \cup 0 .. clock] /\ arch' \in [Keys -> {None} \cup 0 .. clock]
       /\ due' \in [Keys -> Lock] /\ \A k \in Keys : k \notin ks => obj'[k] = obj[k]
       /\ \A k \in Keys : due'[k] = IF k \in ks THEN NoSide ELSE due[k]
  BY <1>5, <1>6, RecordFacts DEF Types
<1>11. Withdrawn
  BY <1>10, RecordFacts DEF Withdrawn
<1>12. /\ side' \in [Drives -> [Keys -> Says]]
       /\ \A e \in Drives, k \in Keys :
            side'[e][k] = IF e = d /\ d \in up /\ k \in ks THEN NoSide ELSE side[e][k]
  <2>1. side' = IF d \in up THEN [side EXCEPT ![d] = [k \in Keys |-> IF k \in ks THEN NoSide ELSE @[k]]] ELSE side
    BY <1>7 DEF Emptied
  <2> QED
    BY <1>2, <2>1, RecordFacts DEF Types
<1>13. /\ leaked' \in [Keys -> SUBSET Copies]
       /\ \A k \in Keys : /\ k \notin ks => leaked'[k] = leaked[k]
                          /\ leaked[k] \ {d} \subseteq leaked'[k]
                          /\ k \in ks /\ d \notin up => d \in leaked'[k]
  <2>1. leaked' = [k \in Keys |-> IF k \notin ks THEN leaked[k]
                                  ELSE IF d \in up THEN leaked[k] \ {d} ELSE leaked[k] \cup {d}]
    BY <1>7 DEF Emptied
  <2> QED
    BY <1>2, <2>1 DEF Types
<1>14. Types'
  BY <1>1, <1>9, <1>10, <1>12, <1>13 DEF Types, Copies
<1>15. Placed'
  <2>1. \A q \in Procs : Ready(op'[q])
    BY <1>3, <1>8, <1>9 DEF Placed, Ready, Milder
  <2>2. op[Worker] # Idle => InPass
    BY DEF Placed
  <2>3. p = Worker => op[p] # Idle
    BY <1>1, RecordFacts
  <2>4. op'[Worker] # Idle => InPass
    BY <1>8, <2>2, <2>3, ProcFacts
  <2> QED
    BY <1>1, <2>1, <2>4 DEF Placed, InPass, Ready, Copies
<1>16. OneHolder'
  BY <1>1, <1>3, <1>9, HoldersKept DEF Held
<1>17. Backed'
  <2> SUFFICES ASSUME NEW f \in Files, NEW k \in Keys, NEW e \in Copies,
                      e \notin uneven[f][k], due'[k][f] # None
               PROVE  side'[e][k][f] = due'[k][f]
    BY <1>1 DEF Backed, Copies
  <2>1. k \notin ks /\ due'[k] = due[k]
    BY <1>10, RecordFacts
  <2>2. side'[e][k] = side[e][k]
    BY <1>12, <2>1, DriveFacts
  <2> QED
    BY <2>1, <2>2 DEF Backed
<1>18. Alone'
  BY <1>3, <1>9, AloneKept DEF Setting
<1>19. Promised'
  BY <1>3, <1>9, <1>11, PromisedKept DEF Setting
<1>20. Walked'
  <2> SUFFICES ASSUME NEW q \in Procs, op'[q].phase \in {"truncate", "fill"}, op'[q].alone,
                      NEW e \in Copies, e \notin op'[q].left, e \notin op'[q].missed
               PROVE  side'[e][op'[q].k][op'[q].file] = op'[q].val
    BY <1>1 DEF Walked, Copies
  <2>1. q # p
    BY <1>3, <1>9
  <2>2. Milder(op'[q], op[q]) /\ op[q].k \notin ks /\ op[q].k \in Keys
    BY <1>8, <2>1 DEF Milder, Setting, Placed, Ready
  <2>3. side[e][op[q].k][op[q].file] = op[q].val
    BY <2>2 DEF Walked, Milder
  <2>4. side'[e][op[q].k] = side[e][op[q].k]
    BY <1>12, <2>2, DriveFacts
  <2> QED
    BY <2>2, <2>3, <2>4 DEF Milder
<1>21. ChecksHold'
  <2>1. \A f \in Files : ~Concluded(n, f)
    BY <1>3 DEF Concluded
  <2> QED
    BY <1>1, <1>9, <1>11, <2>1, ChecksKept
<1>22. Swept'
  <2> SUFFICES ASSUME mode = "off", NEW k \in Keys, NEW e \in Copies, obj'[k] = None \/ Removing(k)',
                      side'[e][k] # NoSide, e \notin leaked'[k]
               PROVE  Pending(k, e)'
    BY <1>1 DEF Swept, Copies
  <2>1. \A q \in Procs : op[q].phase = "sides" /\ q # p => op'[q] = op[q]
    BY <1>8 DEF Setting
  <2>2. side'[e][k] = side[e][k]
    BY <1>12, DriveFacts
  <2>3. obj[k] = None \/ Removing(k)
    <3>1. CASE k \in ks
      BY <1>1, <3>1 DEF Removing, ks
    <3>2. CASE k \notin ks
      <4>1. CASE obj'[k] = None
        BY <1>10, <3>2, <4>1
      <4>2. CASE Removing(k)'
        <5>1. PICK q \in Procs : op'[q].phase = "sides" /\ k \in Gone(op'[q].k)
          BY <1>1, <4>2 DEF Removing, Gone
        <5>2. q # p
          BY <1>3, <1>9, <3>2, <5>1 DEF ks
        <5>3. op[q].phase = "sides" /\ op[q].k = op'[q].k
          BY <1>8, <5>1, <5>2 DEF Milder
        <5> QED
          BY <5>1, <5>3 DEF Removing
      <4> QED
        BY <4>1, <4>2
    <3> QED
      BY <3>1, <3>2
  <2>4. ~(k \in ks /\ e = d)
    BY <1>12, <1>13, <1>2
  <2>5. e \notin leaked[k]
    BY <1>13, <2>4
  <2>6. PICK q \in Procs : op[q].phase = "sides" /\ k \in Gone(op[q].k) /\ e \in op[q].left
    BY <2>2, <2>3, <2>5 DEF Swept, Pending
  <2>7. CASE q # p
    BY <1>1, <2>1, <2>6, <2>7 DEF Pending, Gone
  <2>8. CASE q = p
    <3>1. e # d /\ o.left # {d}
      BY <2>4, <2>6, <2>8 DEF ks
    <3>2. op'[p].phase = "sides" /\ op'[p].k = o.k /\ e \in op'[p].left
      BY <1>3, <1>9, <2>6, <2>8, <3>1
    <3> QED
      BY <1>1, <2>6, <2>8, <3>2 DEF Pending, Gone
  <2> QED
    BY <2>7, <2>8
<1>23. LockHonoured'
  BY <1>1 DEF LockHonoured
<1> QED
  BY <1>14, <1>15, <1>16, <1>17, <1>18, <1>19, <1>20, <1>21, <1>22, <1>23

-----------------------------------------------------------------------------
\* The lifecycle worker.

\* Counting from the bottom, a finite set of numbers has one at every rank.
LEMMA Ranks ==
  ASSUME NEW S \in SUBSET Nat, IsFiniteSet(S)
  PROVE  \A i \in 1 .. Cardinality(S) : \E k \in S : Cardinality({j \in S : j < k}) = i - 1
<1> DEFINE below(k) == {j \in S : j < k}
           T == 0 .. (Cardinality(S) - 1)
           f == [k \in S |-> Cardinality(below(k))]
<1>1. Cardinality(S) \in Nat
  BY FS_CardinalityType
<1>2. \A k \in S : IsFiniteSet(below(k)) /\ Cardinality(below(k)) \in Nat /\ Cardinality(below(k)) < Cardinality(S)
  <2> SUFFICES ASSUME NEW k \in S
               PROVE  IsFiniteSet(below(k)) /\ Cardinality(below(k)) \in Nat /\ Cardinality(below(k)) < Cardinality(S)
    OBVIOUS
  <2>1. below(k) \in SUBSET (S \ {k})
    <3>1. \A j \in S : j \in Nat /\ k \in Nat
      OBVIOUS
    <3>2. \A j, m \in Nat : j < m => j # m
      OBVIOUS
    <3> QED
      BY <3>1, <3>2, SMTT(20)
  <2>2. IsFiniteSet(S \ {k}) /\ Cardinality(S \ {k}) = Cardinality(S) - 1
    BY FS_RemoveElement
  <2>3. IsFiniteSet(below(k)) /\ Cardinality(below(k)) <= Cardinality(S \ {k})
    BY <2>1, <2>2, FS_Subset
  <2>4. Cardinality(below(k)) \in Nat
    BY <2>3, FS_CardinalityType
  <2> HIDE DEF below
  <2> QED
    BY <1>1, <2>2, <2>3, <2>4
<1>3. \A k, m \in S : k < m => Cardinality(below(k)) < Cardinality(below(m))
  <2> SUFFICES ASSUME NEW k \in S, NEW m \in S, k < m
               PROVE  Cardinality(below(k)) < Cardinality(below(m))
    OBVIOUS
  <2>1. below(k) \cup {k} \in SUBSET below(m) /\ k \notin below(k)
    <3>1. k \in Nat /\ m \in Nat /\ \A j \in S : j \in Nat
      OBVIOUS
    <3>2. \A j \in S : j < k => j < m
      BY <3>1
    <3>3. ~(k < k)
      BY <3>1
    <3>4. below(k) \subseteq below(m) /\ k \in below(m)
      BY <3>2
    <3> QED
      BY <3>3, <3>4
  <2>2. Cardinality(below(k) \cup {k}) = Cardinality(below(k)) + 1
    BY <1>2, <2>1, FS_AddElement
  <2>3. Cardinality(below(k) \cup {k}) <= Cardinality(below(m))
    BY <1>2, <2>1, FS_Subset
  <2> HIDE DEF below
  <2> QED
    BY <1>2, <2>2, <2>3
<1> HIDE DEF below
<1>4. f \in [S -> T]
  BY <1>1, <1>2
<1>5. f \in Injection(S, T)
  <2>1. \A k, m \in S : f[k] = f[m] => k = m
    <3> SUFFICES ASSUME NEW k \in S, NEW m \in S, f[k] = f[m], k # m
                 PROVE  FALSE
      OBVIOUS
    <3>1. k < m \/ m < k
      OBVIOUS
    <3> QED
      BY <1>2, <1>3, <3>1
  <2> QED
    BY <1>4, <2>1 DEF Injection, IsInjective
<1>6. IsFiniteSet(T) /\ Cardinality(T) = Cardinality(S)
  <2>1. Cardinality(S) - 1 \in Int
    BY <1>1
  <2>2. /\ IsFiniteSet(T)
        /\ Cardinality(T) = IF 0 > Cardinality(S) - 1 THEN 0 ELSE (Cardinality(S) - 1) - 0 + 1
    BY <2>1, FS_Interval
  <2> QED
    BY <1>1, <2>2
<1> HIDE DEF f
<1>7. f \in Surjection(S, T)
  BY <1>5, <1>6, FS_Injection
<1>8. \A r \in T : \E k \in S : f[k] = r
  BY <1>7 DEF Surjection
<1>9. \A k \in S : f[k] = Cardinality(below(k))
  BY DEF f
<1> QED
  BY <1>1, <1>8, <1>9 DEF below

\* list_objects_v2 returns a sequence of objects that are there.
LEMMA PageListed ==
  ASSUME Types, NEW token PROVE Page(token).objects \in Seq(Listed) /\ Page(token).token \in Int
<1> DEFINE ks == {k \in Keys : k >= token /\ obj[k] /= None}
           idx == {k \in ks : Cardinality({j \in ks : j < k}) < PageMax}
           seq == [i \in 1 .. Cardinality(idx) |->
                     CHOOSE k \in idx : Cardinality({j \in idx : j < k}) = i - 1]
           objects == [i \in DOMAIN seq |-> [k |-> seq[i], at |-> obj[seq[i]]]]
<1>1. idx \in SUBSET Keys /\ idx \in SUBSET Nat /\ \A k \in idx : obj[k] # None
  BY RetentionAssumption
<1>0. ks # idx => Min(ks \ idx) \in Nat
  <2>1. ks \ idx \in SUBSET Nat /\ idx \subseteq ks
    BY RetentionAssumption
  <2>2. ks # idx => ks \ idx # {}
    BY <2>1
  <2> HIDE DEF idx, ks
  <2>3. ks # idx => Min(ks \ idx) \in ks \ idx
    BY <2>1, <2>2, Least
  <2> QED
    BY <2>1, <2>3
<1>2. IsFiniteSet(idx)
  BY <1>1, RetentionAssumption, FS_Subset
<1> HIDE DEF idx
<1>3. Cardinality(idx) \in Nat
  BY <1>2, FS_CardinalityType
<1>4. \A i \in 1 .. Cardinality(idx) : seq[i] \in idx
  BY <1>1, <1>2, Ranks
<1>5. DOMAIN seq = 1 .. Cardinality(idx)
  OBVIOUS
<1> HIDE DEF seq
<1>6. \A i \in 1 .. Cardinality(idx) : [k |-> seq[i], at |-> obj[seq[i]]] \in Listed
  <2>1. obj \in [Keys -> {None} \cup 0 .. clock] /\ clock \in Nat
    BY RetentionAssumption DEF Types
  <2>2. \A k \in idx : k \in Keys /\ obj[k] \in Nat
    BY <1>1, <2>1
  <2> HIDE DEF idx
  <2> QED
    BY <1>4, <2>2 DEF Listed
<1>7. objects \in Seq(Listed)
  BY <1>3, <1>5, <1>6, IsASeq
<1>8. Page(token).objects = objects
  BY DEF Page, idx, seq
<1>9. Page(token).token = IF ks = idx THEN 0 ELSE Min(ks \ idx)
  BY DEF Page, idx
<1>10. Page(token).token \in Int
  BY <1>0, <1>9
<1> QED
  BY <1>7, <1>8, <1>10


LEMMA PassEnd ==
  ASSUME NEW b \in BOOLEAN
  PROVE  [NoPass EXCEPT !.failed = b] \in Pass /\ [NoPass EXCEPT !.failed = b].now = None
<1>1. [NoPass EXCEPT !.failed = b] = [now |-> None, token |-> 0, page |-> <<>>, failed |-> b]
  BY DEF NoPass
<1>2. NoPass \in [now : Nat \cup {None}, token : Int, page : Seq(Listed), failed : BOOLEAN] /\ NoPass.page = <<>>
  BY RecordFacts DEF Pass
<1>3. /\ [NoPass EXCEPT !.failed = b] \in [now : Nat \cup {None}, token : Int, page : Seq(Listed), failed : BOOLEAN]
      /\ [NoPass EXCEPT !.failed = b].page = NoPass.page
  BY <1>2
<1> QED
  BY <1>1, <1>2, <1>3 DEF Pass

LEMMA PassFacts ==
  ASSUME IInv, op[Worker] = Idle,
         UNCHANGED <<backend, mode, upsets, up, clock, requests, obj, arch, side, uneven, due, op, breach, leaked>>,
         pass' \in Pass, pass'.now # None => pass'.now \in 0 .. clock
  PROVE  IInv'
<1>1. /\ Ready(Idle) /\ Idle.phase \notin Setting /\ Idle.phase \notin Held /\ Idle.phase # "sides"
      /\ Idle.phase \notin {"truncate", "fill"} /\ \A f \in Files : ~Concluded(Idle, f)
  BY RecordFacts DEF Ready, Setting, Held, Concluded
<1>2. requests' \in 0 .. MaxRequests /\ op' = [op EXCEPT ![Worker] = Idle] /\ op'[Worker] = Idle
  BY DEF IInv, Types
<1> QED
  BY <1>1, <1>2, ProcFacts, RecordFacts, OneOp

LEMMA StepPassBegin == ASSUME IInv, PassBegin PROVE IInv'
<1>1. /\ UNCHANGED <<backend, mode, upsets, up, clock, requests, obj, arch, side, uneven, due, op, breach, leaked>>
      /\ op[Worker] = Idle
      /\ pass' = [now |-> clock, token |-> Page(0).token, page |-> Page(0).objects, failed |-> FALSE]
  BY DEF PassBegin, world
<1>2. clock \in Nat /\ Page(0).objects \in Seq(Listed) /\ Page(0).token \in Int
  BY RetentionAssumption, PageListed DEF IInv, Types
<1>3. pass' \in Pass /\ pass'.now = clock
  BY <1>1, <1>2 DEF Pass, None
<1> QED
  BY <1>1, <1>2, <1>3, PassFacts

LEMMA StepPassPage == ASSUME IInv, PassPage PROVE IInv'
<1>1. /\ UNCHANGED <<backend, mode, upsets, up, clock, requests, obj, arch, side, uneven, due, op, breach, leaked>>
      /\ op[Worker] = Idle /\ pass.now # None
      /\ pass' = IF pass.token = 0 THEN [NoPass EXCEPT !.failed = pass.failed]
                 ELSE [pass EXCEPT !.token = Page(pass.token).token, !.page = Page(pass.token).objects]
  BY DEF PassPage, world, InPass
<1>2. pass \in Pass /\ (pass.now # None => pass.now \in 0 .. clock)
  BY DEF IInv, Types, Placed, InPass
<1>3. CASE pass.token = 0
  <2>1. pass' \in Pass /\ pass'.now = None
    BY <1>1, <1>2, <1>3, PassEnd DEF Pass
  <2> QED
    BY <1>1, <2>1, PassFacts
<1>4. CASE pass.token # 0
  <2>1. Page(pass.token).objects \in Seq(Listed) /\ Page(pass.token).token \in Int
    BY PageListed DEF IInv
  <2>2. pass' \in Pass /\ pass'.now = pass.now
    BY <1>1, <1>2, <1>4, <2>1 DEF Pass
  <2> QED
    BY <1>1, <1>2, <2>2, PassFacts
<1> QED
  BY <1>3, <1>4

LEMMA StepPassObject == ASSUME IInv, PassObject PROVE IInv'
<1> DEFINE o == Head(pass.page)
           n == [Idle EXCEPT !.k = o.k, !.phase = "check", !.file = "hold", !.goal = "remove"]
<1>1. /\ UNCHANGED <<backend, mode, upsets, up, clock, requests, obj, arch, side, uneven, due, breach, leaked>>
      /\ op[Worker] = Idle /\ pass.page # <<>> /\ pass' = [pass EXCEPT !.page = Tail(@)]
  BY DEF PassObject, world
<1>2. pass \in Pass /\ pass.page \in Seq(Listed)
  BY DEF IInv, Types, Pass
<1>3. o \in Listed /\ Tail(pass.page) \in Seq(Listed)
  BY <1>1, <1>2, HeadTailProperties
<1>4. pass' \in Pass /\ pass'.now = pass.now
  BY <1>1, <1>2, <1>3 DEF Pass
<1>5. pass'.now # None => pass'.now \in 0 .. clock
  BY <1>4 DEF IInv, Placed, InPass
<1>6. CASE UNCHANGED op
  BY <1>1, <1>4, <1>5, <1>6, PassFacts
<1>7. o.k \in Keys /\ pass.now # None
  BY <1>1, <1>2, <1>3 DEF Pass, Listed
<1>8. CASE op' = [op EXCEPT ![Worker] = n]
  <2>1. /\ n \in OpSet /\ n.phase = "check" /\ n.goal = "remove" /\ n.file = "hold"
        /\ n.left = {} /\ n.missed = {} /\ n.k \in Keys
    BY <1>7 DEF Idle, OpSet, Phases, Files
  <2> HIDE DEF n
  <2>2. Ready(n) /\ n.phase \notin Setting /\ n.phase \notin Held /\ \A f \in Files : ~Concluded(n, f)
    BY <2>1 DEF Ready, Setting, Held, Concluded
  <2>3. requests' \in 0 .. MaxRequests
    BY <1>1 DEF IInv, Types
  <2>4. op[Worker].phase # "sides" /\ n.phase # "sides" /\ n.phase \notin {"truncate", "fill"} /\ pass'.now # None
    BY <1>1, <1>4, <1>7, <2>1, RecordFacts
  <2> QED
    BY <1>1, <1>4, <1>5, <1>8, <2>1, <2>2, <2>3, <2>4, ProcFacts, OneOp
<1> QED
  BY <1>6, <1>8 DEF PassObject

LEMMA StepPassFails == ASSUME IInv, PassFails PROVE IInv'
<1>1. /\ UNCHANGED <<backend, mode, upsets, up, clock, requests, obj, arch, side, uneven, due, breach, leaked>>
      /\ pass \in Pass
  BY DEF PassFails, world, IInv, Types
<1>2. CASE op[Worker] = Idle /\ pass' = [NoPass EXCEPT !.failed = TRUE] /\ UNCHANGED op
  <2>1. pass' \in Pass /\ pass'.now = None
    BY <1>2, PassEnd
  <2> QED
    BY <1>1, <1>2, <2>1, PassFacts
<1>3. CASE op[Worker].phase = "remove" /\ pass' = [pass EXCEPT !.failed = TRUE] /\ Done(Worker)
  <2>1. pass' \in Pass /\ pass'.now = pass.now
    BY <1>1, <1>3 DEF Pass
  <2> QED
    BY <1>1, <1>3, <2>1, ProcFacts, OneIdle DEF Done
<1> QED
  BY <1>2, <1>3 DEF PassFails

-----------------------------------------------------------------------------
\* Time, drives and restarts.
LEMMA StepTick == ASSUME IInv, Tick PROVE IInv'
<1> USE DEF IInv
<1>1. /\ UNCHANGED <<backend, mode, upsets, up, requests, obj, arch, side, uneven, due, op, pass, breach, leaked>>
      /\ clock' = clock + 1 /\ clock \in Nat /\ clock < MaxClock
  BY RetentionAssumption DEF Tick, world, Types
<1>2. clock' \in 0 .. MaxClock /\ 0 .. clock \subseteq 0 .. clock'
  BY <1>1, RetentionAssumption
<1>3. obj' \in [Keys -> {None} \cup 0 .. clock'] /\ arch' \in [Keys -> {None} \cup 0 .. clock']
  BY <1>1, <1>2 DEF Types
<1>4. Types'
  BY <1>1, <1>2, <1>3 DEF Types, Copies
<1>5. Placed'
  BY <1>1, <1>2 DEF Placed, InPass, Ready, Copies
<1>6. OneHolder' /\ Alone' /\ Promised'
  BY <1>1 DEF OneHolder, Alone, Promised
<1>7. Backed' /\ Walked' /\ LockHonoured'
  BY <1>1 DEF Backed, Walked, LockHonoured, Copies
<1>8. Swept'
  BY <1>1 DEF Swept, Copies, Removing, Pending, Gone
<1>9. ChecksHold'
  <2> SUFFICES ASSUME NEW p \in Procs, ~op[p].excused, NEW f \in Files, Concluded(op[p], f),
                      ~Blocks(f, due[op[p].k][f], clock)
               PROVE  ~Blocks(f, due[op[p].k][f], clock')
    BY <1>1 DEF ChecksHold, Sound
  <2>1. op[p].k \in Keys
    BY DEF Concluded, Placed, Ready
  <2>2. due[op[p].k][f] \in Nat \cup {None}
    BY <2>1 DEF Types, Lock
  <2> QED
    BY <1>1, <2>2 DEF Blocks, None
<1> QED
  BY <1>4, <1>5, <1>6, <1>7, <1>8, <1>9

LEMMA StepDrives == ASSUME IInv, NEW d \in Failing, DriveDown(d) \/ DriveUp(d) PROVE IInv'
<1> USE DEF IInv
<1>1. /\ UNCHANGED <<backend, mode, clock, requests, obj, arch, side, uneven, due, op, pass, breach, leaked>>
      /\ upsets' \in Nat /\ up' \subseteq Drives
  <2>1. up \subseteq Drives /\ upsets \in Nat /\ d \in Drives
    BY RetentionAssumption DEF Types, Drives
  <2>2. CASE DriveDown(d)
    BY <2>1, <2>2 DEF DriveDown
  <2>3. CASE DriveUp(d)
    BY <2>1, <2>3 DEF DriveUp
  <2> QED
    BY <2>2, <2>3
<1>2. Types' /\ Placed'
  BY <1>1 DEF Types, Placed, InPass, Ready, Copies
<1>3. OneHolder' /\ Alone' /\ Promised' /\ ChecksHold'
  BY <1>1 DEF OneHolder, Alone, Promised, ChecksHold, Sound
<1>4. Backed' /\ Walked' /\ LockHonoured'
  BY <1>1 DEF Backed, Walked, LockHonoured, Copies
<1>5. Swept'
  BY <1>1 DEF Swept, Copies, Removing, Pending, Gone
<1> QED
  BY <1>2, <1>3, <1>4, <1>5

LEMMA StepCrash == ASSUME IInv, Crash PROVE IInv'
<1> USE DEF IInv
<1>1. /\ UNCHANGED <<backend, mode, clock, requests, up, obj, arch, side, uneven, due, breach>>
      /\ leaked' = [k \in Keys |-> IF Removing(k) THEN Copies ELSE leaked[k]] /\ pass' = NoPass
      /\ op' = [p \in Procs |-> Idle] /\ upsets' = upsets + 1
  BY DEF Crash
<1>2. \A p \in Procs : op'[p] = Idle
  BY <1>1
<1>3. Types'
  <2>1. op' \in [Procs -> OpSet] /\ upsets' \in Nat /\ pass' \in Pass
    BY <1>1, RecordFacts DEF Types
  <2>2. leaked' \in [Keys -> SUBSET Copies]
    BY <1>1 DEF Types
  <2> QED
    BY <1>1, <2>1, <2>2 DEF Types, Copies
<1>4. Placed'
  <2>1. Ready(Idle)
    BY RecordFacts DEF Ready
  <2> QED
    BY <1>1, <1>2, <2>1, ProcFacts, RecordFacts DEF Placed, InPass, Ready, Copies
<1>5. OneHolder' /\ Alone' /\ Promised' /\ Walked' /\ ChecksHold'
  BY <1>2, RecordFacts DEF OneHolder, Alone, Promised, Walked, ChecksHold, Sound, Concluded, Held, Setting
<1>6. Backed' /\ LockHonoured'
  BY <1>1 DEF Backed, LockHonoured, Copies
<1>7. Swept'
  <2> SUFFICES ASSUME mode = "off", NEW k \in Keys, NEW d \in Copies, obj[k] = None \/ Removing(k)',
                      side[d][k] # NoSide, d \notin leaked'[k]
               PROVE  FALSE
    BY <1>1 DEF Swept, Copies
  <2>1. ~Removing(k)'
    BY <1>2, RecordFacts DEF Removing
  <2>2. ~Removing(k) /\ d \notin leaked[k]
    BY <1>1
  <2>3. ~Pending(k, d)
    BY <2>2 DEF Pending, Removing
  <2> QED
    BY <2>1, <2>2, <2>3 DEF Swept
<1> QED
  BY <1>3, <1>4, <1>5, <1>6, <1>7

-----------------------------------------------------------------------------
LEMMA InitIInv == Init => IInv
<1> SUFFICES ASSUME Init PROVE IInv
  OBVIOUS
<1>1. \A p \in Procs : op[p] = Idle
  BY DEF Init
<1>2. Types
  <2>1. /\ clock \in 0 .. MaxClock /\ requests \in 0 .. MaxRequests /\ upsets \in Nat /\ up \subseteq Drives
        /\ obj \in [Keys -> {None} \cup 0 .. clock] /\ arch \in [Keys -> {None} \cup 0 .. clock]
    BY RetentionAssumption DEF Init
  <2>2. /\ side \in [Drives -> [Keys -> Says]] /\ due \in [Keys -> Lock] /\ op \in [Procs -> OpSet]
        /\ uneven \in [Files -> [Keys -> SUBSET Drives]] /\ leaked \in [Keys -> SUBSET Copies] /\ pass \in Pass
    BY RecordFacts DEF Init
  <2> QED
    BY <2>1, <2>2 DEF Types, Init
<1>3. Placed
  <2>1. Ready(Idle)
    BY RecordFacts DEF Ready
  <2> QED
    BY <1>1, <2>1, ProcFacts, RecordFacts DEF Init, Placed, InPass
<1>4. OneHolder /\ Alone /\ Promised /\ Walked /\ ChecksHold
  BY <1>1, RecordFacts DEF OneHolder, Alone, Promised, Walked, ChecksHold, Sound, Concluded, Held, Setting
<1>5. Backed /\ LockHonoured
  BY RecordFacts DEF Init, Backed, LockHonoured
<1>6. Swept
  <2>1. \A d \in Copies, k \in Keys : side[d][k] = NoSide
    BY DriveFacts DEF Init
  <2> QED
    BY <2>1 DEF Swept
<1> QED
  BY <1>2, <1>3, <1>4, <1>5, <1>6 DEF IInv

LEMMA StepIInv == IInv /\ [Next]_vars => IInv'
<1> SUFFICES ASSUME IInv, [Next]_vars PROVE IInv'
  OBVIOUS
<1>1. ASSUME NEW p \in Procs, Step(p) PROVE IInv'
  BY <1>1, StepCheckHead, StepCheckRead, StepRemove, StepRemoveSides, StepRemoveVersion, StepRemoveLastVersion DEF Step
<1>2. ASSUME NEW c \in Clients, Set(c) PROVE IInv'
  BY <1>2, StepSetHead, StepSetTruncate, StepSetFill, StepSetMiss, StepSetDone DEF Set
<1>3. ASSUME NEW c \in Clients, Request(c) \/ Set(c) \/ Step(c) \/ PutBegin(c) \/ PutEnd(c) \/ PutFails(c)
      PROVE  IInv'
  <2>1. c \in Procs
    BY ProcFacts
  <2> QED
    BY <1>1, <1>2, <1>3, <2>1, StepRequest, StepPutBegin, StepPutEnd, StepPutFails
<1>4. CASE Work
  BY <1>1, <1>4, ProcFacts, StepPassBegin, StepPassObject, StepPassPage DEF Work
<1>5. CASE PassFails \/ Tick \/ Crash
  BY <1>5, StepPassFails, StepTick, StepCrash
<1>6. CASE \E d \in Failing : DriveDown(d) \/ DriveUp(d)
  BY <1>6, StepDrives
<1>7. CASE UNCHANGED vars
  <2>1. UNCHANGED <<backend, mode, clock, requests, upsets, up, obj, arch, side, uneven, due, op, pass, breach, leaked>>
    BY <1>7 DEF vars
  <2>2. Types' /\ Placed' /\ OneHolder' /\ Alone' /\ Promised' /\ ChecksHold'
    BY <2>1 DEF IInv, Types, Placed, InPass, Ready, Copies, OneHolder, Alone, Promised, ChecksHold, Sound
  <2>3. Backed' /\ Walked' /\ LockHonoured' /\ Swept'
    BY <2>1 DEF IInv, Backed, Walked, LockHonoured, Copies, Swept, Removing, Pending, Gone
  <2> QED
    BY <2>2, <2>3 DEF IInv
<1> QED
  BY <1>3, <1>4, <1>5, <1>6, <1>7 DEF Next

\* The inductive invariant holds throughout, whatever the fairness.
THEOREM Invariance == Spec => []IInv
BY InitIInv, StepIInv, PTL DEF Spec

\* The clock, the objects and the drives have their types, a key's lock has one
\* holder, and the worker is at work only within a pass.
THEOREM TypeCorrect == Spec => []TypeOK
<1>1. IInv => TypeOK
  <2> SUFFICES ASSUME IInv PROVE TypeOK
    OBVIOUS
  <2>1. ASSUME NEW k \in Keys PROVE Cardinality({p \in Procs : op[p].k = k /\ op[p].phase \in {"sides", "body"}}) <= 1
    <3> DEFINE R == {p \in Procs : op[p].k = k /\ op[p].phase \in {"sides", "body"}}
    <3>1. CASE R = {}
      BY <3>1, FS_EmptySet
    <3>2. CASE R # {}
      <4> PICK p \in R : TRUE
        BY <3>2
      <4>1. R = {p}
        BY DEF IInv, OneHolder, Held
      <4>2. Cardinality({p}) = 1
        BY FS_Singleton
      <4> HIDE DEF R
      <4>3. Cardinality(R) <= 1
        BY <4>1, <4>2
      <4> QED
        BY <4>3 DEF R
    <3> QED
      BY <3>1, <3>2
  <2>2. \A k \in Keys : obj[k] \in {None} \cup 0 .. clock /\ leaked[k] \subseteq Copies
    BY DEF IInv, Types
  <2> QED
    BY <2>1, <2>2 DEF IInv, Types, Placed, TypeOK
<1> QED
  BY <1>1, Invariance, PTL

\* check_object_lock and the lifecycle's object_locked keep every object whose
\* hold or retention a client was told of from the deletes of its key that check,
\* for any number of drives that miss writes and come back, of requests that set
\* locks, of deletes and of crashes; the deletes that are excused are those that
\* saw no object, had read the sidecar before the lock was acknowledged, or were
\* decided by no copy or by one that is not the last acknowledged.
THEOREM LocksAreHonoured == Spec => []LockHonoured
<1>1. IInv => LockHonoured
  BY DEF IInv
<1> QED
  BY <1>1, Invariance, PTL

\* delete_object takes the sidecars with an unversioned object, drive by drive
\* and with those of the keys nested below it: the next object of a key inherits
\* none, but from a drive that did not answer then, of a request that set one
\* meanwhile, after a death in between, or from the filesystem's version "null".
THEOREM SidecarsGoWithTheirObject == Spec => []SidecarsBelong
<1>1. IInv => SidecarsBelong
  BY DEF IInv, Swept, SidecarsBelong, Pending, Removing
<1> QED
  BY <1>1, Invariance, PTL
=============================================================================
