---------------------------- MODULE Access_proof ----------------------------
(***************************************************************************)
(* The identity store and the requests through it, for any users, buckets, *)
(* requests and faults.                                                    *)
(*                                                                         *)
(* What makes an acknowledged change firm is that nothing ran beside it:   *)
(* then no other copy of the users is on its way to users.json, and memory,*)
(* the document and the copies say the same of the user concerned, which   *)
(* every later change, copy, write and restart keeps.                      *)
(***************************************************************************)
EXTENDS Access, SequenceTheorems, FiniteSetTheorems, TLAPS

Ops == {"none", "add", "remove", "enable", "disable", "policy", "scope"}
Pcs == {"idle", "snapshot", "truncate", "fill", "answer"}
Writing == {"truncate", "fill"}

AdminTask == [op : Ops, pc : Pcs, user : Users \cup {Idle.user}, doc : [Users -> Entry],
              disable : BOOLEAN, alone : BOOLEAN, ok : BOOLEAN]

IamTypes ==
  /\ users \in [Users -> Entry]
  /\ disk \in [torn : BOOLEAN, users : [Users -> Entry]]
  /\ seeded \subseteq Users /\ out \subseteq Users /\ confined \in [Users -> SUBSET Buckets]
  /\ task \in [Tasks -> AdminTask] /\ clean \in BOOLEAN
  /\ spent \in [changes : Nat, faults : Nat]

\* A request in progress is about a user.
Underway ==
  \A t \in Tasks : /\ task[t].pc = "idle" => task[t] = Idle
                   /\ task[t].pc # "idle" => task[t].user \in Users

\* What request r stands for, while nothing runs beside it.
Firm(r, now_, d) ==
  /\ r.pc \in Writing => r.doc = now_
  /\ r.pc = "fill" => d.torn
  /\ r.pc = "answer" /\ r.ok => ~d.torn /\ d.users = now_
  /\ r.op \in {"remove", "disable"} => ~now_[r.user].enabled

Alone ==
  \A t \in Tasks : task[t].pc # "idle" /\ task[t].alone =>
    /\ \A s \in Tasks \ {t} : task[s] = Idle
    /\ Firm(task[t], users, disk)

CleanIdle == clean => \A t \in Tasks : task[t] = Idle

\* Memory, the document and every copy on its way to it say that u is out.
OutEverywhere ==
  \A u \in out \ seeded :
    /\ ~users[u].enabled /\ ~disk.users[u].enabled
    /\ \A t \in Tasks : task[t].pc \in Writing => ~task[t].doc[u].enabled

\* They agree on the scope of a confined user.
ConfinedEverywhere ==
  \A u \in Users \ seeded : confined[u] # {} =>
    /\ users[u].buckets = confined[u] /\ disk.users[u].buckets = confined[u]
    /\ \A t \in Tasks : task[t].pc \in Writing => task[t].doc[u].buckets = confined[u]

IamInv ==
  /\ IamTypes /\ Underway /\ Alone /\ CleanIdle /\ OutEverywhere /\ ConfinedEverywhere
  /\ RestartInvisible

-----------------------------------------------------------------------------
LEMMA AbsentFacts ==
  /\ Absent \in Entry /\ Absent.enabled = FALSE /\ Absent.buckets = {}
  /\ SeedUser \in Entry
BY DEF Absent, SeedUser, Entry, Secrets

LEMMA IdleFacts ==
  /\ Idle \in AdminTask /\ Idle.pc = "idle" /\ Idle.op = "none" /\ Idle.alone = TRUE
  /\ Idle.doc = [u \in Users |-> Absent]
<1>1. [u \in Users |-> Absent] \in [Users -> Entry]
  BY AbsentFacts
<1>2. /\ Idle.pc = "idle" /\ Idle.op = "none" /\ Idle.alone = TRUE /\ Idle.ok = TRUE
      /\ Idle.disable = FALSE /\ Idle.doc = [u \in Users |-> Absent]
  BY DEF Idle
<1>3. Idle \in AdminTask
  BY <1>1, <1>2 DEF AdminTask, Idle, Ops, Pcs
<1> QED
  BY <1>2, <1>3

LEMMA LoadFacts ==
  ASSUME IamTypes
  PROVE  /\ Load(disk) \in [Users -> Entry]
         /\ \A u \in Users \ seeded :
              Load(disk)[u] = IF disk.torn THEN Absent ELSE disk.users[u]
         /\ ~disk.torn => \A u \in Users :
              Load(disk)[u] = disk.users[u] \/ (u \in seeded /\ disk.users[u] = Absent)
BY AbsentFacts DEF IamTypes, Load

LEMMA IamInitial == Init => IamInv
<1> SUFFICES ASSUME Init PROVE IamInv
  OBVIOUS
<1>1. disk = [torn |-> FALSE, users |-> [u \in Users |-> Absent]]
  BY DEF Init
<1>2. /\ disk \in [torn : BOOLEAN, users : [Users -> Entry]]
      /\ \A u \in Users : disk.users[u] = Absent
  BY <1>1, AbsentFacts
<1>3. users \in [Users -> Entry] /\ users = Load(disk)
  BY <1>2, AbsentFacts DEF Init, Load
<1>4. IamTypes
  BY <1>2, <1>3, IdleFacts DEF Init, IamTypes
<1>5. Underway /\ Alone /\ CleanIdle /\ OutEverywhere
  BY IdleFacts DEF Init, Underway, Alone, CleanIdle, OutEverywhere
<1>6. ConfinedEverywhere /\ RestartInvisible
  BY <1>3 DEF Init, ConfinedEverywhere, RestartInvisible
<1> QED
  BY <1>4, <1>5, <1>6 DEF IamInv

-----------------------------------------------------------------------------
(* The changes.                                                             *)

\* What a change leaves of the requests.
LEMMA ChangeTasks ==
  ASSUME IamInv, NEW t \in Tasks, NEW op \in Ops, NEW u \in Users, NEW x \in Entry,
         NEW disable \in BOOLEAN, Change(t, op, u, x, disable)
  PROVE  /\ task' \in [Tasks -> AdminTask]
         /\ task'[t].pc = "snapshot" /\ task'[t].op = op /\ task'[t].user = u
         /\ task'[t].alone => \A s \in Tasks \ {t} : task'[s] = Idle
         /\ \A s \in Tasks \ {t} :
              \/ task[s] = Idle /\ task'[s] = Idle
              \/ /\ task[s] # Idle /\ ~task'[s].alone /\ task'[s].pc = task[s].pc
                 /\ task'[s].doc = task[s].doc /\ task'[s].user = task[s].user
<1> DEFINE r == [Idle EXCEPT !.op = op, !.pc = "snapshot", !.user = u,
                             !.disable = disable, !.alone = (Busy = {})]
<1>1. r.pc = "snapshot" /\ r.op = op /\ r.user = u /\ r.alone = (Busy = {})
  BY DEF Idle
<1>2. r \in AdminTask
  BY IdleFacts DEF AdminTask, Pcs
<1> HIDE DEF r
<1>3. task' = [s \in Tasks |-> IF s = t THEN r
                               ELSE IF s \in Busy THEN [task[s] EXCEPT !.alone = FALSE] ELSE task[s]]
  BY DEF Change, r
<1>4. task'[t] = r
  BY <1>3
<1>5. ASSUME NEW s \in Tasks \ {t}
      PROVE  /\ task'[s] \in AdminTask
             /\ \/ task[s] = Idle /\ task'[s] = Idle
                \/ /\ task[s] # Idle /\ ~task'[s].alone /\ task'[s].pc = task[s].pc
                   /\ task'[s].doc = task[s].doc /\ task'[s].user = task[s].user
  <2>1. task[s] \in AdminTask
    BY DEF IamInv, IamTypes
  <2>2. CASE task[s] = Idle
    BY <1>3, <2>2, IdleFacts DEF Busy
  <2>3. CASE task[s] # Idle
    <3>1. task'[s] = [task[s] EXCEPT !.alone = FALSE]
      BY <1>3, <2>3 DEF Busy
    <3> QED
      BY <2>1, <2>3, <3>1 DEF AdminTask
  <2> QED
    BY <2>2, <2>3
<1>6. Busy = {} => \A s \in Tasks \ {t} : task'[s] = Idle
  BY <1>5 DEF Busy
<1>7. task' \in [Tasks -> AdminTask]
  BY <1>2, <1>3, <1>4, <1>5
<1> QED
  BY <1>1, <1>4, <1>5, <1>6, <1>7

\* A change of user u keeps the invariant when it puts nobody back whose removal
\* is acknowledged, and widens no acknowledged scope.
LEMMA ChangeKeeps ==
  ASSUME IamInv, NEW t \in Tasks, NEW op \in Ops, NEW u \in Users, NEW x \in Entry,
         NEW disable \in BOOLEAN, Change(t, op, u, x, disable),
         op \in {"remove", "disable"} => ~x.enabled,
         out' \subseteq out, u \in out' => (~users[u].enabled => ~x.enabled),
         \/ confined' = confined /\ x.buckets = users[u].buckets
         \/ confined' = [confined EXCEPT ![u] = {}]
  PROVE  IamInv'
<1>1. /\ task' \in [Tasks -> AdminTask]
      /\ task'[t].pc = "snapshot" /\ task'[t].op = op /\ task'[t].user = u
      /\ task'[t].alone => \A s \in Tasks \ {t} : task'[s] = Idle
      /\ \A s \in Tasks \ {t} :
           \/ task[s] = Idle /\ task'[s] = Idle
           \/ /\ task[s] # Idle /\ ~task'[s].alone /\ task'[s].pc = task[s].pc
              /\ task'[s].doc = task[s].doc /\ task'[s].user = task[s].user
  BY ChangeTasks
<1>2. /\ users' = [users EXCEPT ![u] = x] /\ clean' = FALSE /\ UNCHANGED <<seeded, disk>>
      /\ spent' = [spent EXCEPT !.changes = @ + 1]
  BY DEF Change
<1>3. users'[u] = x /\ \A v \in Users \ {u} : users'[v] = users[v]
  BY <1>2 DEF IamInv, IamTypes
<1>4. IamTypes'
  <2>1. spent' \in [changes : Nat, faults : Nat]
    BY <1>2 DEF IamInv, IamTypes
  <2>2. confined' \in [Users -> SUBSET Buckets]
    BY DEF IamInv, IamTypes
  <2>3. users' \in [Users -> Entry]
    BY <1>2 DEF IamInv, IamTypes
  <2> QED
    BY <1>1, <1>2, <2>1, <2>2, <2>3 DEF IamInv, IamTypes
<1>5. Underway'
  <2> SUFFICES ASSUME NEW s \in Tasks
               PROVE  /\ task'[s].pc = "idle" => task'[s] = Idle
                      /\ task'[s].pc # "idle" => task'[s].user \in Users
    BY DEF Underway
  <2>1. CASE s = t
    BY <1>1, <2>1
  <2>2. CASE s # t
    BY <1>1, <2>2, IdleFacts DEF IamInv, Underway
  <2> QED
    BY <2>1, <2>2
<1>6. Alone'
  <2> SUFFICES ASSUME NEW s \in Tasks, task'[s].pc # "idle", task'[s].alone
               PROVE  /\ \A q \in Tasks \ {s} : task'[q] = Idle
                      /\ Firm(task'[s], users', disk')
    BY DEF Alone
  <2>1. s = t
    BY <1>1, IdleFacts
  <2> QED
    BY <1>1, <1>3, <2>1 DEF Firm, Writing
<1>7. CleanIdle' /\ RestartInvisible'
  BY <1>2 DEF CleanIdle, RestartInvisible
<1>8. \A s \in Tasks : task'[s].pc \in Writing => task[s].pc \in Writing /\ task'[s].doc = task[s].doc
  BY <1>1, IdleFacts DEF Writing
<1>9. OutEverywhere'
  <2> SUFFICES ASSUME NEW v \in out' \ seeded
               PROVE  /\ ~users'[v].enabled /\ ~disk'.users[v].enabled
                      /\ \A s \in Tasks : task'[s].pc \in Writing => ~task'[s].doc[v].enabled
    BY <1>2 DEF OutEverywhere
  <2>1. /\ ~users[v].enabled /\ ~disk.users[v].enabled /\ v \in Users
        /\ \A s \in Tasks : task[s].pc \in Writing => ~task[s].doc[v].enabled
    BY DEF IamInv, OutEverywhere, IamTypes
  <2>2. ~users'[v].enabled
    BY <1>3, <2>1
  <2> QED
    BY <1>2, <1>8, <2>1, <2>2
<1>10. ConfinedEverywhere'
  <2> SUFFICES ASSUME NEW v \in Users \ seeded, confined'[v] # {}
               PROVE  /\ users'[v].buckets = confined'[v] /\ disk'.users[v].buckets = confined'[v]
                      /\ \A s \in Tasks : task'[s].pc \in Writing => task'[s].doc[v].buckets = confined'[v]
    BY <1>2 DEF ConfinedEverywhere
  <2>1. confined'[v] = confined[v] /\ (v = u => x.buckets = users[u].buckets)
    BY DEF IamInv, IamTypes
  <2>2. /\ users[v].buckets = confined[v] /\ disk.users[v].buckets = confined[v]
        /\ \A s \in Tasks : task[s].pc \in Writing => task[s].doc[v].buckets = confined[v]
    BY <2>1 DEF IamInv, ConfinedEverywhere
  <2> QED
    BY <1>2, <1>3, <1>8, <2>1, <2>2
<1> QED
  BY <1>4, <1>5, <1>6, <1>7, <1>9, <1>10 DEF IamInv

LEMMA HandlersKeep ==
  ASSUME IamInv, NEW t \in Tasks, NEW u \in Users,
         \/ \E name \in Names, disable \in BOOLEAN : AddUser(t, u, name, disable)
         \/ RemoveUser(t, u)
         \/ \E enabled \in BOOLEAN : SetStatus(t, u, enabled)
         \/ \E name \in Names \cup {""} : SetPolicy(t, u, name)
         \/ \E fields \in Fields : SetBuckets(t, u, fields)
  PROVE  IamInv'
<1>0. users[u] \in Entry
  BY DEF IamInv, IamTypes
<1>1. ASSUME NEW name \in Names, NEW disable \in BOOLEAN, AddUser(t, u, name, disable)
      PROVE  IamInv'
  <2>1. Added(u, name) \in Entry /\ Added(u, name).buckets = users[u].buckets
    BY <1>0 DEF Added, NewSecret, Secrets, Entry
  <2>2. Change(t, "add", u, Added(u, name), disable) /\ out' = out \ {u} /\ confined' = confined
    BY <1>1 DEF AddUser
  <2>3. "add" \in Ops
    BY DEF Ops
  <2> HIDE DEF IamInv
  <2> QED
    BY <2>1, <2>2, <2>3, ChangeKeeps
<1>2. ASSUME RemoveUser(t, u) PROVE IamInv'
  <2>1. /\ Change(t, "remove", u, Absent, FALSE) /\ out' = out
        /\ confined' = [confined EXCEPT ![u] = {}]
    BY <1>2 DEF RemoveUser
  <2>2. "remove" \in Ops
    BY DEF Ops
  <2> QED
    BY <2>1, <2>2, AbsentFacts, ChangeKeeps
<1>3. ASSUME NEW enabled \in BOOLEAN, SetStatus(t, u, enabled) PROVE IamInv'
  <2>1. /\ WithStatus(u, enabled) \in Entry /\ WithStatus(u, enabled).enabled = enabled
        /\ WithStatus(u, enabled).buckets = users[u].buckets
    BY <1>0 DEF WithStatus, Entry
  <2>2. CASE enabled
    <3>1. Change(t, "enable", u, WithStatus(u, enabled), FALSE) /\ out' = out \ {u} /\ confined' = confined
      BY <1>3, <2>2 DEF SetStatus
    <3>2. "enable" \in Ops
      BY DEF Ops
    <3> QED
      BY <2>1, <3>1, <3>2, ChangeKeeps
  <2>3. CASE ~enabled
    <3>1. Change(t, "disable", u, WithStatus(u, enabled), FALSE) /\ out' = out /\ confined' = confined
      BY <1>3, <2>3 DEF SetStatus
    <3>2. "disable" \in Ops
      BY DEF Ops
    <3> QED
      BY <2>1, <2>3, <3>1, <3>2, ChangeKeeps
  <2> QED
    BY <2>2, <2>3
<1>4. ASSUME NEW name \in Names \cup {""}, SetPolicy(t, u, name) PROVE IamInv'
  <2>1. /\ WithPolicy(u, name) \in Entry /\ WithPolicy(u, name).enabled = users[u].enabled
        /\ WithPolicy(u, name).buckets = users[u].buckets
    BY <1>0 DEF WithPolicy, Entry
  <2>2. Change(t, "policy", u, WithPolicy(u, name), FALSE) /\ out' = out /\ confined' = confined
    BY <1>4 DEF SetPolicy
  <2>3. "policy" \in Ops
    BY DEF Ops
  <2> QED
    BY <2>1, <2>2, <2>3, ChangeKeeps
<1>5. ASSUME NEW fields \in Fields, SetBuckets(t, u, fields) PROVE IamInv'
  <2> DEFINE x == WithBuckets(u, ParseBucketList(fields))
  <2>1. x \in Entry /\ x.enabled = users[u].enabled
    BY <1>0 DEF WithBuckets, ParseBucketList, Entry
  <2>2. /\ Change(t, "scope", u, x, FALSE) /\ out' = out
        /\ confined' = [confined EXCEPT ![u] = {}]
    BY <1>5 DEF SetBuckets
  <2>3. "scope" \in Ops
    BY DEF Ops
  <2> HIDE DEF x
  <2> QED
    BY <2>1, <2>2, <2>3, ChangeKeeps
<1> QED
  BY <1>1, <1>2, <1>3, <1>4, <1>5

-----------------------------------------------------------------------------
(* persist, the answers and restarts.                                       *)

\* A step of the request t beside which others may run, which changes neither
\* what was promised nor any copy.
LEMMA SnapshotKeeps ==
  ASSUME IamInv, NEW t \in Tasks, Snapshot(t)
  PROVE  IamInv'
<1>1. /\ task[t].pc = "snapshot" /\ UNCHANGED <<seeded, users, disk, spent, clean, out, confined>>
      /\ task' = [task EXCEPT ![t].doc = users, ![t].pc = "truncate"]
  BY DEF Snapshot
<1>2. task[t] \in AdminTask /\ task[t] # Idle
  BY <1>1, IdleFacts DEF IamInv, IamTypes
<1>3. /\ task'[t] \in AdminTask /\ task'[t].pc = "truncate" /\ task'[t].doc = users
      /\ task'[t].op = task[t].op /\ task'[t].user = task[t].user /\ task'[t].alone = task[t].alone
  BY <1>1, <1>2 DEF IamInv, IamTypes, AdminTask, Pcs
<1>4. \A s \in Tasks \ {t} : task'[s] = task[s]
  BY <1>1 DEF IamInv, IamTypes
<1>5. task' \in [Tasks -> AdminTask]
  BY <1>1, <1>3, <1>4 DEF IamInv, IamTypes
<1>6. IamTypes'
  BY <1>1, <1>5 DEF IamInv, IamTypes
<1>7. Underway'
  BY <1>1, <1>3, <1>4 DEF IamInv, Underway
<1>8. Alone'
  <2> SUFFICES ASSUME NEW s \in Tasks, task'[s].pc # "idle", task'[s].alone
               PROVE  /\ \A q \in Tasks \ {s} : task'[q] = Idle
                      /\ Firm(task'[s], users, disk)
    BY <1>1 DEF Alone
  <2>1. s = t
    BY <1>1, <1>2, <1>4 DEF IamInv, Alone
  <2>2. (\A q \in Tasks \ {t} : task[q] = Idle) /\ Firm(task[t], users, disk)
    BY <1>1, <1>3, <2>1 DEF IamInv, Alone
  <2> QED
    BY <1>3, <1>4, <2>1, <2>2 DEF Firm
<1>9. ~clean
  BY <1>2 DEF IamInv, CleanIdle
<1>10. CleanIdle' /\ RestartInvisible'
  BY <1>1, <1>9 DEF CleanIdle, RestartInvisible
<1>a. \A s \in Tasks : task'[s].pc \in Writing =>
        task'[s].doc = users \/ (task[s].pc \in Writing /\ task'[s].doc = task[s].doc)
  BY <1>3, <1>4
<1>11. OutEverywhere'
  BY <1>1, <1>a DEF IamInv, OutEverywhere
<1>12. ConfinedEverywhere'
  BY <1>1, <1>a DEF IamInv, ConfinedEverywhere
<1> QED
  BY <1>6, <1>7, <1>8, <1>10, <1>11, <1>12 DEF IamInv

\* A step of the write of users.json.
LEMMA WriteKeeps ==
  ASSUME IamInv, NEW t \in Tasks, task[t].pc \in Writing,
         task'[t] \in AdminTask, task' = [task EXCEPT ![t] = task'[t]],
         task'[t].pc \in {"fill", "answer"},
         task'[t].op = task[t].op, task'[t].user = task[t].user, task'[t].doc = task[t].doc,
         task'[t].alone = task[t].alone,
         disk' \in [torn : BOOLEAN, users : {disk.users, task[t].doc}],
         task'[t].pc = "fill" => disk'.torn,
         task'[t].pc = "answer" /\ task'[t].ok =>
           disk'.users = task[t].doc /\ (disk.torn => ~disk'.torn) /\ task[t].pc = "fill",
         UNCHANGED <<seeded, users, clean, out, confined>>,
         spent' \in [changes : Nat, faults : Nat]
  PROVE  IamInv'
<1>1. task[t] \in AdminTask /\ task[t] # Idle /\ task[t].doc \in [Users -> Entry]
  BY IdleFacts DEF IamInv, IamTypes, Writing, AdminTask
<1>2. \A s \in Tasks \ {t} : task'[s] = task[s]
  BY DEF IamInv, IamTypes
<1>3. disk' \in [torn : BOOLEAN, users : [Users -> Entry]] /\ disk'.users \in {disk.users, task[t].doc}
  BY <1>1 DEF IamInv, IamTypes
<1>4. IamTypes'
  <2>1. task' \in [Tasks -> AdminTask]
    BY <1>2 DEF IamInv, IamTypes
  <2> QED
    BY <1>3, <2>1 DEF IamInv, IamTypes
<1>5. Underway'
  BY <1>2 DEF IamInv, Underway, Writing
<1>6. Alone'
  <2> SUFFICES ASSUME NEW s \in Tasks, task'[s].pc # "idle", task'[s].alone
               PROVE  /\ \A q \in Tasks \ {s} : task'[q] = Idle
                      /\ Firm(task'[s], users, disk')
    BY DEF Alone
  <2>1. s = t
    BY <1>1, <1>2 DEF IamInv, Alone
  <2>2. (\A q \in Tasks \ {t} : task[q] = Idle) /\ Firm(task[t], users, disk)
    BY <2>1 DEF IamInv, Alone, Writing
  <2>3. task[t].doc = users
    BY <2>2 DEF Firm
  <2>4. task[t].pc = "fill" => disk.torn
    BY <2>2 DEF Firm
  <2>5. Firm(task'[t], users, disk')
    BY <2>2, <2>3, <2>4 DEF Firm, Writing
  <2> QED
    BY <1>2, <2>1, <2>2, <2>5
<1>7. CleanIdle' /\ RestartInvisible'
  <2>1. ~clean
    BY <1>1 DEF IamInv, CleanIdle
  <2> QED
    BY <2>1 DEF CleanIdle, RestartInvisible
<1>8. \A s \in Tasks : task'[s].pc \in Writing => task[s].pc \in Writing /\ task'[s].doc = task[s].doc
  BY <1>2
<1>9. OutEverywhere'
  BY <1>3, <1>8 DEF IamInv, OutEverywhere
<1>10. ConfinedEverywhere'
  BY <1>3, <1>8 DEF IamInv, ConfinedEverywhere
<1> QED
  BY <1>4, <1>5, <1>6, <1>7, <1>9, <1>10 DEF IamInv

LEMMA PersistKeeps ==
  ASSUME IamInv, NEW t \in Tasks, Truncate(t) \/ Fill(t) \/ Fail(t)
  PROVE  IamInv'
<1>1. /\ task[t] \in AdminTask /\ disk \in [torn : BOOLEAN, users : [Users -> Entry]]
      /\ spent \in [changes : Nat, faults : Nat]
  BY DEF IamInv, IamTypes
<1>2. CASE Truncate(t)
  <2>1. /\ task[t].pc = "truncate" /\ disk' = [disk EXCEPT !.torn = TRUE] /\ GoTo(t, "fill")
        /\ UNCHANGED <<seeded, users, spent, clean, out, confined>>
    BY <1>2 DEF Truncate
  <2>2. /\ task'[t] \in AdminTask /\ task'[t].pc = "fill" /\ task' = [task EXCEPT ![t] = task'[t]]
        /\ task'[t].op = task[t].op /\ task'[t].user = task[t].user /\ task'[t].doc = task[t].doc
        /\ task'[t].alone = task[t].alone
    BY <1>1, <2>1 DEF GoTo, IamInv, IamTypes, AdminTask, Pcs
  <2>3. disk' \in [torn : BOOLEAN, users : {disk.users, task[t].doc}] /\ disk'.torn
    BY <1>1, <2>1
  <2> QED
    BY <1>1, <2>1, <2>2, <2>3, WriteKeeps DEF Writing
<1>3. CASE Fill(t)
  <2>1. /\ task[t].pc = "fill" /\ GoTo(t, "answer")
        /\ UNCHANGED <<seeded, users, spent, clean, out, confined>>
    BY <1>3 DEF Fill
  <2> PICK tail \in IF disk.torn THEN {FALSE} ELSE BOOLEAN :
             disk' = [torn |-> tail, users |-> task[t].doc]
    BY <1>3 DEF Fill
  <2>2. /\ task'[t] \in AdminTask /\ task'[t].pc = "answer" /\ task' = [task EXCEPT ![t] = task'[t]]
        /\ task'[t].op = task[t].op /\ task'[t].user = task[t].user /\ task'[t].doc = task[t].doc
        /\ task'[t].alone = task[t].alone
    BY <1>1, <2>1 DEF GoTo, IamInv, IamTypes, AdminTask, Pcs
  <2>3. /\ disk' \in [torn : BOOLEAN, users : {disk.users, task[t].doc}]
        /\ disk'.users = task[t].doc /\ (disk.torn => ~disk'.torn)
    OBVIOUS
  <2> QED
    BY <1>1, <2>1, <2>2, <2>3, WriteKeeps DEF Writing
<1>4. CASE Fail(t)
  <2>1. /\ task[t].pc \in Writing /\ spent' = [spent EXCEPT !.faults = @ + 1]
        /\ task' = [task EXCEPT ![t].pc = "answer", ![t].ok = FALSE, ![t].disable = FALSE]
        /\ UNCHANGED <<seeded, users, disk, clean, out, confined>>
    BY <1>4 DEF Fail, Writing
  <2>2. /\ task'[t] \in AdminTask /\ task'[t].pc = "answer" /\ ~task'[t].ok
        /\ task'[t].op = task[t].op /\ task'[t].user = task[t].user /\ task'[t].doc = task[t].doc
        /\ task'[t].alone = task[t].alone
    BY <1>1, <2>1 DEF IamInv, IamTypes, AdminTask, Pcs
  <2>3. task' = [task EXCEPT ![t] = task'[t]]
    BY <2>1 DEF IamInv, IamTypes
  <2>4. disk' \in [torn : BOOLEAN, users : {disk.users, task[t].doc}]
    BY <1>1, <2>1
  <2>5. spent' \in [changes : Nat, faults : Nat]
    BY <1>1, <2>1
  <2> QED
    BY <2>1, <2>2, <2>3, <2>4, <2>5, WriteKeeps
<1> QED
  BY <1>2, <1>3, <1>4

LEMMA DisableAddedKeeps ==
  ASSUME IamInv, NEW t \in Tasks, DisableAdded(t)
  PROVE  IamInv'
<1>1. /\ task[t].pc = "answer" /\ UNCHANGED <<seeded, disk, spent, clean, out, confined>>
      /\ task[t] \in AdminTask /\ task[t] # Idle
  BY IdleFacts DEF DisableAdded, IamInv, IamTypes
<1>2. task[t].user \in Users
  BY <1>1 DEF IamInv, Underway
<1> PICK u \in Users : u = task[t].user
  BY <1>2
<1>3. users[u] \in Entry
  BY DEF IamInv, IamTypes
<1>4. /\ users' \in [Users -> Entry]
      /\ \A v \in Users : /\ users'[v].buckets = users[v].buckets
                          /\ ~users[v].enabled => ~users'[v].enabled
      /\ users[u] # Absent => ~users'[u].enabled
  <2>1. CASE users[u] # Absent
    <3>1. users' = [users EXCEPT ![u] = WithStatus(u, FALSE)]
      BY <2>1 DEF DisableAdded
    <3>2. /\ WithStatus(u, FALSE) \in Entry /\ WithStatus(u, FALSE).enabled = FALSE
          /\ WithStatus(u, FALSE).buckets = users[u].buckets
      BY <1>3 DEF WithStatus, Entry
    <3> HIDE DEF WithStatus
    <3> QED
      BY <3>1, <3>2 DEF IamInv, IamTypes
  <2>2. CASE users[u] = Absent
    <3>1. users' = users
      BY <2>2 DEF DisableAdded
    <3> QED
      BY <2>2, <3>1 DEF IamInv, IamTypes
  <2> QED
    BY <2>1, <2>2
<1>5. /\ task'[t] \in AdminTask /\ task'[t].pc \in {"snapshot", "answer"} /\ task'[t].op = "disable"
      /\ task'[t].user = u
      /\ task'[t].alone => task[t].alone /\ users[u] # Absent /\ task'[t].pc = "snapshot"
  <2>1. task' = [task EXCEPT ![t] =
                   [task[t] EXCEPT !.pc = IF users[u] # Absent THEN "snapshot" ELSE "answer",
                                   !.op = "disable", !.disable = FALSE,
                                   !.alone = task[t].alone /\ users[u] # Absent]]
    BY DEF DisableAdded, IamInv, IamTypes
  <2>2. task'[t] = [task[t] EXCEPT !.pc = IF users[u] # Absent THEN "snapshot" ELSE "answer",
                                   !.op = "disable", !.disable = FALSE,
                                   !.alone = task[t].alone /\ users[u] # Absent]
    BY <2>1 DEF IamInv, IamTypes
  <2> QED
    BY <1>1, <2>2 DEF AdminTask, Pcs, Ops
<1>6. \A s \in Tasks \ {t} : task'[s] = task[s]
  BY DEF DisableAdded, IamInv, IamTypes
<1>7. task' \in [Tasks -> AdminTask]
  BY <1>5, <1>6 DEF DisableAdded, IamInv, IamTypes
<1>8. IamTypes'
  BY <1>1, <1>4, <1>7 DEF IamInv, IamTypes
<1>9. Underway'
  BY <1>5, <1>6 DEF IamInv, Underway
<1>10. Alone'
  <2> SUFFICES ASSUME NEW s \in Tasks, task'[s].pc # "idle", task'[s].alone
               PROVE  /\ \A q \in Tasks \ {s} : task'[q] = Idle
                      /\ Firm(task'[s], users', disk)
    BY <1>1 DEF Alone
  <2>1. s = t
    BY <1>1, <1>6 DEF IamInv, Alone
  <2>2. \A q \in Tasks \ {t} : task[q] = Idle
    BY <1>1, <1>5, <2>1 DEF IamInv, Alone
  <2>3. Firm(task'[t], users', disk)
    BY <1>4, <1>5, <2>1 DEF Firm, Writing
  <2> QED
    BY <1>6, <2>1, <2>2, <2>3
<1>11. CleanIdle' /\ RestartInvisible'
  <2>1. ~clean
    BY <1>1 DEF IamInv, CleanIdle
  <2> QED
    BY <1>1, <2>1 DEF CleanIdle, RestartInvisible
<1>12. \A s \in Tasks : task'[s].pc \in Writing => task[s].pc \in Writing /\ task'[s].doc = task[s].doc
  BY <1>5, <1>6 DEF Writing
<1>13. OutEverywhere'
  BY <1>1, <1>4, <1>12 DEF IamInv, IamTypes, OutEverywhere
<1>14. ConfinedEverywhere'
  BY <1>1, <1>4, <1>12 DEF IamInv, ConfinedEverywhere
<1> QED
  BY <1>8, <1>9, <1>10, <1>11, <1>13, <1>14 DEF IamInv

\* The answer: alone, the request has made memory and the document agree.
LEMMA AnswerKeeps ==
  ASSUME IamInv, NEW t \in Tasks, Answer(t)
  PROVE  IamInv'
<1> DEFINE firm == task[t].ok /\ task[t].alone
<1>1. /\ task[t].pc = "answer" /\ UNCHANGED <<seeded, users, disk, spent>>
      /\ task' = [task EXCEPT ![t] = Idle] /\ clean' = firm
  BY DEF Answer
<1>2. task[t].user \in Users /\ task[t] \in AdminTask
  BY <1>1 DEF IamInv, IamTypes, Underway
<1> PICK u \in Users : u = task[t].user
  BY <1>2
<1>3. /\ out' = (IF firm /\ task[t].op \in {"remove", "disable"} THEN out \cup {u} ELSE out)
      /\ confined' = (IF firm /\ task[t].op = "scope"
                      THEN [confined EXCEPT ![u] = users[u].buckets] ELSE confined)
  BY DEF Answer
<1>4. task'[t] = Idle /\ \A s \in Tasks \ {t} : task'[s] = task[s]
  BY <1>1 DEF IamInv, IamTypes
<1>5. firm => /\ \A s \in Tasks : task'[s] = Idle
              /\ ~disk.torn /\ disk.users = users
              /\ task[t].op \in {"remove", "disable"} => ~users[u].enabled
  <2> SUFFICES ASSUME firm
               PROVE  /\ \A s \in Tasks : task'[s] = Idle
                      /\ ~disk.torn /\ disk.users = users
                      /\ task[t].op \in {"remove", "disable"} => ~users[u].enabled
    OBVIOUS
  <2>1. (\A s \in Tasks \ {t} : task[s] = Idle) /\ Firm(task[t], users, disk)
    BY <1>1 DEF IamInv, Alone
  <2> QED
    BY <1>1, <1>4, <2>1 DEF Firm
<1>6. IamTypes'
  <2>1. task' \in [Tasks -> AdminTask]
    BY <1>1, IdleFacts DEF IamInv, IamTypes
  <2>2. users[u].buckets \in SUBSET Buckets
    BY DEF IamInv, IamTypes, Entry
  <2>3. out' \subseteq Users /\ confined' \in [Users -> SUBSET Buckets]
    BY <1>3, <2>2 DEF IamInv, IamTypes
  <2>4. firm \in BOOLEAN
    BY <1>2 DEF AdminTask
  <2> QED
    BY <1>1, <2>1, <2>3, <2>4 DEF IamInv, IamTypes
<1>7. Underway' /\ Alone'
  BY <1>1, <1>4, IdleFacts DEF IamInv, Underway, Alone
<1>8. CleanIdle'
  BY <1>1, <1>5 DEF CleanIdle
<1>9. RestartInvisible'
  <2> SUFFICES ASSUME firm, NEW v \in Users
               PROVE  Load(disk)'[v] = users[v] \/ (v \in seeded /\ users[v] = Absent)
    BY <1>1 DEF RestartInvisible
  <2>1. Load(disk)' = Load(disk)
    BY <1>1 DEF Load
  <2> QED
    BY <1>5, <2>1, LoadFacts DEF IamInv
<1>10. \A s \in Tasks : task'[s].pc \in Writing =>
         /\ task[s].pc \in Writing /\ task'[s].doc = task[s].doc /\ ~firm
  BY <1>4, <1>5, IdleFacts DEF Writing
<1> HIDE DEF firm
<1>11. OutEverywhere'
  BY <1>1, <1>3, <1>5, <1>10 DEF IamInv, OutEverywhere
<1>12. ConfinedEverywhere'
  <2> SUFFICES ASSUME NEW v \in Users \ seeded, confined'[v] # {}
               PROVE  /\ users[v].buckets = confined'[v] /\ disk.users[v].buckets = confined'[v]
                      /\ \A s \in Tasks : task'[s].pc \in Writing => task'[s].doc[v].buckets = confined'[v]
    BY <1>1 DEF ConfinedEverywhere
  <2>1. CASE firm /\ task[t].op = "scope" /\ v = u
    BY <1>3, <1>5, <1>10, <2>1 DEF IamInv, IamTypes
  <2>2. CASE ~(firm /\ task[t].op = "scope" /\ v = u)
    <3>1. confined'[v] = confined[v]
      BY <1>3, <2>2 DEF IamInv, IamTypes
    <3> QED
      BY <1>10, <3>1 DEF IamInv, ConfinedEverywhere
  <2> QED
    BY <2>1, <2>2
<1> QED
  BY <1>6, <1>7, <1>8, <1>9, <1>11, <1>12 DEF IamInv

LEMMA RestartKeeps ==
  ASSUME IamInv, Restart
  PROVE  IamInv'
<1>1. /\ users' = Load(disk) /\ task' = [t \in Tasks |-> Idle] /\ clean' = TRUE
      /\ UNCHANGED <<seeded, disk, out>> /\ spent' = [spent EXCEPT !.faults = @ + 1]
      /\ confined' = [u \in Users |-> IF Load(disk)[u] = Absent THEN {} ELSE confined[u]]
  BY DEF Restart
<1>2. /\ Load(disk) \in [Users -> Entry]
      /\ \A u \in Users \ seeded : Load(disk)[u] = IF disk.torn THEN Absent ELSE disk.users[u]
  BY LoadFacts DEF IamInv
<1>3. IamTypes'
  <2>1. spent' \in [changes : Nat, faults : Nat]
    BY <1>1 DEF IamInv, IamTypes
  <2>2. confined' \in [Users -> SUBSET Buckets] /\ task' \in [Tasks -> AdminTask]
    BY <1>1, IdleFacts DEF IamInv, IamTypes
  <2> QED
    BY <1>1, <1>2, <2>1, <2>2 DEF IamInv, IamTypes
<1>4. Underway' /\ Alone' /\ CleanIdle'
  BY <1>1, IdleFacts DEF Underway, Alone, CleanIdle
<1>5. RestartInvisible'
  <2>1. Load(disk)' = Load(disk)
    BY <1>1 DEF Load
  <2> QED
    BY <1>1, <2>1 DEF RestartInvisible
<1>6. \A t \in Tasks : task'[t].pc \notin Writing
  BY <1>1, IdleFacts DEF Writing
<1>7. OutEverywhere'
  <2> SUFFICES ASSUME NEW u \in out \ seeded
               PROVE  ~users'[u].enabled /\ ~disk.users[u].enabled
    BY <1>1, <1>6 DEF OutEverywhere
  <2>1. ~disk.users[u].enabled /\ u \in Users
    BY DEF IamInv, IamTypes, OutEverywhere
  <2> QED
    BY <1>1, <1>2, <2>1, AbsentFacts
<1>8. ConfinedEverywhere'
  <2> SUFFICES ASSUME NEW u \in Users \ seeded, confined'[u] # {}
               PROVE  users'[u].buckets = confined'[u] /\ disk.users[u].buckets = confined'[u]
    BY <1>1, <1>6 DEF ConfinedEverywhere
  <2>1. confined'[u] = confined[u] /\ Load(disk)[u] # Absent
    BY <1>1
  <2>2. disk.users[u].buckets = confined[u]
    BY <2>1 DEF IamInv, ConfinedEverywhere
  <2> QED
    BY <1>1, <1>2, <2>1, <2>2
<1> QED
  BY <1>3, <1>4, <1>5, <1>7, <1>8 DEF IamInv

\* Requests on data leave the store alone.
LEMMA OthersKeep ==
  ASSUME IamInv, UNCHANGED otherVars, spent' \in [changes : Nat, faults : Nat]
  PROVE  IamInv'
<1>1. UNCHANGED <<seeded, users, disk, task, clean, out, confined>>
  BY DEF otherVars
<1>2. IamTypes'
  BY <1>1 DEF IamInv, IamTypes
<1>3. Underway' /\ Alone' /\ CleanIdle' /\ OutEverywhere' /\ ConfinedEverywhere'
  BY <1>1 DEF IamInv, Underway, Alone, CleanIdle, OutEverywhere, ConfinedEverywhere
<1>4. RestartInvisible'
  <2>1. Load(disk)' = Load(disk)
    BY <1>1 DEF Load
  <2> QED
    BY <1>1, <2>1 DEF IamInv, RestartInvisible
<1> QED
  BY <1>2, <1>3, <1>4 DEF IamInv

LEMMA AdminKeeps ==
  ASSUME IamInv, AdminStep
  PROVE  IamInv'
BY HandlersKeep, SnapshotKeeps, PersistKeeps, DisableAddedKeeps, AnswerKeeps DEF AdminStep

LEMMA IamStep == IamInv /\ [Next]_vars => IamInv'
<1> SUFFICES ASSUME IamInv, [Next]_vars PROVE IamInv'
  OBVIOUS
<1>0. spent \in [changes : Nat, faults : Nat]
  BY DEF IamInv, IamTypes
<1>1. CASE AdminStep
  BY <1>1, AdminKeeps
<1>2. CASE Crash
  BY <1>2, RestartKeeps DEF Crash
<1>3. CASE UNCHANGED iamVars
  BY <1>0, <1>3, OthersKeep DEF iamVars, otherVars
<1>4. CASE UNCHANGED otherVars /\ (\/ spent' = [spent EXCEPT !.changes = @ + 1]
                                   \/ spent' = [spent EXCEPT !.faults = @ + 1])
  <2>1. spent' \in [changes : Nat, faults : Nat]
    BY <1>0, <1>4
  <2> QED
    BY <1>4, <2>1, OthersKeep
<1> QED
  BY <1>1, <1>2, <1>3, <1>4
     DEF Next, vars, Request, Respond, HangUp, AssumeRole, Tick, WriteRecord, WriteRecordFails

\* The invariant of the identity store holds throughout.
THEOREM StoreInvariance == Spec => []IamInv
<1>1. InitAll => IamInv
  BY IamInitial DEF InitAll
<1> QED
  BY <1>1, IamStep, PTL DEF Spec

\* Once a change is answered that no other ran beside, users.json holds the
\* users that are in memory, but for a removed user of the seed.
THEOREM RestartsAreInvisible == Spec => []RestartInvisible
<1>1. IamInv => RestartInvisible
  BY DEF IamInv
<1> QED
  BY <1>1, StoreInvariance, PTL

\* No request is let in with the key of a user whose removal or disabling was
\* acknowledged with nothing beside it, through changes, failed writes, torn
\* documents and restarts, until the user is added or enabled again.
THEOREM RevocationHolds == Spec => []RevokedStaysOut
<1>1. IamInv => RevokedStaysOut
  <2> SUFFICES ASSUME IamInv, NEW u \in out \ seeded, NEW cred \in UserCreds(u),
                      NEW m \in {"GET", "PUT"}, NEW t \in Targets, Admitted(cred, m, t)
               PROVE  FALSE
    BY DEF RevokedStaysOut
  <2>1. cred.key = u /\ u \in Users
    BY DEF UserCreds, IamInv, IamTypes
  <2>2. Resolve(cred) = users[u]
    BY <2>1, KeysAssumption DEF Resolve
  <2>3. ~users[u].enabled
    BY DEF IamInv, OutEverywhere
  <2> QED
    BY <2>2, <2>3 DEF Admitted, Authentic, Verify, VerifyPresigned
<1> QED
  BY <1>1, StoreInvariance, PTL

\* A user confined by an acknowledged set_buckets with nothing beside it lists
\* and addresses none but the buckets named, until it is removed or scoped anew,
\* but for the two ways past the scope that auth_middleware leaves: the source
\* of a copy, and objects under a management prefix.
THEOREM ConfinementHolds == Spec => []ScopeHolds
<1>1. IamInv => ScopeHolds
  <2> SUFFICES ASSUME IamInv, NEW u \in Users \ seeded, confined[u] # {},
                      NEW cred \in UserCreds(u),
                      NEW m \in {"GET", "PUT"}, NEW t \in Targets,
                      NEW source \in Sources(m, t), Admitted(cred, m, t)
               PROVE  Sees(cred, t, source) \subseteq confined[u] \cup Shadowed \cup {source}
    BY DEF ScopeHolds
  <2>1. cred.key = u
    BY DEF UserCreds
  <2>2. Resolve(cred) = users[u]
    BY <2>1, KeysAssumption DEF Resolve
  <2>3. users[u].buckets = confined[u]
    BY DEF IamInv, ConfinedEverywhere
  <2> QED
    BY <2>2, <2>3 DEF Admitted, AllowsBucket, BucketFor, Sees, ListBuckets
<1> QED
  BY <1>1, StoreInvariance, PTL

-----------------------------------------------------------------------------
(* The access log.  Records are told apart by the number of their request;   *)
(* what is in the file and in the channel is a subsequence of the answers,   *)
(* and what is not there was lost.                                           *)

Entries == [id : 1 .. MaxChanges, who : Users \cup {"root", "temp", "nobody"},
            status : {200, 403}]

AuditTypes ==
  /\ answered \in Seq(Entries) /\ log \in Seq(Entries) /\ queue \in Seq(Entries)
  /\ running \in [Clients -> Entries \cup {Nothing}] /\ lost \subseteq Entries
  /\ \A cred \in temps : cred.key = "temp"
  /\ now \in 0 .. MaxClock

\* No two records of answered requests or requests in progress have one number.
Numbered ==
  /\ \A i \in 1 .. Len(answered) : answered[i].id <= spent.changes
  /\ \A i, j \in 1 .. Len(answered) : answered[i].id = answered[j].id => i = j
  /\ \A c \in Clients : running[c] # Nothing =>
       /\ running[c].id <= spent.changes
       /\ \A i \in 1 .. Len(answered) : answered[i].id # running[c].id
       /\ \A d \in Clients : running[d] # Nothing /\ running[d].id = running[c].id => d = c

\* The records kept are a subsequence of the answers a; the others are in l.
Recorded(kept, l, a) ==
  /\ \A i \in 1 .. Len(kept) : kept[i] \notin l /\ \E j \in 1 .. Len(a) : a[j] = kept[i]
  /\ \A e \in l : \E j \in 1 .. Len(a) : a[j] = e
  /\ \A j \in 1 .. Len(a) : a[j] \in l \/ \E i \in 1 .. Len(kept) : kept[i] = a[j]
  /\ \A i, k \in 1 .. Len(kept) : i < k =>
       \A j, m \in 1 .. Len(a) : a[j] = kept[i] /\ a[m] = kept[k] => j < m

AuditInv == IamInv /\ AuditTypes /\ Numbered /\ Recorded(log \o queue, lost, answered)

-----------------------------------------------------------------------------
\* A sequence without repetitions has as many entries as its length says.
LEMMA NoRepetitions ==
  ASSUME NEW R, NEW s \in Seq(R), \A i, j \in 1 .. Len(s) : s[i] = s[j] => i = j
  PROVE  IsFiniteSet(ToSet(s)) /\ Cardinality(ToSet(s)) = Len(s)
<1>1. Len(s) \in Nat /\ DOMAIN s = 1 .. Len(s) /\ s \in [1 .. Len(s) -> R]
  OBVIOUS
<1>2. s \in Bijection(1 .. Len(s), ToSet(s))
  BY <1>1 DEF Bijection, Injection, Surjection, ToSet, IsInjective
<1>3. ExistsBijection(1 .. Len(s), ToSet(s))
  BY <1>2 DEF ExistsBijection
<1> QED
  BY <1>1, <1>3, FS_Interval, FS_Bijection, FS_CountingElements

LEMMA ToSetOf == ASSUME NEW R, NEW s \in Seq(R) PROVE ToSet(s) = {s[i] : i \in 1 .. Len(s)}
BY LenProperties DEF ToSet

\* A subsequence of a sequence without repetitions has none.
LEMMA KeptOnce ==
  ASSUME NEW R, NEW kept \in Seq(R), NEW a \in Seq(R), NEW l, Recorded(kept, l, a)
  PROVE  \A i, k \in 1 .. Len(kept) : kept[i] = kept[k] => i = k
<1> SUFFICES ASSUME NEW i \in 1 .. Len(kept), NEW k \in 1 .. Len(kept), kept[i] = kept[k], i < k
             PROVE  FALSE
  OBVIOUS
<1>1. PICK j \in 1 .. Len(a) : a[j] = kept[i]
  BY DEF Recorded
<1>2. j < j
  BY <1>1 DEF Recorded
<1> QED
  BY <1>2

\* A new record, at the end of both.
LEMMA RecordAdded ==
  ASSUME NEW R, NEW kept \in Seq(R), NEW a \in Seq(R), NEW l, NEW e \in R,
         \A j \in 1 .. Len(a) : a[j] # e, Recorded(kept, l, a)
  PROVE  Recorded(Append(kept, e), l, Append(a, e))
<1> DEFINE k1 == Append(kept, e)
           a1 == Append(a, e)
<1>1. /\ Len(k1) = Len(kept) + 1 /\ Len(kept) \in Nat /\ k1[Len(kept) + 1] = e
      /\ \A i \in 1 .. Len(kept) : k1[i] = kept[i]
      /\ Len(a1) = Len(a) + 1 /\ Len(a) \in Nat /\ a1[Len(a) + 1] = e
      /\ \A i \in 1 .. Len(a) : a1[i] = a[i]
  OBVIOUS
<1>2. e \notin l
  BY DEF Recorded
<1>3. \A i \in 1 .. Len(kept) : kept[i] # e
  BY DEF Recorded
<1> HIDE DEF k1, a1
<1>4. ASSUME NEW i \in 1 .. Len(k1)
      PROVE  k1[i] \notin l /\ \E j \in 1 .. Len(a1) : a1[j] = k1[i]
  <2>1. CASE i \in 1 .. Len(kept)
    <3>1. PICK j \in 1 .. Len(a) : a[j] = kept[i]
      BY <2>1 DEF Recorded
    <3> QED
      BY <1>1, <2>1, <3>1 DEF Recorded
  <2>2. CASE i = Len(kept) + 1
    BY <1>1, <1>2, <2>2
  <2> QED
    BY <1>1, <2>1, <2>2
<1>5. ASSUME NEW x \in l PROVE \E j \in 1 .. Len(a1) : a1[j] = x
  <2>1. PICK j \in 1 .. Len(a) : a[j] = x
    BY DEF Recorded
  <2> QED
    BY <1>1, <2>1
<1>6. ASSUME NEW j \in 1 .. Len(a1) PROVE a1[j] \in l \/ \E i \in 1 .. Len(k1) : k1[i] = a1[j]
  <2>1. CASE j \in 1 .. Len(a)
    <3>1. a[j] \in l \/ \E i \in 1 .. Len(kept) : kept[i] = a[j]
      BY <2>1 DEF Recorded
    <3> QED
      BY <1>1, <2>1, <3>1
  <2>2. CASE j = Len(a) + 1
    BY <1>1, <2>2
  <2> QED
    BY <1>1, <2>1, <2>2
<1>7. ASSUME NEW i \in 1 .. Len(k1), NEW k \in 1 .. Len(k1), i < k,
             NEW j \in 1 .. Len(a1), NEW m \in 1 .. Len(a1), a1[j] = k1[i], a1[m] = k1[k]
      PROVE  j < m
  <2>1. i \in 1 .. Len(kept) /\ k1[i] = kept[i]
    BY <1>1, <1>7
  <2>2. j \in 1 .. Len(a) /\ a[j] = kept[i]
    BY <1>1, <1>3, <1>7, <2>1
  <2>3. CASE m \in 1 .. Len(a)
    <3>1. k \in 1 .. Len(kept) /\ a[m] = kept[k]
      BY <1>1, <1>7, <2>3
    <3> QED
      BY <1>7, <2>1, <2>2, <2>3, <3>1 DEF Recorded
  <2>4. CASE m = Len(a) + 1
    BY <1>1, <2>2, <2>4
  <2> QED
    BY <1>1, <2>3, <2>4
<1> QED
  BY <1>4, <1>5, <1>6, <1>7 DEF Recorded, k1, a1

\* The entries of kept that are not at one of the places at[1] .. at[len].
LeftOut(kept, at, len) == {kept[i] : i \in {k \in 1 .. Len(kept) : \A n \in 1 .. len : at[n] # k}}

\* Records leave: rest[i] was kept at at[i], and the others are lost.
LEMMA RecordsLost ==
  ASSUME NEW R, NEW kept \in Seq(R), NEW rest \in Seq(R), NEW a \in Seq(R), NEW l, NEW l1,
         Recorded(kept, l, a),
         NEW at \in [1 .. Len(rest) -> 1 .. Len(kept)],
         \A i, k \in 1 .. Len(rest) : i < k => at[i] < at[k],
         \A i \in 1 .. Len(rest) : rest[i] = kept[at[i]],
         l1 = l \cup LeftOut(kept, at, Len(rest))
  PROVE  Recorded(rest, l1, a)
<1>1. \A i, k \in 1 .. Len(kept) : kept[i] = kept[k] => i = k
  BY KeptOnce
<1> DEFINE Left == {k \in 1 .. Len(kept) : \A n \in 1 .. Len(rest) : at[n] # k}
<1>0. \A i \in 1 .. Len(rest) : at[i] \in 1 .. Len(kept) /\ rest[i] = kept[at[i]]
  OBVIOUS
<1>a. /\ \A e \in l1 : e \in l \/ \E k \in Left : e = kept[k]
      /\ \A e \in l : e \in l1
      /\ \A k \in Left : kept[k] \in l1
  BY DEF LeftOut
<1>2. ASSUME NEW i \in 1 .. Len(rest)
      PROVE  rest[i] \notin l1 /\ \E j \in 1 .. Len(a) : a[j] = rest[i]
  <2>1. kept[at[i]] \notin l /\ \E j \in 1 .. Len(a) : a[j] = kept[at[i]]
    BY <1>0 DEF Recorded
  <2>2. \A k \in Left : kept[k] # kept[at[i]]
    BY <1>0, <1>1
  <2> QED
    BY <1>0, <1>a, <2>1, <2>2
<1>3. ASSUME NEW e \in l1 PROVE \E j \in 1 .. Len(a) : a[j] = e
  <2>1. CASE e \in l
    BY <2>1 DEF Recorded
  <2>2. CASE \E k \in Left : e = kept[k]
    BY <2>2 DEF Recorded
  <2> QED
    BY <1>a, <2>1, <2>2
<1>4. ASSUME NEW j \in 1 .. Len(a) PROVE a[j] \in l1 \/ \E i \in 1 .. Len(rest) : rest[i] = a[j]
  <2>1. CASE a[j] \in l
    BY <1>a, <2>1
  <2>2. CASE a[j] \notin l
    <3>1. PICK k \in 1 .. Len(kept) : kept[k] = a[j]
      BY <2>2 DEF Recorded
    <3>2. CASE k \in Left
      BY <1>a, <3>1, <3>2
    <3>3. CASE k \notin Left
      <4>1. PICK n \in 1 .. Len(rest) : at[n] = k
        BY <3>3
      <4> QED
        BY <1>0, <3>1, <4>1
    <3> QED
      BY <3>2, <3>3
  <2> QED
    BY <2>1, <2>2
<1>5. ASSUME NEW i \in 1 .. Len(rest), NEW k \in 1 .. Len(rest), i < k,
             NEW j \in 1 .. Len(a), NEW m \in 1 .. Len(a), a[j] = rest[i], a[m] = rest[k]
      PROVE  j < m
  <2>1. at[i] < at[k] /\ a[j] = kept[at[i]] /\ a[m] = kept[at[k]]
    BY <1>0, <1>5
  <2> QED
    BY <1>0, <2>1 DEF Recorded
<1> QED
  BY <1>2, <1>3, <1>4, <1>5 DEF Recorded

-----------------------------------------------------------------------------
LEMMA AuditInitial == InitAll => AuditInv
<1> SUFFICES ASSUME InitAll PROVE AuditInv
  OBVIOUS
<1>1. IamInv
  BY IamInitial DEF InitAll
<1>2. AuditTypes
  BY AccessAssumption DEF InitAll, AuditTypes
<1>3. \A c \in Clients : running[c] = Nothing
  BY DEF InitAll
<1>4. Len(answered) = 0 /\ answered = <<>> /\ log = <<>> /\ queue = <<>> /\ lost = {}
  BY DEF InitAll
<1>5. Numbered
  BY <1>3, <1>4 DEF Numbered
<1>6. log \o queue \in Seq(Entries) /\ Len(log \o queue) = 0
  BY <1>4, EmptySeq, ConcatProperties
<1>7. Recorded(log \o queue, lost, answered)
  BY <1>4, <1>6 DEF Recorded
<1> QED
  BY <1>1, <1>2, <1>5, <1>7 DEF AuditInv

\* Nothing but a request takes a number.
LEMMA CountGrows ==
  ASSUME IamInv, [Next]_vars
  PROVE  spent.changes \in Nat /\ spent'.changes \in Nat /\ spent'.changes >= spent.changes
<1>1. spent \in [changes : Nat, faults : Nat]
  BY DEF IamInv, IamTypes
<1>2. \/ spent' = spent
      \/ spent' = [spent EXCEPT !.changes = @ + 1]
      \/ spent' = [spent EXCEPT !.faults = @ + 1]
  <2>1. CASE AdminStep
    <3>1. ASSUME NEW t \in Tasks, NEW op, NEW u, NEW x, NEW disable, Change(t, op, u, x, disable)
          PROVE  spent' = [spent EXCEPT !.changes = @ + 1]
      BY <3>1 DEF Change
    <3>2. ASSUME NEW t \in Tasks, NEW u \in Users,
                 \/ \E name \in Names, disable \in BOOLEAN : AddUser(t, u, name, disable)
                 \/ RemoveUser(t, u)
                 \/ \E enabled \in BOOLEAN : SetStatus(t, u, enabled)
                 \/ \E name \in Names \cup {""} : SetPolicy(t, u, name)
                 \/ \E fields \in Fields : SetBuckets(t, u, fields)
          PROVE  spent' = [spent EXCEPT !.changes = @ + 1]
      BY <3>1, <3>2 DEF AddUser, RemoveUser, SetStatus, SetPolicy, SetBuckets
    <3>3. ASSUME NEW t \in Tasks,
                 Snapshot(t) \/ Truncate(t) \/ Fill(t) \/ DisableAdded(t) \/ Answer(t)
          PROVE  spent' = spent
      BY <3>3 DEF Snapshot, Truncate, Fill, DisableAdded, Answer
    <3>4. ASSUME NEW t \in Tasks, Fail(t) PROVE spent' = [spent EXCEPT !.faults = @ + 1]
      BY <3>4 DEF Fail
    <3> QED
      BY <2>1, <3>2, <3>3, <3>4 DEF AdminStep
  <2>2. CASE ~AdminStep
    BY <2>2 DEF Next, vars, iamVars, Request, Respond, HangUp, AssumeRole, Tick, WriteRecord,
                WriteRecordFails, Crash, Restart
  <2> QED
    BY <2>1, <2>2
<1> QED
  BY <1>1, <1>2

\* No request begins, and none is answered.
LEMMA NumberedKept ==
  ASSUME IamInv, AuditTypes, Numbered, [Next]_vars, answered' = answered,
         \A c \in Clients : running'[c] \in {running[c], Nothing}
  PROVE  Numbered'
<1>1. spent.changes \in Nat /\ spent'.changes \in Nat /\ spent'.changes >= spent.changes
  BY CountGrows
<1>0. \A e \in Entries : e.id \in Nat
  BY IamAssumption DEF Entries
<1>2. \A i \in 1 .. Len(answered) : answered[i].id \in Nat
  BY <1>0, ElementOfSeq DEF AuditTypes
<1>3. \A c \in Clients : running[c] # Nothing => running[c].id \in Nat
  BY <1>0 DEF AuditTypes
<1>4. \A c \in Clients : running'[c] # Nothing => running'[c] = running[c]
  OBVIOUS
<1>5. \A i \in 1 .. Len(answered) : answered[i].id <= spent'.changes
  BY <1>1, <1>2 DEF Numbered
<1>6. \A c \in Clients : running[c] # Nothing => running[c].id <= spent'.changes
  BY <1>1, <1>3 DEF Numbered
<1> QED
  BY <1>4, <1>5, <1>6 DEF Numbered

LEMMA LogOfOne ==
  ASSUME AuditTypes
  PROVE  log \o queue \in Seq(Entries)
BY ConcatProperties DEF AuditTypes

\* An entry that is answered and put in the channel.
LEMMA LoggedKept ==
  ASSUME AuditTypes, Recorded(log \o queue, lost, answered), NEW e \in Entries,
         \A i \in 1 .. Len(answered) : answered[i] # e,
         answered' = Append(answered, e), queue' = Append(queue, e), UNCHANGED <<log, lost>>
  PROVE  /\ Recorded(log \o queue, lost, answered)'
         /\ answered' \in Seq(Entries) /\ queue' \in Seq(Entries)
<1>1. answered' \in Seq(Entries) /\ queue' \in Seq(Entries)
  BY DEF AuditTypes
<1>2. log \o Append(queue, e) = Append(log \o queue, e)
  <2>1. /\ log \in Seq(Entries) /\ queue \in Seq(Entries) /\ Append(queue, e) \in Seq(Entries)
        /\ log \o queue \in Seq(Entries) /\ Append(log \o queue, e) \in Seq(Entries)
    BY <1>1, LogOfOne DEF AuditTypes
  <2>2. log \o Append(queue, e) \in Seq(Entries)
    BY <2>1, ConcatProperties
  <2> DEFINE k == log \o queue
             k1 == log \o Append(queue, e)
  <2>3. /\ Len(log) \in Nat /\ Len(queue) \in Nat /\ Len(Append(queue, e)) = Len(queue) + 1
        /\ Len(k) = Len(log) + Len(queue) /\ Len(k1) = Len(log) + Len(queue) + 1
    BY <2>1, ConcatProperties
  <2>4. \A n \in 1 .. Len(log) + Len(queue) : k[n] = IF n <= Len(log) THEN log[n] ELSE queue[n - Len(log)]
    BY <2>1, ConcatProperties
  <2>5. \A n \in 1 .. Len(log) + Len(queue) + 1 :
          k1[n] = IF n <= Len(log) THEN log[n] ELSE Append(queue, e)[n - Len(log)]
    <3>1. \A n \in 1 .. Len(log) + Len(Append(queue, e)) :
            k1[n] = IF n <= Len(log) THEN log[n] ELSE Append(queue, e)[n - Len(log)]
      BY <2>1, ConcatProperties
    <3>2. Len(log) + Len(Append(queue, e)) = Len(log) + Len(queue) + 1
      BY <2>3
    <3> QED
      BY <3>1, <3>2
  <2>6. /\ \A n \in 1 .. Len(queue) : Append(queue, e)[n] = queue[n]
        /\ Append(queue, e)[Len(queue) + 1] = e
    BY <2>1
  <2>7. k \in Seq(Entries) /\ k1 \in Seq(Entries)
    BY <2>1, <2>2
  <2> HIDE DEF k, k1
  <2>8. /\ Len(Append(k, e)) = Len(k) + 1 /\ Append(k, e)[Len(k) + 1] = e
        /\ \A n \in 1 .. Len(k) : Append(k, e)[n] = k[n]
    BY <2>7
  <2>9. \A n \in 1 .. Len(k1) : k1[n] = Append(k, e)[n]
    <3> SUFFICES ASSUME NEW n \in 1 .. Len(k1) PROVE k1[n] = Append(k, e)[n]
      OBVIOUS
    <3>0. n \in 1 .. Len(log) + Len(queue) + 1
      BY <2>3
    <3>1. CASE n <= Len(log)
      <4>1. n \in 1 .. Len(log) + Len(queue) /\ n \in 1 .. Len(k)
        BY <2>3, <3>0, <3>1
      <4> QED
        BY <2>4, <2>5, <2>8, <3>0, <3>1, <4>1
    <3>2. CASE n > Len(log) /\ n <= Len(log) + Len(queue)
      BY <2>3, <2>4, <2>5, <2>6, <2>8, <3>2
    <3>3. CASE n = Len(log) + Len(queue) + 1
      <4>0. ~(n <= Len(log)) /\ n - Len(log) = Len(queue) + 1
        BY <2>3, <3>3
      <4>1. k1[n] = Append(queue, e)[Len(queue) + 1]
        BY <2>5, <3>0, <4>0
      <4> QED
        BY <2>3, <2>6, <2>8, <3>3, <4>1
    <3> QED
      BY <2>3, <3>1, <3>2, <3>3
  <2>10. k1 = Append(k, e)
    BY <2>3, <2>7, <2>8, <2>9, SeqEqual, AppendProperties
  <2> QED
    BY <2>10 DEF k, k1
<1>3. Recorded(Append(log \o queue, e), lost, Append(answered, e))
  BY LogOfOne, RecordAdded DEF AuditTypes
<1> QED
  BY <1>1, <1>2, <1>3

\* The steps that leave answers and records alone.
LEMMA QuietAudit ==
  ASSUME AuditInv, [Next]_vars, IamInv', UNCHANGED <<answered, queue, log, lost>>,
         \A c \in Clients : running'[c] \in {running[c], Nothing},
         running' \in [Clients -> Entries \cup {Nothing}],
         \A cred \in temps' : cred.key = "temp", now' \in 0 .. MaxClock
  PROVE  AuditInv'
<1>1. AuditTypes'
  BY DEF AuditInv, AuditTypes
<1>2. Numbered'
  BY NumberedKept DEF AuditInv
<1> QED
  BY <1>1, <1>2 DEF AuditInv

LEMMA RequestAudit ==
  ASSUME AuditInv, IamInv', NEW c \in Clients, NEW cred \in Creds, NEW method \in {"GET", "PUT"},
         NEW target \in Targets, Request(c, cred, method, target)
  PROVE  AuditInv'
<1> DEFINE e == [id |-> spent.changes + 1, who |-> IF Authentic(cred) THEN cred.key ELSE "nobody",
                 status |-> 403]
           g == [e EXCEPT !.status = 200]
<1>1. /\ running[c] = Nothing /\ spent.changes < LastRequest /\ spent' = [spent EXCEPT !.changes = @ + 1]
      /\ \/ running' = [running EXCEPT ![c] = g] /\ UNCHANGED <<answered, queue>>
         \/ answered' = Append(answered, e) /\ queue' = Append(queue, e) /\ running' = running
      /\ UNCHANGED <<now, temps, log, lost>>
  BY DEF Request, Refuse
<1>2. spent.changes \in Nat /\ spent'.changes = spent.changes + 1
  BY <1>1 DEF AuditInv, IamInv, IamTypes
<1>3. spent.changes + 1 \in 1 .. MaxChanges
  BY <1>1, <1>2, AccessAssumption, IamAssumption
<1>4. cred.key \in Users \cup {"root", "temp", "nobody"}
  <2>1. CASE cred \in temps
    BY <2>1 DEF AuditInv, AuditTypes
  <2>2. CASE \E u \in Users : cred \in UserCreds(u)
    BY <2>2 DEF UserCreds
  <2>3. CASE cred \in {[key |-> k, secret |-> 1, policy |-> "", until |-> Never] : k \in {"root", "nobody"}}
    <3>1. PICK k \in {"root", "nobody"} : cred = [key |-> k, secret |-> 1, policy |-> "", until |-> Never]
      BY <2>3
    <3>2. cred.key = k
      BY <3>1
    <3> QED
      BY <3>2
  <2>4. \/ cred \in temps
        \/ cred \in UNION {UserCreds(u) : u \in Users}
        \/ cred \in {[key |-> k, secret |-> 1, policy |-> "", until |-> Never] : k \in {"root", "nobody"}}
    BY DEF Creds
  <2> QED
    BY <2>1, <2>2, <2>3, <2>4
<1>5. e \in Entries /\ g \in Entries /\ e.id = spent.changes + 1 /\ g.id = spent.changes + 1
  BY <1>3, <1>4 DEF Entries
<1> HIDE DEF e, g
<1>6. /\ answered \in Seq(Entries) /\ running \in [Clients -> Entries \cup {Nothing}]
      /\ Len(answered) \in Nat /\ Numbered /\ AuditTypes
  BY DEF AuditInv, AuditTypes
<1>7. /\ \A x \in Entries : x.id \in Nat
      /\ \A i \in 1 .. Len(answered) : answered[i].id \in Nat /\ answered[i].id < spent.changes + 1
      /\ \A d \in Clients : running[d] # Nothing => running[d].id \in Nat /\ running[d].id < spent.changes + 1
  <2>1. \A x \in Entries : x.id \in Nat
    BY IamAssumption DEF Entries
  <2>2. /\ \A i \in 1 .. Len(answered) : answered[i].id \in Nat
        /\ \A d \in Clients : running[d] # Nothing => running[d].id \in Nat
    BY <1>6, <2>1, ElementOfSeq
  <2> QED
    BY <1>2, <1>6, <2>1, <2>2 DEF Numbered
<1>8. CASE running' = [running EXCEPT ![c] = g] /\ UNCHANGED <<answered, queue>>
  <2>1. AuditTypes'
    BY <1>1, <1>5, <1>6, <1>8 DEF AuditTypes
  <2>2. running'[c] = g /\ \A d \in Clients \ {c} : running'[d] = running[d]
    BY <1>6, <1>8
  <2>3. \A i \in 1 .. Len(answered) : answered[i].id <= spent'.changes
    BY <1>2, <1>7
  <2>4. \A d \in Clients : running'[d] # Nothing => running'[d].id <= spent'.changes
    BY <1>2, <1>5, <1>7, <2>2
  <2>5. \A d \in Clients : running'[d] # Nothing =>
          \A i \in 1 .. Len(answered) : answered[i].id # running'[d].id
    BY <1>2, <1>5, <1>6, <1>7, <2>2 DEF Numbered
  <2>6. \A d, b \in Clients : running'[d] # Nothing /\ running'[b] # Nothing
                              /\ running'[b].id = running'[d].id => b = d
    BY <1>2, <1>5, <1>6, <1>7, <2>2 DEF Numbered
  <2>7. Numbered'
    BY <1>6, <1>8, <2>3, <2>4, <2>5, <2>6 DEF Numbered
  <2> QED
    BY <1>1, <1>8, <2>1, <2>7 DEF AuditInv
<1>9. CASE answered' = Append(answered, e) /\ queue' = Append(queue, e) /\ running' = running
  <2>0. \A i \in 1 .. Len(answered) : answered[i] # e
    BY <1>2, <1>5, <1>7
  <2>1. /\ Recorded(log \o queue, lost, answered)'
        /\ answered' \in Seq(Entries) /\ queue' \in Seq(Entries)
    BY <1>1, <1>5, <1>6, <1>9, <2>0, LoggedKept DEF AuditInv
  <2>2. AuditTypes'
    BY <1>1, <1>6, <1>9, <2>1 DEF AuditTypes
  <2>3. /\ Len(answered') = Len(answered) + 1 /\ answered'[Len(answered) + 1] = e
        /\ \A i \in 1 .. Len(answered) : answered'[i] = answered[i]
    BY <1>5, <1>6, <1>9
  <2>4. \A i \in 1 .. Len(answered') : i \in 1 .. Len(answered) \/ i = Len(answered) + 1
    BY <1>6, <2>3
  <2>5. \A i \in 1 .. Len(answered') : answered'[i].id <= spent'.changes
    BY <1>2, <1>5, <1>7, <2>3, <2>4
  <2>6. \A i, j \in 1 .. Len(answered') : answered'[i].id = answered'[j].id => i = j
    BY <1>2, <1>5, <1>6, <1>7, <2>3, <2>4 DEF Numbered
  <2>7. \A d \in Clients : running'[d] # Nothing =>
          /\ running'[d].id <= spent'.changes
          /\ \A i \in 1 .. Len(answered') : answered'[i].id # running'[d].id
    BY <1>2, <1>5, <1>6, <1>7, <1>9, <2>3, <2>4 DEF Numbered
  <2>8. Numbered'
    BY <1>6, <1>9, <2>5, <2>6, <2>7 DEF Numbered
  <2> QED
    BY <2>1, <2>2, <2>8 DEF AuditInv
<1> QED
  BY <1>1, <1>8, <1>9

LEMMA RespondAudit ==
  ASSUME AuditInv, IamInv', NEW c \in Clients, Respond(c)
  PROVE  AuditInv'
<1> DEFINE e == running[c]
<1>1. /\ e # Nothing /\ answered' = Append(answered, e) /\ queue' = Append(queue, e)
      /\ running' = [running EXCEPT ![c] = Nothing] /\ UNCHANGED <<spent, now, temps, log, lost>>
  BY DEF Respond, iamVars
<1>2. /\ answered \in Seq(Entries) /\ running \in [Clients -> Entries \cup {Nothing}]
      /\ Len(answered) \in Nat /\ Numbered /\ AuditTypes
  BY DEF AuditInv, AuditTypes
<1>3. /\ e \in Entries /\ \A i \in 1 .. Len(answered) : answered[i] # e
  BY <1>1, <1>2 DEF Numbered
<1>4. /\ Recorded(log \o queue, lost, answered)'
      /\ answered' \in Seq(Entries) /\ queue' \in Seq(Entries)
  BY <1>1, <1>2, <1>3, LoggedKept DEF AuditInv
<1>5. AuditTypes'
  BY <1>1, <1>2, <1>4 DEF AuditTypes
<1>6. /\ Len(answered') = Len(answered) + 1 /\ answered'[Len(answered) + 1] = e
      /\ \A i \in 1 .. Len(answered) : answered'[i] = answered[i]
      /\ running'[c] = Nothing /\ \A d \in Clients \ {c} : running'[d] = running[d]
  BY <1>1, <1>2, <1>3
<1>7. \A i \in 1 .. Len(answered') : i \in 1 .. Len(answered) \/ i = Len(answered) + 1
  BY <1>2, <1>6
<1>8. Numbered'
  <2>1. \A i \in 1 .. Len(answered') : answered'[i].id <= spent'.changes
    BY <1>1, <1>2, <1>6, <1>7 DEF Numbered
  <2>2. \A i, j \in 1 .. Len(answered') : answered'[i].id = answered'[j].id => i = j
    BY <1>1, <1>2, <1>6, <1>7 DEF Numbered
  <2>3. \A d \in Clients : running'[d] # Nothing =>
          /\ d # c /\ running'[d] = running[d] /\ running[d].id # e.id
    BY <1>1, <1>2, <1>6 DEF Numbered
  <2>4. \A d \in Clients : running'[d] # Nothing =>
          /\ running'[d].id <= spent'.changes
          /\ \A i \in 1 .. Len(answered') : answered'[i].id # running'[d].id
    BY <1>1, <1>2, <1>6, <1>7, <2>3 DEF Numbered
  <2>5. \A d, b \in Clients : running'[d] # Nothing /\ running'[b] # Nothing
                              /\ running'[b].id = running'[d].id => b = d
    BY <1>2, <2>3 DEF Numbered
  <2> QED
    BY <2>1, <2>2, <2>4, <2>5 DEF Numbered
<1> QED
  BY <1>4, <1>5, <1>8 DEF AuditInv

\* The writer, with and without an error, and the end of the process.
LEMMA LogAudit ==
  ASSUME AuditInv, IamInv', [Next]_vars, WriteRecord \/ WriteRecordFails \/ Crash
  PROVE  AuditInv'
<1> DEFINE kept == log \o queue
<1>1. /\ log \in Seq(Entries) /\ queue \in Seq(Entries) /\ kept \in Seq(Entries)
      /\ Len(log) \in Nat /\ Len(queue) \in Nat /\ Len(kept) = Len(log) + Len(queue)
      /\ answered \in Seq(Entries)
      /\ \A i \in 1 .. Len(log) + Len(queue) :
           kept[i] = IF i <= Len(log) THEN log[i] ELSE queue[i - Len(log)]
  BY LogOfOne, ConcatProperties DEF AuditInv, AuditTypes
<1>2. Recorded(kept, lost, answered)
  BY DEF AuditInv
<1>3. /\ answered' = answered /\ \A c \in Clients : running'[c] \in {running[c], Nothing}
      /\ running' \in [Clients -> Entries \cup {Nothing}] /\ UNCHANGED <<now, temps>>
  BY DEF WriteRecord, WriteRecordFails, Crash, AuditInv, AuditTypes
<1>4. Numbered'
  BY <1>3, NumberedKept DEF AuditInv
<1>5. queue # <<>> => /\ Head(queue) = queue[1] /\ Head(queue) \in Entries /\ Tail(queue) \in Seq(Entries)
                      /\ Len(Tail(queue)) = Len(queue) - 1 /\ Len(queue) >= 1
                      /\ \A i \in 1 .. Len(Tail(queue)) : Tail(queue)[i] = queue[i + 1]
  BY <1>1
<1>6. CASE WriteRecord
  <2>1. /\ queue # <<>> /\ log' = Append(log, Head(queue)) /\ queue' = Tail(queue) /\ lost' = lost
    BY <1>6 DEF WriteRecord
  <2>2. log' \in Seq(Entries) /\ queue' \in Seq(Entries) /\ log' \o queue' = kept
    <3>1. /\ log' \in Seq(Entries) /\ queue' \in Seq(Entries)
          /\ Len(log') = Len(log) + 1 /\ log'[Len(log) + 1] = queue[1]
          /\ \A i \in 1 .. Len(log) : log'[i] = log[i]
      BY <1>1, <1>5, <2>1
    <3>2. /\ log' \o queue' \in Seq(Entries) /\ Len(log' \o queue') = Len(log') + Len(queue')
          /\ \A i \in 1 .. Len(log') + Len(queue') :
               (log' \o queue')[i] = IF i <= Len(log') THEN log'[i] ELSE queue'[i - Len(log')]
      BY <3>1, ConcatProperties
    <3>3. Len(log') + Len(queue') = Len(log) + Len(queue)
      BY <1>1, <1>5, <2>1, <3>1
    <3>4. ASSUME NEW i \in 1 .. Len(log) + Len(queue) PROVE (log' \o queue')[i] = kept[i]
      <4>1. CASE i <= Len(log)
        <5>1. i \in 1 .. Len(log) /\ i <= Len(log')
          BY <1>1, <3>1, <4>1
        <5> QED
          BY <1>1, <3>1, <3>2, <3>3, <4>1, <5>1
      <4>2. CASE i = Len(log) + 1
        <5>1. i <= Len(log') /\ ~(i <= Len(log)) /\ i - Len(log) = 1
          BY <1>1, <3>1, <4>2
        <5> QED
          BY <1>1, <3>1, <3>2, <3>3, <4>2, <5>1
      <4>3. CASE i > Len(log) + 1
        <5>1. ~(i <= Len(log')) /\ ~(i <= Len(log)) /\ i - Len(log') \in 1 .. Len(Tail(queue))
              /\ (i - Len(log')) + 1 = i - Len(log)
          BY <1>1, <1>5, <2>1, <3>1, <4>3
        <5>2. queue'[i - Len(log')] = queue[i - Len(log)]
          BY <1>5, <2>1, <5>1
        <5> QED
          BY <1>1, <3>2, <3>3, <5>1, <5>2
      <4>4. i <= Len(log) \/ i = Len(log) + 1 \/ i > Len(log) + 1
        BY <1>1
      <4> QED
        BY <4>1, <4>2, <4>3, <4>4
    <3> HIDE DEF kept
    <3> QED
      BY <1>1, <3>1, <3>2, <3>3, <3>4, SeqEqual
  <2>3. AuditTypes'
    BY <1>3, <2>1, <2>2 DEF AuditInv, AuditTypes
  <2> QED
    BY <1>2, <1>3, <1>4, <2>1, <2>2, <2>3 DEF AuditInv
<1>7. CASE WriteRecordFails
  <2>1. /\ queue # <<>> /\ lost' = lost \cup {Head(queue)} /\ queue' = Tail(queue) /\ log' = log
    BY <1>7 DEF WriteRecordFails
  <2> DEFINE rest == log \o Tail(queue)
             at == [i \in 1 .. Len(rest) |-> IF i <= Len(log) THEN i ELSE i + 1]
  <2>2. /\ rest \in Seq(Entries) /\ Len(rest) = Len(log) + Len(queue) - 1
        /\ \A i \in 1 .. Len(log) + Len(queue) - 1 :
             rest[i] = IF i <= Len(log) THEN log[i] ELSE Tail(queue)[i - Len(log)]
    <3>1. Len(log) + Len(Tail(queue)) = Len(log) + Len(queue) - 1
      BY <1>1, <1>5, <2>1
    <3> QED
      BY <1>1, <1>5, <2>1, <3>1, ConcatProperties
  <2> HIDE DEF rest
  <2>3. /\ at \in [1 .. Len(rest) -> 1 .. Len(kept)]
        /\ \A i, k \in 1 .. Len(rest) : i < k => at[i] < at[k]
    BY <1>1, <1>5, <2>1, <2>2
  <2>4. ASSUME NEW i \in 1 .. Len(rest) PROVE rest[i] = kept[at[i]]
    <3>1. CASE i <= Len(log)
      BY <1>1, <2>2, <3>1
    <3>2. CASE i > Len(log)
      <4>1. i - Len(log) \in 1 .. Len(Tail(queue)) /\ (i - Len(log)) + 1 = (i + 1) - Len(log)
            /\ i + 1 \in 1 .. Len(log) + Len(queue) /\ ~(i + 1 <= Len(log)) /\ ~(i <= Len(log))
        BY <1>1, <1>5, <2>1, <2>2, <3>2
      <4> QED
        BY <1>1, <1>5, <2>1, <2>2, <4>1
    <3> QED
      BY <1>1, <2>2, <3>1, <3>2
  <2>5. {k \in 1 .. Len(kept) : \A n \in 1 .. Len(rest) : at[n] # k} = {Len(log) + 1}
    <3>1. Len(log) + 1 \in 1 .. Len(kept) /\ \A n \in 1 .. Len(rest) : at[n] # Len(log) + 1
      BY <1>1, <1>5, <2>1, <2>2
    <3>2. ASSUME NEW k \in 1 .. Len(kept), k # Len(log) + 1
          PROVE  \E n \in 1 .. Len(rest) : at[n] = k
      <4>1. CASE k <= Len(log)
        <5>1. k \in 1 .. Len(rest) /\ at[k] = k
          BY <1>1, <1>5, <2>1, <2>2, <4>1
        <5> QED
          BY <5>1
      <4>2. CASE k > Len(log) + 1
        <5>1. k - 1 \in 1 .. Len(rest) /\ at[k - 1] = k
          BY <1>1, <1>5, <2>1, <2>2, <4>2
        <5> QED
          BY <5>1
      <4> QED
        BY <1>1, <3>2, <4>1, <4>2
    <3> HIDE DEF at
    <3> QED
      BY <3>1, <3>2
  <2>6. kept[Len(log) + 1] = Head(queue)
    BY <1>1, <1>5, <2>1
  <2> HIDE DEF at
  <2>7. lost' = lost \cup LeftOut(kept, at, Len(rest))
    BY <2>1, <2>5, <2>6 DEF LeftOut
  <2> HIDE DEF kept
  <2>a. \A i \in 1 .. Len(rest) : rest[i] = kept[at[i]]
    BY <2>4
  <2>b. rest \in Seq(Entries) /\ kept \in Seq(Entries) /\ answered \in Seq(Entries)
    BY <1>1, <2>2
  <2>8. Recorded(rest, lost', answered)
    BY <1>2, <2>3, <2>7, <2>a, <2>b, RecordsLost
  <2>9. AuditTypes'
    BY <1>3, <1>5, <2>1 DEF AuditInv, AuditTypes
  <2> QED
    BY <1>3, <1>4, <2>1, <2>8, <2>9 DEF AuditInv, rest
<1>8. CASE Crash
  <2>1. lost' = lost \cup ToSet(queue) /\ queue' = <<>> /\ log' = log
    BY <1>8 DEF Crash
  <2> DEFINE at == [i \in 1 .. Len(log) |-> i]
  <2>2. /\ at \in [1 .. Len(log) -> 1 .. Len(kept)]
        /\ \A i, k \in 1 .. Len(log) : i < k => at[i] < at[k]
        /\ \A i \in 1 .. Len(log) : log[i] = kept[at[i]]
    BY <1>1
  <2>3. {k \in 1 .. Len(kept) : \A n \in 1 .. Len(log) : at[n] # k} = Len(log) + 1 .. Len(kept)
    BY <1>1
  <2>4. ToSet(queue) = {kept[i] : i \in Len(log) + 1 .. Len(kept)}
    <3>1. ToSet(queue) = {queue[i] : i \in 1 .. Len(queue)}
      BY <1>1, ToSetOf
    <3>2. ASSUME NEW i \in 1 .. Len(queue) PROVE \E k \in Len(log) + 1 .. Len(kept) : queue[i] = kept[k]
      <4>1. i + Len(log) \in Len(log) + 1 .. Len(kept) /\ queue[i] = kept[i + Len(log)]
        BY <1>1
      <4> QED
        BY <4>1
    <3>3. ASSUME NEW k \in Len(log) + 1 .. Len(kept) PROVE \E i \in 1 .. Len(queue) : queue[i] = kept[k]
      <4>1. k - Len(log) \in 1 .. Len(queue) /\ queue[k - Len(log)] = kept[k]
        BY <1>1
      <4> QED
        BY <4>1
    <3> HIDE DEF kept
    <3>4. ASSUME NEW e \in ToSet(queue) PROVE e \in {kept[i] : i \in Len(log) + 1 .. Len(kept)}
      <4>1. PICK i \in 1 .. Len(queue) : e = queue[i]
        BY <3>1
      <4> QED
        BY <3>2, <4>1
    <3>5. ASSUME NEW e \in {kept[i] : i \in Len(log) + 1 .. Len(kept)} PROVE e \in ToSet(queue)
      <4>1. PICK k \in Len(log) + 1 .. Len(kept) : e = kept[k]
        OBVIOUS
      <4> QED
        BY <3>1, <3>3, <4>1
    <3> QED
      BY <3>4, <3>5
  <2> HIDE DEF at, kept
  <2>5. lost' = lost \cup LeftOut(kept, at, Len(log))
    BY <2>1, <2>3, <2>4 DEF LeftOut
  <2>6. Recorded(log, lost', answered)
    BY <1>1, <1>2, <2>2, <2>5, RecordsLost
  <2>7. log \o <<>> = log
    BY <1>1, ConcatEmptySeq
  <2>8. ToSet(queue) \subseteq Entries
    BY <1>1, ToSetOf, ElementOfSeq
  <2>9. AuditTypes'
    BY <1>1, <1>3, <2>1, <2>8 DEF AuditInv, AuditTypes
  <2> QED
    BY <1>3, <1>4, <2>1, <2>6, <2>7, <2>9 DEF AuditInv
<1> QED
  BY <1>6, <1>7, <1>8

LEMMA AuditStep == AuditInv /\ [Next]_vars => AuditInv'
<1> SUFFICES ASSUME AuditInv, [Next]_vars PROVE AuditInv'
  OBVIOUS
<1>0. IamInv'
  BY IamStep DEF AuditInv
<1>a. /\ running \in [Clients -> Entries \cup {Nothing}] /\ now \in 0 .. MaxClock
      /\ \A cred \in temps : cred.key = "temp"
  BY DEF AuditInv, AuditTypes
<1>1. CASE UNCHANGED reqVars
  BY <1>0, <1>1, <1>a, QuietAudit DEF reqVars
<1>2. ASSUME NEW c \in Clients, HangUp(c) PROVE AuditInv'
  BY <1>0, <1>2, <1>a, QuietAudit DEF HangUp
<1>3. ASSUME NEW groups, NEW ttl, AssumeRole(groups, ttl) PROVE AuditInv'
  BY <1>0, <1>3, <1>a, QuietAudit DEF AssumeRole
<1>4. CASE Tick
  <2>1. now' \in 0 .. MaxClock
    BY <1>4, <1>a, AccessAssumption DEF Tick
  <2> QED
    BY <1>0, <1>4, <1>a, <2>1, QuietAudit DEF Tick
<1> QED
  BY <1>0, <1>1, <1>2, <1>3, <1>4, RequestAudit, RespondAudit, LogAudit DEF Next, vars

\* The invariant of the requests and their records holds throughout.
THEOREM AuditInvariance == Spec => []AuditInv
BY AuditInitial, AuditStep, PTL DEF Spec

\* The types of users, documents, records and the clock.
THEOREM TypeCorrect == Spec => []TypeOK
<1>1. AuditInv => TypeOK
  <2> SUFFICES ASSUME AuditInv PROVE TypeOK
    OBVIOUS
  <2>1. IamTypeOK
    BY DEF AuditInv, IamInv, IamTypes, IamTypeOK, AdminTask, Pcs
  <2>2. ToSet(answered) \subseteq Entries
    BY ToSetOf, ElementOfSeq DEF AuditInv, AuditTypes
  <2> QED
    BY <2>1, <2>2 DEF AuditInv, AuditTypes, TypeOK, Entries
<1> QED
  BY <1>1, AuditInvariance, PTL

\* Every answered request has one record, in the file, in the channel or lost to
\* a fault, and the file is in the order of the answers, whichever requests run
\* beside each other and wherever the process stops.
THEOREM AuditsEveryAnswer == Spec => []AuditComplete
<1>1. AuditInv => AuditComplete
  <2> SUFFICES ASSUME AuditInv PROVE AuditComplete
    OBVIOUS
  <2> DEFINE kept == log \o queue
             Position(e) == SelectInSeq(answered, LAMBDA a : a = e)
  <2>1. /\ kept \in Seq(Entries) /\ answered \in Seq(Entries) /\ Recorded(kept, lost, answered)
        /\ Len(kept) \in Nat /\ Len(answered) \in Nat
    BY LogOfOne DEF AuditInv, AuditTypes
  <2>2. \A i, j \in 1 .. Len(answered) : answered[i] = answered[j] => i = j
    BY DEF AuditInv, Numbered
  <2>3. \A i, k \in 1 .. Len(kept) : kept[i] = kept[k] => i = k
    BY <2>1, KeptOnce
  <2> HIDE DEF kept
  <2>4. /\ ToSet(kept) = {kept[i] : i \in 1 .. Len(kept)}
        /\ ToSet(answered) = {answered[i] : i \in 1 .. Len(answered)}
    BY <2>1, ToSetOf
  <2>5. ToSet(kept) \cup lost = ToSet(answered) /\ ToSet(kept) \cap lost = {}
    <3>1. ASSUME NEW e \in ToSet(kept) PROVE e \in ToSet(answered) /\ e \notin lost
      <4>1. PICK i \in 1 .. Len(kept) : e = kept[i]
        BY <2>4
      <4> QED
        BY <2>1, <2>4, <4>1 DEF Recorded
    <3>2. ASSUME NEW e \in lost PROVE e \in ToSet(answered)
      BY <2>1, <2>4 DEF Recorded
    <3>3. ASSUME NEW e \in ToSet(answered), e \notin lost PROVE e \in ToSet(kept)
      <4>1. PICK j \in 1 .. Len(answered) : e = answered[j]
        BY <2>4
      <4> QED
        BY <2>1, <2>4, <3>3, <4>1 DEF Recorded
    <3> QED
      BY <3>1, <3>2, <3>3
  <2>6. /\ IsFiniteSet(ToSet(kept)) /\ Cardinality(ToSet(kept)) = Len(kept)
        /\ IsFiniteSet(ToSet(answered)) /\ Cardinality(ToSet(answered)) = Len(answered)
    BY <2>1, <2>2, <2>3, NoRepetitions
  <2>7. IsFiniteSet(lost)
    BY <2>5, <2>6, FS_Subset
  <2>8. Len(kept) + Cardinality(lost) = Len(answered)
    <3>0. Cardinality(ToSet(kept) \cap lost) = 0
      BY <2>5, FS_EmptySet
    <3>1. Cardinality(ToSet(kept) \cup lost)
            = Cardinality(ToSet(kept)) + Cardinality(lost) - Cardinality(ToSet(kept) \cap lost)
      BY <2>6, <2>7, FS_Union
    <3>2. Cardinality(lost) \in Nat
      BY <2>7, FS_CardinalityType
    <3>3. Len(answered) = Len(kept) + Cardinality(lost) - 0
      BY <2>5, <2>6, <3>0, <3>1
    <3> QED
      BY <2>1, <3>2, <3>3
  <2>9. ASSUME NEW i \in 1 .. Len(kept) - 1 PROVE Position(kept[i]) < Position(kept[i + 1])
    <3>0. i \in 1 .. Len(kept) /\ i + 1 \in 1 .. Len(kept) /\ i < i + 1
      BY <2>1
    <3>1. PICK j \in 1 .. Len(answered) : answered[j] = kept[i]
      BY <2>1, <3>0 DEF Recorded
    <3>2. PICK m \in 1 .. Len(answered) : answered[m] = kept[i + 1]
      BY <2>1, <3>0 DEF Recorded
    <3>3. j < m
      BY <2>1, <3>0, <3>1, <3>2 DEF Recorded
    <3>4. Position(kept[i]) = j
      <4>1. {n \in 1 .. Len(answered) : answered[n] = kept[i]} = {j}
        BY <2>2, <3>1
      <4>2. Min({j}) = j
        BY DEF Min
      <4> QED
        BY <4>1, <4>2 DEF SelectInSeq
    <3>5. Position(kept[i + 1]) = m
      <4>1. {n \in 1 .. Len(answered) : answered[n] = kept[i + 1]} = {m}
        BY <2>2, <3>2
      <4>2. Min({m}) = m
        BY DEF Min
      <4> QED
        BY <4>1, <4>2 DEF SelectInSeq
    <3> HIDE DEF Position
    <3> QED
      BY <3>3, <3>4, <3>5
  <2> QED
    BY <2>5, <2>8, <2>9 DEF AuditComplete, kept
<1> QED
  BY <1>1, AuditInvariance, PTL
=============================================================================
