--------------------------------- MODULE Iam ---------------------------------
(***************************************************************************)
(* The identity store: a map of users in memory, the document              *)
(* users.json that is rewritten whole, in place, after every change, and   *)
(* the KP_USERS seed that is applied over it at start-up.  Changes are made*)
(* by admin requests of the root user; they change memory under a lock, and*)
(* copy and write the document outside of it.                              *)
(***************************************************************************)
EXTENDS Naturals, FiniteSets

CONSTANTS
  Users,           \* access keys
  Buckets,
  Names,           \* policy names an administrator may use
  Fields,          \* bucket lists an administrator may send, as sets of fields
  Tasks,           \* admin requests that may be in progress at once
  MaxChanges,      \* bound: requests
  MaxFaults        \* bound: failed or cancelled writes, and crashes

ASSUME IamAssumption == MaxChanges \in Nat /\ MaxFaults \in Nat

VARIABLES
  seeded,    \* the users KP_USERS names
  users,     \* IamStore.users
  disk,      \* users.json: the map it holds, and whether it parses
  task,      \* admin requests in progress
  spent,     \* changes and faults so far
  clean,     \* the last change was persisted without another beside it
  out,       \* users whose removal or disabling was acknowledged like that
  confined   \* per user: the scope acknowledged like that ({}: none)

iamVars == <<seeded, users, disk, task, spent, clean, out, confined>>

\* A StoredUser; secret 0 stands for no entry, buckets {} for unscoped.
Absent == [secret |-> 0, policy |-> "", enabled |-> FALSE, buckets |-> {}]
\* A rotation takes a secret other than the one before it.
Secrets == {1, 2}
NewSecret(u) == IF users[u].secret = 1 THEN 2 ELSE 1

Idle == [op |-> "none", pc |-> "idle", user |-> CHOOSE u \in Users : TRUE,
         doc |-> [u \in Users |-> Absent], disable |-> FALSE, alone |-> TRUE, ok |-> TRUE]

-----------------------------------------------------------------------------
(* Policies and scopes.                                                     *)

\* Policy::from_name and name: aliases, and read-only for what is not known.
PolicyOf(name) ==
  CASE name \in {"consoleAdmin", "admin", "diagnostics"} -> "Admin"
    [] name \in {"readwrite", "readwriteadmin"} -> "ReadWrite"
    [] name = "writeonly" -> "WriteOnly"
    [] OTHER -> "ReadOnly"

\* Policy::allows.
Allows(policy, action) ==
  \/ policy = "Admin"
  \/ policy = "ReadWrite" /\ action # "Admin"
  \/ policy = "ReadOnly" /\ action = "Read"
  \/ policy = "WriteOnly" /\ action = "Write"

\* parse_bucket_list: blank fields are dropped, no name at all means unscoped.
ParseBucketList(fields) == fields \cap Buckets

\* Identity::allows_bucket; a target outside Buckets is a request on no bucket.
AllowsBucket(buckets, target) ==
  buckets = {} \/ target \notin Buckets \/ target \in buckets

-----------------------------------------------------------------------------
(* Loading and changing the map.                                            *)

SeedUser == [secret |-> 1, policy |-> "readwrite", enabled |-> TRUE, buckets |-> {}]

\* IamStore::load: a document that does not parse is no document; the seed
\* adds the users that are missing.
Load(d) ==
  [u \in Users |->
     LET stored == IF d.torn THEN Absent ELSE d.users[u] IN
     IF stored = Absent /\ u \in seeded THEN SeedUser ELSE stored]

Init ==
  /\ seeded \in SUBSET Users
  /\ disk = [torn |-> FALSE, users |-> [u \in Users |-> Absent]]
  /\ users = Load(disk)
  /\ task = [t \in Tasks |-> Idle]
  /\ spent = [changes |-> 0, faults |-> 0]
  /\ clean = TRUE /\ out = {} /\ confined = [u \in Users |-> {}]

Busy == {t \in Tasks : task[t] # Idle}

\* A change reaches memory: entry x of user u.
Change(t, op, u, x, disable) ==
  /\ task[t] = Idle /\ spent.changes < MaxChanges
  /\ spent' = [spent EXCEPT !.changes = @ + 1]
  /\ users' = [users EXCEPT ![u] = x]
  /\ task' = [s \in Tasks |->
                IF s = t THEN [Idle EXCEPT !.op = op, !.pc = "snapshot", !.user = u,
                                           !.disable = disable, !.alone = (Busy = {})]
                ELSE IF s \in Busy THEN [task[s] EXCEPT !.alone = FALSE] ELSE task[s]]
  /\ clean' = FALSE
  /\ UNCHANGED <<seeded, disk>>

\* Mutant of Added: a replaced user loses its scope.
AddedUnscoped(u, name) ==
  [secret |-> NewSecret(u), policy |-> name, enabled |-> TRUE, buckets |-> {}]

\* IamStore::add_user: a replaced user keeps its scope and is enabled.
Added(u, name) ==
  [secret |-> NewSecret(u), policy |-> name, enabled |-> TRUE, buckets |-> users[u].buckets]
\* set_status, set_policy and set_buckets of the store.
WithStatus(u, enabled) == [users[u] EXCEPT !.enabled = enabled]
WithPolicy(u, name) == [users[u] EXCEPT !.policy = name]
WithBuckets(u, bs) == [users[u] EXCEPT !.buckets = bs]

\* The handlers.  Adding a user asks for a second change when the request says
\* disabled.
AddUser(t, u, name, disable) ==
  /\ Change(t, "add", u, Added(u, name), disable)
  /\ out' = out \ {u}
  /\ UNCHANGED confined

\* remove_user: idempotent.
RemoveUser(t, u) ==
  /\ Change(t, "remove", u, Absent, FALSE)
  /\ confined' = [confined EXCEPT ![u] = {}]
  /\ UNCHANGED out

\* set_status of the admin API.
SetStatus(t, u, enabled) ==
  /\ users[u] # Absent
  /\ Change(t, IF enabled THEN "enable" ELSE "disable", u, WithStatus(u, enabled), FALSE)
  /\ out' = IF enabled THEN out \ {u} ELSE out
  /\ UNCHANGED confined

\* set_policy, from policy attach and from policy detach (the empty name).
SetPolicy(t, u, name) ==
  /\ users[u] # Absent
  /\ Change(t, "policy", u, WithPolicy(u, name), FALSE)
  /\ UNCHANGED <<out, confined>>

\* set_user_buckets: the fields are parsed, then set.
SetBuckets(t, u, fields) ==
  /\ users[u] # Absent
  /\ Change(t, "scope", u, WithBuckets(u, ParseBucketList(fields)), FALSE)
  /\ confined' = [confined EXCEPT ![u] = {}]
  /\ UNCHANGED out

-----------------------------------------------------------------------------
(* persist: copy under the read lock, then create, truncate and write.      *)

GoTo(t, pc) == task' = [task EXCEPT ![t].pc = pc]

Snapshot(t) ==
  /\ task[t].pc = "snapshot"
  /\ task' = [task EXCEPT ![t].doc = users, ![t].pc = "truncate"]
  /\ UNCHANGED <<seeded, users, disk, spent, clean, out, confined>>

Truncate(t) ==
  /\ task[t].pc = "truncate"
  /\ disk' = [disk EXCEPT !.torn = TRUE]
  /\ GoTo(t, "fill")
  /\ UNCHANGED <<seeded, users, spent, clean, out, confined>>

\* Mutant of Fill: the write does not reach the disk.
FillNothing(t) ==
  /\ task[t].pc = "fill"
  /\ disk' = [disk EXCEPT !.torn = FALSE]
  /\ GoTo(t, "answer")
  /\ UNCHANGED <<seeded, users, spent, clean, out, confined>>

\* Two writers that truncated one after the other write over each other: the
\* tail of the longer document may stay.
Fill(t) ==
  /\ task[t].pc = "fill"
  /\ \E tail \in IF disk.torn THEN {FALSE} ELSE BOOLEAN :
       disk' = [torn |-> tail, users |-> task[t].doc]
  /\ GoTo(t, "answer")
  /\ UNCHANGED <<seeded, users, spent, clean, out, confined>>

\* The directory or the file cannot be made, the write fails, or the client
\* hangs up before it: memory keeps the change.
Fail(t) ==
  /\ task[t].pc \in {"truncate", "fill"} /\ spent.faults < MaxFaults
  /\ spent' = [spent EXCEPT !.faults = @ + 1]
  /\ task' = [task EXCEPT ![t].pc = "answer", ![t].ok = FALSE, ![t].disable = FALSE]
  /\ UNCHANGED <<seeded, users, disk, clean, out, confined>>

\* The add_user handler's second change, skipped when the user is gone again;
\* its error is ignored.
DisableAdded(t) ==
  /\ task[t].pc = "answer" /\ task[t].disable
  /\ task' = [task EXCEPT ![t].pc = IF users[task[t].user] # Absent THEN "snapshot" ELSE "answer",
                          ![t].op = "disable", ![t].disable = FALSE,
                          ![t].alone = @ /\ users[task[t].user] # Absent]
  /\ users' = IF users[task[t].user] # Absent
              THEN [users EXCEPT ![task[t].user] = WithStatus(task[t].user, FALSE)] ELSE users
  /\ UNCHANGED <<seeded, disk, spent, clean, out, confined>>

\* The answer; what it promises is recorded when nothing ran beside the change.
Answer(t) ==
  LET r == task[t]
      firm == r.ok /\ r.alone IN
  /\ r.pc = "answer" /\ ~r.disable
  /\ task' = [task EXCEPT ![t] = Idle]
  /\ clean' = firm
  /\ out' = IF firm /\ r.op \in {"remove", "disable"} THEN out \cup {r.user} ELSE out
  /\ confined' = IF firm /\ r.op = "scope" THEN [confined EXCEPT ![r.user] = users[r.user].buckets]
                 ELSE confined
  /\ UNCHANGED <<seeded, users, disk, spent>>

\* The server stops at any point and starts again from the document.
Restart ==
  /\ spent.faults < MaxFaults
  /\ spent' = [spent EXCEPT !.faults = @ + 1]
  /\ users' = Load(disk)
  /\ task' = [t \in Tasks |-> Idle]
  /\ clean' = TRUE
  /\ confined' = [u \in Users |-> IF Load(disk)[u] = Absent THEN {} ELSE confined[u]]
  /\ UNCHANGED <<seeded, disk, out>>

AdminStep ==
  \E t \in Tasks :
    \/ \E u \in Users :
         \/ \E name \in Names, disable \in BOOLEAN : AddUser(t, u, name, disable)
         \/ RemoveUser(t, u)
         \/ \E enabled \in BOOLEAN : SetStatus(t, u, enabled)
         \/ \E name \in Names \cup {""} : SetPolicy(t, u, name)
         \/ \E fields \in Fields : SetBuckets(t, u, fields)
    \/ Snapshot(t) \/ Truncate(t) \/ Fill(t) \/ Fail(t) \/ DisableAdded(t) \/ Answer(t)

-----------------------------------------------------------------------------
Entry == [secret : {0} \cup Secrets, policy : Names \cup {"", "readwrite"},
          enabled : BOOLEAN, buckets : SUBSET Buckets]

IamTypeOK ==
  /\ users \in [Users -> Entry]
  /\ disk \in [torn : BOOLEAN, users : [Users -> Entry]]
  /\ seeded \cup out \subseteq Users /\ confined \in [Users -> SUBSET Buckets]
  /\ \A t \in Tasks : task[t].pc \in {"idle", "snapshot", "truncate", "fill", "answer"}

\* persist: once a change is answered that no other change ran beside, stopping
\* the server and loading users.json gives the same users as in memory, except
\* that a removed user of the KP_USERS seed is back.
RestartInvisible ==
  clean => \A u \in Users : Load(disk)[u] = users[u] \/ (u \in seeded /\ users[u] = Absent)
=============================================================================
