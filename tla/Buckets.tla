------------------------------- MODULE Buckets -------------------------------
(***************************************************************************)
(* One bucket, its configuration documents and one object of it, in the    *)
(* store the server was started with: FsStore (one directory) or           *)
(* ErasureStore (a copy on every drive, no lock, no quorum).  A request is *)
(* dispatched by method and query, checked, and then carried out one file  *)
(* system call at a time, beside another request, while drives come and go.*)
(***************************************************************************)
EXTENDS Naturals, Sequences, FiniteSets

CONSTANTS
  N,            \* drives of the erasure store
  Quorum,       \* shards a PUT needs
  Clients,
  Kinds,        \* the configuration documents in play
  MaxRequests,  \* bound: requests that arrive
  MaxFaults     \* bound: drives that go offline, and cancelled requests

ASSUME BucketsAssumption ==
  /\ N \in Nat \ {0} /\ Quorum \in 1 .. N
  /\ Kinds \subseteq {"encryption", "policy", "tagging", "versioning", "lifecycle"}
  /\ MaxRequests \in Nat /\ MaxFaults \in Nat

VARIABLES
  backend,  \* which store the server runs
  up,       \* reachable drives
  disk,     \* per drive: bucket directory, documents (0: no file), object
  req,      \* per client: the request in progress
  look,     \* per client: a deletion's look for objects, before it changes anything
  spent,    \* requests and faults so far
  truth,    \* what the last acknowledged request made of each thing
  stale,    \* per thing: drives that missed the last acknowledged write of it
  torn      \* things whose requests overlapped or were cut off

vars == <<backend, up, disk, req, look, spent, truth, stale, torn>>

Things == Kinds \cup {"dir", "object"}
Docs == 0 .. 2   \* 0 is no document; for versioning 1 is Suspended, 2 Enabled

Idle == [op |-> "idle", kind |-> "dir", doc |-> 0, plan |-> <<>>,
         took |-> {}, missed |-> {}, clash |-> {}]

NoLook == [phase |-> "none", left |-> {}, saw |-> FALSE, blind |-> {}, met |-> {}]

Blank == [dir |-> FALSE, cfg |-> [k \in Kinds |-> 0], object |-> FALSE]

Slots == IF backend = "fs" THEN {1} ELSE 1 .. N

Init ==
  /\ backend \in {"fs", "erasure"}
  /\ up = 1 .. N
  /\ disk = [d \in 1 .. N |-> Blank]
  /\ req = [c \in Clients |-> Idle] /\ look = [c \in Clients |-> NoLook]
  /\ spent = [requests |-> 0, faults |-> 0]
  /\ truth = [t \in Things |-> 0]
  /\ stale = [t \in Things |-> {}]
  /\ torn = {}

-----------------------------------------------------------------------------
(* Reads, as the drives in A answer.                                        *)

First(A) == CHOOSE d \in A : \A e \in A : d <= e

\* meta_stat_any and head_bucket: some drive has the directory.
HeadBucket(A) == \E d \in A : disk[d].dir

\* list_buckets: the first drive that answers decides.
ListBuckets(A) == disk[First(A)].dir

\* meta_read_any: the first drive that has the file.
ReadAny(A, k) ==
  LET having == {d \in A : disk[d].cfg[k] # 0} IN
  IF having = {} THEN 0 ELSE disk[First(having)].cfg[k]

\* Mutant of MostProtective: the first drive that has a status decides.
MostProtectiveFirst(A) == ReadAny(A, "versioning")

\* ErasureStore::get_bucket_versioning: the highest rank any drive reports.
MostProtective(A) ==
  LET ranks == {disk[d].cfg["versioning"] : d \in A} IN
  CHOOSE r \in ranks : \A s \in ranks : s <= r

\* read_bucket_cfg of the filesystem store: the one file.
ReadFs(k) == disk[1].cfg[k]

ReadDoc(A, k) ==
  IF backend = "fs" THEN ReadFs(k)
  ELSE IF k = "versioning" THEN MostProtective(A) ELSE ReadAny(A, k)

-----------------------------------------------------------------------------
(* Handlers: which operation a method and a query parameter select.         *)

\* create_bucket: the sub-resources of PUT, object-lock accepted and dropped.
PutOp(query) ==
  CASE query \in Kinds -> "set"
    [] query = "object-lock" -> "none"
    [] OTHER -> "create"

\* delete_bucket: versioning and object-lock are no sub-resources of DELETE.
DeleteOp(query) ==
  IF query \in Kinds \ {"versioning"} THEN "unset" ELSE "delete"

\* The PUT ?encryption and PUT ?policy handlers: encryption must parse.
AcceptedSse(kind, body) == kind = "policy" \/ body # "malformed"

\* The PUT ?tagging, ?versioning and ?lifecycle handlers: all must parse, and
\* a versioning document without a status is stored as an empty status.
AcceptedOther(kind, body) == body # "malformed"

Accepted(kind, body) ==
  IF kind \in {"encryption", "policy"} THEN AcceptedSse(kind, body)
  ELSE AcceptedOther(kind, body)

Stored(kind, body) ==
  CASE body = "first" -> 1
    [] body = "second" -> 2
    [] OTHER -> IF kind = "versioning" THEN 0 ELSE 1

-----------------------------------------------------------------------------
(* The calls a request makes, in order: <<drive, call>>.                    *)

\* fs.rs, create_bucket and delete_bucket; side trees go after the payloads.
FsBucketPlan(op) ==
  IF op = "create" THEN << <<1, "mkdir">> >>
  ELSE << <<1, "rmdir">>, <<1, "rmcfg">> >>

\* fs.rs, the set_ and delete_ methods of the bucket documents.
FsConfigPlan(op) == << <<1, IF op = "set" THEN "write" ELSE "remove">> >>

\* store.rs, create_bucket and delete_bucket: drive after drive.
ErasureBucketPlan(op) ==
  IF op = "create" THEN [d \in 1 .. N |-> <<d, "mkdir">>]
  ELSE [i \in 1 .. 2 * N |-> <<(i + 1) \div 2, IF i % 2 = 1 THEN "rmdir" ELSE "rmcfg">>]

\* Mutant of ErasureConfigPlan: a document is removed from the first drive only.
ErasureConfigPlanFirst(op) ==
  IF op = "set" THEN [d \in 1 .. N |-> <<d, "write">>] ELSE << <<1, "remove">> >>

\* store.rs, meta_write_all and meta_del_all under the set_ and delete_ methods.
ErasureConfigPlan(op) ==
  [d \in 1 .. N |-> <<d, IF op = "set" THEN "write" ELSE "remove">>]

\* A PUT of the object: its shard and metadata on each drive, in some order
\* that does not matter here; making them makes the bucket directory too.
PutPlan == IF backend = "fs" THEN << <<1, "shard">> >>
           ELSE [d \in 1 .. N |-> <<d, "shard">>]

Plan(op) ==
  CASE op \in {"create", "delete"} ->
         IF backend = "fs" THEN FsBucketPlan(op) ELSE ErasureBucketPlan(op)
    [] op \in {"set", "unset"} ->
         IF backend = "fs" THEN FsConfigPlan(op) ELSE ErasureConfigPlan(op)
    [] op = "put" -> PutPlan

\* What one call leaves on the drive it reaches.
Called(x, call, r) ==
  CASE call = "mkdir" -> [x EXCEPT !.dir = TRUE]
    [] call = "write" -> [x EXCEPT !.cfg[r.kind] = r.doc]
    [] call = "remove" -> [x EXCEPT !.cfg[r.kind] = 0]
    [] call = "rmdir" -> [x EXCEPT !.dir = FALSE, !.object = FALSE]
    [] call = "rmcfg" -> [x EXCEPT !.cfg = Blank.cfg]
    [] call = "shard" -> [x EXCEPT !.dir = TRUE, !.object = TRUE]

\* What an operation may change, and what it makes of each when acknowledged.
\* An object still owed when its bucket is deleted is owed after it, unless its
\* own PUT was cut into.
Affects(op, kind) ==
  CASE op \in {"set", "unset"} -> {kind}
    [] op = "create" -> {"dir"}
    [] op = "put" -> {"dir", "object"}
    [] op = "delete" -> Things
    [] OTHER -> {}

Outcome(r) ==
  [t \in Things |->
     IF t \notin Affects(r.op, r.kind) THEN truth[t]
     ELSE CASE r.op \in {"set", "unset"} -> r.doc
            [] r.op \in {"create", "put"} -> 1
            [] OTHER -> IF t = "object" /\ t \notin torn \cup r.clash THEN truth[t] ELSE 0]

-----------------------------------------------------------------------------
\* The check an operation makes before it changes anything.
FsMayProceed(op) ==
  CASE op = "create" -> ~HeadBucket({1})
    [] op = "delete" -> HeadBucket({1}) /\ ~disk[1].object
    [] OTHER -> HeadBucket({1})

\* (The drives are asked one after another for the directory too; missing it only
\* refuses a request, or makes a directory that is there again.)
ErasureMayProceed(op) ==
  CASE op = "create" -> ~HeadBucket(up)
    [] op = "unset" -> TRUE
    [] OTHER -> HeadBucket(up)

MayProceed(op) ==
  IF backend = "fs" THEN FsMayProceed(op) ELSE ErasureMayProceed(op)

\* A request begins to change things, and every request in progress with it: looks
\* remember what has changed beside them.
Admit(c, op, kind, doc) ==
  LET clash(e) == Affects(op, kind) \cap Affects(req[e].op, req[e].kind) IN
  /\ req[c] = Idle
  /\ req' = [e \in Clients |->
               IF e = c
               THEN [Idle EXCEPT !.op = op, !.kind = kind, !.doc = doc, !.plan = Plan(op),
                                 !.clash = UNION {clash(f) : f \in Clients \ {c}}]
               ELSE [req[e] EXCEPT !.clash = @ \cup clash(e)]]
  /\ look' = [e \in Clients |->
                IF e = c \/ look[e].phase = "none" THEN NoLook
                ELSE [look[e] EXCEPT !.met = @ \cup Affects(op, kind)]]

\* A request arrives, is dispatched, and passes its check or is refused.
NewRequest(c) ==
  /\ req[c] = Idle /\ look[c].phase = "none"
  /\ spent.requests < MaxRequests
  /\ spent' = [spent EXCEPT !.requests = @ + 1]
  /\ UNCHANGED <<backend, up, disk, truth, stale, torn>>

Arrive(c, op, kind, doc) ==
  /\ NewRequest(c)
  /\ op \in {"create", "set", "unset", "put", "delete"}
  /\ IF MayProceed(op) THEN Admit(c, op, kind, doc) ELSE UNCHANGED <<req, look>>

\* The erasure store's delete_bucket looks for objects first, drive after drive: a
\* walk over each, and when it saw one, the drives again for its metadata.
BeginLook(c) ==
  /\ NewRequest(c)
  /\ look' = IF HeadBucket(up)
             THEN [look EXCEPT ![c] =
                     [NoLook EXCEPT !.phase = "walk", !.left = 1 .. N,
                                    !.met = UNION {Affects(req[e].op, req[e].kind) : e \in Clients}]]
             ELSE look
  /\ UNCHANGED req

\* Mutant of Shows: only the first drive is looked at.
ShowsFirst(d) == d = 1 /\ disk[d].object

\* Drive d, when it answers, shows the object.
Shows(d) == d \in up /\ disk[d].object

Look(c) ==
  LET l == look[c]
      d == First(l.left)
      next == [l EXCEPT !.left = @ \ {d}, !.saw = @ \/ Shows(d),
                        !.blind = IF d \in up THEN @ ELSE @ \cup {d}] IN
  /\ l.phase # "none" /\ l.left # {}
  /\ look' = [look EXCEPT ![c] = IF l.phase = "load" /\ Shows(d) THEN NoLook ELSE next]
  /\ UNCHANGED <<backend, up, disk, req, spent, truth, stale, torn>>

\* Each drive has been looked at: the look turns to the metadata, or the deletion
\* takes what is there, unseen what was changed beside the look.
Looked(c) ==
  /\ look[c].phase # "none" /\ look[c].left = {}
  /\ IF look[c].phase = "walk" /\ look[c].saw
     THEN /\ look' = [look EXCEPT ![c].phase = "load", ![c].left = 1 .. N]
          /\ UNCHANGED <<req, torn>>
     ELSE Admit(c, "delete", "dir", 0) /\ torn' = torn \cup look[c].met
  /\ UNCHANGED <<backend, up, disk, spent, truth, stale>>

PutRequest(c) ==
  \E query \in Kinds \cup {"", "object-lock"}, body \in {"malformed", "empty", "first", "second"} :
    /\ query \in Kinds => Accepted(query, body)
    /\ query \notin Kinds => body = "empty"
    /\ IF query \in Kinds THEN Arrive(c, PutOp(query), query, Stored(query, body))
       ELSE Arrive(c, PutOp(query), "dir", 0)

DeleteRequest(c) ==
  \E query \in Kinds \cup {"", "object-lock"} :
    IF DeleteOp(query) = "delete" /\ backend = "erasure" THEN BeginLook(c)
    ELSE Arrive(c, DeleteOp(query), IF DeleteOp(query) = "unset" THEN query ELSE "dir", 0)

PutObject(c) == truth["object"] = 0 /\ Arrive(c, "put", "dir", 0)

\* The next call of a request, on a drive that answers or does not.
Call(c) ==
  LET r == req[c]
      d == Head(r.plan)[1] IN
  /\ r.plan # <<>>
  /\ disk' = IF d \in up THEN [disk EXCEPT ![d] = Called(@, Head(r.plan)[2], r)] ELSE disk
  /\ req' = [req EXCEPT ![c].plan = Tail(@),
                        ![c].took = IF d \in up THEN @ \cup {d} ELSE @,
                        ![c].missed = IF d \in up THEN @ ELSE @ \cup {d}]
  /\ UNCHANGED <<backend, up, look, spent, truth, stale, torn>>

\* Enough drives took it: one for a document or a directory, a quorum for a PUT.
Enough(r) ==
  CASE r.op \in {"create", "set"} -> r.took # {}
    [] r.op = "put" -> backend = "fs" \/ Cardinality(r.took) >= Quorum
    [] OTHER -> TRUE

\* The last call is done: acknowledge, or report the failure; a PUT without its
\* quorum removes what it wrote.
Answer(c) ==
  LET r == req[c]
      affected == Affects(r.op, r.kind) IN
  /\ r.op # "idle" /\ r.plan = <<>>
  /\ req' = [req EXCEPT ![c] = Idle]
  /\ IF Enough(r)
     THEN /\ truth' = Outcome(r)
          /\ stale' = [t \in Things |->
                         IF t \notin affected THEN stale[t]
                         ELSE IF r.op = "put" /\ t = "dir" /\ truth[t] = 1 THEN stale[t] \ r.took
                         ELSE r.missed]
          /\ torn' = (torn \ (IF r.op = "put" THEN {"object"} ELSE affected)) \cup r.clash
          /\ disk' = disk
     ELSE /\ disk' = IF r.op = "put"
                     THEN [d \in 1 .. N |-> IF d \in up THEN [disk[d] EXCEPT !.object = FALSE]
                                            ELSE disk[d]]
                     ELSE disk
          /\ torn' = IF r.took # {} THEN torn \cup affected ELSE torn
          /\ UNCHANGED <<truth, stale>>
  /\ UNCHANGED <<backend, up, look, spent>>

\* The client hangs up or the server stops: the request ends between two calls.
Cancel(c) ==
  /\ req[c].plan # <<>> \/ look[c].phase # "none"
  /\ spent.faults < MaxFaults
  /\ spent' = [spent EXCEPT !.faults = @ + 1]
  /\ torn' = IF req[c].took # {} THEN torn \cup Affects(req[c].op, req[c].kind) ELSE torn
  /\ req' = [req EXCEPT ![c] = Idle] /\ look' = [look EXCEPT ![c] = NoLook]
  /\ UNCHANGED <<backend, up, disk, truth, stale>>

DriveDown(d) ==
  /\ backend = "erasure" /\ d \in up /\ spent.faults < MaxFaults
  /\ up' = up \ {d}
  /\ spent' = [spent EXCEPT !.faults = @ + 1]
  /\ UNCHANGED <<backend, disk, req, look, truth, stale, torn>>

DriveUp(d) ==
  /\ d \notin up
  /\ up' = up \cup {d}
  /\ UNCHANGED <<backend, disk, req, look, spent, truth, stale, torn>>

Next ==
  \/ \E c \in Clients : PutRequest(c) \/ DeleteRequest(c) \/ PutObject(c)
                        \/ Look(c) \/ Looked(c) \/ Call(c) \/ Answer(c) \/ Cancel(c)
  \/ \E d \in 1 .. N : DriveDown(d) \/ DriveUp(d)

Spec == Init /\ [][Next]_vars

-----------------------------------------------------------------------------
TypeOK ==
  /\ backend \in {"fs", "erasure"} /\ up \subseteq 1 .. N
  /\ disk \in [1 .. N -> [dir : BOOLEAN, cfg : [Kinds -> Docs], object : BOOLEAN]]
  /\ truth \in [Things -> Docs] /\ stale \in [Things -> SUBSET (1 .. N)]
  /\ torn \subseteq Things
  /\ \A c \in Clients : req[c].took \cup req[c].missed \subseteq Slots
  /\ \A c \in Clients : look[c].left \cup look[c].blind \subseteq 1 .. N

\* A thing no request in progress touches, and none left half written.
Settled(t) == t \notin torn /\ \A c \in Clients : t \notin Affects(req[c].op, req[c].kind)

\* Whichever drives answer, get_bucket_policy and its siblings return what was
\* acknowledged last, as long as one of the drives took that write and those
\* that missed it hold no older copy; and when none of them missed the last
\* change of the bucket, head_bucket and list_buckets agree on whether it exists.
ReadsLastWrite ==
  \A A \in (SUBSET Slots) \ {{}} :
    /\ \A k \in Kinds :
         /\ Settled(k) /\ ~(A \subseteq stale[k])
         /\ \A d \in A \cap stale[k] : disk[d].cfg[k] = 0
         => ReadDoc(A, k) = truth[k]
    /\ Settled("dir") /\ A \cap stale["dir"] = {} =>
         HeadBucket(A) = (truth["dir"] = 1) /\ ListBuckets(A) = (truth["dir"] = 1)

\* get_bucket_versioning: once versioning is enabled, one answering drive that
\* took the write is enough for Enabled, whatever stale drives report.
VersioningFailSafe ==
  "versioning" \in Kinds /\ Settled("versioning") /\ truth["versioning"] = 2 =>
    \A A \in SUBSET Slots : A \ stale["versioning"] # {} => ReadDoc(A, "versioning") = 2

\* delete_bucket never takes an acknowledged object with it unless the two
\* requests overlapped, or as many drives as make a quorum failed one look for
\* objects: its shards stay on a quorum of drives.
DeleteSparesObjects ==
  truth["object"] = 1 /\ Settled("object") =>
    Cardinality({d \in Slots : disk[d].object}) >= (IF backend = "fs" THEN 1 ELSE Quorum)
=============================================================================
