--------------------------- MODULE Multipart_proof ---------------------------
(***************************************************************************)
(* Multipart uploads for any number of parts, requests and cuts: what is   *)
(* published is what was listed, once, and a finished upload is gone.      *)
(*                                                                         *)
(* None of the three is inductive.  They rest on the key's lock (one task  *)
(* past it), on bodies being told apart (a body that is still being        *)
(* uploaded is in no list, unless it was sent before), on what a part's two*)
(* files say while an upload of it is half way or a removal has failed, and*)
(* on the manifest never coming back.                                      *)
(***************************************************************************)
EXTENDS Multipart, SequenceTheorems, FiniteSetTheorems, TLAPS

Task == [op : {"free", "part", "complete", "abort", "put"},
         pc : {"none", "file", "stream", "meta", "lock", "verify", "copy", "clean",
               "remove", "write"},
         part : Parts \cup {0}, body : 0 .. MaxOps,
         list : Seq(Parts \X Bodies), got : Seq(1 .. Torn)]

Types ==
  /\ backend \in {"fs", "erasure"}
  /\ staged \in [dir : BOOLEAN, manifest : BOOLEAN,
                 file : [Parts -> 0 .. Torn], meta : [Parts -> 0 .. MaxOps]]
  /\ object \in Seq(1 .. Torn)
  /\ task \in [Tasks -> Task]
  /\ holder \subseteq Tasks
  /\ spent \in [ops : 0 .. MaxOps, cuts : 0 .. MaxCuts]
  /\ acked \subseteq (Parts \X Bodies)
  /\ mixed \subseteq Parts /\ retried \subseteq Parts
  /\ published \in Nat /\ cut \in Nat
  /\ littered \in BOOLEAN /\ ended \in BOOLEAN /\ faithful \in BOOLEAN

\* What a request of each kind has at each of its steps.
Shaped(r, ops, uploads) ==
  /\ r.op # "complete" => r.list = <<>>
  /\ r.op = "free" => r = Free
  /\ r.op = "part" => /\ r.pc \in {"file", "stream", "meta"} /\ r.part \in Parts
                      /\ r.body \in 1 .. ops
  /\ r.op = "put" => r.pc \in {"lock", "write"} /\ r.body \in 1 .. ops
  /\ r.op = "abort" => r.pc = "remove"
  /\ r.op = "complete" =>
       /\ r.pc \in {"lock", "verify", "copy", "clean"}
       /\ r.list # <<>> /\ Len(r.got) <= Len(r.list)
       /\ \A i \in 1 .. Len(r.list) : r.list[i] \in uploads
       /\ r.pc = "lock" => r.got = <<>>
       /\ r.pc = "copy" => Len(r.got) < Len(r.list)
  /\ r.op # "free" => ops > 0

Shapes == \A t \in Tasks : Shaped(task[t], spent.ops, acked)

\* One task is past the key's lock.
Locked == \A t \in Tasks : task[t].pc \in {"verify", "copy", "clean", "write"} => holder = {t}

\* At most one task holds the lock.
OneHolder == \A t, u \in holder : t = u

\* A body that is being uploaded has not been acknowledged, and is no other's,
\* unless a part was sent again.
FreshBodies ==
  /\ \A a \in acked : a[2] <= spent.ops
  /\ \A t \in Tasks : task[t].op = "part" /\ task[t].part \notin retried =>
       /\ \A a \in acked : a[1] = task[t].part => a[2] # task[t].body
       /\ \A u \in Tasks : u # t /\ task[u].op = "part" /\ task[u].part = task[t].part
                             => task[u].body # task[t].body

\* Nothing is staged without the directory, and a removed upload stays so.
Staging ==
  /\ ~staged.dir => staged = Empty
  /\ spent.ops = 0 => ~ended /\ published = 0
  /\ ended => ~staged.manifest /\ (backend = "erasure" => ~staged.dir)

Base == Types /\ Shapes /\ Locked /\ OneHolder /\ FreshBodies /\ Staging

-----------------------------------------------------------------------------
LEMMA FreeFacts ==
  /\ Free \in Task /\ Free.op = "free" /\ Free.pc = "none" /\ Free.list = <<>>
  /\ Free.got = <<>> /\ Free.part = 0 /\ Free.body = 0
BY MultipartAssumption DEF Free, Task, Torn, Bodies

LEMMA EmptyFacts ==
  /\ Empty \in [dir : BOOLEAN, manifest : BOOLEAN,
                file : [Parts -> 0 .. Torn], meta : [Parts -> 0 .. MaxOps]]
  /\ ~Empty.dir /\ ~Empty.manifest
  /\ \A p \in Parts : Empty.file[p] = 0 /\ Empty.meta[p] = 0
BY MultipartAssumption DEF Empty, Torn

\* A list a client may send is not empty and names acknowledged uploads.
LEMMA ListFacts ==
  ASSUME Types, NEW list \in Lists
  PROVE  /\ list \in Seq(Parts \X Bodies) /\ list # <<>>
         /\ \A i \in 1 .. Len(list) : list[i] \in acked
<1>1. CASE \E a \in acked : list = <<a>>
  BY <1>1 DEF Types
<1>2. CASE \E a, b \in acked : list = <<a, b>>
  BY <1>2 DEF Types
<1> QED
  BY <1>1, <1>2 DEF Lists

LEMMA BaseInit == Init => Base
<1> SUFFICES ASSUME Init PROVE Base
  OBVIOUS
<1>1. Types
  <2>1. [ops |-> 0, cuts |-> 0] \in [ops : 0 .. MaxOps, cuts : 0 .. MaxCuts]
    BY MultipartAssumption
  <2>2. task \in [Tasks -> Task]
    BY FreeFacts DEF Init
  <2>3. object \in Seq(1 .. Torn)
    BY DEF Init
  <2>4. staged \in [dir : BOOLEAN, manifest : BOOLEAN,
                    file : [Parts -> 0 .. Torn], meta : [Parts -> 0 .. MaxOps]]
    BY EmptyFacts DEF Init
  <2> QED
    BY <2>1, <2>2, <2>3, <2>4 DEF Init, Types
<1>2. Shapes
  BY FreeFacts DEF Init, Shapes, Shaped
<1>3. Locked /\ OneHolder /\ FreshBodies
  BY FreeFacts DEF Init, Locked, OneHolder, FreshBodies
<1>4. Staging
  BY EmptyFacts DEF Init, Staging
<1> QED
  BY <1>1, <1>2, <1>3, <1>4 DEF Base

-----------------------------------------------------------------------------
\* What changing one task to r asks of the invariant.
LEMMA TaskChange ==
  ASSUME Base, NEW t \in Tasks, NEW r \in Task,
         task' = [task EXCEPT ![t] = r],
         spent'.ops \in Nat, spent'.ops >= spent.ops, acked \subseteq acked',
         Shaped(r, spent'.ops, acked')
  PROVE  /\ task' \in [Tasks -> Task] /\ Shapes'
         /\ task'[t] = r /\ \A u \in Tasks \ {t} : task'[u] = task[u]
<1>1. /\ task' \in [Tasks -> Task]
      /\ task'[t] = r /\ \A u \in Tasks \ {t} : task'[u] = task[u]
  BY DEF Base, Types
<1>2. ASSUME NEW u \in Tasks PROVE Shaped(task'[u], spent'.ops, acked')
  <2>1. CASE u = t
    BY <1>1, <2>1
  <2>2. CASE u # t
    <3>1. task'[u] = task[u] /\ Shaped(task[u], spent.ops, acked)
      BY <1>1, <2>2 DEF Base, Shapes
    <3>2. spent.ops \in Nat
      BY DEF Base, Types
    <3> QED
      BY <3>1, <3>2 DEF Shaped
  <2> QED
    BY <2>1, <2>2
<1> QED
  BY <1>1, <1>2 DEF Shapes

Held == {"verify", "copy", "clean", "write"}

\* A task that goes on without the lock, or ends and gives it back.
LEMMA LockKept ==
  ASSUME Base, NEW t \in Tasks,
         \A u \in Tasks \ {t} : task'[u] = task[u],
         \/ holder' = holder \ {t} /\ task'[t].pc \notin Held
         \/ holder' = holder /\ (task'[t].pc \in Held => task[t].pc \in Held)
  PROVE  Locked' /\ OneHolder' /\ holder' \subseteq Tasks
<1>1. OneHolder' /\ holder' \subseteq Tasks
  BY DEF Base, OneHolder, Types
<1>2. ASSUME NEW u \in Tasks, task'[u].pc \in Held PROVE holder' = {u}
  <2>1. CASE u = t
    BY <2>1, <1>2 DEF Base, Locked, Held
  <2>2. CASE u # t
    <3>1. holder = {u}
      BY <2>2, <1>2 DEF Base, Locked, Held
    <3> QED
      BY <2>2, <3>1
  <2> QED
    BY <2>1, <2>2
<1> QED
  BY <1>1, <1>2 DEF Locked, Held

\* No new upload, and none acknowledged.
LEMMA FreshKept ==
  ASSUME Base, NEW t \in Tasks,
         \A u \in Tasks \ {t} : task'[u] = task[u],
         spent'.ops \in Nat, spent'.ops >= spent.ops, acked' = acked, retried' = retried,
         task'[t].op = "part" => /\ task[t].op = "part" /\ task'[t].body = task[t].body
                                 /\ task'[t].part = task[t].part
  PROVE  FreshBodies'
<1>1. \A u \in Tasks : task'[u].op = "part" => /\ task[u].op = "part" /\ task'[u].body = task[u].body
                                              /\ task'[u].part = task[u].part
  OBVIOUS
<1>2. \A a \in acked : a[2] \in Nat
  BY DEF Base, Types, Bodies
<1>3. spent.ops \in Nat
  BY DEF Base, Types
<1> QED
  BY <1>1, <1>2, <1>3 DEF Base, FreshBodies

StagedType == [dir : BOOLEAN, manifest : BOOLEAN,
               file : [Parts -> 0 .. Torn], meta : [Parts -> 0 .. MaxOps]]

\* A step of task t that begins no request and acknowledges no upload.
LEMMA QuietStep ==
  ASSUME Base, NEW t \in Tasks, NEW r \in Task,
         task' = [task EXCEPT ![t] = r], Shaped(r, spent.ops, acked),
         r.op = "part" => task[t].op = "part" /\ r.body = task[t].body /\ r.part = task[t].part,
         \/ holder' = holder \ {t} /\ r.pc \notin Held
         \/ holder' = holder /\ (r.pc \in Held => task[t].pc \in Held),
         staged' \in StagedType, object' \in Seq(1 .. Torn), mixed' \subseteq Parts,
         spent' \in [ops : {spent.ops}, cuts : 0 .. MaxCuts],
         published' \in Nat, cut' \in Nat, ended' \in BOOLEAN, faithful' \in BOOLEAN,
         littered' \in BOOLEAN, backend' = backend, acked' = acked, retried' = retried, Staging'
  PROVE  Base' /\ task'[t] = r /\ \A u \in Tasks \ {t} : task'[u] = task[u]
<1>1. /\ spent.ops \in 0 .. MaxOps /\ spent.ops \in Nat /\ spent'.ops = spent.ops
      /\ spent'.ops \in Nat /\ spent'.ops >= spent.ops
  BY MultipartAssumption DEF Base, Types
<1>a. acked \subseteq acked' /\ Shaped(r, spent'.ops, acked')
  BY <1>1
<1>2. /\ task' \in [Tasks -> Task] /\ Shapes'
      /\ task'[t] = r /\ \A u \in Tasks \ {t} : task'[u] = task[u]
  BY <1>1, <1>a, TaskChange
<1>3. Locked' /\ OneHolder' /\ holder' \subseteq Tasks
  BY <1>2, LockKept
<1>4. FreshBodies'
  BY <1>1, <1>2, FreshKept
<1>5. Types'
  BY <1>1, <1>2, <1>3 DEF Base, Types, StagedType
<1> QED
  BY <1>2, <1>3, <1>4, <1>5 DEF Base

\* The step that begins request r.
LEMMA BeginStep ==
  ASSUME Base, NEW t \in Tasks, NEW r \in Task, Begin(t, r),
         Shaped(r, spent.ops + 1, acked),
         r.op = "part" => r.body = NewBody \/ r.part \in retried',
         r.pc \notin Held, mixed' \subseteq Parts, retried' \subseteq Parts, retried \subseteq retried',
         UNCHANGED <<backend, staged, object, holder, acked, published, cut, littered, ended, faithful>>
  PROVE  /\ Base' /\ task'[t] = r /\ \A u \in Tasks \ {t} : task'[u] = task[u]
         /\ spent' = [spent EXCEPT !.ops = @ + 1]
<1>1. /\ spent.ops \in 0 .. MaxOps - 1 /\ spent'.ops = spent.ops + 1
      /\ spent' \in [ops : 0 .. MaxOps, cuts : 0 .. MaxCuts]
      /\ spent'.ops \in Nat /\ spent'.ops >= spent.ops
      /\ task' = [task EXCEPT ![t] = r] /\ task[t] = Free
  BY MultipartAssumption DEF Base, Types, Begin
<1>a. acked \subseteq acked' /\ Shaped(r, spent'.ops, acked')
  BY <1>1
<1>2. /\ task' \in [Tasks -> Task] /\ Shapes'
      /\ task'[t] = r /\ \A u \in Tasks \ {t} : task'[u] = task[u]
  BY <1>1, <1>a, TaskChange
<1>3. Locked' /\ OneHolder' /\ holder' \subseteq Tasks
  BY <1>2, LockKept
<1>4. FreshBodies'
  <2>1. \A a \in acked : a[2] \in Nat /\ a[2] <= spent.ops
    BY DEF Base, Types, FreshBodies, Bodies
  <2>2. \A u \in Tasks \ {t} : task'[u].op = "part" =>
          /\ task[u].op = "part" /\ task'[u].body = task[u].body /\ task'[u].part = task[u].part
          /\ task[u].body \in Nat /\ task[u].body <= spent.ops
    BY <1>1, <1>2 DEF Base, Shapes, Shaped
  <2>3. task'[t].op = "part" => task'[t].body = spent.ops + 1 \/ task'[t].part \in retried'
    BY <1>2 DEF NewBody
  <2>4. /\ acked' = acked /\ spent.ops \in Nat /\ spent'.ops = spent.ops + 1
        /\ \A u \in Tasks : task[u].op = "part" /\ task[u].part \notin retried' => task[u].part \notin retried
    BY <1>1
  <2>5. \A a \in acked' : a[2] <= spent'.ops
    BY <2>1, <2>4
  <2>6. ASSUME NEW v \in Tasks, task'[v].op = "part", task'[v].part \notin retried'
        PROVE  /\ \A a \in acked : a[1] = task'[v].part => a[2] # task'[v].body
               /\ \A u \in Tasks : u # v /\ task'[u].op = "part" /\ task'[u].part = task'[v].part
                                     => task'[u].body # task'[v].body
    <3>1. CASE v = t
      <4>1. task'[v].body = spent.ops + 1
        BY <2>3, <2>6, <3>1
      <4> QED
        BY <2>1, <2>2, <2>4, <3>1, <4>1
    <3>2. CASE v # t
      <4>1. /\ task[v].op = "part" /\ task[v].part \notin retried /\ task'[v].body = task[v].body
            /\ task'[v].part = task[v].part /\ task[v].body \in Nat /\ task[v].body <= spent.ops
        BY <2>2, <2>4, <2>6, <3>2
      <4>2. \A a \in acked : a[1] = task'[v].part => a[2] # task'[v].body
        BY <4>1 DEF Base, FreshBodies
      <4>3. ASSUME NEW u \in Tasks, u # v, task'[u].op = "part", task'[u].part = task'[v].part
            PROVE  task'[u].body # task'[v].body
        <5>1. CASE u = t
          <6>1. task'[u].body = spent.ops + 1
            BY <2>3, <2>6, <4>3, <5>1
          <6> QED
            BY <2>4, <4>1, <6>1
        <5>2. CASE u # t
          BY <2>2, <4>1, <4>3, <5>2 DEF Base, FreshBodies
        <5> QED
          BY <5>1, <5>2
      <4> QED
        BY <4>2, <4>3
    <3> QED
      BY <3>1, <3>2
  <2> QED
    BY <2>4, <2>5, <2>6 DEF FreshBodies
<1>5. Types'
  BY <1>1, <1>2, <1>3 DEF Base, Types
<1>6. Staging'
  BY <1>1 DEF Base, Staging
<1> QED
  BY <1>1, <1>2, <1>3, <1>4, <1>5, <1>6 DEF Base, Begin

-----------------------------------------------------------------------------
(* One lemma per group of actions: the invariant, and what became of the    *)
(* tasks.                                                                   *)

OnlyTask(t) == \A u \in Tasks \ {t} : task'[u] = task[u]

LEMMA CreateBase == ASSUME Base, CreateMultipart PROVE Base'
<1>1. /\ staged' \in StagedType /\ staged'.dir
      /\ UNCHANGED <<backend, object, task, holder, spent, acked, mixed, retried, published, cut,
                     littered, ended, faithful>>
      /\ spent.ops = 0
  BY DEF CreateMultipart, Base, Types, StagedType
<1>2. Types' /\ Shapes' /\ Locked' /\ OneHolder' /\ FreshBodies'
  BY <1>1 DEF Base, Types, StagedType, Shapes, Locked, OneHolder, FreshBodies
<1>3. Staging'
  BY <1>1 DEF Base, Staging
<1> QED
  BY <1>2, <1>3 DEF Base

LEMMA UploadBeginBase ==
  ASSUME Base, NEW t \in Tasks, NEW p \in Parts, NEW body \in 1 .. NewBody, UploadBegin(t, p, body)
  PROVE  /\ Base' /\ OnlyTask(t)
         /\ task'[t].op = "part" /\ task'[t].pc = "file" /\ task'[t].part = p
         /\ task'[t].list = <<>>
<1> DEFINE r == [Free EXCEPT !.op = "part", !.pc = "file", !.part = p, !.body = body]
<1>1. /\ spent.ops \in 0 .. MaxOps - 1
  BY MultipartAssumption DEF Base, Types, UploadBegin, Begin
<1>2. /\ r \in Task /\ Shaped(r, spent.ops + 1, acked) /\ r.body = body /\ r.part = p
      /\ r.op = "part" /\ r.pc = "file" /\ r.list = <<>> /\ r.pc \notin Held
  <2>1. r.op = "part" /\ r.pc = "file" /\ r.part = p /\ r.body = body /\ r.list = <<>> /\ r.got = <<>>
    BY DEF Free
  <2>2. body \in 0 .. MaxOps /\ body \in 1 .. spent.ops + 1 /\ spent.ops + 1 > 0
    BY <1>1, MultipartAssumption DEF NewBody
  <2>0. r \in Task
    BY <2>2, FreeFacts DEF Task
  <2> HIDE DEF r
  <2> QED
    BY <2>0, <2>1, <2>2 DEF Shaped, Held
<1>3. mixed' \subseteq Parts /\ retried' \subseteq Parts /\ retried \subseteq retried'
  BY DEF UploadBegin, Base, Types
<1>4. body = NewBody \/ p \in retried'
  BY DEF UploadBegin
<1>5. /\ Begin(t, r)
      /\ UNCHANGED <<backend, staged, object, holder, acked, published, cut, littered, ended, faithful>>
  BY DEF UploadBegin
<1> HIDE DEF r
<1>6. /\ Base' /\ task'[t] = r /\ \A u \in Tasks \ {t} : task'[u] = task[u]
  BY <1>2, <1>3, <1>4, <1>5, BeginStep
<1> QED
  BY <1>2, <1>6 DEF OnlyTask

LEMMA CompleteBeginBase ==
  ASSUME Base, NEW t \in Tasks, NEW list \in Lists, CompleteBegin(t, list)
  PROVE  /\ Base' /\ OnlyTask(t)
         /\ task'[t] = [Free EXCEPT !.op = "complete", !.pc = "lock", !.list = list]
<1> DEFINE r == [Free EXCEPT !.op = "complete", !.pc = "lock", !.list = list]
<1>1. /\ spent.ops \in 0 .. MaxOps - 1
  BY MultipartAssumption DEF Base, Types, CompleteBegin, Begin
<1>0. /\ list \in Seq(Parts \X Bodies) /\ list # <<>> /\ Len(list) \in Nat
      /\ \A i \in 1 .. Len(list) : list[i] \in acked
  BY ListFacts DEF Base
<1>2. r \in Task /\ Shaped(r, spent.ops + 1, acked) /\ r.op # "part" /\ r.pc \notin Held
  <2>1. r.op = "complete" /\ r.pc = "lock" /\ r.part = 0 /\ r.body = 0 /\ r.list = list /\ r.got = <<>>
    BY DEF Free
  <2>0. r \in Task
    BY <1>0, <1>1, FreeFacts, MultipartAssumption DEF Task, NewBody
  <2>2. 0 \in 0 .. MaxOps /\ spent.ops + 1 > 0
    BY <1>1, MultipartAssumption
  <2> HIDE DEF r
  <2> QED
    BY <1>0, <2>0, <2>1, <2>2 DEF Shaped, Held
<1>3. mixed' \subseteq Parts /\ retried' \subseteq Parts /\ retried \subseteq retried'
  BY DEF CompleteBegin, Base, Types
<1> QED
  BY <1>2, <1>3, BeginStep DEF CompleteBegin, OnlyTask

LEMMA OtherBeginBase ==
  ASSUME Base, NEW t \in Tasks, AbortBegin(t) \/ PutBegin(t)
  PROVE  /\ Base' /\ OnlyTask(t) /\ task[t] = Free
         /\ task'[t].op \in {"abort", "put"} /\ task'[t].list = <<>>
         /\ UNCHANGED <<staged, acked, mixed, retried, published, cut, littered, ended, faithful>>
         /\ spent' = [spent EXCEPT !.ops = @ + 1]
<1>1. /\ spent.ops \in 0 .. MaxOps - 1
  BY MultipartAssumption DEF Base, Types, AbortBegin, PutBegin, Begin
<1>2. CASE AbortBegin(t)
  <2> DEFINE r == [Free EXCEPT !.op = "abort", !.pc = "remove"]
  <2>1. /\ r \in Task /\ Shaped(r, spent.ops + 1, acked) /\ r.op = "abort" /\ r.pc \notin Held
        /\ r.list = <<>>
    <3>1. r.op = "abort" /\ r.pc = "remove" /\ r.part = 0 /\ r.body = 0 /\ r.list = <<>> /\ r.got = <<>>
      BY DEF Free
    <3>0. r \in Task
      BY <1>1, FreeFacts, MultipartAssumption DEF Task, NewBody
    <3>2. 0 \in 0 .. MaxOps /\ spent.ops + 1 > 0
      BY <1>1, MultipartAssumption
    <3> HIDE DEF r
    <3> QED
      BY <3>0, <3>1, <3>2 DEF Shaped, Held
  <2>2. mixed' \subseteq Parts /\ retried' \subseteq Parts /\ retried \subseteq retried'
    BY <1>2 DEF AbortBegin, Base, Types
  <2>3. Begin(t, r) /\ UNCHANGED <<backend, staged, object, holder, acked, mixed, retried, published, cut, littered, ended, faithful>>
    BY <1>2 DEF AbortBegin
  <2> HIDE DEF r
  <2> QED
    BY <2>1, <2>2, <2>3, BeginStep DEF OnlyTask, Begin
<1>3. CASE PutBegin(t)
  <2> DEFINE r == [Free EXCEPT !.op = "put", !.pc = "lock", !.body = NewBody]
  <2>1. /\ r \in Task /\ Shaped(r, spent.ops + 1, acked) /\ r.op = "put" /\ r.pc \notin Held
        /\ r.list = <<>>
    <3>1. r.op = "put" /\ r.pc = "lock" /\ r.part = 0 /\ r.body = NewBody /\ r.list = <<>> /\ r.got = <<>>
      BY DEF Free
    <3>2. NewBody \in 0 .. MaxOps /\ NewBody \in 1 .. spent.ops + 1 /\ spent.ops + 1 > 0
      BY <1>1, MultipartAssumption DEF NewBody
    <3>0. r \in Task
      BY <3>2, FreeFacts DEF Task
    <3> HIDE DEF r
    <3> QED
      BY <3>0, <3>1, <3>2 DEF Shaped, Held
  <2>2. mixed' \subseteq Parts /\ retried' \subseteq Parts /\ retried \subseteq retried'
    BY <1>3 DEF PutBegin, Base, Types
  <2>3. Begin(t, r) /\ UNCHANGED <<backend, staged, object, holder, acked, mixed, retried, published, cut, littered, ended, faithful>>
    BY <1>3 DEF PutBegin
  <2> HIDE DEF r
  <2> QED
    BY <2>1, <2>2, <2>3, BeginStep DEF OnlyTask, Begin
<1> QED
  BY <1>2, <1>3

LEMMA EndStep ==
  ASSUME Base, NEW t \in Tasks, End(t),
         staged' \in StagedType, object' \in Seq(1 .. Torn), mixed' \subseteq Parts,
         spent' \in [ops : {spent.ops}, cuts : 0 .. MaxCuts],
         published' \in Nat, cut' \in Nat, ended' \in BOOLEAN, faithful' \in BOOLEAN,
         littered' \in BOOLEAN, backend' = backend, acked' = acked, retried' = retried, Staging'
  PROVE  Base' /\ OnlyTask(t) /\ task'[t] = Free
<1>1. Shaped(Free, spent.ops, acked) /\ Free.pc \notin Held
  BY FreeFacts DEF Shaped, Held
<1>2. task' = [task EXCEPT ![t] = Free] /\ holder' = holder \ {t}
  BY DEF End
<1> QED
  BY <1>1, <1>2, FreeFacts, QuietStep DEF OnlyTask

\* Task t goes on to pc and keeps what else it has.
Moved(t, pc) ==
  /\ task'[t].pc = pc /\ task'[t].op = task[t].op /\ task'[t].part = task[t].part
  /\ task'[t].body = task[t].body /\ task'[t].list = task[t].list /\ task'[t].got = task[t].got

LEMMA GotoStep ==
  ASSUME Base, NEW t \in Tasks,
         NEW pc \in {"stream", "meta", "copy", "clean"}, Goto(t, pc),
         task[t].op = "part" => pc \in {"stream", "meta"},
         task[t].op = "complete" => pc \in {"copy", "clean"} /\ task[t].pc \in Held,
         task[t].op \in {"part", "complete"},
         pc = "copy" => Len(task[t].got) < Len(task[t].list),
         staged' \in StagedType, object' \in Seq(1 .. Torn),
         published' \in Nat, ended' \in BOOLEAN, faithful' \in BOOLEAN,
         UNCHANGED <<backend, holder, spent, acked, mixed, retried, cut, littered>>, Staging'
  PROVE  Base' /\ OnlyTask(t) /\ Moved(t, pc)
<1> DEFINE r == [task[t] EXCEPT !.pc = pc]
<1>1. task[t] \in Task /\ Shaped(task[t], spent.ops, acked)
  BY DEF Base, Types, Shapes
<1>2. r \in Task
  BY <1>1 DEF Task
<1>3. /\ r.pc = pc /\ r.op = task[t].op /\ r.part = task[t].part /\ r.body = task[t].body
      /\ r.list = task[t].list /\ r.got = task[t].got
  BY <1>1 DEF Task
<1>4. task' = [task EXCEPT ![t] = r]
  BY DEF Goto
<1> HIDE DEF r
<1>5. Shaped(r, spent.ops, acked)
  BY <1>1, <1>3 DEF Shaped
<1>6. /\ holder' = holder /\ (r.pc \in Held => task[t].pc \in Held)
      /\ spent' \in [ops : {spent.ops}, cuts : 0 .. MaxCuts] /\ cut' \in Nat
      /\ mixed' \subseteq Parts /\ backend' = backend /\ acked' = acked
      /\ retried' = retried /\ littered' \in BOOLEAN
  BY <1>3 DEF Base, Types, Held
<1>7. r.op = "part" => task[t].op = "part" /\ r.body = task[t].body /\ r.part = task[t].part
  BY <1>3
<1>8. Base' /\ task'[t] = r /\ \A u \in Tasks \ {t} : task'[u] = task[u]
  BY <1>2, <1>4, <1>5, <1>6, <1>7, QuietStep
<1> QED
  BY <1>3, <1>8 DEF OnlyTask, Moved

\* The facts about task t that its steps use.
LEMMA TaskFacts ==
  ASSUME Base, NEW t \in Tasks
  PROVE  /\ task[t] \in Task /\ Shaped(task[t], spent.ops, acked)
         /\ staged \in StagedType /\ spent.ops \in Nat /\ spent.ops <= MaxOps
         /\ spent \in [ops : {spent.ops}, cuts : 0 .. MaxCuts]
BY MultipartAssumption DEF Base, Types, Shapes, StagedType

LEMMA FsPartFileBase ==
  ASSUME Base, NEW t \in Tasks, FsPartFile(t)
  PROVE  Base' /\ OnlyTask(t) /\ Moved(t, "meta") /\ staged' \in StagedType
<1>1. /\ task[t].part \in Parts /\ task[t].body \in 0 .. Torn /\ spent.ops > 0
  BY TaskFacts, MultipartAssumption DEF FsPartFile, Shaped, Torn
<1>2. staged' \in StagedType
  BY <1>1, TaskFacts DEF FsPartFile, StagedType
<1>3. staged'.manifest = staged.manifest /\ staged'.dir /\ backend = "fs"
  BY TaskFacts DEF FsPartFile, StagedType
<1>4. Staging'
  BY <1>1, <1>3 DEF FsPartFile, Base, Staging
<1>5. object' \in Seq(1 .. Torn) /\ published' \in Nat /\ ended' \in BOOLEAN /\ faithful' \in BOOLEAN
  BY DEF FsPartFile, Base, Types
<1> QED
  BY <1>2, <1>4, <1>5, GotoStep DEF FsPartFile

LEMMA ErasurePartFileBase ==
  ASSUME Base, NEW t \in Tasks, ErasurePartFile(t)
  PROVE  /\ Base' /\ OnlyTask(t) /\ staged' \in StagedType
         /\ \/ task[t].pc = "file" /\ staged.dir /\ Moved(t, "stream")
            \/ task[t].pc = "file" /\ ~staged.dir /\ task'[t] = Free /\ staged' = staged
            \/ task[t].pc = "stream" /\ Moved(t, "meta")
<1>1. /\ task[t].part \in Parts /\ task[t].body \in 0 .. Torn /\ Torn \in 0 .. Torn
      /\ spent.ops > 0
  BY TaskFacts, MultipartAssumption DEF ErasurePartFile, Shaped, Torn
<1>2. staged' \in StagedType /\ staged'.manifest = staged.manifest /\ staged'.dir = staged.dir
      /\ (~staged.dir => staged' = staged)
  BY <1>1, TaskFacts DEF ErasurePartFile, StagedType
<1>4. Staging'
  BY <1>1, <1>2 DEF ErasurePartFile, Base, Staging
<1>5. /\ object' \in Seq(1 .. Torn) /\ published' \in Nat /\ ended' \in BOOLEAN
      /\ faithful' \in BOOLEAN /\ cut' \in Nat /\ mixed' \subseteq Parts
      /\ littered' \in BOOLEAN /\ retried' = retried
      /\ UNCHANGED <<backend, spent, acked, mixed, retried, cut, littered>>
      /\ spent' \in [ops : {spent.ops}, cuts : 0 .. MaxCuts]
  BY TaskFacts DEF ErasurePartFile, Base, Types
<1>6. CASE task[t].pc = "file" /\ staged.dir
  <2>1. Goto(t, "stream") /\ holder' = holder /\ task[t].op = "part"
    BY <1>6 DEF ErasurePartFile
  <2> QED
    BY <1>2, <1>4, <1>5, <1>6, <2>1, GotoStep
<1>7. CASE task[t].pc = "file" /\ ~staged.dir
  <2>1. End(t) /\ staged' = staged
    BY <1>7 DEF ErasurePartFile
  <2> QED
    BY <1>2, <1>4, <1>5, <1>7, <2>1, EndStep
<1>8. CASE task[t].pc = "stream"
  <2>1. Goto(t, "meta") /\ holder' = holder /\ task[t].op = "part"
    BY <1>8 DEF ErasurePartFile
  <2> QED
    BY <1>2, <1>4, <1>5, <1>8, <2>1, GotoStep
<1> QED
  BY <1>6, <1>7, <1>8 DEF ErasurePartFile

LEMMA PartMetaBase ==
  ASSUME Base, NEW t \in Tasks, PartMeta(t)
  PROVE  /\ Base' /\ OnlyTask(t) /\ task'[t] = Free /\ staged' \in StagedType
<1> DEFINE a == <<task[t].part, task[t].body>>
<1>1. /\ task[t].part \in Parts /\ task[t].body \in 1 .. spent.ops /\ spent.ops > 0
      /\ task[t].body \in Bodies /\ task[t].body \in 0 .. MaxOps
  BY TaskFacts, MultipartAssumption DEF PartMeta, Shaped, Bodies
<1>2. /\ staged' \in StagedType /\ staged'.manifest = staged.manifest /\ staged'.dir = staged.dir
      /\ (~staged.dir => staged' = staged)
  BY <1>1, TaskFacts DEF PartMeta, StagedType
<1>3. Staging'
  BY <1>1, <1>2 DEF PartMeta, Base, Staging
<1>4. /\ acked' \in {acked, acked \cup {a}} /\ acked' \subseteq Parts \X Bodies
  BY <1>1 DEF PartMeta, Base, Types
<1>5. task' = [task EXCEPT ![t] = Free] /\ holder' = holder \ {t} /\ spent' = spent
  BY DEF PartMeta, End
<1>6. Shaped(Free, spent'.ops, acked') /\ Free.pc \notin Held /\ Free \in Task
  BY FreeFacts DEF Shaped, Held
<1>7. acked \subseteq acked' /\ spent'.ops \in Nat /\ spent'.ops >= spent.ops
  BY <1>4, <1>5, TaskFacts
<1>8. /\ task' \in [Tasks -> Task] /\ Shapes'
      /\ task'[t] = Free /\ \A u \in Tasks \ {t} : task'[u] = task[u]
  BY <1>5, <1>6, <1>7, TaskChange
<1>9. Locked' /\ OneHolder' /\ holder' \subseteq Tasks
  BY <1>5, <1>6, <1>8, LockKept
<1>10. FreshBodies'
  <2>1. \A u \in Tasks : task'[u].op = "part" => u # t /\ task[u].op = "part" /\ task'[u] = task[u]
    BY <1>8, FreeFacts
  <2>2. task[t].op = "part" /\ retried' = retried
    BY DEF PartMeta
  <2>3. a[1] = task[t].part /\ a[2] = task[t].body /\ a[2] <= spent.ops
    BY <1>1
  <2> HIDE DEF a
  <2> QED
    BY <1>4, <1>5, <2>1, <2>2, <2>3 DEF Base, FreshBodies
<1>11. Types'
  BY <1>2, <1>4, <1>5, <1>8, <1>9 DEF Base, Types, StagedType, PartMeta
<1> QED
  BY <1>2, <1>3, <1>8, <1>9, <1>10, <1>11 DEF Base, OnlyTask

LEMMA LockBase ==
  ASSUME Base, NEW t \in Tasks, Lock(t)
  PROVE  /\ Base' /\ OnlyTask(t) /\ task[t].op \in {"complete", "put"}
         /\ Moved(t, IF task[t].op = "complete" THEN "verify" ELSE "write")
<1> DEFINE pc == IF task[t].op = "complete" THEN "verify" ELSE "write"
           r == [task[t] EXCEPT !.pc = pc]
<1>1. task[t] \in Task /\ Shaped(task[t], spent.ops, acked) /\ task[t].pc = "lock"
  BY TaskFacts DEF Lock
<1>2. task[t].op \in {"complete", "put"}
  BY <1>1, FreeFacts DEF Shaped, Task
<1>3. r \in Task
  BY <1>1 DEF Task
<1>4. /\ r.pc = pc /\ r.op = task[t].op /\ r.part = task[t].part /\ r.body = task[t].body
      /\ r.list = task[t].list /\ r.got = task[t].got
  BY <1>1 DEF Task
<1>5. /\ task' = [task EXCEPT ![t] = r] /\ holder = {} /\ holder' = {t}
      /\ spent' = spent /\ acked' = acked /\ retried' = retried
  BY DEF Lock, Goto
<1> HIDE DEF r
<1>6. Shaped(r, spent'.ops, acked')
  BY <1>1, <1>2, <1>4, <1>5 DEF Shaped
<1>7. spent'.ops \in Nat /\ spent'.ops >= spent.ops /\ acked \subseteq acked'
  BY <1>5, TaskFacts
<1>8. /\ task' \in [Tasks -> Task] /\ Shapes'
      /\ task'[t] = r /\ \A u \in Tasks \ {t} : task'[u] = task[u]
  BY <1>3, <1>5, <1>6, <1>7, TaskChange
<1>9. Locked' /\ OneHolder' /\ holder' \subseteq Tasks
  <2>1. \A u \in Tasks \ {t} : task[u].pc \notin {"verify", "copy", "clean", "write"}
    BY <1>5 DEF Base, Locked
  <2> QED
    BY <1>5, <1>8, <2>1 DEF Locked, OneHolder
<1>10. FreshBodies'
  BY <1>4, <1>5, <1>7, <1>8, FreshKept
<1>11. Types' /\ Staging'
  BY <1>5, <1>8, <1>9 DEF Lock, Base, Types, Staging
<1> QED
  BY <1>2, <1>4, <1>8, <1>9, <1>10, <1>11 DEF Base, OnlyTask, Moved

LEMMA VerifyPartBase ==
  ASSUME Base, NEW t \in Tasks, VerifyPart(t)
  PROVE  /\ Base' /\ OnlyTask(t)
         /\ task[t].op = "complete" /\ task[t].pc = "verify" /\ Len(task[t].got) < Len(task[t].list)
         /\ \/ staged.meta[Wanted(t)[1]] = Wanted(t)[2] /\ Moved(t, "copy")
            \/ task'[t] = Free
<1>1. /\ task[t].pc = "verify" /\ Len(task[t].got) < Len(task[t].list)
      /\ UNCHANGED <<backend, staged, object, spent, acked, mixed, retried, published, cut, littered, ended, faithful>>
  BY DEF VerifyPart
<1>2. task[t].op = "complete" /\ task[t].pc \in Held
  BY <1>1, TaskFacts, FreeFacts DEF Shaped, Task, Held
<1>3. /\ staged' \in StagedType /\ object' \in Seq(1 .. Torn) /\ published' \in Nat
      /\ ended' \in BOOLEAN /\ faithful' \in BOOLEAN /\ cut' \in Nat /\ mixed' \subseteq Parts
      /\ littered' \in BOOLEAN /\ retried' = retried
      /\ spent' \in [ops : {spent.ops}, cuts : 0 .. MaxCuts] /\ Staging'
  BY <1>1, TaskFacts DEF Base, Types, Staging
<1>4. CASE staged.meta[Wanted(t)[1]] = Wanted(t)[2]
  <2>1. Goto(t, "copy") /\ holder' = holder
    BY <1>4 DEF VerifyPart
  <2> QED
    BY <1>1, <1>2, <1>3, <1>4, <2>1, GotoStep
<1>5. CASE staged.meta[Wanted(t)[1]] # Wanted(t)[2]
  <2>1. End(t)
    BY <1>5 DEF VerifyPart
  <2> QED
    BY <1>1, <1>2, <1>3, <2>1, EndStep
<1> QED
  BY <1>4, <1>5

LEMMA CopyPartBase ==
  ASSUME Base, NEW t \in Tasks, CopyPart(t)
  PROVE  /\ Base' /\ OnlyTask(t)
         /\ task[t].op = "complete" /\ task[t].pc = "copy" /\ Len(task[t].got) < Len(task[t].list)
         /\ \/ /\ staged.file[Wanted(t)[1]] # 0
               /\ task'[t].op = "complete" /\ task'[t].pc = "verify" /\ task'[t].list = task[t].list
               /\ task'[t].got = Append(task[t].got, staged.file[Wanted(t)[1]])
            \/ task'[t] = Free
<1>1. /\ task[t].pc = "copy"
      /\ UNCHANGED <<backend, staged, object, spent, acked, mixed, retried, published, cut, littered, ended, faithful>>
  BY DEF CopyPart
<1>2. task[t].op = "complete" /\ task[t].pc \in Held /\ Len(task[t].got) < Len(task[t].list)
  BY <1>1, TaskFacts, FreeFacts DEF Shaped, Task, Held
<1>3. /\ staged' \in StagedType /\ object' \in Seq(1 .. Torn) /\ published' \in Nat
      /\ ended' \in BOOLEAN /\ faithful' \in BOOLEAN /\ cut' \in Nat /\ mixed' \subseteq Parts
      /\ littered' \in BOOLEAN /\ retried' = retried
      /\ spent' \in [ops : {spent.ops}, cuts : 0 .. MaxCuts] /\ Staging'
  BY <1>1, TaskFacts DEF Base, Types, Staging
<1>4. CASE staged.file[Wanted(t)[1]] # 0
  <2> DEFINE f == staged.file[Wanted(t)[1]]
             r == [task[t] EXCEPT !.got = Append(@, f), !.pc = "verify"]
  <2>1. task' = [task EXCEPT ![t] = r] /\ holder' = holder
    BY <1>4 DEF CopyPart
  <2>2. task[t] \in Task /\ Shaped(task[t], spent.ops, acked)
    BY TaskFacts
  <2>3. /\ task[t].got \in Seq(1 .. Torn) /\ Len(task[t].got) \in Nat
        /\ task[t].list \in Seq(Parts \X Bodies) /\ Len(task[t].list) \in Nat
    BY <2>2 DEF Task
  <2>4. Wanted(t)[1] \in Parts
    BY <1>2, <2>3 DEF Wanted
  <2>5. f \in 1 .. Torn
    BY <1>4, <2>4, TaskFacts, MultipartAssumption DEF StagedType, Torn
  <2> HIDE DEF f
  <2>6. Append(task[t].got, f) \in Seq(1 .. Torn) /\ Len(Append(task[t].got, f)) = Len(task[t].got) + 1
    BY <2>3, <2>5
  <2>7. r \in Task
    BY <2>2, <2>6 DEF Task
  <2>8. /\ r.op = "complete" /\ r.pc = "verify" /\ r.list = task[t].list
        /\ r.got = Append(task[t].got, f)
    BY <1>2, <2>2 DEF Task
  <2> HIDE DEF r
  <2>9. Shaped(r, spent.ops, acked)
    BY <1>2, <2>2, <2>3, <2>6, <2>8 DEF Shaped
  <2>10. Base' /\ task'[t] = r /\ \A u \in Tasks \ {t} : task'[u] = task[u]
    BY <1>1, <1>2, <1>3, <2>1, <2>7, <2>8, <2>9, QuietStep DEF Held
  <2> QED
    BY <1>1, <1>2, <1>4, <2>8, <2>10 DEF OnlyTask, f
<1>5. CASE staged.file[Wanted(t)[1]] = 0
  <2>1. End(t)
    BY <1>5 DEF CopyPart
  <2> QED
    BY <1>1, <1>2, <1>3, <2>1, EndStep
<1> QED
  BY <1>4, <1>5

LEMMA PublishBase ==
  ASSUME Base, NEW t \in Tasks, Publish(t)
  PROVE  Base' /\ OnlyTask(t) /\ task[t].op = "complete" /\ Moved(t, "clean")
<1>1. /\ task[t].pc = "verify" /\ object' = task[t].got /\ published' = published + 1
      /\ faithful' = (faithful /\ AsListed(t)) /\ Goto(t, "clean")
      /\ UNCHANGED <<backend, staged, holder, spent, acked, mixed, retried, cut, littered, ended>>
  BY DEF Publish
<1>2. task[t].op = "complete" /\ task[t].pc \in Held /\ spent.ops > 0 /\ task[t].got \in Seq(1 .. Torn)
  BY <1>1, TaskFacts, FreeFacts DEF Shaped, Task, Held
<1>3. /\ staged' \in StagedType /\ object' \in Seq(1 .. Torn) /\ published' \in Nat
      /\ ended' \in BOOLEAN /\ Staging'
  BY <1>1, <1>2, TaskFacts DEF Base, Types, Staging
<1>4. faithful' \in BOOLEAN
  BY <1>1
<1> QED
  BY <1>1, <1>2, <1>3, <1>4, GotoStep

LEMMA RemovalBase ==
  ASSUME Base, NEW t \in Tasks, Clean(t) \/ AbortRemove(t)
  PROVE  /\ Base' /\ OnlyTask(t) /\ task'[t] = Free /\ staged' = Empty
         /\ UNCHANGED <<acked, mixed, retried, published, cut, littered, faithful>>
<1>1. /\ End(t) /\ staged' = Empty
      /\ UNCHANGED <<backend, object, spent, acked, mixed, retried, published, cut, littered, faithful>>
      /\ ended' \in BOOLEAN
  BY DEF Clean, AbortRemove, Base, Types
<1>2. spent.ops > 0
  BY TaskFacts, FreeFacts DEF Clean, AbortRemove, Shaped, Task
<1>3. /\ staged' \in StagedType /\ object' \in Seq(1 .. Torn) /\ published' \in Nat
      /\ faithful' \in BOOLEAN /\ cut' \in Nat /\ mixed' \subseteq Parts
      /\ littered' \in BOOLEAN /\ retried' = retried
      /\ spent' \in [ops : {spent.ops}, cuts : 0 .. MaxCuts]
  BY <1>1, TaskFacts, EmptyFacts DEF Base, Types, StagedType
<1>4. Staging'
  BY <1>1, <1>2, EmptyFacts DEF Staging
<1> QED
  BY <1>1, <1>3, <1>4, EndStep

LEMMA PutWriteBase ==
  ASSUME Base, NEW t \in Tasks, PutWrite(t)
  PROVE  Base' /\ OnlyTask(t) /\ task[t].op = "put" /\ task'[t] = Free
<1>1. /\ task[t].pc = "write" /\ object' = <<task[t].body>> /\ End(t)
      /\ UNCHANGED <<backend, staged, spent, acked, mixed, retried, published, cut, littered, ended, faithful>>
  BY DEF PutWrite
<1>0. task[t].op = "put"
  BY <1>1, TaskFacts, FreeFacts DEF Shaped, Task
<1>2. task[t].op = "put" /\ task[t].body \in 1 .. Torn
  BY <1>0, TaskFacts, MultipartAssumption DEF Shaped, Torn
<1>3. /\ staged' \in StagedType /\ object' \in Seq(1 .. Torn) /\ published' \in Nat
      /\ ended' \in BOOLEAN /\ faithful' \in BOOLEAN /\ cut' \in Nat /\ mixed' \subseteq Parts
      /\ littered' \in BOOLEAN /\ retried' = retried
      /\ spent' \in [ops : {spent.ops}, cuts : 0 .. MaxCuts] /\ Staging'
  BY <1>1, <1>2, TaskFacts DEF Base, Types, Staging
<1> QED
  BY <1>1, <1>2, <1>3, EndStep

LEMMA CutBase ==
  ASSUME Base, NEW t \in Tasks, Cut(t)
  PROVE  Base' /\ OnlyTask(t) /\ task'[t] = Free
<1>1. /\ End(t) /\ spent' = [spent EXCEPT !.cuts = @ + 1] /\ spent.cuts < MaxCuts
      /\ UNCHANGED <<backend, staged, object, acked, retried, published, littered, ended, faithful>>
  BY DEF Cut
<1>2. mixed' \subseteq Parts
  BY TaskFacts DEF Cut, Base, Types, Shaped
<1>3. cut' \in Nat /\ littered' \in BOOLEAN /\ retried' = retried
  BY DEF Cut, Base, Types
<1>4. spent' \in [ops : {spent.ops}, cuts : 0 .. MaxCuts] /\ spent'.ops = spent.ops
  BY <1>1, TaskFacts, MultipartAssumption
<1>5. /\ staged' \in StagedType /\ object' \in Seq(1 .. Torn) /\ published' \in Nat
      /\ ended' \in BOOLEAN /\ faithful' \in BOOLEAN /\ Staging'
  BY <1>1, <1>4, TaskFacts DEF Base, Types, Staging
<1> QED
  BY <1>1, <1>2, <1>3, <1>4, <1>5, EndStep

\* What a removal that failed leaves of the directory.
Shed ==
  /\ staged' \in StagedType /\ staged'.dir = staged.dir
  /\ staged'.manifest => staged.manifest
  /\ \A p \in Parts : staged'.file[p] \in {0, staged.file[p]} /\ staged'.meta[p] \in {0, staged.meta[p]}

LEMMA RemovalFailsBase ==
  ASSUME Base, NEW t \in Tasks, RemovalFails(t)
  PROVE  /\ Base' /\ OnlyTask(t) /\ task'[t] = Free /\ Shed /\ littered'
         /\ UNCHANGED <<acked, mixed, retried, published, faithful>>
<1>1. /\ End(t) /\ spent' = [spent EXCEPT !.cuts = @ + 1] /\ spent.cuts < MaxCuts /\ littered' = TRUE
      /\ UNCHANGED <<backend, object, acked, mixed, retried, published, ended, faithful>>
      /\ task[t].pc \in {"clean", "remove"}
  BY DEF RemovalFails
<1> PICK manifest \in {staged.manifest, FALSE}, files \in SUBSET Parts, metas \in SUBSET Parts :
      staged' = [dir |-> staged.dir, manifest |-> manifest,
                 file |-> [p \in Parts |-> IF p \in files THEN staged.file[p] ELSE 0],
                 meta |-> [p \in Parts |-> IF p \in metas THEN staged.meta[p] ELSE 0]]
  BY DEF RemovalFails
<1>2. staged \in StagedType
  BY TaskFacts
<1>3. /\ staged'.dir = staged.dir /\ staged'.manifest = manifest
      /\ staged'.file = [p \in Parts |-> IF p \in files THEN staged.file[p] ELSE 0]
      /\ staged'.meta = [p \in Parts |-> IF p \in metas THEN staged.meta[p] ELSE 0]
  OBVIOUS
<1>4. Shed
  <2>0. staged.dir \in BOOLEAN /\ staged.manifest \in BOOLEAN
    BY <1>2 DEF StagedType
  <2>9. /\ staged.file \in [Parts -> 0 .. Torn] /\ staged.meta \in [Parts -> 0 .. MaxOps]
        /\ 0 \in 0 .. Torn /\ 0 \in 0 .. MaxOps
    BY <1>2, MultipartAssumption DEF StagedType, Torn
  <2>1. /\ staged.dir \in BOOLEAN /\ manifest \in BOOLEAN /\ (manifest => staged.manifest)
        /\ staged.file \in [Parts -> 0 .. Torn] /\ staged.meta \in [Parts -> 0 .. MaxOps]
        /\ 0 \in 0 .. Torn /\ 0 \in 0 .. MaxOps
    <3>1. CASE manifest = staged.manifest
      BY <2>0, <2>9, <3>1
    <3>2. CASE manifest = FALSE
      BY <2>0, <2>9, <3>2
    <3> QED
      BY <3>1, <3>2
  <2>2. staged' \in StagedType
    BY <2>1 DEF StagedType
  <2>3. \A p \in Parts : staged'.file[p] \in {0, staged.file[p]} /\ staged'.meta[p] \in {0, staged.meta[p]}
    BY <1>3
  <2> QED
    BY <1>3, <2>1, <2>2, <2>3 DEF Shed
<1>5. Staging'
  <2>1. spent.ops > 0 /\ spent'.ops = spent.ops
    BY <1>1, TaskFacts, FreeFacts DEF Shaped, Task
  <2>2. ~staged'.dir => staged' = Empty
    <3> SUFFICES ASSUME ~staged.dir PROVE staged' = Empty
      BY <1>3
    <3>1. staged = Empty
      BY DEF Base, Staging
    <3>2. \A p \in Parts : staged.file[p] = 0 /\ staged.meta[p] = 0
      BY <3>1, EmptyFacts
    <3>3. ~manifest /\ manifest = FALSE /\ staged.dir = FALSE
      BY <3>1 DEF Empty
    <3>4. /\ [p \in Parts |-> IF p \in files THEN staged.file[p] ELSE 0] = [p \in Parts |-> 0]
          /\ [p \in Parts |-> IF p \in metas THEN staged.meta[p] ELSE 0] = [p \in Parts |-> 0]
      BY <3>2
    <3> QED
      BY <3>3, <3>4 DEF Empty
  <2>3. ended' => ~staged'.manifest /\ (backend' = "erasure" => ~staged'.dir)
    BY <1>1, <1>4 DEF Base, Staging, Shed
  <2> QED
    BY <2>1, <2>2, <2>3 DEF Staging
<1>6. spent' \in [ops : {spent.ops}, cuts : 0 .. MaxCuts] /\ spent'.ops = spent.ops
  BY <1>1, TaskFacts, MultipartAssumption
<1>7. /\ staged' \in StagedType /\ object' \in Seq(1 .. Torn) /\ published' \in Nat
      /\ ended' \in BOOLEAN /\ faithful' \in BOOLEAN /\ mixed' \subseteq Parts
      /\ littered' \in BOOLEAN
  BY <1>1, <1>4 DEF Base, Types, Shed
<1>8. cut' \in Nat
  BY DEF RemovalFails, Base, Types
<1> QED
  BY <1>1, <1>4, <1>5, <1>6, <1>7, <1>8, EndStep

-----------------------------------------------------------------------------
(* The two files of a part, and what a completion has copied.              *)

\* Two uploads of one part at the same time mix it up.
OneUpload ==
  \A t, u \in Tasks :
    /\ task[t].op = "part" /\ task[u].op = "part" /\ task[t].part = task[u].part
    /\ task[t].part \notin mixed
    => t = u

\* So does an upload beside a completion that lists the part.
ListedAlone ==
  \A t, u \in Tasks : task[t].op = "part" /\ task[t].part \notin mixed =>
    \A i \in 1 .. Len(task[u].list) : task[u].list[i][1] # task[t].part

\* Payload and metadata of part p: of one upload, or the payload was removed
\* with the directory, or by a removal that failed.
OfOneBody(p, body) ==
  staged.file[p] \in {0, body} /\ (staged.manifest /\ ~littered => staged.file[p] = body)

PartFile(p) ==
  /\ (\A t \in Tasks : task[t].op = "part" /\ task[t].part = p => task[t].pc = "file")
       /\ staged.meta[p] # 0 => OfOneBody(p, staged.meta[p])
  /\ \A t \in Tasks : task[t].op = "part" /\ task[t].part = p /\ task[t].pc = "meta"
       => OfOneBody(p, task[t].body)

PartFiles == \A p \in Parts \ mixed : PartFile(p)

\* What completion r has copied is what it listed, and what it has verified and
\* is about to copy is, or is gone.
Copied(r, mix, file) ==
  /\ \A i \in 1 .. Len(r.got) : r.list[i][1] \in mix \/ r.got[i] = r.list[i][2]
  /\ r.pc = "copy" => LET w == r.list[Len(r.got) + 1] IN w[1] \in mix \/ file[w[1]] \in {0, w[2]}

CopiedAll == \A t \in Tasks : task[t].op = "complete" => Copied(task[t], mixed, staged.file)

Pieces == OneUpload /\ ListedAlone /\ PartFiles /\ CopiedAll /\ faithful

\* A step that touches neither uploads nor what is staged.
LEMMA QuietPieces ==
  ASSUME Base, Pieces, Base', NEW t \in Tasks, OnlyTask(t),
         task[t].op # "part", task'[t].op # "part", task'[t].list \in {task[t].list, <<>>},
         staged' = staged, mixed' = mixed, littered' = littered, faithful',
         task'[t].op = "complete" => Copied(task'[t], mixed, staged.file)
  PROVE  Pieces'
<1>1. \A u \in Tasks : task'[u].op = "part" => task'[u] = task[u] /\ u # t
  BY DEF OnlyTask
<1>2. \A u \in Tasks : task[u].op = "part" => task'[u] = task[u] /\ u # t
  BY DEF OnlyTask
<1>3. OneUpload'
  BY <1>1 DEF Pieces, OneUpload
<1>4. ListedAlone'
  <2> SUFFICES ASSUME NEW v \in Tasks, NEW u \in Tasks, task'[v].op = "part", task'[v].part \notin mixed,
                      NEW i \in 1 .. Len(task'[u].list)
               PROVE  task'[u].list[i][1] # task'[v].part
    BY DEF ListedAlone
  <2>1. task'[v] = task[v]
    BY <1>1
  <2>2. CASE task'[u].list = task[u].list
    BY <2>1, <2>2 DEF Pieces, ListedAlone
  <2>3. CASE task'[u].list = <<>>
    BY <2>3
  <2> QED
    BY <2>2, <2>3 DEF OnlyTask
<1>5. PartFiles'
  BY <1>1, <1>2 DEF Pieces, PartFiles, PartFile, OfOneBody
<1>6. CopiedAll'
  BY DEF Pieces, CopiedAll, OnlyTask
<1> QED
  BY <1>3, <1>4, <1>5, <1>6 DEF Pieces

LEMMA UploadBeginPieces ==
  ASSUME Base, Pieces, NEW t \in Tasks, NEW p \in Parts, NEW body \in 1 .. NewBody, UploadBegin(t, p, body)
  PROVE  Pieces'
<1>1. /\ OnlyTask(t) /\ task[t] = Free /\ staged' = staged /\ faithful' = faithful
      /\ littered' = littered
      /\ task'[t].op = "part" /\ task'[t].pc = "file" /\ task'[t].part = p /\ task'[t].list = <<>>
  <2>1. /\ OnlyTask(t)
        /\ task'[t].op = "part" /\ task'[t].pc = "file" /\ task'[t].part = p /\ task'[t].list = <<>>
    BY UploadBeginBase
  <2> QED
    BY <2>1 DEF UploadBegin, Begin
<1>2. mixed \subseteq mixed' /\ (p \notin mixed' => Uploading(p) = {} /\ Listing(p) = {})
  BY DEF UploadBegin
<1>3. OneUpload'
  BY <1>1, <1>2 DEF Pieces, OneUpload, OnlyTask, Uploading
<1>4. ListedAlone'
  <2> SUFFICES ASSUME NEW v \in Tasks, NEW u \in Tasks, task'[v].op = "part", task'[v].part \notin mixed',
                      NEW i \in 1 .. Len(task'[u].list)
               PROVE  task'[u].list[i][1] # task'[v].part
    BY DEF ListedAlone
  <2>1. u # t /\ task'[u] = task[u]
    BY <1>1 DEF OnlyTask
  <2>2. CASE v = t
    BY <1>1, <1>2, <2>1, <2>2 DEF Listing
  <2>3. CASE v # t
    BY <1>1, <1>2, <2>1, <2>3 DEF Pieces, ListedAlone, OnlyTask
  <2> QED
    BY <2>2, <2>3
<1>5. PartFiles'
  BY <1>1, <1>2, FreeFacts DEF Pieces, PartFiles, PartFile, OfOneBody, OnlyTask
<1>6. CopiedAll'
  BY <1>1, <1>2 DEF Pieces, CopiedAll, Copied, OnlyTask
<1> QED
  BY <1>1, <1>3, <1>4, <1>5, <1>6 DEF Pieces

LEMMA CompleteBeginPieces ==
  ASSUME Base, Pieces, NEW t \in Tasks, NEW list \in Lists, CompleteBegin(t, list)
  PROVE  Pieces'
<1>1. /\ OnlyTask(t) /\ task[t] = Free /\ staged' = staged /\ faithful' = faithful
      /\ littered' = littered
      /\ task'[t].op = "complete" /\ task'[t].pc = "lock" /\ task'[t].list = list
      /\ task'[t].got = <<>>
  <2>1. OnlyTask(t) /\ task'[t] = [Free EXCEPT !.op = "complete", !.pc = "lock", !.list = list]
    BY CompleteBeginBase
  <2>2. /\ task'[t].op = "complete" /\ task'[t].pc = "lock" /\ task'[t].list = list
        /\ task'[t].got = <<>>
    BY <2>1 DEF Free
  <2> QED
    BY <2>1, <2>2 DEF CompleteBegin, Begin
<1>2. /\ mixed \subseteq mixed'
      /\ \A p \in Parts \ mixed' : Uploading(p) # {} => \A i \in 1 .. Len(list) : list[i][1] # p
  BY DEF CompleteBegin
<1>3. \A u \in Tasks : /\ task'[u].op = "part" => task'[u] = task[u] /\ task[u].part \in Parts
                       /\ task[u].op = "part" => task'[u] = task[u]
  <2>1. \A u \in Tasks : task[u].op = "part" => task[u].part \in Parts
    BY DEF Base, Shapes, Shaped
  <2> QED
    BY <1>1, <2>1, FreeFacts DEF OnlyTask
<1>4. OneUpload'
  BY <1>2, <1>3 DEF Pieces, OneUpload
<1>5. ListedAlone'
  <2> SUFFICES ASSUME NEW v \in Tasks, NEW u \in Tasks, task'[v].op = "part", task'[v].part \notin mixed',
                      NEW i \in 1 .. Len(task'[u].list)
               PROVE  task'[u].list[i][1] # task'[v].part
    BY DEF ListedAlone
  <2>1. task'[v] = task[v] /\ task[v].part \in Parts /\ v \in Uploading(task[v].part)
    BY <1>3 DEF Uploading
  <2>2. CASE u = t
    BY <1>1, <1>2, <2>1, <2>2
  <2>3. CASE u # t
    BY <1>1, <1>2, <2>1, <2>3 DEF Pieces, ListedAlone, OnlyTask
  <2> QED
    BY <2>2, <2>3
<1>6. PartFiles'
  BY <1>1, <1>2, <1>3 DEF Pieces, PartFiles, PartFile, OfOneBody
<1>7. CopiedAll'
  <2>1. Copied(task'[t], mixed', staged'.file)
    BY <1>1 DEF Copied
  <2>2. \A u \in Tasks \ {t} : task[u].op = "complete" => Copied(task[u], mixed', staged'.file)
    BY <1>1, <1>2 DEF Pieces, CopiedAll, Copied
  <2> QED
    BY <1>1, <2>1, <2>2 DEF CopiedAll, OnlyTask
<1> QED
  BY <1>1, <1>4, <1>5, <1>6, <1>7 DEF Pieces

\* A step of an upload of part p leaves the other parts alone.
LEMMA UploadPieces ==
  ASSUME Base, Pieces, Base', NEW t \in Tasks, OnlyTask(t), task[t].op = "part",
         NEW p \in Parts, p = task[t].part,
         \/ task'[t] = Free
         \/ task'[t].op = "part" /\ task'[t].part = p,
         \A q \in Parts \ {p} : staged'.file[q] = staged.file[q] /\ staged'.meta[q] = staged.meta[q],
         staged'.manifest = staged.manifest,
         mixed' \in {mixed, mixed \cup {p}}, littered' = littered, faithful' = faithful,
         p \notin mixed' => PartFile(p)'
  PROVE  Pieces'
<1>1. /\ \A u \in Tasks : task'[u].op = "part" => task[u].op = "part" /\ task'[u].part = task[u].part
      /\ \A u \in Tasks : task'[u].list = task[u].list
      /\ \A u \in Tasks : task'[u].op = "complete" => u # t /\ task'[u] = task[u]
      /\ \A u \in Tasks : task[u].op = "part" /\ task[u].part # p => u # t /\ task'[u] = task[u]
      /\ \A u \in Tasks : task'[u].op = "part" /\ task'[u].part # p => u # t /\ task'[u] = task[u]
  <2>1. task[t].list = <<>>
    BY TaskFacts DEF Shaped
  <2>2. task'[t].list = <<>>
    BY FreeFacts DEF Base, Shapes, Shaped
  <2> QED
    BY <2>1, <2>2, FreeFacts DEF OnlyTask
<1>2. OneUpload'
  BY <1>1 DEF Pieces, OneUpload
<1>3. ListedAlone'
  BY <1>1 DEF Pieces, ListedAlone
<1>4. PartFiles'
  <2> SUFFICES ASSUME NEW q \in Parts, q \notin mixed', q # p PROVE PartFile(q)'
    BY DEF PartFiles
  <2>1. PartFile(q)
    BY DEF Pieces, PartFiles
  <2> QED
    BY <1>1, <2>1 DEF PartFile, OfOneBody
<1>5. CopiedAll'
  <2> SUFFICES ASSUME NEW u \in Tasks, task'[u].op = "complete"
               PROVE  Copied(task'[u], mixed', staged'.file)
    BY DEF CopiedAll
  <2>1. task'[u] = task[u] /\ Copied(task[u], mixed, staged.file)
    BY <1>1 DEF Pieces, CopiedAll
  <2>2. ASSUME task[u].pc = "copy"
        PROVE  LET w == task[u].list[Len(task[u].got) + 1]
               IN  w[1] \in mixed' \/ staged'.file[w[1]] \in {0, w[2]}
    <3> DEFINE w == task[u].list[Len(task[u].got) + 1]
    <3>1. /\ task[u].op = "complete" /\ Len(task[u].got) < Len(task[u].list)
          /\ Len(task[u].got) \in Nat /\ Len(task[u].list) \in Nat
          /\ task[u].list \in Seq(Parts \X Bodies)
      BY <2>1, <2>2, TaskFacts DEF Shaped, Task
    <3>2. w[1] \in Parts /\ Len(task[u].got) + 1 \in 1 .. Len(task[u].list)
      BY <3>1
    <3>3. w[1] \in mixed \/ staged.file[w[1]] \in {0, w[2]}
      BY <2>1, <2>2 DEF Copied
    <3>4. p \in mixed \/ w[1] # p
      BY <3>2 DEF Pieces, ListedAlone
    <3> HIDE DEF w
    <3>5. w[1] \in mixed' \/ staged'.file[w[1]] \in {0, w[2]}
      BY <3>2, <3>3, <3>4
    <3> QED
      BY <3>5 DEF w
  <2> QED
    BY <2>1, <2>2 DEF Copied
<1> QED
  BY <1>2, <1>3, <1>4, <1>5 DEF Pieces

LEMMA PartFilePieces ==
  ASSUME Base, Pieces, NEW t \in Tasks, FsPartFile(t) \/ ErasurePartFile(t)
  PROVE  Pieces'
<1>1. /\ Base' /\ OnlyTask(t) /\ task[t].op = "part" /\ mixed' = mixed /\ faithful' = faithful
      /\ littered' = littered /\ staged' \in StagedType /\ staged \in StagedType
  BY FsPartFileBase, ErasurePartFileBase, TaskFacts DEF FsPartFile, ErasurePartFile
<1>0. task[t].part \in Parts /\ task[t].body \in Nat
  BY <1>1, TaskFacts DEF Shaped
<1> PICK p \in Parts : p = task[t].part
  BY <1>0
<1>2. p \in Parts /\ task[t].body \in Nat
  BY <1>0
<1>3. /\ \A q \in Parts \ {p} : staged'.file[q] = staged.file[q] /\ staged'.meta[q] = staged.meta[q]
      /\ staged'.manifest = staged.manifest
  <2>1. CASE FsPartFile(t)
    BY <1>1, <1>2, <2>1 DEF FsPartFile, StagedType
  <2>2. CASE ErasurePartFile(t) /\ staged.dir
    BY <1>1, <1>2, <2>2 DEF ErasurePartFile, StagedType
  <2>3. CASE ErasurePartFile(t) /\ ~staged.dir
    <3>1. staged' = staged
      BY <2>3 DEF ErasurePartFile
    <3> QED
      BY <3>1
  <2> QED
    BY <2>1, <2>2, <2>3
<1>4. \/ task'[t] = Free /\ staged' = staged /\ task[t].pc = "file"
      \/ Moved(t, "stream")
      \/ Moved(t, "meta") /\ OfOneBody(p, task[t].body)'
  <2>1. CASE FsPartFile(t)
    <3>1. Moved(t, "meta")
      BY <2>1, FsPartFileBase
    <3>2. staged'.file[p] = task[t].body
      BY <1>1, <1>2, <2>1 DEF FsPartFile, StagedType
    <3> QED
      BY <3>1, <3>2 DEF OfOneBody, Moved
  <2>2. CASE ErasurePartFile(t) /\ task[t].pc = "file"
    BY <2>2, ErasurePartFileBase
  <2>3. CASE ErasurePartFile(t) /\ task[t].pc = "stream"
    <3>1. Moved(t, "meta")
      BY <2>3, ErasurePartFileBase
    <3>2. CASE staged.dir
      <4>1. staged'.file[p] = task[t].body
        BY <1>1, <1>2, <2>3, <3>2 DEF ErasurePartFile, StagedType
      <4> QED
        BY <3>1, <4>1 DEF OfOneBody, Moved
    <3>3. CASE ~staged.dir
      <4>1. staged' = staged /\ staged = Empty
        BY <2>3, <3>3 DEF ErasurePartFile, Base, Staging
      <4> QED
        BY <1>2, <3>1, <4>1, EmptyFacts DEF OfOneBody, Moved
    <3> QED
      BY <3>2, <3>3
  <2> QED
    BY <2>1, <2>2, <2>3 DEF ErasurePartFile
<1>5. p \notin mixed => \A u \in Tasks : task[u].op = "part" /\ task[u].part = p => u = t
  BY <1>1 DEF Pieces, OneUpload
<1>6. p \notin mixed' => PartFile(p)'
  <2> SUFFICES ASSUME p \notin mixed PROVE PartFile(p)'
    BY <1>1
  <2>1. CASE task'[t] = Free /\ staged' = staged /\ task[t].pc = "file"
    <3>1. PartFile(p)
      BY <1>2 DEF Pieces, PartFiles
    <3> QED
      BY <1>1, <1>5, <2>1, <3>1, FreeFacts DEF PartFile, OfOneBody, OnlyTask, Moved
  <2>2. CASE Moved(t, "stream")
    BY <1>1, <1>5, <2>2 DEF PartFile, OnlyTask, Moved
  <2>3. CASE Moved(t, "meta") /\ OfOneBody(p, task[t].body)'
    BY <1>1, <1>5, <2>3 DEF PartFile, OnlyTask, Moved
  <2> QED
    BY <1>4, <2>1, <2>2, <2>3
<1>7. task'[t] = Free \/ (task'[t].op = "part" /\ task'[t].part = p)
  BY <1>1, <1>4 DEF Moved
<1> QED
  BY <1>1, <1>2, <1>3, <1>6, <1>7, UploadPieces

LEMMA PartMetaPieces ==
  ASSUME Base, Pieces, NEW t \in Tasks, PartMeta(t)
  PROVE  Pieces'
<1>1. /\ Base' /\ OnlyTask(t) /\ task[t].op = "part" /\ task[t].pc = "meta" /\ task'[t] = Free
      /\ mixed' = mixed /\ faithful' = faithful /\ staged' \in StagedType /\ staged \in StagedType
      /\ littered' = littered
  BY PartMetaBase, TaskFacts DEF PartMeta
<1>0. task[t].part \in Parts /\ task[t].body \in Nat
  BY <1>1, TaskFacts DEF Shaped
<1> PICK p \in Parts : p = task[t].part
  BY <1>0
<1>2. /\ \A q \in Parts \ {p} : staged'.file[q] = staged.file[q] /\ staged'.meta[q] = staged.meta[q]
      /\ staged'.manifest = staged.manifest /\ staged'.file = staged.file
      /\ (staged'.meta[p] = task[t].body \/ (staged' = staged /\ staged = Empty))
  <2>1. CASE staged.dir
    <3>1. staged' = [staged EXCEPT !.meta[p] = task[t].body]
      BY <2>1 DEF PartMeta
    <3>2. staged'.file = staged.file /\ staged'.manifest = staged.manifest
      BY <1>1, <3>1 DEF StagedType
    <3>3. staged'.meta = [staged.meta EXCEPT ![p] = task[t].body]
      BY <1>1, <3>1 DEF StagedType
    <3>4. staged.meta \in [Parts -> 0 .. MaxOps]
      BY <1>1 DEF StagedType
    <3> QED
      BY <3>2, <3>3, <3>4
  <2>2. CASE ~staged.dir
    <3>1. staged' = staged /\ staged = Empty
      BY <2>2 DEF PartMeta, Base, Staging
    <3> QED
      BY <3>1
  <2> QED
    BY <2>1, <2>2
<1>3. p \notin mixed' => PartFile(p)'
  <2> SUFFICES ASSUME p \notin mixed PROVE PartFile(p)'
    BY <1>1
  <2>1. OfOneBody(p, task[t].body)
    BY <1>1 DEF Pieces, PartFiles, PartFile
  <2>2. \A u \in Tasks : ~(task'[u].op = "part" /\ task'[u].part = p)
    BY <1>1, FreeFacts DEF Pieces, OneUpload, OnlyTask
  <2>3. staged'.meta[p] # 0 => staged'.meta[p] = task[t].body
    BY <1>2, EmptyFacts
  <2> QED
    BY <1>1, <1>2, <2>1, <2>2, <2>3 DEF PartFile, OfOneBody
<1> QED
  BY <1>1, <1>2, <1>3, UploadPieces

LEMMA CutPieces ==
  ASSUME Base, Pieces, NEW t \in Tasks, Cut(t)
  PROVE  Pieces'
<1>1. /\ Base' /\ OnlyTask(t) /\ task'[t] = Free /\ staged' = staged /\ faithful' = faithful
      /\ littered' = littered
  BY CutBase DEF Cut
<1>2. CASE task[t].op # "part"
  <2>1. mixed' = mixed /\ faithful' /\ task'[t].op # "part" /\ task'[t].op # "complete"
        /\ task'[t].list = <<>>
    BY <1>1, <1>2, FreeFacts DEF Cut, Pieces
  <2> QED
    BY <1>1, <1>2, <2>1, QuietPieces
<1>3. CASE task[t].op = "part"
  <2>0. task[t].part \in Parts
    BY <1>3, TaskFacts DEF Shaped
  <2> PICK p \in Parts : p = task[t].part
    BY <2>0
  <2>1. mixed' \in {mixed, mixed \cup {p}} /\ (p \notin mixed' => task[t].pc = "file" /\ p \notin mixed)
    BY <1>3 DEF Cut
  <2>2. p \notin mixed' => PartFile(p)'
    <3> SUFFICES ASSUME p \notin mixed' PROVE PartFile(p)'
      OBVIOUS
    <3>1. PartFile(p) /\ task[t].pc = "file"
      BY <2>1 DEF Pieces, PartFiles
    <3>2. \A u \in Tasks : task[u].op = "part" /\ task[u].part = p => u = t
      BY <1>3, <2>1 DEF Pieces, OneUpload
    <3>3. staged.meta[p] # 0 => OfOneBody(p, staged.meta[p])
      BY <3>1, <3>2 DEF PartFile
    <3>4. \A u \in Tasks : ~(task'[u].op = "part" /\ task'[u].part = p)
      BY <1>1, <3>2, FreeFacts DEF OnlyTask
    <3> QED
      BY <1>1, <3>3, <3>4 DEF PartFile, OfOneBody
  <2> QED
    BY <1>1, <1>3, <2>1, <2>2, UploadPieces
<1> QED
  BY <1>2, <1>3

LEMMA RemovalPieces ==
  ASSUME Base, Pieces, NEW t \in Tasks, Clean(t) \/ AbortRemove(t)
  PROVE  Pieces'
<1>1. /\ OnlyTask(t) /\ task'[t] = Free /\ staged' = Empty /\ mixed' = mixed /\ faithful' = faithful
  BY RemovalBase
<1>2. \A u \in Tasks : task'[u] = Free \/ task'[u] = task[u]
  BY <1>1 DEF OnlyTask
<1>3. OneUpload' /\ ListedAlone'
  BY <1>1, <1>2, FreeFacts DEF Pieces, OneUpload, ListedAlone
<1>4. PartFiles'
  BY <1>1, EmptyFacts DEF PartFiles, PartFile, OfOneBody
<1>5. CopiedAll'
  <2> SUFFICES ASSUME NEW u \in Tasks, task'[u].op = "complete"
               PROVE  Copied(task'[u], mixed', staged'.file)
    BY DEF CopiedAll
  <2>1. task'[u] = task[u] /\ Copied(task[u], mixed, staged.file)
    BY <1>2, FreeFacts DEF Pieces, CopiedAll
  <2>2. task[u].pc = "copy" => task[u].list[Len(task[u].got) + 1][1] \in Parts
    <3> SUFFICES ASSUME task[u].pc = "copy" PROVE task[u].list[Len(task[u].got) + 1][1] \in Parts
      OBVIOUS
    <3>1. /\ Len(task[u].got) < Len(task[u].list)
          /\ Len(task[u].got) \in Nat /\ Len(task[u].list) \in Nat
          /\ task[u].list \in Seq(Parts \X Bodies)
      BY <2>1, TaskFacts DEF Shaped, Task
    <3> QED
      BY <3>1
  <2> QED
    BY <1>1, <2>1, <2>2, EmptyFacts DEF Copied
<1> QED
  BY <1>1, <1>3, <1>4, <1>5 DEF Pieces

LEMMA RemovalFailsPieces ==
  ASSUME Base, Pieces, NEW t \in Tasks, RemovalFails(t)
  PROVE  Pieces'
<1>1. /\ OnlyTask(t) /\ task'[t] = Free /\ Shed /\ littered' /\ mixed' = mixed /\ faithful' = faithful
  BY RemovalFailsBase
<1>2. \A u \in Tasks : task'[u] = Free \/ task'[u] = task[u]
  BY <1>1 DEF OnlyTask
<1>3. OneUpload' /\ ListedAlone'
  BY <1>1, <1>2, FreeFacts DEF Pieces, OneUpload, ListedAlone
<1>4. PartFiles'
  <2> SUFFICES ASSUME NEW p \in Parts, p \notin mixed PROVE PartFile(p)'
    BY <1>1 DEF PartFiles
  <2>1. PartFile(p)
    BY DEF Pieces, PartFiles
  <2>2. /\ staged'.file[p] \in {0, staged.file[p]}
        /\ staged'.meta[p] # 0 => staged'.meta[p] = staged.meta[p]
    BY <1>1 DEF Shed
  <2>3. task[t].op # "part"
    BY TaskFacts DEF RemovalFails, Shaped
  <2>4. \A u \in Tasks : /\ task'[u].op = "part" => task'[u] = task[u]
                         /\ task[u].op = "part" => task'[u] = task[u]
    BY <1>1, <2>3, FreeFacts DEF OnlyTask
  <2> QED
    BY <1>1, <2>1, <2>2, <2>4 DEF PartFile, OfOneBody
<1>5. CopiedAll'
  <2> SUFFICES ASSUME NEW u \in Tasks, task'[u].op = "complete"
               PROVE  Copied(task'[u], mixed', staged'.file)
    BY DEF CopiedAll
  <2>1. task'[u] = task[u] /\ Copied(task[u], mixed, staged.file)
    BY <1>2, FreeFacts DEF Pieces, CopiedAll
  <2>2. task[u].pc = "copy" => task[u].list[Len(task[u].got) + 1][1] \in Parts
    <3> SUFFICES ASSUME task[u].pc = "copy" PROVE task[u].list[Len(task[u].got) + 1][1] \in Parts
      OBVIOUS
    <3>1. /\ Len(task[u].got) < Len(task[u].list)
          /\ Len(task[u].got) \in Nat /\ Len(task[u].list) \in Nat
          /\ task[u].list \in Seq(Parts \X Bodies)
      BY <2>1, TaskFacts DEF Shaped, Task
    <3> QED
      BY <3>1
  <2>3. \A p \in Parts : staged'.file[p] \in {0, staged.file[p]}
    BY <1>1 DEF Shed
  <2> QED
    BY <1>1, <2>1, <2>2, <2>3 DEF Copied
<1> QED
  BY <1>1, <1>3, <1>4, <1>5 DEF Pieces

LEMMA CreatePieces ==
  ASSUME Base, Pieces, CreateMultipart
  PROVE  Pieces'
<1>1. /\ staged = Empty /\ staged' = [staged EXCEPT !.dir = TRUE, !.manifest = TRUE]
      /\ spent.ops = 0 /\ UNCHANGED <<task, mixed, littered, faithful>>
  BY DEF CreateMultipart
<1>2. staged'.file = Empty.file /\ staged'.meta = Empty.meta
  BY <1>1 DEF Empty
<1>3. \A t \in Tasks : task[t].op # "part"
  BY <1>1 DEF Base, Shapes, Shaped
<1>4. PartFiles'
  BY <1>1, <1>2, <1>3, EmptyFacts DEF PartFiles, PartFile, OfOneBody
<1> QED
  BY <1>1, <1>2, <1>4 DEF Pieces, OneUpload, ListedAlone, CopiedAll

LEMMA CompletionPieces ==
  ASSUME Base, Pieces, NEW t \in Tasks, Lock(t) \/ VerifyPart(t) \/ CopyPart(t) \/ Publish(t)
  PROVE  Pieces'
<1>0. task[t].op = "complete" => Copied(task[t], mixed, staged.file)
  BY DEF Pieces, CopiedAll
<1>1. CASE Lock(t)
  <2>1. /\ Base' /\ OnlyTask(t) /\ task[t].op \in {"complete", "put"}
        /\ Moved(t, IF task[t].op = "complete" THEN "verify" ELSE "write")
    BY <1>1, LockBase
  <2>2. staged' = staged /\ mixed' = mixed /\ littered' = littered /\ faithful'
    BY <1>1 DEF Lock, Pieces
  <2>3. task'[t].op = "complete" => Copied(task'[t], mixed, staged.file)
    BY <1>0, <2>1 DEF Copied, Moved
  <2> QED
    BY <2>1, <2>2, <2>3, QuietPieces DEF Moved
<1>2. CASE VerifyPart(t)
  <2>1. /\ Base' /\ OnlyTask(t)
        /\ task[t].op = "complete" /\ task[t].pc = "verify" /\ Len(task[t].got) < Len(task[t].list)
        /\ \/ staged.meta[Wanted(t)[1]] = Wanted(t)[2] /\ Moved(t, "copy")
           \/ task'[t] = Free
    BY <1>2, VerifyPartBase
  <2>2. staged' = staged /\ mixed' = mixed /\ littered' = littered /\ faithful'
    BY <1>2 DEF VerifyPart, Pieces
  <2>3. task'[t].op = "complete" => Copied(task'[t], mixed, staged.file)
    <3>1. CASE task'[t] = Free
      BY <3>1, FreeFacts
    <3>2. CASE staged.meta[Wanted(t)[1]] = Wanted(t)[2] /\ Moved(t, "copy")
      <4> DEFINE w == Wanted(t)
      <4>1. /\ Len(task[t].got) \in Nat /\ Len(task[t].list) \in Nat
            /\ task[t].list \in Seq(Parts \X Bodies)
        BY TaskFacts DEF Task
      <4>2. /\ Len(task[t].got) + 1 \in 1 .. Len(task[t].list)
            /\ w[1] \in Parts /\ w[2] \in Bodies
        BY <2>1, <4>1 DEF Wanted
      <4>3. w[1] \notin mixed => \A u \in Tasks : ~(task[u].op = "part" /\ task[u].part = w[1])
        BY <4>2 DEF Pieces, ListedAlone, Wanted
      <4>4. w[1] \notin mixed => OfOneBody(w[1], w[2])
        <5> SUFFICES ASSUME w[1] \notin mixed PROVE OfOneBody(w[1], w[2])
          OBVIOUS
        <5>1. PartFile(w[1])
          BY <4>2 DEF Pieces, PartFiles
        <5>2. staged.meta[w[1]] # 0
          BY <3>2, <4>2 DEF Bodies
        <5> QED
          BY <3>2, <4>3, <5>1, <5>2 DEF PartFile
      <4>5. w[1] \in mixed \/ staged.file[w[1]] \in {0, w[2]}
        BY <4>4 DEF OfOneBody
      <4> QED
        BY <1>0, <2>1, <3>2, <4>5 DEF Copied, Moved, Wanted
    <3> QED
      BY <2>1, <3>1, <3>2
  <2>4. task'[t].op # "part" /\ task'[t].list \in {task[t].list, <<>>}
    BY <2>1, FreeFacts DEF Moved
  <2> QED
    BY <2>1, <2>2, <2>3, <2>4, QuietPieces
<1>3. CASE CopyPart(t)
  <2>1. /\ Base' /\ OnlyTask(t)
        /\ task[t].op = "complete" /\ task[t].pc = "copy" /\ Len(task[t].got) < Len(task[t].list)
        /\ \/ /\ staged.file[Wanted(t)[1]] # 0
              /\ task'[t].op = "complete" /\ task'[t].pc = "verify" /\ task'[t].list = task[t].list
              /\ task'[t].got = Append(task[t].got, staged.file[Wanted(t)[1]])
           \/ task'[t] = Free
    BY <1>3, CopyPartBase
  <2>2. staged' = staged /\ mixed' = mixed /\ littered' = littered /\ faithful'
    BY <1>3 DEF CopyPart, Pieces
  <2>3. task'[t].op = "complete" => Copied(task'[t], mixed, staged.file)
    <3>1. CASE task'[t] = Free
      BY <3>1, FreeFacts
    <3>2. CASE task'[t] # Free
      <4> DEFINE f == staged.file[Wanted(t)[1]]
                 g == task[t].got
      <4>1. g \in Seq(1 .. Torn) /\ Len(g) \in Nat
        BY TaskFacts DEF Task
      <4>2. Wanted(t)[1] \in mixed \/ f = Wanted(t)[2]
        BY <1>0, <2>1, <3>2 DEF Copied, Wanted
      <4>3. Len(Append(g, f)) = Len(g) + 1 /\ Append(g, f)[Len(g) + 1] = f
            /\ \A i \in 1 .. Len(g) : Append(g, f)[i] = g[i]
        BY <4>1
      <4>4. ASSUME NEW i \in 1 .. Len(g) + 1
            PROVE  task[t].list[i][1] \in mixed \/ Append(g, f)[i] = task[t].list[i][2]
        <5>1. CASE i \in 1 .. Len(g)
          BY <1>0, <2>1, <4>3, <5>1 DEF Copied
        <5>2. CASE i = Len(g) + 1
          BY <4>2, <4>3, <5>2 DEF Wanted
        <5> QED
          BY <4>1, <5>1, <5>2
      <4> QED
        BY <2>1, <3>2, <4>3, <4>4 DEF Copied
    <3> QED
      BY <3>1, <3>2
  <2>4. task'[t].op # "part" /\ task'[t].list \in {task[t].list, <<>>}
    BY <2>1, FreeFacts
  <2> QED
    BY <2>1, <2>2, <2>3, <2>4, QuietPieces
<1>4. CASE Publish(t)
  <2>1. Base' /\ OnlyTask(t) /\ task[t].op = "complete" /\ Moved(t, "clean")
    BY <1>4, PublishBase
  <2>2. staged' = staged /\ mixed' = mixed /\ littered' = littered /\ Len(task[t].got) = Len(task[t].list)
        /\ faithful' = (faithful /\ AsListed(t))
    BY <1>4 DEF Publish
  <2>3. AsListed(t)
    BY <1>0, <2>1, <2>2 DEF Copied, AsListed
  <2>4. faithful'
    BY <2>2, <2>3 DEF Pieces
  <2>5. Copied(task'[t], mixed, staged.file)
    BY <1>0, <2>1 DEF Copied, Moved
  <2> QED
    BY <2>1, <2>2, <2>4, <2>5, QuietPieces DEF Moved
<1> QED
  BY <1>1, <1>2, <1>3, <1>4

LEMMA OtherPieces ==
  ASSUME Base, Pieces, NEW t \in Tasks, AbortBegin(t) \/ PutBegin(t) \/ PutWrite(t)
  PROVE  Pieces'
<1>1. CASE AbortBegin(t) \/ PutBegin(t)
  <2>1. /\ Base' /\ OnlyTask(t) /\ task[t] = Free /\ task'[t].op \in {"abort", "put"}
        /\ task'[t].list = <<>> /\ UNCHANGED <<staged, mixed, littered, faithful>>
    BY <1>1, OtherBeginBase
  <2> QED
    BY <2>1, FreeFacts, QuietPieces DEF Pieces
<1>2. CASE PutWrite(t)
  <2>1. /\ Base' /\ OnlyTask(t) /\ task[t].op = "put" /\ task'[t] = Free
        /\ UNCHANGED <<staged, mixed, littered, faithful>>
    BY <1>2, PutWriteBase DEF PutWrite
  <2> QED
    BY <2>1, FreeFacts, QuietPieces DEF Pieces
<1> QED
  BY <1>1, <1>2

-----------------------------------------------------------------------------
(* One completion publishes: once the parts are gone nothing that a list     *)
(* names is ever staged again, since a body that is still being uploaded is  *)
(* in no list, unless a part was sent again beside a completion.             *)

Unretried == retried \cap mixed = {}

\* Completion r has copied nothing, and nothing it listed is staged.
Barred(r, meta) ==
  r.op = "complete" => /\ r.pc \in {"lock", "verify"} /\ r.got = <<>>
                       /\ \A i \in 1 .. Len(r.list) : meta[r.list[i][1]] # r.list[i][2]

Over == ~staged.manifest /\ \A t \in Tasks : Barred(task[t], staged.meta)

Once ==
  Unretried =>
    /\ published <= cut + 1
    /\ published = cut + 1 => (\E t \in Tasks : task[t].pc = "clean") \/ Over

\* The steps that neither publish nor clean up.
LEMMA QuietOnce ==
  ASSUME Base, Once, NEW t \in Tasks, OnlyTask(t), task[t].pc # "clean",
         published' = published, cut' = cut, mixed \subseteq mixed', retried \subseteq retried',
         Unretried /\ Over => /\ ~staged'.manifest /\ Barred(task'[t], staged'.meta)
                 /\ \A u \in Tasks \ {t} : Barred(task[u], staged'.meta)
  PROVE  Once'
<1>1. (\E u \in Tasks : task[u].pc = "clean") => (\E u \in Tasks : task'[u].pc = "clean")
  BY DEF OnlyTask
<1>2. Unretried /\ Over => Over'
  BY DEF Over, OnlyTask
<1>3. Unretried' => Unretried
  BY DEF Unretried
<1> QED
  BY <1>1, <1>2, <1>3 DEF Once

\* Without the parts, a completion that does not hold the lock is barred.
LEMMA GoneBars ==
  ASSUME Base, NEW u \in Tasks, task[u].op = "complete" => task[u].pc = "lock"
  PROVE  Barred(task[u], Empty.meta)
<1> SUFFICES ASSUME task[u].op = "complete", task[u].pc = "lock"
             PROVE  /\ task[u].got = <<>>
                    /\ \A i \in 1 .. Len(task[u].list) : Empty.meta[task[u].list[i][1]] # task[u].list[i][2]
  BY DEF Barred
<1>1. task[u].got = <<>> /\ task[u].list \in Seq(Parts \X Bodies)
  BY TaskFacts DEF Shaped, Task
<1>2. ASSUME NEW i \in 1 .. Len(task[u].list)
      PROVE  Empty.meta[task[u].list[i][1]] # task[u].list[i][2]
  <2>1. task[u].list[i] \in Parts \X Bodies
    BY <1>1
  <2>2. task[u].list[i][1] \in Parts /\ task[u].list[i][2] \in 1 .. MaxOps
    BY <2>1 DEF Bodies
  <2> QED
    BY <2>2, EmptyFacts
<1> QED
  BY <1>1, <1>2

LEMMA UploadOnce ==
  ASSUME Base, Pieces, Once, NEW t \in Tasks, FsPartFile(t) \/ ErasurePartFile(t) \/ PartMeta(t)
  PROVE  Once'
<1>1. /\ OnlyTask(t) /\ task[t].op = "part" /\ task'[t].op # "complete"
      /\ published' = published /\ cut' = cut /\ staged' \in StagedType
      /\ mixed' = mixed /\ retried' = retried
  <2>1. CASE FsPartFile(t)
    BY <2>1, FsPartFileBase DEF FsPartFile, Moved
  <2>2. CASE ErasurePartFile(t)
    BY <2>2, ErasurePartFileBase, FreeFacts DEF ErasurePartFile, Moved
  <2>3. CASE PartMeta(t)
    BY <2>3, PartMetaBase, FreeFacts DEF PartMeta
  <2> QED
    BY <2>1, <2>2, <2>3
<1>2. task[t].pc # "clean" /\ task[t].part \in Parts
  BY <1>1, TaskFacts DEF Shaped
<1>3. staged \in StagedType
  BY TaskFacts
<1>4. /\ staged'.manifest = staged.manifest
      /\ \/ staged'.meta = staged.meta
         \/ staged'.meta = [staged.meta EXCEPT ![task[t].part] = task[t].body]
  <2>1. CASE FsPartFile(t)
    BY <1>3, <2>1 DEF FsPartFile, StagedType
  <2>2. CASE ErasurePartFile(t)
    BY <1>3, <2>2 DEF ErasurePartFile, StagedType
  <2>3. CASE PartMeta(t) /\ staged.dir
    <3>1. staged' = [staged EXCEPT !.meta[task[t].part] = task[t].body]
      BY <2>3 DEF PartMeta
    <3> QED
      BY <1>3, <3>1 DEF StagedType
  <2>4. CASE PartMeta(t) /\ ~staged.dir
    <3>1. staged' = staged
      BY <2>4 DEF PartMeta
    <3> QED
      BY <3>1
  <2> QED
    BY <2>1, <2>2, <2>3, <2>4
<1>5. ASSUME Unretried, NEW u \in Tasks \ {t}, Barred(task[u], staged.meta)
      PROVE  Barred(task[u], staged'.meta)
  <2> SUFFICES ASSUME task[u].op = "complete", NEW i \in 1 .. Len(task[u].list)
               PROVE  staged'.meta[task[u].list[i][1]] # task[u].list[i][2]
    BY <1>5 DEF Barred
  <2>1. task[u].list[i] \in acked
    BY TaskFacts DEF Shaped
  <2>2. task[u].list[i][1] \in Parts
    BY <2>1 DEF Base, Types
  <2>3. task[u].list[i][1] = task[t].part => task[u].list[i][2] # task[t].body
    <3> SUFFICES ASSUME task[u].list[i][1] = task[t].part PROVE task[u].list[i][2] # task[t].body
      OBVIOUS
    <3>1. task[t].part \in mixed
      BY <1>1 DEF Pieces, ListedAlone
    <3>2. task[t].part \notin retried
      BY <1>5, <3>1 DEF Unretried
    <3> QED
      BY <1>1, <2>1, <3>2 DEF Base, FreshBodies
  <2>4. staged.meta[task[u].list[i][1]] # task[u].list[i][2]
    BY <1>5 DEF Barred
  <2>5. staged.meta \in [Parts -> 0 .. MaxOps]
    BY <1>3 DEF StagedType
  <2> QED
    BY <1>4, <2>2, <2>3, <2>4, <2>5
<1>6. Unretried /\ Over => /\ ~staged'.manifest /\ Barred(task'[t], staged'.meta)
              /\ \A u \in Tasks \ {t} : Barred(task[u], staged'.meta)
  BY <1>1, <1>4, <1>5 DEF Over, Barred
<1> QED
  BY <1>1, <1>2, <1>6, QuietOnce

LEMMA BeginOnce ==
  ASSUME Base, Once, NEW t \in Tasks,
         \/ \E p \in Parts : \E body \in 1 .. NewBody : UploadBegin(t, p, body)
         \/ \E list \in Lists : CompleteBegin(t, list)
         \/ AbortBegin(t) \/ PutBegin(t)
  PROVE  Once'
<1>1. /\ OnlyTask(t) /\ task[t] = Free /\ published' = published /\ cut' = cut /\ staged' = staged
      /\ mixed \subseteq mixed' /\ retried \subseteq retried'
      /\ (task'[t].op # "complete" \/ staged.manifest)
  <2>1. CASE \E p \in Parts : \E body \in 1 .. NewBody : UploadBegin(t, p, body)
    <3> PICK p \in Parts, body \in 1 .. NewBody : UploadBegin(t, p, body)
      BY <2>1
    <3>1. OnlyTask(t) /\ task'[t].op = "part"
      BY UploadBeginBase
    <3> QED
      BY <3>1 DEF UploadBegin, Begin
  <2>2. CASE \E list \in Lists : CompleteBegin(t, list)
    BY <2>2, CompleteBeginBase DEF CompleteBegin, Begin
  <2>3. CASE AbortBegin(t) \/ PutBegin(t)
    BY <2>3, OtherBeginBase
  <2> QED
    BY <2>1, <2>2, <2>3
<1>2. Over => /\ ~staged'.manifest /\ Barred(task'[t], staged'.meta)
              /\ \A u \in Tasks \ {t} : Barred(task[u], staged'.meta)
  BY <1>1 DEF Over, Barred
<1> QED
  BY <1>1, <1>2, FreeFacts, QuietOnce

LEMMA CompletionOnce ==
  ASSUME Base, Once, NEW t \in Tasks, Lock(t) \/ VerifyPart(t) \/ CopyPart(t)
  PROVE  Once'
<1>1. /\ OnlyTask(t) /\ task[t].pc # "clean" /\ published' = published /\ cut' = cut
      /\ staged' = staged /\ mixed' = mixed /\ retried' = retried
  BY LockBase, VerifyPartBase, CopyPartBase DEF Lock, VerifyPart, CopyPart
<1>2. ASSUME Over PROVE Barred(task'[t], staged.meta)
  <2>0. Barred(task[t], staged.meta)
    BY <1>2 DEF Over
  <2>1. CASE Lock(t)
    BY <2>0, <2>1, LockBase DEF Barred, Moved
  <2>2. CASE VerifyPart(t)
    <3>1. /\ task[t].op = "complete" /\ Len(task[t].got) < Len(task[t].list)
          /\ \/ staged.meta[Wanted(t)[1]] = Wanted(t)[2] /\ Moved(t, "copy")
             \/ task'[t] = Free
      BY <2>2, VerifyPartBase
    <3>2. Len(task[t].got) \in Nat /\ Len(task[t].list) \in Nat
      BY TaskFacts DEF Task
    <3>3. Len(task[t].got) + 1 \in 1 .. Len(task[t].list)
      BY <3>1, <3>2
    <3>4. staged.meta[Wanted(t)[1]] # Wanted(t)[2]
      BY <2>0, <3>1, <3>3 DEF Barred, Wanted
    <3> QED
      BY <3>1, <3>4, FreeFacts DEF Barred
  <2>3. CASE CopyPart(t)
    BY <2>0, <2>3, CopyPartBase DEF Barred
  <2> QED
    BY <2>1, <2>2, <2>3
<1>3. Over => /\ ~staged'.manifest /\ Barred(task'[t], staged'.meta)
              /\ \A u \in Tasks \ {t} : Barred(task[u], staged'.meta)
  BY <1>1, <1>2 DEF Over
<1> QED
  BY <1>1, <1>3, QuietOnce

LEMMA PublishOnce ==
  ASSUME Base, Once, NEW t \in Tasks, Publish(t)
  PROVE  Once'
<1>1. /\ task[t].op = "complete" /\ task[t].pc = "verify" /\ task'[t].pc = "clean"
      /\ Len(task[t].got) = Len(task[t].list) /\ published' = published + 1 /\ cut' = cut
      /\ mixed' = mixed /\ retried' = retried
  BY PublishBase DEF Publish, Moved
<1>0. Unretried' = Unretried
  BY <1>1 DEF Unretried
<1>2. Unretried => published # cut + 1
  <2>1. ASSUME NEW u \in Tasks, task[u].pc = "clean" PROVE FALSE
    <3>1. holder = {u} /\ holder = {t}
      BY <1>1, <2>1 DEF Base, Locked
    <3> QED
      BY <1>1, <2>1, <3>1
  <2>2. ~Over
    <3>1. task[t].list # <<>> /\ task[t].list \in Seq(Parts \X Bodies)
      BY <1>1, TaskFacts DEF Shaped, Task
    <3>2. Len(task[t].list) # 0
      BY <3>1
    <3> QED
      BY <1>1, <3>2 DEF Over, Barred
  <2> QED
    BY <2>1, <2>2 DEF Once
<1>3. published \in Nat /\ cut \in Nat
  BY DEF Base, Types
<1> QED
  BY <1>0, <1>1, <1>2, <1>3 DEF Once

LEMMA EndOnce ==
  ASSUME Base, Once, NEW t \in Tasks,
         Clean(t) \/ AbortRemove(t) \/ RemovalFails(t) \/ PutWrite(t) \/ Cut(t)
  PROVE  Once'
<1>1. CASE Clean(t)
  <2>1. OnlyTask(t) /\ task'[t] = Free /\ staged' = Empty /\ published' = published /\ cut' = cut
        /\ Unretried' = Unretried
    BY <1>1, RemovalBase DEF Unretried
  <2>2. holder = {t}
    BY <1>1 DEF Clean, Base, Locked
  <2>3. ASSUME NEW u \in Tasks \ {t} PROVE Barred(task[u], Empty.meta)
    <3>1. task[u].op = "complete" => task[u].pc = "lock"
      BY <2>2, TaskFacts DEF Base, Locked, Shaped
    <3> QED
      BY <3>1, GoneBars
  <2>4. Barred(Free, Empty.meta)
    BY FreeFacts DEF Barred
  <2>5. Over'
    BY <2>1, <2>3, <2>4, EmptyFacts DEF Over, OnlyTask
  <2> QED
    BY <2>1, <2>5 DEF Once
<1>2. CASE AbortRemove(t)
  <2>1. OnlyTask(t) /\ task'[t] = Free /\ staged' = Empty /\ published' = published /\ cut' = cut
        /\ mixed' = mixed /\ retried' = retried
    BY <1>2, RemovalBase
  <2>2. ASSUME NEW u \in Tasks \ {t}, Over PROVE Barred(task[u], Empty.meta)
    <3>1. CASE task[u].op # "complete"
      BY <3>1 DEF Barred
    <3>2. CASE task[u].op = "complete"
      <4>1. task[u].pc \in {"lock", "verify"} /\ task[u].got = <<>>
        BY <2>2, <3>2 DEF Over, Barred
      <4>2. task[u].list \in Seq(Parts \X Bodies)
        BY TaskFacts DEF Task
      <4>3. ASSUME NEW i \in 1 .. Len(task[u].list)
            PROVE  Empty.meta[task[u].list[i][1]] # task[u].list[i][2]
        <5>1. task[u].list[i] \in Parts \X Bodies
          BY <4>2
        <5>2. task[u].list[i][1] \in Parts /\ task[u].list[i][2] \in 1 .. MaxOps
          BY <5>1 DEF Bodies
        <5> QED
          BY <5>2, EmptyFacts
      <4> QED
        BY <4>1, <4>3 DEF Barred
    <3> QED
      BY <3>1, <3>2
  <2>3. Barred(Free, Empty.meta) /\ task[t].pc # "clean"
    BY <1>2, FreeFacts DEF Barred, AbortRemove
  <2>4. Over => /\ ~staged'.manifest /\ Barred(task'[t], staged'.meta)
                /\ \A u \in Tasks \ {t} : Barred(task[u], staged'.meta)
    BY <2>1, <2>2, <2>3, EmptyFacts
  <2> QED
    BY <2>1, <2>3, <2>4, QuietOnce
<1>3. CASE PutWrite(t) \/ (Cut(t) /\ task[t].pc # "clean")
  <2>1. /\ OnlyTask(t) /\ task'[t] = Free /\ staged' = staged /\ published' = published /\ cut' = cut
        /\ task[t].pc # "clean" /\ mixed \subseteq mixed' /\ retried \subseteq retried'
    BY <1>3, PutWriteBase, CutBase DEF PutWrite, Cut
  <2>2. Over => /\ ~staged'.manifest /\ Barred(task'[t], staged'.meta)
                /\ \A u \in Tasks \ {t} : Barred(task[u], staged'.meta)
    BY <2>1, FreeFacts DEF Over, Barred
  <2> QED
    BY <2>1, <2>2, QuietOnce
<1>4. CASE (Cut(t) \/ RemovalFails(t)) /\ task[t].pc = "clean"
  <2>1. /\ published' = published /\ cut' = cut + 1 /\ published \in Nat /\ cut \in Nat
        /\ mixed \subseteq mixed' /\ retried \subseteq retried'
    BY <1>4 DEF Cut, RemovalFails, Base, Types
  <2>2. Unretried' => Unretried
    BY <2>1 DEF Unretried
  <2> QED
    BY <2>1, <2>2 DEF Once
<1>5. CASE RemovalFails(t) /\ task[t].pc # "clean"
  <2>1. /\ OnlyTask(t) /\ task'[t] = Free /\ Shed /\ published' = published /\ cut' = cut
        /\ mixed' = mixed /\ retried' = retried
    BY <1>5, RemovalFailsBase DEF RemovalFails
  <2>2. ASSUME NEW u \in Tasks, Barred(task[u], staged.meta) PROVE Barred(task[u], staged'.meta)
    <3> SUFFICES ASSUME task[u].op = "complete", NEW i \in 1 .. Len(task[u].list)
                 PROVE  staged'.meta[task[u].list[i][1]] # task[u].list[i][2]
      BY <2>2 DEF Barred
    <3>1. task[u].list[i] \in acked
      BY TaskFacts DEF Shaped
    <3>2. task[u].list[i][1] \in Parts /\ task[u].list[i][2] \in 1 .. MaxOps
      BY <3>1 DEF Base, Types, Bodies
    <3>3. staged'.meta[task[u].list[i][1]] \in {0, staged.meta[task[u].list[i][1]]}
      BY <2>1, <3>2 DEF Shed
    <3>4. staged.meta[task[u].list[i][1]] # task[u].list[i][2]
      BY <2>2 DEF Barred
    <3> QED
      BY <3>2, <3>3, <3>4
  <2>3. Barred(Free, staged'.meta)
    BY FreeFacts DEF Barred
  <2>4. Unretried /\ Over => /\ ~staged'.manifest /\ Barred(task'[t], staged'.meta)
                             /\ \A u \in Tasks \ {t} : Barred(task[u], staged'.meta)
    BY <2>1, <2>2, <2>3 DEF Over, Shed
  <2> QED
    BY <1>5, <2>1, <2>4, QuietOnce
<1> QED
  BY <1>1, <1>2, <1>3, <1>4, <1>5

LEMMA CreateOnce ==
  ASSUME Base, Once, CreateMultipart
  PROVE  Once'
<1>1. published' = 0 /\ cut' \in Nat
  BY DEF CreateMultipart, Base, Types, Staging
<1>0. \A n \in Nat : 0 <= n + 1 /\ 0 # n + 1
  OBVIOUS
<1>2. published' <= cut' + 1 /\ published' # cut' + 1
  BY <1>0, <1>1
<1> QED
  BY <1>2 DEF Once

-----------------------------------------------------------------------------
IInv == Base /\ Pieces /\ Once

LEMMA InitIInv == Init => IInv
<1> SUFFICES ASSUME Init PROVE IInv
  OBVIOUS
<1>1. Base
  BY BaseInit
<1>2. \A t \in Tasks : task[t] = Free
  BY DEF Init
<1>3. Pieces
  BY <1>2, FreeFacts, EmptyFacts
     DEF Init, Pieces, OneUpload, ListedAlone, PartFiles, PartFile, CopiedAll
<1>4. Once
  BY DEF Init, Once
<1> QED
  BY <1>1, <1>3, <1>4 DEF IInv

LEMMA StepIInv == IInv /\ [Next]_vars => IInv'
<1> SUFFICES ASSUME Base, Pieces, Once, [Next]_vars PROVE Base' /\ Pieces' /\ Once'
  BY DEF IInv
<1>1. CASE CreateMultipart
  BY <1>1, CreateBase, CreatePieces, CreateOnce
<1>2. ASSUME NEW t \in Tasks, NEW p \in Parts, NEW body \in 1 .. NewBody, UploadBegin(t, p, body)
      PROVE Base' /\ Pieces' /\ Once'
  BY <1>2, UploadBeginBase, UploadBeginPieces, BeginOnce
<1>3. ASSUME NEW t \in Tasks, FsPartFile(t) PROVE Base' /\ Pieces' /\ Once'
  BY <1>3, FsPartFileBase, PartFilePieces, UploadOnce
<1>4. ASSUME NEW t \in Tasks, ErasurePartFile(t) PROVE Base' /\ Pieces' /\ Once'
  BY <1>4, ErasurePartFileBase, PartFilePieces, UploadOnce
<1>5. ASSUME NEW t \in Tasks, PartMeta(t) PROVE Base' /\ Pieces' /\ Once'
  BY <1>5, PartMetaBase, PartMetaPieces, UploadOnce
<1>6. ASSUME NEW t \in Tasks, NEW list \in Lists, CompleteBegin(t, list) PROVE Base' /\ Pieces' /\ Once'
  BY <1>6, CompleteBeginBase, CompleteBeginPieces, BeginOnce
<1>7. ASSUME NEW t \in Tasks, Lock(t) PROVE Base' /\ Pieces' /\ Once'
  BY <1>7, LockBase, CompletionPieces, CompletionOnce
<1>8. ASSUME NEW t \in Tasks, VerifyPart(t) PROVE Base' /\ Pieces' /\ Once'
  BY <1>8, VerifyPartBase, CompletionPieces, CompletionOnce
<1>9. ASSUME NEW t \in Tasks, CopyPart(t) PROVE Base' /\ Pieces' /\ Once'
  BY <1>9, CopyPartBase, CompletionPieces, CompletionOnce
<1>10. ASSUME NEW t \in Tasks, Publish(t) PROVE Base' /\ Pieces' /\ Once'
  BY <1>10, PublishBase, CompletionPieces, PublishOnce
<1>11. ASSUME NEW t \in Tasks, Clean(t) \/ AbortRemove(t) PROVE Base' /\ Pieces' /\ Once'
  BY <1>11, RemovalBase, RemovalPieces, EndOnce
<1>12. ASSUME NEW t \in Tasks, AbortBegin(t) \/ PutBegin(t) PROVE Base' /\ Pieces' /\ Once'
  BY <1>12, OtherBeginBase, OtherPieces, BeginOnce
<1>13. ASSUME NEW t \in Tasks, PutWrite(t) PROVE Base' /\ Pieces' /\ Once'
  BY <1>13, PutWriteBase, OtherPieces, EndOnce
<1>14. ASSUME NEW t \in Tasks, Cut(t) PROVE Base' /\ Pieces' /\ Once'
  BY <1>14, CutBase, CutPieces, EndOnce
<1>15. ASSUME NEW t \in Tasks, RemovalFails(t) PROVE Base' /\ Pieces' /\ Once'
  BY <1>15, RemovalFailsBase, RemovalFailsPieces, EndOnce
<1>16. CASE UNCHANGED vars
  <2>1. Base'
    BY <1>16 DEF vars, Base, Types, Shapes, Locked, OneHolder, FreshBodies, Staging
  <2>2. Pieces'
    BY <1>16 DEF vars, Pieces, OneUpload, ListedAlone, PartFiles, PartFile, OfOneBody, CopiedAll
  <2>3. Once'
    BY <1>16 DEF vars, Once, Unretried, Over
  <2> QED
    BY <2>1, <2>2, <2>3
<1> QED
  BY <1>1, <1>2, <1>3, <1>4, <1>5, <1>6, <1>7, <1>8, <1>9, <1>10, <1>11, <1>12, <1>13, <1>14, <1>15, <1>16
     DEF Next

\* The inductive invariant holds throughout.
THEOREM Invariance == Spec => []IInv
BY InitIInv, StepIInv, PTL DEF Spec

\* The types of the upload's staging directory, of the key's bytes and of the
\* records the properties are stated with; the key's lock has one holder.
THEOREM TypeCorrect == Spec => []TypeOK
<1>1. IInv => TypeOK
  <2> SUFFICES ASSUME Types, OneHolder PROVE TypeOK
    BY DEF IInv, Base
  <2>1. Cardinality(holder) <= 1
    <3>1. CASE holder = {}
      BY <3>1, FS_EmptySet
    <3>2. CASE holder # {}
      <4> PICK t \in holder : TRUE
        BY <3>2
      <4>1. holder = {t}
        BY DEF OneHolder
      <4> QED
        BY <4>1, FS_Singleton
    <3> QED
      BY <3>1, <3>2
  <2> QED
    BY <2>1 DEF Types, TypeOK
<1> QED
  BY <1>1, Invariance, PTL

\* complete_multipart publishes the bodies its client listed, and list_parts
\* shows what is staged, for any number of parts, requests and cuts; only a part
\* whose uploads overlapped, or overlapped the completion, may differ.
THEOREM PublishesWhatWasListed == Spec => []Faithful
<1>1. IInv => Faithful
  <2> SUFFICES ASSUME Pieces PROVE faithful /\ ListedIsStaged
    BY DEF IInv, Faithful
  <2>1. ListedIsStaged
    BY DEF ListedIsStaged, Pieces, PartFiles, PartFile, OfOneBody, Uploading
  <2> QED
    BY <2>1 DEF Pieces
<1> QED
  BY <1>1, Invariance, PTL

\* However many completions of the upload run, one publishes, and one more for
\* each that was cut off between publishing and removing the directory or whose
\* removal failed, unless a part was sent again with the same bytes beside them.
THEOREM PublishesOnce == Spec => []PublishedOnce
<1>1. IInv => PublishedOnce
  BY DEF IInv, Base, Types, Once, Unretried, PublishedOnce
<1> QED
  BY <1>1, Invariance, PTL

\* After an abort or a completion that removed the directory the manifest never
\* comes back, and in the erasure store nor does the directory, whatever uploads
\* were under way and whatever other removals fail.
THEOREM StaysReclaimed == Spec => []Reclaimed
<1>1. IInv => Reclaimed
  BY DEF IInv, Base, Types, Staging, Reclaimed
<1> QED
  BY <1>1, Invariance, PTL
=============================================================================
