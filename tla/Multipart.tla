------------------------------ MODULE Multipart ------------------------------
(***************************************************************************)
(* One multipart upload to one key, in either store.  Parts are staged as a*)
(* payload file and a metadata file, without any lock; completion takes the*)
(* key's lock only after it has read the manifest, checks and copies one   *)
(* part after the other, publishes the object and removes the staging      *)
(* directory.  A body stands for its bytes, its MD5 and its size.          *)
(***************************************************************************)
EXTENDS Naturals, Sequences, FiniteSets

CONSTANTS
  Parts,     \* part numbers
  Tasks,     \* requests that may be in progress at once
  MaxOps,    \* bound: requests that begin
  MaxCuts    \* bound: requests cut off by a hang-up, a crash or a key outage, and
             \* removals that fail

ASSUME MultipartAssumption == Parts \subseteq Nat /\ MaxOps \in Nat /\ MaxCuts \in Nat

VARIABLES
  backend,
  staged,     \* the upload's directory: manifest, part files, part metadata
  object,     \* the key's bytes: a sequence of bodies
  task,
  holder,     \* the task that holds the key's lock
  spent,      \* requests begun, requests cut off
  acked,      \* uploads acknowledged: <<part, body>>
  mixed,      \* parts with an upload that was cut off half way, or overlapped
              \* another upload of the part or a completion that lists it
  retried,    \* parts uploaded with the bytes of an earlier request
  published,  \* completions that wrote the object
  cut,        \* completions that were cut off, or whose removal of the directory
              \* failed, after they had published
  littered,   \* a removal of the directory failed
  ended,      \* the upload's directory was removed by an acknowledged request
  faithful    \* every completion published what its client listed

vars == <<backend, staged, object, task, holder, spent, acked, mixed, retried, published,
          cut, littered, ended, faithful>>

Bodies == 1 .. MaxOps
Torn == MaxOps + 1          \* a part file that is still being written
Free == [op |-> "free", pc |-> "none", part |-> 0, body |-> 0, list |-> <<>>, got |-> <<>>]
Empty == [dir |-> FALSE, manifest |-> FALSE,
          file |-> [p \in Parts |-> 0], meta |-> [p \in Parts |-> 0]]

Init ==
  /\ backend \in {"fs", "erasure"}
  /\ staged = Empty /\ object = <<>> /\ holder = {}
  /\ task = [t \in Tasks |-> Free]
  /\ spent = [ops |-> 0, cuts |-> 0]
  /\ acked = {} /\ mixed = {} /\ retried = {} /\ published = 0 /\ cut = 0
  /\ littered = FALSE /\ ended = FALSE /\ faithful = TRUE

Begin(t, r) ==
  /\ task[t] = Free /\ spent.ops < MaxOps
  /\ spent' = [spent EXCEPT !.ops = @ + 1]
  /\ task' = [task EXCEPT ![t] = r]

Goto(t, pc) == task' = [task EXCEPT ![t].pc = pc]
End(t) == task' = [task EXCEPT ![t] = Free] /\ holder' = holder \ {t}

NewBody == spent.ops + 1

-----------------------------------------------------------------------------
\* create_multipart: the directory, then the manifest; the id is not known to
\* anyone before the answer.  The bound: one upload.
CreateMultipart ==
  /\ staged = Empty /\ spent.ops = 0
  /\ staged' = [staged EXCEPT !.dir = TRUE, !.manifest = TRUE]
  /\ UNCHANGED <<backend, object, task, holder, spent, acked, mixed, retried, published, cut, littered, ended, faithful>>

Uploading(p) == {t \in Tasks : task[t].op = "part" /\ task[t].part = p}
Listing(p) == {t \in Tasks : \E i \in 1 .. Len(task[t].list) : task[t].list[i][1] = p}

\* upload_part: the manifest is there, or NoSuchUpload.  The bytes are new, or a
\* client sends again what an earlier request sent (the same MD5, the same ETag).
UploadBegin(t, p, body) ==
  /\ staged.manifest
  /\ Begin(t, [Free EXCEPT !.op = "part", !.pc = "file", !.part = p, !.body = body])
  /\ retried' = IF body = NewBody THEN retried ELSE retried \cup {p}
  /\ mixed' = IF Uploading(p) \cup Listing(p) # {} THEN mixed \cup {p} ELSE mixed
  /\ UNCHANGED <<backend, staged, object, holder, acked, published, cut, littered, ended, faithful>>

\* upload_part of fs.rs: the body went to a temporary file; move_into_place
\* makes the directory again if it has to, and renames.
FsPartFile(t) ==
  /\ backend = "fs" /\ task[t].op = "part" /\ task[t].pc = "file"
  /\ staged' = [staged EXCEPT !.dir = TRUE, !.file[task[t].part] = task[t].body]
  /\ Goto(t, "meta")
  /\ UNCHANGED <<backend, object, holder, spent, acked, mixed, retried, published, cut, littered, ended, faithful>>

\* stream_to_part of store.rs: creates the part file in place (an error when
\* the directory is gone) and streams into it.
ErasurePartFile(t) ==
  /\ backend = "erasure" /\ task[t].op = "part" /\ task[t].pc \in {"file", "stream"}
  /\ IF task[t].pc = "file"
     THEN IF staged.dir
          THEN /\ staged' = [staged EXCEPT !.file[task[t].part] = Torn]
               /\ Goto(t, "stream") /\ UNCHANGED holder
          ELSE End(t) /\ UNCHANGED staged
     ELSE /\ staged' = IF staged.dir THEN [staged EXCEPT !.file[task[t].part] = task[t].body]
                       ELSE staged
          /\ Goto(t, "meta") /\ UNCHANGED holder
  /\ UNCHANGED <<backend, object, spent, acked, mixed, retried, published, cut, littered, ended, faithful>>

\* The part's metadata, and the answer with its ETag; an error without the directory.
PartMeta(t) ==
  /\ task[t].op = "part" /\ task[t].pc = "meta"
  /\ IF staged.dir
     THEN /\ staged' = [staged EXCEPT !.meta[task[t].part] = task[t].body]
          /\ acked' = acked \cup {<<task[t].part, task[t].body>>}
     ELSE UNCHANGED <<staged, acked>>
  /\ End(t)
  /\ UNCHANGED <<backend, object, spent, mixed, retried, published, cut, littered, ended, faithful>>

-----------------------------------------------------------------------------
\* The lists a client may send: acknowledged uploads, one per part, in order.
Lists == {s \in {<<a>> : a \in acked} \cup {<<a, b>> : a, b \in acked} :
            \A i \in 1 .. Len(s) - 1 : s[i][1] < s[i + 1][1]}

\* complete_multipart: reads the manifest before it takes the lock.
CompleteBegin(t, list) ==
  /\ staged.manifest
  /\ Begin(t, [Free EXCEPT !.op = "complete", !.pc = "lock", !.list = list])
  /\ mixed' = mixed \cup {p \in Parts : Uploading(p) # {} /\ \E i \in 1 .. Len(list) : list[i][1] = p}
  /\ UNCHANGED <<backend, staged, object, holder, acked, retried, published, cut, littered, ended, faithful>>

Lock(t) ==
  /\ task[t].pc = "lock" /\ holder = {}
  /\ holder' = {t}
  /\ Goto(t, IF task[t].op = "complete" THEN "verify" ELSE "write")
  /\ UNCHANGED <<backend, staged, object, spent, acked, mixed, retried, published, cut, littered, ended, faithful>>

Wanted(t) == task[t].list[Len(task[t].got) + 1]

\* Mutant of VerifyPart: any ETag will do.
VerifyAny(t) ==
  /\ task[t].pc = "verify" /\ Len(task[t].got) < Len(task[t].list)
  /\ IF staged.meta[Wanted(t)[1]] # 0 THEN Goto(t, "copy") /\ UNCHANGED holder ELSE End(t)
  /\ UNCHANGED <<backend, staged, object, spent, acked, mixed, retried, published, cut, littered, ended, faithful>>

\* The next part's metadata has the listed ETag, or InvalidPart.
VerifyPart(t) ==
  /\ task[t].pc = "verify" /\ Len(task[t].got) < Len(task[t].list)
  /\ IF staged.meta[Wanted(t)[1]] = Wanted(t)[2] THEN Goto(t, "copy") /\ UNCHANGED holder
     ELSE End(t)
  /\ UNCHANGED <<backend, staged, object, spent, acked, mixed, retried, published, cut, littered, ended, faithful>>

\* The part's payload is appended to the assembly, or InvalidPart.
CopyPart(t) ==
  /\ task[t].pc = "copy"
  /\ IF staged.file[Wanted(t)[1]] # 0
     THEN /\ task' = [task EXCEPT ![t].got = Append(@, staged.file[Wanted(t)[1]]),
                                  ![t].pc = "verify"]
          /\ UNCHANGED holder
     ELSE End(t)
  /\ UNCHANGED <<backend, staged, object, spent, acked, mixed, retried, published, cut, littered, ended, faithful>>

\* What the client listed is what is published, part by part, leaving out the
\* parts whose uploads were mixed up.
AsListed(t) ==
  \A i \in 1 .. Len(task[t].list) :
    LET p == task[t].list[i][1] IN
    p \in mixed \/ task[t].got[i] = task[t].list[i][2]

\* The key outage is a cut: encrypting_reader fails before anything is written.
Publish(t) ==
  /\ task[t].pc = "verify" /\ Len(task[t].got) = Len(task[t].list)
  /\ object' = task[t].got
  /\ faithful' = (faithful /\ AsListed(t))
  /\ published' = published + 1
  /\ Goto(t, "clean")
  /\ UNCHANGED <<backend, staged, holder, spent, acked, mixed, retried, cut, littered, ended>>

\* Mutant of Clean: the manifest and the parts stay.
CleanNothing(t) ==
  /\ task[t].pc = "clean"
  /\ ended' = TRUE
  /\ End(t)
  /\ UNCHANGED <<backend, staged, object, spent, acked, mixed, retried, published, cut, littered, faithful>>

\* remove_dir_all went through: the lock is released, the client is answered.
Clean(t) ==
  /\ task[t].pc = "clean"
  /\ staged' = Empty
  /\ ended' = TRUE
  /\ End(t)
  /\ UNCHANGED <<backend, object, spent, acked, mixed, retried, published, cut, littered, faithful>>

\* abort_multipart: NoSuchUpload without the directory, then remove_dir_all.
AbortBegin(t) ==
  /\ staged.dir
  /\ Begin(t, [Free EXCEPT !.op = "abort", !.pc = "remove"])
  /\ UNCHANGED <<backend, staged, object, holder, acked, mixed, retried, published, cut, littered, ended, faithful>>

AbortRemove(t) ==
  /\ task[t].pc = "remove"
  /\ staged' = Empty
  /\ ended' = (ended \/ staged.dir)
  /\ End(t)
  /\ UNCHANGED <<backend, object, spent, acked, mixed, retried, published, cut, littered, faithful>>

\* remove_dir_all walks the directory file by file and fails when a part was
\* written meanwhile, or its drive does not answer: what is left is anything of
\* what was there.  An abort reports the error; a completion ignores it and
\* answers as if the directory had gone.
RemovalFails(t) ==
  /\ task[t].pc \in {"clean", "remove"} /\ spent.cuts < MaxCuts
  /\ \E manifest \in {staged.manifest, FALSE}, files, metas \in SUBSET Parts :
       staged' = [dir |-> staged.dir, manifest |-> manifest,
                  file |-> [p \in Parts |-> IF p \in files THEN staged.file[p] ELSE 0],
                  meta |-> [p \in Parts |-> IF p \in metas THEN staged.meta[p] ELSE 0]]
  /\ spent' = [spent EXCEPT !.cuts = @ + 1]
  /\ littered' = TRUE
  /\ cut' = IF task[t].pc = "clean" THEN cut + 1 ELSE cut
  /\ End(t)
  /\ UNCHANGED <<backend, object, acked, mixed, retried, published, ended, faithful>>

\* A plain PUT of the same key.
PutBegin(t) ==
  /\ Begin(t, [Free EXCEPT !.op = "put", !.pc = "lock", !.body = NewBody])
  /\ UNCHANGED <<backend, staged, object, holder, acked, mixed, retried, published, cut, littered, ended, faithful>>

PutWrite(t) ==
  /\ task[t].pc = "write"
  /\ object' = <<task[t].body>>
  /\ End(t)
  /\ UNCHANGED <<backend, staged, spent, acked, mixed, retried, published, cut, littered, ended, faithful>>

\* A request is dropped between two of its steps; the guard releases the lock.
Cut(t) ==
  /\ task[t].op # "free" /\ spent.cuts < MaxCuts
  /\ spent' = [spent EXCEPT !.cuts = @ + 1]
  /\ mixed' = IF task[t].op = "part" /\ task[t].pc # "file" THEN mixed \cup {task[t].part} ELSE mixed
  /\ cut' = IF task[t].pc = "clean" THEN cut + 1 ELSE cut
  /\ End(t)
  /\ UNCHANGED <<backend, staged, object, acked, retried, published, littered, ended, faithful>>

Next ==
  \/ CreateMultipart
  \/ \E t \in Tasks :
       \/ \E p \in Parts, body \in 1 .. NewBody : UploadBegin(t, p, body)
       \/ FsPartFile(t) \/ ErasurePartFile(t) \/ PartMeta(t)
       \/ \E list \in Lists : CompleteBegin(t, list)
       \/ Lock(t) \/ VerifyPart(t) \/ CopyPart(t) \/ Publish(t) \/ Clean(t)
       \/ AbortBegin(t) \/ AbortRemove(t) \/ RemovalFails(t) \/ PutBegin(t) \/ PutWrite(t) \/ Cut(t)

Spec == Init /\ [][Next]_vars

-----------------------------------------------------------------------------
TypeOK ==
  /\ backend \in {"fs", "erasure"}
  /\ staged \in [dir : BOOLEAN, manifest : BOOLEAN,
                 file : [Parts -> 0 .. Torn], meta : [Parts -> 0 .. MaxOps]]
  /\ object \in Seq(1 .. Torn) /\ holder \subseteq Tasks /\ Cardinality(holder) <= 1
  /\ acked \subseteq (Parts \X Bodies) /\ mixed \subseteq Parts /\ retried \subseteq Parts

\* list_parts: as long as the upload is open, a listed part that is not being
\* replaced has the bytes its ETag stands for; a removal that failed may have
\* taken them.
ListedIsStaged ==
  staged.manifest => \A p \in Parts \ mixed :
    Uploading(p) = {} /\ staged.meta[p] # 0 =>
      staged.file[p] = staged.meta[p] \/ (littered /\ staged.file[p] = 0)

\* complete_multipart publishes exactly the bodies whose ETags the client
\* listed, and list_parts shows what is staged, whatever other completions,
\* aborts, PUTs and replaced parts ran before and beside it; only a part whose
\* upload overlapped another upload of it, or the completion itself, may differ
\* (the ETag is checked in one step and the bytes are copied in the next).
Faithful == faithful /\ ListedIsStaged

\* Of several completions of one upload one publishes: the others find the
\* parts gone once they hold the lock.  One more may publish for each completion
\* that was cut off between publishing and cleaning up, or whose removal of the
\* directory failed (its client was told that it went well).  Nothing is
\* promised once a part was sent again with the same bytes, its ETag with them,
\* beside a completion that lists it or another upload of it: what is staged
\* after the removal may then satisfy a completion that waited.
PublishedOnce == retried \cap mixed = {} => published <= 1 + cut

\* Once an abort or a completion has removed the staging directory, it is gone
\* for good in the erasure store, and in the filesystem store unless an
\* upload_part that began before goes on to write its part: no upload under way
\* and no failed removal brings the manifest back.  It is not promised that the
\* directory goes: a completion answers whether or not its removal failed.
Reclaimed ==
  ended => ~staged.dir \/ (backend = "fs" /\ ~staged.manifest)
=============================================================================
