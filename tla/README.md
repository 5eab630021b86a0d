# A TLA+ verification of KerPlace

KerPlace is an S3-compatible object store: one process serves HTTP, keeps
objects on local directories or on erasure-coded drives, which may be on other
nodes, and encrypts what it stores. This directory holds TLA+ models of the
parts of it that are hard to test, the TLC configurations that check them and
TLAPS proofs. Paths below are those of the source, under `src/src/` unless
stated otherwise.

    tlc -config LocalKeyLocks.cfg MCLocalKeyLocks     # one run
    tlapm Locks_proof.tla                             # one proof module

## 1. The system

| Component | State | Operations | Hard behaviour |
|---|---|---|---|
| Per-key locks (`cluster/lock.rs`, `LocalKeyLocks`) | map from key to a reference-counted mutex | acquire, drop of the guard | pruning of the map beside tasks that wait |
| Lock table of a node (`cluster/lock.rs`, `LockTable`; routes in `cluster/server.rs`) | per resource: owner, expiry, highest token; in memory | acquire, release, fence check, eviction | restart forgets tokens; leases expire |
| Quorum lock (`cluster/lock.rs`, `DistLock`, `LockClient`, `LockSet`, `LockGuard`) | the tokens of an acquisition | acquire in rounds, release by a spawned task, degraded mode | lost messages, late releases, stalled holders |
| Remote drives (`cluster/remote.rs`, `cluster/server.rs`) | files of a drive | fenced mkdir, streamed create, rename, write, removal; reads | a check at the start of a long request |
| Erasure store, objects (`erasure/store.rs`, `erasure/drive.rs`) | per drive: shard, metadata, temporary files | PUT, GET, DELETE, heal | partial failure, drives that return, unlocked readers and heal |
| Erasure store, versions (`erasure/store.rs`) | history and archive, with an epoch per drive | versioned PUT, DELETE, DELETE of a version | diverging histories, best-effort moves, rollback beside an archive |
| Filesystem store, versions (`storage/fs.rs`) | canonical file, sidecar, archive, history file | PUT, COPY, DELETE, GET/HEAD/DELETE of a version, status | sequences of file operations, unlocked seed |
| Multipart (`storage/fs.rs`, `erasure/store.rs`, `handlers/multipart.rs`) | manifest, parts | create, upload, complete, abort, list | completion beside uploads, aborts and a second completion |
| Listings (`storage/fs.rs`, `erasure/store.rs`, `handlers/bucket.rs`, `console/api.rs`) | none; the client's token | ListObjectsV2, ListObjectVersions, forced deletion | page boundaries, common prefixes, writers beside the pages |
| Bucket metadata (`storage/fs.rs`, `erasure/store.rs`, `handlers/bucket.rs`) | directory and documents, a copy per drive | create, delete, set and remove a document | copies that differ |
| IAM (`iam.rs`, `handlers/admin.rs`) | users in memory, one file, the seed | add, remove, status, policy, scope, persist, load | persists that overtake each other, a file rewritten in place |
| Requests (`auth/mod.rs`, `auth/sigv4.rs`, `sts.rs`, `access_log.rs`) | temporary credentials, the log's queue | authenticate, authorise, record | identity resolved once, records lost with the process |
| Key providers (`crypto/provider.rs`, `crypto/mod.rs`) | key files, DEK cache, length of a wrapped key | start-up, wrap, unwrap, cached DEKs | first start cut short; rotation, expiry and limit |
| Encryption container (`crypto/mod.rs`) | none | seal and open streams, ranges | chunk and range arithmetic |
| Object lock, lifecycle (`handlers/object.rs`, `lifecycle.rs`) | retention, hold, tags in sidecars; rules | check then delete | the check is stale when the delete runs |
| HTTP, XML, console, configuration | none of their own | translate requests | dispatch by query parameter |

**How they interact.** A handler authenticates, asks IAM, and calls the one
`ObjectStore`. The store takes the key's lock (`LockSet`): the local mutex first
and, in a cluster, the quorum lock, whose tokens travel in a task-local to every
call to a remote drive. The node compares them with its lock table
(`fenced_out`). GET, HEAD (which may write a history), listings, bucket configuration, object
sidecars, uploads of parts and heal take no lock. Lifecycle, heal and the console are
callers of the same store. So the locks are what the correctness of concurrent
writes rests on, the erasure write path is what durability rests on, and the
history file is what versioning rests on; what runs outside the locks is where
the other hazards are.

**What makes each part correct.** Locks: one holder per key, no lost waiter; at
the cluster level exclusion while leases run, and fencing of whoever has lost
one. Data path: a published shard is one writer's; what is acknowledged is there,
survives a drive and is what is read. Heal: full redundancy, no damage. Versions:
history and files agree, acknowledged versions stay retrievable, no sequence of
calls gets stuck. Multipart: what the client listed is published, once. IAM and
bucket metadata: what was acknowledged is what is read, after a restart too.
Listings: every key exactly once over the pages, and an end. Keys: what was
stored can be read again, or the server does not start; a range returns that
range. Object lock: an acknowledged lock is honoured, an expired object goes.

## 2. The modules

| Module | Models | Role |
|---|---|---|
| `KeyMutex` | what a per-key lock promises | abstract specification |
| `LocalKeyLocks` | `cluster/lock.rs`, `LocalKeyLocks` | implements `KeyMutex` |
| `LockTable` | `cluster/lock.rs`, `LockTable`, one resource | operators on a slot |
| `DistLock` | the quorum lock on `LockTable`s | state machine |
| `FencedWrite` | `DistLock` composed with the remote write path | state machine over `DistLock`'s actions |
| `ErasureObject` | PUT, DELETE, GET and heal of one object | state machine |
| `VersionedKey` | what versioning promises of a key | abstract specification |
| `FsVersions` | versions of a key in the filesystem store | implements `VersionedKey` |
| `ErasureVersions` | versions of a key on erasure-coded drives | implements `VersionedKey` |
| `Multipart` | one upload and its key, in either backend | state machine |
| `Buckets` | one bucket, its documents and one object, in either backend | state machine |
| `Iam` | the identity store | actions, used by `Access` |
| `Access` | requests, credentials and the access log over `Iam` | composition |
| `Container` | lengths and ranges of the encryption container | operators |
| `Keys` | providers, key files, DEK cache, encrypted PUT and GET | state machine over `Container` |
| `Retention` | object lock, tags, deletes, lifecycle worker | state machine |
| `Listing` | listings, page after page, beside writers | state machine |
| `Locks_proof` | | theorems about `LocalKeyLocks`, `DistLock` and `FencedWrite` |
| `Versions_proof` | | theorems about `FsVersions` and `ErasureVersions` |
| `Buckets_proof` | | theorems about `Buckets` and `Listing` |
| `Keys_proof` | | theorems about `Keys` and `Container` |
| `ErasureObject_proof`, `Multipart_proof`, `Access_proof`, `Retention_proof` | | theorems about the module named, `Access_proof` about `Iam` too |
| `MC...` | | instances for TLC (symmetry sets, shapes; `MCVersions` runs either backend) |

Definitions marked "Mutant of X" are variations of X that a plausible mistake
would give; no specification uses them. Each property is known to fail for one of
them. Variables called observations (`seen`, `upsets`, `owed`, `acked`, `placed`,
`held`, `kept`, `due`, ...) are read by properties only.

**LocalKeyLocks.** `Clone` is the part of `acquire` under the map's lock,
pruning (`Retained`) included; `Enqueue` and `Granted` are the wait on tokio's
fair mutex, `Release` and `Cancel` the drop of the guard or of the waiting
future. A strong count above one is a task that refers to the mutex.

**LockTable, DistLock.** `Ask` calls the nodes in turn and has four outcomes
(granted, granted with the answer lost, refused, never received). `Judge` counts,
`Undo` releases everywhere after a lost round, `Retry` and `GiveUp` follow, and
`Drop` is the spawned release task, one node at a time, beside everything else.
Time is the event `Expire`, at any moment. `Restart` and `Evict` are the two ways
a node forgets a token. An owner id is a pair (gateway, session): the code draws
a UUID.

**FencedWrite.** `write_sharded` as a remote gateway runs it: directory and
stream at each node (`Prepare`), publish, metadata, decision, rollback. A stream
(`puts`) is checked when it arrives (`PutArrives`), and its bytes go later
(`PutBytes`) to whatever file it has open then, renamed or removed as that may
be. `HangUp` drops the operation but not the streams it has spawned.

**ErasureObject.** One writer, one heal, one GET, drive by drive and block by
block. A shard is the number of the write it belongs to and its rotten blocks; a
checksum of write w accepts w's blocks only. Heal takes no lock, so it may run
beside every step of a writer; `crossed` remembers that it overlapped one's changes. Metadata is written in place, in two
steps. `Down`, `Return`, `Replace` and `Rot` are what drives do; `Abandon`,
`HealAbandon` what happens to a task. Reed-Solomon is its contract: any K good
shards rebuild a block.

**FsVersions.** The canonical payload and sidecar, the archive and the history
file are separate files, changed one step at a time. `Load` decides what is to be
dropped, demoted or promoted; the steps that follow carry it out. The history and
the status are written in place: truncated, then filled. `GetVersion` and its
steps hold no lock and may seed a history. `Abandon` ends an operation at any
step, as an I/O error, a dropped request or a crash does.

**ErasureVersions.** Each drive has a slot per place (current, archived) and a
history with an epoch; the newest epoch among the drives that answer decides.
`Pass` is one loop over the drives, best effort, and may be cut after any of them.
`StoreFails` is the missed quorum with its `remove_dir_all`, `BodyFails` the
upload that breaks off after the current version was moved away, `Wipe` the end
of the last version. `GetSeeds` and `GetWrites` are the seed of GET and HEAD of a
version, which decide and write without the key's lock. Shard and metadata are one file here; `ErasureObject` takes
them apart.

**Multipart.** `FsPartFile` or `ErasurePartFile` and then `PartMeta` write the two
files of a part, without a lock. Completion reads the manifest, then waits for the lock, then checks and
copies one part after another, publishes, and removes the staging directory.
An abort (`AbortBegin`, `AbortRemove`), a plain PUT and a second completion run
beside it; `Cut` drops a request between two steps. A part may be sent again with
the bytes it had, and the removal of the directory may fail half way
(`RemovalFails`), which a completion does not notice.

**Buckets.** A request is dispatched by method and query parameter (`PutOp`,
`DeleteOp`: an unknown sub-resource of PUT makes the bucket, of DELETE removes it),
checked, and turned into the list of file system calls the backend makes, which
`Call` carries out one at a time; `Answer` acknowledges by the backend's rule,
`Cancel` leaves the rest undone, `DriveDown` and `DriveUp` are the drives. The
erasure store's `delete_bucket` first looks for objects, drive after drive
(`BeginLook`, `Look`, `Looked`), while everything else goes on.

**Iam, Access.** A change is made in memory under a lock; `Snapshot` copies the
map, `Truncate` and `Fill` rewrite `users.json`, and two of these may overlap,
and leave a document that does not parse. `Restart` loads the document
and applies the seed. `Request` is `auth_middleware` up to the handler; the
identity it found is the one the request keeps. The scope is held against the
bucket of the path (`BucketFor`), which a bucket named like a management prefix
does not have; the bucket a copy reads (`Sources`) is not looked at. `AssumeRole` issues temporary
credentials. `WriteRecord` and `WriteRecordFails` are the access log's writer.

**Keys, Container.** A boot names a provider and loads or makes its files one at
a time, each truncated and then filled (`CreateFile`, `FillFile`), with a `Crash`
anywhere. PUT mints, streams and records a size computed from one process-wide
length; GET unwraps through the cache. `VaultChanges` (outage,
revocation), `Rotate` and `Damage` are the KMS, its operator and the disk. Keys have names, never bytes. The container's
lengths and ranges are arithmetic on `Chunk`, `Tag` and header lengths.

**Retention.** Hold, retention and tags are sidecars, one copy of each per drive,
written drive by drive without the key's lock, each copy truncated and filled; one
drive that took it is enough. A delete reads them one at a time, from the first
drive that has the file, and then calls the store; batch deletion, the console and
an overwriting PUT do not look. In the erasure backend a DELETE removes the
directory of its key drive by drive (`Sweep`, `RemoveSides`), nested keys with it,
and leaves a drive alone that does not answer. PUT holds the key's lock while its
client sends (`PutBegin`, `PutEnd`, `PutFails`).
The lifecycle worker pages through the bucket with the time it took at the start;
its lists and deletes may fail. `excused`, `uneven` and `leaked` are observations.

**Listing.** A page is the walk of each drive, the choice of keys, the read of
each chosen key, and the answer; the client comes back with the token it was
given, encoded if it asked for encoding. Writers work in between. The console's
forced deletion lists and deletes until a page is empty, whatever its deletions
answer. A deletion may miss drives, and in the erasure backend takes nested keys
with it.

## 3. What TLC checks

| Run | Instance | Checks |
|---|---|---|
| `local_locks` | 3 tasks, 4 keys, idle limit 1 | `OneMutexPerKey`, `MutualExclusion`, `NoStarvation`, `ImplementsKeyMutex` |
| `quorum_lock` | 2 gateways, 3 nodes, 2 rounds, 2 faults | `TokensTellApart`, `StaleHolderFenced`, `ExclusiveWhileLeased`, `LeaseNotStolen` |
| `fenced_write` | 2 gateways, 2 nodes, 1 fault | `SafeWhileLeased`, `AdmissionInOrder` |
| `erasure_object` | 4 drives, K = 2, 2 PUTs or DELETEs; a heal and 2 faults, a GET of two blocks and 1 fault, a GET beside a heal, or a heal that may overlap writers | `Durable`, `SurvivesOneLoss`, `HealRebuilds`, `ReadFresh` |
| `erasure_stale` | as `erasure_object` | `QuorumReadable`, which fails |
| `versions` | filesystem: 4 operations (one may be a GET), 2 changes of status, 1 GET or interruption; erasure: 3 operations, 4 drives, K = 2, 2 faults (a GET's seed is one) | `Consistent`, `Kept`, `GetsItsVersion`, `ImplementsVersionedKey`; `ErasureKept`, `ErasureNeverAnother`, `ErasureImplementsVersionedKey` |
| `multipart` | 2 parts, 3 tasks, 4 requests, 1 cut or failed removal; both backends | `Faithful`, `PublishedOnce`, `Reclaimed` |
| `buckets` | 3 drives, 2 clients, 3 requests, 1 fault; both backends | `ReadsLastWrite`, `VersioningFailSafe`, `DeleteSparesObjects` |
| `access` | 1 user, 3 buckets, one of them named `minio`, 2 admin tasks, 2 clients, 3 changes, 1 fault | `RestartInvisible`, `RevokedStaysOut`, `ScopeHolds`, `AuditComplete` |
| `keys` | 2 objects, 3 providers, 3 passphrases, cache of 1 with a lifetime of 0 or 2, 1 fault or rotation | `ReadableAgain`, `RangeExact`, `RevokedIsCut` |
| `retention` | 2 keys, the second nested in the first, 2 drives, 2 requests of one client beside the worker, pages of 1, 1 crash or drive failure; both backends, with and without versioning | `LockHonoured`, `SidecarsBelong`, `Expires` |
| `listing` | 4 keys, 2 drives, page sizes 0, 2 and 4, 1 write, 1 fault; both backends | `ListComplete`, `ListOnce`, `ListEnds` |

One run shows a disagreement between the code and what the repository says of it:
`erasure_stale`. `store.rs` says "as long as a write quorum survives, the object
is still readable"; when the metadata write of an acknowledged overwrite failed
on the first drive, that drive's old metadata decides, and the new shards fail its
checksums (`QuorumReadable`).

**Why the bounds are enough.** With an idle limit of 1 and four keys the map is
pruned while tasks hold and wait; a freed mutex's identity comes back. Three lock
nodes are the least with a minority that may fail; two faults are what it takes
for a lost grant followed by a crash or a restart. One session per gateway
suffices for two believers; further sessions of one gateway, and more of
everything, are covered by the proofs. In `fenced_write` both nodes are needed
for the write quorum, so each order of two writers at two nodes occurs. Four
drives with K = 2 are the smallest set in which a write can miss a drive, be
acknowledged, and lose another; two PUTs give stale drives, and two faults let
one drive be stale and another hurt. Two blocks show the loop of GET at its seam.
Four operations on a key are PUT, PUT, DELETE (or a suspended PUT) and DELETE of
a version: every case of "null" at the head, in the archive and as a marker, with
demotion and promotion, occurs; two changes of status reach "suspended" by way of
"enabled". Three tasks on two parts let a part be replaced while two completions
are at work; four requests are create, an upload, and two that compete. Three drives with quorum 2 and one fault give each place in the order
of the drives a copy that is missing or stale. A user, two writers of the document
and one crash make every order of two persists and a load. Two objects and a cache
of one force an eviction; the token gets longer at the second version of the KMS
key. Pages of one with two keys make the worker continue a page behind a locked
object; in `retention` the worker is the delete that a client's change of the lock
overtakes, two drives give a stale copy before a good one, and two clients that
set one sidecar at a time are left to the proof. Four keys with two neighbours in one common prefix and pages of two put
the boundary before, within and after the group.

**What the properties leave out, and why.** Each exclusion is a way in which the
code gives the guarantee up; the run reaches it.

- `Durable`, `SurvivesOneLoss` and `ReadFresh`: behaviours in which a heal has
  overlapped a writer's changes (`crossed`). Heal takes no lock
  (`erasure/store.rs`, `heal_object`), and puts an older write back over one that
  was acknowledged meanwhile, although `docs/CLUSTERING.md` has writes of a key
  serialized; every GET from then on delivers the older write.
- `Durable` and `SurvivesOneLoss` end when a writer changes the object: a crash
  between its shards and its metadata may lose both writes, and a PUT that misses
  its quorum removes the object's directory, the previous object included. Nor do
  they see other keys: a DELETE or a rollback of `a` removes `a/b` with it
  (`erasure/store.rs:581`, `1271-1274`). `Durable` rests on N <= 2K: with more
  parity than data, K stale drives can lead a heal back (section 4).
- `NoStarvation`: waiters behind a holder that never ends. The HTTP clients have no
  timeouts and PUT reads its body under the lock, so one client that stops sending
  holds all later writers of its key up.
- `TokensTellApart`, `StaleHolderFenced`: nodes that have restarted. Their tokens
  start again at 1 and an old holder may pass the fence; the code has no defence.
- `SafeWhileLeased`: sessions that lost a lease. A stream admitted before its
  holder was superseded goes on writing into the shared temporary file, although
  `docs/DISTRIBUTED_DESIGN.md:253-255` takes that for closed. `AdmissionInOrder`
  says what is left: who is let in, not what is written afterwards.
- `Consistent`, `Kept`: operations cut short, a GET's seed that crosses an
  operation, and writes with the status "off" beside a history. The last needs no
  change of status: GET of version "null" seeds a history in a bucket without
  versioning, DELETE removes the payload and leaves the history, and once
  versioning is enabled every PUT of the key fails to archive what is not there.
- `GetsItsVersion`: a GET of the current version that an operation overlaps opens
  the file the operation has put in its place.
- `ErasureKept`, `ErasureImplementsVersionedKey`: after an operation was cut, and
  after a rollback, which takes archive and history along; what was seeded or
  decided from drives that missed the newest history or object; and the seed of a
  GET or HEAD that an operation crossed ("raced"): written without the lock, it takes
  the version recorded meanwhile out of the history again.
- `ErasureNeverAnother`: K drives or more that have missed something. A DELETE of the
  current version is acknowledged however few drives carry it out, although
  `store.rs` gives as the invariant of a history that "`versions[0]` real ⇒ it is
  the current version"; on the others the deleted version stays where readers look
  for the one that took over, and GET does not compare what it finds there with the
  history. With N = 2, K = 1: PUT as "null", versioning on, PUT, DELETE of that version
  by drive 2 alone, and a GET of "null" that finds drive 1 first.
- `Faithful`: parts whose upload overlaps another or the completion.
- `PublishedOnce`: counts a completion that was cut between publishing and cleaning
  up, or whose removal of the directory failed, which it ignores
  (`storage/fs.rs:1701`, `erasure/store.rs:1694`). A part sent again with the same
  bytes beside a completion that lists it may satisfy another one that waited.
- `Reclaimed`: does not promise that the directory goes, for the same reason; only
  that a finished upload does not come back once it has gone.
- `ReadsLastWrite`: drives with an older copy of a document. A configuration write
  is acknowledged by one drive and never repeated on those that missed it.
- `DeleteSparesObjects`: a PUT that overlaps the deletion of its bucket. The look
  goes through the drives one after the other; if a quorum of them fails it, each
  when its turn comes, the objects are lost too. One fault does not get there.
- `RestartInvisible`, `RevokedStaysOut`, `ScopeHolds`: changes that overlapped
  another, and users of the `KP_USERS` seed.
- `ScopeHolds`: the bucket that `x-amz-copy-source` names, which nothing checks
  (`handlers/object.rs:160-162`), and buckets named `kerplace` or `minio`, whose
  objects lie under a management prefix (`iam.rs:653-656`). Both go against
  `docs/ACCESS_CONTROL.md:18-19` ("`403 AccessDenied` on everything else") and
  `:85`, `:91` ("can see nothing else").
- `RangeExact`: objects whose PUT crossed a rotation to longer tokens.
- `ReadableAgain`: the fault `Damage`, which stands for a key file that is lost or
  cut short. A `pq.bin` damaged at unchanged length is not in the model.
- `RevokedIsCut`: reads within the cache's lifetime. `crypto/provider.rs:562-563`
  says that revocation cuts decryption "instantly"; `:799-800` and the code let the
  cached key live on.
- `LockHonoured`: deletes that had read the sidecar before the lock was
  acknowledged, objects hidden by a delete marker, and deletes decided by a copy of
  the sidecar that missed the last acknowledged write, is being rewritten or was
  written by two requests at a time, or by no copy at all: the first drive that has
  the file decides, and a drive that was down brings an old hold OFF back
  (`erasure/store.rs:296-322`). The deletes that do not look at the lock are told
  apart. It speaks of the key a DELETE names: in the erasure backend a DELETE of `a`,
  expiry's included, removes a locked `a/b` unchecked (`:1271-1274`), although
  `lifecycle.rs:174-175` says that expiry "never removes a locked object".
- `SidecarsBelong`: drives that did not answer the removal, sidecars set during it, a
  crash within it, and the filesystem's DELETE of version "null" of an unversioned
  object, which removes none (`storage/fs.rs:1149-1202`).
- `Expires`: an upload that never ends, as its PUT holds the key's lock and the worker
  waits for it, every other bucket behind it; and lists or deletes of the worker that
  keep failing.
- `ListEnds`: forced deletions that keep failing (`DrainFails`): `console/api.rs`
  ignores what a deletion answers and lists again from the start, without end.
- `ListComplete`, `ListOnce`, `ListEnds`: encoded continuation tokens (they come
  back encoded and are compared with plain keys), version listings over several
  pages (their markers skip the rest of a key; the erasure backend has none), and
  max-keys=0 (always truncated, with the same token).

**Deadlock** is switched off where the bounds let the system run out of things to
do (all but `local_locks` and `keys`).

**Fairness.** `LocalKeyLocks!Fairness` is weak fairness of joining the queue and of
being granted: tokio polls a woken task, and its mutex is fair and hands itself to
the next in line. Nobody is obliged to release, as operations have no timeouts, nor
to cancel: `NoStarvation` says who else is to blame. In `Keys` time passes and
an answer the KMS has given is dealt with. In `Retention` the worker's loop runs, a
removal under way comes to its end (its steps are local or have failed drives passed
over), and time passes; uploads are not fair. In `Listing` a request that was
accepted is carried on and its caller asks for the next page; writers and drives
need not do anything.

## 4. What is proved

For every value of the constants: any tasks, keys, gateways, nodes, rounds,
drives, blocks, parts, users, keys, prefixes, pages, chunk and header lengths,
requests, crashes and faults. TLC checked each
inductive invariant below on an instance before it was proved.

| Theorem | States |
|---|---|
| `Locks_proof!SharedMutex`, `LocalExclusion` | `OneMutexPerKey`, `MutualExclusion` |
| `Locks_proof!LocalRefinement` | `LocalKeyLocks` implements `KeyMutex` |
| `Locks_proof!Tokens`, `Fencing`, `Exclusion` | `TokensTellApart`, `StaleHolderFenced`, `ExclusiveWhileLeased` |
| `Locks_proof!NotStolen` | the action property `LeaseNotStolen` |
| `Locks_proof!LockIsDistLock` | the writes take only `DistLock`'s steps of the lock |
| `Locks_proof!AdmitsInOrder` | the action property `AdmissionInOrder` |
| `Locks_proof!WritesAreSafe` | `SafeWhileLeased` |
| `ErasureObject_proof!HealsRebuild` | `HealRebuilds` |
| `ErasureObject_proof!AckedStays`, `OneLossIsSurvived`, `ReadsAreFresh` | `Durable`, `SurvivesOneLoss`, `ReadFresh`, if parity is within data |
| `Multipart_proof!PublishesWhatWasListed`, `PublishesOnce`, `StaysReclaimed` | `Faithful`, `PublishedOnce`, `Reclaimed` |
| `Buckets_proof!StaysVersioned`, `ReadsAreLast` | `VersioningFailSafe`, `ReadsLastWrite` |
| `Buckets_proof!ObjectsAreSpared` | `DeleteSparesObjects`, while few drives are away |
| `Buckets_proof!ListsAll`, `ListsOnce` | `ListComplete`, `ListOnce` |
| `Access_proof!RestartsAreInvisible`, `RevocationHolds`, `ConfinementHolds` | `RestartInvisible`, `RevokedStaysOut`, `ScopeHolds` |
| `Access_proof!AuditsEveryAnswer` | `AuditComplete` |
| `Keys_proof!KeysStayReadable`, `RangesAreExact` | `ReadableAgain`, `RangeExact` |
| `Retention_proof!LocksAreHonoured`, `SidecarsGoWithTheirObject` | `LockHonoured`, `SidecarsBelong` |
| `Versions_proof!VersionsStayConsistent`, `VersionsAreKept` | `Consistent`, `Kept` of the filesystem backend |
| `Versions_proof!ReaderGetsItsVersion` | `GetsItsVersion` |
| `Versions_proof!VersionsRefine` | the filesystem backend implements `VersionedKey` |
| `Versions_proof!ErasureVersionsAreKept`, `ErasureDeliversNoOther` | `ErasureKept`, `ErasureNeverAnother` |
| `Versions_proof!ErasureVersionsRefine` | the erasure backend implements `VersionedKey` |
| `TypeCorrect` of each but `Versions_proof`, `Locks_proof!LocalTypeCorrect`, `WritesTypeCorrect`, `Buckets_proof!ListingTypes`, `Versions_proof!VersionsTypeCorrect` and `ErasureVersionsTypeCorrect` | the type invariant of each module |

*Assumptions* are the named ones of the modules: `None` is neither a key nor a
mutex, `Free` is no owner, there is a node and a round, bounds are naturals, no
user has the name of a built-in credential (`KeysAssumption`), keys and drives are
numbered and what a sidecar says is a number (`RetentionAssumption`), keys are
positive places and those that share a prefix are neighbours
(`ListingAssumption`), a chunk is not empty (`ContainerAssumption`). Two
theorems of the data path and one of the buckets state a condition more:

- `ParityWithinData`, N <= 2K. It is what the code chooses when nothing else is
  configured (parity is half the drives, `main.rs:368`); `with_drives` accepts any
  parity below N. Beyond it the properties are false: with N = 3 and K = 1 a drive
  that was away leads a heal back to the write it missed. The run satisfies it.
- `FewAway`, no look of `delete_bucket`, which walks the drives one after the other,
  finds a quorum of them away when their turn comes. Without it drives that are away
  one by one hide an object, and are back when the directories are removed. With one
  fault, as in the run, it cannot fail.

*Local locks.* Mutual exclusion alone is not inductive. `IInv` adds that a task
refers to a mutex exactly while it is at work (`Active`), that this is the map's
mutex of its key (`OneMutexPerKey`), that of two tasks in one queue one is ahead
(`QueueOrdered`), and that a holder has nobody ahead (`HolderFirst`). The pruning
keeps `OneMutexPerKey` because an entry in use has a reference. The refinement
maps `held[t]` to the key of a holding task; only `Granted` and `Release` show.

*Quorum lock.* That tokens tell holders apart is not inductive, because a
re-entrant grant hands a token out again; `TokenOwner` says that whoever has the
newest token owns the slot, or the slot is free. `DropsOver` says that release
tasks work for sessions that are over, which `LeaseNotStolen` needs.
`HolderQuorum` and the meeting of two majorities (`MajoritiesMeet`, by the
cardinality theorems) give exclusion and fencing.

*Fenced writes.* `LockIsDistLock` carries all of that over to the gateways that write:
what they add to the lock is nothing. `WithinGrants` bounds the tokens in streams and
the admitted ones by what the node has granted, which is `AdmissionInOrder` one step
before. `CalmInv` is what `SafeWhileLeased` needs. While nothing is upset leases last
(`Leased`: releases name their own session only, and an expiry would upset), so
that there is one holder and one writer (`OneHolder`), every stream is its own and
alone at its node (`StreamsOwned`), and each node that the writer still counts has
what its phase has done so far (`Progress`). The acknowledged session is over or
about to end (`AckedDone`), so whoever takes the lock next is another (`Stands`).

*Erasure-coded objects.* Two invariants. `HealInv` follows an undisturbed heal:
what the scan has passed and not found bad is good, what the repair has passed is
good again, and the temporary files hold shards of the write that is healed; that
the scan comes to every block of every shard is arithmetic on its one loop
variable (`DivMod`, `LoopFacts`, `LoopCovers`). `StoreInv` is about stale drives,
and its heart is a count: after an acknowledged write fewer than K drives hold an
older shard (`Few`, from the quorum and N <= 2K), and no step puts an older shard
back. GET and heal count shards one drive after the other while drives change, so
the invariant of their loops (`Gathered`, `Scanned`) bounds the shards found so far
plus the older ones still ahead (`Ahead`, `CountGoesOn`); at the end of a block
that is less than K, so an older write is neither delivered nor healed.
`Latest` is the other half, that no newer metadata is about until a writer
disturbs, and `Quorate` that the quorum has the write or was hurt. All of it is
said of behaviours in which no heal has overlapped a writer's changes (`Uncrossed`),
and of the rest only the types.

*Multipart.* None of the three is inductive. `Base` has the lock (one task past it),
that a body which is still being uploaded is in no list, unless it was sent before
(`FreshBodies`), and that a finished upload stays finished (`Staging`). `Pieces` says what the two files of a
part mean while an upload of it is half way, and what a completion under way has
copied; `Once` accounts for each publication by the manifest, a completion that has
yet to clean up, or a cut, which a removal that failed counts as.

*Bucket metadata.* `Held` ties what each drive has to what was acknowledged and to
the drives that missed it; `Progress` says what a request that no other overlapped
has changed and has still to call, and `Overlaps` that requests which overlap know
of it. `Watched` says of a look at the drives that what runs beside it is known to
it, and that it has seen each drive with an owed object, found it away, or has it
still ahead. `Owed` adds, for the objects, that no request for one that is owed is under
way and that a quorum of drives has it. `StaysVersioned` needs a lemma on the most
protective of several answers.

*Listings.* Two invariants cross a page. `OnceForm` and `PageForm` say on which side
of the token everything is: what the caller has lies before it, what is on the page
at or after it and before the next token. A prefix whose keys straddle a boundary
would be shown twice, and does not: a page breaks off only where a new prefix begins
(`PrefixEnds`, since keys that share one are neighbours). `HeldForm` says that an
object held since the listing began is in the caller's hands, seen by the walk or on a drive not walked yet,
on the page, or after the next token; `KeptForm` is its counterpart for versions, for
which `VersionWorld` says what a writer leaves readable. `FullForm` bounds the page
by the size asked for (`PageFits`: keys and prefixes are injected into places that
found room), and from the same count a drain's page, which is as large as there are
keys, never breaks off (`DrainWhole`); only so does an empty page mean an empty
bucket.

*Keys and ranges.* `ReadableAgain` is a property of a server that has come up, but
what makes it true is kept while none runs. `BootStage` lists where each provider's
start may be cut: the files still to load, the one that is half written, the keys in
memory. `ObjectKept` says of each stored object that the file its key came from still
holds that key, unless a fault destroyed it (`lost`), and that a verifier beside a
salt stands for the passphrase of the objects; a start with a wrong passphrase
therefore stops before it serves. The step that could break it is the creation of a
missing file (`CreateFile`, `FillFile`): it is taken only where no object rests on the
old one, or where a fault hid the old one and its keys count as lost. `PutForm` says that a write under way has its key from the provider that
serves. `RangeExact` needs the header length of the token that was stored, hence
`crossed`; the rest is arithmetic for any chunk size, tag and header: sizes invert
(`PlaintextExact`), and the chunks a range covers, opened and cut, are its positions
(`OpenedFacts`, `FsRangeExact`, `ErasureRangeExact`). `Opened` is a recursive
function; that it gives positions for every number of chunks is shown by the least
number for which it would not (`NatLessThanWellFounded`), not by the induction
theorem.

*IAM and requests.* `IamInv` says that a change nothing runs beside is alone
(`Alone`) and what it has written so far (`Firm`), and that memory, the document
and every copy on its way to it agree on who is out (`OutEverywhere`) and on the
scope of the confined (`ConfinedEverywhere`). `AuditInv` says that file and queue
are a subsequence of the answers and that the rest is lost (`Recorded`), with
requests told apart by number (`Numbered`).

*Object lock.* What a delete has read of the sidecars goes stale, and so do copies.
`Backed` says that a copy which is not counted uneven says what was promised last.
For a request that is still writing, `Alone` says that no other writes the same
sidecar, `Promised` that nothing but what it asks for is promised, and `Walked` that
the copies it has been to say so: that gives `Backed` back when it is done. `ChecksHold`
says that what a delete has concluded so far, from an even copy, is true of what is
promised now, or it is excused; only `SetDone` could break it, and excuses. For the
sidecars `Swept` says that of a key without an object those copies that are left are
known (`leaked`) or a removal is still to come to them.

*Versions, filesystem.* `Base` holds whatever is cut off: each list of versions has
every id once (`SoundList`) and not yet the id that is being added (`NewId`), and
the step an operation is at fits what it does (`Control`). `SmoothInv`, until
something is upset, says for each step which file is where: the files are laid out
as the history lists them before the operation loads it (`AtRest`), and afterwards
as the list of the versions that stay, but for the one that is being demoted or
promoted, whose payload is a step ahead of its sidecar (`AtWork`). Acknowledged
versions are in that list (`Lists`), and the archive never has a file of another
version (`ArchiveOwn`), which is why a reader without a lock is safe there
(`ReaderFound`). The lemmas are on lists (what `Position` finds, what `RemoveAt`
and a push leave) and on layouts (`Laid...`: a layout survives the removal, the move
or the arrival of one version). For the refinement, `Planned` says what the
operation at work is going to make of the versions its clients know (`Known`, the
history or the object that has none): the versions that stay are `Without` the one
it replaces or removes, so the write of the history is the abstract step; of the
other steps only the last removal and unversioned writes show.

*Versions, erasure.* `EBase` is the counterpart of `Base`, for every copy of the history
and for the shards. `ESmooth`, until something goes wrong that the operations do not
undo, speaks of the drives that missed no pass (`Fresh`); what the others hold is left
open, but for a fact that stays true while a drive is away: a copy of the history
with the highest epoch is the one that counts (`OneHistory`). The fresh drives have every version
that is listed (`EAtRest`), or that is to stay once the operation has loaded the
history (`EAtWork`), and nothing is said of further files, as moves are best effort.
`EUnborn` deals with a key that has no history yet, whose object may be on some
drives only. `ErasureKept` follows because any K fresh drives agree on the history
and on each place; `ErasureNeverAnother` because fewer than K stale ones leave a fresh drive
among any K with equal shards (`EnoughFresh`), so a read is right or fails. In the refinement a
write shows where its history is recorded, not where its shards arrive
(`EUnrecorded`), except where there is no history; `EPlanned` says that what is about
to be recorded is the history that counts `Without` the version replaced or removed.

**What the proofs changed.** Attempts that failed showed the models wrong where
the bounds of a run did not reach; the models were corrected against the source.
In `Retention` two clients that rewrite one sidecar left a state in which a
promised lock had no file (of two writers at a time none is `alone`). In `Buckets` two observations were wrong: which drives still miss
the directory after a PUT has made it on others, and what becomes of an object when
the deletion of its bucket is acknowledged; both take two faults to see. In
`ErasureObject` the observation behind `SurvivesOneLoss` was reset by the next PUT
even if that failed (`spared` is kept for the acknowledged one).
In `ErasureVersions` the observation of a seed did not
see drives that lacked the object or had a history, `Record` acknowledged with no
drive to write to, and `ErasureNeverAnother` was stated for any number of stale drives;
it takes more faults than the run has to see the first and the last. `VersionedKey`'s `Without` was a `SelectSeq`, which
no prover here can unfold; ids are distinct, so it leaves one entry out.
In `Listing` and `Container` nothing was wrong, but the loops over keys and over
chunks were folds, about which no prover here can argue: the page is now the
candidates before the first for which there is no room (`Crowded`), the opened
chunks a recursive function. `CASE` expressions whose arms overlap, which TLC resolves in order and the
semantics leaves open, are chains of `IF` now.

**Only model-checked:** liveness (`NoStarvation`, `RevokedIsCut`, `Expires`,
`ListEnds`) is beyond the prover, as fairness and ENABLED are. Every invariant and
every action property of a run that passes, and every refinement, is a theorem.
`QuorumReadable` fails, as section 3 says.

## 5. What is not modelled

- The ciphers, Reed-Solomon, BLAKE3, signatures and TLS: libraries, used by
  contract (a checksum tells writes apart, K shards rebuild a block, a signature
  is made with one secret).
- Parsing and printing: XML, headers, `auth/chunked.rs`, the admin protocol's
  payload encryption. A truncated aws-chunked body is taken for a short one and the
  shorter object is acknowledged; the models start behind that.
- Configuration, start-up wiring, the console's pages, the command line client and
  migration: no state of their own. That a gateway which is itself a node leaves
  itself out of the lock nodes, and that lock clients speak plain HTTP, is wiring
  that the models do not see.
- STS `POST /` and health requests in `Access`: they pass before the signature check
  and are not logged (`auth/mod.rs:74-82`). The erasure store assembles a completed
  upload in `assembly.tmp` of its staging directory; `Multipart` copies from the parts.
- In `Retention` an object is one value, its shards are in `ErasureObject`; a drive
  that missed its removal returns with the sidecars and not with the object. An
  erasure PUT that fails after it archived the current version is in
  `ErasureVersions`. Two clients that set one sidecar at a time, and a delete that
  finds no copy because two drives fail, are in the theorem and not in the run.
- In the modelled parts: pruning of empty directories, wording of errors, names of
  files (the filesystem store's sidecars of key `a` and of key `a.tags` can have
  the same name), COPY and completion of an upload into a versioned key (in the
  filesystem store they end as PUT does; in the erasure store completion does not
  look at the versioning status), and, in `Buckets`, more than one object: the
  emptiness check of `delete_bucket` reads a page of one.

## 6. Plan

What is left, the most important first.

1. COPY and completion as actions of `FsVersions` and `ErasureVersions`.
2. A composition of `FencedWrite` with `ErasureVersions`: versions written by
   gateways that lose their leases.
