----------------------------- MODULE LocalKeyLocks -----------------------------
(***************************************************************************)
(* The per-key asynchronous mutexes inside one gateway process             *)
(* (cluster/lock.rs, struct LocalKeyLocks).  A map sends a key to a        *)
(* reference-counted mutex.  Acquiring a key takes two steps that other    *)
(* tasks may interleave with: clone the key's mutex out of the map, under  *)
(* the map's own lock, then wait on that mutex.  When the map has grown    *)
(* past a limit the first step also throws out every entry that only the   *)
(* map refers to.  Two tasks exclude each other only if they wait on the   *)
(* same mutex, so an entry thrown out too early would break the lock.      *)
(*                                                                         *)
(* The mutex is tokio's, which is fair: a released mutex goes to the task  *)
(* that has waited longest.  ahead[t] is the set of tasks that hold or     *)
(* wait for t's mutex and queued before t.                                 *)
(***************************************************************************)
EXTENDS Naturals, FiniteSets

CONSTANTS Tasks,     \* the requests in flight
          Keys,      \* the resources they lock
          Arcs,      \* identities of the mutexes; a freed one may come back
          None,      \* no key, no mutex
          MaxIdle    \* the map's size above which idle entries are dropped (1024)

ASSUME NoneAssumption == None \notin Keys /\ None \notin Arcs
ASSUME MaxIdleAssumption == MaxIdle \in Nat

VARIABLES map,       \* map[k]: the mutex of key k, None if the key has no entry
          stage,     \* where each task is in acquire
          key,       \* the key each task works on
          arc,       \* the mutex each task has a reference to
          ahead      \* the tasks queued before each task on its mutex

varsLocal == <<map, stage, key, arc, ahead>>

TypeOKLocal ==
  /\ map \in [Keys -> Arcs \cup {None}]
  /\ stage \in [Tasks -> {"idle", "cloned", "queued", "holding"}]
  /\ key \in [Tasks -> Keys \cup {None}]
  /\ arc \in [Tasks -> Arcs \cup {None}]
  /\ ahead \in [Tasks -> SUBSET Tasks]
  /\ \A t \in Tasks : stage[t] = "idle" => arc[t] = None

InitLocal ==
  /\ map = [k \in Keys |-> None]
  /\ stage = [t \in Tasks |-> "idle"]
  /\ key = [t \in Tasks |-> None]
  /\ arc = [t \in Tasks |-> None]
  /\ ahead = [t \in Tasks |-> {}]

-------------------------------------------------------------------------------
\* Somebody besides the map refers to mutex a: its strong count is above 1.
Referenced(a) == \E t \in Tasks : arc[t] = a

\* The map has more entries than it may keep idle.
Overgrown == Cardinality({k \in Keys : map[k] # None}) > MaxIdle

\* Mutant of Retained: entries still referred to are dropped as well.
RetainedIgnoringCount == [k \in Keys |-> IF Overgrown THEN None ELSE map[k]]

\* The map once idle entries have been dropped, if it is overgrown.
Retained ==
  [k \in Keys |-> IF Overgrown /\ ~ Referenced(map[k]) THEN None ELSE map[k]]

\* A mutex that nothing refers to: what Arc::new may return.
Fresh(m) == {a \in Arcs : ~ Referenced(a) /\ \A k \in Keys : m[k] # a}

\* acquire up to the clone of the key's mutex, all of it under the map's lock.
Clone(t, k) ==
  /\ stage[t] = "idle"
  /\ \E a \in IF Retained[k] # None THEN {Retained[k]} ELSE Fresh(Retained) :
        /\ map' = [Retained EXCEPT ![k] = a]
        /\ arc' = [arc EXCEPT ![t] = a]
  /\ stage' = [stage EXCEPT ![t] = "cloned"]
  /\ key' = [key EXCEPT ![t] = k]
  /\ UNCHANGED ahead

\* Mutex a is taken by u: held, or about to be once the tasks ahead are done.
Queued(u, a) == stage[u] \in {"queued", "holding"} /\ arc[u] = a

\* Mutant of Enqueue: only those that wait are counted, not the holder.
EnqueueBehindWaiters(t) ==
  /\ stage[t] = "cloned"
  /\ ahead' = [ahead EXCEPT ![t] = {u \in Tasks : Queued(u, arc[t]) /\ stage[u] = "queued"}]
  /\ stage' = [stage EXCEPT ![t] = "queued"]
  /\ UNCHANGED <<map, key, arc>>

\* lock_owned().await is polled for the first time.
Enqueue(t) ==
  /\ stage[t] = "cloned"
  /\ ahead' = [ahead EXCEPT ![t] = {u \in Tasks : Queued(u, arc[t])}]
  /\ stage' = [stage EXCEPT ![t] = "queued"]
  /\ UNCHANGED <<map, key, arc>>

\* The mutex has come round to t, and acquire returns the guard.
Granted(t) ==
  /\ stage[t] = "queued"
  /\ ahead[t] = {}
  /\ stage' = [stage EXCEPT ![t] = "holding"]
  /\ UNCHANGED <<map, key, arc, ahead>>

\* t leaves its mutex's queue and gives up its reference.
LeaveQueue(t) ==
  /\ stage' = [stage EXCEPT ![t] = "idle"]
  /\ key' = [key EXCEPT ![t] = None]
  /\ arc' = [arc EXCEPT ![t] = None]
  /\ ahead' = [u \in Tasks |-> IF u = t THEN {} ELSE ahead[u] \ {t}]
  /\ UNCHANGED map

\* Mutant of Release: the reference goes, but those behind t keep waiting for it.
ReleaseStillQueued(t) ==
  /\ stage[t] = "holding"
  /\ stage' = [stage EXCEPT ![t] = "idle"]
  /\ key' = [key EXCEPT ![t] = None]
  /\ arc' = [arc EXCEPT ![t] = None]
  /\ ahead' = [ahead EXCEPT ![t] = {}]
  /\ UNCHANGED map

\* The guard is dropped: the operation is over, or its request was cancelled.
Release(t) == stage[t] = "holding" /\ LeaveQueue(t)

\* The request is dropped while it waits (its client has disconnected).
Cancel(t) == stage[t] = "queued" /\ LeaveQueue(t)

NextLocal ==
  \E t \in Tasks :
    \/ \E k \in Keys : Clone(t, k)
    \/ Enqueue(t)
    \/ Granted(t)
    \/ Release(t)
    \/ Cancel(t)

SpecLocal == InitLocal /\ [][NextLocal]_varsLocal

\* A woken task is polled, and tokio's mutex hands itself to the next in line.
\* Nothing obliges a holder to end: a PUT reads its client's body under the lock,
\* and neither the server nor its clients of other nodes set a timeout.
Fairness == \A t \in Tasks : WF_varsLocal(Enqueue(t)) /\ WF_varsLocal(Granted(t))

FairSpec == SpecLocal /\ Fairness

-------------------------------------------------------------------------------
\* Every task at work on a key refers to the mutex the map has for it, so an
\* entry in use is never dropped and tasks on one key always meet in one mutex.
OneMutexPerKey ==
  \A t \in Tasks : stage[t] # "idle" => arc[t] = map[key[t]]

\* No two tasks hold the lock of the same key, whatever the map has dropped.
MutualExclusion ==
  \A t, u \in Tasks :
    stage[t] = "holding" /\ stage[u] = "holding" /\ key[t] = key[u] => t = u

\* A task that waits for a key gets it, unless its request is cancelled first or
\* somebody holds that very key for ever: neither the pruning of the map, nor the
\* holders of other keys, nor requests cancelled in the queue leave it waiting
\* (the strong_count test and lock_owned of acquire).
NoStarvation ==
  \A t \in Tasks :
    \/ stage[t] = "queued" ~> stage[t] # "queued"
    \/ \E u \in Tasks : <>[](stage[t] = "queued" /\ stage[u] = "holding" /\ key[u] = key[t])

\* The lock set implements one exclusive lock per key.
held == [t \in Tasks |-> IF stage[t] = "holding" THEN key[t] ELSE None]
Abstract == INSTANCE KeyMutex
ImplementsKeyMutex == Abstract!Spec

===============================================================================
