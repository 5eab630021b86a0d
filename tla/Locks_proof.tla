------------------------------ MODULE Locks_proof ------------------------------
(***************************************************************************)
(* The two layers of locking, one inside the other.                        *)
(*                                                                         *)
(* Inside one gateway (LocalKeyLocks): mutual exclusion of the per-key     *)
(* locks, for any number of tasks, keys and mutexes and any idle limit,    *)
(* and the refinement of KeyMutex.  MutualExclusion is not inductive: it   *)
(* needs the fact that tasks on one key share one mutex (OneMutexPerKey),  *)
(* which in turn holds because an entry that a task refers to is never     *)
(* dropped, and the fact that any two tasks in one mutex's queue are       *)
(* ordered by ahead (QueueOrdered).                                        *)
(*                                                                         *)
(* Between gateways (DistLock, FencedWrite): the guarantees of the quorum  *)
(* lock, and of the writes made under it, for any number of gateways,      *)
(* nodes, rounds, sessions and faults.  TokensTellApart is not inductive:  *)
(* a re-entrant grant hands out the slot's token again, so it must be      *)
(* known that whoever else has that token is not the one whose lease is    *)
(* running.  TokenOwner says who may have the newest token.  The writes    *)
(* only add to the lock (OnlyLockSteps), so that what is proved of Spec    *)
(* holds under SpecWrite.                                                  *)
(***************************************************************************)
EXTENDS FencedWrite, LocalKeyLocks, FiniteSetTheorems, TLAPS

-------------------------------------------------------------------------------
(* The locks of one gateway. *)


\* A task refers to a mutex exactly while it works on a key.
Active ==
  \A t \in Tasks : IF stage[t] = "idle" THEN arc[t] = None
                                     ELSE key[t] \in Keys /\ arc[t] \in Arcs

\* Of two tasks in the queue of one mutex, one is ahead of the other.
QueueOrdered ==
  \A t, u \in Tasks : \A a \in Arcs :
    t # u /\ Queued(t, a) /\ Queued(u, a) => t \in ahead[u] \/ u \in ahead[t]

\* The holder is at the head of its queue.
HolderFirst == \A t \in Tasks : stage[t] = "holding" => ahead[t] = {}

IInvLocal == TypeOKLocal /\ Active /\ OneMutexPerKey /\ QueueOrdered /\ HolderFirst

-------------------------------------------------------------------------------
\* A task that is in a mutex's queue excludes any other from its head.
LEMMA Exclusive ==
  ASSUME IInvLocal, NEW t \in Tasks, NEW u \in Tasks, t # u,
         stage[t] \in {"queued", "holding"}, ahead[t] = {}, stage[u] = "holding"
  PROVE  key[t] # key[u]
<1> SUFFICES ASSUME key[t] = key[u] PROVE FALSE
  OBVIOUS
<1>1. arc[t] \in Arcs /\ arc[u] = arc[t]
  BY DEF IInvLocal, TypeOKLocal, Active, OneMutexPerKey
<1>2. Queued(t, arc[t]) /\ Queued(u, arc[t])
  BY <1>1 DEF Queued
<1>3. t \in ahead[u] \/ u \in ahead[t]
  BY <1>1, <1>2 DEF IInvLocal, QueueOrdered
<1> QED
  BY <1>3 DEF IInvLocal, HolderFirst

\* The clone step: an entry that a task refers to is kept, so all tasks of the
\* key meet in its mutex.
LEMMA CloneStep ==
  ASSUME IInvLocal, NEW t \in Tasks, NEW k \in Keys, Clone(t, k)
  PROVE  IInvLocal'
<1> USE NoneAssumption
<1> PICK a \in (IF Retained[k] # None THEN {Retained[k]} ELSE Fresh(Retained)) :
      /\ map' = [Retained EXCEPT ![k] = a]
      /\ arc' = [arc EXCEPT ![t] = a]
  BY DEF Clone
<1>1. /\ stage[t] = "idle"
      /\ stage' = [stage EXCEPT ![t] = "cloned"]
      /\ key' = [key EXCEPT ![t] = k]
      /\ ahead' = ahead
  BY DEF Clone
<1>2. Retained \in [Keys -> Arcs \cup {None}]
  BY DEF IInvLocal, TypeOKLocal, Retained
<1>3. a \in Arcs
  BY <1>2 DEF Fresh
<1>4. TypeOKLocal'
  BY <1>1, <1>2, <1>3 DEF IInvLocal, TypeOKLocal
<1>5. Active'
  BY <1>1, <1>3 DEF IInvLocal, TypeOKLocal, Active
<1>6. OneMutexPerKey'
  <2> SUFFICES ASSUME NEW u \in Tasks, stage'[u] # "idle" PROVE arc'[u] = map'[key'[u]]
    BY DEF OneMutexPerKey
  <2>1. CASE u = t
    BY <2>1, <1>1, <1>2 DEF IInvLocal, TypeOKLocal
  <2>2. CASE u # t
    <3>1. stage[u] # "idle" /\ key[u] \in Keys /\ arc[u] \in Arcs /\ arc[u] = map[key[u]]
      BY <2>2, <1>1 DEF IInvLocal, TypeOKLocal, Active, OneMutexPerKey
    <3>2. Retained[key[u]] = arc[u]
      BY <3>1 DEF Retained, Referenced
    <3>3. key[u] = k => a = arc[u]
      BY <3>1, <3>2
    <3> QED
      BY <2>2, <1>1, <1>2, <3>1, <3>2, <3>3 DEF IInvLocal, TypeOKLocal
  <2> QED
    BY <2>1, <2>2
<1>7. QueueOrdered'
  <2> SUFFICES ASSUME NEW u \in Tasks, NEW v \in Tasks, NEW b \in Arcs,
                      u # v, Queued(u, b)', Queued(v, b)'
               PROVE  u \in ahead[v] \/ v \in ahead[u]
    BY <1>1 DEF QueueOrdered
  <2>1. u # t /\ v # t
    BY <1>1 DEF Queued, IInvLocal, TypeOKLocal
  <2>2. Queued(u, b) /\ Queued(v, b)
    BY <1>1, <2>1 DEF Queued, IInvLocal, TypeOKLocal
  <2> QED
    BY <2>2 DEF IInvLocal, QueueOrdered
<1>8. HolderFirst'
  BY <1>1 DEF IInvLocal, TypeOKLocal, HolderFirst
<1> QED
  BY <1>4, <1>5, <1>6, <1>7, <1>8 DEF IInvLocal

\* Joining the queue: the newcomer is behind everybody in it.
LEMMA EnqueueStep ==
  ASSUME IInvLocal, NEW t \in Tasks, Enqueue(t)
  PROVE  IInvLocal'
<1>1. /\ stage[t] = "cloned"
      /\ stage' = [stage EXCEPT ![t] = "queued"]
      /\ ahead' = [ahead EXCEPT ![t] = {u \in Tasks : Queued(u, arc[t])}]
      /\ map' = map /\ key' = key /\ arc' = arc
  BY DEF Enqueue
<1>2. TypeOKLocal' /\ Active' /\ OneMutexPerKey'
  BY <1>1 DEF IInvLocal, TypeOKLocal, Active, OneMutexPerKey
<1>3. HolderFirst'
  BY <1>1 DEF IInvLocal, TypeOKLocal, HolderFirst
<1>4. QueueOrdered'
  <2> SUFFICES ASSUME NEW u \in Tasks, NEW v \in Tasks, NEW b \in Arcs,
                      u # v, Queued(u, b)', Queued(v, b)'
               PROVE  u \in ahead'[v] \/ v \in ahead'[u]
    BY DEF QueueOrdered
  <2>1. CASE u = t
    BY <2>1, <1>1 DEF Queued, IInvLocal, TypeOKLocal
  <2>2. CASE v = t
    BY <2>2, <1>1 DEF Queued, IInvLocal, TypeOKLocal
  <2>3. CASE u # t /\ v # t
    <3>1. Queued(u, b) /\ Queued(v, b)
      BY <2>3, <1>1 DEF Queued, IInvLocal, TypeOKLocal
    <3> QED
      BY <3>1, <2>3, <1>1 DEF IInvLocal, QueueOrdered, TypeOKLocal
  <2> QED
    BY <2>1, <2>2, <2>3
<1> QED
  BY <1>2, <1>3, <1>4 DEF IInvLocal

\* Being granted the mutex: only the head of the queue can be.
LEMMA GrantedStep ==
  ASSUME IInvLocal, NEW t \in Tasks, Granted(t)
  PROVE  IInvLocal'
<1>1. /\ stage[t] = "queued" /\ ahead[t] = {}
      /\ stage' = [stage EXCEPT ![t] = "holding"]
      /\ map' = map /\ key' = key /\ arc' = arc /\ ahead' = ahead
  BY DEF Granted
<1>2. TypeOKLocal' /\ Active' /\ OneMutexPerKey' /\ HolderFirst'
  BY <1>1 DEF IInvLocal, TypeOKLocal, Active, OneMutexPerKey, HolderFirst
<1>3. QueueOrdered'
  BY <1>1 DEF IInvLocal, TypeOKLocal, QueueOrdered, Queued
<1> QED
  BY <1>2, <1>3 DEF IInvLocal

\* Leaving the queue keeps the order of those that stay.
LEMMA LeaveStep ==
  ASSUME IInvLocal, NEW t \in Tasks, LeaveQueue(t)
  PROVE  IInvLocal'
<1>1. /\ stage' = [stage EXCEPT ![t] = "idle"]
      /\ key' = [key EXCEPT ![t] = None]
      /\ arc' = [arc EXCEPT ![t] = None]
      /\ ahead' = [u \in Tasks |-> IF u = t THEN {} ELSE ahead[u] \ {t}]
      /\ map' = map
  BY DEF LeaveQueue
<1>2. TypeOKLocal'
  BY <1>1 DEF IInvLocal, TypeOKLocal
<1>3. Active' /\ OneMutexPerKey'
  BY <1>1 DEF IInvLocal, TypeOKLocal, Active, OneMutexPerKey
<1>4. HolderFirst'
  BY <1>1 DEF IInvLocal, TypeOKLocal, HolderFirst
<1>5. QueueOrdered'
  <2> SUFFICES ASSUME NEW u \in Tasks, NEW v \in Tasks, NEW b \in Arcs,
                      u # v, Queued(u, b)', Queued(v, b)'
               PROVE  u \in ahead'[v] \/ v \in ahead'[u]
    BY DEF QueueOrdered
  <2>1. u # t /\ v # t
    BY <1>1 DEF Queued, IInvLocal, TypeOKLocal
  <2>2. Queued(u, b) /\ Queued(v, b)
    BY <1>1, <2>1 DEF Queued, IInvLocal, TypeOKLocal
  <2>3. u \in ahead[v] \/ v \in ahead[u]
    BY <2>2 DEF IInvLocal, QueueOrdered
  <2> QED
    BY <2>1, <2>3, <1>1
<1> QED
  BY <1>2, <1>3, <1>4, <1>5 DEF IInvLocal

\* Every step of the lock set preserves the inductive invariant.
LEMMA LocalStepKeeps == IInvLocal /\ [NextLocal]_varsLocal => IInvLocal'
<1> SUFFICES ASSUME IInvLocal, [NextLocal]_varsLocal PROVE IInvLocal'
  OBVIOUS
<1>1. ASSUME NEW t \in Tasks, NEW k \in Keys, Clone(t, k) PROVE IInvLocal'
  BY <1>1, CloneStep
<1>2. ASSUME NEW t \in Tasks, Enqueue(t) PROVE IInvLocal'
  BY <1>2, EnqueueStep
<1>3. ASSUME NEW t \in Tasks, Granted(t) PROVE IInvLocal'
  BY <1>3, GrantedStep
<1>4. ASSUME NEW t \in Tasks, Release(t) \/ Cancel(t) PROVE IInvLocal'
  BY <1>4, LeaveStep DEF Release, Cancel
<1>5. CASE UNCHANGED varsLocal
  BY <1>5 DEF varsLocal, IInvLocal, TypeOKLocal, Active, OneMutexPerKey, QueueOrdered, HolderFirst, Queued
<1> QED
  BY <1>1, <1>2, <1>3, <1>4, <1>5 DEF NextLocal

\* The empty lock set has the inductive invariant.
LEMMA LocalInitial == InitLocal => IInvLocal
BY NoneAssumption DEF InitLocal, IInvLocal, TypeOKLocal, Active, OneMutexPerKey, QueueOrdered, HolderFirst, Queued

\* The inductive invariant holds in every reachable state of the lock set
\* (LocalKeyLocks::acquire and the drop of its guard).
THEOREM LocalInductive == SpecLocal => []IInvLocal
BY LocalInitial, LocalStepKeeps, PTL DEF SpecLocal

\* The lock set's variables keep their types.
THEOREM LocalTypeCorrect == SpecLocal => []TypeOKLocal
<1>1. IInvLocal => TypeOKLocal
  BY DEF IInvLocal
<1> QED
  BY <1>1, LocalInductive, PTL

\* Tasks at work on one key always share the map's mutex: dropping idle
\* entries (the strong_count test of LocalKeyLocks::acquire) is safe.
THEOREM SharedMutex == SpecLocal => []OneMutexPerKey
<1>1. IInvLocal => OneMutexPerKey
  BY DEF IInvLocal
<1> QED
  BY <1>1, LocalInductive, PTL

\* At most one task holds the lock of a key.
THEOREM LocalExclusion == SpecLocal => []MutualExclusion
<1>1. IInvLocal => MutualExclusion
  <2> SUFFICES ASSUME IInvLocal, NEW t \in Tasks, NEW u \in Tasks, t # u,
                      stage[t] = "holding", stage[u] = "holding"
               PROVE  key[t] # key[u]
    BY DEF MutualExclusion
  <2>1. ahead[t] = {}
    BY DEF IInvLocal, HolderFirst
  <2> QED
    BY <2>1, Exclusive
<1> QED
  BY <1>1, LocalInductive, PTL

\* The lock set implements one exclusive lock per key: granting the mutex is
\* the abstract acquisition, dropping the guard the abstract release, and every
\* other step, the dropping of idle entries included, is invisible.
THEOREM LocalRefinement == SpecLocal => ImplementsKeyMutex
<1> USE NoneAssumption
<1>1. InitLocal => Abstract!Init
  BY DEF InitLocal, Abstract!Init, held
<1>2. IInvLocal /\ [NextLocal]_varsLocal => [Abstract!Next]_held
  <2> SUFFICES ASSUME IInvLocal, [NextLocal]_varsLocal PROVE [Abstract!Next]_held
    OBVIOUS
  <2>1. ASSUME NEW t \in Tasks, NEW k \in Keys, Clone(t, k) PROVE held' = held
    BY <2>1 DEF Clone, held, IInvLocal, TypeOKLocal
  <2>2. ASSUME NEW t \in Tasks, Enqueue(t) PROVE held' = held
    BY <2>2 DEF Enqueue, held, IInvLocal, TypeOKLocal
  <2>3. ASSUME NEW t \in Tasks, Granted(t) PROVE Abstract!Next
    <3>1. key[t] \in Keys /\ held[t] = None
      BY <2>3 DEF Granted, held, IInvLocal, Active
    <3>2. \A u \in Tasks : held[u] # key[t]
      <4> TAKE u \in Tasks
      <4>1. CASE stage[u] = "holding"
        <5>1. u # t
          BY <2>3, <4>1 DEF Granted
        <5>2. key[t] # key[u]
          BY <5>1, <2>3, <4>1, Exclusive DEF Granted
        <5> QED
          BY <5>2, <4>1 DEF held
      <4>2. CASE stage[u] # "holding"
        BY <4>2, <3>1 DEF held
      <4> QED
        BY <4>1, <4>2
    <3>3. held' = [held EXCEPT ![t] = key[t]]
      BY <2>3 DEF Granted, held, IInvLocal, TypeOKLocal
    <3> QED
      BY <3>1, <3>2, <3>3 DEF Abstract!Next, Abstract!Acquire
  <2>4. ASSUME NEW t \in Tasks, Release(t) PROVE Abstract!Next
    <3>1. held[t] # None
      BY <2>4 DEF Release, held, IInvLocal, Active
    <3>2. held' = [held EXCEPT ![t] = None]
      BY <2>4 DEF Release, LeaveQueue, held, IInvLocal, TypeOKLocal
    <3> QED
      BY <3>1, <3>2 DEF Abstract!Next, Abstract!Release
  <2>5. ASSUME NEW t \in Tasks, Cancel(t) PROVE held' = held
    BY <2>5 DEF Cancel, LeaveQueue, held, IInvLocal, TypeOKLocal
  <2>6. CASE UNCHANGED varsLocal
    BY <2>6 DEF varsLocal, held
  <2> QED
    BY <2>1, <2>2, <2>3, <2>4, <2>5, <2>6 DEF NextLocal
<1> QED
  BY <1>1, <1>2, LocalInductive, PTL DEF SpecLocal, ImplementsKeyMutex, Abstract!Spec

-------------------------------------------------------------------------------
(* The quorum lock and the writes under it. *)

\* No gateway has a token its node has not reached.
TokenBound ==
  \A n \in Nodes : ~ forgot[n] => \A g \in Gateways : tokens[g][n] <= slot[n].token

\* Whoever has the newest token owns the slot, or the slot is free.
TokenOwner ==
  \A n \in Nodes : ~ forgot[n] =>
    \A g \in Gateways : tokens[g][n] > 0 /\ tokens[g][n] = slot[n].token
      => slot[n].owner \in {Owner(g), Free}

\* No two gateways have the same token.
TokenDistinct ==
  \A n \in Nodes : ~ forgot[n] =>
    \A g, h \in Gateways : g # h /\ tokens[g][n] = tokens[h][n] => tokens[g][n] = 0

\* A holder has tokens from a majority.
HolderQuorum == \A g \in Gateways : pc[g] = "holding" => HasQuorum(g)

\* A release task works for a session that is over.
DropsOver ==
  \A d \in drops : /\ d.owner[2] <= sess[d.owner[1]]
                   /\ d.owner[2] = sess[d.owner[1]] => pc[d.owner[1]] = "idle"

IInv == TypeOK /\ TokenBound /\ TokenOwner /\ TokenDistinct /\ HolderQuorum /\ DropsOver

-------------------------------------------------------------------------------
\* What a step may do to one node's slot without giving a token away.
SameOrReleased(n) ==
  /\ slot'[n].token = slot[n].token
  /\ slot'[n].owner \in {slot[n].owner, Free}

\* Owners are not Free, and different gateways have different owners.
LEMMA OwnerFacts ==
  ASSUME TypeOK, NEW g \in Gateways
  PROVE  /\ Owner(g) # Free
         /\ \A h \in Gateways : Owner(h) = Owner(g) => h = g
         /\ pc[g] # "idle" => Owner(g) \in Owners
<1>1. Owner(g) \in Gateways \X Nat
  BY SessionsAssumption DEF TypeOK, Owner
<1>2. pc[g] # "idle" => sess[g] \in 1 .. MaxSessions
  BY SessionsAssumption DEF TypeOK
<1> QED
  BY <1>1, <1>2, FreeAssumption DEF Owner, Owners

\* A step that gives no token away keeps what is known of tokens.
LEMMA TokensKept ==
  ASSUME IInv, TypeOK',
         \A n \in Nodes : ~ forgot'[n] => ~ forgot[n] /\ SameOrReleased(n),
         \A g \in Gateways : \/ tokens'[g] = tokens[g] /\ sess'[g] = sess[g]
                             \/ tokens'[g] = NoTokens
  PROVE  TokenBound' /\ TokenOwner' /\ TokenDistinct'
<1> USE DEF IInv, NoTokens, SameOrReleased
<1>0. ASSUME NEW g \in Gateways, NEW n \in Nodes
      PROVE  \/ tokens'[g][n] = tokens[g][n] /\ sess'[g] = sess[g]
             \/ tokens'[g][n] = 0
  BY <1>0
<1>1. TokenBound'
  <2> SUFFICES ASSUME NEW n \in Nodes, ~ forgot'[n], NEW g \in Gateways
               PROVE  tokens'[g][n] <= slot'[n].token
    BY DEF TokenBound
  <2>1. slot'[n].token \in Nat /\ slot'[n].token = slot[n].token
    BY DEF TypeOK, SlotsOf
  <2> QED
    BY <1>0, <2>1 DEF TokenBound
<1>2. TokenOwner'
  <2> SUFFICES ASSUME NEW n \in Nodes, ~ forgot'[n], NEW g \in Gateways,
                      tokens'[g][n] > 0, tokens'[g][n] = slot'[n].token
               PROVE  slot'[n].owner \in {Owner(g)', Free}
    BY DEF TokenOwner
  <2>1. tokens'[g][n] = tokens[g][n] /\ sess'[g] = sess[g]
    BY <1>0
  <2>2. slot[n].owner \in {Owner(g), Free}
    BY <2>1 DEF TokenOwner
  <2> QED
    BY <2>1, <2>2 DEF Owner
<1>3. TokenDistinct'
  <2> SUFFICES ASSUME NEW n \in Nodes, ~ forgot'[n], NEW g \in Gateways, NEW h \in Gateways,
                      g # h, tokens'[g][n] = tokens'[h][n]
               PROVE  tokens'[g][n] = 0
    BY DEF TokenDistinct
  <2> QED
    BY <1>0 DEF TokenDistinct
<1> QED
  BY <1>1, <1>2, <1>3

\* A node's release, delivered or lost, gives no token away.
LEMMA ReleaseKeeps ==
  ASSUME TypeOK, NEW m \in Nodes, NEW o \in Owners, ReleaseAt(m, o)
  PROVE  /\ slot' \in [Nodes -> SlotsOf(Owners)]
         /\ \A n \in Nodes : SameOrReleased(n)
         /\ \A n \in Nodes : slot[n].owner # o => slot'[n] = slot[n]
         /\ spent' \in 0 .. MaxFaults
<1>1. /\ ReleasedSlot(slot[m], o) \in SlotsOf(Owners)
      /\ ReleasedSlot(slot[m], o).token = slot[m].token
      /\ ReleasedSlot(slot[m], o).owner \in {slot[m].owner, Free}
      /\ slot[m].owner # o => ReleasedSlot(slot[m], o) = slot[m]
  BY DEF TypeOK, ReleasedSlot, SlotsOf
<1>2. spent' \in 0 .. MaxFaults
  BY SessionsAssumption DEF TypeOK, ReleaseAt, Fault, NoFault
<1>3. slot' = slot \/ slot' = [slot EXCEPT ![m] = ReleasedSlot(slot[m], o)]
  BY DEF ReleaseAt
<1>4. CASE slot' = slot
  BY <1>2, <1>4 DEF SameOrReleased, TypeOK
<1>5. CASE slot' = [slot EXCEPT ![m] = ReleasedSlot(slot[m], o)]
  <2>1. /\ slot' \in [Nodes -> SlotsOf(Owners)]
        /\ slot'[m] = ReleasedSlot(slot[m], o)
        /\ \A n \in Nodes : n # m => slot'[n] = slot[n]
    BY <1>1, <1>5 DEF TypeOK
  <2>2. \A n \in Nodes : SameOrReleased(n)
    BY <1>1, <2>1 DEF SameOrReleased
  <2> QED
    BY <1>1, <1>2, <2>1, <2>2
<1> QED
  BY <1>3, <1>4, <1>5

-------------------------------------------------------------------------------
\* Starting, retrying, giving up, leaving and crashing only clear g's tokens.
LEMMA ClearingStep ==
  ASSUME IInv, NEW g \in Gateways,
         Begin(g) \/ Retry(g) \/ GiveUp(g) \/ Leave(g) \/ Crash(g)
  PROVE  IInv'
<1> USE NAssumption, RoundsAssumption, SessionsAssumption
<1>1. /\ slot' = slot /\ forgot' = forgot
      /\ tokens' = [tokens EXCEPT ![g] = NoTokens]
      /\ pc'[g] # "holding"
      /\ \A h \in Gateways : h # g => pc'[h] = pc[h] /\ sess'[h] = sess[h]
  BY DEF Begin, Retry, GiveUp, Leave, Crash, Forget, IInv, TypeOK
<1>2. TypeOK'
  <2>1. NoTokens \in [Nodes -> Nat]
    BY DEF NoTokens
  <2>2. CASE Begin(g)
    BY <2>1, <2>2 DEF Begin, IInv, TypeOK
  <2>3. CASE Retry(g)
    BY <2>1, <2>3 DEF Retry, IInv, TypeOK
  <2>4. CASE GiveUp(g)
    BY <2>1, <2>4 DEF GiveUp, IInv, TypeOK
  <2>5. CASE Leave(g)
    <3>1. pc[g] # "idle"
      BY <2>5 DEF Leave
    <3>2. [owner |-> Owner(g), next |-> 1] \in [owner : Owners, next : Nodes]
      BY <3>1, OwnerFacts DEF Nodes, IInv
    <3>3. drops' \subseteq [owner : Owners, next : Nodes]
      BY <2>5, <3>2 DEF Leave, IInv, TypeOK
    <3> QED
      BY <2>1, <2>5, <3>3 DEF Leave, Forget, IInv, TypeOK
  <2>6. CASE Crash(g)
    BY <2>1, <2>6 DEF Crash, Fault, Forget, IInv, TypeOK
  <2> QED
    BY <2>2, <2>3, <2>4, <2>5, <2>6
<1>3. TokenBound' /\ TokenOwner' /\ TokenDistinct'
  <2>1. \A n \in Nodes : SameOrReleased(n)
    BY <1>1 DEF SameOrReleased
  <2>2. \A h \in Gateways : \/ tokens'[h] = tokens[h] /\ sess'[h] = sess[h]
                            \/ tokens'[h] = NoTokens
    BY <1>1 DEF IInv, TypeOK
  <2> QED
    BY <1>1, <1>2, <2>1, <2>2, TokensKept
<1>4. HolderQuorum'
  <2> SUFFICES ASSUME NEW h \in Gateways, pc'[h] = "holding" PROVE HasQuorum(h)'
    BY DEF HolderQuorum
  <2>1. h # g /\ pc[h] = "holding" /\ tokens'[h] = tokens[h]
    BY <1>1 DEF IInv, TypeOK
  <2> QED
    BY <2>1 DEF IInv, HolderQuorum, HasQuorum, Granting
<1>5. DropsOver'
  <2> SUFFICES ASSUME NEW d \in drops'
               PROVE  /\ d.owner[2] <= sess'[d.owner[1]]
                      /\ d.owner[2] = sess'[d.owner[1]] => pc'[d.owner[1]] = "idle"
    BY DEF DropsOver
  <2>1. CASE d \in drops
    <3>1. /\ d.owner[1] \in Gateways /\ d.owner[2] \in Nat
          /\ d.owner[2] <= sess[d.owner[1]]
          /\ d.owner[2] = sess[d.owner[1]] => pc[d.owner[1]] = "idle"
      BY <2>1 DEF IInv, TypeOK, DropsOver, Owners
    <3>2. CASE d.owner[1] # g
      BY <3>1, <3>2, <1>1
    <3>3. CASE d.owner[1] = g /\ Begin(g)
      BY <3>1, <3>3 DEF Begin, IInv, TypeOK
    <3>4. CASE d.owner[1] = g /\ ~ Begin(g)
      <4>1. sess'[g] = sess[g]
        BY <3>4 DEF Retry, GiveUp, Leave, Crash
      <4>2. pc[g] = "idle" => FALSE
        BY <3>4 DEF Retry, GiveUp, Leave, Crash, Forget
      <4> QED
        BY <3>1, <3>4, <4>1, <4>2
    <3> QED
      BY <3>2, <3>3, <3>4
  <2>2. CASE d \notin drops
    <3>1. Leave(g) /\ d = [owner |-> Owner(g), next |-> 1]
      BY <2>2 DEF Begin, Retry, GiveUp, Leave, Crash
    <3> QED
      BY <3>1 DEF Leave, Forget, Owner, IInv, TypeOK
  <2> QED
    BY <2>1, <2>2
<1> QED
  BY <1>2, <1>3, <1>4, <1>5 DEF IInv

\* Asking: a fresh grant's token is above all others of its node, and a
\* re-entrant grant repeats a token that only its owner can have.
LEMMA AskStep ==
  ASSUME IInv, NEW g \in Gateways, Ask(g)
  PROVE  IInv'
<1> USE NAssumption, RoundsAssumption, SessionsAssumption
<1> DEFINE n == at[g]
           after == GrantedSlot(slot[n], Owner(g))
<1>1. /\ pc[g] = "asking" /\ n \in Nodes
      /\ at' = [at EXCEPT ![g] = @ + 1]
      /\ UNCHANGED <<pc, sess, round, drops, forgot>>
  BY DEF Ask, IInv, TypeOK, Nodes
<1>2. /\ Owner(g) \in Owners /\ Owner(g) # Free
      /\ \A h \in Gateways : Owner(h) = Owner(g) => h = g
      /\ \A h \in Gateways : Owner(h)' = Owner(h)
  BY <1>1, OwnerFacts DEF IInv, Owner
<1>3. /\ slot[n] \in SlotsOf(Owners) /\ slot[n].token \in Nat
      /\ after \in SlotsOf(Owners) /\ after.owner = Owner(g) /\ after.token \in Nat
      /\ \/ after.token = slot[n].token /\ slot[n].owner = Owner(g)
         \/ after.token = slot[n].token + 1
  BY <1>1, <1>2 DEF IInv, TypeOK, SlotsOf, GrantedSlot, Reentrant
<1>4. /\ spent' \in 0 .. MaxFaults
      /\ \/ slot' = [slot EXCEPT ![n] = after] /\ tokens' = [tokens EXCEPT ![g][n] = after.token]
         \/ slot' = [slot EXCEPT ![n] = after] /\ tokens' = tokens
         \/ slot' = slot /\ tokens' = tokens
  BY DEF Ask, Fault, NoFault, IInv, TypeOK
<1> HIDE DEF n, after
<1>5. TypeOK'
  <2>1. slot' \in [Nodes -> SlotsOf(Owners)] /\ tokens' \in [Gateways -> [Nodes -> Nat]]
    BY <1>1, <1>3, <1>4 DEF IInv, TypeOK
  <2>2. at' \in [Gateways -> 1 .. N + 1]
    BY <1>1 DEF IInv, TypeOK, Nodes, n
  <2> QED
    BY <1>1, <1>4, <2>1, <2>2 DEF IInv, TypeOK
<1>6. \A m \in Nodes : m # n =>
        slot'[m] = slot[m] /\ \A h \in Gateways : tokens'[h][m] = tokens[h][m]
  BY <1>1, <1>4 DEF IInv, TypeOK
<1>7. \A h \in Gateways : h # g => tokens'[h] = tokens[h]
  BY <1>1, <1>4 DEF IInv, TypeOK
<1>8. \A h \in Gateways, m \in Nodes : tokens[h][m] \in Nat
  BY DEF IInv, TypeOK
<1>9. \/ slot'[n] = after /\ tokens'[g][n] = after.token
      \/ slot'[n] = after /\ tokens'[g][n] = tokens[g][n]
      \/ slot'[n] = slot[n] /\ tokens'[g][n] = tokens[g][n]
  BY <1>1, <1>4 DEF IInv, TypeOK
<1>10. TokenBound' /\ TokenOwner' /\ TokenDistinct'
  <2>1. ASSUME NEW h \in Gateways, ~ forgot[n]
        PROVE  /\ tokens'[h][n] <= slot'[n].token
               /\ tokens'[h][n] > 0 /\ tokens'[h][n] = slot'[n].token
                    => slot'[n].owner \in {Owner(h), Free}
    <3>1. /\ tokens[h][n] <= slot[n].token
          /\ tokens[h][n] > 0 /\ tokens[h][n] = slot[n].token
               => slot[n].owner \in {Owner(h), Free}
      BY <2>1, <1>1 DEF IInv, TokenBound, TokenOwner
    <3> QED
      BY <3>1, <1>1, <1>2, <1>3, <1>7, <1>8, <1>9
  <2>2. ASSUME NEW h \in Gateways, h # g, ~ forgot[n], tokens'[h][n] = tokens'[g][n]
        PROVE  tokens'[h][n] = 0
    <3>1. /\ tokens[h][n] <= slot[n].token
          /\ tokens[h][n] > 0 /\ tokens[h][n] = slot[n].token
               => slot[n].owner \in {Owner(h), Free}
          /\ tokens[h][n] = tokens[g][n] => tokens[h][n] = 0
      BY <2>2, <1>1 DEF IInv, TokenBound, TokenOwner, TokenDistinct
    <3>2. tokens'[h][n] = tokens[h][n]
      BY <2>2, <1>7
    <3>3. Owner(h) # Owner(g)
      BY <2>2, <1>2
    <3> QED
      BY <3>1, <3>2, <3>3, <2>2, <1>1, <1>2, <1>3, <1>8, <1>9
  <2>3. TokenBound'
    BY <1>1, <1>6, <2>1 DEF IInv, TokenBound
  <2>4. TokenOwner'
    <3> SUFFICES ASSUME NEW m \in Nodes, ~ forgot'[m], NEW h \in Gateways,
                        tokens'[h][m] > 0, tokens'[h][m] = slot'[m].token
                 PROVE  slot'[m].owner \in {Owner(h)', Free}
      BY DEF TokenOwner
    <3>1. CASE m = n
      BY <3>1, <1>1, <1>2, <2>1
    <3>2. CASE m # n
      BY <3>2, <1>1, <1>2, <1>6 DEF IInv, TokenOwner
    <3> QED
      BY <3>1, <3>2
  <2>5. TokenDistinct'
    <3> SUFFICES ASSUME NEW m \in Nodes, ~ forgot'[m], NEW h \in Gateways, NEW i \in Gateways,
                        h # i, tokens'[h][m] = tokens'[i][m]
                 PROVE  tokens'[h][m] = 0
      BY DEF TokenDistinct
    <3>1. CASE m # n
      BY <3>1, <1>1, <1>6 DEF IInv, TokenDistinct
    <3>2. CASE m = n /\ h = g
      BY <3>2, <1>1, <2>2
    <3>3. CASE m = n /\ i = g
      BY <3>3, <1>1, <2>2
    <3>4. CASE m = n /\ h # g /\ i # g
      BY <3>4, <1>1, <1>7 DEF IInv, TokenDistinct
    <3> QED
      BY <3>1, <3>2, <3>3, <3>4
  <2> QED
    BY <2>3, <2>4, <2>5
<1>11. HolderQuorum'
  <2> SUFFICES ASSUME NEW h \in Gateways, pc[h] = "holding" PROVE HasQuorum(h)'
    BY <1>1 DEF HolderQuorum
  <2>1. tokens'[h] = tokens[h]
    BY <1>1, <1>7
  <2> QED
    BY <2>1 DEF IInv, HolderQuorum, HasQuorum, Granting
<1>12. DropsOver'
  BY <1>1 DEF IInv, DropsOver
<1> QED
  BY <1>5, <1>10, <1>11, <1>12 DEF IInv

\* Judging: "holding" is taken only with a majority.
LEMMA JudgeStep ==
  ASSUME IInv, NEW g \in Gateways, Judge(g)
  PROVE  IInv'
<1> USE NAssumption
<1>1. /\ pc[g] = "asking" /\ pc' \in [Gateways -> {"idle", "asking", "undoing", "holding", "degraded"}]
      /\ pc'[g] \in {"holding", "undoing"} /\ pc'[g] = "holding" => HasQuorum(g)
      /\ \A h \in Gateways : h # g => pc'[h] = pc[h]
      /\ at' \in [Gateways -> 1 .. N + 1]
      /\ UNCHANGED <<slot, sess, round, tokens, drops, forgot, spent>>
  BY DEF Judge, IInv, TypeOK
<1>2. TypeOK'
  BY <1>1 DEF IInv, TypeOK
<1>3. TokenBound' /\ TokenOwner' /\ TokenDistinct'
  BY <1>1 DEF IInv, TokenBound, TokenOwner, TokenDistinct, Owner
<1>4. HolderQuorum'
  BY <1>1 DEF IInv, HolderQuorum, HasQuorum, Granting
<1>5. DropsOver'
  <2> SUFFICES ASSUME NEW d \in drops
               PROVE  /\ d.owner[2] <= sess[d.owner[1]]
                      /\ d.owner[2] = sess[d.owner[1]] => pc'[d.owner[1]] = "idle"
    BY <1>1 DEF DropsOver
  <2> QED
    BY <1>1 DEF IInv, TypeOK, DropsOver, Owners
<1> QED
  BY <1>2, <1>3, <1>4, <1>5 DEF IInv

\* Releases, of a lost round or of a guard that was dropped.
LEMMA ReleaseStep ==
  ASSUME IInv, (\E g \in Gateways : Undo(g)) \/ (\E d \in drops : Drop(d))
  PROVE  IInv'
<1> USE NAssumption
<1>1. /\ \E m \in Nodes, o \in Owners : ReleaseAt(m, o)
      /\ UNCHANGED <<pc, sess, round, tokens, forgot>>
      /\ at' \in [Gateways -> 1 .. N + 1]
      /\ drops' \subseteq [owner : Owners, next : Nodes]
      /\ \A d \in drops' : \E e \in drops : d.owner = e.owner
  <2>1. CASE \E g \in Gateways : Undo(g)
    <3> PICK g \in Gateways : Undo(g)
      BY <2>1
    <3>1. Owner(g) \in Owners /\ ReleaseAt(at[g], Owner(g))
      BY OwnerFacts DEF Undo, IInv
    <3>2. at[g] \in Nodes
      BY DEF Undo, IInv, TypeOK, Nodes
    <3> QED
      BY <3>1, <3>2 DEF Undo, IInv, TypeOK
  <2>2. CASE \E d \in drops : Drop(d)
    <3> PICK d \in drops : Drop(d)
      BY <2>2
    <3>1. d \in [owner : Owners, next : Nodes]
      BY DEF IInv, TypeOK
    <3>2. d.next < N => /\ [d EXCEPT !.next = @ + 1] \in [owner : Owners, next : Nodes]
                        /\ [d EXCEPT !.next = @ + 1].owner = d.owner
      BY <3>1 DEF Nodes
    <3>3. /\ drops' \subseteq [owner : Owners, next : Nodes]
          /\ \A e \in drops' : e \in drops \/ e.owner = d.owner
      BY <3>2 DEF Drop, IInv, TypeOK
    <3> QED
      BY <3>1, <3>3 DEF Drop, IInv, TypeOK
  <2> QED
    BY <2>1, <2>2
<1>2. /\ slot' \in [Nodes -> SlotsOf(Owners)]
      /\ \A n \in Nodes : SameOrReleased(n)
      /\ spent' \in 0 .. MaxFaults
  BY <1>1, ReleaseKeeps DEF IInv
<1>3. TypeOK'
  BY <1>1, <1>2 DEF IInv, TypeOK
<1>4. TokenBound' /\ TokenOwner' /\ TokenDistinct'
  BY <1>1, <1>2, <1>3, TokensKept
<1>5. HolderQuorum'
  BY <1>1 DEF IInv, HolderQuorum, HasQuorum, Granting
<1>6. DropsOver'
  BY <1>1 DEF IInv, DropsOver
<1> QED
  BY <1>3, <1>4, <1>5, <1>6 DEF IInv

\* A lease that runs out, a node that restarts or that evicts the slot.
LEMMA NodeStepKeeps ==
  ASSUME IInv, NEW n \in Nodes, NodeStep(n)
  PROVE  IInv'
<1>1. FreshSlot \in SlotsOf(Owners)
  BY DEF FreshSlot, SlotsOf
<1>2. /\ UNCHANGED <<pc, sess, round, at, tokens, drops>>
      /\ spent' \in 0 .. MaxFaults
      /\ slot' \in [Nodes -> SlotsOf(Owners)] /\ forgot' \in [Nodes -> BOOLEAN]
      /\ \A m \in Nodes : m # n => slot'[m] = slot[m] /\ forgot'[m] = forgot[m]
      /\ \/ forgot'[n]
         \/ forgot'[n] = forgot[n] /\ slot'[n].owner = slot[n].owner
                                  /\ slot'[n].token = slot[n].token
  <2>1. CASE Expire(n)
    BY <2>1 DEF Expire, IInv, TypeOK, SlotsOf
  <2>2. CASE Restart(n) \/ Evict(n)
    <3>1. /\ slot' = [slot EXCEPT ![n] = FreshSlot]
          /\ forgot' = [forgot EXCEPT ![n] = TRUE]
          /\ UNCHANGED <<pc, sess, round, at, tokens, drops>>
          /\ Fault
      BY <2>2 DEF Restart, Evict
    <3>2. spent' \in 0 .. MaxFaults
      BY <3>1, SessionsAssumption DEF Fault, IInv, TypeOK
    <3>3. /\ slot' \in [Nodes -> SlotsOf(Owners)] /\ forgot' \in [Nodes -> BOOLEAN]
          /\ \A m \in Nodes : m # n => slot'[m] = slot[m] /\ forgot'[m] = forgot[m]
      BY <1>1, <3>1 DEF IInv, TypeOK
    <3>4. forgot'[n] = TRUE
      BY <3>1 DEF IInv, TypeOK
    <3> QED
      BY <3>1, <3>2, <3>3, <3>4
  <2> QED
    BY <2>1, <2>2 DEF NodeStep
<1>3. TypeOK'
  BY <1>2 DEF IInv, TypeOK
<1>4. TokenBound' /\ TokenOwner' /\ TokenDistinct'
  <2>1. \A m \in Nodes : ~ forgot'[m] => ~ forgot[m] /\ SameOrReleased(m)
    BY <1>2 DEF SameOrReleased
  <2> QED
    BY <1>2, <1>3, <2>1, TokensKept
<1>5. HolderQuorum' /\ DropsOver'
  BY <1>2 DEF IInv, HolderQuorum, HasQuorum, Granting, DropsOver
<1> QED
  BY <1>3, <1>4, <1>5 DEF IInv

\* The initial state has the inductive invariant: no token is out.
LEMMA LockInitial == Init => IInv
<1> SUFFICES ASSUME Init PROVE IInv
  OBVIOUS
<1>1. TypeOK
  BY NAssumption, RoundsAssumption, SessionsAssumption
     DEF Init, TypeOK, FreshSlot, SlotsOf, NoTokens
<1>2. TokenBound /\ TokenOwner /\ TokenDistinct
  BY DEF Init, TokenBound, TokenOwner, TokenDistinct, FreshSlot, NoTokens
<1>3. HolderQuorum /\ DropsOver
  BY DEF Init, HolderQuorum, DropsOver
<1> QED
  BY <1>1, <1>2, <1>3 DEF IInv

\* Every step of the gateways, the release tasks and the nodes preserves it.
LEMMA LockInvariance == IInv /\ [Next]_lockVars => IInv'
<1> SUFFICES ASSUME IInv, [Next]_lockVars PROVE IInv'
  OBVIOUS
<1>1. CASE UNCHANGED lockVars
  BY <1>1 DEF lockVars, IInv, TypeOK, TokenBound, TokenOwner, TokenDistinct, HolderQuorum,
              HasQuorum, Granting, DropsOver, Owner
<1>2. CASE \E g \in Gateways : GatewayStep(g) \/ Leave(g) \/ Crash(g)
  BY <1>2, ClearingStep, AskStep, JudgeStep, ReleaseStep DEF GatewayStep
<1>3. CASE \E d \in drops : Drop(d)
  BY <1>3, ReleaseStep
<1>4. CASE \E n \in Nodes : NodeStep(n)
  BY <1>4, NodeStepKeeps
<1> QED
  BY <1>1, <1>2, <1>3, <1>4 DEF Next

\* The inductive invariant holds in every reachable state of the quorum lock
\* (DistLock::acquire, the drop of its guard, and LockTable at the nodes).
THEOREM Inductive == Spec => []IInv
BY LockInitial, LockInvariance, PTL DEF Spec

-------------------------------------------------------------------------------
\* Two majorities of the nodes have a node in common.
LEMMA MajoritiesMeet ==
  ASSUME NEW A \in SUBSET Nodes, NEW B \in SUBSET Nodes,
         Cardinality(A) >= Quorum, Cardinality(B) >= Quorum
  PROVE  \E n \in Nodes : n \in A /\ n \in B
<1> USE NAssumption
<1>1. IsFiniteSet(Nodes) /\ Cardinality(Nodes) = N
  BY FS_Interval DEF Nodes
<1>2. IsFiniteSet(A) /\ IsFiniteSet(B)
  BY <1>1, FS_Subset
<1>3. Cardinality(A) \in Nat /\ Cardinality(B) \in Nat /\ Cardinality(A \cap B) \in Nat
  BY <1>2, FS_CardinalityType, FS_Intersection
<1>4. Cardinality(A \cup B) = Cardinality(A) + Cardinality(B) - Cardinality(A \cap B)
  BY <1>2, FS_Union
<1>5. Cardinality(A \cup B) <= N
  <2>1. (A \cup B) \subseteq Nodes
    OBVIOUS
  <2> QED
    BY <1>1, <2>1, FS_Subset
<1>6. 2 * Quorum > N /\ Quorum \in Nat
  BY DEF Quorum
<1>7. Cardinality(A \cap B) # 0
  BY <1>3, <1>4, <1>5, <1>6
<1>8. A \cap B # {}
  BY <1>7, FS_EmptySet
<1> QED
  BY <1>8

\* Two holders have tokens of one node.
LEMMA HoldersMeet ==
  ASSUME IInv, NEW g \in Gateways, NEW h \in Gateways,
         pc[g] = "holding", pc[h] = "holding"
  PROVE  \E n \in Nodes : n \in Granting(g) /\ n \in Granting(h)
<1>1. Granting(g) \in SUBSET Nodes /\ Granting(h) \in SUBSET Nodes
  BY DEF Granting
<1>2. Cardinality(Granting(g)) >= Quorum /\ Cardinality(Granting(h)) >= Quorum
  BY DEF IInv, HolderQuorum, HasQuorum
<1> QED
  BY <1>1, <1>2, MajoritiesMeet

\* The variables of the gateways and the nodes always have their types.
THEOREM TypeCorrect == Spec => []TypeOK
<1>1. IInv => TypeOK
  BY DEF IInv
<1> QED
  BY <1>1, Inductive, PTL

\* LockTable::acquire never hands one token to two gateways.
THEOREM Tokens == Spec => []TokensTellApart
<1>1. IInv => TokensTellApart
  BY DEF IInv, TokenBound, TokenDistinct, TokensTellApart
<1> QED
  BY <1>1, Inductive, PTL

\* Of two gateways that take themselves for the holder, one is fenced out at a
\* node both rely on: their quorums meet, and the tokens there differ.
THEOREM Fencing == Spec => []StaleHolderFenced
<1>1. ASSUME IInv PROVE StaleHolderFenced
  <2> SUFFICES ASSUME \A n \in Nodes : ~ forgot[n],
                      NEW g \in Gateways, NEW h \in Gateways, g # h,
                      pc[g] = "holding", pc[h] = "holding"
               PROVE  \E n \in Granting(g) \cap Granting(h) : FencedAt(g, n) \/ FencedAt(h, n)
    BY DEF StaleHolderFenced
  <2> PICK n \in Nodes : n \in Granting(g) /\ n \in Granting(h)
    BY <1>1, HoldersMeet
  <2>1. /\ tokens[g][n] \in Nat /\ tokens[h][n] \in Nat /\ slot[n].token \in Nat
        /\ tokens[g][n] > 0 /\ tokens[h][n] > 0
    BY <1>1 DEF Granting, IInv, TypeOK, SlotsOf
  <2>2. tokens[g][n] # tokens[h][n]
    BY <1>1, <2>1 DEF IInv, TokenDistinct
  <2>3. tokens[g][n] <= slot[n].token /\ tokens[h][n] <= slot[n].token
    BY <1>1 DEF IInv, TokenBound
  <2>4. FencedAt(g, n) \/ FencedAt(h, n)
    BY <2>1, <2>2, <2>3 DEF FencedAt, FenceOk
  <2> QED
    BY <2>4
<1> QED
  BY <1>1, Inductive, PTL

\* Two gateways never both hold the lock with all their leases running.
THEOREM Exclusion == Spec => []ExclusiveWhileLeased
<1>1. ASSUME IInv PROVE ExclusiveWhileLeased
  <2> SUFFICES ASSUME NEW g \in Gateways, NEW h \in Gateways,
                      pc[g] = "holding", pc[h] = "holding", LeasesRun(g), LeasesRun(h)
               PROVE  g = h
    BY DEF ExclusiveWhileLeased
  <2> PICK n \in Nodes : n \in Granting(g) /\ n \in Granting(h)
    BY <1>1, HoldersMeet
  <2>1. slot[n].owner = Owner(g) /\ slot[n].owner = Owner(h)
    BY DEF LeasesRun, Reentrant
  <2> QED
    BY <1>1, <2>1, OwnerFacts DEF IInv
<1> QED
  BY <1>1, Inductive, PTL

\* A running lease of a holder is neither freed nor granted to another: acquire
\* refuses the others, and every release names an owner that is not the holder.
THEOREM NotStolen == Spec => LeaseNotStolen
<1> DEFINE Kept(g, n) ==
      pc[g] = "holding" /\ pc'[g] = "holding" /\ Reentrant(slot[n], Owner(g))
        => slot'[n].owner = Owner(g) \/ forgot'[n]
<1>1. ASSUME IInv, Next, NEW g \in Gateways, NEW n \in Nodes PROVE Kept(g, n)
  <2> SUFFICES ASSUME pc[g] = "holding", slot[n].owner = Owner(g), slot[n].live
               PROVE  slot'[n].owner = Owner(g) \/ forgot'[n]
    BY DEF Reentrant
  <2>1. /\ Owner(g) # Free /\ slot \in [Nodes -> SlotsOf(Owners)]
        /\ \A h \in Gateways : h # g => Owner(h) # Owner(g)
    BY <1>1, OwnerFacts DEF IInv, TypeOK
  <2>2. ASSUME NEW h \in Gateways, GatewayStep(h) \/ Leave(h) \/ Crash(h)
        PROVE  slot'[n].owner = Owner(g)
    <3>1. CASE Ask(h)
      <4>1. h # g
        BY <3>1 DEF Ask
      <4>2. slot[at[h]] = slot[n] => HeldByOther(slot[at[h]], Owner(h))
        BY <2>1, <4>1 DEF HeldByOther
      <4>3. slot' = slot \/ \E s : at[h] # n /\ slot' = [slot EXCEPT ![at[h]] = s]
        BY <3>1, <4>2 DEF Ask
      <4> QED
        BY <4>3, <2>1
    <3>2. CASE Undo(h)
      <4>1. h # g /\ ReleaseAt(at[h], Owner(h)) /\ at[h] \in Nodes /\ pc[h] # "idle"
        BY <3>2, <1>1 DEF Undo, IInv, TypeOK, Nodes
      <4>2. Owner(h) \in Owners /\ Owner(h) # Owner(g)
        BY <1>1, <2>1, <4>1, OwnerFacts DEF IInv
      <4> QED
        BY <1>1, <4>1, <4>2, ReleaseKeeps DEF IInv
    <3>3. CASE Begin(h) \/ Judge(h) \/ Retry(h) \/ GiveUp(h) \/ Leave(h) \/ Crash(h)
      BY <3>3 DEF Begin, Judge, Retry, GiveUp, Leave, Crash
    <3> QED
      BY <2>2, <3>1, <3>2, <3>3 DEF GatewayStep
  <2>3. ASSUME NEW d \in drops, Drop(d)
        PROVE  slot'[n].owner = Owner(g)
    <3>1. d.owner \in Owners /\ d.next \in Nodes /\ ReleaseAt(d.next, d.owner)
      BY <1>1, <2>3 DEF Drop, IInv, TypeOK
    <3>2. d.owner # Owner(g)
      BY <1>1 DEF IInv, DropsOver, Owner
    <3> QED
      BY <1>1, <3>1, <3>2, ReleaseKeeps DEF IInv
  <2>4. ASSUME NEW m \in Nodes, NodeStep(m)
        PROVE  slot'[n].owner = Owner(g) \/ forgot'[n]
    <3>1. CASE Expire(m)
      BY <2>1, <3>1 DEF Expire, SlotsOf
    <3>2. CASE Restart(m) \/ Evict(m)
      <4>1. /\ slot' = [slot EXCEPT ![m] = FreshSlot]
            /\ forgot' = [forgot EXCEPT ![m] = TRUE]
        BY <3>2 DEF Restart, Evict
      <4> QED
        BY <1>1, <2>1, <4>1 DEF IInv, TypeOK
    <3> QED
      BY <2>4, <3>1, <3>2 DEF NodeStep
  <2> QED
    BY <1>1, <2>2, <2>3, <2>4 DEF Next
<1>2. ASSUME IInv, [Next]_lockVars
      PROVE  [\A g \in Gateways, n \in Nodes : Kept(g, n)]_lockVars
  BY <1>1, <1>2
<1>3. Spec => [][\A g \in Gateways, n \in Nodes : Kept(g, n)]_lockVars
  BY <1>2, Inductive, PTL DEF Spec
<1> QED
  BY <1>3 DEF LeaseNotStolen

-------------------------------------------------------------------------------
\* The types of the observations.
Seen ==
  /\ admitted \in [Nodes -> Nat]
  /\ latest \in Owners \cup {NoFile}
  /\ acked \in Owners \cup {NoFile}

\* Each loop over the nodes starts at the first.
LoopsFresh == \A g \in Gateways : phase[g] \in {"out", "stream", "decide", "done"} => on[g] = 1

\* A stream writes into a file that has been opened.
StreamsOpen ==
  \A p \in puts : /\ p.state = "tmp" => tmp[p.node] \in SUBSET Owners
                  /\ p.state = "part" => part[p.node] \in SUBSET Owners

\* The tokens that streams carry and that nodes have admitted are within what
\* the node has granted.
WithinGrants ==
  /\ \A p \in puts : ~ forgot[p.node] => p.token <= slot[p.node].token
  /\ \A n \in Nodes : ~ forgot[n] => admitted[n] <= slot[n].token

WInv == IInv /\ TypeOKWrite /\ Seen /\ LoopsFresh /\ StreamsOpen /\ WithinGrants

-------------------------------------------------------------------------------
\* Whatever the writes do, the lock takes its own steps only: each step of
\* write_sharded and of the nodes leaves it alone, and hanging up drops the guard.
LEMMA OnlyLockSteps == NextWrite => [Next]_lockVars
<1> SUFFICES ASSUME NextWrite PROVE [Next]_lockVars
  OBVIOUS
<1>1. CASE LockStep
  BY <1>1 DEF LockStep, Next, GatewayStep, NodeStep
<1>2. CASE \E g \in Gateways : LocalStep(g) \/ CallStep(g)
  BY <1>2 DEF LocalStep, CallStep, Enter, Streamed, Decide, Prepare, Publish, Seal, Rollback
<1>3. CASE \E g \in Gateways : HangUp(g)
  BY <1>3 DEF HangUp, Next
<1>4. CASE \E p \in puts : PutArrives(p) \/ PutBytes(p) \/ PutFails(p)
  BY <1>4 DEF PutArrives, PutBytes, PutFails
<1> QED
  BY <1>1, <1>2, <1>3, <1>4 DEF NextWrite

\* The quorum lock under write_sharded is the lock of DistLock.
THEOREM LockIsDistLock == SpecWrite => Spec
<1>1. InitWrite => Init
  BY DEF InitWrite
<1>2. [NextWrite]_vars => [Next]_lockVars
  BY OnlyLockSteps DEF vars
<1> QED
  BY <1>1, <1>2, PTL DEF SpecWrite, Spec

\* A node that has kept its table has never gone back to an older token.
LEMMA TokensGrow ==
  ASSUME IInv, [Next]_lockVars, NEW n \in Nodes, ~ forgot'[n]
  PROVE  ~ forgot[n] /\ slot'[n].token >= slot[n].token
<1>0. slot \in [Nodes -> SlotsOf(Owners)] /\ slot[n].token \in Nat /\ forgot \in [Nodes -> BOOLEAN]
  BY DEF IInv, TypeOK, SlotsOf
<1>1. CASE UNCHANGED <<slot, forgot>>
  BY <1>0, <1>1
<1>2. ASSUME NEW g \in Gateways, Ask(g)
      PROVE  ~ forgot[n] /\ slot'[n].token >= slot[n].token
  <2>1. GrantedSlot(slot[n], Owner(g)).token \in {slot[n].token, slot[n].token + 1}
    BY DEF GrantedSlot
  <2>2. slot'[n] = slot[n] \/ slot'[n] = GrantedSlot(slot[n], Owner(g))
    BY <1>0, <1>2 DEF Ask
  <2> QED
    BY <1>0, <1>2, <2>1, <2>2 DEF Ask
<1>3. CASE (\E g \in Gateways : Undo(g)) \/ (\E d \in drops : Drop(d))
  <2>1. UNCHANGED forgot
    BY <1>3 DEF Undo, Drop
  <2>2. \E m \in Nodes, o \in Owners : ReleaseAt(m, o)
    <3>1. CASE \E g \in Gateways : Undo(g)
      <4> PICK g \in Gateways : Undo(g)
        BY <3>1
      <4>1. Owner(g) \in Owners /\ at[g] \in Nodes /\ ReleaseAt(at[g], Owner(g))
        BY OwnerFacts DEF Undo, IInv, TypeOK, Nodes
      <4> QED
        BY <4>1
    <3>2. CASE \E d \in drops : Drop(d)
      BY <3>2 DEF Drop, IInv, TypeOK
    <3> QED
      BY <1>3, <3>1, <3>2
  <2>3. SameOrReleased(n)
    BY <2>2, ReleaseKeeps DEF IInv
  <2> QED
    BY <1>0, <2>1, <2>3 DEF SameOrReleased
<1>4. ASSUME NEW m \in Nodes, NodeStep(m)
      PROVE  ~ forgot[n] /\ slot'[n].token >= slot[n].token
  <2>1. CASE Expire(m)
    BY <1>0, <2>1 DEF Expire, SlotsOf
  <2>2. CASE Restart(m) \/ Evict(m)
    BY <1>0, <2>2 DEF Restart, Evict
  <2> QED
    BY <1>4, <2>1, <2>2 DEF NodeStep
<1>5. ASSUME NEW g \in Gateways, Begin(g) \/ Judge(g) \/ Retry(g) \/ GiveUp(g) \/ Leave(g) \/ Crash(g)
      PROVE  UNCHANGED <<slot, forgot>>
  BY <1>5 DEF Begin, Judge, Retry, GiveUp, Leave, Crash
<1> QED
  BY <1>1, <1>2, <1>3, <1>4, <1>5 DEF Next, GatewayStep, lockVars

-------------------------------------------------------------------------------
\* One turn of a loop over the nodes.
LEMMA LoopTurn ==
  ASSUME TypeOKWrite, NEW g \in Gateways,
         NEW ph \in {"mkdir", "publish", "seal", "rollback"},
         NEW next \in {"stream", "seal", "decide", "done"},
         Step(g, ph, next)
  PROVE  /\ phase[g] = ph /\ on[g] \in Nodes
         /\ \/ on[g] < N /\ on'[g] = on[g] + 1 /\ phase'[g] = ph
            \/ on[g] = N /\ on'[g] = 1 /\ phase'[g] = next
         /\ \A h \in Gateways : h # g => phase'[h] = phase[h] /\ on'[h] = on[h]
         /\ on' \in [Gateways -> Nodes]
         /\ phase' \in [Gateways -> {"out", "mkdir", "stream", "publish", "seal", "decide",
                                     "rollback", "done"}]
<1> USE NAssumption DEF Nodes
<1>1. phase[g] = ph /\ on[g] \in Nodes
  BY DEF Step, TypeOKWrite
<1>2. CASE on[g] < N
  <2>1. on' = [on EXCEPT ![g] = on[g] + 1] /\ phase' = phase /\ on[g] + 1 \in Nodes
    BY <1>1, <1>2 DEF Step
  <2> QED
    BY <1>1, <1>2, <2>1 DEF TypeOKWrite
<1>3. CASE ~ on[g] < N
  <2>1. on' = [on EXCEPT ![g] = 1] /\ phase' = [phase EXCEPT ![g] = next]
    BY <1>3 DEF Step
  <2> QED
    BY <1>1, <1>3, <2>1 DEF TypeOKWrite
<1> QED
  BY <1>2, <1>3

\* The positions of the gateways in write_sharded.
Positions ==
  /\ phase \in [Gateways -> {"out", "mkdir", "stream", "publish", "seal", "decide",
                             "rollback", "done"}]
  /\ on \in [Gateways -> Nodes]
  /\ okay \in [Gateways -> SUBSET Nodes]

\* A step touches no file and leaves each gateway where it is, or outside.
OnlyLeaving ==
  /\ UNCHANGED fileVars
  /\ Positions'
  /\ \A g \in Gateways :
       \/ /\ phase'[g] = phase[g] /\ on'[g] = on[g] /\ okay'[g] = okay[g]
          /\ phase[g] # "out" => pc'[g] = pc[g]
       \/ phase'[g] = "out" /\ on'[g] = 1 /\ okay'[g] = {}

\* A step of the lock touches no file; a gateway may leave the data path.
LEMMA LockStepLeaves ==
  ASSUME TypeOKWrite, LockStep \/ (\E g \in Gateways : HangUp(g))
  PROVE  OnlyLeaving /\ UNCHANGED <<admitted, acked>>
<1> USE NAssumption DEF Nodes, OnlyLeaving, Positions
<1>1. ASSUME NEW g \in Gateways, Exit(g), \A h \in Gateways : h # g => pc'[h] = pc[h]
      PROVE  OnlyLeaving
  BY <1>1 DEF Exit, TypeOKWrite
<1>2. ASSUME NEW g \in Gateways, Leave(g) \/ Crash(g)
      PROVE  \A h \in Gateways : h # g => pc'[h] = pc[h]
  BY <1>2 DEF Leave, Crash, Forget, TypeOKWrite, TypeOK
<1>3. ASSUME NEW g \in Gateways, (Leave(g) \/ Crash(g)) /\ Exit(g)
      PROVE  OnlyLeaving
  BY <1>1, <1>2, <1>3
<1>4. ASSUME UNCHANGED dataVars, \A h \in Gateways : phase[h] # "out" => pc'[h] = pc[h]
      PROVE  OnlyLeaving
  BY <1>4 DEF dataVars, fileVars, TypeOKWrite
<1>5. ASSUME NEW g \in Gateways, Begin(g) \/ Ask(g) \/ Undo(g) \/ Retry(g) \/ Judge(g) \/ GiveUp(g)
      PROVE  \A h \in Gateways : phase[h] # "out" => pc'[h] = pc[h]
  <2>1. pc[g] \notin {"holding", "degraded"} /\ \A h \in Gateways : h # g => pc'[h] = pc[h]
    BY <1>5 DEF Begin, Ask, Undo, Retry, Judge, GiveUp, TypeOKWrite, TypeOK
  <2> QED
    BY <2>1 DEF TypeOKWrite
<1>6. ASSUME (\E d \in drops : Drop(d)) \/ (\E n \in Nodes : Expire(n) \/ Restart(n) \/ Evict(n))
      PROVE  UNCHANGED pc
  BY <1>6 DEF Drop, Expire, Restart, Evict
<1>7. CASE \E g \in Gateways : HangUp(g)
  BY <1>3, <1>7 DEF HangUp
<1>8. CASE LockStep
  <2>1. UNCHANGED <<admitted, acked>>
    BY <1>8 DEF LockStep, seenVars
  <2>2. \/ \E g \in Gateways : (Leave(g) \/ Crash(g)) /\ Exit(g)
        \/ \E g \in Gateways : /\ Begin(g) \/ Ask(g) \/ Undo(g) \/ Retry(g) \/ Judge(g) \/ GiveUp(g)
                               /\ UNCHANGED dataVars
        \/ /\ (\E d \in drops : Drop(d)) \/ (\E n \in Nodes : Expire(n) \/ Restart(n) \/ Evict(n))
           /\ UNCHANGED dataVars
    BY <1>8 DEF LockStep
  <2> QED
    BY <1>3, <1>4, <1>5, <1>6, <2>1, <2>2
<1> QED
  BY <1>7, <1>8

\* The tokens after a step were in a stream before it, or a gateway has them.
TokensTraced ==
  /\ \A p \in puts' :
       \/ \E q \in puts : p.node = q.node /\ p.token = q.token
       \/ \E g \in Gateways : p.node \in Nodes /\ p.token = tokens[g][p.node]
  /\ \/ admitted' = admitted
     \/ \E n \in Nodes, g \in Gateways : Note(n, tokens[g][n])
     \/ \E p \in puts : Note(p.node, p.token)

\* Tokens that were within the grants of their node stay so, and so do those
\* that a node lets in.
LEMMA GrantsKept ==
  ASSUME WInv, [Next]_lockVars, TokensTraced
  PROVE  WithinGrants' /\ admitted' \in [Nodes -> Nat]
<1>1. ASSUME NEW n \in Nodes, NEW t \in Nat, ~ forgot[n] => t <= slot[n].token, ~ forgot'[n]
      PROVE  t <= slot'[n].token
  <2>1. ~ forgot[n] /\ slot'[n].token >= slot[n].token
    BY <1>1, TokensGrow DEF WInv
  <2>2. slot[n].token \in Nat /\ slot'[n].token \in Nat
    <3>1. TypeOK /\ TypeOK'
      BY LockInvariance DEF WInv, IInv
    <3> QED
      BY <3>1 DEF TypeOK, SlotsOf
  <2> QED
    BY <1>1, <2>1, <2>2
<1>2. \A g \in Gateways, n \in Nodes :
        tokens[g][n] \in Nat /\ (~ forgot[n] => tokens[g][n] <= slot[n].token)
  BY DEF WInv, IInv, TypeOK, TokenBound
<1>3. \A p \in puts :
        /\ p.node \in Nodes /\ p.token \in Nat
        /\ ~ forgot[p.node] => p.token <= slot[p.node].token
  BY DEF WInv, TypeOKWrite, Put, WithinGrants
<1>4. ASSUME NEW p \in puts', ~ forgot'[p.node]
      PROVE  p.token <= slot'[p.node].token
  <2>1. p.node \in Nodes /\ p.token \in Nat /\ (~ forgot[p.node] => p.token <= slot[p.node].token)
    BY <1>2, <1>3 DEF TokensTraced
  <2> QED
    BY <1>1, <1>4, <2>1
<1>5. admitted \in [Nodes -> Nat]
  BY DEF WInv, Seen
<1>6. \A n \in Nodes : ~ forgot[n] => admitted[n] <= slot[n].token
  BY DEF WInv, WithinGrants
<1>7. \/ admitted' = admitted
      \/ \E n \in Nodes, t \in Nat : /\ ~ forgot[n] => t <= slot[n].token
                                     /\ admitted' = [admitted EXCEPT ![n] = t]
  BY <1>2, <1>3 DEF Note, TokensTraced
<1>8. /\ admitted' \in [Nodes -> Nat]
      /\ \A n \in Nodes : ~ forgot[n] => admitted'[n] <= slot[n].token
  BY <1>5, <1>6, <1>7
<1>9. ASSUME NEW n \in Nodes, ~ forgot'[n]
      PROVE  admitted'[n] <= slot'[n].token
  BY <1>1, <1>8, <1>9
<1> QED
  BY <1>4, <1>8, <1>9 DEF WithinGrants

\* What is left to show of a step once the lock and the tokens are dealt with.
Rest ==
  /\ Positions
  /\ \A g \in Gateways : phase[g] # "out" => pc[g] \in {"holding", "degraded"}
  /\ tmp \in [Nodes -> Files] /\ part \in [Nodes -> Files]
  /\ meta \in [Nodes -> Owners \cup {NoFile}]
  /\ puts \subseteq Put
  /\ latest \in Owners \cup {NoFile} /\ acked \in Owners \cup {NoFile}
  /\ LoopsFresh /\ StreamsOpen

\* The owner of a session at work is a proper one.
LEMMA WriterFacts ==
  ASSUME WInv, NEW g \in Gateways, pc[g] # "idle"
  PROVE  Owner(g) \in Owners
BY OwnerFacts DEF WInv, IInv

\* A step of the lock, or a client that hangs up.
LEMMA LeavingKeeps ==
  ASSUME WInv, LockStep \/ (\E g \in Gateways : HangUp(g))
  PROVE  Rest' /\ TokensTraced
<1>1. OnlyLeaving /\ UNCHANGED <<admitted, acked>>
  BY LockStepLeaves DEF WInv
<1>2. UNCHANGED <<tmp, part, meta, puts>> /\ Positions'
  BY <1>1 DEF OnlyLeaving, fileVars
<1>3. \A g \in Gateways : phase'[g] # "out" => pc'[g] \in {"holding", "degraded"}
  BY <1>1 DEF OnlyLeaving, WInv, TypeOKWrite
<1>4. latest' = latest \/ \E g \in Gateways : pc[g] # "idle" /\ latest' = Owner(g)
  BY DEF LockStep, HangUp, seenVars, Judge
<1>5. latest' \in Owners \cup {NoFile}
  BY <1>4, WriterFacts DEF WInv, Seen
<1>6. LoopsFresh'
  BY <1>1 DEF OnlyLeaving, WInv, LoopsFresh
<1>7. StreamsOpen'
  BY <1>2 DEF WInv, StreamsOpen
<1> QED
  BY <1>1, <1>2, <1>3, <1>5, <1>6, <1>7 DEF Rest, TokensTraced, WInv, TypeOKWrite, Seen

\* The steps that send nothing.
LEMMA LocalKeeps ==
  ASSUME WInv, NEW g \in Gateways, LocalStep(g)
  PROVE  Rest' /\ TokensTraced
<1>1. UNCHANGED <<lockVars, fileVars, on, admitted, latest>>
  BY DEF LocalStep, Enter, Streamed, Decide, seenVars
<1>2. /\ Positions'
      /\ \A h \in Gateways : phase'[h] # "out" => pc[h] \in {"holding", "degraded"}
      /\ LoopsFresh'
  <2>1. CASE Enter(g)
    BY <1>1, <2>1 DEF Enter, Positions, WInv, TypeOKWrite, LoopsFresh
  <2>2. CASE Streamed(g)
    BY <1>1, <2>2 DEF Streamed, Positions, WInv, TypeOKWrite, LoopsFresh
  <2>3. CASE Decide(g)
    BY <1>1, <2>3 DEF Decide, Positions, WInv, TypeOKWrite, LoopsFresh
  <2> QED
    BY <2>1, <2>2, <2>3 DEF LocalStep
<1>3. acked' \in Owners \cup {NoFile}
  <2>1. acked' = acked \/ (acked' = Owner(g) /\ pc[g] # "idle")
    BY DEF LocalStep, Enter, Streamed, Decide, seenVars, WInv, TypeOKWrite
  <2> QED
    BY <2>1, WriterFacts DEF WInv, Seen
<1> QED
  BY <1>1, <1>2, <1>3 DEF Rest, TokensTraced, WInv, TypeOKWrite, Seen, StreamsOpen, lockVars, fileVars

\* A stream whose file has been renamed or opened is the same stream.
LEMMA PutMoved ==
  ASSUME NEW p \in Put, NEW s \in {"sent", "tmp", "part", "gone"}, NEW q, q = [p EXCEPT !.state = s]
  PROVE  q \in Put /\ q.owner = p.owner /\ q.node = p.node /\ q.token = p.token /\ q.state = s
BY DEF Put

\* What a rename does to the streams of its node.
LEMMA RenamedFacts ==
  ASSUME puts \subseteq Put, NEW n \in Nodes, NEW q \in Renamed(n)
  PROVE  /\ q \in Put
         /\ \E p \in puts :
              /\ q.owner = p.owner /\ q.node = p.node /\ q.token = p.token
              /\ IF p.node = n THEN /\ q.state # "tmp"
                                    /\ q.state = "part" => p.state = "tmp"
                               ELSE q = p
<1> PICK p \in puts :
      q = IF p.node # n THEN p
          ELSE CASE p.state = "tmp"  -> [p EXCEPT !.state = "part"]
                 [] p.state = "part" -> [p EXCEPT !.state = "gone"]
                 [] OTHER            -> p
  BY DEF Renamed
<1>1. p \in Put
  OBVIOUS
<1>2. CASE p.node # n
  BY <1>1, <1>2
<1>3. CASE p.node = n /\ p.state = "tmp"
  <2>1. q = [p EXCEPT !.state = "part"]
    BY <1>3
  <2>2. q \in Put /\ q.owner = p.owner /\ q.node = p.node /\ q.token = p.token /\ q.state = "part"
    BY <1>1, <2>1, PutMoved
  <2> QED
    BY <1>1, <1>3, <2>2
<1>4. CASE p.node = n /\ p.state = "part"
  <2>1. q = [p EXCEPT !.state = "gone"]
    BY <1>4
  <2>2. q \in Put /\ q.owner = p.owner /\ q.node = p.node /\ q.token = p.token /\ q.state = "gone"
    BY <1>1, <2>1, PutMoved
  <2> QED
    BY <1>1, <1>4, <2>2
<1>5. CASE p.node = n /\ p.state \notin {"tmp", "part"}
  BY <1>1, <1>5
<1> QED
  BY <1>2, <1>3, <1>4, <1>5

\* What a roll-back does to the streams of its node: their file is gone.
LEMMA RemovedFacts ==
  ASSUME puts \subseteq Put, NEW n \in Nodes,
         NEW q \in {IF p.node = n /\ p.state # "sent" THEN [p EXCEPT !.state = "gone"]
                                                      ELSE p : p \in puts}
  PROVE  /\ q \in Put
         /\ \E p \in puts :
              /\ q.owner = p.owner /\ q.node = p.node /\ q.token = p.token
              /\ IF p.node = n THEN q.state \in {"sent", "gone"} ELSE q = p
<1> PICK p \in puts :
      q = IF p.node = n /\ p.state # "sent" THEN [p EXCEPT !.state = "gone"] ELSE p
  OBVIOUS
<1>1. p \in Put
  OBVIOUS
<1>2. CASE p.node = n /\ p.state # "sent"
  <2>1. q = [p EXCEPT !.state = "gone"]
    BY <1>2
  <2>2. q \in Put /\ q.owner = p.owner /\ q.node = p.node /\ q.token = p.token /\ q.state = "gone"
    BY <1>1, <2>1, PutMoved
  <2> QED
    BY <1>1, <1>2, <2>2
<1>3. CASE ~ (p.node = n /\ p.state # "sent")
  BY <1>1, <1>3
<1> QED
  BY <1>2, <1>3

\* What every call to a node keeps: the lock, and the gateway's place.
LEMMA CallFacts ==
  ASSUME WInv, NEW g \in Gateways, CallStep(g)
  PROVE  /\ UNCHANGED <<lockVars, latest, acked, upsets>>
         /\ on[g] \in Nodes /\ tokens[g][on[g]] \in Nat /\ Owner(g) \in Owners
         /\ Positions' /\ LoopsFresh'
         /\ \A h \in Gateways : phase'[h] # "out" => pc[h] \in {"holding", "degraded"}
         /\ \A h \in Gateways : h # g => okay'[h] = okay[h]
         /\ okay'[g] \subseteq okay[g] /\ okay[g] \ {on[g]} \subseteq okay'[g]
<1>1. UNCHANGED <<lockVars, latest, acked, upsets>>
  BY DEF CallStep, Prepare, Publish, Seal, Rollback
<1>2. PICK ph \in {"mkdir", "publish", "seal", "rollback"},
           next \in {"stream", "seal", "decide", "done"} :
             Step(g, ph, next) /\ (next = "seal" => ph = "publish")
  BY DEF CallStep, Prepare, Publish, Seal, Rollback
<1>3. /\ phase[g] = ph /\ on[g] \in Nodes
      /\ \/ on[g] < N /\ on'[g] = on[g] + 1 /\ phase'[g] = ph
         \/ on[g] = N /\ on'[g] = 1 /\ phase'[g] = next
      /\ \A h \in Gateways : h # g => phase'[h] = phase[h] /\ on'[h] = on[h]
      /\ on' \in [Gateways -> Nodes]
      /\ phase' \in [Gateways -> {"out", "mkdir", "stream", "publish", "seal", "decide",
                                  "rollback", "done"}]
  BY <1>2, LoopTurn DEF WInv
<1>4. pc[g] \in {"holding", "degraded"}
  BY <1>3 DEF WInv, TypeOKWrite
<1>5. okay' = okay \/ okay' = [okay EXCEPT ![g] = okay[g] \ {on[g]}]
  BY DEF CallStep, Prepare, Publish, Seal, Rollback, Answered, Fail
<1>6. /\ okay' \in [Gateways -> SUBSET Nodes]
      /\ \A h \in Gateways : h # g => okay'[h] = okay[h]
      /\ okay'[g] \subseteq okay[g] /\ okay[g] \ {on[g]} \subseteq okay'[g]
  BY <1>5 DEF WInv, TypeOKWrite
<1>7. LoopsFresh'
  BY <1>3 DEF WInv, LoopsFresh
<1>8. \A h \in Gateways : phase'[h] # "out" => pc[h] \in {"holding", "degraded"}
  BY <1>3, <1>4 DEF WInv, TypeOKWrite
<1>9. tokens[g][on[g]] \in Nat /\ Owner(g) \in Owners
  BY <1>3, <1>4, WriterFacts DEF WInv, IInv, TypeOK
<1> QED
  BY <1>1, <1>3, <1>6, <1>7, <1>8, <1>9 DEF Positions

\* Preparing a writer: at most one stream is added, with the gateway's token.
LEMMA PrepareKeeps ==
  ASSUME WInv, NEW g \in Gateways, Prepare(g)
  PROVE  Rest' /\ TokensTraced
<1> DEFINE n == on[g]
           new == [owner |-> Owner(g), node |-> n, token |-> tokens[g][n], state |-> "sent"]
<1>1. CallStep(g)
  BY DEF CallStep
<1>2. UNCHANGED <<lockVars, tmp, part, meta, latest, acked>>
  BY DEF Prepare
<1>3. /\ puts' = puts \cup {new} \/ puts' = puts
      /\ admitted' = admitted \/ Note(n, tokens[g][n])
  BY DEF Prepare
<1>4. /\ new \in Put /\ new.state = "sent" /\ new.node = n /\ new.token = tokens[g][n]
      /\ n \in Nodes
  BY <1>1, CallFacts DEF Put
<1> HIDE DEF new, n
<1>5. puts' \subseteq Put /\ StreamsOpen'
  BY <1>2, <1>3, <1>4 DEF WInv, TypeOKWrite, StreamsOpen
<1>6. TokensTraced
  BY <1>3, <1>4 DEF TokensTraced
<1> QED
  BY <1>1, <1>2, <1>5, <1>6, CallFacts DEF Rest, WInv, TypeOKWrite, Seen, lockVars

\* Publishing: the temporary file and its streams become the shard's.
LEMMA PublishKeeps ==
  ASSUME WInv, NEW g \in Gateways, Publish(g)
  PROVE  Rest' /\ TokensTraced
<1> DEFINE n == on[g]
<1>1. CallStep(g)
  BY DEF CallStep
<1>2. UNCHANGED <<lockVars, meta, latest, acked>>
  BY DEF Publish
<1>3. n \in Nodes
  BY <1>1, CallFacts
<1>4. CASE UNCHANGED <<tmp, part, puts, admitted>>
  <2>1. TokensTraced /\ StreamsOpen'
    BY <1>4 DEF TokensTraced, StreamsOpen, WInv
  <2> QED
    BY <1>1, <1>2, <1>4, <2>1, CallFacts DEF Rest, WInv, TypeOKWrite, Seen, lockVars
<1>5. CASE /\ tmp[n] # NoFile
           /\ Note(n, tokens[g][n])
           /\ part' = [part EXCEPT ![n] = tmp[n]]
           /\ tmp' = [tmp EXCEPT ![n] = NoFile]
           /\ puts' = Renamed(n)
  <2> HIDE DEF n
  <2>1. tmp[n] \in SUBSET Owners
    BY <1>3, <1>5 DEF WInv, TypeOKWrite, Files
  <2>2. /\ tmp' \in [Nodes -> Files] /\ part' \in [Nodes -> Files]
        /\ part'[n] \in SUBSET Owners
        /\ \A m \in Nodes : m # n => tmp'[m] = tmp[m] /\ part'[m] = part[m]
    BY <1>3, <1>5, <2>1 DEF WInv, TypeOKWrite, Files
  <2>3. \A q \in puts' : q \in Put /\ \E p \in puts :
          /\ q.owner = p.owner /\ q.node = p.node /\ q.token = p.token
          /\ IF p.node = n THEN /\ q.state # "tmp"
                                /\ q.state = "part" => p.state = "tmp"
                           ELSE q = p
    BY <1>3, <1>5, RenamedFacts DEF WInv, TypeOKWrite
  <2>4. StreamsOpen'
    <3> SUFFICES ASSUME NEW q \in puts'
                 PROVE  /\ q.state = "tmp" => tmp'[q.node] \in SUBSET Owners
                        /\ q.state = "part" => part'[q.node] \in SUBSET Owners
      BY DEF StreamsOpen
    <3> PICK p \in puts : /\ q.node = p.node
                          /\ IF p.node = n THEN q.state # "tmp" ELSE q = p
      BY <2>3
    <3>1. p.node \in Nodes
      BY DEF WInv, TypeOKWrite, Put
    <3> QED
      BY <2>2, <3>1 DEF WInv, StreamsOpen
  <2>5. TokensTraced
    BY <1>3, <1>5, <2>3 DEF TokensTraced
  <2> QED
    BY <1>1, <1>2, <2>2, <2>3, <2>4, <2>5, CallFacts DEF Rest, WInv, TypeOKWrite, Seen, lockVars
<1> QED
  BY <1>4, <1>5 DEF Publish

\* Writing xl.meta.
LEMMA SealKeeps ==
  ASSUME WInv, NEW g \in Gateways, Seal(g)
  PROVE  Rest' /\ TokensTraced
<1>1. CallStep(g)
  BY DEF CallStep
<1>2. /\ UNCHANGED <<lockVars, tmp, part, puts, latest, acked>>
      /\ admitted' = admitted \/ Note(on[g], tokens[g][on[g]])
      /\ meta' = meta \/ meta' = [meta EXCEPT ![on[g]] = Owner(g)]
  BY DEF Seal
<1>3. TokensTraced
  BY <1>1, <1>2, CallFacts DEF TokensTraced
<1>4. meta' \in [Nodes -> Owners \cup {NoFile}]
  BY <1>1, <1>2, CallFacts DEF WInv, TypeOKWrite
<1>5. StreamsOpen'
  BY <1>2 DEF WInv, StreamsOpen
<1> QED
  BY <1>1, <1>2, <1>3, <1>4, <1>5, CallFacts DEF Rest, WInv, TypeOKWrite, Seen, lockVars

\* Rolling back: the object's files go, and its open streams write to nothing.
LEMMA RollbackKeeps ==
  ASSUME WInv, NEW g \in Gateways, Rollback(g)
  PROVE  Rest' /\ TokensTraced
<1> DEFINE n == on[g]
<1>1. CallStep(g)
  BY DEF CallStep
<1>2. UNCHANGED <<lockVars, latest, acked>>
  BY DEF Rollback
<1>3. n \in Nodes
  BY <1>1, CallFacts
<1>4. CASE UNCHANGED <<tmp, part, meta, puts, admitted>>
  <2>1. TokensTraced /\ StreamsOpen'
    BY <1>4 DEF TokensTraced, StreamsOpen, WInv
  <2> QED
    BY <1>1, <1>2, <1>4, <2>1, CallFacts DEF Rest, WInv, TypeOKWrite, Seen, lockVars
<1>5. CASE /\ Note(n, tokens[g][n])
           /\ tmp' = [tmp EXCEPT ![n] = NoFile]
           /\ part' = [part EXCEPT ![n] = NoFile]
           /\ meta' = [meta EXCEPT ![n] = NoFile]
           /\ puts' = {IF p.node = n /\ p.state # "sent" THEN [p EXCEPT !.state = "gone"]
                                                         ELSE p : p \in puts}
  <2> HIDE DEF n
  <2>1. /\ tmp' \in [Nodes -> Files] /\ part' \in [Nodes -> Files]
        /\ meta' \in [Nodes -> Owners \cup {NoFile}]
        /\ \A m \in Nodes : m # n => tmp'[m] = tmp[m] /\ part'[m] = part[m]
    BY <1>3, <1>5 DEF WInv, TypeOKWrite, Files
  <2>2. \A q \in puts' : q \in Put /\ \E p \in puts :
          /\ q.owner = p.owner /\ q.node = p.node /\ q.token = p.token
          /\ IF p.node = n THEN q.state \in {"sent", "gone"} ELSE q = p
    BY <1>3, <1>5, RemovedFacts DEF WInv, TypeOKWrite
  <2>3. StreamsOpen'
    <3> SUFFICES ASSUME NEW q \in puts'
                 PROVE  /\ q.state = "tmp" => tmp'[q.node] \in SUBSET Owners
                        /\ q.state = "part" => part'[q.node] \in SUBSET Owners
      BY DEF StreamsOpen
    <3> PICK p \in puts : /\ q.node = p.node
                          /\ IF p.node = n THEN q.state \in {"sent", "gone"} ELSE q = p
      BY <2>2
    <3>1. p.node \in Nodes
      BY DEF WInv, TypeOKWrite, Put
    <3> QED
      BY <2>1, <3>1 DEF WInv, StreamsOpen
  <2>4. TokensTraced
    BY <1>3, <1>5, <2>2 DEF TokensTraced
  <2> QED
    BY <1>1, <1>2, <2>1, <2>2, <2>3, <2>4, CallFacts DEF Rest, WInv, TypeOKWrite, Seen, lockVars
<1> QED
  BY <1>4, <1>5 DEF Rollback

\* A stream arrives, fails, or delivers its bytes.
LEMMA PutKeeps ==
  ASSUME WInv, NEW p \in puts, PutArrives(p) \/ PutBytes(p) \/ PutFails(p)
  PROVE  Rest' /\ TokensTraced
<1>1. UNCHANGED <<lockVars, meta, phase, on, latest, acked>>
  BY DEF PutArrives, PutBytes, PutFails, seenVars
<1>2. p \in Put /\ p.node \in Nodes /\ p.owner \in Owners /\ p.owner[1] \in Gateways
  BY DEF WInv, TypeOKWrite, Put, Owners
<1>3. okay' \in [Gateways -> SUBSET Nodes]
  <2>1. okay' = okay \/ okay' = [okay EXCEPT ![p.owner[1]] = okay[p.owner[1]] \ {p.node}]
    BY DEF PutArrives, PutBytes, PutFails, Fail
  <2> QED
    BY <1>2, <2>1 DEF WInv, TypeOKWrite
<1>4. /\ tmp' \in [Nodes -> Files] /\ part' \in [Nodes -> Files]
      /\ \A n \in Nodes : /\ tmp[n] \in SUBSET Owners => tmp'[n] \in SUBSET Owners
                          /\ part[n] \in SUBSET Owners => part'[n] \in SUBSET Owners
  <2>1. CASE PutArrives(p)
    BY <1>2, <2>1 DEF PutArrives, WInv, TypeOKWrite, Files
  <2>2. CASE PutFails(p)
    BY <2>2 DEF PutFails, WInv, TypeOKWrite
  <2>3. CASE PutBytes(p)
    <3>1. /\ p.state = "tmp" => tmp[p.node] \in SUBSET Owners
          /\ p.state = "part" => part[p.node] \in SUBSET Owners
      BY DEF WInv, StreamsOpen
    <3>2. /\ tmp' \in [Nodes -> Files]
          /\ \A n \in Nodes : tmp[n] \in SUBSET Owners => tmp'[n] \in SUBSET Owners
      <4>1. CASE p.state = "tmp"
        BY <1>2, <2>3, <3>1, <4>1 DEF PutBytes, WInv, TypeOKWrite, Files
      <4>2. CASE p.state # "tmp"
        BY <2>3, <4>2 DEF PutBytes, WInv, TypeOKWrite
      <4> QED
        BY <4>1, <4>2
    <3>3. /\ part' \in [Nodes -> Files]
          /\ \A n \in Nodes : part[n] \in SUBSET Owners => part'[n] \in SUBSET Owners
      <4>1. CASE p.state = "part"
        BY <1>2, <2>3, <3>1, <4>1 DEF PutBytes, WInv, TypeOKWrite, Files
      <4>2. CASE p.state # "part"
        BY <2>3, <4>2 DEF PutBytes, WInv, TypeOKWrite
      <4> QED
        BY <4>1, <4>2
    <3> QED
      BY <3>2, <3>3
  <2> QED
    BY <2>1, <2>2, <2>3
<1>5. \A q \in puts' : \/ q \in puts
                       \/ /\ PutArrives(p) /\ q \in Put /\ q.node = p.node
                          /\ q.token = p.token /\ q.state = "tmp"
  <2>1. CASE PutArrives(p)
    <3> SUFFICES ASSUME NEW q, q = [p EXCEPT !.state = "tmp"]
                 PROVE  q \in Put /\ q.node = p.node /\ q.token = p.token /\ q.state = "tmp"
      BY <2>1 DEF PutArrives
    <3> QED
      BY <1>2, PutMoved
  <2>2. CASE PutBytes(p) \/ PutFails(p)
    BY <2>2 DEF PutBytes, PutFails
  <2> QED
    BY <2>1, <2>2
<1>6. puts' \subseteq Put
  BY <1>5 DEF WInv, TypeOKWrite
<1>7. StreamsOpen'
  <2> SUFFICES ASSUME NEW q \in puts'
               PROVE  /\ q.state = "tmp" => tmp'[q.node] \in SUBSET Owners
                      /\ q.state = "part" => part'[q.node] \in SUBSET Owners
    BY DEF StreamsOpen
  <2>1. CASE q \in puts
    <3>1. q.node \in Nodes
      BY <2>1 DEF WInv, TypeOKWrite, Put
    <3> QED
      BY <1>4, <2>1, <3>1 DEF WInv, StreamsOpen
  <2>2. CASE PutArrives(p) /\ q.node = p.node /\ q.state = "tmp"
    BY <1>2, <2>2 DEF PutArrives, WInv, TypeOKWrite
  <2> QED
    BY <1>5, <2>1, <2>2
<1>8. admitted' = admitted \/ Note(p.node, p.token)
  BY DEF PutArrives, PutBytes, PutFails, seenVars
<1>9. TokensTraced
  BY <1>5, <1>8 DEF TokensTraced
<1>10. LoopsFresh' /\ Positions' /\ \A g \in Gateways : phase'[g] # "out" => pc'[g] \in {"holding", "degraded"}
  BY <1>1, <1>3 DEF WInv, LoopsFresh, Positions, TypeOKWrite, lockVars
<1> QED
  BY <1>1, <1>4, <1>6, <1>7, <1>9, <1>10 DEF Rest, WInv, TypeOKWrite, Seen, lockVars

\* Nothing is written at first.
LEMMA WriteInitial == InitWrite => WInv
<1> SUFFICES ASSUME InitWrite PROVE WInv
  OBVIOUS
<1>1. IInv
  BY LockInitial DEF InitWrite
<1>2. TypeOKWrite
  BY <1>1, NAssumption DEF InitWrite, TypeOKWrite, IInv, Files, Nodes
<1>3. Seen /\ LoopsFresh /\ StreamsOpen /\ WithinGrants
  BY DEF InitWrite, Seen, LoopsFresh, StreamsOpen, WithinGrants, Init, FreshSlot
<1> QED
  BY <1>1, <1>2, <1>3 DEF WInv

\* A step of NextWrite is one of the steps above.
LEMMA StepKeeps ==
  ASSUME WInv, NextWrite
  PROVE  Rest' /\ TokensTraced
<1>1. CASE LockStep \/ \E g \in Gateways : HangUp(g)
  BY <1>1, LeavingKeeps
<1>2. CASE \E g \in Gateways : LocalStep(g)
  BY <1>2, LocalKeeps
<1>3. CASE \E g \in Gateways : CallStep(g)
  BY <1>3, PrepareKeeps, PublishKeeps, SealKeeps, RollbackKeeps DEF CallStep
<1>4. CASE \E p \in puts : PutArrives(p) \/ PutBytes(p) \/ PutFails(p)
  BY <1>4, PutKeeps
<1> QED
  BY <1>1, <1>2, <1>3, <1>4 DEF NextWrite

\* WInv is preserved: the lock's part as before, the rest by StepKeeps.
LEMMA WriteInvariance == WInv /\ [NextWrite]_vars => WInv'
<1> SUFFICES ASSUME WInv, [NextWrite]_vars PROVE WInv'
  OBVIOUS
<1>1. CASE NextWrite
  <2>1. [Next]_lockVars
    BY <1>1, OnlyLockSteps
  <2>2. IInv'
    BY <2>1, LockInvariance DEF WInv
  <2>3. Rest' /\ TokensTraced
    BY <1>1, StepKeeps
  <2>4. WithinGrants' /\ admitted' \in [Nodes -> Nat]
    BY <2>1, <2>3, GrantsKept
  <2> QED
    BY <2>2, <2>3, <2>4 DEF WInv, Rest, Positions, IInv, TypeOKWrite, Seen
<1>2. CASE UNCHANGED vars
  <2>1. IInv'
    BY <1>2, LockInvariance DEF WInv, vars
  <2> QED
    BY <1>2, <2>1 DEF WInv, IInv, TypeOKWrite, Seen, LoopsFresh, StreamsOpen, WithinGrants,
                      vars, lockVars, dataVars, seenVars
<1> QED
  BY <1>1, <1>2

\* The inductive invariant of write_sharded, of the client's streams and of the
\* nodes' handlers holds in every reachable state.
THEOREM WritesInductive == SpecWrite => []WInv
BY WriteInitial, WriteInvariance, PTL DEF SpecWrite

\* The variables of write_sharded, of the streams and of the nodes' files always
\* have their types: no stream writes into a file that is not there.
THEOREM WritesTypeCorrect == SpecWrite => []TypeOKWrite
<1>1. WInv => TypeOKWrite
  BY DEF WInv
<1> QED
  BY <1>1, WritesInductive, PTL

\* fenced_out: a node that has kept its table lets no older holder in after a
\* newer one.  What it has let in is within its grants, and a fenced request
\* with a smaller token than its last grant is refused.
THEOREM AdmitsInOrder == SpecWrite => AdmissionInOrder
<1> DEFINE Grows(n) == ~ forgot[n] => admitted'[n] >= admitted[n]
<1>1. ASSUME WInv, NextWrite, NEW n \in Nodes PROVE Grows(n)
  <2> SUFFICES ASSUME ~ forgot[n] PROVE admitted'[n] >= admitted[n]
    OBVIOUS
  <2>1. /\ admitted \in [Nodes -> Nat] /\ slot[n].token \in Nat
        /\ admitted[n] <= slot[n].token
    BY <1>1 DEF WInv, Seen, WithinGrants, IInv, TypeOK, SlotsOf
  <2>2. ASSUME NEW m \in Nodes, NEW t \in Nat, Admits(m, t), Note(m, t)
        PROVE  admitted'[n] >= admitted[n]
    BY <2>1, <2>2 DEF Note, Admits, FenceOk
  <2>3. \/ admitted' = admitted
        \/ \E m \in Nodes, t \in Nat : Admits(m, t) /\ Note(m, t)
    <3>1. CASE LockStep \/ \E g \in Gateways : HangUp(g)
      BY <1>1, <3>1, LockStepLeaves DEF WInv
    <3>2. ASSUME NEW g \in Gateways, LocalStep(g) PROVE admitted' = admitted
      BY <3>2 DEF LocalStep, Enter, Streamed, Decide, seenVars
    <3>3. ASSUME NEW g \in Gateways, CallStep(g)
          PROVE  \/ admitted' = admitted
                 \/ \E m \in Nodes, t \in Nat : Admits(m, t) /\ Note(m, t)
      <4>1. on[g] \in Nodes /\ tokens[g][on[g]] \in Nat
        BY <1>1, <3>3, CallFacts
      <4> QED
        BY <3>3, <4>1 DEF CallStep, Prepare, Publish, Seal, Rollback
    <3>4. ASSUME NEW p \in puts, PutArrives(p) \/ PutBytes(p) \/ PutFails(p)
          PROVE  \/ admitted' = admitted
                 \/ \E m \in Nodes, t \in Nat : Admits(m, t) /\ Note(m, t)
      <4>1. p.node \in Nodes /\ p.token \in Nat
        BY <1>1 DEF WInv, TypeOKWrite, Put
      <4> QED
        BY <3>4, <4>1 DEF PutArrives, PutBytes, PutFails, seenVars
    <3> QED
      BY <1>1, <3>1, <3>2, <3>3, <3>4 DEF NextWrite
  <2> QED
    BY <2>1, <2>2, <2>3
<1>2. ASSUME WInv, [NextWrite]_vars PROVE [\A n \in Nodes : Grows(n)]_vars
  BY <1>1, <1>2
<1>3. SpecWrite => [][\A n \in Nodes : Grows(n)]_vars
  BY <1>2, WritesInductive, PTL DEF SpecWrite
<1> QED
  BY <1>3 DEF AdmissionInOrder

-------------------------------------------------------------------------------
\* As long as nothing is upset, who asks for the lock or holds it has all the
\* leases it was granted.
Leased ==
  \A g \in Gateways : pc[g] \in {"asking", "holding"} => LeasesRun(g)

\* Who holds the lock took it last, and only a holder writes.
HolderLatest ==
  \A g \in Gateways : /\ pc[g] = "holding" => latest = Owner(g)
                      /\ pc[g] # "degraded"

\* An acknowledged session is over or about to end.
AckedDone ==
  acked # NoFile =>
    /\ acked[2] <= sess[acked[1]]
    /\ acked[2] = sess[acked[1]] => pc[acked[1]] = "idle" \/ phase[acked[1]] = "done"

\* A stream that is under way belongs to a session that prepares or sends, and
\* is the only one at its node.
StreamsOwned ==
  /\ \A p \in puts : \E g \in Gateways :
       /\ p.owner = Owner(g) /\ p.state \in {"sent", "tmp"}
       /\ \/ phase[g] = "mkdir" /\ p.node < on[g]
          \/ phase[g] = "stream"
       /\ p.state = "tmp" => tmp[p.node] = {}
  /\ \A p \in puts, q \in puts : p.node = q.node => p = q

\* What the writer g has at node n, where its write has not failed.
Prepared(g, n) == (\E p \in puts : p.node = n) \/ tmp[n] = {Owner(g)}
Written(g, n) ==
  /\ phase[g] = "mkdir" /\ n < on[g] => Prepared(g, n)
  /\ phase[g] = "stream" => Prepared(g, n)
  /\ phase[g] = "publish" /\ n >= on[g] => tmp[n] = {Owner(g)}
  /\ phase[g] = "publish" /\ n < on[g] => part[n] = {Owner(g)}
  /\ phase[g] \in {"seal", "decide"} => part[n] = {Owner(g)}
  /\ phase[g] = "seal" /\ n < on[g] => meta[n] = Owner(g)
  /\ phase[g] = "decide" => meta[n] = Owner(g)

Progress == \A g \in Gateways : \A n \in okay[g] : Written(g, n)

\* The acknowledged write stands until the next session takes the lock.
Stands == acked # NoFile /\ acked = latest => Cardinality(Intact(acked)) >= WriteQuorum

Calm ==
  Leased /\ HolderLatest /\ AckedDone /\ StreamsOwned /\ Progress /\ Whole /\ Stands
CalmInv == upsets = {} => Calm

-------------------------------------------------------------------------------
\* There is one holder, since leases run and majorities meet.
LEMMA OneHolder ==
  ASSUME IInv, Leased, NEW g \in Gateways, NEW h \in Gateways,
         pc[g] = "holding", pc[h] = "holding"
  PROVE  g = h
<1> PICK n \in Nodes : n \in Granting(g) /\ n \in Granting(h)
  BY HoldersMeet
<1>1. slot[n].owner = Owner(g) /\ slot[n].owner = Owner(h)
  BY DEF Leased, LeasesRun, Reentrant
<1> QED
  BY <1>1, OwnerFacts DEF IInv

\* There is one writer, and the lock was last taken by it.
LEMMA OneWriter ==
  ASSUME WInv, Calm, NEW g \in Gateways, phase[g] # "out"
  PROVE  /\ pc[g] = "holding" /\ latest = Owner(g) /\ Owner(g) \in Owners
         /\ \A h \in Gateways : phase[h] # "out" => h = g
<1>1. \A h \in Gateways : phase[h] # "out" => pc[h] = "holding"
  BY DEF WInv, TypeOKWrite, Calm, HolderLatest
<1>2. latest = Owner(g) /\ Owner(g) \in Owners
  BY <1>1, WriterFacts DEF Calm, HolderLatest
<1> QED
  BY <1>1, <1>2, OneHolder DEF WInv, Calm

\* Until it is done, the session at work is not the acknowledged one.
LEMMA NotAcked ==
  ASSUME WInv, Calm, NEW g \in Gateways, pc[g] # "idle", phase[g] # "done",
         acked # NoFile
  PROVE  acked # Owner(g)
BY DEF Calm, AckedDone, Owner

\* Every stream is the writer's.
LEMMA StreamsOfWriter ==
  ASSUME WInv, Calm, NEW g \in Gateways, phase[g] # "out", NEW p \in puts
  PROVE  /\ p.owner = Owner(g) /\ p.state \in {"sent", "tmp"}
         /\ phase[g] \in {"mkdir", "stream"}
         /\ phase[g] = "mkdir" => p.node < on[g]
         /\ p.state = "tmp" => tmp[p.node] = {}
<1> PICK h \in Gateways : /\ p.owner = Owner(h) /\ p.state \in {"sent", "tmp"}
                          /\ \/ phase[h] = "mkdir" /\ p.node < on[h]
                             \/ phase[h] = "stream"
                          /\ p.state = "tmp" => tmp[p.node] = {}
  BY DEF Calm, StreamsOwned
<1>1. h = g
  BY OneWriter
<1> QED
  BY <1>1

\* What has gone wrong is not forgotten.
LEMMA UpsetsGrow == ASSUME NextWrite PROVE upsets \subseteq upsets'
<1>1. CASE LockStep
  BY <1>1 DEF LockStep, seenVars, Upset
<1>2. CASE \E g \in Gateways : LocalStep(g) \/ CallStep(g) \/ HangUp(g)
  BY <1>2 DEF LocalStep, CallStep, HangUp, Enter, Streamed, Decide, Prepare, Publish, Seal,
              Rollback, seenVars, Upset
<1>3. CASE \E p \in puts : PutArrives(p) \/ PutBytes(p) \/ PutFails(p)
  BY <1>3 DEF PutArrives, PutBytes, PutFails, seenVars
<1> QED
  BY <1>1, <1>2, <1>3 DEF NextWrite

\* The steps of the lock that upset nothing.
LEMMA QuietLockStep ==
  ASSUME LockStep, upsets' = {}
  PROVE  \/ \E g \in Gateways :
              \/ /\ Begin(g) \/ Ask(g) \/ Undo(g) \/ Retry(g)
                 /\ UNCHANGED <<dataVars, latest>>
              \/ /\ Judge(g)
                 /\ latest' = IF HasQuorum(g) THEN Owner(g) ELSE latest
                 /\ UNCHANGED dataVars
              \/ /\ phase[g] = "done" /\ Leave(g) /\ Exit(g)
                 /\ UNCHANGED latest
              \/ /\ phase[g] = "out" /\ Crash(g) /\ Exit(g)
                 /\ UNCHANGED latest
         \/ \E d \in drops : Drop(d) /\ UNCHANGED <<dataVars, latest>>
         \/ \E n \in Nodes : /\ Expire(n) /\ slot[n].owner \notin Unfinished
                             /\ UNCHANGED <<dataVars, latest>>
<1>1. \A what, owners : Upset(what, owners) => owners = {}
  <2> SUFFICES ASSUME NEW what, NEW owners, Upset(what, owners), NEW o \in owners
               PROVE  FALSE
    OBVIOUS
  <2>1. <<what, o>> \in {what} \X owners
    OBVIOUS
  <2>2. upsets' = upsets \cup ({what} \X owners)
    BY DEF Upset
  <2> QED
    BY <2>1, <2>2
<1> QED
  BY <1>1 DEF LockStep, seenVars

\* Leases last: nobody frees or takes over the slot of a session that asks or
\* holds, and a lease that expires is nobody's at work.
LEMMA LeasesLast ==
  ASSUME WInv, Leased, LockStep, upsets' = {}
  PROVE  Leased'
<1> SUFFICES ASSUME NEW h \in Gateways, pc'[h] \in {"asking", "holding"},
                    NEW m \in Nodes, tokens'[h][m] > 0
             PROVE  Reentrant(slot'[m], Owner(h)')
  BY DEF Leased, LeasesRun, Granting
<1>1. TypeOK /\ DropsOver
  BY DEF WInv, IInv
<1>2. /\ Owner(h) # Free
      /\ \A g \in Gateways : Owner(g) = Owner(h) => g = h
  BY <1>1, OwnerFacts
<1>3. ASSUME pc[h] \in {"asking", "holding"}, tokens[h][m] > 0
      PROVE  slot[m].owner = Owner(h) /\ slot[m].live
  BY <1>3 DEF Leased, LeasesRun, Granting, Reentrant
<1>4. ASSUME NEW g \in Gateways, Begin(g) \/ Retry(g) \/ Leave(g) \/ Crash(g)
      PROVE  Reentrant(slot'[m], Owner(h)')
  <2>1. g # h
    BY <1>1, <1>4 DEF Begin, Retry, Leave, Crash, Forget, NoTokens, TypeOK
  <2>2. /\ pc'[h] = pc[h] /\ sess'[h] = sess[h] /\ tokens'[h] = tokens[h]
        /\ slot' = slot
    BY <1>1, <1>4, <2>1 DEF Begin, Retry, Leave, Crash, Forget, TypeOK
  <2> QED
    BY <1>3, <2>2 DEF Reentrant, Owner
<1>5. ASSUME NEW g \in Gateways, Ask(g)
      PROVE  Reentrant(slot'[m], Owner(h)')
  <2> DEFINE n == at[g]
             after == GrantedSlot(slot[n], Owner(g))
  <2>1. /\ n \in Nodes /\ pc' = pc /\ Owner(h)' = Owner(h)
        /\ after.owner = Owner(g) /\ after.live
    BY <1>1, <1>5 DEF Ask, TypeOK, Nodes, Owner, GrantedSlot
  <2>2. \/ slot' = slot /\ tokens' = tokens
        \/ /\ ~ HeldByOther(slot[n], Owner(g)) /\ slot' = [slot EXCEPT ![n] = after]
           /\ tokens' = tokens \/ tokens' = [tokens EXCEPT ![g][n] = after.token]
    BY <1>5 DEF Ask
  <2> HIDE DEF n, after
  <2>3. CASE slot' = slot /\ tokens' = tokens
    BY <1>3, <2>1, <2>3 DEF Reentrant
  <2>4. CASE /\ ~ HeldByOther(slot[n], Owner(g)) /\ slot' = [slot EXCEPT ![n] = after]
             /\ tokens' = tokens \/ tokens' = [tokens EXCEPT ![g][n] = after.token]
    <3>1. CASE m = n /\ h = g
      <4>1. slot'[m] = after
        BY <1>1, <2>1, <2>4, <3>1 DEF TypeOK
      <4> QED
        BY <2>1, <3>1, <4>1 DEF Reentrant
    <3>2. CASE ~ (m = n /\ h = g)
      <4>1. tokens'[h][m] = tokens[h][m]
        BY <1>1, <2>1, <2>4, <3>2 DEF TypeOK
      <4>2. slot[m].owner = Owner(h) /\ slot[m].live
        BY <1>3, <2>1, <4>1
      <4>3. m # n
        BY <1>2, <2>4, <3>2, <4>2 DEF HeldByOther
      <4>4. slot'[m] = slot[m]
        BY <1>1, <2>1, <2>4, <4>3 DEF TypeOK
      <4> QED
        BY <2>1, <4>2, <4>4 DEF Reentrant
    <3> QED
      BY <3>1, <3>2
  <2> QED
    BY <2>2, <2>3, <2>4
<1>6. ASSUME NEW g \in Gateways, Judge(g)
      PROVE  Reentrant(slot'[m], Owner(h)')
  <2>1. pc[h] \in {"asking", "holding"}
    BY <1>1, <1>6 DEF Judge, TypeOK
  <2> QED
    BY <1>3, <1>6, <2>1 DEF Judge, Reentrant, Owner
<1>7. ASSUME NEW o \in Owners, o # Owner(h), NEW n \in Nodes, ReleaseAt(n, o),
             UNCHANGED <<pc, sess, tokens>>
      PROVE  Reentrant(slot'[m], Owner(h)')
  <2>1. slot[m].owner = Owner(h) /\ slot[m].live
    BY <1>3, <1>7
  <2>2. slot'[m] = slot[m]
    BY <1>1, <1>7, <2>1, ReleaseKeeps
  <2> QED
    BY <1>7, <2>1, <2>2 DEF Reentrant, Owner
<1>8. ASSUME NEW g \in Gateways, Undo(g)
      PROVE  Reentrant(slot'[m], Owner(h)')
  <2>1. /\ g # h /\ at[g] \in Nodes /\ ReleaseAt(at[g], Owner(g))
        /\ UNCHANGED <<pc, sess, tokens>>
    BY <1>1, <1>8 DEF Undo, TypeOK, Nodes
  <2>2. Owner(g) \in Owners
    BY <1>1, <1>8, OwnerFacts DEF Undo
  <2> QED
    BY <1>2, <1>7, <2>1, <2>2
<1>9. ASSUME NEW d \in drops, Drop(d)
      PROVE  Reentrant(slot'[m], Owner(h)')
  <2>1. /\ d.owner \in Owners /\ d.next \in Nodes /\ ReleaseAt(d.next, d.owner)
        /\ UNCHANGED <<pc, sess, tokens>>
    BY <1>1, <1>9 DEF Drop, TypeOK
  <2>2. d.owner # Owner(h)
    BY <1>1, <2>1 DEF DropsOver, Owner
  <2> QED
    BY <1>7, <2>1, <2>2
<1>10. ASSUME NEW n \in Nodes, Expire(n), slot[n].owner \notin Unfinished
       PROVE  Reentrant(slot'[m], Owner(h)')
  <2>1. pc'[h] = pc[h] /\ Owner(h)' = Owner(h) /\ tokens' = tokens
    BY <1>10 DEF Expire, Owner
  <2>2. slot[m].owner = Owner(h) /\ slot[m].live
    BY <1>3, <2>1
  <2>3. Owner(h) \in Unfinished
    BY <2>1 DEF Unfinished
  <2>4. slot'[m] = slot[m]
    BY <1>1, <1>10, <2>2, <2>3 DEF Expire, TypeOK
  <2> QED
    BY <2>1, <2>2, <2>4 DEF Reentrant
<1> QED
  BY <1>4, <1>5, <1>6, <1>8, <1>9, <1>10, QuietLockStep

\* The same after a step.
LEMMA OneHolderNext ==
  ASSUME IInv', Leased', NEW g \in Gateways, NEW h \in Gateways,
         pc'[g] = "holding", pc'[h] = "holding"
  PROVE  g = h
<1>1. /\ Granting(g)' \in SUBSET Nodes /\ Granting(h)' \in SUBSET Nodes
      /\ Cardinality(Granting(g)') >= Quorum /\ Cardinality(Granting(h)') >= Quorum
  BY DEF IInv, HolderQuorum, HasQuorum, Granting
<1> PICK n \in Nodes : n \in Granting(g)' /\ n \in Granting(h)'
  BY <1>1, MajoritiesMeet
<1>2. slot'[n].owner = <<g, sess'[g]>> /\ slot'[n].owner = <<h, sess'[h]>>
  BY DEF Leased, LeasesRun, Reentrant, Owner
<1> QED
  BY <1>2

\* A step of the lock: who writes goes on, and a new holder takes over from a
\* session that is over.
LEMMA LockCalm ==
  ASSUME WInv, Calm, LockStep, upsets' = {}, IInv'
  PROVE  Calm'
<1>1. Leased'
  BY LeasesLast DEF Calm
<1>2. TypeOK /\ TypeOK'
  BY DEF WInv, IInv
<1>3. UNCHANGED <<tmp, part, meta, puts, acked>>
  BY LockStepLeaves DEF OnlyLeaving, fileVars, WInv
<1>4. ASSUME NEW g \in Gateways
      PROVE  \/ phase'[g] = phase[g] /\ on'[g] = on[g] /\ okay'[g] = okay[g]
             \/ phase'[g] = "out" /\ okay'[g] = {} /\ phase[g] \in {"out", "done"}
  <2>1. \/ UNCHANGED <<phase, on, okay>>
        \/ \E h \in Gateways : Exit(h) /\ phase[h] \in {"out", "done"}
    BY QuietLockStep DEF dataVars
  <2> QED
    BY <2>1 DEF Exit, WInv, TypeOKWrite
<1>5. \A g \in Gateways :
        /\ sess'[g] = sess[g] \/ (sess'[g] = sess[g] + 1 /\ pc[g] = "idle")
        /\ pc[g] = "idle" => pc'[g] = "idle" \/ sess'[g] = sess[g] + 1
        /\ pc'[g] # "degraded"
        /\ pc'[g] = "holding" => sess'[g] = sess[g] /\ (pc[g] = "holding" \/ Judge(g))
  <2>1. ASSUME NEW h \in Gateways,
               Begin(h) \/ Ask(h) \/ Undo(h) \/ Retry(h) \/ Judge(h) \/ Leave(h) \/ Crash(h),
               NEW g \in Gateways
        PROVE  /\ sess'[g] = sess[g] \/ (sess'[g] = sess[g] + 1 /\ pc[g] = "idle")
               /\ pc[g] = "idle" => pc'[g] = "idle" \/ sess'[g] = sess[g] + 1
               /\ pc'[g] # "degraded"
               /\ pc'[g] = "holding" => sess'[g] = sess[g] /\ (pc[g] = "holding" \/ Judge(g))
    <3>1. CASE Begin(h)
      BY <1>2, <3>1 DEF Begin, TypeOK, Calm, HolderLatest
    <3>2. CASE Ask(h) \/ Undo(h)
      BY <1>2, <3>2 DEF Ask, Undo, TypeOK, Calm, HolderLatest
    <3>3. CASE Retry(h)
      BY <1>2, <3>3 DEF Retry, TypeOK, Calm, HolderLatest
    <3>4. CASE Judge(h)
      <4>1. UNCHANGED sess /\ pc[h] = "asking" /\ pc'[h] \in {"holding", "undoing"}
        BY <1>2, <3>4 DEF Judge, TypeOK
      <4>2. g # h => pc'[g] = pc[g]
        BY <1>2, <3>4 DEF Judge, TypeOK
      <4> QED
        BY <3>4, <4>1, <4>2 DEF Calm, HolderLatest
    <3>5. CASE Leave(h) \/ Crash(h)
      BY <1>2, <3>5 DEF Leave, Crash, Forget, TypeOK, Calm, HolderLatest
    <3> QED
      BY <2>1, <3>1, <3>2, <3>3, <3>4, <3>5
  <2>2. CASE UNCHANGED <<pc, sess>>
    BY <2>2 DEF Calm, HolderLatest
  <2> QED
    BY <2>1, <2>2, QuietLockStep DEF Drop, Expire
<1>6. ASSUME NEW g \in Gateways, Judge(g)
      PROVE  /\ pc[g] = "asking" /\ pc'[g] = IF HasQuorum(g) THEN "holding" ELSE "undoing"
             /\ \A h \in Gateways : h # g => pc'[h] = pc[h]
  BY <1>2, <1>6 DEF Judge, TypeOK
<1>7. HolderLatest'
  <2> SUFFICES ASSUME NEW g \in Gateways, pc'[g] = "holding"
               PROVE  latest' = Owner(g)
    BY <1>5 DEF HolderLatest, Owner
  <2>1. ASSUME NEW h \in Gateways, Judge(h),
               latest' = IF HasQuorum(h) THEN Owner(h) ELSE latest
        PROVE  latest' = Owner(g)
    <3>1. CASE HasQuorum(h)
      <4>1. h = g
        BY <1>1, <1>6, <2>1, <3>1, OneHolderNext
      <4> QED
        BY <2>1, <3>1, <4>1
    <3>2. CASE ~ HasQuorum(h)
      <4>1. pc[g] = "holding"
        BY <1>6, <2>1, <3>2
      <4> QED
        BY <2>1, <3>2, <4>1 DEF Calm, HolderLatest
    <3> QED
      BY <3>1, <3>2
  <2>2. CASE latest' = latest /\ pc[g] = "holding"
    BY <2>2 DEF Calm, HolderLatest
  <2>3. ASSUME NEW h \in Gateways, Begin(h) \/ Ask(h) \/ Undo(h) \/ Retry(h) \/ Leave(h) \/ Crash(h)
        PROVE  pc[g] = "holding"
    BY <1>2, <2>3 DEF Begin, Ask, Undo, Retry, Leave, Crash, Forget, TypeOK
  <2> QED
    BY <2>1, <2>2, <2>3, QuietLockStep DEF Drop, Expire
<1>8. AckedDone'
  <2> SUFFICES ASSUME acked # NoFile
               PROVE  /\ acked[2] <= sess'[acked[1]]
                      /\ acked[2] = sess'[acked[1]]
                           => pc'[acked[1]] = "idle" \/ phase'[acked[1]] = "done"
    BY <1>3 DEF AckedDone
  <2>1. /\ acked[1] \in Gateways /\ acked[2] \in Nat /\ sess[acked[1]] \in Nat
        /\ acked[2] <= sess[acked[1]]
        /\ acked[2] = sess[acked[1]] => pc[acked[1]] = "idle" \/ phase[acked[1]] = "done"
    BY <1>2 DEF Calm, AckedDone, WInv, Seen, Owners, TypeOK
  <2>2. phase[acked[1]] = "done" => phase'[acked[1]] = "done" \/ pc'[acked[1]] = "idle"
    <3> SUFFICES ASSUME phase[acked[1]] = "done", phase'[acked[1]] # "done"
                 PROVE  pc'[acked[1]] = "idle"
      OBVIOUS
    <3>1. \E h \in Gateways : (Leave(h) \/ Crash(h)) /\ Exit(h)
      BY QuietLockStep DEF dataVars
    <3> QED
      BY <1>2, <2>1, <3>1 DEF Exit, Leave, Crash, Forget, TypeOK, WInv, TypeOKWrite
  <2> QED
    BY <1>5, <2>1, <2>2
<1>9. StreamsOwned'
  <2>1. ASSUME NEW p \in puts
        PROVE  \E g \in Gateways :
                 /\ p.owner = Owner(g)' /\ p.state \in {"sent", "tmp"}
                 /\ \/ phase'[g] = "mkdir" /\ p.node < on'[g]
                    \/ phase'[g] = "stream"
                 /\ p.state = "tmp" => tmp'[p.node] = {}
    <3> PICK g \in Gateways :
          /\ p.owner = Owner(g) /\ p.state \in {"sent", "tmp"}
          /\ \/ phase[g] = "mkdir" /\ p.node < on[g]
             \/ phase[g] = "stream"
          /\ p.state = "tmp" => tmp[p.node] = {}
      BY DEF Calm, StreamsOwned
    <3>1. phase'[g] = phase[g] /\ on'[g] = on[g]
      BY <1>4
    <3>2. pc[g] # "idle"
      BY DEF WInv, TypeOKWrite
    <3>3. Owner(g)' = Owner(g)
      BY <1>5, <3>2 DEF Owner
    <3> QED
      BY <1>3, <3>1, <3>3
  <2> QED
    BY <1>3, <2>1 DEF Calm, StreamsOwned
<1>10. Progress'
  <2> SUFFICES ASSUME NEW g \in Gateways, NEW n \in okay'[g]
               PROVE  Written(g, n)'
    BY DEF Progress
  <2>1. CASE phase'[g] \in {"out", "done", "rollback"}
    BY <2>1 DEF Written
  <2>2. CASE phase'[g] \notin {"out", "done", "rollback"}
    <3>1. phase'[g] = phase[g] /\ on'[g] = on[g] /\ okay'[g] = okay[g]
      BY <1>4, <2>2
    <3>2. Owner(g)' = Owner(g)
      BY <1>5, <2>2, <3>1 DEF Owner, WInv, TypeOKWrite
    <3>3. Written(g, n)
      BY <3>1 DEF Calm, Progress
    <3> QED
      BY <1>3, <3>1, <3>2, <3>3 DEF Written, Prepared
  <2> QED
    BY <2>1, <2>2
<1>11. Whole'
  BY <1>3 DEF Calm, Whole
<1>12. Stands'
  <2>1. acked # NoFile /\ acked = latest' => acked = latest
    <3> SUFFICES ASSUME acked # NoFile, NEW g \in Gateways, Judge(g)
                 PROVE  acked # Owner(g)
      BY QuietLockStep
    <3>1. pc[g] = "asking" /\ phase[g] # "done"
      BY DEF Judge, WInv, TypeOKWrite
    <3> QED
      BY <3>1, NotAcked
  <2> QED
    BY <1>3, <2>1 DEF Calm, Stands, Intact
<1> QED
  BY <1>1, <1>7, <1>8, <1>9, <1>10, <1>11, <1>12 DEF Calm

\* Where the write quorum is reached, that many nodes are intact.
LEMMA EnoughIntact ==
  ASSUME NEW S \in SUBSET Nodes, Cardinality(S) >= WriteQuorum, NEW o, S \subseteq Intact(o)
  PROVE  Cardinality(Intact(o)) >= WriteQuorum
<1>1. IsFiniteSet(Nodes)
  BY NAssumption, FS_Interval DEF Nodes
<1>2. IsFiniteSet(Intact(o))
  <2>1. Intact(o) \subseteq Nodes
    BY DEF Intact
  <2> QED
    BY <1>1, <2>1, FS_Subset
<1>3. Cardinality(S) <= Cardinality(Intact(o))
  BY <1>2, FS_Subset
<1>4. Cardinality(S) \in Nat /\ Cardinality(Intact(o)) \in Nat
  BY <1>2, FS_Subset, FS_CardinalityType
<1> QED
  BY <1>3, <1>4, WriteQuorumAssumption

\* Entering, sending done, deciding.
LEMMA LocalCalm ==
  ASSUME WInv, Calm, NEW g \in Gateways, LocalStep(g)
  PROVE  Calm'
<1>1. /\ UNCHANGED <<lockVars, fileVars, on, latest>>
      /\ \A h \in Gateways : h # g => phase'[h] = phase[h] /\ okay'[h] = okay[h]
  BY DEF LocalStep, Enter, Streamed, Decide, seenVars, WInv, TypeOKWrite
<1>2. pc[g] = "holding" /\ latest = Owner(g) /\ Owner(g) \in Owners
  <2>1. pc[g] = "holding"
    BY DEF LocalStep, Enter, Streamed, Decide, WInv, TypeOKWrite, Calm, HolderLatest
  <2> QED
    BY <2>1, WriterFacts DEF Calm, HolderLatest
<1>3. Leased' /\ HolderLatest' /\ Whole'
  BY <1>1 DEF Calm, Leased, LeasesRun, Granting, HolderLatest, Owner, Whole, lockVars, fileVars
<1>4. ASSUME NEW p \in puts
      PROVE  \E h \in Gateways :
               /\ h # g /\ p.owner = Owner(h) /\ p.state \in {"sent", "tmp"}
               /\ \/ phase[h] = "mkdir" /\ p.node < on[h]
                  \/ phase[h] = "stream"
               /\ p.state = "tmp" => tmp[p.node] = {}
  <2> PICK h \in Gateways : /\ p.owner = Owner(h) /\ p.state \in {"sent", "tmp"}
                            /\ \/ phase[h] = "mkdir" /\ p.node < on[h]
                               \/ phase[h] = "stream"
                            /\ p.state = "tmp" => tmp[p.node] = {}
    BY DEF Calm, StreamsOwned
  <2>1. h # g
    BY DEF LocalStep, Enter, Streamed, Decide
  <2> QED
    BY <2>1
<1>5. puts = {} \/ phase[g] = "out"
  BY <1>4, OneWriter
<1>6. StreamsOwned'
  <2>1. ASSUME NEW p \in puts
        PROVE  \E h \in Gateways :
                 /\ p.owner = Owner(h)' /\ p.state \in {"sent", "tmp"}
                 /\ \/ phase'[h] = "mkdir" /\ p.node < on'[h]
                    \/ phase'[h] = "stream"
                 /\ p.state = "tmp" => tmp'[p.node] = {}
    BY <1>1, <1>4 DEF Owner, lockVars, fileVars
  <2> QED
    BY <1>1, <2>1 DEF Calm, StreamsOwned, fileVars
<1>7. ASSUME NEW h \in Gateways, h # g, NEW n \in okay'[h]
      PROVE  Written(h, n)'
  <2>1. Written(h, n)
    BY <1>1, <1>7 DEF Calm, Progress
  <2> QED
    BY <1>1, <1>7, <2>1 DEF Written, Prepared, Owner, lockVars, fileVars
<1>8. CASE Enter(g)
  <2>1. phase[g] = "out" /\ phase'[g] = "mkdir" /\ on[g] = 1 /\ UNCHANGED acked
    BY <1>8 DEF Enter, WInv, LoopsFresh, TypeOKWrite, seenVars
  <2>2. \A n \in okay'[g] : Written(g, n)'
    BY <1>1, <1>8, <2>1 DEF Written, Enter, WInv, TypeOKWrite, Nodes
  <2>3. Stands'
    BY <1>1, <2>1 DEF Calm, Stands, Intact, fileVars
  <2>4. acked # NoFile => acked # Owner(g)
    BY <1>2, <2>1, NotAcked
  <2>5. AckedDone'
    BY <1>1, <2>1, <2>4 DEF Calm, AckedDone, Owner, WInv, Seen, Owners, lockVars
  <2> QED
    BY <1>3, <1>6, <1>7, <2>2, <2>3, <2>5 DEF Calm, Progress
<1>9. CASE Streamed(g)
  <2>1. /\ phase[g] = "stream" /\ phase'[g] = "publish" /\ on[g] = 1 /\ UNCHANGED <<acked, okay>>
    BY <1>9 DEF Streamed, WInv, LoopsFresh, TypeOKWrite, seenVars
  <2>2. ASSUME NEW n \in okay'[g] PROVE Written(g, n)'
    <3>1. n \in Nodes /\ Written(g, n)
      BY <2>1 DEF Calm, Progress, WInv, TypeOKWrite
    <3>2. tmp[n] = {Owner(g)}
      BY <1>5, <2>1, <3>1 DEF Written, Prepared
    <3> QED
      BY <1>1, <2>1, <3>1, <3>2 DEF Written, Owner, lockVars, fileVars, Nodes
  <2>3. Stands'
    BY <1>1, <2>1 DEF Calm, Stands, Intact, fileVars
  <2>4. acked # NoFile => acked # Owner(g)
    BY <1>2, <2>1, NotAcked
  <2>5. AckedDone'
    BY <1>1, <2>1, <2>4 DEF Calm, AckedDone, Owner, WInv, Seen, Owners, lockVars
  <2> QED
    BY <1>3, <1>6, <1>7, <2>2, <2>3, <2>5 DEF Calm, Progress
<1>10. CASE Decide(g)
  <2>1. phase[g] = "decide" /\ phase'[g] \in {"done", "rollback"} /\ UNCHANGED okay
    BY <1>10 DEF Decide, WInv, TypeOKWrite
  <2>2. \A n \in okay'[g] : Written(g, n)'
    BY <2>1 DEF Written
  <2>3. CASE EnoughShards(g)
    <3>1. acked' = Owner(g) /\ phase'[g] = "done"
      BY <1>10, <2>3 DEF Decide, WInv, TypeOKWrite
    <3>2. okay[g] \subseteq Intact(Owner(g))
      <4>1. \A n \in okay[g] : n \in Nodes /\ part[n] = {Owner(g)} /\ meta[n] = Owner(g)
        BY <2>1 DEF Calm, Progress, Written, WInv, TypeOKWrite
      <4> QED
        BY <4>1 DEF Intact
    <3>3. Cardinality(Intact(Owner(g))) >= WriteQuorum
      BY <2>3, <3>2, EnoughIntact DEF EnoughShards, WInv, TypeOKWrite
    <3>4. Stands'
      BY <1>1, <3>1, <3>3 DEF Stands, Intact, fileVars
    <3>5. AckedDone'
      <4>1. sess[g] \in Nat
        BY DEF WInv, IInv, TypeOK
      <4> QED
        BY <1>1, <3>1, <4>1 DEF AckedDone, Owner, lockVars
    <3> QED
      BY <1>3, <1>6, <1>7, <2>2, <3>4, <3>5 DEF Calm, Progress
  <2>4. CASE ~ EnoughShards(g)
    <3>1. acked' = acked
      BY <1>10, <2>4 DEF Decide
    <3>2. Stands'
      BY <1>1, <3>1 DEF Calm, Stands, Intact, fileVars
    <3>3. acked # NoFile => acked # Owner(g)
      BY <1>2, <2>1, NotAcked
    <3>4. AckedDone'
      BY <1>1, <3>1, <3>3 DEF Calm, AckedDone, Owner, WInv, Seen, Owners, lockVars
    <3> QED
      BY <1>3, <1>6, <1>7, <2>2, <3>2, <3>4 DEF Calm, Progress
  <2> QED
    BY <2>3, <2>4
<1> QED
  BY <1>8, <1>9, <1>10 DEF LocalStep

\* A call of the writer's: the others are outside, and it is not acknowledged.
LEMMA CallCalm ==
  ASSUME WInv, Calm, NEW g \in Gateways, CallStep(g)
  PROVE  Calm'
<1> DEFINE n == on[g]
<1>1. /\ UNCHANGED <<lockVars, latest, acked>>
      /\ n \in Nodes /\ Owner(g) \in Owners
      /\ \A h \in Gateways : h # g => okay'[h] = okay[h]
      /\ okay'[g] \subseteq okay[g]
  BY CallFacts
<1>2. phase[g] \in {"mkdir", "publish", "seal", "rollback"}
  BY DEF CallStep, Prepare, Publish, Seal, Rollback, Step
<1>3. /\ pc[g] = "holding" /\ latest = Owner(g)
      /\ \A h \in Gateways : phase[h] # "out" => h = g
  BY <1>2, OneWriter
<1>4. acked # NoFile => acked # Owner(g)
  BY <1>2, <1>3, NotAcked
<1>5. \A p \in puts : /\ p.owner = Owner(g) /\ p.state \in {"sent", "tmp"}
                      /\ phase[g] = "mkdir" /\ p.node < n
                      /\ p.state = "tmp" => tmp[p.node] = {}
  BY <1>2, StreamsOfWriter
<1>6. \A h \in Gateways : h # g => phase'[h] = "out"
  <2>1. \A h \in Gateways : h # g => phase'[h] = phase[h]
    BY DEF CallStep, Prepare, Publish, Seal, Rollback, Step, WInv, TypeOKWrite
  <2> QED
    BY <1>3, <2>1
<1>7. UNCHANGED <<slot, pc, sess, tokens>> /\ Owner(g)' = Owner(g)
  BY <1>1 DEF lockVars, Owner
<1>8. Leased' /\ HolderLatest'
  BY <1>1, <1>7 DEF Calm, Leased, LeasesRun, Granting, HolderLatest, Owner
<1>9. Stands'
  BY <1>1, <1>3, <1>4 DEF Stands
<1>10. AckedDone'
  <2> SUFFICES ASSUME acked # NoFile
               PROVE  /\ acked[2] <= sess[acked[1]]
                      /\ acked[2] = sess[acked[1]] => pc[acked[1]] = "idle" \/ phase'[acked[1]] = "done"
    BY <1>1, <1>7 DEF AckedDone
  <2>1. /\ acked[2] <= sess[acked[1]] /\ acked[1] \in Gateways
        /\ acked[2] = sess[acked[1]] => pc[acked[1]] = "idle" \/ phase[acked[1]] = "done"
    BY DEF Calm, AckedDone, WInv, Seen, Owners
  <2>2. acked[2] = sess[acked[1]] => acked[1] # g
    BY <1>4, <2>1 DEF Owner, WInv, Seen, Owners
  <2> QED
    BY <1>3, <2>1, <2>2
<1>11. Progress' <=> \A m \in okay'[g] : Written(g, m)'
  BY <1>6 DEF Progress, Written
<1>12. \A m \in okay'[g] : m \in Nodes /\ Written(g, m)
  BY <1>1 DEF Calm, Progress, WInv, TypeOKWrite
<1> HIDE DEF n
<1>13. CASE Prepare(g)
  <2> DEFINE new == [owner |-> Owner(g), node |-> n, token |-> tokens[g][n], state |-> "sent"]
  <2>1. /\ new.owner = Owner(g) /\ new.node = n /\ new.state = "sent"
        /\ UNCHANGED <<tmp, part, meta>>
        /\ puts' = puts \cup {new} \/ (puts' = puts /\ okay' = [okay EXCEPT ![g] = @ \ {n}])
    BY <1>13 DEF Prepare, Fail, n
  <2>2. /\ phase[g] = "mkdir"
        /\ \/ on'[g] = n + 1 /\ phase'[g] = "mkdir"
           \/ phase'[g] = "stream" /\ n = N
    BY <1>13, LoopTurn DEF Prepare, WInv, n
  <2> HIDE DEF new
  <2>3. ASSUME NEW p \in puts'
        PROVE  /\ p.owner = Owner(g) /\ p.state \in {"sent", "tmp"}
               /\ p.node = n => p = new
               /\ p.node # n => p \in puts
               /\ p.node <= n /\ p.node \in Nodes
               /\ p.state = "tmp" => tmp[p.node] = {}
    <3>1. CASE p \in puts
      <4>1. p.node \in Nodes
        BY <3>1 DEF WInv, TypeOKWrite, Put
      <4> QED
        BY <1>1, <1>5, <3>1, <4>1 DEF Nodes
    <3>2. CASE p = new
      BY <1>1, <2>1, <3>2 DEF Nodes
    <3> QED
      BY <2>1, <3>1, <3>2
  <2>4. StreamsOwned'
    <3>1. ASSUME NEW p \in puts'
          PROVE  \E h \in Gateways :
                   /\ p.owner = Owner(h)' /\ p.state \in {"sent", "tmp"}
                   /\ \/ phase'[h] = "mkdir" /\ p.node < on'[h]
                      \/ phase'[h] = "stream"
                   /\ p.state = "tmp" => tmp'[p.node] = {}
      <4>1. phase'[g] = "stream" \/ (phase'[g] = "mkdir" /\ p.node < on'[g])
        BY <1>1, <2>2, <2>3, <3>1 DEF Nodes
      <4> QED
        BY <1>7, <2>1, <2>3, <3>1, <4>1
    <3>2. \A p \in puts', q \in puts' : p.node = q.node => p = q
      BY <2>3 DEF Calm, StreamsOwned
    <3> QED
      BY <3>1, <3>2 DEF StreamsOwned
  <2>5. ASSUME NEW m \in okay'[g] PROVE Written(g, m)'
    <3>1. m \in Nodes /\ (m < n => Prepared(g, m))
      BY <1>12, <2>2, <2>5 DEF Written, n
    <3>2. (phase'[g] = "mkdir" /\ m < on'[g]) \/ phase'[g] = "stream" => Prepared(g, m)'
      <4> SUFFICES ASSUME (phase'[g] = "mkdir" /\ m < on'[g]) \/ phase'[g] = "stream"
                   PROVE  Prepared(g, m)'
        OBVIOUS
      <4>1. m < n \/ m = n
        BY <1>1, <2>2, <3>1 DEF Nodes
      <4>2. CASE m < n
        BY <1>7, <2>1, <3>1, <4>2 DEF Prepared
      <4>3. CASE m = n
        <5>1. new \in puts'
          BY <2>1, <2>5, <4>3 DEF WInv, TypeOKWrite
        <5> QED
          BY <2>1, <4>3, <5>1 DEF Prepared
      <4> QED
        BY <4>1, <4>2, <4>3
    <3> QED
      BY <2>2, <3>2 DEF Written
  <2>6. Whole'
    BY <2>1 DEF Calm, Whole
  <2> QED
    BY <1>8, <1>9, <1>10, <1>11, <2>4, <2>5, <2>6 DEF Calm
<1>14. CASE Publish(g)
  <2>1. phase[g] = "publish" /\ puts = {}
    BY <1>5, <1>14 DEF Publish, Step
  <2>2. /\ \/ on'[g] = n + 1 /\ phase'[g] = "publish"
           \/ phase'[g] = "seal" /\ n = N
    BY <1>14, LoopTurn DEF Publish, WInv, n
  <2>3. /\ puts' = {}
        /\ \A m \in Nodes : m # n => tmp'[m] = tmp[m] /\ part'[m] = part[m]
        /\ \/ n \in okay[g] /\ part'[n] = tmp[n]
           \/ n \notin okay'[g] /\ part'[n] = part[n]
    BY <1>1, <1>14, <2>1 DEF Publish, Renamed, Fail, WInv, TypeOKWrite, n
  <2>4. n \in okay[g] => tmp[n] = {Owner(g)}
    BY <1>1, <2>1 DEF Calm, Progress, Written, Nodes, n
  <2>5. Whole'
    <3>1. ASSUME NEW m \in Nodes, part'[m] # NoFile PROVE Cardinality(part'[m]) <= 1
      <4>1. part'[m] = part[m] \/ part'[m] = {Owner(g)}
        BY <2>3, <2>4
      <4>2. Cardinality({Owner(g)}) = 1
        BY FS_Singleton
      <4> QED
        BY <3>1, <4>1, <4>2 DEF Calm, Whole
    <3> QED
      BY <3>1 DEF Whole
  <2>6. ASSUME NEW m \in okay'[g] PROVE Written(g, m)'
    <3>1. /\ m \in Nodes
          /\ m >= n => tmp[m] = {Owner(g)}
          /\ m < n => part[m] = {Owner(g)}
      BY <1>12, <2>1, <2>6 DEF Written, n
    <3>2. m <= n => part'[m] = {Owner(g)}
      BY <1>1, <2>3, <2>4, <2>6, <3>1 DEF Nodes
    <3>3. m > n => tmp'[m] = {Owner(g)}
      BY <1>1, <2>3, <3>1 DEF Nodes
    <3>4. CASE on'[g] = n + 1 /\ phase'[g] = "publish"
      <4>1. /\ m >= on'[g] => tmp'[m] = {Owner(g)'}
            /\ m < on'[g] => part'[m] = {Owner(g)'}
        BY <1>1, <1>7, <3>1, <3>2, <3>3, <3>4 DEF Nodes
      <4> QED
        BY <3>4, <4>1 DEF Written
    <3>5. CASE phase'[g] = "seal" /\ n = N
      <4>1. part'[m] = {Owner(g)'}
        BY <1>7, <3>1, <3>2, <3>5 DEF Nodes
      <4>2. ~ m < on'[g]
        <5>1. on'[g] = 1
          BY <1>14, <3>5, LoopTurn DEF Publish, WInv
        <5> QED
          BY <3>1, <5>1 DEF Nodes
      <4> QED
        BY <3>5, <4>1, <4>2 DEF Written
    <3> QED
      BY <2>2, <3>4, <3>5
  <2>7. StreamsOwned'
    BY <2>3 DEF StreamsOwned
  <2> QED
    BY <1>8, <1>9, <1>10, <1>11, <2>5, <2>6, <2>7 DEF Calm
<1>15. CASE Seal(g)
  <2>1. phase[g] = "seal" /\ puts = {} /\ UNCHANGED <<tmp, part, puts>>
    BY <1>5, <1>15 DEF Seal, Step
  <2>2. /\ \/ on'[g] = n + 1 /\ phase'[g] = "seal"
           \/ phase'[g] = "decide" /\ n = N
    BY <1>15, LoopTurn DEF Seal, WInv, n
  <2>3. /\ \A m \in Nodes : m # n => meta'[m] = meta[m]
        /\ meta'[n] = Owner(g) \/ n \notin okay'[g]
    BY <1>1, <1>15 DEF Seal, Fail, WInv, TypeOKWrite, n
  <2>4. ASSUME NEW m \in okay'[g] PROVE Written(g, m)'
    <3>1. m \in Nodes /\ part[m] = {Owner(g)} /\ (m < n => meta[m] = Owner(g))
      BY <1>12, <2>1, <2>4 DEF Written, n
    <3>2. m <= n => meta'[m] = Owner(g)
      BY <1>1, <2>3, <2>4, <3>1 DEF Nodes
    <3> QED
      BY <1>1, <1>7, <2>1, <2>2, <3>1, <3>2 DEF Written, Nodes
  <2>5. Whole' /\ StreamsOwned'
    BY <2>1 DEF Calm, Whole, StreamsOwned
  <2> QED
    BY <1>8, <1>9, <1>10, <1>11, <2>4, <2>5 DEF Calm
<1>16. CASE Rollback(g)
  <2>1. phase[g] = "rollback" /\ puts = {}
    BY <1>5, <1>16 DEF Rollback, Step
  <2>2. phase'[g] \in {"rollback", "done"}
    BY <1>16, LoopTurn DEF Rollback, WInv
  <2>3. puts' = {} /\ (part' = part \/ part' = [part EXCEPT ![n] = NoFile])
    BY <1>16, <2>1 DEF Rollback, n
  <2>4. Whole'
    BY <2>3 DEF Calm, Whole, WInv, TypeOKWrite
  <2>5. StreamsOwned' /\ \A m \in okay'[g] : Written(g, m)'
    BY <2>2, <2>3 DEF StreamsOwned, Written
  <2> QED
    BY <1>8, <1>9, <1>10, <1>11, <2>4, <2>5 DEF Calm
<1> QED
  BY <1>13, <1>14, <1>15, <1>16 DEF CallStep

\* A stream of the writer's arrives, fails or delivers its bytes.
LEMMA PutCalm ==
  ASSUME WInv, Calm, NEW p \in puts, PutArrives(p) \/ PutBytes(p) \/ PutFails(p)
  PROVE  Calm'
<1> PICK g \in Gateways :
      /\ p.owner = Owner(g) /\ p.state \in {"sent", "tmp"}
      /\ \/ phase[g] = "mkdir" /\ p.node < on[g]
         \/ phase[g] = "stream"
      /\ p.state = "tmp" => tmp[p.node] = {}
  BY DEF Calm, StreamsOwned
<1>1. UNCHANGED <<lockVars, part, meta, phase, on, latest, acked>>
  BY DEF PutArrives, PutBytes, PutFails, seenVars
<1>2. UNCHANGED <<slot, pc, sess, tokens>> /\ \A h \in Gateways : Owner(h)' = Owner(h)
  BY <1>1 DEF lockVars, Owner
<1>3. p \in Put /\ p.node \in Nodes
  BY DEF WInv, TypeOKWrite, Put
<1>4. \A h \in Gateways : phase[h] # "out" => h = g
  BY OneWriter
<1>5. \A q \in puts : /\ q.owner = Owner(g) /\ q.state \in {"sent", "tmp"} /\ q.node \in Nodes
                      /\ phase[g] = "mkdir" => q.node < on[g]
                      /\ q.state = "tmp" => tmp[q.node] = {}
                      /\ q.node = p.node => q = p
  <2>1. \A q \in puts : q.node \in Nodes /\ (q.node = p.node => q = p)
    BY DEF WInv, TypeOKWrite, Put, Calm, StreamsOwned
  <2> QED
    BY <2>1, StreamsOfWriter
<1>6. Leased' /\ HolderLatest' /\ AckedDone' /\ Whole' /\ Stands'
  BY <1>1, <1>2 DEF Calm, Leased, LeasesRun, Granting, HolderLatest, AckedDone, Whole, Stands, Intact
<1>7. \A n \in Nodes : n # p.node => tmp'[n] = tmp[n]
  BY <1>3 DEF PutArrives, PutBytes, PutFails, WInv, TypeOKWrite
<1>8. \A h \in Gateways : okay'[h] \subseteq okay[h]
  BY <1>3 DEF PutArrives, PutBytes, PutFails, Fail, WInv, TypeOKWrite, seenVars
<1>9. /\ \A q \in puts : q.node # p.node => q \in puts'
      /\ \A q \in puts' : \/ q \in puts /\ q.node # p.node
                          \/ /\ PutArrives(p) /\ q.owner = p.owner /\ q.node = p.node
                             /\ q = [p EXCEPT !.state = "tmp"] /\ q.state = "tmp"
  <2>1. CASE PutArrives(p)
    <3>1. [p EXCEPT !.state = "tmp"].owner = p.owner /\ [p EXCEPT !.state = "tmp"].node = p.node
            /\ [p EXCEPT !.state = "tmp"].state = "tmp"
      BY <1>3 DEF Put
    <3>2. puts' = (puts \ {p}) \cup {[p EXCEPT !.state = "tmp"]}
      BY <2>1 DEF PutArrives
    <3> QED
      BY <1>5, <2>1, <3>1, <3>2
  <2>2. CASE PutBytes(p) \/ PutFails(p)
    <3>1. puts' = puts \ {p}
      BY <2>2 DEF PutBytes, PutFails
    <3> QED
      BY <1>5, <3>1
  <2> QED
    BY <2>1, <2>2
<1>10. StreamsOwned'
  <2>1. ASSUME NEW q \in puts'
        PROVE  \E h \in Gateways :
                 /\ q.owner = Owner(h)' /\ q.state \in {"sent", "tmp"}
                 /\ \/ phase'[h] = "mkdir" /\ q.node < on'[h]
                    \/ phase'[h] = "stream"
                 /\ q.state = "tmp" => tmp'[q.node] = {}
    <3>1. CASE q \in puts /\ q.node # p.node
      BY <1>1, <1>2, <1>5, <1>7, <3>1
    <3>2. CASE PutArrives(p) /\ q.owner = p.owner /\ q.node = p.node /\ q.state = "tmp"
      <4>1. tmp'[q.node] = {}
        BY <1>3, <3>2 DEF PutArrives, WInv, TypeOKWrite
      <4> QED
        BY <1>1, <1>2, <3>2, <4>1
    <3> QED
      BY <1>9, <2>1, <3>1, <3>2
  <2>2. \A q \in puts', r \in puts' : q.node = r.node => q = r
    BY <1>9 DEF Calm, StreamsOwned
  <2> QED
    BY <2>1, <2>2 DEF StreamsOwned
<1>11. Progress'
  <2> SUFFICES ASSUME NEW h \in Gateways, NEW n \in okay'[h]
               PROVE  Written(h, n)'
    BY DEF Progress
  <2>1. CASE h # g
    BY <1>1, <1>4, <2>1 DEF Written
  <2>2. CASE h = g
    <3>1. n \in Nodes /\ Written(g, n)
      BY <1>8, <2>2 DEF Calm, Progress, WInv, TypeOKWrite
    <3>2. Prepared(g, n) => Prepared(g, n)'
      <4>1. CASE n # p.node
        <5>1. (\E q \in puts : q.node = n) => \E q \in puts' : q.node = n
          BY <1>9, <4>1
        <5> QED
          BY <1>2, <1>7, <3>1, <4>1, <5>1 DEF Prepared
      <4>2. CASE n = p.node /\ PutArrives(p)
        <5>1. [p EXCEPT !.state = "tmp"] \in puts' /\ [p EXCEPT !.state = "tmp"].node = n
          BY <1>3, <4>2 DEF PutArrives, Put
        <5> QED
          BY <5>1 DEF Prepared
      <4>3. CASE n = p.node /\ PutBytes(p)
        <5>1. p.state = "tmp" /\ tmp[n] = {}
          BY <4>3 DEF PutBytes
        <5>2. tmp' = [tmp EXCEPT ![n] = @ \cup {p.owner}]
          BY <4>3, <5>1 DEF PutBytes
        <5>3. tmp'[n] = {Owner(g)}
          BY <3>1, <5>1, <5>2 DEF WInv, TypeOKWrite
        <5> QED
          BY <1>2, <5>3 DEF Prepared
      <4>4. CASE n = p.node /\ PutFails(p)
        <5>1. AtWork(p.owner) /\ p.owner[1] = g
          BY DEF AtWork, Owner
        <5>2. n \notin okay'[g]
          BY <4>4, <5>1 DEF PutFails, Fail, WInv, TypeOKWrite
        <5> QED
          BY <2>2, <5>2
      <4> QED
        BY <4>1, <4>2, <4>3, <4>4
    <3> QED
      BY <1>1, <2>2, <3>1, <3>2 DEF Written
  <2> QED
    BY <2>1, <2>2
<1> QED
  BY <1>6, <1>10, <1>11 DEF Calm

\* As long as nothing is upset, Calm is preserved.  A client that hangs up upsets.
LEMMA CalmInvariance == WInv /\ CalmInv /\ [NextWrite]_vars => CalmInv'
<1> SUFFICES ASSUME WInv, CalmInv, [NextWrite]_vars, upsets' = {} PROVE Calm'
  BY DEF CalmInv
<1>1. CASE NextWrite
  <2>1. upsets = {}
    BY <1>1, UpsetsGrow
  <2>2. Calm
    BY <2>1 DEF CalmInv
  <2>3. IInv'
    BY <1>1, OnlyLockSteps, LockInvariance DEF WInv
  <2>4. CASE LockStep
    BY <2>2, <2>3, <2>4, LockCalm
  <2>5. CASE \E g \in Gateways : LocalStep(g)
    BY <2>2, <2>5, LocalCalm
  <2>6. CASE \E g \in Gateways : CallStep(g)
    BY <2>2, <2>6, CallCalm
  <2>7. ~ \E g \in Gateways : HangUp(g)
    <3> SUFFICES ASSUME NEW g \in Gateways, HangUp(g) PROVE FALSE
      OBVIOUS
    <3>1. <<"cut", Owner(g)>> \in {"cut"} \X {Owner(g)}
      OBVIOUS
    <3>2. upsets' = upsets \cup ({"cut"} \X {Owner(g)})
      BY DEF HangUp, Upset
    <3> QED
      BY <3>1, <3>2
  <2>8. CASE \E p \in puts : PutArrives(p) \/ PutBytes(p) \/ PutFails(p)
    BY <2>2, <2>8, PutCalm
  <2> QED
    BY <1>1, <2>4, <2>5, <2>6, <2>7, <2>8 DEF NextWrite
<1>2. CASE UNCHANGED vars
  <2>1. Calm
    BY <1>2 DEF CalmInv, vars, seenVars
  <2> QED
    BY <1>2, <2>1
       DEF Calm, Leased, LeasesRun, Granting, Owner, HolderLatest, AckedDone, StreamsOwned,
           Progress, Written, Prepared, Whole, Stands, Intact, vars, lockVars, dataVars, seenVars
<1> QED
  BY <1>1, <1>2

\* Nothing is asked for, written or acknowledged at first.
LEMMA CalmInitial == InitWrite => CalmInv
<1> SUFFICES ASSUME InitWrite PROVE Calm
  BY DEF CalmInv
<1>1. Leased /\ HolderLatest /\ AckedDone /\ StreamsOwned
  BY DEF InitWrite, Init, Leased, HolderLatest, AckedDone, StreamsOwned
<1>2. Progress /\ Whole /\ Stands
  BY DEF InitWrite, Progress, Whole, Stands
<1> QED
  BY <1>1, <1>2 DEF Calm

\* write_sharded under the quorum lock: as long as every session keeps its leases
\* until it is done, no shard mixes two writers' bytes, and the acknowledged write
\* of the last holder is on as many nodes as the write quorum asks for.
THEOREM WritesAreSafe == SpecWrite => []SafeWhileLeased
<1>1. CalmInv => SafeWhileLeased
  BY DEF CalmInv, Calm, Stands, SafeWhileLeased
<1>2. SpecWrite => []CalmInv
  BY CalmInitial, CalmInvariance, WritesInductive, PTL DEF SpecWrite
<1> QED
  BY <1>1, <1>2, PTL
===============================================================================
