------------------------------- MODULE DistLock -------------------------------
(***************************************************************************)
(* The quorum lock over the drive nodes (cluster/lock.rs, DistLock and     *)
(* LockSet), for one resource.  A gateway asks the nodes one after the     *)
(* other; with grants from a majority it holds the lock, otherwise it      *)
(* gives its grants back and tries again, and after its last round it goes *)
(* ahead without the quorum ("degraded").  Leases expire by themselves; a  *)
(* holder does not notice and does not renew them.                         *)
(*                                                                         *)
(* The local lock admits one acquisition per gateway and resource at a     *)
(* time (LocalKeyLocks), so a gateway is one actor here.  Each acquisition *)
(* has a new owner id, the pair of the gateway and a session number.       *)
(*                                                                         *)
(* Time is abstracted to the event that matters: a lease that was running  *)
(* has expired.  It may come at any moment, as a holder can be paused or   *)
(* slowed for longer than any fixed lease.                                 *)
(***************************************************************************)
EXTENDS LockTable, FiniteSets

CONSTANTS Gateways,      \* the processes that share the cluster
          N,             \* the number of lock nodes
          MaxRounds,     \* rounds of one acquisition (60 in the code)
          MaxSessions,   \* bound: acquisitions per gateway
          MaxFaults      \* bound: lost messages, crashes and forgotten slots in all

Nodes == 1 .. N
Owners == Gateways \X (1 .. MaxSessions)
Quorum == N \div 2 + 1

ASSUME NAssumption == N \in Nat \ {0}
ASSUME RoundsAssumption == MaxRounds \in Nat \ {0}
ASSUME SessionsAssumption == MaxSessions \in Nat /\ MaxFaults \in Nat
ASSUME FreeAssumption == Free \notin Gateways \X Nat

VARIABLES slot,      \* slot[n]: the resource's slot at node n
          pc,        \* where each gateway is in LockSet::acquire
          sess,      \* the session number of each gateway
          round,     \* the round of the acquisition
          at,        \* the next node to call in the round
          tokens,    \* tokens[g][n]: the fencing token g has from n, 0 if none
          drops,     \* release tasks under way: the owner and the next node
          forgot,    \* forgot[n]: node n has lost the slot and its token
          spent      \* the faults that have happened

lockVars == <<slot, pc, sess, round, at, tokens, drops, forgot, spent>>

Owner(g) == <<g, sess[g]>>
NoTokens == [n \in Nodes |-> 0]

TypeOK ==
  /\ slot \in [Nodes -> SlotsOf(Owners)]
  /\ pc \in [Gateways -> {"idle", "asking", "undoing", "holding", "degraded"}]
  /\ sess \in [Gateways -> 0 .. MaxSessions]
  /\ \A g \in Gateways : pc[g] # "idle" => sess[g] > 0
  /\ round \in [Gateways -> 1 .. MaxRounds]
  /\ at \in [Gateways -> 1 .. N + 1]
  /\ tokens \in [Gateways -> [Nodes -> Nat]]
  /\ drops \subseteq [owner : Owners, next : Nodes]
  /\ forgot \in [Nodes -> BOOLEAN]
  /\ spent \in 0 .. MaxFaults

Init ==
  /\ slot = [n \in Nodes |-> FreshSlot]
  /\ pc = [g \in Gateways |-> "idle"]
  /\ sess = [g \in Gateways |-> 0]
  /\ round = [g \in Gateways |-> 1]
  /\ at = [g \in Gateways |-> 1]
  /\ tokens = [g \in Gateways |-> NoTokens]
  /\ drops = {}
  /\ forgot = [n \in Nodes |-> FALSE]
  /\ spent = 0

-------------------------------------------------------------------------------
\* A fault happens: a message is lost, a process dies.
Fault == spent < MaxFaults /\ spent' = spent + 1
NoFault == UNCHANGED spent

\* DistLock::acquire begins, under a new owner id.
Begin(g) ==
  /\ pc[g] = "idle"
  /\ sess[g] < MaxSessions
  /\ sess' = [sess EXCEPT ![g] = @ + 1]
  /\ pc' = [pc EXCEPT ![g] = "asking"]
  /\ round' = [round EXCEPT ![g] = 1]
  /\ at' = [at EXCEPT ![g] = 1]
  /\ tokens' = [tokens EXCEPT ![g] = NoTokens]
  /\ UNCHANGED <<slot, drops, forgot, spent>>

\* try_acquire at the next node.  The node grants or refuses; a request or an
\* answer that is lost counts as a refusal, though the node may have granted.
Ask(g) ==
  /\ pc[g] = "asking" /\ at[g] <= N
  /\ LET n == at[g]
         grants == ~ HeldByOther(slot[n], Owner(g))
         after == GrantedSlot(slot[n], Owner(g))
     IN  \/ /\ grants /\ NoFault                   \* granted, and g hears of it
            /\ slot' = [slot EXCEPT ![n] = after]
            /\ tokens' = [tokens EXCEPT ![g][n] = after.token]
         \/ /\ grants /\ Fault                     \* granted, the answer is lost
            /\ slot' = [slot EXCEPT ![n] = after]
            /\ UNCHANGED tokens
         \/ /\ ~ grants /\ NoFault                 \* refused
            /\ UNCHANGED <<slot, tokens>>
         \/ /\ Fault                               \* never received
            /\ UNCHANGED <<slot, tokens>>
  /\ at' = [at EXCEPT ![g] = @ + 1]
  /\ UNCHANGED <<pc, sess, round, drops, forgot>>

\* The nodes that have granted g the lock, as far as g knows.
Granting(g) == {n \in Nodes : tokens[g][n] > 0}

\* Mutant of HasQuorum: half of the nodes are taken for a majority.
HasHalf(g) == Cardinality(Granting(g)) >= N \div 2

HasQuorum(g) == Cardinality(Granting(g)) >= Quorum

\* Every node has been asked: the lock is held, or the grants are given back.
Judge(g) ==
  /\ pc[g] = "asking" /\ at[g] = N + 1
  /\ pc' = [pc EXCEPT ![g] = IF HasQuorum(g) THEN "holding" ELSE "undoing"]
  /\ at' = [at EXCEPT ![g] = 1]
  /\ UNCHANGED <<slot, sess, round, tokens, drops, forgot, spent>>

\* A release of o at node n, which may be lost on the way.
ReleaseAt(n, o) ==
  \/ NoFault /\ slot' = [slot EXCEPT ![n] = ReleasedSlot(slot[n], o)]
  \/ Fault /\ UNCHANGED slot

\* A lost round: release at the next node.
Undo(g) ==
  /\ pc[g] = "undoing" /\ at[g] <= N
  /\ ReleaseAt(at[g], Owner(g))
  /\ at' = [at EXCEPT ![g] = @ + 1]
  /\ UNCHANGED <<pc, sess, round, tokens, drops, forgot>>

\* The pause after a lost round, then the next one.
Retry(g) ==
  /\ pc[g] = "undoing" /\ at[g] = N + 1
  /\ round[g] < MaxRounds
  /\ round' = [round EXCEPT ![g] = @ + 1]
  /\ at' = [at EXCEPT ![g] = 1]
  /\ pc' = [pc EXCEPT ![g] = "asking"]
  /\ tokens' = [tokens EXCEPT ![g] = NoTokens]
  /\ UNCHANGED <<slot, sess, drops, forgot, spent>>

\* The last round is lost: LockSet::acquire returns a guard without tokens.
GiveUp(g) ==
  /\ pc[g] = "undoing" /\ at[g] = N + 1
  /\ round[g] = MaxRounds
  /\ pc' = [pc EXCEPT ![g] = "degraded"]
  /\ at' = [at EXCEPT ![g] = 1]
  /\ tokens' = [tokens EXCEPT ![g] = NoTokens]
  /\ UNCHANGED <<slot, sess, round, drops, forgot, spent>>

\* g is done with the lock and keeps nothing of it.
Forget(g) ==
  /\ pc' = [pc EXCEPT ![g] = "idle"]
  /\ round' = [round EXCEPT ![g] = 1]
  /\ at' = [at EXCEPT ![g] = 1]
  /\ tokens' = [tokens EXCEPT ![g] = NoTokens]

\* The guard is dropped: a task is spawned that releases a lock that was held.
Leave(g) ==
  /\ pc[g] \in {"holding", "degraded"}
  /\ Forget(g)
  /\ drops' = IF pc[g] = "holding" THEN drops \cup {[owner |-> Owner(g), next |-> 1]}
                                   ELSE drops
  /\ UNCHANGED <<slot, sess, forgot, spent>>

\* The spawned task's release at its next node.
Drop(d) ==
  /\ ReleaseAt(d.next, d.owner)
  /\ drops' = (drops \ {d}) \cup
              (IF d.next < N THEN {[d EXCEPT !.next = @ + 1]} ELSE {})
  /\ UNCHANGED <<pc, sess, round, at, tokens, forgot>>

\* The gateway's process dies: what it knew is gone, its leases remain.  Or the
\* acquisition is cancelled, with the same effect.
Crash(g) ==
  /\ pc[g] # "idle" /\ Fault
  /\ Forget(g)
  /\ drops' = {d \in drops : d.owner[1] # g}
  /\ UNCHANGED <<slot, sess, forgot>>

\* The lease of node n runs out.
Expire(n) ==
  /\ slot[n].live
  /\ slot' = [slot EXCEPT ![n].live = FALSE]
  /\ UNCHANGED <<pc, sess, round, at, tokens, drops, forgot, spent>>

\* Node n restarts: the table is in memory only.
Restart(n) ==
  /\ slot[n] # FreshSlot
  /\ Fault
  /\ slot' = [slot EXCEPT ![n] = FreshSlot]
  /\ forgot' = [forgot EXCEPT ![n] = TRUE]
  /\ UNCHANGED <<pc, sess, round, at, tokens, drops>>

\* Another resource's acquire finds the table full and drops this long-idle slot.
Evict(n) ==
  /\ slot[n].owner = Free /\ slot[n].token > 0
  /\ Fault
  /\ slot' = [slot EXCEPT ![n] = FreshSlot]
  /\ forgot' = [forgot EXCEPT ![n] = TRUE]
  /\ UNCHANGED <<pc, sess, round, at, tokens, drops>>

GatewayStep(g) == Begin(g) \/ Ask(g) \/ Judge(g) \/ Undo(g) \/ Retry(g) \/ GiveUp(g)
NodeStep(n) == Expire(n) \/ Restart(n) \/ Evict(n)

Next ==
  \/ \E g \in Gateways : GatewayStep(g) \/ Leave(g) \/ Crash(g)
  \/ \E d \in drops : Drop(d)
  \/ \E n \in Nodes : NodeStep(n)

Spec == Init /\ [][Next]_lockVars

-------------------------------------------------------------------------------
\* A node's fencing tokens tell its holders apart: as long as the node has kept
\* its table, no two gateways have the same token from it, and none has a token
\* the node has not reached yet.
TokensTellApart ==
  \A n \in Nodes : ~ forgot[n] =>
    /\ \A g \in Gateways : tokens[g][n] <= slot[n].token
    /\ \A g, h \in Gateways :
         g # h /\ tokens[g][n] = tokens[h][n] => tokens[g][n] = 0

\* The node would turn away a write of g's.
FencedAt(g, n) == tokens[g][n] > 0 /\ ~ FenceOk(slot[n], tokens[g][n])

\* Two gateways that both believe they hold the lock (one has lost its lease)
\* share a node, and there one of the two is fenced out.
StaleHolderFenced ==
  (\A n \in Nodes : ~ forgot[n]) =>
    \A g, h \in Gateways :
      g # h /\ pc[g] = "holding" /\ pc[h] = "holding"
        => \E n \in Granting(g) \cap Granting(h) : FencedAt(g, n) \/ FencedAt(h, n)

\* g's leases are all running.
LeasesRun(g) == \A n \in Granting(g) : Reentrant(slot[n], Owner(g))

\* The lock excludes as long as leases run: of two holders, one has lost a lease.
ExclusiveWhileLeased ==
  \A g, h \in Gateways :
    pc[g] = "holding" /\ pc[h] = "holding" /\ LeasesRun(g) /\ LeasesRun(h) => g = h

\* A running lease is its owner's: while its owner holds the lock nobody else
\* frees it or takes it over; it is lost only when it expires or when the node
\* forgets it.
LeaseNotStolen ==
  [][\A g \in Gateways, n \in Nodes :
       pc[g] = "holding" /\ pc'[g] = "holding" /\ Reentrant(slot[n], Owner(g))
         => slot'[n].owner = Owner(g) \/ forgot'[n]]_lockVars
===============================================================================
