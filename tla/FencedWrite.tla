------------------------------ MODULE FencedWrite ------------------------------
(***************************************************************************)
(* Gateways that write one object's shards to the drive nodes under the    *)
(* quorum lock: DistLock composed with the data path of write_sharded      *)
(* (erasure/store.rs), the client of a remote drive (cluster/remote.rs)    *)
(* and the node's handlers (cluster/server.rs).                            *)
(*                                                                         *)
(* A node checks the fencing token of a request when the request arrives.  *)
(* The request that carries a shard is a stream: the node checks it once,  *)
(* truncates the one temporary file that all writers of the object share,  *)
(* and goes on writing what it receives.  A file keeps being written by    *)
(* whoever has it open when it is renamed or removed.                      *)
(*                                                                         *)
(* A file's content is the set of sessions whose bytes are in it.  Writes  *)
(* here are first-level only: no versioning, which adds renames under the  *)
(* same fence.                                                             *)
(***************************************************************************)
EXTENDS DistLock

CONSTANTS WriteQuorum,   \* shards that make a write count (K + 1)
          NoFile         \* there is no such file

ASSUME WriteQuorumAssumption == WriteQuorum \in 2 .. N

VARIABLES tmp,       \* tmp[n]: the content of kp.part.tmp at node n
          part,      \* part[n]: the content of the published shard
          meta,      \* meta[n]: the session that wrote xl.meta
          puts,      \* shard streams that the nodes have not finished
          phase,     \* where each gateway is in write_sharded
          on,        \* the next node of the loop it is in
          okay       \* the nodes where its write has not failed

\* Observations, read by no action.
VARIABLES admitted,  \* admitted[n]: the token of the last fenced request let in
          latest,    \* the last session to take the quorum lock
          acked,     \* the last session whose write was acknowledged
          upsets,    \* what has gone wrong, and with which session at work
          cuts       \* the faults of the data path so far

fileVars == <<tmp, part, meta, puts>>
dataVars == <<tmp, part, meta, puts, phase, on, okay>>
seenVars == <<admitted, latest, acked, upsets>>
vars == <<lockVars, dataVars, seenVars, cuts>>

Files == {NoFile} \cup SUBSET Owners
Put == [owner : Owners, node : Nodes, token : Nat, state : {"sent", "tmp", "part", "gone"}]

TypeOKWrite ==
  /\ TypeOK
  /\ tmp \in [Nodes -> Files]
  /\ part \in [Nodes -> Files]
  /\ meta \in [Nodes -> Owners \cup {NoFile}]
  /\ puts \subseteq Put
  /\ phase \in [Gateways -> {"out", "mkdir", "stream", "publish", "seal", "decide",
                         "rollback", "done"}]
  /\ on \in [Gateways -> Nodes]
  /\ okay \in [Gateways -> SUBSET Nodes]
  /\ \A g \in Gateways : phase[g] # "out" => pc[g] \in {"holding", "degraded"}

InitWrite ==
  /\ Init
  /\ tmp = [n \in Nodes |-> NoFile]
  /\ part = [n \in Nodes |-> NoFile]
  /\ meta = [n \in Nodes |-> NoFile]
  /\ puts = {}
  /\ phase = [g \in Gateways |-> "out"]
  /\ on = [g \in Gateways |-> 1]
  /\ okay = [g \in Gateways |-> {}]
  /\ admitted = [n \in Nodes |-> 0]
  /\ latest = NoFile
  /\ acked = NoFile
  /\ upsets = {}
  /\ cuts = 0

-------------------------------------------------------------------------------
\* A message of the data path is lost, or a request is dropped by its client.
Cut == cuts' = cuts + 1
NoCut == UNCHANGED cuts

\* Mutant of Admits: the request's token is not compared.
AdmitsAny(n, token) == TRUE

\* fenced_out lets the request through: it carries no token, or a current one.
Admits(n, token) == token = 0 \/ FenceOk(slot[n], token)

\* Remember the token of a request that node n has let in.
Note(n, token) ==
  admitted' = IF token = 0 THEN admitted ELSE [admitted EXCEPT ![n] = token]

\* g calls the next node of the loop ph; the last call ends the loop.
Step(g, ph, next) ==
  /\ phase[g] = ph
  /\ IF on[g] < N
       THEN on' = [on EXCEPT ![g] = @ + 1] /\ UNCHANGED phase
       ELSE on' = [on EXCEPT ![g] = 1] /\ phase' = [phase EXCEPT ![g] = next]

\* The call to node n failed: it was turned away, or lost before or after.
Fail(g, n) == okay' = [okay EXCEPT ![g] = @ \ {n}]

\* A call of g's to node n that took effect, whose answer may be lost.
Answered(g, n) == (NoCut /\ UNCHANGED okay) \/ (Cut /\ Fail(g, n))

\* A call that had no effect.
Refused(n, token) == (~ Admits(n, token) /\ NoCut) \/ Cut

\* The guard is there: write_sharded begins.
Enter(g) ==
  /\ pc[g] \in {"holding", "degraded"} /\ phase[g] = "out"
  /\ phase' = [phase EXCEPT ![g] = "mkdir"]
  /\ okay' = [okay EXCEPT ![g] = Nodes]
  /\ UNCHANGED <<lockVars, fileVars, on, seenVars>>

\* Prepare a writer at the next node: the directory, then a stream, which the
\* gateway sends without waiting for an answer.
Prepare(g) ==
  /\ Step(g, "mkdir", "stream")
  /\ LET n == on[g]
         token == tokens[g][n]
     IN  \/ /\ Admits(n, token)
            /\ Note(n, token)
            /\ puts' = puts \cup {[owner |-> Owner(g), node |-> n, token |-> token, state |-> "sent"]}
            /\ NoCut /\ UNCHANGED okay
         \/ /\ Refused(n, token)
            /\ Fail(g, n)
            /\ UNCHANGED <<puts, admitted>>
  /\ UNCHANGED <<lockVars, tmp, part, meta, latest, acked, upsets>>

\* put_file: the stream reaches its node, which checks the token and truncates
\* the temporary file.
PutArrives(p) ==
  /\ p.state = "sent"
  /\ Admits(p.node, p.token)
  /\ Note(p.node, p.token)
  /\ tmp' = [tmp EXCEPT ![p.node] = {}]
  /\ puts' = (puts \ {p}) \cup {[p EXCEPT !.state = "tmp"]}
  /\ UNCHANGED <<lockVars, part, meta, phase, on, okay, latest, acked, upsets>>

\* The session p belongs to is still in its critical section.
AtWork(o) == sess[o[1]] = o[2] /\ phase[o[1]] # "out"

\* The stream fails, at once or on its way: the writer reports an error.
PutFails(p) ==
  /\ \/ p.state = "sent" /\ ~ Admits(p.node, p.token) /\ NoCut
     \/ Cut
  /\ puts' = puts \ {p}
  /\ IF AtWork(p.owner) THEN Fail(p.owner[1], p.node) ELSE UNCHANGED okay
  /\ UNCHANGED <<lockVars, tmp, part, meta, phase, on, seenVars>>

\* put_file: the body is copied into the file that was opened, under whatever
\* name that file has by now, and the request is answered.
PutBytes(p) ==
  /\ p.state # "sent"
  /\ tmp' = IF p.state = "tmp" THEN [tmp EXCEPT ![p.node] = @ \cup {p.owner}] ELSE tmp
  /\ part' = IF p.state = "part" THEN [part EXCEPT ![p.node] = @ \cup {p.owner}] ELSE part
  /\ puts' = puts \ {p}
  /\ UNCHANGED <<lockVars, meta, phase, on, okay, seenVars>>

\* Every writer has been shut down, which waits for the node's answer.
Streamed(g) ==
  /\ phase[g] = "stream"
  /\ \A p \in puts : p.owner # Owner(g)
  /\ phase' = [phase EXCEPT ![g] = "publish"]
  /\ UNCHANGED <<lockVars, fileVars, on, okay, seenVars>>

\* The streams once node n has renamed tmp to part.
Renamed(n) ==
  {IF p.node # n THEN p
   ELSE CASE p.state = "tmp"  -> [p EXCEPT !.state = "part"]
          [] p.state = "part" -> [p EXCEPT !.state = "gone"]
          [] OTHER            -> p : p \in puts}

\* Publish the shard at the next node where it was written: rename tmp to part.
Publish(g) ==
  /\ Step(g, "publish", "seal")
  /\ LET n == on[g]
         token == tokens[g][n]
     IN  \/ /\ n \in okay[g] /\ Admits(n, token) /\ tmp[n] # NoFile
            /\ Note(n, token)
            /\ part' = [part EXCEPT ![n] = tmp[n]]
            /\ tmp' = [tmp EXCEPT ![n] = NoFile]
            /\ puts' = Renamed(n)
            /\ Answered(g, n)
         \/ /\ \/ (n \notin okay[g] \/ tmp[n] = NoFile) /\ NoCut
               \/ n \in okay[g] /\ Refused(n, token)
            /\ Fail(g, n)
            /\ UNCHANGED <<tmp, part, puts, admitted>>
  /\ UNCHANGED <<lockVars, meta, latest, acked, upsets>>

\* Write xl.meta at the next node where the shard was published.
Seal(g) ==
  /\ Step(g, "seal", "decide")
  /\ LET n == on[g]
         token == tokens[g][n]
     IN  \/ /\ n \in okay[g] /\ Admits(n, token)
            /\ Note(n, token)
            /\ meta' = [meta EXCEPT ![n] = Owner(g)]
            /\ Answered(g, n)
         \/ /\ \/ n \notin okay[g] /\ NoCut
               \/ n \in okay[g] /\ Refused(n, token)
            /\ Fail(g, n)
            /\ UNCHANGED <<meta, admitted>>
  /\ UNCHANGED <<lockVars, tmp, part, puts, latest, acked, upsets>>

\* Mutant of EnoughShards: K shards are taken for enough.
EnoughButOne(g) == Cardinality(okay[g]) >= WriteQuorum - 1

EnoughShards(g) == Cardinality(okay[g]) >= WriteQuorum

\* The write quorum decides: the write is acknowledged, or rolled back.
Decide(g) ==
  /\ phase[g] = "decide"
  /\ IF EnoughShards(g)
       THEN /\ acked' = Owner(g)
            /\ phase' = [phase EXCEPT ![g] = "done"]
       ELSE /\ phase' = [phase EXCEPT ![g] = "rollback"]
            /\ UNCHANGED acked
  /\ UNCHANGED <<lockVars, fileVars, on, okay, admitted, latest, upsets>>

\* remove_dir_all of the object at the next node.
Rollback(g) ==
  /\ Step(g, "rollback", "done")
  /\ LET n == on[g]
         token == tokens[g][n]
     IN  \/ /\ Admits(n, token) /\ NoCut
            /\ Note(n, token)
            /\ tmp' = [tmp EXCEPT ![n] = NoFile]
            /\ part' = [part EXCEPT ![n] = NoFile]
            /\ meta' = [meta EXCEPT ![n] = NoFile]
            /\ puts' = {IF p.node = n /\ p.state # "sent" THEN [p EXCEPT !.state = "gone"]
                                                          ELSE p : p \in puts}
         \/ /\ Refused(n, token)
            /\ UNCHANGED <<tmp, part, meta, puts, admitted>>
  /\ UNCHANGED <<lockVars, okay, latest, acked, upsets>>

-------------------------------------------------------------------------------
\* The critical section is over for g.
Exit(g) ==
  /\ phase' = [phase EXCEPT ![g] = "out"]
  /\ on' = [on EXCEPT ![g] = 1]
  /\ okay' = [okay EXCEPT ![g] = {}]
  /\ UNCHANGED fileVars

Upset(what, owners) == upsets' = upsets \cup ({what} \X owners)

\* The sessions that are acquiring or writing, or whose streams go on.
Unfinished ==
  {Owner(g) : g \in {h \in Gateways : pc[h] # "idle"}} \cup {p.owner : p \in puts}

\* The client hangs up: the operation is dropped where it stands, with its
\* guard, but the streams it has spawned go on.
HangUp(g) ==
  /\ phase[g] \notin {"out", "done"}
  /\ Leave(g) /\ Exit(g)
  /\ Upset("cut", {Owner(g)})
  /\ UNCHANGED <<admitted, latest, acked>>

\* The steps of the lock, with what they mean for the write.
LockStep ==
  \/ \E g \in Gateways :
       \/ /\ Begin(g) \/ Ask(g) \/ Undo(g) \/ Retry(g)
          /\ UNCHANGED <<dataVars, seenVars>>
       \/ /\ Judge(g)
          /\ latest' = IF HasQuorum(g) THEN Owner(g) ELSE latest
          /\ UNCHANGED <<dataVars, admitted, acked, upsets>>
       \/ /\ GiveUp(g)
          /\ Upset("degraded", {Owner(g)})
          /\ UNCHANGED <<dataVars, admitted, latest, acked>>
       \/ /\ phase[g] = "done" /\ Leave(g) /\ Exit(g)
          /\ UNCHANGED seenVars
       \/ /\ Crash(g) /\ Exit(g)
          /\ Upset("cut", IF phase[g] = "out" THEN {} ELSE {Owner(g)})
          /\ UNCHANGED <<admitted, latest, acked>>
  \/ \E d \in drops : Drop(d) /\ UNCHANGED <<dataVars, seenVars>>
  \/ \E n \in Nodes :
       /\ \/ Expire(n) /\ Upset("expired", {slot[n].owner} \cap Unfinished)
          \/ (Restart(n) \/ Evict(n)) /\ Upset("forgot", {Free})
       /\ UNCHANGED <<dataVars, admitted, latest, acked>>

\* The steps of the write that send nothing.
LocalStep(g) ==
  Enter(g) \/ Streamed(g) \/ Decide(g)

\* Its calls to the nodes, each of which may be lost.
CallStep(g) == Prepare(g) \/ Publish(g) \/ Seal(g) \/ Rollback(g)

\* The bound MaxFaults is on the faults of the lock and of the data path together.
NextWrite ==
  /\ \/ LockStep /\ NoCut
     \/ \E g \in Gateways : (LocalStep(g) /\ NoCut) \/ CallStep(g) \/ (HangUp(g) /\ Cut)
     \/ \E p \in puts : ((PutArrives(p) \/ PutBytes(p)) /\ NoCut) \/ PutFails(p)
  /\ spent' + cuts' <= MaxFaults

SpecWrite == InitWrite /\ [][NextWrite]_vars

-------------------------------------------------------------------------------
\* A node that has kept its table never lets an older holder in after a newer
\* one: the tokens of the fenced requests it admits only grow.
AdmissionInOrder ==
  [][\A n \in Nodes : ~ forgot[n] => admitted'[n] >= admitted[n]]_vars

\* A published shard is the work of one session.
Whole == \A n \in Nodes : part[n] # NoFile => Cardinality(part[n]) <= 1

\* The nodes that have the shard of session o, and nothing else, with its metadata.
Intact(o) == {n \in Nodes : part[n] = {o} /\ meta[n] = o}

\* As long as every session keeps its leases until it is done, no published
\* shard mixes two writers' bytes, and once the last session to take the lock is
\* acknowledged, as many nodes have its write as write_sharded asks for.
SafeWhileLeased ==
  upsets = {} =>
    Whole /\ (acked # NoFile /\ acked = latest => Cardinality(Intact(acked)) >= WriteQuorum)
===============================================================================
