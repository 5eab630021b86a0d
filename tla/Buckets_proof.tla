---------------------------- MODULE Buckets_proof ----------------------------
(***************************************************************************)
(* What is kept in a bucket's directories, for any number of drives.       *)
(*                                                                         *)
(* Bucket documents and directories are replicated without a lock or a     *)
(* quorum (Buckets), for any number of clients, documents, requests and    *)
(* faults.  A request changes one drive after another, so while it runs    *)
(* the drives disagree.  The invariant says of each drive what it holds:   *)
(* unless the thing is torn, a drive that took the last acknowledged write *)
(* (it is not stale) and no call since still holds what was acknowledged;  *)
(* and a request no other overlapped has changed every drive that it       *)
(* neither missed nor has still to call.  The acknowledgement turns the    *)
(* second into the first.                                                  *)
(*                                                                         *)
(* Listings walk the drives without a lock (Listing), for any keys, common *)
(* prefixes, page sizes and failures.  ListOnce needs to know that         *)
(* everything received lies before the token and everything on the page    *)
(* after it (OnceForm, PageForm); ListComplete, that every object held     *)
(* since the listing began is in the caller's hands, on the page, still to *)
(* be loaded, or after the next token (HeldForm), and the same of the      *)
(* versions in a readable history (KeptForm).  That a forced deletion      *)
(* leaves nothing behind rests on its page holding every key (FullForm).   *)
(***************************************************************************)
EXTENDS Buckets, Listing, FiniteSetTheorems, SequenceTheorems, WellFoundedInduction, TLAPS

-------------------------------------------------------------------------------
(* The buckets: what a drive holds of each thing. *)

Calls == {"mkdir", "write", "remove", "rmdir", "rmcfg", "shard"}

\* The calls that an operation makes.
CallsOf(o) ==
  CASE o = "create" -> {"mkdir"}
    [] o = "set" -> {"write"}
    [] o = "unset" -> {"remove"}
    [] o = "put" -> {"shard"}
    [] o = "delete" -> {"rmdir", "rmcfg"}
    [] OTHER -> {}

\* The call that makes of thing t what the operation is to make of it.
CallFor(o, t) ==
  CASE o = "create" -> "mkdir"
    [] o = "set" -> "write"
    [] o = "unset" -> "remove"
    [] o = "put" -> "shard"
    [] OTHER -> IF t \in {"dir", "object"} THEN "rmdir" ELSE "rmcfg"

\* What a drive holds of a thing, and what request r makes of it.
Value(x, t) ==
  CASE t = "dir" -> IF x.dir THEN 1 ELSE 0
    [] t = "object" -> IF x.object THEN 1 ELSE 0
    [] OTHER -> x.cfg[t]

Made(r) ==
  CASE r.op \in {"set", "unset"} -> r.doc
    [] r.op \in {"create", "put"} -> 1
    [] OTHER -> 0

Drive == [dir : BOOLEAN, cfg : [Kinds -> Docs], object : BOOLEAN]

Request == [op : {"idle", "create", "set", "unset", "put", "delete"},
            kind : Kinds \cup {"dir"}, doc : Docs, plan : Seq((1 .. N) \X Calls),
            took : SUBSET (1 .. N), missed : SUBSET (1 .. N), clash : SUBSET Things]

Types ==
  /\ backend \in {"fs", "erasure"} /\ up \in SUBSET (1 .. N)
  /\ disk \in [1 .. N -> Drive]
  /\ req \in [Clients -> Request]
  /\ truth \in [Things -> Docs] /\ stale \in [Things -> SUBSET (1 .. N)]
  /\ torn \in SUBSET Things

\* The one directory of the filesystem store is always there.
FsUp == backend = "fs" => up = 1 .. N

\* What each request has left to do is part of its operation.
Shaped(r) ==
  /\ r.op = "idle" => r = Idle
  /\ r.op \in {"set", "unset"} => r.kind \in Kinds
  /\ r.op = "unset" => r.doc = 0
  /\ \A i \in DOMAIN r.plan : r.plan[i][1] \in Slots /\ r.plan[i][2] \in CallsOf(r.op)
  /\ r.took \cup r.missed \subseteq Slots
  /\ backend = "fs" => r.missed = {}

Touches(c, t) == t \in Affects(req[c].op, req[c].kind)

\* Overlapping requests know of it.
Overlaps ==
  \A c, e \in Clients : \A t \in Things :
    c # e /\ Touches(c, t) /\ Touches(e, t) => t \in req[c].clash

ToCall(plan, d, call) == \E i \in DOMAIN plan : plan[i] = <<d, call>>

\* A request no other overlapped has changed all it neither missed nor has to call.
Carried(r, t, x) ==
  \A d \in Slots \ r.missed :
    ToCall(r.plan, d, CallFor(r.op, t)) \/ Value(x[d], t) = Made(r)

\* A PUT that no other overlapped has made what it took.
PutTaken(r, t, x) == r.op = "put" => \A d \in r.took : Value(x[d], t) = 1

Progress ==
  \A c \in Clients : \A t \in Things :
    Touches(c, t) /\ t \notin req[c].clash =>
      Carried(req[c], t, disk) /\ PutTaken(req[c], t, disk)

\* The drives hold what was acknowledged, where no request has been since.
Held ==
  \A t \in Things \ {"object"} : t \notin torn =>
    \A d \in Slots \ stale[t] :
      (\A c \in Clients : Touches(c, t) => d \notin req[c].took) => Value(disk[d], t) = truth[t]

IInv == Types /\ FsUp /\ (\A c \in Clients : Shaped(req[c])) /\ Overlaps /\ Progress /\ Held

\* No request for an object that is owed is under way, and enough drives have it.
Owed ==
  truth["object"] = 1 /\ "object" \notin torn =>
    /\ \A c \in Clients : ~Touches(c, "object")
    /\ Cardinality({d \in Slots : disk[d].object}) >= (IF backend = "fs" THEN 1 ELSE Quorum)

Looks == [phase : {"none", "walk", "load"}, left : SUBSET (1 .. N), saw : BOOLEAN,
          blind : SUBSET (1 .. N), met : SUBSET Things]

LookTypes == /\ look \in [Clients -> Looks]
             /\ \A c \in Clients : look[c].phase # "none" => backend # "fs"

Looking(c) == look[c].phase # "none"
OwedNow    == truth["object"] = 1 /\ "object" \notin torn

\* A look knows of everything that is changed beside it, and has seen an object
\* that is owed on the drives that answered it.
Seen(c) == \A d \in 1 .. N :
             disk[d].object /\ d \notin look[c].left \cup look[c].blind
               => look[c].phase = "walk" /\ look[c].saw
Watched ==
  \A c \in Clients : Looking(c) =>
    /\ \A e \in Clients : \A t \in Things : Touches(e, t) => t \in look[c].met
    /\ OwedNow /\ "object" \notin look[c].met => Seen(c)

\* Fewer drives than make a quorum have failed a look.
FewAway == \A c \in Clients : Cardinality(look[c].blind) < Quorum

-----------------------------------------------------------------------------
(* Calls, plans and what they change.                                       *)

LEMMA DocsFacts == Docs = {0, 1, 2}
<1>1. \A n \in Nat : n \in 0 .. 2 <=> n \in {0, 1, 2}
  OBVIOUS
<1> QED
  BY <1>1 DEF Docs

LEMMA KindsFacts ==
  /\ Kinds \subseteq Things /\ "dir" \in Things /\ "object" \in Things
  /\ "dir" \notin Kinds /\ "object" \notin Kinds
  /\ \A t \in Things : t \notin {"dir", "object"} => t \in Kinds
BY BucketsAssumption DEF Things

LEMMA IdleFacts ==
  /\ Idle \in Request /\ Shaped(Idle) /\ Idle.op = "idle" /\ Idle.plan = <<>>
  /\ Idle.took = {} /\ Idle.missed = {} /\ Affects(Idle.op, Idle.kind) = {}
<1>1. Idle \in Request
  BY DEF Idle, Request, Docs
<1>2. Idle.op = "idle" /\ Idle.plan = <<>> /\ Idle.took = {} /\ Idle.missed = {}
  BY DEF Idle
<1>3. DOMAIN <<>> = {}
  OBVIOUS
<1> QED
  BY <1>1, <1>2, <1>3 DEF Affects, Shaped

LEMMA IdleUnmet == [Idle EXCEPT !.clash = {}] = Idle
<1>1. Idle \in Request /\ Idle.clash = {}
  BY IdleFacts DEF Idle
<1> QED
  BY <1>1 DEF Request

LEMMA SlotsFacts == Slots \subseteq 1 .. N /\ 1 \in Slots /\ (backend = "fs" => Slots = {1})
BY BucketsAssumption DEF Slots

\* A call changes what its operation affects, and makes of it what was asked.
LEMMA CalledValue ==
  ASSUME NEW x \in Drive, NEW r \in Request, Shaped(r), NEW call \in CallsOf(r.op)
  PROVE  /\ Called(x, call, r) \in Drive
         /\ \A t \in Things :
              /\ t \notin Affects(r.op, r.kind) => Value(Called(x, call, r), t) = Value(x, t)
              /\ t \in Affects(r.op, r.kind) /\ call = CallFor(r.op, t)
                   => Value(Called(x, call, r), t) = Made(r)
              /\ t \in Affects(r.op, r.kind) /\ call # CallFor(r.op, t)
                   => Value(Called(x, call, r), t) = Value(x, t)
<1> DEFINE y == Called(x, call, r)
<1>1. r.op \in {"idle", "create", "set", "unset", "put", "delete"} /\ r.doc \in Docs /\ 0 \in Docs
  BY DEF Request, Docs
<1>2. CASE r.op = "create"
  <2>1. call = "mkdir"
    BY <1>2 DEF CallsOf
  <2>2. y = [x EXCEPT !.dir = TRUE]
    BY <2>1 DEF Called
  <2>3. y \in Drive /\ y.dir /\ y.cfg = x.cfg /\ y.object = x.object
    BY <2>2 DEF Drive
  <2> HIDE DEF y
  <2>4. Affects(r.op, r.kind) = {"dir"} /\ Made(r) = 1 /\ \A t \in Things : CallFor(r.op, t) = "mkdir"
    BY <1>2 DEF Affects, Made, CallFor
  <2> QED
    BY <2>1, <2>3, <2>4 DEF Value, y
<1>3. CASE r.op \in {"set", "unset"}
  <2>1. call = IF r.op = "set" THEN "write" ELSE "remove"
    BY <1>3 DEF CallsOf
  <2>2. r.kind \in Kinds /\ (r.op = "unset" => r.doc = 0)
    BY <1>3 DEF Shaped
  <2>3. y = [x EXCEPT !.cfg[r.kind] = r.doc]
    BY <1>3, <2>1, <2>2 DEF Called
  <2>4. x.cfg \in [Kinds -> Docs] /\ x.dir \in BOOLEAN /\ x.object \in BOOLEAN
    BY DEF Drive
  <2>5. /\ y.dir = x.dir /\ y.object = x.object
        /\ y.cfg = [x.cfg EXCEPT ![r.kind] = r.doc]
        /\ y = [dir |-> x.dir, cfg |-> [x.cfg EXCEPT ![r.kind] = r.doc], object |-> x.object]
    BY <2>3 DEF Drive
  <2>6. y.cfg \in [Kinds -> Docs] /\ \A k \in Kinds : y.cfg[k] = IF k = r.kind THEN r.doc ELSE x.cfg[k]
    BY <1>1, <2>2, <2>4, <2>5
  <2>7. y \in Drive
    BY <2>4, <2>5, <2>6 DEF Drive
  <2> HIDE DEF y
  <2>8. /\ Affects(r.op, r.kind) = {r.kind} /\ Made(r) = r.doc
        /\ \A t \in Things : CallFor(r.op, t) = call
    BY <1>3, <2>1 DEF Affects, Made, CallFor
  <2>9. \A t \in Things : Value(y, t) = IF t = r.kind THEN r.doc ELSE Value(x, t)
    BY <2>2, <2>5, <2>6, KindsFacts DEF Value
  <2> QED
    BY <2>7, <2>8, <2>9 DEF y
<1>4. CASE r.op = "put"
  <2>1. call = "shard"
    BY <1>4 DEF CallsOf
  <2>2. y = [x EXCEPT !.dir = TRUE, !.object = TRUE]
    BY <2>1 DEF Called
  <2>3. y \in Drive /\ y.dir /\ y.object /\ y.cfg = x.cfg
    BY <2>2 DEF Drive
  <2> HIDE DEF y
  <2>4. Affects(r.op, r.kind) = {"dir", "object"} /\ Made(r) = 1 /\ \A t \in Things : CallFor(r.op, t) = "shard"
    BY <1>4 DEF Affects, Made, CallFor
  <2> QED
    BY <2>1, <2>3, <2>4 DEF Value, y
<1>5. CASE r.op = "delete"
  <2>1. Affects(r.op, r.kind) = Things /\ Made(r) = 0
    BY <1>5 DEF Affects, Made
  <2>2. CASE call = "rmdir"
    <3>1. y = [x EXCEPT !.dir = FALSE, !.object = FALSE]
      BY <2>2 DEF Called
    <3>2. y \in Drive /\ ~y.dir /\ ~y.object /\ y.cfg = x.cfg
      BY <3>1 DEF Drive
    <3> HIDE DEF y
    <3>3. \A t \in Things : CallFor(r.op, t) = IF t \in {"dir", "object"} THEN "rmdir" ELSE "rmcfg"
      BY <1>5 DEF CallFor
    <3> QED
      BY <2>1, <2>2, <3>2, <3>3 DEF Value, y
  <2>3. CASE call = "rmcfg"
    <3>1. y = [x EXCEPT !.cfg = Blank.cfg] /\ Blank.cfg = [k \in Kinds |-> 0]
      BY <2>3 DEF Called, Blank
    <3>2. Blank.cfg \in [Kinds -> Docs]
      BY <1>1, <3>1
    <3>3. y \in Drive /\ y.dir = x.dir /\ y.object = x.object /\ y.cfg = Blank.cfg
      BY <3>1, <3>2 DEF Drive
    <3> HIDE DEF y
    <3>4. \A t \in Things : CallFor(r.op, t) = IF t \in {"dir", "object"} THEN "rmdir" ELSE "rmcfg"
      BY <1>5 DEF CallFor
    <3>5. \A t \in Things : Value(y, t) = IF t \in {"dir", "object"} THEN Value(x, t) ELSE 0
      BY <3>1, <3>3, KindsFacts DEF Value
    <3> QED
      BY <2>1, <2>3, <3>3, <3>4, <3>5 DEF y
  <2> QED
    BY <1>5, <2>2, <2>3 DEF CallsOf
<1>6. CASE r.op = "idle"
  BY <1>6 DEF CallsOf
<1> QED
  BY <1>1, <1>2, <1>3, <1>4, <1>5, <1>6

\* An operation's plan calls every drive for everything it affects.
LEMMA PlanFacts ==
  ASSUME NEW o \in {"create", "set", "unset", "put", "delete"}, backend \in {"fs", "erasure"}
  PROVE  /\ Plan(o) \in Seq((1 .. N) \X Calls)
         /\ \A i \in DOMAIN Plan(o) : Plan(o)[i][1] \in Slots /\ Plan(o)[i][2] \in CallsOf(o)
         /\ \A d \in Slots : \A t \in Things : ToCall(Plan(o), d, CallFor(o, t))
<1> DEFINE call == CASE o = "create" -> "mkdir" [] o = "set" -> "write"
                     [] o = "unset" -> "remove" [] OTHER -> "shard"
<1>1. N \in Nat /\ 1 \in 1 .. N
  BY BucketsAssumption
<1>2. CASE o # "delete" /\ backend = "fs"
  <2>1. Plan(o) = << <<1, call>> >>
    BY <1>2 DEF Plan, FsBucketPlan, FsConfigPlan, PutPlan
  <2>2. call \in Calls /\ call \in CallsOf(o) /\ \A t \in Things : CallFor(o, t) = call
    BY <1>2 DEF Calls, CallsOf, CallFor
  <2> HIDE DEF call
  <2>3. /\ Plan(o) \in Seq((1 .. N) \X Calls)
        /\ DOMAIN Plan(o) = {1} /\ Plan(o)[1] = <<1, call>>
    BY <1>1, <2>1, <2>2
  <2>4. Slots = {1}
    BY <1>2, SlotsFacts
  <2>5. Plan(o)[1][1] = 1 /\ Plan(o)[1][2] = call
    BY <2>3
  <2>6. \A d \in Slots : \A t \in Things : ToCall(Plan(o), d, CallFor(o, t))
    <3> SUFFICES ASSUME NEW d \in Slots, NEW t \in Things
                 PROVE  ToCall(Plan(o), d, CallFor(o, t))
      OBVIOUS
    <3>1. d = 1 /\ CallFor(o, t) = call
      BY <2>2, <2>4
    <3> QED
      BY <2>3, <3>1 DEF ToCall
  <2> QED
    BY <2>2, <2>3, <2>4, <2>5, <2>6
<1>3. CASE o # "delete" /\ backend = "erasure"
  <2>1. Plan(o) = [d \in 1 .. N |-> <<d, call>>]
    BY <1>3 DEF Plan, ErasureBucketPlan, ErasureConfigPlan, PutPlan
  <2>2. call \in Calls /\ call \in CallsOf(o) /\ \A t \in Things : CallFor(o, t) = call
    BY <1>3 DEF Calls, CallsOf, CallFor
  <2> HIDE DEF call
  <2>3. \A d \in 1 .. N : <<d, call>> \in (1 .. N) \X Calls
    BY <2>2
  <2>4. Plan(o) \in Seq((1 .. N) \X Calls)
    BY <1>1, <2>1, <2>3, IsASeq
  <2>5. DOMAIN Plan(o) = 1 .. N /\ \A d \in 1 .. N : Plan(o)[d] = <<d, call>>
    BY <2>1
  <2>6. Slots = 1 .. N
    BY <1>3 DEF Slots
  <2> QED
    BY <2>2, <2>4, <2>5, <2>6 DEF ToCall
<1>4. CASE o = "delete" /\ backend = "fs"
  <2>1. Plan(o) = << <<1, "rmdir">>, <<1, "rmcfg">> >>
    BY <1>4 DEF Plan, FsBucketPlan
  <2>2. Plan(o) \in Seq((1 .. N) \X Calls)
    BY <1>1, <2>1 DEF Calls
  <2>3. DOMAIN Plan(o) = {1, 2} /\ Plan(o)[1] = <<1, "rmdir">> /\ Plan(o)[2] = <<1, "rmcfg">>
    BY <2>1
  <2>4. CallsOf(o) = {"rmdir", "rmcfg"} /\ \A t \in Things : CallFor(o, t) \in {"rmdir", "rmcfg"}
    BY <1>4 DEF CallsOf, CallFor
  <2>5. Slots = {1}
    BY <1>4, SlotsFacts
  <2>6. \A i \in DOMAIN Plan(o) : Plan(o)[i][1] \in Slots /\ Plan(o)[i][2] \in CallsOf(o)
    BY <2>3, <2>4, <2>5
  <2>7. \A d \in Slots : \A t \in Things : ToCall(Plan(o), d, CallFor(o, t))
    <3> SUFFICES ASSUME NEW d \in Slots, NEW t \in Things
                 PROVE  ToCall(Plan(o), d, CallFor(o, t))
      OBVIOUS
    <3>1. d = 1 /\ CallFor(o, t) \in {"rmdir", "rmcfg"}
      BY <2>4, <2>5
    <3> QED
      BY <2>3, <3>1 DEF ToCall
  <2> QED
    BY <2>2, <2>6, <2>7
<1>5. CASE o = "delete" /\ backend = "erasure"
  <2> DEFINE F == [i \in 1 .. 2 * N |-> <<(i + 1) \div 2, IF i % 2 = 1 THEN "rmdir" ELSE "rmcfg">>]
  <2>1. Plan(o) = F
    BY <1>5 DEF Plan, ErasureBucketPlan
  <2>2. 2 * N \in Nat /\ \A i \in 1 .. 2 * N : (i + 1) \div 2 \in 1 .. N
    BY <1>1
  <2>3. \A i \in 1 .. 2 * N : F[i] \in (1 .. N) \X Calls /\ F[i][1] \in 1 .. N /\ F[i][2] \in {"rmdir", "rmcfg"}
    BY <2>2 DEF Calls
  <2>4. F \in Seq((1 .. N) \X Calls)
    BY <2>2, <2>3, IsASeq
  <2>5. DOMAIN F = 1 .. 2 * N
    OBVIOUS
  <2>6. ASSUME NEW d \in 1 .. N
        PROVE  /\ 2 * d \in 1 .. 2 * N /\ F[2 * d] = <<d, "rmcfg">>
               /\ 2 * d - 1 \in 1 .. 2 * N /\ F[2 * d - 1] = <<d, "rmdir">>
    <3>1. 2 * d \in 1 .. 2 * N /\ 2 * d - 1 \in 1 .. 2 * N
      BY <1>1
    <3>2. (2 * d + 1) \div 2 = d /\ (2 * d) % 2 = 0 /\ (2 * d - 1 + 1) \div 2 = d /\ (2 * d - 1) % 2 = 1
      OBVIOUS
    <3> QED
      BY <3>1, <3>2
  <2> HIDE DEF F
  <2>7. CallsOf(o) = {"rmdir", "rmcfg"} /\ \A t \in Things : CallFor(o, t) \in {"rmdir", "rmcfg"}
    BY <1>5 DEF CallsOf, CallFor
  <2>8. Slots = 1 .. N
    BY <1>5 DEF Slots
  <2> QED
    BY <2>1, <2>3, <2>4, <2>5, <2>6, <2>7, <2>8 DEF ToCall
<1> QED
  BY <1>2, <1>3, <1>4, <1>5

-----------------------------------------------------------------------------
(* Requests arrive.                                                         *)

LEMMA StepAdmit ==
  ASSUME IInv, NEW c \in Clients, NEW o \in {"create", "set", "unset", "put", "delete"},
         NEW kind \in Kinds \cup {"dir"}, NEW doc \in Docs,
         o \in {"set", "unset"} => kind \in Kinds, o = "unset" => doc = 0,
         UNCHANGED <<backend, up, disk, truth, stale>>, torn \subseteq torn', torn' \subseteq Things,
         Admit(c, o, kind, doc)
  PROVE  IInv'
<1> USE DEF IInv
<1> DEFINE clash(e) == Affects(o, kind) \cap Affects(req[e].op, req[e].kind)
           all == UNION {clash(f) : f \in Clients \ {c}}
           new == [Idle EXCEPT !.op = o, !.kind = kind, !.doc = doc, !.plan = Plan(o), !.clash = all]
<1>1. UNCHANGED <<backend, up, disk, truth, stale>> /\ req[c] = Idle
  BY DEF Admit
<1>2. req' = [e \in Clients |-> IF e = c THEN new ELSE [req[e] EXCEPT !.clash = @ \cup clash(e)]]
  BY DEF Admit
<1>3. IInv'
  <2>1. Affects(o, kind) \subseteq Things
    BY <1>1, KindsFacts DEF Affects
  <2>2. all \subseteq Things /\ \A e \in Clients : clash(e) \subseteq Things
    BY <2>1
  <2> HIDE DEF all
  <2>3. /\ new.op = o /\ new.kind = kind /\ new.doc = doc /\ new.plan = Plan(o)
        /\ new.took = {} /\ new.missed = {} /\ new.clash = all
    BY DEF Idle
  <2>4. /\ Plan(o) \in Seq((1 .. N) \X Calls)
        /\ \A i \in DOMAIN Plan(o) : Plan(o)[i][1] \in Slots /\ Plan(o)[i][2] \in CallsOf(o)
        /\ \A d \in Slots : \A t \in Things : ToCall(Plan(o), d, CallFor(o, t))
    BY <1>1, PlanFacts DEF Types
  <2>5. new \in Request
    BY <1>1, <2>2, <2>4 DEF Idle, Request
  <2>6. Shaped(new)
    BY <1>1, <2>3, <2>4 DEF Shaped
  <2> HIDE DEF new
  <2>7. \A e \in Clients : e # c =>
          /\ req'[e] \in Request
          /\ req'[e].op = req[e].op /\ req'[e].kind = req[e].kind /\ req'[e].doc = req[e].doc
          /\ req'[e].plan = req[e].plan /\ req'[e].took = req[e].took /\ req'[e].missed = req[e].missed
          /\ req'[e].clash = req[e].clash \cup clash(e)
          /\ req[e].op = "idle" => req'[e] = Idle
    <3> SUFFICES ASSUME NEW e \in Clients, e # c
                 PROVE  /\ req'[e] \in Request
                        /\ req'[e].op = req[e].op /\ req'[e].kind = req[e].kind /\ req'[e].doc = req[e].doc
                        /\ req'[e].plan = req[e].plan /\ req'[e].took = req[e].took /\ req'[e].missed = req[e].missed
                        /\ req'[e].clash = req[e].clash \cup clash(e)
                        /\ req[e].op = "idle" => req'[e] = Idle
      OBVIOUS
    <3> DEFINE x == [req[e] EXCEPT !.clash = req[e].clash \cup clash(e)]
    <3>1. req'[e] = x
      BY <1>2
    <3>2. req[e] \in Request
      BY DEF Types
    <3>3. /\ x \in Request /\ x.op = req[e].op /\ x.kind = req[e].kind /\ x.doc = req[e].doc
          /\ x.plan = req[e].plan /\ x.took = req[e].took /\ x.missed = req[e].missed
          /\ x.clash = req[e].clash \cup clash(e)
      BY <2>2, <3>2 DEF Request
    <3>4. req[e].op = "idle" => x = Idle
      <4> SUFFICES ASSUME req[e].op = "idle" PROVE x = Idle
        OBVIOUS
      <4>1. req[e] = Idle
        BY DEF Shaped
      <4>2. clash(e) = {} /\ Idle.clash = {}
        BY <4>1, IdleFacts DEF Idle
      <4>3. x = [Idle EXCEPT !.clash = {}]
        BY <4>1, <4>2
      <4>4. [Idle EXCEPT !.clash = {}] = Idle
        BY IdleUnmet
      <4> QED
        BY <4>3, <4>4
    <3> HIDE DEF x
    <3> QED
      BY <3>1, <3>3, <3>4
  <2>8. req'[c] = new
    BY <1>2
  <2>9. req' \in [Clients -> Request]
    BY <1>2, <2>5, <2>7, <2>8
  <2>10. \A e \in Clients : Shaped(req[e])'
    <3> SUFFICES ASSUME NEW e \in Clients PROVE Shaped(req'[e])
      BY <1>1 DEF Shaped, Slots
    <3>1. CASE e = c
      BY <2>6, <2>8, <3>1
    <3>2. CASE e # c
      <4>1. Shaped(req[e])
        OBVIOUS
      <4> QED
        BY <2>7, <3>2, <4>1 DEF Shaped
    <3> QED
      BY <3>1, <3>2
  <2>11. \A t \in Things :
           /\ Touches(c, t)' <=> t \in Affects(o, kind)
           /\ \A e \in Clients \ {c} : Touches(e, t)' <=> Touches(e, t)
    BY <2>3, <2>7, <2>8 DEF Touches
  <2>12. Overlaps'
    <3> SUFFICES ASSUME NEW e \in Clients, NEW f \in Clients, NEW t \in Things, e # f,
                        Touches(e, t)', Touches(f, t)'
                 PROVE  t \in req'[e].clash
      BY DEF Overlaps
    <3>1. CASE e = c
      <4>1. t \in clash(f) /\ f \in Clients \ {c}
        BY <2>11, <3>1 DEF Touches
      <4> QED
        BY <2>3, <2>8, <3>1, <4>1 DEF all
    <3>2. CASE f = c
      <4>1. t \in clash(e)
        BY <2>11, <3>2 DEF Touches
      <4> QED
        BY <2>7, <3>2, <4>1
    <3>3. CASE e # c /\ f # c
      BY <2>7, <2>11, <3>3 DEF Overlaps
    <3> QED
      BY <3>1, <3>2, <3>3
  <2>13. Progress'
    <3> SUFFICES ASSUME NEW e \in Clients, NEW t \in Things, Touches(e, t)', t \notin req'[e].clash
                 PROVE  Carried(req'[e], t, disk) /\ PutTaken(req'[e], t, disk)
      BY <1>1 DEF Progress, Carried, PutTaken, Slots
    <3>1. CASE e = c
      BY <2>3, <2>4, <2>8, <3>1 DEF Carried, PutTaken
    <3>2. CASE e # c
      <4>1. Carried(req[e], t, disk) /\ PutTaken(req[e], t, disk)
        BY <2>7, <2>11, <3>2 DEF Progress
      <4> QED
        BY <2>7, <3>2, <4>1 DEF Carried, PutTaken, Made
    <3> QED
      BY <3>1, <3>2
  <2>14. Held'
    <3> SUFFICES ASSUME NEW t \in Things \ {"object"}, t \notin torn', NEW d \in Slots \ stale[t],
                        \A e \in Clients : Touches(e, t)' => d \notin req'[e].took
                 PROVE  Value(disk[d], t) = truth[t]
      BY <1>1 DEF Held, Slots
    <3>1. \A e \in Clients : Touches(e, t) => d \notin req[e].took
      BY <1>1, <2>7, <2>11, IdleFacts
    <3> QED
      BY <3>1 DEF Held
  <2>15. Types' /\ FsUp'
    BY <1>1, <2>9 DEF Types, FsUp
  <2> QED
    BY <2>10, <2>12, <2>13, <2>14, <2>15
<1> QED
  BY <1>3

\* A request that changes nothing but the looks.
LEMMA StepElse == ASSUME IInv, UNCHANGED <<backend, up, disk, req, truth, stale, torn>> PROVE IInv'
BY DEF IInv, Types, FsUp, Shaped, Slots, Overlaps, Progress, Held, Touches, Carried, PutTaken

LEMMA StepArrive ==
  ASSUME IInv, NEW c \in Clients, NEW o, NEW kind \in Kinds \cup {"dir"}, NEW doc \in Docs,
         o \in {"set", "unset"} => kind \in Kinds, o = "unset" => doc = 0,
         Arrive(c, o, kind, doc)
  PROVE  IInv'
<1>1. /\ UNCHANGED <<backend, up, disk, truth, stale, torn>>
      /\ o \in {"create", "set", "unset", "put", "delete"}
      /\ Admit(c, o, kind, doc) \/ UNCHANGED req
  BY DEF Arrive, NewRequest
<1>2. torn \subseteq torn' /\ torn' \subseteq Things
  BY <1>1 DEF IInv, Types
<1>3. CASE Admit(c, o, kind, doc)
  BY <1>1, <1>2, <1>3, StepAdmit
<1>4. CASE UNCHANGED req
  BY <1>1, <1>4, StepElse
<1> QED
  BY <1>1, <1>3, <1>4

\* A look for objects, and the deletion after it.
LEMMA StepLook ==
  ASSUME IInv, LookTypes, NEW c \in Clients, BeginLook(c) \/ Look(c) \/ Looked(c)
  PROVE  IInv'
<1>1. CASE BeginLook(c) \/ Look(c)
  <2>1. UNCHANGED <<backend, up, disk, req, truth, stale, torn>>
    BY <1>1 DEF BeginLook, Look, NewRequest
  <2> QED
    BY <2>1, StepElse
<1>2. CASE Looked(c)
  <2>1. UNCHANGED <<backend, up, disk, truth, stale>>
    BY <1>2 DEF Looked
  <2>2. CASE look[c].phase = "walk" /\ look[c].saw
    <3>1. UNCHANGED <<req, torn>>
      BY <1>2, <2>2 DEF Looked
    <3> QED
      BY <2>1, <3>1, StepElse
  <2>3. CASE ~ (look[c].phase = "walk" /\ look[c].saw)
    <3>1. Admit(c, "delete", "dir", 0) /\ torn' = torn \cup look[c].met
      BY <1>2, <2>3 DEF Looked
    <3>2. torn \subseteq torn' /\ torn' \subseteq Things
      BY <3>1 DEF IInv, Types, LookTypes, Looks
    <3>3. 0 \in Docs /\ "dir" \in Kinds \cup {"dir"}
      BY DocsFacts
    <3> QED
      BY <2>1, <3>1, <3>2, <3>3, StepAdmit
  <2> QED
    BY <2>2, <2>3
<1> QED
  BY <1>1, <1>2

LEMMA StepPutRequest == ASSUME IInv, NEW c \in Clients, PutRequest(c) PROVE IInv'
<1>1. PICK query \in Kinds \cup {"", "object-lock"}, body \in {"malformed", "empty", "first", "second"} :
        IF query \in Kinds THEN Arrive(c, PutOp(query), query, Stored(query, body))
        ELSE Arrive(c, PutOp(query), "dir", 0)
  BY DEF PutRequest
<1>2. CASE query \in Kinds
  <2>1. PutOp(query) = "set" /\ Stored(query, body) \in Docs
    <3>1. query # "object-lock" /\ query # "" /\ \A n \in {0, 1, 2} : n \in Docs
      BY <1>2, BucketsAssumption, DocsFacts
    <3>2. PutOp(query) = "set"
      BY <1>2, <3>1 DEF PutOp
    <3>3. Stored(query, body) \in {0, 1, 2}
      BY DEF Stored
    <3> QED
      BY <3>1, <3>2, <3>3
  <2> QED
    BY <1>1, <1>2, <2>1, StepArrive
<1>3. CASE query \notin Kinds
  <2>1. PutOp(query) \in {"none", "create"} /\ 0 \in Docs
    <3>1. PutOp(query) \in {"none", "create"}
      BY <1>3 DEF PutOp
    <3> QED
      BY <3>1, DocsFacts
  <2> QED
    BY <1>1, <1>3, <2>1, StepArrive
<1> QED
  BY <1>2, <1>3

LEMMA StepDeleteRequest == ASSUME IInv, LookTypes, NEW c \in Clients, DeleteRequest(c) PROVE IInv'
<1>0. CASE BeginLook(c)
  BY <1>0, StepLook
<1> SUFFICES ASSUME ~BeginLook(c) PROVE IInv'
  BY <1>0
<1>1. PICK query \in Kinds \cup {"", "object-lock"} :
        Arrive(c, DeleteOp(query), IF DeleteOp(query) = "unset" THEN query ELSE "dir", 0)
  BY DEF DeleteRequest
<1>2. 0 \in Docs
  BY DocsFacts
<1>3. CASE query \in Kinds \ {"versioning"}
  <2>1. DeleteOp(query) = "unset"
    BY <1>3 DEF DeleteOp
  <2> QED
    BY <1>1, <1>2, <1>3, <2>1, StepArrive
<1>4. CASE query \notin Kinds \ {"versioning"}
  <2>1. DeleteOp(query) = "delete"
    BY <1>4 DEF DeleteOp
  <2> QED
    BY <1>1, <1>2, <2>1, StepArrive
<1> QED
  BY <1>3, <1>4

LEMMA StepPutObject == ASSUME IInv, NEW c \in Clients, PutObject(c) PROVE IInv'
<1>1. 0 \in Docs
  BY DocsFacts
<1> QED
  BY <1>1, StepArrive DEF PutObject

-----------------------------------------------------------------------------
(* One call.                                                                *)

LEMMA StepCall == ASSUME IInv, NEW c \in Clients, Call(c) PROVE IInv'
<1> USE DEF IInv
<1> DEFINE r == req[c]
           d == Head(r.plan)[1]
           call == Head(r.plan)[2]
           taken == IF d \in up THEN r.took \cup {d} ELSE r.took
           lost == IF d \in up THEN r.missed ELSE r.missed \cup {d}
           new == [r EXCEPT !.plan = Tail(r.plan), !.took = taken, !.missed = lost]
<1>1. /\ UNCHANGED <<backend, up, truth, stale, torn>> /\ r.plan # <<>>
      /\ disk' = IF d \in up THEN [disk EXCEPT ![d] = Called(@, call, r)] ELSE disk
      /\ req' = [req EXCEPT ![c] = new]
  BY DEF Call
<1>2. r \in Request /\ Shaped(r) /\ r.plan \in Seq((1 .. N) \X Calls)
  BY DEF Types, Request
<1>3. /\ Head(r.plan) = r.plan[1] /\ 1 \in DOMAIN r.plan /\ Tail(r.plan) \in Seq((1 .. N) \X Calls)
      /\ DOMAIN Tail(r.plan) = 1 .. Len(r.plan) - 1 /\ DOMAIN r.plan = 1 .. Len(r.plan)
      /\ Len(r.plan) \in Nat
      /\ \A i \in 1 .. Len(r.plan) - 1 : Tail(r.plan)[i] = r.plan[i + 1]
  BY <1>1, <1>2
<1>4. /\ d \in Slots /\ d \in 1 .. N /\ call \in CallsOf(r.op) /\ r.plan[1] = <<d, call>>
  <2>1. r.plan[1] \in (1 .. N) \X Calls
    BY <1>2, <1>3
  <2> QED
    BY <1>2, <1>3, <2>1 DEF Shaped
<1>5. taken \in SUBSET (1 .. N) /\ lost \in SUBSET (1 .. N)
  BY <1>2, <1>4 DEF Request
<1> HIDE DEF taken, lost
<1>6. /\ new.op = r.op /\ new.kind = r.kind /\ new.doc = r.doc /\ new.plan = Tail(r.plan)
      /\ new.took = taken /\ new.missed = lost /\ new.clash = r.clash
      /\ new \in Request
  BY <1>2, <1>3, <1>5 DEF Request
<1> HIDE DEF new
<1>7. r.op # "idle"
  BY <1>1, <1>2, IdleFacts DEF Shaped
<1>8. /\ req' \in [Clients -> Request] /\ req'[c] = new
      /\ \A e \in Clients : e # c => req'[e] = req[e]
  BY <1>1, <1>6 DEF Types
<1>9. \A e \in Clients : \A t \in Things : Touches(e, t)' <=> Touches(e, t)
  BY <1>6, <1>8 DEF Touches
<1>10. /\ Called(disk[d], call, r) \in Drive
       /\ \A t \in Things :
            /\ ~Touches(c, t) => Value(Called(disk[d], call, r), t) = Value(disk[d], t)
            /\ Touches(c, t) /\ call = CallFor(r.op, t) => Value(Called(disk[d], call, r), t) = Made(r)
            /\ Touches(c, t) /\ call # CallFor(r.op, t)
                 => Value(Called(disk[d], call, r), t) = Value(disk[d], t)
  <2>1. disk[d] \in Drive
    BY <1>4 DEF Types
  <2> QED
    BY <1>2, <1>4, <2>1, CalledValue DEF Touches
<1> DEFINE y == Called(disk[d], call, r)
<1> HIDE DEF y
<1>11. /\ disk' \in [1 .. N -> Drive]
       /\ \A x \in 1 .. N : disk'[x] = IF x = d /\ d \in up THEN y ELSE disk[x]
  <2>1. y \in Drive
    BY <1>10 DEF y
  <2>2. disk' = IF d \in up THEN [disk EXCEPT ![d] = y] ELSE disk
    BY <1>1 DEF y
  <2> HIDE DEF d
  <2> QED
    BY <1>4, <2>1, <2>2 DEF Types
<1>12. \A t \in Things :
         /\ ~Touches(c, t) => Value(y, t) = Value(disk[d], t)
         /\ Touches(c, t) /\ call = CallFor(r.op, t) => Value(y, t) = Made(r)
         /\ Touches(c, t) /\ call # CallFor(r.op, t) => Value(y, t) = Value(disk[d], t)
  BY <1>10 DEF y
<1> HIDE DEF d, call, r
<1>13. Types' /\ FsUp'
  BY <1>1, <1>8, <1>11 DEF Types, FsUp
<1>14. \A e \in Clients : Shaped(req[e])'
  <2> SUFFICES ASSUME NEW e \in Clients PROVE Shaped(req'[e])
    BY <1>1 DEF Shaped, Slots
  <2>1. CASE e # c
    BY <1>8, <2>1 DEF Shaped
  <2>2. CASE e = c
    <3>1. \A i \in DOMAIN new.plan : new.plan[i][1] \in Slots /\ new.plan[i][2] \in CallsOf(r.op)
      <4> SUFFICES ASSUME NEW i \in 1 .. Len(r.plan) - 1
                   PROVE  r.plan[i + 1][1] \in Slots /\ r.plan[i + 1][2] \in CallsOf(r.op)
        BY <1>3, <1>6
      <4>1. i + 1 \in DOMAIN r.plan
        BY <1>3
      <4> QED
        BY <1>2, <4>1 DEF Shaped
    <3>2. taken \cup lost \subseteq Slots
      BY <1>2, <1>4 DEF taken, lost, Shaped
    <3>3. backend = "fs" => lost = {}
      BY <1>2, <1>4 DEF lost, Shaped, FsUp
    <3> QED
      BY <1>2, <1>6, <1>7, <1>8, <2>2, <3>1, <3>2, <3>3 DEF Shaped
  <2> QED
    BY <2>1, <2>2
<1>15. Overlaps'
  BY <1>6, <1>8, <1>9 DEF Overlaps, r
<1>16. Progress'
  <2> SUFFICES ASSUME NEW e \in Clients, NEW t \in Things, Touches(e, t), t \notin req'[e].clash
               PROVE  Carried(req'[e], t, disk') /\ PutTaken(req'[e], t, disk')
    BY <1>1, <1>9 DEF Progress, Carried, PutTaken, Slots
  <2>1. CASE e # c
    <3>1. Carried(req[e], t, disk) /\ PutTaken(req[e], t, disk) /\ req'[e] = req[e]
      BY <1>8, <2>1 DEF Progress
    <3>2. ~Touches(c, t)
      BY <2>1, <3>1 DEF Overlaps
    <3>3. \A x \in 1 .. N : Value(disk'[x], t) = Value(disk[x], t)
      BY <1>11, <1>12, <3>2
    <3>4. req[e].took \subseteq 1 .. N
      BY DEF Types, Request
    <3> QED
      BY <3>1, <3>3, <3>4, SlotsFacts DEF Carried, PutTaken
  <2>2. CASE e = c
    <3>1. Carried(r, t, disk) /\ PutTaken(r, t, disk)
      BY <1>6, <1>8, <2>2 DEF Progress, r
    <3>2. \A x \in 1 .. N : \A z : ToCall(r.plan, x, z) /\ ~(x = d /\ z = call) => ToCall(Tail(r.plan), x, z)
      <4> SUFFICES ASSUME NEW x \in 1 .. N, NEW z, NEW i \in DOMAIN r.plan, r.plan[i] = <<x, z>>,
                          ~(x = d /\ z = call)
                   PROVE  ToCall(Tail(r.plan), x, z)
        BY DEF ToCall
      <4>1. i # 1
        BY <1>4
      <4>2. i - 1 \in 1 .. Len(r.plan) - 1 /\ (i - 1) + 1 = i
        BY <1>3, <4>1
      <4> QED
        BY <1>3, <4>2 DEF ToCall
    <3>3. Made(new) = Made(r)
      BY <1>6 DEF Made
    <3>4. Carried(new, t, disk')
      <4> SUFFICES ASSUME NEW x \in Slots \ lost
                   PROVE  ToCall(Tail(r.plan), x, CallFor(r.op, t)) \/ Value(disk'[x], t) = Made(r)
        BY <1>6, <3>3 DEF Carried
      <4>1. x \in 1 .. N /\ x \notin r.missed /\ (x = d => d \in up)
        BY SlotsFacts DEF lost
      <4>2. ToCall(r.plan, x, CallFor(r.op, t)) \/ Value(disk[x], t) = Made(r)
        BY <3>1, <4>1 DEF Carried
      <4>3. CASE x = d /\ call = CallFor(r.op, t)
        BY <1>11, <1>12, <2>2, <4>1, <4>3
      <4>4. CASE x = d /\ call # CallFor(r.op, t)
        BY <1>11, <1>12, <2>2, <3>2, <4>1, <4>2, <4>4
      <4>5. CASE x # d
        BY <1>11, <3>2, <4>1, <4>2, <4>5
      <4> QED
        BY <4>3, <4>4, <4>5
    <3>5. PutTaken(new, t, disk')
      <4> SUFFICES ASSUME r.op = "put", NEW x \in taken PROVE Value(disk'[x], t) = 1
        BY <1>6 DEF PutTaken
      <4>1. call = "shard" /\ CallFor(r.op, t) = "shard" /\ Made(r) = 1
        BY <1>4 DEF CallsOf, CallFor, Made
      <4>2. x \in 1 .. N
        BY <1>5
      <4>3. CASE x = d /\ d \in up
        BY <1>11, <1>12, <2>2, <4>1, <4>2, <4>3
      <4>4. CASE ~(x = d /\ d \in up)
        <5>1. x \in r.took
          BY <4>4 DEF taken
        <5> QED
          BY <1>11, <3>1, <4>2, <4>4, <5>1 DEF PutTaken
      <4> QED
        BY <4>3, <4>4
    <3> QED
      BY <1>8, <2>2, <3>4, <3>5
  <2> QED
    BY <2>1, <2>2
<1>17. Held'
  <2> SUFFICES ASSUME NEW t \in Things \ {"object"}, t \notin torn, NEW x \in Slots \ stale[t],
                      \A e \in Clients : Touches(e, t) => x \notin req'[e].took
               PROVE  Value(disk'[x], t) = truth[t]
    BY <1>1, <1>9 DEF Held, Slots
  <2>1. x \in 1 .. N
    BY SlotsFacts
  <2>2. \A e \in Clients : Touches(e, t) => x \notin req[e].took
    BY <1>6, <1>8 DEF taken, r
  <2>3. Value(disk[x], t) = truth[t]
    BY <2>2 DEF Held
  <2>4. CASE Touches(c, t)
    <3>1. ~(x = d /\ d \in up)
      BY <1>6, <1>8, <2>4 DEF taken
    <3> QED
      BY <1>11, <2>1, <2>3, <3>1
  <2>5. CASE ~Touches(c, t)
    BY <1>11, <1>12, <2>1, <2>3, <2>5
  <2> QED
    BY <2>4, <2>5
<1> QED
  BY <1>13, <1>14, <1>15, <1>16, <1>17

-----------------------------------------------------------------------------
(* Requests end.                                                            *)

\* A client without a request touches nothing; the others go on.
LEMMA Leaves ==
  ASSUME IInv, NEW c \in Clients, req' = [req EXCEPT ![c] = Idle], UNCHANGED backend
  PROVE  /\ req' \in [Clients -> Request] /\ (\A e \in Clients : Shaped(req[e])') /\ Overlaps'
         /\ \A e \in Clients : e # c => req'[e] = req[e]
         /\ \A t \in Things : ~Touches(c, t)' /\ \A e \in Clients : e # c => (Touches(e, t)' <=> Touches(e, t))
<1> USE DEF IInv
<1>1. req' \in [Clients -> Request] /\ \A e \in Clients : req'[e] = IF e = c THEN Idle ELSE req[e]
  BY IdleFacts DEF Types
<1>2. \A t \in Things : ~Touches(c, t)' /\ \A e \in Clients : e # c => (Touches(e, t)' <=> Touches(e, t))
  BY <1>1, IdleFacts DEF Touches
<1>3. \A e \in Clients : Shaped(req[e])'
  <2> SUFFICES ASSUME NEW e \in Clients PROVE Shaped(req'[e])
    BY DEF Shaped, Slots
  <2> QED
    BY <1>1, IdleFacts
<1>4. Overlaps'
  BY <1>1, <1>2 DEF Overlaps
<1> QED
  BY <1>1, <1>2, <1>3, <1>4

\* A request that fails or is cut off: what it has begun is torn.
LEMMA Ended ==
  ASSUME IInv, NEW c \in Clients, req' = [req EXCEPT ![c] = Idle],
         UNCHANGED <<backend, up, truth, stale>>,
         torn' = IF req[c].took # {} THEN torn \cup Affects(req[c].op, req[c].kind) ELSE torn,
         disk' \in [1 .. N -> Drive], req[c].op # "put" => disk' = disk,
         \A x \in 1 .. N : \A t \in Things \ {"object"} : Value(disk'[x], t) = Value(disk[x], t)
  PROVE  IInv'
<1> USE DEF IInv
<1>1. /\ req' \in [Clients -> Request] /\ (\A e \in Clients : Shaped(req[e])') /\ Overlaps'
      /\ \A e \in Clients : e # c => req'[e] = req[e]
      /\ \A t \in Things : ~Touches(c, t)' /\ \A e \in Clients : e # c => (Touches(e, t)' <=> Touches(e, t))
  BY Leaves
<1>2. Affects(req[c].op, req[c].kind) \subseteq Things
  <2>1. req[c].op \in {"set", "unset"} => req[c].kind \in Kinds
    BY DEF Shaped
  <2> QED
    BY <2>1, KindsFacts DEF Affects
<1>3. Types' /\ FsUp'
  BY <1>1, <1>2 DEF Types, FsUp
<1>4. Progress'
  <2> SUFFICES ASSUME NEW e \in Clients, NEW t \in Things, Touches(e, t)', t \notin req'[e].clash
               PROVE  Carried(req'[e], t, disk') /\ PutTaken(req'[e], t, disk')
    BY DEF Progress, Carried, PutTaken, Slots
  <2>1. e # c /\ req'[e] = req[e] /\ Touches(e, t)
    BY <1>1
  <2>2. Carried(req[e], t, disk) /\ PutTaken(req[e], t, disk) /\ ~Touches(c, t)
    BY <2>1 DEF Progress, Overlaps
  <2>3. \A x \in 1 .. N : Value(disk'[x], t) = Value(disk[x], t)
    <3>1. CASE t = "object"
      <4>1. req[c].op # "put"
        BY <2>2, <3>1 DEF Touches, Affects
      <4> QED
        BY <4>1
    <3>2. CASE t # "object"
      BY <3>2
    <3> QED
      BY <3>1, <3>2
  <2>4. req[e].took \subseteq 1 .. N
    BY DEF Types, Request
  <2> QED
    BY <2>1, <2>2, <2>3, <2>4, SlotsFacts DEF Carried, PutTaken
<1>5. Held'
  <2> SUFFICES ASSUME NEW t \in Things \ {"object"}, t \notin torn', NEW x \in Slots \ stale[t],
                      \A e \in Clients : Touches(e, t)' => x \notin req'[e].took
               PROVE  Value(disk'[x], t) = truth[t]
    BY DEF Held, Slots
  <2>1. x \in 1 .. N /\ t \notin torn
    BY SlotsFacts
  <2>2. Touches(c, t) => req[c].took = {}
    BY DEF Touches
  <2>3. \A e \in Clients : Touches(e, t) => x \notin req[e].took
    BY <1>1, <2>2
  <2>4. Value(disk[x], t) = truth[t]
    BY <2>1, <2>3 DEF Held
  <2> QED
    BY <2>1, <2>4
<1> QED
  BY <1>1, <1>3, <1>4, <1>5

LEMMA StepCancel == ASSUME IInv, NEW c \in Clients, Cancel(c) PROVE IInv'
<1>1. disk' = disk /\ disk \in [1 .. N -> Drive]
  BY DEF Cancel, IInv, Types
<1> QED
  BY <1>1, Ended DEF Cancel

LEMMA StepAnswer == ASSUME IInv, NEW c \in Clients, Answer(c) PROVE IInv'
<1> USE DEF IInv
<1> DEFINE r == req[c]
           affected == Affects(r.op, r.kind)
<1>1. /\ r.op # "idle" /\ r.plan = <<>> /\ req' = [req EXCEPT ![c] = Idle]
      /\ UNCHANGED <<backend, up>>
  BY DEF Answer
<1>2. r \in Request /\ Shaped(r)
  BY DEF Types
<1>3. CASE ~Enough(r)
  <2>1. /\ UNCHANGED <<truth, stale>>
        /\ torn' = IF r.took # {} THEN torn \cup affected ELSE torn
        /\ disk' = IF r.op = "put"
                   THEN [d \in 1 .. N |-> IF d \in up THEN [disk[d] EXCEPT !.object = FALSE] ELSE disk[d]]
                   ELSE disk
    BY <1>3 DEF Answer
  <2>2. \A d \in 1 .. N : LET y == [disk[d] EXCEPT !.object = FALSE]
                          IN y \in Drive /\ y.dir = disk[d].dir /\ y.cfg = disk[d].cfg
    BY DEF Types, Drive
  <2>3. disk \in [1 .. N -> Drive]
    BY DEF Types
  <2>4. disk' \in [1 .. N -> Drive]
    BY <2>1, <2>2, <2>3
  <2>5. \A d \in 1 .. N : disk'[d].dir = disk[d].dir /\ disk'[d].cfg = disk[d].cfg
    BY <2>1, <2>2
  <2>6. \A x \in 1 .. N : \A t \in Things \ {"object"} : Value(disk'[x], t) = Value(disk[x], t)
    BY <2>5 DEF Value
  <2> QED
    BY <1>1, <2>1, <2>4, <2>6, Ended
<1>4. CASE Enough(r)
  <2>1. /\ truth' = Outcome(r) /\ disk' = disk
        /\ stale' = [t \in Things |->
                       IF t \notin affected THEN stale[t]
                       ELSE IF r.op = "put" /\ t = "dir" /\ truth[t] = 1 THEN stale[t] \ r.took
                       ELSE r.missed]
        /\ torn' = (torn \ (IF r.op = "put" THEN {"object"} ELSE affected)) \cup r.clash
    BY <1>4 DEF Answer
  <2>2. /\ req' \in [Clients -> Request] /\ (\A e \in Clients : Shaped(req[e])') /\ Overlaps'
        /\ \A e \in Clients : e # c => req'[e] = req[e]
        /\ \A t \in Things : ~Touches(c, t)' /\ \A e \in Clients : e # c => (Touches(e, t)' <=> Touches(e, t))
    BY <1>1, Leaves
  <2>3. /\ truth' \in [Things -> Docs]
        /\ \A t \in Things : t \notin affected => truth'[t] = truth[t]
        /\ \A t \in Things \ {"object"} : t \in affected => truth'[t] = Made(r)
    <3>1. \A t \in Things :
            truth'[t] = IF t \notin affected THEN truth[t]
                        ELSE CASE r.op \in {"set", "unset"} -> r.doc
                               [] r.op \in {"create", "put"} -> 1
                               [] OTHER -> IF t = "object" /\ t \notin torn \cup r.clash THEN truth[t] ELSE 0
      BY <2>1 DEF Outcome
    <3>2. \A t \in Things : t \notin affected => truth'[t] = truth[t]
      BY <3>1
    <3>3. \A t \in Things : t \in affected =>
            truth'[t] = IF r.op \in {"set", "unset"} THEN r.doc
                        ELSE IF r.op \in {"create", "put"} THEN 1
                        ELSE IF t = "object" /\ t \notin torn \cup r.clash THEN truth[t] ELSE 0
      BY <3>1
    <3>4. r.doc \in Docs /\ truth \in [Things -> Docs]
      BY <1>2 DEF Types, Request
    <3>5. \A t \in Things : truth'[t] \in Docs
      BY <3>2, <3>3, <3>4, DocsFacts
    <3>6. truth' \in [Things -> Docs]
      BY <2>1, <3>5 DEF Outcome
    <3>7. \A t \in Things \ {"object"} : t \in affected => truth'[t] = Made(r)
      BY <1>1, <1>2, <3>3 DEF Made, Request
    <3> QED
      BY <3>2, <3>6, <3>7
  <2>4. /\ stale' \in [Things -> SUBSET (1 .. N)]
        /\ \A t \in Things : t \notin affected => stale'[t] = stale[t]
        /\ \A t \in Things : t \in affected =>
             stale'[t] = IF r.op = "put" /\ t = "dir" /\ truth[t] = 1 THEN stale[t] \ r.took ELSE r.missed
    <3>1. \A t \in Things :
            stale'[t] = IF t \notin affected THEN stale[t]
                        ELSE IF r.op = "put" /\ t = "dir" /\ truth[t] = 1 THEN stale[t] \ r.took
                        ELSE r.missed
      BY <2>1
    <3>2. r.missed \in SUBSET (1 .. N) /\ \A t \in Things : stale[t] \in SUBSET (1 .. N)
      BY <1>2 DEF Types, Request
    <3>3. \A t \in Things : t \notin affected => stale'[t] = stale[t]
      BY <3>1
    <3>4. \A t \in Things : t \in affected =>
            stale'[t] = IF r.op = "put" /\ t = "dir" /\ truth[t] = 1 THEN stale[t] \ r.took ELSE r.missed
      BY <3>1
    <3>5. \A t \in Things : stale'[t] \in SUBSET (1 .. N)
      BY <3>2, <3>3, <3>4
    <3> QED
      BY <2>1, <3>3, <3>4, <3>5
  <2>5. torn' \in SUBSET Things
    BY <1>2, <2>1 DEF Types, Request
  <2>6. Types' /\ FsUp'
    BY <1>1, <2>1, <2>2, <2>3, <2>4, <2>5 DEF Types, FsUp
  <2>7. Progress'
    <3> SUFFICES ASSUME NEW e \in Clients, NEW t \in Things, Touches(e, t)', t \notin req'[e].clash
                 PROVE  Carried(req'[e], t, disk) /\ PutTaken(req'[e], t, disk)
      BY <1>1, <2>1 DEF Progress, Carried, PutTaken, Slots
    <3> QED
      BY <2>2 DEF Progress
  <2>8. Held'
    <3> SUFFICES ASSUME NEW t \in Things \ {"object"}, t \notin torn', NEW x \in Slots \ stale'[t],
                        \A e \in Clients : Touches(e, t)' => x \notin req'[e].took
                 PROVE  Value(disk[x], t) = truth'[t]
      BY <1>1, <2>1 DEF Held, Slots
    <3>1. CASE t \notin affected
      <4>1. t \notin torn
        BY <2>1, <3>1
      <4>2. \A e \in Clients : Touches(e, t) => x \notin req[e].took
        BY <2>2, <3>1 DEF Touches
      <4>3. Value(disk[x], t) = truth[t]
        BY <2>4, <3>1, <4>1, <4>2 DEF Held
      <4> QED
        BY <2>3, <3>1, <4>3
    <3>2. CASE t \in affected
      <4>1. t \notin r.clash /\ Touches(c, t)
        BY <2>1, <3>2 DEF Touches
      <4>2. Carried(r, t, disk) /\ PutTaken(r, t, disk)
        BY <4>1 DEF Progress
      <4>3. \A d, z : ~ToCall(r.plan, d, z)
        BY <1>1 DEF ToCall
      <4>4. \A d \in Slots \ r.missed : Value(disk[d], t) = Made(r)
        BY <4>2, <4>3 DEF Carried
      <4>5. truth'[t] = Made(r)
        BY <2>3, <3>2
      <4>6. CASE r.op = "put" /\ t = "dir" /\ truth[t] = 1
        <5>1. Made(r) = 1
          BY <4>6 DEF Made
        <5>2. CASE x \in r.took
          BY <4>2, <4>5, <4>6, <5>1, <5>2 DEF PutTaken
        <5>3. CASE x \notin r.took
          <6>1. t \notin torn /\ x \notin stale[t]
            BY <2>1, <2>4, <3>2, <4>6, <5>3
          <6>2. \A e \in Clients : Touches(e, t) => x \notin req[e].took
            BY <4>1, <5>3 DEF Overlaps
          <6>3. Value(disk[x], t) = truth[t]
            BY <6>1, <6>2 DEF Held
          <6> QED
            BY <4>5, <4>6, <5>1, <6>3
        <5> QED
          BY <5>2, <5>3
      <4>7. CASE ~(r.op = "put" /\ t = "dir" /\ truth[t] = 1)
        <5>1. x \in Slots \ r.missed
          BY <2>4, <3>2, <4>7
        <5> QED
          BY <4>4, <4>5, <5>1
      <4> QED
        BY <4>6, <4>7
    <3> QED
      BY <3>1, <3>2
  <2> QED
    BY <2>2, <2>6, <2>7, <2>8
<1> QED
  BY <1>3, <1>4

-----------------------------------------------------------------------------
LEMMA InitIInv == Init => IInv
<1> SUFFICES ASSUME Init PROVE IInv
  OBVIOUS
<1>1. \A c \in Clients : req[c] = Idle
  BY DEF Init
<1>2. Types
  <2>1. Blank \in Drive
    BY DocsFacts DEF Blank, Drive
  <2> QED
    BY <2>1, IdleFacts, DocsFacts DEF Init, Types
<1>3. \A c \in Clients : \A t \in Things : ~Touches(c, t)
  BY <1>1, IdleFacts DEF Touches
<1>4. Held
  <2> SUFFICES ASSUME NEW t \in Things \ {"object"}, NEW d \in 1 .. N PROVE Value(disk[d], t) = truth[t]
    BY SlotsFacts DEF Held
  <2>1. disk[d] = Blank /\ truth[t] = 0
    BY DEF Init
  <2>2. ~Blank.dir /\ \A k \in Kinds : Blank.cfg[k] = 0
    BY DEF Blank
  <2> QED
    BY <2>1, <2>2, KindsFacts DEF Value
<1> QED
  BY <1>1, <1>2, <1>3, <1>4, IdleFacts DEF IInv, FsUp, Overlaps, Progress, Init

LEMMA StepDrives ==
  ASSUME IInv, NEW d \in 1 .. N, DriveDown(d) \/ DriveUp(d)
  PROVE  IInv'
<1>1. /\ UNCHANGED <<backend, disk, req, truth, stale, torn>>
      /\ up' \in SUBSET (1 .. N) /\ (backend = "fs" => up' = 1 .. N)
  BY DEF DriveDown, DriveUp, IInv, Types, FsUp
<1> QED
  BY <1>1 DEF IInv, Types, FsUp, Shaped, Slots, Overlaps, Progress, Held, Touches, Carried, PutTaken

\* Some drive answers first.
LEMMA FirstAnswers == ASSUME NEW A \in (SUBSET (1 .. N)) \ {{}} PROVE First(A) \in A
<1>1. \E d \in A : \A e \in A : d <= e
  <2>1. A \subseteq Nat /\ A # {}
    OBVIOUS
  <2>2. PICK d \in A : \A e \in A : ~(<<e, d>> \in OpToRel(<, Nat))
    BY <2>1, NatLessThanWellFounded, WFMin, Zenon
  <2>3. \A e \in A : ~(e < d)
    <3>1. ASSUME NEW e \in A, e < d PROVE <<e, d>> \in OpToRel(<, Nat)
      BY <2>1, <3>1, Zenon DEF OpToRel
    <3> QED
      BY <2>2, <3>1, Zenon
  <2> QED
    BY <2>1, <2>3
<1> QED
  BY <1>1 DEF First

\* What an operation affects are things.
LEMMA AffectsThings ==
  ASSUME NEW o, NEW kind, o \in {"set", "unset"} => kind \in Kinds
  PROVE  Affects(o, kind) \subseteq Things
BY KindsFacts DEF Affects

\* Looks learn of a request that begins, and stay what they are otherwise.
LEMMA AdmitLooks ==
  ASSUME LookTypes, UNCHANGED backend, NEW c \in Clients, NEW o, NEW kind, NEW doc,
         Affects(o, kind) \subseteq Things, Admit(c, o, kind, doc)
  PROVE  /\ LookTypes'
         /\ \A e \in Clients : Looking(e)' =>
              /\ e # c /\ Looking(e)
              /\ look'[e].phase = look[e].phase /\ look'[e].left = look[e].left
              /\ look'[e].saw = look[e].saw /\ look'[e].blind = look[e].blind
              /\ look'[e].met = look[e].met \cup Affects(o, kind)
<1> DEFINE new(e) == [look[e] EXCEPT !.met = look[e].met \cup Affects(o, kind)]
<1>1. look' = [e \in Clients |-> IF e = c \/ look[e].phase = "none" THEN NoLook ELSE new(e)]
  BY DEF Admit
<1>2. NoLook \in Looks /\ NoLook.phase = "none"
  BY DEF NoLook, Looks
<1>3. ASSUME NEW e \in Clients
      PROVE  /\ new(e) \in Looks /\ new(e).phase = look[e].phase /\ new(e).left = look[e].left
             /\ new(e).saw = look[e].saw /\ new(e).blind = look[e].blind
             /\ new(e).met = look[e].met \cup Affects(o, kind)
  BY DEF LookTypes, Looks
<1> HIDE DEF new
<1>4. \A e \in Clients : look'[e] = IF e = c \/ look[e].phase = "none" THEN NoLook ELSE new(e)
  BY <1>1
<1>5. look' \in [Clients -> Looks]
  BY <1>1, <1>2, <1>3, <1>4
<1>6. LookTypes'
  BY <1>2, <1>3, <1>4, <1>5 DEF LookTypes
<1> QED
  BY <1>2, <1>3, <1>4, <1>6 DEF Looking

\* What one look does.
LEMMA LookFacts ==
  ASSUME LookTypes, NEW c \in Clients, Look(c)
  PROVE  LET l == look[c]
             d == First(l.left) IN
         /\ LookTypes' /\ UNCHANGED <<backend, up, disk, req, truth, stale, torn>>
         /\ Looking(c) /\ d \in l.left
         /\ \A e \in Clients : e # c => look'[e] = look[e]
         /\ \/ ~Looking(c)'
            \/ /\ ~ (l.phase = "load" /\ Shows(d))
               /\ look'[c].phase = l.phase /\ look'[c].left = l.left \ {d}
               /\ look'[c].saw = (l.saw \/ Shows(d)) /\ look'[c].met = l.met
               /\ look'[c].blind = IF d \in up THEN l.blind ELSE l.blind \cup {d}
<1> DEFINE l == look[c]
           d == First(l.left)
           saw == l.saw \/ Shows(d)
           blind == IF d \in up THEN l.blind ELSE l.blind \cup {d}
           next == [l EXCEPT !.left = l.left \ {d}, !.saw = saw, !.blind = blind]
<1>1. l \in Looks /\ l.left \subseteq 1 .. N /\ l.left # {} /\ Looking(c)
  BY DEF Look, LookTypes, Looks, Looking
<1>2. d \in l.left
  BY <1>1, FirstAnswers
<1>3. saw \in BOOLEAN /\ blind \subseteq 1 .. N
  BY <1>1, <1>2 DEF Looks
<1>4. /\ UNCHANGED <<backend, up, disk, req, truth, stale, torn>>
      /\ look' = [look EXCEPT ![c] = IF l.phase = "load" /\ Shows(d) THEN NoLook ELSE next]
  BY DEF Look
<1> HIDE DEF d, saw, blind
<1>5. /\ next \in Looks /\ next.phase = l.phase /\ next.left = l.left \ {d}
      /\ next.saw = saw /\ next.met = l.met /\ next.blind = blind
  BY <1>1, <1>3 DEF Looks
<1> HIDE DEF next
<1>6. NoLook \in Looks /\ NoLook.phase = "none"
  BY DEF NoLook, Looks
<1>7. /\ look'[c] = IF l.phase = "load" /\ Shows(d) THEN NoLook ELSE next
      /\ \A e \in Clients : e # c => look'[e] = look[e]
      /\ look' \in [Clients -> Looks]
  BY <1>4, <1>5, <1>6 DEF LookTypes
<1>8. LookTypes'
  <2> SUFFICES ASSUME NEW e \in Clients, look'[e].phase # "none" PROVE backend # "fs"
    BY <1>4, <1>7 DEF LookTypes
  <2> QED
    BY <1>1, <1>7 DEF LookTypes, Looking
<1>9. ~Looking(c)' \/ (~ (l.phase = "load" /\ Shows(d)) /\ look'[c] = next)
  BY <1>6, <1>7 DEF Looking
<1> QED
  BY <1>1, <1>2, <1>4, <1>5, <1>7, <1>8, <1>9 DEF d, saw, blind

\* What the beginning of a look does.
LEMMA BeginLookFacts ==
  ASSUME IInv, LookTypes, NEW c \in Clients, BeginLook(c), backend = "erasure"
  PROVE  /\ LookTypes' /\ UNCHANGED <<backend, up, disk, req, truth, stale, torn>>
         /\ \A e \in Clients : e # c => look'[e] = look[e]
         /\ Looking(c)' => /\ look'[c].left = 1 .. N
                           /\ \A e \in Clients : Affects(req[e].op, req[e].kind) \subseteq look'[c].met
<1> DEFINE met == UNION {Affects(req[e].op, req[e].kind) : e \in Clients}
           new == [NoLook EXCEPT !.phase = "walk", !.left = 1 .. N, !.met = met]
<1>1. /\ UNCHANGED <<backend, up, disk, req, truth, stale, torn>> /\ look[c].phase = "none"
      /\ UNCHANGED look \/ look' = [look EXCEPT ![c] = new]
  BY DEF BeginLook, NewRequest
<1>2. /\ met \subseteq Things
      /\ \A e \in Clients : Affects(req[e].op, req[e].kind) \subseteq met
  <2>1. \A e \in Clients : Affects(req[e].op, req[e].kind) \subseteq Things
    BY AffectsThings DEF IInv, Shaped
  <2> QED
    BY <2>1
<1> HIDE DEF met
<1>3. new \in Looks /\ new.left = 1 .. N /\ new.met = met
  BY <1>2 DEF NoLook, Looks
<1> HIDE DEF new
<1>4. CASE UNCHANGED look
  BY <1>1, <1>4 DEF LookTypes, Looking
<1>5. CASE look' = [look EXCEPT ![c] = new]
  <2>1. /\ look'[c] = new /\ look' \in [Clients -> Looks]
        /\ \A e \in Clients : e # c => look'[e] = look[e]
    BY <1>3, <1>5 DEF LookTypes
  <2>2. LookTypes'
    BY <1>1, <2>1 DEF LookTypes
  <2> QED
    BY <1>1, <1>2, <1>3, <2>1, <2>2
<1> QED
  BY <1>1, <1>4, <1>5

\* The drives have all been looked at.
LEMMA LookedFacts ==
  ASSUME LookTypes, NEW c \in Clients, Looked(c)
  PROVE  /\ LookTypes' /\ UNCHANGED <<backend, up, disk, truth, stale>>
         /\ Looking(c) /\ look[c].left = {} /\ look[c].met \subseteq Things
         /\ \/ /\ UNCHANGED <<req, torn>> /\ look'[c].left = 1 .. N /\ look'[c].met = look[c].met
               /\ \A e \in Clients : e # c => look'[e] = look[e]
            \/ /\ Admit(c, "delete", "dir", 0) /\ torn' = torn \cup look[c].met
               /\ ~ (look[c].phase = "walk" /\ look[c].saw)
<1>1. UNCHANGED <<backend, up, disk, truth, stale>> /\ Looking(c) /\ look[c].left = {}
  BY DEF Looked, Looking
<1>2. look[c] \in Looks /\ look[c].met \subseteq Things
  BY DEF LookTypes, Looks
<1>3. CASE look[c].phase = "walk" /\ look[c].saw
  <2> DEFINE new == [look[c] EXCEPT !.phase = "load", !.left = 1 .. N]
  <2>1. UNCHANGED <<req, torn>> /\ look' = [look EXCEPT ![c].phase = "load", ![c].left = 1 .. N]
    BY <1>3 DEF Looked
  <2>2. look' = [look EXCEPT ![c] = new]
    BY <2>1 DEF LookTypes
  <2>3. new \in Looks /\ new.left = 1 .. N /\ new.met = look[c].met
    BY <1>2 DEF Looks
  <2> HIDE DEF new
  <2>4. /\ look'[c] = new /\ look' \in [Clients -> Looks]
        /\ \A e \in Clients : e # c => look'[e] = look[e]
    BY <2>2, <2>3 DEF LookTypes
  <2>5. LookTypes'
    BY <1>1, <1>3, <2>4 DEF LookTypes, Looking
  <2> QED
    BY <1>1, <1>2, <2>1, <2>3, <2>4, <2>5
<1>4. CASE ~ (look[c].phase = "walk" /\ look[c].saw)
  <2>1. Admit(c, "delete", "dir", 0) /\ torn' = torn \cup look[c].met
    BY <1>4 DEF Looked
  <2>2. LookTypes'
    BY <1>1, <2>1, AdmitLooks, AffectsThings
  <2> QED
    BY <1>1, <1>2, <1>4, <2>1, <2>2
<1> QED
  BY <1>3, <1>4

LEMMA StepLookTypes == IInv /\ LookTypes /\ [Next]_vars => LookTypes'
<1> SUFFICES ASSUME IInv, LookTypes, [Next]_vars PROVE LookTypes'
  OBVIOUS
<1>0. ASSUME UNCHANGED <<backend, look>> PROVE LookTypes'
  BY <1>0 DEF LookTypes
<1>1. ASSUME NEW c \in Clients, NEW o, NEW kind, NEW doc,
             o \in {"set", "unset"} => kind \in Kinds, Arrive(c, o, kind, doc)
      PROVE  LookTypes'
  <2>1. Affects(o, kind) \subseteq Things /\ UNCHANGED backend
    BY <1>1, AffectsThings DEF Arrive, NewRequest
  <2>2. UNCHANGED look \/ Admit(c, o, kind, doc)
    BY <1>1 DEF Arrive
  <2> QED
    BY <1>0, <2>1, <2>2, AdmitLooks
<1>2. ASSUME NEW c \in Clients, PutRequest(c) PROVE LookTypes'
  <2>1. PICK query \in Kinds \cup {"", "object-lock"}, body \in {"malformed", "empty", "first", "second"} :
          IF query \in Kinds THEN Arrive(c, PutOp(query), query, Stored(query, body))
          ELSE Arrive(c, PutOp(query), "dir", 0)
    BY <1>2 DEF PutRequest
  <2>2. query \notin Kinds => PutOp(query) \in {"none", "create"}
    BY DEF PutOp
  <2> QED
    BY <1>1, <2>1, <2>2
<1>3. ASSUME NEW c \in Clients, DeleteRequest(c) PROVE LookTypes'
  <2>1. PICK query \in Kinds \cup {"", "object-lock"} :
          IF DeleteOp(query) = "delete" /\ backend = "erasure" THEN BeginLook(c)
          ELSE Arrive(c, DeleteOp(query), IF DeleteOp(query) = "unset" THEN query ELSE "dir", 0)
    BY <1>3 DEF DeleteRequest
  <2>2. \/ query \in Kinds /\ DeleteOp(query) = "unset"
        \/ DeleteOp(query) = "delete"
    BY DEF DeleteOp
  <2>3. DeleteOp(query) = "delete" => DeleteOp(query) \notin {"set", "unset"}
    OBVIOUS
  <2> QED
    BY <1>1, <2>1, <2>2, <2>3, BeginLookFacts
<1>4. ASSUME NEW c \in Clients, PutObject(c) PROVE LookTypes'
  BY <1>1, <1>4 DEF PutObject
<1>5. ASSUME NEW c \in Clients, Call(c) \/ Answer(c) PROVE LookTypes'
  BY <1>0, <1>5 DEF Call, Answer
<1>6. ASSUME NEW c \in Clients, Cancel(c) PROVE LookTypes'
  <2>1. UNCHANGED backend /\ look' = [look EXCEPT ![c] = NoLook]
    BY <1>6 DEF Cancel
  <2>2. NoLook \in Looks /\ NoLook.phase = "none"
    BY DEF NoLook, Looks
  <2>3. /\ look'[c] = NoLook /\ look' \in [Clients -> Looks]
        /\ \A e \in Clients : e # c => look'[e] = look[e]
    BY <2>1, <2>2 DEF LookTypes
  <2> QED
    BY <2>1, <2>2, <2>3 DEF LookTypes
<1>7. ASSUME NEW d \in 1 .. N, DriveDown(d) \/ DriveUp(d) PROVE LookTypes'
  BY <1>0, <1>7 DEF DriveDown, DriveUp
<1>8. CASE UNCHANGED vars
  BY <1>0, <1>8 DEF vars
<1> QED
  BY <1>2, <1>3, <1>4, <1>5, <1>6, <1>7, <1>8, LookFacts, LookedFacts DEF Next

LEMMA StepIInv == IInv /\ LookTypes /\ [Next]_vars => IInv'
<1> SUFFICES ASSUME IInv, LookTypes, [Next]_vars PROVE IInv'
  OBVIOUS
<1>1. ASSUME NEW c \in Clients,
             \/ PutRequest(c) \/ DeleteRequest(c) \/ PutObject(c) \/ Look(c) \/ Looked(c)
             \/ Call(c) \/ Answer(c) \/ Cancel(c)
      PROVE  IInv'
  BY <1>1, StepPutRequest, StepDeleteRequest, StepPutObject, StepLook, StepCall, StepAnswer, StepCancel
<1>2. ASSUME NEW d \in 1 .. N, DriveDown(d) \/ DriveUp(d) PROVE IInv'
  BY <1>2, StepDrives
<1>3. CASE UNCHANGED vars
  BY <1>3, StepElse DEF vars
<1> QED
  BY <1>1, <1>2, <1>3 DEF Next

\* The inductive invariant holds throughout.
THEOREM Invariance == Spec => [](IInv /\ LookTypes)
<1>1. Init => LookTypes
  BY DEF Init, LookTypes, Looks, NoLook
<1> QED
  BY <1>1, InitIInv, StepIInv, StepLookTypes, PTL DEF Spec

\* The drives' contents, the acknowledged state and the drives that missed it
\* have their types, and a request reaches drives of its store only.
THEOREM TypeCorrect == Spec => []TypeOK
<1>1. IInv /\ LookTypes => TypeOK
  BY DEF IInv, Types, Shaped, Drive, LookTypes, Looks, TypeOK
<1> QED
  BY <1>1, Invariance, PTL

-----------------------------------------------------------------------------
(* What the drives that answer agree on.                                    *)

\* A settled thing is as acknowledged on every drive that took it.
LEMMA SettledHeld ==
  ASSUME IInv, NEW t \in Things \ {"object"}, Settled(t), NEW d \in Slots \ stale[t]
  PROVE  Value(disk[d], t) = truth[t]
BY DEF IInv, Held, Settled, Touches

\* Among drives that hold the last write or nothing, the first that has the
\* document has the last write.
LEMMA ReadAnyIs ==
  ASSUME Types, NEW A \in (SUBSET (1 .. N)) \ {{}}, NEW k \in Kinds, NEW v \in Docs,
         \A d \in A : disk[d].cfg[k] \in {0, v}, \E d \in A : disk[d].cfg[k] = v
  PROVE  ReadAny(A, k) = v
<1> DEFINE having == {d \in A : disk[d].cfg[k] # 0}
<1>1. CASE having = {}
  BY <1>1 DEF ReadAny
<1>2. CASE having # {}
  <2>1. having \in (SUBSET (1 .. N)) \ {{}}
    BY <1>2
  <2> HIDE DEF having
  <2>2. First(having) \in having
    BY <2>1, FirstAnswers
  <2>3. disk[First(having)].cfg[k] = v
    BY <2>2 DEF having
  <2> QED
    BY <1>2, <2>3 DEF ReadAny, having
<1> QED
  BY <1>1, <1>2

\* The highest status is the acknowledged one, when the others are nothing.
LEMMA MostProtectiveIs ==
  ASSUME Types, NEW A \in SUBSET (1 .. N), NEW v \in Docs,
         \A d \in A : disk[d].cfg["versioning"] <= v, \E d \in A : disk[d].cfg["versioning"] = v,
         "versioning" \in Kinds
  PROVE  MostProtective(A) = v
<1> DEFINE ranks == {disk[d].cfg["versioning"] : d \in A}
<1>1. v \in ranks /\ \A s \in ranks : s <= v /\ s \in Docs
  BY DEF Types, Drive
<1> HIDE DEF ranks
<1>2. \A r \in ranks : (\A s \in ranks : s <= r) => r = v
  BY <1>1, DocsFacts
<1>3. (CHOOSE r \in ranks : \A s \in ranks : s <= r) = v
  BY <1>1, <1>2
<1> QED
  BY <1>3 DEF MostProtective, ranks

\* get_bucket_versioning: once versioning was enabled and acknowledged, one
\* answering drive that took it is enough, whatever stale drives report, for any
\* number of drives, requests, faults and interleavings of the calls.
THEOREM StaysVersioned == Spec => []VersioningFailSafe
<1>1. IInv => VersioningFailSafe
  <2> SUFFICES ASSUME IInv, "versioning" \in Kinds, Settled("versioning"), truth["versioning"] = 2,
                      NEW A \in SUBSET Slots, A \ stale["versioning"] # {}
               PROVE  ReadDoc(A, "versioning") = 2
    BY DEF VersioningFailSafe
  <2>1. PICK d \in A : d \in Slots \ stale["versioning"]
    OBVIOUS
  <2>2. disk[d].cfg["versioning"] = 2
    BY <2>1, SettledHeld, KindsFacts DEF Value
  <2>3. CASE backend = "fs"
    <3>1. d = 1
      BY <2>1, <2>3, SlotsFacts
    <3> QED
      BY <2>2, <2>3, <3>1 DEF ReadDoc, ReadFs
  <2>4. CASE backend # "fs"
    <3>1. \A e \in A : disk[e].cfg["versioning"] \in Docs
      BY SlotsFacts DEF IInv, Types, Drive
    <3>2. \A e \in A : disk[e].cfg["versioning"] <= 2
      BY <3>1, DocsFacts
    <3>3. MostProtective(A) = 2
      BY <2>1, <2>2, <3>2, SlotsFacts, MostProtectiveIs, DocsFacts DEF IInv
    <3> QED
      BY <2>4, <3>3 DEF ReadDoc
  <2> QED
    BY <2>3, <2>4
<1> QED
  BY <1>1, Invariance, PTL

\* get_bucket_policy and its siblings return what was acknowledged last whichever
\* drives answer, as long as one of them took it and those that missed it hold no
\* older copy; head_bucket and list_buckets agree with the last change of the
\* bucket that none of the answering drives missed.
THEOREM ReadsAreLast == Spec => []ReadsLastWrite
<1>1. IInv => ReadsLastWrite
  <2> SUFFICES ASSUME IInv, NEW A \in (SUBSET Slots) \ {{}}
               PROVE  /\ \A k \in Kinds :
                           /\ Settled(k) /\ ~(A \subseteq stale[k])
                           /\ \A d \in A \cap stale[k] : disk[d].cfg[k] = 0
                           => ReadDoc(A, k) = truth[k]
                      /\ Settled("dir") /\ A \cap stale["dir"] = {} =>
                           HeadBucket(A) = (truth["dir"] = 1) /\ ListBuckets(A) = (truth["dir"] = 1)
    BY DEF ReadsLastWrite
  <2>1. A \in (SUBSET (1 .. N)) \ {{}}
    BY SlotsFacts
  <2>2. ASSUME NEW k \in Kinds, Settled(k), ~(A \subseteq stale[k]),
               \A d \in A \cap stale[k] : disk[d].cfg[k] = 0
        PROVE  ReadDoc(A, k) = truth[k]
    <3>1. \A d \in A : d \notin stale[k] => disk[d].cfg[k] = truth[k]
      <4> SUFFICES ASSUME NEW d \in A, d \notin stale[k] PROVE disk[d].cfg[k] = truth[k]
        OBVIOUS
      <4> QED
        BY <2>2, SettledHeld, KindsFacts DEF Value
    <3>2. \A d \in A : disk[d].cfg[k] \in {0, truth[k]}
      BY <2>2, <3>1
    <3>3. \E d \in A : disk[d].cfg[k] = truth[k]
      BY <2>2, <3>1
    <3>4. truth[k] \in Docs
      BY KindsFacts DEF IInv, Types
    <3>5. CASE backend = "fs"
      BY <3>3, <3>5, SlotsFacts DEF ReadDoc, ReadFs
    <3>6. CASE backend # "fs" /\ k = "versioning"
      <4>1. \A d \in A : disk[d].cfg["versioning"] <= truth[k]
        BY <3>2, <3>4, <3>6, DocsFacts
      <4>2. MostProtective(A) = truth[k]
        BY <2>1, <3>3, <3>4, <3>6, <4>1, MostProtectiveIs DEF IInv
      <4> QED
        BY <3>6, <4>2 DEF ReadDoc
    <3>7. CASE backend # "fs" /\ k # "versioning"
      BY <2>1, <3>2, <3>3, <3>4, <3>7, ReadAnyIs DEF ReadDoc, IInv
    <3> QED
      BY <3>5, <3>6, <3>7
  <2>3. ASSUME Settled("dir"), A \cap stale["dir"] = {}
        PROVE  HeadBucket(A) = (truth["dir"] = 1) /\ ListBuckets(A) = (truth["dir"] = 1)
    <3>1. \A d \in A : Value(disk[d], "dir") = truth["dir"]
      <4> SUFFICES ASSUME NEW d \in A PROVE Value(disk[d], "dir") = truth["dir"]
        OBVIOUS
      <4> QED
        BY <2>3, SettledHeld, KindsFacts
    <3>2. \A d \in A : disk[d].dir \in BOOLEAN /\ (disk[d].dir <=> truth["dir"] = 1)
      <4> SUFFICES ASSUME NEW d \in A PROVE disk[d].dir \in BOOLEAN /\ (disk[d].dir <=> truth["dir"] = 1)
        OBVIOUS
      <4>1. disk[d].dir \in BOOLEAN
        BY <2>1 DEF IInv, Types, Drive
      <4>2. truth["dir"] = IF disk[d].dir THEN 1 ELSE 0
        BY <3>1 DEF Value
      <4> QED
        BY <4>1, <4>2
    <3>3. First(A) \in A
      BY <2>1, FirstAnswers
    <3> QED
      BY <2>1, <3>2, <3>3 DEF HeadBucket, ListBuckets
  <2> QED
    BY <2>2, <2>3
<1> QED
  BY <1>1, Invariance, PTL

-----------------------------------------------------------------------------
(* An acknowledged object and the deletion of its bucket.                   *)

\* An object that was owed, is no request's business and kept its drives, is owed.
LEMMA StillOwed ==
  ASSUME Owed, UNCHANGED backend,
         truth'["object"] = 1 /\ "object" \notin torn' =>
           /\ truth["object"] = 1 /\ "object" \notin torn
           /\ \A e \in Clients : ~Touches(e, "object")'
           /\ \A d \in Slots : disk'[d].object = disk[d].object
  PROVE  Owed'
<1> SUFFICES ASSUME truth'["object"] = 1, "object" \notin torn'
             PROVE  /\ \A e \in Clients : ~Touches(e, "object")'
                    /\ Cardinality({d \in Slots : disk'[d].object}) >= (IF backend = "fs" THEN 1 ELSE Quorum)
  BY DEF Owed, Slots
<1>1. {d \in Slots : disk'[d].object} = {d \in Slots : disk[d].object}
  OBVIOUS
<1> QED
  BY <1>1 DEF Owed

\* The filesystem store's look at its one directory cannot miss an owed object.
LEMMA OwedIsListed ==
  ASSUME IInv, Owed, OwedNow, backend = "fs"
  PROVE  ~MayProceed("delete")
<1> DEFINE have == {d \in Slots : disk[d].object}
<1>1. Cardinality(have) >= 1
  BY DEF Owed, OwedNow
<1>2. have # {}
  BY <1>1, FS_EmptySet
<1>3. disk[1].object
  BY <1>2, SlotsFacts
<1> QED
  BY <1>3 DEF MayProceed, FsMayProceed

\* Nor can the erasure store's look at its drives, when few fail it.
LEMMA OwedIsSeen ==
  ASSUME IInv, LookTypes, Owed, Watched, FewAway, NEW c \in Clients, Looking(c),
         look[c].left = {}, ~ (look[c].phase = "walk" /\ look[c].saw), OwedNow
  PROVE  "object" \in look[c].met
<1> SUFFICES ASSUME "object" \notin look[c].met PROVE FALSE
  OBVIOUS
<1> DEFINE have == {d \in Slots : disk[d].object}
           blind == look[c].blind
<1>1. backend # "fs" /\ blind \subseteq 1 .. N
  BY DEF LookTypes, Looks, Looking
<1>2. Cardinality(have) >= Quorum
  BY <1>1 DEF Owed, OwedNow
<1>3. have \subseteq blind
  <2>1. \A d \in 1 .. N : disk[d].object => d \in blind
    BY DEF Watched, Seen
  <2> QED
    BY <2>1, SlotsFacts
<1>4. IsFiniteSet(blind)
  <2>1. IsFiniteSet(1 .. N)
    BY BucketsAssumption, FS_Interval
  <2> QED
    BY <1>1, <2>1, FS_Subset
<1>5. Cardinality(have) <= Cardinality(blind) /\ IsFiniteSet(have)
  BY <1>3, <1>4, FS_Subset
<1>6. Cardinality(have) \in Nat /\ Cardinality(blind) \in Nat /\ Quorum \in Nat
  BY <1>4, <1>5, FS_CardinalityType, BucketsAssumption
<1>7. Cardinality(blind) < Quorum
  BY DEF FewAway
<1> HIDE DEF have, blind
<1> QED
  BY <1>2, <1>5, <1>6, <1>7

\* What a request that begins to change things touches.
LEMMA AdmitTouches ==
  ASSUME IInv, NEW c \in Clients, NEW o, NEW kind, NEW doc, Admit(c, o, kind, doc)
  PROVE  \A e \in Clients : \A t : Touches(e, t)' <=> IF e = c THEN t \in Affects(o, kind) ELSE Touches(e, t)
<1> SUFFICES ASSUME NEW e \in Clients, NEW t
             PROVE  Touches(e, t)' <=> IF e = c THEN t \in Affects(o, kind) ELSE Touches(e, t)
  OBVIOUS
<1> DEFINE clash(f) == Affects(o, kind) \cap Affects(req[f].op, req[f].kind)
           new == [Idle EXCEPT !.op = o, !.kind = kind, !.doc = doc, !.plan = Plan(o),
                               !.clash = UNION {clash(f) : f \in Clients \ {c}}]
<1>1. req' = [f \in Clients |-> IF f = c THEN new ELSE [req[f] EXCEPT !.clash = @ \cup clash(f)]]
  BY DEF Admit
<1>2. new.op = o /\ new.kind = kind
  BY DEF Idle
<1>3. req[e] \in Request
  BY DEF IInv, Types
<1>4. LET x == [req[e] EXCEPT !.clash = req[e].clash \cup clash(e)]
      IN x.op = req[e].op /\ x.kind = req[e].kind
  BY <1>3 DEF Request
<1> HIDE DEF new, clash
<1>5. req'[e].op = (IF e = c THEN o ELSE req[e].op) /\ req'[e].kind = (IF e = c THEN kind ELSE req[e].kind)
  BY <1>1, <1>2, <1>4
<1> QED
  BY <1>5 DEF Touches

\* A request that arrives leaves what is owed alone.
LEMMA ArriveOwed ==
  ASSUME IInv, Owed, NEW c \in Clients, NEW o, NEW kind \in Kinds \cup {"dir"}, NEW doc \in Docs,
         o \in {"set", "unset"} => kind \in Kinds, o = "put" => truth["object"] = 0,
         o = "delete" => backend = "fs", Arrive(c, o, kind, doc)
  PROVE  Owed'
<1>1. /\ UNCHANGED <<backend, disk, truth, torn>>
      /\ o \in {"create", "set", "unset", "put", "delete"}
  BY DEF Arrive, NewRequest
<1> SUFFICES ASSUME truth["object"] = 1, "object" \notin torn, NEW e \in Clients
             PROVE  ~Touches(e, "object")'
  BY <1>1, StillOwed
<1>2. ~Touches(e, "object")
  BY DEF Owed
<1>3. CASE UNCHANGED req
  BY <1>2, <1>3 DEF Touches
<1>4. CASE ~UNCHANGED req
  <2>1. MayProceed(o) /\ Admit(c, o, kind, doc)
    BY <1>4 DEF Arrive
  <2>2. o \notin {"put", "delete"}
    BY <2>1, OwedIsListed DEF OwedNow
  <2>3. "object" \notin Affects(o, kind)
    BY <1>1, <2>2, KindsFacts DEF Affects
  <2> QED
    BY <1>2, <2>1, <2>3, AdmitTouches
<1> QED
  BY <1>3, <1>4

\* So does a deletion that has looked at the drives.
LEMMA LookedOwed ==
  ASSUME IInv, LookTypes, Owed, Watched, FewAway, NEW c \in Clients, Looked(c)
  PROVE  Owed'
<1>1. UNCHANGED <<backend, disk, truth>>
  BY DEF Looked
<1>2. CASE UNCHANGED <<req, torn>>
  BY <1>1, <1>2 DEF Owed, Slots, Touches
<1>3. CASE /\ Admit(c, "delete", "dir", 0) /\ torn' = torn \cup look[c].met
           /\ ~ (look[c].phase = "walk" /\ look[c].saw)
  <2>1. ~ (truth'["object"] = 1 /\ "object" \notin torn')
    <3>1. Looking(c) /\ look[c].left = {}
      BY DEF Looked, Looking
    <3> QED
      BY <1>1, <1>3, <3>1, OwedIsSeen DEF OwedNow
  <2> QED
    BY <2>1 DEF Owed
<1> QED
  BY <1>2, <1>3, LookedFacts

\* An acknowledged PUT has put the object on enough drives.
LEMMA PutOwed ==
  ASSUME IInv, NEW c \in Clients, req[c].op = "put", req[c].plan = <<>>, Enough(req[c]),
         "object" \notin req[c].clash
  PROVE  Cardinality({d \in Slots : disk[d].object}) >= (IF backend = "fs" THEN 1 ELSE Quorum)
<1> DEFINE r == req[c]
           have == {d \in Slots : disk[d].object}
<1>1. Touches(c, "object") /\ "object" \in Things
  BY KindsFacts DEF Touches, Affects
<1>2. Carried(r, "object", disk) /\ PutTaken(r, "object", disk)
  BY <1>1 DEF IInv, Progress
<1>3. r.took \subseteq Slots /\ (backend = "fs" => r.missed = {})
  BY DEF IInv, Shaped
<1>4. N \in Nat /\ IsFiniteSet(have)
  <2>1. IsFiniteSet(1 .. N)
    BY BucketsAssumption, FS_Interval
  <2> QED
    BY <2>1, SlotsFacts, BucketsAssumption, FS_Subset
<1>5. CASE backend = "fs"
  <2>1. \A d, z : ~ToCall(r.plan, d, z)
    BY DEF ToCall
  <2>2. Value(disk[1], "object") = 1
    BY <1>2, <1>3, <1>5, <2>1, SlotsFacts DEF Carried, Made
  <2>3. 1 \in have
    BY <2>2, SlotsFacts DEF Value
  <2> HIDE DEF have
  <2>4. Cardinality(have) # 0 /\ Cardinality(have) \in Nat
    BY <1>4, <2>3, FS_EmptySet, FS_CardinalityType
  <2> QED
    BY <1>5, <2>4 DEF have
<1>6. CASE backend # "fs"
  <2>1. r.took \subseteq have
    <3> SUFFICES ASSUME NEW d \in r.took PROVE d \in have
      OBVIOUS
    <3>1. Value(disk[d], "object") = 1
      BY <1>2 DEF PutTaken
    <3> QED
      BY <1>3, <3>1 DEF Value
  <2>2. Cardinality(r.took) >= Quorum
    BY <1>6 DEF Enough
  <2> HIDE DEF have
  <2>3. Cardinality(r.took) <= Cardinality(have) /\ IsFiniteSet(r.took)
    BY <1>4, <2>1, FS_Subset
  <2>4. Cardinality(r.took) \in Nat /\ Cardinality(have) \in Nat /\ Quorum \in Nat
    BY <1>4, <2>3, FS_CardinalityType, BucketsAssumption
  <2> QED
    BY <1>6, <2>2, <2>3, <2>4 DEF have
<1> QED
  BY <1>5, <1>6

\* Enough drives still have the object after every step.
LEMMA CallKeeps ==
  ASSUME IInv, Owed, NEW c \in Clients, Call(c), truth["object"] = 1, "object" \notin torn
  PROVE  /\ \A e \in Clients : ~Touches(e, "object")'
         /\ \A x \in 1 .. N : disk'[x].object = disk[x].object
<1> DEFINE r == req[c]
           d == Head(r.plan)[1]
           call == Head(r.plan)[2]
<1>1. UNCHANGED <<backend, truth, torn>>
  BY DEF Call
<1>2. r \in Request /\ Shaped(r) /\ r.plan # <<>> /\ r.plan \in Seq((1 .. N) \X Calls)
  BY DEF Call, IInv, Types, Request
<1>3. d \in Slots /\ d \in 1 .. N /\ call \in CallsOf(r.op)
  <2>1. 1 \in DOMAIN r.plan /\ Head(r.plan) = r.plan[1]
    BY <1>2
  <2> QED
    BY <1>2, <2>1, SlotsFacts DEF Shaped
<1>4. \A e \in Clients : ~Touches(e, "object")
  BY DEF Owed
<1>5. \A e \in Clients : req'[e].op = req[e].op /\ req'[e].kind = req[e].kind
  BY DEF Call, IInv, Types, Request
<1>6. ASSUME NEW x \in 1 .. N PROVE disk'[x].object = disk[x].object
  <2>1. x \in 1 .. N /\ disk[x] \in Drive /\ disk[d] \in Drive
    BY <1>3, SlotsFacts DEF IInv, Types
  <2>2. Called(disk[d], call, r) \in Drive /\ Value(Called(disk[d], call, r), "object") = Value(disk[d], "object")
    BY <1>2, <1>3, <1>4, <2>1, CalledValue, KindsFacts DEF Touches
  <2>3. Called(disk[d], call, r).object = disk[d].object
    BY <2>1, <2>2 DEF Value, Drive
  <2>4. disk' = IF d \in up THEN [disk EXCEPT ![d] = Called(disk[d], call, r)] ELSE disk
    BY DEF Call
  <2> HIDE DEF d, call, r
  <2>5. disk'[x] = IF d \in up /\ x = d THEN Called(disk[d], call, r) ELSE disk[x]
    BY <1>3, <2>1, <2>4 DEF IInv, Types
  <2> QED
    BY <2>3, <2>5
<1> QED
  BY <1>4, <1>5, <1>6 DEF Touches

LEMMA CallOwed == ASSUME IInv, Owed, NEW c \in Clients, Call(c) PROVE Owed'
<1>1. UNCHANGED <<backend, truth, torn>>
  BY DEF Call
<1>2. Slots \subseteq 1 .. N
  BY SlotsFacts
<1> QED
  BY <1>1, <1>2, CallKeeps, StillOwed

LEMMA AnswerOwed == ASSUME IInv, Owed, NEW c \in Clients, Answer(c) PROVE Owed'
<1> DEFINE r == req[c]
<1>1. /\ UNCHANGED <<backend, up>> /\ r.op # "idle" /\ r.plan = <<>> /\ req' = [req EXCEPT ![c] = Idle]
      /\ r \in Request /\ Shaped(r)
  BY DEF Answer, IInv, Types
<1>2. \A t \in Things : ~Touches(c, t)' /\ \A e \in Clients : e # c => (Touches(e, t)' <=> Touches(e, t))
  BY <1>1, Leaves
<1>3. "object" \in Things
  BY KindsFacts
<1>4. CASE Enough(r)
  <2>1. /\ truth' = Outcome(r) /\ disk' = disk
        /\ torn' = (torn \ (IF r.op = "put" THEN {"object"} ELSE Affects(r.op, r.kind))) \cup r.clash
    BY <1>4 DEF Answer
  <2>2. CASE r.op = "put"
    <3> SUFFICES ASSUME "object" \notin torn'
                 PROVE  /\ \A e \in Clients : ~Touches(e, "object")'
                        /\ Cardinality({d \in Slots : disk[d].object}) >= (IF backend = "fs" THEN 1 ELSE Quorum)
      BY <1>1, <2>1 DEF Owed, Slots
    <3>1. "object" \notin r.clash /\ Touches(c, "object")
      BY <2>1, <2>2 DEF Touches, Affects
    <3>2. \A e \in Clients : ~Touches(e, "object")'
      BY <1>2, <1>3, <3>1 DEF IInv, Overlaps
    <3> QED
      BY <1>1, <1>4, <2>2, <3>1, <3>2, PutOwed
  <2>3. CASE r.op # "put"
    <3> SUFFICES ASSUME truth'["object"] = 1, "object" \notin torn'
                 PROVE  /\ truth["object"] = 1 /\ "object" \notin torn
                        /\ \A e \in Clients : ~Touches(e, "object")'
      BY <1>1, <2>1, StillOwed
    <3>1. truth'["object"] =
            IF "object" \notin Affects(r.op, r.kind) THEN truth["object"]
            ELSE CASE r.op \in {"set", "unset"} -> r.doc
                   [] r.op \in {"create", "put"} -> 1
                   [] OTHER -> IF "object" = "object" /\ "object" \notin torn \cup r.clash THEN truth["object"] ELSE 0
      BY <1>3, <2>1 DEF Outcome
    <3>2. "object" \in Affects(r.op, r.kind) => r.op = "delete"
      BY <1>1, <2>3, KindsFacts DEF Affects, Shaped, Request
    <3>3. truth["object"] = 1 /\ "object" \notin torn
      <4>1. CASE "object" \in Affects(r.op, r.kind)
        <5>1. r.op = "delete"
          BY <3>2, <4>1
        <5>2. truth'["object"] = IF "object" \notin torn \cup r.clash THEN truth["object"] ELSE 0
          BY <3>1, <4>1, <5>1
        <5> QED
          BY <5>2
      <4>2. CASE "object" \notin Affects(r.op, r.kind)
        BY <2>1, <2>3, <3>1, <4>2
      <4> QED
        BY <4>1, <4>2
    <3>4. \A e \in Clients : ~Touches(e, "object")
      BY <3>3 DEF Owed
    <3> QED
      BY <1>2, <1>3, <3>3, <3>4
  <2> QED
    BY <2>2, <2>3
<1>5. CASE ~Enough(r)
  <2>1. /\ truth' = truth
        /\ torn' = IF r.took # {} THEN torn \cup Affects(r.op, r.kind) ELSE torn
        /\ disk' = IF r.op = "put"
                   THEN [d \in 1 .. N |-> IF d \in up THEN [disk[d] EXCEPT !.object = FALSE] ELSE disk[d]]
                   ELSE disk
    BY <1>5 DEF Answer
  <2> SUFFICES ASSUME truth["object"] = 1, "object" \notin torn
               PROVE  /\ \A e \in Clients : ~Touches(e, "object")'
                      /\ disk' = disk
    BY <1>1, <2>1, StillOwed
  <2>2. \A e \in Clients : ~Touches(e, "object")
    BY DEF Owed
  <2>3. r.op # "put"
    BY <2>2 DEF Touches, Affects
  <2> QED
    BY <1>2, <1>3, <2>1, <2>2, <2>3
<1> QED
  BY <1>4, <1>5

LEMMA StepOwed == IInv /\ LookTypes /\ Owed /\ Watched /\ FewAway /\ [Next]_vars => Owed'
<1> SUFFICES ASSUME IInv, LookTypes, Owed, Watched, FewAway, [Next]_vars PROVE Owed'
  OBVIOUS
<1>1. ASSUME NEW c \in Clients, PutRequest(c) PROVE Owed'
  <2>1. PICK query \in Kinds \cup {"", "object-lock"}, body \in {"malformed", "empty", "first", "second"} :
          IF query \in Kinds THEN Arrive(c, PutOp(query), query, Stored(query, body))
          ELSE Arrive(c, PutOp(query), "dir", 0)
    BY <1>1 DEF PutRequest
  <2>2. Stored(query, body) \in Docs /\ 0 \in Docs
    BY DocsFacts DEF Stored
  <2>3. query \in Kinds => PutOp(query) = "set"
    BY BucketsAssumption DEF PutOp
  <2>4. query \notin Kinds => PutOp(query) \in {"none", "create"}
    BY DEF PutOp
  <2> QED
    BY <2>1, <2>2, <2>3, <2>4, ArriveOwed
<1>5. ASSUME UNCHANGED <<backend, disk, req, truth, torn>> PROVE Owed'
  BY <1>5 DEF Owed, Slots, Touches
<1>2. ASSUME NEW c \in Clients, DeleteRequest(c) PROVE Owed'
  <2>1. PICK query \in Kinds \cup {"", "object-lock"} :
          IF DeleteOp(query) = "delete" /\ backend = "erasure" THEN BeginLook(c)
          ELSE Arrive(c, DeleteOp(query), IF DeleteOp(query) = "unset" THEN query ELSE "dir", 0)
    BY <1>2 DEF DeleteRequest
  <2>2. \/ query \in Kinds /\ DeleteOp(query) = "unset"
        \/ DeleteOp(query) = "delete"
    BY DEF DeleteOp
  <2>3. 0 \in Docs /\ backend \in {"fs", "erasure"}
    BY DocsFacts DEF IInv, Types
  <2>4. BeginLook(c) => UNCHANGED <<backend, disk, req, truth, torn>>
    BY DEF BeginLook, NewRequest
  <2> QED
    BY <1>5, <2>1, <2>2, <2>3, <2>4, ArriveOwed
<1>3. ASSUME NEW c \in Clients, PutObject(c) PROVE Owed'
  BY <1>3, ArriveOwed, DocsFacts DEF PutObject
<1>4. ASSUME NEW c \in Clients, Cancel(c) PROVE Owed'
  <2>1. /\ UNCHANGED <<backend, disk, truth>> /\ req' = [req EXCEPT ![c] = Idle]
        /\ torn \subseteq torn'
    BY <1>4 DEF Cancel
  <2>2. \A t \in Things : ~Touches(c, t)' /\ \A e \in Clients : e # c => (Touches(e, t)' <=> Touches(e, t))
    BY <2>1, Leaves
  <2>3. truth["object"] = 1 /\ "object" \notin torn => \A e \in Clients : ~Touches(e, "object")'
    BY <2>2, KindsFacts DEF Owed
  <2> QED
    BY <2>1, <2>3, StillOwed
<1>6. CASE UNCHANGED vars
  BY <1>5, <1>6 DEF vars
<1>7. ASSUME NEW d \in 1 .. N, DriveDown(d) \/ DriveUp(d) PROVE Owed'
  BY <1>5, <1>7 DEF DriveDown, DriveUp
<1>8. ASSUME NEW c \in Clients, Look(c) PROVE Owed'
  BY <1>5, <1>8 DEF Look
<1> QED
  BY <1>1, <1>2, <1>3, <1>4, <1>6, <1>7, <1>8, LookedOwed, CallOwed, AnswerOwed DEF Next

-----------------------------------------------------------------------------
(* What the looks have seen.                                                *)

\* A step that moves no object that is owed, and tells the looks what begins.
LEMMA WatchStays ==
  ASSUME Watched,
         \A c \in Clients : Looking(c)' =>
           /\ Looking(c) /\ look[c].met \subseteq look'[c].met
           /\ look'[c].phase = look[c].phase /\ look'[c].left = look[c].left
           /\ look'[c].saw = look[c].saw /\ look'[c].blind = look[c].blind
           /\ \A e \in Clients : \A t \in Things : Touches(e, t)' => Touches(e, t) \/ t \in look'[c].met
           /\ OwedNow' /\ "object" \notin look'[c].met =>
                OwedNow /\ \A d \in 1 .. N : disk'[d].object => disk[d].object
  PROVE  Watched'
<1> SUFFICES ASSUME NEW c \in Clients, Looking(c)'
             PROVE  /\ \A e \in Clients : \A t \in Things : Touches(e, t)' => t \in look'[c].met
                    /\ OwedNow' /\ "object" \notin look'[c].met => Seen(c)'
  BY DEF Watched
<1>1. \A e \in Clients : \A t \in Things : Touches(e, t)' => t \in look'[c].met
  BY DEF Watched
<1>2. ASSUME OwedNow', "object" \notin look'[c].met PROVE Seen(c)'
  <2>1. OwedNow /\ "object" \notin look[c].met /\ Looking(c)
    BY <1>2
  <2>2. Seen(c)
    BY <2>1 DEF Watched
  <2> QED
    BY <1>2, <2>2 DEF Seen
<1> QED
  BY <1>1, <1>2

LEMMA CallWatch == ASSUME IInv, Owed, Watched, NEW c \in Clients, Call(c) PROVE Watched'
<1>1. UNCHANGED <<backend, look, truth, torn>>
  BY DEF Call
<1>2. \A e \in Clients : req'[e].op = req[e].op /\ req'[e].kind = req[e].kind
  BY DEF Call, IInv, Types, Request
<1>3. ASSUME OwedNow PROVE \A d \in 1 .. N : disk'[d].object = disk[d].object
  BY <1>3, CallKeeps DEF OwedNow
<1> QED
  BY <1>1, <1>2, <1>3, WatchStays DEF Looking, Touches, OwedNow

LEMMA AnswerWatch == ASSUME IInv, Owed, Watched, NEW c \in Clients, Answer(c) PROVE Watched'
<1> DEFINE r == req[c]
<1>1. /\ UNCHANGED <<backend, up, look>> /\ r.op # "idle" /\ req' = [req EXCEPT ![c] = Idle]
      /\ r \in Request /\ Shaped(r)
  BY DEF Answer, IInv, Types
<1>2. \A t \in Things : ~Touches(c, t)' /\ \A e \in Clients : e # c => (Touches(e, t)' <=> Touches(e, t))
  BY <1>1, Leaves
<1>3. ASSUME NEW e \in Clients, Looking(e), OwedNow', "object" \notin look[e].met
      PROVE  OwedNow /\ disk' = disk
  <2>2. r.op # "put"
    <3>1. r.op = "put" => Touches(c, "object")
      BY DEF Touches, Affects
    <3> QED
      BY <1>3, <3>1, KindsFacts DEF Watched
  <2>1. "object" \notin Affects(r.op, r.kind) \/ r.op = "delete"
    BY <1>1, <2>2, KindsFacts DEF Affects, Shaped, Request
  <2>3. disk' = disk
    BY <2>2 DEF Answer
  <2>4. OwedNow
    <3>1. CASE Enough(r)
      <4>1. /\ truth' = Outcome(r)
            /\ torn' = (torn \ Affects(r.op, r.kind)) \cup r.clash
        BY <2>2, <3>1 DEF Answer
      <4>2. CASE "object" \notin Affects(r.op, r.kind)
        <5>1. truth'["object"] = truth["object"]
          BY <4>1, <4>2, KindsFacts DEF Outcome
        <5> QED
          BY <1>3, <4>1, <4>2, <5>1 DEF OwedNow
      <4>3. CASE r.op = "delete" /\ "object" \in Affects(r.op, r.kind)
        <5>1. truth'["object"] = IF "object" \notin torn \cup r.clash THEN truth["object"] ELSE 0
          BY <4>1, <4>3, KindsFacts DEF Outcome
        <5> QED
          BY <1>3, <5>1 DEF OwedNow
      <4> QED
        BY <2>1, <4>2, <4>3
    <3>2. CASE ~Enough(r)
      <4>1. truth' = truth /\ torn \subseteq torn'
        BY <3>2 DEF Answer
      <4> QED
        BY <1>3, <4>1 DEF OwedNow
    <3> QED
      BY <3>1, <3>2
  <2> QED
    BY <2>3, <2>4
<1> QED
  BY <1>1, <1>2, <1>3, WatchStays DEF Looking

LEMMA AdmitWatch ==
  ASSUME IInv, LookTypes, Watched, NEW c \in Clients, NEW o, NEW kind, NEW doc,
         o \in {"set", "unset"} => kind \in Kinds,
         Admit(c, o, kind, doc), UNCHANGED <<backend, disk, truth>>, torn \subseteq torn'
  PROVE  Watched'
<1>1. Affects(o, kind) \subseteq Things
  BY AffectsThings
<1>2. \A e \in Clients : Looking(e)' =>
        /\ e # c /\ Looking(e)
        /\ look'[e].phase = look[e].phase /\ look'[e].left = look[e].left
        /\ look'[e].saw = look[e].saw /\ look'[e].blind = look[e].blind
        /\ look'[e].met = look[e].met \cup Affects(o, kind)
  BY <1>1, AdmitLooks
<1>3. \A e \in Clients : \A t : Touches(e, t)' <=> IF e = c THEN t \in Affects(o, kind) ELSE Touches(e, t)
  BY AdmitTouches
<1>4. OwedNow' => OwedNow
  BY DEF OwedNow
<1> QED
  BY <1>2, <1>3, <1>4, WatchStays

LEMMA LookWatch ==
  ASSUME IInv, LookTypes, Watched, NEW c \in Clients, Look(c)
  PROVE  Watched'
<1> DEFINE l == look[c]
           d == First(l.left)
<1>1. /\ UNCHANGED <<backend, up, disk, req, truth, stale, torn>> /\ Looking(c)
      /\ \A e \in Clients : e # c => look'[e] = look[e]
      /\ \/ ~Looking(c)'
         \/ /\ ~ (l.phase = "load" /\ Shows(d))
            /\ look'[c].phase = l.phase /\ look'[c].left = l.left \ {d}
            /\ look'[c].saw = (l.saw \/ Shows(d)) /\ look'[c].met = l.met
            /\ look'[c].blind = IF d \in up THEN l.blind ELSE l.blind \cup {d}
  BY LookFacts
<1> HIDE DEF d
<1>2. l.phase \in {"walk", "load"}
  BY <1>1 DEF LookTypes, Looks, Looking
<1>3. \A e, t : Touches(e, t)' <=> Touches(e, t)
  BY <1>1 DEF Touches
<1>4. OwedNow' <=> OwedNow
  BY <1>1 DEF OwedNow
<1>5. ASSUME Looking(c)', OwedNow, "object" \notin l.met PROVE Seen(c)'
  <2> SUFFICES ASSUME NEW x \in 1 .. N, disk[x].object, x \notin look'[c].left \cup look'[c].blind
               PROVE  look'[c].phase = "walk" /\ look'[c].saw
    BY <1>1 DEF Seen
  <2>1. Seen(c)
    BY <1>1, <1>5 DEF Watched
  <2>2. CASE x = d
    <3>1. d \in up
      BY <1>1, <1>5, <2>2
    <3>2. Shows(d)
      BY <2>2, <3>1 DEF Shows
    <3> QED
      BY <1>1, <1>2, <1>5, <3>2
  <2>3. CASE x # d
    <3>1. x \notin l.left \cup l.blind
      BY <1>1, <1>5, <2>3
    <3>2. l.phase = "walk" /\ l.saw
      BY <2>1, <3>1 DEF Seen
    <3> QED
      BY <1>1, <1>5, <3>2
  <2> QED
    BY <2>2, <2>3
<1> SUFFICES ASSUME NEW e \in Clients, Looking(e)'
             PROVE  /\ \A f \in Clients : \A t \in Things : Touches(f, t)' => t \in look'[e].met
                    /\ OwedNow' /\ "object" \notin look'[e].met => Seen(e)'
  BY DEF Watched
<1>6. CASE e = c
  BY <1>1, <1>3, <1>4, <1>5, <1>6 DEF Watched
<1>7. CASE e # c
  <2>1. look'[e] = look[e] /\ Looking(e)
    BY <1>1, <1>7 DEF Looking
  <2>2. Seen(e) => Seen(e)'
    BY <1>1, <2>1 DEF Seen
  <2> QED
    BY <1>3, <1>4, <2>1, <2>2 DEF Watched
<1> QED
  BY <1>6, <1>7

\* The looks that were under way stay as they were; another may begin.
LEMMA OneBegins ==
  ASSUME Watched, NEW c \in Clients, UNCHANGED <<disk, req, truth, torn>>,
         \A e \in Clients : e # c => look'[e] = look[e],
         Looking(c)' => look'[c].left = 1 .. N /\ \A e \in Clients : \A t \in Things :
                                                   Touches(e, t) => t \in look'[c].met
  PROVE  Watched'
<1>1. (\A e, t : Touches(e, t)' <=> Touches(e, t)) /\ (OwedNow' <=> OwedNow)
  BY DEF Touches, OwedNow
<1> SUFFICES ASSUME NEW e \in Clients, Looking(e)'
             PROVE  /\ \A f \in Clients : \A t \in Things : Touches(f, t)' => t \in look'[e].met
                    /\ OwedNow' /\ "object" \notin look'[e].met => Seen(e)'
  BY DEF Watched
<1>2. CASE e = c
  BY <1>1, <1>2 DEF Seen
<1>3. CASE e # c
  <2>1. look'[e] = look[e] /\ Looking(e)
    BY <1>3 DEF Looking
  <2>2. Seen(e) => Seen(e)'
    BY <2>1 DEF Seen
  <2> QED
    BY <1>1, <2>1, <2>2 DEF Watched
<1> QED
  BY <1>2, <1>3

LEMMA StepWatched == IInv /\ LookTypes /\ Owed /\ Watched /\ [Next]_vars => Watched'
<1> SUFFICES ASSUME IInv, LookTypes, Owed, Watched, [Next]_vars PROVE Watched'
  OBVIOUS
<1>0. ASSUME UNCHANGED <<disk, req, look, truth, torn>> PROVE Watched'
  BY <1>0 DEF Watched, Seen, Looking, OwedNow, Touches
<1>1. ASSUME NEW c \in Clients, NEW o, NEW kind, NEW doc,
             o \in {"set", "unset"} => kind \in Kinds, Arrive(c, o, kind, doc)
      PROVE  Watched'
  <2>1. UNCHANGED <<backend, disk, truth, torn>> /\ (Admit(c, o, kind, doc) \/ UNCHANGED <<req, look>>)
    BY <1>1 DEF Arrive, NewRequest
  <2> QED
    BY <1>0, <1>1, <2>1, AdmitWatch
<1>2. ASSUME NEW c \in Clients, PutRequest(c) PROVE Watched'
  <2>1. PICK query \in Kinds \cup {"", "object-lock"}, body \in {"malformed", "empty", "first", "second"} :
          IF query \in Kinds THEN Arrive(c, PutOp(query), query, Stored(query, body))
          ELSE Arrive(c, PutOp(query), "dir", 0)
    BY <1>2 DEF PutRequest
  <2>2. query \notin Kinds => PutOp(query) \in {"none", "create"}
    BY DEF PutOp
  <2> QED
    BY <1>1, <2>1, <2>2
<1>b. ASSUME NEW c \in Clients, BeginLook(c), backend = "erasure" PROVE Watched'
  BY <1>b, BeginLookFacts, OneBegins DEF Touches
<1>3. ASSUME NEW c \in Clients, DeleteRequest(c) PROVE Watched'
  <2>1. PICK query \in Kinds \cup {"", "object-lock"} :
          IF DeleteOp(query) = "delete" /\ backend = "erasure" THEN BeginLook(c)
          ELSE Arrive(c, DeleteOp(query), IF DeleteOp(query) = "unset" THEN query ELSE "dir", 0)
    BY <1>3 DEF DeleteRequest
  <2>2. \/ query \in Kinds /\ DeleteOp(query) = "unset"
        \/ DeleteOp(query) = "delete"
    BY DEF DeleteOp
  <2>3. DeleteOp(query) = "delete" => DeleteOp(query) \notin {"set", "unset"}
    OBVIOUS
  <2> QED
    BY <1>1, <1>b, <2>1, <2>2, <2>3
<1>4. ASSUME NEW c \in Clients, PutObject(c) PROVE Watched'
  BY <1>1, <1>4 DEF PutObject
<1>5. ASSUME NEW c \in Clients, Looked(c) PROVE Watched'
  <2>1. CASE /\ UNCHANGED <<disk, req, truth, torn>> /\ look'[c].left = 1 .. N
             /\ look'[c].met = look[c].met /\ Looking(c)
             /\ \A e \in Clients : e # c => look'[e] = look[e]
    <3>1. \A e \in Clients : \A t \in Things : Touches(e, t) => t \in look'[c].met
      BY <2>1 DEF Watched
    <3> QED
      BY <2>1, <3>1, OneBegins
  <2>2. CASE Admit(c, "delete", "dir", 0) /\ UNCHANGED <<backend, disk, truth>> /\ torn \subseteq torn'
    BY <2>2, AdmitWatch
  <2> QED
    BY <1>5, <2>1, <2>2, LookedFacts
<1>6. ASSUME NEW c \in Clients, Cancel(c) PROVE Watched'
  <2>1. /\ UNCHANGED <<backend, disk, truth>> /\ req' = [req EXCEPT ![c] = Idle] /\ torn \subseteq torn'
        /\ look' = [look EXCEPT ![c] = NoLook]
    BY <1>6 DEF Cancel
  <2>2. \A t \in Things : ~Touches(c, t)' /\ \A e \in Clients : e # c => (Touches(e, t)' <=> Touches(e, t))
    BY <2>1, Leaves
  <2>3. /\ ~Looking(c)' /\ \A e \in Clients : e # c => look'[e] = look[e]
        /\ OwedNow' => OwedNow
    BY <2>1 DEF LookTypes, Looking, NoLook, OwedNow
  <2>4. \A e \in Clients : \A t \in Things : Touches(e, t)' => Touches(e, t)
    BY <2>2
  <2> QED
    BY <2>1, <2>3, <2>4, WatchStays DEF Looking
<1>7. ASSUME NEW d \in 1 .. N, DriveDown(d) \/ DriveUp(d) PROVE Watched'
  BY <1>0, <1>7 DEF DriveDown, DriveUp
<1>8. CASE UNCHANGED vars
  BY <1>0, <1>8 DEF vars
<1> QED
  BY <1>2, <1>3, <1>4, <1>5, <1>6, <1>7, <1>8, LookWatch, CallWatch, AnswerWatch DEF Next

\* delete_bucket never takes an acknowledged object with it unless the two
\* requests overlapped, as long as no single look for objects, which asks the
\* drives one after another while they come and go, is failed by as many as make
\* a quorum: the object's shards then stay on a quorum of drives, or on the
\* filesystem store's one.
THEOREM ObjectsAreSpared == Spec /\ []FewAway => []DeleteSparesObjects
<1>1. Init => Owed /\ Watched
  BY KindsFacts DEF Init, Owed, Watched, Looking, NoLook
<1>2. Owed => DeleteSparesObjects
  BY DEF Owed, DeleteSparesObjects, Settled
<1> QED
  BY <1>1, <1>2, Invariance, StepOwed, StepWatched, PTL DEF Spec

-------------------------------------------------------------------------------
(* The listings: what a page and its caller have of each key. *)

\* The page passes over key k, or the page that follows will.
Past(k)   == IF mode.kind = "versions" THEN k <= scan.token ELSE k < scan.token
Beyond(k) == IF mode.kind = "versions" THEN k <= scan.next ELSE k < scan.next
Paging    == scan.phase \in {"load", "answer"}

\* What the parts of a call are in each of its phases.
CallForm ==
  /\ scan.phase \in {"walk", "choose"} =>
       scan.out = {} /\ scan.groups = {} /\ scan.next = None /\ scan.todo = {} /\ ~scan.cut
  /\ scan.phase = "walk" => scan.left /= {}
  /\ scan.phase = "answer" => scan.todo = {}
  /\ scan.phase = "delete" => mode.kind = "drain" /\ scan.out /= {}
  /\ scan.next \in Keys \cup {None}
  /\ mode.kind = "drain" => /\ ~caller.garbled /\ scan.phase /= "answer" /\ scan.token = None /\ scan.next = None
                            /\ caller.got = {} /\ caller.gotGroups = {} /\ scan.groups = {}
  /\ (mode.kind = "versions" /\ mode.backend /= "fs") => scan.token = None /\ scan.next = None

\* Everything on a page lies after the token the call began with and before the
\* token of the next page; a page of versions is filled from the front.
PageForm == Paging =>
  /\ \A k \in scan.todo : ~Past(k)
  /\ \A e \in scan.out : ~Past(e[1])
  /\ \A g \in scan.groups :
       /\ g /= 0 /\ mode.delim
       /\ \E k \in Keys : /\ Group[k] = g /\ ~Past(k)
                          /\ mode.kind = "versions" => \A t \in scan.todo : k < t
  /\ mode.kind = "versions" => \A t \in scan.todo : \A e \in scan.out : e[1] < t
  /\ scan.next /= None =>
       /\ scan.token <= scan.next
       /\ \A k \in scan.todo : mode.kind /= "versions" /\ k < scan.next
       /\ \A e \in scan.out : Beyond(e[1])
       /\ \A k \in Keys : Group[k] \in scan.groups => Beyond(k)

\* The caller has received nothing twice, and only what the token has passed.
OnceForm == ~caller.garbled =>
  /\ ~caller.again
  /\ scan.phase /= "done" =>
       /\ \A e \in caller.got : Past(e[1])
       /\ \A k \in Keys : Group[k] \in caller.gotGroups => Past(k)

\* Key k is dealt with: passed, rolled up, still to be loaded, on the page, or
\* after the next token.
Covered(k) == \/ Past(k)
              \/ (Rolled(k) /\ Group[k] \in scan.groups)
              \/ k \in scan.todo \/ <<k, Null>> \in scan.out
              \/ (scan.next /= None /\ k >= scan.next)

\* No object held since the listing began is left out: it is in the caller's
\* hands, found by the walk, on the page, or after the next token.
HeldForm == (mode.kind /= "versions" /\ ~caller.garbled) =>
  \A h \in held : h[1] > mode.after =>
    /\ (scan.phase = "done" \/ Past(h[1])) => Shown(h[1], Null)
    /\ scan.phase = "walk" => (h[2] \in scan.left \/ h[1] \in scan.seen)
    /\ scan.phase = "choose" => h[1] \in scan.seen
    /\ Paging => Covered(h[1])

\* While versions are listed all drives answer, and what is kept is still in a
\* readable history or is an object that has none.
VersionWorld == mode.kind = "versions" =>
  /\ answering = Pool
  /\ writing /= None => copies[writing] = {}
  /\ \A e \in kept : /\ e[1] \notin unparsed
                     /\ IF hist[e[1]] /= <<>> THEN e[2] \in ToSet(hist[e[1]])
                        ELSE e[2] = Null /\ copies[e[1]] = Pool

\* No version kept since the listing began is left out of its one page.
KeptForm == mode.kind = "versions" =>
  /\ \A e \in kept : e[1] \in scan.versioned => hist[e[1]] /= <<>>
  /\ (scan.phase = "walk" => scan.left /= Pool) =>
        \A e \in kept : IF hist[e[1]] /= <<>> THEN e[1] \in scan.versioned
                                              ELSE e[1] \in scan.seen
  /\ caller.pages = 0 => scan.token = None /\ scan.phase /= "done"
  /\ (Paging /\ caller.pages = 0 /\ ~scan.cut) =>
       \A e \in kept : \/ (Rolled(e[1]) /\ Group[e[1]] \in scan.groups)
                       \/ e[1] \in scan.todo \/ e \in scan.out
  /\ (scan.phase = "done" /\ caller.pages = 1 /\ ~scan.cut) =>
       \A e \in kept : Shown(e[1], e[2])

\* A page never holds more than was asked for, what is still to be loaded
\* included.
FullForm ==
  /\ IsFiniteSet(scan.out) /\ IsFiniteSet(scan.groups)
  /\ (Paging /\ mode.kind /= "versions") =>
       Cardinality(scan.out) + Cardinality(scan.todo) + Cardinality(scan.groups) <= mode.size

\* The inductive invariant of the listings.
IInvListing == /\ TypeOKListing /\ CallForm /\ PageForm /\ OnceForm
               /\ HeldForm /\ VersionWorld /\ KeptForm /\ FullForm
-----------------------------------------------------------------------------
\* What is asked of a listing.
LEMMA ModeFacts ==
  ASSUME mode \in Modes
  PROVE  /\ mode.backend \in {"fs", "erasure"} /\ mode.kind \in {"objects", "versions", "drain"}
         /\ mode.encode \in BOOLEAN /\ mode.delim \in BOOLEAN
         /\ mode.size \in Nat /\ mode.after \in Nat
         /\ mode.kind = "drain" => mode.size = Cardinality(Keys) /\ ~mode.delim
         /\ mode.kind /= "objects" => ~mode.encode /\ mode.after = None
BY ListingAssumption DEF Modes

\* Keys are positive numbers, finitely many.
LEMMA KeyFacts == /\ Keys \subseteq Nat \ {0} /\ IsFiniteSet(Keys)
                  /\ Group \in [Keys -> Nat] /\ Encoded \in [Keys -> Nat]
                  /\ Keys \subseteq Nat
BY ListingAssumption

\* A set of numbers has a least one.
LEMMA SmallestPlace ==
  ASSUME NEW D, D \subseteq Nat, D # {}
  PROVE  Min(D) \in D /\ \A e \in D : Min(D) <= e
<1>1. PICK d \in D : \A e \in D : ~ (<<e, d>> \in OpToRel(<, Nat))
  BY NatLessThanWellFounded, WFMin, Zenon
<1>2. \A e \in D : ~ (e < d)
  <2>1. ASSUME NEW e \in D, e < d PROVE <<e, d>> \in OpToRel(<, Nat)
    BY <2>1, Zenon DEF OpToRel
  <2> QED
    BY <1>1, <2>1, Zenon
<1>3. \A e \in D : d <= e
  BY <1>2
<1> QED
  BY <1>3, Zenon DEF Min

\* A finite set of them has a greatest one.
LEMMA LargestPlace ==
  ASSUME NEW D, D \subseteq Nat, D # {}, IsFiniteSet(D)
  PROVE  \E d \in D : \A e \in D : e <= d
<1> DEFINE Above(k) == {j \in D : k < j}
           sizes == {Cardinality(Above(k)) : k \in D}
<1>1. \A k \in D : IsFiniteSet(Above(k)) /\ Cardinality(Above(k)) \in Nat
  BY FS_Subset, FS_CardinalityType
<1>2. PICK d \in D : \A e \in D : Cardinality(Above(d)) <= Cardinality(Above(e))
  <2>1. sizes \subseteq Nat /\ sizes # {}
    BY <1>1
  <2>2. PICK s \in sizes : \A t \in sizes : s <= t
    <3> HIDE DEF sizes
    <3> QED BY <2>1, SmallestPlace
  <2> QED
    BY <2>2
<1>3. ASSUME NEW e \in D, d < e PROVE FALSE
  <2>0. D \subseteq Nat /\ d \in Nat /\ e \in Nat
    OBVIOUS
  <2>1. Above(e) \subseteq Above(d) /\ e \in Above(d) /\ e \notin Above(e)
    <3>1. ASSUME NEW j \in Above(e) PROVE j \in Above(d)
      <4>1. j \in D /\ e < j /\ j \in Nat
        BY <2>0, <3>1
      <4>2. d < j
        BY <2>0, <1>3, <4>1
      <4> QED
        BY <4>1, <4>2
    <3>2. e \in Above(d)
      BY <1>3
    <3>3. e \notin Above(e)
      BY <2>0
    <3> QED
      BY <3>1, <3>2, <3>3
  <2>2. Cardinality(Above(e)) <= Cardinality(Above(d)) /\ Cardinality(Above(d)) # Cardinality(Above(e))
    <3> HIDE DEF Above
    <3> QED BY <1>1, <2>1, FS_Subset
  <2> QED
    BY <1>1, <1>2, <2>2
<1>4. \A e \in D : e <= d
  <2> HIDE DEF Above
  <2> QED BY <1>3
<1> QED
  BY <1>4

\* What the page takes leaves out what it does not: the first key without room
\* and every key after it.
LEMMA OverflowFacts ==
  ASSUME TypeOKListing
  PROVE  /\ Candidates \subseteq Keys
         /\ Overflow = None => \A k \in Candidates : ~Crowded(k)
         /\ Overflow /= None => /\ Overflow \in Candidates /\ Crowded(Overflow)
                                /\ \A k \in Candidates : Crowded(k) => Overflow <= k
<1> DEFINE crowded == {k \in Candidates : Crowded(k)}
<1>1. Candidates \subseteq Keys /\ Candidates \subseteq Nat \ {0}
  BY KeyFacts DEF Candidates, TypeOKListing
<1>2. Overflow = IF crowded = {} THEN None ELSE Min(crowded)
  BY DEF Overflow
<1>3. CASE crowded = {}
  BY <1>1, <1>2, <1>3
<1>4. CASE crowded /= {}
  <2>1. crowded \subseteq Nat \ {0}
    BY <1>1
  <2>2. Min(crowded) \in crowded /\ \A e \in crowded : Min(crowded) <= e
    <3> HIDE DEF crowded
    <3> QED BY <1>4, <2>1, SmallestPlace
  <2>3. Overflow = Min(crowded)
    BY <1>2, <1>4
  <2>4. Overflow \in crowded /\ \A e \in crowded : Overflow <= e
    BY <2>2, <2>3
  <2>5. Overflow \in Candidates /\ Crowded(Overflow) /\ \A k \in Candidates : Crowded(k) => Overflow <= k
    BY <2>4
  <2>6. Overflow \in Nat \ {0}
    BY <2>1, <2>4
  <2> QED
    BY <1>1, <2>5, <2>6 DEF None
<1> QED
  BY <1>3, <1>4

\* The keys of one common prefix are neighbours: no page begins within one that
\* is on it.
LEMMA PrefixEnds ==
  ASSUME TypeOKListing, Overflow /= None, NEW j \in Candidates, j < Overflow, Rolled(j),
         NEW k \in Keys, Group[k] = Group[j]
  PROVE  k < Overflow
<1>1. /\ Candidates \subseteq Keys /\ Overflow \in Candidates /\ Crowded(Overflow)
      /\ Overflow \in Keys
  BY OverflowFacts
<1>2. Group[j] /= 0 /\ mode.delim
  BY DEF Rolled
<1>3. SUFFICES ASSUME Overflow <= k PROVE FALSE
  BY <1>1, KeyFacts
<1>4. Group[Overflow] = Group[j]
  <2>1. CASE Overflow = k
    BY <2>1
  <2>2. CASE Overflow < k
    BY <1>1, <1>2, <2>2, ListingAssumption
  <2> QED
    BY <1>1, <1>3, <2>1, <2>2, KeyFacts
<1>5. Rolled(Overflow) /\ j \in Before(Overflow)
  BY <1>1, <1>2, <1>4 DEF Rolled, Before
<1>6. Group[Overflow] \in PrefixesOf(Before(Overflow))
  BY <1>4, <1>5 DEF PrefixesOf
<1> QED
  BY <1>1, <1>5, <1>6 DEF Crowded

\* A page holds no more than was asked for: the last of its keys that is an
\* entry of its own, or the first of its prefix, found room.
LEMMA PageFits ==
  ASSUME TypeOKListing, NEW page, page \subseteq Candidates,
         \A k \in page : ~Crowded(k) /\ Before(k) \subseteq page
  PROVE  /\ IsFiniteSet(Single(page)) /\ IsFiniteSet(PrefixesOf(page))
         /\ Cardinality(Single(page)) + Cardinality(PrefixesOf(page)) <= mode.size
<1> DEFINE Leads(k) == Rolled(k) /\ \A j \in page : Rolled(j) /\ Group[j] = Group[k] => k <= j
           units == {k \in page : ~Rolled(k) \/ Leads(k)}
<1>0. page \subseteq Keys /\ page \subseteq Nat /\ IsFiniteSet(page) /\ mode.size \in Nat
  <2>1. page \subseteq Keys
    BY OverflowFacts
  <2> QED
    BY <2>1, KeyFacts, FS_Subset, ModeFacts DEF TypeOKListing
<1>1. ASSUME NEW s, s \subseteq page
      PROVE  /\ IsFiniteSet(s) /\ IsFiniteSet(Single(s)) /\ IsFiniteSet(PrefixesOf(s))
             /\ Cardinality(Single(s)) \in Nat /\ Cardinality(PrefixesOf(s)) \in Nat
  <2>1. IsFiniteSet(s)
    BY <1>0, <1>1, FS_Subset
  <2>2. Single(s) \subseteq s /\ {j \in s : Rolled(j)} \subseteq s
    BY DEF Single
  <2>3. IsFiniteSet(Single(s)) /\ IsFiniteSet({j \in s : Rolled(j)})
    BY <2>1, <2>2, FS_Subset
  <2>4. IsFiniteSet(PrefixesOf(s))
    <3> DEFINE T == {j \in s : Rolled(j)}
               f == [j \in T |-> Group[j]]
    <3>1. f \in Surjection(T, PrefixesOf(s))
      BY DEF Surjection, PrefixesOf
    <3> HIDE DEF T, f
    <3> QED
      BY <2>3, <3>1, FS_Surjection DEF T
  <2> QED
    BY <2>1, <2>3, <2>4, FS_CardinalityType
<1>2. \A k \in page : Rolled(k) => \E j \in page : Leads(j) /\ Group[j] = Group[k]
  <2> SUFFICES ASSUME NEW k \in page, Rolled(k)
               PROVE  \E j \in page : Leads(j) /\ Group[j] = Group[k]
    OBVIOUS
  <2> DEFINE S == {j \in page : Rolled(j) /\ Group[j] = Group[k]}
  <2>1. S \subseteq Nat /\ S /= {}
    BY <1>0
  <2>2. Min(S) \in S /\ \A j \in S : Min(S) <= j
    <3> HIDE DEF S
    <3> QED BY <2>1, SmallestPlace
  <2> DEFINE m == Min(S)
  <2> HIDE DEF m
  <2>3. m \in S /\ \A j \in S : m <= j
    BY <2>2 DEF m
  <2> QED
    BY <2>3
<1>3. CASE units = {}
  <2>1. page = {}
    BY <1>2, <1>3
  <2>2. Single(page) = {} /\ PrefixesOf(page) = {}
    BY <2>1 DEF Single, PrefixesOf
  <2> QED
    BY <1>0, <2>2, FS_EmptySet
<1>4. CASE units /= {}
  <2>1. PICK m \in units : \A e \in units : e <= m
    <3>1. units \subseteq page /\ units \subseteq Nat
      BY <1>0
    <3>2. IsFiniteSet(units)
      BY <1>1, <3>1
    <3> HIDE DEF units
    <3> QED BY <1>4, <3>1, <3>2, LargestPlace
  <2> DEFINE b == Before(m)
  <2>2. m \in page /\ b \subseteq page /\ ~Crowded(m) /\ b = {j \in page : j < m}
    <3>1. m \in page
      BY <2>1
    <3>2. b \subseteq page /\ ~Crowded(m)
      BY <3>1
    <3> QED
      BY <3>1, <3>2 DEF Before
  <2>3. \/ Cardinality(Single(b)) + Cardinality(PrefixesOf(b)) < mode.size
        \/ Rolled(m) /\ Group[m] \in PrefixesOf(b)
    BY <1>0, <1>1, <2>2 DEF Crowded
  <2>4. ~ (Rolled(m) /\ Group[m] \in PrefixesOf(b))
    <3> SUFFICES ASSUME Rolled(m), NEW j \in b, Rolled(j), Group[m] = Group[j] PROVE FALSE
      BY DEF PrefixesOf
    <3>1. Leads(m)
      BY <2>1
    <3>2. j \in page /\ j < m
      BY <2>2
    <3>3. m <= j
      BY <3>1, <3>2
    <3> QED
      BY <1>0, <2>2, <3>2, <3>3
  <2>5. CASE Rolled(m)
    <3>1. Single(page) = Single(b)
      <4>1. ASSUME NEW k \in page, ~Rolled(k) PROVE k \in b
        <5>1. k \in units
          BY <4>1
        <5>2. k <= m /\ k /= m
          BY <2>1, <2>5, <4>1, <5>1
        <5> QED
          BY <1>0, <2>2, <5>2
      <4> QED
        BY <2>2, <4>1 DEF Single
    <3>2. PrefixesOf(page) = PrefixesOf(b) \cup {Group[m]}
      <4>1. ASSUME NEW k \in page, Rolled(k) PROVE Group[k] \in PrefixesOf(b) \cup {Group[m]}
        <5>1. PICK j \in page : Leads(j) /\ Group[j] = Group[k]
          BY <1>2, <4>1
        <5>2. j \in units /\ Rolled(j)
          BY <5>1
        <5>3. j = m \/ j \in b
          BY <1>0, <2>1, <2>2, <5>2
        <5> QED
          BY <5>1, <5>2, <5>3 DEF PrefixesOf
      <4>2. PrefixesOf(b) \cup {Group[m]} \subseteq PrefixesOf(page)
        BY <2>2, <2>5 DEF PrefixesOf
      <4> QED
        BY <4>1, <4>2 DEF PrefixesOf
    <3>3. Cardinality(PrefixesOf(page)) = Cardinality(PrefixesOf(b)) + 1
      BY <1>1, <2>2, <2>4, <2>5, <3>2, FS_AddElement
    <3> QED
      BY <1>0, <1>1, <2>2, <2>3, <2>4, <3>1, <3>3
  <2>6. CASE ~Rolled(m)
    <3>1. Single(page) = Single(b) \cup {m} /\ m \notin Single(b)
      <4>1. ASSUME NEW k \in page, ~Rolled(k), k /= m PROVE k \in b
        <5>1. k \in units
          BY <4>1
        <5>2. k <= m
          BY <2>1, <5>1
        <5> QED
          BY <1>0, <2>2, <4>1, <5>2
      <4>2. m \notin b
        BY <1>0, <2>2
      <4> QED
        BY <2>2, <2>6, <4>1, <4>2 DEF Single
    <3>2. PrefixesOf(page) = PrefixesOf(b)
      <4>1. ASSUME NEW k \in page, Rolled(k) PROVE Group[k] \in PrefixesOf(b)
        <5>1. PICK j \in page : Leads(j) /\ Group[j] = Group[k]
          BY <1>2, <4>1
        <5>2. j \in units /\ Rolled(j)
          BY <5>1
        <5>3. j \in b
          BY <1>0, <2>1, <2>2, <2>6, <5>2
        <5> QED
          BY <5>1, <5>2, <5>3 DEF PrefixesOf
      <4>2. PrefixesOf(b) \subseteq PrefixesOf(page)
        BY <2>2 DEF PrefixesOf
      <4> QED
        BY <4>1, <4>2 DEF PrefixesOf
    <3>3. Cardinality(Single(page)) = Cardinality(Single(b)) + 1
      BY <1>1, <2>2, <3>1, FS_AddElement
    <3> QED
      BY <1>0, <1>1, <2>2, <2>3, <2>4, <3>2, <3>3
  <2> QED
    BY <2>5, <2>6
<1> QED
  BY <1>3, <1>4

\* A forced deletion asks for as many keys as there are.
LEMMA DrainWhole ==
  ASSUME TypeOKListing, mode.kind = "drain"
  PROVE  Overflow = None
<1> SUFFICES ASSUME Overflow /= None PROVE FALSE
  OBVIOUS
<1> DEFINE k == Overflow
           b == Before(k)
<1>1. k \in Keys /\ Crowded(k) /\ b \subseteq Keys \ {k}
  <2>1. k \in Keys /\ Crowded(k) /\ Candidates \subseteq Keys
    BY OverflowFacts
  <2>2. k \in Nat /\ ~ (k < k)
    BY <2>1, KeyFacts
  <2> QED
    BY <2>1, <2>2 DEF Before
<1>2. ~mode.delim /\ mode.size = Cardinality(Keys)
  BY ModeFacts DEF TypeOKListing
<1>3. Single(b) = b /\ PrefixesOf(b) = {}
  BY <1>2 DEF Rolled, Single, PrefixesOf
<1>4. IsFiniteSet(Keys \ {k}) /\ Cardinality(Keys \ {k}) = Cardinality(Keys) - 1
      /\ Cardinality(Keys) \in Nat
  BY <1>1, KeyFacts, FS_RemoveElement, FS_CardinalityType
<1>5. IsFiniteSet(b) /\ Cardinality(b) <= Cardinality(Keys) - 1 /\ Cardinality(b) \in Nat
  BY <1>1, <1>4, FS_Subset, FS_CardinalityType
<1> HIDE DEF b
<1>6. Cardinality(b) + Cardinality(PrefixesOf(b)) >= Cardinality(Keys)
  BY <1>1, <1>2, <1>3 DEF Crowded, b
<1> QED
  BY <1>3, <1>4, <1>5, <1>6, FS_EmptySet

\* What is left of a history when its second entry goes.
LEMMA SecondGone ==
  ASSUME NEW S, NEW s \in Seq(S), Len(s) > 1
  PROVE  /\ RemoveAt(s, 2) \in Seq(S) /\ RemoveAt(s, 2) /= <<>>
         /\ \A v \in ToSet(s) : v /= s[2] => v \in ToSet(RemoveAt(s, 2))
<1> DEFINE r     == RemoveAt(s, 2)
           front == SubSeq(s, 1, 1)
           back  == SubSeq(s, 3, Len(s))
<1>0. Len(s) \in Nat /\ Len(s) > 1
  OBVIOUS
<1>a. front \in Seq(S) /\ Len(front) = 1 /\ front[1] = s[1]
  OBVIOUS
<1>b. back \in Seq(S) /\ Len(back) = Len(s) - 2 /\ \A i \in 1 .. Len(s) - 2 : back[i] = s[i + 2]
  <2>1. 3 \in 1 .. Len(s) + 1 /\ Len(s) \in 3 - 1 .. Len(s)
    BY <1>0
  <2>2. /\ back \in Seq(S) /\ Len(back) = (IF 3 <= Len(s) THEN Len(s) - 3 + 1 ELSE 0)
        /\ \A i \in 1 .. Len(s) - 3 + 1 : back[i] = s[3 + i - 1]
    BY <2>1, SubSeqProperties
  <2> HIDE DEF back
  <2>3. Len(back) = Len(s) - 2
    <3>1. CASE 3 <= Len(s)
      <4>1. Len(back) = Len(s) - 3 + 1
        BY <2>2, <3>1, Zenon
      <4> QED
        BY <1>0, <4>1
    <3>2. CASE Len(s) = 2
      <4>1. ~ (3 <= Len(s))
        BY <3>2
      <4>2. Len(back) = 0
        BY <2>2, <4>1, Zenon
      <4> QED
        BY <3>2, <4>2
    <3>3. \A n \in Nat : n > 1 => (n = 2 \/ 3 <= n)
      OBVIOUS
    <3> QED
      BY <1>0, <3>1, <3>2, <3>3, Zenon
  <2>4. ASSUME NEW i \in 1 .. Len(s) - 2 PROVE back[i] = s[i + 2]
    <3>1. i \in 1 .. Len(s) - 3 + 1 /\ 3 + i - 1 = i + 2
      BY <1>0
    <3> QED
      BY <2>2, <3>1
  <2> QED
    BY <2>2, <2>3, <2>4
<1>c. r = front \o back
  BY DEF RemoveAt
<1> HIDE DEF front, back, r
<1>d. /\ r \in Seq(S) /\ Len(r) = Len(front) + Len(back)
      /\ \A i \in 1 .. Len(front) + Len(back) : r[i] =
            IF i <= Len(front) THEN front[i] ELSE back[i - Len(front)]
  BY <1>a, <1>b, <1>c, ConcatProperties
<1>e. Len(front) + Len(back) = Len(s) - 1
  BY <1>0, <1>a, <1>b
<1>1. r \in Seq(S) /\ Len(r) = Len(s) - 1
  BY <1>d, <1>e, Zenon
<1>2. \A i \in 1 .. Len(s) : /\ i = 1 => r[1] = s[1]
                             /\ i > 2 => r[i - 1] = s[i]
  <2>4. r[1] = s[1]
    <3>1. 1 \in 1 .. Len(front) + Len(back) /\ 1 <= Len(front)
      BY <1>0, <1>a, <1>e
    <3>2. r[1] = front[1]
      BY <1>d, <3>1, Zenon
    <3> QED
      BY <1>a, <3>2
  <2>5. ASSUME NEW i \in 1 .. Len(s), i > 2 PROVE r[i - 1] = s[i]
    <3>1. /\ i - 1 \in 1 .. Len(front) + Len(back) /\ ~ (i - 1 <= Len(front))
          /\ i - 1 - Len(front) = i - 2
      BY <1>0, <1>a, <1>e, <2>5
    <3>2. i - 2 \in 1 .. Len(s) - 2 /\ (i - 2) + 2 = i
      BY <1>0, <2>5
    <3>3. r[i - 1] = back[i - 2]
      BY <1>d, <3>1, Zenon
    <3> QED
      BY <1>b, <3>2, <3>3
  <2> QED
    BY <2>4, <2>5
<1>3. ASSUME NEW v \in ToSet(s), v /= s[2] PROVE v \in ToSet(r)
  <2>1. PICK i \in 1 .. Len(s) : s[i] = v
    BY DEF ToSet
  <2>2. CASE i = 1
    BY <1>1, <1>2, <2>1, <2>2 DEF ToSet
  <2>3. CASE i > 2
    <3>1. i - 1 \in 1 .. Len(r) /\ r[i - 1] = v
      BY <1>1, <1>2, <2>1, <2>3
    <3> QED
      BY <1>1, <3>1 DEF ToSet
  <2> QED
    BY <1>3, <2>1, <2>2, <2>3
<1> QED
  <2>1. r /= <<>>
    BY <1>1
  <2> QED
    BY <1>1, <1>3, <2>1 DEF r

\* A new entry goes before those a history has.
LEMMA EntryAdded ==
  ASSUME NEW S, NEW s \in Seq(S), NEW v \in S
  PROVE  /\ <<v>> \o s \in Seq(S) /\ <<v>> \o s /= <<>>
         /\ \A w \in ToSet(s) : w \in ToSet(<<v>> \o s)
<1> DEFINE r == <<v>> \o s
<1>1. r \in Seq(S) /\ Len(r) = Len(s) + 1 /\ \A i \in 1 .. Len(s) : r[i + 1] = s[i]
  OBVIOUS
<1> HIDE DEF r
<1>2. r /= <<>>
  BY <1>1
<1>3. ASSUME NEW w \in ToSet(s) PROVE w \in ToSet(r)
  <2>1. PICK i \in 1 .. Len(s) : s[i] = w
    BY DEF ToSet
  <2>2. i + 1 \in 1 .. Len(r) /\ r[i + 1] = w
    BY <1>1, <2>1
  <2> QED
    BY <1>1, <2>2 DEF ToSet
<1> QED
  BY <1>1, <1>2, <1>3 DEF r
-----------------------------------------------------------------------------
(* What a writer's step leaves of the invariant.                           *)

\* A step of a writer leaves the call and the page as they were.
LEMMA WriterLeaves ==
  ASSUME IInvListing, UNCHANGED <<mode, scan, caller>>
  PROVE  CallForm' /\ PageForm' /\ OnceForm' /\ FullForm'
<1>1. CallForm' /\ OnceForm' /\ FullForm'
  BY DEF IInvListing, CallForm, OnceForm, FullForm, Paging, Past
<1>2. PageForm'
  BY DEF IInvListing, PageForm, Paging, Past, Beyond
<1> QED
  BY <1>1, <1>2

\* A writer can only make fewer objects count as held.
LEMMA HeldLeft ==
  ASSUME IInvListing, UNCHANGED <<mode, scan, caller>>, held' \subseteq held
  PROVE  HeldForm'
BY DEF IInvListing, HeldForm, Paging, Past, Covered, Shown, Rolled

\* What is kept, once the listing is as it was.
LEMMA KeptLeft ==
  ASSUME IInvListing, UNCHANGED <<mode, scan, caller>>, kept' \subseteq kept,
         mode.kind = "versions",
         \A e \in kept' : hist'[e[1]] = <<>> <=> hist[e[1]] = <<>>
  PROVE  KeptForm'
<1> USE DEF IInvListing, KeptForm, Paging, Shown, Rolled, Pool
<1>1. (\A e \in kept : e[1] \in scan.versioned => hist[e[1]] /= <<>>)'
  BY DEF TypeOKListing
<1>2. ((scan.phase = "walk" => scan.left /= Pool) =>
        \A e \in kept : IF hist[e[1]] /= <<>> THEN e[1] \in scan.versioned
                                              ELSE e[1] \in scan.seen)'
  <2> SUFFICES ASSUME (scan.phase = "walk" => scan.left /= Pool), NEW e \in kept'
               PROVE  IF hist'[e[1]] /= <<>> THEN e[1] \in scan.versioned ELSE e[1] \in scan.seen
    OBVIOUS
  <2>1. e \in kept /\ e[1] \in Keys
    BY DEF TypeOKListing
  <2>2. IF hist[e[1]] /= <<>> THEN e[1] \in scan.versioned ELSE e[1] \in scan.seen
    BY <2>1
  <2> QED
    BY <2>1, <2>2
<1>3. (caller.pages = 0 => scan.token = None /\ scan.phase /= "done")'
  OBVIOUS
<1>4. ((Paging /\ caller.pages = 0 /\ ~scan.cut) =>
         \A e \in kept : \/ (Rolled(e[1]) /\ Group[e[1]] \in scan.groups)
                         \/ e[1] \in scan.todo \/ e \in scan.out)'
  OBVIOUS
<1>5. ((scan.phase = "done" /\ caller.pages = 1 /\ ~scan.cut) =>
         \A e \in kept : Shown(e[1], e[2]))'
  OBVIOUS
<1> QED
  BY <1>1, <1>2, <1>3, <1>4, <1>5

\* How the invariant is put together again after a writer's step.
LEMMA WriterKeeps ==
  ASSUME IInvListing, UNCHANGED <<mode, scan, caller>>, TypeOKListing', held' \subseteq held,
         VersionWorld', mode.kind = "versions" => KeptForm'
  PROVE  IInvListing'
<1>1. KeptForm'
  BY DEF KeptForm
<1> QED
  BY <1>1, WriterLeaves, HeldLeft DEF IInvListing

\* What a writer has to keep for the types to stay right.
LEMMA WriterTypes ==
  ASSUME IInvListing, UNCHANGED <<mode, scan, caller>>,
         copies' \in [Keys -> SUBSET Pool], hist' \in [Keys -> Seq(Vids)],
         unparsed' \subseteq Keys, answering' \subseteq Pool, writing' \in Keys \cup {None},
         writes' \in 0..MaxWrites, failures' \in 0..MaxFailures,
         \A h \in held' : h \in held /\ h[2] \in answering' /\ h[2] \in copies'[h[1]],
         kept' \subseteq Keys \X Vids
  PROVE  TypeOKListing' /\ held' \subseteq held
<1>1. held' \subseteq held
  OBVIOUS
<1>2. (held \subseteq {h \in Keys \X answering : h[2] \in copies[h[1]]})'
  BY DEF IInvListing, TypeOKListing
<1>3. (Pool = Pool') /\ Pool' = Pool
  BY DEF Pool
<1>4. (mode \in Modes)' /\ (Cardinality(scan.out) + Cardinality(scan.groups) <= mode.size)'
  BY DEF IInvListing, TypeOKListing, Modes
<1> QED
  BY <1>1, <1>2, <1>3, <1>4 DEF IInvListing, TypeOKListing

\* There is a drive, and only finitely many.
LEMMA PoolFacts ==
  ASSUME TypeOKListing
  PROVE  Pool /= {} /\ IsFiniteSet(Pool) /\ Pool \subseteq Nat \ {0}
<1>1. IsFiniteSet({1}) /\ IsFiniteSet({1, 2})
  <2>1. {1} = 1 .. 1 /\ {1, 2} = 1 .. 2
    OBVIOUS
  <2>2. IsFiniteSet(1 .. 1) /\ IsFiniteSet(1 .. 2)
    <3>1. 1 \in Int /\ 2 \in Int
      OBVIOUS
    <3> QED
      BY <3>1, FS_Interval, Zenon
  <2> QED
    BY <2>1, <2>2, Zenon
<1> QED
  BY <1>1 DEF Pool, Drives

\* An object is written.
LEMMA PutKeeps == ASSUME IInvListing, NEW k \in Keys, Put(k) PROVE IInvListing'
<1> USE DEF Put, Write
<1>1. TypeOKListing' /\ held' \subseteq held
  <2>1. copies' \in [Keys -> SUBSET Pool]
    BY DEF IInvListing, TypeOKListing
  <2>2. \A h \in held' : h \in held /\ h[2] \in answering' /\ h[2] \in copies'[h[1]]
    BY DEF IInvListing, TypeOKListing
  <2>3. writes' \in 0..MaxWrites
    BY ListingAssumption DEF IInvListing, TypeOKListing
  <2> QED
    BY <2>1, <2>2, <2>3, WriterTypes DEF IInvListing, TypeOKListing
<1>2. VersionWorld'
  BY DEF VersionWorld
<1> QED
  BY <1>1, <1>2, WriterKeeps

\* What the removal of an object from some drives does.
LEMMA GoneFacts ==
  ASSUME TypeOKListing, NEW ks \in SUBSET Keys, NEW ds, Gone(ks, ds)
  PROVE  /\ copies' \in [Keys -> SUBSET Pool] /\ held' \subseteq held
         /\ \A h \in held' : h[2] \in answering /\ h[2] \in copies'[h[1]]
         /\ \A j \in ks : copies'[j] = copies[j] \ ds
         /\ \A j \in Keys : j \notin ks => copies'[j] = copies[j]
<1>1. copies' \in [Keys -> SUBSET Pool] /\ held' \subseteq held
  BY DEF Gone, TypeOKListing
<1>2. /\ \A j \in ks : copies'[j] = copies[j] \ ds
      /\ \A j \in Keys : j \notin ks => copies'[j] = copies[j]
  BY DEF Gone, TypeOKListing
<1>3. ASSUME NEW h \in held' PROVE h[2] \in answering /\ h[2] \in copies'[h[1]]
  <2>1. h \in held /\ h \in Keys \X answering /\ h[2] \in copies[h[1]]
    BY DEF Gone, TypeOKListing
  <2>2. ~ (h[1] \in ks /\ h[2] \in ds)
    BY <2>1 DEF Gone
  <2> QED
    BY <1>2, <2>1, <2>2
<1> QED
  BY <1>1, <1>2, <1>3

\* A deletion takes keys, the one it names among them.
LEMMA TakenKeys == ASSUME NEW k \in Keys PROVE Taken(k) \subseteq Keys /\ k \in Taken(k)
BY ListingAssumption DEF Taken

\* Objects are deleted, whatever drives the deletion reaches.
LEMMA DeleteKeeps == ASSUME IInvListing, NEW k \in Keys, Delete(k) PROVE IInvListing'
<1> USE DEF Delete, Write
<1>0. PICK ds \in Reached : Gone(Taken(k), ds)
  OBVIOUS
<1>1. /\ copies' \in [Keys -> SUBSET Pool] /\ held' \subseteq held
      /\ \A h \in held' : h[2] \in answering /\ h[2] \in copies'[h[1]]
      /\ \A j \in Keys : j \notin Taken(k) => copies'[j] = copies[j]
      /\ \A j \in Keys : copies'[j] \subseteq copies[j]
  <2>1. \A j \in Taken(k) : copies'[j] = copies[j] \ ds
    BY <1>0, TakenKeys, GoneFacts DEF IInvListing
  <2> QED
    BY <1>0, <2>1, TakenKeys, GoneFacts DEF IInvListing
<1>2. kept' \subseteq kept /\ (mode.kind = "versions" => \A e \in kept' : e[1] \notin Taken(k))
  BY DEF IInvListing, TypeOKListing
<1>h. /\ hist' \in [Keys -> Seq(Vids)]
      /\ \A j \in Keys : j \notin Taken(k) => hist'[j] = hist[j]
  <2>1. <<>> \in Seq(Vids)
    OBVIOUS
  <2> QED
    BY <2>1 DEF IInvListing, TypeOKListing
<1>3. TypeOKListing' /\ held' \subseteq held
  <2>1. \A h \in held' : h \in held /\ h[2] \in answering' /\ h[2] \in copies'[h[1]]
    BY <1>1
  <2>2. writes' \in 0..MaxWrites
    BY ListingAssumption DEF IInvListing, TypeOKListing
  <2>3. kept' \subseteq Keys \X Vids
    BY <1>2 DEF IInvListing, TypeOKListing
  <2>4. /\ unparsed' \subseteq Keys /\ answering' \subseteq Pool /\ writing' \in Keys \cup {None}
        /\ failures' \in 0..MaxFailures /\ UNCHANGED <<mode, scan, caller>>
    BY DEF IInvListing, TypeOKListing
  <2> QED
    BY <1>1, <1>h, <2>1, <2>2, <2>3, <2>4, WriterTypes
<1>4. VersionWorld'
  <2> SUFFICES ASSUME mode.kind = "versions" PROVE VersionWorld'
    BY DEF VersionWorld
  <2>1. (writing /= None => copies[writing] = {})'
    BY DEF VersionWorld, IInvListing, TypeOKListing
  <2>2. ASSUME NEW e \in kept'
        PROVE /\ e[1] \notin unparsed'
              /\ IF hist'[e[1]] /= <<>> THEN e[2] \in ToSet(hist'[e[1]])
                 ELSE e[2] = Null /\ copies'[e[1]] = Pool
    <3>1. e \in kept /\ e[1] \in Keys /\ e[1] \notin Taken(k)
      BY <1>2 DEF IInvListing, TypeOKListing
    <3>2. hist'[e[1]] = hist[e[1]] /\ copies'[e[1]] = copies[e[1]]
      BY <1>1, <1>h, <3>1
    <3> QED
      BY <3>1, <3>2 DEF VersionWorld, IInvListing
  <2>3. (answering = Pool)'
    BY DEF VersionWorld, IInvListing, Pool
  <2>4. Pool' = Pool
    BY DEF Pool
  <2> QED
    BY <2>1, <2>2, <2>3, <2>4 DEF VersionWorld
<1>5. mode.kind = "versions" => KeptForm'
  <2> SUFFICES ASSUME mode.kind = "versions" PROVE KeptForm'
    OBVIOUS
  <2>1. \A e \in kept' : hist'[e[1]] = hist[e[1]]
    BY <1>2, <1>h DEF IInvListing, TypeOKListing
  <2>2. \A e \in kept' : hist'[e[1]] = <<>> <=> hist[e[1]] = <<>>
    BY <2>1
  <2> QED
    BY <1>2, <2>2, KeptLeft
<1> QED
  BY <1>3, <1>4, <1>5, WriterKeeps

\* The versions a writer leaves alone are still what they were.
LEMMA WorldLeft ==
  ASSUME IInvListing, UNCHANGED <<mode, answering>>, mode.kind = "versions",
         writing' /= None => copies'[writing'] = {},
         \A e \in kept' : /\ e \in kept /\ e[1] \notin unparsed'
                          /\ hist[e[1]] = <<>> => /\ hist'[e[1]] = <<>>
                                                  /\ copies'[e[1]] = copies[e[1]]
                          /\ hist[e[1]] /= <<>> => /\ hist'[e[1]] /= <<>>
                                                   /\ e[2] \in ToSet(hist'[e[1]])
  PROVE  VersionWorld'
<1>1. (answering = Pool)' /\ Pool' = Pool
  BY DEF VersionWorld, IInvListing, Pool
<1>2. ASSUME NEW e \in kept'
      PROVE  /\ e[1] \notin unparsed'
             /\ IF hist'[e[1]] /= <<>> THEN e[2] \in ToSet(hist'[e[1]])
                ELSE e[2] = Null /\ copies'[e[1]] = Pool
  <2>1. e \in kept /\ e[1] \notin unparsed'
    OBVIOUS
  <2>2. CASE hist[e[1]] = <<>>
    <3>1. e[2] = Null /\ copies[e[1]] = Pool
      BY <2>1, <2>2 DEF VersionWorld, IInvListing
    <3> QED
      BY <2>1, <2>2, <3>1
  <2>3. CASE hist[e[1]] /= <<>>
    BY <2>1, <2>3
  <2> QED
    BY <2>2, <2>3
<1> QED
  BY <1>1, <1>2 DEF VersionWorld

\* A versioned write moves the old object away.
LEMMA BeginKeeps == ASSUME IInvListing, NEW k \in Keys, BeginVersionedWrite(k) PROVE IInvListing'
<1> USE DEF BeginVersionedWrite, Write
<1>1. /\ copies' \in [Keys -> SUBSET Pool] /\ held' \subseteq held
      /\ \A h \in held' : h[2] \in answering /\ h[2] \in copies'[h[1]]
      /\ copies'[k] = copies[k] \ answering
      /\ \A j \in Keys : j /= k => copies'[j] = copies[j]
  <2>1. {k} \in SUBSET Keys /\ Gone({k}, answering)
    OBVIOUS
  <2>2. /\ \A h \in held' : h[2] \in answering /\ h[2] \in copies'[h[1]]
        /\ copies' \in [Keys -> SUBSET Pool] /\ held' \subseteq held
        /\ \A j \in {k} : copies'[j] = copies[j] \ answering
        /\ \A j \in Keys : j \notin {k} => copies'[j] = copies[j]
    BY <2>1, GoneFacts, Zenon DEF IInvListing
  <2> QED
    BY <2>2
<1>2. /\ hist' \in [Keys -> Seq(Vids)] /\ kept' \subseteq kept
      /\ \A j \in Keys : hist[j] /= <<>> => hist'[j] /= <<>>
      /\ \A j \in Keys : (hist[j] = <<>> /\ j /= k) => hist'[j] = <<>>
      /\ \A j \in Keys : hist[j] /= <<>> => hist'[j] = hist[j]
      /\ (hist[k] = <<>> /\ copies[k] = {}) => hist'[k] = <<>>
      /\ (hist[k] = <<>> /\ copies[k] /= {}) => kept' = kept \ {<<k, Null>>}
  <2>1. <<Null>> \in Seq(Vids) /\ <<Null>> /= <<>>
    BY ListingAssumption DEF Null, Vids
  <2>2. CASE hist[k] = <<>> /\ copies[k] /= {}
    <3>1. hist' = [hist EXCEPT ![k] = <<Null>>] /\ kept' = kept \ {<<k, Null>>}
      BY <2>2
    <3> QED
      BY <2>1, <2>2, <3>1 DEF IInvListing, TypeOKListing
  <2>3. CASE ~ (hist[k] = <<>> /\ copies[k] /= {})
    BY <2>3 DEF IInvListing, TypeOKListing
  <2> QED
    BY <2>2, <2>3
<1>3. TypeOKListing' /\ held' \subseteq held
  <2>1. \A h \in held' : h \in held /\ h[2] \in answering' /\ h[2] \in copies'[h[1]]
    BY <1>1
  <2>2. writes' \in 0..MaxWrites
    BY ListingAssumption DEF IInvListing, TypeOKListing
  <2>3. kept' \subseteq Keys \X Vids
    BY <1>2 DEF IInvListing, TypeOKListing
  <2> QED
    BY <1>1, <1>2, <2>1, <2>2, <2>3, WriterTypes DEF IInvListing, TypeOKListing
<1>4. ASSUME mode.kind = "versions", NEW e \in kept'
      PROVE  /\ e \in kept /\ e[1] \in Keys
             /\ hist[e[1]] = <<>> => e[1] /= k
  <2>1. e \in kept /\ e[1] \in Keys /\ e = <<e[1], e[2]>>
    BY <1>2 DEF IInvListing, TypeOKListing
  <2>2. SUFFICES ASSUME hist[e[1]] = <<>>, e[1] = k PROVE FALSE
    BY <2>1
  <2>3. e[2] = Null /\ copies[k] = Pool /\ copies[k] /= {}
    BY <1>4, <2>1, <2>2, PoolFacts DEF IInvListing, VersionWorld
  <2> QED
    BY <1>2, <2>1, <2>2, <2>3
<1>5. VersionWorld'
  <2> SUFFICES ASSUME mode.kind = "versions" PROVE VersionWorld'
    BY DEF VersionWorld
  <2>1. writing' /= None => copies'[writing'] = {}
    BY <1>1 DEF IInvListing, VersionWorld, TypeOKListing
  <2>2. ASSUME NEW e \in kept'
        PROVE /\ e \in kept /\ e[1] \notin unparsed'
              /\ hist[e[1]] = <<>> => /\ hist'[e[1]] = <<>> /\ copies'[e[1]] = copies[e[1]]
              /\ hist[e[1]] /= <<>> => /\ hist'[e[1]] /= <<>> /\ e[2] \in ToSet(hist'[e[1]])
    <3>1. e \in kept /\ e[1] \in Keys /\ (hist[e[1]] = <<>> => e[1] /= k)
      BY <1>4
    <3>2. e[1] \notin unparsed'
      OBVIOUS
    <3>3. hist[e[1]] = <<>> => hist'[e[1]] = <<>> /\ copies'[e[1]] = copies[e[1]]
      BY <1>1, <1>2, <3>1
    <3>4. hist[e[1]] /= <<>> => hist'[e[1]] /= <<>> /\ e[2] \in ToSet(hist'[e[1]])
      BY <1>2, <3>1 DEF IInvListing, VersionWorld
    <3> QED
      BY <3>1, <3>2, <3>3, <3>4
  <2> QED
    BY <2>1, <2>2, WorldLeft
<1>6. mode.kind = "versions" => KeptForm'
  <2> SUFFICES ASSUME mode.kind = "versions" PROVE KeptForm'
    OBVIOUS
  <2>1. \A e \in kept' : hist'[e[1]] = <<>> <=> hist[e[1]] = <<>>
    BY <1>2, <1>4
  <2> QED
    BY <1>2, <2>1, KeptLeft
<1> QED
  BY <1>3, <1>5, <1>6, WriterKeeps

\* A versioned write puts the new object in place.
LEMMA PlaceKeeps == ASSUME IInvListing, Place PROVE IInvListing'
<1> USE DEF Place
<1>0. writing \in Keys /\ writing /= None /\ writes + 2 \in Vids /\ writes' \in 0 .. MaxWrites
  BY ListingAssumption DEF IInvListing, TypeOKListing, Vids
<1>1. /\ copies' \in [Keys -> SUBSET Pool] /\ copies'[writing] = answering
      /\ \A j \in Keys : j /= writing => copies'[j] = copies[j]
  BY <1>0 DEF IInvListing, TypeOKListing
<1>2. /\ hist' \in [Keys -> Seq(Vids)] /\ kept' \subseteq kept /\ unparsed' \subseteq Keys
      /\ \A j \in Keys : hist[j] /= <<>> => hist'[j] /= <<>>
      /\ \A j \in Keys : j /= writing => hist'[j] = hist[j]
      /\ \A j \in Keys : \A v \in ToSet(hist[j]) : v \in ToSet(hist'[j])
      /\ \A e \in kept' : e[1] \in unparsed' => e[1] \in unparsed
  <2>1. CASE mode.backend = "fs"
    <3>1. unparsed' = {writing} /\ kept' = kept \ ({writing} \X Vids) /\ hist' = hist
      BY <2>1
    <3>2. \A e \in kept' : e[1] /= writing
      BY <3>1 DEF IInvListing, TypeOKListing
    <3> QED
      BY <1>0, <3>1, <3>2 DEF IInvListing, TypeOKListing
  <2>2. CASE mode.backend /= "fs"
    <3> DEFINE new == <<writes + 2>> \o hist[writing]
    <3>1. hist' = [hist EXCEPT ![writing] = new] /\ kept' = kept /\ unparsed' = unparsed
      BY <2>2
    <3>2. /\ new \in Seq(Vids) /\ new /= <<>>
          /\ \A w \in ToSet(hist[writing]) : w \in ToSet(new)
      BY <1>0, EntryAdded DEF IInvListing, TypeOKListing
    <3> HIDE DEF new
    <3>3. \A j \in Keys : hist'[j] = IF j = writing THEN new ELSE hist[j]
      BY <1>0, <3>1 DEF IInvListing, TypeOKListing
    <3>4. hist' \in [Keys -> Seq(Vids)]
      BY <1>0, <3>1, <3>2 DEF IInvListing, TypeOKListing
    <3>5. \A j \in Keys : hist[j] /= <<>> => hist'[j] /= <<>>
      BY <3>2, <3>3
    <3>6. \A j \in Keys : \A v \in ToSet(hist[j]) : v \in ToSet(hist'[j])
      BY <3>2, <3>3
    <3> QED
      BY <3>1, <3>3, <3>4, <3>5, <3>6 DEF IInvListing, TypeOKListing
  <2> QED
    BY <2>1, <2>2
<1>3. TypeOKListing' /\ held' \subseteq held
  <2>1. \A h \in held' : h \in held /\ h[2] \in answering' /\ h[2] \in copies'[h[1]]
    BY <1>1 DEF IInvListing, TypeOKListing
  <2>2. kept' \subseteq Keys \X Vids
    BY <1>2 DEF IInvListing, TypeOKListing
  <2> QED
    BY <1>0, <1>1, <1>2, <2>1, <2>2, WriterTypes DEF IInvListing, TypeOKListing
<1>4. ASSUME mode.kind = "versions", NEW e \in kept'
      PROVE  /\ e \in kept /\ e[1] \in Keys /\ e[1] \notin unparsed
             /\ hist[e[1]] = <<>> => e[1] /= writing
             /\ hist[e[1]] /= <<>> => e[2] \in ToSet(hist[e[1]])
  <2>1. e \in kept /\ e[1] \in Keys
    BY <1>2 DEF IInvListing, TypeOKListing
  <2> QED
    BY <1>0, <1>4, <2>1, PoolFacts DEF IInvListing, VersionWorld
<1>5. VersionWorld'
  <2> SUFFICES ASSUME mode.kind = "versions" PROVE VersionWorld'
    BY DEF VersionWorld
  <2>1. writing' = None
    OBVIOUS
  <2>2. ASSUME NEW e \in kept'
        PROVE /\ e \in kept /\ e[1] \notin unparsed'
              /\ hist[e[1]] = <<>> => /\ hist'[e[1]] = <<>> /\ copies'[e[1]] = copies[e[1]]
              /\ hist[e[1]] /= <<>> => /\ hist'[e[1]] /= <<>> /\ e[2] \in ToSet(hist'[e[1]])
    <3>1. /\ e \in kept /\ e[1] \in Keys /\ (hist[e[1]] = <<>> => e[1] /= writing)
          /\ e[1] \notin unparsed /\ (hist[e[1]] /= <<>> => e[2] \in ToSet(hist[e[1]]))
      BY <1>4
    <3>2. e[1] \notin unparsed'
      BY <1>2, <3>1
    <3>3. hist[e[1]] = <<>> => hist'[e[1]] = <<>> /\ copies'[e[1]] = copies[e[1]]
      BY <1>1, <1>2, <3>1
    <3>4. hist[e[1]] /= <<>> => hist'[e[1]] /= <<>> /\ e[2] \in ToSet(hist'[e[1]])
      BY <1>2, <3>1
    <3> QED
      BY <3>1, <3>2, <3>3, <3>4
  <2> QED
    BY <2>1, <2>2, WorldLeft
<1>6. mode.kind = "versions" => KeptForm'
  <2> SUFFICES ASSUME mode.kind = "versions" PROVE KeptForm'
    OBVIOUS
  <2>1. \A e \in kept' : hist'[e[1]] = <<>> <=> hist[e[1]] = <<>>
    BY <1>2, <1>4
  <2> QED
    BY <1>2, <2>1, KeptLeft
<1> QED
  BY <1>3, <1>5, <1>6, WriterKeeps

\* A history is complete again.
LEMMA RecordKeeps == ASSUME IInvListing, Record PROVE IInvListing'
<1> USE DEF Record
<1>1. PICK k \in unparsed : hist' = [hist EXCEPT ![k] = <<writes + 2>> \o @]
  OBVIOUS
<1> DEFINE new == <<writes + 2>> \o hist[k]
<1>2. k \in Keys /\ writes + 2 \in Vids
  BY ListingAssumption DEF IInvListing, TypeOKListing, Vids
<1>3. new \in Seq(Vids) /\ new /= <<>>
  BY <1>2, EntryAdded DEF IInvListing, TypeOKListing
<1>4. hist' = [hist EXCEPT ![k] = new]
  BY <1>1
<1> HIDE DEF new
<1>5. hist' \in [Keys -> Seq(Vids)] /\ \A j \in Keys : hist'[j] = IF j = k THEN new ELSE hist[j]
  BY <1>2, <1>3, <1>4 DEF IInvListing, TypeOKListing
<1>6. TypeOKListing' /\ held' \subseteq held
  <2>1. \A h \in held' : h \in held /\ h[2] \in answering' /\ h[2] \in copies'[h[1]]
    BY DEF IInvListing, TypeOKListing
  <2> QED
    BY <1>5, <2>1, WriterTypes DEF IInvListing, TypeOKListing
<1>7. ASSUME mode.kind = "versions", NEW e \in kept'
      PROVE  e \in kept /\ e[1] \in Keys /\ e[1] /= k
  BY <1>7 DEF IInvListing, TypeOKListing, VersionWorld
<1>8. VersionWorld'
  <2> SUFFICES ASSUME mode.kind = "versions" PROVE VersionWorld'
    BY DEF VersionWorld
  <2>1. writing' /= None => copies'[writing'] = {}
    BY DEF IInvListing, VersionWorld
  <2>2. ASSUME NEW e \in kept'
        PROVE /\ e \in kept /\ e[1] \notin unparsed'
              /\ hist[e[1]] = <<>> => /\ hist'[e[1]] = <<>> /\ copies'[e[1]] = copies[e[1]]
              /\ hist[e[1]] /= <<>> => /\ hist'[e[1]] /= <<>> /\ e[2] \in ToSet(hist'[e[1]])
    <3>1. e \in kept /\ e[1] \in Keys /\ e[1] /= k
      BY <1>7
    <3>2. hist'[e[1]] = hist[e[1]]
      BY <1>5, <3>1
    <3> QED
      BY <3>1, <3>2 DEF IInvListing, VersionWorld
  <2> QED
    BY <2>1, <2>2, WorldLeft
<1>9. mode.kind = "versions" => KeptForm'
  <2> SUFFICES ASSUME mode.kind = "versions" PROVE KeptForm'
    OBVIOUS
  <2>1. \A e \in kept' : hist[e[1]] = <<>> => hist'[e[1]] = <<>>
    BY <1>5, <1>7
  <2>2. \A j \in Keys : hist[j] /= <<>> => hist'[j] /= <<>>
    BY <1>3, <1>5
  <2> QED
    BY <2>1, <2>2, KeptLeft
<1> QED
  BY <1>6, <1>8, <1>9, WriterKeeps

\* An old version is deleted.
LEMMA DeleteVersionKeeps == ASSUME IInvListing, NEW k \in Keys, DeleteVersion(k) PROVE IInvListing'
<1> USE DEF DeleteVersion, Write
<1> DEFINE new == RemoveAt(hist[k], 2)
<1>1. hist[k] \in Seq(Vids) /\ Len(hist[k]) > 1
  BY DEF IInvListing, TypeOKListing
<1>2. /\ new \in Seq(Vids) /\ new /= <<>>
      /\ \A v \in ToSet(hist[k]) : v /= hist[k][2] => v \in ToSet(new)
  BY <1>1, SecondGone
<1>3. hist' = [hist EXCEPT ![k] = new] /\ kept' = kept \ {<<k, hist[k][2]>>}
  OBVIOUS
<1> HIDE DEF new
<1>4. hist' \in [Keys -> Seq(Vids)] /\ \A j \in Keys : hist'[j] = IF j = k THEN new ELSE hist[j]
  BY <1>2, <1>3 DEF IInvListing, TypeOKListing
<1>5. hist[k] /= <<>>
  BY <1>1
<1>6. TypeOKListing' /\ held' \subseteq held
  <2>1. \A h \in held' : h \in held /\ h[2] \in answering' /\ h[2] \in copies'[h[1]]
    BY DEF IInvListing, TypeOKListing
  <2>2. kept' \subseteq Keys \X Vids /\ writes' \in 0 .. MaxWrites
    BY <1>3, ListingAssumption DEF IInvListing, TypeOKListing
  <2> QED
    BY <1>4, <2>1, <2>2, WriterTypes DEF IInvListing, TypeOKListing
<1>7. ASSUME NEW e \in kept'
      PROVE  e \in kept /\ e[1] \in Keys /\ (e[1] = k => e[2] /= hist[k][2])
  <2>1. e \in kept /\ e[1] \in Keys /\ e = <<e[1], e[2]>>
    BY <1>3 DEF IInvListing, TypeOKListing
  <2> QED
    BY <1>3, <2>1
<1>8. VersionWorld'
  <2> SUFFICES ASSUME mode.kind = "versions" PROVE VersionWorld'
    BY DEF VersionWorld
  <2>1. writing' /= None => copies'[writing'] = {}
    BY DEF IInvListing, VersionWorld
  <2>2. ASSUME NEW e \in kept'
        PROVE /\ e \in kept /\ e[1] \notin unparsed'
              /\ hist[e[1]] = <<>> => /\ hist'[e[1]] = <<>> /\ copies'[e[1]] = copies[e[1]]
              /\ hist[e[1]] /= <<>> => /\ hist'[e[1]] /= <<>> /\ e[2] \in ToSet(hist'[e[1]])
    <3>1. /\ e \in kept /\ e[1] \in Keys /\ (e[1] = k => e[2] /= hist[k][2])
          /\ e[1] \notin unparsed' /\ (hist[e[1]] /= <<>> => e[2] \in ToSet(hist[e[1]]))
      BY <1>7 DEF IInvListing, VersionWorld
    <3>2. CASE e[1] = k
      BY <1>2, <1>4, <1>5, <3>1, <3>2
    <3>3. CASE e[1] /= k
      BY <1>4, <3>1, <3>3
    <3> QED
      BY <3>2, <3>3
  <2> QED
    BY <2>1, <2>2, WorldLeft
<1>9. mode.kind = "versions" => KeptForm'
  <2> SUFFICES ASSUME mode.kind = "versions" PROVE KeptForm'
    OBVIOUS
  <2>1. \A e \in kept' : hist[e[1]] = <<>> => hist'[e[1]] = <<>>
    BY <1>4, <1>5, <1>7
  <2>2. \A j \in Keys : hist[j] /= <<>> => hist'[j] /= <<>>
    BY <1>2, <1>4
  <2>3. kept' \subseteq kept
    BY <1>3
  <2> QED
    BY <2>1, <2>2, <2>3, KeptLeft
<1> QED
  BY <1>6, <1>8, <1>9, WriterKeeps

\* A drive stops or starts answering.
LEMMA FlipKeeps == ASSUME IInvListing, NEW d \in Drives, Flip(d) PROVE IInvListing'
<1> USE DEF Flip
<1>1. answering' \subseteq Pool
  BY DEF IInvListing, TypeOKListing, Pool
<1>2. \A h \in held' : h \in held /\ h[2] \in answering' /\ h[2] \in copies'[h[1]]
  BY DEF IInvListing, TypeOKListing
<1>3. failures' \in 0 .. MaxFailures
  BY ListingAssumption DEF IInvListing, TypeOKListing
<1>4. TypeOKListing' /\ held' \subseteq held
  BY <1>1, <1>2, <1>3, WriterTypes DEF IInvListing, TypeOKListing
<1>5. VersionWorld'
  BY DEF VersionWorld
<1> QED
  BY <1>4, <1>5, WriterKeeps

\* Every step of a writer keeps the invariant.
LEMMA WritersKeep == ASSUME IInvListing, Writers PROVE IInvListing'
BY PutKeeps, DeleteKeeps, BeginKeeps, DeleteVersionKeeps, PlaceKeeps, RecordKeeps, FlipKeeps
   DEF Writers

-----------------------------------------------------------------------------
(* What a step of the page leaves of the invariant.                        *)

\* The types of a call and of its caller.
Scans == [phase : Phases, token : Nat, left : SUBSET Pool, seen : SUBSET Keys,
          versioned : SUBSET Keys, todo : SUBSET Keys, out : SUBSET (Keys \X Vids),
          groups : SUBSET Nat, next : Nat, cut : BOOLEAN]
Callers == [got : SUBSET (Keys \X Vids), gotGroups : SUBSET Nat, again : BOOLEAN,
            garbled : BOOLEAN, pages : 0..2]

\* What a step of a page has to keep for the types to stay right.
LEMMA PageTypes ==
  ASSUME IInvListing, UNCHANGED <<mode, world>>, scan' \in Scans, caller' \in Callers,
         Cardinality(scan'.out) + Cardinality(scan'.groups) <= mode.size
  PROVE  TypeOKListing' /\ VersionWorld'
<1>1. Pool' = Pool /\ Modes' = Modes
  BY DEF Pool, Modes
<1>2. VersionWorld'
  BY <1>1 DEF IInvListing, VersionWorld, world
<1>3. (scan \in Scans /\ caller \in Callers)'
  BY <1>1 DEF Scans, Callers
<1>4. TypeOKListing'
  BY <1>1, <1>3 DEF IInvListing, TypeOKListing, world, Scans, Callers
<1> QED
  BY <1>2, <1>4

\* The types of a call and its caller, and the size of its page.
LEMMA ScanFacts ==
  ASSUME IInvListing
  PROVE  /\ scan \in Scans /\ caller \in Callers /\ mode.size \in Nat
         /\ Cardinality(scan.out) + Cardinality(scan.groups) <= mode.size
BY ModeFacts DEF IInvListing, TypeOKListing, Scans, Callers

\* A drive is walked (walk_union): what it holds has been seen.
LEMMA WalkKeeps == ASSUME IInvListing, Walk PROVE IInvListing'
<1> DEFINE d == Min(scan.left)
<1>1. scan.phase = "walk" /\ scan.left /= {} /\ scan.left \subseteq Pool /\ scan.left \subseteq Nat
  BY PoolFacts DEF Walk, IInvListing, CallForm, TypeOKListing
<1>2. d \in scan.left
  BY <1>1, SmallestPlace
<1> HIDE DEF d
<1>3. /\ scan'.phase = IF scan.left = {d} THEN "choose" ELSE "walk"
      /\ scan'.token = scan.token /\ scan'.left = scan.left \ {d}
      /\ scan'.seen = scan.seen \cup Visible(d)
      /\ scan'.versioned = scan.versioned \cup {k \in Keys : hist[k] /= <<>>}
      /\ scan'.todo = scan.todo /\ scan'.out = scan.out /\ scan'.groups = scan.groups
      /\ scan'.next = scan.next /\ scan'.cut = scan.cut
  BY <1>1, ScanFacts DEF Walk, d, Scans
<1>4. scan' \in Scans
  BY <1>1, ScanFacts DEF Walk, d, Scans, Visible, Phases
<1>5. UNCHANGED <<mode, world, caller>>
  BY DEF Walk
<1>6. TypeOKListing' /\ VersionWorld'
  BY <1>3, <1>4, <1>5, ScanFacts, PageTypes
<1>7. scan'.phase \in {"walk", "choose"}
  BY <1>3
<1>8. CallForm'
  BY <1>1, <1>2, <1>3, <1>5, <1>7 DEF IInvListing, CallForm
<1>9. PageForm' /\ FullForm'
  BY <1>3, <1>7 DEF PageForm, IInvListing, FullForm, Paging
<1>10. OnceForm'
  BY <1>1, <1>3, <1>5, <1>7 DEF IInvListing, OnceForm, Past
<1>11. HeldForm'
  <2> SUFFICES ASSUME mode.kind /= "versions", ~caller.garbled, NEW h \in held, h[1] > mode.after
               PROVE  /\ (Past(h[1]))' => Shown(h[1], Null)'
                      /\ scan'.phase = "walk" => (h[2] \in scan'.left \/ h[1] \in scan'.seen)
                      /\ scan'.phase = "choose" => h[1] \in scan'.seen
    BY <1>5, <1>7 DEF HeldForm, Paging, world, Past, Shown
  <2>1. Past(h[1]) => Shown(h[1], Null)
    BY DEF IInvListing, HeldForm
  <2>2. (Past(h[1]))' => Shown(h[1], Null)'
    BY <1>3, <1>5, <2>1 DEF Past, Shown
  <2>3. h[2] \in scan.left \/ h[1] \in scan.seen
    BY <1>1 DEF IInvListing, HeldForm
  <2>4. h[1] \in Keys /\ h[2] \in answering /\ h[2] \in copies[h[1]]
    BY DEF IInvListing, TypeOKListing
  <2>5. h[2] \in scan'.left \/ h[1] \in scan'.seen
    BY <1>3, <2>3, <2>4 DEF Visible
  <2>6. scan'.phase = "choose" => scan'.left = {}
    BY <1>3
  <2> QED
    BY <2>2, <2>5, <2>6
<1>12. KeptForm'
  <2> SUFFICES ASSUME mode.kind = "versions" PROVE KeptForm'
    BY <1>5 DEF KeptForm
  <2>1. (\A e \in kept : e[1] \in scan.versioned => hist[e[1]] /= <<>>)'
    BY <1>3, <1>5 DEF IInvListing, KeptForm, world
  <2>2. ASSUME NEW e \in kept
        PROVE  IF hist[e[1]] /= <<>> THEN e[1] \in scan'.versioned ELSE e[1] \in scan'.seen
    <3>1. e[1] \in Keys
      BY DEF IInvListing, TypeOKListing
    <3>2. CASE hist[e[1]] /= <<>>
      BY <1>3, <3>1, <3>2
    <3>3. CASE hist[e[1]] = <<>>
      <4>1. d \in answering /\ d \in copies[e[1]]
        BY <1>1, <1>2, <3>3 DEF IInvListing, VersionWorld
      <4> QED
        BY <1>3, <3>1, <3>3, <4>1 DEF Visible
    <3> QED
      BY <3>2, <3>3
  <2>3. (\A e \in kept : IF hist[e[1]] /= <<>> THEN e[1] \in scan.versioned
                                               ELSE e[1] \in scan.seen)'
    BY <1>5, <2>2 DEF world
  <2>4. (caller.pages = 0 => scan.token = None /\ scan.phase /= "done")'
    BY <1>3, <1>5, <1>7 DEF IInvListing, KeptForm
  <2> QED
    BY <1>7, <2>1, <2>3, <2>4 DEF KeptForm, Paging
<1> QED
  BY <1>6, <1>8, <1>9, <1>10, <1>11, <1>12 DEF IInvListing

\* The page is chosen: whatever is not on it lies after its token
\* (PrefixEnds), and it has room for what is chosen (PageFits).
LEMMA ChooseObjectsKeeps == ASSUME IInvListing, ChooseObjects PROVE IInvListing'
<1> DEFINE page == {k \in Candidates : \A c \in Candidates : Crowded(c) => k < c}
<1>1. /\ mode.kind /= "versions" /\ scan.phase = "choose"
      /\ scan.out = {} /\ scan.groups = {} /\ scan.todo = {} /\ ~scan.cut
  BY DEF ChooseObjects, IInvListing, CallForm
<1>2. UNCHANGED <<mode, world, caller>>
  BY DEF ChooseObjects
<1>3. /\ scan'.phase = "load" /\ scan'.todo = Single(page) /\ scan'.groups = PrefixesOf(page)
      /\ scan'.next = Overflow /\ scan'.token = scan.token /\ scan'.out = {}
      /\ scan'.cut = scan.cut /\ scan'.left = scan.left /\ scan'.seen = scan.seen
      /\ scan'.versioned = scan.versioned
  BY <1>1, ScanFacts DEF ChooseObjects, Scans
<1>4. /\ Candidates \subseteq Keys /\ TypeOKListing
      /\ Overflow = None => \A k \in Candidates : ~Crowded(k)
      /\ Overflow /= None => /\ Overflow \in Candidates /\ Crowded(Overflow)
                             /\ \A k \in Candidates : Crowded(k) => Overflow <= k
  BY OverflowFacts DEF IInvListing
<1>5. page \subseteq Candidates /\ \A k \in page : ~Crowded(k) /\ Before(k) \subseteq page
  <2> SUFFICES ASSUME NEW k \in page PROVE ~Crowded(k) /\ Before(k) \subseteq page
    OBVIOUS
  <2>1. k \in Keys /\ k \in Nat
    BY <1>4, KeyFacts
  <2>2. ~Crowded(k)
    BY <2>1
  <2>3. ASSUME NEW j \in Before(k), NEW c \in Candidates, Crowded(c) PROVE j < c
    <3>1. j < k /\ k < c /\ j \in Nat /\ c \in Nat
      BY <1>4, <2>3, KeyFacts DEF Before
    <3> QED
      BY <2>1, <3>1
  <2> QED
    BY <2>2, <2>3 DEF Before
<1>6. /\ IsFiniteSet(Single(page)) /\ IsFiniteSet(PrefixesOf(page))
      /\ Cardinality(Single(page)) + Cardinality(PrefixesOf(page)) <= mode.size
  <2> HIDE DEF page
  <2> QED
    BY <1>4, <1>5, PageFits
<1>7. \A k \in page : Overflow /= None => k < Overflow
  BY <1>4
<1>8. ASSUME NEW k \in Candidates, k \notin page PROVE Overflow /= None /\ Overflow <= k
  <2>1. PICK c \in Candidates : Crowded(c) /\ ~ (k < c)
    BY <1>8
  <2>2. Overflow /= None /\ Overflow <= c
    BY <1>4, <2>1
  <2>3. k \in Nat /\ c \in Nat /\ Overflow \in Nat
    BY <1>4, <2>2, KeyFacts
  <2> QED
    BY <2>1, <2>2, <2>3
<1>9. page \subseteq Keys /\ page \subseteq Nat /\ \A k \in page : k >= scan.token
  BY <1>4, <1>5, KeyFacts DEF Candidates
<1> HIDE DEF page
<1>10. Single(page) \subseteq page /\ PrefixesOf(page) \subseteq Nat /\ Overflow \in Nat
  <2>1. Overflow \in Nat
    <3>1. CASE Overflow = None
      BY <3>1 DEF None
    <3>2. CASE Overflow /= None
      <4>1. Overflow \in Keys
        BY <1>4, <3>2
      <4> QED
        BY <4>1, KeyFacts
    <3> QED
      BY <3>1, <3>2
  <2> QED
    BY <1>9, <2>1, KeyFacts DEF Single, PrefixesOf
<1>11. /\ Cardinality(scan'.out) = 0 /\ Cardinality(Single(page)) \in Nat
       /\ Cardinality(PrefixesOf(page)) \in Nat
  BY <1>3, <1>6, FS_EmptySet, FS_CardinalityType
<1>12. TypeOKListing' /\ VersionWorld'
  <2>1. scan' \in Scans
    BY <1>1, <1>3, <1>9, <1>10, ScanFacts DEF ChooseObjects, Scans, Phases, page
  <2>2. Cardinality(scan'.out) + Cardinality(scan'.groups) <= mode.size
    BY <1>3, <1>6, <1>11, ScanFacts
  <2> QED
    BY <1>2, <2>1, <2>2, ScanFacts, PageTypes
<1>13. CallForm'
  <2>1. (scan.next \in Keys \cup {None})'
    BY <1>3, <1>4
  <2>2. (mode.kind = "drain") =>
            /\ scan'.next = None /\ scan'.token = None /\ scan'.groups = {}
            /\ ~caller.garbled /\ caller.got = {} /\ caller.gotGroups = {}
    <3> SUFFICES ASSUME mode.kind = "drain"
                 PROVE  /\ scan'.next = None /\ scan'.token = None /\ scan'.groups = {}
                        /\ ~caller.garbled /\ caller.got = {} /\ caller.gotGroups = {}
      OBVIOUS
    <3>1. Overflow = None /\ ~mode.delim
      BY <1>4, DrainWhole, ModeFacts DEF TypeOKListing
    <3> QED
      BY <1>3, <3>1 DEF PrefixesOf, Rolled, IInvListing, CallForm
  <2> QED
    BY <1>1, <1>2, <1>3, <2>1, <2>2 DEF CallForm
<1>14. PageForm'
  <2>0. scan.token \in Nat
    BY ScanFacts DEF Scans
  <2>1. ASSUME NEW k \in scan'.todo PROVE ~ (k < scan'.token)
    <3>1. k \in page
      BY <1>3, <1>10
    <3>2. k \in Nat /\ k >= scan.token
      BY <1>9, <3>1
    <3> QED
      BY <1>3, <2>0, <3>2
  <2>2. ASSUME NEW g \in scan'.groups
        PROVE  g /= 0 /\ mode.delim /\ \E k \in Keys : Group[k] = g /\ ~ (k < scan'.token)
    <3>1. PICK k \in page : Rolled(k) /\ Group[k] = g
      BY <1>3 DEF PrefixesOf
    <3> QED
      BY <1>3, <1>9, <3>1, ScanFacts DEF Rolled, Scans
  <2>3. ASSUME scan'.next /= None, NEW k \in Keys, Group[k] \in scan'.groups PROVE k < scan'.next
    <3>1. PICK j \in page : Rolled(j) /\ Group[j] = Group[k]
      BY <1>3, <2>3 DEF PrefixesOf
    <3>2. j \in Candidates /\ j < Overflow
      BY <1>3, <1>5, <1>7, <2>3
    <3> QED
      BY <1>3, <1>4, <2>3, <3>1, <3>2, PrefixEnds
  <2>4. scan'.next /= None => \A k \in scan'.todo : k < scan'.next
    BY <1>3, <1>7, <1>10
  <2>5. mode' = mode
    BY <1>2
  <2>6. scan'.next /= None => scan'.token <= scan'.next
    BY <1>3, <1>4, <1>10, ScanFacts DEF Candidates, Scans
  <2> QED
    BY <1>1, <1>3, <2>1, <2>2, <2>3, <2>4, <2>5, <2>6 DEF PageForm, Past, Beyond
<1>15. FullForm'
  BY <1>2, <1>3, <1>6, <1>11, ScanFacts, FS_EmptySet DEF FullForm
<1>16. OnceForm'
  BY <1>1, <1>2, <1>3 DEF OnceForm, IInvListing, Past
<1>17. HeldForm'
  <2> SUFFICES ASSUME ~caller.garbled, NEW h \in held, h[1] > mode.after
               PROVE  (Past(h[1]) => Shown(h[1], Null))' /\ Covered(h[1])'
    BY <1>2, <1>3 DEF HeldForm, Paging, world
  <2>1. (Past(h[1]) => Shown(h[1], Null)) /\ h[1] \in scan.seen
    BY <1>1 DEF IInvListing, HeldForm
  <2>2. (Past(h[1]) => Shown(h[1], Null))'
    BY <1>2, <1>3, <2>1 DEF Past, Shown
  <2>c. /\ h[1] < scan'.token => Covered(h[1])'
        /\ (mode.delim /\ Group[h[1]] /= 0 /\ Group[h[1]] \in scan'.groups) => Covered(h[1])'
        /\ h[1] \in scan'.todo => Covered(h[1])'
        /\ (scan'.next /= None /\ h[1] >= scan'.next) => Covered(h[1])'
    BY <1>1, <1>2, Zenon DEF Covered, Past, Rolled
  <2>3. CASE h[1] < scan.token
    BY <1>3, <2>3, <2>2, <2>c
  <2>4. CASE ~ (h[1] < scan.token)
    <3>1. h[1] \in Candidates
      <4>1. h[1] \in Nat /\ scan.token \in Nat
        BY <2>1, KeyFacts, ScanFacts DEF Scans
      <4> QED
        BY <2>1, <2>4, <4>1 DEF Candidates
    <3>2. CASE h[1] \in page /\ Rolled(h[1])
      <4>1. Group[h[1]] \in scan'.groups /\ mode.delim /\ Group[h[1]] /= 0
        BY <1>2, <1>3, <3>2 DEF PrefixesOf, Rolled
      <4> QED
        BY <4>1, <2>2, <2>c
    <3>3. CASE h[1] \in page /\ ~Rolled(h[1])
      BY <1>3, <3>3, <2>2, <2>c DEF Single
    <3>4. CASE h[1] \notin page
      <4>1. Overflow /= None /\ Overflow <= h[1]
        BY <1>8, <3>1, <3>4
      <4>2. h[1] \in Nat
        BY <3>1, <1>4, KeyFacts
      <4> QED
        BY <1>3, <1>10, <4>1, <4>2, <2>2, <2>c
    <3> QED
      BY <3>2, <3>3, <3>4
  <2> QED
    BY <2>2, <2>3, <2>4
<1>18. KeptForm'
  BY <1>1, <1>2 DEF KeptForm
<1> QED
  BY <1>12, <1>13, <1>14, <1>15, <1>16, <1>17, <1>18 DEF IInvListing

\* An object of the page is read, or is gone by now.
LEMMA LoadObjectKeeps == ASSUME IInvListing, LoadObject PROVE IInvListing'
<1> DEFINE k == Min(scan.todo)
<1>1. /\ mode.kind /= "versions" /\ scan.phase = "load" /\ scan.todo /= {}
      /\ scan.todo \subseteq Keys /\ scan.todo \subseteq Nat
  BY KeyFacts, ScanFacts DEF LoadObject, Scans
<1>2. k \in scan.todo
  BY <1>1, SmallestPlace
<1>3. UNCHANGED <<mode, world, caller>>
  BY DEF LoadObject
<1> HIDE DEF k
<1>4. /\ scan'.token = scan.token /\ scan'.groups = scan.groups /\ scan'.next = scan.next
      /\ scan'.left = scan.left /\ scan'.seen = scan.seen /\ scan'.versioned = scan.versioned
      /\ scan'.cut = scan.cut
  BY <1>1, ScanFacts DEF LoadObject, Scans, k
<1>5. \/ /\ scan'.phase = "load" /\ scan'.todo = scan.todo \ {k}
         /\ scan'.out = scan.out \cup {<<k, Null>>}
      \/ scan'.phase = "failed" /\ scan'.todo = scan.todo /\ scan'.out = scan.out
      \/ /\ scan'.phase = "load" /\ scan'.todo = scan.todo \ {k}
         /\ scan'.out = scan.out /\ copies[k] \cap answering = {}
  BY <1>1, ScanFacts DEF LoadObject, Scans, k
<1>6. scan' \in Scans
  <2>1. <<k, Null>> \in Keys \X Vids
    BY <1>1, <1>2, ListingAssumption DEF Null, Vids
  <2>2. scan'.phase \in Phases /\ scan'.todo \subseteq Keys /\ scan'.out \subseteq Keys \X Vids
    BY <1>1, <1>5, <2>1, ScanFacts DEF Scans, Phases
  <2>3. scan' = [scan EXCEPT !.phase = scan'.phase, !.todo = scan'.todo, !.out = scan'.out]
    BY <1>1, ScanFacts DEF LoadObject, Scans
  <2> HIDE DEF LoadObject
  <2> QED
    BY <2>2, <2>3, ScanFacts DEF Scans
<1>7. /\ IsFiniteSet(scan.todo) /\ IsFiniteSet(scan.out) /\ IsFiniteSet(scan.groups)
      /\ Cardinality(scan.todo) \in Nat /\ Cardinality(scan.out) \in Nat
      /\ Cardinality(scan.groups) \in Nat
  <2>1. IsFiniteSet(scan.todo)
    BY <1>1, KeyFacts, FS_Subset
  <2>2. IsFiniteSet(scan.out) /\ IsFiniteSet(scan.groups)
    BY DEF IInvListing, FullForm
  <2> QED
    BY <2>1, <2>2, FS_CardinalityType
<1>8. FullForm' /\ Cardinality(scan'.out) + Cardinality(scan'.groups) <= mode.size
  <2>1. Cardinality(scan.out) + Cardinality(scan.todo) + Cardinality(scan.groups) <= mode.size
    BY <1>1 DEF IInvListing, FullForm, Paging
  <2> DEFINE more == scan.out \cup {<<k, Null>>}
  <2>a. Cardinality(scan.todo \ {k}) = Cardinality(scan.todo) - 1
        /\ Cardinality(scan.todo \ {k}) \in Nat
    BY <1>2, <1>7, FS_RemoveElement, FS_CardinalityType
  <2>b. IsFiniteSet(more) /\ Cardinality(more) = IF <<k, Null>> \in scan.out THEN Cardinality(scan.out)
                                                 ELSE Cardinality(scan.out) + 1
    BY <1>7, FS_AddElement
  <2>2. IsFiniteSet(scan'.out) /\ Cardinality(scan'.out) \in Nat
        /\ Cardinality(scan'.out) <= Cardinality(scan.out) + 1
    <3>1. scan'.out = more \/ scan'.out = scan.out
      BY <1>5
    <3> HIDE DEF more
    <3> QED
      BY <1>7, <2>b, <3>1
  <2> HIDE DEF more
  <2>3. CASE scan'.phase = "failed"
    BY <1>3, <1>4, <1>5, <1>7, <2>2, <2>3, ScanFacts DEF FullForm, Paging
  <2>4. CASE scan'.phase = "load"
    <3>1. /\ Cardinality(scan'.todo) = Cardinality(scan.todo) - 1 /\ Cardinality(scan'.todo) \in Nat
          /\ scan'.out /= scan.out \/ Cardinality(scan'.out) = Cardinality(scan.out)
      BY <1>5, <1>7, <2>a, <2>4
    <3>2. /\ Cardinality(scan'.out) + Cardinality(scan'.todo) + Cardinality(scan'.groups) <= mode.size
          /\ Cardinality(scan'.out) + Cardinality(scan'.groups) <= mode.size
      BY <1>2, <1>4, <1>7, <2>1, <2>2, <3>1, ScanFacts
    <3> QED
      BY <1>3, <1>4, <1>7, <2>2, <3>2 DEF FullForm
  <2> QED
    BY <1>5, <2>3, <2>4
<1>9. TypeOKListing' /\ VersionWorld'
  BY <1>3, <1>6, <1>8, ScanFacts, PageTypes
<1>10. CallForm'
  BY <1>1, <1>3, <1>4, <1>5 DEF IInvListing, CallForm
<1>11. PageForm'
  <2> SUFFICES ASSUME scan'.phase = "load" PROVE PageForm'
    BY <1>5 DEF PageForm, Paging
  <2>1. /\ \A t \in scan.todo : ~ (t < scan.token)
        /\ \A e \in scan.out : ~ (e[1] < scan.token)
        /\ \A g \in scan.groups : g /= 0 /\ mode.delim /\ \E j \in Keys : Group[j] = g /\ ~ (j < scan.token)
        /\ scan.next /= None => /\ scan.token <= scan.next
                                /\ \A t \in scan.todo : t < scan.next
                                /\ \A e \in scan.out : e[1] < scan.next
                                /\ \A j \in Keys : Group[j] \in scan.groups => j < scan.next
    BY <1>1 DEF IInvListing, PageForm, Past, Beyond, Paging
  <2>2. /\ \A t \in scan'.todo : t \in scan.todo
        /\ \A e \in scan'.out : e \in scan.out \/ e = <<k, Null>>
    BY <1>5
  <2>3. /\ \A t \in scan'.todo : ~ (t < scan.token)
        /\ \A e \in scan'.out : ~ (e[1] < scan.token)
    BY <1>2, <2>1, <2>2
  <2>4. scan.next /= None => /\ \A t \in scan'.todo : t < scan.next
                             /\ \A e \in scan'.out : e[1] < scan.next
    BY <1>2, <2>1, <2>2
  <2>5. mode' = mode
    BY <1>3
  <2> HIDE DEF LoadObject
  <2> QED
    BY <1>1, <1>4, <2>1, <2>3, <2>4, <2>5 DEF PageForm, Past, Beyond
<1>12. OnceForm'
  BY <1>1, <1>3, <1>4, <1>5 DEF OnceForm, IInvListing, Past
<1>13. HeldForm'
  <2> SUFFICES ASSUME ~caller.garbled, NEW h \in held, h[1] > mode.after
               PROVE  /\ (Past(h[1]) => Shown(h[1], Null))'
                      /\ scan'.phase = "load" => Covered(h[1])'
    BY <1>3, <1>5 DEF HeldForm, Paging, world
  <2>1. (Past(h[1]) => Shown(h[1], Null)) /\ Covered(h[1])
    BY <1>1 DEF IInvListing, HeldForm, Paging
  <2>2. (Past(h[1]) => Shown(h[1], Null))'
    BY <1>3, <1>4, <2>1 DEF Past, Shown
  <2>3. h[1] \in Keys /\ h[2] \in answering /\ h[2] \in copies[h[1]]
    BY DEF IInvListing, TypeOKListing
  <2>4. ASSUME scan'.phase = "load", h[1] \in scan.todo
        PROVE  h[1] \in scan'.todo \/ <<h[1], Null>> \in scan'.out
    BY <1>5, <2>3, <2>4
  <2>5. ASSUME scan'.phase = "load", <<h[1], Null>> \in scan.out
        PROVE  <<h[1], Null>> \in scan'.out
    BY <1>5, <2>5
  <2>6. scan'.phase = "load" => Covered(h[1])'
    BY <1>3, <1>4, <2>1, <2>4, <2>5 DEF Covered, Past, Rolled
  <2> QED
    BY <2>2, <2>6
<1>14. KeptForm'
  BY <1>1, <1>3 DEF KeptForm
<1> QED
  BY <1>8, <1>9, <1>10, <1>11, <1>12, <1>13, <1>14 DEF IInvListing

\* The page is complete.
LEMMA LoadedKeeps == ASSUME IInvListing, Loaded PROVE IInvListing'
<1>1. scan.phase = "load" /\ scan.todo = {}
  BY DEF Loaded
<1>2. UNCHANGED <<mode, world, caller>>
  BY DEF Loaded
<1>3. /\ scan'.phase = IF mode.kind /= "drain" THEN "answer"
                       ELSE IF scan.out = {} THEN "done" ELSE "delete"
      /\ scan'.token = scan.token /\ scan'.groups = scan.groups /\ scan'.next = scan.next
      /\ scan'.left = scan.left /\ scan'.seen = scan.seen /\ scan'.versioned = scan.versioned
      /\ scan'.cut = scan.cut /\ scan'.todo = {} /\ scan'.out = scan.out
  BY <1>1, ScanFacts DEF Loaded, Scans
<1>4. scan' \in Scans
  BY <1>1, ScanFacts DEF Loaded, Scans, Phases
<1>5. TypeOKListing' /\ VersionWorld'
  BY <1>2, <1>3, <1>4, ScanFacts, PageTypes
<1>6. CallForm'
  BY <1>1, <1>2, <1>3 DEF IInvListing, CallForm
<1>7. PageForm' /\ FullForm'
  <2>1. FullForm'
    BY <1>1, <1>2, <1>3 DEF IInvListing, FullForm, Paging
  <2>2. PageForm'
    BY <1>1, <1>2, <1>3 DEF IInvListing, PageForm, Past, Beyond, Paging
  <2> QED
    BY <2>1, <2>2
<1>8. OnceForm'
  BY <1>1, <1>2, <1>3 DEF OnceForm, IInvListing, Past
<1>9. HeldForm'
  <2> SUFFICES ASSUME mode.kind /= "versions", ~caller.garbled, NEW h \in held, h[1] > mode.after
               PROVE  /\ (Past(h[1]) => Shown(h[1], Null))'
                      /\ scan'.phase = "done" => Shown(h[1], Null)'
                      /\ scan'.phase = "answer" => Covered(h[1])'
    BY <1>2, <1>3 DEF HeldForm, Paging, world
  <2>1. (Past(h[1]) => Shown(h[1], Null)) /\ Covered(h[1])
    BY <1>1 DEF IInvListing, HeldForm, Paging
  <2>2. (Past(h[1]) => Shown(h[1], Null))'
    BY <1>2, <1>3, <2>1 DEF Past, Shown
  <2>3. Covered(h[1])'
    BY <1>1, <1>2, <1>3, <2>1 DEF Covered, Past, Rolled
  <2>4. ASSUME scan'.phase = "done" PROVE FALSE
    <3>1. mode.kind = "drain" /\ scan.out = {}
      BY <1>3, <2>4
    <3>2. scan.token = None /\ scan.next = None /\ scan.groups = {}
      BY <3>1 DEF IInvListing, CallForm
    <3>3. h[1] \in Nat
      BY KeyFacts DEF IInvListing, TypeOKListing
    <3> QED
      BY <1>1, <2>1, <3>1, <3>2, <3>3 DEF Covered, Past, None
  <2> QED
    BY <2>2, <2>3, <2>4
<1>10. KeptForm'
  BY <1>1, <1>2, <1>3 DEF IInvListing, KeptForm, Paging, Shown, Rolled, world
<1> QED
  BY <1>5, <1>6, <1>7, <1>8, <1>9, <1>10 DEF IInvListing

\* The keys of a page of versions are chosen.
LEMMA ChooseVersionsKeeps == ASSUME IInvListing, ChooseVersions PROVE IInvListing'
<1>1. /\ mode.kind = "versions" /\ scan.phase = "choose"
      /\ scan.out = {} /\ scan.groups = {} /\ scan.next = None /\ scan.todo = {} /\ ~scan.cut
  BY DEF ChooseVersions, IInvListing, CallForm
<1>2. UNCHANGED <<mode, world, caller>>
  BY DEF ChooseVersions
<1>3. /\ scan'.phase = "load" /\ scan'.token = scan.token
      /\ scan'.todo = {k \in scan.seen \cup scan.versioned : mode.backend = "fs" => k > scan.token}
      /\ scan'.out = {} /\ scan'.groups = {} /\ scan'.next = None /\ scan'.cut = scan.cut
      /\ scan'.left = scan.left /\ scan'.seen = scan.seen /\ scan'.versioned = scan.versioned
  BY <1>1, ScanFacts DEF ChooseVersions, Scans
<1>4. scan.seen \subseteq Keys /\ scan.versioned \subseteq Keys /\ scan.token \in Nat
  BY ScanFacts DEF Scans
<1>5. scan' \in Scans
  BY <1>1, <1>4, ScanFacts DEF ChooseVersions, Scans, Phases
<1>6. TypeOKListing' /\ VersionWorld'
  <2>1. Cardinality(scan'.out) + Cardinality(scan'.groups) <= mode.size
    BY <1>1, <1>3, ScanFacts
  <2> QED
    BY <1>2, <1>5, <2>1, ScanFacts, PageTypes
<1>7. CallForm'
  BY <1>1, <1>2, <1>3 DEF IInvListing, CallForm
<1>8. PageForm'
  <2>1. ASSUME NEW k \in scan'.todo PROVE ~ (k <= scan.token)
    <3>1. k \in Keys /\ k \in Nat \ {0}
      BY <1>3, <1>4, KeyFacts
    <3>2. CASE mode.backend = "fs"
      BY <1>3, <1>4, <3>1, <3>2
    <3>3. CASE mode.backend /= "fs"
      <4>1. scan.token = 0
        BY <1>1, <3>3 DEF IInvListing, CallForm, None
      <4> QED
        BY <3>1, <4>1
    <3> QED
      BY <3>2, <3>3
  <2>2. mode' = mode
    BY <1>2
  <2> QED
    BY <1>1, <1>3, <2>1, <2>2 DEF PageForm, Past
<1>9. FullForm' /\ HeldForm'
  BY <1>1, <1>2, <1>3, FS_EmptySet DEF FullForm, HeldForm
<1>10. OnceForm'
  BY <1>1, <1>2, <1>3 DEF OnceForm, IInvListing, Past
<1>11. KeptForm'
  <2>1. ASSUME caller.pages = 0, NEW e \in kept PROVE e[1] \in scan'.todo
    <3>1. scan.token = 0 /\ e[1] \in scan.seen \cup scan.versioned
      BY <1>1, <2>1 DEF IInvListing, KeptForm, None
    <3>2. e[1] > 0
      <4>1. e[1] \in Keys
        BY DEF IInvListing, TypeOKListing
      <4>2. \A k \in Keys : k > 0
        BY KeyFacts
      <4> QED
        BY <4>1, <4>2
    <3> QED
      BY <1>3, <3>1, <3>2
  <2> QED
    BY <1>1, <1>2, <1>3, <2>1 DEF IInvListing, KeptForm, Paging, world
<1> QED
  BY <1>6, <1>7, <1>8, <1>9, <1>10, <1>11 DEF IInvListing

\* The entries of a key that go on the page.
TakenOf(k, m) == {<<k, Entries(k)[i]>> : i \in 1 .. m}
RoomFor(k)    == IF Room < Len(Entries(k)) THEN Room ELSE Len(Entries(k))

\* The entries of a key are versions.
LEMMA EntriesFacts ==
  ASSUME IInvListing, NEW k \in Keys
  PROVE  Entries(k) \in Seq(Vids) /\ Len(Entries(k)) \in Nat
<1>1. Null \in Vids
  BY ListingAssumption DEF Null, Vids
<1>2. hist[k] \in Seq(Vids) /\ <<>> \in Seq(Vids) /\ <<Null>> \in Seq(Vids)
  BY <1>1 DEF IInvListing, TypeOKListing
<1>3. Entries(k) \in Seq(Vids)
  BY <1>2 DEF Entries
<1> QED
  BY <1>3

\* What is on the page and its room make up the size asked for.
LEMMA RoomFacts ==
  ASSUME IInvListing
  PROVE  /\ IsFiniteSet(scan.out) /\ IsFiniteSet(scan.groups)
         /\ Cardinality(scan.out) \in Nat /\ Cardinality(scan.groups) \in Nat
         /\ Room \in Nat
         /\ Cardinality(scan.out) + Cardinality(scan.groups) + Room = mode.size
<1>1. IsFiniteSet(scan.out) /\ IsFiniteSet(scan.groups)
  BY DEF IInvListing, FullForm
<1>2. Cardinality(scan.out) \in Nat /\ Cardinality(scan.groups) \in Nat
  BY <1>1, FS_CardinalityType
<1> QED
  BY <1>1, <1>2, ScanFacts DEF Room

\* The entries taken of a key fit on the page.
LEMMA TakenFacts ==
  ASSUME IInvListing, NEW k \in Keys, k \in scan.todo
  PROVE  /\ TakenOf(k, RoomFor(k)) \subseteq Keys \X Vids
         /\ \A e \in TakenOf(k, RoomFor(k)) : e[1] = k
         /\ IsFiniteSet(scan.out \cup TakenOf(k, RoomFor(k)))
         /\ Cardinality(scan.out \cup TakenOf(k, RoomFor(k))) + Cardinality(scan.groups) <= mode.size
<1> DEFINE es == Entries(k)
           m  == RoomFor(k)
           t  == TakenOf(k, m)
<1>1. es \in Seq(Vids) /\ Len(es) \in Nat
  BY EntriesFacts
<1>2. m \in Nat /\ m <= Room /\ m <= Len(es)
  <2>1. Room \in Nat
    BY RoomFacts
  <2> QED
    BY <1>1, <2>1 DEF RoomFor
<1>3. \A i \in 1 .. m : es[i] \in Vids
  <2> HIDE DEF es, m
  <2> QED
    BY <1>1, <1>2
<1> HIDE DEF m
<1>4. t \subseteq Keys \X Vids /\ \A e \in t : e[1] = k
  BY <1>3 DEF TakenOf
<1>5. IsFiniteSet(t) /\ Cardinality(t) <= m
  <2> DEFINE f == [i \in 1 .. m |-> <<k, es[i]>>]
  <2>1. f \in Surjection(1 .. m, t)
    BY DEF Surjection, TakenOf
  <2>2. 1 \in Int /\ m \in Int
    BY <1>2
  <2>3. IsFiniteSet(1 .. m) /\ Cardinality(1 .. m) = IF 1 > m THEN 0 ELSE m - 1 + 1
    BY <2>2, FS_Interval, Zenon
  <2>4. Cardinality(1 .. m) = m
    BY <1>2, <2>3
  <2> HIDE DEF f, t
  <2> QED
    BY <2>1, <2>3, <2>4, FS_Surjection
<1> HIDE DEF t
<1>6. /\ IsFiniteSet(scan.out \cup t)
      /\ Cardinality(scan.out \cup t) <= Cardinality(scan.out) + Cardinality(t)
      /\ Cardinality(t) \in Nat /\ Cardinality(scan.out \cup t) \in Nat
  <2>1. IsFiniteSet(scan.out)
    BY RoomFacts
  <2>2. /\ IsFiniteSet(scan.out \cup t)
        /\ Cardinality(scan.out \cup t) =
             Cardinality(scan.out) + Cardinality(t) - Cardinality(scan.out \cap t)
    BY <1>5, <2>1, FS_Union
  <2>3. IsFiniteSet(scan.out \cap t)
    BY <2>1, FS_Subset
  <2>4. /\ Cardinality(scan.out \cap t) \in Nat /\ Cardinality(t) \in Nat
        /\ Cardinality(scan.out) \in Nat /\ Cardinality(scan.out \cup t) \in Nat
    BY <1>5, <2>1, <2>2, <2>3, FS_CardinalityType
  <2> QED
    BY <2>2, <2>4
<1>7. Cardinality(scan.out \cup t) + Cardinality(scan.groups) <= mode.size
  BY <1>2, <1>5, <1>6, RoomFacts, ScanFacts
<1> QED
  BY <1>4, <1>6, <1>7 DEF t, m

\* The ways a key's turn ends: its prefix is on the page or goes there, its
\* entries go there, the page is cut off before or in it, or the listing fails.
ExpandSteps(k) ==
  \/ /\ Rolled(k) /\ Group[k] \in scan.groups
     /\ scan'.phase = "load" /\ scan'.todo = scan.todo \ {k} /\ scan'.cut = scan.cut
     /\ scan'.next = scan.next /\ scan'.out = scan.out /\ scan'.groups = scan.groups
  \/ /\ Rolled(k) /\ Room > 0
     /\ scan'.phase = "load" /\ scan'.todo = scan.todo \ {k} /\ scan'.cut = scan.cut
     /\ scan'.next = scan.next /\ scan'.out = scan.out
     /\ scan'.groups = scan.groups \cup {Group[k]}
  \/ /\ Rolled(k) /\ Group[k] \notin scan.groups
     /\ scan'.phase = "load" /\ scan'.todo = {} /\ scan'.cut = TRUE
     /\ scan'.next = IF mode.backend = "fs" THEN k ELSE None
     /\ scan'.out = scan.out /\ scan'.groups = scan.groups
  \/ /\ scan'.phase = "failed" /\ scan'.todo = scan.todo /\ scan'.cut = scan.cut
     /\ scan'.next = scan.next /\ scan'.out = scan.out /\ scan'.groups = scan.groups
  \/ /\ ~Rolled(k)
     /\ scan'.phase = "load" /\ scan'.todo = {} /\ scan'.cut = TRUE
     /\ scan'.next = IF mode.backend = "fs" THEN k ELSE None
     /\ scan'.out = scan.out \cup TakenOf(k, RoomFor(k)) /\ scan'.groups = scan.groups
  \/ /\ ~Rolled(k) /\ ~ (Len(Entries(k)) > Room)
     /\ scan'.phase = "load" /\ scan'.todo = scan.todo \ {k} /\ scan'.cut = scan.cut
     /\ scan'.next = scan.next
     /\ scan'.out = scan.out \cup TakenOf(k, RoomFor(k)) /\ scan'.groups = scan.groups

\* What expanding a key may do, case by case.
LEMMA ExpandCases ==
  ASSUME IInvListing, ExpandKey, NEW k, k = Min(scan.todo), k \in Keys
  PROVE  /\ ExpandSteps(k)
         /\ scan'.token = scan.token /\ scan'.left = scan.left
         /\ scan'.seen = scan.seen /\ scan'.versioned = scan.versioned
         /\ scan' = [scan EXCEPT !.phase = scan'.phase, !.todo = scan'.todo, !.cut = scan'.cut,
                                 !.next = scan'.next, !.out = scan'.out, !.groups = scan'.groups]
<1> DEFINE rest  == [scan EXCEPT !.todo = @ \ {k}]
           taken == TakenOf(k, RoomFor(k))
<1>1. scan \in Scans /\ scan.phase = "load"
  BY ScanFacts DEF ExpandKey
<1>2. scan' = IF Rolled(k)
              THEN IF Group[k] \in scan.groups THEN rest
                   ELSE IF Room <= 0 THEN Cut(k)
                   ELSE [rest EXCEPT !.groups = @ \cup {Group[k]}]
              ELSE IF k \notin scan.versioned /\ Entries(k) = <<>> /\ mode.backend = "fs"
                   THEN [scan EXCEPT !.phase = "failed"]
              ELSE IF Len(Entries(k)) > Room
                   THEN [Cut(k) EXCEPT !.out = @ \cup taken]
                   ELSE [rest EXCEPT !.out = @ \cup taken]
  BY DEF ExpandKey, TakenOf, RoomFor
<1>3. Room \in Nat
  BY RoomFacts
<1> HIDE DEF taken
<1>4. CASE Rolled(k) /\ Group[k] \in scan.groups
  BY <1>1, <1>2, <1>4 DEF ExpandSteps, Scans
<1>5. CASE Rolled(k) /\ Group[k] \notin scan.groups /\ Room <= 0
  BY <1>1, <1>2, <1>5 DEF ExpandSteps, Scans, Cut
<1>6. CASE Rolled(k) /\ Group[k] \notin scan.groups /\ ~ (Room <= 0)
  <2>1. Room > 0
    BY <1>3, <1>6
  <2> QED
    BY <1>1, <1>2, <1>6, <2>1 DEF ExpandSteps, Scans
<1>7. CASE ~Rolled(k) /\ k \notin scan.versioned /\ Entries(k) = <<>> /\ mode.backend = "fs"
  BY <1>1, <1>2, <1>7 DEF ExpandSteps, Scans
<1>8. CASE /\ ~Rolled(k) /\ ~ (k \notin scan.versioned /\ Entries(k) = <<>> /\ mode.backend = "fs")
           /\ Len(Entries(k)) > Room
  BY <1>1, <1>2, <1>8 DEF ExpandSteps, Scans, Cut, taken
<1>9. CASE /\ ~Rolled(k) /\ ~ (k \notin scan.versioned /\ Entries(k) = <<>> /\ mode.backend = "fs")
           /\ ~ (Len(Entries(k)) > Room)
  BY <1>1, <1>2, <1>9 DEF ExpandSteps, Scans, taken
<1> QED
  BY <1>4, <1>5, <1>6, <1>7, <1>8, <1>9

\* A key's versions go on the page.
LEMMA ExpandKeyKeeps == ASSUME IInvListing, ExpandKey PROVE IInvListing'
<1> DEFINE k     == Min(scan.todo)
           taken == TakenOf(k, RoomFor(k))
<1>1. /\ mode.kind = "versions" /\ scan.phase = "load" /\ scan.todo /= {}
      /\ scan.todo \subseteq Keys /\ scan.todo \subseteq Nat /\ scan.token \in Nat
  BY KeyFacts, ScanFacts DEF ExpandKey, Scans
<1>2. k \in scan.todo /\ k \in Keys /\ \A t \in scan.todo : k <= t
  BY <1>1, SmallestPlace
<1>3. UNCHANGED <<mode, world, caller>>
  BY DEF ExpandKey
<1>4. /\ ExpandSteps(k)
      /\ scan'.token = scan.token /\ scan'.left = scan.left
      /\ scan'.seen = scan.seen /\ scan'.versioned = scan.versioned
      /\ scan' = [scan EXCEPT !.phase = scan'.phase, !.todo = scan'.todo, !.cut = scan'.cut,
                              !.next = scan'.next, !.out = scan'.out, !.groups = scan'.groups]
  BY <1>2, ExpandCases
<1>5. /\ taken \subseteq Keys \X Vids /\ \A e \in taken : e[1] = k
      /\ IsFiniteSet(scan.out \cup taken)
      /\ Cardinality(scan.out \cup taken) + Cardinality(scan.groups) <= mode.size
  BY <1>2, TakenFacts
<1> HIDE DEF k, taken
<1>6. ExpandSteps(k) <=>
        \/ /\ Rolled(k) /\ Group[k] \in scan.groups
           /\ scan'.phase = "load" /\ scan'.todo = scan.todo \ {k} /\ scan'.cut = scan.cut
           /\ scan'.next = scan.next /\ scan'.out = scan.out /\ scan'.groups = scan.groups
        \/ /\ Rolled(k) /\ Room > 0
           /\ scan'.phase = "load" /\ scan'.todo = scan.todo \ {k} /\ scan'.cut = scan.cut
           /\ scan'.next = scan.next /\ scan'.out = scan.out
           /\ scan'.groups = scan.groups \cup {Group[k]}
        \/ /\ Rolled(k) /\ Group[k] \notin scan.groups
           /\ scan'.phase = "load" /\ scan'.todo = {} /\ scan'.cut = TRUE
           /\ scan'.next = IF mode.backend = "fs" THEN k ELSE None
           /\ scan'.out = scan.out /\ scan'.groups = scan.groups
        \/ /\ scan'.phase = "failed" /\ scan'.todo = scan.todo /\ scan'.cut = scan.cut
           /\ scan'.next = scan.next /\ scan'.out = scan.out /\ scan'.groups = scan.groups
        \/ /\ ~Rolled(k)
           /\ scan'.phase = "load" /\ scan'.todo = {} /\ scan'.cut = TRUE
           /\ scan'.next = IF mode.backend = "fs" THEN k ELSE None
           /\ scan'.out = scan.out \cup taken /\ scan'.groups = scan.groups
        \/ /\ ~Rolled(k) /\ ~ (Len(Entries(k)) > Room)
           /\ scan'.phase = "load" /\ scan'.todo = scan.todo \ {k} /\ scan'.cut = scan.cut
           /\ scan'.next = scan.next
           /\ scan'.out = scan.out \cup taken /\ scan'.groups = scan.groups
  BY Zenon DEF ExpandSteps, taken
<1>7. Rolled(k) <=> (mode.delim /\ Group[k] /= 0)
  BY DEF Rolled
<1>8. /\ scan'.phase \in {"load", "failed"}
      /\ scan'.todo \in SUBSET scan.todo
      /\ scan'.out \in {scan.out, scan.out \cup taken}
      /\ scan'.groups \in {scan.groups, scan.groups \cup {Group[k]}}
      /\ scan'.next \in {scan.next, k, None} /\ scan'.cut \in BOOLEAN
      /\ mode.backend /= "fs" => scan'.next \in {scan.next, None}
  BY <1>4, <1>6, ScanFacts DEF Scans
<1>9. scan' \in Scans
  <2>1. Group[k] \in Nat /\ k \in Nat /\ None \in Nat
    BY <1>2, KeyFacts DEF None
  <2>2. /\ scan'.phase \in Phases /\ scan'.todo \subseteq Keys /\ scan'.out \subseteq Keys \X Vids
        /\ scan'.groups \subseteq Nat /\ scan'.next \in Nat /\ scan'.cut \in BOOLEAN
    BY <1>1, <1>5, <1>8, <2>1, ScanFacts DEF Scans, Phases
  <2> QED
    BY <1>4, <2>2, ScanFacts DEF Scans
<1>10. /\ IsFiniteSet(scan'.out) /\ IsFiniteSet(scan'.groups)
       /\ Cardinality(scan'.out) + Cardinality(scan'.groups) <= mode.size
  <2>1. /\ IsFiniteSet(scan.out) /\ IsFiniteSet(scan.groups)
        /\ Cardinality(scan.out) \in Nat /\ Cardinality(scan.groups) \in Nat
        /\ Room \in Nat /\ Cardinality(scan.out) + Cardinality(scan.groups) + Room = mode.size
    BY RoomFacts
  <2> DEFINE more == scan.groups \cup {Group[k]}
  <2>2. IsFiniteSet(more) /\ Cardinality(more) \in Nat /\ Cardinality(more) <= Cardinality(scan.groups) + 1
    <3>1. IsFiniteSet(more) /\ Cardinality(more) =
            IF Group[k] \in scan.groups THEN Cardinality(scan.groups) ELSE Cardinality(scan.groups) + 1
      BY <2>1, FS_AddElement
    <3> HIDE DEF more
    <3> QED
      BY <2>1, <3>1
  <2>3. CASE scan'.groups = more /\ scan'.out = scan.out /\ Room > 0
    <3> HIDE DEF more
    <3> QED
      BY <2>1, <2>2, <2>3, ScanFacts
  <2>4. CASE scan'.groups = scan.groups
    BY <1>5, <1>8, <2>1, <2>4, ScanFacts
  <2> QED
    BY <1>4, <1>6, <2>3, <2>4
<1>11. TypeOKListing' /\ VersionWorld'
  BY <1>3, <1>9, <1>10, ScanFacts, PageTypes
<1>12. CallForm'
  <2>1. (scan.next \in Keys \cup {None})'
    BY <1>2, <1>8 DEF IInvListing, CallForm
  <2>2. (mode.backend /= "fs" => scan.token = None /\ scan.next = None)'
    BY <1>1, <1>3, <1>4, <1>8 DEF IInvListing, CallForm
  <2> QED
    BY <1>1, <1>3, <1>8, <2>1, <2>2 DEF CallForm
<1>13. FullForm' /\ HeldForm'
  BY <1>1, <1>3, <1>10 DEF FullForm, HeldForm
<1>14. OnceForm'
  BY <1>1, <1>3, <1>4, <1>8 DEF OnceForm, IInvListing, Past
<1>15. /\ \A t \in scan.todo : ~ (t <= scan.token)
       /\ \A e \in scan.out : ~ (e[1] <= scan.token)
       /\ \A g \in scan.groups : g /= 0 /\ mode.delim
                                 /\ \E j \in Keys : Group[j] = g /\ ~ (j <= scan.token)
                                                    /\ \A t \in scan.todo : j < t
       /\ \A t \in scan.todo : \A e \in scan.out : e[1] < t
       /\ scan.next = None
  BY <1>1 DEF IInvListing, PageForm, Past, Paging
<1>16. PageForm'
  <2> SUFFICES ASSUME scan'.phase = "load" PROVE PageForm'
    BY <1>8 DEF PageForm, Paging
  <2>1. \A t \in scan'.todo : ~ (t <= scan.token)
    BY <1>8, <1>15
  <2>2. \A e \in scan'.out : e \in scan.out \/ e[1] = k
    BY <1>5, <1>8
  <2>3. \A e \in scan'.out : ~ (e[1] <= scan.token)
    BY <1>2, <1>15, <2>2
  <2>4. \A t \in scan'.todo : t \in scan.todo /\ k < t
    <3>1. scan'.todo \in {{}, scan.todo \ {k}}
      BY <1>4, <1>6
    <3>2. \A t \in scan.todo : t /= k => k < t
      BY <1>1, <1>2
    <3> QED
      BY <3>1, <3>2
  <2>5. ASSUME NEW g \in scan'.groups
        PROVE  g /= 0 /\ mode.delim
               /\ \E j \in Keys : Group[j] = g /\ ~ (j <= scan.token) /\ \A t \in scan'.todo : j < t
    <3>1. CASE g \in scan.groups
      BY <1>15, <2>4, <3>1
    <3>2. CASE g \notin scan.groups
      <4>1. g = Group[k] /\ Rolled(k)
        BY <1>4, <1>6, <3>2
      <4> QED
        BY <1>2, <1>7, <1>15, <2>4, <4>1
    <3> QED
      BY <3>1, <3>2
  <2>6. \A t \in scan'.todo : \A e \in scan'.out : e[1] < t
    BY <1>15, <2>2, <2>4
  <2>7. ASSUME scan'.next /= None
        PROVE  /\ scan'.todo = {} /\ scan'.next = k
               /\ scan'.groups = scan.groups /\ (Rolled(k) => Group[k] \notin scan.groups)
    BY <1>4, <1>6, <1>15, <2>7
  <2>8. ASSUME scan'.next /= None, NEW e \in scan'.out PROVE e[1] <= scan'.next
    <3>1. k <= k
      BY <1>1, <1>2
    <3>2. CASE e[1] = k
      BY <2>7, <2>8, <3>1, <3>2
    <3>3. CASE e \in scan.out
      <4>1. e[1] < k /\ e[1] \in Keys
        BY <1>2, <1>15, <3>3, ScanFacts DEF Scans
      <4>2. e[1] \in Nat /\ k \in Nat
        BY <1>2, <4>1, KeyFacts
      <4>3. e[1] <= k
        BY <4>1, <4>2
      <4> QED
        BY <2>7, <2>8, <4>3
    <3> QED
      BY <2>2, <3>2, <3>3
  <2>9. ASSUME scan'.next /= None, NEW j \in Keys, Group[j] \in scan'.groups PROVE j <= scan'.next
    <3>1. Group[j] /= 0 /\ mode.delim
      BY <1>15, <2>7, <2>9
    <3>2. PICK i \in Keys : Group[i] = Group[j] /\ i < k
      BY <1>2, <1>15, <2>7, <2>9
    <3>3. j \in Nat /\ k \in Nat
      BY <1>2, KeyFacts
    <3>4. ASSUME k < j PROVE FALSE
      <4>1. Group[k] = Group[i]
        BY <1>2, <3>1, <3>2, <3>4, ListingAssumption
      <4>2. Rolled(k) /\ Group[k] \in scan.groups
        BY <1>7, <2>7, <2>9, <3>1, <3>2, <4>1
      <4> QED
        BY <2>7, <2>9, <4>2
    <3> QED
      BY <2>7, <2>9, <3>3, <3>4
  <2>10. mode' = mode
    BY <1>3
  <2>11. scan'.next /= None => scan.token <= scan'.next
    <3>1. ~ (k <= scan.token) /\ k \in Nat
      BY <1>1, <1>2, <1>15
    <3> QED
      BY <1>1, <2>7, <3>1
  <2> QED
    BY <1>1, <1>4, <2>1, <2>3, <2>5, <2>6, <2>7, <2>8, <2>9, <2>10, <2>11
       DEF PageForm, Past, Beyond
<1>17. KeptForm'
  <2>1. (\A e \in kept : e[1] \in scan.versioned => hist[e[1]] /= <<>>)'
    BY <1>1, <1>3, <1>4 DEF IInvListing, KeptForm, world
  <2>2. \A e \in kept : IF hist[e[1]] /= <<>> THEN e[1] \in scan.versioned
                                              ELSE e[1] \in scan.seen
    BY <1>1 DEF IInvListing, KeptForm
  <2>3. (\A e \in kept : IF hist[e[1]] /= <<>> THEN e[1] \in scan.versioned
                                               ELSE e[1] \in scan.seen)'
    BY <1>3, <1>4, <2>2 DEF world
  <2>4. (caller.pages = 0 => scan.token = None /\ scan.phase /= "done")'
    BY <1>1, <1>3, <1>4, <1>8 DEF IInvListing, KeptForm
  <2>5. ASSUME scan'.phase = "load", caller.pages = 0, ~scan'.cut, NEW e \in kept
        PROVE  \/ (Rolled(e[1]) /\ Group[e[1]] \in scan'.groups)
               \/ e[1] \in scan'.todo \/ e \in scan'.out
    <3>1. scan'.todo = scan.todo \ {k} /\ ~scan.cut
      BY <1>4, <1>6, <2>5
    <3>2. /\ \/ (Rolled(e[1]) /\ Group[e[1]] \in scan.groups)
             \/ e[1] \in scan.todo \/ e \in scan.out
      BY <1>1, <2>5, <3>1 DEF IInvListing, KeptForm, Paging
    <3>3. CASE e[1] = k /\ Rolled(k)
      <4>1. Group[k] \in scan'.groups
        BY <1>4, <1>6, <2>5, <3>3
      <4> QED
        BY <3>3, <4>1
    <3>4. CASE e[1] = k /\ ~Rolled(k)
      <4>1. ~ (Len(Entries(k)) > Room) /\ scan'.out = scan.out \cup taken
        BY <1>4, <1>6, <2>5, <3>4
      <4>2. RoomFor(k) = Len(Entries(k))
        BY <1>2, <4>1, EntriesFacts, RoomFacts DEF RoomFor
      <4>3. \E i \in 1 .. Len(Entries(k)) : Entries(k)[i] = e[2]
        <5>1. /\ k \notin unparsed
              /\ IF hist[k] /= <<>> THEN e[2] \in ToSet(hist[k])
                 ELSE e[2] = Null /\ copies[k] = Pool
              /\ IF hist[k] /= <<>> THEN k \in scan.versioned ELSE k \in scan.seen
              /\ k \in scan.versioned => hist[k] /= <<>>
              /\ answering = Pool
          BY <1>1, <2>2, <3>4 DEF IInvListing, VersionWorld, KeptForm
        <5>2. CASE hist[k] /= <<>>
          <6>1. Entries(k) = hist[k]
            BY <5>1, <5>2 DEF Entries
          <6>2. hist[k] \in Seq(Vids)
            BY <1>2 DEF IInvListing, TypeOKListing
          <6> QED
            BY <5>1, <5>2, <6>1, <6>2 DEF ToSet
        <5>3. CASE hist[k] = <<>>
          <6>1. Entries(k) = <<Null>>
            BY <5>1, <5>3, PoolFacts DEF Entries, IInvListing
          <6>2. 1 \in 1 .. Len(Entries(k)) /\ Entries(k)[1] = Null
            BY <6>1
          <6> QED
            BY <5>1, <5>3, <6>2
        <5> QED
          BY <5>2, <5>3
      <4>4. <<k, e[2]>> \in taken
        BY <4>2, <4>3 DEF TakenOf, taken
      <4>5. e = <<e[1], e[2]>>
        BY DEF IInvListing, TypeOKListing
      <4> QED
        BY <3>4, <4>1, <4>4, <4>5
    <3>5. CASE e[1] /= k
      BY <1>8, <3>1, <3>2, <3>5
    <3>6. CASE e \in scan.out
      BY <1>8, <3>6
    <3> QED
      BY <3>3, <3>4, <3>5
  <2>6. ((Paging /\ caller.pages = 0 /\ ~scan.cut) =>
         \A e \in kept : \/ (Rolled(e[1]) /\ Group[e[1]] \in scan.groups)
                         \/ e[1] \in scan.todo \/ e \in scan.out)'
    BY <1>3, <1>8, <2>5 DEF Paging, Rolled, world
  <2> QED
    BY <1>8, <2>1, <2>3, <2>4, <2>6 DEF KeptForm
<1> QED
  BY <1>11, <1>12, <1>13, <1>14, <1>16, <1>17 DEF IInvListing

\* A call begins with nothing found.
LEMMA CallFromFacts ==
  ASSUME NEW t \in Nat
  PROVE  /\ CallFrom(t) \in Scans
         /\ CallFrom(t).phase = "walk" /\ CallFrom(t).token = t /\ CallFrom(t).left = Pool
         /\ CallFrom(t).out = {} /\ CallFrom(t).groups = {} /\ CallFrom(t).todo = {}
         /\ CallFrom(t).next = None /\ CallFrom(t).cut = FALSE /\ CallFrom(t).versioned = {}
BY DEF CallFrom, Scans, Phases, None

\* A call that begins where the caller has everything up to its start.
LEMMA CallBegins ==
  ASSUME IInvListing, UNCHANGED <<mode, world>>, NEW t \in Nat, scan' = CallFrom(t),
         caller' \in Callers,
         mode.kind = "drain" => /\ ~caller'.garbled /\ t = None
                                /\ caller'.got = {} /\ caller'.gotGroups = {},
         (mode.kind = "versions" /\ mode.backend /= "fs") => t = None,
         mode.kind = "versions" => (caller'.pages = 0 => t = None),
         OnceForm',
         \A h \in held : (mode.kind /= "versions" /\ ~caller'.garbled /\ h[1] > mode.after
                             /\ h[1] < t)
                           => Shown(h[1], Null)'
  PROVE  IInvListing'
<1>1. /\ scan' \in Scans
      /\ scan'.phase = "walk" /\ scan'.token = t /\ scan'.left = Pool
      /\ scan'.out = {} /\ scan'.groups = {} /\ scan'.todo = {}
      /\ scan'.next = None /\ scan'.cut = FALSE /\ scan'.versioned = {}
  BY CallFromFacts
<1>2. Pool /= {} /\ Pool' = Pool
  BY PoolFacts DEF Pool, IInvListing
<1>3. TypeOKListing' /\ VersionWorld'
  <2>1. Cardinality(scan'.out) + Cardinality(scan'.groups) <= mode.size
    BY <1>1, FS_EmptySet, ScanFacts
  <2> QED
    BY <1>1, <2>1, PageTypes
<1>4. CallForm'
  BY <1>1, <1>2 DEF CallForm
<1>5. PageForm' /\ FullForm'
  BY <1>1, FS_EmptySet DEF PageForm, FullForm, Paging
<1>6. HeldForm'
  <2> SUFFICES ASSUME mode.kind /= "versions", ~caller'.garbled, NEW h \in held, h[1] > mode.after
               PROVE  /\ (Past(h[1]) => Shown(h[1], Null))'
                      /\ h[2] \in scan'.left
    BY <1>1 DEF HeldForm, Paging, world
  <2>1. h[2] \in scan'.left
    BY <1>1 DEF IInvListing, TypeOKListing
  <2>2. (Past(h[1]))' => h[1] < t
    BY <1>1 DEF Past
  <2>3. (Past(h[1]) => Shown(h[1], Null))'
    BY <2>2
  <2> QED
    BY <2>1, <2>3
<1>7. KeptForm'
  BY <1>1, <1>2 DEF KeptForm, Paging
<1> QED
  BY <1>3, <1>4, <1>5, <1>6, <1>7 DEF IInvListing

\* A failed page is asked for again.
LEMMA RetryKeeps == ASSUME IInvListing, Retry PROVE IInvListing'
<1>1. /\ scan.phase = "failed" /\ mode.kind /= "drain" /\ scan' = CallFrom(scan.token)
      /\ UNCHANGED <<mode, world, caller>> /\ scan.token \in Nat
  BY ScanFacts DEF Retry, Scans
<1>2. scan'.token = scan.token /\ scan'.phase = "walk"
  BY <1>1, CallFromFacts
<1>3. OnceForm'
  BY <1>1, <1>2 DEF OnceForm, IInvListing, Past
<1>4. \A h \in held : (mode.kind /= "versions" /\ ~caller'.garbled /\ h[1] > mode.after
                          /\ h[1] < scan.token)
                        => Shown(h[1], Null)'
  BY <1>1 DEF IInvListing, HeldForm, Past, Shown
<1>5. /\ (mode.kind = "versions" /\ mode.backend /= "fs") => scan.token = None
      /\ mode.kind = "versions" => (caller'.pages = 0 => scan.token = None)
  BY <1>1 DEF IInvListing, CallForm, KeptForm
<1> QED
  BY <1>1, <1>3, <1>4, <1>5, ScanFacts, CallBegins

\* What the caller has after a page: nothing twice, and all that was on it.
LEMMA AnswerFacts ==
  ASSUME IInvListing, AnswerPage
  PROVE  /\ caller' \in Callers /\ caller'.pages /= 0
         /\ caller'.pages = 1 => caller.pages = 0
         /\ caller'.got = caller.got \cup scan.out
         /\ caller'.gotGroups = caller.gotGroups \cup scan.groups
         /\ ~caller'.garbled => /\ ~caller.garbled /\ ~caller'.again
                                /\ scan.next /= None => SentToken(scan.next) = scan.next
<1>1. caller' = [got       |-> caller.got \cup scan.out,
                 gotGroups |-> caller.gotGroups \cup scan.groups,
                 again     |-> \/ caller.again
                               \/ caller.got \cap scan.out /= {}
                               \/ caller.gotGroups \cap scan.groups /= {},
                 garbled   |-> caller.garbled
                                 \/ (scan.next /= None /\ SentToken(scan.next) /= scan.next),
                 pages     |-> IF caller.pages < 2 THEN caller.pages + 1 ELSE 2]
  BY DEF AnswerPage
<1>2. scan \in Scans /\ caller \in Callers
  BY ScanFacts
<1>3. caller'.pages = IF caller.pages < 2 THEN caller.pages + 1 ELSE 2
  BY <1>1
<1>4. caller.pages \in 0 .. 2
  BY <1>2 DEF Callers
<1>5. caller'.pages \in 0 .. 2 /\ caller'.pages /= 0 /\ (caller'.pages = 1 => caller.pages = 0)
  BY <1>3, <1>4
<1>6. caller' \in Callers
  <2>1. caller.got \cup scan.out \in SUBSET (Keys \X Vids)
        /\ caller.gotGroups \cup scan.groups \in SUBSET Nat
    BY <1>2 DEF Scans, Callers
  <2> QED
    BY <1>1, <1>3, <1>5, <2>1 DEF Callers
<1>7. ASSUME ~caller'.garbled
      PROVE  /\ ~caller.garbled /\ ~caller'.again
             /\ scan.next /= None => SentToken(scan.next) = scan.next
  <2>1. ~caller.garbled /\ (scan.next /= None => SentToken(scan.next) = scan.next)
    BY <1>1, <1>7
  <2>2. ~caller.again /\ scan.phase = "answer"
    BY <2>1 DEF IInvListing, OnceForm, AnswerPage
  <2>3. caller.got \cap scan.out = {}
    <3>1. \A e \in caller.got : Past(e[1])
      BY <2>1, <2>2 DEF IInvListing, OnceForm
    <3>2. \A e \in scan.out : ~Past(e[1])
      BY <2>2 DEF IInvListing, PageForm, Paging
    <3> QED
      BY <3>1, <3>2
  <2>4. caller.gotGroups \cap scan.groups = {}
    <3>1. \A k \in Keys : Group[k] \in caller.gotGroups => Past(k)
      BY <2>1, <2>2 DEF IInvListing, OnceForm
    <3>2. \A g \in scan.groups : \E k \in Keys : Group[k] = g /\ ~Past(k)
      BY <2>2 DEF IInvListing, PageForm, Paging
    <3> QED
      BY <3>1, <3>2
  <2> QED
    BY <1>1, <2>1, <2>2, <2>3, <2>4
<1> QED
  BY <1>1, <1>5, <1>6, <1>7

\* The page reaches the caller, who asks for the next one.
LEMMA AnswerPageKeeps == ASSUME IInvListing, AnswerPage PROVE IInvListing'
<1>1. /\ scan.phase = "answer" /\ mode.kind /= "drain" /\ scan.todo = {}
      /\ UNCHANGED <<mode, world>>
  BY DEF AnswerPage, IInvListing, CallForm
<1>2. /\ caller' \in Callers /\ caller'.pages /= 0
      /\ caller'.pages = 1 => caller.pages = 0
      /\ caller'.got = caller.got \cup scan.out
      /\ caller'.gotGroups = caller.gotGroups \cup scan.groups
      /\ ~caller'.garbled => /\ ~caller.garbled /\ ~caller'.again
                             /\ scan.next /= None => SentToken(scan.next) = scan.next
  BY AnswerFacts
<1>3. ASSUME ~caller'.garbled, mode.kind /= "versions", NEW h \in held, h[1] > mode.after,
             scan.next = None \/ ~ (h[1] >= scan.next)
      PROVE  Shown(h[1], Null)'
  <2>1. (Past(h[1]) => Shown(h[1], Null)) /\ Covered(h[1])
    BY <1>1, <1>2, <1>3 DEF IInvListing, HeldForm, Paging
  <2>2. \/ Shown(h[1], Null) \/ (mode.delim /\ Group[h[1]] \in scan.groups)
        \/ <<h[1], Null>> \in scan.out
    BY <1>1, <1>3, <2>1 DEF Covered, Rolled
  <2> QED
    BY <1>1, <1>2, <2>2 DEF Shown
<1>4. CASE scan.next = None
  <2>1. /\ scan' = [scan EXCEPT !.phase = "done"] /\ scan'.phase = "done"
        /\ scan'.token = scan.token /\ scan'.groups = scan.groups /\ scan'.next = scan.next
        /\ scan'.left = scan.left /\ scan'.seen = scan.seen /\ scan'.versioned = scan.versioned
        /\ scan'.cut = scan.cut /\ scan'.todo = {} /\ scan'.out = scan.out
    BY <1>1, <1>4, ScanFacts DEF AnswerPage, Scans
  <2>2. scan' \in Scans
    BY <2>1, ScanFacts DEF Scans, Phases
  <2>3. TypeOKListing' /\ VersionWorld'
    BY <1>1, <1>2, <2>1, <2>2, ScanFacts, PageTypes
  <2>4. CallForm'
    BY <1>1, <2>1 DEF IInvListing, CallForm
  <2>5. PageForm' /\ FullForm'
    BY <2>1 DEF PageForm, FullForm, IInvListing, Paging
  <2>6. OnceForm'
    BY <1>2, <2>1 DEF OnceForm
  <2>7. HeldForm'
    BY <1>1, <1>3, <1>4, <2>1 DEF HeldForm, Paging, world
  <2>8. KeptForm'
    <3> SUFFICES ASSUME mode.kind = "versions" PROVE KeptForm'
      BY <1>1 DEF KeptForm
    <3>1. (\A e \in kept : e[1] \in scan.versioned => hist[e[1]] /= <<>>)'
      BY <1>1, <2>1 DEF IInvListing, KeptForm, world
    <3>2. (\A e \in kept : IF hist[e[1]] /= <<>> THEN e[1] \in scan.versioned
                                                 ELSE e[1] \in scan.seen)'
      BY <1>1, <2>1 DEF IInvListing, KeptForm, world
    <3>3. ASSUME caller'.pages = 1, ~scan'.cut, NEW e \in kept PROVE Shown(e[1], e[2])'
      <4>1. \/ (Rolled(e[1]) /\ Group[e[1]] \in scan.groups) \/ e \in scan.out
        BY <1>1, <1>2, <2>1, <3>3 DEF IInvListing, KeptForm, Paging
      <4>2. e = <<e[1], e[2]>>
        BY DEF IInvListing, TypeOKListing
      <4> QED
        BY <1>1, <1>2, <4>1, <4>2 DEF Shown, Rolled
    <3>4. ((scan.phase = "done" /\ caller.pages = 1 /\ ~scan.cut) =>
             \A e \in kept : Shown(e[1], e[2]))'
      BY <1>1, <3>3 DEF world
    <3> QED
      BY <1>2, <2>1, <3>1, <3>2, <3>4 DEF KeptForm, Paging
  <2> QED
    BY <2>3, <2>4, <2>5, <2>6, <2>7, <2>8 DEF IInvListing
<1>5. CASE scan.next /= None
  <2> DEFINE t == SentToken(scan.next)
  <2>1. scan.next \in Keys
    BY <1>5 DEF IInvListing, CallForm
  <2>2. t \in Nat /\ (~mode.encode => t = scan.next)
    BY <2>1, KeyFacts DEF SentToken
  <2>3. scan' = CallFrom(t)
    BY <1>1, <1>5 DEF AnswerPage
  <2>4. ~caller'.garbled => t = scan.next
    BY <1>2, <1>5
  <2> HIDE DEF t
  <2>5. scan'.token = t /\ scan'.phase = "walk"
    BY <2>2, <2>3, CallFromFacts
  <2>6. OnceForm'
    <3> SUFFICES ASSUME ~caller'.garbled
                 PROVE  /\ \A e \in caller'.got : Past(e[1])'
                        /\ \A k \in Keys : Group[k] \in caller'.gotGroups => Past(k)'
      BY <1>2, <2>5 DEF OnceForm
    <3>1. t = scan.next /\ scan'.token = scan.next /\ scan.token <= scan.next
      BY <1>1, <1>5, <2>4, <2>5 DEF IInvListing, PageForm, Paging
    <3>2. scan.token \in Nat /\ scan.next \in Nat
      BY ScanFacts DEF Scans
    <3>3. ASSUME NEW k \in Keys, Past(k) \/ Beyond(k) PROVE Past(k)'
      <4>1. k \in Nat
        BY KeyFacts
      <4> QED
        BY <1>1, <3>1, <3>2, <3>3, <4>1 DEF Past, Beyond
    <3>4. \A e \in caller'.got : e[1] \in Keys /\ (Past(e[1]) \/ Beyond(e[1]))
      <4>1. \A e \in caller.got : Past(e[1])
        BY <1>1, <1>2 DEF IInvListing, OnceForm
      <4>2. \A e \in scan.out : Beyond(e[1])
        BY <1>1, <1>5 DEF IInvListing, PageForm, Paging
      <4>3. \A e \in caller'.got : e[1] \in Keys
        BY <1>2 DEF Callers
      <4> QED
        BY <1>2, <4>1, <4>2, <4>3
    <3>5. \A k \in Keys : Group[k] \in caller'.gotGroups => (Past(k) \/ Beyond(k))
      <4>1. \A k \in Keys : Group[k] \in caller.gotGroups => Past(k)
        BY <1>1, <1>2 DEF IInvListing, OnceForm
      <4>2. \A k \in Keys : Group[k] \in scan.groups => Beyond(k)
        BY <1>1, <1>5 DEF IInvListing, PageForm, Paging
      <4> QED
        BY <1>2, <4>1, <4>2
    <3>6. \A k \in Keys : (Past(k) \/ Beyond(k)) => Past(k)'
      BY <3>3
    <3> QED
      BY <3>4, <3>5, <3>6
  <2>7. \A h \in held : (mode.kind /= "versions" /\ ~caller'.garbled /\ h[1] > mode.after
                            /\ h[1] < t)
                          => Shown(h[1], Null)'
    <3> SUFFICES ASSUME NEW h \in held, mode.kind /= "versions", ~caller'.garbled,
                        h[1] > mode.after, h[1] < t
                 PROVE  Shown(h[1], Null)'
      OBVIOUS
    <3>1. h[1] \in Nat /\ scan.next \in Nat /\ t = scan.next
      BY <2>1, <2>4, KeyFacts DEF IInvListing, TypeOKListing
    <3>2. ~ (h[1] >= scan.next)
      BY <3>1
    <3> QED
      BY <1>3, <3>2
  <2>8. /\ mode.kind = "versions" => t = scan.next
        /\ ~ (mode.kind = "versions" /\ mode.backend /= "fs")
    BY <1>5, <2>2, ModeFacts DEF IInvListing, TypeOKListing, CallForm
  <2> QED
    BY <1>1, <1>2, <2>2, <2>3, <2>6, <2>7, <2>8, CallBegins
<1> QED
  BY <1>4, <1>5

\* The forced deletion removes an object of its page.
LEMMA DrainDeleteKeeps == ASSUME IInvListing, DrainDelete PROVE IInvListing'
<1>0. PICK ds \in SUBSET answering : DrainRemove(ds)
  BY DEF DrainDelete
<1>1. PICK e \in scan.out : Gone(Taken(e[1]), ds) /\ scan' = NextDrain(scan.out \ {e})
  BY <1>0 DEF DrainRemove
<1>2. scan.phase = "delete" /\ mode.kind = "drain" /\ mode.after = None
      /\ UNCHANGED <<mode, hist, unparsed, answering, writing, writes, failures, kept, caller>>
  BY <1>0, ModeFacts DEF DrainRemove, IInvListing, CallForm, TypeOKListing
<1>3. e[1] \in Keys
  BY ScanFacts DEF Scans
<1>4. /\ copies' \in [Keys -> SUBSET Pool] /\ held' \subseteq held /\ failures' \in 0 .. MaxFailures
      /\ \A h \in held' : h[2] \in answering /\ h[2] \in copies'[h[1]]
  <2>1. Taken(e[1]) \in SUBSET Keys
    BY <1>3, TakenKeys
  <2>2. failures' \in 0 .. MaxFailures
    BY <1>2 DEF IInvListing, TypeOKListing
  <2> QED
    BY <1>1, <2>1, <2>2, GoneFacts DEF IInvListing
<1>5. /\ scan' \in Scans /\ scan'.token = None /\ scan'.next = None /\ scan'.groups = {}
      /\ \/ scan'.phase = "delete" /\ scan'.out /= {} /\ scan'.out = scan.out \ {e}
         \/ /\ scan'.phase = "walk" /\ scan'.left = Pool /\ scan'.out = {}
            /\ scan'.todo = {} /\ scan'.cut = FALSE
  <2>1. scan.token = None /\ scan.next = None /\ scan.groups = {}
    BY <1>2 DEF IInvListing, CallForm
  <2>2. CASE scan.out \ {e} /= {}
    <3>1. scan' = [scan EXCEPT !.out = scan.out \ {e}]
      BY <1>1, <2>2 DEF NextDrain
    <3>2. scan' \in Scans
      BY <3>1, ScanFacts DEF Scans
    <3>3. /\ scan'.phase = "delete" /\ scan'.out = scan.out \ {e} /\ scan'.token = None
          /\ scan'.next = None /\ scan'.groups = {}
      BY <1>2, <2>1, <3>1, ScanFacts DEF Scans
    <3> QED
      BY <2>2, <3>2, <3>3
  <2>3. CASE scan.out \ {e} = {}
    <3>1. scan' = CallFrom(None) /\ None \in Nat
      BY <1>1, <2>3 DEF NextDrain, None
    <3> QED
      BY <3>1, CallFromFacts
  <2> QED
    BY <2>2, <2>3
<1>6. /\ IsFiniteSet(scan'.out) /\ IsFiniteSet(scan'.groups)
      /\ Cardinality(scan'.out) + Cardinality(scan'.groups) <= mode.size
  <2>1. /\ IsFiniteSet(scan.out) /\ scan.groups = {} /\ Cardinality(scan.out) <= mode.size
        /\ Cardinality(scan.out) \in Nat
    <3>1. scan.groups = {} /\ IsFiniteSet(scan.out)
      BY <1>2 DEF IInvListing, CallForm, FullForm
    <3> QED
      BY <3>1, ScanFacts, FS_EmptySet, FS_CardinalityType
  <2>2. scan'.out \subseteq scan.out
    BY <1>5
  <2>3. IsFiniteSet(scan'.out) /\ Cardinality(scan'.out) <= Cardinality(scan.out)
        /\ Cardinality(scan'.out) \in Nat
    BY <2>1, <2>2, FS_Subset, FS_CardinalityType
  <2>4. IsFiniteSet(scan'.groups) /\ Cardinality(scan'.groups) = 0
    BY <1>5, FS_EmptySet
  <2> QED
    BY <2>1, <2>3, <2>4, ScanFacts
<1>7. TypeOKListing'
  <2>1. Pool' = Pool /\ Modes' = Modes
    BY <1>2 DEF Pool, Modes
  <2>2. (held \subseteq {h \in Keys \X answering : h[2] \in copies[h[1]]})'
    BY <1>2, <1>4 DEF IInvListing, TypeOKListing
  <2>3. (scan \in Scans /\ caller \in Callers)'
    BY <1>2, <1>5, <2>1, ScanFacts DEF Scans, Callers
  <2>4. (Cardinality(scan.out) + Cardinality(scan.groups) <= mode.size)'
    BY <1>2, <1>6
  <2> HIDE DEF DrainDelete
  <2> QED
    BY <1>2, <1>4, <2>1, <2>2, <2>3, <2>4 DEF IInvListing, TypeOKListing, Scans, Callers
<1>8. VersionWorld' /\ KeptForm'
  BY <1>2 DEF VersionWorld, KeptForm
<1>9. CallForm'
  <2>1. Pool' = Pool /\ Pool /= {}
    BY <1>2, PoolFacts DEF Pool, IInvListing
  <2>2. ~caller.garbled /\ caller.got = {} /\ caller.gotGroups = {}
    BY <1>2 DEF IInvListing, CallForm
  <2> QED
    BY <1>2, <1>5, <2>1, <2>2 DEF CallForm
<1>10. PageForm' /\ FullForm'
  BY <1>5, <1>6 DEF PageForm, FullForm, Paging
<1>11. OnceForm'
  <2>1. ~caller.garbled => ~caller.again
    BY DEF IInvListing, OnceForm
  <2>2. caller.got = {} /\ caller.gotGroups = {}
    BY <1>2 DEF IInvListing, CallForm
  <2> QED
    BY <1>2, <2>1, <2>2 DEF OnceForm
<1>12. HeldForm'
  <2> SUFFICES ASSUME NEW h \in held'
               PROVE  /\ ~Past(h[1])'
                      /\ scan'.phase = "walk" => h[2] \in scan'.left
    BY <1>5 DEF HeldForm, Paging
  <2>1. h[1] \in Keys /\ h[2] \in Pool
    BY <1>4 DEF IInvListing, TypeOKListing
  <2>2. ~ (h[1] < None)
    <3>1. \A k \in Keys : ~ (k < 0)
      BY KeyFacts
    <3> QED
      BY <2>1, <3>1 DEF None
  <2>3. ~Past(h[1])'
    BY <1>2, <1>5, <2>2 DEF Past
  <2> QED
    BY <1>5, <2>1, <2>3
<1> QED
  BY <1>7, <1>8, <1>9, <1>10, <1>11, <1>12 DEF IInvListing
-----------------------------------------------------------------------------
\* The first states.
LEMMA InitFacts ==
  ASSUME InitListing
  PROVE  /\ mode \in Modes /\ scan = CallFrom(None) /\ caller = Received
         /\ copies \in [Keys -> SUBSET Pool] /\ hist \in [Keys -> Seq(Vids)]
         /\ answering = Pool /\ unparsed = {} /\ writing = None /\ writes = 0 /\ failures = 0
         /\ held \subseteq {h \in Keys \X answering : h[2] \in copies[h[1]]}
         /\ kept \subseteq {e \in Keys \X Vids : e[2] \in Listed(e[1])}
         /\ mode.kind = "versions" => \A k \in Keys : copies[k] \in {{}, Pool}
<1>1. <<2, 1>> \in Seq(Vids) /\ <<>> \in Seq(Vids)
  <2>1. 1 \in Vids /\ 2 \in Vids
    BY ListingAssumption DEF Vids
  <2> QED
    BY <2>1
<1>2. hist \in [Keys -> Seq(Vids)]
  <2>1. \A k \in Keys : hist[k] \in Seq(Vids)
    BY <1>1 DEF InitListing
  <2> QED
    BY <2>1 DEF InitListing
<1>3. copies \in [Keys -> SUBSET Pool]
  <2>1. Max(Pool) \in Pool
    <3>1. Max({1}) \in {1}
      <4>1. \E x \in {1} : \A y \in {1} : x >= y
        OBVIOUS
      <4> QED
        BY <4>1, Zenon DEF Max
    <3>2. Max({1, 2}) \in {1, 2}
      <4>1. \E x \in {1, 2} : \A y \in {1, 2} : x >= y
        OBVIOUS
      <4> QED
        BY <4>1, Zenon DEF Max
    <3> QED
      BY <3>1, <3>2 DEF Pool, Drives
  <2>2. {Max(Pool)} \subseteq Pool
    BY <2>1
  <2>3. \A k \in Keys : copies[k] \in SUBSET Pool
    BY <2>2 DEF InitListing
  <2> QED
    BY <2>3 DEF InitListing
<1> QED
  BY <1>2, <1>3 DEF InitListing

\* The first states satisfy the invariant.
LEMMA InitInvariant == InitListing => IInvListing
<1> SUFFICES ASSUME InitListing PROVE IInvListing
  OBVIOUS
<1>1. /\ mode \in Modes /\ scan = CallFrom(None) /\ caller = Received
      /\ copies \in [Keys -> SUBSET Pool] /\ hist \in [Keys -> Seq(Vids)]
      /\ answering = Pool /\ unparsed = {} /\ writing = None /\ writes = 0 /\ failures = 0
      /\ held \subseteq {h \in Keys \X answering : h[2] \in copies[h[1]]}
      /\ kept \subseteq {e \in Keys \X Vids : e[2] \in Listed(e[1])}
      /\ mode.kind = "versions" => \A k \in Keys : copies[k] \in {{}, Pool}
  BY InitFacts
<1>2. /\ scan \in Scans
      /\ scan.phase = "walk" /\ scan.token = None /\ scan.left = Pool
      /\ scan.out = {} /\ scan.groups = {} /\ scan.todo = {}
      /\ scan.next = None /\ scan.cut = FALSE /\ scan.versioned = {}
  <2>1. None \in Nat
    BY DEF None
  <2> QED
    BY <1>1, <2>1, CallFromFacts
<1>3. /\ caller \in Callers /\ caller.got = {} /\ caller.gotGroups = {} /\ ~caller.again
      /\ ~caller.garbled /\ caller.pages = 0
  BY <1>1 DEF Received, Callers
<1>4. IsFiniteSet({}) /\ Cardinality({}) = 0 /\ mode.size \in Nat
  BY <1>1, FS_EmptySet, ModeFacts
<1>5. TypeOKListing
  BY <1>1, <1>2, <1>3, <1>4, ListingAssumption DEF TypeOKListing, Scans, Callers
<1>6. Pool /= {} /\ None = 0
  BY <1>5, PoolFacts DEF None
<1>7. CallForm /\ PageForm /\ FullForm
  BY <1>2, <1>3, <1>4, <1>6 DEF CallForm, PageForm, FullForm, Paging
<1>8. \A k \in Keys : ~ (k < 0) /\ ~ (k <= 0)
  BY KeyFacts
<1>9. OnceForm
  BY <1>2, <1>3 DEF OnceForm
<1>10. HeldForm
  <2> SUFFICES ASSUME NEW h \in held
               PROVE  h[2] \in scan.left /\ (mode.kind /= "versions" => ~Past(h[1]))
    BY <1>2 DEF HeldForm, Paging
  <2>1. h[1] \in Keys /\ h[2] \in Pool
    BY <1>1
  <2> QED
    BY <1>2, <1>6, <1>8, <2>1 DEF Past
<1>11. VersionWorld
  <2> SUFFICES ASSUME mode.kind = "versions", NEW e \in kept
               PROVE  IF hist[e[1]] /= <<>> THEN e[2] \in ToSet(hist[e[1]])
                      ELSE e[2] = Null /\ copies[e[1]] = Pool
    BY <1>1 DEF VersionWorld
  <2>1. e[1] \in Keys /\ e[2] \in Listed(e[1]) /\ copies[e[1]] \in {{}, Pool}
    BY <1>1
  <2> QED
    BY <2>1 DEF Listed
<1>12. KeptForm
  BY <1>2, <1>3 DEF KeptForm, Paging
<1> QED
  BY <1>5, <1>7, <1>9, <1>10, <1>11, <1>12 DEF IInvListing

\* Every step keeps the invariant.
LEMMA NextInvariant == IInvListing /\ [NextListing]_varsListing => IInvListing'
<1> SUFFICES ASSUME IInvListing, [NextListing]_varsListing PROVE IInvListing'
  OBVIOUS
<1>1. CASE Writers
  BY <1>1, WritersKeep
<1>2. CASE Page
  BY <1>2, WalkKeeps, ChooseObjectsKeeps, LoadObjectKeeps, LoadedKeeps, ChooseVersionsKeeps,
     ExpandKeyKeeps, AnswerPageKeeps, RetryKeeps, DrainDeleteKeeps DEF Page
<1>3. CASE UNCHANGED varsListing
  <2>1. UNCHANGED <<mode, scan, caller, world>>
    BY <1>3 DEF varsListing
  <2>2. UNCHANGED <<copies, hist, unparsed, answering, writing, writes, failures, held, kept>>
    BY <2>1 DEF world
  <2>3. \A h \in held' : h \in held /\ h[2] \in answering' /\ h[2] \in copies'[h[1]]
    BY <2>2 DEF IInvListing, TypeOKListing
  <2>4. TypeOKListing' /\ held' \subseteq held
    BY <2>1, <2>2, <2>3, WriterTypes DEF IInvListing, TypeOKListing
  <2>5. VersionWorld'
    BY <2>1, <2>2 DEF IInvListing, VersionWorld, Pool
  <2>6. mode.kind = "versions" => KeptForm'
    BY <2>1, <2>2, KeptLeft
  <2> QED
    BY <2>1, <2>4, <2>5, <2>6, WriterKeeps
<1> QED
  BY <1>1, <1>2, <1>3 DEF NextListing

\* The invariant holds in every reachable state.
LEMMA InductiveListing == SpecListing => []IInvListing
BY InitInvariant, NextInvariant, PTL DEF SpecListing

\* Whatever is written and whatever fails meanwhile, the parts of a listing keep
\* their types, and no page holds more entries than were asked for.
THEOREM ListingTypes == SpecListing => []TypeOKListing
<1>1. IInvListing => TypeOKListing
  BY DEF IInvListing
<1> QED
  BY <1>1, InductiveListing, PTL

\* No page repeats what an earlier one showed, for any keys, prefixes, order of
\* writes and number of pages.
THEOREM ListsOnce == SpecListing => []ListOnce
<1>1. IInvListing => ListOnce
  BY DEF IInvListing, OnceForm, ListOnce
<1> QED
  BY <1>1, InductiveListing, PTL

\* Nothing nobody touched is hidden from a listing or from a forced deletion.
THEOREM ListsAll == SpecListing => []ListComplete
<1>1. IInvListing => ListComplete
  <2> SUFFICES ASSUME IInvListing PROVE ListComplete
    OBVIOUS
  <2>1. ObjectsComplete
    BY DEF IInvListing, HeldForm, ObjectsComplete
  <2>2. VersionsComplete
    BY DEF IInvListing, KeptForm, VersionsComplete
  <2>3. DrainEmpties
    <3> SUFFICES ASSUME mode.kind = "drain", scan.phase = "done", NEW h \in held PROVE FALSE
      BY DEF DrainEmpties
    <3>1. ~caller.garbled /\ caller.got = {} /\ caller.gotGroups = {} /\ mode.after = None
      BY ModeFacts DEF IInvListing, CallForm, TypeOKListing
    <3>2. h[1] > mode.after
      <4>1. \A k \in Keys : k > 0
        BY KeyFacts
      <4> QED
        BY <3>1, <4>1 DEF IInvListing, TypeOKListing, None
    <3>3. Shown(h[1], Null)
      BY <3>1, <3>2 DEF IInvListing, HeldForm
    <3> QED
      BY <3>1, <3>3 DEF Shown
  <2> QED
    BY <2>1, <2>2, <2>3 DEF ListComplete
<1> QED
  BY <1>1, InductiveListing, PTL
===============================================================================
