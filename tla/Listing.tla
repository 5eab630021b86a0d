------------------------------ MODULE Listing ------------------------------
(***************************************************************************)
(* Listings of a bucket, page after page, while objects are written and    *)
(* removed and drives fail: ListObjectsV2 and ListObjectVersions of both   *)
(* backends behind their handlers, and the console's forced deletion,      *)
(* which drains a bucket through the same listing.                         *)
(*                                                                         *)
(* No listing takes a lock.  The drives are walked one by one, the page is *)
(* chosen from what the walk found, and each chosen object is read after   *)
(* that, so a writer comes between any two of these.  A key is its place   *)
(* in the order of the key's bytes; Group[k] is the common prefix that the *)
(* delimiter rolls k up into (0 when the key has none), and Encoded[k] the *)
(* place of the key's percent-encoding, which differs from k when the key  *)
(* holds a character the encoding changes.                                 *)
(***************************************************************************)
EXTENDS Integers, FiniteSets, SequencesExt

CONSTANTS Keys,       \* places of the keys, positive
          Group,      \* Group[k], the same for neighbours only
          Encoded,    \* Encoded[k]
          Under,      \* Under[k]: the keys whose directory lies in k's ("a/b" in "a")
          Sizes,      \* values of max-keys
          Starts,     \* values of start-after, None for its absence
          MaxWrites,  \* bound on the writes
          MaxFailures \* bound on drive changes

\* Keys that share a prefix are neighbours in the order of bytes.
ASSUME ListingAssumption ==
  /\ Keys \subseteq Nat \ {0} /\ IsFiniteSet(Keys)
  /\ Group \in [Keys -> Nat] /\ Encoded \in [Keys -> Nat]
  /\ Under \in [Keys -> SUBSET Keys]
  /\ \A i, k, j \in Keys : i < k /\ k < j /\ Group[i] = Group[j] /\ Group[i] /= 0
                             => Group[k] = Group[i]
  /\ Sizes \subseteq Nat /\ Starts \subseteq Nat
  /\ MaxWrites \in Nat /\ MaxFailures \in Nat

Drives == {1, 2}
None == 0                           \* no token, no marker, no key
Null == 0                           \* the version id "null"
Vids == 0 .. (MaxWrites + 2)
MaxMissed == 1                      \* keys that not every drive holds at the start

VARIABLES
  mode,      \* what is asked, of which backend: never changes
  copies,    \* copies[k]: drives that hold k's current object
  hist,      \* hist[k]: version ids, newest first; <<>> when there is no history
  unparsed,  \* keys whose history file is truncated, about to be rewritten
  answering, \* drives that answer
  writing,   \* key whose versioned write has moved the old object away, or None
  writes, failures,
  scan,      \* the call in progress
  caller,    \* what its caller has received
  held,      \* <<k, d>>: d has answered and held k ever since the listing began
  kept       \* <<k, v>>: version v of k has been listed in a readable history since

world == <<copies, hist, unparsed, answering, writing, writes, failures, held, kept>>
varsListing == <<mode, world, scan, caller>>

\* The filesystem backend is one drive.
Pool == IF mode.backend = "fs" THEN {1} ELSE Drives
Modes ==
  {m \in [backend : {"fs", "erasure"}, kind : {"objects", "versions", "drain"},
          encode : BOOLEAN, delim : BOOLEAN, size : Sizes, after : Starts] :
     /\ m.kind = "drain" => m.size = Cardinality(Keys) /\ ~m.delim
     /\ m.kind /= "objects" => ~m.encode /\ m.after = None}

\* A call begins: its continuation token or key marker is t.
CallFrom(t) == [phase |-> "walk", token |-> t, left |-> Pool, seen |-> {}, versioned |-> {},
                todo |-> {}, out |-> {}, groups |-> {}, next |-> None, cut |-> FALSE]
Received == [got |-> {}, gotGroups |-> {}, again |-> FALSE, garbled |-> FALSE, pages |-> 0]

Phases == {"walk", "choose", "load", "delete", "answer", "failed", "done"}

TypeOKListing ==
  /\ mode \in Modes
  /\ copies \in [Keys -> SUBSET Pool]
  /\ hist \in [Keys -> Seq(Vids)]
  /\ unparsed \subseteq Keys /\ answering \subseteq Pool /\ writing \in Keys \cup {None}
  /\ writes \in 0..MaxWrites /\ failures \in 0..MaxFailures
  /\ held \subseteq {h \in Keys \X answering : h[2] \in copies[h[1]]}
  /\ kept \subseteq Keys \X Vids
  /\ scan \in [phase : Phases, token : Nat, left : SUBSET Pool, seen : SUBSET Keys,
               versioned : SUBSET Keys, todo : SUBSET Keys, out : SUBSET (Keys \X Vids),
               groups : SUBSET Nat, next : Nat, cut : BOOLEAN]
  /\ caller \in [got : SUBSET (Keys \X Vids), gotGroups : SUBSET Nat, again : BOOLEAN,
                 garbled : BOOLEAN, pages : 0..2]
  /\ Cardinality(scan.out) + Cardinality(scan.groups) <= mode.size

\* Every entry of key k a version listing should show.
Listed(k) == IF hist[k] /= <<>> THEN ToSet(hist[k]) ELSE IF copies[k] /= {} THEN {Null} ELSE {}

InitListing ==
  /\ mode \in Modes
  /\ hist \in [Keys -> IF mode.kind = "versions" THEN {<<>>, <<2, 1>>} ELSE {<<>>}]
  /\ copies \in [Keys -> IF mode.kind = "versions" THEN {{}, Pool} ELSE {{}, {Max(Pool)}, Pool}]
  /\ Cardinality({k \in Keys : copies[k] /= Pool}) <= MaxMissed
  /\ answering = Pool /\ unparsed = {} /\ writing = None /\ writes = 0 /\ failures = 0
  /\ scan = CallFrom(None) /\ caller = Received
  /\ held = {h \in Keys \X Pool : h[2] \in copies[h[1]]}
  /\ kept = {e \in Keys \X Vids : e[2] \in Listed(e[1])}
-----------------------------------------------------------------------------
(* What writers do to what a listing reads.                                *)

Write ==
  /\ writing = None /\ unparsed = {} /\ writes < MaxWrites
  /\ writes' = writes + 1
  /\ UNCHANGED <<mode, answering, failures, scan, caller>>

\* PUT without versioning replaces the object in place: no drive is ever
\* without one.
Put(k) ==
  /\ mode.kind /= "versions" /\ Write /\ answering /= {}
  /\ copies' = [copies EXCEPT ![k] = @ \cup answering]
  /\ UNCHANGED <<hist, unparsed, writing, held, kept>>

\* A permanent deletion of k takes: the erasure backend removes k's directory
\* with whatever lies in it.
Taken(k) == IF mode.backend = "fs" THEN {k} ELSE {k} \cup Under[k]

\* The objects ks are gone from the drives ds.
Gone(ks, ds) ==
  /\ copies' = [j \in Keys |-> IF j \in ks THEN copies[j] \ ds ELSE copies[j]]
  /\ held' = held \ (ks \X ds)

\* The drives a deletion reaches: that it fails on others is ignored.  The
\* replicas of a history are taken as one, so it fails only where none is listed.
Reached == IF mode.kind = "versions" THEN {answering} ELSE SUBSET answering

\* DELETE without versioning.
Delete(k) ==
  /\ hist[k] = <<>> /\ Write
  /\ \E ds \in Reached : Gone(Taken(k), ds)
  /\ hist' = [j \in Keys |-> IF j \in Taken(k) THEN <<>> ELSE hist[j]]
  /\ kept' = IF mode.kind = "versions" THEN kept \ (Taken(k) \X Vids) ELSE kept
  /\ UNCHANGED <<unparsed, writing>>

\* A versioned PUT first moves the current object into the archive: until the
\* new one is placed, which for an erasure PUT is the time its body takes, the
\* key has no object.  The entry of a legacy object is seeded before that; a
\* version listing that has walked past it by then finds neither.
BeginVersionedWrite(k) ==
  /\ Write /\ Gone({k}, answering)
  /\ writing' = k
  /\ IF hist[k] = <<>> /\ copies[k] /= {}
     THEN hist' = [hist EXCEPT ![k] = <<Null>>] /\ kept' = kept \ {<<k, Null>>}
     ELSE UNCHANGED <<hist, kept>>
  /\ UNCHANGED unparsed

\* The new object is in place.  The filesystem backend rewrites the history
\* where it stands, so for a moment it does not parse and reads as empty.
Place ==
  /\ writing /= None
  /\ copies' = [copies EXCEPT ![writing] = answering]
  /\ writing' = None
  /\ IF mode.backend = "fs"
     THEN /\ unparsed' = {writing} /\ kept' = kept \ ({writing} \X Vids)
          /\ UNCHANGED hist
     ELSE /\ hist' = [hist EXCEPT ![writing] = <<writes + 2>> \o @]
          /\ UNCHANGED <<unparsed, kept>>
  /\ UNCHANGED <<mode, answering, writes, failures, scan, caller, held>>
Record ==
  /\ \E k \in unparsed : hist' = [hist EXCEPT ![k] = <<writes + 2>> \o @]
  /\ unparsed' = {}
  /\ UNCHANGED <<mode, copies, answering, writing, writes, failures, scan, caller, held, kept>>

\* A version that is not the current one is deleted for good.
DeleteVersion(k) ==
  /\ Write /\ Len(hist[k]) > 1
  /\ hist' = [hist EXCEPT ![k] = RemoveAt(@, 2)]
  /\ kept' = kept \ {<<k, hist[k][2]>>}
  /\ UNCHANGED <<copies, unparsed, writing, held>>

\* A drive stops or starts answering.  The replicas of a history are taken as
\* one, so drives change only where no history is listed.
Flip(d) ==
  /\ mode.kind /= "versions" /\ mode.backend = "erasure" /\ failures < MaxFailures
  /\ failures' = failures + 1
  /\ answering' = IF d \in answering THEN answering \ {d} ELSE answering \cup {d}
  /\ held' = {h \in held : h[2] \in answering'}
  /\ UNCHANGED <<mode, copies, hist, unparsed, writing, writes, scan, caller, kept>>

Writers == \/ \E k \in Keys : Put(k) \/ Delete(k) \/ BeginVersionedWrite(k) \/ DeleteVersion(k)
           \/ Place \/ Record
           \/ \E d \in Drives : Flip(d)
-----------------------------------------------------------------------------
(* One page.                                                               *)

\* Mutant of Visible: a drive that answers is enough to answer for all.
VisibleFirst(d) == IF d = Min(Pool) THEN {k \in Keys : d \in copies[k]} ELSE {}

\* The keys whose object drive d shows to a walk.
Visible(d) == IF d \in answering THEN {k \in Keys : d \in copies[k]} ELSE {}

\* One drive is walked; the finds of all are united.
Walk ==
  /\ scan.phase = "walk"
  /\ LET d == Min(scan.left)
     IN scan' = [scan EXCEPT !.left = @ \ {d}, !.seen = @ \cup Visible(d),
                             !.versioned = @ \cup {k \in Keys : hist[k] /= <<>>},
                             !.phase = IF scan.left = {d} THEN "choose" ELSE @]
  /\ UNCHANGED <<mode, world, caller>>

\* What a delimiter makes of keys: the ones shown themselves, and the common
\* prefixes the others are rolled up into.
Rolled(k)      == mode.delim /\ Group[k] /= 0
Single(ks)     == {k \in ks : ~Rolled(k)}
PrefixesOf(ks) == {Group[k] : k \in {j \in ks : Rolled(j)}}

\* The keys a page may show: those before the token or up to start-after are
\* passed over.
Candidates == {k \in scan.seen : k >= scan.token /\ k > mode.after}
Before(k)  == {j \in Candidates : j < k}

\* There is no room left for k, which is not of a prefix already on the page.
Crowded(k) == /\ Cardinality(Single(Before(k))) + Cardinality(PrefixesOf(Before(k))) >= mode.size
              /\ Rolled(k) => Group[k] \notin PrefixesOf(Before(k))

\* Mutant of Overflow: the token names the last object of the page.
OverflowAgain ==
  LET crowded == {k \in Candidates : Crowded(k)}
      shown   == Single(Before(Min(crowded)))
  IN IF crowded = {} THEN None ELSE IF shown = {} THEN Min(crowded) ELSE Max(shown)

\* The first key for which there is no room: the token of the next page.
Overflow == LET crowded == {k \in Candidates : Crowded(k)}
            IN IF crowded = {} THEN None ELSE Min(crowded)

\* list_objects_v2 of both backends takes the keys of the walk in order, up to
\* the first one for which there is no room.
ChooseObjects ==
  /\ mode.kind /= "versions" /\ scan.phase = "choose"
  /\ LET page == {k \in Candidates : \A c \in Candidates : Crowded(c) => k < c}
     IN scan' = [scan EXCEPT !.phase = "load", !.todo = Single(page),
                             !.groups = PrefixesOf(page), !.next = Overflow]
  /\ UNCHANGED <<mode, world, caller>>

\* An object the walk found is gone when its metadata are read: the filesystem
\* backend fails the whole listing, the erasure backend leaves the object out.
LoadObject ==
  /\ mode.kind /= "versions" /\ scan.phase = "load" /\ scan.todo /= {}
  /\ LET k    == Min(scan.todo)
         rest == [scan EXCEPT !.todo = @ \ {k}]
     IN scan' = IF copies[k] \cap answering /= {} THEN [rest EXCEPT !.out = @ \cup {<<k, Null>>}]
                ELSE IF mode.backend = "fs" THEN [scan EXCEPT !.phase = "failed"]
                ELSE rest
  /\ UNCHANGED <<mode, world, caller>>
Loaded ==
  /\ scan.phase = "load" /\ scan.todo = {}
  /\ scan' = [scan EXCEPT !.phase = IF mode.kind /= "drain" THEN "answer"
                                    ELSE IF scan.out = {} THEN "done" ELSE "delete"]
  /\ UNCHANGED <<mode, world, caller>>

\* list_object_versions: keys with a history and, beside them, objects without.
\* Only the filesystem backend looks at the key marker, and passes over every
\* key up to it; the version marker changes nothing, because the key it
\* belongs to is still before the point where the listing starts.
ChooseVersions ==
  /\ mode.kind = "versions" /\ scan.phase = "choose"
  /\ scan' = [scan EXCEPT !.phase = "load",
                !.todo = {k \in scan.seen \cup scan.versioned :
                            mode.backend = "fs" => k > scan.token}]
  /\ UNCHANGED <<mode, world, caller>>

Room == mode.size - Cardinality(scan.out) - Cardinality(scan.groups)

\* The page is full before key k: only the filesystem backend says where the
\* next one starts.
Cut(k) == [scan EXCEPT !.todo = {}, !.cut = TRUE,
                       !.next = IF mode.backend = "fs" THEN k ELSE None]

\* The entries of key k: its history as it reads now, or the one "null" version
\* of an object that had none when the walk passed.
Entries(k) == IF k \in scan.versioned THEN IF k \in unparsed THEN <<>> ELSE hist[k]
              ELSE IF copies[k] \cap answering /= {} THEN <<Null>> ELSE <<>>

\* The next key's entries go on the page as far as there is room.
ExpandKey ==
  /\ mode.kind = "versions" /\ scan.phase = "load" /\ scan.todo /= {}
  /\ LET k     == Min(scan.todo)
         es    == Entries(k)
         rest  == [scan EXCEPT !.todo = @ \ {k}]
         taken == {<<k, es[i]>> : i \in 1 .. (IF Room < Len(es) THEN Room ELSE Len(es))}
     IN scan' = IF Rolled(k)
                THEN IF Group[k] \in scan.groups THEN rest
                     ELSE IF Room <= 0 THEN Cut(k)
                     ELSE [rest EXCEPT !.groups = @ \cup {Group[k]}]
                ELSE IF k \notin scan.versioned /\ es = <<>> /\ mode.backend = "fs"
                     THEN [scan EXCEPT !.phase = "failed"]
                ELSE IF Len(es) > Room
                     THEN [Cut(k) EXCEPT !.out = @ \cup taken]
                     ELSE [rest EXCEPT !.out = @ \cup taken]
  /\ UNCHANGED <<mode, world, caller>>
-----------------------------------------------------------------------------
(* The caller.                                                             *)

\* The token as the handler sends it: percent-encoded when the caller asked
\* for encoded keys.  It comes back as it was sent.
SentToken(t) == IF mode.encode THEN Encoded[t] ELSE t

\* The page arrives; the caller asks for the next one if it says where that
\* begins.
AnswerPage ==
  /\ scan.phase = "answer"
  /\ caller' =
       [got       |-> caller.got \cup scan.out,
        gotGroups |-> caller.gotGroups \cup scan.groups,
        again     |-> \/ caller.again
                      \/ caller.got \cap scan.out /= {}
                      \/ caller.gotGroups \cap scan.groups /= {},
        garbled   |-> caller.garbled \/ (scan.next /= None /\ SentToken(scan.next) /= scan.next),
        pages     |-> IF caller.pages < 2 THEN caller.pages + 1 ELSE 2]
  /\ scan' = IF scan.next = None THEN [scan EXCEPT !.phase = "done"]
             ELSE CallFrom(SentToken(scan.next))
  /\ UNCHANGED <<mode, world>>

\* A failed page is asked for again.
Retry ==
  /\ scan.phase = "failed" /\ mode.kind /= "drain"
  /\ scan' = CallFrom(scan.token)
  /\ UNCHANGED <<mode, world, caller>>

\* The console's forced deletion lists from the start again after each round,
\* until a page comes back empty.
NextDrain(rest) == IF rest /= {} THEN [scan EXCEPT !.out = rest] ELSE CallFrom(None)

\* It deletes each object of the page; what a deletion answers is ignored.  (The
\* marker that a bucket with versioning puts in its place takes the object alone,
\* as where Under is empty.)
DrainRemove(ds) ==
  /\ scan.phase = "delete"
  /\ \E e \in scan.out :
       /\ \A f \in scan.out : e[1] <= f[1]
       /\ Gone(Taken(e[1]), ds)
       /\ scan' = NextDrain(scan.out \ {e})
  /\ UNCHANGED <<mode, hist, unparsed, answering, writing, writes, failures, kept, caller>>
DrainDelete == \E ds \in SUBSET answering : DrainRemove(ds)

Page == \/ Walk \/ ChooseObjects \/ LoadObject \/ Loaded \/ ChooseVersions \/ ExpandKey
        \/ AnswerPage \/ Retry \/ DrainDelete

NextListing == Writers \/ Page

\* A request that was accepted is carried on, and its caller pages on.
SpecListing == InitListing /\ [][NextListing]_varsListing /\ WF_varsListing(Page)
-----------------------------------------------------------------------------
Shown(k, v) == <<k, v>> \in caller.got \/ (mode.delim /\ Group[k] \in caller.gotGroups)

\* A listing followed to its end has shown every object that some drive held,
\* and answered for, from its first request to its last, unless a token came back
\* encoded.
ObjectsComplete ==
  (mode.kind = "objects" /\ scan.phase = "done" /\ ~caller.garbled)
    => \A h \in held : h[1] > mode.after => Shown(h[1], Null)

\* No key, version or common prefix is shown twice across the pages of one
\* listing, whatever is written meanwhile (the tokens and markers that
\* list_objects_v2 and list_object_versions return).
ListOnce == ~caller.garbled => ~caller.again

\* A version listing that fits one page shows every version that stayed in a
\* readable history meanwhile, and each object that never had one.  Followed
\* over several pages it does not: the key a page broke off in is passed over
\* by the next one.
VersionsComplete ==
  (mode.kind = "versions" /\ scan.phase = "done" /\ ~scan.cut /\ caller.pages = 1)
    => \A e \in kept : Shown(e[1], e[2])

\* A forced deletion that ends without an error has removed every object that
\* was there when it began, from each drive that answered all along, also when
\* single deletions failed and were ignored (console delete_bucket).
DrainEmpties == (mode.kind = "drain" /\ scan.phase = "done") => held = {}

\* No write, removal or drive that missed writes hides an object or a version
\* nobody touched from a listing, or from the forced deletion that lists before
\* it deletes (list_objects_v2, list_object_versions, walk_union, delete_bucket).
ListComplete == ObjectsComplete /\ VersionsComplete /\ DrainEmpties

\* A deletion of the drain leaves its object on a drive that answers.
DrainFails == \E ds \in (SUBSET answering) \ {answering} : DrainRemove(ds)

\* A listing comes to its end, and a forced deletion to its end or an error,
\* unless its deletions keep failing: it ignores that and lists the same objects
\* again without end.  Otherwise every page moves past the one before
\* (list_objects_v2, list_object_versions, delete_bucket).  Not so with max-keys=0,
\* whose pages are empty and always continued, or once a token came back encoded.
ListEnds == \/ (mode.size > 0) ~> (scan.phase = "done" \/ caller.garbled
                                   \/ (mode.kind = "drain" /\ scan.phase = "failed"))
            \/ []<><<DrainFails>>_varsListing
=============================================================================
