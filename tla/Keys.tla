-------------------------------- MODULE Keys --------------------------------
(***************************************************************************)
(* At-rest keys: the three providers of crypto/provider.rs, their key files *)
(* under .kerplace.sys/, the data-key cache of the KMS provider, and the    *)
(* writes and reads of encrypted objects that go through them.              *)
(*                                                                          *)
(* A boot names a provider and a passphrase, then loads or creates its key  *)
(* files one write at a time; a crash may come between any two of them.     *)
(* A key is named by the file it came from and its number, never by bytes.  *)
(***************************************************************************)
EXTENDS Container, FiniteSets

CONSTANTS Objects,      \* names of the objects written, each once
          Passphrases,  \* what KP_KEY_PASSPHRASE may hold ("" is unset)
          Lengths,      \* plaintext lengths
          CacheCap,     \* KMS_CACHE_CAP
          CacheTtls,    \* KP_KMS_CACHE_TTL, in ticks
          LongFrom,     \* first key version whose token is longer (v10 in Vault)
          MaxKeys, MaxFaults   \* bounds: keys generated; faults and rotations

ASSUME KeysAssumption ==
  /\ Lengths \subseteq Nat /\ LongFrom \in Nat /\ MaxKeys \in Nat /\ MaxFaults \in Nat
  /\ CacheCap \in Nat \ {0} /\ CacheTtls \subseteq Nat

VARIABLES file,     \* the four key files
          up,       \* "down" | "boot" | "serving"
          kind, pass, todo, writing,   \* the boot: provider, passphrase, files left
          mem,      \* the keys the process holds
          made,     \* keys generated so far
          vault,    \* the KMS: [version, reachable, revoked]
          wrappedLen,                  \* KmsKeyProvider.wrapped_len
          ttl, cache,                  \* cache_ttl, DekCache: token -> ticks left
          put, get, obj,               \* writes and the read in progress, objects
          faults, lost                 \* faults so far, keys they destroyed

boot == <<up, kind, pass, todo, writing>>
disk == <<file, made, lost>>
ops  == <<put, get>>
kms  == <<wrappedLen, cache>>
vars == <<boot, disk, ops, kms, mem, vault, ttl, obj, faults>>

Kinds  == {"file", "passphrase", "kms"}
Files  == {"master", "pq", "salt", "check"}
Absent == <<>>
Torn   == <<"torn">>
None   == "none"
Probe  == "probe"           \* the token KmsKeyProvider::check mints
Empty  == [t \in {} |-> 0]
Idle   == [phase |-> "idle"]
NoRead == [phase |-> "idle", o |-> None]

WellFormed(f) == file[f] \notin {Absent, Torn}

\* A wrapping key: the material it stands on and the passphrase mixed into it.
Key(material, p) == [from |-> material, pass |-> p]
KmsKey(v) == Key(<<"kms", v>>, "")

\* The kind of provider that can unwrap under a key (the container's alg byte).
KindOf(key) == CASE key.from[1] = "kms"  -> "kms"
                 [] key.from[1] = "salt" -> "passphrase"
                 [] OTHER                -> "file"

\* Lengths of a wrapped data key: ML-KEM ciphertext, AES-wrapped, Vault token.
WrappedLenOf(key) == CASE KindOf(key) = "file" /\ key.from[1] = "pq" -> 4
                       [] KindOf(key) = "kms" /\ key.from[2] >= LongFrom -> 2
                       [] OTHER -> 1

\* wrapped_dek_len of the running provider.
HeaderKeyLen == CASE kind = "file" -> 4
                  [] kind = "passphrase" -> 1
                  [] OTHER -> IF wrappedLen = 0 THEN 3 ELSE wrappedLen

Init == /\ \E legacy \in BOOLEAN :     \* objects of a release without ML-KEM
             /\ file = [f \in Files |-> IF legacy /\ f = "master" THEN <<"master", 0>> ELSE Absent]
             /\ \E first \in Objects, n \in Lengths :
                  obj = [o \in Objects |->
                           IF legacy /\ o = first
                           THEN [key |-> Key(<<"master", 0>>, ""), source |-> n, n |-> n,
                                 size |-> n, crossed |-> FALSE]
                           ELSE Idle]
        /\ up = "down" /\ kind = None /\ pass = "" /\ todo = <<>> /\ writing = None
        /\ mem = {} /\ made = 0
        /\ vault = [version |-> 1, reachable |-> TRUE, revoked |-> FALSE]
        /\ wrappedLen = 0 /\ ttl = 0 /\ cache = Empty
        /\ put = [o \in Objects |-> Idle] /\ get = NoRead
        /\ faults = 0 /\ lost = {}

(***************************************************************************)
(* Start-up.                                                                *)
(***************************************************************************)
\* provider_from_env: the files the provider of a kind goes through.
FilesOf(k) == CASE k = "file"       -> <<"master", "pq">>
                [] k = "passphrase" -> <<"salt", "check">>
                [] OTHER            -> <<>>

Start(k, p) == /\ up = "down"
               /\ k = "passphrase" => p /= ""
               /\ up' = "boot" /\ kind' = k /\ pass' = IF k = "passphrase" THEN p ELSE ""
               /\ todo' = FilesOf(k) /\ writing' = None
               /\ ttl' \in IF k = "kms" THEN CacheTtls ELSE {0}
               /\ UNCHANGED <<disk, ops, kms, mem, vault, obj, faults>>

\* The process ends: everything in memory, the cache included, is gone.
Stop == /\ up' = "down" /\ todo' = <<>> /\ writing' = None /\ kind' = None /\ pass' = ""
        /\ mem' = {} /\ cache' = Empty /\ wrappedLen' = 0 /\ ttl' = 0
        /\ put' = [o \in Objects |-> Idle] /\ get' = NoRead
        /\ UNCHANGED <<disk, vault, obj, faults>>

Crash == up /= "down" /\ Stop

AtFile(f) == up = "boot" /\ writing = None /\ todo /= <<>> /\ Head(todo) = f

\* MasterKey::load_or_generate and PqKeypair::load_or_generate, an existing file.
LoadKey(f) == /\ f \in {"master", "pq"} /\ AtFile(f) /\ WellFormed(f)
              /\ mem' = mem \cup {Key(file[f], "")}
              /\ todo' = Tail(todo)
              /\ UNCHANGED <<up, kind, pass, writing, disk, ops, kms, vault, ttl, obj, faults>>

\* Mutant of OpenStore: the sealed verifier is not opened.
OpenStoreUnverified == /\ AtFile("salt") /\ WellFormed("salt")
                       /\ mem' = {Key(file["salt"], pass)}
                       /\ todo' = <<>>
                       /\ UNCHANGED <<up, kind, pass, writing, disk, ops, kms, vault, ttl, obj, faults>>

\* PassphraseKeyProvider::open_or_init, an existing store: derive, then verify.
OpenStore == /\ AtFile("salt") /\ WellFormed("salt")
             /\ file["check"] = <<"check", file["salt"][2], pass>>
             /\ mem' = {Key(file["salt"], pass)}
             /\ todo' = <<>>
             /\ UNCHANGED <<up, kind, pass, writing, disk, ops, kms, vault, ttl, obj, faults>>

\* Files the code creates anew when it reads them: absent ones and, for the
\* ML-KEM pair, one of the wrong length.  The verifier follows a new salt.
Creates(f) == file[f] = Absent \/ (f = "pq" /\ file[f] = Torn) \/ f = "check"

\* Refused: master.key malformed, salt without its verifier, wrong passphrase.
BootRefused == /\ \/ AtFile("master") /\ file["master"] = Torn
                  \/ /\ AtFile("salt") /\ file["salt"] /= Absent
                     /\ WellFormed("salt") => file["check"] /= <<"check", file["salt"][2], pass>>
               /\ Stop

\* std::fs::write truncates the file, then fills it; the key is already held.
\* A file that cannot be read is taken for absent: that is the fault.
CreateFile(f, unreadable) ==
  /\ AtFile(f)
  /\ IF unreadable THEN WellFormed(f) /\ f /= "check" /\ faults < MaxFaults ELSE Creates(f)
  /\ f = "check" \/ made < MaxKeys
  /\ faults' = IF unreadable THEN faults + 1 ELSE faults
  /\ lost' = IF unreadable THEN lost \cup {file[f]} ELSE lost
  /\ made' = IF f = "check" THEN made ELSE made + 1
  /\ mem' = IF f = "check" THEN mem ELSE mem \cup {Key(<<f, made + 1>>, pass)}
  /\ file' = [file EXCEPT ![f] = Torn]
  /\ writing' = f
  /\ UNCHANGED <<up, kind, pass, todo, ops, kms, vault, ttl, obj>>

FillFile == /\ up = "boot" /\ writing /= None
            /\ file' = [file EXCEPT ![writing] =
                          IF writing = "check"
                          THEN LET salt == CHOOSE k \in mem : TRUE
                               IN <<"check", salt.from[2], salt.pass>>
                          ELSE <<writing, made>>]
            /\ writing' = None /\ todo' = Tail(todo)
            /\ UNCHANGED <<up, kind, pass, made, lost, ops, kms, mem, vault, ttl, obj, faults>>

VaultAnswers == vault.reachable /\ ~vault.revoked

\* Mutant of DekGet: a read starts the entry's life anew.
DekGetRefresh(t) == [cache EXCEPT ![t] = ttl]

\* DekCache::get leaves the cache as it is.
DekGet(t) == cache

Hit(t) == t \in DOMAIN cache /\ cache[t] > 0

\* DekCache::put and cache_put: at the cap the expired entries go, and one more
\* if that freed nothing; a lifetime of 0 turns the cache off.
DekPut(t) ==
  LET live  == {k \in DOMAIN cache : cache[k] > 0}
      kept  == IF Cardinality(DOMAIN cache) < CacheCap THEN {DOMAIN cache}
               ELSE IF Cardinality(live) < CacheCap THEN {live}
               ELSE {live \ {k} : k \in live}
  IN IF ttl = 0 THEN {cache}
     ELSE {[k \in s \cup {t} |-> IF k = t THEN ttl ELSE cache[k]] : s \in kept}

\* main: check() before serving.  The KMS provider mints and unwraps a key.
Serve == /\ up = "boot" /\ todo = <<>>
         /\ IF kind = "kms"
            THEN /\ VaultAnswers
                 /\ wrappedLen' = WrappedLenOf(KmsKey(vault.version))
                 /\ cache' \in DekPut(Probe)
            ELSE UNCHANGED kms
         /\ up' = "serving"
         /\ UNCHANGED <<kind, pass, todo, writing, disk, ops, mem, vault, ttl, obj, faults>>

NotReady == up = "boot" /\ todo = <<>> /\ kind = "kms" /\ ~VaultAnswers /\ Stop

(***************************************************************************)
(* Writing an encrypted object.                                             *)
(***************************************************************************)
\* The key new objects are wrapped under: the ML-KEM pair before the master key.
WrapsUnder == IF kind = "kms" THEN KmsKey(vault.version)
              ELSE CHOOSE k \in mem : k.from[1] \in {"pq", "salt"}

\* encrypting_reader: the data key is minted before anything is staged, so a
\* KMS that does not answer fails the write before it has an effect.  The KMS
\* mints at its current version; its answer is dealt with later.
PutBegin(o, n) ==
  /\ up = "serving" /\ obj[o] = Idle /\ put[o] = Idle
  /\ kind = "kms" => VaultAnswers
  /\ put' = [put EXCEPT ![o] = [phase |-> IF kind = "kms" THEN "minting" ELSE "streaming",
                                key |-> WrapsUnder, n |-> n, crossed |-> FALSE]]
  /\ UNCHANGED <<boot, disk, kms, mem, vault, ttl, obj, faults, get>>

\* new_wrapped_dek of the KMS provider, its answer: wrapped_len is stored.  Any
\* other write that is under way with a token of another length is crossed.
PutMinted(o) ==
  /\ put[o].phase = "minting"
  /\ wrappedLen' = WrappedLenOf(put[o].key)
  /\ put' = [p \in Objects |->
               IF p = o THEN [put[o] EXCEPT !.phase = "streaming"]
               ELSE IF put[p].phase = "streaming" /\ WrappedLenOf(put[p].key) /= wrappedLen'
               THEN [put[p] EXCEPT !.crossed = TRUE]
               ELSE put[p]]
  /\ UNCHANGED <<boot, disk, cache, mem, vault, ttl, obj, faults, get>>

\* put_object: the body is drained, all of it or, when its source fails, the
\* chunks sealed so far; the size is worked out from what was stored.
PutStore(o, broken) ==
  /\ put[o].phase = "streaming"
  /\ broken => put[o].n > 0 /\ faults < MaxFaults
  /\ LET p      == put[o]
         n      == IF broken THEN SealedBefore(p.n - 1) ELSE p.n
         stored == StoredLen(n, WrappedLenOf(p.key))
     IN obj' = [obj EXCEPT ![o] = [key |-> p.key, source |-> p.n, n |-> n,
                                   size |-> PlaintextLen(stored, HeaderLen(HeaderKeyLen)),
                                   crossed |-> p.crossed]]
  /\ faults' = IF broken THEN faults + 1 ELSE faults
  /\ put' = [put EXCEPT ![o] = Idle]
  /\ UNCHANGED <<boot, disk, kms, mem, vault, ttl, get>>

(***************************************************************************)
(* Reading it: ObjectCipher::open and open_stream_header unwrap first.      *)
(***************************************************************************)
\* unwrap_dek of a provider that holds the key; any other alg byte is refused.
Unwraps(o) == obj[o].key \in mem

Reads(o, phase) == get' = [phase |-> phase, o |-> o]
MayRead(o) == up = "serving" /\ obj[o] /= Idle /\ get = NoRead

GetLocal(o) == /\ MayRead(o) /\ Unwraps(o) /\ Reads(o, "reading")
               /\ UNCHANGED <<boot, disk, kms, mem, vault, ttl, obj, faults, put>>

OfKms(o) == kind = "kms" /\ KindOf(obj[o].key) = "kms"

GetCached(o) == /\ MayRead(o) /\ OfKms(o) /\ Hit(o)
                /\ cache' = DekGet(o) /\ Reads(o, "reading")
                /\ UNCHANGED <<boot, disk, wrappedLen, mem, vault, ttl, obj, faults, put>>

\* transit/decrypt; the KMS answers, and the process hears of it later.
GetAsk(o) == /\ MayRead(o) /\ OfKms(o) /\ ~Hit(o) /\ VaultAnswers
             /\ Reads(o, "asked")
             /\ UNCHANGED <<boot, disk, kms, mem, vault, ttl, obj, faults, put>>

GetAnswered == /\ get.phase = "asked"
               /\ cache' \in DekPut(get.o) /\ Reads(get.o, "reading")
               /\ UNCHANGED <<boot, disk, wrappedLen, mem, vault, ttl, obj, faults, put>>

\* stream_chunks ends: the cipher, and with it the key, is dropped.
GetEnd == /\ get.phase = "reading" /\ get' = NoRead
          /\ UNCHANGED <<boot, disk, kms, mem, vault, ttl, obj, faults, put>>

(***************************************************************************)
(* The surroundings: time, the KMS and its operator, damage to a key file.  *)
(***************************************************************************)
\* Instant::now() passes the expiry of cached keys.
Tick == /\ \E t \in DOMAIN cache : cache[t] > 0
        /\ cache' = [t \in DOMAIN cache |-> IF cache[t] > 0 THEN cache[t] - 1 ELSE 0]
        /\ UNCHANGED <<boot, disk, ops, wrappedLen, mem, vault, ttl, obj, faults>>

\* Changes a server under the KMS can notice; those made while none runs are
\* the ones made right after its start.
VaultChanges == /\ kind = "kms"
                /\ vault' \in {[vault EXCEPT !.reachable = ~@], [vault EXCEPT !.revoked = TRUE]}
                /\ UNCHANGED <<boot, disk, ops, kms, mem, ttl, obj, faults>>

\* The KMS key gets a new version; counted with the faults.
Rotate == /\ kind = "kms" /\ faults < MaxFaults
          /\ faults' = faults + 1
          /\ vault' = [vault EXCEPT !.version = @ + 1]
          /\ UNCHANGED <<boot, disk, ops, kms, mem, ttl, obj>>

Damage(f) == /\ up = "down" /\ WellFormed(f) /\ faults < MaxFaults
             /\ faults' = faults + 1
             /\ lost' = lost \cup {file[f]}
             /\ file' = [file EXCEPT ![f] = Torn]
             /\ UNCHANGED <<boot, made, ops, kms, mem, vault, ttl, obj>>

Next == \/ \E k \in Kinds, p \in Passphrases : Start(k, p)
        \/ \E f \in Files : LoadKey(f) \/ Damage(f) \/ \E u \in BOOLEAN : CreateFile(f, u)
        \/ Crash \/ OpenStore \/ BootRefused \/ FillFile \/ Serve \/ NotReady
        \/ \E o \in Objects : \/ \E n \in Lengths : PutBegin(o, n)
                              \/ \E b \in BOOLEAN : PutStore(o, b)
                              \/ PutMinted(o) \/ GetLocal(o) \/ GetCached(o) \/ GetAsk(o)
        \/ GetAnswered \/ GetEnd \/ Tick \/ VaultChanges \/ Rotate

\* Time passes, and a decrypt the KMS has answered is dealt with.
Fairness == WF_vars(Tick) /\ WF_vars(GetAnswered)

Spec == Init /\ [][Next]_vars /\ Fairness

(***************************************************************************)
(* Properties.                                                              *)
(***************************************************************************)
\* Every file, key, operation and object has its form, and a stored object is
\* never longer than what was sent.
TypeOK == /\ up \in {"down", "boot", "serving"} /\ kind \in Kinds \cup {None}
          /\ made \in 0..MaxKeys /\ faults \in 0..MaxFaults
          /\ writing \in Files \cup {None} /\ (writing /= None => file[writing] = Torn)
          /\ DOMAIN cache \subseteq Objects \cup {Probe}
          /\ \A t \in DOMAIN cache : cache[t] \in 0..ttl
          /\ \A o \in Objects : obj[o] /= Idle => obj[o].n \in 0..obj[o].source

\* An object lost to the providers: a fault destroyed the file its key came from.
Orphaned(o) == obj[o].key.from \in lost

\* A server that came up with the provider an object was written under can
\* unwrap it, through any number of crashes, restarts, half-written key files,
\* wrong passphrases and changes of provider, unless a fault destroyed that
\* very key; for the KMS, whenever the KMS answers.
ReadableAgain ==
  \A o \in Objects :
    (up = "serving" /\ obj[o] /= Idle /\ KindOf(obj[o].key) = kind /\ ~Orphaned(o))
      => (kind = "kms" \/ Unwraps(o))

\* The size recorded for an object is the number of bytes its container holds,
\* unless the KMS key was rotated to tokens of another length while it was
\* being written: header_len() then describes the other write's token.
SizeRight == \A o \in Objects : obj[o] /= Idle => obj[o].size = obj[o].n \/ obj[o].crossed

\* Of an object whose size is right, the chunks the filesystem backend opens are
\* enough and sliced at the right place, and the erasure backend's skip-and-read
\* agrees.
RangesRead ==
  get.phase = "reading" =>
    LET o == obj[get.o]
    IN o.size = o.n =>
         \A start, end \in 0..(o.n + 1) :
           LET want == Positions(Smaller(start, o.n), Smaller(end + 1, o.n))
           IN /\ FsRange(o.n, WrappedLenOf(o.key), o.size, start, end) = want
              /\ ErasureRange(o.n, o.size, start, end) = want

\* The size recorded for an object is that of its bytes, whatever provider wrote
\* it and wherever its source broke off, and both backends answer every range of
\* it with exactly those bytes (put_object, get_object_range); an object crossed
\* by a rotation to longer tokens is left out.
RangeExact == SizeRight /\ RangesRead

\* Once the key or the token is revoked, objects under the KMS stop being
\* readable for good: no cached key outlives its lifetime, however often it is
\* read, and no answer in flight is cached for ever.
RevokedIsCut == vault.revoked ~> [](\A o \in Objects : ~Hit(o))
=============================================================================
