----------------------------- MODULE Keys_proof -----------------------------
(***************************************************************************)
(* The key providers and the encrypted container, for any files, objects,  *)
(* passphrases, vault states, sizes, chunk and header lengths and faults.  *)
(*                                                                         *)
(* ReadableAgain speaks of a server that has come up; what makes it true   *)
(* is kept while none runs.  The invariant says where every start may be,  *)
(* a half-written file and the keys loaded so far included (BootStage),    *)
(* that the file an object's key came from still holds that key or the key *)
(* is lost (ObjectKept), and that a write under way has its key from the   *)
(* provider that serves (PutForm).  RangeExact rests on the arithmetic of  *)
(* the container: the sizes invert (PlaintextExact), and opening the       *)
(* chunks a range covers gives its positions (OpenedFacts, by the least    *)
(* number of chunks for which it would not).                               *)
(***************************************************************************)
EXTENDS Keys, WellFoundedInduction, SequenceTheorems, TLAPS

-------------------------------------------------------------------------------
(* The arithmetic of the container *)

\* Quotient and remainder are unique.
LEMMA QuotientFacts ==
  ASSUME NEW b \in Nat \ {0}, NEW q \in Nat, NEW r \in 0 .. b - 1
  PROVE  (b * q + r) \div b = q /\ (b * q + r) % b = r
<1> DEFINE a == b * q + r
           p == a \div b
           s == a % b
<1>1. b \in Nat /\ b > 0 /\ a \in Nat
  OBVIOUS
<1>2. p \in Nat /\ s \in 0 .. b - 1 /\ a = b * p + s
  BY <1>1
<1>3. b * q + r = b * p + s
  BY <1>2
<1> HIDE DEF p, s, a
<1>4. ~ (q < p)
  <2>1. SUFFICES ASSUME q < p PROVE FALSE
    OBVIOUS
  <2>2. PICK k \in Nat : p = q + 1 + k
    <3>1. p - q - 1 \in Nat /\ p = q + 1 + (p - q - 1)
      BY <1>2, <2>1
    <3> QED
      BY <3>1
  <2>3. b * p = b * q + b + b * k /\ b * k \in Nat /\ b * q \in Nat
    BY <1>1, <2>2
  <2> QED
    BY <1>1, <1>2, <1>3, <2>3
<1>5. ~ (p < q)
  <2>1. SUFFICES ASSUME p < q PROVE FALSE
    OBVIOUS
  <2>2. PICK k \in Nat : q = p + 1 + k
    <3>1. q - p - 1 \in Nat /\ q = p + 1 + (q - p - 1)
      BY <1>2, <2>1
    <3> QED
      BY <3>1
  <2>3. b * q = b * p + b + b * k /\ b * k \in Nat /\ b * p \in Nat
    BY <1>1, <1>2, <2>2
  <2> QED
    BY <1>1, <1>2, <1>3, <2>3
<1>6. p = q
  BY <1>2, <1>4, <1>5
<1>7. s = r
  <2>1. b * p \in Nat /\ b * p = b * q
    BY <1>1, <1>2, <1>6
  <2> QED
    BY <1>2, <1>3, <2>1
<1> QED
  BY <1>6, <1>7 DEF p, s, a

\* A number of bytes in chunks: q whole ones and a rest of r.
LEMMA ChunkFacts ==
  ASSUME NEW n \in Nat
  PROVE  \E q \in Nat : \E r \in 0 .. Chunk - 1 :
           /\ n = Chunk * q + r /\ Chunk * q \in Nat
           /\ CeilDiv(n, Chunk) = IF r = 0 THEN q ELSE q + 1
           /\ n \div Chunk = q
<1>1. Chunk \in Nat /\ Chunk > 0
  BY ContainerAssumption
<1> DEFINE q == n \div Chunk
           r == n % Chunk
<1>2. q \in Nat /\ r \in 0 .. Chunk - 1 /\ n = Chunk * q + r
  BY <1>1
<1> HIDE DEF q, r
<1>3. Chunk * q \in Nat
  BY <1>1, <1>2
<1>4. CASE r = 0
  <2>1. n + Chunk - 1 = Chunk * q + (Chunk - 1) /\ Chunk - 1 \in 0 .. Chunk - 1
    BY <1>1, <1>2, <1>3, <1>4
  <2>2. (Chunk * q + (Chunk - 1)) \div Chunk = q
    BY <1>1, <1>2, <2>1, QuotientFacts
  <2> QED
    BY <1>2, <1>3, <1>4, <2>1, <2>2 DEF CeilDiv, q
<1>5. CASE r # 0
  <2>1. Chunk * (q + 1) = Chunk * q + Chunk
    BY <1>1, <1>2
  <2>2. n + Chunk - 1 = Chunk * (q + 1) + (r - 1) /\ r - 1 \in 0 .. Chunk - 1 /\ q + 1 \in Nat
    BY <1>1, <1>2, <1>3, <1>5, <2>1
  <2>3. (Chunk * (q + 1) + (r - 1)) \div Chunk = q + 1
    BY <1>1, <2>2, QuotientFacts
  <2> QED
    BY <1>2, <1>3, <1>5, <2>2, <2>3 DEF CeilDiv, q
<1> QED
  BY <1>4, <1>5

\* The size worked out from a stored container is that of its plaintext.
LEMMA PlaintextExact ==
  ASSUME NEW n \in Nat, NEW w \in Nat
  PROVE  PlaintextLen(StoredLen(n, w), HeaderLen(w)) = n
<1>1. /\ Chunk \in Nat /\ Chunk > 0 /\ Tag \in Nat /\ HeaderLen(w) \in Nat
      /\ ChunkBlock \in Nat \ {0} /\ ChunkBlock = Chunk + Tag
  BY ContainerAssumption DEF HeaderLen, ChunkBlock
<1>2. PICK q \in Nat, r \in 0 .. Chunk - 1 :
        /\ n = Chunk * q + r /\ Chunk * q \in Nat
        /\ CeilDiv(n, Chunk) = IF r = 0 THEN q ELSE q + 1
  BY ChunkFacts
<1>3. ChunkBlock * q = Chunk * q + Tag * q /\ Tag * q \in Nat /\ q * Chunk = Chunk * q
  BY <1>1
<1> DEFINE h == HeaderLen(w)
           body == n + CeilDiv(n, Chunk) * Tag
<1>4. StoredLen(n, w) = h + body
  <2>1. CeilDiv(n, Chunk) * Tag \in Nat
    BY <1>1, <1>2
  <2> QED
    BY <1>1, <2>1 DEF StoredLen
<1> HIDE DEF h
<1>5. CASE r = 0
  <2>1. body = ChunkBlock * q + 0
    BY <1>1, <1>2, <1>3, <1>5
  <2>2. body \in Nat /\ (body = 0 <=> n = 0)
    BY <1>1, <1>2, <1>3, <1>5, <2>1
  <2> HIDE DEF body
  <2>3. body \div ChunkBlock = q /\ body % ChunkBlock = 0
    <3>1. 0 \in 0 .. ChunkBlock - 1
      BY <1>1
    <3>2. (ChunkBlock * q + 0) \div ChunkBlock = q /\ (ChunkBlock * q + 0) % ChunkBlock = 0
      BY <1>1, <3>1, QuotientFacts
    <3> QED
      BY <2>1, <3>2
  <2>4. h \in Nat /\ (h + body) - h = body /\ (h + body <= h <=> body = 0)
    BY <1>1, <2>2 DEF h
  <2>5. PlaintextLen(h + body, h) = IF body = 0 THEN 0 ELSE q * Chunk + 0
    BY <1>1, <2>3, <2>4 DEF PlaintextLen
  <2> QED
    BY <1>1, <1>2, <1>3, <1>4, <1>5, <2>2, <2>5 DEF h
<1>6. CASE r # 0
  <2>1. (q + 1) * Tag = Tag * q + Tag
    BY <1>1
  <2>2. body = ChunkBlock * q + (r + Tag) /\ r + Tag \in 0 .. ChunkBlock - 1
    BY <1>1, <1>2, <1>3, <1>6, <2>1
  <2>3. body \in Nat /\ body # 0
    BY <1>1, <1>2, <1>3, <1>6, <2>2
  <2> HIDE DEF body
  <2>4. body \div ChunkBlock = q /\ body % ChunkBlock = r + Tag
    <3>1. /\ (ChunkBlock * q + (r + Tag)) \div ChunkBlock = q
          /\ (ChunkBlock * q + (r + Tag)) % ChunkBlock = r + Tag
      BY <1>1, <2>2, QuotientFacts
    <3> QED
      BY <2>2, <3>1
  <2>5. h \in Nat /\ (h + body) - h = body /\ ~ (h + body <= h)
    BY <1>1, <2>3 DEF h
  <2>6. PlaintextLen(h + body, h) = q * Chunk + (IF r + Tag > Tag THEN (r + Tag) - Tag ELSE 0)
    BY <1>1, <2>4, <2>5 DEF PlaintextLen
  <2> QED
    BY <1>1, <1>2, <1>3, <1>4, <1>6, <2>6 DEF h
<1> QED
  BY <1>5, <1>6

\* A chunk that begins before the end of the plaintext is in the file.
LEMMA ChunkPresent ==
  ASSUME NEW n \in Nat, NEW w \in Nat, NEW ci \in Nat, ci * Chunk < n
  PROVE  HeaderLen(w) + ci * ChunkBlock < StoredLen(n, w)
<1>1. Chunk \in Nat /\ Chunk > 0 /\ Tag \in Nat /\ HeaderLen(w) \in Nat
  BY ContainerAssumption DEF HeaderLen
<1>2. PICK q \in Nat, r \in 0 .. Chunk - 1 :
        /\ n = Chunk * q + r /\ Chunk * q \in Nat
        /\ CeilDiv(n, Chunk) = IF r = 0 THEN q ELSE q + 1
  BY ChunkFacts
<1> DEFINE c == CeilDiv(n, Chunk)
<1>3. ~ (q < ci)
  <2>1. SUFFICES ASSUME q < ci PROVE FALSE
    OBVIOUS
  <2>2. PICK k \in Nat : ci = q + 1 + k
    <3>1. ci - q - 1 \in Nat /\ ci = q + 1 + (ci - q - 1)
      BY <2>1
    <3> QED
      BY <3>1
  <2>3. ci * Chunk = Chunk * q + Chunk + Chunk * k /\ Chunk * k \in Nat
    BY <1>1, <2>2
  <2> QED
    BY <1>1, <1>2, <2>3
<1>4. c \in Nat /\ ci <= c
  BY <1>2, <1>3
<1> HIDE DEF c
<1>5. PICK k \in Nat : c = ci + k
  <2>1. c - ci \in Nat /\ c = ci + (c - ci)
    BY <1>4
  <2> QED
    BY <2>1
<1>6. c * Tag = ci * Tag + k * Tag /\ ci * Tag \in Nat /\ k * Tag \in Nat /\ ci * Chunk \in Nat
  BY <1>1, <1>5
<1>7. ci * ChunkBlock = ci * Chunk + ci * Tag
  BY <1>1 DEF ChunkBlock
<1>8. StoredLen(n, w) = HeaderLen(w) + n + c * Tag
  BY DEF StoredLen, c
<1> QED
  BY <1>1, <1>6, <1>7, <1>8

-------------------------------------------------------------------------------
(* Ranges *)

\* The bytes after a up to b, none if b is not beyond a.
LEMMA PositionsFacts ==
  ASSUME NEW a \in Nat, NEW b \in Nat
  PROVE  /\ Positions(a, b) \in Seq(Nat)
         /\ Len(Positions(a, b)) = IF a <= b THEN b - a ELSE 0
         /\ \A i \in 1 .. b - a : Positions(a, b)[i] = a + i
         /\ b <= a => Positions(a, b) = <<>>
<1>1. CASE a <= b
  <2>1. b - a \in Nat /\ \A i \in 1 .. b - a : a + i \in Nat
    BY <1>1
  <2>2. Positions(a, b) \in Seq(Nat) /\ Len(Positions(a, b)) = b - a
    BY <2>1 DEF Positions
  <2>3. b <= a => b - a = 0
    BY <1>1
  <2>4. b <= a => Positions(a, b) = <<>>
    BY <2>2, <2>3, EmptySeq
  <2> QED
    BY <1>1, <2>2, <2>4 DEF Positions
<1>2. CASE b < a
  <2>1. 1 .. b - a = {}
    BY <1>2
  <2>2. Positions(a, b) = <<>>
    BY <2>1 DEF Positions
  <2> QED
    BY <1>2, <2>1, <2>2
<1> QED
  BY <1>1, <1>2

\* Adjacent stretches of positions join into one.
LEMMA PositionsJoin ==
  ASSUME NEW a \in Nat, NEW b \in Nat, NEW c \in Nat, a <= b, b <= c
  PROVE  Positions(a, b) \o Positions(b, c) = Positions(a, c)
<1> DEFINE s == Positions(a, b)
           t == Positions(b, c)
           u == Positions(a, c)
<1>1. s \in Seq(Nat) /\ Len(s) = b - a /\ \A i \in 1 .. b - a : s[i] = a + i
  BY PositionsFacts
<1>2. t \in Seq(Nat) /\ Len(t) = c - b /\ \A i \in 1 .. c - b : t[i] = b + i
  BY PositionsFacts
<1>3. u \in Seq(Nat) /\ Len(u) = c - a /\ \A i \in 1 .. c - a : u[i] = a + i
  <2>1. a <= c
    OBVIOUS
  <2> QED
    BY <2>1, PositionsFacts
<1> HIDE DEF s, t, u
<1>4. s \o t \in Seq(Nat) /\ Len(s \o t) = c - a
      /\ \A i \in 1 .. c - a : (s \o t)[i] = IF i <= b - a THEN s[i] ELSE t[i - (b - a)]
  <2>1. s \o t \in Seq(Nat) /\ Len(s \o t) = Len(s) + Len(t)
        /\ \A i \in 1 .. Len(s) + Len(t) : (s \o t)[i] = IF i <= Len(s) THEN s[i] ELSE t[i - Len(s)]
    BY <1>1, <1>2, ConcatProperties
  <2>2. (b - a) + (c - b) = c - a
    OBVIOUS
  <2>3. \A i \in 1 .. (b - a) + (c - b) : (s \o t)[i] = IF i <= b - a THEN s[i] ELSE t[i - (b - a)]
    BY <1>1, <1>2, <2>1, Zenon
  <2> QED
    BY <1>1, <1>2, <2>1, <2>2, <2>3
<1>5. ASSUME NEW i \in 1 .. c - a PROVE (s \o t)[i] = u[i]
  <2>1. CASE i <= b - a
    BY <1>1, <1>3, <1>4, <2>1
  <2>2. CASE ~ (i <= b - a)
    <3>1. i - (b - a) \in 1 .. c - b /\ b + (i - (b - a)) = a + i
      BY <2>2
    <3> QED
      BY <1>2, <1>3, <1>4, <2>2, <3>1
  <2> QED
    BY <2>1, <2>2
<1>6. s \o t = u
  BY <1>3, <1>4, <1>5, SeqEqual
<1> QED
  BY <1>6 DEF s, t, u

\* A set of numbers has a least one.
LEMMA Smallest ==
  ASSUME NEW D, D \subseteq Nat, D # {}
  PROVE  \E d \in D : \A e \in D : d <= e
<1>1. PICK d \in D : \A e \in D : ~ (<<e, d>> \in OpToRel(<, Nat))
  BY NatLessThanWellFounded, WFMin, Zenon
<1>2. \A e \in D : ~ (e < d)
  <2>1. ASSUME NEW e \in D, e < d PROVE <<e, d>> \in OpToRel(<, Nat)
    BY <2>1, Zenon DEF OpToRel
  <2> QED
    BY <1>1, <2>1, Zenon
<1> QED
  BY <1>2

\* One more chunk is opened, or there is none left.
LEMMA OpenedStep ==
  ASSUME NEW n \in Nat, NEW first \in Nat, NEW ci \in Nat, first <= ci
  PROVE  /\ Positions(first * Chunk, Smaller(ci * Chunk, n)) \o OpenChunk(n, ci)
              = Positions(first * Chunk, Smaller((ci + 1) * Chunk, n))
         /\ ~ (ci * Chunk < n) =>
              Positions(first * Chunk, Smaller(ci * Chunk, n))
                = Positions(first * Chunk, Smaller((ci + 1) * Chunk, n))
<1> DEFINE a == first * Chunk
           b == ci * Chunk
           c == (ci + 1) * Chunk
<1>1. a \in Nat /\ b \in Nat /\ c \in Nat /\ a <= b /\ b <= c
  <2>1. Chunk \in Nat
    BY ContainerAssumption
  <2>2. PICK k \in Nat : ci = first + k
    <3>1. ci - first \in Nat /\ ci = first + (ci - first)
      OBVIOUS
    <3> QED
      BY <3>1
  <2>3. b = a + k * Chunk /\ k * Chunk \in Nat /\ a \in Nat /\ c = b + Chunk
    BY <2>1, <2>2
  <2> QED
    BY <2>1, <2>3
<1>2. OpenChunk(n, ci) = Positions(b, Smaller(c, n))
  BY DEF OpenChunk
<1> HIDE DEF a, b, c
<1>3. CASE b < n
  <2>1. Smaller(b, n) = b /\ Smaller(c, n) \in Nat /\ b <= Smaller(c, n)
    BY <1>1, <1>3 DEF Smaller
  <2>2. Positions(a, b) \o Positions(b, Smaller(c, n)) = Positions(a, Smaller(c, n))
    BY <1>1, <2>1, PositionsJoin
  <2> QED
    BY <1>2, <1>3, <2>1, <2>2 DEF a, b, c
<1>4. CASE ~ (b < n)
  <2>1. Smaller(b, n) = n /\ Smaller(c, n) = n
    BY <1>1, <1>4 DEF Smaller
  <2>2. Positions(b, n) = <<>> /\ Positions(a, n) \in Seq(Nat)
    BY <1>1, <1>4, PositionsFacts
  <2>3. Positions(a, n) \o <<>> = Positions(a, n)
    BY <2>2, ConcatEmptySeq
  <2> QED
    BY <1>2, <2>1, <2>2, <2>3 DEF a, b, c
<1> QED
  BY <1>3, <1>4

\* What is read of a range before it is sliced.
LEMMA OpenedFacts ==
  ASSUME NEW n \in Nat, NEW w \in Nat, NEW first \in Nat, NEW m \in Nat
  PROVE  Opened(n, w, first, m) = Positions(first * Chunk, Smaller((first + m) * Chunk, n))
<1> DEFINE E(f) == [j \in 0 .. m |->
                      IF j = 0 THEN <<>>
                      ELSE IF HeaderLen(w) + (first + j - 1) * ChunkBlock < StoredLen(n, w)
                           THEN f[j - 1] \o OpenChunk(n, first + j - 1) ELSE f[j - 1]]
           plain == CHOOSE f : f = E(f)
           read == [j \in 0 .. m |-> Positions(first * Chunk, Smaller((first + j) * Chunk, n))]
<1>1. Opened(n, w, first, m) = plain[m]
  BY DEF Opened
<1>2. ASSUME NEW f, NEW j \in 1 .. m,
             f[j - 1] = Positions(first * Chunk, Smaller((first + (j - 1)) * Chunk, n))
      PROVE  E(f)[j] = Positions(first * Chunk, Smaller((first + j) * Chunk, n))
  <2> DEFINE ci == first + j - 1
  <2>1. ci \in Nat /\ first <= ci /\ ci + 1 = first + j /\ first + (j - 1) = ci
    OBVIOUS
  <2>2. E(f)[j] = IF HeaderLen(w) + ci * ChunkBlock < StoredLen(n, w)
                  THEN f[j - 1] \o OpenChunk(n, ci) ELSE f[j - 1]
    OBVIOUS
  <2>3. f[j - 1] = Positions(first * Chunk, Smaller(ci * Chunk, n))
    BY <1>2, <2>1
  <2>4. /\ Positions(first * Chunk, Smaller(ci * Chunk, n)) \o OpenChunk(n, ci)
             = Positions(first * Chunk, Smaller((ci + 1) * Chunk, n))
        /\ ~ (ci * Chunk < n) =>
             Positions(first * Chunk, Smaller(ci * Chunk, n))
               = Positions(first * Chunk, Smaller((ci + 1) * Chunk, n))
    <3> HIDE DEF ci
    <3> QED
      BY <2>1, OpenedStep
  <2>5. ci * Chunk < n => HeaderLen(w) + ci * ChunkBlock < StoredLen(n, w)
    <3> HIDE DEF ci
    <3> QED
      BY <2>1, ChunkPresent
  <2> HIDE DEF ci, E
  <2>6. E(f)[j] = Positions(first * Chunk, Smaller((ci + 1) * Chunk, n))
    BY <2>2, <2>3, <2>4, <2>5, Zenon
  <2> QED
    BY <2>1, <2>6
<1>3. first * Chunk \in Nat /\ Positions(first * Chunk, Smaller((first + 0) * Chunk, n)) = <<>>
  <2>1. first * Chunk \in Nat /\ (first + 0) * Chunk = first * Chunk
    BY ContainerAssumption
  <2>2. Smaller(first * Chunk, n) \in Nat /\ Smaller(first * Chunk, n) <= first * Chunk
    BY <2>1 DEF Smaller
  <2> QED
    BY <2>1, <2>2, PositionsFacts
<1>4. read = E(read)
  <2>1. ASSUME NEW j \in 0 .. m PROVE read[j] = E(read)[j]
    <3>1. CASE j = 0
      BY <1>3, <3>1
    <3>2. CASE j # 0
      <4>1. j \in 1 .. m /\ j - 1 \in 0 .. m
        BY <3>2
      <4>2. read[j - 1] = Positions(first * Chunk, Smaller((first + (j - 1)) * Chunk, n))
        BY <4>1
      <4>3. read[j] = Positions(first * Chunk, Smaller((first + j) * Chunk, n))
        OBVIOUS
      <4> HIDE DEF read, E
      <4> QED
        BY <1>2, <4>1, <4>2, <4>3
    <3> QED
      BY <3>1, <3>2
  <2>2. read = [j \in 0 .. m |-> read[j]] /\ E(read) = [j \in 0 .. m |-> E(read)[j]]
    OBVIOUS
  <2> HIDE DEF read, E
  <2> QED
    BY <2>1, <2>2
<1>5. plain = E(plain)
  <2> HIDE DEF read, E
  <2> QED
    BY <1>4, Zenon
<1> HIDE DEF plain
<1>6. \A j \in 0 .. m : plain[j] = Positions(first * Chunk, Smaller((first + j) * Chunk, n))
  <2> DEFINE B == {j \in 0 .. m : plain[j] # Positions(first * Chunk, Smaller((first + j) * Chunk, n))}
  <2>1. SUFFICES ASSUME B # {} PROVE FALSE
    OBVIOUS
  <2>2. B \subseteq Nat
    OBVIOUS
  <2>3. PICK j \in B : \A k \in B : j <= k
    <3> HIDE DEF B
    <3> QED
      BY <2>1, <2>2, Smallest
  <2>4. E(plain)[0] = <<>> /\ 0 \in 0 .. m
    OBVIOUS
  <2>5. j # 0
    BY <1>3, <1>5, <2>3, <2>4
  <2>6. j \in 1 .. m /\ j - 1 \in 0 .. m /\ ~ (j <= j - 1)
    BY <2>5
  <2>7. plain[j - 1] = Positions(first * Chunk, Smaller((first + (j - 1)) * Chunk, n))
    BY <2>3, <2>6
  <2>8. E(plain)[j] = Positions(first * Chunk, Smaller((first + j) * Chunk, n))
    <3> HIDE DEF E
    <3> QED
      BY <1>2, <2>6, <2>7
  <2> HIDE DEF E
  <2>9. plain[j] = Positions(first * Chunk, Smaller((first + j) * Chunk, n))
    BY <1>5, <2>8
  <2> QED
    BY <2>3, <2>9
<1> QED
  BY <1>1, <1>6

\* A part of such bytes, cut out by its place among them.
LEMMA PositionsCut ==
  ASSUME NEW a \in Nat, NEW b \in Nat, NEW i \in Nat, NEW j \in Nat, a <= b, j <= b - a
  PROVE  Slice(Positions(a, b), i, j) = Positions(a + i, a + j)
<1> DEFINE s == Positions(a, b)
           t == Positions(a + i, a + j)
           u == SubSeq(s, i + 1, j)
<1>1. s \in Seq(Nat) /\ Len(s) = b - a /\ \A k \in 1 .. b - a : s[k] = a + k
  BY PositionsFacts
<1>2. /\ t \in Seq(Nat) /\ Len(t) = IF a + i <= a + j THEN (a + j) - (a + i) ELSE 0
      /\ \A k \in 1 .. (a + j) - (a + i) : t[k] = (a + i) + k
      /\ a + j <= a + i => t = <<>>
  <2>1. a + i \in Nat /\ a + j \in Nat
    OBVIOUS
  <2> QED
    BY <2>1, PositionsFacts
<1> HIDE DEF s, t
<1>3. CASE i < j
  <2>1. i + 1 \in 1 .. Len(s) + 1 /\ j \in (i + 1) - 1 .. Len(s)
    BY <1>1, <1>3
  <2>2. u \in Seq(Nat) /\ Len(u) = j - (i + 1) + 1
        /\ \A k \in 1 .. j - (i + 1) + 1 : u[k] = s[(i + 1) + k - 1]
    BY <1>1, <2>1, SubSeqProperties
  <2>3. Len(u) = j - i /\ Len(t) = j - i
    BY <1>2, <1>3, <2>2
  <2> HIDE DEF u
  <2>4. ASSUME NEW k \in 1 .. Len(u) PROVE u[k] = t[k]
    <3>1. k \in 1 .. j - (i + 1) + 1 /\ k \in 1 .. (a + j) - (a + i)
      BY <2>3
    <3>2. (i + 1) + k - 1 \in 1 .. b - a /\ a + ((i + 1) + k - 1) = (a + i) + k
      BY <3>1
    <3> QED
      BY <1>1, <1>2, <2>2, <3>1, <3>2
  <2> QED
    BY <1>2, <2>2, <2>3, <2>4, SeqEqual DEF s, t, u, Slice
<1>4. CASE ~ (i < j)
  <2>1. u = <<>>
    BY <1>1, <1>4
  <2> QED
    BY <1>2, <1>4, <2>1 DEF s, t, u, Slice
<1> QED
  BY <1>3, <1>4

\* The chunks a range covers hold all of it, and it is cut out at its place.
LEMMA FsRangeExact ==
  ASSUME NEW n \in Nat, NEW w \in Nat, NEW start \in Nat, NEW end \in Nat
  PROVE  FsRange(n, w, n, start, end) = Positions(Smaller(start, n), Smaller(end + 1, n))
<1>1. Chunk \in Nat /\ Chunk > 0
  BY ContainerAssumption
<1> DEFINE s == Smaller(start, n)
           last == IF n = 0 THEN 0 ELSE Smaller(end, n - 1)
           len == IF n = 0 \/ last < s THEN 0 ELSE last - s + 1
           r == Clamp(n, start, end)
           first == s \div Chunk
           final == last \div Chunk
           m == IF final < first THEN 0 ELSE final - first + 1
           a == first * Chunk
           b == Smaller((first + m) * Chunk, n)
           plain == Opened(n, w, first, m)
           from == s - a
<1>2. r.start = s /\ r.last = last /\ r.len = len
  BY DEF Clamp
<1>3. FsRange(n, w, n, start, end)
        = Slice(plain, from, Smaller(from + len, Len(plain)))
  BY <1>2 DEF FsRange, Covered
<1>4. /\ s \in Nat /\ last \in Nat /\ len \in Nat /\ s <= n /\ (n # 0 => last < n)
      /\ Smaller(end + 1, n) = IF n = 0 THEN 0 ELSE last + 1
      /\ len = IF n = 0 \/ last < s THEN 0 ELSE (last + 1) - s
  BY DEF Smaller
<1> HIDE DEF s, last, len, r
<1>5. PICK x \in 0 .. Chunk - 1 : first \in Nat /\ s = Chunk * first + x
  <2>1. PICK q \in Nat, x \in 0 .. Chunk - 1 : s = Chunk * q + x /\ s \div Chunk = q
    BY <1>4, ChunkFacts
  <2> QED
    BY <2>1
<1>6. PICK y \in 0 .. Chunk - 1 : final \in Nat /\ last = Chunk * final + y
  <2>1. PICK q \in Nat, y \in 0 .. Chunk - 1 : last = Chunk * q + y /\ last \div Chunk = q
    BY <1>4, ChunkFacts
  <2> QED
    BY <2>1
<1> HIDE DEF first, final
<1>7. a \in Nat /\ a = Chunk * first /\ from = x /\ s = a + from /\ from \in Nat /\ m \in Nat
  BY <1>1, <1>4, <1>5, <1>6
<1>8. plain = Positions(a, b)
  <2> HIDE DEF m
  <2> QED
    BY <1>5, <1>7, OpenedFacts
<1>9. b \in Nat
  <2>1. (first + m) * Chunk \in Nat
    <3> HIDE DEF m
    <3> QED
      BY <1>1, <1>5, <1>7
  <2> QED
    BY <2>1 DEF Smaller
<1>10. CASE n # 0 /\ s <= last
  <2>1. first <= final
    <3>1. SUFFICES ASSUME final < first PROVE FALSE
      BY <1>5, <1>6
    <3>2. PICK k \in Nat : first = final + 1 + k
      <4>1. first - final - 1 \in Nat /\ first = final + 1 + (first - final - 1)
        BY <1>5, <1>6, <3>1
      <4> QED
        BY <4>1
    <3>3. Chunk * first = Chunk * final + Chunk + Chunk * k /\ Chunk * k \in Nat /\ Chunk * final \in Nat
      BY <1>1, <1>6, <3>2
    <3> QED
      BY <1>1, <1>5, <1>6, <1>10, <3>3
  <2>2. first + m = final + 1 /\ (final + 1) * Chunk = Chunk * final + Chunk
    BY <1>1, <1>5, <1>6, <2>1
  <2>3. last + 1 <= (first + m) * Chunk /\ (first + m) * Chunk \in Nat
    <3>1. Chunk * final \in Nat
      BY <1>1, <1>6
    <3> HIDE DEF m
    <3> QED
      BY <1>1, <1>6, <2>2, <3>1
  <2>4. last + 1 <= b
    BY <1>4, <1>10, <2>3 DEF Smaller
  <2>5. a <= b /\ from + len = (last + 1) - a /\ from + len <= b - a /\ from + len \in Nat
    BY <1>4, <1>7, <1>9, <1>10, <2>4
  <2>6. Len(plain) = b - a
    BY <1>7, <1>8, <1>9, <2>5, PositionsFacts
  <2> HIDE DEF a, b, from, plain
  <2>7. Smaller(from + len, Len(plain)) = from + len
    BY <1>7, <1>9, <2>5, <2>6 DEF Smaller
  <2>8. Slice(Positions(a, b), from, from + len) = Positions(a + from, a + (from + len))
    <3> DEFINE to == from + len
    <3>1. to \in Nat /\ to <= b - a
      BY <2>5
    <3> HIDE DEF to
    <3>2. Slice(Positions(a, b), from, to) = Positions(a + from, a + to)
      BY <1>7, <1>9, <2>5, <3>1, PositionsCut
    <3> QED
      BY <3>2 DEF to
  <2>9. a + from = s /\ a + (from + len) = last + 1
    BY <1>4, <1>7, <2>5
  <2>10. FsRange(n, w, n, start, end) = Positions(s, last + 1)
    BY <1>3, <1>8, <2>7, <2>8, <2>9, Zenon
  <2> QED
    BY <1>4, <1>10, <2>10 DEF s
<1>11. CASE ~ (n # 0 /\ s <= last)
  <2>1. len = 0 /\ Smaller(end + 1, n) \in Nat /\ Smaller(end + 1, n) <= s
    BY <1>4, <1>11
  <2>2. plain \in Seq(Nat)
    BY <1>7, <1>8, <1>9, PositionsFacts
  <2> HIDE DEF a, b, from, plain
  <2>3. Len(plain) \in Nat /\ Smaller(from + len, Len(plain)) \in Nat
        /\ Smaller(from + len, Len(plain)) < from + 1
    BY <1>7, <2>1, <2>2 DEF Smaller
  <2>4. Slice(plain, from, Smaller(from + len, Len(plain))) = <<>>
    BY <1>7, <2>2, <2>3 DEF Slice
  <2>5. Positions(s, Smaller(end + 1, n)) = <<>>
    BY <1>4, <2>1, PositionsFacts
  <2> QED
    BY <1>3, <2>4, <2>5 DEF s
<1> QED
  BY <1>10, <1>11

\* Streaming from the start and skipping answers with the same bytes.
LEMMA ErasureRangeExact ==
  ASSUME NEW n \in Nat, NEW start \in Nat, NEW end \in Nat
  PROVE  ErasureRange(n, n, start, end) = Positions(Smaller(start, n), Smaller(end + 1, n))
<1> DEFINE s == Smaller(start, n)
           last == IF n = 0 THEN 0 ELSE Smaller(end, n - 1)
           len == IF n = 0 \/ last < s THEN 0 ELSE last - s + 1
<1>1. Clamp(n, start, end) = [start |-> s, last |-> last, len |-> len]
  BY DEF Clamp
<1>2. /\ s \in Nat /\ last \in Nat /\ len \in Nat /\ s <= n /\ (n # 0 => last < n)
      /\ Smaller(end + 1, n) = IF n = 0 THEN 0 ELSE last + 1
      /\ len = IF n = 0 \/ last < s THEN 0 ELSE (last + 1) - s
  BY DEF Smaller
<1> HIDE DEF s, last, len
<1>3. ErasureRange(n, n, start, end) = IF s + len > n THEN <<0>> ELSE Positions(s, s + len)
  BY <1>1 DEF ErasureRange
<1>4. ~ (s + len > n)
  BY <1>2
<1>5. CASE n = 0 \/ last < s
  <2>1. s + len = s /\ Smaller(end + 1, n) \in Nat /\ Smaller(end + 1, n) <= s
    BY <1>2, <1>5
  <2>2. Positions(s, s) = <<>>
    BY <1>2, PositionsFacts
  <2>3. Positions(s, Smaller(end + 1, n)) = <<>>
    BY <1>2, <2>1, PositionsFacts
  <2> QED
    BY <1>3, <1>4, <2>1, <2>2, <2>3 DEF s
<1>6. CASE ~ (n = 0 \/ last < s)
  <2>1. s + len = Smaller(end + 1, n)
    BY <1>2, <1>6
  <2> QED
    BY <1>3, <1>4, <2>1 DEF s
<1> QED
  BY <1>5, <1>6

-------------------------------------------------------------------------------
(* The invariant of the provider's files, keys, writes and objects *)

\* What a key file can hold.
FileForm == \A f \in Files :
              \/ file[f] \in {Absent, Torn}
              \/ IF f = "check" THEN \E k \in 0 .. MaxKeys, p \in Passphrases \cup {""} : file[f] = <<f, k, p>>
                 ELSE \E k \in 0 .. MaxKeys : file[f] = <<f, k>>

\* The objects written under a salt are all lost.
SaltLost == \A o \in Objects :
              obj[o] # Idle /\ obj[o].key.from[1] = "salt" => Orphaned(o)

\* How far a boot has come with its files: those left, the one being written,
\* the keys held so far.
At(t, w, held) == todo = t /\ writing = w /\ mem = held

\* Where a start of the file provider may be: the files still to load, the one
\* half written, and the keys in memory so far.
FileStage ==
  /\ pass = ""
  /\ \/ At(<<"master", "pq">>, None, {})
     \/ At(<<"master", "pq">>, "master", {Key(<<"master", made>>, "")}) /\ file["master"] = Torn
     \/ At(<<"pq">>, None, {Key(file["master"], "")}) /\ WellFormed("master")
     \/ /\ At(<<"pq">>, "pq", {Key(file["master"], ""), Key(<<"pq", made>>, "")})
        /\ WellFormed("master") /\ file["pq"] = Torn
     \/ /\ At(<<>>, None, {Key(file["master"], ""), Key(file["pq"], "")})
        /\ WellFormed("master") /\ WellFormed("pq")

\* The same for the passphrase provider: the salt, then the verifier.
PassphraseStage ==
  \/ At(<<"salt", "check">>, None, {})
  \/ At(<<"salt", "check">>, "salt", {Key(<<"salt", made>>, pass)}) /\ file["salt"] = Torn
  \/ At(<<"check">>, None, {Key(file["salt"], pass)}) /\ WellFormed("salt") /\ SaltLost
  \/ /\ At(<<"check">>, "check", {Key(file["salt"], pass)})
     /\ WellFormed("salt") /\ SaltLost /\ file["check"] = Torn
  \/ /\ At(<<>>, None, {Key(file["salt"], pass)}) /\ WellFormed("salt")
     /\ file["check"] = <<"check", file["salt"][2], pass>>

\* Where the start of any provider may be; a vault needs no file.
BootStage ==
  /\ pass \in Passphrases \cup {""}
  /\ up = "down" => kind = None /\ cache = Empty
  /\ up # "down" => kind \in Kinds
  /\ up = "serving" => todo = <<>>
  /\ kind \notin {"file", "passphrase"} => At(<<>>, None, {})
  /\ kind = "file" => FileStage
  /\ kind = "passphrase" => PassphraseStage

\* The file a key came from still holds it, and a sealed verifier, unless it is
\* damaged, still stands for its passphrase.
Kept(key) ==
  /\ file[key.from[1]] = key.from
  /\ IF key.from[1] = "salt" THEN file["check"] \in {Torn, <<"check", key.from[2], key.pass>>}
     ELSE key.pass = ""

\* A wrapping key is made of what it came from and a passphrase.
KeyForm(key) == key = Key(<<key.from[1], key.from[2]>>, key.pass)

\* The key of a stored object can be had again, unless a fault destroyed it.
ObjectKept == \A o \in Objects :
  obj[o] # Idle =>
    LET key == obj[o].key
    IN /\ obj[o].source \in Nat /\ obj[o].n \in 0 .. obj[o].source
       /\ KeyForm(key) /\ key.from[1] \in {"kms", "master", "pq", "salt"}
       /\ key.from[1] = "kms" \/ key.from \in lost \/ Kept(key)

\* A write under way: the provider it runs under holds its key, and header_len()
\* describes its token unless it was crossed.
PutForm == \A o \in Objects :
  put[o].phase # "idle" =>
    /\ put[o] = [phase |-> put[o].phase, key |-> put[o].key, n |-> put[o].n, crossed |-> put[o].crossed]
    /\ up = "serving" /\ put[o].phase \in {"minting", "streaming"}
    /\ put[o].n \in Nat /\ KeyForm(put[o].key)
    /\ put[o].phase = "minting" => kind = "kms"
    /\ put[o].key.from[1] = CASE kind = "kms" -> "kms" [] kind = "file" -> "pq" [] OTHER -> "salt"
    /\ kind # "kms" => put[o].key \in mem
    /\ put[o].phase = "streaming" => put[o].crossed \/ WrappedLenOf(put[o].key) = HeaderKeyLen

\* A read under way is of an object that is stored.
GetForm == /\ get.phase \in {"idle", "asked", "reading"}
           /\ get.phase # "idle" => up = "serving" /\ get.o \in Objects /\ obj[get.o] # Idle

\* The functions of the model are total on the names they are about.
Domains == /\ DOMAIN file = Files /\ DOMAIN obj = Objects /\ DOMAIN put = Objects
           /\ file = [f \in Files |-> file[f]] /\ obj = [o \in Objects |-> obj[o]]
           /\ put = [o \in Objects |-> put[o]]
           /\ ttl \in Nat

\* The inductive invariant of the key providers.
IInv == /\ TypeOK /\ Domains /\ FileForm /\ BootStage /\ ObjectKept /\ PutForm /\ GetForm /\ SizeRight

\* What is read in a key file is neither nothing nor half of it.
LEMMA PairFacts ==
  ASSUME NEW f, NEW k
  PROVE  <<f, k>> \notin {Absent, Torn} /\ <<f, k>>[1] = f /\ <<f, k>>[2] = k
<1>1. <<f, k>> # <<>>
  OBVIOUS
<1>2. <<f, k>> # <<"torn">>
  OBVIOUS
<1> QED
  BY <1>1, <1>2 DEF Absent, Torn

\* The same of a verifier.
LEMMA TripleFacts ==
  ASSUME NEW f, NEW k, NEW p
  PROVE  <<f, k, p>> \notin {Absent, Torn} /\ <<f, k, p>>[1] = f /\ <<f, k, p>>[2] = k
<1>1. <<f, k, p>> # <<>>
  OBVIOUS
<1>2. <<f, k, p>> # <<"torn">>
  OBVIOUS
<1> QED
  BY <1>1, <1>2 DEF Absent, Torn

\* The files a boot has left.
LEMMA QueueFacts ==
  ASSUME NEW a, NEW b
  PROVE  /\ Head(<<a, b>>) = a /\ Tail(<<a, b>>) = <<b>> /\ <<a, b>> # <<>>
         /\ Head(<<b>>) = b /\ Tail(<<b>>) = <<>> /\ <<b>> # <<>>
<1>1. Tail(<<a, b>>) = <<b>>
  OBVIOUS
<1>2. Tail(<<b>>) = <<>>
  OBVIOUS
<1> QED
  BY <1>1, <1>2

\* The parts of a wrapping key.
LEMMA KeyFacts ==
  ASSUME NEW m, NEW p
  PROVE  Key(m, p).from = m /\ Key(m, p).pass = p
BY DEF Key

\* A key made of a pair is of that form.
LEMMA FormFacts ==
  ASSUME NEW f, NEW k, NEW p
  PROVE  /\ KeyForm(Key(<<f, k>>, p)) /\ Key(<<f, k>>, p).from[1] = f
         /\ Key(<<f, k>>, p).from[2] = k
BY PairFacts, KeyFacts DEF KeyForm

\* The same for a key without a passphrase.
LEMMA BareFacts ==
  ASSUME NEW f, NEW k
  PROVE  Key(<<f, k>>, "").from[1] = f /\ KeyForm(Key(<<f, k>>, ""))
<1>1. \A p : Key(<<f, k>>, p).from[1] = f /\ KeyForm(Key(<<f, k>>, p))
  BY FormFacts
<1> QED
  BY <1>1

\* The first states.
LEMMA InitInv == Init => IInv
<1> SUFFICES ASSUME Init PROVE IInv
  OBVIOUS
<1> USE KeysAssumption
<1>1. Domains
  BY DEF Init, Domains
<1>2. PICK legacy \in BOOLEAN, first \in Objects, n \in Lengths :
        /\ file = [f \in Files |-> IF legacy /\ f = "master" THEN <<"master", 0>> ELSE Absent]
        /\ obj = [o \in Objects |->
                    IF legacy /\ o = first
                    THEN [key |-> Key(<<"master", 0>>, ""), source |-> n, n |-> n,
                          size |-> n, crossed |-> FALSE]
                    ELSE Idle]
  BY DEF Init
<1>10. FileForm
  <2>1. 0 \in 0 .. MaxKeys
    OBVIOUS
  <2> QED
    BY <1>2, <2>1 DEF FileForm, Files
<1>3. BootStage
  BY DEF Init, BootStage, Kinds, None, At
<1>4. ASSUME NEW o \in Objects, obj[o] # Idle
      PROVE  /\ obj[o].key = Key(<<"master", 0>>, "") /\ obj[o].n \in Nat
             /\ obj[o].source = obj[o].n /\ obj[o].size = obj[o].n
             /\ file["master"] = <<"master", 0>> /\ obj[o].n \in 0 .. obj[o].source
  <2>1. n \in Nat /\ legacy
    BY <1>2, <1>4
  <2>2. obj[o] = [key |-> Key(<<"master", 0>>, ""), source |-> n, n |-> n, size |-> n, crossed |-> FALSE]
    BY <1>2, <1>4
  <2>3. file["master"] = <<"master", 0>>
    BY <1>2, <2>1 DEF Files
  <2>4. obj[o].key = Key(<<"master", 0>>, "") /\ obj[o].n = n /\ obj[o].source = n /\ obj[o].size = n
    <3>1. \A k : LET r == [key |-> k, source |-> n, n |-> n, size |-> n, crossed |-> FALSE]
                 IN r.key = k /\ r.n = n /\ r.source = n /\ r.size = n
      OBVIOUS
    <3> QED
      BY <2>2, <3>1, Zenon
  <2>5. n \in 0 .. n
    BY <2>1
  <2> QED
    BY <2>1, <2>3, <2>4, <2>5
<1>5. ObjectKept
  <2>1. KeyForm(Key(<<"master", 0>>, "")) /\ Key(<<"master", 0>>, "").from[1] = "master"
    BY FormFacts
  <2>2. Key(<<"master", 0>>, "").from = <<"master", 0>> /\ Key(<<"master", 0>>, "").pass = ""
    BY KeyFacts
  <2>3. Kept(Key(<<"master", 0>>, "")) \/ ~ (\E o \in Objects : obj[o] # Idle)
    BY <1>4, <2>1, <2>2 DEF Kept
  <2> QED
    BY <1>4, <2>1, <2>3 DEF ObjectKept
<1>6. SizeRight
  BY <1>4 DEF SizeRight
<1>7. PutForm
  BY DEF Init, PutForm, Idle
<1>8. GetForm
  BY DEF Init, GetForm, NoRead
<1>9. TypeOK
  <2>1. \A o \in Objects : obj[o] /= Idle => obj[o].n \in 0..obj[o].source
    BY <1>4
  <2>2. DOMAIN cache = {}
    BY DEF Init, Empty
  <2>3. up = "down" /\ kind = None /\ made = 0 /\ faults = 0 /\ writing = None
    BY DEF Init
  <2>4. 0 \in 0 .. MaxKeys /\ 0 \in 0 .. MaxFaults
    OBVIOUS
  <2> QED
    BY <2>1, <2>2, <2>3, <2>4 DEF TypeOK
<1> QED
  BY <1>1, <1>3, <1>5, <1>6, <1>7, <1>8, <1>9, <1>10 DEF IInv

-------------------------------------------------------------------------------
(* Steps that leave the boot, the files, the writes and the objects alone *)

\* The cache has entries of stored names, none older than the lifetime.
CacheForm == /\ DOMAIN cache \subseteq Objects \cup {Probe}
             /\ \A t \in DOMAIN cache : cache[t] \in 0..ttl

\* A step that changes only a read, the cache or the count of faults.
LEMMA QuietStep ==
  ASSUME IInv, UNCHANGED <<boot, disk, put, wrappedLen, mem, ttl, obj>>,
         GetForm', CacheForm', up = "down" => cache' = cache, faults' \in 0 .. MaxFaults
  PROVE  IInv'
<1>1. Domains' /\ FileForm'
  BY DEF IInv, Domains, FileForm, disk
<1>2. BootStage'
  BY DEF IInv, BootStage, FileStage, PassphraseStage, At, WellFormed, SaltLost, Orphaned, boot, disk
<1>3. ObjectKept' /\ SizeRight'
  BY DEF IInv, ObjectKept, SizeRight, Kept, disk
<1>4. PutForm'
  BY DEF IInv, PutForm, HeaderKeyLen, boot
<1>5. TypeOK'
  BY DEF IInv, TypeOK, CacheForm, boot, disk
<1> QED
  BY <1>1, <1>2, <1>3, <1>4, <1>5 DEF IInv

\* What DekCache::put leaves: entries it had, and the new one at its full life.
LEMMA DekPutFacts ==
  ASSUME NEW t, NEW c \in DekPut(t)
  PROVE  /\ DOMAIN c \subseteq DOMAIN cache \cup {t}
         /\ \A k \in DOMAIN c : c[k] = ttl \/ (k \in DOMAIN cache /\ c[k] = cache[k])
<1>1. CASE ttl = 0
  BY <1>1 DEF DekPut
<1>2. CASE ttl # 0
  <2> DEFINE live == {k \in DOMAIN cache : cache[k] > 0}
             kept == IF Cardinality(DOMAIN cache) < CacheCap THEN {DOMAIN cache}
                     ELSE IF Cardinality(live) < CacheCap THEN {live}
                     ELSE {live \ {k} : k \in live}
  <2>1. PICK s \in kept : c = [k \in s \cup {t} |-> IF k = t THEN ttl ELSE cache[k]]
    BY <1>2 DEF DekPut
  <2>2. s \subseteq DOMAIN cache
    BY <2>1
  <2> QED
    BY <2>1, <2>2
<1> QED
  BY <1>1, <1>2

\* Putting a data key into the cache keeps the form of the cache.
LEMMA DekPutForm ==
  ASSUME IInv, NEW t \in Objects \cup {Probe}, cache' \in DekPut(t), ttl' = ttl
  PROVE  CacheForm'
<1>1. CacheForm /\ ttl \in Nat
  BY DEF IInv, TypeOK, CacheForm, Domains
<1> DEFINE c == cache'
<1>2. /\ DOMAIN c \subseteq DOMAIN cache \cup {t}
      /\ \A k \in DOMAIN c : c[k] = ttl \/ (k \in DOMAIN cache /\ c[k] = cache[k])
  <2>1. c \in DekPut(t)
    OBVIOUS
  <2> HIDE DEF c
  <2> QED
    BY <2>1, DekPutFacts
<1>3. DOMAIN c \subseteq Objects \cup {Probe}
  BY <1>1, <1>2 DEF CacheForm
<1>4. \A k \in DOMAIN c : c[k] \in 0 .. ttl
  <2> HIDE DEF c
  <2> QED
    BY <1>1, <1>2 DEF CacheForm
<1> QED
  BY <1>3, <1>4 DEF CacheForm

\* A cache that is left alone keeps its form.
LEMMA CacheStays ==
  ASSUME IInv, UNCHANGED <<cache, ttl>>
  PROVE  CacheForm' /\ (up = "down" => cache' = cache)
BY DEF IInv, TypeOK, CacheForm

\* A count of faults that is left alone keeps its bound.
LEMMA FaultsStay ==
  ASSUME IInv, UNCHANGED faults
  PROVE  faults' \in 0 .. MaxFaults
BY DEF IInv, TypeOK

\* Every step of a read is a quiet one.
LEMMA ReadsStep ==
  ASSUME IInv, NEW o \in Objects, NEW phase \in {"asked", "reading"}, Reads(o, phase),
         obj[o] # Idle, UNCHANGED <<boot, obj>>, up = "serving"
  PROVE  GetForm'
<1>1. get'.phase = phase /\ get'.o = o
  BY DEF Reads
<1> QED
  BY <1>1 DEF GetForm, boot

\* A read whose provider unwraps the key itself (get_object).
LEMMA GetLocalStep == ASSUME IInv, NEW o \in Objects, GetLocal(o) PROVE IInv'
<1>1. UNCHANGED <<boot, disk, put, wrappedLen, mem, ttl, obj, cache, faults>>
  BY DEF GetLocal, kms
<1>2. GetForm'
  BY <1>1, ReadsStep DEF GetLocal, MayRead
<1>3. CacheForm' /\ (up = "down" => cache' = cache) /\ faults' \in 0 .. MaxFaults
  BY <1>1, CacheStays, FaultsStay
<1> QED
  BY <1>1, <1>2, <1>3, QuietStep

\* A read that finds the data key in the cache (DekCache::get).
LEMMA GetCachedStep == ASSUME IInv, NEW o \in Objects, GetCached(o) PROVE IInv'
<1>1. UNCHANGED <<boot, disk, put, wrappedLen, mem, ttl, obj, cache, faults>>
  BY DEF GetCached, DekGet
<1>2. GetForm'
  BY <1>1, ReadsStep DEF GetCached, MayRead
<1>3. CacheForm' /\ (up = "down" => cache' = cache) /\ faults' \in 0 .. MaxFaults
  BY <1>1, CacheStays, FaultsStay
<1> QED
  BY <1>1, <1>2, <1>3, QuietStep

\* A read that asks the vault for the data key.
LEMMA GetAskStep == ASSUME IInv, NEW o \in Objects, GetAsk(o) PROVE IInv'
<1>1. UNCHANGED <<boot, disk, put, wrappedLen, mem, ttl, obj, cache, faults>>
  BY DEF GetAsk, kms
<1>2. GetForm'
  BY <1>1, ReadsStep DEF GetAsk, MayRead
<1>3. CacheForm' /\ (up = "down" => cache' = cache) /\ faults' \in 0 .. MaxFaults
  BY <1>1, CacheStays, FaultsStay
<1> QED
  BY <1>1, <1>2, <1>3, QuietStep

\* The vault's answer comes, and the data key is cached.
LEMMA GetAnsweredStep == ASSUME IInv, GetAnswered PROVE IInv'
<1>1. UNCHANGED <<boot, disk, put, wrappedLen, mem, ttl, obj, faults>>
  BY DEF GetAnswered
<1>2. get.o \in Objects /\ obj[get.o] # Idle /\ up = "serving"
  BY DEF GetAnswered, IInv, GetForm
<1>3. GetForm'
  BY <1>1, <1>2, ReadsStep DEF GetAnswered
<1>4. CacheForm'
  BY <1>1, <1>2, DekPutForm DEF GetAnswered
<1>5. up # "down"
  BY <1>2
<1>6. faults' \in 0 .. MaxFaults
  BY <1>1, FaultsStay
<1> QED
  BY <1>1, <1>3, <1>4, <1>5, <1>6, QuietStep

\* A read ends.
LEMMA GetEndStep == ASSUME IInv, GetEnd PROVE IInv'
<1>1. UNCHANGED <<boot, disk, put, wrappedLen, mem, ttl, obj, cache, faults>>
  BY DEF GetEnd, kms
<1>2. GetForm'
  BY DEF GetEnd, GetForm, NoRead
<1>3. CacheForm' /\ (up = "down" => cache' = cache) /\ faults' \in 0 .. MaxFaults
  BY <1>1, CacheStays, FaultsStay
<1> QED
  BY <1>1, <1>2, <1>3, QuietStep

\* Time passes and entries of the cache grow old.
LEMMA TickStep == ASSUME IInv, Tick PROVE IInv'
<1>1. UNCHANGED <<boot, disk, put, wrappedLen, mem, ttl, obj, get, faults>>
  BY DEF Tick, ops
<1>2. GetForm'
  BY <1>1 DEF IInv, GetForm, boot
<1>3. CacheForm /\ ttl \in Nat
  BY DEF IInv, TypeOK, CacheForm, Domains
<1>4. DOMAIN cache' = DOMAIN cache
      /\ \A t \in DOMAIN cache : cache'[t] = IF cache[t] > 0 THEN cache[t] - 1 ELSE 0
  BY DEF Tick
<1>5. CacheForm'
  BY <1>1, <1>3, <1>4 DEF CacheForm
<1>6. up # "down"
  BY DEF Tick, IInv, BootStage, Empty
<1>7. faults' \in 0 .. MaxFaults
  BY <1>1, FaultsStay
<1> QED
  BY <1>1, <1>2, <1>5, <1>6, <1>7, QuietStep

\* The vault changes its state or rotates its key.
LEMMA VaultStep == ASSUME IInv, VaultChanges \/ Rotate PROVE IInv'
<1>1. UNCHANGED <<boot, disk, put, wrappedLen, mem, ttl, obj, get, cache>>
  BY DEF VaultChanges, Rotate, ops, kms
<1>2. GetForm'
  BY <1>1 DEF IInv, GetForm, boot
<1>3. faults' \in 0 .. MaxFaults
  BY KeysAssumption DEF IInv, TypeOK, VaultChanges, Rotate
<1> QED
  BY <1>1, <1>2, <1>3, CacheStays, QuietStep

\* Nothing changes.
LEMMA StutterStep == ASSUME IInv, UNCHANGED vars PROVE IInv'
<1>1. UNCHANGED <<boot, disk, put, wrappedLen, mem, ttl, obj, get, cache, faults>>
  BY DEF vars, ops, kms
<1>2. GetForm'
  BY <1>1 DEF IInv, GetForm, boot
<1>3. CacheForm' /\ (up = "down" => cache' = cache) /\ faults' \in 0 .. MaxFaults
  BY <1>1, CacheStays, FaultsStay
<1> QED
  BY <1>1, <1>2, <1>3, QuietStep

-------------------------------------------------------------------------------
(* Start-up steps *)

\* What TypeOK says beside the boot and the objects.
Rest == /\ up \in {"down", "boot", "serving"} /\ made \in 0..MaxKeys /\ faults \in 0..MaxFaults
        /\ CacheForm

\* The boot's stage says which file is half written.
LEMMA StageType == BootStage /\ ObjectKept /\ Rest => TypeOK
<1> SUFFICES ASSUME BootStage, ObjectKept, Rest PROVE TypeOK
  OBVIOUS
<1>1. kind \in Kinds \cup {None}
  BY DEF BootStage, Rest
<1>2. writing \in Files \cup {None} /\ (writing # None => file[writing] = Torn)
  <2>1. CASE kind = "file"
    BY <2>1 DEF BootStage, FileStage, At, Files
  <2>2. CASE kind = "passphrase"
    BY <2>2 DEF BootStage, PassphraseStage, At, Files
  <2>3. CASE kind \notin {"file", "passphrase"}
    BY <2>3 DEF BootStage, At
  <2> QED
    BY <2>1, <2>2, <2>3
<1>3. \A o \in Objects : obj[o] /= Idle => obj[o].n \in 0..obj[o].source
  BY DEF ObjectKept
<1> QED
  BY <1>1, <1>2, <1>3 DEF Rest, CacheForm, TypeOK

\* StageType after a step.
LEMMA StageTypeNext == ASSUME BootStage', ObjectKept', Rest' PROVE TypeOK'
<1>1. (BootStage /\ ObjectKept /\ Rest => TypeOK)'
  BY StageType, PTL
<1> QED
  BY <1>1

\* The invariant implies the rest.
LEMMA RestFacts == IInv => Rest
BY DEF IInv, TypeOK, Rest, CacheForm

\* Only a server that serves has writes and reads under way.
LEMMA IdleFacts ==
  ASSUME IInv, up # "serving"
  PROVE  get.phase = "idle" /\ \A o \in Objects : put[o].phase = "idle"
BY DEF IInv, GetForm, PutForm

\* Steps of a boot that write no file.
LEMMA ReadOnlyStep ==
  ASSUME IInv, up # "serving", UNCHANGED <<disk, put, get, obj, faults>>,
         BootStage', CacheForm', up' \in {"boot", "serving"}, ttl' \in Nat
  PROVE  IInv'
<1>1. Domains' /\ FileForm'
  BY DEF IInv, Domains, FileForm, disk
<1>2. ObjectKept' /\ SizeRight'
  BY DEF IInv, ObjectKept, SizeRight, Kept, disk
<1>3. PutForm' /\ GetForm'
  BY IdleFacts DEF PutForm, GetForm
<1>4. TypeOK'
  BY <1>2, StageTypeNext, RestFacts DEF Rest, disk
<1> QED
  BY <1>1, <1>2, <1>3, <1>4 DEF IInv

\* A server starts with a provider and a passphrase.
LEMMA StartStep == ASSUME IInv, NEW k \in Kinds, NEW p \in Passphrases, Start(k, p) PROVE IInv'
<1>1. UNCHANGED <<disk, put, get, obj, faults, cache, mem>> /\ up = "down" /\ up' = "boot"
      /\ kind' = k /\ pass' = (IF k = "passphrase" THEN p ELSE "") /\ todo' = FilesOf(k) /\ writing' = None
  BY DEF Start, ops, kms
<1>2. mem = {} /\ cache = Empty
  BY <1>1 DEF IInv, BootStage, At, None
<1>3. BootStage'
  <2>1. CASE k = "file"
    BY <1>1, <1>2, <2>1 DEF BootStage, FileStage, At, FilesOf
  <2>2. CASE k = "passphrase"
    BY <1>1, <1>2, <2>2 DEF BootStage, PassphraseStage, At, FilesOf
  <2>3. CASE k = "kms"
    BY <1>1, <1>2, <2>3 DEF BootStage, At, FilesOf
  <2> QED
    BY <2>1, <2>2, <2>3 DEF Kinds
<1>4. CacheForm' /\ ttl' \in Nat
  <2>1. DOMAIN cache' = {}
    BY <1>1, <1>2 DEF Empty
  <2>2. ttl' \in IF k = "kms" THEN CacheTtls ELSE {0}
    BY DEF Start
  <2> QED
    BY <2>1, <2>2, KeysAssumption DEF CacheForm
<1> QED
  BY <1>1, <1>3, <1>4, ReadOnlyStep

\* A server stops: what it had in memory is gone.
LEMMA StopStep == ASSUME IInv, Stop PROVE IInv'
<1>1. UNCHANGED <<disk, obj, faults>>
  BY DEF Stop
<1>2. Domains' /\ FileForm'
  BY DEF IInv, Domains, FileForm, disk, Stop
<1>3. ObjectKept' /\ SizeRight'
  BY <1>1 DEF IInv, ObjectKept, SizeRight, Kept, disk
<1>4. BootStage'
  BY DEF Stop, BootStage, At, None
<1>5. PutForm' /\ GetForm'
  BY DEF Stop, PutForm, GetForm, Idle, NoRead
<1>6. CacheForm'
  BY DEF Stop, CacheForm, Empty
<1>7. TypeOK'
  BY <1>1, <1>3, <1>4, <1>6, StageTypeNext, RestFacts DEF Rest, disk, Stop
<1> QED
  BY <1>2, <1>3, <1>4, <1>5, <1>7 DEF IInv

\* A boot that reads a file: which, what it holds, and what it left behind.
LEMMA AtFileFacts ==
  ASSUME IInv, NEW f, AtFile(f)
  PROVE  \/ f = "master" /\ kind = "file" /\ pass = "" /\ At(<<"master", "pq">>, None, {})
         \/ /\ f = "pq" /\ kind = "file" /\ pass = ""
            /\ At(<<"pq">>, None, {Key(file["master"], "")}) /\ WellFormed("master")
         \/ f = "salt" /\ kind = "passphrase" /\ At(<<"salt", "check">>, None, {})
         \/ /\ f = "check" /\ kind = "passphrase"
            /\ At(<<"check">>, None, {Key(file["salt"], pass)}) /\ WellFormed("salt") /\ SaltLost
<1>1. writing = None /\ todo # <<>> /\ Head(todo) = f /\ BootStage
  BY DEF AtFile, IInv
<1>2. kind \in {"file", "passphrase"}
  BY <1>1 DEF BootStage, At
<1>3. CASE kind = "file"
  <2>1. pass = ""
    BY <1>1, <1>3 DEF BootStage, FileStage
  <2>2. \/ At(<<"master", "pq">>, None, {})
        \/ At(<<"pq">>, None, {Key(file["master"], "")}) /\ WellFormed("master")
    BY <1>1, <1>3 DEF BootStage, FileStage, At, None
  <2>3. At(<<"master", "pq">>, None, {}) => f = "master"
    BY <1>1, QueueFacts DEF At
  <2>4. At(<<"pq">>, None, {Key(file["master"], "")}) => f = "pq"
    BY <1>1, QueueFacts DEF At
  <2> QED
    BY <1>3, <2>1, <2>2, <2>3, <2>4
<1>4. CASE kind = "passphrase"
  <2>1. \/ At(<<"salt", "check">>, None, {})
        \/ At(<<"check">>, None, {Key(file["salt"], pass)}) /\ WellFormed("salt") /\ SaltLost
    BY <1>1, <1>4 DEF BootStage, PassphraseStage, At, None
  <2> QED
    BY <1>1, <1>4, <2>1, QueueFacts DEF At
<1> QED
  BY <1>2, <1>3, <1>4

\* A key file that exists is read.
LEMMA LoadKeyStep == ASSUME IInv, NEW f \in Files, LoadKey(f) PROVE IInv'
<1>1. /\ UNCHANGED <<disk, put, get, obj, faults, cache, ttl, up, kind, pass, writing>>
      /\ up = "boot" /\ f \in {"master", "pq"} /\ WellFormed(f) /\ AtFile(f)
      /\ mem' = mem \cup {Key(file[f], "")} /\ todo' = Tail(todo)
  BY DEF LoadKey, ops, kms, AtFile
<1>2. BootStage'
  <2>1. CASE f = "master"
    <3>1. kind = "file" /\ pass = "" /\ At(<<"master", "pq">>, None, {})
      BY <1>1, <2>1, AtFileFacts
    <3>2. todo' = <<"pq">> /\ mem' = {Key(file["master"], "")} /\ writing' = None
      BY <1>1, <2>1, <3>1, QueueFacts DEF At
    <3> QED
      BY <1>1, <2>1, <3>1, <3>2 DEF BootStage, FileStage, At, WellFormed, disk, Kinds, IInv
  <2>2. CASE f = "pq"
    <3>1. kind = "file" /\ pass = "" /\ At(<<"pq">>, None, {Key(file["master"], "")}) /\ WellFormed("master")
      BY <1>1, <2>2, AtFileFacts
    <3>2. todo' = <<>> /\ mem' = {Key(file["master"], ""), Key(file["pq"], "")} /\ writing' = None
      BY <1>1, <2>2, <3>1, QueueFacts DEF At
    <3> QED
      BY <1>1, <2>2, <3>1, <3>2 DEF BootStage, FileStage, At, WellFormed, disk, Kinds, IInv
  <2> QED
    BY <1>1, <2>1, <2>2
<1>3. CacheForm' /\ ttl' \in Nat
  BY <1>1, CacheStays DEF IInv, Domains
<1> QED
  BY <1>1, <1>2, <1>3, ReadOnlyStep

\* An existing passphrase store is opened: derive the key, then verify it.
LEMMA OpenStoreStep == ASSUME IInv, OpenStore PROVE IInv'
<1>1. /\ UNCHANGED <<disk, put, get, obj, faults, cache, ttl, up, kind, pass, writing>>
      /\ up = "boot" /\ WellFormed("salt") /\ AtFile("salt")
      /\ file["check"] = <<"check", file["salt"][2], pass>>
      /\ mem' = {Key(file["salt"], pass)} /\ todo' = <<>>
  BY DEF OpenStore, ops, kms, AtFile
<1>2. kind = "passphrase" /\ writing = None
  BY <1>1, AtFileFacts DEF At
<1>3. BootStage'
  BY <1>1, <1>2 DEF BootStage, PassphraseStage, At, WellFormed, disk, Kinds, IInv
<1>4. CacheForm' /\ ttl' \in Nat
  BY <1>1, CacheStays DEF IInv, Domains
<1> QED
  BY <1>1, <1>3, <1>4, ReadOnlyStep

\* Every file is loaded: the server answers requests.
LEMMA ServeStep == ASSUME IInv, Serve PROVE IInv'
<1>1. /\ UNCHANGED <<disk, put, get, obj, faults, ttl, mem, kind, pass, todo, writing>>
      /\ up = "boot" /\ up' = "serving" /\ todo = <<>>
  BY DEF Serve, ops
<1>2. BootStage'
  BY <1>1 DEF IInv, BootStage, FileStage, PassphraseStage, At, WellFormed, disk, SaltLost, Orphaned
<1>3. CacheForm' /\ ttl' \in Nat
  <2>1. cache' = cache \/ cache' \in DekPut(Probe)
    BY DEF Serve, kms
  <2> QED
    BY <1>1, <2>1, CacheStays, DekPutForm DEF IInv, Domains
<1> QED
  BY <1>1, <1>2, <1>3, ReadOnlyStep

-------------------------------------------------------------------------------
(* Steps that write or damage a key file *)

\* A file that becomes half of one: its key, if it held one, is on record as lost.
LEMMA TornKept ==
  ASSUME IInv, NEW f \in Files, file' = [file EXCEPT ![f] = Torn], obj' = obj,
         lost \subseteq lost',
         file[f] \in {Absent, Torn} \cup lost' \/ f = "check"
  PROVE  ObjectKept'
<1>1. file'[f] = Torn /\ \A g \in Files \ {f} : file'[g] = file[g]
  BY DEF IInv, Domains
<1> SUFFICES ASSUME NEW o \in Objects, obj[o] # Idle, obj[o].key.from[1] # "kms", obj[o].key.from \notin lost'
             PROVE  Kept(obj[o].key)'
  BY DEF IInv, ObjectKept
<1> DEFINE key == obj[o].key
           g == key.from[1]
<1>2. /\ KeyForm(key) /\ g \in {"master", "pq", "salt"} /\ file[g] = key.from
      /\ IF g = "salt" THEN file["check"] \in {Torn, <<"check", key.from[2], key.pass>>} ELSE key.pass = ""
  BY DEF IInv, ObjectKept, Kept
<1>3. key.from \notin {Absent, Torn}
  <2>1. key = Key(<<key.from[1], key.from[2]>>, key.pass)
    BY <1>2 DEF KeyForm
  <2> HIDE DEF key
  <2>2. key.from = <<key.from[1], key.from[2]>>
    BY <2>1, KeyFacts
  <2> QED
    BY <2>2, PairFacts
<1> HIDE DEF key
<1>4. g # f
  BY <1>2, <1>3 DEF key
<1>5. g \in Files /\ "check" \in Files
  BY <1>2 DEF Files
<1>6. file'[g] = key.from
  BY <1>1, <1>2, <1>4, <1>5
<1>7. g = "salt" => file'["check"] \in {Torn, <<"check", key.from[2], key.pass>>}
  BY <1>1, <1>2, <1>5
<1> QED
  BY <1>2, <1>6, <1>7 DEF Kept, key

\* A file that is torn is of no wrong form.
LEMMA TornForm ==
  ASSUME IInv, NEW f \in Files, file' = [file EXCEPT ![f] = Torn]
  PROVE  FileForm'
<1>1. file'[f] = Torn /\ \A g \in Files \ {f} : file'[g] = file[g]
  BY DEF IInv, Domains
<1> QED
  BY <1>1 DEF IInv, FileForm

\* A key file is damaged while no server runs: its keys count as lost.
LEMMA DamageStep == ASSUME IInv, NEW f \in Files, Damage(f) PROVE IInv'
<1>1. /\ UNCHANGED <<boot, made, put, get, wrappedLen, cache, mem, vault, ttl, obj>> /\ up = "down"
      /\ lost' = lost \cup {file[f]} /\ file' = [file EXCEPT ![f] = Torn]
      /\ faults < MaxFaults /\ faults' = faults + 1
  BY DEF Damage, ops, kms
<1>2. Domains'
  BY <1>1 DEF IInv, Domains
<1>3. FileForm' /\ ObjectKept'
  BY <1>1, TornForm, TornKept
<1>4. SizeRight'
  BY <1>1 DEF IInv, SizeRight
<1>5. BootStage'
  BY <1>1 DEF IInv, BootStage, At, boot, None
<1>6. PutForm' /\ GetForm'
  <2>1. up # "serving"
    BY <1>1
  <2> QED
    BY <1>1, <2>1, IdleFacts DEF PutForm, GetForm
<1>7. Rest'
  <2>1. faults' \in 0 .. MaxFaults
    BY <1>1, KeysAssumption DEF IInv, TypeOK
  <2> QED
    BY <1>1, <2>1, CacheStays, RestFacts DEF Rest, boot
<1>8. TypeOK'
  BY <1>3, <1>5, <1>7, StageTypeNext
<1> QED
  BY <1>2, <1>3, <1>4, <1>5, <1>6, <1>8 DEF IInv

\* A missing key file is created, and is empty for a moment.
LEMMA CreateFileStep == ASSUME IInv, NEW f \in Files, NEW u \in BOOLEAN, CreateFile(f, u) PROVE IInv'
<1>1. /\ UNCHANGED <<up, kind, pass, todo, put, get, wrappedLen, cache, vault, ttl, obj>> /\ up = "boot"
      /\ AtFile(f)
      /\ made' = IF f = "check" THEN made ELSE made + 1
      /\ mem' = IF f = "check" THEN mem ELSE mem \cup {Key(<<f, made + 1>>, pass)}
      /\ file' = [file EXCEPT ![f] = Torn] /\ writing' = f
      /\ f = "check" \/ made < MaxKeys
  BY DEF CreateFile, AtFile, ops, kms
<1>2. lost \subseteq lost' /\ (file[f] \in {Absent, Torn} \cup lost' \/ f = "check")
      /\ (f = "check" => lost' = lost)
  BY DEF CreateFile, Creates
<1>3. faults' \in 0 .. MaxFaults /\ made' \in 0 .. MaxKeys
  BY <1>1, KeysAssumption DEF CreateFile, IInv, TypeOK
<1>4. Domains'
  BY <1>1 DEF IInv, Domains
<1>5. FileForm' /\ ObjectKept'
  BY <1>1, <1>2, TornForm, TornKept
<1>6. SizeRight'
  BY <1>1 DEF IInv, SizeRight
<1>7. file'[f] = Torn /\ \A g \in Files \ {f} : file'[g] = file[g]
  BY <1>1 DEF IInv, Domains
<1>12. \/ f = "master" /\ kind = "file" /\ pass = "" /\ At(<<"master", "pq">>, None, {})
       \/ /\ f = "pq" /\ kind = "file" /\ pass = ""
          /\ At(<<"pq">>, None, {Key(file["master"], "")}) /\ WellFormed("master")
       \/ f = "salt" /\ kind = "passphrase" /\ At(<<"salt", "check">>, None, {})
       \/ /\ f = "check" /\ kind = "passphrase"
          /\ At(<<"check">>, None, {Key(file["salt"], pass)}) /\ WellFormed("salt") /\ SaltLost
  BY <1>1, AtFileFacts
<1>8. BootStage'
  <2>1. CASE f = "master"
    <3>1. kind = "file" /\ pass = "" /\ At(<<"master", "pq">>, None, {})
      BY <1>12, <2>1
    <3> QED
      BY <1>1, <1>7, <2>1, <3>1 DEF BootStage, FileStage, At, Kinds
  <2>2. CASE f = "pq"
    <3>1. kind = "file" /\ pass = "" /\ At(<<"pq">>, None, {Key(file["master"], "")}) /\ WellFormed("master")
      BY <1>12, <2>2
    <3>2. file'["master"] = file["master"]
      BY <1>7, <2>2 DEF Files
    <3> QED
      BY <1>1, <1>7, <2>2, <3>1, <3>2 DEF BootStage, FileStage, At, Kinds, WellFormed
  <2>3. CASE f = "salt"
    <3>1. kind = "passphrase" /\ At(<<"salt", "check">>, None, {})
      BY <1>12, <2>3
    <3>2. pass \in Passphrases \cup {""}
      BY DEF IInv, BootStage
    <3> QED
      BY <1>1, <1>7, <2>3, <3>1, <3>2 DEF BootStage, PassphraseStage, At, Kinds
  <2>4. CASE f = "check"
    <3>1. kind = "passphrase" /\ At(<<"check">>, None, {Key(file["salt"], pass)}) /\ WellFormed("salt") /\ SaltLost
      BY <1>12, <2>4
    <3>2. file'["salt"] = file["salt"]
      BY <1>7, <2>4 DEF Files
    <3>3. pass \in Passphrases \cup {""}
      BY DEF IInv, BootStage
    <3>4. SaltLost'
      BY <1>1, <1>2, <2>4, <3>1 DEF SaltLost, Orphaned
    <3> QED
      BY <1>1, <1>7, <2>4, <3>1, <3>2, <3>3, <3>4 DEF BootStage, PassphraseStage, At, Kinds, WellFormed
  <2> QED
    BY <2>1, <2>2, <2>3, <2>4 DEF Files
<1>9. PutForm' /\ GetForm'
  <2>1. up # "serving"
    BY <1>1
  <2> QED
    BY <1>1, <2>1, IdleFacts DEF PutForm, GetForm
<1>10. Rest'
  BY <1>1, <1>3, CacheStays, RestFacts DEF Rest
<1>11. TypeOK'
  BY <1>5, <1>8, <1>10, StageTypeNext
<1> QED
  BY <1>4, <1>5, <1>6, <1>8, <1>9, <1>11 DEF IInv

\* The file being filled: which, and the keys held.
LEMMA WritingFacts ==
  ASSUME IInv, writing # None
  PROVE  \/ /\ writing = "master" /\ kind = "file" /\ pass = "" /\ file["master"] = Torn
            /\ At(<<"master", "pq">>, "master", {Key(<<"master", made>>, "")})
         \/ /\ writing = "pq" /\ kind = "file" /\ pass = "" /\ WellFormed("master") /\ file["pq"] = Torn
            /\ At(<<"pq">>, "pq", {Key(file["master"], ""), Key(<<"pq", made>>, "")})
         \/ /\ writing = "salt" /\ kind = "passphrase" /\ file["salt"] = Torn
            /\ At(<<"salt", "check">>, "salt", {Key(<<"salt", made>>, pass)})
         \/ /\ writing = "check" /\ kind = "passphrase" /\ WellFormed("salt") /\ SaltLost
            /\ At(<<"check">>, "check", {Key(file["salt"], pass)}) /\ file["check"] = Torn
<1>1. kind \in {"file", "passphrase"} /\ BootStage
  BY DEF IInv, BootStage, At
<1>2. CASE kind = "file"
  BY <1>1, <1>2 DEF BootStage, FileStage, At
<1>3. CASE kind = "passphrase"
  BY <1>1, <1>3 DEF BootStage, PassphraseStage, At
<1> QED
  BY <1>1, <1>2, <1>3

\* The created file gets its contents: no stored object can be under the key
\* that was there before, or that key is lost.
LEMMA FillFileStep == ASSUME IInv, FillFile PROVE IInv'
<1> DEFINE filled == IF writing = "check"
                     THEN LET salt == CHOOSE k \in mem : TRUE
                          IN <<"check", salt.from[2], salt.pass>>
                     ELSE <<writing, made>>
<1>1. /\ UNCHANGED <<up, kind, pass, made, lost, put, get, wrappedLen, cache, mem, ttl, obj, faults>>
      /\ up = "boot" /\ writing # None /\ writing' = None /\ todo' = Tail(todo)
  BY DEF FillFile, ops, kms
<1>2. file' = [file EXCEPT ![writing] = filled]
  BY DEF FillFile
<1>3. \/ /\ writing = "master" /\ kind = "file" /\ pass = "" /\ file["master"] = Torn
         /\ At(<<"master", "pq">>, "master", {Key(<<"master", made>>, "")})
      \/ /\ writing = "pq" /\ kind = "file" /\ pass = "" /\ WellFormed("master") /\ file["pq"] = Torn
         /\ At(<<"pq">>, "pq", {Key(file["master"], ""), Key(<<"pq", made>>, "")})
      \/ /\ writing = "salt" /\ kind = "passphrase" /\ file["salt"] = Torn
         /\ At(<<"salt", "check">>, "salt", {Key(<<"salt", made>>, pass)})
      \/ /\ writing = "check" /\ kind = "passphrase" /\ WellFormed("salt") /\ SaltLost
         /\ At(<<"check">>, "check", {Key(file["salt"], pass)}) /\ file["check"] = Torn
  BY <1>1, WritingFacts
<1>4. writing \in Files /\ file[writing] = Torn
  BY <1>3 DEF Files
<1>5. writing = "check" => filled = <<"check", file["salt"][2], pass>>
  <2>1. SUFFICES ASSUME writing = "check" PROVE filled = <<"check", file["salt"][2], pass>>
    OBVIOUS
  <2> DEFINE salt == CHOOSE k \in mem : TRUE
  <2>2. mem = {Key(file["salt"], pass)}
    BY <1>3, <2>1 DEF At
  <2>3. salt = Key(file["salt"], pass)
    BY <2>2
  <2>4. filled = <<"check", salt.from[2], salt.pass>>
    BY <2>1
  <2> HIDE DEF salt, filled
  <2> QED
    BY <2>3, <2>4, KeyFacts
<1>6. writing # "check" => filled = <<writing, made>>
  OBVIOUS
<1> HIDE DEF filled
<1>7. file'[writing] = filled /\ \A g \in Files \ {writing} : file'[g] = file[g]
  BY <1>2, <1>4 DEF IInv, Domains
<1>8. filled \notin {Absent, Torn}
  BY <1>5, <1>6, PairFacts, TripleFacts
<1>9. Domains'
  BY <1>1, <1>2 DEF IInv, Domains
<1>10. made \in 0 .. MaxKeys /\ pass \in Passphrases \cup {""}
  BY DEF IInv, TypeOK, BootStage
<1>11. FileForm'
  <2>1. ASSUME NEW f \in Files
        PROVE  (\/ file[f] \in {Absent, Torn}
                \/ IF f = "check" THEN \E k \in 0 .. MaxKeys, p \in Passphrases \cup {""} : file[f] = <<f, k, p>>
                   ELSE \E k \in 0 .. MaxKeys : file[f] = <<f, k>>)'
    <3>1. CASE f # writing
      BY <1>7, <3>1 DEF IInv, FileForm
    <3>2. CASE f = writing /\ f # "check"
      BY <1>6, <1>7, <1>10, <3>2
    <3>3. CASE f = writing /\ f = "check"
      <4>1. WellFormed("salt")
        BY <1>3, <3>3
      <4>2. PICK k \in 0 .. MaxKeys : file["salt"] = <<"salt", k>>
        BY <4>1 DEF IInv, FileForm, WellFormed, Files
      <4>3. file["salt"][2] = k
        BY <4>2
      <4> QED
        BY <1>5, <1>7, <1>10, <3>3, <4>3
    <3> QED
      BY <3>1, <3>2, <3>3
  <2> QED
    BY <2>1 DEF FileForm
<1>12. ObjectKept'
  <2> SUFFICES ASSUME NEW o \in Objects, obj[o] # Idle, obj[o].key.from[1] # "kms", obj[o].key.from \notin lost
               PROVE  Kept(obj[o].key)'
    BY <1>1 DEF IInv, ObjectKept
  <2> DEFINE key == obj[o].key
             g == key.from[1]
  <2>1. /\ KeyForm(key) /\ g \in {"master", "pq", "salt"} /\ file[g] = key.from
        /\ IF g = "salt" THEN file["check"] \in {Torn, <<"check", key.from[2], key.pass>>} ELSE key.pass = ""
    BY DEF IInv, ObjectKept, Kept
  <2>2. writing = "check" => g # "salt"
    BY <1>3 DEF SaltLost, Orphaned
  <2>3. key.from \notin {Absent, Torn}
    <3>1. key = Key(<<key.from[1], key.from[2]>>, key.pass)
      BY <2>1 DEF KeyForm
    <3> HIDE DEF key
    <3>2. key.from = <<key.from[1], key.from[2]>>
      BY <3>1, KeyFacts
    <3> QED
      BY <3>2, PairFacts
  <2> HIDE DEF key
  <2>4. g # writing /\ g \in Files /\ "check" \in Files
    BY <1>4, <2>1, <2>3 DEF Files
  <2>5. file'[g] = key.from
    BY <1>7, <2>1, <2>4
  <2>6. g = "salt" => file'["check"] \in {Torn, <<"check", key.from[2], key.pass>>}
    BY <1>7, <2>1, <2>2, <2>4
  <2> QED
    BY <1>1, <2>1, <2>5, <2>6 DEF Kept, key
<1>13. writing = "salt" => SaltLost
  <2> SUFFICES ASSUME writing = "salt", NEW o \in Objects, obj[o] # Idle, obj[o].key.from[1] = "salt"
               PROVE  Orphaned(o)
    BY DEF SaltLost
  <2> DEFINE key == obj[o].key
  <2>1. KeyForm(key) /\ (key.from \in lost \/ file["salt"] = key.from)
    BY DEF IInv, ObjectKept, Kept
  <2>2. key.from \notin {Absent, Torn}
    <3>1. key = Key(<<key.from[1], key.from[2]>>, key.pass)
      BY <2>1 DEF KeyForm
    <3> HIDE DEF key
    <3>2. key.from = <<key.from[1], key.from[2]>>
      BY <3>1, KeyFacts
    <3> QED
      BY <3>2, PairFacts
  <2> QED
    BY <1>4, <2>1, <2>2 DEF Orphaned
<1>14. BootStage'
  <2>1. CASE writing = "master"
    <3>7. todo = <<"master", "pq">>
      BY <1>3, <2>1 DEF At
    <3>4. todo' = <<"pq">>
      BY <1>1, <3>7, QueueFacts
    <3>5. file'["master"] = <<"master", made>> /\ file'["master"] \notin {Absent, Torn}
      BY <1>6, <1>7, <1>8, <2>1
    <3>6. mem' = {Key(<<"master", made>>, "")}
      BY <1>1, <1>3, <2>1 DEF At
    <3>1. todo' = <<"pq">> /\ mem' = {Key(file'["master"], "")} /\ file'["master"] \notin {Absent, Torn}
      BY <3>4, <3>5, <3>6
    <3> QED
      BY <1>1, <1>3, <2>1, <3>1 DEF BootStage, FileStage, At, Kinds, WellFormed
  <2>2. CASE writing = "pq"
    <3>1. file'["master"] = file["master"] /\ file["master"] \notin {Absent, Torn}
      BY <1>3, <1>7, <2>2 DEF WellFormed, Files
    <3>2. todo' = <<>>
      BY <1>1, <1>3, <2>2, QueueFacts DEF At
    <3>3. mem' = {Key(file["master"], ""), Key(<<"pq", made>>, "")} /\ file'["pq"] = <<"pq", made>>
          /\ file'["pq"] \notin {Absent, Torn}
      BY <1>1, <1>3, <1>6, <1>7, <1>8, <2>2 DEF At
    <3> QED
      BY <1>1, <1>3, <2>2, <3>1, <3>2, <3>3 DEF BootStage, FileStage, At, Kinds, WellFormed
  <2>3. CASE writing = "salt"
    <3>7. todo = <<"salt", "check">>
      BY <1>3, <2>3 DEF At
    <3>4. todo' = <<"check">>
      BY <1>1, <3>7, QueueFacts
    <3>5. file'["salt"] = <<"salt", made>> /\ file'["salt"] \notin {Absent, Torn}
      BY <1>6, <1>7, <1>8, <2>3
    <3>6. mem' = {Key(<<"salt", made>>, pass)}
      BY <1>1, <1>3, <2>3 DEF At
    <3>1. todo' = <<"check">> /\ mem' = {Key(file'["salt"], pass)} /\ file'["salt"] \notin {Absent, Torn}
      BY <3>4, <3>5, <3>6
    <3>2. SaltLost'
      BY <1>1, <1>13, <2>3 DEF SaltLost, Orphaned
    <3> QED
      BY <1>1, <1>3, <1>10, <2>3, <3>1, <3>2 DEF BootStage, PassphraseStage, At, Kinds, WellFormed
  <2>4. CASE writing = "check"
    <3>1. file'["salt"] = file["salt"] /\ file["salt"] \notin {Absent, Torn}
      BY <1>3, <1>7, <2>4 DEF WellFormed, Files
    <3>2. todo' = <<>> /\ mem' = {Key(file["salt"], pass)}
      BY <1>1, <1>3, <2>4, QueueFacts DEF At
    <3>3. file'["check"] = <<"check", file["salt"][2], pass>>
      BY <1>5, <1>7, <2>4
    <3> QED
      BY <1>1, <1>3, <1>10, <2>4, <3>1, <3>2, <3>3 DEF BootStage, PassphraseStage, At, Kinds, WellFormed
  <2> QED
    BY <1>3, <2>1, <2>2, <2>3, <2>4
<1>15. PutForm' /\ GetForm'
  <2>1. up # "serving"
    BY <1>1
  <2> QED
    BY <1>1, <2>1, IdleFacts DEF PutForm, GetForm
<1>16. SizeRight'
  BY <1>1 DEF IInv, SizeRight
<1>17. Rest'
  BY <1>1, CacheStays, RestFacts DEF Rest
<1>18. TypeOK'
  BY <1>12, <1>14, <1>17, StageTypeNext
<1> QED
  BY <1>9, <1>11, <1>12, <1>14, <1>15, <1>16, <1>18 DEF IInv

-------------------------------------------------------------------------------
(* Writes *)

\* A lemma of the containers' sizes: what is stored when the source breaks off.
LEMMA SealedFacts ==
  ASSUME NEW n \in Nat
  PROVE  SealedBefore(n) \in Nat /\ SealedBefore(n) <= n
<1>1. PICK q \in Nat, r \in 0 .. Chunk - 1 :
        n = Chunk * q + r /\ Chunk * q \in Nat /\ n \div Chunk = q
  BY ChunkFacts
<1>2. SealedBefore(n) = Chunk * q
  <2>1. Chunk \in Nat
    BY ContainerAssumption
  <2>2. q * Chunk = Chunk * q
    BY <2>1
  <2> QED
    BY <1>1, <2>2 DEF SealedBefore
<1> QED
  BY <1>1, <1>2

\* Every wrapped key has a length, fixed by the provider except for the vault.
LEMMA WrappedFacts ==
  ASSUME NEW key
  PROVE  /\ WrappedLenOf(key) \in Nat \ {0}
         /\ key.from[1] = "pq" => WrappedLenOf(key) = 4
         /\ key.from[1] = "salt" => WrappedLenOf(key) = 1
BY DEF WrappedLenOf, KindOf

\* Steps of a server that write no key file.
LEMMA ServingStep ==
  ASSUME IInv, up = "serving", UNCHANGED <<boot, disk, cache, mem, ttl, get>>,
         DOMAIN obj' = Objects, obj' = [o \in Objects |-> obj'[o]],
         DOMAIN put' = Objects, put' = [o \in Objects |-> put'[o]],
         PutForm', ObjectKept', SizeRight', GetForm', faults' \in 0 .. MaxFaults
  PROVE  IInv'
<1>1. Domains' /\ FileForm'
  BY DEF IInv, Domains, FileForm, disk
<1>2. todo = <<>>
  BY DEF IInv, BootStage
<1>3. BootStage'
  BY <1>2 DEF IInv, BootStage, FileStage, PassphraseStage, At, WellFormed, boot, disk
<1>4. TypeOK'
  BY <1>3, CacheStays, RestFacts, StageTypeNext DEF Rest, boot, disk
<1> QED
  BY <1>1, <1>3, <1>4 DEF IInv

\* The keys a server that serves holds, and the files behind them.
LEMMA ServingMem ==
  ASSUME IInv, up = "serving"
  PROVE  /\ kind \in Kinds
         /\ kind = "file" =>
              \E a, b \in 0 .. MaxKeys :
                 /\ file["master"] = <<"master", a>> /\ file["pq"] = <<"pq", b>>
                 /\ mem = {Key(<<"master", a>>, ""), Key(<<"pq", b>>, "")}
         /\ kind = "passphrase" =>
              \E a \in 0 .. MaxKeys :
                 /\ file["salt"] = <<"salt", a>> /\ mem = {Key(<<"salt", a>>, pass)}
                 /\ file["check"] = <<"check", a, pass>>
<1>1. todo = <<>> /\ kind \in Kinds
  BY DEF IInv, BootStage
<1>2. ASSUME NEW f \in {"master", "pq", "salt"}, WellFormed(f)
      PROVE  \E a \in 0 .. MaxKeys : file[f] = <<f, a>>
  BY <1>2 DEF IInv, FileForm, WellFormed, Files
<1>3. ASSUME kind = "file"
      PROVE  \E a, b \in 0 .. MaxKeys :
                 /\ file["master"] = <<"master", a>> /\ file["pq"] = <<"pq", b>>
                 /\ mem = {Key(<<"master", a>>, ""), Key(<<"pq", b>>, "")}
  <2>1. mem = {Key(file["master"], ""), Key(file["pq"], "")} /\ WellFormed("master") /\ WellFormed("pq")
    BY <1>1, <1>3, QueueFacts DEF IInv, BootStage, FileStage, At
  <2>2. PICK a \in 0 .. MaxKeys : file["master"] = <<"master", a>>
    BY <1>2, <2>1
  <2>3. PICK b \in 0 .. MaxKeys : file["pq"] = <<"pq", b>>
    BY <1>2, <2>1
  <2> QED
    BY <2>1, <2>2, <2>3
<1>4. ASSUME kind = "passphrase"
      PROVE  \E a \in 0 .. MaxKeys :
                 /\ file["salt"] = <<"salt", a>> /\ mem = {Key(<<"salt", a>>, pass)}
                 /\ file["check"] = <<"check", a, pass>>
  <2>1. mem = {Key(file["salt"], pass)} /\ WellFormed("salt") /\ file["check"] = <<"check", file["salt"][2], pass>>
    BY <1>1, <1>4, QueueFacts DEF IInv, BootStage, PassphraseStage, At
  <2>2. PICK a \in 0 .. MaxKeys : file["salt"] = <<"salt", a>>
    BY <1>2, <2>1
  <2>3. file["salt"][2] = a
    BY <2>2, PairFacts
  <2> QED
    BY <2>1, <2>2, <2>3
<1> QED
  BY <1>1, <1>3, <1>4

\* The key a new object is wrapped under.
Kindred(key) == key.from[1] = CASE kind = "kms" -> "kms" [] kind = "file" -> "pq" [] OTHER -> "salt"

\* What a serving provider wraps under is a key of its kind that it holds.
LEMMA WrapsFacts ==
  ASSUME IInv, up = "serving"
  PROVE  /\ KeyForm(WrapsUnder) /\ Kindred(WrapsUnder)
         /\ kind # "kms" => WrapsUnder \in mem
<1>1. CASE kind = "kms"
  <2>1. WrapsUnder = Key(<<"kms", vault.version>>, "")
    BY <1>1 DEF WrapsUnder, KmsKey
  <2>2. KeyForm(WrapsUnder) /\ WrapsUnder.from[1] = "kms"
    <3> DEFINE k == Key(<<"kms", vault.version>>, "")
    <3>1. KeyForm(k) /\ k.from[1] = "kms"
      BY BareFacts
    <3> HIDE DEF k
    <3> QED
      BY <2>1, <3>1 DEF k
  <2> QED
    BY <1>1, <2>2 DEF Kindred
<1>2. CASE kind = "file"
  <2>1. PICK a, b \in 0 .. MaxKeys : mem = {Key(<<"master", a>>, ""), Key(<<"pq", b>>, "")}
    BY <1>2, ServingMem
  <2> DEFINE k == Key(<<"pq", b>>, "")
             m == Key(<<"master", a>>, "")
  <2>2. k.from[1] = "pq" /\ m.from[1] = "master" /\ KeyForm(k)
    <3>1. k.from[1] = "pq" /\ KeyForm(k)
      BY BareFacts
    <3>2. m.from[1] = "master"
      BY BareFacts
    <3> QED
      BY <3>1, <3>2
  <2> HIDE DEF k, m
  <2>3. WrapsUnder = CHOOSE x \in mem : x.from[1] \in {"pq", "salt"}
    BY <1>2 DEF WrapsUnder
  <2>4. WrapsUnder \in mem /\ WrapsUnder.from[1] \in {"pq", "salt"}
    BY <2>1, <2>2, <2>3 DEF k, m
  <2>5. WrapsUnder = k
    BY <2>1, <2>2, <2>4 DEF k, m
  <2> QED
    BY <1>2, <2>2, <2>4, <2>5 DEF Kindred
<1>3. CASE kind = "passphrase"
  <2>1. PICK a \in 0 .. MaxKeys : mem = {Key(<<"salt", a>>, pass)}
    BY <1>3, ServingMem
  <2> DEFINE k == Key(<<"salt", a>>, pass)
  <2>2. k.from[1] = "salt" /\ KeyForm(k)
    BY FormFacts
  <2> HIDE DEF k
  <2>3. WrapsUnder = CHOOSE x \in mem : x.from[1] \in {"pq", "salt"}
    BY <1>3 DEF WrapsUnder
  <2>4. WrapsUnder \in mem
    BY <2>1, <2>2, <2>3 DEF k
  <2>5. WrapsUnder = k
    BY <2>1, <2>4 DEF k
  <2> QED
    BY <1>3, <2>2, <2>4, <2>5 DEF Kindred
<1> QED
  BY <1>1, <1>2, <1>3, ServingMem DEF Kinds

\* A key the server holds is one its file keeps.
LEMMA HeldKept ==
  ASSUME IInv, up = "serving", kind # "kms", NEW key \in mem
  PROVE  KeyForm(key) /\ key.from[1] \in {"master", "pq", "salt"} /\ Kept(key)
<1>1. CASE kind = "file"
  <2>1. PICK a, b \in 0 .. MaxKeys :
           /\ file["master"] = <<"master", a>> /\ file["pq"] = <<"pq", b>>
           /\ mem = {Key(<<"master", a>>, ""), Key(<<"pq", b>>, "")}
    BY <1>1, ServingMem
  <2>2. ASSUME NEW f \in {"master", "pq"}, NEW k, key = Key(<<f, k>>, ""), file[f] = <<f, k>>
        PROVE  KeyForm(key) /\ key.from[1] \in {"master", "pq", "salt"} /\ Kept(key)
    <3>3. key.from = <<f, k>> /\ key.pass = ""
      BY <2>2, KeyFacts
    <3>4. key.from[1] = f /\ KeyForm(key)
      BY <2>2, BareFacts
    <3>1. key.from = <<f, k>> /\ key.pass = "" /\ key.from[1] = f /\ KeyForm(key)
      BY <3>3, <3>4
    <3>2. key.from[1] # "salt"
      BY <3>1
    <3> QED
      BY <2>2, <3>1, <3>2 DEF Kept
  <2> QED
    BY <2>1, <2>2
<1>2. CASE kind = "passphrase"
  <2>1. PICK a \in 0 .. MaxKeys :
           /\ file["salt"] = <<"salt", a>> /\ mem = {Key(<<"salt", a>>, pass)}
           /\ file["check"] = <<"check", a, pass>>
    BY <1>2, ServingMem
  <2>2. key = Key(<<"salt", a>>, pass)
    BY <2>1
  <2>3. key.from = <<"salt", a>> /\ key.pass = pass
    BY <2>2, KeyFacts
  <2>4. key.from[1] = "salt" /\ key.from[2] = a /\ KeyForm(key)
    BY <2>2, FormFacts
  <2> QED
    BY <2>1, <2>3, <2>4 DEF Kept
<1> QED
  BY <1>1, <1>2, ServingMem DEF Kinds

\* One write, seen on its own.
PutFormOf(o) ==
  /\ put[o] = [phase |-> put[o].phase, key |-> put[o].key, n |-> put[o].n, crossed |-> put[o].crossed]
  /\ up = "serving" /\ put[o].phase \in {"minting", "streaming"}
  /\ put[o].n \in Nat /\ KeyForm(put[o].key)
  /\ put[o].phase = "minting" => kind = "kms"
  /\ Kindred(put[o].key)
  /\ kind # "kms" => put[o].key \in mem
  /\ put[o].phase = "streaming" => put[o].crossed \/ WrappedLenOf(put[o].key) = HeaderKeyLen

\* One object, seen on its own.
ObjectKeptOf(o) ==
  LET key == obj[o].key
  IN /\ obj[o].source \in Nat /\ obj[o].n \in 0 .. obj[o].source
     /\ KeyForm(key) /\ key.from[1] \in {"kms", "master", "pq", "salt"}
     /\ key.from[1] = "kms" \/ key.from \in lost \/ Kept(key)

\* PutForm, one write at a time.
LEMMA PutFormEach == PutForm <=> \A o \in Objects : put[o].phase # "idle" => PutFormOf(o)
BY DEF PutForm, PutFormOf, Kindred

\* A write begins with the key the provider wraps under.
LEMMA PutBeginStep ==
  ASSUME IInv, NEW o \in Objects, NEW n \in Lengths, PutBegin(o, n)
  PROVE  IInv'
<1> DEFINE p == [phase |-> IF kind = "kms" THEN "minting" ELSE "streaming",
                 key |-> WrapsUnder, n |-> n, crossed |-> FALSE]
<1>1. /\ UNCHANGED <<boot, disk, wrappedLen, cache, mem, ttl, obj, faults, get>>
      /\ up = "serving" /\ put' = [put EXCEPT ![o] = p]
  BY DEF PutBegin, kms
<1>2. /\ p = [phase |-> p.phase, key |-> p.key, n |-> p.n, crossed |-> p.crossed]
      /\ p.phase = (IF kind = "kms" THEN "minting" ELSE "streaming")
      /\ p.key = WrapsUnder /\ p.n = n
  OBVIOUS
<1> HIDE DEF p
<1>3. put'[o] = p /\ \A x \in Objects \ {o} : put'[x] = put[x]
  BY <1>1 DEF IInv, Domains
<1>4. DOMAIN put' = Objects /\ put' = [x \in Objects |-> put'[x]]
  BY <1>1 DEF IInv, Domains
<1>5. KeyForm(WrapsUnder) /\ Kindred(WrapsUnder) /\ (kind # "kms" => WrapsUnder \in mem)
  BY <1>1, WrapsFacts
<1>6. kind # "kms" => WrappedLenOf(WrapsUnder) = HeaderKeyLen
  BY <1>1, <1>5, WrappedFacts, ServingMem DEF HeaderKeyLen, Kinds, Kindred
<1>7. n \in Nat
  BY KeysAssumption
<1>8. PutFormOf(o)'
  BY <1>1, <1>2, <1>3, <1>5, <1>6, <1>7 DEF PutFormOf, HeaderKeyLen, Kindred, boot
<1>9. ASSUME NEW x \in Objects \ {o}, put[x].phase # "idle" PROVE PutFormOf(x)'
  <2>1. PutFormOf(x)
    BY <1>9, PutFormEach DEF IInv
  <2> QED
    BY <1>1, <1>3, <2>1 DEF PutFormOf, HeaderKeyLen, Kindred, boot
<1>10. PutForm'
  <2>1. (\A x \in Objects : put[x].phase # "idle" => PutFormOf(x))'
    BY <1>3, <1>8, <1>9
  <2> QED
    BY <2>1 DEF PutForm, PutFormOf, Kindred
<1>11. ObjectKept' /\ SizeRight' /\ GetForm'
  BY <1>1 DEF IInv, ObjectKept, SizeRight, GetForm, Kept, boot, disk
<1>12. DOMAIN obj' = Objects /\ obj' = [x \in Objects |-> obj'[x]]
  BY <1>1 DEF IInv, Domains
<1> QED
  BY <1>1, <1>4, <1>10, <1>11, <1>12, FaultsStay, ServingStep

\* The vault has minted the data key of a write.
LEMMA PutMintedStep == ASSUME IInv, NEW o \in Objects, PutMinted(o) PROVE IInv'
<1> DEFINE w == WrappedLenOf(put[o].key)
           turned == [put[o] EXCEPT !.phase = "streaming"]
           other(x) == put[x].phase = "streaming" /\ WrappedLenOf(put[x].key) # w
           crossing(x) == [put[x] EXCEPT !.crossed = TRUE]
<1>1. /\ UNCHANGED <<boot, disk, cache, mem, ttl, obj, faults, get>>
      /\ put[o].phase = "minting" /\ wrappedLen' = w
  BY DEF PutMinted
<1>2. put' = [x \in Objects |-> IF x = o THEN turned ELSE IF other(x) THEN crossing(x) ELSE put[x]]
  BY DEF PutMinted
<1>3. ASSUME NEW x \in Objects, put[x].phase # "idle" PROVE PutFormOf(x)
  BY <1>3, PutFormEach DEF IInv
<1>4. PutFormOf(o) /\ kind = "kms"
  BY <1>1, <1>3 DEF PutFormOf
<1>5. turned = [phase |-> "streaming", key |-> put[o].key, n |-> put[o].n, crossed |-> put[o].crossed]
  BY <1>4 DEF PutFormOf
<1>6. ASSUME NEW x \in Objects, other(x)
      PROVE  crossing(x) = [phase |-> put[x].phase, key |-> put[x].key, n |-> put[x].n, crossed |-> TRUE]
  <2>1. put[x].phase # "idle"
    BY <1>6
  <2>2. put[x] = [phase |-> put[x].phase, key |-> put[x].key, n |-> put[x].n, crossed |-> put[x].crossed]
    BY <1>3, <2>1 DEF PutFormOf
  <2>3. \A r, a, b, c, d, e : r = [phase |-> a, key |-> b, n |-> c, crossed |-> d]
          => [r EXCEPT !.crossed = e] = [phase |-> a, key |-> b, n |-> c, crossed |-> e]
    OBVIOUS
  <2>4. \A a, b, c, d, e : put[x] = [phase |-> a, key |-> b, n |-> c, crossed |-> d]
          => [put[x] EXCEPT !.crossed = e] = [phase |-> a, key |-> b, n |-> c, crossed |-> e]
    BY <2>3, Zenon
  <2>5. \A e : [put[x] EXCEPT !.crossed = e]
                = [phase |-> put[x].phase, key |-> put[x].key, n |-> put[x].n, crossed |-> e]
    BY <2>2, <2>4, Zenon
  <2> QED
    BY <2>5, Zenon
<1>7. w \in Nat \ {0} /\ HeaderKeyLen' = w
  <2>1. w \in Nat \ {0}
    BY WrappedFacts
  <2>2. kind' = "kms" /\ wrappedLen' # 0
    BY <1>1, <1>4, <2>1 DEF boot
  <2> QED
    BY <1>1, <2>1, <2>2 DEF HeaderKeyLen
<1> HIDE DEF w, turned, crossing
<1>8. DOMAIN put' = Objects /\ put' = [x \in Objects |-> put'[x]]
  BY <1>2
<1>9. ASSUME NEW x \in Objects, put'[x].phase # "idle" PROVE PutFormOf(x)'
  <2>1. CASE x = o
    <3>1. put'[x] = [phase |-> "streaming", key |-> put[o].key, n |-> put[o].n, crossed |-> put[o].crossed]
      BY <1>2, <1>5, <2>1
    <3>2. /\ put'[x].phase = "streaming" /\ put'[x].key = put[o].key /\ put'[x].n = put[o].n
          /\ put'[x].crossed = put[o].crossed
      BY <3>1
    <3>3. WrappedLenOf(put'[x].key) = HeaderKeyLen'
      BY <1>7, <3>2 DEF w
    <3> QED
      BY <1>1, <1>4, <3>1, <3>2, <3>3 DEF PutFormOf, Kindred, boot
  <2>2. CASE x # o /\ other(x)
    <3>1. put'[x] = [phase |-> put[x].phase, key |-> put[x].key, n |-> put[x].n, crossed |-> TRUE]
      BY <1>2, <1>6, <2>2
    <3>2. /\ put'[x].phase = "streaming" /\ put'[x].key = put[x].key /\ put'[x].n = put[x].n
          /\ put'[x].crossed = TRUE
      BY <2>2, <3>1
    <3>3. PutFormOf(x)
      BY <1>3, <2>2
    <3> QED
      BY <1>1, <3>1, <3>2, <3>3 DEF PutFormOf, Kindred, boot
  <2>3. CASE x # o /\ ~ other(x)
    <3>1. put'[x] = put[x]
      BY <1>2, <2>3
    <3>2. PutFormOf(x)
      BY <1>3, <1>9, <3>1
    <3>3. put[x].phase = "streaming" => WrappedLenOf(put[x].key) = HeaderKeyLen'
      BY <1>7, <2>3
    <3> QED
      BY <1>1, <3>1, <3>2, <3>3 DEF PutFormOf, Kindred, boot
  <2> QED
    BY <2>1, <2>2, <2>3
<1>10. PutForm'
  BY <1>9 DEF PutForm, PutFormOf, Kindred
<1>11. ObjectKept' /\ SizeRight' /\ GetForm'
  BY <1>1 DEF IInv, ObjectKept, SizeRight, GetForm, Kept, boot, disk
<1>12. DOMAIN obj' = Objects /\ obj' = [x \in Objects |-> obj'[x]] /\ up = "serving"
  BY <1>1, <1>4 DEF IInv, Domains, PutFormOf
<1> QED
  BY <1>1, <1>8, <1>10, <1>11, <1>12, FaultsStay, ServingStep

\* A write is stored: the length recorded is that of its bytes, unless another
\* write crossed it, and a broken one keeps only whole chunks.
LEMMA PutStoreStep ==
  ASSUME IInv, NEW o \in Objects, NEW broken \in BOOLEAN, PutStore(o, broken)
  PROVE  IInv'
<1> DEFINE p == put[o]
           n == IF broken THEN SealedBefore(p.n - 1) ELSE p.n
           size == PlaintextLen(StoredLen(n, WrappedLenOf(p.key)), HeaderLen(HeaderKeyLen))
           stored == [key |-> p.key, source |-> p.n, n |-> n, size |-> size, crossed |-> p.crossed]
<1>1. /\ UNCHANGED <<boot, disk, wrappedLen, cache, mem, ttl, get>>
      /\ p.phase = "streaming" /\ put' = [put EXCEPT ![o] = Idle]
      /\ (broken => p.n > 0 /\ faults < MaxFaults)
      /\ faults' = IF broken THEN faults + 1 ELSE faults
  BY DEF PutStore, kms
<1>2. obj' = [obj EXCEPT ![o] = stored]
  BY DEF PutStore
<1>3. ASSUME NEW x \in Objects, put[x].phase # "idle" PROVE PutFormOf(x)
  BY <1>3, PutFormEach DEF IInv
<1>4. PutFormOf(o) /\ up = "serving" /\ p.n \in Nat
  BY <1>1, <1>3 DEF PutFormOf
<1>5. n \in Nat /\ n \in 0 .. p.n
  <2>1. CASE broken
    <3>1. p.n - 1 \in Nat /\ p.n - 1 <= p.n
      BY <1>1, <1>4, <2>1
    <3> DEFINE k == p.n - 1
    <3>2. n = SealedBefore(k)
      BY <2>1
    <3> HIDE DEF n, k
    <3>3. SealedBefore(k) \in Nat /\ SealedBefore(k) <= k
      BY <3>1, SealedFacts DEF k
    <3> QED
      BY <1>4, <3>1, <3>2, <3>3 DEF k
  <2>2. CASE ~ broken
    BY <1>4, <2>2
  <2> QED
    BY <2>1, <2>2
<1> HIDE DEF n
<1>6. size = n \/ p.crossed
  <2>1. CASE p.crossed
    BY <2>1
  <2>2. CASE WrappedLenOf(p.key) = HeaderKeyLen
    <3> DEFINE w == WrappedLenOf(p.key)
    <3>1. w \in Nat
      BY WrappedFacts
    <3>2. size = PlaintextLen(StoredLen(n, w), HeaderLen(w))
      BY <2>2
    <3> HIDE DEF w, size
    <3> QED
      BY <1>5, <3>1, <3>2, PlaintextExact
  <2> QED
    BY <1>1, <1>4, <2>1, <2>2 DEF PutFormOf
<1> HIDE DEF size
<1>7. /\ stored.key = p.key /\ stored.source = p.n /\ stored.n = n /\ stored.size = size
      /\ stored.crossed = p.crossed
  OBVIOUS
<1>8. stored # Idle
  <2>1. "key" \in DOMAIN stored /\ "key" \notin DOMAIN Idle
    BY DEF Idle
  <2> HIDE DEF stored
  <2> QED
    BY <2>1
<1> HIDE DEF stored
<1>9. /\ obj'[o] = stored /\ \A x \in Objects \ {o} : obj'[x] = obj[x]
      /\ DOMAIN obj' = Objects /\ obj' = [x \in Objects |-> obj'[x]]
  BY <1>2 DEF IInv, Domains
<1>10. /\ put'[o] = Idle /\ \A x \in Objects \ {o} : put'[x] = put[x]
       /\ DOMAIN put' = Objects /\ put' = [x \in Objects |-> put'[x]]
  BY <1>1 DEF IInv, Domains
<1>11. PutForm'
  <2>1. ASSUME NEW x \in Objects, put'[x].phase # "idle" PROVE PutFormOf(x)'
    <3>1. x # o /\ put'[x] = put[x]
      BY <1>10, <2>1 DEF Idle
    <3>2. PutFormOf(x)
      BY <1>3, <2>1, <3>1
    <3> QED
      BY <1>1, <3>1, <3>2 DEF PutFormOf, Kindred, HeaderKeyLen, boot
  <2> QED
    BY <2>1 DEF PutForm, PutFormOf, Kindred
<1>12. SizeRight'
  BY <1>6, <1>7, <1>9 DEF IInv, SizeRight
<1>13. ObjectKept'
  <2> DEFINE key == p.key
  <2>1. KeyForm(key) /\ key.from[1] \in {"kms", "master", "pq", "salt"} /\ (key.from[1] = "kms" \/ Kept(key))
    <3>1. CASE kind = "kms"
      BY <1>4, <3>1 DEF PutFormOf, Kindred
    <3>2. CASE kind # "kms"
      <4>1. key \in mem
        BY <1>4, <3>2 DEF PutFormOf
      <4> HIDE DEF key
      <4> QED
        BY <1>4, <3>2, <4>1, HeldKept
    <3> QED
      BY <3>1, <3>2
  <2> HIDE DEF key
  <2>2. obj'[o].key = key /\ obj'[o].source \in Nat /\ obj'[o].n \in 0 .. obj'[o].source
    BY <1>4, <1>5, <1>7, <1>9 DEF key
  <2>3. ASSUME NEW x \in Objects \ {o}, obj'[x] # Idle PROVE ObjectKeptOf(x)'
    <3>1. obj'[x] = obj[x] /\ ObjectKeptOf(x)
      BY <1>9, <2>3 DEF IInv, ObjectKept, ObjectKeptOf
    <3> QED
      BY <1>1, <3>1 DEF ObjectKeptOf, Kept, disk
  <2>4. ObjectKeptOf(o)'
    BY <1>1, <2>1, <2>2 DEF ObjectKeptOf, Kept, disk
  <2> QED
    BY <2>3, <2>4 DEF ObjectKept, ObjectKeptOf
<1>14. GetForm'
  BY <1>1, <1>8, <1>9 DEF IInv, GetForm, boot
<1>15. faults' \in 0 .. MaxFaults
  BY <1>1, KeysAssumption DEF IInv, TypeOK
<1> QED
  BY <1>1, <1>4, <1>9, <1>10, <1>11, <1>12, <1>13, <1>14, <1>15, ServingStep

-------------------------------------------------------------------------------
(* The theorems *)

\* The invariant is inductive.
LEMMA NextInv == IInv /\ [Next]_vars => IInv'
<1> SUFFICES ASSUME IInv, [Next]_vars PROVE IInv'
  OBVIOUS
<1>1. ASSUME NEW k \in Kinds, NEW p \in Passphrases, Start(k, p) PROVE IInv'
  BY <1>1, StartStep
<1>2. ASSUME NEW f \in Files, LoadKey(f) PROVE IInv'
  BY <1>2, LoadKeyStep
<1>3. ASSUME NEW f \in Files, Damage(f) PROVE IInv'
  BY <1>3, DamageStep
<1>4. ASSUME NEW f \in Files, NEW u \in BOOLEAN, CreateFile(f, u) PROVE IInv'
  BY <1>4, CreateFileStep
<1>5. CASE Crash \/ BootRefused \/ NotReady
  BY <1>5, StopStep DEF Crash, BootRefused, NotReady
<1>6. CASE OpenStore
  BY <1>6, OpenStoreStep
<1>7. CASE FillFile
  BY <1>7, FillFileStep
<1>8. CASE Serve
  BY <1>8, ServeStep
<1>9. ASSUME NEW o \in Objects, NEW n \in Lengths, PutBegin(o, n) PROVE IInv'
  BY <1>9, PutBeginStep
<1>10. ASSUME NEW o \in Objects, NEW b \in BOOLEAN, PutStore(o, b) PROVE IInv'
  BY <1>10, PutStoreStep
<1>11. ASSUME NEW o \in Objects, PutMinted(o) PROVE IInv'
  BY <1>11, PutMintedStep
<1>12. ASSUME NEW o \in Objects, GetLocal(o) PROVE IInv'
  BY <1>12, GetLocalStep
<1>13. ASSUME NEW o \in Objects, GetCached(o) PROVE IInv'
  BY <1>13, GetCachedStep
<1>14. ASSUME NEW o \in Objects, GetAsk(o) PROVE IInv'
  BY <1>14, GetAskStep
<1>15. CASE GetAnswered \/ GetEnd
  BY <1>15, GetAnsweredStep, GetEndStep
<1>16. CASE Tick
  BY <1>16, TickStep
<1>17. CASE VaultChanges \/ Rotate
  BY <1>17, VaultStep
<1>18. CASE UNCHANGED vars
  BY <1>18, StutterStep
<1> QED
  BY <1>1, <1>2, <1>3, <1>4, <1>5, <1>6, <1>7, <1>8, <1>9, <1>10, <1>11, <1>12, <1>13, <1>14,
     <1>15, <1>16, <1>17, <1>18 DEF Next

\* The inductive invariant holds in every reachable state.
LEMMA Inductive == Spec => []IInv
BY InitInv, NextInv, PTL DEF Spec

\* Every file, key, operation and object keeps its form, and no stored object
\* is longer than what was sent.
THEOREM TypeCorrect == Spec => []TypeOK
<1>1. IInv => TypeOK
  BY DEF IInv
<1> QED
  BY <1>1, Inductive, PTL

\* A serving provider holds every key that is kept for it.
LEMMA KeptIsHeld == IInv => ReadableAgain
<1> SUFFICES ASSUME IInv, NEW o \in Objects, up = "serving", obj[o] # Idle,
                    KindOf(obj[o].key) = kind, ~ Orphaned(o), kind # "kms"
             PROVE  obj[o].key \in mem
  BY DEF ReadableAgain, Unwraps
<1> DEFINE key == obj[o].key
<1>1. /\ KeyForm(key) /\ key.from[1] \in {"kms", "master", "pq", "salt"}
      /\ (key.from[1] = "kms" \/ Kept(key)) /\ KindOf(key) = kind
  BY DEF IInv, ObjectKept, Orphaned
<1> HIDE DEF key
<1>2. key = Key(<<key.from[1], key.from[2]>>, key.pass)
  BY <1>1 DEF KeyForm
<1>3. key.from = <<key.from[1], key.from[2]>>
  BY <1>2, KeyFacts
<1>4. key.from[1] # "kms" /\ key = Key(key.from, key.pass) /\ Kept(key)
  BY <1>1, <1>2, <1>3 DEF KindOf
<1>5. CASE kind = "file"
  <2>1. key.from[1] \in {"master", "pq"}
    BY <1>1, <1>5 DEF KindOf
  <2>2. key = Key(file[key.from[1]], "")
    BY <1>4, <2>1 DEF Kept
  <2>3. Key(file["master"], "") \in mem /\ Key(file["pq"], "") \in mem
    BY <1>5, ServingMem
  <2> QED
    BY <2>1, <2>2, <2>3 DEF key
<1>6. CASE kind = "passphrase"
  <2>1. key.from[1] = "salt"
    BY <1>1, <1>6 DEF KindOf
  <2>2. PICK a \in 0 .. MaxKeys :
           /\ file["salt"] = <<"salt", a>> /\ mem = {Key(<<"salt", a>>, pass)}
           /\ file["check"] = <<"check", a, pass>>
    BY <1>6, ServingMem
  <2>3. file["salt"] = key.from /\ file["check"] \in {Torn, <<"check", key.from[2], key.pass>>}
    BY <1>4, <2>1 DEF Kept
  <2>4. file["check"] # Torn
    BY <2>2, TripleFacts
  <2>5. <<"check", a, pass>> = <<"check", key.from[2], key.pass>>
    BY <2>2, <2>3, <2>4
  <2>6. key.pass = pass
    BY <2>5
  <2> QED
    BY <1>4, <2>2, <2>3, <2>6 DEF key
<1> QED
  BY <1>5, <1>6, ServingMem DEF Kinds

\* A server that came up with the provider an object was written under holds
\* its key, through every crash, half-written file, wrong passphrase and change
\* of provider, unless a fault destroyed that very key.
THEOREM KeysStayReadable == Spec => []ReadableAgain
BY Inductive, KeptIsHeld, PTL

\* What the container's arithmetic means for a read under way.
LEMMA RangesRight == IInv => RangesRead
<1> SUFFICES ASSUME IInv, get.phase = "reading", obj[get.o].size = obj[get.o].n,
                    NEW start \in 0 .. obj[get.o].n + 1, NEW end \in 0 .. obj[get.o].n + 1
             PROVE  LET o == obj[get.o]
                        want == Positions(Smaller(start, o.n), Smaller(end + 1, o.n))
                    IN /\ FsRange(o.n, WrappedLenOf(o.key), o.size, start, end) = want
                       /\ ErasureRange(o.n, o.size, start, end) = want
  BY DEF RangesRead
<1> DEFINE n == obj[get.o].n
           w == WrappedLenOf(obj[get.o].key)
<1>1. n \in Nat /\ w \in Nat
  <2>1. get.o \in Objects /\ obj[get.o] # Idle
    BY DEF IInv, GetForm
  <2>2. w \in Nat
    BY WrappedFacts
  <2> QED
    BY <2>1, <2>2 DEF IInv, ObjectKept
<1>2. start \in Nat /\ end \in Nat
  BY <1>1
<1> HIDE DEF n, w
<1>3. /\ FsRange(n, w, n, start, end) = Positions(Smaller(start, n), Smaller(end + 1, n))
      /\ ErasureRange(n, n, start, end) = Positions(Smaller(start, n), Smaller(end + 1, n))
  BY <1>1, <1>2, FsRangeExact, ErasureRangeExact
<1> QED
  BY <1>3 DEF n, w

\* The size recorded for an object is that of its bytes, and both backends
\* answer every range of it with exactly those bytes, whatever its length, the
\* chunk size and the length of the wrapped key.
THEOREM RangesAreExact == Spec => []RangeExact
<1>1. IInv => RangeExact
  BY RangesRight DEF IInv, RangeExact
<1> QED
  BY <1>1, Inductive, PTL
===============================================================================
