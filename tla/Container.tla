------------------------------ MODULE Container ------------------------------
(***************************************************************************)
(* The encrypted container of crypto/mod.rs and the range reads over it:    *)
(* a header (magic, algorithm, wrapped data key, base nonce) followed by    *)
(* sealed chunks, each Tag bytes longer than its plaintext.  A plaintext    *)
(* byte is named by its position, so a read is right when it returns the    *)
(* positions asked for.                                                     *)
(***************************************************************************)
EXTENDS Integers, Sequences

CONSTANTS Chunk,  \* CHUNK_SIZE, plaintext bytes of a chunk
          Tag,    \* TAG_LEN, bytes a sealed chunk is longer by
          Fixed   \* header bytes beside the wrapped key (8 + BASE_NONCE_LEN)

ASSUME ContainerAssumption == Chunk \in Nat \ {0} /\ Tag \in Nat /\ Fixed \in Nat

CeilDiv(a, b) == (a + b - 1) \div b
Smaller(a, b) == IF a < b THEN a ELSE b
Positions(a, b) == [i \in 1..(b - a) |-> a + i]   \* bytes a+1 .. b

ChunkBlock == Chunk + Tag
HeaderLen(wrapped) == Fixed + wrapped

\* encrypting_reader: the bytes a container of n plaintext bytes takes.
StoredLen(n, wrapped) == HeaderLen(wrapped) + n + CeilDiv(n, Chunk) * Tag

\* encrypting_reader, the source failing after n bytes: the chunk being filled
\* is dropped, the chunks already sealed stay.
SealedBefore(n) == (n \div Chunk) * Chunk

PlaintextLen(stored, header) ==
  IF stored <= header THEN 0
  ELSE LET body == stored - header
           rem  == body % ChunkBlock
       IN ((body \div ChunkBlock) * Chunk) + (IF rem > Tag THEN rem - Tag ELSE 0)

\* The clamping both backends start a range read with: start, last and length.
Clamp(size, start, end) ==
  LET s    == Smaller(start, size)
      last == IF size = 0 THEN 0 ELSE Smaller(end, size - 1)
  IN [start |-> s, last |-> last,
      len |-> IF size = 0 \/ last < s THEN 0 ELSE last - s + 1]

\* The plaintext of the sealed chunk at an offset of the stored file.
OpenChunk(n, ci) == Positions(ci * Chunk, Smaller((ci + 1) * Chunk, n))

\* The plaintext of the m chunks from `first` on, as far as the file has them.
Opened(n, wrapped, first, m) ==
  LET plain[j \in 0..m] ==
        IF j = 0 THEN <<>>
        ELSE LET ci == first + j - 1
             IN IF HeaderLen(wrapped) + ci * ChunkBlock < StoredLen(n, wrapped)
                THEN plain[j - 1] \o OpenChunk(n, ci) ELSE plain[j - 1]
  IN plain[m]

\* The elements of a sequence after the first i, up to the j-th.
Slice(s, i, j) == SubSeq(s, i + 1, j)

\* Chunks first .. final, and what of their plaintext a range takes.
Covered(n, wrapped, r, first, final) ==
  LET plain == Opened(n, wrapped, first, IF final < first THEN 0 ELSE final - first + 1)
      from  == r.start - first * Chunk
  IN Slice(plain, from, Smaller(from + r.len, Len(plain)))

\* Mutant of FsRange: the byte after the range decides its last chunk.
FsRangeShort(n, wrapped, size, start, end) ==
  LET r == Clamp(size, start, end)
  IN Covered(n, wrapped, r, r.start \div Chunk, ((r.last + Chunk - 1) \div Chunk) - 1)

\* FsObjectStore::get_object_range over an encrypted object of n bytes whose
\* metadata say `size`: only the chunks the range covers are opened.
FsRange(n, wrapped, size, start, end) ==
  LET r == Clamp(size, start, end)
  IN Covered(n, wrapped, r, r.start \div Chunk, r.last \div Chunk)

\* ErasureStore::get_object_range: the whole object is streamed, the bytes
\* before the range skipped and exactly its length read; <<0>> is the error
\* when the stream ends first.
ErasureRange(n, size, start, end) ==
  LET r == Clamp(size, start, end)
  IN IF r.start + r.len > n THEN <<0>> ELSE Positions(r.start, r.start + r.len)
=============================================================================
