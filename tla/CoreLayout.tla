----------------------------- MODULE CoreLayout -----------------------------
(***************************************************************************)
(* How much memory a processor snapshot has and which of it an access to a *)
(* register touches: CoreSpec::byte_len, align_byte_len of core/state.rs   *)
(* and the chunk that ensure_slice of bus/data.rs loads.                   *)
(***************************************************************************)
EXTENDS Integers

CONSTANTS
  BYTE_BITS,   \* bits in a byte (8)
  WORD_BYTES   \* bytes in a word of the cache (8)

AtLeast(n, low) == IF n < low THEN low ELSE n

byte_len(total_bits) == AtLeast((total_bits + BYTE_BITS - 1) \div BYTE_BITS, 1)

\* Variant: no padding.
unpadded(len) == len

align_byte_len(len) ==
  IF len = 0 THEN WORD_BYTES ELSE ((len + WORD_BYTES - 1) \div WORD_BYTES) * WORD_BYTES

\* The bytes CoreState::new allocates.
MemorySize(total_bits) == align_byte_len(byte_len(total_bits))

ChunkStart(r) == ((r.bit_offset \div BYTE_BITS) \div WORD_BYTES) * WORD_BYTES
BitsFromChunk(r) == r.bit_offset - ChunkStart(r) * BYTE_BITS + r.bit_len
ChunkLength(r) ==
  IF BitsFromChunk(r) > WORD_BYTES * BYTE_BITS THEN 2 * WORD_BYTES ELSE WORD_BYTES

\* The chunk that reading or writing register r moves lies in a memory of size
\* bytes.
Backed(r, size) == ChunkStart(r) + ChunkLength(r) <= size
=============================================================================
