----------------------------- MODULE DataHandle -----------------------------
(***************************************************************************)
(* Byte and bit access through a handle: src/src/soc/system/bus/data.rs    *)
(* with BasicMemory (device/memory/basic.rs) behind it.  A byte is a       *)
(* function from bit number to bit, least significant first; an integer of *)
(* n bits is a function from 0 .. n-1.                                     *)
(*                                                                         *)
(* BasicMemory locks each read and each write by itself, and its           *)
(* start_transact and end_transact are the empty defaults of the trait.    *)
(* So read, write and read_bits, which access the device once, are one     *)
(* step; write_bits reads (BeginWriteBits) and then writes (StoreBits),    *)
(* and other handles may come in between.                                  *)
(***************************************************************************)
EXTENDS AddressHandle

CONSTANTS
  EndianOf,    \* Device -> "Little" or "Big"
  BYTE_BITS,   \* bits in a byte (8)
  WORD_BYTES,  \* bytes in a word of the cache (8)
  U8, U16,     \* how many numbers the offset and the length of a slice have (2^8, 2^16)
  Contents,    \* what the devices hold when the handles are made
  BitSlices,   \* arguments of read_bits and write_bits
  Spans,       \* numbers of bytes that read and write move
  Patterns,    \* bits that write fills its bytes with
  Values,      \* arguments of write_bits: two words wide, like u128
  MaxOps       \* bound: device accesses the handles make together

Bit == {0, 1}
Byte == [0 .. BYTE_BITS - 1 -> Bit]

ASSUME DataAssumption ==
  /\ EndianOf \in [Device -> {"Little", "Big"}]
  /\ BYTE_BITS \in Nat \ {0}
  /\ WORD_BYTES \in Nat \ {0}
  /\ U8 \in Nat /\ U16 \in Nat
  /\ BYTE_BITS <= U8 /\ U8 + 3 * (WORD_BYTES * BYTE_BITS) <= U16
  /\ DOMAIN Contents = Device
  /\ \A d \in Device : Contents[d] \in [0 .. SizeOf[d] - 1 -> Byte]
  /\ BitSlices \subseteq [bit_offset : 0 .. U8 - 1, bit_len : 1 .. U16 - 1]
  /\ Spans \subseteq Nat \ {0}
  /\ Patterns \subseteq Bit
  /\ Values \subseteq [0 .. 2 * WORD_BYTES * BYTE_BITS - 1 -> Bit]
  /\ MaxOps \in Nat

VARIABLES
  memory,   \* device -> byte number -> byte: BasicMemory.bytes
  cache,    \* handle -> {} or the chunk BitSliceCache holds
  storing,  \* handle -> {} or the write_bits that has read its chunk
  ops,      \* device accesses so far
  last,     \* history: the last bit access that succeeded
  foreign   \* history: bytes others wrote since the handle filled its cache

dataVars == <<memory, cache, storing, ops, last, foreign>>
vars == <<addressVars, dataVars>>

-----------------------------------------------------------------------------
\* Numbers in device byte order: src/src/soc/device/endianness.rs.

\* n bytes of one bit, BasicMemory::new among them.
Filled(n, bit) == [i \in 0 .. n - 1 |-> [b \in 0 .. BYTE_BITS - 1 |-> bit]]

\* Where the byte of weight i is among n bytes.
ByteAt(e, i, n) == IF e = "Little" THEN i ELSE n - 1 - i

decode_bytes(e, bytes, n) ==
  [k \in 0 .. n * BYTE_BITS - 1 |-> bytes[ByteAt(e, k \div BYTE_BITS, n)][k % BYTE_BITS]]

decode_bits(e, bytes, n, width) == [k \in 0 .. width - 1 |-> decode_bytes(e, bytes, n)[k]]

encode_bits(e, value, width, n) ==
  [i \in 0 .. n - 1 |-> [b \in 0 .. BYTE_BITS - 1 |->
     LET k == ByteAt(e, i, n) * BYTE_BITS + b IN IF k < width THEN value[k] ELSE 0]]

bytes_for_len(len) == (len + BYTE_BITS - 1) \div BYTE_BITS
bits_to_bytes(s) == bytes_for_len(s.bit_offset + s.bit_len)

-----------------------------------------------------------------------------
\* BitSliceCache.

DeviceOf(h) == At(h).range.device_id

\* Variant: the chunk starts at the cursor.
BaseByteUnaligned(h) == device_offset(h)

BaseByte(h) == (device_offset(h) \div WORD_BYTES) * WORD_BYTES

\* The slice in bits from the start of its chunk.
Intra(h, s) == (device_offset(h) % WORD_BYTES) * BYTE_BITS + s.bit_offset

\* The sum of a release build, which wraps: a slice of nearly 2^16 bits passes
\* for a short one.
SliceEnd(h, s) == (Intra(h, s) + s.bit_len) % U16

WordBits == WORD_BYTES * BYTE_BITS
FitsWindow(h, s) == SliceEnd(h, s) <= 2 * WordBits

\* encode_bits asserts that the value is no longer than a number (u128).
FitsNumber(s) == s.bit_len <= 2 * WordBits

ChunkBytes(h, s) == IF SliceEnd(h, s) > WordBits THEN 2 * WORD_BYTES ELSE WORD_BYTES

Matches(c, h, s) ==
  c.device_id = DeviceOf(h) /\ c.base_byte = BaseByte(h) /\ c.length = ChunkBytes(h, s)

\* The chunk ensure_slice leaves in the cache: the one already there when it
\* matches, else what the device holds.
Cached(h, s) == \E c \in cache[h] : Matches(c, h, s)
Loadable(h, s) == BaseByte(h) + ChunkBytes(h, s) <= SizeOf[DeviceOf(h)]
LoadChunk(h, s) ==
  [device_id |-> DeviceOf(h), base_byte |-> BaseByte(h), length |-> ChunkBytes(h, s),
   bytes |-> [i \in 0 .. ChunkBytes(h, s) - 1 |-> memory[DeviceOf(h)][BaseByte(h) + i]]]

EnsureSlice(h, s) ==
  IF Cached(h, s)
  THEN CHOOSE c \in cache[h] : Matches(c, h, s)
  ELSE LoadChunk(h, s)

ChunkValue(c) == decode_bytes(EndianOf[c.device_id], c.bytes, c.length)

AtMost(n, limit) == IF n <= limit THEN n ELSE limit

\* The chunk as a number, shifted right and cut to len bits.  A release build
\* masks the number of bits to shift by.
Shifted(c, by, len) ==
  LET shift == by % (2 * WordBits)
  IN  [k \in 0 .. AtMost(len, 2 * WordBits) - 1 |->
         IF shift + k < c.length * BYTE_BITS THEN ChunkValue(c)[shift + k] ELSE 0]

\* Variant: the two byte orders swapped.
extract_swapped(c, offset, len) ==
  IF EndianOf[c.device_id] = "Big" THEN Shifted(c, offset, len)
  ELSE Shifted(c, c.length * BYTE_BITS - (offset + len), len)

extract_target_bits(c, offset, len) ==
  IF EndianOf[c.device_id] = "Little" THEN Shifted(c, offset, len)
  ELSE Shifted(c, c.length * BYTE_BITS - (offset + len), len)

\* The bits of a chunk that write_bits replaces, after a variant with one too few.
InShortMask(k, offset, len) == offset <= k /\ k < offset + len - 1
InMask(k, offset, len) == offset <= k /\ k < offset + len

\* The chunk value with value_bits shifted into place, after a variant that
\* does not keep the rest.
Alone(c, offset, len, value_bits) ==
  [k \in 0 .. c.length * BYTE_BITS - 1 |->
     IF InMask(k, offset, len) THEN value_bits[k - offset] ELSE 0]
Merged(c, offset, len, value_bits) ==
  [k \in 0 .. c.length * BYTE_BITS - 1 |->
     IF InMask(k, offset, len) THEN value_bits[k - offset] ELSE ChunkValue(c)[k]]

\* The chunk write_bits puts back.
UpdatedChunk(c, offset, len, value) ==
  LET e == EndianOf[c.device_id]
      value_bits == decode_bits(e, encode_bits(e, value, len, bytes_for_len(len)),
                                bytes_for_len(len), len)
  IN  encode_bits(e, Merged(c, offset, len, value_bits), c.length * BYTE_BITS, c.length)

-----------------------------------------------------------------------------
Idle(h) == storing[h] = {}
Available(h, n) == Positioned(h) /\ n <= bytes_remaining(h)

Access(h) ==
  /\ Idle(h)
  /\ ops < MaxOps
  /\ ops' = ops + 1

\* transact moves the cursor once the device has answered.
Consume(h, n) ==
  /\ MoveTo(h, At(h).cursor + n)
  /\ UNCHANGED <<ranges, origin>>

\* Variant of Invalidate.
KeepCache(h) == UNCHANGED cache

Invalidate(h) == cache' = [cache EXCEPT ![h] = {}]

\* Bytes from first on change to data; h itself has no cache afterwards.
Store(h, d, first, n, data) ==
  /\ memory' = [memory EXCEPT ![d] =
                  [i \in DOMAIN memory[d] |->
                     IF first <= i /\ i < first + n THEN data[i - first] ELSE memory[d][i]]]
  /\ foreign' = [g \in Handle |->
                   IF g = h \/ cache[g] = {} THEN {}
                   ELSE foreign[g] \cup {<<d, i>> : i \in first .. first + n - 1}]

Init ==
  /\ AddressInit
  /\ memory = Contents
  /\ cache = [h \in Handle |-> {}]
  /\ storing = [h \in Handle |-> {}]
  /\ ops = 0
  /\ last = [op |-> "none"]
  /\ foreign = [h \in Handle |-> {}]

\* read: the bytes go to the caller; the cache is dropped.
Read(h, n) ==
  /\ Access(h)
  /\ Available(h, n)
  /\ Consume(h, n)
  /\ Invalidate(h)
  /\ foreign' = [foreign EXCEPT ![h] = {}]
  /\ last' = [op |-> "read"]
  /\ UNCHANGED <<memory, storing>>

Write(h, n, data) ==
  /\ Access(h)
  /\ Available(h, n)
  /\ Store(h, DeviceOf(h), device_offset(h), n, data)
  /\ Consume(h, n)
  /\ Invalidate(h)
  /\ last' = [op |-> "write"]
  /\ UNCHANGED storing

Where(h, s) == [device_id |-> DeviceOf(h), at |-> device_offset(h), slice |-> s, handle |-> h]

ReadBits(h, s) ==
  LET c == EnsureSlice(h, s)
  IN  /\ Access(h)
      /\ Available(h, bits_to_bytes(s))
      /\ FitsWindow(h, s)
      /\ Cached(h, s) \/ Loadable(h, s)
      /\ cache' = [cache EXCEPT ![h] = {c}]
      /\ foreign' = [foreign EXCEPT ![h] = IF Cached(h, s) THEN @ ELSE {}]
      /\ last' = [op |-> "read_bits", where |-> Where(h, s),
                  value |-> extract_target_bits(c, Intra(h, s), s.bit_len)]
      /\ Consume(h, bits_to_bytes(s))
      /\ UNCHANGED <<memory, storing>>

\* read_bits on a slice that is too wide or whose chunk leaves the device
\* fails and keeps the cache: a stuttering step.  write_bits drops it, also
\* when it panics in encode_bits.
RejectWriteBits(h, s) ==
  /\ Access(h)
  /\ Available(h, bits_to_bytes(s))
  /\ \/ ~FitsWindow(h, s) \/ ~FitsNumber(s)
     \/ ~(Cached(h, s) \/ Loadable(h, s))
  /\ Invalidate(h)
  /\ foreign' = [foreign EXCEPT ![h] = {}]
  /\ last' = [op |-> "rejected", where |-> Where(h, s)]
  /\ UNCHANGED <<addressVars, memory, storing>>

\* write_bits, up to the chunk in the cache.
BeginWriteBits(h, s, value) ==
  /\ Access(h)
  /\ Available(h, bits_to_bytes(s))
  /\ FitsWindow(h, s) /\ FitsNumber(s)
  /\ Cached(h, s) \/ Loadable(h, s)
  /\ cache' = [cache EXCEPT ![h] = {EnsureSlice(h, s)}]
  /\ foreign' = [foreign EXCEPT ![h] = IF Cached(h, s) THEN @ ELSE {}]
  /\ storing' = [storing EXCEPT ![h] = {[slice |-> s, value |-> value]}]
  /\ last' = [op |-> "loading"]
  /\ UNCHANGED <<addressVars, memory>>

\* write_bits, from there on.
StoreBits(h) ==
  \E w \in storing[h], c \in cache[h] :
    /\ Store(h, c.device_id, c.base_byte, c.length,
             UpdatedChunk(c, Intra(h, w.slice), w.slice.bit_len, w.value))
    /\ Consume(h, bits_to_bytes(w.slice))
    /\ Invalidate(h)
    /\ storing' = [storing EXCEPT ![h] = {}]
    /\ last' = [op |-> "write_bits", where |-> Where(h, w.slice), value |-> w.value]
    /\ UNCHANGED ops

MoveHandle(h) == Idle(h) /\ Move(h) /\ UNCHANGED dataVars
RemapBus == Remap /\ UNCHANGED dataVars

Next ==
  \/ RemapBus
  \/ \E h \in Handle :
       \/ MoveHandle(h)
       \/ \E n \in Spans : Read(h, n) \/ \E bit \in Patterns : Write(h, n, Filled(n, bit))
       \/ \E s \in BitSlices :
            \/ ReadBits(h, s)
            \/ RejectWriteBits(h, s)
            \/ \E value \in Values : BeginWriteBits(h, s, value)
       \/ StoreBits(h)

Spec == Init /\ [][Next]_vars

-----------------------------------------------------------------------------
\* Properties.

\* Bit p of a device, counted in the order its endianness gives the bits.
DeviceBit(d, p) ==
  memory[d][p \div BYTE_BITS][IF EndianOf[d] = "Little" THEN p % BYTE_BITS
                               ELSE BYTE_BITS - 1 - (p % BYTE_BITS)]

FirstBit(w) == w.at * BYTE_BITS + w.slice.bit_offset
SliceBits(w) == FirstBit(w) .. FirstBit(w) + w.slice.bit_len - 1

\* What a slice means, without chunks or a cache: the first bit is the least
\* significant one on a little-endian device and the most significant one on a
\* big-endian device.
SliceValue(w) ==
  [k \in 0 .. w.slice.bit_len - 1 |->
     DeviceBit(w.device_id, IF EndianOf[w.device_id] = "Little" THEN FirstBit(w) + k
                            ELSE FirstBit(w) + w.slice.bit_len - 1 - k)]

SliceBytes(w) == {<<w.device_id, p \div BYTE_BITS>> : p \in SliceBits(w)}

\* The chunk a handle caches and the one write_bits puts back lie inside the
\* device: aligning an offset down and rounding a slice up to whole words
\* never leaves it.
ChunksInDevice ==
  \A h \in Handle : \A c \in cache[h] :
    /\ c.base_byte + c.length <= SizeOf[c.device_id]
    /\ c.base_byte % WORD_BYTES = 0

\* A cached byte differs from the device only where another handle has written
\* since: a handle's own writes, jumps and redirect aliases of one device never
\* leave it with an old byte.
StaleOnlyByOthers ==
  \A h \in Handle : \A c \in cache[h] : \A i \in 0 .. c.length - 1 :
    \/ c.bytes[i] = memory[c.device_id][c.base_byte + i]
    \/ <<c.device_id, c.base_byte + i>> \in foreign[h]

\* read_bits returns the bits of its slice, on either endianness and wherever
\* the slice lies in its words, unless another handle wrote the cached bytes.
\* A slice that no number holds has no such value, though a read of one whose
\* end wraps succeeds.
ReadsTheSlice ==
  last.op = "read_bits" /\ FitsNumber(last.where.slice) =>
    \/ last.value = SliceValue(last.where)
    \/ SliceBytes(last.where) \cap foreign[last.where.handle] # {}

SliceHolds(w, value) == \A k \in 0 .. w.slice.bit_len - 1 : SliceValue(w)[k] = value[k]
OnLittle(w) == EndianOf[w.device_id] = "Little"

\* Once write_bits returns on a little-endian device, read_bits would find the
\* value in its slice, wherever the slice lies in its words and whoever wrote
\* the chunk meanwhile.
WritesTheSlice ==
  last.op = "write_bits" /\ OnLittle(last.where) => SliceHolds(last.where, last.value)

\* write_bits by h on a little-endian device changes no bit outside its slice,
\* except in the bytes that others wrote after h read the chunk.
WriteBitsFrame ==
  [][last' # last /\ last'.op = "write_bits" /\ OnLittle(last'.where) =>
       \A d \in Device : \A p \in 0 .. SizeOf[d] * BYTE_BITS - 1 :
         \/ DeviceBit(d, p)' = DeviceBit(d, p)
         \/ d = last'.where.device_id /\ p \in SliceBits(last'.where)
         \/ <<d, p \div BYTE_BITS>> \in foreign[last'.where.handle]]_vars
=============================================================================
