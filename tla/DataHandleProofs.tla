--------------------------- MODULE DataHandleProofs ---------------------------
(***************************************************************************)
(* Proofs about DataHandle, for any devices, maps, slices and widths of a  *)
(* byte and a word: what a cached chunk may differ in from its device, and *)
(* which bits read_bits and write_bits reach through it.                   *)
(***************************************************************************)
EXTENDS DataHandle, AddressHandleProofs

-----------------------------------------------------------------------------
\* Bits of bytes.

\* Euclidean division, in the form the other proofs cite.
LEMMA DivMod ==
  ASSUME NEW n \in Nat, NEW k \in Nat \ {0}
  PROVE  /\ n \div k \in Nat /\ n % k \in 0 .. k - 1
         /\ n = (n \div k) * k + (n % k)
OBVIOUS

\* A quotient and a remainder are what division gives back.
LEMMA DivModUnique ==
  ASSUME NEW k \in Nat \ {0}, NEW q \in Nat, NEW r \in 0 .. k - 1
  PROVE  (q * k + r) \div k = q /\ (q * k + r) % k = r
OBVIOUS

\* Bit m counted from byte base on.
LEMMA ShiftedBit ==
  ASSUME NEW k \in Nat \ {0}, NEW base \in Nat, NEW m \in Nat
  PROVE  (base * k + m) \div k = base + (m \div k) /\ (base * k + m) % k = m % k
<1> DEFINE q == m \div k
           r == m % k
<1>1. q \in Nat /\ r \in 0 .. k - 1 /\ m = q * k + r
  BY DivMod
<1> HIDE DEF q, r
<1>2. base * k + m = (base + q) * k + r
  BY <1>1
<1>3. base + q \in Nat
  BY <1>1
<1>4. ((base + q) * k + r) \div k = base + q /\ ((base + q) * k + r) % k = r
  BY <1>1, <1>3, DivModUnique
<1>5. QED
  BY <1>2, <1>4 DEF q, r

\* Bit m of n bytes counted from the other end.
LEMMA MirroredBit ==
  ASSUME NEW k \in Nat \ {0}, NEW n \in Nat, NEW m \in Nat, m < n * k
  PROVE  /\ m \div k \in 0 .. n - 1
         /\ n * k - 1 - m \in Nat
         /\ (n * k - 1 - m) \div k = n - 1 - (m \div k)
         /\ (n * k - 1 - m) % k = k - 1 - (m % k)
<1> DEFINE q == m \div k
           r == m % k
<1>1. q \in Nat /\ r \in 0 .. k - 1 /\ m = q * k + r
  BY DivMod
<1> HIDE DEF q, r
<1>2. q < n
  <2>1. CASE q >= n
    <3>1. PICK d \in Nat : q = n + d
      <4>1. q - n \in Nat /\ q = n + (q - n)
        BY <1>1, <2>1
      <4>2. QED
        BY <4>1
    <3>2. q * k = n * k + d * k /\ d * k \in Nat /\ n * k \in Nat
      BY <3>1
    <3>3. QED
      BY <1>1, <3>2
  <2>2. QED
    BY <1>1, <2>1
<1>3. n * k - 1 - m = (n - 1 - q) * k + (k - 1 - r)
  BY <1>1
<1>4. n - 1 - q \in Nat /\ k - 1 - r \in 0 .. k - 1
  BY <1>1, <1>2
<1>5. /\ ((n - 1 - q) * k + (k - 1 - r)) \div k = n - 1 - q
      /\ ((n - 1 - q) * k + (k - 1 - r)) % k = k - 1 - r
  BY <1>4, DivModUnique
<1>6. n * k - 1 - m \in Nat
  <2>1. n * k \in Nat
    OBVIOUS
  <2>2. QED
    BY <2>1
<1>7. QED
  BY <1>1, <1>2, <1>3, <1>5, <1>6 DEF q, r

-----------------------------------------------------------------------------
\* Chunks inside their devices.

ChunkOK(c) ==
  /\ c.device_id \in Device /\ c.base_byte \in Nat /\ c.length \in Nat
  /\ c.base_byte + c.length <= SizeOf[c.device_id]
  /\ c.base_byte % WORD_BYTES = 0

Slice == [bit_offset : 0 .. U8 - 1, bit_len : 1 .. U16 - 1]

\* A handle in the middle of write_bits stands where it stood when it filled
\* the cache.
StoringOK(h) ==
  \A w \in storing[h] :
    /\ w.slice \in Slice
    /\ Available(h, bits_to_bytes(w.slice))
    /\ FitsWindow(h, w.slice) /\ FitsNumber(w.slice)
    /\ \A c \in cache[h] : Matches(c, h, w.slice)

DataInv ==
  /\ AddressTypeOK /\ PlacesOK
  /\ DOMAIN memory = Device /\ \A d \in Device : DOMAIN memory[d] = 0 .. SizeOf[d] - 1
  /\ DOMAIN cache = Handle /\ DOMAIN storing = Handle /\ DOMAIN foreign = Handle
  /\ \A h \in Handle : \A c \in cache[h] : ChunkOK(c)
  /\ \A h \in Handle : StoringOK(h)

\* A bit slice spans a whole number of bytes.
LEMMA SliceBytesNat ==
  ASSUME NEW s \in Slice
  PROVE  /\ s.bit_offset \in Nat /\ s.bit_len \in Nat \ {0}
         /\ bits_to_bytes(s) \in Nat
<1>1. s.bit_offset \in Nat /\ s.bit_len \in Nat \ {0}
  BY DataAssumption DEF Slice
<1>2. s.bit_offset + s.bit_len + BYTE_BITS - 1 \in Nat /\ BYTE_BITS \in Nat \ {0}
  BY <1>1, DataAssumption
<1>3. (s.bit_offset + s.bit_len + BYTE_BITS - 1) \div BYTE_BITS \in Nat
  BY <1>2, DivMod
<1>4. QED
  BY <1>1, <1>3 DEF bits_to_bytes, bytes_for_len

\* Where a positioned handle stands on its device.
LEMMA StandsOn ==
  ASSUME AddressTypeOK, PlacesOK, NEW h \in Handle, Positioned(h)
  PROVE  /\ DeviceOf(h) \in Device /\ device_offset(h) \in Nat
         /\ BaseByte(h) \in Nat /\ BaseByte(h) % WORD_BYTES = 0
         /\ device_offset(h) % WORD_BYTES \in 0 .. WORD_BYTES - 1
         /\ device_offset(h) = BaseByte(h) + (device_offset(h) % WORD_BYTES)
<1>1. At(h).range \in Known /\ At(h).cursor \in Nat
  BY PlaceOf
<1>2. DeviceOf(h) \in Device /\ device_offset(h) \in Nat
  BY <1>1, RangeFields DEF DeviceOf, device_offset
<1>3. WORD_BYTES \in Nat \ {0} /\ 0 \in 0 .. WORD_BYTES - 1
  BY DataAssumption
<1> DEFINE q == device_offset(h) \div WORD_BYTES
<1>4. /\ q \in Nat /\ device_offset(h) % WORD_BYTES \in 0 .. WORD_BYTES - 1
      /\ device_offset(h) = q * WORD_BYTES + (device_offset(h) % WORD_BYTES)
  BY <1>2, <1>3, DivMod
<1>5. BaseByte(h) = q * WORD_BYTES
  BY DEF BaseByte
<1> HIDE DEF q
<1>6. q * WORD_BYTES \in Nat /\ q * WORD_BYTES + 0 = q * WORD_BYTES
  BY <1>3, <1>4
<1>7. (q * WORD_BYTES + 0) % WORD_BYTES = 0
  BY <1>3, <1>4, DivModUnique
<1>8. QED
  BY <1>2, <1>4, <1>5, <1>6, <1>7

\* The chunk of ensure_slice, cached or loaded.
LEMMA EnsuredChunk ==
  ASSUME DataInv, NEW h \in Handle, NEW s \in Slice, Positioned(h), Cached(h, s) \/ Loadable(h, s)
  PROVE  /\ ChunkOK(EnsureSlice(h, s)) /\ Matches(EnsureSlice(h, s), h, s)
         /\ IF Cached(h, s) THEN EnsureSlice(h, s) \in cache[h]
                            ELSE EnsureSlice(h, s) = LoadChunk(h, s)
<1>1. CASE Cached(h, s)
  <2>1. EnsureSlice(h, s) \in cache[h] /\ Matches(EnsureSlice(h, s), h, s)
    BY <1>1 DEF EnsureSlice, Cached
  <2>2. QED
    BY <1>1, <2>1 DEF DataInv
<1>2. CASE ~Cached(h, s)
  <2>1. EnsureSlice(h, s) = LoadChunk(h, s) /\ Loadable(h, s)
    BY <1>2 DEF EnsureSlice
  <2>2. ChunkBytes(h, s) \in Nat
    BY DataAssumption DEF ChunkBytes
  <2>3. DeviceOf(h) \in Device /\ BaseByte(h) \in Nat /\ BaseByte(h) % WORD_BYTES = 0
    BY StandsOn DEF DataInv
  <2>4. QED
    BY <1>2, <2>1, <2>2, <2>3 DEF LoadChunk, Loadable, ChunkOK, Matches
<1>3. QED
  BY <1>1, <1>2

\* A transaction moves only its own cursor, and not out of the range.
LEMMA ConsumeKeeps ==
  ASSUME AddressTypeOK, PlacesOK, NEW h \in Handle, NEW n \in Nat, Available(h, n), Consume(h, n)
  PROVE  /\ AddressTypeOK' /\ PlacesOK'
         /\ \A g \in Handle \ {h} : active'[g] = active[g]
<1>1. At(h).range \in Known /\ At(h).cursor \in Nat
  BY PlaceOf DEF Available
<1>2. At(h).cursor + n \in Nat /\ At(h).cursor + n <= Length(At(h).range)
  BY <1>1, RangeFields DEF Available, bytes_remaining, bus_address, Length
<1>3. AddressTypeOK' /\ PlacesOK'
  BY <1>2, CursorStep DEF Consume, Available
<1>4. QED
  BY <1>3 DEF Consume, MoveTo, AddressTypeOK

\* What a handle that does not move is about.
LEMMA RestingHandle ==
  ASSUME NEW g \in Handle, active'[g] = active[g], cache'[g] = cache[g], storing'[g] = storing[g],
         StoringOK(g)
  PROVE  StoringOK(g)'
BY DEF StoringOK, Available, Positioned, bytes_remaining, bus_address, FitsWindow, FitsNumber, Matches, SliceEnd,
       Intra, device_offset, DeviceOf, BaseByte, ChunkBytes, At, bits_to_bytes, bytes_for_len, WordBits

MemoryShape == DOMAIN memory = Device /\ \A d \in Device : DOMAIN memory[d] = 0 .. SizeOf[d] - 1

\* A step of h keeps the invariant when it leaves h and the memory in order.
LEMMA DataStep ==
  ASSUME DataInv, NEW h \in Handle, AddressTypeOK', PlacesOK', MemoryShape',
         DOMAIN cache' = Handle, DOMAIN storing' = Handle, DOMAIN foreign' = Handle,
         \A g \in Handle \ {h} :
           active'[g] = active[g] /\ cache'[g] = cache[g] /\ storing'[g] = storing[g],
         \A c \in cache'[h] : ChunkOK(c), StoringOK(h)'
  PROVE  DataInv'
<1>1. ASSUME NEW g \in Handle
      PROVE  StoringOK(g)' /\ \A c \in cache'[g] : ChunkOK(c)
  <2>1. CASE g = h
    BY <2>1
  <2>2. CASE g # h
    BY <2>2, RestingHandle DEF DataInv
  <2>3. QED
    BY <2>1, <2>2
<1>2. QED
  BY <1>1 DEF DataInv, MemoryShape, ChunkOK

\* A store, by whomever, keeps the shape of the devices' memory.
LEMMA StoreShape ==
  ASSUME DataInv, NEW h, NEW d, NEW first, NEW n, NEW data, Store(h, d, first, n, data)
  PROVE  MemoryShape' /\ DOMAIN foreign' = Handle
BY DEF DataInv, MemoryShape, Store

\* An idle handle has no half-done write, so a call that begins none keeps
\* every handle's pending write well formed.
LEMMA IdleStoring ==
  ASSUME DataInv, NEW h \in Handle, Idle(h), storing' = storing
  PROVE  DOMAIN storing' = Handle /\ StoringOK(h)' /\ \A g \in Handle : storing'[g] = storing[g]
BY DEF DataInv, Idle, StoringOK

\* A read of bytes keeps the data invariant.
LEMMA ReadKeeps ==
  ASSUME DataInv, NEW h \in Handle, NEW n \in Nat, Read(h, n)
  PROVE  DataInv'
<1>1. AddressTypeOK' /\ PlacesOK' /\ \A g \in Handle \ {h} : active'[g] = active[g]
  BY ConsumeKeeps DEF DataInv, Read
<1>2. /\ DOMAIN cache' = Handle /\ DOMAIN foreign' = Handle /\ cache'[h] = {}
      /\ \A g \in Handle \ {h} : cache'[g] = cache[g]
  BY DEF DataInv, Read, Invalidate
<1>3. MemoryShape'
  BY DEF DataInv, Read, MemoryShape
<1>4. QED
  BY <1>1, <1>2, <1>3, IdleStoring, DataStep DEF Read, Access

\* A write of bytes keeps the data invariant.
LEMMA WriteKeeps ==
  ASSUME DataInv, NEW h \in Handle, NEW n \in Nat, NEW data, Write(h, n, data)
  PROVE  DataInv'
<1>1. AddressTypeOK' /\ PlacesOK' /\ \A g \in Handle \ {h} : active'[g] = active[g]
  BY ConsumeKeeps DEF DataInv, Write
<1>2. DOMAIN cache' = Handle /\ cache'[h] = {} /\ \A g \in Handle \ {h} : cache'[g] = cache[g]
  BY DEF DataInv, Write, Invalidate
<1>3. MemoryShape' /\ DOMAIN foreign' = Handle
  BY StoreShape DEF Write
<1>4. QED
  BY <1>1, <1>2, <1>3, IdleStoring, DataStep DEF Write, Access

\* A read of bits keeps the data invariant: the chunk it fetches is the one
\* of the slice and lies in the device.
LEMMA ReadBitsKeeps ==
  ASSUME DataInv, NEW h \in Handle, NEW s \in Slice, ReadBits(h, s)
  PROVE  DataInv'
<1>1. AddressTypeOK' /\ PlacesOK' /\ \A g \in Handle \ {h} : active'[g] = active[g]
  BY ConsumeKeeps, SliceBytesNat DEF DataInv, ReadBits
<1>2. ChunkOK(EnsureSlice(h, s))
  BY EnsuredChunk DEF ReadBits, Available
<1>3. /\ DOMAIN cache' = Handle /\ cache'[h] = {EnsureSlice(h, s)} /\ DOMAIN foreign' = Handle
      /\ \A g \in Handle \ {h} : cache'[g] = cache[g]
  BY DEF DataInv, ReadBits
<1>4. MemoryShape'
  BY DEF DataInv, ReadBits, MemoryShape
<1>5. QED
  BY <1>1, <1>2, <1>3, <1>4, IdleStoring, DataStep DEF ReadBits, Access

\* A refused write of bits drops the cache and keeps the data invariant.
LEMMA RejectKeeps ==
  ASSUME DataInv, NEW h \in Handle, NEW s \in Slice, RejectWriteBits(h, s)
  PROVE  DataInv'
<1>1. AddressTypeOK' /\ PlacesOK' /\ \A g \in Handle : active'[g] = active[g]
  BY DEF DataInv, RejectWriteBits, addressVars, AddressTypeOK, PlacesOK
<1>2. /\ DOMAIN cache' = Handle /\ DOMAIN foreign' = Handle /\ cache'[h] = {}
      /\ \A g \in Handle \ {h} : cache'[g] = cache[g]
  BY DEF DataInv, RejectWriteBits, Invalidate
<1>3. MemoryShape'
  BY DEF DataInv, RejectWriteBits, MemoryShape
<1>4. QED
  BY <1>1, <1>2, <1>3, IdleStoring, DataStep DEF RejectWriteBits, Access

\* The first half of a write of bits, which fetches the chunk, keeps the data
\* invariant: the chunk matches the slice that is about to be stored.
LEMMA BeginKeeps ==
  ASSUME DataInv, NEW h \in Handle, NEW s \in Slice, NEW value, BeginWriteBits(h, s, value)
  PROVE  DataInv'
<1>1. AddressTypeOK' /\ PlacesOK' /\ \A g \in Handle : active'[g] = active[g]
  BY DEF DataInv, BeginWriteBits, addressVars, AddressTypeOK, PlacesOK
<1>2. ChunkOK(EnsureSlice(h, s)) /\ Matches(EnsureSlice(h, s), h, s)
  BY EnsuredChunk DEF BeginWriteBits, Available
<1>3. /\ DOMAIN cache' = Handle /\ cache'[h] = {EnsureSlice(h, s)} /\ DOMAIN foreign' = Handle
      /\ DOMAIN storing' = Handle /\ storing'[h] = {[slice |-> s, value |-> value]}
      /\ \A g \in Handle \ {h} : cache'[g] = cache[g] /\ storing'[g] = storing[g]
  BY DEF DataInv, BeginWriteBits
<1>4. MemoryShape'
  BY DEF DataInv, BeginWriteBits, MemoryShape
<1>5. StoringOK(h)'
  <2>1. Available(h, bits_to_bytes(s)) /\ FitsWindow(h, s) /\ FitsNumber(s)
    BY DEF BeginWriteBits
  <2>2. active'[h] = active[h]
    BY <1>1
  <2>3. Available(h, bits_to_bytes(s))' /\ FitsWindow(h, s)' /\ FitsNumber(s)'
    BY <2>1, <2>2 DEF Available, Positioned, bytes_remaining, bus_address, FitsWindow, FitsNumber,
                      SliceEnd, Intra, device_offset, At, bits_to_bytes, bytes_for_len, WordBits
  <2>4. ASSUME NEW c, Matches(c, h, s)
        PROVE  Matches(c, h, s)'
    BY <2>2, <2>4 DEF Matches, SliceEnd, Intra, device_offset, DeviceOf, BaseByte, ChunkBytes, At, WordBits
  <2>5. \A c \in cache'[h] : Matches(c, h, s)'
    BY <1>2, <1>3, <2>4
  <2>6. \A w \in storing'[h] : w.slice = s
    BY <1>3
  <2>7. QED
    BY <2>3, <2>5, <2>6 DEF StoringOK
<1>6. QED
  BY <1>1, <1>2, <1>3, <1>4, <1>5, DataStep

\* The second half, which stores the merged chunk, keeps the data invariant.
LEMMA StoreBitsKeeps ==
  ASSUME DataInv, NEW h \in Handle, StoreBits(h)
  PROVE  DataInv'
<1>1. PICK w \in storing[h], c \in cache[h] :
        /\ Store(h, c.device_id, c.base_byte, c.length,
                 UpdatedChunk(c, Intra(h, w.slice), w.slice.bit_len, w.value))
        /\ Consume(h, bits_to_bytes(w.slice))
        /\ Invalidate(h)
        /\ storing' = [storing EXCEPT ![h] = {}]
  BY DEF StoreBits
<1>2. w.slice \in Slice /\ Available(h, bits_to_bytes(w.slice))
  BY DEF DataInv, StoringOK
<1>3. AddressTypeOK' /\ PlacesOK' /\ \A g \in Handle \ {h} : active'[g] = active[g]
  BY <1>1, <1>2, ConsumeKeeps, SliceBytesNat DEF DataInv
<1>4. /\ DOMAIN cache' = Handle /\ cache'[h] = {} /\ DOMAIN storing' = Handle /\ storing'[h] = {}
      /\ \A g \in Handle \ {h} : cache'[g] = cache[g] /\ storing'[g] = storing[g]
  BY <1>1 DEF DataInv, Invalidate
<1>5. MemoryShape' /\ DOMAIN foreign' = Handle
  BY <1>1, StoreShape
<1>6. QED
  BY <1>3, <1>4, <1>5, DataStep DEF StoringOK

\* The calls of a handle with any arguments, and any step of its bus.
MoveAnywhere(h) ==
  /\ Idle(h)
  /\ Move(h) \/ \E a \in Nat : Jump(h, a)
  /\ UNCHANGED dataVars

AnyCall(h) ==
  \/ MoveAnywhere(h)
  \/ \E n \in Nat : Read(h, n) \/ \E bit \in Bit : Write(h, n, Filled(n, bit))
  \/ \E s \in Slice :
       \/ ReadBits(h, s)
       \/ RejectWriteBits(h, s)
       \/ \E value \in Values : BeginWriteBits(h, s, value)
  \/ StoreBits(h)

AnyStep == RemapBus \/ (\E h \in Handle : AnyCall(h)) \/ UNCHANGED vars

\* The steps TLC enumerates are among those of AnyStep, which takes any slice,
\* any length and any value.
LEMMA NextIsStep == [Next]_vars => AnyStep
<1>1. BitSlices \subseteq Slice /\ Spans \subseteq Nat /\ Patterns \subseteq Bit
  BY DataAssumption DEF Slice
<1>2. QED
  BY <1>1 DEF Next, AnyStep, AnyCall, MoveHandle, MoveAnywhere

\* A handle that moves, or a map that changes, leaves the devices alone.
LEMMA MapStepKeeps ==
  ASSUME DataInv, RemapBus \/ \E h \in Handle : MoveAnywhere(h)
  PROVE  DataInv' /\ UNCHANGED dataVars
<1>1. UNCHANGED dataVars
  BY DEF RemapBus, MoveAnywhere
<1>2. MemoryShape' /\ DOMAIN cache' = Handle /\ DOMAIN storing' = Handle /\ DOMAIN foreign' = Handle
      /\ cache' = cache /\ storing' = storing
  BY <1>1 DEF dataVars, DataInv, MemoryShape
<1>3. CASE RemapBus
  <2>1. AddressTypeOK' /\ PlacesOK' /\ active' = active
    BY <1>3, RemapKeeps DEF RemapBus, Remap, DataInv
  <2>2. \A h \in Handle : StoringOK(h)'
    BY <1>2, <2>1, RestingHandle DEF DataInv
  <2>3. QED
    BY <1>1, <1>2, <2>1, <2>2 DEF DataInv, MemoryShape, ChunkOK
<1>4. ASSUME NEW h \in Handle, MoveAnywhere(h)
      PROVE  DataInv'
  <2>1. AddressTypeOK' /\ PlacesOK'
    BY <1>4, MoveKeeps, JumpKeeps DEF MoveAnywhere, DataInv
  <2>2. \A g \in Handle \ {h} : active'[g] = active[g]
    BY <1>4 DEF MoveAnywhere, Move, Jump, JumpRelative, Advance, Retreat, MoveTo, DataInv, AddressTypeOK
  <2>3. StoringOK(h)' /\ \A c \in cache'[h] : ChunkOK(c)
    BY <1>2, <1>4, IdleStoring DEF MoveAnywhere, DataInv
  <2>4. QED
    BY <1>2, <2>1, <2>2, <2>3, DataStep
<1>5. QED
  BY <1>1, <1>3, <1>4

\* The data invariant is inductive, whatever the calls.
LEMMA DataInvKept == DataInv /\ AnyStep => DataInv'
<1> SUFFICES ASSUME DataInv, AnyStep PROVE DataInv'
  OBVIOUS
<1>1. CASE RemapBus \/ \E h \in Handle : MoveAnywhere(h)
  BY <1>1, MapStepKeeps
<1>2. ASSUME NEW h \in Handle, NEW n \in Nat, Read(h, n) \/ \E bit \in Bit : Write(h, n, Filled(n, bit))
      PROVE  DataInv'
  BY <1>2, ReadKeeps, WriteKeeps
<1>3. ASSUME NEW h \in Handle, NEW s \in Slice,
             ReadBits(h, s) \/ RejectWriteBits(h, s) \/ \E value \in Values : BeginWriteBits(h, s, value)
      PROVE  DataInv'
  BY <1>3, ReadBitsKeeps, RejectKeeps, BeginKeeps
<1>4. ASSUME NEW h \in Handle, StoreBits(h)
      PROVE  DataInv'
  BY <1>4, StoreBitsKeeps
<1>5. CASE UNCHANGED vars
  <2>1. UNCHANGED addressVars /\ UNCHANGED dataVars
    BY <1>5 DEF vars
  <2>2. AddressTypeOK' /\ PlacesOK' /\ active' = active
    BY <2>1 DEF addressVars, DataInv, AddressTypeOK, PlacesOK
  <2>3. \A h \in Handle : StoringOK(h)'
    BY <2>1, <2>2, RestingHandle DEF DataInv, dataVars
  <2>4. QED
    BY <2>1, <2>2, <2>3 DEF DataInv, dataVars, ChunkOK
<1>6. QED
  BY <1>1, <1>2, <1>3, <1>4, <1>5 DEF AnyStep, AnyCall

\* What the invariants start from.
LEMMA InitialData == Init => DataInv /\ StaleOnlyByOthers
<1> SUFFICES ASSUME Init PROVE DataInv /\ StaleOnlyByOthers
  OBVIOUS
<1>1. AddressTypeOK /\ PlacesOK
  BY DEF Init, AddressInit, AddressTypeOK, PlacesOK
<1>2. DOMAIN memory = Device /\ \A d \in Device : DOMAIN memory[d] = 0 .. SizeOf[d] - 1
  BY DataAssumption DEF Init
<1>3. QED
  BY <1>1, <1>2 DEF Init, DataInv, StoringOK, StaleOnlyByOthers

\* A cached chunk is whole words of its device; between the read and the write of
\* write_bits a handle stands where it stood, in front of the slice, and the
\* chunk it holds is the one of that slice.
THEOREM DataInvariant == Spec => []DataInv
<1>1. QED
  BY InitialData, DataInvKept, NextIsStep, PTL DEF Spec

\* The chunk a handle caches, and the one write_bits puts back, lie inside the
\* device and start at a word: aligning the offset down and rounding the slice
\* up to whole words never leaves it.
THEOREM ChunksStayInDevice == Spec => []ChunksInDevice
<1>1. DataInv => ChunksInDevice
  BY DEF DataInv, ChunkOK, ChunksInDevice
<1>2. QED
  BY <1>1, DataInvariant, PTL

-----------------------------------------------------------------------------
\* Stale bytes.

\* The bytes of c are those of the device, but where others wrote.
FreshBut(c, written) ==
  \A i \in 0 .. c.length - 1 :
    \/ c.bytes[i] = memory[c.device_id][c.base_byte + i]
    \/ <<c.device_id, c.base_byte + i>> \in written

\* StaleOnlyByOthers, chunk by chunk.
LEMMA StaleFresh == StaleOnlyByOthers <=> \A h \in Handle : \A c \in cache[h] : FreshBut(c, foreign[h])
BY DEF StaleOnlyByOthers, FreshBut

\* What anyone else stores into a chunk becomes foreign to its owner.
LEMMA StoreFresh ==
  ASSUME DataInv, NEW h, NEW d \in Device, NEW first \in Nat, NEW n \in Nat, NEW data,
         Store(h, d, first, n, data),
         NEW g \in Handle, g # h, NEW c \in cache[g], FreshBut(c, foreign[g])
  PROVE  FreshBut(c, foreign[g])'
<1> SUFFICES ASSUME NEW i \in 0 .. c.length - 1
             PROVE  \/ c.bytes[i] = memory'[c.device_id][c.base_byte + i]
                    \/ <<c.device_id, c.base_byte + i>> \in foreign'[g]
  BY DEF FreshBut
<1> DEFINE j == c.base_byte + i
<1>1. c.device_id \in Device /\ j \in 0 .. SizeOf[c.device_id] - 1
  <2>1. /\ c.device_id \in Device /\ c.base_byte \in Nat /\ c.length \in Nat
        /\ c.base_byte + c.length <= SizeOf[c.device_id]
    BY DEF DataInv, ChunkOK
  <2>2. SizeOf[c.device_id] \in Nat
    BY <2>1, MapAssumption
  <2>3. QED
    BY <2>1, <2>2
<1>2. DOMAIN memory = Device /\ j \in DOMAIN memory[c.device_id]
  BY <1>1 DEF DataInv
<1>3. foreign'[g] = foreign[g] \cup {<<d, k>> : k \in first .. first + n - 1}
  BY DEF Store
<1>4. c.bytes[i] = memory[c.device_id][j] \/ <<c.device_id, j>> \in foreign[g]
  BY DEF FreshBut
<1>5. memory' = [memory EXCEPT ![d] = [k \in DOMAIN memory[d] |->
                   IF first <= k /\ k < first + n THEN data[k - first] ELSE memory[d][k]]]
  BY DEF Store
<1> HIDE DEF j
<1>6. CASE c.device_id = d /\ first <= j /\ j < first + n
  <2>1. j \in first .. first + n - 1
    BY <1>1, <1>6
  <2>2. QED
    BY <1>3, <1>6, <2>1 DEF j
<1>7. CASE ~(c.device_id = d /\ first <= j /\ j < first + n)
  <2>1. memory'[c.device_id][j] = memory[c.device_id][j]
    BY <1>1, <1>2, <1>5, <1>7
  <2>2. QED
    BY <1>3, <1>4, <2>1 DEF j
<1>8. QED
  BY <1>6, <1>7

\* The chunk of ensure_slice is as fresh as the one in the cache, or new.
LEMMA EnsuredFresh ==
  ASSUME DataInv, StaleOnlyByOthers, NEW h \in Handle, NEW s \in Slice, Positioned(h),
         Cached(h, s) \/ Loadable(h, s)
  PROVE  FreshBut(EnsureSlice(h, s), IF Cached(h, s) THEN foreign[h] ELSE {})
<1> DEFINE c == EnsureSlice(h, s)
<1>1. CASE Cached(h, s)
  <2>1. c \in cache[h]
    BY <1>1, EnsuredChunk
  <2>2. FreshBut(c, foreign[h])
    BY <2>1, StaleFresh
  <2>3. QED
    BY <1>1, <2>2
<1>2. CASE ~Cached(h, s)
  <2>1. c = LoadChunk(h, s)
    BY <1>2, EnsuredChunk
  <2>2. /\ c.device_id = DeviceOf(h) /\ c.base_byte = BaseByte(h) /\ c.length = ChunkBytes(h, s)
        /\ c.bytes = [i \in 0 .. ChunkBytes(h, s) - 1 |-> memory[DeviceOf(h)][BaseByte(h) + i]]
    BY <2>1 DEF LoadChunk
  <2>3. FreshBut(c, {})
    BY <2>2 DEF FreshBut
  <2>4. QED
    BY <1>2, <2>3
<1>3. QED
  BY <1>1, <1>2

\* A step of h that leaves the memory alone keeps what the others cached.
LEMMA QuietStale ==
  ASSUME StaleOnlyByOthers, NEW h \in Handle, memory' = memory,
         \A g \in Handle \ {h} : cache'[g] = cache[g] /\ foreign'[g] = foreign[g],
         \A c \in cache'[h] : FreshBut(c, foreign'[h])
  PROVE  StaleOnlyByOthers'
<1> SUFFICES ASSUME NEW g \in Handle, NEW c \in cache'[g]
             PROVE  FreshBut(c, foreign[g])'
  BY DEF StaleOnlyByOthers, FreshBut
<1>1. FreshBut(c, foreign'[g])
  <2>1. CASE g = h
    BY <2>1
  <2>2. CASE g # h
    BY <2>2, StaleFresh
  <2>3. QED
    BY <2>1, <2>2
<1>2. QED
  BY <1>1 DEF FreshBut

\* A store by h, which drops its own chunk, marks what the others now hold stale.
LEMMA StoreStale ==
  ASSUME DataInv, StaleOnlyByOthers, NEW h \in Handle, NEW d \in Device, NEW first \in Nat,
         NEW n \in Nat, NEW data, Store(h, d, first, n, data), Invalidate(h)
  PROVE  StaleOnlyByOthers'
<1> SUFFICES ASSUME NEW g \in Handle, NEW c \in cache'[g]
             PROVE  FreshBut(c, foreign[g])'
  BY DEF StaleOnlyByOthers, FreshBut
<1>1. g # h /\ c \in cache[g]
  BY DEF DataInv, Invalidate
<1>2. FreshBut(c, foreign[g])
  BY <1>1, StaleFresh
<1>3. QED
  BY <1>1, <1>2, StoreFresh

\* No step leaves a chunk stale in a byte that no other handle has written.
LEMMA StaleStep ==
  DataInv /\ StaleOnlyByOthers /\ AnyStep => StaleOnlyByOthers'
<1> SUFFICES ASSUME DataInv, StaleOnlyByOthers, AnyStep PROVE StaleOnlyByOthers'
  OBVIOUS
<1>1. CASE RemapBus \/ (\E h \in Handle : MoveAnywhere(h)) \/ UNCHANGED vars
  BY <1>1, MapStepKeeps DEF vars, dataVars, StaleOnlyByOthers
<1>2. ASSUME NEW h \in Handle, NEW n \in Nat, Read(h, n)
      PROVE  StaleOnlyByOthers'
  <2>1. /\ memory' = memory /\ cache'[h] = {}
        /\ \A g \in Handle \ {h} : cache'[g] = cache[g] /\ foreign'[g] = foreign[g]
    BY <1>2 DEF Read, Invalidate, DataInv
  <2>2. QED
    BY <2>1, QuietStale
<1>3. ASSUME NEW h \in Handle, NEW n \in Nat, NEW data, Write(h, n, data)
      PROVE  StaleOnlyByOthers'
  <2>1. DeviceOf(h) \in Device /\ device_offset(h) \in Nat
    BY <1>3, StandsOn DEF Write, Available, DataInv
  <2>2. QED
    BY <1>3, <2>1, StoreStale DEF Write
<1>4. ASSUME NEW h \in Handle, NEW s \in Slice,
             ReadBits(h, s) \/ \E value \in Values : BeginWriteBits(h, s, value)
      PROVE  StaleOnlyByOthers'
  <2>1. /\ memory' = memory /\ cache'[h] = {EnsureSlice(h, s)}
        /\ \A g \in Handle \ {h} : cache'[g] = cache[g] /\ foreign'[g] = foreign[g]
        /\ foreign'[h] = IF Cached(h, s) THEN foreign[h] ELSE {}
    BY <1>4 DEF ReadBits, BeginWriteBits, DataInv
  <2>2. Positioned(h) /\ (Cached(h, s) \/ Loadable(h, s))
    BY <1>4 DEF ReadBits, BeginWriteBits, Available
  <2>3. FreshBut(EnsureSlice(h, s), foreign'[h])
    BY <2>1, <2>2, EnsuredFresh
  <2>4. QED
    BY <2>1, <2>3, QuietStale
<1>5. ASSUME NEW h \in Handle, NEW s \in Slice, RejectWriteBits(h, s)
      PROVE  StaleOnlyByOthers'
  <2>1. /\ memory' = memory /\ cache'[h] = {}
        /\ \A g \in Handle \ {h} : cache'[g] = cache[g] /\ foreign'[g] = foreign[g]
    BY <1>5 DEF RejectWriteBits, Invalidate, DataInv
  <2>2. QED
    BY <2>1, QuietStale
<1>6. ASSUME NEW h \in Handle, StoreBits(h)
      PROVE  StaleOnlyByOthers'
  <2>1. PICK w \in storing[h], c \in cache[h] :
          /\ Store(h, c.device_id, c.base_byte, c.length,
                   UpdatedChunk(c, Intra(h, w.slice), w.slice.bit_len, w.value))
          /\ Invalidate(h)
    BY <1>6 DEF StoreBits
  <2>2. c.device_id \in Device /\ c.base_byte \in Nat /\ c.length \in Nat
    BY DEF DataInv, ChunkOK
  <2>3. QED
    BY <2>1, <2>2, StoreStale
<1>7. QED
  BY <1>1, <1>2, <1>3, <1>4, <1>5, <1>6 DEF AnyStep, AnyCall

\* A cached byte is stale only where another handle wrote it since: a handle's
\* own writes, its jumps, and the redirect aliases of a device never leave it
\* with an old byte.
THEOREM CacheStaleOnlyByOthers == Spec => []StaleOnlyByOthers
<1>1. QED
  BY InitialData, StaleStep, NextIsStep, DataInvariant, PTL DEF Spec

-----------------------------------------------------------------------------
\* The bits of a chunk.

\* Bit m of a chunk is bit m of its bytes on a little-endian device; on a
\* big-endian one the bits count from the top of the value.
LEMMA ChunkBit ==
  ASSUME NEW c, NEW n \in Nat, c.length = n, c.device_id \in Device,
         NEW m \in Nat, m < n * BYTE_BITS
  PROVE  /\ m \div BYTE_BITS \in 0 .. n - 1
         /\ EndianOf[c.device_id] = "Little" =>
              ChunkValue(c)[m] = c.bytes[m \div BYTE_BITS][m % BYTE_BITS]
         /\ EndianOf[c.device_id] # "Little" =>
              ChunkValue(c)[n * BYTE_BITS - 1 - m] =
                c.bytes[m \div BYTE_BITS][BYTE_BITS - 1 - (m % BYTE_BITS)]
<1>1. BYTE_BITS \in Nat \ {0} /\ n * BYTE_BITS \in Nat
  BY DataAssumption
<1> DEFINE j == n * BYTE_BITS - 1 - m
           q == m \div BYTE_BITS
<1>2. /\ q \in 0 .. n - 1 /\ j \in Nat
      /\ j \div BYTE_BITS = n - 1 - q
      /\ j % BYTE_BITS = BYTE_BITS - 1 - (m % BYTE_BITS)
  BY <1>1, MirroredBit
<1>3. m \in 0 .. n * BYTE_BITS - 1 /\ j \in 0 .. n * BYTE_BITS - 1
  BY <1>1, <1>2
<1>4. CASE EndianOf[c.device_id] = "Little"
  <2>1. ChunkValue(c)[m] = c.bytes[m \div BYTE_BITS][m % BYTE_BITS]
    BY <1>3, <1>4 DEF ChunkValue, decode_bytes, ByteAt
  <2>2. QED
    BY <1>2, <1>4, <2>1
<1>5. CASE EndianOf[c.device_id] # "Little"
  <2> HIDE DEF j, q
  <2>1. n - 1 - (n - 1 - q) = q
    BY <1>2
  <2>2. ChunkValue(c)[j] = c.bytes[n - 1 - (j \div BYTE_BITS)][j % BYTE_BITS]
    BY <1>3, <1>5 DEF ChunkValue, decode_bytes, ByteAt
  <2>3. ChunkValue(c)[j] = c.bytes[q][BYTE_BITS - 1 - (m % BYTE_BITS)]
    BY <1>2, <2>1, <2>2
  <2>4. QED
    BY <1>2, <1>5, <2>3 DEF j, q
<1>6. QED
  BY <1>4, <1>5

\* Bit m from byte base of a device on.
LEMMA MemoryBit ==
  ASSUME NEW d \in Device, NEW base \in Nat, NEW m \in Nat
  PROVE  /\ DeviceBit(d, base * BYTE_BITS + m) =
              memory[d][base + (m \div BYTE_BITS)]
                    [IF EndianOf[d] = "Little" THEN m % BYTE_BITS
                     ELSE BYTE_BITS - 1 - (m % BYTE_BITS)]
         /\ (base * BYTE_BITS + m) \div BYTE_BITS = base + (m \div BYTE_BITS)
<1>1. BYTE_BITS \in Nat \ {0}
  BY DataAssumption
<1>2. /\ (base * BYTE_BITS + m) \div BYTE_BITS = base + (m \div BYTE_BITS)
      /\ (base * BYTE_BITS + m) % BYTE_BITS = m % BYTE_BITS
  BY <1>1, ShiftedBit
<1>3. QED
  BY <1>2 DEF DeviceBit

\* Where a slice begins, counted from the chunk of a positioned handle.
LEMMA SlicePlace ==
  ASSUME AddressTypeOK, PlacesOK, NEW h \in Handle, Positioned(h), NEW s \in Slice
  PROVE  /\ BaseByte(h) \in Nat /\ DeviceOf(h) \in Device
         /\ Intra(h, s) \in Nat /\ s.bit_len \in Nat \ {0}
         /\ Intra(h, s) < WordBits + U8
         /\ device_offset(h) * BYTE_BITS + s.bit_offset = BaseByte(h) * BYTE_BITS + Intra(h, s)
<1>1. /\ DeviceOf(h) \in Device /\ BaseByte(h) \in Nat /\ device_offset(h) \in Nat
      /\ device_offset(h) % WORD_BYTES \in 0 .. WORD_BYTES - 1
      /\ device_offset(h) = BaseByte(h) + (device_offset(h) % WORD_BYTES)
  BY StandsOn
<1>2. BYTE_BITS \in Nat \ {0} /\ WORD_BYTES \in Nat \ {0}
  BY DataAssumption
<1>3. s.bit_offset \in Nat /\ s.bit_len \in Nat \ {0} /\ s.bit_offset < U8 /\ U8 \in Nat
  BY SliceBytesNat, DataAssumption DEF Slice
<1> DEFINE r == device_offset(h) % WORD_BYTES
           b == BaseByte(h)
<1>4. Intra(h, s) = r * BYTE_BITS + s.bit_offset /\ r \in 0 .. WORD_BYTES - 1
  BY <1>1, <1>2 DEF Intra
<1> HIDE DEF r, b
<1>5. r * BYTE_BITS \in Nat /\ (b + r) * BYTE_BITS = b * BYTE_BITS + r * BYTE_BITS
  BY <1>1, <1>2, <1>4 DEF b
<1>6. r * BYTE_BITS <= WordBits /\ WordBits \in Nat
  <2>1. (WORD_BYTES - r) * BYTE_BITS \in Nat /\ WORD_BYTES * BYTE_BITS \in Nat
    BY <1>2, <1>4
  <2>2. (WORD_BYTES - r) * BYTE_BITS = WORD_BYTES * BYTE_BITS - r * BYTE_BITS
    BY <1>2, <1>4
  <2>3. QED
    BY <1>5, <2>1, <2>2 DEF WordBits
<1>7. Intra(h, s) \in Nat /\ Intra(h, s) < WordBits + U8
  BY <1>3, <1>4, <1>5, <1>6
<1>8. device_offset(h) * BYTE_BITS = b * BYTE_BITS + r * BYTE_BITS /\ b * BYTE_BITS \in Nat
  BY <1>1, <1>2, <1>5 DEF b, r
<1>9. device_offset(h) * BYTE_BITS + s.bit_offset = b * BYTE_BITS + Intra(h, s)
  BY <1>3, <1>4, <1>5, <1>8
<1>10. QED
  BY <1>1, <1>3, <1>7, <1>9 DEF b

\* The end of a slice that a number holds does not wrap, so the slice lies in its
\* chunk, and that chunk is no longer than a number.
LEMMA SliceInChunk ==
  ASSUME AddressTypeOK, PlacesOK, NEW h \in Handle, Positioned(h),
         NEW s \in Slice, FitsWindow(h, s), FitsNumber(s)
  PROVE  /\ BaseByte(h) \in Nat /\ ChunkBytes(h, s) \in Nat /\ DeviceOf(h) \in Device
         /\ Intra(h, s) \in Nat /\ s.bit_len \in Nat \ {0}
         /\ Intra(h, s) + s.bit_len <= ChunkBytes(h, s) * BYTE_BITS
         /\ ChunkBytes(h, s) * BYTE_BITS \in Nat /\ ChunkBytes(h, s) * BYTE_BITS <= 2 * WordBits
         /\ WordBits \in Nat
         /\ device_offset(h) * BYTE_BITS + s.bit_offset = BaseByte(h) * BYTE_BITS + Intra(h, s)
<1>1. /\ BaseByte(h) \in Nat /\ DeviceOf(h) \in Device
      /\ Intra(h, s) \in Nat /\ s.bit_len \in Nat \ {0} /\ Intra(h, s) < WordBits + U8
      /\ device_offset(h) * BYTE_BITS + s.bit_offset = BaseByte(h) * BYTE_BITS + Intra(h, s)
  BY SlicePlace
<1>2. /\ BYTE_BITS \in Nat \ {0} /\ WORD_BYTES \in Nat \ {0} /\ U8 \in Nat /\ U16 \in Nat
      /\ WordBits \in Nat /\ U8 + 3 * WordBits <= U16
      /\ (2 * WORD_BYTES) * BYTE_BITS = 2 * WordBits /\ WORD_BYTES * BYTE_BITS = WordBits
  BY DataAssumption DEF WordBits
<1> DEFINE end == Intra(h, s) + s.bit_len
<1>3. end \in 0 .. U16 - 1
  BY <1>1, <1>2 DEF FitsNumber
<1>4. SliceEnd(h, s) = end
  <2> HIDE DEF end
  <2>1. end % U16 = end
    BY <1>2, <1>3
  <2>2. QED
    BY <2>1 DEF SliceEnd, end
<1>5. end <= 2 * WordBits
  BY <1>4 DEF FitsWindow
<1>6. ChunkBytes(h, s) = IF end > WordBits THEN 2 * WORD_BYTES ELSE WORD_BYTES
  BY <1>4 DEF ChunkBytes
<1> HIDE DEF end
<1>7. ChunkBytes(h, s) * BYTE_BITS = IF end > WordBits THEN 2 * WordBits ELSE WordBits
  BY <1>2, <1>6
<1>8. end <= ChunkBytes(h, s) * BYTE_BITS
  BY <1>2, <1>3, <1>5, <1>7
<1>9. QED
  BY <1>1, <1>2, <1>6, <1>7, <1>8 DEF end

-----------------------------------------------------------------------------
\* read_bits.

\* Bit k of a slice, as the chunk counts its bits.
SliceBit(e, intra, len, k) == IF e = "Little" THEN intra + k ELSE intra + len - 1 - k

\* A read of bits whose slice no other handle has touched gives the value the
\* device holds: extracting it from the chunk undoes the byte order twice.
LEMMA ReadBitsValue ==
  ASSUME DataInv, StaleOnlyByOthers, NEW h \in Handle, NEW s \in Slice, ReadBits(h, s),
         FitsNumber(s), SliceBytes(Where(h, s)) \cap foreign'[h] = {}
  PROVE  last'.value = SliceValue(Where(h, s))
<1> DEFINE c == EnsureSlice(h, s)
           d == DeviceOf(h)
           base == BaseByte(h)
           n == ChunkBytes(h, s)
           intra == Intra(h, s)
           len == s.bit_len
           e == EndianOf[d]
           w == Where(h, s)
<1>1. Positioned(h) /\ FitsWindow(h, s) /\ (Cached(h, s) \/ Loadable(h, s))
  BY DEF ReadBits, Available
<1>2. /\ base \in Nat /\ n \in Nat /\ d \in Device /\ intra \in Nat /\ len \in Nat \ {0}
      /\ intra + len <= n * BYTE_BITS
      /\ n * BYTE_BITS \in Nat /\ n * BYTE_BITS <= 2 * WordBits /\ WordBits \in Nat
      /\ device_offset(h) * BYTE_BITS + s.bit_offset = base * BYTE_BITS + intra
  BY <1>1, SliceInChunk DEF DataInv
<1>3. c.device_id = d /\ c.base_byte = base /\ c.length = n
  BY <1>1, EnsuredChunk DEF Matches
<1>4. FreshBut(c, foreign'[h])
  BY <1>1, EnsuredFresh DEF ReadBits, DataInv
<1>5. BYTE_BITS \in Nat \ {0} /\ base * BYTE_BITS \in Nat /\ n * BYTE_BITS \in Nat
  BY <1>2, DataAssumption
<1>6. w.device_id = d /\ w.slice.bit_len = len /\ FirstBit(w) = base * BYTE_BITS + intra
  BY <1>2 DEF Where, FirstBit
<1>7. last'.value = [k \in 0 .. len - 1 |->
                       ChunkValue(c)[(IF e = "Little" THEN intra ELSE n * BYTE_BITS - (intra + len)) + k]]
  <2> DEFINE by == IF e = "Little" THEN intra ELSE n * BYTE_BITS - (intra + len)
  <2>1. last'.value = Shifted(c, by, len)
    BY <1>3 DEF ReadBits, extract_target_bits
  <2> HIDE DEF c, n, intra, len, e
  <2>2. by \in Nat /\ by + len <= n * BYTE_BITS
    BY <1>2
  <2>3. by \in 0 .. 2 * WordBits - 1
    BY <1>2, <2>2
  <2> HIDE DEF by
  <2>4. by % (2 * WordBits) = by
    BY <1>2, <2>3
  <2>5. AtMost(len, 2 * WordBits) = len
    BY DEF AtMost, FitsNumber, len
  <2>6. \A k \in 0 .. len - 1 : by + k < c.length * BYTE_BITS
    BY <1>2, <1>3, <2>2
  <2>7. Shifted(c, by, len) = [k \in 0 .. len - 1 |-> ChunkValue(c)[by + k]]
    BY <2>4, <2>5, <2>6 DEF Shifted
  <2>8. QED
    BY <2>1, <2>7 DEF by
<1>8. SliceValue(w) = [k \in 0 .. len - 1 |->
                         DeviceBit(d, IF e = "Little" THEN FirstBit(w) + k ELSE FirstBit(w) + len - 1 - k)]
  BY <1>6 DEF SliceValue
<1>9. ASSUME NEW x \in 0 .. len - 1
      PROVE  <<d, (FirstBit(w) + x) \div BYTE_BITS>> \notin foreign'[h]
  <2>1. FirstBit(w) + x \in SliceBits(w)
    BY <1>2, <1>5, <1>6 DEF SliceBits
  <2>2. <<d, (FirstBit(w) + x) \div BYTE_BITS>> \in SliceBytes(w)
    BY <1>6, <2>1 DEF SliceBytes
  <2>3. QED
    BY <2>2
<1> HIDE DEF c, d, base, n, intra, len, e, w
<1>10. ASSUME NEW k \in 0 .. len - 1
       PROVE  ChunkValue(c)[(IF e = "Little" THEN intra ELSE n * BYTE_BITS - (intra + len)) + k]
                = DeviceBit(d, IF e = "Little" THEN FirstBit(w) + k ELSE FirstBit(w) + len - 1 - k)
  <2> DEFINE m == SliceBit(e, intra, len, k)
             q == m \div BYTE_BITS
             r == m % BYTE_BITS
  <2>1. m \in Nat /\ m < n * BYTE_BITS /\ m - intra \in 0 .. len - 1
    BY <1>2, <1>5 DEF SliceBit
  <2>2. /\ (IF e = "Little" THEN FirstBit(w) + k ELSE FirstBit(w) + len - 1 - k) = base * BYTE_BITS + m
        /\ FirstBit(w) + (m - intra) = base * BYTE_BITS + m
        /\ (IF e = "Little" THEN intra ELSE n * BYTE_BITS - (intra + len)) + k
             = IF e = "Little" THEN m ELSE n * BYTE_BITS - 1 - m
    BY <1>2, <1>5, <1>6 DEF SliceBit
  <2>3. /\ q \in 0 .. n - 1
        /\ ChunkValue(c)[IF e = "Little" THEN m ELSE n * BYTE_BITS - 1 - m]
              = c.bytes[q][IF e = "Little" THEN r ELSE BYTE_BITS - 1 - r]
    BY <1>2, <1>3, <2>1, ChunkBit DEF e
  <2>4. /\ DeviceBit(d, base * BYTE_BITS + m)
              = memory[d][base + q][IF e = "Little" THEN r ELSE BYTE_BITS - 1 - r]
        /\ (base * BYTE_BITS + m) \div BYTE_BITS = base + q
    BY <1>2, <2>1, MemoryBit DEF e
  <2> HIDE DEF m, q, r
  <2>5. c.bytes[q] = memory[d][base + q]
    BY <1>3, <1>4, <1>9, <2>1, <2>2, <2>3, <2>4 DEF FreshBut
  <2>6. QED
    BY <2>2, <2>3, <2>4, <2>5
<1>11. QED
  BY <1>7, <1>8, <1>10 DEF w

\* Only read_bits and write_bits leave a bit access behind.
LEMMA LastAccess ==
  ASSUME AnyStep
  PROVE  \/ UNCHANGED dataVars
         \/ last'.op \notin {"read_bits", "write_bits"}
         \/ \E h \in Handle, s \in Slice : ReadBits(h, s) /\ last'.op = "read_bits"
         \/ \E h \in Handle : StoreBits(h) /\ last'.op = "write_bits"
<1>1. CASE RemapBus \/ (\E h \in Handle : MoveAnywhere(h)) \/ UNCHANGED vars
  BY <1>1 DEF RemapBus, MoveAnywhere, vars
<1>2. ASSUME NEW h \in Handle, NEW n \in Nat, Read(h, n) \/ \E bit \in Bit : Write(h, n, Filled(n, bit))
      PROVE  last'.op \notin {"read_bits", "write_bits"}
  BY <1>2 DEF Read, Write
<1>3. ASSUME NEW h \in Handle, NEW s \in Slice,
             RejectWriteBits(h, s) \/ \E value \in Values : BeginWriteBits(h, s, value)
      PROVE  last'.op \notin {"read_bits", "write_bits"}
  BY <1>3 DEF RejectWriteBits, BeginWriteBits
<1>4. ASSUME NEW h \in Handle, NEW s \in Slice, ReadBits(h, s)
      PROVE  last'.op = "read_bits"
  BY <1>4 DEF ReadBits
<1>5. ASSUME NEW h \in Handle, StoreBits(h)
      PROVE  last'.op = "write_bits"
  BY <1>5 DEF StoreBits
<1>6. QED
  BY <1>1, <1>2, <1>3, <1>4, <1>5 DEF AnyStep, AnyCall

\* What the last read gave stays exact until another handle writes the slice.
LEMMA ReadStep ==
  DataInv /\ StaleOnlyByOthers /\ ReadsTheSlice /\ AnyStep => ReadsTheSlice'
<1> SUFFICES ASSUME DataInv, StaleOnlyByOthers, ReadsTheSlice, AnyStep PROVE ReadsTheSlice'
  OBVIOUS
<1>1. CASE UNCHANGED dataVars
  <2>1. memory' = memory /\ last' = last /\ foreign' = foreign
    BY <1>1 DEF dataVars
  <2>2. SliceValue(last.where)' = SliceValue(last.where)
    BY <2>1 DEF SliceValue, DeviceBit, FirstBit
  <2>3. SliceBytes(last.where)' = SliceBytes(last.where)
    BY <2>1 DEF SliceBytes, SliceBits, FirstBit
  <2>4. FitsNumber(last.where.slice)' = FitsNumber(last.where.slice)
    BY <2>1 DEF FitsNumber, WordBits
  <2>5. QED
    BY <2>1, <2>2, <2>3, <2>4 DEF ReadsTheSlice
<1>2. ASSUME NEW h \in Handle, NEW s \in Slice, ReadBits(h, s)
      PROVE  ReadsTheSlice'
  <2>1. PICK w : w = Where(h, s)
    OBVIOUS
  <2>2. last'.where = w /\ w.handle = h /\ memory' = memory
    BY <1>2, <2>1 DEF ReadBits, Where
  <2>3. FitsNumber(s) /\ SliceBytes(w) \cap foreign'[h] = {} => last'.value = SliceValue(w)
    BY <1>2, <2>1, ReadBitsValue
  <2>4. SliceValue(last.where)' = SliceValue(w)
    BY <2>2 DEF SliceValue, DeviceBit, FirstBit
  <2>5. SliceBytes(last.where)' = SliceBytes(w)
    BY <2>2 DEF SliceBytes, SliceBits, FirstBit
  <2>6. FitsNumber(last.where.slice)' => FitsNumber(s)
    BY <2>1, <2>2 DEF Where, FitsNumber, WordBits
  <2>7. QED
    BY <2>2, <2>3, <2>4, <2>5, <2>6 DEF ReadsTheSlice
<1>3. QED
  BY <1>1, <1>2, LastAccess DEF ReadsTheSlice

\* read_bits returns the bits of a slice that a number holds, on either
\* endianness, wherever the slice lies in its words and whether its chunk was cached or loaded, unless
\* another handle wrote the cached bytes.
THEOREM ReadBitsExact == Spec => []ReadsTheSlice
<1>1. Init => ReadsTheSlice
  BY DEF Init, ReadsTheSlice
<1>2. QED
  BY <1>1, ReadStep, NextIsStep, DataInvariant, CacheStaleOnlyByOthers, PTL DEF Spec

-----------------------------------------------------------------------------
\* write_bits.

\* Enough whole bytes hold a value.
LEMMA ValueBytes ==
  ASSUME NEW len \in Nat \ {0}
  PROVE  bytes_for_len(len) \in Nat /\ len <= bytes_for_len(len) * BYTE_BITS
<1> DEFINE x == len + BYTE_BITS - 1
           q == x \div BYTE_BITS
<1>1. BYTE_BITS \in Nat \ {0} /\ x \in Nat
  BY DataAssumption
<1>2. q \in Nat /\ x % BYTE_BITS \in 0 .. BYTE_BITS - 1 /\ x = q * BYTE_BITS + (x % BYTE_BITS)
  BY <1>1, DivMod
<1>3. bytes_for_len(len) = q
  BY DEF bytes_for_len
<1> HIDE DEF q
<1>4. q * BYTE_BITS \in Nat
  BY <1>1, <1>2
<1>5. QED
  BY <1>1, <1>2, <1>3, <1>4

\* A value written in little-endian bytes and read back is the value.
LEMMA ValueBack ==
  ASSUME NEW len \in Nat \ {0}, NEW value, NEW k \in 0 .. len - 1
  PROVE  decode_bits("Little", encode_bits("Little", value, len, bytes_for_len(len)),
                     bytes_for_len(len), len)[k] = value[k]
<1> DEFINE nb == bytes_for_len(len)
           q == k \div BYTE_BITS
           r == k % BYTE_BITS
           enc == encode_bits("Little", value, len, nb)
<1>1. BYTE_BITS \in Nat \ {0} /\ nb \in Nat /\ len <= nb * BYTE_BITS /\ nb * BYTE_BITS \in Nat
  BY DataAssumption, ValueBytes
<1>2. k \in Nat /\ k < nb * BYTE_BITS
  BY <1>1
<1>3. q \in 0 .. nb - 1
  BY <1>1, <1>2, MirroredBit
<1>4. r \in 0 .. BYTE_BITS - 1 /\ k = q * BYTE_BITS + r
  BY <1>1, <1>2, DivMod
<1>5. decode_bits("Little", enc, nb, len)[k] = enc[q][r]
  <2> HIDE DEF nb, enc
  <2>1. k \in 0 .. nb * BYTE_BITS - 1
    BY <1>1, <1>2
  <2>2. decode_bytes("Little", enc, nb)[k] = enc[q][r]
    BY <2>1 DEF decode_bytes, ByteAt
  <2>3. QED
    BY <2>2 DEF decode_bits
<1> HIDE DEF nb, q, r
<1>6. enc[q][r] = value[k]
  BY <1>3, <1>4 DEF encode_bits, ByteAt
<1>7. QED
  BY <1>5, <1>6 DEF nb

\* The chunk write_bits puts back on a little-endian device: the value in the
\* slice, and what the chunk held around it.
LEMMA UpdatedBit ==
  ASSUME NEW c, NEW n \in Nat, c.length = n, EndianOf[c.device_id] = "Little",
         NEW offset \in Nat, NEW len \in Nat \ {0}, NEW value,
         NEW m \in Nat, m < n * BYTE_BITS
  PROVE  UpdatedChunk(c, offset, len, value)[m \div BYTE_BITS][m % BYTE_BITS]
           = IF offset <= m /\ m < offset + len THEN value[m - offset] ELSE ChunkValue(c)[m]
<1> DEFINE q == m \div BYTE_BITS
           r == m % BYTE_BITS
           value_bits == decode_bits("Little", encode_bits("Little", value, len, bytes_for_len(len)),
                                     bytes_for_len(len), len)
           merged == Merged(c, offset, len, value_bits)
<1>1. BYTE_BITS \in Nat \ {0} /\ n * BYTE_BITS \in Nat /\ m \in 0 .. n * BYTE_BITS - 1
  BY DataAssumption
<1>2. q \in 0 .. n - 1
  BY <1>1, MirroredBit
<1>3. r \in 0 .. BYTE_BITS - 1 /\ m = q * BYTE_BITS + r
  BY <1>1, DivMod
<1>4. UpdatedChunk(c, offset, len, value) = encode_bits("Little", merged, n * BYTE_BITS, n)
  BY DEF UpdatedChunk
<1>5. merged[m] = IF offset <= m /\ m < offset + len THEN value_bits[m - offset] ELSE ChunkValue(c)[m]
  BY <1>1 DEF Merged, InMask
<1>6. offset <= m /\ m < offset + len => value_bits[m - offset] = value[m - offset]
  <2>1. offset <= m /\ m < offset + len => m - offset \in 0 .. len - 1
    OBVIOUS
  <2>2. QED
    BY <2>1, ValueBack
<1> HIDE DEF q, r, value_bits, merged
<1>7. encode_bits("Little", merged, n * BYTE_BITS, n)[q][r] = merged[m]
  BY <1>1, <1>2, <1>3 DEF encode_bits, ByteAt
<1>8. QED
  BY <1>4, <1>5, <1>6, <1>7 DEF q, r

\* What StoreBits by h does to the device.
Stored(h, w, c) ==
  /\ Store(h, c.device_id, c.base_byte, c.length,
           UpdatedChunk(c, Intra(h, w.slice), w.slice.bit_len, w.value))
  /\ last' = [op |-> "write_bits", where |-> Where(h, w.slice), value |-> w.value]

\* The slice lies in the chunk that write_bits puts back, at the same bits.
LEMMA StoredSlice ==
  ASSUME DataInv, NEW h \in Handle, NEW w \in storing[h], NEW c \in cache[h]
  PROVE  LET where == Where(h, w.slice)
         IN  /\ c.device_id \in Device /\ c.base_byte \in Nat /\ c.length \in Nat
             /\ c.base_byte + c.length <= SizeOf[c.device_id] /\ SizeOf[c.device_id] \in Nat
             /\ where.device_id = c.device_id /\ where.handle = h
             /\ where.slice.bit_len \in Nat \ {0} /\ where.slice = w.slice
             /\ Intra(h, w.slice) \in Nat
             /\ Intra(h, w.slice) + where.slice.bit_len <= c.length * BYTE_BITS
             /\ FirstBit(where) = c.base_byte * BYTE_BITS + Intra(h, w.slice)
<1>1. /\ w.slice \in Slice /\ Positioned(h) /\ FitsWindow(h, w.slice) /\ FitsNumber(w.slice)
      /\ Matches(c, h, w.slice)
  BY DEF DataInv, StoringOK, Available
<1>2. /\ Intra(h, w.slice) \in Nat /\ w.slice.bit_len \in Nat \ {0}
      /\ Intra(h, w.slice) + w.slice.bit_len <= ChunkBytes(h, w.slice) * BYTE_BITS
      /\ device_offset(h) * BYTE_BITS + w.slice.bit_offset
           = BaseByte(h) * BYTE_BITS + Intra(h, w.slice)
  BY <1>1, SliceInChunk DEF DataInv
<1>3. ChunkOK(c) /\ SizeOf[c.device_id] \in Nat
  BY MapAssumption DEF DataInv, ChunkOK
<1>4. QED
  BY <1>1, <1>2, <1>3 DEF Matches, ChunkOK, Where, FirstBit

\* A bit of that chunk afterwards.
LEMMA StoredBit ==
  ASSUME DataInv, NEW h \in Handle, NEW w \in storing[h], NEW c \in cache[h], Stored(h, w, c),
         EndianOf[c.device_id] = "Little",
         NEW m \in Nat, m < c.length * BYTE_BITS
  PROVE  DeviceBit(c.device_id, c.base_byte * BYTE_BITS + m)'
           = IF Intra(h, w.slice) <= m /\ m < Intra(h, w.slice) + w.slice.bit_len
             THEN w.value[m - Intra(h, w.slice)]
             ELSE ChunkValue(c)[m]
<1> DEFINE d == c.device_id
           base == c.base_byte
           n == c.length
           intra == Intra(h, w.slice)
           len == w.slice.bit_len
           data == UpdatedChunk(c, intra, len, w.value)
           q == m \div BYTE_BITS
           r == m % BYTE_BITS
<1>1. /\ d \in Device /\ base \in Nat /\ n \in Nat /\ base + n <= SizeOf[d] /\ SizeOf[d] \in Nat
      /\ len \in Nat \ {0} /\ intra \in Nat
  BY StoredSlice
<1>2. BYTE_BITS \in Nat \ {0}
  BY DataAssumption
<1>3. q \in 0 .. n - 1
  BY <1>1, <1>2, MirroredBit
<1>4. data[q][r] = IF intra <= m /\ m < intra + len THEN w.value[m - intra] ELSE ChunkValue(c)[m]
  BY <1>1, UpdatedBit
<1>5. /\ (base * BYTE_BITS + m) \div BYTE_BITS = base + q
      /\ (base * BYTE_BITS + m) % BYTE_BITS = r
  BY <1>1, <1>2, ShiftedBit
<1>6. DeviceBit(d, base * BYTE_BITS + m)' = memory'[d][base + q][r]
  BY <1>5 DEF DeviceBit
<1>7. memory' = [memory EXCEPT ![d] = [i \in DOMAIN memory[d] |->
                   IF base <= i /\ i < base + n THEN data[i - base] ELSE memory[d][i]]]
  BY DEF Stored, Store
<1>8. DOMAIN memory = Device /\ DOMAIN memory[d] = 0 .. SizeOf[d] - 1
  BY <1>1 DEF DataInv
<1> HIDE DEF d, base, n, intra, len, data, q, r
<1>9. /\ base + q \in 0 .. SizeOf[d] - 1 /\ base <= base + q /\ base + q < base + n
      /\ (base + q) - base = q
  BY <1>1, <1>3
<1>10. memory'[d][base + q] = data[q]
  BY <1>1, <1>7, <1>8, <1>9
<1>11. QED
  BY <1>4, <1>6, <1>10 DEF d, base, intra, len

\* The second half of a write leaves the value in the slice of the device,
\* when that device is little endian.
LEMMA WriteValue ==
  ASSUME DataInv, NEW h \in Handle, NEW w \in storing[h], NEW c \in cache[h], Stored(h, w, c)
  PROVE  WritesTheSlice'
<1> SUFFICES ASSUME OnLittle(Where(h, w.slice)), NEW k \in 0 .. w.slice.bit_len - 1
             PROVE  SliceValue(last.where)'[k] = w.value[k]
  <2>1. last'.where = Where(h, w.slice) /\ last'.value = w.value
    BY DEF Stored
  <2>2. OnLittle(last.where)' <=> OnLittle(Where(h, w.slice))
    BY <2>1 DEF OnLittle
  <2>3. last'.where.slice = w.slice
    BY <2>1 DEF Where
  <2>4. QED
    BY <2>1, <2>2, <2>3 DEF WritesTheSlice, SliceHolds
<1>1. PICK where, intra : where = Where(h, w.slice) /\ intra = Intra(h, w.slice)
  OBVIOUS
<1> DEFINE d == c.device_id
           base == c.base_byte
           len == w.slice.bit_len
<1>2. /\ base \in Nat /\ c.length \in Nat /\ intra \in Nat /\ len \in Nat \ {0}
      /\ intra + len <= c.length * BYTE_BITS /\ c.length * BYTE_BITS \in Nat
      /\ base * BYTE_BITS \in Nat
      /\ where.device_id = d /\ where.slice = w.slice
      /\ FirstBit(where) = base * BYTE_BITS + intra
  BY <1>1, StoredSlice, DataAssumption
<1>3. last'.where = where /\ EndianOf[d] = "Little"
  BY <1>1, <1>2 DEF Stored, OnLittle
<1>4. SliceValue(last.where)'[k] = DeviceBit(d, FirstBit(where) + k)'
  BY <1>2, <1>3 DEF SliceValue, FirstBit
<1> HIDE DEF d, base, len
<1>5. PICK m \in Nat : m = intra + k
  BY <1>2 DEF len
<1>6. /\ FirstBit(where) + k = base * BYTE_BITS + m
      /\ m < c.length * BYTE_BITS
      /\ intra <= m /\ m < intra + len /\ m - intra = k
  BY <1>2, <1>5 DEF len
<1>7. DeviceBit(d, base * BYTE_BITS + m)' = w.value[m - intra]
  BY <1>1, <1>3, <1>6, StoredBit DEF d, base, len
<1>8. DeviceBit(d, FirstBit(where) + k)' = DeviceBit(d, base * BYTE_BITS + m)'
  BY <1>6 DEF DeviceBit, FirstBit, base, d
<1>9. QED
  BY <1>4, <1>6, <1>7, <1>8

\* The value stays in the slice as long as the write is the last access.
LEMMA WriteStep ==
  DataInv /\ WritesTheSlice /\ AnyStep => WritesTheSlice'
<1> SUFFICES ASSUME DataInv, WritesTheSlice, AnyStep PROVE WritesTheSlice'
  OBVIOUS
<1>1. CASE UNCHANGED dataVars
  <2>1. memory' = memory /\ last' = last
    BY <1>1 DEF dataVars
  <2>2. SliceValue(last.where)' = SliceValue(last.where) /\ OnLittle(last.where)' = OnLittle(last.where)
    BY <2>1 DEF SliceValue, DeviceBit, FirstBit, OnLittle
  <2>3. QED
    BY <2>1, <2>2 DEF WritesTheSlice, SliceHolds
<1>2. ASSUME NEW h \in Handle, StoreBits(h)
      PROVE  WritesTheSlice'
  <2>1. PICK w \in storing[h], c \in cache[h] : Stored(h, w, c)
    BY <1>2 DEF StoreBits, Stored
  <2>2. QED
    BY <2>1, WriteValue
<1>3. QED
  BY <1>1, <1>2, LastAccess DEF WritesTheSlice

\* Once write_bits returns on a little-endian device, the bits of its slice are
\* the value, whatever other handles wrote between its read and its write.
THEOREM WriteBitsLands == Spec => []WritesTheSlice
<1>1. Init => WritesTheSlice
  BY DEF Init, WritesTheSlice
<1>2. QED
  BY <1>1, WriteStep, NextIsStep, DataInvariant, PTL DEF Spec

\* Where bit p lies in a chunk.
LEMMA BitInChunk ==
  ASSUME NEW p \in Nat, NEW base \in Nat, NEW n \in Nat,
         p \div BYTE_BITS >= base, p \div BYTE_BITS < base + n
  PROVE  \E m \in Nat : m < n * BYTE_BITS /\ p = base * BYTE_BITS + m
<1> DEFINE i == (p \div BYTE_BITS) - base
           r == p % BYTE_BITS
           m == i * BYTE_BITS + r
<1>1. BYTE_BITS \in Nat \ {0}
  BY DataAssumption
<1>2. p \div BYTE_BITS \in Nat /\ r \in 0 .. BYTE_BITS - 1 /\ p = (p \div BYTE_BITS) * BYTE_BITS + r
  BY <1>1, DivMod
<1>3. i \in 0 .. n - 1 /\ p \div BYTE_BITS = base + i
  BY <1>2
<1>4. p = (base + i) * BYTE_BITS + r
  BY <1>2, <1>3
<1> HIDE DEF i, r
<1>5. (base + i) * BYTE_BITS = base * BYTE_BITS + i * BYTE_BITS /\ i * BYTE_BITS \in Nat
  BY <1>1, <1>3
<1>6. /\ (n - 1 - i) * BYTE_BITS \in Nat
      /\ n * BYTE_BITS = (n - 1 - i) * BYTE_BITS + i * BYTE_BITS + BYTE_BITS
  BY <1>1, <1>3
<1>7. base * BYTE_BITS \in Nat /\ n * BYTE_BITS \in Nat
  BY <1>1
<1>8. m \in Nat /\ m < n * BYTE_BITS /\ p = base * BYTE_BITS + m
  BY <1>1, <1>2, <1>4, <1>5, <1>6, <1>7
<1>9. QED
  BY <1>8

\* A bit outside the slice keeps its value when the chunk was fresh there.
LEMMA FrameBit ==
  ASSUME DataInv, StaleOnlyByOthers, NEW h \in Handle, NEW w \in storing[h], NEW c \in cache[h],
         Stored(h, w, c), OnLittle(Where(h, w.slice)),
         NEW d \in Device, NEW p \in Nat, p \div BYTE_BITS \in 0 .. SizeOf[d] - 1
  PROVE  \/ DeviceBit(d, p)' = DeviceBit(d, p)
         \/ d = c.device_id /\ p \in SliceBits(Where(h, w.slice))
         \/ <<d, p \div BYTE_BITS>> \in foreign[h]
<1> DEFINE base == c.base_byte
           n == c.length
           byte == p \div BYTE_BITS
           len == w.slice.bit_len
           data == UpdatedChunk(c, Intra(h, w.slice), w.slice.bit_len, w.value)
<1>1. PICK where, intra : where = Where(h, w.slice) /\ intra = Intra(h, w.slice)
  OBVIOUS
<1>2. /\ c.device_id \in Device /\ base \in Nat /\ n \in Nat /\ intra \in Nat /\ len \in Nat \ {0}
      /\ where.device_id = c.device_id /\ where.slice = w.slice
      /\ FirstBit(where) = base * BYTE_BITS + intra
  BY <1>1, StoredSlice
<1>3. EndianOf[c.device_id] = "Little"
  BY <1>1, <1>2 DEF OnLittle
<1>4. BYTE_BITS \in Nat \ {0} /\ base * BYTE_BITS \in Nat
  BY <1>2, DataAssumption
<1>5. memory' = [memory EXCEPT ![c.device_id] = [i \in DOMAIN memory[c.device_id] |->
                   IF base <= i /\ i < base + n THEN data[i - base] ELSE memory[c.device_id][i]]]
  BY DEF Stored, Store
<1>6. DOMAIN memory = Device /\ DOMAIN memory[c.device_id] = 0 .. SizeOf[c.device_id] - 1
  BY <1>2 DEF DataInv
<1> HIDE DEF data, byte
<1>7. CASE d # c.device_id \/ ~(base <= byte /\ byte < base + n)
  <2>1. memory'[d][byte] = memory[d][byte]
    BY <1>5, <1>6, <1>7 DEF byte
  <2>2. QED
    BY <2>1 DEF DeviceBit, byte
<1>8. CASE d = c.device_id /\ base <= byte /\ byte < base + n
  <2>1. PICK m \in Nat : m < n * BYTE_BITS /\ p = base * BYTE_BITS + m
    BY <1>2, <1>8, BitInChunk DEF byte
  <2>2. DeviceBit(c.device_id, base * BYTE_BITS + m)'
          = IF intra <= m /\ m < intra + len THEN w.value[m - intra] ELSE ChunkValue(c)[m]
    BY <1>1, <1>3, <2>1, StoredBit
  <2>3. DeviceBit(d, p)' = DeviceBit(c.device_id, base * BYTE_BITS + m)'
    BY <1>8, <2>1 DEF DeviceBit
  <2>4. CASE intra <= m /\ m < intra + len
    <3>1. p \in SliceBits(where)
      BY <1>2, <1>4, <2>1, <2>4 DEF SliceBits
    <3>2. QED
      BY <1>1, <1>8, <3>1
  <2>5. CASE ~(intra <= m /\ m < intra + len)
    <3> DEFINE q == m \div BYTE_BITS
               r == m % BYTE_BITS
    <3>1. q \in 0 .. n - 1 /\ ChunkValue(c)[m] = c.bytes[q][r]
      BY <1>2, <1>3, <2>1, ChunkBit
    <3>2. /\ DeviceBit(c.device_id, base * BYTE_BITS + m) = memory[c.device_id][base + q][r]
          /\ (base * BYTE_BITS + m) \div BYTE_BITS = base + q
      BY <1>2, <1>3, <2>1, MemoryBit
    <3>3. c.bytes[q] = memory[c.device_id][base + q] \/ <<c.device_id, base + q>> \in foreign[h]
      BY <3>1, StaleFresh DEF FreshBut
    <3>4. DeviceBit(d, p) = DeviceBit(c.device_id, base * BYTE_BITS + m)
      BY <1>8, <2>1 DEF DeviceBit
    <3> HIDE DEF q, r
    <3>5. QED
      BY <1>8, <2>1, <2>2, <2>3, <2>5, <3>1, <3>2, <3>3, <3>4
  <2>6. QED
    BY <2>4, <2>5
<1>9. QED
  BY <1>7, <1>8

\* write_bits on a little-endian device changes no bit outside its slice, but
\* in bytes that others wrote after the handle read the chunk.
THEOREM WriteBitsStaysInSlice == Spec => WriteBitsFrame
<1>1. DataInv /\ StaleOnlyByOthers /\ [Next]_vars =>
        [last' # last /\ last'.op = "write_bits" /\ OnLittle(last'.where) =>
           \A d \in Device : \A p \in 0 .. SizeOf[d] * BYTE_BITS - 1 :
             \/ DeviceBit(d, p)' = DeviceBit(d, p)
             \/ d = last'.where.device_id /\ p \in SliceBits(last'.where)
             \/ <<d, p \div BYTE_BITS>> \in foreign[last'.where.handle]]_vars
  <2> SUFFICES ASSUME DataInv, StaleOnlyByOthers, [Next]_vars,
                      last' # last, last'.op = "write_bits", OnLittle(last'.where),
                      NEW d \in Device, NEW p \in 0 .. SizeOf[d] * BYTE_BITS - 1
               PROVE  \/ DeviceBit(d, p)' = DeviceBit(d, p)
                      \/ d = last'.where.device_id /\ p \in SliceBits(last'.where)
                      \/ <<d, p \div BYTE_BITS>> \in foreign[last'.where.handle]
    OBVIOUS
  <2>1. PICK h \in Handle : StoreBits(h)
    BY NextIsStep, LastAccess DEF dataVars
  <2>2. PICK w \in storing[h], c \in cache[h] : Stored(h, w, c)
    BY <2>1 DEF StoreBits, Stored
  <2>3. last'.where = Where(h, w.slice) /\ last'.where.device_id = c.device_id /\ last'.where.handle = h
    BY <2>2, StoredSlice DEF Stored
  <2>4. p \in Nat /\ p \div BYTE_BITS \in 0 .. SizeOf[d] - 1
    <3>1. SizeOf[d] \in Nat /\ BYTE_BITS \in Nat \ {0} /\ p \in Nat /\ p < SizeOf[d] * BYTE_BITS
      BY MapAssumption, DataAssumption
    <3>2. QED
      BY <3>1, MirroredBit
  <2>5. QED
    BY <2>2, <2>3, <2>4, FrameBit
<1>2. QED
  BY <1>1, DataInvariant, CacheStaleOnlyByOthers, PTL DEF Spec, WriteBitsFrame
=============================================================================
