--------------------------- MODULE CoreStateProofs ---------------------------
(***************************************************************************)
(* Proofs about CoreState, for any layout that fits its memory: accesses   *)
(* reach their registers, and on a little-endian snapshot registers that   *)
(* share no bit make a register file.                                      *)
(***************************************************************************)
EXTENDS CoreState, DataHandleProofs

\* The one range of the private bus.
Whole ==
  [bus_start |-> 0, bus_end |-> SizeOf[Memory], device_offset |-> 0,
   device_id |-> Memory, priority |-> DEVICE_PRIORITY]

Stands(at) == active[Core] = {[range |-> Whole, cursor |-> at]}

\* Between the calls on the handle: who is storing, and where the handle stands.
CoreInv ==
  /\ DataInv /\ StaleOnlyByOthers
  /\ ranges = {Whole}
  /\ foreign[Core] = {}
  /\ job.op \in {"new", "idle", "rewind", "read", "write", "store", "zero"}
  /\ job.op # "store" => Idle(Core)
  /\ job.op \in {"read", "write", "store"} =>
       job.register \in DOMAIN Registers /\ Stands(ByteOffset(job.register))
  /\ job.op \in {"read", "write", "store"} => Narrow(job.register)
  /\ job.op = "zero" => Stands(0)
  /\ \A w \in storing[Core] : w.slice = RegisterSlice(job.register) /\ w.value \in Values

-----------------------------------------------------------------------------
\* The layout.

\* Products with a positive number keep the order, in both directions.
LEMMA TimesOrder ==
  ASSUME NEW a \in Int, NEW b \in Int, NEW n \in Nat \ {0}
  PROVE  /\ a * n < b * n => a < b
         /\ a <= b => a * n <= b * n
OBVIOUS

\* The memory is made of whole words.
LEMMA WholeWords ==
  /\ SizeOf[Memory] \in Nat
  /\ \E k \in Nat : SizeOf[Memory] = k * WORD_BYTES
<1>1. SizeOf[Memory] \in Nat
  BY CoreAssumption, MapAssumption
<1>2. PICK total_bits \in 0 .. SizeOf[Memory] * BYTE_BITS : SizeOf[Memory] = Layout!MemorySize(total_bits)
  BY CoreAssumption
<1>3. BYTE_BITS \in Nat \ {0} /\ WORD_BYTES \in Nat \ {0}
  BY DataAssumption
<1> DEFINE len == Layout!byte_len(total_bits)
<1>4. total_bits + BYTE_BITS - 1 \in Nat
  BY <1>1, <1>3
<1>5. len \in Nat
  <2>1. (total_bits + BYTE_BITS - 1) \div BYTE_BITS \in Nat
    BY <1>3, <1>4, DivMod
  <2>2. QED
    BY <2>1 DEF Layout!byte_len, Layout!AtLeast
<1>6. SizeOf[Memory] = IF len = 0 THEN WORD_BYTES ELSE ((len + WORD_BYTES - 1) \div WORD_BYTES) * WORD_BYTES
  BY <1>2 DEF Layout!MemorySize, Layout!align_byte_len
<1> HIDE DEF len
<1>7. (len + WORD_BYTES - 1) \div WORD_BYTES \in Nat
  <2>1. len + WORD_BYTES - 1 \in Nat
    BY <1>3, <1>5
  <2>2. QED
    BY <1>3, <2>1, DivMod
<1>8. CASE len = 0
  BY <1>1, <1>3, <1>6, <1>8
<1>9. CASE len # 0
  BY <1>1, <1>6, <1>7, <1>9
<1>10. QED
  BY <1>8, <1>9

\* Where a register is, in bytes and bits.
LEMMA RegisterPlace ==
  ASSUME NEW n \in DOMAIN Registers
  PROVE  LET s == RegisterSlice(n)
         IN  /\ Registers[n].bit_offset \in Nat /\ Registers[n].bit_len \in Nat \ {0}
             /\ ByteOffset(n) \in Nat /\ s.bit_len = Registers[n].bit_len
             /\ Narrow(n) => s \in Slice
             /\ s.bit_offset \in 0 .. BYTE_BITS - 1
             /\ ByteOffset(n) * BYTE_BITS + s.bit_offset = Registers[n].bit_offset
             /\ Registers[n].bit_offset + Registers[n].bit_len <= SizeOf[Memory] * BYTE_BITS
<1>1. /\ Registers[n].bit_offset \in Nat /\ Registers[n].bit_len \in Nat \ {0}
      /\ BYTE_BITS \in Nat \ {0} /\ SizeOf[Memory] \in Nat
  BY CoreAssumption, DataAssumption, WholeWords
<1>2. /\ Registers[n].bit_offset \div BYTE_BITS \in Nat
      /\ Registers[n].bit_offset % BYTE_BITS \in 0 .. BYTE_BITS - 1
      /\ Registers[n].bit_offset
           = (Registers[n].bit_offset \div BYTE_BITS) * BYTE_BITS + (Registers[n].bit_offset % BYTE_BITS)
  BY <1>1, DivMod
<1>3. Registers[n].bit_offset + Registers[n].bit_len <= SizeOf[Memory] * BYTE_BITS
  <2>1. PICK total_bits \in 0 .. SizeOf[Memory] * BYTE_BITS :
          Registers[n].bit_offset + Registers[n].bit_len <= total_bits
    BY CoreAssumption
  <2>2. SizeOf[Memory] * BYTE_BITS \in Nat
    BY <1>1
  <2>3. QED
    BY <1>1, <2>1, <2>2
<1>4. Narrow(n) => RegisterSlice(n) \in Slice
  <2>1. BYTE_BITS <= U8 /\ U8 \in Nat /\ U16 \in Nat
    BY <1>1, DataAssumption
  <2>2. QED
    BY <1>1, <1>2, <2>1 DEF RegisterSlice, Slice, Narrow
<1>5. QED
  BY <1>1, <1>2, <1>3, <1>4 DEF RegisterSlice, ByteOffset

\* The snapshot's handle on its memory.
LEMMA StandsAt ==
  ASSUME NEW at, Stands(at)
  PROVE  /\ Positioned(Core) /\ DeviceOf(Core) = Memory /\ device_offset(Core) = 0 + at
         /\ bytes_remaining(Core) = SizeOf[Memory] - (0 + at)
<1>1. At(Core) = [range |-> Whole, cursor |-> at] /\ Positioned(Core)
  BY DEF Stands, At, Positioned
<1>2. QED
  BY <1>1 DEF Whole, DeviceOf, device_offset, bytes_remaining, bus_address

\* The bytes an access to a register consumes end inside the memory.
LEMMA RegisterBytes ==
  ASSUME NEW n \in DOMAIN Registers
  PROVE  /\ bits_to_bytes(RegisterSlice(n)) \in Nat
         /\ ByteOffset(n) + bits_to_bytes(RegisterSlice(n)) <= SizeOf[Memory]
<1> DEFINE b == ByteOffset(n)
           size == SizeOf[Memory]
           x == RegisterSlice(n).bit_offset + RegisterSlice(n).bit_len
           y == (x + BYTE_BITS - 1) \div BYTE_BITS
           r == (x + BYTE_BITS - 1) % BYTE_BITS
<1>1. /\ b \in Nat /\ x \in Nat \ {0} /\ b * BYTE_BITS + x <= size * BYTE_BITS
      /\ size \in Nat /\ BYTE_BITS \in Nat \ {0}
  <2>1. /\ b \in Nat /\ RegisterSlice(n).bit_offset \in Nat /\ RegisterSlice(n).bit_len \in Nat \ {0}
        /\ BYTE_BITS \in Nat \ {0} /\ size \in Nat
    BY RegisterPlace, DataAssumption, WholeWords
  <2>2. /\ b * BYTE_BITS + RegisterSlice(n).bit_offset = Registers[n].bit_offset
        /\ Registers[n].bit_offset + RegisterSlice(n).bit_len <= size * BYTE_BITS
    BY RegisterPlace
  <2> HIDE DEF b, size
  <2>3. b * BYTE_BITS \in Nat /\ size * BYTE_BITS \in Nat
    BY <2>1
  <2>4. QED
    BY <2>1, <2>2, <2>3
<1> HIDE DEF b, size, x
<1>2. x + BYTE_BITS - 1 \in Nat
  BY <1>1
<1>3. y \in Nat /\ r \in 0 .. BYTE_BITS - 1 /\ x + BYTE_BITS - 1 = y * BYTE_BITS + r
  BY <1>1, <1>2, DivMod
<1> HIDE DEF y, r
<1>4. (b + y) * BYTE_BITS < (size + 1) * BYTE_BITS
  <2>1. (b + y) * BYTE_BITS = b * BYTE_BITS + y * BYTE_BITS /\ (size + 1) * BYTE_BITS = size * BYTE_BITS + BYTE_BITS
    BY <1>1, <1>3
  <2>2. b * BYTE_BITS \in Nat /\ y * BYTE_BITS \in Nat /\ size * BYTE_BITS \in Nat
    BY <1>1, <1>3
  <2>3. QED
    BY <1>1, <1>3, <2>1, <2>2
<1>5. b + y <= size
  <2>1. b + y < size + 1
    BY <1>1, <1>3, <1>4, TimesOrder
  <2>2. QED
    BY <1>1, <1>3, <2>1
<1>6. QED
  BY <1>3, <1>5 DEF b, size, x, y, bits_to_bytes, bytes_for_len

\* The chunk of a register lies inside the memory, as both the chunk and the
\* memory are made of whole words: a sum that wraps only makes it shorter.
LEMMA RegisterLoadable ==
  ASSUME AddressTypeOK, PlacesOK, NEW n \in DOMAIN Registers, Stands(ByteOffset(n)), Narrow(n)
  PROVE  Loadable(Core, RegisterSlice(n))
<1> DEFINE s == RegisterSlice(n)
           end == Intra(Core, s) + s.bit_len
           q == device_offset(Core) \div WORD_BYTES
           wb == WORD_BYTES * BYTE_BITS
           size == SizeOf[Memory]
<1>1. Core \in Handle /\ s \in Slice /\ WORD_BYTES \in Nat \ {0} /\ BYTE_BITS \in Nat \ {0}
  BY CoreAssumption, RegisterPlace, DataAssumption
<1>2. Positioned(Core) /\ DeviceOf(Core) = Memory /\ device_offset(Core) = ByteOffset(n)
  BY StandsAt, RegisterPlace
<1>3. /\ BaseByte(Core) \in Nat /\ Intra(Core, s) \in Nat /\ s.bit_len \in Nat \ {0}
      /\ device_offset(Core) * BYTE_BITS + s.bit_offset = BaseByte(Core) * BYTE_BITS + Intra(Core, s)
  BY <1>1, <1>2, SlicePlace
<1>4. BaseByte(Core) = q * WORD_BYTES /\ q \in Nat
  BY <1>1, <1>2, RegisterPlace, DivMod DEF BaseByte
<1>5. PICK k \in Nat : size = k * WORD_BYTES
  BY WholeWords
<1>6. BaseByte(Core) * BYTE_BITS + end <= size * BYTE_BITS
  <2>1. /\ ByteOffset(n) * BYTE_BITS + s.bit_offset = Registers[n].bit_offset
        /\ Registers[n].bit_offset + s.bit_len <= size * BYTE_BITS
        /\ Registers[n].bit_offset \in Nat /\ size \in Nat
    BY RegisterPlace, WholeWords
  <2>2. BaseByte(Core) * BYTE_BITS \in Nat /\ size * BYTE_BITS \in Nat
    BY <1>1, <1>3, <2>1
  <2> HIDE DEF s, size
  <2>3. QED
    BY <1>2, <1>3, <2>1, <2>2
<1>7. end \in Nat \ {0}
  BY <1>3
<1>8. ChunkBytes(Core, s) \in {WORD_BYTES, 2 * WORD_BYTES} /\ (~(end > wb) => ChunkBytes(Core, s) = WORD_BYTES)
  <2>1. ChunkBytes(Core, s) = IF end % U16 > wb THEN 2 * WORD_BYTES ELSE WORD_BYTES
    BY DEF ChunkBytes, SliceEnd, WordBits
  <2>2. wb \in Nat /\ U16 \in Nat /\ wb < U16
    BY <1>1, DataAssumption
  <2> HIDE DEF end, wb
  <2>3. ~(end > wb) => end % U16 = end
    BY <1>7, <2>2
  <2>4. QED
    BY <2>1, <2>3
<1> HIDE DEF q, size, end
<1>9. wb \in Nat \ {0} /\ (q * WORD_BYTES) * BYTE_BITS = q * wb /\ (k * WORD_BYTES) * BYTE_BITS = k * wb
  BY <1>1, <1>4
<1> HIDE DEF wb
<1>10. q * wb + end <= k * wb /\ q * wb \in Nat /\ k * wb \in Nat
  BY <1>4, <1>5, <1>6, <1>9
<1>11. CASE end > wb
  <2>1. (q + 1) * wb = q * wb + wb
    BY <1>4, <1>9
  <2>2. (q + 1) * wb < k * wb
    BY <1>7, <1>9, <1>10, <1>11, <2>1
  <2>3. q + 2 <= k
    BY <1>4, <1>9, <2>2, TimesOrder
  <2>4. (q + 2) * WORD_BYTES <= k * WORD_BYTES
    BY <1>1, <1>4, <2>3, TimesOrder
  <2>5. (q + 2) * WORD_BYTES = q * WORD_BYTES + 2 * WORD_BYTES
    BY <1>1, <1>4
  <2>6. QED
    BY <1>1, <1>2, <1>4, <1>5, <1>8, <2>4, <2>5 DEF Loadable, size
<1>12. CASE ~(end > wb)
  <2>1. q * wb < k * wb
    BY <1>7, <1>10
  <2>2. q + 1 <= k
    BY <1>4, <1>9, <2>1, TimesOrder
  <2>3. (q + 1) * WORD_BYTES <= k * WORD_BYTES
    BY <1>1, <1>4, <2>2, TimesOrder
  <2>4. (q + 1) * WORD_BYTES = q * WORD_BYTES + WORD_BYTES
    BY <1>1, <1>4
  <2>5. QED
    BY <1>2, <1>4, <1>5, <1>8, <1>12, <2>3, <2>4 DEF Loadable, size
<1>13. QED
  BY <1>11, <1>12

\* Where a snapshot stands for a register, all of the register is in front of it.
LEMMA RegisterAhead ==
  ASSUME NEW n \in DOMAIN Registers, Stands(ByteOffset(n))
  PROVE  Available(Core, bits_to_bytes(RegisterSlice(n)))
<1>1. Positioned(Core) /\ bytes_remaining(Core) = SizeOf[Memory] - (0 + ByteOffset(n))
  BY StandsAt
<1>2. /\ ByteOffset(n) \in Nat /\ SizeOf[Memory] \in Nat
      /\ bits_to_bytes(RegisterSlice(n)) \in Nat
      /\ ByteOffset(n) + bits_to_bytes(RegisterSlice(n)) <= SizeOf[Memory]
  BY RegisterPlace, RegisterBytes, WholeWords
<1>3. QED
  BY <1>1, <1>2 DEF Available

-----------------------------------------------------------------------------
\* Steps.

\* The one mapped range is the best match of every address, so a jump puts
\* the core's handle exactly where CoreState asked it to go.
LEMMA JumpStands ==
  ASSUME ranges = {Whole}, AddressTypeOK, NEW at \in Nat, Jump(Core, at)
  PROVE  Stands(at)' /\ ranges' = {Whole}
<1>1. PICK r \in Best(ranges, at) :
        /\ active' = [active EXCEPT ![Core] = {[range |-> r, cursor |-> at - r.bus_start]}]
        /\ UNCHANGED ranges
  BY DEF Jump
<1>2. r = Whole /\ at - r.bus_start = at
  BY <1>1 DEF Best, Whole
<1>3. Core \in DOMAIN active
  BY CoreAssumption DEF AddressTypeOK
<1>4. QED
  BY <1>1, <1>2, <1>3 DEF Stands

\* What a snapshot does is what a handle may do.
LEMMA CoreStepIsStep == CoreInv /\ [CoreNext]_coreVars => AnyStep
<1> SUFFICES ASSUME CoreInv, [CoreNext]_coreVars PROVE AnyStep
  OBVIOUS
<1>1. Core \in Handle /\ 0 \in Nat /\ 0 \in Bit /\ SizeOf[Memory] \in Nat
  BY CoreAssumption, WholeWords DEF Bit
<1>2. ASSUME NEW a \in Nat, Jump(Core, a), job.op # "store", UNCHANGED dataVars
      PROVE  AnyStep
  BY <1>1, <1>2 DEF CoreInv, AnyStep, AnyCall, MoveAnywhere
<1>3. CASE Rewind \/ StartZeroize
  BY <1>1, <1>2, <1>3 DEF Rewind, StartZeroize, Ready
<1>4. ASSUME NEW n \in DOMAIN Registers, StartRead(n) \/ StartWrite(n)
      PROVE  AnyStep
  BY <1>2, <1>4, RegisterPlace DEF StartRead, StartWrite, Ready
<1>5. job.op \in {"read", "write"} => RegisterSlice(job.register) \in Slice
  BY RegisterPlace DEF CoreInv
<1>6. CASE FinishRead \/ RefuseWrite \/ \E v \in Values : LoadWrite(v)
  BY <1>1, <1>5, <1>6 DEF FinishRead, RefuseWrite, LoadWrite, AnyStep, AnyCall
<1>7. CASE FinishWrite \/ WriteZeros
  BY <1>1, <1>7 DEF FinishWrite, WriteZeros, AnyStep, AnyCall
<1>8. CASE RefuseRead \/ UNCHANGED coreVars
  BY <1>8 DEF RefuseRead, coreVars, AnyStep
<1>9. QED
  BY <1>3, <1>4, <1>6, <1>7, <1>8 DEF CoreNext

\* CoreInv is inductive: each operation of CoreState starts idle with an
\* empty foreign set and leaves the handle where its bytes ended.
LEMMA CoreInvKept == CoreInv /\ [CoreNext]_coreVars => CoreInv'
<1> SUFFICES ASSUME CoreInv, [CoreNext]_coreVars PROVE CoreInv'
  OBVIOUS
<1>1. DataInv' /\ StaleOnlyByOthers'
  BY CoreStepIsStep, DataInvKept, StaleStep DEF CoreInv
<1>2. Core \in Handle /\ DOMAIN foreign = Handle /\ DOMAIN storing = Handle /\ AddressTypeOK
  BY CoreAssumption DEF CoreInv, DataInv
<1>3. ASSUME NEW a \in Nat, Jump(Core, a), Idle(Core), UNCHANGED dataVars
      PROVE  /\ ranges' = {Whole} /\ foreign'[Core] = {} /\ Idle(Core)'
             /\ Stands(a)'
  BY <1>2, <1>3, JumpStands DEF CoreInv, dataVars, Idle
<1>4. CASE Rewind
  <2>1. Jump(Core, 0) /\ Idle(Core) /\ UNCHANGED dataVars /\ job'.op = "idle"
    BY <1>4 DEF Rewind, Job, CoreInv
  <2>2. QED
    BY <1>1, <1>3, <2>1 DEF CoreInv, Idle
<1>5. CASE StartZeroize
  <2>1. Jump(Core, 0) /\ Idle(Core) /\ UNCHANGED dataVars /\ job'.op = "zero"
    BY <1>5 DEF StartZeroize, Ready, Job, CoreInv
  <2>2. QED
    BY <1>1, <1>3, <2>1 DEF CoreInv, Idle
<1>6. ASSUME NEW n \in DOMAIN Registers, StartRead(n) \/ StartWrite(n)
      PROVE  CoreInv'
  <2>1. Jump(Core, ByteOffset(n)) /\ Idle(Core) /\ UNCHANGED dataVars
    BY <1>6 DEF StartRead, StartWrite, Ready, CoreInv
  <2>2. job'.op \in {"read", "write"} /\ job'.register = n /\ Narrow(job.register)'
    BY <1>6 DEF StartRead, StartWrite, Job, Narrow
  <2>3. /\ ranges' = {Whole} /\ foreign'[Core] = {} /\ Idle(Core)'
        /\ active'[Core] = {[range |-> Whole, cursor |-> ByteOffset(n)]}
    BY <1>3, <2>1, RegisterPlace DEF Stands
  <2>4. Stands(ByteOffset(job.register))'
    BY <2>2, <2>3 DEF Stands, ByteOffset
  <2>5. QED
    BY <1>1, <2>2, <2>3, <2>4 DEF CoreInv, Idle
<1>7. CASE FinishRead
  <2>1. /\ foreign'[Core] = {} /\ ranges' = ranges /\ storing' = storing /\ Idle(Core)
        /\ job'.op = "idle"
    BY <1>2, <1>7 DEF FinishRead, ReadBits, Consume, Access, Job, CoreInv
  <2>2. QED
    BY <1>1, <2>1 DEF CoreInv, Idle
<1>8. ASSUME NEW v \in Values, LoadWrite(v)
      PROVE  CoreInv'
  <2>1. /\ foreign'[Core] = {} /\ ranges' = ranges /\ active' = active
        /\ storing'[Core] = {[slice |-> RegisterSlice(job.register), value |-> v]}
        /\ job'.op = "store" /\ job'.register = job.register /\ job.op = "write"
    BY <1>2, <1>8 DEF LoadWrite, BeginWriteBits, addressVars, Job, CoreInv
  <2>2. Stands(ByteOffset(job.register))' /\ Narrow(job.register)' /\ job.register \in DOMAIN Registers
    BY <2>1 DEF CoreInv, Stands, ByteOffset, Narrow
  <2>3. \A w \in storing'[Core] : w.slice = RegisterSlice(job'.register) /\ w.value \in Values
    BY <2>1 DEF RegisterSlice
  <2>4. QED
    BY <1>1, <2>1, <2>2, <2>3 DEF CoreInv, RegisterSlice
<1>9. CASE FinishWrite
  <2>1. /\ foreign'[Core] = {} /\ ranges' = ranges /\ storing'[Core] = {} /\ job'.op = "idle"
    BY <1>2, <1>9 DEF FinishWrite, StoreBits, Store, Consume, Job, CoreInv
  <2>2. QED
    BY <1>1, <2>1 DEF CoreInv, Idle
<1>10. CASE WriteZeros
  <2>1. /\ foreign'[Core] = {} /\ ranges' = ranges /\ storing' = storing /\ Idle(Core)
        /\ job'.op = "rewind"
    BY <1>2, <1>10 DEF WriteZeros, Write, Store, Consume, Access, Job, CoreInv
  <2>2. QED
    BY <1>1, <2>1 DEF CoreInv, Idle
<1>11. CASE RefuseRead \/ RefuseWrite
  <2>1. /\ foreign'[Core] = {} /\ ranges' = ranges /\ storing' = storing /\ Idle(Core)
        /\ job'.op = "idle"
    <3>1. CASE RefuseRead
      BY <3>1 DEF RefuseRead, vars, dataVars, addressVars, Job, CoreInv
    <3>2. CASE RefuseWrite
      BY <1>2, <3>2 DEF RefuseWrite, RejectWriteBits, addressVars, Access, Job, CoreInv
    <3>3. QED
      BY <1>11, <3>1, <3>2
  <2>2. QED
    BY <1>1, <2>1 DEF CoreInv, Idle
<1>12. CASE UNCHANGED coreVars
  BY <1>1, <1>12 DEF coreVars, vars, addressVars, dataVars, CoreInv, Idle, Stands, RegisterSlice, ByteOffset,
                   Narrow
<1>13. QED
  BY <1>4, <1>5, <1>6, <1>7, <1>8, <1>9, <1>10, <1>11, <1>12 DEF CoreNext

\* Between two calls the snapshot's handle is idle and its cache is fresh; in a
\* call on a register it stands at the register's first byte.
THEOREM CoreInvariant == CoreSpecification => []CoreInv
<1>1. CoreInit => CoreInv
  <2> SUFFICES ASSUME CoreInit PROVE CoreInv
    OBVIOUS
  <2>1. DataInv /\ StaleOnlyByOthers
    BY InitialData DEF CoreInit
  <2>2. ranges = {Whole} /\ foreign[Core] = {} /\ storing[Core] = {} /\ job.op = "new"
    BY CoreAssumption DEF CoreInit, Init, AddressInit, Whole
  <2>3. QED
    BY <2>1, <2>2 DEF CoreInv, Idle
<1>2. QED
  BY <1>1, CoreInvKept, PTL DEF CoreSpecification

\* When read_bits or write_bits of a register starts, the cursor stands in front
\* of all its bytes, and its chunk, if one can hold it, is inside the memory:
\* in every layout that fits the memory CoreState::new allocates.
THEOREM RegistersInReach == CoreSpecification => []RegistersReachable
<1>1. CoreInv => RegistersReachable
  <2> SUFFICES ASSUME CoreInv, job.op \in {"read", "write"}
               PROVE  /\ Available(Core, bits_to_bytes(RegisterSlice(job.register)))
                      /\ FitsWindow(Core, RegisterSlice(job.register)) =>
                           Loadable(Core, RegisterSlice(job.register))
    BY DEF RegistersReachable
  <2>1. PICK n : n = job.register
    OBVIOUS
  <2>2. n \in DOMAIN Registers /\ Stands(ByteOffset(n)) /\ Narrow(n) /\ AddressTypeOK /\ PlacesOK
    BY <2>1 DEF CoreInv, DataInv
  <2>3. QED
    BY <2>1, <2>2, RegisterAhead, RegisterLoadable
<1>2. QED
  BY <1>1, CoreInvariant, PTL

-----------------------------------------------------------------------------
\* The register file.

\* Registers that share no bit: those the cursor placed (CoreSpecProofs!AutoApart)
\* and those at given offsets that do not overlap.
Disjoint ==
  \A m, n \in DOMAIN Registers : m # n =>
    \/ Registers[m].bit_offset + Registers[m].bit_len <= Registers[n].bit_offset
    \/ Registers[n].bit_offset + Registers[n].bit_len <= Registers[m].bit_offset

IsLittle == EndianOf[Memory] = "Little"

FileOK == IsLittle /\ Disjoint

BitOf(n, k) == Registers[n].bit_offset + k

\* A register's bits, in the memory before and after a step.
LEMMA RegisterBit ==
  ASSUME IsLittle, NEW n \in DOMAIN Registers
  PROVE  /\ RegisterBits(n) =
              [k \in 0 .. Registers[n].bit_len - 1 |-> DeviceBit(Memory, BitOf(n, k))]
         /\ RegisterBits(n)' =
              [k \in 0 .. Registers[n].bit_len - 1 |-> DeviceBit(Memory, BitOf(n, k))']
         /\ \A k \in 0 .. Registers[n].bit_len - 1 :
              /\ BitOf(n, k) \in Nat
              /\ BitOf(n, k) \div BYTE_BITS \in 0 .. SizeOf[Memory] - 1
<1> DEFINE w == [device_id |-> Memory, at |-> ByteOffset(n), slice |-> RegisterSlice(n)]
<1>1. /\ w.device_id = Memory /\ w.slice.bit_len = Registers[n].bit_len
      /\ FirstBit(w) = Registers[n].bit_offset
  BY RegisterPlace DEF FirstBit
<1>2. RegisterBits(n) = SliceValue(w) /\ RegisterBits(n)' = SliceValue(w)'
  BY DEF RegisterBits
<1> HIDE DEF w
<1>3. SliceValue(w) = [k \in 0 .. Registers[n].bit_len - 1 |-> DeviceBit(Memory, BitOf(n, k))]
  BY <1>1 DEF SliceValue, IsLittle, BitOf
<1>4. SliceValue(w)' = [k \in 0 .. Registers[n].bit_len - 1 |-> DeviceBit(Memory, BitOf(n, k))']
  BY <1>1 DEF SliceValue, IsLittle, BitOf, DeviceBit
<1>5. ASSUME NEW k \in 0 .. Registers[n].bit_len - 1
      PROVE  /\ BitOf(n, k) \in Nat
             /\ BitOf(n, k) \div BYTE_BITS \in 0 .. SizeOf[Memory] - 1
  <2>1. /\ Registers[n].bit_offset \in Nat /\ Registers[n].bit_len \in Nat
        /\ Registers[n].bit_offset + Registers[n].bit_len <= SizeOf[Memory] * BYTE_BITS
        /\ SizeOf[Memory] \in Nat /\ BYTE_BITS \in Nat \ {0} /\ SizeOf[Memory] * BYTE_BITS \in Nat
    BY RegisterPlace, WholeWords, DataAssumption
  <2>2. BitOf(n, k) \in Nat /\ BitOf(n, k) < SizeOf[Memory] * BYTE_BITS
    BY <2>1 DEF BitOf
  <2>3. QED
    BY <2>1, <2>2, MirroredBit
<1>6. QED
  BY <1>2, <1>3, <1>4, <1>5

\* zeroize: every register is zero.
LEMMA ZeroBits ==
  ASSUME CoreInv, IsLittle, WriteZeros, NEW n \in DOMAIN Registers
  PROVE  RegisterBits(n)' = [k \in 0 .. Registers[n].bit_len - 1 |-> 0]
<1>1. DeviceOf(Core) = Memory /\ device_offset(Core) = 0
  <2>1. Stands(0)
    BY DEF CoreInv, WriteZeros
  <2>2. QED
    BY <2>1, StandsAt
<1>2. DOMAIN memory = Device /\ DOMAIN memory[Memory] = 0 .. SizeOf[Memory] - 1 /\ Memory \in Device
  BY CoreAssumption DEF CoreInv, DataInv
<1>3. SizeOf[Memory] \in Nat /\ BYTE_BITS \in Nat \ {0}
  BY WholeWords, DataAssumption
<1>4. \A i \in 0 .. SizeOf[Memory] - 1 : memory'[Memory][i] = Filled(SizeOf[Memory], 0)[i]
  <2> DEFINE data == Filled(SizeOf[Memory], 0)
  <2>1. memory' = [memory EXCEPT ![Memory] = [i \in DOMAIN memory[Memory] |->
                     IF 0 <= i /\ i < 0 + SizeOf[Memory] THEN data[i - 0] ELSE memory[Memory][i]]]
    BY <1>1 DEF WriteZeros, Write, Store
  <2> HIDE DEF data
  <2>2. \A i \in 0 .. SizeOf[Memory] - 1 : memory'[Memory][i] = data[i]
    BY <1>2, <1>3, <2>1
  <2>3. QED
    BY <2>2 DEF data
<1>5. ASSUME NEW k \in 0 .. Registers[n].bit_len - 1
      PROVE  DeviceBit(Memory, BitOf(n, k))' = 0
  <2> DEFINE q == BitOf(n, k) \div BYTE_BITS
             r == BitOf(n, k) % BYTE_BITS
  <2>1. q \in 0 .. SizeOf[Memory] - 1 /\ BitOf(n, k) \in Nat
    BY RegisterBit
  <2>2. r \in 0 .. BYTE_BITS - 1
    BY <1>3, <2>1, DivMod
  <2>3. DeviceBit(Memory, BitOf(n, k))' = memory'[Memory][q][r]
    BY DEF DeviceBit, IsLittle, BitOf
  <2> HIDE DEF q, r
  <2>4. QED
    BY <1>4, <2>1, <2>2, <2>3 DEF Filled
<1>6. QED
  BY <1>5, RegisterBit

\* Where write_bits of a register writes.
LEMMA RegisterWhere ==
  ASSUME CoreInv, IsLittle, job.op \in {"read", "store"}, NEW n, n = job.register
  PROVE  LET where == Where(Core, RegisterSlice(n))
         IN  /\ n \in DOMAIN Registers
             /\ where.device_id = Memory /\ OnLittle(where) /\ where.handle = Core
             /\ where.slice.bit_len = Registers[n].bit_len
             /\ FirstBit(where) = Registers[n].bit_offset
<1>1. n \in DOMAIN Registers /\ Stands(ByteOffset(n))
  BY DEF CoreInv
<1>2. DeviceOf(Core) = Memory /\ device_offset(Core) = ByteOffset(n)
  BY <1>1, StandsAt, RegisterPlace
<1>3. QED
  BY <1>1, <1>2, RegisterPlace DEF Where, FirstBit, OnLittle, IsLittle

\* write_register: the register becomes some value of its width.
LEMMA WriteLands ==
  ASSUME CoreInv, IsLittle, FinishWrite, NEW n, n = job.register
  PROVE  n \in DOMAIN Registers /\ RegisterBits(n)' \in [0 .. Registers[n].bit_len - 1 -> {0, 1}]
<1>1. PICK w \in storing[Core], c \in cache[Core] : Stored(Core, w, c)
  BY DEF FinishWrite, StoreBits, Stored
<1>2. job.op = "store" /\ w.slice = RegisterSlice(n) /\ w.value \in Values
  BY DEF CoreInv, FinishWrite
<1>3. PICK where : where = Where(Core, RegisterSlice(n))
  OBVIOUS
<1>4. /\ n \in DOMAIN Registers
      /\ where.device_id = Memory /\ OnLittle(where) /\ where.slice.bit_len = Registers[n].bit_len
      /\ FirstBit(where) = Registers[n].bit_offset
  BY <1>2, <1>3, RegisterWhere
<1>5. last'.op = "write_bits" /\ last'.where = where /\ last'.value = w.value
  BY <1>1, <1>2, <1>3 DEF Stored
<1>6. WritesTheSlice'
  BY <1>1, WriteValue, CoreAssumption DEF CoreInv
<1>7. \A k \in 0 .. Registers[n].bit_len - 1 : SliceValue(where)'[k] = w.value[k]
  <2>1. OnLittle(last.where)' /\ SliceValue(last.where)' = SliceValue(where)'
    BY <1>4, <1>5 DEF OnLittle, SliceValue, DeviceBit, FirstBit
  <2>2. QED
    BY <1>4, <1>5, <1>6, <2>1 DEF WritesTheSlice, SliceHolds
<1>8. SliceValue(where)' = [k \in 0 .. Registers[n].bit_len - 1 |-> DeviceBit(Memory, BitOf(n, k))']
  BY <1>4 DEF SliceValue, OnLittle, BitOf, DeviceBit
<1>9. Registers[n].bit_len \in Nat /\ Registers[n].bit_len <= (2 * WORD_BYTES) * BYTE_BITS
  <2>1. FitsNumber(w.slice) /\ w.slice.bit_len = Registers[n].bit_len
    BY <1>1, <1>2, <1>4, RegisterPlace, CoreAssumption DEF CoreInv, DataInv, StoringOK
  <2>2. Registers[n].bit_len \in Nat /\ WORD_BYTES \in Nat /\ BYTE_BITS \in Nat
    BY <1>4, RegisterPlace, DataAssumption
  <2>3. (2 * WORD_BYTES) * BYTE_BITS = 2 * (WORD_BYTES * BYTE_BITS) /\ WORD_BYTES * BYTE_BITS \in Nat
    BY <2>2
  <2>4. QED
    BY <2>1, <2>2, <2>3 DEF FitsNumber, WordBits
<1>10. w.value \in [0 .. (2 * WORD_BYTES) * BYTE_BITS - 1 -> {0, 1}]
  BY <1>2, DataAssumption DEF Bit
<1>11. \A k \in 0 .. Registers[n].bit_len - 1 : w.value[k] \in {0, 1}
  <2>1. (2 * WORD_BYTES) * BYTE_BITS \in Nat
    BY DataAssumption
  <2>2. QED
    BY <1>9, <1>10, <2>1
<1>12. RegisterBits(n)' = SliceValue(where)'
  BY <1>4, <1>8, RegisterBit
<1>13. QED
  BY <1>4, <1>7, <1>8, <1>11, <1>12

\* write_register leaves every other register alone.
LEMMA WriteSpares ==
  ASSUME CoreInv, FileOK, FinishWrite, NEW n \in DOMAIN Registers, n # job.register
  PROVE  RegisterBits(n)' = RegisterBits(n)
<1>1. PICK w \in storing[Core], c \in cache[Core] : Stored(Core, w, c)
  BY DEF FinishWrite, StoreBits, Stored
<1>2. PICK m, where : m = job.register /\ where = Where(Core, RegisterSlice(m))
  OBVIOUS
<1>3. job.op = "store" /\ w.slice = RegisterSlice(m)
  BY <1>2 DEF CoreInv, FinishWrite
<1>4. /\ m \in DOMAIN Registers
      /\ where.device_id = Memory /\ OnLittle(where) /\ where.slice.bit_len = Registers[m].bit_len
      /\ FirstBit(where) = Registers[m].bit_offset
  BY <1>2, <1>3, RegisterWhere DEF FileOK
<1>5. ASSUME NEW k \in 0 .. Registers[n].bit_len - 1
      PROVE  DeviceBit(Memory, BitOf(n, k))' = DeviceBit(Memory, BitOf(n, k))
  <2>1. PICK p \in Nat : p = BitOf(n, k) /\ p \div BYTE_BITS \in 0 .. SizeOf[Memory] - 1
    BY RegisterBit DEF FileOK
  <2>2. p \notin SliceBits(where)
    <3>1. /\ Registers[n].bit_offset \in Nat /\ Registers[n].bit_len \in Nat
          /\ Registers[m].bit_offset \in Nat /\ Registers[m].bit_len \in Nat
      BY <1>4, RegisterPlace
    <3>2. \/ Registers[m].bit_offset + Registers[m].bit_len <= Registers[n].bit_offset
          \/ Registers[n].bit_offset + Registers[n].bit_len <= Registers[m].bit_offset
      BY <1>2, <1>4 DEF FileOK, Disjoint
    <3>3. QED
      BY <1>4, <2>1, <3>1, <3>2 DEF SliceBits, BitOf
  <2>3. DeviceBit(Memory, p)' = DeviceBit(Memory, p)
    <3>1. Core \in Handle /\ Memory \in Device /\ foreign[Core] = {}
      BY CoreAssumption DEF CoreInv
    <3>2. OnLittle(Where(Core, w.slice)) /\ p \notin SliceBits(Where(Core, w.slice))
      BY <1>2, <1>3, <1>4, <2>2
    <3>3. QED
      BY <1>1, <2>1, <3>1, <3>2, FrameBit DEF CoreInv
  <2>4. QED
    BY <2>1, <2>3 DEF DeviceBit, BitOf
<1>6. QED
  BY <1>5, RegisterBit DEF FileOK

\* read_register returns a register that a number holds, and changes none.
LEMMA ReadReturns ==
  ASSUME CoreInv, IsLittle, FinishRead, NEW n, n = job.register
  PROVE  /\ n \in DOMAIN Registers /\ memory' = memory
         /\ FitsNumber(RegisterSlice(n)) => last'.value = RegisterBits(n)
<1>1. job.op = "read" /\ ReadBits(Core, RegisterSlice(n))
  BY DEF FinishRead
<1>2. PICK where : where = Where(Core, RegisterSlice(n))
  OBVIOUS
<1>3. /\ n \in DOMAIN Registers
      /\ where.device_id = Memory /\ OnLittle(where) /\ where.slice.bit_len = Registers[n].bit_len
      /\ FirstBit(where) = Registers[n].bit_offset
  BY <1>1, <1>2, RegisterWhere
<1>4. Core \in Handle /\ Narrow(n) /\ RegisterSlice(n) \in Slice /\ foreign'[Core] = {}
  BY <1>1, <1>3, CoreAssumption, RegisterPlace DEF CoreInv, DataInv, ReadBits
<1>5. FitsNumber(RegisterSlice(n)) => last'.value = SliceValue(where)
  BY <1>1, <1>2, <1>4, ReadBitsValue DEF CoreInv
<1>6. SliceValue(where) = [k \in 0 .. Registers[n].bit_len - 1 |-> DeviceBit(Memory, BitOf(n, k))]
  BY <1>3 DEF SliceValue, OnLittle, BitOf
<1>7. QED
  BY <1>1, <1>3, <1>5, <1>6, RegisterBit DEF ReadBits

\* What an owner who knows only the register file sees.
Held == [n \in DOMAIN Registers |-> RegisterBits(n)]
Got == IF Answered THEN <<job.register, last.value>> ELSE <<>>

\* The contents of the register file depend on the memory alone.
LEMMA SameRegisters ==
  ASSUME memory' = memory
  PROVE  Held' = Held
BY DEF Held, RegisterBits, SliceValue, DeviceBit, FirstBit

\* The abstract steps in these terms.
LEMMA FileSteps ==
  /\ Got' = <<>> /\ Held' = Held => [File!Next]_(File!vars)
  /\ Got' = Got /\ Held' = Held => [File!Next]_(File!vars)
  /\ \A n \in DOMAIN Registers :
       /\ Got' = <<n, RegisterBits(n)>> /\ Held' = Held => [File!Next]_(File!vars)
       /\ /\ Got' = <<>>
          /\ RegisterBits(n)' \in [0 .. Registers[n].bit_len - 1 -> {0, 1}]
          /\ \A m \in DOMAIN Registers \ {n} : RegisterBits(m)' = RegisterBits(m)
          => [File!Next]_(File!vars)
  /\ /\ Got' = <<>>
     /\ \A m \in DOMAIN Registers :
          RegisterBits(m)' = [k \in 0 .. Registers[m].bit_len - 1 |-> 0]
     => [File!Next]_(File!vars)
<1>1. Got' = <<>> /\ Held' = Held => File!Forget
  BY DEF File!Forget, Got, Held
<1>2. Got' = Got /\ Held' = Held => UNCHANGED File!vars
  BY DEF File!vars, Got, Held
<1>3. ASSUME NEW n \in DOMAIN Registers, Got' = <<n, RegisterBits(n)>>, Held' = Held
      PROVE  File!ReadRegister(n)
  BY <1>3 DEF File!ReadRegister, Got, Held
<1>4. ASSUME NEW n \in DOMAIN Registers, Got' = <<>>,
             RegisterBits(n)' \in [0 .. Registers[n].bit_len - 1 -> {0, 1}],
             \A m \in DOMAIN Registers \ {n} : RegisterBits(m)' = RegisterBits(m)
      PROVE  File!WriteRegister(n, RegisterBits(n)')
  <2>1. Held' = [Held EXCEPT ![n] = RegisterBits(n)']
    BY <1>4 DEF Held
  <2>2. QED
    BY <1>4, <2>1 DEF File!WriteRegister, Got, Held
<1>5. ASSUME Got' = <<>>,
             \A m \in DOMAIN Registers :
               RegisterBits(m)' = [k \in 0 .. Registers[m].bit_len - 1 |-> 0]
      PROVE  File!Zeroize
  BY <1>5 DEF File!Zeroize, File!Zero, Got
<1>6. QED
  BY <1>1, <1>2, <1>3, <1>4, <1>5 DEF File!Next

\* Every step of CoreState is a read or a write of one register of the file,
\* or leaves its contents and the value handed out alone.
LEMMA CoreStepImplements ==
  FileOK /\ CoreInv /\ [CoreNext]_coreVars => [File!Next]_(File!vars)
<1> SUFFICES ASSUME FileOK, CoreInv, [CoreNext]_coreVars
             PROVE  [File!Next]_(File!vars)
  OBVIOUS
<1> USE DEF FileOK
<1>1. ASSUME memory' = memory, job'.op # "idle" \/ job'.register = ""
      PROVE  [File!Next]_(File!vars)
  <2>1. Got' = <<>> /\ Held' = Held
    BY <1>1, SameRegisters DEF Got, Answered
  <2>2. QED
    BY <2>1, FileSteps
<1>2. CASE Rewind \/ StartZeroize \/ (\E n \in DOMAIN Registers : StartRead(n) \/ StartWrite(n))
  <2>1. (UNCHANGED dataVars) /\ (job'.op # "idle" \/ job'.register = "")
    <3>1. CASE Rewind
      BY <3>1 DEF Rewind, Job
    <3>2. CASE StartZeroize
      BY <3>2 DEF StartZeroize, Job
    <3>3. ASSUME NEW n \in DOMAIN Registers, StartRead(n) \/ StartWrite(n)
          PROVE  (UNCHANGED dataVars) /\ job'.op # "idle"
      BY <3>3 DEF StartRead, StartWrite, Job
    <3>4. QED
      BY <1>2, <3>1, <3>2, <3>3
  <2>2. QED
    BY <1>1, <2>1 DEF dataVars
<1>3. CASE \E v \in Values : LoadWrite(v)
  BY <1>1, <1>3 DEF LoadWrite, BeginWriteBits, Job
<1>4. CASE RefuseRead
  BY <1>1, <1>4 DEF RefuseRead, Job, vars, dataVars
<1>5. CASE RefuseWrite
  BY <1>1, <1>5 DEF RefuseWrite, RejectWriteBits, Job
<1>6. CASE FinishRead
  <2>1. PICK n : n = job.register
    OBVIOUS
  <2>2. /\ n \in DOMAIN Registers /\ memory' = memory
        /\ FitsNumber(RegisterSlice(n)) => last'.value = RegisterBits(n)
    BY <1>6, <2>1, ReadReturns
  <2>3. job'.op = "idle" /\ job'.register = n /\ last'.op = "read_bits"
    BY <1>6, <2>1 DEF FinishRead, ReadBits, Job
  <2>4. /\ Got' = IF n # "" /\ FitsNumber(RegisterSlice(n)) THEN <<n, RegisterBits(n)>> ELSE <<>>
        /\ Held' = Held
    <3>1. FitsNumber(RegisterSlice(job.register))' <=> FitsNumber(RegisterSlice(n))
      BY <2>3 DEF FitsNumber, RegisterSlice, WordBits
    <3>2. QED
      BY <2>2, <2>3, <3>1, SameRegisters DEF Got, Answered
  <2>5. QED
    BY <2>2, <2>4, FileSteps
<1>7. CASE FinishWrite
  <2>1. PICK n : n = job.register
    OBVIOUS
  <2>2. n \in DOMAIN Registers /\ RegisterBits(n)' \in [0 .. Registers[n].bit_len - 1 -> {0, 1}]
    BY <1>7, <2>1, WriteLands
  <2>3. \A m \in DOMAIN Registers \ {n} : RegisterBits(m)' = RegisterBits(m)
    BY <1>7, <2>1, WriteSpares
  <2>4. Got' = <<>>
    BY <1>7 DEF FinishWrite, StoreBits, Got, Answered
  <2>5. QED
    BY <2>2, <2>3, <2>4, FileSteps
<1>8. CASE WriteZeros
  <2>1. Got' = <<>>
    BY <1>8 DEF WriteZeros, Job, Got, Answered
  <2>2. \A m \in DOMAIN Registers : RegisterBits(m)' = [k \in 0 .. Registers[m].bit_len - 1 |-> 0]
    BY <1>8, ZeroBits
  <2>3. QED
    BY <2>1, <2>2, FileSteps
<1>9. CASE UNCHANGED coreVars
  <2>1. Got' = Got /\ Held' = Held
    BY <1>9, SameRegisters DEF coreVars, vars, dataVars, Got, Answered, FitsNumber, RegisterSlice, WordBits
  <2>2. QED
    BY <2>1, FileSteps
<1>10. QED
  BY <1>2, <1>3, <1>4, <1>5, <1>6, <1>7, <1>8, <1>9 DEF CoreNext

\* CoreState starts with a zeroed register file and nothing read.
LEMMA CoreInitImplements == FileOK /\ CoreInit => File!Init
<1> SUFFICES ASSUME FileOK, CoreInit PROVE File!Init
  OBVIOUS
<1>1. Got = <<>>
  BY DEF CoreInit, Got, Answered
<1>2. ASSUME NEW n \in DOMAIN Registers
      PROVE  RegisterBits(n) = [k \in 0 .. Registers[n].bit_len - 1 |-> 0]
  <2>1. ASSUME NEW k \in 0 .. Registers[n].bit_len - 1
        PROVE  DeviceBit(Memory, BitOf(n, k)) = 0
    <3> DEFINE q == BitOf(n, k) \div BYTE_BITS
               r == BitOf(n, k) % BYTE_BITS
    <3>1. q \in 0 .. SizeOf[Memory] - 1 /\ BitOf(n, k) \in Nat
      BY RegisterBit DEF FileOK
    <3>2. r \in 0 .. BYTE_BITS - 1
      BY <3>1, DivMod, DataAssumption
    <3>3. memory[Memory] = Filled(SizeOf[Memory], 0)
      BY CoreAssumption DEF CoreInit, Init
    <3>4. DeviceBit(Memory, BitOf(n, k)) = memory[Memory][q][r]
      BY DEF DeviceBit, FileOK, IsLittle
    <3> HIDE DEF q, r
    <3>5. QED
      BY <3>1, <3>2, <3>3, <3>4 DEF Filled
  <2>2. QED
    BY <2>1, RegisterBit DEF FileOK
<1>3. QED
  BY <1>1, <1>2 DEF File!Init, File!Zero, Got

\* A little-endian snapshot whose registers share no bit implements a register
\* file: through the jumps, the cache of words and the read-modify-write of
\* write_bits, a read returns what was last written to its register or zero, a
\* write changes one register, and zeroize clears them all.
THEOREM RegisterFileImplemented == FileOK /\ CoreSpecification => ImplementsRegisterFile
<1>1. FileOK /\ CoreInit => File!Init
  BY CoreInitImplements
<1>2. FileOK /\ CoreInv /\ [CoreNext]_coreVars => [File!Next]_(File!vars)
  BY CoreStepImplements
<1>3. FileOK => FileOK'
  BY DEF FileOK, IsLittle, Disjoint
<1>4. QED
  BY <1>1, <1>2, <1>3, CoreInvariant, PTL DEF CoreSpecification, ImplementsRegisterFile, File!Spec
=============================================================================
