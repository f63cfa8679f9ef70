------------------------------ MODULE CoreState ------------------------------
(***************************************************************************)
(* A processor snapshot: src/src/soc/core/state.rs.  Its registers are bit *)
(* slices of one BasicMemory on a private bus, and its one DataHandle does *)
(* every access, so the module composes DataHandle: each operation is the  *)
(* sequence of handle calls the code makes, with job as its program        *)
(* counter.  The layout is one that CoreSpec builds.                       *)
(***************************************************************************)
EXTENDS DataHandle

CONSTANTS
  Core,      \* the snapshot's own handle, the only one
  Memory,    \* the snapshot's own device
  Registers  \* register name -> [bit_offset, bit_len], as CoreSpec placed it

Layout == INSTANCE CoreLayout

\* new: one memory, long enough for the last register (CoreSpec!RegistersBacked)
\* and rounded up to whole words.
ASSUME CoreAssumption ==
  /\ Handle = {Core}
  /\ Device = {Memory}
  /\ InitialRanges = {[bus_start |-> 0, bus_end |-> SizeOf[Memory], device_offset |-> 0,
                       device_id |-> Memory, priority |-> DEVICE_PRIORITY]}
  /\ Contents = [d \in Device |-> Filled(SizeOf[d], 0)]
  /\ Redirects = {}
  /\ \A n \in DOMAIN Registers :
       /\ Registers[n].bit_offset \in Nat
       /\ Registers[n].bit_len \in Nat \ {0}
  /\ \E total_bits \in 0 .. SizeOf[Memory] * BYTE_BITS :
       /\ SizeOf[Memory] = Layout!MemorySize(total_bits)
       /\ \A n \in DOMAIN Registers : Registers[n].bit_offset + Registers[n].bit_len <= total_bits

VARIABLE job  \* the operation under way, with the register it is about

coreVars == <<vars, job>>

\* RegisterLayout::from_spec.
ByteOffset(n) == Registers[n].bit_offset \div BYTE_BITS
RegisterSlice(n) ==
  [bit_offset |-> Registers[n].bit_offset % BYTE_BITS, bit_len |-> Registers[n].bit_len]

\* narrow_bit_len: what is not narrow is refused before anything changes.
Narrow(n) == Registers[n].bit_len < U16

\* Each operation makes one device access; the bound lets every one that
\* began make it.
Ready == job.op = "idle" /\ ops < MaxOps

Job(op, n) == job' = [op |-> op, register |-> n]

\* new: the handle jumps to 0 first.
CoreInit == Init /\ job = [op |-> "new", register |-> ""]

Rewind ==
  /\ job.op \in {"new", "rewind"}
  /\ Jump(Core, 0)
  /\ Job("idle", "")
  /\ UNCHANGED dataVars

\* read_register and read_bits_at.
StartRead(n) ==
  /\ Ready
  /\ Narrow(n)
  /\ Jump(Core, ByteOffset(n))
  /\ Job("read", n)
  /\ UNCHANGED dataVars

FinishRead ==
  /\ job.op = "read"
  /\ ReadBits(Core, RegisterSlice(job.register))
  /\ Job("idle", job.register)

\* write_register and write_bits_at, after a variant that does not jump.
StartWriteHere(n) ==
  /\ Ready
  /\ Narrow(n)
  /\ Job("write", n)
  /\ UNCHANGED vars

StartWrite(n) ==
  /\ Ready
  /\ Narrow(n)
  /\ Jump(Core, ByteOffset(n))
  /\ Job("write", n)
  /\ UNCHANGED dataVars

LoadWrite(v) ==
  /\ job.op = "write"
  /\ BeginWriteBits(Core, RegisterSlice(job.register), v)
  /\ Job("store", job.register)

FinishWrite ==
  /\ job.op = "store"
  /\ StoreBits(Core)
  /\ Job("idle", job.register)

\* zeroize: jump to 0, write zeros over the whole memory, jump to 0.
StartZeroize ==
  /\ Ready
  /\ Jump(Core, 0)
  /\ Job("zero", "")
  /\ UNCHANGED dataVars

\* Variant: one byte short.
WriteFewerZeros ==
  /\ job.op = "zero"
  /\ Write(Core, SizeOf[Memory] - 1, Filled(SizeOf[Memory] - 1, 0))
  /\ Job("rewind", "")

WriteZeros ==
  /\ job.op = "zero"
  /\ Write(Core, SizeOf[Memory], Filled(SizeOf[Memory], 0))
  /\ Job("rewind", "")

\* The handle refuses the slice: the caller gets the error and the snapshot
\* waits for its next call.  A refused read changes nothing.
RefuseRead ==
  LET s == RegisterSlice(job.register)
  IN  /\ job.op = "read"
      /\ ~(Available(Core, bits_to_bytes(s)) /\ FitsWindow(Core, s)
           /\ (Cached(Core, s) \/ Loadable(Core, s)))
      /\ Job("idle", "")
      /\ UNCHANGED vars

\* A slice past the end of the range is not modelled here: RegistersReachable
\* shows that there is none.
RefuseWrite ==
  /\ job.op = "write"
  /\ RejectWriteBits(Core, RegisterSlice(job.register))
  /\ Job("idle", "")

CoreNext ==
  \/ Rewind
  \/ \E n \in DOMAIN Registers : StartRead(n) \/ StartWrite(n)
  \/ FinishRead
  \/ \E v \in Values : LoadWrite(v)
  \/ FinishWrite
  \/ StartZeroize
  \/ WriteZeros
  \/ RefuseRead
  \/ RefuseWrite

CoreSpecification == CoreInit /\ [][CoreNext]_coreVars

-----------------------------------------------------------------------------
\* Properties.

RegisterBits(n) ==
  SliceValue([device_id |-> Memory, at |-> ByteOffset(n), slice |-> RegisterSlice(n)])

\* The last call read a register that a number holds.  read_register also
\* answers for some that are longer, where the sum in SliceEnd wraps.
Answered ==
  /\ job.op = "idle" /\ job.register # "" /\ last.op = "read_bits"
  /\ FitsNumber(RegisterSlice(job.register))

File == INSTANCE RegisterFile WITH
  Width <- [n \in DOMAIN Registers |-> Registers[n].bit_len],
  value <- [n \in DOMAIN Registers |-> RegisterBits(n)],
  got <- IF Answered THEN <<job.register, last.value>> ELSE <<>>

\* The snapshot implements a register file: through the bit-slice cache, the
\* chunked read-modify-write and zeroize, a register that shares no bit with
\* another keeps exactly what was last written to it, and reads return it when
\* a number holds it.
ImplementsRegisterFile == File!Spec

\* A register access reaches its bytes: when read_bits or write_bits starts, the
\* cursor stands in front of all bytes of the register, and unless the register
\* is too wide for any chunk, its chunk is inside the memory.
RegistersReachable ==
  job.op \in {"read", "write"} =>
    LET s == RegisterSlice(job.register)
    IN  /\ Available(Core, bits_to_bytes(s))
        /\ FitsWindow(Core, s) => Loadable(Core, s)
=============================================================================
