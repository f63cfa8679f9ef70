------------------------------ MODULE CoreSpec ------------------------------
(***************************************************************************)
(* The builder of a processor layout: src/src/soc/core/specification.rs.   *)
(* Registers are appended one by one, at the cursor or at an offset the    *)
(* machine description gives, and build sorts them and measures the whole. *)
(* Offsets are u32 and wrap, as a release build wraps them.                *)
(***************************************************************************)
EXTENDS CoreLayout, Sequences

CONSTANTS
  Names,      \* register names
  Widths,     \* arguments bit_len
  Offsets,    \* arguments offset_bytes: sets of at most one number (Option)
  Ordinals,   \* positions in a register range
  U32,        \* 2^32
  MaxCalls    \* bound: registers appended

ASSUME SpecAssumption ==
  /\ BYTE_BITS \in Nat \ {0}
  /\ WORD_BYTES \in Nat \ {0}
  /\ U32 \in Nat \ {0}
  /\ Widths \subseteq 0 .. U32 - 1
  /\ \A o \in Offsets : o \subseteq Nat
  /\ Ordinals \subseteq Nat
  /\ MaxCalls \in Nat

VARIABLES
  phase,      \* "building", "built" or "failed"
  cursor,
  registers,  \* Vec<RegisterSpec>; placed tells how the offset was found
  errors,     \* whether the error list is not empty
  total_bits,
  calls,
  wrapped     \* history: whether an addition left the range of u32

specVars == <<phase, cursor, registers, errors, total_bits, calls, wrapped>>

Wrap(n) == n % U32

RegisterSpec ==
  [name : Names, bit_offset : 0 .. U32 - 1, bit_len : 1 .. U32 - 1, placed : {"auto", "fixed"}]

extent(r) == Wrap(r.bit_offset + r.bit_len)

\* The set of names the builder has seen.
seen == {registers[i].name : i \in 1 .. Len(registers)}

\* register_bit_offset: no offset given, or one that does not fit u32.
register_bit_offset(offset_bytes, ordinal, width) ==
  {bits \in {base * BYTE_BITS + ordinal * width : base \in offset_bytes} : bits < U32}

Init ==
  /\ phase = "building"
  /\ cursor = 0
  /\ registers = <<>>
  /\ errors = FALSE
  /\ total_bits = 0
  /\ calls = 0
  /\ wrapped = FALSE

-----------------------------------------------------------------------------
Call ==
  /\ phase = "building"
  /\ calls < MaxCalls
  /\ calls' = calls + 1
  /\ UNCHANGED <<phase, total_bits>>

\* A width of zero is an error and nothing else happens.
RejectWidth(width) ==
  /\ Call
  /\ width = 0
  /\ errors' = TRUE
  /\ UNCHANGED <<cursor, registers, wrapped>>

\* push_spec: a name seen before is an error, and the register is dropped.
push_spec(name, bit_offset, width, how) ==
  IF name \in seen
  THEN errors' = TRUE /\ UNCHANGED registers
  ELSE /\ registers' = Append(registers, [name |-> name, bit_offset |-> bit_offset,
                                          bit_len |-> width, placed |-> how])
       /\ UNCHANGED errors

\* register: the cursor moves on even when the register was dropped.
Register(name, width) ==
  /\ Call
  /\ width # 0
  /\ push_spec(name, cursor, width, "auto")
  /\ cursor' = Wrap(cursor + width)
  /\ wrapped' = (wrapped \/ cursor + width >= U32)

\* Variant: the cursor stays where it was.
register_aside(name, bit_offset, width) ==
  /\ Call
  /\ width # 0
  /\ push_spec(name, bit_offset, width, "fixed")
  /\ UNCHANGED cursor
  /\ wrapped' = (wrapped \/ bit_offset + width >= U32)

register_at(name, bit_offset, width) ==
  /\ Call
  /\ width # 0
  /\ push_spec(name, bit_offset, width, "fixed")
  /\ cursor' = AtLeast(cursor, Wrap(bit_offset + width))
  /\ wrapped' = (wrapped \/ bit_offset + width >= U32)

\* append_register: an offset that does not fit u32 falls back to the cursor.
append_register(name, width, offset_bytes, ordinal) ==
  LET bits == register_bit_offset(offset_bytes, ordinal, width)
  IN  \/ bits = {} /\ Register(name, width)
      \/ \E b \in bits : register_at(name, b, width)

\* build: a stable sort by offset, then the largest extent.
Build ==
  /\ phase = "building"
  /\ IF errors
     THEN phase' = "failed" /\ UNCHANGED <<registers, total_bits>>
     ELSE /\ phase' = "built"
          /\ \E p \in [1 .. Len(registers) -> 1 .. Len(registers)] :
               /\ \A i, j \in 1 .. Len(registers) : i < j =>
                    \/ registers[p[i]].bit_offset < registers[p[j]].bit_offset
                    \/ registers[p[i]].bit_offset = registers[p[j]].bit_offset /\ p[i] < p[j]
               /\ registers' = [i \in 1 .. Len(registers) |-> registers[p[i]]]
          /\ total_bits' \in {0} \cup {extent(registers[i]) : i \in 1 .. Len(registers)}
          /\ \A i \in 1 .. Len(registers) : extent(registers[i]) <= total_bits'
  /\ UNCHANGED <<cursor, errors, calls, wrapped>>

\* from_machine: any number of registers of any shape (those that are redirects
\* are skipped and leave no trace), then build.
Next ==
  \/ \E width \in Widths :
       \/ RejectWidth(width)
       \/ \E name \in Names, offset_bytes \in Offsets, ordinal \in Ordinals :
            append_register(name, width, offset_bytes, ordinal)
  \/ Build

Spec == Init /\ [][Next]_specVars

-----------------------------------------------------------------------------
\* Properties.

Apart(r, s) == r.bit_offset + r.bit_len <= s.bit_offset \/ s.bit_offset + s.bit_len <= r.bit_offset

\* Every field of the builder and of the layout holds a value of its type.
TypeOK ==
  /\ phase \in {"building", "built", "failed"}
  /\ cursor \in 0 .. U32 - 1
  /\ registers \in Seq(RegisterSpec)
  /\ errors \in BOOLEAN
  /\ total_bits \in 0 .. U32 - 1
  /\ calls \in Nat
  /\ wrapped \in BOOLEAN

\* A register placed at the cursor shares no bit with any register declared
\* before it, fixed or not, as long as no offset wrapped.
AutoRegistersApart ==
  phase = "building" /\ ~wrapped =>
    \A i, j \in 1 .. Len(registers) :
      i < j /\ registers[j].placed = "auto" => Apart(registers[i], registers[j])

\* "Pads the snapshot buffer so 64-bit chunked bus accesses never cross the
\* backing allocation" (core/state.rs): in a layout that was built without
\* wrapping, the chunk of every register lies inside the memory that
\* CoreState::new allocates, unless the register is wider than any chunk.
RegistersBacked ==
  phase = "built" /\ ~wrapped =>
    \A i \in 1 .. Len(registers) :
      BitsFromChunk(registers[i]) <= 2 * WORD_BYTES * BYTE_BITS =>
        Backed(registers[i], MemorySize(total_bits))

\* A layout that was built names every register once, so the index by name
\* loses none of them.
BuiltNamesUnique ==
  phase = "built" =>
    \A i, j \in 1 .. Len(registers) : registers[i].name = registers[j].name => i = j
=============================================================================
