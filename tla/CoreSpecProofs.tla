--------------------------- MODULE CoreSpecProofs ---------------------------
(***************************************************************************)
(* Proofs about CoreSpec: the layout that build accepts fits the memory    *)
(* that CoreState::new allocates, and the cursor never places a register   *)
(* on another one.                                                         *)
(***************************************************************************)
EXTENDS CoreSpec, TLAPS

-----------------------------------------------------------------------------
\* Arithmetic.

\* A number lies between two neighbouring multiples.
LEMMA DivBounds ==
  ASSUME NEW a \in Nat, NEW n \in Nat \ {0}
  PROVE  a \div n \in Nat /\ (a \div n) * n <= a /\ a < (a \div n + 1) * n
OBVIOUS

\* Products with a positive number keep the order, in both directions.
LEMMA ProductOrder ==
  ASSUME NEW a \in Int, NEW b \in Int, NEW n \in Nat \ {0}
  PROVE  /\ a * n < b * n => a < b
         /\ a <= b => a * n <= b * n
OBVIOUS

\* Rounding up to whole units reaches the number.
LEMMA CeilReaches ==
  ASSUME NEW a \in Nat, NEW n \in Nat \ {0}
  PROVE  (a + n - 1) \div n \in Nat /\ a <= ((a + n - 1) \div n) * n
<1>1. a + n - 1 \in Nat
  OBVIOUS
<1>2. a + n - 1 < ((a + n - 1) \div n + 1) * n /\ (a + n - 1) \div n \in Nat
  BY <1>1, DivBounds
<1>3. ((a + n - 1) \div n + 1) * n = ((a + n - 1) \div n) * n + n
  BY <1>2
<1>4. ((a + n - 1) \div n) * n \in Nat
  BY <1>2
<1>5. QED
  BY <1>2, <1>3, <1>4

-----------------------------------------------------------------------------
\* The memory is made of whole words and holds every bit of the layout.
LEMMA MemoryWords ==
  ASSUME NEW total \in Nat
  PROVE  \E m \in Nat :
           /\ MemorySize(total) = m * WORD_BYTES
           /\ total <= (m * WORD_BYTES) * BYTE_BITS
<1> USE SpecAssumption
<1> DEFINE bl == byte_len(total)
           m == (bl + WORD_BYTES - 1) \div WORD_BYTES
<1>1. /\ (total + BYTE_BITS - 1) \div BYTE_BITS \in Nat
      /\ total <= ((total + BYTE_BITS - 1) \div BYTE_BITS) * BYTE_BITS
  BY CeilReaches
<1>2. bl \in Nat /\ bl # 0 /\ (total + BYTE_BITS - 1) \div BYTE_BITS <= bl
  BY <1>1 DEF byte_len, AtLeast
<1>3. total <= bl * BYTE_BITS
  <2>1. ((total + BYTE_BITS - 1) \div BYTE_BITS) * BYTE_BITS <= bl * BYTE_BITS
    BY <1>1, <1>2, ProductOrder
  <2>2. bl * BYTE_BITS \in Nat /\ ((total + BYTE_BITS - 1) \div BYTE_BITS) * BYTE_BITS \in Nat
    BY <1>1, <1>2
  <2> HIDE DEF bl
  <2>3. QED
    BY <1>1, <2>1, <2>2
<1>4. MemorySize(total) = m * WORD_BYTES
  BY <1>2 DEF MemorySize, align_byte_len
<1> HIDE DEF bl
<1>5. m \in Nat /\ bl <= m * WORD_BYTES
  BY <1>2, CeilReaches
<1> HIDE DEF m
<1>6. bl * BYTE_BITS <= (m * WORD_BYTES) * BYTE_BITS
  <2>1. m * WORD_BYTES \in Nat
    BY <1>5
  <2>2. QED
    BY <1>2, <1>5, <2>1, ProductOrder
<1>7. total <= (m * WORD_BYTES) * BYTE_BITS
  <2>1. bl * BYTE_BITS \in Nat
    BY <1>2
  <2>2. (m * WORD_BYTES) * BYTE_BITS \in Nat
    <3>1. m * WORD_BYTES \in Nat
      BY <1>5
    <3>2. QED
      BY <3>1
  <2>3. QED
    BY <1>3, <1>6, <2>1, <2>2
<1>8. QED
  BY <1>4, <1>5, <1>7

\* A register that ends inside the layout has its chunk inside the memory,
\* unless it is wider than any chunk.
LEMMA ChunkBacked ==
  ASSUME NEW total \in Nat, NEW r, r.bit_offset \in Nat, r.bit_len \in Nat \ {0},
         r.bit_offset + r.bit_len <= total
  PROVE  Backed(r, MemorySize(total))
<1> USE SpecAssumption
<1> DEFINE b == r.bit_offset \div BYTE_BITS
           k == b \div WORD_BYTES
           o == r.bit_offset
           l == r.bit_len
           WB == WORD_BYTES * BYTE_BITS
<1>1. PICK m \in Nat :
        /\ MemorySize(total) = m * WORD_BYTES
        /\ total <= (m * WORD_BYTES) * BYTE_BITS
  BY MemoryWords
<1>2. b \in Nat /\ b * BYTE_BITS <= o
  BY DivBounds
<1> HIDE DEF b
<1>3. k \in Nat /\ k * WORD_BYTES <= b
  BY <1>2, DivBounds
<1>4. ChunkStart(r) = k * WORD_BYTES
  BY DEF ChunkStart, b
<1> HIDE DEF k
<1>5. WB \in Nat \ {0}
  OBVIOUS
<1>6. /\ (k * WORD_BYTES) * BYTE_BITS = k * WB
      /\ (m * WORD_BYTES) * BYTE_BITS = m * WB
  BY <1>3
<1>7. k * WB <= o
  <2>1. k * WORD_BYTES \in Nat
    BY <1>3
  <2>2. (k * WORD_BYTES) * BYTE_BITS <= b * BYTE_BITS
    BY <1>2, <1>3, <2>1, ProductOrder
  <2>3. b * BYTE_BITS \in Nat /\ (k * WORD_BYTES) * BYTE_BITS \in Nat
    BY <1>2, <2>1
  <2>4. QED
    BY <1>2, <1>6, <2>2, <2>3
<1>8. BitsFromChunk(r) = (o - k * WB) + l
  BY <1>4, <1>6 DEF BitsFromChunk
<1> HIDE DEF WB
<1>9. k * WB \in Nat /\ m * WB \in Nat
  BY <1>3, <1>5
<1>10. CASE BitsFromChunk(r) <= WB
  <2>1. k * WB < m * WB
    BY <1>1, <1>6, <1>7, <1>9
  <2>2. k + 1 <= m
    BY <1>3, <1>5, <2>1, ProductOrder
  <2>3. (k + 1) * WORD_BYTES <= m * WORD_BYTES
    BY <1>3, <2>2, ProductOrder
  <2>4. (k + 1) * WORD_BYTES = k * WORD_BYTES + WORD_BYTES
    BY <1>3
  <2>5. ChunkLength(r) = WORD_BYTES
    BY <1>3, <1>5, <1>8, <1>9, <1>10 DEF ChunkLength, WB
  <2>6. QED
    BY <1>1, <1>4, <2>3, <2>4, <2>5 DEF Backed
<1>11. CASE ~(BitsFromChunk(r) <= WB)
  <2>1. (k + 1) * WB = k * WB + WB
    BY <1>3, <1>5
  <2>2. (k + 1) * WB < m * WB
    BY <1>1, <1>5, <1>6, <1>8, <1>9, <1>11, <2>1
  <2>3. k + 2 <= m
    BY <1>3, <1>5, <2>2, ProductOrder
  <2>4. (k + 2) * WORD_BYTES <= m * WORD_BYTES
    BY <1>3, <2>3, ProductOrder
  <2>5. (k + 2) * WORD_BYTES = k * WORD_BYTES + 2 * WORD_BYTES
    BY <1>3
  <2>6. ChunkLength(r) = 2 * WORD_BYTES
    BY <1>3, <1>5, <1>8, <1>9, <1>11 DEF ChunkLength, WB
  <2>7. QED
    BY <1>1, <1>4, <2>4, <2>5, <2>6 DEF Backed
<1>12. QED
  BY <1>10, <1>11
-----------------------------------------------------------------------------
\* The inductive invariant. RegistersBacked speaks of layouts that were built;
\* it rests on every extent having been exact while the layout was growing.

\* No two registers have one name, in whatever phase.
NamesApart ==
  \A i, j \in 1 .. Len(registers) : registers[i].name = registers[j].name => i = j

\* Unless an addition wrapped, every register ends inside the range of u32.
EndsInRange ==
  ~wrapped => \A i \in 1 .. Len(registers) : registers[i].bit_offset + registers[i].bit_len < U32

\* The cursor is behind every register, fixed ones included.
CursorBehindAll ==
  phase = "building" /\ ~wrapped =>
    \A i \in 1 .. Len(registers) : registers[i].bit_offset + registers[i].bit_len <= cursor

\* The size that build measured covers every extent.
TotalCovers ==
  phase = "built" => \A i \in 1 .. Len(registers) : extent(registers[i]) <= total_bits

LayoutInv ==
  /\ TypeOK
  /\ NamesApart
  /\ EndsInRange
  /\ CursorBehindAll
  /\ AutoRegistersApart
  /\ TotalCovers

\* u32 arithmetic stays in range, and is exact below the limit.
LEMMA WrapRange ==
  ASSUME NEW n \in Nat
  PROVE  Wrap(n) \in 0 .. U32 - 1 /\ (n < U32 => Wrap(n) = n)
BY SpecAssumption DEF Wrap

\* The numbers of a register.
LEMMA RegisterFields ==
  ASSUME NEW r \in RegisterSpec
  PROVE  r.bit_offset \in Nat /\ r.bit_len \in Nat \ {0}
<1>1. r.bit_offset \in 0 .. U32 - 1 /\ r.bit_len \in 1 .. U32 - 1
  BY DEF RegisterSpec
<1>2. QED
  BY <1>1, SpecAssumption

\* What push_spec leaves behind: the same registers, or one more at the end
\* under a name that none of the others has.
LEMMA PushPlaces ==
  ASSUME TypeOK, NEW name \in Names, NEW off \in 0 .. U32 - 1, NEW width \in 1 .. U32 - 1,
         NEW how \in {"auto", "fixed"}, push_spec(name, off, width, how)
  PROVE  /\ registers' \in Seq(RegisterSpec)
         /\ errors' \in BOOLEAN
         /\ \/ registers' = registers
            \/ /\ Len(registers') = Len(registers) + 1
               /\ \A i \in 1 .. Len(registers) :
                    registers'[i] = registers[i] /\ registers[i].name # name
               /\ registers'[Len(registers) + 1].name = name
               /\ registers'[Len(registers) + 1].bit_offset = off
               /\ registers'[Len(registers) + 1].bit_len = width
               /\ registers'[Len(registers) + 1].placed = how
<1>1. CASE name \in seen
  BY <1>1 DEF push_spec, TypeOK
<1>2. CASE name \notin seen
  <2> DEFINE r == [name |-> name, bit_offset |-> off, bit_len |-> width, placed |-> how]
  <2>1. r \in RegisterSpec
    BY DEF RegisterSpec
  <2>2. registers' = Append(registers, r) /\ errors' = errors
    BY <1>2 DEF push_spec
  <2>3. \A i \in 1 .. Len(registers) : registers[i].name # name
    BY <1>2 DEF seen
  <2> HIDE DEF r
  <2>4. /\ registers' \in Seq(RegisterSpec)
        /\ Len(registers') = Len(registers) + 1
        /\ \A i \in 1 .. Len(registers) : registers'[i] = registers[i]
        /\ registers'[Len(registers) + 1] = r
    BY <2>1, <2>2 DEF TypeOK
  <2>5. QED
    BY <2>2, <2>3, <2>4 DEF TypeOK, r
<1>3. QED
  BY <1>1, <1>2

\* One register appended, at the cursor or at a given offset: the common part
\* of register and register_at.
LEMMA AppendKeeps ==
  ASSUME LayoutInv, Call, NEW name \in Names, NEW off \in 0 .. U32 - 1,
         NEW width \in 1 .. U32 - 1, NEW how \in {"auto", "fixed"},
         push_spec(name, off, width, how),
         how = "auto" => off = cursor,
         cursor' \in 0 .. U32 - 1,
         off + width < U32 => cursor <= cursor' /\ off + width <= cursor',
         wrapped' = (wrapped \/ off + width >= U32)
  PROVE  LayoutInv'
<1> USE SpecAssumption
<1> DEFINE n == Len(registers)
<1>1. /\ registers' \in Seq(RegisterSpec)
      /\ errors' \in BOOLEAN
      /\ \/ registers' = registers
         \/ /\ Len(registers') = n + 1
            /\ \A i \in 1 .. n : registers'[i] = registers[i] /\ registers[i].name # name
            /\ registers'[n + 1].name = name
            /\ registers'[n + 1].bit_offset = off
            /\ registers'[n + 1].bit_len = width
            /\ registers'[n + 1].placed = how
  <2>1. TypeOK
    BY DEF LayoutInv
  <2>2. QED
    BY <2>1, PushPlaces
<1>2. phase = "building" /\ phase' = phase /\ calls' = calls + 1 /\ total_bits' = total_bits
  BY DEF Call
<1>3. TypeOK'
  <2>1. wrapped' \in BOOLEAN
    OBVIOUS
  <2>2. QED
    BY <1>1, <1>2, <2>1 DEF LayoutInv, TypeOK
<1>4. /\ n \in Nat
      /\ \A i \in 1 .. n : registers[i].bit_offset \in Nat /\ registers[i].bit_len \in Nat \ {0}
      /\ cursor \in Nat
  <2>1. n \in Nat /\ cursor \in Nat /\ \A i \in 1 .. n : registers[i] \in RegisterSpec
    BY DEF LayoutInv, TypeOK
  <2>2. QED
    BY <2>1, RegisterFields
<1>5. ~wrapped' => ~wrapped /\ off + width < U32
  <2>1. off + width >= U32 \/ off + width < U32
    OBVIOUS
  <2>2. QED
    BY <2>1, Zenon
<1>6. TotalCovers'
  BY <1>2 DEF TotalCovers
<1>7. CASE registers' = registers
  <2>1. NamesApart' /\ EndsInRange' /\ AutoRegistersApart'
    BY <1>2, <1>5, <1>7 DEF LayoutInv, NamesApart, EndsInRange, AutoRegistersApart
  <2>2. CursorBehindAll'
    <3> SUFFICES ASSUME ~wrapped', NEW i \in 1 .. n
                 PROVE  registers[i].bit_offset + registers[i].bit_len <= cursor'
      BY <1>7 DEF CursorBehindAll
    <3>1. registers[i].bit_offset + registers[i].bit_len <= cursor
      BY <1>2, <1>5 DEF LayoutInv, CursorBehindAll
    <3>2. QED
      BY <1>4, <1>5, <3>1
  <2>3. QED
    BY <1>3, <1>6, <2>1, <2>2 DEF LayoutInv
<1>8. CASE registers' # registers
  <2>1. /\ Len(registers') = n + 1
        /\ \A i \in 1 .. n : registers'[i] = registers[i] /\ registers[i].name # name
        /\ registers'[n + 1].name = name
        /\ registers'[n + 1].bit_offset = off
        /\ registers'[n + 1].bit_len = width
        /\ registers'[n + 1].placed = how
    BY <1>1, <1>8
  <2> HIDE DEF n
  <2>2. \A i \in 1 .. n + 1 : i \in 1 .. n \/ i = n + 1
    BY <1>4
  <2>3. NamesApart'
    <3> SUFFICES ASSUME NEW i \in 1 .. n + 1, NEW j \in 1 .. n + 1,
                        registers'[i].name = registers'[j].name
                 PROVE  i = j
      BY <2>1 DEF NamesApart
    <3>1. CASE i \in 1 .. n /\ j \in 1 .. n
      BY <2>1, <3>1 DEF LayoutInv, NamesApart, n
    <3>2. QED
      BY <2>1, <2>2, <3>1
  <2>4. EndsInRange'
    <3> SUFFICES ASSUME ~wrapped', NEW i \in 1 .. n + 1
                 PROVE  registers'[i].bit_offset + registers'[i].bit_len < U32
      BY <2>1 DEF EndsInRange
    <3>1. CASE i \in 1 .. n
      BY <1>5, <2>1, <3>1 DEF LayoutInv, EndsInRange, n
    <3>2. QED
      BY <1>5, <2>1, <2>2, <3>1
  <2>5. CursorBehindAll'
    <3> SUFFICES ASSUME ~wrapped', NEW i \in 1 .. n + 1
                 PROVE  registers'[i].bit_offset + registers'[i].bit_len <= cursor'
      BY <2>1 DEF CursorBehindAll
    <3>1. CASE i \in 1 .. n
      <4>1. registers[i].bit_offset + registers[i].bit_len <= cursor
        BY <1>2, <1>5, <3>1 DEF LayoutInv, CursorBehindAll, n
      <4>2. QED
        BY <1>4, <1>5, <2>1, <3>1, <4>1
    <3>2. QED
      BY <1>5, <2>1, <2>2, <3>1
  <2>6. AutoRegistersApart'
    <3> SUFFICES ASSUME ~wrapped', NEW i \in 1 .. n + 1, NEW j \in 1 .. n + 1,
                        i < j, registers'[j].placed = "auto"
                 PROVE  Apart(registers'[i], registers'[j])
      BY <2>1 DEF AutoRegistersApart
    <3>1. i \in 1 .. n
      BY <1>4
    <3>2. CASE j \in 1 .. n
      BY <1>2, <1>5, <2>1, <3>1, <3>2 DEF LayoutInv, AutoRegistersApart, n
    <3>3. CASE j = n + 1
      <4>1. registers[i].bit_offset + registers[i].bit_len <= cursor
        BY <1>2, <1>5, <3>1 DEF LayoutInv, CursorBehindAll, n
      <4>2. registers'[j].bit_offset = cursor
        BY <2>1, <3>3
      <4>3. QED
        BY <2>1, <3>1, <4>1, <4>2 DEF Apart
    <3>4. QED
      BY <2>2, <3>2, <3>3
  <2>7. QED
    BY <1>3, <1>6, <2>3, <2>4, <2>5, <2>6 DEF LayoutInv
<1>9. QED
  BY <1>7, <1>8

\* register, at the cursor.
LEMMA RegisterKeeps ==
  ASSUME LayoutInv, NEW name \in Names, NEW width \in Widths, Register(name, width)
  PROVE  LayoutInv'
<1> USE SpecAssumption
<1>1. cursor \in 0 .. U32 - 1 /\ width \in 1 .. U32 - 1
  BY DEF LayoutInv, TypeOK, Register
<1>2. cursor' = Wrap(cursor + width) /\ cursor + width \in Nat
  BY <1>1 DEF Register
<1>3. cursor' \in 0 .. U32 - 1 /\ (cursor + width < U32 => cursor' = cursor + width)
  BY <1>2, WrapRange
<1>4. /\ Call /\ push_spec(name, cursor, width, "auto")
      /\ wrapped' = (wrapped \/ cursor + width >= U32)
  BY DEF Register
<1>5. cursor + width < U32 => cursor <= cursor' /\ cursor + width <= cursor'
  BY <1>1, <1>3
<1>6. QED
  BY <1>1, <1>3, <1>4, <1>5, AppendKeeps

\* register_at, at an offset of the machine description.
LEMMA RegisterAtKeeps ==
  ASSUME LayoutInv, NEW name \in Names, NEW off \in 0 .. U32 - 1, NEW width \in Widths,
         register_at(name, off, width)
  PROVE  LayoutInv'
<1> USE SpecAssumption
<1>1. cursor \in 0 .. U32 - 1 /\ width \in 1 .. U32 - 1
  BY DEF LayoutInv, TypeOK, register_at
<1>2. off + width \in Nat
  BY <1>1
<1>3. /\ Wrap(off + width) \in 0 .. U32 - 1
      /\ off + width < U32 => Wrap(off + width) = off + width
  BY <1>2, WrapRange
<1>4. /\ cursor' \in 0 .. U32 - 1
      /\ off + width < U32 => cursor <= cursor' /\ off + width <= cursor'
  BY <1>1, <1>3 DEF register_at, AtLeast
<1>5. /\ Call /\ push_spec(name, off, width, "fixed")
      /\ wrapped' = (wrapped \/ off + width >= U32)
  BY DEF register_at
<1>6. QED
  BY <1>1, <1>4, <1>5, AppendKeeps

\* build only permutes the registers, and measures what it permutes.
LEMMA BuildKeeps ==
  ASSUME LayoutInv, Build
  PROVE  LayoutInv'
<1> USE SpecAssumption
<1> DEFINE n == Len(registers)
<1>1. phase = "building" /\ UNCHANGED <<cursor, errors, calls, wrapped>>
  BY DEF Build
<1>2. CASE errors
  <2>1. phase' = "failed" /\ registers' = registers /\ total_bits' = total_bits
    BY <1>2 DEF Build
  <2>2. QED
    BY <1>1, <2>1 DEF LayoutInv, TypeOK, NamesApart, EndsInRange, CursorBehindAll,
                      AutoRegistersApart, TotalCovers
<1>3. CASE ~errors
  <2>1. PICK p \in [1 .. n -> 1 .. n] :
          /\ \A i, j \in 1 .. n : i < j =>
               \/ registers[p[i]].bit_offset < registers[p[j]].bit_offset
               \/ registers[p[i]].bit_offset = registers[p[j]].bit_offset /\ p[i] < p[j]
          /\ registers' = [i \in 1 .. n |-> registers[p[i]]]
    BY <1>3 DEF Build
  <2>2. /\ phase' = "built"
        /\ total_bits' \in {0} \cup {extent(registers[i]) : i \in 1 .. n}
        /\ \A i \in 1 .. n : extent(registers[i]) <= total_bits'
    BY <1>3 DEF Build
  <2>3. n \in Nat /\ \A i \in 1 .. n : registers[i] \in RegisterSpec
    BY DEF LayoutInv, TypeOK
  <2>4. /\ registers' \in Seq(RegisterSpec)
        /\ Len(registers') = n
        /\ \A i \in 1 .. n : registers'[i] = registers[p[i]] /\ p[i] \in 1 .. n
    BY <2>1, <2>3
  <2>5. \A i \in 1 .. n : extent(registers[i]) \in 0 .. U32 - 1
    <3> TAKE i \in 1 .. n
    <3>1. registers[i].bit_offset + registers[i].bit_len \in Nat
      BY <2>3 DEF RegisterSpec
    <3>2. QED
      BY <3>1, WrapRange DEF extent
  <2>6. TypeOK'
    BY <1>1, <2>2, <2>4, <2>5 DEF LayoutInv, TypeOK
  <2> HIDE DEF n
  <2>7. \A i, j \in 1 .. n : p[i] = p[j] => i = j
    <3> SUFFICES ASSUME NEW i \in 1 .. n, NEW j \in 1 .. n, p[i] = p[j], i < j
                 PROVE  FALSE
      BY <2>3
    <3>1. registers[p[i]].bit_offset \in Nat /\ p[i] \in Nat
      BY <2>3, <2>4, RegisterFields
    <3>2. QED
      BY <2>1, <3>1
  <2>8. NamesApart'
    <3> SUFFICES ASSUME NEW i \in 1 .. n, NEW j \in 1 .. n,
                        registers'[i].name = registers'[j].name
                 PROVE  i = j
      BY <2>4 DEF NamesApart
    <3>1. registers[p[i]].name = registers[p[j]].name /\ p[i] \in 1 .. n /\ p[j] \in 1 .. n
      BY <2>4
    <3>2. p[i] = p[j]
      BY <3>1 DEF LayoutInv, NamesApart, n
    <3>3. QED
      BY <2>7, <3>2
  <2>9. EndsInRange'
    BY <1>1, <2>4 DEF LayoutInv, EndsInRange, n
  <2>10. CursorBehindAll' /\ AutoRegistersApart'
    BY <2>2 DEF CursorBehindAll, AutoRegistersApart
  <2>11. TotalCovers'
    <3> SUFFICES ASSUME NEW i \in 1 .. n
                 PROVE  extent(registers'[i]) <= total_bits'
      BY <2>4 DEF TotalCovers, extent
    <3>1. QED
      BY <2>2, <2>4
  <2>12. QED
    BY <2>6, <2>8, <2>9, <2>10, <2>11 DEF LayoutInv
<1>4. QED
  BY <1>2, <1>3

\* LayoutInv holds initially and every step keeps it.
THEOREM LayoutInductive == Spec => []LayoutInv
<1> USE SpecAssumption
<1>1. Init => LayoutInv
  <2> SUFFICES ASSUME Init
               PROVE  LayoutInv
    OBVIOUS
  <2>1. registers \in Seq(RegisterSpec) /\ 1 .. Len(registers) = {}
    BY DEF Init
  <2>2. TypeOK
    <3>1. cursor \in 0 .. U32 - 1 /\ total_bits \in 0 .. U32 - 1 /\ calls \in Nat
      BY DEF Init
    <3>2. errors \in BOOLEAN /\ wrapped \in BOOLEAN
      BY Zenon DEF Init
    <3>3. QED
      BY <2>1, <3>1, <3>2 DEF Init, TypeOK
  <2>3. QED
    BY <2>1, <2>2 DEF LayoutInv, NamesApart, EndsInRange, CursorBehindAll, AutoRegistersApart,
                      TotalCovers
<1>2. LayoutInv /\ [Next]_specVars => LayoutInv'
  <2> SUFFICES ASSUME LayoutInv, [Next]_specVars
               PROVE  LayoutInv'
    OBVIOUS
  <2>1. CASE UNCHANGED specVars
    BY <2>1 DEF specVars, LayoutInv, TypeOK, NamesApart, EndsInRange, CursorBehindAll,
                AutoRegistersApart, TotalCovers
  <2>2. ASSUME NEW width \in Widths, RejectWidth(width)
        PROVE  LayoutInv'
    BY <2>2 DEF RejectWidth, Call, LayoutInv, TypeOK, NamesApart, EndsInRange,
                CursorBehindAll, AutoRegistersApart, TotalCovers
  <2>3. ASSUME NEW width \in Widths, NEW name \in Names, NEW offset_bytes \in Offsets,
               NEW ordinal \in Ordinals,
               append_register(name, width, offset_bytes, ordinal)
        PROVE  LayoutInv'
    <3> DEFINE bits == register_bit_offset(offset_bytes, ordinal, width)
    <3>1. CASE Register(name, width)
      BY <3>1, RegisterKeeps
    <3>2. ASSUME NEW b \in bits, register_at(name, b, width)
          PROVE  LayoutInv'
      <4>1. b \in 0 .. U32 - 1
        <5>1. PICK base \in offset_bytes : b = base * BYTE_BITS + ordinal * width /\ b < U32
          BY DEF register_bit_offset
        <5>2. base \in Nat /\ ordinal \in Nat /\ width \in Nat
          OBVIOUS
        <5>3. base * BYTE_BITS \in Nat /\ ordinal * width \in Nat
          BY <5>2
        <5>4. QED
          BY <5>1, <5>3
      <4>2. QED
        BY <3>2, <4>1, RegisterAtKeeps
    <3>3. QED
      BY <2>3, <3>1, <3>2 DEF append_register
  <2>4. CASE Build
    BY <2>4, BuildKeeps
  <2>5. QED
    BY <2>1, <2>2, <2>3, <2>4 DEF Next
<1>3. QED
  BY <1>1, <1>2, PTL DEF Spec

-----------------------------------------------------------------------------
\* Every field of the builder and of the layout keeps its type.
THEOREM LayoutTypeCorrect == Spec => []TypeOK
<1>1. LayoutInv => TypeOK
  BY DEF LayoutInv
<1>2. QED
  BY <1>1, LayoutInductive, PTL

\* Without a wrap the cursor never places a register on an earlier one.
THEOREM AutoApart == Spec => []AutoRegistersApart
<1>1. LayoutInv => AutoRegistersApart
  BY DEF LayoutInv
<1>2. QED
  BY <1>1, LayoutInductive, PTL

\* The memory that CoreState::new allocates holds the chunk of every register
\* of a layout built without a wrap.
THEOREM LayoutBacked == Spec => []RegistersBacked
<1> USE SpecAssumption
<1>1. LayoutInv => RegistersBacked
  <2> SUFFICES ASSUME LayoutInv, phase = "built", ~wrapped, NEW i \in 1 .. Len(registers)
               PROVE  Backed(registers[i], MemorySize(total_bits))
    BY DEF RegistersBacked
  <2> DEFINE r == registers[i]
  <2>1. r.bit_offset \in Nat /\ r.bit_len \in Nat \ {0} /\ total_bits \in Nat
    <3>1. r \in RegisterSpec /\ total_bits \in Nat
      BY DEF LayoutInv, TypeOK
    <3>2. QED
      BY <3>1, RegisterFields
  <2>2. r.bit_offset + r.bit_len < U32 /\ r.bit_offset + r.bit_len \in Nat
    BY <2>1 DEF LayoutInv, EndsInRange
  <2>3. extent(r) = r.bit_offset + r.bit_len
    BY <2>2, WrapRange DEF extent
  <2>4. r.bit_offset + r.bit_len <= total_bits
    BY <2>3 DEF LayoutInv, TotalCovers
  <2> HIDE DEF r
  <2>5. Backed(r, MemorySize(total_bits))
    BY <2>1, <2>4, ChunkBacked
  <2>6. QED
    BY <2>5 DEF r
<1>2. QED
  BY <1>1, LayoutInductive, PTL

\* Every register of a built layout has a name of its own.
THEOREM NamesUnique == Spec => []BuiltNamesUnique
<1>1. LayoutInv => BuiltNamesUnique
  BY DEF LayoutInv, NamesApart, BuiltNamesUnique
<1>2. QED
  BY <1>1, LayoutInductive, PTL
=============================================================================
