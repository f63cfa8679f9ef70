------------------------------ MODULE BitFields ------------------------------
(***************************************************************************)
(* Bit fields of a word: src/src/soc/prog/types/bitfield.rs.  A field is a *)
(* sequence of segments, most significant first: slices of its container   *)
(* and literals, with padding above them.  The width of u64 is a constant. *)
(* An operation that may fail returns a set of at most one result.         *)
(***************************************************************************)
EXTENDS Integers, SequencesExt

CONSTANT BITS  \* bits of u64 and of i64 (64)

ASSUME BitsAssumption == BITS \in Nat \ {0}

U64 == 0 .. 2^BITS - 1
I64 == -(2^(BITS - 1)) .. 2^(BITS - 1) - 1
AsU64(n) == n % 2^BITS
AsI64(n) == IF AsU64(n) >= 2^(BITS - 1) THEN AsU64(n) - 2^BITS ELSE AsU64(n)

BitsAt(word, offset, width) == (word \div 2^offset) % 2^width
WithBits(word, offset, width, part) == word + (part - BitsAt(word, offset, width)) * 2^offset

-----------------------------------------------------------------------------
\* Building a field.

Slice(offset, width) == [kind |-> "slice", offset |-> offset, width |-> width]
SliceFits(offset, width) == width > 0 /\ offset + width <= BITS

Field(segments, pad, pad_width, signed) ==
  [segments |-> segments, pad |-> pad, pad_width |-> pad_width, signed |-> signed]

Widths(segments) ==
  LET sum[n \in 0 .. Len(segments)] == IF n = 0 THEN 0 ELSE sum[n - 1] + segments[n].width
  IN  sum[Len(segments)]
data_width(spec) == Widths(spec.segments)
total_width(spec) == data_width(spec) + spec.pad_width
is_signed(spec) == spec.signed \/ spec.pad = "sign"

from_range(offset, width) == Field(<<Slice(offset, width)>>, "none", 0, FALSE)

\* A token of the text of a field: "0b..", "a..b" or "a", "?0" or "?1", or
\* anything else.  Ranges count from the most significant bit.
TokenFits(t, container_bits) ==
  CASE t.kind = "literal" -> t.width \in 1 .. BITS
    [] t.kind = "range" -> t.first <= t.last /\ t.last < container_bits
    [] t.kind = "pad" -> TRUE
    [] OTHER -> FALSE

Segment(t, container_bits) ==
  IF t.kind = "literal" THEN t
  ELSE Slice(container_bits - 1 - t.last, t.last - t.first + 1)

from_spec_str(container_bits, tokens) ==
  LET pads == SelectSeq(tokens, LAMBDA t : t.kind = "pad")
      parts == SelectSeq(tokens, LAMBDA t : t.kind # "pad")
      segments == [i \in DOMAIN parts |-> Segment(parts[i], container_bits)]
      room == container_bits - Widths(segments)
  IN  IF /\ container_bits \in 1 .. BITS
         /\ \A i \in DOMAIN tokens : TokenFits(tokens[i], container_bits)
         /\ Len(pads) <= 1 /\ parts # <<>>
         /\ IF pads = <<>> THEN Widths(segments) <= BITS ELSE room >= 0
      THEN {IF pads = <<>> \/ room = 0 THEN Field(segments, "none", 0, FALSE)
            ELSE Field(segments, pads[1].pad, room, FALSE)}
      ELSE {}

Slices(spec) == {i \in DOMAIN spec.segments : spec.segments[i].kind = "slice"}

\* The bits of the container that a field reads and writes.
Covered(g) == g.offset .. g.offset + g.width - 1
Mask(spec) == UNION {Covered(spec.segments[i]) : i \in Slices(spec)}

bit_span(spec) ==
  IF Mask(spec) = {} THEN {} ELSE {<<Min(Mask(spec)), Max(Mask(spec)) + 1>>}

-----------------------------------------------------------------------------
\* Reading a field.

Data(g, bits) == IF g.kind = "slice" THEN BitsAt(bits, g.offset, g.width) ELSE g.value % 2^g.width

extract_data(spec, bits) ==
  LET acc[n \in 0 .. Len(spec.segments)] ==
        IF n = 0 THEN 0 ELSE acc[n - 1] * 2^spec.segments[n].width + Data(spec.segments[n], bits)
  IN  AsU64(acc[Len(spec.segments)])

SignPad(spec, value) ==
  LET width == data_width(spec)
  IN  IF spec.pad = "sign" /\ width > 0 /\ BitsAt(value, width - 1, 1) = 1
      THEN 2^spec.pad_width - 1 ELSE 0

read_bits(spec, bits) ==
  LET value == extract_data(spec, bits)
  IN  value + SignPad(spec, value) * 2^data_width(spec)

read_signed(spec, bits) ==
  LET value == read_bits(spec, bits)
      width == total_width(spec)
  IN  IF width = 0 THEN 0
      ELSE IF is_signed(spec) /\ BitsAt(value, width - 1, 1) = 1 THEN value - 2^width
      ELSE AsI64(value)

-----------------------------------------------------------------------------
\* Writing a field: the whole value is checked before a bit is changed.

\* Where the data of segment i starts in the value.
Low(spec, i) == Widths(SubSeq(spec.segments, i + 1, Len(spec.segments)))
Part(spec, value, i) == BitsAt(value, Low(spec, i), spec.segments[i].width)

Writable(spec, value) ==
  /\ value < 2^total_width(spec)
  /\ \/ spec.pad = "none"
     \/ spec.pad = "sign" /\ data_width(spec) = 0
     \/ value \div 2^data_width(spec) = SignPad(spec, value)
  /\ \A i \in DOMAIN spec.segments \ Slices(spec) :
       Part(spec, value, i) = spec.segments[i].value % 2^spec.segments[i].width

Placed(spec, container, value) ==
  LET word[n \in 0 .. Len(spec.segments)] ==
        IF n = 0 THEN container
        ELSE IF n \notin Slices(spec) THEN word[n - 1]
        ELSE WithBits(word[n - 1], spec.segments[n].offset, spec.segments[n].width, Part(spec, value, n))
  IN  word[Len(spec.segments)]

write_bits(spec, container, value) ==
  IF total_width(spec) = 0 THEN {container}
  ELSE IF Writable(spec, value) THEN {Placed(spec, container, value)}
  ELSE {}
=============================================================================
