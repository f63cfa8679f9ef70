----------------------------- MODULE Disassembly -----------------------------
(***************************************************************************)
(* Bytes to instructions and back: the second half of                      *)
(* src/src/soc/isa/machine/disassembly.rs, format.rs and assembly.rs.  A   *)
(* text is a sequence of pieces: <<"text", t>>, a label <<"label", name>>, *)
(* or a number as it is written, <<"hex", n>>, <<"dec", n>>, <<"r", n>>.   *)
(***************************************************************************)
EXTENDS Semantics

CONSTANTS
  BYTE,       \* bits of a byte (8)
  NameOrder   \* the names of the spaces, in the order of their text

Description == INSTANCE MachineDescription

WordBytes(s) == unwrap_or(Spaces[s].size_bits, BITS) \div BYTE

decode_word(bytes, endianness) ==
  LET digits == IF endianness = "big" THEN bytes ELSE Reverse(bytes)
      value[n \in 0 .. Len(bytes)] == IF n = 0 THEN 0 ELSE value[n - 1] * 2^BYTE + digits[n]
  IN  value[Len(bytes)]

-----------------------------------------------------------------------------
\* select_space: the first decode space that fits the bytes and is enabled.
WordAt(s, bytes) == decode_word(SubSeq(bytes, 1, WordBytes(s)), Spaces[s].endianness)

Selects(s, bytes) ==
  /\ Len(bytes) >= WordBytes(s)
  /\ \A e \in Spaces[s].enable :
       Description!EnableValue(e, unwrap_or(Spaces[s].size_bits, BITS), WordAt(s, bytes)) # 0

\* Variant: the last space that fits is taken.
LastSpace(bytes) ==
  LET fit == {i \in DOMAIN Machine.decode_spaces : Selects(Machine.decode_spaces[i], bytes)}
  IN  IF fit = {} THEN {} ELSE {Machine.decode_spaces[Max(fit)]}

select_space(bytes) ==
  LET fit == {i \in DOMAIN Machine.decode_spaces : Selects(Machine.decode_spaces[i], bytes)}
  IN  IF fit = {} THEN {} ELSE {Machine.decode_spaces[Min(fit)]}

\* best_match: the most bits fixed, and of several patterns the last.
Matches(p, w) ==
  /\ p.space = w.space
  /\ \A b \in p.mask : BitsAt(w.opcode, b, 1) = BitsAt(p.value, b, 1)

best_match(w) ==
  LET found == {i \in DOMAIN Machine.patterns : Matches(Machine.patterns[i], w)}
      most == Max({Cardinality(Machine.patterns[i].mask) : i \in found})
  IN  IF found = {} THEN {}
      ELSE {Machine.patterns[Max({i \in found : Cardinality(Machine.patterns[i].mask) = most})]}

\* The words of the bytes, until no space fits what is left: one sequence.
RECURSIVE Words(_, _)
Words(bytes, address) ==
  IF bytes = <<>> \/ select_space(bytes) = {} THEN {<<>>}
  ELSE UNION {{<<[address |-> address, opcode |-> WordAt(s, bytes), space |-> s]>> \o rest :
                 rest \in Words(SubSeq(bytes, WordBytes(s) + 1, Len(bytes)), address + WordBytes(s))} :
               s \in select_space(bytes)}

-----------------------------------------------------------------------------
\* format_operand and decode_operands.
IsReg(op) == op.kind = "reg"

BoundText(binding, value) ==
  IF binding.space \in DOMAIN Spaces /\ binding.field \in DOMAIN Spaces[binding.space].registers
  THEN <<"label", format(Spaces[binding.space].registers[binding.field], value)>>
  ELSE <<"label", Append(binding.field, value)>>

format_operand(field, value) ==
  IF field.register # {} THEN BoundText(unwrap_or(field.register, {}), value)
  ELSE IF field.kind = "immediate" THEN <<"hex", value % 2^data_width(field.spec)>>
  ELSE IF \E i \in DOMAIN field.ops : IsReg(field.ops[i]) THEN <<"r", value>>
  ELSE <<"dec", value>>

FormOf(p) == UNION {Description!Found(Spaces[p.space].forms, f) : f \in p.form}
FieldsNamed(p, name) == UNION {Description!subfield(form, name) : form \in FormOf(p)}

FieldText(p, name, opcode) ==
  {format_operand(field, read_bits(field.spec, opcode)) : field \in FieldsNamed(p, name)}

OperandText(p, name, opcode) == unwrap_or(FieldText(p, name, opcode), <<"missing", name>>)
decode_operands(p, opcode) ==
  IF FormOf(p) = {} THEN <<>>
  ELSE [i \in DOMAIN p.operand_names |-> OperandText(p, p.operand_names[i], opcode)]

\* DisplayRenderer: a name stands for the operator, an operand or a field.
Rendered(p, opcode, piece) ==
  IF piece.kind = "text" THEN <<"text", piece.text>>
  ELSE IF piece.name = <<"op">> THEN <<"text", unwrap_or(p.operator, "#op")>>
  ELSE IF \E i \in DOMAIN p.operand_names : p.operand_names[i] = piece.name
       THEN OperandText(p, piece.name, opcode)
  ELSE unwrap_or(FieldText(p, piece.name, opcode), <<"text", piece.name>>)

render_display(p, opcode) ==
  IF FormOf(p) = {} THEN {}
  ELSE {[i \in DOMAIN template |-> Rendered(p, opcode, template[i])] : template \in p.display}

Comma == <<"text", ", ">>
Joined(texts) ==
  LET all[n \in 0 .. Len(texts)] ==
        IF n = 0 THEN <<>>
        ELSE all[n - 1] \o (IF n = 1 THEN <<>> ELSE <<Comma>>) \o <<texts[n]>>
  IN  all[Len(texts)]

-----------------------------------------------------------------------------
\* disassemble_from keeps the words that no instruction matches, and
\* decode_instructions leaves them out.
MnemonicOf(p) == Machine.instructions[p.instruction].name
Unknown == <<"unknown">>

UnknownEntry(w) ==
  [address |-> w.address, opcode |-> w.opcode, mnemonic |-> Unknown,
   operands |-> <<<<"hex", w.opcode>>>>, display |-> {}]
KnownEntry(w, p) ==
  [address |-> w.address, opcode |-> w.opcode, mnemonic |-> MnemonicOf(p),
   operands |-> decode_operands(p, w.opcode), display |-> render_display(p, w.opcode)]
Entry(w) == unwrap_or({KnownEntry(w, p) : p \in best_match(w)}, UnknownEntry(w))

\* Variant: addresses start at 0, as those of disassemble do.
ListedFromZero(bytes, base) ==
  {[i \in DOMAIN words |-> Entry(words[i])] : words \in Words(bytes, 0)}

disassemble_from(bytes, base) ==
  {[i \in DOMAIN words |-> Entry(words[i])] : words \in Words(bytes, base)}

Decoded(w) ==
  SetToSeq({[address |-> w.address, bits |-> w.opcode, pattern |-> p] : p \in best_match(w)})

decode_instructions(bytes, base) ==
  {FlattenSeq([i \in DOMAIN words |-> Decoded(words[i])]) : words \in Words(bytes, base)}

-----------------------------------------------------------------------------
\* assembly.rs.

find_instruction(mnemonic) ==
  LET named == {i \in DOMAIN Machine.instructions : Machine.instructions[i].name = mnemonic}
  IN  IF named = {} THEN {} ELSE {Machine.instructions[Min(named)]}

\* parse_assembly: what stands between commas; what is empty is dropped.
parse_assembly(text) ==
  LET parts[n \in 0 .. Len(text)] ==
        IF n = 0 THEN <<<<>>>>
        ELSE IF text[n] = Comma THEN Append(parts[n - 1], <<>>)
        ELSE [parts[n - 1] EXCEPT ![Len(parts[n - 1])] = Append(@, text[n])]
  IN  SelectSeq(parts[Len(text)], LAMBDA part : part # <<>>)

\* parse_numeric: i64::from_str_radix.  No operand of kind register is without
\* a binding, so an "r" is never taken off a number.
parse_numeric(part) ==
  IF Len(part) = 1 /\ part[1][1] \in {"hex", "dec"} /\ part[1][2] < 2^(BITS - 1)
  THEN {part[1][2]} ELSE {}

\* find_by_label.
IndexOf(space, name) == {e[2] : e \in Labelled(At(space, name))}

parse_operand_value(field, part) ==
  IF field.register = {} THEN parse_numeric(part)
  ELSE IF Len(part) = 1 /\ part[1][1] = "label"
  THEN UNION {IndexOf(b.space, part[1][2]) : b \in field.register}
  ELSE {}

\* resolve_operand_values: all or none.
resolve_operand_values(instr, parts) ==
  LET names == Description!OperandNames(Machine, instr)
      values == [i \in DOMAIN parts |->
                   UNION {parse_operand_value(field, parts[i]) : field \in FieldsNamed(instr, names[i])}]
  IN  IF instr.form = {} THEN (IF parts = <<>> THEN {<<>>} ELSE {})
      ELSE IF FormOf(instr) = {} \/ Len(names) # Len(parts) THEN {}
      ELSE IF \E i \in DOMAIN values : values[i] = {} THEN {}
      ELSE {[i \in DOMAIN parts |-> [name |-> names[i], value |-> unwrap_or(values[i], 0)]]}

\* Variant: the bytes of every space are stored as a big-endian word.
write_big(bits, count, endianness) ==
  Reverse([i \in 1 .. count |-> BitsAt(bits, BYTE * (i - 1), BYTE)])

write_word(bits, count, endianness) ==
  LET little == [i \in 1 .. count |-> BitsAt(bits, BYTE * (i - 1), BYTE)]
  IN  IF endianness = "big" THEN Reverse(little) ELSE little

WithOperand(instr, words, operand) ==
  UNION {UNION {write_bits(field.spec, w, AsU64(operand.value)) : field \in FieldsNamed(instr, operand.name)} :
           w \in words}

\* encode_with_operands: the mask first, the operands over it.
encode_with_operands(instr, operands) ==
  LET masked == UNION {{f.value : f \in Description!Fixed(Machine, instr, selectors)} :
                         selectors \in IF instr.mask = {} THEN {<<>>} ELSE instr.mask}
      words[n \in 0 .. Len(operands)] ==
        IF n = 0 THEN masked ELSE WithOperand(instr, words[n - 1], operands[n])
  IN  IF instr.space \notin DOMAIN Spaces \/ Spaces[instr.space].size_bits = {} THEN {}
      ELSE IF unwrap_or(Spaces[instr.space].size_bits, 0) % BYTE # 0 THEN {}
      ELSE IF instr.form = {} /\ operands # <<>> THEN {}
      ELSE IF instr.form # {} /\ FormOf(instr) = {} THEN {}
      ELSE {write_word(w, WordBytes(instr.space), Spaces[instr.space].endianness) : w \in words[Len(operands)]}

encode_instruction(mnemonic, operands) ==
  UNION {encode_with_operands(instr, operands) : instr \in find_instruction(mnemonic)}

assemble(mnemonic, text) ==
  UNION {UNION {encode_with_operands(instr, operands) :
                  operands \in resolve_operand_values(instr, parse_assembly(text))} :
           instr \in find_instruction(mnemonic)}
=============================================================================
