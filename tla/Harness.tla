------------------------------- MODULE Harness -------------------------------
(***************************************************************************)
(* ExecutionHarness: src/src/soc/core/harness.rs.  It decodes a block of   *)
(* bytes and runs the semantics of one instruction after the other on the  *)
(* registers it owns, between blocks its owner writes registers; a failure *)
(* ends the block where it stands.                                         *)
(***************************************************************************)
EXTENDS Disassembly

CONSTANTS
  Roms,        \* blocks of bytes that are executed
  Bases,       \* addresses of blocks
  HostWrites,  \* what the owner writes: [space, name, subfield, index, value]
  MaxSteps     \* bound: blocks executed and writes made

VARIABLES
  m,           \* the registers, and the trace of the block; its frames of calls
  block,       \* [rom, base]: the block that is executed
  decoded,     \* what decode_instructions found, less what was executed
  listing,     \* what disassemble_from found, less what was executed
  executions,  \* InstructionExecution of every instruction that ended
  outcome,     \* "idle", "running", "none" (the block ended), or an error
  steps        \* bound: blocks and writes so far

vars == <<m, block, decoded, listing, executions, outcome, steps>>

Init ==
  /\ m = [regs |-> [c \in Cells |-> 0], trace |-> <<>>, depth |-> 0, deepest |-> 0]
  /\ block = [rom |-> <<>>, base |-> 0]
  /\ decoded = <<>> /\ listing = <<>> /\ executions = <<>>
  /\ outcome = "idle" /\ steps = 0

\* execute_block, up to its loop.
BeginBlock(rom, base) ==
  /\ outcome # "running" /\ steps < MaxSteps
  /\ steps' = steps + 1
  /\ block' = [rom |-> rom, base |-> base]
  /\ decoded' \in decode_instructions(rom, base)
  /\ listing' \in disassemble_from(rom, base)
  /\ m' = [m EXCEPT !.trace = <<>>]
  /\ executions' = <<>> /\ outcome' = "running"

FetchEvent(entry) ==
  [kind |-> "fetch", address |-> entry.address, opcode |-> entry.opcode,
   mnemonic |-> entry.mnemonic, detail |-> unwrap_or(entry.display, Joined(entry.operands))]

FieldsOf(p) == UNION {ToSet(form.fields) : form \in FormOf(p)}

FieldValues(entry) ==
  [name \in {field.name : field \in FieldsOf(entry.pattern)} |->
     LET field == CHOOSE field \in FieldsOf(entry.pattern) : field.name = name
     IN  int(read_signed(field.spec, entry.bits))]

\* Variant: the parameters of the machine are not bound.
BindFields(entry) == {FieldValues(entry) : base \in BaseParameters}

\* bind_parameters: those of the machine, and over them the fields of the form.
bind_parameters(entry) == {FieldValues(entry) @@ base : base \in BaseParameters}

\* An instruction without semantics does nothing.
Performed(entry) ==
  LET body == Machine.instructions[entry.pattern.instruction].program
      traced == Emit(m, FetchEvent(listing[1]))
  IN  IF body = <<>> THEN {Done({}, traced)}
      ELSE IF bind_parameters(entry) = {} THEN {Fail("parameters", traced)}
      ELSE UNION {Run(body[1], params, traced) : params \in bind_parameters(entry)}

\* One turn of the loop: the first of what was decoded, and the first listed.
ExecuteInstruction ==
  /\ outcome = "running" /\ decoded # <<>>
  /\ \E r \in Performed(decoded[1]) :
       /\ m' = r.m
       /\ outcome' = IF Failed(r) THEN r.err ELSE "running"
       /\ executions' = IF Failed(r) THEN executions
                        ELSE Append(executions, [address |-> decoded[1].address,
                                                 mnemonic |-> MnemonicOf(decoded[1].pattern),
                                                 bits |-> decoded[1].bits, value |-> r.v])
  /\ decoded' = Tail(decoded) /\ listing' = Tail(listing)
  /\ UNCHANGED <<block, steps>>

EndBlock ==
  /\ outcome = "running" /\ decoded = <<>>
  /\ outcome' = "none"
  /\ UNCHANGED <<m, block, decoded, listing, executions, steps>>

\* write_register_value: no event is traced.
write_register_value(w) ==
  /\ outcome # "running" /\ steps < MaxSteps
  /\ steps' = steps + 1
  /\ \E r \in resolve(At(w.space, w.name), w.subfield, w.index) :
       \E regs \in WriteResolved(r, m.regs, w.value) : m' = [m EXCEPT !.regs = regs]
  /\ UNCHANGED <<block, decoded, listing, executions, outcome>>

\* read_register_value.
read_register_value(w) ==
  {ReadResolved(r, m.regs) : r \in resolve(At(w.space, w.name), w.subfield, w.index)}

Next ==
  \/ \E rom \in Roms, base \in Bases : BeginBlock(rom, base)
  \/ ExecuteInstruction
  \/ EndBlock
  \/ \E w \in HostWrites : write_register_value(w)

Spec == Init /\ [][Next]_vars

-----------------------------------------------------------------------------
AllKnown(words) == \A i \in DOMAIN words : best_match(words[i]) # {}
Fetches == SelectSeq(m.trace, LAMBDA e : e.kind = "fetch")

Describes(fetch, entry) ==
  /\ fetch.address = entry.address /\ fetch.opcode = entry.bits
  /\ fetch.mnemonic = MnemonicOf(entry.pattern)

\* execute_block: every fetch traced tells the address, the word and the name
\* of the instruction that is then executed, and a block that fails has traced
\* one more than it executed.  Behind a word that no instruction matches, which
\* is listed but not executed, the two are out of step.
FetchTruthful ==
  /\ outcome \notin {"idle", "running", "none"} => Len(Fetches) = Len(executions) + 1
  /\ \A entries \in decode_instructions(block.rom, block.base), words \in Words(block.rom, block.base) :
       \A i \in DOMAIN Fetches : AllKnown(SubSeq(words, 1, i)) => Describes(Fetches[i], entries[i])

\* select_space: bytes that come later do not change how the earlier ones are
\* decoded, so that a block may be fed in pieces.
DecodeStable ==
  \A n \in 0 .. Len(block.rom), all \in disassemble_from(block.rom, block.base) :
    \A part \in disassemble_from(SubSeq(block.rom, 1, n), block.base) : IsPrefix(part, all)

\* Texts that assembly.rs reads: no "r" of a number, no register out of its
\* bank, no immediate that was extended with its sign.
Readable(field, text) ==
  /\ text[1] # "r" /\ field.spec.pad # "sign"
  /\ \A b \in field.register : IndexOf(b.space, text[2]) # {}

AllReadable(p, texts) ==
  \A i \in DOMAIN p.operand_names :
    \E field \in FieldsNamed(p, p.operand_names[i]) : Readable(field, texts[i])

OperandBits(p) ==
  UNION {UNION {Mask(field.spec) : field \in FieldsNamed(p, p.operand_names[i])} :
           i \in DOMAIN p.operand_names}

Agree(a, b, bits) == \A i \in bits : BitsAt(a, i, 1) = BitsAt(b, i, 1)

Reassembles(p, opcode, texts, detail, results) ==
  /\ \A bytes \in results : Agree(decode_word(bytes, Spaces[p.space].endianness), opcode,
                                  p.mask \cup OperandBits(p))
  /\ (AllReadable(p, texts) /\ detail = Joined(texts)) => results # {}

\* assembly.rs, "mirror the disassembler": the listing of a word, assembled,
\* is the word again in every bit that its instruction fixes or its operands
\* hold; and it assembles if its operands are readable and shown by commas.
AssemblesBack ==
  \A words \in Words(block.rom, block.base) : \A i \in DOMAIN words : \A p \in best_match(words[i]) :
    find_instruction(MnemonicOf(p)) = {Machine.instructions[p.instruction]} =>
      \A detail \in {FetchEvent(KnownEntry(words[i], p)).detail} :
        \A results \in {assemble(MnemonicOf(p), detail)} :
          Reassembles(p, words[i].opcode, decode_operands(p, words[i].opcode), detail, results)

HasOperands(instr) ==
  \A i \in DOMAIN instr.operands : FieldsNamed(instr, instr.operands[i]) # {}

\* compile_semantics: in a machine that was built, no instruction fails for a
\* name that is not bound or a call that is not right, unless it declares
\* operands that its form does not have.
NamesBound ==
  outcome \in {"undefined", "call-arity", "unknown-macro", "unknown-instruction", "unknown-host",
              "ambiguous-instruction", "unknown-form"} =>
    \E entries \in decode_instructions(block.rom, block.base) :
      ~HasOperands(Machine.instructions[entries[Len(executions) + 1].pattern.instruction])
=============================================================================
