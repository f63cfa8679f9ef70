-------------------------- MODULE MachineDescription --------------------------
(***************************************************************************)
(* How a machine is built from parsed documents:                           *)
(* src/src/soc/isa/machine/{mod, space, instruction, macros}.rs and the    *)
(* first half of disassembly.rs.  A document is a sequence of items.  A    *)
(* step that may fail takes a machine to a set of at most one machine.     *)
(***************************************************************************)
EXTENDS BitFields, FiniteSets

CONSTANTS
  BYTE,           \* bits of a byte (8)
  MAX_REDIRECTS,  \* redirects followed in a row (8)
  U32,            \* 2^32
  NameOrder       \* the names of the spaces, in the order of their text

Analyzer(machine) == INSTANCE SemanticAnalyzer WITH Machine <- machine

Named(kind, items) == SelectSeq(items, LAMBDA item : item.kind = kind)
Found(f, key) == {f[k] : k \in DOMAIN f \cap {key}}

-----------------------------------------------------------------------------
\* Forms and their fields.

\* parse_register_op: "reg.X" is $reg::X; other contexts name their space.
Binding(op) ==
  CASE op.kind = "context" -> {[space |-> op.space, field |-> op.field]}
    [] op.kind = "reg" -> {[space |-> <<"reg">>, field |-> x] : x \in op.subtype}
    [] OTHER -> {}

derive_register_binding(ops) ==
  LET bound == {i \in DOMAIN ops : Binding(ops[i]) # {}}
  IN  IF bound = {} THEN {} ELSE Binding(ops[Min(bound)])

OperandKind(ops) ==
  IF derive_register_binding(ops) # {} THEN "register"
  ELSE IF \E i \in DOMAIN ops : ops[i].kind = "imm" THEN "immediate" ELSE "other"

\* A field is an operand unless all it has are functions; without any it is not.
is_function_only(field) == \A i \in DOMAIN field.ops : field.ops[i].kind = "func"

FieldEncoding(sub, spec) ==
  [name |-> sub.name, spec |-> spec, ops |-> sub.ops,
   register |-> derive_register_binding(sub.ops), kind |-> OperandKind(sub.ops)]

push_field(form, field) ==
  [form EXCEPT !.fields = Append(@, field),
               !.operand_order = IF is_function_only(field) THEN @ ELSE Append(@, field.name)]

subfield(form, name) ==
  {form.fields[i] : i \in {i \in DOMAIN form.fields : form.fields[i].name = name}}

AddSubfield(form, sub, word_bits) ==
  IF subfield(form, sub.name) # {} THEN {}
  ELSE {push_field(form, FieldEncoding(sub, spec)) : spec \in from_spec_str(word_bits, sub.bit_spec)}

NewForm == [fields |-> <<>>, operand_order |-> <<>>, display |-> {}]

\* A form starts as a copy of its parent.
add_form(space, decl) ==
  LET starts == IF decl.parent = {} THEN {NewForm}
                ELSE UNION {Found(space.forms, p) : p \in decl.parent}
      grown[n \in 0 .. Len(decl.subfields)] ==
        IF n = 0 THEN starts
        ELSE UNION {AddSubfield(f, decl.subfields[n], w) : f \in grown[n - 1], w \in space.size_bits}
  IN  {[space EXCEPT !.forms = (decl.name :> [f EXCEPT !.display = IF decl.display = {} THEN @ ELSE decl.display])
                                 @@ @] : f \in grown[Len(decl.subfields)]}

-----------------------------------------------------------------------------
\* register_space, register_form and register_field.

\* SpaceInfo::from_decl: the last word size counts.
SpaceInfo(decl) ==
  [kind |-> decl.space_kind, size_bits |-> {decl.word_sizes[i] : i \in {Len(decl.word_sizes)} \ {0}},
   endianness |-> decl.endianness, enable |-> decl.enable, forms |-> <<>>, registers |-> <<>>]

register_form(machine, decl) ==
  UNION {IF space.kind # "logic" THEN {machine}
         ELSE IF space.size_bits = {} THEN {}
         ELSE {[machine EXCEPT !.spaces[decl.space] = s] : s \in add_form(space, decl)} :
           space \in Found(machine.spaces, decl.space)}

\* add_register_field: a later declaration of a name replaces the register.
register_field(machine, decl) ==
  {IF machine.spaces[s].kind # "register" THEN machine
   ELSE [machine EXCEPT !.spaces[s].registers = (decl.name :> decl) @@ @] :
     s \in DOMAIN machine.spaces \cap {decl.space}}

-----------------------------------------------------------------------------
\* build_patterns: the mask is the set of the bits an instruction fixes.

FormOf(machine, instr) ==
  UNION {Found(machine.spaces[instr.space].forms, f) : f \in instr.form}

Selected(machine, instr, selector) ==
  IF selector.kind = "field"
  THEN UNION {{field.spec : field \in subfield(f, selector.name)} : f \in FormOf(machine, instr)}
  ELSE UNION {from_spec_str(w, selector.bits) : w \in machine.spaces[instr.space].size_bits}

\* encode_constant: a later selector overrides the bits of an earlier one.
FixBits(fixed, spec, value) ==
  {[mask |-> fixed.mask \cup Mask(spec), value |-> encoded] :
     encoded \in write_bits(spec, fixed.value, value)}

Fixed(machine, instr, selectors) ==
  LET all[n \in 0 .. Len(selectors)] ==
        IF n = 0 THEN {[mask |-> {}, value |-> 0]}
        ELSE UNION {UNION {FixBits(fixed, spec, selectors[n].value) : fixed \in all[n - 1]} :
                      spec \in Selected(machine, instr, selectors[n].selector)}
  IN  all[Len(selectors)]

OperandNames(machine, instr) ==
  IF instr.operands # <<>> THEN instr.operands
  ELSE FlattenSeq(SetToSeq({f.operand_order : f \in FormOf(machine, instr)}))

\* default_display_template: the operands, with commas between.
DefaultTemplate(names) ==
  FoldLeftDomain(LAMBDA t, i : t \o (IF i = 1 THEN <<>> ELSE <<[kind |-> "text", text |-> ", "]>>)
                                 \o <<[kind |-> "name", name |-> names[i]]>>, <<>>, names)

Display(machine, instr, names) ==
  LET own == instr.display
      of_form == UNION {f.display : f \in FormOf(machine, instr)}
  IN  IF own # {} THEN own
      ELSE IF of_form # {} THEN of_form
      ELSE IF instr.form = {} \/ names = <<>> THEN {} ELSE {DefaultTemplate(names)}

ByteAligned(w) == w % BYTE = 0

build_pattern(machine, idx) ==
  LET instr == machine.instructions[idx]
      names == OperandNames(machine, instr)
  IN  UNION {{[instruction |-> idx, space |-> instr.space, form |-> instr.form,
               mask |-> fixed.mask, value |-> fixed.value, operand_names |-> names,
               display |-> Display(machine, instr, names), operator |-> instr.operator] :
                fixed \in Fixed(machine, instr, selectors)} : selectors \in instr.mask}

HasPattern(machine, instr) ==
  instr.mask # {} /\ instr.space \in DOMAIN machine.spaces /\ machine.spaces[instr.space].kind = "logic"

PatternBuilds(machine, idx) ==
  LET instr == machine.instructions[idx]
  IN  instr.mask # {} =>
        /\ instr.space \in DOMAIN machine.spaces
        /\ machine.spaces[instr.space].kind = "logic" =>
             /\ \E w \in machine.spaces[instr.space].size_bits : ByteAligned(w)
             /\ build_pattern(machine, idx) # {}

build_patterns(machine) ==
  LET Built(idx) == IF HasPattern(machine, machine.instructions[idx])
                    THEN SetToSeq(build_pattern(machine, idx)) ELSE <<>>
  IN  FlattenSeq([idx \in DOMAIN machine.instructions |-> Built(idx)])

-----------------------------------------------------------------------------
\* EnableExpr: a comparison of bits of the word, true as 1 and false as 0.

RECURSIVE EnableCompiles(_, _), EnableValue(_, _, _)
EnableCompiles(e, w) ==
  CASE e.kind = "literal" -> TRUE
    [] e.kind = "identifier" -> e.name \in {"true", "false"}
    [] e.kind = "bits" -> from_spec_str(w, e.bits) # {}
    [] e.kind = "binary" -> /\ e.op \in {"==", "!=", "&&", "||"}
                            /\ EnableCompiles(e.lhs, w) /\ EnableCompiles(e.rhs, w)

EnableValue(e, w, word) ==
  LET lhs == EnableValue(e.lhs, w, word)
      rhs == EnableValue(e.rhs, w, word)
      Truth(b) == IF b THEN 1 ELSE 0
  IN  CASE e.kind = "literal" -> e.value
        [] e.kind = "identifier" -> Truth(e.name = "true")
        [] e.kind = "bits" -> Max({read_bits(spec, word) : spec \in from_spec_str(w, e.bits)})
        [] e.kind = "binary" -> Truth(CASE e.op = "==" -> lhs = rhs
                                        [] e.op = "!=" -> lhs # rhs
                                        [] e.op = "&&" -> lhs # 0 /\ rhs # 0
                                        [] e.op = "||" -> lhs # 0 \/ rhs # 0)

Logic(machine) == {s \in DOMAIN machine.spaces : machine.spaces[s].kind = "logic"}

DecodeSpaceBuilds(space) ==
  \E w \in space.size_bits : ByteAligned(w) /\ \A e \in space.enable : EnableCompiles(e, w)

Rank(name) == CHOOSE i \in DOMAIN NameOrder : NameOrder[i] = name

NarrowestFirst(machine, s, t) ==
  LET ws == Max(machine.spaces[s].size_bits)
      wt == Max(machine.spaces[t].size_bits)
  IN  ws < wt \/ (ws = wt /\ Rank(s) < Rank(t))

build_decode_spaces(machine) ==
  SetToSortSeq(Logic(machine), LAMBDA s, t : NarrowestFirst(machine, s, t))

-----------------------------------------------------------------------------
\* compile_semantics: every macro and every instruction is analysed.
Analysed(machine) ==
  /\ \A i \in DOMAIN machine.macros : Analyzer(machine)!MacroDiags(machine.macros[i]) = {}
  /\ \A i \in DOMAIN machine.instructions :
       Analyzer(machine)!InstructionDiags(machine.instructions[i]) = {}

\* Only the declarations' own order within a kind matters: the kinds are taken
\* one after the other.
Declared(items) ==
  LET spaces == Named("space", items)
      params == Named("parameter", items)
      empty == [spaces |-> FoldLeft(LAMBDA f, d : (d.name :> SpaceInfo(d)) @@ f, <<>>, spaces),
                instructions |-> <<>>, macros |-> <<>>, parameters |-> <<>>]
      forms == Named("form", items)
      fields == Named("field", items)
      formed[n \in 0 .. Len(forms)] ==
        IF n = 0 THEN {empty} ELSE UNION {register_form(x, forms[n]) : x \in formed[n - 1]}
      fielded[n \in 0 .. Len(fields)] ==
        IF n = 0 THEN formed[Len(forms)]
        ELSE UNION {register_field(x, fields[n]) : x \in fielded[n - 1]}
  IN  {[x EXCEPT !.instructions = Named("instruction", items),
                 !.macros = Named("macro", items),
                 !.parameters = FoldLeft(LAMBDA f, d : (d.name :> d.value) @@ f, <<>>, params)] :
         x \in fielded[Len(fields)]}

\* from_documents, up to build_decode_spaces.
Assembled(items) ==
  {[patterns |-> build_patterns(x), decode_spaces |-> build_decode_spaces(x)] @@ x :
     x \in {x \in Declared(items) :
              /\ \A i \in DOMAIN x.instructions : PatternBuilds(x, i)
              /\ \A s \in Logic(x) : DecodeSpaceBuilds(x.spaces[s])}}

from_documents(items) ==
  {x \in Assembled(items) : Analyzer(x)!SchemaBuilds /\ Analysed(x)}
=============================================================================
