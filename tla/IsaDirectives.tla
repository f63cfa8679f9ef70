---------------------------- MODULE IsaDirectives ----------------------------
(***************************************************************************)
(* One directive of a file: src/src/loader/isa/parser/{directives, space,  *)
(* space_context, parameters, specification}.rs.  The items are those that *)
(* MachineDescription reads; what may be absent is a set of at most one    *)
(* value, and a block of semantics is the tokens of its text.              *)
(***************************************************************************)
EXTENDS IsaParser

\* Attributes stand behind the name up to the next directive: "name = value".
Slot(attr) == CASE attr = "size" -> "size_bits" [] attr = "disp" -> "display"
                [] attr = "op" -> "operator" [] OTHER -> attr

Given(d, attrs) == \E attr \in attrs : d[Slot(attr)] # {}
Set(d, attr, r) == After(r, LAMBDA value, rest : Read([d EXCEPT ![Slot(attr)] = {value}], rest))

-----------------------------------------------------------------------------
\* parse_space_directive: word may be repeated; the other values are replaced.

SpaceKinds == <<"rw">> :> "rw" @@ <<"ro">> :> "ro" @@ <<"memio">> :> "memio"
                @@ <<"register">> :> "register" @@ <<"logic">> :> "logic"
Endians == <<"big">> :> "big" @@ <<"little">> :> "little"

NewSpace(name) ==
  [kind |-> "space", name |-> name, space_kind |-> "none", word_sizes |-> <<>>, addr |-> {},
   align |-> {}, endianness |-> "big", enable |-> {}]

\* An identifier that stands for a value of a table.
OneOf(table, tokens) ==
  After(expect("identifier", tokens), LAMBDA t, rest :
    IF t.name \in DOMAIN table THEN Read(table[t.name], rest) ELSE Error("parser", rest))

SpaceValue(attr, tokens, d) ==
  CASE attr \in {"addr", "align"} -> Set(d, attr, Literal(U32, tokens))
    [] attr = "word" ->
         After(Literal(U32, tokens), LAMBDA n, rest : Read([d EXCEPT !.word_sizes = Append(@, n)], rest))
    [] attr = "type" ->
         After(OneOf(SpaceKinds, tokens), LAMBDA kind, rest : Read([d EXCEPT !.space_kind = kind], rest))
    [] attr = "endian" ->
         After(OneOf(Endians, tokens), LAMBDA order, rest : Read([d EXCEPT !.endianness = order], rest))
    [] attr = "enbl" ->
         IF d.enable # {} THEN Error("parser", tokens)
         ELSE After(EnableBlock(tokens), LAMBDA e, rest : Read([d EXCEPT !.enable = {e}], rest))
    [] OTHER -> Error("parser", tokens)

-----------------------------------------------------------------------------
\* parse_register_form: each attribute once, and a redirect has no place.

NewField(space, name, range) ==
  [kind |-> "field", space |-> space, name |-> name, range |-> range, offset |-> {}, size_bits |-> {},
   reset |-> {}, descr |-> {}, redirect |-> {}, subfields |-> <<>>, display |-> {}, listed |-> FALSE]

Placement == {"offset", "size", "reset"}

Redirect(tokens) ==
  After(Segments(tokens, <<>>), LAMBDA path, rest : Read(resolve_reference_path(path), rest))

FieldSize(tokens) ==
  After(Literal(U64_LIMIT, tokens), LAMBDA size, rest :
    IF size \in 1 .. MAX_SIZE THEN Read(size, rest) ELSE Error("parser", rest))

FieldValue(attr, tokens, d) ==
  CASE attr \in Placement ->
         IF d.redirect # {} \/ Given(d, {attr}) THEN Error("parser", tokens)
         ELSE Set(d, attr, IF attr = "size" THEN FieldSize(tokens) ELSE Literal(U64_LIMIT, tokens))
    [] attr \in {"descr", "disp"} ->
         IF Given(d, {attr}) THEN Error("parser", tokens) ELSE Set(d, attr, Text(tokens))
    [] attr = "redirect" ->
         IF Given(d, Placement \cup {attr}) THEN Error("parser", tokens) ELSE Set(d, attr, Redirect(tokens))
    [] attr = "subfields" ->
         IF d.listed THEN Error("parser", tokens)
         ELSE After(SubfieldsBlock(tokens), LAMBDA subs, rest :
                Read([d EXCEPT !.subfields = subs, !.listed = TRUE], rest))
    [] OTHER -> Error("parser", tokens)

-----------------------------------------------------------------------------
\* parse_logic_context_directive: a form, or an instruction of a form.

NewMember(space, qualifier, name, operands) ==
  [space |-> space, qualifier |-> qualifier, name |-> name, operands |-> operands, descr |-> {}, mask |-> {},
   subfields |-> {}, semantics |-> {}, display |-> {}, operator |-> {}]

LogicValue(attr, tokens, d) ==
  IF attr \notin {"descr", "mask", "subfields", "semantics", "disp", "op"} THEN Error("parser", tokens)
  ELSE IF Given(d, {attr}) THEN Error("parser", tokens)
  ELSE Set(d, attr, CASE attr = "mask" -> MaskBlock(tokens)
                      [] attr = "subfields" -> SubfieldsBlock(tokens)
                      [] attr = "semantics" -> SemanticBlock(tokens)
                      [] OTHER -> Text(tokens))

\* What has subfields is a form, and has nothing of an instruction.
IsForm(d) == d.subfields # {}
FormFits(d) == d.operands = <<>> /\ ~Given(d, {"mask", "semantics", "op"})

Form(d) ==
  [kind |-> "form", space |-> d.space, name |-> d.name, parent |-> d.qualifier, display |-> d.display,
   subfields |-> CHOOSE s \in d.subfields : TRUE]
Instruction(d) ==
  [kind |-> "instruction", space |-> d.space, name |-> d.name, form |-> d.qualifier, operands |-> d.operands,
   mask |-> d.mask, display |-> d.display, operator |-> d.operator, semantics |-> d.semantics]

-----------------------------------------------------------------------------
Value(kind, attr, tokens, d) ==
  CASE kind = "space" -> SpaceValue(attr, tokens, d)
    [] kind = "field" -> FieldValue(attr, tokens, d)
    [] kind = "logic" -> LogicValue(attr, tokens, d)

RECURSIVE Attributes(_, _, _)
Attributes(kind, tokens, d) ==
  IF AtBoundary(tokens) THEN Read(d, tokens)
  ELSE After(expect("identifier", tokens), LAMBDA name, more :
       After(expect("=", more), LAMBDA eq, text :
       After(Value(kind, name.name[1], text, d), LAMBDA e, rest : Attributes(kind, rest, e))))

SpaceDirective(tokens) ==
  After(expect("identifier", tokens), LAMBDA name, more :
  After(Attributes("space", more, NewSpace(name.name)), LAMBDA d, rest :
    IF d.space_kind = "none" \/ d.addr = {} \/ d.word_sizes = <<>> THEN Error("parser", rest)
    ELSE Read(d, rest)))

FieldContext(space, tokens) ==
  After(expect("identifier", tokens), LAMBDA name, more :
  After(Index(more), LAMBDA range, rest : Attributes("field", rest, NewField(space, name.name, range))))

\* The "::" qualifier in front of a name.
Qualifier(tokens) ==
  IF Peek(tokens) # "::" THEN Read({}, tokens)
  ELSE After(expect("identifier", Tail(tokens)), LAMBDA t, rest : Read({t.name}, rest))

\* What has subfields is a form; an instruction names its form.
Member(d, rest) ==
  IF IsForm(d) THEN IF FormFits(d) THEN Read(Form(d), rest) ELSE Error("parser", rest)
  ELSE IF d.qualifier = {} THEN Error("parser", rest)
  ELSE Read(Instruction(d), rest)

LogicContext(space, tokens) ==
  After(Qualifier(tokens), LAMBDA qualifier, first :
  After(expect("identifier", first), LAMBDA name, second :
  After(OperandList(second), LAMBDA operands, third :
  After(Attributes("logic", third, NewMember(space, qualifier, name.name, operands)), Member))))

\* :fileset and :param.
ParameterValue(t) ==
  IF t.kind = "number" THEN IF t.value \in 0 .. U64_LIMIT - 1 THEN {<<"int", t.value>>} ELSE {}
  ELSE IF t.kind \in {"string", "identifier"} THEN {<<"word", t.name>>} ELSE {}

Parameter(name, t, rest) ==
  IF ParameterValue(t) = {} THEN Error("parser", rest)
  ELSE Read([kind |-> "parameter", name |-> name, value |-> CHOOSE v \in ParameterValue(t) : TRUE], rest)

ParameterDirective(tokens) ==
  After(expect("identifier", tokens), LAMBDA name, more :
  After(expect("=", more), LAMBDA eq, text :
  After(consume(text), LAMBDA t, rest : Parameter(name.name, t, rest))))

IncludeDirective(tokens, allow_include) ==
  IF allow_include
  THEN After(Text(tokens), LAMBDA path, rest : Read([kind |-> "include", path |-> path], rest))
  ELSE Error("parser", tokens)

MacroDirective(tokens) ==
  After(expect("identifier", tokens), LAMBDA name, more :
  After(expect("(", more), LAMBDA open, list :
  After(Names(list, <<>>, FALSE), LAMBDA params, block :
  After(SemanticBlock(block), LAMBDA body, rest :
    Read([kind |-> "macro", name |-> name.name, parameters |-> params, semantics |-> {body}], rest)))))

\* Any other name is the one of a space declared before.
Dispatch(name, tokens, known, allow_include) ==
  CASE name \in {<<"fileset">>, <<"param">>} -> ParameterDirective(tokens)
    [] name = <<"space">> -> SpaceDirective(tokens)
    [] name = <<"include">> -> IncludeDirective(tokens, allow_include)
    [] name = <<"macro">> -> MacroDirective(tokens)
    [] OTHER -> IF name \notin DOMAIN known THEN Error("parser", tokens)
                ELSE IF known[name] = "logic" THEN LogicContext(name, tokens)
                ELSE FieldContext(name, tokens)

\* ensure_directive_boundary consumes what is left over.
RECURSIVE Leftover(_)
Leftover(tokens) ==
  IF AtBoundary(tokens) THEN Error("parser", tokens)
  ELSE After(consume(tokens), LAMBDA t, rest : Leftover(rest))

parse_directive(tokens, known, allow_include) ==
  After(expect(":", tokens), LAMBDA colon, more :
  After(expect("identifier", more), LAMBDA name, text :
  After(Dispatch(name.name, text, known, allow_include), LAMBDA item, rest :
    IF AtBoundary(rest) THEN Read(item, rest) ELSE Leftover(rest))))

\* register_space.
Declares(r) == IF Ok(r) /\ r.v.kind = "space" THEN r.v.name :> r.v.space_kind ELSE <<>>

\* Variant: the rest of the file is given up.
GiveUp(tokens) == <<>>

\* synchronize_directive: to the next ":", or behind what the lexer rejects.
synchronize_directive(tokens) ==
  LET stop == SelectInSeq(tokens, LAMBDA t : t.kind \in {":", "unknown"})
  IN  IF stop = 0 THEN <<>>
      ELSE SubSeq(tokens, IF tokens[stop].kind = ":" THEN stop ELSE stop + 1, Len(tokens))
=============================================================================
