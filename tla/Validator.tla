------------------------------ MODULE Validator ------------------------------
(***************************************************************************)
(* The checks of parsed documents: src/src/soc/isa/validator/, with the    *)
(* states of spaces in src/src/soc/isa/{space, logic, register}.rs.  Items *)
(* are taken in the order of the documents; a diagnostic is its code.      *)
(***************************************************************************)
EXTENDS Integers, SequencesExt, FiniteSetsExt

\* Nothing seen yet.
NewValidator ==
  [kinds |-> <<>>, fields |-> <<>>, forms |-> <<>>, sizes |-> <<>>, enables |-> {}, diagnostics |-> {}]

push_validation_diagnostic(v, code) == [v EXCEPT !.diagnostics = @ \cup {code}]

Put(f, key, value) == (key :> value) @@ f
NamesIn(subfields) == {subfields[i].name : i \in DOMAIN subfields}

-----------------------------------------------------------------------------
\* validate_space: the first word size counts.

logic_word_size(space) == {space.word_sizes[i] : i \in DOMAIN space.word_sizes \cap {1}}

WithLogic(v, space) ==
  LET sized == IF logic_word_size(space) = {} THEN push_validation_diagnostic(v, "logic.word-size")
               ELSE [v EXCEPT !.forms = Put(@, space.name, <<>>),
                              !.sizes = Put(@, space.name, Max(logic_word_size(space)))]
  IN  IF space.enable = {} THEN sized ELSE [sized EXCEPT !.enables = @ \cup {space.name}]

validate_space(v, space) ==
  LET seen == [v EXCEPT !.kinds = Put(@, space.name, space.space_kind), !.fields = Put(@, space.name, <<>>)]
  IN  IF space.name \in DOMAIN v.kinds THEN push_validation_diagnostic(v, "duplicate-space")
      ELSE IF space.space_kind = "logic" THEN WithLogic(seen, space)
      ELSE IF space.enable # {} THEN push_validation_diagnostic(seen, "enable.logic-only")
      ELSE seen

-----------------------------------------------------------------------------
\* validate_field: a redirect that is wrong is reported, and the field is
\* registered all the same.

expand_field_names(field) ==
  IF field.range = {} THEN <<field.name>>
  ELSE LET r == CHOOSE r \in field.range : TRUE
       IN  [i \in 1 .. r.last - r.first + 1 |-> Append(field.name, r.first + i - 1)]

Placed(field) == field.offset # {} \/ field.size_bits # {} \/ field.reset # {} \/ field.descr # {}
is_subfield_append(field) == ~Placed(field) /\ field.redirect = {}
is_redirect_only(field) == field.redirect # {} /\ ~Placed(field) /\ field.subfields = <<>>

\* The path of a redirect: a field of a space, and at most a subfield of it.
RedirectDiags(v, field, redirect) ==
  LET space == IF redirect.space = {} THEN field.space ELSE CHOOSE s \in redirect.space : TRUE
      path == redirect.path
  IN  IF path = <<>> THEN {"redirect.missing-field"}
      ELSE IF space \notin DOMAIN v.fields THEN {"redirect.unknown-space"}
      ELSE IF path[1] \notin DOMAIN v.fields[space] THEN {"redirect.unknown-field"}
      ELSE IF Len(path) = 1 THEN {}
      ELSE IF path[2] \notin v.fields[space][path[1]] THEN {"redirect.unknown-subfield"}
      ELSE IF Len(path) > 2 THEN {"redirect.depth"} ELSE {}

\* Variant: a redirect may name what is declared later, or never.
RedirectLater(v, field) == v

ensure_redirect_target_defined(v, field) ==
  [v EXCEPT !.diagnostics = @ \cup UNION {RedirectDiags(v, field, r) : r \in field.redirect}]

\* register_field, one name after the other: what comes before the name that
\* is refused stays registered.
FieldClash(known, field, name) ==
  IF is_subfield_append(field)
  THEN IF name \in DOMAIN known THEN {} ELSE {"field.append-missing"}
  ELSE IF name \in DOMAIN known /\ ~is_redirect_only(field) THEN {"duplicate-field"} ELSE {}

Registered(known, field, name) ==
  IF is_subfield_append(field) THEN [known EXCEPT ![name] = @ \cup NamesIn(field.subfields)]
  ELSE IF name \in DOMAIN known THEN known ELSE Put(known, name, NamesIn(field.subfields))

RegisterName(state, field, name) ==
  LET clash == FieldClash(state.known, field, name)
  IN  IF state.clash # {} THEN state
      ELSE IF clash # {} THEN [state EXCEPT !.clash = clash]
      ELSE [state EXCEPT !.known = Registered(@, field, name)]

register_field(v, field) ==
  LET names == expand_field_names(field)
      after[n \in 0 .. Len(names)] ==
        IF n = 0 THEN [known |-> v.fields[field.space], clash |-> {}]
        ELSE RegisterName(after[n - 1], field, names[n])
      end == after[Len(names)]
  IN  IF is_subfield_append(field) /\ field.subfields = <<>>
      THEN push_validation_diagnostic(v, "field.append-empty")
      ELSE [v EXCEPT !.fields[field.space] = end.known, !.diagnostics = @ \cup end.clash]

validate_field(v, field) ==
  LET checked == ensure_redirect_target_defined(v, field)
  IN  IF field.space \in DOMAIN v.fields THEN register_field(checked, field)
      ELSE push_validation_diagnostic(checked, "unknown-space-field")

-----------------------------------------------------------------------------
\* validate_form and validate_instruction.

IsLogic(v, space) == space \in DOMAIN v.forms

Inherited(v, form) == UNION {v.forms[form.space][p] : p \in form.parent}

FormDiags(v, form) ==
  CASE ~IsLogic(v, form.space) -> {"logic.form-space"}
    [] form.name \in DOMAIN v.forms[form.space] -> {"logic.form-duplicate"}
    [] form.subfields = <<>> -> {"logic.form-empty"}
    [] ~(form.parent \subseteq DOMAIN v.forms[form.space]) -> {"logic.form-parent"}
    [] Cardinality(NamesIn(form.subfields) \ Inherited(v, form)) < Len(form.subfields) ->
         {"logic.form-subfield-duplicate"}
    [] OTHER -> {}

validate_form(v, form) ==
  IF FormDiags(v, form) = {}
  THEN [v EXCEPT !.forms[form.space] = Put(@, form.name, NamesIn(form.subfields) \cup Inherited(v, form))]
  ELSE [v EXCEPT !.diagnostics = @ \cup FormDiags(v, form)]

MaskNames(instr) ==
  UNION {{mask[i].selector.name : i \in {i \in DOMAIN mask : mask[i].selector.kind = "field"}} : mask \in instr.mask}

InstructionDiags(v, instr) ==
  CASE ~IsLogic(v, instr.space) -> {"logic.instruction-space"}
    [] instr.form = {} -> {"logic.instruction-form-missing"}
    [] ~(instr.form \subseteq DOMAIN v.forms[instr.space]) -> {"logic.instruction-form"}
    [] ~(MaskNames(instr) \subseteq UNION {v.forms[instr.space][f] : f \in instr.form}) -> {"logic.mask-field"}
    [] OTHER -> {}

validate_instruction(v, instr) == [v EXCEPT !.diagnostics = @ \cup InstructionDiags(v, instr)]

-----------------------------------------------------------------------------
\* ensure_enable_coverage: of spaces of several sizes, every size but the
\* largest has a space with a predicate.
ensure_enable_coverage(v) ==
  LET sizes == {v.sizes[s] : s \in DOMAIN v.sizes}
      Uncovered == {w \in sizes \ {Max(sizes)} : {s \in DOMAIN v.sizes : v.sizes[s] = w} \cap v.enables = {}}
  IN  IF Cardinality(sizes) > 1 /\ Uncovered # {} THEN push_validation_diagnostic(v, "enable.missing") ELSE v

ValidateItem(v, item) ==
  CASE item.kind = "space" -> validate_space(v, item)
    [] item.kind = "field" -> validate_field(v, item)
    [] item.kind = "form" -> validate_form(v, item)
    [] item.kind = "instruction" -> validate_instruction(v, item)
    [] OTHER -> v

\* The diagnostics of the items of all documents.
validate(items) ==
  LET after[n \in 0 .. Len(items)] ==
        IF n = 0 THEN {NewValidator} ELSE {ValidateItem(v, items[n]) : v \in after[n - 1]}
  IN  UNION {ensure_enable_coverage(v).diagnostics : v \in after[Len(items)]}
=============================================================================
