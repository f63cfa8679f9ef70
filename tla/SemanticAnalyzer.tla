-------------------------- MODULE SemanticAnalyzer --------------------------
(***************************************************************************)
(* The checks a program passes before it runs:                             *)
(* src/src/soc/isa/semantics/analyzer.rs.  An analysis is the set of the   *)
(* codes of its diagnostics.                                               *)
(***************************************************************************)
EXTENDS RegisterSchema

First(s) == {s[i] : i \in DOMAIN s \cap {1}}
Callable(items, name) == SelectSeq(items, LAMBDA item : item.name = name)

\* instruction_operands: those of the instruction, or those of its form.
Operands(instruction) ==
  IF instruction.operands # <<>> \/ instruction.form = {} THEN {instruction.operands}
  ELSE {Spaces[instruction.space].forms[f].operand_order :
          f \in {f \in instruction.form : /\ instruction.space \in DOMAIN Spaces
                                          /\ f \in DOMAIN Spaces[instruction.space].forms}}

HostArity == (<<"add">> :> 4) @@ (<<"sub">> :> 4) @@ (<<"mul">> :> 3)

-----------------------------------------------------------------------------
\* The register itself, or the one that a label belongs to.
Meant(p) == IF Declared(p) THEN {p} ELSE {At(p.space, Info(e[1]).name) : e \in Labelled(p)}

\* validate_register_components: the fields are those of the declaration.
RegisterDiags(space, name, subfield) ==
  LET p == At(space, name)
  IN  IF space \notin DOMAIN Spaces THEN {"unknown-register-space"}
      ELSE IF Spaces[space].kind # "register" THEN {"invalid-register-space"}
      ELSE IF Meant(p) = {} THEN {"unknown-register"}
      ELSE IF \A q \in Meant(p) : subfield \subseteq {f.name : f \in ToSet(Info(q).subfields)}
           THEN {} ELSE {"unknown-register-subfield"}

CalleeDiags(found, operands, call) ==
  IF Len(found) = 0 THEN {"unknown-" \o call.context}
  ELSE IF call.context = "instruction" /\ Len(found) > 1 THEN {"ambiguous-instruction"}
  ELSE IF operands = {} THEN {"unknown-form"}
  ELSE IF Len(call.args) \in {Len(names) : names \in operands} THEN {} ELSE {"call-arity"}

CallDiags(call) ==
  CASE call.context = "register" ->
         RegisterDiags(call.space, call.name, First(call.subpath))
    [] call.context = "macro" ->
         LET found == Callable(Machine.macros, call.name)
         IN  CalleeDiags(found, {m.parameters : m \in First(found)}, call)
    [] call.context = "instruction" ->
         LET found == Callable(Machine.instructions, call.name)
         IN  CalleeDiags(found, UNION {Operands(i) : i \in First(found)}, call)
    [] call.context = "host" ->
         (IF call.name \notin DOMAIN HostArity THEN {"unknown-host"}
          ELSE IF Len(call.args) # HostArity[call.name] THEN {"call-arity"} ELSE {})

-----------------------------------------------------------------------------
\* validate_expr: a variable must have been assigned, a parameter be bound.
RECURSIVE ExprDiags(_, _, _)
ExprDiags(e, params, locals) ==
  LET All(items) == UNION {ExprDiags(items[i], params, locals) : i \in DOMAIN items}
  IN  CASE e.kind = "number" -> {}
        [] e.kind = "variable" -> IF e.name \in locals THEN {} ELSE {"undefined-variable"}
        [] e.kind = "parameter" -> IF e.name \in params THEN {} ELSE {"undefined-parameter"}
        [] e.kind = "call" -> All(e.args) \cup CallDiags(e)
        [] e.kind = "tuple" -> All(e.items)
        [] e.kind = "binary" -> All(<<e.lhs, e.rhs>>)
        [] e.kind = "slice" -> All(<<e.expr>>)

\* bind_target.
Defines(stmt) ==
  CASE stmt.kind # "assign" -> {}
    [] stmt.target.kind = "variable" -> {stmt.target.name}
    [] stmt.target.kind = "tuple" -> ToSet(stmt.target.names)
    [] OTHER -> {}

TargetDiags(stmt) ==
  IF stmt.kind = "assign" /\ stmt.target.kind = "register"
  THEN RegisterDiags(stmt.target.space, stmt.target.name, stmt.target.subfield) ELSE {}

\* Variant: a statement sees every name the program assigns.
HoistedDiags(program, params) ==
  UNION {ExprDiags(program[i].expr, params, UNION {Defines(program[j]) : j \in DOMAIN program})
           \cup TargetDiags(program[i]) : i \in DOMAIN program}

\* validate_program: each statement sees the names the earlier ones assign.
ProgramDiags(program, params) ==
  UNION {ExprDiags(program[i].expr, params, UNION {Defines(program[j]) : j \in 1 .. i - 1})
           \cup TargetDiags(program[i]) : i \in DOMAIN program}

\* analyze_macro and analyze_instruction.
Analysis(program, names) == ProgramDiags(program, DOMAIN Machine.parameters \cup ToSet(names))
MacroDiags(mac) == Analysis(mac.program, mac.parameters)
InstructionDiags(instruction) ==
  IF instruction.program = <<>> THEN {}
  ELSE IF Operands(instruction) = {} THEN {"unknown-form"}
  ELSE UNION {Analysis(instruction.program[1], names) : names \in Operands(instruction)}
=============================================================================
