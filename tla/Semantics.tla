------------------------------ MODULE Semantics ------------------------------
(***************************************************************************)
(* The evaluation of semantics: src/src/soc/isa/semantics/{value, context, *)
(* bindings, expression, runtime, trace}.rs and machine/host.rs.  A value  *)
(* is a pair of its kind and its content.  The part of the world that an   *)
(* evaluation changes is m = [regs, trace, depth, deepest]: the registers, *)
(* the events traced, and the frames of the CallStack, now and at most.    *)
(* What is evaluated has one result [v, m, err], given as a set to bind it *)
(* by: what was done before an error stays done.                           *)
(***************************************************************************)
EXTENDS SemanticAnalyzer, Bitwise

CONSTANT MAX_CALL_DEPTH  \* frames of the CallStack (32)

int(n) == <<"int", n>>
bool(b) == <<"bool", b>>
word(w) == <<"word", w>>
tuple(values) == <<"tuple", values>>

Done(v, m) == [v |-> v, m |-> m, err |-> "none"]
Fail(err, m) == [v |-> tuple(<<>>), m |-> m, err |-> err]
Failed(r) == r.err # "none"

as_int(v) == CASE v[1] = "int" -> {v[2]}
               [] v[1] = "bool" -> {IF v[2] THEN 1 ELSE 0}
               [] OTHER -> {}
as_bool(v) == CASE v[1] = "bool" -> {v[2]}
                [] v[1] = "int" -> {v[2] # 0}
                [] OTHER -> {}
\* A result taken as an integer or as a boolean.
Taken(r, options) ==
  IF Failed(r) THEN r
  ELSE IF options = {} THEN Fail("coercion", r.m)
  ELSE Done(unwrap_or(options, 0), r.m)
AsInt(results) == {Taken(r, IF Failed(r) THEN {} ELSE as_int(r.v)) : r \in results}
AsBool(results) == {Taken(r, IF Failed(r) THEN {} ELSE as_bool(r.v)) : r \in results}

Emit(m, event) == [m EXCEPT !.trace = Append(@, event)]

\* ExecutionContext::get: what is assigned hides what is bound.
Lookup(env, name, m) ==
  IF name \in DOMAIN env.locals THEN Done(env.locals[name], m)
  ELSE IF name \in DOMAIN env.params THEN Done(env.params[name], m)
  ELSE Fail("undefined", m)

-----------------------------------------------------------------------------
\* SoftwareHost: the mask and the sign bit of a width of 0 are empty.
SignOf(n, width) == IF width = 0 THEN 0 ELSE BitsAt(n, width - 1, 1)

add_core(lhs, rhs, width, carry) ==
  LET a == lhs % 2^width
      b == rhs % 2^width
      sum == a + b + carry
  IN  [value |-> sum % 2^width, carry |-> sum >= 2^width,
       overflow |-> SignOf(a, width) = SignOf(b, width)
                    /\ SignOf(a, width) # SignOf(sum, width)]

\* Variant: the borrow is not taken off.
SubIgnoringBorrow(lhs, rhs, width, borrow) ==
  LET base == add_core(lhs, (2^width - 1) - (rhs % 2^width), width, 1)
  IN  [base EXCEPT !.carry = ~@]

HostSub(lhs, rhs, width, borrow) ==
  LET base == add_core(lhs, (2^width - 1) - (rhs % 2^width), width, 1 - borrow)
  IN  [value |-> base.value, carry |-> ~base.carry,
       overflow |-> SignOf(lhs, width) # SignOf(rhs, width)
                    /\ SignOf(lhs, width) # SignOf(base.value, width)]

HostMul(lhs, rhs, width) ==
  [low |-> (lhs * rhs) % 2^width, high |-> AsU64((lhs * rhs) \div 2^width)]

\* The event names the operands; the width and the whole result are kept with it.
HostEvent(op, args, result) == [kind |-> "host", op |-> op, args |-> args, result |-> result]

\* host_add, host_sub and host_mul; parse_width refuses what is no width.
HostArith(op, args, m) ==
  LET lhs == as_int(args[1])
      rhs == as_int(args[2])
      carry == as_bool(args[3])
      width == as_int(args[4])
      x == unwrap_or(lhs, 0)
      y == unwrap_or(rhs, 0)
      c == IF carry = {TRUE} THEN 1 ELSE 0
      w == unwrap_or(width, 0)
      r == IF op = <<"add">> THEN add_core(AsU64(x), AsU64(y), w, c)
           ELSE HostSub(AsU64(x), AsU64(y), w, c)
  IN  IF {} \in {lhs, rhs, width} \/ carry = {} THEN Fail("coercion", m)
      ELSE IF w \notin 0 .. BITS THEN Fail("width", m)
      ELSE Done(tuple(<<int(AsI64(r.value)), bool(r.carry)>>),
                Emit(m, HostEvent(op, <<x, y, c, w>>, r)))

HostProduct(args, m) ==
  LET operands == {as_int(args[i]) : i \in 1 .. 3}
      x == unwrap_or(as_int(args[1]), 0)
      y == unwrap_or(as_int(args[2]), 0)
      w == unwrap_or(as_int(args[3]), 0)
      r == HostMul(AsU64(x), AsU64(y), w)
  IN  IF {} \in operands THEN Fail("coercion", m)
      ELSE IF w \notin 0 .. BITS THEN Fail("width", m)
      ELSE Done(tuple(<<int(AsI64(r.low)), int(AsI64(r.high))>>),
                Emit(m, HostEvent(<<"mul">>, <<x, y, w>>, r)))

evaluate_host_call(call, args, m) ==
  IF call.subpath # <<>> THEN Fail("subpath", m)
  ELSE IF call.name \notin DOMAIN HostArity THEN Fail("unknown-host", m)
  ELSE IF Len(args) # HostArity[call.name] THEN Fail("call-arity", m)
  ELSE IF call.name = <<"mul">> THEN HostProduct(args, m)
  ELSE HostArith(call.name, args, m)

-----------------------------------------------------------------------------
\* Registers, and what the tracer prints of an event: format_value.
Shown(event) == event.value % 2^event.width

RegisterEvent(kind, r, subfield, value) ==
  [kind |-> kind, shown |-> r.shown, subfield |-> subfield, value |-> value, width |-> BitWidth(r)]

read_register(p, subfield, index, m) ==
  LET found == resolve(p, subfield, index)
      r == CHOOSE r \in found : TRUE
      value == ReadResolved(r, m.regs)
  IN  IF found = {} THEN Fail("register", m)
      ELSE Done(int(value), Emit(m, RegisterEvent("read", r, subfield, value)))

\* Variant: the event is traced although the write is refused.
TraceThenWrite(p, subfield, index, value, m) ==
  LET found == resolve(p, subfield, index)
      r == CHOOSE r \in found : TRUE
      traced == Emit(m, RegisterEvent("write", r, subfield, unwrap_or(as_int(value), 0)))
  IN  IF found = {} THEN Fail("register", m)
      ELSE IF as_int(value) = {} THEN Fail("coercion", m)
      ELSE IF WriteResolved(r, m.regs, unwrap_or(as_int(value), 0)) = {} THEN Fail("field", traced)
      ELSE Done(tuple(<<>>), [traced EXCEPT !.regs = unwrap_or(WriteResolved(r, @, unwrap_or(as_int(value), 0)), @)])

\* Variant: only a write of a whole register is traced.
WriteFieldSilently(p, subfield, index, value, m) ==
  LET found == resolve(p, subfield, index)
      r == CHOOSE r \in found : TRUE
      n == unwrap_or(as_int(value), 0)
      written == WriteResolved(r, m.regs, n)
      after == [m EXCEPT !.regs = unwrap_or(written, @)]
  IN  IF found = {} THEN Fail("register", m)
      ELSE IF as_int(value) = {} THEN Fail("coercion", m)
      ELSE IF written = {} THEN Fail("field", m)
      ELSE Done(tuple(<<>>), IF subfield = {} THEN Emit(after, RegisterEvent("write", r, subfield, n))
                             ELSE after)

write_register(p, subfield, index, value, m) ==
  LET found == resolve(p, subfield, index)
      r == CHOOSE r \in found : TRUE
      n == unwrap_or(as_int(value), 0)
      written == WriteResolved(r, m.regs, n)
  IN  IF found = {} THEN Fail("register", m)
      ELSE IF as_int(value) = {} THEN Fail("coercion", m)
      ELSE IF written = {} THEN Fail("field", m)
      ELSE Done(tuple(<<>>), Emit([m EXCEPT !.regs = unwrap_or(written, @)],
                                  RegisterEvent("write", r, subfield, n)))

evaluate_register_call(call, args, m) ==
  LET indices == {as_int(args[i]) : i \in DOMAIN args}
  IN  IF Len(args) > 1 THEN Fail("register-arity", m)
      ELSE IF Len(call.subpath) > 1 THEN Fail("subpath", m)
      ELSE IF {} \in indices THEN Fail("coercion", m)
      ELSE read_register(At(call.space, call.name), ToSet(call.subpath), UNION indices, m)

-----------------------------------------------------------------------------
\* ParameterBindings: the machine's parameters, then the arguments over them.
BaseParameters ==
  LET values == Machine.parameters
  IN  IF \E n \in DOMAIN values : values[n][1] = "int" /\ values[n][2] >= 2^(BITS - 1) THEN {}
      ELSE {values}

\* OperandBinder and HarnessExecutor::bind_parameters: the fields of a form.
Bound(bindings, names, values) ==
  FoldLeftDomain(LAMBDA f, i : (names[i] :> values[i]) @@ f, bindings, names)

IntOp(op, a, b) ==
  CASE op = "|" -> AsI64(AsU64(a) | AsU64(b))
    [] op = "^" -> AsI64(AsU64(a) ^^ AsU64(b))
    [] op = "&" -> AsI64(AsU64(a) & AsU64(b))
    [] op = "+" -> AsI64(a + b)
    [] op = "-" -> AsI64(a - b)

RECURSIVE Eval(_, _, _), EvalAll(_, _, _), Invoke(_, _, _), Statements(_, _, _), Execute(_, _, _)

\* evaluate_bit_slice: the bounds are checked before the operand is evaluated.
EvalSlice(e, env, m) ==
  IF e.last < e.first \/ e.last >= BITS THEN {Fail("slice", m)}
  ELSE {IF Failed(r) THEN r
        ELSE Done(int(AsI64(BitsAt(AsU64(r.v), e.first, e.last - e.first + 1))), r.m) :
          r \in AsInt(Eval(e.expr, env, m))}

\* The right operand of || and && is evaluated only when it matters.
EvalLogical(e, env, m) ==
  UNION {IF Failed(r) THEN {r}
         ELSE IF r.v = (e.op = "||") THEN {Done(bool(r.v), r.m)}
         ELSE {IF Failed(s) THEN s ELSE Done(bool(s.v), s.m) : s \in AsBool(Eval(e.rhs, env, r.m))} :
           r \in AsBool(Eval(e.lhs, env, m))}

\* Two booleans are compared as such, anything else as integers.
EvalEquality(e, env, m) ==
  {LET a == as_int(r.v[2][1])
       b == as_int(r.v[2][2])
   IN  IF Failed(r) THEN r
       ELSE IF {} \in {a, b} THEN Fail("coercion", r.m)
       ELSE Done(bool((a = b) = (e.op = "==")), r.m) : r \in EvalAll(<<e.lhs, e.rhs>>, env, m)}

\* int_binary and int_compare: the left operand is coerced before the right is evaluated.
EvalArithmetic(e, env, m) ==
  UNION {IF Failed(r) THEN {r}
         ELSE {IF Failed(s) THEN s
               ELSE Done(CASE e.op = "<" -> bool(r.v < s.v)
                           [] e.op = ">" -> bool(r.v > s.v)
                           [] OTHER -> int(IntOp(e.op, r.v, s.v)), s.m) :
                 s \in AsInt(Eval(e.rhs, env, r.m))} : r \in AsInt(Eval(e.lhs, env, m))}

EvalBinary(e, env, m) ==
  CASE e.op \in {"||", "&&"} -> EvalLogical(e, env, m)
    [] e.op \in {"==", "!="} -> EvalEquality(e, env, m)
    [] OTHER -> EvalArithmetic(e, env, m)

\* evaluate_macro_call and evaluate_instruction_call: a callee, or what is wrong.
Callee(names, program) == [err |-> "none", names |-> names, program |-> program]
NoCallee(err) == [err |-> err]

MacroCallee(call) ==
  LET found == Callable(Machine.macros, call.name)
  IN  IF call.subpath # <<>> THEN NoCallee("subpath")
      ELSE IF found = <<>> THEN NoCallee("unknown-macro")
      ELSE Callee(found[1].parameters, found[1].program)

InstructionCallee(call) ==
  LET found == Callable(Machine.instructions, call.name)
  IN  IF call.subpath # <<>> THEN NoCallee("subpath")
      ELSE IF found = <<>> THEN NoCallee("unknown-instruction")
      ELSE IF Len(found) > 1 THEN NoCallee("ambiguous-instruction")
      ELSE IF Operands(found[1]) = {} THEN NoCallee("unknown-form")
      ELSE IF found[1].program = <<>> THEN NoCallee("no-semantics")
      ELSE Callee(unwrap_or(Operands(found[1]), <<>>), found[1].program[1])

Call(callee, args, m) ==
  IF callee.err # "none" THEN {Fail(callee.err, m)}
  ELSE IF Len(callee.names) # Len(args) THEN {Fail("call-arity", m)}
  ELSE IF BaseParameters = {} THEN {Fail("parameters", m)}
  ELSE Invoke(callee.program, Bound(unwrap_or(BaseParameters, <<>>), callee.names, args), m)

evaluate_context_call(call, args, m) ==
  CASE call.context = "register" -> {evaluate_register_call(call, args, m)}
    [] call.context = "host" -> {evaluate_host_call(call, args, m)}
    [] OTHER -> Call(IF call.context = "macro" THEN MacroCallee(call) ELSE InstructionCallee(call),
                     args, m)

EvalAll(items, env, m) ==
  IF items = <<>> THEN {Done(tuple(<<>>), m)}
  ELSE UNION {IF Failed(r) THEN {r}
              ELSE {IF Failed(s) THEN s ELSE Done(tuple(<<r.v>> \o s.v[2]), s.m) :
                      s \in EvalAll(Tail(items), env, r.m)} : r \in Eval(items[1], env, m)}

EvalCall(e, env, m) ==
  UNION {IF Failed(r) THEN {r} ELSE evaluate_context_call(e, r.v[2], r.m) :
           r \in EvalAll(e.args, env, m)}

Literal(n, m) == IF n < 2^(BITS - 1) THEN Done(int(n), m) ELSE Fail("literal", m)

Eval(e, env, m) ==
  CASE e.kind = "number" -> {Literal(e.value, m)}
    [] e.kind \in {"variable", "parameter"} -> {Lookup(env, e.name, m)}
    [] e.kind = "call" -> EvalCall(e, env, m)
    [] e.kind = "tuple" -> EvalAll(e.items, env, m)
    [] e.kind = "binary" -> EvalBinary(e, env, m)
    [] e.kind = "slice" -> EvalSlice(e, env, m)

-----------------------------------------------------------------------------
\* assign_target: a result whose value is the frame, env, afterwards.
Local(env, names, values) == [env EXCEPT !.locals = Bound(@, names, values)]

\* evaluate_register_index: after the value, before the register is resolved.
Index(target, env, m) ==
  IF target.index = <<>> THEN {Done({}, m)}
  ELSE {IF Failed(r) THEN r ELSE Done({r.v}, r.m) : r \in AsInt(Eval(target.index[1], env, m))}

AssignRegister(target, value, env, m) ==
  {IF Failed(r) THEN r
   ELSE [write_register(At(target.space, target.name), target.subfield, r.v, value, r.m)
           EXCEPT !.v = env] : r \in Index(target, env, m)}

assign_target(target, value, env, m) ==
  CASE target.kind = "variable" -> {Done(Local(env, <<target.name>>, <<value>>), m)}
    [] target.kind = "tuple" ->
         {IF value[1] # "tuple" \/ Len(value[2]) # Len(target.names) THEN Fail("tuple", m)
          ELSE Done(Local(env, target.names, value[2]), m)}
    [] target.kind = "register" -> AssignRegister(target, value, env, m)

\* execute_statement: the frame, and the value if the statement returns one.
Stepped(results, returned) ==
  {IF Failed(r) THEN r ELSE Done([env |-> r.v, returned |-> returned], r.m) : r \in results}

Execute(stmt, env, m) ==
  UNION {IF Failed(r) THEN {r}
         ELSE CASE stmt.kind = "assign" -> Stepped(assign_target(stmt.target, r.v, env, r.m), {})
                [] stmt.kind = "expr" -> Stepped({Done(env, r.m)}, {})
                [] stmt.kind = "return" -> Stepped({Done(env, r.m)}, {r.v}) :
           r \in Eval(stmt.expr, env, m)}

\* execute_with_context, without its frame of the CallStack.
Statements(program, env, m) ==
  IF program = <<>> THEN {Done({}, m)}
  ELSE UNION {IF Failed(r) THEN {r}
              ELSE IF r.v.returned # {} THEN {Done(r.v.returned, r.m)}
              ELSE Statements(Tail(program), r.v.env, r.m) : r \in Execute(program[1], env, m)}

\* CallStack::enter, and the drop of its guard on every way out.
Enter(m) == [m EXCEPT !.depth = @ + 1, !.deepest = Max({@, m.depth + 1})]

\* Variant: an error leaves its frame on the stack.
LeaveIfDone(r) == IF Failed(r) THEN r ELSE [r EXCEPT !.m.depth = Max({@ - 1, 0})]
Leave(r) == [r EXCEPT !.m.depth = Max({@ - 1, 0})]

Frame(params) == [locals |-> <<>>, params |-> params]

\* execute_nested_program and execute_program: a program in a frame of its own.
Run(program, params, m) ==
  IF m.depth >= MAX_CALL_DEPTH THEN {Fail("depth", m)}
  ELSE {Leave(r) : r \in Statements(program, Frame(params), Enter(m))}

\* invoke_program: without a return, the value is the empty tuple.
Invoke(program, params, m) ==
  {IF Failed(r) THEN r ELSE Done(unwrap_or(r.v, tuple(<<>>)), r.m) : r \in Run(program, params, m)}
=============================================================================
