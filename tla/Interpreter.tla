----------------------------- MODULE Interpreter -----------------------------
(***************************************************************************)
(* SemanticRuntime::execute_program as a machine that takes one statement  *)
(* per step, from any contents of the registers.  A program has a context  *)
(* and a CallStack of its own; an error ends it where it stands.           *)
(***************************************************************************)
EXTENDS Semantics

CONSTANTS
  Programs,      \* programs run, with the names of the parameters they are given
  Arguments,     \* values given to the parameters
  Contents       \* registers at the start

Syntax == INSTANCE SemanticProgram

VARIABLES
  program,   \* the program that runs, or ran last: [body, params]
  left,      \* its statements still to be executed
  env,       \* ExecutionContext: locals and params
  m,         \* registers, the trace of this program, and its CallStack
  outcome,   \* "idle", "running", "none" (it ended), or the error that ended it
  before     \* history: the registers when the program began

vars == <<program, left, env, m, outcome, before>>

World(regs) == [regs |-> regs, trace |-> <<>>, depth |-> 0, deepest |-> 0]

Given(p, values) == BaseParameters # {} /\ Len(values) = Len(p.params)

Init ==
  /\ program = [body |-> <<>>, params |-> <<>>]
  /\ left = <<>> /\ env = Frame(<<>>)
  /\ \E regs \in Contents : m = World(regs) /\ before = regs
  /\ outcome = "idle"

\* execute_program: a new context and a new CallStack.
Begin(p, values) ==
  /\ outcome = "idle"
  /\ Given(p, values)
  /\ program' = p /\ left' = p.body
  /\ env' = Frame(Bound(unwrap_or(BaseParameters, <<>>), p.params, values))
  /\ m' = Enter(World(m.regs)) /\ before' = m.regs
  /\ outcome' = "running"

\* What becomes of the program with the result of its next statement.
Continue(r) ==
  IF r.err # "none" THEN m' = Leave(r).m /\ outcome' = r.err /\ UNCHANGED env
  ELSE IF r.v.returned # {} THEN m' = Leave(r).m /\ outcome' = "none" /\ UNCHANGED env
  ELSE m' = r.m /\ env' = r.v.env /\ UNCHANGED outcome

ExecuteStatement ==
  /\ outcome = "running" /\ left # <<>>
  /\ left' = Tail(left)
  /\ \E r \in Execute(left[1], env, m) : Continue(r)
  /\ UNCHANGED <<program, before>>

\* The last statement was executed.
Finish ==
  /\ outcome = "running" /\ left = <<>>
  /\ m' = Leave(Done({}, m)).m /\ outcome' = "none"
  /\ UNCHANGED <<program, left, env, before>>

Next ==
  \/ \E p \in Programs, values \in Arguments : Begin(p, values)
  \/ ExecuteStatement
  \/ Finish

Spec == Init /\ [][Next]_vars

-----------------------------------------------------------------------------
\* CallStack: no nesting of macros and instructions goes past the limit, and
\* whatever way calls end, errors included, their frames are gone.
FramesReleased ==
  /\ m.deepest <= MAX_CALL_DEPTH
  /\ m.depth = IF outcome = "running" THEN 1 ELSE 0

Analysed == {"undefined", "call-arity", "unknown-macro", "unknown-instruction",
             "ambiguous-instruction", "unknown-host", "unknown-form", "parameters"}

\* SemanticAnalyzer: a program it accepts does not fail for a name that is not
\* there or a call with the wrong number of arguments, in any nested call.
AnalysisSound ==
  outcome \in Analysed => ProgramDiags(program.body, DOMAIN env.params) # {}

\* The program in text is parsed back: as few parentheses as precedence allows.
RECURSIVE Text(_, _)
Sign(kind) == [kind |-> kind, sigil |-> "", name |-> <<>>]
Name(sigil, name) == [kind |-> "identifier", sigil |-> sigil, name |-> name]
Listed(texts) ==
  FoldLeftDomain(LAMBDA all, i : all \o (IF i = 1 THEN <<>> ELSE <<Sign(",")>>) \o texts[i], <<>>, texts)
Enclosed(text) == <<Sign("(")>> \o text \o <<Sign(")")>>
Level(op) == CHOOSE i \in 1 .. 8 :
  op \in <<{"||"}, {"&&"}, {"|"}, {"^"}, {"&"}, {"==", "!="}, {"<", ">"}, {"+", "-"}>>[i]
Prefix == [register |-> <<"reg">>, macro |-> <<"macro">>, instruction |-> <<"insn">>, host |-> <<"host">>]
Segments(path) == FlattenSeq([i \in DOMAIN path |-> <<Sign("::"), Name("", path[i])>>])
Called(e) ==
  <<Name("$", e.space)>> \o Segments(<<e.name>> \o e.subpath)
    \o (IF e.args = <<>> THEN <<>> ELSE Enclosed(Listed([i \in DOMAIN e.args |-> Text(e.args[i], 1)])))
Text(e, level) ==
  CASE e.kind = "number" -> <<[kind |-> "number", value |-> e.value]>>
    [] e.kind = "variable" -> <<Name("", e.name)>>
    [] e.kind = "parameter" -> <<Name("#", e.name)>>
    [] e.kind = "call" -> Called(e)
    [] e.kind = "tuple" -> Enclosed(Listed([i \in DOMAIN e.items |-> Text(e.items[i], 1)]))
    [] e.kind = "slice" -> Text(e.expr, 9) \o <<[kind |-> "bits", first |-> e.first, last |-> e.last]>>
    [] e.kind = "binary" ->
         LET text == Text(e.lhs, Level(e.op)) \o <<Sign(e.op)>> \o Text(e.rhs, Level(e.op) + 1)
         IN  IF Level(e.op) < level THEN Enclosed(text) ELSE text
TargetText(t) ==
  CASE t.kind = "variable" -> <<Name("", t.name)>>
    [] t.kind = "tuple" -> Enclosed(Listed([i \in DOMAIN t.names |-> <<Name("", t.names[i])>>]))
    [] OTHER -> Called([space |-> t.space, name |-> t.name, subpath |-> SetToSeq(t.subfield),
                        args |-> t.index])
StatementText(s) ==
  (IF s.kind = "assign" THEN TargetText(s.target) \o <<Sign("=")>> ELSE <<>>)
    \o Text(s.expr, 1) \o <<Sign(";")>>

\* SemanticProgram::parse: what a program means is what its text says.
ParsesBack ==
  Syntax!parse(FlattenSeq([i \in DOMAIN program.body |-> StatementText(program.body[i])]))
    = {program.body}

-----------------------------------------------------------------------------
Writes(events) == SelectSeq(events, LAMBDA e : e.kind = "write")
NamedBy(e) == resolve(e.shown, e.subfield, {})
Replay(regs, events) ==
  FoldLeft(LAMBDA now, e : LET r == CHOOSE r \in NamedBy(e) : TRUE
                           IN  unwrap_or(WriteResolved(r, now, e.value), now), regs, events)

\* RegisterWrite events: the registers are those the program found, with the
\* writes it traced done again, whenever their names still tell which register
\* (the name of an alias of a range does not say the index).
TraceReplays ==
  LET writes == Writes(m.trace)
  IN  (\A i \in DOMAIN writes : NamedBy(writes[i]) # {}) => m.regs = Replay(before, writes)

Signed(n, w) == IF w > 0 /\ (n % 2^w) >= 2^(w - 1) THEN (n % 2^w) - 2^w ELSE n % 2^w
FitsSigned(n, w) == w = 0 \/ n \in -(2^(w - 1)) .. 2^(w - 1) - 1

\* SoftwareHost: sums, differences and products are those of the integers, and
\* the flags say exactly when the unsigned or the signed result does not fit.
HostExact ==
  \A i \in DOMAIN m.trace :
    LET e == m.trace[i]
        r == e.result
        x == AsU64(e.args[1])
        y == AsU64(e.args[2])
        w == e.args[Len(e.args)]
        c == e.args[3]
    IN  e.kind = "host" =>
          CASE e.op = <<"add">> ->
                 /\ r.value + (IF r.carry THEN 2^w ELSE 0) = (x % 2^w) + (y % 2^w) + c
                 /\ w > 0 => r.overflow = ~FitsSigned(Signed(x, w) + Signed(y, w) + c, w)
            [] e.op = <<"sub">> ->
                 /\ (x % 2^w) - (y % 2^w) - c = r.value - (IF r.carry THEN 2^w ELSE 0)
                 /\ w > 0 => r.overflow = ~FitsSigned(Signed(x, w) - Signed(y, w) - c, w)
            [] e.op = <<"mul">> -> r.low + r.high * 2^w = (x * y) % 2^(BITS + w)

\* The bits of a register that a traced write may change.
Footprint(c, events) ==
  UNION {UNION {IF r.cell # c THEN {}
                ELSE IF r.field = {} THEN 0 .. r.width - 1 ELSE Mask(unwrap_or(r.field, {})) :
                  r \in NamedBy(events[i])} : i \in DOMAIN events}

\* ResolvedRegister::write: a statement leaves every bit of every register
\* alone that the events it traces do not name.
FieldFrame ==
  [][LET new == Writes(SubSeq(m'.trace, Len(m.trace) + 1, Len(m'.trace)))
     IN  (outcome = "running" /\ \A i \in DOMAIN new : NamedBy(new[i]) # {}) =>
           \A c \in Cells : \A b \in (0 .. BITS - 1) \ Footprint(c, new) :
             BitsAt(m'.regs[c], b, 1) = BitsAt(m.regs[c], b, 1)]_vars

\* RegisterWrite and RegisterRead events: what the tracer prints of the last
\* one is what the register, or the field of it, then holds.
TraceShowsRegister ==
  [][LET e == m'.trace[Len(m'.trace)]
     IN  (Len(m'.trace) > Len(m.trace) /\ e.kind # "host" /\ NamedBy(e) # {}) =>
           LET r == CHOOSE r \in NamedBy(e) : TRUE
           IN  Shown(e) = ReadResolved(r, m'.regs) % 2^e.width]_vars
=============================================================================
