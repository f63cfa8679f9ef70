------------------------------ MODULE IsaParser ------------------------------
(***************************************************************************)
(* The parser of .isa, .isaext and .coredef files:                         *)
(* src/src/loader/isa/parser/.  A token is [kind, name, sigil, value,      *)
(* first, last] as in SemanticProgram; a token of kind "unknown" is one    *)
(* the lexer rejects, and behind the last token there is "EOF" for ever.   *)
(* A parser returns [err, v, rest]: what it read, or the phase that failed *)
(* ("parser" or "lexer"), and the tokens it has not consumed.  Texts that  *)
(* the code compares without their case are equal up to case.              *)
(***************************************************************************)
EXTENDS Integers, SequencesExt

CONSTANTS
  U32,          \* 2^32
  U64_LIMIT,    \* 2^64
  MAX_SIZE,     \* the widest field (512)
  MAX_INDICES   \* indices of a bank (65535)

ASSUME LimitsAssumption == {U32, U64_LIMIT, MAX_SIZE, MAX_INDICES} \subseteq Nat

Eof == [kind |-> "EOF", name |-> <<>>, sigil |-> "", value |-> 0, first |-> 0, last |-> 0]

Read(v, rest) == [err |-> "none", v |-> v, rest |-> rest]
Error(phase, rest) == [err |-> phase, v |-> Eof, rest |-> rest]
Ok(r) == r.err = "none"

\* What is parsed behind r, unless r failed.
After(r, Next(_, _)) ==
  CHOOSE x \in {IF Ok(t) THEN Next(t.v, t.rest) ELSE t : t \in {r}} : TRUE

Peek(tokens) == IF tokens = <<>> THEN "EOF" ELSE tokens[1].kind
Lexeme(t) == IF t.sigil = "" THEN t.name ELSE <<t.sigil>> \o t.name

\* consume and expect: the token is gone even if it is not the expected one.
consume(tokens) ==
  IF tokens = <<>> THEN Read(Eof, tokens)
  ELSE IF tokens[1].kind = "unknown" THEN Error("lexer", Tail(tokens))
  ELSE Read(tokens[1], Tail(tokens))

expect(kind, tokens) ==
  After(consume(tokens), LAMBDA t, rest : IF t.kind = kind THEN Read(t, rest) ELSE Error("parser", rest))

\* An error found by looking at a token.
Unexpected(tokens) == IF Peek(tokens) = "unknown" THEN consume(tokens) ELSE Error("parser", tokens)
AtBoundary(tokens) == Peek(tokens) \in {":", "EOF"}

\* A number token whose literal fits, and the text of a string.
Literal(limit, tokens) ==
  After(expect("number", tokens), LAMBDA t, rest :
    IF t.value \in 0 .. limit - 1 THEN Read(t.value, rest) ELSE Error("parser", rest))

Text(tokens) == After(expect("string", tokens), LAMBDA t, rest : Read(t.name, rest))

-----------------------------------------------------------------------------
\* parse_semantic_expr_block: the predicate of a logic space.

RECURSIVE Predicate(_, _), Chained(_, _, _)

PrimaryExpr(tokens) ==
  CASE Peek(tokens) = "(" ->
         After(Predicate(1, Tail(tokens)), LAMBDA e, rest :
           After(expect(")", rest), LAMBDA t, end : Read(e, end)))
    [] Peek(tokens) = "bits" -> Read([kind |-> "bits", bits |-> tokens[1].name], Tail(tokens))
    [] Peek(tokens) = "number" ->
         After(Literal(U64_LIMIT, tokens), LAMBDA n, rest : Read([kind |-> "literal", value |-> n], rest))
    [] Peek(tokens) = "identifier" -> Read([kind |-> "identifier", name |-> tokens[1].name[1]], Tail(tokens))
    [] OTHER -> Unexpected(tokens)

\* From the loosest operators to the tightest, and what is half of one.
Operators == <<{"||"}, {"&&"}, {"==", "!="}>>
Halves == <<"|", "&", "!">>

Predicate(level, tokens) ==
  IF level > Len(Operators) THEN PrimaryExpr(tokens)
  ELSE After(Predicate(level + 1, tokens), LAMBDA lhs, rest : Chained(level, lhs, rest))

Chained(level, lhs, tokens) ==
  IF Peek(tokens) = Halves[level] THEN Error("parser", Tail(tokens))
  ELSE IF Peek(tokens) \notin Operators[level] THEN Read(lhs, tokens)
  ELSE After(Predicate(level + 1, Tail(tokens)), LAMBDA rhs, rest :
         Chained(level, [kind |-> "binary", op |-> Peek(tokens), lhs |-> lhs, rhs |-> rhs], rest))

EnableBlock(tokens) ==
  After(expect("{", tokens), LAMBDA t, inside :
  After(Predicate(1, inside), LAMBDA e, rest :
  After(expect("}", rest), LAMBDA u, end : Read(e, end))))

-----------------------------------------------------------------------------
\* parse_semantic_block: the text up to the brace that closes it.

Depth(tokens, i) ==
  1 + Len(SelectSeq(SubSeq(tokens, 1, i), LAMBDA t : t.kind = "{"))
    - Len(SelectSeq(SubSeq(tokens, 1, i), LAMBDA t : t.kind = "}"))

capture_braced_block(tokens) ==
  LET closing == {i \in DOMAIN tokens : Depth(tokens, i) = 0}
  IN  IF closing = {} THEN Error("lexer", <<>>)
      ELSE Read(SubSeq(tokens, 1, Min(closing) - 1), SubSeq(tokens, Min(closing) + 1, Len(tokens)))

SemanticBlock(tokens) ==
  After(expect("{", tokens), LAMBDA t, inside : capture_braced_block(inside))

-----------------------------------------------------------------------------
\* Subfields, masks, operands and references.

\* Names between "::".
RECURSIVE Segments(_, _)
Segments(tokens, names) ==
  After(expect("identifier", tokens), LAMBDA t, rest :
    IF Peek(rest) = "::" THEN Segments(Tail(rest), Append(names, Lexeme(t)))
    ELSE Read(Append(names, Lexeme(t)), rest))

\* resolve_reference_path: "$space::..." names its space.
resolve_reference_path(path) ==
  IF path[1][1] = "$" THEN [space |-> {Tail(path[1])}, path |-> Tail(path)]
  ELSE [space |-> {}, path |-> path]

\* One operation: kind.subtype, or a reference.
SubFieldOp(path) ==
  LET name == path[1]
  IN  IF Len(path) > 1 THEN [kind |-> "context", subtype |-> {}, space |-> Tail(name), field |-> path[2]]
      ELSE [kind |-> name[1], subtype |-> IF Len(name) > 1 THEN {Tail(name)} ELSE {}]

RECURSIVE SubFieldOps(_, _)
SubFieldOps(tokens, ops) ==
  After(Segments(tokens, <<>>), LAMBDA path, rest :
    IF Peek(rest) = "|" THEN SubFieldOps(Tail(rest), Append(ops, SubFieldOp(path)))
    ELSE Read(Append(ops, SubFieldOp(path)), rest))

\* The options of a subfield, op and descr, each at most once.
RECURSIVE SubFieldOptions(_, _)
SubFieldOption(option, tokens, sub) ==
  IF option = <<"op">>
  THEN IF sub.ops # <<>> THEN Error("parser", tokens)
       ELSE After(SubFieldOps(tokens, <<>>), LAMBDA ops, rest : Read([sub EXCEPT !.ops = ops], rest))
  ELSE IF sub.descr # {} THEN Error("parser", tokens)
       ELSE After(Text(tokens), LAMBDA text, rest : Read([sub EXCEPT !.descr = {text}], rest))

SubFieldOptions(tokens, sub) ==
  IF Peek(tokens) # "identifier" \/ tokens[1].name \notin {<<"op">>, <<"descr">>} THEN Read(sub, tokens)
  ELSE After(expect("=", Tail(tokens)), LAMBDA eq, value :
       After(SubFieldOption(tokens[1].name, value, sub), LAMBDA more, rest : SubFieldOptions(rest, more)))

RECURSIVE SubFields(_, _)
SubFields(tokens, subs) ==
  CASE Peek(tokens) = "EOF" -> Error("parser", tokens)
    [] Peek(tokens) = "}" -> Read(subs, Tail(tokens))
    [] OTHER ->
         After(expect("identifier", tokens), LAMBDA name, spec :
         After(expect("bits", spec), LAMBDA bits, options :
         After(SubFieldOptions(options, [name |-> name.name, bit_spec |-> bits.name, ops |-> <<>>, descr |-> {}]),
               LAMBDA sub, rest : SubFields(rest, Append(subs, sub)))))

SubfieldsBlock(tokens) ==
  After(expect("{", tokens), LAMBDA t, inside : SubFields(inside, <<>>))

MaskSelector(t) ==
  IF t.kind = "bits" THEN [kind |-> "bits", bits |-> t.name] ELSE [kind |-> "field", name |-> t.name]

\* A mask names at least one field; commas between them are optional.
RECURSIVE MaskFields(_, _)
MaskFields(tokens, mask) ==
  CASE Peek(tokens) = "}" -> IF mask = <<>> THEN Error("parser", Tail(tokens)) ELSE Read(mask, Tail(tokens))
    [] Peek(tokens) = "," -> MaskFields(Tail(tokens), mask)
    [] OTHER ->
         After(expect(IF Peek(tokens) = "bits" THEN "bits" ELSE "identifier", tokens), LAMBDA t, more :
         After(expect("=", more), LAMBDA eq, number :
         After(Literal(U64_LIMIT, number), LAMBDA n, rest :
           MaskFields(rest, Append(mask, [selector |-> MaskSelector(t), value |-> n])))))

MaskBlock(tokens) ==
  After(expect("{", tokens), LAMBDA t, inside : MaskFields(inside, <<>>))

\* Names between commas; a comma may stand before the parenthesis that closes
\* the operands of an instruction, not before the one of a macro's parameters.
RECURSIVE Names(_, _, _)
Names(tokens, names, trailing) ==
  IF Peek(tokens) = ")" /\ (names = <<>> \/ trailing) THEN Read(names, Tail(tokens))
  ELSE After(expect("identifier", tokens), LAMBDA name, rest :
         IF Peek(rest) = "," THEN Names(Tail(rest), Append(names, name.name), trailing)
         ELSE After(expect(")", rest), LAMBDA t, end : Read(Append(names, name.name), end)))

OperandList(tokens) ==
  IF Peek(tokens) = "(" THEN Names(Tail(tokens), <<>>, TRUE) ELSE Read(<<>>, tokens)

\* parse_index_range: the lexer also accepts "[a+b]", which is no range here.
IndexRange(t) == [first |-> t.first, last |-> t.last]
RangeFits(t) ==
  /\ t.value = ".." /\ 0 <= t.first /\ t.first <= t.last
  /\ t.last - t.first < MAX_INDICES /\ t.last < U32

Index(tokens) ==
  IF Peek(tokens) # "range" THEN Read({}, tokens)
  ELSE IF RangeFits(tokens[1]) THEN Read({IndexRange(tokens[1])}, Tail(tokens))
  ELSE Error("parser", Tail(tokens))
=============================================================================
