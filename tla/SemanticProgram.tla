--------------------------- MODULE SemanticProgram ---------------------------
(***************************************************************************)
(* The semantics language: src/src/soc/isa/semantics/program.rs.  A        *)
(* program is parsed by recursive descent from the tokens of its block.  A *)
(* token is [kind, name, sigil, value, first, last]: names keep "#" and    *)
(* "$" apart, a bit slice is the token @(first..last).  A parser returns   *)
(* at most one pair of what it read and the tokens that are left.          *)
(***************************************************************************)
EXTENDS Integers, SequencesExt

CONSTANT U32  \* 2^32

\* Expr, AssignTarget and SemanticStmt.
Number(n) == [kind |-> "number", value |-> n]
Variable(name) == [kind |-> "variable", name |-> name]
Parameter(name) == [kind |-> "parameter", name |-> name]
Tuple(items) == [kind |-> "tuple", items |-> items]
BinaryOp(op, lhs, rhs) == [kind |-> "binary", op |-> op, lhs |-> lhs, rhs |-> rhs]
BitSlice(expr, first, last) == [kind |-> "slice", expr |-> expr, first |-> first, last |-> last]
ContextCall(context, space, name, subpath, args) ==
  [kind |-> "call", context |-> context, space |-> space, name |-> name,
   subpath |-> subpath, args |-> args]

Assign(target, expr) == [kind |-> "assign", target |-> target, expr |-> expr]
Evaluate(expr) == [kind |-> "expr", expr |-> expr]
Return(expr) == [kind |-> "return", expr |-> expr]

\* ContextKind::from_prefix, which ignores the case of the prefix.
from_prefix(prefix) ==
  CASE prefix \in {<<"reg">>, <<"REG">>} -> {"register"}
    [] prefix \in {<<"macro">>, <<"MACRO">>} -> {"macro"}
    [] prefix \in {<<"insn">>, <<"INSN">>} -> {"instruction"}
    [] prefix \in {<<"host">>, <<"HOST">>} -> {"host"}
    [] OTHER -> {}

-----------------------------------------------------------------------------
Peek(tokens) == IF tokens = <<>> THEN "EOF" ELSE tokens[1].kind
Lexeme(t) == IF t.sigil = "" THEN t.name ELSE <<t.sigil>> \o t.name
Closed(read, kind) == {<<r[1], Tail(r[2])>> : r \in {r \in read : Peek(r[2]) = kind}}

\* Variant: sums and comparisons bind alike.
FlatLevels == <<{"||"}, {"&&"}, {"|"}, {"^"}, {"&"}, {"==", "!="}, {"<", ">", "+", "-"}>>

\* From the loosest to the tightest binary operators; all associate to the left.
Levels == <<{"||"}, {"&&"}, {"|"}, {"^"}, {"&"}, {"==", "!="}, {"<", ">"}, {"+", "-"}>>

RECURSIVE Binary(_, _), Chain(_, _, _), Postfix(_), Items(_), ReferencePath(_)

Expression(tokens) == Binary(1, tokens)

\* parse_logical_or to parse_term: one level, then the operators of that level.
Binary(level, tokens) ==
  IF level > Len(Levels) THEN Postfix(tokens)
  ELSE UNION {Chain(level, r[1], r[2]) : r \in Binary(level + 1, tokens)}

Chain(level, lhs, tokens) ==
  IF Peek(tokens) \in Levels[level]
  THEN UNION {Chain(level, BinaryOp(Peek(tokens), lhs, r[1]), r[2]) :
                r \in Binary(level + 1, Tail(tokens))}
  ELSE {<<lhs, tokens>>}

\* Expressions between commas.
Items(tokens) ==
  UNION {IF Peek(r[2]) = ","
         THEN {<<<<r[1]>> \o s[1], s[2]>> : s \in Items(Tail(r[2]))}
         ELSE {<<<<r[1]>>, r[2]>>} : r \in Expression(tokens)}

Parenthesised(tokens) ==
  {<<IF Len(r[1]) = 1 THEN r[1][1] ELSE Tuple(r[1]), r[2]>> : r \in Closed(Items(tokens), ")")}

\* parse_argument_list.
ArgumentList(tokens) ==
  IF Peek(tokens) # "(" THEN {<<<<>>, tokens>>}
  ELSE IF Peek(Tail(tokens)) = ")" THEN {<<<<>>, Tail(Tail(tokens))>>}
  ELSE Closed(Items(Tail(tokens)), ")")

\* The "::" segments of a context reference.
ReferencePath(tokens) ==
  IF Peek(tokens) # "::" THEN {<<<<>>, tokens>>}
  ELSE IF Peek(Tail(tokens)) # "identifier" THEN {}
  ELSE {<<<<Lexeme(tokens[2])>> \o r[1], r[2]>> : r \in ReferencePath(Tail(Tail(tokens)))}

ContextReference(space, tokens) ==
  UNION {{<<ContextCall(kind, space, r[1][1], Tail(r[1]), a[1]), a[2]>> :
            a \in ArgumentList(r[2]), kind \in from_prefix(space)} :
         r \in {r \in ReferencePath(tokens) : r[1] # <<>>}}

Primary(tokens) ==
  LET t == tokens[1]
      rest == Tail(tokens)
  IN  CASE Peek(tokens) = "(" -> Parenthesised(rest)
        [] Peek(tokens) = "number" -> {<<Number(t.value), rest>>}
        [] Peek(tokens) = "identifier" ->
             (CASE t.sigil = "#" -> {<<Parameter(t.name), rest>>}
                [] t.sigil = "$" -> ContextReference(t.name, rest)
                [] OTHER -> {<<Variable(t.name), rest>>})
        [] OTHER -> {}

\* parse_bit_slice: the end of a slice is not before its start; both are cut to
\* u32 after that.
RECURSIVE Sliced(_, _)
Sliced(expr, tokens) ==
  IF Peek(tokens) # "bits" THEN {<<expr, tokens>>}
  ELSE IF tokens[1].last < tokens[1].first THEN {}
  ELSE Sliced(BitSlice(expr, tokens[1].first % U32, tokens[1].last % U32), Tail(tokens))

Postfix(tokens) == UNION {Sliced(r[1], r[2]) : r \in Primary(tokens)}

-----------------------------------------------------------------------------
\* try_from_expr: what may be on the left of "=".
IsTarget(expr) ==
  \/ expr.kind = "variable"
  \/ expr.kind = "tuple" /\ \A i \in DOMAIN expr.items : expr.items[i].kind = "variable"
  \/ expr.kind = "call" /\ expr.context = "register"

\* A register target keeps its first argument and its first subfield.
AtMostOne(s) == IF s = <<>> THEN s ELSE <<s[1]>>

Target(expr) ==
  IF expr.kind = "call"
  THEN [kind |-> "register", space |-> expr.space, name |-> expr.name,
        subfield |-> ToSet(AtMostOne(expr.subpath)), index |-> AtMostOne(expr.args)]
  ELSE IF expr.kind = "tuple"
  THEN [kind |-> "tuple", names |-> [i \in DOMAIN expr.items |-> expr.items[i].name]]
  ELSE expr

\* An "=" after what is no target is left for the next statement, which fails.
Statement(tokens) ==
  UNION {IF Peek(r[2]) = "=" /\ r[1].kind \in {"variable", "tuple", "call"}
            /\ (r[1].kind = "call" => r[1].context = "register")
         THEN {<<Assign(Target(r[1]), s[1]), s[2]>> :
                 s \in {s \in Expression(Tail(r[2])) : IsTarget(r[1])}}
         ELSE {<<IF r[1].kind = "tuple" THEN Return(r[1]) ELSE Evaluate(r[1]), r[2]>>} :
         r \in Expression(tokens)}

\* parse_program: semicolons are optional; a "}" ends the program.
RECURSIVE parse(_)
parse(tokens) ==
  IF Peek(tokens) \in {"EOF", "}"} THEN {<<>>}
  ELSE IF Peek(tokens) = ";" THEN parse(Tail(tokens))
  ELSE UNION {{<<r[1]>> \o rest : rest \in parse(r[2])} : r \in Statement(tokens)}
=============================================================================
