---------------------------- MODULE MCInterpreter ----------------------------
(* A machine with a bank of 4-bit registers R0 and R1, a 6-bit CTL, two       *)
(* aliases, nested and endless macros, and programs that use all of it.       *)
EXTENDS Interpreter

MCBits == 6

Bits(a, b) == [kind |-> "range", first |-> a, last |-> b]
SubField(name, tokens) == [name |-> name, bit_spec |-> tokens]
Register(name, range, size, redirect, subfields) ==
  [name |-> name, range |-> range, size_bits |-> size, redirect |-> redirect,
   subfields |-> subfields, display |-> {}]
Alias(name, target) ==
  Register(name, {}, {}, {[space |-> {}, path |-> <<target>>]}, <<>>)

BankR == Register(<<"R">>, {[first |-> 0, last |-> 1]}, {4}, {},
                  <<SubField("hi", <<Bits(0, 1)>>), SubField("lo", <<Bits(2, 3)>>)>>)
Ctl == Register(<<"CTL">>, {}, {}, {},
                <<SubField("ends", <<Bits(5, 5), Bits(0, 0)>>),
                  SubField("sgn", <<[kind |-> "pad", pad |-> "sign"], Bits(2, 3)>>)>>)

Reg == <<"reg">>
Insn == <<"insn">>

S == INSTANCE SemanticProgram
V(x) == S!Variable(x)
P(x) == S!Parameter(x)
N(n) == S!Number(n)
B(op, a, b) == S!BinaryOp(op, a, b)
Rg(name, subpath, args) == S!ContextCall("register", Reg, name, subpath, args)
Mac(name, args) == S!ContextCall("macro", <<"macro">>, name, <<>>, args)
Ins(name, args) == S!ContextCall("instruction", Insn, name, <<>>, args)
Host(op, args) == S!ContextCall("host", <<"host">>, <<op>>, <<>>, args)
ToReg(name, subfield, index) ==
  [kind |-> "register", space |-> Reg, name |-> name, subfield |-> subfield, index |-> index]
ToVar(x) == V(x)
ToTuple(names) == [kind |-> "tuple", names |-> names]

x == <<"x">>
y == <<"y">>
a == <<"a">>
b == <<"b">>

\* twice(a): R0 := a, and a + a.  forever(): calls itself.  deep(): an instruction
\* that calls a macro.
Macros ==
  <<[name |-> <<"twice">>, parameters |-> <<a>>,
     program |-> <<S!Assign(ToReg(<<"R">>, {}, <<N(0)>>), P(a)),
                   S!Return(S!Tuple(<<B("+", P(a), P(a)), N(1)>>))>>],
    [name |-> <<"forever">>, parameters |-> <<>>,
     program |-> <<S!Evaluate(Mac(<<"forever">>, <<>>))>>]>>
Instructions ==
  <<[name |-> <<"deep">>, space |-> Insn, operands |-> <<b>>, form |-> {},
     program |-> <<<<S!Assign(ToTuple(<<x, y>>), Mac(<<"twice">>, <<P(b)>>)),
                     S!Assign(ToReg(<<"SP">>, {}, <<>>), V(x))>>>>],
    [name |-> <<"formed">>, space |-> Insn, operands |-> <<>>, form |-> {"F"},
     program |-> <<<<S!Evaluate(P(a))>>>>],
    [name |-> <<"same">>, space |-> Insn, operands |-> <<>>, form |-> {}, program |-> <<>>],
    [name |-> <<"same">>, space |-> Reg, operands |-> <<>>, form |-> {}, program |-> <<>>]>>

MCMachine ==
  [spaces |-> Reg :> [kind |-> "register", size_bits |-> {6}, forms |-> <<>>,
                      registers |-> (<<"R">> :> BankR) @@ (<<"CTL">> :> Ctl)
                        @@ (<<"SP">> :> Alias(<<"SP">>, <<"R", 1>>))
                        @@ (<<"ANY">> :> Alias(<<"ANY">>, <<"R">>))]
             @@ Insn :> [kind |-> "logic", size_bits |-> {6}, registers |-> <<>>,
                         forms |-> "F" :> [operand_order |-> <<a, b>>]],
   macros |-> Macros, instructions |-> Instructions,
   parameters |-> <<"k">> :> <<"int", 2>>]

-----------------------------------------------------------------------------
Program(body) == [body |-> body, params |-> <<a, b>>]
Ops == {"||", "&&", "|", "^", "&", "==", "!=", "<", ">", "+", "-"}

\* Every two operators, nested to the left and to the right.
Nested ==
  {Program(<<S!Evaluate(e)>>) :
     e \in {B(p, B(q, P(a), P(b)), N(3)) : p \in Ops, q \in Ops}
           \cup {B(p, P(a), B(q, P(b), N(3))) : p \in Ops, q \in Ops}}

\* Writes to a register, a bank's element, fields and aliases, right and wrong.
Stored ==
  {Program(<<S!Assign(t, e), S!Assign(ToVar(x), Rg(<<"CTL">>, <<>>, <<>>))>>) :
     t \in {ToReg(<<"CTL">>, {}, <<>>), ToReg(<<"CTL">>, {"ends"}, <<>>),
            ToReg(<<"CTL">>, {"sgn"}, <<>>), ToReg(<<"R">>, {}, <<P(b)>>),
            ToReg(<<"R", 1>>, {"lo"}, <<>>), ToReg(<<"SP">>, {"hi"}, <<>>),
            ToReg(<<"ANY">>, {}, <<N(1)>>), ToReg(<<"CTL">>, {"none"}, <<>>)},
     e \in {P(a), S!BitSlice(P(a), 1, 2), S!Tuple(<<P(a), N(1)>>), N(60)}}

\* Reads, names that are missing, calls and the three helpers of the host.
Called1 ==
  {Program(<<S!Assign(ToTuple(<<x, y>>), e), S!Return(S!Tuple(<<V(y), V(x)>>))>>) :
     e \in {Host("add", <<P(a), P(b), N(1), N(4)>>), Host("sub", <<P(a), P(b), N(1), N(4)>>),
            Host("sub", <<P(a), P(b), N(0), N(6)>>), Host("mul", <<P(a), P(b), N(3)>>),
            Host("add", <<P(a), P(b), N(0), N(7)>>), Host("neg", <<P(a)>>),
            Host("mul", <<P(a)>>), Mac(<<"twice">>, <<P(a)>>), Mac(<<"twice">>, <<>>),
            Mac(<<"none">>, <<>>), Ins(<<"deep">>, <<P(b)>>), Ins(<<"formed">>, <<P(a), P(b)>>),
            Ins(<<"same">>, <<>>), Mac(<<"forever">>, <<>>), V(y), P(<<"z">>),
            S!Tuple(<<Rg(<<"R">>, <<>>, <<P(a)>>), Rg(<<"SP">>, <<"lo">>, <<>>)>>),
            S!Tuple(<<Rg(<<"CTL">>, <<"sgn">>, <<>>), P(<<"k">>)>>)}}
  \cup {Program(<<S!Return(S!Tuple(<<V(x), P(a)>>)), S!Assign(ToVar(x), P(a))>>),
        Program(<<S!Assign(ToVar(x), B("||", P(a), Rg(<<"R">>, <<>>, <<N(5)>>))),
                  S!Assign(ToVar(x), S!BitSlice(B("-", V(x), P(b)), 2, 5))>>),
        Program(<<S!Evaluate(Ins(<<"deep">>, <<Host("mul", <<P(a), P(b), N(6)>>)>>))>>)}

MCPrograms == Nested \cup Stored \cup Called1
MCArguments == {<<int(n), int(k)>> : n \in {-32, -1, 0, 3}, k \in {0, 1, 21}}
MCContents == {[c \in Cells |-> IF c.name = <<"CTL">> THEN n ELSE n % 16] : n \in {0, 41, 54}}
=============================================================================
