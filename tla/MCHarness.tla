------------------------------ MODULE MCHarness ------------------------------
(* A machine of two kinds of words, of one and of two bytes of four bits,     *)
(* built from its documents.                                                  *)
EXTENDS Harness

MCBits == 8
MCNameOrder == <<<<"narrow">>, <<"reg">>, <<"wide">>>>

Bits(a, b) == [kind |-> "range", first |-> a, last |-> b]
SignPadding == [kind |-> "pad", pad |-> "sign"]

Space(name, kind, size, endianness, enable) ==
  [kind |-> "space", name |-> name, space_kind |-> kind, word_sizes |-> <<size>>,
   endianness |-> endianness, enable |-> enable]
Reg == <<"reg">>
Narrow == <<"narrow">>
Wide == <<"wide">>
RegField(name, range, redirect, subfields) ==
  [kind |-> "field", space |-> Reg, name |-> name, range |-> range, size_bits |-> {},
   redirect |-> redirect, subfields |-> subfields, display |-> {}]

Sub(name, tokens, ops) == [name |-> name, bit_spec |-> tokens, ops |-> ops]
Op(kind) == [kind |-> kind, subtype |-> {}]
RegOp(name) == [kind |-> "reg", subtype |-> {name}]
Form(space, name, parent, subfields, display) ==
  [kind |-> "form", space |-> space, name |-> name, parent |-> parent, display |-> display,
   subfields |-> subfields]

By(name, value) == [selector |-> [kind |-> "field", name |-> name], value |-> value]
At1(tokens, value) == [selector |-> [kind |-> "bits", bits |-> tokens], value |-> value]
Insn(space, name, form, operands, mask, display, program) ==
  [kind |-> "instruction", space |-> space, name |-> name, form |-> form, operands |-> operands,
   mask |-> mask, display |-> display, operator |-> {"="}, program |-> program]

S == INSTANCE SemanticProgram
V(x) == S!Variable(x)
P(x) == S!Parameter(x)
ToReg(name, subfield, index) ==
  [kind |-> "register", space |-> Reg, name |-> name, subfield |-> subfield, index |-> index]
Call1(context, name, args) == S!ContextCall(context, <<context>>, name, <<>>, args)

op == <<"opc">>
d == <<"d">>
i == <<"i">>
s == <<"s">>
t == <<"t">>
k == <<"k">>

BankR == RegField(<<"R">>, {[first |-> 0, last |-> 1]}, {}, <<>>)
Ctl == RegField(<<"CTL">>, {}, {}, <<[name |-> "lo", bit_spec |-> <<Bits(2, 3)>>],
                                     [name |-> "ends", bit_spec |-> <<Bits(3, 3), Bits(0, 0)>>]>>)
Sp == RegField(<<"SP">>, {}, {[space |-> {}, path |-> <<<<"R", 1>>>>]}, <<>>)

Instructions ==
  <<Insn(Narrow, <<"mov">>, {"N"}, <<>>, {<<By(op, 0)>>}, {},
         <<<<S!Assign(ToReg(<<"R">>, {}, <<P(d)>>), S!BinaryOp("+", P(i), P(k)))>>>>),
    Insn(Narrow, <<"nop">>, {}, <<>>, {<<At1(<<Bits(0, 1)>>, 1)>>}, {}, <<>>),
    Insn(Narrow, <<"spin">>, {"N"}, <<d>>, {<<By(op, 1), At1(<<Bits(3, 3)>>, 1)>>}, {},
         <<<<S!Evaluate(Call1("macro", <<"spin">>, <<P(d)>>))>>>>),
    Insn(Wide, <<"set">>, {"W"}, <<d, s>>, {<<By(op, 0)>>}, {},
         <<<<S!Assign(ToReg(<<"SP">>, {}, <<>>), P(s)), S!Assign(ToReg(<<"CTL">>, {"lo"}, <<>>), P(s))>>>>),
    Insn(Wide, <<"both">>, {"X"}, <<d, t>>, {<<By(op, 1)>>}, {},
         <<<<S!Evaluate(Call1("instruction", <<"mov">>, <<P(d), P(t)>>))>>>>),
    Insn(Wide, <<"short">>, {"W"}, <<d>>, {<<By(op, 2), By(s, 1)>>}, {}, <<>>),
    Insn(Wide, <<"loose">>, {"W"}, <<d, k, <<"z">>>>, {<<By(op, 2), At1(<<Bits(6, 7)>>, 3)>>}, {},
         <<<<S!Evaluate(P(<<"z">>))>>>>)>>

Spin ==
  [kind |-> "macro", name |-> <<"spin">>, parameters |-> <<d>>,
     program |-> <<S!Assign(ToReg(<<"R">>, {}, <<P(d)>>), S!Number(1)),
                   S!Evaluate(Call1("macro", <<"spin">>, <<P(d)>>))>>]

TopBitClear ==
  {[kind |-> "binary", op |-> "==", lhs |-> [kind |-> "bits", bits |-> <<Bits(0, 0)>>],
    rhs |-> [kind |-> "literal", value |-> 0]]}

Documents ==
  <<Space(Narrow, "logic", 4, "big", TopBitClear),
    Space(Wide, "logic", 8, "little", {}),
    Space(Reg, "register", 4, "big", {}),
    BankR, Ctl, Sp,
    [kind |-> "parameter", name |-> k, value |-> <<"int", 3>>],
    Form(Narrow, "N", {}, <<Sub(op, <<Bits(0, 1)>>, <<Op("func")>>),
                            Sub(d, <<Bits(2, 2)>>, <<RegOp(<<"R">>)>>),
                            Sub(i, <<Bits(3, 3)>>, <<Op("imm")>>)>>, {}),
    Form(Wide, "W", {}, <<Sub(op, <<Bits(0, 1)>>, <<Op("func")>>),
                          Sub(s, <<SignPadding, Bits(2, 3)>>, <<Op("imm")>>),
                          Sub(d, <<Bits(5, 5)>>, <<RegOp(<<"R">>)>>)>>, {}),
    Form(Wide, "X", {"W"}, <<Sub(t, <<Bits(6, 7)>>, <<Op("reg")>>)>>,
         {<<[kind |-> "name", name |-> d], [kind |-> "name", name |-> <<"op">>],
            [kind |-> "name", name |-> t]>>}),
    Instructions[1], Instructions[2], Instructions[3], Instructions[4], Instructions[5],
    Instructions[6], Instructions[7], Spin>>

Build == INSTANCE MachineDescription WITH BYTE <- 4, BITS <- 8, NameOrder <- MCNameOrder

\* What it builds, written out.
Plain(segments) == [segments |-> segments, pad |-> "none", pad_width |-> 0, signed |-> FALSE]
At2(offset, width) == <<[kind |-> "slice", offset |-> offset, width |-> width]>>
Part2(name, kind, spec, ops, register) ==
  [name |-> name, kind |-> kind, spec |-> spec, ops |-> ops, register |-> register]
Opcode(offset) == Part2(op, "other", Plain(At2(offset, 2)), <<Op("func")>>, {})
Dest(offset) == Part2(d, "register", Plain(At2(offset, 1)), <<RegOp(<<"R">>)>>, {[space |-> Reg, field |-> <<"R">>]})
Imm == Part2(i, "immediate", Plain(At2(0, 1)), <<Op("imm")>>, {})
Simm == Part2(s, "immediate", [Plain(At2(4, 2)) EXCEPT !.pad = "sign", !.pad_width = 6], <<Op("imm")>>, {})
Bare == Part2(t, "other", Plain(At2(0, 2)), <<Op("reg")>>, {})

FormX(encodings, order, display) == [fields |-> encodings, operand_order |-> order, display |-> display]
SpaceX(kind, size, endianness, enable, forms, registers) ==
  [kind |-> kind, size_bits |-> {size}, endianness |-> endianness, enable |-> enable,
   forms |-> forms, registers |-> registers]
NameX(x) == [kind |-> "name", name |-> x]
CommaX == [kind |-> "text", text |-> ", "]
OwnDisplay == <<NameX(d), NameX(<<"op">>), NameX(t)>>

Pattern(index, space, form, mask, value, names, display) ==
  [instruction |-> index, space |-> space, form |-> form, mask |-> mask, value |-> value, operand_names |-> names, display |-> display, operator |-> {"="}]

Built ==
  [spaces |->
     Narrow :> SpaceX("logic", 4, "big", TopBitClear,
                      [N |-> FormX(<<Opcode(2), Dest(1), Imm>>, <<d, i>>, {})], <<>>)
     @@ Wide :> SpaceX("logic", 8, "little", {},
                       [W |-> FormX(<<Opcode(6), Simm, Dest(2)>>, <<s, d>>, {}),
                        X |-> FormX(<<Opcode(6), Simm, Dest(2), Bare>>, <<s, d, t>>, {OwnDisplay})], <<>>)
     @@ Reg :> SpaceX("register", 4, "big", {}, <<>>,
                      <<"R">> :> BankR @@ <<"CTL">> :> Ctl @@ <<"SP">> :> Sp),
   instructions |-> Instructions, macros |-> <<Spin>>, parameters |-> k :> <<"int", 3>>,
   patterns |->
     <<Pattern(1, Narrow, {"N"}, {2, 3}, 0, <<d, i>>, {<<NameX(d), CommaX, NameX(i)>>}),
       Pattern(2, Narrow, {}, {2, 3}, 4, <<>>, {}), Pattern(3, Narrow, {"N"}, {0, 2, 3}, 5, <<d>>, {<<NameX(d)>>}),
       Pattern(4, Wide, {"W"}, {6, 7}, 0, <<d, s>>, {<<NameX(d), CommaX, NameX(s)>>}),
       Pattern(5, Wide, {"X"}, {6, 7}, 64, <<d, t>>, {OwnDisplay}), Pattern(6, Wide, {"W"}, 4 .. 7, 144, <<d>>, {<<NameX(d)>>}),
       Pattern(7, Wide, {"W"}, {0, 1, 6, 7}, 131, <<d, k, <<"z">>>>,
               {<<NameX(d), CommaX, NameX(k), CommaX, NameX(<<"z">>)>>})>>,
   decode_spaces |-> <<Narrow, Wide>>]

\* A LET: TLC's profile would otherwise hold a copy of it for every mention.
MCMachine == LET machine == Built IN machine

ASSUME DocumentsBuild == Build!from_documents(Documents) = {MCMachine}

Nibbles == {0, 3, 5, 6, 8, 12, 13, 15}
MCRoms == UNION {[1 .. n -> Nibbles] : n \in 1 .. 2}
            \cup {<<x, y, z>> : x \in {0, 7}, y \in {8, 15}, z \in {0, 5, 6, 11, 15}}
            \cup {<<x, y, z, 3>> : x \in {8, 15}, y \in {1, 4, 6, 11, 14}, z \in {2, 7}}
MCBases == {0, 4}
HostWrite(name, subfield, index, value) ==
  [space |-> Reg, name |-> name, subfield |-> subfield, index |-> index, value |-> value]
MCHostWrites ==
  {HostWrite(<<"CTL">>, {"ends"}, {}, 2), HostWrite(<<"CTL">>, {"lo"}, {}, 5),
   HostWrite(<<"CTL">>, {}, {}, -3), HostWrite(<<"SP">>, {}, {}, 21),
   HostWrite(<<"R">>, {}, {0}, 9)}
=============================================================================
