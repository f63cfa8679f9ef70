------------------------------ MODULE MCLoading ------------------------------
(* A directory with a base file, an extension and a core that includes both,  *)
(* each in the forms that a load may meet.                                    *)
EXTENDS Loading

Tok(kind, name, value) ==
  [kind |-> kind, name |-> name, sigil |-> "", value |-> value, first |-> 0, last |-> 0]
K(kind) == Tok(kind, <<>>, 0)
I(x) == Tok("identifier", <<x>>, 0)
Ref(x) == [I(x) EXCEPT !.sigil = "$"]
Param(x) == [I(x) EXCEPT !.sigil = "#"]
Dotted(x, y) == Tok("identifier", <<x, y>>, 0)
Num(n) == Tok("number", <<>>, n)
Str(text) == Tok("string", text, 0)
Bits(a, b) == Tok("bits", <<[kind |-> "range", first |-> a, last |-> b]>>, 0)
Span(a, b) == [K("range") EXCEPT !.value = "..", !.first = a, !.last = b]
Eq(attr, t) == <<I(attr), K("="), t>>
Braces(tokens) == <<K("{")>> \o tokens \o <<K("}")>>
EqBraces(attr, tokens) == <<I(attr), K("=")>> \o Braces(tokens)
D(name, tokens) == <<K(":"), I(name)>> \o tokens
Reg(name, tokens) == D("reg", <<I(name)>> \o tokens)
Alias(name, target) == Reg(name, Eq("redirect", target))
Size4 == Eq("size", Num(4))

Space(name, kind, size) ==
  D("space", <<I(name)>> \o Eq("addr", Num(8)) \o Eq("word", Num(size)) \o Eq("type", I(kind)))

\* Directives that are right.
RegSpace == D("space", <<I("reg")>> \o Eq("addr", Num(8)) \o Eq("word", Num(8)) \o Eq("align", Num(1))
                         \o Eq("type", I("register")) \o Eq("endian", I("little")))
OpSpace == Space("op", "logic", 4)
Constant == D("param", Eq("k", Num(3)))
Bank == D("reg", <<I("R"), Span(0, 1)>> \o Eq("offset", Num(0)) \o Size4 \o Eq("reset", Num(0))
                   \o EqBraces("subfields", <<I("lo"), Bits(2, 3)>>))
Ctl == Reg("CTL", Size4 \o Eq("descr", Str("control"))
                    \o EqBraces("subfields", <<I("hi"), Bits(0, 1)>> \o Eq("op", I("func")) \o Eq("descr", Str("top"))))
Sp == Alias("SP", Tok("identifier", <<"R", 1>>, 0))
FormF == D("op", <<I("F")>> \o EqBraces("subfields",
          <<I("opc"), Bits(0, 1)>> \o Eq("op", I("func")) \o <<I("d"), Bits(2, 2)>> \o Eq("op", Dotted("reg", "R"))
            \o <<K("|"), I("target"), I("i"), Bits(3, 3)>> \o Eq("op", I("imm"))))
SetInsn == D("op", <<K("::"), I("F"), I("set"), K("("), I("d"), K(","), I("i"), K(")")>>
                 \o EqBraces("mask", <<I("opc"), K("="), Num(1), K(","), Bits(0, 0), K("="), Num(0)>>)
                 \o EqBraces("semantics", <<Ref("reg"), K("::"), I("R"), K("("), Param("d"), K(")"), K("="), Param("i")>>))
Mac == D("macro", <<I("twice"), K("("), I("a"), K(")")>> \o Braces(<<Param("a"), K("+"), Param("a")>>))

Good == <<RegSpace, OpSpace, Constant, Bank, Ctl, Sp, FormF, SetInsn, Mac>>

\* Extensions, each with one thing of its own.
Widened == <<Reg("CTL", EqBraces("subfields", <<I("ends"), Bits(3, 3)>>)), Alias("FP", I("SP")), Alias("TP", I("FP")),
             D("op", <<K("::"), I("F"), I("nop")>> \o EqBraces("mask", <<I("opc"), K("="), Num(2)>>))>>
LateTarget == <<Alias("A", I("B")), Reg("B", Size4)>>
NoTarget == <<Alias("A", I("B"))>>
ElsewhereTarget == <<Space("aux", "register", 4), D("aux", <<I("X")>> \o Size4),
                     Reg("A", <<I("redirect"), K("="), Ref("aux"), K("::"), I("X")>>)>>
SubfieldTarget == <<Reg("A", <<I("redirect"), K("="), I("CTL"), K("::"), I("hi")>>)>>
AppendNothing == <<Reg("CTL", <<>>)>>
AppendMissing == <<Reg("Q", EqBraces("subfields", <<I("hi"), Bits(0, 1)>>))>>
Twice == <<Reg("CTL", Size4), Reg("R", <<>>)>>
WrongInside == <<Reg("A", Size4 \o Size4), Reg("B", Eq("size", Num(9))), Reg("C", Eq("offset", Num(1)) \o Eq("redirect", I("R"))),
                 D("nowhere", <<I("A")>>), Reg("E", Size4 \o <<K(",")>>), Reg("G", Size4)>>
CutShort == <<Reg("A", <<I("size")>>), Reg("B", Size4), Reg("C", Size4)>>
Unclosed == <<D("macro", <<I("open"), K("("), K(")"), K("{"), Num(1)>>), Reg("B", Size4)>>
Strange == <<Reg("A", <<I("wrong"), K("="), Num(1), K("unknown"), Num(2)>>), Reg("B", Size4)>>
StrangeFirst == <<Reg("A", <<I("size"), K("unknown")>>), Reg("B", Size4)>>
TwoSizes == <<Space("big", "logic", 8)>>
Guarded == <<D("space", <<I("tiny")>> \o Eq("addr", Num(8)) \o Eq("word", Num(4)) \o Eq("type", I("logic"))
                          \o EqBraces("enbl", <<Bits(0, 0), K("=="), Num(0), K("&&"), K("("), I("true"), K("||"), Num(1), K(")")>>)),
             Space("big", "logic", 8)>>
HalfOperator == <<D("space", <<I("tiny")>> \o Eq("addr", Num(8)) \o EqBraces("enbl", <<Bits(0, 0), K("&"), Num(1)>>)), Reg("B", Size4)>>
Undefined == <<D("op", <<K("::"), I("F"), I("bad")>> \o EqBraces("semantics", <<I("nothing")>>))>>
Unread == <<D("op", <<K("::"), I("F"), I("bad")>> \o EqBraces("semantics", <<K("=")>>))>>
WrongForms == <<D("op", <<I("G")>> \o EqBraces("subfields", <<I("x"), Bits(0, 0), I("x"), Bits(1, 1)>>)),
                D("op", <<K("::"), I("H"), I("lost")>>), D("op", <<K("::"), I("F"), I("masked")>>
                          \o EqBraces("mask", <<I("zz"), K("="), Num(0)>>))>>
Grown == <<D("op", <<K("::"), I("F"), I("G")>> \o Eq("disp", Str(<<[kind |-> "name", name |-> <<"d">>]>>))
                     \o EqBraces("subfields", <<I("x"), Bits(3, 3)>>)),
           D("op", <<K("::"), I("G"), I("wide")>> \o EqBraces("mask", <<I("x"), K("="), Num(1)>>) \o Eq("op", Str("=")))>>

MCExtensions ==
  {Widened, LateTarget, NoTarget, ElsewhereTarget, SubfieldTarget, AppendNothing, AppendMissing, Twice, WrongInside,
   CutShort, Unclosed, Strange, StrangeFirst, TwoSizes, Guarded, HalfOperator, Undefined, Unread, WrongForms, Grown}

BaseFile == [name |-> "base", ext |-> "isa"]
ExtFile == [name |-> "more", ext |-> "isaext"]
CoreFile == [name |-> "core", ext |-> "coredef"]
GoneFile == [name |-> "gone", ext |-> "isaext"]

Include(file) == D("include", <<Str(file)>>)
GoodCore == <<Include(BaseFile), Include(ExtFile)>>

MCBases == {Good, <<>>, <<RegSpace, Bank, Include(ExtFile), Ctl>>, <<Ctl, RegSpace, Sp, RegSpace>>}
MCCores ==
  {<<Include(ExtFile), Include(BaseFile)>>, <<Include(BaseFile)>>, <<>>, GoodCore \o <<Constant>>,
   GoodCore \o <<Include(ExtFile)>>, GoodCore \o <<Include(CoreFile)>>, GoodCore \o <<Include(BaseFile)>>,
   GoodCore \o <<Include(GoneFile)>>, <<Include(ExtFile)>>}

Directory(base, ext, core) == BaseFile :> base @@ ExtFile :> ext @@ CoreFile :> core

Directories ==
  {Directory(Good, ext, GoodCore) : ext \in MCExtensions}
    \cup {Directory(base, Widened, GoodCore) : base \in MCBases}
    \cup {Directory(Good, Widened, core) : core \in MCCores}

\* LETs: TLC's profile would otherwise hold a copy for every mention.
MCFileSets == LET sets == Directories IN sets
MCEntries == {CoreFile, BaseFile, ExtFile}
MCNameOrder == <<<<"aux">>, <<"big">>, <<"op">>, <<"reg">>, <<"tiny">>>>
MCPaths == {BaseFile, ExtFile, CoreFile, GoneFile}
=============================================================================
