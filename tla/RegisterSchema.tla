--------------------------- MODULE RegisterSchema ---------------------------
(***************************************************************************)
(* The registers of a machine and the references to them:                  *)
(* src/src/soc/isa/machine/register.rs and semantics/register.rs.  A name  *)
(* is a tuple: <<"GPR">>, and <<"GPR", 1>> for the text GPR1.  What may be *)
(* absent is a set of at most one value, and so is a result that may be an *)
(* error.  Field names are equal up to case, as the code compares them.    *)
(***************************************************************************)
EXTENDS BitFields, FiniteSets

CONSTANTS
  Machine,        \* MachineDescription: spaces, instructions, macros, parameters
  MAX_REDIRECTS,  \* redirects followed in a row (8)
  U32             \* 2^32

\* CoreSpec!BuiltNamesUnique: labels of one space differ.
unwrap_or(option, default) == IF option = {} THEN default ELSE CHOOSE v \in option : TRUE

Spaces == Machine.spaces
Banks == {s \in DOMAIN Spaces : Spaces[s].kind = "register"}
At(space, name) == [space |-> space, name |-> name]

Declared(p) == p.space \in DOMAIN Spaces /\ p.name \in DOMAIN Spaces[p.space].registers
Info(p) == Spaces[p.space].registers[p.name]
IsAlias(p) == Declared(p) /\ Info(p).redirect # {}
Everywhere == UNION {{At(s, n) : n \in DOMAIN Spaces[s].registers} : s \in Banks}
Registers == {p \in Everywhere : ~IsAlias(p)}

-----------------------------------------------------------------------------
\* RegisterInfo.

Indices(info) == IF info.range = {} THEN {0} ELSE UNION {r.first .. r.last : r \in info.range}

\* format: a display pattern, with a number in it or not, before the name.
format(info, index) ==
  CASE info.display # {} -> LET d == unwrap_or(info.display, {})
                            IN  IF d.numbered THEN <<d.text, index>> ELSE <<d.text>>
    [] info.range # {} -> Append(info.name, index)
    [] OTHER -> info.name

width_of(p) == unwrap_or(Info(p).size_bits, unwrap_or(Spaces[p.space].size_bits, BITS))
element_bytes(width) == Max({1, (width + 7) \div 8})

\* find_by_label: the registers and indices that have this label.
Labels == UNION {{[label |-> At(p.space, format(Info(p), i)), entry |-> <<p, i>>] : i \in Indices(Info(p))} :
                   p \in Registers}
Labelled(p) == {l.entry : l \in {l \in Labels : l.label = p}}

-----------------------------------------------------------------------------
\* Redirects.

Target(p) ==
  LET redirect == unwrap_or(Info(p).redirect, {})
  IN  IF Len(redirect.path) = 1 THEN {At(unwrap_or(redirect.space, p.space), redirect.path[1])} ELSE {}

\* follow_redirect: none for what is no alias, an error past MAX_REDIRECTS.
FollowRedirect(p) ==
  LET hop[k \in 0 .. MAX_REDIRECTS] ==
        IF k = 0 THEN {p} ELSE UNION {Target(q) : q \in {r \in hop[k - 1] : IsAlias(r)}}
  IN  {q \in UNION {hop[k] : k \in 1 .. MAX_REDIRECTS} : q.space \in DOMAIN Spaces /\ ~IsAlias(q)}

\* resolve_register_bit_width: it looks one redirect far.
AliasWidth(p) ==
  UNION {IF Declared(q) THEN {width_of(q)}
         ELSE {width_of(e[1]) : e \in {e \in Labelled(q) : Info(e[1]).range # {}}} : q \in Target(p)}

-----------------------------------------------------------------------------
\* RegisterSchema::build.

FieldsIn(container_bits, subfields) ==
  [i \in DOMAIN subfields |->
     [name |-> subfields[i].name, spec |-> from_spec_str(container_bits, subfields[i].bit_spec)]]

FieldsFit(container_bits, subfields) ==
  \A i \in DOMAIN subfields : from_spec_str(container_bits, subfields[i].bit_spec) # {}

fields(p) ==
  IF Info(p).subfields = <<>> THEN <<[name |-> "VALUE", spec |-> {from_range(0, width_of(p))}]>>
  ELSE FieldsIn(width_of(p), Info(p).subfields)

alias_fields(p) ==
  IF IsAlias(p) /\ Info(p).subfields # <<>>
  THEN UNION {FieldsIn(w, Info(p).subfields) : w \in AliasWidth(p)} ELSE <<>>

SchemaBuilds ==
  \A p \in Everywhere :
    IF IsAlias(p)
    THEN Info(p).subfields = <<>> \/ \E w \in AliasWidth(p) : FieldsFit(w, Info(p).subfields)
    ELSE /\ width_of(p) \in 1 .. BITS
         /\ FieldsFit(width_of(p), Info(p).subfields)
         /\ element_bytes(width_of(p)) * Cardinality(Indices(Info(p))) < U32

\* The registers of the snapshot that CoreSpec::from_machine lays out.
Cells == UNION {{At(p.space, format(Info(p), i)) : i \in Indices(Info(p))} : p \in Registers}

-----------------------------------------------------------------------------
\* RegisterAccess::resolve.

\* select_element.
Element(p, index) ==
  IF Cardinality(Indices(Info(p))) > 1 THEN index \cap Indices(Info(p))
  ELSE IF index \subseteq {0} THEN Indices(Info(p)) ELSE {}

\* select_field: the register's own fields come first.
SelectField(p, subfield, more) ==
  LET known == fields(p) \o more
      found == SelectInSeq(known, LAMBDA f : {f.name} = subfield)
  IN  IF subfield = {} THEN {{}} ELSE IF found = 0 THEN {} ELSE {known[found].spec}

Resolved(p, index, field, shown) ==
  [cell |-> At(p.space, format(Info(p), index)), width |-> width_of(p), field |-> field,
   shown |-> unwrap_or(shown, At(p.space, format(Info(p), index)))]

Known(p) == p \in Registers \/ Labelled(p) # {}

try_resolve_direct(p, subfield, index, more, shown) ==
  LET places == IF p \in Registers THEN {<<p, i>> : i \in Element(p, index)}
                ELSE {e \in Labelled(p) : index \subseteq {e[2]}}
  IN  UNION {{Resolved(e[1], e[2], f, shown) : f \in SelectField(e[1], subfield, more)} : e \in places}

resolve(p, subfield, index) ==
  IF Known(p) THEN try_resolve_direct(p, subfield, index, alias_fields(p), {})
  ELSE UNION {try_resolve_direct(q, subfield, index, alias_fields(p), {p}) : q \in FollowRedirect(p)}

-----------------------------------------------------------------------------
\* ResolvedRegister over the contents of the snapshot.

BitWidth(r) == IF r.field = {} THEN r.width ELSE data_width(unwrap_or(r.field, {}))

ReadResolved(r, regs) ==
  IF r.field = {} THEN AsI64(regs[r.cell]) ELSE read_signed(unwrap_or(r.field, {}), regs[r.cell])

\* Variant: the other bits of the register are cleared.
WriteAlone(r, regs, value) ==
  {[regs EXCEPT ![r.cell] = word % 2^r.width] :
     word \in IF r.field = {} THEN {AsU64(value)}
              ELSE write_bits(unwrap_or(r.field, {}), 0, AsU64(value))}

\* write_register keeps the bits that fit the register.
WriteResolved(r, regs, value) ==
  {[regs EXCEPT ![r.cell] = word % 2^r.width] :
     word \in IF r.field = {} THEN {AsU64(value)}
              ELSE write_bits(unwrap_or(r.field, {}), regs[r.cell], AsU64(value))}
=============================================================================
