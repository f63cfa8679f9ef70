----------------------------- MODULE SymbolWalk -----------------------------
(***************************************************************************)
(* The types of a program (src/src/soc/prog/types) and the walk over the   *)
(* primitive values inside one (SymbolWalker of prog/symbols/walker.rs).   *)
(* A TypeId is an index of the arena; the arena is finished when symbols   *)
(* are read.  The names of members are left out: a path is the sequence of *)
(* the places of members and elements, from 1.                             *)
(***************************************************************************)
EXTENDS Integers, Sequences

CONSTANTS
  Types,          \* TypeArena.records
  BITS_PER_BYTE,  \* bits in a byte (8)
  BITS,           \* bits of u64 (64)
  U32,            \* numbers in u32 (2^32)
  FLOAT_BYTES     \* sizes of f32 and f64 ({4, 8})

Fields == INSTANCE BitFields

-----------------------------------------------------------------------------
\* TypeBuilder and AggregateBuilder: sizes and offsets are u32.

Scalar(encoding, byte_size) ==
  [shape |-> "scalar", encoding |-> encoding, byte_size |-> byte_size]
Enumeration(base) == [shape |-> "enum", byte_size |-> base.byte_size]
Fixed(base) == [shape |-> "fixed", byte_size |-> base.byte_size]
Pointer(target, byte_size) ==
  [shape |-> "pointer", target |-> target, byte_size |-> IF byte_size = 0 THEN 1 ELSE byte_size]
Opaque(byte_size) == [shape |-> "opaque", byte_size |-> byte_size]
BitField(spec) == [shape |-> "bitfield", spec |-> spec]

\* count is {n} for SequenceCount::Static(n) and {} for Dynamic.
SequenceOf(element, stride_bytes, count) ==
  [shape |-> "sequence", element |-> element, stride_bytes |-> stride_bytes, count |-> count]

member(ty, byte_offset) == [ty |-> ty, offset_bits |-> (byte_offset * BITS_PER_BYTE) % U32]
member_bits(ty, offset_bits) == [ty |-> ty, offset_bits |-> offset_bits]
Aggregate(members, bytes, trailing_bits) ==
  [shape |-> "aggregate", members |-> members, bytes |-> bytes, trailing_bits |-> trailing_bits]

\* CallableType and DynamicAggregate: nothing of them is walked or read.
Shapeless == [shape |-> "shapeless"]

TypeId == DOMAIN Types

\* The end of the bits a field takes from its container: the max of bit_span.
BitEnd(spec) ==
  IF Fields!bit_span(spec) = {} THEN 0 ELSE (CHOOSE span \in Fields!bit_span(spec) : TRUE)[2]

Encodings == {"unsigned", "signed", "floating", "utf8"}

\* A builder is given the ids of types it has made already; only the target of
\* a pointer may be set later, through get_mut.
IsType(id, t) ==
  \/ /\ t.shape = "scalar"
     /\ t.encoding \in Encodings /\ t.byte_size \in Nat
  \/ t.shape \in {"enum", "fixed", "opaque"} /\ t.byte_size \in Nat
  \/ t.shape = "pointer" /\ t.byte_size \in Nat \ {0} /\ t.target \in TypeId
  \/ t.shape = "bitfield" /\ BitEnd(t.spec) \in 0 .. BITS
  \/ /\ t.shape = "sequence"
     /\ t.element \in 1 .. id - 1 /\ t.stride_bytes \in Nat
     /\ t.count \subseteq Nat /\ \A m, n \in t.count : m = n
  \/ /\ t.shape = "aggregate"
     /\ t.members \in Seq([ty : 1 .. id - 1, offset_bits : Nat])
     /\ t.bytes \in Nat /\ t.trailing_bits \in Nat
  \/ t.shape = "shapeless"

ASSUME WalkAssumption ==
  /\ BITS_PER_BYTE \in Nat \ {0}
  /\ BITS \in Nat \ {0}
  /\ U32 \in Nat \ {0}
  /\ FLOAT_BYTES \subseteq Nat \ {0}
  /\ DOMAIN Types = 1 .. Len(Types)
  /\ \A id \in DOMAIN Types : IsType(id, Types[id])

Bytes(n) == n * BITS_PER_BYTE

\* type_size (system/bus/symbol/size.rs): the size in bytes, {} for None.
type_size(id) ==
  LET t == Types[id]
  IN  CASE t.shape \in {"scalar", "enum", "fixed", "pointer", "opaque"} -> {t.byte_size}
        [] t.shape = "aggregate" -> {t.bytes}
        [] t.shape = "sequence" -> {n * t.stride_bytes : n \in {c \in t.count : c * t.stride_bytes < U32}}
        [] OTHER -> {}

-----------------------------------------------------------------------------
VARIABLES
  root,    \* the type that is walked, {} before SymbolWalker::new
  stack,   \* SymbolWalker.stack, top first
  emitted  \* history: the entries next has returned

walkVars == <<root, stack, emitted>>

Frame(ty, offset_bits, path) == [ty |-> ty, offset_bits |-> offset_bits, path |-> path]

WalkInit == root = {} /\ stack = <<>> /\ emitted = <<>>

\* SymbolWalker::new.
StartWalk(ty) ==
  /\ root' = {ty}
  /\ stack' = <<Frame(ty, 0, <<>>)>>
  /\ emitted' = <<>>

EndWalk == root' = {} /\ stack' = <<>> /\ emitted' = <<>>

\* Variant: elements are counted from 1.
FromOne(f, t, n) ==
  [i \in 1 .. n |-> Frame(t.element, f.offset_bits + i * Bytes(t.stride_bytes), Append(f.path, i))]

Elements(f, t, n) ==
  [i \in 1 .. n |-> Frame(t.element, f.offset_bits + (i - 1) * Bytes(t.stride_bytes), Append(f.path, i))]

Members(f, t) ==
  [i \in DOMAIN t.members |->
     Frame(t.members[i].ty, f.offset_bits + t.members[i].offset_bits, Append(f.path, i))]

\* push_sequence and push_aggregate: the frames of a frame, the first one to be
\* popped first.
Parts(f) ==
  LET t == Types[f.ty]
  IN  IF t.shape = "aggregate" THEN Members(f, t)
      ELSE IF t.shape = "sequence" /\ t.count # {} THEN Elements(f, t, CHOOSE n \in t.count : TRUE)
      ELSE <<>>

\* The shapes that are values; a float of another size is passed over.
IsLeaf(t) ==
  \/ t.shape \in {"enum", "fixed", "pointer", "bitfield"}
  \/ t.shape = "scalar" /\ (t.encoding = "floating" => t.byte_size \in FLOAT_BYTES)

bit_len(t) ==
  IF t.shape = "bitfield" THEN Fields!total_width(t.spec) ELSE Bytes(t.byte_size) % U32

\* SymbolWalkEntry; its kind follows from its type.
Entry(f) ==
  [ty |-> f.ty, path |-> f.path, offset_bits |-> f.offset_bits, bit_len |-> bit_len(Types[f.ty])]

byte_len(e) == (e.bit_len + BITS_PER_BYTE - 1) \div BITS_PER_BYTE

\* Variant: the parts of a frame wait behind the rest.
PushBelow(parts, rest) == rest \o parts

Push(parts, rest) == parts \o rest

\* One turn of the loop in next.
WalkStep ==
  /\ stack # <<>>
  /\ stack' = Push(Parts(Head(stack)), Tail(stack))
  /\ emitted' = IF IsLeaf(Types[Head(stack).ty]) THEN Append(emitted, Entry(Head(stack))) ELSE emitted
  /\ UNCHANGED root

WalkNext == EndWalk \/ WalkStep \/ \E ty \in TypeId : StartWalk(ty)
WalkSpec == WalkInit /\ [][WalkNext]_walkVars

-----------------------------------------------------------------------------
\* Properties.

\* The bits a value of a type takes up from its own offset on.
Extent(t) ==
  CASE t.shape \in {"scalar", "enum", "fixed", "pointer", "opaque"} -> Bytes(t.byte_size)
    [] t.shape = "aggregate" -> Bytes(t.bytes) + t.trailing_bits
    [] t.shape = "bitfield" -> BitEnd(t.spec)
    [] t.shape = "sequence" /\ t.count # {} -> (CHOOSE n \in t.count : TRUE) * Bytes(t.stride_bytes)
    [] OTHER -> 0

\* Debug information without members or elements that stick out of their type.
WellLaid ==
  \A id \in TypeId :
    LET t == Types[id]
    IN  /\ t.shape = "aggregate" =>
             \A i \in DOMAIN t.members :
               t.members[i].offset_bits + Extent(Types[t.members[i].ty]) <= Extent(t)
        /\ t.shape = "sequence" => Extent(Types[t.element]) <= Bytes(t.stride_bytes)

Within(place, ty) == place.offset_bits \in Nat /\ place.offset_bits + Extent(Types[place.ty]) <= Extent(Types[ty])

\* Wherever the walk stands, in arrays of structures in unions, everything it
\* still has to visit and every entry it has returned lies inside the type it
\* started from: no entry sends a reader past the end of its symbol.
EntriesInRoot ==
  WellLaid => \A ty \in root :
    /\ \A i \in DOMAIN stack : Within(stack[i], ty)
    /\ \A i \in DOMAIN emitted : Within(emitted[i], ty)

\* The entries of a value of a type at a place, by declaration: those of the
\* parts of the value, in order, without a stack.
Concatenated(seqs) ==
  LET upTo[n \in 0 .. Len(seqs)] == IF n = 0 THEN <<>> ELSE upTo[n - 1] \o seqs[n]
  IN  upTo[Len(seqs)]

Moved(entries, by, place) ==
  [i \in DOMAIN entries |->
     [entries[i] EXCEPT !.offset_bits = @ + by, !.path = <<place>> \o @]]

Declared ==
  LET of[id \in TypeId] ==
        LET t == Types[id]
        IN  CASE t.shape = "aggregate" ->
                   Concatenated([i \in DOMAIN t.members |->
                     Moved(of[t.members[i].ty], t.members[i].offset_bits, i)])
              [] t.shape = "sequence" /\ t.count # {} ->
                   Concatenated([i \in 1 .. CHOOSE n \in t.count : TRUE |->
                     Moved(of[t.element], (i - 1) * Bytes(t.stride_bytes), i)])
              [] IsLeaf(t) -> <<Entry(Frame(id, 0, <<>>))>>
              [] OTHER -> <<>>
  IN  of

\* "Returns the next primitive value in declaration order" (cursor.rs): what has
\* been returned is always the beginning of what is declared, and at the end of
\* the walk all of it.
WalkInOrder ==
  \A ty \in root :
    LET all == Declared[ty]
    IN  /\ Len(emitted) <= Len(all)
        /\ emitted = SubSeq(all, 1, Len(emitted))
        /\ stack = <<>> => emitted = all
=============================================================================
