------------------------- MODULE SymbolAccessProofs -------------------------
(***************************************************************************)
(* Proofs about SymbolWalk and SymbolAccess, for any types, symbols and    *)
(* buses: no value that is read through a symbol lies outside it, if the   *)
(* types are laid out without overhang; its entries come in the order of   *)
(* their declaration; a call moves the bytes of its value in ascending     *)
(* order through one handle (AccessInvariant, which the rest builds on);   *)
(* and a value that is returned is what the devices held.                  *)
(***************************************************************************)
EXTENDS SymbolAccess, DataHandleProofs, SequenceTheorems, WellFoundedInduction

-----------------------------------------------------------------------------
\* Arithmetic.

\* Element i of an array of n ends where element i + 1 begins, and the last
\* one at the end of the array.
LEMMA ElementEnds ==
  ASSUME NEW i \in Nat, NEW n \in Nat, 1 <= i, i <= n, NEW stride \in Nat
  PROVE  /\ (i - 1) * stride \in Nat
         /\ (i - 1) * stride + stride <= n * stride
<1>1. (i - 1) * stride + stride = i * stride
  OBVIOUS
<1>2. i * stride <= n * stride
  <2>1. PICK d \in Nat : n = i + d
    <3>1. n - i \in Nat /\ n = i + (n - i)
      OBVIOUS
    <3>2. QED
      BY <3>1
  <2>2. n * stride = i * stride + d * stride
    BY <2>1
  <2>3. d * stride \in Nat /\ i * stride \in Nat
    OBVIOUS
  <2>4. QED
    BY <2>2, <2>3
<1>3. QED
  BY <1>1, <1>2

-----------------------------------------------------------------------------
\* The walk.

Path == Seq(Nat)
Frames == [ty : TypeId, offset_bits : Nat, path : Path]
Entries == [ty : TypeId, path : Path, offset_bits : Nat,
            bit_len : {bit_len(Types[id]) : id \in TypeId}]

\* The stack and the entries are sequences of their types.
WalkTypeOK ==
  /\ root \subseteq TypeId
  /\ stack \in Seq(Frames)
  /\ emitted \in Seq(Entries)

WalkInv == WalkTypeOK /\ EntriesInRoot

\* A number of bits takes a whole number of bytes.
LEMMA BytesNat ==
  ASSUME NEW n \in Nat
  PROVE  Bytes(n) \in Nat
BY WalkAssumption DEF Bytes

\* What the builders ensure of a type that has parts.
LEMMA PartTypes ==
  ASSUME NEW id \in TypeId
  PROVE  /\ Types[id].shape = "aggregate" =>
              \A i \in DOMAIN Types[id].members :
                /\ Types[id].members[i].ty \in TypeId
                /\ Types[id].members[i].offset_bits \in Nat
         /\ Types[id].shape = "sequence" =>
              /\ Types[id].element \in TypeId
              /\ Types[id].stride_bytes \in Nat
              /\ Types[id].count # {} => (CHOOSE n \in Types[id].count : TRUE) \in Nat
<1> DEFINE t == Types[id]
<1>1. IsType(id, t) /\ id \in 1 .. Len(Types) /\ TypeId = 1 .. Len(Types)
  BY WalkAssumption DEF TypeId
<1>2. Len(Types) \in Nat /\ 1 .. id - 1 \subseteq TypeId
  BY <1>1
<1>3. t.shape = "aggregate" => t.members \in Seq([ty : 1 .. id - 1, offset_bits : Nat])
  BY <1>1 DEF IsType
<1>4. t.shape = "sequence" =>
        /\ t.element \in 1 .. id - 1 /\ t.stride_bytes \in Nat /\ t.count \subseteq Nat
  BY <1>1 DEF IsType
<1> HIDE DEF t
<1>5. ASSUME t.shape = "aggregate", NEW i \in DOMAIN t.members
      PROVE  t.members[i].ty \in TypeId /\ t.members[i].offset_bits \in Nat
  <2>1. t.members \in Seq([ty : 1 .. id - 1, offset_bits : Nat])
    BY <1>3, <1>5
  <2>2. t.members[i] \in [ty : 1 .. id - 1, offset_bits : Nat]
    BY <1>5, <2>1, LenProperties, ElementOfSeq
  <2>3. QED
    BY <1>2, <2>2
<1>6. QED
  BY <1>2, <1>4, <1>5 DEF t

\* Every type has a whole number of bytes.
LEMMA ExtentNat ==
  ASSUME NEW id \in TypeId
  PROVE  Extent(Types[id]) \in Nat
<1> DEFINE t == Types[id]
<1>1. IsType(id, t)
  BY WalkAssumption DEF TypeId
<1>2. t.shape \in {"scalar", "enum", "fixed", "pointer", "opaque"} => t.byte_size \in Nat
  BY <1>1 DEF IsType
<1>3. t.shape = "aggregate" => t.bytes \in Nat /\ t.trailing_bits \in Nat
  BY <1>1 DEF IsType
<1>4. t.shape = "bitfield" => BitEnd(t.spec) \in Nat
  BY <1>1, WalkAssumption DEF IsType
<1>5. t.shape = "sequence" /\ t.count # {} =>
        (CHOOSE n \in t.count : TRUE) \in Nat /\ t.stride_bytes \in Nat
  BY PartTypes
<1> HIDE DEF t
<1>6. t.shape = "sequence" /\ t.count # {} =>
        (CHOOSE n \in t.count : TRUE) * Bytes(t.stride_bytes) \in Nat
  BY <1>5, BytesNat
<1>7. t.shape \in {"scalar", "enum", "fixed", "pointer", "opaque"} => Bytes(t.byte_size) \in Nat
  BY <1>2, BytesNat
<1>8. t.shape = "aggregate" => Bytes(t.bytes) + t.trailing_bits \in Nat
  BY <1>3, BytesNat
<1>9. Extent(t) \in Nat
  BY <1>4, <1>6, <1>7, <1>8 DEF Extent
<1>10. QED
  BY <1>9 DEF t

\* The frames that a frame is replaced by are frames, and in a program that is
\* well laid out each lies inside the type the first one lies in.
LEMMA PartsInside ==
  ASSUME NEW f \in Frames
  PROVE  /\ Parts(f) \in Seq(Frames)
         /\ WellLaid => \A ty \in TypeId : Within(f, ty) =>
              \A i \in DOMAIN Parts(f) : Within(Parts(f)[i], ty)
<1> DEFINE t == Types[f.ty]
<1>1. f.ty \in TypeId /\ f.offset_bits \in Nat /\ f.path \in Path
  BY DEF Frames
<1>2. CASE t.shape = "aggregate"
  <2>1. Parts(f) = Members(f, t)
    BY <1>2 DEF Parts
  <2>2. \E n \in Nat : DOMAIN t.members = 1 .. n
    <3>1. IsType(f.ty, t)
      BY <1>1, WalkAssumption DEF TypeId
    <3>2. t.members \in Seq([ty : 1 .. f.ty - 1, offset_bits : Nat])
      BY <1>2, <3>1 DEF IsType
    <3> HIDE DEF t
    <3>3. QED
      BY <3>2
  <2>3. PICK n \in Nat : DOMAIN t.members = 1 .. n
    BY <2>2
  <2>4. \A i \in 1 .. n : t.members[i].ty \in TypeId /\ t.members[i].offset_bits \in Nat
    BY <1>1, <1>2, <2>3, PartTypes
  <2>5. WellLaid => \A i \in 1 .. n :
          t.members[i].offset_bits + Extent(Types[t.members[i].ty]) <= Extent(t)
    BY <1>1, <1>2, <2>3 DEF WellLaid
  <2>6. \A i \in 1 .. n : Extent(Types[t.members[i].ty]) \in Nat
    BY <2>4, ExtentNat
  <2>7. Extent(t) \in Nat
    BY <1>1, ExtentNat
  <2>8. \A i \in 1 .. n : Append(f.path, i) \in Path
    BY <1>1 DEF Path
  <2>9. Members(f, t) = [i \in 1 .. n |->
          Frame(t.members[i].ty, f.offset_bits + t.members[i].offset_bits, Append(f.path, i))]
    BY <2>3 DEF Members
  <2> HIDE DEF t
  <2>10. \A i \in 1 .. n :
           Frame(t.members[i].ty, f.offset_bits + t.members[i].offset_bits, Append(f.path, i)) \in Frames
    BY <1>1, <2>4, <2>8 DEF Frame, Frames
  <2>11. Parts(f) \in Seq(Frames)
    BY <2>1, <2>9, <2>10
  <2>12. ASSUME WellLaid, NEW ty \in TypeId, Within(f, ty), NEW i \in DOMAIN Parts(f)
         PROVE  Within(Parts(f)[i], ty)
    <3>1. i \in 1 .. n /\ Parts(f)[i].offset_bits = f.offset_bits + t.members[i].offset_bits
          /\ Parts(f)[i].ty = t.members[i].ty
      BY <2>1, <2>9, <2>12 DEF Frame
    <3>2. f.offset_bits + Extent(t) <= Extent(Types[ty]) /\ Extent(Types[ty]) \in Nat
      BY <2>12, ExtentNat DEF Within, t
    <3>3. QED
      BY <1>1, <2>4, <2>5, <2>6, <2>7, <2>12, <3>1, <3>2 DEF Within
  <2>13. QED
    BY <2>11, <2>12
<1>3. CASE t.shape = "sequence" /\ t.count # {}
  <2> DEFINE n == CHOOSE c \in t.count : TRUE
             stride == Bytes(t.stride_bytes)
  <2>1. Parts(f) = Elements(f, t, n)
    BY <1>3 DEF Parts
  <2>2. n \in Nat /\ t.stride_bytes \in Nat /\ t.element \in TypeId
    BY <1>1, <1>3, PartTypes
  <2>3. stride \in Nat /\ Extent(Types[t.element]) \in Nat
    BY <2>2, BytesNat, ExtentNat
  <2>4. Extent(t) = n * stride
    BY <1>3 DEF Extent
  <2>5. WellLaid => Extent(Types[t.element]) <= stride
    BY <1>1, <1>3 DEF WellLaid
  <2>6. Elements(f, t, n) = [i \in 1 .. n |->
          Frame(t.element, f.offset_bits + (i - 1) * stride, Append(f.path, i))]
    BY DEF Elements
  <2> HIDE DEF n, stride
  <2>7. \A i \in 1 .. n : (i - 1) * stride \in Nat /\ (i - 1) * stride + stride <= n * stride
    BY <2>2, <2>3, ElementEnds
  <2>8. \A i \in 1 .. n : Append(f.path, i) \in Path
    BY <1>1, <2>2 DEF Path
  <2>9. n * stride \in Nat
    BY <2>2, <2>3
  <2>10. \A i \in 1 .. n :
           Frame(t.element, f.offset_bits + (i - 1) * stride, Append(f.path, i)) \in Frames
    <3> HIDE DEF t
    <3> QED BY <1>1, <2>2, <2>7, <2>8 DEF Frame, Frames
  <2>11. Parts(f) \in Seq(Frames)
    BY <2>1, <2>2, <2>6, <2>10
  <2>12. ASSUME WellLaid, NEW ty \in TypeId, Within(f, ty), NEW i \in DOMAIN Parts(f)
         PROVE  Within(Parts(f)[i], ty)
    <3>1. i \in 1 .. n /\ Parts(f)[i].offset_bits = f.offset_bits + (i - 1) * stride
          /\ Parts(f)[i].ty = t.element
      BY <2>1, <2>6, <2>12 DEF Frame
    <3>2. f.offset_bits + Extent(t) <= Extent(Types[ty]) /\ Extent(Types[ty]) \in Nat
      BY <2>12, ExtentNat DEF Within
    <3>3. (i - 1) * stride \in Nat /\ (i - 1) * stride + stride <= n * stride
      BY <2>7, <3>1
    <3>4. Extent(Types[t.element]) <= stride
      BY <2>5, <2>12
    <3>5. QED
      BY <1>1, <2>3, <2>4, <2>9, <3>1, <3>2, <3>3, <3>4 DEF Within
  <2>13. QED
    BY <2>11, <2>12
<1>4. CASE ~(t.shape = "aggregate") /\ ~(t.shape = "sequence" /\ t.count # {})
  <2>1. Parts(f) = <<>>
    BY <1>4 DEF Parts
  <2>2. QED
    BY <2>1
<1>5. QED
  BY <1>2, <1>3, <1>4
-----------------------------------------------------------------------------
\* Before the first walk nothing is on the stack.
LEMMA InitInside == WalkInit => WalkInv
BY DEF WalkInit, WalkInv, WalkTypeOK, EntriesInRoot

\* A finished walk leaves nothing on the stack.
LEMMA EndInside == EndWalk => WalkInv'
BY DEF EndWalk, WalkInv, WalkTypeOK, EntriesInRoot, WellLaid

\* The type itself is the first frame.
LEMMA StartInside ==
  ASSUME NEW ty \in TypeId, StartWalk(ty)
  PROVE  WalkInv'
<1>1. root' = {ty} /\ stack' = <<Frame(ty, 0, <<>>)>> /\ emitted' = <<>>
  BY DEF StartWalk
<1>2. <<>> \in Path
  BY EmptySeq DEF Path
<1>3. Frame(ty, 0, <<>>) \in Frames
  BY <1>2 DEF Frame, Frames
<1>4. stack' \in Seq(Frames) /\ Len(stack') = 1 /\ stack'[1] = Frame(ty, 0, <<>>)
  BY <1>1, <1>3
<1>5. Extent(Types[ty]) \in Nat
  BY ExtentNat
<1>6. Within(Frame(ty, 0, <<>>), ty)
  BY <1>5 DEF Within, Frame
<1>7. DOMAIN stack' = {1} /\ DOMAIN emitted' = {}
  BY <1>1
<1>8. EntriesInRoot'
  BY <1>1, <1>4, <1>6, <1>7 DEF EntriesInRoot, Within
<1>9. QED
  BY <1>1, <1>4, <1>8 DEF WalkInv, WalkTypeOK

\* A popped frame is replaced by its parts, or becomes the entry at its offset;
\* either keeps to the root when the frame did.
LEMMA StepInside ==
  ASSUME WalkInv, WalkStep
  PROVE  WalkInv'
<1> DEFINE f == Head(stack)
           leaf == IsLeaf(Types[f.ty])
<1>1. stack \in Seq(Frames) /\ stack # <<>> /\ emitted \in Seq(Entries) /\ root \subseteq TypeId
  BY DEF WalkInv, WalkTypeOK, WalkStep
<1>2. /\ f \in Frames /\ f = stack[1]
      /\ Tail(stack) \in Seq(Frames)
      /\ Len(Tail(stack)) = Len(stack) - 1 /\ Len(stack) \in Nat \ {0}
      /\ \A i \in 1 .. Len(Tail(stack)) : Tail(stack)[i] = stack[i + 1]
  BY <1>1, HeadTailProperties, LenProperties, EmptySeq
<1>3. Parts(f) \in Seq(Frames)
  BY <1>2, PartsInside
<1>4. stack' = Parts(f) \o Tail(stack) /\ root' = root
  BY DEF WalkStep, Push
<1>5. emitted' = IF leaf THEN Append(emitted, Entry(f)) ELSE emitted
  BY DEF WalkStep
<1>6. Entry(f) \in Entries /\ Entry(f).ty = f.ty /\ Entry(f).offset_bits = f.offset_bits
  BY <1>2 DEF Entry, Entries, Frames
<1> HIDE DEF f, leaf
<1>7. stack' \in Seq(Frames)
  BY <1>2, <1>3, <1>4, ConcatProperties
<1>8. emitted' \in Seq(Entries)
  BY <1>1, <1>5, <1>6, AppendProperties
<1>9. ASSUME WellLaid, NEW ty \in root, NEW i \in DOMAIN stack'
      PROVE  Within(stack'[i], ty)
  <2>1. \A j \in 1 .. Len(stack) : Within(stack[j], ty)
    BY <1>1, <1>9, LenProperties DEF WalkInv, EntriesInRoot
  <2>2. \A j \in 1 .. Len(Parts(f)) : Within(Parts(f)[j], ty)
    <3>1. Within(f, ty)
      BY <1>2, <2>1
    <3>2. QED
      BY <1>1, <1>2, <1>3, <1>9, <3>1, PartsInside, LenProperties
  <2>3. i \in 1 .. Len(Parts(f)) + Len(Tail(stack))
        /\ stack'[i] = IF i <= Len(Parts(f)) THEN Parts(f)[i] ELSE Tail(stack)[i - Len(Parts(f))]
    BY <1>2, <1>3, <1>4, <1>7, <1>9, ConcatProperties, LenProperties
  <2>4. Len(Parts(f)) \in Nat /\ Len(Tail(stack)) \in Nat
    BY <1>2, <1>3, LenProperties
  <2>5. QED
    BY <1>2, <2>1, <2>2, <2>3, <2>4
<1>10. ASSUME WellLaid, NEW ty \in root, NEW i \in DOMAIN emitted'
       PROVE  Within(emitted'[i], ty)
  <2>1. \A j \in DOMAIN emitted : Within(emitted[j], ty)
    BY <1>9, <1>10 DEF WalkInv, EntriesInRoot
  <2>2. Within(Entry(f), ty)
    <3>1. Within(stack[1], ty)
      BY <1>1, <1>2, <1>10, LenProperties DEF WalkInv, EntriesInRoot
    <3>2. QED
      BY <1>2, <1>6, <3>1 DEF Within
  <2>3. CASE leaf
    <3>1. /\ Len(emitted') = Len(emitted) + 1
          /\ \A j \in 1 .. Len(emitted) : emitted'[j] = emitted[j]
          /\ emitted'[Len(emitted) + 1] = Entry(f)
      BY <1>1, <1>5, <1>6, <2>3, AppendProperties
    <3>2. DOMAIN emitted = 1 .. Len(emitted) /\ DOMAIN emitted' = 1 .. Len(emitted')
          /\ Len(emitted) \in Nat
      BY <1>1, <1>8, LenProperties
    <3>3. QED
      BY <1>10, <2>1, <2>2, <3>1, <3>2
  <2>4. CASE ~leaf
    BY <1>5, <1>10, <2>1, <2>4
  <2>5. QED
    BY <2>3, <2>4
<1>11. EntriesInRoot'
  BY <1>4, <1>9, <1>10 DEF EntriesInRoot, WellLaid, Within
<1>12. QED
  BY <1>1, <1>4, <1>7, <1>8, <1>11 DEF WalkInv, WalkTypeOK

\* Every step of the walker keeps its frames and entries inside the root.
LEMMA WalkInside == WalkInv /\ [WalkNext]_walkVars => WalkInv'
<1> SUFFICES ASSUME WalkInv, [WalkNext]_walkVars PROVE WalkInv'
  OBVIOUS
<1>1. CASE UNCHANGED walkVars
  BY <1>1 DEF WalkInv, WalkTypeOK, EntriesInRoot, Within, walkVars
<1>2. QED
  BY <1>1, EndInside, StartInside, StepInside DEF WalkNext

\* Whatever is walked, each frame still to be visited and each entry returned
\* lies inside the root of the walk.  The frames are why: an entry was a frame,
\* and what a frame is replaced by lies inside it.
THEOREM WalkStaysInRoot == WalkSpec => []EntriesInRoot
<1>1. WalkInv => EntriesInRoot
  BY DEF WalkInv
<1>2. QED
  BY <1>1, InitInside, WalkInside, PTL DEF WalkSpec

-----------------------------------------------------------------------------
\* The walk of a cursor.

\* What a cursor is prepared with is the type of its symbol, if it has one.
LEMMA PreparedTypes ==
  ASSUME NEW n \in Symbols, NEW p \in prepare(n)
  PROVE  p.ty \subseteq TypeId
<1>1. n \in DOMAIN Table.records
  BY SymbolAssumption
<1>2. p.ty = Table.records[n].type_id
  BY DEF prepare
<1>3. QED
  BY <1>1, <1>2, SymbolAssumption

\* Nothing but the cursor walks, and the cursor walks as the walker does.
LEMMA AccessWalks == SymbolNext => [WalkNext]_walkVars
<1> SUFFICES ASSUME SymbolNext PROVE [WalkNext]_walkVars
  OBVIOUS
<1>1. CASE SymbolCall
  <2>1. ASSUME NEW n \in Symbols, ValueCursor(n)
        PROVE  WalkNext
    <3>1. PICK p \in prepare(n) : \E id \in p.ty : StartWalk(id)
      BY <2>1 DEF ValueCursor
    <3>2. p.ty \subseteq TypeId
      BY PreparedTypes
    <3>3. QED
      BY <3>1, <3>2 DEF WalkNext
  <2>2. DropCursor => WalkNext
    BY DEF DropCursor, WalkNext
  <2>3. ASSUME NEW n \in Symbols, ReadValue(n) \/ ReadRawBytes(n)
        PROVE  UNCHANGED walkVars
    BY <2>3 DEF ReadValue, ReadRawBytes
  <2>4. TryNext \/ Deref => UNCHANGED walkVars
    BY DEF TryNext, Deref
  <2>5. \A data \in Payloads : WriteEntry(data) => UNCHANGED walkVars
    BY DEF WriteEntry
  <2>6. \A s \in Streams : ReadStream(s) => UNCHANGED walkVars
    BY DEF ReadStream
  <2>7. QED
    BY <1>1, <2>1, <2>2, <2>3, <2>4, <2>5, <2>6 DEF SymbolCall
<1>2. CASE SymbolStep
  <2>1. PassOver \/ Reach => WalkNext
    BY DEF PassOver, Reach, WalkNext
  <2>2. WalkedOut \/ JumpTo \/ ReadNumber \/ ReadPiece => UNCHANGED walkVars
    BY DEF WalkedOut, JumpTo, ReadNumber, ReadPiece, InCall
  <2>3. WritePiece \/ ReadByte \/ Settle => UNCHANGED walkVars
    BY DEF WritePiece, ReadByte, Settle, InCall
  <2>4. QED
    BY <1>2, <2>1, <2>2, <2>3 DEF SymbolStep
<1>3. CASE ForeignWrite \/ SymbolRemap
  BY <1>3 DEF ForeignWrite, SymbolRemap, walkVars
<1>4. QED
  BY <1>1, <1>2, <1>3 DEF SymbolNext

\* A SymbolHandle and its cursors, with streams, other writers and a moving map
\* around them, only ever take the steps of a SymbolWalker.
THEOREM AccessImplementsWalk == SymbolSpec => WalkSpec
<1>1. SymbolInit => WalkInit
  BY DEF SymbolInit
<1>2. [SymbolNext]_symbolVars => [WalkNext]_walkVars
  BY AccessWalks DEF symbolVars, walkVars
<1>3. QED
  BY <1>1, <1>2, PTL DEF SymbolSpec, WalkSpec

\* try_next never returns an entry outside the type of its symbol: the same for
\* the cursors of a SymbolHandle.
THEOREM EntriesStayInRoot == SymbolSpec => []EntriesInRoot
BY AccessImplementsWalk, WalkStaysInRoot, PTL

-----------------------------------------------------------------------------
\* Induction: over a set of numbers, by its smallest missing member.

\* A set of numbers that holds its first number, and with a number the next one
\* up to a bound, holds all of them up to the bound.
LEMMA UpTo ==
  ASSUME NEW first \in Nat, NEW last_ \in Nat, NEW S,
         first \in S, \A n \in first .. last_ - 1 : n \in S => n + 1 \in S
  PROVE  first .. last_ \subseteq S
<1> DEFINE missing == (first .. last_) \ S
<1> SUFFICES ASSUME missing # {} PROVE FALSE
  OBVIOUS
<1>0. missing \in SUBSET Nat /\ missing # {}
  OBVIOUS
<1>1. PICK n \in missing : \A m \in missing : ~(<<m, n>> \in OpToRel(<, Nat))
  <2> HIDE DEF missing
  <2> QED BY <1>0, NatLessThanWellFounded, WFMin
<1>2. n \in first .. last_ /\ n \notin S /\ n # first
  OBVIOUS
<1>3. n - 1 \in first .. last_ - 1 /\ (n - 1) + 1 = n
  BY <1>2
<1>4. n - 1 \notin S
  BY <1>2, <1>3
<1>5. n - 1 \in missing /\ n - 1 < n /\ n - 1 \in Nat /\ n \in Nat
  BY <1>2, <1>3, <1>4
<1>6. <<n - 1, n>> \in OpToRel(<, Nat)
  BY <1>5 DEF OpToRel
<1>7. QED
  BY <1>1, <1>5, <1>6

\* The number with given ones is an integer: the sum that defines it exists, as
\* a function, for every number of bits.
LEMMA NumberIsInt ==
  ASSUME NEW ones
  PROVE  Number(ones) \in Int
<1> DEFINE Inc(n) == IF n - 1 \in ones THEN 2^(n - 1) ELSE 0
           Sums(m, f) == f[0] = 0 /\ \A n \in 1 .. m : f[n] = f[n - 1] + Inc(n)
           Rule(f) == f = [n \in 0 .. BITS |-> IF n = 0 THEN 0 ELSE f[n - 1] + Inc(n)]
           S == {m \in Nat : \E f \in [0 .. m -> Int] : Sums(m, f)}
<1>1. BITS \in Nat
  BY WalkAssumption
<1>2. \A n \in Nat \ {0} : Inc(n) \in Int
  OBVIOUS
<1>3. 0 \in S
  <2>1. [n \in 0 .. 0 |-> 0] \in [0 .. 0 -> Int] /\ Sums(0, [n \in 0 .. 0 |-> 0])
    OBVIOUS
  <2>2. QED
    BY <2>1
<1>4. ASSUME NEW m \in Nat, m \in S
      PROVE  m + 1 \in S
  <2>1. PICK f \in [0 .. m -> Int] : Sums(m, f)
    BY <1>4
  <2>2. PICK x \in Int : x = Inc(m + 1)
    BY <1>2
  <2> HIDE DEF Inc
  <2> DEFINE g == [n \in 0 .. m + 1 |-> IF n = m + 1 THEN f[m] + x ELSE f[n]]
  <2>3. g \in [0 .. m + 1 -> Int]
    OBVIOUS
  <2>4. g[0] = 0
    BY <2>1
  <2>5. \A n \in 1 .. m + 1 : g[n] = g[n - 1] + Inc(n)
    BY <2>1, <2>2
  <2> HIDE DEF g
  <2>6. Sums(m + 1, g) /\ m + 1 \in Nat
    BY <2>4, <2>5
  <2>7. QED
    BY <2>3, <2>6
<1>5. BITS \in S
  <2> HIDE DEF S
  <2>1. 0 .. BITS \subseteq S
    BY <1>1, <1>3, <1>4, UpTo
  <2>2. QED
    BY <1>1, <2>1
<1>6. PICK f \in [0 .. BITS -> Int] : Sums(BITS, f)
  BY <1>5
<1>7. Rule(f)
  <2> HIDE DEF Inc
  <2> QED BY <1>1, <1>6
<1>8. Number(ones) = (CHOOSE g : Rule(g))[BITS]
  BY DEF Number
<1> HIDE DEF Rule
<1>9. PICK g : Rule(g) /\ Number(ones) = g[BITS]
  BY <1>7, <1>8
<1>10. g = [n \in 0 .. BITS |-> IF n = 0 THEN 0 ELSE g[n - 1] + Inc(n)]
  BY <1>9 DEF Rule
<1>11. BITS # 0
  BY WalkAssumption
<1> DEFINE T == {n \in Nat : g[n] \in Int}
<1>12. 0 \in T
  BY <1>1, <1>10
<1>13. ASSUME NEW n \in 0 .. BITS - 1, n \in T
       PROVE  n + 1 \in T
  <2>1. Inc(n + 1) \in Int
    BY <1>2
  <2> HIDE DEF Inc
  <2>2. g[n + 1] = g[n] + Inc(n + 1)
    BY <1>1, <1>10
  <2>3. QED
    BY <1>13, <2>1, <2>2
<1>14. BITS \in T
  <2> HIDE DEF T
  <2>1. 0 .. BITS \subseteq T
    BY <1>1, <1>12, <1>13, UpTo
  <2>2. QED
    BY <1>1, <2>1
<1>15. QED
  BY <1>9, <1>14

-----------------------------------------------------------------------------
\* What is declared.

\* What Declared says of a type, given what is declared of its parts.
Parted(of, id) ==
  LET t == Types[id]
  IN  CASE t.shape = "aggregate" ->
             Concatenated([i \in DOMAIN t.members |->
               Moved(of[t.members[i].ty], t.members[i].offset_bits, i)])
        [] t.shape = "sequence" /\ t.count # {} ->
             Concatenated([i \in 1 .. CHOOSE n \in t.count : TRUE |->
               Moved(of[t.element], (i - 1) * Bytes(t.stride_bytes), i)])
        [] IsLeaf(t) -> <<Entry(Frame(id, 0, <<>>))>>
        [] OTHER -> <<>>

\* Steps of a concatenation.
Joining(u, n, seqs) ==
  /\ u[0] = <<>>
  /\ \A k \in 1 .. n : u[k] = u[k - 1] \o seqs[k]

\* A concatenation is reached by adding one sequence after another.
LEMMA ConcatenatedBy ==
  ASSUME NEW n \in Nat, NEW seqs \in [1 .. n -> Seq(Entries)]
  PROVE  \E u \in [0 .. n -> Seq(Entries)] :
           Joining(u, n, seqs) /\ Concatenated(seqs) = u[n]
<1> DEFINE Q == Seq(Entries)
           With(s, k) == s \o seqs[k]
           Joins(m, f) == f[0] = <<>> /\ \A k \in 1 .. m : f[k] = With(f[k - 1], k)
           Rule(f) == f = [k \in 0 .. Len(seqs) |-> IF k = 0 THEN <<>> ELSE With(f[k - 1], k)]
           T == {m \in Nat : \E f \in [0 .. m -> Q] : Joins(m, f)}
<1>1. <<>> \in Q /\ \A s \in Q : \A k \in 1 .. n : With(s, k) \in Q
  BY EmptySeq, ConcatProperties
<1>2. Concatenated(seqs) = (CHOOSE g : Rule(g))[Len(seqs)] /\ Len(seqs) = n
  <2>1. seqs \in Seq(Q) /\ Len(seqs) = n
    <3>1. seqs \in [1 .. n -> Q]
      OBVIOUS
    <3> HIDE DEF Q
    <3>2. QED
      BY <3>1
  <2>2. QED
    BY <2>1 DEF Concatenated
<1> HIDE DEF Q, With
<1>3. 0 \in T
  <2>1. [k \in 0 .. 0 |-> <<>>] \in [0 .. 0 -> Q] /\ Joins(0, [k \in 0 .. 0 |-> <<>>])
    BY <1>1
  <2>2. QED
    BY <2>1
<1>4. ASSUME NEW m \in 0 .. n - 1, m \in T
      PROVE  m + 1 \in T
  <2>1. PICK f \in [0 .. m -> Q] : Joins(m, f)
    BY <1>4
  <2>2. PICK x \in Q : x = With(f[m], m + 1)
    BY <1>1, <2>1
  <2> DEFINE g == [k \in 0 .. m + 1 |-> IF k = m + 1 THEN x ELSE f[k]]
  <2>3. g \in [0 .. m + 1 -> Q]
    OBVIOUS
  <2>4. g[0] = <<>>
    BY <2>1
  <2>5. \A k \in 1 .. m + 1 : g[k] = With(g[k - 1], k)
    BY <2>1, <2>2
  <2> HIDE DEF g
  <2>6. Joins(m + 1, g) /\ m + 1 \in Nat
    BY <2>4, <2>5
  <2>7. QED
    BY <2>3, <2>6
<1>5. n \in T
  <2> HIDE DEF T
  <2>1. 0 .. n \subseteq T
    BY <1>3, <1>4, UpTo
  <2>2. QED
    BY <2>1
<1>6. PICK f \in [0 .. n -> Q] : Joins(n, f)
  BY <1>5
<1>7. Rule(f)
  BY <1>6
<1> HIDE DEF Rule
<1>9. PICK g : Rule(g) /\ Concatenated(seqs) = g[n]
  BY <1>2, <1>7
<1>10. g = [k \in 0 .. n |-> IF k = 0 THEN <<>> ELSE With(g[k - 1], k)]
  BY <1>2, <1>9 DEF Rule
<1> DEFINE U == {k \in Nat : g[k] = f[k]}
<1>11. 0 \in U
  BY <1>6, <1>10
<1>12. ASSUME NEW k \in 0 .. n - 1, k \in U
       PROVE  k + 1 \in U
  <2>1. k + 1 \in 1 .. n /\ (k + 1) - 1 = k
    BY <1>12
  <2>2. g[k + 1] = With(g[k], k + 1) /\ f[k + 1] = With(f[k], k + 1)
    BY <1>6, <1>10, <2>1
  <2>3. QED
    BY <1>12, <2>2
<1>13. n \in U
  <2> HIDE DEF U
  <2>1. 0 .. n \subseteq U
    BY <1>11, <1>12, UpTo
  <2>2. QED
    BY <2>1
<1>14. QED
  BY <1>6, <1>9, <1>13 DEF Q, With, Joining

\* What is declared of a type depends on the types before it only.
LEMMA PartedBefore ==
  ASSUME NEW id \in TypeId, NEW f, NEW g, \A k \in 1 .. id - 1 : f[k] = g[k]
  PROVE  Parted(f, id) = Parted(g, id)
<1> DEFINE t == Types[id]
           OfMembers(of) == [i \in DOMAIN t.members |->
                               Moved(of[t.members[i].ty], t.members[i].offset_bits, i)]
           OfElements(of) == [i \in 1 .. CHOOSE n \in t.count : TRUE |->
                               Moved(of[t.element], (i - 1) * Bytes(t.stride_bytes), i)]
<1>1. IsType(id, t) /\ id \in Nat
  BY WalkAssumption DEF TypeId
<1>2. \A of : Parted(of, id) =
        CASE t.shape = "aggregate" -> Concatenated(OfMembers(of))
          [] t.shape = "sequence" /\ t.count # {} -> Concatenated(OfElements(of))
          [] IsLeaf(t) -> <<Entry(Frame(id, 0, <<>>))>>
          [] OTHER -> <<>>
  BY DEF Parted
<1>3. ASSUME t.shape = "aggregate"
      PROVE  OfMembers(f) = OfMembers(g)
  <2>1. t.members \in Seq([ty : 1 .. id - 1, offset_bits : Nat])
    BY <1>1, <1>3 DEF IsType
  <2> HIDE DEF t
  <2>2. ASSUME NEW i \in DOMAIN t.members
        PROVE  f[t.members[i].ty] = g[t.members[i].ty]
    <3>1. t.members[i] \in [ty : 1 .. id - 1, offset_bits : Nat]
      BY <2>1, <2>2, LenProperties, ElementOfSeq
    <3>2. QED
      BY <3>1
  <2>3. QED
    BY <2>2
<1>4. ASSUME t.shape = "sequence"
      PROVE  OfElements(f) = OfElements(g)
  <2>1. f[t.element] = g[t.element]
    BY <1>1, <1>4 DEF IsType
  <2>2. QED
    BY <2>1
<1> HIDE DEF t, OfMembers, OfElements
<1>5. QED
  BY <1>2, <1>3, <1>4

\* Declared is what its recursion says: the types can be declared one after
\* another, since the parts of a type come before it.
LEMMA DeclaredBy == \A id \in TypeId : Declared[id] = Parted(Declared, id)
<1> DEFINE Rule(f) == f = [id \in TypeId |-> Parted(f, id)]
           Tells(m, f) == \A id \in 1 .. m : f[id] = Parted(f, id)
           T == {m \in Nat : \E f : Tells(m, f)}
<1>1. TypeId = 1 .. Len(Types) /\ Len(Types) \in Nat
  BY WalkAssumption DEF TypeId
<1>2. 0 \in T
  OBVIOUS
<1>3. ASSUME NEW m \in 0 .. Len(Types) - 1, m \in T
      PROVE  m + 1 \in T
  <2>1. PICK f : Tells(m, f)
    BY <1>3
  <2> DEFINE g == [id \in 1 .. m + 1 |-> IF id = m + 1 THEN Parted(f, m + 1) ELSE f[id]]
  <2>2. \A id \in 1 .. m : g[id] = f[id]
    BY <1>3
  <2>3. g[m + 1] = Parted(f, m + 1)
    BY <1>3
  <2> HIDE DEF g
  <2>4. ASSUME NEW id \in 1 .. m + 1
        PROVE  g[id] = Parted(g, id)
    <3>1. id \in TypeId /\ \A k \in 1 .. id - 1 : f[k] = g[k]
      BY <1>1, <2>2
    <3>2. Parted(f, id) = Parted(g, id)
      BY <3>1, PartedBefore
    <3>3. g[id] = Parted(f, id)
      BY <2>1, <2>2, <2>3
    <3>4. QED
      BY <3>2, <3>3
  <2>5. Tells(m + 1, g) /\ m + 1 \in Nat
    BY <2>4
  <2>6. QED
    BY <2>5
<1>4. Len(Types) \in T
  <2> HIDE DEF T
  <2>1. 0 .. Len(Types) \subseteq T
    BY <1>1, <1>2, <1>3, UpTo
  <2>2. QED
    BY <1>1, <2>1
<1>5. PICK f : Tells(Len(Types), f)
  BY <1>4
<1> DEFINE h == [id \in TypeId |-> f[id]]
<1>6. Rule(h)
  <2>1. ASSUME NEW id \in TypeId
        PROVE  f[id] = Parted(h, id)
    <3>1. \A k \in 1 .. id - 1 : f[k] = h[k]
      BY <1>1
    <3>2. Parted(f, id) = Parted(h, id)
      BY <3>1, PartedBefore
    <3>3. QED
      BY <1>1, <1>5, <3>2
  <2>2. QED
    BY <2>1
<1>7. Declared = CHOOSE g : Rule(g)
  BY DEF Declared, Parted
<1> HIDE DEF Rule, h
<1>8. Rule(Declared)
  BY <1>6, <1>7
<1>9. QED
  BY <1>8 DEF Rule

-----------------------------------------------------------------------------
\* Entries at another place.

\* The entries of a part, seen from the frame of it.
ShiftEntry(e, by, path) == [e EXCEPT !.offset_bits = @ + by, !.path = path \o @]
Displaced(entries, by, path) == [i \in DOMAIN entries |-> ShiftEntry(entries[i], by, path)]

\* What a frame stands for: the entries declared of its type, at its place.
Pending(f) == Displaced(Declared[f.ty], f.offset_bits, f.path)

\* A shift of an entry is an entry, and two shifts are one.
LEMMA EntryShifts ==
  ASSUME NEW e \in Entries, NEW by \in Nat, NEW path \in Path
  PROVE  /\ ShiftEntry(e, by, path) \in Entries
         /\ ShiftEntry(e, 0, <<>>) = e
         /\ \A more \in Nat : \A front \in Path :
              ShiftEntry(ShiftEntry(e, by, path), more, front) = ShiftEntry(e, more + by, front \o path)
<1> DEFINE EntryAt(n, p) == [ty |-> e.ty, path |-> p, offset_bits |-> n, bit_len |-> e.bit_len]
<1>1. /\ e = EntryAt(e.offset_bits, e.path)
      /\ e.offset_bits \in Nat /\ e.path \in Path
      /\ e.ty \in TypeId /\ e.bit_len \in {bit_len(Types[id]) : id \in TypeId}
  BY DEF Entries
<1>2. \A n \in Nat : \A p \in Path : EntryAt(n, p) \in Entries
  BY <1>1 DEF Entries
<1>3. ASSUME NEW n, NEW p, NEW more, NEW front
      PROVE  ShiftEntry(EntryAt(n, p), more, front) = EntryAt(n + more, front \o p)
  <2>1. PICK m, q : m = n + more /\ q = front \o p
    OBVIOUS
  <2>2. ShiftEntry(EntryAt(n, p), more, front) = [EntryAt(n, p) EXCEPT !.offset_bits = m, !.path = q]
    BY <2>1 DEF ShiftEntry
  <2>3. QED
    BY <2>1, <2>2
<1>4. \A p, q \in Path : p \o q \in Path
  BY ConcatProperties DEF Path
<1>5. <<>> \o e.path = e.path
  BY <1>1 DEF Path
<1> HIDE DEF EntryAt
<1>6. ShiftEntry(e, by, path) = EntryAt(e.offset_bits + by, path \o e.path)
  BY <1>1, <1>3
<1>7. ShiftEntry(e, by, path) \in Entries
  <2>1. e.offset_bits + by \in Nat /\ path \o e.path \in Path
    BY <1>1, <1>4
  <2>2. QED
    BY <1>2, <1>6, <2>1
<1>8. ShiftEntry(e, 0, <<>>) = e
  <2>1. e.offset_bits + 0 = e.offset_bits
    BY <1>1
  <2>2. PICK none : none = <<>>
    OBVIOUS
  <2>3. ShiftEntry(EntryAt(e.offset_bits, e.path), 0, none)
        = EntryAt(e.offset_bits + 0, none \o e.path)
    BY <1>3
  <2>4. QED
    BY <1>1, <1>5, <2>1, <2>2, <2>3
<1>9. ASSUME NEW more \in Nat, NEW front \in Path
      PROVE  ShiftEntry(ShiftEntry(e, by, path), more, front) = ShiftEntry(e, more + by, front \o path)
  <2>1. front \o (path \o e.path) = (front \o path) \o e.path
    <3>1. front \in Seq(Nat) /\ path \in Seq(Nat) /\ e.path \in Seq(Nat)
      BY <1>1 DEF Path
    <3>2. PICK p : p = e.path
      OBVIOUS
    <3>3. p \in Seq(Nat)
      BY <3>1, <3>2
    <3>4. (front \o path) \o p = front \o (path \o p)
      BY <3>1, <3>3, ConcatAssociative
    <3>5. QED
      BY <3>2, <3>4
  <2>2. (e.offset_bits + by) + more = e.offset_bits + (more + by)
    BY <1>1
  <2>3. ShiftEntry(ShiftEntry(e, by, path), more, front)
        = EntryAt((e.offset_bits + by) + more, front \o (path \o e.path))
    BY <1>3, <1>6
  <2>4. ShiftEntry(e, more + by, front \o path)
        = EntryAt(e.offset_bits + (more + by), (front \o path) \o e.path)
    BY <1>1, <1>3
  <2>5. QED
    BY <2>1, <2>2, <2>3, <2>4
<1>10. QED
  BY <1>7, <1>8, <1>9

\* The same of sequences of entries.
LEMMA EntriesShift ==
  ASSUME NEW s \in Seq(Entries), NEW by \in Nat, NEW path \in Path
  PROVE  /\ Displaced(s, by, path) \in Seq(Entries)
         /\ Len(Displaced(s, by, path)) = Len(s)
         /\ \A i \in 1 .. Len(s) : Displaced(s, by, path)[i] = ShiftEntry(s[i], by, path)
         /\ Displaced(s, 0, <<>>) = s
         /\ \A more \in Nat : \A front \in Path :
              Displaced(Displaced(s, by, path), more, front) = Displaced(s, more + by, front \o path)
<1>1. /\ s \in [1 .. Len(s) -> Entries] /\ Len(s) \in Nat /\ DOMAIN s = 1 .. Len(s)
      /\ <<>> \in Path /\ 0 \in Nat
  BY LenProperties, EmptySeq DEF Path
<1>2. \A i \in 1 .. Len(s) : s[i] \in Entries
  BY <1>1
<1>3. Displaced(s, by, path) = [i \in 1 .. Len(s) |-> ShiftEntry(s[i], by, path)]
  BY <1>1 DEF Displaced
<1>4. \A i \in 1 .. Len(s) : ShiftEntry(s[i], by, path) \in Entries
  BY <1>2, EntryShifts
<1>5. Displaced(s, by, path) \in Seq(Entries) /\ Len(Displaced(s, by, path)) = Len(s)
  BY <1>1, <1>3, <1>4
<1>6. Displaced(s, 0, <<>>) = s
  <2>1. \A i \in 1 .. Len(s) : ShiftEntry(s[i], 0, <<>>) = s[i]
    BY <1>1, <1>2, EntryShifts
  <2>2. Displaced(s, 0, <<>>) = [i \in 1 .. Len(s) |-> s[i]]
    BY <1>1, <2>1 DEF Displaced
  <2>3. QED
    BY <1>1, <2>2
<1>7. ASSUME NEW more \in Nat, NEW front \in Path
      PROVE  Displaced(Displaced(s, by, path), more, front) = Displaced(s, more + by, front \o path)
  <2>1. PICK q \in Path : q = front \o path
    BY ConcatProperties DEF Path
  <2>2. \A i \in 1 .. Len(s) :
          ShiftEntry(ShiftEntry(s[i], by, path), more, front) = ShiftEntry(s[i], more + by, q)
    <3>1. TAKE i \in 1 .. Len(s)
    <3>2. PICK e \in Entries : e = s[i]
      BY <1>2
    <3>3. ShiftEntry(ShiftEntry(e, by, path), more, front) = ShiftEntry(e, more + by, front \o path)
      BY EntryShifts
    <3>4. QED
      BY <2>1, <3>2, <3>3
  <2>3. Displaced(Displaced(s, by, path), more, front)
        = [i \in 1 .. Len(s) |-> ShiftEntry(ShiftEntry(s[i], by, path), more, front)]
    BY <1>3 DEF Displaced
  <2>4. Displaced(s, more + by, q) = [i \in 1 .. Len(s) |-> ShiftEntry(s[i], more + by, q)]
    BY <1>1 DEF Displaced
  <2>5. QED
    BY <2>1, <2>2, <2>3, <2>4
<1>8. QED
  BY <1>1, <1>3, <1>5, <1>6, <1>7

\* A shift goes through a concatenation.
LEMMA JoinShifts ==
  ASSUME NEW s \in Seq(Entries), NEW t \in Seq(Entries), NEW by \in Nat, NEW path \in Path
  PROVE  Displaced(s \o t, by, path) = Displaced(s, by, path) \o Displaced(t, by, path)
<1> DEFINE a == Displaced(s, by, path)
           b == Displaced(t, by, path)
           c == Displaced(s \o t, by, path)
<1>1. /\ s \o t \in Seq(Entries) /\ Len(s \o t) = Len(s) + Len(t) /\ Len(s) \in Nat /\ Len(t) \in Nat
      /\ \A i \in 1 .. Len(s) + Len(t) : (s \o t)[i] = IF i <= Len(s) THEN s[i] ELSE t[i - Len(s)]
  BY ConcatProperties, LenProperties
<1>2. /\ a \in Seq(Entries) /\ Len(a) = Len(s)
      /\ \A i \in 1 .. Len(s) : a[i] = ShiftEntry(s[i], by, path)
  BY EntriesShift
<1>3. /\ b \in Seq(Entries) /\ Len(b) = Len(t)
      /\ \A i \in 1 .. Len(t) : b[i] = ShiftEntry(t[i], by, path)
  BY EntriesShift
<1>4. /\ c \in Seq(Entries) /\ Len(c) = Len(s) + Len(t)
      /\ \A i \in 1 .. Len(s) + Len(t) : c[i] = ShiftEntry((s \o t)[i], by, path)
  <2>1. PICK u \in Seq(Entries) : u = s \o t
    BY <1>1
  <2>2. /\ Displaced(u, by, path) \in Seq(Entries) /\ Len(Displaced(u, by, path)) = Len(u)
        /\ \A i \in 1 .. Len(u) : Displaced(u, by, path)[i] = ShiftEntry(u[i], by, path)
    BY EntriesShift
  <2>3. QED
    BY <1>1, <2>1, <2>2
<1> HIDE DEF a, b, c
<1>5. /\ a \o b \in Seq(Entries) /\ Len(a \o b) = Len(s) + Len(t)
      /\ \A i \in 1 .. Len(s) + Len(t) : (a \o b)[i] = IF i <= Len(s) THEN a[i] ELSE b[i - Len(s)]
  <2>1. /\ a \o b \in Seq(Entries) /\ Len(a \o b) = Len(a) + Len(b)
        /\ \A i \in 1 .. Len(a) + Len(b) : (a \o b)[i] = IF i <= Len(a) THEN a[i] ELSE b[i - Len(a)]
    <3>1. a \in Seq(Entries) /\ b \in Seq(Entries)
      BY <1>2, <1>3
    <3>2. QED
      BY <3>1, ConcatProperties
  <2>2. Len(a) = Len(s) /\ Len(b) = Len(t)
    BY <1>2, <1>3
  <2>3. QED
    BY <2>1, <2>2
<1>6. PICK d : d = a \o b
  OBVIOUS
<1>7. ASSUME NEW i \in 1 .. Len(s) + Len(t)
      PROVE  c[i] = d[i]
  <2>1. CASE i <= Len(s)
    <3>1. i \in 1 .. Len(s)
      BY <1>1, <2>1
    <3>2. QED
      BY <1>1, <1>2, <1>4, <1>5, <1>6, <2>1, <3>1
  <2>2. CASE ~(i <= Len(s))
    <3>1. i - Len(s) \in 1 .. Len(t)
      BY <1>1, <2>2
    <3>2. QED
      BY <1>1, <1>3, <1>4, <1>5, <1>6, <2>2, <3>1
  <2>3. QED
    BY <2>1, <2>2
<1>8. c = d
  BY <1>4, <1>5, <1>6, <1>7, SeqEqual
<1>9. QED
  BY <1>6, <1>8 DEF a, b, c

\* What is declared of a part of a type is seen in it as Moved says.
LEMMA MovedShifts ==
  ASSUME NEW s \in Seq(Entries), NEW by \in Nat, NEW place \in Nat
  PROVE  /\ Moved(s, by, place) = Displaced(s, by, <<place>>)
         /\ Moved(s, by, place) \in Seq(Entries)
<1>1. Moved(s, by, place) = Displaced(s, by, <<place>>)
  BY DEF Moved, Displaced, ShiftEntry
<1>2. <<place>> \in Path
  BY DEF Path
<1>3. QED
  BY <1>1, <1>2, EntriesShift

-----------------------------------------------------------------------------
\* The parts of a type, in the walk and in the declaration.

\* The entry a type has of its own.
OwnEntries(f) == IF IsLeaf(Types[f.ty]) THEN <<Entry(f)>> ELSE <<>>

\* n parts, the types and places of them, and what is declared up to each.
PartList(id, n, ty, by, u) ==
  /\ \A f \in Frames : f.ty = id =>
       Parts(f) = [i \in 1 .. n |-> Frame(ty[i], f.offset_bits + by[i], Append(f.path, i))]
  /\ u[0] = OwnEntries(Frame(id, 0, <<>>))
  /\ \A k \in 1 .. n : u[k] = u[k - 1] \o Displaced(Declared[ty[k]], by[k], <<k>>)
  /\ u[n] = Declared[id]

\* A type without parts.
LEMMA SinglePart ==
  ASSUME NEW id \in TypeId,
         ~(Types[id].shape = "aggregate"), ~(Types[id].shape = "sequence" /\ Types[id].count # {})
  PROVE  \E ty \in [1 .. 0 -> TypeId], by \in [1 .. 0 -> Nat], u \in [0 .. 0 -> Seq(Entries)] :
           PartList(id, 0, ty, by, u)
<1> DEFINE own == OwnEntries(Frame(id, 0, <<>>))
           ty == [i \in 1 .. 0 |-> id]
           by == [i \in 1 .. 0 |-> 0]
           u == [k \in 0 .. 0 |-> own]
<1>1. Frame(id, 0, <<>>) \in Frames /\ Frame(id, 0, <<>>).ty = id
  BY EmptySeq DEF Frame, Frames, Path
<1>2. own \in Seq(Entries)
  <2>1. Entry(Frame(id, 0, <<>>)) \in Entries
    BY <1>1 DEF Entry, Entries, Frames
  <2>2. <<Entry(Frame(id, 0, <<>>))>> \in Seq(Entries) /\ <<>> \in Seq(Entries)
    BY <2>1
  <2>3. QED
    BY <2>2 DEF OwnEntries
<1>3. Declared[id] = own
  <2>1. Declared[id] = Parted(Declared, id)
    BY DeclaredBy
  <2>2. QED
    BY <1>1, <2>1 DEF Parted, OwnEntries
<1>4. \A f \in Frames : f.ty = id => Parts(f) = <<>>
  BY DEF Parts
<1> HIDE DEF own
<1>5. ty \in [1 .. 0 -> TypeId] /\ by \in [1 .. 0 -> Nat] /\ u \in [0 .. 0 -> Seq(Entries)]
  BY <1>2
<1>6. u[0] = own /\ \A k \in 1 .. 0 : FALSE
  OBVIOUS
<1>7. \A f \in Frames : f.ty = id =>
        Parts(f) = [i \in 1 .. 0 |-> Frame(ty[i], f.offset_bits + by[i], Append(f.path, i))]
  BY <1>4
<1> HIDE DEF ty, by, u
<1>8. PartList(id, 0, ty, by, u)
  BY <1>3, <1>6, <1>7 DEF PartList, own
<1>9. QED
  BY <1>5, <1>8

\* A type with parts: what is declared of it is put together from theirs.
LEMMA JoinedParts ==
  ASSUME NEW id \in TypeId, NEW n \in Nat,
         NEW ty \in [1 .. n -> TypeId], NEW by \in [1 .. n -> Nat],
         \A i \in 1 .. n : Declared[ty[i]] \in Seq(Entries),
         Declared[id] = Concatenated([i \in 1 .. n |-> Moved(Declared[ty[i]], by[i], i)]),
         ~IsLeaf(Types[id]),
         \A f \in Frames : f.ty = id =>
           Parts(f) = [i \in 1 .. n |-> Frame(ty[i], f.offset_bits + by[i], Append(f.path, i))]
  PROVE  \E u \in [0 .. n -> Seq(Entries)] : PartList(id, n, ty, by, u)
<1> DEFINE seqs == [i \in 1 .. n |-> Moved(Declared[ty[i]], by[i], i)]
<1>1. \A i \in 1 .. n : /\ Moved(Declared[ty[i]], by[i], i) = Displaced(Declared[ty[i]], by[i], <<i>>)
                        /\ Moved(Declared[ty[i]], by[i], i) \in Seq(Entries)
  <2>1. TAKE i \in 1 .. n
  <2>2. PICK s \in Seq(Entries) : s = Declared[ty[i]]
    OBVIOUS
  <2>3. PICK b \in Nat : b = by[i]
    OBVIOUS
  <2>4. i \in Nat
    OBVIOUS
  <2>5. Moved(s, b, i) = Displaced(s, b, <<i>>) /\ Moved(s, b, i) \in Seq(Entries)
    BY <2>4, MovedShifts
  <2>6. QED
    BY <2>2, <2>3, <2>5
<1>2. seqs \in [1 .. n -> Seq(Entries)]
  BY <1>1
<1> HIDE DEF seqs
<1>3. PICK u \in [0 .. n -> Seq(Entries)] :
        Joining(u, n, seqs) /\ Concatenated(seqs) = u[n]
  BY <1>2, ConcatenatedBy
<1>4. \A k \in 1 .. n : seqs[k] = Displaced(Declared[ty[k]], by[k], <<k>>)
  BY <1>1 DEF seqs
<1>5. \A k \in 1 .. n : u[k] = u[k - 1] \o Displaced(Declared[ty[k]], by[k], <<k>>)
  BY <1>3, <1>4 DEF Joining
<1>6. u[n] = Declared[id]
  BY <1>3 DEF seqs
<1>7. u[0] = OwnEntries(Frame(id, 0, <<>>))
  BY <1>3 DEF Joining, OwnEntries, Frame
<1>8. PartList(id, n, ty, by, u)
  BY <1>5, <1>6, <1>7 DEF PartList
<1>9. QED
  BY <1>8

\* The members of an aggregate and the elements of a sequence are walked as they
\* are declared, the first one first, and nothing else has parts.
LEMMA PartsDeclared ==
  ASSUME NEW id \in TypeId, \A k \in 1 .. id - 1 : Declared[k] \in Seq(Entries)
  PROVE  \E n \in Nat : \E ty \in [1 .. n -> TypeId], by \in [1 .. n -> Nat], u \in [0 .. n -> Seq(Entries)] :
           PartList(id, n, ty, by, u)
<1> DEFINE t == Types[id]
           OfMembers == [i \in DOMAIN t.members |->
                           Moved(Declared[t.members[i].ty], t.members[i].offset_bits, i)]
           OfElements == [i \in 1 .. CHOOSE c \in t.count : TRUE |->
                           Moved(Declared[t.element], (i - 1) * Bytes(t.stride_bytes), i)]
<1>1. IsType(id, t) /\ id \in Nat /\ 1 .. id - 1 \subseteq TypeId
  BY WalkAssumption DEF TypeId
<1>2. Declared[id] =
        CASE t.shape = "aggregate" -> Concatenated(OfMembers)
          [] t.shape = "sequence" /\ t.count # {} -> Concatenated(OfElements)
          [] IsLeaf(t) -> <<Entry(Frame(id, 0, <<>>))>>
          [] OTHER -> <<>>
  BY DeclaredBy DEF Parted
<1>3. /\ t.shape = "aggregate" => Declared[id] = Concatenated(OfMembers)
      /\ t.shape = "sequence" /\ t.count # {} => Declared[id] = Concatenated(OfElements)
      /\ t.shape \in {"aggregate", "sequence"} => ~IsLeaf(t)
  <2>1. t.shape \in {"aggregate", "sequence"} => ~IsLeaf(t)
    BY DEF IsLeaf
  <2> HIDE DEF t, OfMembers, OfElements
  <2>2. QED
    BY <1>2, <2>1
<1>4. CASE t.shape = "aggregate"
  <2>1. t.members \in Seq([ty : 1 .. id - 1, offset_bits : Nat])
    BY <1>1, <1>4 DEF IsType
  <2>2. \A f \in Frames : f.ty = id => Parts(f) = Members(f, t)
    BY <1>4 DEF Parts
  <2>3. Declared[id] = Concatenated(OfMembers)
    BY <1>3, <1>4
  <2> HIDE DEF t
  <2>4. PICK n \in Nat : DOMAIN t.members = 1 .. n
    BY <2>1, LenProperties
  <2> DEFINE ty == [i \in 1 .. n |-> t.members[i].ty]
             by == [i \in 1 .. n |-> t.members[i].offset_bits]
  <2>5. \A i \in 1 .. n : t.members[i].ty \in 1 .. id - 1 /\ t.members[i].offset_bits \in Nat
    <3>1. \A i \in 1 .. n : t.members[i] \in [ty : 1 .. id - 1, offset_bits : Nat]
      BY <2>1, <2>4, LenProperties, ElementOfSeq
    <3>2. QED
      BY <3>1
  <2>6. ty \in [1 .. n -> TypeId] /\ by \in [1 .. n -> Nat]
    BY <1>1, <2>5
  <2>7. \A i \in 1 .. n : Declared[ty[i]] \in Seq(Entries)
    BY <2>5
  <2>8. OfMembers = [i \in 1 .. n |-> Moved(Declared[ty[i]], by[i], i)]
    BY <2>4
  <2>9. ASSUME NEW f \in Frames, f.ty = id
        PROVE  Parts(f) = [i \in 1 .. n |-> Frame(ty[i], f.offset_bits + by[i], Append(f.path, i))]
    BY <2>2, <2>4, <2>9 DEF Members
  <2>10. ~IsLeaf(Types[id])
    BY <1>3, <1>4 DEF t
  <2> HIDE DEF ty, by, OfMembers
  <2>11. \E u \in [0 .. n -> Seq(Entries)] : PartList(id, n, ty, by, u)
    BY <2>3, <2>6, <2>7, <2>8, <2>9, <2>10, JoinedParts
  <2>12. QED
    BY <2>6, <2>11
<1>5. CASE t.shape = "sequence" /\ t.count # {}
  <2> DEFINE n == CHOOSE c \in t.count : TRUE
             stride == Bytes(t.stride_bytes)
             ty == [i \in 1 .. n |-> t.element]
             by == [i \in 1 .. n |-> (i - 1) * stride]
  <2>1. t.element \in 1 .. id - 1
    BY <1>1, <1>5 DEF IsType
  <2>2. n \in Nat /\ t.stride_bytes \in Nat
    BY <1>5, PartTypes
  <2>3. \A f \in Frames : f.ty = id => Parts(f) = Elements(f, t, n)
    BY <1>5 DEF Parts
  <2>4. Declared[id] = Concatenated(OfElements)
    BY <1>3, <1>5
  <2>5. stride \in Nat
    BY <2>2, BytesNat
  <2>6. OfElements = [i \in 1 .. n |-> Moved(Declared[t.element], (i - 1) * stride, i)]
    OBVIOUS
  <2>7. ~IsLeaf(Types[id])
    BY <1>3, <1>5
  <2>8. \A f : Elements(f, t, n) = [i \in 1 .. n |->
          Frame(t.element, f.offset_bits + (i - 1) * stride, Append(f.path, i))]
    BY DEF Elements
  <2> HIDE DEF t, n, stride
  <2>9. \A i \in 1 .. n : (i - 1) * stride \in Nat
    BY <2>2, <2>5, ElementEnds
  <2>10. ty \in [1 .. n -> TypeId] /\ by \in [1 .. n -> Nat]
    BY <1>1, <2>1, <2>9
  <2>11. \A i \in 1 .. n : Declared[ty[i]] \in Seq(Entries)
    BY <2>1
  <2>12. \A i \in 1 .. n : ty[i] = t.element /\ by[i] = (i - 1) * stride
    OBVIOUS
  <2> HIDE DEF ty, by
  <2>13. OfElements = [i \in 1 .. n |-> Moved(Declared[ty[i]], by[i], i)]
    BY <2>6, <2>12
  <2>14. ASSUME NEW f \in Frames, f.ty = id
         PROVE  Parts(f) = [i \in 1 .. n |-> Frame(ty[i], f.offset_bits + by[i], Append(f.path, i))]
    BY <2>3, <2>8, <2>12, <2>14
  <2> HIDE DEF OfElements
  <2>15. \E u \in [0 .. n -> Seq(Entries)] : PartList(id, n, ty, by, u)
    BY <2>2, <2>4, <2>7, <2>10, <2>11, <2>13, <2>14, JoinedParts
  <2>16. QED
    BY <2>2, <2>10, <2>15
<1>6. CASE ~(t.shape = "aggregate") /\ ~(t.shape = "sequence" /\ t.count # {})
  <2>1. \E ty \in [1 .. 0 -> TypeId], by \in [1 .. 0 -> Nat], u \in [0 .. 0 -> Seq(Entries)] :
          PartList(id, 0, ty, by, u)
    BY <1>6, SinglePart
  <2>2. QED
    BY <2>1
<1>7. QED
  BY <1>4, <1>5, <1>6

\* What is declared of a type is a sequence of entries.
LEMMA DeclaredEntries == \A id \in TypeId : Declared[id] \in Seq(Entries)
<1> DEFINE T == {m \in Nat : \A id \in 1 .. m : Declared[id] \in Seq(Entries)}
<1>1. TypeId = 1 .. Len(Types) /\ Len(Types) \in Nat
  BY WalkAssumption DEF TypeId
<1>2. 0 \in T
  OBVIOUS
<1>3. ASSUME NEW m \in 0 .. Len(Types) - 1, m \in T
      PROVE  m + 1 \in T
  <2>1. \A k \in 1 .. m : Declared[k] \in Seq(Entries)
    BY <1>3
  <2>2. PICK id \in TypeId : id = m + 1
    BY <1>1
  <2>3. PICK n \in Nat : \E ty \in [1 .. n -> TypeId], by \in [1 .. n -> Nat], u \in [0 .. n -> Seq(Entries)] :
          PartList(id, n, ty, by, u)
    <3>1. \A k \in 1 .. id - 1 : Declared[k] \in Seq(Entries)
      BY <2>1, <2>2
    <3>2. QED
      BY <3>1, PartsDeclared
  <2>4. PICK u \in [0 .. n -> Seq(Entries)] : u[n] = Declared[id]
    BY <2>3 DEF PartList
  <2>5. Declared[m + 1] \in Seq(Entries)
    BY <2>2, <2>4
  <2>6. \A k \in 1 .. m + 1 : Declared[k] \in Seq(Entries)
    BY <2>1, <2>5
  <2>7. QED
    BY <2>6
<1>4. Len(Types) \in T
  <2> HIDE DEF T
  <2>1. 0 .. Len(Types) \subseteq T
    BY <1>1, <1>2, <1>3, UpTo
  <2>2. QED
    BY <1>1, <2>1
<1>5. QED
  BY <1>1, <1>4

-----------------------------------------------------------------------------
\* The walk returns what is declared.

\* What comes before and after each of some frames.
Laid(c, frames) ==
  /\ c \in [0 .. Len(frames) -> Seq(Entries)]
  /\ \A k \in 1 .. Len(frames) : c[k] = c[k - 1] \o Pending(frames[k])

\* The entries returned and those the frames of the stack stand for are,
\* together, what is declared of the root.
OrderInv ==
  /\ WalkTypeOK
  /\ \A ty \in root : \E c : Laid(c, stack) /\ c[0] = emitted /\ c[Len(stack)] = Declared[ty]

\* What a frame stands for is a sequence of entries.
LEMMA PendingEntries ==
  ASSUME NEW f \in Frames
  PROVE  /\ Pending(f) \in Seq(Entries)
         /\ OwnEntries(f) \in Seq(Entries)
         /\ OwnEntries(f) = Displaced(OwnEntries(Frame(f.ty, 0, <<>>)), f.offset_bits, f.path)
<1>1. f.ty \in TypeId /\ f.offset_bits \in Nat /\ f.path \in Path
  BY DEF Frames
<1>2. PICK s \in Seq(Entries) : s = Declared[f.ty]
  BY <1>1, DeclaredEntries
<1>3. Pending(f) \in Seq(Entries)
  BY <1>1, <1>2, EntriesShift DEF Pending
<1>4. Entry(f) \in Entries
  BY <1>1 DEF Entry, Entries
<1>5. <<>> \in Path /\ f.path \o <<>> = f.path
  BY <1>1, EmptySeq, ConcatEmptySeq DEF Path
<1>6. PICK g : g = Frame(f.ty, 0, <<>>)
  OBVIOUS
<1>7. g.ty = f.ty /\ g.offset_bits = 0 /\ g.path = <<>>
  BY <1>6 DEF Frame
<1>8. ShiftEntry(Entry(g), f.offset_bits, f.path) = Entry(f)
  <2>1. 0 + f.offset_bits = f.offset_bits
    BY <1>1
  <2>2. PICK p : p = f.path \o <<>>
    OBVIOUS
  <2>3. ShiftEntry(Entry(g), f.offset_bits, f.path)
        = [Entry(g) EXCEPT !.offset_bits = f.offset_bits, !.path = p]
    BY <1>7, <2>1, <2>2 DEF ShiftEntry, Entry
  <2>4. QED
    BY <1>5, <1>7, <2>2, <2>3 DEF Entry
<1>9. OwnEntries(f) \in Seq(Entries)
  BY <1>4 DEF OwnEntries
<1>10. Displaced(OwnEntries(g), f.offset_bits, f.path) = OwnEntries(f)
  <2>1. CASE IsLeaf(Types[f.ty])
    <3>1. OwnEntries(g) = <<Entry(g)>> /\ OwnEntries(f) = <<Entry(f)>>
      BY <1>7, <2>1 DEF OwnEntries
    <3>2. Displaced(<<Entry(g)>>, f.offset_bits, f.path) = <<ShiftEntry(Entry(g), f.offset_bits, f.path)>>
      BY DEF Displaced
    <3>3. QED
      BY <1>8, <3>1, <3>2
  <2>2. CASE ~IsLeaf(Types[f.ty])
    <3>1. OwnEntries(g) = <<>> /\ OwnEntries(f) = <<>>
      BY <1>7, <2>2 DEF OwnEntries
    <3>2. QED
      BY <3>1 DEF Displaced
  <2>3. QED
    BY <2>1, <2>2
<1>11. QED
  BY <1>3, <1>6, <1>9, <1>10

\* A frame stands for its own entry and what its parts stand for, in order.
LEMMA PendingParts ==
  ASSUME NEW f \in Frames
  PROVE  /\ Parts(f) \in Seq(Frames)
         /\ \E v : /\ Laid(v, Parts(f))
                   /\ v[0] = OwnEntries(f)
                   /\ v[Len(Parts(f))] = Pending(f)
<1>1. f.ty \in TypeId /\ f.offset_bits \in Nat /\ f.path \in Path
  BY DEF Frames
<1>2. Parts(f) \in Seq(Frames)
  BY PartsInside
<1>3. \A k \in 1 .. f.ty - 1 : Declared[k] \in Seq(Entries)
  <2>1. 1 .. f.ty - 1 \subseteq TypeId
    BY <1>1, WalkAssumption DEF TypeId
  <2>2. QED
    BY <2>1, DeclaredEntries
<1>4. PICK n \in Nat : \E ty \in [1 .. n -> TypeId], by \in [1 .. n -> Nat], u \in [0 .. n -> Seq(Entries)] :
        PartList(f.ty, n, ty, by, u)
  BY <1>1, <1>3, PartsDeclared
<1>5. PICK ty \in [1 .. n -> TypeId], by \in [1 .. n -> Nat], u \in [0 .. n -> Seq(Entries)] :
        PartList(f.ty, n, ty, by, u)
  BY <1>4
<1>6. Parts(f) = [i \in 1 .. n |-> Frame(ty[i], f.offset_bits + by[i], Append(f.path, i))]
  BY <1>5 DEF PartList
<1>7. Len(Parts(f)) = n /\ DOMAIN Parts(f) = 1 .. n
  <2>1. DOMAIN Parts(f) = 1 .. n
    BY <1>6
  <2>2. QED
    BY <1>2, <2>1, LenProperties
<1> DEFINE v == [k \in 0 .. n |-> Displaced(u[k], f.offset_bits, f.path)]
<1>8. v \in [0 .. n -> Seq(Entries)]
  BY <1>1, EntriesShift
<1>9. v[0] = OwnEntries(f)
  <2>1. v[0] = Displaced(u[0], f.offset_bits, f.path)
    OBVIOUS
  <2>2. u[0] = OwnEntries(Frame(f.ty, 0, <<>>))
    BY <1>5 DEF PartList
  <2>3. QED
    BY <2>1, <2>2, PendingEntries
<1>10. v[n] = Pending(f)
  BY <1>5 DEF PartList, Pending
<1>11. ASSUME NEW k \in 1 .. n
       PROVE  v[k] = v[k - 1] \o Pending(Parts(f)[k])
  <2>1. PICK s \in Seq(Entries) : s = Declared[ty[k]]
    BY DeclaredEntries
  <2>2. PICK b \in Nat : b = by[k]
    OBVIOUS
  <2>3. PICK w \in Seq(Entries) : w = u[k - 1]
    OBVIOUS
  <2>4. <<k>> \in Path /\ Append(f.path, k) = f.path \o <<k>>
    <3>1. PICK front \in Seq(Nat) : front = f.path
      BY <1>1 DEF Path
    <3>2. k \in Nat /\ <<k>> \in Seq(Nat)
      OBVIOUS
    <3>3. Append(front, k) = front \o <<k>>
      BY <3>2, AppendIsConcat
    <3>4. QED
      BY <3>1, <3>2, <3>3 DEF Path
  <2>5. PICK p \in Path : p = <<k>>
    BY <2>4
  <2>6. Parts(f)[k].ty = ty[k] /\ Parts(f)[k].offset_bits = f.offset_bits + b
        /\ Parts(f)[k].path = f.path \o p
    <3>1. Parts(f)[k] = Frame(ty[k], f.offset_bits + b, Append(f.path, k))
      BY <1>6, <2>2
    <3>2. PICK q : q = Append(f.path, k)
      OBVIOUS
    <3>3. q = f.path \o p
      BY <2>4, <2>5, <3>2
    <3>4. Parts(f)[k] = Frame(ty[k], f.offset_bits + b, q)
      BY <3>1, <3>2
    <3>5. QED
      BY <3>3, <3>4 DEF Frame
  <2>7. Pending(Parts(f)[k]) = Displaced(s, f.offset_bits + b, f.path \o p)
    BY <2>1, <2>6 DEF Pending
  <2>8. Displaced(s, b, p) \in Seq(Entries)
        /\ Displaced(Displaced(s, b, p), f.offset_bits, f.path) = Displaced(s, f.offset_bits + b, f.path \o p)
    <3>1. /\ Displaced(s, b, p) \in Seq(Entries)
          /\ \A more \in Nat : \A front \in Path :
               Displaced(Displaced(s, b, p), more, front) = Displaced(s, more + b, front \o p)
      BY EntriesShift
    <3>2. QED
      BY <1>1, <3>1
  <2>9. u[k] = w \o Displaced(s, b, p)
    BY <1>5, <2>1, <2>2, <2>3, <2>5 DEF PartList
  <2>10. Displaced(w \o Displaced(s, b, p), f.offset_bits, f.path)
         = Displaced(w, f.offset_bits, f.path) \o Displaced(Displaced(s, b, p), f.offset_bits, f.path)
    BY <1>1, <2>8, JoinShifts
  <2>11. v[k] = Displaced(u[k], f.offset_bits, f.path) /\ v[k - 1] = Displaced(w, f.offset_bits, f.path)
    BY <2>3
  <2>12. QED
    BY <2>7, <2>8, <2>9, <2>10, <2>11
<1> HIDE DEF v
<1>12. Laid(v, Parts(f))
  BY <1>7, <1>8, <1>11 DEF Laid
<1>13. QED
  BY <1>2, <1>7, <1>9, <1>10, <1>12

\* At the start the frame of the root stands for all of it.
LEMMA OrderStarts ==
  ASSUME NEW ty \in TypeId, StartWalk(ty), WalkTypeOK'
  PROVE  OrderInv'
<1> DEFINE f == Frame(ty, 0, <<>>)
           c == [k \in 0 .. 1 |-> IF k = 0 THEN <<>> ELSE Declared[ty]]
<1>1. root' = {ty} /\ stack' = <<f>> /\ emitted' = <<>>
  BY DEF StartWalk
<1>2. PICK s \in Seq(Entries) : s = Declared[ty]
  BY DeclaredEntries
<1>3. <<>> \in Path /\ <<>> \in Seq(Entries)
  BY EmptySeq DEF Path
<1>4. Pending(f) = s
  <2>1. f.ty = ty /\ f.offset_bits = 0 /\ f.path = <<>>
    BY DEF Frame
  <2>2. Displaced(s, 0, <<>>) = s
    BY <1>3, EntriesShift
  <2>3. QED
    BY <1>2, <2>1, <2>2 DEF Pending
<1> HIDE DEF f
<1>5. Len(stack') = 1 /\ stack'[1] = f
  BY <1>1
<1>6. c \in [0 .. 1 -> Seq(Entries)] /\ c[0] = <<>> /\ c[1] = s
  BY <1>2, <1>3
<1> HIDE DEF c
<1>7. c[1] = c[0] \o Pending(f)
  BY <1>4, <1>6, ConcatEmptySeq
<1>8. Laid(c, stack')
  BY <1>5, <1>6, <1>7 DEF Laid
<1>9. Laid(c, stack)' /\ (c[0])' = emitted' /\ (c[Len(stack)])' = Declared[ty]
  BY <1>1, <1>2, <1>5, <1>6, <1>8 DEF Laid
<1>10. QED
  BY <1>1, <1>9 DEF OrderInv

\* A popped frame leaves its entry among those returned, and its parts in its
\* place on the stack.
LEMMA OrderKept ==
  ASSUME OrderInv, WalkStep, WalkTypeOK'
  PROVE  OrderInv'
<1> DEFINE top == Head(stack)
<1>1. stack \in Seq(Frames) /\ stack # <<>> /\ emitted \in Seq(Entries) /\ root' = root
  BY DEF OrderInv, WalkTypeOK, WalkStep
<1>2. PICK f \in Frames : f = top
  BY <1>1, HeadTailProperties
<1>3. PICK rest : rest = Tail(stack)
  OBVIOUS
<1>4. /\ f = stack[1] /\ rest \in Seq(Frames)
      /\ Len(rest) = Len(stack) - 1 /\ Len(stack) \in Nat \ {0}
      /\ \A i \in 1 .. Len(rest) : rest[i] = stack[i + 1]
  BY <1>1, <1>2, <1>3, HeadTailProperties, LenProperties, EmptySeq
<1>5. PICK parts : parts = Parts(f)
  OBVIOUS
<1>6. parts \in Seq(Frames)
      /\ \E v : Laid(v, parts) /\ v[0] = OwnEntries(f) /\ v[Len(parts)] = Pending(f)
  BY <1>5, PendingParts
<1>7. PICK v : Laid(v, parts) /\ v[0] = OwnEntries(f) /\ v[Len(parts)] = Pending(f)
  BY <1>6
<1>8. PICK n \in Nat : n = Len(parts)
  BY <1>6, LenProperties
<1>9. stack' = parts \o rest
  BY <1>2, <1>3, <1>5 DEF WalkStep, Push
<1>10. /\ Len(stack') = n + Len(rest)
       /\ \A i \in 1 .. n + Len(rest) : stack'[i] = IF i <= n THEN parts[i] ELSE rest[i - n]
  BY <1>4, <1>6, <1>8, <1>9, ConcatProperties
<1>11. emitted' = emitted \o OwnEntries(f) /\ OwnEntries(f) \in Seq(Entries)
  <2>1. OwnEntries(f) \in Seq(Entries)
    BY PendingEntries
  <2>2. CASE IsLeaf(Types[f.ty])
    <3>1. emitted' = Append(emitted, Entry(f)) /\ OwnEntries(f) = <<Entry(f)>>
      BY <1>2, <2>2 DEF WalkStep, OwnEntries
    <3>2. Append(emitted, Entry(f)) = emitted \o <<Entry(f)>>
      <4>1. Entry(f) \in Entries
        BY DEF Entry, Entries, Frames
      <4>2. QED
        BY <1>1, <4>1
    <3>3. QED
      BY <2>1, <3>1, <3>2
  <2>3. CASE ~IsLeaf(Types[f.ty])
    <3>1. emitted' = emitted /\ OwnEntries(f) = <<>>
      BY <1>2, <2>3 DEF WalkStep, OwnEntries
    <3>2. QED
      BY <1>1, <2>1, <3>1, ConcatEmptySeq
  <2>4. QED
    BY <2>2, <2>3
<1>12. ASSUME NEW ty \in root
       PROVE  \E c : Laid(c, stack') /\ c[0] = emitted' /\ c[Len(stack')] = Declared[ty]
  <2>1. PICK c : Laid(c, stack) /\ c[0] = emitted /\ c[Len(stack)] = Declared[ty]
    BY <1>12 DEF OrderInv
  <2>2. /\ c \in [0 .. Len(stack) -> Seq(Entries)]
        /\ \A k \in 1 .. Len(stack) : c[k] = c[k - 1] \o Pending(stack[k])
    BY <2>1 DEF Laid
  <2>3. /\ v \in [0 .. n -> Seq(Entries)]
        /\ \A k \in 1 .. n : v[k] = v[k - 1] \o Pending(parts[k])
    BY <1>7, <1>8 DEF Laid
  <2> DEFINE d == [k \in 0 .. n + Len(rest) |-> IF k <= n THEN emitted \o v[k] ELSE c[k - n + 1]]
  <2>4. \A k \in 0 .. n : d[k] = emitted \o v[k] /\ emitted \o v[k] \in Seq(Entries)
    <3>1. TAKE k \in 0 .. n
    <3>2. PICK w \in Seq(Entries) : w = v[k]
      BY <2>3
    <3>3. emitted \o w \in Seq(Entries)
      BY <1>1, ConcatProperties
    <3>4. d[k] = emitted \o v[k]
      BY <1>4
    <3>5. QED
      BY <3>2, <3>3, <3>4
  <2>5. \A k \in n .. n + Len(rest) : d[k] = c[k - n + 1]
    <3>1. c[1] = emitted \o Pending(f)
      <4>1. 1 \in 1 .. Len(stack) /\ 1 - 1 = 0
        BY <1>4
      <4>2. QED
        BY <1>4, <2>1, <2>2, <4>1
    <3>2. d[n] = c[1]
      <4>1. n \in 0 .. n /\ v[n] = Pending(f)
        BY <1>7, <1>8
      <4>2. d[n] = emitted \o v[n]
        BY <2>4, <4>1
      <4>3. QED
        BY <3>1, <4>1, <4>2
    <3>3. ASSUME NEW k \in n + 1 .. n + Len(rest)
          PROVE  d[k] = c[k - n + 1]
      <4>1. ~(k <= n) /\ k \in 0 .. n + Len(rest)
        BY <1>4
      <4>2. QED
        BY <4>1
    <3> HIDE DEF d
    <3>4. \A k \in n .. n + Len(rest) : (k = n /\ k - n + 1 = 1) \/ k \in n + 1 .. n + Len(rest)
      BY <1>4
    <3>5. QED
      BY <3>2, <3>3, <3>4
  <2>6. DOMAIN d = 0 .. n + Len(rest) /\ d = [k \in 0 .. n + Len(rest) |-> d[k]]
    OBVIOUS
  <2> HIDE DEF d
  <2>7. \A k \in 0 .. n + Len(rest) : d[k] \in Seq(Entries)
    <3>1. TAKE k \in 0 .. n + Len(rest)
    <3>2. CASE k \in 0 .. n
      BY <2>4, <3>2
    <3>3. CASE k \in n .. n + Len(rest)
      <4>1. k - n + 1 \in 0 .. Len(stack)
        BY <1>4, <3>3
      <4>2. QED
        BY <2>2, <2>5, <3>3, <4>1
    <3>4. QED
      BY <1>4, <3>2, <3>3
  <2>8. ASSUME NEW k \in 1 .. n
        PROVE  d[k] = d[k - 1] \o Pending(stack'[k])
    <3>1. stack'[k] = parts[k]
      BY <1>4, <1>10
    <3>2. PICK w \in Seq(Entries) : w = v[k - 1]
      BY <2>3
    <3>3. PICK p \in Seq(Entries) : p = Pending(parts[k])
      <4>1. parts[k] \in Frames
        BY <1>6, <1>8, ElementOfSeq
      <4>2. QED
        BY <4>1, PendingEntries
    <3>4. v[k] = w \o p
      BY <2>3, <3>2, <3>3
    <3>5. (emitted \o w) \o p = emitted \o (w \o p)
      BY <1>1, ConcatAssociative
    <3>6. d[k] = emitted \o v[k] /\ d[k - 1] = emitted \o w
      BY <2>4, <3>2
    <3>7. QED
      BY <3>1, <3>3, <3>4, <3>5, <3>6
  <2>9. ASSUME NEW k \in n + 1 .. n + Len(rest)
        PROVE  d[k] = d[k - 1] \o Pending(stack'[k])
    <3>1. stack'[k] = stack[k - n + 1]
      <4>1. k \in 1 .. n + Len(rest) /\ ~(k <= n) /\ k - n \in 1 .. Len(rest) /\ (k - n) + 1 = k - n + 1
        BY <1>4
      <4>2. QED
        BY <1>4, <1>10, <4>1
    <3>2. /\ k \in n .. n + Len(rest) /\ k - 1 \in n .. n + Len(rest)
          /\ (k - 1) - n + 1 = (k - n + 1) - 1 /\ k - n + 1 \in 1 .. Len(stack)
      BY <1>4
    <3>3. d[k] = c[k - n + 1] /\ d[k - 1] = c[(k - n + 1) - 1]
      BY <2>5, <3>2
    <3>4. QED
      BY <2>2, <3>1, <3>2, <3>3
  <2>10. d \in [0 .. Len(stack') -> Seq(Entries)]
    BY <1>10, <2>6, <2>7
  <2>11. \A k \in 1 .. Len(stack') : k \in 1 .. n \/ k \in n + 1 .. n + Len(rest)
    BY <1>4, <1>10
  <2>12. Laid(d, stack')
    BY <2>8, <2>9, <2>10, <2>11 DEF Laid
  <2>13. d[0] = emitted'
    <3>1. 0 \in 0 .. n
      OBVIOUS
    <3>2. QED
      BY <1>7, <1>11, <2>4, <3>1
  <2>14. d[Len(stack')] = Declared[ty]
    <3>1. Len(stack') \in n .. n + Len(rest) /\ Len(stack') - n + 1 = Len(stack)
      BY <1>4, <1>10
    <3>2. QED
      BY <2>1, <2>5, <3>1
  <2>15. QED
    BY <2>12, <2>13, <2>14
<1>13. QED
  BY <1>1, <1>12 DEF OrderInv, Laid

\* What has been returned begins what is declared, and on an empty stack is all
\* of it.
LEMMA OrderSaid == OrderInv => WalkInOrder
<1> SUFFICES ASSUME OrderInv, NEW ty \in root
             PROVE  LET all == Declared[ty]
                    IN  /\ Len(emitted) <= Len(all)
                        /\ emitted = SubSeq(all, 1, Len(emitted))
                        /\ stack = <<>> => emitted = all
  BY DEF WalkInOrder
<1>1. stack \in Seq(Frames) /\ emitted \in Seq(Entries)
  BY DEF OrderInv, WalkTypeOK
<1>2. PICK c : Laid(c, stack) /\ c[0] = emitted /\ c[Len(stack)] = Declared[ty]
  BY DEF OrderInv
<1>3. PICK m \in Nat : m = Len(emitted)
  BY <1>1, LenProperties
<1>4. PICK n \in Nat : n = Len(stack)
  BY <1>1, LenProperties
<1>5. /\ c \in [0 .. n -> Seq(Entries)]
      /\ \A k \in 1 .. n : c[k] = c[k - 1] \o Pending(stack[k])
  BY <1>2, <1>4 DEF Laid
<1> DEFINE Begins(s) == m <= Len(s) /\ \A i \in 1 .. m : s[i] = emitted[i]
           T == {k \in Nat : Begins(c[k])}
<1>6. 0 \in T
  BY <1>2, <1>3
<1>7. ASSUME NEW k \in 0 .. n - 1, k \in T
      PROVE  k + 1 \in T
  <2>1. PICK s \in Seq(Entries) : s = c[k]
    BY <1>5
  <2>2. PICK p \in Seq(Entries) : p = Pending(stack[k + 1])
    <3>1. stack[k + 1] \in Frames
      BY <1>1, <1>4, ElementOfSeq
    <3>2. QED
      BY <3>1, PendingEntries
  <2>3. c[k + 1] = s \o p
    <3>1. k + 1 \in 1 .. n /\ (k + 1) - 1 = k
      OBVIOUS
    <3>2. QED
      BY <1>5, <2>1, <2>2, <3>1
  <2>4. Begins(s) /\ Len(s) \in Nat /\ Len(p) \in Nat
    BY <1>7, <2>1, LenProperties
  <2>5. Len(s \o p) = Len(s) + Len(p)
        /\ \A i \in 1 .. Len(s) + Len(p) : (s \o p)[i] = IF i <= Len(s) THEN s[i] ELSE p[i - Len(s)]
    BY ConcatProperties
  <2>6. \A i \in 1 .. m : i \in 1 .. Len(s) + Len(p) /\ i <= Len(s)
    BY <2>4
  <2>7. Begins(s \o p)
    BY <2>4, <2>5, <2>6
  <2>8. QED
    BY <2>3, <2>7
<1>8. n \in T
  <2> HIDE DEF T
  <2>1. 0 .. n \subseteq T
    BY <1>6, <1>7, UpTo
  <2>2. QED
    BY <2>1
<1>9. PICK all \in Seq(Entries) : all = Declared[ty]
  BY <1>2, <1>4, <1>5
<1>10. m <= Len(all) /\ \A i \in 1 .. m : all[i] = emitted[i]
  BY <1>2, <1>4, <1>8, <1>9
<1>11. emitted = SubSeq(all, 1, m)
  <2>1. Len(all) \in Nat
    BY LenProperties
  <2>2. /\ SubSeq(all, 1, m) \in Seq(Entries)
        /\ Len(SubSeq(all, 1, m)) = m
        /\ \A i \in 1 .. m : SubSeq(all, 1, m)[i] = all[i]
    BY <1>10, <2>1
  <2>3. QED
    BY <1>1, <1>3, <1>10, <2>2, SeqEqual
<1>12. stack = <<>> => emitted = all
  BY <1>2, <1>4, <1>9
<1>13. QED
  BY <1>3, <1>9, <1>10, <1>11, <1>12

\* Every step of a walk keeps the order.
LEMMA OrderStep == WalkInv /\ OrderInv /\ [WalkNext]_walkVars => OrderInv'
<1> SUFFICES ASSUME WalkInv, OrderInv, [WalkNext]_walkVars PROVE OrderInv'
  OBVIOUS
<1>1. WalkTypeOK'
  BY WalkInside DEF WalkInv
<1>2. CASE UNCHANGED walkVars
  BY <1>1, <1>2 DEF OrderInv, Laid, walkVars
<1>3. CASE EndWalk
  BY <1>1, <1>3 DEF OrderInv, EndWalk
<1>4. QED
  BY <1>1, <1>2, <1>3, OrderStarts, OrderKept DEF WalkNext

\* "Returns the next primitive value in declaration order" (cursor.rs): for
\* aggregates of sequences of aggregates of any depth, the stack of the walker
\* returns the entries as the types declare them, none twice and none left out.
THEOREM WalkKeepsOrder == WalkSpec => []WalkInOrder
<1>1. WalkInit => WalkInv /\ OrderInv
  <2>1. WalkInit => root = {}
    BY DEF WalkInit
  <2>2. QED
    BY <2>1, InitInside DEF WalkInv, OrderInv
<1>2. WalkInv /\ OrderInv /\ [WalkNext]_walkVars => (WalkInv /\ OrderInv)'
  BY WalkInside, OrderStep
<1>3. QED
  BY <1>1, <1>2, OrderSaid, PTL DEF WalkSpec

\* The same of try_next, whatever is read, written and mapped between two calls.
THEOREM EntriesInOrder == SymbolSpec => []WalkInOrder
BY AccessImplementsWalk, WalkKeepsOrder, PTL

-----------------------------------------------------------------------------
\* The bus under a SymbolHandle.

MemoryTyped == \A d \in Device : \A i \in 0 .. SizeOf[d] - 1 : memory[d][i] \in Byte

\* Nothing writes bits here, so no handle is ever in the middle of a write.
BusInv ==
  /\ DataInv
  /\ StaleOnlyByOthers
  /\ RangesApart
  /\ \A h \in Handle : Idle(h)
  /\ MemoryTyped

\* A store of bytes keeps the memory one of bytes.
LEMMA StoreTyped ==
  ASSUME DataInv, MemoryTyped, NEW h, NEW d, NEW first \in Int, NEW n \in Int, NEW data,
         Store(h, d, first, n, data), \A i \in 0 .. n - 1 : data[i] \in Byte
  PROVE  MemoryTyped'
<1> SUFFICES ASSUME NEW e \in Device, NEW i \in 0 .. SizeOf[e] - 1
             PROVE  memory'[e][i] \in Byte
  BY DEF MemoryTyped
<1>1. DOMAIN memory = Device /\ DOMAIN memory[e] = 0 .. SizeOf[e] - 1 /\ memory[e][i] \in Byte
  BY DEF DataInv, MemoryTyped
<1>2. memory' = [memory EXCEPT ![d] = [k \in DOMAIN memory[d] |->
                   IF first <= k /\ k < first + n THEN data[k - first] ELSE memory[d][k]]]
  BY DEF Store
<1>3. CASE e = d /\ first <= i /\ i < first + n
  <2>1. memory'[e][i] = data[i - first] /\ i - first \in 0 .. n - 1
    BY <1>1, <1>2, <1>3
  <2>2. QED
    BY <2>1
<1>4. CASE ~(e = d /\ first <= i /\ i < first + n)
  <2>1. memory'[e][i] = memory[e][i]
    BY <1>1, <1>2, <1>4
  <2>2. QED
    BY <1>1, <2>1
<1>5. QED
  BY <1>3, <1>4

\* A new call starts without the handle of the last stream.
LEMMA BeginBus ==
  ASSUME BusInv, NEW newJob, Begin(newJob)
  PROVE  BusInv'
<1>1. /\ active' = [active EXCEPT ![Tool] = {}] /\ origin' = [origin EXCEPT ![Tool] = 0]
      /\ cache' = [cache EXCEPT ![Tool] = {}] /\ foreign' = [foreign EXCEPT ![Tool] = {}]
      /\ ranges' = ranges /\ memory' = memory /\ storing' = storing
  BY DEF Begin
<1>2. /\ active' \in [Handle -> SUBSET [range : Known, cursor : Nat]] /\ origin' \in [Handle -> Nat]
      /\ \A h \in Handle : active'[h] = {} \/ (active'[h] = active[h] /\ origin'[h] = origin[h])
  BY <1>1 DEF BusInv, DataInv, AddressTypeOK, Known
<1>3. AddressTypeOK' /\ PlacesOK'
  BY <1>1, <1>2 DEF BusInv, DataInv, AddressTypeOK, PlacesOK, Known
<1>4. /\ DOMAIN cache' = Handle /\ DOMAIN foreign' = Handle
      /\ \A h \in Handle : cache'[h] = {} \/ (cache'[h] = cache[h] /\ foreign'[h] = foreign[h])
  BY <1>1 DEF BusInv, DataInv
<1>5. \A h \in Handle : Idle(h)'
  BY <1>1 DEF BusInv, Idle
<1>6. \A h \in Handle : StoringOK(h)'
  BY <1>5 DEF Idle, StoringOK
<1>7. DataInv'
  BY <1>1, <1>3, <1>4, <1>6 DEF BusInv, DataInv, ChunkOK
<1>8. StaleOnlyByOthers'
  BY <1>1, <1>4 DEF BusInv, StaleOnlyByOthers
<1>9. QED
  BY <1>1, <1>5, <1>7, <1>8 DEF BusInv, RangesApart, MemoryTyped

\* So do the calls of a handle that write nothing.
LEMMA QuietBus ==
  ASSUME BusInv, AnyStep, ranges' = ranges, memory' = memory, storing' = storing
  PROVE  BusInv'
<1>1. DataInv' /\ StaleOnlyByOthers'
  BY DataInvKept, StaleStep DEF BusInv
<1>2. QED
  BY <1>1 DEF BusInv, RangesApart, Idle, MemoryTyped

\* A jump finds a byte of a device.
LEMMA JumpFinds ==
  ASSUME BusInv, NEW h \in Handle, NEW a \in Int, Jump(h, a)
  PROVE  /\ a \in Nat /\ (UNCHANGED dataVars => BusInv')
         /\ Positioned(h)'
         /\ \A r \in Best(ranges, a) :
              /\ Leads(r, a).device \in Device /\ Leads(r, a).byte \in Nat
              /\ DeviceOf(h)' = Leads(r, a).device
              /\ device_offset(h)' = Leads(r, a).byte
<1>1. PICK s \in Best(ranges, a) :
        /\ active' = [active EXCEPT ![h] = {[range |-> s, cursor |-> a - s.bus_start]}]
        /\ ranges' = ranges
  BY DEF Jump
<1>2. ASSUME NEW r \in Best(ranges, a)
      PROVE  /\ r \in Known /\ r \in ranges /\ Contains(r, a)
             /\ r.bus_start \in Nat /\ r.device_offset \in Nat /\ r.device_id \in Device
  <2>1. r \in Known /\ r \in ranges /\ Contains(r, a)
    BY DEF Best, BusInv, DataInv, AddressTypeOK, Known
  <2>2. QED
    BY <2>1, RangeFields
<1>3. a \in Nat
  BY <1>2, <1>1 DEF Contains
<1>4. active'[h] = {[range |-> s, cursor |-> a - s.bus_start]}
  BY <1>1 DEF BusInv, DataInv, AddressTypeOK
<1>5. Positioned(h)' /\ At(h)' = [range |-> s, cursor |-> a - s.bus_start]
  BY <1>4 DEF Positioned, At
<1>6. ASSUME UNCHANGED dataVars
      PROVE  BusInv'
  <2>1. MoveAnywhere(h)
    BY <1>3, <1>6 DEF MoveAnywhere, BusInv
  <2>2. AnyStep
    BY <2>1 DEF AnyStep, AnyCall
  <2>3. QED
    BY <1>1, <1>6, <2>2, QuietBus DEF dataVars
<1>7. ASSUME NEW r \in Best(ranges, a)
      PROVE  r = s
  <2>1. /\ r.priority >= s.priority /\ s.priority >= r.priority
        /\ r.priority \in Int /\ s.priority \in Int
    <3>1. r.priority \in {DEVICE_PRIORITY, REDIRECT_PRIORITY} /\ s.priority \in {DEVICE_PRIORITY, REDIRECT_PRIORITY}
      BY <1>2, MapAssumption DEF Known, MapRange
    <3>2. QED
      BY <1>2, <3>1 DEF Best, DEVICE_PRIORITY, REDIRECT_PRIORITY
  <2>2. r.priority = s.priority
    BY <2>1
  <2>3. Overlaps(r, s)
    BY <1>2, <1>3, RangeFields DEF Contains, Overlaps
  <2>4. QED
    BY <1>2, <2>2, <2>3 DEF BusInv, RangesApart, Clash
<1>8. /\ Leads(s, a).device \in Device /\ Leads(s, a).byte \in Nat
      /\ DeviceOf(h)' = Leads(s, a).device /\ device_offset(h)' = Leads(s, a).byte
  BY <1>2, <1>3, <1>5 DEF Leads, DeviceOf, device_offset, Contains
<1>9. QED
  BY <1>3, <1>5, <1>6, <1>7, <1>8

\* What every step leaves of the bus.
LEMMA RemapBusKept ==
  ASSUME BusInv, RemapBus
  PROVE  BusInv'
<1>1. DataInv' /\ StaleOnlyByOthers'
  BY DataInvKept, StaleStep DEF BusInv, AnyStep
<1>2. UNCHANGED dataVars
  BY DEF RemapBus
<1>3. RangesApart'
  <2>1. ASSUME NEW r, Map!Add(r)
        PROVE  RangesApart'
    BY <2>1 DEF Map!Add, RangesApart, Clash, Overlaps, BusInv
  <2>2. ASSUME NEW r, Map!Remove(r)
        PROVE  RangesApart'
    BY <2>2 DEF Map!Remove, RangesApart, BusInv
  <2>3. QED
    BY <2>1, <2>2 DEF RemapBus, Remap
<1>4. QED
  BY <1>1, <1>2, <1>3 DEF BusInv, dataVars, Idle, MemoryTyped

\* A write of bytes.
LEMMA WriteBus ==
  ASSUME BusInv, NEW h \in Handle, NEW n \in Nat, NEW data, Write(h, n, data),
         \A i \in 0 .. n - 1 : data[i] \in Byte
  PROVE  BusInv'
<1>1. DeviceOf(h) \in Device /\ device_offset(h) \in Nat
  BY StandsOn DEF Write, Available, BusInv, DataInv
<1>2. Store(h, DeviceOf(h), device_offset(h), n, data) /\ Invalidate(h)
  BY DEF Write
<1>3. DataInv' /\ StaleOnlyByOthers'
  BY <1>1, <1>2, WriteKeeps, StoreStale DEF BusInv
<1>4. MemoryTyped'
  BY <1>1, <1>2, StoreTyped DEF BusInv
<1>5. ranges' = ranges /\ storing' = storing
  BY DEF Write, Consume
<1>6. QED
  BY <1>3, <1>4, <1>5 DEF BusInv, RangesApart, Idle

\* A write by someone else, who is no handle.
LEMMA ForeignBus ==
  ASSUME BusInv, ForeignWrite
  PROVE  BusInv'
<1>1. PICK b \in ForeignBytes : Store("elsewhere", b[1], b[2], 1, Filled(1, 1))
  BY DEF ForeignWrite
<1>2. b[1] \in Device /\ b[2] \in Nat /\ "elsewhere" \notin Handle
  BY SymbolAssumption
<1>3. /\ UNCHANGED addressVars /\ cache' = cache /\ storing' = storing
      /\ ranges' = ranges /\ active' = active /\ origin' = origin
  BY DEF ForeignWrite, addressVars
<1>4. MemoryShape' /\ DOMAIN foreign' = Handle
  BY <1>1, StoreShape DEF BusInv
<1>5. \A h \in Handle : Idle(h)'
  BY <1>3 DEF BusInv, Idle
<1>6. \A h \in Handle : StoringOK(h)'
  BY <1>5 DEF Idle, StoringOK
<1>7. DataInv'
  BY <1>3, <1>4, <1>6 DEF BusInv, DataInv, MemoryShape, ChunkOK, AddressTypeOK, PlacesOK
<1>8. StaleOnlyByOthers'
  <2> SUFFICES ASSUME NEW g \in Handle, NEW c \in cache'[g]
               PROVE  FreshBut(c, foreign[g])'
    BY DEF StaleOnlyByOthers, FreshBut
  <2>1. FreshBut(c, foreign[g]) /\ g # "elsewhere" /\ c \in cache[g]
    BY <1>2, <1>3, StaleFresh DEF BusInv
  <2>2. QED
    BY <1>1, <1>2, <2>1, StoreFresh DEF BusInv
<1>9. MemoryTyped'
  <2>1. \A i \in 0 .. 0 : Filled(1, 1)[i] \in Byte
    BY DEF Filled, Byte, Bit
  <2>2. QED
    BY <1>1, <1>2, <2>1, StoreTyped DEF BusInv
<1>10. QED
  BY <1>3, <1>5, <1>7, <1>8, <1>9 DEF BusInv, RangesApart

-----------------------------------------------------------------------------
\* The plans of the calls.

\* What a call does after its jump: nothing to the memory, byte by byte or in
\* pieces.
Unread == {"number", "nothing", "refuse", "constant"}
Pieces == {"bytes", "text", "store"}
ByByte == LEB \cup {"c_string"}

\* A number is read from a bit of the first byte on, and is no longer than a
\* word.
PlanShape(p) ==
  /\ DOMAIN p = {"at", "do", "offset", "len", "data"}
  /\ p.do \in Unread \cup Pieces \cup ByByte
  /\ p.offset \in Nat /\ p.len \in Nat /\ p.data \in Seq(Byte)
  /\ p.do = "number" => p.len \in 1 .. BITS /\ p.offset \in 0 .. BITS_PER_BYTE - 1

\* The type a call reads a number of, and the bits of it.
TypeRead(call, about) == IF call = "entry" THEN about.ty ELSE CHOOSE id \in about.ty : TRUE
Width(call, about, id) ==
  LET t == Types[id]
  IN  CASE t.shape = "bitfield" -> BitEnd(t.spec)
        [] t.shape = "pointer" /\ call # "deref" ->
             PointerBits(t, {IF call = "entry" THEN byte_len(about) ELSE about.size})
        [] OTHER -> Bytes(t.byte_size)

\* They are those of ValuesFaithful.
LEMMA WidthOfJob ==
  JobType = TypeRead(job.call, job.about) /\ \A id : ValueBits(id) = Width(job.call, job.about, id)
BY DEF JobType, TypeRead, ValueBits, Width

\* A plan of no bytes is one.
LEMMA PlainPlan ==
  ASSUME NEW at, NEW do \in Unread \cup Pieces \cup ByByte, NEW len \in Nat,
         do = "number" => len \in 1 .. BITS
  PROVE  /\ PlanShape(Plan(at, do, len))
         /\ Plan(at, do, len).at = at /\ Plan(at, do, len).do = do
         /\ Plan(at, do, len).offset = 0 /\ Plan(at, do, len).len = len
         /\ Plan(at, do, len).data = <<>>
<1>1. <<>> \in Seq(Byte)
  OBVIOUS
<1>2. QED
  BY <1>1, WalkAssumption DEF Plan, PlanShape

\* read_unsigned and read_signed.
LEMMA IntegerPlan ==
  ASSUME NEW a, NEW w \in Nat
  PROVE  LET p == Integer(a, w)
         IN  /\ PlanShape(p) /\ p.at = {a} /\ p.data = <<>>
             /\ p.do \in Unread
             /\ p.do = "number" => p.offset = 0 /\ p.len = w
<1>1. CASE w = 0
  BY <1>1, PlainPlan DEF Integer, Unread
<1>2. CASE w # 0 /\ w > BITS
  BY <1>2, PlainPlan DEF Integer, Unread
<1>3. CASE w # 0 /\ ~(w > BITS)
  <2>1. w \in 1 .. BITS
    BY <1>3, WalkAssumption
  <2>2. QED
    BY <1>3, <2>1, PlainPlan DEF Integer, Unread
<1>4. QED
  BY <1>1, <1>2, <1>3

\* The bytes of a shape that has a size.
LEMMA ByteSize ==
  ASSUME NEW id \in TypeId,
         Types[id].shape \in {"scalar", "enum", "fixed", "pointer", "opaque"}
  PROVE  /\ Types[id].byte_size \in Nat /\ Bytes(Types[id].byte_size) \in Nat
         /\ Types[id].shape = "scalar" => Types[id].encoding \in Encodings
         /\ Types[id].shape = "pointer" => Types[id].byte_size # 0 /\ Types[id].target \in TypeId
<1>1. IsType(id, Types[id])
  BY WalkAssumption DEF TypeId
<1>2. Types[id].byte_size \in Nat
  BY <1>1 DEF IsType
<1>3. QED
  BY <1>1, <1>2, BytesNat DEF IsType

\* A pointer has the larger of two sizes.
LEMMA PointerWidth ==
  ASSUME NEW id \in TypeId, Types[id].shape = "pointer", NEW hint,
         hint = {} \/ \E k \in Nat : hint = {k}
  PROVE  PointerBits(Types[id], hint) \in Nat /\ PointerBits(Types[id], {}) = Bytes(Types[id].byte_size)
<1> DEFINE size == Types[id].byte_size
           Largest(n, S) == \A m \in S : m <= n
<1>1. size \in Nat
  BY ByteSize
<1>2. ASSUME NEW S, NEW n \in S, n \in Nat, \A m \in S : m \in Nat /\ m <= n
      PROVE  (CHOOSE x \in S : \A m \in S : m <= x) = n
  <2>1. \E x \in S : \A m \in S : m <= x
    BY <1>2
  <2>2. PICK y : y = CHOOSE x \in S : \A m \in S : m <= x
    OBVIOUS
  <2>3. y \in S /\ \A m \in S : m <= y
    BY <2>1, <2>2
  <2>4. QED
    BY <1>2, <2>2, <2>3
<1> HIDE DEF size
<1>3. (CHOOSE x \in {size} \cup {} : \A m \in {size} \cup {} : m <= x) = size
  <2>1. size \in {size} \cup {} /\ \A m \in {size} \cup {} : m \in Nat /\ m <= size
    BY <1>1
  <2>2. QED
    BY <1>1, <1>2, <2>1
<1>4. (CHOOSE x \in {size} \cup hint : \A m \in {size} \cup hint : m <= x) \in Nat
  <2>1. CASE hint = {}
    BY <1>1, <1>3, <2>1
  <2>2. ASSUME NEW k \in Nat, hint = {k}
        PROVE  (CHOOSE x \in {size} \cup hint : \A m \in {size} \cup hint : m <= x) \in Nat
    <3> DEFINE n == IF k <= size THEN size ELSE k
    <3>1. n \in {size} \cup hint /\ n \in Nat /\ \A m \in {size} \cup hint : m \in Nat /\ m <= n
      BY <1>1, <2>2
    <3> HIDE DEF n
    <3>2. QED
      BY <1>2, <3>1
  <2>3. QED
    BY <2>1, <2>2
<1>5. QED
  BY <1>3, <1>4, BytesNat DEF PointerBits, size

\* What read_type_record plans for a type without an entry: to read as many bits
\* as the type has, from the first one on.
TypedRead(p, id, a, hint) ==
  /\ PlanShape(p) /\ p.at \subseteq {a} /\ p.data = <<>>
  /\ p.do \in Unread \cup {"text"}
  /\ Types[id].shape = "pointer" => p.do \in Unread
  /\ p.do = "number" =>
       /\ p.offset = 0 /\ Types[id].shape # "bitfield"
       /\ p.len = IF Types[id].shape = "pointer" THEN PointerBits(Types[id], hint)
                  ELSE Bytes(Types[id].byte_size)

\* It does so for every type.
LEMMA TypedPlan ==
  ASSUME NEW id \in TypeId, NEW a, NEW hint,
         Types[id].shape = "pointer" => hint = {} \/ \E k \in Nat : hint = {k}
  PROVE  TypedRead(TypePlan(id, a, hint), id, a, hint)
<1> DEFINE t == Types[id]
<1>0. PICK p : p = TypePlan(id, a, hint)
  OBVIOUS
<1> SUFFICES TypedRead(p, id, a, hint)
  BY <1>0
<1>1. t.shape \in {"scalar", "enum", "fixed", "pointer", "opaque"} =>
        t.byte_size \in Nat /\ Bytes(t.byte_size) \in Nat /\ (t.shape = "scalar" => t.encoding \in Encodings)
  BY ByteSize
<1>2. CASE t.shape \in {"enum", "fixed"} \/ (t.shape = "scalar" /\ t.encoding \in {"unsigned", "signed"})
  <2>1. p = Integer(a, Bytes(t.byte_size))
    BY <1>2, <1>0 DEF TypePlan
  <2>2. QED
    BY <1>1, <1>2, <2>1, IntegerPlan DEF TypedRead
<1>3. CASE t.shape = "scalar" /\ t.encoding = "floating"
  <2>1. p = Plan({a}, IF t.byte_size \in FLOAT_BYTES THEN "number" ELSE "nothing", Bytes(t.byte_size))
    BY <1>3, <1>0 DEF TypePlan
  <2>2. t.byte_size \in FLOAT_BYTES => Bytes(t.byte_size) \in 1 .. BITS
    <3> SUFFICES ASSUME t.byte_size \in FLOAT_BYTES
                 PROVE  Bytes(t.byte_size) \in 1 .. BITS
      OBVIOUS
    <3>1. Bytes(t.byte_size) <= BITS /\ Bytes(t.byte_size) \in Nat
      BY <1>1, <1>3, SymbolAssumption
    <3>2. Bytes(t.byte_size) # 0
      BY <1>1, <1>3, WalkAssumption DEF Bytes
    <3>3. QED
      BY <3>1, <3>2, WalkAssumption
  <2>3. PICK do : do = IF t.byte_size \in FLOAT_BYTES THEN "number" ELSE "nothing"
    OBVIOUS
  <2>4. do \in Unread \cup Pieces \cup ByByte /\ do \in Unread /\ (do = "number" => Bytes(t.byte_size) \in 1 .. BITS)
    BY <2>2, <2>3 DEF Unread
  <2>5. p = Plan({a}, do, Bytes(t.byte_size)) /\ Bytes(t.byte_size) \in Nat
    BY <1>1, <1>3, <2>1, <2>3
  <2>6. QED
    BY <1>3, <2>4, <2>5, PlainPlan DEF TypedRead
<1>4. CASE t.shape = "scalar" /\ t.encoding = "utf8"
  <2>1. p = Plan({a}, "text", t.byte_size)
    BY <1>4, <1>0 DEF TypePlan
  <2>2. "text" \in Unread \cup Pieces \cup ByByte
    BY DEF Pieces
  <2>3. QED
    BY <1>1, <1>4, <2>1, <2>2, PlainPlan DEF TypedRead
<1>5. CASE t.shape = "pointer"
  <2>1. p = IF PointerBits(t, hint) > BITS THEN Plan({a}, "nothing", 0)
            ELSE Integer(a, PointerBits(t, hint))
    BY <1>5, <1>0 DEF TypePlan
  <2>2. PointerBits(t, hint) \in Nat
    BY <1>5, PointerWidth
  <2>3. "nothing" \in Unread /\ "nothing" \in Unread \cup Pieces \cup ByByte
    BY DEF Unread
  <2>4. QED
    BY <1>5, <2>1, <2>2, <2>3, PlainPlan, IntegerPlan DEF TypedRead
<1>6. CASE ~(t.shape \in {"enum", "fixed", "scalar", "pointer"})
  <2>1. p = Plan({}, IF t.shape = "bitfield" THEN "refuse" ELSE "nothing", 0)
    BY <1>6, <1>0 DEF TypePlan
  <2>2. PICK do : do = IF t.shape = "bitfield" THEN "refuse" ELSE "nothing"
    OBVIOUS
  <2>3. do \in Unread \cup Pieces \cup ByByte /\ do \in Unread /\ do # "number"
    BY <2>2 DEF Unread
  <2>4. p = Plan({}, do, 0)
    BY <2>1, <2>2
  <2>5. QED
    BY <1>6, <2>3, <2>4, PlainPlan DEF TypedRead
<1>7. QED
  BY <1>1, <1>2, <1>3, <1>4, <1>5, <1>6 DEF Encodings

\* An entry that the walker has made.
EntryOK(e) == e.ty \in TypeId /\ e.offset_bits \in Nat /\ e.bit_len = bit_len(Types[e.ty])

\* The entry of a frame of the walk is one the walker has made.
LEMMA FrameEntry ==
  ASSUME NEW f \in Frames
  PROVE  EntryOK(Entry(f))
BY DEF Frames, Entry, EntryOK

\* A pointer entry has a whole number of bytes.
LEMMA PointerEntry ==
  ASSUME NEW e, EntryOK(e), Types[e.ty].shape = "pointer"
  PROVE  byte_len(e) \in Nat
<1>1. Bytes(Types[e.ty].byte_size) \in Nat
  BY ByteSize DEF EntryOK
<1>2. e.bit_len = Bytes(Types[e.ty].byte_size) % U32
  BY DEF EntryOK, bit_len
<1>3. e.bit_len \in Nat /\ BITS_PER_BYTE \in Nat \ {0}
  <2>1. U32 \in Nat \ {0} /\ BITS_PER_BYTE \in Nat \ {0}
    BY WalkAssumption
  <2>2. PICK n \in Nat : n = Bytes(Types[e.ty].byte_size)
    BY <1>1
  <2>3. n % U32 \in 0 .. U32 - 1
    BY <2>1, <2>2, DivMod
  <2>4. QED
    BY <1>2, <2>1, <2>2, <2>3
<1>4. e.bit_len + BITS_PER_BYTE - 1 \in Nat
  BY <1>3
<1>5. QED
  BY <1>3, <1>4, DivMod DEF byte_len

\* The byte an entry starts in.
ByteOfEntry(e, base) == base + e.offset_bits \div BITS_PER_BYTE

\* read_entry_value reads an entry where it starts, as many bits as it has.
EntryRead(p, e, base) ==
  /\ PlanShape(p) /\ p.at \subseteq {ByteOfEntry(e, base)} /\ p.data = <<>>
  /\ p.do \in Unread \cup {"text"}
  /\ Types[e.ty].shape = "pointer" => p.do \in Unread
  /\ p.do = "number" =>
       p.offset = e.offset_bits % BITS_PER_BYTE /\ p.len = Width("entry", e, e.ty)

\* The byte an entry begins in, and the bit in that byte, are numbers.
LEMMA EntryByte ==
  ASSUME NEW e, EntryOK(e), NEW base \in Nat
  PROVE  ByteOfEntry(e, base) \in Nat /\ e.offset_bits % BITS_PER_BYTE \in Nat
<1>1. e.offset_bits \in Nat /\ BITS_PER_BYTE \in Nat \ {0}
  BY WalkAssumption DEF EntryOK
<1>2. e.offset_bits \div BITS_PER_BYTE \in Nat /\ e.offset_bits % BITS_PER_BYTE \in 0 .. BITS_PER_BYTE - 1
  BY <1>1, DivMod
<1>3. QED
  BY <1>1, <1>2 DEF ByteOfEntry

\* EntryPlan, the match of read_value on an entry (read.rs), plans for every
\* readable entry a read that starts at the byte of the entry and fits its kind.
LEMMA EntryPlanned ==
  ASSUME NEW e, EntryOK(e), Readable(e), NEW base \in Nat
  PROVE  /\ EntryRead(EntryPlan(e, base), e, base)
         /\ ByteOfEntry(e, base) \in Nat /\ e.offset_bits % BITS_PER_BYTE \in Nat
<1> DEFINE t == Types[e.ty]
           bit == e.offset_bits % BITS_PER_BYTE
<1>0. PICK p : p = EntryPlan(e, base)
  OBVIOUS
<1>1. e.ty \in TypeId /\ e.offset_bits \in Nat /\ BITS_PER_BYTE \in Nat \ {0}
  BY WalkAssumption DEF EntryOK
<1>2. bit \in Nat /\ ByteOfEntry(e, base) \in Nat
  BY EntryByte
<1>3. CASE t.shape # "bitfield"
  <2>1. bit = 0
    BY <1>3 DEF Readable
  <2>2. p = TypePlan(e.ty, EntryAddress(e, base), {byte_len(e)})
    BY <1>0, <1>3 DEF EntryPlan
  <2>3. EntryAddress(e, base) = ByteOfEntry(e, base)
    BY <1>1, <1>3 DEF EntryAddress, ByteOfEntry
  <2>4. TypedRead(p, e.ty, ByteOfEntry(e, base), {byte_len(e)})
    BY <1>1, <2>2, <2>3, TypedPlan, PointerEntry
  <2>5. QED
    BY <1>0, <1>2, <1>3, <2>1, <2>4 DEF EntryRead, TypedRead, Width
<1>4. CASE t.shape = "bitfield" /\ (p = Plan({}, "refuse", 0) \/ p = Plan({}, "constant", 0))
  <2>1. {"refuse", "constant"} \subseteq Unread /\ {"refuse", "constant"} \subseteq Unread \cup Pieces \cup ByByte
    BY DEF Unread
  <2>2. QED
    BY <1>0, <1>2, <1>4, <2>1, PlainPlan DEF EntryRead
<1>5. CASE t.shape = "bitfield" /\ p = FieldPlan(e, base) /\ BitEnd(t.spec) # 0
  <2>1. BitEnd(t.spec) \in 1 .. BITS /\ bit \in 0 .. BITS_PER_BYTE - 1
    <3>1. BitEnd(t.spec) \in 0 .. BITS
      BY <1>1, <1>5, WalkAssumption DEF TypeId, IsType
    <3>2. bit \in 0 .. BITS_PER_BYTE - 1
      BY <1>1, DivMod
    <3>3. QED
      BY <1>5, <3>1, <3>2, WalkAssumption
  <2>2. p = [Plan({ByteOfEntry(e, base)}, "number", BitEnd(t.spec)) EXCEPT !.offset = bit]
    BY <1>5 DEF FieldPlan, ByteOfEntry
  <2>3. p = [at |-> {ByteOfEntry(e, base)}, do |-> "number", offset |-> bit,
             len |-> BitEnd(t.spec), data |-> <<>>]
    BY <2>2 DEF Plan
  <2>4. <<>> \in Seq(Byte) /\ "number" \in Unread
    BY DEF Unread
  <2>5. Width("entry", e, e.ty) = BitEnd(t.spec)
    BY <1>5 DEF Width
  <2> HIDE DEF bit, t
  <2>6. PlanShape(p)
    BY <1>2, <2>1, <2>3, <2>4 DEF PlanShape
  <2>7. QED
    BY <1>0, <1>2, <1>5, <2>3, <2>4, <2>5, <2>6 DEF EntryRead, t, bit
<1>6. t.shape = "bitfield" =>
        \/ p = Plan({}, "refuse", 0) \/ p = Plan({}, "constant", 0)
        \/ p = FieldPlan(e, base) /\ BitEnd(t.spec) # 0
  BY <1>0 DEF EntryPlan
<1>7. QED
  BY <1>3, <1>4, <1>5, <1>6

\* write_bytes of a cursor, to an entry it has read.
LEMMA WritePlanned ==
  ASSUME NEW e, EntryOK(e), NEW base \in Nat, NEW data \in Seq(Byte)
  PROVE  LET p == WritePlan(e, base, data)
         IN  /\ PlanShape(p) /\ p.at \subseteq {ByteOfEntry(e, base)} /\ p.do \in {"refuse", "store"}
             /\ p.do = "store" => p.len = Len(p.data)
             /\ ByteOfEntry(e, base) \in Nat
<1>1. ByteOfEntry(e, base) \in Nat
  BY EntryByte
<1>2. CASE Len(data) # byte_len(e)
  <2>1. "refuse" \in Unread \cup Pieces \cup ByByte
    BY DEF Unread
  <2>2. WritePlan(e, base, data) = Plan({}, "refuse", 0)
    BY <1>2 DEF WritePlan
  <2>3. QED
    BY <1>1, <2>1, <2>2, PlainPlan
<1>3. CASE Len(data) = byte_len(e)
  <2>1. WritePlan(e, base, data) =
          [at |-> {ByteOfEntry(e, base)}, do |-> "store", offset |-> 0, len |-> Len(data), data |-> data]
    BY <1>3 DEF WritePlan, ByteOfEntry, Plan
  <2>2. "store" \in Pieces /\ Len(data) \in Nat
    BY DEF Pieces
  <2>3. QED
    BY <1>1, <2>1, <2>2 DEF PlanShape
<1>4. QED
  BY <1>2, <1>3

\* The size of a type.
LEMMA SizeNat ==
  ASSUME NEW id \in TypeId, NEW size \in type_size(id)
  PROVE  size \in Nat
<1> DEFINE t == Types[id]
<1>1. IsType(id, t)
  BY WalkAssumption DEF TypeId
<1>2. CASE t.shape \in {"scalar", "enum", "fixed", "pointer", "opaque"}
  BY <1>2, ByteSize DEF type_size
<1>3. CASE t.shape = "aggregate"
  BY <1>1, <1>3 DEF type_size, IsType
<1>4. CASE t.shape = "sequence"
  <2>1. t.count \subseteq Nat /\ t.stride_bytes \in Nat
    BY <1>1, <1>4 DEF IsType
  <2>2. PICK n \in t.count : size = n * t.stride_bytes
    BY <1>4 DEF type_size
  <2> HIDE DEF t
  <2>3. QED
    BY <2>1, <2>2
<1>5. CASE ~(t.shape \in {"scalar", "enum", "fixed", "pointer", "opaque", "aggregate", "sequence"})
  BY <1>5 DEF type_size
<1>6. QED
  BY <1>2, <1>3, <1>4, <1>5

\* What a call on a symbol is prepared with.
LEMMA Prepared ==
  ASSUME NEW n \in Symbols, NEW p \in prepare(n)
  PROVE  /\ p.address \in Nat /\ p.size \in Nat
         /\ p.ty \subseteq TypeId /\ \A id \in p.ty : p.ty = {id}
<1> DEFINE symbol == Table.records[n]
           address == IF symbol.runtime_addr # {} THEN symbol.runtime_addr ELSE symbol.file_addr
           size == IF symbol.size # {} THEN symbol.size ELSE UNION {type_size(id) : id \in symbol.type_id}
<1>1. /\ symbol.type_id \subseteq TypeId /\ \A i, j \in symbol.type_id : i = j
      /\ symbol.runtime_addr \cup symbol.file_addr \cup symbol.size \subseteq Nat
  BY SymbolAssumption
<1>2. PICK a \in address, z \in size : p = [ty |-> symbol.type_id, address |-> a, size |-> z]
  BY DEF prepare
<1> HIDE DEF symbol
<1>3. a \in Nat
  BY <1>1, <1>2
<1>4. z \in Nat
  <2>1. CASE symbol.size # {}
    BY <1>1, <1>2, <2>1
  <2>2. CASE symbol.size = {}
    <3>1. PICK id \in symbol.type_id : z \in type_size(id)
      BY <1>2, <2>2
    <3>2. QED
      BY <1>1, <3>1, SizeNat
  <2>3. QED
    BY <2>1, <2>2
<1>5. p.ty = symbol.type_id /\ p.address = a /\ p.size = z
  BY <1>2
<1>6. QED
  BY <1>1, <1>3, <1>4, <1>5

-----------------------------------------------------------------------------
\* Sequences of anything.

\* The elements do not matter.
IsSequence(s) == \E S : s \in Seq(S)

\* A sequence over some set has a length and is a function on 1 .. Len.
LEMMA SequenceLength ==
  ASSUME NEW s, IsSequence(s)
  PROVE  Len(s) \in Nat /\ DOMAIN s = 1 .. Len(s)
BY LenProperties DEF IsSequence

\* A sequence over a set is one over a larger set.
LEMMA WiderSeq ==
  ASSUME NEW S, NEW T, S \subseteq T, NEW s \in Seq(S)
  PROVE  s \in Seq(T)
<1>1. s \in [1 .. Len(s) -> S] /\ Len(s) \in Nat
  BY LenProperties
<1>2. s \in [1 .. Len(s) -> T]
  BY <1>1
<1>3. QED
  BY <1>1, <1>2

\* What \o does to two sequences over some sets.
LEMMA Joined ==
  ASSUME NEW s, IsSequence(s), NEW t, IsSequence(t)
  PROVE  /\ IsSequence(s \o t)
         /\ Len(s \o t) = Len(s) + Len(t)
         /\ \A i \in 1 .. Len(s) : (s \o t)[i] = s[i]
         /\ \A i \in 1 .. Len(t) : (s \o t)[Len(s) + i] = t[i]
<1>1. PICK S, T : s \in Seq(S) /\ t \in Seq(T)
  BY DEF IsSequence
<1>2. s \in Seq(S \cup T) /\ t \in Seq(S \cup T)
  BY <1>1, WiderSeq
<1>3. s \o t \in Seq(S \cup T)
  BY <1>2, ConcatProperties
<1>4. QED
  BY <1>2, <1>3, ConcatProperties, LenProperties DEF IsSequence

\* What Append does to a sequence over some set.
LEMMA Appended ==
  ASSUME NEW s, IsSequence(s), NEW x
  PROVE  /\ IsSequence(Append(s, x))
         /\ Len(Append(s, x)) = Len(s) + 1
         /\ \A i \in 1 .. Len(s) : Append(s, x)[i] = s[i]
         /\ Append(s, x)[Len(s) + 1] = x
<1>1. PICK S : s \in Seq(S)
  BY DEF IsSequence
<1>2. s \in Seq(S \cup {x}) /\ x \in S \cup {x}
  BY <1>1, WiderSeq
<1>3. QED
  BY <1>2, AppendProperties, LenProperties DEF IsSequence

-----------------------------------------------------------------------------
\* The call under way.

\* The fields Job gives a call.
JobFields ==
  {"call", "handle", "plan", "about", "address", "bit", "state", "where", "done", "outcome", "value"}

\* A call runs or has returned, and nothing was called after it.
Called == job.state # "walks" /\ job # NoJob

\* What does not change while a call runs, but for the jump: it reads as many
\* bits as its type has from its place on.
CallShape ==
  /\ DOMAIN job = JobFields /\ job.state \in {"runs", "idle"}
  /\ job.handle \in {Own, Tool} /\ job.address \in Int /\ job.bit \in Nat
  /\ PlanShape(job.plan) /\ job.plan.at \subseteq {job.address}
  /\ job.plan.do = "number" =>
       job.plan.offset = job.bit /\ job.plan.len = ValueBits(JobType)
  /\ job.call = "entry" =>
       EntryOK(job.about) /\ (Types[job.about.ty].shape = "pointer" => job.plan.do \in Unread)
  /\ job.call = "value" => job.about.size \in Nat /\ job.about.address = job.address
  /\ job.plan.do = "store" => job.handle = Own /\ job.plan.len = Len(job.plan.data)
  /\ job.plan.do \in ByByte => job.handle = Tool

\* Streams are read with a handle that has seen no byte that others wrote since.
FreshTool == job.handle = Tool => foreign[Tool] \subseteq torn

\* How many bytes it has moved: a write only leading ones of its data.
CallDone ==
  /\ IsSequence(job.done)
  /\ job.plan.at # {} \/ job.plan.do \in Unread => job.done = <<>>
  /\ job.plan.do \in Pieces => Len(job.done) <= job.plan.len
  /\ job.plan.do = "store" => job.done = SubSeq(job.plan.data, 1, Len(job.done))
  /\ Returned(Pieces) => Len(job.done) = job.plan.len

\* The handle stands behind the bytes that have been moved.
Behind(w) ==
  /\ Positioned(job.handle) /\ DeviceOf(job.handle) = w.device
  /\ device_offset(job.handle) = w.byte + Len(job.done)

\* Every byte it has moved is still in the device, unless others wrote it since.
Kept(w) ==
  \A i \in 1 .. Len(job.done) :
    \/ memory[w.device][w.byte + i - 1] = job.done[i]
    \/ <<w.device, w.byte + i - 1>> \in torn

\* Where it stands.
CallPlace ==
  job.plan.at = {} => \A w \in job.where :
    /\ w.device \in Device /\ w.byte \in Nat
    /\ job.plan.do # "number" \/ job.state = "runs" => Behind(w)
    /\ Kept(w)

CallOK == Called => CallShape /\ FreshTool /\ CallDone /\ CallPlace

\* A cursor has read pointers as numbers.
CursorOK ==
  \A c \in cursor :
    /\ DOMAIN c = {"base", "given"} /\ c.base \in Nat
    /\ \A g \in c.given : EntryOK(g.entry) /\ (Types[g.entry.ty].shape = "pointer" => g.value \in Int)

\* The inductive invariant of a SymbolHandle.
AccessInv == BusInv /\ CursorOK /\ CallOK

\* A call that has just begun.
LEMMA CallBegins ==
  ASSUME NEW call, NEW h \in {Own, Tool}, NEW plan, NEW about, NEW a \in Int, NEW bit \in Nat,
         job' = Job(call, h, plan, about, a, bit),
         PlanShape(plan), plan.at \subseteq {a},
         plan.do = "number" => plan.offset = bit /\ plan.len = Width(call, about, TypeRead(call, about)),
         call = "entry" =>
           EntryOK(about) /\ (Types[about.ty].shape = "pointer" => plan.do \in Unread),
         call = "value" => about.size \in Nat /\ about.address = a,
         plan.do = "store" => h = Own /\ plan.len = Len(plan.data),
         plan.do \in ByByte => h = Tool,
         h = Tool => foreign'[Tool] \subseteq torn'
  PROVE  CallOK'
<1>1. /\ DOMAIN job' = JobFields /\ job'.state = "runs" /\ job'.handle = h /\ job'.address = a
      /\ job'.bit = bit /\ job'.plan = plan /\ job'.call = call /\ job'.about = about
      /\ job'.where = {} /\ job'.done = <<>>
  BY DEF Job, JobFields
<1>2. JobType' = TypeRead(call, about) /\ ValueBits(JobType)' = Width(call, about, TypeRead(call, about))
  BY <1>1 DEF JobType, TypeRead, ValueBits, Width
<1>3. CallShape'
  BY <1>1, <1>2 DEF CallShape
<1>4. FreshTool' /\ CallPlace'
  BY <1>1 DEF FreshTool, CallPlace
<1>5. CallDone'
  <2>1. IsSequence(<<>>) /\ Len(<<>>) = 0
    <3>1. <<>> \in Seq({})
      OBVIOUS
    <3>2. QED
      BY <3>1 DEF IsSequence
  <2>2. plan.do \in Pieces => 0 <= plan.len
    BY DEF PlanShape
  <2>3. plan.do = "store" => <<>> = SubSeq(plan.data, 1, 0)
    BY DEF PlanShape
  <2>4. ~Returned(Pieces)'
    BY <1>1 DEF Returned
  <2>5. QED
    BY <1>1, <2>1, <2>2, <2>3, <2>4 DEF CallDone
<1>6. QED
  BY <1>3, <1>4, <1>5 DEF CallOK

\* No call is under way once a cursor is made, moved on or dropped.
LEMMA NoCall == job' = NoJob \/ job'.state = "walks" => CallOK'
BY DEF CallOK, Called, NoJob

\* Every call starts with a fresh handle for streams.
LEMMA BeginFresh ==
  ASSUME BusInv, NEW newJob, Begin(newJob)
  PROVE  job' = newJob /\ BusInv' /\ foreign'[Tool] \subseteq torn'
<1>1. DOMAIN foreign = Handle /\ Tool \in Handle
  BY SymbolAssumption DEF BusInv, DataInv
<1>2. QED
  BY <1>1, BeginBus DEF Begin

\* A cursor that is left alone.
LEMMA SameCursor == CursorOK /\ cursor' = cursor => CursorOK'
BY DEF CursorOK, EntryOK

\* read_value of a symbol.
LEMMA ReadValueBegins ==
  ASSUME AccessInv, NEW n \in Symbols, ReadValue(n)
  PROVE  AccessInv'
<1>1. PICK p \in prepare(n) :
        \/ \E id \in p.ty : Begin(Job("value", Own, TypePlan(id, p.address, {p.size}), p, p.address, 0))
        \/ p.ty = {} /\ Begin(Job("value", Own, Plan({}, "nothing", 0), p, p.address, 0))
  BY DEF ReadValue
<1>2. /\ p.address \in Nat /\ p.size \in Nat /\ p.ty \subseteq TypeId
      /\ \A id \in p.ty : p.ty = {id}
  BY Prepared
<1>3. ASSUME NEW id \in p.ty,
             Begin(Job("value", Own, TypePlan(id, p.address, {p.size}), p, p.address, 0))
      PROVE  BusInv' /\ CallOK'
  <2> DEFINE plan == TypePlan(id, p.address, {p.size})
  <2>1. TypedRead(plan, id, p.address, {p.size})
    BY <1>2, TypedPlan
  <2>2. TypeRead("value", p) = id
    BY <1>2 DEF TypeRead
  <2>3. plan.do = "number" => plan.offset = 0 /\ plan.len = Width("value", p, TypeRead("value", p))
    BY <2>1, <2>2 DEF TypedRead, Width
  <2>4. BusInv' /\ job' = Job("value", Own, plan, p, p.address, 0) /\ foreign'[Tool] \subseteq torn'
    BY <1>3, BeginFresh DEF AccessInv
  <2>5. PlanShape(plan) /\ plan.at \subseteq {p.address} /\ plan.do \in Unread \cup {"text"}
    BY <2>1 DEF TypedRead
  <2>6. plan.do # "store" /\ plan.do \notin ByByte
    BY <2>5 DEF Unread, ByByte, LEB
  <2>8. p.address \in Int /\ 0 \in Nat /\ Own \in {Own, Tool}
    BY <1>2
  <2> HIDE DEF plan
  <2>7. QED
    BY <1>2, <2>3, <2>4, <2>5, <2>6, <2>8, CallBegins
<1>4. ASSUME Begin(Job("value", Own, Plan({}, "nothing", 0), p, p.address, 0))
      PROVE  BusInv' /\ CallOK'
  <2> DEFINE plan == Plan({}, "nothing", 0)
  <2>1. "nothing" \in Unread
    BY DEF Unread
  <2>2. PlanShape(plan) /\ plan.at = {} /\ plan.do = "nothing"
    BY <2>1, PlainPlan
  <2>3. plan.do # "store" /\ plan.do \notin ByByte /\ plan.do # "number"
    BY <2>2 DEF ByByte, LEB
  <2>4. BusInv' /\ job' = Job("value", Own, plan, p, p.address, 0) /\ foreign'[Tool] \subseteq torn'
    BY <1>4, BeginFresh DEF AccessInv
  <2>5. p.address \in Int /\ 0 \in Nat /\ Own \in {Own, Tool} /\ plan.at \subseteq {p.address}
    BY <1>2, <2>2
  <2> HIDE DEF plan
  <2>6. QED
    BY <1>2, <2>2, <2>3, <2>4, <2>5, CallBegins
<1>5. CursorOK'
  BY SameCursor DEF AccessInv, ReadValue
<1>6. QED
  BY <1>1, <1>3, <1>4, <1>5 DEF AccessInv

\* read_raw_bytes of a symbol.
LEMMA ReadRawBegins ==
  ASSUME AccessInv, NEW n \in Symbols, ReadRawBytes(n)
  PROVE  AccessInv'
<1>1. PICK p \in prepare(n) : Begin(Job("raw", Own, ReadBytesPlan(p), p, p.address, 0))
  BY DEF ReadRawBytes
<1>2. p.address \in Nat /\ p.size \in Nat
  BY Prepared
<1> DEFINE plan == ReadBytesPlan(p)
<1>3. "bytes" \in Pieces /\ "bytes" \notin ByByte
  BY DEF Pieces, ByByte, LEB
<1>4. PlanShape(plan) /\ plan.at = {p.address} /\ plan.do = "bytes"
  BY <1>2, <1>3, PlainPlan DEF ReadBytesPlan
<1>5. BusInv' /\ job' = Job("raw", Own, plan, p, p.address, 0) /\ foreign'[Tool] \subseteq torn'
  BY <1>1, BeginFresh DEF AccessInv
<1>6. p.address \in Int /\ 0 \in Nat /\ Own \in {Own, Tool} /\ plan.at \subseteq {p.address}
  BY <1>2, <1>4
<1> HIDE DEF plan
<1>7. CallOK'
  BY <1>2, <1>3, <1>4, <1>5, <1>6, CallBegins
<1>8. CursorOK'
  BY SameCursor DEF AccessInv, ReadRawBytes
<1>9. QED
  BY <1>5, <1>7, <1>8 DEF AccessInv

\* deref of a pointer that a cursor has read.
LEMMA DerefBegins ==
  ASSUME AccessInv, Deref
  PROVE  AccessInv'
<1>0. PICK c \in cursor : \E g \in c.given :
        /\ Types[g.entry.ty].shape = "pointer"
        /\ LET target == Types[g.entry.ty].target
           IN  Begin(Job("deref", Own, TypePlan(target, g.value, {}), [ty |-> {target}], g.value, 0))
  BY DEF Deref
<1>1. PICK g \in c.given :
        /\ Types[g.entry.ty].shape = "pointer"
        /\ LET target == Types[g.entry.ty].target
           IN  Begin(Job("deref", Own, TypePlan(target, g.value, {}), [ty |-> {target}], g.value, 0))
  BY <1>0
<1>2. g.entry.ty \in TypeId /\ g.value \in Int
  BY <1>1 DEF AccessInv, CursorOK, EntryOK
<1>3. PICK target, a : target = Types[g.entry.ty].target /\ a = g.value
  OBVIOUS
<1>4. target \in TypeId /\ a \in Int
  BY <1>1, <1>2, <1>3, ByteSize
<1>5. PICK plan, about : plan = TypePlan(target, a, {}) /\ about = [ty |-> {target}]
  OBVIOUS
<1>6. TypedRead(plan, target, a, {})
  BY <1>4, <1>5, TypedPlan
<1>7. TypeRead("deref", about) = target
  BY <1>5 DEF TypeRead
<1>8. plan.do = "number" => plan.offset = 0 /\ plan.len = Width("deref", about, TypeRead("deref", about))
  BY <1>4, <1>6, <1>7, PointerWidth DEF TypedRead, Width
<1>9. PlanShape(plan) /\ plan.at \subseteq {a} /\ plan.do \in Unread \cup {"text"}
  BY <1>6 DEF TypedRead
<1>10. plan.do # "store" /\ plan.do \notin ByByte
  BY <1>9 DEF Unread, ByByte, LEB
<1>11. BusInv' /\ job' = Job("deref", Own, plan, about, a, 0) /\ foreign'[Tool] \subseteq torn'
  BY <1>1, <1>3, <1>5, BeginFresh DEF AccessInv
<1>12. 0 \in Nat /\ Own \in {Own, Tool} /\ "deref" \notin {"entry", "value"}
  OBVIOUS
<1>13. CallOK'
  BY <1>4, <1>8, <1>9, <1>10, <1>11, <1>12, CallBegins
<1>14. CursorOK'
  BY SameCursor DEF AccessInv, Deref
<1>15. QED
  BY <1>11, <1>13, <1>14 DEF AccessInv

\* write_bytes through a cursor.
LEMMA WriteBegins ==
  ASSUME AccessInv, NEW data \in Payloads, WriteEntry(data)
  PROVE  AccessInv'
<1>0. PICK c \in cursor : \E g \in c.given :
        Begin(Job("write", Own, WritePlan(g.entry, c.base, data), g.entry,
                  c.base + g.entry.offset_bits \div BITS_PER_BYTE, 0))
  BY DEF WriteEntry
<1>1. PICK g \in c.given :
        Begin(Job("write", Own, WritePlan(g.entry, c.base, data), g.entry,
                  c.base + g.entry.offset_bits \div BITS_PER_BYTE, 0))
  BY <1>0
<1>2. EntryOK(g.entry) /\ c.base \in Nat
  BY DEF AccessInv, CursorOK
<1>3. data \in Seq(Byte)
  BY SymbolAssumption
<1> DEFINE plan == WritePlan(g.entry, c.base, data)
           a == ByteOfEntry(g.entry, c.base)
<1>4. /\ PlanShape(plan) /\ plan.at \subseteq {a} /\ plan.do \in {"refuse", "store"}
      /\ plan.do = "store" => plan.len = Len(plan.data)
      /\ a \in Nat
  BY <1>2, <1>3, WritePlanned
<1>5. plan.do # "number" /\ plan.do \notin ByByte
  BY <1>4 DEF ByByte, LEB
<1>6. BusInv' /\ job' = Job("write", Own, plan, g.entry, a, 0) /\ foreign'[Tool] \subseteq torn'
  BY <1>1, BeginFresh DEF AccessInv, ByteOfEntry
<1>7. a \in Int /\ 0 \in Nat /\ Own \in {Own, Tool}
  BY <1>4
<1> HIDE DEF plan, a
<1>8. CallOK'
  BY <1>4, <1>5, <1>6, <1>7, CallBegins
<1>9. CursorOK'
  BY SameCursor DEF AccessInv, WriteEntry
<1>10. QED
  BY <1>6, <1>8, <1>9 DEF AccessInv

\* A stream of bytes.
LEMMA StreamBegins ==
  ASSUME AccessInv, NEW s \in Streams, ReadStream(s)
  PROVE  AccessInv'
<1>1. Begin(Job("stream", Tool, Plan({s.at}, s.do, s.len), s, s.at, 0))
  BY DEF ReadStream
<1>2. s.at \in Nat /\ s.len \in Nat /\ s.do \in {"bytes", "text", "c_string", "uleb", "sleb"}
  BY SymbolAssumption
<1>3. s.do \in Unread \cup Pieces \cup ByByte /\ s.do # "number" /\ s.do # "store"
  BY <1>2 DEF Pieces, ByByte, LEB
<1> DEFINE plan == Plan({s.at}, s.do, s.len)
<1>4. PlanShape(plan) /\ plan.at = {s.at} /\ plan.do = s.do
  BY <1>2, <1>3, PlainPlan
<1>5. BusInv' /\ job' = Job("stream", Tool, plan, s, s.at, 0) /\ foreign'[Tool] \subseteq torn'
  BY <1>1, BeginFresh DEF AccessInv
<1>6. s.at \in Int /\ 0 \in Nat /\ Tool \in {Own, Tool} /\ plan.at \subseteq {s.at}
  BY <1>2, <1>4
<1> HIDE DEF plan
<1>7. CallOK'
  BY <1>2, <1>3, <1>4, <1>5, <1>6, CallBegins
<1>8. CursorOK'
  BY SameCursor DEF AccessInv, ReadStream
<1>9. QED
  BY <1>5, <1>7, <1>8 DEF AccessInv

\* The calls of a SymbolHandle and its cursor.
LEMMA CallStarts ==
  ASSUME AccessInv, SymbolCall
  PROVE  AccessInv'
<1>1. ASSUME NEW n \in Symbols, ValueCursor(n)
      PROVE  AccessInv'
  <2>1. PICK p \in prepare(n) : cursor' = {[base |-> p.address, given |-> {}]}
    BY <1>1 DEF ValueCursor
  <2>2. p.address \in Nat
    BY Prepared
  <2>3. CursorOK'
    BY <2>1, <2>2 DEF CursorOK
  <2>4. BusInv' /\ job' = NoJob
    BY <1>1, BeginFresh DEF ValueCursor, AccessInv
  <2>5. QED
    BY <2>3, <2>4, NoCall DEF AccessInv
<1>2. ASSUME DropCursor
      PROVE  AccessInv'
  <2>1. BusInv' /\ job' = NoJob
    BY <1>2, BeginFresh DEF DropCursor, AccessInv
  <2>2. CursorOK'
    BY <1>2 DEF DropCursor, CursorOK
  <2>3. QED
    BY <2>1, <2>2, NoCall DEF AccessInv
<1>3. ASSUME TryNext
      PROVE  AccessInv'
  <2>1. BusInv' /\ job' = [NoJob EXCEPT !.state = "walks"]
    BY <1>3, BeginFresh DEF TryNext, AccessInv
  <2>2. job'.state = "walks"
    BY <2>1 DEF NoJob
  <2>3. QED
    BY <1>3, <2>1, <2>2, NoCall, SameCursor DEF AccessInv, TryNext
<1>4. QED
  BY <1>1, <1>2, <1>3, ReadValueBegins, ReadRawBegins, DerefBegins, WriteBegins, StreamBegins DEF SymbolCall

\* What a step of a call leaves of it.
SameCall ==
  /\ DOMAIN job' = DOMAIN job
  /\ job'.call = job.call /\ job'.handle = job.handle /\ job'.plan = job.plan
  /\ job'.about = job.about /\ job'.address = job.address /\ job'.bit = job.bit
  /\ job'.where = job.where

\* A call that keeps its plan and its place keeps its shape.
LEMMA ShapeStays ==
  ASSUME CallShape, SameCall, job'.state \in {"runs", "idle"}
  PROVE  CallShape'
<1>1. JobType' = JobType /\ \A id : ValueBits(id)' = ValueBits(id)
  BY DEF SameCall, JobType, ValueBits
<1>2. QED
  BY <1>1 DEF SameCall, CallShape, PlanShape, EntryOK

\* Return and GoOn change the outcome and the bytes of a call, and nothing else.
LEMMA ReturnChanges ==
  ASSUME CallShape, NEW outcome, NEW value, Return(outcome, value)
  PROVE  /\ SameCall /\ job'.state = "idle" /\ job'.outcome = outcome /\ job'.value = value
         /\ job'.done = job.done
<1>1. job' = [job EXCEPT !.state = "idle", !.outcome = outcome, !.value = value] /\ DOMAIN job = JobFields
  BY DEF Return, CallShape
<1>2. QED
  BY <1>1 DEF SameCall, JobFields

\* GoOn changes the bytes read so far, and nothing else.
LEMMA GoOnChanges ==
  ASSUME CallShape, NEW done, GoOn(done)
  PROVE  /\ SameCall /\ job'.state = job.state /\ job'.outcome = job.outcome /\ job'.done = done
<1>1. job' = [job EXCEPT !.done = done] /\ DOMAIN job = JobFields
  BY DEF GoOn, CallShape
<1>2. QED
  BY <1>1 DEF SameCall, JobFields

\* A call that runs is under way.
LEMMA RunsCalled ==
  ASSUME AccessInv, job.state = "runs"
  PROVE  Called /\ CallShape /\ FreshTool /\ CallDone /\ CallPlace /\ job.handle \in Handle
<1>1. Called
  BY DEF Called, NoJob
<1>2. CallShape /\ FreshTool /\ CallDone /\ CallPlace
  BY <1>1 DEF AccessInv, CallOK
<1>3. QED
  BY <1>1, <1>2, SymbolAssumption DEF CallShape

\* A handle nobody moved stands where it stood.
LEMMA StandsStill ==
  ASSUME NEW h \in Handle, active'[h] = active[h]
  PROVE  /\ Positioned(h)' <=> Positioned(h)
         /\ DeviceOf(h)' = DeviceOf(h) /\ device_offset(h)' = device_offset(h)
BY DEF Positioned, DeviceOf, device_offset, At

\* A transaction moves its handle by as many bytes as it had, on its device.
LEMMA StandsBehind ==
  ASSUME BusInv, NEW h \in Handle, NEW n \in Nat, Available(h, n), Consume(h, n)
  PROVE  /\ Positioned(h)' /\ DeviceOf(h)' = DeviceOf(h)
         /\ device_offset(h)' = device_offset(h) + n
         /\ DeviceOf(h) \in Device /\ device_offset(h) \in Nat
         /\ device_offset(h) + n <= SizeOf[DeviceOf(h)] /\ SizeOf[DeviceOf(h)] \in Nat
<1>1. Positioned(h) /\ n <= bytes_remaining(h)
  BY DEF Available
<1>2. At(h).range \in Known /\ At(h).cursor \in Nat
  BY <1>1, PlaceOf DEF BusInv, DataInv
<1>3. active'[h] = {[range |-> At(h).range, cursor |-> At(h).cursor + n]}
  BY DEF Consume, MoveTo, BusInv, DataInv, AddressTypeOK
<1>4. Positioned(h)' /\ At(h)' = [range |-> At(h).range, cursor |-> At(h).cursor + n]
  BY <1>3 DEF Positioned, At
<1>5. QED
  BY <1>1, <1>2, <1>4, RangeFields DEF DeviceOf, device_offset, bytes_remaining, bus_address, Length

\* What a cursor is given.
LEMMA CursorGiven ==
  ASSUME CursorOK, CallShape, NEW outcome, NEW value, Return(outcome, value),
         outcome = "value" /\ job.call = "entry" /\ Types[job.about.ty].shape = "pointer" => value \in Int
  PROVE  CursorOK'
<1>1. CASE job.call = "entry" /\ outcome = "value"
  <2>1. cursor' = {[c EXCEPT !.given = {[entry |-> job.about, value |-> value]}] : c \in cursor}
    BY <1>1 DEF Return
  <2>2. EntryOK(job.about)
    BY <1>1 DEF CallShape
  <2>3. ASSUME NEW d \in cursor'
        PROVE  /\ DOMAIN d = {"base", "given"} /\ d.base \in Nat
               /\ d.given = {[entry |-> job.about, value |-> value]}
    <3>1. PICK c \in cursor : d = [c EXCEPT !.given = {[entry |-> job.about, value |-> value]}]
      BY <2>1
    <3>2. DOMAIN c = {"base", "given"} /\ c.base \in Nat
      BY DEF CursorOK
    <3>3. QED
      BY <3>1, <3>2
  <2>4. QED
    BY <1>1, <2>2, <2>3 DEF CursorOK
<1>2. CASE ~(job.call = "entry" /\ outcome = "value")
  BY <1>2, SameCursor DEF Return
<1>3. QED
  BY <1>1, <1>2

\* The bytes a call has moved are still there when it returns.
LEMMA ReturnKeeps ==
  ASSUME AccessInv, job.state = "runs", NEW outcome, NEW value, Return(outcome, value),
         BusInv', memory' = memory, torn' = torn, FreshTool',
         job.plan.do # "number" => active' = active,
         outcome = "value" /\ job.call = "entry" /\ Types[job.about.ty].shape = "pointer" => value \in Int,
         outcome = "value" /\ job.plan.do \in Pieces => Len(job.done) = job.plan.len
  PROVE  AccessInv'
<1>1. Called /\ CallShape /\ CallDone /\ CallPlace /\ job.handle \in Handle
  BY RunsCalled
<1>2. /\ SameCall /\ job'.state = "idle" /\ job'.outcome = outcome /\ job'.done = job.done
  BY <1>1, ReturnChanges
<1>3. CallShape'
  BY <1>1, <1>2, ShapeStays
<1>4. CallDone'
  BY <1>1, <1>2 DEF CallDone, SameCall, Returned
<1>5. CallPlace'
  <2> SUFFICES ASSUME job.plan.at = {}, NEW w \in job.where
               PROVE  /\ w.device \in Device /\ w.byte \in Nat
                      /\ job.plan.do # "number" => Behind(w)'
                      /\ Kept(w)'
    BY <1>2 DEF CallPlace, SameCall
  <2>1. w.device \in Device /\ w.byte \in Nat /\ Behind(w) /\ Kept(w)
    BY <1>1 DEF CallPlace
  <2>2. Kept(w)'
    BY <1>2, <2>1 DEF Kept
  <2>3. job.plan.do # "number" => Behind(w)'
    BY <1>1, <1>2, <2>1, StandsStill DEF Behind, SameCall
  <2>4. QED
    BY <2>1, <2>2, <2>3
<1>6. CursorOK'
  BY <1>1, CursorGiven DEF AccessInv
<1>7. QED
  BY <1>3, <1>4, <1>5, <1>6 DEF AccessInv, CallOK

\* A call that finds no way on fails, and nothing moves.
LEMMA FailKeeps ==
  ASSUME AccessInv, job.state = "runs", NEW outcome, NEW value, Return(outcome, value),
         UNCHANGED vars, torn' = torn,
         outcome = "value" /\ job.call = "entry" /\ Types[job.about.ty].shape = "pointer" => value \in Int,
         outcome = "value" /\ job.plan.do \in Pieces => Len(job.done) = job.plan.len
  PROVE  AccessInv'
<1>1. /\ ranges' = ranges /\ active' = active /\ memory' = memory /\ storing' = storing
      /\ foreign' = foreign
  BY DEF vars, addressVars, dataVars
<1>2. BusInv'
  BY <1>1, QuietBus DEF AccessInv, AnyStep
<1>3. job'.handle = job.handle
  BY RunsCalled, ReturnChanges DEF SameCall
<1>4. FreshTool'
  BY <1>1, <1>3, RunsCalled DEF FreshTool
<1>5. QED
  BY <1>1, <1>2, <1>4, ReturnKeeps

\* Where a jump to an address has taken the handle.
Landed(a) ==
  /\ Jump(job.handle, a)
  /\ job' = [job EXCEPT !.plan.at = {},
                        !.where = {Leads(r, job.address) : r \in Best(ranges, job.address)}]
  /\ UNCHANGED cursor

\* A jump puts the handle on the byte that its address leads to.
LEMMA JumpLands ==
  ASSUME AccessInv, JumpTo
  PROVE  AccessInv'
<1>1. job.state = "runs" /\ torn' = torn /\ UNCHANGED dataVars
  BY DEF JumpTo, InCall
<1>2. Called /\ CallShape /\ FreshTool /\ CallDone /\ CallPlace /\ job.handle \in Handle
  BY <1>1, RunsCalled
<1>3. PICK a \in job.plan.at :
       \/ Landed(a)
       \/ Best(ranges, a) = {} /\ Fail /\ UNCHANGED addressVars
  BY DEF JumpTo, Landed
<1>4. a = job.address /\ a \in Int /\ job.plan.at # {}
  BY <1>2 DEF CallShape
<1>5. CASE Fail /\ UNCHANGED addressVars
  <2>1. UNCHANGED vars
    BY <1>1, <1>5 DEF vars
  <2>2. Return("error", <<>>)
    BY <1>5 DEF Fail
  <2>3. QED
    BY <1>1, <2>1, <2>2, FailKeeps
<1>6. CASE Landed(a)
  <2> DEFINE h == job.handle
             places == {Leads(r, a) : r \in Best(ranges, a)}
  <2>1. /\ BusInv' /\ Positioned(h)'
        /\ \A r \in Best(ranges, a) :
             /\ Leads(r, a).device \in Device /\ Leads(r, a).byte \in Nat
             /\ DeviceOf(h)' = Leads(r, a).device
             /\ device_offset(h)' = Leads(r, a).byte
    BY <1>1, <1>2, <1>4, <1>6, JumpFinds DEF AccessInv, Landed
  <2>2. /\ DOMAIN job = JobFields /\ DOMAIN job.plan = {"at", "do", "offset", "len", "data"}
    BY <1>2 DEF CallShape, PlanShape
  <2>3. /\ DOMAIN job' = JobFields /\ job'.state = "runs" /\ job'.handle = h
        /\ job'.address = job.address /\ job'.bit = job.bit /\ job'.call = job.call
        /\ job'.about = job.about /\ job'.where = places /\ job'.done = job.done
        /\ job'.plan = [job.plan EXCEPT !.at = {}]
    BY <1>1, <1>4, <1>6, <2>2 DEF JobFields, Landed
  <2>4. /\ DOMAIN job'.plan = {"at", "do", "offset", "len", "data"} /\ job'.plan.at = {}
        /\ job'.plan.do = job.plan.do /\ job'.plan.offset = job.plan.offset
        /\ job'.plan.len = job.plan.len /\ job'.plan.data = job.plan.data
    BY <2>2, <2>3
  <2>5. JobType' = JobType /\ \A id : ValueBits(id)' = ValueBits(id)
    BY <2>3 DEF JobType, ValueBits
  <2>6. CallShape'
    BY <1>2, <2>3, <2>4, <2>5 DEF CallShape, PlanShape, EntryOK
  <2>7. FreshTool'
    BY <1>1, <1>2, <2>3 DEF FreshTool, dataVars
  <2>8. job.done = <<>>
    BY <1>2, <1>4 DEF CallDone
  <2>9. CallDone'
    BY <1>2, <2>3, <2>4, <2>8 DEF CallDone, Returned
  <2>10. CallPlace'
    <3> SUFFICES ASSUME NEW w \in places
                 PROVE  w.device \in Device /\ w.byte \in Nat /\ Behind(w)' /\ Kept(w)'
      BY <2>3 DEF CallPlace
    <3>1. PICK r \in Best(ranges, a) : w = Leads(r, a)
      OBVIOUS
    <3>2. /\ w.device \in Device /\ w.byte \in Nat /\ DeviceOf(h)' = w.device /\ device_offset(h)' = w.byte
      BY <2>1, <3>1
    <3>3. Len(job'.done) = 0
      BY <2>3, <2>8
    <3>4. Kept(w)'
      BY <3>3 DEF Kept
    <3>5. Behind(w)'
      BY <2>1, <2>3, <3>2, <3>3 DEF Behind
    <3>6. QED
      BY <3>2, <3>4, <3>5
  <2>11. CursorOK'
    BY <1>6, SameCursor DEF AccessInv, Landed
  <2>12. QED
    BY <2>1, <2>6, <2>7, <2>9, <2>10, <2>11 DEF AccessInv, CallOK
<1>7. QED
  BY <1>3, <1>5, <1>6

\* The bits of a number are a slice that a number holds, and so is a byte.
LEMMA NumberSlice ==
  ASSUME NEW p, PlanShape(p), p.do = "number"
  PROVE  BitRange(p.offset, p.len) \in Slice /\ FitsNumber(BitRange(p.offset, p.len))
<1>1. p.len \in 1 .. WordBits /\ p.offset \in 0 .. BYTE_BITS - 1
  BY SymbolAssumption DEF PlanShape
<1>2. WordBits \in Nat /\ BYTE_BITS \in Nat
  BY DataAssumption DEF WordBits
<1>3. BYTE_BITS <= U8 /\ U8 \in Nat /\ U16 \in Nat /\ U8 + 3 * WordBits <= U16
  BY DataAssumption DEF WordBits
<1>4. p.len \in 1 .. U16 - 1 /\ p.offset \in 0 .. U8 - 1 /\ p.len <= 2 * WordBits
  BY <1>1, <1>2, <1>3
<1>5. QED
  BY <1>4 DEF BitRange, Slice, FitsNumber

LEMMA ByteSlice == BitRange(0, BYTE_BITS) \in Slice /\ FitsNumber(BitRange(0, BYTE_BITS))
<1>1. WordBits \in Nat /\ BYTE_BITS \in Nat \ {0} /\ BYTE_BITS <= WordBits
  <2>1. BYTE_BITS \in Nat \ {0} /\ WORD_BYTES \in Nat \ {0}
    BY DataAssumption
  <2>2. QED
    <3>1. (WORD_BYTES - 1) * BYTE_BITS \in Nat
      BY <2>1
    <3>2. WORD_BYTES * BYTE_BITS = (WORD_BYTES - 1) * BYTE_BITS + BYTE_BITS
      BY <2>1
    <3>3. QED
      BY <2>1, <3>1, <3>2 DEF WordBits
<1>2. BYTE_BITS <= U8 /\ U8 \in Nat /\ U16 \in Nat /\ U8 + 3 * WordBits <= U16
  BY DataAssumption DEF WordBits
<1>3. BYTE_BITS \in 1 .. U16 - 1 /\ 0 \in 0 .. U8 - 1 /\ BYTE_BITS <= 2 * WordBits
  BY <1>1, <1>2
<1>4. QED
  BY <1>3 DEF BitRange, Slice, FitsNumber

\* A number is read where its type says, and a pointer is a number.
LEMMA NumberRead ==
  ASSUME AccessInv, ReadNumber
  PROVE  AccessInv'
<1> DEFINE s == BitRange(job.plan.offset, job.plan.len)
           h == job.handle
<1>1. job.state = "runs" /\ job.plan.at = {} /\ job.plan.do = "number" /\ torn' = torn
  BY DEF ReadNumber, Runs, InCall
<1>2. Called /\ CallShape /\ FreshTool /\ CallDone /\ CallPlace /\ h \in Handle
  BY <1>1, RunsCalled
<1>3. s \in Slice
  BY <1>1, <1>2, NumberSlice DEF CallShape
<1>4. CASE ReadBits(h, s) /\ Return("value", Typed(JobType, Number(Ones(last'.value))))
  <2>1. AnyStep /\ ranges' = ranges /\ memory' = memory /\ storing' = storing
    BY <1>2, <1>3, <1>4 DEF AnyStep, AnyCall, ReadBits, Consume
  <2>2. BusInv'
    BY <2>1, QuietBus DEF AccessInv
  <2>3. h = Tool => foreign'[Tool] \subseteq torn'
    <3>1. foreign' = [foreign EXCEPT ![h] = IF Cached(h, s) THEN @ ELSE {}] /\ DOMAIN foreign = Handle
      BY <1>4 DEF ReadBits, AccessInv, BusInv, DataInv
    <3>2. QED
      BY <1>1, <1>2, <3>1 DEF FreshTool
  <2>4. job'.handle = h
    BY <1>2, <1>4, ReturnChanges DEF SameCall
  <2>5. FreshTool'
    BY <2>3, <2>4 DEF FreshTool
  <2>6. job.call = "entry" /\ Types[job.about.ty].shape = "pointer" =>
          Typed(JobType, Number(Ones(last'.value))) \in Int
    BY NumberIsInt DEF JobType, Typed
  <2> HIDE DEF s
  <2>7. QED
    BY <1>1, <1>4, <2>1, <2>2, <2>5, <2>6, ReturnKeeps DEF Pieces
<1>5. CASE Fail /\ UNCHANGED vars
  BY <1>1, <1>5, FailKeeps DEF Fail
<1>6. QED
  BY <1>4, <1>5 DEF ReadNumber

\* A call that finds all its bytes, or needs none, settles.
LEMMA Settled ==
  ASSUME AccessInv, Settle
  PROVE  AccessInv'
<1>1. UNCHANGED vars /\ torn' = torn
  BY DEF Settle, InCall
<1>2. job.state = "runs" /\ job.plan.at = {}
  BY DEF Settle, Runs
<1>3. Called /\ CallShape /\ FreshTool /\ CallDone /\ CallPlace /\ job.handle \in Handle
  BY <1>2, RunsCalled
<1>4. ASSUME NEW outcome, NEW value, Return(outcome, value),
             outcome = "value" => /\ job.plan.do \notin Unread
                                  /\ job.plan.do \in Pieces => PieceLength = 0
      PROVE  AccessInv'
  <2>1. outcome = "value" /\ job.call = "entry" => Types[job.about.ty].shape # "pointer"
    BY <1>3, <1>4 DEF CallShape
  <2>2. outcome = "value" /\ job.plan.do \in Pieces => Len(job.done) = job.plan.len
    <3>1. Len(job.done) \in Nat /\ job.plan.len \in Nat /\ WORD_BYTES \in Nat \ {0}
      BY <1>3, SequenceLength, DataAssumption DEF CallDone, CallShape, PlanShape
    <3>2. QED
      BY <1>4, <3>1 DEF PieceLength
  <2>3. QED
    BY <1>1, <1>2, <1>4, <2>1, <2>2, FailKeeps
<1>5. CASE Runs({"bytes", "text", "store"}) /\ PieceLength = 0 /\ Return("value", ResultOfBytes)
  BY <1>4, <1>5 DEF Runs, Unread
<1>6. CASE Runs(LEB \cup {"c_string"}) /\ Return("value", ResultOfBytes)
  BY <1>4, <1>6 DEF Runs, Unread, Pieces, LEB
<1>7. CASE Runs({"constant"}) /\ Return("value", Typed(JobType, 0))
  <2>1. job.plan.do = "constant"
    BY <1>7 DEF Runs
  <2>2. job.call = "entry" /\ Types[job.about.ty].shape = "pointer" => Typed(JobType, 0) \in Int
    BY DEF JobType, Typed
  <2>3. QED
    BY <1>1, <1>2, <1>7, <2>1, <2>2, FailKeeps DEF Pieces
<1>8. CASE Fail \/ Return("nothing", <<>>)
  BY <1>4, <1>8 DEF Fail
<1>9. CASE /\ Runs({"nothing"}) /\ job.call = "value" /\ UNCHANGED cursor
           /\ job' = [job EXCEPT !.plan = ReadBytesPlan(job.about)]
  <2> DEFINE plan == ReadBytesPlan(job.about)
  <2>1. job.about.size \in Nat /\ job.about.address = job.address /\ job.plan.do = "nothing"
    BY <1>3, <1>9 DEF CallShape, Runs
  <2>2. PlanShape(plan) /\ plan.at = {job.address} /\ plan.do = "bytes" /\ plan.len = job.about.size
    <3>1. "bytes" \in Unread \cup Pieces \cup ByByte
      BY DEF Pieces
    <3>2. QED
      BY <2>1, <3>1, PlainPlan DEF ReadBytesPlan
  <2> HIDE DEF plan
  <2>3. job' = [job EXCEPT !.plan = plan]
    BY <1>9 DEF plan
  <2>4. /\ DOMAIN job' = JobFields /\ job'.state = "runs" /\ job'.handle = job.handle
        /\ job'.address = job.address /\ job'.bit = job.bit /\ job'.call = job.call
        /\ job'.about = job.about /\ job'.where = job.where /\ job'.done = job.done
        /\ job'.plan = plan
    BY <1>2, <1>3, <2>3 DEF CallShape, JobFields
  <2>5. job.done = <<>> /\ IsSequence(job.done)
    BY <1>3, <2>1 DEF CallDone, Unread
  <2>6. "bytes" \notin Unread /\ "bytes" \notin ByByte
    BY DEF Unread, ByByte, LEB
  <2>7. CallShape'
    BY <1>3, <1>9, <2>1, <2>2, <2>4, <2>6 DEF CallShape
  <2>8. FreshTool'
    BY <1>1, <1>3, <2>4 DEF FreshTool, vars, dataVars
  <2>9. CallDone'
    <3>1. Len(<<>>) = 0 /\ 0 <= plan.len
      BY <2>1, <2>2
    <3>2. QED
      BY <2>2, <2>4, <2>5, <3>1 DEF CallDone, Returned
  <2>10. CallPlace'
    BY <2>2, <2>4 DEF CallPlace
  <2>11. BusInv'
    <3>1. AnyStep /\ ranges' = ranges /\ memory' = memory /\ storing' = storing
      BY <1>1 DEF AnyStep, vars, addressVars, dataVars
    <3>2. QED
      BY <3>1, QuietBus DEF AccessInv
  <2>12. CursorOK'
    BY <1>9, SameCursor DEF AccessInv
  <2>13. QED
    BY <2>7, <2>8, <2>9, <2>10, <2>11, <2>12 DEF AccessInv, CallOK
<1>10. QED
  BY <1>5, <1>6, <1>7, <1>8, <1>9 DEF Settle

\* A function from 1 to n is a sequence of n.
LEMMA FunctionSequence ==
  ASSUME NEW n \in Nat, NEW f, f = [i \in 1 .. n |-> f[i]]
  PROVE  IsSequence(f) /\ Len(f) = n
<1> DEFINE S == {f[i] : i \in 1 .. n}
<1>1. f \in [1 .. n -> S]
  OBVIOUS
<1> HIDE DEF S
<1>2. f \in Seq(S)
  BY <1>1
<1>3. QED
  BY <1>1, <1>2 DEF IsSequence

\* A call that has moved n more bytes stands behind them.
LEMMA MovedOn ==
  ASSUME AccessInv, job.state = "runs", job.plan.at = {}, job.plan.do \notin Unread,
         NEW n \in Nat, Available(job.handle, n), Consume(job.handle, n),
         BusInv', FreshTool', torn' = torn, cursor' = cursor,
         SameCall, job'.state \in {"runs", "idle"}, ~Returned(Pieces)',
         IsSequence(job'.done), Len(job'.done) = Len(job.done) + n,
         \A i \in 1 .. Len(job.done) : job'.done[i] = job.done[i],
         job.plan.do \in Pieces => n <= job.plan.len - Len(job.done),
         job.plan.do = "store" => job'.done = SubSeq(job.plan.data, 1, Len(job'.done)),
         \A i \in 0 .. device_offset(job.handle) - 1 :
           memory'[DeviceOf(job.handle)][i] = memory[DeviceOf(job.handle)][i],
         \A i \in 1 .. n :
           LET d == DeviceOf(job.handle)
               k == device_offset(job.handle) + i - 1
           IN  memory'[d][k] = job'.done[Len(job.done) + i] \/ <<d, k>> \in torn
  PROVE  AccessInv'
<1> DEFINE len == Len(job.done)
<1>0. PICK h : h = job.handle
  OBVIOUS
<1>1. Called /\ CallShape /\ FreshTool /\ CallDone /\ CallPlace /\ h \in Handle
  BY <1>0, RunsCalled
<1>2. /\ Positioned(h)' /\ DeviceOf(h)' = DeviceOf(h)
      /\ device_offset(h)' = device_offset(h) + n
      /\ DeviceOf(h) \in Device /\ device_offset(h) \in Nat
  <2>1. BusInv /\ Available(h, n) /\ Consume(h, n) /\ h \in Handle
    BY <1>0, <1>1 DEF AccessInv
  <2>2. QED
    BY <2>1, StandsBehind
<1>3. len \in Nat
  BY <1>1, SequenceLength DEF CallDone
<1>4. CallShape'
  BY <1>1, ShapeStays
<1>5. CallDone'
  <2>1. job.plan.len \in Nat
    BY <1>1 DEF CallShape, PlanShape
  <2>2. job.plan.do \in Pieces => Len(job'.done) <= job.plan.len
    BY <1>3, <2>1
  <2>3. QED
    BY <2>2 DEF CallDone, SameCall
<1>6. CallPlace'
  <2> SUFFICES ASSUME NEW w \in job.where
               PROVE  w.device \in Device /\ w.byte \in Nat /\ Behind(w)' /\ Kept(w)'
    BY DEF CallPlace, SameCall
  <2>1. w.device \in Device /\ w.byte \in Nat /\ Behind(w) /\ Kept(w)
    BY <1>1 DEF CallPlace
  <2>2. DeviceOf(h) = w.device /\ device_offset(h) = w.byte + len
    BY <1>0, <2>1 DEF Behind
  <2>3. Behind(w)'
    BY <1>0, <1>2, <1>3, <2>1, <2>2 DEF Behind, SameCall
  <2>4. ASSUME NEW i \in 1 .. len + n
        PROVE  \/ memory'[w.device][w.byte + i - 1] = job'.done[i]
               \/ <<w.device, w.byte + i - 1>> \in torn
    <3>1. CASE i <= len
      <4>1. i \in 1 .. len /\ w.byte + i - 1 \in 0 .. device_offset(h) - 1
        BY <1>3, <2>1, <2>2, <3>1
      <4>2. memory'[w.device][w.byte + i - 1] = memory[w.device][w.byte + i - 1] /\ job'.done[i] = job.done[i]
        BY <1>0, <2>2, <4>1
      <4>3. QED
        BY <2>1, <4>1, <4>2 DEF Kept
    <3>2. CASE ~(i <= len)
      <4>1. PICK j \in 1 .. n : i = len + j
        <5>1. i - len \in 1 .. n /\ i = len + (i - len)
          BY <1>3, <3>2
        <5>2. QED
          BY <5>1
      <4>2. w.byte + i - 1 = device_offset(h) + j - 1
        BY <1>3, <2>1, <2>2, <4>1
      <4>3. QED
        BY <1>0, <2>2, <4>1, <4>2
    <3>3. QED
      BY <3>1, <3>2
  <2>5. QED
    BY <2>1, <2>3, <2>4 DEF Kept
<1>7. CursorOK'
  BY SameCursor DEF AccessInv
<1>8. QED
  BY <1>4, <1>5, <1>6, <1>7 DEF AccessInv, CallOK

\* A piece is a part of what is left.
LEMMA PieceFits ==
  ASSUME AccessInv, job.state = "runs", job.plan.do \in Pieces
  PROVE  PieceLength \in Nat /\ PieceLength <= job.plan.len - Len(job.done)
<1>1. Len(job.done) \in Nat /\ job.plan.len \in Nat /\ Len(job.done) <= job.plan.len
  BY RunsCalled, SequenceLength DEF CallDone, CallShape, PlanShape
<1>2. WORD_BYTES \in Nat \ {0}
  BY DataAssumption
<1>3. QED
  BY <1>1, <1>2 DEF PieceLength

\* The bytes of a piece are those of memory.
LEMMA PieceRead ==
  ASSUME AccessInv, ReadPiece
  PROVE  AccessInv'
<1> DEFINE h == job.handle
           n == PieceLength
           piece == [i \in 1 .. n |-> memory[DeviceOf(h)][device_offset(h) + i - 1]]
<1>1. /\ job.state = "runs" /\ job.plan.at = {} /\ job.plan.do \in {"bytes", "text"} /\ torn' = torn
  BY DEF ReadPiece, Runs, InCall
<1>2. Called /\ CallShape /\ FreshTool /\ CallDone /\ CallPlace /\ h \in Handle
  BY <1>1, RunsCalled
<1>3. job.plan.do \in Pieces /\ job.plan.do \notin Unread /\ job.plan.do # "store"
  BY <1>1 DEF Pieces, Unread
<1>4. n \in Nat /\ n <= job.plan.len - Len(job.done)
  BY <1>1, <1>3, PieceFits
<1>5. (Read(h, n) /\ GoOn(job.done \o piece)) \/ (Fail /\ UNCHANGED vars)
  BY DEF ReadPiece
<1> HIDE DEF n
<1>6. CASE Fail /\ UNCHANGED vars
  BY <1>1, <1>6, FailKeeps DEF Fail
<1>7. CASE Read(h, n) /\ GoOn(job.done \o piece)
  <2>1. /\ Available(h, n) /\ Consume(h, n) /\ ranges' = ranges /\ memory' = memory /\ storing' = storing
        /\ foreign' = [foreign EXCEPT ![h] = {}]
    BY <1>7 DEF Read, Consume
  <2>2. AnyStep
    BY <1>2, <1>4, <1>7 DEF AnyStep, AnyCall
  <2>3. BusInv'
    BY <2>1, <2>2, QuietBus DEF AccessInv
  <2>4. /\ SameCall /\ job'.state = job.state /\ job'.done = job.done \o piece /\ cursor' = cursor
    BY <1>2, <1>7, GoOnChanges DEF GoOn
  <2>5. IsSequence(piece) /\ Len(piece) = n /\ \A i \in 1 .. n :
          piece[i] = memory[DeviceOf(h)][device_offset(h) + i - 1]
    <3>1. piece = [i \in 1 .. n |-> piece[i]]
      OBVIOUS
    <3>2. IsSequence(piece) /\ Len(piece) = n
      <4> HIDE DEF piece
      <4> QED BY <1>4, <3>1, FunctionSequence
    <3>3. QED
      BY <3>2
  <2> HIDE DEF piece
  <2>6. /\ IsSequence(job'.done) /\ Len(job'.done) = Len(job.done) + n
        /\ \A i \in 1 .. Len(job.done) : job'.done[i] = job.done[i]
        /\ \A i \in 1 .. n : job'.done[Len(job.done) + i] = piece[i]
    <3>1. IsSequence(job.done)
      BY <1>2 DEF CallDone
    <3>2. PICK s, t : s = job.done /\ t = piece
      OBVIOUS
    <3>3. /\ IsSequence(s \o t) /\ Len(s \o t) = Len(s) + Len(t)
          /\ \A i \in 1 .. Len(s) : (s \o t)[i] = s[i]
          /\ \A i \in 1 .. Len(t) : (s \o t)[Len(s) + i] = t[i]
      BY <2>5, <3>1, <3>2, Joined
    <3>4. QED
      BY <2>4, <2>5, <3>2, <3>3
  <2>7. FreshTool'
    <3>1. foreign'[h] = {} /\ job'.handle = h
      BY <1>2, <2>1, <2>4 DEF SameCall, AccessInv, BusInv, DataInv
    <3>2. QED
      BY <3>1 DEF FreshTool
  <2>8. ~Returned(Pieces)'
    BY <1>1, <2>4 DEF Returned
  <2>9. job'.state \in {"runs", "idle"}
    BY <1>1, <2>4
  <2>10. \A i \in 1 .. n : memory'[DeviceOf(h)][device_offset(h) + i - 1] = job'.done[Len(job.done) + i]
    BY <2>1, <2>5, <2>6
  <2>11. QED
    BY <1>1, <1>2, <1>3, <1>4, <2>1, <2>3, <2>4, <2>6, <2>7, <2>8, <2>9, <2>10, MovedOn
<1>8. QED
  BY <1>5, <1>6, <1>7

\* The bytes of a piece become those of memory, and no byte before them changes.
LEMMA PieceWritten ==
  ASSUME AccessInv, WritePiece
  PROVE  AccessInv'
<1> DEFINE h == job.handle
           n == PieceLength
           len == Len(job.done)
           piece == NextPiece(n)
           data == [i \in 0 .. n - 1 |-> NextPiece(n)[i + 1]]
<1>1. /\ job.state = "runs" /\ job.plan.at = {} /\ job.plan.do = "store" /\ torn' = torn
  BY DEF WritePiece, Runs, InCall
<1>2. Called /\ CallShape /\ FreshTool /\ CallDone /\ CallPlace /\ h \in Handle
  BY <1>1, RunsCalled
<1>3. job.plan.do \in Pieces /\ job.plan.do \notin Unread
  BY <1>1 DEF Pieces, Unread
<1>4. n \in Nat /\ n <= job.plan.len - len
  BY <1>1, <1>3, PieceFits
<1>5. \/ Write(h, n, data) /\ GoOn(job.done \o piece) /\ n > 0
      \/ Fail /\ UNCHANGED vars
  BY DEF WritePiece
<1> HIDE DEF n
<1>6. CASE Fail /\ UNCHANGED vars
  BY <1>1, <1>6, FailKeeps DEF Fail
<1>7. CASE Write(h, n, data) /\ GoOn(job.done \o piece) /\ n > 0
  <2>1. /\ h = Own /\ job.plan.len = Len(job.plan.data) /\ job.plan.data \in Seq(Byte)
        /\ len \in Nat /\ job.plan.len \in Nat /\ len <= job.plan.len
        /\ job.done = SubSeq(job.plan.data, 1, len)
    BY <1>1, <1>2, <1>3, SequenceLength DEF CallShape, PlanShape, CallDone
  <2>2. PICK bytes : bytes = job.plan.data
    OBVIOUS
  <2>3. piece = SubSeq(bytes, len + 1, len + n)
    BY <2>2 DEF NextPiece
  <2>4. /\ piece \in Seq(Byte) /\ Len(piece) = n /\ \A i \in 1 .. n : piece[i] = bytes[len + i]
    <3>1. \A i \in len + 1 .. len + n : bytes[i] \in Byte
      BY <1>4, <2>1, <2>2, ElementOfSeq
    <3>2. /\ SubSeq(bytes, len + 1, len + n) \in Seq(Byte)
          /\ Len(SubSeq(bytes, len + 1, len + n)) =
               IF len + 1 <= len + n THEN len + n - (len + 1) + 1 ELSE 0
          /\ \A i \in 1 .. len + n - (len + 1) + 1 :
               SubSeq(bytes, len + 1, len + n)[i] = bytes[len + 1 + i - 1]
      BY <1>4, <2>1, <3>1, SubSeqProperties
    <3>3. len + n - (len + 1) + 1 = n /\ len + 1 <= len + n /\ \A i \in 1 .. n : len + 1 + i - 1 = len + i
      BY <1>4, <1>7, <2>1
    <3>4. QED
      BY <2>3, <3>2, <3>3
  <2>5. job.done \o piece = SubSeq(bytes, 1, len + n)
    <3>1. 1 \in 1 .. Len(bytes) + 1 /\ len \in 1 - 1 .. Len(bytes) /\ len + n \in len .. Len(bytes)
      <4> HIDE DEF len
      <4> QED BY <1>4, <2>1, <2>2
    <3>2. SubSeq(bytes, 1, len) \o SubSeq(bytes, len + 1, len + n) = SubSeq(bytes, 1, len + n)
      BY <2>1, <2>2, <3>1, ConcatAdjacentSubSeq
    <3>3. QED
      BY <2>1, <2>2, <2>3, <3>2
  <2>6. /\ SameCall /\ job'.state = job.state /\ job'.done = job.done \o piece /\ cursor' = cursor
    BY <1>2, <1>7, GoOnChanges DEF GoOn
  <2>7. \A i \in 0 .. n - 1 : data[i] = piece[i + 1] /\ data[i] \in Byte
    <3>1. \A i \in 0 .. n - 1 : i + 1 \in 1 .. Len(piece)
      BY <1>4, <2>4
    <3>2. \A i \in 0 .. n - 1 : piece[i + 1] \in Byte
      BY <2>4, <3>1, ElementOfSeq
    <3>3. QED
      BY <3>2
  <2> HIDE DEF piece, data
  <2>8. /\ Available(h, n) /\ Consume(h, n) /\ Store(h, DeviceOf(h), device_offset(h), n, data)
    BY <1>7 DEF Write
  <2>9. BusInv'
    BY <1>2, <1>4, <1>7, <2>7, WriteBus DEF AccessInv
  <2>10. /\ IsSequence(job'.done) /\ Len(job'.done) = len + n
         /\ \A i \in 1 .. len : job'.done[i] = job.done[i]
         /\ \A i \in 1 .. n : job'.done[len + i] = piece[i]
    <3>1. IsSequence(job.done) /\ IsSequence(piece)
      BY <1>2, <2>4 DEF CallDone, IsSequence
    <3>2. PICK s, t : s = job.done /\ t = piece
      OBVIOUS
    <3>3. /\ IsSequence(s \o t) /\ Len(s \o t) = Len(s) + Len(t)
          /\ \A i \in 1 .. Len(s) : (s \o t)[i] = s[i]
          /\ \A i \in 1 .. Len(t) : (s \o t)[Len(s) + i] = t[i]
      BY <3>1, <3>2, Joined
    <3>4. QED
      BY <2>4, <2>6, <3>2, <3>3
  <2>11. /\ DeviceOf(h) \in Device /\ device_offset(h) \in Nat
         /\ device_offset(h) + n <= SizeOf[DeviceOf(h)] /\ SizeOf[DeviceOf(h)] \in Nat
    BY <1>2, <1>4, <2>8, StandsBehind DEF AccessInv
  <2>12. PICK d, first : d = DeviceOf(h) /\ first = device_offset(h)
    OBVIOUS
  <2>13. ASSUME NEW i \in 0 .. first + n - 1
         PROVE  memory'[d][i] = IF first <= i THEN data[i - first] ELSE memory[d][i]
    <3>1. memory' = [memory EXCEPT ![d] =
                       [j \in DOMAIN memory[d] |->
                          IF first <= j /\ j < first + n THEN data[j - first] ELSE memory[d][j]]]
      BY <2>8, <2>12 DEF Store
    <3>2. DOMAIN memory = Device /\ DOMAIN memory[d] = 0 .. SizeOf[d] - 1
      BY <2>11, <2>12 DEF AccessInv, BusInv, DataInv
    <3>3. i \in DOMAIN memory[d] /\ i < first + n
      BY <1>4, <2>11, <2>12, <3>2
    <3>4. QED
      BY <2>11, <2>12, <3>1, <3>2, <3>3
  <2>14. \A i \in 0 .. first - 1 : memory'[d][i] = memory[d][i]
    BY <1>4, <2>11, <2>12, <2>13
  <2>15. \A i \in 1 .. n : memory'[d][first + i - 1] = job'.done[len + i]
    <3> SUFFICES ASSUME NEW i \in 1 .. n
                 PROVE  memory'[d][first + i - 1] = job'.done[len + i]
      OBVIOUS
    <3>1. first + i - 1 \in 0 .. first + n - 1 /\ first <= first + i - 1 /\ first + i - 1 - first = i - 1
          /\ i - 1 \in 0 .. n - 1 /\ (i - 1) + 1 = i
      BY <1>4, <2>11, <2>12
    <3>2. PICK k : k = first + i - 1
      OBVIOUS
    <3>3. memory'[d][k] = data[k - first] /\ k - first = i - 1
      <4>1. k \in 0 .. first + n - 1 /\ first <= k /\ k - first = i - 1
        BY <1>4, <2>11, <2>12, <3>1, <3>2
      <4>2. memory'[d][k] = IF first <= k THEN data[k - first] ELSE memory[d][k]
        BY <2>13, <4>1
      <4>3. QED
        BY <4>1, <4>2
    <3>4. data[i - 1] = piece[(i - 1) + 1]
      BY <2>7, <3>1
    <3>5. QED
      BY <2>10, <3>1, <3>2, <3>3, <3>4
  <2>16. FreshTool'
    BY <2>1, <2>6, SymbolAssumption DEF FreshTool, SameCall
  <2>17. ~Returned(Pieces)' /\ job'.state \in {"runs", "idle"}
    BY <1>1, <2>6 DEF Returned
  <2>18. job'.done = SubSeq(job.plan.data, 1, Len(job'.done))
    BY <2>2, <2>5, <2>6, <2>10
  <2>19. QED
    BY <1>1, <1>2, <1>3, <1>4, <2>6, <2>8, <2>9, <2>10, <2>12, <2>14, <2>15, <2>16, <2>17, <2>18, MovedOn
<1>8. QED
  BY <1>5, <1>6, <1>7

\* One byte, read as the bits it has, is the byte of memory.
LEMMA ByteValue ==
  ASSUME BusInv, NEW h \in Handle, ReadBits(h, BitRange(0, BYTE_BITS)),
         <<DeviceOf(h), device_offset(h)>> \notin foreign'[h]
  PROVE  last'.value = memory[DeviceOf(h)][device_offset(h)]
<1> DEFINE s == BitRange(0, BYTE_BITS)
           w == Where(h, s)
           d == DeviceOf(h)
           k == device_offset(h)
           B == BYTE_BITS
<1>1. B \in Nat \ {0}
  BY DataAssumption
<1>2. s \in Slice /\ FitsNumber(s) /\ s.bit_offset = 0 /\ s.bit_len = B
  BY ByteSlice DEF BitRange
<1>3. bits_to_bytes(s) = 1
  <2>1. (1 * B + (B - 1)) \div B = 1
    BY <1>1, DivModUnique
  <2>2. 0 + B + B - 1 = 1 * B + (B - 1)
    BY <1>1
  <2>3. QED
    BY <1>2, <2>1, <2>2 DEF bits_to_bytes, bytes_for_len
<1>4. d \in Device /\ k \in Nat /\ k + 1 <= SizeOf[d] /\ SizeOf[d] \in Nat
  <2>1. Available(h, 1) /\ Consume(h, 1)
    BY <1>3 DEF ReadBits
  <2>2. 1 \in Nat
    OBVIOUS
  <2>3. QED
    BY <2>1, <2>2, StandsBehind
<1>5. memory[d][k] \in Byte
  BY <1>4 DEF BusInv, MemoryTyped
<1>6. w.device_id = d /\ w.slice.bit_len = B /\ FirstBit(w) = k * B
  BY <1>1, <1>2, <1>4 DEF Where, FirstBit
<1> HIDE DEF w, s, d, k
<1>7. ASSUME NEW m \in 0 .. B - 1
      PROVE  /\ (k * B + m) \div B = k
             /\ DeviceBit(d, k * B + m) =
                  memory[d][k][IF EndianOf[d] = "Little" THEN m ELSE B - 1 - m]
  <2>1. (k * B + m) \div B = k /\ (k * B + m) % B = m
    BY <1>1, <1>4, DivModUnique
  <2>2. QED
    BY <2>1 DEF DeviceBit
<1>8. SliceBytes(w) \subseteq {<<d, k>>}
  <2> SUFFICES ASSUME NEW p \in SliceBits(w)
               PROVE  p \div B = k
    BY <1>6 DEF SliceBytes
  <2>1. p \in k * B .. k * B + B - 1
    BY <1>6 DEF SliceBits
  <2>2. PICK m \in 0 .. B - 1 : p = k * B + m
    <3>1. p - k * B \in 0 .. B - 1 /\ p = k * B + (p - k * B)
      BY <1>1, <1>4, <2>1
    <3>2. QED
      BY <3>1
  <2>3. QED
    BY <1>7, <2>2
<1>9. last'.value = SliceValue(w)
  <2>1. SliceBytes(w) \cap foreign'[h] = {}
    BY <1>8 DEF d, k
  <2>2. QED
    BY <1>2, <2>1, ReadBitsValue DEF BusInv, w, s
<1>10. SliceValue(w) = memory[d][k]
  <2>1. SliceValue(w) = [m \in 0 .. B - 1 |->
          DeviceBit(d, IF EndianOf[d] = "Little" THEN k * B + m ELSE k * B + B - 1 - m)]
    BY <1>6 DEF SliceValue
  <2>2. ASSUME NEW m \in 0 .. B - 1
        PROVE  DeviceBit(d, IF EndianOf[d] = "Little" THEN k * B + m ELSE k * B + B - 1 - m)
                 = memory[d][k][m]
    <3>1. CASE EndianOf[d] = "Little"
      BY <1>7, <3>1
    <3>2. CASE EndianOf[d] # "Little"
      <4>1. B - 1 - m \in 0 .. B - 1 /\ k * B + (B - 1 - m) = k * B + B - 1 - m /\ B - 1 - (B - 1 - m) = m
        BY <1>1, <1>4
      <4>2. QED
        BY <1>7, <3>2, <4>1
    <3>3. QED
      BY <3>1, <3>2
  <2>3. memory[d][k] = [m \in 0 .. B - 1 |-> memory[d][k][m]]
    BY <1>5 DEF Byte
  <2>4. QED
    BY <2>1, <2>2, <2>3
<1>11. QED
  BY <1>9, <1>10 DEF d, k

\* Byte by byte: a byte that is not the one of memory was written by others.
LEMMA ByteRead ==
  ASSUME AccessInv, ReadByte
  PROVE  AccessInv'
<1> DEFINE h == job.handle
           s == BitRange(0, BYTE_BITS)
<1>1. /\ job.state = "runs" /\ job.plan.at = {} /\ job.plan.do \in ByByte /\ torn' = torn
  BY DEF ReadByte, Runs, InCall, ByByte
<1>2. Called /\ CallShape /\ FreshTool /\ CallDone /\ CallPlace /\ h \in Handle
  BY <1>1, RunsCalled
<1>3. job.plan.do \notin Pieces /\ job.plan.do \notin Unread /\ job.plan.do # "store" /\ h = Tool
  BY <1>1, <1>2 DEF Pieces, Unread, ByByte, LEB, CallShape
<1>4. \/ /\ ReadBits(h, s) /\ cursor' = cursor
         /\ \/ job' = [job EXCEPT !.done = Append(@, last'.value)]
            \/ job' = [job EXCEPT !.done = Append(@, last'.value), !.state = "idle", !.outcome = "panic"]
      \/ Fail /\ UNCHANGED vars
  BY DEF ReadByte
<1>5. CASE Fail /\ UNCHANGED vars
  BY <1>1, <1>5, FailKeeps DEF Fail
<1>6. CASE /\ ReadBits(h, s) /\ cursor' = cursor
           /\ \/ job' = [job EXCEPT !.done = Append(@, last'.value)]
              \/ job' = [job EXCEPT !.done = Append(@, last'.value), !.state = "idle", !.outcome = "panic"]
  <2>1. DOMAIN job = JobFields
    BY <1>2 DEF CallShape
  <2>2. PICK x : x = last'.value
    OBVIOUS
  <2>3. /\ DOMAIN job' = JobFields /\ job'.handle = h /\ job'.address = job.address /\ job'.bit = job.bit
        /\ job'.call = job.call /\ job'.about = job.about /\ job'.where = job.where /\ job'.plan = job.plan
        /\ job'.done = Append(job.done, x) /\ job'.state \in {"runs", "idle"}
    BY <1>1, <1>6, <2>1, <2>2 DEF JobFields
  <2>4. SameCall
    BY <2>1, <2>3 DEF SameCall
  <2>5. ~Returned(Pieces)'
    BY <1>3, <2>3 DEF Returned
  <2>6. s \in Slice /\ bits_to_bytes(s) = 1
    <3>1. BYTE_BITS \in Nat \ {0}
      BY DataAssumption
    <3>2. (1 * BYTE_BITS + (BYTE_BITS - 1)) \div BYTE_BITS = 1
      BY <3>1, DivModUnique
    <3>3. 0 + BYTE_BITS + BYTE_BITS - 1 = 1 * BYTE_BITS + (BYTE_BITS - 1)
      BY <3>1
    <3>4. QED
      BY <3>2, <3>3, ByteSlice DEF BitRange, bits_to_bytes, bytes_for_len
  <2>7. /\ AnyStep /\ ranges' = ranges /\ memory' = memory /\ storing' = storing
        /\ Available(h, 1) /\ Consume(h, 1)
    BY <1>2, <1>6, <2>6 DEF AnyStep, AnyCall, ReadBits, Consume
  <2>8. BusInv'
    BY <2>7, QuietBus DEF AccessInv
  <2>9. foreign'[h] \subseteq torn
    <3>1. foreign' = [foreign EXCEPT ![h] = IF Cached(h, s) THEN @ ELSE {}] /\ DOMAIN foreign = Handle
      BY <1>6 DEF ReadBits, AccessInv, BusInv, DataInv
    <3>2. foreign[h] \subseteq torn
      BY <1>2, <1>3 DEF FreshTool
    <3>3. QED
      BY <1>2, <3>1, <3>2
  <2>10. FreshTool'
    BY <1>1, <1>3, <2>3, <2>9 DEF FreshTool
  <2>11. x = memory[DeviceOf(h)][device_offset(h)] \/ <<DeviceOf(h), device_offset(h)>> \in torn
    <3>1. CASE <<DeviceOf(h), device_offset(h)>> \notin foreign'[h]
      BY <1>2, <1>6, <2>2, <3>1, ByteValue DEF AccessInv
    <3>2. QED
      BY <2>9, <3>1
  <2>12. /\ IsSequence(job'.done) /\ Len(job'.done) = Len(job.done) + 1
         /\ \A i \in 1 .. Len(job.done) : job'.done[i] = job.done[i]
         /\ job'.done[Len(job.done) + 1] = x
    BY <1>2, <2>3, Appended DEF CallDone
  <2>13. ASSUME NEW i \in 1 .. 1
         PROVE  LET d == DeviceOf(h)
                    k == device_offset(h) + i - 1
                IN  memory'[d][k] = job'.done[Len(job.done) + i] \/ <<d, k>> \in torn
    <3>1. i = 1
      OBVIOUS
    <3>2. device_offset(h) \in Nat
      <4>1. 1 \in Nat
        OBVIOUS
      <4>2. QED
        BY <1>2, <2>7, <4>1, StandsBehind DEF AccessInv
    <3>3. device_offset(h) + i - 1 = device_offset(h)
      BY <3>1, <3>2
    <3>4. QED
      BY <2>7, <2>11, <2>12, <3>1, <3>3
  <2>14. 1 \in Nat
    OBVIOUS
  <2>15. QED
    BY <1>1, <1>2, <1>3, <1>6, <2>3, <2>4, <2>5, <2>7, <2>8, <2>10, <2>12, <2>13, <2>14, MovedOn
<1>7. QED
  BY <1>4, <1>5, <1>6

\* The entry that try_next reaches is read where the walker found it.
LEMMA ReachKeeps ==
  ASSUME AccessInv, WalkInv, Reach
  PROVE  AccessInv'
<1>1. UNCHANGED <<vars, cursor, torn>> /\ stack # <<>> /\ Usable(Head(stack))
  BY DEF Reach, Walks
<1>2. PICK c \in cursor : job' = EntryJob(Entry(Head(stack)), c.base)
  BY DEF Reach
<1>3. PICK f : f = Head(stack)
  OBVIOUS
<1>4. f \in Frames
  BY <1>1, <1>3, HeadTailProperties DEF WalkInv, WalkTypeOK
<1>5. PICK e, base : e = Entry(f) /\ base = c.base
  OBVIOUS
<1>6. EntryOK(e) /\ Readable(e) /\ base \in Nat
  BY <1>1, <1>3, <1>4, <1>5, FrameEntry DEF Usable, AccessInv, CursorOK
<1>7. PICK plan, a, bit : /\ plan = EntryPlan(e, base) /\ a = ByteOfEntry(e, base)
                          /\ bit = e.offset_bits % BITS_PER_BYTE
  OBVIOUS
<1>8. EntryRead(plan, e, base) /\ a \in Nat /\ bit \in Nat
  BY <1>6, <1>7, EntryPlanned
<1>9. job' = Job("entry", Own, plan, e, a, bit)
  BY <1>2, <1>3, <1>5, <1>7 DEF EntryJob, ByteOfEntry
<1>10. /\ PlanShape(plan) /\ plan.at \subseteq {a} /\ plan.do \in Unread \cup {"text"}
       /\ Types[e.ty].shape = "pointer" => plan.do \in Unread
       /\ plan.do = "number" => plan.offset = bit /\ plan.len = Width("entry", e, TypeRead("entry", e))
  BY <1>7, <1>8 DEF EntryRead, TypeRead
<1>11. plan.do # "store" /\ plan.do \notin ByByte
  BY <1>10 DEF Unread, ByByte, LEB
<1>12. a \in Int /\ Own \in {Own, Tool} /\ Own # Tool
  BY <1>8, SymbolAssumption
<1>13. CallOK'
  BY <1>6, <1>8, <1>9, <1>10, <1>11, <1>12, CallBegins
<1>14. BusInv'
  <2>1. AnyStep /\ ranges' = ranges /\ memory' = memory /\ storing' = storing
    BY <1>1 DEF AnyStep, vars, addressVars, dataVars
  <2>2. QED
    BY <2>1, QuietBus DEF AccessInv
<1>15. CursorOK'
  BY <1>1, SameCursor DEF AccessInv
<1>16. QED
  BY <1>13, <1>14, <1>15 DEF AccessInv

\* A walk between two entries leaves the rest alone, and so does its end.
LEMMA WalkKeeps ==
  ASSUME AccessInv, PassOver \/ WalkedOut
  PROVE  AccessInv'
<1>1. UNCHANGED <<vars, cursor, torn>> /\ (job' = NoJob \/ job'.state = "walks")
  BY DEF PassOver, WalkedOut, Walks
<1>2. CallOK' /\ CursorOK'
  BY <1>1, NoCall, SameCursor DEF AccessInv
<1>3. BusInv'
  <2>1. AnyStep /\ ranges' = ranges /\ memory' = memory /\ storing' = storing
    BY <1>1 DEF AnyStep, vars, addressVars, dataVars
  <2>2. QED
    BY <2>1, QuietBus DEF AccessInv
<1>4. QED
  BY <1>2, <1>3 DEF AccessInv

\* A handle never stands past the end of its device.
LEMMA StandsInside ==
  ASSUME BusInv, NEW h \in Handle, Positioned(h)
  PROVE  device_offset(h) <= SizeOf[DeviceOf(h)] /\ SizeOf[DeviceOf(h)] \in Nat
<1>1. At(h).range \in Known /\ At(h).cursor \in Nat /\ active[h] = {At(h)}
  BY PlaceOf DEF BusInv, DataInv
<1>2. At(h).cursor <= Length(At(h).range)
  BY <1>1 DEF BusInv, DataInv, PlacesOK, PlaceOK
<1>3. QED
  BY <1>1, <1>2, RangeFields DEF device_offset, DeviceOf, Length

\* The same call, handle and bytes moved so far: what is said of them stays true
\* when memory changes in bytes that others write only.
LEMMA RestingCall ==
  ASSUME AccessInv, BusInv', job' = job, cursor' = cursor, active' = active, torn \subseteq torn',
         job.handle = Tool => foreign'[Tool] \subseteq foreign[Tool] \cup torn',
         \A d \in Device : \A i \in 0 .. SizeOf[d] - 1 : memory'[d][i] = memory[d][i] \/ <<d, i>> \in torn'
  PROVE  AccessInv'
<1>1. CursorOK'
  BY SameCursor DEF AccessInv
<1>2. ASSUME Called
      PROVE  CallShape' /\ FreshTool' /\ CallDone' /\ CallPlace'
  <2>1. CallShape /\ FreshTool /\ CallDone /\ CallPlace /\ job.handle \in Handle
    BY <1>2, SymbolAssumption DEF AccessInv, CallOK, CallShape
  <2>2. CallShape'
    BY <2>1 DEF CallShape, PlanShape, EntryOK, JobType, ValueBits
  <2>3. FreshTool'
    BY <2>1 DEF FreshTool
  <2>4. CallDone'
    BY <2>1 DEF CallDone, Returned
  <2>5. CallPlace'
    <3> SUFFICES ASSUME job.plan.at = {}, NEW w \in job.where
                 PROVE  /\ w.device \in Device /\ w.byte \in Nat
                        /\ job.plan.do # "number" \/ job.state = "runs" => Behind(w)'
                        /\ Kept(w)'
      BY DEF CallPlace
    <3>1. /\ w.device \in Device /\ w.byte \in Nat /\ Kept(w)
          /\ job.plan.do # "number" \/ job.state = "runs" => Behind(w)
      BY <2>1 DEF CallPlace
    <3>2. Behind(w) => Behind(w)'
      BY DEF Behind, Positioned, DeviceOf, device_offset, At
    <3>3. Kept(w)'
      <4>1. Len(job.done) \in Nat /\ (job.plan.do \in Unread => Len(job.done) = 0)
        BY <2>1, SequenceLength DEF CallDone
      <4>2. ASSUME NEW i \in 1 .. Len(job.done)
            PROVE  w.byte + i - 1 \in 0 .. SizeOf[w.device] - 1
        <5>1. Behind(w)
          BY <3>1, <4>1, <4>2 DEF Unread
        <5>2. PICK h \in Handle : h = job.handle
          BY <2>1
        <5>3. /\ Positioned(h) /\ DeviceOf(h) = w.device
              /\ device_offset(h) = w.byte + Len(job.done)
          BY <5>1, <5>2 DEF Behind
        <5>4. device_offset(h) <= SizeOf[w.device] /\ SizeOf[w.device] \in Nat
          BY <5>3, StandsInside DEF AccessInv
        <5>5. QED
          BY <3>1, <4>1, <5>3, <5>4
      <4>3. QED
        BY <3>1, <4>2 DEF Kept
    <3>4. QED
      BY <3>1, <3>2, <3>3
  <2>6. QED
    BY <2>2, <2>3, <2>4, <2>5
<1>3. QED
  BY <1>1, <1>2 DEF AccessInv, CallOK, Called

\* Nor does it matter to a call what moves no handle and changes no byte.
LEMMA StillCall ==
  ASSUME AccessInv, BusInv', job' = job, cursor' = cursor, active' = active, torn' = torn,
         memory' = memory, foreign' = foreign
  PROVE  AccessInv'
<1>1. torn \subseteq torn' /\ foreign'[Tool] \subseteq foreign[Tool] \cup torn'
  OBVIOUS
<1>2. \A d \in Device : \A i \in 0 .. SizeOf[d] - 1 : memory'[d][i] = memory[d][i] \/ <<d, i>> \in torn'
  OBVIOUS
<1>3. QED
  BY <1>1, <1>2, RestingCall

\* What others change is remembered as torn.
LEMMA ForeignBytesTorn ==
  ASSUME BusInv, ForeignWrite
  PROVE  \A e \in Device : \A i \in 0 .. SizeOf[e] - 1 : memory'[e][i] = memory[e][i] \/ <<e, i>> \in torn'
<1>1. PICK b \in ForeignBytes :
        Store("elsewhere", b[1], b[2], 1, Filled(1, 1)) /\ torn' = torn \cup {b}
  BY DEF ForeignWrite
<1>2. b[1] \in Device /\ b[2] \in Nat /\ b = <<b[1], b[2]>>
  BY SymbolAssumption
<1>4. PICK d, k : d = b[1] /\ k = b[2]
  OBVIOUS
<1>5. memory' = [memory EXCEPT ![d] =
                   [i \in DOMAIN memory[d] |->
                      IF k <= i /\ i < k + 1 THEN Filled(1, 1)[i - k] ELSE memory[d][i]]]
  BY <1>1, <1>4 DEF Store
<1>7. ASSUME NEW e \in Device, NEW i \in 0 .. SizeOf[e] - 1
      PROVE  memory'[e][i] = memory[e][i] \/ <<e, i>> \in torn'
  <2>1. DOMAIN memory = Device /\ DOMAIN memory[e] = 0 .. SizeOf[e] - 1
    BY DEF BusInv, DataInv
  <2>2. CASE e = d /\ i = k
    BY <1>1, <1>2, <1>4, <2>2
  <2>3. CASE e # d
    BY <1>2, <1>4, <1>5, <2>1, <2>3
  <2>4. CASE e = d /\ i # k
    <3>1. memory'[e] = [j \in DOMAIN memory[e] |->
                          IF k <= j /\ j < k + 1 THEN Filled(1, 1)[j - k] ELSE memory[e][j]]
      BY <1>2, <1>4, <1>5, <2>1, <2>4
    <3>2. SizeOf[e] \in Nat /\ k \in Nat
      BY <1>2, <1>4, MapAssumption
    <3>3. ~(k <= i /\ i < k + 1) /\ i \in DOMAIN memory[e]
      BY <2>1, <2>4, <3>2
    <3>4. QED
      BY <3>1, <3>3
  <2>5. QED
    BY <2>2, <2>3, <2>4
<1>8. QED
  BY <1>7

\* A call goes on when others write.
LEMMA ForeignKeeps ==
  ASSUME AccessInv, ForeignWrite
  PROVE  AccessInv'
<1>1. PICK b \in ForeignBytes :
        Store("elsewhere", b[1], b[2], 1, Filled(1, 1)) /\ torn' = torn \cup {b}
  BY DEF ForeignWrite
<1>2. b[1] \in Device /\ b[2] \in Nat /\ b = <<b[1], b[2]>> /\ Tool \in Handle
  BY SymbolAssumption
<1>3. /\ job' = job /\ cursor' = cursor /\ active' = active
  BY DEF ForeignWrite, addressVars
<1>4. PICK d, k : d = b[1] /\ k = b[2]
  OBVIOUS
<1>5. /\ memory' = [memory EXCEPT ![d] =
                      [i \in DOMAIN memory[d] |->
                         IF k <= i /\ i < k + 1 THEN Filled(1, 1)[i - k] ELSE memory[d][i]]]
      /\ foreign' = [g \in Handle |->
                       IF g = "elsewhere" \/ cache[g] = {} THEN {}
                       ELSE foreign[g] \cup {<<d, i>> : i \in k .. k + 1 - 1}]
  BY <1>1, <1>4 DEF Store
<1>6. foreign'[Tool] \subseteq foreign[Tool] \cup torn'
  <2>1. \A i \in k .. k + 1 - 1 : i = k
    BY <1>2, <1>4
  <2>2. QED
    BY <1>1, <1>2, <1>4, <1>5, <2>1
<1>7. \A e \in Device : \A i \in 0 .. SizeOf[e] - 1 : memory'[e][i] = memory[e][i] \/ <<e, i>> \in torn'
  BY ForeignBytesTorn DEF AccessInv
<1>8. BusInv'
  BY ForeignBus DEF AccessInv
<1>9. QED
  BY <1>1, <1>3, <1>6, <1>7, <1>8, RestingCall

\* A map that changes under a call moves no handle.
LEMMA MapMoves ==
  ASSUME AccessInv, SymbolRemap
  PROVE  AccessInv'
<1>1. RemapBus /\ UNCHANGED accessVars
  BY DEF SymbolRemap
<1>2. BusInv'
  BY <1>1, RemapBusKept DEF AccessInv
<1>3. memory' = memory /\ foreign' = foreign /\ active' = active
  BY <1>1 DEF RemapBus, Remap, dataVars, Map!Add, Map!Remove
<1>4. job' = job /\ cursor' = cursor /\ torn' = torn
  BY <1>1 DEF accessVars
<1>5. QED
  BY <1>2, <1>3, <1>4, StillCall

\* Nothing else happens to a call.
LEMMA AccessKept == AccessInv /\ WalkInv /\ [SymbolNext]_symbolVars => AccessInv'
<1> SUFFICES ASSUME AccessInv, WalkInv, [SymbolNext]_symbolVars
             PROVE  AccessInv'
  OBVIOUS
<1>1. CASE SymbolStep
  BY <1>1, WalkKeeps, ReachKeeps, JumpLands, NumberRead, PieceRead, PieceWritten, ByteRead, Settled
     DEF SymbolStep
<1>2. CASE UNCHANGED symbolVars
  <2>1. UNCHANGED vars /\ job' = job /\ cursor' = cursor /\ torn' = torn
    BY <1>2 DEF symbolVars, accessVars
  <2>2. AnyStep /\ ranges' = ranges /\ memory' = memory /\ storing' = storing
        /\ foreign' = foreign /\ active' = active
    BY <2>1 DEF AnyStep, vars, addressVars, dataVars
  <2>3. BusInv'
    BY <2>2, QuietBus DEF AccessInv
  <2>4. QED
    BY <2>1, <2>2, <2>3, StillCall
<1>3. QED
  BY <1>1, <1>2, CallStarts, ForeignKeeps, MapMoves DEF SymbolNext

\* No call has begun at first.
LEMMA AccessStarts == SymbolInit => AccessInv
<1> SUFFICES ASSUME SymbolInit PROVE AccessInv
  OBVIOUS
<1>1. Init /\ cursor = {} /\ job = NoJob
  BY DEF SymbolInit
<1>2. DataInv /\ StaleOnlyByOthers
  BY <1>1, InitialData
<1>3. RangesApart
  BY <1>1, MapAssumption DEF Init, AddressInit, RangesApart
<1>4. \A h \in Handle : Idle(h)
  BY <1>1 DEF Init, Idle
<1>5. MemoryTyped
  BY <1>1, DataAssumption DEF Init, MemoryTyped
<1>6. CursorOK /\ CallOK
  BY <1>1 DEF CursorOK, CallOK, Called
<1>7. QED
  BY <1>2, <1>3, <1>4, <1>5, <1>6 DEF AccessInv, BusInv

\* Whatever is called and whoever writes in between: no chunk is stale by a
\* handle's own doing, the ranges stay apart, and the handle of a call stands
\* behind the bytes that the call has moved, which are those of memory.
THEOREM AccessInvariant == SymbolSpec => []AccessInv
<1>1. SymbolSpec => []WalkInv
  BY AccessImplementsWalk, InitInside, WalkInside, PTL DEF WalkSpec
<1>2. QED
  BY <1>1, AccessStarts, AccessKept, PTL DEF SymbolSpec

\* Piece by piece or byte by byte, also when a later piece fails: the bytes that
\* a call has moved lie in front of its handle, in the order of memory and
\* without a gap.
THEOREM MovesInOrder == SymbolSpec => []TransferInOrder
<1>1. AccessInv => TransferInOrder
  <2> SUFFICES ASSUME AccessInv, job.state # "walks", job # NoJob, job.plan.at = {},
                      job.plan.do # "number", NEW w \in job.where
               PROVE  /\ DeviceOf(job.handle) = w.device
                      /\ device_offset(job.handle) = w.byte + Len(job.done)
                      /\ \A i \in DOMAIN job.done :
                           \/ memory[w.device][w.byte + i - 1] = job.done[i]
                           \/ Disturbed(w.device, w.byte + i - 1, 1)
                      /\ job.plan.do = "store" => job.done = SubSeq(job.plan.data, 1, Len(job.done))
                      /\ Returned({"bytes", "text", "store"}) => Len(job.done) = job.plan.len
    BY DEF TransferInOrder
  <2>1. CallShape /\ CallDone /\ CallPlace
    BY DEF AccessInv, CallOK, Called
  <2>2. w.device \in Device /\ w.byte \in Nat /\ Behind(w) /\ Kept(w)
    BY <2>1 DEF CallPlace
  <2>3. DOMAIN job.done = 1 .. Len(job.done) /\ Len(job.done) \in Nat
    BY <2>1, SequenceLength DEF CallDone
  <2>4. ASSUME NEW i \in DOMAIN job.done
        PROVE  \/ memory[w.device][w.byte + i - 1] = job.done[i]
               \/ Disturbed(w.device, w.byte + i - 1, 1)
    <3>1. PICK k : k = w.byte + i - 1
      OBVIOUS
    <3>2. memory[w.device][k] = job.done[i] \/ <<w.device, k>> \in torn
      BY <2>2, <2>3, <3>1 DEF Kept
    <3>3. k \in k .. k + 1 - 1
      BY <2>2, <2>3, <3>1
    <3>4. <<w.device, k>> \in torn => Disturbed(w.device, k, 1)
      BY <3>3 DEF Disturbed
    <3>5. QED
      BY <3>1, <3>2, <3>4
  <2>5. QED
    BY <2>1, <2>2, <2>4 DEF Behind, CallDone, Pieces
<1>2. QED
  BY <1>1, AccessInvariant, PTL

-----------------------------------------------------------------------------
\* The values.

\* The bits of a slice lie in the bytes it takes.
LEMMA SliceInBytes ==
  ASSUME NEW w, w.at \in Nat, w.slice \in Slice, NEW p \in SliceBits(w)
  PROVE  p \div BYTE_BITS \in w.at .. w.at + bits_to_bytes(w.slice) - 1
<1> DEFINE B == BYTE_BITS
           s == w.slice
           x == s.bit_offset + s.bit_len + B - 1
           nb == x \div B
<1>1. B \in Nat \ {0} /\ s.bit_offset \in Nat /\ s.bit_len \in Nat \ {0}
  BY DataAssumption DEF Slice
<1>2. PICK at, off, len : at = w.at /\ off = s.bit_offset /\ len = s.bit_len
  OBVIOUS
<1>3. at \in Nat /\ off \in Nat /\ len \in Nat \ {0}
  BY <1>1, <1>2
<1>4. p \in at * B + off .. at * B + off + len - 1
  BY <1>2 DEF SliceBits, FirstBit
<1>5. PICK m \in off .. off + len - 1 : p = at * B + m
  <2>1. at * B \in Nat
    BY <1>1, <1>3
  <2>2. p - at * B \in off .. off + len - 1 /\ p = at * B + (p - at * B)
    BY <1>3, <1>4, <2>1
  <2>3. QED
    BY <2>2
<1>6. m \in Nat /\ p \div B = at + (m \div B)
  <2>1. m \in Nat
    BY <1>3, <1>5
  <2>2. (at * B + m) \div B = at + (m \div B)
    BY <1>1, <1>3, <2>1, ShiftedBit
  <2>3. QED
    BY <1>5, <2>1, <2>2
<1>7. PICK q, r \in Nat : q = m \div B /\ r = m % B /\ r < B /\ m = q * B + r
  <2>1. m \div B \in Nat /\ m % B \in 0 .. B - 1 /\ m = (m \div B) * B + (m % B)
    BY <1>1, <1>6, DivMod
  <2>2. m % B \in Nat /\ m % B < B
    BY <1>1, <2>1
  <2>3. QED
    BY <2>1, <2>2
<1>8. x \in Nat /\ x = off + len + B - 1
  BY <1>1, <1>2
<1>9. PICK n, t \in Nat : n = nb /\ t < B /\ x = n * B + t
  <2>1. nb \in Nat /\ x % B \in 0 .. B - 1 /\ x = nb * B + (x % B)
    BY <1>1, <1>8, DivMod
  <2>2. QED
    BY <1>1, <2>1
<1>10. q < n
  <2> SUFFICES ASSUME q >= n PROVE FALSE
    BY <1>7, <1>9
  <2>1. PICK d \in Nat : q = n + d
    <3>1. q - n \in Nat /\ q = n + (q - n)
      BY <1>7, <1>9
    <3>2. QED
      BY <3>1
  <2>2. q * B = n * B + d * B /\ d * B \in Nat /\ n * B \in Nat
    BY <1>1, <1>9, <2>1
  <2>3. m <= off + len - 1
    BY <1>3, <1>5
  <2> HIDE DEF x, nb
  <2>4. QED
    BY <1>1, <1>3, <1>5, <1>6, <1>7, <1>8, <1>9, <2>2, <2>3
<1>11. bits_to_bytes(s) = n
  BY <1>9 DEF bits_to_bytes, bytes_for_len
<1>12. QED
  BY <1>2, <1>3, <1>6, <1>7, <1>9, <1>10, <1>11

\* A slice keeps its value as long as its bytes do.
LEMMA SameSlice ==
  ASSUME NEW d, NEW at \in Nat, NEW s \in Slice,
         \A i \in at .. at + bits_to_bytes(s) - 1 : memory'[d][i] = memory[d][i]
  PROVE  SliceValue([device_id |-> d, at |-> at, slice |-> s])' =
           SliceValue([device_id |-> d, at |-> at, slice |-> s])
<1> DEFINE w == [device_id |-> d, at |-> at, slice |-> s]
<1>1. w.at \in Nat /\ w.slice \in Slice /\ w.device_id = d
  OBVIOUS
<1>2. FirstBit(w) \in Nat /\ w.slice.bit_len \in Nat
  BY DataAssumption DEF FirstBit, Slice
<1>3. \A p \in SliceBits(w) : DeviceBit(d, p)' = DeviceBit(d, p)
  BY <1>1, SliceInBytes DEF DeviceBit
<1> HIDE DEF w
<1>4. ASSUME NEW k \in 0 .. w.slice.bit_len - 1
      PROVE  (IF EndianOf[w.device_id] = "Little" THEN FirstBit(w) + k
              ELSE FirstBit(w) + w.slice.bit_len - 1 - k) \in SliceBits(w)
  BY <1>2 DEF SliceBits
<1>5. SliceValue(w)' = SliceValue(w)
  BY <1>1, <1>3, <1>4 DEF SliceValue
<1>6. QED
  BY <1>5 DEF w

\* What a call that reads a number reads.
ReadPlace == BitRange(job.bit, ValueBits(JobType))
\* A chunk over it.
Told(w) == [device_id |-> w.device, at |-> w.byte, slice |-> ReadPlace]

\* The value of what the device holds, unless others wrote there meanwhile.
Faithful(w) ==
  \/ job.value = Typed(JobType, Number(Ones(SliceValue(Told(w)))))
  \/ Disturbed(w.device, w.byte, bits_to_bytes(ReadPlace))

\* The value lies in its device, and nothing is remembered of bytes that no
\* chunk holds.
ValueInv ==
  /\ Returned({"number"}) =>
       /\ job.plan.at = {}
       /\ \A w \in job.where :
            w.byte + bits_to_bytes(ReadPlace) <= SizeOf[w.device] /\ Faithful(w)
  /\ \A g \in Handle : cache[g] = {} => foreign[g] = {}

\* It is what ValuesFaithful says.
LEMMA ValueSaid == ValueInv => ValuesFaithful
BY DEF ValueInv, ValuesFaithful, Faithful, Told, ReadPlace

\* What a call that reads a number has planned.
LEMMA NumberPlanned ==
  ASSUME AccessInv, Called, job.plan.do = "number"
  PROVE  /\ ReadPlace \in Slice /\ FitsNumber(ReadPlace)
         /\ BitRange(job.plan.offset, job.plan.len) = ReadPlace
<1>1. CallShape
  BY DEF AccessInv, CallOK
<1>2. job.plan.offset = job.bit /\ job.plan.len = ValueBits(JobType)
  BY <1>1 DEF CallShape
<1>3. BitRange(job.plan.offset, job.plan.len) = ReadPlace
  BY <1>2 DEF ReadPlace, BitRange
<1>4. QED
  BY <1>1, <1>3, NumberSlice DEF CallShape

\* A number that has just been read is the one of its slice.
LEMMA NumberFaithful ==
  ASSUME AccessInv, ValueInv, ReadNumber
  PROVE  ValueInv'
<1>1. job.state = "runs" /\ job.plan.at = {} /\ job.plan.do = "number" /\ torn' = torn
  BY DEF ReadNumber, Runs, InCall
<1>2. Called /\ CallShape /\ FreshTool /\ CallDone /\ CallPlace
  BY <1>1, RunsCalled
<1>3. PICK h : h = job.handle
  OBVIOUS
<1>4. PICK s : s = ReadPlace
  OBVIOUS
<1>5. h \in Handle /\ s \in Slice /\ FitsNumber(s) /\ BitRange(job.plan.offset, job.plan.len) = s
  BY <1>1, <1>2, <1>3, <1>4, NumberPlanned, RunsCalled
<1>6. \/ ReadBits(h, s) /\ Return("value", Typed(JobType, Number(Ones(last'.value))))
      \/ Fail /\ UNCHANGED vars
  BY <1>3, <1>5 DEF ReadNumber
<1>7. CASE Fail /\ UNCHANGED vars
  <2>1. job'.outcome = "error"
    BY <1>2, <1>7, ReturnChanges DEF Fail
  <2>2. cache' = cache /\ foreign' = foreign
    BY <1>7 DEF vars, dataVars
  <2>3. QED
    BY <2>1, <2>2 DEF ValueInv, Returned
<1>8. CASE ReadBits(h, s) /\ Return("value", Typed(JobType, Number(Ones(last'.value))))
  <2>1. /\ SameCall /\ job'.value = Typed(JobType, Number(Ones(last'.value)))
    BY <1>2, <1>8, ReturnChanges
  <2>2. JobType' = JobType /\ ReadPlace' = s /\ job'.handle = h
    BY <1>3, <1>4, <2>1 DEF SameCall, JobType, ReadPlace, ValueBits
  <2>3. /\ Available(h, bits_to_bytes(s)) /\ Consume(h, bits_to_bytes(s)) /\ memory' = memory
        /\ cache' = [cache EXCEPT ![h] = {EnsureSlice(h, s)}]
        /\ foreign' = [foreign EXCEPT ![h] = IF Cached(h, s) THEN @ ELSE {}]
    BY <1>8 DEF ReadBits
  <2>4. bits_to_bytes(s) \in Nat
    BY <1>5, SliceBytesNat
  <2>5. /\ DeviceOf(h) \in Device /\ device_offset(h) \in Nat
        /\ device_offset(h) + bits_to_bytes(s) <= SizeOf[DeviceOf(h)]
    BY <1>5, <2>3, <2>4, StandsBehind DEF AccessInv
  <2>6. ASSUME NEW w \in job.where
        PROVE  w.byte + bits_to_bytes(s) <= SizeOf[w.device] /\ Faithful(w)'
    <3>1. w.byte \in Nat /\ DeviceOf(h) = w.device /\ device_offset(h) = w.byte
      <4>1. w.byte \in Nat /\ Behind(w) /\ Len(job.done) = 0
        BY <1>1, <1>2 DEF CallPlace, CallDone, Unread
      <4>2. QED
        BY <1>3, <4>1 DEF Behind
    <3> SUFFICES Faithful(w)'
      BY <2>5, <3>1
    <3>2. PICK told : told = [device_id |-> w.device, at |-> w.byte, slice |-> s]
      OBVIOUS
    <3>3. /\ SliceBytes(Where(h, s)) = SliceBytes(told) /\ SliceValue(Where(h, s)) = SliceValue(told)
          /\ told.at \in Nat /\ told.slice = s /\ told.device_id = w.device
      BY <3>1, <3>2 DEF Where, SliceBytes, SliceValue, SliceBits, FirstBit
    <3>4. CASE SliceBytes(told) \cap foreign'[h] = {}
      <4>1. last'.value = SliceValue(told)
        BY <1>5, <1>8, <3>3, <3>4, ReadBitsValue DEF AccessInv, BusInv
      <4>2. SliceValue(Told(w))' = SliceValue(told)
        BY <2>2, <2>3, <3>2 DEF Told, SliceValue, DeviceBit, FirstBit
      <4>3. job'.value = Typed(JobType', Number(Ones(SliceValue(Told(w))')))
        BY <2>1, <2>2, <4>1, <4>2
      <4>4. QED
        BY <4>3 DEF Faithful, Typed
    <3>5. CASE SliceBytes(told) \cap foreign'[h] # {}
      <4>1. PICK p \in SliceBits(told) : <<w.device, p \div BYTE_BITS>> \in foreign'[h]
        BY <3>3, <3>5 DEF SliceBytes
      <4>2. p \div BYTE_BITS \in w.byte .. w.byte + bits_to_bytes(s) - 1
        BY <1>5, <3>2, <3>3, <4>1, SliceInBytes
      <4>3. Disturbed(w.device, w.byte, bits_to_bytes(ReadPlace))'
        <5>1. bits_to_bytes(ReadPlace)' = bits_to_bytes(s)
          BY <2>2 DEF bits_to_bytes
        <5>2. QED
          BY <2>2, <4>1, <4>2, <5>1 DEF Disturbed
      <4>4. QED
        BY <4>3 DEF Faithful
    <3>6. QED
      BY <3>4, <3>5
  <2>7. \A g \in Handle : cache'[g] = {} => foreign'[g] = {}
    BY <2>3 DEF ValueInv, AccessInv, BusInv, DataInv
  <2>8. bits_to_bytes(ReadPlace)' = bits_to_bytes(s)
    BY <2>2 DEF bits_to_bytes
  <2>9. QED
    BY <1>1, <2>1, <2>6, <2>7, <2>8 DEF ValueInv, SameCall
<1>9. QED
  BY <1>6, <1>7, <1>8

\* The part of ValueInv that steps without a call have to keep.
Remembered == \A g \in Handle : cache[g] = {} => foreign[g] = {}

\* A step after which no number has been returned says nothing of one.
LEMMA NothingSaid ==
  ASSUME Remembered', job'.state # "idle" \/ job'.outcome # "value" \/ job'.plan.do # "number"
  PROVE  ValueInv'
BY DEF ValueInv, Remembered, Returned

\* A number that was returned stays what it was, until others write its bytes.
LEMMA StaysFaithful ==
  ASSUME AccessInv, ValueInv, Remembered', job' = job, torn \subseteq torn',
         \A g \in Handle : foreign[g] \subseteq foreign'[g],
         \A d \in Device : \A i \in 0 .. SizeOf[d] - 1 : memory'[d][i] = memory[d][i] \/ <<d, i>> \in torn'
  PROVE  ValueInv'
<1> SUFFICES ASSUME Returned({"number"}), NEW w \in job.where
             PROVE  /\ job.plan.at = {}
                    /\ (w.byte + bits_to_bytes(ReadPlace) <= SizeOf[w.device])'
                    /\ Faithful(w)'
  BY DEF ValueInv, Returned, Remembered
<1>1. /\ job.plan.at = {} /\ job.plan.do = "number"
      /\ w.byte + bits_to_bytes(ReadPlace) <= SizeOf[w.device] /\ Faithful(w)
  BY DEF ValueInv, Returned
<1>2. Called
  BY DEF Called, Returned, NoJob
<1>3. PICK s : s = ReadPlace
  OBVIOUS
<1>4. s \in Slice
  BY <1>1, <1>2, <1>3, NumberPlanned
<1>5. w.device \in Device /\ w.byte \in Nat /\ job.handle \in Handle
  BY <1>1, <1>2, SymbolAssumption DEF AccessInv, CallOK, CallPlace, CallShape
<1>6. ReadPlace' = s /\ JobType' = JobType
  BY <1>3 DEF ReadPlace, ValueBits, JobType
<1>7. bits_to_bytes(s) \in Nat /\ SizeOf[w.device] \in Nat
  BY <1>4, <1>5, SliceBytesNat, MapAssumption
<1>8. w.byte + bits_to_bytes(s) <= SizeOf[w.device]
  BY <1>1, <1>3
<1>9. bits_to_bytes(ReadPlace)' = bits_to_bytes(s)
  BY <1>6 DEF bits_to_bytes
<1>10. Disturbed(w.device, w.byte, bits_to_bytes(s)) => Disturbed(w.device, w.byte, bits_to_bytes(s))'
  <2>1. foreign[job.handle] \subseteq foreign'[job'.handle]
    BY <1>5
  <2>2. PICK bytes : bytes = {<<w.device, i>> : i \in w.byte .. w.byte + bits_to_bytes(s) - 1}
    OBVIOUS
  <2>3. bytes \cap (torn \cup foreign[job.handle]) # {} =>
          bytes \cap (torn' \cup foreign'[job'.handle]) # {}
    BY <2>1
  <2>4. QED
    BY <2>2, <2>3 DEF Disturbed
<1>11. CASE Disturbed(w.device, w.byte, bits_to_bytes(s))
  BY <1>1, <1>8, <1>9, <1>10, <1>11 DEF Faithful, Disturbed
<1>12. CASE ~Disturbed(w.device, w.byte, bits_to_bytes(s))
  <2>1. job.value = Typed(JobType, Number(Ones(SliceValue(Told(w)))))
    BY <1>1, <1>3, <1>12 DEF Faithful
  <2>2. CASE \A i \in w.byte .. w.byte + bits_to_bytes(s) - 1 : memory'[w.device][i] = memory[w.device][i]
    <3>1. SliceValue(Told(w))' = SliceValue(Told(w))
      BY <1>3, <1>4, <1>5, <1>6, <2>2, SameSlice DEF Told
    <3>2. job'.value = Typed(JobType', Number(Ones(SliceValue(Told(w))')))
      BY <1>6, <2>1, <3>1
    <3>3. QED
      BY <1>1, <1>8, <1>9, <3>2 DEF Faithful, Typed
  <2>3. CASE \E i \in w.byte .. w.byte + bits_to_bytes(s) - 1 : memory'[w.device][i] # memory[w.device][i]
    <3>1. PICK i \in w.byte .. w.byte + bits_to_bytes(s) - 1 : memory'[w.device][i] # memory[w.device][i]
      BY <2>3
    <3>2. i \in 0 .. SizeOf[w.device] - 1
      BY <1>5, <1>7, <1>8, <3>1
    <3>3. <<w.device, i>> \in torn'
      BY <1>5, <3>1, <3>2
    <3>4. Disturbed(w.device, w.byte, bits_to_bytes(s))'
      BY <3>1, <3>3 DEF Disturbed
    <3>5. QED
      BY <1>1, <1>8, <1>9, <3>4 DEF Faithful, Disturbed
  <2>4. QED
    BY <2>2, <2>3
<1>13. QED
  BY <1>11, <1>12

\* Nothing is remembered of a handle that has no chunk.
LEMMA KeepsRemembering ==
  ASSUME BusInv, Remembered
  PROVE  /\ \A newJob : Begin(newJob) => Remembered'
         /\ \A h \in Handle : \A n : Read(h, n) => Remembered'
         /\ \A h \in Handle : \A n, data : Write(h, n, data) => Remembered'
         /\ \A h \in Handle : \A s : ReadBits(h, s) => Remembered'
         /\ ForeignWrite \/ UNCHANGED dataVars => Remembered'
<1>1. DOMAIN cache = Handle /\ DOMAIN foreign = Handle
  BY DEF BusInv, DataInv
<1>2. ASSUME NEW newJob, Begin(newJob)
      PROVE  Remembered'
  BY <1>1, <1>2 DEF Begin, Remembered
<1>3. ASSUME NEW h \in Handle, NEW n, Read(h, n)
      PROVE  Remembered'
  BY <1>1, <1>3 DEF Read, Invalidate, Remembered
<1>4. ASSUME NEW h \in Handle, NEW n, NEW data, Write(h, n, data)
      PROVE  Remembered'
  BY <1>1, <1>4 DEF Write, Store, Invalidate, Remembered
<1>5. ASSUME NEW h \in Handle, NEW s, ReadBits(h, s)
      PROVE  Remembered'
  <2>1. /\ cache' = [cache EXCEPT ![h] = {EnsureSlice(h, s)}]
        /\ foreign' = [foreign EXCEPT ![h] = IF Cached(h, s) THEN @ ELSE {}]
    BY <1>5 DEF ReadBits
  <2>2. QED
    BY <1>1, <2>1 DEF Remembered
<1>6. ASSUME ForeignWrite \/ UNCHANGED dataVars
      PROVE  Remembered'
  <2>1. CASE ForeignWrite
    <3>1. PICK b \in ForeignBytes : Store("elsewhere", b[1], b[2], 1, Filled(1, 1))
      BY <2>1 DEF ForeignWrite
    <3>2. cache' = cache
      BY <2>1 DEF ForeignWrite
    <3>3. QED
      BY <3>1, <3>2 DEF Store, Remembered
  <2>2. CASE UNCHANGED dataVars
    BY <2>2 DEF dataVars, Remembered
  <2>3. QED
    BY <1>6, <2>1, <2>2
<1>7. QED
  BY <1>2, <1>3, <1>4, <1>5, <1>6

\* A call that begins has returned nothing.
LEMMA CallSaysNothing ==
  ASSUME AccessInv, ValueInv, SymbolCall
  PROVE  ValueInv'
<1>1. ASSUME NEW newJob, Begin(newJob), newJob.state # "idle" \/ newJob.outcome # "value"
      PROVE  ValueInv'
  <2>1. Remembered'
    BY <1>1, KeepsRemembering DEF AccessInv, ValueInv, Remembered
  <2>2. QED
    BY <1>1, <2>1, NothingSaid DEF Begin
<1>2. NoJob.outcome # "value" /\ [NoJob EXCEPT !.state = "walks"].state # "idle"
  BY DEF NoJob
<1>3. \A call, h, plan, about, a, bit : Job(call, h, plan, about, a, bit).state # "idle"
  BY DEF Job
<1>4. ASSUME NEW n \in Symbols, ReadValue(n) \/ ReadRawBytes(n) \/ ValueCursor(n)
      PROVE  ValueInv'
  <2>1. CASE ReadValue(n)
    BY <1>1, <1>3, <2>1 DEF ReadValue
  <2>2. CASE ReadRawBytes(n)
    BY <1>1, <1>3, <2>2 DEF ReadRawBytes
  <2>3. CASE ValueCursor(n)
    BY <1>1, <1>2, <2>3 DEF ValueCursor
  <2>4. QED
    BY <1>4, <2>1, <2>2, <2>3
<1>5. CASE TryNext
  BY <1>1, <1>2, <1>5 DEF TryNext
<1>6. CASE Deref
  BY <1>1, <1>3, <1>6 DEF Deref
<1>7. CASE \E data \in Payloads : WriteEntry(data)
  BY <1>1, <1>3, <1>7 DEF WriteEntry
<1>8. CASE DropCursor
  BY <1>1, <1>2, <1>8 DEF DropCursor
<1>9. CASE \E s \in Streams : ReadStream(s)
  BY <1>1, <1>3, <1>9 DEF ReadStream
<1>10. QED
  BY <1>4, <1>5, <1>6, <1>7, <1>8, <1>9 DEF SymbolCall

\* Only a read of a number returns one.
LEMMA StepSaysNumber ==
  ASSUME AccessInv, ValueInv, SymbolStep
  PROVE  ValueInv'
<1>0. BusInv /\ Remembered
  BY DEF AccessInv, ValueInv, Remembered
<1>1. CASE PassOver \/ Reach \/ WalkedOut
  <2>1. Remembered'
    BY <1>0, <1>1, KeepsRemembering DEF PassOver, Reach, WalkedOut, Walks, vars
  <2>2. job'.state # "idle" \/ job'.outcome # "value"
    <3>1. CASE PassOver
      BY <3>1 DEF PassOver, Walks
    <3>2. CASE Reach
      BY <3>2 DEF Reach, EntryJob, Job
    <3>3. CASE WalkedOut
      BY <3>3 DEF WalkedOut, NoJob
    <3>4. QED
      BY <1>1, <3>1, <3>2, <3>3
  <2>3. QED
    BY <2>1, <2>2, NothingSaid
<1>2. ASSUME job.state = "runs", Fail, UNCHANGED dataVars
      PROVE  ValueInv'
  <2>1. job'.outcome = "error"
    BY <1>2, RunsCalled, ReturnChanges DEF Fail
  <2>2. QED
    BY <1>0, <1>2, <2>1, KeepsRemembering, NothingSaid
<1>3. ASSUME NEW done, job.state = "runs", GoOn(done), Remembered'
      PROVE  ValueInv'
  <2>1. job'.state = "runs"
    BY <1>3, RunsCalled, GoOnChanges
  <2>2. QED
    BY <1>3, <2>1, NothingSaid
<1>4. CASE JumpTo
  <2>1. job.state = "runs" /\ UNCHANGED dataVars
    BY <1>4 DEF JumpTo
  <2>2. Fail \/ \E a \in job.plan.at : Landed(a)
    BY <1>4 DEF JumpTo, Landed
  <2>3. ASSUME NEW a \in job.plan.at, Landed(a)
        PROVE  job'.state = "runs"
    <3>1. DOMAIN job = JobFields
      BY <2>1, RunsCalled DEF CallShape
    <3>2. QED
      BY <2>1, <2>3, <3>1 DEF Landed, JobFields
  <2>4. QED
    BY <1>0, <1>2, <2>1, <2>2, <2>3, KeepsRemembering, NothingSaid
<1>5. CASE ReadNumber
  BY <1>5, NumberFaithful
<1>6. CASE ReadPiece
  <2>1. job.state = "runs" /\ job.handle \in Handle
    BY <1>6, RunsCalled DEF ReadPiece, Runs
  <2>2. CASE Fail /\ UNCHANGED vars
    BY <1>2, <2>1, <2>2 DEF vars
  <2>3. ASSUME NEW done, Read(job.handle, PieceLength), GoOn(done)
        PROVE  ValueInv'
    BY <1>0, <1>3, <2>1, <2>3, KeepsRemembering
  <2>4. QED
    BY <1>6, <2>2, <2>3 DEF ReadPiece
<1>7. CASE WritePiece
  <2>1. job.state = "runs" /\ job.handle \in Handle
    BY <1>7, RunsCalled DEF WritePiece, Runs
  <2>2. CASE Fail /\ UNCHANGED vars
    BY <1>2, <2>1, <2>2 DEF vars
  <2>3. ASSUME NEW done, NEW data, Write(job.handle, PieceLength, data), GoOn(done)
        PROVE  ValueInv'
    BY <1>0, <1>3, <2>1, <2>3, KeepsRemembering
  <2>4. QED
    BY <1>7, <2>2, <2>3 DEF WritePiece
<1>8. CASE ReadByte
  <2>1. job.state = "runs" /\ job.handle \in Handle /\ job.plan.do \in ByByte
    BY <1>8, RunsCalled DEF ReadByte, Runs, ByByte
  <2>2. CASE Fail /\ UNCHANGED vars
    BY <1>2, <2>1, <2>2 DEF vars
  <2>3. CASE /\ ReadBits(job.handle, BitRange(0, BYTE_BITS))
             /\ \/ job' = [job EXCEPT !.done = Append(@, last'.value)]
                \/ job' = [job EXCEPT !.done = Append(@, last'.value), !.state = "idle", !.outcome = "panic"]
    <3>1. PICK x : x = Append(job.done, last'.value)
      OBVIOUS
    <3>2. \/ job' = [job EXCEPT !.done = x]
          \/ job' = [job EXCEPT !.done = x, !.state = "idle", !.outcome = "panic"]
      BY <2>3, <3>1
    <3>3. DOMAIN job = JobFields
      BY <2>1, RunsCalled DEF CallShape
    <3>4. job'.plan = job.plan /\ job.plan.do # "number"
      BY <2>1, <3>2, <3>3 DEF JobFields, ByByte, LEB
    <3>5. QED
      BY <1>0, <2>1, <2>3, <3>4, KeepsRemembering, NothingSaid
  <2>4. QED
    BY <1>8, <2>2, <2>3 DEF ReadByte
<1>9. CASE Settle
  <2>1. job.state = "runs" /\ job.plan.do # "number" /\ UNCHANGED vars
    BY <1>9 DEF Settle, Runs, LEB
  <2>2. DOMAIN job = JobFields
    BY <2>1, RunsCalled DEF CallShape
  <2>3. \/ \E outcome, value : Return(outcome, value)
        \/ job' = [job EXCEPT !.plan = ReadBytesPlan(job.about)]
    BY <1>9 DEF Settle, Fail
  <2>4. job'.plan.do # "number"
    <3>1. CASE \E outcome, value : Return(outcome, value)
      BY <2>1, <3>1, RunsCalled, ReturnChanges DEF SameCall
    <3>2. CASE job' = [job EXCEPT !.plan = ReadBytesPlan(job.about)]
      <4>1. job'.plan = ReadBytesPlan(job.about)
        BY <2>2, <3>2 DEF JobFields
      <4>2. QED
        BY <4>1 DEF ReadBytesPlan, Plan
    <3>3. QED
      BY <2>3, <3>1, <3>2
  <2>5. QED
    BY <1>0, <2>1, <2>4, KeepsRemembering, NothingSaid DEF vars
<1>10. QED
  BY <1>1, <1>4, <1>5, <1>6, <1>7, <1>8, <1>9 DEF SymbolStep

\* Whatever happens, a returned number is the one of its place.
LEMMA ValueKept == AccessInv /\ ValueInv /\ [SymbolNext]_symbolVars => ValueInv'
<1> SUFFICES ASSUME AccessInv, ValueInv, [SymbolNext]_symbolVars
             PROVE  ValueInv'
  OBVIOUS
<1>0. BusInv /\ Remembered
  BY DEF AccessInv, ValueInv, Remembered
<1>1. CASE ForeignWrite
  <2>1. PICK b \in ForeignBytes :
          Store("elsewhere", b[1], b[2], 1, Filled(1, 1)) /\ torn' = torn \cup {b}
    BY <1>1 DEF ForeignWrite
  <2>2. job' = job /\ Remembered'
    BY <1>0, <1>1, KeepsRemembering DEF ForeignWrite
  <2>3. \A d \in Device : \A i \in 0 .. SizeOf[d] - 1 : memory'[d][i] = memory[d][i] \/ <<d, i>> \in torn'
    BY <1>1, ForeignBytesTorn DEF AccessInv
  <2>4. \A g \in Handle : foreign[g] \subseteq foreign'[g]
    BY <1>0, <2>1, SymbolAssumption DEF Store, Remembered
  <2>5. QED
    BY <2>1, <2>2, <2>3, <2>4, StaysFaithful
<1>2. CASE SymbolRemap \/ UNCHANGED symbolVars
  <2>1. UNCHANGED dataVars /\ job' = job /\ torn' = torn
    BY <1>2 DEF SymbolRemap, RemapBus, symbolVars, accessVars, vars
  <2>2. Remembered' /\ memory' = memory /\ foreign' = foreign
    BY <1>0, <2>1, KeepsRemembering DEF dataVars
  <2>3. /\ \A d \in Device : \A i \in 0 .. SizeOf[d] - 1 : memory'[d][i] = memory[d][i] \/ <<d, i>> \in torn'
        /\ \A g \in Handle : foreign[g] \subseteq foreign'[g] /\ torn \subseteq torn'
    BY <2>1, <2>2
  <2>4. QED
    BY <2>1, <2>2, <2>3, StaysFaithful
<1>3. QED
  BY <1>1, <1>2, CallSaysNothing, StepSaysNumber DEF SymbolNext

\* Whatever was called before, and although redirects move the map between the
\* calls: a typed value is made of the bits of memory at its declared place, in
\* the byte order of its device, unless others wrote them.
THEOREM TypedValuesFaithful == SymbolSpec => []ValuesFaithful
<1>1. SymbolInit => ValueInv
  <2> SUFFICES ASSUME SymbolInit PROVE ValueInv
    OBVIOUS
  <2>1. job = NoJob /\ \A g \in Handle : foreign[g] = {}
    BY DEF SymbolInit, Init
  <2>2. QED
    BY <2>1 DEF ValueInv, Returned, NoJob
<1>2. QED
  BY <1>1, ValueKept, ValueSaid, AccessInvariant, PTL DEF SymbolSpec
=============================================================================
