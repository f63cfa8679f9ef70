--------------------------- MODULE MCSymbolAccess ---------------------------
(***************************************************************************)
(* An instance of SymbolAccess for TLC: bytes of four bits, words of two   *)
(* bytes, so a u64 has eight bits and a piece four bytes.                  *)
(***************************************************************************)
EXTENDS SymbolAccess

RangeOf(start, end, offset, device, level) ==
  [bus_start |-> start, bus_end |-> end, device_offset |-> offset, device_id |-> device,
   priority |-> level]

\* The last byte of rom is no word.
Sizes == [d \in Device |-> IF d = "ram" THEN 8 ELSE 3]
Orders == [d \in Device |-> IF d = "ram" THEN "Little" ELSE "Big"]
TwoDevices ==
  {RangeOf(0, 8, 0, "ram", DEVICE_PRIORITY), RangeOf(8, 11, 0, "rom", DEVICE_PRIORITY)}
Alias == {RangeOf(2, 4, 0, "rom", REDIRECT_PRIORITY)}

ByteOf(n) == [b \in 0 .. BYTE_BITS - 1 |-> (n \div 2^b) % 2]
BytesOf(numbers) == [i \in DOMAIN numbers |-> ByteOf(numbers[i])]
Held(d) == IF d = "ram" THEN <<2, 5, 9, 0, 15, 13, 8, 3>> ELSE <<9, 10, 12>>
Patterned == [d \in Device |-> [i \in 0 .. SizeOf[d] - 1 |-> ByteOf(Held(d)[i + 1])]]

\* Indexes of the arena.
U4 == 1
I8 == 2
LOW == 3
FAR == 4
POINTER == 5
TEXT == 6
BLOB == 7
SEE == 8
FATPOINTER == 9
EMPTY == 10
PAIR == 11
ARRAY == 12
FLAGS == 13
NODE == 14
ENDLESS == 15
REAL == 16

Arena ==
  <<Scalar("unsigned", 1),
    Scalar("signed", 2),
    BitField(Fields!Field(<<Fields!Slice(1, 2)>>, "none", 0, TRUE)),
    BitField(Fields!Field(<<Fields!Slice(6, 1), Fields!Slice(4, 1)>>, "zero", 3, FALSE)),
    Pointer(I8, 1),
    Scalar("utf8", 5),
    Opaque(6),
    Pointer(BLOB, 1),
    Pointer(I8, 3),
    Scalar("unsigned", 0),
    Aggregate(<<member(U4, 0), member(SEE, 1)>>, 2, 0),
    SequenceOf(PAIR, 2, {2}),
    Aggregate(<<member_bits(LOW, 1), member_bits(FAR, 5), member_bits(U4, 14), member(EMPTY, 6),
                member(I8, 4)>>, 6, 0),
    Aggregate(<<member(PAIR, 0), member(FATPOINTER, 0), member(POINTER, 0), member(TEXT, 1)>>, 6, 0),
    SequenceOf(U4, 1, {}),
    Scalar("floating", 3)>>

Symbol(label, id, address) ==
  [NewSymbol(label) EXCEPT !.type_id = id, !.runtime_addr = address]

\* Laid out over each other; of two symbols of a label the first is found.
Program ==
  Committed(<<
    Symbol("flags", {FLAGS}, {0}),
    Symbol("array", {ARRAY}, {1}),
    Symbol("array", {TEXT}, {0}),
    [Symbol("node", {NODE}, {}) EXCEPT !.file_addr = {1}, !.symbol_id = {7}],
    Symbol("blob", {BLOB}, {4}),
    [Symbol("wide", {POINTER}, {8}) EXCEPT !.size = {2}],
    [Symbol("far", {I8}, {9}) EXCEPT !.symbol_id = {7}],
    Symbol("field", {LOW}, {0}),
    Symbol("nowhere", {U4}, {}),
    Symbol("endless", {ENDLESS}, {0}),
    Symbol("real", {REAL}, {5}),
    [Symbol("plain", {}, {12}) EXCEPT !.size = {1}]>>)

Looked ==
  {[by |-> "label", key |-> l] : l \in {"flags", "array", "node", "blob", "field", "nowhere", "real"}}
    \cup {[by |-> "symbol_id", key |-> 7], [by |-> "query", key |-> [Query EXCEPT !.label = {"wide"}]],
          [by |-> "query", key |-> [Query EXCEPT !.runtime_addr = {12}]],
          [by |-> "query", key |-> [Query EXCEPT !.label = {"endless"}]]}

Stream(a, kind, length) == [at |-> a, do |-> kind, len |-> length]
Heard == {Stream(4, "uleb", 0), Stream(5, "sleb", 0), Stream(9, "uleb", 0), Stream(0, "c_string", 6)}

Written == {BytesOf(<<5, 0>>), BytesOf(<<1, 2, 3, 4, 6>>)}
Elsewhere == {<<"ram", 5>>}
=============================================================================
