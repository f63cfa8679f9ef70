---------------------------- MODULE MCCoreState ----------------------------
(***************************************************************************)
(* An instance of CoreState for TLC: a memory of twelve words of two bytes *)
(* of two bits.                                                            *)
(***************************************************************************)
EXTENDS CoreState

Place(offset, len) == [bit_offset |-> offset, bit_len |-> len]

Sizes == [d \in Device |-> 24]
Whole == {[bus_start |-> 0, bus_end |-> 24, device_offset |-> 0, device_id |-> Memory,
           priority |-> DEVICE_PRIORITY]}
Little == [d \in Device |-> "Little"]
Zeros == [d \in Device |-> Filled(SizeOf[d], 0)]

\* One register so long that its end wraps and one that is not narrow; behind
\* them registers that start inside bytes, one that crosses from word to word,
\* one that needs three words of the cache and one in the last byte.
Packed ==
  [vast |-> Place(1, 15), huge |-> Place(16, 16),
   pc |-> Place(32, 3), sp |-> Place(35, 3), wide |-> Place(39, 8), flag |-> Place(47, 1)]

WrittenValues == {[k \in 0 .. 7 |-> 1], [k \in 0 .. 7 |-> k % 2]}
=============================================================================
