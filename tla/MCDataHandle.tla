---------------------------- MODULE MCDataHandle ----------------------------
(***************************************************************************)
(* Instances of DataHandle for TLC, scaled down: a byte has two bits and a *)
(* word two bytes, so a chunk has four bits or eight, and slices start in  *)
(* the middle of bytes, end in the middle of words and cross them.         *)
(***************************************************************************)
EXTENDS DataHandle

RangeOf(start, end, offset, device, level) ==
  [bus_start |-> start, bus_end |-> end, device_offset |-> offset, device_id |-> device,
   priority |-> level]

Slice(offset, len) == [bit_offset |-> offset, bit_len |-> len]

\* A device of four and a half words and a big-endian one of two words.
Sizes == [d \in Device |-> IF d = "ram" THEN 9 ELSE 4]
Orders == [d \in Device |-> IF d = "ram" THEN "Little" ELSE "Big"]
Zeros == [d \in Device |-> Filled(SizeOf[d], 0)]
TwoDevices ==
  {RangeOf(0, 9, 0, "ram", DEVICE_PRIORITY), RangeOf(9, 13, 0, "rom", DEVICE_PRIORITY)}

\* An overlay at the seam of both: an alias of two bytes that lie in different
\* words.
SeamAlias == {RangeOf(8, 10, 1, "ram", REDIRECT_PRIORITY)}
NoRedirects == {}

\* Within a byte, across bytes, a whole word, across words, too wide, and so
\* long that its end wraps into the first word.
MixedSlices == {Slice(1, 1), Slice(1, 2), Slice(0, 4), Slice(1, 7), Slice(0, 15)}
WrittenValues == {[k \in 0 .. 7 |-> 1], [k \in 0 .. 7 |-> k % 2]}
=============================================================================
