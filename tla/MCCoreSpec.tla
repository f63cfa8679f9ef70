----------------------------- MODULE MCCoreSpec -----------------------------
(***************************************************************************)
(* Instances of CoreSpec for TLC: bytes of two bits, words of two bytes,   *)
(* and u32 scaled down to 5 bits, so that layouts of three registers reach *)
(* its limit.                                                              *)
(***************************************************************************)
EXTENDS CoreSpec

\* No offset, or a byte offset: inside the first words, at the very end of the
\* range of u32, and beyond it.
SomeOffsets == {{}, {0}, {1}, {3}, {15}, {16}}
=============================================================================
