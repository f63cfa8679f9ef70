-------------------------- MODULE MCAddressHandle --------------------------
(***************************************************************************)
(* An instance of AddressHandle for TLC.                                   *)
(***************************************************************************)
EXTENDS AddressHandle

RangeOf(start, end, offset, device, level) ==
  [bus_start |-> start, bus_end |-> end, device_offset |-> offset, device_id |-> device,
   priority |-> level]

Sizes == [d \in Device |-> IF d = "ram" THEN 5 ELSE 3]

\* Two devices with a gap between them.
TwoDevices ==
  {RangeOf(0, 5, 0, "ram", DEVICE_PRIORITY), RangeOf(6, 9, 0, "rom", DEVICE_PRIORITY)}

\* Aliases into the gap and over the seam, one over the middle of a device, and
\* one that clashes with both.
Overlays ==
  {RangeOf(9, 12, 2, "ram", REDIRECT_PRIORITY), RangeOf(4, 6, 1, "rom", REDIRECT_PRIORITY),
   RangeOf(2, 3, 0, "rom", REDIRECT_PRIORITY), RangeOf(5, 10, 0, "ram", REDIRECT_PRIORITY)}

EveryAddress == 0 .. 12
SmallDeltas == -3 .. 3
SmallCounts == 0 .. 4
=============================================================================
