------------------------------ MODULE BusRanges ------------------------------
(***************************************************************************)
(* The ranges of a memory map: src/src/soc/system/bus/range.rs and the two *)
(* priorities of device_bus.rs.  A range maps the bus addresses from       *)
(* bus_start up to bus_end to the bytes of one device from device_offset   *)
(* on.                                                                     *)
(***************************************************************************)
EXTENDS Integers

DEVICE_PRIORITY == 0
REDIRECT_PRIORITY == 10

Contains(r, a) == r.bus_start <= a /\ a < r.bus_end
Overlaps(r, s) == r.bus_start < s.bus_end /\ s.bus_start < r.bus_end
Length(r) == r.bus_end - r.bus_start

\* The ranges of devices are never unmapped.
Permanent(r) == r.priority = DEVICE_PRIORITY

\* insert_segment refuses a segment next to such a one.
Clash(r, s) == r.priority = s.priority /\ Overlaps(r, s)

\* What a reader of the map finds at an address: the ranges of the highest
\* priority that contain it.
Best(ranges, a) ==
  LET hits == {r \in ranges : Contains(r, a)}
  IN  {r \in hits : \A s \in hits : r.priority >= s.priority}
=============================================================================
