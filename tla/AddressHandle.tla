---------------------------- MODULE AddressHandle ----------------------------
(***************************************************************************)
(* Cursors over a memory map: src/src/soc/system/bus/address.rs.  Each     *)
(* handle keeps the range its last jump resolved to and a cursor into it,  *)
(* while other parties map and unmap redirects.  A handle is a &mut value: *)
(* its calls do not overlap, and a call resolves at most once, so a call   *)
(* is one step over the atomic map that DeviceBus implements               *)
(* (DeviceBus!ImplementsMap, DeviceBus!ResolvesAtomically).  A refused     *)
(* call changes nothing and is a stuttering step.                          *)
(***************************************************************************)
EXTENDS BusRanges

CONSTANTS
  Handle,
  Device,
  SizeOf,         \* Device -> bytes in the device
  InitialRanges,  \* the map the handles start from
  Redirects,      \* redirects that come and go
  Jumps,          \* arguments of jump
  Deltas,         \* arguments of jump_relative
  Counts          \* arguments of advance and retreat

MapRange ==
  [bus_start : Nat, bus_end : Nat, device_offset : Nat, device_id : Device,
   priority : {DEVICE_PRIORITY, REDIRECT_PRIORITY}]

\* Every range is the image of bytes its device has: DeviceBus!DeviceWindows.
ASSUME MapAssumption ==
  /\ SizeOf \in [Device -> Nat]
  /\ InitialRanges \cup Redirects \subseteq MapRange
  /\ \A r \in InitialRanges \cup Redirects :
       /\ r.bus_start < r.bus_end
       /\ r.device_offset + Length(r) <= SizeOf[r.device_id]
  /\ \A r, s \in InitialRanges : r # s => ~Clash(r, s)
  /\ Jumps \subseteq Nat
  /\ Deltas \subseteq Int
  /\ Counts \subseteq Nat

VARIABLES
  ranges,  \* the memory map
  active,  \* handle -> {} or {[range, cursor]}: Option<ActiveRange>
  origin   \* handle -> jump_device_offset; meaningless while active is None

addressVars == <<ranges, active, origin>>

Map == INSTANCE BusMap

At(h) == CHOOSE place \in active[h] : TRUE

Positioned(h) == active[h] # {}
bus_address(h) == At(h).range.bus_start + At(h).cursor
device_offset(h) == At(h).range.device_offset + At(h).cursor
bytes_remaining(h) == At(h).range.bus_end - bus_address(h)

MoveTo(h, c) == active' = [active EXCEPT ![h] = {[range |-> At(h).range, cursor |-> c]}]

AddressInit ==
  /\ ranges = InitialRanges
  /\ active = [h \in Handle |-> {}]
  /\ origin = [h \in Handle |-> 0]

-----------------------------------------------------------------------------
\* Variant: the origin of a jump is its cursor, not the byte of the device.
JumpFromCursor(h, a) ==
  \E r \in Best(ranges, a) :
    /\ active' = [active EXCEPT ![h] = {[range |-> r, cursor |-> a - r.bus_start]}]
    /\ origin' = [origin EXCEPT ![h] = a - r.bus_start]
    /\ UNCHANGED ranges

\* jump: nothing moves when the address is not mapped.
Jump(h, a) ==
  \E r \in Best(ranges, a) :
    /\ active' = [active EXCEPT ![h] = {[range |-> r, cursor |-> a - r.bus_start]}]
    /\ origin' = [origin EXCEPT ![h] = r.device_offset + (a - r.bus_start)]
    /\ UNCHANGED ranges

\* jump_relative counts from the last jump, not from the cursor.
JumpRelative(h, delta) ==
  LET target == origin[h] + delta
  IN  /\ Positioned(h)
      /\ target >= At(h).range.device_offset
      /\ target < At(h).range.device_offset + Length(At(h).range)
      /\ MoveTo(h, target - At(h).range.device_offset)
      /\ UNCHANGED <<ranges, origin>>

\* Variant: advance without the bound.
AdvanceUnchecked(h, n) ==
  /\ Positioned(h)
  /\ At(h).cursor < Length(At(h).range)
  /\ MoveTo(h, At(h).cursor + n)
  /\ UNCHANGED <<ranges, origin>>

Advance(h, n) ==
  /\ Positioned(h)
  /\ n <= bytes_remaining(h)
  /\ MoveTo(h, At(h).cursor + n)
  /\ UNCHANGED <<ranges, origin>>

Retreat(h, n) ==
  /\ Positioned(h)
  /\ n <= At(h).cursor
  /\ MoveTo(h, At(h).cursor - n)
  /\ UNCHANGED <<ranges, origin>>

\* redirect and remove_redirect, by any other user of the bus.
Remap ==
  /\ \/ \E r \in Redirects \ ranges : Map!Add(r)
     \/ \E r \in Redirects \cap ranges : Map!Remove(r)
  /\ UNCHANGED <<active, origin>>

Move(h) ==
  \/ \E a \in Jumps : Jump(h, a)
  \/ \E d \in Deltas : JumpRelative(h, d)
  \/ \E n \in Counts : Advance(h, n) \/ Retreat(h, n)

AddressNext == Remap \/ \E h \in Handle : Move(h)

AddressSpec == AddressInit /\ [][AddressNext]_addressVars

-----------------------------------------------------------------------------
\* Properties.

\* Every handle holds at most one place, in a range it may have resolved.
AddressTypeOK ==
  /\ ranges \subseteq InitialRanges \cup Redirects
  /\ active \in [Handle -> SUBSET [range : InitialRanges \cup Redirects, cursor : Nat]]
  /\ origin \in [Handle -> Nat]
  /\ \A h \in Handle : \A p, q \in active[h] : p = q

\* However a handle is moved, and although its range may be unmapped under it,
\* the bytes from its cursor to the end of its range are bytes of the device:
\* transact never hands a device an offset beyond its span.
HandleInWindow ==
  \A h \in Handle : Positioned(h) =>
    /\ bytes_remaining(h) >= 0
    /\ device_offset(h) + bytes_remaining(h) <= SizeOf[At(h).range.device_id]

\* jump_relative(0) always finds its way back: the place of the last jump is
\* inside the range the handle holds.
OriginInRange ==
  \A h \in Handle : Positioned(h) =>
    /\ origin[h] >= At(h).range.device_offset
    /\ origin[h] < At(h).range.device_offset + Length(At(h).range)

\* The device and the byte of it that a bus address leads to.
Leads(r, a) == [device |-> r.device_id, byte |-> r.device_offset + (a - r.bus_start)]

\* A cursor never resolves again while it moves.  It can stand on another byte
\* than a jump to its bus address would find only where an overlay covers that
\* address or its own range has left the map.
DivergesOnlyUnderOverlay ==
  \A h \in Handle : Positioned(h) /\ bytes_remaining(h) > 0 /\ At(h).range \in ranges =>
    \A r \in Best(ranges, bus_address(h)) :
      \/ Leads(r, bus_address(h)) = Leads(At(h).range, bus_address(h))
      \/ r.priority > At(h).range.priority
=============================================================================
