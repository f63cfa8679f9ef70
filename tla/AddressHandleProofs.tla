------------------------- MODULE AddressHandleProofs -------------------------
(***************************************************************************)
(* Proofs about AddressHandle: wherever a cursor is moved and whatever is  *)
(* mapped or unmapped meanwhile, it stays on bytes of its device.          *)
(***************************************************************************)
EXTENDS AddressHandle, TLAPS

\* What a place a handle holds satisfies: the cursor is inside the range or at
\* its end, and the last jump ended inside the range.
PlaceOK(p, o) ==
  /\ p.cursor <= Length(p.range)
  /\ o >= p.range.device_offset
  /\ o < p.range.device_offset + Length(p.range)

PlacesOK == \A h \in Handle : \A p \in active[h] : PlaceOK(p, origin[h])

Known == InitialRanges \cup Redirects

\* The fields of a range that can be mapped.
LEMMA RangeFields ==
  ASSUME NEW r \in Known
  PROVE  /\ r.bus_start \in Nat /\ r.bus_end \in Nat /\ r.device_offset \in Nat
         /\ r.device_id \in Device /\ SizeOf[r.device_id] \in Nat
         /\ r.bus_start < r.bus_end
         /\ r.device_offset + Length(r) <= SizeOf[r.device_id]
BY MapAssumption DEF Known, MapRange

\* A positioned handle holds exactly the place At gives.
LEMMA PlaceOf ==
  ASSUME AddressTypeOK, NEW h \in Handle, Positioned(h)
  PROVE  /\ At(h) \in [range : Known, cursor : Nat]
         /\ active[h] = {At(h)}
<1>1. At(h) \in active[h]
  BY DEF Positioned, At
<1>2. active[h] \subseteq [range : Known, cursor : Nat]
  BY DEF AddressTypeOK, Known
<1>3. \A q \in active[h] : q = At(h)
  BY <1>1 DEF AddressTypeOK
<1>4. QED
  BY <1>1, <1>2, <1>3

\* Moving a handle to place p with jump origin o keeps both invariants when p
\* and o are right.
LEMMA PlaceStep ==
  ASSUME AddressTypeOK, PlacesOK,
         NEW h \in Handle, NEW p \in [range : Known, cursor : Nat], NEW o \in Nat,
         PlaceOK(p, o),
         active' = [active EXCEPT ![h] = {p}],
         origin' = [origin EXCEPT ![h] = o],
         ranges' = ranges
  PROVE  AddressTypeOK' /\ PlacesOK'
<1>1. active' \in [Handle -> SUBSET [range : Known, cursor : Nat]]
  BY DEF AddressTypeOK, Known
<1>2. active'[h] = {p} /\ origin'[h] = o
  BY DEF AddressTypeOK
<1>3. \A g \in Handle \ {h} : active'[g] = active[g] /\ origin'[g] = origin[g]
  BY DEF AddressTypeOK
<1>4. \A g \in Handle : \A q, r \in active'[g] : q = r
  BY <1>2, <1>3 DEF AddressTypeOK
<1>5. AddressTypeOK'
  BY <1>1, <1>4 DEF AddressTypeOK, Known
<1>6. PlacesOK'
  BY <1>2, <1>3 DEF PlacesOK
<1>7. QED
  BY <1>5, <1>6

\* A move inside the range keeps the origin of the last jump.
LEMMA CursorStep ==
  ASSUME AddressTypeOK, PlacesOK, NEW h \in Handle, Positioned(h),
         NEW c \in Nat, c <= Length(At(h).range), MoveTo(h, c), UNCHANGED <<ranges, origin>>
  PROVE  AddressTypeOK' /\ PlacesOK'
<1> DEFINE p == [range |-> At(h).range, cursor |-> c]
<1>1. At(h) \in [range : Known, cursor : Nat] /\ At(h) \in active[h]
  BY PlaceOf
<1>2. p \in [range : Known, cursor : Nat]
  BY <1>1
<1>3. PlaceOK(At(h), origin[h])
  BY <1>1 DEF PlacesOK
<1>4. PlaceOK(p, origin[h])
  BY <1>3 DEF PlaceOK
<1>5. origin' = [origin EXCEPT ![h] = origin[h]] /\ origin[h] \in Nat
  BY DEF AddressTypeOK
<1>6. active' = [active EXCEPT ![h] = {p}]
  BY DEF MoveTo
<1> HIDE DEF p
<1>7. QED
  BY <1>2, <1>4, <1>5, <1>6, PlaceStep

\* A jump to any address keeps both invariants.
LEMMA JumpKeeps ==
  ASSUME AddressTypeOK, PlacesOK, NEW h \in Handle, NEW a \in Nat, Jump(h, a)
  PROVE  AddressTypeOK' /\ PlacesOK'
<1>1. PICK r \in Best(ranges, a) :
        /\ active' = [active EXCEPT ![h] = {[range |-> r, cursor |-> a - r.bus_start]}]
        /\ origin' = [origin EXCEPT ![h] = r.device_offset + (a - r.bus_start)]
        /\ UNCHANGED ranges
  BY DEF Jump
<1>2. r \in Known /\ Contains(r, a)
  BY <1>1 DEF Best, AddressTypeOK, Known
<1>3. a - r.bus_start \in Nat /\ a - r.bus_start < Length(r)
  BY <1>2, RangeFields DEF Contains, Length
<1> DEFINE p == [range |-> r, cursor |-> a - r.bus_start]
           o == r.device_offset + (a - r.bus_start)
<1>4. p \in [range : Known, cursor : Nat] /\ o \in Nat
  BY <1>2, <1>3, RangeFields
<1>5. PlaceOK(p, o)
  BY <1>2, <1>3, RangeFields DEF PlaceOK, Length
<1> HIDE DEF p, o
<1>6. QED
  BY <1>1, <1>4, <1>5, PlaceStep DEF p, o

\* Every move of a handle keeps both invariants.
LEMMA MoveKeeps ==
  ASSUME AddressTypeOK, PlacesOK, NEW h \in Handle, Move(h)
  PROVE  AddressTypeOK' /\ PlacesOK'
<1>1. ASSUME NEW a \in Jumps, Jump(h, a)
      PROVE  AddressTypeOK' /\ PlacesOK'
  BY <1>1, JumpKeeps, MapAssumption
<1>2. ASSUME NEW d \in Deltas, JumpRelative(h, d)
      PROVE  AddressTypeOK' /\ PlacesOK'
  <2> DEFINE c == (origin[h] + d) - At(h).range.device_offset
  <2>1. Positioned(h) /\ MoveTo(h, c) /\ UNCHANGED <<ranges, origin>>
    BY <1>2 DEF JumpRelative
  <2>2. At(h).range \in Known
    BY <2>1, PlaceOf
  <2>3. c \in Nat /\ c <= Length(At(h).range)
    BY <1>2, <2>2, RangeFields, MapAssumption DEF JumpRelative, AddressTypeOK, Length
  <2> HIDE DEF c
  <2>4. QED
    BY <2>1, <2>3, CursorStep
<1>3. ASSUME NEW n \in Counts, Advance(h, n)
      PROVE  AddressTypeOK' /\ PlacesOK'
  <2>1. Positioned(h) /\ MoveTo(h, At(h).cursor + n) /\ UNCHANGED <<ranges, origin>>
    BY <1>3 DEF Advance
  <2>2. At(h).range \in Known /\ At(h).cursor \in Nat /\ n \in Nat
    BY <2>1, PlaceOf, MapAssumption
  <2>3. At(h).cursor + n \in Nat /\ At(h).cursor + n <= Length(At(h).range)
    BY <1>3, <2>2, RangeFields DEF Advance, bytes_remaining, bus_address, Length
  <2>4. QED
    BY <2>1, <2>3, CursorStep
<1>4. ASSUME NEW n \in Counts, Retreat(h, n)
      PROVE  AddressTypeOK' /\ PlacesOK'
  <2>1. Positioned(h) /\ MoveTo(h, At(h).cursor - n) /\ UNCHANGED <<ranges, origin>>
    BY <1>4 DEF Retreat
  <2>2. At(h) \in active[h] /\ At(h).range \in Known /\ At(h).cursor \in Nat /\ n \in Nat
    BY <2>1, PlaceOf, MapAssumption
  <2>3. At(h).cursor <= Length(At(h).range)
    BY <2>2 DEF PlacesOK, PlaceOK
  <2>4. At(h).cursor - n \in Nat /\ At(h).cursor - n <= Length(At(h).range)
    BY <1>4, <2>2, <2>3, RangeFields DEF Retreat, Length
  <2>5. QED
    BY <2>1, <2>4, CursorStep
<1>5. QED
  BY <1>1, <1>2, <1>3, <1>4 DEF Move

\* Redirects that come and go leave every handle as it is.
LEMMA RemapKeeps ==
  ASSUME AddressTypeOK, PlacesOK, Remap
  PROVE  AddressTypeOK' /\ PlacesOK'
<1>1. active' = active /\ origin' = origin
  BY DEF Remap
<1>2. ranges' \subseteq Known
  BY DEF Remap, Map!Add, Map!Remove, AddressTypeOK, Known
<1>3. QED
  BY <1>1, <1>2 DEF AddressTypeOK, PlacesOK, Known

\* The two invariants hold together: a cursor is moved relative to a range that
\* must be one of the map's, and stays inside it.
LEMMA PlacesInvariant == AddressSpec => [](AddressTypeOK /\ PlacesOK)
<1>1. AddressInit => AddressTypeOK /\ PlacesOK
  BY DEF AddressInit, AddressTypeOK, PlacesOK
<1>2. AddressTypeOK /\ PlacesOK /\ [AddressNext]_addressVars => (AddressTypeOK /\ PlacesOK)'
  <2> SUFFICES ASSUME AddressTypeOK, PlacesOK, [AddressNext]_addressVars
               PROVE  AddressTypeOK' /\ PlacesOK'
    OBVIOUS
  <2>1. CASE Remap
    BY <2>1, RemapKeeps
  <2>2. CASE \E h \in Handle : Move(h)
    BY <2>2, MoveKeeps
  <2>3. CASE UNCHANGED addressVars
    BY <2>3 DEF addressVars, AddressTypeOK, PlacesOK
  <2>4. QED
    BY <2>1, <2>2, <2>3 DEF AddressNext
<1>3. QED
  BY <1>1, <1>2, PTL DEF AddressSpec

\* Every handle holds at most one place, in a range it may have resolved.
THEOREM AddressTypeCorrect == AddressSpec => []AddressTypeOK
<1>1. QED
  BY PlacesInvariant, PTL

\* However handles are moved, and although their ranges may be unmapped under
\* them, transact never hands a device an offset beyond its span.
THEOREM CursorInWindow == AddressSpec => []HandleInWindow
<1>1. AddressTypeOK /\ PlacesOK => HandleInWindow
  <2> SUFFICES ASSUME AddressTypeOK, PlacesOK, NEW h \in Handle, Positioned(h)
               PROVE  /\ bytes_remaining(h) >= 0
                      /\ device_offset(h) + bytes_remaining(h) <= SizeOf[At(h).range.device_id]
    BY DEF HandleInWindow
  <2>1. At(h) \in active[h] /\ At(h).range \in Known /\ At(h).cursor \in Nat
    BY PlaceOf
  <2>2. At(h).cursor <= Length(At(h).range)
    BY <2>1 DEF PlacesOK, PlaceOK
  <2>3. QED
    BY <2>1, <2>2, RangeFields DEF bytes_remaining, device_offset, bus_address, Length
<1>2. QED
  BY <1>1, PlacesInvariant, PTL

\* jump_relative(0) always finds its way back to the last jump.
THEOREM JumpsCanReturn == AddressSpec => []OriginInRange
<1>1. AddressTypeOK /\ PlacesOK => OriginInRange
  BY PlaceOf DEF OriginInRange, PlacesOK, PlaceOK
<1>2. QED
  BY <1>1, PlacesInvariant, PTL

\* No two ranges of the map clash.
RangesApart == \A r, s \in ranges : r # s => ~Clash(r, s)

\* Bus ranges stay pairwise apart, as a clash is refused when a range is added.
LEMMA RangesStayApart == AddressSpec => []RangesApart
<1>1. AddressInit => RangesApart
  BY MapAssumption DEF AddressInit, RangesApart
<1>2. RangesApart /\ [AddressNext]_addressVars => RangesApart'
  <2> SUFFICES ASSUME RangesApart, [AddressNext]_addressVars
               PROVE  RangesApart'
    OBVIOUS
  <2>1. ASSUME NEW r, Map!Add(r)
        PROVE  RangesApart'
    BY <2>1 DEF Map!Add, RangesApart, Clash, Overlaps
  <2>2. ASSUME NEW r, Map!Remove(r)
        PROVE  RangesApart'
    BY <2>2 DEF Map!Remove, RangesApart
  <2>3. CASE ranges' = ranges
    BY <2>3 DEF RangesApart
  <2>4. QED
    BY <2>1, <2>2, <2>3 DEF AddressNext, addressVars, Remap, Move, Jump, JumpRelative, Advance, Retreat
<1>3. QED
  BY <1>1, <1>2, PTL DEF AddressSpec

\* A cursor keeps the range its jump found.  While that range is mapped and the
\* cursor is not at its end, a jump to the cursor's address would lead to the
\* same byte, unless a range of higher priority now covers it: two ranges of
\* one priority never share the address.
THEOREM CursorResolvesAgain == AddressSpec => []DivergesOnlyUnderOverlay
<1>1. AddressTypeOK /\ PlacesOK /\ RangesApart => DivergesOnlyUnderOverlay
  <2> SUFFICES ASSUME AddressTypeOK, PlacesOK, RangesApart, NEW h \in Handle,
                      Positioned(h), bytes_remaining(h) > 0, At(h).range \in ranges,
                      NEW r \in Best(ranges, bus_address(h)), ~(r.priority > At(h).range.priority)
               PROVE  Leads(r, bus_address(h)) = Leads(At(h).range, bus_address(h))
    BY DEF DivergesOnlyUnderOverlay
  <2> DEFINE mine == At(h).range
             a == bus_address(h)
  <2>1. mine \in Known /\ At(h).cursor \in Nat /\ r \in Known /\ r \in ranges
    BY PlaceOf DEF Best, AddressTypeOK, Known
  <2>2. Contains(r, a) /\ \A s \in ranges : Contains(s, a) => r.priority >= s.priority
    BY DEF Best
  <2>3. Contains(mine, a)
    BY <2>1, RangeFields DEF Contains, bytes_remaining, bus_address
  <2>4. r.priority \in {DEVICE_PRIORITY, REDIRECT_PRIORITY}
        /\ mine.priority \in {DEVICE_PRIORITY, REDIRECT_PRIORITY}
    BY <2>1, MapAssumption DEF Known, MapRange
  <2>5. r.priority = mine.priority
    BY <2>2, <2>3, <2>4 DEF DEVICE_PRIORITY, REDIRECT_PRIORITY
  <2>6. a \in Nat
    BY <2>1, RangeFields DEF bus_address
  <2>7. Overlaps(r, mine)
    BY <2>1, <2>2, <2>3, <2>6, RangeFields DEF Contains, Overlaps
  <2>8. r = mine
    BY <2>1, <2>5, <2>7 DEF RangesApart, Clash
  <2>9. QED
    BY <2>8
<1>2. QED
  BY <1>1, PlacesInvariant, RangesStayApart, PTL
=============================================================================
