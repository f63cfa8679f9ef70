------------------------- MODULE DeviceBusMapProofs -------------------------
(***************************************************************************)
(* Proofs about what the tables of DeviceBus stand for: which segments the *)
(* buckets hold, which of them the indexes can take down again, that the   *)
(* whole is a memory map, that lookups see it at one instant, and when the *)
(* locks can block each other for good.                                    *)
(***************************************************************************)
EXTENDS DeviceBusProofs, SequenceTheorems

-----------------------------------------------------------------------------
\* The segments of a bucket, as a set.

Segments(entry) == {entry[i] : i \in 1 .. Len(entry)}

\* Inserting a segment adds that one to a bucket and nothing else.
LEMMA InsertSegments ==
  ASSUME NEW entry \in Seq(BusRange), NEW s \in BusRange
  PROVE  Segments(insert_segment(entry, s)) = Segments(entry) \cup {s}
<1> DEFINE new == insert_segment(entry, s)
<1>1. PICK p \in 1 .. Len(entry) + 1 :
        /\ new[p] = s
        /\ \A i \in 1 .. p - 1 : new[i] = entry[i] /\ ~GoesBefore(s, entry[i])
        /\ \A i \in p + 1 .. Len(entry) + 1 : new[i] = entry[i - 1]
        /\ p <= Len(entry) => GoesBefore(s, entry[p])
  BY InsertElements
<1>2. Len(new) = Len(entry) + 1 /\ Len(entry) \in Nat
  BY InsertShape
<1> HIDE DEF new
<1>3. ASSUME NEW i \in 1 .. Len(new)
      PROVE  new[i] \in Segments(entry) \cup {s}
  <2>1. CASE i < p
    <3>1. i \in 1 .. p - 1 /\ i \in 1 .. Len(entry)
      BY <1>2, <2>1
    <3>2. QED
      BY <1>1, <3>1 DEF Segments
  <2>2. CASE i = p
    BY <1>1, <2>2
  <2>3. CASE i > p
    <3>1. i \in p + 1 .. Len(entry) + 1 /\ i - 1 \in 1 .. Len(entry)
      BY <1>2, <2>3
    <3>2. QED
      BY <1>1, <3>1 DEF Segments
  <2>4. QED
    BY <1>2, <2>1, <2>2, <2>3
<1>4. ASSUME NEW i \in 1 .. Len(entry)
      PROVE  entry[i] \in Segments(new)
  <2>1. CASE i < p
    <3>1. i \in 1 .. p - 1 /\ i \in 1 .. Len(new)
      BY <1>2, <2>1
    <3>2. QED
      BY <1>1, <3>1 DEF Segments
  <2>2. CASE i >= p
    <3>1. i + 1 \in p + 1 .. Len(entry) + 1 /\ i + 1 \in 1 .. Len(new) /\ (i + 1) - 1 = i
      BY <1>2, <2>2
    <3>2. QED
      BY <1>1, <3>1 DEF Segments
  <2>3. QED
    BY <1>2, <2>1, <2>2
<1>5. s \in Segments(new)
  BY <1>1, <1>2 DEF Segments
<1>6. QED
  BY <1>3, <1>4, <1>5 DEF Segments, new

\* retain takes segments of the given id only.
LEMMA RetainSegments ==
  ASSUME NEW entry \in Seq(BusRange), NEW id
  PROVE  /\ Segments(Retain(entry, id)) \subseteq Segments(entry)
         /\ \A s \in Segments(entry) : s.id # id => s \in Segments(Retain(entry, id))
<1> DEFINE new == Retain(entry, id)
<1>1. Len(entry) \in Nat
  OBVIOUS
<1>2. CASE \E i \in 1 .. Len(entry) : entry[i].id = id
  <2> DEFINE k == CHOOSE i \in 1 .. Len(entry) : entry[i].id = id
  <2>1. k \in 1 .. Len(entry) /\ entry[k].id = id
    BY <1>2
  <2>2. new = [i \in 1 .. Len(entry) - 1 |-> IF i < k THEN entry[i] ELSE entry[i + 1]]
    BY <1>2 DEF Retain
  <2> HIDE DEF k
  <2>3. Len(new) = Len(entry) - 1
    BY <1>1, <2>1, <2>2
  <2> HIDE DEF new
  <2>4. ASSUME NEW i \in 1 .. Len(new)
        PROVE  new[i] \in Segments(entry)
    <3>1. i \in 1 .. Len(entry) /\ i + 1 \in 1 .. Len(entry) /\ i \in 1 .. Len(entry) - 1
      BY <1>1, <2>3
    <3>2. QED
      BY <2>2, <3>1 DEF Segments
  <2>5. ASSUME NEW i \in 1 .. Len(entry), entry[i].id # id
        PROVE  entry[i] \in Segments(new)
    <3>1. CASE i < k
      <4>1. i \in 1 .. Len(entry) - 1
        BY <1>1, <2>1, <3>1
      <4>2. QED
        BY <2>2, <2>3, <3>1, <4>1 DEF Segments
    <3>2. CASE i > k
      <4>1. i - 1 \in 1 .. Len(entry) - 1 /\ ~(i - 1 < k) /\ (i - 1) + 1 = i
        BY <1>1, <2>1, <3>2
      <4>2. QED
        BY <2>2, <2>3, <4>1 DEF Segments
    <3>3. QED
      BY <1>1, <2>1, <2>5, <3>1, <3>2
  <2>6. QED
    BY <2>4, <2>5 DEF Segments, new
<1>3. CASE ~\E i \in 1 .. Len(entry) : entry[i].id = id
  BY <1>3 DEF Retain
<1>4. QED
  BY <1>2, <1>3

\* What a step of t does to the segments of the buckets: it puts the segment in
\* hand into some of them, takes segments of the range it removes out of some,
\* or leaves them alone.
LEMMA SegmentSteps ==
  ASSUME TypeOK, NEW t \in Thread, BeginCall(t) \/ Step(t)
  PROVE  \/ \A b \in BucketIndex : SegmentsIn(b)' = SegmentsIn(b)
         \/ /\ pc[t] = "add_range"
            /\ \A b \in BucketIndex : SegmentsIn(b)' \in {SegmentsIn(b), SegmentsIn(b) \cup {seg[t]}}
         \/ /\ pc[t] = "clear_buckets"
            /\ \A b \in BucketIndex :
                 /\ SegmentsIn(b)' \subseteq SegmentsIn(b)
                 /\ \A s \in SegmentsIn(b) : s.id # pending[t].id => s \in SegmentsIn(b)'
<1> USE DEF tables
<1>0. seg[t] \in BusRange /\ \A b \in BucketIndex : buckets[b] \in Seq(BusRange)
  BY DEF TypeOK
<1>00. \A b \in BucketIndex : SegmentsIn(b) = Segments(buckets[b]) /\ SegmentsIn(b)' = Segments(buckets'[b])
  BY DEF SegmentsIn, Segments
<1>1. CASE BeginCall(t)
  BY <1>1 DEF BeginCall, BeginRegister, BeginRedirect, BeginRemove, BeginResolve, SegmentsIn
<1>2. CASE AddRange(t)
  <2>1. ASSUME NEW b \in BucketIndex
        PROVE  buckets'[b] = buckets[b] \/ buckets'[b] = insert_segment(buckets[b], seg[t])
    BY <1>2 DEF AddRange
  <2>2. \A b \in BucketIndex : SegmentsIn(b)' \in {SegmentsIn(b), SegmentsIn(b) \cup {seg[t]}}
    BY <1>0, <1>00, <2>1, InsertSegments
  <2>3. QED
    BY <1>2, <2>2 DEF AddRange
<1>3. CASE AddRangeConflict(t)
  <2>1. ASSUME NEW b \in BucketIndex
        PROVE  buckets'[b] = buckets[b] \/ buckets'[b] = insert_segment(buckets[b], seg[t])
    BY <1>3 DEF AddRangeConflict
  <2>2. \A b \in BucketIndex : SegmentsIn(b)' \in {SegmentsIn(b), SegmentsIn(b) \cup {seg[t]}}
    BY <1>0, <1>00, <2>1, InsertSegments
  <2>3. QED
    BY <1>3, <2>2 DEF AddRangeConflict
<1>4. CASE ClearBuckets(t)
  <2>1. ASSUME NEW b \in BucketIndex
        PROVE  buckets'[b] = buckets[b] \/ buckets'[b] = Retain(buckets[b], pending[t].id)
    BY <1>4 DEF ClearBuckets
  <2>2. ASSUME NEW b \in BucketIndex
        PROVE  /\ SegmentsIn(b)' \subseteq SegmentsIn(b)
               /\ \A s \in SegmentsIn(b) : s.id # pending[t].id => s \in SegmentsIn(b)'
    BY <1>0, <1>00, <2>1, RetainSegments
  <2>3. pc[t] = "clear_buckets"
    BY <1>4 DEF ClearBuckets
  <2>4. QED
    BY <2>2, <2>3, Zenon
<1>5. CASE \/ CheckName(t) \/ LockDevices(t) \/ PushDevice(t) \/ ReportConflict(t)
           \/ FindSegment(t) \/ FindDevice(t) \/ AimRedirect(t) \/ RecordRedirect(t)
           \/ DropRange(t)
  BY <1>5 DEF CheckName, LockDevices, PushDevice, ReportConflict, FindSegment, FindDevice,
              AimRedirect, RecordRedirect, DropRange, SegmentsIn
<1>6. QED
  BY <1>1, <1>2, <1>3, <1>4, <1>5 DEF Step

-----------------------------------------------------------------------------
\* Segments inside their devices.

\* The window of InWindow, for a given list of devices.
Fits(known, s) ==
  /\ s.device_id \in 1 .. Len(known)
  /\ s.bus_start < s.bus_end
  /\ s.device_offset + (s.bus_end - s.bus_start) <= known[s.device_id].size

\* A window that fits its device still fits when a device is registered.
LEMMA FitsMonotone ==
  ASSUME NEW D, NEW known \in Seq(D), NEW d \in D, NEW s, Fits(known, s)
  PROVE  Fits(Append(known, d), s)
BY DEF Fits

\* The size of a registered device is a number.
LEMMA SizeNat ==
  ASSUME NEW known \in Seq([name : STRING, size : Address]), NEW i \in 1 .. Len(known)
  PROVE  known[i].size \in Nat
<1>1. known[i] \in [name : STRING, size : Address]
  BY ElementOfSeq
<1>2. QED
  BY <1>1 DEF Address

\* A part of a window that fits is a window that fits.
LEMMA PartFits ==
  ASSUME NEW offset \in Nat, NEW start \in Nat, NEW end \in Nat, NEW size \in Nat,
         NEW from \in Nat, NEW source \in Nat, NEW n \in Nat,
         offset + (end - start) <= size, from + n <= end
  PROVE  offset + (from - start) + ((source + n) - source) <= size
OBVIOUS

\* resolve hands out a segment of the bucket.
LEMMA FirstHitInBucket ==
  ASSUME NEW entry \in Seq(BusRange), NEW a, Hits(entry, a) # {}
  PROVE  FirstHit(entry, a) \in Segments(entry)
<1>1. Hits(entry, a) \in SUBSET Nat
  BY DEF Hits
<1>2. \E i \in Hits(entry, a) : \A j \in Hits(entry, a) : i <= j
  BY <1>1, Least
<1>3. PICK i \in Hits(entry, a) : FirstHit(entry, a) = entry[i]
  BY <1>2 DEF FirstHit
<1>4. QED
  BY <1>3 DEF Hits, Segments

\* The devices only grow, so a segment stays inside its device.
LEMMA DevicesGrow ==
  ASSUME TypeOK, NEW t \in Thread, BeginCall(t) \/ Step(t)
  PROVE  \A s : Fits(devices, s) => Fits(devices', s)
<1>1. CASE PushDevice(t)
  <2> DEFINE d == [name |-> call[t].arg.name, size |-> call[t].arg.span.end]
  <2>1. LocalsOK(t) /\ devices \in Seq([name : STRING, size : Address])
    BY DEF TypeOK
  <2>2. d \in [name : STRING, size : Address] /\ devices' = Append(devices, d)
    BY <1>1, <2>1, BusAssumption DEF PushDevice, LocalsOK, Address
  <2> HIDE DEF d
  <2>3. QED
    BY <2>1, <2>2, FitsMonotone
<1>2. CASE ~PushDevice(t)
  <2>1. devices' = devices
    BY <1>2 DEF Step, BeginCall, BeginRegister, BeginRedirect, BeginRemove, BeginResolve, tables,
                CheckName, LockDevices, AddRange, AddRangeConflict, ReportConflict, FindSegment,
                FindDevice, AimRedirect, RecordRedirect, DropRange, ClearBuckets
  <2>2. QED
    BY <2>1
<1>3. QED
  BY <1>1, <1>2

\* The segment a step of t leaves in the hands of a thread is one that it held
\* before, one of a bucket, or a new one inside its device.
LEMMA SegmentInHand ==
  ASSUME TypeOK, DeviceWindows, NEW t \in Thread, BeginCall(t) \/ Step(t),
         NEW u \in Thread, pc'[u] \in {"find_device", "add_range", "record_redirect"}
  PROVE  Fits(devices', seg'[u])
<1> DEFINE Carrying == {"find_device", "add_range", "record_redirect"}
<1> USE DEF tables
<1>0. LocalsOK(t) /\ pc[t] \in Label /\ seg[t] \in BusRange
  BY DEF TypeOK
<1>1. \A s : Fits(devices, s) => Fits(devices', s)
  BY DevicesGrow
<1>2. \A v \in Thread : pc[v] \in Carrying => Fits(devices, seg[v])
  BY DEF DeviceWindows, InWindow, DeviceKnown, Fits
<1>3. CASE u # t
  <2>1. pc'[u] = pc[u] /\ seg'[u] = seg[u]
    BY <1>3, IdSteps
  <2>2. QED
    BY <1>1, <1>2, <2>1
<1>4. CASE u = t /\ PushDevice(t)
  <2> DEFINE d == [name |-> call[t].arg.name, size |-> call[t].arg.span.end]
  <2>1. /\ 0 < call[t].arg.span.end /\ call[t].arg.base \in Nat /\ call[t].arg.span.end \in Nat
        /\ d \in [name : STRING, size : Address]
    BY <1>0, <1>4, BusAssumption DEF PushDevice, LocalsOK, Address
  <2>2. /\ seg'[t].device_id = Len(devices) + 1 /\ seg'[t].device_offset = 0
        /\ seg'[t].bus_start = call[t].arg.base
        /\ seg'[t].bus_end = call[t].arg.base + call[t].arg.span.end
        /\ devices' = Append(devices, d)
    BY <1>4 DEF PushDevice, TypeOK
  <2>3. devices \in Seq([name : STRING, size : Address])
    BY DEF TypeOK
  <2>4. Len(devices') = Len(devices) + 1 /\ Len(devices) \in Nat /\ devices'[Len(devices) + 1] = d
    BY <2>1, <2>2, <2>3
  <2>5. d.size = call[t].arg.span.end
    OBVIOUS
  <2> HIDE DEF d
  <2>6. QED
    BY <1>4, <2>1, <2>2, <2>4, <2>5 DEF Fits
<1>5. CASE u = t /\ FindSegment(t)
  <2> DEFINE a == Target(call[t])
             entry == buckets[bucket_index(a)]
  <2>1. seg' = [seg EXCEPT ![t] = FirstHit(entry, a)] /\ Hits(entry, a) # {}
    BY <1>5 DEF FindSegment, Return, TypeOK
  <2>2. a \in Address
    BY <1>0, <1>5, BusAssumption DEF FindSegment, LocalsOK, Target, Address
  <2>3. bucket_index(a) \in BucketIndex /\ entry \in Seq(BusRange)
    BY <2>2, BucketOfAddress DEF TypeOK
  <2>4. FirstHit(entry, a) \in SegmentsIn(bucket_index(a))
    BY <2>1, <2>3, FirstHitInBucket DEF SegmentsIn, Segments
  <2> HIDE DEF a, entry
  <2>5. Fits(devices, seg'[t])
    BY <2>1, <2>3, <2>4 DEF DeviceWindows, InWindow, DeviceKnown, Fits, TypeOK
  <2>6. QED
    BY <1>1, <1>5, <2>5
<1>6. CASE u = t /\ AimRedirect(t)
  <2> DEFINE d == call[t].arg
             target == seg[t]
  <2>1. pc'[t] # "idle"
    BY <1>6
  <2>2. /\ RedirectFits(d, target)
        /\ seg'[t].device_id = target.device_id
        /\ seg'[t].device_offset = target.device_offset + (d.target_start - target.bus_start)
        /\ seg'[t].bus_start = d.source_start
        /\ seg'[t].bus_end = d.source_start + d.size
    BY <1>6, <2>1 DEF AimRedirect, Return, TypeOK
  <2>3. d.size # 0 /\ d.source_start \in Nat /\ d.size \in Nat /\ d.target_start \in Nat
    BY <1>0, <1>6, BusAssumption DEF AimRedirect, LocalsOK
  <2>4. Fits(devices, target)
    BY <1>2, <1>6 DEF AimRedirect
  <2>5. devices[target.device_id].size \in Nat
    BY <2>4, SizeNat DEF Fits, TypeOK
  <2>6. target.bus_start \in Nat /\ target.bus_end \in Nat /\ target.device_offset \in Nat
    BY <1>0 DEF BusRange, Address
  <2> HIDE DEF d, target
  <2>7. /\ target.device_offset + (target.bus_end - target.bus_start) <= devices[target.device_id].size
        /\ target.device_id \in 1 .. Len(devices)
        /\ d.target_start + d.size <= target.bus_end
    BY <2>2, <2>4 DEF Fits, RedirectFits
  <2>8. target.device_offset + (d.target_start - target.bus_start)
          + ((d.source_start + d.size) - d.source_start) <= devices[target.device_id].size
    BY <2>3, <2>5, <2>6, <2>7, PartFits
  <2>9. d.source_start < d.source_start + d.size
    BY <2>3
  <2>10. Fits(devices, seg'[t])
    BY <2>2, <2>7, <2>8, <2>9 DEF Fits
  <2>11. QED
    BY <1>1, <1>6, <2>10
<1>7. CASE u = t /\ AddRange(t)
  <2>1. seg'[t] = seg[t] /\ pc[t] = "add_range"
    BY <1>7 DEF AddRange, Return, TypeOK
  <2>2. QED
    BY <1>1, <1>2, <1>7, <2>1
<1>8. CASE u = t /\ (BeginCall(t) \/ CheckName(t) \/ LockDevices(t) \/ AddRangeConflict(t)
                     \/ ReportConflict(t) \/ FindDevice(t) \/ RecordRedirect(t)
                     \/ DropRange(t) \/ ClearBuckets(t))
  BY <1>8 DEF BeginCall, BeginRegister, BeginRedirect, BeginRemove, BeginResolve, Return, Goto, TypeOK,
              CheckName, LockDevices, AddRangeConflict, ReportConflict, FindDevice, RecordRedirect,
              DropRange, ClearBuckets
<1>9. QED
  BY <1>3, <1>4, <1>5, <1>6, <1>7, <1>8 DEF Step

\* Every mapped segment lies inside a registered device, through any chain of
\* redirects and while targets are removed between the two halves of resolve:
\* the checks of redirect hold of the segment that the thread still carries,
\* and devices are never unregistered.
THEOREM WindowsKept == Spec => []DeviceWindows
<1>1. Init => DeviceWindows
  BY DEF Init, DeviceWindows, SegmentsIn
<1>2. TypeOK /\ DeviceWindows /\ [Next]_vars => DeviceWindows'
  <2> SUFFICES ASSUME TypeOK, DeviceWindows, [Next]_vars PROVE DeviceWindows'
    OBVIOUS
  <2>1. CASE Next
    <3>1. PICK t \in Thread : BeginCall(t) \/ Step(t)
      BY <2>1 DEF Next
    <3>2. \A u \in Thread : pc'[u] \in {"find_device", "add_range", "record_redirect"}
                              => Fits(devices', seg'[u])
      BY <3>1, SegmentInHand
    <3>3. ASSUME NEW b \in BucketIndex, NEW s \in SegmentsIn(b)'
          PROVE  Fits(devices', s)
      <4>1. s \in SegmentsIn(b) \/ (pc[t] = "add_range" /\ s = seg[t])
        BY <3>1, SegmentSteps
      <4>2. Fits(devices, s)
        BY <4>1 DEF DeviceWindows, InWindow, DeviceKnown, Fits
      <4>3. QED
        BY <3>1, <4>2, DevicesGrow
    <3>4. QED
      BY <3>2, <3>3 DEF DeviceWindows, InWindow, DeviceKnown, Fits
  <2>2. CASE UNCHANGED vars
    BY <2>2 DEF vars, tables, DeviceWindows, SegmentsIn, InWindow, DeviceKnown
  <2>3. QED
    BY <2>1, <2>2
<1>3. QED
  BY <1>1, <1>2, TypeCorrect, PTL DEF Spec

-----------------------------------------------------------------------------
\* Where the ids of ranges are.

MappedIds == {s.id : s \in UNION {SegmentsIn(b) : b \in BucketIndex}}

\* Ids that remove_redirect is handed, has been handed, or is going to be.
Recorded == {redirect_index[k] : k \in DOMAIN redirect_index}
Dropping == {pending[t].id : t \in {u \in Thread : pc[u] \in {"drop_range", "clear_buckets"}}}
Recording == {seg[t].id : t \in {u \in Thread : pc[u] = "record_redirect"}}

Removable == Recorded \cup Dropping \cup Recording

InUse == MappedIds \cup DOMAIN range_index \cup Removable

\* Every id in use was drawn, and a thread about to insert a segment holds an
\* id that no table, removal or other thread knows.
IdsDrawn ==
  /\ \A id \in InUse : id \in Nat /\ id < next_range_id
  /\ \A t \in Thread : pc[t] = "add_range" =>
       /\ seg[t].id < next_range_id
       /\ seg[t].id \notin InUse
       /\ \A u \in Thread : u # t /\ pc[u] = "add_range" => seg[u].id # seg[t].id

\* A segment in a bucket has the id of a mapped range.
LEMMA MappedId ==
  ASSUME NEW b \in BucketIndex, NEW s \in SegmentsIn(b)
  PROVE  s.id \in MappedIds
BY DEF MappedIds

\* The locals of the threads that do not move.
LEMMA OthersRest ==
  ASSUME TypeOK, NEW t \in Thread, BeginCall(t) \/ Step(t), NEW u \in Thread, u # t
  PROVE  pc'[u] = pc[u] /\ seg'[u] = seg[u] /\ pending'[u] = pending[u] /\ call'[u] = call[u]
<1> USE DEF tables
<1>1. CASE BeginCall(t)
  BY <1>1 DEF BeginCall, BeginRegister, BeginRedirect, BeginRemove, BeginResolve, Begin, Return, Goto, TypeOK
<1>2. CASE CheckName(t) \/ LockDevices(t) \/ PushDevice(t)
  BY <1>2 DEF CheckName, LockDevices, PushDevice, Return, Goto, TypeOK
<1>3. CASE AddRange(t) \/ AddRangeConflict(t) \/ ReportConflict(t)
  BY <1>3 DEF AddRange, AddRangeConflict, ReportConflict, Return, Goto, TypeOK
<1>4. CASE FindSegment(t) \/ FindDevice(t) \/ AimRedirect(t)
  BY <1>4 DEF FindSegment, FindDevice, AimRedirect, Return, Goto, TypeOK
<1>5. CASE RecordRedirect(t) \/ DropRange(t) \/ ClearBuckets(t)
  BY <1>5 DEF RecordRedirect, DropRange, ClearBuckets, Return, Goto, TypeOK
<1>6. QED
  BY <1>1, <1>2, <1>3, <1>4, <1>5 DEF Step

\* How a step of t passes ids from one table to the next.
RangeIndexKept == range_index' = range_index
RedirectIndexKept == redirect_index' = redirect_index
Quiet(t) == pc'[t] \notin {"record_redirect", "drop_range", "clear_buckets"}

\* What a step does to range_index, redirect_index and the buckets: nothing,
\* or what add_range, the recording of a redirect, the removal of its entry
\* or the clearing of the buckets does.
LEMMA IndexSteps ==
  ASSUME TypeOK, NEW t \in Thread, BeginCall(t) \/ Step(t)
  PROVE  \/ /\ RangeIndexKept /\ RedirectIndexKept /\ Quiet(t) /\ pc[t] # "record_redirect"
            /\ pc[t] = "drop_range" => pending[t].id \notin DOMAIN range_index
         \/ /\ pc[t] = "add_range" /\ RedirectIndexKept
            /\ DOMAIN range_index' = DOMAIN range_index \cup {seg[t].id}
            /\ range_index'[seg[t].id] = Cover(seg[t])
            /\ \A i \in DOMAIN range_index \ {seg[t].id} : range_index'[i] = range_index[i]
            /\ \A b \in BucketIndex : SegmentsIn(b)' =
                 IF b \in Cover(seg[t]) THEN SegmentsIn(b) \cup {seg[t]} ELSE SegmentsIn(b)
            /\ \/ pc'[t] = "idle" /\ call[t].op = "register"
               \/ pc'[t] = "record_redirect" /\ call[t].op # "register" /\ seg' = seg
         \/ /\ pc[t] = "record_redirect" /\ pc'[t] = "idle" /\ RangeIndexKept
            /\ DOMAIN redirect_index' = DOMAIN redirect_index
                 \cup {<<call[t].arg.source_start, call[t].arg.size>>}
            /\ redirect_index'[<<call[t].arg.source_start, call[t].arg.size>>] = seg[t].id
            /\ \A k \in DOMAIN redirect_index \ {<<call[t].arg.source_start, call[t].arg.size>>} :
                 redirect_index'[k] = redirect_index[k]
         \/ /\ pc[t] = "idle" /\ pc'[t] = "drop_range" /\ RangeIndexKept
            /\ \E key \in DOMAIN redirect_index :
                 /\ pending'[t].id = redirect_index[key]
                 /\ DOMAIN redirect_index' = DOMAIN redirect_index \ {key}
                 /\ \A k \in DOMAIN redirect_index' : redirect_index'[k] = redirect_index[k]
         \/ /\ pc[t] = "drop_range" /\ pc'[t] = "clear_buckets" /\ RedirectIndexKept
            /\ pending'[t].id = pending[t].id
            /\ pending'[t].touched = range_index[pending[t].id]
            /\ DOMAIN range_index' = DOMAIN range_index \ {pending[t].id}
            /\ \A i \in DOMAIN range_index' : range_index'[i] = range_index[i]
<1> USE DEF tables, RangeIndexKept, RedirectIndexKept, Quiet
<1>0. pc \in [Thread -> Label] /\ seg \in [Thread -> BusRange]
      /\ pending \in [Thread -> [id : Nat, touched : SUBSET BucketIndex]]
  BY DEF TypeOK
<1>1. CASE BeginCall(t)
  <2>1. CASE \E m \in Removals : BeginRemove(t, m)
    <3>1. PICK m \in Removals : BeginRemove(t, m)
      BY <2>1
    <3> DEFINE key == <<m.source_start, m.size>>
    <3>2. CASE key \in DOMAIN redirect_index
      <4>1. /\ redirect_index' = [k \in DOMAIN redirect_index \ {key} |-> redirect_index[k]]
            /\ pending' = [pending EXCEPT ![t].id = redirect_index[key]]
            /\ pc[t] = "idle" /\ pc'[t] = "drop_range" /\ range_index' = range_index
        BY <1>0, <3>1, <3>2 DEF BeginRemove, Begin, Goto
      <4>2. pending'[t].id = redirect_index[key]
        BY <1>0, <4>1
      <4> HIDE DEF key
      <4>3. QED
        BY <3>2, <4>1, <4>2
    <3>3. CASE key \notin DOMAIN redirect_index
      BY <1>0, <3>1, <3>3 DEF BeginRemove, Begin, Return
    <3>4. QED
      BY <3>2, <3>3
  <2>2. CASE ~\E m \in Removals : BeginRemove(t, m)
    BY <1>0, <1>1, <2>2 DEF BeginCall, BeginRegister, BeginRedirect, BeginResolve, Begin, Return, Goto
  <2>3. QED
    BY <2>1, <2>2
<1>2. CASE AddRange(t)
  <2>1. /\ pc[t] = "add_range" /\ redirect_index' = redirect_index
        /\ range_index' = [i \in DOMAIN range_index \cup {seg[t].id} |->
                             IF i = seg[t].id THEN Cover(seg[t]) ELSE range_index[i]]
    BY <1>2 DEF AddRange
  <2>2. \/ pc'[t] = "idle" /\ call[t].op = "register"
        \/ pc'[t] = "record_redirect" /\ call[t].op # "register" /\ seg' = seg
    BY <1>0, <1>2 DEF AddRange, Return, Goto
  <2>3. ASSUME NEW b \in BucketIndex
        PROVE  SegmentsIn(b)' = IF b \in Cover(seg[t]) THEN SegmentsIn(b) \cup {seg[t]} ELSE SegmentsIn(b)
    <3>1. buckets[b] \in Seq(BusRange) /\ seg[t] \in BusRange
      BY DEF TypeOK
    <3>2. SegmentsIn(b) = Segments(buckets[b]) /\ SegmentsIn(b)' = Segments(buckets'[b])
      BY DEF SegmentsIn, Segments
    <3>3. buckets'[b] = IF b \in Cover(seg[t]) THEN insert_segment(buckets[b], seg[t]) ELSE buckets[b]
      BY <1>2 DEF AddRange
    <3>4. QED
      BY <3>1, <3>2, <3>3, InsertSegments
  <2>4. QED
    BY <2>1, <2>2, <2>3
<1>3. CASE CheckName(t) \/ LockDevices(t) \/ PushDevice(t)
  BY <1>0, <1>3 DEF CheckName, LockDevices, PushDevice, Return, Goto
<1>4. CASE AddRangeConflict(t) \/ ReportConflict(t)
  BY <1>0, <1>4 DEF AddRangeConflict, ReportConflict, Return, Goto
<1>5. CASE FindSegment(t) \/ FindDevice(t) \/ AimRedirect(t)
  BY <1>0, <1>5 DEF FindSegment, FindDevice, AimRedirect, Return, Goto
<1>6. CASE RecordRedirect(t)
  <2> DEFINE key == <<call[t].arg.source_start, call[t].arg.size>>
  <2>1. /\ pc[t] = "record_redirect" /\ pc'[t] = "idle" /\ range_index' = range_index
        /\ redirect_index' = [k \in DOMAIN redirect_index \cup {key} |->
                                IF k = key THEN seg[t].id ELSE redirect_index[k]]
    BY <1>0, <1>6 DEF RecordRedirect, Return
  <2> HIDE DEF key
  <2>2. /\ DOMAIN redirect_index' = DOMAIN redirect_index \cup {key}
        /\ redirect_index'[key] = seg[t].id
        /\ \A k \in DOMAIN redirect_index \ {key} : redirect_index'[k] = redirect_index[k]
    BY <2>1
  <2>3. QED
    BY <2>1, <2>2 DEF key
<1>7. CASE DropRange(t)
  <2>1. CASE pending[t].id \in DOMAIN range_index
    <3>1. /\ range_index' = [i \in DOMAIN range_index \ {pending[t].id} |-> range_index[i]]
          /\ pending' = [pending EXCEPT ![t].touched = range_index[pending[t].id]]
          /\ pc[t] = "drop_range" /\ pc'[t] = "clear_buckets" /\ redirect_index' = redirect_index
      BY <1>0, <1>7, <2>1 DEF DropRange, Goto
    <3>2. pending'[t].id = pending[t].id /\ pending'[t].touched = range_index[pending[t].id]
      BY <1>0, <3>1
    <3>3. QED
      BY <3>1, <3>2
  <2>2. CASE pending[t].id \notin DOMAIN range_index
    BY <1>0, <1>7, <2>2 DEF DropRange, Return
  <2>3. QED
    BY <2>1, <2>2
<1>8. CASE ClearBuckets(t)
  BY <1>0, <1>8 DEF ClearBuckets, Return
<1>9. QED
  BY <1>1, <1>2, <1>3, <1>4, <1>5, <1>6, <1>7, <1>8 DEF Step

\* A range becomes removable when its segment is in all its buckets.
LEMMA RemovableSteps ==
  ASSUME TypeOK, NEW t \in Thread, BeginCall(t) \/ Step(t), NEW id \in Removable'
  PROVE  \/ id \in Removable
         \/ pc[t] = "add_range" /\ pc'[t] = "record_redirect" /\ id = seg[t].id
<1>1. \A u \in Thread \ {t} : pc'[u] = pc[u] /\ seg'[u] = seg[u] /\ pending'[u] = pending[u]
  BY OthersRest
<1>2. CASE id \in Recorded'
  <2>1. PICK k \in DOMAIN redirect_index' : id = redirect_index'[k]
    BY <1>2 DEF Recorded
  <2>2. \/ k \in DOMAIN redirect_index /\ id = redirect_index[k]
        \/ pc[t] = "record_redirect" /\ id = seg[t].id
    BY <2>1, IndexSteps DEF RedirectIndexKept
  <2>3. QED
    BY <2>2 DEF Removable, Recorded, Recording
<1>3. CASE id \in Dropping'
  <2>1. PICK u \in Thread : pc'[u] \in {"drop_range", "clear_buckets"} /\ id = pending'[u].id
    BY <1>3 DEF Dropping
  <2>2. CASE u # t
    BY <1>1, <2>1, <2>2 DEF Removable, Dropping
  <2>3. CASE u = t
    <3>1. \/ \E key \in DOMAIN redirect_index : id = redirect_index[key]
          \/ pc[t] = "drop_range" /\ id = pending[t].id
      BY <2>1, <2>3, IndexSteps DEF Quiet
    <3>2. QED
      BY <3>1 DEF Removable, Dropping, Recorded
  <2>4. QED
    BY <2>2, <2>3
<1>4. CASE id \in Recording'
  <2>1. PICK u \in Thread : pc'[u] = "record_redirect" /\ id = seg'[u].id
    BY <1>4 DEF Recording
  <2>2. CASE u # t
    BY <1>1, <2>1, <2>2 DEF Removable, Recording
  <2>3. CASE u = t
    BY <2>1, <2>3, IndexSteps DEF Quiet
  <2>4. QED
    BY <2>2, <2>3
<1>5. QED
  BY <1>2, <1>3, <1>4 DEF Removable

\* A step brings no id into use but that of the segment in hand.
LEMMA InUseSteps ==
  ASSUME TypeOK, NEW t \in Thread, BeginCall(t) \/ Step(t), NEW id \in InUse'
  PROVE  id \in InUse \/ (pc[t] = "add_range" /\ id = seg[t].id)
<1>1. CASE id \in MappedIds'
  <2>1. PICK b \in BucketIndex : \E s \in SegmentsIn(b)' : id = s.id
    BY <1>1 DEF MappedIds
  <2>2. PICK s \in SegmentsIn(b)' : id = s.id
    BY <2>1
  <2>3. s \in SegmentsIn(b) \/ (pc[t] = "add_range" /\ s = seg[t])
    BY SegmentSteps
  <2>4. QED
    BY <2>2, <2>3, MappedId DEF InUse
<1>2. CASE id \in DOMAIN range_index'
  BY <1>2, IndexSteps DEF InUse, RangeIndexKept
<1>3. CASE id \in Removable'
  BY <1>3, RemovableSteps DEF InUse
<1>4. QED
  BY <1>1, <1>2, <1>3 DEF InUse

\* Ids stay below the counter they are drawn from, and one in hand is unused.
LEMMA IdsDrawnKept == TypeOK /\ IdsDrawn /\ [Next]_vars => IdsDrawn'
<1> SUFFICES ASSUME TypeOK, IdsDrawn, [Next]_vars PROVE IdsDrawn'
  OBVIOUS
<1>1. CASE Next
  <2>1. PICK t \in Thread : BeginCall(t) \/ Step(t)
    BY <1>1 DEF Next
  <2>2. next_range_id \in Nat /\ next_range_id' \in {next_range_id, next_range_id + 1}
    BY <2>1, IdSteps DEF TypeOK
  <2>3. \A u \in Thread : seg[u].id \in Nat
    BY DEF TypeOK, BusRange
  <2>4. ASSUME NEW id \in InUse'
        PROVE  /\ id \in Nat /\ id < next_range_id /\ id < next_range_id'
               /\ id \in InUse \/ (pc[t] = "add_range" /\ id = seg[t].id)
    <3>1. id \in InUse \/ (pc[t] = "add_range" /\ id = seg[t].id)
      BY <2>1, InUseSteps
    <3>2. id \in Nat /\ id < next_range_id
      BY <2>3, <3>1 DEF IdsDrawn
    <3>3. QED
      BY <2>2, <3>1, <3>2
  <2>5. ASSUME NEW u \in Thread, pc'[u] = "add_range"
        PROVE  /\ seg'[u].id < next_range_id'
               /\ seg'[u].id \notin InUse'
               /\ \A v \in Thread : v # u /\ pc'[v] = "add_range" => seg'[v].id # seg'[u].id
    <3>1. CASE u = t
      <4>1. seg'[t].id = next_range_id /\ next_range_id' = next_range_id + 1
        BY <2>1, <2>5, <3>1, IdSteps
      <4>2. \A v \in Thread \ {t} : pc'[v] = "add_range" => seg'[v].id < next_range_id /\ seg'[v].id \in Nat
        BY <2>1, <2>3, IdSteps DEF IdsDrawn
      <4>3. QED
        BY <2>2, <2>4, <3>1, <4>1, <4>2
    <3>2. CASE u # t
      <4>1. pc[u] = "add_range" /\ seg'[u] = seg[u]
        BY <2>1, <2>5, <3>2, IdSteps
      <4>2. seg[u].id < next_range_id'
        BY <2>2, <2>3, <4>1 DEF IdsDrawn
      <4>3. seg[u].id \notin InUse'
        BY <2>4, <3>2, <4>1 DEF IdsDrawn
      <4>4. ASSUME NEW v \in Thread, v # u, pc'[v] = "add_range"
            PROVE  seg'[v].id # seg[u].id
        <5>1. CASE v = t
          <6>1. seg'[t].id = next_range_id
            BY <2>1, <4>4, <5>1, IdSteps
          <6>2. QED
            BY <2>2, <2>3, <4>1, <5>1, <6>1 DEF IdsDrawn
        <5>2. CASE v # t
          BY <2>1, <4>1, <4>4, <5>2, IdSteps DEF IdsDrawn
        <5>3. QED
          BY <5>1, <5>2
      <4>5. QED
        BY <4>1, <4>2, <4>3, <4>4
    <3>3. QED
      BY <3>1, <3>2
  <2>6. QED
    BY <2>4, <2>5 DEF IdsDrawn
<1>2. CASE UNCHANGED vars
  BY <1>2 DEF vars, tables, IdsDrawn, InUse, MappedIds, SegmentsIn, Removable, Recorded, Dropping, Recording
<1>3. QED
  BY <1>1, <1>2

-----------------------------------------------------------------------------
\* What is mapped, indexed and removable.

\* The segment of a redirect maps the addresses the call was given.
Redirected(t) ==
  /\ seg[t].priority = REDIRECT_PRIORITY
  /\ seg[t].bus_start = call[t].arg.source_start
  /\ seg[t].bus_end = call[t].arg.source_start + call[t].arg.size

InHand(t) ==
  /\ pc[t] = "add_range" =>
       IF call[t].op = "register" THEN seg[t].priority = DEVICE_PRIORITY ELSE Redirected(t)
  /\ pc[t] = "record_redirect" => Redirected(t)

\* An id names one segment, in whatever buckets it is.
OneSegmentPerId ==
  /\ \A b, c \in BucketIndex : \A r \in SegmentsIn(b), s \in SegmentsIn(c) : r.id = s.id => r = s
  /\ \A t \in Thread : pc[t] = "record_redirect" =>
       \A b \in BucketIndex : \A s \in SegmentsIn(b) : s.id = seg[t].id => s = seg[t]

\* No removal can ever be handed the range of a device.
DevicesStay ==
  \A b \in BucketIndex : \A s \in SegmentsIn(b) :
    s.priority = DEVICE_PRIORITY => s.id \notin Removable

\* What a thread has in hand between two lock sections stays what its call
\* made of it: no other thread reaches its locals.
LEMMA InHandKept ==
  ASSUME TypeOK, NEW t \in Thread, BeginCall(t) \/ Step(t), \A u \in Thread : InHand(u)
  PROVE  \A u \in Thread : InHand(u)'
<1> USE DEF tables
<1>0. LocalsOK(t) /\ InHand(t) /\ pc \in [Thread -> Label] /\ seg \in [Thread -> BusRange]
  BY DEF TypeOK
<1>1. ASSUME NEW u \in Thread, u # t
      PROVE  InHand(u)'
  <2>1. pc'[u] = pc[u] /\ seg'[u] = seg[u] /\ call'[u] = call[u]
    BY <1>1, OthersRest
  <2>2. QED
    BY <2>1 DEF InHand, Redirected
<1>2. InHand(t)'
  <2>1. CASE PushDevice(t)
    <3>1. call'[t].op = "register" /\ seg'[t].priority = DEVICE_PRIORITY /\ pc'[t] = "add_range"
      BY <1>0, <2>1 DEF PushDevice, LocalsOK, Goto
    <3>2. QED
      BY <3>1 DEF InHand
  <2>2. CASE AimRedirect(t)
    <3>1. pc'[t] # "idle" => /\ pc'[t] = "add_range" /\ call' = call
                            /\ call[t].op = "redirect"
                            /\ seg'[t].priority = REDIRECT_PRIORITY
                            /\ seg'[t].bus_start = call[t].arg.source_start
                            /\ seg'[t].bus_end = call[t].arg.source_start + call[t].arg.size
      BY <1>0, <2>2 DEF AimRedirect, Return, Goto
    <3>2. QED
      BY <3>1 DEF InHand, Redirected
  <2>3. CASE AddRange(t)
    BY <1>0, <2>3 DEF AddRange, Return, Goto, InHand, Redirected
  <2>4. CASE BeginCall(t)
    BY <1>0, <2>4 DEF BeginCall, BeginRegister, BeginRedirect, BeginRemove, BeginResolve, Return, Goto, InHand
  <2>5. CASE CheckName(t) \/ LockDevices(t) \/ AddRangeConflict(t) \/ ReportConflict(t)
             \/ FindSegment(t) \/ FindDevice(t) \/ RecordRedirect(t) \/ DropRange(t) \/ ClearBuckets(t)
    BY <1>0, <2>5 DEF CheckName, LockDevices, AddRangeConflict, ReportConflict, FindSegment,
                      FindDevice, RecordRedirect, DropRange, ClearBuckets, Return, Goto, InHand
  <2>6. QED
    BY <2>1, <2>2, <2>3, <2>4, <2>5 DEF Step
<1>3. QED
  BY <1>1, <1>2

\* An id keeps naming one segment, the same in each bucket, because an id that
\* is in use is never drawn again.
LEMMA OneSegmentKept ==
  ASSUME TypeOK, IdsDrawn, OneSegmentPerId, NEW t \in Thread, BeginCall(t) \/ Step(t)
  PROVE  OneSegmentPerId'
<1>1. ASSUME NEW b \in BucketIndex, NEW s \in SegmentsIn(b)'
      PROVE  s \in SegmentsIn(b) \/ (pc[t] = "add_range" /\ s = seg[t])
  BY SegmentSteps
<1>2. ASSUME NEW b \in BucketIndex, NEW s \in SegmentsIn(b), pc[t] = "add_range"
      PROVE  s.id # seg[t].id
  BY <1>2, MappedId DEF IdsDrawn, InUse
<1>3. ASSUME NEW b \in BucketIndex, NEW c \in BucketIndex,
             NEW r \in SegmentsIn(b)', NEW s \in SegmentsIn(c)', r.id = s.id
      PROVE  r = s
  BY <1>1, <1>2, <1>3 DEF OneSegmentPerId
<1>4. ASSUME NEW u \in Thread, pc'[u] = "record_redirect",
             NEW b \in BucketIndex, NEW s \in SegmentsIn(b)', s.id = seg'[u].id
      PROVE  s = seg'[u]
  <2>1. CASE u = t
    <3>1. pc[t] = "add_range" /\ seg' = seg
      BY <1>4, <2>1, IndexSteps DEF Quiet
    <3>2. QED
      BY <1>1, <1>2, <1>4, <2>1, <3>1
  <2>2. CASE u # t
    <3>1. pc[u] = "record_redirect" /\ seg'[u] = seg[u]
      BY <1>4, <2>2, OthersRest
    <3>2. seg[u].id \in InUse
      BY <3>1 DEF InUse, Removable, Recording
    <3>3. ~(pc[t] = "add_range" /\ s = seg[t])
      BY <1>4, <3>1, <3>2 DEF IdsDrawn
    <3>4. QED
      BY <1>1, <1>4, <3>1, <3>3 DEF OneSegmentPerId
  <2>3. QED
    BY <2>1, <2>2
<1>5. QED
  BY <1>3, <1>4 DEF OneSegmentPerId

\* The id of a device's own range never becomes removable.
LEMMA DevicesStayKept ==
  ASSUME TypeOK, IdsDrawn, DevicesStay, \A u \in Thread : InHand(u),
         NEW t \in Thread, BeginCall(t) \/ Step(t)
  PROVE  DevicesStay'
<1> SUFFICES ASSUME NEW b \in BucketIndex, NEW s \in SegmentsIn(b)',
                    s.priority = DEVICE_PRIORITY, s.id \in Removable'
             PROVE  FALSE
  BY DEF DevicesStay
<1>1. s \in SegmentsIn(b) \/ (pc[t] = "add_range" /\ s = seg[t])
  BY SegmentSteps
<1>2. \/ s.id \in Removable
      \/ pc[t] = "add_range" /\ pc'[t] = "record_redirect" /\ s.id = seg[t].id
  BY RemovableSteps
<1>3. CASE s \in SegmentsIn(b)
  <2>1. s.id \notin Removable /\ s.id \in InUse
    BY <1>3, MappedId DEF DevicesStay, InUse
  <2>2. QED
    BY <1>2, <2>1 DEF IdsDrawn
<1>4. CASE pc[t] = "add_range" /\ s = seg[t]
  <2>1. s.id \notin Removable
    BY <1>4 DEF IdsDrawn, InUse
  <2>2. pc'[t] = "record_redirect"
    BY <1>2, <2>1
  <2>3. call[t].op # "register"
    BY <1>4, <2>2, IndexSteps DEF Quiet
  <2>4. seg[t].priority = REDIRECT_PRIORITY
    BY <1>4, <2>3 DEF InHand, Redirected
  <2>5. QED
    BY <1>4, <2>4 DEF DEVICE_PRIORITY, REDIRECT_PRIORITY
<1>5. QED
  BY <1>1, <1>3, <1>4

\* RangesComplete, with a bucket for every range.
IndexedRanges ==
  \A id \in DOMAIN range_index :
    /\ range_index[id] # {} /\ range_index[id] \subseteq BucketIndex
    /\ \A b \in range_index[id] : \E s \in SegmentsIn(b) : s.id = id /\ range_index[id] = Cover(s)

\* remove_range clears buckets only after range_index forgot the range.
DroppedUnindexed ==
  \A t \in Thread : pc[t] = "clear_buckets" => pending[t].id \notin DOMAIN range_index

\* A range that is not empty covers a bucket.
LEMMA CoverNonempty ==
  ASSUME NEW s \in BusRange, s.bus_start < s.bus_end
  PROVE  Cover(s) # {}
<1>1. s.bus_start \in Nat /\ s.bus_end - 1 \in Nat /\ s.bus_start <= s.bus_end - 1
  BY DEF BusRange, Address
<1>2. /\ s.bus_start \div BucketSize \in Nat /\ (s.bus_end - 1) \div BucketSize \in Nat
      /\ s.bus_start \div BucketSize <= (s.bus_end - 1) \div BucketSize
  BY <1>1, BusAssumption, DivMonotone
<1>3. bucket_index(s.bus_start) \in Cover(s)
  BY <1>2 DEF Cover, bucket_index
<1>4. QED
  BY <1>3

\* A range whose buckets are being cleared is out of range_index, and no
\* thread puts its id back.
LEMMA DroppedUnindexedKept ==
  ASSUME TypeOK, IdsDrawn, DroppedUnindexed, NEW t \in Thread, BeginCall(t) \/ Step(t)
  PROVE  DroppedUnindexed'
<1> SUFFICES ASSUME NEW u \in Thread, pc'[u] = "clear_buckets"
             PROVE  pending'[u].id \notin DOMAIN range_index'
  BY DEF DroppedUnindexed
<1>1. CASE u = t
  <2>1. /\ DOMAIN range_index' = DOMAIN range_index \ {pending[t].id}
        /\ pending'[t].id = pending[t].id
    BY <1>1, IndexSteps DEF Quiet
  <2>2. QED
    BY <1>1, <2>1
<1>2. CASE u # t
  <2>1. pc[u] = "clear_buckets" /\ pending'[u].id = pending[u].id
    BY <1>2, OthersRest
  <2>2. pending[u].id \notin DOMAIN range_index /\ pending[u].id \in InUse
    BY <2>1 DEF DroppedUnindexed, InUse, Removable, Dropping
  <2>3. pc[t] = "add_range" => pending[u].id # seg[t].id
    BY <2>2 DEF IdsDrawn
  <2>4. DOMAIN range_index' \subseteq DOMAIN range_index
          \cup {id \in {seg[t].id} : pc[t] = "add_range"}
    BY IndexSteps DEF RangeIndexKept
  <2>5. QED
    BY <2>1, <2>2, <2>3, <2>4
<1>3. QED
  BY <1>1, <1>2

\* A range in range_index keeps a segment in each bucket its entry lists:
\* remove_redirect takes the entry away before it clears a bucket.
LEMMA IndexedRangesKept ==
  ASSUME TypeOK, IdsDrawn, DroppedUnindexed, IndexedRanges,
         NEW t \in Thread, BeginCall(t) \/ Step(t)
  PROVE  IndexedRanges'
<1> SUFFICES ASSUME NEW id \in DOMAIN range_index'
             PROVE  /\ range_index'[id] # {} /\ range_index'[id] \subseteq BucketIndex
                    /\ \A b \in range_index'[id] :
                         \E s \in SegmentsIn(b)' : s.id = id /\ range_index'[id] = Cover(s)
  BY DEF IndexedRanges, Cover, bucket_index
<1>0. LocalsOK(t) /\ seg[t] \in BusRange
  BY DEF TypeOK
<1>1. \/ id \in DOMAIN range_index /\ range_index'[id] = range_index[id]
      \/ /\ pc[t] = "add_range" /\ id = seg[t].id /\ range_index'[id] = Cover(seg[t])
         /\ \A b \in BucketIndex : b \in Cover(seg[t]) => seg[t] \in SegmentsIn(b)'
  BY IndexSteps DEF RangeIndexKept
<1>2. CASE id \in DOMAIN range_index /\ range_index'[id] = range_index[id]
  <2>1. range_index[id] # {} /\ range_index[id] \subseteq BucketIndex
    BY <1>2 DEF IndexedRanges
  <2>2. ASSUME NEW b \in range_index[id]
        PROVE  \E s \in SegmentsIn(b)' : s.id = id /\ range_index[id] = Cover(s)
    <3>1. PICK s \in SegmentsIn(b) : s.id = id /\ range_index[id] = Cover(s)
      BY <1>2 DEF IndexedRanges
    <3>2. pc[t] = "clear_buckets" => s.id # pending[t].id
      BY <1>2, <3>1 DEF DroppedUnindexed
    <3>3. s \in SegmentsIn(b)'
      BY <2>1, <3>2, SegmentSteps
    <3>4. QED
      BY <3>1, <3>3
  <2>3. QED
    BY <1>2, <2>1, <2>2
<1>3. CASE /\ pc[t] = "add_range" /\ id = seg[t].id /\ range_index'[id] = Cover(seg[t])
           /\ \A b \in BucketIndex : b \in Cover(seg[t]) => seg[t] \in SegmentsIn(b)'
  <2>1. Cover(seg[t]) \subseteq BucketIndex /\ Cover(seg[t]) # {}
    BY <1>0, <1>3, CoverInRange, CoverNonempty DEF LocalsOK
  <2>2. QED
    BY <1>3, <2>1
<1>4. QED
  BY <1>1, <1>2, <1>3

\* The invariant the following theorems rest on.
MapInv ==
  /\ IdsDrawn
  /\ \A t \in Thread : InHand(t)
  /\ OneSegmentPerId
  /\ DevicesStay
  /\ IndexedRanges
  /\ DroppedUnindexed

\* The inductive invariant of the map holds of every state of the bus, with
\* any number of threads inside map_range, redirect and remove_redirect at
\* once; IndexComplete, WindowsKept and the refinement rest on it.
THEOREM MapInvariant == Spec => []MapInv
<1>1. Init => MapInv
  <2> SUFFICES ASSUME Init PROVE MapInv
    OBVIOUS
  <2>1. \A b \in BucketIndex : SegmentsIn(b) = {}
    BY DEF Init, SegmentsIn
  <2>2. \A t \in Thread : pc[t] = "idle"
    BY DEF Init
  <2>3. InUse = {}
    <3>1. MappedIds = {}
      BY <2>1 DEF MappedIds
    <3>2. Removable = {} /\ DOMAIN range_index = {}
      BY <2>2 DEF Init, Removable, Recorded, Dropping, Recording
    <3>3. QED
      BY <3>1, <3>2 DEF InUse
  <2>4. IdsDrawn /\ OneSegmentPerId /\ DevicesStay
    BY <2>1, <2>2, <2>3 DEF IdsDrawn, OneSegmentPerId, DevicesStay
  <2>5. IndexedRanges /\ DroppedUnindexed /\ \A t \in Thread : InHand(t)
    BY <2>2 DEF Init, IndexedRanges, DroppedUnindexed, InHand
  <2>6. QED
    BY <2>4, <2>5 DEF MapInv
<1>2. TypeOK /\ MapInv /\ [Next]_vars => MapInv'
  <2> SUFFICES ASSUME TypeOK, MapInv, [Next]_vars PROVE MapInv'
    OBVIOUS
  <2>1. IdsDrawn'
    BY IdsDrawnKept DEF MapInv
  <2>2. CASE Next
    <3>1. PICK t \in Thread : BeginCall(t) \/ Step(t)
      BY <2>2 DEF Next
    <3>2. (\A u \in Thread : InHand(u)') /\ OneSegmentPerId' /\ DevicesStay'
      BY <3>1, InHandKept, OneSegmentKept, DevicesStayKept DEF MapInv
    <3>3. IndexedRanges' /\ DroppedUnindexed'
      BY <3>1, IndexedRangesKept, DroppedUnindexedKept DEF MapInv
    <3>4. QED
      BY <2>1, <3>2, <3>3 DEF MapInv
  <2>3. CASE UNCHANGED vars
    <3>1. UNCHANGED <<buckets, range_index, redirect_index, pc, seg, pending, call>>
      BY <2>3 DEF vars, tables
    <3>2. \A b \in BucketIndex : SegmentsIn(b)' = SegmentsIn(b)
      BY <3>1 DEF SegmentsIn
    <3>3. Removable' = Removable
      BY <3>1 DEF Removable, Recorded, Dropping, Recording
    <3>4. (\A t \in Thread : InHand(t)') /\ OneSegmentPerId' /\ DevicesStay'
      BY <3>1, <3>2, <3>3 DEF MapInv, InHand, Redirected, OneSegmentPerId, DevicesStay
    <3>5. IndexedRanges' /\ DroppedUnindexed'
      BY <3>1, <3>2 DEF MapInv, IndexedRanges, DroppedUnindexed, Cover, bucket_index
    <3>6. QED
      BY <2>1, <3>4, <3>5 DEF MapInv
  <2>4. QED
    BY <2>2, <2>3
<1>3. QED
  BY <1>1, <1>2, TypeCorrect, PTL DEF Spec

\* A range that range_index knows is in every bucket of its addresses, with any
\* number of threads between the two halves of remove_range: a range leaves the
\* index before it leaves the first bucket, and no id comes back.
THEOREM IndexComplete == Spec => []RangesComplete
<1>1. MapInv => RangesComplete
  BY DEF MapInv, IndexedRanges, RangesComplete
<1>2. QED
  BY <1>1, MapInvariant, PTL

\* No step unmaps a device, whatever remove_redirect is called with and however
\* its three steps interleave with other calls.
THEOREM DevicesStayMapped == Spec => DeviceRangesPermanent
<1> DEFINE Kept == \A b \in BucketIndex : \A s \in SegmentsIn(b) :
                     s.priority = DEVICE_PRIORITY => s \in SegmentsIn(b)'
<1>1. TypeOK /\ MapInv /\ [Next]_vars => Kept \/ UNCHANGED vars
  <2> SUFFICES ASSUME TypeOK, MapInv, Next PROVE Kept
    OBVIOUS
  <2>1. PICK t \in Thread : BeginCall(t) \/ Step(t)
    BY DEF Next
  <2>2. SUFFICES ASSUME NEW b \in BucketIndex, NEW s \in SegmentsIn(b), s.priority = DEVICE_PRIORITY
                 PROVE  s \in SegmentsIn(b)'
    OBVIOUS
  <2>3. pc[t] = "clear_buckets" => s.id # pending[t].id
    BY <2>2 DEF MapInv, DevicesStay, Removable, Dropping
  <2>4. QED
    BY <2>1, <2>3, SegmentSteps
<1>2. QED
  BY <1>1, MapInvariant, TypeCorrect, PTL DEF Spec, DeviceRangesPermanent

-----------------------------------------------------------------------------
\* Redirects can be taken down.

\* Two ranges over a common address are in a common bucket: the buckets are
\* found by the first and the last address alone.
LEMMA CommonBucket ==
  ASSUME NEW r \in BusRange, NEW s \in BusRange,
         r.bus_start < r.bus_end, s.bus_start < s.bus_end, Overlaps(r, s)
  PROVE  \E b \in BucketIndex : b \in Cover(r) /\ b \in Cover(s)
<1>1. PICK a \in Address : a = IF r.bus_start <= s.bus_start THEN s.bus_start ELSE r.bus_start
  BY DEF BusRange
<1>2. /\ r.bus_start <= a /\ a <= r.bus_end - 1 /\ s.bus_start <= a /\ a <= s.bus_end - 1
      /\ r.bus_start \in Nat /\ r.bus_end - 1 \in Nat /\ s.bus_start \in Nat /\ s.bus_end - 1 \in Nat
      /\ a \in Nat
  BY <1>1 DEF BusRange, Address, Overlaps
<1>3. ASSUME NEW x \in Nat, NEW y \in Nat, x <= a, a <= y
      PROVE  a \div BucketSize \in (x \div BucketSize) .. (y \div BucketSize)
  <2>1. BucketSize \in Nat \ {0} /\ a \in Nat
    BY <1>2, BusAssumption
  <2>2. x \div BucketSize \in Nat /\ x \div BucketSize <= a \div BucketSize
    BY <1>3, <2>1, DivMonotone
  <2>3. a \div BucketSize \in Nat /\ a \div BucketSize <= y \div BucketSize
    BY <1>3, <2>1, DivMonotone
  <2>4. y \div BucketSize \in Nat
    BY <2>1, DivMonotone
  <2>5. QED
    BY <2>2, <2>3, <2>4
<1>4. bucket_index(a) \in Cover(r) /\ bucket_index(a) \in Cover(s)
  BY <1>2, <1>3 DEF Cover, bucket_index
<1>5. QED
  BY <1>4, BucketOfAddress

\* A redirect that is about to be recorded is mapped, and nobody else records
\* or removes it.
TakenOnce ==
  \A t \in Thread : pc[t] = "record_redirect" =>
    /\ seg[t].id \in DOMAIN range_index
    /\ seg[t].id \notin Recorded \cup Dropping
    /\ \A u \in Thread : u # t /\ pc[u] = "record_redirect" => seg[u].id # seg[t].id

\* A range that waits to be recorded as a redirect is indexed and is waited
\* for by one thread only.
LEMMA TakenOnceKept ==
  ASSUME TypeOK, IdsDrawn, TakenOnce, NEW t \in Thread, BeginCall(t) \/ Step(t)
  PROVE  TakenOnce'
<1> SUFFICES ASSUME NEW u \in Thread, pc'[u] = "record_redirect"
             PROVE  /\ seg'[u].id \in DOMAIN range_index'
                    /\ seg'[u].id \notin Recorded' /\ seg'[u].id \notin Dropping'
                    /\ \A v \in Thread : v # u /\ pc'[v] = "record_redirect" => seg'[v].id # seg'[u].id
  BY DEF TakenOnce
<1>1. CASE u = t
  <2>1. /\ pc[t] = "add_range" /\ seg' = seg /\ redirect_index' = redirect_index
        /\ DOMAIN range_index' = DOMAIN range_index \cup {seg[t].id}
    BY <1>1, IndexSteps DEF Quiet, RedirectIndexKept
  <2>2. seg[t].id \notin InUse
    BY <2>1 DEF IdsDrawn
  <2>3. \A v \in Thread \ {t} : pc'[v] = pc[v] /\ seg'[v] = seg[v] /\ pending'[v] = pending[v]
    BY OthersRest
  <2>4. Recorded' = Recorded
    BY <2>1 DEF Recorded
  <2>5. Dropping' \subseteq Dropping
    BY <1>1, <2>3 DEF Dropping
  <2>6. \A v \in Thread : v # t /\ pc'[v] = "record_redirect" => seg'[v].id \in InUse
    BY <2>3 DEF InUse, Removable, Recording
  <2>7. QED
    BY <1>1, <2>1, <2>2, <2>4, <2>5, <2>6 DEF InUse, Removable
<1>2. CASE u # t
  <2>1. pc[u] = "record_redirect" /\ seg'[u] = seg[u]
    BY <1>2, OthersRest
  <2>2. /\ seg[u].id \in DOMAIN range_index /\ seg[u].id \notin Recorded /\ seg[u].id \notin Dropping
        /\ pc[t] = "record_redirect" => seg[t].id # seg[u].id
    BY <1>2, <2>1 DEF TakenOnce
  <2>3. seg[u].id \in DOMAIN range_index'
    <3>1. pc[t] = "drop_range" => seg[u].id # pending[t].id
      BY <2>2 DEF Dropping
    <3>2. QED
      BY <2>2, <3>1, IndexSteps DEF RangeIndexKept
  <2>4. seg[u].id \notin Recorded'
    <3>1. \A k \in DOMAIN redirect_index' :
            \/ k \in DOMAIN redirect_index /\ redirect_index'[k] = redirect_index[k]
            \/ pc[t] = "record_redirect" /\ redirect_index'[k] = seg[t].id
      BY IndexSteps DEF RedirectIndexKept
    <3>2. QED
      BY <2>2, <3>1 DEF Recorded
  <2>5. seg[u].id \notin Dropping'
    <3>1. \A v \in Thread \ {t} : pc'[v] = pc[v] /\ pending'[v] = pending[v]
      BY OthersRest
    <3>2. pc'[t] \in {"drop_range", "clear_buckets"} =>
            \/ \E key \in DOMAIN redirect_index : pending'[t].id = redirect_index[key]
            \/ pc[t] = "drop_range" /\ pending'[t].id = pending[t].id
      BY IndexSteps DEF Quiet
    <3>3. pc'[t] \in {"drop_range", "clear_buckets"} => pending'[t].id \in Recorded \cup Dropping
      BY <3>2 DEF Recorded, Dropping
    <3>4. pc'[t] \in {"drop_range", "clear_buckets"} => pending'[t].id # seg[u].id
      BY <2>2, <3>3
    <3>5. QED
      BY <2>2, <3>1, <3>4 DEF Dropping
  <2>6. ASSUME NEW v \in Thread, v # u, pc'[v] = "record_redirect"
        PROVE  seg'[v].id # seg[u].id
    <3>1. CASE v = t
      <4>1. pc[t] = "add_range" /\ seg' = seg
        BY <2>6, <3>1, IndexSteps DEF Quiet
      <4>2. seg[t].id \notin InUse /\ seg[u].id \in InUse
        BY <2>1, <4>1 DEF IdsDrawn, InUse, Removable, Recording
      <4>3. QED
        BY <3>1, <4>1, <4>2
    <3>2. CASE v # t
      BY <2>1, <2>6, <3>2, OthersRest DEF TakenOnce
    <3>3. QED
      BY <3>1, <3>2
  <2>7. QED
    BY <2>1, <2>3, <2>4, <2>5, <2>6
<1>3. QED
  BY <1>1, <1>2

\* The key remove_redirect finds a redirect by.
Key(s) == <<s.bus_start, s.bus_end - s.bus_start>>

\* Where a redirect that range_index knows is to be found.
Held(s) ==
  \/ Key(s) \in DOMAIN redirect_index /\ redirect_index[Key(s)] = s.id
  \/ \E t \in Thread : pc[t] = "record_redirect" /\ seg[t].id = s.id
  \/ \E t \in Thread : pc[t] = "drop_range" /\ pending[t].id = s.id

\* RedirectsRemovable, segment by segment.
LEMMA RemovableIfHeld ==
  RedirectsRemovable <=>
    \A b \in BucketIndex : \A s \in SegmentsIn(b) :
      s.priority = REDIRECT_PRIORITY /\ s.id \in DOMAIN range_index => Held(s)
BY DEF RedirectsRemovable, Held, Key

\* Two segments of one bucket and one priority share no address.
LEMMA SegmentsApart ==
  ASSUME NoOverlapAtPriority, NEW b \in BucketIndex,
         NEW r \in SegmentsIn(b), NEW s \in SegmentsIn(b), r # s, r.priority = s.priority
  PROVE  ~Overlaps(r, s)
BY DEF NoOverlapAtPriority, SegmentsIn

\* A mapped segment is a nonempty range, and its buckets exist.
LEMMA MappedSegment ==
  ASSUME TypeOK, DeviceWindows, NEW b \in BucketIndex, NEW s \in SegmentsIn(b)
  PROVE  s \in BusRange /\ s.bus_start < s.bus_end /\ Cover(s) \subseteq BucketIndex
<1>1. s \in BusRange
  BY DEF TypeOK, SegmentsIn
<1>2. s.bus_start < s.bus_end
  BY DEF DeviceWindows, InWindow
<1>3. QED
  BY <1>1, <1>2, CoverInRange

\* No redirect is recorded over another one: two mapped redirects of one source
\* and size would overlap in every bucket they share.
LEMMA SameKey ==
  ASSUME TypeOK, DeviceWindows, NoOverlapAtPriority, MapInv, TakenOnce,
         NEW t \in Thread, pc[t] = "record_redirect",
         NEW b \in BucketIndex, NEW s \in SegmentsIn(b),
         s.priority = REDIRECT_PRIORITY, s.id \in DOMAIN range_index,
         Key(s) = <<call[t].arg.source_start, call[t].arg.size>>
  PROVE  s.id = seg[t].id
<1> SUFFICES ASSUME s.id # seg[t].id PROVE FALSE
  OBVIOUS
<1> DEFINE r == seg[t]
<1>1. r \in BusRange /\ r.priority = s.priority /\ s \in BusRange /\ s.bus_start < s.bus_end
  BY MappedSegment DEF TypeOK, MapInv, InHand, Redirected
<1>2. r.bus_start = s.bus_start /\ r.bus_end = s.bus_end
  <2>1. r.bus_start = call[t].arg.source_start /\ r.bus_end = call[t].arg.source_start + call[t].arg.size
    BY DEF MapInv, InHand, Redirected
  <2>2. s.bus_start = call[t].arg.source_start /\ s.bus_end - s.bus_start = call[t].arg.size
    BY DEF Key
  <2>3. s.bus_start \in Nat /\ s.bus_end \in Nat
    BY <1>1 DEF BusRange, Address
  <2>4. QED
    BY <2>1, <2>2, <2>3
<1>3. Cover(r) = Cover(s) /\ Overlaps(r, s)
  BY <1>1, <1>2 DEF Cover, Overlaps
<1>4. PICK c \in range_index[s.id] : c \in BucketIndex /\ s \in SegmentsIn(c) /\ c \in Cover(s)
  BY DEF MapInv, IndexedRanges, OneSegmentPerId
<1>5. \A d \in range_index[r.id] : d \in BucketIndex /\ r \in SegmentsIn(d) /\ range_index[r.id] = Cover(r)
  BY DEF MapInv, IndexedRanges, OneSegmentPerId, TakenOnce
<1>6. range_index[r.id] # {}
  BY DEF MapInv, IndexedRanges, TakenOnce
<1>7. c \in range_index[r.id]
  BY <1>3, <1>4, <1>5, <1>6
<1>8. r \in SegmentsIn(c) /\ r # s
  BY <1>5, <1>7
<1>9. QED
  BY <1>1, <1>3, <1>4, <1>8, SegmentsApart

\* A redirect in the map stays held: recorded under its key, about to be
\* recorded by its thread, or about to be dropped.
LEMMA HeldKept ==
  ASSUME TypeOK, DeviceWindows, NoOverlapAtPriority, MapInv, TakenOnce, RedirectsRemovable,
         NEW t \in Thread, BeginCall(t) \/ Step(t),
         NEW b \in BucketIndex, NEW s \in SegmentsIn(b)',
         s.priority = REDIRECT_PRIORITY, s.id \in DOMAIN range_index'
  PROVE  Held(s)'
<1>0. \A u \in Thread \ {t} : pc'[u] = pc[u] /\ seg'[u] = seg[u] /\ pending'[u] = pending[u]
  BY OthersRest
<1>1. s \in SegmentsIn(b) \/ (pc[t] = "add_range" /\ s = seg[t])
  BY SegmentSteps
<1>2. pc[t] = "add_range" => seg[t].id \notin DOMAIN range_index /\ seg[t].id \notin MappedIds
  BY DEF MapInv, IdsDrawn, InUse
<1>3. CASE s \notin SegmentsIn(b) \/ s.id \notin DOMAIN range_index
  <2>1. s.id \notin DOMAIN range_index
    BY <1>1, <1>2, <1>3
  <2>2. /\ pc[t] = "add_range" /\ s.id = seg[t].id
        /\ \/ call[t].op = "register"
           \/ pc'[t] = "record_redirect" /\ seg' = seg
    BY <2>1, IndexSteps DEF RangeIndexKept
  <2>3. s = seg[t]
    BY <1>1, <1>2, <2>2, MappedId
  <2>4. call[t].op # "register"
    BY <2>2, <2>3 DEF MapInv, InHand, DEVICE_PRIORITY, REDIRECT_PRIORITY
  <2>5. QED
    BY <2>2, <2>4 DEF Held
<1>4. CASE s \in SegmentsIn(b) /\ s.id \in DOMAIN range_index
  <2>1. Held(s)
    BY <1>4, RemovableIfHeld
  <2>2. CASE Key(s) \in DOMAIN redirect_index /\ redirect_index[Key(s)] = s.id
    <3>1. CASE redirect_index' = redirect_index
      BY <2>2, <3>1 DEF Held, Key
    <3>2. CASE pc[t] = "record_redirect"
      <4> DEFINE key == <<call[t].arg.source_start, call[t].arg.size>>
      <4>1. /\ DOMAIN redirect_index' = DOMAIN redirect_index \cup {key}
            /\ redirect_index'[key] = seg[t].id
            /\ \A k \in DOMAIN redirect_index \ {key} : redirect_index'[k] = redirect_index[k]
        BY <3>2, IndexSteps
      <4>2. Key(s) = key => s.id = seg[t].id
        BY <1>4, <3>2, SameKey
      <4> HIDE DEF key
      <4>3. Key(s) \in DOMAIN redirect_index' /\ redirect_index'[Key(s)] = s.id
        BY <2>2, <4>1, <4>2
      <4>4. QED
        BY <4>3 DEF Held, Key
    <3>3. CASE pc[t] = "idle" /\ redirect_index' # redirect_index
      <4>1. PICK key \in DOMAIN redirect_index :
              /\ pending'[t].id = redirect_index[key] /\ pc'[t] = "drop_range"
              /\ DOMAIN redirect_index' = DOMAIN redirect_index \ {key}
              /\ \A k \in DOMAIN redirect_index' : redirect_index'[k] = redirect_index[k]
        BY <3>3, IndexSteps DEF RedirectIndexKept
      <4>2. CASE key = Key(s)
        BY <2>2, <4>1, <4>2 DEF Held
      <4>3. CASE key # Key(s)
        <5>1. Key(s) \in DOMAIN redirect_index' /\ redirect_index'[Key(s)] = s.id
          BY <2>2, <4>1, <4>3
        <5>2. QED
          BY <5>1 DEF Held, Key
      <4>4. QED
        BY <4>2, <4>3
    <3>4. QED
      BY <3>1, <3>2, <3>3, IndexSteps DEF RedirectIndexKept
  <2>3. ASSUME NEW u \in Thread, pc[u] = "record_redirect", seg[u].id = s.id
        PROVE  Held(s)'
    <3>1. CASE u # t
      BY <1>0, <2>3, <3>1 DEF Held
    <3>2. CASE u = t
      <4> DEFINE key == <<call[t].arg.source_start, call[t].arg.size>>
      <4>1. key \in DOMAIN redirect_index' /\ redirect_index'[key] = seg[t].id
        BY <2>3, <3>2, IndexSteps
      <4>2. s = seg[t]
        BY <1>4, <2>3, <3>2 DEF MapInv, OneSegmentPerId
      <4>3. /\ s.bus_start = call[t].arg.source_start
            /\ s.bus_end = call[t].arg.source_start + call[t].arg.size
            /\ s \in BusRange
        BY <2>3, <3>2, <4>2 DEF MapInv, InHand, Redirected, TypeOK
      <4>4. call[t].arg.size = s.bus_end - s.bus_start
        <5>1. LocalsOK(t)
          BY DEF TypeOK
        <5>2. call[t].arg.source_start \in Nat /\ call[t].arg.size \in Nat
          BY <2>3, <3>2, <5>1, BusAssumption DEF LocalsOK
        <5>3. QED
          BY <4>3, <5>2
      <4>5. Key(s) = key
        BY <4>3, <4>4 DEF Key
      <4> HIDE DEF key
      <4>6. Key(s) \in DOMAIN redirect_index' /\ redirect_index'[Key(s)] = s.id
        BY <4>1, <4>2, <4>5
      <4>7. QED
        BY <4>6 DEF Held, Key
    <3>3. QED
      BY <3>1, <3>2
  <2>4. ASSUME NEW u \in Thread, pc[u] = "drop_range", pending[u].id = s.id
        PROVE  Held(s)'
    <3>1. CASE u # t
      BY <1>0, <2>4, <3>1 DEF Held
    <3>2. u # t
      BY <1>4, <2>4, IndexSteps DEF RangeIndexKept
    <3>3. QED
      BY <3>1, <3>2
  <2>5. QED
    BY <2>1, <2>2, <2>3, <2>4 DEF Held
<1>5. QED
  BY <1>3, <1>4

\* Whoever maps a redirect can take it down: range_index never knows a redirect
\* that neither redirect_index nor a call under way holds the id of.
THEOREM RedirectsStayRemovable == Spec => []RedirectsRemovable
<1> DEFINE Inv == TakenOnce /\ RedirectsRemovable
<1>1. Init => Inv
  BY DEF Init, TakenOnce, RedirectsRemovable, SegmentsIn
<1>2. /\ TypeOK /\ DeviceWindows /\ NoOverlapAtPriority /\ MapInv
      /\ Inv /\ [Next]_vars
      => Inv'
  <2> SUFFICES ASSUME TypeOK, DeviceWindows, NoOverlapAtPriority, MapInv, Inv, [Next]_vars
               PROVE  Inv'
    OBVIOUS
  <2>1. CASE Next
    <3>1. PICK t \in Thread : BeginCall(t) \/ Step(t)
      BY <2>1 DEF Next
    <3>2. TakenOnce'
      BY <3>1, TakenOnceKept DEF MapInv
    <3>3. ASSUME NEW b \in BucketIndex, NEW s \in SegmentsIn(b)',
                 s.priority = REDIRECT_PRIORITY, s.id \in DOMAIN range_index'
          PROVE  Held(s)'
      BY <3>1, <3>3, HeldKept
    <3>4. RedirectsRemovable'
      BY <3>3 DEF RedirectsRemovable, Held, Key
    <3>5. QED
      BY <3>2, <3>4
  <2>2. CASE UNCHANGED vars
    BY <2>2 DEF vars, tables, TakenOnce, Recorded, Dropping, RedirectsRemovable, SegmentsIn
  <2>3. QED
    BY <2>1, <2>2
<1>3. QED
  BY <1>1, <1>2, TypeCorrect, WindowsKept, OverlapFree, MapInvariant, PTL DEF Spec

-----------------------------------------------------------------------------
\* The buckets implement a memory map.

InSomeBucket(s) == \E b \in BucketIndex : s \in SegmentsIn(b)

\* A range is mapped when each bucket it covers holds its segment.
LEMMA MappedRange ==
  ASSUME NEW s
  PROVE  s \in MappedRanges <=> InSomeBucket(s) /\ \A b \in Cover(s) : s \in SegmentsIn(b)
BY DEF MappedRanges, InSomeBucket

\* A range whose segments a step leaves where they are stays mapped or unmapped.
LEMMA MappedSame ==
  ASSUME NEW s, Cover(s) \subseteq BucketIndex,
         \A b \in BucketIndex : s \in SegmentsIn(b)' <=> s \in SegmentsIn(b)
  PROVE  s \in MappedRanges' <=> s \in MappedRanges
BY DEF MappedRanges, Cover, bucket_index

\* A range that no bucket rejects shares no address with a mapped range of its
\* priority, though every bucket was asked only about its own segments.
LEMMA AddedApart ==
  ASSUME TypeOK, DeviceWindows, NEW t \in Thread, pc[t] = "add_range", Rejecting(seg[t]) = {},
         NEW m \in MappedRanges
  PROVE  ~Clash(seg[t], m)
<1> SUFFICES ASSUME Clash(seg[t], m) PROVE FALSE
  OBVIOUS
<1>1. seg[t] \in BusRange /\ seg[t].bus_start < seg[t].bus_end
  BY DEF TypeOK, LocalsOK
<1>2. m \in BusRange /\ m.bus_start < m.bus_end /\ Cover(m) \subseteq BucketIndex
  BY MappedRange, MappedSegment DEF InSomeBucket
<1>3. PICK b \in BucketIndex : b \in Cover(seg[t]) /\ b \in Cover(m)
  BY <1>1, <1>2, CommonBucket DEF Clash
<1>4. m \in SegmentsIn(b)
  BY <1>3, MappedRange
<1>5. Clash(m, seg[t])
  BY DEF Clash, Overlaps
<1>6. Conflicts(buckets[b], seg[t])
  BY <1>4, <1>5 DEF Conflicts, SegmentsIn
<1>7. QED
  BY <1>3, <1>6 DEF Rejecting

\* A segment of a bucket, before or after a step, covers buckets that exist.
LEMMA StepCovers ==
  ASSUME TypeOK, DeviceWindows, NEW t \in Thread, BeginCall(t) \/ Step(t),
         NEW b \in BucketIndex, NEW s, s \in SegmentsIn(b) \/ s \in SegmentsIn(b)'
  PROVE  Cover(s) \subseteq BucketIndex
<1>1. s \in SegmentsIn(b) \/ (pc[t] = "add_range" /\ s = seg[t])
  BY SegmentSteps
<1>2. CASE s \in SegmentsIn(b)
  BY <1>2, MappedSegment
<1>3. CASE pc[t] = "add_range" /\ s = seg[t]
  BY <1>3, CoverInRange DEF TypeOK, LocalsOK
<1>4. QED
  BY <1>1, <1>2, <1>3

\* A step changes the map at most by the ranges whose segments it moves.
LEMMA MapChanges ==
  ASSUME TypeOK, DeviceWindows, NEW t \in Thread, BeginCall(t) \/ Step(t),
         NEW s, \A b \in BucketIndex : s \in SegmentsIn(b)' <=> s \in SegmentsIn(b)
  PROVE  s \in MappedRanges' <=> s \in MappedRanges
<1>1. CASE \E b \in BucketIndex : s \in SegmentsIn(b)
  BY <1>1, StepCovers, MappedSame
<1>2. CASE ~\E b \in BucketIndex : s \in SegmentsIn(b)
  BY <1>2 DEF MappedRanges
<1>3. QED
  BY <1>1, <1>2

\* Each step of the bus maps a range, unmaps one or leaves the set of mapped
\* ranges alone; the half-cleared states in between count as unmapped.
LEMMA StepImplementsMap ==
  ASSUME TypeOK, DeviceWindows, MapInv, NEW t \in Thread, BeginCall(t) \/ Step(t)
  PROVE  Abstract!Next \/ MappedRanges' = MappedRanges
<1> DEFINE s == seg[t]
<1>1. CASE AddRange(t)
  <2>1. /\ pc[t] = "add_range" /\ Rejecting(s) = {}
        /\ s \in BusRange /\ s.bus_start < s.bus_end
        /\ Cover(s) \subseteq BucketIndex /\ Cover(s) # {}
    BY <1>1, CoverInRange, CoverNonempty DEF AddRange, TypeOK, LocalsOK
  <2>2. \A b \in BucketIndex : SegmentsIn(b)' =
          IF b \in Cover(s) THEN SegmentsIn(b) \cup {s} ELSE SegmentsIn(b)
    <3>1. ASSUME NEW b \in BucketIndex
          PROVE  SegmentsIn(b)' = IF b \in Cover(s) THEN SegmentsIn(b) \cup {s} ELSE SegmentsIn(b)
      <4>1. buckets[b] \in Seq(BusRange)
        BY DEF TypeOK
      <4>2. SegmentsIn(b) = Segments(buckets[b]) /\ SegmentsIn(b)' = Segments(buckets'[b])
        BY DEF SegmentsIn, Segments
      <4>3. buckets'[b] = IF b \in Cover(s) THEN insert_segment(buckets[b], s) ELSE buckets[b]
        BY <1>1 DEF AddRange
      <4>4. QED
        BY <2>1, <4>1, <4>2, <4>3, InsertSegments
    <3>2. QED
      BY <3>1
  <2> HIDE DEF s
  <2>3. s \in MappedRanges'
    BY <2>1, <2>2 DEF MappedRanges, Cover, bucket_index
  <2>4. ASSUME NEW r, r # s
        PROVE  r \in MappedRanges' <=> r \in MappedRanges
    <3>1. \A b \in BucketIndex : r \in SegmentsIn(b)' <=> r \in SegmentsIn(b)
      BY <2>2, <2>4
    <3>2. QED
      BY <3>1, MapChanges
  <2>5. MappedRanges' = MappedRanges \cup {s}
    BY <2>3, <2>4
  <2>6. \A m \in MappedRanges : ~Clash(s, m)
    BY <2>1, AddedApart DEF s
  <2>7. Abstract!Add(s)
    BY <2>5, <2>6 DEF Abstract!Add
  <2>8. QED
    BY <2>3, <2>7 DEF Abstract!Next
<1>2. CASE AddRangeConflict(t)
  <2>1. pc[t] = "add_range" /\ s \in BusRange /\ Cover(s) \subseteq BucketIndex
    BY <1>2, CoverInRange DEF AddRangeConflict, TypeOK, LocalsOK
  <2>2. PICK c \in Rejecting(s) : c \in BucketIndex /\ c \in Cover(s)
    BY <1>2, <2>1 DEF AddRangeConflict, Rejecting
  <2>3. buckets'[c] = buckets[c]
    <3>1. c \notin Accepting(s)
      BY <2>2 DEF Accepting, BucketIndex
    <3>2. QED
      BY <1>2, <2>2, <3>1 DEF AddRangeConflict
  <2>4. \A b \in BucketIndex : s \notin SegmentsIn(b)
    BY <2>1, MappedId DEF MapInv, IdsDrawn, InUse
  <2>5. s \notin SegmentsIn(c)'
    BY <2>2, <2>3, <2>4 DEF SegmentsIn
  <2>6. s \notin MappedRanges /\ s \notin MappedRanges'
    <3>1. s \notin MappedRanges
      BY <2>4 DEF MappedRanges
    <3>2. s \notin MappedRanges'
      BY <2>2, <2>5 DEF MappedRanges, Cover, bucket_index
    <3>3. QED
      BY <3>1, <3>2
  <2>7. ASSUME NEW r, r # s
        PROVE  r \in MappedRanges' <=> r \in MappedRanges
    <3>1. \A b \in BucketIndex : r \in SegmentsIn(b)' <=> r \in SegmentsIn(b)
      BY <2>1, <2>7, SegmentSteps
    <3>2. QED
      BY <3>1, MapChanges
  <2> HIDE DEF s
  <2>8. QED
    BY <2>6, <2>7
<1>3. CASE ClearBuckets(t)
  <2> DEFINE id == pending[t].id
  <2>1. /\ pc[t] = "clear_buckets" /\ id \in Removable
        /\ \A b \in BucketIndex :
             /\ SegmentsIn(b)' \subseteq SegmentsIn(b)
             /\ \A r \in SegmentsIn(b) : r.id # id => r \in SegmentsIn(b)'
    BY <1>3, SegmentSteps DEF ClearBuckets, Removable, Dropping
  <2> HIDE DEF id
  <2>2. ASSUME NEW r, r.id # id
        PROVE  r \in MappedRanges' <=> r \in MappedRanges
    <3>1. \A b \in BucketIndex : r \in SegmentsIn(b)' <=> r \in SegmentsIn(b)
      BY <2>1, <2>2
    <3>2. QED
      BY <3>1, MapChanges
  <2>3. ASSUME NEW r \in MappedRanges'
        PROVE  r \in MappedRanges
    <3>1. PICK b \in BucketIndex : r \in SegmentsIn(b)'
      BY DEF MappedRanges
    <3>2. Cover(r) \subseteq BucketIndex
      BY <3>1, StepCovers
    <3>3. QED
      BY <2>1, <3>1, <3>2 DEF MappedRanges, Cover, bucket_index
  <2>4. CASE \A r \in MappedRanges : r \in MappedRanges'
    BY <2>3, <2>4
  <2>5. CASE \E r \in MappedRanges : r \notin MappedRanges'
    <3>1. PICK r \in MappedRanges : r \notin MappedRanges'
      BY <2>5
    <3>2. r.id = id
      BY <2>2, <3>1
    <3>3. ASSUME NEW q \in MappedRanges, q # r
          PROVE  q \in MappedRanges'
      <4>1. q.id # id
        BY <3>2, <3>3, MappedRange DEF MapInv, OneSegmentPerId, InSomeBucket
      <4>2. QED
        BY <2>2, <4>1
    <3>4. MappedRanges' = MappedRanges \ {r}
      BY <2>3, <3>1, <3>3
    <3>5. ~Permanent(r)
      BY <2>1, <3>2, MappedRange DEF MapInv, DevicesStay, InSomeBucket, Permanent
    <3>6. Abstract!Remove(r)
      BY <3>4, <3>5 DEF Abstract!Remove
    <3>7. QED
      BY <3>6 DEF Abstract!Next
  <2>6. QED
    BY <2>4, <2>5
<1>4. CASE ~(AddRange(t) \/ AddRangeConflict(t) \/ ClearBuckets(t))
  <2>1. buckets' = buckets
    BY <1>4 DEF Step, BeginCall, BeginRegister, BeginRedirect, BeginRemove, BeginResolve, tables,
                CheckName, LockDevices, PushDevice, ReportConflict, FindSegment, FindDevice,
                AimRedirect, RecordRedirect, DropRange
  <2>2. \A b \in BucketIndex : SegmentsIn(b)' = SegmentsIn(b)
    BY <2>1 DEF SegmentsIn
  <2>3. \A r : r \in MappedRanges' <=> r \in MappedRanges
    BY <2>2, MapChanges
  <2>4. QED
    BY <2>3
<1>5. QED
  BY <1>1, <1>2, <1>3, <1>4

\* The hashed, lock-by-lock bus is a memory map: every step of every thread
\* adds one range that clashes with none, takes out one redirect, or changes
\* nothing.  A range that overlaps another is rejected although each bucket
\* only compares what hashes to it, and a rejected range is never mapped
\* although it stays behind in some buckets.
THEOREM MapImplemented == Spec => ImplementsMap
<1>1. Init => Abstract!Init
  BY DEF Init, Abstract!Init, MappedRanges, SegmentsIn
<1>2. TypeOK /\ DeviceWindows /\ MapInv /\ [Next]_vars => [Abstract!Next]_MappedRanges
  <2> SUFFICES ASSUME TypeOK, DeviceWindows, MapInv, [Next]_vars
               PROVE  Abstract!Next \/ MappedRanges' = MappedRanges
    OBVIOUS
  <2>1. CASE Next
    BY <2>1, StepImplementsMap DEF Next
  <2>2. CASE UNCHANGED vars
    BY <2>2 DEF vars, tables, MappedRanges, SegmentsIn, Cover, bucket_index
  <2>3. QED
    BY <2>1, <2>2
<1>3. QED
  BY <1>1, <1>2, TypeCorrect, WindowsKept, MapInvariant, PTL DEF Spec, ImplementsMap, Abstract!Spec

-----------------------------------------------------------------------------
\* What resolve answers.

\* Each range is in all buckets of its addresses and in no other, and a removal
\* that has begun will take it out of all of them.
HeldWhole ==
  /\ \A b \in BucketIndex : \A s \in SegmentsIn(b) :
       b \in Cover(s) /\ \A c \in Cover(s) : s \in SegmentsIn(c)
  /\ \A t \in Thread : pc[t] = "clear_buckets" =>
       \A b \in BucketIndex : \A s \in SegmentsIn(b) :
         s.id = pending[t].id => pending[t].touched = Cover(s)

\* A call that meets an overlap meets it in the first bucket it visits: the
\* refused range stays behind nowhere.
RefusedAtOnce == \A t \in Thread : AddRangeConflict(t) => Accepting(seg[t]) = {}

\* retain leaves no segment of the id in a bucket without duplicates.
LEMMA RetainDrops ==
  ASSUME NEW entry \in Seq(BusRange), NEW id, IdsUnique(entry), NEW s \in Segments(Retain(entry, id))
  PROVE  s.id # id
<1>1. Len(entry) \in Nat
  OBVIOUS
<1>2. CASE \E i \in 1 .. Len(entry) : entry[i].id = id
  <2> DEFINE k == CHOOSE i \in 1 .. Len(entry) : entry[i].id = id
  <2>1. k \in 1 .. Len(entry) /\ entry[k].id = id
    BY <1>2
  <2>2. Retain(entry, id) = [i \in 1 .. Len(entry) - 1 |-> IF i < k THEN entry[i] ELSE entry[i + 1]]
    BY <1>2 DEF Retain
  <2> HIDE DEF k
  <2>3. PICK i \in 1 .. Len(entry) - 1 : s = IF i < k THEN entry[i] ELSE entry[i + 1]
    BY <1>1, <2>1, <2>2 DEF Segments
  <2>4. i \in 1 .. Len(entry) /\ i + 1 \in 1 .. Len(entry) /\ (~(i < k) => i + 1 # k) /\ (i < k => i # k)
    BY <1>1, <2>1, <2>3
  <2>5. QED
    BY <2>1, <2>3, <2>4 DEF IdsUnique
<1>3. CASE ~\E i \in 1 .. Len(entry) : entry[i].id = id
  BY <1>3 DEF Retain, Segments
<1>4. QED
  BY <1>2, <1>3

\* A step that refuses nothing half-way keeps every range whole.
LEMMA HeldWholeKept ==
  ASSUME TypeOK, DeviceWindows, SegmentIdsUnique, MapInv, HeldWhole, RefusedAtOnce,
         NEW t \in Thread, BeginCall(t) \/ Step(t)
  PROVE  HeldWhole'
<1> USE DEF tables
<1>0. \A b \in BucketIndex : /\ SegmentsIn(b) = Segments(buckets[b]) /\ SegmentsIn(b)' = Segments(buckets'[b])
                             /\ buckets[b] \in Seq(BusRange) /\ IdsUnique(buckets[b])
  BY DEF SegmentsIn, Segments, TypeOK, SegmentIdsUnique, IdsUnique
<1>1. CASE AddRange(t)
  <2> DEFINE r == seg[t]
  <2>1. /\ pc[t] = "add_range" /\ r \in BusRange /\ r.bus_start < r.bus_end /\ Cover(r) \subseteq BucketIndex
        /\ r.id \notin InUse
    BY <1>1, CoverInRange DEF AddRange, TypeOK, LocalsOK, MapInv, IdsDrawn
  <2>2. ASSUME NEW b \in BucketIndex
        PROVE  SegmentsIn(b)' = IF b \in Cover(r) THEN SegmentsIn(b) \cup {r} ELSE SegmentsIn(b)
    <3>1. buckets'[b] = IF b \in Cover(r) THEN insert_segment(buckets[b], r) ELSE buckets[b]
      BY <1>1 DEF AddRange
    <3>2. QED
      BY <1>0, <2>1, <3>1, InsertSegments
  <2> HIDE DEF r
  <2>3. ASSUME NEW b \in BucketIndex, NEW s \in SegmentsIn(b)'
        PROVE  b \in Cover(s) /\ \A c \in Cover(s) : s \in SegmentsIn(c)'
    <3>1. CASE s = r /\ b \in Cover(r)
      BY <2>1, <2>2, <3>1
    <3>2. CASE s \in SegmentsIn(b)
      <4>1. b \in Cover(s) /\ \A c \in Cover(s) : s \in SegmentsIn(c)
        BY <3>2 DEF HeldWhole
      <4>2. Cover(s) \subseteq BucketIndex
        BY <3>2, MappedSegment
      <4>3. QED
        BY <2>2, <4>1, <4>2
    <3>3. QED
      BY <2>2, <2>3, <3>1, <3>2
  <2>4. ASSUME NEW u \in Thread, pc'[u] = "clear_buckets",
               NEW b \in BucketIndex, NEW s \in SegmentsIn(b)', s.id = pending'[u].id
        PROVE  pending'[u].touched = Cover(s)
    <3>1. u # t
      BY <1>1, <2>4 DEF AddRange, Return, Goto, TypeOK
    <3>2. pc[u] = "clear_buckets" /\ pending'[u] = pending[u]
      BY <2>4, <3>1, OthersRest
    <3>3. pending[u].id \in InUse
      BY <3>2 DEF InUse, Removable, Dropping
    <3>4. s \in SegmentsIn(b)
      BY <2>1, <2>2, <2>4, <3>2, <3>3
    <3>5. QED
      BY <2>4, <3>2, <3>4 DEF HeldWhole
  <2>5. QED
    BY <2>3, <2>4 DEF HeldWhole, Cover, bucket_index
<1>2. CASE ClearBuckets(t)
  <2> DEFINE id == pending[t].id
  <2>1. /\ pc[t] = "clear_buckets"
        /\ \A b \in BucketIndex :
             /\ SegmentsIn(b)' \subseteq SegmentsIn(b)
             /\ \A s \in SegmentsIn(b) : s.id # id => s \in SegmentsIn(b)'
    BY <1>2, SegmentSteps DEF ClearBuckets
  <2>2. ASSUME NEW b \in BucketIndex, NEW s \in SegmentsIn(b)'
        PROVE  s.id # id
    <3> SUFFICES ASSUME s.id = id PROVE FALSE
      OBVIOUS
    <3>1. s \in SegmentsIn(b)
      BY <2>1
    <3>2. b \in pending[t].touched
      BY <2>1, <3>1 DEF HeldWhole
    <3>3. buckets'[b] = Retain(buckets[b], id)
      BY <1>2, <3>2 DEF ClearBuckets
    <3>4. QED
      BY <1>0, <3>3, RetainDrops
  <2> HIDE DEF id
  <2>3. ASSUME NEW b \in BucketIndex, NEW s \in SegmentsIn(b)'
        PROVE  b \in Cover(s) /\ \A c \in Cover(s) : s \in SegmentsIn(c)'
    <3>1. s \in SegmentsIn(b) /\ s.id # id
      BY <2>1, <2>2
    <3>2. b \in Cover(s) /\ (\A c \in Cover(s) : s \in SegmentsIn(c)) /\ Cover(s) \subseteq BucketIndex
      BY <3>1, MappedSegment DEF HeldWhole
    <3>3. QED
      BY <2>1, <3>1, <3>2
  <2>4. ASSUME NEW u \in Thread, pc'[u] = "clear_buckets",
               NEW b \in BucketIndex, NEW s \in SegmentsIn(b)', s.id = pending'[u].id
        PROVE  pending'[u].touched = Cover(s)
    <3>1. u # t
      BY <1>2, <2>4 DEF ClearBuckets, Return, TypeOK
    <3>2. pc[u] = "clear_buckets" /\ pending'[u] = pending[u] /\ s \in SegmentsIn(b)
      BY <2>1, <2>4, <3>1, OthersRest
    <3>3. QED
      BY <2>4, <3>2 DEF HeldWhole
  <2>5. QED
    BY <2>3, <2>4 DEF HeldWhole, Cover, bucket_index
<1>3. CASE ~AddRange(t) /\ ~ClearBuckets(t)
  <2>1. \A b \in BucketIndex : SegmentsIn(b)' = SegmentsIn(b)
    <3>1. CASE AddRangeConflict(t)
      <4>1. \A b \in BucketIndex : buckets'[b] = buckets[b]
        BY <3>1 DEF AddRangeConflict, RefusedAtOnce
      <4>2. QED
        BY <4>1 DEF SegmentsIn
    <3>2. CASE ~AddRangeConflict(t)
      <4>1. buckets' = buckets
        BY <1>3, <3>2 DEF Step, BeginCall, BeginRegister, BeginRedirect, BeginRemove, BeginResolve,
                CheckName, LockDevices, PushDevice, ReportConflict, FindSegment, FindDevice,
                AimRedirect, RecordRedirect, DropRange
      <4>2. QED
        BY <4>1 DEF SegmentsIn
    <3>3. QED
      BY <3>1, <3>2
  <2>2. ASSUME NEW u \in Thread, pc'[u] = "clear_buckets",
               NEW b \in BucketIndex, NEW s \in SegmentsIn(b)', s.id = pending'[u].id
        PROVE  pending'[u].touched = Cover(s)
    <3>1. s \in SegmentsIn(b)
      BY <2>1, <2>2
    <3>2. CASE pc[u] = "clear_buckets" /\ pending'[u] = pending[u]
      BY <2>2, <3>1, <3>2 DEF HeldWhole
    <3>3. CASE u = t /\ DropRange(t)
      <4>1. /\ pending'[t].id = pending[t].id /\ pending[t].id \in DOMAIN range_index
            /\ pending'[t].touched = range_index[pending[t].id]
        BY <2>2, <3>3 DEF DropRange, Return, Goto, TypeOK
      <4>2. PICK c \in range_index[pending[t].id] : c \in BucketIndex
        BY <4>1 DEF MapInv, IndexedRanges
      <4>3. PICK r \in SegmentsIn(c) : r.id = pending[t].id /\ range_index[pending[t].id] = Cover(r)
        BY <4>1, <4>2 DEF MapInv, IndexedRanges
      <4>4. r = s
        BY <2>2, <3>1, <3>3, <4>1, <4>2, <4>3 DEF MapInv, OneSegmentPerId
      <4>5. QED
        BY <3>3, <4>1, <4>3, <4>4
    <3>4. CASE u = t /\ ~DropRange(t)
      BY <1>3, <2>2, <3>4 DEF Step, BeginCall, BeginRegister, BeginRedirect, BeginRemove, BeginResolve,
                Begin, Return, Goto, TypeOK,
                CheckName, LockDevices, PushDevice, AddRangeConflict, ReportConflict, FindSegment, FindDevice,
                AimRedirect, RecordRedirect
    <3>5. QED
      BY <2>2, <3>2, <3>3, <3>4, OthersRest
  <2>3. QED
    <3>1. ASSUME NEW b \in BucketIndex, NEW s \in SegmentsIn(b)'
          PROVE  b \in Cover(s) /\ \A c \in Cover(s) : s \in SegmentsIn(c)'
      BY <2>1, MappedSegment DEF HeldWhole
    <3>2. QED
      BY <2>2, <3>1 DEF HeldWhole, Cover, bucket_index
<1>4. QED
  BY <1>1, <1>2, <1>3

\* The range an address of a range hashes to is among those of the range.
LEMMA AddressCovered ==
  ASSUME NEW s \in BusRange, NEW a \in Address, Contains(s, a)
  PROVE  bucket_index(a) \in Cover(s)
<1>1. /\ BucketSize \in Nat \ {0} /\ a \in Nat /\ s.bus_start \in Nat /\ s.bus_end - 1 \in Nat
      /\ s.bus_start <= a /\ a <= s.bus_end - 1
  BY BusAssumption DEF Contains, BusRange, Address
<1>2. s.bus_start \div BucketSize \in Nat /\ s.bus_start \div BucketSize <= a \div BucketSize
  BY <1>1, DivMonotone
<1>3. a \div BucketSize \in Nat /\ a \div BucketSize <= (s.bus_end - 1) \div BucketSize
  BY <1>1, DivMonotone
<1>4. (s.bus_end - 1) \div BucketSize \in Nat
  BY <1>1, DivMonotone
<1>5. QED
  BY <1>2, <1>3, <1>4 DEF Cover, bucket_index

\* The one bucket that resolve searches knows all ranges that contain the
\* address, and its first hit is the one range of the highest priority.
LEMMA FirstHitIsBest ==
  ASSUME TypeOK, DeviceWindows, NoOverlapAtPriority, FirstHitIsTopPriority, HeldWhole, NEW a \in Address
  PROVE  Best(MappedRanges, a) =
           IF Hits(buckets[bucket_index(a)], a) = {} THEN {}
           ELSE {FirstHit(buckets[bucket_index(a)], a)}
<1> DEFINE b == bucket_index(a)
           hits == {r \in MappedRanges : Contains(r, a)}
<1>1. b \in BucketIndex /\ buckets[b] \in Seq(BusRange)
  BY BucketOfAddress DEF TypeOK
<1>2. ASSUME NEW r
      PROVE  r \in hits <=> r \in SegmentsIn(b) /\ Contains(r, a)
  <2>1. ASSUME r \in MappedRanges, Contains(r, a)
        PROVE  r \in SegmentsIn(b)
    <3>1. r \in BusRange
      BY <2>1, MappedRange, MappedSegment DEF InSomeBucket
    <3>2. QED
      BY <2>1, <3>1, AddressCovered, MappedRange
  <2>2. ASSUME r \in SegmentsIn(b)
        PROVE  r \in MappedRanges
    BY <1>1, <2>2, MappedRange DEF HeldWhole, InSomeBucket
  <2>3. QED
    BY <2>1, <2>2
<1>3. Best(MappedRanges, a) = {r \in hits : \A s \in hits : r.priority >= s.priority}
  BY DEF Best
<1> HIDE DEF b, hits
<1>4. CASE Hits(buckets[b], a) = {}
  <2>1. hits = {}
    BY <1>2, <1>4 DEF Hits, SegmentsIn
  <2>2. QED
    BY <1>3, <1>4, <2>1 DEF b
<1>5. CASE Hits(buckets[b], a) # {}
  <2>1. Hits(buckets[b], a) \in SUBSET Nat
    BY DEF Hits
  <2>2. \E i \in Hits(buckets[b], a) : \A j \in Hits(buckets[b], a) : i <= j
    BY <1>5, <2>1, Least
  <2>3. PICK i \in Hits(buckets[b], a) : /\ FirstHit(buckets[b], a) = buckets[b][i]
                                         /\ \A j \in Hits(buckets[b], a) : i <= j
    BY <2>2 DEF FirstHit
  <2> DEFINE f == buckets[b][i]
  <2>4. i \in 1 .. Len(buckets[b]) /\ Contains(f, a) /\ f \in SegmentsIn(b)
    BY <2>3 DEF Hits, SegmentsIn
  <2>5. ASSUME NEW r \in hits
        PROVE  /\ f.priority >= r.priority
               /\ r.priority >= f.priority => r = f
    <3>1. PICK j \in 1 .. Len(buckets[b]) : r = buckets[b][j]
      BY <1>2, <2>5 DEF SegmentsIn
    <3>2. j \in Hits(buckets[b], a) /\ i <= j
      BY <1>2, <2>3, <2>5, <3>1 DEF Hits
    <3>0. f \in BusRange /\ r \in BusRange
      BY <1>1, <2>4, <3>1, ElementOfSeq
    <3>3. f.priority \in Int /\ r.priority \in Int
      BY <3>0 DEF BusRange, DEVICE_PRIORITY, REDIRECT_PRIORITY
    <3>4. CASE i = j
      BY <3>1, <3>3, <3>4
    <3>5. CASE i < j
      <4>1. f.priority >= r.priority
        BY <1>1, <2>4, <3>1, <3>5 DEF FirstHitIsTopPriority
      <4>2. f.priority # r.priority
        <5>1. Overlaps(f, r)
          <6>1. /\ a \in Int /\ f.bus_start \in Int /\ f.bus_end \in Int
                /\ r.bus_start \in Int /\ r.bus_end \in Int
            BY <3>0 DEF BusRange, Address
          <6>2. Contains(r, a) /\ Contains(f, a)
            BY <1>2, <2>4, <2>5
          <6> HIDE DEF f
          <6>3. QED
            BY <6>1, <6>2 DEF Contains, Overlaps
        <5>2. QED
          BY <1>1, <2>4, <3>1, <3>5, <5>1 DEF NoOverlapAtPriority
      <4>3. QED
        BY <3>3, <4>1, <4>2
    <3>6. QED
      <4>1. i \in Nat /\ j \in Nat
        BY <2>4, <3>1
      <4>2. QED
        BY <3>2, <3>4, <3>5, <4>1
  <2>6. f \in hits
    BY <1>2, <2>4
  <2> HIDE DEF f
  <2>7. Best(MappedRanges, a) = {f}
    BY <1>3, <2>5, <2>6
  <2>8. QED
    BY <1>5, <2>3, <2>7 DEF b, f
<1>6. QED
  BY <1>4, <1>5

-----------------------------------------------------------------------------
\* The calls of the bus as questions and answers.

Asked(t) == IF pc[t] = "find_segment" THEN <<Target(call[t])>> ELSE <<>>
Told(t) ==
  CASE pc[t] = "find_device" -> <<{seg[t]}>>
    [] pc[t] = "idle" /\ outcome[t] = "NotMapped" -> <<{}>>
    [] OTHER -> <<>>
Questions == [t \in Thread |-> Asked(t)]
Answers == [t \in Thread |-> Told(t)]

\* The abstract actions in these terms.
LEMMA LookupActions ==
  ASSUME NEW t \in Thread
  PROVE  /\ Lookup!Forget(t) <=> Answers' = [Answers EXCEPT ![t] = <<>>] /\ UNCHANGED <<MappedRanges, Questions>>
         /\ \A q : Lookup!Ask(t, q) <=>
              /\ Questions[t] = <<>>
              /\ Questions' = [Questions EXCEPT ![t] = <<q>>]
              /\ Answers' = [Answers EXCEPT ![t] = <<>>]
              /\ UNCHANGED MappedRanges
         /\ Lookup!Answer(t) <=>
              /\ Questions[t] # <<>>
              /\ Questions' = [Questions EXCEPT ![t] = <<>>]
              /\ Answers' = [Answers EXCEPT ![t] = <<Best(MappedRanges, Questions[t][1])>>]
              /\ UNCHANGED MappedRanges
<1>1. Lookup!Forget(t) <=> Answers' = [Answers EXCEPT ![t] = <<>>] /\ UNCHANGED <<MappedRanges, Questions>>
  BY DEF Lookup!Forget, Questions, Answers, Asked, Told
<1>2. ASSUME NEW q
      PROVE  Lookup!Ask(t, q) <=>
              /\ Questions[t] = <<>>
              /\ Questions' = [Questions EXCEPT ![t] = <<q>>]
              /\ Answers' = [Answers EXCEPT ![t] = <<>>]
              /\ UNCHANGED MappedRanges
  BY DEF Lookup!Ask, Questions, Answers, Asked, Told
<1>3. Lookup!Answer(t) <=>
              /\ Questions[t] # <<>>
              /\ Questions' = [Questions EXCEPT ![t] = <<>>]
              /\ Answers' = [Answers EXCEPT ![t] = <<Best(MappedRanges, Questions[t][1])>>]
              /\ UNCHANGED MappedRanges
  BY DEF Lookup!Answer, Questions, Answers, Asked, Told
<1>4. QED
  BY <1>1, <1>2, <1>3

\* The other threads' questions and answers rest while t moves.
LEMMA OthersAsked ==
  ASSUME TypeOK, NEW t \in Thread, BeginCall(t) \/ Step(t)
  PROVE  /\ Questions' = [Questions EXCEPT ![t] = Asked(t)']
         /\ Answers' = [Answers EXCEPT ![t] = Told(t)']
<1>1. ASSUME NEW u \in Thread, u # t
      PROVE  outcome'[u] = outcome[u]
  BY <1>1 DEF TypeOK, Step, BeginCall, BeginRegister, BeginRedirect, BeginRemove, BeginResolve, Begin,
              CheckName, LockDevices, PushDevice, AddRange, AddRangeConflict, ReportConflict, FindSegment,
              FindDevice, AimRedirect, RecordRedirect, DropRange, ClearBuckets, Return
<1>2. ASSUME NEW u \in Thread, u # t
      PROVE  Asked(u)' = Asked(u) /\ Told(u)' = Told(u)
  BY <1>1, <1>2, OthersRest DEF Asked, Told
<1>3. QED
  BY <1>2 DEF Questions, Answers

\* What a step of t asks, or is told.
LEMMA LookupStep ==
  ASSUME TypeOK, DeviceWindows, NoOverlapAtPriority, FirstHitIsTopPriority, MapInv, HeldWhole,
         NEW t \in Thread, BeginCall(t) \/ Step(t)
  PROVE  \/ Asked(t)' = Asked(t) /\ Told(t)' = Told(t)
         \/ Asked(t)' = Asked(t) /\ Told(t)' = <<>> /\ MappedRanges' = MappedRanges
         \/ /\ Asked(t) = <<>> /\ Told(t)' = <<>> /\ MappedRanges' = MappedRanges
            /\ \E q \in Address : Asked(t)' = <<q>>
         \/ /\ Asked(t)' = <<>> /\ MappedRanges' = MappedRanges
            /\ \E q \in Address : Asked(t) = <<q>> /\ Told(t)' = <<Best(MappedRanges, q)>>
<1> USE DEF tables
<1>0. /\ LocalsOK(t) /\ pc \in [Thread -> Label] /\ seg \in [Thread -> BusRange] /\ DOMAIN call = Thread
      /\ DOMAIN outcome = Thread
  BY DEF TypeOK
<1>00. buckets' = buckets => MappedRanges' = MappedRanges
  BY DEF MappedRanges, SegmentsIn, Cover, bucket_index
<1>1. CASE BeginCall(t)
  <2>1. MappedRanges' = MappedRanges /\ pc[t] = "idle" /\ Asked(t) = <<>>
    BY <1>1, <1>00 DEF BeginCall, BeginRegister, BeginRedirect, BeginRemove, BeginResolve, Begin, Asked
  <2>2. CASE \E a \in Lookups : BeginResolve(t, a)
    <3>1. PICK a \in Lookups : BeginResolve(t, a)
      BY <2>2
    <3>2. pc'[t] = "find_segment" /\ call'[t] = [op |-> "resolve", arg |-> a]
      BY <1>0, <3>1 DEF BeginResolve, Begin, Goto
    <3>3. Asked(t)' = <<a>> /\ Told(t)' = <<>> /\ a \in Address
      BY <3>2, BusAssumption DEF Asked, Told, Target, Address
    <3>4. QED
      BY <2>1, <3>3
  <2>3. CASE \E d \in Redirections : BeginRedirect(t, d)
    <3>1. PICK d \in Redirections : BeginRedirect(t, d)
      BY <2>3
    <3>2. d.target_start \in Address
      BY BusAssumption DEF Address
    <3>3. \/ pc'[t] = "find_segment" /\ call'[t] = [op |-> "redirect", arg |-> d]
          \/ pc'[t] = "idle" /\ outcome'[t] = "Err"
      BY <1>0, <3>1 DEF BeginRedirect, Begin, Goto, Return
    <3>4. QED
      BY <2>1, <3>2, <3>3 DEF Asked, Told, Target
  <2>4. CASE (\E r \in Registrations : BeginRegister(t, r)) \/ (\E m \in Removals : BeginRemove(t, m))
    <3>1. pc'[t] \notin {"find_segment", "find_device"} /\ (pc'[t] = "idle" => outcome'[t] # "NotMapped")
      BY <1>0, <2>4 DEF BeginRegister, BeginRemove, Begin, Goto, Return
    <3>2. QED
      BY <2>1, <3>1 DEF Asked, Told
  <2>5. QED
    BY <1>1, <2>2, <2>3, <2>4 DEF BeginCall
<1>2. CASE FindSegment(t)
  <2> DEFINE a == Target(call[t])
  <2>1. pc[t] = "find_segment" /\ a \in Address /\ MappedRanges' = MappedRanges
    BY <1>0, <1>2, <1>00, BusAssumption DEF FindSegment, LocalsOK, Target, Address
  <2>2. \/ Hits(buckets[bucket_index(a)], a) = {} /\ pc'[t] = "idle" /\ outcome'[t] = "NotMapped"
        \/ /\ Hits(buckets[bucket_index(a)], a) # {} /\ pc'[t] = "find_device"
           /\ seg'[t] = FirstHit(buckets[bucket_index(a)], a)
    BY <1>0, <1>2 DEF FindSegment, Goto, Return
  <2>3. Told(t)' = <<Best(MappedRanges, a)>>
    BY <2>1, <2>2, FirstHitIsBest DEF Told
  <2>4. Asked(t) = <<a>> /\ Asked(t)' = <<>>
    BY <2>1, <2>2 DEF Asked
  <2>5. QED
    BY <2>1, <2>3, <2>4
<1>3. CASE FindDevice(t) \/ AimRedirect(t)
  <2>1. MappedRanges' = MappedRanges /\ pc[t] = "find_device"
    BY <1>3, <1>00 DEF FindDevice, AimRedirect
  <2>2. pc'[t] \notin {"find_segment", "find_device"} /\ (pc'[t] = "idle" => outcome'[t] # "NotMapped")
    BY <1>0, <1>3 DEF FindDevice, AimRedirect, Goto, Return
  <2>3. QED
    BY <2>1, <2>2 DEF Asked, Told
<1>4. CASE CheckName(t) \/ LockDevices(t) \/ PushDevice(t) \/ AddRange(t) \/ AddRangeConflict(t)
           \/ ReportConflict(t) \/ RecordRedirect(t) \/ DropRange(t) \/ ClearBuckets(t)
  <2>1. /\ pc[t] \notin {"idle", "find_segment", "find_device"}
        /\ pc'[t] \notin {"find_segment", "find_device"} /\ (pc'[t] = "idle" => outcome'[t] # "NotMapped")
    BY <1>0, <1>4 DEF CheckName, LockDevices, PushDevice, AddRange, AddRangeConflict, ReportConflict,
                      RecordRedirect, DropRange, ClearBuckets, Goto, Return
  <2>2. QED
    BY <2>1 DEF Asked, Told
<1>5. QED
  BY <1>1, <1>2, <1>3, <1>4 DEF Step

\* Every step of the bus is a step of the abstract resolver, or none.
LEMMA StepImplementsLookup ==
  ASSUME TypeOK, DeviceWindows, NoOverlapAtPriority, FirstHitIsTopPriority, MapInv, HeldWhole,
         NEW t \in Thread, BeginCall(t) \/ Step(t)
  PROVE  Lookup!Next \/ UNCHANGED <<MappedRanges, Questions, Answers>>
<1>0. Questions[t] = Asked(t) /\ Answers[t] = Told(t) /\ DOMAIN Questions = Thread /\ DOMAIN Answers = Thread
      /\ Questions = [u \in Thread |-> Questions[u]] /\ Answers = [u \in Thread |-> Answers[u]]
  BY DEF Questions, Answers
<1>1. CASE Asked(t)' = Asked(t) /\ Told(t)' = Told(t)
  <2>1. Questions' = Questions /\ Answers' = Answers
    BY <1>0, <1>1, OthersAsked
  <2>2. Abstract!Next \/ MappedRanges' = MappedRanges
    BY StepImplementsMap
  <2>3. Abstract!Next /\ Questions' = Questions /\ Answers' = Answers => Lookup!Next
    BY DEF Lookup!Next, Lookup!Map!Next, Lookup!Map!Add, Lookup!Map!Remove, Abstract!Next, Abstract!Add, Abstract!Remove,
           Questions, Answers, Asked, Told
  <2>4. QED
    BY <2>1, <2>2, <2>3
<1>2. CASE Asked(t)' = Asked(t) /\ Told(t)' = <<>> /\ MappedRanges' = MappedRanges
  <2>1. Lookup!Forget(t)
    BY <1>0, <1>2, OthersAsked, LookupActions
  <2>2. QED
    BY <2>1 DEF Lookup!Next
<1>3. ASSUME Asked(t) = <<>>, Told(t)' = <<>>, MappedRanges' = MappedRanges,
             NEW q \in Address, Asked(t)' = <<q>>
      PROVE  Lookup!Next
  <2>1. Lookup!Ask(t, q)
    BY <1>0, <1>3, OthersAsked, LookupActions
  <2>2. QED
    BY <2>1 DEF Lookup!Next
<1>4. ASSUME Asked(t)' = <<>>, MappedRanges' = MappedRanges,
             NEW q \in Address, Asked(t) = <<q>>, Told(t)' = <<Best(MappedRanges, q)>>
      PROVE  Lookup!Next
  <2>1. Lookup!Answer(t)
    BY <1>0, <1>4, OthersAsked, LookupActions
  <2>2. QED
    BY <2>1 DEF Lookup!Next
<1>5. QED
  BY <1>1, <1>2, <1>3, <1>4, LookupStep

\* "Deterministic address-to-device resolution" for any number of threads: as
\* long as no call is refused after some bucket took its range, each resolve,
\* and the one inside each redirect, answers with the range of the highest
\* priority that the whole map had at one instant of the call.
THEOREM LookupsAtomic == Spec /\ [][RefusedAtOnce]_vars => ResolvesAtomically
<1>1. Init => Lookup!Init /\ HeldWhole
  BY DEF Init, Lookup!Init, Lookup!Map!Init, HeldWhole, MappedRanges, SegmentsIn
<1> DEFINE Known == TypeOK /\ DeviceWindows /\ SegmentIdsUnique /\ MapInv
                      /\ NoOverlapAtPriority /\ FirstHitIsTopPriority
<1>2. Known /\ HeldWhole /\ [Next]_vars /\ [RefusedAtOnce]_vars => HeldWhole'
  <2> SUFFICES ASSUME Known, HeldWhole, [Next]_vars, [RefusedAtOnce]_vars PROVE HeldWhole'
    OBVIOUS
  <2>1. CASE UNCHANGED vars
    BY <2>1 DEF vars, tables, HeldWhole, SegmentsIn, Cover, bucket_index
  <2>2. CASE Next /\ RefusedAtOnce
    BY <2>2, HeldWholeKept DEF Next
  <2>3. QED
    BY <2>1, <2>2
<1>3. Known /\ HeldWhole /\ [Next]_vars => [Lookup!Next]_(Lookup!vars)
  <2> SUFFICES ASSUME Known, HeldWhole, [Next]_vars PROVE [Lookup!Next]_(Lookup!vars)
    OBVIOUS
  <2>0. UNCHANGED <<MappedRanges, Questions, Answers>> => UNCHANGED Lookup!vars
    BY DEF Lookup!vars, Questions, Answers, Asked, Told
  <2>1. CASE UNCHANGED vars
    <3>1. UNCHANGED <<MappedRanges, Questions, Answers>>
      BY <2>1 DEF vars, tables, MappedRanges, SegmentsIn, Cover, bucket_index, Questions, Answers, Asked, Told
    <3>2. QED
      BY <2>0, <3>1
  <2>2. CASE Next
    BY <2>0, <2>2, StepImplementsLookup DEF Next
  <2>3. QED
    BY <2>1, <2>2
<1>4. Spec => []Known
  BY TypeCorrect, WindowsKept, IdsNeverReused, MapInvariant, OverlapFree, PriorityOrder, PTL
<1> HIDE DEF Known
<1>5. QED
  BY <1>1, <1>2, <1>3, <1>4, PTL DEF Spec, ResolvesAtomically, Lookup!Spec

\* Ranges that fit a bucket are refused at once: what LookupsAtomic asks for
\* holds of every bus whose windows do not cross a bucket.
LEMMA OneBucketRefusesAtOnce ==
  ASSUME NEW t \in Thread, bucket_index(seg[t].bus_start) = bucket_index(seg[t].bus_end - 1),
         bucket_index(seg[t].bus_start) \in Nat, AddRangeConflict(t)
  PROVE  Accepting(seg[t]) = {}
<1>1. Cover(seg[t]) = {bucket_index(seg[t].bus_start)}
  BY DEF Cover
<1>2. Rejecting(seg[t]) = Cover(seg[t])
  BY <1>1 DEF AddRangeConflict, Rejecting
<1>3. QED
  BY <1>1, <1>2 DEF Accepting

-----------------------------------------------------------------------------
\* When the calls of the bus can all be stuck.

\* Which guards a thread keeps while it waits for another one.
GuardsKept ==
  \A t \in Thread :
    /\ owner["devices"] = t => pc[t] \in {"push_device", "add_range", "conflict"}
    /\ pc[t] = "push_device" => owner["devices"] = t
    /\ owner["name_index"] = t => owner["devices"] = t /\ pc[t] \in {"add_range", "conflict"}
    /\ owner["buckets"] = t <=> pc[t] = "conflict"

CanMove(t) == pc[t] # "idle" /\ \A l \in WaitsFor(t) : Free(l)

\* Nobody can move only when a call that met an overlap keeps the buckets and
\* waits for devices, which it holds itself or which a call holds that waits
\* for the buckets.
StuckOnlyByOverlap ==
  \/ \A t \in Thread : pc[t] = "idle"
  \/ \E t \in Thread : CanMove(t)
  \/ \E u, v \in Thread :
       /\ pc[u] = "conflict" /\ owner["buckets"] = u
       /\ owner["devices"] = v /\ pc[v] \in {"add_range", "conflict"}

\* Every step keeps the guards where the code keeps them.
LEMMA GuardsStep ==
  ASSUME TypeOK, GuardsKept, NEW t \in Thread, BeginCall(t) \/ Step(t)
  PROVE  GuardsKept'
<1> USE DEF tables, Lock
<1>0. pc \in [Thread -> Label] /\ owner \in [Lock -> Thread \cup {NoThread}] /\ NoThread \notin Thread
  BY BusAssumption DEF TypeOK
<1>1. ASSUME NEW u \in Thread, u # t
      PROVE  pc'[u] = pc[u]
  BY <1>1, OthersRest
<1>2. CASE AddRange(t) \/ ReportConflict(t)
  <2>1. \A l \in Lock : owner'[l] = IF owner[l] = t THEN NoThread ELSE owner[l]
    BY <1>0, <1>2 DEF AddRange, ReportConflict, ReleaseAll
  <2>2. pc'[t] \notin {"push_device", "conflict"}
    BY <1>0, <1>2 DEF AddRange, ReportConflict, Goto, Return
  <2>3. pc[t] \in {"add_range", "conflict"}
    BY <1>2, <1>0 DEF AddRange, ReportConflict
  <2>4. ASSUME NEW u \in Thread, u # t, NEW l \in Lock
        PROVE  owner'[l] = u <=> owner[l] = u
    BY <1>0, <2>1, <2>4
  <2>5. \A l \in Lock : owner'[l] # t
    BY <1>0, <2>1
  <2>6. QED
    BY <1>1, <2>2, <2>4, <2>5 DEF GuardsKept
<1>3. CASE LockDevices(t)
  <2>1. /\ pc'[t] = "push_device" /\ pc[t] = "lock_devices" /\ owner["devices"] = NoThread
        /\ owner'["devices"] = t /\ owner'["name_index"] = owner["name_index"]
        /\ owner'["buckets"] = owner["buckets"]
    BY <1>0, <1>3 DEF LockDevices, Acquire, Free, Goto
  <2>2. QED
    BY <1>0, <1>1, <2>1 DEF GuardsKept
<1>4. CASE PushDevice(t)
  <2>1. /\ pc'[t] = "add_range" /\ pc[t] = "push_device" /\ owner["name_index"] = NoThread
        /\ owner'["name_index"] = t /\ owner'["devices"] = owner["devices"]
        /\ owner'["buckets"] = owner["buckets"]
    BY <1>0, <1>4 DEF PushDevice, Acquire, Free, Goto
  <2>2. QED
    BY <1>0, <1>1, <2>1 DEF GuardsKept
<1>5. CASE AddRangeConflict(t)
  <2>1. /\ pc'[t] = "conflict" /\ pc[t] = "add_range" /\ owner["buckets"] = NoThread
        /\ owner'["buckets"] = t /\ owner'["devices"] = owner["devices"]
        /\ owner'["name_index"] = owner["name_index"]
    BY <1>0, <1>5 DEF AddRangeConflict, Acquire, Free, Goto
  <2>2. QED
    BY <1>0, <1>1, <2>1 DEF GuardsKept
<1>6. ASSUME owner' = owner, pc[t] \notin {"push_device", "add_range", "conflict"},
             pc'[t] \notin {"push_device", "conflict"}
      PROVE  GuardsKept'
  BY <1>1, <1>6 DEF GuardsKept
<1>7. CASE BeginCall(t) \/ CheckName(t) \/ FindSegment(t) \/ FindDevice(t) \/ AimRedirect(t)
           \/ RecordRedirect(t) \/ DropRange(t) \/ ClearBuckets(t)
  <2>1. /\ owner' = owner /\ pc[t] \notin {"push_device", "add_range", "conflict"}
        /\ pc'[t] \notin {"push_device", "conflict"}
    BY <1>0, <1>7 DEF BeginCall, BeginRegister, BeginRedirect, BeginRemove, BeginResolve, Begin,
                      CheckName, FindSegment, FindDevice, AimRedirect, RecordRedirect,
                      DropRange, ClearBuckets, Goto, Return
  <2>2. QED
    BY <1>6, <2>1
<1>8. QED
  BY <1>2, <1>3, <1>4, <1>5, <1>7 DEF Step

\* The locks deadlock only through an overlap, for any number of threads and
\* waits of any length: as long as no call keeps the buckets to report one
\* (insert_segment's error text), some call that has begun can go on.
THEOREM DeadlockOnlyByOverlap == Spec => []StuckOnlyByOverlap
<1>1. Init => GuardsKept
  BY BusAssumption DEF Init, GuardsKept, Lock
<1>2. TypeOK /\ GuardsKept /\ [Next]_vars => GuardsKept'
  <2> SUFFICES ASSUME TypeOK, GuardsKept, [Next]_vars PROVE GuardsKept'
    OBVIOUS
  <2>1. CASE UNCHANGED vars
    BY <2>1 DEF vars, GuardsKept
  <2>2. CASE Next
    BY <2>2, GuardsStep DEF Next
  <2>3. QED
    BY <2>1, <2>2
<1>3. TypeOK /\ GuardsKept => StuckOnlyByOverlap
  <2> SUFFICES ASSUME TypeOK, GuardsKept, NEW t \in Thread, pc[t] # "idle",
                      \A u \in Thread : ~CanMove(u)
               PROVE  \E u, v \in Thread :
                        /\ pc[u] = "conflict" /\ owner["buckets"] = u
                        /\ owner["devices"] = v /\ pc[v] \in {"add_range", "conflict"}
    BY DEF StuckOnlyByOverlap
  <2>1. \A l \in Lock : Free(l) \/ \E u \in Thread : owner[l] = u
    BY DEF TypeOK, Free
  <2>2. ASSUME NEW v \in Thread, owner["devices"] = v
        PROVE  pc[v] \in {"add_range", "conflict"}
    <3>1. CASE pc[v] = "push_device"
      <4>1. ~Free("name_index")
        BY <3>1 DEF CanMove, WaitsFor
      <4>2. owner["name_index"] = v
        BY <2>1, <2>2, <4>1 DEF GuardsKept, Lock
      <4>3. QED
        BY <3>1, <4>2 DEF GuardsKept
    <3>2. QED
      BY <2>2, <3>1 DEF GuardsKept
  <2>3. CASE Free("buckets")
    <3>1. \A u \in Thread : pc[u] \notin {"add_range", "conflict"}
      BY <2>3, BusAssumption DEF CanMove, WaitsFor, GuardsKept, Free
    <3>2. Free("devices") /\ Free("name_index")
      BY <2>1, <2>2, <3>1 DEF GuardsKept, Lock
    <3>3. CanMove(t)
      BY <2>3, <3>2 DEF CanMove, WaitsFor
    <3>4. QED
      BY <3>3
  <2>4. CASE ~Free("buckets")
    <3>1. PICK u \in Thread : owner["buckets"] = u /\ pc[u] = "conflict"
      BY <2>1, <2>4 DEF Lock, GuardsKept
    <3>2. ~Free("devices")
      BY <3>1 DEF CanMove, WaitsFor
    <3>3. PICK v \in Thread : owner["devices"] = v /\ pc[v] \in {"add_range", "conflict"}
      BY <2>1, <2>2, <3>2 DEF Lock
    <3>4. QED
      BY <3>1, <3>3
  <2>5. QED
    BY <2>3, <2>4
<1>4. QED
  BY <1>1, <1>2, <1>3, TypeCorrect, PTL DEF Spec
=============================================================================
