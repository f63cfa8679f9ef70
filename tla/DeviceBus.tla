------------------------------ MODULE DeviceBus ------------------------------
(***************************************************************************)
(* The memory map of src/src/soc/system/bus/device_bus.rs, at the grain of *)
(* its locks.  Every step of a thread starts where the code acquires a     *)
(* lock and ends where it must wait for the next one, so two calls         *)
(* interleave exactly where two threads of the program can.                *)
(*                                                                         *)
(* Only write guards of devices, name_index and buckets are held while the *)
(* thread waits for another lock; they are the variable owner.  Every read *)
(* guard, and every guard of range_index and redirect_index, is dropped    *)
(* before the thread waits again, so such a section is one step.           *)
(***************************************************************************)
EXTENDS BusRanges, Sequences

CONSTANTS
  Thread,         \* the threads that call the bus
  NoThread,       \* the owner of a lock nobody holds for writing
  AddrMax,        \* u64::MAX
  BucketSize,     \* 2^bucket_bits
  Registrations,  \* arguments of register_device
  Redirections,   \* arguments of redirect
  Removals,       \* arguments of remove_redirect
  Lookups,        \* arguments of resolve (and bytes_to_end)
  MaxCalls        \* bound: how many calls the threads make together

ASSUME BusAssumption ==
  /\ NoThread \notin Thread
  /\ AddrMax \in Nat
  /\ BucketSize \in Nat \ {0}
  /\ MaxCalls \in Nat
  /\ \A r \in Registrations :
       /\ r.name \in STRING
       /\ r.base \in 0 .. AddrMax
       /\ r.span.start \in 0 .. AddrMax
       /\ r.span.end \in 0 .. AddrMax
  /\ Redirections \subseteq
       [source_start : 0 .. AddrMax, size : 0 .. AddrMax, target_start : 0 .. AddrMax]
  /\ Removals \subseteq [source_start : 0 .. AddrMax, size : 0 .. AddrMax]
  /\ Lookups \subseteq 0 .. AddrMax

VARIABLES
  devices,         \* Vec<Arc<dyn Device>>; ids count from 1 here
  name_index,      \* name -> device id
  buckets,         \* bucket index -> Vec<BusRange>; no entry is <<>>
  range_index,     \* range id -> buckets it was put in
  redirect_index,  \* <<source_start, size>> -> range id
  next_range_id,
  owner,           \* who holds the write guard of a lock
  pc,              \* where each thread is
  call,            \* the arguments of each thread's call
  seg,             \* the BusRange a thread resolved or is about to insert
  pending,         \* the range id and buckets a removal still has to clear
  outcome,         \* what each thread's last call returned
  calls            \* calls made so far

tables == <<devices, name_index, buckets, range_index, redirect_index, next_range_id>>
vars == <<tables, owner, pc, call, seg, pending, outcome, calls>>

-----------------------------------------------------------------------------
\* Ranges and buckets.

Address == 0 .. AddrMax
BucketIndex == 0 .. AddrMax \div BucketSize

BusRange ==
  [id : Nat, bus_start : Address, bus_end : Address, device_offset : Nat,
   device_id : Nat, priority : {DEVICE_PRIORITY, REDIRECT_PRIORITY}]

NoRange == [id |-> 0, bus_start |-> 0, bus_end |-> 0, device_offset |-> 0,
            device_id |-> 0, priority |-> DEVICE_PRIORITY]

bucket_index(a) == a \div BucketSize

\* Variants of some definitions, each next to the one it is a variant of, are
\* what a plausible slip in the code would make of it; no specification uses
\* them.  This one hashes a range by its first address only.
CoverFirst(r) == {bucket_index(r.bus_start)}

\* The buckets add_range visits, lowest first.
Cover(r) == bucket_index(r.bus_start) .. bucket_index(r.bus_end - 1)

\* Variant: only a range with the same start is a conflict.
ConflictsAtStart(entry, s) ==
  \E i \in 1 .. Len(entry) :
    entry[i].priority = s.priority /\ entry[i].bus_start = s.bus_start

\* insert_segment: the search for a conflict.
Conflicts(entry, s) ==
  \E i \in 1 .. Len(entry) : Clash(entry[i], s)

\* Variant: sorted by address alone.
GoesBeforeByStart(s, e) == e.bus_start > s.bus_start

GoesBefore(s, e) ==
  \/ e.priority < s.priority
  \/ e.priority = s.priority /\ e.bus_start > s.bus_start

\* Vec::position, or one past the end when no element qualifies.
InsertPosition(entry, s) ==
  CHOOSE p \in 1 .. Len(entry) + 1 :
    /\ p <= Len(entry) => GoesBefore(s, entry[p])
    /\ \A i \in 1 .. p - 1 : ~GoesBefore(s, entry[i])

\* Vec::insert / Vec::push.
insert_segment(entry, s) ==
  LET p == InsertPosition(entry, s)
  IN  [i \in 1 .. Len(entry) + 1 |->
         IF i < p THEN entry[i] ELSE IF i = p THEN s ELSE entry[i - 1]]

\* Variant: Vec::truncate at the segment.
Truncate(entry, id) ==
  SelectSeq(entry, LAMBDA s : \E i, j \in 1 .. Len(entry) :
                                entry[i] = s /\ i < j /\ entry[j].id = id)

\* Vec::retain(|segment| segment.id != id).  A bucket holds a range at most
\* once (SegmentIdsUnique), so retain drops one element or none.
Retain(entry, id) ==
  IF \E i \in 1 .. Len(entry) : entry[i].id = id
  THEN LET k == CHOOSE i \in 1 .. Len(entry) : entry[i].id = id
       IN  [i \in 1 .. Len(entry) - 1 |-> IF i < k THEN entry[i] ELSE entry[i + 1]]
  ELSE entry

\* The buckets that take the segment before the loop of add_range stops: all
\* of them, or those below the first one where insert_segment fails.
Rejecting(s) == {b \in Cover(s) : Conflicts(buckets[b], s)}
Accepting(s) == {b \in Cover(s) : \A c \in Rejecting(s) : b < c}

\* resolve: Iterator::find over the bucket of the address.
Hits(entry, a) == {i \in 1 .. Len(entry) : Contains(entry[i], a)}
\* Variant: searched from the back.
LastHit(entry, a) ==
  entry[CHOOSE i \in Hits(entry, a) : \A j \in Hits(entry, a) : i >= j]

FirstHit(entry, a) ==
  entry[CHOOSE i \in Hits(entry, a) : \A j \in Hits(entry, a) : i <= j]

-----------------------------------------------------------------------------
\* Threads and locks.

Lock == {"devices", "name_index", "buckets"}

Free(l) == owner[l] = NoThread
ReleaseAll(t) == [l \in Lock |-> IF owner[l] = t THEN NoThread ELSE owner[l]]
Acquire(t, l) == Free(l) /\ owner' = [owner EXCEPT ![l] = t]

\* Variant: the counter is read, not advanced.
PeekRangeId == next_range_id' = next_range_id

\* next_range_id.fetch_add: the caller's id is the value before.
DrawRangeId == next_range_id' = next_range_id + 1

NoPending == [id |-> 0, touched |-> {}]

Goto(t, label) == pc' = [pc EXCEPT ![t] = label]
Return(t, result) ==
  /\ pc' = [pc EXCEPT ![t] = "idle"]
  /\ outcome' = [outcome EXCEPT ![t] = result]
  /\ seg' = [seg EXCEPT ![t] = NoRange]
  /\ pending' = [pending EXCEPT ![t] = NoPending]

\* A thread makes its next call.
Begin(t, operation, arguments) ==
  /\ pc[t] = "idle"
  /\ calls < MaxCalls
  /\ calls' = calls + 1
  /\ call' = [call EXCEPT ![t] = [op |-> operation, arg |-> arguments]]

Init ==
  /\ devices = <<>>
  /\ name_index = <<>>
  /\ buckets = [b \in BucketIndex |-> <<>>]
  /\ range_index = <<>>
  /\ redirect_index = <<>>
  /\ next_range_id = 1
  /\ owner = [l \in Lock |-> NoThread]
  /\ pc = [t \in Thread |-> "idle"]
  /\ call = [t \in Thread |-> [op |-> "none", arg |-> 0]]
  /\ seg = [t \in Thread |-> NoRange]
  /\ pending = [t \in Thread |-> NoPending]
  /\ outcome = [t \in Thread |-> "none"]
  /\ calls = 0

-----------------------------------------------------------------------------
\* register_device.

\* Variant: base_address + size is not checked for overflow.
SpanNotEmpty(r) == r.span.start = 0 /\ r.span.end > r.span.start

\* The checks that need no lock: span and address overflow.
SpanFits(r) ==
  /\ r.span.start = 0
  /\ r.span.end > r.span.start
  /\ r.base + (r.span.end - r.span.start) <= AddrMax

BeginRegister(t, r) ==
  /\ Begin(t, "register", r)
  /\ IF SpanFits(r)
     THEN Goto(t, "check_name") /\ UNCHANGED <<seg, pending, outcome>>
     ELSE Return(t, "Err")
  /\ UNCHANGED <<tables, owner>>

\* Variant: the guard outlives the check.
CheckNameHolding(t) ==
  /\ pc[t] = "check_name"
  /\ Acquire(t, "name_index")
  /\ Goto(t, "lock_devices")
  /\ UNCHANGED <<tables, call, seg, pending, outcome, calls>>

\* name_index is read under a guard that is dropped before the write guards
\* below are taken.
CheckName(t) ==
  /\ pc[t] = "check_name"
  /\ Free("name_index")
  /\ IF call[t].arg.name \in DOMAIN name_index
     THEN Return(t, "Err")
     ELSE Goto(t, "lock_devices") /\ UNCHANGED <<seg, pending, outcome>>
  /\ UNCHANGED <<tables, owner, call, calls>>

LockDevices(t) ==
  /\ pc[t] = "lock_devices"
  /\ Acquire(t, "devices")
  /\ Goto(t, "push_device")
  /\ UNCHANGED <<tables, call, seg, pending, outcome, calls>>

\* Takes name_index as well, records the device and draws the range id that
\* add_range uses; both guards stay held.
PushDevice(t) ==
  LET r == call[t].arg
      device_id == Len(devices) + 1
  IN  /\ pc[t] = "push_device"
      /\ Acquire(t, "name_index")
      /\ devices' = Append(devices, [name |-> r.name, size |-> r.span.end])
      /\ name_index' = [n \in DOMAIN name_index \cup {r.name} |->
                          IF n = r.name THEN device_id ELSE name_index[n]]
      /\ seg' = [seg EXCEPT ![t] =
                   [id |-> next_range_id, bus_start |-> r.base,
                    bus_end |-> r.base + r.span.end, device_offset |-> 0,
                    device_id |-> device_id, priority |-> DEVICE_PRIORITY]]
      /\ DrawRangeId
      /\ Goto(t, "add_range")
      /\ UNCHANGED <<buckets, range_index, redirect_index, call, pending, outcome, calls>>

-----------------------------------------------------------------------------
\* add_range, from the write guard of buckets on.

\* Every bucket took the segment: range_index learns of it and all guards of
\* the call are dropped.  A redirect still has to record itself.
AddRange(t) ==
  LET s == seg[t]
  IN  /\ pc[t] = "add_range"
      /\ Free("buckets")
      /\ Rejecting(s) = {}
      /\ buckets' = [b \in BucketIndex |->
                       IF b \in Cover(s) THEN insert_segment(buckets[b], s) ELSE buckets[b]]
      /\ range_index' = [i \in DOMAIN range_index \cup {s.id} |->
                           IF i = s.id THEN Cover(s) ELSE range_index[i]]
      /\ owner' = ReleaseAll(t)
      /\ IF call[t].op = "register"
         THEN Return(t, "Ok")
         ELSE Goto(t, "record_redirect") /\ UNCHANGED <<seg, pending, outcome>>
      /\ UNCHANGED <<devices, name_index, redirect_index, next_range_id, call, calls>>

\* insert_segment fails in some bucket: the lower buckets keep the segment,
\* and the buckets guard stays held while the error text waits for devices.
AddRangeConflict(t) ==
  LET s == seg[t]
  IN  /\ pc[t] = "add_range"
      /\ Rejecting(s) # {}
      /\ Acquire(t, "buckets")
      /\ buckets' = [b \in BucketIndex |->
                       IF b \in Accepting(s) THEN insert_segment(buckets[b], s) ELSE buckets[b]]
      /\ Goto(t, "conflict")
      /\ UNCHANGED <<devices, name_index, range_index, redirect_index, next_range_id,
                     call, seg, pending, outcome, calls>>

\* devices.read() in insert_segment, then the error leaves every function and
\* drops every guard.  std's RwLock is not reentrant: a thread that holds the
\* write guard itself waits here for ever (std allows a panic instead, which
\* would poison every guard the thread holds).
ReportConflict(t) ==
  /\ pc[t] = "conflict"
  /\ Free("devices")
  /\ owner' = ReleaseAll(t)
  /\ Return(t, "Err")
  /\ UNCHANGED <<tables, call, calls>>

-----------------------------------------------------------------------------
\* resolve, redirect and remove_redirect.

BeginResolve(t, a) ==
  /\ Begin(t, "resolve", a)
  /\ Goto(t, "find_segment")
  /\ UNCHANGED <<tables, owner, seg, pending, outcome>>

BeginRedirect(t, d) ==
  /\ Begin(t, "redirect", d)
  /\ IF d.size = 0
     THEN Return(t, "Err")
     ELSE Goto(t, "find_segment") /\ UNCHANGED <<seg, pending, outcome>>
  /\ UNCHANGED <<tables, owner>>

Target(c) == IF c.op = "redirect" THEN c.arg.target_start ELSE c.arg

\* resolve, first half: the bucket is searched under a read guard that is
\* dropped with the cloned segment in hand.
FindSegment(t) ==
  LET a == Target(call[t])
      entry == buckets[bucket_index(a)]
  IN  /\ pc[t] = "find_segment"
      /\ Free("buckets")
      /\ IF Hits(entry, a) = {}
         THEN Return(t, "NotMapped")
         ELSE /\ seg' = [seg EXCEPT ![t] = FirstHit(entry, a)]
              /\ Goto(t, "find_device")
              /\ UNCHANGED <<pending, outcome>>
      /\ UNCHANGED <<tables, owner, call, calls>>

DeviceKnown(s) == s.device_id \in 1 .. Len(devices)

\* resolve, second half, for a plain lookup.
FindDevice(t) ==
  /\ pc[t] = "find_device"
  /\ call[t].op = "resolve"
  /\ Free("devices")
  /\ Return(t, IF DeviceKnown(seg[t]) THEN "Ok" ELSE "Err")
  /\ UNCHANGED <<tables, owner, call, calls>>

\* Variant: the target may run past the end of its range.
RedirectInSpace(d, target) ==
  /\ d.target_start + d.size <= AddrMax
  /\ d.source_start + d.size <= AddrMax

RedirectFits(d, target) ==
  /\ d.target_start + d.size <= AddrMax
  /\ d.target_start + d.size <= target.bus_end
  /\ d.source_start + d.size <= AddrMax

\* redirect: the end of resolve, the three range checks, and the range id.
AimRedirect(t) ==
  LET d == call[t].arg
      target == seg[t]
  IN  /\ pc[t] = "find_device"
      /\ call[t].op = "redirect"
      /\ Free("devices")
      /\ IF DeviceKnown(target) /\ RedirectFits(d, target)
         THEN /\ seg' = [seg EXCEPT ![t] =
                          [id |-> next_range_id, bus_start |-> d.source_start,
                           bus_end |-> d.source_start + d.size,
                           device_offset |-> target.device_offset
                                               + (d.target_start - target.bus_start),
                           device_id |-> target.device_id, priority |-> REDIRECT_PRIORITY]]
              /\ DrawRangeId
              /\ Goto(t, "add_range")
              /\ UNCHANGED <<pending, outcome>>
         ELSE Return(t, "Err") /\ UNCHANGED next_range_id
      /\ UNCHANGED <<devices, name_index, buckets, range_index, redirect_index,
                     owner, call, calls>>

\* Variant: recorded under the target address.
RecordTarget(t) ==
  LET key == <<call[t].arg.target_start, call[t].arg.size>>
  IN  /\ pc[t] = "record_redirect"
      /\ redirect_index' = [k \in DOMAIN redirect_index \cup {key} |->
                              IF k = key THEN seg[t].id ELSE redirect_index[k]]
      /\ Return(t, "Ok")
      /\ UNCHANGED <<devices, name_index, buckets, range_index, next_range_id,
                     owner, call, calls>>

RecordRedirect(t) ==
  LET key == <<call[t].arg.source_start, call[t].arg.size>>
  IN  /\ pc[t] = "record_redirect"
      /\ redirect_index' = [k \in DOMAIN redirect_index \cup {key} |->
                              IF k = key THEN seg[t].id ELSE redirect_index[k]]
      /\ Return(t, "Ok")
      /\ UNCHANGED <<devices, name_index, buckets, range_index, next_range_id,
                     owner, call, calls>>

BeginRemove(t, m) ==
  LET key == <<m.source_start, m.size>>
  IN  /\ Begin(t, "remove", m)
      /\ IF key \in DOMAIN redirect_index
         THEN /\ redirect_index' = [k \in DOMAIN redirect_index \ {key} |-> redirect_index[k]]
              /\ pending' = [pending EXCEPT ![t].id = redirect_index[key]]
              /\ Goto(t, "drop_range")
              /\ UNCHANGED <<seg, outcome>>
         ELSE Return(t, "False") /\ UNCHANGED redirect_index
      /\ UNCHANGED <<devices, name_index, buckets, range_index, next_range_id, owner>>

\* remove_range, first half: range_index forgets the range.
DropRange(t) ==
  LET id == pending[t].id
  IN  /\ pc[t] = "drop_range"
      /\ IF id \in DOMAIN range_index
         THEN /\ range_index' = [i \in DOMAIN range_index \ {id} |-> range_index[i]]
              /\ pending' = [pending EXCEPT ![t].touched = range_index[id]]
              /\ Goto(t, "clear_buckets")
              /\ UNCHANGED <<seg, outcome>>
         ELSE Return(t, "False") /\ UNCHANGED range_index
      /\ UNCHANGED <<devices, name_index, buckets, redirect_index, next_range_id,
                     owner, call, calls>>

\* remove_range, second half: the segment leaves its buckets.
ClearBuckets(t) ==
  /\ pc[t] = "clear_buckets"
  /\ Free("buckets")
  /\ buckets' = [b \in BucketIndex |->
                   IF b \in pending[t].touched THEN Retain(buckets[b], pending[t].id)
                   ELSE buckets[b]]
  /\ Return(t, "True")
  /\ UNCHANGED <<devices, name_index, range_index, redirect_index, next_range_id,
                 owner, call, calls>>

-----------------------------------------------------------------------------
BeginCall(t) ==
  \/ \E r \in Registrations : BeginRegister(t, r)
  \/ \E d \in Redirections : BeginRedirect(t, d)
  \/ \E m \in Removals : BeginRemove(t, m)
  \/ \E a \in Lookups : BeginResolve(t, a)

\* One step of a call that has begun.
Step(t) ==
  \/ CheckName(t) \/ LockDevices(t) \/ PushDevice(t)
  \/ AddRange(t) \/ AddRangeConflict(t) \/ ReportConflict(t)
  \/ FindSegment(t) \/ FindDevice(t) \/ AimRedirect(t) \/ RecordRedirect(t)
  \/ DropRange(t) \/ ClearBuckets(t)

Next == \E t \in Thread : BeginCall(t) \/ Step(t)

Spec == Init /\ [][Next]_vars

\* The scheduler runs every thread that is not blocked, and std's RwLock wakes
\* a waiter once the lock stays free.
FairSpec == Spec /\ \A t \in Thread : WF_vars(Step(t))

-----------------------------------------------------------------------------
\* Properties.

SegmentsIn(b) == {buckets[b][i] : i \in 1 .. Len(buckets[b])}

\* The segment is not empty and its bytes are bytes of its device.
InWindow(s) ==
  /\ DeviceKnown(s)
  /\ s.bus_start < s.bus_end
  /\ s.device_offset + (s.bus_end - s.bus_start) <= devices[s.device_id].size

Label == {"idle", "check_name", "lock_devices", "push_device", "add_range", "conflict",
          "find_segment", "find_device", "record_redirect", "drop_range", "clear_buckets"}

\* What the locals of a call hold at each place of the code.
LocalsOK(t) ==
  /\ pc[t] \in {"check_name", "lock_devices", "push_device"} =>
       /\ call[t].op = "register" /\ call[t].arg \in Registrations
       /\ call[t].arg.span.start = 0 /\ 0 < call[t].arg.span.end
       /\ call[t].arg.base + call[t].arg.span.end <= AddrMax
  /\ pc[t] \in {"find_segment", "find_device"} =>
       \/ call[t].op = "resolve" /\ call[t].arg \in Lookups
       \/ call[t].op = "redirect" /\ call[t].arg \in Redirections /\ call[t].arg.size # 0
  /\ pc[t] = "find_device" => Contains(seg[t], Target(call[t]))
  /\ pc[t] = "add_range" =>
       /\ seg[t].bus_start < seg[t].bus_end
       /\ call[t].op # "register" => call[t].op = "redirect" /\ call[t].arg \in Redirections
  /\ pc[t] = "record_redirect" => call[t].arg \in Redirections

\* Every table, lock and local of the bus holds a value of its Rust type.
TypeOK ==
  /\ devices \in Seq([name : STRING, size : Address])
  /\ DOMAIN name_index \subseteq STRING
  /\ \A n \in DOMAIN name_index : name_index[n] \in 1 .. Len(devices)
  /\ buckets \in [BucketIndex -> Seq(BusRange)]
  /\ \A i \in DOMAIN range_index : i \in Nat /\ range_index[i] \subseteq BucketIndex
  /\ \A k \in DOMAIN redirect_index : k \in Address \X Address /\ redirect_index[k] \in Nat
  /\ next_range_id \in Nat
  /\ owner \in [Lock -> Thread \cup {NoThread}]
  /\ pc \in [Thread -> Label]
  /\ DOMAIN call = Thread
  /\ seg \in [Thread -> BusRange]
  /\ pending \in [Thread -> [id : Nat, touched : SUBSET BucketIndex]]
  /\ outcome \in [Thread -> {"none", "Ok", "Err", "NotMapped", "True", "False"}]
  /\ calls \in Nat
  /\ \A t \in Thread : LocalsOK(t)

\* "Ranges never overlap at a given priority" (bus/architecture.md): whatever
\* registrations, redirects, removals and rejected inserts came before, two
\* segments of one bucket with the same priority share no address.
NoOverlapAtPriority ==
  \A b \in BucketIndex : \A i, j \in 1 .. Len(buckets[b]) :
    i # j /\ buckets[b][i].priority = buckets[b][j].priority
      => ~Overlaps(buckets[b][i], buckets[b][j])

\* The first segment resolve finds for an address is the one with the highest
\* priority, so a redirect always shadows the device below it.
FirstHitIsTopPriority ==
  \A b \in BucketIndex : \A i, j \in 1 .. Len(buckets[b]) :
    i < j => buckets[b][i].priority >= buckets[b][j].priority

\* A bucket never holds two segments of one range: what lets remove_range
\* treat retain as the removal of one segment.
SegmentIdsUnique ==
  \A b \in BucketIndex : \A i, j \in 1 .. Len(buckets[b]) :
    i # j => buckets[b][i].id # buckets[b][j].id

\* A range that range_index knows is present in every bucket of its addresses,
\* so resolve answers alike at all of them even while other calls run.
RangesComplete ==
  \A id \in DOMAIN range_index : \A b \in range_index[id] :
    \E s \in SegmentsIn(b) : s.id = id /\ range_index[id] = Cover(s)

\* "Redirects must fall fully within the target range" (bus/architecture.md):
\* through any chain of redirects, and with targets removed while a redirect
\* to them is under way, every mapped segment stays inside a registered device,
\* and so does the one resolve carries from the buckets guard to the devices
\* guard.
DeviceWindows ==
  /\ \A b \in BucketIndex : \A s \in SegmentsIn(b) : InWindow(s)
  /\ \A t \in Thread : pc[t] \in {"find_device", "add_range", "record_redirect"} => InWindow(seg[t])

\* A redirect in range_index can always be taken down: redirect_index names it
\* under its own source and size, or the call that maps or unmaps it is still
\* on its way.
RedirectsRemovable ==
  \A b \in BucketIndex : \A s \in SegmentsIn(b) :
    s.priority = REDIRECT_PRIORITY /\ s.id \in DOMAIN range_index =>
      LET key == <<s.bus_start, s.bus_end - s.bus_start>>
      IN  \/ key \in DOMAIN redirect_index /\ redirect_index[key] = s.id
          \/ \E t \in Thread : pc[t] = "record_redirect" /\ seg[t].id = s.id
          \/ \E t \in Thread : pc[t] = "drop_range" /\ pending[t].id = s.id

\* No step ever unmaps a device: a removal only takes redirect segments out of
\* the buckets, whatever ids it was handed.
DeviceRangesPermanent ==
  [][\A b \in BucketIndex : \A s \in SegmentsIn(b) :
       s.priority = DEVICE_PRIORITY => s \in SegmentsIn(b)']_vars

\* The map the buckets stand for: the segments present in every bucket of
\* their addresses.
MappedRanges ==
  {s \in UNION {SegmentsIn(b) : b \in BucketIndex} : \A b \in Cover(s) : s \in SegmentsIn(b)}

Abstract == INSTANCE BusMap WITH
  ranges <- MappedRanges

\* The hashed, lock-by-lock bus implements the memory map: every step adds one
\* range that clashes with none, removes one redirect, or changes nothing,
\* even though insert_segment compares a range with one bucket at a time and a
\* rejected range stays behind in some buckets.
ImplementsMap == Abstract!Spec

Lookup == INSTANCE BusLookup WITH
  Client <- Thread,
  Question <- Address,
  ranges <- MappedRanges,
  question <- [t \in Thread |-> IF pc[t] = "find_segment" THEN <<Target(call[t])>> ELSE <<>>],
  answer <- [t \in Thread |-> CASE pc[t] = "find_device" -> <<{seg[t]}>>
                                [] pc[t] = "idle" /\ outcome[t] = "NotMapped" -> <<{}>>
                                [] OTHER -> <<>>]

\* "Deterministic address-to-device resolution" (header of device_bus.rs):
\* whatever the other threads register, redirect or remove meanwhile, resolve
\* answers with the range of highest priority the map had at one instant of
\* the call.
ResolvesAtomically == Lookup!Spec

\* Every call returns, with the locks taken in the order the code takes them,
\* unless some thread has met an overlap: from then on a call may block for
\* ever (NoWaitCycle).
CallsReturn ==
  \A t \in Thread :
    (pc[t] # "idle") ~> (pc[t] = "idle" \/ \E u \in Thread : pc[u] = "conflict")

\* What each blocked thread waits for.
WaitsFor(t) ==
  CASE pc[t] = "check_name" -> {"name_index"}
    [] pc[t] = "push_device" -> {"name_index"}
    [] pc[t] \in {"lock_devices", "conflict", "find_device"} -> {"devices"}
    [] pc[t] \in {"add_range", "find_segment", "clear_buckets"} -> {"buckets"}
    [] OTHER -> {}

\* "Reject zero-sized devices and overlapping ranges" (bus/architecture.md):
\* a call that meets an overlap goes on to report it.  So no thread waits for a
\* guard it holds itself, and no two threads wait for each other's guards.
NoWaitCycle ==
  \A t, u \in Thread : \A l \in WaitsFor(t), m \in WaitsFor(u) :
    ~(owner[l] = u /\ owner[m] = t)
=============================================================================
