--------------------------- MODULE DeviceBusProofs ---------------------------
(***************************************************************************)
(* Proofs about DeviceBus, for any threads, address space, bucket size and *)
(* calls.                                                                  *)
(***************************************************************************)
EXTENDS DeviceBus, WellFoundedInduction, TLAPS

-----------------------------------------------------------------------------
\* Buckets of addresses.

\* A higher address is in no lower bucket.
LEMMA DivMonotone ==
  ASSUME NEW k \in Nat \ {0}, NEW a \in Nat, NEW b \in Nat, a <= b
  PROVE  a \div k \in Nat /\ a \div k <= b \div k
  OBVIOUS

\* A nonempty set of naturals has a least element.
LEMMA Least ==
  ASSUME NEW S \in SUBSET Nat, S # {}
  PROVE  \E n \in S : \A m \in S : n <= m
<1>1. PICK n \in S : \A m \in S : ~(<<m, n>> \in OpToRel(<, Nat))
  BY NatLessThanWellFounded, WFMin
<1>2. ASSUME NEW m \in S
      PROVE  n <= m
  <2>1. m < n => <<m, n>> \in OpToRel(<, Nat)
    BY DEF OpToRel
  <2>2. ~(m < n)
    BY <1>1, <2>1, Zenon
  <2>3. m \in Nat /\ n \in Nat
    OBVIOUS
  <2>4. QED
    BY <2>2, <2>3
<1>3. QED
  BY <1>2

\* Every address has a bucket.
LEMMA BucketOfAddress ==
  ASSUME NEW a \in Address
  PROVE  bucket_index(a) \in BucketIndex
  BY BusAssumption, DivMonotone DEF Address, BucketIndex, bucket_index

\* The buckets a range covers exist.
LEMMA CoverInRange ==
  ASSUME NEW s \in BusRange, s.bus_start < s.bus_end
  PROVE  Cover(s) \subseteq BucketIndex
<1>1. s.bus_start \in Address /\ s.bus_end - 1 \in Address
  BY BusAssumption DEF BusRange, Address
<1>2. bucket_index(s.bus_start) \in BucketIndex /\ bucket_index(s.bus_end - 1) \in BucketIndex
  BY <1>1, BucketOfAddress
<1>3. AddrMax \div BucketSize \in Nat
  BY BusAssumption, DivMonotone
<1>4. QED
  BY <1>2, <1>3 DEF Cover, BucketIndex

-----------------------------------------------------------------------------
\* What the operations on one bucket return.

\* insert_segment puts the segment before the first one it goes before.
LEMMA InsertionPoint ==
  ASSUME NEW entry \in Seq(BusRange), NEW s \in BusRange
  PROVE  /\ InsertPosition(entry, s) \in 1 .. Len(entry) + 1
         /\ InsertPosition(entry, s) <= Len(entry) =>
              GoesBefore(s, entry[InsertPosition(entry, s)])
         /\ \A i \in 1 .. InsertPosition(entry, s) - 1 : ~GoesBefore(s, entry[i])
<1> DEFINE Good(p) == /\ p <= Len(entry) => GoesBefore(s, entry[p])
                      /\ \A i \in 1 .. p - 1 : ~GoesBefore(s, entry[i])
<1> DEFINE Later == {i \in 1 .. Len(entry) : GoesBefore(s, entry[i])}
<1>0. Len(entry) \in Nat
  OBVIOUS
<1>1. \E p \in 1 .. Len(entry) + 1 : Good(p)
  <2>1. CASE Later = {}
    <3>1. \A i \in 1 .. Len(entry) : ~GoesBefore(s, entry[i])
      BY <2>1
    <3>2. Good(Len(entry) + 1)
      BY <1>0, <3>1
    <3>3. QED
      BY <1>0, <3>2
  <2>2. CASE Later # {}
    <3>1. Later \in SUBSET Nat
      BY <1>0
    <3>2. PICK p \in Later : \A m \in Later : p <= m
      BY <2>2, <3>1, Least
    <3>3. p \in 1 .. Len(entry) /\ GoesBefore(s, entry[p])
      BY <3>2
    <3>4. ASSUME NEW i \in 1 .. p - 1
          PROVE  ~GoesBefore(s, entry[i])
      <4>1. i \in 1 .. Len(entry) /\ ~(p <= i)
        BY <1>0, <3>3
      <4>2. QED
        BY <3>2, <4>1
    <3>5. QED
      BY <1>0, <3>3, <3>4
  <2>3. QED
    BY <2>1, <2>2
<1>2. InsertPosition(entry, s) = CHOOSE p \in 1 .. Len(entry) + 1 : Good(p)
  BY DEF InsertPosition
<1>3. InsertPosition(entry, s) \in 1 .. Len(entry) + 1 /\ Good(InsertPosition(entry, s))
  <2> HIDE DEF Good
  <2> QED BY <1>1, <1>2
<1>4. QED
  BY <1>3

\* insert_segment returns a bucket one segment longer.
LEMMA InsertShape ==
  ASSUME NEW entry \in Seq(BusRange), NEW s \in BusRange
  PROVE  /\ insert_segment(entry, s) \in Seq(BusRange)
         /\ Len(insert_segment(entry, s)) = Len(entry) + 1
<1> DEFINE p == InsertPosition(entry, s)
<1>1. p \in 1 .. Len(entry) + 1
  BY InsertionPoint
<1>2. Len(entry) \in Nat
  OBVIOUS
<1>3. \A i \in 1 .. Len(entry) + 1 :
        (IF i < p THEN entry[i] ELSE IF i = p THEN s ELSE entry[i - 1]) \in BusRange
  <2> HIDE DEF p
  <2> QED BY <1>1, <1>2
<1>4. insert_segment(entry, s) \in [1 .. Len(entry) + 1 -> BusRange]
  <2> HIDE DEF p
  <2>1. insert_segment(entry, s) = [i \in 1 .. Len(entry) + 1 |->
                      IF i < p THEN entry[i] ELSE IF i = p THEN s ELSE entry[i - 1]]
    BY DEF insert_segment, p
  <2>2. QED
    BY <1>3, <2>1
<1>5. QED
  BY <1>2, <1>4

\* What retain leaves of a bucket is a bucket.
LEMMA RetainShape ==
  ASSUME NEW entry \in Seq(BusRange), NEW id
  PROVE  Retain(entry, id) \in Seq(BusRange)
<1>1. Len(entry) \in Nat
  OBVIOUS
<1>2. CASE \E i \in 1 .. Len(entry) : entry[i].id = id
  <2> DEFINE k == CHOOSE i \in 1 .. Len(entry) : entry[i].id = id
  <2>1. k \in 1 .. Len(entry)
    BY <1>2
  <2>2. Retain(entry, id) = [i \in 1 .. Len(entry) - 1 |-> IF i < k THEN entry[i] ELSE entry[i + 1]]
    BY <1>2 DEF Retain
  <2> HIDE DEF k
  <2>3. Len(entry) - 1 \in Nat
    BY <1>1, <2>1
  <2>4. Retain(entry, id) \in [1 .. Len(entry) - 1 -> BusRange]
    BY <1>1, <2>1, <2>2
  <2>5. QED
    BY <2>3, <2>4
<1>3. CASE ~\E i \in 1 .. Len(entry) : entry[i].id = id
  BY <1>3 DEF Retain
<1>4. QED
  BY <1>2, <1>3

\* resolve finds a segment of the bucket that contains the address.
LEMMA FirstHitIsHit ==
  ASSUME NEW entry \in Seq(BusRange), NEW a, Hits(entry, a) # {}
  PROVE  /\ FirstHit(entry, a) \in BusRange
         /\ Contains(FirstHit(entry, a), a)
<1> DEFINE First(i) == \A j \in Hits(entry, a) : i <= j
<1>1. Hits(entry, a) \in SUBSET Nat
  BY DEF Hits
<1>2. \E i \in Hits(entry, a) : First(i)
  BY <1>1, Least
<1>3. PICK i \in Hits(entry, a) : FirstHit(entry, a) = entry[i]
  BY <1>2 DEF FirstHit
<1>4. QED
  BY <1>3 DEF Hits

-----------------------------------------------------------------------------
\* Type correctness.

\* The empty bus has its type.
LEMMA InitTypeOK == Init => TypeOK
<1> SUFFICES ASSUME Init PROVE TypeOK
  OBVIOUS
<1>1. NoRange \in BusRange
  BY BusAssumption DEF NoRange, BusRange, Address
<1>2. \A t \in Thread : LocalsOK(t)
  BY DEF Init, LocalsOK
<1>3. QED
  BY <1>1, <1>2, BusAssumption DEF Init, TypeOK, NoPending, Label, BucketIndex

\* A call that begins or returns leaves well-typed locals behind.
LEMMA ReturnLocals ==
  ASSUME TypeOK, NEW t \in Thread, NEW result, Return(t, result),
         result \in {"Ok", "Err", "NotMapped", "True", "False"}
  PROVE  /\ pc' \in [Thread -> Label]
         /\ seg' \in [Thread -> BusRange]
         /\ pending' \in [Thread -> [id : Nat, touched : SUBSET BucketIndex]]
         /\ outcome' \in [Thread -> {"none", "Ok", "Err", "NotMapped", "True", "False"}]
         /\ pc'[t] = "idle"
         /\ \A u \in Thread \ {t} : pc'[u] = pc[u] /\ seg'[u] = seg[u]
<1>1. NoRange \in BusRange
  BY BusAssumption DEF NoRange, BusRange, Address
<1>2. QED
  BY <1>1 DEF TypeOK, Return, NoPending, Label

\* The locals of the threads that do not move keep their types.
LEMMA OtherLocals ==
  ASSUME TypeOK, NEW t \in Thread, LocalsOK(t)',
         \A u \in Thread \ {t} : pc'[u] = pc[u] /\ call'[u] = call[u] /\ seg'[u] = seg[u]
  PROVE  \A u \in Thread : LocalsOK(u)'
<1>1. ASSUME NEW u \in Thread \ {t}
      PROVE  LocalsOK(u)'
  <2>1. LocalsOK(u)
    BY DEF TypeOK
  <2>2. pc'[u] = pc[u] /\ call'[u] = call[u] /\ seg'[u] = seg[u]
    OBVIOUS
  <2>3. QED
    BY <2>1, <2>2 DEF LocalsOK, Contains, Target
<1>2. QED
  BY <1>1

\* Entering a call keeps the type.
LEMMA BeginTypeOK ==
  ASSUME TypeOK, NEW t \in Thread, BeginCall(t)
  PROVE  TypeOK'
<1> USE DEF tables
<1>1. ASSUME NEW r \in Registrations, BeginRegister(t, r)
      PROVE  TypeOK'
  <2>1. call'[t] = [op |-> "register", arg |-> r] /\ DOMAIN call' = Thread /\ calls' \in Nat
    BY <1>1 DEF BeginRegister, Begin, TypeOK
  <2>2. \A u \in Thread \ {t} : call'[u] = call[u]
    BY <1>1 DEF BeginRegister, Begin, TypeOK
  <2>3. CASE Return(t, "Err")
    <3>1. LocalsOK(t)'
      BY <2>3, ReturnLocals DEF LocalsOK
    <3>2. QED
      BY <1>1, <2>1, <2>2, <2>3, <3>1, ReturnLocals, OtherLocals DEF TypeOK, BeginRegister
  <2>4. CASE ~Return(t, "Err")
    <3>1. /\ r.span.start = 0 /\ 0 < r.span.end /\ r.base + r.span.end <= AddrMax
          /\ pc' = [pc EXCEPT ![t] = "check_name"]
          /\ UNCHANGED <<seg, pending, outcome>>
      BY <1>1, <2>4, BusAssumption DEF BeginRegister, SpanFits, Goto
    <3>2. LocalsOK(t)'
      BY <2>1, <3>1 DEF LocalsOK, TypeOK
    <3>3. QED
      BY <1>1, <2>1, <2>2, <3>1, <3>2, OtherLocals DEF TypeOK, BeginRegister, Label
  <2>5. QED
    BY <2>3, <2>4
<1>2. ASSUME NEW d \in Redirections, BeginRedirect(t, d)
      PROVE  TypeOK'
  <2>1. call'[t] = [op |-> "redirect", arg |-> d] /\ DOMAIN call' = Thread /\ calls' \in Nat
    BY <1>2 DEF BeginRedirect, Begin, TypeOK
  <2>2. \A u \in Thread \ {t} : call'[u] = call[u]
    BY <1>2 DEF BeginRedirect, Begin, TypeOK
  <2>3. CASE Return(t, "Err")
    <3>1. LocalsOK(t)'
      BY <2>3, ReturnLocals DEF LocalsOK
    <3>2. QED
      BY <1>2, <2>1, <2>2, <2>3, <3>1, ReturnLocals, OtherLocals DEF TypeOK, BeginRedirect
  <2>4. CASE ~Return(t, "Err")
    <3>1. d.size # 0 /\ pc' = [pc EXCEPT ![t] = "find_segment"] /\ UNCHANGED <<seg, pending, outcome>>
      BY <1>2, <2>4 DEF BeginRedirect, Goto
    <3>2. LocalsOK(t)'
      BY <2>1, <3>1 DEF LocalsOK, TypeOK
    <3>3. QED
      BY <1>2, <2>1, <2>2, <3>1, <3>2, OtherLocals DEF TypeOK, BeginRedirect, Label
  <2>5. QED
    BY <2>3, <2>4
<1>3. ASSUME NEW m \in Removals, BeginRemove(t, m)
      PROVE  TypeOK'
  <2> DEFINE key == <<m.source_start, m.size>>
  <2>1. DOMAIN call' = Thread /\ calls' \in Nat /\ \A u \in Thread \ {t} : call'[u] = call[u]
    BY <1>3 DEF BeginRemove, Begin, TypeOK
  <2>2. CASE key \in DOMAIN redirect_index
    <3>1. /\ pc' = [pc EXCEPT ![t] = "drop_range"] /\ UNCHANGED <<seg, outcome>>
          /\ pending' = [pending EXCEPT ![t].id = redirect_index[key]]
          /\ redirect_index' = [k \in DOMAIN redirect_index \ {key} |-> redirect_index[k]]
      BY <1>3, <2>2 DEF BeginRemove, Goto
    <3>2. pending' \in [Thread -> [id : Nat, touched : SUBSET BucketIndex]]
      BY <2>2, <3>1 DEF TypeOK
    <3>3. \A k \in DOMAIN redirect_index' :
            k \in Address \X Address /\ redirect_index'[k] \in Nat
      BY <3>1 DEF TypeOK
    <3>4. LocalsOK(t)'
      BY <3>1 DEF LocalsOK, TypeOK
    <3>5. \A u \in Thread : LocalsOK(u)'
      BY <2>1, <3>1, <3>4, OtherLocals DEF TypeOK
    <3>6. pc' \in [Thread -> Label]
      BY <3>1 DEF TypeOK, Label
    <3>7. UNCHANGED <<devices, name_index, buckets, range_index, next_range_id, owner>>
      BY <1>3 DEF BeginRemove
    <3>8. QED
      BY <2>1, <3>1, <3>2, <3>3, <3>5, <3>6, <3>7 DEF TypeOK
  <2>3. CASE key \notin DOMAIN redirect_index
    <3>1. Return(t, "False") /\ UNCHANGED redirect_index
      BY <1>3, <2>3 DEF BeginRemove
    <3>2. LocalsOK(t)'
      BY <3>1, ReturnLocals DEF LocalsOK
    <3>3. QED
      BY <1>3, <2>1, <3>1, <3>2, ReturnLocals, OtherLocals DEF TypeOK, BeginRemove
  <2>4. QED
    BY <2>2, <2>3
<1>4. ASSUME NEW a \in Lookups, BeginResolve(t, a)
      PROVE  TypeOK'
  <2>1. call'[t] = [op |-> "resolve", arg |-> a] /\ DOMAIN call' = Thread /\ calls' \in Nat
    BY <1>4 DEF BeginResolve, Begin, TypeOK
  <2>2. \A u \in Thread \ {t} : call'[u] = call[u]
    BY <1>4 DEF BeginResolve, Begin, TypeOK
  <2>3. pc' = [pc EXCEPT ![t] = "find_segment"] /\ UNCHANGED <<seg, pending, outcome>>
    BY <1>4 DEF BeginResolve, Goto
  <2>4. LocalsOK(t)'
    BY <2>1, <2>3 DEF LocalsOK, TypeOK
  <2>5. QED
    BY <1>4, <2>1, <2>2, <2>3, <2>4, OtherLocals DEF TypeOK, BeginResolve, Label
<1>5. QED
  BY <1>1, <1>2, <1>3, <1>4 DEF BeginCall

\* The steps of a call keep call and calls, and a step that returns or goes to
\* a label without demands on its locals keeps their types.
LEMMA ReturnStep ==
  ASSUME TypeOK, NEW t \in Thread, NEW result, Return(t, result),
         result \in {"Ok", "Err", "NotMapped", "True", "False"}, UNCHANGED <<call, calls>>
  PROVE  /\ pc' \in [Thread -> Label]
         /\ DOMAIN call' = Thread
         /\ seg' \in [Thread -> BusRange]
         /\ pending' \in [Thread -> [id : Nat, touched : SUBSET BucketIndex]]
         /\ outcome' \in [Thread -> {"none", "Ok", "Err", "NotMapped", "True", "False"}]
         /\ calls' \in Nat
         /\ \A u \in Thread : LocalsOK(u)'
<1>1. LocalsOK(t)'
  BY ReturnLocals DEF LocalsOK
<1>2. \A u \in Thread \ {t} : pc'[u] = pc[u] /\ call'[u] = call[u] /\ seg'[u] = seg[u]
  BY ReturnLocals
<1>3. \A u \in Thread : LocalsOK(u)'
  BY <1>1, <1>2, OtherLocals
<1>4. QED
  BY <1>3, ReturnLocals DEF TypeOK

\* A step of t that goes on in the code with its own locals.
LEMMA GotoStep ==
  ASSUME TypeOK, NEW t \in Thread, NEW label \in Label, Goto(t, label),
         seg' \in [Thread -> BusRange], \A u \in Thread \ {t} : seg'[u] = seg[u],
         LocalsOK(t)', UNCHANGED <<call, calls, outcome>>
  PROVE  /\ pc' \in [Thread -> Label]
         /\ DOMAIN call' = Thread
         /\ outcome' \in [Thread -> {"none", "Ok", "Err", "NotMapped", "True", "False"}]
         /\ calls' \in Nat
         /\ \A u \in Thread : LocalsOK(u)'
<1>1. \A u \in Thread \ {t} : pc'[u] = pc[u] /\ call'[u] = call[u] /\ seg'[u] = seg[u]
  BY DEF Goto, TypeOK
<1>2. \A u \in Thread : LocalsOK(u)'
  BY <1>1, OtherLocals
<1>3. QED
  BY <1>2 DEF TypeOK, Goto

\* Each lock section of a call keeps the type.
LEMMA StepTypeOK ==
  ASSUME TypeOK, NEW t \in Thread, Step(t)
  PROVE  TypeOK'
<1> USE DEF tables
<1>0. LocalsOK(t) /\ pc[t] \in Label /\ seg[t] \in BusRange
  BY DEF TypeOK
<1>1. CASE CheckName(t)
  <2>1. CASE Return(t, "Err")
    BY <1>1, <2>1, ReturnStep DEF TypeOK, CheckName
  <2>2. CASE ~Return(t, "Err")
    <3>1. Goto(t, "lock_devices") /\ UNCHANGED <<seg, pending, outcome, call>>
      BY <1>1, <2>2 DEF CheckName
    <3>2. LocalsOK(t)'
      BY <1>0, <1>1, <3>1 DEF CheckName, Goto, LocalsOK, TypeOK
    <3>3. "lock_devices" \in Label
      BY DEF Label
    <3>4. QED
      BY <1>1, <3>1, <3>2, <3>3, GotoStep DEF TypeOK, CheckName
  <2>3. QED
    BY <2>1, <2>2
<1>2. CASE LockDevices(t)
  <2>1. Goto(t, "push_device") /\ UNCHANGED <<seg, pending, outcome, call, calls>>
    BY <1>2 DEF LockDevices
  <2>2. LocalsOK(t)'
    BY <1>0, <1>2, <2>1 DEF LockDevices, Goto, LocalsOK, TypeOK
  <2>3. "push_device" \in Label
    BY DEF Label
  <2>4. owner' \in [Lock -> Thread \cup {NoThread}]
    BY <1>2 DEF LockDevices, Acquire, TypeOK
  <2>5. QED
    BY <1>2, <2>1, <2>2, <2>3, <2>4, GotoStep DEF TypeOK, LockDevices
<1>3. CASE PushDevice(t)
  <2> DEFINE r == call[t].arg
             s == [id |-> next_range_id, bus_start |-> r.base,
                   bus_end |-> r.base + r.span.end, device_offset |-> 0,
                   device_id |-> Len(devices) + 1, priority |-> DEVICE_PRIORITY]
  <2>1. /\ r \in Registrations /\ r.name \in STRING
        /\ r.base \in Address /\ r.span.end \in Address
        /\ 0 < r.span.end /\ r.base + r.span.end \in Address
    BY <1>0, <1>3, BusAssumption DEF PushDevice, LocalsOK, Address
  <2>2. s \in BusRange
    BY <2>1 DEF BusRange, TypeOK
  <2>3. /\ seg' = [seg EXCEPT ![t] = s] /\ Goto(t, "add_range")
        /\ UNCHANGED <<call, calls, outcome, pending, buckets, range_index, redirect_index>>
        /\ next_range_id' = next_range_id + 1
        /\ devices' = Append(devices, [name |-> r.name, size |-> r.span.end])
        /\ name_index' = [n \in DOMAIN name_index \cup {r.name} |->
                           IF n = r.name THEN Len(devices) + 1 ELSE name_index[n]]
        /\ owner' = [owner EXCEPT !["name_index"] = t]
    BY <1>3 DEF PushDevice, DrawRangeId, Acquire
  <2>4. seg' \in [Thread -> BusRange] /\ \A u \in Thread \ {t} : seg'[u] = seg[u]
    <3> HIDE DEF s
    <3> QED BY <2>2, <2>3 DEF TypeOK
  <2>5. LocalsOK(t)'
    BY <1>0, <1>3, <2>1, <2>3 DEF PushDevice, Goto, LocalsOK, TypeOK, Address
  <2>6. devices' \in Seq([name : STRING, size : Address]) /\ Len(devices') = Len(devices) + 1
    BY <2>1, <2>3 DEF TypeOK
  <2>7. DOMAIN name_index' \subseteq STRING
    BY <2>1, <2>3 DEF TypeOK
  <2>8. \A n \in DOMAIN name_index' : name_index'[n] \in 1 .. Len(devices')
    BY <2>1, <2>3, <2>6 DEF TypeOK
  <2>9. owner' \in [Lock -> Thread \cup {NoThread}] /\ next_range_id' \in Nat
    <3>1. owner' \in [Lock -> Thread \cup {NoThread}]
      BY <1>3 DEF PushDevice, Acquire, TypeOK
    <3>2. QED
      BY <2>3, <3>1 DEF TypeOK
  <2>10. "add_range" \in Label
    BY DEF Label
  <2>11. QED
    <3> HIDE DEF s, r
    <3> QED BY <2>3, <2>4, <2>5, <2>6, <2>7, <2>8, <2>9, <2>10, GotoStep DEF TypeOK
<1>4. CASE AddRange(t)
  <2>1. Cover(seg[t]) \subseteq BucketIndex
    BY <1>0, <1>4, CoverInRange DEF AddRange, LocalsOK
  <2>2. \A b \in BucketIndex : insert_segment(buckets[b], seg[t]) \in Seq(BusRange)
    BY <1>0, InsertShape DEF TypeOK
  <2>3. buckets' \in [BucketIndex -> Seq(BusRange)]
    BY <1>4, <2>2 DEF AddRange, TypeOK
  <2>4. \A i \in DOMAIN range_index' : i \in Nat /\ range_index'[i] \subseteq BucketIndex
    BY <1>0, <1>4, <2>1 DEF AddRange, TypeOK, BusRange
  <2>5. owner' \in [Lock -> Thread \cup {NoThread}]
    BY <1>4 DEF AddRange, ReleaseAll, TypeOK
  <2>6. UNCHANGED <<devices, name_index, redirect_index, next_range_id, call, calls>>
    BY <1>4 DEF AddRange
  <2>7. CASE call[t].op = "register"
    <3>1. Return(t, "Ok")
      BY <1>4, <2>7 DEF AddRange
    <3>2. QED
      BY <2>3, <2>4, <2>5, <2>6, <3>1, ReturnStep DEF TypeOK
  <2>8. CASE call[t].op # "register"
    <3>1. Goto(t, "record_redirect") /\ UNCHANGED <<seg, pending, outcome>>
      BY <1>4, <2>8 DEF AddRange
    <3>2. LocalsOK(t)'
      BY <1>0, <1>4, <2>6, <2>8, <3>1 DEF AddRange, Goto, LocalsOK, TypeOK
    <3>3. "record_redirect" \in Label
      BY DEF Label
    <3>4. QED
      BY <2>3, <2>4, <2>5, <2>6, <3>1, <3>2, <3>3, GotoStep DEF TypeOK
  <2>9. QED
    BY <2>7, <2>8
<1>5. CASE AddRangeConflict(t)
  <2>1. \A b \in BucketIndex : insert_segment(buckets[b], seg[t]) \in Seq(BusRange)
    BY <1>0, InsertShape DEF TypeOK
  <2>2. buckets' \in [BucketIndex -> Seq(BusRange)]
    BY <1>5, <2>1 DEF AddRangeConflict, TypeOK
  <2>3. Goto(t, "conflict") /\ UNCHANGED <<devices, name_index, range_index, redirect_index,
                                           next_range_id, call, seg, pending, outcome, calls>>
    BY <1>5 DEF AddRangeConflict
  <2>4. LocalsOK(t)'
    BY <2>3 DEF Goto, LocalsOK, TypeOK
  <2>5. "conflict" \in Label
    BY DEF Label
  <2>6. owner' \in [Lock -> Thread \cup {NoThread}]
    BY <1>5 DEF AddRangeConflict, Acquire, TypeOK
  <2>7. QED
    BY <2>2, <2>3, <2>4, <2>5, <2>6, GotoStep DEF TypeOK
<1>6. CASE ReportConflict(t)
  <2>1. owner' \in [Lock -> Thread \cup {NoThread}]
    BY <1>6 DEF ReportConflict, ReleaseAll, TypeOK
  <2>2. QED
    BY <1>6, <2>1, ReturnStep DEF ReportConflict, TypeOK
<1>7. CASE FindSegment(t)
  <2> DEFINE a == Target(call[t])
             entry == buckets[bucket_index(a)]
  <2>1. UNCHANGED <<devices, name_index, buckets, range_index, redirect_index, next_range_id,
                    owner, call, calls>>
    BY <1>7 DEF FindSegment
  <2>2. CASE Hits(entry, a) = {}
    <3>1. Return(t, "NotMapped")
      BY <1>7, <2>2 DEF FindSegment
    <3>2. QED
      BY <2>1, <3>1, ReturnStep DEF TypeOK
  <2>3. CASE Hits(entry, a) # {}
    <3>1. a \in Address
      BY <1>0, <1>7, BusAssumption DEF FindSegment, LocalsOK, Target, Address
    <3>2. entry \in Seq(BusRange)
      BY <3>1, BucketOfAddress DEF TypeOK
    <3>3. FirstHit(entry, a) \in BusRange /\ Contains(FirstHit(entry, a), a)
      BY <2>3, <3>2, FirstHitIsHit
    <3>4. /\ seg' = [seg EXCEPT ![t] = FirstHit(entry, a)] /\ Goto(t, "find_device")
          /\ UNCHANGED <<pending, outcome>>
      BY <1>7, <2>3 DEF FindSegment
    <3> HIDE DEF a, entry
    <3>5. seg' \in [Thread -> BusRange] /\ \A u \in Thread \ {t} : seg'[u] = seg[u]
      BY <3>3, <3>4 DEF TypeOK
    <3>6. seg'[t] = FirstHit(entry, a) /\ pc'[t] = "find_device"
      BY <3>4 DEF TypeOK, Goto
    <3>7. Contains(seg'[t], Target(call[t]))
      BY <3>3, <3>6 DEF a
    <3>8. LocalsOK(t)'
      BY <1>0, <1>7, <2>1, <3>6, <3>7 DEF FindSegment, LocalsOK, Contains, Target
    <3>9. "find_device" \in Label
      BY DEF Label
    <3>10. QED
      BY <2>1, <3>4, <3>5, <3>8, <3>9, GotoStep DEF TypeOK
  <2>4. QED
    BY <2>2, <2>3
<1>8. CASE FindDevice(t)
  BY <1>8, ReturnStep DEF FindDevice, TypeOK
<1>9. CASE AimRedirect(t)
  <2> DEFINE d == call[t].arg
             target == seg[t]
             s == [id |-> next_range_id, bus_start |-> d.source_start,
                   bus_end |-> d.source_start + d.size,
                   device_offset |-> target.device_offset + (d.target_start - target.bus_start),
                   device_id |-> target.device_id, priority |-> REDIRECT_PRIORITY]
  <2>1. UNCHANGED <<devices, name_index, buckets, range_index, redirect_index,
                    owner, call, calls>>
    BY <1>9 DEF AimRedirect
  <2>2. CASE Return(t, "Err") /\ UNCHANGED next_range_id
    BY <2>1, <2>2, ReturnStep DEF TypeOK
  <2>3. CASE ~(Return(t, "Err") /\ UNCHANGED next_range_id)
    <3>1. /\ d.source_start + d.size <= AddrMax
          /\ seg' = [seg EXCEPT ![t] = s]
          /\ next_range_id' = next_range_id + 1
          /\ Goto(t, "add_range")
          /\ UNCHANGED <<pending, outcome>>
      BY <1>9, <2>3 DEF AimRedirect, RedirectFits, DrawRangeId
    <3>2. /\ call[t].op = "redirect" /\ d \in Redirections /\ d.size # 0
          /\ d.source_start \in Address /\ d.size \in Address /\ d.target_start \in Address
      BY <1>0, <1>9, BusAssumption DEF AimRedirect, LocalsOK, Address
    <3>3. target.bus_start <= d.target_start
      BY <1>0, <1>9, <3>2 DEF AimRedirect, LocalsOK, Contains, Target
    <3>4. s \in BusRange
      <4>1. /\ next_range_id \in Nat /\ target.device_id \in Nat
            /\ target.device_offset \in Nat /\ target.bus_start \in Nat
        BY <1>0 DEF TypeOK, BusRange, Address
      <4>2. d.source_start + d.size \in Address
        BY <3>1, <3>2, BusAssumption DEF Address
      <4>3. target.device_offset + (d.target_start - target.bus_start) \in Nat
        BY <3>2, <3>3, <4>1 DEF Address
      <4>4. QED
        BY <3>2, <4>1, <4>2, <4>3 DEF BusRange
    <3>5. s.bus_start < s.bus_end
      BY <3>2 DEF Address
    <3> HIDE DEF s
    <3>6. seg' \in [Thread -> BusRange] /\ \A u \in Thread \ {t} : seg'[u] = seg[u]
      BY <3>1, <3>4 DEF TypeOK
    <3>7. seg'[t] = s /\ pc'[t] = "add_range"
      BY <3>1 DEF TypeOK, Goto
    <3>8. LocalsOK(t)'
      BY <2>1, <3>2, <3>5, <3>7 DEF LocalsOK
    <3>9. "add_range" \in Label /\ next_range_id' \in Nat
      BY <3>1 DEF Label, TypeOK
    <3>10. QED
      BY <2>1, <3>1, <3>6, <3>8, <3>9, GotoStep DEF TypeOK
  <2>4. QED
    BY <2>2, <2>3
<1>10. CASE RecordRedirect(t)
  <2>1. call[t].arg \in Redirections
    BY <1>0, <1>10 DEF RecordRedirect, LocalsOK
  <2>2. <<call[t].arg.source_start, call[t].arg.size>> \in Address \X Address
    BY <2>1, BusAssumption DEF Address
  <2>3. \A k \in DOMAIN redirect_index' : k \in Address \X Address /\ redirect_index'[k] \in Nat
    BY <1>0, <1>10, <2>2 DEF RecordRedirect, TypeOK, BusRange
  <2>4. QED
    BY <1>10, <2>3, ReturnStep DEF RecordRedirect, TypeOK
<1>11. CASE DropRange(t)
  <2>1. CASE Return(t, "False") /\ UNCHANGED range_index
    BY <1>11, <2>1, ReturnStep DEF DropRange, TypeOK
  <2>2. CASE ~(Return(t, "False") /\ UNCHANGED range_index)
    <3>1. /\ pending[t].id \in DOMAIN range_index
          /\ range_index' = [i \in DOMAIN range_index \ {pending[t].id} |-> range_index[i]]
          /\ pending' = [pending EXCEPT ![t].touched = range_index[pending[t].id]]
          /\ Goto(t, "clear_buckets")
          /\ UNCHANGED <<seg, outcome, call, calls>>
      BY <1>11, <2>2 DEF DropRange
    <3>2. LocalsOK(t)'
      BY <3>1 DEF LocalsOK, Goto, TypeOK
    <3>3. "clear_buckets" \in Label
      BY DEF Label
    <3>4. pending' \in [Thread -> [id : Nat, touched : SUBSET BucketIndex]]
      BY <3>1 DEF TypeOK
    <3>5. \A i \in DOMAIN range_index' : i \in Nat /\ range_index'[i] \subseteq BucketIndex
      BY <3>1 DEF TypeOK
    <3>6. QED
      BY <1>11, <3>1, <3>2, <3>3, <3>4, <3>5, GotoStep DEF DropRange, TypeOK
  <2>3. QED
    BY <2>1, <2>2
<1>12. CASE ClearBuckets(t)
  <2>1. \A b \in BucketIndex : Retain(buckets[b], pending[t].id) \in Seq(BusRange)
    BY RetainShape DEF TypeOK
  <2>2. buckets' \in [BucketIndex -> Seq(BusRange)]
    BY <1>12, <2>1 DEF ClearBuckets, TypeOK
  <2>3. QED
    BY <1>12, <2>2, ReturnStep DEF ClearBuckets, TypeOK
<1>13. QED
  BY <1>1, <1>2, <1>3, <1>4, <1>5, <1>6, <1>7, <1>8, <1>9, <1>10, <1>11, <1>12 DEF Step

\* Whatever the threads call and however their lock sections interleave, every
\* table of the bus and every local of a call holds a value of its type; in
\* particular no range is put in a bucket outside the address space and no
\* device offset of a redirect is negative.
THEOREM TypeCorrect == Spec => []TypeOK
<1>1. TypeOK /\ [Next]_vars => TypeOK'
  <2> SUFFICES ASSUME TypeOK, [Next]_vars PROVE TypeOK'
    OBVIOUS
  <2>1. CASE Next
    BY <2>1, BeginTypeOK, StepTypeOK DEF Next
  <2>2. CASE UNCHANGED vars
    BY <2>2 DEF TypeOK, LocalsOK, Contains, Target, vars, tables
  <2>3. QED
    BY <2>1, <2>2
<1>2. QED
  BY <1>1, InitTypeOK, PTL DEF Spec

-----------------------------------------------------------------------------
\* The order and the disjointness of one bucket.

Apart(entry) == \A i, j \in 1 .. Len(entry) : i # j => ~Clash(entry[i], entry[j])
Ordered(entry) == \A i, j \in 1 .. Len(entry) : i < j => entry[i].priority >= entry[j].priority

\* The elements of a bucket after insert_segment: those before the insertion
\* point, the new segment, and the others one place further.
LEMMA InsertElements ==
  ASSUME NEW entry \in Seq(BusRange), NEW s \in BusRange
  PROVE  \E p \in 1 .. Len(entry) + 1 :
           /\ insert_segment(entry, s)[p] = s
           /\ \A i \in 1 .. p - 1 : insert_segment(entry, s)[i] = entry[i] /\ ~GoesBefore(s, entry[i])
           /\ \A i \in p + 1 .. Len(entry) + 1 : insert_segment(entry, s)[i] = entry[i - 1]
           /\ p <= Len(entry) => GoesBefore(s, entry[p])
<1> DEFINE p == InsertPosition(entry, s)
<1>1. /\ p \in 1 .. Len(entry) + 1
      /\ p <= Len(entry) => GoesBefore(s, entry[p])
      /\ \A i \in 1 .. p - 1 : ~GoesBefore(s, entry[i])
  BY InsertionPoint
<1>2. insert_segment(entry, s) = [i \in 1 .. Len(entry) + 1 |->
         IF i < p THEN entry[i] ELSE IF i = p THEN s ELSE entry[i - 1]]
  BY DEF insert_segment
<1>3. Len(entry) \in Nat
  OBVIOUS
<1> HIDE DEF p
<1>4. insert_segment(entry, s)[p] = s
  BY <1>1, <1>2, <1>3
<1>5. \A i \in 1 .. p - 1 : insert_segment(entry, s)[i] = entry[i]
  BY <1>1, <1>2, <1>3
<1>6. \A i \in p + 1 .. Len(entry) + 1 : insert_segment(entry, s)[i] = entry[i - 1]
  BY <1>1, <1>2, <1>3
<1>7. QED
  BY <1>1, <1>4, <1>5, <1>6

\* The elements of a bucket after retain: an ascending selection of the old.
LEMMA RetainElements ==
  ASSUME NEW entry \in Seq(BusRange), NEW id
  PROVE  \E k \in 1 .. Len(entry) + 1 :
           /\ Len(Retain(entry, id)) <= Len(entry)
           /\ \A i \in 1 .. Len(Retain(entry, id)) :
                /\ i < k => Retain(entry, id)[i] = entry[i]
                /\ i >= k => Retain(entry, id)[i] = entry[i + 1] /\ i + 1 \in 1 .. Len(entry)
<1>1. Len(entry) \in Nat
  OBVIOUS
<1>2. CASE \E i \in 1 .. Len(entry) : entry[i].id = id
  <2> DEFINE k == CHOOSE i \in 1 .. Len(entry) : entry[i].id = id
  <2>1. k \in 1 .. Len(entry)
    BY <1>2
  <2>2. Retain(entry, id) = [i \in 1 .. Len(entry) - 1 |-> IF i < k THEN entry[i] ELSE entry[i + 1]]
    BY <1>2 DEF Retain
  <2> HIDE DEF k
  <2>3. Len(Retain(entry, id)) = Len(entry) - 1
    BY <1>1, <2>1, <2>2
  <2>4. QED
    BY <1>1, <2>1, <2>2, <2>3
<1>3. CASE ~\E i \in 1 .. Len(entry) : entry[i].id = id
  <2>1. Retain(entry, id) = entry
    BY <1>3 DEF Retain
  <2>2. Len(entry) + 1 \in 1 .. Len(entry) + 1
    BY <1>1
  <2>3. QED
    BY <1>1, <2>1, <2>2
<1>4. QED
  BY <1>2, <1>3

\* Inserting a segment that conflicts with none keeps a bucket's segments of
\* one priority apart.
LEMMA InsertKeepsApart ==
  ASSUME NEW entry \in Seq(BusRange), NEW s \in BusRange, Apart(entry), ~Conflicts(entry, s)
  PROVE  Apart(insert_segment(entry, s))
<1> DEFINE new == insert_segment(entry, s)
<1>1. PICK p \in 1 .. Len(entry) + 1 :
        /\ new[p] = s
        /\ \A i \in 1 .. p - 1 : new[i] = entry[i] /\ ~GoesBefore(s, entry[i])
        /\ \A i \in p + 1 .. Len(entry) + 1 : new[i] = entry[i - 1]
        /\ p <= Len(entry) => GoesBefore(s, entry[p])
  BY InsertElements
<1>2. Len(new) = Len(entry) + 1 /\ Len(entry) \in Nat
  BY InsertShape
<1>3. \A i \in 1 .. Len(entry) : ~Clash(entry[i], s) /\ ~Clash(s, entry[i])
  BY DEF Conflicts, Clash, Overlaps
<1> HIDE DEF new
<1>4. ASSUME NEW i \in 1 .. Len(new), NEW j \in 1 .. Len(new), i # j
      PROVE  ~Clash(new[i], new[j])
  <2> DEFINE Old(n) == IF n < p THEN n ELSE n - 1
  <2>1. \A n \in 1 .. Len(new) : n # p => Old(n) \in 1 .. Len(entry) /\ new[n] = entry[Old(n)]
    BY <1>1, <1>2
  <2>2. CASE i = p
    BY <1>1, <1>3, <1>4, <2>1, <2>2
  <2>3. CASE j = p
    BY <1>1, <1>3, <1>4, <2>1, <2>3
  <2>4. CASE i # p /\ j # p
    <3>1. Old(i) # Old(j)
      BY <1>2, <1>4, <2>4
    <3>2. QED
      BY <2>1, <2>4, <3>1 DEF Apart
  <2>5. QED
    BY <2>2, <2>3, <2>4
<1>5. QED
  BY <1>4 DEF Apart, new

\* insert_segment keeps a bucket ordered by priority.
LEMMA InsertKeepsOrdered ==
  ASSUME NEW entry \in Seq(BusRange), NEW s \in BusRange, Ordered(entry)
  PROVE  Ordered(insert_segment(entry, s))
<1> DEFINE new == insert_segment(entry, s)
<1>1. PICK p \in 1 .. Len(entry) + 1 :
        /\ new[p] = s
        /\ \A i \in 1 .. p - 1 : new[i] = entry[i] /\ ~GoesBefore(s, entry[i])
        /\ \A i \in p + 1 .. Len(entry) + 1 : new[i] = entry[i - 1]
        /\ p <= Len(entry) => GoesBefore(s, entry[p])
  BY InsertElements
<1>2. Len(new) = Len(entry) + 1 /\ Len(entry) \in Nat
  BY InsertShape
<1>3. s.priority \in Nat /\ \A i \in 1 .. Len(entry) : entry[i].priority \in Nat
  <2>1. \A r \in BusRange : r.priority \in Nat
    BY DEF BusRange, DEVICE_PRIORITY, REDIRECT_PRIORITY
  <2>2. \A i \in 1 .. Len(entry) : entry[i] \in BusRange
    OBVIOUS
  <2>3. QED
    BY <2>1, <2>2
<1>4. \A i \in 1 .. p - 1 : entry[i].priority >= s.priority
  BY <1>1, <1>2, <1>3 DEF GoesBefore
<1>5. \A i \in p .. Len(entry) : s.priority >= entry[i].priority
  <2>1. p <= Len(entry) => s.priority >= entry[p].priority
    BY <1>1, <1>2, <1>3 DEF GoesBefore
  <2>2. QED
    BY <1>2, <1>3, <2>1 DEF Ordered
<1> HIDE DEF new
<1>6. ASSUME NEW i \in 1 .. Len(new), NEW j \in 1 .. Len(new), i < j
      PROVE  new[i].priority >= new[j].priority
  <2>1. CASE j < p
    BY <1>1, <1>2, <1>6, <2>1 DEF Ordered
  <2>2. CASE j = p
    BY <1>1, <1>2, <1>4, <1>6, <2>2
  <2>3. CASE i < p /\ p < j
    <3>1. new[i] = entry[i] /\ new[j] = entry[j - 1] /\ i < j - 1
      BY <1>1, <1>2, <2>3
    <3>2. i \in 1 .. Len(entry) /\ j - 1 \in 1 .. Len(entry)
      BY <1>2, <2>3
    <3>3. QED
      BY <3>1, <3>2 DEF Ordered
  <2>4. CASE i = p
    BY <1>1, <1>2, <1>5, <1>6, <2>4
  <2>5. CASE p < i
    <3>1. new[i] = entry[i - 1] /\ new[j] = entry[j - 1] /\ i - 1 < j - 1
      BY <1>1, <1>2, <1>6, <2>5
    <3>2. i - 1 \in 1 .. Len(entry) /\ j - 1 \in 1 .. Len(entry)
      BY <1>2, <1>6, <2>5
    <3>3. QED
      BY <3>1, <3>2 DEF Ordered
  <2>6. QED
    BY <1>1, <1>2, <1>6, <2>1, <2>2, <2>3, <2>4, <2>5
<1>7. QED
  BY <1>6 DEF Ordered, new

\* Removing an id keeps a bucket apart and ordered.
LEMMA RetainKeeps ==
  ASSUME NEW entry \in Seq(BusRange), NEW id
  PROVE  /\ Apart(entry) => Apart(Retain(entry, id))
         /\ Ordered(entry) => Ordered(Retain(entry, id))
<1> DEFINE new == Retain(entry, id)
<1>1. PICK k \in 1 .. Len(entry) + 1 :
        /\ Len(new) <= Len(entry)
        /\ \A i \in 1 .. Len(new) :
             /\ i < k => new[i] = entry[i]
             /\ i >= k => new[i] = entry[i + 1] /\ i + 1 \in 1 .. Len(entry)
  BY RetainElements
<1>2. Len(new) \in Nat /\ Len(entry) \in Nat
  BY RetainShape
<1> HIDE DEF new
<1> DEFINE Old(i) == IF i < k THEN i ELSE i + 1
<1>3. \A i \in 1 .. Len(new) : Old(i) \in 1 .. Len(entry) /\ new[i] = entry[Old(i)]
  BY <1>1, <1>2
<1>4. \A i, j \in 1 .. Len(new) : (i # j => Old(i) # Old(j)) /\ (i < j => Old(i) < Old(j))
  BY <1>1, <1>2
<1> HIDE DEF Old
<1>5. Apart(entry) => Apart(new)
  BY <1>3, <1>4 DEF Apart
<1>6. Ordered(entry) => Ordered(new)
  BY <1>3, <1>4 DEF Ordered
<1>7. QED
  BY <1>5, <1>6 DEF new

\* How a step changes the buckets: not at all, by a segment that fits into each
\* bucket it enters, or by the removal of one.
LEMMA BucketSteps ==
  ASSUME TypeOK, NEW t \in Thread, BeginCall(t) \/ Step(t), NEW b \in BucketIndex
  PROVE  \/ buckets'[b] = buckets[b]
         \/ /\ pc[t] = "add_range"
            /\ ~Conflicts(buckets[b], seg[t])
            /\ buckets'[b] = insert_segment(buckets[b], seg[t])
         \/ \E id : buckets'[b] = Retain(buckets[b], id)
<1> USE DEF tables
<1>1. CASE BeginCall(t)
  BY <1>1 DEF BeginCall, BeginRegister, BeginRedirect, BeginRemove, BeginResolve
<1>2. CASE AddRange(t)
  <2>1. b \in Cover(seg[t]) => ~Conflicts(buckets[b], seg[t])
    BY <1>2 DEF AddRange, Rejecting
  <2>2. QED
    BY <1>2, <2>1 DEF AddRange
<1>3. CASE AddRangeConflict(t)
  <2>1. b \in Accepting(seg[t]) => ~Conflicts(buckets[b], seg[t])
    <3>1. b \in Accepting(seg[t]) => b \notin Rejecting(seg[t])
      BY DEF Accepting, BucketIndex
    <3>2. QED
      BY <3>1 DEF Accepting, Rejecting
  <2>2. QED
    BY <1>3, <2>1 DEF AddRangeConflict
<1>4. CASE ClearBuckets(t)
  BY <1>4 DEF ClearBuckets
<1>5. CASE \/ CheckName(t) \/ LockDevices(t) \/ PushDevice(t) \/ ReportConflict(t)
           \/ FindSegment(t) \/ FindDevice(t) \/ AimRedirect(t) \/ RecordRedirect(t)
           \/ DropRange(t)
  BY <1>5 DEF CheckName, LockDevices, PushDevice, ReportConflict, FindSegment, FindDevice,
              AimRedirect, DrawRangeId, RecordRedirect, DropRange
<1>6. QED
  BY <1>1, <1>2, <1>3, <1>4, <1>5 DEF Step

\* The two invariants, bucket by bucket.
LEMMA ApartAndOrdered ==
  /\ NoOverlapAtPriority <=> \A b \in BucketIndex : Apart(buckets[b])
  /\ FirstHitIsTopPriority <=> \A b \in BucketIndex : Ordered(buckets[b])
  BY DEF NoOverlapAtPriority, FirstHitIsTopPriority, Apart, Ordered, Clash

\* Ranges of one priority never overlap, for any number of threads, any bucket
\* size and any calls: neither a rejected range that stays in some buckets nor
\* the interleaving of redirect, remove_redirect and register_device puts two
\* segments of one priority over the same address of a bucket.
THEOREM OverlapFree == Spec => []NoOverlapAtPriority
<1>1. Init => NoOverlapAtPriority
  BY DEF Init, NoOverlapAtPriority
<1>2. TypeOK /\ NoOverlapAtPriority /\ [Next]_vars => NoOverlapAtPriority'
  <2> SUFFICES ASSUME TypeOK, NoOverlapAtPriority, [Next]_vars,
                      NEW b \in BucketIndex
               PROVE  Apart(buckets'[b])
    BY ApartAndOrdered DEF NoOverlapAtPriority, Apart, Clash
  <2>1. Apart(buckets[b]) /\ buckets[b] \in Seq(BusRange)
    BY ApartAndOrdered DEF TypeOK
  <2>2. CASE Next
    <3>1. PICK t \in Thread : BeginCall(t) \/ Step(t)
      BY <2>2 DEF Next
    <3>2. seg[t] \in BusRange
      BY DEF TypeOK
    <3>3. QED
      BY <2>1, <3>1, <3>2, BucketSteps, InsertKeepsApart, RetainKeeps
  <2>3. CASE UNCHANGED vars
    BY <2>1, <2>3 DEF vars, tables
  <2>4. QED
    BY <2>2, <2>3
<1>3. QED
  BY <1>1, <1>2, TypeCorrect, PTL DEF Spec

\* The segments of a bucket are always ordered by falling priority, which is
\* what resolve relies on when it takes the first segment that contains the
\* address: a redirect shadows the device under it.
THEOREM PriorityOrder == Spec => []FirstHitIsTopPriority
<1>1. Init => FirstHitIsTopPriority
  BY DEF Init, FirstHitIsTopPriority
<1>2. TypeOK /\ FirstHitIsTopPriority /\ [Next]_vars => FirstHitIsTopPriority'
  <2> SUFFICES ASSUME TypeOK, FirstHitIsTopPriority, [Next]_vars,
                      NEW b \in BucketIndex
               PROVE  Ordered(buckets'[b])
    BY ApartAndOrdered DEF FirstHitIsTopPriority, Ordered
  <2>1. Ordered(buckets[b]) /\ buckets[b] \in Seq(BusRange)
    BY ApartAndOrdered DEF TypeOK
  <2>2. CASE Next
    <3>1. PICK t \in Thread : BeginCall(t) \/ Step(t)
      BY <2>2 DEF Next
    <3>2. seg[t] \in BusRange
      BY DEF TypeOK
    <3>3. QED
      BY <2>1, <3>1, <3>2, BucketSteps, InsertKeepsOrdered, RetainKeeps
  <2>3. CASE UNCHANGED vars
    BY <2>1, <2>3 DEF vars, tables
  <2>4. QED
    BY <2>2, <2>3
<1>3. QED
  BY <1>1, <1>2, TypeCorrect, PTL DEF Spec

-----------------------------------------------------------------------------
\* Range ids.

IdsIn(entry) == {entry[i].id : i \in 1 .. Len(entry)}
IdsUnique(entry) == \A i, j \in 1 .. Len(entry) : i # j => entry[i].id # entry[j].id

\* Why no id is used twice: a thread about to insert a segment holds an id that
\* was drawn from the counter, is in no bucket yet and belongs to no other
\* thread.
IdsFresh ==
  /\ \A b \in BucketIndex : \A id \in IdsIn(buckets[b]) : id < next_range_id
  /\ \A t \in Thread : pc[t] = "add_range" =>
       /\ seg[t].id < next_range_id
       /\ \A b \in BucketIndex : seg[t].id \notin IdsIn(buckets[b])
       /\ \A u \in Thread : u # t /\ pc[u] = "add_range" => seg[u].id # seg[t].id

\* Inserting a segment adds its id, which stays unique when it was new.
LEMMA InsertIds ==
  ASSUME NEW entry \in Seq(BusRange), NEW s \in BusRange
  PROVE  /\ IdsIn(insert_segment(entry, s)) \subseteq IdsIn(entry) \cup {s.id}
         /\ IdsUnique(entry) /\ s.id \notin IdsIn(entry) => IdsUnique(insert_segment(entry, s))
<1> DEFINE new == insert_segment(entry, s)
<1>1. PICK p \in 1 .. Len(entry) + 1 :
        /\ new[p] = s
        /\ \A i \in 1 .. p - 1 : new[i] = entry[i] /\ ~GoesBefore(s, entry[i])
        /\ \A i \in p + 1 .. Len(entry) + 1 : new[i] = entry[i - 1]
        /\ p <= Len(entry) => GoesBefore(s, entry[p])
  BY InsertElements
<1>2. Len(new) = Len(entry) + 1 /\ Len(entry) \in Nat
  BY InsertShape
<1> HIDE DEF new
<1> DEFINE Old(n) == IF n < p THEN n ELSE n - 1
<1>3. \A n \in 1 .. Len(new) : n # p => Old(n) \in 1 .. Len(entry) /\ new[n] = entry[Old(n)]
  BY <1>1, <1>2
<1>4. \A m, n \in 1 .. Len(new) : m # n /\ m # p /\ n # p => Old(m) # Old(n)
  BY <1>2
<1> HIDE DEF Old
<1>5. \A n \in 1 .. Len(new) : n # p => new[n].id \in IdsIn(entry)
  BY <1>3 DEF IdsIn
<1>6. IdsIn(new) \subseteq IdsIn(entry) \cup {s.id}
  BY <1>1, <1>5 DEF IdsIn
<1>7. ASSUME IdsUnique(entry), s.id \notin IdsIn(entry),
             NEW m \in 1 .. Len(new), NEW n \in 1 .. Len(new), m # n
      PROVE  new[m].id # new[n].id
  <2>1. CASE m # p /\ n # p
    BY <1>3, <1>4, <1>7, <2>1 DEF IdsUnique
  <2>2. CASE m = p \/ n = p
    BY <1>1, <1>5, <1>7, <2>2
  <2>3. QED
    BY <2>1, <2>2
<1>8. QED
  BY <1>6, <1>7 DEF IdsUnique, new

\* Removing an id adds none and keeps the others unique.
LEMMA RetainIds ==
  ASSUME NEW entry \in Seq(BusRange), NEW id
  PROVE  /\ IdsIn(Retain(entry, id)) \subseteq IdsIn(entry)
         /\ IdsUnique(entry) => IdsUnique(Retain(entry, id))
<1> DEFINE new == Retain(entry, id)
<1>1. PICK k \in 1 .. Len(entry) + 1 :
        /\ Len(new) <= Len(entry)
        /\ \A i \in 1 .. Len(new) :
             /\ i < k => new[i] = entry[i]
             /\ i >= k => new[i] = entry[i + 1] /\ i + 1 \in 1 .. Len(entry)
  BY RetainElements
<1>2. Len(new) \in Nat /\ Len(entry) \in Nat
  BY RetainShape
<1> HIDE DEF new
<1> DEFINE Old(i) == IF i < k THEN i ELSE i + 1
<1>3. \A i \in 1 .. Len(new) : Old(i) \in 1 .. Len(entry) /\ new[i] = entry[Old(i)]
  BY <1>1, <1>2
<1>4. \A i, j \in 1 .. Len(new) : i # j => Old(i) # Old(j)
  BY <1>1, <1>2
<1> HIDE DEF Old
<1>5. IdsIn(new) \subseteq IdsIn(entry)
  BY <1>3 DEF IdsIn
<1>6. IdsUnique(entry) => IdsUnique(new)
  BY <1>3, <1>4 DEF IdsUnique
<1>7. QED
  BY <1>5, <1>6 DEF new

\* What a step of t does to the ids in flight: it leaves the other threads
\* alone, and brings t to add_range only with the id it has just drawn.
LEMMA IdSteps ==
  ASSUME TypeOK, NEW t \in Thread, BeginCall(t) \/ Step(t)
  PROVE  /\ \A u \in Thread \ {t} : pc'[u] = pc[u] /\ seg'[u] = seg[u]
         /\ \/ pc'[t] # "add_range" /\ next_range_id' \in {next_range_id, next_range_id + 1}
            \/ /\ seg'[t].id = next_range_id
               /\ next_range_id' = next_range_id + 1
               /\ buckets' = buckets
<1> USE DEF tables
<1>1. CASE BeginCall(t)
  BY <1>1 DEF BeginCall, BeginRegister, BeginRedirect, BeginRemove, BeginResolve, Return, Goto, TypeOK
<1>2. CASE CheckName(t) \/ LockDevices(t) \/ AddRange(t) \/ AddRangeConflict(t) \/ ReportConflict(t)
  BY <1>2 DEF CheckName, LockDevices, AddRange, AddRangeConflict, ReportConflict, Return, Goto, TypeOK
<1>3. CASE FindSegment(t) \/ FindDevice(t) \/ RecordRedirect(t) \/ DropRange(t) \/ ClearBuckets(t)
  BY <1>3 DEF FindSegment, FindDevice, RecordRedirect, DropRange, ClearBuckets, Return, Goto, TypeOK
<1>4. CASE PushDevice(t)
  BY <1>4 DEF PushDevice, DrawRangeId, Goto, TypeOK
<1>5. CASE AimRedirect(t)
  BY <1>5 DEF AimRedirect, DrawRangeId, Return, Goto, TypeOK
<1>6. QED
  BY <1>1, <1>2, <1>3, <1>4, <1>5 DEF Step

\* No bucket ever holds two segments of one range.  Ids are drawn from a
\* counter long before the segment enters a bucket, so the invariant has to
\* follow the ids of all threads in between.
THEOREM IdsNeverReused == Spec => []SegmentIdsUnique
<1> DEFINE Inv == IdsFresh /\ \A b \in BucketIndex : IdsUnique(buckets[b])
<1>1. Init => Inv
  BY DEF Init, IdsFresh, IdsIn, IdsUnique
<1>2. TypeOK /\ Inv /\ [Next]_vars => Inv'
  <2> SUFFICES ASSUME TypeOK, Inv, [Next]_vars PROVE Inv'
    OBVIOUS
  <2>1. CASE Next
    <3>1. PICK t \in Thread : BeginCall(t) \/ Step(t)
      BY <2>1 DEF Next
    <3>2. seg[t] \in BusRange /\ \A b \in BucketIndex : buckets[b] \in Seq(BusRange)
      BY DEF TypeOK
    <3>3. ASSUME NEW b \in BucketIndex
          PROVE  /\ IdsUnique(buckets'[b])
                 /\ \/ IdsIn(buckets'[b]) \subseteq IdsIn(buckets[b])
                    \/ /\ pc[t] = "add_range"
                       /\ IdsIn(buckets'[b]) \subseteq IdsIn(buckets[b]) \cup {seg[t].id}
      BY <3>1, <3>2, BucketSteps, InsertIds, RetainIds DEF IdsFresh
    <3>4. next_range_id \in Nat /\ next_range_id' \in {next_range_id, next_range_id + 1}
      BY <3>1, IdSteps DEF TypeOK
    <3>5. ASSUME NEW b \in BucketIndex, NEW id \in IdsIn(buckets[b])
          PROVE  id \in Nat
      <4>1. PICK i \in 1 .. Len(buckets[b]) : id = buckets[b][i].id
        BY DEF IdsIn
      <4>2. buckets[b][i] \in BusRange
        BY <3>2, <4>1
      <4>3. QED
        BY <4>1, <4>2 DEF BusRange
    <3>6. \A u \in Thread : seg[u].id \in Nat
      BY DEF TypeOK, BusRange
    <3>7. ASSUME NEW b \in BucketIndex, NEW id \in IdsIn(buckets'[b])
          PROVE  id < next_range_id'
      <4>1. CASE id \in IdsIn(buckets[b])
        <5>1. id \in Nat /\ id < next_range_id
          BY <3>5, <4>1 DEF IdsFresh
        <5>2. QED
          BY <3>4, <5>1
      <4>2. CASE id \notin IdsIn(buckets[b])
        <5>1. pc[t] = "add_range" /\ id = seg[t].id
          BY <3>3, <4>2
        <5>2. seg[t].id < next_range_id
          BY <5>1 DEF IdsFresh
        <5>3. QED
          BY <3>4, <3>6, <5>1, <5>2
      <4>3. QED
        BY <4>1, <4>2
    <3>8. ASSUME NEW u \in Thread, pc'[u] = "add_range"
          PROVE  /\ seg'[u].id < next_range_id'
                 /\ \A b \in BucketIndex : seg'[u].id \notin IdsIn(buckets'[b])
                 /\ \A v \in Thread : v # u /\ pc'[v] = "add_range" => seg'[v].id # seg'[u].id
      <4>1. CASE u = t
        <5>1. seg'[t].id = next_range_id /\ next_range_id' = next_range_id + 1 /\ buckets' = buckets
          BY <3>1, <3>8, <4>1, IdSteps
        <5>2. \A v \in Thread \ {t} : pc'[v] = "add_range" => seg'[v].id < next_range_id
          BY <3>1, IdSteps DEF IdsFresh
        <5>3. \A v \in Thread \ {t} : seg'[v].id \in Nat
          BY <3>1, <3>6, IdSteps
        <5>4. \A b \in BucketIndex : next_range_id \notin IdsIn(buckets[b])
          BY <3>4 DEF IdsFresh
        <5>5. QED
          BY <3>4, <4>1, <5>1, <5>2, <5>3, <5>4
      <4>2. CASE u # t
        <5>1. pc[u] = "add_range" /\ seg'[u] = seg[u]
          BY <3>1, <3>8, <4>2, IdSteps
        <5>2. seg[u].id < next_range_id'
          BY <3>4, <3>6, <5>1 DEF IdsFresh
        <5>3. \A b \in BucketIndex : seg[u].id \notin IdsIn(buckets'[b])
          BY <3>3, <4>2, <5>1 DEF IdsFresh
        <5>4. ASSUME NEW v \in Thread, v # u, pc'[v] = "add_range"
              PROVE  seg'[v].id # seg[u].id
          <6>1. CASE v = t
            <7>1. seg'[t].id = next_range_id
              BY <3>1, <5>4, <6>1, IdSteps
            <7>2. QED
              BY <3>4, <3>6, <5>1, <6>1, <7>1 DEF IdsFresh
          <6>2. CASE v # t
            BY <3>1, <5>1, <5>4, <6>2, IdSteps DEF IdsFresh
          <6>3. QED
            BY <6>1, <6>2
        <5>5. QED
          BY <5>1, <5>2, <5>3, <5>4
      <4>3. QED
        BY <4>1, <4>2
    <3>9. QED
      BY <3>3, <3>7, <3>8 DEF IdsFresh
  <2>2. CASE UNCHANGED vars
    BY <2>2 DEF vars, tables, IdsFresh, IdsIn, IdsUnique
  <2>3. QED
    BY <2>1, <2>2
<1>3. Inv => SegmentIdsUnique
  BY DEF SegmentIdsUnique, IdsUnique
<1>4. QED
  BY <1>1, <1>2, <1>3, TypeCorrect, PTL DEF Spec
=============================================================================
