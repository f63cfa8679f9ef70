---------------------------- MODULE SymbolAccess ----------------------------
(***************************************************************************)
(* Reading and writing memory through symbols: src/src/soc/system/bus/     *)
(* symbol, and the streams of system/bus/ext.  A SymbolHandle owns a       *)
(* DataHandle; each call is a walk, a jump and device accesses, one step   *)
(* each, with job as the program counter.  Another handle reads streams,   *)
(* others write bytes, and redirects come and go in between.  A value is a *)
(* number or a sequence of bytes; scaling, labels and text are left out.   *)
(***************************************************************************)
EXTENDS DataHandle, SymbolWalk, SymbolTable

CONSTANTS
  Own,          \* the DataHandle of the SymbolHandle
  Tool,         \* the DataHandle that streams are read with
  Table,        \* the SymbolTable
  Lookups,      \* what symbols are looked up by: [by, key]
  Streams,      \* what is read with Tool: [at, do, len]
  Payloads,     \* arguments of write_bytes
  ForeignBytes  \* <<device, byte>> that others write

Found(lookup) ==
  CASE lookup.by = "label" -> resolve_label(Table, lookup.key)
    [] lookup.by = "symbol_id" -> resolve_symbol_id(Table, lookup.key)
    [] lookup.by = "query" -> iter(Table, lookup.key)

Symbols == UNION {Found(lookup) : lookup \in Lookups}

ASSUME SymbolAssumption ==
  /\ {Own, Tool} \subseteq Handle /\ Own # Tool /\ "elsewhere" \notin Handle
  /\ BITS_PER_BYTE = BYTE_BITS /\ BITS = WordBits /\ BYTE_BITS > 1
  /\ \A n \in FLOAT_BYTES : Bytes(n) <= BITS
  /\ \A n \in DOMAIN Table.records :
       LET symbol == Table.records[n]
       IN  /\ symbol.type_id \subseteq TypeId /\ \A i, j \in symbol.type_id : i = j
           /\ symbol.runtime_addr \cup symbol.file_addr \cup symbol.size \subseteq Nat
  /\ Symbols \subseteq DOMAIN Table.records
  /\ Streams \subseteq [at : Nat, do : {"bytes", "text", "c_string", "uleb", "sleb"}, len : Nat]
  /\ Payloads \subseteq Seq(Byte)
  /\ \A b \in ForeignBytes : b \in Device \X Nat /\ b[2] < SizeOf[b[1]]

VARIABLES
  cursor,  \* {} or the SymbolValueCursor: its base address and the last read it gave
  job,     \* the call under way, or the result of the last one
  torn     \* history: bytes others have written since the call began

accessVars == <<cursor, job, torn>>
symbolVars == <<vars, walkVars, accessVars>>

-----------------------------------------------------------------------------
\* What a call does to its handle: a jump, unless at is {}, and accesses.
Plan(at, do, len) == [at |-> at, do |-> do, offset |-> 0, len |-> len, data |-> <<>>]

\* read_unsigned and read_signed after a jump; a width of 0 is not read.
Integer(a, width) ==
  CASE width = 0 -> Plan({a}, "constant", 0)
    [] width > BITS -> Plan({a}, "refuse", 0)
    [] OTHER -> Plan({a}, "number", width)

\* A pointer is as wide as its symbol or entry where that is wider.
PointerBits(t, hint) ==
  Bytes(CHOOSE n \in {t.byte_size} \cup hint : \A m \in {t.byte_size} \cup hint : m <= n)

\* read_type_record without an entry.
TypePlan(id, a, hint) ==
  LET t == Types[id]
  IN  CASE t.shape \in {"enum", "fixed"} -> Integer(a, Bytes(t.byte_size))
        [] t.shape = "scalar" /\ t.encoding \in {"unsigned", "signed"} -> Integer(a, Bytes(t.byte_size))
        [] t.shape = "scalar" /\ t.encoding = "floating" ->
             Plan({a}, IF t.byte_size \in FLOAT_BYTES THEN "number" ELSE "nothing", Bytes(t.byte_size))
        [] t.shape = "scalar" /\ t.encoding = "utf8" -> Plan({a}, "text", t.byte_size)
        [] t.shape = "pointer" ->
             IF PointerBits(t, hint) > BITS THEN Plan({a}, "nothing", 0)
             ELSE Integer(a, PointerBits(t, hint))
        [] t.shape = "bitfield" -> Plan({}, "refuse", 0)
        [] OTHER -> Plan({}, "nothing", 0)

\* SymbolWalkRead.address: for a bit field, that of its lowest bit.
EntryAddress(e, base) ==
  LET t == Types[e.ty]
      low == IF t.shape # "bitfield" \/ Fields!bit_span(t.spec) = {} THEN 0
             ELSE (CHOOSE span \in Fields!bit_span(t.spec) : TRUE)[1]
  IN  base + (e.offset_bits + low) \div BITS_PER_BYTE

\* A field whose bits are read, as many as its slices reach from the entry on,
\* after a variant that reads them from the address of the entry.
FieldAtAddress(e, base) ==
  [Plan({EntryAddress(e, base)}, "number", BitEnd(Types[e.ty].spec))
     EXCEPT !.offset = e.offset_bits % BITS_PER_BYTE]
FieldPlan(e, base) ==
  [Plan({base + e.offset_bits \div BITS_PER_BYTE}, "number", BitEnd(Types[e.ty].spec))
     EXCEPT !.offset = e.offset_bits % BITS_PER_BYTE]

\* read_entry_value.
EntryPlan(e, base) ==
  LET t == Types[e.ty]
  IN  CASE t.shape # "bitfield" -> TypePlan(e.ty, EntryAddress(e, base), {byte_len(e)})
        [] t.shape = "bitfield" /\ Fields!total_width(t.spec) > BITS -> Plan({}, "refuse", 0)
        [] t.shape = "bitfield" /\ (Fields!total_width(t.spec) = 0 \/ BitEnd(t.spec) = 0) ->
             Plan({}, "constant", 0)
        [] OTHER -> FieldPlan(e, base)

\* write_bytes of a cursor.
WritePlan(e, base, data) ==
  IF Len(data) # byte_len(e) THEN Plan({}, "refuse", 0)
  ELSE [Plan({base + e.offset_bits \div BITS_PER_BYTE}, "store", Len(data)) EXCEPT !.data = data]

-----------------------------------------------------------------------------
\* Values.

Signed(n, width) == IF width > 0 /\ n >= 2^(width - 1) THEN n - 2^width ELSE n

\* The number with ones at the places of a set.
Number(ones) ==
  LET below[n \in 0 .. BITS] ==
        IF n = 0 THEN 0 ELSE below[n - 1] + (IF n - 1 \in ones THEN 2^(n - 1) ELSE 0)
  IN  below[BITS]

Ones(bits) == {k \in DOMAIN bits : bits[k] = 1}

\* The value a type gives to the number that was read for it.
Typed(id, n) ==
  LET t == Types[id]
  IN  CASE t.shape \in {"enum", "fixed"} -> Signed(n, Bytes(t.byte_size))
        [] t.shape = "scalar" /\ t.encoding = "signed" -> Signed(n, Bytes(t.byte_size))
        [] t.shape = "bitfield" ->
             IF Fields!is_signed(t.spec)
             THEN Signed(Fields!read_bits(t.spec, n), Fields!total_width(t.spec))
             ELSE Fields!read_bits(t.spec, n)
        [] OTHER -> n

NUL == [b \in 0 .. BYTE_BITS - 1 |-> 0]

trim_nul(bytes) ==
  LET end == CHOOSE n \in 0 .. Len(bytes) :
               /\ \A i \in 1 .. n : bytes[i] # NUL
               /\ n = Len(bytes) \/ bytes[n + 1] = NUL
  IN  SubSeq(bytes, 1, end)

\* read_uleb128 and read_sleb128: all bits of a byte but the top one count.  A
\* release build takes the shift modulo the width of u64.
GROUP == BYTE_BITS - 1
Shift(i) == (i - 1) * GROUP
uleb128(bytes) ==
  Number(UNION {{k + (Shift(i) % BITS) : k \in Ones(bytes[i]) \ {GROUP}} : i \in DOMAIN bytes})
sleb128(bytes) ==
  LET width == Len(bytes) * GROUP
  IN  Signed(uleb128(bytes), IF width < BITS THEN width ELSE BITS)

-----------------------------------------------------------------------------
\* Calls.

\* job: what call does which plan with handle; about is what the caller
\* named, address the place of it, bit the bit of its byte a value starts at.
Job(call, h, plan, about, address, bit) ==
  [call |-> call, handle |-> h, plan |-> plan, about |-> about, address |-> address, bit |-> bit,
   state |-> "runs", where |-> {}, done |-> <<>>, outcome |-> "none", value |-> <<>>]

NoJob == [state |-> "idle", outcome |-> "none"]

SymbolInit ==
  /\ Init
  /\ WalkInit
  /\ cursor = {}
  /\ job = NoJob
  /\ torn = {}

\* Tool is made for one call and dropped after it.
Begin(newJob) ==
  /\ job.state = "idle"
  /\ job' = newJob
  /\ active' = [active EXCEPT ![Tool] = {}] /\ origin' = [origin EXCEPT ![Tool] = 0]
  /\ cache' = [cache EXCEPT ![Tool] = {}] /\ foreign' = [foreign EXCEPT ![Tool] = {}]
  /\ ops' = 0 /\ last' = [op |-> "none"] /\ torn' = {}
  /\ UNCHANGED <<ranges, memory, storing>>

\* prepare: a symbol without an address or a size is refused.
prepare(n) ==
  LET symbol == Table.records[n]
      address == IF symbol.runtime_addr # {} THEN symbol.runtime_addr ELSE symbol.file_addr
      size == IF symbol.size # {} THEN symbol.size ELSE UNION {type_size(id) : id \in symbol.type_id}
  IN  {[ty |-> symbol.type_id, address |-> a, size |-> z] : a \in address, z \in size}

ReadBytesPlan(p) == Plan({p.address}, "bytes", p.size)

\* read_value; Settle falls back on the bytes.  While a cursor lives, it alone
\* can use the SymbolHandle.
ReadValue(n) ==
  /\ cursor = {}
  /\ \E p \in prepare(n) :
       \/ \E id \in p.ty :
            Begin(Job("value", Own, TypePlan(id, p.address, {p.size}), p, p.address, 0))
       \/ p.ty = {} /\ Begin(Job("value", Own, Plan({}, "nothing", 0), p, p.address, 0))
  /\ UNCHANGED <<walkVars, cursor>>

ReadRawBytes(n) ==
  /\ cursor = {}
  /\ \E p \in prepare(n) : Begin(Job("raw", Own, ReadBytesPlan(p), p, p.address, 0))
  /\ UNCHANGED <<walkVars, cursor>>

ValueCursor(n) ==
  /\ cursor = {}
  /\ \E p \in prepare(n) : \E id \in p.ty :
       /\ StartWalk(id)
       /\ cursor' = {[base |-> p.address, given |-> {}]}
  /\ Begin(NoJob)

DropCursor ==
  /\ cursor' = {}
  /\ EndWalk
  /\ Begin(NoJob)

\* try_next, whose loop goes on in PassOver and Reach.
TryNext ==
  /\ cursor # {}
  /\ Begin([NoJob EXCEPT !.state = "walks"])
  /\ UNCHANGED <<walkVars, cursor>>

\* An entry between two bytes is passed over unless it is a bit field.
Readable(e) == e.offset_bits % BITS_PER_BYTE = 0 \/ Types[e.ty].shape = "bitfield"

Usable(f) == IsLeaf(Types[f.ty]) /\ Readable(Entry(f))

EntryJob(e, base) ==
  Job("entry", Own, EntryPlan(e, base), e, base + e.offset_bits \div BITS_PER_BYTE,
      e.offset_bits % BITS_PER_BYTE)

Walks == job.state = "walks" /\ UNCHANGED <<vars, cursor, torn>>

PassOver == Walks /\ stack # <<>> /\ ~Usable(Head(stack)) /\ WalkStep /\ UNCHANGED job

Reach ==
  /\ Walks
  /\ stack # <<>> /\ Usable(Head(stack))
  /\ \E c \in cursor : job' = EntryJob(Entry(Head(stack)), c.base)
  /\ WalkStep

WalkedOut == Walks /\ stack = <<>> /\ job' = NoJob /\ UNCHANGED walkVars

\* deref of the last read, when that is a pointer.
Deref ==
  /\ \E c \in cursor : \E g \in c.given :
       /\ Types[g.entry.ty].shape = "pointer"
       /\ LET target == Types[g.entry.ty].target
          IN  Begin(Job("deref", Own, TypePlan(target, g.value, {}), [ty |-> {target}], g.value, 0))
  /\ UNCHANGED <<walkVars, cursor>>

\* write_bytes of the cursor, to the entry of the last read.
WriteEntry(data) ==
  /\ \E c \in cursor : \E g \in c.given :
       Begin(Job("write", Own, WritePlan(g.entry, c.base, data), g.entry,
                 c.base + g.entry.offset_bits \div BITS_PER_BYTE, 0))
  /\ UNCHANGED <<walkVars, cursor>>

\* read_exact, read_utf8, read_c_string and the LEB128 readers.  They change
\* nothing that a cursor sees, and so are called while none lives.
ReadStream(s) ==
  /\ cursor = {}
  /\ Begin(Job("stream", Tool, Plan({s.at}, s.do, s.len), s, s.at, 0))
  /\ UNCHANGED <<walkVars, cursor>>

-----------------------------------------------------------------------------
\* What a call goes through.

Runs(kinds) == job.state = "runs" /\ job.plan.at = {} /\ job.plan.do \in kinds
InCall == UNCHANGED <<walkVars, torn>>

Return(outcome, value) ==
  /\ job' = [job EXCEPT !.state = "idle", !.outcome = outcome, !.value = value]
  /\ cursor' = IF job.call = "entry" /\ outcome = "value"
               THEN {[c EXCEPT !.given = {[entry |-> job.about, value |-> value]}] : c \in cursor}
               ELSE cursor

Fail == Return("error", <<>>)
GoOn(done) == job' = [job EXCEPT !.done = done] /\ UNCHANGED cursor

\* where: the byte that the place asked for leads to as the call jumps.
JumpTo ==
  /\ job.state = "runs"
  /\ \E a \in job.plan.at :
       \/ /\ Jump(job.handle, a)
          /\ job' = [job EXCEPT !.plan.at = {},
                                !.where = {Leads(r, job.address) : r \in Best(ranges, job.address)}]
          /\ UNCHANGED cursor
       \/ Best(ranges, a) = {} /\ Fail /\ UNCHANGED addressVars
  /\ UNCHANGED dataVars
  /\ InCall

CanReadBits(h, s) ==
  Available(h, bits_to_bytes(s)) /\ FitsWindow(h, s) /\ (Cached(h, s) \/ Loadable(h, s))

BitRange(offset, len) == [bit_offset |-> offset, bit_len |-> len]

\* The type of a job that reads a number.
JobType == IF job.call = "entry" THEN job.about.ty ELSE CHOOSE id \in job.about.ty : TRUE

ReadNumber ==
  LET s == BitRange(job.plan.offset, job.plan.len)
  IN  /\ Runs({"number"})
      /\ \/ ReadBits(job.handle, s) /\ Return("value", Typed(JobType, Number(Ones(last'.value))))
         \/ ~CanReadBits(job.handle, s) /\ Fail /\ UNCHANGED vars
      /\ InCall

\* read_bytes and write_bytes move pieces of at most MAX_ENDIAN_BYTES bytes.
PieceLength ==
  LET left == job.plan.len - Len(job.done)
  IN  IF left < 2 * WORD_BYTES THEN left ELSE 2 * WORD_BYTES

\* The next bytes of a write, after a variant that starts from the front again.
FirstPiece(n) == SubSeq(job.plan.data, 1, n)
NextPiece(n) == SubSeq(job.plan.data, Len(job.done) + 1, Len(job.done) + n)

ReadPiece ==
  LET h == job.handle
      n == PieceLength
  IN  /\ Runs({"bytes", "text"}) /\ n > 0
      /\ \/ Read(h, n)
            /\ GoOn(job.done \o [i \in 1 .. n |-> memory[DeviceOf(h)][device_offset(h) + i - 1]])
         \/ ~Available(h, n) /\ Fail /\ UNCHANGED vars
      /\ InCall

WritePiece ==
  LET h == job.handle
      n == PieceLength
  IN  /\ Runs({"store"}) /\ n > 0
      /\ \/ Write(h, n, [i \in 0 .. n - 1 |-> NextPiece(n)[i + 1]]) /\ GoOn(job.done \o NextPiece(n))
         \/ ~Available(h, n) /\ Fail /\ UNCHANGED vars
      /\ InCall

LEB == {"uleb", "sleb"}

\* The bytes of a LEB128 number end with one whose top bit is 0, those of a C
\* string with a nul or at max_len.
Ended ==
  LET n == Len(job.done)
  IN  \/ job.plan.do = "c_string" /\ (n = job.plan.len \/ (n > 0 /\ job.done[n] = NUL))
      \/ job.plan.do \in LEB /\ n > 0 /\ job.done[n][GROUP] = 0

\* One read_u8; a debug build panics once a shift reaches the width of u64.
ReadByte ==
  LET s == BitRange(0, BYTE_BITS)
  IN  /\ Runs(LEB \cup {"c_string"}) /\ ~Ended
      /\ \/ /\ ReadBits(job.handle, s)
            /\ UNCHANGED cursor
            /\ \/ job' = [job EXCEPT !.done = Append(@, last'.value)]
               \/ /\ job.plan.do \in LEB /\ Shift(Len(job.done) + 1) >= BITS
                  /\ job' = [job EXCEPT !.done = Append(@, last'.value), !.state = "idle",
                                        !.outcome = "panic"]
         \/ ~CanReadBits(job.handle, s) /\ Fail /\ UNCHANGED vars
      /\ InCall

ResultOfBytes ==
  CASE job.plan.do \in {"text", "c_string"} -> trim_nul(job.done)
    [] job.plan.do = "uleb" -> uleb128(job.done)
    [] job.plan.do = "sleb" -> sleb128(job.done)
    [] OTHER -> job.done

\* All bytes are there, or none was needed.
Settle ==
  /\ \/ Runs({"bytes", "text", "store"}) /\ PieceLength = 0 /\ Return("value", ResultOfBytes)
     \/ Runs(LEB \cup {"c_string"}) /\ Ended /\ Return("value", ResultOfBytes)
     \/ Runs({"constant"}) /\ Return("value", Typed(JobType, 0))
     \/ Runs({"refuse"}) /\ Fail
     \/ /\ Runs({"nothing"}) /\ job.call = "value" /\ UNCHANGED cursor
        /\ job' = [job EXCEPT !.plan = ReadBytesPlan(job.about)]
     \/ Runs({"nothing"}) /\ job.call = "deref" /\ Return("nothing", <<>>)
     \/ Runs({"nothing"}) /\ job.call = "entry" /\ Fail
  /\ UNCHANGED vars
  /\ InCall

-----------------------------------------------------------------------------
\* What others do.

ForeignWrite ==
  /\ \E b \in ForeignBytes :
       /\ Store("elsewhere", b[1], b[2], 1, Filled(1, 1))
       /\ torn' = torn \cup {b}
  /\ UNCHANGED <<addressVars, cache, storing, ops, last, walkVars, cursor, job>>

SymbolRemap == RemapBus /\ UNCHANGED <<walkVars, accessVars>>

SymbolCall ==
  \/ \E n \in Symbols : ReadValue(n) \/ ReadRawBytes(n) \/ ValueCursor(n)
  \/ TryNext
  \/ Deref
  \/ \E data \in Payloads : WriteEntry(data)
  \/ DropCursor
  \/ \E s \in Streams : ReadStream(s)

SymbolStep ==
  \/ PassOver \/ Reach \/ WalkedOut
  \/ JumpTo \/ ReadNumber \/ ReadPiece \/ WritePiece \/ ReadByte \/ Settle

SymbolNext == SymbolCall \/ SymbolStep \/ ForeignWrite \/ SymbolRemap

SymbolSpec == SymbolInit /\ [][SymbolNext]_symbolVars

-----------------------------------------------------------------------------
\* Properties.

\* Bytes of the device that may have changed under the call, or that its handle
\* holds in an old state.
Disturbed(d, first, n) == {<<d, i>> : i \in first .. first + n - 1} \cap (torn \cup foreign[job.handle]) # {}

\* The bits a value of a type has, and where they start.
ValueBits(id) ==
  LET t == Types[id]
  IN  CASE t.shape = "bitfield" -> BitEnd(t.spec)
        [] t.shape = "pointer" /\ job.call # "deref" ->
             PointerBits(t, {IF job.call = "entry" THEN byte_len(job.about) ELSE job.about.size})
        [] OTHER -> Bytes(t.byte_size)

Returned(kinds) == job.state = "idle" /\ job.outcome = "value" /\ job.plan.do \in kinds

\* Whatever was called before, and although redirects moved the map between
\* the calls: a typed value is made of the bits of memory at its declared place
\* in its symbol, in the byte order of the device, unless others wrote them.  On
\* a big-endian device they are counted as read_bits counts them, from the most
\* significant bit of the first byte on.
ValuesFaithful ==
  Returned({"number"}) => \A w \in job.where :
    LET s == BitRange(job.bit, ValueBits(JobType))
    IN  \/ job.value = Typed(JobType, Number(Ones(SliceValue(
             [device_id |-> w.device, at |-> w.byte, slice |-> s]))))
        \/ Disturbed(w.device, w.byte, bits_to_bytes(s))

\* Piece by piece or byte by byte, and also when a later piece fails: the
\* handle stands behind the bytes that were moved, and these are the ones in
\* memory, in their order and without a gap; a write has put the first of its
\* bytes there and a value was returned only for all of them.
TransferInOrder ==
  job.state # "walks" /\ job # NoJob /\ job.plan.at = {} /\ job.plan.do # "number" =>
    \A w \in job.where :
      /\ DeviceOf(job.handle) = w.device
      /\ device_offset(job.handle) = w.byte + Len(job.done)
      /\ \A i \in DOMAIN job.done :
           \/ memory[w.device][w.byte + i - 1] = job.done[i]
           \/ Disturbed(w.device, w.byte + i - 1, 1)
      /\ job.plan.do = "store" => job.done = SubSeq(job.plan.data, 1, Len(job.done))
      /\ Returned({"bytes", "text", "store"}) => Len(job.done) = job.plan.len
=============================================================================
