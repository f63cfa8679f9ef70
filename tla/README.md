# A TLA+ model of nanemu

`nanemu` (the crate under `src/src`) is an emulator framework: a system bus that maps addresses to
devices, processor snapshots that keep their registers in bus memory, machine descriptions loaded from
`.isa` files, a disassembler, an assembler and a semantic interpreter for them, a harness that executes
blocks of words, and typed symbols over memory.  This project models the program from the loader to the
harness and from the harness down to the bytes on the bus, checks the models with TLC and proves part of
them with TLAPS.

## 1. The system

| component | state | operations | what makes it correct |
|---|---|---|---|
| device bus (`soc/system/bus/device_bus.rs`, `range.rs`) | devices, name index, hashed buckets of ranges, range index, redirect index, id counter; five `RwLock`s | `register_device`, `redirect`, `remove_redirect`, `resolve`, `bytes_to_end` | no two ranges of one priority overlap; a redirect shadows the device below it; indexes and buckets agree; every range lies inside its device; a lookup is right at one instant; calls return |
| address handle (`bus/address.rs`) | resolved range, cursor, place of the last jump | `jump`, `jump_relative`, `advance`, `retreat`, `transact` | the cursor never leaves the bytes of its device |
| data handle (`bus/data.rs`) | an address handle and a cache of one or two words | `read`, `write`, `read_bits`, `write_bits` | a slice is read and written exactly; nothing else changes; the cache is never older than the handle's own writes |
| devices (`soc/device`) | `BasicMemory`: bytes behind an `RwLock` | `read`, `write`, byte order conversion | bounds, conversion round trips |
| core specification (`soc/core/specification.rs`) | cursor, registers, names, errors | `register`, `register_at`, `build`, `from_machine` | registers placed by the cursor are disjoint, the memory is long enough for every access |
| core state (`soc/core/state.rs`) | one memory on a private bus, one data handle | `read_register`, `write_register`, `read_bits_at`, `write_bits_at`, `zeroize` | it is a register file |
| execution harness (`soc/core/harness.rs`) | core state, machine, runtime, trace | `execute_block`, `read_register_value`, `write_register_value` | the trace tells what is executed; every instruction finds its operands bound |
| machine description (`soc/isa/machine`, `soc/prog/types/bitfield.rs`) | spaces, registers, forms, instructions, decode patterns | building, disassembling, assembling | decoding does not depend on where a buffer ends; a listing assembles to the word it came from |
| semantics (`soc/isa/semantics`) | programs, locals, call stack, registers, trace | parsing, analysis, evaluation, register access | what the analyzer accepts runs; frames are released; fields leave their register alone; the trace can be replayed |
| validator (`soc/isa/validator`) | spaces, fields and forms seen so far | checks of each item | what it accepts can be resolved by the machine |
| loader (`loader/isa`) | visited files, include stack, known spaces | `load_machine`: lexing, parsing, includes, `.coredef` rules | loads end; a file is read once; an error costs its directive only; a loader can be used again |
| types and symbols (`soc/prog`) | type arena, symbol table with its indexes | building types, committing and querying symbols, walking the values inside a type | a walk stays inside its type and returns what is declared, in order |
| symbol handles (`bus/symbol`) | a data handle, a walker and the last read of a cursor | `resolve_label`, `read_value`, `value_cursor`, `try_next`, `deref`, `write_bytes` | a value is the bits at its declared place |
| bus access extensions (`bus/ext`) | - | loops of reads and writes of a data handle: bytes, integers, C strings, LEB128 | the bytes move in order, and the cursor tells what was moved |
| `decode`, `exec`, `sched` | - | design documents only | - |

How they interact.  An address handle asks the bus to resolve on `jump` and keeps the answer; a data
handle accesses the device of that answer directly, without the bus; a core state owns a bus with one
memory and one data handle and does every register access through it.  The bus is shared between threads
(`Arc<DeviceBus>`); handles are `&mut` values, but several handles, on several threads, share devices.
The loader reads files, parses each with the spaces that the files before it declared, has the validator
check all items and hands them to the machine description, which parses and analyzes the semantics of
each instruction.  The harness owns a core state laid out from the machine; for each block it asks the
machine for the decoded words and, once more, for their listing, binds the operands of each instruction
and has the runtime evaluate its program, which reads and writes registers through the core state and
reports to a trace.  A symbol handle owns a data handle too: it looks a symbol up, walks its type and reads
each value through the extensions, which split long transfers into pieces.

The hard parts.  *Bus*: a call takes up to three locks and drops some before the answer is used; its
error path takes a lock its callers may hold; a range is inserted bucket by bucket and an insert may fail
half-way.  *Handles*: they keep answers that become stale; the bit cache and the read-modify-write of
`write_bits` are not atomic against other handles; slices cross words, chunks are words but devices are
not, two byte orders.  *Layout*: offsets are `u32` and wrap.  *Machine*: two readers of the same bytes
(decoder and listing, disassembler and assembler, analyzer and runtime, validator and register access)
follow rules of their own and have to agree.  *Runtime*: calls end in the middle.  *Loader*: directives
that break off, loads that fail and are tried again.  *Symbols*: the walker, the cursor and the reader each compute places in bits or bytes of their own; a transfer in pieces fails
half-way; the map moves between a walk and its reads.  `PROJECT.json` lists every such hazard at its line.

## 2. The modules

| module | models |
|---|---|
| `BusRanges` | a range, the two priorities, and `Best`: what a reader of a map finds at an address |
| `BusMap` | abstract: a map to which ranges are added unless they clash, and from which only redirects leave |
| `BusLookup` | abstract: questions to a map, each answered with the map of one instant |
| `DeviceBus` | `device_bus.rs` at the grain of its locks; refines `BusMap` and `BusLookup` |
| `AddressHandle` | `address.rs` over a map that changes by `BusMap`'s actions |
| `DataHandle` | `data.rs`, `basic.rs`, `endianness.rs`, on top of `AddressHandle` |
| `CoreLayout` | the arithmetic `specification.rs`, `state.rs` and `data.rs` share |
| `CoreSpec` | the builder of `specification.rs` |
| `RegisterFile` | abstract: named registers that keep what was written |
| `CoreState` | `state.rs`, composed with `DataHandle`; refines `RegisterFile` |
| `BitFields` | `bitfield.rs`: specifications of bit fields, reading and writing them |
| `RegisterSchema` | `machine/register.rs`, `semantics/register.rs`: registers, banks, labels, redirects, fields |
| `SemanticProgram` | `semantics/program.rs`, `expression.rs`: the parser of semantics and its trees |
| `SemanticAnalyzer` | `semantics/analyzer.rs`: the diagnostics of a program |
| `Semantics` | `runtime.rs`, `context.rs`, `bindings.rs`, `value.rs`, `trace.rs`, `machine/host.rs`: evaluation |
| `Interpreter` | `execute_program` as a state machine, one statement per step |
| `MachineDescription` | `machine/{mod,space,instruction,macros}.rs`: from documents to a machine and its decode patterns |
| `Disassembly` | `machine/{disassembly,format,assembly}.rs`: words to instructions, texts, and back |
| `Harness` | `harness.rs`, composed with `Disassembly`, `Semantics` and `RegisterSchema` |
| `IsaParser` | tokens to values: `parser/{parameters,space_context,spans,specification}.rs` |
| `IsaDirectives` | tokens to the item of one directive: `parser/{directives,space,space_context,semantics}.rs` |
| `Validator` | `validator/`, `space.rs`, `logic.rs`, `register.rs`: items to diagnostics |
| `IncludeWalk` | `visited` and `stack` of `loader.rs`, for files asked for in any order |
| `Loading` | `loader.rs` as a state machine, composed with `IncludeWalk`, the parser, `Validator`, `MachineDescription` |
| `SymbolWalk` | `prog/types` and the walker of `prog/symbols/walker.rs` |
| `SymbolTable` | `prog/symbols/{table,builder,query}.rs` |
| `SymbolAccess` | `bus/symbol` and the streams of `bus/ext`, composed with `DataHandle`, `SymbolWalk`, `SymbolTable` |
| `DeviceBusProofs`, `DeviceBusMapProofs`, `AddressHandleProofs`, `DataHandleProofs`, `CoreSpecProofs`, `CoreStateProofs`, `IncludeWalkProofs`, `SymbolAccessProofs` | the theorems about the modules they name |
| `MC...` | the instances TLC checks |

**DeviceBus.**  One step of a thread runs from the acquisition of a lock to the place where it must
wait for the next one.  Only the write guards of `devices`, `name_index` and `buckets` are held across
such a place; they are the variable `owner`.  All other guards live inside one step.  `register_device`
is `BeginRegister`, `CheckName`, `LockDevices`, `PushDevice` and then `AddRange` or `AddRangeConflict`
followed by `ReportConflict`; `redirect` is `BeginRedirect`, `FindSegment`, `AimRedirect`, `AddRange` or
`AddRangeConflict`, `RecordRedirect`; `remove_redirect` is `BeginRemove`, `DropRange`, `ClearBuckets`;
`resolve` and `bytes_to_end` are `BeginResolve`, `FindSegment`, `FindDevice`.  `std`'s `RwLock` is not
reentrant; a thread that asks for a lock it holds waits for ever in the model (the documentation allows
a panic instead, which would poison the guards).  A removed bucket entry and an empty one are the same
to every caller and are both `<<>>`.  Device ids count from 1.  Error texts are left out.

**AddressHandle.**  The map changes by `BusMap!Add` and `BusMap!Remove`, which `DeviceBus` is shown to
implement (`ImplementsMap`), and `jump` uses `Best`, which `resolve` is shown to compute at one instant
(`ResolvesAtomically`).  So every call is one step.  A call that fails changes nothing.

**DataHandle.**  `read`, `write` and `read_bits` access the device once under the device's own lock and
are one step.  `write_bits` reads (`BeginWriteBits`) and writes (`StoreBits`), with other handles in
between: `BasicMemory` does not implement the transaction hooks.  A refused `read_bits` keeps the cache
and is a stuttering step; a refused `write_bits` drops it (`RejectWriteBits`).  Bytes are functions from
bit numbers to bits, so that `encode_bits`, `decode_bits` and the shifts of a slice are what they are in
the code, for bytes and words of any size.  The offset of a slice has `U8` values and its length `U16`;
their sum wraps at `U16` (`SliceEnd`), as in a release build.  `last` and `foreign` are history variables.

**CoreSpec, CoreState.**  Offsets wrap at `U32`, as a release build wraps them (the build files do not
turn overflow checks on; a debug build panics instead).  `CoreState` composes `DataHandle`: each
operation is the sequence of handle calls of the code, with `job` as its program counter.  A register of
more than 65535 bits is refused by `narrow_bit_len` before any access (`Narrow`).

**BitFields, RegisterSchema.**  An integer is a TLA+ integer; `AsU64`, `AsI64`, masks and shifts are
those of words of `BITS` bits, so that wrapping, sign and shifts by a whole word are what they are in the
code.  The bounds of a bit slice in a program are cut to `U32` behind their check (`Sliced`).  A result that may be an error is a set of at most one value.  The registers of the snapshot are
the function `regs`; that `CoreState` behaves like such a function is what `ImplementsRegisterFile`
checks.

**SemanticProgram, SemanticAnalyzer, Semantics, Interpreter.**  A parser takes tokens and returns what it
read with the tokens left; evaluation takes an expression, an environment and the mutable world `m`
(registers, trace, frames) and returns value, world and error, in the order in which the code evaluates,
so that what an expression has done before it fails stays done.  `Interpreter` is `Begin` (a new context
and a frame), `ExecuteStatement` for each statement of the outermost program, and `Finish`; a nested call
runs inside the step of the statement that makes it, as nothing else can run in between.

**MachineDescription, Disassembly, Harness.**  `from_documents` builds the machine item by item and
derives masks, patterns and decode spaces.  Texts of listings are sequences of pieces (labels and numbers
with the base they are written in).  `Harness` is `BeginBlock` (both readings of the bytes),
`ExecuteInstruction` (fetch event, binding, program), `EndBlock`, and `write_register_value`, with which
the owner of a harness writes between blocks.

**IsaParser, IsaDirectives, Validator, IncludeWalk, Loading.**  A file is a sequence of tokens; one token
kind stands for what the lexer rejects.  A parser returns its error, its value and the tokens it has not
consumed, because recovery starts from there.  `Loading` is `LoadMachine`, `Collect` (the next include),
`ParseDirective` (with `synchronize_directive` behind an error), `EndDocument`, `Return`, `Collected`,
`Verify` (the `.coredef` rules), `Validate` and `Finalize`; every step may end the load and leaves the
loader as it stands.  The order of the walk is that of the code's recursion, made explicit in `calls`.
All files lie in one directory.

**SymbolWalk, SymbolTable, SymbolAccess.**  The arena of types and the table of symbols are finished when
symbols are read and are constants.  A `SymbolWalker` is a stack of frames; one step pops a frame and
pushes its parts or returns it as an entry (`WalkStep`).  A call of a `SymbolHandle` or of its cursor is a
`Plan`, a jump and accesses, which `JumpTo`, `ReadNumber`, `ReadPiece`, `WritePiece`, `ReadByte` and
`Settle` carry out one device access at a time; `ForeignWrite` and `SymbolRemap` may come in between.  A
cursor borrows the handle: while one lives, nothing else uses the handle.  Streams read with a handle of
their own, `Tool`, made for one call.  A value is a number or a sequence of bytes; scaling by fixed point,
labels of enumerations and the decoding of texts and floats are left out of it.

Definitions introduced as a *variant* of the next one (`CoverFirst`, `KeepCache`, ...) describe a
plausible slip in the code.  No specification uses them; each is a mutation that a property has to catch.

## 3. What the runs check

| run | specification | result |
|---|---|---|
| `safety` | bus, two threads, four calls | types, overlap freedom, order of priorities, agreement of `range_index`, `redirect_index` and buckets, device windows, refinement of `BusMap`, with overlaps, rejected ranges and races |
| `lookup` | bus, two threads, five calls, fairness | `resolve` is linearizable (refinement of `BusLookup`), every call returns |
| `deadlock` | bus | **violated**: registering over another device waits for a lock the call itself holds |
| `moves` | address handle | the cursor stays inside the device, `jump_relative` finds its way back, and cursor and map disagree only under an overlay |
| `access` | data handle, two handles, two devices | slices are read exactly on both byte orders and written exactly on a little-endian device; nothing outside the slice changes; only another handle's write makes the cache stale |
| `layout` | core specification | registers at the cursor are disjoint from earlier ones, every register's chunk is in memory unless an offset wrapped |
| `packed` | core state | every access reaches its register; the snapshot implements a register file |
| `semantics` | interpreter | a program accepted by the analyzer meets no missing name; programs print and parse back; frames are released on every way out; host arithmetic and flags are exact; a statement changes no bit that its trace does not name; the trace replays to the registers and shows what they hold |
| `machine` | harness | each fetch event tells the instruction that runs; a buffer may be decoded in pieces; a listing assembles to its word; no name of an instruction is unbound |
| `loading` | loader, fairness | every load ends; a file is read once; an error costs one directive; a second load is not affected by the first; every register of a machine resolves |
| `append` | loader | **violated**: a directive that appends subfields to a register replaces the register |
| `symbols` | symbol handles and streams, two devices | values are the bits at their declared place; transfers move bytes in order, also up to the piece that fails; entries come in declaration order and stay inside their symbol |

The violated properties are what a document of the repository says; the findings in `PROJECT.json` quote
them.

Some invariants name what they leave out, and each exception is a behaviour of the code that section 5
lists: `RecoveryIsLocal` a directive that breaks off before its last token, `RegistersResolve` redirects
of kinds that the validator accepts and no access can follow, `AssemblesBack` operands that are printed in
a form `parse_numeric` does not read, `FetchTruthful` the words behind one that no instruction matches,
`NamesBound` instructions whose own operands are not in their form, `ReadsTheSlice` and the reads of
`ImplementsRegisterFile` slices longer than a number (`FitsNumber`, 128 bits).

Bounds.  *Bus*: eight addresses in buckets of two, so that a range of three addresses spans two or three
buckets, two of them can meet in one bucket only, and one can end at the last address; two threads, since
every property relates at most two calls; four (five) calls, enough for two devices, a redirect and its
removal, or for a redirect to a redirect that is removed meanwhile.  The calls of `lookup` reject ranges
only in their first bucket: after a partial insert `resolve` does answer with a range that was refused.
*Handles*: a byte has two bits and a word two bytes, so slices start inside bytes, fill words, cross words
and exceed the window, and one of 15 bits, with lengths below 16, has an end that wraps; a device of nine
bytes has an incomplete last word; three accesses are enough to
fill a cache, make it stale and use it.  *Layout*: `u32` scaled to 5 bits and three registers reach
wrapping.  *Core state*: six registers: one crosses words, one starts so late in a word that its slice
exceeds the window, the end of one wraps, and one has more bits than a length can tell; six operations.  *Semantics*: words of 6 bits; every two operators
nested both ways, every kind of target, host helpers at widths below, at and above the word, an endless
macro against a limit of 4 frames, twelve pairs of arguments (with the smallest integer, -1 and carries
among them) and three contents of the registers.  *Machine*: words of 8 bits, bytes of 4, so that one
space has words of one byte and the other of two, in opposite byte orders; blocks of up to four bytes;
seven instructions (overlapping patterns, a nested form, sign extension, an endless macro, an operand
that its form does not have); two blocks or writes.  `DocumentsBuild` assumes, and TLC evaluates, that the
machine of the run is the one `from_documents` builds.  *Loader*: 32 directories of a base file, an
extension and a core, each wrong in one way; three entries; two loads of one loader.  *Symbols*: bytes of four bits, words of two bytes, numbers of eight bits,
pieces of four bytes, so that a transfer of six bytes has two pieces and a LEB128 number outgrows its word;
a device of three bytes, whose last byte is no word; an overlay that comes and goes; one byte that others
write; types of every shape, nested, empty, laid over each other, and one without a length; ten accesses.

Fairness.  `CallsReturn` assumes weak fairness of each thread's steps: the scheduler runs every thread
that can run, and a waiter on an `RwLock` gets a lock that stays free.  No fairness is assumed of a thread
making its next call.  Guards are released by the step that ends the call, so a waiter never needs strong
fairness in a bounded number of calls.  The property exempts the time after some thread has met an
overlap, because from there `deadlock` shows that calls may block.  `LoadReturns` assumes weak fairness of
the loader's step: a load is one call of one thread, which nothing but its own work can hold up.

Deadlock checking is off where the program may stop: the bus, the core state, the interpreter, the
harness and the loader (a bounded number of calls, and the blocked calls above) and the layout (after
`build`).

## 4. What is proved

Every theorem holds for all values of the constants that satisfy the named assumption of its module.  The
assumptions say what the Rust types and constructors already say: arguments are of their types, sizes (those
of floats among them) are positive, floats and bit fields are no longer than a `u64`, a range is not empty
and lies inside its device, a snapshot's memory is the one `CoreState::new` allocates, `u8` and `u16` hold
what they hold.  TLC evaluates them on every run.

`DeviceBusProofs` proves, for every set of threads, every address space, bucket size and set of
arguments (under `BusAssumption`, which only says that arguments are of their Rust types):

* `TypeCorrect`: `Spec => []TypeOK`.  `TypeOK` includes `LocalsOK`, what each local variable holds at
  each place of each call; without it the step that inserts a range could not be shown to insert a range
  that is not empty or whose end fits the address space.
* `OverlapFree`: `Spec => []NoOverlapAtPriority`.  Inductive with `TypeOK`: a bucket changes only by
  `insert_segment` of a segment that conflicts with nothing in it, or by `Retain`.
* `PriorityOrder`: `Spec => []FirstHitIsTopPriority`.  The inductive invariant is stronger in one place:
  `insert_segment` puts a segment before the first element of lower priority, and everything in front of
  that place has at least its priority.
* `IdsNeverReused`: `Spec => []SegmentIdsUnique`.  Not inductive as it stands: an id is drawn from the
  counter some steps before its segment enters a bucket.  `IdsFresh` follows the ids in between: a thread
  at `add_range` holds an id below the counter, in no bucket, and of no other thread.

The lemmas below them say what `insert_segment` and `Retain` do to a sequence (`InsertElements`,
`RetainElements`), and that every step changes a bucket in one of these two ways (`BucketSteps`).

`DeviceBusMapProofs` proves what relates the tables of the bus to each other:

* `WindowsKept`: `Spec => []DeviceWindows`.  The new part is a redirect: `AimRedirect` computes a device
  offset from the segment it found some steps earlier, and a later `add_range` inserts it.
* `MapInvariant`: `Spec => []MapInv`, the inductive invariant of the rest.  `IndexComplete`
  (`RangesComplete`) is not inductive alone: an insert touches one bucket after another and may be refused
  in any of them, and `Retain` empties buckets of an id.  `MapInv` therefore says where an id can be:
  `IdsDrawn` (below the counter), `InHand` (a thread that is about to insert, record or remove a segment
  holds one that the tables do not know yet, or no longer), `OneSegmentPerId`, `DevicesStay`,
  `IndexedRanges` (what `range_index` says of an id is in the buckets, whole) and `DroppedUnindexed`.
* `DevicesStayMapped`: `Spec => DeviceRangesPermanent`, an action property: no step of any thread unmaps a
  range of a device.
* `RedirectsStayRemovable`: `Spec => []RedirectsRemovable`, by `TakenOnce`: a redirect that
  is inserted but not recorded yet is in `range_index`, and no other thread records or removes it.
* `MapImplemented`: `Spec => ImplementsMap`, the refinement of `BusMap`, with the mapped ranges read off the
  buckets.  The step that matters is `AddRange`: each bucket compares a new range only with what hashes to
  it, and `CommonBucket` shows that two ranges with a common address meet in some bucket.  A range
  counts as mapped when it is in all its buckets, so a refused one, which stays behind in the buckets before
  the one that refused it, never does.
* `LookupsAtomic`: `Spec /\ [][RefusedAtOnce]_vars => ResolvesAtomically`, the refinement of `BusLookup`.
  `RefusedAtOnce` says that a call meets an overlap in the first bucket it visits, which is how the run
  `lookup` chooses its calls; without it the property is false (section 5).  `HeldWhole` is the invariant
  it buys: a range is in all the buckets of its addresses or in none, and a removal that has begun will
  take it out of all of them, so what one bucket answers is what the whole map held.
* `DeadlockOnlyByOverlap`: `Spec => []StuckOnlyByOverlap`.  `GuardsKept` lists which guards a thread keeps
  while it waits for another; in that order the locks cannot wait in a circle, except through the call that
  met an overlap and keeps the buckets while it waits for the devices: the circle of the run `deadlock` is
  the only one.

`AddressHandleProofs` proves, for every set of handles, devices, ranges and redirects:

* `AddressTypeCorrect`, `CursorInWindow` and `JumpsCanReturn`: `AddressSpec => []` of `AddressTypeOK`,
  `HandleInWindow` and `OriginInRange`.  They share the inductive invariant `PlacesOK`: the cursor of a
  place is inside its range or at its end, and the last jump ended inside the range.  It speaks of the
  range a handle holds and never of the map, which is why mapping and unmapping cannot disturb it.
* `CursorResolvesAgain`: `AddressSpec => []DivergesOnlyUnderOverlay`, from `RangesStayApart`: the map has no
  two ranges of one priority with a common address, so the best range at a cursor is its own or a higher
  one.

`DataHandleProofs` proves, for every size of a byte and of a word, any slices, and any number of handles on
devices of either endianness:

* `DataInvariant`: `Spec => []DataInv`, and from it `ChunksStayInDevice`.  `StoringOK` is the part that
  makes the two steps of `write_bits` one operation: whatever happens in between, the handle stands where it
  stood, in front of the whole slice, and the chunk it holds is the one of that slice.
* `CacheStaleOnlyByOthers`: `Spec => []StaleOnlyByOthers`, with `DataInv` inductive as it stands.
* `ReadBitsExact`: `Spec => []ReadsTheSlice`.  `ChunkBit` and `MemoryBit` name bit *m* of a chunk and of a
  device; on a big-endian device both count from the other end, which `MirroredBit` settles once.
  `SliceInChunk` places the slice in its chunk.  That needs the end of the slice not to wrap: a slice that a
  number holds starts less than a word and a `U8` into its chunk and has at most two words, and
  `DataAssumption` has `U8` and three words fit `U16` (256 + 3 * 64 against 65536).
* `WriteBitsLands` and `WriteBitsStaysInSlice`: `Spec => []WritesTheSlice` and `Spec => WriteBitsFrame`, for
  little-endian devices (section 5 says what the code does on others).  A longer slice never gets as far:
  `BeginWriteBits` has `FitsNumber` as a guard.  `UpdatedBit` is the chunk that
  `write_bits` puts back; a bit around the slice keeps its value where the cached byte was fresh, and that is
  `StaleOnlyByOthers`.

The step lemmas are about `AnyStep`, the steps of handles with arguments of any value, so that `CoreState`,
which calls with arguments of its own, can use them.

`CoreStateProofs` proves, for every layout that fits its memory:

* `CoreInvariant`: `CoreSpecification => []CoreInv`: in a call on a register the handle stands at its first
  byte, between calls it is idle, and as no other handle has the private bus, no cached byte is stale.
* `RegistersInReach`: `CoreSpecification => []RegistersReachable`.  The chunk is in memory because memory
  and chunk are whole words (`WholeWords`, `RegisterLoadable`).
* `RegisterFileImplemented`: `FileOK /\ CoreSpecification => ImplementsRegisterFile`, the refinement of
  `RegisterFile`.  What is read of a register longer than a number is left out of it.  `FileOK` asks for two things the code does not: a little-endian snapshot, and registers
  that share no bit.  The cursor places registers that way (`AutoApart`); `register_at` may lay one over
  another, and then writing one does change the other.

`CoreSpecProofs` proves, for every byte size, word size, limit of the offsets and set of arguments:

* `LayoutInductive`: `Spec => []LayoutInv`.  While the layout grows, `CursorBehindAll` keeps the cursor
  behind every register, fixed ones included; `EndsInRange` says that ends are exact unless an addition
  wrapped; `TotalCovers` is what `build` measures.  `build` only permutes, so what holds of every register
  holds after it.
* `AutoApart`, `NamesUnique` (no layout that `build` accepts has a name twice) and `LayoutTypeCorrect` are
  parts of it.
* `LayoutBacked`: `Spec => []RegistersBacked`.  Besides `LayoutInv` it needs the lemma `ChunkBacked`: the
  padded memory is a whole number of words that holds every bit of the layout (`MemoryWords`), and a
  register that ends in a word has its chunk end there.  The premise that nothing wrapped cannot be dropped
  (section 5).

`IncludeWalkProofs` proves, for any set of files, asked for in any order and any number of times:

* `FilesWalkedOnce`: `WalkSpec => []WalkedOnce`.  `WalkedOnce` is inductive with the types of its three
  variables (`Inv`): a file that is opened was not visited, so it is new to `opened` and to `stack`.
* `LoopNeverReported`: no step reports an include loop.  What is on the stack has been visited, and the
  test for a visited file comes first.

`SymbolAccessProofs` proves, for any arena and table, and any symbols, streams and foreign writes:

* `WalkStaysInRoot`: `WalkSpec => []EntriesInRoot`.  Inductive with the types of the walk: a popped frame
  lies inside the root, and the parts pushed for it lie inside the frame (`PartsInside`), for members of
  aggregates and for elements of sequences.  `WellLaid`, the premise inside the property, is what debug
  information without parts that stick out of their type satisfies.
* `WalkKeepsOrder`: `WalkSpec => []WalkInOrder`.  `OrderInv`: the entries returned so far, followed by what
  the frames of the stack stand for (`Pending`), are what is declared of the root; a popped frame is replaced
  by its entry and its parts, which stand for the same (`PendingParts`).  `Declared` and `Concatenated` are
  recursive functions; that they exist and compute what they say is shown by finite approximations
  (`DeclaredBy`, `ConcatenatedBy`), with the parts of a type before the type in the arena.
* `AccessImplementsWalk`: `SymbolSpec => WalkSpec`: a `SymbolHandle`, its cursors and everything around
  them take only the steps of the walker.  `EntriesStayInRoot` and `EntriesInOrder` follow.
* `AccessInvariant`: `SymbolSpec => []AccessInv`, the inductive invariant of the accesses.  `BusInv` is the
  bus below: what `DataHandleProofs` and `AddressHandleProofs` keep invariant, with handles that are idle
  between their calls and memory that holds bytes.  `CallOK` speaks of the call under way: its plan does not change until it jumps (`CallShape`), it has moved at most what it planned and, if it
  writes, only leading bytes of its data (`CallDone`), and when it has jumped its handle stands right behind
  the bytes it has moved, each of which memory still holds unless others wrote it since (`CallPlace`).
  `FreshTool` says that what the handle of the streams has in its cache is stale only in such bytes.
* `MovesInOrder`: `SymbolSpec => []TransferInOrder`, a consequence of `CallOK`.
* `TypedValuesFaithful`: `SymbolSpec => []ValuesFaithful`.  A value of at most one piece is read by one
  `read_bits` of the slice that the plan names (`NumberPlanned`), so `ReadBitsExact` of the data handle
  carries over (`NumberFaithful`); `ValueInv` keeps what was returned true until the next call, although
  others write and the map moves, since what they write is remembered as torn (`StaysFaithful`).

Only model-checked:

* liveness (`CallsReturn`, `LoadReturns`), which needs fairness and `ENABLED`;
* everything about semantics, machine, parser and loader besides `WalkedOnce`: the grammar of programs and
  directives, the chain of redirects and evaluation are `RECURSIVE` operators, and a module that declares or
  reaches one is out of the provers' reach.  `IncludeWalk` is a module of its own so that its part of the
  loader can be proved about.

## 5. What the code does differently than one might expect

Met while modelling; the models contain each of them.  Two have runs (`deadlock`, `append`); the others are
left out of the properties by an explicit premise or have no property.

* *Bus.*  Registering a device over another one waits for a lock the same call holds
  (`device_bus.rs:56`, run `deadlock`).  A redirect that is refused in a later bucket still resolves in the earlier ones
  (`device_bus.rs:112`).  Two threads can register one name (`device_bus.rs:153`).
* *Handles.*  `write_bits` undoes a concurrent write to other bits of its chunk (`data.rs`); on
  big-endian devices it writes other bits than `read_bits` reads: it shifts the value by the slice's offset
  from the least significant bit, where `read_bits` counts from the most significant one (`data.rs:129`).
  The only test of it, "bit range should retain written value" (`data.rs:408`), has a little-endian device.
  The end of a slice is a sum of `u16` (`data.rs:182`): in a release build a slice of nearly 65536 bits
  passes for a short one.  Its read returns up to 128 bits that are no slice and moves the cursor by the
  whole length; its write panics in `encode_bits` before it touches the device.  A debug build panics at
  the sum.
* *Layout.*  An offset at the end of the `u32` range wraps, and the register is accepted with too little
  memory (`specification.rs:64`).
* *Registers.*  Appending subfields, or declaring an existing register again as a redirect only, replaces
  the register (`machine/space.rs:100`, run `append`).  The width of an alias of an alias is that of the
  space, as `resolve_register_bit_width` looks through one redirect.  Accepted by the validator, but
  failing at every access: redirects to a subfield, to a space that holds no registers, to an element of a
  bank that is itself a redirect or is shown by a `disp` pattern, and chains of more than eight.
* *Decoding and listing.*  `execute_block` pairs decoded instructions with listed words by position; behind
  a word that no instruction matches, fetch events name the wrong word.  Of two patterns equally specific
  the last wins.  A logic space of word size 0 is not rejected.
* *Assembling.*  A negative sign-extended operand does not fit its field again, and an operand of kind
  `reg` without a register is printed `r<n>`, which `parse_numeric` does not read.
* *Semantics.*  The trace of a write shows the value before it is cut to the register, and an alias of a
  bank is traced without its index.  An instruction may list operands that its form does not have: the
  analyzer accepts it and the runtime fails.  A bit slice bound of 2^32 or more is cut to `u32` after the
  bounds were compared (`program.rs:544`).  The analyzer compares the names of subfields exactly
  (`analyzer.rs:332`) where the runtime ignores their case; the case of names is not modelled.  A statement that starts with a tuple is read as the arguments
  of a call at the end of the line before, unless `;` divides them.
* *Parsing.*  A directive that breaks off takes the `:` of the next one with it, because `expect` consumes
  before it compares (`parser/specification.rs:80`), although the parser's notes promise that "later
  directives keep parsing".  A lexer error met while synchronizing is swallowed.  Braces in comments and
  strings count when a block is captured.  Sizes written with `+` in a range are consumed and then refused.
* *Validator.*  Of several `word=` the validator takes the first and the machine the last.
* *Loader.*  `IncludeLoop` is never reported (theorem `LoopNeverReported`).  No load comes near it:
  `:include` is accepted in `.coredef` files only and is never optional (`parser/directives.rs:45`), and a
  `.coredef` may include only `.isa` and `.isaext` files, so that one that includes itself is refused for its
  extension.  An extension that is listed twice is skipped without a word.
* *Symbols.*  `SymbolRecord.byte_order` is read by nothing, although "byte-order metadata lives on the symbol
  so readers know how to interpret memory ranges" (`prog/symbols/architecture.md:149`): values are read in the
  byte order of the device.  `write_bytes` on the entry of a bit field writes whole bytes from its first byte on.  Bit
  fields of big-endian devices are read from the most significant bit, although their offsets count from
  the least.  A pointer is read as wide as its symbol where that is wider.  Bits read twice without a jump
  of another kind in between come from the cache, also when another handle has written them.  A cursor does
  not compare its entries with the size the symbol was prepared with.  A LEB128 number longer than `u64`
  wraps its shift in a release build and panics in a debug build.  A number in the last, incomplete word of
  a device cannot be read as bits and is refused.

## 6. Not modelled

* The lexers (characters to tokens), the texts of errors, diagnostics, listings and traces, and the spans
  of diagnostics: no property is about characters.  Files outside one directory and read errors other than
  a missing file.
* The file-like adapters of `data.rs`, which only call `read` and `write`.
* Of `soc/prog`: `DynamicAggregate` with its expression programs and `MemberCursor`, which the program has no
  user of, and the string pools, which only intern names.
* Of `bus/ext`: the conversion of floats, the integer writers and `skip`, which are single calls of `write`
  and `advance`, and the formatting of dumps and digests.
* `decode`, `exec` and `sched` are documents only; `obsolete/dotnet` is the superseded C# code.

Next: the grammar of programs and the evaluation of expressions as recursive functions, so that the
analyzer's promise (`AnalysisSound`) can be proved.
