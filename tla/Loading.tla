-------------------------------- MODULE Loading --------------------------------
(***************************************************************************)
(* IsaLoader: src/src/loader/isa/loader.rs.  A load reads a file and those *)
(* it includes, parses each one directive by directive, checks what the    *)
(* files declare and builds the machine.  A loader may be used for several *)
(* loads.  All files lie in one directory; a path is [name, ext], its      *)
(* extension in lower case.                                                *)
(***************************************************************************)
EXTENDS IncludeWalk, IsaDirectives

CONSTANTS
  BITS, BYTE, MAX_REDIRECTS, NameOrder,  \* of MachineDescription
  FileSets,  \* what the directory may hold: functions from paths to directives
  Entries,   \* files that are loaded
  MaxLoads   \* bound: loads of one loader

V == INSTANCE Validator
Description == INSTANCE MachineDescription
Semantics == INSTANCE SemanticProgram

VARIABLES
  files,         \* the directory
  phase,         \* "idle", "collect", "parse", "verify", "validate" or "build"
  entry,         \* the file that is loaded
  calls,         \* collect_documents under way: [kind, todo, base_seen]
  parsing,       \* the Parser: [path, rest, known, items, errors]; errors counts diagnostics
  known_spaces,  \* IsaLoader.known_spaces
  docs,          \* documents collected: [path, items]
  machine,       \* the machine of the last load, if it built one
  results        \* history: [entry, end, machine] of each load

loader == <<phase, entry, calls, parsing, known_spaces, docs, machine, results>>
vars == <<walk, files, loader>>

NoParser == [path |-> <<>>, rest |-> <<>>, known |-> <<>>, items |-> <<>>, errors |-> 0]

Init ==
  /\ WalkInit
  /\ files \in FileSets
  /\ phase = "idle" /\ entry = <<>> /\ calls = <<>> /\ parsing = NoParser
  /\ known_spaces = <<>> /\ docs = <<>> /\ machine = {} /\ results = <<>>

\* The load ends here, and leaves everything as it is.
EndLoad(end, built) ==
  /\ phase' = "idle"
  /\ machine' = built
  /\ results' = Append(results, [entry |-> entry, end |-> end, machine |-> built])
  /\ UNCHANGED <<entry, calls, parsing, known_spaces, docs>>

FailLoad(end) == EndLoad(end, {})

\* load_machine.
LoadMachine(e) ==
  /\ phase = "idle" /\ Len(results) < MaxLoads
  /\ Clear
  /\ known_spaces' = <<>> /\ docs' = <<>> /\ machine' = {}
  /\ entry' = e
  /\ calls' = <<[kind |-> "entry", todo |-> <<e>>, base_seen |-> FALSE]>>
  /\ phase' = "collect"
  /\ UNCHANGED <<files, parsing, results>>

-----------------------------------------------------------------------------
\* Collecting documents.

call == Last(calls)
Upper(c) == Append(SubSeq(calls, 1, Len(calls) - 1), c)
is_coredef(path) == path.ext = "coredef"

\* collect_coredef: one .isa file, and before any .isaext file.
Refused(path) ==
  call.kind = "coredef" /\ \/ path.ext = "isa" /\ call.base_seen
                           \/ path.ext = "isaext" /\ ~call.base_seen
                           \/ path.ext \notin {"isa", "isaext"}

Requested(path) ==
  Upper([call EXCEPT !.todo = Tail(@), !.base_seen = @ \/ path.ext = "isa"])

\* Variant: a directive that is wrong is tried again.
TryAgain(parser, rest) == parser

\* handle_parse_error.
AfterError(parser, rest) ==
  [parser EXCEPT !.rest = synchronize_directive(rest), !.errors = @ + 1]

\* collect_documents on the next file that is asked for.
Collect ==
  /\ phase = "collect" /\ call.todo # <<>>
  /\ LET path == call.todo[1]
     IN  IF Refused(path) THEN FailLoad("coredef") /\ UNCHANGED walk
         ELSE IF Seen(path)
         THEN /\ Skip(path)
              /\ calls' = Requested(path)
              /\ UNCHANGED <<phase, entry, parsing, known_spaces, docs, machine, results>>
         ELSE IF path \in ToSet(stack) THEN ReportLoop(path) /\ FailLoad("include-loop")
         ELSE /\ Open(path)
              /\ IF path \notin DOMAIN files THEN FailLoad("io")
                 ELSE /\ calls' = Requested(path)
                      /\ parsing' = [path |-> path, rest |-> FlattenSeq(files[path]),
                                     known |-> known_spaces, items |-> <<>>, errors |-> 0]
                      /\ phase' = "parse"
                      /\ UNCHANGED <<entry, known_spaces, docs, machine, results>>
  /\ UNCHANGED files

\* One turn of parse_document.
ParseDirective ==
  /\ phase = "parse" /\ parsing.rest # <<>>
  /\ \E r \in {parse_directive(parsing.rest, parsing.known, is_coredef(parsing.path))} :
       IF r.err = "lexer" THEN FailLoad("lexer")
       ELSE /\ parsing' =
                 IF Ok(r)
                 THEN [parsing EXCEPT !.rest = r.rest, !.known = Declares(r) @@ @, !.items = Append(@, r.v)]
                 ELSE AfterError(parsing, r.rest)
            /\ UNCHANGED <<phase, entry, calls, known_spaces, docs, machine, results>>
  /\ UNCHANGED <<files, walk>>

Includes(items) == LET includes == SelectSeq(items, LAMBDA item : item.kind = "include")
                   IN  [i \in DOMAIN includes |-> includes[i].path]
OnlyIncludes(items) == items # <<>> /\ Len(Includes(items)) = Len(items)

\* record_spaces.
Recorded(items) ==
  FoldLeft(LAMBDA known, item : IF item.kind = "space" THEN (item.name :> item.space_kind) @@ known ELSE known,
           known_spaces, items)

\* The end of the file: its includes are next.
EndDocument ==
  /\ phase = "parse" /\ parsing.rest = <<>>
  /\ LET coredef == is_coredef(parsing.path)
     IN  IF parsing.errors > 0 THEN FailLoad("parser")
         ELSE IF coredef /\ ~OnlyIncludes(parsing.items) THEN FailLoad("coredef")
         ELSE /\ known_spaces' = Recorded(parsing.items)
              /\ docs' = IF coredef THEN docs
                         ELSE Append(docs, [path |-> parsing.path, items |-> parsing.items])
              /\ calls' = Append(calls, [kind |-> IF coredef THEN "coredef" ELSE "plain",
                                         todo |-> Includes(parsing.items), base_seen |-> FALSE])
              /\ phase' = "collect"
              /\ UNCHANGED <<entry, parsing, machine, results>>
  /\ UNCHANGED <<files, walk>>

\* All its includes are collected.
Return ==
  /\ phase = "collect" /\ call.todo = <<>> /\ call.kind # "entry"
  /\ IF call.kind = "coredef" /\ ~call.base_seen THEN FailLoad("coredef") /\ UNCHANGED walk
     ELSE /\ Leave
          /\ calls' = SubSeq(calls, 1, Len(calls) - 1)
          /\ UNCHANGED <<phase, entry, parsing, known_spaces, docs, machine, results>>
  /\ UNCHANGED files

Collected ==
  /\ phase = "collect" /\ call.todo = <<>> /\ call.kind = "entry"
  /\ phase' = IF is_coredef(entry) THEN "verify" ELSE "validate"
  /\ UNCHANGED <<files, walk, entry, calls, parsing, known_spaces, docs, machine, results>>

-----------------------------------------------------------------------------
\* verify_coredef_compatibility: what extensions refer to is there before.

Members(items) == {i \in DOMAIN items : items[i].kind \in {"field", "form", "instruction"}}
FieldsAt(items) == {i \in DOMAIN items : items[i].kind = "field"}
SpacesOf(items) == {items[i].name : i \in {i \in DOMAIN items : items[i].kind = "space"}}

is_append_only(field) ==
  field.offset = {} /\ field.size_bits = {} /\ field.reset = {} /\ field.descr = {} /\ field.redirect = {}

PlacesOf(field) == {<<field.space, name>> : name \in ToSet(V!expand_field_names(field))}

\* record_base.
WithBase(state, items) ==
  [spaces |-> state.spaces \cup SpacesOf(items) \cup {items[i].space : i \in Members(items)},
   fields |-> state.fields \cup UNION {PlacesOf(items[i]) : i \in FieldsAt(items)}]

\* What an extension has declared in front of its item n.
DeclaredBefore(state, items, n) ==
  state.fields \cup UNION {PlacesOf(items[i]) : i \in {i \in FieldsAt(items) : i < n /\ ~is_append_only(items[i])}}

\* check_extension.
ExtensionFits(state, items) ==
  /\ \A i \in Members(items) : items[i].space \in state.spaces \cup SpacesOf(items)
  /\ \A i \in FieldsAt(items) :
       is_append_only(items[i]) => PlacesOf(items[i]) \subseteq DeclaredBefore(state, items, i)

WithExtension(state, items) ==
  [spaces |-> state.spaces \cup SpacesOf(items), fields |-> DeclaredBefore(state, items, Len(items) + 1)]

Compatible ==
  LET after[n \in 0 .. Len(docs)] ==
        IF n = 0 THEN {[spaces |-> {}, fields |-> {}]}
        ELSE {IF docs[n].path.ext = "isa" THEN WithBase(state, docs[n].items)
              ELSE WithExtension(state, docs[n].items) :
                state \in {s \in after[n - 1] : docs[n].path.ext = "isaext" => ExtensionFits(s, docs[n].items)}}
  IN  after[Len(docs)] # {}

Verify ==
  /\ phase = "verify"
  /\ IF Compatible
     THEN phase' = "validate" /\ UNCHANGED <<entry, calls, parsing, known_spaces, docs, machine, results>>
     ELSE FailLoad("compatibility")
  /\ UNCHANGED <<files, walk>>

\* The items of all documents, in order.
Items == FlattenSeq([i \in DOMAIN docs |-> docs[i].items])

Validate ==
  /\ phase = "validate"
  /\ IF V!validate(Items) = {}
     THEN phase' = "build" /\ UNCHANGED <<entry, calls, parsing, known_spaces, docs, machine, results>>
     ELSE FailLoad("validation")
  /\ UNCHANGED <<files, walk>>

\* ensure_program: blocks of semantics are parsed when the machine is built.
Compiled(item) ==
  IF item.kind \notin {"instruction", "macro"} THEN {item}
  ELSE IF item.semantics = {} THEN {[program |-> <<>>] @@ item}
  ELSE {[program |-> IF item.kind = "macro" THEN p ELSE <<p>>] @@ item :
          p \in UNION {Semantics!parse(block) : block \in item.semantics}}

AllCompiled ==
  LET after[n \in 0 .. Len(Items)] ==
        IF n = 0 THEN {<<>>} ELSE {Append(s, item) : s \in after[n - 1], item \in Compiled(Items[n])}
  IN  after[Len(Items)]

\* finalize_machine.
Finalize ==
  /\ phase = "build"
  /\ \E built \in {UNION {Description!from_documents(items) : items \in AllCompiled}} :
       IF built = {} THEN FailLoad("machine") ELSE EndLoad("built", built)
  /\ UNCHANGED <<files, walk>>

Step == Collect \/ ParseDirective \/ EndDocument \/ Return \/ Collected \/ Verify \/ Validate \/ Finalize
Next == Step \/ \E e \in Entries : LoadMachine(e)

\* A load runs in one thread, up to its end.
Spec == Init /\ [][Next]_vars
FairSpec == Spec /\ WF_vars(Step)

-----------------------------------------------------------------------------
\* Properties.  (IncludeWalk!WalkedOnce holds of the loads as well.)

Colon == [Eof EXCEPT !.kind = ":"]
InCoredef == is_coredef(parsing.path)

\* A directive that ends too early, so that its parser takes the ":" of the next
\* one, or that has a token in it which the lexer rejects.
Runs(directive, known) ==
  \/ \E r \in {parse_directive(Append(directive, Colon), known, InCoredef)} : ~Ok(r) /\ r.rest = <<>>
  \/ \E i \in DOMAIN directive : directive[i].kind = "unknown"

\* What a directive gives when it stands alone, after the spaces before it.
AloneAfter(state, directive) ==
  {IF Ok(r) THEN [state EXCEPT !.known = Declares(r) @@ @, !.items = Append(@, r.v)]
   ELSE [state EXCEPT !.errors = @ + 1, !.runs = @ \/ Runs(directive, state.known)] :
     r \in {parse_directive(directive, state.known, InCoredef)}}

Alone(directives) ==
  LET after[n \in 0 .. Len(directives)] ==
        IF n = 0 THEN {[known |-> known_spaces, items |-> <<>>, errors |-> 0, runs |-> FALSE]}
        ELSE UNION {AloneAfter(state, directives[n]) : state \in after[n - 1]}
  IN  after[Len(directives)]

\* parse_document resynchronizes after an error: a directive that is wrong costs
\* one diagnostic and hides none of the others, which give what they would
\* alone, as long as none runs into the next.
RecoveryIsLocal ==
  phase = "parse" /\ parsing.rest = <<>> =>
    \A alone \in Alone(files[parsing.path]) :
      alone.runs \/ (parsing.items = alone.items /\ parsing.errors = alone.errors)

\* load_machine may be called again, after a load that failed anywhere: the same
\* file loads alike, whatever the loader still holds of the load before.
LoaderReusable ==
  \A i, j \in DOMAIN results : results[i].entry = results[j].entry => results[i] = results[j]

\* Redirects as the machine can follow them: no field is declared twice, and
\* each names one field of a register space, not a subfield, no element of a
\* bank that is itself a redirect, and none that is shown by another name.
Targets(field) ==
  UNION {IF Len(r.path) # 1 THEN {}
         ELSE {<<space, r.path[1]>> : space \in IF r.space = {} THEN {field.space} ELSE r.space} :
           r \in field.redirect}

Followable(items, field) ==
  /\ field.display = {}
  /\ field.range = {} \/ field.redirect = {}
  /\ \E i \in DOMAIN items : /\ items[i].kind = "space" /\ items[i].space_kind = "register"
                             /\ items[i].name = field.space

SimpleRedirects(items) ==
  /\ \A i, j \in FieldsAt(items) : i # j => PlacesOf(items[i]) \cap PlacesOf(items[j]) = {}
  /\ \A i \in FieldsAt(items) : items[i].redirect # {} => Targets(items[i]) # {}
  /\ \A i, j \in FieldsAt(items) :
       Targets(items[i]) \cap PlacesOf(items[j]) # {} => Followable(items, items[j])

Resolves(x, p) ==
  \E index \in {{}} \cup {{n} : n \in Description!Analyzer(x)!Indices(x.spaces[p.space].registers[p.name])} :
    Description!Analyzer(x)!resolve(p, {}, index) # {}

\* ensure_redirect_target_defined lets no register into a machine that a program
\* cannot reach: what is declared resolves, through MAX_REDIRECTS redirects.
RegistersResolve ==
  SimpleRedirects(Items) =>
    \A x \in machine : \A p \in Description!Analyzer(x)!Everywhere : Resolves(x, p)

\* A load ends, whatever the files hold and whatever they include.
LoadReturns == phase # "idle" ~> phase = "idle"

\* "Appending subfield definitions can happen any time after initial field_tag
\* definition" (docs/spec/isa_language_specification.md): the field keeps its
\* size.
AppendsKeepSize ==
  \A x \in machine : \A i, j \in FieldsAt(Items) :
    LET field == Items[i]
    IN  /\ ~is_append_only(field) /\ is_append_only(Items[j])
        /\ Items[j].space = field.space /\ Items[j].name = field.name
        => x.spaces[field.space].registers[field.name].size_bits = field.size_bits
=============================================================================
