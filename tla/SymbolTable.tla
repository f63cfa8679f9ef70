----------------------------- MODULE SymbolTable -----------------------------
(***************************************************************************)
(* The table of a program's symbols: src/src/soc/prog/symbols, table.rs,   *)
(* builder.rs and query.rs.  A symbol is a record; an Option is a set of   *)
(* at most one value.  What nothing decides by (state, visibility, kind,   *)
(* storage, trust, section, info, byte_order) is left out of it.           *)
(***************************************************************************)
EXTENDS Naturals, Sequences

\* A table is [records, by_label, by_symbol_id]; the index of a record is its
\* SymbolHandle.  The pool of labels only makes labels small and is left out.
EmptyTable == [records |-> <<>>, by_label |-> <<>>, by_symbol_id |-> <<>>]

\* finish: the record of a builder.
NewSymbol(label) ==
  [label |-> label, symbol_id |-> {}, type_id |-> {}, runtime_addr |-> {}, file_addr |-> {},
   size |-> {}, binding |-> "local", sources |-> {}]

handles_by_label(table, label) ==
  IF label \in DOMAIN table.by_label THEN table.by_label[label] ELSE <<>>

\* A second symbol of one label is put behind the first, one of the same
\* symbol_id takes its place.
commit(table, symbol) ==
  LET handle == Len(table.records) + 1
  IN  [records |-> Append(table.records, symbol),
       by_label |-> [l \in DOMAIN table.by_label \cup {symbol.label} |->
                       IF l = symbol.label THEN Append(handles_by_label(table, l), handle)
                       ELSE table.by_label[l]],
       by_symbol_id |-> [i \in DOMAIN table.by_symbol_id \cup symbol.symbol_id |->
                           IF i \in symbol.symbol_id THEN handle ELSE table.by_symbol_id[i]]]

\* The table after a sequence of symbols.
Committed(symbols) ==
  LET after[n \in 0 .. Len(symbols)] == IF n = 0 THEN EmptyTable ELSE commit(after[n - 1], symbols[n])
  IN  after[Len(symbols)]

\* SymbolHandle::resolve_label and resolve_symbol_id, {} for None.
resolve_label(table, label) ==
  IF handles_by_label(table, label) = <<>> THEN {} ELSE {Head(handles_by_label(table, label))}
resolve_symbol_id(table, id) ==
  IF id \in DOMAIN table.by_symbol_id THEN {table.by_symbol_id[id]} ELSE {}

\* A query is a record with the Option of each filter.
Query == [binding |-> {}, label |-> {}, source |-> {}, runtime_addr |-> {}, file_addr |-> {}]

matches(query, symbol) ==
  /\ \A b \in query.binding : symbol.binding = b
  /\ \A l \in query.label : symbol.label = l
  /\ query.source \subseteq symbol.sources
  /\ query.runtime_addr \subseteq symbol.runtime_addr
  /\ query.file_addr \subseteq symbol.file_addr

\* The handles the iterator of a query returns.
iter(table, query) == {n \in DOMAIN table.records : matches(query, table.records[n])}
=============================================================================
