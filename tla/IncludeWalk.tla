----------------------------- MODULE IncludeWalk -----------------------------
(***************************************************************************)
(* Which files IsaLoader reads: visited and stack of                       *)
(* src/src/loader/isa/loader.rs, for files asked for in any order.  In the *)
(* loader only a .coredef includes, and only .isa and .isaext files, so    *)
(* what comes twice is a file listed twice or loaded before.               *)
(***************************************************************************)
EXTENDS Integers, SequencesExt

CONSTANT Path  \* files

VARIABLES
  visited,  \* IsaLoader.visited: files that were asked for in this load
  stack,    \* IsaLoader.stack: files whose includes are being collected
  opened    \* history: the files read in this load, in order

walk == <<visited, stack, opened>>

WalkInit == visited = {} /\ stack = <<>> /\ opened = <<>>

\* Variant: what was visited by an earlier load counts.
ClearStack == visited' = visited /\ stack' = <<>> /\ opened' = <<>>

\* load_machine forgets the last load, which may have failed anywhere.
Clear == visited' = {} /\ stack' = <<>> /\ opened' = <<>>

\* Variant: only an include within itself is noticed.
OnStack(p) == p \in ToSet(stack)

\* visited.insert returns false.
Seen(p) == p \in visited

\* collect_documents, on a file that was visited: no documents.
Skip(p) == Seen(p) /\ UNCHANGED walk

\* On a file that is being collected: IncludeLoop.
ReportLoop(p) ==
  /\ ~Seen(p) /\ p \in ToSet(stack)
  /\ visited' = visited \cup {p}
  /\ UNCHANGED <<stack, opened>>

\* On any other file: it is read.
Open(p) ==
  /\ ~Seen(p) /\ p \notin ToSet(stack)
  /\ visited' = visited \cup {p}
  /\ stack' = Append(stack, p)
  /\ opened' = Append(opened, p)

\* Its includes are collected.
Leave ==
  /\ stack # <<>>
  /\ stack' = SubSeq(stack, 1, Len(stack) - 1)
  /\ UNCHANGED <<visited, opened>>

WalkNext == Clear \/ Leave \/ \E p \in Path : Skip(p) \/ ReportLoop(p) \/ Open(p)
WalkSpec == WalkInit /\ [][WalkNext]_walk

-----------------------------------------------------------------------------
\* collect_documents: in a load every file that is asked for is read once, a file
\* of an earlier load again, and what is being collected has been visited: the
\* test for an include loop, which comes second, never finds one.
WalkedOnce ==
  /\ \A i, j \in DOMAIN opened : opened[i] = opened[j] => i = j
  /\ {opened[i] : i \in DOMAIN opened} = visited
  /\ {stack[i] : i \in DOMAIN stack} \subseteq visited
=============================================================================
