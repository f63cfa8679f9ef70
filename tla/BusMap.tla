------------------------------- MODULE BusMap -------------------------------
(***************************************************************************)
(* What a memory map promises, without buckets, locks or threads: a set of *)
(* ranges in which no two ranges of one priority share an address, from    *)
(* which only redirects ever leave.  bus/architecture.md, sections 2 and 3.*)
(***************************************************************************)
CONSTANTS
  Permanent(_),  \* the ranges that never leave the map: those of devices
  Clash(_, _)    \* same priority and a common address

VARIABLE ranges

Init == ranges = {}

\* Add without looking at what is mapped already.
AddUnchecked(r) == ranges' = ranges \cup {r}

Add(r) ==
  /\ \A s \in ranges : ~Clash(r, s)
  /\ ranges' = ranges \cup {r}

Remove(r) ==
  /\ ~Permanent(r)
  /\ ranges' = ranges \ {r}

Next == (\E r \in ranges' : Add(r)) \/ (\E r \in ranges : Remove(r))

Spec == Init /\ [][Next]_ranges
=============================================================================
