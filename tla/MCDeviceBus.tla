----------------------------- MODULE MCDeviceBus -----------------------------
(***************************************************************************)
(* Instances of DeviceBus for TLC: an address space of eight addresses in  *)
(* buckets of two, so that a range of three addresses always spans at      *)
(* least two buckets.                                                      *)
(***************************************************************************)
EXTENDS DeviceBus

Register(n, size, at) == [name |-> n, span |-> [start |-> 0, end |-> size], base |-> at]
RedirectTo(source, n, target) == [source_start |-> source, size |-> n, target_start |-> target]
Removal(source, n) == [source_start |-> source, size |-> n]

\* Two devices side by side, one over both, one past the end of the address
\* space and one without addresses.
MixedRegistrations ==
  {Register("ram", 3, 0), Register("rom", 3, 3), Register("ram", 2, 2),
   Register("flash", 2, 6), Register("none", 0, 6)}

\* Redirects inside a device, across the seam of both, onto each other, of
\* size zero and past the end of their target.
MixedRedirections ==
  {RedirectTo(4, 2, 0), RedirectTo(2, 3, 0), RedirectTo(6, 1, 4), RedirectTo(0, 0, 0),
   RedirectTo(4, 2, 2)}

MixedRemovals == {Removal(4, 2), Removal(2, 3), Removal(6, 1)}
MixedLookups == {2, 4}

\* No range is rejected after it entered a bucket: overlapping redirects start
\* in the same bucket.
CleanRegistrations == {Register("ram", 3, 0), Register("rom", 3, 3)}
CleanRedirections == {RedirectTo(4, 2, 0), RedirectTo(4, 1, 4), RedirectTo(1, 2, 3)}
CleanRemovals == {Removal(4, 2), Removal(4, 1), Removal(1, 2)}
CleanLookups == {1, 4, 5}

\* One registration on top of another.
StackedRegistrations == {Register("ram", 3, 0), Register("rom", 3, 2)}
None == {}
=============================================================================
