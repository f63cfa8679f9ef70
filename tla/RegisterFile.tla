---------------------------- MODULE RegisterFile ----------------------------
(***************************************************************************)
(* What a processor snapshot promises: named registers, each of which      *)
(* keeps the value last written to it until it is written or zeroed again. *)
(***************************************************************************)
EXTENDS Naturals

CONSTANTS
  Width  \* register name -> number of bits

Zero(n) == [k \in 0 .. Width[n] - 1 |-> 0]

VARIABLES
  value,  \* register name -> its bits
  got     \* <<n, v>> right after a read of n returned v, else <<>>

vars == <<value, got>>

Init ==
  /\ value = [n \in DOMAIN Width |-> Zero(n)]
  /\ got = <<>>

ReadRegister(n) == got' = <<n, value[n]>> /\ UNCHANGED value

WriteRegister(n, v) ==
  /\ v \in [0 .. Width[n] - 1 -> {0, 1}]
  /\ value' = [value EXCEPT ![n] = v]
  /\ got' = <<>>

Zeroize == value' = [n \in DOMAIN Width |-> Zero(n)] /\ got' = <<>>

Forget == got' = <<>> /\ UNCHANGED value

Next ==
  \/ \E n \in DOMAIN Width : ReadRegister(n) \/ WriteRegister(n, value'[n])
  \/ Zeroize
  \/ Forget

Spec == Init /\ [][Next]_vars
=============================================================================
