------------------------------ MODULE BusLookup ------------------------------
(***************************************************************************)
(* What resolve promises on top of a memory map: an answer that was right  *)
(* at one instant between the question and the return.                     *)
(***************************************************************************)
CONSTANTS
  Client, Question,
  Permanent(_), Clash(_, _),
  Best(_, _)  \* what a set of ranges answers to a question

VARIABLES
  ranges,
  question,  \* <<q>> while client c waits for the answer to q, else <<>>
  answer     \* <<r>> while client c holds the answer r, else <<>>

vars == <<ranges, question, answer>>

Map == INSTANCE BusMap

Init ==
  /\ Map!Init
  /\ question = [c \in Client |-> <<>>]
  /\ answer = [c \in Client |-> <<>>]

Ask(c, q) ==
  /\ question[c] = <<>>
  /\ question' = [question EXCEPT ![c] = <<q>>]
  /\ answer' = [answer EXCEPT ![c] = <<>>]
  /\ UNCHANGED ranges

Answer(c) ==
  /\ question[c] # <<>>
  /\ question' = [question EXCEPT ![c] = <<>>]
  /\ answer' = [answer EXCEPT ![c] = <<Best(ranges, question[c][1])>>]
  /\ UNCHANGED ranges

\* The client has used the answer.
Forget(c) ==
  /\ answer' = [answer EXCEPT ![c] = <<>>]
  /\ UNCHANGED <<ranges, question>>

Next ==
  \/ \E c \in Client : Answer(c) \/ Forget(c) \/ \E q \in Question : Ask(c, q)
  \/ Map!Next /\ UNCHANGED <<question, answer>>

Spec == Init /\ [][Next]_vars
=============================================================================
