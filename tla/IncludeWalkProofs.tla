-------------------------- MODULE IncludeWalkProofs --------------------------
(***************************************************************************)
(* However often a load asks for a file, IsaLoader reads it once.          *)
(***************************************************************************)
EXTENDS IncludeWalk, TLAPS

\* Files are files: the two sequences hold nothing else.
WalkTypeOK ==
  /\ visited \subseteq Path
  /\ stack \in Seq(Path)
  /\ opened \in Seq(Path)

Inv == WalkTypeOK /\ WalkedOnce

-----------------------------------------------------------------------------
\* A file that was not visited is read: it is on neither sequence yet, so it
\* stands once on each and is the one file that is new to visited.
LEMMA OpenKeepsInv ==
  ASSUME Inv, NEW p \in Path, Open(p)
  PROVE  Inv'
<1>1. WalkTypeOK'
  BY DEF Inv, WalkTypeOK, Open
<1>2. /\ opened \in Seq(Path) /\ Len(opened) \in Nat /\ DOMAIN opened = 1 .. Len(opened)
      /\ opened' = Append(opened, p)
      /\ Len(opened') = Len(opened) + 1 /\ DOMAIN opened' = 1 .. Len(opened) + 1
      /\ \A i \in 1 .. Len(opened) : opened'[i] = opened[i]
      /\ opened'[Len(opened) + 1] = p
  BY DEF Inv, WalkTypeOK, Open
<1>3. /\ stack \in Seq(Path) /\ Len(stack) \in Nat /\ DOMAIN stack = 1 .. Len(stack)
      /\ DOMAIN stack' = 1 .. Len(stack) + 1
      /\ \A i \in 1 .. Len(stack) : stack'[i] = stack[i]
      /\ stack'[Len(stack) + 1] = p
  BY DEF Inv, WalkTypeOK, Open
<1>4. p \notin visited /\ visited' = visited \cup {p}
  BY DEF Open, Seen
<1>5. \A i \in 1 .. Len(opened) : opened[i] \in visited /\ opened[i] # p
  BY <1>2, <1>4 DEF Inv, WalkedOnce
<1>6. \A i, j \in DOMAIN opened' : opened'[i] = opened'[j] => i = j
  <2> SUFFICES ASSUME NEW i \in 1 .. Len(opened) + 1, NEW j \in 1 .. Len(opened) + 1, opened'[i] = opened'[j]
               PROVE  i = j
    BY <1>2
  <2>1. CASE i \in 1 .. Len(opened) /\ j \in 1 .. Len(opened)
    BY <2>1, <1>2 DEF Inv, WalkedOnce
  <2>2. CASE i = Len(opened) + 1 \/ j = Len(opened) + 1
    BY <2>2, <1>2, <1>5
  <2> QED
    BY <2>1, <2>2, <1>2
<1>7. {opened'[i] : i \in DOMAIN opened'} = visited'
  <2>1. \A q \in visited' : \E i \in 1 .. Len(opened) + 1 : opened'[i] = q
    <3> SUFFICES ASSUME NEW q \in visited' PROVE \E i \in 1 .. Len(opened) + 1 : opened'[i] = q
      OBVIOUS
    <3>1. CASE q = p
      BY <3>1, <1>2
    <3>2. CASE q \in visited
      <4>1. PICK i \in 1 .. Len(opened) : opened[i] = q
        BY <3>2, <1>2 DEF Inv, WalkedOnce
      <4> QED
        BY <4>1, <1>2
    <3> QED
      BY <3>1, <3>2, <1>4
  <2>2. \A i \in 1 .. Len(opened) + 1 : opened'[i] \in visited'
    BY <1>2, <1>4, <1>5
  <2> QED
    BY <2>1, <2>2, <1>2
<1>8. {stack'[i] : i \in DOMAIN stack'} \subseteq visited'
  BY <1>3, <1>4 DEF Inv, WalkedOnce
<1> QED
  BY <1>1, <1>6, <1>7, <1>8 DEF Inv, WalkedOnce

\* The files that are left while their includes are collected stay visited.
LEMMA LeaveKeepsInv ==
  ASSUME Inv, Leave
  PROVE  Inv'
<1>1. /\ stack \in Seq(Path) /\ stack # <<>> /\ Len(stack) \in Nat \ {0}
      /\ stack' = SubSeq(stack, 1, Len(stack) - 1)
  BY DEF Inv, WalkTypeOK, Leave
<1>2. /\ stack' \in Seq(Path) /\ DOMAIN stack' = 1 .. Len(stack) - 1
      /\ \A i \in 1 .. Len(stack) - 1 : stack'[i] = stack[i]
  BY <1>1
<1>3. {stack'[i] : i \in DOMAIN stack'} \subseteq visited
  BY <1>1, <1>2 DEF Inv, WalkedOnce
<1> QED
  BY <1>2, <1>3 DEF Inv, WalkTypeOK, WalkedOnce, Leave

\* Every step of a load, and the start of the next one.
LEMMA StepKeepsInv ==
  ASSUME Inv, [WalkNext]_walk
  PROVE  Inv'
<1>1. CASE Clear
  BY <1>1 DEF Inv, WalkTypeOK, WalkedOnce, Clear
<1>2. CASE Leave
  BY <1>2, LeaveKeepsInv
<1>3. CASE \E p \in Path : Skip(p)
  BY <1>3 DEF Inv, WalkTypeOK, WalkedOnce, Skip, walk
<1>4. CASE \E p \in Path : ReportLoop(p)
  \* What is on the stack has been visited, so there is no such step.
  <2>1. PICK p \in Path : p \notin visited /\ p \in ToSet(stack)
    BY <1>4 DEF ReportLoop, Seen
  <2>2. ToSet(stack) = {stack[i] : i \in DOMAIN stack}
    BY DEF ToSet
  <2> QED
    BY <2>1, <2>2 DEF Inv, WalkedOnce
<1>5. CASE \E p \in Path : Open(p)
  BY <1>5, OpenKeepsInv
<1>6. CASE UNCHANGED walk
  BY <1>6 DEF Inv, WalkTypeOK, WalkedOnce, walk
<1> QED
  BY <1>1, <1>2, <1>3, <1>4, <1>5, <1>6 DEF WalkNext

-----------------------------------------------------------------------------
\* collect_documents: for any files, asked for in any order and any number of
\* times, a file is read at most once in a load, exactly those visited are
\* read, and the stack holds only visited ones.
THEOREM FilesWalkedOnce == WalkSpec => []WalkedOnce
<1>1. WalkInit => Inv
  BY DEF WalkInit, Inv, WalkTypeOK, WalkedOnce
<1>2. Inv /\ [WalkNext]_walk => Inv'
  BY StepKeepsInv
<1>3. Inv => WalkedOnce
  BY DEF Inv
<1> QED
  BY <1>1, <1>2, <1>3, PTL DEF WalkSpec

\* loader.rs reports IncludeLoop for a file on the stack, but only after it has
\* found it unvisited: no step ever does.
THEOREM LoopNeverReported == WalkSpec => [][\A p \in Path : ~ReportLoop(p)]_walk
<1>1. WalkInit => Inv
  BY DEF WalkInit, Inv, WalkTypeOK, WalkedOnce
<1>2. Inv /\ [WalkNext]_walk => Inv'
  BY StepKeepsInv
<1>3. Inv /\ [WalkNext]_walk => [\A p \in Path : ~ReportLoop(p)]_walk
  <2>1. ToSet(stack) = {stack[i] : i \in DOMAIN stack}
    BY DEF ToSet
  <2> QED
    BY <2>1 DEF Inv, WalkedOnce, ReportLoop, Seen
<1> QED
  BY <1>1, <1>2, <1>3, PTL DEF WalkSpec
=============================================================================
