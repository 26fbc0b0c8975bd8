------------------------------- MODULE Mailbox -------------------------------
(***************************************************************************)
(* What the operator channel promises of commands (esper-board             *)
(* operator.rs, the module's doc): a command is obeyed in its turn and at  *)
(* most once, and only one no answer has recorded yet can be lost.         *)
(***************************************************************************)
EXTENDS Naturals, Sequences

CONSTANTS
  Commands,   \* what may be sent
  Most        \* how many may wait unrecorded

VARIABLES
  pending,    \* commands sent and not obeyed, oldest first
  recorded    \* how many of them are safe

vars == <<pending, recorded>>

Init == pending = <<>> /\ recorded = 0

Send ==
  /\ Len(pending) < recorded + Most
  /\ \E c \in Commands : pending' = Append(pending, c)
  /\ UNCHANGED recorded

\* Every waiting command becomes safe at once, in its place.
Record == recorded' = Len(pending) /\ UNCHANGED pending

Obey ==
  /\ recorded > 0
  /\ pending' = Tail(pending)
  /\ recorded' = recorded - 1

Lose == pending' = SubSeq(pending, 1, recorded) /\ UNCHANGED recorded

Next == Send \/ Record \/ Obey \/ Lose

Spec == Init /\ [][Next]_vars
=============================================================================
