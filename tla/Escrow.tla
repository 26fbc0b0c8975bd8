------------------------------- MODULE Escrow -------------------------------
(***************************************************************************)
(* What a budget envelope promises, in one unit: an account opens once     *)
(* with a grant; a piece of what is free is taken into escrow, one piece   *)
(* at a time; the escrow closes by giving back at most what it held, and   *)
(* the rest is spent for good.                                             *)
(***************************************************************************)
EXTENDS Integers

CONSTANTS
  Accounts,
  Amounts    \* what an account may be opened with: positive numbers

VARIABLES
  granted,   \* the grant of each account, 0 before it opens
  free,      \* what may still be taken
  held       \* what is in escrow

vars == <<granted, free, held>>

Init ==
  /\ granted = [a \in Accounts |-> 0]
  /\ free = [a \in Accounts |-> 0]
  /\ held = [a \in Accounts |-> 0]

Open(a) ==
  /\ granted[a] = 0
  /\ \E n \in Amounts :
       /\ granted' = [granted EXCEPT ![a] = n]
       /\ free' = [free EXCEPT ![a] = n]
  /\ UNCHANGED held

Take(a) ==
  /\ held[a] = 0
  /\ \E n \in 1..free[a] :
       /\ free' = [free EXCEPT ![a] = @ - n]
       /\ held' = [held EXCEPT ![a] = n]
  /\ UNCHANGED granted

Close(a) ==
  /\ \E n \in 0..held[a] : free' = [free EXCEPT ![a] = @ + n]
  /\ held' = [held EXCEPT ![a] = 0]
  /\ UNCHANGED granted

Next == \E a \in Accounts : Open(a) \/ Take(a) \/ Close(a)

Spec == Init /\ [][Next]_vars

\* Escrow never creates budget: what is free and what is held stay within
\* the grant (the promise a goal's envelope makes to its runs).
NeverOverdrawn ==
  \A a \in Accounts : free[a] + held[a] <= granted[a]

=============================================================================
