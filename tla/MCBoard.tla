------------------------------ MODULE MCBoard ------------------------------
(***************************************************************************)
(* The board on small instances.  Goals differ in nothing but their names, *)
(* so they are met in the order of their ids; only the second spawn's      *)
(* reservation is free.                                                    *)
(***************************************************************************)
EXTENDS Board, TLC

VARIABLE met   \* the last goal spawned for the first time

Reserves(held) == spawnSeq = 1 \/ \A grant \in Grants : grant <= held

MCNext ==
  \/ \E g \in Goals :
       /\ g <= met + 1
       /\ Spawn(g)
       /\ Reserves(ledger'[g].held)
       /\ met' = IF g > met THEN g ELSE met
  \/ /\ Serve \/ Mishap \/ \E g \in Goals : Resume(g)
     /\ UNCHANGED met

MCInit == Init /\ met = 0

MCSpec == MCInit /\ [][MCNext]_<<vars, met>>

MCFairSpec == MCSpec /\ WF_<<vars, met>>(Serve /\ UNCHANGED met)

============================================================================
