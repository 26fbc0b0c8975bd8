---------------------------- MODULE BoardForgets ----------------------------
(***************************************************************************)
(* The board when Waymaker refuses the supervisor's own journal (esper-    *)
(* board agent.rs, slot.rs reinstall): its segment starts again from the   *)
(* checkpoint in its own input, while the run slots keep what they hold.   *)
(***************************************************************************)
EXTENDS Board

VARIABLE saved   \* the ledger and spawn sequence of the last checkpoint

InitForgets ==
  /\ Init
  /\ saved = [ledger |-> ledger, spawnSeq |-> spawnSeq]

\* Between beats the supervisor continues as new from a checkpoint.
Checkpoint ==
  /\ ~fault /\ request = NoRequest
  /\ saved' = [ledger |-> ledger, spawnSeq |-> spawnSeq]
  /\ UNCHANGED vars

\* The journal since then is discarded; the operator may do otherwise now.
ReinstallSupervisor ==
  /\ ~fault
  /\ Happens("tear")
  /\ ledger' = saved.ledger
  /\ spawnSeq' = saved.spawnSeq
  /\ request' = NoRequest
  /\ boots' = 0
  /\ UNCHANGED <<slots, letGo, fault, saved>>

NextForgets ==
  \/ Next /\ UNCHANGED saved
  \/ Checkpoint
  \/ ReinstallSupervisor

SpecForgets == InitForgets /\ [][NextForgets]_<<vars, saved>>

=============================================================================
