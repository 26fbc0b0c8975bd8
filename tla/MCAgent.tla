------------------------------ MODULE MCAgent ------------------------------
(***************************************************************************)
(* Instances of Agent for TLC.                                             *)
(*                                                                         *)
(* Beats are only ever compared and added to, so a state and the same      *)
(* state with every beat moved by one distance behave alike.  Between two  *)
(* beats ShiftOrigin moves the origin to the last beat, which keeps an      *)
(* instance finite with no bound on how long the agent lives.  A due beat  *)
(* further back than Horizon is kept at Horizon: no goal waits that long   *)
(* in these instances but a parked, paused or terminal one, whose due beat *)
(* is never read before it is set again.                                   *)
(*                                                                         *)
(* So it is with the memory's stamps: ShiftOrigin numbers them anew, in    *)
(* their order and with those that are equal left equal, and MaxStamp is   *)
(* out of reach.                                                           *)
(***************************************************************************)
EXTENDS Agent

CONSTANT Horizon   \* bound: how far in the past a due beat is told apart

Later(a, b) == IF a >= b THEN a ELSE b

Shifted(g) ==
  [g EXCEPT !.nextDue = Later(@ - lastBeat,
                              IF g.status = "Active" THEN -Horizon ELSE 0),
            !.waitingSince = IF g.status = "Waiting"
                             THEN Later(@ - lastBeat, -OverdueAfter) ELSE 0]

Stamps == {memory.entries[i].stamp : i \in DOMAIN memory.entries}

Rank(stamp) == 1 + Cardinality({other \in Stamps : other < stamp})

Renumbered ==
  [entries |-> [i \in DOMAIN memory.entries |->
                  [memory.entries[i] EXCEPT !.stamp = Rank(@)]],
   nextStamp |-> Rank(memory.nextStamp)]

ShiftOrigin ==
  /\ phase = "timer"
  /\ lastBeat > 0
  /\ goals' = [i \in Ids |-> IF i \in Held(goals) THEN Shifted(goals[i])
                             ELSE NoGoal]
  /\ lastBeat' = 0
  /\ memory' = Renumbered
  /\ UNCHANGED <<nextId, spawnSeq, phase, sense, driven, toHarvest,
                 asks, fault>>

----------------------------------------------------------------------------
(* Instance data.                                                         *)

SpecOf(priority, cadence, perRunTurns, turns, mutations) ==
  [priority |-> priority, cadence |-> cadence, admissible |-> TRUE,
   envelope |-> [perRunTurns |-> perRunTurns, perRunMutations |-> 1,
                 turns |-> turns, mutations |-> mutations, runs |-> 2]]

\* A goal whose second run gets less than a full grant, and a standing goal
\* that outranks it.
OneShot == SpecOf(1, Once, 2, 3, 1)
Standing == SpecOf(2, 1, 1, 2, 2)
Widening == [OneShot EXCEPT !.admissible = FALSE]

MCSpecs == {OneShot, Standing, Widening}

Add(spec) == <<[kind |-> "AddGoal", spec |-> spec]>>
Tell(id, event) == <<[kind |-> "Control", goal |-> id, event |-> event]>>
Pin(note) == <<[kind |-> "Remember", note |-> note]>>
Unpin(note) == <<[kind |-> "Forget", note |-> note]>>
=============================================================================
