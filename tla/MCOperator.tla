----------------------------- MODULE MCOperator -----------------------------
(***************************************************************************)
(* An instance of OperatedAgent for TLC.  The origin of the beats is moved *)
(* between two boots as MCAgent does.                                      *)
(***************************************************************************)
EXTENDS MCAgent, OperatedAgent

MCOperatedNext ==
  \/ ShiftOrigin /\ UNCHANGED operatorVars
  \/ (phase = "timer" => lastBeat = 0) /\ Work
  \/ Type
  \/ MediaStops
  \/ Reset

MCOperatedSpec == OperatedInit /\ [][MCOperatedNext]_allVars
MCOperatedFairSpec ==
  /\ MCOperatedSpec
  /\ WF_allVars(\/ ShiftOrigin /\ UNCHANGED operatorVars
                \/ (phase = "timer" => lastBeat = 0) /\ Work)

----------------------------------------------------------------------------

MCLineEnvelope == [perRunTurns |-> 2, perRunMutations |-> 1,
                   turns |-> 2, mutations |-> 1, runs |-> 1]

LineOf(verb, number) ==
  [verb |-> verb, number |-> number, name |-> NoName, text |-> TRUE,
   overrun |-> FALSE, fits |-> TRUE]

\* Goals at two priorities, input for a goal that runs and for one that may
\* never exist, control of the first goal, a line too long.
MCLines ==
  {LineOf("goal", 1), LineOf("say", 1), LineOf("say", 2),
   LineOf("retire", 1),
   [LineOf("goal", 1) EXCEPT !.overrun = TRUE]}

MCCommandBatches == SeqOf(UNION {Commanded(line) : line \in MCLines}, MaxCommands)

MCOperatedSpecs ==
  {GoalLine(line).spec : line \in {l \in MCLines : l.verb = "goal"}}
=============================================================================
