---------------------------- MODULE OperatedAgent ----------------------------
(***************************************************************************)
(* The supervisor with its operator: Agent composed with the operator      *)
(* channel by the board's main loop (boards/esp32s3 main.rs), its ports    *)
(* (esper-board ports.rs) and the two dispatchers that answer SENSE and    *)
(* ASK.  Lines arrive only while the loop pumps the UART, never during a   *)
(* boot; a boot runs the beat to its timer, and stops early when the media *)
(* refuses a write.  A reset empties the channel and keeps the journal.    *)
(*                                                                         *)
(* A line is fed whole: its bytes are inert until its newline, but for a   *)
(* reset in the middle of one (README, "What is left out").                *)
(***************************************************************************)
EXTENDS Agent, Operator

CONSTANTS
  Lines,      \* lines the operator may type
  MaxResets   \* bound: resets and media refusals

\* The commands there are lines for.
Typable == UNION {Commanded(line) : line \in Lines}

\* What the channel hands over is what a SENSE answer may carry.
ASSUME OperatorAssumption ==
  /\ Lines \subseteq Line
  /\ MaxResets \in Nat
  /\ NoteNames = Notes
  /\ Typable \subseteq Command
  /\ CommandBatches = SeqOf(Typable, MaxCommands)

VARIABLES
  channel,   \* the operator channel
  loop,      \* "pump": between boots; "boot": in one; "run": RUN dispatched
  asking,    \* the driven run's question: none, a new one, or the one it
             \* was parked on
  resets     \* resets and media refusals so far

operatorVars == <<channel, loop, asking, resets>>
allVars == <<vars, operatorVars>>

OperatedInit ==
  /\ Init
  /\ channel = EmptyChannel
  /\ loop = "pump"
  /\ asking = "no"
  /\ resets = 0

----------------------------------------------------------------------------
(* The main loop.                                                         *)

\* pump: a line arrives and is answered.
Type ==
  /\ loop = "pump"
  /\ \E line \in Lines : channel' = Fed(channel, line)
  /\ UNCHANGED <<vars, loop, asking, resets>>

\* The loop stops for good when the supervisor ended.
Boot ==
  /\ loop = "pump"
  /\ fault = "None"
  /\ loop' = "boot"
  /\ UNCHANGED <<vars, channel, asking, resets>>

\* A boot ends at the beat's timer.
BootGoesOn == loop' = IF phase' = "timer" THEN "pump" ELSE "boot"

----------------------------------------------------------------------------
(* The beat, in a boot.                                                   *)

\* SENSE: the dispatcher drains the channel and the answer is recorded.
SenseChannel ==
  /\ loop = "boot"
  /\ SenseAnswer(channel.commands, Told(channel) \cap Waiting(goals))
  /\ channel' = Drained(channel)
  /\ UNCHANGED <<loop, asking, resets>>

Obey ==
  /\ loop = "boot"
  /\ ApplyCommand
  /\ UNCHANGED operatorVars

Pick ==
  /\ loop = "boot"
  /\ \/ PickIdle /\ asking' = "no"
     \/ PickSpawn /\ asking' = "no"
     \/ PickResume /\ asking' = "old"
  /\ BootGoesOn
  /\ UNCHANGED <<channel, resets>>

\* RUN: the dispatcher selects the goal's inbox before it drives the run.
DispatchRun ==
  /\ loop = "boot"
  /\ fault = "None"
  /\ phase = "driving"
  /\ channel' = Selected(channel, driven)
  /\ loop' = "run"
  /\ UNCHANGED <<vars, asking, resets>>

\* The driven run infers a question.
RunAsks ==
  /\ loop = "run"
  /\ asking = "no"
  /\ asks[driven] < goals[driven].reserved.turns
  /\ asking' = "new"
  /\ UNCHANGED <<vars, channel, loop, resets>>

\* ASK: the selected goal's input is taken and the answer recorded.
Answer ==
  /\ loop = "run"
  /\ asking # "no"
  /\ HasInput(channel)
  /\ channel' = TookInput(channel)
  /\ asking' = "no"
  /\ UNCHANGED <<vars, loop, resets>>

\* No input yet: the run parks on its question.
Park ==
  /\ loop = "run"
  /\ asking # "no"
  /\ ~HasInput(channel)
  /\ RunParks
  /\ asking = "new" <=> asks' # asks
  /\ asking' = "no"
  /\ BootGoesOn
  /\ UNCHANGED <<channel, resets>>

\* A run with a question open does not conclude; it may still fault.
Report ==
  /\ loop = "run"
  /\ \/ asking = "no" /\ RunSettles
     \/ RunFails
  /\ asking' = "no"
  /\ BootGoesOn
  /\ UNCHANGED <<channel, resets>>

ReadHarvest ==
  /\ loop = "boot"
  /\ Harvest \/ SkipHarvest
  /\ BootGoesOn
  /\ UNCHANGED <<channel, asking, resets>>

----------------------------------------------------------------------------
(* What goes wrong.                                                       *)

\* The media refuses a write: the boot is over, and an answer that was
\* dispatched and not recorded is lost with what it took from the channel.
MediaStops ==
  /\ loop # "pump"
  /\ resets < MaxResets
  /\ \/ UNCHANGED channel
     \/ phase = "timer" /\ channel' = Drained(channel)
     \/ loop = "run" /\ asking # "no" /\ channel' = TookInput(channel)
  /\ loop' = "pump"
  /\ resets' = resets + 1
  /\ UNCHANGED <<vars, asking>>

Reset ==
  /\ resets < MaxResets
  /\ channel' = EmptyChannel
  /\ loop' = "pump"
  /\ resets' = resets + 1
  /\ UNCHANGED <<vars, asking>>

----------------------------------------------------------------------------

Work ==
  \/ Boot
  \/ SenseChannel
  \/ Obey
  \/ Pick
  \/ DispatchRun
  \/ RunAsks
  \/ Answer
  \/ Park
  \/ Report
  \/ ReadHarvest

OperatedNext == Work \/ Type \/ MediaStops \/ Reset

\* The loop always comes round to the next boot, and a boot goes on until
\* it ends; what the operator types and what fails is not assumed.
OperatedSpec == OperatedInit /\ [][OperatedNext]_allVars
OperatedFairSpec == OperatedSpec /\ WF_allVars(Work)

----------------------------------------------------------------------------
(* Properties.                                                            *)

OperatedTypeOK ==
  /\ channel \in Channel
  /\ Len(channel.commands) <= MaxCommands
  /\ loop \in {"pump", "boot", "run"}
  /\ asking \in {"no", "new", "old"}
  /\ resets \in 0..MaxResets
  /\ loop = "run" => phase = "driving" /\ channel.selected = driven

\* Commands are obeyed in the order they were typed and at most once each,
\* through media refusals and resets, and only commands no SENSE answer
\* recorded are ever lost (the module doc of operator.rs).
CommandQueue == INSTANCE Mailbox WITH
  Commands <- Typable,
  Most <- MaxCommands,
  pending <- sense.commands \o channel.commands,
  recorded <- Len(sense.commands)
CommandsInTurn == CommandQueue!Spec

\* A run is resumed because its answer is there, and the answer is still
\* there when the run reads it: no other goal's run took it and no SENSE
\* consumed it.  Only a reset or a media refusal can make a resumed run park
\* on the same question again.
ResumedFindsInput ==
  asking = "old" /\ resets = 0 => driven \in channel.inputs

\* Typed input reaches the run that waits for it: a goal parked with its
\* answer in the channel is resumed and reads it, whatever other goals and
\* other inputs wait, unless a reset takes the answer.
HasAnswer(i) ==
  i \in Held(goals) /\ goals[i].status = "Waiting" /\ i \in channel.inputs

InputIsTaken == \A i \in Ids : HasAnswer(i) ~> ~HasAnswer(i)

=============================================================================
