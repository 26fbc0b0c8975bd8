------------------------------ MODULE Operator ------------------------------
(***************************************************************************)
(* The operator channel (esper-board operator.rs): one line per command,   *)
(* commands held for the next SENSE, typed input held for the next ASK.    *)
(* All of it is RAM.                                                       *)
(*                                                                         *)
(* A line is what the parser tells apart of it: its verb, its first        *)
(* argument read as a number and as a note's name, whether text follows,   *)
(* whether it overran the buffer and whether its text fits a record.       *)
(* A held input is the goal it is for: a newer text replaces the older     *)
(* one, and no rule of the channel reads it.                               *)
(***************************************************************************)
EXTENDS Goals, Sequences

CONSTANTS
  MaxCommands,   \* commands one SENSE answer carries (MAX_COMMANDS)
  InputSlots,    \* goals with input waiting (INPUT_SLOTS)
  LineEnvelope,  \* the envelope a goal line gets
  NoteNames,     \* names a line may remember or forget
  NoName         \* no first argument

ASSUME ChannelAssumption ==
  /\ MaxCommands \in Nat \ {0}
  /\ InputSlots \in Nat \ {0}
  /\ LineEnvelope \in Envelope
  /\ NoName \notin NoteNames

NotANumber == -1

Line == [verb : {"", "goal", "say", "pause", "unpause", "retire", "remember",
                 "forget", "other"},
         number : Nat \cup {NotANumber}, name : NoteNames \cup {NoName},
         text : BOOLEAN, overrun : BOOLEAN, fits : BOOLEAN]

LineCommand ==
       [kind : {"AddGoal"}, spec : GoalSpec]
  \cup [kind : {"Control"}, goal : Nat, event : GoalEvent]
  \cup [kind : {"Remember", "Forget"}, note : NoteNames]

Channel == [commands : Seq(LineCommand), inputs : SUBSET Ids,
            selected : Ids \cup {0}]

EmptyChannel == [commands |-> <<>>, inputs |-> {}, selected |-> 0]

----------------------------------------------------------------------------
(* What a finished line asks for: one command, one input, or nothing.     *)

IsDigit(n) == n \in 0..9
IsGoalId(n) == n \in Ids

ControlOf == [pause |-> "Pause", unpause |-> "Unpause", retire |-> "Retire"]

\* A goal line adds a one-shot goal; the ledger judges the rest of it.
GoalLine(line) ==
  [kind |-> "AddGoal",
   spec |-> [priority |-> line.number, cadence |-> Once,
             envelope |-> LineEnvelope, admissible |-> TRUE]]

\* The set of the commands a line asks for, one or none.
Commanded(line) ==
  IF line.overrun \/ ~line.fits THEN {}
  ELSE IF line.verb = "goal"
    THEN IF IsDigit(line.number) /\ line.text THEN {GoalLine(line)} ELSE {}
  ELSE IF line.verb \in DOMAIN ControlOf
    THEN IF IsGoalId(line.number)
         THEN {[kind |-> "Control", goal |-> line.number,
                event |-> ControlOf[line.verb]]}
         ELSE {}
  ELSE IF line.verb = "remember"
    THEN IF line.name # NoName /\ line.text
         THEN {[kind |-> "Remember", note |-> line.name]} ELSE {}
  ELSE IF line.verb = "forget" /\ line.name # NoName
    THEN {[kind |-> "Forget", note |-> line.name]}
  ELSE {}

\* The set of the goals a line is input for, one or none.
Addressed(line) ==
  IF ~line.overrun /\ line.verb = "say" /\ IsGoalId(line.number) /\ line.text
  THEN {line.number} ELSE {}

----------------------------------------------------------------------------
(* The channel's operations.                                              *)

\* Mutant: a full queue takes one more.
QueuedUncapped(channel, command) ==
  [channel EXCEPT !.commands = Append(@, command)]

\* A command takes the first free place, or is refused until the next beat.
Queued(channel, command) ==
  IF Len(channel.commands) < MaxCommands
  THEN [channel EXCEPT !.commands = Append(@, command)]
  ELSE channel

\* A newer input replaces the goal's older one; with every place taken by
\* other goals it is refused.
HeldInput(channel, goal) ==
  IF goal \in channel.inputs \/ Cardinality(channel.inputs) < InputSlots
  THEN [channel EXCEPT !.inputs = @ \cup {goal}]
  ELSE channel

\* The newline that finishes a line.
Fed(channel, line) ==
  IF Commanded(line) # {}
  THEN Queued(channel, CHOOSE c \in Commanded(line) : TRUE)
  ELSE IF Addressed(line) # {}
  THEN HeldInput(channel, CHOOSE g \in Addressed(line) : TRUE)
  ELSE channel

\* Mutant: only the goal driven last is told of.
ToldSelected(channel) == channel.inputs \cap {channel.selected}

\* A SENSE answer tells of every goal with input waiting.
Told(channel) == channel.inputs

\* Mutant: the commands stay in the queue and are answered again.
DrainedInPart(channel) == channel

\* Mutant: a SENSE answer takes the inputs away with the commands.
DrainedWhole(channel) == [channel EXCEPT !.commands = <<>>, !.inputs = {}]

\* A SENSE answer takes the queued commands away; it leaves the inputs,
\* which it only tells of.
Drained(channel) == [channel EXCEPT !.commands = <<>>]

Selected(channel, goal) == [channel EXCEPT !.selected = goal]

\* ASK takes the selected goal's input away, if there is one.
HasInput(channel) == channel.selected \in channel.inputs

TookInput(channel) == [channel EXCEPT !.inputs = @ \ {channel.selected}]

=============================================================================
