--------------------------- MODULE OperatedProofs ---------------------------
(***************************************************************************)
(* Theorems of the agent with its operator, for every set of lines and     *)
(* every number of resets.  The composition implements Agent, so all that  *)
(* AgentProofs proves of the beat loop holds on the board.                 *)
(***************************************************************************)
EXTENDS OperatedAgent, AgentProofs

\* The inductive invariant.  What a boot holds is consistent with the beat's
\* phase, the channel holds only commands there are lines for, and nothing
\* of a SENSE answer outlives the phase that uses it.
Operated ==
  /\ OperatedTypeOK
  /\ channel.commands \in Seq(Typable)
  /\ phase # "commands" => sense = NoSense
  /\ asking = "old" => phase = "driving"

----------------------------------------------------------------------------
(* The channel's operations.                                              *)

LEMMA TypableCommands == Typable \subseteq LineCommand /\ Typable \subseteq Command
BY OperatorAssumption, WorldAssumption DEF LineCommand, Command

LEMMA FedTyped ==
  ASSUME NEW ch \in Channel, ch.commands \in Seq(Typable),
         Len(ch.commands) <= MaxCommands, NEW line \in Lines
  PROVE  /\ Fed(ch, line) \in Channel
         /\ Fed(ch, line).commands \in Seq(Typable)
         /\ Len(Fed(ch, line).commands) <= MaxCommands
         /\ Fed(ch, line).selected = ch.selected
         /\ ch.inputs \subseteq Fed(ch, line).inputs
         /\ \/ Fed(ch, line).commands = ch.commands
            \/ /\ Len(ch.commands) < MaxCommands
               /\ \E c \in Typable :
                    Fed(ch, line).commands = Append(ch.commands, c)
<1>1. CASE Commanded(line) # {}
  <2> DEFINE c == CHOOSE d \in Commanded(line) : TRUE
  <2>1. c \in Typable
    BY <1>1 DEF Typable
  <2>2. c \in LineCommand
    BY <2>1, TypableCommands
  <2>3. Fed(ch, line) = Queued(ch, c)
    BY <1>1 DEF Fed
  <2> HIDE DEF c
  <2>4. CASE Len(ch.commands) < MaxCommands
    <3>1. Fed(ch, line) = [ch EXCEPT !.commands = Append(@, c)]
      BY <2>3, <2>4 DEF Queued
    <3>2. Append(ch.commands, c) \in Seq(LineCommand)
      BY <2>2 DEF Channel
    <3>3. Append(ch.commands, c) \in Seq(Typable)
          /\ Len(Append(ch.commands, c)) = Len(ch.commands) + 1
      BY <2>1, AppendProperties
    <3>4. Len(ch.commands) + 1 <= MaxCommands
      BY <2>4, LenProperties, ChannelAssumption
    <3>5. /\ Fed(ch, line) \in Channel
          /\ Fed(ch, line).commands = Append(ch.commands, c)
          /\ Fed(ch, line).selected = ch.selected
          /\ Fed(ch, line).inputs = ch.inputs
      BY <3>1, <3>2 DEF Channel
    <3>6. QED
      BY <2>1, <2>4, <3>3, <3>4, <3>5
  <2>5. CASE ~(Len(ch.commands) < MaxCommands)
    BY <2>3, <2>5 DEF Queued
  <2>6. QED
    BY <2>4, <2>5
<1>2. CASE Commanded(line) = {} /\ Addressed(line) # {}
  <2> DEFINE g == CHOOSE d \in Addressed(line) : TRUE
  <2>1. g \in Ids
    BY <1>2 DEF Addressed, IsGoalId
  <2>2. Fed(ch, line) = HeldInput(ch, g)
    BY <1>2 DEF Fed
  <2> HIDE DEF g
  <2>3. QED
    BY <2>1, <2>2 DEF HeldInput, Channel
<1>3. CASE Commanded(line) = {} /\ Addressed(line) = {}
  BY <1>3 DEF Fed
<1>4. QED
  BY <1>1, <1>2, <1>3

LEMMA DrainedTyped ==
  ASSUME NEW ch \in Channel
  PROVE  /\ Drained(ch) \in Channel
         /\ Drained(ch).commands = <<>>
         /\ Drained(ch).selected = ch.selected
         /\ Drained(ch).inputs = ch.inputs
BY EmptySeq DEF Drained, Channel

LEMMA TookInputTyped ==
  ASSUME NEW ch \in Channel
  PROVE  /\ TookInput(ch) \in Channel
         /\ TookInput(ch).commands = ch.commands
         /\ TookInput(ch).selected = ch.selected
BY DEF TookInput, Channel

LEMMA EmptyBounded == <<>> \in Seq(Typable) /\ Len(<<>>) <= MaxCommands
BY EmptySeq, ChannelAssumption

LEMMA EmptyChannelTyped == EmptyChannel \in Channel
BY EmptySeq DEF EmptyChannel, Channel

----------------------------------------------------------------------------
(* Every step of the composition is a step of the agent or none.          *)

LEMMA SeqOfBounded ==
  ASSUME NEW S, NEW n \in Nat, NEW s \in Seq(S), Len(s) <= n
  PROVE  s \in SeqOf(S, n)
<1>1. s \in [1..Len(s) -> S] /\ Len(s) \in 0..n
  BY LenProperties
<1>2. QED
  BY <1>1 DEF SeqOf

LEMMA SenseChannelIsSense ==
  ASSUME Operated, SenseChannel
  PROVE  Sense
<1>1. channel.commands \in CommandBatches
  BY SeqOfBounded, OperatorAssumption, ChannelAssumption
     DEF Operated, OperatedTypeOK
<1>2. Told(channel) \cap Waiting(goals) \in SUBSET Waiting(goals)
  OBVIOUS
<1>3. QED
  BY <1>1, <1>2 DEF SenseChannel, Sense

LEMMA OperatedStep ==
  ASSUME Operated, [OperatedNext]_allVars
  PROVE  [Next]_vars
<1>1. CASE Type \/ Boot \/ DispatchRun \/ RunAsks \/ Answer \/ MediaStops
           \/ Reset \/ UNCHANGED allVars
  BY <1>1 DEF Type, Boot, DispatchRun, RunAsks, Answer, MediaStops, Reset,
              allVars, vars
<1>2. CASE SenseChannel
  BY <1>2, SenseChannelIsSense DEF Next
<1>3. CASE Obey \/ Pick \/ Park \/ Report \/ ReadHarvest
  BY <1>3 DEF Obey, Pick, Park, Report, ReadHarvest, Next
<1>4. QED
  BY <1>1, <1>2, <1>3 DEF OperatedNext, Work

----------------------------------------------------------------------------
(* Every step keeps the invariant.                                        *)

LEMMA OperatedInitially == OperatedInit => Operated /\ Inductive
<1> SUFFICES ASSUME OperatedInit PROVE Operated /\ Inductive
  OBVIOUS
<1>1. Inductive
  BY InitInductive DEF OperatedInit
<1>2. Len(EmptyChannel.commands) = 0 /\ EmptyChannel.commands = <<>>
  BY EmptySeq DEF EmptyChannel
<1>3. QED
  BY <1>1, <1>2, EmptyChannelTyped, EmptySeq, ChannelAssumption,
     OperatorAssumption
     DEF OperatedInit, Init, NoSense, Operated, OperatedTypeOK

\* The steps that leave the agent alone.
LEMMA QuietKeeps ==
  ASSUME Operated, Inductive,
         Type \/ Boot \/ DispatchRun \/ RunAsks \/ Answer \/ MediaStops
         \/ Reset \/ UNCHANGED allVars
  PROVE  Operated'
<1> USE DEF Operated, OperatedTypeOK, vars
<1>1. CASE Type
  <2>1. PICK line \in Lines : channel' = Fed(channel, line)
    BY <1>1 DEF Type
  <2>2. QED
    BY <1>1, <2>1, FedTyped DEF Type
<1>2. CASE Boot \/ RunAsks \/ UNCHANGED allVars
  <2>1. CASE UNCHANGED allVars
    BY <2>1 DEF allVars, operatorVars
  <2>2. CASE RunAsks
    BY <2>2 DEF RunAsks
  <2>3. CASE Boot
    BY <2>3 DEF Boot
  <2>4. QED
    BY <1>2, <2>1, <2>2, <2>3
<1>3. CASE DispatchRun
  <2>1. driven \in Ids
    BY <1>3, HeldIsGoal DEF DispatchRun, Inductive, TypeOK, Held
  <2>2. channel' \in Channel /\ channel'.commands = channel.commands
        /\ channel'.selected = driven
    BY <1>3, <2>1 DEF DispatchRun, Selected, Channel
  <2>3. QED
    BY <1>3, <2>2 DEF DispatchRun
<1>4. CASE Answer
  BY <1>4, TookInputTyped DEF Answer
<1>5. CASE MediaStops
  <2>1. /\ channel' \in Channel
        /\ channel'.commands \in {channel.commands, <<>>}
    BY <1>5, TookInputTyped, DrainedTyped DEF MediaStops
  <2>2. channel'.commands \in Seq(Typable) /\ Len(channel'.commands) <= MaxCommands
    BY <2>1, EmptyBounded
  <2>3. resets' \in 0..MaxResets
    BY <1>5, OperatorAssumption DEF MediaStops
  <2>4. QED
    BY <1>5, <2>1, <2>2, <2>3 DEF MediaStops
<1>6. CASE Reset
  <2>1. channel'.commands = <<>> /\ channel' \in Channel
    BY <1>6, EmptyChannelTyped DEF Reset, EmptyChannel
  <2>2. channel'.commands \in Seq(Typable) /\ Len(channel'.commands) <= MaxCommands
    BY <2>1, EmptyBounded
  <2>3. resets' \in 0..MaxResets
    BY <1>6, OperatorAssumption DEF Reset
  <2>4. QED
    BY <1>6, <2>1, <2>2, <2>3 DEF Reset
<1>7. QED
  BY <1>1, <1>2, <1>3, <1>4, <1>5, <1>6

\* A beat that ends takes its SENSE answer with it.
LEMMA EndBeatClears == EndBeat => phase' = "timer" /\ sense' = NoSense
BY DEF EndBeat

LEMMA SettleClears ==
  ASSUME NEW status, NEW refund, NEW harvest, Settle(status, refund, harvest)
  PROVE  \/ phase' = "timer" /\ sense' = NoSense
         \/ phase' = "harvesting" /\ sense' = sense
BY EndBeatClears DEF Settle

\* The steps of the agent.
LEMMA AgentKeeps ==
  ASSUME Operated, Inductive,
         SenseChannel \/ Obey \/ Pick \/ Park \/ Report \/ ReadHarvest
  PROVE  Operated'
<1> USE DEF Operated, OperatedTypeOK
<1>1. CASE SenseChannel
  <2>1. /\ channel' \in Channel
        /\ channel'.commands = <<>>
        /\ phase' = "commands"
        /\ phase = "timer"
        /\ UNCHANGED <<loop, asking, resets>>
        /\ loop = "boot"
    BY <1>1, DrainedTyped DEF SenseChannel, SenseAnswer
  <2>2. QED
    BY <2>1, EmptyBounded
<1>2. CASE Obey
  <2>1. phase = "commands" /\ UNCHANGED phase /\ UNCHANGED operatorVars
    BY <1>2 DEF Obey, ApplyCommand
  <2>2. QED
    BY <1>2, <2>1 DEF operatorVars, Obey
<1>3. CASE Pick
  <2>1. CASE PickIdle /\ asking' = "no"
    BY <1>3, <2>1, EndBeatClears DEF Pick, PickIdle, BootGoesOn
  <2>2. CASE PickSpawn /\ asking' = "no"
    BY <1>3, <2>2 DEF Pick, PickSpawn, BootGoesOn
  <2>3. CASE PickResume /\ asking' = "old"
    BY <1>3, <2>3 DEF Pick, PickResume, BootGoesOn
  <2>4. QED
    BY <1>3, <2>1, <2>2, <2>3 DEF Pick, PickIdle
<1>4. CASE Park
  BY <1>4, EndBeatClears DEF Park, RunParks, BootGoesOn
<1>5. CASE Report
  <2>1. \/ phase' = "timer" /\ sense' = NoSense
        \/ phase' = "harvesting" /\ sense' = sense
    BY <1>5, SettleClears DEF Report, RunSettles, RunFails
  <2>2. phase = "driving"
    BY <1>5 DEF Report, RunSettles, RunFails
  <2>3. QED
    BY <1>5, <2>1, <2>2 DEF Report, BootGoesOn
<1>6. CASE ReadHarvest
  <2>1. phase = "harvesting" /\ NextHarvest
    BY <1>6 DEF ReadHarvest, Harvest, SkipHarvest
  <2>2. \/ phase' = "timer" /\ sense' = NoSense
        \/ phase' = phase /\ sense' = sense
    BY <2>1, EndBeatClears DEF NextHarvest
  <2>3. QED
    BY <1>6, <2>1, <2>2 DEF ReadHarvest, BootGoesOn
<1>7. QED
  BY <1>1, <1>2, <1>3, <1>4, <1>5, <1>6

LEMMA OperatedKeeps ==
  Operated /\ Inductive /\ [OperatedNext]_allVars => Operated' /\ Inductive'
<1> SUFFICES ASSUME Operated, Inductive, [OperatedNext]_allVars
             PROVE  Operated' /\ Inductive'
  OBVIOUS
<1>1. Inductive'
  BY OperatedStep, StepInductive
<1>2. Operated'
  BY QuietKeeps, AgentKeeps DEF OperatedNext, Work
<1>3. QED
  BY <1>1, <1>2

LEMMA OperatedInductive == OperatedSpec => [](Operated /\ Inductive)
BY OperatedInitially, OperatedKeeps, PTL DEF OperatedSpec

\* What a boot, the channel and the beat's phase are in is always
\* consistent: in particular RUN reads the inbox of the goal it drives.
THEOREM OperatedTypeCorrect == OperatedSpec => []OperatedTypeOK
<1>1. Operated => OperatedTypeOK
  BY DEF Operated
<1>2. QED
  BY <1>1, OperatedInductive, PTL

\* With its operator, the main loop, resets and media refusals, the agent
\* still behaves as Agent says: all that is proved of the beat loop holds.
THEOREM OperatedIsAgent == OperatedSpec => Spec
<1>1. OperatedInit => Init
  BY DEF OperatedInit
<1>2. Operated /\ [OperatedNext]_allVars => [Next]_vars
  BY OperatedStep
<1>3. QED
  BY <1>1, <1>2, OperatedInductive, PTL DEF OperatedSpec, Spec

\* So no goal ever overdraws its envelope, and every obligation is kept,
\* whatever the operator types and whenever the board resets.
THEOREM OperatedGoalsAreSafe ==
  OperatedSpec => []EnvelopeNeverWidens /\ []LedgerNeverRefuses /\ ObligationKept
BY OperatedIsAgent, EnvelopesNeverWiden, LedgerAccepts, ObligationsKept, PTL

----------------------------------------------------------------------------
(* A resumed run finds its answer.                                        *)

\* ResumedFindsInput is not inductive: the goals a SENSE answer called ready
\* must still have their input when the beat picks one.
StillReady == resets = 0 => sense.ready \subseteq channel.inputs

Answered == StillReady /\ ResumedFindsInput

LEMMA AnsweredKeeps ==
  ASSUME Operated, Inductive, Answered, [OperatedNext]_allVars
  PROVE  Answered'
<1> USE DEF Answered, StillReady, ResumedFindsInput
<1>0. resets \in Nat
  BY DEF Operated, OperatedTypeOK
<1>1. CASE Type
  <2>1. channel.inputs \subseteq channel'.inputs
    BY <1>1, FedTyped DEF Type, Operated, OperatedTypeOK
  <2>2. QED
    BY <1>1, <2>1 DEF Type, vars
<1>2. CASE Boot \/ RunAsks \/ UNCHANGED allVars
  BY <1>2 DEF Boot, RunAsks, allVars, operatorVars, vars
<1>3. CASE DispatchRun
  <2>1. channel'.inputs = channel.inputs
    BY <1>3 DEF DispatchRun, Selected, Operated, OperatedTypeOK, Channel
  <2>2. QED
    BY <1>3, <2>1 DEF DispatchRun, vars
<1>4. CASE Answer
  <2>1. sense' = NoSense /\ asking' = "no"
    BY <1>4 DEF Answer, Operated, OperatedTypeOK, vars
  <2>2. QED
    BY <2>1 DEF NoSense
<1>5. CASE MediaStops \/ Reset
  BY <1>0, <1>5 DEF MediaStops, Reset
<1>6. CASE SenseChannel
  <2>1. channel'.inputs = channel.inputs
    BY <1>6, DrainedTyped DEF SenseChannel, Operated, OperatedTypeOK
  <2>2. sense'.ready \subseteq channel.inputs /\ asking' = asking
        /\ driven' = driven
    BY <1>6 DEF SenseChannel, SenseAnswer, Told
  <2>3. QED
    BY <1>6, <2>1, <2>2 DEF SenseChannel
<1>7. CASE Obey
  <2>1. sense'.ready = sense.ready /\ driven' = driven
    BY <1>7 DEF Obey, ApplyCommand, Inductive, TypeOK
  <2>2. QED
    BY <1>7, <2>1 DEF Obey, operatorVars
<1>8. CASE Pick
  <2>1. CASE PickResume
    <3>1. driven' \in sense.ready /\ sense' = NoSense
      BY <2>1 DEF PickResume, IsResumePick
    <3>2. QED
      BY <1>8, <3>1 DEF Pick, NoSense
  <2>2. CASE (PickIdle \/ PickSpawn) /\ asking' = "no"
    <3>1. sense' = NoSense
      BY <2>2, EndBeatClears DEF PickIdle, PickSpawn
    <3>2. QED
      BY <1>8, <2>2, <3>1 DEF Pick, NoSense
  <2>3. QED
    BY <1>8, <2>1, <2>2 DEF Pick
<1>9. CASE Park \/ Report
  <2>1. sense' \in {sense, NoSense} /\ asking' = "no"
    BY <1>9, EndBeatClears, SettleClears
       DEF Park, Report, RunParks, RunSettles, RunFails
  <2>2. channel' = channel /\ resets' = resets
    BY <1>9 DEF Park, Report
  <2>3. QED
    BY <2>1, <2>2 DEF NoSense
<1>10. CASE ReadHarvest
  <2>1. /\ sense' \in {sense, NoSense}
        /\ phase = "harvesting"
        /\ UNCHANGED <<channel, asking, resets>>
    BY <1>10, EndBeatClears DEF ReadHarvest, Harvest, SkipHarvest, NextHarvest
  <2>2. asking # "old"
    BY <2>1 DEF Operated
  <2>3. QED
    BY <2>1, <2>2 DEF NoSense
<1>11. QED
  BY <1>1, <1>2, <1>3, <1>4, <1>5, <1>6, <1>7, <1>8, <1>9, <1>10
     DEF OperatedNext, Work

\* A resumed run finds the answer it was resumed for, until the first reset
\* or media refusal.
THEOREM ResumedFinds == OperatedSpec => []ResumedFindsInput
<1>1. OperatedInit => Answered
  BY DEF OperatedInit, Init, NoSense, EmptyChannel, Answered, StillReady,
         ResumedFindsInput
<1>2. Operated /\ Inductive /\ Answered /\ [OperatedNext]_allVars => Answered'
  BY AnsweredKeeps
<1>3. Answered => ResumedFindsInput
  BY DEF Answered
<1>4. QED
  BY <1>1, <1>2, <1>3, OperatedInductive, PTL DEF OperatedSpec

----------------------------------------------------------------------------
(* Commands are obeyed in their turn.                                     *)

LEMMA AppendAfter ==
  ASSUME NEW S, NEW s \in Seq(S), NEW t \in Seq(S), NEW c \in S
  PROVE  s \o Append(t, c) = Append(s \o t, c)
<1>1. Append(t, c) = t \o <<c>> /\ <<c>> \in Seq(S)
  BY AppendIsConcat
<1>2. s \o t \in Seq(S)
  BY ConcatProperties
<1>3. QED
  BY <1>1, <1>2, AppendIsConcat, ConcatAssociative

LEMMA TailOfFront ==
  ASSUME NEW S, NEW s \in Seq(S), NEW t \in Seq(S), s # <<>>
  PROVE  Tail(s \o t) = Tail(s) \o t
<1>1. s = <<Head(s)>> \o Tail(s) /\ Head(s) \in S /\ Tail(s) \in Seq(S)
      /\ <<Head(s)>> \in Seq(S)
  OBVIOUS
<1>2. s \o t = <<Head(s)>> \o (Tail(s) \o t)
  BY <1>1, ConcatAssociative
<1>3. Tail(s) \o t \in Seq(S)
  BY <1>1, ConcatProperties
<1>4. QED
  BY <1>1, <1>2, <1>3

LEMMA FrontOf ==
  ASSUME NEW S, NEW s \in Seq(S), NEW t \in Seq(S)
  PROVE  SubSeq(s \o t, 1, Len(s)) = s
<1>1. CASE s = <<>>
  BY <1>1, SubSeqEmpty
<1>2. CASE s # <<>>
  <2>1. Len(s) \in 1..Len(s) /\ 1 \in 1..Len(s)
    BY <1>2
  <2>2. QED
    BY <2>1, SubSeqOfConcat1, SubSeqFull
<1>3. QED
  BY <1>1, <1>2

Pending == sense.commands \o channel.commands
RecordedLen == Len(sense.commands)

LEMMA PendingTyped ==
  ASSUME Operated, Inductive
  PROVE  sense.commands \in Seq(Command) /\ channel.commands \in Seq(Command)
BY TypableCommands, SeqMonotonic DEF Operated, Inductive, TypeOK

LEMMA QueueSame ==
  ASSUME UNCHANGED <<Pending, RecordedLen>>
  PROVE  [CommandQueue!Next]_(CommandQueue!vars)
BY DEF Pending, RecordedLen, CommandQueue!vars

LEMMA QueueStep ==
  ASSUME Operated, Inductive, [OperatedNext]_allVars
  PROVE  [CommandQueue!Next]_(CommandQueue!vars)
<1> USE PendingTyped
<1> DEFINE kept == sense'.commands = sense.commands
                   /\ channel'.commands = channel.commands
<1>0. ASSUME kept PROVE [CommandQueue!Next]_(CommandQueue!vars)
  BY <1>0, QueueSame DEF Pending, RecordedLen
<1>1. CASE Type
  <2>1. PICK line \in Lines : channel' = Fed(channel, line)
    BY <1>1 DEF Type
  <2>2. sense' = sense
    BY <1>1 DEF Type, vars
  <2>3. CASE channel'.commands = channel.commands
    BY <1>0, <2>2, <2>3
  <2>4. CASE /\ Len(channel.commands) < MaxCommands
             /\ \E c \in Typable : channel'.commands = Append(channel.commands, c)
    <3>1. PICK c \in Typable : channel'.commands = Append(channel.commands, c)
      BY <2>4
    <3>2. c \in Command
      BY TypableCommands
    <3>3. sense'.commands \o channel'.commands
            = Append(sense.commands \o channel.commands, c)
      <4>1. sense.commands \o Append(channel.commands, c)
              = Append(sense.commands \o channel.commands, c)
        <5> DEFINE s == sense.commands
                   t == channel.commands
        <5>1. s \in Seq(Command) /\ t \in Seq(Command)
          BY PendingTyped
        <5> HIDE DEF s, t
        <5>2. s \o Append(t, c) = Append(s \o t, c)
          BY <3>2, <5>1, AppendAfter
        <5>3. QED
          BY <5>2 DEF s, t
      <4>2. QED
        BY <2>2, <3>1, <4>1
    <3>4. Len(sense.commands \o channel.commands)
            = Len(sense.commands) + Len(channel.commands)
      BY ConcatProperties
    <3>5. Len(sense.commands) \in Nat /\ Len(channel.commands) \in Nat
      BY LenProperties
    <3>6. Len(sense.commands \o channel.commands)
            < Len(sense.commands) + MaxCommands
      <4>1. Len(channel.commands) < MaxCommands
        BY <2>4
      <4>2. QED
        <5> DEFINE m == Len(sense.commands)
                   n == Len(channel.commands)
                   k == Len(sense.commands \o channel.commands)
        <5>1. m \in Nat /\ n \in Nat /\ k = m + n /\ n < MaxCommands
          BY <3>4, <3>5, <4>1
        <5> HIDE DEF m, n, k
        <5>2. k < m + MaxCommands
          BY <5>1, ChannelAssumption
        <5>3. QED
          BY <5>2 DEF k, m
    <3>7. CommandQueue!Send
      BY <2>2, <3>3, <3>6 DEF CommandQueue!Send
    <3>8. QED
      BY <3>7 DEF CommandQueue!Next
  <2>5. QED
    BY <2>1, <2>3, <2>4, FedTyped DEF Operated, OperatedTypeOK
<1>2. CASE Boot \/ DispatchRun \/ RunAsks \/ Answer \/ UNCHANGED allVars
  <2>1. channel'.commands = channel.commands
    BY <1>2, TookInputTyped
       DEF Boot, DispatchRun, RunAsks, Answer, allVars, operatorVars, Selected,
           Operated, OperatedTypeOK, Channel
  <2>2. sense' = sense
    BY <1>2 DEF Boot, DispatchRun, RunAsks, Answer, allVars, vars
  <2>3. QED
    BY <1>0, <2>1, <2>2
<1>3. CASE MediaStops \/ Reset
  <2>1. sense' = sense
    BY <1>3 DEF MediaStops, Reset, vars
  <2>2. channel'.commands \in {channel.commands, <<>>}
    BY <1>3, TookInputTyped, DrainedTyped
       DEF MediaStops, Reset, EmptyChannel, Operated, OperatedTypeOK
  <2>3. CASE channel'.commands = <<>>
    <3>1. sense'.commands \o channel'.commands = sense.commands
      BY <2>1, <2>3, ConcatEmptySeq
    <3>2. CommandQueue!Lose
      BY <2>1, <3>1, FrontOf DEF CommandQueue!Lose
    <3>3. QED
      BY <3>2 DEF CommandQueue!Next
  <2>4. QED
    BY <1>0, <2>1, <2>2, <2>3
<1>4. CASE SenseChannel
  <2>1. sense.commands = <<>> /\ sense'.commands = channel.commands
        /\ channel'.commands = <<>>
    BY <1>4, DrainedTyped
       DEF SenseChannel, SenseAnswer, Operated, OperatedTypeOK, NoSense
  <2>2. /\ sense.commands \o channel.commands = channel.commands
        /\ sense'.commands \o channel'.commands = channel.commands
    BY <2>1, ConcatEmptySeq
  <2>3. CommandQueue!Record
    BY <2>1, <2>2 DEF CommandQueue!Record
  <2>4. QED
    BY <2>3 DEF CommandQueue!Next
<1>5. CASE Obey
  <2>1. /\ sense.commands # <<>>
        /\ sense'.commands = Tail(sense.commands)
        /\ channel' = channel
    BY <1>5 DEF Obey, ApplyCommand, operatorVars, Inductive, TypeOK
  <2>2. sense'.commands \o channel'.commands
          = Tail(sense.commands \o channel.commands)
    BY <2>1, TailOfFront
  <2>3. Len(sense'.commands) = Len(sense.commands) - 1
        /\ Len(sense.commands) > 0
    BY <2>1, HeadTailProperties, EmptySeq, LenProperties
  <2>4. CommandQueue!Obey
    BY <2>2, <2>3 DEF CommandQueue!Obey
  <2>5. QED
    BY <2>4 DEF CommandQueue!Next
<1>6. CASE Pick \/ Park \/ Report \/ ReadHarvest
  <2>1. channel' = channel
    BY <1>6 DEF Pick, Park, Report, ReadHarvest
  <2>2. sense.commands = <<>>
    BY <1>6 DEF Pick, PickIdle, PickSpawn, PickResume, Picking, Park, Report,
                RunParks, RunSettles, RunFails, ReadHarvest, Harvest,
                SkipHarvest, Operated, NoSense
  <2>3. sense' \in {sense, NoSense}
    BY <1>6, EndBeatClears, SettleClears
       DEF Pick, PickIdle, PickSpawn, PickResume, Park, Report, RunParks,
           RunSettles, RunFails, ReadHarvest, Harvest, SkipHarvest, NextHarvest
  <2>4. sense'.commands = sense.commands
    BY <2>2, <2>3 DEF NoSense
  <2>5. QED
    BY <1>0, <2>1, <2>4
<1>7. QED
  BY <1>1, <1>2, <1>3, <1>4, <1>5, <1>6 DEF OperatedNext, Work

\* Commands are obeyed in the order they were typed and at most once, and
\* only unrecorded ones are lost, whatever is typed and whatever resets.
THEOREM CommandsAreInTurn == OperatedSpec => CommandsInTurn
<1>1. OperatedInit => CommandQueue!Init
  <2> SUFFICES ASSUME OperatedInit PROVE CommandQueue!Init
    OBVIOUS
  <2>1. sense.commands = <<>> /\ channel.commands = <<>>
    BY DEF OperatedInit, Init, NoSense, EmptyChannel
  <2>2. sense.commands \o channel.commands = <<>> /\ Len(sense.commands) = 0
    BY <2>1, EmptySeq, ConcatEmptySeq
  <2>3. QED
    BY <2>2 DEF CommandQueue!Init
<1>2. Operated /\ Inductive /\ [OperatedNext]_allVars
      => [CommandQueue!Next]_(CommandQueue!vars)
  BY QueueStep
<1>3. QED
  BY <1>1, <1>2, OperatedInductive, PTL
     DEF OperatedSpec, CommandsInTurn, CommandQueue!Spec

=============================================================================
