---------------------------- MODULE AgentHarness ----------------------------
(***************************************************************************)
(* The host's drive of the supervisor (esper-runtime agent/host.rs): a     *)
(* boot runs the supervisor from its start over its own journal, and the   *)
(* runs it spawns over one journal each, all in memory.  A deadline that   *)
(* has not passed moves the clocks on; a reset armed at a record of the    *)
(* supervisor, or a crash point armed in the next run, ends a boot.        *)
(*                                                                         *)
(* The supervisor and its runs are any deterministic workflows, as in      *)
(* Harness.  A run is driven inside the supervisor's activity: its steps   *)
(* are actions here, with the supervisor waiting for its answer.           *)
(***************************************************************************)
EXTENDS World, Traces

CONSTANTS
  Begin(_), After(_, _),      \* a run
  Harvest(_),                 \* what a concluded run teaches
  Supervise(_),               \* the supervisor, from its input; its field pulse
  Supervised(_, _),           \*   is what it reports on its way there
  Scenes,                     \* [input, world, commands, deliveries, target]
  Points,                     \* crash points a drive may arm in a run
  Strikes,                    \* [kind, nth]: records of the supervisor it may stop at
  NoStrike,
  Tick,                       \* how far a wait moves the clocks
  RunSpan,                    \* run ids of one goal
  MAX_GOALS, MAX_COMMANDS,    \* what one SENSE answer holds
  MAX_TRIES,                  \* boots of a drive
  MAX_SEGMENTS                \* segments one activity follows a run through

Boundaries == {"AfterSchedule", "BeforeResolve", "AfterResolve", "AfterTimerArmed"}

VARIABLES
  stage,    \* "boot" | "up" | "driven"
  scene,    \* what happens to this supervisor
  history,  \* its journal
  strike,   \* the reset that is armed
  cursor,   \* the boot: place in the journal, the supervisor, its activity
  tries,    \* boots so far
  clocks,   \* since the boot, and across boots
  runs,     \* the runs' journals, and the crash point armed for the next one
  nested,   \* the run that is driven: place in its journal, where it stands
  ports,    \* the world, the inboxes, the items
  log,      \* the pulses, by beat
  outcome   \* what the drive returned

supervisor == <<scene, history, strike, cursor, tries, clocks>>
device == <<runs, nested, ports>>
avars == <<stage, supervisor, device, log, outcome>>

\* A map with one more entry, or another in its place.
Put(map, key, value) ==
  [k \in DOMAIN map \cup {key} |-> IF k = key THEN value ELSE map[k]]

NewHistory(input) == [input |-> input, records |-> <<>>, continued |-> 0,
                      commits |-> [kind \in Boundaries |-> 0]]

NewCursor == [at |-> 0, work |-> Nothing, handed |-> FALSE, answer |-> Nothing,
              armed |-> Nothing]

NewRun(start, point) == [segments |-> <<start.seed>>, input |-> start, records |-> <<>>,
                         terminal |-> <<>>, crash |-> point]

NewPorts(w) == [world |-> w, inbox |-> <<>>, delivered |-> {}, items |-> <<>>, goal |-> 0]

Init ==
  /\ stage = "boot"
  /\ scene \in Scenes
  /\ history = NewHistory(scene.input)
  /\ strike \in Strikes
  /\ cursor = NewCursor /\ tries = 0
  /\ clocks = [boot |-> 0, persistent |-> 0]
  /\ \E point \in Points : runs = [held |-> <<>>, armed |-> point]
  /\ nested = Nothing
  /\ ports = NewPorts(scene.world)
  /\ log = <<>>
  /\ outcome = "none"

Returns(why) == stage' = "driven" /\ outcome' = why

\* The boot is over: what was in memory is gone.
Down == stage' = "boot" /\ cursor' = NewCursor /\ nested' = Nothing

\* Where the supervisor stands now; a beat it completed is logged.
Stands(at, work) ==
  /\ cursor' = [NewCursor EXCEPT !.at = at, !.work = work]
  /\ log' = IF work.pulse = Nothing THEN log ELSE Put(log, work.pulse.beat, work.pulse)

Boot ==
  /\ stage = "boot"
  /\ IF tries = MAX_TRIES THEN Returns("TooManyBoots") /\ UNCHANGED <<cursor, tries, clocks, log>>
     ELSE /\ stage' = "up"
          /\ tries' = tries + 1
          /\ clocks' = [clocks EXCEPT !.boot = 0]
          /\ Stands(0, Supervise(history.input))
          /\ UNCHANGED outcome
  /\ UNCHANGED <<scene, history, strike, device>>

Want == cursor.work.want

Fails ==
  /\ stage = "up" /\ Want.op = "fault"
  /\ Returns("Agent")
  /\ UNCHANGED <<supervisor, device, log>>

----------------------------------------------------------------------------
(* The supervisor's journal.                                               *)

Asks == stage = "up" /\ Want.op = "activity" /\ ~cursor.handed

Commits(kind) == [history.commits EXCEPT ![kind] = @ + 1]

\* The n-th record of a kind stops the boot, once.
Struck(kind) ==
  strike # NoStrike /\ strike.kind = kind /\ strike.nth = Commits(kind)[kind]

Matches == history.records[cursor.at + 1] = Scheduled(Want.request)

ReplayAnswer ==
  /\ Asks /\ cursor.at + 1 < Len(history.records) /\ Matches
  /\ LET answer == history.records[cursor.at + 2]
     IN IF answer.is = "Resolved"
        THEN Stands(cursor.at + 2, Supervised(cursor.work, answer.answer))
               /\ UNCHANGED <<stage, outcome>>
        ELSE Returns("Diverged") /\ UNCHANGED <<cursor, log>>
  /\ UNCHANGED <<scene, history, strike, tries, clocks, device>>

\* An intent with no answer is handed on again.
HandOnAgain ==
  /\ Asks /\ cursor.at + 1 = Len(history.records) /\ Matches
  /\ cursor' = [cursor EXCEPT !.at = @ + 1, !.handed = TRUE]
  /\ UNCHANGED <<stage, scene, history, strike, tries, clocks, device, log, outcome>>

DivergeFromHistory ==
  /\ Asks /\ cursor.at < Len(history.records) /\ ~Matches
  /\ Returns("Diverged")
  /\ UNCHANGED <<supervisor, device, log>>

HandOn ==
  /\ Asks /\ cursor.at = Len(history.records)
  /\ history' = [history EXCEPT !.records = Append(@, Scheduled(Want.request)),
                                !.commits = Commits("AfterSchedule")]
  /\ IF Struck("AfterSchedule") THEN Down /\ strike' = NoStrike
     ELSE /\ cursor' = [cursor EXCEPT !.at = @ + 1, !.handed = TRUE]
          /\ UNCHANGED <<stage, nested, strike>>
  /\ UNCHANGED <<scene, tries, clocks, runs, ports, log, outcome>>

Answers == stage = "up" /\ cursor.answer # Nothing

LoseAnswer ==
  /\ Answers /\ Struck("BeforeResolve")
  /\ Down /\ strike' = NoStrike
  /\ history' = [history EXCEPT !.commits = Commits("BeforeResolve")]
  /\ UNCHANGED <<scene, tries, clocks, runs, ports, log, outcome>>

\* The answer is recorded; the boot ends there, or the supervisor reads it.
RecordAnswer ==
  /\ Answers /\ ~Struck("BeforeResolve")
  /\ history' = [history EXCEPT
        !.records = Append(@, Resolved(cursor.answer)),
        !.commits = [Commits("BeforeResolve") EXCEPT !["AfterResolve"] = @ + 1]]
  /\ IF Struck("AfterResolve") THEN Down /\ strike' = NoStrike /\ UNCHANGED log
     ELSE Stands(cursor.at + 1, Supervised(cursor.work, cursor.answer))
            /\ UNCHANGED <<stage, nested, strike>>
  /\ UNCHANGED <<scene, tries, clocks, runs, ports, outcome>>

\* The next run of the supervisor starts over its own input, in a new journal.
ContinueAsNew ==
  /\ stage = "up" /\ Want.op = "continue"
  /\ history' = [history EXCEPT !.input = Want.input, !.records = <<>>,
                                !.continued = @ + 1]
  /\ Down
  /\ UNCHANGED <<scene, strike, tries, clocks, runs, ports, log, outcome>>

----------------------------------------------------------------------------
(* Deadlines: [of, at], "boot" counted from when this boot came to it.     *)

Waits == stage = "up" /\ Want.op = "wait"

TimerArmed(deadline) == [is |-> "TimerArmed", deadline |-> deadline]
TimerFired == [is |-> "TimerFired"]

LastBeat == IF DOMAIN log = {} THEN 0 ELSE Max(DOMAIN log)

\* When this boot came to the deadline.
ArmedAt == IF cursor.armed = Nothing THEN clocks.boot ELSE cursor.armed

TimeLeft ==
  LET due == IF Want.deadline.of = "boot" THEN ArmedAt + Want.deadline.at - clocks.boot
             ELSE Want.deadline.at - clocks.persistent
  IN IF due < 0 THEN 0 ELSE due

ArmDeadline ==
  IF cursor.at < Len(history.records) THEN history
  ELSE [history EXCEPT !.records = Append(@, TimerArmed(Want.deadline)),
                       !.commits = Commits("AfterTimerArmed")]

Waiting ==
  /\ Waits
  /\ cursor.at < Len(history.records) =>
       /\ history.records[cursor.at + 1] = TimerArmed(Want.deadline)
       /\ cursor.at + 1 = Len(history.records)

ReplayDeadline ==
  /\ Waits /\ cursor.at < Len(history.records) /\ ~Waiting
  /\ IF /\ cursor.at + 1 < Len(history.records)
        /\ history.records[cursor.at + 1] = TimerArmed(Want.deadline)
        /\ history.records[cursor.at + 2] = TimerFired
     THEN Stands(cursor.at + 2, Supervised(cursor.work, TimerFired))
            /\ UNCHANGED <<stage, outcome>>
     ELSE Returns("Diverged") /\ UNCHANGED <<cursor, log>>
  /\ UNCHANGED <<scene, history, strike, tries, clocks, device>>

\* The reset at a new deadline.
LoseDeadline ==
  /\ Waiting /\ cursor.at = Len(history.records) /\ Struck("AfterTimerArmed")
  /\ history' = ArmDeadline
  /\ Down /\ strike' = NoStrike
  /\ UNCHANGED <<scene, tries, clocks, runs, ports, log, outcome>>

\* A deadline that has passed is recorded; one that has not lets the drive
\* return, if its beats are done, or moves the clocks.
Wait ==
  /\ Waiting
  /\ cursor.at = Len(history.records) => ~Struck("AfterTimerArmed")
  /\ IF TimeLeft = 0
     THEN /\ history' = [ArmDeadline EXCEPT !.records = Append(@, TimerFired)]
          /\ Stands(cursor.at + 2, Supervised(cursor.work, TimerFired))
          /\ UNCHANGED <<stage, clocks, outcome>>
     ELSE /\ history' = ArmDeadline
          /\ cursor' = [cursor EXCEPT !.armed = ArmedAt]
          /\ UNCHANGED log
          /\ IF LastBeat >= scene.target THEN Returns("reached") /\ UNCHANGED clocks
             ELSE /\ clocks' = [boot |-> clocks.boot + Tick,
                                persistent |-> clocks.persistent + Tick]
                  /\ UNCHANGED <<stage, outcome>>
  /\ UNCHANGED <<scene, strike, tries, device>>

----------------------------------------------------------------------------
(* The activities of the supervisor (agent/device.rs, over these ports).   *)

Idles == stage = "up" /\ cursor.handed /\ cursor.answer = Nothing
Activity(kinds) == Idles /\ nested = Nothing /\ Want.request.kind \in kinds

Completed(value) == [completed |-> TRUE, value |-> value]
Failure == [completed |-> FALSE, value |-> "failed"]

\* The answer of the outstanding activity, and the run it drove is let go.
Produced(answer) ==
  cursor' = [cursor EXCEPT !.answer = answer] /\ nested' = Nothing

EmptyInbox == [inputs |-> <<>>, taken |-> 0]

InboxOf(goal) == IF goal \in DOMAIN ports.inbox THEN ports.inbox[goal] ELSE EmptyInbox

At(plan, beat) == IF beat \in DOMAIN plan THEN plan[beat] ELSE <<>>

\* A goal's input is put behind what waits for it.
Delivered(inbox, delivery) ==
  LET held == IF delivery.goal \in DOMAIN inbox THEN inbox[delivery.goal] ELSE EmptyInbox
  IN Put(inbox, delivery.goal, [held EXCEPT !.inputs = Append(@, delivery.input)])

\* A beat's deliveries land the first time it is sensed.
Landed(beat) ==
  IF beat \in ports.delivered THEN ports
  ELSE [ports EXCEPT !.delivered = @ \cup {beat},
                     !.inbox = FoldLeft(Delivered, @, At(scene.deliveries, beat))]

Sense ==
  /\ Activity({"SENSE"})
  /\ LET beat == Want.request.beat
         inbox == Landed(beat).inbox
         ready == {goal \in DOMAIN inbox : inbox[goal].taken < Len(inbox[goal].inputs)}
         commands == At(scene.commands, beat)
     IN /\ ports' = Landed(beat)
        /\ Produced(IF Cardinality(ready) > MAX_GOALS \/ Len(commands) > MAX_COMMANDS
                    THEN Failure
                    ELSE Completed([now |-> clocks.persistent, ready |-> ready,
                                    commands |-> commands]))
  /\ UNCHANGED <<stage, scene, history, strike, tries, clocks, runs, log, outcome>>

Store ==
  /\ Activity({"STORE"})
  /\ ports' = [ports EXCEPT !.items = Put(@, Want.request.key, Want.request.item)]
  /\ Produced(Completed("stored"))
  /\ UNCHANGED <<stage, scene, history, strike, tries, clocks, runs, log, outcome>>

Load ==
  /\ Activity({"LOAD"})
  /\ Produced(IF Want.request.key \in DOMAIN ports.items
              THEN Completed(ports.items[Want.request.key]) ELSE Failure)
  /\ UNCHANGED <<stage, scene, history, strike, tries, clocks, runs, ports, log, outcome>>

----------------------------------------------------------------------------
(* A run, driven inside RUN and HARVEST: segment after segment, each over  *)
(* the run's one journal, which starts over with a segment.                *)

GoalOf(run) == run \div RunSpan

Started(run, input, segments) ==
  [run |-> run, at |-> 0, work |-> Begin(input), handed |-> FALSE,
   answer |-> Nothing, segments |-> segments]

\* A run starts from its spawn, once; one no one spawned is not known.
SelectRun ==
  /\ Activity({"RUN", "HARVEST"})
  /\ LET run == Want.request.run
         start == Want.request.start
         held == IF run \in DOMAIN runs.held THEN runs.held
                 ELSE Put(runs.held, run, NewRun(start[1], runs.armed))
     IN IF run \notin DOMAIN runs.held /\ (start = <<>> \/ GoalOf(run) = 0)
        THEN Produced(Failure) /\ UNCHANGED <<runs, ports>>
        ELSE /\ runs' = [held |-> held,
                         armed |-> IF run \in DOMAIN runs.held THEN runs.armed ELSE NoCrash]
             /\ nested' = Started(run, held[run].input, 1)
             /\ ports' = [ports EXCEPT !.goal =
                            IF Want.request.kind = "RUN" THEN GoalOf(run) ELSE @]
             /\ UNCHANGED cursor
  /\ UNCHANGED <<stage, scene, history, strike, tries, clocks, log, outcome>>

Drives == Idles /\ nested # Nothing
Held == runs.held[nested.run]
RunWant == nested.work.want

Keeps(run) == runs' = [runs EXCEPT !.held[nested.run] = run]

RunAsks == Drives /\ ~nested.handed /\ RunWant.op = "activity"
RunMatches == Held.records[nested.at + 1] = Scheduled(RunWant.request)

\* Mutant: a crash point stays armed.
StillArmed(point, run) == Down /\ Keeps(run)

\* The boot of the supervisor ends with the run's.
Fires(point, run) == Down /\ Keeps([run EXCEPT !.crash = NoCrash])

RunAfter(answer, at) ==
  [nested EXCEPT !.at = at, !.work = After(@, answer), !.handed = FALSE, !.answer = Nothing]

ReplayInRun ==
  /\ RunAsks /\ nested.at + 1 < Len(Held.records) /\ RunMatches
  /\ LET answer == Held.records[nested.at + 2]
     IN IF answer.is = "Resolved"
        THEN nested' = RunAfter(answer.answer, nested.at + 2) /\ UNCHANGED <<stage, outcome>>
        ELSE Returns("Diverged") /\ UNCHANGED nested
  /\ UNCHANGED <<supervisor, runs, ports, log>>

RedeliverInRun ==
  /\ RunAsks /\ nested.at + 1 = Len(Held.records) /\ RunMatches
  /\ nested' = [nested EXCEPT !.at = @ + 1, !.handed = TRUE]
  /\ UNCHANGED <<stage, supervisor, runs, ports, log, outcome>>

DivergeInRun ==
  /\ RunAsks /\ nested.at < Len(Held.records) /\ ~RunMatches
  /\ Returns("Diverged")
  /\ UNCHANGED <<supervisor, device, log>>

ScheduleInRun ==
  /\ RunAsks /\ nested.at = Len(Held.records)
  /\ LET point == AfterSchedule(RunWant.request)
         run == [Held EXCEPT !.records = Append(@, Scheduled(RunWant.request))]
     IN IF run.crash = point THEN Fires(point, run)
        ELSE /\ Keeps(run)
             /\ nested' = [nested EXCEPT !.at = @ + 1, !.handed = TRUE]
             /\ UNCHANGED <<stage, cursor>>
  /\ UNCHANGED <<scene, history, strike, tries, clocks, ports, log, outcome>>

\* The world, with the inbox of the goal that runs for the operator's inputs.
WorldOf(goal) ==
  [ports.world EXCEPT !.inputs = InboxOf(goal).inputs, !.taken = InboxOf(goal).taken]

\* A question no one has answered parks the run; a harvest wants its end.
DispatchInRun ==
  /\ Drives /\ nested.handed /\ nested.answer = Nothing
  /\ LET goal == ports.goal
         served == Served(WorldOf(goal), Last(Held.segments).id, RunWant.request)
     IN /\ ports' = [ports EXCEPT
              !.world = [served.world EXCEPT !.inputs = ports.world.inputs,
                                            !.taken = ports.world.taken],
              !.inbox = Put(@, goal, [inputs |-> served.world.inputs,
                                      taken |-> served.world.taken])]
        /\ IF served.answer = Nothing
           THEN Produced(IF Want.request.kind = "RUN" THEN Completed([parked |-> TRUE])
                         ELSE Failure)
           ELSE nested' = [nested EXCEPT !.answer = served.answer] /\ UNCHANGED cursor
  /\ UNCHANGED <<stage, scene, history, strike, tries, clocks, runs, log, outcome>>

RunAnswers == Drives /\ nested.answer # Nothing

\* Mutant: the model's line is not said again.
Forgotten(point) == ports.world

\* A decision lost before its record is the model's to say again.
SaidAgain(point) ==
  IF point = "BeforeDecisionCommit" THEN Unemitted(ports.world) ELSE ports.world

LoseInRun ==
  /\ RunAnswers
  /\ LET point == BeforeResolve(RunWant.request)
     IN /\ Held.crash = point
        /\ Fires(point, Held)
        /\ ports' = [ports EXCEPT !.world = SaidAgain(point)]
  /\ UNCHANGED <<scene, history, strike, tries, clocks, log, outcome>>

ResolveInRun ==
  /\ RunAnswers /\ Held.crash # BeforeResolve(RunWant.request)
  /\ LET point == AfterResolve(RunWant.request, nested.answer)
         run == [Held EXCEPT !.records = Append(@, Resolved(nested.answer))]
     IN IF run.crash = point THEN Fires(point, run)
        ELSE /\ Keeps(run)
             /\ nested' = RunAfter(nested.answer, nested.at + 1)
             /\ UNCHANGED <<stage, cursor>>
  /\ UNCHANGED <<scene, history, strike, tries, clocks, ports, log, outcome>>

FaultInRun ==
  /\ Drives /\ RunWant.op = "error"
  /\ Produced(Failure)
  /\ UNCHANGED <<stage, scene, history, strike, tries, clocks, runs, ports, log, outcome>>

\* The next segment starts over the same journal; one that is its parent
\* over again would go on for ever.
ContinueRun ==
  /\ Drives /\ RunWant.op = "continue"
  /\ LET start == RunWant.start
     IN /\ Keeps([Held EXCEPT !.records = <<>>, !.input = start,
                              !.segments = Append(@, start.seed)])
        /\ IF start = Held.input
           THEN Returns("Stalled") /\ UNCHANGED <<cursor, nested>>
           ELSE IF nested.segments = MAX_SEGMENTS
           THEN Produced(Failure) /\ UNCHANGED <<stage, outcome>>
           ELSE /\ nested' = Started(nested.run, start, nested.segments + 1)
                /\ UNCHANGED <<stage, cursor, outcome>>
  /\ UNCHANGED <<scene, history, strike, tries, clocks, ports, log>>

\* What the activity says of a run that ended.
Report(status) ==
  LET harvest == Harvest(nested.work)
      index == Want.request.index
  IN IF Want.request.kind = "RUN"
     THEN Completed([parked |-> FALSE, status |-> status, turns |-> nested.work.turns,
                     mutations |-> nested.work.mutations, harvest |-> Len(harvest)])
     ELSE IF index < Len(harvest) THEN Completed(harvest[index + 1]) ELSE Failure

\* An end is recorded once; one reached again must be the same.
ConcludeRun ==
  /\ Drives /\ RunWant.op = "conclude"
  /\ LET end == <<RunWant.status>>
     IN IF Held.terminal # <<>>
        THEN /\ Produced(IF Held.terminal = end THEN Report(RunWant.status) ELSE Failure)
             /\ UNCHANGED <<stage, runs>>
        ELSE IF Held.crash = "BeforeTerminalCommit"
        THEN Fires("BeforeTerminalCommit", Held)
        ELSE LET run == [Held EXCEPT !.terminal = end]
             IN IF Held.crash = "AfterTerminalCommit" THEN Fires("AfterTerminalCommit", run)
                ELSE Keeps(run) /\ Produced(Report(RunWant.status)) /\ UNCHANGED stage
  /\ UNCHANGED <<scene, history, strike, tries, clocks, ports, log, outcome>>

----------------------------------------------------------------------------

Supervising ==
  Boot \/ Fails \/ ReplayAnswer \/ HandOnAgain \/ DivergeFromHistory \/ HandOn
    \/ LoseAnswer \/ RecordAnswer \/ ContinueAsNew
    \/ ReplayDeadline \/ LoseDeadline \/ Wait

Serving ==
  Sense \/ Store \/ Load \/ SelectRun \/ ReplayInRun \/ RedeliverInRun \/ DivergeInRun
    \/ ScheduleInRun \/ DispatchInRun \/ LoseInRun \/ ResolveInRun \/ FaultInRun
    \/ ContinueRun \/ ConcludeRun

Next == Supervising \/ Serving

Spec == Init /\ [][Next]_avars

\* A drive is a loop of the host's one thread: it goes on while it can.
FairSpec == Spec /\ WF_avars(Next)

-----------------------------------------------------------------------------
(* What the journals tell of the device.                                   *)

Effects == ports.world.device.effects

\* No two effects have one name.
NamedOnce(effects) ==
  \A m, n \in DOMAIN effects : effects[m].id = effects[n].id => m = n

\* What a call's answer says is what the device did under its name, or that it
\* was met by a fault that passes.
Told(id, request, answer, effects) ==
  request.kind = "TOOL" /\ answer.completed =>
    \/ answer.value = Transient
    \/ \E n \in DOMAIN effects :
         /\ effects[n].id = [run |-> id, seq |-> request.call.seq]
         /\ effects[n].digest = request.call.digest
         /\ effects[n].outcome = answer.value

\* Every call's answer in a journal is what the device did.
Tells(run, effects) ==
  \A q \in 0..Len(run.records) : 2 * q + 2 =< Len(run.records) =>
    Told(Last(run.segments).id, run.records[2 * q + 1].request,
         run.records[2 * q + 2].answer, effects)

\* Under one device for all runs, over their segments, no call is performed
\* twice, and every call on record in any journal was answered with what the
\* device did under that call's name: a name that two runs shared, or a call
\* performed again after a reset, would break it (Device::dispatch of world.rs
\* under the drives of agent/host.rs).
JournalsTellTheDevice ==
  /\ NamedOnce(Effects)
  /\ \A name \in DOMAIN runs.held : Tells(runs.held[name], Effects)

=============================================================================
