------------------------------ MODULE MCDrives ------------------------------
(***************************************************************************)
(* Both drives of the host on small instances: of a run (MCHarness), or of *)
(* a supervisor and the runs it spawns (AgentHarness), whose workflow is   *)
(* outlined here as the run's is there (Agent has the whole of it).  A     *)
(* supervisor is driven undisturbed first, and once more with a reset at   *)
(* one of its records, a crash point in its first run, or both.            *)
(***************************************************************************)
EXTENDS MCHarness

VARIABLES stage, scene, history, strike, cursor, tries, clocks, runs, nested, ports,
          log, outcome,
          baseline   \* how the undisturbed drive ended

CONSTANT NoStrike

----------------------------------------------------------------------------
(* The supervisor in outline: beats, goals, the memory of the harvest, and *)
(* a checkpoint in two items.                                              *)

MCRunSpan == 10000
SpawnSpan == 100

NewCheckpoint == [beat |-> 0, goals |-> <<>>, spawns |-> 0, memory |-> {}]

Goal(id, every, rolls) ==
  [id |-> id, every |-> every, rolls |-> rolls, due |-> 1, status |-> "active", run |-> 0]

Activity(work, request) ==
  [work EXCEPT !.want = [op |-> "activity", request |-> request]]

OneTick == [of |-> "boot", at |-> 1]

\* A persistent deadline is the beat's own.
Deadline(work) ==
  IF work.input.persistent THEN [of |-> "persistent", at |-> 2 * work.cp.beat] ELSE OneTick

Beats(work) == [work EXCEPT !.want = [op |-> "wait", deadline |-> Deadline(work)]]

LoadItem(work, index) ==
  Activity(work, [kind |-> "LOAD", key |-> <<work.input.header[1], index>>])

StoreItem(work, index) ==
  Activity(work, [kind |-> "STORE", key |-> <<work.cp, index>>,
                  item |-> IF index = 0 THEN [work.cp EXCEPT !.memory = {}]
                           ELSE work.cp.memory])

MCSupervise(input) ==
  LET work == [input |-> input, cp |-> NewCheckpoint, want |-> NoWant,
               pulse |-> Nothing, goal |-> 0, left |-> 0]
  IN IF input.header = <<>> THEN Beats(work) ELSE LoadItem(work, 0)

\* The beat is over; every so many of them the checkpoint is stored.
Pulses(work, action) ==
  LET beat == work.cp.beat + 1
      done == [work EXCEPT !.cp.beat = beat,
                 !.pulse = [beat |-> beat, action |-> action,
                            goals |-> [n \in DOMAIN work.cp.goals |->
                                         work.cp.goals[n].status]]]
  IN IF beat % work.input.every = 0 THEN StoreItem(done, 0) ELSE Beats(done)

Drives(work, n, start) ==
  Activity([work EXCEPT !.goal = n],
           [kind |-> "RUN", run |-> work.cp.goals[n].run, start |-> start, index |-> 0])

Brief(work, n) ==
  ("brief" :> work.cp.memory)
    @@ [Seed(5, 4, work.cp.goals[n].rolls) EXCEPT !.id = work.cp.goals[n].run]

Spawns(work, n) ==
  LET run == work.cp.goals[n].id * MCRunSpan + work.cp.spawns * SpawnSpan
      spawned == [work EXCEPT !.cp.spawns = @ + 1, !.cp.goals[n].run = run]
  IN Drives(spawned, n, <<[seed |-> Brief(spawned, n), chunks |-> {}]>>)

Sensed(work0, sense) ==
  LET work == [work0 EXCEPT !.cp.goals = @ \o sense.commands]
      goals == work.cp.goals
      waiting == {n \in DOMAIN goals :
                    goals[n].status = "waiting" /\ goals[n].id \in sense.ready}
      due == {n \in DOMAIN goals :
                goals[n].status = "active" /\ goals[n].due <= work.cp.beat + 1}
  IN IF waiting # {} THEN Drives(work, Min(waiting), <<>>)
     ELSE IF due # {} THEN Spawns(work, Min(due))
     ELSE Pulses(work, "idle")

Settles(work, status) ==
  LET n == work.goal
      every == work.cp.goals[n].every
  IN [work EXCEPT !.cp.goals[n].due = work.cp.beat + 1 + every,
                  !.cp.goals[n].status = IF status # "Completed" THEN "failed"
                                         ELSE IF every = 0 THEN "done" ELSE "active"]

Harvests(work, index, count) ==
  IF index = count THEN Pulses(work, "settled")
  ELSE Activity([work EXCEPT !.left = count],
                [kind |-> "HARVEST", run |-> work.cp.goals[work.goal].run,
                 start |-> <<>>, index |-> index])

RunReported(work, answer) ==
  IF ~answer.completed THEN Pulses(Settles(work, "StorageFault"), "failed")
  ELSE IF answer.value.parked
  THEN Pulses([work EXCEPT !.cp.goals[work.goal].status = "waiting"], "parked")
  ELSE Harvests(Settles(work, answer.value.status), 0, answer.value.harvest)

MCSupervised(work0, answer) ==
  LET work == [work0 EXCEPT !.pulse = Nothing]
      request == work.want.request
  IN IF work.want.op = "wait"
     THEN Activity(work, [kind |-> "SENSE", beat |-> work.cp.beat + 1])
     ELSE IF request.kind = "SENSE" THEN Sensed(work, answer.value)
     ELSE IF request.kind = "RUN" THEN RunReported(work, answer)
     ELSE IF request.kind = "HARVEST"
     THEN Harvests([work EXCEPT !.cp.memory =
                      {e \in @ : e.key # answer.value.key} \cup {answer.value}],
                   request.index + 1, work.left)
     ELSE IF request.kind = "LOAD"
     THEN IF ~answer.completed THEN [work EXCEPT !.want = [op |-> "fault"]]
          ELSE IF request.key[2] = 0 THEN LoadItem([work EXCEPT !.cp = answer.value], 1)
          ELSE Beats([work EXCEPT !.cp.memory = answer.value])
     ELSE IF request.key[2] = 0 THEN StoreItem(work, 1)
     ELSE [work EXCEPT !.want = [op |-> "continue",
                                 input |-> [work.input EXCEPT !.header = <<work.cp>>]]]

MCHarvest(work) ==
  HarvestSet(work.carried.harvester, "goal", work.want.status, <<"summary">>)

----------------------------------------------------------------------------
(* The scenes: the mixed workload of tests/always_on.rs, with checkpoints  *)
(* and without, and one whose runs roll over.                              *)

Read == CallLine("read", 1, 0)
Mixed ==
  <<AskLine, Read, FinishLine, CallLine("write", 0, High), FinishLine, Read, FinishLine>>

MixedScene(every, persistent, target) ==
  [input |-> [header |-> <<>>, every |-> every, persistent |-> persistent],
   world |-> NewWorld(Mixed, NoFaults, <<>>, {}),
   commands |-> 1 :> <<Goal(1, 0, FALSE), Goal(2, 2, FALSE)>>,
   deliveries |-> 3 :> <<[goal |-> 1, input |-> "pin 4"]>>,
   target |-> target]

RollingScene ==
  [input |-> [header |-> <<>>, every |-> 2, persistent |-> FALSE],
   world |-> NewWorld(<<Read, CallLine("read", 2, 0), CallLine("read", 3, 0), FinishLine>>,
                      NoFaults, <<>>, {}),
   commands |-> 1 :> <<Goal(1, 0, TRUE)>>, deliveries |-> <<>>, target |-> 2]

\* A checkpoint no one stored.
LostScene == [RollingScene EXCEPT !.input.header = <<NewCheckpoint>>]

\* The third beat of the longer one finds the model without a line.
MCScenes ==
  {MixedScene(9, FALSE, 5), MixedScene(2, TRUE, 7), RollingScene, LostScene}

MCStrikes ==
  {NoStrike}
    \cup [kind : {"AfterSchedule", "BeforeResolve", "AfterResolve", "AfterTimerArmed"},
          nth : 1..20]

S == INSTANCE AgentHarness WITH
       Harvest <- MCHarvest, Supervise <- MCSupervise, Supervised <- MCSupervised,
       Scenes <- MCScenes, Points <- MCCrashes, Strikes <- MCStrikes, Tick <- 1,
       RunSpan <- MCRunSpan, MAX_GOALS <- 8, MAX_COMMANDS <- 3,
       MAX_TRIES <- 64, MAX_SEGMENTS <- 64

----------------------------------------------------------------------------

\* What the drive of a supervisor leaves behind: its state, its pulses, the
\* journals of its runs with the prompts in them, what the device was made to
\* do and what came of the operator's input.
LeftBehind ==
  [state |-> cursor.work.cp, pulses |-> log, ledger |-> ports.world.device.ledger,
   inbox |-> ports.inbox,
   runs |-> [run \in DOMAIN runs.held |->
               [segments |-> runs.held[run].segments, records |-> runs.held[run].records,
                terminal |-> runs.held[run].terminal]]]

\* The drive is made once more, with a reset and a crash point in its way.
DriveOnceMore ==
  /\ stage = "driven" /\ outcome = "reached" /\ baseline = Nothing
  /\ baseline' = LeftBehind
  /\ stage' = "boot" /\ outcome' = "none"
  /\ strike' \in {NoStrike} \cup {s \in MCStrikes \ {NoStrike} : s.nth <= history.commits[s.kind]}
  /\ \E point \in MCCrashes : runs' = [held |-> <<>>, armed |-> point]
  /\ history' = S!NewHistory(scene.input)
  /\ cursor' = S!NewCursor /\ tries' = 0 /\ nested' = Nothing /\ log' = <<>>
  /\ clocks' = [boot |-> 0, persistent |-> 0]
  /\ ports' = S!NewPorts(scene.world)
  /\ UNCHANGED scene

harness == <<vars, first>>
supervision ==
  <<stage, scene, history, strike, cursor, tries, clocks, runs, nested, ports, log, outcome>>

\* No supervisor, or no run of its own, is driven.
NoSupervisor ==
  /\ stage = "driven" /\ outcome = "idle" /\ scene = RollingScene
  /\ history = S!NewHistory(scene.input) /\ strike = NoStrike /\ cursor = S!NewCursor
  /\ tries = 0 /\ clocks = [boot |-> 0, persistent |-> 0]
  /\ runs = [held |-> <<>>, armed |-> NoCrash] /\ nested = Nothing
  /\ ports = S!NewPorts(scene.world) /\ log = <<>>

NoRun ==
  /\ phase = "returned" /\ result = NoResult /\ drives = MaxDrives
  /\ seed = Seed(5, 4, FALSE) /\ world = NewWorld(Mixed, NoFaults, <<>>, {})
  /\ handoff = {} /\ journal = NewJournal /\ past = <<>> /\ boot = NewBoot /\ boots = 0
  /\ armed = NoCrash /\ crash = NoCrash /\ reset = NoReset /\ confirm = FALSE
  /\ first = [seed |-> seed, world |-> world]

DrivesInit ==
  /\ baseline = Nothing
  /\ \/ MCInit /\ NoSupervisor
     \/ NoRun /\ S!Init /\ strike = NoStrike /\ runs.armed = NoCrash

Over == phase = "returned" /\ stage = "driven" /\ UNCHANGED <<harness, supervision, baseline>>

DrivesNext ==
  \/ Next /\ UNCHANGED <<first, supervision, baseline>>
  \/ S!Next /\ UNCHANGED <<harness, baseline>>
  \/ DriveOnceMore /\ UNCHANGED harness
  \/ Over

\* The fairness of Harness and of AgentHarness (no other state deadlocks): a
\* drive that has not returned can always go on, so it returns or goes on for
\* ever.
DrivesSpec ==
  /\ DrivesInit
  /\ [][DrivesNext]_<<harness, supervision, baseline>>
  /\ []<>(phase = "returned") \/ []<><<Driving>>_harness
  /\ []<>(stage = "driven") \/ []<><<S!Next>>_supervision

\* A reset at any record of the supervisor, and a crash at any point of its
\* first run, leave what the undisturbed drive leaves (assert_same of
\* tests/always_on.rs).
ResetsAreInvisible ==
  stage = "driven" /\ baseline # Nothing => outcome = "reached" /\ LeftBehind = baseline

\* The device's effects and the journals of all runs agree, through the resets
\* and crashes of a supervisor's drives (Device::dispatch of world.rs).
JournalsTellTheDevice == S!JournalsTellTheDevice

\* A drive of a supervisor comes to its last beat, whatever stops its boots;
\* only a checkpoint that is missing ends it before.  A drive of a run returns
\* likewise, with its run's end, its question, or a fault named in Settled.
DrivesArrive ==
  []<>(/\ Settled /\ stage = "driven"
       /\ outcome \in {"idle", IF scene = LostScene THEN "Agent" ELSE "reached"})

=============================================================================
