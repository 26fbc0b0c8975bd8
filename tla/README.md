# Models and proofs of the esper agent

esper is an agent harness for a microcontroller that survives power loss at any
instant. Nothing it does is held only in memory: a *workflow* asks the world for
answers, every answer is recorded in a journal before the workflow sees it, and
after a reset the workflow is run again from its beginning over the recorded
answers. The journal library (Waymaker) is outside this repository; what is
inside is everything that has to be right for the promise to hold: the rules of
goals, memory, budgets and monitors (`esper-core`), the two workflows that use
them, the supervisor and the run (`esper-runtime`), and the flash layouts and
ports of the device (`esper-board`).

This directory models those parts in TLA+, checks them with TLC on small
instances and proves the properties that matter most with TLAPS for every value
of the constants. `PROJECT.json` lists every run, theorem, mapped definition and
hazard; this file explains them.

## The system

| component | state it keeps | operations | talks to |
|---|---|---|---|
| goal ledger and scheduler (`esper-core` `goal.rs`, `beat.rs`) | up to eight goals: status, what is left of the envelope, the grant and reservation of a run in flight, parked question, due beat, failures; the next goal id | admit, spawn, park, resume, report, operator events, pick | the supervisor |
| memory store and brief (`memory.rs`, `brief.rs`) | entries with name, pin and stamp | write (supersede, evict), forget, pin quota, recall, compose | the supervisor |
| supervisor (`agent/mod.rs`) | ledger, memory, last beat, spawn sequence, position in the beat | the beat: SENSE, apply, pick, RUN, HARVEST, pulse, checkpoint, timer | journal, device dispatcher |
| wire formats and records (`agent/wire.rs`, `run/wire.rs`, `checkpoint.rs`, `snapshot.rs`, `seed.rs`) | none | encode, decode, with every rule of what they decode into | everything that crosses a record |
| item log (`items.rs`) | two flash areas, each with generation, digest and items | store, load | dispatchers |
| run (`run/mod.rs`) | position, call, intent, budgets, fold, harvester, monitor, prompt | the ReAct loop, rollover | journal, run dispatcher |
| budget, monitor, compaction, harvester, lineage (`esper-core`) | inside the run | spend, observe, fold, keep, hand on | the run |
| decisions, registry, masking (`decision.rs`, `registry.rs`, `mask.rs`), tool protocol (`esper-protocol`) | none | parse a line, validate arguments, authorize, mask a report | the run, the run dispatcher |
| model backends (`backend.rs`, `jev/`) | lines emitted, receipts | infer, unemit | the run dispatcher, the network |
| run dispatcher (`run/device.rs`) | none | tool calls, read-backs, asks, snapshot stores | ports, item log, operator |
| device dispatcher (`agent/device.rs`) | RAM copies of what it drives | SENSE, RUN, HARVEST, STORE, LOAD | run store, operator, item log |
| run store (`runs.rs`, `slot.rs`) | four slots of two flash banks | select, commission, roll over, reinstall | device dispatcher |
| operator channel (`operator.rs`) | command queue, typed inputs, all in RAM | take a line, drain commands, peek and take inputs | UART, dispatchers |
| main loop (`boards/esp32s3/src/main.rs`) | none | boot the supervisor, sleep to the deadline, poll the UART | everything |
| host journals and drives (`journal.rs`, `run/host.rs`, `agent/host.rs`), world (`world.rs`), traces (`trace.rs`) | records of a run and of a supervisor, a fake device, scripted models and inputs | schedule, resolve, wait, continue as new; drive over crashes and resets; read a trace back | the workflows, in tests and evaluation |

What is hard in it:

* **Crashes.** A reset may strike between any two flash writes, between an
  effect and the record of its answer, or inside a checkpoint. Effects are
  performed at least once; answers are recorded once. What the world gave for an
  answer that was lost (a model's line, the operator's input, a tool's report) has to be
  given again.
* **Histories that are cut.** Both workflows end their journal and start a new
  one from what they carried over (the supervisor from a checkpoint, a run from
  a snapshot). What is forgotten there is forgotten for good.
* **Two judges of one fact.** The scheduler picks a goal by one piece of code,
  the ledger accepts it by another; a record is written by one function and read by
  another; the frames of a run are counted as it goes and derived again from its journal. A
  disagreement is an error on every replay.
* **Conservation.** Turns and mutations are granted to a goal, clamped and
  escrowed at a spawn, spent by the segments of a run, and refunded.
* **Everything is bounded.** Eight goals, a memory of fixed size with pinned
  entries, an item area of fixed size, a fold, a prompt, a brief and records of fixed size. What happens at
  each limit is a design decision that few tests reach.
* **Outside text.** A model's answer may be cut, malformed or late, a tool's report may hold a
  secret, and an observation may be shown in part only; what is decided from them must be what was said.
* **Progress.** Parked runs, backed-off goals, priorities, retried interval
  checkpoints: each of them could starve something.

What makes each component correct:

* ledger: no envelope widens; what is escrowed comes back or was spent; a run in
  flight is never dropped or duplicated; the checkpoint always decodes;
* scheduler: never picks what the ledger refuses; serves every active goal;
* memory: pinned notes are never evicted, a harvest always finds room, and a brief tells
  a run what ranks first and nothing of another goal's end;
* item log: an item whose store was answered is loadable; the log behaves as the
  simple store its callers think it is; the newest checkpoint survives the
  writing of the next;
* records: what was written is read again, whole, within its size; no two pages are one record;
* run: spends its grant once over all segments; never repeats what it ruled out;
  never loops; names its effects uniquely; harvests as if it had never been cut;
  ends;
* models and tools: only a full answer decides, a line is emitted
  once, no secret is recorded, every question settles;
* operator channel: commands are obeyed in their turn and once, and typed input reaches the run that waits;
* host drives: crashes and resets leave no trace, effects happen once, every drive arrives.

## The modules

```
Goals ──┐                                    ItemLog ── Checkpoints ── MCCheckpoints
        ├─ Agent ── MCAgent ── MCScripts          │        └── CheckpointsProofs
Memory ─┘    │          └──── MCOperator          └ implements ItemStore
   └ Briefs ─ ─ ─ ─ ─ ─ ─ (MCScripts)
             ├ implements Escrow             Wire ── AgentRecords ── RunRecords ── Records
             ├── AgentProofs                                          (in MCCheckpoints)
             │                               Folding ── Carried ── MCHarness
Operator ─┬──┘                                  └ ─ ─ (MCCheckpoints)
          └── OperatedAgent ── MCOperator    World ──┬── Harness ─┬─ MCHarness ── MCDrives
               ├ implements Mailbox          Traces ─┤            └─ HarnessProofs    │
               └── OperatedProofs                    └── AgentHarness ─ ─ ─ ─ ─ ─ ─ ─ ┘
                                                              └── AgentHarnessProofs
                                             Tools ── SystemOne ──┬── Turns ─┬─ MCTurns
BankPair ── Board ─┬─ MCBoard                Masking ─────────────┘          └─ TurnsProofs
                   ├─ BoardForgets
                   ├─ BoardProofs                            Run ── RunProofs
                   └ implements RunStore
```

### The agent: `Goals`, `Memory`, `Briefs`, `Agent`, `Escrow`

`Goals` is `goal.rs` and `beat.rs`: the record of a goal, its transition table,
the clamped grant of a spawn, the refund of a settlement, backoff, and the pick
(a parked goal whose input is ready first, else the due and fundable goal of the
highest priority, the longest due one of those). How long a goal waits only flags it
overdue in a pulse and decides nothing. `Memory` is `memory.rs`: the
store as the sequence of its entries, oldest stamp first, and the stamp the next write gets; a write that supersedes its
own name and evicts the oldest unpinned entry, the pin quota, and the refusal of a write once the stamps
(`MaxStamp`, 2^32 - 1 in the code) have run out. Slots, labels and values are left out. Both are pure;
`Agent` holds their state in variables and is the beat loop of `agent/mod.rs`.

| `Agent` action | code |
|---|---|
| `Sense` | the timer fires and the world answers SENSE: commands, and which parked goals have input |
| `ApplyCommand` (`AddGoal`, `Control`, `Remember`, `Forget`) | the commands, one at a time; a refused one changes nothing |
| `PickIdle`, `PickSpawn`, `PickResume` | the pick and what `drive` does to the picked goal before it asks for a RUN |
| `RunParks`, `RunSettles`, `RunFails` | the RUN answer: suspended on a question, concluded with what it left unspent, or no answer at all |
| `Harvest`, `SkipHarvest` | each HARVEST answer and its memory write, or its failure |

The end of a beat (its number, the timer) is `EndBeat`, part of the action that
ends it. Pulses are left out: they read the state and nothing reads them. The brief a spawn
composes reads the state too; `Briefs` has it. The last action of the goal table, `reap`, is not in the
model because nothing in the runtime calls it. `asks` counts the questions a run
asked: each cost it a turn, so it cannot ask more than its grant.

One step is what the workflow does between two answers of the world. A reset is
no step: it replays to the same point, which is why the model has none (what a
reset does to *flash* is the subject of `Checkpoints`; what it does to an
operator's typed input is the constant `InputsVanish`, and `OperatedAgent` in full). `fault` records a core
rule that refused a step the workflow took for granted; in the code that is an
error returned at every boot from then on.

`Escrow` is the abstract specification of what a unit of budget goes through: a
pot per goal, moved to escrow when a run starts, and when it ends partly back to
the pot and partly gone. `BudgetsEscrowed` states that `Agent` implements it, in turns
and in mutations, under the mapping that reads a goal's envelope and reservation.

`Briefs` is `recall` of `memory.rs` and `brief.rs`: four tiers of entries, the newest of a tier
first, `RECALL_K` at most; a line for the objective and one for each entry, until one does
not fit in `BRIEF_CAP` bytes. A text is its length and whether it is free of control bytes.

### The operator: `Operator`, `OperatedAgent`, `Mailbox`

`Operator` is `operator.rs`: what a finished line becomes (a command for the queue, or input in one of
the slots), what SENSE peeks at and drains, and what ASK takes from the slot of the selected
goal. `OperatedAgent` composes it with `Agent` as the board does: the main loop pumps the UART between
boots and never during one, SENSE drains the queue when it is *answered*, a driven run reads its input later in the
same boot. A reset empties the channel and keeps what is recorded; a media refusal ends the boot and
loses the answer that was dispatched and not recorded, with what it drained.

| `OperatedAgent` action | code |
|---|---|
| `Type` | `pump` feeds a line |
| `Boot`, `SenseChannel`, `Obey`, `Pick` | a boot: the beat's SENSE answered from the channel, its commands, its pick |
| `DispatchRun`, `RunAsks`, `Answer`, `Park`, `Report`, `ReadHarvest` | a RUN selects its goal; the run asks, takes its input or parks; the report, the harvest |
| `MediaStops`, `Reset` | what ends a boot early |

`Mailbox` is what the channel promises of commands: first come first obeyed, at most once, and only an
unrecorded one lost. A line is fed whole. (A reset in the middle of one makes its tail a line
of its own; the model leaves that out.)

### Checkpoints: `ItemLog`, `Checkpoints`, `ItemStore`

`ItemLog` is `items.rs`: two areas, each erased and reopened under the next
generation for the first item of a new digest (the older area is taken), then
appended to; loading walks the newest area that holds the digest. A word written
is a step of its own, so a reset can leave an area erased, without header, with
an item half written, or with a torn length word the walk has to get past.
`Checkpoints` drives it as `agent/mod.rs` does: store the items of a checkpoint
in order, abandon the interval on the first refusal and try again at the next
one, continue as new once all are answered, restore at a boot, reinstall a
refused journal from its segment's input. `ItemStore` is what the supervisor
thinks the log is: items bound to a digest, of which an answered store makes one
more loadable, while opening a digest may drop another.

Abstractions: an area is a sequence of whole item indices under one digest (the
digest covers the bytes, so an item is determined by digest and index); every
item takes one slot; an erase is torn as a header is torn, leaving an area
without header; a write torn inside a word matters only for the length word.

### Records: `Wire`, `AgentRecords`, `RunRecords`, `Records`

`Wire` is the writer and the reader of a page: cells of so many bytes on one side, fields that take
the next bytes in the width they expect on the other, with the constraints a reader
checks while it reads. `AgentRecords` and `RunRecords` have, for every record of `agent/wire.rs`, `run/wire.rs`,
`checkpoint.rs`, `snapshot.rs` and `seed.rs`, both functions separately, as the code
does, and the size constant declared for it. `Records` says what must hold of each. The bytes of a text are one cell
with its length; a page whose altered cells do not lie on field boundaries counts as refused.

### The run: `Run`

`Run` is the state machine of `run/mod.rs` with the parts of `esper-core` it
drives. `sm` has the code's positions (Recover, Gather, Infer, Repair, Authorize,
AwaitInput, Observe, Verify, Account, Finalize) and one action, or one per
outcome, for each. A call is one *path*, its tool with its arguments; what the
model answers is a free choice among the calls, a question, FINISH and an
invalid line. The size of a prompt is chosen in units and compared with the
seed's context budget, so a rollover can come at any Gather. `Continue` is the
cut itself: it lists what the child takes over (budgets, fold, harvest, ids) and
what starts anew (monitor, repairs, prompt, effect numbers). A reset replays to
where it struck; the only thing it changes is the device's clock, on which the
read-back of a delay depends (`thisBoot`).

Left out of `Run`, with the reason: budget units other than turns and mutations
(checked by the loop, never drawn on); pin direction, which only the device
knows, is a free refusal; labels too long for the harvester; the limit of 64
segments per drive, which belongs to the dispatcher; the stores and loads of
snapshot chunks are one step that may fail as `Device`.

Four places where the code says something a reader may not expect, and `Run`
follows the code: the monitor ends a run when its *last* mutation is used, so
the mutation check in `authorize` is a second line that no run reaches; three
transient answers end a run as Stuck; a rollover resets the count of repairs;
a path that failed once and succeeded later in the same segment is still ruled
out in the next.

### What a run carries: `Folding`, `Carried`

`Folding` is `compact.rs`: the fold of frames into bounded lists, of which failed paths and open obligations
are never dropped (a frame with one too many is refused) and the others lose their oldest
entry. `Carried` has the harvester of `harvest.rs` and the part of `run/mod.rs`
that feeds both, one operator per answer, together with the frame counter and the fold inherited
from the parent. The runtime folds one frame at a time and a fold that refused a frame stays as
it is until the rollover reports it. Resolving a pending item and the lists of completed and open goals have
operators in `compact.rs` that the runtime never calls.

### Models and tools: `Tools`, `Masking`, `SystemOne`, `Turns`

`Tools` is the contract of the six tools, the validation of their arguments, the decision grammar and the
capabilities. `Masking` is `mask.rs` over classes of characters: tokens, access keys, armoured keys, addresses,
phone numbers, one pass with a rewind. `SystemOne` is a question to the network model: dialling
directly or through a tunnel (whose proxy may never answer: the socket has no time limit yet), writing, reading the response cell by cell to its length, to the close or to a limit,
parsing its answers and rendering a line. `Turns` puts a run's turns together: the tail of the prompt
(which may cut the last observation, with or without room for the marker), one of the three backends, the record of the
line, its decoding, the call, the masked report, which the next prompts show whatever the operator answers in between; a crash before a record takes the emission
back. Text is reduced to what the parsers tell apart: nesting, repeated keys, what follows, the fields.

### The host: `World`, `Traces`, `Harness`, `AgentHarness`

`World` is `world.rs`: a device that remembers every effect by name and answers it again, a plan of transient
faults, the model's lines, the operator's inputs, and the points a drive may be cut at. `Traces` derives frames from a
journal and counts over them what is left. `Harness` is the run journal and the drive of `run/host.rs`,
`AgentHarness` the supervisor journal with its deadlines and the runs it drives inside its own activities
(`agent/host.rs`). Both take *any* deterministic workflow as a constant: where it stands after the answers so far, and what it
wants next.

| action | code |
|---|---|
| `Harness`: `Boot`, `Replay`, `Redeliver`, `Diverge`, `ScheduleNew`, `Dispatched`, `Resolve` and its endings by a reset `ResolveCrashed` and `ResolveLost` | one record at a time; a crash point armed or a reset armed at a record ends the boot |
| `Harness`: `ContinueAsNew`, `NextSegment`, `Conclude`, `Confirm`, `Finish`, `DriveAgain` | a new journal for the child; the result; another drive of a suspended first segment with late input |
| `AgentHarness`: the same for the supervisor, `Wait` and its deadline, SENSE, STORE, LOAD, RUN, HARVEST | `MemJournal`, `HostRuns`, `HostAgent` |

`MCHarness` gives `Harness` an outline of the run with the real fold and harvester (`Carried`), `MCDrives` gives
`AgentHarness` an outline of the supervisor (`Agent` has the whole of it) and drives it once undisturbed and
once more with a reset at one of its records, a crash point in its first run, or both. A workflow that is a function of its
answers never diverges from its journal (`ReplaysNeverDiverge`), so the refusals of a diverging replay, and giving up after the last of
the boots allowed, are modelled and never reached.

### The board: `BankPair`, `Board`, `BoardForgets`, `RunStore`

`BankPair` is `slot.rs`: a slot is two flash banks, each blank or sealed at a
generation, and the bank of the higher generation is the one in force. What a
write leaves when a reset cuts it is an operator of its own: the first install
erases the pair before it seals bank A, a further one touches only the bank that
is not in force.

`Board` is the dispatcher's RUN and HARVEST (`agent/device.rs`) over the slots
(`runs.rs`), asked by a supervisor that has one request outstanding at a time. A
reset loses the dispatcher's memory and nothing else: the request and the ledger are in
the supervisor's journal, the runs in their slots.

| `Board` action | code |
|---|---|
| `Spawn`, `Resume` | the supervisor asks for a RUN: a new run under its reservation, or its parked one |
| `Commission`, `CommissionCut`, `EraseCut` | `FlashRuns::select` finds no slot with the run and installs it in the slot `vacancy` picks; the same cut between two barriers, or inside the erase |
| `RollOver`, `RollOverCut` | the segment continues as new into the other bank, or is cut before the seal |
| `Tear` | a reset inside a frame: Waymaker will refuse the journal |
| `Reinstall`, `ReinstallCut` | `FlashRuns::boot` answers a refused journal by installing the segment's own input again |
| `EndRun`, `FaultRun` | the driver writes the terminal record, the run's own or an empty failed one |
| `AnswerParked`, `AnswerSettled`, `AnswerHarvest`, `AnswerFailed`, `GiveUp`, `Refuse` | the answer, durable together with what it does to the ledger: parked, concluded, the last harvest entry, a faulted run, `MAX_SEGMENTS` boots, no slot |
| `Reset` | power fails where it changes nothing on flash |

The ledger is reduced to what it says of runs: which run a goal holds, under
which reservation, and whether it waits. `Agent` has the rest. A run is reduced to the turns of its
seed and the turns left at the start of its segment; what it does in between is
`Run`. `RunStore` is the abstract specification: a run is created once, under
one seed; what it has left only goes down; an ended run does not change; a run is
dropped only once it ended or was let go of.

Two ways to let go of a run unfinished are in the code and hence in the model (`letGo`).
A dispatch that followed a run over `MAX_SEGMENTS` segments settles its goal as a storage
fault and leaves the run open in its slot. And a reset inside the erase of a slot
to be reused leaves its second half, which may be an unfinished older segment of the run that
was to be erased; `slot.rs:10-12` says a reset anywhere leaves a pair with no
authoritative bank, which is true of the steps and not of the inside of one. In both cases the slot is no
vacancy to other goals until the run's own goal spawns again.

`BoardForgets` adds the supervisor's own journal: a checkpoint of ledger and
spawn sequence, and a reinstall that goes back to it while the slots keep what they hold.

Left out: header bytes, CRCs and the segment number in the low bits of a run id;
the brief and capabilities in a seed (which seed a run has is told by its turns);
refusals of the driver other than a refused journal; media faults, which halt a boot as a cut does.

## What is checked

| run | question | instance | distinct states |
|---|---|---|---|
| `agent_scripts` | is the ledger right under every control and ending? is there room for every harvest? does every active goal get its beat? | two scripts: two goals (one whose last run gets less than a full grant, a standing one that outranks it) under every control; one goal with three memory entries of which two are recalled, three notes, harvests of up to two | 1.0 M |
| `operator` | are commands obeyed in turn, does typed input arrive? | two goals, five lines, two input slots, two commands per SENSE, one reset or media refusal | 433 k |
| `checkpoint_log` | is the log the store its callers think it is? is what is stored read again? | three items in six slots, three digests, up to three mishaps of any kind; or resets alone and every interval a new state | 1.2 M |
| `checkpoint_returned` | documents: the newest is always on media | no mishap; the state may return | violation |
| `run_segments` | does a rollover keep what the next segment relies on? | six turns and mutations, one read, two writes, one place for a failed path, prompts of 1 or 8 against 10 | 4.4 M |
| `run_device` | does a run end within its grant whatever the device answers? | four turns, two mutations, a wait, a forbidden write, transients, failures, one reset | 308 k |
| `run_unverified` | documents: no Completed after a failed read-back | one segment | violation |
| `board_slots` | do the slots keep every run under its seed, whatever is cut? | three goals over two slots, three spawns of one or two turns, two boots per dispatch, two mishaps of any kind | 403 k |
| `board_forgets` | documents: a torn write never costs the agent | two goals over two slots; the supervisor's journal torn once | violation |
| `model_turns` | does only what was said in full decide? | three turns of each backend, some two dozen responses good and bad, three rooms for the prompt's tail, one crash | 188 k |
| `masked_delay` | documents: a delay is read back from its record | one delay at uptimes of three to eight digits, the code's own limits of a phone number | violation |
| `host_drives` | does any crash or reset show? | runs of several scripts under every crash point and reset; four scenes of a supervisor with a reset at any record and a crash in its run | 181 k |

### The properties

* `LedgerNeverRefuses`: no pick, spawn, report or settlement is refused by the
  ledger. The refund half relies on a run never reporting more left than it was
  granted, which is what `SpendsItsGrant` of `Run` shows.
* `CheckpointRestorable`: at every point where a checkpoint may be cut, ledger
  and memory satisfy the rules of `restore_goal` and `restore_entry`: no goal runs, envelopes hold, ids and
  stamps are below their allocators, keys and stamps are distinct, quotas are kept.
* `ObligationKept` (action property): a goal lets go of its run only in the
  settlement of that run; an operator's control, another goal's beat or a retry
  never drops or replaces it.
* `BudgetsEscrowed`: refinement of `Escrow`, in turns and in mutations.
* `HarvestNeverRefused`: whatever is pinned, a harvested entry finds room; only a store whose stamps have
  run out refuses one (`MemoryStampsExhausted`), which then ends the supervisor.
  `PinnedNeverEvicted` (action property): only a Forget takes a pinned note away.
  `BriefsAreRecall`: of whatever memory is reached, recall leaves out nothing that outranks what it
  takes, and the brief is all of it up to the first line that does not fit, in a text the receiver accepts.
* `EventuallyServed`: an active goal does not stay active for ever: it is spawned,
  or the operator pauses or retires it, whatever outranks it.
* `CommandsInTurn`: refinement of `Mailbox`. `ResumedFindsInput`: a run resumed for its answer finds it.
  `InputIsTaken`: a goal parked with its answer in the channel gets it, whatever else is due.
* `AnsweredIsLoadable`: each item a STORE was answered for can be loaded, which is
  all the supervisor knows when it continues as new. `LogIsStore`: the refinement.
  `NewestStays`: the checkpoint a segment starts from stays whole while the
  next is written, as long as states do not return. `ContinuesAsNew`: the journal is folded again and again.
* `RecordsHold`: each record is read back as it was written, within its declared size, never from a
  proper prefix of its page, and no page altered in one integer stands for the same record.
  `CompactionKeeps`: a fold holds every failed path and obligation of the frames it took, once, and the newest
  of the rest; what it refuses leaves these alone.
* `NeverLoops`, `RuledOutStaysRuledOut`, and in `run_device` `EffectNamesOneCall`: stated over the run's history (`trail`), not over what
  the monitor or fold hold, so that they can tell when those are wrong.
* `NeverFaultsItself`, `SpendsItsGrant`, `Settles`: the
  run's own guards are never needed; turns and mutations left and spent add up
  to the grant; a driven run ends or waits for the operator.
* `SlotsAgree`: no pair is ever ambiguous and no run is in two slots, so that what
  `select` finds first is the run. `DrivesCommittedSeed`: a run in a slot has the
  seed its goal's reservation paid for, and no more left, through every rollover,
  cut and reinstall.
* `RefusedOnlyWhenFull` (action property): a spawn is refused only when every slot
  holds an unfinished run that a goal still holds or the supervisor let go of.
* `StoreIsRunStore`: the refinement of `RunStore`. `Answers`: every request is
  answered, past torn journals, cuts in their repair and runs without end.
* `OnlyFullAnswersDecide`: a line of the network model on record stands on a response of status 200,
  read to the end of its document and not past it, of the pinned model. `EmissionsAreRecorded`: what a model has
  emitted is what was recorded, and the one line about to be. `RecordsHoldNoSecret`: no recorded report
  holds a token or access key. `QuestionsSettle`: every question gets its answer or its fault, whatever the server
  does, unless the proxy stops answering for ever.
* `EffectsOnce`: in a run driven by itself, the device performs a call once however often it is handed on: no two effects have one name, a recorded
  outcome is that of an effect, and an effect is on record or of the one call not yet answered. `CrashesLeaveNoTrace`: a
  run crashed or reset anywhere leaves the records and ends of the undisturbed run, segment by segment, and a device that did
  what they tell, in their order. `TraceIsRun`: the trace
  counts what the run counted. `FoldIsFrames`: the fold built as the run goes is the fold of the frames derived from
  its journal. `HarvestIsRecords`: the harvest carried over all segments is the one the records earned.
  `ResetsAreInvisible`: the same for the supervisor: state, pulses, runs, effects and input. `JournalsTellTheDevice`: under a supervisor, no call
  of any of its runs is performed twice, and each recorded answer of a call is what the one device did under that call's name. `DrivesArrive`: every drive returns.

Type invariants are stated in every state module; those of `Agent`, `Checkpoints`, `Run`, `Board`, `Turns`, `Harness` and
`OperatedAgent` are theorems and need no run. Every property has a mutant in `PROJECT.json`: a plausible slip in one mapped
definition that makes TLC find the property violated under the same
configuration.

### Bounds

All bounds are constants of the configurations or are named in an MC module.

* Agent: beats are only compared and added to, so `MCAgent` moves the origin to
  the last beat between two beats (`ShiftOrigin`) and keeps due beats at most
  `Horizon` back. There is no bound on how long the agent lives. `MaxId = 2`
  makes the id allocator run out inside the instance. `ShiftOrigin` renumbers the stamps by rank as well, which keeps their order and
  which of them are alike, so `MaxStamp = 16` is never reached: that a store out of stamps is the only one to refuse a harvest is proved
  (`HarvestsAreWritten`). `MaxMemory = 3`, `MaxPinned = 2`, `RECALL_K = 2` and `BRIEF_CAP = 200` stand for 32, 8, 4 and 256: as in the code
  the store holds more than is recalled, notes alone can fill a recall, and a brief can end before an entry that would still have fitted.
  the ledger and stands still in the instances. The ledger's script has no notes and the memory's no second goal,
  because neither reads the other's state.
* Operator: `MaxResets = 1`. Two commands per SENSE and three lines that yield one fill the queue.
* Checkpoints: `MaxMishaps` bounds the mishaps of one behaviour, not its length:
  generations are moved down when both areas allow it, so the log lives forever.
  Six slots for three items leave room for repeated items, so a full area
  is reached both by repeats and by torn items.
* Records: every option there and not, every text empty, short and full, every integer at its bounds or
  different from its neighbours. Frames to be folded: runs of up to four out of eight, against lists of one to three.
* Run: the grant bounds it. Six turns let five steps go through the monitor's
  window with a rollover inside; the window, limits of failures and repairs and
  the trigger percentage are the code's own. Contexts {0, 10} include the seed
  whose context budget is zero, which ends at its first gate.
  Writes are interchangeable, hence the symmetry of `run_segments`.
* Board: three goals and two slots reach all three kinds of vacancy and the full
  store; three spawns let a goal come back after others. `MAX_SEGMENTS = 2`
  (64 in the code) is enough for a rollover, its repair and giving up. Two mishaps
  put a cut inside the repair of a tear, and a half erase before anything else.
  `MCBoard` meets the goals in the order of their ids, because they differ in nothing but their names,
  and leaves only the second spawn's reservation free.
* Turns: three turns let an observation be shown and acted on and a line follow it. A document is three cells and a head two,
  a read brings up to two, so a response can end between any two of its parts. `masked_delay` has the real limits of a phone number.
* Drives: `MaxDrives = 3` drives of one journal with an input before each. A reset of the supervisor is armed at any of its first 20 records
  of a kind, which is more than any of its scenes makes. The scenes are the mixed workload of `tests/always_on.rs` with
  and without checkpoints, runs that roll over, and a checkpoint no one stored. `MAX_BOOTS` and `MAX_TRIES` are the code's.

### Fairness, and where the system may stop

`agent_scripts` assumes that the agent keeps taking steps (weak fairness of its
next-state relation): the main loop boots the supervisor again after every
wait, migration, reinstall and error. It does not assume anything about *what*
the world answers, with one exception: an input the operator typed stays until
the run takes it (`InputsVanish = FALSE`). A board that resets in every beat
empties its operator channel each time and can keep a parked run parked for ever.
`operator` assumes weak fairness of `Work`, the loop and the boots, and of nothing the operator does; its resets are bounded.

`checkpoint_log` assumes weak fairness of the supervisor's own steps and of none
of the mishaps. `run_device` assumes weak fairness of `Progress`: all steps but
the operator's answer, device failures and resets. `model_turns` assumes it of `AskingInTime`, the steps of a question that are
the host's own or end within a time limit: `IO_TIMEOUT` is set on the socket before the TLS session, and `CONNECT_TIMEOUT` bounds the connection. The
proxy's answer to CONNECT is not among them, because `connect_tls` makes the tunnel before it sets the limits; `QuestionsSettle` names as its premise
that the exchange does not stay there.

`board_slots` assumes weak fairness of `Serve`, what the board does of itself once a
request is outstanding: every boot of the supervisor dispatches the outstanding request again. Nothing is
assumed of new requests or mishaps, of which there are `MaxMishaps`.

`host_drives` assumes that a drive that has not returned goes on. It is written out (`[]<>` returned, or a step of the drive again and
again) instead of with WF, which says the same where no state before the return is stuck; TLC finds no such state, since deadlock is checked.

`CHECK_DEADLOCK FALSE` is set where the system may stop: a run ends, a
supervisor whose item was lost to a media fault stands still in "missing", a board is asked nothing more, the turns
are used up. The agent, with or without its operator, never may.

## What is proved

TLAPS proves these for all values of the constants that satisfy the named
assumptions (`SlotAssumption`, `PolicyAssumption`, `NoGoalAssumption`, `MemoryAssumption` and
`WorldAssumption` for the agent; `ChannelAssumption` and `OperatorAssumption` with its operator; `LogAssumption` and `CheckpointAssumption`;
`RunAssumption`; `BoardAssumption`; `ToolsAssumption`, `MaskingAssumption`, `SystemOneAssumption` and `TurnsAssumption`
for the turns; `HarnessAssumption` for the drives), so for any number of goals, any policy, any areas, any grant, any script, any
response and any workflow.
They say that limits are positive numbers, that the kinds of calls are disjoint,
that what the world may answer has the type the code decodes, that a run starts in a world in which nothing has happened, and that
a line or an input can be told from silence.

* **`AgentProofs`**, after lemmas on the operations of ledger and memory: `TypeCorrect`, `EnvelopesNeverWiden`, `LedgerAccepts`, `ObligationsKept`,
  `TurnsAreEscrowed`, `MutationsAreEscrowed`, `BudgetsAreEscrowed`. `EnvelopeNeverWidens` is
  not inductive: an admission must land in an empty slot, a spawn must be fundable,
  a report must find its goal Running, a settlement may give back only what is
  held. The invariant therefore adds what each goal must satisfy by itself
  (`Sound`: its envelope adds up, and while it is Active or Paused what is left
  funds a run), that ids lie below the allocator, and that the goal driven is Running
  exactly while a report is awaited and no other ever is. `LedgerNeverRefuses`
  follows because a pick's conditions and that relation imply every guard the
  ledger checks. In the two refinements each action is an Escrow step on one goal
  or a stutter.
  `HarvestsAreWritten`, `CheckpointsAreRestorable` and `NotesAreKept` rest on `MemoryInductive`: the keys of the
  store are distinct and so are its stamps, which lie below the allocator, it is no longer than it may be, and its pinned entries keep to their quota
  (`Stored`). The quota is smaller than the store, so a full store has an unpinned entry, and that is what an eviction
  takes: it always finds one, and it never takes a note.
* **`CheckpointsProofs`**: `CheckpointsTyped`, `AnsweredItemsLoad`,
  `LogImplementsStore`, `NewestCheckpointStays`. The invariant has a part about the log alone (`Sound`:
  generations and digests tell the areas apart, an area without a generation is
  empty, and a body a reset left in the next slot is of an item all of whose
  predecessors are whole) and a part about the store in progress (`Written`: what
  was answered is whole in the area of its digest, and the slot after it holds
  nothing but the next item). The last clause is what makes a redelivered store
  land on its own leftovers and no other item's. `LogImplementsStore` maps each
  store, cut or not, to a Keep, Open or Retire of `ItemStore` or a stutter.
  `NewestCheckpointStays` is the promise of `items.rs` under the conditions that make it true: every interval ends in a state the
  log does not hold (`checkpoint_returned` shows what happens otherwise), mishaps are resets inside stores
  (`ToNewState`, `OnlyCuts`), and an area has room for all items and one head per reset. Its invariant
  `Secure` hands the promise over: until the new digest is opened the old one is the newest and
  so out of reach of an erase; from then on the new one is. The room is needed, and TLC shows that too: a full
  area abandons its checkpoint, which is now the newest, and the next digest takes the area of the newest *whole* one.
* **`RunProofs`**: `RunTyped`, `GrantSpentOnce`, `NeverFaults`, `SegmentIdsFit`,
  `EffectsNamed`, `RuledOutPathsStayOut`, `LoopsAreStopped`. None of these is inductive by itself.
  The invariant adds what each position has already ensured (`Placed`: Infer has a
  turn left, an intent's effect is below the next one, attempts are left, …), that budgets never
  exceed the fold's binding (`Narrows`), that the frames of a segment leave room
  for the worst step to come (`FramesFit`: seven frames per inference), that
  effects of the trail lie before the next one in segment and number
  (`EffectsPassed`), and that each failure of the history is in the fold that
  has to know it (`FailuresFolded`). `SegmentIdsFit` bounds the last segment's
  id by seven times the grant of turns, whatever the number of rollovers. `LoopsAreStopped` adds that the monitor's ring is the end of the
  segment's part of the trail (`WindowFollows`) and that a step is prompted for only when the ring gave no alarm (`WindowCalm`).

* **`BoardProofs`**: `Typed`, `SlotsAlwaysAgree`, `SeedsStayCommitted`,
  `ObligationsStayStored`, `AgentAlwaysSurvives`, after lemmas on what each write to a bank
  pair leaves in front. The invariant has to know of the bank *not* in force: a half
  erase can bring it back, so both banks of a pair hold segments of one run under one
  seed (`OneRun`), none with more left than its seed and none of a run not yet
  spawned (`Sound`; a new run's id is in no bank). `LedgerInv` says at most one goal is
  running, the one the request is for, and that every goal holds a run of its own, and
  `StoredInv` that the journal of a parked run is open, which is why `vacancy` never
  takes its slot. `SlotWritten` and `SlotDriven` then say what an arbitrary write to a slot must satisfy,
  and every action is an instance.
  `RefusalsJustified` and `SlotsKeepRuns` need besides that every
  unfinished run in a slot is one the ledger holds or let go of (`Accounted`): a settled
  run has its terminal record, a refused one was never placed, one given up or half
  erased is in `letGo`. With it, a refused spawn found nothing but such runs, and the run that a
  goal's next one displaces had ended or was let go of (`Displaced`), since the
  ledger holds one run of a goal. `SlotsKeepRuns` maps each write to a slot to the
  one run it creates or advances in `RunStore`, and every other step to one that at
  most drops runs let go of.

* **`OperatedProofs`**: `OperatedTypeCorrect`, `OperatedIsAgent`, `ResumedFinds`, `CommandsAreInTurn`. Each action of the composition
  is an action of `Agent` or a stutter (`OperatedIsAgent`), so that everything proved of `Agent` holds with an operator typing and boots failing:
  the commands of a SENSE answer are commands there are lines for, and a goal sensed as ready is one the channel held input for.
  `ResumedFindsInput` needs that a goal the beat resumes is in the channel from SENSE to the run's question: nothing in between reads a slot but
  the ASK of the selected goal, which is the one driven. In `CommandsAreInTurn` a boot
  that loses its drained answer is the mailbox's loss of unrecorded commands.

* **`TurnsProofs`**: `TurnsTyped`, `RecordsAreClean`, `AnswersAreFull`, `EmissionsSurvive`. The invariant follows an answer from where
  it was produced to the record (`TurnsInductive`): what was read is a prefix of what was sent (`Received`), what stands at each stage (`Standing`),
  that a line of the network model stands on the prompt on show (`Grounded`), that a performed call is the one its turn's
  line decodes to (`Acted`). `RecordsAreClean` is a theorem about one pass of the mask over *any* report: the cells after the last
  marker are copies of the report's own, in their places, none of which a secret was matched at (`Copied`), so a secret among them would have been matched where it begins;
  and a marker, which takes back what was copied before it, is part of none.
  That the pass has a value for every length is an induction, made over the least length that has none.
  `EmissionsSurvive` counts emissions against records through every crash, as long as no *fault* of an exhausted script is lost
  with its record (`~FaultsLost`, see below).

* **`HarnessProofs`**: `DriveInductive`, `CallsArePerformedOnce`, `ReplaysNeverDiverge`, `NoStepDiverges`, `HarnessTyped`, for *every* deterministic workflow: `Begin` and
  `After` stay uninterpreted. That the journal is a run of the workflow (`Runs`) is said with a sequence of the places the workflow stood in:
  each recorded request is what it wanted there, each recorded answer took it to the next, the end recorded is what it wanted at the last, and a boot stands in one of them.
  None of the three ReplayDiverged errors is reached then. For the effects (`EffectsStand`) an answer the boot holds, and an effect that no record tells of,
  have to be traced to the last request: such an effect is of its name and arguments, and *no fault is planned for its resource any more*, so the call
  handed on again is answered by it (`Outstanding`); and there is none while every request has its answer, which is when a new one is recorded or a segment ends.
  The records a reset took are counted by the drives (`Counted`).
  `SuspendedWaits`: a suspended drive left a question on record that no one has answered.
  `CrashesAreInvisible` is what a crash may do for every workflow, world, crash point and reset: the journals of all segments are those of a run that asked
  *one undisturbed world* each thing once (`Undisturbed`). Its witness is a sequence of worlds, one for each place the workflow stood in (`Leads`): each
  recorded request takes the world to the next and got the answer that is recorded. Between a question and its answer only two things may have happened
  besides (`Meanwhile`): attempts of a call whose answers were lost have met faults planned for it, and the operator came to type. The world itself is the last of them, or the one after it while the call is under way
  (`StandsAt`). A lost answer must then put the world back to where it can be asked again (`TakenBack`): a line or an input goes back, a snapshot is stored over itself, and an effect
  stays and answers for itself. The world undoes all of these but one: when the answer that is lost is a *failure* of an exhausted script,
  a line is taken back that is on record, so the next attempt is answered (`FailureLost`, see below). The theorem is about the behaviours in which that does not happen.
* **`AgentHarnessProofs`**: the supervisor and all the runs under it, for *every* deterministic supervisor, run and harvest, and all scenes, crash points and strikes.
  `JournalsAreRuns` is the inductive invariant (`JournalsStand`) and a theorem of its own: the supervisor's journal is a run of the supervisor (`SupervisorStands`) and
  the journal of each run it started one of that run (`RunsStand`), each said with the sequence of places its workflow stood in, as in `HarnessProofs`. A boot of the supervisor
  drives a run in the middle of an activity of its own, so there are *two* places to keep, and a reset drops both while the run's journal keeps what it has. The invariant
  has to say of *every* run, driven or not, that its recorded end is what it wanted at its last place: a run is selected again by a replayed RUN, by a HARVEST for each entry, and after it parked.
  `DrivesNeverDiverge`: neither journal is ever refused. `EndsAreReachedAgain` and `EndedRunsAreOnlyRead` (an action property): a run driven after its end
  ends as it did, its journal never changes, and no port is touched, which is why a harvest, which drives the run again for each entry, is harmless.
  `SupervisedCallsArePerformedOnce` and `EffectsAreNeverUndone` rest on a second invariant over the first (`DeviceStands`): the one device has each effect under a name of its own,
  every answer on record in *any* run's journal is what the device did under that name, and so is the answer not yet recorded of the run in progress (`AnswerTells`).
  They assume that a scene's world is one `NewWorld` makes (`Fresh`), as those of `host_drives` are and as `FakeDevice::new` makes it. `SupervisedCallsArePerformedOnce` is `JournalsTellTheDevice` for every supervisor, run and scene. They leave open
  whether segments of two runs have ids of their own, which is the supervisor's doing (`SegmentIdsFit` bounds the ids a run takes): two calls with one name and the same arguments are one effect.

Only model-checked, and why. `BriefsAreRecall`, `TraceIsRun`, `FoldIsFrames`, `HarvestIsRecords`, `ResetsAreInvisible` and `CrashesLeaveNoTrace` compare what
a machine did with what a fold over its whole history gives; folds of the community modules are recursive
definitions the provers cannot unfold. `RecordsHold` and `CompactionKeeps` enumerate bounded inputs. `NewestStays` is the instance of `NewestCheckpointStays`
that TLC checks. `CrashesAreInvisible` is the part of `CrashesLeaveNoTrace` that needs no fold: TLC compares a run with the undisturbed one of the same script, fold, harvest and prompts
included; the theorem says of any workflow that an undisturbed run with these records exists, where faults planned for a call may run out sooner. Likewise `ResetsAreInvisible` compares two drives to their end, and
`AgentHarnessProofs` proves what each step of a drive keeps. The liveness properties `EventuallyServed`, `InputIsTaken`,
`ContinuesAsNew`, `Settles`, `Answers`, `QuestionsSettle`, `DrivesArrive` are out of the
provers' reach.

## Disagreements of code and documents

Each of these is shown by a run whose property states what the document says.

1. `checkpoint_returned`: `items.rs:21-24` promises that the newest complete
   checkpoint is on media while the next is written. When the agent's state
   returns to the one the older area holds, `store` appends there without a new
   generation; that checkpoint is now the newest, and the first item of the next
   new digest erases it.
2. `run_unverified`: `SPEC.md:586-588` forbids Completed for a run whose last
   mutation has no passing verification. A model that answers FINISH right after
   a failed read-back completes the run.
3. `board_forgets`: `esper-board/tests/board.rs:435-439` says that with a refused journal
   reinstalled "a torn write costs a replay — never the run, never the agent", and
   `SPEC.md:2637` that a run is driven under its committed seed. When the journal is the
   supervisor's own, goal ids and spawn numbers are handed out again; `select` takes the slot
   that holds the id and ignores the seed it was given. The old run answers for the
   new goal, and if it reports more left than the new goal reserved, `settle`
   refuses and the supervisor faults at every boot.
4. `masked_delay`: `SPEC.md:1283` promises a read-back of a delay, from the reading before it that
   `parse_delay_outcome` takes out of the recorded outcome. That outcome is masked, and an uptime of seven digits or more looks like a phone number:
   from 17 minutes after boot a delay that was performed ends its run as `JournalCorrupt`.

Others were met while modelling. The models follow the code; no property is stated about them.

* A state that does not change keeps its digest; copies of its items are appended until the area is full, after which every
  checkpoint is abandoned, although `README.md:45` says every interval continues as new.
* `lineage.rs:50-52` says that a continued run's loop detector keeps recent history;
  the child starts with a new monitor (`Continue` of `Run`), and `NeverLoops` is stated segment by segment.
* `operator.rs:25-26` speaks of masked input; the ASK dispatcher records typed input unmasked. Input typed for a goal that is not parked waits in its
  slot and answers that goal's next question, and four such inputs block new ones. A boot that fails or that the media
  stops loses the commands it drained, as a reset does.
* `backend.rs:242` calls `last_usage` "the measured usage of the last inference"; the network model's is cumulative, and `run/device.rs` records it as
  the turn's tokens.
* A *fault* at an exhausted model whose record is lost takes an emission back that is already on record (`FaultsLost` of `Turns`, off in the runs, shows it;
  `run/host.rs` does the same, `FailureLost` of `HarnessProofs`). A failed inference emitted nothing.
* `mask.rs:336` says digit runs longer than eleven are left alone: `mask_report` moves on one digit and masks the last eleven. The local part of an address is
  left visible when the cells before it were not copied as they are (`mask.rs:88`).
* The run keeps 128 bytes of an observation with no mark of its own, so an observation cut there looks whole to the prompt and `derive_hints` may act on it,
  against `jev/mod.rs:288-290` ("The templates do not act on partial evidence"). In the model's runs it could not: a report names what its call named, and a call of the network model
  names what an observation held or else pin 0 and sensor 0, so its runs name nothing else, and no property is stated about its evidence.
* `jev/https.rs:26-29` limits "any single socket read or write"; the exchange with a proxy comes before the limits are set, and a proxy that accepts the
  connection and never answers stalls the question for ever (`Tunnel` of `SystemOne`).
* Records: a SENSE answer that names a ready goal twice is read; lists may end in a trailing comma in the tool JSON; `Control` with an event that is no
  operator's, capabilities that do not validate, a spawn's seed, a harvested entry that is pinned or stamped, a tool call's attempt 0 and a verification of a pin
  above 7 are written by their encoders and refused by their decoders; records that end in the rest of the page cannot tell a cut. `SPEC.md` 20.8 counts 142 bytes
  of a seed snapshot, the code 151.
* The fold's doc calls compaction idempotent: that holds of failed paths and obligations (`TakesThemAgain`), not of facts that were dropped and come back. Frame numbers start again in each
  segment, so facts of two segments are told apart by text and a number that repeats.
* `state.rs` `committed_records` puts the frame of a question where the model asks it, `run/mod.rs` where the answer is awaited; the function is used by tests only.
* In `run/host.rs` a crash point is armed anew in every segment, and a suspended child's journal is not kept between two drives: driving the chain again
  runs the child again from its parent's snapshot (`DriveAgain` is for a first segment, as in the tests).
* Up to eight pinned entries rank before observations and can fill all four places of a recall.
* `run/host.rs` answers `IncompatibleVersion` for a journal bound to another version; a seed of another version is refused as `SeedInvalid` before
  the journal is looked at, so with one build neither `Bind` of `Harness` nor a caller meets it.

## Not modelled, and why

* The board's **journal** is a library outside the repository: the models take from it
  that recorded answers replay and that a step interrupted before its record is
  attempted again. The host's own journals are modelled.
* **Tools and ports** are the hardware. The board's tools ignore the effect's
  name; a tool that is not idempotent would act twice after a reset. The host's device, which does not, is `World`.
* **Bytes** inside a text: canonical rendering of the catalog (`render.rs`), TLS, the tunnel's text, digests and checksums (a digest is what it is the digest of).
* **`records.rs`**: frames only tests persist. **`plan.rs`**: constant offsets.
* **Evaluation, emulation and build tasks** are not part of the device.
* **`reap`**, which nothing calls: ended goals keep their places, and after eight every new goal is refused.
* **Read faults and generation wrap** of the item log (2^32 openings outlive the flash).
* **One snapshot log under several runs**: `Run` stores and loads its snapshot in a step that may fail.

## Plan

1. *Done.* The agent with its escrow refinement and proofs; checkpoints over the item
   log with their refinement and proofs; the run with its proofs; the run slots and their dispatcher, and the supervisor's reinstalled
   journal, with the refinement of the store of runs and the proofs.
2. *Done.* The operator's channel composed with the agent, with the refinement of `Mailbox` and the proofs; the records; the fold and the harvester;
   the brief; tools, masking and models; the host's journals, world, traces and drives.
3. Proofs. *Done:* what the memory keeps, checkpoints that can be restored, loops, the newest checkpoint, the turns, and
   effects once, replay without divergence and what a crash may leave, for every workflow `Harness` and `AgentHarness` may drive. *To do:* the fold and the harvest written as recursive functions, so that
   what they keep can be proved.
4. One snapshot log under several runs, the composition of `Run` with `ItemLog`.
