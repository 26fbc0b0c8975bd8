---------------------------- MODULE AgentRecords ----------------------------
(***************************************************************************)
(* The records of the supervisor (esper-runtime agent/wire.rs, with the    *)
(* items and the header of its checkpoint, esper-core checkpoint.rs): how  *)
(* each is written and how it is read, which are separate functions there, *)
(* and the size each is declared to stay within.                           *)
(***************************************************************************)
EXTENDS Wire

PAGE_RECORD_MAX == 480
NOTE_MAX == 64
BRIEF_CAP == 256
MAX_GOALS == 8
MAX_MEMORY == 32
MAX_COMMANDS == 3

----------------------------------------------------------------------------
(* What a SENSE answer and a checkpointed goal have in common.             *)

PutCadence(cadence) ==
  U8(IF cadence.type = "Once" THEN 0 ELSE 1) \o U32(cadence.span)
CadenceField ==
  Group("cadence", <<Tagged(
    (0 :> Typed("Once", <<Num("span", 4, {0})>>)) @@
    (1 :> Typed("Every", <<Num("span", 4, Wide \ {0})>>)))>>)

\* Mutant: the two bounds of one run change places.
PutEnvelopeSwapped(envelope) ==
  U16(envelope.per_run_mutations) \o U16(envelope.per_run_turns)
    \o U32(envelope.turns) \o U32(envelope.mutations) \o U16(envelope.runs)

PutEnvelope(envelope) ==
  U16(envelope.per_run_turns) \o U16(envelope.per_run_mutations)
    \o U32(envelope.turns) \o U32(envelope.mutations) \o U16(envelope.runs)

EnvelopeField ==
  Group("envelope",
    <<Num("per_run_turns", 2, Short), Num("per_run_mutations", 2, Short),
      Num("turns", 4, Wide), Num("mutations", 4, Wide), Num("runs", 2, Short)>>)

EnvelopeHolds(envelope) ==
  /\ envelope.per_run_turns > 0 /\ envelope.per_run_mutations > 0
  /\ envelope.turns > 0 /\ envelope.mutations > 0 /\ envelope.runs > 0

----------------------------------------------------------------------------
(* SENSE.                                                                  *)

MAX_COMMAND_BYTES == 1 + 8 + 2 * (1 + NOTE_MAX)
MAX_SENSE_BYTES == 8 + 1 + 2 * MAX_GOALS + 1 + MAX_COMMANDS * MAX_COMMAND_BYTES

PutCommand(command) ==
  CASE command.type = "AddGoal" ->
         U8(0) \o PutNote(command.objective) \o U8(command.priority)
           \o PutCadence(command.cadence) \o PutEnvelope(command.envelope)
           \o PutCapabilities(command.capabilities)
    [] command.type = "Control" -> U8(1) \o U16(command.goal) \o U8(command.event)
    [] command.type = "Remember" ->
         U8(2) \o U64(command.name_digest) \o PutNote(command.label)
           \o PutNote(command.value)
    [] command.type = "Forget" -> U8(3) \o U64(command.name_digest)

\* The codes of the events an operator may cause: pause, unpause and retire.
OperatorEvents == 7..9

CommandFields ==
  <<Tagged(
     (0 :> Typed("AddGoal",
       <<NoteField("objective"), Num("priority", 1, Byte), CadenceField,
         EnvelopeField, Group("capabilities", CapabilityFields)>>)) @@
     (1 :> Typed("Control", <<GoalField("goal"), Num("event", 1, OperatorEvents)>>)) @@
     (2 :> Typed("Remember",
       <<Num("name_digest", 8, Wide), NoteField("label"), NoteField("value")>>)) @@
     (3 :> Typed("Forget", <<Num("name_digest", 8, Wide)>>)))>>

PutSense(sense) ==
  U64(sense.now) \o PutList(sense.ready, LAMBDA ready : U16(ready.goal))
    \o PutList(sense.commands, PutCommand)

\* A goal that was ready is not ready again.
ReadyOnce(sense) ==
  [sense EXCEPT !.ready = FoldLeft(LAMBDA goals, goal :
     IF Contains(goals, goal) THEN goals ELSE Append(goals, goal), <<>>, @)]

SenseHolds(sense) ==
  \A n \in DOMAIN sense.commands :
    sense.commands[n].type = "AddGoal" => CapabilitiesHold(sense.commands[n].capabilities)

DecodeSense(page) ==
  LET decoded == Keeping(SenseHolds, Decoded(page,
        <<Num("now", 8, Wide), List("ready", MAX_GOALS, <<GoalField("goal")>>),
          List("commands", MAX_COMMANDS, CommandFields)>>))
  IN [n \in DOMAIN decoded |-> ReadyOnce(decoded[n])]

----------------------------------------------------------------------------
(* RUN.                                                                    *)

MAX_RUN_REQUEST_BYTES ==
  1 + 2 + 8 + 2 + 2 + 4 + 4 + 8 + 25 + 2 + 8 + 4 + 9 + 2 + BRIEF_CAP

\* An option that is not there is written out as zero.
PutBudget(budget) ==
  PutFlag(budget.type = "Some") \o U64(budget.value)
OptionalNum(name, width) ==
  Group(name, <<Tagged((0 :> Typed("None", <<Num("value", width, {0})>>)) @@
                       (1 :> Typed("Some", <<Num("value", width, Wide)>>)))>>)

PutRunRequest(request) ==
  CASE request.type = "Spawn" ->
         U8(0) \o U16(request.goal) \o U64(request.id)
           \o U16(request.model_turns) \o U16(request.mutations)
           \o U32(request.input_tokens) \o U32(request.output_tokens)
           \o U64(request.elapsed_ms) \o PutCapabilities(request.capabilities)
           \o U16(request.workflow_version) \o U64(request.model_bundle)
           \o U16(request.max_prompt_bytes) \o U16(request.max_output_bytes)
           \o PutBudget(request.context_budget_bytes) \o PutLong(request.brief)
    [] request.type = "Resume" -> U8(1) \o U16(request.goal) \o U64(request.run)

SpawnFields ==
  <<GoalField("goal"), Num("id", 8, Wide), Num("model_turns", 2, Short),
    Num("mutations", 2, Short), Num("input_tokens", 4, Wide),
    Num("output_tokens", 4, Wide), Num("elapsed_ms", 8, Wide),
    Group("capabilities", CapabilityFields), Num("workflow_version", 2, Short),
    Num("model_bundle", 8, Wide), Num("max_prompt_bytes", 2, Short),
    Num("max_output_bytes", 2, Short), OptionalNum("context_budget_bytes", 8),
    Text("brief", 2, BRIEF_CAP)>>

WORKFLOW_VERSION == 1

\* The seed of a spawned run: it has a brief, so the longer prompt is allowed.
SeedHolds(seed) ==
  /\ seed.workflow_version = WORKFLOW_VERSION
  /\ seed.model_turns > 0
  /\ seed.max_prompt_bytes \in 1..1536
  /\ seed.max_output_bytes \in 1..256
  /\ CapabilitiesHold(seed.capabilities)

\* A brief has a goal line at least.
BriefHolds(brief) == brief.size >= 6

DecodeRunRequest(page) ==
  Keeping(LAMBDA request : request.type = "Spawn" =>
                             SeedHolds(request) /\ BriefHolds(request.brief),
    Decoded(page, <<Tagged(
      (0 :> Typed("Spawn", SpawnFields)) @@
      (1 :> Typed("Resume", <<GoalField("goal"), Num("run", 8, Wide)>>)))>>))

MAX_RUN_REPORT_BYTES == 1 + 1 + 2 + 2 + 1

TerminalCodes == 0..8

PutRunReport(report) ==
  CASE report.type = "Parked" -> U8(0)
    [] report.type = "Settled" ->
         U8(1) \o U8(report.status) \o U16(report.refund_turns)
           \o U16(report.refund_mutations) \o U8(report.harvest)

DecodeRunReport(page) ==
  Decoded(page, <<Tagged(
    (0 :> Typed("Parked", <<>>)) @@
    (1 :> Typed("Settled",
      <<Num("status", 1, TerminalCodes), Num("refund_turns", 2, Short),
        Num("refund_mutations", 2, Short), Num("harvest", 1, Byte)>>)))>>)

----------------------------------------------------------------------------
(* The checkpoint: a header, and one item for each goal and entry.         *)

MAX_GOAL_BYTES ==
  2 + (1 + NOTE_MAX) + 1 + 5 + 14 + 10 + 4 + 25 + 1 + 8 + 1 + 4 + 1 + 8 + 9
MAX_ENTRY_BYTES == 10 + (1 + NOTE_MAX) * 2 + 2 + 9 + 8 + 4
MAX_ITEM_BYTES ==
  1 + (IF MAX_GOAL_BYTES > MAX_ENTRY_BYTES THEN MAX_GOAL_BYTES ELSE MAX_ENTRY_BYTES)
HEADER_BYTES == 1 + 8 + 4 + 8 + 2 + 4 + 1 + 1 + 8

PutRun(run) == PutFlag(run.type = "Some") \o U64(run.value)

PutGoal(goal) ==
  U16(goal.id) \o PutNote(goal.objective) \o U8(goal.priority)
    \o PutCadence(goal.cadence) \o PutEnvelope(goal.envelope)
    \o U32(goal.remaining.turns) \o U32(goal.remaining.mutations)
    \o U16(goal.remaining.runs)
    \o U16(goal.reserved.turns) \o U16(goal.reserved.mutations)
    \o PutCapabilities(goal.capabilities) \o U8(goal.status)
    \o U64(goal.next_due) \o U8(goal.failures) \o U32(goal.runs_started)
    \o U8(goal.last_status) \o U64(goal.waiting_since) \o PutRun(goal.run)

NeverEnded == 255   \* the last status of a goal whose first run has not ended

GoalFields ==
  <<GoalField("id"), NoteField("objective"), Num("priority", 1, Byte),
    CadenceField, EnvelopeField,
    Group("remaining", <<Num("turns", 4, Wide), Num("mutations", 4, Wide),
                         Num("runs", 2, Short)>>),
    Group("reserved", <<Num("turns", 2, Short), Num("mutations", 2, Short)>>),
    Group("capabilities", CapabilityFields), Num("status", 1, 0..7),
    Num("next_due", 8, Wide), Num("failures", 1, Byte), Num("runs_started", 4, Wide),
    Num("last_status", 1, TerminalCodes \cup {NeverEnded}),
    Num("waiting_since", 8, Wide), OptionalNum("run", 8)>>

\* A goal holds a run exactly while it is running or waiting.
GoalHolds(goal) ==
  /\ EnvelopeHolds(goal.envelope)
  /\ CapabilitiesHold(goal.capabilities)
  /\ (goal.status \in {1, 2}) = (goal.run.type = "Some")

PutEntry(entry) ==
  (CASE entry.key.type = "Observation" ->
          U8(0) \o U8(entry.key.tool) \o U64(entry.key.args_digest)
     [] entry.key.type = "Outcome" -> U8(1) \o U16(entry.key.goal)
     [] entry.key.type = "Note" -> U8(2) \o U64(entry.key.name_digest))
    \o PutNote(entry.label) \o PutNote(entry.value)
    \o U16(entry.goal) \o PutRun(entry.run) \o U64(entry.beat) \o U32(entry.stamp)

EntryFields ==
  <<Group("key", <<Tagged(
      (0 :> Typed("Observation", <<Num("tool", 1, Byte), Num("args_digest", 8, Wide)>>)) @@
      (1 :> Typed("Outcome", <<GoalField("goal")>>)) @@
      (2 :> Typed("Note", <<Num("name_digest", 8, Wide)>>)))>>),
    NoteField("label"), NoteField("value"),
    Num("goal", 2, Short),     \* 0: of no goal
    OptionalNum("run", 8), Num("beat", 8, Wide), Num("stamp", 4, Wide)>>

PutItem(item) ==
  IF item.type = "Goal" THEN U8(0) \o PutGoal(item) ELSE U8(1) \o PutEntry(item)

ItemFields == <<Tagged((0 :> Typed("Goal", GoalFields)) @@
                       (1 :> Typed("Entry", EntryFields)))>>
ItemHolds(item) == item.type = "Goal" => GoalHolds(item)

DecodeItem(page) == Keeping(ItemHolds, Decoded(page, ItemFields))

CHECKPOINT_VERSION == 1

HeaderFields ==
  <<Num("version", 1, {CHECKPOINT_VERSION}), Num("last_beat", 8, Wide),
    Num("spawn_seq", 4, Wide), Num("next_deadline", 8, Wide),
    Num("next_goal_id", 2, Short), Num("next_stamp", 4, Wide),
    Num("goals", 1, 0..MAX_GOALS), Num("entries", 1, 0..MAX_MEMORY),
    Array("digest", 8)>>

PutHeader(header) ==
  U8(CHECKPOINT_VERSION) \o U64(header.last_beat) \o U32(header.spawn_seq)
    \o U64(header.next_deadline) \o U16(header.next_goal_id)
    \o U32(header.next_stamp) \o U8(header.goals) \o U8(header.entries)
    \o PutRaw(header.digest)

DecodeHeader(page) == Decoded(page, HeaderFields)

\* A header promises so many goals, then so many entries, under a digest of
\* the bytes of all of them.
ItemsOf(state) == state.goals \o state.entries

HeaderOf(state) ==
  [version |-> CHECKPOINT_VERSION, last_beat |-> state.last_beat,
   spawn_seq |-> state.spawn_seq, next_deadline |-> state.next_deadline,
   next_goal_id |-> state.next_goal_id, next_stamp |-> state.next_stamp,
   goals |-> Len(state.goals), entries |-> Len(state.entries),
   digest |-> Checksum(PutEach(ItemsOf(state), PutItem))]

Begin(header) ==
  [ok |-> TRUE, last_beat |-> header.last_beat, spawn_seq |-> header.spawn_seq,
   next_deadline |-> header.next_deadline, next_goal_id |-> header.next_goal_id,
   next_stamp |-> header.next_stamp, goals |-> <<>>, entries |-> <<>>]

RestoresGoal(state, goal) ==
  LET held == IF goal.status = 2 THEN 1 ELSE 0
  IN /\ state.next_goal_id = 0 \/ goal.id < state.next_goal_id
     /\ goal.status # 1     \* never running: a run is waited for before a cut
     /\ goal.remaining.turns + goal.reserved.turns <= goal.envelope.turns
     /\ goal.remaining.mutations + goal.reserved.mutations <= goal.envelope.mutations
     /\ goal.remaining.runs + held <= goal.envelope.runs
     /\ held = 0 => goal.reserved = [turns |-> 0, mutations |-> 0]
     /\ \A n \in DOMAIN state.goals : state.goals[n].id # goal.id

MAX_PINNED == 8

RestoresEntry(state, entry) ==
  /\ entry.stamp \in 1..(state.next_stamp - 1)
  /\ \A n \in DOMAIN state.entries :
       state.entries[n].key # entry.key /\ state.entries[n].stamp # entry.stamp
  /\ entry.key.type = "Note" =>
       Len(SelectSeq(state.entries, LAMBDA other : other.key.type = "Note")) < MAX_PINNED

Push(header, state, item) ==
  CASE item.type = "Goal" /\ Len(state.goals) < header.goals ->
         [state EXCEPT !.ok = @ /\ RestoresGoal(state, item),
                       !.goals = Append(@, item)]
    [] item.type = "Entry" /\ Len(state.goals) = header.goals ->
         [state EXCEPT !.ok = @ /\ RestoresEntry(state, item),
                       !.entries = Append(@, item)]
    [] OTHER -> [state EXCEPT !.ok = FALSE]

\* The state the items make, read in their order.
Restored(header, items) ==
  LET state == FoldLeft(LAMBDA held, item : Push(header, held, item), Begin(header), items)
  IN IF state.ok /\ Len(items) = header.goals + header.entries
       /\ header.digest = Checksum(PutEach(items, PutItem))
     THEN <<state>> ELSE <<>>

\* The same in one piece, as the host keeps it.
MAX_CHECKPOINT_BYTES ==
  HEADER_BYTES + MAX_GOALS * (1 + MAX_GOAL_BYTES) + MAX_MEMORY * (1 + MAX_ENTRY_BYTES) + 8

PutBlob(state) == Sealed(PutHeader(HeaderOf(state)) \o PutEach(ItemsOf(state), PutItem))

TakenBlob(page) ==
  LET header == TakeFields(Opened(page), HeaderFields)
      listed == With(header, "items", <<>>, header.page)
  IN IF header.ok
     THEN TakeCount(listed, [name |-> "items", fields |-> ItemFields],
                    header.record.goals + header.record.entries)
     ELSE header

DecodeBlob(page) ==
  LET taken == TakenBlob(Front(page))
  IN IF Sound(page) /\ taken.ok /\ taken.page = <<>>
       /\ \A n \in DOMAIN taken.record.items : ItemHolds(taken.record.items[n])
     THEN Restored(taken.record, taken.record.items) ELSE <<>>

----------------------------------------------------------------------------
(* HARVEST, STORE and LOAD.                                                *)

HARVEST_QUERY_BYTES == 8 + 1
ITEM_KEY_BYTES == 8 + 2
MAX_STORE_BYTES == ITEM_KEY_BYTES + MAX_ITEM_BYTES

PutHarvestQuery(query) == U64(query.run) \o U8(query.index)
ReadHarvestQuery(page) == Decoded(page, <<Num("run", 8, Wide), Num("index", 1, Byte)>>)

\* What a run harvests is evidence, and not stamped yet.
DecodeHarvestEntry(page) ==
  Keeping(LAMBDA entry : entry.key.type # "Note" /\ entry.stamp = 0,
          Decoded(page, EntryFields))

PutStored(stored) == U64(stored.digest) \o U16(stored.index) \o PutRaw(stored.item)
ReadItemKey(page) ==
  Decoded(page, <<Num("digest", 8, Wide), Num("index", 2, Short),
                  Rest("item", MAX_ITEM_BYTES)>>)

PutAck(answer) == <<>>
DecodeAck(page) == Decoded(page, <<>>)
PutStoredItem(stored) == PutRaw(stored.item)
DecodeStoredItem(page) == Decoded(page, <<Rest("item", MAX_ITEM_BYTES)>>)
=============================================================================
