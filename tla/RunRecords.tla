----------------------------- MODULE RunRecords -----------------------------
(***************************************************************************)
(* The records of a run (esper-runtime run/wire.rs), its seed (seed.rs)    *)
(* and the state it folds into (esper-core snapshot.rs): how each is       *)
(* written, how it is read, and the size it is declared to stay within.    *)
(***************************************************************************)
EXTENDS AgentRecords

\* Briefs are told apart by their size.
DigestOf(brief) == brief.size

OUTPUT_CAP == 256
LAST_OBSERVATION_CAP == 128
MAX_OUTCOME == 448
MAX_ASK_INPUT == 448
SNAPSHOT_CHUNK == 448
MAX_REASON == 48

----------------------------------------------------------------------------
(* Faults.                                                                 *)

Fault ==
  <<"ScriptExhausted", "OutputTooLong", "UnknownPrompt", "PolicyMismatch",
    "EffectArgsMismatch", "UnknownResource", "OutcomeTooLarge", "BadRequest",
    "BadInput", "SnapshotMissing">>

PutFault(fault) == U8(CHOOSE code \in DOMAIN Fault : Fault[code] = fault.name)
FaultFromPayload(page) ==
  LET decoded == Decoded(page, <<Num("code", 1, DOMAIN Fault)>>)
  IN [n \in DOMAIN decoded |-> [name |-> Fault[decoded[n].code]]]

----------------------------------------------------------------------------
(* INFER and PROBE.                                                        *)

MAX_INFER_REQUEST_BYTES ==
  4 + 2 + 2 + (1 + 1 + LAST_OBSERVATION_CAP) + (1 + 2) + (1 + 7) + (1 + 2 + BRIEF_CAP)
MAX_INFERRED_BYTES == 2 + OUTPUT_CAP + 4 + 4 + 4

\* The two hints a repair gives: malformed and invalid_args.
RepairCodes == {0, 1}

PutInferRequest(request) ==
  U16(request.max_prompt_bytes) \o U16(request.max_output_bytes)
    \o U16(request.turns_left) \o U16(request.mutations_left)
    \o PutOption(request.last_observation, LAMBDA seen : PutNote(seen.bytes))
    \o PutOption(request.repair, LAMBDA hint : U8(hint.attempt) \o U8(hint.variant))
    \o PutOption(request.prior,
         LAMBDA prior : U32(prior.epoch) \o U8(prior.failed_paths)
                          \o U8(prior.pending) \o U8(prior.facts))
    \o PutOption(request.brief, LAMBDA brief : PutLong(brief.bytes))

DecodeInferRequest(page) ==
  Decoded(page,
    <<Num("max_prompt_bytes", 2, Short), Num("max_output_bytes", 2, Short),
      Num("turns_left", 2, Short), Num("mutations_left", 2, Short),
      Option("last_observation", <<Text("bytes", 1, LAST_OBSERVATION_CAP)>>),
      Option("repair", <<Num("attempt", 1, Byte), Num("variant", 1, RepairCodes)>>),
      Option("prior", <<Num("epoch", 4, Wide), Num("failed_paths", 1, Byte),
                        Num("pending", 1, Byte), Num("facts", 1, Byte)>>),
      Option("brief", <<Text("bytes", 2, BRIEF_CAP)>>)>>)

PutInferred(answer) ==
  PutLong(answer.line) \o U32(answer.input_tokens) \o U32(answer.output_tokens)
    \o U32(answer.prompt_bytes)
DecodeInferred(page) ==
  Decoded(page, <<Text("line", 2, OUTPUT_CAP), Num("input_tokens", 4, Wide),
                  Num("output_tokens", 4, Wide), Num("prompt_bytes", 4, Wide)>>)

PutProbed(answer) == PutFlag(answer.output)
DecodeProbed(page) == Decoded(page, <<Flag("output")>>)

----------------------------------------------------------------------------
(* TOOL, VERIFY and ASK.                                                   *)

MAX_TOOL_REQUEST_BYTES == 4 + 1 + 1 + 1 + 8 + 2 + OUTPUT_CAP
MAX_OBSERVED_BYTES == 1 + 8 + 2 + MAX_OUTCOME
MAX_VERIFY_REQUEST_BYTES == 4 + 1 + 8
MAX_ASK_REQUEST_BYTES == 1 + 2 + OUTPUT_CAP

PutToolRequest(request) ==
  U32(request.seq) \o U8(request.attempt) \o U8(request.tool)
    \o PutFlag(request.write) \o U64(request.digest) \o PutLong(request.args)
DecodeToolRequest(page) ==
  Decoded(page,
    <<Num("seq", 4, Wide), Num("attempt", 1, Byte \ {0}), Num("tool", 1, Byte),
      Flag("write"), Num("digest", 8, Wide), Text("args", 2, OUTPUT_CAP)>>)

PutObserved(answer) ==
  PutFlag(answer.transient) \o U64(answer.secret_digest) \o PutLong(answer.outcome)

\* A transient fault has nothing to show.
ObservedHolds(answer) ==
  answer.transient => answer.outcome.size = 0 /\ answer.secret_digest = 0

DecodeObserved(page) ==
  Keeping(ObservedHolds,
    Decoded(page, <<Flag("transient"), Num("secret_digest", 8, Wide),
                    Text("outcome", 2, MAX_OUTCOME)>>))

\* A pin and the level it shall have share an integer: the level is its bit 8.
PutVerifyRequest(request) ==
  U32(request.seq) \o
    (CASE request.check.type = "Pin" ->
            U8(0) \o U64(request.check.pin + (IF request.check.high THEN 256 ELSE 0))
       [] request.check.type = "Clock" -> U8(1) \o U64(request.check.target_ms))

PinOf(packed) == packed % 256
LevelOf(packed) == packed \div 256

Unpacked(check) ==
  IF check.type = "Clock" THEN check
  ELSE [type |-> "Pin", pin |-> PinOf(check.packed), high |-> LevelOf(check.packed) = 1]

\* Mutant: any level but high is taken for low.
CheckHoldsForPin(request) ==
  request.check.type = "Pin" => PinOf(request.check.packed) < 8

CheckHolds(request) ==
  request.check.type = "Pin" =>
    PinOf(request.check.packed) < 8 /\ LevelOf(request.check.packed) <= 1

DecodeVerifyRequest(page) ==
  LET decoded == Keeping(CheckHolds, Decoded(page,
        <<Num("seq", 4, Wide),
          Group("check", <<Tagged((0 :> Typed("Pin", <<Num("packed", 8, Wide)>>)) @@
                                  (1 :> Typed("Clock", <<Num("target_ms", 8, Wide)>>)))>>)>>))
  IN [n \in DOMAIN decoded |-> [decoded[n] EXCEPT !.check = Unpacked(@)]]

PutVerified(answer) == U64(answer.observed)
DecodeVerified(page) == Decoded(page, <<Num("observed", 8, Wide)>>)

PutAskRequest(request) == U8(request.schema) \o PutLong(request.prompt)
DecodeAskRequest(page) ==
  Decoded(page, <<Num("schema", 1, Byte), Text("prompt", 2, OUTPUT_CAP)>>)

PutAskInput(answer) == PutLong(answer.bytes)
DecodeAskInput(page) == Decoded(page, <<Text("bytes", 2, MAX_ASK_INPUT)>>)

----------------------------------------------------------------------------
(* The end of a run, and the chunks of a folded state.                     *)

SNAPSHOT_KEY_BYTES == 8 + 1
MAX_TERMINAL_BYTES == 1 + 1 + MAX_REASON + 2 + OUTPUT_CAP

PutTerminal(end) == U8(end.status) \o PutNote(end.reason) \o PutLong(end.summary)
DecodeTerminal(page) ==
  Decoded(page, <<Num("status", 1, TerminalCodes), Text("reason", 1, MAX_REASON),
                  Text("summary", 2, OUTPUT_CAP)>>)

PutChunk(chunk) == U64(chunk.digest) \o U8(chunk.index) \o PutRaw(chunk.bytes)
ReadSnapshotKey(page) ==
  Decoded(page, <<Num("digest", 8, Wide), Num("index", 1, Byte),
                  Rest("bytes", SNAPSHOT_CHUNK)>>)
PutChunkBytes(chunk) == PutRaw(chunk.bytes)
DecodeChunk(page) == Decoded(page, <<Rest("bytes", SNAPSHOT_CHUNK)>>)

\* A fold's chunks lie below the entries carried with it.
HARVEST_ITEM_BASE == 128
Chunks(length) == (length + SNAPSHOT_CHUNK - 1) \div SNAPSHOT_CHUNK

----------------------------------------------------------------------------
(* The seed, at fixed places in a block of its own: a cell for each, and   *)
(* zeros where none is.                                                    *)

SEED_INPUT_LEN == 151
MAX_RUN_START_BYTES == SEED_INPUT_LEN + (1 + 2 + BRIEF_CAP) + (1 + 8 + 2 + 1)

At(place, cells) == place :> cells[1]

LineageBytes(place, lineage) ==
  At(place, U64(lineage.parent_run)) @@ At(place + 8, U32(lineage.continued_at_frame))
    @@ At(place + 12, U16(lineage.model_turns)) @@ At(place + 14, U32(lineage.input_tokens))
    @@ At(place + 18, U32(lineage.output_tokens)) @@ At(place + 22, U64(lineage.elapsed_ms))
    @@ At(place + 30, U32(lineage.radio_bytes)) @@ At(place + 34, U16(lineage.mutations))
    @@ At(place + 36, U8(lineage.consecutive_errors)) @@ At(place + 37, U32(lineage.workflow))
    @@ At(place + 41, U64(lineage.model)) @@ At(place + 49, U64(lineage.catalog))
    @@ At(place + 57, U64(lineage.policy))

OptionBytes(place, option, Bytes(_, _)) ==
  At(place, PutFlag(option # <<>>))
    @@ (IF option = <<>> THEN <<>> ELSE Bytes(place + 1, option[1]))
NumberBytes(place, number) == At(place, U64(number.value))

InputBytes(seed) ==
  At(0, U64(seed.id)) @@ At(8, U64(seed.elapsed_ms)) @@ At(16, U32(seed.input_tokens))
    @@ At(20, U32(seed.output_tokens)) @@ At(24, U16(seed.model_turns))
    @@ At(26, U16(seed.mutations)) @@ At(28, U16(seed.workflow_version))
    @@ At(30, PutRaw(seed.capabilities.read_pins)) @@ At(38, U8(seed.capabilities.read_count))
    @@ At(39, PutRaw(seed.capabilities.write_pins)) @@ At(47, U8(seed.capabilities.write_count))
    @@ At(48, PutRaw(seed.capabilities.sensors)) @@ At(52, U8(seed.capabilities.sensor_count))
    @@ At(53, PutFlag(seed.capabilities.allow_timer))
    @@ At(54, PutFlag(seed.capabilities.allow_status)) @@ At(55, U64(seed.model_bundle))
    @@ At(63, U16(seed.max_prompt_bytes)) @@ At(65, U16(seed.max_output_bytes))
    @@ OptionBytes(67, seed.parent, LineageBytes)
    @@ OptionBytes(133, seed.context_budget_bytes, NumberBytes)
    @@ OptionBytes(142, seed.brief_digest, NumberBytes)

\* No two fields share a byte, and none lies outside of the block.
Tiled(block) ==
  /\ \A place \in DOMAIN block : place + block[place].width <= SEED_INPUT_LEN
  /\ \A one, other \in DOMAIN block :
       one < other => one + block[one].width <= other

Held(block, place, width) ==
  /\ place \in DOMAIN block
  /\ block[place].width = width

\* What is read at a place.
Le(block, place) == block[place].value

LineagePlaces(place) ==
  (place :> 8) @@ (place + 8 :> 4) @@ (place + 12 :> 2) @@ (place + 14 :> 4)
    @@ (place + 18 :> 4) @@ (place + 22 :> 8) @@ (place + 30 :> 4) @@ (place + 34 :> 2)
    @@ (place + 36 :> 1) @@ (place + 37 :> 4) @@ (place + 41 :> 8) @@ (place + 49 :> 8)
    @@ (place + 57 :> 8)

LineageFromBytes(block, place) ==
  [parent_run |-> Le(block, place), continued_at_frame |-> Le(block, place + 8),
   model_turns |-> Le(block, place + 12), input_tokens |-> Le(block, place + 14),
   output_tokens |-> Le(block, place + 18), elapsed_ms |-> Le(block, place + 22),
   radio_bytes |-> Le(block, place + 30), mutations |-> Le(block, place + 34),
   consecutive_errors |-> Le(block, place + 36), workflow |-> Le(block, place + 37),
   model |-> Le(block, place + 41), catalog |-> Le(block, place + 49),
   policy |-> Le(block, place + 57)]

SeedPlaces ==
  (0 :> 8) @@ (8 :> 8) @@ (16 :> 4) @@ (20 :> 4) @@ (24 :> 2) @@ (26 :> 2)
    @@ (28 :> 2) @@ (30 :> 8) @@ (38 :> 1) @@ (39 :> 8) @@ (47 :> 1) @@ (48 :> 4)
    @@ (52 :> 1) @@ (53 :> 1) @@ (54 :> 1) @@ (55 :> 8) @@ (63 :> 2) @@ (65 :> 2)
    @@ (67 :> 1) @@ (133 :> 1) @@ (142 :> 1)

IsFlag(block, place) == Le(block, place) \in {0, 1}

OptionPlaces(block, place, places) ==
  IF Le(block, place) = 1 THEN places ELSE <<>>

OptionFromBytes(block, place, From(_, _)) ==
  IF Le(block, place) = 1 THEN <<From(block, place + 1)>> ELSE <<>>
NumberFromBytes(block, place) == [value |-> Le(block, place)]

\* Every field in its place, and zeros where none is.
Canonical(block) ==
  /\ \A place \in DOMAIN SeedPlaces : Held(block, place, SeedPlaces[place])
  /\ \A place \in {53, 54, 67, 133, 142} : IsFlag(block, place)
  /\ LET options == OptionPlaces(block, 67, LineagePlaces(68))
                      @@ OptionPlaces(block, 133, 134 :> 8)
                      @@ OptionPlaces(block, 142, 143 :> 8)
     IN /\ DOMAIN block = DOMAIN SeedPlaces \cup DOMAIN options
        /\ \A place \in DOMAIN options : Held(block, place, options[place])

FromInputBytes(block) ==
  [id |-> Le(block, 0), elapsed_ms |-> Le(block, 8), input_tokens |-> Le(block, 16),
   output_tokens |-> Le(block, 20), model_turns |-> Le(block, 24),
   mutations |-> Le(block, 26), workflow_version |-> Le(block, 28),
   capabilities |->
     [read_pins |-> Le(block, 30), read_count |-> Le(block, 38),
      write_pins |-> Le(block, 39), write_count |-> Le(block, 47),
      sensors |-> Le(block, 48), sensor_count |-> Le(block, 52),
      allow_timer |-> Le(block, 53) = 1, allow_status |-> Le(block, 54) = 1],
   model_bundle |-> Le(block, 55), max_prompt_bytes |-> Le(block, 63),
   max_output_bytes |-> Le(block, 65),
   parent |-> OptionFromBytes(block, 67, LineageFromBytes),
   context_budget_bytes |-> OptionFromBytes(block, 133, NumberFromBytes),
   brief_digest |-> OptionFromBytes(block, 142, NumberFromBytes)]

\* A child is named after its parent and the frame it continues from.
Child(seed, lineage) ==
  [seed EXCEPT !.id = @ + lineage.continued_at_frame + 1,
               !.model_turns = lineage.model_turns, !.mutations = lineage.mutations,
               !.input_tokens = lineage.input_tokens,
               !.output_tokens = lineage.output_tokens,
               !.elapsed_ms = lineage.elapsed_ms, !.parent = <<lineage>>]

----------------------------------------------------------------------------
(* What a run starts from.                                                 *)

PutRunStart(start) ==
  PutRaw([size |-> SEED_INPUT_LEN, text |-> InputBytes(start.seed)])
    \o PutOption(start.brief, LAMBDA brief : PutLong(brief.bytes))
    \o PutOption(start.snapshot,
         LAMBDA fold : U64(fold.digest) \o U16(fold.len) \o U8(fold.harvest))

\* The brief is the one the seed names.
StartHolds(start) ==
  /\ Canonical(start.seed.text)
  /\ \A n \in DOMAIN start.brief : BriefHolds(start.brief[n].bytes)
  /\ FromInputBytes(start.seed.text).brief_digest =
       [n \in DOMAIN start.brief |-> [value |-> DigestOf(start.brief[n].bytes)]]

DecodeRunStart(page) ==
  LET decoded == Keeping(StartHolds, Decoded(page,
        <<Array("seed", SEED_INPUT_LEN),
          Option("brief", <<Text("bytes", 2, BRIEF_CAP)>>),
          Option("snapshot", <<Num("digest", 8, Wide), Num("len", 2, Short),
                               Num("harvest", 1, Byte)>>)>>))
  IN [n \in DOMAIN decoded |-> [decoded[n] EXCEPT !.seed = FromInputBytes(@.text)]]

----------------------------------------------------------------------------
(* The state a run folds into, sealed by a checksum over all of it.        *)

SNAPSHOT_VERSION == 1
MAX_COMPLETED == 8
MAX_FACTS == 16
MAX_FAILED_PATHS == 16
MAX_PENDING == 8
MAX_FINGERPRINTS == 16

PutSnapshot(state) ==
  Sealed(
    U8(SNAPSHOT_VERSION) \o U64(state.objective_digest) \o U16(state.model_turns)
      \o U32(state.input_tokens) \o U32(state.output_tokens) \o U64(state.elapsed_ms)
      \o U32(state.radio_bytes) \o U16(state.mutations) \o U8(state.consecutive_errors)
      \o U32(state.workflow) \o U64(state.model) \o U64(state.catalog) \o U64(state.policy)
      \o PutList(state.completed, LAMBDA note : PutNote(note.note))
      \o PutList(state.open, LAMBDA note : PutNote(note.note))
      \o PutList(state.accepted, LAMBDA decision : U64(decision.digest))
      \o PutList(state.facts, LAMBDA fact : PutNote(fact.note) \o U32(fact.source_seq))
      \o PutList(state.failed, LAMBDA path :
           U8(path.tool) \o U64(path.args_digest) \o U8(path.error))
      \o PutList(state.pending, LAMBDA item :
           U8(item.kind) \o U32(item.seq) \o U64(item.digest))
      \o PutList(state.fingerprints, LAMBDA print : U64(print.digest)))

Notes == <<NoteField("note")>>

SnapshotFields ==
  <<Num("version", 1, {SNAPSHOT_VERSION}), Num("objective_digest", 8, Wide),
    Num("model_turns", 2, Short), Num("input_tokens", 4, Wide),
    Num("output_tokens", 4, Wide), Num("elapsed_ms", 8, Wide),
    Num("radio_bytes", 4, Wide), Num("mutations", 2, Short),
    Num("consecutive_errors", 1, Byte), Num("workflow", 4, Wide),
    Num("model", 8, Wide), Num("catalog", 8, Wide), Num("policy", 8, Wide),
    List("completed", MAX_COMPLETED, Notes), List("open", MAX_COMPLETED, Notes),
    List("accepted", MAX_COMPLETED, <<Num("digest", 8, Wide)>>),
    List("facts", MAX_FACTS, <<NoteField("note"), Num("source_seq", 4, Wide)>>),
    List("failed", MAX_FAILED_PATHS,
         <<Num("tool", 1, Byte), Num("args_digest", 8, Wide), Num("error", 1, 0..10)>>),
    List("pending", MAX_PENDING,
         <<Num("kind", 1, {0, 1}), Num("seq", 4, Wide), Num("digest", 8, Wide)>>),
    List("fingerprints", MAX_FINGERPRINTS, <<Num("digest", 8, Wide)>>)>>

\* Recording again drops what is recorded already.
Once(items, Same(_, _)) ==
  FoldLeft(LAMBDA kept, item :
    IF \E n \in DOMAIN kept : Same(kept[n], item) THEN kept ELSE Append(kept, item),
    <<>>, items)

Rerecorded(state) ==
  [state EXCEPT !.facts = Once(@, LAMBDA one, other : one = other),
                !.failed = Once(@, LAMBDA one, other : one = other),
                !.pending = Once(@, LAMBDA one, other :
                                      one.kind = other.kind /\ one.seq = other.seq)]

DecodeSnapshot(page) ==
  LET decoded == IF Sound(page) THEN Decoded(Front(page), SnapshotFields) ELSE <<>>
  IN [n \in DOMAIN decoded |-> Rerecorded(decoded[n])]
=============================================================================
