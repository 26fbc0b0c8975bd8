----------------------------- MODULE MCHarness -----------------------------
(***************************************************************************)
(* Harness on small instances: the host drives a run in outline (Run has   *)
(* the whole of it), under every crash point and every reset, and the      *)
(* result is compared with that of the same run undisturbed.               *)
(***************************************************************************)
EXTENDS Harness, Carried, TLC

CONSTANT SegmentTurns   \* turns of a segment whose seed has a context budget

VARIABLE first   \* the seed and the world the run started with

----------------------------------------------------------------------------
(* The run in outline: what it has left and where it stands.               *)

Bad == [is |-> "invalid"]
AskLine == [is |-> "ask"]
FinishLine == [is |-> "finish"]
CallLine(tool, resource, value) ==
  [is |-> "call", tool |-> tool, resource |-> resource, value |-> value]

MCClass(line) == line.is

NoWant == [op |-> "none"]

Request(run, request) ==
  [run EXCEPT !.want = [op |-> "activity", request |-> request]]
End(run, status) ==
  [run EXCEPT !.want = [op |-> "conclude", status |-> status]]

Fails(run, error) == [run EXCEPT !.want = [op |-> "error", error |-> error]]

Left(run) == [turns |-> run.turns, mutations |-> run.mutations]

AskModel(run) ==
  Request(run, [kind |-> "INFER", turn |-> run.inferred, last |-> run.last,
                prior |-> PriorCtx(run.carried, run.seed.parent)])

\* The fold and the harvest, in one piece.
Chunk(run) ==
  [fold |-> HandedFold(run.carried, Left(run)), kept |-> Sealed(run.carried.harvester).kept]

Gathered(run) ==
  IF run.turns = 0 \/ run.mutations = 0 THEN End(run, "BudgetExhausted")
  ELSE IF run.seed.rolls /\ run.inferred >= SegmentTurns
  THEN IF run.carried.faulted THEN Fails(run, "CompactStateFull")
       ELSE Request(run, [kind |-> "SNAP_STORE", chunk |-> Chunk(run)])
  ELSE AskModel(run)

MCBegin(start) ==
  LET run == [seed |-> start.seed, turns |-> start.seed.turns,
              mutations |-> start.seed.mutations, inferred |-> 0, repairs |-> 0,
              seq |-> 0, failures |-> 0, last |-> "", call |-> Bad, want |-> NoWant,
              carried |-> Begun(start.seed.rolls, start.seed.id,
                                [turns |-> start.seed.turns,
                                 mutations |-> start.seed.mutations])]
  IN IF start.chunks = {} THEN Gathered(run)
     ELSE Request(run, [kind |-> "SNAP_LOAD",
                        chunk |-> CHOOSE chunk \in start.chunks : TRUE])

DigestOf(call) == <<call.tool, call.resource, call.value>>

Attempted(run, attempt) ==
  LET line == run.call
  IN Request(run, [kind |-> "TOOL",
       call |-> [tool |-> line.tool, resource |-> line.resource,
                 value |-> line.value, attempt |-> attempt,
                 write |-> line.tool \in {"write", "delay"}, seq |-> run.seq,
                 digest |-> DigestOf(line)]])

Authorized(run) ==
  LET call == run.call
      changes == call.tool \in {"write", "delay"}
      seq == run.seq + 1
  IN IF changes /\ run.mutations = 0 THEN End(run, "BudgetExhausted")
     ELSE IF RuledOut(run.carried, call.tool, DigestOf(call)) THEN End(run, "Stuck")
     ELSE Attempted([run EXCEPT !.mutations = IF changes THEN @ - 1 ELSE @, !.seq = seq,
                       !.carried = Intended(@, seq, call.tool, DigestOf(call))], 1)

Repaired(run) ==
  IF run.turns = 0 THEN End(run, "BudgetExhausted")
  ELSE IF run.repairs >= 3 THEN End(run, "ModelInvalid")
  ELSE AskModel(run)

Inferred(run, line) ==
  LET spent == [run EXCEPT !.turns = @ - 1, !.inferred = @ + 1,
                           !.carried = Decided(@, line)]
  IN IF line.is = "finish" THEN End(spent, "Completed")
     ELSE IF line.is = "ask" THEN Request([spent EXCEPT !.carried = Asked(@, line)], [kind |-> "ASK"])
     ELSE IF line.is = "invalid" THEN Repaired([spent EXCEPT !.repairs = @ + 1])
     ELSE IF line.tool = "write"
     THEN Request([spent EXCEPT !.call = line],
                  [kind |-> "PROBE", pin |-> line.resource])
     ELSE Authorized([spent EXCEPT !.call = line])

CheckOf(call, outcome) ==
  IF call.tool = "write"
  THEN [of |-> "pin", pin |-> call.resource, level |-> call.value]
  ELSE [of |-> "clock", target |-> outcome.uptime - outcome.waited + call.value]

Reported(run, outcome) ==
  LET call == run.want.request.call
      noted == [run EXCEPT !.carried = Seen(@, call, outcome = Transient, <<outcome>>)]
      seen == [noted EXCEPT !.last = outcome]
  IN IF outcome = Transient
     THEN IF call.attempt = 3 THEN End(noted, "Stuck")
          ELSE Attempted(noted, call.attempt + 1)
     ELSE IF call.write
     THEN Request(seen, [kind |-> "VERIFY", call |-> call,
                         check |-> CheckOf(call, outcome)])
     ELSE Gathered(seen)

Verified(run, observed) ==
  LET passed == Passes(run.want.request.check, observed)
      noted == [run EXCEPT !.carried = Checked(@, run.want.request.call, passed)]
  IN IF passed THEN Gathered([noted EXCEPT !.failures = 0])
     ELSE IF run.failures = 2 THEN End(noted, "Stuck")
     ELSE Gathered([noted EXCEPT !.failures = @ + 1])

Child(run) ==
  [run.seed EXCEPT !.id = @ + ContinuedAtFrame(run.carried) + 1,
                   !.parent = ContinuedAtFrame(run.carried),
                   !.turns = run.turns, !.mutations = run.mutations]

Continued(run, chunk) ==
  [run EXCEPT !.want = [op |-> "continue",
     start |-> [seed |-> Child(run), chunks |-> {chunk}]]]

MCAfter(run, answer) ==
  LET request == run.want.request
  IN IF ~answer.completed
     THEN Fails(run, answer.value)
     ELSE IF request.kind = "INFER" THEN Inferred(run, answer.value)
     ELSE IF request.kind = "PROBE" THEN Authorized(run)
     ELSE IF request.kind = "TOOL" THEN Reported(run, answer.value)
     ELSE IF request.kind = "VERIFY" THEN Verified(run, answer.value)
     ELSE IF request.kind = "SNAP_STORE" THEN Continued(run, request.chunk)
     ELSE IF request.kind = "SNAP_LOAD"
     THEN Gathered([run EXCEPT
            !.carried = Loaded(@, answer.value.fold, answer.value.kept)])
     ELSE Gathered([run EXCEPT !.carried = Told(@, answer.value)])

----------------------------------------------------------------------------
(* Seeds and worlds.                                                       *)

Seed(turns, mutations, rolls) ==
  [id |-> 1, version |-> 1, parent |-> 0, turns |-> turns,
   mutations |-> mutations, rolls |-> rolls]

MCSeeds == {Seed(5, 4, FALSE), Seed(5, 4, TRUE), Seed(3, 2, FALSE)}

WriteHigh == CallLine("write", 0, High)
Delay == CallLine("delay", 0, 5)

WritesAndWaits ==
  <<WriteHigh, CallLine("read", 0, 0), Delay, FinishLine, FinishLine>>

Lines ==
  {WritesAndWaits,
   <<AskLine, CallLine("write", 1, High), Bad, AskLine, FinishLine>>,
   <<WriteHigh, WriteHigh, WriteHigh, WriteHigh, FinishLine>>,
   <<CallLine("sample", 1, 0), CallLine("uptime", 0, 0),
     CallLine("sample", SensorCount, 0), FinishLine, FinishLine>>,
   <<Delay, Delay, CallLine("status", 0, 0), FinishLine, FinishLine>>}

NoFaults == <<>>
Hiccups == <<[tool |-> AnyTool, resource |-> 0, times |-> 2]>>
Harvesting ==
  <<CallLine("read", 1, 0), CallLine("write", 1, High), CallLine("read", 1, 0),
    CallLine("uptime", 0, 0), FinishLine>>

StuckTwice ==
  <<WriteHigh, CallLine("write", 1, High), FinishLine, FinishLine, FinishLine>>

Exhausting ==
  <<[tool |-> "delay", resource |-> 0, times |-> 1],
    [tool |-> "write", resource |-> 0, times |-> 3]>>

MCWorlds ==
  {NewWorld(lines, Hiccups, <<"one", "two">>, {}) : lines \in Lines}
  \cup {NewWorld(lines, NoFaults, <<>>, {0}) : lines \in Lines}
  \cup {NewWorld(WritesAndWaits, Exhausting, <<>>, {}),
        NewWorld(Harvesting, Hiccups, <<>>, {}), NewWorld(StuckTwice, NoFaults, <<>>, {0, 1})}

MCResets ==
  {NoReset} \cup [nth : 1..18, before : BOOLEAN]

MCCrashes == CrashPoint \cup {NoCrash}

----------------------------------------------------------------------------
MCInit == Init /\ first = [seed |-> seed, world |-> world]

\* The records and the end of every segment of a run no one disturbs, one
\* request at a time; Horizon of them are enough for any of these runs.
Horizon == 30

Standing(start, w) ==
  [id |-> start.seed.id, run |-> MCBegin(start), world |-> w, records |-> <<>>,
   segments |-> <<>>, over |-> FALSE]

Closed(at, terminal) ==
  Append(at.segments, [records |-> at.records, terminal |-> terminal])

Stepped(at) ==
  LET want == at.run.want
      served == Served(at.world, at.id, want.request)
  IN IF at.over THEN at
     ELSE IF want.op = "continue"
     THEN [Standing(want.start, [at.world EXCEPT !.store = want.start.chunks])
             EXCEPT !.segments = Closed(at, <<>>)]
     ELSE IF want.op = "conclude"
     THEN [at EXCEPT !.over = TRUE, !.segments = Closed(at, <<want.status>>)]
     ELSE IF want.op = "error" THEN [at EXCEPT !.over = TRUE]
     ELSE IF served.answer = Nothing
     THEN [at EXCEPT !.over = TRUE, !.segments =
             Append(@, [records |-> Append(at.records, Scheduled(want.request)),
                        terminal |-> <<>>])]
     ELSE [at EXCEPT !.world = served.world,
                     !.run = MCAfter(@, served.answer),
                     !.records = @ \o <<Scheduled(want.request),
                                       Resolved(served.answer)>>]

\* A world after so many late inputs.
AnsweredLate(w, n) == [w EXCEPT !.inputs = @ \o [k \in 1..n |-> LateInput]]

WorldsAnswered == {AnsweredLate(w, n) : w \in MCWorlds, n \in 0..(MaxDrives - 1)}

Undisturbed ==
  [s \in MCSeeds, w \in WorldsAnswered |->
     FoldLeft(LAMBDA at, n : Stepped(at), Standing([seed |-> s, chunks |-> {}], w),
              [n \in 1..Horizon |-> n])]

\* Transient faults that met an attempt whose record a crash took.
Remaining(faults) == FoldLeft(LAMBDA sum, f : sum + f.times, 0, faults)

FaultsTaken == Remaining(first.world.faults) - Remaining(world.faults)

FaultsRecorded ==
  Len(SelectSeq(Answers("TOOL"), LAMBDA outcome : outcome = Transient))

Returned == phase = "returned" /\ result.is \in {"completed", "suspended"}

Waited ==
  FoldLeft(LAMBDA sum, effect :
             IF "waited" \in DOMAIN effect.outcome THEN sum + effect.outcome.waited
             ELSE sum, 0, world.device.effects)

Observed ==
  SelectSeq(Answers("TOOL"), LAMBDA outcome : outcome # Transient)

\* The device did what the records tell, in their order, and at most one call
\* more; its clock is at the sum of the delays.
DeviceIsRecords ==
  /\ world.device.clock = Waited
  /\ IsPrefix(Observed, [n \in DOMAIN world.device.effects |->
                            world.device.effects[n].outcome])
  /\ Len(world.device.effects) <= Len(Observed) + 1

\* Whatever crash point or reset a drive is armed with, it returns with the
\* records and the end of the undisturbed run, segment by segment (the crash
\* matrix of run/host.rs), and the device shows no more; a transient fault is
\* met once, so a run that lost the record of one goes on without it.
CrashesLeaveNoTrace ==
  /\ DeviceIsRecords
  /\ Returned /\ FaultsTaken = FaultsRecorded =>
       [n \in DOMAIN Journals |->
          [records |-> Journals[n].records, terminal |-> Journals[n].terminal]]
         = Undisturbed[first.seed, [first.world EXCEPT !.inputs = world.inputs]].segments

\* The trace read back from the records has what the run had left when it
\* stopped, ends as the run ended, and waits where the run waits (trace.rs,
\* run/host.rs derive_frames).
TraceIsRun ==
  Returned =>
    LET run == boot.run
    IN /\ result.trace.turns = run.turns
       /\ result.trace.mutations = run.mutations
       /\ IF result.is = "completed"
          THEN result.trace.terminal = <<run.want.status>> /\ ~result.trace.suspended
          ELSE result.trace.suspended /\ run.want.request.kind = "ASK"

\* The records the running boot has taken up, and the request it has made.
TakenUp ==
  SubSeq(journal.records, 1, boot.at)
    \o (IF Requests THEN <<Scheduled(Wanted.request)>> ELSE <<>>)

\* What a frame of the derived view tells the fold.
Summary(records, frame, seq) ==
  LET request == records[frame.at].request
      call == request.call
      answer == records[frame.at + 1].answer.value
      passed == Passes(request.check, answer)
  IN CASE frame.is = "RunStarted" ->
            Frame(seq, "RunSeed", 0, 0, "Ok", "NoProgress", <<>>)
       [] frame.is = "ModelDecision" ->
            Frame(seq, "ModelDecision", 0, answer, "Ok", "NoProgress", <<>>)
       [] frame.is = "ToolIntent" ->
            Frame(seq, "ToolRequest", call.tool, call.digest, "Ok", "NoProgress", <<>>)
       [] frame.is = "ToolObservation" ->
            Frame(seq, "ToolObservation", call.tool, call.digest, "Ok",
                  IF call.write \/ answer = Transient THEN "NoProgress" ELSE "NewEvidence",
                  <<answer>>)
       [] frame.is = "Verification" ->
            Frame(seq, "VerificationResult", call.tool, call.digest,
                  IF passed THEN "Ok" ELSE "VerificationFailed",
                  IF passed THEN "StateChanged" ELSE "NoProgress", <<>>)
       [] frame.is = "ApprovalRequest" ->
            Frame(seq, "ApprovalRequest", 0, AskLine, "Ok", "NoProgress", <<AskLine>>)
       [] frame.is = "ApprovalDecision" ->
            Frame(seq, "ApprovalDecision", 0, answer, "Ok", "InputReceived", <<>>)

\* The fold over a whole journal's frames: the first segment's from nothing,
\* a child's onto its parent's, where its own start is no frame.
FoldOf(carried, frames, summaries) ==
  IF carried.parent # <<>>
  THEN Compacted(carried.parent[1], Tail(summaries))
  ELSE Compacted(NewFold(seed.id, [turns |-> seed.turns, mutations |-> seed.mutations]),
                 summaries)

\* The fold a run builds as it goes, one answer after the other and over
\* again at every boot, is the fold of the frames derived from its records,
\* refusal included, and its count is their number (run/mod.rs: frame_seq is
\* "the next frame's index in the derived view").
FoldIsFrames ==
  phase = "up" =>
    LET carried == boot.run.carried
        records == TakenUp
        frames == Frames(records)
        held == FoldOf(carried, frames,
                       [k \in DOMAIN frames |-> Summary(records, frames[k], k - 1)])
    IN /\ carried.frame_seq = Len(frames)
       /\ carried.rolls => carried.fold = held.fold /\ carried.faulted = held.refused

\* The effects of a journal that earned an entry, in order: observed, and
\* verified under the same name when they change anything.
EarnedIn(records) ==
  LET observed(n) == HasOutcome(records, n) /\ records[n + 1].answer.value # Transient
      verified(n) == \E m \in Verifications(records, TRUE) :
                       records[m].request.call.seq = records[n].request.call.seq
      earned == {n \in Requested(records, "TOOL") :
                   observed(n) /\ (records[n].request.call.write => verified(n))}
      at == SetToSortSeq(earned, <)
  IN [k \in DOMAIN at |-> [call |-> records[at[k]].request.call,
                           value |-> records[at[k] + 1].answer.value]]

\* The last outcome of every call, oldest first.
LastOfEach(effects) ==
  LET at == {k \in DOMAIN effects :
               \A m \in (k + 1)..Len(effects) :
                 effects[m].call.digest # effects[k].call.digest}
      order == SetToSortSeq(at, <)
      dropped == IF Len(order) < MAX_OBSERVATIONS THEN 0 ELSE Len(order) - MAX_OBSERVATIONS
  IN [k \in 1..(Len(order) - dropped) |-> effects[order[dropped + k]]]

\* What a run teaches is in its records, over all segments: the last outcome
\* of each call that was seen and, where it changes anything, read back
\* (harvest.rs: "Never remember an unverified mutation"); at
\* its end, that and the goal's outcome.
HarvestIsRecords ==
  phase = "up" /\ (past # <<>> => boot.run.carried.parent # <<>>) =>
    LET kept == Sealed(boot.run.carried.harvester).kept
        effects == FlattenSeq([s \in DOMAIN past |-> EarnedIn(past[s].journal.records)])
                     \o EarnedIn(TakenUp)
        last == LastOfEach(effects)
    IN /\ [k \in DOMAIN kept |-> <<kept[k].key.digest, kept[k].value>>]
            = [k \in DOMAIN last |-> <<last[k].call.digest, <<last[k].value>>>>]
       /\ Wanted.op = "conclude" =>
            LET set == HarvestSet(boot.run.carried.harvester, "goal", Wanted.status,
                                  <<"summary">>)
            IN /\ Front(set) = kept /\ Last(set).key = OutcomeKey("goal")
               /\ Len(set) <= MAX_HARVEST

\* Every drive returns, within its boots, and what it returns is the run's
\* end, its question, a fault of the device or a fold that is full; replaying
\* never diverges and a journal never reads as corrupt.
Settled ==
  /\ phase = "returned"
  /\ result.is = "error" =>
       result.error \in {"SeedInvalid", "SeedMismatch", "UnknownResource",
                         "CompactStateFull"}

=============================================================================
