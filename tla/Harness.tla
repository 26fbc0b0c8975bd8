------------------------------ MODULE Harness ------------------------------
(***************************************************************************)
(* The host's drive of a run over its journal (esper-runtime run/host.rs,  *)
(* journal.rs): a boot runs the workflow from its start, answers it out of *)
(* the journal as far as that goes, hands it on to the world from there    *)
(* and records every request and every answer.  A crash armed at a point,  *)
(* or a reset armed at a record, stops a boot; the next one starts over.   *)
(* A segment that continues as new gets a journal of its own.              *)
(*                                                                         *)
(* The workflow is any deterministic one: where it stands, and what it     *)
(* wants next, is a function of its input and of the answers so far.       *)
(***************************************************************************)
EXTENDS World, Traces

CONSTANTS
  Begin(_),      \* where a workflow stands when it starts from an input
  After(_, _),   \* and after one more answer; its field want is what it does next
  Seeds,         \* first seeds of a run: [id, version, turns, mutations, parent]
  Worlds,        \* the worlds a run may start in
  NoReset,
  Crashes,       \* crash points a drive may arm
  Resets,        \* resets it may arm
  MAX_BOOTS,     \* boots of one segment
  LateInput,     \* what the operator types after a suspended drive
  MaxDrives      \* bound: drives of one journal

\* What is said is told from silence.
Says(value) == Nothing # [completed |-> TRUE, value |-> value]

ASSUME HarnessAssumption ==
  /\ NoCrash \notin CrashPoint /\ Crashes \subseteq CrashPoint \cup {NoCrash}
  /\ \A r \in Resets \ {NoReset} : r.nth \in Nat \ {0} /\ r.before \in BOOLEAN
  /\ MAX_BOOTS \in Nat \ {0} /\ MaxDrives \in Nat \ {0}
  /\ \A w \in Worlds :
       /\ w = NewWorld(w.lines, w.faults, w.inputs, w.stuck)
       /\ w.lines \in Seq(Range(w.lines)) /\ w.inputs \in Seq(Range(w.inputs))
       /\ w.faults \in Seq(Range(w.faults))
       /\ \A fault \in Range(w.faults) :
            fault \in [tool : {fault.tool}, resource : {fault.resource}, times : Nat]
       /\ \A line \in Range(w.lines) : Says(line)
       /\ \A input \in Range(w.inputs) : Says(input)
  /\ Says(LateInput)

VARIABLES
  phase,    \* "bind" | "boot" | "up" | "finish" | "returned"
  seed,     \* the seed of the segment that is driven
  handoff,  \* chunks its parent handed over
  journal,  \* its journal
  past,     \* the segments before it, and their journals
  world,
  boot,     \* the boot: place in the journal, the workflow, the dispatch
  boots,    \* boots of this drive of this segment
  armed,    \* the crash point every segment of the drive is armed with
  crash,    \* the one that is armed now
  reset,    \* the reset that is armed now
  confirm,  \* whether the recorded end is to be concluded once more
  result,   \* what the drive returned
  drives    \* drives so far

vars == <<phase, seed, handoff, journal, past, world, boot, boots, armed, crash,
          reset, confirm, result, drives>>

NewJournal == [input |-> <<>>, records |-> <<>>, terminal |-> <<>>,
               continued |-> <<>>, commits |-> 0]

NewBoot == [at |-> 0, run |-> Nothing, dispatched |-> FALSE, answer |-> Nothing]

NoResult == [is |-> "none"]

\* A drive arms a crash point or a reset, never both.
Arms(c, r) == c = NoCrash \/ r = NoReset

Init ==
  /\ phase = "bind"
  /\ seed \in Seeds
  /\ handoff = {}
  /\ journal = NewJournal
  /\ past = <<>>
  /\ world \in Worlds
  /\ boot = NewBoot /\ boots = 0
  /\ armed \in Crashes /\ crash = armed
  /\ reset \in Resets
  /\ Arms(armed, reset)
  /\ confirm = FALSE
  /\ result = NoResult
  /\ drives = 1

----------------------------------------------------------------------------
(* Binding the segment to its journal.                                     *)

Start == [seed |-> seed, chunks |-> handoff]

Returns(value) ==
  /\ phase' = "returned"
  /\ result' = value

Error(error) == Returns([is |-> "error", error |-> error])

WORKFLOW_VERSION == 1

\* A seed names the version of the workflow this build runs and grants a turn;
\* its capabilities and its inference are valid here.
Valid(s) == s.version = WORKFLOW_VERSION /\ s.turns > 0

\* A malformed seed is refused before the journal is looked at.  Another seed
\* than the journal's own is refused too; both then name one version.
Bind ==
  /\ phase = "bind"
  /\ \/ /\ ~Valid(seed)
        /\ Error("SeedInvalid")
        /\ UNCHANGED <<journal, world>>
     \/ /\ Valid(seed) /\ journal.input = <<>>
        /\ phase' = "boot"
        /\ journal' = [journal EXCEPT !.input = <<Start>>]
        /\ world' = [world EXCEPT !.store = handoff]
        /\ UNCHANGED result
     \/ /\ Valid(seed) /\ journal.input # <<>>
        /\ IF journal.input = <<Start>> THEN phase' = "boot" /\ UNCHANGED result
           ELSE Error("SeedMismatch")
        /\ UNCHANGED <<journal, world>>
  /\ boots' = 0
  /\ UNCHANGED <<seed, handoff, past, boot, armed, crash, reset, confirm, drives>>

\* A boot starts the workflow over, unless its end stands.
Boot ==
  /\ phase = "boot"
  /\ IF boots = MAX_BOOTS THEN Error("TooManyBoots") /\ UNCHANGED <<boot, boots>>
     ELSE IF journal.terminal # <<>> /\ ~confirm
     THEN phase' = "finish" /\ UNCHANGED <<boot, boots, result>>
     ELSE /\ phase' = "up"
          /\ boot' = [NewBoot EXCEPT !.run = Begin(journal.input[1])]
          /\ boots' = boots + 1
          /\ UNCHANGED result
  /\ UNCHANGED <<seed, handoff, journal, past, world, armed, crash, reset, confirm,
                 drives>>

----------------------------------------------------------------------------
(* Scheduling: out of the journal as far as it goes.                       *)

Wanted == boot.run.want

Requests == phase = "up" /\ ~boot.dispatched /\ Wanted.op = "activity"

Agrees == journal.records[boot.at + 1] = Scheduled(Wanted.request)

Answered(answer, at) ==
  [at |-> at, run |-> After(boot.run, answer), dispatched |-> FALSE, answer |-> Nothing]

Replay ==
  /\ Requests
  /\ boot.at + 1 < Len(journal.records)
  /\ Agrees
  /\ LET answer == journal.records[boot.at + 2]
     IN IF answer.is = "Resolved"
        THEN boot' = Answered(answer.answer, boot.at + 2) /\ UNCHANGED <<phase, result>>
        ELSE Error("ReplayDiverged") /\ UNCHANGED boot
  /\ UNCHANGED <<seed, handoff, journal, past, world, boots, armed, crash, reset,
                 confirm, drives>>

\* A request with no answer is handed on again, under its name.
Redeliver ==
  /\ Requests
  /\ boot.at + 1 = Len(journal.records)
  /\ Agrees
  /\ boot' = [boot EXCEPT !.dispatched = TRUE, !.at = @ + 1]
  /\ UNCHANGED <<phase, seed, handoff, journal, past, world, boots, armed, crash,
                 reset, confirm, result, drives>>

Diverge ==
  /\ Requests
  /\ boot.at < Len(journal.records)
  /\ ~Agrees
  /\ Error("ReplayDiverged")
  /\ UNCHANGED <<seed, handoff, journal, past, world, boot, boots, armed, crash,
                 reset, confirm, drives>>

\* A record is counted; the reset armed at it stops the boot there.
Struck == reset # NoReset /\ reset.nth = journal.commits + 1
StruckBefore == Struck /\ reset.before

Record(record) ==
  /\ journal' = [journal EXCEPT !.commits = @ + 1,
                    !.records = IF StruckBefore THEN @ ELSE Append(@, record)]
  /\ reset' = IF Struck THEN NoReset ELSE reset

\* Mutant: a crash point stays armed.
StillArmed(point) == crash = point /\ crash' = crash

\* A crash point stops one boot.
Fires(point) == crash = point /\ crash' = NoCrash

Down == phase' = "boot" /\ boot' = NewBoot

ScheduleNew ==
  /\ Requests
  /\ boot.at = Len(journal.records)
  /\ Record(Scheduled(Wanted.request))
  /\ \/ Struck /\ Down /\ UNCHANGED crash
     \/ ~Struck /\ Fires(AfterSchedule(Wanted.request)) /\ Down
     \/ /\ ~Struck /\ crash # AfterSchedule(Wanted.request)
        /\ boot' = [boot EXCEPT !.dispatched = TRUE, !.at = @ + 1]
        /\ UNCHANGED <<phase, crash>>
  /\ UNCHANGED <<seed, handoff, past, world, boots, armed, confirm, result, drives>>

----------------------------------------------------------------------------
(* Dispatching, and recording the answer.                                  *)

\* A question no one has answered stays outstanding, and the boot ends.
Dispatched ==
  /\ phase = "up" /\ boot.dispatched /\ boot.answer = Nothing
  /\ LET served == Served(world, seed.id, Wanted.request)
     IN /\ world' = served.world
        /\ IF served.answer = Nothing THEN phase' = "finish" /\ UNCHANGED boot
           ELSE boot' = [boot EXCEPT !.answer = served.answer] /\ UNCHANGED phase
  /\ UNCHANGED <<seed, handoff, journal, past, boots, armed, crash, reset, confirm,
                 result, drives>>

Resolves == phase = "up" /\ boot.answer # Nothing

\* Mutant: a line whose record was lost is not delivered again.
TakenBackInputs ==
  IF Wanted.request.kind = "ASK" THEN Untaken(world) ELSE world

\* A line or an input whose record was lost is delivered again.
TakenBack ==
  IF Wanted.request.kind = "INFER" THEN Unemitted(world)
  ELSE IF Wanted.request.kind = "ASK" THEN Untaken(world)
  ELSE world

ResolveCrashed ==
  /\ Resolves
  /\ Fires(BeforeResolve(Wanted.request))
  /\ world' = TakenBack
  /\ Down
  /\ UNCHANGED <<seed, handoff, journal, past, boots, armed, reset, confirm, result,
                 drives>>

ResolveLost ==
  /\ Resolves
  /\ crash # BeforeResolve(Wanted.request)
  /\ StruckBefore
  /\ Record(Resolved(boot.answer))
  /\ world' = TakenBack
  /\ Down
  /\ UNCHANGED <<seed, handoff, past, boots, armed, crash, confirm, result, drives>>

Resolve ==
  /\ Resolves
  /\ crash # BeforeResolve(Wanted.request)
  /\ ~StruckBefore
  /\ Record(Resolved(boot.answer))
  /\ \/ Struck /\ Down /\ UNCHANGED crash
     \/ ~Struck /\ Fires(AfterResolve(Wanted.request, boot.answer)) /\ Down
     \/ /\ ~Struck
        /\ crash # AfterResolve(Wanted.request, boot.answer)
        /\ boot' = Answered(boot.answer, boot.at + 1)
        /\ UNCHANGED <<phase, crash>>
  /\ UNCHANGED <<seed, handoff, past, world, boots, armed, confirm, result, drives>>

----------------------------------------------------------------------------
(* The end of a boot.                                                      *)

WorkflowFails ==
  /\ phase = "up" /\ Wanted.op = "error"
  /\ Error(Wanted.error)
  /\ UNCHANGED <<seed, handoff, journal, past, world, boot, boots, armed, crash,
                 reset, confirm, drives>>

ContinueAsNew ==
  /\ phase = "up" /\ Wanted.op = "continue"
  /\ journal' = [journal EXCEPT !.continued = <<Wanted.start>>]
  /\ phase' = "finish"
  /\ UNCHANGED <<seed, handoff, past, world, boot, boots, armed, crash, reset,
                 confirm, result, drives>>

Concludes == phase = "up" /\ Wanted.op = "conclude"

\* The end is not recorded, or is recorded and concluded once more.
Conclude ==
  /\ Concludes
  /\ journal.terminal = <<>>
  /\ \/ Fires("BeforeTerminalCommit") /\ Down /\ UNCHANGED <<journal, confirm>>
     \/ /\ crash # "BeforeTerminalCommit"
        /\ journal' = [journal EXCEPT !.terminal = <<Wanted.status>>]
        /\ \/ Fires("AfterTerminalCommit") /\ Down /\ confirm' = TRUE
           \/ /\ crash # "AfterTerminalCommit" /\ phase' = "finish"
              /\ UNCHANGED <<boot, crash, confirm>>
  /\ UNCHANGED <<seed, handoff, past, world, boots, armed, reset, result, drives>>

Confirm ==
  /\ Concludes
  /\ journal.terminal # <<>>
  /\ IF journal.terminal = <<Wanted.status>>
     THEN phase' = "finish" /\ UNCHANGED result ELSE Error("ReplayDiverged")
  /\ UNCHANGED <<seed, handoff, journal, past, world, boot, boots, armed, crash,
                 reset, confirm, drives>>

----------------------------------------------------------------------------
(* What the drive returns, and the next segment.                           *)

Trace == TraceOf(journal, seed)

Waits ==
  journal.records # <<>> /\ Last(journal.records).is = "Scheduled"
    /\ Last(journal.records).request.kind = "ASK"

Outcome ==
  IF Corrupt(journal, seed) THEN [is |-> "error", error |-> "JournalCorrupt"]
  ELSE IF journal.terminal # <<>> THEN [is |-> "completed", trace |-> Trace]
  ELSE IF Waits THEN [is |-> "suspended", trace |-> Trace]
  ELSE [is |-> "error", error |-> "IllegalTransition"]

RollsOver ==
  ~Corrupt(journal, seed) /\ journal.terminal = <<>> /\ journal.continued # <<>>

Finish ==
  /\ phase = "finish"
  /\ ~RollsOver
  /\ Returns(Outcome)
  /\ UNCHANGED <<seed, handoff, journal, past, world, boot, boots, armed, crash,
                 reset, confirm, drives>>

\* The child starts from what the snapshot store holds of its start.
NextSegment ==
  /\ phase = "finish"
  /\ RollsOver
  /\ LET start == journal.continued[1]
     IN IF start.chunks \subseteq world.store
        THEN /\ phase' = "bind"
             /\ seed' = start.seed
             /\ handoff' = start.chunks
             /\ past' = Append(past, [seed |-> seed, journal |-> journal])
             /\ journal' = NewJournal
             /\ crash' = armed /\ reset' = NoReset /\ confirm' = FALSE
             /\ UNCHANGED result
        ELSE /\ Error("JournalCorrupt")
             /\ UNCHANGED <<seed, handoff, past, journal, crash, reset, confirm>>
  /\ UNCHANGED <<world, boot, boots, armed, drives>>

\* The operator answers later, and the run is driven again: over the same
\* journal, with its seed or another.
DriveAgain ==
  /\ phase = "returned" /\ result.is = "suspended"
  /\ past = <<>>
  /\ drives < MaxDrives
  /\ phase' = "bind"
  /\ seed' \in {seed, [seed EXCEPT !.version = @ + 1], [seed EXCEPT !.turns = @ + 1]}
  /\ world' = [world EXCEPT !.inputs = Append(@, LateInput)]
  /\ armed' \in Crashes /\ crash' = armed'
  /\ reset' \in Resets
  /\ Arms(armed', reset')
  /\ confirm' = FALSE
  /\ result' = NoResult
  /\ drives' = drives + 1
  /\ UNCHANGED <<handoff, journal, past, boot, boots>>

Driving ==
  \/ Bind \/ Boot
  \/ Replay \/ Redeliver \/ Diverge \/ ScheduleNew
  \/ Dispatched \/ ResolveCrashed \/ ResolveLost \/ Resolve
  \/ WorkflowFails \/ ContinueAsNew \/ Conclude \/ Confirm
  \/ Finish \/ NextSegment

Next == Driving \/ DriveAgain

Spec == Init /\ [][Next]_vars

\* A drive is one call that runs on by itself.
FairSpec == Spec /\ WF_vars(Driving)

----------------------------------------------------------------------------
(* Properties.                                                             *)

\* Type invariant: the journal pairs requests with answers, only a running
\* boot has a place in it, the records counted are those kept and the few
\* the reset took.
TypeOK ==
  /\ phase \in {"bind", "boot", "up", "finish", "returned"}
  /\ Pairs(journal.records)
  /\ phase = "up" => boot.at \in 0..Len(journal.records)
  /\ journal.commits \in Len(journal.records)..(Len(journal.records) + MaxDrives)
  /\ boots \in 0..MAX_BOOTS /\ drives \in 1..MaxDrives
  /\ world.taken \in 0..Len(world.inputs) /\ world.emitted \in 0..Len(world.lines)

\* Every journal of the run, the current one last.
Journals == [n \in DOMAIN past |-> past[n].journal] \o <<journal>>

AnswersIn(records, kind) ==
  LET at == SetToSortSeq(WithOutcome(records, kind), <)
  IN [k \in DOMAIN at |-> records[at[k] + 1].answer.value]

Answers(kind) ==
  FlattenSeq([j \in DOMAIN Journals |-> AnswersIn(Journals[j].records, kind)])

KeptJournals == {past[n].journal : n \in DOMAIN past} \cup {journal}

Effects == {world.device.effects[n] : n \in DOMAIN world.device.effects}

\* The effect a call is performed as, and whether one is what a journal has on
\* record at n.
NameAt(j, n) ==
  [run |-> j.input[1].seed.id, seq |-> j.records[n].request.call.seq]

IsRecordedAt(effect, j, n) ==
  effect.id = NameAt(j, n) /\ effect.outcome = j.records[n + 1].answer.value

IsRecorded(effect) ==
  \E j \in KeptJournals : \E n \in ToolObservations(j.records) :
    IsRecordedAt(effect, j, n)

\* The call that was handed on last, and has no answer yet.
IsOutstanding(effect) ==
  \E n \in Requested(journal.records, "TOOL") :
    n = Len(journal.records) /\ effect.id = NameAt(journal, n)

\* However often a call is handed on, the device performs it once: no two
\* effects have one name, every recorded outcome is what was performed under its
\* name, and every effect is on record but for the one of a call that is yet to
\* be answered (world.rs FakeDevice).
EffectsOnce ==
  /\ \A m, n \in DOMAIN world.device.effects :
       world.device.effects[m].id = world.device.effects[n].id => m = n
  /\ \A j \in KeptJournals : \A n \in ToolObservations(j.records) :
       \/ j.records[n + 1].answer.value = Transient
       \/ \E effect \in Effects : IsRecordedAt(effect, j, n)
  /\ \A effect \in Effects : IsRecorded(effect) \/ IsOutstanding(effect)

=============================================================================
