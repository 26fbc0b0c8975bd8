------------------------------ MODULE Carried ------------------------------
(***************************************************************************)
(* What a run carries into its next segment (esper-runtime run/mod.rs):    *)
(* the harvest it has so far (esper-core harvest.rs), the fold of its      *)
(* frames, the number of the next frame, and the fold its parent handed    *)
(* over, which rules out what failed there.  The record is changed as the  *)
(* run is answered, one operator per answer.                               *)
(*                                                                         *)
(* Texts are sequences of parts, as in Folding; masking (Masking) changes  *)
(* no part these tell apart.                                               *)
(***************************************************************************)
EXTENDS Folding

CONSTANTS
  MEMORY_INPUT_MAX,   \* parts of a text that can be ingested
  MAX_HARVEST,        \* entries a settled run yields
  ReadOnly            \* the tools whose contract says they change nothing

ASSUME HarvestsAssumption == MEMORY_INPUT_MAX \in Nat /\ MAX_HARVEST \in Nat \ {0, 1}

----------------------------------------------------------------------------
(* The harvest, over the entries of memory.rs: the last outcome of every   *)
(* call that earned one.  A run has one effect open at a time; the next    *)
(* request, a rollover or the end of the run closes it, and it is kept if  *)
(* it was observed and, when it changes anything, verified.                *)

MAX_OBSERVATIONS == MAX_HARVEST - 1

\* A text for memory: its first parts, or nothing of one that is too long.
Ingest(raw) == IF Len(raw) > MEMORY_INPUT_MAX THEN <<>> ELSE <<Truncated(raw)>>

ObservationKey(tool, digest) == [kind |-> "Observation", tool |-> tool, digest |-> digest]
OutcomeKey(goal) == [kind |-> "Outcome", goal |-> goal]

Entry(key, label, value) == [key |-> key, label |-> label, value |-> value]

NewHarvester == [open |-> <<>>, kept |-> <<>>]

\* A harvester that goes on from what an earlier segment kept.
Resumed(kept) == IF Len(kept) > MAX_OBSERVATIONS THEN <<>>
                 ELSE <<[NewHarvester EXCEPT !.kept = kept]>>

\* Mutant: an effect that was not verified is kept as well.
EarnedByAny(effect) == effect.label # <<>> /\ effect.value # <<>>

\* Never what was not seen, nor a change no one read back.
Earned(effect) ==
  /\ effect.label # <<>> /\ effect.value # <<>>
  /\ effect.mutating => effect.verified

\* The last of a key supersedes, the oldest makes room.
Keep(kept, entry) ==
  Pushed(SelectSeq(kept, LAMBDA e : e.key # entry.key), MAX_OBSERVATIONS, entry)

\* Closing the open effect, at the next request or when the harvest is sealed.
Sealed(harvester) ==
  [open |-> <<>>,
   kept |-> FoldLeft(LAMBDA kept, effect :
              IF Earned(effect)
              THEN Keep(kept, Entry(effect.key, effect.label[1], effect.value[1]))
              ELSE kept, harvester.kept, harvester.open)]

HarvestRequest(harvester, seq, tool, digest, args) ==
  [Sealed(harvester) EXCEPT !.open =
     <<[seq |-> seq, key |-> ObservationKey(tool, digest), label |-> Ingest(<<tool>> \o args),
        mutating |-> tool \notin ReadOnly, value |-> <<>>, verified |-> FALSE]>>]

\* The open effect, if it is the one of this name.
OnEffect(harvester, seq, Change(_)) ==
  IF harvester.open = <<>> \/ harvester.open[1].seq # seq THEN harvester
  ELSE [harvester EXCEPT !.open = <<Change(@[1])>>]

\* An attempt that met a transient fault teaches nothing.
HarvestObservation(harvester, seq, ok, payload) ==
  IF ok THEN OnEffect(harvester, seq,
                      LAMBDA effect : [effect EXCEPT !.value = Ingest(payload)])
  ELSE harvester

HarvestVerification(harvester, seq, passed) ==
  OnEffect(harvester, seq, LAMBDA effect : [effect EXCEPT !.verified = passed])

\* Status and summary; the status alone when both are too long.
OutcomeText(status, summary) ==
  IF summary = <<>> \/ 1 + Len(summary) > MEMORY_INPUT_MAX THEN <<status>>
  ELSE <<status>> \o summary

\* What the run teaches in the end: what was kept, and how the goal did.
HarvestSet(harvester, goal, status, summary) ==
  Append(Sealed(harvester).kept,
         Entry(OutcomeKey(goal), <<"goal", goal>>, Truncated(OutcomeText(status, summary))))

----------------------------------------------------------------------------
(* The segment's state, with the harvester in it.                          *)

\* One frame folded in.  Only a run that may continue as new keeps a fold,
\* and one that refused a frame is left as it is until that comes up.
Folded(carried, frame) ==
  LET held == Compacted(carried.fold, <<frame>>)
      folds == carried.rolls /\ ~carried.faulted
  IN [carried EXCEPT !.fold = IF folds THEN held.fold ELSE @,
                     !.faulted = @ \/ (folds /\ held.refused),
                     !.frame_seq = @ + 1]

FoldedSimple(carried, kind, tool, digest, outcome, progress, payload) ==
  Folded(carried,
         Frame(carried.frame_seq, kind, tool, digest, outcome, progress, payload))

\* Frame 0 is the run's start.
Begun(rolls, objective, budgets) ==
  FoldedSimple([rolls |-> rolls, fold |-> NewFold(objective, budgets), faulted |-> FALSE,
                frame_seq |-> 0, harvester |-> NewHarvester, parent |-> <<>>],
               "RunSeed", 0, 0, "Ok", "NoProgress", <<>>)

\* Mutant: the child goes on counting in a fold of its own.
LoadedBeside(carried, fold, kept) ==
  [carried EXCEPT !.parent = <<fold>>, !.harvester = Resumed(kept)[1]]

\* A child folds on into its parent's fold, and harvests on.
Loaded(carried, fold, kept) ==
  [carried EXCEPT !.parent = <<fold>>, !.fold = fold,
                  !.harvester = IF kept = <<>> THEN @ ELSE Resumed(kept)[1]]

\* What the prompt is told of the segments before.
PriorCtx(carried, epoch) ==
  IF carried.parent = <<>> THEN <<>>
  ELSE <<[epoch |-> epoch, failed_paths |-> Len(carried.parent[1].failed),
          pending |-> Len(carried.parent[1].pending),
          facts |-> Len(carried.parent[1].facts)]>>

\* The parent's fold rules the path out, whatever it failed with.
RuledOut(carried, tool, digest) ==
  \E n \in DOMAIN carried.parent :
    \E p \in DOMAIN carried.parent[n].failed :
      /\ carried.parent[n].failed[p].tool = tool
      /\ carried.parent[n].failed[p].digest = digest

\* A line the model answered with.
Decided(carried, line) ==
  FoldedSimple(carried, "ModelDecision", 0, line, "Ok", "NoProgress", <<>>)

\* A call that was authorized.
Intended(carried, seq, tool, digest) ==
  [FoldedSimple(carried, "ToolRequest", tool, digest, "Ok", "NoProgress", <<>>)
     EXCEPT !.harvester = HarvestRequest(@, seq, tool, digest, <<digest>>)]

\* Mutant: an attempt that will be repeated is no frame.
SeenUnlessTransient(carried, call, transient, outcome) ==
  IF transient THEN carried
  ELSE [FoldedSimple(carried, "ToolObservation", call.tool, call.digest, "Ok",
                     IF call.write THEN "NoProgress" ELSE "NewEvidence", outcome)
          EXCEPT !.harvester = HarvestObservation(@, call.seq, TRUE, outcome)]

\* The report of an attempt.
Seen(carried, call, transient, outcome) ==
  [FoldedSimple(carried, "ToolObservation", call.tool, call.digest, "Ok",
                IF transient \/ call.write THEN "NoProgress" ELSE "NewEvidence", outcome)
     EXCEPT !.harvester = HarvestObservation(@, call.seq, ~transient, outcome)]

\* What the verifier found.
Checked(carried, call, passed) ==
  [FoldedSimple(carried, "VerificationResult", call.tool, call.digest,
                IF passed THEN "Ok" ELSE "VerificationFailed",
                IF passed THEN "StateChanged" ELSE "NoProgress", <<>>)
     EXCEPT !.harvester = HarvestVerification(@, call.seq, passed)]

\* A question, before anyone is asked, and its answer.
Asked(carried, prompt) ==
  FoldedSimple(carried, "ApprovalRequest", 0, prompt, "Ok", "NoProgress", <<prompt>>)

Told(carried, input) ==
  FoldedSimple(carried, "ApprovalDecision", 0, input, "Ok", "InputReceived", <<>>)

\* The fold a segment hands over: the first binds it to the budgets it left.
HandedFold(carried, budgets) ==
  IF carried.parent = <<>> THEN [carried.fold EXCEPT !.budgets = budgets]
  ELSE carried.fold

\* The last frame of the segment.
ContinuedAtFrame(carried) == carried.frame_seq - 1

=============================================================================
