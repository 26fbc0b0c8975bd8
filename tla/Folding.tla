------------------------------ MODULE Folding ------------------------------
(***************************************************************************)
(* Context compaction (esper-core compact.rs): what is kept of a run's     *)
(* frames when it continues as new.  A fold is one record of seven lists.  *)
(* Those of what may be learned again lose their oldest entry when they    *)
(* are full; the failed paths and the open obligations lose none: a frame  *)
(* with one too many is refused, and what it had changed until then stays. *)
(*                                                                         *)
(* A payload is a sequence of parts and a note its first NoteMax parts;    *)
(* digests are the values they stand for.                                  *)
(***************************************************************************)
EXTENDS Integers, Sequences, SequencesExt

CONSTANTS
  NoteMax,          \* parts of a note (NOTE_MAX)
  MaxCompleted,     \* notes on closed subgoals (MAX_COMPLETED)
  MaxDecisions,     \* accepted decisions (MAX_ACCEPTED_DECISIONS)
  MaxFacts,         \* facts (MAX_FACTS)
  MaxFailed,        \* failed paths (MAX_FAILED_PATHS)
  MaxPending,       \* open obligations (MAX_PENDING)
  MaxFingerprints   \* fingerprints (MAX_FINGERPRINTS)

ASSUME FoldingAssumption ==
  /\ NoteMax \in Nat
  /\ {MaxCompleted, MaxDecisions, MaxFacts, MaxFailed, MaxPending, MaxFingerprints}
       \subseteq Nat \ {0}

\* The state of a run whose frames are yet to come; budgets are those it is
\* bound to.
NewFold(objective, budgets) ==
  [objective |-> objective, budgets |-> budgets, completed |-> <<>>, open |-> <<>>,
   accepted |-> <<>>, facts |-> <<>>, failed |-> <<>>, pending |-> <<>>,
   fingerprints |-> <<>>]

\* A frame, and what there is to learn from it.
Frame(seq, kind, tool, digest, outcome, progress, payload) ==
  [seq |-> seq, kind |-> kind, tool |-> tool, digest |-> digest,
   outcome |-> outcome, progress |-> progress, payload |-> payload,
   approval |-> FALSE, verification |-> FALSE]

Truncated(payload) ==
  SubSeq(payload, 1, IF Len(payload) < NoteMax THEN Len(payload) ELSE NoteMax)

----------------------------------------------------------------------------
(* The lists.                                                              *)

\* Mutant: the list keeps what it has.
PushUnlessFull(list, max, item) == IF Len(list) < max THEN Append(list, item) ELSE list

\* The oldest makes room.
Pushed(list, max, item) ==
  Append(IF Len(list) < max THEN list ELSE Tail(list), item)

Accepts(fold) == [fold |-> fold, refused |-> FALSE]
Refuses(fold) == [fold |-> fold, refused |-> TRUE]

RecordCompleted(fold, note) ==
  [fold EXCEPT !.completed = Pushed(@, MaxCompleted, note)]

RecordDecision(fold, digest) ==
  [fold EXCEPT !.accepted = Pushed(@, MaxDecisions, digest)]

RecordFact(fold, fact) ==
  IF Contains(fold.facts, fact) THEN fold
  ELSE [fold EXCEPT !.facts = Pushed(@, MaxFacts, fact)]

RecordFingerprint(fold, fingerprint) ==
  [fold EXCEPT !.fingerprints = Pushed(@, MaxFingerprints, fingerprint)]

\* Mutant: the oldest path makes room as well.
RecordFailedPathAlways(fold, path) ==
  Accepts(IF Contains(fold.failed, path) THEN fold
          ELSE [fold EXCEPT !.failed = Pushed(@, MaxFailed, path)])

\* A path that is ruled out stays ruled out: one too many is refused.
RecordFailedPath(fold, path) ==
  IF Contains(fold.failed, path) THEN Accepts(fold)
  ELSE IF Len(fold.failed) >= MaxFailed THEN Refuses(fold)
  ELSE Accepts([fold EXCEPT !.failed = Pushed(@, MaxFailed, path)])

Holds(fold, kind, seq) ==
  \E n \in DOMAIN fold.pending :
    fold.pending[n].kind = kind /\ fold.pending[n].seq = seq

\* So does an obligation, known by its kind and its frame.
RecordPending(fold, item) ==
  IF Holds(fold, item.kind, item.seq) THEN Accepts(fold)
  ELSE IF Len(fold.pending) >= MaxPending THEN Refuses(fold)
  ELSE Accepts([fold EXCEPT !.pending = Pushed(@, MaxPending, item)])

----------------------------------------------------------------------------
(* Folding a frame.                                                        *)

\* A frame's name: everything of it but its payload and its obligations.
Fingerprint(frame) ==
  <<frame.seq, frame.kind, frame.tool, frame.digest, frame.outcome, frame.progress>>

FailedPath(frame) ==
  [tool |-> frame.tool, digest |-> frame.digest, error |-> frame.outcome]

Pending(kind, frame) == [kind |-> kind, seq |-> frame.seq, digest |-> frame.payload]

Fact(frame) == [text |-> Truncated(frame.payload), source |-> frame.seq]

\* A change that may be refused, unless one before it was.
Then(held, when, Change(_)) ==
  IF held.refused \/ ~when THEN held ELSE Change(held.fold)

\* What must not be lost, in the order it is recorded.
Obliged(fold, frame) ==
  LET named == Accepts(RecordFingerprint(fold, Fingerprint(frame)))
      failed == Then(named, frame.outcome # "Ok",
                     LAMBDA f : RecordFailedPath(f, FailedPath(frame)))
      asked == Then(failed, frame.approval,
                    LAMBDA f : RecordPending(f, Pending("Approval", frame)))
  IN Then(asked, frame.verification,
          LAMBDA f : RecordPending(f, Pending("Verification", frame)))

\* What may be learned again.
Learned(fold, frame) ==
  LET taught == IF frame.progress = "NewEvidence" /\ frame.outcome = "Ok"
                THEN RecordFact(fold, Fact(frame))
                ELSE IF frame.progress = "SubgoalClosed"
                THEN RecordCompleted(fold, Truncated(frame.payload))
                ELSE fold
  IN IF frame.kind = "ModelDecision" THEN RecordDecision(taught, frame.digest) ELSE taught

FoldFrame(fold, frame) ==
  Then(Obliged(fold, frame), TRUE, LAMBDA f : Accepts(Learned(f, frame)))

\* The frames one after the other, up to the first that is refused.
Compacted(fold, frames) ==
  FoldLeft(LAMBDA held, frame : Then(held, TRUE, LAMBDA f : FoldFrame(f, frame)),
           Accepts(fold), frames)

=============================================================================
