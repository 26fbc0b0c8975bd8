--------------------------- MODULE MCCheckpoints ---------------------------
(***************************************************************************)
(* Checkpoints on small instances, under one of two scripts chosen at the  *)
(* start: "any", every mishap and every state an interval may end in, and  *)
(* "new", resets inside stores and every interval ending in a state the    *)
(* log does not hold.  Generations only grow; nothing but their order      *)
(* matters, so whenever the lowest one held is above 1 both are moved      *)
(* down.                                                                   *)
(***************************************************************************)
EXTENDS Checkpoints, SequencesExt, TLC

R == INSTANCE Records

F == INSTANCE Folding WITH NoteMax <- 1, MaxCompleted <- 1, MaxDecisions <- 1,
       MaxFacts <- 2, MaxFailed <- 2, MaxPending <- 2, MaxFingerprints <- 3

CONSTANTS D1, D2, D3

VARIABLE script   \* which of the two this behaviour follows

MCDigests == {D1, D2, D3}

Rebasable ==
  /\ \E a \in Areas : log[a].gen # 0
  /\ \A a \in Areas : log[a].gen # 1

Rebase ==
  /\ Rebasable
  /\ log' = [a \in Areas |->
               [log[a] EXCEPT !.gen = IF @ = 0 THEN 0 ELSE @ - 1]]
  /\ UNCHANGED <<input, content, phase, next, mishaps>>

InScript ==
  /\ script = "new" => ToNewState /\ OnlyCuts
  /\ UNCHANGED script

MCNext == ((~Rebasable /\ Next) \/ Rebase) /\ InScript

mcVars == <<vars, script>>

MCInit == Init /\ script \in {"any", "new"}

MCSpec == MCInit /\ [][MCNext]_mcVars

MCFairSpec ==
  /\ MCSpec
  /\ WF_mcVars(~Rebasable /\ Progress /\ InScript)
  /\ WF_mcVars(Rebase /\ InScript)

\* Under the script of new states, resets alone.
NewestStays == script = "new" => NewestStaysOnMedia
ContinuesAsNew == script = "new" => KeepsContinuing

----------------------------------------------------------------------------
(* The records the items are made of, and every other one: looked at as    *)
(* soon as there is a state to store.                                      *)

\* What was written is read again, whole or not at all, and no two pages stand
\* for one record (see Records).
RecordsHold == content # NoDigest => R!RecordsHold /\ R!OnePageEach

----------------------------------------------------------------------------
(* The folds the snapshots are made of, over short runs of frames: three   *)
(* calls that fail, observations, questions, effects to be verified,       *)
(* decisions, and a frame that is several of these.                        *)

Plain(kind, tool, outcome, progress, payload) ==
  F!Frame(0, kind, tool, tool, outcome, progress, payload)

SomeFrames ==
  {Plain("ToolObservation", tool, "Failed", "NoProgress", <<>>) : tool \in {1, 2, 3}}
    \cup {Plain("ToolObservation", 1, "Ok", "NewEvidence", payload) :
            payload \in {<<>>, <<4, 5>>}}
    \cup {[Plain("ApprovalRequest", 0, "Ok", "NoProgress", <<6>>) EXCEPT !.approval = TRUE],
          [Plain("ToolRequest", 1, "Failed", "NewEvidence", <<7>>)
             EXCEPT !.approval = TRUE, !.verification = TRUE],
          Plain("ModelDecision", 0, "Ok", "SubgoalClosed", <<8>>)}

Numbered(frames) == [n \in DOMAIN frames |-> [frames[n] EXCEPT !.seq = n]]
FrameRuns == {Numbered(frames) : frames \in UNION {[1..n -> SomeFrames] : n \in 0..4}}

From(frames, Chosen(_), Item(_)) ==
  LET of == SelectSeq(frames, Chosen) IN [n \in DOMAIN of |-> Item(of[n])]

\* In the order they came, each once; and the newest of them.
Firsts(items) ==
  LET at == {n \in DOMAIN items : \A m \in 1..(n - 1) : items[m] # items[n]}
      order == SetToSortSeq(at, <)
  IN [k \in DOMAIN order |-> items[order[k]]]
Newest(items, max) ==
  SubSeq(items, IF Len(items) > max THEN Len(items) + 1 - max ELSE 1, Len(items))

FailedPaths(frames) ==
  Firsts(From(frames, LAMBDA f : f.outcome # "Ok", F!FailedPath))
Obligations(frames) ==
  FlattenSeq([n \in DOMAIN frames |->
     (IF frames[n].approval THEN <<F!Pending("Approval", frames[n])>> ELSE <<>>)
       \o (IF frames[n].verification THEN <<F!Pending("Verification", frames[n])>> ELSE <<>>)])
Facts(frames) ==
  From(frames, LAMBDA f : f.progress = "NewEvidence" /\ f.outcome = "Ok", F!Fact)

Empty == F!NewFold(0, 0)

\* What is kept of frames that were all taken.
KeepsThem(fold, frames) ==
  /\ fold.failed = FailedPaths(frames)
  /\ fold.pending = Obligations(frames)
  /\ fold.facts = Newest(Facts(frames), 2)
  /\ fold.fingerprints = Newest(From(frames, LAMBDA f : TRUE, F!Fingerprint), 3)
  /\ fold.accepted =
       Newest(From(frames, LAMBDA f : f.kind = "ModelDecision", LAMBDA f : f.digest), 1)

\* Nothing of it changes when the last of them come again, unless facts were
\* dropped that come back.
TakesThemAgain(fold, frames) ==
  \A k \in DOMAIN frames :
    LET again == F!Compacted(fold, SubSeq(frames, k, Len(frames)))
    IN /\ ~again.refused
       /\ again.fold.failed = fold.failed /\ again.fold.pending = fold.pending
       /\ Len(Facts(frames)) <= 2 => again.fold.facts = fold.facts

(* A fold refuses just the frame with a failed path or an obligation too   *)
(* many, and what it held until then it holds still; of frames it took it  *)
(* holds every failed path and every obligation, once, and the newest of   *)
(* the rest (compact.rs: the two preservation invariants, and "idempotent  *)
(* across overlapping windows").                                           *)
CompactionHolds ==
  \A frames \in FrameRuns :
    LET held == F!Compacted(Empty, frames)
        fits == Len(FailedPaths(frames)) <= 2 /\ Len(Obligations(frames)) <= 2
    IN /\ held.refused = ~fits
       /\ IF fits THEN KeepsThem(held.fold, frames) /\ TakesThemAgain(held.fold, frames)
          ELSE /\ IsPrefix(held.fold.failed, FailedPaths(frames))
               /\ IsPrefix(held.fold.pending, Obligations(frames))

\* What a fold must keep it keeps, whatever frames come (see above).
CompactionKeeps == content # NoDigest => CompactionHolds

============================================================================
