------------------------------- MODULE Briefs -------------------------------
(***************************************************************************)
(* What a run is told when it is spawned (esper-core memory.rs and         *)
(* brief.rs): the entries memory recalls for its goal, and the brief they  *)
(* are composed into, one line for the objective and one for each entry.   *)
(* A text is [size, clean]: how many bytes it has, and whether none of     *)
(* them is a control byte.                                                 *)
(***************************************************************************)
EXTENDS Memory

CONSTANTS
  RECALL_K,    \* entries recalled
  BRIEF_CAP    \* bytes of a brief

ASSUME BriefAssumption == RECALL_K \in Nat /\ BRIEF_CAP \in Nat

NOTE_MAX == 64           \* bytes of a note
MEMORY_INPUT_MAX == 512  \* bytes that can be ingested

Text(size, clean) == [size |-> size, clean |-> clean]

\* A text as memory holds it: its control bytes are spaces, and it is cut to
\* a note once it was masked (Masking).
Ingest(raw) ==
  IF raw.size > MEMORY_INPUT_MAX THEN <<>>
  ELSE <<Text(IF raw.size < NOTE_MAX THEN raw.size ELSE NOTE_MAX, TRUE)>>

----------------------------------------------------------------------------
(* Recall: four tiers, the newest of a tier first.                         *)

Tiers == 1..4

\* Mutant: any goal's outcome is as good.
InTierOfAny(tier, entry, goal) ==
  \/ tier = 1 /\ entry.key.kind = "Outcome"
  \/ tier = 2 /\ Pinned(entry)
  \/ tier = 3 /\ entry.key.kind = "Observation" /\ entry.goal = goal
  \/ tier = 4 /\ entry.key.kind = "Observation" /\ entry.goal # goal

\* The goal's own outcome; what the operator pinned; what its own runs saw;
\* what others saw.  Another goal's outcome is in none.
InTier(tier, entry, goal) ==
  \/ tier = 1 /\ entry.key = Outcome(goal)
  \/ tier = 2 /\ Pinned(entry)
  \/ tier = 3 /\ entry.key.kind = "Observation" /\ entry.goal = goal
  \/ tier = 4 /\ entry.key.kind = "Observation" /\ entry.goal # goal

NewestFirst(entries, tier, goal) ==
  Reverse(SelectSeq(entries, LAMBDA entry : InTier(tier, entry, goal)))

Recall(entries, goal) ==
  LET ranked == FlattenSeq([tier \in Tiers |-> NewestFirst(entries, tier, goal)])
  IN SubSeq(ranked, 1, IF Len(ranked) < RECALL_K THEN Len(ranked) ELSE RECALL_K)

----------------------------------------------------------------------------
(* The brief.                                                              *)

GoalLine(objective) ==
  [is |-> "GOAL", size |-> 5 + objective.size + 1, clean |-> objective.clean]
MemLine(label, value) ==
  [is |-> "MEM", size |-> 4 + label.size + 3 + value.size + 1,
   clean |-> label.clean /\ value.clean]

Size(lines) == FoldLeft(LAMBDA sum, line : sum + line.size, 0, lines)

\* Mutant: a line that does not fit is left out, and the next one tried.
PushLineIfFits(brief, line) ==
  IF Size(brief.lines) + line.size > BRIEF_CAP THEN brief
  ELSE [brief EXCEPT !.lines = Append(@, line)]

\* The first line that does not fit is the end of it.
PushLine(brief, line) ==
  IF brief.full \/ Size(brief.lines) + line.size > BRIEF_CAP
  THEN [brief EXCEPT !.full = TRUE]
  ELSE [brief EXCEPT !.lines = Append(@, line)]

\* Of the objective and the recalled entries, by their texts.
Compose(objective, recalled) ==
  FoldLeft(PushLine, PushLine([lines |-> <<>>, full |-> FALSE], GoalLine(objective)),
           [n \in DOMAIN recalled |-> MemLine(recalled[n].label, recalled[n].value)]).lines

\* The brief rebuilt where the run is started, from what was handed over.
FromBytes(lines) ==
  IF /\ lines # <<>> /\ Size(lines) <= BRIEF_CAP
     /\ \A n \in DOMAIN lines :
          /\ lines[n].is = (IF n = 1 THEN "GOAL" ELSE "MEM")
          /\ lines[n].clean
  THEN <<lines>> ELSE <<>>

=============================================================================
