------------------------------ MODULE MCScripts ------------------------------
(***************************************************************************)
(* The supervisor without its operator channel, under one of two scripts   *)
(* chosen at the start: the ledger's (two goals, every control, no notes   *)
(* and no harvests) and the memory's (one goal, notes and harvests).       *)
(***************************************************************************)
EXTENDS MCAgent, Briefs

VARIABLE script   \* which of the two this behaviour follows

\* Every control of the first goal, controls the second goal may refuse,
\* and two commands in one beat.
LedgerBatches ==
  {<<>>, Add(OneShot), Add(Standing), Add(Widening),
   Add(OneShot) \o Add(Standing)}
  \cup {Tell(1, event) : event \in OperatorEvent \cup {"Recur"}}
  \cup {Tell(2, "Retire")}

MemoryBatches ==
  {<<>>, Add(OneShot), Add(Standing)}
  \cup {Pin(n) : n \in Notes} \cup {Unpin(n) : n \in Notes}

MCBatches == LedgerBatches \cup MemoryBatches

\* The step keeps to the script: the memory's adds a goal only to an empty
\* ledger, and only its runs offer a harvest.
InScript(commands) ==
  IF script = "ledger" THEN commands \in LedgerBatches
  ELSE /\ commands \in MemoryBatches
       /\ Held(goals) = {} \/ \A n \in DOMAIN commands : commands[n].kind # "AddGoal"

Scripted ==
  /\ phase = "timer" => InScript(sense'.commands)
  /\ phase' = "harvesting" => script = "memory"
  /\ UNCHANGED script

MCNext ==
  \/ ShiftOrigin /\ UNCHANGED script
  \/ (phase = "timer" => lastBeat = 0) /\ Next /\ Scripted

mcVars == <<vars, script>>

MCInit == Init /\ script \in {"ledger", "memory"}

MCFairSpec ==
  /\ MCInit
  /\ [][MCNext]_mcVars
  /\ WF_mcVars(MCNext)

----------------------------------------------------------------------------
(* Briefs: any text short or long, and raw ones with control bytes.        *)

RawTexts == [size : {8, 200}, clean : {FALSE}]

\* How a goal's entries may be ranked: by tier, and within one by age.
TierOf(entry, goal) == {tier \in Tiers : InTier(tier, entry, goal)}

Outranks(entries, i, j, goal) ==
  \E a \in TierOf(entries[i], goal), b \in TierOf(entries[j], goal) :
    a < b \/ (a = b /\ i > j)

\* No entry that is left out outranks one that is recalled, and no other
\* goal's outcome is.
RecallIsRanked(entries, goal) ==
  LET recalled == Recall(entries, goal)
      at == [n \in DOMAIN recalled |->
               CHOOSE i \in DOMAIN entries : entries[i] = recalled[n]]
      eligible == {i \in DOMAIN entries :
                     entries[i].key.kind = "Outcome" => entries[i].key = Outcome(goal)}
  IN /\ ToSet(at) \subseteq eligible
     /\ Len(recalled) = IF Cardinality(eligible) < RECALL_K
                        THEN Cardinality(eligible) ELSE RECALL_K
     /\ \A n \in DOMAIN at : \A i \in eligible \ {at[m] : m \in 1..n} :
          Outranks(entries, at[n], i, goal)

\* The brief a run gets: the receiving side takes it; all that was recalled
\* up to the first line that does not fit.
BriefIsTaken(recalled, objective, texts) ==
  LET entries == [n \in DOMAIN recalled |->
                    [label |-> Ingest(texts[recalled[n].key])[1],
                     value |-> Ingest(texts[recalled[n].key])[1]]]
      lines == <<GoalLine(objective)>>
                 \o [n \in DOMAIN entries |-> MemLine(entries[n].label, entries[n].value)]
      brief == Compose(objective, entries)
  IN /\ FromBytes(brief) = <<brief>>
     /\ IsPrefix(brief, lines)
     /\ brief # lines => Size(SubSeq(lines, 1, Len(brief) + 1)) > BRIEF_CAP

\* Whatever was pinned, forgotten, harvested and evicted before: a run spawned
\* now, for any goal, is told what memory holds of most use to it and nothing
\* of another goal's end, in a brief its own side accepts (brief.rs: "the
\* first line that does not fit and every later one are dropped").
BriefsAreRecall ==
  phase = "driving" =>
    \A goal \in Ids :
      /\ RecallIsRanked(memory.entries, goal)
      /\ \A objective \in {Ingest(raw)[1] : raw \in RawTexts} :
           \A texts \in [{memory.entries[i].key : i \in DOMAIN memory.entries} -> RawTexts] :
             BriefIsTaken(Recall(memory.entries, goal), objective, texts)
=============================================================================
