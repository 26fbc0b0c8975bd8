------------------------------- MODULE Agent -------------------------------
(***************************************************************************)
(* The supervisor's beat loop (esper-runtime agent/mod.rs, beat and drive) *)
(* over the goal ledger and the memory store, as one life: a reset replays *)
(* to the point it interrupted and is no step of its own.                  *)
(*                                                                         *)
(* A step is what the workflow does between two answers of the world: the  *)
(* beat's SENSE answer, the RUN report, each HARVEST answer.  The world's  *)
(* answers are chosen: what the operator typed, which inputs wait, how a   *)
(* run ended and what it left unspent.  The brief a spawn composes, pulses *)
(* and the persistent-clock deadline are left out.                         *)
(***************************************************************************)
EXTENDS Goals, Memory

CONSTANTS
  Specs,           \* goal specs the operator may add
  Notes,           \* names of operator notes
  Observations,    \* keys of what runs observe
  CommandBatches,  \* command sequences one SENSE answer may carry
  Endings,         \* run statuses the world may report
  HarvestCounts,   \* entries a settled run may offer (at most MAX_HARVEST)
  InputsVanish     \* whether resets may take operator inputs

Command ==
       [kind : {"AddGoal"}, spec : Specs]
  \cup [kind : {"Control"}, goal : Nat, event : GoalEvent]
  \cup [kind : {"Remember", "Forget"}, note : Notes]

ASSUME WorldAssumption ==
  /\ Specs \subseteq GoalSpec
  /\ CommandBatches \subseteq Seq(Command)
  /\ Endings \subseteq RunStatus
  /\ HarvestCounts \subseteq Nat
  /\ InputsVanish \in BOOLEAN

VARIABLES
  goals,      \* the ledger's goals, by id
  nextId,     \* the id the next admitted goal gets, 0 once exhausted
  memory,     \* the memory store
  lastBeat,   \* the last completed beat
  spawnSeq,   \* runs spawned so far
  phase,      \* where the beat stands
  sense,      \* the beat's SENSE answer: commands not yet applied, ready goals
  driven,     \* the goal whose run this beat drives, 0 for none
  toHarvest,  \* HARVEST answers still to ask for
  asks,       \* the world's: questions the goal's run in flight has asked
  fault       \* which core rule refused a step and ended the workflow, or "None"

ledgerVars == <<goals, nextId>>
vars == <<goals, nextId, memory, lastBeat, spawnSeq, phase, sense, driven,
          toHarvest, asks, fault>>

NoSense == [commands |-> <<>>, ready |-> {}]
Beat == lastBeat + 1

Init ==
  /\ goals = [i \in Ids |-> NoGoal]
  /\ nextId = 1
  /\ memory = EmptyStore
  /\ lastBeat = 0
  /\ spawnSeq = 0
  /\ phase = "timer"
  /\ sense = NoSense
  /\ driven = 0
  /\ toHarvest = 0
  /\ asks = [i \in Ids |-> 0]
  /\ fault = "None"

----------------------------------------------------------------------------
(* A beat opens: the timer fires and the world answers SENSE.  Only parked *)
(* goals have an inbox to be ready in; any other readiness is ignored.     *)

SenseAnswer(commands, ready) ==
  /\ fault = "None"
  /\ phase = "timer"
  /\ sense' = [commands |-> commands, ready |-> ready]
  /\ phase' = "commands"
  /\ UNCHANGED <<goals, nextId, memory, lastBeat, spawnSeq, driven, toHarvest,
                 asks, fault>>

Sense ==
  \E commands \in CommandBatches, ready \in SUBSET Waiting(goals) :
    SenseAnswer(commands, ready)

----------------------------------------------------------------------------
(* Operator commands, one at a time and in order.  A refused command       *)
(* changes nothing.                                                        *)

AddGoal(spec) ==
  IF spec.admissible /\ nextId # 0 /\ ~LedgerFull(goals)
  THEN /\ goals' = [goals EXCEPT ![nextId] = Admitted(spec, Beat)]
       /\ nextId' = NextIdAfter(nextId)
  ELSE UNCHANGED ledgerVars

Control(id, event) ==
  /\ IF id \in Held(goals) /\ Controllable(goals[id], event)
     THEN goals' = [goals EXCEPT ![id] = Controlled(goals[id], event, Beat)]
     ELSE UNCHANGED goals
  /\ UNCHANGED nextId

NoteEntry(note) == Unstamped(Note(note), 0)

Remember(note) ==
  memory' = IF Writable(memory, NoteEntry(note))
            THEN Written(memory, NoteEntry(note)) ELSE memory

Forget(note) == memory' = [memory EXCEPT !.entries = Without(@, Note(note))]

ApplyCommand ==
  /\ fault = "None"
  /\ phase = "commands"
  /\ sense.commands # <<>>
  /\ LET command == Head(sense.commands)
     IN  \/ /\ command.kind = "AddGoal"
            /\ AddGoal(command.spec)
            /\ UNCHANGED memory
         \/ /\ command.kind = "Control"
            /\ Control(command.goal, command.event)
            /\ UNCHANGED memory
         \/ /\ command.kind = "Remember"
            /\ Remember(command.note)
            /\ UNCHANGED ledgerVars
         \/ /\ command.kind = "Forget"
            /\ Forget(command.note)
            /\ UNCHANGED ledgerVars
  /\ sense' = [sense EXCEPT !.commands = Tail(@)]
  /\ UNCHANGED <<lastBeat, spawnSeq, phase, driven, toHarvest, asks, fault>>

----------------------------------------------------------------------------
(* The pick: one unit of work, or none.                                   *)

Picking == fault = "None" /\ phase = "commands" /\ sense.commands = <<>>

\* The beat is over: its number is the last completed one.
EndBeat ==
  /\ lastBeat' = Beat
  /\ phase' = "timer"
  /\ sense' = NoSense
  /\ driven' = 0
  /\ toHarvest' = 0

PickIdle ==
  /\ Picking
  /\ IsIdlePick(goals, Beat, sense.ready)
  /\ EndBeat
  /\ UNCHANGED <<goals, nextId, memory, spawnSeq, asks, fault>>

\* A spawn reserves before the run exists.  A reservation the ledger
\* refuses ends the workflow.
PickSpawn ==
  /\ Picking
  /\ \E id \in Held(goals) :
       /\ IsSpawnPick(goals, Beat, sense.ready, id)
       /\ IF Fundable(goals[id].remaining)
          THEN /\ goals' = [goals EXCEPT ![id] =
                              Spawned(goals[id], <<id, spawnSeq>>)]
               /\ spawnSeq' = spawnSeq + 1
               /\ driven' = id
               /\ UNCHANGED fault
          ELSE /\ fault' = "Ledger"
               /\ UNCHANGED <<goals, spawnSeq, driven>>
  /\ phase' = "driving"
  /\ sense' = NoSense
  /\ UNCHANGED <<nextId, memory, lastBeat, toHarvest, asks>>

PickResume ==
  /\ Picking
  /\ \E id \in Held(goals) :
       /\ IsResumePick(goals, sense.ready, id)
       /\ goals' = [goals EXCEPT ![id] = Resumed(goals[id])]
       /\ driven' = id
  /\ phase' = "driving"
  /\ sense' = NoSense
  /\ UNCHANGED <<nextId, memory, lastBeat, spawnSeq, toHarvest, asks, fault>>

----------------------------------------------------------------------------
(* The RUN report.                                                        *)

\* The run suspends on a question: a new one, which it inferred, and every
\* inference costs one of the turns it was granted; or the one it had asked,
\* when a reset took the input this beat was told of before the run read it.
RunParks ==
  /\ fault = "None"
  /\ phase = "driving"
  /\ \/ /\ asks[driven] < goals[driven].reserved.turns
        /\ asks' = [asks EXCEPT ![driven] = @ + 1]
     \/ /\ InputsVanish
        /\ asks[driven] > 0
        /\ UNCHANGED asks
  /\ goals' = [goals EXCEPT ![driven] = Parked(goals[driven], Beat)]
  /\ EndBeat
  /\ UNCHANGED <<nextId, memory, spawnSeq, fault>>

\* A report settles the goal, then opens its harvest.
Settle(status, refund, harvest) ==
  /\ asks' = [asks EXCEPT ![driven] = 0]
  /\ IF RefundFits(goals[driven], refund)
     THEN /\ goals' = [goals EXCEPT ![driven] =
                         Settled(goals[driven], status, refund, Beat)]
          /\ UNCHANGED fault
     ELSE /\ fault' = "Ledger"
          /\ UNCHANGED goals
  /\ IF harvest = 0
     THEN EndBeat
     ELSE /\ phase' = "harvesting"
          /\ toHarvest' = harvest
          /\ UNCHANGED <<lastBeat, sense, driven>>
  /\ UNCHANGED <<nextId, memory, spawnSeq>>

\* The run concluded: what it reports unspent is what is left of its grant.
RunSettles ==
  /\ fault = "None"
  /\ phase = "driving"
  /\ \E status \in Endings,
        turns \in 0..goals[driven].reserved.turns,
        mutations \in 0..goals[driven].reserved.mutations,
        harvest \in HarvestCounts :
       Settle(status, [turns |-> turns, mutations |-> mutations], harvest)

\* The dispatcher could not drive the run at all: a storage fault that
\* refunds nothing.
RunFails ==
  /\ fault = "None"
  /\ phase = "driving"
  /\ Settle("StorageFault", ZeroGrant, 0)

----------------------------------------------------------------------------
(* The harvest, one answer at a time.                                     *)

\* The beat ends with the last answer.
NextHarvest ==
  IF toHarvest = 1
  THEN EndBeat
  ELSE /\ toHarvest' = toHarvest - 1
       /\ UNCHANGED <<lastBeat, phase, sense, driven>>

\* The supervisor writes what it was answered; a refused write ends it.
Harvest ==
  /\ fault = "None"
  /\ phase = "harvesting"
  /\ \E key \in {Observation(o) : o \in Observations} \cup {Outcome(driven)} :
       LET entry == Unstamped(key, driven)
       IN  /\ fault' = IF Writable(memory, entry) THEN "None" ELSE "Memory"
           /\ memory' = IF Writable(memory, entry)
                        THEN Written(memory, entry) ELSE memory
  /\ NextHarvest
  /\ UNCHANGED <<goals, nextId, spawnSeq, asks>>

\* A failed HARVEST skips its entry.
SkipHarvest ==
  /\ fault = "None"
  /\ phase = "harvesting"
  /\ NextHarvest
  /\ UNCHANGED <<goals, nextId, memory, spawnSeq, asks, fault>>

----------------------------------------------------------------------------

Next ==
  \/ Sense
  \/ ApplyCommand
  \/ PickIdle
  \/ PickSpawn
  \/ PickResume
  \/ RunParks
  \/ RunSettles
  \/ RunFails
  \/ Harvest
  \/ SkipHarvest

\* The boot loop keeps polling the workflow and every activity answers, so
\* a beat that can move does.  What the world answers is not assumed.
Spec == Init /\ [][Next]_vars
FairSpec == Spec /\ WF_vars(Next)

----------------------------------------------------------------------------
(* Properties.                                                            *)

\* The type of every variable but memory, which RestorableStore and the memory
\* properties below constrain.
TypeOK ==
  /\ goals \in [Ids -> Goal \cup {NoGoal}]
  /\ nextId \in Ids \cup {0}
  /\ lastBeat \in Nat
  /\ spawnSeq \in Nat
  /\ phase \in {"timer", "commands", "driving", "harvesting"}
  /\ sense \in [commands : Seq(Command), ready : SUBSET Ids]
  /\ driven \in Ids \cup {0}
  /\ toHarvest \in Nat
  /\ asks \in [Ids -> Nat]
  /\ fault \in {"None", "Ledger", "Memory"}

\* What a goal's envelope promises, once for each unit a run consumes.
Units(i, unit) ==
  CASE goals[i] = NoGoal -> [granted |-> 0, free |-> 0, held |-> 0]
    [] goals[i] # NoGoal /\ unit = "turns" ->
         [granted |-> goals[i].envelope.turns,
          free |-> goals[i].remaining.turns,
          held |-> goals[i].reserved.turns]
    [] OTHER ->
         [granted |-> goals[i].envelope.mutations,
          free |-> goals[i].remaining.mutations,
          held |-> goals[i].reserved.mutations]

TurnEscrow == INSTANCE Escrow WITH
  Accounts <- Ids,
  Amounts <- {s.envelope.turns : s \in Specs},
  granted <- [i \in Ids |-> Units(i, "turns").granted],
  free <- [i \in Ids |-> Units(i, "turns").free],
  held <- [i \in Ids |-> Units(i, "turns").held]

MutationEscrow == INSTANCE Escrow WITH
  Accounts <- Ids,
  Amounts <- {s.envelope.mutations : s \in Specs},
  granted <- [i \in Ids |-> Units(i, "mutations").granted],
  free <- [i \in Ids |-> Units(i, "mutations").free],
  held <- [i \in Ids |-> Units(i, "mutations").held]

\* Turns and mutations are escrowed: a run's grant is taken out of the goal's
\* envelope before the run exists, and settlement gives back at most what was
\* taken; nothing else ever moves a goal's budget.
TurnsEscrowed == TurnEscrow!Spec
MutationsEscrowed == MutationEscrow!Spec

\* In both units the supervisor accounts for.
BudgetsEscrowed == TurnsEscrowed /\ MutationsEscrowed

\* No goal ever holds more than its envelope grants: what is left and what
\* its run in flight has reserved stay within the grant in every unit,
\* through every spawn, park, resume and settlement (Goal::check_envelope).
EnvelopeNeverWidens == \A i \in Held(goals) : CheckEnvelope(goals[i])

\* The scheduler never picks a goal the ledger then refuses to fund, and no
\* report refunds more than the goal reserved: the `?` on reservation, spawn
\* and settle in the beat never ends the supervisor.
LedgerNeverRefuses == fault # "Ledger"

\* A harvested entry always finds room, whatever notes the operator pinned:
\* the `?` on memory.write after a HARVEST ends the supervisor only when the
\* last stamp was given out (MemoryStampsExhausted).
HarvestNeverRefused == fault = "Memory" => memory.nextStamp = MaxStamp

\* A checkpoint is only ever taken of a state the next run's restore accepts:
\* between beats no goal is Running, every id is below the allocator, every
\* envelope holds, and the memory has distinct keys within its quotas, under
\* distinct stamps below its allocator.
CheckpointRestorable ==
  phase = "timer" => Restorable(goals, nextId) /\ RestorableStore(memory)

\* An open obligation is never dropped: a goal lets go of its run only in the
\* settlement of the run this beat drives, never by operator control, by
\* another goal's beat or by leaving the ledger.
ObligationKept ==
  [][\A i \in Held(goals) :
       goals[i].status \in Busy =>
         \/ i \in Held(goals') /\ goals'[i].run = goals[i].run
         \/ phase = "driving" /\ driven = i]_vars

\* An operator's note is never evicted by a harvest or by another note; only
\* a command takes it out of the store.
PinnedNeverEvicted ==
  [][\A n \in Notes :
       HoldsKey(memory.entries, Note(n)) /\ ~HoldsKey(memory'.entries, Note(n)) =>
         /\ phase = "commands"
         /\ Head(sense.commands) = [kind |-> "Forget", note |-> n]]_vars

IsActive(i) == i \in Held(goals) /\ goals[i].status = "Active"

\* A goal that may run does get its turn: it is spawned, or the operator
\* pauses or retires it.  Parked goals, goals of higher priority and standing
\* goals never hold it back for ever, because every envelope runs dry.
EventuallyServed ==
  \A i \in Ids : IsActive(i) ~> ~IsActive(i)

=============================================================================
