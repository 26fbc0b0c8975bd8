------------------------------- MODULE Board -------------------------------
(***************************************************************************)
(* The supervisor's runs on flash: the dispatcher (esper-runtime           *)
(* agent/device.rs) answers the supervisor's outstanding RUN or HARVEST by *)
(* driving the run in its slot (esper-board runs.rs), over resets at every *)
(* write.                                                                  *)
(*                                                                         *)
(* The supervisor's side is what its ledger says of runs: which run a goal *)
(* holds, under which reservation, and whether it waits for the operator.  *)
(* Turns are the one unit kept: a seed is known by the turns it grants, a  *)
(* segment by the turns left at its start.  Resets lose the dispatcher's   *)
(* memory; the request is durable, and is dispatched again.                *)
(***************************************************************************)
EXTENDS Integers

CONSTANTS
  Goals,         \* goal ids
  SlotCount,     \* run slots on the flash
  Grants,        \* turns a spawn may reserve
  MAX_SEGMENTS,  \* boots one dispatch follows a run over
  Mishaps,       \* kinds of mishap that may happen
  MaxMishaps,    \* bound: mishaps at most
  MaxSpawns      \* bound: runs spawned at most

ASSUME BoardAssumption ==
  /\ Goals \subseteq Nat \ {0}
  /\ SlotCount \in Nat
  /\ Grants \subseteq Nat
  /\ MAX_SEGMENTS \in Nat \ {0}
  /\ Mishaps \subseteq {"cut", "tear", "erase"}
  /\ MaxMishaps \in Nat
  /\ MaxSpawns \in Nat

VARIABLES
  ledger,    \* what the supervisor's ledger says of each goal's run
  spawnSeq,  \* runs spawned so far
  request,   \* the activity the supervisor waits for
  slots,     \* the slots, each a bank pair
  boots,     \* boots of the run in this dispatch
  letGo,     \* history: runs the supervisor let go of unfinished
  mishaps,   \* mishaps so far
  fault      \* whether the ledger refused a settlement and ended the supervisor

supervisorVars == <<ledger, spawnSeq, request, fault>>
vars == <<supervisorVars, slots, boots, letGo, mishaps>>

----------------------------------------------------------------------------
(* Runs and slots.                                                        *)

Roots == Goals \X (0 .. MaxSpawns - 1)
NoRoot == <<0, 0>>

RunIdSwapped(goal, seq) == <<seq, goal>>
RunIdOfGoal(goal, seq) == <<goal, 0>>

\* The id a spawn gives its run carries the goal and the spawn sequence.
RunId(goal, seq) == <<goal, seq>>

GoalOf(root) == root[1]

Journals == {"open", "torn", "completed", "faulted"}

Segment == [root : Roots, seed : Grants, left : Nat, journal : Journals]

INSTANCE BankPair WITH Segments <- Segment

Slots == 1 .. SlotCount

ConcludedIfCompleted(segment) == segment.journal = "completed"

\* A journal with a terminal record: the run's own, or the empty one a driver
\* writes for a run that faulted.
Concluded(segment) == segment.journal \in {"completed", "faulted"}

Resting == [status |-> "resting", run |-> NoRoot, held |-> 0]

NoRequest == [kind |-> "none", run |-> NoRoot]

Init ==
  /\ ledger = [g \in Goals |-> Resting]
  /\ spawnSeq = 0
  /\ request = NoRequest
  /\ slots = [i \in Slots |-> BlankPair]
  /\ boots = 0
  /\ letGo = {}
  /\ mishaps = 0
  /\ fault = FALSE

\* A reset "cut" between two barriers, a "tear" inside a frame of a run's
\* journal, an "erase" of a whole slot cut half way.
Happens(kind) ==
  /\ kind \in Mishaps
  /\ mishaps < MaxMishaps
  /\ mishaps' = mishaps + 1

----------------------------------------------------------------------------
(* The supervisor: one request at a time.                                 *)

Spawn(g) ==
  /\ ~fault /\ request = NoRequest
  /\ ledger[g] = Resting
  /\ spawnSeq < MaxSpawns
  /\ \E grant \in Grants :
       ledger' = [ledger EXCEPT ![g] =
                    [status |-> "running", run |-> RunId(g, spawnSeq), held |-> grant]]
  /\ request' = [kind |-> "spawn", run |-> RunId(g, spawnSeq)]
  /\ spawnSeq' = spawnSeq + 1
  /\ UNCHANGED <<slots, boots, letGo, mishaps, fault>>

Resume(g) ==
  /\ ~fault /\ request = NoRequest
  /\ ledger[g].status = "waiting"
  /\ ledger' = [ledger EXCEPT ![g].status = "running"]
  /\ request' = [kind |-> "resume", run |-> ledger[g].run]
  /\ UNCHANGED <<spawnSeq, slots, boots, letGo, mishaps, fault>>

----------------------------------------------------------------------------
(* Selecting the run's slot.                                              *)

IsFirst(i, S) == i \in S /\ \A j \in S : i <= j

HoldingLive(root) ==
  {i \in Slots : Occupied(slots[i]) /\ Front(slots[i]).root = root
                                    /\ ~Concluded(Front(slots[i]))}

Holding(root) == {i \in Slots : Occupied(slots[i]) /\ Front(slots[i]).root = root}

OfGoal(g) == {i \in Slots : Occupied(slots[i]) /\ GoalOf(Front(slots[i]).root) = g}
Empty == {i \in Slots : ~Occupied(slots[i])}
Done == {i \in Slots : Occupied(slots[i]) /\ Concluded(Front(slots[i]))}

IsVacancyAny(i, root) == IsFirst(i, Slots)

\* The slot a new run takes: its goal's, else an empty one, else one whose
\* run has ended.
IsVacancy(i, root) ==
  \/ IsFirst(i, OfGoal(GoalOf(root)))
  \/ OfGoal(GoalOf(root)) = {} /\ IsFirst(i, Empty)
  \/ OfGoal(GoalOf(root)) = {} /\ Empty = {} /\ IsFirst(i, Done)

\* The request's run has no slot yet.
Unplaced == ~fault /\ request # NoRequest /\ Holding(request.run) = {}

Placing(i) == Unplaced /\ request.kind = "spawn" /\ IsVacancy(i, request.run)

Committed(root, turns) ==
  [root |-> root, seed |-> turns, left |-> turns, journal |-> "open"]

Commission(i) ==
  /\ Placing(i)
  /\ slots' = [slots EXCEPT ![i] =
                 Commissioned(Committed(request.run, ledger[GoalOf(request.run)].held))]
  /\ UNCHANGED <<supervisorVars, boots, letGo, mishaps>>

CommissionCut(i) ==
  /\ Placing(i)
  /\ Happens("cut")
  /\ slots' = [slots EXCEPT ![i] = CommissionCutLeaves]
  /\ UNCHANGED <<supervisorVars, boots, letGo>>

\* A reset inside the erase: what the second bank held is the slot's again.
EraseCut(i) ==
  /\ Placing(i)
  /\ Occupied(slots[i])
  /\ Happens("erase")
  /\ slots' = [slots EXCEPT ![i] = EraseCutLeaves(slots[i])]
  /\ letGo' = letGo \cup {Front(slots[i]).root}
  /\ UNCHANGED <<supervisorVars, boots>>

----------------------------------------------------------------------------
(* Driving the run.                                                       *)

\* The dispatch boots the run in slot i, whose journal reads so.
Driving(i, journal) ==
  /\ ~fault /\ request # NoRequest /\ boots < MAX_SEGMENTS
  /\ Occupied(slots[i]) /\ Front(slots[i]).journal = journal
  /\ IsFirst(i, Holding(request.run))

RenewedInFull(segment, turns) ==
  [segment EXCEPT !.left = @ + turns, !.journal = "open"]

\* A further segment of the same run, under the same seed.
Renewed(segment, turns) == [segment EXCEPT !.left = turns, !.journal = "open"]

\* The segment continues as new; every segment consumes a turn.
RollOver(i) ==
  /\ Driving(i, "open")
  /\ \E turns \in 0 .. Front(slots[i]).left - 1 :
       slots' = [slots EXCEPT ![i] = Succeeded(@, Renewed(Front(@), turns))]
  /\ boots' = boots + 1
  /\ UNCHANGED <<supervisorVars, letGo, mishaps>>

RollOverCut(i) ==
  /\ Driving(i, "open")
  /\ Happens("cut")
  /\ slots' = [slots EXCEPT ![i] = SuccessionCutLeaves(@)]
  /\ boots' = 0
  /\ UNCHANGED <<supervisorVars, letGo>>

Tear(i) ==
  /\ Driving(i, "open")
  /\ Happens("tear")
  /\ slots' = [slots EXCEPT ![i] = Journaled(@, "torn")]
  /\ boots' = 0
  /\ UNCHANGED <<supervisorVars, letGo>>

ReinstalledUnsealed(pair) == SuccessionCutLeaves(pair)

\* A journal Waymaker refuses: the segment is installed again from its own
\* input, and the answer stays outstanding.
Reinstalled(pair) == Succeeded(pair, Renewed(Front(pair), Front(pair).left))

Reinstall(i) ==
  /\ Driving(i, "torn")
  /\ slots' = [slots EXCEPT ![i] = Reinstalled(@)]
  /\ boots' = 0
  /\ UNCHANGED <<supervisorVars, letGo, mishaps>>

ReinstallCut(i) ==
  /\ Driving(i, "torn")
  /\ Happens("cut")
  /\ slots' = [slots EXCEPT ![i] = SuccessionCutLeaves(@)]
  /\ boots' = 0
  /\ UNCHANGED <<supervisorVars, letGo>>

\* The run ends, and its driver writes the terminal record; replaying it ends
\* with the same turns unspent.
EndRun(i) ==
  /\ Driving(i, "open")
  /\ \E turns \in 0 .. Front(slots[i]).left :
       slots' = [slots EXCEPT ![i] =
         [Journaled(@, "completed") EXCEPT ![Authority(slots[i])].segment.left = turns]]
  /\ UNCHANGED <<supervisorVars, boots, letGo, mishaps>>

\* The run faults, and its driver records it failed.
FaultRun(i) ==
  /\ Driving(i, "open")
  /\ slots' = [slots EXCEPT ![i] = Journaled(@, "faulted")]
  /\ UNCHANGED <<supervisorVars, boots, letGo, mishaps>>

\* A reset that finds every journal whole: the request is dispatched anew.
Reset ==
  /\ boots > 0
  /\ Happens("cut")
  /\ boots' = 0
  /\ UNCHANGED <<supervisorVars, slots, letGo>>

----------------------------------------------------------------------------
(* The answers, each durable in the supervisor's journal with what it does *)
(* to the ledger.                                                          *)

Answered(next) ==
  /\ request' = next
  /\ boots' = 0
  /\ UNCHANGED <<spawnSeq, slots, mishaps>>

\* The supervisor's goal lets go of its run; a harvest changes no ledger.
Settled ==
  ledger' = IF request.kind = "harvest" THEN ledger
            ELSE [ledger EXCEPT ![GoalOf(request.run)] = Resting]

AnswerParked(i) ==
  /\ Driving(i, "open")
  /\ request.kind # "harvest"
  /\ ledger' = [ledger EXCEPT ![GoalOf(request.run)].status = "waiting"]
  /\ Answered(NoRequest)
  /\ UNCHANGED <<letGo, fault>>

\* A refund above the reservation ends the supervisor; a settled run may have
\* a harvest to ask for.
AnswerSettled(i) ==
  /\ Driving(i, "completed")
  /\ request.kind # "harvest"
  /\ IF Front(slots[i]).left <= ledger[GoalOf(request.run)].held
     THEN Settled /\ UNCHANGED fault
     ELSE UNCHANGED ledger /\ fault' = TRUE
  /\ \E next \in {NoRequest, [kind |-> "harvest", run |-> request.run]} : Answered(next)
  /\ UNCHANGED letGo

\* The last harvest entry.
AnswerHarvest(i) ==
  /\ Driving(i, "completed")
  /\ request.kind = "harvest"
  /\ Answered(NoRequest)
  /\ UNCHANGED <<ledger, letGo, fault>>

AnswerFailed(i) ==
  /\ Driving(i, "faulted")
  /\ Settled
  /\ Answered(NoRequest)
  /\ UNCHANGED <<letGo, fault>>

\* The run went on for as many segments as one dispatch follows.
GiveUp ==
  /\ ~fault /\ request # NoRequest
  /\ boots = MAX_SEGMENTS
  /\ Settled
  /\ Answered(NoRequest)
  /\ letGo' = letGo \cup {request.run}
  /\ UNCHANGED fault

\* No slot for a new run, or none that holds the run to resume.
Refuse ==
  /\ Unplaced
  /\ request.kind = "spawn" => \A i \in Slots : ~IsVacancy(i, request.run)
  /\ Settled
  /\ Answered(NoRequest)
  /\ UNCHANGED <<letGo, fault>>

----------------------------------------------------------------------------

\* What the board does without a mishap once it is asked for an answer.
Serve ==
  \/ \E i \in Slots :
       \/ Commission(i) \/ RollOver(i) \/ Reinstall(i) \/ EndRun(i) \/ FaultRun(i)
       \/ AnswerParked(i) \/ AnswerSettled(i) \/ AnswerHarvest(i) \/ AnswerFailed(i)
  \/ GiveUp
  \/ Refuse

Mishap ==
  \/ \E i \in Slots : \/ CommissionCut(i) \/ EraseCut(i) \/ RollOverCut(i)
                      \/ Tear(i) \/ ReinstallCut(i)
  \/ Reset

Supervise == \E g \in Goals : Spawn(g) \/ Resume(g)

Next == Supervise \/ Serve \/ Mishap

\* The boot loop boots the supervisor again after every reset, and a boot
\* dispatches the outstanding request.
Spec == Init /\ [][Next]_vars
FairSpec == Spec /\ WF_vars(Serve)

----------------------------------------------------------------------------
(* Properties.                                                            *)

TypeOK ==
  /\ ledger \in [Goals -> [status : {"resting", "running", "waiting"},
                           run : Roots \cup {NoRoot}, held : Nat]]
  /\ spawnSeq \in 0 .. MaxSpawns
  /\ request \in [kind : {"none", "spawn", "resume", "harvest"},
                  run : Roots \cup {NoRoot}]
  /\ slots \in [Slots -> Pair]
  /\ boots \in 0 .. MAX_SEGMENTS
  /\ letGo \subseteq Roots
  /\ mishaps \in 0 .. MaxMishaps
  /\ fault \in BOOLEAN

\* No reset leaves a pair with two banks sealed at one generation
\* (SlotFault::Ambiguous), nor two slots with one run: what select finds is
\* the run, whatever order it looks in.
SlotsAgree ==
  /\ \A i \in Slots : ~Ambiguous(slots[i])
  /\ \A i, j \in Slots :
       Occupied(slots[i]) /\ Occupied(slots[j])
         /\ Front(slots[i]).root = Front(slots[j]).root => i = j

\* A run is driven under the seed its reservation paid for, and holds no more
\* turns than that, through every rollover, reset and reinstalled segment.
DrivesCommittedSeed ==
  \A g \in Goals, i \in Slots :
    Occupied(slots[i]) /\ Front(slots[i]).root = ledger[g].run =>
      /\ Front(slots[i]).seed = ledger[g].held
      /\ Front(slots[i]).left <= ledger[g].held

InSlots == {Front(slots[i]).root : i \in {j \in Slots : Occupied(slots[j])}}

\* A run the ledger holds is in a slot from its commissioning to its
\* settlement: the runs of other goals never take the slot of a parked one.
ObligationStored ==
  \A g \in Goals :
    /\ ledger[g] # Resting
    /\ request # [kind |-> "spawn", run |-> ledger[g].run]
    => ledger[g].run \in InSlots

\* A spawn is refused for want of room only when every slot holds an
\* unfinished run that the ledger still holds or was made to let go of.
RefusedOnlyWhenFull ==
  [][Refuse /\ request.kind = "spawn" =>
       \A i \in Slots :
         /\ Occupied(slots[i])
         /\ Front(slots[i]).journal \in {"open", "torn"}
         /\ Front(slots[i]).root \in {ledger[g].run : g \in Goals} \cup letGo]_vars

\* Slot by slot, bank by bank, reset by reset, the flash keeps the promises
\* of a store of runs.
Kept == InSlots \ letGo

Stored(root) ==
  LET slot == CHOOSE i \in Slots : Occupied(slots[i]) /\ Front(slots[i]).root = root
      segment == Front(slots[slot])
  IN  [seed |-> segment.seed, left |-> segment.left, ended |-> Concluded(segment)]

Store == INSTANCE RunStore WITH
  Seeds <- Grants,
  runs <- [root \in Kept |-> Stored(root)]

StoreIsRunStore == Store!Spec

\* Every request is answered, or the supervisor has ended: a torn journal, a
\* reset in its repair and a run without end never hold the supervisor back.
Answers == request # NoRequest ~> request = NoRequest \/ fault

\* A torn write costs a replay, never the run and never the agent: no report
\* is one the ledger refuses.
AgentSurvives == ~fault

============================================================================
