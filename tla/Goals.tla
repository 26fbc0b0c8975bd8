------------------------------- MODULE Goals -------------------------------
(***************************************************************************)
(* The goal ledger's rules (esper-core goal.rs, beat.rs): the status       *)
(* machine of a goal, its budget envelope, settlement and scheduling, as   *)
(* operators on goal records.  Agent.tla drives them beat by beat.         *)
(*                                                                         *)
(* A ledger is a function from goal ids to goals, NoGoal where the ledger  *)
(* holds none.  Slot order is left out: every choice over the slots is by  *)
(* a key with the id in it, so the order never decides anything.           *)
(* Objectives and capability sets are left out but for their verdict: a    *)
(* spec the ledger refuses for them is one with admissible = FALSE.        *)
(***************************************************************************)
EXTENDS Integers, FiniteSets

CONSTANTS
  MaxGoals,      \* slots of the ledger (MAX_GOALS)
  MaxId,         \* the last goal id (u16::MAX)
  MaxFailures,   \* policy.max_consecutive_failures
  BackoffBase,   \* policy.backoff_base, in beats
  BackoffCap,    \* policy.backoff_cap, in beats
  OverdueAfter,  \* policy.overdue_after, in beats
  NoGoal         \* an empty slot

ASSUME SlotAssumption == MaxGoals \in Nat \ {0} /\ MaxId \in Nat \ {0}

\* SchedulePolicy::validate, and the nonzero BeatSpans.
ASSUME PolicyAssumption ==
  /\ MaxFailures \in Nat \ {0}
  /\ BackoffBase \in Nat \ {0}
  /\ BackoffCap \in Nat \ {0}
  /\ BackoffBase <= BackoffCap
  /\ OverdueAfter \in Nat \ {0}

Ids == 1..MaxId

----------------------------------------------------------------------------
(* Statuses, events and the transition table.                             *)

GoalStatus == {"Active", "Running", "Waiting", "Paused",
               "Satisfied", "Failed", "Exhausted", "Retired"}

Terminal == {"Satisfied", "Failed", "Exhausted", "Retired"}
Busy == {"Running", "Waiting"}

GoalEvent == {"Spawn", "Park", "Resume", "Recur", "Satisfy", "Fail",
              "Exhaust", "Pause", "Unpause", "Retire"}
OperatorEvent == {"Pause", "Unpause", "Retire"}

Transitions == {
  <<"Active",  "Spawn",   "Running">>,
  <<"Running", "Park",    "Waiting">>,
  <<"Waiting", "Resume",  "Running">>,
  <<"Running", "Recur",   "Active">>,
  <<"Running", "Satisfy", "Satisfied">>,
  <<"Running", "Fail",    "Failed">>,
  <<"Running", "Exhaust", "Exhausted">>,
  <<"Active",  "Pause",   "Paused">>,
  <<"Paused",  "Unpause", "Active">>,
  <<"Active",  "Retire",  "Retired">>,
  <<"Paused",  "Retire",  "Retired">> }

\* The terminal statuses of a run, as the supervisor reads them.
RunStatus == {"Completed", "NeedsInput", "Denied", "BudgetExhausted", "Stuck",
              "ToolUnavailable", "ModelInvalid", "StorageFault", "Incompatible"}
NonRetryable == {"Denied", "Incompatible", "StorageFault"}

----------------------------------------------------------------------------
(* The records.                                                           *)

Grant == [turns : Nat, mutations : Nat]
ZeroGrant == [turns |-> 0, mutations |-> 0]

\* Envelope::validate: every grant nonzero.
Envelope == [perRunTurns : Nat \ {0}, perRunMutations : Nat \ {0},
             turns : Nat \ {0}, mutations : Nat \ {0}, runs : Nat \ {0}]

Remaining == [turns : Nat, mutations : Nat, runs : Nat]

\* cadence 0 is Once; n >= 1 is Every(n).
Once == 0

\* A run id: its goal and the spawn sequence (run_id); no run is <<0, 0>>.
RunId == Nat \X Nat
NoRun == <<0, 0>>

Goal == [priority : Nat, cadence : Nat, envelope : Envelope,
         remaining : Remaining, reserved : Grant, status : GoalStatus,
         nextDue : Int, failures : Nat, runsStarted : Nat,
         lastStatus : RunStatus \cup {"None"}, waitingSince : Int,
         run : RunId]

ASSUME NoGoalAssumption == NoGoal \notin Goal

\* An operator's goal spec; admissible is the verdict of the objective and
\* capability checks.
GoalSpec == [priority : Nat, cadence : Nat, envelope : Envelope,
             admissible : BOOLEAN]

----------------------------------------------------------------------------
(* Envelope rules.                                                        *)

Fundable(r) == r.turns >= 1 /\ r.mutations >= 1 /\ r.runs >= 1

\* Goal::check_envelope.
CheckEnvelope(g) ==
  /\ g.remaining.turns + g.reserved.turns <= g.envelope.turns
  /\ g.remaining.mutations + g.reserved.mutations <= g.envelope.mutations
  /\ g.remaining.runs + (IF g.status \in Busy THEN 1 ELSE 0) <= g.envelope.runs
  /\ g.status \notin Busy => g.reserved = ZeroGrant

Least(a, b) == IF a <= b THEN a ELSE b

\* Mutant: a reservation that forgets how much is left.
ReservationUnclamped(g) ==
  [turns |-> g.envelope.perRunTurns,
   mutations |-> g.envelope.perRunMutations]

\* The grant a spawn takes: min(per_run, remaining) of each unit.
Reservation(g) ==
  [turns |-> Least(g.remaining.turns, g.envelope.perRunTurns),
   mutations |-> Least(g.remaining.mutations, g.envelope.perRunMutations)]

\* min(base * 2^(streak-1), cap); base <= cap, so the scaled span is at
\* least base and only the cap can cut it.
Backoff(streak) ==
  LET scaled == BackoffBase * 2^(streak - 1)
  IN  IF scaled \in BackoffBase..BackoffCap THEN scaled ELSE BackoffCap

----------------------------------------------------------------------------
(* Ledger operations on one goal.                                         *)

\* GoalLedger::admit, the goal it builds.
Admitted(spec, now) ==
  [priority |-> spec.priority, cadence |-> spec.cadence,
   envelope |-> spec.envelope,
   remaining |-> [turns |-> spec.envelope.turns,
                  mutations |-> spec.envelope.mutations,
                  runs |-> spec.envelope.runs],
   reserved |-> ZeroGrant, status |-> "Active", nextDue |-> now,
   failures |-> 0, runsStarted |-> 0, lastStatus |-> "None",
   waitingSince |-> 0, run |-> NoRun]

\* Mutant: a spawn that reserves mutations without taking them.
SpawnedWithoutTaking(g, run) ==
  LET grant == Reservation(g)
  IN  [g EXCEPT !.status = "Running",
                !.remaining = [@ EXCEPT !.turns = @ - grant.turns,
                                        !.runs = @ - 1],
                !.reserved = grant,
                !.runsStarted = @ + 1,
                !.run = run]

\* GoalLedger::spawn: reserve the grant, count the run.
Spawned(g, run) ==
  LET grant == Reservation(g)
  IN  [g EXCEPT !.status = "Running",
                !.remaining = [turns |-> g.remaining.turns - grant.turns,
                               mutations |-> g.remaining.mutations - grant.mutations,
                               runs |-> g.remaining.runs - 1],
                !.reserved = grant,
                !.runsStarted = g.runsStarted + 1,
                !.run = run]

\* Mutant: a park that only notes the beat.
ParkedStillRunning(g, beat) == [g EXCEPT !.waitingSince = beat]

\* GoalLedger::park and GoalLedger::resume; the reservation stays held.
Parked(g, beat) == [g EXCEPT !.status = "Waiting", !.waitingSince = beat]
Resumed(g) == [g EXCEPT !.status = "Running", !.waitingSince = 0]

\* Mutant: a failed run's goal is rescheduled whatever is left.
DecisionUnfunded(g, remaining, status, beat) ==
  LET streak == g.failures + 1
  IN  CASE status = "Completed" /\ g.cadence = Once ->
             [status |-> "Satisfied", due |-> beat, streak |-> 0]
        [] status = "Completed" /\ g.cadence # Once ->
             [status |-> "Active", due |-> beat + g.cadence, streak |-> 0]
        [] OTHER ->
             IF status \in NonRetryable \/ streak >= MaxFailures
             THEN [status |-> "Failed", due |-> beat, streak |-> streak]
             ELSE [status |-> "Active", due |-> beat + Backoff(streak),
                   streak |-> streak]

\* The settlement table: the next status, when it is next due and the
\* failure streak; remaining already includes the refund.
Decision(g, remaining, status, beat) ==
  LET streak == g.failures + 1
  IN  CASE status = "Completed" /\ g.cadence = Once ->
             [status |-> "Satisfied", due |-> beat, streak |-> 0]
        [] status = "Completed" /\ g.cadence # Once /\ ~Fundable(remaining) ->
             [status |-> "Exhausted", due |-> beat, streak |-> 0]
        [] status = "Completed" /\ g.cadence # Once /\ Fundable(remaining) ->
             [status |-> "Active", due |-> beat + g.cadence, streak |-> 0]
        [] status # "Completed"
           /\ (status \in NonRetryable \/ streak >= MaxFailures) ->
             [status |-> "Failed", due |-> beat, streak |-> streak]
        [] OTHER ->
             IF Fundable(remaining)
             THEN [status |-> "Active", due |-> beat + Backoff(streak),
                   streak |-> streak]
             ELSE [status |-> "Exhausted", due |-> beat, streak |-> streak]

\* Mutant: a settlement that leaves the reservation held.
SettledStillHolding(g, status, refund, beat) ==
  LET remaining == [g.remaining EXCEPT !.turns = @ + refund.turns,
                                       !.mutations = @ + refund.mutations]
      next == Decision(g, remaining, status, beat)
  IN  [g EXCEPT !.remaining = remaining, !.status = next.status,
                !.nextDue = next.due, !.failures = next.streak,
                !.lastStatus = status, !.run = NoRun]

\* GoalLedger::settle, once the refund is known to fit the reservation.
Settled(g, status, refund, beat) ==
  LET remaining == [turns |-> g.remaining.turns + refund.turns,
                    mutations |-> g.remaining.mutations + refund.mutations,
                    runs |-> g.remaining.runs]
      next == Decision(g, remaining, status, beat)
  IN  [g EXCEPT !.remaining = remaining,
                !.reserved = ZeroGrant,
                !.status = next.status,
                !.nextDue = next.due,
                !.failures = next.streak,
                !.lastStatus = status,
                !.run = NoRun]

RefundFits(g, refund) ==
  refund.turns <= g.reserved.turns /\ refund.mutations <= g.reserved.mutations

\* GoalLedger::control: whether the ledger takes the event, and its effect.
Controllable(g, event) ==
  /\ g.status \notin Busy
  /\ event \in OperatorEvent
  /\ \E to \in GoalStatus : <<g.status, event, to>> \in Transitions

Controlled(g, event, now) ==
  [g EXCEPT !.status = CHOOSE to \in GoalStatus :
                          <<g.status, event, to>> \in Transitions,
            !.nextDue = IF event = "Unpause" /\ g.nextDue < now
                        THEN now ELSE g.nextDue]

----------------------------------------------------------------------------
(* The ledger as a whole.                                                 *)

Held(goals) == {i \in Ids : goals[i] # NoGoal}

LedgerFull(goals) == Cardinality(Held(goals)) >= MaxGoals

\* Mutant: an allocator with no end.
NextIdAfterUnchecked(id) == id + 1

\* checked_add(1).unwrap_or(0): 0 once the ids are exhausted.
NextIdAfter(id) == IF id = MaxId THEN 0 ELSE id + 1

Waiting(goals) == {i \in Held(goals) : goals[i].status = "Waiting"}

\* Mutants: a goal due only before its beat, never after, and a parked goal
\* that counts as one that may run.
DueTooEarly(goals, beat) ==
  {i \in Held(goals) : goals[i].status = "Active" /\ goals[i].nextDue > beat}
DueThoughParked(goals, beat) ==
  {i \in Held(goals) : goals[i].status \in {"Active", "Waiting"}
                        /\ goals[i].nextDue <= beat}

Due(goals, beat) ==
  {i \in Held(goals) : goals[i].status = "Active" /\ goals[i].nextDue <= beat}

\* GoalLedger::pick, first rule: a parked goal whose input arrived, highest
\* priority first, then lowest id.
IsResumePick(goals, ready, id) ==
  LET able == Waiting(goals) \cap ready
  IN  /\ id \in able
      /\ \A j \in able :
           \/ goals[id].priority > goals[j].priority
           \/ goals[id].priority = goals[j].priority /\ id <= j

\* Second rule: a due active goal, highest priority first, then earliest
\* due, then lowest id.
IsSpawnPick(goals, beat, ready, id) ==
  LET able == Due(goals, beat)
  IN  /\ Waiting(goals) \cap ready = {}
      /\ id \in able
      /\ \A j \in able :
           \/ goals[id].priority > goals[j].priority
           \/ /\ goals[id].priority = goals[j].priority
              /\ \/ goals[id].nextDue < goals[j].nextDue
                 \/ goals[id].nextDue = goals[j].nextDue /\ id <= j

IsIdlePick(goals, beat, ready) ==
  Waiting(goals) \cap ready = {} /\ Due(goals, beat) = {}

\* GoalLedger::restore_goal, for every goal of a checkpoint: what a restore
\* refuses as corrupt.  Distinct ids and the slot count hold by the shape of
\* the function and of a ledger that encoded it.
Restorable(goals, nextId) ==
  /\ Cardinality(Held(goals)) <= MaxGoals
  /\ \A i \in Held(goals) :
       /\ nextId # 0 => i < nextId
       /\ goals[i].status # "Running"
       /\ CheckEnvelope(goals[i])

IsOverdue(g, now) ==
  g.status = "Waiting" /\ now - g.waitingSince >= OverdueAfter

=============================================================================
