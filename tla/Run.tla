-------------------------------- MODULE Run --------------------------------
(***************************************************************************)
(* The durable ReAct run (esper-runtime run/mod.rs): the state machine of  *)
(* one run from its first segment to its end, with the parts of esper-core *)
(* it drives: the budget, the runtime monitor, the compaction fold, the    *)
(* harvester and the lineage a rollover hands to the next segment.         *)
(*                                                                         *)
(* A step is what the workflow does with one recorded answer.  A reset     *)
(* between two answers replays to the same point, and an attempt whose     *)
(* answer was not recorded is made again; what a reset does change is the  *)
(* device's clock, which counts from boot.  A call's tool and arguments    *)
(* are one path; prompts are counted in units; budget units the run never  *)
(* spends are left out.                                                    *)
(***************************************************************************)
EXTENDS Integers, SequencesExt

CONSTANTS
  Reads,           \* read-only calls the model may make
  PinWrites,       \* calls that write a pin
  Delays,          \* calls that wait on the clock, a mutation like a write
  Forbidden,       \* calls the goal's capabilities do not cover
  NoCall,          \* the path of a step that dispatched nothing
  Turns,           \* model turns granted
  Mutations,       \* mutations granted
  RollsOver,       \* whether the seed has a context budget
  Contexts,        \* what that budget may be, in prompt units
  PromptSizes,     \* prompt units one inference may take
  Transients,      \* whether an attempt may meet a transient fault
  Failures,        \* whether the device may fail an activity
  MaxFailedPaths,  \* failed paths a fold has room for
  MaxKept,         \* observations a harvester keeps
  MaxResets        \* bound: resets of one behaviour

Writes == PinWrites \cup Delays
Calls == Reads \cup Writes

ASSUME RunAssumption ==
  /\ Reads \cap Writes = {}
  /\ PinWrites \cap Delays = {}
  /\ Forbidden \subseteq Calls
  /\ NoCall \notin Calls
  /\ Turns \in Nat \ {0}
  /\ Mutations \in Nat
  /\ RollsOver \in BOOLEAN
  /\ Contexts \subseteq Nat
  /\ PromptSizes \subseteq Nat
  /\ Transients \in BOOLEAN
  /\ Failures \in BOOLEAN
  /\ MaxFailedPaths \in Nat
  /\ MaxKept \in Nat \ {0}
  /\ MaxResets \in Nat

VARIABLES
  \* where the segment stands
  sm,          \* the state machine's position
  call,        \* the committed call waiting for authorization
  intent,      \* the authorized call with no outcome yet
  step,        \* the completed step Account will look at
  repairs,     \* invalid model lines of this segment
  \* what bounds it
  context,     \* the context budget of every segment
  turns,       \* model turns left
  mutations,   \* mutations left
  bound,       \* the budgets the fold was first cut at, <<>> in the first segment
  fill,        \* prompt units of this segment
  window,      \* the monitor's last steps
  streak,      \* consecutive steps without progress
  \* what the next segment inherits
  ruledOut,    \* failed paths of the fold the segment started from
  failed,      \* failed paths of the fold it builds
  overfull,    \* whether that fold refused a path
  kept,        \* what the harvester keeps
  open,        \* the effect it has open, <<>> for none
  \* identities
  segment,     \* the segment's run id, from the first one's
  frames,      \* frames folded in this segment
  seq,         \* the next effect of this segment
  \* how the run ended
  status,      \* its terminal status, "none" before
  fault,       \* what ended it without one
  \* the run's history
  resets,      \* resets so far
  inferences,  \* model turns taken
  mutated,     \* mutations authorized
  trail        \* completed steps, with the effect each one was

budgetVars == <<turns, mutations, bound>>
monitorVars == <<window, streak>>
foldVars == <<ruledOut, failed, overfull>>
harvestVars == <<kept, open>>
segmentVars == <<call, intent, step, repairs, budgetVars, fill, monitorVars, foldVars,
                 harvestVars, segment, frames, seq>>
endVars == <<status, fault>>
historyVars == <<inferences, mutated, trail>>
vars == <<sm, context, segmentVars, endVars, resets, historyVars>>

MaxRepairs == 3            \* MAX_REPAIRS
MaxTransientAttempts == 3  \* MAX_TRANSIENT_ATTEMPTS
MonitorWindow == 5         \* MONITOR_WINDOW
NoProgressLimit == 5       \* NO_PROGRESS_LIMIT
IdenticalFailureLimit == 3 \* IDENTICAL_FAILURE_LIMIT
MajorityErrorLimit == 3    \* MAJORITY_ERROR_LIMIT
TriggerPct == 80           \* DEFAULT_POLICY.trigger_pct

NoIntent == [path |-> NoCall, seq |-> 0, attempt |-> 0, thisBoot |-> FALSE]

\* What the monitor sees of a step.  Verification is the only step that can
\* fail, and its failure the only step without progress.
Step == [path : Calls \cup {NoCall}, ok : BOOLEAN]
NoStep == [path |-> NoCall, ok |-> TRUE]

Init ==
  /\ sm = "Recover"
  /\ context \in Contexts
  /\ call = NoCall /\ intent = NoIntent /\ step = NoStep /\ repairs = 0
  /\ turns = Turns /\ mutations = Mutations /\ bound = <<>>
  /\ fill = 0
  /\ window = <<>> /\ streak = 0
  /\ ruledOut = {} /\ failed = {} /\ overfull = FALSE
  /\ kept = <<>> /\ open = <<>>
  /\ segment = 0 /\ frames = 1 /\ seq = 0
  /\ status = "none" /\ fault = "none"
  /\ resets = 0 /\ inferences = 0 /\ mutated = 0 /\ trail = <<>>

----------------------------------------------------------------------------
(* How a run ends.  A fault is no terminal: the supervisor settles it as a *)
(* storage fault.                                                          *)

End(s) == sm' = "End" /\ status' = s /\ UNCHANGED fault
Fail(f) == sm' = "End" /\ fault' = f /\ UNCHANGED status

----------------------------------------------------------------------------
(* The harvester.                                                          *)

\* Same path supersedes; the oldest makes room.
Keep(list, path) ==
  LET same == {i \in 1 .. Len(list) : list[i] = path}
      others == IF same = {} THEN list ELSE RemoveAt(list, CHOOSE i \in same : TRUE)
  IN  Append(IF Len(others) < MaxKept THEN others ELSE Tail(others), path)

\* A mutation counts as soon as it is observed.
EarnedUnverified(o) == o # <<>> /\ o.value

\* An effect earned its place: observed, and verified when it mutates.
Earned(o) == o # <<>> /\ o.value /\ (o.path \in Writes => o.verified)

Closed(list, o) == IF Earned(o) THEN Keep(list, o.path) ELSE list

----------------------------------------------------------------------------
(* The monitor.                                                            *)

Pushed(list, s) ==
  Append(IF Len(list) < MonitorWindow THEN list ELSE Tail(list), s)

\* The last steps of the list are the same failure.
Alike(list) ==
  /\ Len(list) >= IdenticalFailureLimit
  /\ LET last == list[Len(list)]
     IN  /\ ~last.ok
         /\ \A i \in Len(list) - IdenticalFailureLimit + 1 .. Len(list) :
              list[i].path = last.path /\ ~list[i].ok

ErrorMajority(list) ==
  /\ Len(list) >= MonitorWindow
  /\ Cardinality({i \in Len(list) - MonitorWindow + 1 .. Len(list) : ~list[i].ok})
       >= MajorityErrorLimit

Exhausted == turns = 0 \/ mutations = 0

----------------------------------------------------------------------------
(* Recover and Gather: the gate every step passes, and the rollover.       *)

\* A child waits for a harvest its parent may not have.
RecoverWithHarvest ==
  /\ sm = "Recover"
  /\ bound = <<>> \/ kept # <<>>
  /\ sm' = "Gather"
  /\ UNCHANGED <<segmentVars, endVars, context, resets, historyVars>>

Recover ==
  /\ sm = "Recover"
  /\ sm' = "Gather"
  /\ UNCHANGED <<segmentVars, endVars, context, resets, historyVars>>

OutOfBudget == (RollsOver /\ context = 0) \/ Exhausted
Full == RollsOver /\ fill * 100 >= context * TriggerPct

GatherExhausted ==
  /\ sm = "Gather"
  /\ OutOfBudget
  /\ End("BudgetExhausted")
  /\ UNCHANGED <<segmentVars, context, resets, historyVars>>

GatherClear ==
  /\ sm = "Gather"
  /\ ~OutOfBudget
  /\ ~Full
  /\ sm' = "Infer"
  /\ UNCHANGED <<segmentVars, endVars, context, resets, historyVars>>

\* The budgets the fold is bound to: a child keeps its parent's binding.
Cut == IF bound = <<>> THEN <<turns, mutations>> ELSE bound

\* The child runs under its parent's id.
SameSegment == segment

\* The cut frame's index is one less than the frames so far.
ChildSegment == segment + (frames - 1) + 1

\* The child starts over but for what the lineage, the fold and the harvest
\* carry.
Continue ==
  /\ sm' = "Recover"
  /\ call' = NoCall /\ intent' = NoIntent /\ step' = NoStep /\ repairs' = 0
  /\ bound' = Cut
  /\ fill' = 0
  /\ window' = <<>> /\ streak' = 0
  /\ ruledOut' = failed
  /\ kept' = Closed(kept, open) /\ open' = <<>>
  /\ segment' = ChildSegment /\ frames' = 1 /\ seq' = 0
  /\ UNCHANGED <<turns, mutations, failed, overfull, endVars>>

Rollover ==
  /\ sm = "Gather"
  /\ ~OutOfBudget
  /\ Full
  /\ IF overfull THEN Fail("CompactStateFull") /\ UNCHANGED segmentVars
     ELSE IF turns > Cut[1] \/ mutations > Cut[2]
          THEN Fail("BudgetWidened") /\ UNCHANGED segmentVars
          ELSE Continue
  /\ UNCHANGED <<context, resets, historyVars>>

----------------------------------------------------------------------------
(* Infer and Repair: one recorded inference, one turn.                     *)

Decide ==
  \/ /\ call' \in Calls
     /\ sm' = "Authorize"
     /\ UNCHANGED repairs
  \/ /\ sm' \in {"AwaitInput", "Finalize"}
     /\ UNCHANGED <<call, repairs>>
  \/ /\ repairs' = repairs + 1
     /\ sm' = "Repair"
     /\ UNCHANGED call

\* Every path into Infer passed a budget gate: without a turn left the
\* history over-spent.
Infer ==
  /\ sm = "Infer"
  /\ inferences' = inferences + 1
  /\ IF turns = 0 THEN Fail("JournalCorrupt") /\ UNCHANGED segmentVars
     ELSE /\ turns' = turns - 1
          /\ \E size \in PromptSizes : fill' = fill + size
          /\ frames' = frames + 1
          /\ Decide
          /\ UNCHANGED <<intent, step, mutations, bound, monitorVars, foldVars,
                         harvestVars, segment, seq, endVars>>
  /\ UNCHANGED <<context, resets, mutated, trail>>

\* One repair too many.
RepairLate ==
  /\ sm = "Repair"
  /\ repairs <= MaxRepairs
  /\ turns > 0
  /\ sm' = "Infer"
  /\ UNCHANGED <<segmentVars, endVars, context, resets, historyVars>>

\* Repairs go on whatever turns are left.
RepairUnbudgeted ==
  /\ sm = "Repair"
  /\ repairs < MaxRepairs
  /\ sm' = "Infer"
  /\ UNCHANGED <<segmentVars, endVars, context, resets, historyVars>>

RepairAvailable ==
  /\ sm = "Repair"
  /\ repairs < MaxRepairs
  /\ turns > 0
  /\ sm' = "Infer"
  /\ UNCHANGED <<segmentVars, endVars, context, resets, historyVars>>

RepairExhausted ==
  /\ sm = "Repair"
  /\ repairs >= MaxRepairs \/ turns = 0
  /\ End(IF turns = 0 THEN "BudgetExhausted" ELSE "ModelInvalid")
  /\ UNCHANGED <<segmentVars, context, resets, historyVars>>

----------------------------------------------------------------------------
(* Authorize: capability, pin direction, mutation budget, ruled-out paths; *)
(* then the intent, under an effect id of its own.                         *)

\* How the call may be refused.  The device answers for a pin's direction.
Refusals ==
  IF call \in Forbidden THEN {"Denied"}
  ELSE (IF call \in PinWrites THEN {"Denied"} ELSE {})
       \cup (IF call \in Writes /\ mutations = 0 THEN {"BudgetExhausted"}
             ELSE IF call \in ruledOut THEN {"Stuck"} ELSE {})

Refuse ==
  /\ sm = "Authorize"
  /\ \E s \in Refusals : End(s)
  /\ call' = NoCall
  /\ UNCHANGED <<intent, step, repairs, budgetVars, fill, monitorVars, foldVars,
                 harvestVars, segment, frames, seq, context, resets, historyVars>>

MayDispatch ==
  /\ call \notin Forbidden
  /\ ~(call \in Writes /\ mutations = 0)
  /\ call \notin ruledOut

\* A wait costs nothing.
SpentOnPins(path) == IF path \in PinWrites THEN 1 ELSE 0

Spent(path) == IF path \in Writes THEN 1 ELSE 0

Authorize ==
  /\ sm = "Authorize"
  /\ MayDispatch
  /\ intent' = [NoIntent EXCEPT !.path = call, !.seq = seq]
  /\ call' = NoCall
  /\ seq' = seq + 1
  /\ mutations' = mutations - Spent(call)
  /\ frames' = frames + 1
  /\ kept' = Closed(kept, open)
  /\ open' = [path |-> call, value |-> FALSE, verified |-> FALSE]
  /\ sm' = "Observe"
  /\ mutated' = IF call \in Writes THEN mutated + 1 ELSE mutated
  /\ UNCHANGED <<step, repairs, turns, bound, fill, monitorVars, foldVars, segment,
                 endVars, context, resets, inferences, trail>>

----------------------------------------------------------------------------
(* Observe and Verify: dispatch attempts of the intent, then the read-back *)
(* every mutation must pass.  A step is complete once it is observed and,  *)
(* for a mutation, read back.                                              *)

Complete(path, ok) ==
  /\ step' = [path |-> path, ok |-> ok]
  /\ trail' = Append(trail, [segment |-> segment, seq |-> intent.seq,
                             path |-> path, ok |-> ok])
  /\ sm' = "Account"

Attempted == intent.attempt + 1

\* One attempt too many.
LastAttemptLate == Attempted > MaxTransientAttempts

LastAttempt == Attempted >= MaxTransientAttempts

\* The attempt never reached the device.
ObserveTransient ==
  /\ sm = "Observe"
  /\ Transients
  /\ frames' = frames + 1
  /\ IF LastAttempt
     THEN End("Stuck") /\ intent' = NoIntent
     ELSE intent' = [intent EXCEPT !.attempt = Attempted] /\ UNCHANGED <<sm, endVars>>
  /\ UNCHANGED <<call, step, repairs, budgetVars, fill, monitorVars, foldVars,
                 harvestVars, segment, seq, context, resets, historyVars>>

Observe ==
  /\ sm = "Observe"
  /\ frames' = frames + 1
  /\ open' = [open EXCEPT !.value = TRUE]
  /\ IF intent.path \in Writes
     THEN /\ intent' = [intent EXCEPT !.attempt = Attempted, !.thisBoot = TRUE]
          /\ sm' = "Verify"
          /\ UNCHANGED <<step, trail>>
     ELSE Complete(intent.path, TRUE) /\ intent' = NoIntent
  /\ UNCHANGED <<call, repairs, budgetVars, fill, monitorVars, foldVars, kept, segment,
                 seq, endVars, context, resets, inferences, mutated>>

\* An actuator may be stuck.  A wait is checked against the clock reading it
\* started at, which holds in the boot that took it.
ReadBack ==
  IF intent.path \in Delays /\ intent.thisBoot THEN {TRUE} ELSE BOOLEAN

\* The fold drops the oldest path to make room.
RecordsForgetting(path) ==
  /\ failed' = (IF Cardinality(failed) < MaxFailedPaths THEN failed ELSE {}) \cup {path}
  /\ UNCHANGED overfull

\* Only a run that can roll over keeps a fold; a fold that refused a path
\* takes no other.
Records(path) ==
  IF ~RollsOver \/ overfull \/ path \in failed THEN UNCHANGED <<failed, overfull>>
  ELSE IF Cardinality(failed) < MaxFailedPaths
       THEN failed' = failed \cup {path} /\ UNCHANGED overfull
       ELSE overfull' = TRUE /\ UNCHANGED failed

Verify ==
  /\ sm = "Verify"
  /\ frames' = frames + 1
  /\ \E passed \in ReadBack :
       /\ open' = [open EXCEPT !.verified = passed]
       /\ IF passed THEN UNCHANGED <<failed, overfull>> ELSE Records(intent.path)
       /\ Complete(intent.path, passed)
  /\ UNCHANGED <<call, intent, repairs, budgetVars, fill, monitorVars, ruledOut, kept,
                 segment, seq, endVars, context, resets, inferences, mutated>>

\* The operator's answer: the request's frame and the decision's.
AwaitInput ==
  /\ sm = "AwaitInput"
  /\ frames' = frames + 2
  /\ step' = NoStep
  /\ trail' = Append(trail, [segment |-> segment, seq |-> 0, path |-> NoCall, ok |-> TRUE])
  /\ sm' = "Account"
  /\ UNCHANGED <<call, intent, repairs, budgetVars, fill, monitorVars, foldVars,
                 harvestVars, segment, seq, endVars, context, resets, inferences, mutated>>

----------------------------------------------------------------------------
(* Account and Finalize.                                                   *)

\* The monitor does not compare failures.
VerdictUncompared ==
  IF Exhausted THEN "BudgetExhausted"
  ELSE IF streak' >= NoProgressLimit \/ ErrorMajority(window')
       THEN "Stuck" ELSE "Continue"

Verdict ==
  IF Exhausted THEN "BudgetExhausted"
  ELSE IF \/ streak' >= NoProgressLimit
          \/ Alike(window')
          \/ ErrorMajority(window')
       THEN "Stuck" ELSE "Continue"

Account ==
  /\ sm = "Account"
  /\ window' = Pushed(window, step)
  /\ streak' = IF step.ok THEN 0 ELSE streak + 1
  /\ step' = NoStep /\ intent' = NoIntent
  /\ IF Verdict = "Continue" THEN sm' = "Gather" /\ UNCHANGED endVars ELSE End(Verdict)
  /\ UNCHANGED <<call, repairs, budgetVars, fill, foldVars, harvestVars, segment, frames,
                 seq, context, resets, historyVars>>

Finalize ==
  /\ sm = "Finalize"
  /\ End("Completed")
  /\ UNCHANGED <<segmentVars, context, resets, historyVars>>

----------------------------------------------------------------------------
(* The device's own steps.                                                 *)

\* A recorded fault: no such sensor, a model that does not answer, input
\* that is none, a snapshot chunk refused or gone.
DeviceFails ==
  /\ Failures
  /\ \/ sm \in {"Infer", "AwaitInput", "Observe"}
     \/ sm = "Recover" /\ bound # <<>>
     \/ sm = "Gather" /\ ~OutOfBudget /\ Full
  /\ Fail("Device")
  /\ UNCHANGED <<segmentVars, context, resets, historyVars>>

\* A reset replays to where it struck; the device's clock starts again.
Reset ==
  /\ sm # "End"
  /\ resets < MaxResets
  /\ resets' = resets + 1
  /\ intent' = [intent EXCEPT !.thisBoot = FALSE]
  /\ UNCHANGED <<sm, call, step, repairs, budgetVars, fill, monitorVars, foldVars,
                 harvestVars, segment, frames, seq, context, endVars, historyVars>>

Progress ==
  \/ Recover \/ GatherExhausted \/ GatherClear \/ Rollover
  \/ Infer \/ RepairAvailable \/ RepairExhausted
  \/ Refuse \/ Authorize
  \/ ObserveTransient \/ Observe \/ Verify
  \/ Account \/ Finalize

Next == Progress \/ AwaitInput \/ DeviceFails \/ Reset

Spec == Init /\ [][Next]_vars

\* The supervisor drives the run to its end or to a question; the operator
\* need not answer.
FairSpec == Spec /\ WF_vars(Progress)

\* The writes of a run, all of one kind, are interchangeable in a small instance.
Symmetry == Permutations(PinWrites)

----------------------------------------------------------------------------
(* Properties.                                                             *)

Positions == {"Recover", "Gather", "Infer", "Repair", "Authorize", "AwaitInput",
              "Observe", "Verify", "Account", "Finalize", "End"}
Ended == {"Completed", "Denied", "BudgetExhausted", "Stuck", "ModelInvalid"}
InternalFaults == {"JournalCorrupt", "BudgetWidened"}

TypeOK ==
  /\ sm \in Positions
  /\ context \in Contexts
  /\ call \in Calls \cup {NoCall}
  /\ intent \in [path : Calls \cup {NoCall}, seq : Nat,
                 attempt : 0 .. MaxTransientAttempts, thisBoot : BOOLEAN]
  /\ step \in Step
  /\ repairs \in 0 .. MaxRepairs
  /\ turns \in 0 .. Turns
  /\ mutations \in 0 .. Mutations
  /\ bound \in {<<>>} \cup (0 .. Turns) \X (0 .. Mutations)
  /\ fill \in Nat
  /\ window \in Seq(Step) /\ Len(window) <= MonitorWindow
  /\ streak \in 0 .. NoProgressLimit
  /\ ruledOut \subseteq Writes
  /\ failed \subseteq Writes
  /\ overfull \in BOOLEAN
  /\ kept \in Seq(Calls) /\ Len(kept) <= MaxKept
  /\ open \in {<<>>} \cup [path : Calls, value : BOOLEAN, verified : BOOLEAN]
  /\ segment \in Nat /\ frames \in Nat \ {0} /\ seq \in Nat
  /\ status \in Ended \cup {"none"}
  /\ fault \in InternalFaults \cup {"none", "CompactStateFull", "Device"}
  /\ resets \in 0 .. MaxResets
  /\ inferences \in Nat
  /\ mutated \in Nat
  /\ trail \in Seq([segment : Nat, seq : Nat, path : Calls \cup {NoCall}, ok : BOOLEAN])

\* Over all its segments the run spends its grant once: what the last
\* segment has left is what the supervisor refunds (agent/device.rs, report).
SpendsItsGrant ==
  /\ turns + inferences = Turns
  /\ mutations + mutated = Mutations

\* The engine never reaches the faults it guards itself against: a turn
\* without a budget gate (run/mod.rs, infer) or a child of wider budgets
\* (lineage.rs, continue_as_new).
NeverFaultsItself == fault \notin InternalFaults

\* A path whose verification failed in a segment is dispatched in no later
\* one, however many rollovers lie between (compact.rs, invariant (a)).
RuledOutStaysRuledOut ==
  \A i, j \in 1 .. Len(trail) :
    (i < j /\ ~trail[i].ok /\ trail[i].segment # trail[j].segment)
      => trail[j].path # trail[i].path

\* The device may tell effects apart by (run, seq): no two completed steps
\* of the run share one, rollovers restarting the sequence or not.
EffectNamesOneCall ==
  \A i, j \in 1 .. Len(trail) :
    (i # j /\ trail[i].path # NoCall /\ trail[j].path # NoCall)
      => <<trail[i].segment, trail[i].seq>> # <<trail[j].segment, trail[j].seq>>

\* The paths the run learned something from, by their last success.
Learned ==
  {i \in 1 .. Len(trail) :
     /\ trail[i].ok /\ trail[i].path # NoCall
     /\ \A j \in i + 1 .. Len(trail) : ~(trail[j].ok /\ trail[j].path = trail[i].path)}

\* Whatever rollovers interrupt it, the harvest is the run's last MaxKept
\* learned paths, oldest first, and never an unverified mutation.
HarvestIsUnbroken ==
  LET latest == {i \in Learned : Cardinality({j \in Learned : j > i}) < MaxKept}
      list == Closed(kept, open)
  IN  /\ Len(list) = Cardinality(latest)
      /\ \A i \in latest :
           list[Cardinality({j \in latest : j <= i})] = trail[i].path

\* A run id leaves 2^16 ids between one spawn and the next (agent/mod.rs,
\* run_id): a segment's offset stays within seven per inference.
SegmentIdsBounded == segment + frames <= 7 * inferences + 1

\* The run ends, or waits for the operator.
Settles == []<>(sm \in {"AwaitInput", "End"})

\* The trail's end that is of this segment: what came before is of earlier ones.
FirstOfSegment ==
  CHOOSE n \in 1 .. Len(trail) + 1 :
    /\ \A i \in n .. Len(trail) : trail[i].segment = segment
    /\ n > 1 => trail[n - 1].segment # segment
OfSegment == SubSeq(trail, FirstOfSegment, Len(trail))

\* No inference follows a history the loop detector calls stuck: three equal
\* failures, or failures among most of five steps (monitor.rs, observe).
NeverLoops == sm = "Infer" => ~Alike(OfSegment) /\ ~ErrorMajority(OfSegment)

\* A completed run's last mutation passed its verification (SPEC 9.3).
CompletedIsVerified ==
  status = "Completed" =>
    \A i \in 1 .. Len(trail) :
      (trail[i].path \in Writes /\ ~trail[i].ok)
        => \E j \in i + 1 .. Len(trail) : trail[j].path \in Writes

============================================================================
