----------------------------- MODULE RunProofs -----------------------------
(***************************************************************************)
(* Theorems of the run, for every set of calls, every grant and context    *)
(* budget, and any number of transient faults, failures and resets.        *)
(***************************************************************************)
EXTENDS Run, SequenceTheorems, FiniteSetTheorems, WellFoundedInduction, TLAPS

Open == [path : Calls, value : BOOLEAN, verified : BOOLEAN]

\* What each position of the state machine has already made sure of.
Placed ==
  /\ sm = "Recover" => fill = 0
  /\ sm = "Infer" => turns > 0
  /\ sm = "Authorize" => call \in Calls
  /\ sm \in {"Observe", "Verify"} =>
       /\ intent.path \in Calls
       /\ intent.seq < seq
       /\ open \in Open
  /\ sm = "Observe" => intent.attempt < MaxTransientAttempts
  /\ sm = "Verify" => intent.path \in Writes
  /\ sm \notin {"Repair", "End"} => repairs < MaxRepairs
  /\ sm # "End" => streak < NoProgressLimit

\* No budget grows past what the fold was first cut at.
Narrows == bound # <<>> => turns <= bound[1] /\ mutations <= bound[2]

\* How many frames may follow before the next inference.
Room ==
  CASE sm \in {"Recover", "Gather", "Infer", "End"} -> 0
    [] sm = "Account" -> 1
    [] sm = "Verify" -> 2
    [] sm = "Observe" -> 5 - intent.attempt
    [] OTHER -> 6

FramesFit ==
  /\ segment + frames + Room <= 7 * inferences + 1
  /\ fill > 0 /\ sm = "Gather" => segment + frames <= 7 * inferences

\* The effects of completed steps come before the next one, and before the
\* one in flight.
NextEffect == IF sm \in {"Observe", "Verify"} THEN intent.seq ELSE seq

EffectsPassed ==
  \A i \in 1 .. Len(trail) :
    /\ trail[i].segment <= segment
    /\ (trail[i].path # NoCall /\ trail[i].segment = segment)
         => trail[i].seq < NextEffect

\* A failure of this segment is in the fold it builds, one of an earlier
\* segment in the fold it started from; a path in flight is in neither.
FailuresFolded ==
  /\ ruledOut \subseteq failed
  /\ \A i \in 1 .. Len(trail) :
       ~trail[i].ok =>
         /\ trail[i].path # NoCall
         /\ trail[i].segment # segment => trail[i].path \in ruledOut
         /\ RollsOver => overfull \/ trail[i].path \in failed
  /\ sm \in {"Observe", "Verify"} => intent.path \notin ruledOut

Inductive ==
  /\ TypeOK
  /\ SpendsItsGrant
  /\ NeverFaultsItself
  /\ Placed
  /\ Narrows
  /\ FramesFit
  /\ EffectsPassed
  /\ EffectNamesOneCall
  /\ FailuresFolded
  /\ RuledOutStaysRuledOut

----------------------------------------------------------------------------
(* The lists of the harvester and of the monitor.                          *)

\* Keeping a path keeps a list of paths within its bound.
LEMMA KeepTyped ==
  ASSUME NEW list \in Seq(Calls), Len(list) <= MaxKept, NEW path \in Calls
  PROVE  Keep(list, path) \in Seq(Calls) /\ Len(Keep(list, path)) <= MaxKept
<1> DEFINE same == {i \in 1 .. Len(list) : list[i] = path}
           at == CHOOSE i \in same : TRUE
           others == IF same = {} THEN list ELSE RemoveAt(list, at)
<1>0. MaxKept \in Nat \ {0}
  BY RunAssumption
<1>1. others \in Seq(Calls) /\ Len(others) <= MaxKept
  <2>1. CASE same = {}
    BY <2>1
  <2>2. CASE same # {}
    <3>1. at \in 1 .. Len(list)
      BY <2>2
    <3> DEFINE left == SubSeq(list, 1, at - 1)
               right == SubSeq(list, at + 1, Len(list))
    <3> HIDE DEF same, at
    <3>2. left \in Seq(Calls) /\ Len(left) = at - 1
      BY <3>1, SubSeqProperties
    <3>3. right \in Seq(Calls) /\ Len(right) = Len(list) - at
      BY <3>1, SubSeqProperties
    <3> HIDE DEF left, right
    <3>4. left \o right \in Seq(Calls) /\ Len(left \o right) = Len(list) - 1
      BY <3>1, <3>2, <3>3, ConcatProperties
    <3>5. others = left \o right
      BY <2>2 DEF RemoveAt, left, right
    <3>6. Len(list) \in Nat
      BY LenProperties
    <3> HIDE DEF others
    <3> QED
      BY <1>0, <3>1, <3>4, <3>5, <3>6
  <2> QED
    BY <2>1, <2>2
<1> HIDE DEF others
<1>2. Keep(list, path) = Append(IF Len(others) < MaxKept THEN others ELSE Tail(others), path)
  BY DEF Keep, others, at, same
<1>3. CASE Len(others) < MaxKept
  BY <1>0, <1>1, <1>2, <1>3, AppendProperties
<1>4. CASE ~(Len(others) < MaxKept)
  <2>1. others # <<>> /\ Len(others) = MaxKept
    BY <1>0, <1>1, <1>4
  <2>2. Tail(others) \in Seq(Calls) /\ Len(Tail(others)) = MaxKept - 1
    BY <1>1, <2>1, HeadTailProperties
  <2> QED
    BY <1>0, <1>2, <1>4, <2>2, AppendProperties
<1> QED
  BY <1>3, <1>4

LEMMA ClosedTyped ==
  ASSUME NEW list \in Seq(Calls), Len(list) <= MaxKept, NEW o \in {<<>>} \cup Open
  PROVE  Closed(list, o) \in Seq(Calls) /\ Len(Closed(list, o)) <= MaxKept
<1>1. Earned(o) => o.path \in Calls
  BY DEF Earned, Open
<1> QED
  BY <1>1, KeepTyped DEF Closed

\* The monitor's ring holds the last steps.
LEMMA PushedTyped ==
  ASSUME NEW list \in Seq(Step), Len(list) <= MonitorWindow, NEW s \in Step
  PROVE  Pushed(list, s) \in Seq(Step) /\ Len(Pushed(list, s)) <= MonitorWindow
<1> DEFINE n == Len(list)
<1>0. n \in Nat /\ n <= 5
  BY LenProperties DEF MonitorWindow
<1> HIDE DEF n
<1>1. CASE n < 5
  BY <1>1, AppendProperties DEF n, Pushed, MonitorWindow
<1>2. CASE ~(n < 5)
  <2>0. n = 5
    BY <1>0, <1>2
  <2>1. list # <<>>
    BY <2>0, EmptySeq DEF n
  <2>2. Tail(list) \in Seq(Step) /\ Len(Tail(list)) = 4
    BY <2>0, <2>1, HeadTailProperties DEF n
  <2>3. Pushed(list, s) = Append(Tail(list), s)
    BY <1>2 DEF n, Pushed, MonitorWindow
  <2>4. Append(Tail(list), s) \in Seq(Step) /\ Len(Append(Tail(list), s)) = Len(Tail(list)) + 1
    BY <2>2, AppendProperties
  <2> QED
    BY <2>2, <2>3, <2>4 DEF MonitorWindow
<1> QED
  BY <1>1, <1>2

----------------------------------------------------------------------------
(* Types.                                                                  *)

LEMMA StepTyped == NoStep \in Step /\ NoIntent.path = NoCall
  BY Zenon DEF NoStep, Step, NoIntent

Intents == [path : Calls \cup {NoCall}, seq : Nat,
            attempt : 0 .. MaxTransientAttempts, thisBoot : BOOLEAN]
Effects == [segment : Nat, seq : Nat, path : Calls \cup {NoCall}, ok : BOOLEAN]

Attempts == 0 .. MaxTransientAttempts

\* Records keep their type when a field takes a value of its own.
LEMMA IntentTyped ==
  ASSUME NEW i \in Intents
  PROVE  /\ \A k \in Attempts : [i EXCEPT !.attempt = k] \in Intents
         /\ \A k \in Attempts, b \in BOOLEAN :
              [i EXCEPT !.attempt = k, !.thisBoot = b] \in Intents
         /\ \A b \in BOOLEAN : [i EXCEPT !.thisBoot = b] \in Intents
         /\ \A p \in Calls, n \in Nat : [i EXCEPT !.path = p, !.seq = n] \in Intents
<1>1. \A k \in Attempts : [i EXCEPT !.attempt = k] \in Intents
  BY Zenon DEF Intents, Attempts
<1>2. \A k \in Attempts, b \in BOOLEAN : [i EXCEPT !.attempt = k, !.thisBoot = b] \in Intents
  BY Zenon DEF Intents, Attempts
<1>3. \A b \in BOOLEAN : [i EXCEPT !.thisBoot = b] \in Intents
  BY Zenon DEF Intents
<1>4. \A p \in Calls, n \in Nat : [i EXCEPT !.path = p, !.seq = n] \in Intents
  BY Zenon DEF Intents
<1> QED
  BY <1>1, <1>2, <1>3, <1>4

LEMMA OpenTyped ==
  ASSUME NEW o \in Open, NEW b \in BOOLEAN
  PROVE  [o EXCEPT !.value = b] \in Open /\ [o EXCEPT !.verified = b] \in Open
  BY Zenon DEF Open

LEMMA EffectTyped ==
  ASSUME NEW t \in Seq(Effects), NEW s \in Nat, NEW n \in Nat,
         NEW p \in Calls \cup {NoCall}, NEW b \in BOOLEAN
  PROVE  Append(t, [segment |-> s, seq |-> n, path |-> p, ok |-> b]) \in Seq(Effects)
<1>1. [segment |-> s, seq |-> n, path |-> p, ok |-> b] \in Effects
  BY Zenon DEF Effects
<1> QED
  BY <1>1, AppendProperties

LEMMA TypeStep ==
  ASSUME TypeOK, Placed, Next
  PROVE  TypeOK'
<1> USE DEF segmentVars, endVars, historyVars, budgetVars, monitorVars,
            foldVars, harvestVars, Positions, Ended, InternalFaults
<1>0. NoIntent \in Intents
  BY DEF NoIntent, Intents, MaxTransientAttempts
<1>1. CASE Recover
  BY <1>1 DEF TypeOK, Recover
<1>2. CASE GatherExhausted
  BY <1>2 DEF TypeOK, GatherExhausted, End
<1>3. CASE GatherClear
  BY <1>3 DEF TypeOK, GatherClear
<1>4. CASE Rollover
  <2>1. CASE overfull
    BY <1>4, <2>1 DEF TypeOK, Rollover, Fail
  <2>2. CASE ~overfull /\ (turns > Cut[1] \/ mutations > Cut[2])
    BY <1>4, <2>2 DEF TypeOK, Rollover, Fail
  <2>3. CASE Continue
    <3>1. Closed(kept, open) \in Seq(Calls) /\ Len(Closed(kept, open)) <= MaxKept
      BY ClosedTyped DEF TypeOK, Open
    <3>2. Cut \in (0 .. Turns) \X (0 .. Mutations)
      BY DEF Cut, TypeOK
    <3>3. <<>> \in Seq(Step) /\ Len(<<>>) = 0
      BY DEF Step
    <3> QED
      BY <1>0, <1>4, <2>3, <3>1, <3>2, <3>3, StepTyped
      DEF TypeOK, Rollover, Continue, ChildSegment, Intents, MaxRepairs, NoProgressLimit,
          MonitorWindow
  <2> QED
    BY <1>4, <2>1, <2>2, <2>3 DEF Rollover
<1>5. CASE Infer
  <2>1. CASE turns = 0
    BY <1>5, <2>1 DEF TypeOK, Infer, Fail
  <2>2. CASE turns # 0
    <3>1. PICK size \in PromptSizes : fill' = fill + size
      BY <1>5, <2>2 DEF Infer
    <3>2. size \in Nat
      BY RunAssumption
    <3>3. repairs \in Nat /\ repairs < MaxRepairs
      BY <1>5 DEF TypeOK, Placed, Infer, MaxRepairs
    <3>4. repairs' \in {repairs, repairs + 1} /\ sm' \in Positions
          /\ call' \in Calls \cup {call}
      BY <1>5, <2>2, Zenon DEF Infer, Decide
    <3>5. turns' = turns - 1 /\ frames' = frames + 1 /\ inferences' = inferences + 1
      BY <1>5, <2>2 DEF Infer
    <3>6. turns \in 1 .. Turns /\ Turns \in Nat
      BY <2>2, RunAssumption DEF TypeOK
    <3>7. turns' \in 0 .. Turns /\ repairs' \in 0 .. MaxRepairs
      BY <3>3, <3>4, <3>5, <3>6 DEF MaxRepairs
    <3>8. UNCHANGED <<intent, step, mutations, bound, monitorVars, foldVars, harvestVars,
                      segment, seq, context, endVars, resets, mutated, trail>>
      BY <1>5, <2>2 DEF Infer
    <3> QED
      BY <3>1, <3>2, <3>4, <3>5, <3>7, <3>8 DEF TypeOK
  <2> QED
    BY <2>1, <2>2
<1>6. CASE RepairAvailable
  BY <1>6 DEF TypeOK, RepairAvailable
<1>7. CASE RepairExhausted
  BY <1>7 DEF TypeOK, RepairExhausted, End
<1>8. CASE Refuse
  <2>1. \E s \in Ended : End(s)
    BY <1>8 DEF Refuse, Refusals
  <2> QED
    BY <1>8, <2>1 DEF TypeOK, Refuse, End
<1>9. CASE Authorize
  <2>0. call \in Calls /\ seq \in Nat
    BY <1>9 DEF TypeOK, Authorize, Placed
  <2>1. intent' \in Intents
    BY <1>0, <1>9, <2>0, IntentTyped, Zenon DEF Authorize
  <2>2. kept' \in Seq(Calls) /\ Len(kept') <= MaxKept
    <3>1. kept \in Seq(Calls) /\ Len(kept) <= MaxKept /\ open \in {<<>>} \cup Open
      BY DEF TypeOK, Open
    <3>2. kept' = Closed(kept, open)
      BY <1>9 DEF Authorize
    <3> QED
      BY <3>1, <3>2, ClosedTyped, Zenon
  <2>3. mutations' \in 0 .. Mutations
    <3>1. mutations \in 0 .. Mutations /\ Mutations \in Nat
      BY RunAssumption DEF TypeOK
    <3>2. mutations' = mutations - (IF call \in Writes THEN 1 ELSE 0)
          /\ ~(call \in Writes /\ mutations = 0)
      BY <1>9 DEF Authorize, MayDispatch, Spent
    <3> QED
      BY <3>1, <3>2
  <2>4. open' \in Open
    BY <1>9, <2>0, Zenon DEF Authorize, Open
  <2>5. sm' = "Observe" /\ call' = NoCall
        /\ seq' = seq + 1 /\ frames' = frames + 1 /\ mutated' \in {mutated, mutated + 1}
        /\ UNCHANGED <<step, repairs, turns, bound, fill, monitorVars, foldVars, segment,
                       context, endVars, resets, inferences, trail>>
    BY <1>9 DEF Authorize
  <2> QED
    BY <2>1, <2>2, <2>3, <2>4, <2>5 DEF TypeOK, Intents, Open
<1>10. CASE ObserveTransient
  <2>0. intent \in Intents
    BY DEF TypeOK, Intents
  <2>1. intent.attempt \in Attempts
    BY <2>0, Zenon DEF Intents, Attempts
  <2>2. ~LastAttempt => Attempted \in Attempts
    BY <2>1 DEF LastAttempt, Attempted, Attempts, MaxTransientAttempts
  <2>3. intent' \in {NoIntent, [intent EXCEPT !.attempt = Attempted]}
        /\ (LastAttempt => intent' = NoIntent)
    BY <1>10 DEF ObserveTransient
  <2>4. intent' = NoIntent \/ (~LastAttempt /\ intent' = [intent EXCEPT !.attempt = Attempted])
    BY <2>3
  <2>5. intent' \in Intents
    BY <1>0, <2>0, <2>2, <2>4, IntentTyped, Zenon
  <2>6. sm' \in Positions /\ status' \in Ended \cup {"none"} /\ fault' = fault
    BY <1>10 DEF ObserveTransient, End, TypeOK
  <2>7. /\ frames' = frames + 1
        /\ UNCHANGED <<call, step, repairs, budgetVars, fill, monitorVars, foldVars,
                       harvestVars, segment, seq, context, resets, historyVars>>
    BY <1>10 DEF ObserveTransient
  <2> QED
    BY <2>5, <2>6, <2>7 DEF TypeOK, Intents
<1>11. CASE Observe
  <2>0. intent \in Intents /\ open \in Open /\ trail \in Seq(Effects) /\ intent.path \in Calls
    BY <1>11 DEF TypeOK, Placed, Observe, Intents, Open, Effects
  <2>1. intent.attempt \in Attempts /\ intent.seq \in Nat
    BY <2>0, Zenon DEF Intents, Attempts
  <2>2. intent.attempt < MaxTransientAttempts
    BY <1>11 DEF Placed, Observe
  <2>3. Attempted \in Attempts
    BY <2>1, <2>2 DEF Attempted, Attempts, MaxTransientAttempts
  <2>4. intent' \in Intents
    <3>1. intent' \in {NoIntent, [intent EXCEPT !.attempt = Attempted, !.thisBoot = TRUE]}
      BY <1>11 DEF Observe
    <3> QED
      BY <1>0, <2>0, <2>3, <3>1, IntentTyped, Zenon
  <2>5. open' \in Open
    BY <1>11, <2>0, OpenTyped, Zenon DEF Observe
  <2>6. step' \in Step /\ trail' \in Seq(Effects)
    <3>1. CASE intent.path \in Writes
      BY <1>11, <2>0, <3>1 DEF TypeOK, Observe
    <3>2. CASE intent.path \notin Writes
      <4>1. Complete(intent.path, TRUE)
        BY <1>11, <3>2 DEF Observe
      <4>2. step' \in Step
        BY <2>0, <4>1, Zenon DEF Complete, Step
      <4>3. segment \in Nat
        BY DEF TypeOK
      <4> QED
        BY <2>0, <2>1, <4>1, <4>2, <4>3, EffectTyped, Zenon DEF Complete
    <3> QED
      BY <3>1, <3>2
  <2>7. sm' \in {"Verify", "Account"} /\ frames' = frames + 1
        /\ UNCHANGED <<call, repairs, budgetVars, fill, monitorVars, foldVars, kept, segment,
                       seq, context, endVars, resets, inferences, mutated>>
    BY <1>11 DEF Observe, Complete
  <2> QED
    BY <2>4, <2>5, <2>6, <2>7 DEF TypeOK, Intents, Open, Effects
<1>12. CASE Verify
  <2>0. intent \in Intents /\ open \in Open /\ trail \in Seq(Effects)
        /\ intent.path \in Calls /\ intent.path \in Writes
    BY <1>12 DEF TypeOK, Placed, Verify, Intents, Open, Effects
  <2>1. PICK passed \in BOOLEAN :
          /\ open' = [open EXCEPT !.verified = passed]
          /\ IF passed THEN UNCHANGED <<failed, overfull>> ELSE Records(intent.path)
          /\ Complete(intent.path, passed)
    BY <1>12 DEF Verify, ReadBack
  <2>2. open' \in Open
    BY <2>0, <2>1, OpenTyped, Zenon
  <2>3. step' \in Step
    BY <2>0, <2>1, Zenon DEF Complete, Step
  <2>4. trail' \in Seq(Effects)
    <3>1. intent.seq \in Nat /\ segment \in Nat
      BY <2>0 DEF TypeOK, Intents
    <3> QED
      BY <2>0, <2>1, <3>1, EffectTyped, Zenon DEF Complete
  <2>5. failed' \subseteq Writes /\ overfull' \in BOOLEAN
    <3>1. failed \subseteq Writes /\ overfull \in BOOLEAN
      BY DEF TypeOK
    <3> QED
      BY <2>0, <2>1, <3>1 DEF Records
  <2>6. sm' = "Account" /\ frames' = frames + 1
        /\ UNCHANGED <<call, intent, repairs, budgetVars, fill, monitorVars, ruledOut, kept,
                       segment, seq, context, endVars, resets, inferences, mutated>>
    BY <1>12, <2>1 DEF Verify, Complete
  <2> QED
    BY <2>2, <2>3, <2>4, <2>5, <2>6 DEF TypeOK, Open, Effects
<1>13. CASE Account
  <2>1. window' \in Seq(Step) /\ Len(window') <= MonitorWindow
    BY <1>13, PushedTyped DEF TypeOK, Account
  <2>2. streak' \in 0 .. NoProgressLimit
    BY <1>13 DEF TypeOK, Placed, Account, NoProgressLimit
  <2> QED
    BY <1>0, <1>13, <2>1, <2>2, StepTyped DEF TypeOK, Account, Verdict, End, Intents
<1>14. CASE Finalize
  BY <1>14 DEF TypeOK, Finalize, End
<1>15. CASE AwaitInput
  <2>1. trail' \in Seq(Effects)
    BY <1>15 DEF TypeOK, AwaitInput, Effects
  <2> QED
    BY <1>15, <2>1, StepTyped DEF TypeOK, AwaitInput, Effects
<1>16. CASE DeviceFails
  BY <1>16 DEF TypeOK, DeviceFails, Fail
<1>17. CASE Reset
  <2>0. intent \in Intents
    BY DEF TypeOK, Intents
  <2>1. intent' \in Intents
    BY <1>17, <2>0, IntentTyped, Zenon DEF Reset
  <2>2. resets' \in 0 .. MaxResets
    <3>1. resets \in 0 .. MaxResets /\ MaxResets \in Nat
      BY RunAssumption DEF TypeOK
    <3>2. resets' = resets + 1 /\ resets < MaxResets
      BY <1>17 DEF Reset
    <3> QED
      BY <3>1, <3>2
  <2>3. UNCHANGED <<sm, call, step, repairs, budgetVars, fill, monitorVars, foldVars,
                    harvestVars, segment, frames, seq, context, endVars, historyVars>>
    BY <1>17 DEF Reset
  <2> QED
    BY <2>1, <2>2, <2>3 DEF TypeOK, Intents
<1> QED
  BY <1>1, <1>2, <1>3, <1>4, <1>5, <1>6, <1>7, <1>8, <1>9, <1>10, <1>11, <1>12, <1>13,
     <1>14, <1>15, <1>16, <1>17 DEF Next, Progress

----------------------------------------------------------------------------
(* The positions.                                                          *)

LEMMA PlacedStep ==
  ASSUME TypeOK, TypeOK', Placed, Next
  PROVE  Placed'
<1> USE DEF segmentVars, endVars, historyVars, budgetVars, monitorVars,
            foldVars, harvestVars, MaxRepairs, MaxTransientAttempts, NoProgressLimit
<1>0. turns \in Nat /\ mutations \in Nat /\ seq \in Nat /\ intent \in Intents
  <2>1. turns \in 0 .. Turns /\ mutations \in 0 .. Mutations /\ seq \in Nat
    BY DEF TypeOK
  <2>2. intent \in Intents
    BY DEF TypeOK, Intents
  <2> QED
    BY <2>1, <2>2
<1>1. CASE Recover
  BY <1>1 DEF Placed, Recover
<1>2. CASE GatherExhausted
  BY <1>2 DEF Placed, GatherExhausted, End
<1>3. CASE GatherClear
  <2>1. turns > 0
    BY <1>0, <1>3 DEF GatherClear, OutOfBudget, Exhausted
  <2>2. sm = "Gather" /\ sm' = "Infer" /\ UNCHANGED <<turns, repairs, streak>>
    BY <1>3 DEF GatherClear
  <2> QED
    BY <2>1, <2>2 DEF Placed
<1>4. CASE Rollover
  <2>1. CASE sm' = "End"
    BY <2>1 DEF Placed
  <2>2. CASE Continue
    BY <2>2 DEF Placed, Continue
  <2> QED
    BY <1>4, <2>1, <2>2 DEF Rollover, Fail
<1>5. CASE Infer
  <2>1. CASE sm' = "End"
    BY <2>1 DEF Placed
  <2>2. CASE turns # 0
    <3>1. repairs < 3 /\ streak < 5
      BY <1>5 DEF Placed, Infer
    <3>2. Decide /\ UNCHANGED streak
      BY <1>5, <2>2 DEF Infer
    <3> QED
      BY <3>1, <3>2, Zenon DEF Placed, Decide
  <2> QED
    BY <1>5, <2>1, <2>2 DEF Infer, Fail
<1>6. CASE RepairAvailable
  BY <1>6 DEF Placed, RepairAvailable
<1>7. CASE RepairExhausted
  BY <1>7 DEF Placed, RepairExhausted, End
<1>8. CASE Refuse
  BY <1>8 DEF Placed, Refuse, End
<1>9. CASE Authorize
  <2>1. call \in Calls
    BY <1>9 DEF Placed, Authorize
  <2>2. intent' = [path |-> call, seq |-> seq, attempt |-> 0, thisBoot |-> FALSE]
    BY <1>9 DEF Authorize, NoIntent
  <2>3. intent'.path = call /\ intent'.seq = seq /\ intent'.attempt = 0
    BY <2>2
  <2>4. open' \in Open
    BY <1>9, <2>1, Zenon DEF Authorize, Open
  <2>5. sm' = "Observe" /\ seq' = seq + 1 /\ UNCHANGED <<repairs, streak>>
        /\ repairs < 3 /\ streak < 5
    BY <1>9 DEF Placed, Authorize
  <2> QED
    BY <1>0, <2>1, <2>3, <2>4, <2>5 DEF Placed
<1>10. CASE ObserveTransient
  <2>1. CASE sm' = "End"
    BY <2>1 DEF Placed
  <2>2. CASE ~LastAttempt
    <3>1. intent' = [intent EXCEPT !.attempt = Attempted] /\ sm = "Observe"
          /\ UNCHANGED <<sm, call, repairs, turns, fill, streak, open, seq>>
      BY <1>10, <2>2 DEF ObserveTransient
    <3>2. intent'.path = intent.path /\ intent'.seq = intent.seq
          /\ intent'.attempt = Attempted
      BY <1>0, <3>1 DEF Intents
    <3>3. intent.attempt \in Nat
      BY <1>0 DEF Intents
    <3>4. Attempted < 3
      BY <2>2, <3>3 DEF LastAttempt, Attempted
    <3> QED
      BY <3>1, <3>2, <3>4 DEF Placed
  <2> QED
    BY <1>10, <2>1, <2>2 DEF ObserveTransient, End
<1>11. CASE Observe
  <2>1. CASE sm' = "Account"
    BY <1>11, <2>1 DEF Placed, Observe
  <2>2. CASE intent.path \in Writes
    <3>1. intent' = [intent EXCEPT !.attempt = Attempted, !.thisBoot = TRUE]
          /\ sm = "Observe" /\ sm' = "Verify"
          /\ UNCHANGED <<repairs, turns, fill, streak, seq>>
      BY <1>11, <2>2 DEF Observe
    <3>2. intent'.path = intent.path /\ intent'.seq = intent.seq
      BY <1>0, <3>1 DEF Intents
    <3>3. open' \in Open
      BY <1>11, <3>1, OpenTyped, Zenon DEF Placed, Observe
    <3> QED
      BY <2>2, <3>1, <3>2, <3>3 DEF Placed
  <2> QED
    BY <1>11, <2>1, <2>2 DEF Observe, Complete
<1>12. CASE Verify
  BY <1>12 DEF Placed, Verify, Complete
<1>13. CASE Account
  <2>1. CASE sm' = "End"
    BY <2>1 DEF Placed
  <2>2. CASE Verdict = "Continue"
    <3>1. ~(streak' >= 5)
      BY <2>2 DEF Verdict
    <3>2. streak' \in Nat
      <4>1. streak' \in 0 .. 5
        BY DEF TypeOK
      <4> QED
        BY <4>1
    <3>3. sm = "Account" /\ sm' = "Gather" /\ UNCHANGED repairs
      BY <1>13, <2>2 DEF Account
    <3> QED
      BY <3>1, <3>2, <3>3 DEF Placed
  <2> QED
    BY <1>13, <2>1, <2>2 DEF Account, End
<1>14. CASE Finalize
  BY <1>14 DEF Placed, Finalize, End
<1>15. CASE AwaitInput
  BY <1>15 DEF Placed, AwaitInput
<1>16. CASE DeviceFails
  BY <1>16 DEF Placed, DeviceFails, Fail
<1>17. CASE Reset
  <2>1. intent'.path = intent.path /\ intent'.seq = intent.seq
        /\ intent'.attempt = intent.attempt
    BY <1>0, <1>17 DEF Reset, Intents
  <2> QED
    BY <1>17, <2>1 DEF Placed, Reset
<1> QED
  BY <1>1, <1>2, <1>3, <1>4, <1>5, <1>6, <1>7, <1>8, <1>9, <1>10, <1>11, <1>12, <1>13,
     <1>14, <1>15, <1>16, <1>17 DEF Next, Progress

----------------------------------------------------------------------------
(* The budgets.                                                            *)

LEMMA BudgetStep ==
  ASSUME TypeOK, Placed, SpendsItsGrant, NeverFaultsItself, Narrows, Next
  PROVE  SpendsItsGrant' /\ NeverFaultsItself' /\ Narrows'
<1> USE DEF segmentVars, endVars, historyVars, budgetVars, monitorVars,
            foldVars, harvestVars, InternalFaults
<1>0. /\ turns \in Nat /\ mutations \in Nat /\ inferences \in Nat /\ mutated \in Nat
      /\ Turns \in Nat /\ Mutations \in Nat
  <2>1. turns \in 0 .. Turns /\ mutations \in 0 .. Mutations /\ inferences \in Nat
        /\ mutated \in Nat
    BY DEF TypeOK
  <2> QED
    BY <2>1, RunAssumption
<1>1. bound # <<>> => bound[1] \in Nat /\ bound[2] \in Nat
  BY DEF TypeOK
<1>2. CASE UNCHANGED <<turns, mutations, bound, inferences, mutated>>
           /\ fault' \in {fault, "Device", "CompactStateFull"}
  BY <1>2 DEF SpendsItsGrant, NeverFaultsItself, Narrows
<1>3. CASE Rollover
  <2>1. ~(turns > Cut[1] \/ mutations > Cut[2])
    BY <1>0, <1>1 DEF Cut, Narrows
  <2>2. CASE overfull
    BY <1>2, <1>3, <2>2 DEF Rollover, Fail
  <2>3. CASE Continue
    <3>1. SpendsItsGrant' /\ NeverFaultsItself'
      BY <1>3, <2>3 DEF SpendsItsGrant, NeverFaultsItself, Rollover, Continue
    <3>2. bound' = Cut /\ UNCHANGED <<turns, mutations>>
      BY <2>3 DEF Continue
    <3>3. turns <= Cut[1] /\ mutations <= Cut[2]
      BY <1>0, <1>1, <2>1 DEF Cut
    <3> QED
      BY <3>1, <3>2, <3>3 DEF Narrows
  <2> QED
    BY <1>3, <2>1, <2>2, <2>3 DEF Rollover
<1>4. CASE Infer
  <2>1. turns > 0
    BY <1>4 DEF Placed, Infer
  <2>2. turns' = turns - 1 /\ inferences' = inferences + 1
        /\ UNCHANGED <<mutations, bound, mutated, fault>>
    BY <1>0, <1>4, <2>1 DEF Infer
  <2> QED
    BY <1>0, <1>1, <2>1, <2>2 DEF SpendsItsGrant, NeverFaultsItself, Narrows
<1>5. CASE Authorize
  <2>1. mutations' = mutations - Spent(call) /\ UNCHANGED <<turns, bound, inferences, fault>>
        /\ mutated' = mutated + Spent(call)
    BY <1>0, <1>5 DEF Authorize, Spent
  <2>2. Spent(call) \in {0, 1}
    BY DEF Spent
  <2> QED
    BY <1>0, <1>1, <2>1, <2>2 DEF SpendsItsGrant, NeverFaultsItself, Narrows
<1>6. CASE Recover \/ GatherExhausted \/ GatherClear \/ RepairAvailable \/ RepairExhausted
  BY <1>2, <1>6 DEF Recover, GatherExhausted, GatherClear, RepairAvailable, RepairExhausted, End
<1>7. CASE Refuse \/ ObserveTransient \/ Observe \/ Verify \/ AwaitInput
  BY <1>2, <1>7 DEF Refuse, ObserveTransient, Observe, Verify, AwaitInput, End
<1>8. CASE Account \/ Finalize \/ DeviceFails \/ Reset
  BY <1>2, <1>8 DEF Account, Finalize, DeviceFails, Reset, End, Fail
<1> QED
  BY <1>3, <1>4, <1>5, <1>6, <1>7, <1>8 DEF Next, Progress

----------------------------------------------------------------------------
(* The ids.                                                                *)

\* What an action adds to the frames may come out of the room.
LEMMA Slack ==
  \A s, f, r, n, t, g, q, m \in Nat :
    (s + f + r <= 7 * n + 1 /\ n <= m /\ t + g + q <= s + f + r) => t + g + q <= 7 * m + 1
  OBVIOUS

LEMMA FramesStep ==
  ASSUME TypeOK, TypeOK', Placed, FramesFit, Next
  PROVE  FramesFit'
<1> USE DEF segmentVars, endVars, historyVars, budgetVars, monitorVars,
            foldVars, harvestVars, MaxTransientAttempts
<1>0. segment \in Nat /\ frames \in Nat /\ inferences \in Nat /\ fill \in Nat /\ fill' \in Nat
      /\ intent \in Intents
  BY DEF TypeOK, Intents
<1>1. intent.attempt \in 0 .. 3
  BY <1>0, Zenon DEF Intents
<1>2. Room \in Nat
  BY <1>1 DEF Room
<1>3. CASE sm' = "End" /\ segment' + frames' <= segment + frames + Room
           /\ inferences' \in {inferences, inferences + 1}
           /\ segment' \in Nat /\ frames' \in Nat
  <2>1. Room' = 0
    BY <1>3 DEF Room
  <2>2. segment + frames + Room <= 7 * inferences + 1
    BY DEF FramesFit
  <2>3. inferences' \in Nat /\ inferences <= inferences'
    BY <1>0, <1>3
  <2>4. segment' + frames' + Room' <= segment + frames + Room
    BY <1>3, <2>1
  <2>5. segment' + frames' + Room' <= 7 * inferences' + 1
    BY <1>0, <1>2, <1>3, <2>1, <2>2, <2>3, <2>4, Slack
  <2> QED
    BY <1>3, <2>5 DEF FramesFit
<1>4. CASE Recover \/ GatherClear \/ GatherExhausted
  BY <1>0, <1>2, <1>4 DEF FramesFit, Room, Placed, Recover, GatherClear, GatherExhausted, End
<1>5. CASE Rollover
  <2>1. CASE Continue
    <3>1. fill > 0 /\ sm = "Gather"
      <4>1. fill * 100 >= context * 80 /\ context # 0
        BY <1>5 DEF Rollover, Full, OutOfBudget, TriggerPct
      <4> QED
        BY <1>0, <1>5, <4>1, RunAssumption DEF Rollover, TypeOK
    <3>2. segment + frames <= 7 * inferences
      BY <3>1 DEF FramesFit
    <3>3. segment' = segment + (frames - 1) + 1 /\ frames' = 1 /\ sm' = "Recover"
          /\ UNCHANGED inferences
      BY <1>5, <2>1 DEF Rollover, Continue, ChildSegment
    <3> QED
      BY <1>0, <3>2, <3>3 DEF FramesFit, Room
  <2>2. CASE sm' = "End" /\ UNCHANGED <<segment, frames, inferences>>
    BY <1>0, <1>2, <1>3, <2>2
  <2> QED
    BY <1>5, <2>1, <2>2 DEF Rollover, Fail
<1>6. CASE Infer
  <2>1. CASE turns = 0
    <3>1. sm' = "End" /\ UNCHANGED <<segment, frames>> /\ inferences' = inferences + 1
      BY <1>6, <2>1 DEF Infer, Fail
    <3> QED
      BY <1>0, <1>2, <1>3, <3>1
  <2>2. CASE turns # 0
    <3>1. frames' = frames + 1 /\ inferences' = inferences + 1 /\ UNCHANGED segment
          /\ sm' \in {"Authorize", "AwaitInput", "Finalize", "Repair"}
      BY <1>6, <2>2, Zenon DEF Infer, Decide
    <3>2. Room' = 6
      BY <3>1 DEF Room
    <3> QED
      BY <1>0, <1>2, <3>1, <3>2 DEF FramesFit
  <2> QED
    BY <2>1, <2>2
<1>7. CASE RepairAvailable \/ RepairExhausted \/ Refuse \/ Finalize
  BY <1>0, <1>2, <1>7 DEF FramesFit, Room, RepairAvailable, RepairExhausted, Refuse, Finalize, End
<1>8. CASE Authorize
  <2>1. frames' = frames + 1 /\ sm' = "Observe" /\ sm = "Authorize"
        /\ UNCHANGED <<segment, inferences>> /\ intent'.attempt = 0
    BY <1>8 DEF Authorize, NoIntent
  <2>2. Room = 6 /\ Room' = 5
    BY <2>1 DEF Room
  <2> QED
    BY <1>0, <2>1, <2>2 DEF FramesFit
<1>9. CASE ObserveTransient
  <2>0. Room = 5 - intent.attempt /\ intent.attempt < 3
    BY <1>9 DEF ObserveTransient, Room, Placed
  <2>1. frames' = frames + 1 /\ UNCHANGED <<segment, inferences>>
    BY <1>9 DEF ObserveTransient
  <2>2. CASE sm' = "End"
    BY <1>0, <1>1, <1>2, <1>3, <2>0, <2>1, <2>2
  <2>3. CASE intent' = [intent EXCEPT !.attempt = Attempted] /\ sm' = "Observe"
    <3>1. intent'.attempt = intent.attempt + 1
      BY <1>0, <2>3 DEF Attempted, Intents
    <3>2. Room' = 5 - intent'.attempt
      BY <2>3 DEF Room
    <3> QED
      BY <1>0, <1>1, <2>0, <2>1, <2>3, <3>1, <3>2 DEF FramesFit
  <2> QED
    BY <1>9, <2>2, <2>3 DEF ObserveTransient, End
<1>10. CASE Observe
  <2>0. Room = 5 - intent.attempt /\ intent.attempt < 3
    BY <1>10 DEF Observe, Room, Placed
  <2>1. frames' = frames + 1 /\ UNCHANGED <<segment, inferences>> /\ sm' \in {"Verify", "Account"}
    BY <1>10 DEF Observe, Complete
  <2>2. Room' \in {1, 2}
    BY <2>1 DEF Room
  <2>3. segment + frames + Room <= 7 * inferences + 1
    BY DEF FramesFit
  <2>4. Room' + 1 <= Room
    <3>1. intent.attempt \in {0, 1, 2}
      BY <1>1, <2>0
    <3>2. Room \in {3, 4, 5}
      BY <2>0, <3>1
    <3> HIDE DEF Room
    <3>3. \A q \in {1, 2}, r \in {3, 4, 5} : q + 1 <= r
      OBVIOUS
    <3> QED
      BY <2>2, <3>2, <3>3, Zenon
  <2>5. segment' + frames' + Room' <= segment + frames + Room
    <3>1. \A s, f, r, q \in Nat : q + 1 <= r => s + (f + 1) + q <= s + f + r
      OBVIOUS
    <3>2. Room' \in Nat
      BY <2>2
    <3>3. segment + (frames + 1) + Room' <= segment + frames + Room
      BY <1>0, <1>2, <2>4, <3>1, <3>2
    <3> QED
      BY <2>1, <3>3
  <2>6. segment' \in Nat /\ frames' \in Nat /\ Room' \in Nat /\ inferences' \in Nat
        /\ inferences <= inferences'
    BY <1>0, <2>1, <2>2
  <2>7. segment' + frames' + Room' <= 7 * inferences' + 1
    BY <1>0, <1>2, <2>3, <2>5, <2>6, Slack
  <2> QED
    BY <2>1, <2>7 DEF FramesFit
<1>11. CASE Verify
  BY <1>0, <1>11 DEF FramesFit, Room, Verify, Complete
<1>12. CASE AwaitInput
  BY <1>0, <1>12 DEF FramesFit, Room, AwaitInput
<1>13. CASE Account
  <2>1. sm = "Account" /\ sm' \in {"Gather", "End"} /\ UNCHANGED <<segment, frames, inferences, fill>>
    BY <1>13 DEF Account, End
  <2>2. Room = 1 /\ Room' = 0
    BY <2>1 DEF Room
  <2> QED
    BY <1>0, <2>1, <2>2 DEF FramesFit
<1>14. CASE DeviceFails
  <2>1. sm' = "End" /\ UNCHANGED <<segment, frames, inferences>>
    BY <1>14 DEF DeviceFails, Fail
  <2> QED
    BY <1>0, <1>2, <1>3, <2>1
<1>15. CASE Reset
  <2>1. intent'.attempt = intent.attempt
    BY <1>0, <1>15 DEF Reset, Intents
  <2>2. UNCHANGED <<sm, segment, frames, inferences, fill>>
    BY <1>15 DEF Reset
  <2>3. UNCHANGED Room
    BY <2>1, <2>2 DEF Room
  <2> QED
    BY <2>2, <2>3 DEF FramesFit
<1> QED
  BY <1>4, <1>5, <1>6, <1>7, <1>8, <1>9, <1>10, <1>11, <1>12, <1>13, <1>14, <1>15
  DEF Next, Progress

----------------------------------------------------------------------------
(* The trail.                                                              *)

\* A longer trail: what was there, and the new step.
LEMMA Grows ==
  ASSUME NEW t \in Seq(Effects), NEW e \in Effects, NEW u, u = Append(t, e)
  PROVE  /\ Len(t) \in Nat /\ Len(u) = Len(t) + 1
         /\ u[Len(t) + 1] = e
         /\ \A i \in 1 .. Len(t) : u[i] = t[i]
  BY AppendProperties, LenProperties

\* What the trail's invariants say of one more step.
LEMMA EffectStep ==
  ASSUME TypeOK, Placed, EffectsPassed, EffectNamesOneCall, FailuresFolded,
         RuledOutStaysRuledOut,
         sm \in {"Observe", "Verify"}, UNCHANGED <<segment, seq>>,
         sm' = "Account", NEW passed \in BOOLEAN,
         trail' = Append(trail, [segment |-> segment, seq |-> intent.seq,
                                 path |-> intent.path, ok |-> passed])
  PROVE  EffectsPassed' /\ EffectNamesOneCall' /\ RuledOutStaysRuledOut'
<1> DEFINE e == [segment |-> segment, seq |-> intent.seq, path |-> intent.path, ok |-> passed]
           n == Len(trail) + 1
<1>0. intent.path \in Calls /\ intent.seq < seq /\ intent.seq \in Nat /\ segment \in Nat
      /\ seq \in Nat /\ intent.path # NoCall
  BY RunAssumption DEF TypeOK, Placed
<1>1. trail \in Seq(Effects) /\ e \in Effects
  <2>1. e \in Effects
    BY <1>0, Zenon DEF Effects
  <2> QED
    BY <2>1 DEF TypeOK, Effects
<1>2. /\ Len(trail) \in Nat /\ Len(trail') = n
      /\ trail'[n] = e
      /\ \A i \in 1 .. Len(trail) : trail'[i] = trail[i]
  BY <1>1, Grows
<1>3. e.segment = segment /\ e.seq = intent.seq /\ e.path = intent.path /\ e.ok = passed
  OBVIOUS
<1>4. \A i \in 1 .. Len(trail) :
        trail[i].segment \in Nat /\ trail[i].seq \in Nat
  <2>1. \A i \in 1 .. Len(trail) : trail[i] \in Effects
    BY <1>1, ElementOfSeq
  <2>2. \A x \in Effects : x.segment \in Nat /\ x.seq \in Nat
    BY Zenon DEF Effects
  <2> QED
    BY <2>1, <2>2, Zenon
<1> HIDE DEF e
<1>5. \A i \in 1 .. Len(trail) :
        /\ trail[i].segment <= segment
        /\ (trail[i].path # NoCall /\ trail[i].segment = segment) => trail[i].seq < intent.seq
  BY DEF EffectsPassed, NextEffect
<1>6. NextEffect' = seq
  BY DEF NextEffect
<1>7. \A i \in 1 .. Len(trail') : i \in 1 .. Len(trail) \/ i = n
  BY <1>2
<1>8. EffectsPassed'
  <2> SUFFICES ASSUME NEW i \in 1 .. Len(trail')
               PROVE  /\ trail'[i].segment <= segment
                      /\ (trail'[i].path # NoCall /\ trail'[i].segment = segment)
                           => trail'[i].seq < seq
    BY <1>6 DEF EffectsPassed
  <2>1. CASE i = n
    BY <1>0, <1>2, <1>3, <2>1
  <2>2. CASE i \in 1 .. Len(trail)
    BY <1>0, <1>2, <1>4, <1>5, <2>2
  <2> QED
    BY <1>7, <2>1, <2>2
<1>9. EffectNamesOneCall'
  <2> SUFFICES ASSUME NEW i \in 1 .. Len(trail'), NEW j \in 1 .. Len(trail'), i # j,
                      trail'[i].path # NoCall, trail'[j].path # NoCall
               PROVE  <<trail'[i].segment, trail'[i].seq>> # <<trail'[j].segment, trail'[j].seq>>
    BY DEF EffectNamesOneCall
  <2>1. CASE i \in 1 .. Len(trail) /\ j \in 1 .. Len(trail)
    BY <1>2, <2>1 DEF EffectNamesOneCall
  <2>2. CASE i = n /\ j \in 1 .. Len(trail)
    BY <1>0, <1>2, <1>3, <1>4, <1>5, <2>2
  <2>3. CASE j = n /\ i \in 1 .. Len(trail)
    BY <1>0, <1>2, <1>3, <1>4, <1>5, <2>3
  <2> QED
    BY <1>7, <2>1, <2>2, <2>3
<1>10. RuledOutStaysRuledOut'
  <2> SUFFICES ASSUME NEW i \in 1 .. Len(trail'), NEW j \in 1 .. Len(trail'), i < j,
                      ~trail'[i].ok, trail'[i].segment # trail'[j].segment
               PROVE  trail'[j].path # trail'[i].path
    BY DEF RuledOutStaysRuledOut
  <2>0. i \in 1 .. Len(trail)
    BY <1>2
  <2>1. CASE j \in 1 .. Len(trail)
    BY <1>2, <2>0, <2>1 DEF RuledOutStaysRuledOut
  <2>2. CASE j = n
    <3>1. trail[i].path \in ruledOut
      BY <1>2, <1>3, <2>0, <2>2 DEF FailuresFolded
    <3>2. intent.path \notin ruledOut
      BY DEF FailuresFolded
    <3> QED
      BY <1>2, <1>3, <2>0, <2>2, <3>1, <3>2
  <2> QED
    BY <1>7, <2>1, <2>2
<1> QED
  BY <1>8, <1>9, <1>10

\* A step that leaves the trail alone keeps its invariants.
LEMMA QuietStep ==
  ASSUME TypeOK, Placed, EffectsPassed, EffectNamesOneCall, RuledOutStaysRuledOut,
         UNCHANGED <<trail, segment>>, NextEffect' >= NextEffect, NextEffect' \in Nat
  PROVE  EffectsPassed' /\ EffectNamesOneCall' /\ RuledOutStaysRuledOut'
<1>1. EffectNamesOneCall' /\ RuledOutStaysRuledOut'
  BY DEF EffectNamesOneCall, RuledOutStaysRuledOut
<1>2. \A i \in 1 .. Len(trail) : trail[i].seq \in Nat
  <2>1. \A i \in 1 .. Len(trail) : trail[i] \in Effects
    BY ElementOfSeq DEF TypeOK, Effects
  <2>2. \A x \in Effects : x.seq \in Nat
    BY Zenon DEF Effects
  <2> QED
    BY <2>1, <2>2, Zenon
<1>3. NextEffect \in Nat
  BY DEF TypeOK, NextEffect
<1>4. EffectsPassed'
  <2> SUFFICES ASSUME NEW i \in 1 .. Len(trail)
               PROVE  /\ trail[i].segment <= segment
                      /\ (trail[i].path # NoCall /\ trail[i].segment = segment)
                           => trail[i].seq < NextEffect'
    BY DEF EffectsPassed
  <2>1. /\ trail[i].segment <= segment
        /\ (trail[i].path # NoCall /\ trail[i].segment = segment) => trail[i].seq < NextEffect
    BY DEF EffectsPassed
  <2>2. \A a, b, c \in Nat : a < b /\ b <= c => a < c
    OBVIOUS
  <2> QED
    BY <1>2, <1>3, <2>1, <2>2
<1> QED
  BY <1>1, <1>4

LEMMA TrailStep ==
  ASSUME TypeOK, TypeOK', Placed, EffectsPassed, EffectNamesOneCall, FailuresFolded,
         RuledOutStaysRuledOut, Next
  PROVE  EffectsPassed' /\ EffectNamesOneCall' /\ RuledOutStaysRuledOut'
<1> USE DEF segmentVars, endVars, historyVars, budgetVars, monitorVars,
            foldVars, harvestVars
<1>0. seq \in Nat /\ seq' \in Nat /\ segment \in Nat /\ frames \in Nat \ {0}
      /\ intent \in Intents
  BY DEF TypeOK, Intents
<1>1. intent.seq \in Nat
  BY <1>0, Zenon DEF Intents
<1>2. NextEffect \in Nat /\ NextEffect <= seq
  BY <1>0, <1>1 DEF NextEffect, Placed
<1>3. CASE UNCHANGED <<trail, segment, seq>> /\ sm' \notin {"Observe", "Verify"}
  <2>1. NextEffect' = seq
    BY <1>3 DEF NextEffect
  <2> QED
    BY <1>0, <1>2, <1>3, <2>1, QuietStep
<1>4. CASE UNCHANGED <<trail, segment, seq>> /\ intent'.seq = intent.seq
           /\ sm \in {"Observe", "Verify"} /\ sm' \in {"Observe", "Verify"}
  <2>1. NextEffect' = NextEffect
    BY <1>4 DEF NextEffect
  <2> QED
    BY <1>2, <1>4, <2>1, QuietStep
<1>5. CASE Rollover
  <2>1. CASE Continue
    <3>1. UNCHANGED trail /\ segment' > segment /\ segment' \in Nat
      BY <1>0, <1>5, <2>1 DEF Rollover, Continue, ChildSegment
    <3>2. EffectNamesOneCall' /\ RuledOutStaysRuledOut'
      BY <3>1 DEF EffectNamesOneCall, RuledOutStaysRuledOut
    <3>3. \A i \in 1 .. Len(trail) : trail[i].segment \in Nat /\ trail[i].segment <= segment
      <4>1. \A i \in 1 .. Len(trail) : trail[i] \in Effects
        BY ElementOfSeq DEF TypeOK, Effects
      <4>2. \A x \in Effects : x.segment \in Nat
        BY Zenon DEF Effects
      <4> QED
        BY <4>1, <4>2, Zenon DEF EffectsPassed
    <3>4. \A i \in 1 .. Len(trail) : trail[i].segment < segment'
      <4>1. \A a, b, c \in Nat : a <= b /\ b < c => a < c
        OBVIOUS
      <4> QED
        BY <1>0, <3>1, <3>3, <4>1
    <3>5. EffectsPassed'
      <4>1. \A a, b \in Nat : a < b => a <= b /\ a # b
        OBVIOUS
      <4> QED
        BY <3>1, <3>3, <3>4, <4>1 DEF EffectsPassed
    <3> QED
      BY <3>2, <3>5
  <2>2. CASE UNCHANGED segmentVars /\ sm' = "End"
    BY <1>3, <1>5, <2>2 DEF Rollover
  <2> QED
    BY <1>5, <2>1, <2>2 DEF Rollover, Fail
<1>6. CASE Recover \/ GatherExhausted \/ GatherClear \/ RepairAvailable \/ RepairExhausted
  BY <1>3, <1>6 DEF Recover, GatherExhausted, GatherClear, RepairAvailable, RepairExhausted, End
<1>7. CASE Infer
  <2>1. UNCHANGED <<trail, segment, seq>> /\ sm' \notin {"Observe", "Verify"}
    BY <1>7, Zenon DEF Infer, Decide, Fail
  <2> QED
    BY <1>3, <2>1
<1>8. CASE Refuse \/ Account \/ Finalize \/ DeviceFails
  BY <1>3, <1>8 DEF Refuse, Account, Finalize, DeviceFails, End, Fail
<1>9. CASE Authorize
  <2>1. sm = "Authorize" /\ sm' = "Observe" /\ intent' = [NoIntent EXCEPT !.path = call, !.seq = seq]
        /\ UNCHANGED <<trail, segment>>
    BY <1>9 DEF Authorize
  <2>2. intent'.seq = seq
    BY <2>1 DEF NoIntent
  <2>3. NextEffect = seq /\ NextEffect' = seq
    BY <2>1, <2>2 DEF NextEffect
  <2> QED
    BY <1>0, <2>1, <2>3, QuietStep
<1>10. CASE ObserveTransient
  <2>1. UNCHANGED <<trail, segment, seq>> /\ sm = "Observe"
    BY <1>10 DEF ObserveTransient
  <2>2. CASE sm' = "End"
    BY <1>3, <2>1, <2>2
  <2>3. CASE intent' = [intent EXCEPT !.attempt = Attempted] /\ sm' = sm
    <3>1. intent'.seq = intent.seq
      BY <1>0, <2>3 DEF Intents
    <3> QED
      BY <1>4, <2>1, <2>3, <3>1
  <2> QED
    BY <1>10, <2>2, <2>3 DEF ObserveTransient, End
<1>11. CASE Observe
  <2>1. UNCHANGED <<segment, seq>> /\ sm = "Observe"
    BY <1>11 DEF Observe
  <2>2. CASE intent.path \in Writes
    <3>1. intent' = [intent EXCEPT !.attempt = Attempted, !.thisBoot = TRUE] /\ sm' = "Verify"
          /\ UNCHANGED trail
      BY <1>11, <2>2 DEF Observe
    <3>2. intent'.seq = intent.seq
      BY <1>0, <3>1 DEF Intents
    <3> QED
      BY <1>4, <2>1, <3>1, <3>2
  <2>3. CASE intent.path \notin Writes
    <3>1. Complete(intent.path, TRUE)
      BY <1>11, <2>3 DEF Observe
    <3>2. sm' = "Account"
          /\ trail' = Append(trail, [segment |-> segment, seq |-> intent.seq,
                                     path |-> intent.path, ok |-> TRUE])
      BY <3>1 DEF Complete
    <3> QED
      BY <2>1, <3>2, EffectStep
  <2> QED
    BY <2>2, <2>3
<1>12. CASE Verify
  <2>1. PICK passed \in BOOLEAN : Complete(intent.path, passed)
    BY <1>12 DEF Verify, ReadBack
  <2>2. sm' = "Account" /\ sm = "Verify" /\ UNCHANGED <<segment, seq>>
        /\ trail' = Append(trail, [segment |-> segment, seq |-> intent.seq,
                                   path |-> intent.path, ok |-> passed])
    BY <1>12, <2>1 DEF Verify, Complete
  <2> QED
    BY <2>2, EffectStep
<1>13. CASE Reset
  <2>1. intent'.seq = intent.seq
    BY <1>0, <1>13 DEF Reset, Intents
  <2>2. UNCHANGED <<sm, seq, trail, segment>>
    BY <1>13 DEF Reset
  <2>3. NextEffect' = NextEffect
    BY <2>1, <2>2 DEF NextEffect
  <2> QED
    BY <1>2, <2>2, <2>3, QuietStep
<1>14. CASE AwaitInput
  <2> DEFINE e == [segment |-> segment, seq |-> 0, path |-> NoCall, ok |-> TRUE]
             n == Len(trail) + 1
  <2>1. UNCHANGED <<segment, seq>> /\ trail' = Append(trail, e)
        /\ NextEffect = seq /\ NextEffect' = seq
    BY <1>14 DEF AwaitInput, NextEffect
  <2>2. e \in Effects
    BY <1>0, Zenon DEF Effects
  <2>3. trail \in Seq(Effects)
    BY DEF TypeOK, Effects
  <2>4. e.segment = segment /\ e.path = NoCall /\ e.ok
    OBVIOUS
  <2> HIDE DEF e
  <2>5. /\ Len(trail) \in Nat /\ Len(trail') = n
        /\ trail'[n] = e
        /\ \A i \in 1 .. Len(trail) : trail'[i] = trail[i]
    BY <2>1, <2>2, <2>3, Grows
  <2>6. \A i \in 1 .. Len(trail') : i \in 1 .. Len(trail) \/ i = n
    BY <2>5
  <2>7. EffectsPassed'
    BY <1>0, <2>1, <2>4, <2>5, <2>6 DEF EffectsPassed
  <2>8. EffectNamesOneCall'
    BY <2>4, <2>5, <2>6 DEF EffectNamesOneCall
  <2>9. RuledOutStaysRuledOut'
    <3> SUFFICES ASSUME NEW i \in 1 .. Len(trail'), NEW j \in 1 .. Len(trail'), i < j,
                        ~trail'[i].ok, trail'[i].segment # trail'[j].segment
                 PROVE  trail'[j].path # trail'[i].path
      BY DEF RuledOutStaysRuledOut
    <3>1. i \in 1 .. Len(trail)
      BY <2>4, <2>5, <2>6
    <3>2. CASE j \in 1 .. Len(trail)
      BY <2>5, <3>1, <3>2 DEF RuledOutStaysRuledOut
    <3>3. CASE j = n
      BY <2>4, <2>5, <3>1, <3>3 DEF FailuresFolded
    <3> QED
      BY <2>6, <3>2, <3>3
  <2> QED
    BY <2>7, <2>8, <2>9
<1> QED
  BY <1>5, <1>6, <1>7, <1>8, <1>9, <1>10, <1>11, <1>12, <1>13, <1>14 DEF Next, Progress

----------------------------------------------------------------------------
(* The fold.                                                               *)

LEMMA FoldStep ==
  ASSUME TypeOK, Placed, EffectsPassed, FailuresFolded, Next
  PROVE  FailuresFolded'
<1> USE DEF segmentVars, endVars, historyVars, budgetVars, monitorVars,
            foldVars, harvestVars
<1>0. trail \in Seq(Effects) /\ intent \in Intents /\ segment \in Nat /\ frames \in Nat \ {0}
  BY DEF TypeOK, Effects, Intents
\* The fold and the trail as they were.
<1>1. CASE /\ UNCHANGED <<trail, segment, foldVars>>
           /\ sm' \in {"Observe", "Verify"} => sm \in {"Observe", "Verify"} /\ intent'.path = intent.path
  BY <1>1 DEF FailuresFolded
\* One more step, its failure in the fold.
<1>2. ASSUME NEW e \in Effects, trail' = Append(trail, e), e.segment = segment,
             ~e.ok => e.path # NoCall /\ (RollsOver => overfull' \/ e.path \in failed'),
             UNCHANGED <<segment, ruledOut>>, sm' = "Account",
             failed \subseteq failed', overfull => overfull'
      PROVE  FailuresFolded'
  <2> DEFINE n == Len(trail) + 1
  <2>1. /\ Len(trail) \in Nat /\ Len(trail') = n
        /\ trail'[n] = e
        /\ \A i \in 1 .. Len(trail) : trail'[i] = trail[i]
    BY <1>0, <1>2, Grows
  <2>2. \A i \in 1 .. Len(trail') : i \in 1 .. Len(trail) \/ i = n
    BY <2>1
  <2>3. ASSUME NEW i \in 1 .. Len(trail'), ~trail'[i].ok
        PROVE  /\ trail'[i].path # NoCall
               /\ trail'[i].segment # segment => trail'[i].path \in ruledOut
               /\ RollsOver => overfull' \/ trail'[i].path \in failed'
    <3>1. CASE i = n
      BY <1>2, <2>1, <2>3, <3>1
    <3>2. CASE i \in 1 .. Len(trail)
      BY <1>2, <2>1, <2>3, <3>2 DEF FailuresFolded
    <3> QED
      BY <2>2, <3>1, <3>2
  <2> QED
    BY <1>2, <2>3 DEF FailuresFolded
<1>3. CASE Rollover
  <2>1. CASE Continue /\ ~overfull
    <3>1. UNCHANGED <<trail, failed, overfull>> /\ ruledOut' = failed /\ RollsOver
          /\ sm' = "Recover"
      BY <1>3, <2>1 DEF Rollover, Continue, Full
    <3> QED
      BY <2>1, <3>1 DEF FailuresFolded
  <2>2. CASE UNCHANGED segmentVars /\ sm' = "End"
    BY <1>1, <1>3, <2>2 DEF Rollover
  <2> QED
    BY <1>3, <2>1, <2>2 DEF Rollover, Fail
<1>4. CASE Recover \/ GatherExhausted \/ GatherClear \/ RepairAvailable \/ RepairExhausted
  BY <1>1, <1>4 DEF Recover, GatherExhausted, GatherClear, RepairAvailable, RepairExhausted, End
<1>5. CASE Infer
  <2>1. UNCHANGED <<trail, segment, foldVars>> /\ sm' \notin {"Observe", "Verify"}
    BY <1>5, Zenon DEF Infer, Decide, Fail
  <2> QED
    BY <1>1, <2>1
<1>6. CASE Refuse \/ Account \/ Finalize \/ DeviceFails
  BY <1>1, <1>6 DEF Refuse, Account, Finalize, DeviceFails, End, Fail
<1>7. CASE Authorize
  <2>1. intent' = [NoIntent EXCEPT !.path = call, !.seq = seq]
        /\ UNCHANGED <<trail, segment, foldVars>> /\ call \notin ruledOut
    BY <1>7 DEF Authorize, MayDispatch
  <2>2. intent'.path = call
    BY <2>1 DEF NoIntent
  <2> QED
    BY <2>1, <2>2 DEF FailuresFolded
<1>8. CASE ObserveTransient
  <2>1. UNCHANGED <<trail, segment, foldVars>> /\ sm = "Observe"
    BY <1>8 DEF ObserveTransient
  <2>2. CASE sm' = "End"
    BY <1>1, <2>1, <2>2
  <2>3. CASE intent' = [intent EXCEPT !.attempt = Attempted]
    <3>1. intent'.path = intent.path
      BY <1>0, <2>3 DEF Intents
    <3> QED
      BY <1>1, <2>1, <3>1
  <2> QED
    BY <1>8, <2>2, <2>3 DEF ObserveTransient, End
<1>9. CASE Observe
  <2>1. UNCHANGED <<segment, foldVars>> /\ sm = "Observe"
    BY <1>9 DEF Observe
  <2>2. CASE intent.path \in Writes
    <3>1. intent' = [intent EXCEPT !.attempt = Attempted, !.thisBoot = TRUE] /\ UNCHANGED trail
      BY <1>9, <2>2 DEF Observe
    <3>2. intent'.path = intent.path
      BY <1>0, <3>1 DEF Intents
    <3> QED
      BY <1>1, <2>1, <3>1, <3>2
  <2>3. CASE intent.path \notin Writes
    <3> DEFINE e == [segment |-> segment, seq |-> intent.seq, path |-> intent.path, ok |-> TRUE]
    <3>1. Complete(intent.path, TRUE)
      BY <1>9, <2>3 DEF Observe
    <3>2. sm' = "Account" /\ trail' = Append(trail, e)
      BY <3>1 DEF Complete
    <3>3. e \in Effects
      BY <1>0, Zenon DEF Effects, Intents
    <3>4. e.ok /\ e.segment = segment
      OBVIOUS
    <3> HIDE DEF e
    <3> QED
      BY <1>2, <2>1, <3>2, <3>3, <3>4
  <2> QED
    BY <2>2, <2>3
<1>10. CASE Verify
  <2>1. PICK passed \in BOOLEAN :
          /\ IF passed THEN UNCHANGED <<failed, overfull>> ELSE Records(intent.path)
          /\ Complete(intent.path, passed)
    BY <1>10 DEF Verify, ReadBack
  <2> DEFINE e == [segment |-> segment, seq |-> intent.seq, path |-> intent.path, ok |-> passed]
  <2>2. sm' = "Account" /\ trail' = Append(trail, e) /\ UNCHANGED <<segment, ruledOut>>
    BY <1>10, <2>1 DEF Verify, Complete
  <2>3. e \in Effects
    BY <1>0, Zenon DEF Effects, Intents
  <2>4. e.ok = passed /\ e.segment = segment /\ e.path = intent.path
    OBVIOUS
  <2> HIDE DEF e
  <2>5. intent.path # NoCall
    BY <1>10, RunAssumption DEF Placed, Verify
  <2>6. failed \subseteq failed' /\ (overfull => overfull')
    BY <2>1 DEF Records
  <2>7. ~passed => (RollsOver => overfull' \/ intent.path \in failed')
    BY <2>1 DEF Records
  <2> QED
    BY <1>2, <2>2, <2>3, <2>4, <2>5, <2>6, <2>7
<1>11. CASE AwaitInput
  <2> DEFINE e == [segment |-> segment, seq |-> 0, path |-> NoCall, ok |-> TRUE]
  <2>1. sm' = "Account" /\ trail' = Append(trail, e)
        /\ UNCHANGED <<segment, foldVars>>
    BY <1>11 DEF AwaitInput
  <2>2. e \in Effects
    BY <1>0, Zenon DEF Effects
  <2>3. e.ok /\ e.segment = segment
    OBVIOUS
  <2> HIDE DEF e
  <2> QED
    BY <1>2, <2>1, <2>2, <2>3
<1>12. CASE Reset
  <2>1. intent'.path = intent.path
    BY <1>0, <1>12 DEF Reset, Intents
  <2> QED
    BY <1>1, <1>12, <2>1 DEF Reset
<1> QED
  BY <1>3, <1>4, <1>5, <1>6, <1>7, <1>8, <1>9, <1>10, <1>11, <1>12 DEF Next, Progress

----------------------------------------------------------------------------
(* The theorems.                                                           *)

LEMMA InductiveInit == Init => Inductive
<1> SUFFICES ASSUME Init
             PROVE  Inductive
  OBVIOUS
<1>1. NoIntent \in Intents
  BY DEF NoIntent, Intents, MaxTransientAttempts
<1>2. <<>> \in Seq(Step) /\ <<>> \in Seq(Calls) /\ <<>> \in Seq(Effects) /\ Len(<<>>) = 0
  BY DEF Step
<1>3. TypeOK
  <2>1. /\ Turns \in 0 .. Turns /\ Mutations \in 0 .. Mutations /\ 0 \in 0 .. MaxRepairs
        /\ 0 \in 0 .. NoProgressLimit /\ 0 \in 0 .. MaxResets
        /\ 0 <= MonitorWindow /\ 0 <= MaxKept
    BY RunAssumption DEF MaxRepairs, NoProgressLimit, MonitorWindow
  <2>2. /\ sm \in Positions /\ status \in Ended \cup {"none"}
        /\ fault \in InternalFaults \cup {"none", "CompactStateFull", "Device"}
    BY DEF Init, Positions, Ended, InternalFaults
  <2>3. /\ window \in Seq(Step) /\ Len(window) <= MonitorWindow
        /\ kept \in Seq(Calls) /\ Len(kept) <= MaxKept /\ trail \in Seq(Effects)
    BY <1>2, <2>1 DEF Init
  <2>4. /\ turns \in 0 .. Turns /\ mutations \in 0 .. Mutations /\ repairs \in 0 .. MaxRepairs
        /\ streak \in 0 .. NoProgressLimit /\ resets \in 0 .. MaxResets
    BY <2>1 DEF Init
  <2>5. intent \in Intents /\ step \in Step
    BY <1>1, StepTyped DEF Init
  <2>6. /\ context \in Contexts
        /\ call \in Calls \cup {NoCall} /\ bound \in {<<>>} \cup (0 .. Turns) \X (0 .. Mutations)
        /\ ruledOut \subseteq Writes /\ failed \subseteq Writes
        /\ open \in {<<>>} \cup [path : Calls, value : BOOLEAN, verified : BOOLEAN]
        /\ overfull \in BOOLEAN
    BY Zenon DEF Init
  <2>7. /\ fill \in Nat /\ segment \in Nat /\ frames \in Nat \ {0}
        /\ seq \in Nat /\ inferences \in Nat /\ mutated \in Nat
    BY DEF Init
  <2> QED
    BY <2>2, <2>3, <2>4, <2>5, <2>6, <2>7 DEF TypeOK, Intents, Effects
<1>4. SpendsItsGrant /\ NeverFaultsItself /\ Narrows
  BY RunAssumption DEF Init, SpendsItsGrant, NeverFaultsItself, Narrows, InternalFaults
<1>5. Placed /\ FramesFit
  BY DEF Init, Placed, FramesFit, Room, MaxRepairs, NoProgressLimit
<1>6. EffectsPassed /\ EffectNamesOneCall /\ FailuresFolded /\ RuledOutStaysRuledOut
  BY <1>2 DEF Init, EffectsPassed, EffectNamesOneCall, FailuresFolded, RuledOutStaysRuledOut
<1> QED
  BY <1>3, <1>4, <1>5, <1>6 DEF Inductive

LEMMA InductiveStep == Inductive /\ [Next]_vars => Inductive'
<1> SUFFICES ASSUME Inductive, [Next]_vars
             PROVE  Inductive'
  OBVIOUS
<1>1. CASE Next
  BY <1>1, TypeStep, PlacedStep, BudgetStep, FramesStep, TrailStep, FoldStep DEF Inductive
<1>2. CASE UNCHANGED vars
  <2> USE <1>2 DEF vars, segmentVars, endVars, historyVars, budgetVars,
                   monitorVars, foldVars, harvestVars
  <2>1. TypeOK'
    BY DEF Inductive, TypeOK
  <2>2. SpendsItsGrant' /\ NeverFaultsItself' /\ Narrows'
    BY DEF Inductive, SpendsItsGrant, NeverFaultsItself, Narrows
  <2>3. Placed'
    BY DEF Inductive, Placed
  <2>4. FramesFit'
    BY DEF Inductive, FramesFit, Room
  <2>5. EffectsPassed' /\ EffectNamesOneCall'
    BY DEF Inductive, EffectsPassed, NextEffect, EffectNamesOneCall
  <2>6. FailuresFolded' /\ RuledOutStaysRuledOut'
    BY DEF Inductive, FailuresFolded, RuledOutStaysRuledOut
  <2> QED
    BY <2>1, <2>2, <2>3, <2>4, <2>5, <2>6 DEF Inductive
<1> QED
  BY <1>1, <1>2

\* The invariant the others follow from is inductive.
THEOREM RunInductive == Spec => []Inductive
  BY InductiveInit, InductiveStep, PTL DEF Spec

\* Every variable of a run keeps its type: repairs, attempts and the streak
\* stay within the limits the engine sets, the windows within theirs.
THEOREM RunTyped == Spec => []TypeOK
<1>1. Inductive => TypeOK
  BY DEF Inductive
<1> QED
  BY <1>1, RunInductive, PTL

\* Turns and mutations left and spent make up the grant, over all segments:
\* the supervisor may refund what the last segment reports.
THEOREM GrantSpentOnce == Spec => []SpendsItsGrant
<1>1. Inductive => SpendsItsGrant
  BY DEF Inductive
<1> QED
  BY <1>1, RunInductive, PTL

\* No run ends in a fault of the engine's own making, as over-spending the
\* turns or handing a child wider budgets would be.
THEOREM NeverFaults == Spec => []NeverFaultsItself
<1>1. Inductive => NeverFaultsItself
  BY DEF Inductive
<1> QED
  BY <1>1, RunInductive, PTL

\* A segment's run id is within seven ids per inference of the first one's.
THEOREM SegmentIdsFit == Spec => []SegmentIdsBounded
<1>1. Inductive => SegmentIdsBounded
  <2> SUFFICES ASSUME Inductive
               PROVE  SegmentIdsBounded
    OBVIOUS
  <2>1. segment \in Nat /\ frames \in Nat /\ inferences \in Nat
    BY DEF Inductive, TypeOK
  <2>2. Room \in Nat
    <3>1. intent \in Intents
      BY DEF Inductive, TypeOK, Intents
    <3>2. intent.attempt \in 0 .. 3
      BY <3>1, Zenon DEF Intents, MaxTransientAttempts
    <3> QED
      BY <3>2 DEF Room
  <2>3. segment + frames + Room <= 7 * inferences + 1
    BY DEF Inductive, FramesFit
  <2> QED
    BY <2>1, <2>2, <2>3 DEF SegmentIdsBounded
<1> QED
  BY <1>1, RunInductive, PTL

\* No two completed steps of a run share their effect's name, however many
\* segments restart the sequence.
THEOREM EffectsNamed == Spec => []EffectNamesOneCall
<1>1. Inductive => EffectNamesOneCall
  BY DEF Inductive
<1> QED
  BY <1>1, RunInductive, PTL

\* A path whose verification failed is dispatched in no later segment,
\* whatever the fold's room.
THEOREM RuledOutPathsStayOut == Spec => []RuledOutStaysRuledOut
<1>1. Inductive => RuledOutStaysRuledOut
  BY DEF Inductive
<1> QED
  BY <1>1, RunInductive, PTL

----------------------------------------------------------------------------
(* The loop detector.                                                      *)

\* A list is the end of the first `seen` steps of a history, as far as they
\* are of one segment and the monitor has room for them.
Follows(t, s, seen, list) ==
  /\ Len(list) <= seen
  /\ \A i \in 1 .. Len(list) :
       /\ t[seen - Len(list) + i].segment = s
       /\ t[seen - Len(list) + i].path = list[i].path
       /\ t[seen - Len(list) + i].ok = list[i].ok
  /\ Len(list) < MonitorWindow /\ Len(list) < seen => t[seen - Len(list)].segment # s

\* The monitor's ring follows the trail, but for the step Account has yet to
\* look at.
WindowFollows ==
  IF sm = "Account"
  THEN /\ Len(trail) > 0
       /\ Follows(trail, segment, Len(trail) - 1, window)
       /\ trail[Len(trail)].segment = segment
       /\ trail[Len(trail)].path = step.path
       /\ trail[Len(trail)].ok = step.ok
  ELSE Follows(trail, segment, Len(trail), window)

\* A run goes on only after a verdict that found no loop.
WindowCalm == sm # "End" => ~Alike(window) /\ ~ErrorMajority(window)

\* What the ring holds once a step is pushed.
LEMMA PushedElements ==
  ASSUME NEW list \in Seq(Step), Len(list) <= 5, NEW s \in Step
  PROVE  /\ Len(list) < 5 =>
              /\ Len(Pushed(list, s)) = Len(list) + 1
              /\ Pushed(list, s)[Len(list) + 1] = s
              /\ \A i \in 1 .. Len(list) : Pushed(list, s)[i] = list[i]
         /\ Len(list) = 5 =>
              /\ Len(Pushed(list, s)) = 5
              /\ Pushed(list, s)[5] = s
              /\ \A i \in 1 .. 4 : Pushed(list, s)[i] = list[i + 1]
<1>1. CASE Len(list) < 5
  <2>1. Pushed(list, s) = Append(list, s)
    BY <1>1 DEF Pushed, MonitorWindow
  <2>2. /\ Len(Append(list, s)) = Len(list) + 1
        /\ Append(list, s)[Len(list) + 1] = s
        /\ \A i \in 1 .. Len(list) : Append(list, s)[i] = list[i]
    BY AppendProperties
  <2> QED
    BY <1>1, <2>1, <2>2
<1>2. CASE Len(list) = 5
  <2>1. list # <<>>
    BY <1>2, EmptySeq
  <2> DEFINE tail == Tail(list)
  <2>2. tail \in Seq(Step) /\ Len(tail) = 4
    BY <1>2, <2>1, HeadTailProperties
  <2>3. \A i \in 1 .. 4 : tail[i] = list[i + 1]
    BY <1>2, <2>1, <2>2, HeadTailProperties
  <2>4. Pushed(list, s) = Append(tail, s)
    BY <1>2 DEF Pushed, MonitorWindow
  <2> HIDE DEF tail
  <2>5. /\ Len(Append(tail, s)) = Len(tail) + 1
        /\ Append(tail, s)[Len(tail) + 1] = s
        /\ \A i \in 1 .. Len(tail) : Append(tail, s)[i] = tail[i]
    <3>1. tail \in Seq(Step)
      BY <2>2
    <3> QED
      BY <3>1, AppendProperties
  <2> DEFINE new == Append(tail, s)
  <2>6. Len(new) = 5 /\ new[5] = s /\ \A i \in 1 .. 4 : new[i] = tail[i]
    <3> HIDE DEF new
    <3>1. Len(tail) + 1 = 5 /\ 1 .. Len(tail) = 1 .. 4
      BY <2>2
    <3> QED
      BY <2>5, <3>1 DEF new
  <2>7. \A i \in 1 .. 4 : new[i] = list[i + 1]
    BY <2>3, <2>6
  <2> HIDE DEF new
  <2> QED
    BY <1>2, <2>4, <2>6, <2>7 DEF new
<1>3. Len(list) \in Nat
  BY LenProperties
<1> QED
  BY <1>1, <1>2, <1>3

\* The ring is given the history's next step.
LEMMA FollowsPushed ==
  ASSUME NEW t, NEW s, NEW seen \in Nat,
         NEW list \in Seq(Step), Len(list) <= MonitorWindow,
         Follows(t, s, seen, list), NEW e \in Step,
         t[seen + 1].segment = s, t[seen + 1].path = e.path, t[seen + 1].ok = e.ok
  PROVE  Follows(t, s, seen + 1, Pushed(list, e))
<1> DEFINE n == Len(list)
           new == Pushed(list, e)
<1>1. n \in Nat /\ n <= 5
  BY LenProperties DEF MonitorWindow
<1>2. /\ n <= seen
      /\ \A i \in 1 .. n :
           /\ t[seen - n + i].segment = s
           /\ t[seen - n + i].path = list[i].path
           /\ t[seen - n + i].ok = list[i].ok
      /\ n < 5 /\ n < seen => t[seen - n].segment # s
  BY DEF Follows, MonitorWindow
<1>3. /\ n < 5 =>
           /\ Len(new) = n + 1 /\ new[n + 1] = e
           /\ \A i \in 1 .. n : new[i] = list[i]
      /\ n = 5 =>
           /\ Len(new) = 5 /\ new[5] = e
           /\ \A i \in 1 .. 4 : new[i] = list[i + 1]
  BY PushedElements DEF MonitorWindow
<1> HIDE DEF n, new
<1>4. CASE n < 5
  <2>1. seen + 1 - (n + 1) = seen - n
    BY <1>1
  <2>2. ASSUME NEW i \in 1 .. n + 1
        PROVE  /\ t[seen - n + i].segment = s
               /\ t[seen - n + i].path = new[i].path
               /\ t[seen - n + i].ok = new[i].ok
    <3>1. CASE i \in 1 .. n
      BY <1>2, <1>3, <1>4, <3>1
    <3>2. CASE i = n + 1
      <4>1. seen - n + i = seen + 1
        BY <1>1, <3>2
      <4> QED
        BY <1>3, <1>4, <3>2, <4>1
    <3> QED
      BY <1>1, <3>1, <3>2
  <2>3. Len(new) <= seen + 1 /\ (Len(new) < seen + 1 => n < seen)
    BY <1>1, <1>2, <1>3, <1>4
  <2>4. seen + 1 - Len(new) = seen - n /\ Len(new) = n + 1
    BY <1>1, <1>3, <1>4
  <2>5. /\ Len(new) <= seen + 1
        /\ \A i \in 1 .. Len(new) :
             /\ t[seen + 1 - Len(new) + i].segment = s
             /\ t[seen + 1 - Len(new) + i].path = new[i].path
             /\ t[seen + 1 - Len(new) + i].ok = new[i].ok
        /\ Len(new) < seen + 1 => t[seen + 1 - Len(new)].segment # s
    BY <1>2, <1>4, <2>2, <2>3, <2>4
  <2> QED
    BY <2>5 DEF Follows, new
<1>5. CASE n = 5
  <2>1. ASSUME NEW i \in 1 .. 5
        PROVE  /\ t[seen + 1 - 5 + i].segment = s
               /\ t[seen + 1 - 5 + i].path = new[i].path
               /\ t[seen + 1 - 5 + i].ok = new[i].ok
    <3>1. CASE i \in 1 .. 4
      <4>1. i + 1 \in 1 .. n /\ seen + 1 - 5 + i = seen - n + (i + 1)
        BY <1>5, <3>1
      <4>2. new[i] = list[i + 1]
        BY <1>3, <1>5, <3>1
      <4> QED
        BY <1>2, <4>1, <4>2
    <3>2. CASE i = 5
      <4>1. seen + 1 - 5 + i = seen + 1
        BY <3>2
      <4> QED
        BY <1>3, <1>5, <3>2, <4>1
    <3> QED
      BY <3>1, <3>2
  <2>2. Len(new) = 5 /\ 5 <= seen + 1
    BY <1>2, <1>3, <1>5
  <2> QED
    BY <2>1, <2>2 DEF Follows, new, MonitorWindow
<1> QED
  BY <1>1, <1>4, <1>5

\* What comes after the steps it follows does not matter.
LEMMA FollowsGrown ==
  ASSUME NEW t \in Seq(Effects), NEW e \in Effects, NEW s,
         NEW list \in Seq(Step), Follows(t, s, Len(t), list)
  PROVE  Follows(Append(t, e), s, Len(t), list)
<1> DEFINE u == Append(t, e)
<1>1. Len(t) \in Nat /\ \A i \in 1 .. Len(t) : u[i] = t[i]
  BY Grows
<1>2. Len(list) \in Nat /\ Len(list) <= Len(t)
  BY LenProperties DEF Follows
<1> HIDE DEF u
<1>3. \A i \in 1 .. Len(list) : u[Len(t) - Len(list) + i] = t[Len(t) - Len(list) + i]
  BY <1>1, <1>2
<1>4. Len(list) < Len(t) => u[Len(t) - Len(list)] = t[Len(t) - Len(list)]
  BY <1>1, <1>2
<1> QED
  BY <1>2, <1>3, <1>4 DEF Follows, u

LEMMA LoopInit == Init => WindowFollows /\ WindowCalm
<1> SUFFICES ASSUME Init PROVE WindowFollows /\ WindowCalm
  OBVIOUS
<1>1. sm = "Recover" /\ trail = <<>> /\ window = <<>> /\ Len(<<>>) = 0
  BY DEF Init
<1>2. WindowFollows
  BY <1>1 DEF WindowFollows, Follows
<1>3. WindowCalm
  BY <1>1 DEF WindowCalm, Alike, ErrorMajority, IdenticalFailureLimit, MonitorWindow
<1> QED
  BY <1>2, <1>3

\* A completed step is one the monitor has yet to be given.
LEMMA CompletedFollows ==
  ASSUME TypeOK, WindowFollows, WindowCalm, sm \notin {"Account", "End"},
         NEW p \in Calls \cup {NoCall}, NEW b \in BOOLEAN, NEW n \in Nat,
         trail' = Append(trail, [segment |-> segment, seq |-> n, path |-> p, ok |-> b]),
         sm' = "Account", step' = [path |-> p, ok |-> b],
         UNCHANGED <<window, segment>>
  PROVE  WindowFollows' /\ WindowCalm'
<1> DEFINE e == [segment |-> segment, seq |-> n, path |-> p, ok |-> b]
<1>1. e \in Effects /\ trail \in Seq(Effects) /\ window \in Seq(Step)
  <2>1. segment \in Nat /\ trail \in Seq(Effects) /\ window \in Seq(Step)
    BY DEF TypeOK, Effects
  <2>2. e \in Effects
    BY <2>1, Zenon DEF Effects
  <2> QED
    BY <2>1, <2>2
<1>2. e.segment = segment /\ e.path = step'.path /\ e.ok = step'.ok
  OBVIOUS
<1>3. Len(trail) \in Nat /\ Len(trail') = Len(trail) + 1 /\ trail'[Len(trail) + 1] = e
  BY <1>1, Grows
<1>4. Follows(trail', segment, Len(trail), window)
  <2>1. Follows(trail, segment, Len(trail), window)
    BY DEF WindowFollows
  <2> QED
    BY <1>1, <2>1, FollowsGrown
<1> HIDE DEF e
<1>5. Len(trail') - 1 = Len(trail) /\ Len(trail') > 0
  BY <1>3
<1>6. WindowFollows'
  BY <1>2, <1>3, <1>4, <1>5 DEF WindowFollows
<1> QED
  BY <1>6 DEF WindowCalm

\* A step that neither completes a call nor looks at one.
LEMMA LoopUnmoved ==
  ASSUME WindowFollows, WindowCalm,
         UNCHANGED <<trail, window, segment>>,
         \/ sm' = sm /\ step' = step
         \/ sm # "Account" /\ sm' # "Account" /\ sm # "End"
  PROVE  WindowFollows' /\ WindowCalm'
BY DEF WindowFollows, WindowCalm

LEMMA LoopStep ==
  ASSUME TypeOK, TypeOK', Placed, EffectsPassed, WindowFollows, WindowCalm, Next
  PROVE  WindowFollows' /\ WindowCalm'
<1> USE DEF segmentVars, endVars, historyVars, budgetVars, monitorVars,
            foldVars, harvestVars
<1>1. CASE \/ Recover \/ GatherExhausted \/ GatherClear \/ RepairAvailable
           \/ RepairExhausted \/ Refuse \/ Authorize \/ Finalize \/ DeviceFails
  BY <1>1, LoopUnmoved DEF Recover, GatherExhausted, GatherClear, RepairAvailable,
     RepairExhausted, Refuse, Authorize, Finalize, DeviceFails, End, Fail
<1>2. CASE Infer
  <2>1. sm = "Infer" /\ sm' # "Account" /\ UNCHANGED <<trail, window, segment>>
    BY <1>2, Zenon DEF Infer, Decide, Fail
  <2> QED
    BY <2>1, LoopUnmoved
<1>3. CASE ObserveTransient
  <2>1. sm = "Observe" /\ sm' # "Account" /\ UNCHANGED <<trail, window, segment>>
    BY <1>3 DEF ObserveTransient, End
  <2> QED
    BY <2>1, LoopUnmoved
<1>4. CASE Reset
  BY <1>4, LoopUnmoved DEF Reset
<1>5. CASE Observe
  <2>0. sm = "Observe" /\ UNCHANGED <<window, segment>>
    BY <1>5 DEF Observe
  <2>1. CASE intent.path \in Writes
    <3>1. sm' = "Verify" /\ UNCHANGED trail
      BY <1>5, <2>1 DEF Observe
    <3> QED
      BY <2>0, <3>1, LoopUnmoved
  <2>2. CASE intent.path \notin Writes
    <3>1. Complete(intent.path, TRUE)
      BY <1>5, <2>2 DEF Observe
    <3>2. intent.path \in Calls /\ intent.seq \in Nat
      <4>1. intent \in Intents
        BY DEF TypeOK, Intents
      <4> QED
        BY <2>0, <4>1, Zenon DEF Placed, Intents
    <3> QED
      BY <2>0, <3>1, <3>2, CompletedFollows DEF Complete
  <2> QED
    BY <2>1, <2>2
<1>6. CASE Verify
  <2>0. sm = "Verify" /\ UNCHANGED <<window, segment>>
    BY <1>6 DEF Verify
  <2>1. PICK passed \in BOOLEAN : Complete(intent.path, passed)
    BY <1>6 DEF Verify, ReadBack
  <2>2. intent.path \in Calls /\ intent.seq \in Nat
    <3>1. intent \in Intents
      BY DEF TypeOK, Intents
    <3> QED
      BY <2>0, <3>1, Zenon DEF Placed, Intents
  <2> QED
    BY <2>0, <2>1, <2>2, CompletedFollows DEF Complete
<1>7. CASE AwaitInput
  <2>1. /\ sm = "AwaitInput" /\ sm' = "Account" /\ UNCHANGED <<window, segment>>
        /\ step' = [path |-> NoCall, ok |-> TRUE]
        /\ trail' = Append(trail, [segment |-> segment, seq |-> 0,
                                   path |-> NoCall, ok |-> TRUE])
    BY <1>7 DEF AwaitInput, NoStep
  <2> QED
    BY <2>1, CompletedFollows
<1>8. CASE Account
  <2>1. /\ sm = "Account" /\ window' = Pushed(window, step)
        /\ UNCHANGED <<trail, segment>> /\ sm' \in {"Gather", "End"}
        /\ sm' = "Gather" => Verdict = "Continue"
    BY <1>8 DEF Account, End
  <2>2. /\ window \in Seq(Step) /\ Len(window) <= MonitorWindow /\ step \in Step
        /\ Len(trail) \in Nat
    BY LenProperties DEF TypeOK
  <2>3. /\ Len(trail) > 0
        /\ Follows(trail, segment, Len(trail) - 1, window)
        /\ trail[Len(trail)].segment = segment
        /\ trail[Len(trail)].path = step.path
        /\ trail[Len(trail)].ok = step.ok
    BY <2>1 DEF WindowFollows
  <2>4. Len(trail) - 1 \in Nat /\ Len(trail) - 1 + 1 = Len(trail)
    BY <2>2, <2>3
  <2>5. Follows(trail, segment, Len(trail), window')
    <3>1. Follows(trail, segment, Len(trail) - 1 + 1, Pushed(window, step))
      BY <2>2, <2>3, <2>4, FollowsPushed
    <3> QED
      BY <2>1, <2>4, <3>1
  <2>6. WindowFollows'
    BY <2>1, <2>5 DEF WindowFollows
  <2>7. WindowCalm'
    BY <2>1 DEF WindowCalm, Verdict
  <2> QED
    BY <2>6, <2>7
<1>9. CASE Rollover
  <2>1. CASE UNCHANGED segmentVars /\ sm' = "End"
    BY <1>9, <2>1, LoopUnmoved DEF Rollover
  <2>2. CASE Continue
    <3>1. /\ UNCHANGED trail /\ window' = <<>> /\ sm' = "Recover"
          /\ segment' = segment + (frames - 1) + 1
      BY <1>9, <2>2 DEF Rollover, Continue, ChildSegment
    <3>2. segment \in Nat /\ frames \in Nat \ {0} /\ Len(trail) \in Nat
      BY LenProperties DEF TypeOK
    <3>3. \A i \in 1 .. Len(trail) : trail[i].segment \in Nat /\ trail[i].segment <= segment
      <4>1. \A i \in 1 .. Len(trail) : trail[i] \in Effects
        BY ElementOfSeq DEF TypeOK, Effects
      <4>2. \A x \in Effects : x.segment \in Nat
        BY Zenon DEF Effects
      <4> QED
        BY <4>1, <4>2, Zenon DEF EffectsPassed
    <3>4. Len(trail) > 0 => trail[Len(trail)].segment # segment'
      <4> SUFFICES ASSUME Len(trail) > 0
                   PROVE  trail[Len(trail)].segment # segment'
        OBVIOUS
      <4>1. Len(trail) \in 1 .. Len(trail)
        BY <3>2
      <4> QED
        BY <3>1, <3>2, <3>3, <4>1
    <3>5. Follows(trail, segment', Len(trail), <<>>)
      BY <3>2, <3>4 DEF Follows
    <3>6. WindowFollows'
      BY <3>1, <3>5 DEF WindowFollows
    <3>7. WindowCalm'
      BY <3>1 DEF WindowCalm, Alike, ErrorMajority, IdenticalFailureLimit, MonitorWindow
    <3> QED
      BY <3>6, <3>7
  <2> QED
    BY <1>9, <2>1, <2>2 DEF Rollover, Fail
<1> QED
  BY <1>1, <1>2, <1>3, <1>4, <1>5, <1>6, <1>7, <1>8, <1>9 DEF Next, Progress

\* A set of numbers has a least one.
LEMMA LeastNumber ==
  ASSUME NEW T \in SUBSET Nat, T # {}
  PROVE  \E i \in T : \A j \in T : i <= j
<1> DEFINE Less == {p \in Nat \X Nat : p[1] < p[2]}
<1>1. IsWellFoundedOn(Less, Nat)
  BY NatLessThanWellFounded DEF OpToRel
<1>2. PICK i \in T : \A j \in T : ~(<<j, i>> \in Less)
  <2> HIDE DEF Less
  <2> QED
    BY <1>1, WFMin
<1>3. ASSUME NEW j \in T
      PROVE  i <= j
  <2>1. i \in Nat /\ j \in Nat
    OBVIOUS
  <2>2. <<j, i>> \in Nat \X Nat /\ <<j, i>>[1] = j /\ <<j, i>>[2] = i
    BY <2>1
  <2>3. ~(j < i)
    BY <1>2, <2>2
  <2> QED
    BY <2>1, <2>3
<1> QED
  BY <1>3

\* A list with the segment's last steps finds every loop the segment's whole
\* history shows: the history is the list, or the list is full.
LEMMA FollowsFinds ==
  ASSUME TypeOK, Follows(trail, segment, Len(trail), window),
         ~Alike(window), ~ErrorMajority(window)
  PROVE  ~Alike(OfSegment) /\ ~ErrorMajority(OfSegment)
<1> DEFINE k == Len(trail)
           n == Len(window)
           first == FirstOfSegment
           m == Len(OfSegment)
           off == m - n
<1>1. /\ trail \in Seq(Effects) /\ window \in Seq(Step)
      /\ k \in Nat /\ n \in Nat /\ n <= 5 /\ n <= k
  BY LenProperties DEF TypeOK, Effects, Follows, MonitorWindow
<1>2. /\ \A i \in 1 .. n :
           /\ trail[k - n + i].segment = segment
           /\ trail[k - n + i].path = window[i].path
           /\ trail[k - n + i].ok = window[i].ok
      /\ n < 5 /\ n < k => trail[k - n].segment # segment
  BY DEF Follows, MonitorWindow
<1> DEFINE Starts(f) == /\ \A i \in f .. k : trail[i].segment = segment
                        /\ f > 1 => trail[f - 1].segment # segment
<1>3. first \in 1 .. k + 1 /\ Starts(first)
  <2>1. \E f \in 1 .. k + 1 : Starts(f)
    <3> DEFINE T == {f \in 1 .. k + 1 : \A i \in f .. k : trail[i].segment = segment}
    <3>1. k + 1 \in T
      BY <1>1
    <3>2. PICK f \in T : \A g \in T : f <= g
      <4>1. T \in SUBSET Nat /\ T # {}
        BY <1>1, <3>1
      <4> HIDE DEF T
      <4> QED
        BY <4>1, LeastNumber
    <3>3. f > 1 => trail[f - 1].segment # segment
      <4> SUFFICES ASSUME f > 1, trail[f - 1].segment = segment
                   PROVE  FALSE
        OBVIOUS
      <4>1. f - 1 \in T
        <5>1. f - 1 \in 1 .. k + 1
          BY <1>1
        <5>2. \A i \in f - 1 .. k : i = f - 1 \/ i \in f .. k
          BY <1>1
        <5> QED
          BY <5>1, <5>2
      <4> QED
        BY <1>1, <3>2, <4>1
    <3> QED
      BY <3>2, <3>3
  <2> QED
    BY <2>1 DEF FirstOfSegment
<1> HIDE DEF k, n, first
<1>4. first <= k - n + 1 /\ (n < 5 => first = k - n + 1)
  <2>1. ~(first > k - n + 1)
    <3> SUFFICES ASSUME first > k - n + 1 PROVE FALSE
      OBVIOUS
    <3>1. first - 1 \in k - n + 1 .. k /\ first > 1
      BY <1>1, <1>3
    <3>2. first - 1 - (k - n) \in 1 .. n /\ k - n + (first - 1 - (k - n)) = first - 1
      BY <1>1, <3>1
    <3>3. trail[first - 1].segment = segment
      BY <1>2, <3>2
    <3> QED
      BY <1>3, <3>1, <3>3
  <2>2. n < 5 => ~(first < k - n + 1)
    <3> SUFFICES ASSUME n < 5, first < k - n + 1 PROVE FALSE
      OBVIOUS
    <3>1. k - n \in first .. k /\ n < k
      BY <1>1, <1>3
    <3> QED
      BY <1>2, <1>3, <3>1
  <2> QED
    BY <1>1, <1>3, <2>1, <2>2
<1>5. /\ m = k - first + 1
      /\ \A i \in 1 .. m : OfSegment[i] = trail[first - 1 + i]
  <2>1. OfSegment = SubSeq(trail, first, k)
    BY DEF OfSegment, first, k
  <2>2. /\ Len(SubSeq(trail, first, k)) = IF first <= k THEN k - first + 1 ELSE 0
        /\ \A i \in 1 .. k - first + 1 : SubSeq(trail, first, k)[i] = trail[first + i - 1]
    BY <1>1, <1>3, SubSeqProperties DEF k
  <2>3. \A i \in 1 .. k - first + 1 : first + i - 1 = first - 1 + i
    BY <1>1, <1>3
  <2> QED
    BY <1>1, <1>3, <2>1, <2>2, <2>3
<1> HIDE DEF m
<1>6. m \in Nat /\ n <= m /\ (n < 5 => n = m)
  BY <1>1, <1>3, <1>4, <1>5
<1>7. \A i \in 1 .. n :
        /\ off + i \in 1 .. m
        /\ OfSegment[off + i].path = window[i].path
        /\ OfSegment[off + i].ok = window[i].ok
  <2> SUFFICES ASSUME NEW i \in 1 .. n
               PROVE  /\ off + i \in 1 .. m
                      /\ OfSegment[off + i].path = window[i].path
                      /\ OfSegment[off + i].ok = window[i].ok
    OBVIOUS
  <2>1. off + i \in 1 .. m /\ first - 1 + (off + i) = k - n + i
    BY <1>1, <1>3, <1>5, <1>6
  <2> QED
    BY <1>2, <1>5, <2>1
<1> HIDE DEF off
<1>8. off = m - n
  BY DEF off
<1>9. ~Alike(OfSegment)
  <2> SUFFICES ASSUME Alike(OfSegment) PROVE Alike(window)
    OBVIOUS
  <2>1. m >= 3 /\ n >= 3 /\ off + n = m
    BY <1>1, <1>6, <1>8 DEF Alike, IdenticalFailureLimit, m
  <2>2. /\ OfSegment[m].path = window[n].path
        /\ OfSegment[m].ok = window[n].ok
    BY <1>1, <1>7, <2>1
  <2>3. ~OfSegment[m].ok
        /\ \A i \in m - 2 .. m : OfSegment[i].path = OfSegment[m].path /\ ~OfSegment[i].ok
    <3>1. m - 3 + 1 = m - 2
      BY <1>6
    <3> QED
      BY <3>1 DEF Alike, IdenticalFailureLimit, m
  <2>4. \A i \in n - 2 .. n : window[i].path = window[n].path /\ ~window[i].ok
    <3> SUFFICES ASSUME NEW i \in n - 2 .. n
                 PROVE  window[i].path = window[n].path /\ ~window[i].ok
      OBVIOUS
    <3>1. i \in 1 .. n /\ off + i \in m - 2 .. m
      BY <1>1, <1>6, <1>8, <2>1
    <3> QED
      BY <1>7, <2>2, <2>3, <3>1
  <2>5. n - 3 + 1 = n - 2
    BY <1>1
  <2> QED
    BY <1>1, <2>1, <2>2, <2>3, <2>4, <2>5 DEF Alike, IdenticalFailureLimit, n
<1>10. ~ErrorMajority(OfSegment)
  <2> SUFFICES ASSUME ErrorMajority(OfSegment) PROVE ErrorMajority(window)
    OBVIOUS
  <2> DEFINE of == {i \in m - 4 .. m : ~OfSegment[i].ok}
             seen == {i \in 1 .. 5 : ~window[i].ok}
  <2>1. m >= 5 /\ n = 5 /\ off = m - 5
    BY <1>1, <1>6, <1>8 DEF ErrorMajority, MonitorWindow, m
  <2>2. Cardinality(of) >= 3
    <3>1. m - 5 + 1 = m - 4
      BY <1>6
    <3> QED
      BY <3>1 DEF ErrorMajority, MonitorWindow, MajorityErrorLimit, m
  <2>3. \A i \in 1 .. 5 : off + i \in m - 4 .. m /\ OfSegment[off + i].ok = window[i].ok
    BY <1>6, <1>7, <2>1
  <2>4. \A j \in m - 4 .. m : j - off \in 1 .. 5 /\ off + (j - off) = j
    BY <1>6, <2>1
  <2> DEFINE shift == [i \in seen |-> off + i]
  <2>5. shift \in Bijection(seen, of)
    <3>1. shift \in [seen -> of]
      BY <2>3
    <3>2. \A i, j \in seen : shift[i] = shift[j] => i = j
      BY <1>6, <2>1
    <3>3. \A j \in of : \E i \in seen : shift[i] = j
      <4> SUFFICES ASSUME NEW j \in of PROVE \E i \in seen : shift[i] = j
        OBVIOUS
      <4>1. j - off \in seen
        BY <2>3, <2>4
      <4>2. shift[j - off] = j
        BY <2>4, <4>1
      <4> QED
        BY <4>1, <4>2
    <3> QED
      BY <3>1, <3>2, <3>3 DEF Bijection, Injection, Surjection, IsInjective
  <2>6. IsFiniteSet(seen)
    <3>1. 1 \in Int /\ m - (m - 5) \in Int /\ m - (m - 5) = 5
      BY <1>6
    <3>2. IsFiniteSet(1 .. m - (m - 5))
      BY <3>1, FS_Interval
    <3>3. seen \in SUBSET (1 .. m - (m - 5))
      BY <3>1
    <3> QED
      BY <3>2, <3>3, FS_Subset
  <2>7. Cardinality(seen) = Cardinality(of)
    BY <2>5, <2>6, FS_Bijection DEF ExistsBijection
  <2>8. n - 5 + 1 = 1
    BY <2>1
  <2> QED
    BY <2>1, <2>2, <2>7, <2>8 DEF ErrorMajority, MonitorWindow, MajorityErrorLimit, n
<1> QED
  BY <1>9, <1>10

LEMMA LoopInductive == Spec => [](Inductive /\ WindowFollows /\ WindowCalm)
<1>1. Init => Inductive /\ WindowFollows /\ WindowCalm
  BY InductiveInit, LoopInit
<1>2. ASSUME Inductive, WindowFollows, WindowCalm, [Next]_vars
      PROVE  Inductive' /\ WindowFollows' /\ WindowCalm'
  <2>1. Inductive'
    BY <1>2, InductiveStep
  <2>2. CASE Next
    BY <1>2, <2>1, <2>2, LoopStep DEF Inductive
  <2>3. CASE UNCHANGED vars
    <3>1. UNCHANGED <<trail, window, segment>> /\ sm' = sm /\ step' = step
      BY <2>3 DEF vars, segmentVars, monitorVars, historyVars
    <3> QED
      BY <1>2, <2>1, <3>1, LoopUnmoved
  <2> QED
    BY <1>2, <2>1, <2>2, <2>3
<1> QED
  BY <1>1, <1>2, PTL DEF Spec

\* No inference follows a history of the segment in which the last three
\* steps were the same failure or most of the last five failed: the ring of
\* five steps is enough to tell.
THEOREM LoopsAreStopped == Spec => []NeverLoops
<1>1. Inductive /\ WindowFollows /\ WindowCalm => NeverLoops
  BY FollowsFinds DEF Inductive, WindowFollows, WindowCalm, NeverLoops
<1> QED
  BY <1>1, LoopInductive, PTL

============================================================================
