--------------------------- MODULE HarnessProofs ---------------------------
(***************************************************************************)
(* Theorems of the host's drive, for every deterministic workflow, every   *)
(* world it may run in, every crash point and every reset: its journal is  *)
(* always a run of the workflow, so replaying never diverges from it, the  *)
(* device performs every call once, and what is on record is what a run    *)
(* that nothing disturbed would have there.                                *)
(***************************************************************************)
EXTENDS Harness, WellFoundedInduction, TLAPS

IsSeq(s) == \E S : s \in Seq(S)

LEMMA TypedSeq ==
  ASSUME NEW s, NEW S, s \in Seq(S)
  PROVE  IsSeq(s)
BY DEF IsSeq

LEMMA AppendIsSeq ==
  ASSUME NEW s, IsSeq(s), NEW e
  PROVE  /\ IsSeq(Append(s, e))
         /\ Len(s) \in Nat /\ DOMAIN s = 1..Len(s)
         /\ Len(Append(s, e)) = Len(s) + 1
         /\ DOMAIN Append(s, e) = 1..(Len(s) + 1)
         /\ \A n \in 1..Len(s) : Append(s, e)[n] = s[n]
         /\ Append(s, e)[Len(s) + 1] = e
<1>1. PICK R : s \in Seq(R)
  BY DEF IsSeq
<1> DEFINE S == R \cup {e}
           t == Append(s, e)
<1>2. s \in Seq(S) /\ e \in S
  BY <1>1
<1> HIDE DEF S
<1>3. /\ t \in Seq(S) /\ Len(s) \in Nat /\ DOMAIN s = 1..Len(s)
      /\ Len(t) = Len(s) + 1 /\ DOMAIN t = 1..(Len(s) + 1)
      /\ \A n \in 1..Len(s) : t[n] = s[n]
      /\ t[Len(s) + 1] = e
  BY <1>2
<1> HIDE DEF t
<1>4. IsSeq(t)
  BY <1>3 DEF IsSeq
<1> QED
  BY <1>3, <1>4 DEF t

LEMMA NoneIsSeq ==
  ASSUME NEW s, s = <<>>
  PROVE  IsSeq(s) /\ Len(s) = 0
<1>1. s \in Seq({}) /\ Len(s) = 0
  OBVIOUS
<1> QED
  BY <1>1, TypedSeq

LEMMA SeqDomain ==
  ASSUME NEW s, IsSeq(s)
  PROVE  Len(s) \in Nat /\ DOMAIN s = 1..Len(s) /\ (Len(s) = 0 <=> s = <<>>)
BY DEF IsSeq

----------------------------------------------------------------------------
(* The world.                                                              *)

DeviceShape(device) ==
  /\ device = [level |-> device.level, clock |-> device.clock,
               effects |-> device.effects, ledger |-> device.ledger]
  /\ IsSeq(device.effects)

WorldShape(w) ==
  /\ w = [lines |-> w.lines, emitted |-> w.emitted, faults |-> w.faults,
          inputs |-> w.inputs, taken |-> w.taken, stuck |-> w.stuck,
          device |-> w.device, store |-> w.store]
  /\ IsSeq(w.lines) /\ w.emitted \in 0..Len(w.lines)
  /\ IsSeq(w.inputs) /\ w.taken \in 0..Len(w.inputs)
  /\ DeviceShape(w.device)

\* What is left of the device and of the planned faults.
SameDevice(v, w) == v.device = w.device /\ v.faults = w.faults

LEMMA WorldsShaped ==
  ASSUME NEW w \in Worlds
  PROVE  WorldShape(w) /\ w.device.effects = <<>>
<1>1. /\ w = NewWorld(w.lines, w.faults, w.inputs, w.stuck)
      /\ IsSeq(w.lines) /\ IsSeq(w.inputs)
  BY HarnessAssumption DEF IsSeq
<1>2. /\ w.emitted = 0 /\ w.taken = 0 /\ w.device = NewDevice
      /\ w = [lines |-> w.lines, emitted |-> w.emitted, faults |-> w.faults,
              inputs |-> w.inputs, taken |-> w.taken, stuck |-> w.stuck,
              device |-> w.device, store |-> w.store]
  BY <1>1 DEF NewWorld
<1>3. 0 \in 0..Len(w.lines) /\ 0 \in 0..Len(w.inputs)
  BY <1>1, SeqDomain
<1>4. DeviceShape(w.device) /\ w.device.effects = <<>>
  <2> DEFINE level == [pin \in 0..(PinCount - 1) |-> Low]
           effects == <<>>
  <2>1. w.device = [level |-> level, clock |-> 0, effects |-> effects, ledger |-> <<>>]
    BY <1>2 DEF NewDevice
  <2> HIDE DEF level, effects
  <2>2. IsSeq(effects)
    BY NoneIsSeq DEF effects
  <2>3. DeviceShape(w.device) /\ w.device.effects = effects
    BY <2>1, <2>2 DEF DeviceShape
  <2> QED
    BY <2>3 DEF effects
<1> QED
  BY <1>1, <1>2, <1>3, <1>4 DEF WorldShape

LEMMA InferShaped ==
  ASSUME NEW w, WorldShape(w)
  PROVE  WorldShape(Infer(w).world) /\ SameDevice(Infer(w).world, w)
<1>1. w.emitted \in Nat /\ Len(w.lines) \in Nat
  BY SeqDomain DEF WorldShape
<1>2. CASE w.emitted < Len(w.lines)
  <2> DEFINE v == [w EXCEPT !.emitted = @ + 1]
  <2>1. Infer(w).world = v
    BY <1>2 DEF Infer, Done
  <2>2. v = [lines |-> w.lines, emitted |-> w.emitted + 1, faults |-> w.faults,
             inputs |-> w.inputs, taken |-> w.taken, stuck |-> w.stuck,
             device |-> w.device, store |-> w.store]
    BY DEF WorldShape
  <2> HIDE DEF v
  <2> QED
    BY <1>1, <1>2, <2>1, <2>2 DEF WorldShape, SameDevice
<1>3. CASE ~(w.emitted < Len(w.lines))
  BY <1>3 DEF Infer, Failed, SameDevice
<1> QED
  BY <1>2, <1>3

LEMMA AskShaped ==
  ASSUME NEW w, WorldShape(w)
  PROVE  WorldShape(Ask(w).world) /\ SameDevice(Ask(w).world, w)
<1>1. w.taken \in Nat /\ Len(w.inputs) \in Nat
  BY SeqDomain DEF WorldShape
<1>2. CASE w.taken < Len(w.inputs)
  <2> DEFINE v == [w EXCEPT !.taken = @ + 1]
  <2>1. Ask(w).world = v
    BY <1>2 DEF Ask, Done
  <2>2. v = [lines |-> w.lines, emitted |-> w.emitted, faults |-> w.faults,
             inputs |-> w.inputs, taken |-> w.taken + 1, stuck |-> w.stuck,
             device |-> w.device, store |-> w.store]
    BY DEF WorldShape
  <2> HIDE DEF v
  <2> QED
    BY <1>1, <1>2, <2>1, <2>2 DEF WorldShape, SameDevice
<1>3. CASE ~(w.taken < Len(w.inputs))
  BY <1>3 DEF Ask, SameDevice
<1> QED
  BY <1>2, <1>3

\* Storing changes the store, and taking back a line or an input their counts.
LEMMA OthersShaped ==
  ASSUME NEW w, WorldShape(w)
  PROVE  /\ \A store : LET v == [w EXCEPT !.store = store]
                       IN WorldShape(v) /\ SameDevice(v, w)
         /\ WorldShape(Unemitted(w)) /\ SameDevice(Unemitted(w), w)
         /\ WorldShape(Untaken(w)) /\ SameDevice(Untaken(w), w)
<1>0. /\ w.emitted \in Nat /\ Len(w.lines) \in Nat
      /\ w.taken \in Nat /\ Len(w.inputs) \in Nat
  BY SeqDomain DEF WorldShape
<1>1. ASSUME NEW store
      PROVE  LET v == [w EXCEPT !.store = store]
             IN WorldShape(v) /\ SameDevice(v, w)
  <2> DEFINE v == [w EXCEPT !.store = store]
  <2>1. v = [lines |-> w.lines, emitted |-> w.emitted, faults |-> w.faults,
             inputs |-> w.inputs, taken |-> w.taken, stuck |-> w.stuck,
             device |-> w.device, store |-> store]
    BY DEF WorldShape
  <2> HIDE DEF v
  <2>2. WorldShape(v) /\ SameDevice(v, w)
    BY <2>1 DEF WorldShape, SameDevice
  <2> QED
    BY <2>2 DEF v
<1>2. WorldShape(Unemitted(w)) /\ SameDevice(Unemitted(w), w)
  <2> DEFINE e == IF w.emitted = 0 THEN 0 ELSE w.emitted - 1
  <2>1. Unemitted(w) = [lines |-> w.lines, emitted |-> e, faults |-> w.faults,
             inputs |-> w.inputs, taken |-> w.taken, stuck |-> w.stuck,
             device |-> w.device, store |-> w.store]
    BY DEF WorldShape, Unemitted
  <2>2. e \in 0..Len(w.lines)
    BY <1>0 DEF WorldShape
  <2> HIDE DEF e
  <2> QED
    BY <2>1, <2>2 DEF WorldShape, SameDevice
<1>3. WorldShape(Untaken(w)) /\ SameDevice(Untaken(w), w)
  <2> DEFINE t == IF w.taken = 0 THEN 0 ELSE w.taken - 1
  <2>1. Untaken(w) = [lines |-> w.lines, emitted |-> w.emitted, faults |-> w.faults,
             inputs |-> w.inputs, taken |-> t, stuck |-> w.stuck,
             device |-> w.device, store |-> w.store]
    BY DEF WorldShape, Untaken
  <2>2. t \in 0..Len(w.inputs)
    BY <1>0 DEF WorldShape
  <2> HIDE DEF t
  <2> QED
    BY <2>1, <2>2 DEF WorldShape, SameDevice
<1> QED
  BY <1>1, <1>2, <1>3

\* More input lets what was taken stand.
LEMMA InputShaped ==
  ASSUME NEW w, WorldShape(w), NEW input
  PROVE  LET v == [w EXCEPT !.inputs = Append(@, input)]
         IN WorldShape(v) /\ SameDevice(v, w)
<1> DEFINE i == Append(w.inputs, input)
           v == [w EXCEPT !.inputs = i]
<1>1. IsSeq(i) /\ Len(i) = Len(w.inputs) + 1 /\ Len(w.inputs) \in Nat
  BY AppendIsSeq DEF WorldShape
<1>2. w.taken \in 0..Len(i)
  BY <1>1 DEF WorldShape
<1> HIDE DEF i
<1>3. v = [lines |-> w.lines, emitted |-> w.emitted, faults |-> w.faults,
           inputs |-> i, taken |-> w.taken, stuck |-> w.stuck,
           device |-> w.device, store |-> w.store]
  BY DEF WorldShape
<1> HIDE DEF v
<1>4. WorldShape(v) /\ SameDevice(v, w)
  BY <1>1, <1>2, <1>3 DEF WorldShape, SameDevice
<1> QED
  BY <1>4 DEF v, i

----------------------------------------------------------------------------
(* The device.                                                             *)

\* No two effects have one name.
NamedOnce(effects) ==
  \A m, n \in DOMAIN effects : effects[m].id = effects[n].id => m = n

\* A set of numbers has a least one.
LEMMA LeastNumber ==
  ASSUME NEW T \in SUBSET Nat, T # {}
  PROVE  Min(T) \in T
<1> DEFINE Less == {p \in Nat \X Nat : p[1] < p[2]}
<1>1. IsWellFoundedOn(Less, Nat)
  BY NatLessThanWellFounded DEF OpToRel
<1>2. PICK i \in T : \A j \in T : ~(<<j, i>> \in Less)
  <2> HIDE DEF Less
  <2> QED
    BY <1>1, WFMin
<1>3. ASSUME NEW j \in T
      PROVE  i =< j
  <2>1. i \in Nat /\ j \in Nat
    OBVIOUS
  <2>2. <<j, i>> \in Nat \X Nat /\ <<j, i>>[1] = j /\ <<j, i>>[2] = i
    BY <2>1
  <2>3. ~(j < i)
    BY <1>2, <2>2
  <2> QED
    BY <2>1, <2>3
<1>4. \E n \in T : \A j \in T : n =< j
  BY <1>3
<1> QED
  BY <1>4 DEF Min

\* What a call does to the pins and the clock leaves the effects.
LEMMA PhysicalShaped ==
  ASSUME NEW w, WorldShape(w), NEW call, NEW seq
  PROVE  LET done == Physical(w, call, seq)
         IN DeviceShape(done.device) /\ done.device.effects = w.device.effects
<1> DEFINE d == w.device
           done == Physical(w, call, seq)
<1>1. /\ DeviceShape(d)
      /\ d = [level |-> d.level, clock |-> d.clock, effects |-> d.effects,
              ledger |-> d.ledger]
  BY DEF WorldShape, DeviceShape
<1>2. \/ done.device = d
      \/ \E level, ledger : done.device = [d EXCEPT !.level = level, !.ledger = ledger]
      \/ \E clock : done.device = [d EXCEPT !.clock = clock]
  <2>1. CASE call.tool = "write"
    <3> DEFINE level == [d.level EXCEPT ![call.resource] =
                           IF call.resource \in w.stuck THEN @ ELSE call.value]
               ledger == Append(d.ledger, [pin |-> call.resource, level |-> call.value,
                                           seq |-> seq])
    <3>1. done.device = [d EXCEPT !.level = level, !.ledger = ledger]
      BY <1>1, <2>1 DEF Physical
    <3> QED
      BY <3>1
  <2>2. CASE call.tool = "delay"
    <3>1. done.device = [d EXCEPT !.clock = d.clock + call.value]
      BY <1>1, <2>2 DEF Physical
    <3> QED
      BY <3>1
  <2>3. CASE call.tool # "write" /\ call.tool # "delay"
    BY <2>3 DEF Physical
  <2> QED
    BY <2>1, <2>2, <2>3
<1> HIDE DEF done, d
<1>3. \E level, clock, ledger :
        done.device = [level |-> level, clock |-> clock, effects |-> d.effects,
                       ledger |-> ledger]
  BY <1>1, <1>2
<1>4. DeviceShape(done.device) /\ done.device.effects = d.effects
  BY <1>1, <1>3 DEF DeviceShape
<1> QED
  BY <1>4 DEF done, d

\* A call that is performed is one more effect, whose outcome is the answer.
IsPerformed(w, served, id, call) ==
  /\ served.world.faults = w.faults
  /\ \E outcome :
       /\ served.answer = [completed |-> TRUE, value |-> outcome]
       /\ served.world.device.effects =
            Append(w.device.effects, Effect(id, call.digest, outcome))

LEMMA PerformShaped ==
  ASSUME NEW w, WorldShape(w), NEW id, NEW call,
         NEW served, served = Perform(w, id, call)
  PROVE  WorldShape(served.world) /\ IsPerformed(w, served, id, call)
<1> DEFINE done == Physical(w, call, id.seq)
           d == done.device
           o == done.outcome
           e == Effect(id, call.digest, o)
           effects == Append(d.effects, e)
           device == [d EXCEPT !.effects = effects]
           v == [w EXCEPT !.device = device]
<1>1. Perform(w, id, call) = [world |-> v, answer |-> [completed |-> TRUE, value |-> o]]
  BY DEF Perform, Done
<1>2. DeviceShape(d) /\ d.effects = w.device.effects
  BY PhysicalShaped
<1>3. IsSeq(effects)
  BY <1>2, AppendIsSeq DEF DeviceShape
<1>e. effects = Append(w.device.effects, e)
  BY <1>2
<1> HIDE DEF done, o, e
<1> HIDE DEF d
<1> HIDE DEF effects
<1>4. device = [level |-> d.level, clock |-> d.clock, effects |-> effects,
                ledger |-> d.ledger]
  BY <1>2 DEF DeviceShape
<1> HIDE DEF device
<1>5. DeviceShape(device) /\ device.effects = effects
  BY <1>3, <1>4 DEF DeviceShape
<1>6. v = [lines |-> w.lines, emitted |-> w.emitted, faults |-> w.faults,
           inputs |-> w.inputs, taken |-> w.taken, stuck |-> w.stuck,
           device |-> device, store |-> w.store]
  BY DEF WorldShape
<1> HIDE DEF v
<1>7. WorldShape(v) /\ v.faults = w.faults /\ v.device.effects = effects
  BY <1>5, <1>6 DEF WorldShape
<1>8. served.world = v /\ served.answer = [completed |-> TRUE, value |-> o]
  BY <1>1
<1>9. served.world.device.effects = Append(w.device.effects, Effect(id, call.digest, o))
  BY <1>7, <1>8, <1>e DEF e
<1> QED
  BY <1>7, <1>8, <1>9 DEF IsPerformed

\* A planned fault reaches nothing; a name that was used is answered for its own
\* arguments and refused for others; any other call is performed, or its resource
\* is unknown.
MeetsFault(w, served) ==
  /\ served.world.device.effects = w.device.effects
  /\ served.answer = [completed |-> TRUE, value |-> Transient]

IsRefused(w, served, id, call) ==
  /\ served.world = w
  /\ ~served.answer.completed
  /\ \A n \in DOMAIN w.device.effects :
       ~(w.device.effects[n].id = id /\ w.device.effects[n].digest = call.digest)

IsRepeated(w, served, id) ==
  /\ served.world = w
  /\ \E n \in DOMAIN w.device.effects :
       /\ w.device.effects[n].id = id
       /\ served.answer = [completed |-> TRUE, value |-> w.device.effects[n].outcome]

LEMMA ToolServed ==
  ASSUME NEW w, WorldShape(w), NamedOnce(w.device.effects), NEW id, NEW call,
         NEW served, served = Tool(w, id, call)
  PROVE  /\ WorldShape(served.world)
         /\ IF Matching(w.faults, call.tool, Resource(call)) # {} THEN MeetsFault(w, served)
            ELSE \/ IsRefused(w, served, id, call)
                 \/ IsRepeated(w, served, id)
                 \/ /\ IsPerformed(w, served, id, call)
                    /\ \A n \in DOMAIN w.device.effects : w.device.effects[n].id # id
<1> DEFINE effects == w.device.effects
           planned == Matching(w.faults, call.tool, Resource(call))
           done == PerformedAs(w.device, id)
           m == Min(done)
<1>0. done = {n \in DOMAIN effects : effects[n].id = id}
  BY DEF PerformedAs
<1>1. CASE planned # {}
  <2> DEFINE faults == Consumed(w.faults, call.tool, Resource(call))
             x == [w EXCEPT !.faults = faults]
  <2>1. served = [world |-> x, answer |-> [completed |-> TRUE, value |-> Transient]]
    BY <1>1 DEF Tool, Done
  <2> HIDE DEF faults
  <2>2. x = [lines |-> w.lines, emitted |-> w.emitted, faults |-> faults,
             inputs |-> w.inputs, taken |-> w.taken, stuck |-> w.stuck,
             device |-> w.device, store |-> w.store]
    BY DEF WorldShape
  <2> HIDE DEF x
  <2>3. WorldShape(x) /\ x.device = w.device
    BY <2>2 DEF WorldShape
  <2> QED
    BY <1>1, <2>1, <2>3 DEF MeetsFault
<1>2. CASE planned = {} /\ done # {}
  <2>1. served = Dispatch(w, id, call)
    BY <1>2 DEF Tool
  <2>2. m \in done
    <3>1. IsSeq(effects)
      BY DEF WorldShape, DeviceShape
    <3>2. done \in SUBSET Nat
      BY <1>0, <3>1, SeqDomain
    <3> QED
      BY <1>2, <3>2, LeastNumber
  <2>3. m \in DOMAIN effects /\ effects[m].id = id
    BY <1>0, <2>2
  <2>4. CASE effects[m].digest = call.digest
    <3>1. /\ served.world = w
          /\ served.answer = [completed |-> TRUE, value |-> effects[m].outcome]
      BY <1>2, <2>1, <2>4 DEF Dispatch, Done
    <3> HIDE DEF m
    <3>2. IsRepeated(w, served, id)
      BY <2>3, <3>1 DEF IsRepeated
    <3> QED
      BY <1>2, <3>1, <3>2
  <2>5. CASE effects[m].digest # call.digest
    <3>1. served.world = w /\ ~served.answer.completed
      BY <1>2, <2>1, <2>5 DEF Dispatch, Failed
    <3> HIDE DEF m
    <3>2. IsRefused(w, served, id, call)
      BY <2>3, <2>5, <3>1 DEF NamedOnce, IsRefused
    <3> QED
      BY <1>2, <3>1, <3>2
  <2> QED
    BY <2>4, <2>5
<1>3. CASE planned = {} /\ done = {}
  <2>1. \A n \in DOMAIN effects : effects[n].id # id
    BY <1>0, <1>3
  <2>2. CASE call.tool = "sample" /\ call.resource >= SensorCount
    <3>1. served.world = w /\ ~served.answer.completed
      BY <1>3, <2>2 DEF Tool, Dispatch, Failed
    <3> QED
      BY <1>3, <2>1, <3>1 DEF IsRefused
  <2>3. CASE ~(call.tool = "sample" /\ call.resource >= SensorCount)
    <3>1. served = Perform(w, id, call)
      BY <1>3, <2>3 DEF Tool, Dispatch
    <3> QED
      BY <1>3, <2>1, <3>1, PerformShaped
  <2> QED
    BY <2>2, <2>3
<1> QED
  BY <1>1, <1>2, <1>3

\* The other ports leave the device and the planned faults.
LEMMA OtherServed ==
  ASSUME NEW w, WorldShape(w), NEW run, NEW request, request.kind # "TOOL"
  PROVE  LET v == Served(w, run, request).world
         IN WorldShape(v) /\ SameDevice(v, w)
<1> DEFINE v == Served(w, run, request).world
<1>1. CASE request.kind = "INFER"
  BY <1>1, InferShaped DEF Served
<1>2. CASE request.kind = "ASK"
  BY <1>2, AskShaped DEF Served
<1>3. CASE request.kind = "SNAP_STORE"
  <2>1. v = [w EXCEPT !.store = w.store \cup {request.chunk}]
    BY <1>3 DEF Served, StoreChunk, Done
  <2> QED
    BY <2>1, OthersShaped
<1>4. CASE request.kind \notin {"INFER", "ASK", "SNAP_STORE"}
  <2>1. v = w
    BY <1>4 DEF Served, ReadBack, LoadChunk, Done, Failed
  <2> QED
    BY <2>1 DEF SameDevice
<1> QED
  BY <1>1, <1>2, <1>3, <1>4

----------------------------------------------------------------------------
(* The shapes of a drive's state.                                          *)

JournalShape(j) ==
  /\ j = [input |-> j.input, records |-> j.records, terminal |-> j.terminal,
          continued |-> j.continued, commits |-> j.commits]
  /\ IsSeq(j.records) /\ j.commits \in Nat

BootShape(b) ==
  /\ DOMAIN b = {"at", "run", "dispatched", "answer"}
  /\ b.at \in Nat /\ b.dispatched \in BOOLEAN
  /\ b.answer # Nothing => b.dispatched

\* The records that were counted and not kept are those that resets took, and a
\* drive has one reset.
Counted ==
  /\ journal.commits \in Len(journal.records)..(Len(journal.records) + drives)
  /\ reset # NoReset => journal.commits < Len(journal.records) + drives

\* A journal is bound to the run's start before anything is recorded in it.
Bound ==
  /\ journal.input = <<>> => journal = NewJournal
  /\ phase \in {"boot", "up", "finish"} => journal.input = <<Start>>

Shaped ==
  /\ phase \in {"bind", "boot", "up", "finish", "returned"}
  /\ JournalShape(journal) /\ BootShape(boot) /\ WorldShape(world) /\ IsSeq(past)
  /\ boots \in 0..MAX_BOOTS /\ drives \in 1..MaxDrives
  /\ Counted
  /\ Bound

LEMMA NewJournalShaped ==
  JournalShape(NewJournal) /\ Len(NewJournal.records) = 0 /\ NewJournal.commits = 0
    /\ NewJournal.input = <<>>
<1> DEFINE r == <<>>
<1>1. NewJournal = [input |-> <<>>, records |-> r, terminal |-> <<>>,
                    continued |-> <<>>, commits |-> 0]
  BY DEF NewJournal
<1> HIDE DEF r
<1>2. IsSeq(r) /\ Len(r) = 0
  BY NoneIsSeq DEF r
<1> HIDE DEF NewJournal
<1> QED
  BY <1>1, <1>2 DEF JournalShape

LEMMA BootsShaped ==
  /\ BootShape(NewBoot) /\ NewBoot.at = 0 /\ ~NewBoot.dispatched
  /\ \A run : LET b == [NewBoot EXCEPT !.run = run]
              IN /\ BootShape(b)
                 /\ b.at = 0 /\ b.run = run /\ ~b.dispatched /\ b.answer = Nothing
  /\ \A answer : \A at \in Nat :
       LET b == Answered(answer, at)
       IN /\ BootShape(b)
          /\ b.at = at /\ b.run = After(boot.run, answer)
          /\ ~b.dispatched /\ b.answer = Nothing
<1>1. BootShape(NewBoot) /\ NewBoot.at = 0 /\ ~NewBoot.dispatched
  BY DEF BootShape, NewBoot
<1>2. ASSUME NEW run
      PROVE  LET b == [NewBoot EXCEPT !.run = run]
             IN /\ BootShape(b)
                /\ b.at = 0 /\ b.run = run /\ ~b.dispatched /\ b.answer = Nothing
  BY DEF BootShape, NewBoot
<1>3. ASSUME NEW answer, NEW at \in Nat
      PROVE  LET b == Answered(answer, at)
             IN /\ BootShape(b)
                /\ b.at = at /\ b.run = After(boot.run, answer)
                /\ ~b.dispatched /\ b.answer = Nothing
  BY DEF BootShape, Answered
<1> QED
  BY <1>1, <1>2, <1>3

\* A boot that hands its request on.
HandedOn == [boot EXCEPT !.dispatched = TRUE, !.at = @ + 1]

LEMMA HandedOnShaped ==
  ASSUME BootShape(boot)
  PROVE  /\ BootShape(HandedOn)
         /\ HandedOn.at = boot.at + 1 /\ HandedOn.run = boot.run
         /\ HandedOn.dispatched /\ HandedOn.answer = boot.answer
BY DEF BootShape, HandedOn

\* A record that is counted is kept, unless a reset takes it.
LEMMA Recorded ==
  ASSUME Shaped, NEW record, Record(record), drives' = drives
  PROVE  /\ JournalShape(journal') /\ Counted'
         /\ journal'.input = journal.input
         /\ journal'.terminal = journal.terminal
         /\ journal'.continued = journal.continued
         /\ journal'.records = IF StruckBefore THEN journal.records
                               ELSE Append(journal.records, record)
<1> DEFINE r == IF StruckBefore THEN journal.records ELSE Append(journal.records, record)
           commits == journal.commits + 1
<1>0. JournalShape(journal) /\ Counted /\ drives \in Nat
  BY DEF Shaped
<1>1. journal' = [input |-> journal.input, records |-> r, terminal |-> journal.terminal,
                  continued |-> journal.continued, commits |-> commits]
  BY <1>0 DEF Record, JournalShape
<1>2. /\ IsSeq(r) /\ Len(journal.records) \in Nat /\ journal.commits \in Nat
      /\ Len(r) = IF StruckBefore THEN Len(journal.records) ELSE Len(journal.records) + 1
  BY <1>0, AppendIsSeq DEF JournalShape
<1>3. reset' = IF Struck THEN NoReset ELSE reset
  BY DEF Record
<1> HIDE DEF r
<1>4. JournalShape(journal')
  BY <1>1, <1>2 DEF JournalShape
<1>5. Counted'
  <2>1. Len(journal'.records) = Len(r) /\ journal'.commits = commits
    BY <1>1
  <2>2. commits \in Len(r)..(Len(r) + drives)
    BY <1>0, <1>2 DEF Counted, StruckBefore, Struck
  <2>3. reset' # NoReset => commits < Len(r) + drives
    BY <1>0, <1>2, <1>3 DEF Counted, StruckBefore, Struck
  <2> QED
    BY <2>1, <2>2, <2>3 DEF Counted
<1>6. journal'.records = r
  BY <1>1
<1> QED
  BY <1>1, <1>4, <1>5, <1>6 DEF r

LEMMA TakenBackShaped ==
  ASSUME WorldShape(world)
  PROVE  WorldShape(TakenBack) /\ SameDevice(TakenBack, world)
BY OthersShaped DEF TakenBack, SameDevice

LEMMA ServedShaped ==
  ASSUME WorldShape(world), NamedOnce(world.device.effects), NEW run, NEW request
  PROVE  WorldShape(Served(world, run, request).world)
<1>1. CASE request.kind = "TOOL"
  <2>1. Served(world, run, request) =
          Tool(world, [run |-> run, seq |-> request.call.seq], request.call)
    BY <1>1 DEF Served
  <2> QED
    BY <2>1, ToolServed
<1>2. CASE request.kind # "TOOL"
  BY <1>2, OtherServed
<1> QED
  BY <1>1, <1>2

LEMMA ShapedInit ==
  ASSUME Init
  PROVE  Shaped
<1>1. JournalShape(journal) /\ Len(journal.records) = 0 /\ journal.commits = 0
  BY NewJournalShaped DEF Init
<1>2. WorldShape(world)
  BY WorldsShaped DEF Init
<1>3. BootShape(boot)
  BY BootsShaped DEF Init
<1>4. IsSeq(past)
  BY NoneIsSeq DEF Init
<1>5. MaxDrives \in Nat \ {0} /\ MAX_BOOTS \in Nat \ {0}
  BY HarnessAssumption
<1>6. phase = "bind" /\ journal = NewJournal /\ drives = 1 /\ boots = 0
  BY DEF Init
<1> QED
  BY <1>1, <1>2, <1>3, <1>4, <1>5, <1>6 DEF Shaped, Counted, Bound

LEMMA ShapedStep ==
  ASSUME Shaped, NamedOnce(world.device.effects), Next
  PROVE  Shaped'
<1> USE DEF Error, Returns, Start
<1>0. /\ JournalShape(journal) /\ BootShape(boot) /\ WorldShape(world) /\ IsSeq(past)
      /\ boots \in 0..MAX_BOOTS /\ drives \in 1..MaxDrives /\ Counted /\ Bound
      /\ MAX_BOOTS \in Nat /\ MaxDrives \in Nat
      /\ Len(journal.records) \in Nat
  BY HarnessAssumption, SeqDomain DEF Shaped, JournalShape
<1>1. CASE Bind
  <2>1. CASE Valid(seed) /\ journal.input = <<>>
    <3>1. /\ phase' = "boot" /\ journal' = [journal EXCEPT !.input = <<Start>>]
          /\ world' = [world EXCEPT !.store = handoff] /\ boots' = 0
          /\ UNCHANGED <<seed, handoff, past, boot, reset, drives>>
      BY <1>1, <2>1 DEF Bind
    <3> DEFINE input == <<Start>>
    <3>2. journal'.input = input /\ journal'.records = journal.records
          /\ journal'.commits = journal.commits /\ input # <<>> /\ JournalShape(journal')
      BY <1>0, <3>1 DEF JournalShape
    <3>3. WorldShape(world')
      BY <1>0, <3>1, OthersShaped
    <3>4. Bound'
      BY <3>1, <3>2 DEF Bound
    <3> QED
      BY <1>0, <3>1, <3>2, <3>3, <3>4 DEF Shaped, Counted
  <2>2. CASE ~Valid(seed) \/ journal.input # <<>>
    BY <1>0, <1>1, <2>2 DEF Bind, Shaped, Counted, Bound
  <2> QED
    BY <2>1, <2>2
<1>2. CASE Boot
  <2>1. BootShape(boot')
    BY <1>0, <1>2, BootsShaped DEF Boot
  <2>2. boots' \in 0..MAX_BOOTS
    BY <1>0, <1>2 DEF Boot
  <2>3. phase' \in {"returned", "finish", "up"} /\ phase = "boot"
        /\ UNCHANGED <<seed, handoff, journal, past, world, reset, drives>>
    BY <1>2 DEF Boot
  <2> QED
    BY <1>0, <2>1, <2>2, <2>3 DEF Shaped, Counted, Bound
<1>3. CASE Replay
  <2>1. BootShape(boot')
    BY <1>0, <1>3, BootsShaped DEF Replay, BootShape
  <2>2. phase' \in {phase, "returned"}
        /\ UNCHANGED <<seed, handoff, journal, past, world, boots, reset, drives>>
    BY <1>3 DEF Replay
  <2> QED
    BY <1>0, <2>1, <2>2 DEF Shaped, Counted, Bound
<1>4. CASE Redeliver
  <2>1. BootShape(boot')
    BY <1>0, <1>4, HandedOnShaped DEF Redeliver, HandedOn
  <2>2. UNCHANGED <<phase, seed, handoff, journal, past, world, boots, reset, drives>>
    BY <1>4 DEF Redeliver
  <2> QED
    BY <1>0, <2>1, <2>2 DEF Shaped, Counted, Bound
<1>5. CASE Diverge
  BY <1>0, <1>5 DEF Diverge, Shaped, Counted, Bound
<1>6. CASE ScheduleNew
  <2>1. /\ Record(Scheduled(Wanted.request)) /\ phase = "up" /\ phase' \in {"up", "boot"}
        /\ boot' \in {NewBoot, [boot EXCEPT !.dispatched = TRUE, !.at = @ + 1]}
        /\ UNCHANGED <<seed, handoff, past, world, boots, drives>>
    BY <1>6 DEF ScheduleNew, Requests, Down
  <2>2. BootShape(boot')
    BY <1>0, <2>1, BootsShaped, HandedOnShaped DEF HandedOn
  <2>3. JournalShape(journal') /\ Counted' /\ journal'.input = journal.input
    BY <2>1, Recorded
  <2>4. journal.input = <<Start>>
    BY <1>0, <2>1 DEF Bound
  <2> QED
    BY <1>0, <2>1, <2>2, <2>3, <2>4 DEF Shaped, Bound
<1>7. CASE Dispatched
  <2>1. /\ phase = "up" /\ phase' \in {"up", "finish"} /\ boot.dispatched
        /\ world' = Served(world, seed.id, Wanted.request).world
        /\ UNCHANGED <<seed, handoff, journal, past, boots, reset, drives>>
    BY <1>7 DEF Dispatched
  <2>2. BootShape(boot')
    BY <1>0, <1>7 DEF Dispatched, BootShape
  <2>3. WorldShape(world')
    BY <1>0, <2>1, ServedShaped
  <2> QED
    BY <1>0, <2>1, <2>2, <2>3 DEF Shaped, Counted, Bound
<1>8. CASE ResolveCrashed
  <2>1. /\ phase = "up" /\ phase' = "boot" /\ boot' = NewBoot /\ world' = TakenBack
        /\ UNCHANGED <<seed, handoff, journal, past, boots, reset, drives>>
    BY <1>8 DEF ResolveCrashed, Resolves, Down
  <2> QED
    BY <1>0, <2>1, BootsShaped, TakenBackShaped DEF Shaped, Counted, Bound
<1>9. CASE ResolveLost \/ Resolve
  <2>1. /\ phase = "up" /\ phase' \in {"up", "boot"}
        /\ \E answer : Record(Resolved(answer))
        /\ world' \in {world, TakenBack}
        /\ UNCHANGED <<seed, handoff, past, boots, drives>>
    BY <1>9 DEF ResolveLost, Resolve, Resolves, Down
  <2>2. boot' \in {NewBoot, Answered(boot.answer, boot.at + 1)}
    BY <1>9 DEF ResolveLost, Resolve, Down
  <2>3. BootShape(boot')
    BY <1>0, <2>2, BootsShaped DEF BootShape
  <2>4. JournalShape(journal') /\ Counted' /\ journal'.input = journal.input
    BY <2>1, Recorded
  <2>5. journal.input = <<Start>>
    BY <1>0, <2>1 DEF Bound
  <2> QED
    BY <1>0, <2>1, <2>3, <2>4, <2>5, TakenBackShaped DEF Shaped, Bound
<1>10. CASE WorkflowFails \/ Confirm
  <2>1. /\ phase = "up" /\ phase' \in {"finish", "returned"}
        /\ UNCHANGED <<seed, handoff, journal, past, world, boot, boots, reset, drives>>
    BY <1>10 DEF WorkflowFails, Confirm, Concludes
  <2> QED
    BY <1>0, <2>1 DEF Shaped, Counted, Bound
<1>11. CASE ContinueAsNew \/ Conclude
  <2>1. /\ phase = "up" /\ phase' \in {"boot", "finish"}
        /\ boot' \in {boot, NewBoot}
        /\ UNCHANGED <<seed, handoff, past, world, boots, reset, drives>>
        /\ \/ journal' = journal
           \/ \E v : journal' = [journal EXCEPT !.continued = v]
           \/ \E v : journal' = [journal EXCEPT !.terminal = v]
    BY <1>11 DEF ContinueAsNew, Conclude, Concludes, Down
  <2>2. /\ JournalShape(journal') /\ journal'.input = journal.input
        /\ journal'.records = journal.records /\ journal'.commits = journal.commits
    BY <1>0, <2>1 DEF JournalShape
  <2>3. journal.input = <<Start>>
    BY <1>0, <2>1 DEF Bound
  <2> QED
    BY <1>0, <2>1, <2>2, <2>3, BootsShaped DEF Shaped, Counted, Bound
<1>12. CASE Finish
  BY <1>0, <1>12 DEF Finish, Shaped, Counted, Bound
<1>13. CASE NextSegment
  <2>1. CASE journal.continued[1].chunks \subseteq world.store
    <3>1. /\ phase' = "bind" /\ journal' = NewJournal /\ reset' = NoReset
          /\ past' = Append(past, [seed |-> seed, journal |-> journal])
          /\ UNCHANGED <<world, boot, boots, drives>>
      BY <1>13, <2>1 DEF NextSegment
    <3>2. JournalShape(journal') /\ Len(journal'.records) = 0 /\ journal'.commits = 0
      BY <3>1, NewJournalShaped
    <3>3. IsSeq(past')
      BY <1>0, <3>1, AppendIsSeq
    <3> QED
      BY <1>0, <3>1, <3>2, <3>3 DEF Shaped, Counted, Bound
  <2>2. CASE ~(journal.continued[1].chunks \subseteq world.store)
    BY <1>0, <1>13, <2>2 DEF NextSegment, Shaped, Counted, Bound
  <2> QED
    BY <2>1, <2>2
<1>14. CASE DriveAgain
  <2>1. /\ phase' = "bind" /\ drives' = drives + 1 /\ drives < MaxDrives
        /\ world' = [world EXCEPT !.inputs = Append(@, LateInput)]
        /\ UNCHANGED <<handoff, journal, past, boot, boots>>
    BY <1>14 DEF DriveAgain
  <2>2. WorldShape(world')
    BY <1>0, <2>1, InputShaped
  <2> QED
    BY <1>0, <2>1, <2>2 DEF Shaped, Counted, Bound
<1> QED
  BY <1>1, <1>2, <1>3, <1>4, <1>5, <1>6, <1>7, <1>8, <1>9, <1>10, <1>11, <1>12, <1>13, <1>14
  DEF Next, Driving

----------------------------------------------------------------------------
(* A journal is a run of the workflow.                                     *)

\* Where the workflow stands after each of its answers: every request of the
\* journal is what it wanted there, and every answer took it on.
Follows(f, j) ==
  /\ f[0] = Begin(j.input[1])
  /\ \A p \in Nat : 2 * p + 1 =< Len(j.records) =>
       f[p].want.op = "activity" /\ j.records[2 * p + 1] = Scheduled(f[p].want.request)
  /\ \A p \in Nat : 2 * p + 2 =< Len(j.records) =>
       /\ j.records[2 * p + 2].is = "Resolved"
       /\ f[p + 1] = After(f[p], j.records[2 * p + 2].answer)

\* The end of a journal is what the workflow wanted after its last answer.
Ends(f, j) ==
  /\ j.terminal # <<>> =>
       \E p \in Nat : /\ Len(j.records) = 2 * p /\ f[p].want.op = "conclude"
                      /\ j.terminal = <<f[p].want.status>>
  /\ j.continued # <<>> =>
       \E p \in Nat : /\ Len(j.records) = 2 * p /\ f[p].want.op = "continue"
                      /\ j.continued = <<f[p].want.start>>

\* A boot stands where the journal's run stood, and hands its last request on.
Stands(f, b, j) ==
  \E p \in Nat :
    /\ b.run = f[p]
    /\ IF b.dispatched THEN b.at = 2 * p + 1 /\ b.at = Len(j.records)
       ELSE b.at = 2 * p /\ b.at =< Len(j.records)

Runs ==
  \E f : /\ Follows(f, journal) /\ Ends(f, journal)
         /\ phase = "up" => Stands(f, boot, journal)

\* Every request has its answer.
AllAnswered(j) ==
  j.records = <<>> \/ j.records[Len(j.records)].is = "Resolved"

LEMMA FollowsScheduled ==
  ASSUME NEW f, NEW j, NEW k, IsSeq(j.records), Follows(f, j), NEW p \in Nat,
         Len(j.records) = 2 * p, f[p].want.op = "activity", k.input = j.input,
         k.records = Append(j.records, Scheduled(f[p].want.request))
  PROVE  Follows(f, k)
<1> DEFINE e == Scheduled(f[p].want.request)
<1> HIDE DEF e
<1>1. /\ Len(k.records) = 2 * p + 1
      /\ \A n \in 1..(2 * p) : k.records[n] = j.records[n]
      /\ k.records[2 * p + 1] = e
  BY AppendIsSeq DEF e
<1>2. f[0] = Begin(k.input[1])
  BY DEF Follows
<1>3. ASSUME NEW q \in Nat, 2 * q + 1 =< Len(k.records)
      PROVE  f[q].want.op = "activity"
               /\ k.records[2 * q + 1] = Scheduled(f[q].want.request)
  <2>1. CASE q = p
    BY <1>1, <2>1 DEF e
  <2>2. CASE q # p
    <3>1. 2 * q + 1 =< Len(j.records) /\ 2 * q + 1 \in 1..(2 * p)
      BY <1>1, <1>3, <2>2
    <3> QED
      BY <1>1, <3>1 DEF Follows
  <2> QED
    BY <2>1, <2>2
<1>4. ASSUME NEW q \in Nat, 2 * q + 2 =< Len(k.records)
      PROVE  /\ k.records[2 * q + 2].is = "Resolved"
             /\ f[q + 1] = After(f[q], k.records[2 * q + 2].answer)
  <2>1. 2 * q + 2 =< Len(j.records) /\ 2 * q + 2 \in 1..(2 * p)
    BY <1>1, <1>4
  <2> QED
    BY <1>1, <2>1 DEF Follows
<1> QED
  BY <1>2, <1>3, <1>4 DEF Follows

LEMMA FollowsResolved ==
  ASSUME NEW f, NEW j, NEW k, IsSeq(j.records), Follows(f, j), NEW p \in Nat,
         Len(j.records) = 2 * p + 1, k.input = j.input, NEW answer,
         k.records = Append(j.records, Resolved(answer))
  PROVE  \E g : Follows(g, k) /\ g[p + 1] = After(f[p], answer)
<1> DEFINE e == Resolved(answer)
           g == [n \in Nat |-> IF n = p + 1 THEN After(f[p], answer) ELSE f[n]]
<1>0. e.is = "Resolved" /\ e.answer = answer
  BY DEF Resolved
<1>1. /\ Len(k.records) = 2 * p + 2
      /\ \A n \in 1..(2 * p + 1) : k.records[n] = j.records[n]
      /\ k.records[2 * p + 2] = e
  BY AppendIsSeq
<1>2. /\ g[p + 1] = After(f[p], answer)
      /\ \A n \in Nat : n # p + 1 => g[n] = f[n]
  OBVIOUS
<1> HIDE DEF e, g
<1>3. g[0] = Begin(k.input[1])
  BY <1>2 DEF Follows
<1>4. ASSUME NEW q \in Nat, 2 * q + 1 =< Len(k.records)
      PROVE  g[q].want.op = "activity"
               /\ k.records[2 * q + 1] = Scheduled(g[q].want.request)
  <2>1. 2 * q + 1 =< Len(j.records) /\ 2 * q + 1 \in 1..(2 * p + 1) /\ q # p + 1
    BY <1>1, <1>4
  <2> QED
    BY <1>1, <1>2, <2>1 DEF Follows
<1>5. ASSUME NEW q \in Nat, 2 * q + 2 =< Len(k.records)
      PROVE  /\ k.records[2 * q + 2].is = "Resolved"
             /\ g[q + 1] = After(g[q], k.records[2 * q + 2].answer)
  <2>1. CASE q = p
    <3>1. k.records[2 * q + 2] = e /\ g[q] = f[q]
      BY <1>1, <1>2, <2>1
    <3> QED
      BY <1>0, <1>2, <2>1, <3>1
  <2>2. CASE q # p
    <3>1. /\ 2 * q + 2 =< Len(j.records) /\ 2 * q + 2 \in 1..(2 * p + 1)
          /\ q # p + 1 /\ q + 1 # p + 1 /\ q + 1 \in Nat
      BY <1>1, <1>5, <2>2
    <3>2. g[q] = f[q] /\ g[q + 1] = f[q + 1] /\ k.records[2 * q + 2] = j.records[2 * q + 2]
      BY <1>1, <1>2, <3>1
    <3> QED
      BY <3>1, <3>2 DEF Follows
  <2> QED
    BY <2>1, <2>2
<1> QED
  BY <1>2, <1>3, <1>4, <1>5 DEF Follows

\* What a running boot may count on.
LEMMA BootsAgree ==
  ASSUME Shaped, Runs, phase = "up"
  PROVE  /\ boot.at \in 0..Len(journal.records)
         /\ boot.dispatched =>
              /\ boot.at = Len(journal.records) /\ boot.at > 0
              /\ Wanted.op = "activity"
              /\ journal.records[Len(journal.records)] = Scheduled(Wanted.request)
         /\ ~boot.dispatched /\ Wanted.op # "activity" => boot.at = Len(journal.records)
         /\ ~boot.dispatched /\ boot.at = Len(journal.records) => AllAnswered(journal)
         /\ Requests /\ boot.at < Len(journal.records) =>
              Agrees /\ (boot.at + 1 < Len(journal.records) =>
                           journal.records[boot.at + 2].is = "Resolved")
         /\ Concludes /\ journal.terminal # <<>> => journal.terminal = <<Wanted.status>>
<1> DEFINE len == Len(journal.records)
<1>0. IsSeq(journal.records) /\ len \in Nat /\ (len = 0 => journal.records = <<>>)
  BY SeqDomain DEF Shaped, JournalShape
<1>1. PICK f : Follows(f, journal) /\ Ends(f, journal) /\ Stands(f, boot, journal)
  BY DEF Runs
<1>2. PICK p \in Nat :
        /\ boot.run = f[p]
        /\ IF boot.dispatched THEN boot.at = 2 * p + 1 /\ boot.at = len
           ELSE boot.at = 2 * p /\ boot.at =< len
  BY <1>1 DEF Stands
<1> HIDE DEF len
<1>a. \A q \in Nat : 2 * q + 1 =< len =>
        f[q].want.op = "activity" /\ journal.records[2 * q + 1] = Scheduled(f[q].want.request)
  BY <1>1 DEF Follows, len
<1>b. \A q \in Nat : 2 * q + 2 =< len => journal.records[2 * q + 2].is = "Resolved"
  BY <1>1 DEF Follows, len
<1>3. CASE boot.dispatched
  BY <1>0, <1>2, <1>3, <1>a DEF Wanted, Requests, Concludes, len
<1>4. CASE ~boot.dispatched
  <2>1. boot.at = 2 * p /\ boot.at \in 0..len
    BY <1>0, <1>2, <1>4
  <2>2. Wanted.op # "activity" => boot.at = len
    BY <1>0, <1>2, <1>a, <2>1 DEF Wanted
  <2>3. boot.at = len => AllAnswered(journal)
    <3>1. CASE p = 0
      BY <1>0, <2>1, <3>1 DEF AllAnswered, len
    <3>2. CASE p # 0 /\ boot.at = len
      <4>1. PICK r \in Nat : 2 * r + 2 = len
        <5>1. p - 1 \in Nat /\ 2 * (p - 1) + 2 = len
          BY <2>1, <3>2
        <5> QED
          BY <5>1
      <4>2. journal.records[len].is = "Resolved"
        BY <1>b, <4>1
      <4> QED
        BY <4>2 DEF AllAnswered, len
    <3> QED
      BY <3>1, <3>2
  <2>4. boot.at < len => Agrees
    <3>1. boot.at < len => 2 * p + 1 =< len
      BY <1>0, <2>1
    <3> QED
      BY <1>2, <1>a, <2>1, <3>1 DEF Agrees, Wanted
  <2>5. boot.at + 1 < len => journal.records[boot.at + 2].is = "Resolved"
    <3>1. boot.at + 1 < len => 2 * p + 2 =< len
      BY <1>0, <2>1
    <3> QED
      BY <1>b, <2>1, <3>1
  <2>6. Wanted.op = "conclude" /\ journal.terminal # <<>> =>
          journal.terminal = <<Wanted.status>>
    <3>1. SUFFICES ASSUME Wanted.op = "conclude", journal.terminal # <<>>
                   PROVE  journal.terminal = <<Wanted.status>>
      OBVIOUS
    <3>2. PICK q \in Nat : /\ len = 2 * q /\ f[q].want.op = "conclude"
                           /\ journal.terminal = <<f[q].want.status>>
      BY <1>1, <3>1 DEF Ends, len
    <3>3. p = q
      BY <2>1, <2>2, <3>1, <3>2
    <3> QED
      BY <1>2, <3>2, <3>3 DEF Wanted
  <2> QED
    BY <1>4, <2>1, <2>2, <2>3, <2>4, <2>5, <2>6 DEF len, Requests, Concludes
<1> QED
  BY <1>3, <1>4

\* An end stands after the last answer, where the workflow does not go on.
LEMMA EndsAnswered ==
  ASSUME Shaped, Runs
  PROVE  /\ journal.terminal # <<>> \/ journal.continued # <<>> => AllAnswered(journal)
         /\ phase = "up" /\ Wanted.op = "activity"
              /\ boot.at = Len(journal.records) =>
              journal.terminal = <<>> /\ journal.continued = <<>>
<1> DEFINE len == Len(journal.records)
<1>0. IsSeq(journal.records) /\ len \in Nat /\ (len = 0 => journal.records = <<>>)
  BY SeqDomain DEF Shaped, JournalShape
<1>1. PICK f : /\ Follows(f, journal) /\ Ends(f, journal)
               /\ phase = "up" => Stands(f, boot, journal)
  BY DEF Runs
<1>2. ASSUME journal.terminal # <<>> \/ journal.continued # <<>>
      PROVE  /\ AllAnswered(journal)
             /\ ~(phase = "up" /\ Wanted.op = "activity" /\ boot.at = len)
  <2>1. PICK q \in Nat : len = 2 * q /\ f[q].want.op \in {"conclude", "continue"}
    BY <1>1, <1>2 DEF Ends
  <2>2. AllAnswered(journal)
    <3>1. CASE q = 0
      BY <1>0, <2>1, <3>1 DEF AllAnswered
    <3>2. CASE q # 0
      <4>1. PICK r \in Nat : 2 * r + 2 = len
        <5>1. q - 1 \in Nat /\ 2 * (q - 1) + 2 = len
          BY <2>1, <3>2
        <5> QED
          BY <5>1
      <4>a. 2 * r + 2 =< Len(journal.records)
        BY <1>0, <4>1
      <4>2. journal.records[2 * r + 2].is = "Resolved"
        BY <1>1, <4>a DEF Follows
      <4> QED
        BY <4>1, <4>2 DEF AllAnswered
    <3> QED
      BY <3>1, <3>2
  <2>3. ASSUME phase = "up", Wanted.op = "activity", boot.at = len
        PROVE  FALSE
    <3>1. PICK p \in Nat :
            /\ boot.run = f[p]
            /\ IF boot.dispatched THEN boot.at = 2 * p + 1 ELSE boot.at = 2 * p
      BY <1>1, <2>3 DEF Stands
    <3>2. p = q
      BY <2>1, <2>3, <3>1
    <3> QED
      BY <2>1, <2>3, <3>1, <3>2 DEF Wanted
  <2> QED
    BY <2>2, <2>3
<1> QED
  BY <1>2

LEMMA FollowsNothing ==
  ASSUME NEW j, j.records = <<>>, j.terminal = <<>>, j.continued = <<>>
  PROVE  \E f : Follows(f, j) /\ Ends(f, j)
<1> DEFINE f == [n \in Nat |-> Begin(j.input[1])]
<1>1. f[0] = Begin(j.input[1])
  OBVIOUS
<1>2. Len(j.records) = 0
  OBVIOUS
<1> HIDE DEF f
<1>3. Follows(f, j) /\ Ends(f, j)
  BY <1>1, <1>2 DEF Follows, Ends
<1> QED
  BY <1>3

LEMMA RunsInit ==
  ASSUME Init
  PROVE  Runs
<1>1. /\ journal.records = <<>> /\ journal.terminal = <<>> /\ journal.continued = <<>>
      /\ phase # "up"
  BY DEF Init, NewJournal
<1> QED
  BY <1>1, FollowsNothing DEF Runs

\* The journal's own equations carry over to one of the same contents.
LEMMA FollowsSame ==
  ASSUME NEW f, NEW j, NEW k, Follows(f, j), k.records = j.records, k.input = j.input
  PROVE  Follows(f, k)
BY DEF Follows

LEMMA RunsStep ==
  ASSUME Shaped, Runs, Next
  PROVE  Runs'
<1> USE DEF Error, Returns
<1> DEFINE len == Len(journal.records)
<1>0. JournalShape(journal) /\ IsSeq(journal.records) /\ len \in Nat
      /\ BootShape(boot)
  BY SeqDomain DEF Shaped, JournalShape
<1>f. PICK f : /\ Follows(f, journal) /\ Ends(f, journal)
               /\ phase = "up" => Stands(f, boot, journal)
  BY DEF Runs
<1>p. phase = "up" => \E p \in Nat :
        /\ boot.run = f[p]
        /\ IF boot.dispatched THEN boot.at = 2 * p + 1 /\ boot.at = len
           ELSE boot.at = 2 * p /\ boot.at =< len
  BY <1>f DEF Stands
<1> HIDE DEF len
<1>1. CASE Bind
  <2>1. CASE Valid(seed) /\ journal.input = <<>>
    <3>1. journal' = [NewJournal EXCEPT !.input = <<Start>>] /\ phase' = "boot"
      BY <1>1, <2>1 DEF Bind, Shaped, Bound
    <3>2. journal'.records = <<>> /\ journal'.terminal = <<>> /\ journal'.continued = <<>>
      BY <3>1 DEF NewJournal
    <3>3. \E g : Follows(g, journal') /\ Ends(g, journal')
      BY <3>2, FollowsNothing
    <3> QED
      BY <3>1, <3>3 DEF Runs
  <2>2. CASE ~Valid(seed) \/ journal.input # <<>>
    <3>1. journal' = journal /\ phase' # "up"
      BY <1>1, <2>2 DEF Bind
    <3> QED
      BY <1>f, <3>1 DEF Runs
  <2> QED
    BY <2>1, <2>2
<1>2. CASE Boot
  <2>1. journal' = journal
    BY <1>2 DEF Boot
  <2>2. ASSUME phase' = "up"
        PROVE  Stands(f, boot', journal')
    <3>1. boot' = [NewBoot EXCEPT !.run = Begin(journal.input[1])]
      BY <1>2, <2>2 DEF Boot
    <3>2. boot'.run = f[0] /\ boot'.at = 2 * 0 /\ ~boot'.dispatched
      BY <1>f, <3>1, BootsShaped DEF Follows
    <3>3. boot'.at =< Len(journal'.records)
      BY <1>0, <2>1, <3>2 DEF len
    <3> QED
      BY <3>2, <3>3 DEF Stands
  <2> QED
    BY <1>f, <2>1, <2>2 DEF Runs
<1>3. CASE Replay
  <2>1. journal' = journal /\ phase = "up" /\ ~boot.dispatched /\ boot.at + 1 < len
    BY <1>3 DEF Replay, Requests, len
  <2>2. ASSUME phase' = "up"
        PROVE  Stands(f, boot', journal')
    <3> DEFINE answer == journal.records[boot.at + 2].answer
    <3>1. boot' = Answered(answer, boot.at + 2)
      BY <1>3, <2>2 DEF Replay
    <3>2. PICK p \in Nat : boot.run = f[p] /\ boot.at = 2 * p
      BY <1>p, <2>1
    <3>3. 2 * p + 2 =< len
      BY <1>0, <2>1, <3>2
    <3>4. f[p + 1] = After(boot.run, answer)
      BY <1>f, <3>2, <3>3 DEF Follows, len
    <3>5. /\ boot'.run = f[p + 1] /\ boot'.at = 2 * p + 2 /\ ~boot'.dispatched
      BY <1>0, <3>1, <3>2, <3>4, BootsShaped
    <3>6. p + 1 \in Nat /\ boot'.at = 2 * (p + 1) /\ boot'.at =< Len(journal'.records)
      BY <2>1, <3>3, <3>5 DEF len
    <3> QED
      BY <3>5, <3>6 DEF Stands
  <2> QED
    BY <1>f, <2>1, <2>2 DEF Runs
<1>4. CASE Redeliver
  <2>1. /\ journal' = journal /\ phase = "up" /\ ~boot.dispatched /\ boot.at + 1 = len
        /\ boot' = HandedOn
    BY <1>4 DEF Redeliver, Requests, HandedOn, len
  <2>2. PICK p \in Nat : boot.run = f[p] /\ boot.at = 2 * p
    BY <1>p, <2>1
  <2>3. boot'.run = f[p] /\ boot'.at = 2 * p + 1 /\ boot'.at = Len(journal'.records)
        /\ boot'.dispatched
    BY <1>0, <2>1, <2>2, HandedOnShaped DEF len
  <2>4. Stands(f, boot', journal')
    BY <2>3 DEF Stands
  <2> QED
    BY <1>f, <2>1, <2>4 DEF Runs
<1>5. CASE Diverge \/ WorkflowFails \/ Confirm \/ Finish \/ DriveAgain \/ ResolveCrashed
  <2>1. journal' = journal /\ phase' # "up"
    BY <1>5 DEF Diverge, WorkflowFails, Confirm, Finish, DriveAgain, ResolveCrashed, Down
  <2> QED
    BY <1>f, <2>1 DEF Runs
<1>6. CASE ScheduleNew
  <2>1. /\ phase = "up" /\ ~boot.dispatched /\ Wanted.op = "activity" /\ boot.at = len
        /\ Record(Scheduled(Wanted.request)) /\ drives' = drives
    BY <1>6 DEF ScheduleNew, Requests, len
  <2>2. PICK p \in Nat : boot.run = f[p] /\ boot.at = 2 * p
    BY <1>p, <2>1
  <2>3. /\ journal'.input = journal.input
        /\ journal'.terminal = <<>> /\ journal'.continued = <<>>
        /\ journal'.records = IF StruckBefore THEN journal.records
                              ELSE Append(journal.records, Scheduled(Wanted.request))
    BY <2>1, Recorded, EndsAnswered DEF len
  <2>4. Ends(f, journal')
    BY <2>3 DEF Ends
  <2>5. Follows(f, journal')
    <3>1. CASE StruckBefore
      BY <1>f, <2>3, <3>1, FollowsSame
    <3>2. CASE ~StruckBefore
      <4>1. f[p].want.op = "activity" /\ Len(journal.records) = 2 * p
            /\ journal'.records = Append(journal.records, Scheduled(f[p].want.request))
        BY <2>1, <2>2, <2>3, <3>2 DEF Wanted, len
      <4> QED
        BY <1>0, <1>f, <2>3, <4>1, FollowsScheduled
    <3> QED
      BY <3>1, <3>2
  <2>6. ASSUME phase' = "up"
        PROVE  Stands(f, boot', journal')
    <3>1. ~Struck /\ boot' = HandedOn
      BY <1>6, <2>6 DEF ScheduleNew, Down, HandedOn
    <3>2. Len(journal'.records) = 2 * p + 1
      <4> DEFINE e == Scheduled(Wanted.request)
      <4> HIDE DEF e
      <4>1. ~StruckBefore
        BY <3>1 DEF StruckBefore
      <4>2. journal'.records = Append(journal.records, e)
        BY <2>3, <4>1 DEF e
      <4>3. Len(Append(journal.records, e)) = Len(journal.records) + 1
        BY <1>0, AppendIsSeq
      <4>4. Len(journal.records) = 2 * p
        BY <2>1, <2>2 DEF len
      <4> QED
        BY <4>2, <4>3, <4>4
    <3>3. boot'.run = f[p] /\ boot'.at = 2 * p + 1 /\ boot'.dispatched
      BY <1>0, <2>2, <3>1, HandedOnShaped
    <3> QED
      BY <3>2, <3>3 DEF Stands
  <2> QED
    BY <2>4, <2>5, <2>6 DEF Runs
<1>7. CASE Dispatched
  <2>1. /\ journal' = journal /\ phase = "up" /\ boot.dispatched
        /\ boot' = boot \/ \E answer : boot' = [boot EXCEPT !.answer = answer]
    BY <1>7 DEF Dispatched
  <2>2. boot'.run = boot.run /\ boot'.at = boot.at /\ boot'.dispatched = boot.dispatched
    BY <1>0, <2>1 DEF BootShape
  <2>3. Stands(f, boot', journal')
    BY <1>f, <2>1, <2>2 DEF Stands
  <2> QED
    BY <1>f, <2>1, <2>3 DEF Runs
<1>8. CASE ResolveLost
  <2>1. /\ StruckBefore /\ phase' = "boot" /\ phase = "up"
        /\ Record(Resolved(boot.answer)) /\ drives' = drives
    BY <1>8 DEF ResolveLost, Resolves, Down
  <2>2. /\ journal'.input = journal.input /\ journal'.records = journal.records
        /\ journal'.terminal = journal.terminal /\ journal'.continued = journal.continued
    BY <2>1, Recorded
  <2>3. Follows(f, journal') /\ Ends(f, journal')
    BY <1>f, <2>2, FollowsSame DEF Ends
  <2> QED
    BY <2>1, <2>3 DEF Runs
<1>9. CASE Resolve
  <2>1. /\ ~StruckBefore /\ phase = "up" /\ boot.dispatched
        /\ Record(Resolved(boot.answer)) /\ drives' = drives
    BY <1>0, <1>9 DEF Resolve, Resolves, BootShape
  <2>2. PICK p \in Nat : boot.run = f[p] /\ boot.at = 2 * p + 1 /\ boot.at = len
    BY <1>p, <2>1
  <2>3. Wanted.op = "activity"
    BY <2>1, BootsAgree
  <2>4. /\ journal'.input = journal.input
        /\ journal'.terminal = <<>> /\ journal'.continued = <<>>
        /\ journal'.records = Append(journal.records, Resolved(boot.answer))
    BY <2>1, <2>2, <2>3, Recorded, EndsAnswered DEF len
  <2>5. Len(journal.records) = 2 * p + 1
    BY <2>2 DEF len
  <2>6. PICK g : Follows(g, journal') /\ g[p + 1] = After(f[p], boot.answer)
    BY <1>0, <1>f, <2>4, <2>5, FollowsResolved
  <2>7. Ends(g, journal')
    BY <2>4 DEF Ends
  <2>8. ASSUME phase' = "up"
        PROVE  Stands(g, boot', journal')
    <3>1. boot' = Answered(boot.answer, boot.at + 1)
      BY <1>9, <2>8 DEF Resolve, Down
    <3>2. p + 1 \in Nat /\ 2 * p + 2 = 2 * (p + 1) /\ boot.at + 1 = 2 * p + 2
      BY <2>2
    <3>3. /\ boot'.run = g[p + 1] /\ boot'.at = 2 * (p + 1) /\ ~boot'.dispatched
      BY <2>2, <2>6, <3>1, <3>2, BootsShaped
    <3>4. Len(journal'.records) = 2 * (p + 1)
      BY <1>0, <2>4, <2>5, AppendIsSeq
    <3> QED
      BY <3>2, <3>3, <3>4 DEF Stands
  <2> QED
    BY <2>6, <2>7, <2>8 DEF Runs
<1>10. CASE ContinueAsNew \/ (Conclude /\ journal' # journal)
  <2>1. /\ phase = "up" /\ Wanted.op \in {"continue", "conclude"}
    BY <1>10 DEF ContinueAsNew, Conclude, Concludes
  <2>2. ~boot.dispatched /\ boot.at = len
    BY <2>1, BootsAgree DEF len
  <2>3. PICK p \in Nat : boot.run = f[p] /\ len = 2 * p
    BY <1>p, <2>1, <2>2
  <2>4. phase' # "up"
    BY <1>10 DEF ContinueAsNew, Conclude, Down
  <2>5. CASE ContinueAsNew
    <3>1. journal' = [journal EXCEPT !.continued = <<Wanted.start>>]
          /\ Wanted.op = "continue"
      BY <2>5 DEF ContinueAsNew
    <3>2. /\ journal'.records = journal.records /\ journal'.input = journal.input
          /\ journal'.terminal = journal.terminal
          /\ journal'.continued = <<Wanted.start>>
      BY <1>0, <3>1 DEF JournalShape
    <3>3. Follows(f, journal')
      BY <1>f, <3>2, FollowsSame
    <3>4. Wanted = f[p].want /\ Len(journal'.records) = 2 * p
      BY <2>3, <3>2 DEF Wanted, len
    <3>5. Ends(f, journal')
      BY <1>f, <3>1, <3>2, <3>4 DEF Ends
    <3> QED
      BY <2>4, <3>3, <3>5 DEF Runs
  <2>6. CASE Conclude /\ journal' # journal
    <3>1. journal' = [journal EXCEPT !.terminal = <<Wanted.status>>]
          /\ Wanted.op = "conclude"
      BY <2>6 DEF Conclude, Concludes
    <3>2. /\ journal'.records = journal.records /\ journal'.input = journal.input
          /\ journal'.continued = journal.continued
          /\ journal'.terminal = <<Wanted.status>>
      BY <1>0, <3>1 DEF JournalShape
    <3>3. Follows(f, journal') /\ Ends(f, journal')
      BY <1>f, <2>3, <3>1, <3>2, FollowsSame DEF Ends, Wanted, len
    <3> QED
      BY <2>4, <3>3 DEF Runs
  <2> QED
    BY <1>10, <2>5, <2>6
<1>11. CASE Conclude /\ journal' = journal
  <2>1. phase' # "up"
    BY <1>11 DEF Conclude, Down
  <2> QED
    BY <1>11, <1>f, <2>1 DEF Runs
<1>12. CASE NextSegment
  <2>1. phase' # "up" /\ journal' \in {journal, NewJournal}
    BY <1>12 DEF NextSegment
  <2>2. CASE journal' = journal
    BY <1>f, <2>1, <2>2 DEF Runs
  <2>3. CASE journal' = NewJournal
    <3>1. journal'.records = <<>> /\ journal'.terminal = <<>> /\ journal'.continued = <<>>
      BY <2>3 DEF NewJournal
    <3> QED
      BY <2>1, <3>1, FollowsNothing DEF Runs
  <2> QED
    BY <2>1, <2>2, <2>3
<1> QED
  BY <1>1, <1>2, <1>3, <1>4, <1>5, <1>6, <1>7, <1>8, <1>9, <1>10, <1>11, <1>12
  DEF Next, Driving

----------------------------------------------------------------------------
(* A call is performed once.                                               *)

\* A journal has an effect on record, and records nothing but what was performed.
Holds(effect, j) == \E n \in ToolObservations(j.records) : IsRecordedAt(effect, j, n)

Performed(effects, j) ==
  \A n \in ToolObservations(j.records) :
    \/ j.records[n + 1].answer.value = Transient
    \/ \E m \in DOMAIN effects : IsRecordedAt(effects[m], j, n)

OnRecord(effect) ==
  (\E n \in DOMAIN past : Holds(effect, past[n].journal)) \/ Holds(effect, journal)

AllPerformed(effects) ==
  (\A n \in DOMAIN past : Performed(effects, past[n].journal)) /\ Performed(effects, journal)

\* The effect of the call that was handed on last: it would be answered by it, as
\* no fault is planned any more that would come between.
Outstanding(effect) ==
  LET n == Len(journal.records)
      call == journal.records[n].request.call
  IN /\ n \in Requested(journal.records, "TOOL")
     /\ effect.id = NameAt(journal, n) /\ effect.digest = call.digest
     /\ Matching(world.faults, call.tool, Resource(call)) = {}

\* What an answer that is not on record yet stands for.
AnswerStands ==
  LET effects == world.device.effects
      answer == boot.answer
  IN phase = "up" /\ answer # Nothing /\ Wanted.request.kind = "TOOL" =>
       \/ /\ answer.completed
          /\ \E m \in DOMAIN effects :
               /\ effects[m].id = NameAt(journal, Len(journal.records))
               /\ effects[m].outcome = answer.value
       \/ /\ \A m \in DOMAIN effects : OnRecord(effects[m])
          /\ answer.completed => answer.value = Transient

EffectsStand ==
  LET effects == world.device.effects
  IN /\ NamedOnce(effects)
     /\ \A m \in DOMAIN effects : OnRecord(effects[m]) \/ Outstanding(effects[m])
     /\ AllPerformed(effects)
     /\ AnswerStands

\* An answer makes an observation of the request before it; a request makes none.
ObservesMore(r, e, s) ==
  LET last == Len(r)
      tells == last \in Requested(r, "TOOL") /\ e.is = "Resolved" /\ e.answer.completed
  IN /\ \A n \in ToolObservations(r) :
          n \in ToolObservations(s) /\ s[n] = r[n] /\ s[n + 1] = r[n + 1]
     /\ \A n \in ToolObservations(s) :
          \/ n \in ToolObservations(r)
          \/ n = last /\ tells /\ s[n] = r[n] /\ s[n + 1] = e
     /\ tells => last \in ToolObservations(s) /\ s[last] = r[last] /\ s[last + 1] = e

LEMMA ObservedMore ==
  ASSUME NEW r, IsSeq(r), NEW e, NEW s, s = Append(r, e)
  PROVE  ObservesMore(r, e, s)
<1>1. /\ Len(r) \in Nat /\ DOMAIN r = 1..Len(r)
      /\ Len(s) = Len(r) + 1 /\ DOMAIN s = 1..(Len(r) + 1)
      /\ \A n \in 1..Len(r) : s[n] = r[n]
      /\ s[Len(r) + 1] = e
  BY AppendIsSeq
<1> USE DEF ToolObservations, WithOutcome, Requested, HasOutcome
<1>2. ASSUME NEW n \in ToolObservations(r)
      PROVE  n \in ToolObservations(s) /\ s[n] = r[n] /\ s[n + 1] = r[n + 1]
  <2>1. n \in 1..Len(r) /\ n + 1 \in 1..Len(r)
    BY <1>1
  <2>2. s[n] = r[n] /\ s[n + 1] = r[n + 1] /\ n \in DOMAIN s /\ n < Len(s)
    BY <1>1, <2>1
  <2> QED
    BY <2>2
<1>3. ASSUME NEW n \in ToolObservations(s)
      PROVE  \/ n \in ToolObservations(r)
             \/ /\ n = Len(r) /\ n \in Requested(r, "TOOL")
                /\ e.is = "Resolved" /\ e.answer.completed
                /\ s[n] = r[n] /\ s[n + 1] = e
  <2>1. n \in 1..Len(r) /\ n \in DOMAIN r /\ s[n] = r[n]
    BY <1>1
  <2>2. CASE n = Len(r)
    BY <1>1, <2>1, <2>2
  <2>3. CASE n # Len(r)
    <3>1. n + 1 \in 1..Len(r) /\ s[n + 1] = r[n + 1] /\ n < Len(r)
      BY <1>1, <2>1, <2>3
    <3> QED
      BY <2>1, <3>1
  <2> QED
    BY <2>2, <2>3
<1>4. ASSUME Len(r) \in Requested(r, "TOOL"), e.is = "Resolved", e.answer.completed
      PROVE  Len(r) \in ToolObservations(s) /\ s[Len(r)] = r[Len(r)] /\ s[Len(r) + 1] = e
  <2>1. Len(r) \in 1..Len(r)
    BY <1>1, <1>4
  <2> QED
    BY <1>1, <1>4, <2>1
<1> QED
  BY <1>2, <1>3, <1>4 DEF ObservesMore

LEMMA NothingObserved ==
  ASSUME NEW r, r = <<>>
  PROVE  ToolObservations(r) = {} /\ Requested(r, "TOOL") = {}
BY DEF ToolObservations, WithOutcome, Requested

\* A journal with no more records says what it said.
LEMMA SaysTheSame ==
  ASSUME NEW j, NEW k, k.records = j.records, k.input = j.input \/ j.records = <<>>
  PROVE  /\ \A effect : Holds(effect, j) => Holds(effect, k)
         /\ \A effects : Performed(effects, j) => Performed(effects, k)
<1>1. CASE k.input = j.input
  BY <1>1 DEF Holds, Performed, IsRecordedAt, NameAt
<1>2. CASE j.records = <<>>
  BY <1>2, NothingObserved DEF Holds, Performed
<1> QED
  BY <1>1, <1>2

\* A journal with one record more keeps what it says; an answer of a call says
\* what it was performed as.
LEMMA SaysMore ==
  ASSUME NEW j, NEW k, NEW e, IsSeq(j.records), k.input = j.input,
         k.records = Append(j.records, e)
  PROVE  LET n == Len(j.records)
             tells == n \in Requested(j.records, "TOOL") /\ e.is = "Resolved"
                        /\ e.answer.completed
         IN /\ \A effect : Holds(effect, j) => Holds(effect, k)
            /\ \A effect : /\ tells /\ effect.id = NameAt(j, n)
                           /\ effect.outcome = e.answer.value
                           => Holds(effect, k)
            /\ \A effects :
                 /\ Performed(effects, j)
                 /\ tells => \/ e.answer.value = Transient
                             \/ \E m \in DOMAIN effects :
                                  /\ effects[m].id = NameAt(j, n)
                                  /\ effects[m].outcome = e.answer.value
                 => Performed(effects, k)
<1> DEFINE r == j.records
           s == k.records
           n == Len(r)
           tells == n \in Requested(r, "TOOL") /\ e.is = "Resolved" /\ e.answer.completed
<1>0. /\ \A m \in ToolObservations(r) :
           m \in ToolObservations(s) /\ s[m] = r[m] /\ s[m + 1] = r[m + 1]
      /\ \A m \in ToolObservations(s) :
           \/ m \in ToolObservations(r)
           \/ m = n /\ tells /\ s[m] = r[m] /\ s[m + 1] = e
      /\ tells => n \in ToolObservations(s) /\ s[n] = r[n] /\ s[n + 1] = e
  <2>1. ObservesMore(r, e, s)
    BY ObservedMore
  <2> HIDE DEF r, s
  <2> QED
    BY <2>1 DEF ObservesMore
<1>1. ASSUME NEW effect, Holds(effect, j)
      PROVE  Holds(effect, k)
  <2>1. PICK m \in ToolObservations(j.records) : IsRecordedAt(effect, j, m)
    BY <1>1 DEF Holds
  <2>2. /\ m \in ToolObservations(k.records)
        /\ k.records[m] = j.records[m] /\ k.records[m + 1] = j.records[m + 1]
    BY <1>0, <2>1
  <2>3. IsRecordedAt(effect, k, m)
    BY <2>1, <2>2 DEF IsRecordedAt, NameAt
  <2> QED
    BY <2>2, <2>3 DEF Holds
<1>2. ASSUME NEW effect, tells, effect.id = NameAt(j, n), effect.outcome = e.answer.value
      PROVE  Holds(effect, k)
  <2>1. /\ n \in ToolObservations(k.records)
        /\ k.records[n] = j.records[n] /\ k.records[n + 1] = e
    BY <1>0, <1>2
  <2>2. IsRecordedAt(effect, k, n)
    BY <1>2, <2>1 DEF IsRecordedAt, NameAt
  <2> QED
    BY <2>1, <2>2 DEF Holds
<1>3. ASSUME NEW effects, Performed(effects, j),
             tells => \/ e.answer.value = Transient
                      \/ \E m \in DOMAIN effects :
                           /\ effects[m].id = NameAt(j, n)
                           /\ effects[m].outcome = e.answer.value
      PROVE  Performed(effects, k)
  <2>1. ASSUME NEW i \in ToolObservations(k.records)
        PROVE  \/ k.records[i + 1].answer.value = Transient
               \/ \E m \in DOMAIN effects : IsRecordedAt(effects[m], k, i)
    <3>1. CASE i \in ToolObservations(j.records)
      <4>1. k.records[i] = j.records[i] /\ k.records[i + 1] = j.records[i + 1]
        BY <1>0, <3>1
      <4> QED
        BY <1>3, <3>1, <4>1 DEF Performed, IsRecordedAt, NameAt
    <3>2. CASE i \notin ToolObservations(j.records)
      <4>1. i = n /\ tells
        BY <1>0, <2>1, <3>2
      <4>2. k.records[i] = j.records[i] /\ k.records[i + 1] = e
        BY <1>0, <2>1, <3>2
      <4>3. NameAt(k, i) = NameAt(j, n)
        BY <4>1, <4>2 DEF NameAt
      <4> QED
        BY <1>3, <4>1, <4>2, <4>3 DEF IsRecordedAt
    <3> QED
      BY <3>1, <3>2
  <2> QED
    BY <2>1 DEF Performed
<1> QED
  BY <1>1, <1>2, <1>3

\* One effect more leaves every record with its own.
LEMMA PerformedMore ==
  ASSUME NEW effects, IsSeq(effects), NEW e, NEW j, Performed(effects, j)
  PROVE  Performed(Append(effects, e), j)
<1> DEFINE more == Append(effects, e)
<1>1. \A m \in DOMAIN effects : m \in DOMAIN more /\ more[m] = effects[m]
  BY AppendIsSeq
<1> HIDE DEF more
<1>2. Performed(more, j)
  BY <1>1 DEF Performed
<1> QED
  BY <1>2 DEF more

LEMMA EffectsInit ==
  ASSUME Init
  PROVE  EffectsStand
<1>1. /\ world.device.effects = <<>> /\ phase = "bind"
      /\ journal.records = <<>> /\ past = <<>>
  BY WorldsShaped DEF Init, NewJournal
<1>2. Performed(world.device.effects, journal)
  BY <1>1, NothingObserved DEF Performed
<1> QED
  BY <1>1, <1>2 DEF EffectsStand, NamedOnce, AllPerformed, AnswerStands

\* Where all requests have their answers, no effect is outstanding.
LEMMA NoneOutstanding ==
  ASSUME EffectsStand, \/ AllAnswered(journal)
                       \/ Len(journal.records) \notin Requested(journal.records, "TOOL")
  PROVE  \A m \in DOMAIN world.device.effects : OnRecord(world.device.effects[m])
<1>1. Len(journal.records) \notin Requested(journal.records, "TOOL")
  <2>1. CASE journal.records = <<>>
    BY <2>1, NothingObserved
  <2>2. CASE journal.records[Len(journal.records)].is = "Resolved"
    BY <2>2 DEF Requested
  <2> QED
    BY <2>1, <2>2 DEF AllAnswered
<1> QED
  BY <1>1 DEF EffectsStand, Outstanding

\* A step that neither records nor performs anything.
LEMMA EffectsKept ==
  ASSUME EffectsStand, past' = past, SameDevice(world', world),
         journal'.records = journal.records,
         journal'.input = journal.input \/ journal.records = <<>>,
         phase' = "up" => boot'.answer = Nothing \/ (phase = "up" /\ boot' = boot),
         journal'.input = journal.input \/ phase' # "up"
  PROVE  EffectsStand'
<1> DEFINE effects == world.device.effects
<1>1. world'.device.effects = effects /\ world'.faults = world.faults
  BY DEF SameDevice
<1>2. \A effect : OnRecord(effect) => OnRecord(effect)'
  BY SaysTheSame DEF OnRecord
<1>3. AllPerformed(effects)'
  BY <1>1, SaysTheSame DEF AllPerformed, EffectsStand
<1>4. ASSUME NEW m \in DOMAIN effects
      PROVE  OnRecord(effects[m])' \/ Outstanding(effects[m])'
  <2>1. CASE OnRecord(effects[m])
    BY <1>1, <1>2, <2>1
  <2>2. CASE Outstanding(effects[m])
    <3>1. journal.records # <<>>
      BY <2>2, NothingObserved DEF Outstanding
    <3> QED
      BY <1>1, <2>2, <3>1 DEF Outstanding, NameAt
  <2> QED
    BY <2>1, <2>2 DEF EffectsStand
<1>5. AnswerStands'
  <2>1. SUFFICES ASSUME phase = "up", boot' = boot, phase' = "up"
                 PROVE  AnswerStands'
    BY DEF AnswerStands
  <2>2. NameAt(journal', Len(journal'.records)) = NameAt(journal, Len(journal.records))
    BY <2>1 DEF NameAt
  <2> QED
    BY <1>1, <1>2, <2>1, <2>2 DEF AnswerStands, EffectsStand, Wanted
<1> QED
  BY <1>1, <1>3, <1>4, <1>5 DEF EffectsStand

\* An effect of a new name.
GrowsBy(effects, e, more) ==
  /\ NamedOnce(more)
  /\ \E m \in DOMAIN more : more[m] = e
  /\ \A m \in DOMAIN more : more[m] = e \/ \E n \in DOMAIN effects : more[m] = effects[n]

LEMMA NamedMore ==
  ASSUME NEW effects, IsSeq(effects), NamedOnce(effects),
         NEW e, \A m \in DOMAIN effects : effects[m].id # e.id,
         NEW more, more = Append(effects, e)
  PROVE  GrowsBy(effects, e, more)
<1>1. /\ DOMAIN effects = 1..Len(effects) /\ Len(effects) \in Nat
      /\ DOMAIN more = 1..(Len(effects) + 1) /\ more[Len(effects) + 1] = e
      /\ \A m \in DOMAIN effects : more[m] = effects[m]
  BY AppendIsSeq
<1>2. \A m \in DOMAIN more : m \in DOMAIN effects \/ m = Len(effects) + 1
  BY <1>1
<1>3. ASSUME NEW m \in DOMAIN more, NEW n \in DOMAIN more, more[m].id = more[n].id
      PROVE  m = n
  BY <1>1, <1>2, <1>3 DEF NamedOnce
<1>4. NamedOnce(more)
  BY <1>3 DEF NamedOnce
<1> QED
  BY <1>1, <1>2, <1>4 DEF GrowsBy

\* A call that is handed on.
LEMMA EffectsDispatched ==
  ASSUME Shaped, Runs, EffectsStand, Dispatched
  PROVE  EffectsStand'
<1> DEFINE effects == world.device.effects
           n == Len(journal.records)
           request == Wanted.request
           served == Served(world, seed.id, request)
           id == NameAt(journal, n)
           planned == Matching(world.faults, request.call.tool, Resource(request.call))
<1>1. /\ phase = "up" /\ boot.dispatched /\ world' = served.world
      /\ UNCHANGED <<journal, past>>
      /\ boot' = boot \/ boot' = [boot EXCEPT !.answer = served.answer]
      /\ phase' = "up" => boot' = [boot EXCEPT !.answer = served.answer]
  BY DEF Dispatched
<1>2. /\ WorldShape(world) /\ BootShape(boot) /\ IsSeq(journal.records)
      /\ journal.input = <<Start>> /\ IsSeq(effects)
  BY <1>1 DEF Shaped, Bound, JournalShape, WorldShape, DeviceShape
<1>3. boot'.run = boot.run /\ (phase' = "up" => boot'.answer = served.answer)
  BY <1>1, <1>2 DEF BootShape
<1>4. /\ n \in DOMAIN journal.records /\ journal.records[n] = Scheduled(request)
      /\ n > 0
  BY <1>1, <1>2, BootsAgree, SeqDomain
<1>5. /\ journal.records[n].is = "Scheduled" /\ journal.records[n].request = request
      /\ n \in Requested(journal.records, "TOOL") <=> request.kind = "TOOL"
  BY <1>4 DEF Scheduled, Requested
<1>6. id = [run |-> seed.id, seq |-> request.call.seq]
  BY <1>2, <1>5 DEF NameAt, Start
<1>7. NamedOnce(effects) /\ AllPerformed(effects)
      /\ \A m \in DOMAIN effects : OnRecord(effects[m]) \/ Outstanding(effects[m])
  BY DEF EffectsStand
<1>8. \A effect : OnRecord(effect) => OnRecord(effect)'
  BY <1>1 DEF OnRecord
<1>9. \A effect : Outstanding(effect) <=>
         /\ request.kind = "TOOL" /\ effect.id = id
         /\ effect.digest = request.call.digest /\ planned = {}
  BY <1>5 DEF Outstanding
<1>10. \A effect : Outstanding(effect)' <=>
         /\ request.kind = "TOOL" /\ effect.id = id
         /\ effect.digest = request.call.digest
         /\ Matching(world'.faults, request.call.tool, Resource(request.call)) = {}
  BY <1>1, <1>5 DEF Outstanding
<1>11. Wanted'.request = request
  BY <1>3 DEF Wanted
<1>12. id' = id
  BY <1>1
<1>13. CASE request.kind # "TOOL"
  <2>1. SameDevice(world', world)
    BY <1>1, <1>2, <1>13, OtherServed
  <2>2. AnswerStands'
    BY <1>11, <1>13 DEF AnswerStands
  <2>3. AllPerformed(effects)'
    BY <1>1, <1>7, <2>1 DEF AllPerformed, SameDevice
  <2> QED
    BY <1>7, <1>8, <1>13, <1>9, <2>1, <2>2, <2>3 DEF EffectsStand, SameDevice
<1>14. CASE request.kind = "TOOL"
  <2>1. served = Tool(world, id, request.call)
    BY <1>6, <1>14 DEF Served
  <2> HIDE DEF served, id
  <2>2. IF planned # {} THEN MeetsFault(world, served)
        ELSE \/ IsRefused(world, served, id, request.call)
             \/ IsRepeated(world, served, id)
             \/ /\ IsPerformed(world, served, id, request.call)
                /\ \A m \in DOMAIN effects : effects[m].id # id
    BY <1>2, <1>7, <2>1, ToolServed
  <2>3. CASE \/ planned # {} /\ MeetsFault(world, served)
             \/ IsRefused(world, served, id, request.call)
    <3>1. world'.device.effects = effects
          /\ (served.answer.completed => served.answer.value = Transient)
      BY <1>1, <2>3 DEF MeetsFault, IsRefused
    <3>2. \A m \in DOMAIN effects : ~Outstanding(effects[m])
      BY <1>9, <2>3 DEF IsRefused
    <3>3. \A m \in DOMAIN world'.device.effects : OnRecord(world.device.effects[m])'
      BY <1>7, <1>8, <3>1, <3>2
    <3>4. AllPerformed(effects)'
      BY <1>1, <1>7, <3>1 DEF AllPerformed
    <3>5. AnswerStands'
      BY <1>3, <3>1, <3>3 DEF AnswerStands
    <3> QED
      BY <1>7, <3>1, <3>3, <3>4, <3>5 DEF EffectsStand
  <2>4. CASE IsRepeated(world, served, id)
    <3>1. world' = world
      BY <1>1, <2>4 DEF IsRepeated
    <3>2. PICK m \in DOMAIN effects :
            /\ effects[m].id = id
            /\ served.answer = [completed |-> TRUE, value |-> effects[m].outcome]
      BY <2>4 DEF IsRepeated
    <3>3. served.answer.completed /\ effects[m].outcome = served.answer.value
      BY <3>2
    <3>4. AnswerStands'
      BY <1>3, <1>12, <3>1, <3>2, <3>3 DEF AnswerStands, id
    <3>5. AllPerformed(effects)'
      BY <1>1, <1>7, <3>1 DEF AllPerformed
    <3>6. \A k \in DOMAIN effects : OnRecord(effects[k])' \/ Outstanding(effects[k])'
      BY <1>7, <1>8, <1>9, <1>10, <3>1
    <3> QED
      BY <1>7, <3>1, <3>4, <3>5, <3>6 DEF EffectsStand
  <2>5. CASE /\ planned = {} /\ IsPerformed(world, served, id, request.call)
             /\ \A m \in DOMAIN effects : effects[m].id # id
    <3>1. PICK outcome, e, more :
            /\ served.answer = [completed |-> TRUE, value |-> outcome]
            /\ e = Effect(id, request.call.digest, outcome)
            /\ more = Append(effects, e) /\ world'.device.effects = more
      BY <1>1, <2>5 DEF IsPerformed
    <3>2. world'.faults = world.faults
      BY <1>1, <2>5 DEF IsPerformed
    <3>3. /\ e.id = id /\ e.digest = request.call.digest /\ e.outcome = outcome
          /\ served.answer.completed /\ served.answer.value = outcome
      BY <3>1 DEF Effect
    <3>4. /\ NamedOnce(more)
          /\ \E m \in DOMAIN more : more[m] = e
          /\ \A m \in DOMAIN more :
               more[m] = e \/ \E k \in DOMAIN effects : more[m] = effects[k]
      <4>1. \A m \in DOMAIN effects : effects[m].id # e.id
        BY <2>5, <3>3
      <4> HIDE DEF effects
      <4>2. GrowsBy(effects, e, more)
        BY <1>2, <1>7, <3>1, <4>1, NamedMore
      <4> QED
        BY <4>2 DEF GrowsBy
    <3>5. \A m \in DOMAIN effects : ~Outstanding(effects[m])
      BY <1>9, <2>5
    <3>6. \A m \in DOMAIN more : OnRecord(more[m])' \/ Outstanding(more[m])'
      <4>1. Outstanding(e)'
        BY <1>10, <1>14, <2>5, <3>2, <3>3
      <4>2. ASSUME NEW m \in DOMAIN effects, NEW effect, effect = effects[m]
            PROVE  OnRecord(effect)'
        BY <1>7, <1>8, <3>5, <4>2
      <4> QED
        BY <3>4, <4>1, <4>2
    <3>7. AllPerformed(more)'
      <4>1. \A j : Performed(effects, j) => Performed(more, j)
        BY <1>2, <3>1, PerformedMore
      <4> QED
        BY <1>1, <1>7, <4>1 DEF AllPerformed
    <3>8. AnswerStands'
      BY <1>3, <1>12, <3>1, <3>3, <3>4 DEF AnswerStands, id
    <3> QED
      BY <3>1, <3>4, <3>6, <3>7, <3>8 DEF EffectsStand
  <2> QED
    BY <2>2, <2>3, <2>4, <2>5
<1> QED
  BY <1>13, <1>14


\* A request says nothing yet.
LEMMA RequestSays ==
  ASSUME NEW j, NEW k, NEW request, IsSeq(j.records), k.input = j.input,
         k.records = Append(j.records, Scheduled(request))
  PROVE  /\ \A effect : Holds(effect, j) => Holds(effect, k)
         /\ \A effects : Performed(effects, j) => Performed(effects, k)
<1> DEFINE e == Scheduled(request)
<1>1. e.is = "Scheduled"
  BY DEF Scheduled
<1> HIDE DEF e
<1>2. k.records = Append(j.records, e)
  BY DEF e
<1>3. e.is # "Resolved"
  BY <1>1
<1> QED
  BY <1>2, <1>3, SaysMore

\* A request goes on record where every effect before it has its own record.
LEMMA EffectsScheduled ==
  ASSUME Shaped, Runs, EffectsStand, ScheduleNew, ~StruckBefore
  PROVE  EffectsStand'
<1> DEFINE effects == world.device.effects
<1>1. /\ phase = "up" /\ ~boot.dispatched /\ boot.at = Len(journal.records)
      /\ Record(Scheduled(Wanted.request)) /\ UNCHANGED <<past, world, drives>>
  BY DEF ScheduleNew, Requests
<1>w. world' = world
  BY <1>1
<1>2. BootShape(boot) /\ IsSeq(journal.records)
  BY DEF Shaped, JournalShape
<1>3. /\ journal'.input = journal.input
      /\ journal'.records = Append(journal.records, Scheduled(Wanted.request))
  BY <1>1, Recorded
<1>4. \A m \in DOMAIN effects : OnRecord(effects[m])
  BY <1>1, BootsAgree, NoneOutstanding
<1>5. /\ \A effect : Holds(effect, journal) => Holds(effect, journal')
      /\ \A any : Performed(any, journal) => Performed(any, journal')
  BY <1>2, <1>3, RequestSays
<1>6. \A effect : OnRecord(effect) => OnRecord(effect)'
  BY <1>1, <1>5 DEF OnRecord
<1>7. AllPerformed(effects)'
  BY <1>1, <1>5 DEF AllPerformed, EffectsStand
<1>8. phase' = "up" => boot'.answer = Nothing
  <2>1. phase' = "up" => boot' = HandedOn
    BY DEF ScheduleNew, Down, HandedOn
  <2> QED
    BY <1>1, <1>2, <2>1, HandedOnShaped DEF BootShape
<1>9. AnswerStands'
  BY <1>8 DEF AnswerStands
<1>10. \A m \in DOMAIN effects : OnRecord(effects[m])'
  BY <1>4, <1>6, <1>w
<1> QED
  BY <1>7, <1>9, <1>10, <1>w DEF EffectsStand

\* An answer goes on record as what its call was performed as.
LEMMA EffectsResolved ==
  ASSUME Shaped, Runs, EffectsStand, Resolve
  PROVE  EffectsStand'
<1> DEFINE effects == world.device.effects
           answer == boot.answer
           n == Len(journal.records)
           tells == n \in Requested(journal.records, "TOOL") /\ answer.completed
<1>1. /\ phase = "up" /\ answer # Nothing /\ ~StruckBefore
      /\ Record(Resolved(answer)) /\ UNCHANGED <<past, world, drives>>
  BY DEF Resolve, Resolves
<1>w. world' = world
  BY <1>1
<1>2. BootShape(boot) /\ IsSeq(journal.records) /\ boot.dispatched
  BY <1>1 DEF Shaped, JournalShape, BootShape
<1>3. /\ journal'.input = journal.input
      /\ journal'.records = Append(journal.records, Resolved(answer))
  BY <1>1, Recorded
<1>4. journal.records[n] = Scheduled(Wanted.request)
  BY <1>1, <1>2, BootsAgree
<1>5. n \in Requested(journal.records, "TOOL") => Wanted.request.kind = "TOOL"
  BY <1>4 DEF Scheduled, Requested
<1>6. /\ NamedOnce(effects)
      /\ \A m \in DOMAIN effects : OnRecord(effects[m]) \/ Outstanding(effects[m])
      /\ Performed(effects, journal)
      /\ \A k \in DOMAIN past : Performed(effects, past[k].journal)
  BY DEF EffectsStand, AllPerformed
<1>7. \/ ~tells /\ \A m \in DOMAIN effects : OnRecord(effects[m])
      \/ /\ answer.completed
         /\ \E m \in DOMAIN effects :
              effects[m].id = NameAt(journal, n) /\ effects[m].outcome = answer.value
      \/ /\ \A m \in DOMAIN effects : OnRecord(effects[m])
         /\ answer.completed => answer.value = Transient
  <2>1. CASE n \in Requested(journal.records, "TOOL")
    BY <1>1, <1>5, <2>1 DEF EffectsStand, AnswerStands
  <2>2. CASE n \notin Requested(journal.records, "TOOL")
    BY <2>2, NoneOutstanding
  <2> QED
    BY <2>1, <2>2
<1> DEFINE e == Resolved(answer)
<1>8. e.is = "Resolved" /\ e.answer = answer
  BY DEF Resolved
<1>9. journal'.records = Append(journal.records, e)
  BY <1>3
<1> HIDE DEF e
<1>10. \A effect : Holds(effect, journal) => Holds(effect, journal')
  BY <1>2, <1>3, <1>9, SaysMore
<1>11. \A effect : /\ tells /\ effect.id = NameAt(journal, n)
                   /\ effect.outcome = answer.value
                   => Holds(effect, journal')
  BY <1>2, <1>3, <1>8, <1>9, SaysMore
<1>12. n \in Requested(journal.records, "TOOL") /\ e.is = "Resolved" /\ e.answer.completed =>
         \/ e.answer.value = Transient
         \/ \E m \in DOMAIN effects : /\ effects[m].id = NameAt(journal, n)
                                     /\ effects[m].outcome = e.answer.value
  BY <1>7, <1>8
<1>13. Performed(effects, journal')
  <2> HIDE DEF effects
  <2> QED
    BY <1>2, <1>3, <1>6, <1>9, <1>12, SaysMore
<1>14. \A effect : OnRecord(effect) => OnRecord(effect)'
  BY <1>1, <1>10 DEF OnRecord
<1>15. ASSUME NEW m \in DOMAIN effects
       PROVE  OnRecord(effects[m])'
  <2>1. CASE OnRecord(effects[m])
    BY <1>14, <1>w, <2>1
  <2>2. CASE ~OnRecord(effects[m])
    <3>1. effects[m].id = NameAt(journal, n) /\ n \in Requested(journal.records, "TOOL")
      BY <1>6, <2>2 DEF Outstanding
    <3>2. PICK k \in DOMAIN effects :
            effects[k].id = NameAt(journal, n) /\ effects[k].outcome = answer.value
      BY <1>7, <2>2
    <3>3. k = m /\ answer.completed
      BY <1>6, <1>7, <2>2, <3>1, <3>2 DEF NamedOnce
    <3> QED
      BY <1>11, <1>w, <3>1, <3>2, <3>3 DEF OnRecord
  <2> QED
    BY <2>1, <2>2
<1>16. AllPerformed(effects)'
  BY <1>1, <1>6, <1>13 DEF AllPerformed
<1>17. phase' = "up" => boot'.answer = Nothing
  <2>1. phase' = "up" => boot' = Answered(answer, boot.at + 1)
    BY DEF Resolve, Down
  <2>2. boot.at + 1 \in Nat
    BY <1>2 DEF BootShape
  <2> QED
    BY <2>1, <2>2, BootsShaped
<1>18. AnswerStands'
  BY <1>17 DEF AnswerStands
<1> QED
  BY <1>6, <1>15, <1>16, <1>18, <1>w DEF EffectsStand

\* A segment that continues leaves its journal behind, with all its answers.
LEMMA EffectsHandedOver ==
  ASSUME Shaped, Runs, EffectsStand, NextSegment,
         journal.continued[1].chunks \subseteq world.store
  PROVE  EffectsStand'
<1> DEFINE effects == world.device.effects
           segment == [seed |-> seed, journal |-> journal]
<1>1. /\ past' = Append(past, segment) /\ journal' = NewJournal
      /\ phase' = "bind" /\ world' = world /\ journal.continued # <<>>
  BY DEF NextSegment, RollsOver
<1>2. IsSeq(past) /\ segment.journal = journal
  BY DEF Shaped
<1> HIDE DEF segment
<1>3. /\ \A n \in DOMAIN past : n \in DOMAIN past' /\ past'[n] = past[n]
      /\ \A n \in DOMAIN past' : n \in DOMAIN past \/ past'[n] = segment
      /\ \E n \in DOMAIN past' : past'[n] = segment
  <2>1. /\ Len(past) \in Nat /\ DOMAIN past = 1..Len(past)
        /\ DOMAIN past' = 1..(Len(past) + 1)
        /\ \A n \in 1..Len(past) : past'[n] = past[n]
        /\ past'[Len(past) + 1] = segment
    BY <1>1, <1>2, AppendIsSeq
  <2> QED
    BY <2>1
<1>4. journal'.records = <<>>
  BY <1>1 DEF NewJournal
<1>5. ASSUME NEW effect, OnRecord(effect)
      PROVE  \E n \in DOMAIN past' : Holds(effect, past'[n].journal)
  <2>1. CASE Holds(effect, journal)
    BY <1>2, <1>3, <2>1
  <2>2. CASE \E n \in DOMAIN past : Holds(effect, past[n].journal)
    BY <1>3, <2>2
  <2> QED
    BY <1>5, <2>1, <2>2 DEF OnRecord
<1>6. \A effect : OnRecord(effect) => OnRecord(effect)'
  BY <1>5 DEF OnRecord
<1>7. \A m \in DOMAIN effects : OnRecord(effects[m])'
  <2>1. AllAnswered(journal)
    BY <1>1, EndsAnswered
  <2> QED
    BY <1>1, <1>6, <2>1, NoneOutstanding
<1>8. AllPerformed(effects)'
  <2>1. Performed(effects, journal')
    BY <1>4, NothingObserved DEF Performed
  <2>2. \A n \in DOMAIN past' : Performed(effects, past'[n].journal)
    BY <1>2, <1>3 DEF EffectsStand, AllPerformed
  <2> QED
    BY <1>1, <2>1, <2>2 DEF AllPerformed
<1>9. AnswerStands'
  BY <1>1 DEF AnswerStands
<1> QED
  BY <1>1, <1>7, <1>8, <1>9 DEF EffectsStand

LEMMA EffectsStep ==
  ASSUME Shaped, Runs, EffectsStand, Next
  PROVE  EffectsStand'
<1> USE DEF Error, Returns
<1>0. /\ JournalShape(journal) /\ BootShape(boot) /\ WorldShape(world) /\ Bound
  BY DEF Shaped
<1>s. SameDevice(world, world)
  BY DEF SameDevice
<1>1. CASE Bind
  <2>1. phase' # "up" /\ past' = past
    BY <1>1 DEF Bind
  <2>2. CASE Valid(seed) /\ journal.input = <<>>
    <3>1. /\ journal' = [NewJournal EXCEPT !.input = <<Start>>] /\ journal = NewJournal
          /\ world' = [world EXCEPT !.store = handoff]
      BY <1>0, <1>1, <2>2 DEF Bind, Bound
    <3>2. journal'.records = <<>> /\ journal.records = <<>>
      BY <3>1 DEF NewJournal
    <3>3. SameDevice(world', world)
      BY <1>0, <3>1, OthersShaped
    <3> QED
      BY <2>1, <3>2, <3>3, EffectsKept
  <2>3. CASE ~Valid(seed) \/ journal.input # <<>>
    <3>1. journal' = journal /\ world' = world
      BY <1>1, <2>3 DEF Bind
    <3> QED
      BY <1>s, <2>1, <3>1, EffectsKept
  <2> QED
    BY <2>2, <2>3
<1>2. CASE Boot
  <2>1. past' = past /\ journal' = journal /\ world' = world
    BY <1>2 DEF Boot
  <2>2. phase' = "up" => boot'.answer = Nothing
    BY <1>2, BootsShaped DEF Boot
  <2> QED
    BY <1>s, <2>1, <2>2, EffectsKept
<1>3. CASE Replay
  <2>1. past' = past /\ journal' = journal /\ world' = world
    BY <1>3 DEF Replay
  <2>2. phase' = "up" => boot'.answer = Nothing
    BY <1>0, <1>3, BootsShaped DEF Replay, BootShape
  <2> QED
    BY <1>s, <2>1, <2>2, EffectsKept
<1>4. CASE Redeliver
  <2>1. past' = past /\ journal' = journal /\ world' = world
    BY <1>4 DEF Redeliver
  <2>2. boot'.answer = Nothing
    BY <1>0, <1>4, HandedOnShaped DEF Redeliver, Requests, HandedOn, BootShape
  <2> QED
    BY <1>s, <2>1, <2>2, EffectsKept
<1>5. CASE Diverge \/ WorkflowFails \/ Confirm \/ Finish
  <2>1. /\ past' = past /\ journal' = journal /\ world' = world
        /\ phase' # "up"
    BY <1>5 DEF Diverge, WorkflowFails, Confirm, Finish
  <2> QED
    BY <1>s, <2>1, EffectsKept
<1>6. CASE ScheduleNew
  <2>1. CASE StruckBefore
    <3>1. /\ past' = past /\ world' = world /\ phase' # "up"
          /\ Record(Scheduled(Wanted.request)) /\ drives' = drives
      BY <1>6, <2>1 DEF ScheduleNew, Down, StruckBefore
    <3>2. journal'.records = journal.records /\ journal'.input = journal.input
      BY <2>1, <3>1, Recorded
    <3> QED
      BY <1>s, <3>1, <3>2, EffectsKept
  <2> QED
    BY <1>6, <2>1, EffectsScheduled
<1>7. CASE Dispatched
  BY <1>7, EffectsDispatched
<1>8. CASE ResolveCrashed
  <2>1. /\ past' = past /\ journal' = journal /\ world' = TakenBack /\ phase' # "up"
    BY <1>8 DEF ResolveCrashed, Down
  <2> QED
    BY <1>0, <2>1, TakenBackShaped, EffectsKept
<1>9. CASE ResolveLost
  <2>1. /\ past' = past /\ world' = TakenBack /\ phase' # "up" /\ StruckBefore
        /\ Record(Resolved(boot.answer)) /\ drives' = drives
    BY <1>9 DEF ResolveLost, Down
  <2>2. journal'.records = journal.records /\ journal'.input = journal.input
    BY <2>1, Recorded
  <2> QED
    BY <1>0, <2>1, <2>2, TakenBackShaped, EffectsKept
<1>10. CASE Resolve
  BY <1>10, EffectsResolved
<1>11. CASE ContinueAsNew \/ Conclude
  <2>1. /\ past' = past /\ world' = world /\ phase' # "up"
        /\ \/ journal' = journal
           \/ \E v : journal' = [journal EXCEPT !.continued = v]
           \/ \E v : journal' = [journal EXCEPT !.terminal = v]
    BY <1>11 DEF ContinueAsNew, Conclude, Down
  <2>2. journal'.records = journal.records /\ journal'.input = journal.input
    BY <1>0, <2>1 DEF JournalShape
  <2> QED
    BY <1>s, <2>1, <2>2, EffectsKept
<1>12. CASE NextSegment
  <2>1. CASE journal.continued[1].chunks \subseteq world.store
    BY <1>12, <2>1, EffectsHandedOver
  <2>2. CASE ~(journal.continued[1].chunks \subseteq world.store)
    <3>1. past' = past /\ journal' = journal /\ world' = world /\ phase' # "up"
      BY <1>12, <2>2 DEF NextSegment
    <3> QED
      BY <1>s, <3>1, EffectsKept
  <2> QED
    BY <2>1, <2>2
<1>13. CASE DriveAgain
  <2>1. /\ past' = past /\ journal' = journal /\ phase' # "up"
        /\ world' = [world EXCEPT !.inputs = Append(@, LateInput)]
    BY <1>13 DEF DriveAgain
  <2>2. SameDevice(world', world)
    BY <1>0, <2>1, InputShaped
  <2> QED
    BY <2>1, <2>2, EffectsKept
<1> QED
  BY <1>1, <1>2, <1>3, <1>4, <1>5, <1>6, <1>7, <1>8, <1>9, <1>10, <1>11, <1>12, <1>13
  DEF Next, Driving

----------------------------------------------------------------------------
(* The theorems.                                                           *)

\* What every step keeps, whatever the workflow, the world and the crashes.
DriveStands == Shaped /\ Runs /\ EffectsStand

\* In every reachable state the journal is a run of the workflow and the device
\* has performed what the journals have on record (Journal::schedule, resolve,
\* conclude; FakeDevice::dispatch).
THEOREM DriveInductive == Spec => []DriveStands
<1>1. Init => DriveStands
  BY ShapedInit, RunsInit, EffectsInit DEF DriveStands
<1>2. DriveStands /\ [Next]_vars => DriveStands'
  <2>1. ASSUME DriveStands, Next
        PROVE  DriveStands'
    <3>1. NamedOnce(world.device.effects)
      BY <2>1 DEF DriveStands, EffectsStand
    <3> QED
      BY <2>1, <3>1, ShapedStep, RunsStep, EffectsStep DEF DriveStands
  <2>2. ASSUME DriveStands, UNCHANGED vars
        PROVE  DriveStands'
    <3>1. Shaped'
      BY <2>2 DEF vars, DriveStands, Shaped, Counted, Bound, Start
    <3>2. Runs'
      BY <2>2 DEF vars, DriveStands, Runs
    <3>3. EffectsStand'
      BY <2>2 DEF vars, DriveStands, EffectsStand, AllPerformed, AnswerStands,
                  OnRecord, Outstanding, Wanted
    <3> QED
      BY <3>1, <3>2, <3>3 DEF DriveStands
  <2> QED
    BY <2>1, <2>2
<1> QED
  BY <1>1, <1>2, PTL DEF Spec

LEMMA StandsOnce ==
  ASSUME EffectsStand
  PROVE  EffectsOnce
<1> DEFINE effects == world.device.effects
<1>1. /\ NamedOnce(effects) /\ AllPerformed(effects)
      /\ \A m \in DOMAIN effects : OnRecord(effects[m]) \/ Outstanding(effects[m])
  BY DEF EffectsStand
<1>2. \A j \in KeptJournals : j = journal \/ \E n \in DOMAIN past : j = past[n].journal
  BY DEF KeptJournals
<1>3. /\ journal \in KeptJournals
      /\ \A n \in DOMAIN past : past[n].journal \in KeptJournals
  BY DEF KeptJournals
<1>4. ASSUME NEW j \in KeptJournals, NEW n \in ToolObservations(j.records)
      PROVE  \/ j.records[n + 1].answer.value = Transient
             \/ \E effect \in Effects : IsRecordedAt(effect, j, n)
  <2>1. Performed(effects, j)
    BY <1>1, <1>2 DEF AllPerformed
  <2>2. \A m \in DOMAIN effects : effects[m] \in Effects
    BY DEF Effects
  <2> QED
    BY <2>1, <2>2 DEF Performed
<1>5. ASSUME NEW effect \in Effects
      PROVE  IsRecorded(effect) \/ IsOutstanding(effect)
  <2>1. OnRecord(effect) \/ Outstanding(effect)
    BY <1>1 DEF Effects
  <2>2. OnRecord(effect) => IsRecorded(effect)
    BY <1>3 DEF OnRecord, Holds, IsRecorded
  <2>3. Outstanding(effect) => IsOutstanding(effect)
    BY DEF Outstanding, IsOutstanding
  <2> QED
    BY <2>1, <2>2, <2>3
<1> QED
  BY <1>1, <1>4, <1>5 DEF EffectsOnce, NamedOnce

\* However often crashes, resets and lost answers have a call handed on again,
\* the device performs it once, and what is on record is what it did
\* (FakeDevice::dispatch, by the effect's name).
THEOREM CallsArePerformedOnce == Spec => []EffectsOnce
<1>1. DriveStands => EffectsOnce
  BY StandsOnce DEF DriveStands
<1> QED
  BY <1>1, DriveInductive, PTL

\* The journal a boot replays holds what the workflow asks for, with an answer
\* to every request but the last; an end concluded again is the recorded one.
NeverDiverges ==
  /\ Requests /\ boot.at < Len(journal.records) =>
       /\ Agrees
       /\ boot.at + 1 < Len(journal.records) =>
            journal.records[boot.at + 2].is = "Resolved"
  /\ Concludes /\ journal.terminal # <<>> => journal.terminal = <<Wanted.status>>

\* A boot over a journal that boots of the same workflow wrote, with whatever
\* crash between any two of their steps, never finds it diverged: none of the
\* three ReplayDiverged errors is reached (run/host.rs schedule, conclude).
THEOREM ReplaysNeverDiverge == Spec => []NeverDiverges
<1>1. DriveStands => NeverDiverges
  <2>1. ASSUME DriveStands, phase = "up"
        PROVE  NeverDiverges
    BY <2>1, BootsAgree DEF DriveStands, NeverDiverges
  <2>2. ASSUME phase # "up"
        PROVE  NeverDiverges
    BY <2>2 DEF NeverDiverges, Requests, Concludes
  <2> QED
    BY <2>1, <2>2
<1> QED
  BY <1>1, DriveInductive, PTL

\* A drive answers with a divergence only where the workflow itself fails with
\* it: no step of the journal does (run/host.rs schedule, conclude).
THEOREM NoStepDiverges ==
  Spec => [][result' = [is |-> "error", error |-> "ReplayDiverged"] /\ result' # result
               => WorkflowFails]_vars
<1> USE DEF Error, Returns
<1>1. ASSUME DriveStands, Next, NeverDiverges,
             result' = [is |-> "error", error |-> "ReplayDiverged"], result' # result
      PROVE  WorkflowFails
  <2> DEFINE diverged == [is |-> "error", error |-> "ReplayDiverged"]
  <2>1. ~Diverge
    BY <1>1 DEF Diverge, NeverDiverges
  <2>2. ~Replay
    <3>1. SUFFICES ASSUME Replay
                   PROVE  FALSE
      OBVIOUS
    <3>2. journal.records[boot.at + 2].is = "Resolved"
      <4>1. Requests /\ boot.at + 1 < Len(journal.records)
        BY <3>1 DEF Replay
      <4>2. boot.at \in Nat /\ Len(journal.records) \in Nat
        BY <1>1, SeqDomain DEF DriveStands, Shaped, BootShape, JournalShape
      <4>3. boot.at < Len(journal.records)
        BY <4>1, <4>2
      <4> QED
        BY <1>1, <4>1, <4>3 DEF NeverDiverges
    <3> QED
      BY <1>1, <3>1, <3>2 DEF Replay
  <2>3. ~Confirm
    BY <1>1 DEF Confirm, NeverDiverges
  <2>4. ~Bind /\ ~Boot /\ ~NextSegment
    BY <1>1 DEF Bind, Boot, NextSegment
  <2>5. ~Finish
    <3>1. Outcome # diverged
      BY DEF Outcome
    <3> QED
      BY <1>1, <3>1 DEF Finish
  <2>6. ~DriveAgain
    BY <1>1 DEF DriveAgain, NoResult
  <2>7. /\ ~Redeliver /\ ~ScheduleNew /\ ~Dispatched /\ ~ResolveCrashed /\ ~ResolveLost
        /\ ~Resolve /\ ~ContinueAsNew /\ ~Conclude
    BY <1>1 DEF Redeliver, ScheduleNew, Dispatched, ResolveCrashed, ResolveLost, Resolve,
                ContinueAsNew, Conclude
  <2> QED
    BY <1>1, <2>1, <2>2, <2>3, <2>4, <2>5, <2>6, <2>7 DEF Next, Driving
<1>2. DriveStands /\ NeverDiverges /\ [Next]_vars =>
        [result' = [is |-> "error", error |-> "ReplayDiverged"] /\ result' # result
           => WorkflowFails]_vars
  BY <1>1
<1> QED
  BY <1>2, DriveInductive, ReplaysNeverDiverge, PTL DEF Spec

\* The pair a record belongs to.
LEMMA PairOf ==
  ASSUME NEW n \in Nat \ {0}
  PROVE  \E p \in Nat : n = 2 * p + 1 \/ n = 2 * p + 2
<1> DEFINE p == (n - 1) \div 2
<1>1. p \in Nat
  OBVIOUS
<1>2. n = 2 * p + 1 \/ n = 2 * p + 2
  OBVIOUS
<1> HIDE DEF p
<1> QED
  BY <1>1, <1>2

LEMMA StandsTyped ==
  ASSUME Shaped, Runs
  PROVE  TypeOK
<1> DEFINE r == journal.records
<1>1. IsSeq(r) /\ Len(r) \in Nat /\ DOMAIN r = 1..Len(r)
  BY SeqDomain DEF Shaped, JournalShape
<1>2. PICK f : Follows(f, journal)
  BY DEF Runs
<1>3. Pairs(r)
  <2>1. SUFFICES ASSUME NEW n \in 1..Len(r)
                 PROVE  r[n].is = "Scheduled" \/ (n > 1 /\ r[n - 1].is = "Scheduled")
    BY <1>1 DEF Pairs
  <2>2. PICK p \in Nat : n = 2 * p + 1 \/ n = 2 * p + 2
    <3>1. n \in Nat \ {0}
      BY <1>1
    <3> QED
      BY <3>1, PairOf
  <2>3. r[2 * p + 1] = Scheduled(f[p].want.request)
    <3>1. 2 * p + 1 =< Len(journal.records)
      BY <1>1, <2>2
    <3> QED
      BY <1>2, <3>1 DEF Follows
  <2>4. r[2 * p + 1].is = "Scheduled"
    BY <2>3 DEF Scheduled
  <2>5. (n > 1 /\ n - 1 = 2 * p + 1) \/ n = 2 * p + 1
    BY <2>2
  <2> QED
    BY <2>4, <2>5
<1>4. phase = "up" => boot.at \in 0..Len(r)
  BY BootsAgree
<1>5. journal.commits \in Len(r)..(Len(r) + MaxDrives)
  <2>1. /\ journal.commits \in Len(r)..(Len(r) + drives)
        /\ drives \in 1..MaxDrives /\ MaxDrives \in Nat
    BY HarnessAssumption DEF Shaped, Counted
  <2> QED
    BY <1>1, <2>1
<1> QED
  BY <1>3, <1>4, <1>5 DEF TypeOK, Shaped, WorldShape

\* Type correctness: the journal pairs every request with an answer, and a boot,
\* the reset and the world keep within their bounds.
THEOREM HarnessTyped == Spec => []TypeOK
<1>1. DriveStands => TypeOK
  BY StandsTyped DEF DriveStands
<1> QED
  BY <1>1, DriveInductive, PTL

----------------------------------------------------------------------------
(* What crashes take from the world.                                       *)

\* A plan of faults: which calls they meet, and how many attempts yet.
PlanShape(faults) ==
  /\ IsSeq(faults)
  /\ \A n \in DOMAIN faults :
       faults[n] \in [tool : {faults[n].tool}, resource : {faults[n].resource},
                      times : Nat]

\* Whatever the model and the operator say is told from silence.
Tells(w) ==
  /\ \A n \in DOMAIN w.lines : Says(w.lines[n])
  /\ \A n \in DOMAIN w.inputs : Says(w.inputs[n])

WorldSound(w) == WorldShape(w) /\ PlanShape(w.faults) /\ Tells(w)

Meets(fault, call) == fault.tool \in {AnyTool, call.tool} /\ fault.resource = Resource(call)

\* g is f but for attempts of a call that have met the faults planned for it.
FewerFaults(f, g, call) ==
  /\ DOMAIN g = DOMAIN f
  /\ \A n \in DOMAIN f :
       \/ g[n] = f[n]
       \/ /\ Meets(f[n], call)
          /\ \E more, fewer \in Nat :
               /\ fewer < more /\ f[n].times = more
               /\ g[n] = [f[n] EXCEPT !.times = fewer]

\* g is f and what the operator typed late.
MoreInputs(f, g) ==
  /\ IsSeq(g) /\ Len(f) =< Len(g)
  /\ \A n \in 1..Len(f) : g[n] = f[n]
  /\ \A n \in 1..Len(g) : n > Len(f) => g[n] = LateInput

LEMMA ConsumedFewer ==
  ASSUME NEW f, PlanShape(f), NEW call,
         Matching(f, call.tool, Resource(call)) # {},
         NEW g, g = Consumed(f, call.tool, Resource(call))
  PROVE  PlanShape(g) /\ FewerFaults(f, g, call)
<1> DEFINE planned == Matching(f, call.tool, Resource(call))
           m == Min(planned)
           e == [f[m] EXCEPT !.times = @ - 1]
<1>1. IsSeq(f) /\ Len(f) \in Nat /\ DOMAIN f = 1..Len(f)
  BY SeqDomain DEF PlanShape
<1>2. m \in DOMAIN f /\ Meets(f[m], call) /\ f[m].times > 0
  <2>1. planned \in SUBSET Nat
    BY <1>1 DEF Matching
  <2>2. m \in planned
    BY <2>1, LeastNumber
  <2> HIDE DEF m
  <2> QED
    BY <2>2 DEF Matching, Meets
<1>3. g = [f EXCEPT ![m] = e]
  BY DEF Consumed
<1>4. f[m] \in [tool : {f[m].tool}, resource : {f[m].resource}, times : Nat]
  BY <1>2 DEF PlanShape
<1> HIDE DEF m
<1>5. /\ f[m].times \in Nat /\ f[m].times - 1 \in Nat
      /\ e = [f[m] EXCEPT !.times = f[m].times - 1]
      /\ e \in [tool : {e.tool}, resource : {e.resource}, times : Nat]
  BY <1>2, <1>4
<1>6. /\ DOMAIN g = DOMAIN f /\ g[m] = e
      /\ \A n \in DOMAIN f : n # m => g[n] = f[n]
  BY <1>2, <1>3
<1>7. FewerFaults(f, g, call)
  <2>1. \E more, fewer \in Nat :
          fewer < more /\ f[m].times = more /\ g[m] = [f[m] EXCEPT !.times = fewer]
    <3>1. f[m].times - 1 < f[m].times
      BY <1>5
    <3> QED
      BY <1>5, <1>6, <3>1
  <2> QED
    BY <1>2, <1>6, <2>1 DEF FewerFaults
<1>8. IsSeq(g)
  <2>1. PICK S : f \in Seq(S)
    BY <1>1 DEF IsSeq
  <2> DEFINE R == S \cup {e}
  <2>2. f \in Seq(R) /\ e \in R
    BY <2>1
  <2> HIDE DEF R, e
  <2>3. g \in Seq(R)
    BY <1>2, <1>3, <2>2
  <2> QED
    BY <2>3 DEF IsSeq
<1>9. \A n \in DOMAIN g : g[n] \in [tool : {g[n].tool}, resource : {g[n].resource},
                                    times : Nat]
  <2> HIDE DEF e
  <2>1. \A n \in DOMAIN f : f[n] \in [tool : {f[n].tool}, resource : {f[n].resource},
                                      times : Nat]
    BY DEF PlanShape
  <2>2. ASSUME NEW n \in DOMAIN g
        PROVE  g[n] \in [tool : {g[n].tool}, resource : {g[n].resource}, times : Nat]
    <3>1. CASE n = m
      <4>1. g[n] = e
        BY <1>6, <3>1
      <4> QED
        BY <1>5, <4>1
    <3>2. CASE n # m
      <4>1. g[n] = f[n] /\ n \in DOMAIN f
        BY <1>6, <3>2
      <4> QED
        BY <2>1, <4>1
    <3> QED
      BY <3>1, <3>2
  <2> QED
    BY <2>2
<1> QED
  BY <1>7, <1>8, <1>9 DEF PlanShape

LEMMA FewerYet ==
  ASSUME NEW f, NEW g, NEW h, NEW call, PlanShape(g),
         FewerFaults(f, g, call), FewerFaults(g, h, call)
  PROVE  FewerFaults(f, h, call)
<1>1. DOMAIN g = DOMAIN f /\ DOMAIN h = DOMAIN f
  BY DEF FewerFaults
<1>2. SUFFICES ASSUME NEW n \in DOMAIN f, h[n] # f[n]
               PROVE  /\ Meets(f[n], call)
                      /\ \E more, fewer \in Nat :
                           /\ fewer < more /\ f[n].times = more
                           /\ h[n] = [f[n] EXCEPT !.times = fewer]
  BY <1>1 DEF FewerFaults
<1>3. CASE g[n] = f[n]
  BY <1>1, <1>2, <1>3 DEF FewerFaults
<1>4. CASE h[n] = g[n]
  BY <1>1, <1>2, <1>4 DEF FewerFaults
<1>5. CASE g[n] # f[n] /\ h[n] # g[n]
  <2>1. PICK a, b \in Nat : b < a /\ f[n].times = a /\ g[n] = [f[n] EXCEPT !.times = b]
    BY <1>5 DEF FewerFaults
  <2>2. PICK c, d \in Nat : d < c /\ g[n].times = c /\ h[n] = [g[n] EXCEPT !.times = d]
    BY <1>1, <1>5 DEF FewerFaults
  <2>3. "times" \in DOMAIN g[n]
    <3>1. g[n] \in [tool : {g[n].tool}, resource : {g[n].resource}, times : Nat]
      BY <1>1 DEF PlanShape
    <3> QED
      BY <3>1
  <2>4. c = b /\ h[n] = [f[n] EXCEPT !.times = d]
    BY <2>1, <2>2, <2>3
  <2>5. d < a
    BY <2>1, <2>2, <2>4
  <2>6. Meets(f[n], call)
    BY <1>5 DEF FewerFaults
  <2> QED
    BY <2>1, <2>4, <2>5, <2>6
<1> QED
  BY <1>3, <1>4, <1>5

LEMMA InputsYet ==
  ASSUME NEW f, NEW g, NEW h, IsSeq(f), MoreInputs(f, g), MoreInputs(g, h)
  PROVE  MoreInputs(f, h)
<1>1. Len(f) \in Nat /\ Len(g) \in Nat /\ Len(h) \in Nat
  BY SeqDomain DEF MoreInputs
<1> QED
  BY <1>1 DEF MoreInputs


\* Between one answer and the next, but for the request itself: attempts of a call
\* met a fault and their answers were lost, or the operator came to type.
Meanwhile(u, w, request) ==
  \/ w = u
  \/ /\ request.kind = "TOOL"
     /\ w = [u EXCEPT !.faults = w.faults]
     /\ FewerFaults(u.faults, w.faults, request.call)
  \/ /\ request.kind = "ASK"
     /\ w = [u EXCEPT !.inputs = w.inputs]
     /\ MoreInputs(u.inputs, w.inputs)

LEMMA MeanwhileYet ==
  ASSUME NEW u, NEW v, NEW w, NEW request, WorldSound(u), WorldSound(v),
         Meanwhile(u, v, request), Meanwhile(v, w, request)
  PROVE  Meanwhile(u, w, request)
<1>1. CASE v = u \/ w = v
  BY <1>1
<1>2. CASE v # u /\ w # v /\ request.kind = "TOOL"
  <2>1. /\ v = [u EXCEPT !.faults = v.faults]
        /\ FewerFaults(u.faults, v.faults, request.call)
        /\ w = [v EXCEPT !.faults = w.faults]
        /\ FewerFaults(v.faults, w.faults, request.call)
    BY <1>2 DEF Meanwhile
  <2>2. PlanShape(v.faults)
    BY DEF WorldSound
  <2>3. FewerFaults(u.faults, w.faults, request.call)
    BY <2>1, <2>2, FewerYet
  <2>4. w = [u EXCEPT !.faults = w.faults]
    BY <2>1
  <2> QED
    BY <1>2, <2>3, <2>4 DEF Meanwhile
<1>3. CASE v # u /\ w # v /\ request.kind = "ASK"
  <2>1. /\ v = [u EXCEPT !.inputs = v.inputs] /\ MoreInputs(u.inputs, v.inputs)
        /\ w = [v EXCEPT !.inputs = w.inputs] /\ MoreInputs(v.inputs, w.inputs)
    BY <1>3 DEF Meanwhile
  <2>2. IsSeq(u.inputs)
    BY DEF WorldSound, WorldShape
  <2>3. MoreInputs(u.inputs, w.inputs)
    BY <2>1, <2>2, InputsYet
  <2>4. w = [u EXCEPT !.inputs = w.inputs]
    BY <2>1
  <2> QED
    BY <1>3, <2>3, <2>4 DEF Meanwhile
<1> QED
  BY <1>1, <1>2, <1>3 DEF Meanwhile

IsServed(w, run, request, answer, t) ==
  Served(w, run, request).answer = answer /\ Served(w, run, request).world = t

\* An undisturbed step of a run: the port answers, once.
Serves(u, run, request, answer, t) ==
  \E v : WorldSound(v) /\ Meanwhile(u, v, request) /\ IsServed(v, run, request, answer, t)

\* A world where a request has no answer on record yet: it was not served, or it
\* was and is again with no more than the same answer.
Awaits(u, run, request, w) ==
  \/ Meanwhile(u, w, request)
  \/ /\ request.kind \in {"TOOL", "SNAP_STORE"}
     /\ \E answer : Serves(u, run, request, answer, w)
                      /\ IsServed(w, run, request, answer, w)

\* The world after the loss of an answer.
BackTo(w, request) ==
  IF request.kind = "INFER" THEN Unemitted(w)
  ELSE IF request.kind = "ASK" THEN Untaken(w)
  ELSE w

\* The script and the inputs are what they were; of the faults the first that is
\* planned for a call may be used.
LEMMA ServedKeeps ==
  ASSUME NEW w, WorldShape(w), NEW run, NEW request, NEW t,
         t = Served(w, run, request).world
  PROVE  /\ t.lines = w.lines /\ t.inputs = w.inputs
         /\ t.faults = IF /\ request.kind = "TOOL"
                          /\ Matching(w.faults, request.call.tool, Resource(request.call)) # {}
                       THEN Consumed(w.faults, request.call.tool, Resource(request.call))
                       ELSE w.faults
<1> DEFINE call == request.call
           planned == Matching(w.faults, call.tool, Resource(call))
           id == [run |-> run, seq |-> call.seq]
<1>1. CASE request.kind = "TOOL"
  <2>1. Served(w, run, request) = Tool(w, id, call)
    BY <1>1 DEF Served
  <2>2. CASE planned # {}
    <3> DEFINE faults == Consumed(w.faults, call.tool, Resource(call))
    <3>1. t = [w EXCEPT !.faults = faults]
      BY <2>1, <2>2 DEF Tool, Done
    <3> HIDE DEF faults
    <3>2. t.lines = w.lines /\ t.inputs = w.inputs /\ t.faults = faults
      BY <3>1 DEF WorldShape
    <3> QED
      BY <1>1, <2>2, <3>2 DEF faults
  <2>3. CASE planned = {}
    <3>1. t = w \/ t = Perform(w, id, call).world
      BY <2>1, <2>3 DEF Tool, Dispatch, Done, Failed
    <3>2. \/ t = w
          \/ \E device : t = [w EXCEPT !.device = device]
      <4> DEFINE device == [Physical(w, call, id.seq).device EXCEPT
                    !.effects = Append(@, Effect(id, call.digest,
                                                 Physical(w, call, id.seq).outcome))]
      <4>1. Perform(w, id, call).world = [w EXCEPT !.device = device]
        BY DEF Perform, Done
      <4> HIDE DEF device
      <4> QED
        BY <3>1, <4>1
    <3>3. t.lines = w.lines /\ t.inputs = w.inputs /\ t.faults = w.faults
      BY <3>2 DEF WorldShape
    <3> QED
      BY <2>3, <3>3
  <2> QED
    BY <2>2, <2>3
<1>2. CASE request.kind = "SNAP_STORE"
  <2>1. t = [w EXCEPT !.store = w.store \cup {request.chunk}]
    BY <1>2 DEF Served, StoreChunk, Done
  <2> QED
    BY <1>2, <2>1 DEF WorldShape
<1>3. CASE request.kind \notin {"TOOL", "SNAP_STORE"}
  <2>1. \/ t = w
        \/ t = [w EXCEPT !.emitted = w.emitted + 1]
        \/ t = [w EXCEPT !.taken = w.taken + 1]
    BY <1>3 DEF Served, Infer, Ask, ReadBack, LoadChunk, Done, Failed
  <2> QED
    BY <1>3, <2>1 DEF WorldShape
<1> QED
  BY <1>1, <1>2, <1>3

LEMMA ServedSound ==
  ASSUME NEW w, WorldSound(w), NamedOnce(w.device.effects), NEW run, NEW request,
         NEW t, t = Served(w, run, request).world
  PROVE  WorldSound(t)
<1>1. WorldShape(w) /\ PlanShape(w.faults) /\ Tells(w)
  BY DEF WorldSound
<1>2. WorldShape(t)
  <2>1. CASE request.kind = "TOOL"
    <3>1. Served(w, run, request) =
            Tool(w, [run |-> run, seq |-> request.call.seq], request.call)
      BY <2>1 DEF Served
    <3> QED
      BY <1>1, <3>1, ToolServed
  <2>2. CASE request.kind # "TOOL"
    BY <1>1, <2>2, OtherServed
  <2> QED
    BY <2>1, <2>2
<1>3. Tells(t)
  BY <1>1, ServedKeeps DEF Tells
<1>4. PlanShape(t.faults)
  <2> DEFINE call == request.call
             used == Consumed(w.faults, call.tool, Resource(call))
  <2>1. Matching(w.faults, call.tool, Resource(call)) # {} => PlanShape(used)
    BY <1>1, ConsumedFewer
  <2>2. \/ t.faults = w.faults
        \/ t.faults = used /\ Matching(w.faults, call.tool, Resource(call)) # {}
    BY <1>1, ServedKeeps
  <2> QED
    BY <1>1, <2>1, <2>2
<1> QED
  BY <1>2, <1>3, <1>4 DEF WorldSound


\* Losing a line that was said or an input that was taken brings back the world
\* that was.
LEMMA BroughtBack ==
  ASSUME NEW w, WorldSound(w), NEW run, NEW request, NEW answer, NEW t,
         IsServed(w, run, request, answer, t), request.kind \in {"INFER", "ASK"},
         request.kind = "INFER" => answer.completed,
         request.kind = "ASK" => answer # Nothing
  PROVE  BackTo(t, request) = w
<1>0. /\ w = [lines |-> w.lines, emitted |-> w.emitted, faults |-> w.faults,
              inputs |-> w.inputs, taken |-> w.taken, stuck |-> w.stuck,
              device |-> w.device, store |-> w.store]
      /\ w.emitted \in Nat /\ w.taken \in Nat
  <2> USE DEF WorldSound, WorldShape
  <2>1. Len(w.lines) \in Nat /\ Len(w.inputs) \in Nat
    BY SeqDomain
  <2> QED
    BY <2>1
<1>1. CASE request.kind = "INFER"
  <2>1. w.emitted < Len(w.lines)
    BY <1>1 DEF IsServed, Served, Infer, Failed
  <2>2. t = [w EXCEPT !.emitted = w.emitted + 1]
    BY <1>1, <2>1 DEF IsServed, Served, Infer, Done
  <2>3. /\ t = [lines |-> w.lines, emitted |-> w.emitted + 1, faults |-> w.faults,
              inputs |-> w.inputs, taken |-> w.taken, stuck |-> w.stuck,
              device |-> w.device, store |-> w.store]
    BY <1>0, <2>2
  <2>4. t.emitted # 0 /\ t.emitted - 1 = w.emitted
    BY <1>0, <2>3
  <2>5. Unemitted(t) = [t EXCEPT !.emitted = w.emitted]
    BY <2>4 DEF Unemitted
  <2>6. Unemitted(t) = w
    BY <1>0, <2>3, <2>5
  <2> QED
    BY <1>1, <2>6 DEF BackTo
<1>2. CASE request.kind = "ASK"
  <2>1. w.taken < Len(w.inputs)
    BY <1>2 DEF IsServed, Served, Ask
  <2>2. t = [w EXCEPT !.taken = w.taken + 1]
    BY <1>2, <2>1 DEF IsServed, Served, Ask, Done
  <2>3. /\ t = [lines |-> w.lines, emitted |-> w.emitted, faults |-> w.faults,
              inputs |-> w.inputs, taken |-> w.taken + 1, stuck |-> w.stuck,
              device |-> w.device, store |-> w.store]
    BY <1>0, <2>2
  <2>4. t.taken # 0 /\ t.taken - 1 = w.taken
    BY <1>0, <2>3
  <2>5. Untaken(t) = [t EXCEPT !.taken = w.taken]
    BY <2>4 DEF Untaken
  <2>6. Untaken(t) = w
    BY <1>0, <2>3, <2>5
  <2> QED
    BY <1>2, <2>6 DEF BackTo
<1> QED
  BY <1>1, <1>2

\* A call that is handed on again is answered as it was, and nothing is done; or
\* it only met a fault.
LEMMA CalledAgain ==
  ASSUME NEW w, WorldSound(w), NamedOnce(w.device.effects), NEW run, NEW request,
         NEW answer, NEW t, IsServed(w, run, request, answer, t), request.kind = "TOOL"
  PROVE  Meanwhile(w, t, request) \/ IsServed(t, run, request, answer, t)
<1> DEFINE call == request.call
           planned == Matching(w.faults, call.tool, Resource(call))
           id == [run |-> run, seq |-> call.seq]
           served == Tool(w, id, call)
           again == Tool(t, id, call)
           effects == w.device.effects
<1>1. /\ Served(w, run, request) = served /\ Served(t, run, request) = again
      /\ served.world = t /\ served.answer = answer
  BY DEF IsServed, Served
<1>2. WorldShape(w) /\ PlanShape(w.faults)
  BY DEF WorldSound
<1>3. CASE planned # {}
  <2> DEFINE faults == Consumed(w.faults, call.tool, Resource(call))
  <2>1. t = [w EXCEPT !.faults = faults]
    BY <1>1, <1>3 DEF Tool, Done
  <2>2. FewerFaults(w.faults, faults, call)
    BY <1>2, <1>3, ConsumedFewer
  <2> HIDE DEF faults
  <2>3. t.faults = faults
    BY <1>2, <2>1 DEF WorldShape
  <2> QED
    BY <2>1, <2>2, <2>3 DEF Meanwhile
<1>4. CASE planned = {}
  <2> HIDE DEF served, again, id
  <2>1. /\ WorldShape(t)
        /\ \/ IsRefused(w, served, id, call)
           \/ IsRepeated(w, served, id)
           \/ /\ IsPerformed(w, served, id, call)
              /\ \A n \in DOMAIN effects : effects[n].id # id
    BY <1>1, <1>2, <1>4, ToolServed DEF served
  <2>2. CASE IsRefused(w, served, id, call) \/ IsRepeated(w, served, id)
    <3>1. t = w
      BY <1>1, <2>2 DEF IsRefused, IsRepeated
    <3> QED
      BY <3>1 DEF Meanwhile
  <2>3. CASE /\ IsPerformed(w, served, id, call)
             /\ \A n \in DOMAIN effects : effects[n].id # id
    <3>1. PICK outcome, e, more :
            /\ answer = [completed |-> TRUE, value |-> outcome]
            /\ e = Effect(id, call.digest, outcome)
            /\ more = Append(effects, e) /\ t.device.effects = more
      BY <1>1, <2>3 DEF IsPerformed
    <3>2. e.id = id /\ e.digest = call.digest /\ e.outcome = outcome
      BY <3>1 DEF Effect
    <3>3. IsSeq(effects)
      BY <1>2 DEF WorldShape, DeviceShape
    <3>4. /\ NamedOnce(more) /\ \E n \in DOMAIN more : more[n] = e
      <4>1. NamedOnce(effects) /\ \A n \in DOMAIN effects : effects[n].id # e.id
        BY <2>3, <3>2
      <4> HIDE DEF effects
      <4>2. GrowsBy(effects, e, more)
        BY <3>1, <3>3, <4>1, NamedMore
      <4> QED
        BY <4>2 DEF GrowsBy
    <3>5. Matching(t.faults, call.tool, Resource(call)) = {}
      BY <1>1, <1>4, <2>3 DEF IsPerformed
    <3>6. PICK n \in DOMAIN more : more[n] = e
      BY <3>4
    <3>7. \/ IsRefused(t, again, id, call)
          \/ IsRepeated(t, again, id)
          \/ \A m \in DOMAIN t.device.effects : t.device.effects[m].id # id
      BY <2>1, <3>1, <3>4, <3>5, ToolServed DEF again
    <3>8. IsRepeated(t, again, id)
      BY <3>1, <3>2, <3>6, <3>7 DEF IsRefused
    <3>9. PICK m \in DOMAIN more :
            /\ more[m].id = id
            /\ again.answer = [completed |-> TRUE, value |-> more[m].outcome]
      BY <3>1, <3>8 DEF IsRepeated
    <3>10. m = n
      BY <3>2, <3>4, <3>6, <3>9 DEF NamedOnce
    <3>11. again.answer = answer /\ again.world = t
      BY <3>1, <3>2, <3>6, <3>8, <3>9, <3>10 DEF IsRepeated
    <3> QED
      BY <1>1, <3>11 DEF IsServed
  <2> QED
    BY <2>1, <2>2, <2>3
<1> QED
  BY <1>3, <1>4

\* A chunk stored again is stored.
LEMMA StoredAgain ==
  ASSUME NEW w, WorldSound(w), NEW run, NEW request, NEW answer, NEW t,
         IsServed(w, run, request, answer, t), request.kind = "SNAP_STORE"
  PROVE  IsServed(t, run, request, answer, t)
<1> DEFINE store == w.store \cup {request.chunk}
           a == [completed |-> TRUE, value |-> "stored"]
<1>1. t = [w EXCEPT !.store = store] /\ answer = a
  BY DEF IsServed, Served, StoreChunk, Done
<1>2. /\ Served(t, run, request).answer = a
      /\ Served(t, run, request).world = [t EXCEPT !.store = @ \cup {request.chunk}]
  BY DEF Served, StoreChunk, Done
<1>3. t.store = store /\ t = [lines |-> w.lines, emitted |-> w.emitted, faults |-> w.faults,
              inputs |-> w.inputs, taken |-> w.taken, stuck |-> w.stuck,
              device |-> w.device, store |-> store]
  <2> HIDE DEF store
  <2> QED
    BY <1>1 DEF WorldSound, WorldShape
<1>4. t.store \cup {request.chunk} = t.store
  BY <1>3
<1>5. [t EXCEPT !.store = t.store] = t
  <2> HIDE DEF store
  <2> QED
    BY <1>3
<1> QED
  BY <1>1, <1>2, <1>4, <1>5 DEF IsServed

\* A request that awaits its answer is served as in an undisturbed run; should the
\* answer be lost it awaits it again, but for a failure of the model.
LEMMA AwaitedServed ==
  ASSUME NEW u, NEW w, NEW run, NEW request, NEW answer, NEW t,
         WorldSound(u), WorldSound(w), NamedOnce(w.device.effects),
         Awaits(u, run, request, w), IsServed(w, run, request, answer, t)
  PROVE  /\ Serves(u, run, request, answer, t)
         /\ answer = Nothing => Awaits(u, run, request, t)
         /\ /\ answer # Nothing
            /\ request.kind = "INFER" => answer.completed
            => Awaits(u, run, request, BackTo(t, request))
<1>1. CASE Meanwhile(u, w, request)
  <2>1. Serves(u, run, request, answer, t)
    BY <1>1 DEF Serves
  <2>2. CASE request.kind \notin {"INFER", "ASK"}
    <3>1. BackTo(t, request) = t
      BY <2>2 DEF BackTo
    <3>2. Awaits(u, run, request, t)
      <4>1. CASE request.kind = "TOOL"
        <5>1. WorldSound(t)
          BY ServedSound DEF IsServed
        <5>2. CASE Meanwhile(w, t, request)
          BY <1>1, <5>1, <5>2, MeanwhileYet DEF Awaits
        <5>3. CASE IsServed(t, run, request, answer, t)
          BY <2>1, <4>1, <5>3 DEF Awaits
        <5> QED
          BY <4>1, <5>2, <5>3, CalledAgain
      <4>2. CASE request.kind = "SNAP_STORE"
        BY <2>1, <4>2, StoredAgain DEF Awaits
      <4>3. CASE request.kind \notin {"TOOL", "SNAP_STORE"}
        <5>1. t = w
          BY <2>2, <4>3 DEF IsServed, Served, ReadBack, LoadChunk, Done, Failed
        <5> QED
          BY <1>1, <5>1 DEF Awaits
      <4> QED
        BY <4>1, <4>2, <4>3
    <3> QED
      BY <2>1, <3>1, <3>2
  <2>3. CASE request.kind \in {"INFER", "ASK"}
    <3>1. answer = Nothing => t = w
      <4>0. /\ WorldShape(w) /\ Tells(w) /\ w.emitted \in Nat /\ w.taken \in Nat
            /\ DOMAIN w.lines = 1..Len(w.lines) /\ DOMAIN w.inputs = 1..Len(w.inputs)
            /\ Len(w.lines) \in Nat /\ Len(w.inputs) \in Nat
        BY SeqDomain DEF WorldSound, WorldShape
      <4>1. CASE request.kind = "INFER"
        <5>1. CASE w.emitted < Len(w.lines)
          <6>1. answer = [completed |-> TRUE, value |-> w.lines[w.emitted + 1]]
            BY <4>1, <5>1 DEF IsServed, Served, Infer, Done
          <6>2. w.emitted + 1 \in DOMAIN w.lines
            BY <4>0, <5>1
          <6> QED
            BY <4>0, <6>1, <6>2 DEF Tells, Says
        <5>2. CASE ~(w.emitted < Len(w.lines))
          BY <4>1, <5>2 DEF IsServed, Served, Infer, Failed
        <5> QED
          BY <5>1, <5>2
      <4>2. CASE request.kind = "ASK"
        <5>1. CASE w.taken < Len(w.inputs)
          <6>1. answer = [completed |-> TRUE, value |-> w.inputs[w.taken + 1]]
            BY <4>2, <5>1 DEF IsServed, Served, Ask, Done
          <6>2. w.taken + 1 \in DOMAIN w.inputs
            BY <4>0, <5>1
          <6> QED
            BY <4>0, <6>1, <6>2 DEF Tells, Says
        <5>2. CASE ~(w.taken < Len(w.inputs))
          BY <4>2, <5>2 DEF IsServed, Served, Ask
        <5> QED
          BY <5>1, <5>2
      <4> QED
        BY <2>3, <4>1, <4>2
    <3>2. /\ answer # Nothing
          /\ request.kind = "INFER" => answer.completed
          => BackTo(t, request) = w
      BY <2>3, BroughtBack
    <3> QED
      BY <1>1, <2>1, <3>1, <3>2 DEF Awaits
  <2> QED
    BY <2>2, <2>3
<1>2. CASE /\ request.kind \in {"TOOL", "SNAP_STORE"}
           /\ \E a : Serves(u, run, request, a, w) /\ IsServed(w, run, request, a, w)
  <2>1. t = w /\ BackTo(t, request) = t
    BY <1>2 DEF IsServed, BackTo
  <2>2. Serves(u, run, request, answer, w)
    BY <1>2 DEF IsServed
  <2>3. Awaits(u, run, request, w)
    OBVIOUS
  <2> QED
    BY <2>1, <2>2, <2>3
<1> QED
  BY <1>1, <1>2 DEF Awaits


----------------------------------------------------------------------------
(* The undisturbed run.                                                    *)

\* The worlds a journal's answers lead through, one after each, from the world w
\* that the segment begins in.
Leads(v, j, w) ==
  /\ v[0] = [w EXCEPT !.store = j.input[1].chunks]
  /\ \A p \in Nat : 2 * p + 2 =< Len(j.records) =>
       Serves(v[p], j.input[1].seed.id, j.records[2 * p + 1].request,
              j.records[2 * p + 2].answer, v[p + 1])

\* A segment that was driven from one world to another, where the workflow went on
\* with a new input.
LedOn(j, w, t, input) ==
  \E f, v : \E p \in Nat :
    /\ Follows(f, j) /\ Leads(v, j, w) /\ Len(j.records) = 2 * p
    /\ f[p].want.op = "continue" /\ t = v[p]
    /\ input = [seed |-> f[p].want.start.seed, chunks |-> f[p].want.start.chunks]

\* A boot that has an answer in its hands.
Holding == phase = "up" /\ boot.answer # Nothing

\* The world stands after the last answer, or there is one more request, which
\* awaits its answer, or has it and can lose it.
StandsAt(u, p) ==
  LET run == journal.input[1].seed.id
      request == journal.records[2 * p + 1].request
  IN \/ Len(journal.records) = 2 * p /\ world = u
     \/ /\ Len(journal.records) = 2 * p + 1
        /\ ~Holding => Awaits(u, run, request, world)
        /\ Holding =>
             /\ Serves(u, run, request, boot.answer, world)
             /\ (request.kind = "INFER" => boot.answer.completed) =>
                  Awaits(u, run, request, TakenBack)

Led(w) ==
  \E v : \E p \in Nat : Leads(v, journal, w) /\ WorldSound(v[p]) /\ StandsAt(v[p], p)

\* Segment after segment, the records are those of a run that nothing disturbs.
Undisturbed ==
  \E ws, inputs :
    /\ ws[1] \in Worlds
    /\ \E s \in Seeds : inputs[1] = [seed |-> s, chunks |-> {}]
    /\ \A k \in DOMAIN past :
         /\ past[k].journal.input = <<inputs[k]>>
         /\ LedOn(past[k].journal, ws[k], ws[k + 1], inputs[k + 1])
    /\ LET n == Len(past) + 1
       IN IF journal.input = <<>> THEN world = ws[n] /\ Start = inputs[n]
          ELSE journal.input = <<inputs[n]>> /\ Led(ws[n])

\* A drive that was suspended waits for the operator.
Sound ==
  /\ WorldSound(world)
  /\ phase = "returned" /\ result.is = "suspended" => Waits

LEMMA WorldsSound ==
  ASSUME NEW w \in Worlds
  PROVE  WorldSound(w)
<1>1. WorldShape(w)
  BY WorldsShaped
<1>2. PlanShape(w.faults)
  <2>1. /\ w.faults \in Seq(Range(w.faults))
        /\ \A fault \in Range(w.faults) :
             fault \in [tool : {fault.tool}, resource : {fault.resource}, times : Nat]
    BY HarnessAssumption
  <2>2. \A n \in DOMAIN w.faults : w.faults[n] \in Range(w.faults)
    BY DEF Range
  <2>3. IsSeq(w.faults)
    BY <2>1 DEF IsSeq
  <2> QED
    BY <2>1, <2>2, <2>3 DEF PlanShape
<1>3. Tells(w)
  <2>1. /\ \A line \in Range(w.lines) : Says(line)
        /\ \A input \in Range(w.inputs) : Says(input)
    BY HarnessAssumption
  <2> QED
    BY <2>1 DEF Tells, Range
<1> QED
  BY <1>1, <1>2, <1>3 DEF WorldSound

LEMMA TakenBackSound ==
  ASSUME WorldSound(world)
  PROVE  WorldSound(TakenBack) /\ TakenBack = BackTo(world, Wanted.request)
<1>1. WorldShape(world) /\ PlanShape(world.faults) /\ Tells(world)
  BY DEF WorldSound
<1>2. WorldShape(TakenBack) /\ TakenBack.faults = world.faults
  BY <1>1, TakenBackShaped DEF SameDevice
<1>3. TakenBack.lines = world.lines /\ TakenBack.inputs = world.inputs
  BY <1>1 DEF TakenBack, Unemitted, Untaken, WorldShape
<1>4. WorldSound(TakenBack)
  BY <1>1, <1>2, <1>3 DEF WorldSound, Tells
<1> QED
  BY <1>4 DEF TakenBack, BackTo

LEMMA SoundInit ==
  ASSUME Init
  PROVE  Sound
BY WorldsSound DEF Init, Sound

LEMMA SoundStep ==
  ASSUME Shaped, EffectsStand, Sound, Next
  PROVE  Sound'
<1> USE DEF Error, Returns
<1>0. WorldSound(world) /\ NamedOnce(world.device.effects)
  BY DEF Sound, EffectsStand
<1>1. CASE Bind
  <2>1. phase' = "boot" \/ result'.is = "error"
    BY <1>1 DEF Bind
  <2>2. world' = world \/ world' = [world EXCEPT !.store = handoff]
    BY <1>1 DEF Bind
  <2>3. WorldSound(world')
    <3>1. CASE world' = [world EXCEPT !.store = handoff]
      <4>1. WorldShape(world')
        BY <1>0, <3>1, OthersShaped DEF WorldSound
      <4>2. /\ world'.faults = world.faults /\ world'.lines = world.lines
            /\ world'.inputs = world.inputs
        BY <1>0, <3>1 DEF WorldSound, WorldShape
      <4> QED
        BY <1>0, <4>1, <4>2 DEF WorldSound, Tells
    <3>2. CASE world' = world
      BY <1>0, <3>2
    <3> QED
      BY <2>2, <3>1, <3>2
  <2> QED
    BY <2>1, <2>3 DEF Sound
<1>2. CASE Boot \/ Replay \/ Redeliver \/ Diverge \/ ScheduleNew \/ Resolve
             \/ WorkflowFails \/ ContinueAsNew \/ Conclude \/ Confirm
  <2>1. world' = world
    BY <1>2 DEF Boot, Replay, Redeliver, Diverge, ScheduleNew, Resolve, WorkflowFails,
                ContinueAsNew, Conclude, Confirm
  <2>2. phase' # "returned" \/ result'.is = "error"
    <3>1. CASE Boot \/ Replay \/ Diverge \/ Confirm
      BY <3>1 DEF Boot, Replay, Diverge, Requests, Confirm, Concludes
    <3>2. CASE WorkflowFails
      BY <3>2 DEF WorkflowFails
    <3>3. CASE Redeliver \/ ScheduleNew \/ Resolve \/ ContinueAsNew \/ Conclude
      BY <3>3 DEF Redeliver, Requests, ScheduleNew, Resolve, Resolves, ContinueAsNew,
                  Conclude, Concludes, Down
    <3> QED
      BY <1>2, <3>1, <3>2, <3>3
  <2> QED
    BY <1>0, <2>1, <2>2 DEF Sound
<1>3. CASE Dispatched
  <2>1. /\ world' = Served(world, seed.id, Wanted.request).world
        /\ phase' # "returned"
    BY <1>3 DEF Dispatched
  <2> QED
    BY <1>0, <2>1, ServedSound DEF Sound
<1>4. CASE ResolveCrashed \/ ResolveLost
  <2>1. world' = TakenBack /\ phase' = "boot"
    BY <1>4 DEF ResolveCrashed, ResolveLost, Down
  <2> QED
    BY <1>0, <2>1, TakenBackSound DEF Sound
<1>5. CASE Finish
  <2>1. world' = world /\ journal' = journal /\ result' = Outcome
    BY <1>5 DEF Finish
  <2>2. result'.is = "suspended" => Waits
    BY <2>1 DEF Outcome
  <2>3. Waits' <=> Waits
    BY <2>1 DEF Waits
  <2> QED
    BY <1>0, <2>1, <2>2, <2>3 DEF Sound
<1>6. CASE NextSegment
  <2>1. world' = world /\ (phase' = "bind" \/ result'.is = "error")
    BY <1>6 DEF NextSegment
  <2> QED
    BY <1>0, <2>1 DEF Sound
<1>7. CASE DriveAgain
  <2>1. world' = [world EXCEPT !.inputs = Append(@, LateInput)] /\ phase' = "bind"
    BY <1>7 DEF DriveAgain
  <2>2. /\ WorldShape(world') /\ world'.faults = world.faults
        /\ world'.lines = world.lines
        /\ world'.inputs = Append(world.inputs, LateInput)
    <3>1. WorldShape(world')
      BY <1>0, <2>1, InputShaped DEF WorldSound
    <3> DEFINE more == Append(world.inputs, LateInput)
    <3>2. world' = [world EXCEPT !.inputs = more]
      BY <2>1
    <3> HIDE DEF more
    <3>3. /\ world'.faults = world.faults /\ world'.lines = world.lines
          /\ world'.inputs = more
      BY <1>0, <3>2 DEF WorldSound, WorldShape
    <3> QED
      BY <3>1, <3>3 DEF more
  <2>3. Tells(world')
    <3>1. \A n \in DOMAIN world.inputs : Says(world.inputs[n])
      BY <1>0 DEF WorldSound, Tells
    <3>2. Says(LateInput)
      BY HarnessAssumption
    <3>3. IsSeq(world.inputs)
      BY <1>0 DEF WorldSound, WorldShape
    <3>4. \A n \in DOMAIN world'.inputs : Says(world'.inputs[n])
      <4> DEFINE s == world.inputs
                 more == Append(s, LateInput)
      <4>1. /\ Len(s) \in Nat /\ DOMAIN s = 1..Len(s) /\ DOMAIN more = 1..(Len(s) + 1)
            /\ \A n \in 1..Len(s) : more[n] = s[n]
            /\ more[Len(s) + 1] = LateInput
        BY <3>3, AppendIsSeq
      <4> HIDE DEF more
      <4>2. \A n \in DOMAIN more : Says(more[n])
        BY <3>1, <3>2, <4>1
      <4> QED
        BY <2>2, <4>2 DEF more
    <3> QED
      BY <1>0, <2>2, <3>4 DEF WorldSound, Tells
  <2> QED
    BY <1>0, <2>1, <2>2, <2>3 DEF Sound, WorldSound
<1> QED
  BY <1>1, <1>2, <1>3, <1>4, <1>5, <1>6, <1>7 DEF Next, Driving


\* A journal that is driven is bound to its start.
LEMMA InputBound ==
  ASSUME Shaped, phase \in {"boot", "up", "finish"}
  PROVE  journal.input # <<>> /\ journal.input = <<Start>>
           /\ journal.input[1].seed.id = seed.id
<1> DEFINE input == <<Start>>
<1>1. input # <<>> /\ input[1] = Start
  OBVIOUS
<1>2. journal.input = input
  BY DEF Shaped, Bound
<1>3. Start.seed = seed
  BY DEF Start
<1> HIDE DEF input
<1>4. journal.input[1].seed.id = seed.id /\ journal.input # <<>>
  BY <1>1, <1>2, <1>3
<1> QED
  BY <1>2, <1>4 DEF input

\* A step of one segment.
LEMMA SegmentStep ==
  ASSUME Undisturbed, past' = past, journal.input # <<>>,
         journal'.input = journal.input, \A w : Led(w) => Led(w)'
  PROVE  Undisturbed'
<1>1. PICK n : n = Len(past) + 1 /\ n' = n
  OBVIOUS
<1>2. PICK ws, inputs :
        /\ ws[1] \in Worlds
        /\ \E s \in Seeds : inputs[1] = [seed |-> s, chunks |-> {}]
        /\ \A k \in DOMAIN past :
             /\ past[k].journal.input = <<inputs[k]>>
             /\ LedOn(past[k].journal, ws[k], ws[k + 1], inputs[k + 1])
        /\ journal.input = <<inputs[n]>> /\ Led(ws[n])
  BY <1>1 DEF Undisturbed
<1>3. Led(ws[n])'
  BY <1>2
<1>4. n = Len(past') + 1
  BY <1>1
<1> QED
  BY <1>1, <1>2, <1>3, <1>4 DEF Undisturbed

\* A step that neither records nor serves anything.
LEMMA NothingServed ==
  ASSUME Undisturbed, past' = past, world' = world,
         journal'.records = journal.records, journal'.input = journal.input,
         journal.input = <<>> => Start' = Start,
         ~Holding, ~Holding'
  PROVE  Undisturbed'
<1>1. CASE journal.input = <<>>
  BY <1>1 DEF Undisturbed
<1>2. CASE journal.input # <<>>
  <2>1. ASSUME NEW w, Led(w)
        PROVE  Led(w)'
    <3>1. PICK v, p :
          p \in Nat /\ Leads(v, journal, w) /\ WorldSound(v[p]) /\ StandsAt(v[p], p)
      BY <2>1 DEF Led
    <3>2. Leads(v, journal', w)
      BY <3>1 DEF Leads
    <3>3. StandsAt(v[p], p)'
      BY <3>1 DEF StandsAt
    <3> QED
      BY <3>1, <3>2, <3>3 DEF Led
  <2> QED
    BY <1>2, <2>1, SegmentStep
<1> QED
  BY <1>1, <1>2

\* Requests are at the odd places of a journal, and answers at the even ones.
LEMMA Places ==
  ASSUME Shaped, Runs, NEW p \in Nat
  PROVE  /\ Len(journal.records) = 2 * p => AllAnswered(journal)
         /\ Len(journal.records) = 2 * p + 1 =>
              /\ ~AllAnswered(journal)
              /\ journal.records[2 * p + 1].is = "Scheduled"
<1> DEFINE r == journal.records
<1>1. IsSeq(r) /\ Len(r) \in Nat /\ (Len(r) = 0 <=> r = <<>>)
  BY SeqDomain DEF Shaped, JournalShape
<1>2. PICK f : Follows(f, journal)
  BY DEF Runs
<1>3. ASSUME Len(r) = 2 * p
      PROVE  AllAnswered(journal)
  <2>1. CASE p = 0
    BY <1>1, <1>3, <2>1 DEF AllAnswered
  <2>2. CASE p # 0
    <3>1. PICK q \in Nat : 2 * q + 2 = Len(r)
      <4>1. p - 1 \in Nat /\ 2 * (p - 1) + 2 = Len(r)
        BY <1>3, <2>2
      <4> QED
        BY <4>1
    <3>2. 2 * q + 2 =< Len(r)
      BY <1>1, <3>1
    <3>3. r[2 * q + 2].is = "Resolved"
      BY <1>2, <3>2 DEF Follows
    <3> QED
      BY <3>1, <3>3 DEF AllAnswered
  <2> QED
    BY <2>1, <2>2
<1>4. ASSUME Len(r) = 2 * p + 1
      PROVE  ~AllAnswered(journal) /\ r[2 * p + 1].is = "Scheduled"
  <2>1. r[2 * p + 1] = Scheduled(f[p].want.request)
    <3>1. 2 * p + 1 =< Len(r)
      BY <1>1, <1>4
    <3> QED
      BY <1>2, <3>1 DEF Follows
  <2>2. r[2 * p + 1].is = "Scheduled"
    BY <2>1 DEF Scheduled
  <2>3. r # <<>>
    BY <1>1, <1>4
  <2> QED
    BY <1>4, <2>2, <2>3 DEF AllAnswered
<1> QED
  BY <1>3, <1>4

\* A segment is bound to its start, in the world it begins in.
LEMMA UndisturbedBound ==
  ASSUME Shaped, Sound, Undisturbed, Bind, Valid(seed), journal.input = <<>>, Sound'
  PROVE  Undisturbed'
<1>0. PICK n : n = Len(past) + 1
  OBVIOUS
<1>1. PICK ws, inputs :
        /\ ws[1] \in Worlds
        /\ \E s \in Seeds : inputs[1] = [seed |-> s, chunks |-> {}]
        /\ \A k \in DOMAIN past :
             /\ past[k].journal.input = <<inputs[k]>>
             /\ LedOn(past[k].journal, ws[k], ws[k + 1], inputs[k + 1])
        /\ world = ws[n] /\ Start = inputs[n]
  BY <1>0 DEF Undisturbed
<1> DEFINE input == <<Start>>
           v == [k \in Nat |-> world']
<1>2. /\ journal' = [NewJournal EXCEPT !.input = input] /\ past' = past
      /\ world' = [world EXCEPT !.store = handoff] /\ phase' = "boot"
  BY DEF Bind, Shaped, Bound
<1>3. /\ journal'.input = input /\ journal'.records = <<>>
      /\ input # <<>> /\ input[1] = Start
  BY <1>2 DEF NewJournal
<1>4. Len(journal'.records) = 0
  BY <1>3
<1>5. v[0] = [ws[n] EXCEPT !.store = journal'.input[1].chunks]
  BY <1>1, <1>2, <1>3 DEF Start
<1>6. world' = v[0] /\ WorldSound(world')
  BY DEF Sound
<1> HIDE DEF v
<1>7. PICK x : x = v
  OBVIOUS
<1>8. Leads(x, journal', ws[n])
  BY <1>4, <1>5, <1>7 DEF Leads
<1>9. Led(ws[n])'
  <2>1. StandsAt(x[0], 0)'
    BY <1>4, <1>6, <1>7 DEF StandsAt
  <2> QED
    BY <1>6, <1>7, <1>8, <2>1 DEF Led
<1>10. journal'.input = <<inputs[n]>> /\ n = Len(past') + 1
  BY <1>0, <1>1, <1>2, <1>3
<1> QED
  BY <1>1, <1>2, <1>3, <1>9, <1>10 DEF Undisturbed

\* A new request awaits its answer.
LEMMA UndisturbedScheduled ==
  ASSUME Shaped, Runs, Undisturbed, ScheduleNew, ~StruckBefore
  PROVE  Undisturbed'
<1>1. /\ phase = "up" /\ ~boot.dispatched /\ boot.at = Len(journal.records)
      /\ Record(Scheduled(Wanted.request)) /\ UNCHANGED <<past, world, drives>>
  BY DEF ScheduleNew, Requests
<1>2. BootShape(boot) /\ IsSeq(journal.records) /\ journal.input # <<>>
  BY <1>1, InputBound DEF Shaped, JournalShape
<1>3. /\ journal'.input = journal.input
      /\ journal'.records = Append(journal.records, Scheduled(Wanted.request))
  BY <1>1, Recorded
<1>4. AllAnswered(journal)
  BY <1>1, BootsAgree
<1>5. ~Holding'
  <2>1. phase' = "up" => boot' = HandedOn
    BY DEF ScheduleNew, Down, HandedOn
  <2> QED
    BY <1>1, <1>2, <2>1, HandedOnShaped DEF BootShape, Holding
<1>6. ASSUME NEW w, Led(w)
      PROVE  Led(w)'
  <2>1. PICK v, p :
          p \in Nat /\ Leads(v, journal, w) /\ WorldSound(v[p]) /\ StandsAt(v[p], p)
    BY <1>6 DEF Led
  <2>2. Len(journal.records) = 2 * p /\ world = v[p]
    BY <1>4, <2>1, Places DEF StandsAt
  <2> DEFINE e == Scheduled(Wanted.request)
  <2> HIDE DEF e
  <2>3. /\ Len(journal'.records) = 2 * p + 1
        /\ \A n \in 1..(2 * p) : journal'.records[n] = journal.records[n]
    BY <1>2, <1>3, <2>2, AppendIsSeq DEF e
  <2>4. Leads(v, journal', w)
    <3>1. v[0] = [w EXCEPT !.store = journal'.input[1].chunks]
      BY <1>3, <2>1 DEF Leads
    <3>2. ASSUME NEW q \in Nat, 2 * q + 2 =< Len(journal'.records)
          PROVE  Serves(v[q], journal'.input[1].seed.id, journal'.records[2 * q + 1].request,
                        journal'.records[2 * q + 2].answer, v[q + 1])
      <4>1. /\ 2 * q + 2 =< Len(journal.records)
            /\ 2 * q + 1 \in 1..(2 * p) /\ 2 * q + 2 \in 1..(2 * p)
        BY <2>1, <2>2, <2>3, <3>2
      <4>2. /\ journal'.records[2 * q + 1] = journal.records[2 * q + 1]
            /\ journal'.records[2 * q + 2] = journal.records[2 * q + 2]
        BY <2>3, <4>1
      <4> QED
        BY <1>3, <2>1, <4>1, <4>2 DEF Leads
    <3> QED
      BY <3>1, <3>2 DEF Leads
  <2>5. StandsAt(v[p], p)'
    BY <1>1, <1>5, <2>2, <2>3 DEF StandsAt, Awaits, Meanwhile
  <2> QED
    BY <2>1, <2>4, <2>5 DEF Led
<1> QED
  BY <1>1, <1>2, <1>3, <1>6, SegmentStep

\* What a boot that has its request handed on may count on.
LEMMA HandedOnAt ==
  ASSUME Shaped, Runs, phase = "up", boot.dispatched, NEW u, NEW p \in Nat, StandsAt(u, p)
  PROVE  /\ Len(journal.records) = 2 * p + 1
         /\ journal.records[2 * p + 1].request = Wanted.request
         /\ journal.input # <<>> /\ journal.input[1].seed.id = seed.id
         /\ ~Holding => Awaits(u, seed.id, Wanted.request, world)
         /\ Holding =>
              /\ Serves(u, seed.id, Wanted.request, boot.answer, world)
              /\ (Wanted.request.kind = "INFER" => boot.answer.completed) =>
                   Awaits(u, seed.id, Wanted.request, TakenBack)
<1>1. journal.records[Len(journal.records)] = Scheduled(Wanted.request)
      /\ Len(journal.records) > 0
  BY BootsAgree
<1>2. ~AllAnswered(journal)
  <2>1. Scheduled(Wanted.request).is = "Scheduled"
    BY DEF Scheduled
  <2>2. journal.records # <<>>
    BY <1>1, SeqDomain DEF Shaped, JournalShape
  <2> QED
    BY <1>1, <2>1, <2>2 DEF AllAnswered
<1>3. Len(journal.records) = 2 * p + 1
  BY <1>2, Places DEF StandsAt
<1>4. journal.records[2 * p + 1].request = Wanted.request
  BY <1>1, <1>3 DEF Scheduled
<1>5. journal.input # <<>> /\ journal.input[1].seed.id = seed.id
  BY InputBound
<1> QED
  BY <1>3, <1>4, <1>5 DEF StandsAt

\* The port serves what awaits its answer.
LEMMA UndisturbedDispatched ==
  ASSUME Shaped, Runs, EffectsStand, Sound, Undisturbed, Dispatched, Sound'
  PROVE  Undisturbed'
<1> DEFINE request == Wanted.request
           served == Served(world, seed.id, request)
           answer == served.answer
<1>1. /\ phase = "up" /\ boot.dispatched /\ boot.answer = Nothing
      /\ world' = served.world /\ UNCHANGED <<journal, past, seed>>
      /\ IF answer = Nothing THEN phase' = "finish"
         ELSE phase' = "up" /\ boot' = [boot EXCEPT !.answer = answer]
  BY DEF Dispatched
<1>2. BootShape(boot) /\ WorldSound(world) /\ NamedOnce(world.device.effects)
      /\ journal.input # <<>> /\ WorldSound(world')
  BY <1>1, InputBound DEF Shaped, EffectsStand, Sound
<1>3. /\ Holding' <=> answer # Nothing
      /\ answer # Nothing => boot'.answer = answer /\ boot'.run = boot.run
  BY <1>1, <1>2 DEF Holding, BootShape
<1>4. IsServed(world, seed.id, request, answer, world')
  BY <1>1 DEF IsServed
<1>5. ~Holding
  BY <1>1 DEF Holding
<1>6. answer # Nothing => TakenBack' = BackTo(world', request)
  BY <1>3 DEF TakenBack, BackTo, Wanted
<1> HIDE DEF served, answer, request
<1>7. ASSUME NEW w, Led(w)
      PROVE  Led(w)'
  <2>1. PICK v, p :
          p \in Nat /\ Leads(v, journal, w) /\ WorldSound(v[p]) /\ StandsAt(v[p], p)
    BY <1>7 DEF Led
  <2>2. /\ Len(journal.records) = 2 * p + 1
        /\ journal.records[2 * p + 1].request = request
        /\ journal.input[1].seed.id = seed.id
        /\ Awaits(v[p], seed.id, request, world)
    BY <1>1, <1>5, <2>1, HandedOnAt DEF request
  <2>3. /\ Serves(v[p], seed.id, request, answer, world')
        /\ answer = Nothing => Awaits(v[p], seed.id, request, world')
        /\ /\ answer # Nothing
           /\ request.kind = "INFER" => answer.completed
           => Awaits(v[p], seed.id, request, BackTo(world', request))
    <3>1. /\ WorldSound(v[p]) /\ WorldSound(world) /\ NamedOnce(world.device.effects)
          /\ Awaits(v[p], seed.id, request, world)
          /\ IsServed(world, seed.id, request, answer, world')
      BY <1>2, <1>4, <2>1, <2>2
    <3> DEFINE u == v[p]
               run == seed.id
    <3> HIDE DEF u, run
    <3>2. /\ WorldSound(u) /\ WorldSound(world) /\ NamedOnce(world.device.effects)
          /\ Awaits(u, run, request, world) /\ IsServed(world, run, request, answer, world')
      BY <3>1 DEF u, run
    <3>3. /\ Serves(u, run, request, answer, world')
          /\ answer = Nothing => Awaits(u, run, request, world')
          /\ /\ answer # Nothing
             /\ request.kind = "INFER" => answer.completed
             => Awaits(u, run, request, BackTo(world', request))
      BY <3>2, AwaitedServed
    <3> QED
      BY <3>3 DEF u, run
  <2>4. StandsAt(v[p], p)'
    <3>1. /\ Len(journal'.records) = 2 * p + 1
          /\ journal'.records[2 * p + 1].request = request
          /\ journal'.input[1].seed.id = seed.id
      BY <1>1, <2>2
    <3>2. CASE answer = Nothing
      <4>1. ~Holding' /\ Awaits(v[p], seed.id, request, world')
        BY <1>3, <2>3, <3>2
      <4> QED
        BY <3>1, <4>1 DEF StandsAt
    <3>3. CASE answer # Nothing
      <4>1. Holding' /\ boot'.answer = answer /\ TakenBack' = BackTo(world', request)
        BY <1>3, <1>6, <3>3
      <4>2. /\ Serves(v[p], seed.id, request, boot'.answer, world')
            /\ (request.kind = "INFER" => boot'.answer.completed) =>
                 Awaits(v[p], seed.id, request, TakenBack')
        BY <2>3, <3>3, <4>1
      <4> QED
        BY <3>1, <4>1, <4>2 DEF StandsAt
    <3> QED
      BY <3>2, <3>3
  <2>5. Leads(v, journal', w)
    BY <1>1, <2>1
  <2> QED
    BY <2>1, <2>4, <2>5 DEF Led
<1> QED
  BY <1>1, <1>2, <1>7, SegmentStep

\* The loss this run's world does not make good: a failure of an exhausted script
\* takes back a line that is on record (FakeModel::unemit, run/host.rs).
FailureLost ==
  /\ ResolveCrashed \/ ResolveLost
  /\ Wanted.request.kind = "INFER" /\ ~boot.answer.completed

\* A lost answer is awaited again.
LEMMA UndisturbedLost ==
  ASSUME Shaped, Runs, Undisturbed, ResolveCrashed \/ ResolveLost, ~FailureLost
  PROVE  Undisturbed'
<1>1. /\ phase = "up" /\ boot.answer # Nothing /\ boot.dispatched
      /\ world' = TakenBack /\ phase' = "boot" /\ UNCHANGED <<past, drives>>
  BY DEF ResolveCrashed, ResolveLost, Resolves, Down, Shaped, BootShape
<1>2. journal'.records = journal.records /\ journal'.input = journal.input
  <2>1. CASE ResolveCrashed
    BY <2>1 DEF ResolveCrashed
  <2>2. CASE ResolveLost
    <3>1. StruckBefore /\ Record(Resolved(boot.answer))
      BY <2>2 DEF ResolveLost
    <3> QED
      BY <1>1, <3>1, Recorded
  <2> QED
    BY <2>1, <2>2
<1>3. Holding /\ ~Holding' /\ journal.input # <<>>
  BY <1>1, InputBound DEF Holding
<1>4. Wanted.request.kind = "INFER" => boot.answer.completed
  BY DEF FailureLost
<1>5. ASSUME NEW w, Led(w)
      PROVE  Led(w)'
  <2>1. PICK v, p :
          p \in Nat /\ Leads(v, journal, w) /\ WorldSound(v[p]) /\ StandsAt(v[p], p)
    BY <1>5 DEF Led
  <2>2. /\ Len(journal.records) = 2 * p + 1
        /\ journal.records[2 * p + 1].request = Wanted.request
        /\ journal.input[1].seed.id = seed.id
        /\ Awaits(v[p], seed.id, Wanted.request, world')
    BY <1>1, <1>3, <1>4, <2>1, HandedOnAt
  <2>3. Leads(v, journal', w)
    BY <1>2, <2>1 DEF Leads
  <2>4. StandsAt(v[p], p)'
    BY <1>2, <1>3, <2>2 DEF StandsAt
  <2> QED
    BY <2>1, <2>3, <2>4 DEF Led
<1> QED
  BY <1>1, <1>2, <1>3, <1>5, SegmentStep

\* A recorded answer is one more step of the undisturbed run.
LEMMA UndisturbedResolved ==
  ASSUME Shaped, Runs, Sound, Undisturbed, Resolve
  PROVE  Undisturbed'
<1> DEFINE answer == boot.answer
           e == Resolved(answer)
<1>1. /\ phase = "up" /\ answer # Nothing /\ boot.dispatched /\ ~StruckBefore
      /\ Record(e) /\ UNCHANGED <<past, world, drives>>
  BY DEF Resolve, Resolves, Shaped, BootShape
<1>2. IsSeq(journal.records) /\ Holding /\ journal.input # <<>> /\ WorldSound(world)
      /\ BootShape(boot)
  BY <1>1, InputBound DEF Shaped, JournalShape, Holding, Sound
<1>3. /\ journal'.input = journal.input
      /\ journal'.records = Append(journal.records, e)
  BY <1>1, Recorded
<1>4. ~Holding'
  <2>1. phase' = "up" => boot' = Answered(answer, boot.at + 1)
    BY DEF Resolve, Down
  <2>2. boot.at + 1 \in Nat
    BY <1>2 DEF BootShape
  <2> QED
    BY <2>1, <2>2, BootsShaped DEF Holding
<1>5. e.answer = answer
  BY DEF Resolved
<1>w. world' = world
  BY <1>1
<1> HIDE DEF e
<1>6. ASSUME NEW w, Led(w)
      PROVE  Led(w)'
  <2>1. PICK v, p :
          p \in Nat /\ Leads(v, journal, w) /\ WorldSound(v[p]) /\ StandsAt(v[p], p)
    BY <1>6 DEF Led
  <2>2. /\ Len(journal.records) = 2 * p + 1
        /\ journal.records[2 * p + 1].request = Wanted.request
        /\ journal.input[1].seed.id = seed.id
        /\ Serves(v[p], seed.id, Wanted.request, answer, world)
    BY <1>1, <1>2, <2>1, HandedOnAt
  <2>3. /\ Len(journal'.records) = 2 * p + 2
        /\ \A n \in 1..(2 * p + 1) : journal'.records[n] = journal.records[n]
        /\ journal'.records[2 * p + 2] = e
    BY <1>2, <1>3, <2>1, <2>2, AppendIsSeq
  <2> DEFINE x == [n \in Nat |-> IF n = p + 1 THEN world ELSE v[n]]
  <2>4. x[p + 1] = world /\ \A n \in Nat : n # p + 1 => x[n] = v[n]
    BY <2>1
  <2> HIDE DEF x
  <2>5. Leads(x, journal', w)
    <3>1. x[0] = [w EXCEPT !.store = journal'.input[1].chunks]
      BY <1>3, <2>1, <2>4 DEF Leads
    <3>2. ASSUME NEW q \in Nat, 2 * q + 2 =< Len(journal'.records)
          PROVE  Serves(x[q], journal'.input[1].seed.id, journal'.records[2 * q + 1].request,
                        journal'.records[2 * q + 2].answer, x[q + 1])
      <4>1. CASE q = p
        <5>1. /\ journal'.records[2 * q + 1].request = Wanted.request
              /\ journal'.records[2 * q + 2].answer = answer
              /\ journal'.input[1].seed.id = seed.id
          BY <1>3, <1>5, <2>2, <2>3, <4>1
        <5>2. x[q] = v[p] /\ x[q + 1] = world
          BY <2>4, <4>1
        <5> QED
          BY <2>2, <5>1, <5>2
      <4>2. CASE q # p
        <5>1. /\ 2 * q + 2 =< Len(journal.records)
              /\ 2 * q + 1 \in 1..(2 * p + 1) /\ 2 * q + 2 \in 1..(2 * p + 1)
              /\ q # p + 1 /\ q + 1 # p + 1 /\ q + 1 \in Nat
          BY <2>1, <2>2, <2>3, <3>2, <4>2
        <5>2. /\ journal'.records[2 * q + 1] = journal.records[2 * q + 1]
              /\ journal'.records[2 * q + 2] = journal.records[2 * q + 2]
              /\ x[q] = v[q] /\ x[q + 1] = v[q + 1]
          BY <2>3, <2>4, <5>1
        <5> QED
          BY <1>3, <2>1, <5>1, <5>2 DEF Leads
      <4> QED
        BY <4>1, <4>2
    <3> QED
      BY <3>1, <3>2 DEF Leads
  <2>6. PICK q, u : q \in Nat /\ q = p + 1 /\ u = x[q]
    BY <2>1
  <2>7. Len(journal'.records) = 2 * q /\ world' = u /\ WorldSound(u)
    BY <1>2, <1>w, <2>1, <2>3, <2>4, <2>6
  <2>8. StandsAt(u, q)'
    BY <2>7 DEF StandsAt
  <2> QED
    BY <2>5, <2>6, <2>7, <2>8 DEF Led
<1> QED
  BY <1>1, <1>2, <1>3, <1>6, SegmentStep


LEMMA UndisturbedInit ==
  ASSUME Init
  PROVE  Undisturbed
<1>1. /\ past = <<>> /\ journal.input = <<>> /\ world \in Worlds
      /\ seed \in Seeds /\ Start = [seed |-> seed, chunks |-> {}]
  BY DEF Init, NewJournal, Start
<1>2. PICK ws, inputs : ws[1] = world /\ inputs[1] = Start
  <2>1. [k \in {1} |-> world][1] = world /\ [k \in {1} |-> Start][1] = Start
    OBVIOUS
  <2> QED
    BY <2>1
<1>3. Len(past) + 1 = 1 /\ DOMAIN past = {}
  BY <1>1
<1>4. \E s \in Seeds : inputs[1] = [seed |-> s, chunks |-> {}]
  BY <1>1, <1>2
<1> QED
  BY <1>1, <1>2, <1>3, <1>4 DEF Undisturbed

\* A segment that continues as new hands its world on, and what the workflow wants
\* to start from.
LEMMA UndisturbedContinued ==
  ASSUME Shaped, Runs, Undisturbed, NextSegment,
         journal.continued[1].chunks \subseteq world.store
  PROVE  Undisturbed'
<1> DEFINE start == journal.continued[1]
<1>1. /\ phase = "finish" /\ RollsOver /\ world' = world /\ journal' = NewJournal
      /\ seed' = start.seed /\ handoff' = start.chunks
      /\ past' = Append(past, [seed |-> seed, journal |-> journal])
  BY DEF NextSegment
<1>2. journal.input # <<>> /\ IsSeq(past) /\ journal.continued # <<>>
      /\ JournalShape(journal)
  BY <1>1, InputBound DEF Shaped, RollsOver
<1>3. PICK n, m : n = Len(past) + 1 /\ m = n + 1
  OBVIOUS
<1>4. PICK ws, inputs :
        /\ ws[1] \in Worlds
        /\ \E s \in Seeds : inputs[1] = [seed |-> s, chunks |-> {}]
        /\ \A k \in DOMAIN past :
             /\ past[k].journal.input = <<inputs[k]>>
             /\ LedOn(past[k].journal, ws[k], ws[k + 1], inputs[k + 1])
        /\ journal.input = <<inputs[n]>> /\ Led(ws[n])
  BY <1>2, <1>3 DEF Undisturbed
<1>5. PICK s : s = [seed |-> start.seed, chunks |-> start.chunks] /\ Start' = s
  BY <1>1 DEF Start
<1>6. LedOn(journal, ws[n], world, s)
  <2>1. PICK f : Follows(f, journal) /\ Ends(f, journal)
    BY DEF Runs
  <2>2. PICK q : /\ q \in Nat /\ Len(journal.records) = 2 * q
                 /\ f[q].want.op = "continue" /\ journal.continued = <<f[q].want.start>>
    BY <1>2, <2>1 DEF Ends
  <2>3. PICK v, p :
          p \in Nat /\ Leads(v, journal, ws[n]) /\ WorldSound(v[p]) /\ StandsAt(v[p], p)
    BY <1>4 DEF Led
  <2>4. Len(journal.records) = 2 * p /\ world = v[p]
    <3>1. AllAnswered(journal)
      BY <1>2, EndsAnswered
    <3> QED
      BY <2>3, <3>1, Places DEF StandsAt
  <2>5. p = q
    BY <2>2, <2>3, <2>4
  <2>6. start = f[q].want.start
    BY <2>2
  <2>7. s = [seed |-> f[q].want.start.seed, chunks |-> f[q].want.start.chunks]
    BY <1>5, <2>6
  <2> QED
    BY <2>1, <2>2, <2>3, <2>4, <2>5, <2>7 DEF LedOn
<1> DEFINE e == [seed |-> seed, journal |-> journal]
           xs == [k \in Nat |-> IF k = m THEN world ELSE ws[k]]
           ys == [k \in Nat |-> IF k = m THEN s ELSE inputs[k]]
<1>7. e.journal = journal
  OBVIOUS
<1>8. /\ m \in Nat /\ n \in Nat \ {0} /\ DOMAIN past = 1..(n - 1)
      /\ DOMAIN past' = 1..n /\ Len(past') = n /\ past'[n] = e
      /\ \A k \in 1..(n - 1) : past'[k] = past[k]
  <2> HIDE DEF e
  <2>1. past' = Append(past, e)
    BY <1>1 DEF e
  <2> QED
    BY <1>2, <1>3, <2>1, AppendIsSeq
<1> HIDE DEF e, start
<1>9. /\ xs[m] = world /\ ys[m] = s
      /\ \A k \in Nat : k # m => xs[k] = ws[k] /\ ys[k] = inputs[k]
  BY <1>8
<1> HIDE DEF xs, ys
<1>10. PICK vs, starts : vs = xs /\ starts = ys
  OBVIOUS
<1>11. \A k \in DOMAIN past' :
         /\ past'[k].journal.input = <<starts[k]>>
         /\ LedOn(past'[k].journal, vs[k], vs[k + 1], starts[k + 1])
  <2>1. SUFFICES ASSUME NEW k \in 1..n
                 PROVE  /\ past'[k].journal.input = <<starts[k]>>
                        /\ LedOn(past'[k].journal, vs[k], vs[k + 1], starts[k + 1])
    BY <1>8
  <2>2. CASE k = n
    <3>1. /\ past'[k].journal = journal /\ vs[k] = ws[n] /\ starts[k] = inputs[n]
          /\ vs[k + 1] = world /\ starts[k + 1] = s
      BY <1>3, <1>7, <1>8, <1>9, <1>10, <2>2
    <3> QED
      BY <1>4, <1>6, <3>1
  <2>3. CASE k # n
    <3>1. k \in 1..(n - 1) /\ k \in Nat /\ k + 1 \in Nat /\ k # m /\ k + 1 # m
      BY <1>3, <1>8, <2>3
    <3>2. /\ past'[k] = past[k] /\ vs[k] = ws[k] /\ starts[k] = inputs[k]
          /\ vs[k + 1] = ws[k + 1] /\ starts[k + 1] = inputs[k + 1]
      BY <1>8, <1>9, <1>10, <3>1
    <3>3. k \in DOMAIN past
      BY <1>8, <3>1
    <3> QED
      BY <1>4, <3>2, <3>3
  <2> QED
    BY <2>2, <2>3
<1>12. vs[1] = ws[1] /\ starts[1] = inputs[1] /\ vs[m] = world /\ starts[m] = s
  <2>1. 1 \in Nat /\ 1 # m
    BY <1>3, <1>8
  <2> QED
    BY <1>9, <1>10, <2>1
<1>13. journal'.input = <<>> /\ m = Len(past') + 1 /\ world' = vs[m] /\ Start' = starts[m]
  BY <1>1, <1>3, <1>5, <1>8, <1>12, NewJournalShaped
<1> QED
  BY <1>4, <1>11, <1>12, <1>13 DEF Undisturbed

\* A suspended drive's question still awaits its answer when the operator has come.
LEMMA UndisturbedAgain ==
  ASSUME Shaped, Runs, Sound, Undisturbed, DriveAgain, Sound'
  PROVE  Undisturbed'
<1>1. /\ phase = "returned" /\ phase' = "bind" /\ journal' = journal /\ past' = past
      /\ world' = [world EXCEPT !.inputs = Append(@, LateInput)] /\ Waits
  BY DEF DriveAgain, Sound
<1>2. ~Holding /\ ~Holding'
  BY <1>1 DEF Holding
<1>3. IsSeq(journal.records) /\ WorldSound(world) /\ WorldSound(world')
  BY DEF Shaped, JournalShape, Sound
<1>4. /\ journal.records # <<>>
      /\ journal.records[Len(journal.records)].is = "Scheduled"
      /\ journal.records[Len(journal.records)].request.kind = "ASK"
  BY <1>1 DEF Waits, Last
<1>5. journal.input # <<>>
  <2>1. journal # NewJournal
    BY <1>4 DEF NewJournal
  <2> QED
    BY <2>1 DEF Shaped, Bound
<1>6. ~AllAnswered(journal)
  BY <1>4 DEF AllAnswered
<1>7. /\ world' = [world EXCEPT !.inputs = world'.inputs]
      /\ MoreInputs(world.inputs, world'.inputs)
  <2> DEFINE more == Append(world.inputs, LateInput)
  <2>1. world' = [world EXCEPT !.inputs = more] /\ IsSeq(world.inputs)
    BY <1>1, <1>3 DEF WorldSound, WorldShape
  <2>2. MoreInputs(world.inputs, more)
    <3>1. /\ IsSeq(more) /\ Len(world.inputs) \in Nat
          /\ Len(more) = Len(world.inputs) + 1
          /\ \A n \in 1..Len(world.inputs) : more[n] = world.inputs[n]
          /\ more[Len(world.inputs) + 1] = LateInput
      BY <2>1, AppendIsSeq
    <3> HIDE DEF more
    <3> QED
      BY <3>1 DEF MoreInputs
  <2> HIDE DEF more
  <2>3. world'.inputs = more
    BY <1>3, <2>1 DEF WorldSound, WorldShape
  <2> QED
    BY <2>1, <2>2, <2>3
<1>8. ASSUME NEW w, Led(w)
      PROVE  Led(w)'
  <2>1. PICK v, p :
          p \in Nat /\ Leads(v, journal, w) /\ WorldSound(v[p]) /\ StandsAt(v[p], p)
    BY <1>8 DEF Led
  <2>2. PICK run, request :
          /\ run = journal.input[1].seed.id
          /\ request = journal.records[2 * p + 1].request
    OBVIOUS
  <2>3. Len(journal.records) = 2 * p + 1 /\ Awaits(v[p], run, request, world)
    BY <1>2, <1>6, <2>1, <2>2, Places DEF StandsAt
  <2>4. request.kind = "ASK"
    BY <1>4, <2>2, <2>3
  <2>5. Meanwhile(v[p], world, request)
    BY <2>3, <2>4 DEF Awaits
  <2>6. Meanwhile(world, world', request)
    BY <1>7, <2>4 DEF Meanwhile
  <2>7. Meanwhile(v[p], world', request)
    BY <1>3, <2>1, <2>5, <2>6, MeanwhileYet
  <2>8. Awaits(v[p], run, request, world')
    BY <2>7 DEF Awaits
  <2>9. StandsAt(v[p], p)'
    BY <1>1, <1>2, <2>2, <2>3, <2>8 DEF StandsAt
  <2>10. Leads(v, journal', w)
    BY <1>1, <2>1
  <2> QED
    BY <2>1, <2>9, <2>10 DEF Led
<1> QED
  BY <1>1, <1>5, <1>8, SegmentStep

LEMMA UndisturbedStep ==
  ASSUME DriveStands, Sound, Sound', Undisturbed, Next, ~FailureLost
  PROVE  Undisturbed'
<1> USE DEF Error, Returns
<1>0. Shaped /\ Runs /\ EffectsStand /\ BootShape(boot)
  BY DEF DriveStands, Shaped
<1>h. phase # "up" \/ ~boot.dispatched \/ Wanted.op # "activity" => ~Holding
  BY <1>0, BootsAgree DEF Holding, BootShape
<1>1. CASE Bind
  <2>1. CASE Valid(seed) /\ journal.input = <<>>
    BY <1>0, <1>1, <2>1, UndisturbedBound
  <2>2. CASE ~Valid(seed) \/ journal.input # <<>>
    <3>1. /\ phase = "bind" /\ phase' \in {"boot", "returned"}
          /\ past' = past /\ world' = world /\ journal' = journal
          /\ seed' = seed /\ handoff' = handoff
      BY <1>1, <2>2 DEF Bind
    <3>2. ~Holding /\ ~Holding'
      BY <3>1 DEF Holding
    <3>3. Start' = Start
      BY <3>1 DEF Start
    <3> QED
      BY <1>0, <3>1, <3>2, <3>3, NothingServed
  <2> QED
    BY <2>1, <2>2
<1>2. CASE Boot \/ Replay \/ Redeliver \/ Diverge
  <2>1. /\ past' = past /\ world' = world /\ journal' = journal
        /\ seed' = seed /\ handoff' = handoff
    BY <1>2 DEF Boot, Replay, Redeliver, Diverge
  <2>2. ~Holding
    BY <1>2, <1>h DEF Boot, Replay, Redeliver, Diverge, Requests
  <2>3. ~Holding'
    <3>1. CASE Boot
      <4>1. phase' = "up" => boot' = [NewBoot EXCEPT !.run = Begin(journal.input[1])]
        BY <3>1 DEF Boot
      <4> QED
        BY <4>1, BootsShaped DEF Holding
    <3>2. CASE Replay
      <4>1. /\ phase = "up" /\ ~boot.dispatched
            /\ \/ phase' = "returned"
               \/ boot' = Answered(journal.records[boot.at + 2].answer, boot.at + 2)
        BY <3>2 DEF Replay, Requests
      <4>2. boot.at + 2 \in Nat
        BY <1>0 DEF BootShape
      <4> QED
        BY <4>1, <4>2, BootsShaped DEF Holding
    <3>3. CASE Redeliver
      <4>1. boot' = HandedOn /\ boot.answer = Nothing
        BY <1>0, <3>3 DEF Redeliver, Requests, HandedOn, BootShape
      <4> QED
        BY <1>0, <4>1, HandedOnShaped DEF Holding
    <3>4. CASE Diverge
      BY <3>4 DEF Diverge, Holding
    <3> QED
      BY <1>2, <3>1, <3>2, <3>3, <3>4
  <2>4. Start' = Start
    BY <2>1 DEF Start
  <2> QED
    BY <2>1, <2>2, <2>3, <2>4, NothingServed
<1>3. CASE ScheduleNew
  <2>1. CASE StruckBefore
    <3>1. /\ phase = "up" /\ ~boot.dispatched /\ phase' = "boot"
          /\ past' = past /\ world' = world /\ seed' = seed /\ handoff' = handoff
          /\ drives' = drives /\ Record(Scheduled(Wanted.request))
      BY <1>3, <2>1 DEF ScheduleNew, Requests, StruckBefore, Down
    <3>2. journal'.records = journal.records /\ journal'.input = journal.input
      BY <1>0, <2>1, <3>1, Recorded
    <3>3. ~Holding /\ ~Holding' /\ Start' = Start
      BY <1>h, <3>1 DEF Holding, Start
    <3> QED
      BY <3>1, <3>2, <3>3, NothingServed
  <2>2. CASE ~StruckBefore
    BY <1>0, <1>3, <2>2, UndisturbedScheduled
  <2> QED
    BY <2>1, <2>2
<1>4. CASE Dispatched
  BY <1>0, <1>4, UndisturbedDispatched
<1>5. CASE ResolveCrashed \/ ResolveLost
  BY <1>0, <1>5, UndisturbedLost
<1>6. CASE Resolve
  BY <1>0, <1>6, UndisturbedResolved
<1>7. CASE WorkflowFails \/ ContinueAsNew \/ Conclude \/ Confirm
  <2>1. /\ past' = past /\ world' = world /\ seed' = seed /\ handoff' = handoff
        /\ phase' \in {"returned", "finish", "boot"}
    BY <1>7 DEF WorkflowFails, ContinueAsNew, Conclude, Confirm, Concludes, Down
  <2>2. ~Holding
    BY <1>7, <1>h DEF WorkflowFails, ContinueAsNew, Conclude, Confirm, Concludes
  <2>3. ~Holding' /\ Start' = Start
    BY <2>1 DEF Holding, Start
  <2>4. journal'.records = journal.records /\ journal'.input = journal.input
    <3>1. JournalShape(journal)
      BY <1>0 DEF Shaped
    <3> QED
      BY <1>7, <3>1 DEF WorkflowFails, ContinueAsNew, Conclude, Confirm, JournalShape
  <2> QED
    BY <2>1, <2>2, <2>3, <2>4, NothingServed
<1>8. CASE Finish
  <2>1. /\ past' = past /\ world' = world /\ seed' = seed /\ handoff' = handoff
        /\ phase = "finish" /\ phase' = "returned" /\ journal' = journal
    BY <1>8 DEF Finish
  <2>2. ~Holding /\ ~Holding' /\ Start' = Start
    BY <2>1 DEF Holding, Start
  <2> QED
    BY <2>1, <2>2, NothingServed
<1>9. CASE NextSegment
  <2>1. CASE journal.continued[1].chunks \subseteq world.store
    BY <1>0, <1>9, <2>1, UndisturbedContinued
  <2>2. CASE ~(journal.continued[1].chunks \subseteq world.store)
    <3>1. /\ past' = past /\ world' = world /\ seed' = seed /\ handoff' = handoff
          /\ phase = "finish" /\ phase' = "returned" /\ journal' = journal
      BY <1>9, <2>2 DEF NextSegment
    <3>2. ~Holding /\ ~Holding' /\ Start' = Start
      BY <3>1 DEF Holding, Start
    <3> QED
      BY <3>1, <3>2, NothingServed
  <2> QED
    BY <2>1, <2>2
<1>10. CASE DriveAgain
  BY <1>0, <1>10, UndisturbedAgain
<1> QED
  BY <1>1, <1>2, <1>3, <1>4, <1>5, <1>6, <1>7, <1>8, <1>9, <1>10 DEF Next, Driving

\* The world stays one the ports are made for, and a drive that was suspended left a
\* question that no one has answered (Journal::awaits_input, run/host.rs drive).
THEOREM SuspendedWaits == Spec => []Sound
<1>1. Init => Sound
  BY SoundInit
<1>2. DriveStands /\ Sound /\ [Next]_vars => Sound'
  <2>1. ASSUME DriveStands, Sound, Next
        PROVE  Sound'
    BY <2>1, SoundStep DEF DriveStands
  <2>2. ASSUME Sound, UNCHANGED vars
        PROVE  Sound'
    BY <2>2 DEF vars, Sound, Waits
  <2> QED
    BY <2>1, <2>2
<1> QED
  BY <1>1, <1>2, DriveInductive, PTL DEF Spec

\* Crash points, resets, reboots and late answers leave no trace: whatever stopped
\* its boots, what a run has on record is a run of its workflow that nothing
\* disturbed, in a world that it asked everything once, segment after segment, from
\* the world it began in (run/host.rs, world.rs); but attempts whose answers were
\* lost may have met faults planned for their call, and the operator may have come to
\* type.  The hypothesis names the one loss that the world does not make good.
THEOREM CrashesAreInvisible ==
  Spec /\ [][~FailureLost]_vars => [](Runs /\ Undisturbed)
<1>1. Init => Undisturbed
  BY UndisturbedInit
<1>2. DriveStands /\ Sound /\ Sound' /\ Undisturbed
        /\ [Next]_vars /\ [~FailureLost]_vars => Undisturbed'
  <2>0. SUFFICES ASSUME DriveStands, Sound, Sound', Undisturbed, [Next]_vars,
                        [~FailureLost]_vars
                 PROVE  Undisturbed'
    OBVIOUS
  <2>1. CASE Next /\ ~FailureLost
    BY <2>0, <2>1, UndisturbedStep
  <2>2. CASE UNCHANGED vars
    <3>1. ASSUME NEW w, Led(w)
          PROVE  Led(w)'
      BY <2>2, <3>1 DEF vars, Led, StandsAt, Holding, TakenBack, Wanted
    <3>2. UNCHANGED <<past, journal, world, Start>>
      BY <2>2 DEF vars, Start
    <3>3. CASE journal.input = <<>>
      BY <2>0, <3>2, <3>3 DEF Undisturbed
    <3>4. CASE journal.input # <<>>
      BY <2>0, <3>1, <3>2, <3>4, SegmentStep
    <3> QED
      BY <3>3, <3>4
  <2> QED
    BY <2>0, <2>1, <2>2
<1>3. DriveStands => Runs
  BY DEF DriveStands
<1> QED
  BY <1>1, <1>2, <1>3, DriveInductive, SuspendedWaits, PTL DEF Spec

============================================================================
