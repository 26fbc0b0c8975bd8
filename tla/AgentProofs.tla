---------------------------- MODULE AgentProofs ----------------------------
(***************************************************************************)
(* Theorems of the beat loop, for every number of goals, every envelope,   *)
(* every command the operator may type and every ending of a run.          *)
(*                                                                         *)
(* First what the operators the supervisor is built from do: each          *)
(* operation of the goal ledger yields a goal, keeps the envelope's        *)
(* promise, and moves the status and the reservation as stated; each       *)
(* operation of the memory keeps its keys distinct and within their        *)
(* quotas, its stamps in order, and the notes.  The beat loop follows.     *)
(***************************************************************************)
EXTENDS Agent, SequenceTheorems, FiniteSetTheorems, WellFoundedInduction, TLAPS

\* The promise of an envelope, and the standing rule that a goal which may
\* run again can pay for the run.
Sound(g) ==
  /\ CheckEnvelope(g)
  /\ g.status \in {"Active", "Paused"} => Fundable(g.remaining)

\* The smaller of two grants is one of them.
LEMMA LeastIsLower ==
  ASSUME NEW a \in Nat, NEW b \in Nat
  PROVE  Least(a, b) \in Nat /\ Least(a, b) <= a /\ Least(a, b) <= b
BY DEF Least

\* Whatever the streak, a backoff is a number of beats.
LEMMA BackoffIsSpan == \A streak : Backoff(streak) \in Int
BY PolicyAssumption DEF Backoff

\* A goal that may run reserves at least one of each unit, and no more than
\* is left (GoalLedger::reservation on a fundable goal).
LEMMA ReservationFits ==
  ASSUME NEW g \in Goal, Fundable(g.remaining)
  PROVE  /\ Reservation(g) \in Grant
         /\ Reservation(g).turns \in 1..g.remaining.turns
         /\ Reservation(g).mutations \in 1..g.remaining.mutations
<1>1. /\ g.remaining.turns \in Nat
      /\ g.remaining.mutations \in Nat
      /\ g.envelope.perRunTurns \in Nat \ {0}
      /\ g.envelope.perRunMutations \in Nat \ {0}
  BY DEF Goal, Remaining, Envelope
<1>2. QED
  BY <1>1 DEF Reservation, Least, Grant, Fundable

\* An admitted goal holds its whole envelope and nothing in reserve.
LEMMA AdmittedSound ==
  ASSUME NEW spec \in GoalSpec, NEW now \in Int
  PROVE  /\ Admitted(spec, now) \in Goal
         /\ Sound(Admitted(spec, now))
         /\ Admitted(spec, now).status = "Active"
<1> DEFINE g == Admitted(spec, now)
<1>1. spec.envelope \in Envelope
  BY DEF GoalSpec
<1>2. /\ g.remaining \in Remaining
      /\ g.reserved \in Grant
      /\ g.run \in RunId
  BY <1>1 DEF Admitted, Envelope, Remaining, ZeroGrant, Grant, NoRun, RunId
<1>3. g \in Goal
  BY <1>1, <1>2 DEF Admitted, Goal, GoalSpec, GoalStatus
<1>4. Sound(g)
  BY <1>1 DEF Sound, CheckEnvelope, Admitted, Envelope, Fundable, ZeroGrant, Busy
<1>5. QED
  BY <1>3, <1>4 DEF Admitted

\* A spawn takes what it reserves out of what is left, unit by unit.
LEMMA SpawnedSound ==
  ASSUME NEW g \in Goal, NEW run \in RunId, Sound(g), g.status = "Active"
  PROVE  /\ Spawned(g, run) \in Goal
         /\ Sound(Spawned(g, run))
         /\ Spawned(g, run).status = "Running"
         /\ Spawned(g, run).envelope = g.envelope
         /\ Spawned(g, run).reserved = Reservation(g)
         /\ Spawned(g, run).remaining.turns
              = g.remaining.turns - Reservation(g).turns
         /\ Spawned(g, run).remaining.mutations
              = g.remaining.mutations - Reservation(g).mutations
         /\ g.reserved = ZeroGrant
<1> DEFINE h == Spawned(g, run)
           grant == Reservation(g)
<1>1. Fundable(g.remaining) /\ CheckEnvelope(g)
  BY DEF Sound
<1>2. /\ grant \in Grant
      /\ grant.turns \in 1..g.remaining.turns
      /\ grant.mutations \in 1..g.remaining.mutations
  BY <1>1, ReservationFits
<1>3. /\ g.remaining \in Remaining
      /\ g.envelope \in Envelope
      /\ g.runsStarted \in Nat
  BY DEF Goal
<1>4. g.reserved = ZeroGrant
  BY <1>1 DEF CheckEnvelope, Busy
<1>5. /\ h.status = "Running"
      /\ h.envelope = g.envelope
      /\ h.reserved = grant
      /\ h.remaining = [turns |-> g.remaining.turns - grant.turns,
                        mutations |-> g.remaining.mutations - grant.mutations,
                        runs |-> g.remaining.runs - 1]
  BY DEF Spawned, Goal
<1>6. h.remaining \in Remaining
  BY <1>1, <1>2, <1>3, <1>5 DEF Remaining, Fundable
<1>7. h \in Goal
  <2>1. /\ "Running" \in GoalStatus
        /\ g.runsStarted + 1 \in Nat
        /\ [turns |-> g.remaining.turns - grant.turns,
            mutations |-> g.remaining.mutations - grant.mutations,
            runs |-> g.remaining.runs - 1] \in Remaining
    BY <1>3, <1>5, <1>6 DEF GoalStatus
  <2>2. QED
    BY <1>2, <2>1, Zenon DEF Spawned, Goal
<1>8. CheckEnvelope(h)
  <2> HIDE DEF h, grant
  <2>1. /\ g.remaining.turns \in Nat /\ g.remaining.mutations \in Nat
        /\ g.remaining.runs \in Nat
        /\ g.envelope.turns \in Nat /\ g.envelope.mutations \in Nat
        /\ g.envelope.runs \in Nat
    BY <1>3 DEF Remaining, Envelope
  <2>2. /\ g.remaining.turns <= g.envelope.turns
        /\ g.remaining.mutations <= g.envelope.mutations
        /\ g.remaining.runs <= g.envelope.runs
    BY <1>1, <1>4, <2>1 DEF CheckEnvelope, ZeroGrant, Busy
  <2>3. QED
    BY <1>2, <1>5, <2>1, <2>2 DEF CheckEnvelope, Busy
<1>9. Sound(h)
  BY <1>5, <1>8 DEF Sound
<1>10. QED
  BY <1>4, <1>5, <1>7, <1>9

\* Parking and resuming move the status and nothing a budget is made of.
LEMMA ParkedSound ==
  ASSUME NEW g \in Goal, Sound(g), g.status = "Running", NEW beat \in Int
  PROVE  /\ Parked(g, beat) \in Goal
         /\ Sound(Parked(g, beat))
         /\ Parked(g, beat).status = "Waiting"
         /\ Parked(g, beat).envelope = g.envelope
         /\ Parked(g, beat).remaining = g.remaining
         /\ Parked(g, beat).reserved = g.reserved
         /\ Parked(g, beat).run = g.run
<1> DEFINE h == Parked(g, beat)
<1>1. /\ h.status = "Waiting" /\ h.envelope = g.envelope
      /\ h.remaining = g.remaining /\ h.reserved = g.reserved
      /\ h.run = g.run
  BY DEF Parked, Goal
<1>2. h \in Goal
  <2>1. "Waiting" \in GoalStatus
    BY DEF GoalStatus
  <2>2. QED
    BY <2>1, Zenon DEF Parked, Goal
<1>3. Sound(h)
  BY <1>1 DEF Sound, CheckEnvelope, Busy
<1>4. QED
  BY <1>1, <1>2, <1>3

LEMMA ResumedSound ==
  ASSUME NEW g \in Goal, Sound(g), g.status = "Waiting"
  PROVE  /\ Resumed(g) \in Goal
         /\ Sound(Resumed(g))
         /\ Resumed(g).status = "Running"
         /\ Resumed(g).envelope = g.envelope
         /\ Resumed(g).remaining = g.remaining
         /\ Resumed(g).reserved = g.reserved
         /\ Resumed(g).run = g.run
<1> DEFINE h == Resumed(g)
<1>1. /\ h.status = "Running" /\ h.envelope = g.envelope
      /\ h.remaining = g.remaining /\ h.reserved = g.reserved
      /\ h.run = g.run
  BY DEF Resumed, Goal
<1>2. h \in Goal
  <2>1. "Running" \in GoalStatus /\ 0 \in Int
    BY DEF GoalStatus
  <2>2. QED
    BY <2>1, Zenon DEF Resumed, Goal
<1>3. Sound(h)
  BY <1>1 DEF Sound, CheckEnvelope, Busy
<1>4. QED
  BY <1>1, <1>2, <1>3

\* The settlement table never leaves a goal busy, and leaves it Active only
\* when what remains funds another run.
LEMMA DecisionSound ==
  ASSUME NEW g \in Goal, NEW remaining \in Remaining, NEW status \in RunStatus,
         NEW beat \in Int
  PROVE  LET d == Decision(g, remaining, status, beat)
         IN  /\ d.status \in {"Active", "Satisfied", "Exhausted", "Failed"}
             /\ d.status = "Active" => Fundable(remaining)
             /\ d.due \in Int
             /\ d.streak \in Nat
<1>1. g.failures \in Nat /\ g.cadence \in Nat
  BY DEF Goal
<1>2. Backoff(g.failures + 1) \in Int
  BY BackoffIsSpan
<1>3. QED
  BY <1>1, <1>2 DEF Decision

\* A settlement closes the reservation: what the run left is given back and
\* the promise still holds.
LEMMA SettledSound ==
  ASSUME NEW g \in Goal, Sound(g), g.status = "Running",
         NEW status \in RunStatus, NEW refund \in Grant, RefundFits(g, refund),
         NEW beat \in Int
  PROVE  LET h == Settled(g, status, refund, beat)
         IN  /\ h \in Goal
             /\ Sound(h)
             /\ h.status \notin Busy
             /\ h.envelope = g.envelope
             /\ h.reserved = ZeroGrant
             /\ h.remaining.turns = g.remaining.turns + refund.turns
             /\ h.remaining.mutations = g.remaining.mutations + refund.mutations
<1> DEFINE h == Settled(g, status, refund, beat)
           left == [turns |-> g.remaining.turns + refund.turns,
                    mutations |-> g.remaining.mutations + refund.mutations,
                    runs |-> g.remaining.runs]
           d == Decision(g, left, status, beat)
<1>1. /\ g.remaining \in Remaining
      /\ g.envelope \in Envelope
      /\ g.reserved \in Grant
  BY DEF Goal
<1>2. left \in Remaining
  BY <1>1 DEF Remaining, Grant
<1>3. /\ d.status \in {"Active", "Satisfied", "Exhausted", "Failed"}
      /\ d.status = "Active" => Fundable(left)
      /\ d.due \in Int
      /\ d.streak \in Nat
  BY <1>2, DecisionSound
<1>4. /\ h.remaining = left
      /\ h.reserved = ZeroGrant
      /\ h.status = d.status
      /\ h.envelope = g.envelope
  BY DEF Settled, Goal
<1>5. h \in Goal
  <2>1. /\ d.status \in GoalStatus
        /\ status \in RunStatus \cup {"None"}
        /\ ZeroGrant \in Grant
        /\ NoRun \in RunId
    BY <1>3 DEF GoalStatus, ZeroGrant, Grant, NoRun, RunId
  <2>2. QED
    BY <1>2, <1>3, <2>1, Zenon DEF Settled, Goal
<1>6. CheckEnvelope(h)
  <2>1. /\ left.turns + 0 <= g.envelope.turns
        /\ left.mutations + 0 <= g.envelope.mutations
        /\ left.runs + 0 <= g.envelope.runs
    BY <1>1 DEF Sound, CheckEnvelope, RefundFits, Remaining, Envelope, Grant, Busy
  <2> HIDE DEF h, left, d
  <2>2. h.status \notin Busy
    BY <1>3, <1>4 DEF Busy
  <2>3. QED
    BY <1>4, <2>1, <2>2 DEF CheckEnvelope, ZeroGrant
<1>7. Sound(h) /\ h.status \notin Busy
  <2> HIDE DEF h, left, d
  <2>1. QED
    BY <1>3, <1>4, <1>6 DEF Sound, Busy
<1>8. QED
  BY <1>4, <1>5, <1>7

\* Operator control moves only a goal that holds no run, and only its status
\* and due beat.
LEMMA ControlledSound ==
  ASSUME NEW g \in Goal, Sound(g), NEW event, Controllable(g, event),
         NEW now \in Int
  PROVE  LET h == Controlled(g, event, now)
         IN  /\ h \in Goal
             /\ Sound(h)
             /\ h.status \notin Busy
             /\ h.envelope = g.envelope
             /\ h.remaining = g.remaining
             /\ h.reserved = g.reserved
             /\ h.run = g.run
<1> DEFINE h == Controlled(g, event, now)
           to == CHOOSE s \in GoalStatus : <<g.status, event, s>> \in Transitions
           due == IF event = "Unpause" /\ g.nextDue < now THEN now ELSE g.nextDue
<1>1. to \in GoalStatus /\ <<g.status, event, to>> \in Transitions
  BY DEF Controllable
<1>2. /\ to \notin Busy
      /\ to \in {"Active", "Paused"} => g.status \in {"Active", "Paused"}
  BY <1>1 DEF Controllable, Transitions, OperatorEvent, Busy
<1>3. due \in Int
  BY DEF Goal
<1>4. /\ h.status = to /\ h.envelope = g.envelope
      /\ h.remaining = g.remaining /\ h.reserved = g.reserved
      /\ h.run = g.run
  BY DEF Controlled, Goal
<1>5. h \in Goal
  BY <1>1, <1>3, Zenon DEF Controlled, Goal
<1>6. Sound(h)
  <2> HIDE DEF h, to, due
  <2>1. QED
    BY <1>2, <1>4 DEF Sound, CheckEnvelope, Controllable
<1>7. QED
  BY <1>2, <1>4, <1>5, <1>6

----------------------------------------------------------------------------
(* The memory store.                                                       *)

\* The keys of a store, and those of its pinned entries.
KeysOf(store) == {store[i].key : i \in DOMAIN store}
PinnedKeys(store) == {key \in KeysOf(store) : key.kind = "Note"}

Distinct(store) ==
  \A i, j \in DOMAIN store : store[i].key = store[j].key => i = j

\* Removing a position moves what is behind it up by one.
LEMMA RemovedAt ==
  ASSUME NEW S, NEW s \in Seq(S), NEW i \in 1..Len(s)
  PROVE  /\ RemoveAt(s, i) \in Seq(S)
         /\ Len(RemoveAt(s, i)) = Len(s) - 1
         /\ \A j \in 1..(Len(s) - 1) :
              RemoveAt(s, i)[j] = IF j < i THEN s[j] ELSE s[j + 1]
<1> DEFINE left == SubSeq(s, 1, i - 1)
           right == SubSeq(s, i + 1, Len(s))
<1>0. Len(s) \in Nat /\ \A j \in 1..Len(s) : s[j] \in S
  BY LenProperties, ElementOfSeq
<1>1. /\ left \in Seq(S) /\ Len(left) = i - 1
      /\ \A j \in 1..(i - 1) : left[j] = s[j]
  BY <1>0, SubSeqProperties
<1>2. /\ right \in Seq(S) /\ Len(right) = Len(s) - i
      /\ \A j \in 1..(Len(s) - i) : right[j] = s[i + j]
  BY <1>0, SubSeqProperties
<1>3. RemoveAt(s, i) = left \o right
  BY DEF RemoveAt
<1> HIDE DEF left, right
<1>4. /\ left \o right \in Seq(S)
      /\ Len(left \o right) = Len(s) - 1
      /\ \A j \in 1..(Len(s) - 1) :
           (left \o right)[j] = IF j <= Len(left) THEN left[j] ELSE right[j - Len(left)]
  <2>1. /\ left \o right \in Seq(S)
        /\ Len(left \o right) = Len(left) + Len(right)
        /\ \A j \in 1..(Len(left) + Len(right)) :
             (left \o right)[j] = IF j <= Len(left) THEN left[j] ELSE right[j - Len(left)]
    BY <1>1, <1>2, ConcatProperties
  <2>2. Len(left) + Len(right) = Len(s) - 1
    BY <1>0, <1>1, <1>2
  <2> QED
    BY <2>1, <2>2
<1>5. ASSUME NEW j \in 1..(Len(s) - 1)
      PROVE  (left \o right)[j] = IF j < i THEN s[j] ELSE s[j + 1]
  <2>1. CASE j < i
    BY <1>0, <1>1, <1>4, <2>1
  <2>2. CASE ~(j < i)
    <3>1. j - Len(left) \in 1..(Len(s) - i) /\ i + (j - Len(left)) = j + 1
      BY <1>0, <1>1, <2>2
    <3>2. right[j - Len(left)] = s[j + 1]
      BY <1>2, <3>1
    <3> QED
      BY <1>0, <1>1, <1>4, <2>2, <3>2
  <2> QED
    BY <2>1, <2>2
<1> QED
  BY <1>3, <1>4, <1>5

\* Under distinct keys the pinned entries are as many as their keys.
LEMMA PinnedCounted ==
  ASSUME NEW S, NEW store \in Seq(S), Distinct(store)
  PROVE  /\ IsFiniteSet(PinnedKeys(store))
         /\ PinnedCount(store) = Cardinality(PinnedKeys(store))
         /\ PinnedCount(store) \in Nat
<1> DEFINE at == {i \in DOMAIN store : Pinned(store[i])}
           key == [i \in at |-> store[i].key]
<1>1. Len(store) \in Nat /\ DOMAIN store = 1..Len(store)
  BY LenProperties
<1>2. IsFiniteSet(at)
  <2>1. IsFiniteSet(1..Len(store))
    BY <1>1, FS_Interval
  <2>2. at \in SUBSET (1..Len(store))
    BY <1>1
  <2> QED
    BY <2>1, <2>2, FS_Subset
<1>3. key \in Bijection(at, PinnedKeys(store))
  <2>1. key \in [at -> PinnedKeys(store)]
    BY DEF PinnedKeys, KeysOf, Pinned
  <2>2. \A i, j \in at : key[i] = key[j] => i = j
    BY DEF Distinct
  <2>3. \A k \in PinnedKeys(store) : \E i \in at : key[i] = k
    BY DEF PinnedKeys, KeysOf, Pinned
  <2> QED
    BY <2>1, <2>2, <2>3 DEF Bijection, Injection, Surjection, IsInjective
<1>4. ExistsBijection(at, PinnedKeys(store))
  BY <1>3 DEF ExistsBijection
<1>5. IsFiniteSet(PinnedKeys(store)) /\ Cardinality(PinnedKeys(store)) = Cardinality(at)
  BY <1>2, <1>4, FS_Bijection
<1>6. Cardinality(at) \in Nat
  BY <1>2, FS_CardinalityType
<1> QED
  BY <1>5, <1>6 DEF PinnedCount

\* Taking an entry out takes its key out and no other.
LEMMA RemovedEntry ==
  ASSUME NEW S, NEW store \in Seq(S), Distinct(store), NEW i \in DOMAIN store
  PROVE  /\ Distinct(RemoveAt(store, i))
         /\ KeysOf(RemoveAt(store, i)) = KeysOf(store) \ {store[i].key}
<1> DEFINE rest == RemoveAt(store, i)
<1>1. Len(store) \in Nat /\ DOMAIN store = 1..Len(store)
  BY LenProperties
<1>2. /\ DOMAIN rest = 1..(Len(store) - 1)
      /\ \A j \in DOMAIN rest : rest[j] = IF j < i THEN store[j] ELSE store[j + 1]
  <2>1. /\ rest \in Seq(S) /\ Len(rest) = Len(store) - 1
        /\ \A j \in 1..(Len(store) - 1) :
             rest[j] = IF j < i THEN store[j] ELSE store[j + 1]
    BY <1>1, RemovedAt
  <2> HIDE DEF rest
  <2>2. DOMAIN rest = 1..Len(rest)
    BY <2>1, LenProperties
  <2> QED
    BY <2>1, <2>2
<1> HIDE DEF rest
<1> DEFINE old == [j \in DOMAIN rest |-> IF j < i THEN j ELSE j + 1]
<1>3. \A j \in DOMAIN rest :
        old[j] \in DOMAIN store \ {i} /\ rest[j] = store[old[j]]
  BY <1>1, <1>2
<1>4. \A j, k \in DOMAIN rest : old[j] = old[k] => j = k
  BY <1>1, <1>2
<1>5. \A k \in DOMAIN store \ {i} : \E j \in DOMAIN rest : old[j] = k
  <2> SUFFICES ASSUME NEW k \in DOMAIN store \ {i}
               PROVE  \E j \in DOMAIN rest : old[j] = k
    OBVIOUS
  <2>1. CASE k < i
    <3>1. k \in DOMAIN rest /\ old[k] = k
      BY <1>1, <1>2, <2>1
    <3> QED
      BY <3>1
  <2>2. CASE ~(k < i)
    <3>1. k - 1 \in DOMAIN rest /\ old[k - 1] = k
      BY <1>1, <1>2, <2>2
    <3> QED
      BY <3>1
  <2> QED
    BY <2>1, <2>2
<1> HIDE DEF old
<1>6. Distinct(rest)
  BY <1>3, <1>4 DEF Distinct
<1>7. KeysOf(rest) = KeysOf(store) \ {store[i].key}
  <2>1. KeysOf(rest) \subseteq KeysOf(store) \ {store[i].key}
    BY <1>3 DEF KeysOf, Distinct
  <2>2. ASSUME NEW key \in KeysOf(store) \ {store[i].key}
        PROVE  key \in KeysOf(rest)
    <3>1. PICK k \in DOMAIN store : store[k].key = key
      BY DEF KeysOf
    <3>2. k \in DOMAIN store \ {i}
      BY <3>1
    <3>3. PICK j \in DOMAIN rest : old[j] = k
      BY <1>5, <3>2
    <3> QED
      BY <1>3, <3>1, <3>3 DEF KeysOf
  <2> QED
    BY <2>1, <2>2
<1> QED
  BY <1>6, <1>7 DEF rest

\* An entry of a new key, appended.
LEMMA AppendedEntry ==
  ASSUME NEW S, NEW store \in Seq(S), Distinct(store), NEW entry \in S,
         entry.key \notin KeysOf(store)
  PROVE  /\ Distinct(Append(store, entry))
         /\ KeysOf(Append(store, entry)) = KeysOf(store) \cup {entry.key}
<1> DEFINE new == Append(store, entry)
           n == Len(store)
<1>1. n \in Nat /\ DOMAIN store = 1..n
  BY LenProperties
<1>2. /\ DOMAIN new = 1..(n + 1)
      /\ \A i \in 1..n : new[i] = store[i]
      /\ new[n + 1] = entry
  <2>1. /\ new \in Seq(S) /\ Len(new) = n + 1
        /\ \A i \in 1..n : new[i] = store[i]
        /\ new[n + 1] = entry
    BY AppendProperties
  <2> HIDE DEF new, n
  <2>2. DOMAIN new = 1..Len(new)
    BY <2>1, LenProperties
  <2> QED
    BY <2>1, <2>2
<1> HIDE DEF new
<1>3. \A i \in DOMAIN new : i \in DOMAIN store \/ i = n + 1
  BY <1>1, <1>2
<1>4. \A i \in DOMAIN store : store[i].key # entry.key
  BY DEF KeysOf
<1>5. Distinct(new)
  BY <1>1, <1>2, <1>3, <1>4 DEF Distinct
<1>6. KeysOf(new) = KeysOf(store) \cup {entry.key}
  <2>1. n + 1 \in DOMAIN new /\ DOMAIN store \subseteq DOMAIN new
    BY <1>1, <1>2
  <2> QED
    BY <1>1, <1>2, <1>3, <2>1 DEF KeysOf
<1> QED
  BY <1>5, <1>6 DEF new

\* What a restore accepts, in terms of the keys.
LEMMA RestorableKeys ==
  ASSUME NEW S, NEW store \in Seq(S)
  PROVE  RestorableEntries(store) <=>
           /\ Distinct(store)
           /\ Len(store) <= MaxMemory
           /\ Cardinality(PinnedKeys(store)) <= MaxPinned
BY PinnedCounted DEF RestorableEntries, Distinct

\* Forgetting a key.
LEMMA WithoutKey ==
  ASSUME NEW S, NEW store \in Seq(S), RestorableEntries(store), NEW key
  PROVE  /\ Without(store, key) \in Seq(S)
         /\ RestorableEntries(Without(store, key))
         /\ KeysOf(Without(store, key)) = KeysOf(store) \ {key}
         /\ key \in KeysOf(store) => Len(Without(store, key)) = Len(store) - 1
<1>1. Distinct(store) /\ IsFiniteSet(PinnedKeys(store))
  BY RestorableKeys, PinnedCounted
<1>2. HoldsKey(store, key) <=> key \in KeysOf(store)
  BY DEF HoldsKey, KeysOf
<1>3. CASE key \notin KeysOf(store)
  <2>1. Without(store, key) = store
    BY <1>2, <1>3 DEF Without
  <2> QED
    BY <1>3, <2>1
<1>4. CASE key \in KeysOf(store)
  <2> DEFINE at == Position(store, key)
             rest == RemoveAt(store, at)
  <2>1. at \in DOMAIN store /\ store[at].key = key
    BY <1>4 DEF Position, KeysOf
  <2>2. Len(store) \in Nat /\ DOMAIN store = 1..Len(store)
    BY LenProperties
  <2>3. Without(store, key) = rest
    BY <1>2, <1>4 DEF Without
  <2> HIDE DEF at
  <2>4. rest \in Seq(S) /\ Len(rest) = Len(store) - 1
    BY <2>1, <2>2, RemovedAt
  <2>5. Distinct(rest) /\ KeysOf(rest) = KeysOf(store) \ {key}
    BY <1>1, <2>1, RemovedEntry
  <2> HIDE DEF rest
  <2>6. Cardinality(PinnedKeys(rest)) <= Cardinality(PinnedKeys(store))
    <3>1. PinnedKeys(rest) \in SUBSET PinnedKeys(store)
      BY <2>5 DEF PinnedKeys
    <3> QED
      BY <1>1, <3>1, FS_Subset
  <2>7. /\ Cardinality(PinnedKeys(rest)) \in Nat
        /\ Cardinality(PinnedKeys(store)) \in Nat
    BY <1>1, <2>4, <2>5, PinnedCounted, FS_CardinalityType
  <2>8. Len(store) <= MaxMemory /\ Cardinality(PinnedKeys(store)) <= MaxPinned
    BY RestorableKeys
  <2>9. RestorableEntries(rest)
    BY <2>2, <2>4, <2>5, <2>6, <2>7, <2>8, RestorableKeys, MemoryAssumption
  <2> QED
    BY <2>3, <2>4, <2>5, <2>9
<1> QED
  BY <1>3, <1>4

\* A key no entry has, written where there is room and quota.
LEMMA AppendedKey ==
  ASSUME NEW S, NEW store \in Seq(S), RestorableEntries(store), NEW entry \in S,
         entry.key \notin KeysOf(store), Len(store) < MaxMemory,
         Pinned(entry) => PinnedCount(store) < MaxPinned
  PROVE  /\ Append(store, entry) \in Seq(S)
         /\ RestorableEntries(Append(store, entry))
         /\ KeysOf(Append(store, entry)) = KeysOf(store) \cup {entry.key}
<1> DEFINE new == Append(store, entry)
<1>1. Distinct(store)
  BY RestorableKeys
<1>2. /\ IsFiniteSet(PinnedKeys(store))
      /\ PinnedCount(store) = Cardinality(PinnedKeys(store))
      /\ PinnedCount(store) \in Nat
  BY <1>1, PinnedCounted
<1>3. new \in Seq(S) /\ Len(new) = Len(store) + 1
  BY AppendProperties
<1>4. Distinct(new) /\ KeysOf(new) = KeysOf(store) \cup {entry.key}
  BY <1>1, AppendedEntry
<1> HIDE DEF new
<1>5. Cardinality(PinnedKeys(new)) <= MaxPinned
  <2>1. CASE Pinned(entry)
    <3>1. PinnedKeys(new) = PinnedKeys(store) \cup {entry.key}
      BY <1>4, <2>1 DEF PinnedKeys, Pinned
    <3>2. entry.key \notin PinnedKeys(store)
      BY DEF PinnedKeys
    <3>3. Cardinality(PinnedKeys(new)) = Cardinality(PinnedKeys(store)) + 1
      BY <1>2, <3>1, <3>2, FS_AddElement
    <3> QED
      BY <1>2, <2>1, <3>3, MemoryAssumption
  <2>2. CASE ~Pinned(entry)
    <3>1. PinnedKeys(new) = PinnedKeys(store)
      BY <1>4, <2>2 DEF PinnedKeys, Pinned
    <3> QED
      BY <3>1, RestorableKeys
  <2> QED
    BY <2>1, <2>2
<1>6. Len(store) \in Nat
  BY LenProperties
<1>7. RestorableEntries(new)
  BY <1>3, <1>4, <1>5, <1>6, RestorableKeys, MemoryAssumption
<1> QED
  BY <1>3, <1>4, <1>7 DEF new

\* A store takes every entry that is not pinned: the pins leave it one place
\* at least.
LEMMA UnpinnedAccepted ==
  ASSUME NEW S, NEW store \in Seq(S), RestorableEntries(store), NEW entry, ~Pinned(entry)
  PROVE  Accepts(store, entry)
<1> SUFFICES ASSUME ~(Len(store) < MaxMemory), \A i \in DOMAIN store : Pinned(store[i])
             PROVE  FALSE
  BY DEF Accepts
<1>1. Len(store) \in Nat /\ DOMAIN store = 1..Len(store)
  BY LenProperties
<1>2. {i \in DOMAIN store : Pinned(store[i])} = 1..Len(store)
  BY <1>1
<1>3. Cardinality(1..Len(store)) = Len(store)
  BY <1>1, FS_Interval
<1>4. PinnedCount(store) = Len(store)
  BY <1>2, <1>3 DEF PinnedCount
<1> QED
  BY <1>1, <1>4, MemoryAssumption DEF RestorableEntries

\* A set of numbers has a least one.
LEMMA LeastNumber ==
  ASSUME NEW T \in SUBSET Nat, T # {}
  PROVE  \E i \in T : \A j \in T : i <= j
<1> DEFINE Less == {p \in Nat \X Nat : p[1] < p[2]}
<1>1. IsWellFoundedOn(Less, Nat)
  BY NatLessThanWellFounded DEF OpToRel
<1>2. PICK i \in T : \A j \in T : ~(<<j, i>> \in Less)
  <2> HIDE DEF Less
  <2> QED
    BY <1>1, WFMin
<1>3. ASSUME NEW j \in T
      PROVE  i <= j
  <2>1. i \in Nat /\ j \in Nat
    OBVIOUS
  <2>2. <<j, i>> \in Nat \X Nat /\ <<j, i>>[1] = j /\ <<j, i>>[2] = i
    BY <2>1
  <2>3. ~(j < i)
    BY <1>2, <2>2
  <2> QED
    BY <2>1, <2>3
<1> QED
  BY <1>3

\* There is an oldest unpinned entry where there is an unpinned one.
LEMMA OldestUnpinnedIs ==
  ASSUME NEW S, NEW store \in Seq(S), \E i \in DOMAIN store : ~Pinned(store[i])
  PROVE  OldestUnpinned(store) \in DOMAIN store /\ ~Pinned(store[OldestUnpinned(store)])
<1> DEFINE unpinned == {i \in DOMAIN store : ~Pinned(store[i])}
<1>1. Len(store) \in Nat /\ DOMAIN store = 1..Len(store)
  BY LenProperties
<1>2. PICK i \in unpinned : \A j \in unpinned : i <= j
  <2>1. unpinned \in SUBSET Nat /\ unpinned # {}
    BY <1>1
  <2> QED
    BY <2>1, LeastNumber
<1>3. ~Pinned(store[i]) /\ \A j \in 1..(i - 1) : Pinned(store[j])
  BY <1>1, <1>2
<1> QED
  BY <1>2, <1>3 DEF OldestUnpinned

\* Eviction takes an entry that is not pinned.
LEMMA EvictedUnpinned ==
  ASSUME NEW S, NEW store \in Seq(S), RestorableEntries(store),
         \E i \in DOMAIN store : ~Pinned(store[i])
  PROVE  /\ Evicted(store) \in Seq(S)
         /\ RestorableEntries(Evicted(store))
         /\ Len(Evicted(store)) = Len(store) - 1
         /\ KeysOf(Evicted(store)) \subseteq KeysOf(store)
         /\ PinnedKeys(Evicted(store)) = PinnedKeys(store)
<1> DEFINE at == OldestUnpinned(store)
           rest == RemoveAt(store, at)
<1>1. Len(store) \in Nat /\ DOMAIN store = 1..Len(store)
  BY LenProperties
<1>2. at \in DOMAIN store /\ ~Pinned(store[at])
  BY OldestUnpinnedIs
<1>3. Distinct(store)
  BY RestorableKeys
<1>4. Evicted(store) = rest
  BY DEF Evicted
<1> HIDE DEF at
<1>5. rest \in Seq(S) /\ Len(rest) = Len(store) - 1
  BY <1>1, <1>2, RemovedAt
<1>6. Distinct(rest) /\ KeysOf(rest) = KeysOf(store) \ {store[at].key}
  BY <1>2, <1>3, RemovedEntry
<1> HIDE DEF rest
<1>7. PinnedKeys(rest) = PinnedKeys(store)
  BY <1>2, <1>6 DEF PinnedKeys, Pinned
<1>8. RestorableEntries(rest)
  BY <1>1, <1>5, <1>6, <1>7, RestorableKeys, MemoryAssumption
<1> QED
  BY <1>4, <1>5, <1>6, <1>7, <1>8

\* A write that is accepted keeps the entries restorable, and every note.
LEMMA PlacedEntries ==
  ASSUME NEW S, NEW store \in Seq(S), RestorableEntries(store), NEW entry \in S,
         Accepts(store, entry)
  PROVE  /\ Placed(store, entry) \in Seq(S)
         /\ RestorableEntries(Placed(store, entry))
         /\ PinnedKeys(store) \subseteq PinnedKeys(Placed(store, entry))
<1>1. HoldsKey(store, entry.key) <=> entry.key \in KeysOf(store)
  BY DEF HoldsKey, KeysOf
<1>2. Len(store) \in Nat /\ Len(store) <= MaxMemory /\ Distinct(store)
  BY LenProperties, RestorableKeys
<1>3. CASE HoldsKey(store, entry.key)
  <2> DEFINE rest == Without(store, entry.key)
  <2>1. /\ rest \in Seq(S) /\ RestorableEntries(rest)
        /\ KeysOf(rest) = KeysOf(store) \ {entry.key}
        /\ Len(rest) = Len(store) - 1
    BY <1>1, <1>3, WithoutKey
  <2> HIDE DEF rest
  <2>2. Pinned(entry) => PinnedCount(rest) < MaxPinned
    <3> SUFFICES ASSUME Pinned(entry) PROVE PinnedCount(rest) < MaxPinned
      OBVIOUS
    <3>1. PinnedKeys(rest) = PinnedKeys(store) \ {entry.key}
      BY <2>1 DEF PinnedKeys
    <3>2. entry.key \in PinnedKeys(store)
      BY <1>1, <1>3 DEF PinnedKeys, Pinned
    <3>3. IsFiniteSet(PinnedKeys(store)) /\ Cardinality(PinnedKeys(store)) \in Nat
      BY <1>2, PinnedCounted, FS_CardinalityType
    <3>4. Cardinality(PinnedKeys(rest)) = Cardinality(PinnedKeys(store)) - 1
      BY <3>1, <3>2, <3>3, FS_RemoveElement
    <3>5. Distinct(rest)
      BY <2>1, RestorableKeys
    <3>6. PinnedCount(rest) = Cardinality(PinnedKeys(rest))
      BY <2>1, <3>5, PinnedCounted
    <3>7. Cardinality(PinnedKeys(store)) <= MaxPinned
      BY RestorableKeys
    <3> QED
      BY <3>3, <3>4, <3>6, <3>7, MemoryAssumption
  <2>3. Len(rest) < MaxMemory /\ entry.key \notin KeysOf(rest)
    BY <1>2, <2>1, MemoryAssumption
  <2>4. /\ Append(rest, entry) \in Seq(S)
        /\ RestorableEntries(Append(rest, entry))
        /\ KeysOf(Append(rest, entry)) = KeysOf(rest) \cup {entry.key}
    BY <2>1, <2>2, <2>3, AppendedKey
  <2>5. Placed(store, entry) = Append(rest, entry)
    BY <1>3 DEF Placed, rest
  <2>6. PinnedKeys(store) \subseteq PinnedKeys(Append(rest, entry))
    BY <2>1, <2>4 DEF PinnedKeys
  <2> QED
    BY <2>4, <2>5, <2>6
<1>4. CASE ~HoldsKey(store, entry.key) /\ Len(store) < MaxMemory
  <2>1. /\ Append(store, entry) \in Seq(S)
        /\ RestorableEntries(Append(store, entry))
        /\ KeysOf(Append(store, entry)) = KeysOf(store) \cup {entry.key}
    BY <1>1, <1>4, AppendedKey DEF Accepts
  <2>2. Placed(store, entry) = Append(store, entry)
    BY <1>4 DEF Placed
  <2> QED
    BY <2>1, <2>2 DEF PinnedKeys
<1>5. CASE ~HoldsKey(store, entry.key) /\ ~(Len(store) < MaxMemory)
  <2> DEFINE rest == Evicted(store)
  <2>1. /\ \E i \in DOMAIN store : ~Pinned(store[i])
        /\ Pinned(entry) => PinnedCount(store) < MaxPinned
    BY <1>5 DEF Accepts
  <2>2. /\ rest \in Seq(S) /\ RestorableEntries(rest)
        /\ Len(rest) = Len(store) - 1
        /\ KeysOf(rest) \subseteq KeysOf(store)
        /\ PinnedKeys(rest) = PinnedKeys(store)
    BY <2>1, EvictedUnpinned
  <2> HIDE DEF rest
  <2>3. PinnedCount(rest) = PinnedCount(store)
    BY <1>2, <2>2, RestorableKeys, PinnedCounted
  <2>4. Len(rest) < MaxMemory /\ entry.key \notin KeysOf(rest)
    BY <1>1, <1>2, <1>5, <2>2, MemoryAssumption
  <2>5. /\ Append(rest, entry) \in Seq(S)
        /\ RestorableEntries(Append(rest, entry))
        /\ KeysOf(Append(rest, entry)) = KeysOf(rest) \cup {entry.key}
    BY <2>1, <2>2, <2>3, <2>4, AppendedKey
  <2>6. Placed(store, entry) = Append(rest, entry)
    BY <1>5 DEF Placed, rest
  <2>7. PinnedKeys(store) \subseteq PinnedKeys(Append(rest, entry))
    BY <2>2, <2>5 DEF PinnedKeys
  <2> QED
    BY <2>5, <2>6, <2>7
<1> QED
  BY <1>3, <1>4, <1>5

\* Stamps grow along the entries, and stay below the allocator.
Stamped(entries, next) ==
  /\ \A i \in DOMAIN entries : entries[i].stamp \in 1..(next - 1)
  /\ \A i, j \in DOMAIN entries : i < j => entries[i].stamp < entries[j].stamp

\* What is left of the entries is in the order it was.
LEMMA RemovedStamped ==
  ASSUME NEW S, NEW entries \in Seq(S), NEW next \in Nat, Stamped(entries, next),
         NEW at \in DOMAIN entries
  PROVE  RemoveAt(entries, at) \in Seq(S) /\ Stamped(RemoveAt(entries, at), next)
<1> DEFINE rest == RemoveAt(entries, at)
<1>1. Len(entries) \in Nat /\ DOMAIN entries = 1..Len(entries)
  BY LenProperties
<1>2. /\ rest \in Seq(S) /\ Len(rest) = Len(entries) - 1
      /\ \A j \in 1..(Len(entries) - 1) :
           rest[j] = IF j < at THEN entries[j] ELSE entries[j + 1]
  BY <1>1, RemovedAt
<1> HIDE DEF rest
<1>3. DOMAIN rest = 1..(Len(entries) - 1)
  BY <1>2, LenProperties
<1>4. ASSUME NEW i \in DOMAIN rest
      PROVE  rest[i].stamp \in 1..(next - 1)
  <2>1. i \in DOMAIN entries /\ i + 1 \in DOMAIN entries
    BY <1>1, <1>3
  <2> QED
    BY <1>2, <1>3, <2>1 DEF Stamped
<1>5. ASSUME NEW i \in DOMAIN rest, NEW j \in DOMAIN rest, i < j
      PROVE  rest[i].stamp < rest[j].stamp
  <2>1. /\ i \in DOMAIN entries /\ i + 1 \in DOMAIN entries
        /\ j \in DOMAIN entries /\ j + 1 \in DOMAIN entries
        /\ i < j + 1 /\ i + 1 < j + 1
    BY <1>1, <1>3, <1>5
  <2>2. at \in Nat
    BY <1>1
  <2>3. ~(i < at) => ~(j < at)
    BY <1>1, <1>3, <1>5, <2>2
  <2> QED
    BY <1>2, <1>3, <1>5, <2>1, <2>3 DEF Stamped
<1> QED
  BY <1>2, <1>4, <1>5 DEF Stamped, rest

\* An entry of a new stamp goes to the end.
LEMMA AppendedStamped ==
  ASSUME NEW S, NEW entries \in Seq(S), NEW next \in Nat \ {0}, Stamped(entries, next),
         NEW entry \in S, entry.stamp = next
  PROVE  Stamped(Append(entries, entry), next + 1)
<1> DEFINE new == Append(entries, entry)
<1>1. Len(entries) \in Nat /\ DOMAIN entries = 1..Len(entries)
  BY LenProperties
<1>2. /\ DOMAIN new = 1..(Len(entries) + 1) /\ new[Len(entries) + 1] = entry
      /\ \A i \in 1..Len(entries) : new[i] = entries[i]
  BY <1>1, AppendProperties
<1> HIDE DEF new
<1>3. ASSUME NEW i \in DOMAIN new
      PROVE  \/ i = Len(entries) + 1 /\ new[i].stamp = next
             \/ /\ i \in DOMAIN entries /\ new[i] = entries[i]
                /\ new[i].stamp \in 1..(next - 1)
  BY <1>1, <1>2 DEF Stamped
<1>4. ASSUME NEW i \in DOMAIN new
      PROVE  new[i].stamp \in 1..((next + 1) - 1)
  BY <1>3
<1>5. ASSUME NEW i \in DOMAIN new, NEW j \in DOMAIN new, i < j
      PROVE  new[i].stamp < new[j].stamp
  <2>1. i \in DOMAIN entries /\ new[i] = entries[i] /\ new[i].stamp \in 1..(next - 1)
    BY <1>1, <1>2, <1>3, <1>5
  <2>2. CASE j = Len(entries) + 1 /\ new[j].stamp = next
    BY <2>1, <2>2
  <2>3. CASE j \in DOMAIN entries /\ new[j] = entries[j]
    BY <1>5, <2>1, <2>3 DEF Stamped
  <2> QED
    BY <1>3, <2>2, <2>3
<1> QED
  BY <1>4, <1>5 DEF Stamped, new

LEMMA PlacedStamped ==
  ASSUME NEW S, NEW entries \in Seq(S), NEW next \in Nat \ {0}, Stamped(entries, next),
         NEW entry \in S, entry.stamp = next, Accepts(entries, entry)
  PROVE  Stamped(Placed(entries, entry), next + 1)
<1> DEFINE rest == IF HoldsKey(entries, entry.key) THEN Without(entries, entry.key)
                   ELSE IF Len(entries) < MaxMemory THEN entries
                   ELSE Evicted(entries)
<1>1. ASSUME HoldsKey(entries, entry.key)
      PROVE  rest \in Seq(S) /\ Stamped(rest, next)
  <2>1. Position(entries, entry.key) \in DOMAIN entries
    BY <1>1 DEF HoldsKey, Position
  <2>2. rest = RemoveAt(entries, Position(entries, entry.key))
    BY <1>1 DEF Without
  <2> HIDE DEF rest
  <2> QED
    BY <2>1, <2>2, RemovedStamped
<1>2. ASSUME ~HoldsKey(entries, entry.key), Len(entries) < MaxMemory
      PROVE  rest \in Seq(S) /\ Stamped(rest, next)
  BY <1>2
<1>3. ASSUME ~HoldsKey(entries, entry.key), ~(Len(entries) < MaxMemory)
      PROVE  rest \in Seq(S) /\ Stamped(rest, next)
  <2>1. OldestUnpinned(entries) \in DOMAIN entries
    BY <1>3, OldestUnpinnedIs DEF Accepts
  <2>2. rest = RemoveAt(entries, OldestUnpinned(entries))
    BY <1>3 DEF Evicted
  <2> HIDE DEF rest
  <2> QED
    BY <2>1, <2>2, RemovedStamped
<1>4. rest \in Seq(S) /\ Stamped(rest, next)
  BY <1>1, <1>2, <1>3
<1>5. Placed(entries, entry) = Append(rest, entry)
  BY DEF Placed
<1> HIDE DEF rest
<1> QED
  BY <1>4, <1>5, AppendedStamped

----------------------------------------------------------------------------
(* The beat loop.                                                          *)

\* The inductive invariant.  EnvelopeNeverWidens alone is not inductive: a
\* settlement may only give back what is held, a spawn must be fundable, an
\* admission must land in an empty slot, and a report must find its goal
\* Running.
Inductive ==
  /\ TypeOK
  /\ \A i \in Held(goals) : Sound(goals[i])
  /\ \A i \in Held(goals) : nextId # 0 => i < nextId
  /\ \A i \in Held(goals) :
       goals[i].status = "Running" => phase = "driving" /\ driven = i
  /\ phase \in {"driving", "harvesting"} => driven \in Held(goals)
  /\ phase = "driving" => goals[driven].status = "Running"
  /\ phase = "harvesting" => toHarvest # 0
  /\ fault # "Ledger"

----------------------------------------------------------------------------
(* The initial state.                                                     *)

\* What a ledger holds is goals, under ids.
LEMMA HeldIsGoal ==
  ASSUME NEW f \in [Ids -> Goal \cup {NoGoal}], NEW i \in Held(f)
  PROVE  i \in Ids /\ f[i] \in Goal
BY DEF Held

LEMMA InitInductive == Init => Inductive
<1> SUFFICES ASSUME Init PROVE Inductive
  OBVIOUS
<1>1. Held(goals) = {}
  BY DEF Init, Held
<1>2. TypeOK
  <2>1. 1 \in Ids
    BY SlotAssumption DEF Ids
  <2>2. sense \in [commands : Seq(Command), ready : SUBSET Ids]
    BY EmptySeq DEF Init, NoSense
  <2>3. QED
    BY <2>1, <2>2 DEF Init, TypeOK
<1>3. QED
  BY <1>1, <1>2 DEF Inductive, Init

----------------------------------------------------------------------------
(* Every action keeps the inductive invariant.                            *)

\* What the actions that only end or open a part of the beat leave alone.
LEMMA SenseKeeps == Inductive /\ Sense => Inductive'
<1> SUFFICES ASSUME Inductive, Sense PROVE Inductive'
  OBVIOUS
<1>1. UNCHANGED <<goals, nextId, driven, fault, lastBeat, spawnSeq, toHarvest, asks>>
      /\ phase = "timer" /\ phase' = "commands"
  BY DEF Sense, SenseAnswer
<1>2. Held(goals') = Held(goals)
  BY <1>1
<1>3. sense' \in [commands : Seq(Command), ready : SUBSET Ids]
  <2>1. PICK commands \in CommandBatches, ready \in SUBSET Waiting(goals) :
          sense' = [commands |-> commands, ready |-> ready]
    BY DEF Sense, SenseAnswer
  <2>2. commands \in Seq(Command)
    BY WorldAssumption
  <2>3. ready \in SUBSET Ids
    BY DEF Waiting, Held
  <2>4. QED
    BY <2>1, <2>2, <2>3
<1>4. TypeOK'
  BY <1>1, <1>3 DEF Inductive, TypeOK
<1>5. \A i \in Held(goals) : goals[i].status # "Running"
  BY <1>1 DEF Inductive
<1>6. QED
  BY <1>1, <1>2, <1>4, <1>5 DEF Inductive

\* A step that changes no goal but one, from a sound goal to a sound goal
\* that is not Running, and ends the beat or stays between runs.
LEMMA SettledStep ==
  ASSUME Inductive,
         NEW i \in Ids, NEW h \in Goal, Sound(h), h.status # "Running",
         \A j \in Held(goals) : goals[j].status = "Running" => j = i,
         i \in Held(goals),
         goals' = [goals EXCEPT ![i] = h], nextId' = nextId,
         phase' # "driving",
         phase' = "harvesting" => driven' = i /\ toHarvest' # 0,
         fault' # "Ledger",
         TypeOK'
  PROVE  Inductive'
<1>1. goals \in [Ids -> Goal \cup {NoGoal}]
  BY DEF Inductive, TypeOK
<1>2. /\ goals'[i] = h
      /\ \A j \in Ids \ {i} : goals'[j] = goals[j]
      /\ Held(goals') = Held(goals)
  BY <1>1, NoGoalAssumption DEF Held
<1>3. \A j \in Held(goals') : Sound(goals'[j]) /\ goals'[j].status # "Running"
  BY <1>1, <1>2, HeldIsGoal DEF Inductive
<1>4. \A j \in Held(goals') : nextId' # 0 => j < nextId'
  BY <1>2 DEF Inductive
<1>5. QED
  BY <1>2, <1>3, <1>4 DEF Inductive

\* The beat's end types every variable it sets.
LEMMA EndBeatTyped ==
  ASSUME Inductive, EndBeat
  PROVE  /\ lastBeat' \in Nat
         /\ phase' = "timer"
         /\ sense' \in [commands : Seq(Command), ready : SUBSET Ids]
         /\ driven' \in Ids \cup {0}
         /\ toHarvest' \in Nat
<1>1. NoSense \in [commands : Seq(Command), ready : SUBSET Ids]
  BY EmptySeq DEF NoSense
<1>2. lastBeat \in Nat
  BY DEF Inductive, TypeOK
<1>3. lastBeat' = lastBeat + 1 /\ phase' = "timer" /\ sense' = NoSense
      /\ driven' = 0 /\ toHarvest' = 0
  BY DEF EndBeat, Beat
<1>4. QED
  BY <1>1, <1>2, <1>3

LEMMA PickIdleKeeps == Inductive /\ PickIdle => Inductive'
<1> SUFFICES ASSUME Inductive, PickIdle PROVE Inductive'
  OBVIOUS
<1>1. /\ UNCHANGED <<goals, nextId, spawnSeq, asks, fault>>
      /\ EndBeat /\ phase = "commands"
  BY DEF PickIdle, Picking
<1>2. TypeOK'
  BY <1>1, EndBeatTyped DEF Inductive, TypeOK
<1>3. phase' = "timer" /\ Held(goals') = Held(goals)
  BY <1>1, EndBeatTyped
<1>4. QED
  BY <1>1, <1>2, <1>3 DEF Inductive

\* Only the driven goal is Running, so between runs none is.
LEMMA NoneRunning ==
  ASSUME Inductive, phase # "driving"
  PROVE  \A j \in Held(goals) : goals[j].status # "Running"
BY DEF Inductive

----------------------------------------------------------------------------
(* Commands.                                                              *)

\* An admission lands in an empty slot, below the allocator that moves on.
LEMMA AddGoalKeeps ==
  ASSUME Inductive, phase = "commands", NEW spec \in Specs, AddGoal(spec)
  PROVE  /\ goals' \in [Ids -> Goal \cup {NoGoal}]
         /\ nextId' \in Ids \cup {0}
         /\ \A j \in Held(goals') : Sound(goals'[j])
         /\ \A j \in Held(goals') : goals'[j].status # "Running"
         /\ \A j \in Held(goals') : nextId' # 0 => j < nextId'
<1> DEFINE h == Admitted(spec, Beat)
<1>1. /\ goals \in [Ids -> Goal \cup {NoGoal}]
      /\ nextId \in Ids \cup {0}
      /\ Beat \in Int
  BY DEF Inductive, TypeOK, Beat
<1>2. \A j \in Held(goals) : goals[j].status # "Running"
  BY NoneRunning
<1>3. CASE UNCHANGED ledgerVars
  BY <1>1, <1>2, <1>3 DEF ledgerVars, Inductive
<1>4. CASE /\ nextId # 0
           /\ goals' = [goals EXCEPT ![nextId] = h]
           /\ nextId' = NextIdAfter(nextId)
  <2>1. h \in Goal /\ Sound(h) /\ h.status = "Active"
    BY <1>1, AdmittedSound, WorldAssumption
  <2>2. nextId \in Ids
    BY <1>1, <1>4
  <2> HIDE DEF h
  <2>3. /\ goals' \in [Ids -> Goal \cup {NoGoal}]
        /\ goals'[nextId] = h
        /\ \A j \in Ids \ {nextId} : goals'[j] = goals[j]
        /\ \A j \in Held(goals') : j = nextId \/ j \in Held(goals)
    BY <1>1, <1>4, <2>1, <2>2 DEF Held
  <2>4. /\ nextId' \in Ids \cup {0}
        /\ nextId' # 0 => nextId' = nextId + 1
    BY <1>4, <2>2, SlotAssumption DEF NextIdAfter, Ids
  <2>5. \A j \in Held(goals') : j \in Ids
    BY DEF Held
  <2>6. \A j \in Held(goals') : nextId' # 0 => j < nextId'
    <3>1. \A j \in Held(goals) : j < nextId
      BY <1>4 DEF Inductive
    <3>2. \A j \in Ids : j \in Int
      BY SlotAssumption DEF Ids
    <3>3. QED
      BY <2>2, <2>3, <2>4, <2>5, <3>1, <3>2
  <2>7. \A j \in Held(goals') : Sound(goals'[j]) /\ goals'[j].status # "Running"
    BY <1>2, <2>1, <2>3, <2>5 DEF Inductive
  <2>8. QED
    BY <2>3, <2>4, <2>6, <2>7
<1>5. QED
  BY <1>3, <1>4 DEF AddGoal

LEMMA ControlKeeps ==
  ASSUME Inductive, phase = "commands", NEW id, NEW event, Control(id, event)
  PROVE  /\ goals' \in [Ids -> Goal \cup {NoGoal}]
         /\ nextId' \in Ids \cup {0}
         /\ \A j \in Held(goals') : Sound(goals'[j])
         /\ \A j \in Held(goals') : goals'[j].status # "Running"
         /\ \A j \in Held(goals') : nextId' # 0 => j < nextId'
<1> DEFINE h == Controlled(goals[id], event, Beat)
<1>1. /\ goals \in [Ids -> Goal \cup {NoGoal}]
      /\ nextId' = nextId /\ nextId \in Ids \cup {0}
      /\ Beat \in Int
  BY DEF Inductive, TypeOK, Beat, Control
<1>2. \A j \in Held(goals) : goals[j].status # "Running"
  BY NoneRunning
<1>3. CASE UNCHANGED goals
  BY <1>1, <1>2, <1>3 DEF Inductive
<1>4. CASE /\ id \in Held(goals)
           /\ Controllable(goals[id], event)
           /\ goals' = [goals EXCEPT ![id] = h]
  <2>1. id \in Ids /\ goals[id] \in Goal /\ Sound(goals[id])
    BY <1>1, <1>4, HeldIsGoal DEF Inductive
  <2>2. h \in Goal /\ Sound(h) /\ h.status \notin Busy
    BY <1>1, <1>4, <2>1, ControlledSound
  <2> HIDE DEF h
  <2>3. /\ goals' \in [Ids -> Goal \cup {NoGoal}]
        /\ goals'[id] = h
        /\ \A j \in Ids \ {id} : goals'[j] = goals[j]
        /\ Held(goals') = Held(goals)
    BY <1>1, <1>4, <2>1, <2>2, NoGoalAssumption DEF Held
  <2>4. \A j \in Held(goals') : Sound(goals'[j]) /\ goals'[j].status # "Running"
    BY <1>1, <1>2, <2>2, <2>3, HeldIsGoal DEF Inductive, Busy
  <2>5. \A j \in Held(goals') : nextId' # 0 => j < nextId'
    BY <1>1, <2>3 DEF Inductive
  <2>6. QED
    BY <1>1, <2>3, <2>4, <2>5
<1>5. QED
  BY <1>3, <1>4 DEF Control

LEMMA ApplyCommandKeeps == Inductive /\ ApplyCommand => Inductive'
<1> SUFFICES ASSUME Inductive, ApplyCommand PROVE Inductive'
  OBVIOUS
<1> DEFINE command == Head(sense.commands)
<1>1. /\ phase = "commands" /\ phase' = phase
      /\ sense.commands # <<>>
      /\ sense' = [sense EXCEPT !.commands = Tail(@)]
      /\ UNCHANGED <<lastBeat, spawnSeq, phase, driven, toHarvest, asks, fault>>
  BY DEF ApplyCommand
<1>2. sense \in [commands : Seq(Command), ready : SUBSET Ids]
  BY DEF Inductive, TypeOK
<1>3. command \in Command /\ Tail(sense.commands) \in Seq(Command)
  BY <1>1, <1>2, HeadTailProperties
<1>4. sense' \in [commands : Seq(Command), ready : SUBSET Ids]
  BY <1>1, <1>2, <1>3
<1>5. /\ goals' \in [Ids -> Goal \cup {NoGoal}]
      /\ nextId' \in Ids \cup {0}
      /\ \A j \in Held(goals') : Sound(goals'[j])
      /\ \A j \in Held(goals') : goals'[j].status # "Running"
      /\ \A j \in Held(goals') : nextId' # 0 => j < nextId'
  <2>1. CASE command.kind = "AddGoal" /\ AddGoal(command.spec)
    <3>1. command.spec \in Specs
      BY <1>3, <2>1 DEF Command
    <3>2. QED
      BY <1>1, <2>1, <3>1, AddGoalKeeps
  <2>2. CASE command.kind = "Control" /\ Control(command.goal, command.event)
    BY <1>1, <2>2, ControlKeeps
  <2>3. CASE UNCHANGED ledgerVars
    BY <1>1, <2>3, NoneRunning DEF ledgerVars, Inductive, TypeOK
  <2>4. QED
    BY <2>1, <2>2, <2>3 DEF ApplyCommand
<1>6. TypeOK'
  BY <1>1, <1>4, <1>5 DEF Inductive, TypeOK
<1>7. QED
  BY <1>1, <1>5, <1>6 DEF Inductive

----------------------------------------------------------------------------
(* The pick.                                                              *)

\* A step that makes one goal the driven one.
LEMMA DrivenStep ==
  ASSUME Inductive, phase # "driving",
         NEW i \in Held(goals), NEW h \in Goal, Sound(h), h.status = "Running",
         goals' = [goals EXCEPT ![i] = h], nextId' = nextId,
         phase' = "driving", driven' = i, fault' # "Ledger", TypeOK'
  PROVE  Inductive'
<1>1. goals \in [Ids -> Goal \cup {NoGoal}] /\ i \in Ids
  BY DEF Inductive, TypeOK, Held
<1>2. /\ goals'[i] = h
      /\ \A j \in Ids \ {i} : goals'[j] = goals[j]
      /\ Held(goals') = Held(goals)
  BY <1>1, NoGoalAssumption DEF Held
<1>3. \A j \in Held(goals') :
        Sound(goals'[j]) /\ (goals'[j].status = "Running" => j = i)
  BY <1>1, <1>2, NoneRunning, HeldIsGoal DEF Inductive
<1>4. \A j \in Held(goals') : nextId' # 0 => j < nextId'
  BY <1>2 DEF Inductive
<1>5. QED
  BY <1>2, <1>3, <1>4 DEF Inductive

\* A goal the scheduler spawns is Active, so it can be funded: the ledger
\* does not refuse the reservation.
LEMMA PickSpawnKeeps == Inductive /\ PickSpawn => Inductive'
<1> SUFFICES ASSUME Inductive, PickSpawn PROVE Inductive'
  OBVIOUS
<1>1. /\ phase = "commands" /\ phase' = "driving" /\ sense' = NoSense
      /\ UNCHANGED <<nextId, memory, lastBeat, toHarvest, asks>>
  BY DEF PickSpawn, Picking
<1>2. PICK id \in Held(goals) :
        /\ IsSpawnPick(goals, Beat, sense.ready, id)
        /\ IF Fundable(goals[id].remaining)
           THEN /\ goals' = [goals EXCEPT ![id] =
                               Spawned(goals[id], <<id, spawnSeq>>)]
                /\ spawnSeq' = spawnSeq + 1
                /\ driven' = id
                /\ UNCHANGED fault
           ELSE /\ fault' = "Ledger"
                /\ UNCHANGED <<goals, spawnSeq, driven>>
  BY DEF PickSpawn
<1> DEFINE g == goals[id]
           h == Spawned(g, <<id, spawnSeq>>)
<1>3. /\ goals \in [Ids -> Goal \cup {NoGoal}]
      /\ spawnSeq \in Nat
      /\ id \in Ids /\ g \in Goal /\ Sound(g)
  BY HeldIsGoal DEF Inductive, TypeOK
<1>4. g.status = "Active"
  BY <1>2 DEF IsSpawnPick, Due
<1>5. Fundable(g.remaining)
  BY <1>3, <1>4 DEF Sound
<1>6. <<id, spawnSeq>> \in RunId
  BY <1>3, SlotAssumption DEF RunId, Ids
<1>7. h \in Goal /\ Sound(h) /\ h.status = "Running"
  BY <1>3, <1>4, <1>6, SpawnedSound
<1>8. /\ goals' = [goals EXCEPT ![id] = h]
      /\ spawnSeq' = spawnSeq + 1 /\ driven' = id /\ fault' = fault
  BY <1>2, <1>5
<1> HIDE DEF h
<1>9. sense' \in [commands : Seq(Command), ready : SUBSET Ids]
  BY <1>1, EmptySeq DEF NoSense
<1>10. TypeOK'
  BY <1>1, <1>3, <1>7, <1>8, <1>9 DEF Inductive, TypeOK
<1>11. QED
  BY <1>1, <1>7, <1>8, <1>10, DrivenStep DEF Inductive

LEMMA PickResumeKeeps == Inductive /\ PickResume => Inductive'
<1> SUFFICES ASSUME Inductive, PickResume PROVE Inductive'
  OBVIOUS
<1>1. /\ phase = "commands" /\ phase' = "driving" /\ sense' = NoSense
      /\ UNCHANGED <<nextId, memory, lastBeat, spawnSeq, toHarvest, asks, fault>>
  BY DEF PickResume, Picking
<1>2. PICK id \in Held(goals) :
        /\ IsResumePick(goals, sense.ready, id)
        /\ goals' = [goals EXCEPT ![id] = Resumed(goals[id])]
        /\ driven' = id
  BY DEF PickResume
<1> DEFINE h == Resumed(goals[id])
<1>3. /\ goals \in [Ids -> Goal \cup {NoGoal}]
      /\ id \in Ids /\ goals[id] \in Goal /\ Sound(goals[id])
  BY HeldIsGoal DEF Inductive, TypeOK
<1>4. goals[id].status = "Waiting"
  BY <1>2 DEF IsResumePick, Waiting
<1>5. h \in Goal /\ Sound(h) /\ h.status = "Running"
  BY <1>3, <1>4, ResumedSound
<1> HIDE DEF h
<1>6. sense' \in [commands : Seq(Command), ready : SUBSET Ids]
  BY <1>1, EmptySeq DEF NoSense
<1>7. TypeOK'
  BY <1>1, <1>2, <1>3, <1>5, <1>6 DEF Inductive, TypeOK, h
<1>8. QED
  BY <1>1, <1>2, <1>5, <1>7, DrivenStep DEF Inductive, h

----------------------------------------------------------------------------
(* The report and the harvest.                                            *)

\* While a run is driven, its goal is a sound Running goal, and the only one.
LEMMA DrivenGoal ==
  ASSUME Inductive, phase = "driving"
  PROVE  /\ driven \in Held(goals) /\ driven \in Ids
         /\ goals[driven] \in Goal
         /\ Sound(goals[driven])
         /\ goals[driven].status = "Running"
         /\ \A j \in Held(goals) : goals[j].status = "Running" => j = driven
BY HeldIsGoal DEF Inductive, TypeOK

LEMMA RunParksKeeps == Inductive /\ RunParks => Inductive'
<1> SUFFICES ASSUME Inductive, RunParks PROVE Inductive'
  OBVIOUS
<1> DEFINE h == Parked(goals[driven], Beat)
<1>1. /\ phase = "driving" /\ EndBeat
      /\ goals' = [goals EXCEPT ![driven] = h]
      /\ UNCHANGED <<nextId, memory, spawnSeq, fault>>
  BY DEF RunParks
<1>2. asks' \in [Ids -> Nat]
  BY <1>1, DrivenGoal DEF RunParks, Inductive, TypeOK
<1>3. Beat \in Int
  BY DEF Inductive, TypeOK, Beat
<1>4. h \in Goal /\ Sound(h) /\ h.status = "Waiting"
  BY <1>1, <1>3, DrivenGoal, ParkedSound
<1> HIDE DEF h
<1>5. TypeOK'
  BY <1>1, <1>2, <1>4, DrivenGoal, EndBeatTyped DEF Inductive, TypeOK
<1>6. phase' = "timer"
  BY <1>1, EndBeatTyped
<1>7. QED
  BY <1>1, <1>4, <1>5, <1>6, DrivenGoal, SettledStep DEF Inductive

\* A report that refunds no more than the reservation closes it.
LEMMA SettleKeeps ==
  ASSUME Inductive, phase = "driving", fault = "None",
         NEW status \in RunStatus, NEW refund \in Grant,
         RefundFits(goals[driven], refund), NEW harvest \in Nat,
         Settle(status, refund, harvest)
  PROVE  Inductive'
<1> DEFINE h == Settled(goals[driven], status, refund, Beat)
<1>1. /\ goals' = [goals EXCEPT ![driven] = h]
      /\ asks' = [asks EXCEPT ![driven] = 0]
      /\ UNCHANGED <<nextId, memory, spawnSeq, fault>>
  BY DEF Settle
<1>2. Beat \in Int
  BY DEF Inductive, TypeOK, Beat
<1>3. h \in Goal /\ Sound(h) /\ h.status \notin Busy
  BY <1>2, DrivenGoal, SettledSound
<1> HIDE DEF h
<1>4. /\ lastBeat' \in Nat
      /\ phase' \in {"timer", "harvesting"}
      /\ phase' = "harvesting" => driven' = driven /\ toHarvest' # 0
      /\ sense' \in [commands : Seq(Command), ready : SUBSET Ids]
      /\ driven' \in Ids \cup {0}
      /\ toHarvest' \in Nat
  <2>1. CASE EndBeat
    BY <2>1, EndBeatTyped
  <2>2. CASE /\ harvest # 0
             /\ phase' = "harvesting"
             /\ toHarvest' = harvest
             /\ UNCHANGED <<lastBeat, sense, driven>>
    BY <2>2 DEF Inductive, TypeOK
  <2>3. QED
    BY <2>1, <2>2 DEF Settle
<1>5. goals' \in [Ids -> Goal \cup {NoGoal}] /\ asks' \in [Ids -> Nat]
  BY <1>1, <1>3, DrivenGoal DEF Inductive, TypeOK
<1>6. TypeOK'
  BY <1>1, <1>4, <1>5 DEF Inductive, TypeOK
<1>7. h.status # "Running" /\ phase' # "driving"
  BY <1>3, <1>4 DEF Busy
<1>8. QED
  BY <1>1, <1>3, <1>4, <1>6, <1>7, DrivenGoal, SettledStep DEF Inductive

LEMMA RunSettlesKeeps == Inductive /\ RunSettles => Inductive'
<1> SUFFICES ASSUME Inductive, RunSettles PROVE Inductive'
  OBVIOUS
<1>1. phase = "driving" /\ fault = "None"
  BY DEF RunSettles
<1>2. PICK status \in Endings,
           turns \in 0..goals[driven].reserved.turns,
           mutations \in 0..goals[driven].reserved.mutations,
           harvest \in HarvestCounts :
             Settle(status, [turns |-> turns, mutations |-> mutations], harvest)
  BY DEF RunSettles
<1> DEFINE refund == [turns |-> turns, mutations |-> mutations]
<1>3. goals[driven].reserved \in Grant
  BY <1>1, DrivenGoal DEF Goal
<1>4. refund \in Grant /\ RefundFits(goals[driven], refund)
  BY <1>3 DEF Grant, RefundFits
<1>5. status \in RunStatus /\ harvest \in Nat
  BY WorldAssumption
<1>6. QED
  BY <1>1, <1>2, <1>4, <1>5, SettleKeeps

LEMMA RunFailsKeeps == Inductive /\ RunFails => Inductive'
<1> SUFFICES ASSUME Inductive, RunFails PROVE Inductive'
  OBVIOUS
<1>1. /\ phase = "driving" /\ fault = "None"
      /\ Settle("StorageFault", ZeroGrant, 0)
  BY DEF RunFails
<1>2. goals[driven].reserved \in Grant
  BY <1>1, DrivenGoal DEF Goal
<1>3. ZeroGrant \in Grant /\ RefundFits(goals[driven], ZeroGrant)
  BY <1>2 DEF Grant, ZeroGrant, RefundFits
<1>4. "StorageFault" \in RunStatus
  BY DEF RunStatus
<1>5. QED
  BY <1>1, <1>3, <1>4, SettleKeeps

\* A harvest answer moves memory and the beat, never the ledger.
LEMMA HarvestingKeeps ==
  ASSUME Inductive, phase = "harvesting", NextHarvest,
         UNCHANGED <<goals, nextId, spawnSeq, asks>>,
         fault' \in {"None", "Memory"}
  PROVE  Inductive'
<1>1. /\ lastBeat' \in Nat
      /\ phase' \in {"timer", "harvesting"}
      /\ phase' = "harvesting" => driven' = driven /\ toHarvest' # 0
      /\ sense' \in [commands : Seq(Command), ready : SUBSET Ids]
      /\ driven' \in Ids \cup {0}
      /\ toHarvest' \in Nat
  <2>1. CASE EndBeat
    BY <2>1, EndBeatTyped
  <2>2. CASE /\ toHarvest # 1
             /\ toHarvest' = toHarvest - 1
             /\ UNCHANGED <<lastBeat, phase, sense, driven>>
    <3>1. toHarvest \in Nat \ {0}
      BY DEF Inductive, TypeOK
    <3>2. QED
      BY <2>2, <3>1 DEF Inductive, TypeOK
  <2>3. QED
    BY <2>1, <2>2 DEF NextHarvest
<1>2. TypeOK'
  BY <1>1 DEF Inductive, TypeOK
<1>3. \A j \in Held(goals) : goals[j].status # "Running"
  BY NoneRunning
<1>4. QED
  BY <1>1, <1>2, <1>3 DEF Inductive

LEMMA HarvestKeeps == Inductive /\ Harvest => Inductive'
<1> SUFFICES ASSUME Inductive, Harvest PROVE Inductive'
  OBVIOUS
<1>1. /\ phase = "harvesting" /\ NextHarvest
      /\ UNCHANGED <<goals, nextId, spawnSeq, asks>>
      /\ fault' \in {"None", "Memory"}
  BY DEF Harvest
<1>2. QED
  BY <1>1, HarvestingKeeps

LEMMA SkipHarvestKeeps == Inductive /\ SkipHarvest => Inductive'
<1> SUFFICES ASSUME Inductive, SkipHarvest PROVE Inductive'
  OBVIOUS
<1>1. /\ phase = "harvesting" /\ NextHarvest
      /\ UNCHANGED <<goals, nextId, spawnSeq, asks>>
      /\ fault' \in {"None", "Memory"}
  BY DEF SkipHarvest
<1>2. QED
  BY <1>1, HarvestingKeeps

LEMMA StepInductive == Inductive /\ [Next]_vars => Inductive'
<1> SUFFICES ASSUME Inductive, [Next]_vars PROVE Inductive'
  OBVIOUS
<1>1. CASE Next
  BY <1>1, SenseKeeps, ApplyCommandKeeps, PickIdleKeeps, PickSpawnKeeps,
     PickResumeKeeps, RunParksKeeps, RunSettlesKeeps, RunFailsKeeps,
     HarvestKeeps, SkipHarvestKeeps DEF Next
<1>2. CASE UNCHANGED vars
  BY <1>2 DEF vars, Inductive, TypeOK, Held
<1>3. QED
  BY <1>1, <1>2

----------------------------------------------------------------------------
(* The theorems.                                                          *)

\* The inductive invariant holds in every reachable state.
THEOREM AgentInductive == Spec => []Inductive
<1>1. QED
  BY InitInductive, StepInductive, PTL DEF Spec

\* The beat loop is type correct: goal ids never run past the allocator and
\* no budget goes below zero, through every command and settlement.
THEOREM TypeCorrect == Spec => []TypeOK
<1>1. Inductive => TypeOK
  BY DEF Inductive
<1>2. QED
  BY <1>1, AgentInductive, PTL

\* No goal's envelope ever widens (Goal::check_envelope after every
\* operation): what is left and what is reserved stay within the grant.
THEOREM EnvelopesNeverWiden == Spec => []EnvelopeNeverWidens
<1>1. Inductive => EnvelopeNeverWidens
  BY DEF Inductive, Sound, EnvelopeNeverWidens
<1>2. QED
  BY <1>1, AgentInductive, PTL

\* The ledger never refuses the scheduler or a report within its grant, so
\* the beat's `?` on reservation, spawn and settle never ends the agent.
THEOREM LedgerAccepts == Spec => []LedgerNeverRefuses
<1>1. Inductive => LedgerNeverRefuses
  BY DEF Inductive, LedgerNeverRefuses
<1>2. QED
  BY <1>1, AgentInductive, PTL

----------------------------------------------------------------------------
(* What one step may do to one goal.                                      *)

Opened(i) ==
  /\ goals[i] = NoGoal /\ ~LedgerFull(goals)
  /\ \E spec \in Specs : goals'[i] = Admitted(spec, Beat)

Taken(i) ==
  /\ i \in Held(goals) /\ goals[i].status = "Active"
  /\ goals'[i] = Spawned(goals[i], <<i, spawnSeq>>)

\* Control, park and resume: the budget stays where it is.
Moved(i) ==
  /\ i \in Held(goals)
  /\ \/ \E event : /\ Controllable(goals[i], event)
                   /\ goals'[i] = Controlled(goals[i], event, Beat)
     \/ goals[i].status = "Waiting" /\ goals'[i] = Resumed(goals[i])
     \/ goals[i].status = "Running" /\ goals'[i] = Parked(goals[i], Beat)

Closed(i) ==
  /\ phase = "driving" /\ driven = i
  /\ \E status \in RunStatus, refund \in Grant :
       /\ RefundFits(goals[i], refund)
       /\ goals'[i] = Settled(goals[i], status, refund, Beat)

Changed(i) == Opened(i) \/ Taken(i) \/ Moved(i) \/ Closed(i)

\* An admission opens the account of a slot that held no goal.
LEMMA ApplyCommandChanges ==
  ASSUME Inductive, ApplyCommand
  PROVE  \/ goals' = goals
         \/ \E i \in Ids : Changed(i) /\ \A j \in Ids \ {i} : goals'[j] = goals[j]
<1> DEFINE command == Head(sense.commands)
<1>1. /\ goals \in [Ids -> Goal \cup {NoGoal}]
      /\ nextId \in Ids \cup {0}
      /\ command \in Command
  BY HeadTailProperties DEF Inductive, TypeOK, ApplyCommand
<1>2. CASE command.kind = "AddGoal" /\ AddGoal(command.spec)
  <2>1. CASE UNCHANGED ledgerVars
    BY <2>1 DEF ledgerVars
  <2>2. CASE /\ nextId # 0 /\ ~LedgerFull(goals)
             /\ goals' = [goals EXCEPT ![nextId] = Admitted(command.spec, Beat)]
    <3>1. command.spec \in Specs
      BY <1>1, <1>2 DEF Command
    <3>2. nextId \in Ids /\ goals[nextId] = NoGoal
      <4>1. nextId \in Ids
        BY <1>1, <2>2
      <4>2. nextId \in Int
        BY <4>1, SlotAssumption DEF Ids
      <4>3. nextId \notin Held(goals)
        BY <2>2, <4>2 DEF Inductive
      <4>4. QED
        BY <4>1, <4>3 DEF Held
    <3>3. Opened(nextId)
      BY <1>1, <2>2, <3>1, <3>2 DEF Opened
    <3>4. QED
      BY <1>1, <2>2, <3>2, <3>3 DEF Changed
  <2>3. QED
    BY <1>2, <2>1, <2>2 DEF AddGoal
<1>3. CASE command.kind = "Control" /\ Control(command.goal, command.event)
  <2> DEFINE i == command.goal
  <2>1. CASE UNCHANGED goals
    BY <2>1
  <2>2. CASE /\ i \in Held(goals) /\ Controllable(goals[i], command.event)
             /\ goals' = [goals EXCEPT ![i] =
                            Controlled(goals[i], command.event, Beat)]
    <3>1. Moved(i) /\ i \in Ids
      BY <1>1, <2>2 DEF Moved, Held
    <3>2. QED
      BY <1>1, <2>2, <3>1 DEF Changed
  <2>3. QED
    BY <1>3, <2>1, <2>2 DEF Control
<1>4. CASE UNCHANGED ledgerVars
  BY <1>4 DEF ledgerVars
<1>5. QED
  BY <1>2, <1>3, <1>4 DEF ApplyCommand

LEMMA PickSpawnChanges ==
  ASSUME Inductive, PickSpawn
  PROVE  \E i \in Ids : Changed(i) /\ \A j \in Ids \ {i} : goals'[j] = goals[j]
<1>1. PICK i \in Held(goals) :
        /\ IsSpawnPick(goals, Beat, sense.ready, i)
        /\ Fundable(goals[i].remaining) =>
             goals' = [goals EXCEPT ![i] = Spawned(goals[i], <<i, spawnSeq>>)]
  BY DEF PickSpawn
<1>2. goals[i].status = "Active" /\ i \in Ids
  BY <1>1 DEF IsSpawnPick, Due, Held
<1>3. Fundable(goals[i].remaining)
  BY <1>2 DEF Inductive, Sound
<1>4. QED
  BY <1>1, <1>2, <1>3 DEF Inductive, TypeOK, Changed, Taken

LEMMA PickResumeChanges ==
  ASSUME Inductive, PickResume
  PROVE  \E i \in Ids : Changed(i) /\ \A j \in Ids \ {i} : goals'[j] = goals[j]
<1>1. PICK i \in Held(goals) :
        /\ IsResumePick(goals, sense.ready, i)
        /\ goals' = [goals EXCEPT ![i] = Resumed(goals[i])]
  BY DEF PickResume
<1>2. goals[i].status = "Waiting" /\ i \in Ids
  BY <1>1 DEF IsResumePick, Waiting, Held
<1>3. QED
  BY <1>1, <1>2 DEF Inductive, TypeOK, Changed, Moved

LEMMA RunParksChanges ==
  ASSUME Inductive, RunParks
  PROVE  \E i \in Ids : Changed(i) /\ \A j \in Ids \ {i} : goals'[j] = goals[j]
<1>1. /\ phase = "driving"
      /\ goals' = [goals EXCEPT ![driven] = Parked(goals[driven], Beat)]
  BY DEF RunParks
<1>2. driven \in Ids /\ Moved(driven)
  BY <1>1, DrivenGoal DEF Inductive, TypeOK, Moved
<1>3. QED
  BY <1>1, <1>2 DEF Inductive, TypeOK, Changed

LEMMA SettleChanges ==
  ASSUME Inductive, phase = "driving",
         NEW status \in RunStatus, NEW refund \in Grant,
         RefundFits(goals[driven], refund), NEW harvest,
         Settle(status, refund, harvest)
  PROVE  \E i \in Ids : Changed(i) /\ \A j \in Ids \ {i} : goals'[j] = goals[j]
<1>1. goals' = [goals EXCEPT ![driven] =
                  Settled(goals[driven], status, refund, Beat)]
  BY DEF Settle
<1>2. driven \in Ids /\ Closed(driven)
  BY <1>1, DrivenGoal DEF Inductive, TypeOK, Closed
<1>3. QED
  BY <1>1, <1>2 DEF Inductive, TypeOK, Changed

LEMMA RunSettlesChanges ==
  ASSUME Inductive, RunSettles
  PROVE  \E i \in Ids : Changed(i) /\ \A j \in Ids \ {i} : goals'[j] = goals[j]
<1>1. phase = "driving"
  BY DEF RunSettles
<1>2. PICK status \in Endings,
           turns \in 0..goals[driven].reserved.turns,
           mutations \in 0..goals[driven].reserved.mutations,
           harvest \in HarvestCounts :
             Settle(status, [turns |-> turns, mutations |-> mutations], harvest)
  BY DEF RunSettles
<1> DEFINE refund == [turns |-> turns, mutations |-> mutations]
<1>3. goals[driven].reserved \in Grant
  BY <1>1, DrivenGoal DEF Goal
<1>4. refund \in Grant /\ RefundFits(goals[driven], refund)
  BY <1>3 DEF Grant, RefundFits
<1>5. status \in RunStatus
  BY WorldAssumption
<1>6. QED
  BY <1>1, <1>2, <1>4, <1>5, SettleChanges

LEMMA RunFailsChanges ==
  ASSUME Inductive, RunFails
  PROVE  \E i \in Ids : Changed(i) /\ \A j \in Ids \ {i} : goals'[j] = goals[j]
<1>1. phase = "driving" /\ Settle("StorageFault", ZeroGrant, 0)
  BY DEF RunFails
<1>2. goals[driven].reserved \in Grant
  BY <1>1, DrivenGoal DEF Goal
<1>3. ZeroGrant \in Grant /\ RefundFits(goals[driven], ZeroGrant)
  BY <1>2 DEF Grant, ZeroGrant, RefundFits
<1>4. QED
  BY <1>1, <1>3, SettleChanges DEF RunStatus

\* A step changes one goal at most, in one of four ways.
LEMMA StepChangesOne ==
  ASSUME Inductive, [Next]_vars
  PROVE  \/ goals' = goals
         \/ \E i \in Ids : Changed(i) /\ \A j \in Ids \ {i} : goals'[j] = goals[j]
<1>1. CASE Sense \/ PickIdle \/ Harvest \/ SkipHarvest \/ UNCHANGED vars
  BY <1>1 DEF Sense, SenseAnswer, PickIdle, Harvest, SkipHarvest, vars
<1>2. QED
  BY <1>1, ApplyCommandChanges, PickSpawnChanges, PickResumeChanges,
     RunParksChanges, RunSettlesChanges, RunFailsChanges DEF Next

----------------------------------------------------------------------------
(* Obligations.                                                           *)

\* No step but the driven run's settlement lets go of a goal's run.
THEOREM ObligationsKept == Spec => ObligationKept
<1> DEFINE Kept(i) == \/ i \in Held(goals') /\ goals'[i].run = goals[i].run
                      \/ phase = "driving" /\ driven = i
<1>1. ASSUME Inductive, [Next]_vars
      PROVE  \A i \in Held(goals) : goals[i].status \in Busy => Kept(i)
  <2> SUFFICES ASSUME NEW i \in Held(goals), goals[i].status \in Busy
               PROVE  Kept(i)
    OBVIOUS
  <2>1. goals \in [Ids -> Goal \cup {NoGoal}] /\ goals' \in [Ids -> Goal \cup {NoGoal}]
    BY <1>1, StepInductive DEF Inductive, TypeOK
  <2>2. i \in Ids /\ goals[i] \in Goal /\ Sound(goals[i]) /\ goals[i] # NoGoal
    BY <1>1, <2>1, HeldIsGoal DEF Inductive, Held
  <2>3. CASE goals'[i] = goals[i]
    BY <2>1, <2>2, <2>3 DEF Held
  <2>4. CASE Changed(i)
    <3>1. ~Opened(i) /\ ~Taken(i)
      BY <2>2 DEF Opened, Taken, Busy
    <3>2. Closed(i) => Kept(i)
      BY DEF Closed
    <3>3. CASE Moved(i)
      <4>1. Beat \in Int
        BY <1>1 DEF Inductive, TypeOK, Beat
      <4>2. goals'[i] \in Goal /\ goals'[i].run = goals[i].run
        BY <2>2, <3>3, <4>1, ControlledSound, ResumedSound, ParkedSound DEF Moved
      <4>3. QED
        BY <2>2, <4>2, NoGoalAssumption DEF Held
    <3>4. QED
      BY <2>4, <3>1, <3>2, <3>3 DEF Changed
  <2>5. QED
    BY <1>1, <2>2, <2>3, <2>4, StepChangesOne
<1>2. QED
  BY <1>1, AgentInductive, PTL DEF Spec, ObligationKept

----------------------------------------------------------------------------
(* The beat loop implements the escrow specification, in either unit.      *)

Unit == {"turns", "mutations"}

AmountsOf(unit) ==
  IF unit = "turns" THEN {s.envelope.turns : s \in Specs}
  ELSE {s.envelope.mutations : s \in Specs}

\* What a change of a goal is to its account.
AccountOpened(i, unit) ==
  /\ Units(i, unit) = [granted |-> 0, free |-> 0, held |-> 0]
  /\ \E n \in AmountsOf(unit) :
       Units(i, unit)' = [granted |-> n, free |-> n, held |-> 0]

AccountTaken(i, unit) ==
  /\ Units(i, unit).held = 0
  /\ \E n \in 1..Units(i, unit).free :
       Units(i, unit)' = [granted |-> Units(i, unit).granted,
                          free |-> Units(i, unit).free - n,
                          held |-> n]

AccountClosed(i, unit) ==
  \E n \in 0..Units(i, unit).held :
    Units(i, unit)' = [granted |-> Units(i, unit).granted,
                       free |-> Units(i, unit).free + n,
                       held |-> 0]

AccountStep(i, unit) ==
  \/ Units(i, unit)' = Units(i, unit)
  \/ AccountOpened(i, unit)
  \/ AccountTaken(i, unit)
  \/ AccountClosed(i, unit)

\* The account of a goal, field by field.
LEMMA UnitsOfGoal ==
  ASSUME NEW i \in Ids, goals[i] \in Goal, NEW unit \in Unit
  PROVE  Units(i, unit) =
           IF unit = "turns"
           THEN [granted |-> goals[i].envelope.turns,
                 free |-> goals[i].remaining.turns,
                 held |-> goals[i].reserved.turns]
           ELSE [granted |-> goals[i].envelope.mutations,
                 free |-> goals[i].remaining.mutations,
                 held |-> goals[i].reserved.mutations]
BY NoGoalAssumption DEF Units, Unit

LEMMA UnitsOfGoalNext ==
  ASSUME NEW i \in Ids, goals'[i] \in Goal, NEW unit \in Unit
  PROVE  Units(i, unit)' =
           IF unit = "turns"
           THEN [granted |-> goals'[i].envelope.turns,
                 free |-> goals'[i].remaining.turns,
                 held |-> goals'[i].reserved.turns]
           ELSE [granted |-> goals'[i].envelope.mutations,
                 free |-> goals'[i].remaining.mutations,
                 held |-> goals'[i].reserved.mutations]
BY NoGoalAssumption DEF Units, Unit

\* Each way a goal changes is a step of its account or leaves it alone.
LEMMA ChangeIsAccountStep ==
  ASSUME Inductive, NEW i \in Ids, Changed(i), NEW unit \in Unit
  PROVE  AccountStep(i, unit)
<1> DEFINE g == goals[i]
<1>1. /\ goals \in [Ids -> Goal \cup {NoGoal}]
      /\ Beat \in Int /\ spawnSeq \in Nat
  BY DEF Inductive, TypeOK, Beat
<1>2. CASE Opened(i)
  <2>1. PICK spec \in Specs : goals'[i] = Admitted(spec, Beat)
    BY <1>2 DEF Opened
  <2>2. spec \in GoalSpec
    BY WorldAssumption
  <2>3. goals'[i] \in Goal
    BY <1>1, <2>1, <2>2, AdmittedSound
  <2>4. Units(i, unit) = [granted |-> 0, free |-> 0, held |-> 0]
    BY <1>2 DEF Opened, Units
  <2>5. Units(i, unit)' =
          IF unit = "turns"
          THEN [granted |-> spec.envelope.turns, free |-> spec.envelope.turns,
                held |-> 0]
          ELSE [granted |-> spec.envelope.mutations,
                free |-> spec.envelope.mutations, held |-> 0]
    BY <2>1, <2>3, UnitsOfGoalNext DEF Admitted, ZeroGrant
  <2>6. AccountOpened(i, unit)
    BY <2>4, <2>5 DEF AccountOpened, AmountsOf, Unit
  <2>7. QED
    BY <2>6 DEF AccountStep
<1>3. ASSUME i \in Held(goals) PROVE g \in Goal /\ Sound(g)
  BY <1>1, <1>3, HeldIsGoal DEF Inductive
<1>4. CASE Taken(i)
  <2>1. /\ g \in Goal /\ Sound(g) /\ g.status = "Active"
        /\ goals'[i] = Spawned(g, <<i, spawnSeq>>)
    BY <1>3, <1>4 DEF Taken
  <2>2. <<i, spawnSeq>> \in RunId
    BY <1>1, SlotAssumption DEF RunId, Ids
  <2>3. /\ goals'[i] \in Goal
        /\ goals'[i].envelope = g.envelope
        /\ goals'[i].reserved = Reservation(g)
        /\ goals'[i].remaining.turns = g.remaining.turns - Reservation(g).turns
        /\ goals'[i].remaining.mutations
             = g.remaining.mutations - Reservation(g).mutations
        /\ g.reserved = ZeroGrant
    BY <2>1, <2>2, SpawnedSound
  <2>4. /\ Reservation(g).turns \in 1..g.remaining.turns
        /\ Reservation(g).mutations \in 1..g.remaining.mutations
    BY <2>1, ReservationFits DEF Sound
  <2>5. AccountTaken(i, unit)
    <3>1. CASE unit = "turns"
      <4>1. /\ Units(i, unit) = [granted |-> g.envelope.turns,
                                 free |-> g.remaining.turns, held |-> 0]
            /\ Units(i, unit)' = [granted |-> g.envelope.turns,
                   free |-> g.remaining.turns - Reservation(g).turns,
                   held |-> Reservation(g).turns]
        BY <2>1, <2>3, <3>1, UnitsOfGoal, UnitsOfGoalNext DEF ZeroGrant
      <4>2. QED
        BY <2>4, <4>1 DEF AccountTaken
    <3>2. CASE unit = "mutations"
      <4>1. /\ Units(i, unit) = [granted |-> g.envelope.mutations,
                                 free |-> g.remaining.mutations, held |-> 0]
            /\ Units(i, unit)' = [granted |-> g.envelope.mutations,
                   free |-> g.remaining.mutations - Reservation(g).mutations,
                   held |-> Reservation(g).mutations]
        BY <2>1, <2>3, <3>2, UnitsOfGoal, UnitsOfGoalNext DEF ZeroGrant
      <4>2. QED
        BY <2>4, <4>1 DEF AccountTaken
    <3>3. QED
      BY <3>1, <3>2 DEF Unit
  <2>6. QED
    BY <2>5 DEF AccountStep
<1>5. CASE Moved(i)
  <2>1. g \in Goal /\ Sound(g)
    BY <1>3, <1>5 DEF Moved
  <2>2. /\ goals'[i] \in Goal
        /\ goals'[i].envelope = g.envelope
        /\ goals'[i].remaining = g.remaining
        /\ goals'[i].reserved = g.reserved
    BY <1>1, <1>5, <2>1, ControlledSound, ResumedSound, ParkedSound DEF Moved
  <2>3. Units(i, unit)' = Units(i, unit)
    BY <2>1, <2>2, UnitsOfGoal, UnitsOfGoalNext
  <2>4. QED
    BY <2>3 DEF AccountStep
<1>6. CASE Closed(i)
  <2>1. g \in Goal /\ Sound(g) /\ g.status = "Running"
    BY <1>6, DrivenGoal DEF Closed
  <2>2. PICK status \in RunStatus, refund \in Grant :
          /\ RefundFits(g, refund)
          /\ goals'[i] = Settled(g, status, refund, Beat)
    BY <1>6 DEF Closed
  <2>3. /\ goals'[i] \in Goal
        /\ goals'[i].envelope = g.envelope
        /\ goals'[i].reserved = ZeroGrant
        /\ goals'[i].remaining.turns = g.remaining.turns + refund.turns
        /\ goals'[i].remaining.mutations = g.remaining.mutations + refund.mutations
    BY <1>1, <2>1, <2>2, SettledSound
  <2>4. /\ refund.turns \in 0..g.reserved.turns
        /\ refund.mutations \in 0..g.reserved.mutations
    BY <2>1, <2>2 DEF RefundFits, Grant, Goal
  <2>5. AccountClosed(i, unit)
    <3>1. CASE unit = "turns"
      <4>1. /\ Units(i, unit) = [granted |-> g.envelope.turns,
                 free |-> g.remaining.turns, held |-> g.reserved.turns]
            /\ Units(i, unit)' = [granted |-> g.envelope.turns,
                 free |-> g.remaining.turns + refund.turns, held |-> 0]
        BY <2>1, <2>3, <3>1, UnitsOfGoal, UnitsOfGoalNext DEF ZeroGrant
      <4>2. QED
        BY <2>4, <4>1 DEF AccountClosed
    <3>2. CASE unit = "mutations"
      <4>1. /\ Units(i, unit) = [granted |-> g.envelope.mutations,
                 free |-> g.remaining.mutations, held |-> g.reserved.mutations]
            /\ Units(i, unit)' = [granted |-> g.envelope.mutations,
                 free |-> g.remaining.mutations + refund.mutations, held |-> 0]
        BY <2>1, <2>3, <3>2, UnitsOfGoal, UnitsOfGoalNext DEF ZeroGrant
      <4>2. QED
        BY <2>4, <4>1 DEF AccountClosed
    <3>3. QED
      BY <3>1, <3>2 DEF Unit
  <2>6. QED
    BY <2>5 DEF AccountStep
<1>7. QED
  BY <1>2, <1>4, <1>5, <1>6 DEF Changed

\* A step moves one account at most.
LEMMA StepIsAccountStep ==
  ASSUME Inductive, [Next]_vars, NEW unit \in Unit
  PROVE  \/ \A i \in Ids : Units(i, unit)' = Units(i, unit)
         \/ \E i \in Ids : /\ AccountStep(i, unit)
                          /\ \A j \in Ids \ {i} : Units(j, unit)' = Units(j, unit)
<1>1. CASE goals' = goals
  BY <1>1 DEF Units
<1>2. CASE \E i \in Ids : Changed(i) /\ \A j \in Ids \ {i} : goals'[j] = goals[j]
  <2>1. PICK i \in Ids : Changed(i) /\ \A j \in Ids \ {i} : goals'[j] = goals[j]
    BY <1>2
  <2>2. \A j \in Ids \ {i} : Units(j, unit)' = Units(j, unit)
    BY <2>1 DEF Units
  <2>3. QED
    BY <2>1, <2>2, ChangeIsAccountStep
<1>3. QED
  BY <1>1, <1>2, StepChangesOne

\* When two families of records agree but at i, so do their fields.
LEMMA FieldsBut ==
  ASSUME NEW S, NEW u, NEW v, NEW i \in S, \A j \in S \ {i} : v[j] = u[j]
  PROVE  /\ [j \in S |-> v[j].granted]
              = [[j \in S |-> u[j].granted] EXCEPT ![i] = v[i].granted]
         /\ [j \in S |-> v[j].free]
              = [[j \in S |-> u[j].free] EXCEPT ![i] = v[i].free]
         /\ [j \in S |-> v[j].held]
              = [[j \in S |-> u[j].held] EXCEPT ![i] = v[i].held]
         /\ v[i].granted = u[i].granted =>
              [j \in S |-> v[j].granted] = [j \in S |-> u[j].granted]
         /\ v[i].held = u[i].held =>
              [j \in S |-> v[j].held] = [j \in S |-> u[j].held]
OBVIOUS

\* In turns, the beat loop implements Escrow: a grant is taken out of what is
\* free before its run exists, at most once at a time, and the settlement
\* gives back at most what was taken.
THEOREM TurnsAreEscrowed == Spec => TurnsEscrowed
<1>1. Init => TurnEscrow!Init
  <2> SUFFICES ASSUME Init PROVE TurnEscrow!Init
    OBVIOUS
  <2>1. \A i \in Ids : Units(i, "turns") = [granted |-> 0, free |-> 0, held |-> 0]
    BY DEF Init, Units
  <2>2. QED
    BY <2>1 DEF TurnEscrow!Init
<1>2. Inductive /\ [Next]_vars => [TurnEscrow!Next]_(TurnEscrow!vars)
  <2> SUFFICES ASSUME Inductive, [Next]_vars PROVE [TurnEscrow!Next]_(TurnEscrow!vars)
    OBVIOUS
  <2> DEFINE u == [j \in Ids |-> Units(j, "turns")]
             v == [j \in Ids |-> Units(j, "turns")']
             granted(w) == [j \in Ids |-> w[j].granted]
             free(w) == [j \in Ids |-> w[j].free]
             held(w) == [j \in Ids |-> w[j].held]
  <2>1. CASE \A i \in Ids : v[i] = u[i]
    BY <2>1 DEF TurnEscrow!vars
  <2>2. CASE \E i \in Ids : /\ AccountStep(i, "turns")
                           /\ \A j \in Ids \ {i} : v[j] = u[j]
    <3>1. PICK i \in Ids : /\ AccountStep(i, "turns")
                          /\ \A j \in Ids \ {i} : v[j] = u[j]
      BY <2>2
    <3>2. u[i] = Units(i, "turns") /\ v[i] = Units(i, "turns")'
      OBVIOUS
    <3>3. /\ granted(v) = [granted(u) EXCEPT ![i] = v[i].granted]
          /\ free(v) = [free(u) EXCEPT ![i] = v[i].free]
          /\ held(v) = [held(u) EXCEPT ![i] = v[i].held]
          /\ v[i].granted = u[i].granted => granted(v) = granted(u)
          /\ v[i].held = u[i].held => held(v) = held(u)
      <4> HIDE DEF u, v
      <4>1. QED
        BY <3>1, FieldsBut
    <3>4. /\ [j \in Ids |-> Units(j, "turns").granted] = granted(u)
          /\ [j \in Ids |-> Units(j, "turns").free] = free(u)
          /\ [j \in Ids |-> Units(j, "turns").held] = held(u)
          /\ [j \in Ids |-> Units(j, "turns").granted]' = granted(v)
          /\ [j \in Ids |-> Units(j, "turns").free]' = free(v)
          /\ [j \in Ids |-> Units(j, "turns").held]' = held(v)
      OBVIOUS
    <3>5. /\ granted(u)[i] = Units(i, "turns").granted
          /\ free(u)[i] = Units(i, "turns").free
          /\ held(u)[i] = Units(i, "turns").held
      OBVIOUS
    <3> HIDE DEF u, v, granted, free, held
    <3>6. CASE v[i] = u[i]
      <4>1. granted(v) = granted(u) /\ held(v) = held(u) /\ free(v) = free(u)
        <5>1. \A j \in Ids : v[j] = u[j]
          BY <3>1, <3>6
        <5>2. QED
          BY <5>1 DEF granted, free, held
      <4>2. QED
        BY <3>4, <4>1 DEF TurnEscrow!vars
    <3>7. CASE AccountOpened(i, "turns")
      <4>1. PICK n \in AmountsOf("turns") :
              Units(i, "turns")' = [granted |-> n, free |-> n, held |-> 0]
        BY <3>7 DEF AccountOpened
      <4>2. Units(i, "turns").granted = 0 /\ Units(i, "turns").held = 0
        BY <3>7 DEF AccountOpened
      <4>3. /\ granted(v) = [granted(u) EXCEPT ![i] = n]
            /\ free(v) = [free(u) EXCEPT ![i] = n]
            /\ held(v) = held(u)
        <5>1. v[i] = [granted |-> n, free |-> n, held |-> 0]
          BY <3>2, <4>1
        <5>2. v[i].granted = n
          BY <5>1
        <5>3. v[i].free = n /\ v[i].held = 0
          BY <5>1
        <5>4. u[i].held = 0
          BY <3>2, <4>2
        <5>5. QED
          BY <3>3, <5>2, <5>3, <5>4
      <4>4. TurnEscrow!Open(i)
        BY <3>4, <3>5, <4>2, <4>3 DEF TurnEscrow!Open, AmountsOf
      <4>5. QED
        BY <3>1, <4>4 DEF TurnEscrow!Next
    <3>8. CASE AccountTaken(i, "turns")
      <4>1. PICK n \in 1..Units(i, "turns").free :
              Units(i, "turns")' = [granted |-> Units(i, "turns").granted,
                      free |-> Units(i, "turns").free - n, held |-> n]
        BY <3>8 DEF AccountTaken
      <4>2. Units(i, "turns").held = 0
        BY <3>8 DEF AccountTaken
      <4>3. /\ granted(v) = granted(u)
            /\ free(v) = [free(u) EXCEPT ![i] = free(u)[i] - n]
            /\ held(v) = [held(u) EXCEPT ![i] = n]
        <5>1. v[i] = [granted |-> u[i].granted, free |-> u[i].free - n,
                      held |-> n]
          BY <3>2, <4>1
        <5>2. v[i].granted = u[i].granted
          BY <5>1
        <5>3. v[i].free = free(u)[i] - n /\ v[i].held = n
          BY <3>2, <3>5, <5>1
        <5>4. QED
          BY <3>3, <5>2, <5>3
      <4>4. TurnEscrow!Take(i)
        BY <3>4, <3>5, <4>1, <4>2, <4>3 DEF TurnEscrow!Take
      <4>5. QED
        BY <3>1, <4>4 DEF TurnEscrow!Next
    <3>9. CASE AccountClosed(i, "turns")
      <4>1. PICK n \in 0..Units(i, "turns").held :
              Units(i, "turns")' = [granted |-> Units(i, "turns").granted,
                      free |-> Units(i, "turns").free + n, held |-> 0]
        BY <3>9 DEF AccountClosed
      <4>2. /\ granted(v) = granted(u)
            /\ free(v) = [free(u) EXCEPT ![i] = free(u)[i] + n]
            /\ held(v) = [held(u) EXCEPT ![i] = 0]
        <5>1. v[i] = [granted |-> u[i].granted, free |-> u[i].free + n,
                      held |-> 0]
          BY <3>2, <4>1
        <5>2. v[i].granted = u[i].granted
          BY <5>1
        <5>3. v[i].free = free(u)[i] + n /\ v[i].held = 0
          BY <3>2, <3>5, <5>1
        <5>4. QED
          BY <3>3, <5>2, <5>3
      <4>3. TurnEscrow!Close(i)
        BY <3>4, <3>5, <4>1, <4>2 DEF TurnEscrow!Close
      <4>4. QED
        BY <3>1, <4>3 DEF TurnEscrow!Next
    <3>10. QED
      BY <3>1, <3>2, <3>6, <3>7, <3>8, <3>9 DEF AccountStep
  <2>3. QED
    BY <2>1, <2>2, StepIsAccountStep DEF Unit
<1>3. QED
  BY <1>1, <1>2, AgentInductive, PTL DEF Spec, TurnsEscrowed, TurnEscrow!Spec

\* In mutations, the beat loop implements Escrow: a grant is taken out of what is
\* free before its run exists, at most once at a time, and the settlement
\* gives back at most what was taken.
THEOREM MutationsAreEscrowed == Spec => MutationsEscrowed
<1>1. Init => MutationEscrow!Init
  <2> SUFFICES ASSUME Init PROVE MutationEscrow!Init
    OBVIOUS
  <2>1. \A i \in Ids : Units(i, "mutations") = [granted |-> 0, free |-> 0, held |-> 0]
    BY DEF Init, Units
  <2>2. QED
    BY <2>1 DEF MutationEscrow!Init
<1>2. Inductive /\ [Next]_vars => [MutationEscrow!Next]_(MutationEscrow!vars)
  <2> SUFFICES ASSUME Inductive, [Next]_vars PROVE [MutationEscrow!Next]_(MutationEscrow!vars)
    OBVIOUS
  <2> DEFINE u == [j \in Ids |-> Units(j, "mutations")]
             v == [j \in Ids |-> Units(j, "mutations")']
             granted(w) == [j \in Ids |-> w[j].granted]
             free(w) == [j \in Ids |-> w[j].free]
             held(w) == [j \in Ids |-> w[j].held]
  <2>1. CASE \A i \in Ids : v[i] = u[i]
    BY <2>1 DEF MutationEscrow!vars
  <2>2. CASE \E i \in Ids : /\ AccountStep(i, "mutations")
                           /\ \A j \in Ids \ {i} : v[j] = u[j]
    <3>1. PICK i \in Ids : /\ AccountStep(i, "mutations")
                          /\ \A j \in Ids \ {i} : v[j] = u[j]
      BY <2>2
    <3>2. u[i] = Units(i, "mutations") /\ v[i] = Units(i, "mutations")'
      OBVIOUS
    <3>3. /\ granted(v) = [granted(u) EXCEPT ![i] = v[i].granted]
          /\ free(v) = [free(u) EXCEPT ![i] = v[i].free]
          /\ held(v) = [held(u) EXCEPT ![i] = v[i].held]
          /\ v[i].granted = u[i].granted => granted(v) = granted(u)
          /\ v[i].held = u[i].held => held(v) = held(u)
      <4> HIDE DEF u, v
      <4>1. QED
        BY <3>1, FieldsBut
    <3>4. /\ [j \in Ids |-> Units(j, "mutations").granted] = granted(u)
          /\ [j \in Ids |-> Units(j, "mutations").free] = free(u)
          /\ [j \in Ids |-> Units(j, "mutations").held] = held(u)
          /\ [j \in Ids |-> Units(j, "mutations").granted]' = granted(v)
          /\ [j \in Ids |-> Units(j, "mutations").free]' = free(v)
          /\ [j \in Ids |-> Units(j, "mutations").held]' = held(v)
      OBVIOUS
    <3>5. /\ granted(u)[i] = Units(i, "mutations").granted
          /\ free(u)[i] = Units(i, "mutations").free
          /\ held(u)[i] = Units(i, "mutations").held
      OBVIOUS
    <3> HIDE DEF u, v, granted, free, held
    <3>6. CASE v[i] = u[i]
      <4>1. granted(v) = granted(u) /\ held(v) = held(u) /\ free(v) = free(u)
        <5>1. \A j \in Ids : v[j] = u[j]
          BY <3>1, <3>6
        <5>2. QED
          BY <5>1 DEF granted, free, held
      <4>2. QED
        BY <3>4, <4>1 DEF MutationEscrow!vars
    <3>7. CASE AccountOpened(i, "mutations")
      <4>1. PICK n \in AmountsOf("mutations") :
              Units(i, "mutations")' = [granted |-> n, free |-> n, held |-> 0]
        BY <3>7 DEF AccountOpened
      <4>2. Units(i, "mutations").granted = 0 /\ Units(i, "mutations").held = 0
        BY <3>7 DEF AccountOpened
      <4>3. /\ granted(v) = [granted(u) EXCEPT ![i] = n]
            /\ free(v) = [free(u) EXCEPT ![i] = n]
            /\ held(v) = held(u)
        <5>1. v[i] = [granted |-> n, free |-> n, held |-> 0]
          BY <3>2, <4>1
        <5>2. v[i].granted = n
          BY <5>1
        <5>3. v[i].free = n /\ v[i].held = 0
          BY <5>1
        <5>4. u[i].held = 0
          BY <3>2, <4>2
        <5>5. QED
          BY <3>3, <5>2, <5>3, <5>4
      <4>4. MutationEscrow!Open(i)
        BY <3>4, <3>5, <4>2, <4>3 DEF MutationEscrow!Open, AmountsOf
      <4>5. QED
        BY <3>1, <4>4 DEF MutationEscrow!Next
    <3>8. CASE AccountTaken(i, "mutations")
      <4>1. PICK n \in 1..Units(i, "mutations").free :
              Units(i, "mutations")' = [granted |-> Units(i, "mutations").granted,
                      free |-> Units(i, "mutations").free - n, held |-> n]
        BY <3>8 DEF AccountTaken
      <4>2. Units(i, "mutations").held = 0
        BY <3>8 DEF AccountTaken
      <4>3. /\ granted(v) = granted(u)
            /\ free(v) = [free(u) EXCEPT ![i] = free(u)[i] - n]
            /\ held(v) = [held(u) EXCEPT ![i] = n]
        <5>1. v[i] = [granted |-> u[i].granted, free |-> u[i].free - n,
                      held |-> n]
          BY <3>2, <4>1
        <5>2. v[i].granted = u[i].granted
          BY <5>1
        <5>3. v[i].free = free(u)[i] - n /\ v[i].held = n
          BY <3>2, <3>5, <5>1
        <5>4. QED
          BY <3>3, <5>2, <5>3
      <4>4. MutationEscrow!Take(i)
        BY <3>4, <3>5, <4>1, <4>2, <4>3 DEF MutationEscrow!Take
      <4>5. QED
        BY <3>1, <4>4 DEF MutationEscrow!Next
    <3>9. CASE AccountClosed(i, "mutations")
      <4>1. PICK n \in 0..Units(i, "mutations").held :
              Units(i, "mutations")' = [granted |-> Units(i, "mutations").granted,
                      free |-> Units(i, "mutations").free + n, held |-> 0]
        BY <3>9 DEF AccountClosed
      <4>2. /\ granted(v) = granted(u)
            /\ free(v) = [free(u) EXCEPT ![i] = free(u)[i] + n]
            /\ held(v) = [held(u) EXCEPT ![i] = 0]
        <5>1. v[i] = [granted |-> u[i].granted, free |-> u[i].free + n,
                      held |-> 0]
          BY <3>2, <4>1
        <5>2. v[i].granted = u[i].granted
          BY <5>1
        <5>3. v[i].free = free(u)[i] + n /\ v[i].held = 0
          BY <3>2, <3>5, <5>1
        <5>4. QED
          BY <3>3, <5>2, <5>3
      <4>3. MutationEscrow!Close(i)
        BY <3>4, <3>5, <4>1, <4>2 DEF MutationEscrow!Close
      <4>4. QED
        BY <3>1, <4>3 DEF MutationEscrow!Next
    <3>10. QED
      BY <3>1, <3>2, <3>6, <3>7, <3>8, <3>9 DEF AccountStep
  <2>3. QED
    BY <2>1, <2>2, StepIsAccountStep DEF Unit
<1>3. QED
  BY <1>1, <1>2, AgentInductive, PTL DEF Spec, MutationsEscrowed, MutationEscrow!Spec

\* In every unit the supervisor accounts for, the beat loop implements Escrow.
THEOREM BudgetsAreEscrowed == Spec => BudgetsEscrowed
BY TurnsAreEscrowed, MutationsAreEscrowed DEF BudgetsEscrowed

----------------------------------------------------------------------------
(* The memory store and the checkpoint.                                   *)

MemoryKey ==
       [kind : {"Note"}, of : Notes]
  \cup [kind : {"Outcome"}, of : Ids]
  \cup [kind : {"Observation"}, of : Observations]

MemoryEntry == [key : MemoryKey, goal : Nat, stamp : Nat]
Stores == [entries : Seq(MemoryEntry), nextStamp : Nat \ {0}]

\* A store's entries are distinct and within their quotas, and in the order of
\* their stamps.
Kept(store) ==
  /\ store \in Stores
  /\ RestorableEntries(store.entries)
  /\ Stamped(store.entries, store.nextStamp)
  /\ store.nextStamp <= MaxStamp

\* What the memory properties rest on beside Inductive: the store's entries
\* are the ones the beat writes, under its quotas and in their order, the
\* ledger keeps to its slots, and no write is refused but for want of a stamp.
Stored ==
  /\ Kept(memory)
  /\ IsFiniteSet(Held(goals)) /\ Cardinality(Held(goals)) <= MaxGoals
  /\ fault = "Memory" => memory.nextStamp = MaxStamp

\* The keys of notes in the store, in the lemmas' terms.
LEMMA NotesHeld ==
  ASSUME NEW store, NEW n
  PROVE  HoldsKey(store, Note(n)) <=> Note(n) \in PinnedKeys(store)
BY DEF HoldsKey, PinnedKeys, KeysOf, Note

LEMMA InitStored == Init => Stored
<1> SUFFICES ASSUME Init PROVE Stored
  OBVIOUS
<1>1. /\ memory = EmptyStore /\ memory.entries = <<>> /\ memory.nextStamp = 1
      /\ memory.entries \in Seq(MemoryEntry) /\ Len(memory.entries) = 0
  BY EmptySeq DEF Init, EmptyStore
<1>2. PinnedCount(memory.entries) = 0
  <2>1. {i \in DOMAIN memory.entries : Pinned(memory.entries[i])} = {}
    BY <1>1
  <2> QED
    BY <2>1, FS_EmptySet DEF PinnedCount
<1>3. Kept(memory)
  <2>1. RestorableEntries(memory.entries)
    BY <1>1, <1>2, MemoryAssumption DEF RestorableEntries
  <2>2. Stamped(memory.entries, memory.nextStamp)
    BY <1>1 DEF Stamped
  <2>3. memory \in Stores
    BY <1>1 DEF EmptyStore, Stores
  <2> QED
    BY <1>1, <2>1, <2>2, <2>3, MemoryAssumption DEF Kept
<1>4. IsFiniteSet(Held(goals)) /\ Cardinality(Held(goals)) = 0
  <2>1. Held(goals) = {}
    BY DEF Init, Held
  <2> QED
    BY <2>1, FS_EmptySet
<1> QED
  BY <1>1, <1>3, <1>4, SlotAssumption DEF Stored, Init

\* Only an admission adds a goal to the ledger, and only below its slots.
LEMMA LedgerBounded ==
  ASSUME Inductive, Stored, [Next]_vars
  PROVE  IsFiniteSet(Held(goals')) /\ Cardinality(Held(goals')) <= MaxGoals
<1>1. goals \in [Ids -> Goal \cup {NoGoal}] /\ goals' \in [Ids -> Goal \cup {NoGoal}]
  BY StepInductive DEF Inductive, TypeOK
<1>2. CASE goals' = goals
  BY <1>2 DEF Stored
<1>3. CASE \E i \in Ids : Changed(i) /\ \A j \in Ids \ {i} : goals'[j] = goals[j]
  <2>1. PICK i \in Ids : Changed(i) /\ \A j \in Ids \ {i} : goals'[j] = goals[j]
    BY <1>3
  <2>2. CASE i \in Held(goals)
    <3>1. Held(goals') \in SUBSET Held(goals)
      BY <2>1, <2>2 DEF Held
    <3>2. /\ IsFiniteSet(Held(goals'))
          /\ Cardinality(Held(goals')) <= Cardinality(Held(goals))
      BY <3>1, FS_Subset DEF Stored
    <3>3. Cardinality(Held(goals)) \in Nat /\ Cardinality(Held(goals')) \in Nat
      BY <3>2, FS_CardinalityType DEF Stored
    <3> QED
      BY <3>2, <3>3, SlotAssumption DEF Stored
  <2>3. CASE i \notin Held(goals)
    <3>1. ~LedgerFull(goals)
      <4>1. ~Taken(i) /\ ~Moved(i)
        BY <2>3 DEF Taken, Moved
      <4>2. ~Closed(i)
        BY <2>3, DrivenGoal DEF Closed
      <4> QED
        BY <2>1, <4>1, <4>2 DEF Changed, Opened
    <3>2. Held(goals') \in SUBSET (Held(goals) \cup {i})
      BY <2>1 DEF Held
    <3>3. /\ IsFiniteSet(Held(goals) \cup {i})
          /\ Cardinality(Held(goals) \cup {i}) = Cardinality(Held(goals)) + 1
      BY <2>3, FS_AddElement DEF Stored
    <3>4. /\ IsFiniteSet(Held(goals'))
          /\ Cardinality(Held(goals')) <= Cardinality(Held(goals)) + 1
      BY <3>2, <3>3, FS_Subset
    <3>5. Cardinality(Held(goals)) \in Nat /\ Cardinality(Held(goals')) \in Nat
      BY <3>4, FS_CardinalityType DEF Stored
    <3> QED
      BY <3>1, <3>4, <3>5, SlotAssumption DEF LedgerFull
  <2> QED
    BY <2>2, <2>3
<1> QED
  BY <1>2, <1>3, StepChangesOne

\* What a step may leave of the store: a sound one, with every note but the
\* one whose Forget command it applies.
Forgotten(n) ==
  /\ phase = "commands"
  /\ Head(sense.commands) = [kind |-> "Forget", note |-> n]

StoreStep ==
  /\ Kept(memory')
  /\ \A n \in Notes :
       HoldsKey(memory.entries, Note(n)) /\ ~HoldsKey(memory'.entries, Note(n)) =>
         Forgotten(n)

LEMMA QuietStoreStep ==
  ASSUME Stored, memory' = memory
  PROVE  StoreStep
BY DEF Stored, StoreStep

LEMMA WriteStoreStep ==
  ASSUME Stored, NEW entry \in MemoryEntry, Writable(memory, entry),
         memory' = Written(memory, entry)
  PROVE  StoreStep
<1> DEFINE entries == memory.entries
           next == memory.nextStamp
           stamped == [entry EXCEPT !.stamp = next]
<1>1. /\ entries \in Seq(MemoryEntry) /\ RestorableEntries(entries)
      /\ Stamped(entries, next) /\ next \in Nat \ {0}
  BY DEF Stored, Kept, Stores
<1>2. next < MaxStamp /\ Accepts(entries, entry)
  BY DEF Writable
<1>3. /\ stamped \in MemoryEntry /\ stamped.stamp = next
      /\ stamped.key = entry.key
  BY <1>1 DEF MemoryEntry
<1>4. Accepts(entries, stamped)
  BY <1>2, <1>3 DEF Accepts, Pinned
<1>5. memory'.entries = Placed(entries, stamped) /\ memory'.nextStamp = next + 1
      /\ memory' = [entries |-> Placed(entries, stamped), nextStamp |-> next + 1]
  BY DEF Written
<1> HIDE DEF entries, next, stamped
<1>6. /\ Placed(entries, stamped) \in Seq(MemoryEntry)
      /\ RestorableEntries(Placed(entries, stamped))
      /\ PinnedKeys(entries) \subseteq PinnedKeys(Placed(entries, stamped))
  BY <1>1, <1>3, <1>4, PlacedEntries
<1>7. Stamped(Placed(entries, stamped), next + 1)
  BY <1>1, <1>3, <1>4, PlacedStamped
<1>8. next + 1 <= MaxStamp /\ next + 1 \in Nat \ {0}
  BY <1>1, <1>2, MemoryAssumption
<1>9. Kept(memory')
  BY <1>5, <1>6, <1>7, <1>8 DEF Kept, Stores
<1> QED
  BY <1>5, <1>6, <1>9, NotesHeld DEF StoreStep, entries

LEMMA ForgetStoreStep ==
  ASSUME Stored, NEW n \in Notes, phase = "commands",
         Head(sense.commands) = [kind |-> "Forget", note |-> n], Forget(n)
  PROVE  StoreStep
<1> DEFINE entries == memory.entries
           rest == Without(entries, Note(n))
<1>1. /\ memory \in Stores /\ entries \in Seq(MemoryEntry)
      /\ RestorableEntries(entries) /\ Stamped(entries, memory.nextStamp)
      /\ memory.nextStamp \in Nat \ {0} /\ memory.nextStamp <= MaxStamp
  BY DEF Stored, Kept, Stores
<1>2. /\ memory' = [entries |-> rest, nextStamp |-> memory.nextStamp]
      /\ memory'.entries = rest /\ memory'.nextStamp = memory.nextStamp
  BY <1>1 DEF Forget, Stores
<1>3. /\ rest \in Seq(MemoryEntry)
      /\ RestorableEntries(rest)
      /\ KeysOf(rest) = KeysOf(entries) \ {Note(n)}
  BY <1>1, WithoutKey
<1>4. Stamped(rest, memory.nextStamp)
  <2>1. CASE HoldsKey(entries, Note(n))
    <3>1. Position(entries, Note(n)) \in DOMAIN entries
      BY <2>1 DEF HoldsKey, Position
    <3> QED
      BY <1>1, <2>1, <3>1, RemovedStamped DEF Without
  <2>2. CASE ~HoldsKey(entries, Note(n))
    BY <1>1, <2>2 DEF Without
  <2> QED
    BY <2>1, <2>2
<1> HIDE DEF rest
<1>5. Kept(memory')
  BY <1>1, <1>2, <1>3, <1>4 DEF Kept, Stores
<1>6. ASSUME NEW m \in Notes,
             HoldsKey(entries, Note(m)), ~HoldsKey(memory'.entries, Note(m))
      PROVE  m = n
  <2>1. Note(m) \in KeysOf(entries) /\ Note(m) \notin KeysOf(rest)
    BY <1>2, <1>6 DEF HoldsKey, KeysOf
  <2>2. Note(m) = Note(n)
    BY <1>3, <2>1
  <2> QED
    BY <2>2 DEF Note
<1> QED
  BY <1>5, <1>6 DEF StoreStep, Forgotten

\* A harvested entry is no note, so the store has room for it; it is refused
\* only when there is no stamp left.
LEMMA HarvestStoreStep ==
  ASSUME Inductive, Stored, Harvest
  PROVE  StoreStep /\ (fault' = "Memory" => memory'.nextStamp = MaxStamp)
<1>1. PICK key \in {Observation(o) : o \in Observations} \cup {Outcome(driven)} :
        LET entry == Unstamped(key, driven)
        IN  /\ fault' = IF Writable(memory, entry) THEN "None" ELSE "Memory"
            /\ memory' = IF Writable(memory, entry)
                         THEN Written(memory, entry) ELSE memory
  BY DEF Harvest
<1> DEFINE entry == Unstamped(key, driven)
<1>2. driven \in Ids /\ driven \in Nat
  <2>1. driven \in Ids
    BY DEF Inductive, Harvest, Held
  <2> QED
    BY <2>1, SlotAssumption DEF Ids
<1>3. key \in MemoryKey /\ key.kind # "Note"
  BY <1>1, <1>2 DEF MemoryKey, Observation, Outcome
<1>4. entry \in MemoryEntry /\ ~Pinned(entry)
  BY <1>2, <1>3 DEF Unstamped, MemoryEntry, Pinned
<1>5. /\ fault' = IF Writable(memory, entry) THEN "None" ELSE "Memory"
      /\ memory' = IF Writable(memory, entry) THEN Written(memory, entry) ELSE memory
  BY <1>1
<1> HIDE DEF entry
<1>6. CASE Writable(memory, entry)
  BY <1>4, <1>5, <1>6, WriteStoreStep
<1>7. CASE ~Writable(memory, entry)
  <2>1. /\ memory.entries \in Seq(MemoryEntry) /\ RestorableEntries(memory.entries)
        /\ memory.nextStamp \in Nat /\ memory.nextStamp <= MaxStamp
    BY DEF Stored, Kept, Stores
  <2>2. Accepts(memory.entries, entry)
    BY <1>4, <2>1, UnpinnedAccepted
  <2>3. memory.nextStamp = MaxStamp
    BY <1>7, <2>1, <2>2, MemoryAssumption DEF Writable
  <2> QED
    BY <1>5, <1>7, <2>3, QuietStoreStep
<1> QED
  BY <1>6, <1>7

LEMMA CommandStoreStep ==
  ASSUME Inductive, Stored, ApplyCommand
  PROVE  StoreStep
<1> DEFINE command == Head(sense.commands)
<1>1. phase = "commands" /\ command \in Command
  BY HeadTailProperties DEF Inductive, TypeOK, ApplyCommand
<1>2. CASE memory' = memory
  BY <1>2, QuietStoreStep
<1>3. CASE command.kind = "Remember" /\ Remember(command.note)
  <2> DEFINE entry == NoteEntry(command.note)
  <2>1. command.note \in Notes
    BY <1>1, <1>3 DEF Command
  <2>2. entry \in MemoryEntry
    BY <2>1 DEF MemoryEntry, MemoryKey, NoteEntry, Unstamped, Note
  <2>3. memory' = IF Writable(memory, entry) THEN Written(memory, entry) ELSE memory
    BY <1>3 DEF Remember
  <2> HIDE DEF entry
  <2> QED
    BY <2>2, <2>3, WriteStoreStep, QuietStoreStep
<1>4. CASE command.kind = "Forget" /\ Forget(command.note)
  <2>1. command.note \in Notes /\ command = [kind |-> "Forget", note |-> command.note]
    BY <1>1, <1>4 DEF Command
  <2> QED
    BY <1>1, <1>4, <2>1, ForgetStoreStep
<1> QED
  BY <1>2, <1>3, <1>4 DEF ApplyCommand

LEMMA StepStored ==
  ASSUME Inductive, Stored, [Next]_vars
  PROVE  Stored' /\ StoreStep
<1>1. CASE ApplyCommand
  BY <1>1, CommandStoreStep, LedgerBounded DEF Stored, StoreStep, ApplyCommand
<1>2. CASE Harvest
  BY <1>2, HarvestStoreStep, LedgerBounded DEF Stored, StoreStep
<1>3. CASE ~ApplyCommand /\ ~Harvest
  <2>1. memory' = memory
    BY <1>3 DEF Next, Sense, SenseAnswer, PickIdle, PickSpawn, PickResume,
                RunParks, RunSettles, RunFails, Settle, SkipHarvest, vars
  <2>2. fault' \in {fault, "Ledger"}
    BY <1>3 DEF Next, Sense, SenseAnswer, PickIdle, PickSpawn, PickResume,
                RunParks, RunSettles, RunFails, Settle, SkipHarvest, vars
  <2> QED
    BY <2>1, <2>2, QuietStoreStep, LedgerBounded DEF Stored, StoreStep
<1> QED
  BY <1>1, <1>2, <1>3

THEOREM MemoryInductive == Spec => [](Inductive /\ Stored)
<1>1. Init => Inductive /\ Stored
  BY InitInductive, InitStored
<1>2. (Inductive /\ Stored) /\ [Next]_vars => (Inductive /\ Stored)'
  BY StepInductive, StepStored
<1> QED
  BY <1>1, <1>2, PTL DEF Spec

\* The pins leave the store a place at least, so the `?` on memory.write
\* after a HARVEST ends the agent only when the last stamp was given out,
\* whatever notes the operator wrote.
THEOREM HarvestsAreWritten == Spec => []HarvestNeverRefused
<1>1. Stored => HarvestNeverRefused
  BY DEF Stored, HarvestNeverRefused
<1> QED
  BY <1>1, MemoryInductive, PTL

\* A store in the order of its stamps is one that a restore accepts.
LEMMA KeptRestorable ==
  ASSUME NEW store, Kept(store)
  PROVE  RestorableStore(store)
<1> DEFINE entries == store.entries
<1>1. /\ DOMAIN entries = 1..Len(entries) /\ Len(entries) \in Nat
      /\ store.nextStamp \in Nat
  BY LenProperties DEF Kept, Stores
<1>2. /\ \A i \in DOMAIN entries : entries[i].stamp \in 1..(store.nextStamp - 1)
      /\ \A i, j \in DOMAIN entries : i < j => entries[i].stamp < entries[j].stamp
  BY DEF Kept, Stamped
<1>3. ASSUME NEW i \in DOMAIN entries, NEW j \in DOMAIN entries,
             entries[i].stamp = entries[j].stamp
      PROVE  i = j
  <2>1. i \in Nat /\ j \in Nat /\ entries[i].stamp \in Nat
    BY <1>1, <1>2
  <2> QED
    BY <1>2, <1>3, <2>1
<1>4. ASSUME NEW i \in DOMAIN entries
      PROVE  entries[i].stamp # 0 /\ entries[i].stamp < store.nextStamp
  BY <1>1, <1>2
<1> QED
  BY <1>3, <1>4 DEF Kept, RestorableStore

\* Between beats the ledger and the memory are what the next run's restore
\* accepts, so no checkpoint is one the agent cannot start from.
THEOREM CheckpointsAreRestorable == Spec => []CheckpointRestorable
<1>1. Inductive /\ Stored => CheckpointRestorable
  <2> SUFFICES ASSUME Inductive, Stored, phase = "timer"
               PROVE  Restorable(goals, nextId) /\ RestorableStore(memory)
    BY DEF CheckpointRestorable
  <2>1. \A i \in Held(goals) : CheckEnvelope(goals[i]) /\ goals[i].status # "Running"
    BY NoneRunning DEF Inductive, Sound
  <2>2. RestorableStore(memory)
    BY KeptRestorable DEF Stored
  <2> QED
    BY <2>1, <2>2 DEF Restorable, Stored, Inductive
<1> QED
  BY <1>1, MemoryInductive, PTL

\* Neither a harvest nor another note takes an operator's note out of the
\* store: its own Forget command does, and nothing else.
THEOREM NotesAreKept == Spec => PinnedNeverEvicted
<1>1. (Inductive /\ Stored) /\ [Next]_vars =>
        [\A n \in Notes :
           HoldsKey(memory.entries, Note(n)) /\ ~HoldsKey(memory'.entries, Note(n)) =>
             /\ phase = "commands"
             /\ Head(sense.commands) = [kind |-> "Forget", note |-> n]]_vars
  BY StepStored DEF StoreStep, Forgotten
<1> QED
  BY <1>1, MemoryInductive, PTL DEF Spec, PinnedNeverEvicted

=============================================================================
