---------------------------- MODULE BoardProofs ----------------------------
(***************************************************************************)
(* Theorems about the board's run slots, for every number of goals, slots, *)
(* spawns and mishaps: they keep the supervisor's runs and their seeds,    *)
(* they implement the run store, and a spawn is refused only when every    *)
(* slot is needed.                                                         *)
(***************************************************************************)
EXTENDS Board, WellFoundedInduction, TLAPS

----------------------------------------------------------------------------
(* What each write to a bank pair leaves in front.                        *)

\* What holds of a pair whose banks hold segments of one run.
OneRun(pair) ==
  /\ ~Ambiguous(pair)
  /\ pair["A"].gen # 0 /\ pair["B"].gen # 0 =>
       /\ pair["A"].segment.root = pair["B"].segment.root
       /\ pair["A"].segment.seed = pair["B"].segment.seed

\* The segments in the pair's banks.
Banked(pair, segment) == \E id \in BankIds : pair[id].gen # 0 /\ pair[id].segment = segment

LEMMA Halves ==
  ASSUME NEW pair
  PROVE  \/ Authority(pair) = "A" /\ Other(Authority(pair)) = "B"
         \/ Authority(pair) = "B" /\ Other(Authority(pair)) = "A"
<1>1. CASE Authority(pair) = "A" BY <1>1 DEF Other
<1>2. CASE Authority(pair) = "B" BY <1>2 DEF Other
<1>3. Authority(pair) = "A" \/ Authority(pair) = "B" BY DEF Authority
<1> QED BY <1>1, <1>2, <1>3

LEMMA BlankPairType == BlankPair \in Pair /\ ~Occupied(BlankPair) /\ OneRun(BlankPair)
                       /\ \A segment : ~Banked(BlankPair, segment)
  BY DEF BlankPair, Pair, Blank, Bank, BankIds, Occupied, OneRun, Ambiguous, Banked

\* The bank in front is sealed.
LEMMA FrontIsBanked ==
  ASSUME NEW pair \in Pair, Occupied(pair)
  PROVE  /\ Authority(pair) \in BankIds
         /\ pair[Authority(pair)] \in Bank
         /\ Front(pair) \in Segment
         /\ Banked(pair, Front(pair))
  BY DEF Pair, Blank, BlankPair, Bank, BankIds, Occupied, Front, Authority, Banked

LEMMA CommissionedFront ==
  ASSUME NEW segment \in Segment
  PROVE  /\ Commissioned(segment) \in Pair
         /\ Occupied(Commissioned(segment))
         /\ Front(Commissioned(segment)) = segment
         /\ OneRun(Commissioned(segment))
         /\ \A s : Banked(Commissioned(segment), s) => s = segment
<1> DEFINE P == Commissioned(segment)
<1>1. P["A"] = [gen |-> 1, segment |-> segment] /\ P["B"] = Blank /\ P \in Pair
  BY DEF Commissioned, BlankPair, Pair, Blank, Bank, BankIds
<1>2. P["A"].gen = 1 /\ P["B"].gen = 0 /\ P["A"].segment = segment
  BY <1>1 DEF Blank
<1> HIDE DEF P
<1>3. Occupied(P) BY <1>2 DEF Occupied, BlankPair, Blank, BankIds
<1>4. Front(P) = segment BY <1>2 DEF Front, Authority
<1>5. OneRun(P) BY <1>2 DEF OneRun, Ambiguous
<1>6. \A s : Banked(P, s) => s = segment BY <1>2 DEF Banked, BankIds
<1> QED BY <1>1, <1>3, <1>4, <1>5, <1>6 DEF P

LEMMA SucceededFront ==
  ASSUME NEW pair \in Pair, Occupied(pair), NEW segment \in Segment,
         segment.root = Front(pair).root, segment.seed = Front(pair).seed
  PROVE  /\ Succeeded(pair, segment) \in Pair
         /\ Occupied(Succeeded(pair, segment))
         /\ Front(Succeeded(pair, segment)) = segment
         /\ OneRun(Succeeded(pair, segment))
         /\ \A s : Banked(Succeeded(pair, segment), s) => s = segment \/ Banked(pair, s)
<1> DEFINE a == Authority(pair)
           b == Other(a)
           P == Succeeded(pair, segment)
           n == NextGeneration(pair)
<1>1. a \in BankIds /\ b \in BankIds /\ a # b /\ BankIds = {a, b}
  BY DEF Authority, Other, BankIds
<1>2. pair[a] \in Bank BY FrontIsBanked
<1>3. n \in Nat \ {0} /\ n > pair[a].gen /\ pair[a].gen \in Nat \ {0}
  BY <1>2 DEF NextGeneration, Bank
<1>4. P \in Pair /\ P[a] = pair[a] /\ P[b] = [gen |-> n, segment |-> segment]
  <2>1. P = [pair EXCEPT ![b] = [gen |-> n, segment |-> segment]] BY DEF Succeeded
  <2>2. pair \in [BankIds -> Bank \cup {Blank}] BY DEF Pair
  <2>3. [gen |-> n, segment |-> segment] \in Bank BY <1>3 DEF Bank
  <2> QED BY <1>1, <2>1, <2>2, <2>3 DEF Pair
<1>5. P[b].gen = n /\ P[b].segment = segment BY <1>4
<1>6. pair[a].segment = Front(pair) BY DEF Front
<1>0. (a = "A" /\ b = "B") \/ (a = "B" /\ b = "A") BY Halves
<1> HIDE DEF a, b, n, P
<1>7. Authority(P) = b /\ Occupied(P)
  <2>2. Authority(P) = b BY <1>0, <1>3, <1>4, <1>5 DEF Authority
  <2>3. Occupied(P) BY <1>1, <1>3, <1>5 DEF Occupied, BlankPair, Blank
  <2> QED BY <2>2, <2>3
<1>8. Front(P) = segment BY <1>5, <1>7 DEF Front
<1>9. OneRun(P)
  BY <1>0, <1>3, <1>4, <1>5, <1>6 DEF OneRun, Ambiguous
<1>10. \A s : Banked(P, s) => s = segment \/ Banked(pair, s)
  BY <1>1, <1>4, <1>5 DEF Banked
<1> QED BY <1>4, <1>7, <1>8, <1>9, <1>10 DEF P

LEMMA SuccessionCutFront ==
  ASSUME NEW pair \in Pair, Occupied(pair)
  PROVE  /\ SuccessionCutLeaves(pair) \in Pair
         /\ Occupied(SuccessionCutLeaves(pair))
         /\ Front(SuccessionCutLeaves(pair)) = Front(pair)
         /\ OneRun(SuccessionCutLeaves(pair))
         /\ \A s : Banked(SuccessionCutLeaves(pair), s) => Banked(pair, s)
<1> DEFINE a == Authority(pair)
           b == Other(a)
           P == SuccessionCutLeaves(pair)
<1>1. a \in BankIds /\ b \in BankIds /\ a # b /\ BankIds = {a, b}
  BY DEF Authority, Other, BankIds
<1>2. pair[a] \in Bank BY FrontIsBanked
<1>3. pair[a].gen \in Nat \ {0} BY <1>2 DEF Bank
<1>4. P \in Pair /\ P[a] = pair[a] /\ P[b] = Blank
  BY <1>1 DEF SuccessionCutLeaves, Pair
<1>5. P[b].gen = 0 BY <1>4 DEF Blank
<1>6. (a = "A" /\ b = "B") \/ (a = "B" /\ b = "A") BY Halves
<1>0. pair[a].segment = Front(pair) BY DEF Front
<1> HIDE DEF a, b, P
<1>7. Authority(P) = a BY <1>3, <1>4, <1>5, <1>6 DEF Authority
<1>8. Occupied(P) BY <1>1, <1>3, <1>4 DEF Occupied, BlankPair, Blank
<1>9. Front(P) = Front(pair) BY <1>0, <1>4, <1>7 DEF Front
<1>10. OneRun(P) BY <1>3, <1>4, <1>5, <1>6 DEF OneRun, Ambiguous
<1>11. \A s : Banked(P, s) => Banked(pair, s)
  BY <1>1, <1>4, <1>5 DEF Banked
<1> QED BY <1>4, <1>8, <1>9, <1>10, <1>11 DEF P

\* A record appended to the journal in front, with what the run reports left.
LEMMA AppendedFront ==
  ASSUME NEW pair \in Pair, Occupied(pair), OneRun(pair), NEW segment \in Segment,
         segment.root = Front(pair).root, segment.seed = Front(pair).seed,
         NEW P, P = [pair EXCEPT ![Authority(pair)].segment = segment]
  PROVE  /\ P \in Pair
         /\ Occupied(P)
         /\ Front(P) = segment
         /\ OneRun(P)
         /\ \A s : Banked(P, s) => s = segment \/ Banked(pair, s)
<1> DEFINE a == Authority(pair)
           b == Other(a)
<1>1. a \in BankIds /\ b \in BankIds /\ a # b /\ BankIds = {a, b}
  BY DEF Authority, Other, BankIds
<1>2. pair[a] \in Bank /\ pair[b] \in Bank \cup {Blank} BY FrontIsBanked, <1>1 DEF Pair
<1>3. P[a] = [pair[a] EXCEPT !.segment = segment] /\ P[b] = pair[b]
      /\ DOMAIN P = BankIds /\ P = [id \in BankIds |-> P[id]]
  BY <1>1 DEF Pair
<1>4. P[a] \in Bank /\ P[a].gen = pair[a].gen /\ P[a].segment = segment
  BY <1>2, <1>3 DEF Bank
<1>5. P \in Pair BY <1>1, <1>2, <1>3, <1>4 DEF Pair
<1>6. (a = "A" /\ b = "B") \/ (a = "B" /\ b = "A") BY Halves
<1>7. pair[a].gen \in Nat \ {0} BY <1>2 DEF Bank
<1>11. pair[a].segment = Front(pair) BY DEF Front
<1>14. pair[a].gen > pair[b].gen \/ (a = "B" /\ pair[a].gen >= pair[b].gen)
  <2>1. pair["A"].gen \in Nat /\ pair["B"].gen \in Nat
    BY <1>2, <1>6 DEF Bank, Blank
  <2> QED BY <1>6, <2>1 DEF Authority
<1>15. pair[b].gen \in Nat BY <1>2 DEF Bank, Blank
<1> HIDE DEF a, b
<1>8. Authority(P) = a BY <1>3, <1>4, <1>6, <1>7, <1>14, <1>15 DEF Authority
<1>9. Occupied(P)
  <2>1. BlankPair[a].gen = 0 BY <1>1 DEF BlankPair, Blank
  <2> QED BY <2>1, <1>4, <1>7 DEF Occupied
<1>10. Front(P) = segment BY <1>4, <1>8 DEF Front
<1>12. OneRun(P) BY <1>3, <1>4, <1>6, <1>11 DEF OneRun, Ambiguous
<1>13. \A s : Banked(P, s) => s = segment \/ Banked(pair, s)
  BY <1>1, <1>3, <1>4 DEF Banked
<1> QED BY <1>5, <1>9, <1>10, <1>12, <1>13

\* The half erase leaves nothing, or another segment of the same run.
LEMMA EraseCutFront ==
  ASSUME NEW pair \in Pair, Occupied(pair), OneRun(pair)
  PROVE  /\ EraseCutLeaves(pair) \in Pair
         /\ OneRun(EraseCutLeaves(pair))
         /\ \A s : Banked(EraseCutLeaves(pair), s) => Banked(pair, s)
         /\ Occupied(EraseCutLeaves(pair)) =>
              /\ Front(EraseCutLeaves(pair)).root = Front(pair).root
              /\ Front(EraseCutLeaves(pair)).seed = Front(pair).seed
<1> DEFINE P == EraseCutLeaves(pair)
<1>1. P \in Pair /\ P["A"] = Blank /\ P["B"] = pair["B"] /\ P["A"].gen = 0
  BY DEF EraseCutLeaves, Pair, BankIds, Blank
<1>2. pair["A"] \in Bank \cup {Blank} /\ pair["B"] \in Bank \cup {Blank}
  BY DEF Pair, BankIds
<1> HIDE DEF P
<1>3. OneRun(P)
  <2>1. ~Ambiguous(P) BY <1>1 DEF Ambiguous
  <2> QED BY <1>1, <2>1 DEF OneRun
<1>4. \A s : Banked(P, s) => Banked(pair, s) BY <1>1 DEF Banked, BankIds
<1>5. ASSUME Occupied(P)
      PROVE  Front(P).root = Front(pair).root /\ Front(P).seed = Front(pair).seed
  <2>1. P["B"] # Blank
    <3>1. SUFFICES ASSUME P["B"] = Blank PROVE P = BlankPair BY <1>5 DEF Occupied
    <3>2. \A id \in BankIds : P[id] = Blank BY <1>1, <3>1 DEF BankIds
    <3> QED BY <1>1, <3>2 DEF Pair, BlankPair
  <2>2. pair["B"] \in Bank /\ pair["B"].gen \in Nat \ {0} BY <1>1, <1>2, <2>1 DEF Bank
  <2>3. Front(P) = pair["B"].segment BY <1>1, <2>2 DEF Front, Authority
  <2>4. CASE pair["A"] = Blank
    <3>1. Front(pair) = pair["B"].segment BY <2>2, <2>4 DEF Front, Authority, Blank
    <3> QED BY <2>3, <3>1
  <2>5. CASE pair["A"] \in Bank
    BY <2>2, <2>3, <2>5 DEF OneRun, Front, Authority, Bank
  <2> QED BY <1>2, <2>4, <2>5
<1> QED BY <1>1, <1>3, <1>4, <1>5 DEF P

----------------------------------------------------------------------------
(* The inductive invariant.                                               *)

\* A segment starts with no more turns than its seed, and belongs to a run
\* spawned before now: a new run's id is in no bank.
Sound(segment) ==
  /\ segment.left <= segment.seed
  /\ segment.root[2] < spawnSeq

PairsSound ==
  \A i \in Slots :
    /\ OneRun(slots[i])
    /\ \A id \in BankIds :
         slots[i][id].gen # 0 => Sound(slots[i][id].segment)

HeldIn(i, root) == Occupied(slots[i]) /\ Front(slots[i]).root = root

OneSlot ==
  \A i, j \in Slots :
    Occupied(slots[i]) /\ HeldIn(j, Front(slots[i]).root) => i = j

\* What the request says of the ledger.
LedgerInv ==
  /\ \A g \in Goals :
       /\ ledger[g].status = "resting" => ledger[g] = Resting
       /\ ledger[g].status # "resting" =>
            /\ ledger[g].run \in Roots
            /\ GoalOf(ledger[g].run) = g
            /\ ledger[g].run[2] < spawnSeq
       /\ ledger[g].status = "running" =>
            request.kind \in {"spawn", "resume"} /\ request.run = ledger[g].run
  /\ request.kind = "none" => request = NoRequest
  /\ request.kind # "none" => request.run \in Roots
  /\ request.kind \in {"spawn", "resume"} =>
       /\ ledger[GoalOf(request.run)].status = "running"
       /\ ledger[GoalOf(request.run)].run = request.run
  /\ request.kind = "harvest" => ledger[GoalOf(request.run)] = Resting

SeedsInv ==
  \A g \in Goals, i \in Slots :
    HeldIn(i, ledger[g].run) => Front(slots[i]).seed = ledger[g].held

\* What a goal holds was granted at its spawn.
HeldInv == \A g \in Goals : ledger[g].status # "resting" => ledger[g].held \in Grants

\* A parked run's journal is open, so its slot is never one to reuse.
StoredInv ==
  /\ \A g \in Goals :
       ledger[g].status = "waiting" =>
         \E i \in Slots :
           HeldIn(i, ledger[g].run) /\ Front(slots[i]).journal = "open"
  /\ request.kind = "resume" => \E i \in Slots : HeldIn(i, request.run)

IInv ==
  /\ TypeOK
  /\ AgentSurvives
  /\ PairsSound
  /\ OneSlot
  /\ LedgerInv
  /\ HeldInv
  /\ SeedsInv
  /\ StoredInv

LEMMA RootParts ==
  ASSUME NEW root \in Roots
  PROVE  /\ GoalOf(root) \in Goals
         /\ root[2] \in 0 .. MaxSpawns - 1
         /\ root # NoRoot
  BY BoardAssumption DEF Roots, GoalOf, NoRoot

\* An arbitrary write to one slot keeps the invariant when the pair it leaves
\* is sound, holds no other slot's run and no seed but the ledger's, and does
\* not take away what a goal waits for.
LEMMA SlotWritten ==
  ASSUME IInv, NEW i \in Slots, NEW P \in Pair,
         slots' = [slots EXCEPT ![i] = P],
         OneRun(P),
         \A id \in BankIds : P[id].gen # 0 => Sound(P[id].segment),
         UNCHANGED <<ledger, spawnSeq, request, fault>>,
         boots' \in 0 .. MAX_SEGMENTS, letGo' \subseteq Roots,
         mishaps' \in 0 .. MaxMishaps,
         Occupied(P) => \A j \in Slots \ {i} : ~HeldIn(j, Front(P).root),
         Occupied(P) =>
           \A g \in Goals :
             ledger[g].run = Front(P).root => Front(P).seed = ledger[g].held,
         \A g \in Goals :
           ledger[g].status = "waiting" =>
             \E j \in Slots \ {i} :
               HeldIn(j, ledger[g].run) /\ Front(slots[j]).journal = "open",
         request.kind = "resume" =>
           \/ \E j \in Slots \ {i} : HeldIn(j, request.run)
           \/ Occupied(P) /\ Front(P).root = request.run
  PROVE  IInv'
<1> USE DEF IInv
<1>1. slots \in [Slots -> Pair] BY DEF TypeOK
<1>2. slots'[i] = P /\ \A j \in Slots \ {i} : slots'[j] = slots[j] BY <1>1
<1>3. TypeOK' BY <1>1 DEF TypeOK
<1>4. AgentSurvives' BY DEF AgentSurvives
<1>5. PairsSound'
  <2>1. \A segment : Sound(segment)' <=> Sound(segment) BY DEF Sound
  <2>2. ASSUME NEW j \in Slots
        PROVE  /\ OneRun(slots'[j])
               /\ \A id \in BankIds :
                    slots'[j][id].gen # 0 => Sound(slots'[j][id].segment)
    <3>1. CASE j = i BY <3>1, <1>2
    <3>2. CASE j # i BY <3>2, <1>2 DEF PairsSound
    <3> QED BY <3>1, <3>2
  <2> QED BY <2>2 DEF PairsSound, Sound, OneRun
<1>6. \A root : \A j \in Slots \ {i} : HeldIn(j, root)' <=> HeldIn(j, root)
  BY <1>2 DEF HeldIn
<1>7. \A root : HeldIn(i, root)' <=> Occupied(P) /\ Front(P).root = root
  BY <1>2 DEF HeldIn
<1>8. OneSlot'
  <2>1. SUFFICES ASSUME NEW j \in Slots, NEW k \in Slots, NEW root,
                        HeldIn(j, root)', HeldIn(k, root)'
                 PROVE  j = k
    BY DEF OneSlot, HeldIn
  <2>2. CASE j = i /\ k # i BY <2>1, <2>2, <1>6, <1>7
  <2>3. CASE j # i /\ k = i BY <2>1, <2>3, <1>6, <1>7
  <2>4. CASE j # i /\ k # i BY <2>1, <2>4, <1>6 DEF OneSlot, HeldIn
  <2> QED BY <2>2, <2>3, <2>4
<1>9. LedgerInv' /\ HeldInv' BY DEF LedgerInv, HeldInv
<1>10. SeedsInv'
  <2>1. SUFFICES ASSUME NEW g \in Goals, NEW j \in Slots, HeldIn(j, ledger[g].run)'
                 PROVE  Front(slots'[j]).seed = ledger[g].held
    BY DEF SeedsInv
  <2>2. CASE j = i BY <2>1, <2>2, <1>2, <1>7
  <2>3. CASE j # i BY <2>1, <2>3, <1>2, <1>6 DEF SeedsInv
  <2> QED BY <2>2, <2>3
<1>11. StoredInv'
  <2>1. ASSUME NEW g \in Goals, ledger[g].status = "waiting"
        PROVE  \E j \in Slots : HeldIn(j, ledger[g].run)' /\ Front(slots'[j]).journal = "open"
    BY <2>1, <1>2, <1>6
  <2>2. request.kind = "resume" => \E j \in Slots : HeldIn(j, request.run)'
    BY <1>6, <1>7
  <2> QED BY <2>1, <2>2 DEF StoredInv
<1> QED BY <1>3, <1>4, <1>5, <1>8, <1>9, <1>10, <1>11

\* No goal waits with the run a request names.
LEMMA WaitingApart ==
  ASSUME IInv, NEW g \in Goals, ledger[g].status = "waiting", request # NoRequest
  PROVE  ledger[g].run # request.run
<1>1. ledger[g].run \in Roots /\ GoalOf(ledger[g].run) = g BY DEF IInv, LedgerInv
<1>2. request.kind \in {"spawn", "resume", "harvest"} BY DEF IInv, TypeOK, LedgerInv
<1>3. SUFFICES ASSUME ledger[g].run = request.run PROVE FALSE OBVIOUS
<1>4. ledger[g].status \in {"running", "resting"}
  BY <1>1, <1>2, <1>3 DEF IInv, LedgerInv, Resting
<1> QED BY <1>4

\* A write to the slot of the request's run, by its driver.
LEMMA SlotDriven ==
  ASSUME IInv, NEW i \in Slots, NEW journal, Driving(i, journal), NEW P \in Pair,
         slots' = [slots EXCEPT ![i] = P],
         Occupied(P), OneRun(P),
         Front(P).root = Front(slots[i]).root, Front(P).seed = Front(slots[i]).seed,
         Sound(Front(P)),
         \A s : Banked(P, s) => s = Front(P) \/ Banked(slots[i], s),
         UNCHANGED <<ledger, spawnSeq, request, fault>>,
         boots' \in 0 .. MAX_SEGMENTS, letGo' \subseteq Roots,
         mishaps' \in 0 .. MaxMishaps
  PROVE  IInv'
<1>1. Occupied(slots[i]) /\ Front(slots[i]).root = request.run /\ request # NoRequest
  BY DEF Driving, IsFirst, Holding
<1>2. \A id \in BankIds : P[id].gen # 0 => Sound(P[id].segment)
  <2>1. SUFFICES ASSUME NEW id \in BankIds, P[id].gen # 0 PROVE Sound(P[id].segment)
    OBVIOUS
  <2>2. P[id].segment = Front(P) \/ Banked(slots[i], P[id].segment)
    BY <2>1 DEF Banked
  <2> QED BY <2>2 DEF IInv, PairsSound, Banked
<1>3. \A j \in Slots \ {i} : ~HeldIn(j, Front(P).root)
  BY <1>1 DEF IInv, OneSlot
<1>4. \A g \in Goals : ledger[g].run = Front(P).root => Front(P).seed = ledger[g].held
  BY <1>1 DEF IInv, SeedsInv, HeldIn
<1>5. ASSUME NEW g \in Goals, ledger[g].status = "waiting"
      PROVE  \E j \in Slots \ {i} :
               HeldIn(j, ledger[g].run) /\ Front(slots[j]).journal = "open"
  <2>1. PICK j \in Slots : HeldIn(j, ledger[g].run) /\ Front(slots[j]).journal = "open"
    BY <1>5 DEF IInv, StoredInv
  <2>2. j # i BY <2>1, <1>1, <1>5, WaitingApart DEF HeldIn
  <2> QED BY <2>1, <2>2
<1> QED BY <1>1, <1>2, <1>3, <1>4, <1>5, SlotWritten

----------------------------------------------------------------------------
(* Steps that write no slot.                                              *)

LEMMA SlotsUntouched ==
  ASSUME IInv, UNCHANGED slots, spawnSeq' \in Nat, spawnSeq' >= spawnSeq
  PROVE  PairsSound' /\ OneSlot' /\ (\A root : \A i \in Slots : HeldIn(i, root)' <=> HeldIn(i, root))
<1>1. OneSlot' BY DEF IInv, OneSlot, HeldIn
<1>2. ASSUME NEW i \in Slots, NEW id \in BankIds, slots[i][id].gen # 0
      PROVE  Sound(slots[i][id].segment)'
  <2>1. slots[i][id] \in Bank BY <1>2 DEF IInv, TypeOK, Pair, Blank
  <2>2. slots[i][id].segment.root \in Roots BY <2>1 DEF Bank, Segment
  <2>3. slots[i][id].segment.root[2] \in Nat BY <2>2, RootParts
  <2>4. spawnSeq \in Nat BY DEF IInv, TypeOK
  <2>5. Sound(slots[i][id].segment) BY <1>2 DEF IInv, PairsSound
  <2> QED BY <2>3, <2>4, <2>5 DEF Sound
<1>3. PairsSound' BY <1>2 DEF IInv, PairsSound, Sound
<1> QED BY <1>1, <1>3 DEF HeldIn

\* A new run's id is in no slot.
LEMMA NewRunUnheld ==
  ASSUME IInv, NEW i \in Slots, NEW root, HeldIn(i, root)
  PROVE  root \in Roots /\ root[2] < spawnSeq
<1>1. slots[i] \in Pair BY DEF IInv, TypeOK
<1>2. Front(slots[i]) \in Segment /\ Banked(slots[i], Front(slots[i]))
  BY <1>1, FrontIsBanked DEF HeldIn
<1>3. Sound(Front(slots[i])) BY <1>2 DEF IInv, PairsSound, Banked
<1> QED BY <1>2, <1>3 DEF HeldIn, Segment, Sound

LEMMA SpawnInv ==
  ASSUME IInv, NEW g \in Goals, Spawn(g)
  PROVE  IInv'
<1> DEFINE run == <<g, spawnSeq>>
<1>1. PICK grant \in Grants :
        ledger' = [ledger EXCEPT ![g] =
                     [status |-> "running", run |-> run, held |-> grant]]
  BY DEF Spawn, RunId
<1>2. /\ request = NoRequest /\ request' = [kind |-> "spawn", run |-> run]
      /\ spawnSeq < MaxSpawns /\ spawnSeq' = spawnSeq + 1 /\ ~fault
      /\ UNCHANGED <<slots, boots, letGo, mishaps, fault>>
  BY DEF Spawn, RunId
<1>3. spawnSeq \in Nat /\ spawnSeq \in 0 .. MaxSpawns - 1 /\ grant \in Nat
  BY <1>2, BoardAssumption DEF IInv, TypeOK
<1>4. run \in Roots /\ GoalOf(run) = g /\ run[2] = spawnSeq
  BY <1>3 DEF Roots, GoalOf
<1>5. ledger'[g] = [status |-> "running", run |-> run, held |-> grant]
      /\ \A h \in Goals \ {g} : ledger'[h] = ledger[h]
  BY <1>1 DEF IInv, TypeOK
<1>6. PairsSound' /\ OneSlot' /\ \A root : \A i \in Slots : HeldIn(i, root)' <=> HeldIn(i, root)
  BY <1>2, <1>3, SlotsUntouched
<1>7. TypeOK' BY <1>1, <1>2, <1>3, <1>4, BoardAssumption DEF IInv, TypeOK
<1>8. AgentSurvives' BY <1>2 DEF AgentSurvives
<1>9. \A h \in Goals : ledger[h].status # "running"
  BY <1>2 DEF IInv, LedgerInv, NoRequest
<1>10. LedgerInv'
  <2>1. ASSUME NEW h \in Goals
        PROVE  /\ ledger'[h].status = "resting" => ledger'[h] = Resting
               /\ ledger'[h].status # "resting" =>
                    /\ ledger'[h].run \in Roots
                    /\ GoalOf(ledger'[h].run) = h
                    /\ ledger'[h].run[2] < spawnSeq'
               /\ ledger'[h].status = "running" =>
                    request'.kind \in {"spawn", "resume"} /\ request'.run = ledger'[h].run
    <3>1. CASE h = g BY <3>1, <1>2, <1>3, <1>4, <1>5
    <3>2. CASE h # g
      <4>1. ledger'[h] = ledger[h] BY <3>2, <1>5
      <4>2. ledger[h].status # "resting" =>
              ledger[h].run \in Roots /\ GoalOf(ledger[h].run) = h
              /\ ledger[h].run[2] < spawnSeq
        BY DEF IInv, LedgerInv
      <4>3. ledger[h].run \in Roots => ledger[h].run[2] \in Nat BY RootParts
      <4>4. ledger[h].status = "resting" => ledger[h] = Resting BY DEF IInv, LedgerInv
      <4> QED BY <4>1, <4>2, <4>3, <4>4, <1>2, <1>3, <1>9
    <3> QED BY <3>1, <3>2
  <2>2. request'.kind = "spawn" /\ request'.run \in Roots
        /\ ledger'[GoalOf(request'.run)].status = "running"
        /\ ledger'[GoalOf(request'.run)].run = request'.run
    BY <1>2, <1>4, <1>5
  <2> QED BY <2>1, <2>2 DEF LedgerInv, GoalOf, Resting, NoRequest
<1>11. SeedsInv'
  <2>1. SUFFICES ASSUME NEW h \in Goals, NEW i \in Slots, HeldIn(i, ledger[h].run)'
                 PROVE  Front(slots[i]).seed = ledger'[h].held
    BY <1>2 DEF SeedsInv
  <2>2. HeldIn(i, ledger'[h].run) BY <2>1, <1>2 DEF HeldIn
  <2>3. CASE h = g
    <3>1. HeldIn(i, run) BY <2>2, <2>3, <1>5
    <3> QED BY <3>1, <1>3, <1>4, NewRunUnheld
  <2>4. CASE h # g BY <2>2, <2>4, <1>5 DEF IInv, SeedsInv
  <2> QED BY <2>3, <2>4
<1>12. StoredInv'
  <2>1. ASSUME NEW h \in Goals, ledger'[h].status = "waiting"
        PROVE  \E i \in Slots :
                 HeldIn(i, ledger[h].run)' /\ Front(slots[i])'.journal = "open"
    <3>1. h # g /\ ledger'[h] = ledger[h] BY <2>1, <1>5
    <3>2. PICK i \in Slots : HeldIn(i, ledger[h].run) /\ Front(slots[i]).journal = "open"
      BY <2>1, <3>1 DEF IInv, StoredInv
    <3> QED BY <3>1, <3>2, <1>2 DEF HeldIn
  <2> QED BY <2>1, <1>2 DEF StoredInv
<1>13. HeldInv' BY <1>5 DEF IInv, HeldInv
<1> QED BY <1>6, <1>7, <1>8, <1>10, <1>11, <1>12, <1>13 DEF IInv

LEMMA ResumeInv ==
  ASSUME IInv, NEW g \in Goals, Resume(g)
  PROVE  IInv'
<1>1. /\ request = NoRequest /\ request' = [kind |-> "resume", run |-> ledger[g].run]
      /\ ledger[g].status = "waiting" /\ ledger' = [ledger EXCEPT ![g].status = "running"]
      /\ UNCHANGED <<spawnSeq, slots, boots, letGo, mishaps, fault>>
  BY DEF Resume
<1>2. ledger[g].run \in Roots /\ GoalOf(ledger[g].run) = g /\ ledger[g].run[2] < spawnSeq
  BY <1>1 DEF IInv, LedgerInv
<1>3. /\ ledger'[g].status = "running" /\ ledger'[g].run = ledger[g].run
      /\ ledger'[g].held = ledger[g].held
      /\ \A h \in Goals \ {g} : ledger'[h] = ledger[h]
  BY <1>1 DEF IInv, TypeOK
<1>4. TypeOK' BY <1>1, <1>2 DEF IInv, TypeOK
<1>5. PairsSound' /\ OneSlot' /\ \A root : \A i \in Slots : HeldIn(i, root)' <=> HeldIn(i, root)
  BY <1>1, SlotsUntouched DEF IInv, TypeOK
<1>6. \A h \in Goals : ledger[h].status # "running"
  BY <1>1 DEF IInv, LedgerInv, NoRequest
<1>7. LedgerInv'
  <2>1. ASSUME NEW h \in Goals
        PROVE  /\ ledger'[h].status = "resting" => ledger'[h] = Resting
               /\ ledger'[h].status # "resting" =>
                    /\ ledger'[h].run \in Roots
                    /\ GoalOf(ledger'[h].run) = h
                    /\ ledger'[h].run[2] < spawnSeq'
               /\ ledger'[h].status = "running" =>
                    request'.kind \in {"spawn", "resume"} /\ request'.run = ledger'[h].run
    <3>1. CASE h = g BY <3>1, <1>1, <1>2, <1>3
    <3>2. CASE h # g BY <3>2, <1>1, <1>3, <1>6 DEF IInv, LedgerInv
    <3> QED BY <3>1, <3>2
  <2>2. /\ request'.kind = "resume" /\ request'.run \in Roots
        /\ ledger'[GoalOf(request'.run)].status = "running"
        /\ ledger'[GoalOf(request'.run)].run = request'.run
    BY <1>1, <1>2, <1>3
  <2> QED BY <2>1, <2>2 DEF LedgerInv, GoalOf, Resting, NoRequest
<1>8. SeedsInv'
  <2>1. \A h \in Goals : ledger'[h].run = ledger[h].run /\ ledger'[h].held = ledger[h].held
    BY <1>3
  <2> QED BY <2>1, <1>1 DEF IInv, SeedsInv, HeldIn
<1>9. StoredInv'
  <2>1. PICK j \in Slots : HeldIn(j, ledger[g].run)
    BY <1>1 DEF IInv, StoredInv
  <2>2. ASSUME NEW h \in Goals, ledger'[h].status = "waiting"
        PROVE  \E i \in Slots :
                 HeldIn(i, ledger[h].run)' /\ Front(slots[i])'.journal = "open"
    <3>1. h # g /\ ledger'[h] = ledger[h] BY <2>2, <1>3
    <3>2. PICK i \in Slots : HeldIn(i, ledger[h].run) /\ Front(slots[i]).journal = "open"
      BY <2>2, <3>1 DEF IInv, StoredInv
    <3> QED BY <3>1, <3>2, <1>1 DEF HeldIn
  <2>3. HeldIn(j, request.run)' BY <2>1, <1>1 DEF HeldIn
  <2> QED BY <2>2, <2>3 DEF StoredInv
<1>10. AgentSurvives' BY <1>1 DEF IInv, AgentSurvives
<1>11. HeldInv' BY <1>1, <1>3 DEF IInv, HeldInv
<1> QED BY <1>4, <1>5, <1>7, <1>8, <1>9, <1>10, <1>11 DEF IInv

\* The facts an outstanding request adds.
LEMMA RequestFacts ==
  ASSUME IInv, request # NoRequest
  PROVE  /\ request.run \in Roots
         /\ GoalOf(request.run) \in Goals
         /\ request.kind \in {"spawn", "resume", "harvest"}
         /\ request.kind # "harvest" =>
              /\ ledger[GoalOf(request.run)].status = "running"
              /\ ledger[GoalOf(request.run)].run = request.run
         /\ request.kind = "harvest" => ledger[GoalOf(request.run)] = Resting
<1>1. request.kind \in {"spawn", "resume", "harvest"} BY DEF IInv, TypeOK, LedgerInv
<1>2. request.run \in Roots BY <1>1 DEF IInv, LedgerInv
<1> QED BY <1>1, <1>2, RootParts DEF IInv, LedgerInv

\* Every answer but a parked run: the goal is let go of, or only the harvest
\* goes on.
LEMMA SettledInv ==
  ASSUME IInv, request # NoRequest, Settled, UNCHANGED fault, letGo' \subseteq Roots,
         NEW next, Answered(next),
         \/ next = NoRequest
         \/ /\ next = [kind |-> "harvest", run |-> request.run]
            /\ request.kind # "harvest"
  PROVE  IInv'
<1> DEFINE g == GoalOf(request.run)
<1>1. request' = next /\ boots' = 0 /\ UNCHANGED <<spawnSeq, slots, mishaps, fault>>
  BY DEF Answered
<1>2. g \in Goals /\ request.run \in Roots BY RequestFacts
<1>3. ledger'[g] = Resting /\ (\A h \in Goals \ {g} : ledger'[h] = ledger[h])
      /\ DOMAIN ledger' = Goals /\ ledger' = [h \in Goals |-> ledger'[h]]
  <2>1. ledger = [h \in Goals |-> ledger[h]] /\ DOMAIN ledger = Goals BY DEF IInv, TypeOK
  <2>2. CASE request.kind = "harvest" BY <2>1, <2>2, RequestFacts DEF Settled
  <2>3. CASE request.kind # "harvest" BY <2>1, <2>3, <1>2 DEF Settled
  <2> QED BY <2>2, <2>3
<1>4. TypeOK'
  <2>1. \A h \in Goals : ledger'[h] \in [status : {"resting", "running", "waiting"},
                                          run : Roots \cup {NoRoot}, held : Nat]
    BY <1>3 DEF IInv, TypeOK, Resting
  <2>2. ledger' \in [Goals -> [status : {"resting", "running", "waiting"},
                               run : Roots \cup {NoRoot}, held : Nat]]
    BY <2>1, <1>3
  <2>3. request' \in [kind : {"none", "spawn", "resume", "harvest"},
                      run : Roots \cup {NoRoot}]
    BY <1>1, <1>2 DEF NoRequest
  <2> QED BY <2>2, <2>3, <1>1, BoardAssumption DEF IInv, TypeOK
<1>5. PairsSound' /\ OneSlot' /\ \A root : \A i \in Slots : HeldIn(i, root)' <=> HeldIn(i, root)
  BY <1>1, SlotsUntouched DEF IInv, TypeOK
<1>6. \A h \in Goals \ {g} : ledger[h].status # "running"
  <2>1. SUFFICES ASSUME NEW h \in Goals \ {g}, ledger[h].status = "running" PROVE FALSE
    OBVIOUS
  <2>2. request.run = ledger[h].run /\ GoalOf(ledger[h].run) = h
    BY <2>1 DEF IInv, LedgerInv
  <2> QED BY <2>1, <2>2
<1> HIDE DEF g
<1>7. LedgerInv'
  <2>1. ASSUME NEW h \in Goals
        PROVE  /\ ledger'[h].status = "resting" => ledger'[h] = Resting
               /\ ledger'[h].status # "resting" =>
                    /\ ledger'[h].run \in Roots
                    /\ GoalOf(ledger'[h].run) = h
                    /\ ledger'[h].run[2] < spawnSeq'
               /\ ledger'[h].status # "running"
    <3>1. CASE h = g BY <3>1, <1>3 DEF Resting
    <3>2. CASE h # g BY <3>2, <1>1, <1>3, <1>6 DEF IInv, LedgerInv
    <3> QED BY <3>1, <3>2
  <2>2. \/ request' = NoRequest
        \/ request'.kind = "harvest" /\ request'.run = request.run
    BY <1>1
  <2>3. request'.kind # "none" => request'.kind = "harvest" /\ request'.run = request.run
    BY <2>2 DEF NoRequest
  <2>4. ledger'[GoalOf(request.run)] = Resting BY <1>3 DEF g
  <2>5. request'.kind = "none" => request' = NoRequest BY <2>2
  <2> QED BY <2>1, <2>3, <2>4, <2>5, <1>2 DEF LedgerInv, GoalOf, Resting, NoRequest
<1>8. SeedsInv'
  <2>1. SUFFICES ASSUME NEW h \in Goals, NEW i \in Slots, HeldIn(i, ledger[h].run)'
                 PROVE  Front(slots[i]).seed = ledger'[h].held
    BY <1>1 DEF SeedsInv
  <2>2. HeldIn(i, ledger'[h].run) BY <2>1, <1>1 DEF HeldIn
  <2>3. h # g BY <2>2, <1>3, NewRunUnheld, RootParts DEF Resting
  <2> QED BY <2>2, <2>3, <1>3 DEF IInv, SeedsInv
<1>9. StoredInv'
  <2>1. ASSUME NEW h \in Goals, ledger'[h].status = "waiting"
        PROVE  \E i \in Slots :
                 HeldIn(i, ledger[h].run)' /\ Front(slots[i])'.journal = "open"
    <3>1. h # g /\ ledger'[h] = ledger[h] BY <2>1, <1>3 DEF Resting
    <3>2. PICK i \in Slots : HeldIn(i, ledger[h].run) /\ Front(slots[i]).journal = "open"
      BY <2>1, <3>1 DEF IInv, StoredInv
    <3> QED BY <3>1, <3>2, <1>1 DEF HeldIn
  <2>2. request'.kind # "resume" BY <1>1 DEF NoRequest
  <2> QED BY <2>1, <2>2 DEF StoredInv
<1>10. AgentSurvives' BY <1>1 DEF IInv, AgentSurvives
<1>11. HeldInv' BY <1>3 DEF IInv, HeldInv, Resting
<1> QED BY <1>4, <1>5, <1>7, <1>8, <1>9, <1>10, <1>11 DEF IInv

LEMMA AnswerParkedInv ==
  ASSUME IInv, NEW i \in Slots, AnswerParked(i)
  PROVE  IInv'
<1> DEFINE g == GoalOf(request.run)
<1>1. /\ request # NoRequest /\ request.kind # "harvest"
      /\ HeldIn(i, request.run) /\ Front(slots[i]).journal = "open"
  BY DEF AnswerParked, Driving, IsFirst, Holding, HeldIn
<1>2. /\ request' = NoRequest /\ boots' = 0
      /\ ledger' = [ledger EXCEPT ![g].status = "waiting"]
      /\ UNCHANGED <<spawnSeq, slots, letGo, mishaps, fault>>
  BY DEF AnswerParked, Answered
<1>3. g \in Goals /\ ledger[g].status = "running" /\ ledger[g].run = request.run
  BY <1>1, RequestFacts
<1> HIDE DEF g
<1>4. /\ ledger'[g].status = "waiting" /\ ledger'[g].run = ledger[g].run
      /\ ledger'[g].held = ledger[g].held
      /\ \A h \in Goals \ {g} : ledger'[h] = ledger[h]
  BY <1>2, <1>3 DEF IInv, TypeOK
<1>5. TypeOK' BY <1>2, <1>3, BoardAssumption DEF IInv, TypeOK, NoRequest
<1>6. PairsSound' /\ OneSlot' /\ \A root : \A j \in Slots : HeldIn(j, root)' <=> HeldIn(j, root)
  BY <1>2, SlotsUntouched DEF IInv, TypeOK
<1>7. \A h \in Goals \ {g} : ledger[h].status # "running"
  <2>1. SUFFICES ASSUME NEW h \in Goals \ {g}, ledger[h].status = "running" PROVE FALSE
    OBVIOUS
  <2>2. request.run = ledger[h].run /\ GoalOf(ledger[h].run) = h
    BY <2>1 DEF IInv, LedgerInv
  <2> QED BY <2>1, <2>2 DEF g
<1>8. LedgerInv'
  <2>1. ASSUME NEW h \in Goals
        PROVE  /\ ledger'[h].status = "resting" => ledger'[h] = Resting
               /\ ledger'[h].status # "resting" =>
                    /\ ledger'[h].run \in Roots
                    /\ GoalOf(ledger'[h].run) = h
                    /\ ledger'[h].run[2] < spawnSeq'
               /\ ledger'[h].status # "running"
    <3>1. CASE h = g BY <3>1, <1>2, <1>3, <1>4 DEF IInv, LedgerInv
    <3>2. CASE h # g BY <3>2, <1>2, <1>4, <1>7 DEF IInv, LedgerInv
    <3> QED BY <3>1, <3>2
  <2> QED BY <2>1, <1>2 DEF LedgerInv, GoalOf, Resting, NoRequest
<1>9. SeedsInv'
  <2>1. \A h \in Goals : ledger'[h].run = ledger[h].run /\ ledger'[h].held = ledger[h].held
    BY <1>4
  <2> QED BY <2>1, <1>2 DEF IInv, SeedsInv, HeldIn
<1>10. HeldInv' BY <1>3, <1>4 DEF IInv, HeldInv
<1>11. StoredInv'
  <2>1. ASSUME NEW h \in Goals, ledger'[h].status = "waiting"
        PROVE  \E j \in Slots :
                 HeldIn(j, ledger[h].run)' /\ Front(slots[j])'.journal = "open"
    <3>1. CASE h = g BY <3>1, <1>1, <1>2, <1>3, <1>4 DEF HeldIn
    <3>2. CASE h # g
      <4>1. PICK j \in Slots : HeldIn(j, ledger[h].run) /\ Front(slots[j]).journal = "open"
        BY <2>1, <3>2, <1>4 DEF IInv, StoredInv
      <4> QED BY <3>2, <4>1, <1>2, <1>4 DEF HeldIn
    <3> QED BY <3>1, <3>2
  <2> QED BY <2>1, <1>2 DEF StoredInv, NoRequest
<1>12. AgentSurvives' BY <1>2 DEF IInv, AgentSurvives
<1> QED BY <1>5, <1>6, <1>8, <1>9, <1>10, <1>11, <1>12 DEF IInv

LEMMA AnswerSettledInv ==
  ASSUME IInv, NEW i \in Slots, AnswerSettled(i)
  PROVE  IInv'
<1>1. /\ request # NoRequest /\ request.kind # "harvest"
      /\ HeldIn(i, request.run) /\ Occupied(slots[i])
  BY DEF AnswerSettled, Driving, IsFirst, Holding, HeldIn
<1>2. GoalOf(request.run) \in Goals /\ ledger[GoalOf(request.run)].run = request.run
  BY <1>1, RequestFacts
<1>3. Front(slots[i]).seed = ledger[GoalOf(request.run)].held
  BY <1>1, <1>2 DEF IInv, SeedsInv
<1>4. Front(slots[i]).left <= Front(slots[i]).seed
  <2>1. Banked(slots[i], Front(slots[i])) BY <1>1, FrontIsBanked DEF IInv, TypeOK
  <2> QED BY <2>1 DEF IInv, PairsSound, Banked, Sound
<1>5. Settled /\ UNCHANGED <<fault, letGo>> BY <1>3, <1>4 DEF AnswerSettled
<1>6. PICK next \in {NoRequest, [kind |-> "harvest", run |-> request.run]} : Answered(next)
  BY DEF AnswerSettled
<1>7. letGo' \subseteq Roots BY <1>5 DEF IInv, TypeOK
<1> QED BY <1>1, <1>5, <1>6, <1>7, SettledInv

LEMMA OtherAnswersInv ==
  ASSUME IInv,
         \/ \E i \in Slots : AnswerHarvest(i) \/ AnswerFailed(i)
         \/ GiveUp \/ Refuse
  PROVE  IInv'
<1>1. request # NoRequest /\ Settled /\ Answered(NoRequest) /\ UNCHANGED fault
  <2>1. CASE \E i \in Slots : AnswerHarvest(i)
    BY <2>1 DEF AnswerHarvest, Driving, Settled
  <2>2. CASE \E i \in Slots : AnswerFailed(i) BY <2>2 DEF AnswerFailed, Driving
  <2>3. CASE GiveUp BY <2>3 DEF GiveUp
  <2>4. CASE Refuse BY <2>4 DEF Refuse, Unplaced
  <2> QED BY <2>1, <2>2, <2>3, <2>4
<1>2. letGo \subseteq Roots /\ request.run \in Roots BY <1>1, RequestFacts DEF IInv, TypeOK
<1>3. letGo' = letGo \/ letGo' = letGo \cup {request.run}
  BY DEF AnswerHarvest, AnswerFailed, GiveUp, Refuse
<1> QED BY <1>1, <1>2, <1>3, SettledInv

LEMMA QuietInv ==
  ASSUME IInv, Reset \/ UNCHANGED vars
  PROVE  IInv'
<1>1. /\ UNCHANGED <<ledger, spawnSeq, request, fault, slots, letGo>>
      /\ boots' \in 0 .. MAX_SEGMENTS /\ mishaps' \in 0 .. MaxMishaps
  BY BoardAssumption DEF Reset, Happens, vars, supervisorVars, IInv, TypeOK
<1>2. TypeOK' BY <1>1 DEF IInv, TypeOK
<1>3. PairsSound' /\ OneSlot' /\ \A root : \A j \in Slots : HeldIn(j, root)' <=> HeldIn(j, root)
  BY <1>1, SlotsUntouched DEF IInv, TypeOK
<1>4. LedgerInv' /\ HeldInv' /\ AgentSurvives'
  BY <1>1 DEF IInv, LedgerInv, HeldInv, AgentSurvives
<1>5. SeedsInv' /\ StoredInv' BY <1>1 DEF IInv, SeedsInv, StoredInv, HeldIn
<1> QED BY <1>2, <1>3, <1>4, <1>5 DEF IInv

----------------------------------------------------------------------------
(* Steps that commission a slot.                                          *)

\* A slot to reuse is no waiting goal's.
LEMMA VacancyApart ==
  ASSUME IInv, NEW i \in Slots, Placing(i), NEW g \in Goals, ledger[g].status = "waiting"
  PROVE  \E j \in Slots \ {i} :
           HeldIn(j, ledger[g].run) /\ Front(slots[j]).journal = "open"
<1>1. PICK j \in Slots : HeldIn(j, ledger[g].run) /\ Front(slots[j]).journal = "open"
  BY DEF IInv, StoredInv
<1>2. ledger[g].run \in Roots /\ GoalOf(ledger[g].run) = g BY DEF IInv, LedgerInv
<1>3. ledger[GoalOf(request.run)].status = "running"
  BY RequestFacts DEF Placing, Unplaced
<1>4. CASE i \in OfGoal(GoalOf(request.run))
  <2>1. GoalOf(Front(slots[i]).root) # g BY <1>3, <1>4 DEF OfGoal
  <2> QED BY <1>1, <1>2, <2>1 DEF HeldIn
<1>5. CASE i \in Empty BY <1>1, <1>5 DEF HeldIn, Empty
<1>6. CASE i \in Done BY <1>1, <1>6 DEF Done, Concluded
<1> QED BY <1>4, <1>5, <1>6 DEF Placing, IsVacancy, IsFirst

LEMMA CommissionInv ==
  ASSUME IInv, NEW i \in Slots, Commission(i)
  PROVE  IInv'
<1> DEFINE g == GoalOf(request.run)
           segment == Committed(request.run, ledger[g].held)
<1>1. /\ Placing(i) /\ request # NoRequest /\ request.kind = "spawn"
      /\ Holding(request.run) = {}
      /\ slots' = [slots EXCEPT ![i] = Commissioned(segment)]
      /\ UNCHANGED <<ledger, spawnSeq, request, fault, boots, letGo, mishaps>>
  BY DEF Commission, Placing, Unplaced, supervisorVars
<1>2. g \in Goals /\ request.run \in Roots /\ ledger[g].run = request.run
      /\ ledger[g].status = "running"
  BY <1>1, RequestFacts
<1>3. segment \in Segment /\ segment.root = request.run
      /\ segment.seed = ledger[g].held /\ segment.left = ledger[g].held
  BY <1>2 DEF Committed, Segment, Journals, IInv, HeldInv, TypeOK
<1>4. Sound(segment)
  <2>1. ledger[g].run[2] < spawnSeq BY <1>2 DEF IInv, LedgerInv
  <2>2. ledger[g].held \in Nat BY <1>2 DEF IInv, TypeOK
  <2> HIDE DEF segment, g
  <2> QED BY <1>2, <1>3, <2>1, <2>2 DEF Sound
<1> DEFINE P == Commissioned(segment)
<1>5. /\ P \in Pair /\ Occupied(P) /\ Front(P) = segment /\ OneRun(P)
      /\ \A s : Banked(P, s) => s = segment
  BY <1>3, CommissionedFront
<1>6. \A h \in Goals : ledger[h].run = request.run => ledger[h] = ledger[g]
  <2>1. SUFFICES ASSUME NEW h \in Goals, ledger[h].run = request.run PROVE h = g
    OBVIOUS
  <2>2. ledger[h].status # "resting" BY <1>2, <2>1, RootParts DEF IInv, LedgerInv, Resting
  <2> QED BY <2>1, <2>2 DEF IInv, LedgerInv
<1> HIDE DEF P, segment
<1>7. \A id \in BankIds : P[id].gen # 0 => Sound(P[id].segment)
  BY <1>4, <1>5 DEF Banked
<1>8. \A j \in Slots \ {i} : ~HeldIn(j, Front(P).root)
  BY <1>1, <1>3, <1>5 DEF Holding, HeldIn
<1>9. \A h \in Goals : ledger[h].run = Front(P).root => Front(P).seed = ledger[h].held
  BY <1>3, <1>5, <1>6
<1>10. slots' = [slots EXCEPT ![i] = P] BY <1>1 DEF P
<1>11. boots' \in 0 .. MAX_SEGMENTS /\ letGo' \subseteq Roots /\ mishaps' \in 0 .. MaxMishaps
  BY <1>1 DEF IInv, TypeOK
<1> QED BY <1>1, <1>5, <1>7, <1>8, <1>9, <1>10, <1>11, VacancyApart, SlotWritten

\* What a reset in the first install leaves.
LEMMA CommissionCutsInv ==
  ASSUME IInv, NEW i \in Slots, CommissionCut(i) \/ EraseCut(i)
  PROVE  IInv'
<1>1. /\ Placing(i) /\ request.kind = "spawn"
      /\ UNCHANGED <<ledger, spawnSeq, request, fault, boots>>
  BY DEF CommissionCut, EraseCut, Placing, supervisorVars
<1>2. slots[i] \in Pair /\ boots' \in 0 .. MAX_SEGMENTS /\ letGo \subseteq Roots
      /\ mishaps' \in 0 .. MaxMishaps
  BY <1>1, BoardAssumption DEF IInv, TypeOK, CommissionCut, EraseCut, Happens
<1>3. CASE CommissionCut(i)
  <2>1. slots' = [slots EXCEPT ![i] = BlankPair] /\ letGo' = letGo
    BY <1>3 DEF CommissionCut, CommissionCutLeaves
  <2>2. \A id \in BankIds : BlankPair[id].gen = 0 BY DEF BlankPair, Blank
  <2> QED BY <2>1, <2>2, <1>1, <1>2, BlankPairType, VacancyApart, SlotWritten
<1>4. CASE EraseCut(i)
  <2> DEFINE P == EraseCutLeaves(slots[i])
  <2>1. slots' = [slots EXCEPT ![i] = P] /\ Occupied(slots[i])
        /\ letGo' = letGo \cup {Front(slots[i]).root}
    BY <1>4 DEF EraseCut
  <2>2. OneRun(slots[i]) BY DEF IInv, PairsSound
  <2>3. /\ P \in Pair /\ OneRun(P) /\ \A s : Banked(P, s) => Banked(slots[i], s)
        /\ Occupied(P) => Front(P).root = Front(slots[i]).root
                          /\ Front(P).seed = Front(slots[i]).seed
    BY <1>2, <2>1, <2>2, EraseCutFront
  <2>4. Front(slots[i]).root \in Roots BY <1>2, <2>1, FrontIsBanked DEF Segment
  <2> HIDE DEF P
  <2>5. \A id \in BankIds : P[id].gen # 0 => Sound(P[id].segment)
    BY <2>3 DEF Banked, IInv, PairsSound
  <2>6. Occupied(P) => \A j \in Slots \ {i} : ~HeldIn(j, Front(P).root)
    BY <2>1, <2>3 DEF IInv, OneSlot
  <2>7. Occupied(P) =>
          \A g \in Goals : ledger[g].run = Front(P).root => Front(P).seed = ledger[g].held
    BY <2>1, <2>3 DEF IInv, SeedsInv, HeldIn
  <2> QED BY <1>1, <1>2, <2>1, <2>3, <2>4, <2>5, <2>6, <2>7, VacancyApart, SlotWritten
<1> QED BY <1>3, <1>4

----------------------------------------------------------------------------
(* Steps that drive the run.                                              *)

LEMMA DrivenFacts ==
  ASSUME IInv, NEW i \in Slots, NEW journal, Driving(i, journal)
  PROVE  /\ slots[i] \in Pair /\ Occupied(slots[i]) /\ OneRun(slots[i])
         /\ Front(slots[i]) \in Segment /\ Sound(Front(slots[i]))
         /\ Front(slots[i]).journal = journal
         /\ boots \in 0 .. MAX_SEGMENTS - 1
<1>1. slots[i] \in Pair /\ Occupied(slots[i]) /\ OneRun(slots[i])
      /\ Front(slots[i]).journal = journal
  BY DEF Driving, IInv, TypeOK, PairsSound
<1>2. Front(slots[i]) \in Segment /\ Banked(slots[i], Front(slots[i]))
  BY <1>1, FrontIsBanked
<1>3. Sound(Front(slots[i])) BY <1>2 DEF IInv, PairsSound, Banked
<1>4. boots \in 0 .. MAX_SEGMENTS - 1
  BY BoardAssumption DEF Driving, IInv, TypeOK
<1> QED BY <1>1, <1>2, <1>3, <1>4

\* A segment of the same run that grants no more.
Onward(segment, turns, journal) ==
  [segment EXCEPT !.left = turns, !.journal = journal]

LEMMA OnwardSound ==
  ASSUME NEW segment \in Segment, Sound(segment),
         NEW turns \in Nat, turns <= segment.left, NEW journal \in Journals
  PROVE  /\ Onward(segment, turns, journal) \in Segment
         /\ Sound(Onward(segment, turns, journal))
         /\ Onward(segment, turns, journal).root = segment.root
         /\ Onward(segment, turns, journal).seed = segment.seed
         /\ Onward(segment, turns, journal).left = turns
<1> DEFINE onward == Onward(segment, turns, journal)
<1> USE DEF Onward
<1>1. /\ onward.root = segment.root /\ onward.seed = segment.seed
      /\ onward.left = turns /\ onward \in Segment
  BY DEF Segment
<1>2. segment.left \in Nat /\ segment.seed \in Nat BY BoardAssumption DEF Segment
<1> HIDE DEF Onward, onward
<1>3. Sound(onward) BY <1>1, <1>2 DEF Sound
<1> QED BY <1>1, <1>3 DEF onward

\* What driving a run does to its slot.
DrivenOn(i) ==
  /\ slots' = [slots EXCEPT ![i] = slots'[i]]
  /\ Occupied(slots'[i])
  /\ Front(slots'[i]).root = Front(slots[i]).root
  /\ Front(slots'[i]).seed = Front(slots[i]).seed
  /\ Front(slots'[i]).left <= Front(slots[i]).left

\* Succeeded by a further segment of the run.
LEMMA SucceededInv ==
  ASSUME IInv, NEW i \in Slots, NEW journal, Driving(i, journal),
         NEW turns \in Nat, turns <= Front(slots[i]).left,
         slots' = [slots EXCEPT ![i] = Succeeded(slots[i], Renewed(Front(slots[i]), turns))],
         boots' \in {0, boots + 1}, UNCHANGED <<supervisorVars, letGo, mishaps>>
  PROVE  IInv' /\ DrivenOn(i)
<1> DEFINE segment == Renewed(Front(slots[i]), turns)
           P == Succeeded(slots[i], segment)
<1>1. slots[i] \in Pair /\ Occupied(slots[i]) /\ OneRun(slots[i])
      /\ Front(slots[i]) \in Segment /\ Sound(Front(slots[i]))
      /\ boots \in 0 .. MAX_SEGMENTS - 1
  BY DrivenFacts
<1>2. /\ segment \in Segment /\ Sound(segment)
      /\ segment.root = Front(slots[i]).root /\ segment.seed = Front(slots[i]).seed
      /\ segment.left = turns
  <2>1. "open" \in Journals BY DEF Journals
  <2>2. segment = Onward(Front(slots[i]), turns, "open") BY DEF Renewed, Onward
  <2> HIDE DEF segment
  <2> QED BY <1>1, <2>1, <2>2, OnwardSound
<1> HIDE DEF segment
<1>3. /\ P \in Pair /\ Occupied(P) /\ Front(P) = segment /\ OneRun(P)
      /\ \A s : Banked(P, s) => s = segment \/ Banked(slots[i], s)
  BY <1>1, <1>2, SucceededFront
<1>4. slots' = [slots EXCEPT ![i] = P] BY DEF segment
<1>5. boots' \in 0 .. MAX_SEGMENTS /\ letGo' \subseteq Roots /\ mishaps' \in 0 .. MaxMishaps
      /\ UNCHANGED <<ledger, spawnSeq, request, fault>>
  BY <1>1, BoardAssumption DEF IInv, TypeOK, supervisorVars
<1> HIDE DEF P
<1>6. slots'[i] = P BY <1>4 DEF IInv, TypeOK
<1>7. DrivenOn(i) BY <1>2, <1>3, <1>4, <1>6 DEF DrivenOn
<1> QED BY <1>2, <1>3, <1>4, <1>5, <1>7, SlotDriven

\* Cut before the seal of a further segment.
LEMMA SuccessionCutInv ==
  ASSUME IInv, NEW i \in Slots, NEW journal, Driving(i, journal), Happens("cut"),
         slots' = [slots EXCEPT ![i] = SuccessionCutLeaves(slots[i])],
         boots' = 0, UNCHANGED <<supervisorVars, letGo>>
  PROVE  IInv' /\ DrivenOn(i)
<1> DEFINE P == SuccessionCutLeaves(slots[i])
<1>1. slots[i] \in Pair /\ Occupied(slots[i]) /\ Sound(Front(slots[i]))
  BY DrivenFacts
<1>2. /\ P \in Pair /\ Occupied(P) /\ Front(P) = Front(slots[i]) /\ OneRun(P)
      /\ \A s : Banked(P, s) => Banked(slots[i], s)
  BY <1>1, SuccessionCutFront
<1>3. slots' = [slots EXCEPT ![i] = P] OBVIOUS
<1>4. boots' \in 0 .. MAX_SEGMENTS /\ letGo' \subseteq Roots /\ mishaps' \in 0 .. MaxMishaps
      /\ UNCHANGED <<ledger, spawnSeq, request, fault>>
  BY BoardAssumption DEF IInv, TypeOK, supervisorVars, Happens
<1> HIDE DEF P
<1>5. Front(slots[i]).left \in Nat BY DrivenFacts DEF Segment
<1>6. slots'[i] = P BY <1>3 DEF IInv, TypeOK
<1>7. Front(slots'[i]) = Front(slots[i]) /\ Occupied(slots'[i]) BY <1>2, <1>6
<1>8. Front(slots'[i]).left <= Front(slots[i]).left BY <1>5, <1>7
<1>9. DrivenOn(i) BY <1>3, <1>6, <1>7, <1>8 DEF DrivenOn
<1> QED BY <1>1, <1>2, <1>3, <1>4, <1>9, SlotDriven

\* A record appended to the journal in front.
LEMMA AppendedInv ==
  ASSUME IInv, NEW i \in Slots, Driving(i, "open"),
         NEW turns \in Nat, turns <= Front(slots[i]).left, NEW journal \in Journals,
         NEW P,
         P = [slots[i] EXCEPT ![Authority(slots[i])].segment =
                Onward(Front(slots[i]), turns, journal)],
         slots' = [slots EXCEPT ![i] = P],
         boots' \in {0, boots}, UNCHANGED <<supervisorVars, letGo>>,
         mishaps' \in 0 .. MaxMishaps
  PROVE  IInv' /\ DrivenOn(i)
<1> DEFINE segment == Onward(Front(slots[i]), turns, journal)
<1>1. slots[i] \in Pair /\ Occupied(slots[i]) /\ OneRun(slots[i])
      /\ Front(slots[i]) \in Segment /\ Sound(Front(slots[i]))
      /\ boots \in 0 .. MAX_SEGMENTS - 1
  BY DrivenFacts
<1>2. /\ segment \in Segment /\ Sound(segment)
      /\ segment.root = Front(slots[i]).root /\ segment.seed = Front(slots[i]).seed
      /\ segment.left = turns
  BY <1>1, OnwardSound
<1> HIDE DEF segment
<1>3. /\ P \in Pair /\ Occupied(P) /\ Front(P) = segment /\ OneRun(P)
      /\ \A s : Banked(P, s) => s = segment \/ Banked(slots[i], s)
  <2>1. P = [slots[i] EXCEPT ![Authority(slots[i])].segment = segment] BY DEF segment
  <2> QED BY <1>1, <1>2, <2>1, AppendedFront
<1>4. boots' \in 0 .. MAX_SEGMENTS /\ letGo' \subseteq Roots
      /\ UNCHANGED <<ledger, spawnSeq, request, fault>>
  BY <1>1, BoardAssumption DEF IInv, TypeOK, supervisorVars
<1>5. slots'[i] = P BY DEF IInv, TypeOK
<1>6. DrivenOn(i) BY <1>2, <1>3, <1>5 DEF DrivenOn
<1> QED BY <1>2, <1>3, <1>4, <1>6, SlotDriven

\* Appending a record is a write to the segment in front.
LEMMA JournaledIs ==
  ASSUME NEW pair \in Pair, Occupied(pair), NEW journal \in Journals
  PROVE  Journaled(pair, journal) =
           [pair EXCEPT ![Authority(pair)].segment =
              Onward(Front(pair), Front(pair).left, journal)]
<1>1. Front(pair) \in Segment BY FrontIsBanked
<1>2. [Front(pair) EXCEPT !.journal = journal] =
        Onward(Front(pair), Front(pair).left, journal)
  BY <1>1 DEF Onward, Segment
<1>3. Journaled(pair, journal) =
        [pair EXCEPT ![Authority(pair)].segment = [Front(pair) EXCEPT !.journal = journal]]
  BY DEF Journaled, Front
<1> QED BY <1>2, <1>3

\* And so is its last record, with what the run reports left.
LEMMA EndedIs ==
  ASSUME NEW pair \in Pair, Occupied(pair), NEW turns \in Nat
  PROVE  [Journaled(pair, "completed") EXCEPT ![Authority(pair)].segment.left = turns] =
           [pair EXCEPT ![Authority(pair)].segment =
              Onward(Front(pair), turns, "completed")]
<1> DEFINE a == Authority(pair)
<1>1. a \in BankIds /\ pair[a] \in Bank /\ Front(pair) \in Segment BY FrontIsBanked
<1>2. pair[a].segment = Front(pair) BY DEF Front
<1>3. Journaled(pair, "completed") = [pair EXCEPT ![a].segment.journal = "completed"]
  BY DEF Journaled
<1> HIDE DEF a
<1>4. Journaled(pair, "completed")[a].segment =
        [Front(pair) EXCEPT !.journal = "completed"]
  BY <1>1, <1>2, <1>3 DEF Pair, Bank
<1>5. [[Front(pair) EXCEPT !.journal = "completed"] EXCEPT !.left = turns] =
        Onward(Front(pair), turns, "completed")
  BY <1>1 DEF Onward, Segment
<1>6. [Journaled(pair, "completed") EXCEPT ![a].segment.left = turns] =
        [pair EXCEPT ![a].segment = Onward(Front(pair), turns, "completed")]
  <2> DEFINE J == Journaled(pair, "completed")
             segment == Onward(Front(pair), turns, "completed")
  <2>1. J = [pair EXCEPT ![a] = [pair[a] EXCEPT !.segment.journal = "completed"]]
    BY <1>3
  <2>2. J[a] = [pair[a] EXCEPT !.segment.journal = "completed"] BY <1>1, <2>1 DEF Pair
  <2>3. [J[a] EXCEPT !.segment.left = turns] = [pair[a] EXCEPT !.segment = segment]
    <3>1. pair[a] = [gen |-> pair[a].gen, segment |-> Front(pair)] BY <1>1, <1>2 DEF Bank
    <3>2. [J[a] EXCEPT !.segment.left = turns] = [gen |-> pair[a].gen, segment |-> segment]
      <4>1. J[a] = [gen |-> pair[a].gen,
                    segment |-> [Front(pair) EXCEPT !.journal = "completed"]]
        BY <2>2, <3>1
      <4> HIDE DEF J
      <4>2. [J[a] EXCEPT !.segment.left = turns] =
              [gen |-> pair[a].gen,
               segment |-> [[Front(pair) EXCEPT !.journal = "completed"] EXCEPT !.left = turns]]
        BY <4>1
      <4> QED BY <4>2, <1>5
    <3>3. [pair[a] EXCEPT !.segment = segment] = [gen |-> pair[a].gen, segment |-> segment]
      BY <3>1
    <3> QED BY <3>2, <3>3
  <2>4. [J EXCEPT ![a].segment.left = turns] =
          [pair EXCEPT ![a] = [J[a] EXCEPT !.segment.left = turns]]
    <3>1. DOMAIN pair = BankIds /\ a \in DOMAIN pair BY <1>1 DEF Pair
    <3> HIDE DEF J
    <3>2. [J EXCEPT ![a].segment.left = turns] =
            [J EXCEPT ![a] = [J[a] EXCEPT !.segment.left = turns]]
      OBVIOUS
    <3> QED BY <2>1, <3>1, <3>2
  <2> QED BY <2>3, <2>4
<1> QED BY <1>6 DEF a

LEMMA DrivenInv ==
  ASSUME IInv, NEW i \in Slots,
         \/ RollOver(i) \/ RollOverCut(i) \/ Tear(i)
         \/ Reinstall(i) \/ ReinstallCut(i) \/ EndRun(i) \/ FaultRun(i)
  PROVE  IInv' /\ DrivenOn(i)
<1> DEFINE left == Front(slots[i]).left
<1>1. ASSUME NEW journal, Driving(i, journal)
      PROVE  slots[i] \in Pair /\ Occupied(slots[i]) /\ left \in Nat
  BY <1>1, DrivenFacts DEF Segment
<1>2. mishaps \in 0 .. MaxMishaps BY DEF IInv, TypeOK
<1>3. \A j \in {"torn", "completed", "faulted"} : j \in Journals BY DEF Journals
<1>4. CASE RollOver(i)
  <2>1. Driving(i, "open") BY <1>4 DEF RollOver
  <2>2. PICK turns \in 0 .. left - 1 :
          slots' = [slots EXCEPT ![i] = Succeeded(slots[i], Renewed(Front(slots[i]), turns))]
    BY <1>4 DEF RollOver
  <2>3. turns \in Nat /\ turns <= left BY <2>1, <2>2, <1>1
  <2> QED BY <1>4, <2>1, <2>2, <2>3, SucceededInv DEF RollOver
<1>5. CASE RollOverCut(i) BY <1>5, SuccessionCutInv DEF RollOverCut
<1>6. CASE Tear(i)
  <2>1. Driving(i, "open") /\ slots' = [slots EXCEPT ![i] = Journaled(slots[i], "torn")]
        /\ boots' = 0 /\ UNCHANGED <<supervisorVars, letGo>>
    BY <1>6 DEF Tear
  <2>2. mishaps' \in 0 .. MaxMishaps BY <1>2, <1>6, BoardAssumption DEF Tear, Happens
  <2>3. left \in Nat /\ left <= left BY <2>1, <1>1
  <2>4. Journaled(slots[i], "torn") =
          [slots[i] EXCEPT ![Authority(slots[i])].segment =
             Onward(Front(slots[i]), left, "torn")]
    BY <2>1, <1>1, <1>3, JournaledIs
  <2> QED BY <2>1, <2>2, <2>3, <2>4, <1>3, AppendedInv
<1>7. CASE Reinstall(i)
  <2>1. Driving(i, "torn")
        /\ slots' = [slots EXCEPT ![i] = Succeeded(slots[i], Renewed(Front(slots[i]), left))]
    BY <1>7 DEF Reinstall, Reinstalled
  <2>2. left \in Nat /\ left <= left BY <2>1, <1>1
  <2> QED BY <1>7, <2>1, <2>2, SucceededInv DEF Reinstall
<1>8. CASE ReinstallCut(i) BY <1>8, SuccessionCutInv DEF ReinstallCut
<1>9. CASE EndRun(i)
  <2>1. Driving(i, "open") /\ UNCHANGED <<supervisorVars, boots, letGo, mishaps>>
    BY <1>9 DEF EndRun
  <2>2. PICK turns \in 0 .. left :
          slots' = [slots EXCEPT ![i] =
            [Journaled(slots[i], "completed") EXCEPT ![Authority(slots[i])].segment.left = turns]]
    BY <1>9 DEF EndRun
  <2>3. turns \in Nat /\ turns <= left BY <2>1, <2>2, <1>1
  <2>4. [Journaled(slots[i], "completed") EXCEPT ![Authority(slots[i])].segment.left = turns] =
          [slots[i] EXCEPT ![Authority(slots[i])].segment =
             Onward(Front(slots[i]), turns, "completed")]
    BY <2>1, <2>3, <1>1, EndedIs
  <2>5. mishaps' \in 0 .. MaxMishaps /\ boots' = boots BY <2>1, <1>2
  <2> QED BY <2>1, <2>2, <2>3, <2>4, <2>5, <1>3, AppendedInv
<1>10. CASE FaultRun(i)
  <2>1. Driving(i, "open") /\ slots' = [slots EXCEPT ![i] = Journaled(slots[i], "faulted")]
        /\ UNCHANGED <<supervisorVars, boots, letGo, mishaps>>
    BY <1>10 DEF FaultRun
  <2>2. mishaps' \in 0 .. MaxMishaps /\ boots' = boots BY <2>1, <1>2
  <2>3. left \in Nat /\ left <= left BY <2>1, <1>1
  <2>4. Journaled(slots[i], "faulted") =
          [slots[i] EXCEPT ![Authority(slots[i])].segment =
             Onward(Front(slots[i]), left, "faulted")]
    BY <2>1, <1>1, <1>3, JournaledIs
  <2> QED BY <2>1, <2>2, <2>3, <2>4, <1>3, AppendedInv
<1> QED BY <1>4, <1>5, <1>6, <1>7, <1>8, <1>9, <1>10

----------------------------------------------------------------------------
(* The theorems.                                                          *)

LEMMA InitInv == Init => IInv
<1> SUFFICES ASSUME Init PROVE IInv OBVIOUS
<1>1. slots = [i \in Slots |-> BlankPair] /\ ledger = [g \in Goals |-> Resting]
      /\ request = NoRequest /\ ~fault /\ spawnSeq = 0 /\ letGo = {}
      /\ boots = 0 /\ mishaps = 0
  BY DEF Init
<1>2. TypeOK
  <2>1. slots \in [Slots -> Pair] BY <1>1, BlankPairType
  <2>2. /\ spawnSeq \in 0 .. MaxSpawns /\ boots \in 0 .. MAX_SEGMENTS
        /\ mishaps \in 0 .. MaxMishaps /\ letGo \subseteq Roots
    BY <1>1, BoardAssumption
  <2>3. Resting \in [status : {"resting", "running", "waiting"},
                     run : Roots \cup {NoRoot}, held : Nat]
    BY DEF Resting
  <2>4. request \in [kind : {"none", "spawn", "resume", "harvest"},
                     run : Roots \cup {NoRoot}]
    BY <1>1 DEF NoRequest
  <2>5. fault \in BOOLEAN BY DEF Init
  <2> QED BY <1>1, <2>1, <2>2, <2>3, <2>4, <2>5 DEF TypeOK
<1>3. \A root : \A i \in Slots : ~HeldIn(i, root) BY <1>1, BlankPairType DEF HeldIn
<1>4. PairsSound
  <2>1. \A id \in BankIds : BlankPair[id].gen = 0 BY DEF BlankPair, Blank
  <2> QED BY <1>1, <2>1, BlankPairType DEF PairsSound
<1>5. OneSlot BY <1>3 DEF OneSlot
<1>6. LedgerInv /\ HeldInv BY <1>1 DEF LedgerInv, HeldInv, Resting, NoRequest
<1>7. SeedsInv BY <1>3 DEF SeedsInv
<1>8. StoredInv BY <1>1 DEF StoredInv, Resting, NoRequest
<1> QED BY <1>1, <1>2, <1>4, <1>5, <1>6, <1>7, <1>8 DEF IInv, AgentSurvives

LEMMA StepInv == IInv /\ [Next]_vars => IInv'
<1> SUFFICES ASSUME IInv, [Next]_vars PROVE IInv' OBVIOUS
<1>1. CASE UNCHANGED vars BY <1>1, QuietInv
<1>2. CASE Supervise BY <1>2, SpawnInv, ResumeInv DEF Supervise
<1>3. CASE Serve
  <2>1. CASE \E i \in Slots : Commission(i) BY <2>1, CommissionInv
  <2>2. CASE \E i \in Slots : RollOver(i) \/ Reinstall(i) \/ EndRun(i) \/ FaultRun(i)
    BY <2>2, DrivenInv
  <2>3. CASE \E i \in Slots : AnswerParked(i) \/ AnswerSettled(i)
    BY <2>3, AnswerParkedInv, AnswerSettledInv
  <2>4. CASE (\E i \in Slots : AnswerHarvest(i) \/ AnswerFailed(i)) \/ GiveUp \/ Refuse
    BY <2>4, OtherAnswersInv
  <2> QED BY <1>3, <2>1, <2>2, <2>3, <2>4 DEF Serve
<1>4. CASE Mishap
  <2>1. CASE \E i \in Slots : CommissionCut(i) \/ EraseCut(i) BY <2>1, CommissionCutsInv
  <2>2. CASE \E i \in Slots : RollOverCut(i) \/ Tear(i) \/ ReinstallCut(i)
    BY <2>2, DrivenInv
  <2>3. CASE Reset BY <2>3, QuietInv
  <2> QED BY <1>4, <2>1, <2>2, <2>3 DEF Mishap
<1> QED BY <1>1, <1>2, <1>3, <1>4 DEF Next

LEMMA Inductive == Spec => []IInv
  BY InitInv, StepInv, PTL DEF Spec

\* The state of the dispatcher, the slots and the ledger is well typed,
\* however long the spawns, rollovers, resets and repairs go on.
THEOREM Typed == Spec => []TypeOK
<1>1. IInv => TypeOK BY DEF IInv
<1> QED BY <1>1, Inductive, PTL

\* No reset makes a pair ambiguous or a run's slot two: what select finds is
\* the run, whichever slot it looks in first.
THEOREM SlotsAlwaysAgree == Spec => []SlotsAgree
<1>1. IInv => SlotsAgree
  BY DEF IInv, SlotsAgree, PairsSound, OneRun, OneSlot, HeldIn
<1> QED BY <1>1, Inductive, PTL

\* However often it rolled over or was installed again, a run is driven under
\* the seed its goal's reservation paid for.
THEOREM SeedsStayCommitted == Spec => []DrivesCommittedSeed
<1>1. ASSUME IInv PROVE DrivesCommittedSeed
  <2>1. SUFFICES ASSUME NEW g \in Goals, NEW i \in Slots, HeldIn(i, ledger[g].run)
                 PROVE  /\ Front(slots[i]).seed = ledger[g].held
                        /\ Front(slots[i]).left <= ledger[g].held
    BY DEF DrivesCommittedSeed, HeldIn
  <2>2. Front(slots[i]).seed = ledger[g].held BY <1>1, <2>1 DEF IInv, SeedsInv
  <2>3. Banked(slots[i], Front(slots[i]))
    BY <1>1, <2>1, FrontIsBanked DEF IInv, TypeOK, HeldIn
  <2>4. Sound(Front(slots[i])) BY <1>1, <2>3 DEF IInv, PairsSound, Banked
  <2> QED BY <2>2, <2>4 DEF Sound
<1> QED BY <1>1, Inductive, PTL

\* A parked or running run is in a slot, whatever the other goals spawn.
THEOREM ObligationsStayStored == Spec => []ObligationStored
<1>1. ASSUME IInv PROVE ObligationStored
  <2>1. SUFFICES ASSUME NEW g \in Goals, ledger[g] # Resting,
                        request # [kind |-> "spawn", run |-> ledger[g].run]
                 PROVE  \E i \in Slots : HeldIn(i, ledger[g].run)
    BY DEF ObligationStored, InSlots, HeldIn
  <2>2. ledger[g].status \in {"running", "waiting"}
    BY <1>1, <2>1 DEF IInv, TypeOK, LedgerInv
  <2>3. CASE ledger[g].status = "waiting" BY <1>1, <2>3 DEF IInv, StoredInv
  <2>4. CASE ledger[g].status = "running"
    <3>1. request.kind \in {"spawn", "resume"} /\ request.run = ledger[g].run
      BY <1>1, <2>4 DEF IInv, LedgerInv
    <3>2. request = [kind |-> request.kind, run |-> request.run]
      BY <1>1 DEF IInv, TypeOK
    <3>3. request.kind = "resume" BY <2>1, <3>1, <3>2
    <3> QED BY <1>1, <3>1, <3>3 DEF IInv, StoredInv
  <2> QED BY <2>2, <2>3, <2>4
<1> QED BY <1>1, Inductive, PTL

\* No run reports more unspent than its goal reserved: no settlement is one
\* the ledger refuses, and the supervisor goes on.
THEOREM AgentAlwaysSurvives == Spec => []AgentSurvives
<1>1. IInv => AgentSurvives BY DEF IInv
<1> QED BY <1>1, Inductive, PTL

----------------------------------------------------------------------------
(* The slots as a store of runs.                                           *)


\* The runs the ledger holds.
HeldRuns == {ledger[g].run : g \in Goals}

\* An unfinished run in a slot is one the ledger holds or let go of.
Accounted ==
  \A i \in Slots :
    Occupied(slots[i]) /\ ~Concluded(Front(slots[i])) =>
      Front(slots[i]).root \in HeldRuns \cup letGo

\* Some slot of a set of slots is its first.
LEMMA HasFirst ==
  ASSUME NEW S \in SUBSET Slots, S # {}
  PROVE  \E i \in S : IsFirst(i, S)
<1>1. S \subseteq Nat BY BoardAssumption DEF Slots
<1> DEFINE Less == {p \in Nat \X Nat : p[1] < p[2]}
<1>2. IsWellFoundedOn(Less, Nat) BY NatLessThanWellFounded DEF OpToRel
<1>3. PICK i \in S : \A j \in S : ~(<<j, i>> \in Less)
  <2> HIDE DEF Less
  <2> QED BY <1>1, <1>2, WFMin
<1>4. ASSUME NEW j \in S PROVE i <= j
  <2>1. i \in Nat /\ j \in Nat BY <1>1
  <2>2. <<j, i>> \in Nat \X Nat /\ <<j, i>>[1] = j /\ <<j, i>>[2] = i BY <2>1
  <2>3. ~(j < i) BY <1>3, <2>2
  <2> QED BY <2>1, <2>3
<1> QED BY <1>4 DEF IsFirst

\* A write to one slot.
LEMMA SlotAccounted ==
  ASSUME IInv, Accounted, NEW i \in Slots,
         slots' = [slots EXCEPT ![i] = slots'[i]],
         UNCHANGED ledger, letGo \subseteq letGo',
         Occupied(slots'[i]) /\ ~Concluded(Front(slots'[i])) =>
           Front(slots'[i]).root \in HeldRuns \cup letGo'
  PROVE  Accounted'
<1>1. \A j \in Slots \ {i} : slots'[j] = slots[j] BY DEF IInv, TypeOK
<1>2. HeldRuns' = HeldRuns BY DEF HeldRuns
<1>3. ASSUME NEW j \in Slots, Occupied(slots'[j]), ~Concluded(Front(slots'[j]))
      PROVE  Front(slots'[j]).root \in HeldRuns \cup letGo'
  <2>1. CASE j = i BY <1>3, <2>1
  <2>2. CASE j # i BY <1>1, <1>3, <2>2 DEF Accounted
  <2> QED BY <2>1, <2>2
<1> QED BY <1>2, <1>3 DEF Accounted, Concluded

\* A step that lets the ledger hold at least the runs it held.
LEMMA HeldAccounted ==
  ASSUME Accounted, UNCHANGED <<slots, letGo>>,
         \A i \in Slots :
           Occupied(slots[i]) /\ Front(slots[i]).root \in HeldRuns =>
             Front(slots[i]).root \in HeldRuns'
  PROVE  Accounted'
  BY DEF Accounted, Concluded

\* A settlement: the run let go of has ended, is nowhere, or is in letGo.
LEMMA SettledAccounted ==
  ASSUME IInv, Accounted, request # NoRequest, Settled,
         UNCHANGED slots, letGo \subseteq letGo',
         \A i \in Slots :
           HeldIn(i, request.run) => Concluded(Front(slots[i])) \/ request.run \in letGo'
  PROVE  Accounted'
<1> DEFINE g == GoalOf(request.run)
<1>1. g \in Goals BY RequestFacts
<1>2. CASE request.kind = "harvest"
  <2>1. ledger' = ledger BY <1>2 DEF Settled
  <2> QED BY <2>1 DEF Accounted, HeldRuns, Concluded
<1>3. CASE request.kind # "harvest"
  <2>1. ledger[g].run = request.run BY <1>3, RequestFacts
  <2>2. \A h \in Goals \ {g} : ledger'[h] = ledger[h]
    BY <1>1, <1>3 DEF Settled, IInv, TypeOK
  <2>3. ASSUME NEW i \in Slots, Occupied(slots[i]), ~Concluded(Front(slots[i]))
        PROVE  Front(slots[i]).root \in HeldRuns' \cup letGo'
    <3>1. CASE Front(slots[i]).root = request.run BY <2>3, <3>1 DEF HeldIn
    <3>2. CASE Front(slots[i]).root # request.run
      <4>1. CASE Front(slots[i]).root \in letGo BY <4>1
      <4>2. CASE Front(slots[i]).root \in HeldRuns
        <5>1. PICK h \in Goals : Front(slots[i]).root = ledger[h].run
          BY <4>2 DEF HeldRuns
        <5>2. h # g BY <2>1, <3>2, <5>1
        <5> QED BY <2>2, <5>1, <5>2 DEF HeldRuns
      <4> QED BY <2>3, <4>1, <4>2 DEF Accounted
    <3> QED BY <3>1, <3>2
  <2> QED BY <2>3 DEF Accounted, Concluded
<1> QED BY <1>2, <1>3

\* What a step drives is an unfinished run.
Drives(i) ==
  /\ DrivenOn(i)
  /\ Occupied(slots[i]) /\ ~Concluded(Front(slots[i]))
  /\ UNCHANGED <<ledger, letGo>>

LEMMA StepDrives ==
  ASSUME IInv, NEW i \in Slots,
         \/ RollOver(i) \/ RollOverCut(i) \/ Tear(i)
         \/ Reinstall(i) \/ ReinstallCut(i) \/ EndRun(i) \/ FaultRun(i)
  PROVE  Drives(i)
<1>1. DrivenOn(i) BY DrivenInv
<1>2. Driving(i, "open") \/ Driving(i, "torn")
  BY DEF RollOver, RollOverCut, Tear, Reinstall, ReinstallCut, EndRun, FaultRun
<1>3. Occupied(slots[i]) /\ ~Concluded(Front(slots[i])) BY <1>2 DEF Driving, Concluded
<1>4. UNCHANGED <<ledger, letGo>>
  BY DEF RollOver, RollOverCut, Tear, Reinstall, ReinstallCut, EndRun, FaultRun,
         supervisorVars
<1> QED BY <1>1, <1>3, <1>4 DEF Drives

\* What a step may do to the slots.
LEMMA StepWrites ==
  ASSUME IInv, [Next]_vars
  PROVE  \/ UNCHANGED slots /\ letGo \subseteq letGo'
         \/ \E i \in Slots : \/ Drives(i)
                             \/ Commission(i) \/ CommissionCut(i) \/ EraseCut(i)
<1>1. CASE UNCHANGED vars BY <1>1 DEF vars
<1>2. CASE Supervise BY <1>2 DEF Supervise, Spawn, Resume
<1>3. CASE Serve
  <2>1. CASE \E i \in Slots : Commission(i) BY <2>1
  <2>2. CASE \E i \in Slots : RollOver(i) \/ Reinstall(i) \/ EndRun(i) \/ FaultRun(i)
    BY <2>2, StepDrives
  <2>3. CASE (\E i \in Slots : AnswerParked(i) \/ AnswerSettled(i) \/ AnswerHarvest(i)
                               \/ AnswerFailed(i)) \/ GiveUp \/ Refuse
    BY <2>3 DEF AnswerParked, AnswerSettled, AnswerHarvest, AnswerFailed, GiveUp, Refuse,
                Answered
  <2> QED BY <1>3, <2>1, <2>2, <2>3 DEF Serve
<1>4. CASE Mishap
  <2>1. CASE \E i \in Slots : CommissionCut(i) \/ EraseCut(i) BY <2>1
  <2>2. CASE \E i \in Slots : RollOverCut(i) \/ Tear(i) \/ ReinstallCut(i)
    BY <2>2, StepDrives
  <2>3. CASE Reset BY <2>3 DEF Reset
  <2> QED BY <1>4, <2>1, <2>2, <2>3 DEF Mishap
<1> QED BY <1>1, <1>2, <1>3, <1>4 DEF Next

----------------------------------------------------------------------------
(* What the first install of a run leaves.                                *)

LEMMA CommissionLeaves ==
  ASSUME IInv, NEW i \in Slots, Commission(i)
  PROVE  /\ slots' = [slots EXCEPT ![i] = slots'[i]]
         /\ UNCHANGED <<ledger, letGo>>
         /\ request.run \in HeldRuns
         /\ Holding(request.run) = {}
         /\ IsVacancy(i, request.run)
         /\ Occupied(slots'[i])
         /\ \E grant \in Grants : Front(slots'[i]) = Committed(request.run, grant)
<1> DEFINE g == GoalOf(request.run)
           segment == Committed(request.run, ledger[g].held)
<1>1. /\ request # NoRequest /\ request.kind = "spawn"
      /\ Holding(request.run) = {} /\ IsVacancy(i, request.run)
      /\ slots' = [slots EXCEPT ![i] = Commissioned(segment)]
      /\ UNCHANGED <<ledger, letGo>>
  BY DEF Commission, Placing, Unplaced, supervisorVars
<1>2. g \in Goals /\ request.run \in Roots /\ ledger[g].run = request.run
      /\ ledger[g].status = "running"
  BY <1>1, RequestFacts
<1>3. ledger[g].held \in Grants BY <1>2 DEF IInv, HeldInv
<1>4. segment \in Segment
  <2>1. ledger[g].held \in Nat BY <1>3, BoardAssumption
  <2>2. "open" \in Journals BY DEF Journals
  <2> HIDE DEF g
  <2> QED BY <1>2, <1>3, <2>1, <2>2 DEF Committed, Segment
<1>5. slots'[i] = Commissioned(segment) BY <1>1 DEF IInv, TypeOK
<1>6. request.run \in HeldRuns BY <1>2 DEF HeldRuns
<1> HIDE DEF segment
<1>7. Occupied(slots'[i]) /\ Front(slots'[i]) = segment BY <1>4, <1>5, CommissionedFront
<1>8. slots' = [slots EXCEPT ![i] = slots'[i]] BY <1>1, <1>5
<1> QED BY <1>1, <1>3, <1>6, <1>7, <1>8 DEF segment

LEMMA CutLeaves ==
  ASSUME IInv, NEW i \in Slots, CommissionCut(i)
  PROVE  /\ slots' = [slots EXCEPT ![i] = slots'[i]]
         /\ UNCHANGED <<ledger, letGo>>
         /\ ~Occupied(slots'[i])
         /\ Placing(i)
<1>1. slots' = [slots EXCEPT ![i] = BlankPair] /\ UNCHANGED <<ledger, letGo>> /\ Placing(i)
  BY DEF CommissionCut, CommissionCutLeaves, supervisorVars
<1>2. slots'[i] = BlankPair BY <1>1 DEF IInv, TypeOK
<1> QED BY <1>1, <1>2, BlankPairType

LEMMA HalfLeaves ==
  ASSUME IInv, NEW i \in Slots, EraseCut(i)
  PROVE  /\ slots' = [slots EXCEPT ![i] = slots'[i]]
         /\ UNCHANGED ledger
         /\ Occupied(slots[i])
         /\ letGo' = letGo \cup {Front(slots[i]).root}
         /\ Occupied(slots'[i]) => Front(slots'[i]).root = Front(slots[i]).root
<1>1. /\ slots' = [slots EXCEPT ![i] = EraseCutLeaves(slots[i])] /\ UNCHANGED ledger
      /\ Occupied(slots[i]) /\ letGo' = letGo \cup {Front(slots[i]).root}
  BY DEF EraseCut, supervisorVars
<1>2. slots'[i] = EraseCutLeaves(slots[i]) BY <1>1 DEF IInv, TypeOK
<1>3. slots[i] \in Pair /\ OneRun(slots[i]) BY DEF IInv, TypeOK, PairsSound
<1> QED BY <1>1, <1>2, <1>3, EraseCutFront

----------------------------------------------------------------------------
(* Every unfinished run is accounted for.                                 *)

LEMMA SuperviseAccounted ==
  ASSUME IInv, Accounted, NEW g \in Goals, Spawn(g) \/ Resume(g)
  PROVE  Accounted'
<1>1. UNCHANGED <<slots, letGo>> BY DEF Spawn, Resume
<1>2. ASSUME NEW i \in Slots, Occupied(slots[i]), Front(slots[i]).root \in HeldRuns
      PROVE  Front(slots[i]).root \in HeldRuns'
  <2>1. PICK h \in Goals : Front(slots[i]).root = ledger[h].run BY <1>2 DEF HeldRuns
  <2>2. ledger[h].run \in Roots BY <1>2, <2>1, NewRunUnheld DEF HeldIn
  <2>3. ledger'[h].run = ledger[h].run
    <3>1. CASE Spawn(g)
      <4>1. h # g BY <2>2, <3>1, RootParts DEF Spawn, Resting
      <4> QED BY <3>1, <4>1 DEF Spawn, IInv, TypeOK
    <3>2. CASE Resume(g) BY <3>2 DEF Resume, IInv, TypeOK
    <3> QED BY <3>1, <3>2
  <2> QED BY <2>1, <2>3 DEF HeldRuns
<1> QED BY <1>1, <1>2, HeldAccounted

LEMMA WriteAccounted ==
  ASSUME IInv, Accounted, NEW i \in Slots,
         Drives(i) \/ Commission(i) \/ CommissionCut(i) \/ EraseCut(i)
  PROVE  Accounted'
<1>1. CASE Drives(i)
  <2>1. Front(slots[i]).root \in HeldRuns \cup letGo BY <1>1 DEF Drives, Accounted
  <2>2. slots' = [slots EXCEPT ![i] = slots'[i]] /\ UNCHANGED ledger /\ letGo' = letGo
        /\ Front(slots'[i]).root = Front(slots[i]).root
    BY <1>1 DEF Drives, DrivenOn
  <2> QED BY <2>1, <2>2, SlotAccounted
<1>2. CASE Commission(i)
  <2>1. PICK grant : Front(slots'[i]) = Committed(request.run, grant)
    BY <1>2, CommissionLeaves
  <2>2. Front(slots'[i]).root \in HeldRuns BY <1>2, <2>1, CommissionLeaves DEF Committed
  <2> QED BY <1>2, <2>2, CommissionLeaves, SlotAccounted
<1>3. CASE CommissionCut(i) BY <1>3, CutLeaves, SlotAccounted
<1>4. CASE EraseCut(i) BY <1>4, HalfLeaves, SlotAccounted
<1> QED BY <1>1, <1>2, <1>3, <1>4

LEMMA AnswerAccounted ==
  ASSUME IInv, Accounted,
         \/ \E i \in Slots : \/ AnswerParked(i) \/ AnswerSettled(i) \/ AnswerHarvest(i)
                             \/ AnswerFailed(i)
         \/ GiveUp \/ Refuse
  PROVE  Accounted'
<1>1. request # NoRequest /\ UNCHANGED slots /\ letGo \subseteq letGo'
  BY DEF AnswerParked, AnswerSettled, AnswerHarvest, AnswerFailed, GiveUp, Refuse,
         Answered, Driving, Unplaced
<1>2. ASSUME NEW i \in Slots, AnswerParked(i) PROVE Accounted'
  <2>1. \A g \in Goals : ledger'[g].run = ledger[g].run
    BY <1>2 DEF AnswerParked, IInv, TypeOK
  <2>2. HeldRuns' = HeldRuns BY <2>1 DEF HeldRuns
  <2>3. letGo' = letGo BY <1>2 DEF AnswerParked
  <2> QED BY <1>1, <2>2, <2>3, HeldAccounted
<1>3. ASSUME NEW i \in Slots, NEW journal \in {"completed", "faulted"},
             Driving(i, journal), Settled
      PROVE  Accounted'
  <2>1. HeldIn(i, request.run) /\ Concluded(Front(slots[i]))
    BY <1>3 DEF Driving, IsFirst, Holding, HeldIn, Concluded
  <2>2. \A j \in Slots : HeldIn(j, request.run) => j = i
    BY <2>1 DEF IInv, OneSlot, HeldIn
  <2> QED BY <1>1, <1>3, <2>1, <2>2, SettledAccounted
<1>4. ASSUME NEW i \in Slots, AnswerSettled(i) PROVE Accounted'
  <2>1. CASE Settled BY <1>3, <1>4, <2>1 DEF AnswerSettled
  <2>2. CASE UNCHANGED ledger
    BY <1>1, <1>4, <2>2, HeldAccounted DEF AnswerSettled, HeldRuns
  <2> QED BY <1>4, <2>1, <2>2 DEF AnswerSettled
<1>5. ASSUME NEW i \in Slots, AnswerHarvest(i) PROVE Accounted'
  BY <1>3, <1>5 DEF AnswerHarvest, Settled
<1>6. ASSUME NEW i \in Slots, AnswerFailed(i) PROVE Accounted'
  BY <1>3, <1>6 DEF AnswerFailed
<1>7. CASE GiveUp
  <2>1. Settled /\ request.run \in letGo' BY <1>7 DEF GiveUp
  <2> QED BY <1>1, <2>1, SettledAccounted
<1>8. CASE Refuse
  <2>1. Settled /\ Holding(request.run) = {} BY <1>8 DEF Refuse, Unplaced
  <2>2. \A i \in Slots : ~HeldIn(i, request.run) BY <2>1 DEF Holding, HeldIn
  <2> QED BY <1>1, <2>1, <2>2, SettledAccounted
<1> QED BY <1>2, <1>4, <1>5, <1>6, <1>7, <1>8

LEMMA StepAccounted == IInv /\ Accounted /\ [Next]_vars => Accounted'
<1> SUFFICES ASSUME IInv, Accounted, [Next]_vars PROVE Accounted' OBVIOUS
<1>1. CASE Reset \/ UNCHANGED vars
  <2>1. UNCHANGED <<slots, ledger, letGo>>
    BY <1>1 DEF Reset, vars, supervisorVars
  <2> QED BY <2>1, HeldAccounted DEF HeldRuns
<1>2. CASE Supervise BY <1>2, SuperviseAccounted DEF Supervise
<1>3. CASE \E i \in Slots : Drives(i) \/ Commission(i) \/ CommissionCut(i) \/ EraseCut(i)
  BY <1>3, WriteAccounted
<1>4. CASE Serve
  <2>1. CASE \E i \in Slots : RollOver(i) \/ Reinstall(i) \/ EndRun(i) \/ FaultRun(i)
    BY <1>3, <2>1, StepDrives
  <2> QED BY <1>3, <1>4, <2>1, AnswerAccounted DEF Serve
<1>5. CASE Mishap BY <1>1, <1>3, <1>5, StepDrives DEF Mishap
<1> QED BY <1>1, <1>2, <1>4, <1>5 DEF Next

\* What is known of the slots and the ledger in every state.
StoreInv == IInv /\ Accounted

LEMMA AlwaysStoreInv == Spec => []StoreInv
<1>1. Init => Accounted BY BlankPairType DEF Init, Accounted
<1>2. Init => StoreInv BY <1>1, InitInv DEF StoreInv
<1>3. StoreInv /\ [Next]_vars => StoreInv' BY StepInv, StepAccounted DEF StoreInv
<1> QED BY <1>2, <1>3, PTL DEF Spec

\* A spawn is refused for want of room only when every slot holds an unfinished
\* run that the ledger still holds, or was made to let go of.
THEOREM RefusalsJustified == Spec => RefusedOnlyWhenFull
<1>1. ASSUME StoreInv, Refuse, request.kind = "spawn", NEW i \in Slots
      PROVE  /\ Occupied(slots[i])
             /\ Front(slots[i]).journal \in {"open", "torn"}
             /\ Front(slots[i]).root \in {ledger[g].run : g \in Goals} \cup letGo
  <2>1. \A j \in Slots : ~IsVacancy(j, request.run) BY <1>1 DEF Refuse
  <2>2. OfGoal(GoalOf(request.run)) = {}
    <3>1. OfGoal(GoalOf(request.run)) \subseteq Slots BY DEF OfGoal
    <3> QED BY <2>1, <3>1, HasFirst DEF IsVacancy
  <2>3. Empty = {}
    <3>1. Empty \subseteq Slots BY DEF Empty
    <3> QED BY <2>1, <2>2, <3>1, HasFirst DEF IsVacancy
  <2>4. Done = {}
    <3>1. Done \subseteq Slots BY DEF Done
    <3> QED BY <2>1, <2>2, <2>3, <3>1, HasFirst DEF IsVacancy
  <2>5. Occupied(slots[i]) /\ ~Concluded(Front(slots[i])) BY <2>3, <2>4 DEF Empty, Done
  <2>6. Front(slots[i]) \in Segment BY <1>1, <2>5, FrontIsBanked DEF StoreInv, IInv, TypeOK
  <2>7. Front(slots[i]).journal \in {"open", "torn"}
    BY <2>5, <2>6 DEF Segment, Journals, Concluded
  <2>8. Front(slots[i]).root \in HeldRuns \cup letGo
    BY <1>1, <2>5 DEF StoreInv, Accounted
  <2> QED BY <2>5, <2>7, <2>8 DEF HeldRuns
<1>2. StoreInv =>
        (Refuse /\ request.kind = "spawn" =>
           \A i \in Slots :
             /\ Occupied(slots[i])
             /\ Front(slots[i]).journal \in {"open", "torn"}
             /\ Front(slots[i]).root \in {ledger[g].run : g \in Goals} \cup letGo)
  BY <1>1
<1> QED BY <1>2, AlwaysStoreInv, PTL DEF RefusedOnlyWhenFull

----------------------------------------------------------------------------
(* The slots implement the run store.                                     *)

\* What the store keeps of the run in a slot.
View(segment) ==
  [seed |-> segment.seed, left |-> segment.left, ended |-> Concluded(segment)]

\* There is one slot to look for a run in.
LEMMA StoredView ==
  IInv => \A i \in Slots :
            Occupied(slots[i]) => Stored(Front(slots[i]).root) = View(Front(slots[i]))
<1> SUFFICES ASSUME IInv, NEW i \in Slots, Occupied(slots[i])
             PROVE  Stored(Front(slots[i]).root) = View(Front(slots[i]))
  OBVIOUS
<1> DEFINE root == Front(slots[i]).root
           Here(j) == Occupied(slots[j]) /\ Front(slots[j]).root = root
<1>1. \A j \in Slots : Here(j) => j = i BY DEF IInv, OneSlot, HeldIn
<1>2. Here(i) OBVIOUS
<1>3. (CHOOSE j \in Slots : Here(j)) = i
  <2> HIDE DEF Here
  <2> QED BY <1>1, <1>2
<1> QED BY <1>3 DEF Stored, View

\* The store's runs, as the slots keep them.
StoredRuns == [root \in Kept |-> Stored(root)]

\* The front of a slot goes on in the store: as a new run, as the run it was,
\* or as that run driven on.
GoesOn(i) ==
  LET root == Front(slots'[i]).root
      view == View(Front(slots'[i]))
  IN  \/ root \notin InSlots /\ \E grant \in Grants : view = Store!New(grant)
      \/ /\ HeldIn(i, root) /\ ~Concluded(Front(slots[i]))
         /\ view.seed = Front(slots[i]).seed
         /\ view.left \in 0 .. Front(slots[i]).left

\* The front of a slot stays in the store, unless it had ended.
Stays(i) ==
  Occupied(slots[i]) /\ Front(slots[i]).root \notin letGo' =>
    \/ Concluded(Front(slots[i]))
    \/ Occupied(slots'[i]) /\ Front(slots'[i]).root = Front(slots[i]).root

LEMMA SlotStep ==
  ASSUME IInv, IInv',
         (\A j \in Slots :
            Occupied(slots[j]) => Stored(Front(slots[j]).root) = View(Front(slots[j])))',
         NEW i \in Slots, slots' = [slots EXCEPT ![i] = slots'[i]],
         letGo \subseteq letGo',
         Occupied(slots'[i]) /\ Front(slots'[i]).root \notin letGo' => GoesOn(i),
         Stays(i)
  PROVE  Store!Next
<1> DEFINE viewed == \A j \in Slots :
             Occupied(slots[j]) => Stored(Front(slots[j]).root) = View(Front(slots[j]))
<1>1. viewed BY StoredView
<1>2. \A j \in Slots \ {i} : slots'[j] = slots[j] BY DEF IInv, TypeOK
<1>3. DOMAIN StoredRuns = Kept /\ DOMAIN StoredRuns' = Kept' BY DEF StoredRuns
<1>4. \A root \in Kept : StoredRuns[root] = Stored(root) BY DEF StoredRuns
<1>5. \A root \in Kept' : StoredRuns'[root] = Stored(root)' BY DEF StoredRuns
<1>6. \A segment : View(segment)' = View(segment) BY DEF View, Concluded
<1>7. ASSUME NEW root \in Kept'
      PROVE  \/ root \notin Kept /\ \E grant \in Grants : StoredRuns'[root] = Store!New(grant)
             \/ /\ root \in Kept /\ ~StoredRuns[root].ended
                /\ StoredRuns'[root].seed = StoredRuns[root].seed
                /\ StoredRuns'[root].left \in 0 .. StoredRuns[root].left
             \/ root \in Kept /\ StoredRuns'[root] = StoredRuns[root]
  <2>1. PICK j \in Slots : Occupied(slots'[j]) /\ Front(slots'[j]).root = root
    BY DEF Kept, InSlots
  <2>2. root \notin letGo' BY DEF Kept
  <2>3. StoredRuns'[root] = View(Front(slots'[j])) BY <1>5, <1>6, <2>1
  <2>4. CASE j # i
    <3>1. slots'[j] = slots[j] BY <1>2, <2>4
    <3>2. root \in Kept BY <2>1, <2>2, <3>1 DEF Kept, InSlots
    <3>3. StoredRuns[root] = View(Front(slots[j])) BY <1>1, <1>4, <2>1, <3>1, <3>2
    <3> QED BY <2>3, <3>1, <3>2, <3>3
  <2>5. CASE j = i
    <3>1. GoesOn(i) BY <2>1, <2>2, <2>5
    <3>2. CASE root \notin InSlots /\ \E grant \in Grants : View(Front(slots'[i])) = Store!New(grant)
      BY <2>3, <2>5, <3>2 DEF Kept
    <3>3. CASE /\ HeldIn(i, root) /\ ~Concluded(Front(slots[i]))
               /\ View(Front(slots'[i])).seed = Front(slots[i]).seed
               /\ View(Front(slots'[i])).left \in 0 .. Front(slots[i]).left
      <4>1. root \in Kept BY <2>2, <3>3 DEF Kept, InSlots, HeldIn
      <4>2. StoredRuns[root] = View(Front(slots[i])) BY <1>1, <1>4, <3>3, <4>1 DEF HeldIn
      <4>3. /\ StoredRuns[root].ended = Concluded(Front(slots[i]))
            /\ StoredRuns[root].seed = Front(slots[i]).seed
            /\ StoredRuns[root].left = Front(slots[i]).left
        BY <4>2 DEF View
      <4> QED BY <2>3, <2>5, <3>3, <4>1, <4>3
    <3> QED BY <2>1, <2>5, <3>1, <3>2, <3>3 DEF GoesOn
  <2> QED BY <2>4, <2>5
<1>8. ASSUME NEW root \in Kept \ Kept'
      PROVE  StoredRuns[root].ended \/ root \in letGo'
  <2>1. PICK j \in Slots : Occupied(slots[j]) /\ Front(slots[j]).root = root
    BY DEF Kept, InSlots
  <2>2. SUFFICES ASSUME root \notin letGo' PROVE StoredRuns[root].ended OBVIOUS
  <2>3. \A k \in Slots : ~(Occupied(slots'[k]) /\ Front(slots'[k]).root = root)
    BY <2>2 DEF Kept, InSlots
  <2>4. j = i BY <1>2, <2>1, <2>3
  <2>5. Concluded(Front(slots[i])) BY <2>1, <2>2, <2>3, <2>4 DEF Stays
  <2>6. StoredRuns[root] = View(Front(slots[i])) BY <1>1, <1>4, <2>1, <2>4
  <2> QED BY <2>5, <2>6 DEF View
<1>9. StoredRuns = [root \in Kept |-> Stored(root)] BY DEF StoredRuns
<1> HIDE DEF viewed
<1>10. \A root \in Kept' : Store!Created(root) \/ Store!Advanced(root) \/ Store!Unchanged(root)
  BY <1>3, <1>7 DEF Store!Created, Store!Advanced, Store!Unchanged, StoredRuns
<1>11. \A root \in Kept \ Kept' : Store!Droppable(root)
  BY <1>8 DEF Store!Droppable, StoredRuns
<1> QED BY <1>3, <1>10, <1>11 DEF Store!Next, StoredRuns

\* A run displaced by its goal's next one had ended, or was let go of: were it
\* the ledger's, it would be the run that is placed.
LEMMA Displaced ==
  ASSUME StoreInv, NEW i \in Slots, Placing(i),
         Occupied(slots[i]), Front(slots[i]).root \notin letGo
  PROVE  Concluded(Front(slots[i]))
<1> DEFINE g == GoalOf(request.run)
<1>1. /\ request # NoRequest /\ request.kind = "spawn" /\ Holding(request.run) = {}
      /\ IsVacancy(i, request.run)
  BY DEF Placing, Unplaced
<1>2. ledger[g].run = request.run BY <1>1, RequestFacts DEF StoreInv
<1>3. CASE i \in OfGoal(g)
  <2>1. SUFFICES ASSUME ~Concluded(Front(slots[i])) PROVE FALSE OBVIOUS
  <2>2. Front(slots[i]).root \in HeldRuns BY <2>1 DEF StoreInv, Accounted
  <2>3. PICK h \in Goals : Front(slots[i]).root = ledger[h].run BY <2>2 DEF HeldRuns
  <2>4. ledger[h].run # NoRoot
    BY <2>3, NewRunUnheld, RootParts DEF StoreInv, HeldIn
  <2>5. GoalOf(ledger[h].run) = h BY <2>4 DEF StoreInv, IInv, LedgerInv, Resting
  <2>6. h = g BY <1>3, <2>3, <2>5 DEF OfGoal
  <2>7. i \in Holding(request.run) BY <1>2, <2>3, <2>6 DEF Holding
  <2> QED BY <1>1, <2>7
<1>4. CASE i \in Empty BY <1>4 DEF Empty
<1>5. CASE i \in Done BY <1>5 DEF Done
<1> QED BY <1>1, <1>3, <1>4, <1>5 DEF IsVacancy, IsFirst

LEMMA WriteStep ==
  ASSUME StoreInv, IInv',
         (\A j \in Slots :
            Occupied(slots[j]) => Stored(Front(slots[j]).root) = View(Front(slots[j])))',
         NEW i \in Slots,
         Drives(i) \/ Commission(i) \/ CommissionCut(i) \/ EraseCut(i)
  PROVE  Store!Next
<1>0. IInv BY DEF StoreInv
<1>1. CASE Drives(i)
  <2>1. /\ slots' = [slots EXCEPT ![i] = slots'[i]] /\ Occupied(slots'[i])
        /\ Occupied(slots[i]) /\ ~Concluded(Front(slots[i])) /\ letGo' = letGo
        /\ Front(slots'[i]).root = Front(slots[i]).root
        /\ Front(slots'[i]).seed = Front(slots[i]).seed
        /\ Front(slots'[i]).left <= Front(slots[i]).left
    BY <1>1 DEF Drives, DrivenOn
  <2>2. slots'[i] \in Pair BY DEF IInv, TypeOK
  <2>3. Front(slots'[i]).left \in Nat /\ Front(slots[i]).left \in Nat
    BY <1>0, <2>1, <2>2, FrontIsBanked DEF IInv, TypeOK, Segment
  <2>4. Front(slots'[i]).left \in 0 .. Front(slots[i]).left BY <2>1, <2>3
  <2>5. GoesOn(i) BY <2>1, <2>4 DEF GoesOn, View, HeldIn
  <2>6. Stays(i) BY <2>1 DEF Stays
  <2> QED BY <1>0, <2>1, <2>5, <2>6, SlotStep
<1>2. CASE Commission(i)
  <2>1. PICK grant \in Grants : Front(slots'[i]) = Committed(request.run, grant)
    BY <1>0, <1>2, CommissionLeaves
  <2>2. View(Committed(request.run, grant)) = Store!New(grant)
    <3> DEFINE segment == Committed(request.run, grant)
    <3>1. /\ segment.seed = grant /\ segment.left = grant /\ segment.journal = "open"
      BY DEF Committed
    <3> HIDE DEF segment
    <3>2. Concluded(segment) = FALSE BY <3>1 DEF Concluded
    <3>3. View(segment) = [seed |-> grant, left |-> grant, ended |-> FALSE]
      BY <3>1, <3>2, Zenon DEF View
    <3> QED BY <3>3 DEF segment, Store!New
  <2>3. request.run \notin InSlots
    BY <1>0, <1>2, CommissionLeaves DEF InSlots, Holding
  <2>4. Front(slots'[i]).root = request.run BY <2>1 DEF Committed
  <2>5. GoesOn(i) BY <2>1, <2>2, <2>3, <2>4 DEF GoesOn
  <2>6. letGo' = letGo /\ Placing(i) BY <1>2 DEF Commission, supervisorVars
  <2>7. Stays(i) BY <2>6, Displaced DEF Stays
  <2> QED BY <1>0, <1>2, <2>5, <2>6, <2>7, CommissionLeaves, SlotStep
<1>3. CASE CommissionCut(i)
  <2>1. Stays(i) BY <1>0, <1>3, CutLeaves, Displaced DEF Stays
  <2> QED BY <1>0, <1>3, <2>1, CutLeaves, SlotStep
<1>4. CASE EraseCut(i)
  <2>1. Stays(i) BY <1>0, <1>4, HalfLeaves DEF Stays
  <2> QED BY <1>0, <1>4, <2>1, HalfLeaves, SlotStep
<1> QED BY <1>1, <1>2, <1>3, <1>4

\* A step that writes no slot.
LEMMA QuietStep ==
  ASSUME UNCHANGED slots, letGo \subseteq letGo'
  PROVE  Store!Next
<1>1. \A root : Stored(root)' = Stored(root) BY DEF Stored, Concluded
<1>2. InSlots' = InSlots BY DEF InSlots
<1>3. Kept' \subseteq Kept /\ Kept \ Kept' \subseteq letGo' BY <1>2 DEF Kept
<1>4. \A root \in Kept' : StoredRuns'[root] = StoredRuns[root]
  BY <1>1, <1>3 DEF StoredRuns
<1>5. DOMAIN StoredRuns = Kept /\ DOMAIN StoredRuns' = Kept' BY DEF StoredRuns
<1>6. \A root \in Kept' : Store!Unchanged(root)
  BY <1>3, <1>4, <1>5 DEF Store!Unchanged, StoredRuns
<1>7. \A root \in Kept \ Kept' : Store!Droppable(root) BY <1>3 DEF Store!Droppable
<1> QED BY <1>5, <1>6, <1>7 DEF Store!Next, StoredRuns

\* Slot by slot, bank by bank, reset by reset, the flash keeps the promises of
\* a store of runs: a run is created once under one seed, has ever fewer turns
\* left until it ends, and goes only after it ended or was let go of.
THEOREM SlotsKeepRuns == Spec => StoreIsRunStore
<1>1. Init => Store!Init
  <2>1. SUFFICES ASSUME Init PROVE Store!Init OBVIOUS
  <2>2. InSlots = {} BY <2>1, BlankPairType DEF Init, InSlots
  <2>3. Kept = {} BY <2>2 DEF Kept
  <2>4. DOMAIN StoredRuns = {} BY <2>3 DEF StoredRuns
  <2> QED BY <2>1, <2>4 DEF Store!Init, Init, StoredRuns
<1>2. StoreInv /\ StoreInv' /\ [Next]_vars
        /\ (\A j \in Slots :
              Occupied(slots[j]) => Stored(Front(slots[j]).root) = View(Front(slots[j])))'
      => Store!Next
  <2>1. SUFFICES ASSUME StoreInv, StoreInv', [Next]_vars,
                        (\A j \in Slots : Occupied(slots[j]) =>
                           Stored(Front(slots[j]).root) = View(Front(slots[j])))'
                 PROVE  Store!Next
    OBVIOUS
  <2>2. IInv /\ IInv' BY <2>1 DEF StoreInv
  <2>3. CASE UNCHANGED slots /\ letGo \subseteq letGo' BY <2>3, QuietStep
  <2>4. ASSUME NEW i \in Slots,
               Drives(i) \/ Commission(i) \/ CommissionCut(i) \/ EraseCut(i)
        PROVE  Store!Next
    BY <2>1, <2>2, <2>4, WriteStep
  <2> QED BY <2>1, <2>2, <2>3, <2>4, StepWrites
<1>3. StoreInv =>
        \A j \in Slots :
          Occupied(slots[j]) => Stored(Front(slots[j]).root) = View(Front(slots[j]))
  BY StoredView DEF StoreInv
<1> QED BY <1>1, <1>2, <1>3, AlwaysStoreInv, PTL DEF Spec, StoreIsRunStore, Store!Spec

============================================================================
