------------------------- MODULE CheckpointsProofs -------------------------
(***************************************************************************)
(* Theorems of the item log and of the checkpoints over it, for every set  *)
(* of digests, every number of items and slots, and any number of cuts,    *)
(* faults and reinstalls.                                                  *)
(***************************************************************************)
EXTENDS Checkpoints, TLAPS

\* What the log's own operations keep of it: the areas' generations and
\* digests tell them apart, and a body left in the next slot of an area is of
\* an item all items before which are there whole.
SoundArea(area) ==
  /\ area \in Area
  /\ area.used <= Slots
  /\ area.gen = 0 => area = Headerless
  /\ area.gen # 0 => area.digest \in Digests
  /\ \A j \in area.tail, i \in Index : i < j => i \in area.whole

Sound(l) ==
  /\ l \in [Areas -> Area]
  /\ \A a \in Areas : SoundArea(l[a])
  /\ l[0].gen = l[1].gen => l[0].gen = 0
  /\ l[0].gen # 0 /\ l[1].gen # 0 => l[0].digest # l[1].digest

\* While a checkpoint is stored, the items answered for are whole in the area
\* of its digest, and the slot after them holds nothing but the next item.
Written(l, d, n) ==
  \E a \in Areas :
    /\ Holds(l[a], d)
    /\ \A i \in 0 .. n - 1 : i \in l[a].whole
    /\ l[a].tail \subseteq {n}

Inductive ==
  /\ TypeOK
  /\ Sound(log)
  /\ phase = "storing" /\ next # 0 => Written(log, content, next)
  /\ phase = "storing" => next <= Promised(content)

----------------------------------------------------------------------------
(* The log's operators.                                                    *)

LEMMA HeaderlessSound == SoundArea(Headerless)
BY LogAssumption DEF SoundArea, Headerless, FreshArea, Area, Index

\* Opening and erasing concern the area OlderArea names, and the other one is
\* without a header or of the newer generation.
LEMMA OlderIsOlder ==
  ASSUME NEW l, Sound(l)
  PROVE  /\ OlderArea(l) \in Areas
         /\ \A b \in Areas : b # OlderArea(l) =>
              \/ /\ l[b].gen < NextGeneration(l)
                 /\ l[OlderArea(l)].gen <= l[b].gen
              \/ l[OlderArea(l)].gen = 0
         /\ NextGeneration(l) \in Nat \ {0}
         /\ \A b \in Areas : l[b].gen < NextGeneration(l)
<1>1. l[0].gen \in Nat /\ l[1].gen \in Nat
  BY DEF Sound, Areas, Area
<1>2. QED
  BY <1>1 DEF OlderArea, NextGeneration, Areas

LEMMA ErasedSound ==
  ASSUME NEW l, Sound(l)
  PROVE  Sound(Erased(l))
<1> DEFINE e == Erased(l)
<1>1. OlderArea(l) \in {0, 1}
  BY OlderIsOlder DEF Areas
<1>2. \A a \in Areas : e[a] = IF a = OlderArea(l) THEN Headerless ELSE l[a]
  BY DEF Erased, Sound
<1>3. e \in [Areas -> Area]
  BY HeaderlessSound DEF Erased, Sound, SoundArea
<1>4. \A a \in Areas : SoundArea(e[a])
  BY <1>2, HeaderlessSound DEF Sound
<1>5. (e[0].gen = e[1].gen => e[0].gen = 0) /\ (e[0].gen = 0 \/ e[1].gen = 0)
  BY <1>1, <1>2 DEF Areas, Headerless, FreshArea
<1>6. QED
  BY <1>3, <1>4, <1>5 DEF Sound

LEMMA OpenedSound ==
  ASSUME NEW l, Sound(l), NEW d \in Digests, Find(l, d) = {}
  PROVE  /\ Sound(Opened(l, d))
         /\ Find(Opened(l, d), d) = {OlderArea(l)}
         /\ OlderArea(l) \in Areas
         /\ Opened(l, d)[OlderArea(l)] =
              FreshArea(NextGeneration(l), d)
<1> DEFINE o == Opened(l, d)
           fresh == FreshArea(NextGeneration(l), d)
<1>0. NextGeneration(l) \in Nat \ {0} /\ OlderArea(l) \in {0, 1}
      /\ \A b \in Areas : l[b].gen < NextGeneration(l)
  BY OlderIsOlder DEF Areas
<1>1. fresh = [gen |-> NextGeneration(l), digest |-> d, used |-> 0,
               whole |-> {}, tail |-> {}, ended |-> FALSE]
  BY DEF FreshArea
<1>2. fresh \in Area
  BY <1>0, <1>1 DEF Area
<1>3. SoundArea(fresh)
  BY <1>0, <1>1, <1>2, LogAssumption DEF SoundArea
<1>4. \A a \in Areas : o[a] = IF a = OlderArea(l) THEN fresh ELSE l[a]
  BY DEF Opened, Sound
<1>5. o \in [Areas -> Area]
  BY <1>2 DEF Opened, Sound
<1>6. \A a \in Areas : SoundArea(o[a])
  BY <1>3, <1>4 DEF Sound
<1>7. \A b \in Areas : b # OlderArea(l) => o[b].gen # fresh.gen
  BY <1>0, <1>1, <1>4 DEF Sound, Area, SoundArea
<1>8. \A b \in Areas : b # OlderArea(l) => ~Holds(o[b], d)
  BY <1>4 DEF Find
<1>9. fresh.gen # 0 /\ fresh.digest = d
  BY <1>0, <1>1
<1> HIDE DEF fresh
<1>10. o[0].gen # o[1].gen
  BY <1>0, <1>4, <1>7, <1>9 DEF Areas
<1>11. o[0].gen # 0 /\ o[1].gen # 0 => o[0].digest # o[1].digest
  BY <1>0, <1>4, <1>8, <1>9 DEF Areas, Holds
<1>12. Find(o, d) = {OlderArea(l)}
  BY <1>0, <1>4, <1>8, <1>9 DEF Find, Holds, Areas
<1>13. OlderArea(l) \in Areas /\ o[OlderArea(l)] = fresh
  BY <1>0, <1>4 DEF Areas
<1>14. Sound(o)
  BY <1>5, <1>6, <1>10, <1>11 DEF Sound
<1>15. QED
  BY <1>12, <1>13, <1>14 DEF fresh

\* A store works in the one area that holds its digest.
LEMMA ReadySound ==
  ASSUME NEW l, Sound(l), NEW d \in Digests
  PROVE  /\ Sound(Ready(l, d))
         /\ \E a \in Areas : Find(Ready(l, d), d) = {a}
         /\ Find(l, d) # {} => Ready(l, d) = l
<1>1. CASE Find(l, d) = {}
  BY <1>1, OpenedSound DEF Ready
<1>2. CASE Find(l, d) # {}
  <2>1. PICK a \in Areas : Holds(l[a], d)
    BY <1>2 DEF Find
  <2>2. \A b \in Areas : Holds(l[b], d) => b = a
    BY <2>1 DEF Sound, Holds, Areas
  <2>3. Find(l, d) = {a}
    BY <2>1, <2>2 DEF Find
  <2>4. QED
    BY <1>2, <2>3 DEF Ready
<1>3. QED
  BY <1>1, <1>2

\* Replacing an area by a sound one under the same header.
Put(l, a, left) == [b \in Areas |-> IF b = a THEN left ELSE l[b]]

SameHeader(left, area) == left.gen = area.gen /\ left.digest = area.digest

LEMMA PutSound ==
  ASSUME NEW l, Sound(l), NEW a \in Areas, NEW left,
         SoundArea(left), SameHeader(left, l[a])
  PROVE  /\ Sound(Put(l, a, left))
         /\ \A d : Find(Put(l, a, left), d) = Find(l, d)
<1>1. \A b \in Areas : Put(l, a, left)[b] = IF b = a THEN left ELSE l[b]
  BY DEF Put
<1>2. Put(l, a, left) \in [Areas -> Area]
  BY DEF Put, SoundArea, Sound
<1>3. \A b \in Areas : SoundArea(Put(l, a, left)[b])
  BY <1>1 DEF Sound
<1>4. \A b \in Areas : SameHeader(Put(l, a, left)[b], l[b])
  BY <1>1 DEF SameHeader
<1>5. \A d : Find(Put(l, a, left), d) = Find(l, d)
  BY <1>4 DEF Find, Holds, SameHeader
<1>6. 0 \in Areas /\ 1 \in Areas
  BY DEF Areas
<1>7. QED
  BY <1>2, <1>3, <1>4, <1>5, <1>6 DEF Sound, SameHeader

----------------------------------------------------------------------------
(* What a store leaves in the area it works in.                            *)

\* An item is appended after all items before it, unless it is a first one.
LEMMA AppendedArea ==
  ASSUME NEW area, SoundArea(area), area.gen # 0, NEW i \in Index, HasRoom(area)
  PROVE  LET left == Appended(area, i)
         IN  /\ SoundArea(left) /\ SameHeader(left, area) /\ left.tail = {}
             /\ left.whole = IF area.tail \subseteq {i}
                             THEN area.whole \cup {i} ELSE area.whole
<1> DEFINE left == Appended(area, i)
           w == IF area.tail \subseteq {i} THEN area.whole \cup {i} ELSE area.whole
<1>1. area \in Area
  BY DEF SoundArea
<1>2. area.used + 1 \in Nat /\ w \in SUBSET Index
  BY <1>1 DEF Area
<1>3. left \in Area
  BY <1>1, <1>2, Zenon DEF Appended, Area
<1>8. left.used = area.used + 1
  BY <1>1 DEF Appended, Area
<1>9. left.whole = w
  BY <1>1 DEF Appended, Area
<1>10. left.gen = area.gen /\ left.digest = area.digest
  BY <1>1 DEF Appended, Area
<1>11. left.tail = {}
  BY <1>1 DEF Appended, Area
<1>4. left.used <= Slots
  BY <1>1, <1>8, LogAssumption DEF HasRoom, Area
<1>6. SoundArea(left)
  BY <1>3, <1>4, <1>10, <1>11 DEF SoundArea
<1>7. QED
  BY <1>6, <1>9, <1>10, <1>11 DEF SameHeader

LEMMA TornArea ==
  ASSUME NEW area, SoundArea(area), area.gen # 0, HasRoom(area)
  PROVE  /\ SoundArea(HeadTorn(area)) /\ SameHeader(HeadTorn(area), area)
         /\ HeadTorn(area).tail = {} /\ HeadTorn(area).whole = area.whole
         /\ SoundArea(LengthTorn(area)) /\ SameHeader(LengthTorn(area), area)
         /\ LengthTorn(area).tail = {} /\ LengthTorn(area).whole = area.whole
<1>1. area \in Area
  BY DEF SoundArea
<1>2. area.used + 1 \in Nat /\ {} \in SUBSET Index /\ TRUE \in BOOLEAN
  BY <1>1 DEF Area
<1>3. HeadTorn(area) \in Area /\ LengthTorn(area) \in Area
  BY <1>1, <1>2, Zenon DEF HeadTorn, LengthTorn, Area
<1>4. HeadTorn(area).used = area.used + 1 /\ LengthTorn(area).used = area.used
  BY <1>1 DEF HeadTorn, LengthTorn, Area
<1>5. HeadTorn(area).tail = {} /\ LengthTorn(area).tail = {}
  BY <1>1 DEF HeadTorn, LengthTorn, Area
<1>6. SameHeader(HeadTorn(area), area) /\ SameHeader(LengthTorn(area), area)
  BY <1>1 DEF HeadTorn, LengthTorn, Area, SameHeader
<1>7. HeadTorn(area).whole = area.whole /\ LengthTorn(area).whole = area.whole
  BY <1>1 DEF HeadTorn, LengthTorn, Area
<1>8. HeadTorn(area).used <= Slots /\ LengthTorn(area).used <= Slots
  BY <1>1, <1>4, LogAssumption DEF HasRoom, SoundArea, Area
<1>9. QED
  BY <1>3, <1>5, <1>6, <1>7, <1>8 DEF SoundArea, SameHeader

\* A body is laid only once all items before it are whole.
LEMMA LaidArea ==
  ASSUME NEW area, SoundArea(area), area.gen # 0, NEW n \in Index,
         \A i \in 0 .. n - 1 : i \in area.whole
  PROVE  /\ SoundArea(BodyLaid(area, n)) /\ SameHeader(BodyLaid(area, n), area)
         /\ BodyLaid(area, n).tail = area.tail \cup {n}
         /\ BodyLaid(area, n).whole = area.whole
<1>1. area \in Area
  BY DEF SoundArea
<1>2. area.tail \cup {n} \in SUBSET Index
  BY <1>1 DEF Area
<1>3. BodyLaid(area, n) \in Area
  BY <1>1, <1>2, Zenon DEF BodyLaid, Area
<1>7. BodyLaid(area, n).tail = area.tail \cup {n}
  BY <1>1 DEF BodyLaid, Area
<1>8. BodyLaid(area, n).whole = area.whole /\ BodyLaid(area, n).used = area.used
  BY <1>1 DEF BodyLaid, Area
<1>9. SameHeader(BodyLaid(area, n), area)
  BY <1>1 DEF BodyLaid, Area, SameHeader
<1>4. \A i \in Index : i < n => i \in 0 .. n - 1
  BY LogAssumption DEF Index
<1>5. \A j \in area.tail \cup {n}, i \in Index : i < j => i \in area.whole
  BY <1>4 DEF SoundArea
<1>6. QED
  BY <1>3, <1>5, <1>7, <1>8, <1>9 DEF SoundArea, SameHeader

----------------------------------------------------------------------------
(* What a store makes of the log.                                          *)

\* The area a store works in has everything stored before it, and room.
LEMMA ReadyArea ==
  ASSUME NEW l, Sound(l), NEW d \in Digests, NEW n \in Index,
         n # 0 => Written(l, d, n)
  PROVE  \E a \in Areas :
           LET ready == Ready(l, d)
           IN  /\ Find(ready, d) = {a}
               /\ Sound(ready)
               /\ SoundArea(ready[a]) /\ ready[a].gen # 0
               /\ \A i \in 0 .. n - 1 : i \in ready[a].whole
               /\ n # 0 => ready[a].tail \subseteq {n}
               /\ StoreHasRoom(l, d) => HasRoom(ready[a])
<1> DEFINE ready == Ready(l, d)
<1>1. PICK a \in Areas : Find(ready, d) = {a}
  BY ReadySound
<1>2. Sound(ready) /\ SoundArea(ready[a]) /\ ready[a].gen # 0
  BY <1>1, ReadySound DEF Sound, Find, Holds
<1>3. /\ \A i \in 0 .. n - 1 : i \in ready[a].whole
      /\ n # 0 => ready[a].tail \subseteq {n}
  <2>1. CASE n = 0
    BY <2>1
  <2>2. CASE n # 0
    <3>1. PICK b \in Areas : /\ Holds(l[b], d)
                             /\ \A i \in 0 .. n - 1 : i \in l[b].whole
                             /\ l[b].tail \subseteq {n}
      BY <2>2 DEF Written
    <3>2. Find(l, d) # {} /\ b \in Find(l, d)
      BY <3>1 DEF Find
    <3>3. ready = l /\ b = a
      BY <1>1, <3>2, ReadySound
    <3>4. QED
      BY <3>1, <3>3
  <2>3. QED
    BY <2>1, <2>2
<1>4. ASSUME StoreHasRoom(l, d) PROVE HasRoom(ready[a])
  <2>1. CASE Find(l, d) # {}
    BY <1>1, <1>4, <2>1, ReadySound DEF StoreHasRoom
  <2>2. CASE Find(l, d) = {}
    <3>1. ready[a] = FreshArea(NextGeneration(l), d)
      BY <1>1, <2>2, OpenedSound DEF Ready
    <3>2. QED
      BY <3>1, LogAssumption DEF HasRoom, FreshArea
  <2>3. QED
    BY <2>1, <2>2
<1>5. QED
  BY <1>1, <1>2, <1>3, <1>4

LEMMA PutWritten ==
  ASSUME NEW l, Sound(l), NEW a \in Areas, NEW left, NEW d, NEW n \in Nat,
         SameHeader(left, l[a]), Find(l, d) = {a},
         \A i \in 0 .. n - 1 : i \in left.whole, left.tail \subseteq {n}
  PROVE  Written(Put(l, a, left), d, n)
BY DEF Written, Put, Holds, SameHeader, Find

LEMMA StoredKeeps ==
  ASSUME NEW l, Sound(l), NEW d \in Digests, NEW n \in Index,
         n # 0 => Written(l, d, n), StoreHasRoom(l, d)
  PROVE  /\ Sound(Stored(l, d, n))
         /\ Written(Stored(l, d, n), d, n + 1)
<1> DEFINE ready == Ready(l, d)
<1>1. PICK a \in Areas :
        /\ Find(ready, d) = {a} /\ Sound(ready)
        /\ SoundArea(ready[a]) /\ ready[a].gen # 0
        /\ \A i \in 0 .. n - 1 : i \in ready[a].whole
        /\ n # 0 => ready[a].tail \subseteq {n}
        /\ HasRoom(ready[a])
  BY ReadyArea
<1> DEFINE left == Appended(ready[a], n)
<1> HIDE DEF ready
<1>2. /\ SoundArea(left) /\ SameHeader(left, ready[a]) /\ left.tail = {}
      /\ left.whole = IF ready[a].tail \subseteq {n}
                      THEN ready[a].whole \cup {n} ELSE ready[a].whole
  BY <1>1, AppendedArea
<1>3. Stored(l, d, n) = Put(ready, a, left)
  BY <1>1 DEF Stored, Put, ready
<1>4. n \in left.whole
  <2>1. CASE ready[a].tail \subseteq {n}
    BY <1>2, <2>1
  <2>2. CASE ~(ready[a].tail \subseteq {n})
    <3>1. n = 0
      BY <1>1, <2>2
    <3>2. PICK j \in ready[a].tail : j # 0
      BY <2>2, <3>1
    <3>3. j \in Index /\ n < j
      BY <1>1, <3>1, <3>2 DEF SoundArea, Area, Index
    <3>4. QED
      BY <1>1, <1>2, <3>2, <3>3 DEF SoundArea
  <2>3. QED
    BY <2>1, <2>2
<1>5. \A i \in 0 .. (n + 1) - 1 : i \in left.whole
  <2> SUFFICES ASSUME NEW i \in 0 .. (n + 1) - 1 PROVE i \in left.whole
    OBVIOUS
  <2>1. i = n \/ i \in 0 .. n - 1
    BY LogAssumption DEF Index
  <2>2. QED
    BY <1>1, <1>2, <1>4, <2>1
<1>6. n + 1 \in Nat
  BY DEF Index
<1> HIDE DEF left
<1>7. Written(Put(ready, a, left), d, n + 1)
  BY <1>1, <1>2, <1>5, <1>6, PutWritten
<1>8. QED
  BY <1>1, <1>2, <1>3, <1>7, PutSound

LEMMA TornStoreKeeps ==
  ASSUME NEW l, Sound(l), NEW d \in Digests, NEW n \in Index,
         n # 0 => Written(l, d, n), StoreHasRoom(l, d)
  PROVE  /\ Sound(TornStore(l, d))
         /\ n # 0 => Written(TornStore(l, d), d, n)
<1> DEFINE ready == Ready(l, d)
<1>1. PICK a \in Areas :
        /\ Find(ready, d) = {a} /\ Sound(ready)
        /\ SoundArea(ready[a]) /\ ready[a].gen # 0
        /\ \A i \in 0 .. n - 1 : i \in ready[a].whole
        /\ HasRoom(ready[a])
  BY ReadyArea
<1> DEFINE left == LengthTorn(ready[a])
<1> HIDE DEF ready
<1>2. /\ SoundArea(left) /\ SameHeader(left, ready[a])
      /\ left.tail = {} /\ left.whole = ready[a].whole
  BY <1>1, TornArea
<1>3. TornStore(l, d) = Put(ready, a, left)
  BY <1>1 DEF TornStore, Put, ready
<1>4. n \in Nat
  BY DEF Index
<1> HIDE DEF left
<1>5. Written(Put(ready, a, left), d, n)
  BY <1>1, <1>2, <1>4, PutWritten
<1>6. QED
  BY <1>1, <1>2, <1>3, <1>5, PutSound

\* A store cut short leaves the older area erased, or the item's area as one
\* of the cuts of its append leaves it.
LEMMA CutIs ==
  ASSUME NEW l, Sound(l), NEW d \in Digests, NEW n \in Index,
         n # 0 => Written(l, d, n), NEW m \in CutStores(l, d, n)
  PROVE  \/ Find(l, d) = {} /\ m \in {l, Erased(l)}
         \/ \E a \in Areas :
              LET ready == Ready(l, d)
              IN  /\ Find(ready, d) = {a} /\ Sound(ready)
                  /\ \E left \in CutAppends(ready[a], n) :
                       /\ m = Put(ready, a, left)
                       /\ SoundArea(left) /\ SameHeader(left, ready[a])
                       /\ left.whole \in {ready[a].whole, ready[a].whole \cup {n}}
                       /\ n # 0 => left.tail \subseteq {n}
                       /\ \A i \in 0 .. n - 1 : i \in left.whole
<1> DEFINE ready == Ready(l, d)
<1>1. PICK a \in Areas :
        /\ Find(ready, d) = {a} /\ Sound(ready)
        /\ SoundArea(ready[a]) /\ ready[a].gen # 0
        /\ \A i \in 0 .. n - 1 : i \in ready[a].whole
        /\ n # 0 => ready[a].tail \subseteq {n}
  BY ReadyArea
<1>2. CASE m \in {l, Erased(l)} /\ ready # l
  BY <1>2 DEF Ready
<1>3. CASE \E left \in CutAppends(ready[a], n) : m = Put(ready, a, left)
  <2>1. PICK left \in CutAppends(ready[a], n) : m = Put(ready, a, left)
    BY <1>3
  <2> HIDE DEF ready
  <2>2. /\ SoundArea(left) /\ SameHeader(left, ready[a])
        /\ left.whole \in {ready[a].whole, ready[a].whole \cup {n}}
        /\ n # 0 => left.tail \subseteq {n}
    <3>1. CASE left = ready[a]
      BY <1>1, <3>1 DEF SameHeader
    <3>2. CASE left = BodyLaid(ready[a], n)
      BY <1>1, <3>2, LaidArea
    <3>3. CASE HasRoom(ready[a]) /\ left = HeadTorn(ready[a])
      BY <1>1, <3>3, TornArea
    <3>4. CASE HasRoom(ready[a]) /\ left = Appended(ready[a], n)
      BY <1>1, <3>4, AppendedArea
    <3>5. QED
      BY <2>1, <3>1, <3>2, <3>3, <3>4 DEF CutAppends
  <2>3. \A i \in 0 .. n - 1 : i \in left.whole
    BY <1>1, <2>2
  <2>4. QED
    BY <1>1, <2>1, <2>2, <2>3 DEF ready
<1>4. QED
  <2>1. \A left : [b \in Areas |-> IF b \in Find(ready, d) THEN left ELSE ready[b]]
                  = Put(ready, a, left)
    BY <1>1 DEF Put
  <2>2. UNION {CutAppends(ready[b], n) : b \in Find(ready, d)} = CutAppends(ready[a], n)
    BY <1>1
  <2>3. QED
    BY <1>2, <1>3, <2>1, <2>2 DEF CutStores

LEMMA CutKeeps ==
  ASSUME NEW l, Sound(l), NEW d \in Digests, NEW n \in Index,
         n # 0 => Written(l, d, n), NEW m \in CutStores(l, d, n)
  PROVE  Sound(m) /\ (n # 0 => Written(m, d, n))
<1>1. CASE Find(l, d) = {} /\ m \in {l, Erased(l)}
  BY <1>1, ErasedSound DEF Written, Find
<1>2. ASSUME NEW a \in Areas, NEW left,
             Find(Ready(l, d), d) = {a}, Sound(Ready(l, d)),
             m = Put(Ready(l, d), a, left),
             SoundArea(left), SameHeader(left, Ready(l, d)[a]),
             n # 0 => left.tail \subseteq {n},
             \A i \in 0 .. n - 1 : i \in left.whole
      PROVE  Sound(m) /\ (n # 0 => Written(m, d, n))
  BY <1>2, PutSound, PutWritten DEF Index
<1>3. QED
  BY <1>1, <1>2, CutIs

----------------------------------------------------------------------------
(* Every action keeps the inductive invariant.                             *)

LEMMA LogTyped ==
  ASSUME NEW l, Sound(l)
  PROVE  l \in [Areas -> Area] /\ \A a \in Areas : l[a].used <= Slots
BY DEF Sound, SoundArea

LEMMA InitInductive == Init => Inductive
<1> SUFFICES ASSUME Init PROVE Inductive
  OBVIOUS
<1>1. Sound(log)
  <2>1. Headerless \in Area /\ Headerless.gen = 0
    BY HeaderlessSound DEF SoundArea, Headerless, FreshArea
  <2>2. log \in [Areas -> Area] /\ \A a \in Areas : log[a] = Headerless
    BY <2>1 DEF Init
  <2>3. log[0].gen = 0 /\ log[1].gen = 0
    BY <2>1, <2>2 DEF Areas
  <2>4. QED
    BY <2>2, <2>3, HeaderlessSound DEF Sound
<1>2. next \in 0 .. Items /\ mishaps \in 0 .. MaxMishaps
  BY LogAssumption, CheckpointAssumption DEF Init
<1>3. QED
  BY <1>1, <1>2, LogTyped DEF Init, Inductive, TypeOK

\* A step that stores: an item is left to store, and the log is as its last
\* answer says.
LEMMA StoringFacts ==
  ASSUME Inductive, Storing
  PROVE  /\ content \in Digests /\ next \in Index /\ next + 1 \in 0 .. Items
         /\ next # 0 => Written(log, content, next)
         /\ Promised(content) = Items
BY LogAssumption DEF Inductive, TypeOK, Storing, Promised, Index

LEMMA StoreItemKeeps == Inductive /\ StoreItem => Inductive'
<1> SUFFICES ASSUME Inductive, StoreItem PROVE Inductive'
  OBVIOUS
<1>1. Storing /\ StoreHasRoom(log, content) /\ Sound(log)
  BY DEF StoreItem, Inductive
<1>2. Sound(log') /\ Written(log', content, next + 1)
  BY <1>1, StoringFacts, StoredKeeps DEF StoreItem
<1>3. TypeOK'
  BY <1>1, <1>2, LogTyped, StoringFacts DEF StoreItem, Inductive, TypeOK
<1>4. next' <= Promised(content')
  BY <1>1, StoringFacts, LogAssumption DEF StoreItem
<1>5. QED
  BY <1>2, <1>3, <1>4 DEF Inductive, StoreItem

LEMMA StoreFaultsKeeps == Inductive /\ StoreFaults => Inductive'
<1> SUFFICES ASSUME Inductive, StoreFaults PROVE Inductive'
  OBVIOUS
<1>1. Storing /\ Sound(log) /\ log' \in CutStores(log, content, next)
  BY DEF StoreFaults, Inductive
<1>2. Sound(log')
  BY <1>1, StoringFacts, CutKeeps
<1>3. mishaps' \in 0 .. MaxMishaps
  BY CheckpointAssumption DEF StoreFaults, Mishap, Inductive, TypeOK
<1>4. QED
  BY <1>2, <1>3, LogTyped, LogAssumption
     DEF StoreFaults, Abandon, Inductive, TypeOK

LEMMA StoreCutKeeps == Inductive /\ StoreCut => Inductive'
<1> SUFFICES ASSUME Inductive, StoreCut PROVE Inductive'
  OBVIOUS
<1>1. Storing /\ Sound(log) /\ log' \in CutStores(log, content, next)
  BY DEF StoreCut, Inductive
<1>2. Sound(log') /\ (next # 0 => Written(log', content, next))
  BY <1>1, StoringFacts, CutKeeps
<1>3. mishaps' \in 0 .. MaxMishaps
  BY CheckpointAssumption DEF StoreCut, Mishap, Inductive, TypeOK
<1>4. QED
  BY <1>2, <1>3, LogTyped DEF StoreCut, Inductive, TypeOK

LEMMA StoreTornKeeps == Inductive /\ StoreTorn => Inductive'
<1> SUFFICES ASSUME Inductive, StoreTorn PROVE Inductive'
  OBVIOUS
<1>1. Storing /\ Sound(log) /\ StoreHasRoom(log, content)
      /\ log' = TornStore(log, content)
  BY DEF StoreTorn, Inductive
<1>2. Sound(log') /\ (next # 0 => Written(log', content, next))
  BY <1>1, StoringFacts, TornStoreKeeps
<1>3. mishaps' \in 0 .. MaxMishaps
  BY CheckpointAssumption DEF StoreTorn, Mishap, Inductive, TypeOK
<1>4. QED
  BY <1>2, <1>3, LogTyped DEF StoreTorn, Inductive, TypeOK

LEMMA StepInductive == Inductive /\ [Next]_vars => Inductive'
<1> SUFFICES ASSUME Inductive, [Next]_vars PROVE Inductive'
  OBVIOUS
<1> USE LogAssumption
<1>1. CASE LoadItem
  <2>1. next' \in 0 .. Items
    BY <1>1 DEF LoadItem, Promised, Inductive, TypeOK
  <2>2. QED
    BY <1>1, <2>1 DEF LoadItem, Inductive, TypeOK
<1>2. CASE LoadMissing
  BY <1>2 DEF LoadMissing, Inductive, TypeOK
<1>3. CASE Loaded
  BY <1>3 DEF Loaded, Inductive, TypeOK
<1>4. CASE Beats
  <2>1. content' \in Digests \cup {NoDigest} /\ 0 <= Promised(content')
    BY <1>4 DEF Beats, Reachable, Promised
  <2>2. QED
    BY <1>4, <2>1 DEF Beats, Inductive, TypeOK
<1>5. CASE StoreItem
  BY <1>5, StoreItemKeeps
<1>6. CASE StoreFull
  BY <1>6 DEF StoreFull, Abandon, Inductive, TypeOK
<1>7. CASE ContinueAsNew
  BY <1>7 DEF ContinueAsNew, Inductive, TypeOK
<1>8. CASE StoreFaults
  BY <1>8, StoreFaultsKeeps
<1>9. CASE StoreCut
  BY <1>9, StoreCutKeeps
<1>10. CASE StoreTorn
  BY <1>10, StoreTornKeeps
<1>11. CASE Reinstall
  BY <1>11, CheckpointAssumption DEF Reinstall, Mishap, Inductive, TypeOK
<1>12. CASE UNCHANGED vars
  BY <1>12 DEF vars, Inductive, TypeOK
<1>13. QED
  BY <1>1, <1>2, <1>3, <1>4, <1>5, <1>6, <1>7, <1>8, <1>9, <1>10, <1>11, <1>12
     DEF Next, Progress

\* The invariant the theorems below rest on.
THEOREM CheckpointsInductive == Spec => []Inductive
BY InitInductive, StepInductive, PTL DEF Spec

\* Types, the slots an area has, and the mishaps' bound (ItemLog::store).
THEOREM CheckpointsTyped == Spec => []TypeOK
<1>1. Inductive => TypeOK
  BY DEF Inductive
<1>2. QED
  BY <1>1, CheckpointsInductive, PTL

\* Every item of the checkpoint a STORE has answered for is loadable, however
\* many resets, faults and reinstalls came before (store_checkpoint over
\* ItemLog::store).
THEOREM AnsweredItemsLoad == Spec => []AnsweredIsLoadable
<1>1. Inductive => AnsweredIsLoadable
  <2> SUFFICES ASSUME Inductive, phase = "storing", NEW i \in 0 .. next - 1
               PROVE  Loadable(log, content, i)
    BY DEF AnsweredIsLoadable
  <2>1. next # 0
    BY DEF Inductive, TypeOK
  <2>2. QED
    BY <2>1 DEF Inductive, Written, Loadable, Find
<1>2. QED
  BY <1>1, CheckpointsInductive, PTL

----------------------------------------------------------------------------
(* The log implements the item store.                                      *)

KeepStep(k, m) ==
  \E n \in DOMAIN k, i \in Index : m = [k EXCEPT ![n].items = @ \cup {i}]

OpenStep(k, m) ==
  \E d \in Digests \ {k[n].digest : n \in DOMAIN k},
     items \in {{}} \cup {{i} : i \in Index} :
    m = Append(IF Len(k) = 2 THEN Tail(k) ELSE k, [digest |-> d, items |-> items])

RetireStep(k, m) == Len(k) = 2 /\ m = Tail(k)

StoreStep(l, m) ==
  \/ KeptOf(m) = KeptOf(l)
  \/ KeepStep(KeptOf(l), KeptOf(m))
  \/ OpenStep(KeptOf(l), KeptOf(m))
  \/ RetireStep(KeptOf(l), KeptOf(m))

\* How the kept digests read off the two areas.
LEMMA KeptCases ==
  ASSUME NEW l, Sound(l), NEW o \in Areas, NEW w \in Areas, o # w,
         l[o].gen <= l[w].gen
  PROVE  KeptOf(l) = IF l[w].gen = 0 THEN <<>>
                     ELSE IF l[o].gen = 0 THEN <<Summary(l[w])>>
                     ELSE <<Summary(l[o]), Summary(l[w])>>
<1>1. l[0].gen \in Nat /\ l[1].gen \in Nat
  BY DEF Sound, Areas, Area
<1>2. (o = 0 /\ w = 1) \/ (o = 1 /\ w = 0)
  BY DEF Areas
<1>3. CASE o = 0 /\ w = 1
  BY <1>3 DEF KeptOf
<1>4. CASE o = 1 /\ w = 0 /\ l[0].gen # l[1].gen
  BY <1>1, <1>4 DEF KeptOf
<1>5. CASE o = 1 /\ w = 0 /\ l[0].gen = l[1].gen
  BY <1>1, <1>5 DEF KeptOf, Sound
<1>6. QED
  BY <1>2, <1>3, <1>4, <1>5

\* An older and a newer area.
LEMMA Ordered ==
  ASSUME NEW l, Sound(l)
  PROVE  \E o, w \in Areas : o # w /\ l[o].gen <= l[w].gen
BY DEF Sound, Areas, Area

LEMMA GrownSummary ==
  ASSUME NEW area, NEW left, SameHeader(left, area), NEW n,
         left.whole = area.whole \cup {n}
  PROVE  Summary(left) = [Summary(area) EXCEPT !.items = @ \cup {n}]
BY DEF SameHeader, Summary

\* An append adds its item to what is kept, or nothing.
LEMMA PutIsStep ==
  ASSUME NEW l, Sound(l), NEW a \in Areas, l[a].gen # 0, NEW n \in Index,
         NEW left, SoundArea(left), SameHeader(left, l[a]),
         left.whole \in {l[a].whole, l[a].whole \cup {n}}
  PROVE  StoreStep(l, Put(l, a, left))
<1> DEFINE m == Put(l, a, left)
<1>1. Sound(m) /\ \A b \in Areas : m[b] = IF b = a THEN left ELSE l[b]
  BY PutSound DEF Put
<1>2. PICK o \in Areas, w \in Areas : o # w /\ l[o].gen <= l[w].gen
  BY Ordered
<1>3. m[o].gen = l[o].gen /\ m[w].gen = l[w].gen
  BY <1>1 DEF SameHeader
<1> HIDE DEF m
<1>4. KeptOf(l) = IF l[w].gen = 0 THEN <<>>
                  ELSE IF l[o].gen = 0 THEN <<Summary(l[w])>>
                  ELSE <<Summary(l[o]), Summary(l[w])>>
  BY <1>2, KeptCases
<1>5. KeptOf(m) = IF l[w].gen = 0 THEN <<>>
                  ELSE IF l[o].gen = 0 THEN <<Summary(m[w])>>
                  ELSE <<Summary(m[o]), Summary(m[w])>>
  BY <1>1, <1>2, <1>3, KeptCases
<1>6. a = o \/ a = w
  BY <1>2 DEF Areas
<1>7. CASE left.whole = l[a].whole
  <2>1. Summary(left) = Summary(l[a])
    BY <1>7 DEF Summary, SameHeader
  <2>2. KeptOf(m) = KeptOf(l)
    BY <1>1, <1>4, <1>5, <2>1
  <2>3. QED
    BY <2>2 DEF StoreStep, m
<1>8. CASE left.whole = l[a].whole \cup {n}
  <2>1. Summary(left) = [Summary(l[a]) EXCEPT !.items = @ \cup {n}]
    BY <1>8, GrownSummary
  <2>2. \E p \in DOMAIN KeptOf(l) :
          KeptOf(l)[p] = Summary(l[a]) /\ KeptOf(m) = [KeptOf(l) EXCEPT ![p] = Summary(left)]
    <3>1. CASE a = w /\ l[o].gen = 0
      <4>1. KeptOf(l) = <<Summary(l[w])>> /\ KeptOf(m) = <<Summary(left)>>
        BY <1>1, <1>4, <1>5, <3>1
      <4>2. QED
        BY <4>1, <3>1
    <3>2. CASE a = w /\ l[o].gen # 0
      <4>1. KeptOf(l) = <<Summary(l[o]), Summary(l[w])>>
            /\ KeptOf(m) = <<Summary(l[o]), Summary(left)>>
        BY <1>1, <1>2, <1>4, <1>5, <3>2
      <4>2. QED
        BY <4>1, <3>2
    <3>3. CASE a = o
      <4>1. l[w].gen # 0
        BY <1>2, <3>3 DEF Sound, Area
      <4>2. KeptOf(l) = <<Summary(l[o]), Summary(l[w])>>
            /\ KeptOf(m) = <<Summary(left), Summary(l[w])>>
        BY <1>1, <1>2, <1>4, <1>5, <3>3, <4>1
      <4>3. QED
        BY <4>2, <3>3
    <3>4. QED
      BY <1>6, <3>1, <3>2, <3>3
  <2>3. KeepStep(KeptOf(l), KeptOf(m))
    <3>1. PICK p \in DOMAIN KeptOf(l) :
            KeptOf(l)[p] = Summary(l[a]) /\ KeptOf(m) = [KeptOf(l) EXCEPT ![p] = Summary(left)]
      BY <2>2
    <3>2. [KeptOf(l) EXCEPT ![p].items = @ \cup {n}]
            = [KeptOf(l) EXCEPT ![p] = [KeptOf(l)[p] EXCEPT !.items = @ \cup {n}]]
      OBVIOUS
    <3>3. KeptOf(m) = [KeptOf(l) EXCEPT ![p].items = @ \cup {n}]
      BY <2>1, <3>1, <3>2
    <3>4. QED
      BY <3>3 DEF KeepStep
  <2>4. QED
    BY <2>3 DEF StoreStep, m
<1>9. QED
  BY <1>7, <1>8

\* Erasing retires the older digest, if both areas hold one.
LEMMA ErasedIsStep ==
  ASSUME NEW l, Sound(l)
  PROVE  StoreStep(l, Erased(l))
<1> DEFINE e == Erased(l)
           o == OlderArea(l)
           w == 1 - o
<1>1. o \in Areas /\ w \in Areas /\ o # w
  BY OlderIsOlder DEF Areas
<1>2. Sound(e) /\ e[o] = Headerless /\ e[w] = l[w]
  BY <1>1, ErasedSound DEF Erased, Sound
<1>3. e[o].gen = 0 /\ e[w].gen \in Nat /\ l[o].gen \in Nat /\ e[o].gen <= e[w].gen
  BY <1>1, <1>2 DEF Headerless, FreshArea, Sound, Area
<1>4. l[o].gen <= l[w].gen \/ l[o].gen = 0
  BY <1>1, OlderIsOlder
<1>5. l[o].gen <= l[w].gen
  BY <1>2, <1>3, <1>4
<1> HIDE DEF e, o, w
<1>6. KeptOf(l) = IF l[w].gen = 0 THEN <<>>
                  ELSE IF l[o].gen = 0 THEN <<Summary(l[w])>>
                  ELSE <<Summary(l[o]), Summary(l[w])>>
  BY <1>1, <1>5, KeptCases
<1>7. KeptOf(e) = IF l[w].gen = 0 THEN <<>> ELSE <<Summary(l[w])>>
  BY <1>1, <1>2, <1>3, KeptCases
<1>8. CASE l[o].gen = 0 \/ l[w].gen = 0
  BY <1>6, <1>7, <1>8 DEF StoreStep, e
<1>9. CASE l[o].gen # 0 /\ l[w].gen # 0
  <2>1. KeptOf(l) = <<Summary(l[o]), Summary(l[w])>> /\ KeptOf(e) = <<Summary(l[w])>>
    BY <1>6, <1>7, <1>9
  <2>2. RetireStep(KeptOf(l), KeptOf(e))
    BY <2>1 DEF RetireStep
  <2>3. QED
    BY <2>2 DEF StoreStep, e
<1>10. QED
  BY <1>8, <1>9

\* A new digest takes the place of the older one.
LEMMA OpenedIsStep ==
  ASSUME NEW l, Sound(l), NEW d \in Digests, Find(l, d) = {}, NEW n \in Index,
         NEW left, SoundArea(left), SameHeader(left, Opened(l, d)[OlderArea(l)]),
         left.whole \in {{}, {n}}
  PROVE  StoreStep(l, Put(Opened(l, d), OlderArea(l), left))
<1> DEFINE o == OlderArea(l)
           w == 1 - o
           m == Put(Opened(l, d), o, left)
<1>1. o \in Areas /\ w \in Areas /\ o # w
  BY OlderIsOlder DEF Areas
<1>2. Sound(m) /\ m[o] = left /\ m[w] = l[w]
  <2>1. Sound(Opened(l, d))
    BY OpenedSound
  <2>2. Sound(Put(Opened(l, d), OlderArea(l), left))
    BY <1>1, <2>1, PutSound
  <2>3. Opened(l, d)[w] = l[w]
    BY <1>1 DEF Opened, Sound
  <2>4. QED
    BY <1>1, <2>2, <2>3 DEF Put
<1>3. left.gen = NextGeneration(l) /\ left.digest = d
  <2>1. Opened(l, d)[OlderArea(l)] = FreshArea(NextGeneration(l), d)
    BY OpenedSound
  <2>2. SameHeader(left, FreshArea(NextGeneration(l), d))
    BY <2>1
  <2>3. QED
    BY <2>2 DEF SameHeader, FreshArea
<1>4. left.gen # 0 /\ l[w].gen <= left.gen /\ l[o].gen \in Nat /\ l[w].gen \in Nat
  BY <1>1, <1>3, OlderIsOlder DEF Sound, Area
<1>5. l[o].gen <= l[w].gen
  BY <1>1, <1>4, OlderIsOlder
<1>6. Summary(left) = [digest |-> d, items |-> left.whole]
  BY <1>3 DEF Summary
<1>7. (l[o].gen # 0 => l[o].digest # d) /\ (l[w].gen # 0 => l[w].digest # d)
  BY <1>1 DEF Find, Holds
<1> HIDE DEF m, o, w
<1>8. KeptOf(l) = IF l[w].gen = 0 THEN <<>>
                  ELSE IF l[o].gen = 0 THEN <<Summary(l[w])>>
                  ELSE <<Summary(l[o]), Summary(l[w])>>
  BY <1>1, <1>5, KeptCases
<1>9. KeptOf(m) = IF l[w].gen = 0 THEN <<Summary(left)>>
                  ELSE <<Summary(l[w]), Summary(left)>>
  BY <1>1, <1>2, <1>4, KeptCases
<1>10. KeptOf(m) = Append(IF Len(KeptOf(l)) = 2 THEN Tail(KeptOf(l)) ELSE KeptOf(l),
                          Summary(left))
  <2>1. CASE l[w].gen = 0
    BY <1>8, <1>9, <2>1
  <2>2. CASE l[w].gen # 0 /\ l[o].gen = 0
    BY <1>8, <1>9, <2>2
  <2>3. CASE l[w].gen # 0 /\ l[o].gen # 0
    BY <1>8, <1>9, <2>3
  <2>4. QED
    BY <2>1, <2>2, <2>3
<1>11. d \notin {KeptOf(l)[p].digest : p \in DOMAIN KeptOf(l)}
  BY <1>4, <1>5, <1>7, <1>8 DEF Summary
<1>12. OpenStep(KeptOf(l), KeptOf(m))
  BY <1>6, <1>10, <1>11 DEF OpenStep
<1>13. QED
  BY <1>12 DEF StoreStep, m, o

\* Whatever a store leaves behind in the area it works in is a step.
LEMMA ReadyPutIsStep ==
  ASSUME NEW l, Sound(l), NEW d \in Digests, NEW n \in Index, NEW a \in Areas,
         Find(Ready(l, d), d) = {a}, Sound(Ready(l, d)),
         NEW left, SoundArea(left), SameHeader(left, Ready(l, d)[a]),
         left.whole \in {Ready(l, d)[a].whole, Ready(l, d)[a].whole \cup {n}}
  PROVE  StoreStep(l, Put(Ready(l, d), a, left))
<1>1. CASE Find(l, d) # {}
  <2>1. Ready(l, d) = l /\ l[a].gen # 0
    BY <1>1, ReadySound DEF Find, Holds
  <2>2. QED
    BY <2>1, PutIsStep
<1>2. CASE Find(l, d) = {}
  <2>1. Ready(l, d) = Opened(l, d)
    BY <1>2 DEF Ready
  <2>2. a = OlderArea(l) /\ Opened(l, d)[a] = FreshArea(NextGeneration(l), d)
    BY <1>2, <2>1, OpenedSound
  <2>3. left.whole \in {{}, {n}}
    BY <2>1, <2>2 DEF FreshArea
  <2>4. QED
    BY <1>2, <2>1, <2>2, <2>3, OpenedIsStep
<1>3. QED
  BY <1>1, <1>2

LEMMA StoredIsStep ==
  ASSUME NEW l, Sound(l), NEW d \in Digests, NEW n \in Index,
         n # 0 => Written(l, d, n), StoreHasRoom(l, d)
  PROVE  StoreStep(l, Stored(l, d, n)) /\ StoreStep(l, TornStore(l, d))
<1> DEFINE ready == Ready(l, d)
<1>1. PICK a \in Areas :
        /\ Find(ready, d) = {a} /\ Sound(ready)
        /\ SoundArea(ready[a]) /\ ready[a].gen # 0 /\ HasRoom(ready[a])
  BY ReadyArea
<1>2. Stored(l, d, n) = Put(ready, a, Appended(ready[a], n))
      /\ TornStore(l, d) = Put(ready, a, LengthTorn(ready[a]))
  BY <1>1 DEF Stored, TornStore, Put
<1>3. /\ SoundArea(Appended(ready[a], n)) /\ SameHeader(Appended(ready[a], n), ready[a])
      /\ Appended(ready[a], n).whole \in {ready[a].whole, ready[a].whole \cup {n}}
  BY <1>1, AppendedArea
<1>4. /\ SoundArea(LengthTorn(ready[a])) /\ SameHeader(LengthTorn(ready[a]), ready[a])
      /\ LengthTorn(ready[a]).whole = ready[a].whole
  BY <1>1, TornArea
<1>5. StoreStep(l, Put(ready, a, Appended(ready[a], n)))
  BY <1>1, <1>3, ReadyPutIsStep
<1>6. StoreStep(l, Put(ready, a, LengthTorn(ready[a])))
  BY <1>1, <1>4, ReadyPutIsStep
<1>7. QED
  BY <1>2, <1>5, <1>6

LEMMA CutIsStep ==
  ASSUME NEW l, Sound(l), NEW d \in Digests, NEW n \in Index,
         n # 0 => Written(l, d, n), NEW m \in CutStores(l, d, n)
  PROVE  StoreStep(l, m)
<1>1. CASE Find(l, d) = {} /\ m \in {l, Erased(l)}
  BY <1>1, ErasedIsStep DEF StoreStep
<1>2. ASSUME NEW a \in Areas, NEW left,
             Find(Ready(l, d), d) = {a}, Sound(Ready(l, d)),
             m = Put(Ready(l, d), a, left),
             SoundArea(left), SameHeader(left, Ready(l, d)[a]),
             left.whole \in {Ready(l, d)[a].whole, Ready(l, d)[a].whole \cup {n}}
      PROVE  StoreStep(l, m)
  BY <1>2, ReadyPutIsStep
<1>3. QED
  BY <1>1, <1>2, CutIs

LEMMA StepIsStep ==
  ASSUME Inductive, [Next]_vars
  PROVE  StoreStep(log, log')
<1> USE DEF Inductive
<1>1. CASE StoreItem
  BY <1>1, StoringFacts, StoredIsStep DEF StoreItem
<1>2. CASE StoreFaults
  BY <1>2, StoringFacts, CutIsStep DEF StoreFaults
<1>3. CASE StoreCut
  BY <1>3, StoringFacts, CutIsStep DEF StoreCut
<1>4. CASE StoreTorn
  BY <1>4, StoringFacts, StoredIsStep DEF StoreTorn
<1>5. CASE log' = log
  BY <1>5 DEF StoreStep
<1>6. QED
  BY <1>1, <1>2, <1>3, <1>4, <1>5
     DEF Next, Progress, LoadItem, LoadMissing, Loaded, Beats, StoreFull,
         ContinueAsNew, Reinstall, vars

\* Through every reset and fault inside a store the log is the item store: an
\* item is kept at once or not at all, and only the older digest is ever lost
\* (ItemLog::open, ItemLog::store).
THEOREM LogImplementsStore == Spec => LogIsStore
<1>1. Init => Store!Init
  <2> SUFFICES ASSUME Init PROVE KeptOf(log) = <<>>
    BY DEF Store!Init
  <2>1. log[0] = Headerless /\ log[1] = Headerless
    BY DEF Init, Areas
  <2>2. QED
    BY <2>1 DEF KeptOf, Headerless, FreshArea
<1>2. Inductive /\ [Next]_vars => [Store!Next]_(KeptOf(log))
  <2> SUFFICES ASSUME Inductive, [Next]_vars
               PROVE  Store!Next \/ KeptOf(log)' = KeptOf(log)
    OBVIOUS
  <2>1. KeptOf(log)' = KeptOf(log')
    BY DEF KeptOf, Summary
  <2>2. StoreStep(log, log')
    BY StepIsStep
  <2>3. CASE KeepStep(KeptOf(log), KeptOf(log'))
    BY <2>1, <2>3 DEF KeepStep, Store!Next, Store!Keep
  <2>4. CASE OpenStep(KeptOf(log), KeptOf(log'))
    BY <2>1, <2>4
       DEF OpenStep, Store!Next, Store!Open, Store!WithoutOldest, Store!KeptDigests
  <2>5. CASE RetireStep(KeptOf(log), KeptOf(log'))
    BY <2>1, <2>5 DEF RetireStep, Store!Next, Store!Retire
  <2>6. QED
    BY <2>1, <2>2, <2>3, <2>4, <2>5 DEF StoreStep
<1>3. QED
  BY <1>1, <1>2, CheckpointsInductive, PTL DEF Spec, LogIsStore, Store!Spec

----------------------------------------------------------------------------
(* The newest checkpoint stays: resets inside stores are the only mishaps, *)
(* every interval ends in a state the log does not hold, and an area has   *)
(* room for a checkpoint and for every reset.  An area that filled would   *)
(* not do: its checkpoint is abandoned, and the next one would take the    *)
(* area of the newest whole one.                                           *)

\* A checkpoint is on the log with all its items.
Whole(l, d) ==
  d # NoDigest => \E a \in Areas : Holds(l[a], d) /\ l[a].whole = Index

\* The digest, if the log holds it, is the one opened last.
Newest(l, d) ==
  \A a, b \in Areas : Holds(l[a], d) /\ b # a => l[b].gen < l[a].gen

\* While d is stored, e stays: e is the newest until d is opened, then d is,
\* and its area has programmed k heads at most.
Guarded(l, d, e, k) ==
  /\ Whole(l, e)
  /\ Find(l, d) = {} => Newest(l, e)
  /\ Newest(l, d)
  /\ \A a \in Find(l, d) : l[a].used <= k /\ ~l[a].ended

Secure ==
  /\ Whole(log, input)
  /\ phase # "storing" => Newest(log, input)
  /\ phase = "storing" =>
       /\ content # input
       /\ Guarded(log, content, input, next + mishaps)
       /\ Find(log, content) = {} => next = 0

\* Neither opening an area nor erasing one touches the newest digest.
LEMMA OlderIsNotNewest ==
  ASSUME NEW l, Sound(l), NEW e, Newest(l, e)
  PROVE  ~Holds(l[OlderArea(l)], e) \/ l[OlderArea(l)].gen = 0
<1>1. l[0].gen \in Nat /\ l[1].gen \in Nat
  BY DEF Sound, Areas, Area
<1>2. CASE OlderArea(l) = 0
  BY <1>1, <1>2 DEF OlderArea, Newest, Areas
<1>3. CASE OlderArea(l) = 1
  BY <1>1, <1>3 DEF OlderArea, Newest, Areas
<1>4. QED
  BY <1>2, <1>3, OlderIsOlder DEF Areas

LEMMA ErasedGuarded ==
  ASSUME NEW l, Sound(l), NEW d, NEW e, NEW k, Find(l, d) = {}, Guarded(l, d, e, k)
  PROVE  Guarded(Erased(l), d, e, k) /\ Find(Erased(l), d) = {}
<1> DEFINE o == OlderArea(l)
           m == Erased(l)
<1>1. \A a \in Areas : m[a] = IF a = o THEN Headerless ELSE l[a]
  BY DEF Erased, Sound
<1>2. Headerless.gen = 0 /\ ~Holds(Headerless, d) /\ ~Holds(Headerless, e)
  BY DEF Headerless, FreshArea, Holds
<1>3. ~Holds(l[o], e)
  BY OlderIsNotNewest DEF Guarded, Holds
<1>4. \A a \in Areas : l[a].gen \in Nat
  BY DEF Sound, Area
<1> HIDE DEF m, o
<1>5. Find(m, d) = {}
  BY <1>1, <1>2 DEF Find
<1>6. Whole(m, e)
  BY <1>1, <1>3 DEF Guarded, Whole
<1>7. Newest(m, e)
  <2> SUFFICES ASSUME NEW a \in Areas, NEW b \in Areas, Holds(m[a], e), b # a
               PROVE  m[b].gen < m[a].gen
    BY DEF Newest
  <2>1. a # o /\ m[a] = l[a]
    BY <1>1, <1>2
  <2>2. l[b].gen < l[a].gen
    BY <2>1 DEF Guarded, Newest
  <2>3. m[b].gen \in {0, l[b].gen}
    BY <1>1, <1>2
  <2>4. l[a].gen > 0
    BY <1>4, <2>2
  <2>5. QED
    BY <2>1, <2>2, <2>3, <2>4
<1>8. QED
  BY <1>5, <1>6, <1>7 DEF Guarded, Newest, Find, m

LEMMA ReadyGuarded ==
  ASSUME NEW l, Sound(l), NEW d \in Digests, NEW e, d # e, NEW k \in Nat,
         Guarded(l, d, e, k)
  PROVE  Guarded(Ready(l, d), d, e, k) /\ Find(Ready(l, d), d) # {}
<1>1. CASE Find(l, d) # {}
  BY <1>1 DEF Ready
<1>2. CASE Find(l, d) = {}
  <2> DEFINE o == OlderArea(l)
             fresh == FreshArea(NextGeneration(l), d)
             m == Opened(l, d)
  <2>1. Ready(l, d) = m
    BY <1>2 DEF Ready
  <2>2. /\ Find(m, d) = {o} /\ o \in Areas /\ m[o] = fresh
        /\ \A a \in Areas : a # o => m[a] = l[a]
    BY <1>2, OpenedSound DEF Opened, Sound
  <2>3. fresh.gen = NextGeneration(l) /\ fresh.used = 0 /\ ~fresh.ended
    BY DEF FreshArea
  <2>4. \A b \in Areas : l[b].gen < NextGeneration(l)
    BY OlderIsOlder
  <2>5. ~Holds(l[o], e)
    BY <1>2, OlderIsNotNewest DEF Guarded, Holds
  <2> HIDE DEF o, fresh, m
  <2>6. Whole(m, e)
    <3> SUFFICES ASSUME e # NoDigest
                 PROVE  \E a \in Areas : Holds(m[a], e) /\ m[a].whole = Index
      BY DEF Whole
    <3>1. PICK a \in Areas : Holds(l[a], e) /\ l[a].whole = Index
      BY DEF Guarded, Whole
    <3>2. QED
      BY <2>2, <2>5, <3>1
  <2>7. Newest(m, d)
    <3> SUFFICES ASSUME NEW a \in Areas, NEW b \in Areas, Holds(m[a], d), b # a
                 PROVE  m[b].gen < m[a].gen
      BY DEF Newest
    <3>1. a = o
      BY <2>2 DEF Find
    <3>2. QED
      BY <2>2, <2>3, <2>4, <3>1
  <2>8. \A a \in Find(m, d) : m[a].used <= k /\ ~m[a].ended
    BY <2>2, <2>3
  <2>9. QED
    BY <2>1, <2>2, <2>6, <2>7, <2>8 DEF Guarded
<1>3. QED
  BY <1>1, <1>2

LEMMA PutGuarded ==
  ASSUME NEW l, Sound(l), NEW d, NEW e, d # e, NEW k, Guarded(l, d, e, k),
         NEW a \in Areas, Find(l, d) = {a}, NEW left, SameHeader(left, l[a]),
         NEW j, left.used <= j, ~left.ended
  PROVE  Guarded(Put(l, a, left), d, e, j) /\ Find(Put(l, a, left), d) = {a}
<1> DEFINE m == Put(l, a, left)
<1>1. \A b \in Areas : m[b] = IF b = a THEN left ELSE l[b]
  BY DEF Put
<1> HIDE DEF m
<1>2. \A b \in Areas : m[b].gen = l[b].gen /\ m[b].digest = l[b].digest
  BY <1>1 DEF SameHeader
<1>3. Find(m, d) = {a}
  BY <1>2 DEF Find, Holds
<1>4. Newest(m, d)
  BY <1>2 DEF Guarded, Newest, Holds
<1>5. Whole(m, e)
  <2> SUFFICES ASSUME e # NoDigest
               PROVE  \E b \in Areas : Holds(m[b], e) /\ m[b].whole = Index
    BY DEF Whole
  <2>1. PICK b \in Areas : Holds(l[b], e) /\ l[b].whole = Index
    BY DEF Guarded, Whole
  <2>2. b # a
    BY <2>1 DEF Find, Holds
  <2>3. QED
    BY <1>1, <2>1, <2>2
<1>6. QED
  BY <1>1, <1>3, <1>4, <1>5 DEF Guarded, m

\* An append programs one head at most, and hides nothing.
LEMMA CutAppendUsed ==
  ASSUME NEW area \in Area, NEW n, NEW left \in CutAppends(area, n), ~area.ended
  PROVE  left.used \in {area.used, area.used + 1} /\ ~left.ended
<1>1. /\ BodyLaid(area, n).used = area.used /\ ~BodyLaid(area, n).ended
      /\ HeadTorn(area).used = area.used + 1 /\ ~HeadTorn(area).ended
      /\ Appended(area, n).used = area.used + 1 /\ ~Appended(area, n).ended
  BY DEF BodyLaid, HeadTorn, Appended, Area
<1>2. left \in {area, BodyLaid(area, n), HeadTorn(area), Appended(area, n)}
  BY DEF CutAppends
<1>3. QED
  BY <1>1, <1>2

LEMMA CutGuarded ==
  ASSUME NEW l, Sound(l), NEW d \in Digests, NEW e, d # e, NEW k \in Nat,
         Guarded(l, d, e, k), NEW n \in Index, n # 0 => Written(l, d, n),
         NEW m \in CutStores(l, d, n)
  PROVE  Guarded(m, d, e, k + 1) /\ (Find(m, d) = {} => Find(l, d) = {})
<1> DEFINE ready == Ready(l, d)
<1>1. Guarded(ready, d, e, k)
  BY ReadyGuarded
<1>2. CASE Find(l, d) = {} /\ m \in {l, Erased(l)}
  BY <1>2, ErasedGuarded DEF Guarded
<1>3. ASSUME NEW a \in Areas, Find(ready, d) = {a}, Sound(ready),
             NEW left \in CutAppends(ready[a], n), m = Put(ready, a, left),
             SameHeader(left, ready[a])
      PROVE  Guarded(m, d, e, k + 1) /\ Find(m, d) # {}
  <2> HIDE DEF ready
  <2>1. ready[a] \in Area /\ ready[a].used <= k /\ ~ready[a].ended
    BY <1>1, <1>3 DEF Guarded, Sound
  <2>2. ready[a].used \in Nat
    BY <2>1 DEF Area
  <2>3. left.used <= k + 1 /\ ~left.ended
    BY <1>3, <2>1, <2>2, CutAppendUsed
  <2>4. QED
    BY <1>1, <1>3, <2>3, PutGuarded
<1>4. QED
  <2> HIDE DEF ready
  <2>1. \/ Find(l, d) = {} /\ m \in {l, Erased(l)}
        \/ \E a \in Areas :
             /\ Find(ready, d) = {a} /\ Sound(ready)
             /\ \E left \in CutAppends(ready[a], n) :
                  m = Put(ready, a, left) /\ SameHeader(left, ready[a])
    BY CutIs DEF ready
  <2>2. QED
    BY <1>2, <1>3, <2>1

LEMMA StoredGuarded ==
  ASSUME NEW l, Sound(l), NEW d \in Digests, NEW e, d # e, NEW k \in Nat,
         Guarded(l, d, e, k), NEW n \in Index
  PROVE  Guarded(Stored(l, d, n), d, e, k + 1) /\ Find(Stored(l, d, n), d) # {}
<1> DEFINE ready == Ready(l, d)
<1>1. PICK a \in Areas : Find(ready, d) = {a}
  BY ReadySound
<1>2. Sound(ready) /\ Guarded(ready, d, e, k)
  BY ReadySound, ReadyGuarded
<1> DEFINE left == Appended(ready[a], n)
<1>3. Stored(l, d, n) = Put(ready, a, left)
  BY <1>1 DEF Stored, Put
<1> HIDE DEF ready
<1>4. ready[a] \in Area /\ ready[a].used <= k /\ ~ready[a].ended
  BY <1>1, <1>2 DEF Guarded, Sound
<1>5. /\ SameHeader(left, ready[a]) /\ left.used = ready[a].used + 1
      /\ ~left.ended
  BY <1>4 DEF Appended, Area, SameHeader
<1>6. ready[a].used \in Nat
  BY <1>4 DEF Area
<1> HIDE DEF left
<1>7. left.used <= k + 1
  BY <1>4, <1>5, <1>6
<1>8. QED
  BY <1>1, <1>2, <1>3, <1>5, <1>7, PutGuarded

LEMMA InitSecure == Init => Secure
<1> SUFFICES ASSUME Init PROVE Secure
  OBVIOUS
<1>1. \A a \in Areas : ~Holds(log[a], input)
  BY DEF Init, Headerless, FreshArea, Holds
<1>2. QED
  BY <1>1 DEF Init, Secure, Whole, Newest

LEMMA BeatsSecure ==
  ASSUME Inductive, Secure, Beats, ToNewState
  PROVE  Secure'
<1>1. /\ phase = "beating" /\ phase' = "storing" /\ next' = 0
      /\ log' = log /\ input' = input
  BY DEF Beats
<1>2. content' \notin HeldDigests(log) /\ content' # input
  BY <1>1 DEF ToNewState
<1>3. \A a \in Areas : ~Holds(log[a], content')
  BY <1>2 DEF HeldDigests, Holds
<1>4. Whole(log, input) /\ Newest(log, input)
  BY <1>1 DEF Secure
<1>5. Find(log, content') = {} /\ Newest(log, content')
  BY <1>3 DEF Find, Newest
<1>6. Guarded(log, content', input, next' + mishaps')
  BY <1>4, <1>5 DEF Guarded
<1>7. QED
  BY <1>1, <1>2, <1>4, <1>6 DEF Secure

LEMMA StoringSecure ==
  ASSUME Inductive, Secure, Storing
  PROVE  /\ Sound(log) /\ content \in Digests /\ next \in Index
         /\ next # 0 => Written(log, content, next)
         /\ next + mishaps \in Nat
         /\ content # input
         /\ Guarded(log, content, input, next + mishaps)
         /\ Find(log, content) = {} => next = 0
BY StoringFacts DEF Inductive, TypeOK, Secure, Storing

LEMMA StoreItemSecure ==
  ASSUME Inductive, Secure, StoreItem
  PROVE  Secure'
<1>1. /\ Storing /\ log' = Stored(log, content, next) /\ next' = next + 1
      /\ UNCHANGED <<input, content, phase, mishaps>>
  BY DEF StoreItem
<1>2. /\ Guarded(log', content, input, next + mishaps + 1)
      /\ Find(log', content) # {}
  BY <1>1, StoringSecure, StoredGuarded
<1>3. next + mishaps + 1 = next' + mishaps'
  BY <1>1 DEF Inductive, TypeOK
<1>4. QED
  BY <1>1, <1>2, <1>3, StoringSecure DEF Secure, Storing, Guarded

\* An area never fills: it has programmed a head per item, and per reset.
LEMMA NeverFull ==
  ASSUME Items + MaxMishaps <= Slots, Inductive, Secure, Storing
  PROVE  StoreHasRoom(log, content)
<1> SUFFICES ASSUME NEW a \in Find(log, content) PROVE HasRoom(log[a])
  BY DEF StoreHasRoom
<1>1. log[a].used <= next + mishaps /\ ~log[a].ended
  BY StoringSecure DEF Guarded
<1>2. log[a].used \in Nat
  BY DEF Find, Inductive, TypeOK, Area
<1>3. next < Items /\ next \in Nat /\ mishaps \in 0 .. MaxMishaps
  BY StoringSecure, LogAssumption DEF Index, Inductive, TypeOK
<1>4. QED
  BY <1>1, <1>2, <1>3, LogAssumption, CheckpointAssumption DEF HasRoom

LEMMA MishapSecure ==
  ASSUME Inductive, Secure, StoreFaults \/ StoreCut \/ StoreTorn \/ Reinstall, OnlyCuts
  PROVE  Secure'
<1>1. /\ mishaps' = mishaps + 1 /\ UNCHANGED <<input, content>>
      /\ phase' = "loading" \/ phase' = "beating"
           \/ (Storing /\ phase' = phase /\ next' = next)
  BY DEF StoreFaults, StoreCut, StoreTorn, Reinstall, Mishap, Abandon
<1>2. phase' = "storing" /\ log' \in CutStores(log, content, next)
  BY <1>1 DEF OnlyCuts, Inductive, TypeOK
<1>3. Storing /\ phase' = phase /\ next' = next
  BY <1>1, <1>2
<1>4. /\ Guarded(log', content, input, next + mishaps + 1)
      /\ Find(log', content) = {} => Find(log, content) = {}
  BY <1>2, <1>3, StoringSecure, CutGuarded
<1>5. next + mishaps + 1 = next' + mishaps'
  BY <1>1, <1>3 DEF Inductive, TypeOK
<1>6. QED
  BY <1>1, <1>2, <1>3, <1>4, <1>5, StoringSecure DEF Secure, Guarded

\* The checkpoint is whole by the time the workflow continues on it.
LEMMA ContinueSecure ==
  ASSUME Inductive, Secure, ContinueAsNew
  PROVE  Secure'
<1>1. /\ phase = "storing" /\ next = Promised(content) /\ phase' = "loading"
      /\ input' = content /\ UNCHANGED <<log, content>>
  BY DEF ContinueAsNew
<1>2. Newest(log, content)
  BY <1>1 DEF Secure, Guarded
<1>3. Whole(log, content)
  <2> SUFFICES ASSUME content # NoDigest
               PROVE  \E a \in Areas : Holds(log[a], content) /\ log[a].whole = Index
    BY DEF Whole
  <2>1. next = Items /\ next # 0
    BY <1>1, LogAssumption DEF Promised
  <2>2. PICK a \in Areas : /\ Holds(log[a], content)
                           /\ \A i \in 0 .. Items - 1 : i \in log[a].whole
    BY <1>1, <2>1 DEF Inductive, Written
  <2>3. log[a].whole \subseteq Index
    BY DEF Inductive, TypeOK, Area
  <2>4. QED
    BY <2>2, <2>3 DEF Index
<1>4. QED
  BY <1>1, <1>2, <1>3 DEF Secure

LEMMA StepSecure ==
  ASSUME Items + MaxMishaps <= Slots,
         Inductive, Secure, [Next]_vars, [ToNewState /\ OnlyCuts]_vars
  PROVE  Secure'
<1>1. CASE UNCHANGED vars
  BY <1>1 DEF vars, Secure
<1>2. CASE Next /\ ToNewState /\ OnlyCuts
  <2>1. CASE LoadItem \/ LoadMissing \/ Loaded
    BY <2>1 DEF LoadItem, LoadMissing, Loaded, Secure
  <2>2. CASE Beats
    BY <1>2, <2>2, BeatsSecure
  <2>3. CASE StoreItem
    BY <2>3, StoreItemSecure
  <2>4. CASE StoreFull
    BY <2>4, NeverFull DEF StoreFull
  <2>5. CASE ContinueAsNew
    BY <2>5, ContinueSecure
  <2>6. CASE StoreFaults \/ StoreCut \/ StoreTorn \/ Reinstall
    BY <1>2, <2>6, MishapSecure
  <2>7. QED
    BY <1>2, <2>1, <2>2, <2>3, <2>4, <2>5, <2>6 DEF Next, Progress
<1>3. QED
  BY <1>1, <1>2

\* The checkpoint a segment restarts from stays loadable, all of it, while the
\* next one is written, wherever resets cut the stores (ItemLog::open takes
\* the older area; supervise continues on a checkpoint stored in full).
THEOREM NewestCheckpointStays ==
  ASSUME Items + MaxMishaps <= Slots
  PROVE  Spec /\ [][ToNewState /\ OnlyCuts]_vars => []NewestStaysOnMedia
<1>1. Inductive /\ Secure => NewestStaysOnMedia
  <2> SUFFICES ASSUME Secure, NEW i \in 0 .. Promised(input) - 1
               PROVE  Loadable(log, input, i)
    BY DEF NewestStaysOnMedia
  <2>1. input # NoDigest /\ i \in Index
    BY LogAssumption DEF Promised, Index
  <2>2. QED
    BY <2>1 DEF Secure, Whole, Loadable, Find
<1>2. Inductive /\ Secure /\ [Next]_vars /\ [ToNewState /\ OnlyCuts]_vars => Secure'
  BY StepSecure
<1>3. QED
  BY <1>1, <1>2, InitSecure, CheckpointsInductive, PTL DEF Spec

============================================================================
