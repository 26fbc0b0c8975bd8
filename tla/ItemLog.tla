------------------------------ MODULE ItemLog ------------------------------
(***************************************************************************)
(* The two-area item log on NOR flash (esper-board items.rs): where STORE  *)
(* and LOAD keep checkpoint items, and SNAP_STORE and SNAP_LOAD snapshot   *)
(* items.                                                                  *)
(*                                                                         *)
(* An area is what a scan of it finds.  A digest binds the bytes of every  *)
(* item stored under it, so all whole copies of an index are equal and an  *)
(* area is described by the set of indices it holds a whole copy of.       *)
(* Slots are counted, not sized: every item takes one.  A program lands on *)
(* erased flash or on the partly programmed body a reset left there, where *)
(* bits are only ever cleared; a body mixed of two items fails its check.  *)
(***************************************************************************)
EXTENDS Integers, FiniteSets

CONSTANTS
  Digests,   \* digests a checkpoint may have
  NoDigest,  \* what an area without a header holds
  Items,     \* items stored under each digest
  Slots      \* items an area has room for

ASSUME LogAssumption ==
  /\ NoDigest \notin Digests
  /\ Items \in Nat \ {0}
  /\ Slots \in Nat \ {0}

Areas == {0, 1}
Index == 0 .. Items - 1

\* Generations start at 1: no header reads as generation 0.
Area == [gen    : Nat,
         digest : Digests \cup {NoDigest},
         used   : Nat,            \* slots with a programmed head
         whole  : SUBSET Index,   \* indices with a whole copy
         tail   : SUBSET Index,   \* items whose body lies in the next slot
         ended  : BOOLEAN]        \* a damaged length hides what follows

FreshArea(gen, d) == [gen |-> gen, digest |-> d, used |-> 0, whole |-> {},
                      tail |-> {}, ended |-> FALSE]
Headerless == FreshArea(0, NoDigest)

Holds(area, d) == area.gen # 0 /\ area.digest = d
Find(log, d) == {a \in Areas : Holds(log[a], d)}
HeldDigests(log) == {log[a].digest : a \in {b \in Areas : log[b].gen # 0}}

Loadable(log, d, i) == \E a \in Find(log, d) : i \in log[a].whole

----------------------------------------------------------------------------
(* Opening an area for a digest neither area holds.                        *)

\* The area of the newer generation, the digest opened last.
NewerArea(log) ==
  IF log[0].gen = 0 THEN 0
  ELSE IF log[1].gen = 0 THEN 1
  ELSE IF log[0].gen <= log[1].gen THEN 1 ELSE 0

\* The area a new digest takes: one without a header, else the one of the
\* older generation.
OlderArea(log) ==
  IF log[0].gen = 0 THEN 0
  ELSE IF log[1].gen = 0 THEN 1
  ELSE IF log[0].gen <= log[1].gen THEN 0 ELSE 1

NextGeneration(log) ==
  IF log[0].gen <= log[1].gen THEN log[1].gen + 1 ELSE log[0].gen + 1

Erased(log) == [log EXCEPT ![OlderArea(log)] = Headerless]

Opened(log, d) ==
  [log EXCEPT ![OlderArea(log)] = FreshArea(NextGeneration(log), d)]

Ready(log, d) == IF Find(log, d) = {} THEN Opened(log, d) ELSE log

----------------------------------------------------------------------------
(* Appending an item to the area that holds its digest: the body, then the *)
(* head that makes it visible.                                             *)

\* The area has no last slot.
HasRoomUnchecked(area) == ~area.ended

HasRoom(area) == ~area.ended /\ area.used < Slots

\* The body lands on what a reset left in the slot.
Appended(area, i) ==
  [area EXCEPT !.used = @ + 1,
               !.whole = IF area.tail \subseteq {i} THEN @ \cup {i} ELSE @,
               !.tail = {}]

BodyLaid(area, i) == [area EXCEPT !.tail = @ \cup {i}]
HeadTorn(area) == [area EXCEPT !.used = @ + 1, !.tail = {}]
LengthTorn(area) == [area EXCEPT !.ended = TRUE, !.tail = {}]

\* What an append that does not return leaves behind.
CutAppends(area, i) ==
  IF HasRoom(area)
  THEN {area, BodyLaid(area, i), HeadTorn(area), Appended(area, i)}
  ELSE {area}

----------------------------------------------------------------------------
(* store(digest, index): done, refused as full, or cut short by a reset or *)
(* a media fault at any of its programs and erases.  A cut lands between   *)
(* two programmed words; TornStore is the cut inside the word that holds   *)
(* the length.                                                             *)

Stored(log, d, i) ==
  LET ready == Ready(log, d)
  IN  [a \in Areas |->
         IF a \in Find(ready, d) THEN Appended(ready[a], i) ELSE ready[a]]

TornStore(log, d) ==
  LET ready == Ready(log, d)
  IN  [a \in Areas |->
         IF a \in Find(ready, d) THEN LengthTorn(ready[a]) ELSE ready[a]]

StoreHasRoom(log, d) == \A a \in Find(log, d) : HasRoom(log[a])

CutStores(log, d, i) ==
  LET ready == Ready(log, d)
  IN  {[a \in Areas |-> IF a \in Find(ready, d) THEN left ELSE ready[a]] :
         left \in UNION {CutAppends(ready[a], i) : a \in Find(ready, d)}}
      \cup IF ready = log THEN {} ELSE {log, Erased(log)}

============================================================================
