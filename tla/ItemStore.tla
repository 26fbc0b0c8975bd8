----------------------------- MODULE ItemStore -----------------------------
(***************************************************************************)
(* What the item log promises its callers: it keeps the items of the two   *)
(* digests opened last, an item is kept at once or not at all, and nothing *)
(* kept is lost except the older digest, whole, to make room for a new one.*)
(***************************************************************************)
EXTENDS Sequences

CONSTANTS Digests, Index

VARIABLE kept   \* digests with their items, the older first

Init == kept = <<>>

KeptDigests == {kept[n].digest : n \in DOMAIN kept}
Newest == kept[Len(kept)]
WithoutOldest == IF Len(kept) = 2 THEN Tail(kept) ELSE kept

\* An item of a kept digest is kept, at once.
Keep ==
  \E n \in DOMAIN kept, i \in Index :
    kept' = [kept EXCEPT ![n].items = @ \cup {i}]

\* A new digest takes the place of the older one, perhaps with its first item.
Open ==
  \E d \in Digests \ KeptDigests, items \in {{}} \cup {{i} : i \in Index} :
    kept' = Append(WithoutOldest, [digest |-> d, items |-> items])

\* Making room may end before the new digest is there.
Retire ==
  /\ Len(kept) = 2
  /\ kept' = Tail(kept)

Next == Keep \/ Open \/ Retire

Spec == Init /\ [][Next]_kept

============================================================================
