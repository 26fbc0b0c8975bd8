------------------------------- MODULE Memory -------------------------------
(***************************************************************************)
(* The memory store's rules (esper-core memory.rs) as operators on a       *)
(* store: its entries, and the stamp its next write gets.  The entries are *)
(* kept as a sequence from the oldest stamp to the newest; the slots they  *)
(* are in, their labels and their values decide nothing and are left out.  *)
(***************************************************************************)
EXTENDS Integers, Sequences, SequencesExt

CONSTANTS
  MaxMemory,    \* entries the store holds (MAX_MEMORY)
  MaxPinned,    \* pinned entries among them (MAX_PINNED)
  MaxStamp      \* the last value of the stamp allocator (u32::MAX)

ASSUME MemoryAssumption ==
  /\ MaxMemory \in Nat /\ MaxPinned \in Nat /\ MaxPinned < MaxMemory
  /\ MaxStamp \in Nat \ {0}

\* A key is [kind, of]: an observation, a goal's outcome, an operator note.
Note(n) == [kind |-> "Note", of |-> n]
Outcome(goal) == [kind |-> "Outcome", of |-> goal]
Observation(o) == [kind |-> "Observation", of |-> o]

Pinned(entry) == entry.key.kind = "Note"

\* What is to be written has no stamp yet.
Unstamped(key, goal) == [key |-> key, goal |-> goal, stamp |-> 0]

----------------------------------------------------------------------------
(* The entries.                                                            *)

HoldsKey(entries, key) == \E i \in DOMAIN entries : entries[i].key = key

\* No two entries have one key, so there is one to find.
Position(entries, key) == CHOOSE i \in DOMAIN entries : entries[i].key = key

\* Memory::forget: the others keep their order.
Without(entries, key) ==
  IF HoldsKey(entries, key) THEN RemoveAt(entries, Position(entries, key))
  ELSE entries

PinnedCount(entries) ==
  Cardinality({i \in DOMAIN entries : Pinned(entries[i])})

\* Mutant: eviction that does not look at pins.
OldestOfAll(entries) == 1

OldestUnpinned(entries) ==
  CHOOSE i \in DOMAIN entries :
    ~Pinned(entries[i]) /\ \A j \in 1..(i - 1) : Pinned(entries[j])

Evicted(entries) == RemoveAt(entries, OldestUnpinned(entries))

\* Mutant: pinned entries under no quota.
AcceptsAnyPinned(entries, entry) ==
  \/ HoldsKey(entries, entry.key)
  \/ Len(entries) < MaxMemory
  \/ \E i \in DOMAIN entries : ~Pinned(entries[i])

\* The entry supersedes, or the pin quota and room allow it.
Accepts(entries, entry) ==
  \/ HoldsKey(entries, entry.key)
  \/ /\ Pinned(entry) => PinnedCount(entries) < MaxPinned
     /\ \/ Len(entries) < MaxMemory
        \/ \E i \in DOMAIN entries : ~Pinned(entries[i])

\* It supersedes its key, else takes a free slot, else that of the oldest
\* unpinned entry, and is the newest.
Placed(entries, entry) ==
  Append(IF HoldsKey(entries, entry.key) THEN Without(entries, entry.key)
         ELSE IF Len(entries) < MaxMemory THEN entries
         ELSE Evicted(entries),
         entry)

----------------------------------------------------------------------------
(* The store.                                                              *)

EmptyStore == [entries |-> <<>>, nextStamp |-> 1]

\* Memory::write accepts: there is a stamp left, before all else.
Writable(store, entry) ==
  store.nextStamp < MaxStamp /\ Accepts(store.entries, entry)

\* Mutant: an entry that supersedes takes a stamp and leaves it allocatable.
WrittenInPlace(store, entry) ==
  [entries |-> Placed(store.entries, [entry EXCEPT !.stamp = store.nextStamp]),
   nextStamp |-> IF HoldsKey(store.entries, entry.key) THEN store.nextStamp
                 ELSE store.nextStamp + 1]

\* Memory::write: the entry gets the next stamp.
Written(store, entry) ==
  [entries |-> Placed(store.entries, [entry EXCEPT !.stamp = store.nextStamp]),
   nextStamp |-> store.nextStamp + 1]

\* Memory::restore_entry, for every entry of a checkpoint: it is stamped,
\* below the allocator; no other has its key or its stamp; the pins are
\* within their quota, and there is a slot for it.
RestorableEntries(entries) ==
  /\ Len(entries) <= MaxMemory
  /\ PinnedCount(entries) <= MaxPinned
  /\ \A i, j \in DOMAIN entries : entries[i].key = entries[j].key => i = j

RestorableStore(store) ==
  /\ RestorableEntries(store.entries)
  /\ \A i \in DOMAIN store.entries :
       store.entries[i].stamp # 0 /\ store.entries[i].stamp < store.nextStamp
  /\ \A i, j \in DOMAIN store.entries :
       store.entries[i].stamp = store.entries[j].stamp => i = j

=============================================================================
