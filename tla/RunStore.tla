------------------------------ MODULE RunStore ------------------------------
(***************************************************************************)
(* What the board's run store promises the dispatcher, run by run: a run   *)
(* is created once, under one seed; what it has left only goes down until  *)
(* it ends; an ended run does not change; and a run is dropped only after  *)
(* it ended, or when it is let go of unfinished.                           *)
(***************************************************************************)
EXTENDS Integers

CONSTANT Seeds   \* the turns a seed may grant

VARIABLES
  runs,    \* the runs kept, by id
  letGo    \* the runs let go of

Init ==
  /\ DOMAIN runs = {}
  /\ letGo = {}

New(seed) == [seed |-> seed, left |-> seed, ended |-> FALSE]

Created(r) == r \notin DOMAIN runs /\ \E seed \in Seeds : runs'[r] = New(seed)

Advanced(r) ==
  /\ r \in DOMAIN runs /\ ~runs[r].ended
  /\ runs'[r].seed = runs[r].seed
  /\ runs'[r].left \in 0 .. runs[r].left

Unchanged(r) == r \in DOMAIN runs /\ runs'[r] = runs[r]

Droppable(r) == runs[r].ended \/ r \in letGo'

Next ==
  /\ \A r \in DOMAIN runs' : Created(r) \/ Advanced(r) \/ Unchanged(r)
  /\ \A r \in DOMAIN runs \ DOMAIN runs' : Droppable(r)
  /\ letGo \subseteq letGo'

Spec == Init /\ [][Next]_<<runs, letGo>>

============================================================================
