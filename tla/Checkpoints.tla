---------------------------- MODULE Checkpoints ----------------------------
(***************************************************************************)
(* Checkpoints of the supervisor over the item log (esper-runtime          *)
(* agent/mod.rs, supervise and store_checkpoint): every interval of beats  *)
(* the state's items are stored one by one under their digest, then the    *)
(* workflow continues as new with a header that names the digest, and the  *)
(* next segment loads the items back.                                      *)
(*                                                                         *)
(* A reset between two storage operations replays to the same point and is *)
(* no step; a reset inside a store leaves flash as the cut left it and     *)
(* delivers the same store again.  A failed store is a recorded answer.  A *)
(* journal refused at boot is reinstalled: the segment starts over from    *)
(* its input, and its beats may go another way.                            *)
(***************************************************************************)
EXTENDS ItemLog, Sequences

CONSTANTS
  Mishaps,        \* which mishaps may happen
  MaxMishaps,     \* bound: how many of them one behaviour has
  Steady,         \* whether an interval may leave the state as it was
  Revisits        \* whether it may return to another state the log holds

MishapKind == {"cut", "tear", "fault", "reinstall"}

ASSUME CheckpointAssumption ==
  /\ Mishaps \subseteq MishapKind
  /\ MaxMishaps \in Nat
  /\ Steady \in BOOLEAN
  /\ Revisits \in BOOLEAN

VARIABLES
  log,      \* the flash: the item log's two areas
  input,    \* the digest the segment's input names, NoDigest in the first
  content,  \* the digest of the state the interval ended with
  phase,    \* "loading" | "beating" | "storing" | "missing"
  next,     \* the next item to load or store
  mishaps   \* mishaps so far

vars == <<log, input, content, phase, next, mishaps>>

\* The items a header promises: a state of no goals and no entries has none.
Promised(d) == IF d = NoDigest THEN 0 ELSE Items

Init ==
  /\ log = [a \in Areas |-> Headerless]
  /\ input = NoDigest
  /\ content = NoDigest
  /\ phase = "loading"
  /\ next = 0
  /\ mishaps = 0

----------------------------------------------------------------------------
(* A segment opens by loading what its input promises.  A missing item     *)
(* ends the workflow: it refuses a state it cannot rebuild.                *)

LoadItem ==
  /\ phase = "loading"
  /\ next < Promised(input)
  /\ Loadable(log, input, next)
  /\ next' = next + 1
  /\ UNCHANGED <<log, input, content, phase, mishaps>>

LoadMissing ==
  /\ phase = "loading"
  /\ next < Promised(input)
  /\ ~Loadable(log, input, next)
  /\ phase' = "missing"
  /\ UNCHANGED <<log, input, content, next, mishaps>>

Loaded ==
  /\ phase = "loading"
  /\ next = Promised(input)
  /\ content' = input
  /\ phase' = "beating"
  /\ next' = 0
  /\ UNCHANGED <<log, input, mishaps>>

\* The states an interval of beats may end in.
Reachable ==
  {d \in Digests \cup {NoDigest} :
     /\ d = input => Steady
     /\ d # input /\ d \in HeldDigests(log) => Revisits}

Beats ==
  /\ phase = "beating"
  /\ content' \in Reachable
  /\ phase' = "storing"
  /\ next' = 0
  /\ UNCHANGED <<log, input, mishaps>>

----------------------------------------------------------------------------
(* Storing the checkpoint.  A failed store abandons it until the next      *)
(* interval.                                                               *)

Storing == phase = "storing" /\ next < Promised(content)

\* A redelivered item, whole already, is never stored nor answered.
StoreItemOnce ==
  /\ Storing
  /\ ~Loadable(log, content, next)
  /\ StoreHasRoom(log, content)
  /\ log' = Stored(log, content, next)
  /\ next' = next + 1
  /\ UNCHANGED <<input, content, phase, mishaps>>

StoreItem ==
  /\ Storing
  /\ StoreHasRoom(log, content)
  /\ log' = Stored(log, content, next)
  /\ next' = next + 1
  /\ UNCHANGED <<input, content, phase, mishaps>>

Abandon ==
  /\ phase' = "beating"
  /\ next' = 0
  /\ UNCHANGED <<input, content>>

StoreFull ==
  /\ Storing
  /\ ~StoreHasRoom(log, content)
  /\ Abandon
  /\ UNCHANGED <<log, mishaps>>

Mishap(kind) ==
  /\ kind \in Mishaps
  /\ mishaps < MaxMishaps
  /\ mishaps' = mishaps + 1

StoreFaults ==
  /\ Storing
  /\ Mishap("fault")
  /\ log' \in CutStores(log, content, next)
  /\ Abandon

\* The store's answer is recorded before the store is done.
StoreCutAnswered ==
  /\ Storing
  /\ Mishap("cut")
  /\ log' \in CutStores(log, content, next)
  /\ next' = next + 1
  /\ UNCHANGED <<input, content, phase>>

StoreCut ==
  /\ Storing
  /\ Mishap("cut")
  /\ log' \in CutStores(log, content, next)
  /\ UNCHANGED <<input, content, phase, next>>

\* The cut damages the length of the item's head.
StoreTorn ==
  /\ Storing
  /\ StoreHasRoom(log, content)
  /\ Mishap("tear")
  /\ log' = TornStore(log, content)
  /\ UNCHANGED <<input, content, phase, next>>

\* Continuing before the last item is answered for.
ContinueEarly ==
  /\ phase = "storing"
  /\ input' = content
  /\ phase' = "loading"
  /\ next' = 0
  /\ UNCHANGED <<log, content, mishaps>>

ContinueAsNew ==
  /\ phase = "storing"
  /\ next = Promised(content)
  /\ input' = content
  /\ phase' = "loading"
  /\ next' = 0
  /\ UNCHANGED <<log, content, mishaps>>

\* The journal is refused at boot: its segment starts over.
Reinstall ==
  /\ phase # "missing"
  /\ Mishap("reinstall")
  /\ phase' = "loading"
  /\ next' = 0
  /\ UNCHANGED <<log, input, content>>

Progress ==
  LoadItem \/ LoadMissing \/ Loaded \/ Beats \/ StoreItem \/ StoreFull \/ ContinueAsNew

Next == Progress \/ StoreFaults \/ StoreCut \/ StoreTorn \/ Reinstall

Spec == Init /\ [][Next]_vars

\* The boot loop keeps driving the workflow: its next step is taken in the
\* end.  Mishaps are nobody's duty.
FairSpec == Spec /\ WF_vars(Progress)

----------------------------------------------------------------------------
(* Properties.                                                             *)

TypeOK ==
  /\ log \in [Areas -> Area]
  /\ input \in Digests \cup {NoDigest}
  /\ content \in Digests \cup {NoDigest}
  /\ phase \in {"loading", "beating", "storing", "missing"}
  /\ next \in 0 .. Items
  /\ mishaps \in 0 .. MaxMishaps
  /\ \A a \in Areas : log[a].used <= Slots

\* Every item of the checkpoint that a STORE has answered for is loadable,
\* whatever was cut, abandoned and stored again under the same digest before:
\* supervise continues as new on the strength of those answers alone.
AnsweredIsLoadable ==
  phase = "storing" => \A i \in 0 .. next - 1 : Loadable(log, content, i)

\* The digests a log holds, the older first, with their whole items.
Summary(area) == [digest |-> area.digest, items |-> area.whole]

KeptOf(l) ==
  LET older == IF l[0].gen <= l[1].gen THEN 0 ELSE 1
      newer == 1 - older
  IN  IF l[newer].gen = 0 THEN <<>>
      ELSE IF l[older].gen = 0 THEN <<Summary(l[newer])>>
      ELSE <<Summary(l[older]), Summary(l[newer])>>

\* Through every reset and fault inside a store, the log keeps or refuses an
\* item at once and loses nothing but the older digest (items.rs, open).
Store == INSTANCE ItemStore WITH kept <- KeptOf(log)
LogIsStore == Store!Spec

\* Steps that end an interval in a state the log does not hold, and whose
\* mishap, if any, is a reset inside a store.
ToNewState == phase = "beating" /\ phase' = "storing" =>
                content' \notin HeldDigests(log) \cup {input}

OnlyCuts == mishaps' # mishaps =>
              /\ phase' = "storing" /\ next' >= next
              /\ log' \in CutStores(log, content, next)

\* The checkpoint a segment restarts from stays whole on flash while the next
\* one is written (items.rs, module documentation).
NewestStaysOnMedia == \A i \in 0 .. Promised(input) - 1 : Loadable(log, input, i)

\* The journal is folded again and again: an always-on agent whose flash
\* works keeps continuing as new.
KeepsContinuing == []<>(phase = "loading")

============================================================================
