------------------------------ MODULE BankPair ------------------------------
(***************************************************************************)
(* A slot: one bank pair on flash (esper-board slot.rs).  A bank holds one *)
(* segment of a run and the generation its seal carries; the pair's        *)
(* authoritative bank is the one sealed last.                              *)
(*                                                                         *)
(* Each install is erase, header, seal with a barrier after each, and what *)
(* a reset leaves is judged by the seal alone: a bank whose erase or header*)
(* was cut reads as blank.  The header's bytes, its CRCs and the segment   *)
(* number in a run id's low bits are left out.                             *)
(***************************************************************************)
EXTENDS Integers

CONSTANT Segments   \* what a bank may hold

BankIds == {"A", "B"}

Other(id) == IF id = "A" THEN "B" ELSE "A"

Bank == [gen : Nat \ {0}, segment : Segments]

Blank == [gen |-> 0]

Pair == [BankIds -> Bank \cup {Blank}]

BlankPair == [id \in BankIds |-> Blank]

\* Both banks sealed at one generation: no protocol produces it.
Ambiguous(pair) == pair["A"].gen = pair["B"].gen /\ pair["A"].gen # 0

\* Whether a run was ever installed in the pair, and in which bank its
\* current segment is.
Occupied(pair) == pair # BlankPair

Authority(pair) == IF pair["A"].gen > pair["B"].gen THEN "A" ELSE "B"

Front(pair) == pair[Authority(pair)].segment

\* The first install, over whatever the pair held.
Commissioned(segment) ==
  [BlankPair EXCEPT !["A"] = [gen |-> 1, segment |-> segment]]

\* What a reset in the first install leaves: the pair erased, or, from inside
\* the erase, its first half only.
CommissionCutLeaves == BlankPair
EraseCutLeaves(pair) == [pair EXCEPT !["A"] = Blank]

NextGenerationSame(pair) == pair[Authority(pair)].gen

NextGeneration(pair) == pair[Authority(pair)].gen + 1

\* A further segment goes into the other bank, one generation up.
Succeeded(pair, segment) ==
  [pair EXCEPT ![Other(Authority(pair))] =
     [gen |-> NextGeneration(pair), segment |-> segment]]

\* What a reset before that bank's seal leaves.
SuccessionCutLeaves(pair) == [pair EXCEPT ![Other(Authority(pair))] = Blank]

\* The current segment, after a record was appended to its journal.
Journaled(pair, journal) ==
  [pair EXCEPT ![Authority(pair)].segment.journal = journal]

============================================================================
