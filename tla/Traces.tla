------------------------------- MODULE Traces -------------------------------
(***************************************************************************)
(* What a journal tells of a run after the fact (esper-runtime run/host.rs *)
(* derive_frames, and trace.rs): the records become the frames of the      *)
(* golden trace, and the frames, budgets spent again one by one, the trace *)
(* a test compares.  A record's frames follow those of the one before it,  *)
(* and the end is the last; what the trace holds beyond them is a count,   *)
(* so frames are told apart by the record they stand for.                  *)
(***************************************************************************)
EXTENDS Naturals, Sequences, SequencesExt, FiniteSets

Scheduled(request) == [is |-> "Scheduled", request |-> request]
Resolved(answer) == [is |-> "Resolved", answer |-> answer]

\* Every other record is the answer of the one before it.
Pairs(records) ==
  \A n \in DOMAIN records :
    (records[n].is = "Scheduled") \/ (n > 1 /\ records[n - 1].is = "Scheduled")

\* The requests of a kind, by their place.
Requested(records, kind) ==
  {n \in DOMAIN records :
     records[n].is = "Scheduled" /\ records[n].request.kind = kind}

\* It was answered, and did not fail.
HasOutcome(records, n) ==
  /\ n < Len(records)
  /\ records[n + 1].is = "Resolved"
  /\ records[n + 1].answer.completed

WithOutcome(records, kind) ==
  {n \in Requested(records, kind) : HasOutcome(records, n)}

----------------------------------------------------------------------------
(* Frames: the records with one of a kind.                                 *)

ModelDecisions(records) == WithOutcome(records, "INFER")

\* Mutant: every attempt is an intent.
ToolIntentsOfAll(records) == Requested(records, "TOOL")

\* The first attempt's request is the intent.
ToolIntents(records) ==
  {n \in Requested(records, "TOOL") : records[n].request.call.attempt = 1}

WriteIntents(records) ==
  {n \in ToolIntents(records) : records[n].request.call.write}

ToolObservations(records) == WithOutcome(records, "TOOL")

Passes(check, observed) ==
  IF check.of = "pin" THEN observed = check.level ELSE observed >= check.target

\* By what the verifier found.
Verifications(records, passed) ==
  {n \in WithOutcome(records, "VERIFY") :
     Passes(records[n].request.check, records[n + 1].answer.value) = passed}

ApprovalRequests(records) == Requested(records, "ASK")
ApprovalDecisions(records) == WithOutcome(records, "ASK")

Framed(records) ==
  UNION {ModelDecisions(records), ToolIntents(records), ToolObservations(records),
         Verifications(records, TRUE), Verifications(records, FALSE),
         ApprovalRequests(records)}

\* The last frame asks, and no decision answers it.
EndsAsking(records) ==
  \E n \in ApprovalRequests(records) \ ApprovalDecisions(records) :
    \A m \in Framed(records) : m <= n

\* The frames of one request and its answer.
FramesAt(records, n) ==
  LET Told(is, told) == IF told THEN <<[is |-> is, at |-> n]>> ELSE <<>>
  IN Told("ModelDecision", n \in ModelDecisions(records))
       \o Told("ToolIntent", n \in ToolIntents(records))
       \o Told("ToolObservation", n \in ToolObservations(records))
       \o Told("Verification", n \in WithOutcome(records, "VERIFY"))
       \o Told("ApprovalRequest", n \in ApprovalRequests(records))
       \o Told("ApprovalDecision", n \in ApprovalDecisions(records))

\* The frames in order, but for the end.
Frames(records) ==
  <<[is |-> "RunStarted", at |-> 0]>>
    \o FlattenSeq([n \in DOMAIN records |-> FramesAt(records, n)])

----------------------------------------------------------------------------
(* The trace.                                                              *)

\* A decision or a mutation the budget does not cover is no history.
Corrupt(journal, seed) ==
  \/ ~Pairs(journal.records)
  \/ Cardinality(ModelDecisions(journal.records)) > seed.turns
  \/ Cardinality(WriteIntents(journal.records)) > seed.mutations

\* A trace stopped at a question is suspended.
TraceOf(journal, seed) ==
  [turns |-> seed.turns - Cardinality(ModelDecisions(journal.records)),
   mutations |-> seed.mutations - Cardinality(WriteIntents(journal.records)),
   terminal |-> journal.terminal,
   passed |-> Cardinality(Verifications(journal.records, TRUE)),
   failed |-> Cardinality(Verifications(journal.records, FALSE)),
   suspended |-> journal.terminal = <<>> /\ EndsAsking(journal.records)]

=============================================================================
