------------------------------- MODULE Turns -------------------------------
(***************************************************************************)
(* A run's turns, from the prompt to the tool (esper-runtime backend.rs,   *)
(* run/device.rs and jev/mod.rs): a prompt is built and recorded, one of   *)
(* three backends is asked for a line, the line is recorded and decoded,   *)
(* a granted call is performed, and what it reports is the last            *)
(* observation of the next prompt, masked as it is recorded.  A crash      *)
(* before the line is recorded asks again, under the same prompt, after    *)
(* the backend took its last emission back.                                *)
(*                                                                         *)
(* What else a run does between its turns is Run's.                        *)
(***************************************************************************)
EXTENDS SystemOne, Masking

CONSTANTS
  LastSize,          \* bytes of "LAST "
  EmitSize,          \* bytes of EMIT_TRAILER
  MarkerSize,        \* bytes of TRUNCATED_MARKER
  Scripts,           \* lines a scripted model may hold
  Tables,            \* what a tiny model may hold, turn by turn
  NoLine,            \* an inference that failed
  NoEntry,           \* a prompt the tiny model has no sound entry for
  Caps,              \* the seed's capabilities
  Rooms,             \* room the prompt's head may leave
  Reports,           \* what a tool may report, before it is masked
  MarkWidth,         \* cells a mark takes up
  MaxOutcome,        \* cells of a report that a record holds
  ObservationCap,    \* cells of it the run keeps
  MaxTurns,          \* bound: turns of the run
  MaxCrashes,        \* bound: crashes before a record
  FaultsLost         \* whether a crash may lose the record of a fault

\* What an observation may name; the models' lines are none of them NoLine.
Hints == [pin : Pins, sensor : Sensors \cup {0}]

ASSUME TurnsAssumption ==
  /\ {LastSize, MarkerSize} \subseteq Nat \ {0} /\ EmitSize \in Nat
  /\ Caps \in Capabilities
  /\ Rooms \subseteq Nat
  /\ DOMAIN Reports = ToolName
  /\ \A tool \in ToolName : \A report \in Reports[tool] :
       report \in Seq(Cell) /\ report # <<>>
  /\ \A lines \in Scripts \cup Tables : lines \in Seq(Range(lines))
  /\ \A lines \in Scripts : NoLine \notin Range(lines)
  /\ \A choice \in Candidate, hints \in Hints : RenderLine(choice, hints) # NoLine
  /\ {MarkWidth, MaxOutcome, ObservationCap} \subseteq Nat \ {0}
  /\ MaxTurns \in Nat /\ MaxCrashes \in Nat
  /\ FaultsLost \in BOOLEAN

----------------------------------------------------------------------------
(* The prompt's tail (build_prompt): the last observation on a line of its *)
(* own, then the line that asks for a decision.  The writer drops a part   *)
(* that does not fit and goes on, so what the head leaves decides what of  *)
(* the tail is there; the settings admit any cap down to one byte, so the  *)
(* head may leave any room.                                                *)

\* Room left after a part that is written if it fits.
After(room, size) == IF size <= room THEN room - size ELSE room

\* Bytes of the observation kept in front of the marker.
Kept(size, room) ==
  IF room <= EmitSize + MarkerSize THEN 0
  ELSE IF room - (EmitSize + MarkerSize) < size
       THEN room - (EmitSize + MarkerSize) ELSE size

CutTail(size, room) ==
  [bytes |-> Kept(size, room),
   marked |-> MarkerSize <= room - Kept(size, room)]

\* What the prompt shows of an observation: how many of its bytes, and
\* whether the marker says that more was cut away.
ShownOf(size, room) ==
  IF size + 1 + EmitSize <= After(room, LastSize)
  THEN [bytes |-> size, marked |-> FALSE]
  ELSE CutTail(size, After(room, LastSize))

----------------------------------------------------------------------------

VARIABLES
  backend,    \* "scripted" | "tiny" | "jev"
  script,     \* the scripted or tiny model's lines
  cursor,     \* lines the scripted model emitted
  receipts,   \* documents Jev's backend keeps, one per emission
  phase,      \* where the turn stands
  last,       \* the last observation
  shown,      \* what the recorded prompt shows of it
  out,        \* the answer that is not recorded yet
  log,        \* the recorded answers
  performed,  \* the calls the device performed, each with its turn
  crashes     \* crashes so far

modelVars == <<backend, script, cursor, receipts>>
turnVars == <<phase, last, shown, out, log, performed, crashes>>
vars == <<modelVars, turnVars, net>>

NoObservation == [pin |-> 0, sensor |-> 0, size |-> 0]
NothingShown == [bytes |-> 0, marked |-> FALSE]
NoAnswer == [line |-> NoLine, response |-> NoResponse, got |-> 0,
             evidence |-> NoObservation, shown |-> NothingShown]

Init ==
  /\ backend \in {"scripted", "tiny", "jev"}
  /\ script \in [scripted |-> Scripts, tiny |-> Tables, jev |-> {<<>>}][backend]
  /\ cursor = 0
  /\ receipts = <<>>
  /\ phase = "turn"
  /\ last = NoObservation
  /\ shown = NothingShown
  /\ out = NoAnswer
  /\ log = <<>>
  /\ performed = <<>>
  /\ crashes = 0
  /\ net = NoExchange

----------------------------------------------------------------------------
(* Asking.                                                                 *)

\* The request is recorded with the tail its prompt will show.
Schedule ==
  /\ phase = "turn"
  /\ Len(log) < MaxTurns
  /\ \E room \in Rooms : shown' = ShownOf(last.size, room)
  /\ phase' = "infer"
  /\ UNCHANGED <<modelVars, last, out, log, performed, crashes, net>>

\* An answer, and what it stands on.
Answer(line) ==
  [line |-> line, response |-> net.response, got |-> net.got,
   evidence |-> last, shown |-> shown]

Produce(line) ==
  /\ out' = Answer(line)
  /\ phase' = "answered"
  /\ UNCHANGED <<last, shown, log, performed, crashes, backend, script>>

\* The scripted model emits its next line, unless it has none left or the
\* line does not fit; then its cursor stays.
Emit ==
  /\ phase = "infer" /\ backend = "scripted"
  /\ IF cursor < Len(script) /\ ~script[cursor + 1].overlong
     THEN Produce(script[cursor + 1]) /\ cursor' = cursor + 1
     ELSE Produce(NoLine) /\ UNCHANGED cursor
  /\ UNCHANGED <<receipts, net>>

\* The tiny model looks the prompt up; the prompt counts the turns.
LookUp ==
  /\ phase = "infer" /\ backend = "tiny"
  /\ LET turn == Len(log) + 1
     IN IF turn <= Len(script) /\ script[turn] # NoEntry
           /\ ~script[turn].overlong
        THEN Produce(script[turn]) ELSE Produce(NoLine)
  /\ UNCHANGED <<cursor, receipts, net>>

AskJev ==
  /\ phase = "infer" /\ backend = "jev"
  /\ net' = [NoExchange EXCEPT !.at = "dial"]
  /\ phase' = "asking"
  /\ UNCHANGED <<modelVars, last, shown, out, log, performed, crashes>>

Exchanging ==
  /\ phase = "asking"
  /\ Exchange
  /\ UNCHANGED <<modelVars, turnVars>>

\* What the prompt's evidence hints at: nothing when it was cut.
DeriveHints ==
  IF shown.marked \/ shown.bytes = 0 THEN NoHints
  ELSE [pin |-> last.pin, sensor |-> last.sensor]

\* Mutant: a failed exchange is tried again.
JevRetries ==
  /\ phase = "asking"
  /\ net.at \in {"done", "failed"}
  /\ IF Answered
     THEN /\ Produce(RenderLine(Choice(net.response.document), DeriveHints))
          /\ receipts' = Append(receipts, net.response.document)
          /\ net' = NoExchange
     ELSE /\ net' = [NoExchange EXCEPT !.at = "dial"]
          /\ UNCHANGED <<backend, script, receipts, turnVars>>
  /\ UNCHANGED cursor

\* A receipt is kept for an emission only.
JevAnswers ==
  /\ phase = "asking"
  /\ net.at \in {"done", "failed"}
  /\ IF Answered
     THEN /\ Produce(RenderLine(Choice(net.response.document), DeriveHints))
          /\ receipts' = Append(receipts, net.response.document)
     ELSE Produce(NoLine) /\ UNCHANGED receipts
  /\ net' = NoExchange
  /\ UNCHANGED cursor

----------------------------------------------------------------------------
(* Recording, and a crash before it.                                       *)

Record ==
  /\ phase = "answered"
  /\ log' = Append(log, out)
  /\ out' = NoAnswer
  /\ phase' = IF out.line = NoLine THEN "over" ELSE "decode"
  /\ UNCHANGED <<modelVars, last, shown, performed, crashes, net>>

\* Mutant: nothing is taken back.
NotUnemitted == UNCHANGED <<cursor, receipts>>

\* unemit: the scripted cursor goes back one, Jev's last receipt goes.
Unemitted ==
  /\ cursor' = IF backend = "scripted" /\ cursor > 0 THEN cursor - 1 ELSE cursor
  /\ receipts' = IF backend = "jev" /\ receipts # <<>>
                 THEN SubSeq(receipts, 1, Len(receipts) - 1) ELSE receipts

\* The host takes an emission back whether the lost answer was a line or a
\* fault.
Crash ==
  /\ phase = "answered"
  /\ crashes < MaxCrashes
  /\ out.line = NoLine => FaultsLost
  /\ Unemitted
  /\ out' = NoAnswer
  /\ phase' = "infer"
  /\ crashes' = crashes + 1
  /\ UNCHANGED <<backend, script, last, shown, log, performed, net>>

----------------------------------------------------------------------------
(* Acting on a recorded line.                                              *)

Recorded == log[Len(log)].line

\* A refused line costs its turn; a call beyond the grant ends the run.
Decode ==
  /\ phase = "decode"
  /\ LET decision == DecodeLine(Recorded)
     IN phase' = IF decision.kind = "call"
                 THEN IF Authorized(Caps, decision) THEN "call" ELSE "over"
                 ELSE IF decision.kind = "ask" THEN "await"
                 ELSE IF decision.kind = "finish" THEN "over"
                 ELSE "turn"
  /\ UNCHANGED <<modelVars, last, shown, out, log, performed, crashes, net>>

\* The size of a recorded report, its marks written out.
Size(outcome) ==
  Len(outcome)
    + (MarkWidth - 1) * Cardinality({n \in DOMAIN outcome : outcome[n] \in Marker})

\* Which resource a report names, and what the run keeps of it.
Reported(call, outcome) ==
  [pin |-> IF "pin" \in DOMAIN call.args THEN call.args.pin ELSE 0,
   sensor |-> IF "sensor" \in DOMAIN call.args THEN call.args.sensor ELSE 0,
   size |-> Min({Size(outcome), ObservationCap})]

\* A delay's report is two numbers, both read again for its verification; a
\* mark is no number.
DelayReads(outcome) == Range(outcome) \cap Marker = {}

\* A record holds the masked report, or the run is over.
RunsOn(call, outcome) ==
  /\ Size(outcome) <= MaxOutcome
  /\ call.tool = "timer_delay_wait" => DelayReads(outcome)

\* The dispatcher validates the recorded arguments again, performs them and
\* records the report, masked.
Call ==
  /\ phase = "call"
  /\ LET call == DecodeLine(Recorded)
     IN \E report \in Reports[call.tool] :
          LET outcome == Mask(report)
          IN /\ performed' = Append(performed,
                   [call |-> call, turn |-> Len(log), outcome |-> outcome])
             /\ IF RunsOn(call, outcome)
                THEN phase' = "turn" /\ last' = Reported(call, outcome)
                ELSE phase' = "over" /\ UNCHANGED last
  /\ UNCHANGED <<modelVars, shown, out, log, crashes, net>>

\* The operator's answer lets the run go on; the next prompt shows the
\* report of the last call still.
Input ==
  /\ phase = "await"
  /\ phase' = "turn"
  /\ UNCHANGED <<modelVars, last, shown, out, log, performed, crashes, net>>

Asking == Emit \/ LookUp \/ AskJev \/ Exchanging \/ JevAnswers

Next ==
  Schedule \/ Asking \/ Record \/ Crash \/ Decode \/ Call \/ Input

Spec == Init /\ [][Next]_vars

\* The steps of asking that take place within a time limit or in the host
\* alone; the proxy's answer is no such step.
AskingInTime ==
  \/ Emit \/ LookUp \/ AskJev \/ JevAnswers
  \/ phase = "asking" /\ ExchangeInTime /\ UNCHANGED <<modelVars, turnVars>>

\* Whatever is limited in time settles, and the host's loop goes on; a proxy
\* owes no answer.
FairSpec == Spec /\ WF_vars(AskingInTime)

----------------------------------------------------------------------------
(* Properties.                                                             *)

\* Type invariant: an answer waits to be recorded only where one may, the
\* exchange is open only while Jev is asked, the log and the calls are
\* within the run's turns.
TypeOK ==
  /\ backend \in {"scripted", "tiny", "jev"}
  /\ phase \in {"turn", "infer", "asking", "answered", "decode", "call",
                "await", "over"}
  /\ last.pin \in Nat /\ last.sensor \in Nat /\ last.size \in Nat
  /\ shown.bytes \in Nat /\ shown.marked \in BOOLEAN
  /\ cursor \in 0..Len(script)
  /\ phase # "answered" => out = NoAnswer
  /\ phase # "asking" => net = NoExchange
  /\ Len(log) <= MaxTurns /\ Len(performed) <= Len(log)
  /\ crashes \in 0..MaxCrashes

\* A recorded line of Jev's is one the server answered in full: status 200,
\* all cells of the document and nothing after them, the pinned model, all
\* three answers; whatever the connection did, and however the body's end
\* was announced (jev/https.rs read_response, jev/mod.rs parse_response).
OnlyFullAnswersDecide ==
  \A n \in DOMAIN log :
    backend = "jev" /\ log[n].line # NoLine =>
      LET r == log[n].response
      IN /\ r.status = 200 /\ r.document.model = "pinned"
         /\ log[n].got >= r.head + r.document.cells
         /\ \/ r.lengths = {r.document.cells}
            \/ r.lengths = {} /\ log[n].got = r.head + r.document.cells
         /\ log[n].line.verb = "ASK" \/ r.document.should_ask.noul < NOUL_GATE_BPS

\* What a model has emitted is what was recorded, and the one line that is
\* about to be: crashes make it neither skip nor repeat a line, and Jev's
\* receipts are those of the recorded decisions, in order (backend.rs and
\* jev/mod.rs unemit).
Emissions == {n \in DOMAIN log : log[n].line # NoLine}

Unrecorded == IF out.line = NoLine THEN 0 ELSE 1

EmissionsAreRecorded ==
  /\ backend = "scripted" =>
       /\ cursor = Cardinality(Emissions) + Unrecorded
       /\ \A n \in Emissions : log[n].line = script[n]
  /\ backend = "jev" =>
       /\ Len(receipts) = Cardinality(Emissions) + Unrecorded
       /\ \A n \in Emissions : receipts[n] = log[n].response.document

\* No record of a tool's report holds a token or an access key, wherever in
\* the report it is and whatever else of it is masked (esper-core mask.rs, run/device.rs
\* observe).  An armoured key is taken out only with its end in reach.
Stretch(outcome, from, length, class) ==
  /\ from + length <= Len(outcome)
  /\ \A n \in 1..length : outcome[from + n] \in class

HoldsSecret(outcome) ==
  \E at \in DOMAIN outcome :
    \/ outcome[at] = "k" /\ Stretch(outcome, at, TokenMin, TokenChar)
    \/ outcome[at] = "K" /\ Stretch(outcome, at, AkiaTail, Alnum)

RecordsHoldNoSecret ==
  \A n \in DOMAIN performed : ~HoldsSecret(performed[n].outcome)

\* A delay that was performed leaves a report its verification can read
\* (run/device.rs parse_delay_outcome).
DelaysAreReadable ==
  \A n \in DOMAIN performed :
    performed[n].call.tool = "timer_delay_wait" =>
      DelayReads(performed[n].outcome)

\* Every question gets its answer or its fault, whatever the server does,
\* unless the proxy stops answering for ever: its answer is read before the
\* socket has a time limit, everything after it under one (jev/https.rs
\* connect_tls).
QuestionsSettle ==
  []<>(net.at # "tunnel") => (phase = "asking" ~> phase = "answered")

=============================================================================
