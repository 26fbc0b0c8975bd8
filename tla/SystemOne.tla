----------------------------- MODULE SystemOne -----------------------------
(***************************************************************************)
(* One question to Jev, the hosted model (esper-runtime jev/mod.rs and     *)
(* jev/https.rs): dial it, directly or through a proxy's tunnel, send the  *)
(* request, read an HTTP response, read the answers out of its body and    *)
(* render a decision line from them.  The connection may close at any      *)
(* byte, and every read but that of the proxy's answer may time out.       *)
(*                                                                         *)
(* A response is counted in cells: those of its head, then those of its    *)
(* body, of which the document is the first.  A document is what its       *)
(* reader tells apart of it, and the fields of its three answers.          *)
(***************************************************************************)
EXTENDS Tools

CONSTANTS
  Responses,         \* responses the server may give
  NoResponse,        \* none yet
  MaxHead,           \* cells of a head that is read (MAX_HEAD_BYTES)
  MaxBody,           \* cells of a body that is read (MAX_BODY_BYTES)
  MaxRead,           \* bound: cells one read brings
  MaxResponseDepth,  \* nesting the document reader reads
  One,               \* a probability of one, in basis points
  NOUL_GATE_BPS,     \* from here on the operator is asked
  Proxied            \* whether a proxy stands in between

ASSUME SystemOneAssumption ==
  /\ MaxHead \in Nat /\ MaxBody \in Nat
  /\ MaxRead \in Nat \ {0}
  /\ One \in Nat /\ NOUL_GATE_BPS \in 0..One
  /\ Proxied \in BOOLEAN
  /\ \A r \in Responses :
       /\ {r.head, r.body} \subseteq Nat
       /\ r.lengths \subseteq Nat /\ IsFiniteSet(r.lengths)
       /\ "noul" \in DOMAIN r.document.should_ask =>
            r.document.should_ask.noul \in Nat

----------------------------------------------------------------------------
(* The answers of a document.                                              *)

Candidate ==
  {"call_gpio_pin_read", "call_gpio_pin_write", "call_sensor_sample_read",
   "call_timer_delay_wait", "call_timer_uptime_read",
   "call_device_status_report", "ask", "finish"}

Levels == {"1", "2", "3", "4"}

\* A field is of the type its answer names, or names none.
OfType(answer, type) == "type" \in DOMAIN answer => answer.type = type

\* Every option has its probability, and no other name has one.
Distribution(answer, options) ==
  /\ "probabilities" \in DOMAIN answer
  /\ DOMAIN answer.probabilities = options
  /\ \A o \in options : answer.probabilities[o] <= One

ReadsDecision(answer) ==
  /\ OfType(answer, "choice")
  /\ "choice" \in DOMAIN answer
  /\ answer.choice \in Candidate
  /\ Distribution(answer, Candidate)

ReadsNoul(answer) ==
  /\ OfType(answer, "noul")
  /\ "noul" \in DOMAIN answer
  /\ answer.noul <= One

ReadsScore(answer) ==
  /\ OfType(answer, "score")
  /\ "score" \in DOMAIN answer
  /\ answer.score \in 1000..4000
  /\ Distribution(answer, Levels)

\* The document is whole, of the pinned model, and has the three answers.
ReadsAnswer(document) ==
  /\ Reads(document.text, MaxResponseDepth)
  /\ document.model = "pinned"
  /\ ReadsDecision(document.decision)
  /\ ReadsNoul(document.should_ask)
  /\ ReadsScore(document.confidence)

\* The noul gate: in doubt, the operator is asked instead.
Choice(document) ==
  IF document.should_ask.noul >= NOUL_GATE_BPS
  THEN "ask" ELSE document.decision.choice

----------------------------------------------------------------------------
(* The line a choice renders to, with what the prompt's evidence hints at. *)

NoHints == [pin |-> 0, sensor |-> 0]

RenderLine(choice, hints) ==
  [call_gpio_pin_read |-> CallLine("gpio_pin_read", [pin |-> Number(hints.pin)]),
   call_gpio_pin_write |->
     CallLine("gpio_pin_write",
              [pin |-> Number(hints.pin), level |-> String("high")]),
   call_sensor_sample_read |->
     CallLine("sensor_sample_read", [sensor |-> Number(hints.sensor)]),
   call_timer_delay_wait |-> CallLine("timer_delay_wait", [ms |-> Number(100)]),
   call_timer_uptime_read |-> CallLine("timer_uptime_read", NoArgs),
   call_device_status_report |->
     CallLine("device_status_report", [detail |-> String("summary")]),
   ask |-> AskLine,
   finish |-> FinishLine][choice]


----------------------------------------------------------------------------
(* The exchange.                                                           *)

VARIABLE
  net   \* how far it is, the response, the cells of it received so far

NoExchange == [at |-> "idle", response |-> NoResponse, got |-> 0]

Failed == [NoExchange EXCEPT !.at = "failed"]

\* Name resolution, the connection, a TLS session: any of them may fail.
Dial ==
  /\ net.at = "dial"
  /\ \/ net' = [net EXCEPT !.at = IF Proxied THEN "tunnel" ELSE "send"]
     \/ net' = Failed

\* The proxy opens the tunnel, refuses it or closes; the socket has no time
\* limit yet, so it may as well say nothing for ever.
Tunnel ==
  /\ net.at = "tunnel"
  /\ \/ net' = [net EXCEPT !.at = "send"]
     \/ net' = Failed

Send ==
  /\ net.at = "send"
  /\ \/ \E r \in Responses :
          net' = [net EXCEPT !.at = "head", !.response = r]
     \/ net' = Failed

\* The head is well formed, names one length at most, and announces a body
\* that can be read.
ReadsHead(r) ==
  /\ r.formed
  /\ Cardinality(r.lengths) <= 1
  /\ ~r.chunked
  /\ \A length \in r.lengths : length <= MaxBody

\* Where the exchange stands with so much of the body received.
BodyAt(r, body) ==
  IF \E length \in r.lengths : body >= length THEN "done"
  ELSE IF r.lengths = {} /\ body > MaxBody THEN "failed"
  ELSE "body"

At(r, got) ==
  IF got < r.head
  THEN IF got > MaxHead THEN "failed" ELSE "head"
  ELSE IF ReadsHead(r) THEN BodyAt(r, got - r.head) ELSE "failed"

Read ==
  /\ net.at \in {"head", "body"}
  /\ \E n \in 1..MaxRead :
       /\ net.got + n <= net.response.head + net.response.body
       /\ net' = [net EXCEPT !.got = @ + n,
                             !.at = At(net.response, net.got + n)]

\* The connection closes: the end of a body of no announced length, too
\* early for anything else.
Close ==
  /\ net.at \in {"head", "body"}
  /\ IF net.at = "body" /\ net.response.lengths = {}
     THEN net' = [net EXCEPT !.at = "done"]
     ELSE net' = Failed

TimeOut ==
  /\ net.at \in {"head", "body"}
  /\ net' = Failed

\* Every step but the proxy's has a time limit.
ExchangeInTime == Dial \/ Send \/ Read \/ Close \/ TimeOut

Exchange == Tunnel \/ ExchangeInTime

\* What was read of the body: an announced length cuts it.
BodyRead ==
  IF net.response.lengths = {} THEN net.got - net.response.head
  ELSE CHOOSE length \in net.response.lengths : TRUE

\* Mutant: the document may go on after what was read of it.
AnsweredInPart ==
  /\ net.at = "done"
  /\ net.response.status = 200
  /\ ReadsAnswer(net.response.document)

\* The response is an answer: a document that ends where the body does.
Answered ==
  /\ net.at = "done"
  /\ net.response.status = 200
  /\ BodyRead = net.response.document.cells
  /\ ReadsAnswer(net.response.document)

=============================================================================
