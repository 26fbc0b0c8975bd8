------------------------------ MODULE MCTurns ------------------------------
(***************************************************************************)
(* Turns on a small instance: two pins, one sensor, one wait; a server     *)
(* that answers well in several framings, or badly in one way each.        *)
(***************************************************************************)
EXTENDS Turns, TLC

MCPins == {0, 1}
MCSensors == {0}
MCWaits == {100}

MCCaps == [read |-> {0, 1}, write |-> {1}, sample |-> {0}, timer |-> TRUE,
           status |-> FALSE]

----------------------------------------------------------------------------
(* Documents of three cells.                                               *)

Sound == [object |-> TRUE, depth |-> 4, repeats |-> FALSE]

Chosen(choice) ==
  [type |-> "choice", choice |-> choice,
   probabilities |-> [c \in Candidate |-> 1250]]

Noul(bps) == [type |-> "noul", noul |-> bps]

Score(milli) ==
  [type |-> "score", score |-> milli, probabilities |-> [l \in Levels |-> 2500]]

Document(choice, bps) ==
  [cells |-> 3, text |-> Sound, model |-> "pinned", decision |-> Chosen(choice),
   should_ask |-> Noul(bps), confidence |-> Score(3100)]

Without(answer, field) == [f \in DOMAIN answer \ {field} |-> answer[f]]

Good == Document("call_gpio_pin_write", NOUL_GATE_BPS - 1)

GoodDocuments ==
  {Good, Document("call_gpio_pin_write", NOUL_GATE_BPS)}
  \cup {Document(c, 100) : c \in {"call_gpio_pin_read", "call_sensor_sample_read",
                                  "finish"}}

BadDocuments ==
  {[Good EXCEPT !.model = "other"],
   [Good EXCEPT !.text.repeats = TRUE],
   [Good EXCEPT !.decision.choice = "call_gpio_reset"],
   [Good EXCEPT !.decision.probabilities["ask"] = One + 1],
   [Good EXCEPT !.decision.probabilities = Without(@, "ask")],
   [Good EXCEPT !.should_ask = Without(@, "noul")],
   [Good EXCEPT !.confidence.score = 4001]}

----------------------------------------------------------------------------
(* Responses: a head of two cells, then the body.                          *)

Response(document, lengths, body) ==
  [head |-> 2, formed |-> TRUE, status |-> 200, lengths |-> lengths,
   chunked |-> FALSE, body |-> body, document |-> document]

MCResponses ==
  {Response(d, {3}, 3) : d \in GoodDocuments \cup BadDocuments}
  \cup {Response(Good, lengths, body) :
          lengths \in {{}, {2}, {3}, {4}}, body \in 3..4}
  \cup {Response(Good, {}, MaxBody + 1), Response(Good, {MaxBody + 1}, 3),
        Response(Good, {2, 3}, 3),
        [Response(Good, {3}, 3) EXCEPT !.head = MaxHead + 2],
        [Response(Good, {3}, 3) EXCEPT !.formed = FALSE],
        [Response(Good, {3}, 3) EXCEPT !.status = 500],
        [Response(Good, {}, 3) EXCEPT !.chunked = TRUE]}

----------------------------------------------------------------------------
(* What the scripted and the tiny model hold.                              *)

WriteLine(pin) ==
  CallLine("gpio_pin_write", [pin |-> Number(pin), level |-> String("low")])

BadLine == CallLine("gpio_pin_write", [pin |-> Number(1)])

MCScripts3 ==
  {<<WriteLine(1), BadLine, WriteLine(1)>>,
   <<AskLine, [AskLine EXCEPT !.overlong = TRUE], FinishLine>>,
   <<WriteLine(0), FinishLine>>}

MCTables ==
  {<<CallLine("timer_delay_wait", [ms |-> Number(100)]), NoEntry, FinishLine>>,
   <<CallLine("device_status_report", [detail |-> String("full")])>>}

----------------------------------------------------------------------------
(* What the tools report: something short, a token after a letter, and an  *)
(* address with an access key after it.                                    *)

Plain == <<"a", "a">>
WithToken == <<"a", "k", "a", "d", ".">>
WithAddress == <<"a", "@", "a", ".", "a", " ", "K", "a", "d">>

\* The delay's two numbers, the later of which counts from the start.
Waited(ms, uptime) ==
  <<"other">> \o [n \in 1..ms |-> "d"] \o <<"other">>
    \o [n \in 1..uptime |-> "d"] \o <<"other">>

MCReports ==
  [tool \in ToolName |->
     IF tool = "timer_delay_wait" THEN {Waited(1, 2)}
     ELSE IF tool = "gpio_pin_write" THEN {Plain, WithToken, WithAddress}
     ELSE {Plain, WithToken}]

\* A wait of 100 ms, asked for at up to a day of uptime.
DelayScripts ==
  {<<CallLine("timer_delay_wait", [ms |-> Number(100)]), FinishLine>>}

DelayReports ==
  [tool \in ToolName |-> {Waited(3, digits) : digits \in 3..8}]

NoTables == {<<>>}

============================================================================
