------------------------------- MODULE Tools -------------------------------
(***************************************************************************)
(* The tool protocol: the contracts of the six tools and their validation  *)
(* (esper-protocol contract.rs, validate.rs, json.rs), the decision        *)
(* grammar (esper-core decision.rs) and the capabilities that grant a call *)
(* (registry.rs).                                                          *)
(*                                                                         *)
(* A text is what the parsers tell apart of it: whether it is an object at *)
(* all, how deep it nests, whether a key comes twice, whether anything     *)
(* follows it, and its fields.  A value is a number, a string or something *)
(* else; a string is one its field admits, or any other.                   *)
(***************************************************************************)
EXTENDS Naturals, FiniteSets

CONSTANTS
  Pins,         \* the pins there are
  Sensors,      \* the sensors there are
  Waits,        \* the waits a delay may ask for, in milliseconds
  NumberCap,    \* bound: the largest number a text holds
  MaxDepth,     \* nesting the decision grammar reads (MAX_JSON_DEPTH)
  MaxKeys       \* keys of one object (MAX_OBJECT_KEYS)

ASSUME ToolsAssumption ==
  /\ Pins \subseteq 0..NumberCap /\ 0 \in Pins
  /\ Sensors \subseteq 0..NumberCap
  /\ Waits \subseteq 0..NumberCap
  /\ NumberCap \in Nat
  /\ MaxDepth \in Nat \ {0}
  /\ MaxKeys \in Nat \ {0}

----------------------------------------------------------------------------
(* Texts.                                                                  *)

Number(n) == [is |-> "number", value |-> n]
String(s) == [is |-> "string", value |-> s]

\* An object of those fields, well formed, with nothing after it.
Object(fields) ==
  [object |-> TRUE, depth |-> 1, repeats |-> FALSE, trailing |-> FALSE,
   fields |-> fields]

\* What both readers of objects refuse.
Reads(text, depth) == text.object /\ text.depth <= depth /\ ~text.repeats

IsText(text) ==
  /\ Reads(text, MaxDepth)
  /\ Cardinality(DOMAIN text.fields) <= MaxKeys
  /\ ~text.trailing

----------------------------------------------------------------------------
(* Contracts.                                                              *)

\* The kinds of an argument: a number of a range, one of a few words.
NumberIn(numbers) == [is |-> "number", among |-> numbers]
WordIn(words) == [is |-> "string", among |-> words]

NoArgs == <<>>

Contract(args, writes) == [args |-> args, writes |-> writes]

CATALOG ==
  [gpio_pin_read |-> Contract([pin |-> NumberIn(Pins)], FALSE),
   gpio_pin_write |->
     Contract([pin |-> NumberIn(Pins), level |-> WordIn({"low", "high"})], TRUE),
   sensor_sample_read |-> Contract([sensor |-> NumberIn(Sensors)], FALSE),
   timer_uptime_read |-> Contract(NoArgs, FALSE),
   timer_delay_wait |-> Contract([ms |-> NumberIn(Waits)], TRUE),
   device_status_report |->
     Contract([detail |-> WordIn({"summary", "full"})], FALSE)]

ToolName == DOMAIN CATALOG

\* What ASK and FINISH take, in the contracts' terms.
AskArgs == [prompt |-> WordIn({"prompt"}), schema |-> NumberIn({1})]
FinishArgs ==
  [status |-> WordIn({"completed"}), summary |-> WordIn({"summary"})]

\* Every argument is required and no other field is taken; each value is of
\* its kind and in its range.
Fits(text, args) ==
  /\ DOMAIN text.fields = DOMAIN args
  /\ \A name \in DOMAIN args :
       /\ text.fields[name].is = args[name].is
       /\ text.fields[name].value \in args[name].among

Validates(text, args) == IsText(text) /\ Fits(text, args)

\* The arguments a validated text binds.
Bound(text) == [name \in DOMAIN text.fields |-> text.fields[name].value]

----------------------------------------------------------------------------
(* The decision grammar: one line, one verb, one object.                   *)

CallLine(tool, fields) ==
  [verb |-> "CALL", tool |-> tool, text |-> Object(fields), overlong |-> FALSE]
AskLine ==
  [verb |-> "ASK", tool |-> "", overlong |-> FALSE,
   text |-> Object([prompt |-> String("prompt"), schema |-> Number(1)])]
FinishLine ==
  [verb |-> "FINISH", tool |-> "", overlong |-> FALSE,
   text |-> Object([status |-> String("completed"),
                    summary |-> String("summary")])]

\* A line longer than a line, its arguments or a field may be is refused.
DecodeCall(line) ==
  IF line.tool \in ToolName /\ Validates(line.text, CATALOG[line.tool].args)
  THEN [kind |-> "call", tool |-> line.tool, args |-> Bound(line.text)]
  ELSE [kind |-> "refused"]

DecodeAsk(line) ==
  [kind |-> IF Validates(line.text, AskArgs) THEN "ask" ELSE "refused"]

DecodeFinish(line) ==
  [kind |-> IF Validates(line.text, FinishArgs) THEN "finish" ELSE "refused"]

DecodeLine(line) ==
  IF line.overlong THEN [kind |-> "refused"]
  ELSE IF line.verb = "CALL" THEN DecodeCall(line)
  ELSE IF line.verb = "ASK" THEN DecodeAsk(line)
  ELSE IF line.verb = "FINISH" THEN DecodeFinish(line)
  ELSE [kind |-> "refused"]

----------------------------------------------------------------------------
(* Capabilities: what a seed grants.                                       *)

Capabilities == [read : SUBSET Pins, write : SUBSET Pins,
                 sample : SUBSET Sensors, timer : BOOLEAN, status : BOOLEAN]

Authorized(caps, call) ==
  IF call.tool = "gpio_pin_read" THEN call.args.pin \in caps.read
  ELSE IF call.tool = "gpio_pin_write" THEN call.args.pin \in caps.write
  ELSE IF call.tool = "sensor_sample_read" THEN call.args.sensor \in caps.sample
  ELSE IF call.tool = "device_status_report" THEN caps.status
  ELSE caps.timer

=============================================================================
