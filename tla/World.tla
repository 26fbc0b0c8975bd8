------------------------------- MODULE World -------------------------------
(***************************************************************************)
(* The scripted world a host run is driven in (esper-runtime world.rs, and *)
(* the ports of run/host.rs over it): a model of fixed lines, a device     *)
(* that performs every effect once and answers it from then on, a plan of  *)
(* transient faults, the operator's inputs in order, and the snapshots.    *)
(*                                                                         *)
(* A world is one record; a port takes it and a request to the world after *)
(* and the answer.  Last the points at which a drive may be cut short      *)
(* (error.rs, and crash_point of run/host.rs).                             *)
(***************************************************************************)
EXTENDS Naturals, SequencesExt

CONSTANTS
  Nothing,   \* no answer: the activity stays outstanding
  AnyTool,   \* a planned fault that meets whichever tool comes
  Class(_),  \* the class of a line: "call", "ask", "finish" or "invalid"
  NoCrash    \* no crash point, or none any more

PinCount == 8
SensorCount == 4

\* Levels of a pin.
Low == 0
High == 1

\* A device no one has touched.
NewDevice ==
  [level |-> [pin \in 0..(PinCount - 1) |-> Low], clock |-> 0,
   effects |-> <<>>, ledger |-> <<>>]

NewWorld(lines, faults, inputs, stuck) ==
  [lines |-> lines, emitted |-> 0, faults |-> faults, inputs |-> inputs,
   taken |-> 0, stuck |-> stuck, device |-> NewDevice, store |-> {}]

\* The report of an attempt that met a planned fault.
Transient == [transient |-> TRUE]

Done(world, value) ==
  [world |-> world, answer |-> [completed |-> TRUE, value |-> value]]
Failed(world, fault) ==
  [world |-> world, answer |-> [completed |-> FALSE, value |-> fault]]

----------------------------------------------------------------------------
(* The model.                                                              *)

Infer(world) ==
  IF world.emitted < Len(world.lines)
  THEN Done([world EXCEPT !.emitted = @ + 1], world.lines[world.emitted + 1])
  ELSE Failed(world, "InferenceFailed")

Unemitted(world) ==
  [world EXCEPT !.emitted = IF @ = 0 THEN 0 ELSE @ - 1]

----------------------------------------------------------------------------
(* Planned faults: the first entry that matches and is not used up.        *)

Matching(faults, tool, resource) ==
  {n \in DOMAIN faults :
     /\ faults[n].tool \in {AnyTool, tool}
     /\ faults[n].resource = resource
     /\ faults[n].times > 0}

Consumed(faults, tool, resource) ==
  [faults EXCEPT ![Min(Matching(faults, tool, resource))].times = @ - 1]

\* The resource a call is planned against.
Resource(call) ==
  IF call.tool \in {"read", "write", "sample"} THEN call.resource ELSE 0

----------------------------------------------------------------------------
(* The device.                                                             *)

\* An effect: its name, and what was performed under it.
Effect(id, digest, outcome) == [id |-> id, digest |-> digest, outcome |-> outcome]

PerformedAs(device, id) == {n \in DOMAIN device.effects : device.effects[n].id = id}

Level(device, pin) == [pin |-> pin, level |-> device.level[pin]]

\* What a call does to the device, and what it reports.
Physical(world, call, seq) ==
  LET device == world.device
  IN IF call.tool = "read"
     THEN [device |-> device, outcome |-> Level(device, call.resource)]
     ELSE IF call.tool = "write"
     THEN [device |-> [device EXCEPT
              !.level[call.resource] =
                 IF call.resource \in world.stuck THEN @ ELSE call.value,
              !.ledger = Append(@, [pin |-> call.resource, level |-> call.value,
                                    seq |-> seq])],
           outcome |-> [pin |-> call.resource, level |-> call.value]]
     ELSE IF call.tool = "delay"
     THEN [device |-> [device EXCEPT !.clock = @ + call.value],
           outcome |-> [waited |-> call.value, uptime |-> device.clock + call.value]]
     ELSE IF call.tool = "sample"
     THEN [device |-> device, outcome |-> [sensor |-> call.resource]]
     ELSE IF call.tool = "uptime"
     THEN [device |-> device, outcome |-> [uptime |-> device.clock]]
     ELSE [device |-> device,
           outcome |-> [uptime |-> device.clock, level |-> device.level]]

Perform(world, id, call) ==
  LET done == Physical(world, call, id.seq)
  IN Done([world EXCEPT
             !.device = [done.device EXCEPT
                !.effects = Append(@, Effect(id, call.digest, done.outcome))]],
          done.outcome)

\* Mutant: a redelivered call is performed again.
DispatchAgain(world, id, call) == Perform(world, id, call)

\* A call redelivered under its effect is answered, not performed; one of
\* other arguments under that name is refused.
Dispatch(world, id, call) ==
  LET done == PerformedAs(world.device, id)
      effect == world.device.effects[Min(done)]
  IN IF done # {}
     THEN IF effect.digest = call.digest THEN Done(world, effect.outcome)
          ELSE Failed(world, "EffectArgsMismatch")
     ELSE IF call.tool = "sample" /\ call.resource >= SensorCount
     THEN Failed(world, "UnknownResource")
     ELSE Perform(world, id, call)

\* A planned fault never reaches the device.
Tool(world, id, call) ==
  IF Matching(world.faults, call.tool, Resource(call)) # {}
  THEN Done([world EXCEPT !.faults = Consumed(@, call.tool, Resource(call))],
            Transient)
  ELSE Dispatch(world, id, call)

\* The verifier reads the pin or the clock itself.
ReadBack(world, check) ==
  Done(world, IF check.of = "pin" THEN world.device.level[check.pin]
              ELSE world.device.clock)

----------------------------------------------------------------------------
(* The operator and the snapshots.                                         *)

Ask(world) ==
  IF world.taken < Len(world.inputs)
  THEN Done([world EXCEPT !.taken = @ + 1], world.inputs[world.taken + 1])
  ELSE [world |-> world, answer |-> Nothing]

Untaken(world) == [world EXCEPT !.taken = IF @ = 0 THEN 0 ELSE @ - 1]

StoreChunk(world, chunk) ==
  Done([world EXCEPT !.store = @ \cup {chunk}], "stored")

LoadChunk(world, chunk) ==
  IF chunk \in world.store THEN Done(world, chunk)
  ELSE Failed(world, "SnapshotMissing")

----------------------------------------------------------------------------

\* The port an activity of a run reaches.
Served(world, run, request) ==
  IF request.kind = "INFER" THEN Infer(world)
  ELSE IF request.kind = "TOOL"
  THEN Tool(world, [run |-> run, seq |-> request.call.seq], request.call)
  ELSE IF request.kind = "VERIFY" THEN ReadBack(world, request.check)
  ELSE IF request.kind = "PROBE" THEN Done(world, "output")
  ELSE IF request.kind = "ASK" THEN Ask(world)
  ELSE IF request.kind = "SNAP_STORE" THEN StoreChunk(world, request.chunk)
  ELSE LoadChunk(world, request.chunk)

----------------------------------------------------------------------------
(* A point is named after the activity that was requested last, at three   *)
(* boundaries of its records.                                              *)

CrashPoint ==
  {"ModelIntent", "BeforeDecisionCommit", "BeforeAuthorize", "ToolIntent",
   "AfterPhysicalBeforeObservation", "AfterObservationBeforeVerify",
   "BeforeVerificationCommit", "AfterVerification", "AwaitInput",
   "BeforeTerminalCommit", "AfterTerminalCommit"}

\* Between a request's record and its dispatch.
AfterSchedule(request) ==
  IF request.kind = "INFER" THEN "ModelIntent"
  ELSE IF request.kind = "TOOL" /\ request.call.attempt = 1 THEN "ToolIntent"
  ELSE IF request.kind = "ASK" THEN "AwaitInput"
  ELSE "none"

\* Between what was done and its record.
BeforeResolve(request) ==
  CASE request.kind = "INFER" -> "BeforeDecisionCommit"
    [] request.kind = "TOOL" -> "AfterPhysicalBeforeObservation"
    [] request.kind = "VERIFY" -> "BeforeVerificationCommit"
    [] OTHER -> "none"

\* Between the record of an answer and what the workflow makes of it; a
\* failed one has no such point.
AfterResolve(request, answer) ==
  IF ~answer.completed THEN "none"
  ELSE IF request.kind = "INFER" /\ Class(answer.value) = "call" THEN "BeforeAuthorize"
  ELSE IF request.kind = "TOOL" /\ request.call.write /\ answer.value # Transient
  THEN "AfterObservationBeforeVerify"
  ELSE IF request.kind = "VERIFY" THEN "AfterVerification"
  ELSE "none"

=============================================================================
