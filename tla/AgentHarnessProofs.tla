------------------------- MODULE AgentHarnessProofs -------------------------
(***************************************************************************)
(* Theorems of the host's drive of a supervisor, for every deterministic   *)
(* supervisor and every deterministic run, whatever the operator and the   *)
(* model say and wherever boots are stopped: every journal is at all times *)
(* a run of its workflow, so replaying diverges from none of them, and a   *)
(* run that has ended is read back and never driven on.                    *)
(***************************************************************************)
EXTENDS AgentHarness, TLAPS

IsSeq(s) == \E S : s \in Seq(S)

LEMMA NoneIsSeq ==
  ASSUME NEW s, s = <<>>
  PROVE  IsSeq(s) /\ Len(s) = 0
<1>1. s \in Seq({}) /\ Len(s) = 0
  OBVIOUS
<1> QED
  BY <1>1 DEF IsSeq

LEMMA LengthOf ==
  ASSUME NEW s, IsSeq(s)
  PROVE  Len(s) \in Nat /\ DOMAIN s = 1..Len(s)
BY DEF IsSeq

\* Requests are at the odd places, and answers at the even ones: t is s and a
\* request more, or an answer more.
Requested1(s, t, p, e) ==
  /\ Len(t) = 2 * p + 1 /\ t[2 * p + 1] = e
  /\ \A q \in Nat : 2 * q + 1 =< Len(t) =>
       q = p \/ (2 * q + 1 =< Len(s) /\ t[2 * q + 1] = s[2 * q + 1])
  /\ \A q \in Nat : 2 * q + 2 =< Len(t) =>
       2 * q + 2 =< Len(s) /\ t[2 * q + 2] = s[2 * q + 2]

Answered1(s, t, p, e) ==
  /\ Len(t) = 2 * p + 2 /\ t[2 * p + 2] = e
  /\ \A q \in Nat : 2 * q + 1 =< Len(t) =>
       q # p + 1 /\ 2 * q + 1 =< Len(s) /\ t[2 * q + 1] = s[2 * q + 1]
  /\ \A q \in Nat : 2 * q + 2 =< Len(t) =>
       /\ q # p + 1
       /\ q = p \/ (q + 1 # p + 1 /\ 2 * q + 2 =< Len(s) /\ t[2 * q + 2] = s[2 * q + 2])

LEMMA OneMore ==
  ASSUME NEW s, IsSeq(s), NEW e, NEW t, t = Append(s, e), NEW p \in Nat
  PROVE  /\ IsSeq(t)
         /\ Len(s) = 2 * p => Requested1(s, t, p, e)
         /\ Len(s) = 2 * p + 1 => Answered1(s, t, p, e)
<1>1. /\ IsSeq(t) /\ Len(t) = Len(s) + 1 /\ t[Len(t)] = e
      /\ \A n \in 1..Len(s) : t[n] = s[n]
  <2>1. PICK R : s \in Seq(R)
    BY DEF IsSeq
  <2> DEFINE S == R \cup {e}
  <2>2. s \in Seq(S) /\ e \in S
    BY <2>1
  <2> HIDE DEF S
  <2>3. /\ t \in Seq(S) /\ Len(t) = Len(s) + 1 /\ t[Len(t)] = e
        /\ \A n \in 1..Len(s) : t[n] = s[n]
    BY <2>2
  <2> QED
    BY <2>3 DEF IsSeq
<1>2. ASSUME Len(s) = 2 * p
      PROVE  Requested1(s, t, p, e)
  <2>1. ASSUME NEW q \in Nat, 2 * q + 1 =< Len(t)
        PROVE  q = p \/ (2 * q + 1 =< Len(s) /\ 2 * q + 1 \in 1..Len(s))
    BY <1>1, <1>2, <2>1
  <2>2. ASSUME NEW q \in Nat, 2 * q + 2 =< Len(t)
        PROVE  2 * q + 2 =< Len(s) /\ 2 * q + 2 \in 1..Len(s)
    BY <1>1, <1>2, <2>2
  <2> QED
    BY <1>1, <1>2, <2>1, <2>2 DEF Requested1
<1>3. ASSUME Len(s) = 2 * p + 1
      PROVE  Answered1(s, t, p, e)
  <2>1. ASSUME NEW q \in Nat, 2 * q + 1 =< Len(t)
        PROVE  q # p + 1 /\ 2 * q + 1 =< Len(s) /\ 2 * q + 1 \in 1..Len(s)
    BY <1>1, <1>3, <2>1
  <2>2. ASSUME NEW q \in Nat, 2 * q + 2 =< Len(t)
        PROVE  /\ q # p + 1
               /\ q = p \/ (q + 1 # p + 1 /\ 2 * q + 2 =< Len(s) /\ 2 * q + 2 \in 1..Len(s))
    BY <1>1, <1>3, <2>2
  <2> QED
    BY <1>1, <1>3, <2>1, <2>2 DEF Answered1
<1> QED
  BY <1>1, <1>2, <1>3

----------------------------------------------------------------------------
(* The supervisor's journal.                                               *)

\* What the supervisor leaves on record when it wants something, and what record
\* takes it on from there.
Intends(work, record) ==
  \/ work.want.op = "activity" /\ record = Scheduled(work.want.request)
  \/ work.want.op = "wait" /\ record = TimerArmed(work.want.deadline)

GoesOn(work, record, after) ==
  \/ /\ work.want.op = "activity" /\ record.is = "Resolved"
     /\ after = Supervised(work, record.answer)
  \/ /\ work.want.op = "wait" /\ record = TimerFired
     /\ after = Supervised(work, TimerFired)

\* A journal is a run of the supervisor: g takes it from its input on, and every
\* record is what it wanted or what took it on.
Goes(g, h) ==
  /\ g[0] = Supervise(h.input)
  /\ \A p \in Nat : 2 * p + 1 =< Len(h.records) => Intends(g[p], h.records[2 * p + 1])
  /\ \A p \in Nat : 2 * p + 2 =< Len(h.records) =>
       GoesOn(g[p], h.records[2 * p + 2], g[p + 1])

\* The boot stands where the journal's run stood.
CursorAt(g, p, c, h) ==
  /\ c.work = g[p]
  /\ IF c.handed
     THEN /\ c.at = 2 * p + 1 /\ c.at = Len(h.records)
          /\ c.work.want.op = "activity"
     ELSE c.at = 2 * p /\ c.at =< Len(h.records)

HistoryShape(h) ==
  /\ h = [input |-> h.input, records |-> h.records, continued |-> h.continued,
          commits |-> h.commits]
  /\ IsSeq(h.records)

CursorShape(c) ==
  /\ c = [at |-> c.at, work |-> c.work, handed |-> c.handed, answer |-> c.answer,
          armed |-> c.armed]
  /\ c.at \in Nat /\ c.handed \in BOOLEAN
  /\ c.answer # Nothing => c.handed

SupervisorStands ==
  /\ stage \in {"boot", "up", "driven"}
  /\ HistoryShape(history) /\ CursorShape(cursor)
  /\ \E g : /\ Goes(g, history)
            /\ stage = "up" => \E p \in Nat : CursorAt(g, p, cursor, history)

LEMMA GoesIntended ==
  ASSUME NEW g, NEW h, NEW k, Goes(g, h), IsSeq(h.records), NEW p \in Nat,
         Len(h.records) = 2 * p, NEW e, Intends(g[p], e),
         k.input = h.input, k.records = Append(h.records, e)
  PROVE  Goes(g, k) /\ IsSeq(k.records) /\ Len(k.records) = 2 * p + 1
<1>1. IsSeq(k.records) /\ Requested1(h.records, k.records, p, e)
  BY OneMore
<1>2. \A q \in Nat : 2 * q + 1 =< Len(k.records) => Intends(g[q], k.records[2 * q + 1])
  BY <1>1 DEF Requested1, Goes
<1>3. \A q \in Nat : 2 * q + 2 =< Len(k.records) =>
        GoesOn(g[q], k.records[2 * q + 2], g[q + 1])
  BY <1>1 DEF Requested1, Goes
<1> QED
  BY <1>1, <1>2, <1>3 DEF Goes, Requested1

\* The journal k has its p-th answer, and came from it to after.
GoesTo(k, p, after) ==
  /\ \E f : Goes(f, k) /\ f[p + 1] = after
  /\ IsSeq(k.records) /\ Len(k.records) = 2 * p + 2

LEMMA GoesTaken ==
  ASSUME NEW g, NEW h, NEW k, Goes(g, h), IsSeq(h.records), NEW p \in Nat,
         Len(h.records) = 2 * p + 1, NEW e, NEW after, GoesOn(g[p], e, after),
         k.input = h.input, k.records = Append(h.records, e)
  PROVE  GoesTo(k, p, after)
<1>1. IsSeq(k.records) /\ Answered1(h.records, k.records, p, e)
  BY OneMore
<1> DEFINE f == [n \in Nat |-> IF n = p + 1 THEN after ELSE g[n]]
<1>2. f[p + 1] = after /\ \A n \in Nat : n # p + 1 => f[n] = g[n]
  OBVIOUS
<1> HIDE DEF f
<1>3. ASSUME NEW q \in Nat, 2 * q + 1 =< Len(k.records)
      PROVE  Intends(f[q], k.records[2 * q + 1])
  BY <1>1, <1>2, <1>3 DEF Answered1, Goes
<1>4. ASSUME NEW q \in Nat, 2 * q + 2 =< Len(k.records)
      PROVE  GoesOn(f[q], k.records[2 * q + 2], f[q + 1])
  <2>1. q # p + 1 /\ f[q] = g[q]
    BY <1>1, <1>2, <1>4 DEF Answered1
  <2>2. CASE q = p
    BY <1>1, <1>2, <2>1, <2>2 DEF Answered1
  <2>3. CASE q # p
    <3>1. /\ q + 1 # p + 1 /\ 2 * q + 2 =< Len(h.records)
          /\ k.records[2 * q + 2] = h.records[2 * q + 2]
      BY <1>1, <1>4, <2>3 DEF Answered1
    <3>2. f[q + 1] = g[q + 1]
      BY <1>2, <3>1
    <3> QED
      BY <2>1, <3>1, <3>2 DEF Goes
  <2> QED
    BY <2>2, <2>3
<1>5. f[0] = Supervise(k.input)
  BY <1>2 DEF Goes
<1>6. Goes(f, k)
  BY <1>3, <1>4, <1>5 DEF Goes
<1> QED
  BY <1>1, <1>2, <1>6 DEF Answered1, GoesTo

LEMMA GoesNowhere ==
  ASSUME NEW h, h.records = <<>>
  PROVE  \E g : Goes(g, h)
<1> DEFINE g == [n \in Nat |-> Supervise(h.input)]
<1>1. g[0] = Supervise(h.input)
  OBVIOUS
<1>2. Len(h.records) = 0
  OBVIOUS
<1> HIDE DEF g
<1>3. Goes(g, h)
  BY <1>1, <1>2 DEF Goes
<1> QED
  BY <1>3

LEMMA GoesSame ==
  ASSUME NEW g, NEW h, NEW k, Goes(g, h), k.records = h.records, k.input = h.input
  PROVE  Goes(g, k)
BY DEF Goes

----------------------------------------------------------------------------
(* The runs' journals.                                                     *)

RunIntends(work, record) ==
  work.want.op = "activity" /\ record = Scheduled(work.want.request)

RunGoesOn(work, record, after) ==
  record.is = "Resolved" /\ after = After(work, record.answer)

\* A run's journal is a run of its workflow: f takes it from its input on.
Follows(f, run) ==
  /\ f[0] = Begin(run.input)
  /\ \A p \in Nat : 2 * p + 1 =< Len(run.records) =>
       RunIntends(f[p], run.records[2 * p + 1])
  /\ \A p \in Nat : 2 * p + 2 =< Len(run.records) =>
       RunGoesOn(f[p], run.records[2 * p + 2], f[p + 1])

\* The end on record is the one the workflow reached after its last answer.
Ends(f, run) ==
  run.terminal # <<>> =>
    \E p \in Nat : /\ Len(run.records) = 2 * p
                   /\ f[p].want.op = "conclude"
                   /\ run.terminal = <<f[p].want.status>>

RunShape(run) ==
  /\ run = [segments |-> run.segments, input |-> run.input, records |-> run.records,
            terminal |-> run.terminal, crash |-> run.crash]
  /\ IsSeq(run.records)

NestedShape(n) ==
  /\ n = [run |-> n.run, at |-> n.at, work |-> n.work, handed |-> n.handed,
          answer |-> n.answer, segments |-> n.segments]
  /\ n.at \in Nat /\ n.handed \in BOOLEAN
  /\ n.answer # Nothing => n.handed

\* The run that is driven stands where its journal's run stood.
NestedAt(f, p, n, run) ==
  /\ n.work = f[p]
  /\ IF n.handed
     THEN /\ n.at = 2 * p + 1 /\ n.at = Len(run.records)
          /\ n.work.want.op = "activity"
     ELSE n.at = 2 * p /\ n.at =< Len(run.records)

RunStands(run, name, n) ==
  /\ RunShape(run)
  /\ \E f : /\ Follows(f, run) /\ Ends(f, run)
            /\ n # Nothing /\ n.run = name => \E p \in Nat : NestedAt(f, p, n, run)

\* The run a boot is in the middle of.
Driven == IF stage = "up" THEN nested ELSE Nothing

RunsStand ==
  /\ stage = "boot" => nested = Nothing
  /\ runs = [held |-> runs.held, armed |-> runs.armed]
  /\ Driven # Nothing => NestedShape(Driven) /\ Driven.run \in DOMAIN runs.held
  /\ \A name \in DOMAIN runs.held : RunStands(runs.held[name], name, Driven)

LEMMA FollowsIntended ==
  ASSUME NEW f, NEW j, NEW k, Follows(f, j), IsSeq(j.records), NEW p \in Nat,
         Len(j.records) = 2 * p, NEW e, RunIntends(f[p], e),
         k.input = j.input, k.records = Append(j.records, e)
  PROVE  Follows(f, k) /\ IsSeq(k.records) /\ Len(k.records) = 2 * p + 1
<1>1. IsSeq(k.records) /\ Requested1(j.records, k.records, p, e)
  BY OneMore
<1>2. \A q \in Nat : 2 * q + 1 =< Len(k.records) => RunIntends(f[q], k.records[2 * q + 1])
  BY <1>1 DEF Requested1, Follows
<1>3. \A q \in Nat : 2 * q + 2 =< Len(k.records) =>
        RunGoesOn(f[q], k.records[2 * q + 2], f[q + 1])
  BY <1>1 DEF Requested1, Follows
<1> QED
  BY <1>1, <1>2, <1>3 DEF Follows, Requested1

\* The journal k has its p-th answer, and came from it to after.
FollowsTo(k, p, after) ==
  /\ \E g : Follows(g, k) /\ g[p + 1] = after
  /\ IsSeq(k.records) /\ Len(k.records) = 2 * p + 2

LEMMA FollowsTaken ==
  ASSUME NEW f, NEW j, NEW k, Follows(f, j), IsSeq(j.records), NEW p \in Nat,
         Len(j.records) = 2 * p + 1, NEW e, NEW after, RunGoesOn(f[p], e, after),
         k.input = j.input, k.records = Append(j.records, e)
  PROVE  FollowsTo(k, p, after)
<1>1. IsSeq(k.records) /\ Answered1(j.records, k.records, p, e)
  BY OneMore
<1> DEFINE g == [n \in Nat |-> IF n = p + 1 THEN after ELSE f[n]]
<1>2. g[p + 1] = after /\ \A n \in Nat : n # p + 1 => g[n] = f[n]
  OBVIOUS
<1> HIDE DEF g
<1>3. ASSUME NEW q \in Nat, 2 * q + 1 =< Len(k.records)
      PROVE  RunIntends(g[q], k.records[2 * q + 1])
  BY <1>1, <1>2, <1>3 DEF Answered1, Follows
<1>4. ASSUME NEW q \in Nat, 2 * q + 2 =< Len(k.records)
      PROVE  RunGoesOn(g[q], k.records[2 * q + 2], g[q + 1])
  <2>1. q # p + 1 /\ g[q] = f[q]
    BY <1>1, <1>2, <1>4 DEF Answered1
  <2>2. CASE q = p
    BY <1>1, <1>2, <2>1, <2>2 DEF Answered1
  <2>3. CASE q # p
    <3>1. /\ q + 1 # p + 1 /\ 2 * q + 2 =< Len(j.records)
          /\ k.records[2 * q + 2] = j.records[2 * q + 2]
      BY <1>1, <1>4, <2>3 DEF Answered1
    <3>2. g[q + 1] = f[q + 1]
      BY <1>2, <3>1
    <3> QED
      BY <2>1, <3>1, <3>2 DEF Follows
  <2> QED
    BY <2>2, <2>3
<1>5. g[0] = Begin(k.input)
  BY <1>2 DEF Follows
<1>6. Follows(g, k)
  BY <1>3, <1>4, <1>5 DEF Follows
<1> QED
  BY <1>1, <1>2, <1>6 DEF Answered1, FollowsTo

LEMMA FollowsNowhere ==
  ASSUME NEW j, j.records = <<>>
  PROVE  \E f : Follows(f, j) /\ f[0] = Begin(j.input)
<1> DEFINE f == [n \in Nat |-> Begin(j.input)]
<1>1. f[0] = Begin(j.input)
  OBVIOUS
<1>2. Len(j.records) = 0
  OBVIOUS
<1> HIDE DEF f
<1>3. Follows(f, j)
  BY <1>1, <1>2 DEF Follows
<1> QED
  BY <1>1, <1>3

LEMMA FollowsSame ==
  ASSUME NEW f, NEW j, NEW k, Follows(f, j), k.records = j.records, k.input = j.input
  PROVE  Follows(f, k)
BY DEF Follows

\* A run that has ended wants what its journal holds and then its end.
LEMMA EndedWantsItsEnd ==
  ASSUME NEW f, NEW j, Follows(f, j), Ends(f, j), j.terminal # <<>>,
         NEW p \in Nat, 2 * p =< Len(j.records)
  PROVE  \/ f[p].want.op = "activity" /\ 2 * p + 2 =< Len(j.records)
         \/ f[p].want.op = "conclude" /\ j.terminal = <<f[p].want.status>>
<1>1. PICK q \in Nat : /\ Len(j.records) = 2 * q /\ f[q].want.op = "conclude"
                       /\ j.terminal = <<f[q].want.status>>
  BY DEF Ends
<1>2. CASE p = q
  BY <1>1, <1>2
<1>3. CASE p # q
  <2>1. 2 * p + 1 =< Len(j.records) /\ 2 * p + 2 =< Len(j.records)
    BY <1>1, <1>3
  <2> QED
    BY <2>1 DEF Follows, RunIntends
<1> QED
  BY <1>2, <1>3

\* One run and its drive move: the others stand as they stood.
LEMMA RunsMoved ==
  ASSUME RunsStand, NEW name \in DOMAIN runs'.held,
         stage' = "boot" => nested' = Nothing,
         runs' = [held |-> runs'.held, armed |-> runs'.armed],
         \A other \in DOMAIN runs'.held : other # name =>
           other \in DOMAIN runs.held /\ runs'.held[other] = runs.held[other],
         RunStands(runs'.held[name], name, Driven'),
         Driven' # Nothing => NestedShape(Driven') /\ Driven'.run = name
  PROVE  RunsStand'
<1>1. ASSUME NEW other \in DOMAIN runs'.held
      PROVE  RunStands(runs'.held[other], other, Driven')
  <2>1. CASE other = name
    BY <2>1
  <2>2. CASE other # name
    <3>1. RunStands(runs.held[other], other, Driven) /\ runs'.held[other] = runs.held[other]
      BY <2>2 DEF RunsStand
    <3>2. Driven' # Nothing => Driven'.run # other
      BY <2>2
    <3> QED
      BY <3>1, <3>2 DEF RunStands
  <2> QED
    BY <2>1, <2>2
<1> QED
  BY <1>1 DEF RunsStand

\* The drive of a run is left: every run stands.
LEMMA RunsLeft ==
  ASSUME RunsStand, UNCHANGED runs, Driven' = Nothing, stage' = "boot" => nested' = Nothing
  PROVE  RunsStand'
<1>1. ASSUME NEW name \in DOMAIN runs.held
      PROVE  RunStands(runs.held[name], name, Driven')
  BY <1>1 DEF RunsStand, RunStands
<1> QED
  BY <1>1 DEF RunsStand

LEMMA RunsUnmoved ==
  ASSUME RunsStand, UNCHANGED runs, Driven' = Driven, stage' = "boot" => nested' = Nothing
  PROVE  RunsStand'
<1>1. ASSUME NEW name \in DOMAIN runs.held
      PROVE  RunStands(runs.held[name], name, Driven')
  BY <1>1 DEF RunsStand
<1> QED
  BY <1>1 DEF RunsStand

\* Where the drive of a run stands.
Standing(f, p) ==
  /\ nested.run \in DOMAIN runs.held /\ NestedShape(nested) /\ RunShape(Held)
  /\ Follows(f, Held) /\ Ends(f, Held) /\ NestedAt(f, p, nested, Held)

LEMMA DriveStands ==
  ASSUME RunsStand, Drives
  PROVE  \E f : \E p \in Nat : Standing(f, p)
<1>0. Driven = nested /\ nested # Nothing
  BY DEF Drives, Idles, Driven
<1>1. nested.run \in DOMAIN runs.held /\ NestedShape(nested)
  BY <1>0 DEF RunsStand
<1>2. RunStands(Held, nested.run, nested)
  BY <1>0, <1>1 DEF RunsStand, Held
<1>3. PICK f : Follows(f, Held) /\ Ends(f, Held) /\ \E p \in Nat : NestedAt(f, p, nested, Held)
  BY <1>0, <1>2 DEF RunStands
<1>4. PICK p \in Nat : NestedAt(f, p, nested, Held)
  BY <1>3
<1> QED
  BY <1>1, <1>2, <1>3, <1>4 DEF Standing, RunStands

\* The run that is driven keeps a journal of its workflow.
LEMMA RunKept ==
  ASSUME RunsStand, Drives, NEW run, Keeps(run), RunShape(run),
         NEW f, Follows(f, run), Ends(f, run), stage' = "boot" => nested' = Nothing,
         \/ Driven' = Nothing
         \/ /\ Driven' = nested' /\ NestedShape(nested') /\ nested'.run = nested.run
            /\ \E p \in Nat : NestedAt(f, p, nested', run)
  PROVE  RunsStand'
<1>1. nested.run \in DOMAIN runs.held /\ runs = [held |-> runs.held, armed |-> runs.armed]
  BY DEF RunsStand, Drives, Idles, Driven
<1>2. /\ runs' = [held |-> runs'.held, armed |-> runs'.armed]
      /\ runs'.held = [runs.held EXCEPT ![nested.run] = run]
  BY <1>1 DEF Keeps
<1>3. /\ nested.run \in DOMAIN runs'.held /\ runs'.held[nested.run] = run
      /\ \A other \in DOMAIN runs'.held : other # nested.run =>
           other \in DOMAIN runs.held /\ runs'.held[other] = runs.held[other]
  BY <1>1, <1>2
<1>4. RunStands(run, nested.run, Driven')
  BY DEF RunStands
<1> QED
  BY <1>2, <1>3, <1>4, RunsMoved

\* The drive of a run moves on in its journal.
LEMMA DriveMoved ==
  ASSUME RunsStand, Drives, UNCHANGED runs, stage' = "up",
         NEW f, Follows(f, Held), Ends(f, Held),
         NestedShape(nested'), nested'.run = nested.run,
         NEW p \in Nat, NestedAt(f, p, nested', Held)
  PROVE  RunsStand'
<1>1. nested.run \in DOMAIN runs.held /\ runs = [held |-> runs.held, armed |-> runs.armed]
  BY DEF RunsStand, Drives, Idles, Driven
<1>2. RunShape(Held)
  BY <1>1 DEF RunsStand, RunStands, Held
<1>3. RunStands(Held, nested.run, nested') /\ Driven' = nested'
  BY <1>2 DEF RunStands, Driven
<1>4. RunStands(runs'.held[nested.run], nested.run, Driven')
  BY <1>3 DEF Held
<1> QED
  BY <1>1, <1>3, <1>4, RunsMoved

----------------------------------------------------------------------------
(* The steps of the supervisor.                                            *)

\* Where a boot that is up stands.
BootAt(g, p) ==
  /\ HistoryShape(history) /\ CursorShape(cursor)
  /\ Goes(g, history) /\ CursorAt(g, p, cursor, history)

LEMMA BootStands ==
  ASSUME SupervisorStands, stage = "up"
  PROVE  \E g : \E p \in Nat : BootAt(g, p)
<1>1. PICK g : Goes(g, history) /\ \E p \in Nat : CursorAt(g, p, cursor, history)
  BY DEF SupervisorStands
<1>2. PICK p \in Nat : CursorAt(g, p, cursor, history)
  BY <1>1
<1> QED
  BY <1>1, <1>2 DEF BootAt, SupervisorStands

\* A new cursor, and one that came somewhere.
LEMMA CursorPlaced ==
  ASSUME NEW at \in Nat, NEW work, Stands(at, work)
  PROVE  /\ CursorShape(cursor') /\ ~cursor'.handed
         /\ cursor'.at = at /\ cursor'.work = work
BY DEF Stands, NewCursor, CursorShape

LEMMA CursorReset ==
  ASSUME Down
  PROVE  CursorShape(cursor') /\ stage' = "boot" /\ nested' = Nothing
BY DEF Down, NewCursor, CursorShape

\* A boot ends, and its journal stands.
LEMMA SupervisorDown ==
  ASSUME Down, HistoryShape(history'), NEW g, Goes(g, history')
  PROVE  SupervisorStands'
BY CursorReset DEF SupervisorStands

\* A boot stands at a place of its journal.
LEMMA SupervisorUp ==
  ASSUME stage' \in {"up", "driven"}, HistoryShape(history'), CursorShape(cursor'),
         NEW g, Goes(g, history'), NEW p \in Nat, CursorAt(g, p, cursor', history')
  PROVE  SupervisorStands'
BY DEF SupervisorStands

\* A boot that is not driven any more, or has an answer now.
LEMMA SupervisorStays ==
  ASSUME SupervisorStands, UNCHANGED history, stage' \in {stage, "driven"},
         \/ UNCHANGED cursor
         \/ \E a : cursor' = [cursor EXCEPT !.answer = a] /\ cursor.handed
  PROVE  SupervisorStands'
<1>1. CursorShape(cursor') /\ cursor'.at = cursor.at /\ cursor'.work = cursor.work
        /\ cursor'.handed = cursor.handed
  <2>1. CASE UNCHANGED cursor
    BY <2>1 DEF SupervisorStands, CursorShape
  <2>2. CASE \E a : cursor' = [cursor EXCEPT !.answer = a] /\ cursor.handed
    BY <2>2 DEF SupervisorStands, CursorShape
  <2> QED
    BY <2>1, <2>2
<1>2. PICK g : /\ Goes(g, history)
               /\ stage = "up" => \E p \in Nat : CursorAt(g, p, cursor, history)
  BY DEF SupervisorStands
<1>3. ASSUME NEW p \in Nat, CursorAt(g, p, cursor, history)
      PROVE  CursorAt(g, p, cursor', history)
  BY <1>1, <1>3 DEF CursorAt
<1>4. stage' = "up" => stage = "up"
  BY DEF SupervisorStands
<1>5. stage' \in {"boot", "up", "driven"}
  BY DEF SupervisorStands
<1>6. HistoryShape(history') /\ Goes(g, history')
  BY <1>2 DEF SupervisorStands
<1>7. stage' = "up" => \E p \in Nat : CursorAt(g, p, cursor', history')
  BY <1>2, <1>3, <1>4
<1> QED
  BY <1>1, <1>5, <1>6, <1>7 DEF SupervisorStands

\* An answer on record takes the supervisor on.
LEMMA ReplayAnswerStands ==
  ASSUME SupervisorStands, ReplayAnswer
  PROVE  SupervisorStands' /\ outcome' = outcome
<1>1. stage = "up" /\ cursor.work.want.op = "activity" /\ ~cursor.handed
  BY DEF ReplayAnswer, Asks, Want
<1>2. PICK g, p : p \in Nat /\ BootAt(g, p)
  BY <1>1, BootStands
<1>3. /\ cursor.at = 2 * p /\ cursor.work = g[p] /\ 2 * p + 2 =< Len(history.records)
      /\ cursor.at + 2 = 2 * (p + 1) /\ cursor.at + 2 \in Nat /\ p + 1 \in Nat
  <2>1. Len(history.records) \in Nat
    BY <1>2, LengthOf DEF BootAt, HistoryShape
  <2> QED
    BY <1>1, <1>2, <2>1 DEF BootAt, CursorAt, ReplayAnswer
<1> DEFINE answer == history.records[cursor.at + 2]
<1>4. answer = history.records[2 * p + 2]
  BY <1>3
<1>5. answer.is = "Resolved" /\ g[p + 1] = Supervised(cursor.work, answer.answer)
  <2>1. GoesOn(g[p], answer, g[p + 1])
    BY <1>2, <1>3, <1>4 DEF BootAt, Goes
  <2> QED
    BY <1>1, <1>3, <2>1 DEF GoesOn
<1>6. /\ Stands(cursor.at + 2, g[p + 1]) /\ UNCHANGED <<stage, outcome>>
      /\ UNCHANGED history
  BY <1>5 DEF ReplayAnswer
<1>7. /\ CursorShape(cursor') /\ ~cursor'.handed
      /\ cursor'.at = cursor.at + 2 /\ cursor'.work = g[p + 1]
  BY <1>3, <1>6, CursorPlaced
<1>8. CursorAt(g, p + 1, cursor', history')
  <2>1. Len(history.records) \in Nat
    BY <1>2, LengthOf DEF BootAt, HistoryShape
  <2> QED
    BY <1>3, <1>6, <1>7, <2>1 DEF CursorAt
<1>9. Goes(g, history') /\ HistoryShape(history') /\ stage' \in {"up", "driven"}
  BY <1>1, <1>2, <1>6 DEF BootAt
<1> QED
  BY <1>3, <1>6, <1>7, <1>8, <1>9, SupervisorUp

\* What is on record is what the supervisor asks for again.
LEMMA NeverDivergesFromHistory ==
  ASSUME SupervisorStands
  PROVE  ~DivergeFromHistory
<1> SUFFICES ASSUME DivergeFromHistory PROVE FALSE
  OBVIOUS
<1>1. stage = "up" /\ cursor.work.want.op = "activity" /\ ~cursor.handed
  BY DEF DivergeFromHistory, Asks, Want
<1>2. PICK g, p : p \in Nat /\ BootAt(g, p)
  BY <1>1, BootStands
<1>3. cursor.at = 2 * p /\ cursor.work = g[p] /\ 2 * p + 1 =< Len(history.records)
  <2>1. Len(history.records) \in Nat
    BY <1>2, LengthOf DEF BootAt, HistoryShape
  <2> QED
    BY <1>1, <1>2, <2>1 DEF BootAt, CursorAt, DivergeFromHistory
<1>4. Intends(g[p], history.records[2 * p + 1])
  BY <1>2, <1>3 DEF BootAt, Goes
<1>5. history.records[2 * p + 1] = Scheduled(cursor.work.want.request)
  BY <1>1, <1>3, <1>4 DEF Intends
<1> QED
  BY <1>3, <1>5 DEF DivergeFromHistory, Matches, Want

\* A cursor whose request is handed on.
LEMMA CursorHanded ==
  ASSUME CursorShape(cursor), cursor' = [cursor EXCEPT !.at = @ + 1, !.handed = TRUE]
  PROVE  /\ CursorShape(cursor') /\ cursor'.handed /\ cursor'.at = cursor.at + 1
         /\ cursor'.work = cursor.work
<1>1. cursor' = [at |-> cursor.at + 1, work |-> cursor.work, handed |-> TRUE,
                 answer |-> cursor.answer, armed |-> cursor.armed]
  BY DEF CursorShape
<1>2. cursor.at + 1 \in Nat
  BY DEF CursorShape
<1> QED
  BY <1>1, <1>2 DEF CursorShape

LEMMA HandOnAgainStands ==
  ASSUME SupervisorStands, HandOnAgain
  PROVE  SupervisorStands'
<1>1. stage = "up" /\ cursor.work.want.op = "activity" /\ ~cursor.handed
  BY DEF HandOnAgain, Asks, Want
<1>2. PICK g, p : p \in Nat /\ BootAt(g, p)
  BY <1>1, BootStands
<1>3. cursor.at = 2 * p /\ cursor.work = g[p]
  BY <1>1, <1>2 DEF BootAt, CursorAt
<1>4. /\ cursor' = [cursor EXCEPT !.at = @ + 1, !.handed = TRUE]
      /\ UNCHANGED <<stage, history>> /\ cursor.at + 1 = Len(history.records)
  BY DEF HandOnAgain
<1>5. /\ CursorShape(cursor') /\ cursor'.handed /\ cursor'.at = cursor.at + 1
      /\ cursor'.work = cursor.work
  BY <1>2, <1>4, CursorHanded DEF BootAt
<1>6. CursorAt(g, p, cursor', history')
  BY <1>1, <1>3, <1>4, <1>5 DEF CursorAt
<1>7. Goes(g, history') /\ HistoryShape(history') /\ stage' \in {"up", "driven"}
  BY <1>1, <1>2, <1>4 DEF BootAt
<1> QED
  BY <1>2, <1>5, <1>6, <1>7, SupervisorUp

\* A request goes on record before it is handed on.
LEMMA HandOnStands ==
  ASSUME SupervisorStands, HandOn
  PROVE  SupervisorStands'
<1>1. stage = "up" /\ cursor.work.want.op = "activity" /\ ~cursor.handed
  BY DEF HandOn, Asks, Want
<1>2. PICK g, p : p \in Nat /\ BootAt(g, p)
  BY <1>1, BootStands
<1>3. cursor.at = 2 * p /\ cursor.work = g[p] /\ Len(history.records) = 2 * p
  BY <1>1, <1>2 DEF BootAt, CursorAt, HandOn
<1>4. /\ history'.input = history.input
      /\ history'.records = Append(history.records, Scheduled(g[p].want.request))
      /\ history' = [input |-> history'.input, records |-> history'.records,
                     continued |-> history'.continued, commits |-> history'.commits]
  BY <1>2, <1>3 DEF HandOn, BootAt, HistoryShape, Want
<1>5. Intends(g[p], Scheduled(g[p].want.request))
  BY <1>1, <1>3 DEF Intends
<1>6. /\ Goes(g, history') /\ IsSeq(history'.records)
      /\ Len(history'.records) = 2 * p + 1
  BY <1>2, <1>3, <1>4, <1>5, GoesIntended DEF BootAt, HistoryShape
<1>7. HistoryShape(history')
  BY <1>4, <1>6 DEF HistoryShape
<1>8. CASE Struck("AfterSchedule")
  <2>1. Down
    BY <1>8 DEF HandOn
  <2> QED
    BY <1>6, <1>7, <2>1, SupervisorDown
<1>9. CASE ~Struck("AfterSchedule")
  <2>1. cursor' = [cursor EXCEPT !.at = @ + 1, !.handed = TRUE] /\ UNCHANGED stage
    BY <1>9 DEF HandOn
  <2>2. /\ CursorShape(cursor') /\ cursor'.handed /\ cursor'.at = cursor.at + 1
        /\ cursor'.work = cursor.work
    BY <1>2, <2>1, CursorHanded DEF BootAt
  <2>3. CursorAt(g, p, cursor', history')
    BY <1>1, <1>3, <1>6, <2>2 DEF CursorAt
  <2>4. stage' \in {"up", "driven"}
    BY <1>1, <2>1
  <2> QED
    BY <1>2, <1>6, <1>7, <2>2, <2>3, <2>4, SupervisorUp
<1> QED
  BY <1>8, <1>9

\* A lost answer leaves the intent on record.
LEMMA LoseAnswerStands ==
  ASSUME SupervisorStands, LoseAnswer
  PROVE  SupervisorStands'
<1>1. PICK g : Goes(g, history)
  BY DEF SupervisorStands
<1>2. /\ history'.input = history.input /\ history'.records = history.records
      /\ HistoryShape(history') /\ Down
  BY DEF LoseAnswer, SupervisorStands, HistoryShape
<1>3. Goes(g, history')
  BY <1>1, <1>2, GoesSame
<1> QED
  BY <1>2, <1>3, SupervisorDown

\* An answer goes on record before the supervisor reads it.
LEMMA RecordAnswerStands ==
  ASSUME SupervisorStands, RecordAnswer
  PROVE  SupervisorStands'
<1>1. stage = "up" /\ cursor.answer # Nothing
  BY DEF RecordAnswer, Answers
<1>2. PICK g, p : p \in Nat /\ BootAt(g, p)
  BY <1>1, BootStands
<1>3. /\ cursor.at = 2 * p + 1 /\ cursor.work = g[p] /\ Len(history.records) = 2 * p + 1
      /\ g[p].want.op = "activity"
      /\ cursor.at + 1 = 2 * (p + 1) /\ cursor.at + 1 \in Nat /\ p + 1 \in Nat
      /\ cursor.at + 1 = 2 * p + 2
  <2>1. cursor.handed
    BY <1>1, <1>2 DEF BootAt, CursorShape
  <2>2. /\ cursor.at = 2 * p + 1 /\ cursor.work = g[p] /\ Len(history.records) = cursor.at
        /\ g[p].want.op = "activity"
    BY <1>2, <2>1 DEF BootAt, CursorAt
  <2> QED
    BY <1>2, <2>2
<1> DEFINE after == Supervised(g[p], cursor.answer)
           record == Resolved(cursor.answer)
<1>4. /\ history'.input = history.input
      /\ history'.records = Append(history.records, record)
      /\ history' = [input |-> history'.input, records |-> history'.records,
                     continued |-> history'.continued, commits |-> history'.commits]
  BY <1>2 DEF RecordAnswer, BootAt, HistoryShape
<1>5. GoesOn(g[p], record, after)
  BY <1>3 DEF GoesOn, Resolved
<1> HIDE DEF after, record
<1>6. GoesTo(history', p, after)
  <2>1. Goes(g, history) /\ IsSeq(history.records) /\ p \in Nat
          /\ Len(history.records) = 2 * p + 1
    BY <1>2, <1>3 DEF BootAt, HistoryShape
  <2>2. /\ history'.input = history.input
        /\ history'.records = Append(history.records, record)
    BY <1>4
  <2> QED
    BY ONLY <2>1, <2>2, <1>5, GoesTaken
<1>7. PICK f : Goes(f, history') /\ f[p + 1] = after
  BY <1>6 DEF GoesTo
<1>8. HistoryShape(history') /\ Len(history'.records) = 2 * p + 2
  BY <1>4, <1>6 DEF HistoryShape, GoesTo
<1>9. CASE Struck("AfterResolve")
  <2>1. Down
    BY <1>9 DEF RecordAnswer
  <2> QED
    BY <1>7, <1>8, <2>1, SupervisorDown
<1>10. CASE ~Struck("AfterResolve")
  <2>1. Stands(cursor.at + 1, after) /\ UNCHANGED stage
    BY <1>3, <1>10 DEF RecordAnswer, after
  <2>2. /\ CursorShape(cursor') /\ ~cursor'.handed
        /\ cursor'.at = cursor.at + 1 /\ cursor'.work = after
    BY <1>3, <2>1, CursorPlaced
  <2>3. CursorAt(f, p + 1, cursor', history')
    BY <1>3, <1>7, <1>8, <2>2 DEF CursorAt
  <2>4. stage' \in {"up", "driven"}
    BY <1>1, <2>1
  <2> QED
    BY <1>3, <1>7, <1>8, <2>2, <2>3, <2>4, SupervisorUp
<1> QED
  BY <1>9, <1>10

\* The next run of the supervisor has a journal of its own.
LEMMA ContinueAsNewStands ==
  ASSUME SupervisorStands, ContinueAsNew
  PROVE  SupervisorStands'
<1>1. /\ history'.records = <<>> /\ Down
      /\ history' = [input |-> history'.input, records |-> history'.records,
                     continued |-> history'.continued, commits |-> history'.commits]
  BY DEF ContinueAsNew, SupervisorStands, HistoryShape
<1>2. HistoryShape(history')
  BY <1>1, NoneIsSeq DEF HistoryShape
<1>3. PICK g : Goes(g, history')
  BY <1>1, GoesNowhere
<1> QED
  BY <1>1, <1>2, <1>3, SupervisorDown

----------------------------------------------------------------------------
(* The deadlines of the supervisor.                                        *)

\* A wait on record is a wait asked for again, and the deadline that passed is
\* the one that takes the supervisor on.
LEMMA ReplayDeadlineStands ==
  ASSUME SupervisorStands, ReplayDeadline
  PROVE  SupervisorStands' /\ outcome' = outcome
<1>1. stage = "up" /\ cursor.work.want.op = "wait"
  BY DEF ReplayDeadline, Waits, Want
<1>2. PICK g, p : p \in Nat /\ BootAt(g, p)
  BY <1>1, BootStands
<1>3. ~cursor.handed
  BY <1>1, <1>2 DEF BootAt, CursorAt
<1>4. Len(history.records) \in Nat
  BY <1>2, LengthOf DEF BootAt, HistoryShape
<1>5. cursor.at = 2 * p /\ cursor.work = g[p] /\ 2 * p + 1 =< Len(history.records)
  BY <1>2, <1>3, <1>4 DEF BootAt, CursorAt, ReplayDeadline
<1>6. history.records[cursor.at + 1] = TimerArmed(Want.deadline)
  <2>1. Intends(g[p], history.records[2 * p + 1])
    BY <1>2, <1>5 DEF BootAt, Goes
  <2> QED
    BY <1>1, <1>5, <2>1 DEF Intends, Want
<1>7. cursor.at + 1 # Len(history.records)
  BY <1>4, <1>5, <1>6 DEF ReplayDeadline, Waiting
<1>8. /\ 2 * p + 2 =< Len(history.records) /\ cursor.at + 1 < Len(history.records)
      /\ cursor.at + 2 = 2 * p + 2 /\ cursor.at + 2 = 2 * (p + 1)
      /\ cursor.at + 2 \in Nat /\ p + 1 \in Nat
  BY <1>2, <1>4, <1>5, <1>7
<1>9. history.records[cursor.at + 2] = TimerFired /\ g[p + 1] = Supervised(cursor.work, TimerFired)
  <2>1. GoesOn(g[p], history.records[2 * p + 2], g[p + 1])
    BY <1>2, <1>8 DEF BootAt, Goes
  <2> QED
    BY <1>1, <1>5, <1>8, <2>1 DEF GoesOn
<1>10. Stands(cursor.at + 2, g[p + 1]) /\ UNCHANGED <<stage, outcome, history>>
  BY <1>6, <1>8, <1>9 DEF ReplayDeadline
<1>11. /\ CursorShape(cursor') /\ ~cursor'.handed
       /\ cursor'.at = cursor.at + 2 /\ cursor'.work = g[p + 1]
  BY <1>8, <1>10, CursorPlaced
<1>12. CursorAt(g, p + 1, cursor', history')
  BY <1>8, <1>10, <1>11 DEF CursorAt
<1>13. Goes(g, history') /\ HistoryShape(history') /\ stage' \in {"up", "driven"}
  BY <1>1, <1>2, <1>10 DEF BootAt
<1> QED
  BY <1>8, <1>10, <1>11, <1>12, <1>13, SupervisorUp

\* The deadline waited for is on record, from now on or from before.
LEMMA DeadlineArmed ==
  ASSUME SupervisorStands, Waiting
  PROVE  \E g : \E p \in Nat :
           /\ Goes(g, history) /\ cursor.work = g[p] /\ ~cursor.handed /\ cursor.at = 2 * p
           /\ HistoryShape(ArmDeadline) /\ Goes(g, ArmDeadline)
           /\ Len(ArmDeadline.records) = 2 * p + 1
<1>1. stage = "up" /\ cursor.work.want.op = "wait"
  BY DEF Waiting, Waits, Want
<1>2. PICK g, p : p \in Nat /\ BootAt(g, p)
  BY <1>1, BootStands
<1>3. ~cursor.handed
  BY <1>1, <1>2 DEF BootAt, CursorAt
<1>4. Len(history.records) \in Nat
  BY <1>2, LengthOf DEF BootAt, HistoryShape
<1>5. cursor.at = 2 * p /\ cursor.work = g[p] /\ 2 * p =< Len(history.records)
  BY <1>2, <1>3 DEF BootAt, CursorAt
<1>6. CASE cursor.at < Len(history.records)
  <2>1. ArmDeadline = history /\ Len(history.records) = 2 * p + 1
    BY <1>4, <1>5, <1>6 DEF ArmDeadline, Waiting
  <2> QED
    BY <1>2, <1>3, <1>5, <2>1 DEF BootAt
<1>7. CASE ~(cursor.at < Len(history.records))
  <2>1. Len(history.records) = 2 * p
    BY <1>2, <1>4, <1>5, <1>7
  <2> DEFINE armed == ArmDeadline
             record == TimerArmed(g[p].want.deadline)
  <2>2. /\ armed.input = history.input
        /\ armed.records = Append(history.records, record)
        /\ armed = [input |-> armed.input, records |-> armed.records,
                    continued |-> armed.continued, commits |-> armed.commits]
    BY <1>2, <1>5, <1>7 DEF ArmDeadline, BootAt, HistoryShape, Want
  <2>3. Intends(g[p], record)
    BY <1>1, <1>5 DEF Intends
  <2>4. Goes(g, history) /\ IsSeq(history.records)
    BY <1>2 DEF BootAt, HistoryShape
  <2> HIDE DEF armed, record
  <2>5. Goes(g, armed) /\ IsSeq(armed.records) /\ Len(armed.records) = 2 * p + 1
    BY <1>2, <2>1, <2>2, <2>3, <2>4, GoesIntended
  <2>6. HistoryShape(armed)
    BY <2>2, <2>5 DEF HistoryShape
  <2> QED
    BY <1>2, <1>3, <1>5, <2>4, <2>5, <2>6 DEF armed
<1> QED
  BY <1>6, <1>7

LEMMA LoseDeadlineStands ==
  ASSUME SupervisorStands, LoseDeadline
  PROVE  SupervisorStands'
<1>1. Waiting /\ history' = ArmDeadline /\ Down
  BY DEF LoseDeadline
<1>2. PICK g : Goes(g, ArmDeadline) /\ HistoryShape(ArmDeadline)
  BY <1>1, DeadlineArmed
<1> QED
  BY <1>1, <1>2, SupervisorDown

\* A deadline that passes goes on record, and the supervisor goes on from it.
LEMMA WaitStands ==
  ASSUME SupervisorStands, Wait
  PROVE  SupervisorStands'
<1>1. Waiting /\ stage = "up" /\ cursor.work.want.op = "wait"
  BY DEF Wait, Waiting, Waits, Want
<1>2. PICK g, p :
        /\ p \in Nat
        /\ Goes(g, history) /\ cursor.work = g[p] /\ ~cursor.handed /\ cursor.at = 2 * p
        /\ HistoryShape(ArmDeadline) /\ Goes(g, ArmDeadline)
        /\ Len(ArmDeadline.records) = 2 * p + 1
  BY <1>1, DeadlineArmed
<1>3. CASE TimeLeft = 0
  <2> DEFINE armed == ArmDeadline
             after == Supervised(g[p], TimerFired)
             record == TimerFired
  <2>1. /\ history' = [armed EXCEPT !.records = Append(@, record)]
        /\ Stands(cursor.at + 2, after) /\ UNCHANGED stage
    BY <1>2, <1>3 DEF Wait
  <2>2. GoesOn(g[p], record, after)
    BY <1>1, <1>2 DEF GoesOn
  <2>3. /\ HistoryShape(armed) /\ Goes(g, armed) /\ IsSeq(armed.records)
        /\ Len(armed.records) = 2 * p + 1
    BY <1>2 DEF HistoryShape
  <2> HIDE DEF armed, after, record
  <2>4. /\ history'.input = armed.input
        /\ history'.records = Append(armed.records, record)
        /\ history' = [input |-> history'.input, records |-> history'.records,
                       continued |-> history'.continued, commits |-> history'.commits]
    BY <2>1, <2>3 DEF HistoryShape
  <2>5. GoesTo(history', p, after)
    <3>1. p \in Nat
      BY <1>2
    <3>2. /\ history'.input = armed.input
          /\ history'.records = Append(armed.records, record)
      BY <2>4
    <3> QED
      BY ONLY <3>1, <3>2, <2>2, <2>3, GoesTaken
  <2>6. PICK f : Goes(f, history') /\ f[p + 1] = after
    BY <2>5 DEF GoesTo
  <2>7. HistoryShape(history') /\ Len(history'.records) = 2 * p + 2
    BY <2>4, <2>5 DEF HistoryShape, GoesTo
  <2>8. /\ cursor.at + 2 = 2 * p + 2 /\ cursor.at + 2 = 2 * (p + 1)
        /\ cursor.at + 2 \in Nat /\ p + 1 \in Nat
    BY <1>2
  <2>9. /\ CursorShape(cursor') /\ ~cursor'.handed
        /\ cursor'.at = cursor.at + 2 /\ cursor'.work = after
    BY <2>1, <2>8, CursorPlaced
  <2>10. CursorAt(f, p + 1, cursor', history')
    BY <2>6, <2>7, <2>8, <2>9 DEF CursorAt
  <2>11. stage' \in {"up", "driven"}
    BY <1>1, <2>1
  <2> QED
    BY <2>6, <2>7, <2>8, <2>9, <2>10, <2>11, SupervisorUp
<1>4. CASE TimeLeft # 0
  <2>1. /\ history' = ArmDeadline /\ cursor' = [cursor EXCEPT !.armed = ArmedAt]
        /\ stage' \in {"up", "driven"}
    BY <1>1, <1>4 DEF Wait, Returns
  <2>2. cursor' = [at |-> cursor.at, work |-> cursor.work, handed |-> cursor.handed,
                   answer |-> cursor.answer, armed |-> ArmedAt]
    BY <2>1 DEF SupervisorStands, CursorShape
  <2>3. CursorShape(cursor')
    BY <2>2 DEF SupervisorStands, CursorShape
  <2>4. CursorAt(g, p, cursor', history')
    BY <1>2, <2>1, <2>2 DEF CursorAt
  <2> QED
    BY <1>2, <2>1, <2>3, <2>4, SupervisorUp
<1> QED
  BY <1>3, <1>4

LEMMA BootBegins ==
  ASSUME SupervisorStands, Boot
  PROVE  SupervisorStands'
<1>1. CASE tries = MAX_TRIES
  BY <1>1, SupervisorStays DEF Boot, Returns
<1>2. CASE tries # MAX_TRIES
  <2>1. /\ stage' = "up" /\ UNCHANGED history
        /\ Stands(0, Supervise(history.input))
    BY <1>2 DEF Boot
  <2>2. PICK g : Goes(g, history)
    BY DEF SupervisorStands
  <2>3. /\ CursorShape(cursor') /\ ~cursor'.handed
        /\ cursor'.at = 0 /\ cursor'.work = Supervise(history.input)
    BY <2>1, CursorPlaced
  <2>4. Len(history.records) \in Nat
    BY LengthOf DEF SupervisorStands, HistoryShape
  <2>5. CursorAt(g, 0, cursor', history')
    BY <2>1, <2>2, <2>3, <2>4 DEF CursorAt, Goes
  <2>6. Goes(g, history') /\ HistoryShape(history')
    BY <2>1, <2>2 DEF SupervisorStands
  <2> QED
    BY <2>1, <2>3, <2>5, <2>6, SupervisorUp
<1> QED
  BY <1>1, <1>2

LEMMA FailsStands ==
  ASSUME SupervisorStands, Fails
  PROVE  SupervisorStands'
BY SupervisorStays DEF Fails, Returns, supervisor

\* Every step of a boot leaves the supervisor where its journal has it.
LEMMA SupervisingStands ==
  ASSUME SupervisorStands, Supervising
  PROVE  SupervisorStands'
<1>1. ASSUME Boot PROVE SupervisorStands'
  BY <1>1, BootBegins
<1>2. ASSUME Fails PROVE SupervisorStands'
  BY <1>2, FailsStands
<1>3. ASSUME ReplayAnswer PROVE SupervisorStands'
  BY <1>3, ReplayAnswerStands
<1>4. ASSUME HandOnAgain PROVE SupervisorStands'
  BY <1>4, HandOnAgainStands
<1>5. ASSUME DivergeFromHistory PROVE SupervisorStands'
  BY <1>5, NeverDivergesFromHistory
<1>6. ASSUME HandOn PROVE SupervisorStands'
  BY <1>6, HandOnStands
<1>7. ASSUME LoseAnswer PROVE SupervisorStands'
  BY <1>7, LoseAnswerStands
<1>8. ASSUME RecordAnswer PROVE SupervisorStands'
  BY <1>8, RecordAnswerStands
<1>9. ASSUME ContinueAsNew PROVE SupervisorStands'
  BY <1>9, ContinueAsNewStands
<1>10. ASSUME ReplayDeadline PROVE SupervisorStands'
  BY <1>10, ReplayDeadlineStands
<1>11. ASSUME LoseDeadline PROVE SupervisorStands'
  BY <1>11, LoseDeadlineStands
<1>12. ASSUME Wait PROVE SupervisorStands'
  BY <1>12, WaitStands
<1> QED
  BY <1>1, <1>2, <1>3, <1>4, <1>5, <1>6, <1>7, <1>8, <1>9, <1>10, <1>11, <1>12
  DEF Supervising

\* No step of a boot touches a run; the one that is driven may be left.
LEMMA SupervisingLeavesRuns ==
  ASSUME Supervising, RunsStand
  PROVE  RunsStand'
<1>1. UNCHANGED runs
  BY DEF Supervising, Boot, Fails, ReplayAnswer, HandOnAgain, DivergeFromHistory, HandOn,
         LoseAnswer, RecordAnswer, ContinueAsNew, ReplayDeadline, LoseDeadline, Wait,
         device
<1>2. CASE Boot
  <2>1. nested' = Nothing /\ stage' # "boot"
    BY <1>2 DEF Boot, RunsStand, device, Returns
  <2> QED
    BY <1>1, <2>1, RunsLeft DEF Driven
<1>3. CASE Down
  BY <1>1, <1>3, RunsLeft DEF Down, Driven
<1>4. CASE ~Boot /\ ~Down
  <2>1. UNCHANGED nested /\ stage = "up" /\ stage' \in {"up", "driven"}
    BY <1>4 DEF Supervising, Fails, ReplayAnswer, HandOnAgain, DivergeFromHistory, HandOn,
         LoseAnswer, RecordAnswer, ContinueAsNew, ReplayDeadline, LoseDeadline, Wait,
         device, Returns, Asks, Answers, Waiting, Waits
  <2>2. Driven' = Driven \/ Driven' = Nothing
    BY <2>1 DEF Driven
  <2> QED
    BY <1>1, <2>1, <2>2, RunsLeft, RunsUnmoved
<1> QED
  BY <1>2, <1>3, <1>4

----------------------------------------------------------------------------
(* The steps of the runs.                                                  *)

\* Serving an activity leaves the supervisor where it stands, or its boot ends.
LEMMA ServingStands ==
  ASSUME SupervisorStands, Serving
  PROVE  SupervisorStands'
<1>1. UNCHANGED history
  BY DEF Serving, Sense, Store, Load, SelectRun, ReplayInRun, RedeliverInRun, DivergeInRun,
         ScheduleInRun, DispatchInRun, LoseInRun, ResolveInRun, FaultInRun, ContinueRun,
         ConcludeRun, supervisor
<1>2. CASE Down
  <2>1. PICK g : Goes(g, history)
    BY DEF SupervisorStands
  <2>2. HistoryShape(history') /\ Goes(g, history')
    BY <1>1, <2>1 DEF SupervisorStands
  <2> QED
    BY <1>2, <2>2, SupervisorDown
<1>3. CASE ~Down
  <2>1. stage' \in {stage, "driven"} /\ cursor.handed
    BY <1>3 DEF Serving, Sense, Store, Load, SelectRun, ReplayInRun, RedeliverInRun,
         DivergeInRun, ScheduleInRun, DispatchInRun, LoseInRun, ResolveInRun, FaultInRun,
         ContinueRun, ConcludeRun, Fires, Returns, Activity, Drives, Idles, RunAsks,
         RunAnswers
  <2>2. UNCHANGED cursor \/ \E a : Produced(a)
    BY <1>3 DEF Serving, Sense, Store, Load, SelectRun, ReplayInRun, RedeliverInRun,
         DivergeInRun, ScheduleInRun, DispatchInRun, LoseInRun, ResolveInRun, FaultInRun,
         ContinueRun, ConcludeRun, Fires, supervisor
  <2>3. UNCHANGED cursor \/ \E a : cursor' = [cursor EXCEPT !.answer = a] /\ cursor.handed
    BY <2>1, <2>2 DEF Produced
  <2> QED
    BY <1>1, <2>1, <2>3, SupervisorStays
<1> QED
  BY <1>2, <1>3

\* An activity without a run leaves the runs alone.
LEMMA PortsLeaveRuns ==
  ASSUME RunsStand, Sense \/ Store \/ Load
  PROVE  RunsStand'
<1>1. UNCHANGED runs /\ nested' = Nothing /\ stage' = "up"
  BY DEF Sense, Store, Load, Produced, Activity, Idles
<1> QED
  BY <1>1, RunsLeft DEF Driven

\* A run is driven from the start of its segment, over the journal it has.
LEMMA SelectRunStands ==
  ASSUME RunsStand, SelectRun
  PROVE  RunsStand'
<1> DEFINE name == Want.request.run
           start == Want.request.start
           entry == NewRun(start[1], runs.armed)
           held == IF name \in DOMAIN runs.held THEN runs.held
                   ELSE Put(runs.held, name, entry)
<1>1. stage = "up" /\ nested = Nothing /\ stage' = stage
  BY DEF SelectRun, Activity, Idles
<1>2. CASE name \notin DOMAIN runs.held /\ (start = <<>> \/ GoalOf(name) = 0)
  <2>1. UNCHANGED runs /\ nested' = Nothing
    BY <1>2 DEF SelectRun, Produced
  <2> QED
    BY <1>1, <2>1, RunsLeft DEF Driven
<1>3. CASE ~(name \notin DOMAIN runs.held /\ (start = <<>> \/ GoalOf(name) = 0))
  <2>1. /\ runs'.held = held /\ runs' = [held |-> runs'.held, armed |-> runs'.armed]
        /\ nested' = Started(name, held[name].input, 1)
    BY <1>3 DEF SelectRun
  <2>2. /\ name \in DOMAIN held
        /\ \A other \in DOMAIN held : other # name =>
             other \in DOMAIN runs.held /\ held[other] = runs.held[other]
    BY DEF Put
  <2>3. name \in DOMAIN runs.held => held[name] = runs.held[name]
    OBVIOUS
  <2>4. name \notin DOMAIN runs.held => held[name] = entry
    BY DEF Put
  <2> HIDE DEF held, entry
  <2>5. /\ RunShape(held[name])
        /\ \E f : Follows(f, held[name]) /\ Ends(f, held[name])
    <3>1. CASE name \in DOMAIN runs.held
      BY <2>3, <3>1 DEF RunsStand, RunStands
    <3>2. CASE name \notin DOMAIN runs.held
      <4>1. RunShape(entry) /\ entry.records = <<>> /\ entry.terminal = <<>>
        BY NoneIsSeq DEF RunShape, NewRun, entry
      <4>2. PICK f : Follows(f, entry)
        BY <4>1, FollowsNowhere
      <4> QED
        BY <2>4, <3>2, <4>1, <4>2 DEF Ends
    <3> QED
      BY <3>1, <3>2
  <2>6. PICK f : Follows(f, held[name]) /\ Ends(f, held[name])
    BY <2>5
  <2>7. /\ NestedShape(nested') /\ nested'.run = name /\ nested'.at = 0 /\ ~nested'.handed
        /\ nested'.work = Begin(held[name].input)
    BY <2>1 DEF NestedShape, Started
  <2>8. NestedAt(f, 0, nested', held[name])
    <3>1. Len(held[name].records) \in Nat
      BY <2>5, LengthOf DEF RunShape
    <3> QED
      BY <2>6, <2>7, <3>1 DEF NestedAt, Follows
  <2>9. Driven' = nested'
    BY <1>1 DEF Driven
  <2>10. RunStands(runs'.held[name], name, Driven')
    BY <2>1, <2>5, <2>6, <2>8, <2>9 DEF RunStands
  <2>11. stage' = "boot" => nested' = Nothing
    BY <1>1
  <2> HIDE DEF name
  <2> QED
    BY <2>1, <2>2, <2>7, <2>9, <2>10, <2>11, RunsMoved
<1> QED
  BY <1>2, <1>3

\* An answer on record takes the run on.
LEMMA ReplayInRunStands ==
  ASSUME RunsStand, ReplayInRun
  PROVE  RunsStand' /\ outcome' = outcome
<1>1. Drives /\ stage = "up" /\ nested # Nothing /\ ~nested.handed
        /\ nested.at + 1 < Len(Held.records) /\ UNCHANGED runs
  BY DEF ReplayInRun, RunAsks, Drives, Idles
<1>2. PICK f, p : p \in Nat /\ Standing(f, p)
  BY <1>1, DriveStands
<1>3. Len(Held.records) \in Nat
  BY <1>2, LengthOf DEF Standing, RunShape
<1>4. /\ nested.at = 2 * p /\ nested.work = f[p] /\ 2 * p + 2 =< Len(Held.records)
      /\ nested.at + 2 = 2 * p + 2 /\ nested.at + 2 = 2 * (p + 1) /\ nested.at + 2 \in Nat
      /\ p + 1 \in Nat
  BY <1>1, <1>2, <1>3 DEF Standing, NestedAt
<1>5. RunGoesOn(f[p], Held.records[nested.at + 2], f[p + 1])
  BY <1>2, <1>4 DEF Standing, Follows
<1>6. /\ nested' = RunAfter(Held.records[nested.at + 2].answer, nested.at + 2)
      /\ UNCHANGED <<stage, outcome>>
  BY <1>5 DEF ReplayInRun, RunGoesOn
<1>7. nested' = [run |-> nested.run, at |-> nested.at + 2, work |-> f[p + 1], handed |-> FALSE,
                 answer |-> Nothing, segments |-> nested.segments]
  BY <1>2, <1>4, <1>5, <1>6 DEF RunAfter, Standing, NestedShape, RunGoesOn
<1>8. NestedShape(nested') /\ nested'.run = nested.run
  BY <1>4, <1>7 DEF NestedShape
<1>9. NestedAt(f, p + 1, nested', Held)
  BY <1>4, <1>7 DEF NestedAt
<1> QED
  BY <1>1, <1>2, <1>4, <1>6, <1>8, <1>9, DriveMoved DEF Standing

LEMMA RedeliverInRunStands ==
  ASSUME RunsStand, RedeliverInRun
  PROVE  RunsStand'
<1>1. Drives /\ stage = "up" /\ nested # Nothing /\ ~nested.handed /\ RunWant.op = "activity"
        /\ nested.at + 1 = Len(Held.records) /\ UNCHANGED <<runs, stage>>
        /\ nested' = [nested EXCEPT !.at = @ + 1, !.handed = TRUE]
  BY DEF RedeliverInRun, RunAsks, Drives, Idles
<1>2. PICK f, p : p \in Nat /\ Standing(f, p)
  BY <1>1, DriveStands
<1>3. nested.at = 2 * p /\ nested.work = f[p]
  BY <1>1, <1>2 DEF Standing, NestedAt
<1>4. nested' = [run |-> nested.run, at |-> nested.at + 1, work |-> nested.work, handed |-> TRUE,
                 answer |-> nested.answer, segments |-> nested.segments]
  BY <1>1, <1>2 DEF Standing, NestedShape
<1>5. NestedShape(nested') /\ nested'.run = nested.run
  BY <1>2, <1>3, <1>4 DEF NestedShape
<1>6. NestedAt(f, p, nested', Held)
  BY <1>1, <1>3, <1>4 DEF NestedAt, RunWant
<1> QED
  BY <1>1, <1>2, <1>5, <1>6, DriveMoved DEF Standing

\* What is on record is what the run asks for again.
LEMMA NeverDivergesInRun ==
  ASSUME RunsStand
  PROVE  ~DivergeInRun
<1> SUFFICES ASSUME DivergeInRun PROVE FALSE
  OBVIOUS
<1>1. Drives /\ ~nested.handed /\ RunWant.op = "activity" /\ nested.at < Len(Held.records)
  BY DEF DivergeInRun, RunAsks
<1>2. PICK f, p : p \in Nat /\ Standing(f, p)
  BY <1>1, DriveStands
<1>3. nested.at = 2 * p /\ nested.work = f[p] /\ 2 * p + 1 =< Len(Held.records)
  <2>1. Len(Held.records) \in Nat
    BY <1>2, LengthOf DEF Standing, RunShape
  <2> QED
    BY <1>1, <1>2, <2>1 DEF Standing, NestedAt
<1>4. RunIntends(f[p], Held.records[2 * p + 1])
  BY <1>2, <1>3 DEF Standing, Follows
<1> QED
  BY <1>3, <1>4 DEF DivergeInRun, RunMatches, RunWant, RunIntends

\* A run that has ended is only read: it asks for what it has on record, and
\* ends as it did.
LEMMA EndedIsRead ==
  ASSUME Drives, NEW f, NEW p \in Nat, Standing(f, p), Held.terminal # <<>>
  PROVE  /\ ~nested.handed
         /\ RunWant.op \in {"activity", "conclude"}
         /\ RunWant.op = "activity" => nested.at + 1 < Len(Held.records)
         /\ RunWant.op = "conclude" => Held.terminal = <<RunWant.status>>
<1>1. Len(Held.records) \in Nat
  BY LengthOf DEF Standing, RunShape
<1>2. nested.work = f[p] /\ 2 * p =< Len(Held.records)
  BY <1>1 DEF Standing, NestedAt
<1>3. \/ RunWant.op = "activity" /\ 2 * p + 2 =< Len(Held.records)
      \/ RunWant.op = "conclude" /\ Held.terminal = <<RunWant.status>>
  BY <1>2, EndedWantsItsEnd DEF Standing, RunWant
<1>4. ~nested.handed
  BY <1>1, <1>2, <1>3 DEF Standing, NestedAt, RunWant
<1>5. nested.at = 2 * p
  BY <1>4 DEF Standing, NestedAt
<1> QED
  BY <1>1, <1>3, <1>4, <1>5

\* The run's journal with one thing changed.
LEMMA RunShaped ==
  ASSUME NEW run, RunShape(run), NEW records, IsSeq(records), NEW terminal, NEW crash
  PROVE  /\ RunShape([run EXCEPT !.records = records])
         /\ [run EXCEPT !.records = records].records = records
         /\ [run EXCEPT !.records = records].input = run.input
         /\ [run EXCEPT !.records = records].terminal = run.terminal
         /\ RunShape([run EXCEPT !.terminal = terminal])
         /\ [run EXCEPT !.terminal = terminal].records = run.records
         /\ [run EXCEPT !.terminal = terminal].input = run.input
         /\ [run EXCEPT !.terminal = terminal].terminal = terminal
         /\ RunShape([run EXCEPT !.crash = crash])
         /\ [run EXCEPT !.crash = crash].records = run.records
         /\ [run EXCEPT !.crash = crash].input = run.input
         /\ [run EXCEPT !.crash = crash].terminal = run.terminal
BY DEF RunShape

\* The journal of a run's next segment.
Continued(run, start, seed) ==
  [run EXCEPT !.records = <<>>, !.input = start, !.segments = Append(@, seed)]

LEMMA RunContinued ==
  ASSUME NEW run, RunShape(run), NEW start, NEW seed, NEW next,
         next = Continued(run, start, seed)
  PROVE  /\ RunShape(next) /\ next.records = <<>> /\ next.input = start
         /\ next.terminal = run.terminal
<1>1. next = [segments |-> Append(run.segments, seed), input |-> start, records |-> <<>>,
              terminal |-> run.terminal, crash |-> run.crash]
  BY DEF RunShape, Continued
<1>2. IsSeq(next.records)
  BY <1>1, NoneIsSeq
<1> QED
  BY <1>1, <1>2 DEF RunShape

\* Where an answer takes the drive of a run.
LEMMA RunTaken ==
  ASSUME NestedShape(nested), NEW answer, NEW at, NEW next, next = RunAfter(answer, at)
  PROVE  next = [run |-> nested.run, at |-> at, work |-> After(nested.work, answer),
                 handed |-> FALSE, answer |-> Nothing, segments |-> nested.segments]
BY DEF RunAfter, NestedShape

\* A crash point fires, over a journal that is a run of the workflow.
LEMMA FiresKeeps ==
  ASSUME RunsStand, Drives, NEW point, NEW run, Fires(point, run), RunShape(run),
         NEW f, Follows(f, run), Ends(f, run)
  PROVE  RunsStand'
<1> DEFINE kept == [run EXCEPT !.crash = NoCrash]
<1>1. /\ RunShape(kept) /\ kept.records = run.records /\ kept.input = run.input
      /\ kept.terminal = run.terminal
  BY RunShaped, NoneIsSeq
<1>2. Keeps(kept) /\ stage' = "boot" /\ nested' = Nothing
  BY DEF Fires, Down
<1> HIDE DEF kept
<1>3. Follows(f, kept) /\ Ends(f, kept)
  BY <1>1, FollowsSame DEF Ends
<1>4. Driven' = Nothing
  BY <1>2 DEF Driven
<1> QED
  BY <1>1, <1>2, <1>3, <1>4, RunKept

\* A run's request goes on record before it is handed on.
LEMMA ScheduleInRunStands ==
  ASSUME RunsStand, ScheduleInRun
  PROVE  RunsStand'
<1>1. Drives /\ stage = "up" /\ ~nested.handed /\ RunWant.op = "activity"
        /\ nested.at = Len(Held.records)
  BY DEF ScheduleInRun, RunAsks, Drives, Idles
<1>2. PICK f, p : p \in Nat /\ Standing(f, p)
  BY <1>1, DriveStands
<1>3. /\ nested.at = 2 * p /\ nested.work = f[p] /\ Len(Held.records) = 2 * p
      /\ RunShape(Held) /\ IsSeq(Held.records) /\ Follows(f, Held)
  BY <1>1, <1>2 DEF Standing, NestedAt, RunShape
<1>4. Held.terminal = <<>>
  BY <1>1, <1>2, <1>3, EndedIsRead
<1> DEFINE record == Scheduled(RunWant.request)
           records == Append(Held.records, record)
           run == [Held EXCEPT !.records = records]
<1>5. RunIntends(f[p], record)
  BY <1>1, <1>3 DEF RunIntends, RunWant
<1>6. IsSeq(records)
  BY <1>2, <1>3, OneMore
<1>7. run.records = Append(Held.records, record)
  BY <1>3, <1>6, RunShaped
<1>8. RunShape(run) /\ run.input = Held.input /\ run.terminal = Held.terminal
  BY <1>3, <1>6, RunShaped
<1>9. IF Held.crash = AfterSchedule(RunWant.request)
      THEN Fires(AfterSchedule(RunWant.request), run)
      ELSE /\ Keeps(run)
           /\ nested' = [nested EXCEPT !.at = @ + 1, !.handed = TRUE]
           /\ UNCHANGED <<stage, cursor>>
  BY <1>3 DEF ScheduleInRun, RunShape
<1> HIDE DEF record, records, run
<1>10. Follows(f, run) /\ Len(run.records) = 2 * p + 1
  BY <1>2, <1>3, <1>5, <1>7, <1>8, FollowsIntended
<1>11. Ends(f, run)
  BY <1>4, <1>8 DEF Ends
<1>12. CASE Held.crash = AfterSchedule(RunWant.request)
  BY <1>1, <1>8, <1>9, <1>10, <1>11, <1>12, FiresKeeps
<1>13. CASE Held.crash # AfterSchedule(RunWant.request)
  <2>1. /\ Keeps(run) /\ stage' = "up"
        /\ nested' = [run |-> nested.run, at |-> nested.at + 1, work |-> nested.work,
                      handed |-> TRUE, answer |-> nested.answer,
                      segments |-> nested.segments]
    BY <1>1, <1>2, <1>9, <1>13 DEF Standing, NestedShape
  <2>2. NestedShape(nested') /\ nested'.run = nested.run
    BY <1>2, <1>3, <2>1 DEF NestedShape
  <2>3. NestedAt(f, p, nested', run)
    BY <1>1, <1>3, <1>10, <2>1 DEF NestedAt, RunWant
  <2>4. Driven' = nested' /\ stage' # "boot"
    BY <2>1 DEF Driven
  <2> QED
    BY <1>1, <1>2, <1>8, <1>10, <1>11, <2>1, <2>2, <2>3, <2>4, RunKept
<1> QED
  BY <1>12, <1>13

\* A port answers, or the operator's answer is waited for.
LEMMA DispatchInRunStands ==
  ASSUME RunsStand, DispatchInRun
  PROVE  RunsStand'
<1>1. Drives /\ stage = "up" /\ nested.handed /\ UNCHANGED <<runs, stage>>
  BY DEF DispatchInRun, Drives, Idles
<1>2. PICK f, p : p \in Nat /\ Standing(f, p)
  BY <1>1, DriveStands
<1>3. nested' = Nothing \/ \E a : nested' = [nested EXCEPT !.answer = a]
  BY DEF DispatchInRun, Produced
<1>4. CASE nested' = Nothing
  BY <1>1, <1>4, RunsLeft DEF Driven
<1>5. CASE \E a : nested' = [nested EXCEPT !.answer = a]
  <2>1. PICK a : nested' = [run |-> nested.run, at |-> nested.at, work |-> nested.work,
                            handed |-> nested.handed, answer |-> a,
                            segments |-> nested.segments]
    BY <1>2, <1>5 DEF Standing, NestedShape
  <2>2. NestedShape(nested') /\ nested'.run = nested.run
    BY <1>1, <1>2, <2>1 DEF Standing, NestedShape
  <2>3. NestedAt(f, p, nested', Held)
    BY <1>2, <2>1 DEF Standing, NestedAt
  <2> QED
    BY <1>1, <1>2, <2>2, <2>3, DriveMoved DEF Standing
<1> QED
  BY <1>3, <1>4, <1>5

\* A crash before the answer's record leaves the intent.
LEMMA LoseInRunStands ==
  ASSUME RunsStand, LoseInRun
  PROVE  RunsStand'
<1>1. Drives /\ Fires(BeforeResolve(RunWant.request), Held)
  BY DEF LoseInRun, RunAnswers
<1>2. PICK f, p : p \in Nat /\ Standing(f, p)
  BY <1>1, DriveStands
<1> QED
  BY <1>1, <1>2, FiresKeeps DEF Standing

\* An answer goes on record before the run reads it.
LEMMA ResolveInRunStands ==
  ASSUME RunsStand, ResolveInRun
  PROVE  RunsStand'
<1>1. Drives /\ stage = "up" /\ nested.answer # Nothing
  BY DEF ResolveInRun, RunAnswers, Drives, Idles
<1>2. PICK f, p : p \in Nat /\ Standing(f, p)
  BY <1>1, DriveStands
<1>3. nested.handed /\ RunShape(Held) /\ IsSeq(Held.records) /\ Follows(f, Held)
  BY <1>1, <1>2 DEF Standing, NestedShape, RunShape
<1>4. /\ nested.at = 2 * p + 1 /\ nested.work = f[p] /\ Len(Held.records) = 2 * p + 1
      /\ nested.at + 1 = 2 * p + 2 /\ nested.at + 1 = 2 * (p + 1)
      /\ nested.at + 1 \in Nat /\ p + 1 \in Nat
  BY <1>2, <1>3 DEF Standing, NestedAt
<1>5. Held.terminal = <<>>
  BY <1>1, <1>2, <1>3, EndedIsRead
<1> DEFINE point == AfterResolve(RunWant.request, nested.answer)
           record == Resolved(nested.answer)
           records == Append(Held.records, record)
           run == [Held EXCEPT !.records = records]
           after == After(f[p], nested.answer)
<1>6. RunGoesOn(f[p], record, after)
  BY DEF RunGoesOn, Resolved
<1>7. IsSeq(records)
  BY <1>2, <1>3, OneMore
<1>8. run.records = Append(Held.records, record)
  BY <1>3, <1>7, RunShaped
<1>9. RunShape(run) /\ run.input = Held.input /\ run.terminal = Held.terminal
  BY <1>3, <1>7, RunShaped
<1>10. IF Held.crash = point THEN Fires(point, run)
       ELSE /\ Keeps(run)
            /\ nested' = RunAfter(nested.answer, nested.at + 1)
            /\ UNCHANGED <<stage, cursor>>
  BY <1>3 DEF ResolveInRun, RunShape
<1>11. RunAfter(nested.answer, nested.at + 1) =
         [run |-> nested.run, at |-> nested.at + 1, work |-> after, handed |-> FALSE,
          answer |-> Nothing, segments |-> nested.segments]
  <2>1. NestedShape(nested) /\ nested.work = f[p]
    BY <1>2, <1>4 DEF Standing
  <2>2. RunAfter(nested.answer, nested.at + 1) =
          [run |-> nested.run, at |-> nested.at + 1,
           work |-> After(nested.work, nested.answer), handed |-> FALSE,
           answer |-> Nothing, segments |-> nested.segments]
    BY <2>1, RunTaken
  <2> QED
    BY <2>1, <2>2
<1> HIDE DEF point, record, records, run, after
<1>12. FollowsTo(run, p, after)
  <2>1. run.input = Held.input /\ run.records = Append(Held.records, record) /\ p \in Nat
          /\ Follows(f, Held) /\ IsSeq(Held.records) /\ Len(Held.records) = 2 * p + 1
    BY <1>2, <1>3, <1>4, <1>8, <1>9
  <2> QED
    BY ONLY <2>1, <1>6, FollowsTaken
<1>13. PICK g : Follows(g, run) /\ g[p + 1] = after
  BY <1>12 DEF FollowsTo
<1>14. Len(run.records) = 2 * p + 2
  BY <1>12 DEF FollowsTo
<1>15. Ends(g, run)
  BY <1>5, <1>9 DEF Ends
<1>16. CASE Held.crash = point
  BY <1>1, <1>9, <1>10, <1>13, <1>15, <1>16, FiresKeeps
<1>17. CASE Held.crash # point
  <2>1. /\ Keeps(run) /\ stage' = "up"
        /\ nested' = [run |-> nested.run, at |-> nested.at + 1, work |-> after,
                      handed |-> FALSE, answer |-> Nothing, segments |-> nested.segments]
    BY <1>1, <1>10, <1>11, <1>17
  <2>2. NestedShape(nested') /\ nested'.run = nested.run
    BY <1>4, <2>1 DEF NestedShape
  <2>3. NestedAt(g, p + 1, nested', run)
    BY <1>4, <1>13, <1>14, <2>1 DEF NestedAt
  <2>4. Driven' = nested' /\ stage' # "boot"
    BY <2>1 DEF Driven
  <2> QED
    BY <1>1, <1>4, <1>9, <1>13, <1>15, <2>1, <2>2, <2>3, <2>4, RunKept
<1> QED
  BY <1>16, <1>17

LEMMA FaultInRunStands ==
  ASSUME RunsStand, FaultInRun
  PROVE  RunsStand'
<1>1. UNCHANGED runs /\ nested' = Nothing /\ stage' = "up"
  BY DEF FaultInRun, Produced, Drives, Idles
<1> QED
  BY <1>1, RunsLeft DEF Driven

\* The next segment starts over in a journal of its own.
LEMMA ContinueRunStands ==
  ASSUME RunsStand, ContinueRun
  PROVE  RunsStand'
<1>1. Drives /\ stage = "up" /\ RunWant.op = "continue"
  BY DEF ContinueRun, Drives, Idles
<1>2. PICK f, p : p \in Nat /\ Standing(f, p)
  BY <1>1, DriveStands
<1>3. Held.terminal = <<>>
  BY <1>1, <1>2, EndedIsRead
<1> DEFINE start == RunWant.start
           run == [Held EXCEPT !.records = <<>>, !.input = start,
                               !.segments = Append(@, start.seed)]
<1>4. /\ run.records = <<>> /\ run.input = start /\ run.terminal = <<>>
      /\ RunShape(run)
  <2>1. RunShape(Held)
    BY <1>2 DEF Standing
  <2>2. run = Continued(Held, start, start.seed)
    BY DEF Continued
  <2> HIDE DEF run, start
  <2> QED
    BY <1>3, <2>1, <2>2, RunContinued
<1>5. /\ Keeps(run)
      /\ \/ stage' = "driven"
         \/ stage' = "up" /\ nested' = Nothing
         \/ stage' = "up" /\ nested' = Started(nested.run, start, nested.segments + 1)
  BY <1>1 DEF ContinueRun, Returns, Produced
<1> HIDE DEF start, run
<1>6. PICK g : Follows(g, run) /\ g[0] = Begin(start)
  BY <1>4, FollowsNowhere
<1>7. Ends(g, run)
  BY <1>4 DEF Ends
<1>8. CASE stage' = "driven" \/ (stage' = "up" /\ nested' = Nothing)
  <2>1. Driven' = Nothing /\ stage' # "boot"
    BY <1>8 DEF Driven
  <2> QED
    BY <1>1, <1>4, <1>5, <1>6, <1>7, <2>1, RunKept
<1>9. CASE stage' = "up" /\ nested' = Started(nested.run, start, nested.segments + 1)
  <2>1. /\ NestedShape(nested') /\ nested'.run = nested.run /\ nested'.at = 0
        /\ ~nested'.handed /\ nested'.work = Begin(start)
    BY <1>9 DEF NestedShape, Started
  <2>2. NestedAt(g, 0, nested', run)
    <3>1. Len(run.records) = 0
      BY <1>4
    <3> QED
      BY <1>6, <2>1, <3>1 DEF NestedAt
  <2>3. Driven' = nested' /\ stage' # "boot"
    BY <1>9 DEF Driven
  <2> QED
    BY <1>1, <1>4, <1>5, <1>6, <1>7, <2>1, <2>2, <2>3, RunKept
<1> QED
  BY <1>5, <1>8, <1>9

\* An end goes on record once, when all the run asked for is.
LEMMA ConcludeRunStands ==
  ASSUME RunsStand, ConcludeRun
  PROVE  RunsStand'
<1>1. Drives /\ stage = "up" /\ RunWant.op = "conclude"
  BY DEF ConcludeRun, Drives, Idles
<1>2. PICK f, p : p \in Nat /\ Standing(f, p)
  BY <1>1, DriveStands
<1>3. RunShape(Held) /\ Follows(f, Held) /\ Ends(f, Held) /\ Len(Held.records) \in Nat
  BY <1>2, LengthOf DEF Standing, RunShape
<1>4. CASE Held.terminal # <<>>
  <2>1. UNCHANGED <<runs, stage>> /\ nested' = Nothing
    BY <1>4 DEF ConcludeRun, Produced
  <2> QED
    BY <1>1, <2>1, RunsLeft DEF Driven
<1>5. CASE Held.terminal = <<>>
  <2> DEFINE end == <<RunWant.status>>
             run == [Held EXCEPT !.terminal = end]
  <2>1. \/ Fires("BeforeTerminalCommit", Held)
        \/ Fires("AfterTerminalCommit", run)
        \/ Keeps(run) /\ nested' = Nothing /\ UNCHANGED stage
    BY <1>5 DEF ConcludeRun, Produced
  <2>2. /\ run.records = Held.records /\ run.input = Held.input /\ run.terminal = end
        /\ RunShape(run)
    <3> HIDE DEF end
    <3>1. run = [segments |-> Held.segments, input |-> Held.input,
                 records |-> Held.records, terminal |-> end, crash |-> Held.crash]
      BY <1>3 DEF RunShape
    <3> HIDE DEF run
    <3> QED
      BY <1>3, <3>1 DEF RunShape
  <2> HIDE DEF run
  <2>3. Follows(f, run)
    BY <1>3, <2>2, FollowsSame
  <2>4. f[p] = nested.work /\ Len(Held.records) = 2 * p
    <3>1. ~nested.handed /\ nested.work = f[p] /\ 2 * p =< Len(Held.records)
      BY <1>1, <1>2, <1>3 DEF Standing, NestedAt, RunWant
    <3>2. CASE 2 * p + 1 =< Len(Held.records)
      BY <1>1, <1>2, <1>3, <3>1, <3>2 DEF Follows, RunIntends, RunWant
    <3> QED
      BY <1>2, <1>3, <3>1, <3>2
  <2>5. Ends(f, run)
    BY <1>1, <1>2, <2>2, <2>4 DEF Ends, RunWant
  <2>6. CASE Fires("BeforeTerminalCommit", Held)
    BY <1>1, <1>3, <2>6, FiresKeeps
  <2>7. CASE Fires("AfterTerminalCommit", run)
    BY <1>1, <2>2, <2>3, <2>5, <2>7, FiresKeeps
  <2>8. CASE Keeps(run) /\ nested' = Nothing /\ UNCHANGED stage
    <3>1. Driven' = Nothing /\ stage' # "boot"
      BY <1>1, <2>8 DEF Driven
    <3> QED
      BY <1>1, <2>2, <2>3, <2>5, <2>8, <3>1, RunKept
  <2> QED
    BY <2>1, <2>6, <2>7, <2>8
<1> QED
  BY <1>4, <1>5

\* Every step that serves an activity leaves every run where its journal has it.
LEMMA ServingKeepsRuns ==
  ASSUME RunsStand, Serving
  PROVE  RunsStand'
<1>1. ASSUME Sense \/ Store \/ Load PROVE RunsStand'
  BY <1>1, PortsLeaveRuns
<1>2. ASSUME SelectRun PROVE RunsStand'
  BY <1>2, SelectRunStands
<1>3. ASSUME ReplayInRun PROVE RunsStand'
  BY <1>3, ReplayInRunStands
<1>4. ASSUME RedeliverInRun PROVE RunsStand'
  BY <1>4, RedeliverInRunStands
<1>5. ASSUME DivergeInRun PROVE RunsStand'
  BY <1>5, NeverDivergesInRun
<1>6. ASSUME ScheduleInRun PROVE RunsStand'
  BY <1>6, ScheduleInRunStands
<1>7. ASSUME DispatchInRun PROVE RunsStand'
  BY <1>7, DispatchInRunStands
<1>8. ASSUME LoseInRun PROVE RunsStand'
  BY <1>8, LoseInRunStands
<1>9. ASSUME ResolveInRun PROVE RunsStand'
  BY <1>9, ResolveInRunStands
<1>10. ASSUME FaultInRun PROVE RunsStand'
  BY <1>10, FaultInRunStands
<1>11. ASSUME ContinueRun PROVE RunsStand'
  BY <1>11, ContinueRunStands
<1>12. ASSUME ConcludeRun PROVE RunsStand'
  BY <1>12, ConcludeRunStands
<1> QED
  BY <1>1, <1>2, <1>3, <1>4, <1>5, <1>6, <1>7, <1>8, <1>9, <1>10, <1>11, <1>12
  DEF Serving

\* Where the supervisor and its runs start.
LEMMA JournalsInit ==
  ASSUME Init
  PROVE  SupervisorStands /\ RunsStand
<1>1. /\ stage = "boot" /\ nested = Nothing
      /\ history = NewHistory(scene.input) /\ cursor = NewCursor
      /\ \E point \in Points : runs = [held |-> <<>>, armed |-> point]
  BY DEF Init
<1>2. history.records = <<>> /\ HistoryShape(history)
  <2>1. history.records = <<>>
    BY <1>1 DEF NewHistory
  <2> QED
    BY <1>1, <2>1, NoneIsSeq DEF NewHistory, HistoryShape
<1>3. CursorShape(cursor)
  BY <1>1 DEF NewCursor, CursorShape
<1>4. SupervisorStands
  BY <1>1, <1>2, <1>3, GoesNowhere DEF SupervisorStands
<1>5. RunsStand
  BY <1>1 DEF RunsStand, Driven
<1> QED
  BY <1>4, <1>5

JournalsStand == SupervisorStands /\ RunsStand

LEMMA JournalsStep ==
  ASSUME JournalsStand, [Next]_avars
  PROVE  JournalsStand'
<1>1. CASE Supervising
  BY <1>1, SupervisingStands, SupervisingLeavesRuns DEF JournalsStand
<1>2. CASE Serving
  BY <1>2, ServingStands, ServingKeepsRuns DEF JournalsStand
<1>3. CASE UNCHANGED avars
  <2>1. UNCHANGED <<stage, cursor, history, nested, runs>>
    BY <1>3 DEF avars, supervisor, device
  <2>2. SupervisorStands'
    BY <2>1, SupervisorStays DEF JournalsStand
  <2>3. RunsStand'
    BY <2>1, RunsUnmoved DEF JournalsStand, Driven, RunsStand
  <2> QED
    BY <2>2, <2>3 DEF JournalsStand
<1> QED
  BY <1>1, <1>2, <1>3 DEF Next

----------------------------------------------------------------------------
(* Theorems.                                                               *)

\* Every journal of a drive, the supervisor's and those of its runs, is at all
\* times a run of its workflow, wherever resets and crashes end the boots; a
\* boot that is up, and the run it is in the middle of, stand in their journals
\* where the workflow stands (ReplayPorts of agent/host.rs and run/host.rs).
THEOREM JournalsAreRuns == Spec => []JournalsStand
<1>1. Init => JournalsStand
  BY JournalsInit DEF JournalsStand
<1>2. JournalsStand /\ [Next]_avars => JournalsStand'
  BY JournalsStep
<1> QED
  BY <1>1, <1>2, PTL DEF Spec

NotDiverged == outcome # "Diverged"

\* No drive of a supervisor returns ReplayDiverged, neither from the
\* supervisor's journal nor from that of a run.
THEOREM DrivesNeverDiverge == Spec => []NotDiverged
<1>1. Init => NotDiverged
  BY DEF Init, NotDiverged
<1>2. NotDiverged /\ JournalsStand /\ [Next]_avars => NotDiverged'
  <2> SUFFICES ASSUME JournalsStand, [Next]_avars, outcome # "Diverged"
               PROVE  outcome' # "Diverged"
    BY DEF NotDiverged
  <2>1. SupervisorStands /\ RunsStand
    BY DEF JournalsStand
  <2>2. CASE ReplayAnswer \/ ReplayDeadline \/ ReplayInRun
    BY <2>1, <2>2, ReplayAnswerStands, ReplayDeadlineStands, ReplayInRunStands
  <2>3. ~DivergeFromHistory /\ ~DivergeInRun
    BY <2>1, NeverDivergesFromHistory, NeverDivergesInRun
  <2>4. CASE \/ Boot \/ Fails \/ HandOnAgain \/ HandOn \/ LoseAnswer \/ RecordAnswer
             \/ ContinueAsNew \/ LoseDeadline \/ Wait
    BY <2>4 DEF Boot, Fails, HandOnAgain, HandOn, LoseAnswer, RecordAnswer,
         ContinueAsNew, LoseDeadline, Wait, Returns
  <2>5. CASE \/ Sense \/ Store \/ Load \/ SelectRun \/ RedeliverInRun \/ ScheduleInRun
             \/ DispatchInRun \/ LoseInRun \/ ResolveInRun \/ FaultInRun \/ ContinueRun
             \/ ConcludeRun
    BY <2>5 DEF Sense, Store, Load, SelectRun, RedeliverInRun, ScheduleInRun,
         DispatchInRun, LoseInRun, ResolveInRun, FaultInRun, ContinueRun, ConcludeRun,
         Returns
  <2>6. CASE UNCHANGED avars
    BY <2>6 DEF avars
  <2> QED
    BY <2>2, <2>3, <2>4, <2>5, <2>6 DEF Next, Supervising, Serving
<1> QED
  BY <1>1, <1>2, JournalsAreRuns, PTL DEF Spec

\* A run that has ended keeps its journal, and driving it hands nothing to the
\* device, the model or the operator.
EndedIsOnlyRead ==
  /\ \A name \in DOMAIN runs.held : runs.held[name].terminal # <<>> =>
       name \in DOMAIN runs'.held /\ runs'.held[name] = runs.held[name]
  /\ Drives /\ Held.terminal # <<>> => UNCHANGED ports

\* The journal that changes is that of a run that has not ended.
LEMMA KeepsTheEnded ==
  ASSUME RunsStand, Drives, NEW run, Keeps(run), Held.terminal = <<>>
  PROVE  EndedIsOnlyRead
<1>1. nested.run \in DOMAIN runs.held /\ runs = [held |-> runs.held, armed |-> runs.armed]
  BY DEF RunsStand, Drives, Idles, Driven
<1>2. runs'.held = [runs.held EXCEPT ![nested.run] = run]
  BY <1>1 DEF Keeps
<1> QED
  BY <1>2 DEF EndedIsOnlyRead, Held

LEMMA EndedStep ==
  ASSUME JournalsStand, [Next]_avars
  PROVE  EndedIsOnlyRead
<1>1. RunsStand
  BY DEF JournalsStand
<1>2. ASSUME Drives, Held.terminal # <<>>
      PROVE  /\ ~ScheduleInRun /\ ~DispatchInRun /\ ~LoseInRun /\ ~ResolveInRun
             /\ ~ContinueRun
  <2>1. PICK f, p : p \in Nat /\ Standing(f, p)
    BY <1>1, <1>2, DriveStands
  <2>2. /\ ~nested.handed /\ RunWant.op \in {"activity", "conclude"}
        /\ RunWant.op = "activity" => nested.at + 1 < Len(Held.records)
    BY <1>2, <2>1, EndedIsRead
  <2>3. nested.answer = Nothing
    BY <2>1, <2>2 DEF Standing, NestedShape
  <2>4. nested.at \in Nat /\ Len(Held.records) \in Nat
    BY <2>1, LengthOf DEF Standing, NestedShape, RunShape
  <2> QED
    BY <2>2, <2>3, <2>4 DEF ScheduleInRun, RunAsks, DispatchInRun, LoseInRun, ResolveInRun,
         RunAnswers, ContinueRun
<1>3. CASE UNCHANGED <<runs, ports>>
  BY <1>3 DEF EndedIsOnlyRead
<1>4. CASE Sense \/ Store
  <2>1. UNCHANGED runs /\ ~Drives
    BY <1>4 DEF Sense, Store, Activity, Drives
  <2> QED
    BY <2>1 DEF EndedIsOnlyRead
<1>5. CASE SelectRun
  <2>1. ~Drives
    BY <1>5 DEF SelectRun, Activity, Drives
  <2>2. \/ runs'.held = runs.held
        \/ \E entry : /\ Want.request.run \notin DOMAIN runs.held
                      /\ runs'.held = Put(runs.held, Want.request.run, entry)
    <3>1. CASE UNCHANGED runs
      BY <3>1
    <3>2. CASE Want.request.run \in DOMAIN runs.held /\ ~UNCHANGED runs
      BY <1>5, <3>2 DEF SelectRun
    <3>3. CASE Want.request.run \notin DOMAIN runs.held /\ ~UNCHANGED runs
      <4>1. runs'.held = Put(runs.held, Want.request.run,
                             NewRun(Want.request.start[1], runs.armed))
        BY <1>5, <3>3 DEF SelectRun
      <4> QED
        BY <3>3, <4>1
    <3> QED
      BY <3>1, <3>2, <3>3
  <2>3. \A name \in DOMAIN runs.held :
          name \in DOMAIN runs'.held /\ runs'.held[name] = runs.held[name]
    BY <2>2 DEF Put
  <2> QED
    BY <2>1, <2>3 DEF EndedIsOnlyRead
<1>6. CASE DispatchInRun
  <2>1. UNCHANGED runs /\ Drives
    BY <1>6 DEF DispatchInRun
  <2> QED
    BY <1>2, <1>6, <2>1 DEF EndedIsOnlyRead
<1>7. CASE ScheduleInRun \/ LoseInRun \/ ResolveInRun \/ ContinueRun
  <2>1. Drives /\ \E run : Keeps(run)
    BY <1>7 DEF ScheduleInRun, LoseInRun, ResolveInRun, ContinueRun, RunAsks, RunAnswers, Fires
  <2>2. Held.terminal = <<>>
    BY <1>2, <1>7, <2>1
  <2> QED
    BY <1>1, <2>1, <2>2, KeepsTheEnded
<1>8. CASE ConcludeRun
  <2>1. Drives /\ UNCHANGED ports
    BY <1>8 DEF ConcludeRun
  <2>2. CASE Held.terminal # <<>>
    BY <1>8, <2>1, <2>2 DEF ConcludeRun, EndedIsOnlyRead
  <2>3. CASE Held.terminal = <<>>
    <3>1. \E run : Keeps(run)
      BY <1>8, <2>3 DEF ConcludeRun, Fires
    <3> QED
      BY <1>1, <2>1, <2>3, <3>1, KeepsTheEnded
  <2> QED
    BY <2>2, <2>3
<1>9. CASE Supervising \/ Load \/ ReplayInRun \/ RedeliverInRun \/ DivergeInRun \/ FaultInRun
  <2>1. UNCHANGED <<runs, ports>>
    BY <1>9 DEF Supervising, Boot, Fails, ReplayAnswer, HandOnAgain, DivergeFromHistory,
         HandOn, LoseAnswer, RecordAnswer, ContinueAsNew, ReplayDeadline, LoseDeadline, Wait,
         Load, ReplayInRun, RedeliverInRun, DivergeInRun, FaultInRun, device
  <2> QED
    BY <1>3, <2>1
<1>10. CASE UNCHANGED avars
  BY <1>3, <1>10 DEF avars, device
<1> QED
  BY <1>4, <1>5, <1>6, <1>7, <1>8, <1>9, <1>10 DEF Next, Serving

\* A run that has ended is read back and never driven on: its journal stays as it
\* is from step to step, and no step of a drive that is in it reaches a port
\* (select_run and run_to_end of agent/host.rs).
THEOREM EndedRunsAreOnlyRead == Spec => [][EndedIsOnlyRead]_avars
<1>1. JournalsStand /\ [Next]_avars => [EndedIsOnlyRead]_avars
  BY EndedStep
<1> QED
  BY <1>1, JournalsAreRuns, PTL DEF Spec

\* A drive that comes to an end of a run a second time comes to the one on record,
\* so a harvest never meets an end that differs.
EndsAgree ==
  Drives /\ RunWant.op = "conclude" /\ Held.terminal # <<>> =>
    Held.terminal = <<RunWant.status>>

\* The end a journal holds is the one every later drive of it reaches
\* (record_terminal of run/host.rs).
THEOREM EndsAreReachedAgain == Spec => []EndsAgree
<1>1. ASSUME JournalsStand PROVE EndsAgree
  <2> SUFFICES ASSUME Drives, RunWant.op = "conclude", Held.terminal # <<>>
               PROVE  Held.terminal = <<RunWant.status>>
    BY DEF EndsAgree
  <2>1. PICK f, p : p \in Nat /\ Standing(f, p)
    BY <1>1, DriveStands DEF JournalsStand
  <2> QED
    BY <2>1, EndedIsRead
<1> QED
  BY <1>1, JournalsAreRuns, PTL

----------------------------------------------------------------------------
(* The device under all the runs.                                          *)

DeviceShape(d) ==
  /\ d = [level |-> d.level, clock |-> d.clock, effects |-> d.effects, ledger |-> d.ledger]
  /\ IsSeq(d.effects)

WorldShape(w) ==
  /\ w = [lines |-> w.lines, emitted |-> w.emitted, faults |-> w.faults,
          inputs |-> w.inputs, taken |-> w.taken, stuck |-> w.stuck,
          device |-> w.device, store |-> w.store]
  /\ DeviceShape(w.device)

\* What the device has done it has done: effects stay in their places.
Grows(effects, more) ==
  \A n \in DOMAIN effects : n \in DOMAIN more /\ more[n] = effects[n]

LEMMA ToldYet ==
  ASSUME NEW id, NEW request, NEW answer, NEW effects, NEW more,
         Told(id, request, answer, effects), Grows(effects, more)
  PROVE  Told(id, request, answer, more)
BY DEF Told, Grows

\* A world with another thing changed than its device.
LEMMA WorldsShaped ==
  ASSUME NEW w, WorldShape(w), NEW v,
         \/ v = w
         \/ \E e : v = [w EXCEPT !.emitted = e]
         \/ \E e : v = [w EXCEPT !.taken = e]
         \/ \E e : v = [w EXCEPT !.store = e]
         \/ \E e : v = [w EXCEPT !.faults = e]
         \/ \E e, f : v = [w EXCEPT !.inputs = e, !.taken = f]
  PROVE  WorldShape(v) /\ v.device = w.device
<1>1. CASE v = w
  BY <1>1
<1>2. \E l, e, f, i, t, s, c :
        v = [lines |-> l, emitted |-> e, faults |-> f, inputs |-> i, taken |-> t,
             stuck |-> s, device |-> w.device, store |-> c]
  BY DEF WorldShape
<1> QED
  BY <1>2 DEF WorldShape

\* What a call does to the pins and the clock leaves the effects.
LEMMA PhysicalShaped ==
  ASSUME NEW w, WorldShape(w), NEW call, NEW seq
  PROVE  LET done == Physical(w, call, seq)
         IN DeviceShape(done.device) /\ done.device.effects = w.device.effects
<1> DEFINE d == w.device
           done == Physical(w, call, seq)
<1>1. /\ DeviceShape(d)
      /\ d = [level |-> d.level, clock |-> d.clock, effects |-> d.effects,
              ledger |-> d.ledger]
  BY DEF WorldShape, DeviceShape
<1>2. \/ done.device = d
      \/ \E level, ledger : done.device = [d EXCEPT !.level = level, !.ledger = ledger]
      \/ \E clock : done.device = [d EXCEPT !.clock = clock]
  <2>1. CASE call.tool = "write"
    <3> DEFINE level == [d.level EXCEPT ![call.resource] =
                           IF call.resource \in w.stuck THEN @ ELSE call.value]
               ledger == Append(d.ledger, [pin |-> call.resource, level |-> call.value,
                                           seq |-> seq])
    <3>1. done.device = [d EXCEPT !.level = level, !.ledger = ledger]
      BY <1>1, <2>1 DEF Physical
    <3> QED
      BY <3>1
  <2>2. CASE call.tool = "delay"
    <3>1. done.device = [d EXCEPT !.clock = d.clock + call.value]
      BY <1>1, <2>2 DEF Physical
    <3> QED
      BY <3>1
  <2>3. CASE call.tool # "write" /\ call.tool # "delay"
    BY <2>3 DEF Physical
  <2> QED
    BY <2>1, <2>2, <2>3
<1> HIDE DEF done, d
<1>3. \E level, clock, ledger :
        done.device = [level |-> level, clock |-> clock, effects |-> d.effects,
                       ledger |-> ledger]
  BY <1>1, <1>2
<1>4. DeviceShape(done.device) /\ done.device.effects = d.effects
  BY <1>1, <1>3 DEF DeviceShape
<1> QED
  BY <1>4 DEF done, d

\* What a port answered, over the device that was there before.
IsServed(w, served, id, request) ==
  /\ WorldShape(served.world)
  /\ NamedOnce(served.world.device.effects)
  /\ Grows(w.device.effects, served.world.device.effects)
  /\ Told(id, request, served.answer, served.world.device.effects)

\* A call that is performed is one more effect, whose outcome is the answer.
LEMMA PerformServed ==
  ASSUME NEW w, WorldShape(w), NamedOnce(w.device.effects), NEW run, NEW request,
         NEW id, id = [run |-> run, seq |-> request.call.seq],
         \A n \in DOMAIN w.device.effects : w.device.effects[n].id # id,
         NEW served, served = Perform(w, id, request.call)
  PROVE  IsServed(w, served, run, request)
<1> DEFINE call == request.call
           done == Physical(w, call, id.seq)
           d == done.device
           o == done.outcome
           e == Effect(id, call.digest, o)
           old == w.device.effects
           effects == Append(d.effects, e)
           after == [d EXCEPT !.effects = effects]
           v == [w EXCEPT !.device = after]
<1>1. served.world = v /\ served.answer = [completed |-> TRUE, value |-> o]
  BY DEF Perform, Done
<1>2. DeviceShape(d) /\ d.effects = old
  BY PhysicalShaped
<1>3. IsSeq(old) /\ effects = Append(old, e)
  BY <1>2 DEF DeviceShape
<1>4. e.id = id /\ e.digest = call.digest /\ e.outcome = o
  BY DEF Effect
<1> HIDE DEF done, o, e
<1> HIDE DEF d
<1>5. /\ IsSeq(effects) /\ Len(old) \in Nat /\ DOMAIN old = 1..Len(old)
      /\ DOMAIN effects = 1..(Len(old) + 1) /\ effects[Len(old) + 1] = e
      /\ \A n \in 1..Len(old) : effects[n] = old[n]
  <2>1. PICK R : old \in Seq(R)
    BY <1>3 DEF IsSeq
  <2> DEFINE S == R \cup {e}
  <2>2. old \in Seq(S) /\ e \in S
    BY <2>1
  <2> HIDE DEF S, effects, old
  <2>3. /\ effects \in Seq(S) /\ Len(old) \in Nat /\ DOMAIN old = 1..Len(old)
        /\ Len(effects) = Len(old) + 1 /\ DOMAIN effects = 1..(Len(old) + 1)
        /\ effects[Len(old) + 1] = e /\ \A n \in 1..Len(old) : effects[n] = old[n]
    BY <1>3, <2>2
  <2> QED
    BY <2>3 DEF IsSeq
<1> HIDE DEF effects
<1>6. after = [level |-> d.level, clock |-> d.clock, effects |-> effects,
               ledger |-> d.ledger]
  BY <1>2 DEF DeviceShape
<1> HIDE DEF after
<1>7. DeviceShape(after) /\ after.effects = effects
  BY <1>5, <1>6 DEF DeviceShape
<1>8. v = [lines |-> w.lines, emitted |-> w.emitted, faults |-> w.faults,
           inputs |-> w.inputs, taken |-> w.taken, stuck |-> w.stuck,
           device |-> after, store |-> w.store]
  BY DEF WorldShape
<1> HIDE DEF v
<1>9. WorldShape(v) /\ v.device.effects = effects
  BY <1>7, <1>8 DEF WorldShape
<1>10. Grows(old, effects)
  BY <1>5 DEF Grows
<1>11. NamedOnce(effects)
  <2> SUFFICES ASSUME NEW m \in DOMAIN effects, NEW n \in DOMAIN effects,
                      effects[m].id = effects[n].id
               PROVE  m = n
    BY DEF NamedOnce
  <2> DEFINE last == Len(old) + 1
  <2>1. /\ m = last \/ m \in DOMAIN old
        /\ n = last \/ n \in DOMAIN old
    <3> HIDE DEF old
    <3>1. /\ m = Len(old) + 1 \/ m \in 1..Len(old)
          /\ n = Len(old) + 1 \/ n \in 1..Len(old)
      BY <1>5
    <3> QED
      BY <1>5, <3>1
  <2>2. /\ m \in DOMAIN old => effects[m] = old[m] /\ old[m].id # id
        /\ n \in DOMAIN old => effects[n] = old[n] /\ old[n].id # id
    BY <1>5
  <2>3. effects[last].id = id
    BY <1>4, <1>5
  <2> HIDE DEF last
  <2>4. m \in DOMAIN old /\ n \in DOMAIN old => m = n
    BY <2>2 DEF NamedOnce
  <2> QED
    BY <2>1, <2>2, <2>3, <2>4
<1>12. Told(run, request, served.answer, effects)
  <2>1. Len(old) + 1 \in DOMAIN effects
    BY <1>5
  <2> QED
    BY <1>1, <1>4, <1>5, <2>1 DEF Told
<1> QED
  BY <1>1, <1>9, <1>10, <1>11, <1>12 DEF IsServed

\* A port that leaves the device, and says nothing a device would have done.
LEMMA ServedElsewhere ==
  ASSUME NEW w, WorldShape(w), NamedOnce(w.device.effects), NEW run, NEW request, NEW served,
         WorldShape(served.world), served.world.device = w.device,
         \/ request.kind # "TOOL"
         \/ ~served.answer.completed
         \/ served.answer.value = Transient
  PROVE  IsServed(w, served, run, request)
BY DEF IsServed, Grows, Told

\* A planned fault reaches nothing; a name that was used is answered for its own
\* arguments and refused for others; any other call is performed, or its resource
\* is unknown.
LEMMA ToolServed ==
  ASSUME NEW w, WorldShape(w), NamedOnce(w.device.effects), NEW run, NEW request,
         request.kind = "TOOL", NEW served,
         served = Tool(w, [run |-> run, seq |-> request.call.seq], request.call)
  PROVE  IsServed(w, served, run, request)
<1> DEFINE call == request.call
           id == [run |-> run, seq |-> call.seq]
           effects == w.device.effects
           planned == Matching(w.faults, call.tool, Resource(call))
           done == PerformedAs(w.device, id)
           m == Min(done)
<1>0. done = {n \in DOMAIN effects : effects[n].id = id}
  BY DEF PerformedAs
<1>1. CASE planned # {}
  <2> DEFINE faults == Consumed(w.faults, call.tool, Resource(call))
             x == [w EXCEPT !.faults = faults]
  <2>1. served = [world |-> x, answer |-> [completed |-> TRUE, value |-> Transient]]
    BY <1>1 DEF Tool, Done
  <2> HIDE DEF faults
  <2>2. WorldShape(x) /\ x.device = w.device
    BY WorldsShaped
  <2> HIDE DEF x
  <2> QED
    BY <2>1, <2>2, ServedElsewhere
<1>2. CASE planned = {} /\ done # {}
  <2>1. served = Dispatch(w, id, call)
    BY <1>2 DEF Tool
  <2>2. PICK k \in done : TRUE
    BY <1>2
  <2>3. done = {k}
    BY <1>0, <2>2 DEF NamedOnce
  <2>4. m = k
    <3>1. k \in Nat
      BY <1>0, <2>2, LengthOf DEF WorldShape, DeviceShape
    <3> HIDE DEF done
    <3> QED
      BY <2>3, <3>1 DEF Min
  <2>5. CASE effects[k].digest = call.digest
    <3>0. effects[m].digest = call.digest
      BY <2>4, <2>5
    <3>1. /\ served.world = w
          /\ served.answer = [completed |-> TRUE, value |-> effects[m].outcome]
      <4>1. served = Done(w, effects[m].outcome)
        BY <1>2, <2>1, <3>0 DEF Dispatch
      <4> HIDE DEF m, done, effects
      <4> QED
        BY ONLY <4>1 DEF Done
    <3>2. Told(run, request, served.answer, effects)
      <4>1. served.answer.value = effects[k].outcome
        BY <2>4, <3>1
      <4>2. k \in DOMAIN effects /\ effects[k].id = id
        BY <1>0, <2>2
      <4> HIDE DEF m, done, effects
      <4> QED
        BY <2>5, <4>1, <4>2 DEF Told
    <3> QED
      BY <3>1, <3>2 DEF IsServed, Grows
  <2>6. CASE effects[k].digest # call.digest
    <3>1. served.world = w /\ ~served.answer.completed
      BY <1>2, <2>1, <2>4, <2>6 DEF Dispatch, Failed
    <3> QED
      BY <3>1, ServedElsewhere
  <2> QED
    BY <2>5, <2>6
<1>3. CASE planned = {} /\ done = {}
  <2>1. \A n \in DOMAIN effects : effects[n].id # id
    BY <1>0, <1>3
  <2>2. CASE call.tool = "sample" /\ call.resource >= SensorCount
    <3>1. served.world = w /\ ~served.answer.completed
      BY <1>3, <2>2 DEF Tool, Dispatch, Failed
    <3> QED
      BY <3>1, ServedElsewhere
  <2>3. CASE ~(call.tool = "sample" /\ call.resource >= SensorCount)
    <3>1. served = Perform(w, id, call)
      BY <1>3, <2>3 DEF Tool, Dispatch
    <3> HIDE DEF id
    <3>2. id = [run |-> run, seq |-> request.call.seq]
      BY DEF id
    <3> QED
      BY <2>1, <3>1, <3>2, PerformServed
  <2> QED
    BY <2>2, <2>3
<1> QED
  BY <1>1, <1>2, <1>3

\* The ports of a run, over the device they share.
LEMMA EachServed ==
  ASSUME NEW w, WorldShape(w), NamedOnce(w.device.effects), NEW run, NEW request, NEW served,
         served = Served(w, run, request)
  PROVE  IsServed(w, served, run, request)
<1>1. CASE request.kind = "TOOL"
  BY <1>1, ToolServed DEF Served
<1>2. CASE request.kind # "TOOL"
  <2> DEFINE v == served.world
  <2>1. \/ v = w
        \/ \E e : v = [w EXCEPT !.emitted = e]
        \/ \E e : v = [w EXCEPT !.taken = e]
        \/ \E e : v = [w EXCEPT !.store = e]
    <3>1. CASE request.kind = "INFER"
      <4>1. v = w \/ v = [w EXCEPT !.emitted = w.emitted + 1]
        BY <3>1 DEF Served, Infer, Done, Failed, WorldShape
      <4> QED
        BY <4>1
    <3>2. CASE request.kind = "ASK"
      <4>1. v = w \/ v = [w EXCEPT !.taken = w.taken + 1]
        BY <3>2 DEF Served, Ask, Done, WorldShape
      <4> QED
        BY <4>1
    <3>3. CASE request.kind = "SNAP_STORE"
      <4>1. v = [w EXCEPT !.store = w.store \cup {request.chunk}]
        BY <3>3 DEF Served, StoreChunk, Done, WorldShape
      <4> QED
        BY <4>1
    <3>4. CASE request.kind \notin {"INFER", "ASK", "SNAP_STORE"}
      BY <1>2, <3>4 DEF Served, ReadBack, LoadChunk, Done, Failed
    <3> QED
      BY <3>1, <3>2, <3>3, <3>4
  <2>2. WorldShape(v) /\ v.device = w.device
    BY <2>1, WorldsShaped
  <2> QED
    BY <1>2, <2>2, ServedElsewhere
<1> QED
  BY <1>1, <1>2

\* Every call's answer in a journal is what the device did.
AllTell(run, effects) ==
  \A q \in Nat : 2 * q + 2 =< Len(run.records) =>
    Told(Last(run.segments).id, run.records[2 * q + 1].request,
         run.records[2 * q + 2].answer, effects)

PortsShape(p) ==
  /\ p = [world |-> p.world, inbox |-> p.inbox, delivered |-> p.delivered,
          items |-> p.items, goal |-> p.goal]
  /\ WorldShape(p.world)

\* So is the answer a run has not recorded yet.
AnswerTells ==
  Driven # Nothing /\ Driven.answer # Nothing =>
    Told(Last(runs.held[Driven.run].segments).id, Driven.work.want.request,
         Driven.answer, Effects)

DeviceStands ==
  /\ PortsShape(ports)
  /\ NamedOnce(Effects)
  /\ \A name \in DOMAIN runs.held : AllTell(runs.held[name], Effects)
  /\ AnswerTells

\* Nothing is done to the device: what the journals tell of it is as true.
LEMMA TellsYet ==
  ASSUME NEW run, NEW effects, NEW more, AllTell(run, effects), Grows(effects, more)
  PROVE  AllTell(run, more)
BY ToldYet DEF AllTell

LEMMA GrowsNot ==
  ASSUME NEW effects
  PROVE  Grows(effects, effects)
BY DEF Grows

\* The ports move, and the journals are those there were, but for one.
LEMMA DeviceMoved ==
  ASSUME DeviceStands, PortsShape(ports'), NamedOnce(Effects'), Grows(Effects, Effects'),
         AnswerTells',
         \A name \in DOMAIN runs'.held :
           \/ name \in DOMAIN runs.held /\ runs'.held[name] = runs.held[name]
           \/ AllTell(runs'.held[name], Effects')
  PROVE  DeviceStands'
<1>1. ASSUME NEW name \in DOMAIN runs'.held
      PROVE  AllTell(runs'.held[name], Effects')
  <2>1. CASE name \in DOMAIN runs.held /\ runs'.held[name] = runs.held[name]
    BY <2>1, TellsYet DEF DeviceStands
  <2>2. CASE AllTell(runs'.held[name], Effects')
    BY <2>2
  <2> QED
    BY <2>1, <2>2
<1> QED
  BY <1>1 DEF DeviceStands

\* No step of the supervisor touches the device; one that ends the boot lets the
\* run it was in go.
LEMMA DeviceSupervised ==
  ASSUME DeviceStands, Supervising, RunsStand
  PROVE  DeviceStands' /\ Grows(Effects, Effects')
<1>1. UNCHANGED <<runs, ports>>
  BY DEF Supervising, Boot, Fails, ReplayAnswer, HandOnAgain, DivergeFromHistory, HandOn,
         LoseAnswer, RecordAnswer, ContinueAsNew, ReplayDeadline, LoseDeadline, Wait,
         device
<1>2. UNCHANGED Effects
  BY <1>1 DEF Effects
<1>3. Driven' = Driven \/ Driven' = Nothing
  <2>1. CASE Boot
    BY <2>1 DEF Boot, RunsStand, device, Returns, Driven
  <2>2. CASE Down
    BY <2>2 DEF Down, Driven
  <2>3. CASE ~Boot /\ ~Down
    <3>1. UNCHANGED nested /\ stage = "up" /\ stage' \in {"up", "driven"}
      BY <2>3 DEF Supervising, Fails, ReplayAnswer, HandOnAgain, DivergeFromHistory, HandOn,
         LoseAnswer, RecordAnswer, ContinueAsNew, ReplayDeadline, LoseDeadline, Wait,
         device, Returns, Asks, Answers, Waiting, Waits
    <3> QED
      BY <3>1 DEF Driven
  <2> QED
    BY <2>1, <2>2, <2>3
<1>4. AnswerTells'
  BY <1>1, <1>2, <1>3 DEF AnswerTells, DeviceStands
<1>5. Grows(Effects, Effects') /\ PortsShape(ports') /\ NamedOnce(Effects')
  BY <1>1, <1>2, GrowsNot DEF DeviceStands
<1> QED
  BY <1>1, <1>4, <1>5, DeviceMoved

\* The activities without a run, and a run that is found or begun.
LEMMA DevicePorts ==
  ASSUME DeviceStands, Sense \/ Store \/ Load \/ SelectRun
  PROVE  DeviceStands' /\ Grows(Effects, Effects')
<1>1. stage = "up" /\ nested = Nothing /\ stage' = "up"
  BY DEF Sense, Store, Load, SelectRun, Activity, Idles
<1>2. PortsShape(ports') /\ UNCHANGED Effects
  <2>1. \/ UNCHANGED ports
        \/ \E d, i : ports' = [ports EXCEPT !.delivered = d, !.inbox = i]
        \/ \E i : ports' = [ports EXCEPT !.items = i]
        \/ \E g : ports' = [ports EXCEPT !.goal = g]
    <3>1. CASE Sense
      <4>1. ports' = Landed(Want.request.beat)
        BY <3>1 DEF Sense
      <4>2. \/ ports' = ports
            \/ ports' = [ports EXCEPT
                 !.delivered = ports.delivered \cup {Want.request.beat},
                 !.inbox = FoldLeft(Delivered, ports.inbox,
                                    At(scene.deliveries, Want.request.beat))]
        BY <4>1 DEF Landed, DeviceStands, PortsShape
      <4> QED
        BY <4>2
    <3>2. CASE Store
      <4>1. ports' = [ports EXCEPT
               !.items = Put(ports.items, Want.request.key, Want.request.item)]
        BY <3>2 DEF Store, DeviceStands, PortsShape
      <4> QED
        BY <4>1
    <3>3. CASE Load
      BY <3>3 DEF Load
    <3>4. CASE SelectRun
      <4>1. \/ ports' = ports
            \/ ports' = [ports EXCEPT !.goal = IF Want.request.kind = "RUN"
                                               THEN GoalOf(Want.request.run) ELSE ports.goal]
        BY <3>4 DEF SelectRun, DeviceStands, PortsShape
      <4> QED
        BY <4>1
    <3> QED
      BY <3>1, <3>2, <3>3, <3>4
  <2>2. \E i, d, t, g : ports' = [world |-> ports.world, inbox |-> i, delivered |-> d,
                                  items |-> t, goal |-> g]
    BY <2>1 DEF DeviceStands, PortsShape
  <2> QED
    BY <2>2 DEF DeviceStands, PortsShape, Effects
<1>3. Driven' # Nothing => Driven'.answer = Nothing
  BY <1>1 DEF Sense, Store, Load, SelectRun, Produced, Started, Driven
<1>4. AnswerTells'
  BY <1>3 DEF AnswerTells
<1>5. ASSUME NEW name \in DOMAIN runs'.held
      PROVE  \/ name \in DOMAIN runs.held /\ runs'.held[name] = runs.held[name]
             \/ AllTell(runs'.held[name], Effects')
  <2>1. CASE UNCHANGED runs
    BY <1>5, <2>1
  <2>2. CASE ~UNCHANGED runs
    <3> DEFINE run == Want.request.run
               entry == NewRun(Want.request.start[1], runs.armed)
    <3>1. runs'.held = IF run \in DOMAIN runs.held THEN runs.held
                       ELSE Put(runs.held, run, entry)
      BY <2>2 DEF Sense, Store, Load, SelectRun
    <3>2. AllTell(entry, Effects')
      <4>1. entry.records = <<>>
        BY DEF NewRun
      <4>2. Len(entry.records) = 0
        BY <4>1
      <4> QED
        BY <4>2 DEF AllTell
    <3> HIDE DEF entry, run
    <3> QED
      BY <1>5, <3>1, <3>2 DEF Put
  <2> QED
    BY <2>1, <2>2
<1>6. NamedOnce(Effects') /\ Grows(Effects, Effects')
  BY <1>2, GrowsNot DEF DeviceStands
<1> QED
  BY <1>2, <1>4, <1>5, <1>6, DeviceMoved

\* A step in a run that leaves the world: its answer is read, recorded or lost.
LEMMA DeviceLeft ==
  ASSUME DeviceStands, RunsStand, Drives, PortsShape(ports'), Effects' = Effects,
         NEW run, Keeps(run) \/ (UNCHANGED runs /\ run = Held),
         AllTell(run, Effects),
         Driven' # Nothing => Driven'.answer = Nothing
  PROVE  DeviceStands' /\ Grows(Effects, Effects')
<1>1. nested.run \in DOMAIN runs.held /\ runs = [held |-> runs.held, armed |-> runs.armed]
  BY DEF RunsStand, Drives, Idles, Driven
<1>2. runs'.held = [runs.held EXCEPT ![nested.run] = run] \/ UNCHANGED runs
  BY <1>1 DEF Keeps
<1>3. ASSUME NEW name \in DOMAIN runs'.held
      PROVE  \/ name \in DOMAIN runs.held /\ runs'.held[name] = runs.held[name]
             \/ AllTell(runs'.held[name], Effects')
  BY <1>2, <1>3
<1>4. AnswerTells'
  BY DEF AnswerTells
<1>5. NamedOnce(Effects') /\ Grows(Effects, Effects')
  BY GrowsNot DEF DeviceStands
<1> QED
  BY <1>3, <1>4, <1>5, DeviceMoved

LEMMA TellsSame ==
  ASSUME NEW run, NEW next, NEW effects, AllTell(run, effects),
         next.records = run.records, next.segments = run.segments
  PROVE  AllTell(next, effects)
BY DEF AllTell

\* A journal with another end or another crash point.
LEMMA TellsMarked ==
  ASSUME NEW run, RunShape(run), NEW effects, AllTell(run, effects), NEW terminal, NEW crash
  PROVE  /\ AllTell([run EXCEPT !.terminal = terminal], effects)
         /\ AllTell([run EXCEPT !.crash = crash], effects)
<1> DEFINE ended == [run EXCEPT !.terminal = terminal]
           struck == [run EXCEPT !.crash = crash]
<1>1. ended.records = run.records /\ ended.segments = run.segments
  BY DEF RunShape
<1>2. struck.records = run.records /\ struck.segments = run.segments
  BY DEF RunShape
<1> HIDE DEF ended, struck
<1>3. AllTell(ended, effects) /\ AllTell(struck, effects)
  BY <1>1, <1>2, TellsSame
<1> QED
  BY <1>3 DEF ended, struck

\* A crash point fires over a journal that tells the truth.
LEMMA DeviceFires ==
  ASSUME DeviceStands, RunsStand, Drives, PortsShape(ports'), Effects' = Effects,
         NEW point, NEW run, Fires(point, run), RunShape(run), AllTell(run, Effects)
  PROVE  DeviceStands' /\ Grows(Effects, Effects')
<1> DEFINE kept == [run EXCEPT !.crash = NoCrash]
<1>1. AllTell(kept, Effects)
  BY TellsMarked
<1>2. Keeps(kept) /\ Driven' = Nothing
  BY DEF Fires, Down, Driven
<1> HIDE DEF kept
<1> QED
  BY <1>1, <1>2, DeviceLeft

\* What the device is known to have done for the run that is driven.
LEMMA HeldTells ==
  ASSUME DeviceStands, RunsStand, Drives
  PROVE  AllTell(Held, Effects) /\ RunShape(Held) /\ NestedShape(nested)
<1>1. nested.run \in DOMAIN runs.held /\ NestedShape(nested)
  BY DEF RunsStand, Drives, Idles, Driven
<1> QED
  BY <1>1 DEF DeviceStands, Held, RunsStand, RunStands

LEMMA DeviceReplayed ==
  ASSUME DeviceStands, RunsStand, ReplayInRun \/ RedeliverInRun \/ FaultInRun
  PROVE  DeviceStands' /\ Grows(Effects, Effects')
<1>1. Drives /\ UNCHANGED <<runs, ports>>
  BY DEF ReplayInRun, RedeliverInRun, FaultInRun, RunAsks
<1>2. AllTell(Held, Effects) /\ NestedShape(nested)
  BY <1>1, HeldTells
<1>3. Driven' # Nothing => Driven'.answer = Nothing
  <2>1. CASE ReplayInRun
    <3>1. CASE stage' = "driven"
      BY <3>1 DEF Driven
    <3>2. CASE stage' # "driven"
      <4>1. nested' = RunAfter(Held.records[nested.at + 2].answer, nested.at + 2)
        BY <2>1, <3>2 DEF ReplayInRun, Returns
      <4>2. nested'.answer = Nothing
        BY <1>2, <4>1, RunTaken
      <4> QED
        BY <4>2 DEF Driven
    <3> QED
      BY <3>1, <3>2
  <2>2. CASE RedeliverInRun
    <3>1. nested' = [nested EXCEPT !.at = @ + 1, !.handed = TRUE] /\ ~nested.handed
      BY <2>2 DEF RedeliverInRun, RunAsks
    <3>2. nested'.answer = nested.answer /\ nested.answer = Nothing
      BY <1>2, <3>1 DEF NestedShape
    <3> QED
      BY <3>2 DEF Driven
  <2>3. CASE FaultInRun
    BY <2>3 DEF FaultInRun, Produced, Driven
  <2> QED
    BY <2>1, <2>2, <2>3
<1>4. PortsShape(ports') /\ Effects' = Effects
  BY <1>1 DEF DeviceStands, Effects
<1> QED
  BY <1>1, <1>2, <1>3, <1>4, DeviceLeft

LEMMA DeviceScheduled ==
  ASSUME DeviceStands, RunsStand, ScheduleInRun
  PROVE  DeviceStands' /\ Grows(Effects, Effects')
<1>1. Drives /\ ~nested.handed /\ RunWant.op = "activity" /\ nested.at = Len(Held.records)
        /\ UNCHANGED ports
  BY DEF ScheduleInRun, RunAsks
<1>2. PICK f, p : p \in Nat /\ Standing(f, p)
  BY <1>1, DriveStands
<1>3. Len(Held.records) = 2 * p
  BY <1>1, <1>2 DEF Standing, NestedAt
<1>4. AllTell(Held, Effects) /\ RunShape(Held) /\ NestedShape(nested)
  BY <1>1, HeldTells
<1> DEFINE record == Scheduled(RunWant.request)
           records == Append(Held.records, record)
           run == [Held EXCEPT !.records = records]
<1>5. IsSeq(records) /\ Requested1(Held.records, records, p, record)
  BY <1>2, <1>3, <1>4, OneMore DEF RunShape
<1>6. IF Held.crash = AfterSchedule(RunWant.request)
      THEN Fires(AfterSchedule(RunWant.request), run)
      ELSE Keeps(run) /\ nested' = [nested EXCEPT !.at = @ + 1, !.handed = TRUE]
  BY <1>4 DEF ScheduleInRun, RunShape
<1>7. run.records = records /\ run.segments = Held.segments /\ RunShape(run)
  <2> HIDE DEF records
  <2>1. run = [segments |-> Held.segments, input |-> Held.input, records |-> records,
               terminal |-> Held.terminal, crash |-> Held.crash]
    BY <1>4 DEF RunShape
  <2> QED
    BY <1>5, <2>1 DEF RunShape
<1> HIDE DEF record, records, run
<1>8. AllTell(run, Effects)
  <2> SUFFICES ASSUME NEW q \in Nat, 2 * q + 2 =< Len(run.records)
               PROVE  Told(Last(run.segments).id, run.records[2 * q + 1].request,
                           run.records[2 * q + 2].answer, Effects)
    BY DEF AllTell
  <2>1. 2 * q + 2 =< Len(Held.records) /\ run.records[2 * q + 2] = Held.records[2 * q + 2]
    BY <1>5, <1>7 DEF Requested1
  <2>2. 2 * q + 1 =< Len(records) /\ q # p
    BY <1>2, <1>3, <1>5, <1>7, <2>1 DEF Requested1
  <2>3. run.records[2 * q + 1] = Held.records[2 * q + 1]
    BY <1>5, <1>7, <2>2 DEF Requested1
  <2> QED
    BY <1>4, <1>7, <2>1, <2>3 DEF AllTell
<1>9. PortsShape(ports') /\ Effects' = Effects
  BY <1>1 DEF DeviceStands, Effects
<1>10. CASE Held.crash = AfterSchedule(RunWant.request)
  BY <1>1, <1>6, <1>7, <1>8, <1>9, <1>10, DeviceFires
<1>11. CASE Held.crash # AfterSchedule(RunWant.request)
  <2>1. nested'.answer = Nothing
    BY <1>1, <1>4, <1>6, <1>11 DEF NestedShape
  <2>2. Driven' # Nothing => Driven'.answer = Nothing
    BY <2>1 DEF Driven
  <2> QED
    BY <1>1, <1>6, <1>8, <1>9, <1>11, <2>2, DeviceLeft
<1> QED
  BY <1>10, <1>11

LEMMA DeviceResolved ==
  ASSUME DeviceStands, RunsStand, ResolveInRun
  PROVE  DeviceStands' /\ Grows(Effects, Effects')
<1>1. Drives /\ nested.answer # Nothing /\ UNCHANGED ports
  BY DEF ResolveInRun, RunAnswers
<1>2. PICK f, p : p \in Nat /\ Standing(f, p)
  BY <1>1, DriveStands
<1>3. nested.handed /\ nested.work = f[p] /\ Len(Held.records) = 2 * p + 1
  BY <1>1, <1>2 DEF Standing, NestedAt, NestedShape
<1>4. AllTell(Held, Effects) /\ RunShape(Held) /\ NestedShape(nested)
  BY <1>1, HeldTells
<1> DEFINE point == AfterResolve(RunWant.request, nested.answer)
           record == Resolved(nested.answer)
           records == Append(Held.records, record)
           run == [Held EXCEPT !.records = records]
<1>5. IsSeq(records) /\ Answered1(Held.records, records, p, record)
  BY <1>2, <1>3, <1>4, OneMore DEF RunShape
<1>6. IF Held.crash = point THEN Fires(point, run)
      ELSE Keeps(run) /\ nested' = RunAfter(nested.answer, nested.at + 1)
  BY <1>4 DEF ResolveInRun, RunShape
<1>7. run.records = records /\ run.segments = Held.segments /\ RunShape(run)
  <2> HIDE DEF records
  <2>1. run = [segments |-> Held.segments, input |-> Held.input, records |-> records,
               terminal |-> Held.terminal, crash |-> Held.crash]
    BY <1>4 DEF RunShape
  <2> QED
    BY <1>5, <2>1 DEF RunShape
<1>8. record.answer = nested.answer
  BY DEF Resolved
<1>9. Held.records[2 * p + 1].request = RunWant.request
  <2>1. 2 * p + 1 =< Len(Held.records) /\ Follows(f, Held) /\ p \in Nat
    BY <1>2, <1>3 DEF Standing
  <2>2. RunIntends(f[p], Held.records[2 * p + 1])
    BY ONLY <2>1 DEF Follows
  <2> QED
    BY <1>3, <2>2 DEF RunIntends, RunWant, Scheduled
<1>10. Told(Last(Held.segments).id, RunWant.request, nested.answer, Effects)
  BY <1>1 DEF DeviceStands, AnswerTells, Driven, Drives, Idles, Held, RunWant
<1> HIDE DEF point, record, records, run
<1>11. AllTell(run, Effects)
  <2> SUFFICES ASSUME NEW q \in Nat, 2 * q + 2 =< Len(run.records)
               PROVE  Told(Last(run.segments).id, run.records[2 * q + 1].request,
                           run.records[2 * q + 2].answer, Effects)
    BY DEF AllTell
  <2>1. 2 * q + 1 =< Len(records)
    BY <1>2, <1>5, <1>7 DEF Answered1
  <2>2. run.records[2 * q + 1] = Held.records[2 * q + 1]
    BY <1>5, <1>7, <2>1 DEF Answered1
  <2>3. CASE q = p
    <3>1. run.records[2 * q + 2] = record
      BY <1>5, <1>7, <2>3 DEF Answered1
    <3> QED
      BY <1>7, <1>8, <1>9, <1>10, <2>2, <2>3, <3>1
  <2>4. CASE q # p
    <3>1. 2 * q + 2 =< Len(Held.records) /\ run.records[2 * q + 2] = Held.records[2 * q + 2]
      BY <1>5, <1>7, <2>4 DEF Answered1
    <3> QED
      BY <1>4, <1>7, <2>2, <3>1 DEF AllTell
  <2> QED
    BY <2>3, <2>4
<1>12. PortsShape(ports') /\ Effects' = Effects
  BY <1>1 DEF DeviceStands, Effects
<1>13. CASE Held.crash = point
  BY <1>1, <1>6, <1>7, <1>11, <1>12, <1>13, DeviceFires
<1>14. CASE Held.crash # point
  <2>1. nested'.answer = Nothing
    BY <1>4, <1>6, <1>14, RunTaken
  <2>2. Driven' # Nothing => Driven'.answer = Nothing
    BY <2>1 DEF Driven
  <2> QED
    BY <1>1, <1>6, <1>11, <1>12, <1>14, <2>2, DeviceLeft
<1> QED
  BY <1>13, <1>14

\* A lost decision is taken back from the model, and the device stays.
LEMMA DeviceLost ==
  ASSUME DeviceStands, RunsStand, LoseInRun
  PROVE  DeviceStands' /\ Grows(Effects, Effects')
<1>1. Drives /\ Fires(BeforeResolve(RunWant.request), Held)
        /\ ports' = [ports EXCEPT !.world = SaidAgain(BeforeResolve(RunWant.request))]
  BY DEF LoseInRun, RunAnswers
<1> DEFINE said == SaidAgain(BeforeResolve(RunWant.request))
<1>2. \/ said = ports.world
      \/ \E e : said = [ports.world EXCEPT !.emitted = e]
  <2>1. \/ said = ports.world
        \/ said = [ports.world EXCEPT !.emitted =
                     IF ports.world.emitted = 0 THEN 0 ELSE ports.world.emitted - 1]
    BY DEF SaidAgain, Unemitted, DeviceStands, PortsShape, WorldShape
  <2> QED
    BY <2>1
<1> HIDE DEF said
<1>3. WorldShape(said) /\ said.device = ports.world.device
  BY <1>2, WorldsShaped DEF DeviceStands, PortsShape
<1>4. ports' = [world |-> said, inbox |-> ports.inbox, delivered |-> ports.delivered,
                items |-> ports.items, goal |-> ports.goal]
  BY <1>1 DEF DeviceStands, PortsShape, said
<1>5. PortsShape(ports') /\ Effects' = Effects
  BY <1>3, <1>4 DEF PortsShape, Effects
<1> QED
  BY <1>1, <1>5, HeldTells, DeviceFires

LEMMA DeviceEnded ==
  ASSUME DeviceStands, RunsStand, ContinueRun \/ ConcludeRun
  PROVE  DeviceStands' /\ Grows(Effects, Effects')
<1>1. Drives /\ UNCHANGED ports
  BY DEF ContinueRun, ConcludeRun
<1>2. AllTell(Held, Effects) /\ RunShape(Held) /\ NestedShape(nested)
  BY <1>1, HeldTells
<1>3. PortsShape(ports') /\ Effects' = Effects
  BY <1>1 DEF DeviceStands, Effects
<1>4. CASE ContinueRun
  <2> DEFINE start == RunWant.start
             run == [Held EXCEPT !.records = <<>>, !.input = start,
                                 !.segments = Append(@, start.seed)]
  <2>1. Keeps(run)
    BY <1>4 DEF ContinueRun
  <2>2. run = Continued(Held, start, start.seed)
    BY DEF Continued
  <2> HIDE DEF run, start
  <2>3. run.records = <<>>
    BY <1>2, <2>2, RunContinued
  <2>4. AllTell(run, Effects)
    <3>1. Len(run.records) = 0
      BY <2>3
    <3> QED
      BY <3>1 DEF AllTell
  <2>5. Driven' # Nothing => Driven'.answer = Nothing
    BY <1>4 DEF ContinueRun, Returns, Produced, Started, Driven
  <2> QED
    BY <1>1, <1>3, <2>1, <2>4, <2>5, DeviceLeft
<1>5. CASE ConcludeRun
  <2> DEFINE end == <<RunWant.status>>
             run == [Held EXCEPT !.terminal = end]
  <2>1. AllTell(run, Effects) /\ RunShape(run)
    <3> HIDE DEF end
    <3>1. run = [segments |-> Held.segments, input |-> Held.input,
                 records |-> Held.records, terminal |-> end, crash |-> Held.crash]
      BY <1>2 DEF RunShape
    <3>2. AllTell(run, Effects)
      BY <1>2, TellsMarked
    <3> HIDE DEF run
    <3> QED
      BY <1>2, <3>1, <3>2 DEF RunShape
  <2>2. \/ UNCHANGED runs /\ nested' = Nothing
        \/ Fires("BeforeTerminalCommit", Held)
        \/ Fires("AfterTerminalCommit", run)
        \/ Keeps(run) /\ nested' = Nothing
    BY <1>5 DEF ConcludeRun, Produced
  <2> HIDE DEF run
  <2>3. CASE UNCHANGED runs /\ nested' = Nothing
    BY <1>1, <1>2, <1>3, <2>3, DeviceLeft DEF Driven
  <2>4. CASE Fires("BeforeTerminalCommit", Held)
    BY <1>1, <1>2, <1>3, <2>4, DeviceFires
  <2>5. CASE Fires("AfterTerminalCommit", run)
    BY <1>1, <1>3, <2>1, <2>5, DeviceFires
  <2>6. CASE Keeps(run) /\ nested' = Nothing
    BY <1>1, <1>3, <2>1, <2>6, DeviceLeft DEF Driven
  <2> QED
    BY <2>2, <2>3, <2>4, <2>5, <2>6
<1> QED
  BY <1>4, <1>5

\* What a run asks for is performed once under its name, and answered so.
LEMMA DeviceDispatched ==
  ASSUME DeviceStands, RunsStand, DispatchInRun
  PROVE  DeviceStands' /\ Grows(Effects, Effects')
<1>1. Drives /\ UNCHANGED <<runs, stage>>
  BY DEF DispatchInRun
<1>2. NestedShape(nested) /\ stage = "up"
  BY <1>1, HeldTells DEF Drives, Idles
<1> DEFINE run == Last(Held.segments).id
           w == WorldOf(ports.goal)
           served == Served(w, run, RunWant.request)
           v == [served.world EXCEPT !.inputs = ports.world.inputs,
                                     !.taken = ports.world.taken]
           box == Put(ports.inbox, ports.goal, [inputs |-> served.world.inputs,
                                                taken |-> served.world.taken])
<1>3. ports' = [ports EXCEPT !.world = v, !.inbox = box]
  BY DEF DispatchInRun, DeviceStands, PortsShape
<1>4. WorldShape(w) /\ w.device = ports.world.device
  <2>1. \E e, f : w = [ports.world EXCEPT !.inputs = e, !.taken = f]
    BY DEF WorldOf
  <2>2. WorldShape(ports.world)
    BY DEF DeviceStands, PortsShape
  <2> HIDE DEF w
  <2> QED
    BY <2>1, <2>2, WorldsShaped
<1>5. IsServed(w, served, run, RunWant.request)
  <2>1. NamedOnce(w.device.effects)
    BY <1>4 DEF DeviceStands, Effects
  <2> HIDE DEF w
  <2> QED
    BY <1>4, <2>1, EachServed
<1>6. \/ nested' = Nothing
      \/ nested' = [nested EXCEPT !.answer = served.answer]
  BY DEF DispatchInRun, Produced
<1> HIDE DEF served, w, run
<1>7. WorldShape(v) /\ v.device = served.world.device
  <2>1. \E e, f : v = [served.world EXCEPT !.inputs = e, !.taken = f]
    OBVIOUS
  <2>2. WorldShape(served.world)
    BY <1>5 DEF IsServed
  <2> HIDE DEF v
  <2> QED
    BY <2>1, <2>2, WorldsShaped
<1> HIDE DEF v, box
<1>8. ports' = [world |-> v, inbox |-> box, delivered |-> ports.delivered,
                items |-> ports.items, goal |-> ports.goal]
  BY <1>3 DEF DeviceStands, PortsShape
<1>9. PortsShape(ports') /\ Effects' = served.world.device.effects
  BY <1>7, <1>8 DEF PortsShape, Effects
<1>10. NamedOnce(Effects') /\ Grows(Effects, Effects')
         /\ Told(run, RunWant.request, served.answer, Effects')
  BY <1>4, <1>5, <1>9 DEF IsServed, Effects
<1>11. AnswerTells'
  <2>1. CASE nested' = Nothing
    BY <2>1 DEF AnswerTells, Driven
  <2>2. CASE nested' = [nested EXCEPT !.answer = served.answer]
    <3>1. nested' = [run |-> nested.run, at |-> nested.at, work |-> nested.work,
                     handed |-> nested.handed, answer |-> served.answer,
                     segments |-> nested.segments]
      BY <1>2, <2>2 DEF NestedShape
    <3>2. Driven' = nested'
      BY <1>1, <1>2 DEF Driven
    <3>3. run = Last(runs.held[nested.run].segments).id
      BY DEF run, Held
    <3> QED
      BY <1>1, <1>10, <3>1, <3>2, <3>3 DEF AnswerTells, RunWant
  <2> QED
    BY <1>6, <2>1, <2>2
<1> QED
  BY <1>1, <1>9, <1>10, <1>11, DeviceMoved

\* A drive's world is new when it begins.
Fresh(w) == w = NewWorld(w.lines, w.faults, w.inputs, w.stuck)

LEMMA DeviceInit ==
  ASSUME \A s \in Scenes : Fresh(s.world), Init
  PROVE  DeviceStands
<1> DEFINE w == scene.world
<1>1. scene \in Scenes /\ ports = NewPorts(w) /\ Fresh(w)
  BY DEF Init
<1>2. ports = [world |-> w, inbox |-> ports.inbox, delivered |-> ports.delivered,
               items |-> ports.items, goal |-> ports.goal]
  BY <1>1 DEF NewPorts
<1>3. /\ w.device = NewDevice
      /\ w = [lines |-> w.lines, emitted |-> w.emitted, faults |-> w.faults,
              inputs |-> w.inputs, taken |-> w.taken, stuck |-> w.stuck,
              device |-> w.device, store |-> w.store]
  <2> HIDE DEF w
  <2> QED
    BY <1>1 DEF Fresh, NewWorld
<1>4. DeviceShape(w.device) /\ w.device.effects = <<>>
  <2> DEFINE level == [pin \in 0..(PinCount - 1) |-> Low]
             effects == <<>>
  <2> HIDE DEF w
  <2>1. w.device = [level |-> level, clock |-> 0, effects |-> effects, ledger |-> <<>>]
    BY <1>3 DEF NewDevice
  <2> HIDE DEF level, effects
  <2>2. IsSeq(effects)
    BY NoneIsSeq DEF effects
  <2>3. DeviceShape(w.device) /\ w.device.effects = effects
    BY <2>1, <2>2 DEF DeviceShape
  <2> QED
    BY <2>3 DEF effects
<1> HIDE DEF w
<1>5. PortsShape(ports) /\ Effects = <<>>
  BY <1>2, <1>3, <1>4 DEF PortsShape, WorldShape, Effects
<1>6. NamedOnce(Effects)
  BY <1>5 DEF NamedOnce
<1>7. AnswerTells /\ DOMAIN runs.held = {}
  BY DEF Init, AnswerTells, Driven
<1> QED
  BY <1>5, <1>6, <1>7 DEF DeviceStands

LEMMA DeviceStep ==
  ASSUME DeviceStands, JournalsStand, [Next]_avars
  PROVE  DeviceStands' /\ Grows(Effects, Effects')
<1>0. RunsStand /\ ~DivergeInRun
  BY NeverDivergesInRun DEF JournalsStand
<1>1. CASE Supervising
  BY <1>0, <1>1, DeviceSupervised
<1>2. CASE Sense \/ Store \/ Load \/ SelectRun
  BY <1>2, DevicePorts
<1>3. CASE ReplayInRun \/ RedeliverInRun \/ FaultInRun
  BY <1>0, <1>3, DeviceReplayed
<1>4. CASE ScheduleInRun
  BY <1>0, <1>4, DeviceScheduled
<1>5. CASE DispatchInRun
  BY <1>0, <1>5, DeviceDispatched
<1>6. CASE LoseInRun
  BY <1>0, <1>6, DeviceLost
<1>7. CASE ResolveInRun
  BY <1>0, <1>7, DeviceResolved
<1>8. CASE ContinueRun \/ ConcludeRun
  BY <1>0, <1>8, DeviceEnded
<1>9. CASE UNCHANGED avars
  <2>1. UNCHANGED <<runs, ports, nested, stage>>
    BY <1>9 DEF avars, device
  <2>2. UNCHANGED Effects /\ UNCHANGED Driven
    BY <2>1 DEF Effects, Driven
  <2>3. AnswerTells' /\ PortsShape(ports') /\ NamedOnce(Effects') /\ Grows(Effects, Effects')
    BY <2>1, <2>2, GrowsNot DEF DeviceStands, AnswerTells
  <2> QED
    BY <2>1, <2>3, DeviceMoved
<1> QED
  BY <1>0, <1>1, <1>2, <1>3, <1>4, <1>5, <1>6, <1>7, <1>8, <1>9 DEF Next, Serving

----------------------------------------------------------------------------

\* However often a reset of the supervisor or a crash in a run has a call handed on
\* again, the device performs it once, and all the journals agree with it on what
\* came of it (Device::dispatch of world.rs, under the drives of agent/host.rs).
THEOREM SupervisedCallsArePerformedOnce ==
  ASSUME \A s \in Scenes : Fresh(s.world)
  PROVE  Spec => []JournalsTellTheDevice
<1>1. Init => DeviceStands
  BY DeviceInit
<1>2. DeviceStands /\ JournalsStand /\ [Next]_avars => DeviceStands'
  BY DeviceStep
<1>3. DeviceStands => JournalsTellTheDevice
  <2>1. ASSUME NEW name \in DOMAIN runs.held, AllTell(runs.held[name], Effects)
        PROVE  Tells(runs.held[name], Effects)
    BY <2>1 DEF AllTell, Tells
  <2> QED
    BY <2>1 DEF DeviceStands, JournalsTellTheDevice
<1> QED
  BY <1>1, <1>2, <1>3, JournalsAreRuns, PTL DEF Spec

EffectsStay == Grows(Effects, Effects')

\* What the device has done stays done: no boot, reset or crash takes an effect
\* back or tells it otherwise.
THEOREM EffectsAreNeverUndone ==
  ASSUME \A s \in Scenes : Fresh(s.world)
  PROVE  Spec => [][EffectsStay]_avars
<1>1. Init => DeviceStands
  BY DeviceInit
<1>2. DeviceStands /\ JournalsStand /\ [Next]_avars => DeviceStands'
  BY DeviceStep
<1>3. DeviceStands /\ JournalsStand /\ [Next]_avars => [EffectsStay]_avars
  BY DeviceStep DEF EffectsStay
<1> QED
  BY <1>1, <1>2, <1>3, JournalsAreRuns, PTL DEF Spec

============================================================================
