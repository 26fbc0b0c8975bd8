------------------------------ MODULE Records ------------------------------
(***************************************************************************)
(* What must hold of every record (AgentRecords and RunRecords): what was  *)
(* written is read again, within the size declared for it, and from        *)
(* nothing less than all of it.  The records looked at have every option   *)
(* there and not, every text empty and full, every integer at its bounds   *)
(* or apart from the others next to it.                                    *)
(***************************************************************************)
EXTENDS RunRecords

Blob(size, text) == IF size = 0 THEN Empty ELSE [size |-> size, text |-> text]
Options(S) == {<<>>} \cup {<<some>> : some \in S}
None == [type |-> "None", value |-> 0]
Number(value) == [type |-> "Some", value |-> value]

Listed(count) ==
  [read_pins |-> [size |-> 8, text |-> <<0, 1, 2, 3, 4, 5, 6, 7>>], read_count |-> count,
   write_pins |-> [size |-> 8, text |-> <<7, 2, 0, 0, 0, 0, 0, 9>>], write_count |-> 2,
   sensors |-> [size |-> 4, text |-> <<3, 1, 0, 0>>], sensor_count |-> 1,
   allow_timer |-> count = 0, allow_status |-> count # 0]
SomeCapabilities == {Listed(0), Listed(8)}

LongNote == Blob(NOTE_MAX, "long")
SomeNotes == {Blob(0, ""), Blob(5, "note"), LongNote}
SomeCadences ==
  {[type |-> "Once", span |-> 0], [type |-> "Every", span |-> 1],
   [type |-> "Every", span |-> 77]}
SomeEnvelopes ==
  {[per_run_turns |-> 3, per_run_mutations |-> 1, turns |-> 40, mutations |-> 65537,
    runs |-> 65535]}

SomeGoalCommands ==
  [type : {"AddGoal"}, objective : {LongNote}, priority : {255}, cadence : SomeCadences,
   envelope : SomeEnvelopes, capabilities : SomeCapabilities]
SomeCommands ==
  [type : {"Control"}, goal : {1, 65535}, event : OperatorEvents]
    \cup [type : {"Forget"}, name_digest : {0, 11}]

LongestCommand ==
  [type |-> "Remember", name_digest |-> 11, label |-> Blob(NOTE_MAX, "name"),
   value |-> Blob(NOTE_MAX, "value")]

SomeSenses ==
  {[now |-> 90, ready |-> <<>>, commands |-> <<command>>] : command \in SomeGoalCommands}
    \cup {[now |-> 0, ready |-> <<[goal |-> 7]>>, commands |-> <<command, LongestCommand>>] :
            command \in SomeCommands}
    \cup {[now |-> 1, ready |-> [n \in 1..MAX_GOALS |-> [goal |-> n]],
           commands |-> [n \in 1..MAX_COMMANDS |-> LongestCommand]]}

SomeSpawns ==
  [type : {"Spawn"}, goal : {3}, id : {196609}, model_turns : {1}, mutations : {0, 4},
   input_tokens : {4000}, output_tokens : {1000}, elapsed_ms : {60000},
   capabilities : SomeCapabilities, workflow_version : {WORKFLOW_VERSION},
   model_bundle : {0, 5}, max_prompt_bytes : {1, 1536}, max_output_bytes : {256},
   context_budget_bytes : {None, Number(0), Number(900)},
   brief : {Blob(6, "brief"), Blob(BRIEF_CAP, "brief")}]
SomeResumes == [type : {"Resume"}, goal : {1, 65535}, run : {0, 8}]

SomeReports ==
  {[type |-> "Parked"]} \cup
  [type : {"Settled"}, status : TerminalCodes, refund_turns : {0, 65535},
   refund_mutations : {2}, harvest : {0, 255}]

Status(busy) == IF busy THEN 2 ELSE 0
SomeGoals ==
  {[type |-> "Goal", id |-> 65535, objective |-> note, priority |-> 9,
    cadence |-> cadence, envelope |-> [per_run_turns |-> 3, per_run_mutations |-> 1,
      turns |-> 40, mutations |-> 6, runs |-> 5],
    remaining |-> [turns |-> 0, mutations |-> 2, runs |-> 4],
    reserved |-> [turns |-> 1, mutations |-> 0], capabilities |-> caps,
    status |-> Status(busy), next_due |-> 12, failures |-> 255, runs_started |-> 13,
    last_status |-> last, waiting_since |-> 14,
    run |-> IF busy THEN Number(0) ELSE None] :
     note \in {LongNote}, cadence \in SomeCadences, caps \in SomeCapabilities,
     busy \in BOOLEAN, last \in {0, 8, NeverEnded}}

SomeKeys ==
  {[type |-> "Observation", tool |-> 4, args_digest |-> 21],
   [type |-> "Outcome", goal |-> 65535], [type |-> "Note", name_digest |-> 22]}
SomeEntries ==
  [key : SomeKeys, label : SomeNotes, value : {LongNote}, goal : {0, 3},
   run : {None, Number(0), Number(9)}, beat : {31}, stamp : {32}]
SomeHarvest ==
  [key : {key \in SomeKeys : key.type # "Note"}, label : {LongNote}, value : SomeNotes,
   goal : {3}, run : {Number(9)}, beat : {31}, stamp : {0}]
SomeItems ==
  SomeGoals \cup {entry @@ [type |-> "Entry"] : entry \in SomeEntries}

SomeHeaders ==
  [version : {CHECKPOINT_VERSION}, last_beat : {1}, spawn_seq : {2}, next_deadline : {3},
   next_goal_id : {0, 65535}, next_stamp : {4}, goals : {0, MAX_GOALS},
   entries : {0, MAX_MEMORY}, digest : {Blob(8, "digest")}]

GoalOf(n, goal) == [goal EXCEPT !.id = n]
EntryOf(n, entry) == [entry EXCEPT !.key = [type |-> "Observation", tool |-> 4, args_digest |-> n],
                                !.stamp = n]
State(goals, entries) ==
  [ok |-> TRUE, last_beat |-> 1, spawn_seq |-> 2, next_deadline |-> 3,
   next_goal_id |-> MAX_GOALS + 1, next_stamp |-> MAX_MEMORY + 1, goals |-> goals,
   entries |-> entries]
OneGoal == CHOOSE goal \in SomeGoals : goal.status = 2
OneEntry == CHOOSE item \in SomeItems : item.type = "Entry"
SomeStates ==
  {State([n \in 1..goals |-> GoalOf(n, OneGoal)],
         [n \in 1..entries |-> EntryOf(n, OneEntry)]) : goals, entries \in {0, 2}}
LargestState ==
  State([n \in 1..MAX_GOALS |-> GoalOf(n, OneGoal)],
        [n \in 1..MAX_MEMORY |-> EntryOf(n, OneEntry)])

SomeInferRequests ==
  [max_prompt_bytes : {1024}, max_output_bytes : {256}, turns_left : {10},
   mutations_left : {65535},
   last_observation : Options({[bytes |-> Blob(size, "seen")] :
                                 size \in {0, LAST_OBSERVATION_CAP}}),
   repair : Options([attempt : {1}, variant : RepairCodes]),
   prior : Options([epoch : {2}, failed_paths : {3}, pending : {4}, facts : {255}]),
   brief : Options({[bytes |-> Blob(size, "brief")] : size \in {6, BRIEF_CAP}})]
SomeInferred ==
  [line : {Blob(0, ""), Blob(OUTPUT_CAP, "line")}, input_tokens : {1},
   output_tokens : {2}, prompt_bytes : {3}]
SomeToolRequests ==
  [seq : {0, 8}, attempt : {1, 3}, tool : {5}, write : BOOLEAN, digest : {41},
   args : {Blob(0, ""), Blob(OUTPUT_CAP, "args")}]
SomeObserved ==
  {[transient |-> TRUE, secret_digest |-> 0, outcome |-> Empty]} \cup
  [transient : {FALSE}, secret_digest : {0, 42},
   outcome : {Blob(0, ""), Blob(MAX_OUTCOME, "outcome")}]
SomeVerifyRequests ==
  [seq : {9}, check : [type : {"Pin"}, pin : 0..7, high : BOOLEAN]
                        \cup [type : {"Clock"}, target_ms : {0, 263}]]
SomeTerminals ==
  [status : TerminalCodes, reason : {Blob(0, ""), Blob(MAX_REASON, "reason")},
   summary : {Blob(0, ""), Blob(OUTPUT_CAP, "summary")}]

SomeLineages ==
  {[parent_run |-> 51, continued_at_frame |-> 52, model_turns |-> 53, input_tokens |-> 54,
    output_tokens |-> 55, elapsed_ms |-> 56, radio_bytes |-> 57, mutations |-> 58,
    consecutive_errors |-> 59, workflow |-> 60, model |-> 61, catalog |-> 62, policy |-> 63]}

Values(S) == {[value |-> value] : value \in S}

SomeSeeds ==
  [id : {71}, elapsed_ms : {72}, input_tokens : {73}, output_tokens : {74},
   model_turns : {75}, mutations : {76}, workflow_version : {77},
   capabilities : {Listed(8)}, model_bundle : {78}, max_prompt_bytes : {79},
   max_output_bytes : {80}, parent : Options(SomeLineages),
   context_budget_bytes : Options(Values({0, 81})), brief_digest : {<<>>}]
SomeChildren == {Child(seed, lineage) : seed \in SomeSeeds, lineage \in SomeLineages}

SomeBriefs == Options({[bytes |-> Blob(size, "brief")] : size \in {6, BRIEF_CAP}})
SomeStarts ==
  {[seed |-> [seed EXCEPT !.brief_digest =
                [n \in DOMAIN brief |-> [value |-> DigestOf(brief[n].bytes)]]],
    brief |-> brief, snapshot |-> fold] :
     seed \in SomeSeeds \cup SomeChildren, brief \in SomeBriefs,
     fold \in Options([digest : {91}, len : {65535}, harvest : {255}])}

Full(size, item) == [n \in 1..size |-> item]
Snapshot(notes, facts, failed, pending, prints) ==
  [version |-> SNAPSHOT_VERSION, objective_digest |-> 1, model_turns |-> 2,
   input_tokens |-> 3, output_tokens |-> 4, elapsed_ms |-> 5, radio_bytes |-> 6,
   mutations |-> 7, consecutive_errors |-> 8, workflow |-> 9, model |-> 10,
   catalog |-> 11, policy |-> 12, completed |-> notes, open |-> notes,
   accepted |-> [n \in DOMAIN notes |-> [digest |-> n]], facts |-> facts,
   failed |-> failed, pending |-> pending, fingerprints |-> prints]
LargestSnapshot ==
  Snapshot(Full(MAX_COMPLETED, [note |-> LongNote]),
    [n \in 1..MAX_FACTS |-> [note |-> LongNote, source_seq |-> n]],
    [n \in 1..MAX_FAILED_PATHS |-> [tool |-> n, args_digest |-> 1, error |-> 10]],
    [n \in 1..MAX_PENDING |-> [kind |-> n % 2, seq |-> n, digest |-> 1]],
    Full(MAX_FINGERPRINTS, [digest |-> 5]))
SomeSnapshots ==
  {Snapshot(<<>>, <<>>, <<>>, <<>>, <<>>), LargestSnapshot,
   Snapshot(<<[note |-> Empty]>>, <<[note |-> LongNote, source_seq |-> 1]>>, <<>>,
            <<[kind |-> 0, seq |-> 3, digest |-> 4], [kind |-> 1, seq |-> 3, digest |-> 4]>>,
            <<[digest |-> 0], [digest |-> 0]>>)}

----------------------------------------------------------------------------

\* Between two cells, and inside of each.
CutPoints(page) ==
  LET starts == {Width(SubSeq(page, 1, n)) : n \in 0..(Len(page) - 1)}
  IN {at \in starts \cup {start + 1 : start \in starts} : at < Width(page)}

\* What was written is read again.
Read(Samples, Put(_), Decode(_)) ==
  \A record \in Samples : Decode(Put(record)) = <<record>>

\* And fits in what is declared for it, and so in the page.
ReadsBack(Samples, Put(_), Decode(_), max) ==
  /\ max <= PAGE_RECORD_MAX
  /\ \A record \in Samples : Width(Put(record)) <= max
  /\ Read(Samples, Put, Decode)

\* Nothing is read from a page that was cut.
WholeOnly(Samples, Put(_), Decode(_)) ==
  \A record \in Samples : \A bytes \in CutPoints(Put(record)) :
    Decode(Cut(Put(record), bytes)) = <<>>

Whole(Samples, Put(_), Decode(_), max) ==
  ReadsBack(Samples, Put, Decode, max) /\ WholeOnly(Samples, Put, Decode)

\* The page with one integer put out of place.
Altered(page) ==
  {[page EXCEPT ![n].value = value] :
     n \in {m \in DOMAIN page : ~page[m].raw}, value \in {0, 1, 2, 8, 255}}
    \cup {[page EXCEPT ![n].value = 519] :
     n \in {m \in DOMAIN page : ~page[m].raw /\ page[m].width = 8}}

\* A page that is read is the one that is written for what was read.
OnePage(Samples, Put(_), Decode(_)) ==
  \A record \in Samples : \A page \in Altered(Put(record)) :
    \A n \in DOMAIN Decode(page) : Put(Decode(page)[n]) = page

\* The seed's block with one integer in it put out of place.
AlteredStarts(start) ==
  LET page == PutRunStart(start)
      block == page[1].value.text
  IN {[page EXCEPT ![1].value.text[place].value = value] :
        place \in {at \in DOMAIN block : ~block[at].raw}, value \in {0, 1, 2}}

(* What a record's writer wrote its reader reads again, field by field,    *)
(* within the size declared for the record and so within the page, at      *)
(* every bound; and a record cut anywhere is refused, but for those that   *)
(* end in as many bytes as there are.  A record that could be written and  *)
(* not read would be found out by the boot after the effect was performed. *)
RecordsHold ==
  /\ Whole(SomeSenses, PutSense, DecodeSense, MAX_SENSE_BYTES)
  /\ Whole(SomeSpawns, PutRunRequest, DecodeRunRequest, MAX_RUN_REQUEST_BYTES)
  /\ Whole(SomeResumes, PutRunRequest, DecodeRunRequest, MAX_RUN_REQUEST_BYTES)
  /\ Whole(SomeReports, PutRunReport, DecodeRunReport, MAX_RUN_REPORT_BYTES)
  /\ Whole(SomeItems, PutItem, DecodeItem, MAX_ITEM_BYTES)
  /\ Whole(SomeHeaders, PutHeader, DecodeHeader, HEADER_BYTES)
  /\ Read(SomeStates \cup {LargestState}, PutBlob, DecodeBlob)
  /\ WholeOnly(SomeStates, PutBlob, DecodeBlob)
  /\ Width(PutBlob(LargestState)) <= MAX_CHECKPOINT_BYTES
  /\ Whole(SomeHarvest, PutEntry, DecodeHarvestEntry, MAX_ENTRY_BYTES)
  /\ Whole([run : {0, 9}, index : Byte], PutHarvestQuery, ReadHarvestQuery,
           HARVEST_QUERY_BYTES)
  /\ ReadsBack([digest : {6}, index : {0, 65535},
                item : {Blob(size, "item") : size \in {0, 1, MAX_ITEM_BYTES}}],
               PutStored, ReadItemKey, MAX_STORE_BYTES)
  /\ ReadsBack([item : {Blob(size, "item") : size \in {0, 1, MAX_ITEM_BYTES}}],
               PutStoredItem, DecodeStoredItem, PAGE_RECORD_MAX)
  /\ Read({[name \in {} |-> 0]}, PutAck, DecodeAck)
  /\ Whole({[name |-> Fault[code]] : code \in DOMAIN Fault}, PutFault, FaultFromPayload, 1)
  /\ Whole(SomeInferRequests, PutInferRequest, DecodeInferRequest, MAX_INFER_REQUEST_BYTES)
  /\ Whole(SomeInferred, PutInferred, DecodeInferred, MAX_INFERRED_BYTES)
  /\ Whole([output : BOOLEAN], PutProbed, DecodeProbed, 1)
  /\ Whole(SomeToolRequests, PutToolRequest, DecodeToolRequest, MAX_TOOL_REQUEST_BYTES)
  /\ Whole(SomeObserved, PutObserved, DecodeObserved, MAX_OBSERVED_BYTES)
  /\ Whole(SomeVerifyRequests, PutVerifyRequest, DecodeVerifyRequest,
           MAX_VERIFY_REQUEST_BYTES)
  /\ Whole([observed : {0, 1, 263}], PutVerified, DecodeVerified, 8)
  /\ Whole([schema : {0, 2}, prompt : {Blob(0, ""), Blob(OUTPUT_CAP, "prompt")}],
           PutAskRequest, DecodeAskRequest, MAX_ASK_REQUEST_BYTES)
  /\ Whole([bytes : {Blob(0, ""), Blob(MAX_ASK_INPUT, "input")}],
           PutAskInput, DecodeAskInput, 2 + MAX_ASK_INPUT)
  /\ Whole(SomeTerminals, PutTerminal, DecodeTerminal, MAX_TERMINAL_BYTES)
  /\ ReadsBack([digest : {6}, index : {0, 255},
                bytes : {Blob(size, "chunk") : size \in {0, 1, SNAPSHOT_CHUNK}}],
               PutChunk, ReadSnapshotKey, SNAPSHOT_KEY_BYTES + SNAPSHOT_CHUNK)
  /\ ReadsBack([bytes : {Blob(size, "chunk") : size \in {0, 1, SNAPSHOT_CHUNK}}],
               PutChunkBytes, DecodeChunk, PAGE_RECORD_MAX)
  /\ MAX_ENTRY_BYTES <= SNAPSHOT_CHUNK
  /\ Chunks(Width(PutSnapshot(LargestSnapshot))) <= HARVEST_ITEM_BASE
  /\ Whole(SomeStarts, PutRunStart, DecodeRunStart, MAX_RUN_START_BYTES)
  /\ \A start \in SomeStarts : Tiled(InputBytes(start.seed))
  /\ Read(SomeSnapshots, PutSnapshot, DecodeSnapshot)
  /\ WholeOnly(SomeSnapshots, PutSnapshot, DecodeSnapshot)

\* The items of a checkpoint, one of them missing, twice there, or another's.
OtherItems(items) ==
  {Remove(items, item) : item \in ToSet(items)}
    \cup {Append(items, item) : item \in ToSet(items)}
    \cup {[items EXCEPT ![n] = items[m]] : <<n, m>> \in
             {pair \in (DOMAIN items) \X (DOMAIN items) : pair[1] # pair[2]}}
    \cup ({[n \in DOMAIN items |-> items[Len(items) + 1 - n]]} \ {items})

\* A header restores no items but those it was made for.
ItsItemsOnly(States, Header(_), Restore(_, _)) ==
  \A held \in States : \A items \in OtherItems(ItemsOf(held)) :
    Restore(Header(held), items) = <<>>

(* Two pages do not stand for one record: a page that is read although one *)
(* of its integers is not what was written is the page of the record that  *)
(* is read from it.  Requests are compared by their bytes when a boot is   *)
(* replayed, and a seed is the run's identity.  A SENSE answer is not held *)
(* to it: a goal listed twice is ready once.                               *)
OnePageEach ==
  /\ OnePage(SomeSpawns, PutRunRequest, DecodeRunRequest)
  /\ OnePage(SomeResumes, PutRunRequest, DecodeRunRequest)
  /\ OnePage(SomeReports, PutRunReport, DecodeRunReport)
  /\ OnePage(SomeItems, PutItem, DecodeItem)
  /\ OnePage(SomeStates, PutBlob, DecodeBlob)
  /\ ItsItemsOnly(SomeStates, HeaderOf, Restored)
  /\ OnePage(SomeInferRequests, PutInferRequest, DecodeInferRequest)
  /\ OnePage(SomeToolRequests, PutToolRequest, DecodeToolRequest)
  /\ OnePage(SomeObserved, PutObserved, DecodeObserved)
  /\ OnePage(SomeVerifyRequests, PutVerifyRequest, DecodeVerifyRequest)
  /\ OnePage(SomeTerminals, PutTerminal, DecodeTerminal)
  /\ OnePage(SomeSnapshots, PutSnapshot, DecodeSnapshot)
  /\ \A start \in SomeStarts : \A page \in AlteredStarts(start) :
       \A n \in DOMAIN DecodeRunStart(page) : PutRunStart(DecodeRunStart(page)[n]) = page
=============================================================================
