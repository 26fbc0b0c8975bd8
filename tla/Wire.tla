-------------------------------- MODULE Wire --------------------------------
(***************************************************************************)
(* Pages of records (esper-runtime agent/wire.rs Writer and Reader; the    *)
(* Sink and Readers of esper-core checkpoint.rs and snapshot.rs are theirs *)
(* again).  A page is what its writer put, cell after cell: an integer of  *)
(* so many bytes, or that many bytes of a text.  A text is its size and    *)
(* what tells it apart.  A reader asks for fields: it takes the next bytes *)
(* in the width it expects and refuses what it does not admit.  A page     *)
(* whose cells do not lie where the reader looks is refused here.          *)
(***************************************************************************)
EXTENDS Naturals, Sequences, SequencesExt, TLC

Byte == 0..255
Short == 0..65535
Wide == Nat         \* u32 and u64: no record computes with them

----------------------------------------------------------------------------
(* Writing.                                                                *)

Cell(width, value) == <<[width |-> width, raw |-> FALSE, value |-> value]>>
U8(value) == Cell(1, value)
U16(value) == Cell(2, value)
U32(value) == Cell(4, value)
U64(value) == Cell(8, value)
PutFlag(flag) == U8(IF flag THEN 1 ELSE 0)

PutRaw(text) ==
  IF text.size = 0 THEN <<>>
  ELSE <<[width |-> text.size, raw |-> TRUE, value |-> text]>>
PutNote(note) == U8(note.size) \o PutRaw(note)
PutLong(text) == U16(text.size) \o PutRaw(text)

\* An option is a sequence of at most one.
PutOption(option, Put(_)) ==
  PutFlag(option # <<>>) \o (IF option = <<>> THEN <<>> ELSE Put(option[1]))

RECURSIVE Joined(_)
Joined(pages) == IF pages = <<>> THEN <<>> ELSE Head(pages) \o Joined(Tail(pages))

PutEach(items, Put(_)) == Joined([n \in DOMAIN items |-> Put(items[n])])
PutList(items, Put(_)) == U8(Len(items)) \o PutEach(items, Put)

PutCapabilities(caps) ==
  PutRaw(caps.read_pins) \o U8(caps.read_count)
    \o PutRaw(caps.write_pins) \o U8(caps.write_count)
    \o PutRaw(caps.sensors) \o U8(caps.sensor_count)
    \o PutFlag(caps.allow_timer) \o PutFlag(caps.allow_status)

\* A checksum over all that is before it stands for that.
Checksum(page) == [size |-> 8, text |-> page]
Sealed(page) == page \o PutRaw(Checksum(page))

Sound(page) ==
  page # <<>> /\ Last(page).raw /\ Last(page).width = 8
    /\ Last(page).value = Checksum(Front(page))

RECURSIVE Width(_)
Width(page) == IF page = <<>> THEN 0 ELSE Head(page).width + Width(Tail(page))

\* The first bytes of a page; what is left of the cell they end in is torn.
RECURSIVE Cut(_, _)
Cut(page, bytes) ==
  CASE bytes = 0 -> <<>>
    [] bytes > 0 /\ bytes < Head(page).width -> <<[Head(page) EXCEPT !.width = bytes]>>
    [] OTHER -> <<Head(page)>> \o Cut(Tail(page), bytes - Head(page).width)

----------------------------------------------------------------------------
(* Reading.  A field's name is its place in the record that is read.       *)

Num(name, width, admitted) ==
  [kind |-> "num", name |-> name, width |-> width, admitted |-> admitted]
Flag(name) == [kind |-> "flag", name |-> name]
Array(name, size) == [kind |-> "array", name |-> name, size |-> size]
\* A length of so many bytes, then the text.
Text(name, width, cap) ==
  [kind |-> "text", name |-> name, width |-> width, cap |-> cap]
\* Whatever is left of the page.
Rest(name, cap) == [kind |-> "rest", name |-> name, cap |-> cap]
\* A count, then that many records of the fields.
List(name, cap, fields) ==
  [kind |-> "list", name |-> name, cap |-> cap, fields |-> fields]
Option(name, fields) == List(name, 1, fields)
Group(name, fields) == [kind |-> "group", name |-> name, fields |-> fields]
\* A tag, then the fields of its type.
Tagged(types) == [kind |-> "tagged", types |-> types]
Typed(type, fields) == [type |-> type, fields |-> fields]

Opened(page) == [ok |-> TRUE, page |-> page, record |-> [name \in {} |-> 0]]
Refused(reader) == [reader EXCEPT !.ok = FALSE]
With(reader, name, value, page) ==
  [ok |-> TRUE, page |-> page, record |-> (name :> value) @@ reader.record]

Lies(page, width, raw) ==
  page # <<>> /\ page[1].width = width /\ page[1].raw = raw

Empty == [size |-> 0, text |-> ""]

TakeNum(reader, name, width, admitted) ==
  IF Lies(reader.page, width, FALSE) /\ reader.page[1].value \in admitted
  THEN With(reader, name, reader.page[1].value, Tail(reader.page))
  ELSE Refused(reader)

TakeText(reader, name, size) ==
  CASE size = 0 -> With(reader, name, Empty, reader.page)
    [] size > 0 /\ Lies(reader.page, size, TRUE) ->
         With(reader, name, reader.page[1].value, Tail(reader.page))
    [] OTHER -> Refused(reader)

RECURSIVE TakeFields(_, _), TakeCount(_, _, _)

TakeFlag(reader, name) ==
  LET taken == TakeNum(reader, name, 1, {0, 1})
  IN IF taken.ok THEN [taken EXCEPT !.record[name] = (@ = 1)] ELSE taken

TakeSized(reader, field) ==
  LET sized == TakeNum(reader, field.name, field.width, 0..field.cap)
  IN IF sized.ok THEN TakeText(sized, field.name, sized.record[field.name]) ELSE sized

TakeRest(reader, field) ==
  CASE reader.page = <<>> -> With(reader, field.name, Empty, <<>>)
    [] Len(reader.page) = 1 /\ reader.page[1].raw /\ reader.page[1].width <= field.cap ->
         With(reader, field.name,
              [reader.page[1].value EXCEPT !.size = reader.page[1].width], <<>>)
    [] OTHER -> Refused(reader)

\* A record in a record.
TakeNested(reader, fields) ==
  TakeFields([reader EXCEPT !.record = [name \in {} |-> 0]], fields)

\* So many more records of a list.
TakeCount(reader, field, count) ==
  LET nested == TakeNested(reader, field.fields)
  IN CASE count = 0 -> reader
       [] count > 0 /\ nested.ok ->
            TakeCount(With(reader, field.name,
                           Append(reader.record[field.name], nested.record), nested.page),
                      field, count - 1)
       [] OTHER -> Refused(reader)

TakeList(reader, field) ==
  LET counted == TakeNum(reader, field.name, 1, 0..field.cap)
  IN IF counted.ok
     THEN TakeCount([counted EXCEPT !.record[field.name] = <<>>], field,
                    counted.record[field.name])
     ELSE counted

TakeGroup(reader, field) ==
  LET nested == TakeNested(reader, field.fields)
  IN IF nested.ok THEN With(reader, field.name, nested.record, nested.page)
     ELSE Refused(reader)

TakeTagged(reader, field) ==
  LET tagged == TakeNum(reader, "type", 1, DOMAIN field.types)
      chosen == field.types[tagged.record.type]
  IN IF tagged.ok
     THEN TakeFields([tagged EXCEPT !.record.type = chosen.type], chosen.fields)
     ELSE tagged

Take(reader, field) ==
  CASE field.kind = "num" -> TakeNum(reader, field.name, field.width, field.admitted)
    [] field.kind = "flag" -> TakeFlag(reader, field.name)
    [] field.kind = "array" -> TakeText(reader, field.name, field.size)
    [] field.kind = "text" -> TakeSized(reader, field)
    [] field.kind = "rest" -> TakeRest(reader, field)
    [] field.kind = "list" -> TakeList(reader, field)
    [] field.kind = "group" -> TakeGroup(reader, field)
    [] field.kind = "tagged" -> TakeTagged(reader, field)

TakeFields(reader, fields) ==
  IF fields = <<>> \/ ~reader.ok THEN reader
  ELSE TakeFields(Take(reader, Head(fields)), Tail(fields))

\* The record of a page, if it is read whole and nothing trails.
Decoded(page, fields) ==
  LET reader == TakeFields(Opened(page), fields)
  IN IF reader.ok /\ reader.page = <<>> THEN <<reader.record>> ELSE <<>>

\* Rules over several fields are kept after they are read.
Keeping(Rule(_), decoded) == SelectSeq(decoded, Rule)

NoteField(name) == Text(name, 1, 64)
GoalField(name) == Num(name, 2, 1..65535)

CapabilityFields ==
  <<Array("read_pins", 8), Num("read_count", 1, Byte),
    Array("write_pins", 8), Num("write_count", 1, Byte),
    Array("sensors", 4), Num("sensor_count", 1, Byte),
    Flag("allow_timer"), Flag("allow_status")>>

\* The array's text is its bytes.
ListsOnly(array, count, bound) ==
  count <= array.size /\ \A n \in 1..count : array.text[n] < bound

CapabilitiesHold(caps) ==
  /\ ListsOnly(caps.read_pins, caps.read_count, 8)
  /\ ListsOnly(caps.write_pins, caps.write_count, 8)
  /\ ListsOnly(caps.sensors, caps.sensor_count, 4)
=============================================================================
