----------------------------- MODULE LogProofs ------------------------------
(***************************************************************************)
(* Proofs about logs: no line of either writer breaks, and a log expands   *)
(* to the lines that were logged, up to where it is damaged.               *)
(***************************************************************************)
EXTENDS BinaryLog, LineProofs, FiniteSetTheorems

-----------------------------------------------------------------------------
(* No line breaks.                                                         *)

LEMMA TextEscaped ==
  /\ \A bytes : Escaped(Text("decode", bytes))
  /\ \A bytes \in Blob : Escaped(Text("encode", bytes))
  /\ \A bytes \in String : Escaped(Text("encode", bytes))
<1>1. \A bytes : Escaped(DecodedString(bytes)) BY EscapeIs DEF DecodedString, Escaped
<1>2. \A bytes : Escaped(Text("decode", bytes)) BY <1>1 DEF Text
<1> QED BY <1>2, SameText DEF String

(* The texts of an event, or of a span in its list.                        *)
FieldsEscaped(fields) ==
  \A i \in DOMAIN fields :
    /\ Escaped(fields[i].key)
    /\ fields[i].value.type = "string" => Escaped(fields[i].value.text)

PartEscaped(part) ==
  Escaped(part.target) /\ Escaped(part.name) /\ FieldsEscaped(part.fields)

LineEscaped(line) == \A text \in Texts(line) : Escaped(text)

LEMMA LineOfParts ==
  ASSUME NEW line, PartEscaped(line), \A span \in line.span : PartEscaped(span),
         \A spans \in line.spans : \A i \in DOMAIN spans : PartEscaped(spans[i])
  PROVE  LineEscaped(line)
<1> DEFINE parts == {line} \union line.span \union UNION {ToSet(spans) : spans \in line.spans}
           fields == UNION {ToSet(part.fields) : part \in parts}
<1>1. \A part \in parts : PartEscaped(part) BY DEF ToSet
<1>2. Texts(line) = {part.target : part \in parts} \union {part.name : part \in parts}
        \union {field.key : field \in fields}
        \union {field.value.text : field \in {f \in fields : f.value.type = "string"}}
  BY DEF Texts
<1>3. \A field \in fields : /\ Escaped(field.key)
                            /\ field.value.type = "string" => Escaped(field.value.text)
  <2> SUFFICES ASSUME NEW part \in parts, NEW field \in ToSet(part.fields)
               PROVE  /\ Escaped(field.key)
                      /\ field.value.type = "string" => Escaped(field.value.text)
    OBVIOUS
  <2>1. PICK i \in DOMAIN part.fields : field = part.fields[i] BY DEF ToSet
  <2> HIDE DEF parts
  <2> QED BY <1>1, <2>1 DEF PartEscaped, FieldsEscaped
<1>4. \A part \in parts : Escaped(part.target) /\ Escaped(part.name)
  BY <1>1 DEF PartEscaped
<1> HIDE DEF parts, fields
<1> QED BY <1>2, <1>3, <1>4 DEF LineEscaped

LEMMA FieldsOf ==
  ASSUME NEW writer, NEW fields,
         \A i \in DOMAIN fields : /\ Escaped(Text(writer, fields[i].name))
                                 /\ Escaped(Text(writer, fields[i].value.bytes))
  PROVE  FieldsEscaped(JsonFields(writer, fields))
<1> SUFFICES ASSUME NEW i \in DOMAIN JsonFields(writer, fields)
             PROVE  /\ Escaped(JsonFields(writer, fields)[i].key)
                    /\ JsonFields(writer, fields)[i].value.type = "string" =>
                         Escaped(JsonFields(writer, fields)[i].value.text)
  BY DEF FieldsEscaped
<1> DEFINE value == fields[i].value
<1>1. i \in DOMAIN fields BY DEF JsonFields
<1>2. JsonFields(writer, fields)[i] =
        [key |-> Text(writer, fields[i].name), value |-> JsonValue(writer, value)]
  BY <1>1 DEF JsonFields
<1>3. Escaped(Text(writer, fields[i].name)) /\ Escaped(Text(writer, value.bytes)) BY <1>1
<1> HIDE DEF value
<1>4. /\ JsonValue(writer, value).type = JsonType(value.kind)
      /\ JsonType(value.kind) = "string" =>
           JsonValue(writer, value).text = Text(writer, value.bytes)
  BY DEF JsonValue
<1> QED BY <1>2, <1>3, <1>4

LEMMA FieldsEither ==
  /\ \A fields : FieldsEscaped(JsonFields("decode", fields))
  /\ \A fields \in Seq(Field) : FieldsEscaped(JsonFields("encode", fields))
<1>1. \A fields : FieldsEscaped(JsonFields("decode", fields)) BY FieldsOf, TextEscaped
<1>2. ASSUME NEW fields \in Seq(Field)
      PROVE  FieldsEscaped(JsonFields("encode", fields))
  <2>1. ASSUME NEW i \in DOMAIN fields
        PROVE  /\ Escaped(Text("encode", fields[i].name))
               /\ Escaped(Text("encode", fields[i].value.bytes))
    <3>1. fields[i] \in Field OBVIOUS
    <3>2. fields[i].name \in String /\ fields[i].value \in Value BY <3>1 DEF Field
    <3>3. fields[i].value.bytes \in Blob BY <3>2 DEF Value
    <3> QED BY <3>2, <3>3, TextEscaped
  <2> QED BY <2>1, FieldsOf
<1> QED BY <1>1, <1>2

(* Spans of the list of an event, as recorded and as decoded.              *)
Recorded == [id : Nat, metadata_id : Nat, level : Levels, name : String, target : String,
             fields : Seq(Field)]

LEMMA SpanEither ==
  /\ \A span : PartEscaped(JsonSpan("decode", span))
  /\ \A span \in Recorded : PartEscaped(JsonSpan("encode", span))
<1>1. \A writer, span :
        /\ JsonSpan(writer, span).name = Text(writer, span.name)
        /\ JsonSpan(writer, span).target = Text(writer, span.target)
        /\ JsonSpan(writer, span).fields = JsonFields(writer, span.fields)
  BY DEF JsonSpan
<1>2. \A span \in Recorded :
        span.name \in String /\ span.target \in String /\ span.fields \in Seq(Field)
  BY DEF Recorded
<1> QED BY <1>1, <1>2, TextEscaped, FieldsEither DEF PartEscaped

LEMMA DecodedLineEscaped ==
  ASSUME NEW callsite, NEW r
  PROVE  LineEscaped(DecodedLine(callsite, r))
<1> DEFINE line == DecodedLine(callsite, r)
<1>1. /\ line.target = Text("decode", callsite.target)
      /\ line.name = Text("decode", callsite.name)
      /\ line.fields = JsonFields("decode", r.fields)
      /\ line.span = {JsonSpan("decode", s) : s \in r.current_span}
      /\ line.spans = IF r.spans = <<>> THEN {} ELSE {JsonSpans("decode", r.spans)}
  BY DEF DecodedLine
<1> HIDE DEF line
<1>2. PartEscaped(line) BY <1>1, TextEscaped, FieldsEither DEF PartEscaped
<1>3. \A span \in line.span : PartEscaped(span) BY <1>1, SpanEither
<1>4. \A spans \in line.spans : \A i \in DOMAIN spans : PartEscaped(spans[i])
  BY <1>1, SpanEither DEF JsonSpans
<1>5. LineEscaped(line) BY <1>2, <1>3, <1>4, LineOfParts
<1> QED BY <1>5 DEF line

-----------------------------------------------------------------------------
(* Lines of NDJSON are made of what the application's types allow.         *)

LEMMA EventIs ==
  ASSUME NEW event \in Events
  PROVE  /\ event.callsite \in Callsites
         /\ event.callsite.target \in String /\ event.callsite.name \in String
         /\ event.fields \in Seq(Field)
         /\ Len(event.chain) \in Nat /\ DOMAIN event.chain = 1..Len(event.chain)
         /\ \A i \in DOMAIN event.chain :
              /\ event.chain[i].fields \in Seq(Field)
              /\ event.chain[i].callsite \in Callsites
              /\ event.chain[i].callsite.name \in String
              /\ event.chain[i].callsite.target \in String
<1> DEFINE Entered == [callsite : Callsites, id : 0..(Power(ByteBase, U64) - 1), fields : Seq(Field)]
<1>1. \A c \in Callsites : c.name \in String /\ c.target \in String
  <2> DEFINE M == [kind : ToSet(CallsiteKinds), level : Levels, file : SUBSET String,
                   line : SUBSET (0..(Power(ByteBase, U32) - 1)), module_path : SUBSET String, name : String,
                   target : String, fields : Seq(String)]
  <2>1. \A m \in M : m.name \in String /\ m.target \in String OBVIOUS
  <2>2. Callsites \subseteq M BY LogAssumption
  <2> HIDE DEF M
  <2> QED BY <2>1, <2>2
<1>2. /\ event.callsite \in Callsites /\ event.fields \in Seq(Field)
      /\ event.chain \in Seq(Entered)
  BY LogAssumption
<1>3. \A s \in Entered : s.callsite \in Callsites /\ s.fields \in Seq(Field) OBVIOUS
<1> HIDE DEF Entered
<1>4. /\ Len(event.chain) \in Nat /\ DOMAIN event.chain = 1..Len(event.chain)
      /\ \A i \in DOMAIN event.chain : event.chain[i] \in Entered
  BY <1>2
<1> QED BY <1>1, <1>2, <1>3, <1>4

(* The spans of a record have the texts of the callsites of its event.     *)
LEMMA SnapshotIs ==
  ASSUME NEW event \in Events, NEW i \in DOMAIN event.chain
  PROVE  PartEscaped(JsonSpan("encode", Snapshot(event.chain[i])))
<1> DEFINE s == event.chain[i]
<1>1. s.callsite.name \in String /\ s.callsite.target \in String /\ s.fields \in Seq(Field)
  BY EventIs
<1> HIDE DEF s
<1>2. /\ Snapshot(s).name = s.callsite.name /\ Snapshot(s).target = s.callsite.target
      /\ Snapshot(s).fields = s.fields
  BY DEF Snapshot
<1>3. PartEscaped(JsonSpan("encode", Snapshot(s)))
  BY <1>1, <1>2, TextEscaped, FieldsEither DEF PartEscaped, JsonSpan
<1> QED BY <1>3 DEF s

LEMMA NdjsonLineEscaped ==
  ASSUME NEW event \in Events
  PROVE  LineEscaped(NdjsonRecord(config, OwnedRecord(event)))
<1> DEFINE r == OwnedRecord(event)
           line == NdjsonRecord(config, r)
<1>1. /\ line.target = Text("encode", r.target) /\ line.name = Text("encode", r.name)
      /\ line.fields = JsonFields("encode", r.fields)
      /\ line.span = IF config.current_span
                     THEN {JsonSpan("encode", s) : s \in r.current_span} ELSE {}
      /\ line.spans = IF config.span_list THEN {JsonSpans("encode", r.spans)} ELSE {}
  BY DEF NdjsonRecord
<1>2. /\ r.target = event.callsite.target /\ r.name = event.callsite.name
      /\ r.fields = event.fields
      /\ r.current_span = IF config.current_span /\ event.chain # <<>>
                          THEN {Last(Chain(event))} ELSE {}
      /\ r.spans = IF config.span_list THEN Chain(event) ELSE <<>>
  BY DEF OwnedRecord
<1> HIDE DEF r, line
<1>3. PartEscaped(line)
  <2>1. /\ event.callsite.target \in String /\ event.callsite.name \in String
        /\ event.fields \in Seq(Field)
    BY EventIs
  <2> QED BY <1>1, <1>2, <2>1, TextEscaped, FieldsEither DEF PartEscaped
<1>4. config.current_span \/ config.span_list =>
        Chain(event) = [i \in DOMAIN event.chain |-> Snapshot(event.chain[i])]
  BY DEF Chain
<1>5. ASSUME NEW span \in line.span PROVE PartEscaped(span)
  <2>1. /\ config.current_span /\ event.chain # <<>>
        /\ span = JsonSpan("encode", Last(Chain(event)))
    BY <1>1, <1>2, <1>5
  <2> DEFINE n == Len(event.chain)
  <2>2. n \in Nat /\ DOMAIN event.chain = 1..n BY EventIs
  <2>3. n # 0
    <3>1. \E S : event.chain \in Seq(S) BY LogAssumption
    <3> QED BY <2>1, <3>1, EmptySeq
  <2> HIDE DEF n
  <2>4. DOMAIN Chain(event) = 1..n /\ n \in 1..n BY <1>4, <2>1, <2>2, <2>3
  <2>5. Len(Chain(event)) = n BY <2>2, <2>4
  <2>6. Last(Chain(event)) = Snapshot(event.chain[n]) BY <1>4, <2>1, <2>2, <2>4, <2>5 DEF Last
  <2> QED BY <2>1, <2>2, <2>4, <2>6, SnapshotIs
<1>6. ASSUME NEW spans \in line.spans, NEW i \in DOMAIN spans PROVE PartEscaped(spans[i])
  <2>1. config.span_list /\ spans = JsonSpans("encode", Chain(event)) BY <1>1, <1>2, <1>6
  <2>2. i \in DOMAIN Chain(event) /\ spans[i] = JsonSpan("encode", Chain(event)[i])
    BY <2>1 DEF JsonSpans
  <2>3. i \in DOMAIN event.chain /\ Chain(event)[i] = Snapshot(event.chain[i])
    BY <1>4, <2>1, <2>2
  <2> QED BY <2>2, <2>3, SnapshotIs
<1>7. LineEscaped(line) BY <1>3, <1>5, <1>6, LineOfParts
<1> QED BY <1>7 DEF line, r

-----------------------------------------------------------------------------
(* The invariant: the lines written and the lines decoded are escaped.     *)

AllEscaped ==
  /\ \E S : written \in Seq(S) /\ \A line \in S : LineEscaped(line)
  /\ \E S : out \in Seq(S) /\ \A line \in S : LineEscaped(line)

LEMMA AppendedLine ==
  ASSUME NEW lines, \E S : lines \in Seq(S) /\ \A line \in S : LineEscaped(line),
         NEW new, LineEscaped(new)
  PROVE  \E S : Append(lines, new) \in Seq(S) /\ \A line \in S : LineEscaped(line)
<1>1. PICK S : lines \in Seq(S) /\ \A line \in S : LineEscaped(line) OBVIOUS
<1> DEFINE T == S \union {new}
<1>2. \A line \in T : LineEscaped(line) BY <1>1
<1>3. lines \in Seq(T) /\ new \in T BY <1>1, SeqMonotonic
<1> HIDE DEF T
<1>4. Append(lines, new) \in Seq(T) BY <1>3
<1> QED BY <1>2, <1>4

LEMMA InitEscaped == Init => AllEscaped
<1> SUFFICES ASSUME Init PROVE AllEscaped OBVIOUS
<1>1. PICK S : S = {} OBVIOUS
<1>2. <<>> \in Seq(S) OBVIOUS
<1>3. \A line \in S : LineEscaped(line) BY <1>1
<1>4. \E T : <<>> \in Seq(T) /\ \A line \in T : LineEscaped(line) BY <1>2, <1>3
<1>5. written = <<>> /\ out = <<>> BY DEF Init
<1> QED BY <1>4, <1>5 DEF AllEscaped

LEMMA StepEscaped == AllEscaped /\ [Next]_vars => AllEscaped'
<1> SUFFICES ASSUME AllEscaped, [Next]_vars PROVE AllEscaped' OBVIOUS
<1>1. CASE UNCHANGED <<written, out>> BY <1>1 DEF AllEscaped
<1>2. ASSUME NEW event \in Events, Log(event) PROVE AllEscaped'
  <2>1. /\ out' = out
        /\ \/ written' = written
           \/ written' = Append(written, NdjsonRecord(config, OwnedRecord(event)))
    BY <1>2 DEF Log, decoderVars
  <2>2. LineEscaped(NdjsonRecord(config, OwnedRecord(event))) BY NdjsonLineEscaped
  <2>3. \E S : Append(written, NdjsonRecord(config, OwnedRecord(event))) \in Seq(S)
               /\ \A line \in S : LineEscaped(line)
    BY <2>2, AppendedLine DEF AllEscaped
  <2> QED BY <2>1, <2>3 DEF AllEscaped
<1>3. CASE ReadFrame
  <2>1. PICK read : MetadataRead(read) \/ EventRead(read) \/ UnknownMetadata(read) \/ ReadError(read)
    BY <1>3 DEF ReadFrame
  <2>2. CASE EventRead(read)
    <3> DEFINE new == DecodedLine(metadata[read.value.metadata_id], read.value)
    <3>1. written' = written /\ out' = Append(out, new) BY <2>2 DEF EventRead, logVars
    <3>2. LineEscaped(new) BY DecodedLineEscaped
    <3> HIDE DEF new
    <3>3. \E S : Append(out, new) \in Seq(S) /\ \A line \in S : LineEscaped(line)
      BY <3>2, AppendedLine DEF AllEscaped
    <3> QED BY <3>1, <3>3 DEF AllEscaped
  <2>3. CASE ~EventRead(read)
    <3>1. UNCHANGED <<written, out>>
      BY <2>1, <2>3 DEF MetadataRead, UnknownMetadata, ReadError, logVars, decoderVars
    <3> QED BY <1>1, <3>1
  <2> QED BY <2>2, <2>3
<1>4. CASE \/ \E callsite \in Callsites : Announce(callsite)
           \/ Restart \/ BeginDecode \/ DecodeEnd \/ Done \/ UNCHANGED vars
  <2>1. UNCHANGED <<written, out>>
    BY <1>4 DEF Announce, Restart, BeginDecode, DecodeEnd, Done, vars, logVars, decoderVars
  <2> QED BY <1>1, <2>1
<1> QED BY <1>2, <1>3, <1>4 DEF Next, Decoder

(* Each record stays on one line: no text of a line of either writer has a *)
(* byte in it that JSON wants escaped, whatever the log holds, damaged or  *)
(* not.                                                                    *)
THEOREM LinesNeverBreak == Spec => []TextsEscaped
<1>1. AllEscaped => TextsEscaped
  <2> SUFFICES ASSUME AllEscaped, NEW line \in ToSet(written) \union ToSet(out),
                      NEW text \in Texts(line)
               PROVE  Escaped(text)
    BY DEF TextsEscaped, Escaped, Special
  <2>1. PICK S : written \in Seq(S) /\ \A l \in S : LineEscaped(l) BY DEF AllEscaped
  <2>2. PICK T : out \in Seq(T) /\ \A l \in T : LineEscaped(l) BY DEF AllEscaped
  <2>3. line \in S \/ line \in T BY <2>1, <2>2 DEF ToSet
  <2>4. LineEscaped(line) BY <2>1, <2>2, <2>3
  <2> QED BY <2>4 DEF LineEscaped
<1> QED BY <1>1, InitEscaped, StepEscaped, PTL DEF Spec

-----------------------------------------------------------------------------
(* What a frame is to the decoder: whole, it is one step, whatever         *)
(* follows; cut, it is the end of the file.                                *)

Decodes(bytes, value) ==
  /\ bytes \in Blob /\ bytes # <<>>
  /\ \A rest \in Blob : DecodeFrame(Cat(bytes, rest)) = Took(value, rest)

Broken(bytes) == bytes \in Blob /\ bytes # <<>> /\ DecodeFrame(bytes) = Failed("UnexpectedEof")

Torn(frame) == \A n \in 1..(Len(frame) - 1) : Broken(SubSeq(frame, 1, n))

LEMMA FrameThere ==
  ASSUME NEW kind \in Bytes, NEW payload \in Blob
  PROVE  /\ Frame(kind, payload) \in Blob /\ Frame(kind, payload) # <<>>
         /\ Len(Frame(kind, payload)) \in Nat /\ Len(payload) \in Nat
         /\ Len(Frame(kind, payload)) - (1 + U32) < Limit => Len(payload) < Limit
<1>1. PICK frame : frame = Frame(kind, payload) OBVIOUS
<1>2. PICK size \in Nat : size = Len(payload) BY FrameBytes
<1>3. frame \in Blob /\ Len(frame) = 1 + U32 + size BY <1>1, <1>2, FrameBytes
<1>4. frame # <<>>
  <2>1. Len(frame) # 0 BY <1>2, <1>3, Widths
  <2> QED BY <2>1
<1>5. Len(frame) \in Nat /\ (Len(frame) - (1 + U32) < Limit => size < Limit)
  BY <1>2, <1>3, Widths
<1> QED BY <1>1, <1>2, <1>3, <1>4, <1>5

LEMMA FrameWritten ==
  ASSUME NEW kind \in Bytes, NEW payload \in Blob, Len(payload) < Limit,
         NEW value, NEW r, DecodePayload(kind, payload) = Took(value, r)
  PROVE  Decodes(Frame(kind, payload), value) /\ Torn(Frame(kind, payload))
<1>1. PICK frame : frame = Frame(kind, payload) OBVIOUS
<1>2. frame \in Blob /\ frame # <<>> /\ Len(frame) \in Nat BY <1>1, FrameThere
<1>3. \A rest \in Blob : DecodeFrame(Cat(frame, rest)) = Took(value, rest) BY <1>1, FrameBack
<1>4. ASSUME NEW n \in 1..(Len(frame) - 1) PROVE Broken(SubSeq(frame, 1, n))
  <2>1. n \in Nat /\ n >= 1 /\ n < Len(frame) BY <1>2
  <2>2. /\ DecodeFrame(SubSeq(frame, 1, n)) = Failed("UnexpectedEof")
        /\ SubSeq(frame, 1, n) \in Blob /\ Len(SubSeq(frame, 1, n)) = n
    BY <1>1, <2>1, FrameTorn
  <2>3. PICK cut : cut = SubSeq(frame, 1, n) OBVIOUS
  <2>4. cut # <<>> BY <2>1, <2>2, <2>3
  <2> QED BY <2>2, <2>3, <2>4 DEF Broken
<1> QED BY <1>1, <1>2, <1>3, <1>4 DEF Decodes, Torn

LEMMA KindBytes == MetadataFrame \in Bytes /\ EventFrame \in Bytes
BY CodecAssumption DEF MetadataFrame, EventFrame, Bytes

(* Both for the frame of any metadata and for that of any event.           *)
Fine(frame, counts, value) ==
  /\ frame \in Blob /\ frame # <<>> /\ Len(frame) \in Nat
  /\ Measured(frame, counts) => Decodes(frame, value) /\ Torn(frame)

LEMMA MetadataFine ==
  ASSUME NEW m \in AnyMetadata
  PROVE  Fine(EncodeMetadata(m), {Len(m.fields)}, DecodedMetadata(m))
<1>1. PICK payload \in Blob : payload = MetadataPayload(m) BY MetadataPayloadBytes
<1>2. PICK frame : frame = EncodeMetadata(m) /\ frame = Frame(MetadataFrame, payload)
  BY <1>1 DEF EncodeMetadata, MetadataPayload
<1>3. /\ frame \in Blob /\ frame # <<>> /\ Len(frame) \in Nat
      /\ Len(frame) - (1 + U32) < Limit => Len(payload) < Limit
  BY <1>2, KindBytes, FrameThere
<1>4. ASSUME Measured(frame, {Len(m.fields)}) PROVE Decodes(frame, DecodedMetadata(m)) /\ Torn(frame)
  <2>1. Len(payload) < Limit /\ Len(m.fields) < Power(ByteBase, U16)
    BY <1>3, <1>4 DEF Measured, Limit
  <2>2. m \in MetadataRecord BY <2>1 DEF MetadataRecord
  <2>3. DecodeMetadata(payload) = Took(DecodedMetadata(m), <<>>) BY <1>1, <2>1, <2>2, MetadataBack
  <2>4. DecodePayload(MetadataFrame, payload) = Took(DecodedMetadata(m), <<>>)
    BY <2>3 DEF DecodePayload, MetadataFrame, EventFrame
  <2> QED BY <1>2, <2>1, <2>4, KindBytes, FrameWritten
<1> QED BY <1>2, <1>3, <1>4 DEF Fine

LEMMA CountsMeasured ==
  ASSUME NEW r \in AnyEvent, \A count \in Counts(r) : count < Power(ByteBase, U16)
  PROVE  r \in EventRecord
<1>1. Len(r.fields) < Power(ByteBase, U16) /\ Len(r.spans) < Power(ByteBase, U16)
  BY DEF Counts
<1>2. \A s \in r.current_span \union ToSet(r.spans) : Len(s.fields) < Power(ByteBase, U16)
  BY DEF Counts
<1>3. r.current_span \subseteq AnySpan /\ r.spans \in Seq(AnySpan) BY DEF AnyEvent
<1>4. r.current_span \subseteq SpanRecord BY <1>2, <1>3 DEF SpanRecord
<1>5. r.spans \in Seq(SpanRecord)
  <2>1. PICK spans \in Seq(AnySpan) : spans = r.spans BY <1>3
  <2>2. ASSUME NEW i \in 1..Len(spans) PROVE spans[i] \in SpanRecord
    <3>1. spans[i] \in AnySpan /\ spans[i] \in ToSet(spans) BY DEF ToSet
    <3> QED BY <1>2, <2>1, <3>1 DEF SpanRecord
  <2>3. spans \in Seq(SpanRecord)
    <3>1. PICK S : S = SpanRecord OBVIOUS
    <3>2. \A i \in 1..Len(spans) : spans[i] \in S BY <2>2, <3>1
    <3> QED BY <3>1, <3>2
  <2> QED BY <2>1, <2>3
<1> QED BY <1>1, <1>4, <1>5 DEF EventRecord

LEMMA RecordFine ==
  ASSUME NEW r \in AnyEvent
  PROVE  /\ Fine(EncodeRecord(config, r), Counts(r), DecodedEvent(config, r))
         /\ Measured(EncodeRecord(config, r), Counts(r)) => r \in EventRecord
<1>1. PICK payload \in Blob : payload = EventPayload(config, r) BY EventPayloadBytes
<1>2. PICK frame : frame = EncodeRecord(config, r) /\ frame = Frame(EventFrame, payload)
  BY <1>1 DEF EncodeRecord, EventPayload, CurrentSpanId, WrittenSpan, WrittenSpans
<1>3. /\ frame \in Blob /\ frame # <<>> /\ Len(frame) \in Nat
      /\ Len(frame) - (1 + U32) < Limit => Len(payload) < Limit
  BY <1>2, KindBytes, FrameThere
<1>4. ASSUME Measured(frame, Counts(r))
      PROVE  Decodes(frame, DecodedEvent(config, r)) /\ Torn(frame) /\ r \in EventRecord
  <2>1. Len(payload) < Limit BY <1>3, <1>4 DEF Measured, Limit
  <2>2. r \in EventRecord BY <1>4, CountsMeasured DEF Measured
  <2>3. DecodeEvent(payload) = Took(DecodedEvent(config, r), <<>>) BY <1>1, <2>1, <2>2, EventBack
  <2>4. DecodePayload(EventFrame, payload) = Took(DecodedEvent(config, r), <<>>)
    BY <2>3 DEF DecodePayload, EventFrame, MetadataFrame
  <2> QED BY <1>2, <2>1, <2>2, <2>4, KindBytes, FrameWritten
<1> QED BY <1>2, <1>3, <1>4 DEF Fine

-----------------------------------------------------------------------------
(* Ids.  The callsites a run has announced are so few that ids fit a U32.  *)

Ids == announced \in Seq(Callsites) /\ IsInjective(announced)

LEMMA FewIds ==
  ASSUME NEW ids \in Seq(Callsites), IsInjective(ids)
  PROVE  Len(ids) \in Nat /\ Len(ids) < Limit
<1>1. IsFiniteSet(Callsites) /\ Cardinality(Callsites) < Limit /\ Cardinality(Callsites) \in Nat
  BY LogAssumption, FS_CardinalityType DEF Limit
<1>2. PICK n \in Nat : n = Len(ids) OBVIOUS
<1>3. IsFiniteSet(1..n) /\ Cardinality(1..n) = n
  <2>1. 1 \in Int /\ n \in Int OBVIOUS
  <2>2. Cardinality(1..n) = IF 1 > n THEN 0 ELSE n - 1 + 1 BY <2>1, FS_Interval
  <2> QED BY <2>1, <2>2, FS_Interval
<1>4. n <= Cardinality(Callsites)
  <2>1. ids \in [1..n -> Callsites] BY <1>2
  <2>2. \A x, y \in 1..n : ids[x] = ids[y] => x = y BY <1>2 DEF IsInjective
  <2>3. ~(Cardinality(Callsites) < Cardinality(1..n)) BY <1>1, <1>3, <2>1, <2>2, FS_PigeonHole
  <2> QED BY <1>1, <1>3, <2>3
<1> QED BY <1>1, <1>2, <1>4, Widths

LEMMA AppendedId ==
  ASSUME NEW ids \in Seq(Callsites), IsInjective(ids), NEW callsite \in Callsites,
         callsite \notin ToSet(ids)
  PROVE  /\ Append(ids, callsite) \in Seq(Callsites) /\ IsInjective(Append(ids, callsite))
         /\ Len(Append(ids, callsite)) = Len(ids) + 1
<1>1. PICK n \in Nat : n = Len(ids) OBVIOUS
<1>2. PICK more : more = Append(ids, callsite) OBVIOUS
<1>3. /\ more \in Seq(Callsites) /\ Len(more) = n + 1 /\ DOMAIN more = 1..(n + 1)
      /\ more[n + 1] = callsite /\ \A i \in 1..n : more[i] = ids[i]
  BY <1>1, <1>2
<1>4. \A i \in 1..n : ids[i] # callsite BY <1>1 DEF ToSet
<1>5. \A i, j \in 1..n : ids[i] = ids[j] => i = j BY <1>1 DEF IsInjective
<1>6. \A i, j \in 1..(n + 1) : more[i] = more[j] => i = j
  <2> SUFFICES ASSUME NEW i \in 1..(n + 1), NEW j \in 1..(n + 1), more[i] = more[j] PROVE i = j
    OBVIOUS
  <2>1. CASE i \in 1..n /\ j \in 1..n BY <1>3, <1>5, <2>1
  <2>2. CASE i = n + 1 /\ j \in 1..n BY <1>3, <1>4, <2>2
  <2>3. CASE i \in 1..n /\ j = n + 1 BY <1>3, <1>4, <2>3
  <2>4. CASE i = n + 1 /\ j = n + 1 BY <2>4
  <2> QED BY <2>1, <2>2, <2>3, <2>4
<1> QED BY <1>1, <1>2, <1>3, <1>6 DEF IsInjective

LEMMA IdIs ==
  ASSUME NEW callsite \in Announced, Ids
  PROVE  /\ \E i \in DOMAIN announced : Id(callsite) = i - 1 /\ announced[i] = callsite
         /\ Id(callsite) \in 0..(Limit - 1)
<1>1. \E i \in DOMAIN announced : announced[i] = callsite BY DEF Announced, ToSet
<1>2. PICK i \in DOMAIN announced : Id(callsite) = i - 1 /\ announced[i] = callsite
  BY <1>1 DEF Id
<1>3. PICK n \in Nat : n = Len(announced) /\ n < Limit BY FewIds DEF Ids
<1>4. i \in 1..n BY <1>3 DEF Ids
<1>5. i - 1 \in 0..(Limit - 1) BY <1>3, <1>4, Widths
<1> QED BY <1>2, <1>5

LEMMA MetadataIs ==
  ASSUME NEW callsite \in Callsites, NEW id \in 0..(Limit - 1)
  PROVE  /\ CallsiteMetadata(callsite, id) \in AnyMetadata
         /\ CallsiteMetadata(callsite, id).fields = callsite.fields
         /\ LET value == DecodedMetadata(CallsiteMetadata(callsite, id))
            IN  /\ value.frame = "metadata" /\ value.id = id /\ value.level = callsite.level
                /\ value.target = callsite.target /\ value.name = callsite.name
<1>1. PICK S, T, U, K, N : S = String /\ T = SUBSET String /\ U = Seq(String)
        /\ K = ToSet(CallsiteKinds) /\ N = SUBSET (0..(Limit - 1))
  OBVIOUS
<1>2. /\ callsite \in [kind : K, level : Levels, file : T, line : N, module_path : T,
                       name : S, target : S, fields : U]
      /\ \A x, y \in callsite.file : x = y
      /\ \A x, y \in callsite.line : x = y
      /\ \A x, y \in callsite.module_path : x = y
  BY <1>1, LogAssumption DEF Limit
<1>3. PICK I : I = 0..(Limit - 1) OBVIOUS
<1>4. PICK m : m = CallsiteMetadata(callsite, id) OBVIOUS
<1>5. m \in [id : I, kind : K, level : Levels, file : T, line : N, module_path : T,
             name : S, target : S, fields : U]
  BY <1>2, <1>3, <1>4 DEF CallsiteMetadata
<1>6. /\ m.file = callsite.file /\ m.line = callsite.line /\ m.module_path = callsite.module_path
      /\ m.fields = callsite.fields
  BY <1>4 DEF CallsiteMetadata
<1>7. m \in AnyMetadata BY <1>1, <1>2, <1>3, <1>5, <1>6 DEF AnyMetadata
<1>8. LET value == DecodedMetadata(CallsiteMetadata(callsite, id))
      IN  /\ value.frame = "metadata" /\ value.id = id /\ value.level = callsite.level
          /\ value.target = callsite.target /\ value.name = callsite.name
  BY DEF DecodedMetadata, CallsiteMetadata
<1> QED BY <1>4, <1>6, <1>7, <1>8

-----------------------------------------------------------------------------
(* The record of an event whose callsites are all announced.               *)

LEMMA EventFits ==
  ASSUME NEW event \in Events
  PROVE  /\ event.callsite.level \in Levels
         /\ event.seconds \in 0..(Power(ByteBase, U64) - 1) /\ event.seconds >= 1
         /\ event.nanos \in 0..(Limit - 1) /\ event.nanos < Power(10, FractionDigits)
         /\ \A i \in DOMAIN event.chain :
              /\ event.chain[i].id \in 0..(Power(ByteBase, U64) - 1)
              /\ event.chain[i].callsite.level \in Levels
<1>1. \A c \in Callsites : c.level \in Levels
  <2> DEFINE M == [kind : ToSet(CallsiteKinds), level : Levels, file : SUBSET String,
                   line : SUBSET (0..(Power(ByteBase, U32) - 1)), module_path : SUBSET String,
                   name : String, target : String, fields : Seq(String)]
  <2>1. \A m \in M : m.level \in Levels OBVIOUS
  <2>2. Callsites \subseteq M BY LogAssumption
  <2> HIDE DEF M
  <2> QED BY <2>1, <2>2
<1>2. PICK s \in Nat, n \in Nat :
        s = Power(ByteBase, U64) /\ n = Power(10, FractionDigits) /\ n <= Limit
  BY CodecAssumption, Widths, PowerIs DEF Limit
<1>3. PICK Entered : Entered = [callsite : Callsites, id : 0..(s - 1), fields : Seq(Field)] OBVIOUS
<1>4. event.seconds \in 1..(s - 1) /\ event.nanos \in 0..(n - 1) /\ event.chain \in Seq(Entered)
  BY <1>2, <1>3, LogAssumption
<1>5. \A e \in Entered : e.callsite \in Callsites /\ e.id \in 0..(s - 1) BY <1>3
<1>6. \A i \in DOMAIN event.chain : event.chain[i] \in Entered BY <1>4
<1>7. event.callsite.level \in Levels BY <1>1, EventIs
<1>8. event.seconds \in 0..(s - 1) /\ event.seconds >= 1 BY <1>2, <1>4
<1>9. event.nanos \in 0..(Limit - 1) /\ event.nanos < n BY <1>2, <1>4, Widths
<1> QED BY <1>1, <1>2, <1>5, <1>6, <1>7, <1>8, <1>9

LEMMA SnapshotFits ==
  ASSUME NEW event \in Events, NEW i \in DOMAIN event.chain, Ids,
         event.chain[i].callsite \in Announced
  PROVE  Snapshot(event.chain[i]) \in AnySpan
<1>1. PICK e : e = event.chain[i] OBVIOUS
<1>2. /\ e.id \in 0..(Power(ByteBase, U64) - 1) /\ e.callsite.level \in Levels
      /\ e.fields \in Seq(Field) /\ e.callsite.name \in String /\ e.callsite.target \in String
  BY <1>1, EventFits, EventIs
<1>3. Id(e.callsite) \in 0..(Limit - 1) BY <1>1, IdIs
<1>4. PICK id, c, I, J, S, F :
        /\ id = Id(e.callsite) /\ c = e.callsite /\ I = 0..(Power(ByteBase, U64) - 1)
        /\ J = 0..(Limit - 1) /\ S = String /\ F = Seq(Field)
  OBVIOUS
<1>5. [id |-> e.id, metadata_id |-> id, level |-> c.level, name |-> c.name, target |-> c.target,
       fields |-> e.fields] \in
        [id : I, metadata_id : J, level : Levels, name : S, target : S, fields : F]
  BY <1>2, <1>3, <1>4
<1> QED BY <1>1, <1>4, <1>5 DEF Snapshot, AnySpan

LEMMA RecordIs ==
  ASSUME NEW event \in Events, Ids, Needed(event) \subseteq Announced,
         config \in [current_span : BOOLEAN, span_list : BOOLEAN]
  PROVE  LET r == OwnedRecord(event)
         IN  /\ r \in AnyEvent
             /\ r.seconds >= 1 /\ r.nanos < Power(10, FractionDigits)
             /\ r.metadata_id = Id(event.callsite) /\ event.callsite \in Announced
             /\ r.level = event.callsite.level /\ r.target = event.callsite.target
             /\ r.name = event.callsite.name
<1>1. PICK r : r = OwnedRecord(event) OBVIOUS
<1>2. event.callsite \in Announced BY DEF Needed
<1>3. /\ r.seconds = event.seconds /\ r.nanos = event.nanos
      /\ r.metadata_id = Id(event.callsite)
      /\ r.level = event.callsite.level /\ r.target = event.callsite.target
      /\ r.name = event.callsite.name
  BY <1>1 DEF OwnedRecord
<1>4. PICK n \in Nat : n = Len(event.chain) /\ DOMAIN event.chain = 1..n BY EventIs
<1>5. PICK chain : chain = Chain(event) OBVIOUS
<1>6. ASSUME config.current_span \/ config.span_list, NEW i \in 1..n
      PROVE  Snapshot(event.chain[i]) \in AnySpan
  <2>1. event.chain[i].callsite \in Announced BY <1>4, <1>6 DEF Needed
  <2> QED BY <1>4, <2>1, SnapshotFits
<1>7. chain \in Seq(AnySpan)
  <2>1. CASE config.current_span \/ config.span_list
    <3>1. chain = [i \in 1..n |-> Snapshot(event.chain[i])] BY <1>4, <1>5, <2>1 DEF Chain
    <3>2. PICK S : S = AnySpan OBVIOUS
    <3>3. \A i \in 1..n : chain[i] \in S BY <1>6, <2>1, <3>1, <3>2
    <3>4. chain = [i \in 1..n |-> chain[i]] BY <3>1
    <3>5. chain \in [1..n -> S] BY <3>3, <3>4
    <3>6. chain \in Seq(S) BY <1>4, <3>5
    <3> QED BY <3>2, <3>6
  <2>2. CASE ~(config.current_span \/ config.span_list)
    <3>1. chain = <<>> BY <1>5, <2>2 DEF Chain
    <3> QED BY <3>1
  <2> QED BY <2>1, <2>2
<1>8. PICK span : span = IF config.current_span /\ event.chain # <<>> THEN {Last(chain)} ELSE {}
  OBVIOUS
<1>9. span \in SUBSET AnySpan /\ \A x, y \in span : x = y
  <2>1. CASE config.current_span /\ event.chain # <<>>
    <3>1. chain = [i \in 1..n |-> Snapshot(event.chain[i])] BY <1>4, <1>5, <2>1 DEF Chain
    <3>2. n # 0
      <4>1. \E S : event.chain \in Seq(S) BY LogAssumption
      <4> QED BY <1>4, <2>1, <4>1, EmptySeq
    <3>3. Len(chain) = n /\ n \in 1..n BY <1>4, <3>1, <3>2
    <3>4. Last(chain) = Snapshot(event.chain[n]) BY <3>1, <3>3 DEF Last
    <3>5. Last(chain) \in AnySpan BY <1>6, <2>1, <3>3, <3>4
    <3> QED BY <1>8, <2>1, <3>5
  <2>2. CASE ~(config.current_span /\ event.chain # <<>>) BY <1>8, <2>2
  <2> QED BY <2>1, <2>2
<1>10. PICK spans \in Seq(AnySpan) : spans = IF config.span_list THEN chain ELSE <<>>
  <2>1. <<>> \in Seq(AnySpan) OBVIOUS
  <2> QED BY <1>7, <2>1
<1>11. r \in AnyEvent
  <2>1. PICK I, J, S, F, P, L : /\ I = 0..(Power(ByteBase, U64) - 1) /\ J = 0..(Limit - 1)
                                /\ S = String /\ F = Seq(Field) /\ P = SUBSET AnySpan
                                /\ L = Seq(AnySpan)
    OBVIOUS
  <2>2. /\ event.seconds \in I /\ event.nanos \in J /\ event.callsite.level \in Levels
        /\ event.callsite.name \in S /\ event.callsite.target \in S /\ event.fields \in F
    BY <2>1, EventFits, EventIs
  <2>3. PICK id \in J : id = Id(event.callsite) BY <1>2, <2>1, IdIs
  <2>4. span \in P /\ spans \in L BY <1>9, <2>1
  <2>5. r = [seconds |-> event.seconds, nanos |-> event.nanos, metadata_id |-> id,
             name |-> event.callsite.name, target |-> event.callsite.target,
             level |-> event.callsite.level, fields |-> event.fields,
             current_span |-> span, spans |-> spans]
    BY <1>1, <1>5, <1>8, <1>10, <2>3 DEF OwnedRecord
  <2>6. r \in [seconds : I, nanos : J, metadata_id : J, name : S, target : S, level : Levels,
               fields : F, current_span : P, spans : L]
    BY <2>2, <2>4, <2>5
  <2>7. r.current_span = span BY <2>5
  <2> QED BY <1>9, <2>1, <2>6, <2>7 DEF AnyEvent
<1>12. r.seconds >= 1 /\ r.nanos < Power(10, FractionDigits) BY <1>3, EventFits
<1> QED BY <1>1, <1>2, <1>3, <1>11, <1>12

-----------------------------------------------------------------------------
(* A parse of the undamaged beginning of the log: what the decoder has     *)
(* read, the metadata it knows and the lines it has made after each frame. *)

At(read, table, lines) == [read |-> read, table |-> table, lines |-> lines]

WithMetadata(table, value) ==
  [id \in DOMAIN table \union {value.id} |-> IF id = value.id THEN value ELSE table[id]]

Reads(c, value, d) ==
  \/ /\ value.frame = "metadata"
     /\ d.table = WithMetadata(c.table, value) /\ d.lines = c.lines
  \/ /\ value.frame = "event" /\ value.metadata_id \in DOMAIN c.table
     /\ d.table = c.table
     /\ d.lines = Append(c.lines, DecodedLine(c.table[value.metadata_id], value))

Follows(c, d) ==
  \E bytes, value : Decodes(bytes, value) /\ d.read = Cat(c.read, bytes) /\ Reads(c, value, d)

Within(read, whole) == read \in Blob /\ \E rest \in Blob : whole = Cat(read, rest)

Parse(c, k, whole) ==
  /\ k \in Nat /\ whole \in Blob
  /\ c[0] = At(<<>>, <<>>, <<>>)
  /\ \A i \in 0..k : Within(c[i].read, whole)
  /\ \A i \in 0..k : i # k => Follows(c[i], c[i + 1])
  /\ c[k].read = whole

LEMMA Empty == <<>> \in Blob /\ \A s \in Blob : Cat(<<>>, s) = s /\ Cat(s, <<>>) = s
<1>1. <<>> \in Blob BY DEF Blob
<1>2. \A s \in Blob : <<>> \o s = s /\ s \o <<>> = s BY ConcatEmptySeq DEF Blob
<1> QED BY <1>1, <1>2 DEF Cat

LEMMA Cancelled == \A s, t, u \in Blob : Cat(s, t) = Cat(s, u) => t = u
<1>1. \A S : \A s, t, u \in Seq(S) : s \o t = s \o u => t = u BY ConcatSimplifications
<1>2. \A s, t, u \in Seq(Bytes) : s \o t = s \o u => t = u BY <1>1
<1> QED BY <1>2 DEF Cat, Blob

LEMMA ParseBegins == \E c : Parse(c, 0, <<>>) /\ c[0] = At(<<>>, <<>>, <<>>)
<1>1. PICK c : c = [i \in {0} |-> At(<<>>, <<>>, <<>>)] OBVIOUS
<1>2. c[0] = At(<<>>, <<>>, <<>>) /\ c[0].read = <<>> BY <1>1 DEF At
<1>3. Within(<<>>, <<>>)
  <2>1. <<>> \in Blob /\ <<>> = Cat(<<>>, <<>>) BY Empty
  <2> QED BY <2>1 DEF Within
<1>4. \A i \in 0..0 : i = 0 OBVIOUS
<1>5. Parse(c, 0, <<>>) BY <1>2, <1>3, <1>4, Empty DEF Parse
<1> QED BY <1>2, <1>5

LEMMA ParseGrows ==
  ASSUME NEW c, NEW k, NEW whole, Parse(c, k, whole), NEW bytes, NEW value, Decodes(bytes, value),
         NEW d, d.read = Cat(whole, bytes), Reads(c[k], value, d)
  PROVE  \E e : Parse(e, k + 1, Cat(whole, bytes)) /\ e[k + 1] = d
<1>1. /\ k \in Nat /\ whole \in Blob /\ c[0] = At(<<>>, <<>>, <<>>) /\ c[k].read = whole
      /\ \A i \in 0..k : Within(c[i].read, whole)
      /\ \A i \in 0..k : i # k => Follows(c[i], c[i + 1])
  BY DEF Parse
<1>2. PICK e : e = [i \in 0..(k + 1) |-> IF i = k + 1 THEN d ELSE c[i]] OBVIOUS
<1>3. e[k + 1] = d /\ \A i \in 0..k : e[i] = c[i] BY <1>1, <1>2
<1>4. bytes \in Blob BY DEF Decodes
<1>5. PICK more \in Blob : more = Cat(whole, bytes) BY <1>1, <1>4, CatJoined
<1>6. Within(more, more)
  <2>1. more = Cat(more, <<>>) /\ <<>> \in Blob BY Empty
  <2> QED BY <2>1 DEF Within
<1>7. ASSUME NEW i \in 0..(k + 1) PROVE Within(e[i].read, more)
  <2>1. CASE i = k + 1 BY <1>3, <1>5, <1>6, <2>1
  <2>2. CASE i # k + 1
    <3>1. i \in 0..k BY <1>1, <2>2
    <3>2. PICK read \in Blob, rest \in Blob : read = c[i].read /\ whole = Cat(read, rest)
      BY <1>1, <3>1 DEF Within
    <3>3. PICK after \in Blob : after = Cat(rest, bytes) BY <1>4, CatJoined
    <3>4. more = Cat(read, after) BY <1>4, <1>5, <3>2, <3>3, Regroup
    <3> QED BY <1>3, <3>1, <3>2, <3>4 DEF Within
  <2> QED BY <2>1, <2>2
<1>8. ASSUME NEW i \in 0..(k + 1), i # k + 1 PROVE Follows(e[i], e[i + 1])
  <2>1. i \in 0..k BY <1>1, <1>8
  <2>2. CASE i = k
    <3>1. Follows(c[k], d) BY <1>1 DEF Follows
    <3>2. e[i] = c[k] /\ e[i + 1] = d BY <1>3, <2>1, <2>2
    <3> QED BY <3>1, <3>2
  <2>3. CASE i # k
    <3>1. i + 1 \in 0..k BY <1>1, <2>1, <2>3
    <3> QED BY <1>1, <1>3, <2>1, <2>3, <3>1
  <2> QED BY <2>2, <2>3
<1>9. k + 1 \in Nat /\ 0 \in 0..k BY <1>1
<1>10. e[0] = At(<<>>, <<>>, <<>>) BY <1>1, <1>3, <1>9
<1>11. Parse(e, k + 1, more) BY <1>3, <1>5, <1>7, <1>8, <1>9, <1>10 DEF Parse
<1> QED BY <1>3, <1>5, <1>11

-----------------------------------------------------------------------------
(* The log: a part that parses to the lines written, and what is damaged.  *)

Known(table, ids) ==
  \A i \in DOMAIN ids :
    /\ i - 1 \in DOMAIN table
    /\ table[i - 1].level = ids[i].level /\ table[i - 1].target = ids[i].target
    /\ table[i - 1].name = ids[i].name

Damaged(state, tail, table, ids) ==
  /\ tail \in Blob /\ state \in {"no", "torn", "inside"}
  /\ state = "no" => tail = <<>> /\ Known(table, ids)
  /\ state = "torn" => Broken(tail)

FileIs(c, k, whole, tail, bytes, lines, ids, state) ==
  /\ Parse(c, k, whole) /\ bytes = Cat(whole, tail)
  /\ c[k].lines = lines
  /\ Damaged(state, tail, c[k].table, ids)

(* A frame is added to the part that parses or to what is damaged.         *)
LEMMA FrameAppended ==
  ASSUME NEW frame, NEW counts, NEW value, Fine(frame, counts, value), Write(frame, counts),
         NEW whole \in Blob, NEW tail, file = Cat(whole, tail), NEW table,
         Damaged(damage, tail, table, announced)
  PROVE  \/ /\ damage = "no" /\ damage' = "no" /\ tail = <<>> /\ Known(table, announced)
            /\ Measured(frame, counts) /\ Decodes(frame, value) /\ file' = Cat(whole, frame)
         \/ \E t : /\ file' = Cat(whole, t) /\ damage' # "no"
                   /\ \A ids : Damaged(damage', t, table, ids)
<1>1. frame \in Blob /\ Len(frame) \in Nat /\ frame # <<>> BY DEF Fine
<1>2. tail \in Blob BY DEF Damaged
<1>3. Cat(tail, frame) \in Blob BY <1>1, <1>2, CatJoined
<1>4. Cat(file, frame) = Cat(whole, Cat(tail, frame)) BY <1>1, <1>2, Regroup
<1>5. damage = "no" => tail = <<>> /\ Known(table, announced) BY DEF Damaged
<1>6. file = Cat(whole, tail) /\ (damage = "no" => file = whole) BY <1>5, Empty
<1>7. CASE /\ Measured(frame, counts) /\ file' = Cat(file, frame)
           /\ damage' = IF damage = "torn" THEN "inside" ELSE damage
  <2>1. CASE damage = "no"
    <3>1. Decodes(frame, value) BY <1>7 DEF Fine
    <3>2. damage' = "no" /\ file' = Cat(whole, frame) BY <1>6, <1>7, <2>1
    <3> QED BY <1>5, <1>7, <2>1, <3>1, <3>2
  <2>2. CASE damage # "no"
    <3>1. damage' = "inside" BY <1>7, <2>2 DEF Damaged
    <3>2. \A ids : Damaged(damage', Cat(tail, frame), table, ids) BY <1>3, <3>1 DEF Damaged
    <3> QED BY <1>4, <1>7, <3>1, <3>2
  <2> QED BY <2>1, <2>2
<1>8. ASSUME Measured(frame, counts), damage = "no", damage' = "torn",
             NEW n \in 1..(Len(frame) - 1), file' = Cat(file, SubSeq(frame, 1, n))
      PROVE  \E t : /\ file' = Cat(whole, t) /\ damage' # "no"
                    /\ \A ids : Damaged(damage', t, table, ids)
  <2>1. PICK t : t = SubSeq(frame, 1, n) OBVIOUS
  <2>2. Broken(t) BY <1>8, <2>1 DEF Fine, Torn
  <2>3. file' = Cat(whole, t) BY <1>6, <1>8, <2>1
  <2>4. \A ids : Damaged("torn", t, table, ids) BY <2>2 DEF Damaged, Broken
  <2> QED BY <1>8, <2>3, <2>4
<1>9. CASE damage = "no" /\ file' = Cat(file, frame) /\ damage' = "inside"
  <2>1. \A ids : Damaged("inside", frame, table, ids) BY <1>1 DEF Damaged
  <2> QED BY <1>6, <1>9, <2>1
<1> QED BY <1>7, <1>8, <1>9 DEF Write, Cat

LEMMA AnnounceFile ==
  ASSUME NEW callsite \in Callsites, Announce(callsite), Ids,
         NEW c, NEW k, NEW whole, NEW tail,
         FileIs(c, k, whole, tail, file, Expected, announced, damage)
  PROVE  \E e, l, w, t : FileIs(e, l, w, t, file', Expected', announced', damage')
<1>1. PICK n \in Nat : n = Len(announced) BY DEF Ids
<1>2. PICK m : m = CallsiteMetadata(callsite, n) OBVIOUS
<1>3. PICK value : value = DecodedMetadata(m) OBVIOUS
<1>4. PICK frame, counts : frame = EncodeMetadata(m) /\ counts = {Len(m.fields)} OBVIOUS
<1>5. callsite \notin ToSet(announced) /\ announced' = Append(announced, callsite)
      /\ written' = written
  BY DEF Announce, Announced
<1>6. n \in 0..(Limit - 1)
  <2>1. PICK more \in Seq(Callsites) : IsInjective(more) /\ Len(more) = n + 1
    BY <1>1, <1>5, AppendedId DEF Ids
  <2>2. n + 1 < Limit BY <2>1, FewIds
  <2> QED BY <1>1, <2>2, Widths
<1>7. /\ m \in AnyMetadata /\ m.fields = callsite.fields
      /\ value.frame = "metadata" /\ value.id = n /\ value.level = callsite.level
      /\ value.target = callsite.target /\ value.name = callsite.name
  BY <1>2, <1>3, <1>6, MetadataIs
<1>8. Fine(frame, counts, value) BY <1>3, <1>4, <1>7, MetadataFine
<1>9. Write(frame, counts) BY <1>1, <1>2, <1>4, <1>7 DEF Announce
<1>10. /\ Parse(c, k, whole) /\ file = Cat(whole, tail) /\ c[k].lines = Expected
       /\ Damaged(damage, tail, c[k].table, announced)
  BY DEF FileIs
<1>11. whole \in Blob BY <1>10 DEF Parse
<1>12. PICK table : table = c[k].table OBVIOUS
<1>13. PICK lines : lines = Expected OBVIOUS
<1>14. Expected' = lines BY <1>5, <1>13 DEF Expected
<1>15. CASE /\ damage = "no" /\ damage' = "no" /\ tail = <<>> /\ Known(table, announced)
            /\ Measured(frame, counts) /\ Decodes(frame, value) /\ file' = Cat(whole, frame)
  <2>1. PICK d : d = At(Cat(whole, frame), WithMetadata(table, value), lines) OBVIOUS
  <2>2. /\ d.read = Cat(whole, frame) /\ d.table = WithMetadata(table, value)
        /\ d.lines = lines
    BY <2>1 DEF At
  <2>3. Reads(c[k], value, d) BY <1>7, <1>10, <1>12, <1>13, <2>2 DEF Reads
  <2>4. PICK e : Parse(e, k + 1, Cat(whole, frame)) /\ e[k + 1] = d
    BY <1>10, <1>15, <2>2, <2>3, ParseGrows
  <2>5. Known(d.table, announced')
    <3>1. PICK more : more = Append(announced, callsite) OBVIOUS
    <3>2. /\ DOMAIN more = 1..(n + 1) /\ more[n + 1] = callsite
          /\ \A i \in 1..n : more[i] = announced[i]
      BY <1>1, <3>1 DEF Ids
    <3>3. DOMAIN announced = 1..n BY <1>1 DEF Ids
    <3>4. ASSUME NEW i \in DOMAIN more
          PROVE  /\ i - 1 \in DOMAIN d.table
                 /\ d.table[i - 1].level = more[i].level
                 /\ d.table[i - 1].target = more[i].target
                 /\ d.table[i - 1].name = more[i].name
      <4>1. CASE i = n + 1
        <5>1. i - 1 = n BY <1>1, <4>1
        <5> QED BY <1>7, <2>2, <3>2, <4>1, <5>1 DEF WithMetadata
      <4>2. CASE i # n + 1
        <5>1. i \in 1..n BY <1>1, <3>2, <4>2
        <5>2. PICK x : x = i - 1 OBVIOUS
        <5>3. x # n BY <1>1, <5>1, <5>2
        <5>4. /\ x \in DOMAIN table
              /\ table[x].level = announced[i].level /\ table[x].target = announced[i].target
              /\ table[x].name = announced[i].name
          BY <1>15, <3>3, <5>1, <5>2 DEF Known
        <5>5. x \in DOMAIN d.table /\ d.table[x] = table[x]
          BY <1>7, <2>2, <5>3, <5>4 DEF WithMetadata
        <5> QED BY <3>2, <5>1, <5>2, <5>4, <5>5
      <4> QED BY <4>1, <4>2
    <3> QED BY <1>5, <3>1, <3>4 DEF Known
  <2>6. file' = Cat(Cat(whole, frame), <<>>)
    <3>1. frame \in Blob BY <1>8 DEF Fine
    <3>2. Cat(whole, frame) \in Blob BY <1>11, <3>1, CatJoined
    <3> QED BY <1>15, <3>2, Empty
  <2>7. Damaged("no", <<>>, e[k + 1].table, announced') BY <2>4, <2>5, Empty DEF Damaged
  <2>8. FileIs(e, k + 1, Cat(whole, frame), <<>>, file', Expected', announced', damage')
    BY <1>14, <1>15, <2>2, <2>4, <2>6, <2>7 DEF FileIs
  <2> QED BY <2>8
<1>16. ASSUME NEW t, file' = Cat(whole, t), damage' # "no",
              \A ids : Damaged(damage', t, table, ids)
       PROVE  FileIs(c, k, whole, t, file', Expected', announced', damage')
  BY <1>10, <1>12, <1>13, <1>14, <1>16 DEF FileIs
<1>17. \/ /\ damage = "no" /\ damage' = "no" /\ tail = <<>> /\ Known(table, announced)
          /\ Measured(frame, counts) /\ Decodes(frame, value) /\ file' = Cat(whole, frame)
       \/ \E t : /\ file' = Cat(whole, t) /\ damage' # "no"
                 /\ \A ids : Damaged(damage', t, table, ids)
  BY <1>8, <1>9, <1>10, <1>11, <1>12, FrameAppended
<1> QED BY <1>15, <1>16, <1>17

(* The lines owed grow with the lines written.                             *)
LEMMA ExpectedGrows ==
  ASSUME AllEscaped, NEW line, written' = Append(written, line)
  PROVE  Expected' = Append(Expected, WithoutEmptyList(line))
<1>1. PICK n \in Nat : n = Len(written) /\ DOMAIN written = 1..n BY DEF AllEscaped
<1>2. PICK more : more = Append(written, line) OBVIOUS
<1>3. DOMAIN more = 1..(n + 1) /\ more[n + 1] = line /\ \A i \in 1..n : more[i] = written[i]
  <2>1. PICK S : written \in Seq(S) BY DEF AllEscaped
  <2> QED BY <1>1, <1>2, <2>1
<1>4. PICK lines : lines = Expected OBVIOUS
<1>5. lines = [i \in 1..n |-> WithoutEmptyList(written[i])]
  BY <1>1, <1>4 DEF Expected, WithoutEmptyList
<1>6. Expected' = [i \in 1..(n + 1) |-> WithoutEmptyList(more[i])]
  BY <1>2, <1>3 DEF Expected, WithoutEmptyList
<1>7. PICK w : w = WithoutEmptyList(line) OBVIOUS
<1>8. PICK S : S = {lines[i] : i \in 1..n} \union {w} OBVIOUS
<1>9. lines \in Seq(S) /\ Len(lines) = n /\ w \in S
  <2>1. \A i \in 1..n : lines[i] \in S BY <1>8
  <2>2. lines \in [1..n -> S] BY <1>5, <2>1
  <2> QED BY <1>1, <1>8, <2>2
<1>10. PICK added : added = Append(lines, w) OBVIOUS
<1>11. /\ added \in Seq(S) /\ Len(added) = n + 1 /\ added[n + 1] = w
       /\ \A i \in 1..n : added[i] = lines[i]
  BY <1>1, <1>9, <1>10
<1>12. added = [i \in 1..(n + 1) |-> added[i]] BY <1>11
<1>13. \A i \in 1..(n + 1) : added[i] = WithoutEmptyList(more[i])
  <2> TAKE i \in 1..(n + 1)
  <2>1. CASE i = n + 1 BY <1>3, <1>7, <1>11, <2>1
  <2>2. CASE i # n + 1
    <3>1. i \in 1..n BY <1>1, <2>2
    <3> QED BY <1>3, <1>5, <1>11, <3>1
  <2> QED BY <2>1, <2>2
<1>14. Expected' = added BY <1>6, <1>12, <1>13
<1> QED BY <1>4, <1>7, <1>10, <1>14

LEMMA LogFile ==
  ASSUME NEW event \in Events, Log(event), Ids, AllEscaped,
         config \in [current_span : BOOLEAN, span_list : BOOLEAN],
         NEW c, NEW k, NEW whole, NEW tail,
         FileIs(c, k, whole, tail, file, Expected, announced, damage)
  PROVE  \E e, l, w, t : FileIs(e, l, w, t, file', Expected', announced', damage')
<1>1. PICK r : r = OwnedRecord(event) OBVIOUS
<1>2. PICK value : value = DecodedEvent(config, r) OBVIOUS
<1>3. PICK frame, counts : frame = EncodeRecord(config, r) /\ counts = Counts(r) OBVIOUS
<1>4. PICK line : line = NdjsonRecord(config, r) OBVIOUS
<1>5. /\ Needed(event) \subseteq Announced /\ Write(frame, counts) /\ announced' = announced
      /\ written' = IF damage' = "no" THEN Append(written, line) ELSE written
  BY <1>1, <1>3, <1>4 DEF Log
<1>6. /\ r \in AnyEvent /\ r.seconds >= 1 /\ r.nanos < Power(10, FractionDigits)
      /\ r.metadata_id = Id(event.callsite) /\ event.callsite \in Announced
      /\ r.level = event.callsite.level /\ r.target = event.callsite.target
      /\ r.name = event.callsite.name
  BY <1>1, <1>5, RecordIs
<1>7. Fine(frame, counts, value) /\ (Measured(frame, counts) => r \in EventRecord)
  BY <1>2, <1>3, <1>6, RecordFine
<1>8. value.frame = "event" /\ value.metadata_id = r.metadata_id BY <1>2 DEF DecodedEvent
<1>9. /\ Parse(c, k, whole) /\ file = Cat(whole, tail) /\ c[k].lines = Expected
      /\ Damaged(damage, tail, c[k].table, announced)
  BY DEF FileIs
<1>10. whole \in Blob BY <1>9 DEF Parse
<1>11. PICK table, lines : table = c[k].table /\ lines = Expected OBVIOUS
<1>12. CASE /\ damage = "no" /\ damage' = "no" /\ tail = <<>> /\ Known(table, announced)
            /\ Measured(frame, counts) /\ Decodes(frame, value) /\ file' = Cat(whole, frame)
  <2>1. PICK id : id = r.metadata_id OBVIOUS
  <2>2. \E i \in DOMAIN announced : id = i - 1 /\ announced[i] = event.callsite
    BY <1>6, <2>1, IdIs
  <2>3. /\ id \in DOMAIN table /\ table[id].level = r.level /\ table[id].target = r.target
        /\ table[id].name = r.name
    BY <1>6, <1>12, <2>2 DEF Known
  <2>4. DecodedLine(table[id], value) = WithoutEmptyList(line)
    BY <1>2, <1>4, <1>6, <1>7, <1>12, <2>3, SameLine
  <2>5. PICK d : d = At(Cat(whole, frame), table, Append(lines, WithoutEmptyList(line))) OBVIOUS
  <2>6. /\ d.read = Cat(whole, frame) /\ d.table = table
        /\ d.lines = Append(lines, WithoutEmptyList(line))
    BY <2>5 DEF At
  <2>7. Reads(c[k], value, d)
    BY <1>8, <1>9, <1>11, <2>1, <2>3, <2>4, <2>6 DEF Reads
  <2>8. PICK e : Parse(e, k + 1, Cat(whole, frame)) /\ e[k + 1] = d
    BY <1>9, <1>12, <2>6, <2>7, ParseGrows
  <2>9. written' = Append(written, line) BY <1>5, <1>12
  <2>10. Expected' = Append(lines, WithoutEmptyList(line)) BY <1>11, <2>9, ExpectedGrows
  <2>11. file' = Cat(Cat(whole, frame), <<>>)
    <3>1. frame \in Blob BY <1>7 DEF Fine
    <3>2. Cat(whole, frame) \in Blob BY <1>10, <3>1, CatJoined
    <3> QED BY <1>12, <3>2, Empty
  <2>12. Damaged("no", <<>>, e[k + 1].table, announced')
    BY <1>5, <1>12, <2>6, <2>8, Empty DEF Damaged
  <2>13. FileIs(e, k + 1, Cat(whole, frame), <<>>, file', Expected', announced', damage')
    BY <1>12, <2>6, <2>8, <2>10, <2>11, <2>12 DEF FileIs
  <2> QED BY <2>13
<1>13. ASSUME NEW t, file' = Cat(whole, t), damage' # "no",
              \A ids : Damaged(damage', t, table, ids)
       PROVE  FileIs(c, k, whole, t, file', Expected', announced', damage')
  <2>1. written' = written BY <1>5, <1>13
  <2>2. Expected' = lines BY <1>11, <2>1 DEF Expected
  <2> QED BY <1>9, <1>11, <1>13, <2>2 DEF FileIs
<1>14. \/ /\ damage = "no" /\ damage' = "no" /\ tail = <<>> /\ Known(table, announced)
          /\ Measured(frame, counts) /\ Decodes(frame, value) /\ file' = Cat(whole, frame)
       \/ \E t : /\ file' = Cat(whole, t) /\ damage' # "no"
                 /\ \A ids : Damaged(damage', t, table, ids)
  BY <1>5, <1>7, <1>9, <1>10, <1>11, FrameAppended
<1> QED BY <1>12, <1>13, <1>14

-----------------------------------------------------------------------------
(* redline-decode walks along the parse, and past its end only where the   *)
(* log is damaged.                                                         *)

OnPath(c, k, bytes, rest, table, lines) ==
  \E i \in 0..k : bytes = Cat(c[i].read, rest) /\ table = c[i].table /\ lines = c[i].lines

ReadIs(c, k, bytes, owed, state, read, rest, table, lines) ==
  /\ read = "logging" => rest = <<>> /\ table = <<>> /\ lines = <<>>
  /\ read = "decoding" =>
       \/ OnPath(c, k, bytes, rest, table, lines)
       \/ state = "inside" /\ IsPrefix(owed, lines)
  /\ read \notin {"logging", "decoding"} =>
       /\ state = "no" => read = "ok" /\ lines = owed
       /\ state = "torn" => read = "UnexpectedEof" /\ lines = owed
       /\ state = "inside" => IsPrefix(owed, lines)

LEMMA PrefixGrows ==
  /\ \A S : \A s \in Seq(S) : IsPrefix(s, s)
  /\ \A S, s, x : \A t \in Seq(S) :
       Len(s) \in Nat /\ IsPrefix(s, t) => IsPrefix(s, Append(t, x))
<1>1. \A S : \A s \in Seq(S) : IsPrefix(s, s) BY DEF IsPrefix
<1>2. ASSUME NEW S, NEW s, NEW x, NEW t \in Seq(S), Len(s) \in Nat, IsPrefix(s, t)
      PROVE  IsPrefix(s, Append(t, x))
  <2>1. PICK n \in Nat, m \in Nat : n = Len(s) /\ m = Len(t) /\ n <= m BY <1>2 DEF IsPrefix
  <2>2. PICK more : more = Append(t, x) OBVIOUS
  <2>3. PICK T : T = S \union {x} OBVIOUS
  <2>4. t \in Seq(T) /\ x \in T BY <2>3, SeqMonotonic
  <2>5. /\ more \in Seq(T) /\ Len(more) = m + 1 /\ \A i \in 1..m : more[i] = t[i]
    BY <2>1, <2>2, <2>4
  <2>6. SubSeq(more, 1, n) = SubSeq(t, 1, n)
    <3>1. PICK a, b : a = SubSeq(more, 1, n) /\ b = SubSeq(t, 1, n) OBVIOUS
    <3>2. a = [i \in 1..n |-> more[i]] BY <2>1, <2>5, <3>1
    <3>3. b = [i \in 1..n |-> t[i]] BY <2>1, <2>4, <3>1
    <3>4. \A i \in 1..n : more[i] = t[i] BY <2>1, <2>5
    <3> QED BY <3>1, <3>2, <3>3, <3>4
  <2>7. SubSeq(s, 1, n) = SubSeq(t, 1, n) BY <1>2, <2>1 DEF IsPrefix
  <2>8. n <= Len(more) BY <2>1, <2>5
  <2>9. IsPrefix(s, more) BY <2>1, <2>6, <2>7, <2>8 DEF IsPrefix
  <2> QED BY <2>2, <2>9
<1> QED BY <1>1, <1>2

LEMMA NotEmpty == \A s, t \in Blob : s # <<>> => Cat(s, t) # <<>>
<1> TAKE s \in Blob, t \in Blob
<1>1. Len(s) <= Len(Cat(s, t)) /\ Len(s) \in Nat BY CatJoined
<1>2. s # <<>> => Len(s) # 0 BY EmptySeq DEF Blob
<1>3. Cat(s, t) = <<>> => Len(Cat(s, t)) = 0 OBVIOUS
<1> QED BY <1>1, <1>2, <1>3

(* Before the end of the parse, the next frame is the one of the parse.    *)
LEMMA OnTheWay ==
  ASSUME NEW c, NEW k, NEW whole, NEW tail, NEW bytes, NEW lines, NEW ids, NEW state,
         FileIs(c, k, whole, tail, bytes, lines, ids, state),
         NEW i \in 0..k, i # k, NEW rest \in Blob, bytes = Cat(c[i].read, rest)
  PROVE  \E value, after :
           /\ after \in Blob /\ rest # <<>> /\ DecodeFrame(rest) = Took(value, after)
           /\ Reads(c[i], value, c[i + 1]) /\ bytes = Cat(c[i + 1].read, after)
<1>1. Parse(c, k, whole) /\ bytes = Cat(whole, tail) /\ tail \in Blob BY DEF FileIs, Damaged
<1>2. k \in Nat /\ i + 1 \in 0..k BY <1>1 DEF Parse
<1>3. PICK read \in Blob : read = c[i].read BY <1>1 DEF Parse, Within
<1>4. PICK frame, value : /\ Decodes(frame, value) /\ Reads(c[i], value, c[i + 1])
                          /\ c[i + 1].read = Cat(read, frame)
  BY <1>1, <1>3 DEF Parse, Follows
<1>5. frame \in Blob /\ frame # <<>> BY <1>4 DEF Decodes
<1>6. PICK left \in Blob : whole = Cat(Cat(read, frame), left)
  BY <1>1, <1>2, <1>4 DEF Parse, Within
<1>7. PICK after \in Blob : after = Cat(left, tail) BY <1>1, CatJoined
<1>8. PICK next \in Blob : next = Cat(read, frame) BY <1>5, CatJoined
<1>9. bytes = Cat(next, after) BY <1>1, <1>6, <1>7, <1>8, Regroup
<1>10. bytes = Cat(read, Cat(frame, after)) BY <1>5, <1>8, <1>9, Regroup
<1>11. rest = Cat(frame, after)
  <2>1. Cat(frame, after) \in Blob BY <1>5, CatJoined
  <2> QED BY <1>3, <1>10, <2>1, Cancelled
<1>12. rest # <<>> BY <1>5, <1>11, NotEmpty
<1>13. DecodeFrame(rest) = Took(value, after) BY <1>4, <1>11 DEF Decodes
<1> QED BY <1>4, <1>8, <1>9, <1>12, <1>13

(* At its end, what is left is what is damaged.                            *)
LEMMA AtTheEnd ==
  ASSUME NEW c, NEW k, NEW whole, NEW tail, NEW bytes, NEW lines, NEW ids, NEW state,
         FileIs(c, k, whole, tail, bytes, lines, ids, state),
         NEW rest \in Blob, bytes = Cat(c[k].read, rest)
  PROVE  c[k].lines = lines /\ Damaged(state, rest, c[k].table, ids)
<1>1. Parse(c, k, whole) /\ bytes = Cat(whole, tail) /\ tail \in Blob BY DEF FileIs, Damaged
<1>2. c[k].read = whole /\ whole \in Blob BY <1>1 DEF Parse
<1>3. rest = tail BY <1>1, <1>2, Cancelled
<1> QED BY <1>3 DEF FileIs

LEMMA ReadFrameWalks ==
  ASSUME NEW c, NEW k, NEW whole, NEW tail,
         FileIs(c, k, whole, tail, file, Expected, announced, damage),
         ReadIs(c, k, file, Expected, damage, result, cursor, metadata, out),
         cursor \in Blob, AllEscaped, ReadFrame
  PROVE  ReadIs(c, k, file, Expected, damage, result', cursor', metadata', out')
<1>1. PICK bytes, owed, ids, state : bytes = file /\ owed = Expected /\ ids = announced /\ state = damage
  OBVIOUS
<1>2. result = "decoding" /\ cursor # <<>> BY DEF ReadFrame, Reading
<1>3. PICK read : /\ read = DecodeFrame(cursor)
                  /\ IF read.error = None
                     THEN MetadataRead(read) \/ EventRead(read) \/ UnknownMetadata(read)
                     ELSE ReadError(read)
  BY DEF ReadFrame
<1>4. state \in {"no", "torn", "inside"} BY <1>1 DEF FileIs, Damaged
<1>5. FileIs(c, k, whole, tail, bytes, owed, ids, state) BY <1>1
<1>6. k \in Nat BY <1>5 DEF FileIs, Parse
<1>7. PICK S : out \in Seq(S) BY DEF AllEscaped
<1>8. Len(owed) \in Nat
  <2>1. PICK n \in Nat : n = Len(written) /\ DOMAIN written = 1..n BY DEF AllEscaped
  <2>2. DOMAIN owed = 1..n BY <1>1, <2>1 DEF Expected
  <2>3. Len(owed) = n BY <2>1, <2>2
  <2> QED BY <2>3
<1>9. ASSUME state = "inside", IsPrefix(owed, out)
      PROVE  ReadIs(c, k, bytes, owed, state, result', cursor', metadata', out')
  <2>1. \/ out' = out
        \/ \E line : out' = Append(out, line)
    BY <1>3 DEF MetadataRead, EventRead, UnknownMetadata, ReadError, decoderVars
  <2>2. IsPrefix(owed, out') BY <1>7, <1>8, <1>9, <2>1, PrefixGrows
  <2>3. result' # "logging"
    <3>1. CASE read.error = None
      BY <1>2, <1>3, <3>1 DEF MetadataRead, EventRead, UnknownMetadata
    <3>2. CASE read.error # None
      <4>1. read.error \in ReadErrors BY <1>3, <3>2, FrameSound DEF Sound
      <4> QED BY <1>3, <3>2, <4>1 DEF ReadError, ReadErrors
    <3> QED BY <3>1, <3>2
  <2> QED BY <1>9, <2>2, <2>3 DEF ReadIs
<1>10. ASSUME NEW i \in 0..k, i # k, bytes = Cat(c[i].read, cursor), metadata = c[i].table,
              out = c[i].lines
       PROVE  ReadIs(c, k, bytes, owed, state, result', cursor', metadata', out')
  <2>1. PICK value, after :
          /\ after \in Blob /\ DecodeFrame(cursor) = Took(value, after)
          /\ Reads(c[i], value, c[i + 1]) /\ bytes = Cat(c[i + 1].read, after)
    BY <1>5, <1>10, OnTheWay
  <2>2. read.error = None /\ read.value = value /\ read.rest = after BY <1>3, <2>1 DEF Took
  <2>3. i + 1 \in 0..k BY <1>6, <1>10
  <2>4. cursor' = after /\ result' = result /\ metadata' = c[i + 1].table /\ out' = c[i + 1].lines
    <3>1. CASE value.frame = "metadata"
      <4>1. MetadataRead(read) BY <1>3, <2>2, <3>1 DEF EventRead, UnknownMetadata
      <4>2. /\ c[i + 1].table = WithMetadata(c[i].table, value)
            /\ c[i + 1].lines = c[i].lines
        BY <2>1, <3>1 DEF Reads
      <4> QED BY <1>10, <2>2, <4>1, <4>2 DEF MetadataRead, WithMetadata
    <3>2. CASE value.frame = "event"
      <4>1. /\ value.metadata_id \in DOMAIN metadata
            /\ c[i + 1].table = c[i].table
            /\ c[i + 1].lines = Append(out, DecodedLine(metadata[value.metadata_id], value))
        BY <1>10, <2>1, <3>2 DEF Reads
      <4>2. EventRead(read) BY <1>3, <2>2, <3>2, <4>1 DEF MetadataRead, UnknownMetadata
      <4> QED BY <1>10, <2>2, <4>1, <4>2 DEF EventRead
    <3> QED BY <2>1, <3>1, <3>2 DEF Reads
  <2>5. OnPath(c, k, bytes, cursor', metadata', out') BY <2>1, <2>3, <2>4 DEF OnPath
  <2> QED BY <1>2, <2>4, <2>5 DEF ReadIs
<1>11. ASSUME bytes = Cat(c[k].read, cursor), out = c[k].lines
       PROVE  ReadIs(c, k, bytes, owed, state, result', cursor', metadata', out')
  <2>1. out = owed /\ Damaged(state, cursor, c[k].table, ids) BY <1>5, <1>11, AtTheEnd
  <2>2. state # "no" BY <1>2, <2>1 DEF Damaged
  <2>3. CASE state = "torn"
    <3>1. DecodeFrame(cursor) = Failed("UnexpectedEof") BY <2>1, <2>3 DEF Damaged, Broken
    <3>2. read.error = "UnexpectedEof" /\ read.error # None
      BY <1>3, <3>1, NoErrors DEF Failed
    <3>3. result' = "UnexpectedEof" /\ out' = out
      BY <1>3, <3>2 DEF ReadError, decoderVars
    <3> QED BY <2>1, <2>3, <3>3 DEF ReadIs
  <2>4. CASE state = "inside"
    <3>1. IsPrefix(owed, out) BY <1>7, <2>1, PrefixGrows
    <3> QED BY <1>9, <2>4, <3>1
  <2> QED BY <1>4, <2>2, <2>3, <2>4
<1>12. OnPath(c, k, bytes, cursor, metadata, out) \/ (state = "inside" /\ IsPrefix(owed, out))
  BY <1>1, <1>2 DEF ReadIs
<1>13. ReadIs(c, k, bytes, owed, state, result', cursor', metadata', out')
  BY <1>9, <1>10, <1>11, <1>12 DEF OnPath
<1> QED BY <1>1, <1>13

LEMMA DecodeEndWalks ==
  ASSUME NEW c, NEW k, NEW whole, NEW tail,
         FileIs(c, k, whole, tail, file, Expected, announced, damage),
         ReadIs(c, k, file, Expected, damage, result, cursor, metadata, out),
         cursor \in Blob, AllEscaped, DecodeEnd
  PROVE  ReadIs(c, k, file, Expected, damage, result', cursor', metadata', out')
<1>1. PICK bytes, owed, ids, state : bytes = file /\ owed = Expected /\ ids = announced /\ state = damage
  OBVIOUS
<1>2. /\ result = "decoding" /\ cursor = <<>> /\ result' = "ok"
      /\ cursor' = cursor /\ metadata' = metadata /\ out' = out
  BY DEF DecodeEnd, decoderVars
<1>3. FileIs(c, k, whole, tail, bytes, owed, ids, state) BY <1>1
<1>4. PICK S : out \in Seq(S) BY DEF AllEscaped
<1>5. ASSUME NEW i \in 0..k, bytes = Cat(c[i].read, cursor), out = c[i].lines
      PROVE  out = owed /\ state # "torn"
  <2>1. i = k BY <1>2, <1>3, <1>5, OnTheWay
  <2>2. out = owed /\ Damaged(state, cursor, c[k].table, ids) BY <1>3, <1>5, <2>1, AtTheEnd
  <2>3. state # "torn" BY <1>2, <2>2 DEF Damaged, Broken
  <2> QED BY <2>2, <2>3
<1>6. \/ out = owed /\ state # "torn"
      \/ state = "inside" /\ IsPrefix(owed, out)
  BY <1>1, <1>2, <1>5 DEF ReadIs, OnPath
<1>7. out = owed => IsPrefix(owed, out) BY <1>4, PrefixGrows
<1>8. ReadIs(c, k, bytes, owed, state, result', cursor', metadata', out')
  BY <1>2, <1>6, <1>7 DEF ReadIs
<1> QED BY <1>1, <1>8

-----------------------------------------------------------------------------
(* The invariant.                                                          *)

WholeLog ==
  \E c, k, whole, tail :
    /\ FileIs(c, k, whole, tail, file, Expected, announced, damage)
    /\ ReadIs(c, k, file, Expected, damage, result, cursor, metadata, out)

LogInv == TypeOK /\ AllEscaped /\ WholeLog

LEMMA WriteTypes ==
  ASSUME TypeOK, frames < MaxFrames, NEW frame, NEW counts, NEW value, Fine(frame, counts, value),
         Write(frame, counts)
  PROVE  /\ file' \in Blob /\ Len(file) <= Len(file')
         /\ frames' \in 0..MaxFrames /\ damage' \in {"no", "torn", "inside"}
<1>1. PICK old \in Blob : old = file BY DEF TypeOK
<1>2. frame \in Blob /\ Len(frame) \in Nat BY DEF Fine
<1>3. frames' \in 0..MaxFrames BY LogAssumption DEF Write, TypeOK
<1>4. damage' \in {"no", "torn", "inside"} BY DEF Write, TypeOK
<1>5. \E more \in Blob : file' = Cat(old, more)
  <2>1. CASE file' = old \o frame BY <1>2, <2>1 DEF Cat
  <2>2. ASSUME NEW n \in 1..(Len(frame) - 1), file' = old \o SubSeq(frame, 1, n)
        PROVE  \E more \in Blob : file' = Cat(old, more)
    <3>1. SubSeq(frame, 1, n) \in Blob
      <4>1. n \in 0..Len(frame) BY <1>2
      <4> QED BY <1>2, <4>1, PrefixOf DEF Blob
    <3> QED BY <2>2, <3>1 DEF Cat
  <2> QED BY <1>1, <2>1, <2>2 DEF Write
<1>6. PICK more \in Blob : file' = Cat(old, more) BY <1>5
<1>7. Cat(old, more) \in Blob /\ Len(old) <= Len(Cat(old, more)) BY CatJoined
<1> QED BY <1>1, <1>3, <1>4, <1>6, <1>7

LEMMA InitLog == Init => LogInv
<1> SUFFICES ASSUME Init PROVE LogInv OBVIOUS
<1>1. <<>> \in Blob /\ <<>> = Cat(<<>>, <<>>) BY Empty
<1>2. TypeOK
  <2>1. /\ config \in [current_span : BOOLEAN, span_list : BOOLEAN]
        /\ file = <<>> /\ cursor = <<>> /\ announced = <<>> /\ frames = 0 /\ runs = 1
        /\ damage = "no" /\ out = <<>> /\ metadata = <<>> /\ result = "logging"
    BY DEF Init
  <2>2. file \in Blob /\ cursor \in Blob BY <1>1, <2>1
  <2>3. announced \in Seq(Callsites) /\ IsInjective(announced) BY <2>1 DEF IsInjective
  <2>4. frames \in 0..MaxFrames /\ runs \in Nat BY <2>1, LogAssumption
  <2>5. Len(out) + Len(cursor) <= Len(file) BY <2>1
  <2>6. \A id \in DOMAIN metadata : metadata[id].id = id BY <2>1
  <2> QED BY <2>1, <2>2, <2>3, <2>4, <2>5, <2>6 DEF TypeOK
<1>3. WholeLog
  <2>1. PICK c : Parse(c, 0, <<>>) /\ c[0] = At(<<>>, <<>>, <<>>) BY ParseBegins
  <2>2. file = <<>> /\ announced = <<>> /\ damage = "no" /\ written = <<>> /\ cursor = <<>>
        /\ metadata = <<>> /\ out = <<>> /\ result = "logging"
    BY DEF Init
  <2>3. Expected = <<>> BY <2>2 DEF Expected
  <2>4. Damaged("no", <<>>, c[0].table, <<>>) BY <1>1 DEF Damaged, Known
  <2>5. c[0].lines = <<>> BY <2>1 DEF At
  <2>6. FileIs(c, 0, <<>>, <<>>, file, Expected, announced, damage)
    BY <1>1, <2>1, <2>2, <2>3, <2>4, <2>5 DEF FileIs
  <2>7. ReadIs(c, 0, file, Expected, damage, result, cursor, metadata, out) BY <2>2 DEF ReadIs
  <2> QED BY <2>6, <2>7 DEF WholeLog
<1> QED BY <1>2, <1>3, InitEscaped DEF LogInv

(* What is written before decoding begins.                                 *)
LEMMA LoggingStep ==
  ASSUME LogInv, AllEscaped',
         (\E callsite \in Callsites : Announce(callsite)) \/ (\E event \in Events : Log(event)) \/ Restart
  PROVE  LogInv'
<1>1. Ids /\ TypeOK /\ AllEscaped BY DEF LogInv, TypeOK, Ids
<1>2. config \in [current_span : BOOLEAN, span_list : BOOLEAN] BY <1>1 DEF TypeOK
<1>3. PICK c, k, whole, tail :
        /\ FileIs(c, k, whole, tail, file, Expected, announced, damage)
        /\ ReadIs(c, k, file, Expected, damage, result, cursor, metadata, out)
  BY DEF LogInv, WholeLog
<1>4. /\ result = "logging" /\ frames < MaxFrames
      /\ UNCHANGED <<config, cursor, metadata, out, result>>
  BY DEF Announce, Log, Restart, Logging, decoderVars
<1>5. cursor = <<>> /\ metadata = <<>> /\ out = <<>> BY <1>3, <1>4 DEF ReadIs
<1>6. \A e, l, bytes, owed, state : ReadIs(e, l, bytes, owed, state, result', cursor', metadata', out')
  BY <1>4, <1>5 DEF ReadIs
<1>7. ASSUME \E e, l, w, t : FileIs(e, l, w, t, file', Expected', announced', damage')
      PROVE  WholeLog'
  BY <1>6, <1>7 DEF WholeLog
<1>8. ASSUME announced' \in Seq(Callsites), IsInjective(announced'), file' \in Blob,
             Len(file) <= Len(file'), frames' \in 0..MaxFrames, runs' \in Nat,
             damage' \in {"no", "torn", "inside"}
      PROVE  TypeOK'
  <2>1. Len(out') + Len(cursor') <= Len(file')
    <3>1. Len(out) + Len(cursor) <= Len(file) /\ file \in Blob BY <1>1 DEF TypeOK
    <3>2. Len(out) = 0 /\ Len(cursor) = 0 BY <1>5
    <3>3. Len(file) \in Nat /\ Len(file') \in Nat BY <1>8, <3>1 DEF Blob
    <3> QED BY <1>4, <1>8, <3>1, <3>2, <3>3
  <2> QED BY <1>1, <1>4, <1>8, <2>1 DEF TypeOK
<1>9. ASSUME NEW callsite \in Callsites, Announce(callsite) PROVE LogInv'
  <2>1. WholeLog' BY <1>1, <1>3, <1>7, <1>9, AnnounceFile
  <2>2. PICK n \in Nat : n = Len(announced) BY <1>1 DEF Ids
  <2>3. callsite \notin ToSet(announced) /\ announced' = Append(announced, callsite) /\ runs' = runs
    BY <1>9 DEF Announce, Announced
  <2>4. announced' \in Seq(Callsites) /\ IsInjective(announced') /\ Len(announced') = n + 1
    BY <1>1, <2>2, <2>3, AppendedId DEF Ids
  <2>5. n \in 0..(Limit - 1)
    <3>1. PICK more \in Seq(Callsites) : more = announced' /\ IsInjective(more) BY <2>4
    <3>2. n + 1 < Limit BY <2>4, <3>1, FewIds
    <3> QED BY <2>2, <3>2, Widths
  <2>6. PICK m : m = CallsiteMetadata(callsite, n) OBVIOUS
  <2>7. m \in AnyMetadata /\ m.fields = callsite.fields BY <2>5, <2>6, MetadataIs
  <2>8. Fine(EncodeMetadata(m), {Len(m.fields)}, DecodedMetadata(m)) BY <2>7, MetadataFine
  <2>9. Write(EncodeMetadata(m), {Len(m.fields)}) BY <1>9, <2>2, <2>6, <2>7 DEF Announce
  <2>10. /\ file' \in Blob /\ Len(file) <= Len(file') /\ frames' \in 0..MaxFrames
         /\ damage' \in {"no", "torn", "inside"}
    BY <1>1, <1>4, <2>8, <2>9, WriteTypes
  <2>11. runs' \in Nat BY <1>1, <2>3 DEF TypeOK
  <2>12. TypeOK' BY <1>8, <2>4, <2>10, <2>11
  <2> QED BY <2>1, <2>12 DEF LogInv
<1>10. ASSUME NEW event \in Events, Log(event) PROVE LogInv'
  <2>1. WholeLog' BY <1>1, <1>2, <1>3, <1>7, <1>10, LogFile
  <2>2. PICK r : r = OwnedRecord(event) OBVIOUS
  <2>3. /\ Needed(event) \subseteq Announced /\ Write(EncodeRecord(config, r), Counts(r))
        /\ announced' = announced /\ runs' = runs
    BY <1>10, <2>2 DEF Log
  <2>4. r \in AnyEvent BY <1>1, <1>2, <2>2, <2>3, RecordIs
  <2>5. Fine(EncodeRecord(config, r), Counts(r), DecodedEvent(config, r)) BY <2>4, RecordFine
  <2>6. /\ file' \in Blob /\ Len(file) <= Len(file') /\ frames' \in 0..MaxFrames
        /\ damage' \in {"no", "torn", "inside"}
    BY <1>1, <1>4, <2>3, <2>5, WriteTypes
  <2>7. announced' \in Seq(Callsites) /\ IsInjective(announced') /\ runs' \in Nat
    BY <1>1, <2>3 DEF TypeOK
  <2>8. TypeOK' BY <1>8, <2>6, <2>7
  <2> QED BY <2>1, <2>8 DEF LogInv
<1>11. CASE Restart
  <2>1. /\ announced' = <<>> /\ runs' = runs + 1
        /\ file' = file /\ frames' = frames /\ damage' = damage /\ written' = written
    BY <1>11 DEF Restart
  <2>2. PICK bytes, owed : bytes = file /\ owed = Expected OBVIOUS
  <2>3. Expected' = owed BY <2>1, <2>2 DEF Expected
  <2>4. Damaged(damage, tail, c[k].table, <<>>) BY <1>3 DEF FileIs, Damaged, Known
  <2>5. FileIs(c, k, whole, tail, bytes, owed, <<>>, damage) BY <1>3, <2>2, <2>4 DEF FileIs
  <2>6. WholeLog' BY <1>7, <2>1, <2>2, <2>3, <2>5
  <2>7. <<>> \in Seq(Callsites) /\ IsInjective(<<>>) BY DEF IsInjective
  <2>8. /\ file' \in Blob /\ Len(file) <= Len(file') /\ frames' \in 0..MaxFrames
        /\ damage' \in {"no", "torn", "inside"} /\ runs' \in Nat
    <3>1. file \in Blob /\ Len(file) \in Nat /\ frames \in 0..MaxFrames /\ runs \in Nat
          /\ damage \in {"no", "torn", "inside"}
      BY <1>1 DEF TypeOK, Blob
    <3> QED BY <2>1, <3>1
  <2>9. TypeOK' BY <1>8, <2>1, <2>7, <2>8
  <2> QED BY <2>6, <2>9 DEF LogInv
<1> QED BY <1>9, <1>10, <1>11

LEMMA DecodeBegins == LogInv /\ AllEscaped' /\ BeginDecode => LogInv'
<1> SUFFICES ASSUME LogInv, AllEscaped', BeginDecode PROVE LogInv' OBVIOUS
<1>1. PICK c, k, whole, tail :
        /\ FileIs(c, k, whole, tail, file, Expected, announced, damage)
        /\ ReadIs(c, k, file, Expected, damage, result, cursor, metadata, out)
  BY DEF LogInv, WholeLog
<1>2. /\ result = "logging" /\ result' = "decoding" /\ cursor' = file
      /\ metadata' = metadata /\ out' = out /\ file' = file /\ written' = written
      /\ announced' = announced /\ damage' = damage /\ config' = config
      /\ frames' = frames /\ runs' = runs
  BY DEF BeginDecode, logVars
<1>3. metadata = <<>> /\ out = <<>> BY <1>1, <1>2 DEF ReadIs
<1>4. file \in Blob BY DEF LogInv, TypeOK
<1>5. PICK bytes, owed : bytes = file /\ owed = Expected OBVIOUS
<1>6. Expected' = owed BY <1>2, <1>5 DEF Expected
<1>7. /\ k \in Nat /\ c[0].read = <<>> /\ c[0].table = <<>> /\ c[0].lines = <<>>
  BY <1>1 DEF FileIs, Parse, At
<1>8. OnPath(c, k, bytes, bytes, <<>>, <<>>)
  <2>1. 0 \in 0..k BY <1>7
  <2>2. bytes = Cat(<<>>, bytes) BY <1>4, <1>5, Empty
  <2> QED BY <1>7, <2>1, <2>2 DEF OnPath
<1>9. ReadIs(c, k, bytes, owed, damage, "decoding", bytes, <<>>, <<>>) BY <1>8 DEF ReadIs
<1>10. WholeLog' BY <1>1, <1>2, <1>3, <1>5, <1>6, <1>9 DEF WholeLog
<1>11. TypeOK'
  <2>1. Len(out') + Len(cursor') <= Len(file')
    <3>1. Len(file) \in Nat /\ Len(out) = 0 BY <1>3, <1>4 DEF Blob
    <3> QED BY <1>2, <3>1
  <2> QED BY <1>2, <1>3, <2>1 DEF LogInv, TypeOK
<1> QED BY <1>10, <1>11 DEF LogInv

LEMMA ReadFrameTypes ==
  ASSUME TypeOK, AllEscaped, ReadFrame
  PROVE  /\ cursor' \in Blob /\ Len(out') + Len(cursor') <= Len(file)
         /\ \A id \in DOMAIN metadata' : metadata'[id].id = id
         /\ result' \in ReadErrors \union {"decoding", "UnknownMetadata"}
<1>1. result = "decoding" /\ cursor \in Blob BY DEF ReadFrame, Reading, TypeOK
<1>2. PICK read : /\ read = DecodeFrame(cursor)
                  /\ IF read.error = None
                     THEN MetadataRead(read) \/ EventRead(read) \/ UnknownMetadata(read)
                     ELSE ReadError(read)
  BY DEF ReadFrame
<1>3. /\ read.error \in {None} \union ReadErrors
      /\ read.error = None => read.rest \in Blob /\ Len(read.rest) < Len(cursor)
  BY <1>1, <1>2, FrameSound DEF Sound
<1>4. PICK n \in Nat, m \in Nat, size \in Nat :
        n = Len(out) /\ m = Len(cursor) /\ size = Len(file) /\ n + m <= size
  <2>1. Len(out) \in Nat BY DEF AllEscaped
  <2>2. Len(cursor) \in Nat /\ Len(file) \in Nat BY DEF TypeOK, Blob
  <2> QED BY <2>1, <2>2 DEF TypeOK
<1>5. \A id \in DOMAIN metadata : metadata[id].id = id BY DEF TypeOK
<1>6. CASE read.error = None /\ MetadataRead(read)
  <2>1. PICK left \in Nat : left = Len(read.rest) /\ left < m BY <1>3, <1>4, <1>6 DEF Blob
  <2>2. cursor' = read.rest /\ out' = out /\ result' = result BY <1>6 DEF MetadataRead
  <2>3. PICK table : table = metadata' OBVIOUS
  <2>4. table = WithMetadata(metadata, read.value)
    BY <1>6, <2>3 DEF MetadataRead, WithMetadata
  <2>5. \A id \in DOMAIN table : table[id].id = id BY <1>5, <2>4 DEF WithMetadata
  <2>6. n + left <= size BY <1>4, <2>1
  <2> QED BY <1>1, <1>3, <1>4, <1>6, <2>1, <2>2, <2>3, <2>5, <2>6
<1>7. CASE read.error = None /\ EventRead(read)
  <2>1. PICK left \in Nat : left = Len(read.rest) /\ left < m BY <1>3, <1>4, <1>7 DEF Blob
  <2>2. PICK line : out' = Append(out, line) BY <1>7 DEF EventRead
  <2>3. cursor' = read.rest /\ metadata' = metadata /\ result' = result BY <1>7 DEF EventRead
  <2>4. Len(out') = n + 1
    <3>1. PICK S : out \in Seq(S) BY DEF AllEscaped
    <3>2. PICK more : more = Append(out, line) OBVIOUS
    <3>3. Len(more) = n + 1 BY <1>4, <3>1, <3>2
    <3> QED BY <2>2, <3>2, <3>3
  <2>5. \A a, b, d, e \in Nat : b < d /\ a + d <= e => (a + 1) + b <= e OBVIOUS
  <2>6. n + m <= size /\ left < m BY <1>4, <2>1
  <2>7. (n + 1) + left <= size BY <2>5, <2>6
  <2>8. Len(out') + Len(cursor') <= Len(file) BY <1>4, <2>1, <2>3, <2>4, <2>7
  <2>9. \A id \in DOMAIN metadata' : metadata'[id].id = id BY <1>5, <2>3
  <2> QED BY <1>1, <1>3, <1>7, <2>3, <2>8, <2>9
<1>8. CASE read.error = None /\ UnknownMetadata(read)
  BY <1>1, <1>4, <1>5, <1>8 DEF UnknownMetadata, decoderVars
<1>9. CASE read.error # None
  BY <1>1, <1>2, <1>3, <1>4, <1>5, <1>9 DEF ReadError, decoderVars
<1> QED BY <1>2, <1>6, <1>7, <1>8, <1>9

LEMMA DecoderStep ==
  ASSUME LogInv, AllEscaped', Decoder
  PROVE  LogInv'
<1>1. TypeOK /\ AllEscaped /\ cursor \in Blob BY DEF LogInv, TypeOK
<1>2. PICK c, k, whole, tail :
        /\ FileIs(c, k, whole, tail, file, Expected, announced, damage)
        /\ ReadIs(c, k, file, Expected, damage, result, cursor, metadata, out)
  BY DEF LogInv, WholeLog
<1>3. UNCHANGED logVars
  BY DEF Decoder, ReadFrame, DecodeEnd, MetadataRead, EventRead, UnknownMetadata, ReadError
<1>4. /\ file' = file /\ written' = written /\ announced' = announced /\ damage' = damage
      /\ config' = config /\ frames' = frames /\ runs' = runs
  BY <1>3 DEF logVars
<1>5. PICK owed : owed = Expected OBVIOUS
<1>6. Expected' = owed BY <1>4, <1>5 DEF Expected
<1>7. ASSUME ReadIs(c, k, file, Expected, damage, result', cursor', metadata', out')
      PROVE  WholeLog'
  BY <1>2, <1>4, <1>5, <1>6, <1>7 DEF WholeLog
<1>8. CASE ReadFrame
  <2>1. WholeLog' BY <1>1, <1>2, <1>7, <1>8, ReadFrameWalks
  <2>2. TypeOK'
    BY <1>1, <1>4, <1>8, ReadFrameTypes DEF TypeOK, ReadErrors
  <2> QED BY <2>1, <2>2 DEF LogInv
<1>9. CASE DecodeEnd
  <2>1. WholeLog' BY <1>1, <1>2, <1>7, <1>9, DecodeEndWalks
  <2>2. TypeOK' BY <1>1, <1>4, <1>9 DEF DecodeEnd, decoderVars, TypeOK
  <2> QED BY <2>1, <2>2 DEF LogInv
<1> QED BY <1>8, <1>9 DEF Decoder

LEMMA StutterStep ==
  ASSUME LogInv, UNCHANGED vars
  PROVE  LogInv'
<1>1. TypeOK' /\ AllEscaped' BY DEF LogInv, TypeOK, AllEscaped, vars, logVars, decoderVars
<1>2. PICK c, k, whole, tail :
        /\ FileIs(c, k, whole, tail, file, Expected, announced, damage)
        /\ ReadIs(c, k, file, Expected, damage, result, cursor, metadata, out)
  BY DEF LogInv, WholeLog
<1>3. /\ file' = file /\ written' = written /\ announced' = announced /\ damage' = damage
      /\ result' = result /\ cursor' = cursor /\ metadata' = metadata /\ out' = out
  BY DEF vars, logVars, decoderVars
<1>4. PICK owed : owed = Expected OBVIOUS
<1>5. Expected' = owed BY <1>3, <1>4 DEF Expected
<1>6. WholeLog' BY <1>2, <1>3, <1>4, <1>5 DEF WholeLog
<1> QED BY <1>1, <1>6 DEF LogInv

LEMMA StepLog == LogInv /\ [Next]_vars => LogInv'
<1> SUFFICES ASSUME LogInv, [Next]_vars PROVE LogInv' OBVIOUS
<1>1. AllEscaped' BY StepEscaped DEF LogInv
<1>2. CASE (\E callsite \in Callsites : Announce(callsite)) \/ (\E event \in Events : Log(event)) \/ Restart
  BY <1>1, <1>2, LoggingStep
<1>3. CASE BeginDecode BY <1>1, <1>3, DecodeBegins
<1>4. CASE Decoder BY <1>1, <1>4, DecoderStep
<1>5. CASE Done \/ UNCHANGED vars BY <1>5, StutterStep DEF Done
<1> QED BY <1>2, <1>3, <1>4, <1>5 DEF Next

(* The types of the log and of its decoder: among others, redline-decode   *)
(* stops with no other error than those of decode_binary_frame and         *)
(* UnknownMetadata, and its lines and unread bytes never outnumber the     *)
(* file.                                                                   *)
THEOREM LogTypes == Spec => []TypeOK
<1>1. LogInv => TypeOK BY DEF LogInv
<1> QED BY <1>1, InitLog, StepLog, PTL DEF Spec

(* What the walk says when redline-decode has ended.                       *)
LEMMA EndedIs ==
  ASSUME LogInv, Ended
  PROVE  /\ damage = "no" => result = "ok" /\ out = Expected
         /\ damage = "torn" => result = "UnexpectedEof" /\ out = Expected
         /\ damage = "inside" => IsPrefix(Expected, out)
         /\ damage \in {"no", "torn", "inside"} /\ IsPrefix(out, out)
<1>1. PICK S : out \in Seq(S) BY DEF LogInv, AllEscaped
<1>2. IsPrefix(out, out) BY <1>1, PrefixGrows
<1> QED BY <1>2 DEF LogInv, WholeLog, ReadIs, Ended, TypeOK

(* A log without a damaged frame expands to the very lines NDJSON output   *)
(* would have had, for all callsites, events and configurations, over any  *)
(* number of runs that each give out the metadata ids anew.                *)
THEOREM CompleteLogs == Spec => []CompleteLogExpands
<1>1. LogInv => CompleteLogExpands BY EndedIs DEF CompleteLogExpands, Output
<1> QED BY <1>1, InitLog, StepLog, PTL DEF Spec

(* A log that ends inside a frame, cut at whichever byte, is reported as   *)
(* cut off and never passes for a complete one; every event before the     *)
(* tear was decoded right.                                                 *)
THEOREM TornTails == Spec => []TornTailReported
<1>1. LogInv => TornTailReported BY EndedIs DEF TornTailReported, Output
<1> QED BY <1>1, InitLog, StepLog, PTL DEF Spec

(* Whatever follows a torn frame or an event with a count that wrapped,    *)
(* the decoder got the events before it right.                             *)
THEOREM IntactPrefixes == Spec => []IntactPrefixDecodes
<1>1. LogInv => IntactPrefixDecodes BY EndedIs DEF IntactPrefixDecodes
<1> QED BY <1>1, InitLog, StepLog, PTL DEF Spec
=============================================================================
