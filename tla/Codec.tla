------------------------------- MODULE Codec -------------------------------
(***************************************************************************)
(* The two encodings of a record in redline-core, the decoder of the       *)
(* binary one, and the line redline-decode makes of a decoded event.       *)
(*                                                                         *)
(* Binary frames are sequences of bytes with the layout of the code; the   *)
(* widths of integers are constants.  JSON is modelled by what a line      *)
(* says: its keys, present or absent, their order in arrays, the type of a *)
(* value, texts with their escapes, and the digits of the timestamp.       *)
(*                                                                         *)
(* A field's value is kept as its bytes, a number as its bit pattern.  An  *)
(* optional value is a set of at most one element.                         *)
(***************************************************************************)
EXTENDS Naturals, Sequences, SequencesExt

CONSTANTS
  ByteBase,                \* 256
  U16, U32, U64, U128,     \* bytes of an integer: 2, 4, 8 and 16
  FractionDigits,          \* digits of the nanoseconds: 9
  HexBase,                 \* 16: two digits make a byte
  Controls,                \* 0x00..0x1f
  ShortEscapes             \* quote, backslash, newline, carriage return, tab

(* base^n.                                                                 *)
Power(base, n) ==
  LET power[i \in 0..n] == IF i = 0 THEN 1 ELSE base * power[i - 1]
  IN  power[n]

(* The nanoseconds of a second fit a U32.                                  *)
ASSUME CodecAssumption ==
  /\ ByteBase \in Nat /\ ByteBase > 10
  /\ {U16, U32, U64, U128, FractionDigits} \subseteq Nat \ {0}
  /\ HexBase \in Nat /\ HexBase * HexBase = ByteBase
  /\ Controls \union ShortEscapes \subseteq 0..(ByteBase - 1)
  /\ Power(10, FractionDigits) <= Power(ByteBase, U32)

Bytes == 0..(ByteBase - 1)
Blob == Seq(Bytes)

LittleEndian(n, width) ==
  LET part[i \in 1..width] == IF i = 1 THEN n ELSE part[i - 1] \div ByteBase
  IN  [i \in 1..width |-> part[i] % ByteBase]

FromLittleEndian(bytes) ==
  LET from[i \in 1..(Len(bytes) + 1)] ==
        IF i > Len(bytes) THEN 0 ELSE bytes[i] + ByteBase * from[i + 1]
  IN  from[1]

(* The bytes with the high bit stand for all that is not text.             *)
Utf8(bytes) == \A i \in DOMAIN bytes : bytes[i] < ByteBase \div 2
String == {bytes \in Blob : Utf8(bytes)}

MetadataFrame == 1
EventFrame == 2
CallsiteKinds == <<"event", "span">>
Levels == 1..5
ValueKinds == <<"false", "true", "i64", "u64", "i128", "u128", "f64", "str", "debug", "bytes">>
Code(kinds, kind) == CHOOSE i \in DOMAIN kinds : kinds[i] = kind
Width(kind) == IF kind \in {"i128", "u128"} THEN U128 ELSE U64

(* The bytes a value of a kind has.                                        *)
Content(kind) ==
  CASE kind \in {"false", "true"} -> {<<>>}
    [] kind \in {"str", "debug"}  -> String
    [] kind = "bytes"             -> Blob
    [] OTHER                      -> {bytes \in Blob : Len(bytes) = Width(kind)}

Value == {value \in [kind : ToSet(ValueKinds), bytes : Blob] : value.bytes \in Content(value.kind)}
Field == [name : String, value : Value]

-----------------------------------------------------------------------------
(* Binary encoding                                                         *)

PushString(text) == LittleEndian(Len(text), U32) \o text

PushOptional(value, Push(_)) ==
  IF value = {} THEN <<0>> ELSE <<1>> \o Push(CHOOSE v \in value : TRUE)

PushU32(n) == LittleEndian(n, U32)

PushOptionalString(value) == PushOptional(value, PushString)
PushOptionalU32(value) == PushOptional(value, PushU32)

PushValue(value) ==
  <<Code(ValueKinds, value.kind)>> \o
    (IF value.kind \in {"str", "debug", "bytes"} THEN PushString(value.bytes) ELSE value.bytes)

PushAll(elements, Push(_)) ==
  LittleEndian(Len(elements), U16) \o FlattenSeq([i \in DOMAIN elements |-> Push(elements[i])])

PushField(field) == PushString(field.name) \o PushValue(field.value)
PushFields(fields) == PushAll(fields, PushField)
PushStrings(texts) == PushAll(texts, PushString)

PushSpan(span) ==
  LittleEndian(span.id, U64) \o PushU32(span.metadata_id) \o <<span.level>>
    \o PushString(span.name) \o PushString(span.target) \o PushFields(span.fields)

PushSpans(spans) == PushAll(spans, PushSpan)
PushOptionalSpan(value) == PushOptional(value, PushSpan)

Frame(kind, payload) == <<kind>> \o PushU32(Len(payload)) \o payload

EncodeMetadata(m) ==
  Frame(MetadataFrame,
        PushU32(m.id) \o <<Code(CallsiteKinds, m.kind)>> \o <<m.level>>
          \o PushOptionalString(m.file) \o PushOptionalU32(m.line)
          \o PushOptionalString(m.module_path)
          \o PushString(m.name) \o PushString(m.target) \o PushStrings(m.fields))

EncodeRecord(config, r) ==
  Frame(EventFrame,
        LittleEndian(r.seconds, U64) \o PushU32(r.nanos) \o PushU32(r.metadata_id)
          \o LittleEndian(IF r.current_span = {} THEN 0 ELSE (CHOOSE s \in r.current_span : TRUE).id, U64)
          \o PushFields(r.fields)
          \o PushOptionalSpan(IF config.current_span THEN r.current_span ELSE {})
          \o PushSpans(IF config.span_list THEN r.spans ELSE <<>>))

-----------------------------------------------------------------------------
(* Binary decoding.  A take of the code is an operator from the input to   *)
(* an error, or a value and the rest of the input.                         *)

None == "none"
Failed(error) == [error |-> error, value |-> <<>>, rest |-> <<>>]
Took(value, rest) == [error |-> None, value |-> value, rest |-> rest]

(* Use(taken), with taken computed once.                                   *)
Bind(taken, Use(_)) == CHOOSE used \in {Use(t) : t \in {taken}} : TRUE

(* The ? operator: an error is handed on.                                  *)
OrError(taken, Use(_)) == Bind(taken, LAMBDA t : IF t.error = None THEN Use(t) ELSE t)

Convert(taken, Build(_)) == OrError(taken, LAMBDA t : Took(Build(t.value), t.rest))

Check(taken, Allowed(_), error) ==
  OrError(taken, LAMBDA t : IF Allowed(t.value) THEN t ELSE Failed(error))

(* One take after another; their values are collected.                     *)
Then(taken, Take(_)) ==
  OrError(taken, LAMBDA t : Convert(Take(t.rest), LAMBDA v : Append(t.value, v)))

Repeat(n, Take(_), input) ==
  LET taken[i \in 0..n] == IF i = 0 THEN Took(<<>>, input) ELSE Then(taken[i - 1], Take)
  IN  taken[n]

TakeBytes(n, input) ==
  IF Len(input) < n THEN Failed("UnexpectedEof")
  ELSE Took(SubSeq(input, 1, n), SubSeq(input, n + 1, Len(input)))

TakeNumber(width, input) == Convert(TakeBytes(width, input), FromLittleEndian)
TakeU8(input) == TakeNumber(1, input)
TakeU32(input) == TakeNumber(U32, input)
TakeU64(input) == TakeNumber(U64, input)

TakeBlob(input) ==
  OrError(TakeU32(input), LAMBDA length : TakeBytes(length.value, length.rest))

TakeString(input) == Check(TakeBlob(input), Utf8, "InvalidUtf8")

TakeOptional(Take(_), input) ==
  OrError(TakeU8(input),
          LAMBDA present : IF present.value = 1 THEN Convert(Take(present.rest), LAMBDA v : {v})
                           ELSE Took({}, present.rest))

TakeOptionalString(input) == TakeOptional(TakeString, input)
TakeOptionalU32(input) == TakeOptional(TakeU32, input)

TakeKind(input) == Check(TakeU8(input), LAMBDA k : k \in DOMAIN CallsiteKinds, "InvalidCallsiteKind")
TakeLevel(input) == Check(TakeU8(input), LAMBDA l : l \in Levels, "InvalidLevel")

TakeValueOf(kind, input) ==
  CASE kind \in {"false", "true"} -> Took(<<>>, input)
    [] kind \in {"str", "debug"}  -> TakeString(input)
    [] kind = "bytes"             -> TakeBlob(input)
    [] OTHER                      -> TakeBytes(Width(kind), input)

TakeValue(input) ==
  OrError(Check(TakeU8(input), LAMBDA c : c \in DOMAIN ValueKinds, "InvalidFieldType"),
          LAMBDA code : Convert(TakeValueOf(ValueKinds[code.value], code.rest),
                                LAMBDA b : [kind |-> ValueKinds[code.value], bytes |-> b]))

TakeAll(Take(_), input) ==
  OrError(TakeNumber(U16, input), LAMBDA count : Repeat(count.value, Take, count.rest))

TakeField(input) ==
  Convert(Then(Then(Took(<<>>, input), TakeString), TakeValue),
          LAMBDA v : [name |-> v[1], value |-> v[2]])

TakeFields(input) == TakeAll(TakeField, input)
TakeStrings(input) == TakeAll(TakeString, input)

TakeSpan(input) ==
  LET id == Then(Took(<<>>, input), TakeU64)
      metadata_id == Then(id, TakeU32)
      level == Then(metadata_id, TakeLevel)
      name == Then(level, TakeString)
      target == Then(name, TakeString)
      fields == Then(target, TakeFields)
  IN  Convert(fields, LAMBDA v : [id |-> v[1], metadata_id |-> v[2], level |-> v[3],
                                  name |-> v[4], target |-> v[5], fields |-> v[6]])

TakeSpans(input) == TakeAll(TakeSpan, input)
TakeOptionalSpan(input) == TakeOptional(TakeSpan, input)

DecodeMetadata(payload) ==
  LET id == Then(Took(<<>>, payload), TakeU32)
      kind == Then(id, TakeKind)
      level == Then(kind, TakeLevel)
      file == Then(level, TakeOptionalString)
      line == Then(file, TakeOptionalU32)
      module_path == Then(line, TakeOptionalString)
      name == Then(module_path, TakeString)
      target == Then(name, TakeString)
      fields == Then(target, TakeStrings)
  IN  Convert(fields, LAMBDA v : [frame |-> "metadata", id |-> v[1], kind |-> CallsiteKinds[v[2]],
                                  level |-> v[3], file |-> v[4], line |-> v[5],
                                  module_path |-> v[6], name |-> v[7], target |-> v[8],
                                  fields |-> v[9]])

DecodeEvent(payload) ==
  LET seconds == Then(Took(<<>>, payload), TakeU64)
      nanos == Then(seconds, TakeU32)
      metadata_id == Then(nanos, TakeU32)
      current_span_id == Then(metadata_id, TakeU64)
      fields == Then(current_span_id, TakeFields)
      current_span == Then(fields, TakeOptionalSpan)
      spans == Then(current_span, TakeSpans)
  IN  Convert(spans, LAMBDA v : [frame |-> "event", seconds |-> v[1], nanos |-> v[2],
                                 metadata_id |-> v[3], current_span_id |-> v[4],
                                 fields |-> v[5], current_span |-> v[6], spans |-> v[7]])

DecodePayload(kind, payload) ==
  CASE kind = MetadataFrame -> DecodeMetadata(payload)
    [] kind = EventFrame    -> DecodeEvent(payload)
    [] OTHER                -> Failed("InvalidFrameKind")

(* What follows the last item of a payload is passed over, not looked at.  *)
DecodeFrame(input) ==
  OrError(Then(Then(Took(<<>>, input), TakeU8), TakeU32),
          LAMBDA header :
            OrError(TakeBytes(header.value[2], header.rest),
                    LAMBDA payload :
                      OrError(DecodePayload(header.value[1], payload.value),
                              LAMBDA frame : Took(frame.value, payload.rest))))

-----------------------------------------------------------------------------
(* Lines of JSON, written directly and from decoded frames                 *)

Digits(n) ==
  LET digits[k \in Nat] == IF k < 10 THEN <<k>> ELSE Append(digits[k \div 10], k % 10)
  IN  digits[n]

Fraction_Unpadded(nanos) == Digits(nanos)

(* Exactly FractionDigits digits, the last ones of nanos.                  *)
Fraction(nanos) ==
  [i \in 1..FractionDigits |-> (nanos \div Power(10, FractionDigits - i)) % 10]

(* A character of a JSON string: a byte as it is, a backslash and a        *)
(* letter, or \u00 and two digits.                                         *)
Raw(byte) == [raw |-> byte]
Hex(byte) == <<byte \div HexBase, byte % HexBase>>

Escape(byte) ==
  IF byte \in ShortEscapes THEN [short |-> byte]
  ELSE IF byte \in Controls THEN [unicode |-> Hex(byte)]
  ELSE Raw(byte)

RawText(bytes) == [i \in DOMAIN bytes |-> Raw(bytes[i])]

NeedsJsonEscape_ControlsOnly(byte) == byte \in Controls

NeedsJsonEscape(byte) == byte \in Controls \union ShortEscapes

(* push_json_string of encode.rs copies the bytes between two escapes in   *)
(* one go; start is the first byte not copied yet.                         *)
JsonString_StartAtEscape(bytes) ==
  LET scanned[i \in 0..Len(bytes)] ==
        IF i = 0 THEN [out |-> <<>>, start |-> 1]
        ELSE IF ~NeedsJsonEscape(bytes[i]) THEN scanned[i - 1]
        ELSE [out |-> scanned[i - 1].out
                        \o RawText(SubSeq(bytes, scanned[i - 1].start, i - 1)) \o <<Escape(bytes[i])>>,
              start |-> i]
      end == scanned[Len(bytes)]
  IN  end.out \o RawText(SubSeq(bytes, end.start, Len(bytes)))

JsonString(bytes) ==
  LET scanned[i \in 0..Len(bytes)] ==
        IF i = 0 THEN [out |-> <<>>, start |-> 1]
        ELSE IF ~NeedsJsonEscape(bytes[i]) THEN scanned[i - 1]
        ELSE [out |-> scanned[i - 1].out
                        \o RawText(SubSeq(bytes, scanned[i - 1].start, i - 1)) \o <<Escape(bytes[i])>>,
              start |-> i + 1]
      end == scanned[Len(bytes)]
  IN  end.out \o RawText(SubSeq(bytes, end.start, Len(bytes)))

(* push_json_string of redline-decode escapes byte after byte.             *)
DecodedString(bytes) == [i \in DOMAIN bytes |-> Escape(bytes[i])]

(* The two writers of JSON do not differ elsewhere than in their strings.  *)
Text(writer, bytes) == IF writer = "encode" THEN JsonString(bytes) ELSE DecodedString(bytes)

HexBytes(bytes) == [i \in DOMAIN bytes |-> Hex(bytes[i])]

JsonType(kind) ==
  CASE kind \in {"false", "true"}   -> kind
    [] kind \in {"str", "debug"}    -> "string"
    [] kind = "bytes"               -> "hex"
    [] OTHER                        -> "number"

JsonValue(writer, value) ==
  LET type == JsonType(value.kind)
  IN  [type |-> type,
       text |-> CASE type = "string" -> Text(writer, value.bytes)
                  [] type = "hex"    -> HexBytes(value.bytes)
                  [] OTHER           -> value.bytes]

JsonFields(writer, fields) ==
  [i \in DOMAIN fields |->
     [key |-> Text(writer, fields[i].name), value |-> JsonValue(writer, fields[i].value)]]

JsonSpan(writer, span) ==
  [id |-> span.id, metadata_id |-> span.metadata_id, level |-> span.level,
   name |-> Text(writer, span.name), target |-> Text(writer, span.target),
   fields |-> JsonFields(writer, span.fields)]

JsonSpans(writer, spans) == [i \in DOMAIN spans |-> JsonSpan(writer, spans[i])]

NdjsonRecord(config, r) ==
  [timestamp   |-> Digits(r.seconds) \o Fraction(r.nanos),
   level       |-> r.level,
   target      |-> Text("encode", r.target),
   name        |-> Text("encode", r.name),
   metadata_id |-> r.metadata_id,
   fields      |-> JsonFields("encode", r.fields),
   span        |-> IF config.current_span THEN {JsonSpan("encode", s) : s \in r.current_span} ELSE {},
   spans       |-> IF config.span_list THEN {JsonSpans("encode", r.spans)} ELSE {}]

UnixNanos(r) == r.seconds * Power(10, FractionDigits) + r.nanos

(* write_event_ndjson of redline-decode: level, target and name are those  *)
(* of the metadata frame.                                                  *)
DecodedLine(callsite, r) ==
  [timestamp   |-> Digits(UnixNanos(r)),
   level       |-> callsite.level,
   target      |-> Text("decode", callsite.target),
   name        |-> Text("decode", callsite.name),
   metadata_id |-> r.metadata_id,
   fields      |-> JsonFields("decode", r.fields),
   span        |-> {JsonSpan("decode", s) : s \in r.current_span},
   spans       |-> IF r.spans = <<>> THEN {} ELSE {JsonSpans("decode", r.spans)}]

=============================================================================
