------------------------------ MODULE BinaryLog ------------------------------
(***************************************************************************)
(* A log file in binary format from its first byte to its expansion by     *)
(* redline-decode.  The worker appends one frame after another; a write    *)
(* may leave only the beginning of a frame, because a direct write fails   *)
(* half-way or because the process ends; another run of the program opens  *)
(* the file in append mode and gives out metadata ids anew.                *)
(*                                                                         *)
(* Which frames are sent at all is the matter of Pipeline; here a run      *)
(* announces each callsite before the first event that needs it.           *)
(***************************************************************************)
EXTENDS Codec

CONSTANTS
  Callsites,      \* static metadata of the callsites of the program
  Events,         \* events: callsite, time, fields and the chain of entered spans
  MaxFrames,      \* bound of the model: frames in the file
  MaxRuns         \* bound of the model: runs of the program

(* There are fewer callsites than ids, an optional value is one at most,   *)
(* the clock shows a time after 1970, and integers fit their types.        *)
ASSUME LogAssumption ==
  /\ IsFiniteSet(Callsites) /\ Cardinality(Callsites) < Power(ByteBase, U32)
  /\ Callsites \subseteq
       [kind : ToSet(CallsiteKinds), level : Levels, file : SUBSET String,
        line : SUBSET (0..(Power(ByteBase, U32) - 1)), module_path : SUBSET String,
        name : String, target : String, fields : Seq(String)]
  /\ \A callsite \in Callsites :
       /\ \A x, y \in callsite.file : x = y
       /\ \A x, y \in callsite.line : x = y
       /\ \A x, y \in callsite.module_path : x = y
  /\ Events \subseteq
       [callsite : Callsites, seconds : 1..(Power(ByteBase, U64) - 1),
        nanos : 0..(Power(10, FractionDigits) - 1), fields : Seq(Field),
        chain : Seq([callsite : Callsites, id : 0..(Power(ByteBase, U64) - 1),
                     fields : Seq(Field)])]
  /\ MaxFrames \in Nat /\ MaxRuns \in Nat

VARIABLES
  config,         \* the EncodeConfig, the same for all runs
  file,           \* bytes of the log
  announced,      \* callsites whose metadata this run has written, in order of their ids
  frames, runs,   \* frames written, whole or not, and runs begun
  damage,         \* ghost: "no", "torn" while the last frame is torn, else "inside"
  written,        \* ghost: line of NDJSON for each event before the damage
  cursor,         \* what redline-decode has not read yet
  metadata,       \* its metadata frames, by id
  out,            \* its lines
  result          \* "logging", "decoding", "ok" or an error

logVars == <<config, file, announced, frames, runs, damage, written>>
decoderVars == <<cursor, metadata, out>>
vars == <<logVars, decoderVars, result>>

Init ==
  /\ config \in [current_span : BOOLEAN, span_list : BOOLEAN]
  /\ file = <<>>
  /\ announced = <<>>
  /\ frames = 0
  /\ runs = 1
  /\ damage = "no"
  /\ written = <<>>
  /\ cursor = <<>>
  /\ metadata = <<>>
  /\ out = <<>>
  /\ result = "logging"

-----------------------------------------------------------------------------
(* What the program writes                                                 *)

Announced == ToSet(announced)

(* next_id counts from 0, in the order of announcements.                   *)
Id(callsite) == (CHOOSE i \in DOMAIN announced : announced[i] = callsite) - 1

CallsiteMetadata(callsite, id) ==
  [id |-> id, kind |-> callsite.kind, level |-> callsite.level, file |-> callsite.file,
   line |-> callsite.line, module_path |-> callsite.module_path, name |-> callsite.name,
   target |-> callsite.target, fields |-> callsite.fields]

Snapshot(span) ==
  [id |-> span.id, metadata_id |-> Id(span.callsite), level |-> span.callsite.level,
   name |-> span.callsite.name, target |-> span.callsite.target, fields |-> span.fields]

(* The context of an event: what build_span_context collects.              *)
Chain(event) ==
  IF config.current_span \/ config.span_list
  THEN [i \in DOMAIN event.chain |-> Snapshot(event.chain[i])] ELSE <<>>

OwnedRecord(event) ==
  [seconds |-> event.seconds, nanos |-> event.nanos, metadata_id |-> Id(event.callsite),
   name |-> event.callsite.name, target |-> event.callsite.target,
   level |-> event.callsite.level, fields |-> event.fields,
   current_span |-> IF config.current_span /\ event.chain # <<>> THEN {Last(Chain(event))} ELSE {},
   spans |-> IF config.span_list THEN Chain(event) ELSE <<>>]

(* Callsites an event needs announced: its own, and those of the spans it  *)
(* lists.                                                                  *)
Needed(event) ==
  {event.callsite} \union
    (IF config.current_span \/ config.span_list
     THEN {event.chain[i].callsite : i \in DOMAIN event.chain} ELSE {})

Logging == result = "logging" /\ frames < MaxFrames

(* The length of a frame and the counts of lists in it are cut to U32 and  *)
(* U16; a frame that has more damages the log though all of it is written. *)
Measured(frame, counts) ==
  /\ Len(frame) - (1 + U32) < Power(ByteBase, U32)
  /\ \A count \in counts : count < Power(ByteBase, U16)

(* A frame reaches the file, or some of its bytes do if this is the one    *)
(* frame that is damaged.                                                  *)
Write(frame, counts) ==
  /\ frames' = frames + 1
  /\ \/ /\ Measured(frame, counts)
        /\ file' = file \o frame
        /\ damage' = IF damage = "torn" THEN "inside" ELSE damage
     \/ /\ Measured(frame, counts)
        /\ damage = "no"
        /\ \E length \in 1..(Len(frame) - 1) : file' = file \o SubSeq(frame, 1, length)
        /\ damage' = "torn"
     \/ /\ ~Measured(frame, counts)
        /\ damage = "no"
        /\ file' = file \o frame
        /\ damage' = "inside"

Announce(callsite) ==
  /\ Logging
  /\ callsite \notin Announced
  /\ Write(EncodeMetadata(CallsiteMetadata(callsite, Len(announced))), {Len(callsite.fields)})
  /\ announced' = Append(announced, callsite)
  /\ UNCHANGED <<config, runs, written, decoderVars, result>>

Counts(r) == {Len(r.fields), Len(r.spans)} \union
               {Len(span.fields) : span \in r.current_span \union ToSet(r.spans)}

Log(event) ==
  /\ Logging
  /\ Needed(event) \subseteq Announced
  /\ \E r \in {OwnedRecord(event)} :
       /\ Write(EncodeRecord(config, r), Counts(r))
       /\ written' = IF damage' = "no" THEN Append(written, NdjsonRecord(config, r)) ELSE written
  /\ UNCHANGED <<config, announced, runs, decoderVars, result>>

Restart ==
  /\ Logging
  /\ runs < MaxRuns
  /\ runs' = runs + 1
  /\ announced' = <<>>
  /\ UNCHANGED <<config, file, frames, damage, written, decoderVars, result>>

-----------------------------------------------------------------------------
(* redline-decode                                                          *)

BeginDecode ==
  /\ result = "logging"
  /\ cursor' = file
  /\ result' = "decoding"
  /\ UNCHANGED <<logVars, metadata, out>>

Reading == result = "decoding" /\ cursor # <<>>

MetadataRead_Appended(read) ==
  /\ read.value.frame = "metadata"
  /\ cursor' = read.rest
  /\ metadata' = Append(metadata, read.value)
  /\ UNCHANGED <<logVars, out, result>>

MetadataRead(read) ==
  /\ read.value.frame = "metadata"
  /\ cursor' = read.rest
  /\ metadata' = [id \in DOMAIN metadata \union {read.value.id} |->
                    IF id = read.value.id THEN read.value ELSE metadata[id]]
  /\ UNCHANGED <<logVars, out, result>>

EventRead(read) ==
  /\ read.value.frame = "event"
  /\ read.value.metadata_id \in DOMAIN metadata
  /\ cursor' = read.rest
  /\ out' = Append(out, DecodedLine(metadata[read.value.metadata_id], read.value))
  /\ UNCHANGED <<logVars, metadata, result>>

UnknownMetadata(read) ==
  /\ read.value.frame = "event"
  /\ read.value.metadata_id \notin DOMAIN metadata
  /\ result' = "UnknownMetadata"
  /\ UNCHANGED <<logVars, decoderVars>>

ReadError_SkipsUnknown(read) ==
  /\ result' = IF read.error = "InvalidFrameKind" THEN result ELSE read.error
  /\ UNCHANGED <<logVars, decoderVars>>

ReadError(read) ==
  /\ result' = read.error
  /\ UNCHANGED <<logVars, decoderVars>>

ReadFrame ==
  /\ Reading
  /\ \E read \in {DecodeFrame(cursor)} :
       IF read.error = None
       THEN MetadataRead(read) \/ EventRead(read) \/ UnknownMetadata(read)
       ELSE ReadError(read)

DecodeEnd_WithinHeader ==
  /\ result = "decoding"
  /\ Len(cursor) < 1 + U32
  /\ result' = "ok"
  /\ UNCHANGED <<logVars, decoderVars>>

DecodeEnd ==
  /\ result = "decoding"
  /\ cursor = <<>>
  /\ result' = "ok"
  /\ UNCHANGED <<logVars, decoderVars>>

Decoder == ReadFrame \/ DecodeEnd

Ended == result \notin {"logging", "decoding"}

(* What redline-decode writes: run() gives up before write_output when the *)
(* log does not decode to its end.                                         *)
Output == IF result = "ok" THEN {out} ELSE {}

Done == Ended /\ UNCHANGED vars

Next ==
  \/ \E callsite \in Callsites : Announce(callsite)
  \/ \E event \in Events : Log(event)
  \/ Restart
  \/ BeginDecode
  \/ Decoder
  \/ Done

Spec == Init /\ [][Next]_vars /\ WF_vars(Decoder)

-----------------------------------------------------------------------------
(* Properties                                                              *)

TypeOK ==
  /\ config \in [current_span : BOOLEAN, span_list : BOOLEAN]
  /\ file \in Blob /\ cursor \in Blob
  /\ announced \in Seq(Callsites) /\ IsInjective(announced)
  /\ frames \in 0..MaxFrames /\ runs \in Nat
  /\ damage \in {"no", "torn", "inside"}
  /\ Len(out) + Len(cursor) <= Len(file)
  /\ \A id \in DOMAIN metadata : metadata[id].id = id
  /\ result \in {"logging", "decoding", "ok", "UnexpectedEof", "InvalidFrameKind",
                 "InvalidCallsiteKind", "InvalidLevel", "InvalidFieldType", "InvalidUtf8",
                 "UnknownMetadata"}

(* The lines redline-decode owes for the events before the damage: those   *)
(* that NDJSON output would have had, without an empty span list.          *)
Expected == [i \in DOMAIN written |-> [written[i] EXCEPT !.spans = @ \ {<<>>}]]

(* "CLI tool to expand binary logs back into NDJSON" (README.md:25): a log *)
(* without a damaged frame expands to the very lines the other format      *)
(* would have, escapes and digits included, over restarts that give out    *)
(* the ids in another order.                                               *)
CompleteLogExpands == Ended /\ damage = "no" => Output = {Expected}

(* A log that ends inside a frame, wherever it is cut, is reported as such *)
(* after all of its whole frames, and never passes for a complete one: it  *)
(* is not expanded at all.                                                 *)
TornTailReported ==
  Ended /\ damage = "torn" => result = "UnexpectedEof" /\ out = Expected /\ Output = {}

(* Whatever follows a torn frame, also the frames of the next run that the *)
(* decoder cuts at the wrong places, and whatever an event with a count    *)
(* that wrapped is taken for, it got the events before it right.           *)
IntactPrefixDecodes == Ended => IsPrefix(Expected, out)

Texts(line) ==
  LET parts == {line} \union line.span \union UNION {ToSet(spans) : spans \in line.spans}
      fields == UNION {ToSet(part.fields) : part \in parts}
  IN  {part.target : part \in parts} \union {part.name : part \in parts}
        \union {field.key : field \in fields}
        \union {field.value.text : field \in {f \in fields : f.value.type = "string"}}

(* Each record stays on one line of JSON in either format: no quote,       *)
(* backslash or control character of any text is left as it is, though     *)
(* escapes are written by two tables (needs_json_escape and the match of   *)
(* push_json_string) that have to agree.                                   *)
TextsEscaped ==
  \A line \in ToSet(written) \union ToSet(out) : \A text \in Texts(line) :
    \A i \in DOMAIN text : text[i] \notin {Raw(byte) : byte \in Controls \union ShortEscapes}

(* The decoder gets through any file the program can leave, whole frames   *)
(* or not: each round of its loop consumes input or stops.                 *)
DecoderEnds == result = "decoding" ~> Ended

=============================================================================
