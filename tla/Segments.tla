------------------------------- MODULE Segments --------------------------------
(***************************************************************************)
(* bench/stimulus/traffic.py, where it makes one segment of a stream: a    *)
(* frame, with the fault it carries and the account of it that goes into   *)
(* intent.jsonl, or a garbage run. A choice says what was drawn: a type,   *)
(* its fields, a fault, and what the fault drew ("with"). An account has 0 *)
(* for a key that it does not write, and -1 for the type of a sentence.    *)
(***************************************************************************)
EXTENDS Encoders

SYNC_BYTES == [gt06 |-> {120, 121, 13, 10}, jt808 |-> {40, 41, 126, 231}]

(* The no_sync alphabet of rule R16. *)
NoSync(protocol) == Byte \ SYNC_BYTES[protocol]

(* The introducers of the escape alphabet that a delimiter selects. *)
Introducers(delimiter) == {ESCAPE[delimiter][b][1] : b \in DOMAIN ESCAPE[delimiter]}

(* A non-zero change of 1 to 4 either way, kept inside [0, limit]. *)
LengthChange(d, correct, limit) == IF correct + d \in 0 .. limit THEN d ELSE -d

(* _escapes: the escape pairs between the delimiters of a whole frame. *)
Escapes(frame) ==
  LET Count[i \in 2 .. Len(frame) + 1] ==
        IF i >= Len(frame) THEN 0
        ELSE IF frame[i] \in Introducers(frame[1]) THEN 1 + Count[i + 2] ELSE Count[i + 1]
  IN Count[2]

FrameRecord(conn, framing, msg_type, fault, fields) ==
  [kind |-> "frame", protocol |-> conn.protocol, framing |-> framing, type |-> msg_type,
   fault |-> fault, fields |-> fields, counter |-> 0, escapes |-> 0, length_field |-> 0,
   check_error |-> 0, frame_length |-> 0]

(* The message type, and the content or body, of each type that is drawn.  *)
Gt06Types(c) ==
  CASE c.name = "login"    -> <<1, login_content(c.fields)>>
    [] c.name = "location" -> <<18, gt06_location_content(c.fields)>>
    [] c.name = "status"   -> <<19, status_content(c.fields)>>
    [] c.name = "unknown"  -> <<c.type, c.fields.content>>

Jt808Types(c) ==
  CASE c.name = "auth"      -> <<AUTH, auth_body(c.fields)>>
    [] c.name = "location"  -> <<REPORT, jt808_location_body(c.fields)>>
    [] c.name = "batch"     -> <<BATCH, batch_body(c.fields)>>
    [] c.name = "location2" -> <<REPORT2, location2_body(c.fields)>>
    [] c.name = "unknown"   -> <<c.type, c.fields.body>>

(* _gt06_frame, before it is cut: the frame, and the account of it.        *)
gt06_segment(conn, counter, c) ==
  LET typed   == Gt06Types(c)
      correct == 5 + Len(typed[2])
      length  == IF c.fault = "length_disagreement" THEN correct + LengthChange(c.with, correct, 255)
                 ELSE correct
      error   == IF c.fault = "bad_checksum" THEN c.with ELSE 0
      data    == gt06_frame(typed[1], typed[2], counter % 65536, length, error)
      rec     == [FrameRecord(conn, START, typed[1], c.fault, c.fields) EXCEPT
                    !.counter = counter % 65536, !.check_error = error,
                    !.length_field = IF c.fault = "length_disagreement" THEN length ELSE 0]
  IN [whole |-> data, rec |-> rec]

(* _jt808_frame for a binary frame. *)
jt808_segment(conn, counter, c) ==
  LET typed   == Jt808Types(c)
      correct == Len(typed[2])
      length  == IF c.fault = "length_disagreement" THEN correct + LengthChange(c.with, correct, 1023)
                 ELSE correct
      error   == IF c.fault = "bad_checksum" THEN c.with ELSE 0
      data    == jt808_frame(typed[1], typed[2], conn, counter, c.fault = "flag_lying", length, error)
      rec     == [FrameRecord(conn, <<conn.delimiter>>, typed[1], c.fault, c.fields) EXCEPT
                    !.counter = counter % (IF typed[1] \in SHORT_INDEX THEN 256 ELSE 65536),
                    !.check_error = error, !.escapes = Escapes(data),
                    !.length_field = IF c.fault = "length_disagreement" THEN length ELSE 0]
  IN [whole |-> data, rec |-> rec]

(* _jt808_frame for a sentence, whose text is drawn from its command.      *)
sentence_segment(conn, counter, c) ==
  LET f == sentence_fields(conn.device, counter, c.fields.command)
  IN [whole |-> sentence(f), rec |-> FrameRecord(conn, <<40>>, -1, c.fault, f)]

(* The segment of a choice. A truncated frame keeps its first "with" bytes. *)
Segment(conn, counter, c) ==
  IF c.name = "garbage"
    THEN [data |-> c.data, whole |-> <<>>, rec |-> [kind |-> "garbage", alphabet |-> c.alphabet]]
    ELSE LET s == CASE c.name = "sentence"     -> sentence_segment(conn, counter, c)
                    [] conn.protocol = "gt06"  -> gt06_segment(conn, counter, c)
                    [] OTHER                   -> jt808_segment(conn, counter, c)
         IN IF c.fault = "truncated"
              THEN [data |-> SubSeq(s.whole, 1, c.with), whole |-> s.whole,
                    rec |-> [s.rec EXCEPT !.frame_length = Len(s.whole)]]
              ELSE [data |-> s.whole, whole |-> s.whole, rec |-> s.rec]

(* R2: the first frame names the device, and is never faulty. *)
Session(conn) ==
  IF conn.protocol = "gt06"
    THEN [name |-> "login", fault |-> "none", with |-> 0, fields |-> login_fields(conn.device)]
    ELSE [name |-> "auth", fault |-> "none", with |-> 0, fields |-> [code |-> conn.code]]

(* R7: the counter a connection starts from. *)
FirstCounter(conn) == IF conn.protocol = "gt06" THEN 1 ELSE 0

(* What can be drawn for a choice with each fault. *)
FaultDraws(conn, whole, fault) ==
  CASE fault = "truncated"           -> 1 .. Len(whole) - 1
    [] fault = "length_disagreement" -> (-4 .. 4) \ {0}
    [] fault = "bad_checksum"        -> between(1, IF conn.protocol = "gt06" THEN 65535 ELSE 255)
    [] OTHER                         -> {0}

(* The faults a frame can carry; an unknown type is one. *)
EligibleFaults(conn, name) ==
  CASE name = "unknown"  -> {"unknown_type"}
    [] name = "sentence" -> {"none", "truncated"}
    [] OTHER -> {"none", "truncated", "bad_checksum", "length_disagreement"}
                \cup (IF conn.protocol = "jt808" /\ conn.version = 2013 THEN {"flag_lying"} ELSE {})

(* The fields that are drawn for each type. No type but the session's own  *)
(* names the device.                                                       *)
UnknownBytes == {b \in Seq(Byte) : Len(b) <= 32}

DrawnFields(conn, name) ==
  IF conn.protocol = "gt06"
    THEN CASE name = "location" -> gt06_location_fields
           [] name = "status"   -> status_fields
           [] name = "unknown"  -> [content : UnknownBytes]
    ELSE CASE name = "location"  -> jt808_location_fields(18)
           [] name = "batch"     -> batch_fields
           [] name = "location2" -> location2_fields
           [] name = "unknown"   -> [body : UnknownBytes]
           [] name = "sentence"  -> [command : Commands]

DrawnTypes(protocol) ==
  IF protocol = "gt06" THEN {"location", "status", "unknown"}
  ELSE {"location", "batch", "location2", "unknown", "sentence"}

UnknownNumbers(protocol) == IF protocol = "gt06" THEN GT06_UNKNOWN ELSE JT808_UNKNOWN

(* What _fill can draw after the session frame, of a frame that is `whole` *)
(* before it is cut.                                                       *)
IsDrawn(conn, c, whole) ==
  IF c.name = "garbage"
    THEN c.data \in Seq(IF c.alphabet = "any" THEN Byte ELSE NoSync(conn.protocol)) \ {<<>>}
    ELSE /\ c.name \in DrawnTypes(conn.protocol) /\ c.fields \in DrawnFields(conn, c.name)
         /\ c.name = "unknown" => c.type \in UnknownNumbers(conn.protocol)
         /\ c.fault \in EligibleFaults(conn, c.name)
         /\ c.with \in FaultDraws(conn, whole, c.fault)
================================================================================
