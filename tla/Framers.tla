-------------------------------- MODULE Framers --------------------------------
(***************************************************************************)
(* bench/evidence/framing.py: its ports of Traccar's two frame decoders,   *)
(* and frames_of(), which takes frames from a connection's whole stream    *)
(* until a decode returns nothing or raises. The stream is made first, a   *)
(* segment at a time, by the stimulus's own encoders and rules; the two    *)
(* readers of Reader.tla see each segment as it is made.                   *)
(*                                                                         *)
(* Offsets count from 0, as in the code: byte i of a buffer b is b[i + 1]. *)
(***************************************************************************)
EXTENDS Segments, Reader

CONSTANTS
  Conns,          \* the connections: protocol, delimiter, version, device, auth code
  MaySend(_, _)   \* what is tried next on a connection, of all that may be drawn

IsConnection(c) ==
  /\ c.protocol \in {"gt06", "jt808"} /\ c.device \in Seq(Digit)
  /\ c.protocol = "gt06" => Len(c.device) = 15
  /\ c.protocol = "jt808" => /\ c.delimiter \in {STANDARD, ALTERNATIVE} /\ c.version \in {2013, 2019}
                             /\ Len(c.device) = 12 /\ c.code \in Seq(ALNUM)

ASSUME ConnsAssumption == \A c \in Conns : IsConnection(c)

VARIABLES
  conn,   \* the connection
  segs,   \* the segments sent: data, what it was cut from, account
  fixed,  \* is the length of a sentence corrected (sentence_length_fixed)
  pc,     \* "send", "decode", or how frames_of ended: "waiting" or "raised"
  r,      \* the reader index
  out     \* what was returned: the slice [from, to) it came from, and its bytes

vars == <<conn, segs, fixed, pc, r, out>>

--------------------------------------------------------------------------------
Stream == FlattenSeq([k \in DOMAIN segs |-> segs[k].data])

(* Where segment k starts in the stream, and where it ends. *)
EndOf(k)   == Through(+, 0, [j \in 1 .. k |-> Len(segs[j].data)])
StartOf(k) == EndOf(k - 1)

IsFrame(k) == segs[k].rec.kind = "frame"

(* The counter of the frame after the first n segments. *)
CounterAfter(n) == FirstCounter(conn) + Cardinality({k \in 1 .. n : IsFrame(k)})

NextSegment(c) == Segment(conn, CounterAfter(Len(segs)), c)

--------------------------------------------------------------------------------
(* A decode: "none" waits for more bytes, "raised" is an IndexError; at is *)
(* where the frame begins and next where the reader index is left.         *)
None(at)    == [status |-> "none", at |-> at, next |-> at, frame |-> <<>>]
Raised(at)  == [status |-> "raised", at |-> at, next |-> at, frame |-> <<>>]

Took(b, at, n) ==
  IF n > Len(b) - at THEN Raised(at)
  ELSE [status |-> "frame", at |-> at, next |-> at + n, frame |-> Slice(b, at, at + n)]

IndicesOf(b, from, value) == {i \in from .. Len(b) - 1 : b[i + 1] = value}

\* Mutant: the two bytes of the stop are not counted.
Gt06Length_NoStop(b, at) ==
  2 + (IF b[at + 1] = 120 THEN 1 + b[at + 3] ELSE 2 + Num(b, at + 2, at + 4))

Gt06Length(b, at) ==
  4 + (IF b[at + 1] = 120 THEN 1 + b[at + 3] ELSE 2 + Num(b, at + 2, at + 4))

\* Mutant: a 0D ends a frame without its 0A.
Stops_HalfStop(b, at) == {i \in IndicesOf(b, at, 13) : i > 0 /\ i + 1 < Len(b)}

Stops(b, at) == {i \in IndicesOf(b, at, 13) : i > 0 /\ Slice(b, i + 1, i + 2) = <<10>>}

(* The frame starts at the next byte. If 0D 0A sits where the length there *)
(* points the frame ends so, and otherwise at the first 0D 0A; a 0D at the *)
(* very start of the buffer ends that search.                              *)
gt06_decode(b, at) ==
  LET length == Gt06Length(b, at)
  IN IF Len(b) - at < 5 THEN None(at)
     ELSE IF Len(b) - at >= length /\ Slice(b, at + length - 2, at + length) = <<13, 10>>
       THEN Took(b, at, length)
     ELSE IF Stops(b, at) = {} \/ (at = 0 /\ b[1] = 13) THEN None(at)
     ELSE Took(b, at, Min(Stops(b, at)) + 2 - at)

UNESCAPE ==
  [e \in {126, 231} |->
     Dict(IF e = 126 THEN {<<<<125, 1>>, 125>>, <<<<125, 2>>, 126>>}
          ELSE {<<<<230, 1>>, 230>>, <<<<230, 2>>, 231>>, <<<<62, 1>>, 62>>, <<<<62, 2>>, 61>>})]

(* The bytes from `at` to `index`, unescaped; an unknown pair is dropped.  *)
Unescaped(b, at, index) ==
  LET pairs == UNESCAPE[b[at + 1]]
      introducers == {p[1] : p \in DOMAIN pairs}
      From[i \in at .. index + 2] ==
        IF i > index THEN <<>>
        ELSE IF b[i + 1] \notin introducers THEN <<b[i + 1]>> \o From[i + 1]
        ELSE LET pair == Slice(b, i, i + 2) IN
             (IF pair \in DOMAIN pairs THEN <<pairs[pair]>> ELSE <<>>) \o From[i + 2]
  IN From[at]

(* Bytes are skipped to a frame start, even if no frame follows. *)
Skipped(b, at) ==
  LET starts == {i \in at .. Len(b) - 1 : b[i + 1] \in {40, 126, 231}}
  IN IF starts = {} THEN Len(b) ELSE Min(starts)

\* Mutant: a sentence may not be given a wrong length.
SentenceLength_Right(from, index, corrected) == index + 1 - from

(* The slice is index + 1 bytes long wherever the sentence starts, unless corrected. *)
SentenceLength(from, index, corrected) == index + 1 - (IF corrected THEN from ELSE 0)

\* Mutant: the closing delimiter is left for the next frame.
PastFrame_KeepsDelimiter(index) == index

PastFrame(index) == index + 1

jt808_decode(b, at, corrected) ==
  LET from  == Skipped(b, at)
      first == b[from + 1]
      ends  == IndicesOf(b, from + 1, IF first = 40 THEN 41 ELSE first)
  IN IF Len(b) - from < 2 THEN None(from)
     ELSE IF ends = {} THEN None(from)
     ELSE IF first = 40 THEN Took(b, from, SentenceLength(from, Min(ends), corrected))
     ELSE [status |-> "frame", at |-> from, next |-> PastFrame(Min(ends)),
           frame |-> Unescaped(b, from, Min(ends))]

decode(b, at) ==
  IF conn.protocol = "gt06" THEN gt06_decode(b, at) ELSE jt808_decode(b, at, fixed)

--------------------------------------------------------------------------------
Init ==
  /\ conn \in Conns
  /\ segs = <<Segment(conn, FirstCounter(conn), Session(conn))>>
  /\ fixed \in BOOLEAN /\ (conn.protocol = "gt06" => fixed)
  /\ pc = "send" /\ r = 0 /\ out = <<>>

Send ==
  /\ pc = "send"
  /\ \E c \in MaySend(conn, segs) :
       /\ IsDrawn(conn, c, NextSegment(c).whole)
       /\ segs' = Append(segs, NextSegment(c))
  /\ UNCHANGED <<conn, fixed, pc, r, out>>

Sent ==
  /\ pc = "send"
  /\ pc' = "decode"
  /\ UNCHANGED <<conn, segs, fixed, r, out>>

Return ==
  /\ pc = "decode"
  /\ LET f == decode(Stream, r) IN
       /\ r' = f.next
       /\ IF f.status = "frame"
            THEN out' = Append(out, [from |-> f.at, to |-> f.next, frame |-> f.frame]) /\ pc' = pc
            ELSE out' = out /\ pc' = (IF f.status = "none" THEN "waiting" ELSE "raised")
  /\ UNCHANGED <<conn, segs, fixed>>

Ended == pc \in {"waiting", "raised"} /\ UNCHANGED vars

Next == Send \/ Sent \/ Return \/ Ended

Spec == Init /\ [][Next]_vars

--------------------------------------------------------------------------------
(* coverage(): what a segment is when it comes out whole, and whether a    *)
(* whole frame is lost. A frame returned is struck off for the first       *)
(* segment that equals it.                                                 *)
Alone(k) ==
  LET f == IF conn.protocol = "gt06" THEN gt06_decode(segs[k].data, 0)
           ELSE jt808_decode(segs[k].data, 0, fixed)
  IN f.frame

IsWhole(k) == IsFrame(k) /\ segs[k].rec.fault = "none"

Lost(k) ==
  /\ IsWhole(k)
  /\ Cardinality({j \in 1 .. k - 1 : IsWhole(j) /\ Alone(j) = Alone(k)})
       >= Cardinality({i \in DOMAIN out : out[i].frame = Alone(k)})
================================================================================
