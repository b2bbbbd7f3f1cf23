--------------------------- MODULE FramersProperties ---------------------------
(***************************************************************************)
(* What the encoders, the two readers and the two framers must agree on,   *)
(* and which frames a broken one costs.                                    *)
(***************************************************************************)
EXTENDS Framers

Untruncated(k) == IsFrame(k) /\ segs[k].rec.fault # "truncated"
IsSentence(k)  == IsFrame(k) /\ segs[k].rec.framing = <<40>>

(* The other accounts that could have been written of segment k. *)
OtherAccounts(k) ==
  {Segment(conn, CounterAfter(k - 1), c).rec :
     c \in {x \in MaySend(conn, SubSeq(segs, 1, k - 1)) : x.name # "garbage"}} \ {segs[k].rec}

CorpusAgrees(k) ==
  LET fault == segs[k].rec.fault
      c == IF conn.protocol = "gt06" THEN gt06_corpus(segs[k].data) ELSE jt808_corpus(segs[k].data)
  IN /\ c.frame /\ c.verifies = (fault # "bad_checksum")
     /\ fault # "flag_lying" => c.disagrees = (fault = "length_disagreement")

(* check.py reads back from each segment's bytes exactly the account that  *)
(* the generator wrote of it: it takes that account, and for a frame that  *)
(* was not cut no other that a choice could have written, and a cut frame  *)
(* passes for no frame that was not. checksums.py's counters see a wrong   *)
(* checksum or a wrong length where one was put and nowhere else, but for  *)
(* the length of a frame whose flag lies. No device is a real one.         *)
AccountsAgree ==
  pc = "send" =>
    LET k == Len(segs) IN
    /\ check_device(conn)
    /\ Accepts(segs[k].data, segs[k].rec, conn)
    /\ \A other \in IF IsFrame(k) /\ k > 1 THEN OtherAccounts(k) ELSE {} :
         (Untruncated(k) \/ other.fault # "truncated") => ~Accepts(segs[k].data, other, conn)
    /\ Untruncated(k) /\ ~IsSentence(k) => CorpusAgrees(k)

--------------------------------------------------------------------------------
(* What a framer in step returns for a frame: its bytes, unescaped.        *)
Plain(k) ==
  LET b == segs[k].data IN
  IF conn.protocol = "gt06" \/ IsSentence(k) THEN b
  ELSE <<b[1]>> \o destuff(Slice(b, 1, Len(b) - 1), b[1]) \o <<b[1]>>

(* The frames that end where their first bytes say.                        *)
EndsAsItSays(k) ==
  /\ Untruncated(k)
  /\ conn.protocol = "gt06" => segs[k].rec.fault # "length_disagreement"
  /\ IsSentence(k) => fixed \/ StartOf(k) = 0

(* A framer that begins at the start of an uncut frame returns that frame, *)
(* unescaped, and is at its end afterwards, whatever the frame holds: a    *)
(* stop inside it, the other mode's delimiter, a parenthesis. Only the     *)
(* uncorrected length of a sentence raises.                                *)
InStepComesOut ==
  /\ \A k \in DOMAIN segs :
       out # <<>> /\ EndsAsItSays(k) /\ Last(out).from = StartOf(k) =>
         Last(out).to = EndOf(k) /\ Last(out).frame = Plain(k)
  /\ pc = "raised" => ~fixed

--------------------------------------------------------------------------------
(* A JT808 stream in which only the ends of frames look like their ends.   *)
Inner(k) == IF ~IsFrame(k) THEN segs[k].data
            ELSE IF Untruncated(k) THEN Slice(segs[k].data, 1, Len(segs[k].data) - 1)
            ELSE Tail(segs[k].data)
NoStrayDelimiter == \A k \in DOMAIN segs : ToSet(Inner(k)) \cap {40, 41, 126, 231} = {}

(* Where the JT808 framer is after k segments of such a stream.            *)
Moved(phase, j) ==
  IF ~IsFrame(j) \/ (phase = "aligned" /\ Untruncated(j)) THEN phase
  ELSE CASE phase = "aligned"       -> IF IsSentence(j) THEN "in a sentence" ELSE "swapped"
         [] phase = "swapped"       -> IF Untruncated(j) \/ IsSentence(j) THEN phase ELSE "aligned"
         [] phase = "in a sentence" -> IF Untruncated(j) /\ IsSentence(j) THEN "aligned" ELSE phase

Phase(k) == Through(Moved, "aligned", [j \in 1 .. k |-> j])

ComesOut(k) == \E i \in DOMAIN out : out[i].from = StartOf(k) /\ out[i].to = EndOf(k)

(* No frame put together from the bytes of others equals a whole one.      *)
NoImpostor ==
  \A k \in DOMAIN segs, i \in DOMAIN out :
    IsWhole(k) /\ out[i].frame = Alone(k) => out[i].from = StartOf(k)

(* Finding 8, to the frame: an uncut JT808 frame comes out exactly when    *)
(* the framer is in step before it. A cut binary frame met in step puts it *)
(* out of step up to the next cut binary frame, and a cut sentence met in  *)
(* step up to the end of the next uncut sentence; what else is cut in      *)
(* between changes nothing. Neither checksums nor garbage matter. Frames   *)
(* that do not come out are what coverage() counts as lost, unless a frame *)
(* put together from others' bytes is taken for one.                       *)
PairingLosesRuns ==
  pc = "waiting" /\ conn.protocol = "jt808" /\ fixed /\ NoStrayDelimiter =>
    /\ \A k \in DOMAIN segs : Untruncated(k) => (ComesOut(k) <=> Phase(k - 1) = "aligned")
    /\ NoImpostor => \A k \in DOMAIN segs : IsWhole(k) => (Lost(k) <=> ~ComesOut(k))

(* With the length that Traccar gives a sentence, no sentence after the    *)
(* first byte of a buffer ever comes out, in step or out of it.            *)
NoSentenceUncorrected ==
  pc \in {"waiting", "raised"} /\ ~fixed =>
    \A k \in DOMAIN segs : IsSentence(k) /\ IsWhole(k) => Lost(k)

--------------------------------------------------------------------------------
FrameEnds == {EndOf(k) : k \in {j \in DOMAIN segs : Untruncated(j)}}

(* A GT06 stream in which 0D 0A is found at the ends of frames alone. *)
NoStrayStop ==
  \A i \in 0 .. Len(Stream) - 2 : Slice(Stream, i, i + 2) = <<13, 10>> => i + 2 \in FrameEnds

(* The GT06 framer comes back into step at the end of an uncut frame, and  *)
(* at the first one after where it was, unless what it took for a length   *)
(* pointed at a later one. No frame is left waiting.                       *)
RealignsAtFrameEnds ==
  conn.protocol = "gt06" /\ NoStrayStop =>
    /\ out # <<>> =>
         LET e == Last(out) IN
         /\ e.from \in {0} \cup FrameEnds /\ e.to \in FrameEnds
         /\ \/ e.to - e.from = Gt06Length(Stream, e.from)
            \/ \A x \in FrameEnds : x <= e.from \/ x >= e.to
    /\ pc = "waiting" => r = Max(FrameEnds)
================================================================================
