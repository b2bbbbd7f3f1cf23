--------------------------- MODULE TrafficProperties ---------------------------
(***************************************************************************)
(* What the traffic model is held to: the rules that traffic.py states,    *)
(* what check.py accepts, and what a stimulus promises the decoder.        *)
(***************************************************************************)
EXTENDS Traffic

(* The stages at which every connection has its number of frames. *)
Dealt == {"fill", "cut", "interleave", "written"}

(* Rule R4, "a fault's rate is a probability per frame eligible for it":   *)
(* whatever else is eligible, each eligible fault takes exactly its rate   *)
(* of the PPM values of the one draw.                                      *)
RatesExact(eligible) ==
  \A f \in ToSet(FAULTS) :
    Cardinality({u \in 0 .. PPM - 1 : Fault(u, eligible) = f})
      = IF f \in eligible THEN p.faults_ppm[f] ELSE 0

(* Rules R2, R15 and R16 and the frame counts: the frames asked for are    *)
(* dealt, one at least to each connection and equally if asked; garbage    *)
(* lies singly between two frames; a length field that disagrees moved by  *)
(* 1 to 4 and stayed in its field; and every fault has its rate.           *)
StreamsAsRuled ==
  /\ stage = "deal" =>
       \A c \in DOMAIN conns, type \in {"binary", "sentence"} : RatesExact(Eligible(conns[c], type))
  /\ stage \in Dealt =>
       /\ Sum(counts) = p.frames
       /\ p.assignment = "equal" => \A c, d \in Conns : counts[c] <= counts[d] + 1
       /\ \A c \in Conns : \A i \in DOMAIN segments[c] :
            LET seg == segments[c][i] IN
            /\ seg.type = "session" <=> i = 1
            /\ seg.kind = "garbage" =>
                 i < Len(segments[c]) /\ segments[c][i - 1].kind = "frame"
                                      /\ segments[c][i + 1].kind = "frame"
            /\ seg.kind = "frame" => seg.field \in 0 .. FieldLimit
            /\ seg.fault = "length_disagreement" =>
                 seg.field - (seg.whole - Overhead) \in (-4 .. 4) \ {0}
  /\ stage \in Dealt \ {"fill"} =>
       \A c \in Conns : Cardinality(Frames(segments[c])) = counts[c]

(* bench/SPEC.md section 7: round_robin gives every connection that still  *)
(* has chunks its turn before any gets another; sequential finishes one    *)
(* connection before it starts the next.                                   *)
TurnsKept ==
  stage = "interleave" =>
    /\ p.interleave = "round_robin" =>
         \A c, d \in Conns : pos[c] < Len(per_conn[c]) => pos[d] <= pos[c] + 1
    /\ p.interleave = "sequential" =>
         \A c, d \in Conns : c < d /\ pos[d] > 0 => pos[c] = Len(per_conn[c])

(* check.py, an independent reader, accepts everything generate.py writes, *)
(* and the manifest's count of split frames is the number of frames whose  *)
(* bytes do not all arrive in one chunk.                                   *)
CheckAgrees ==
  stage = "written" =>
    /\ CheckPasses
    /\ \A c \in Conns : \A i \in Frames(segments[c]) :
         IsSplit(c, i) <=>
           ~ \E k \in DOMAIN order :
                /\ order[k].conn = c /\ order[k].from <= Offset(c, i)
                /\ Offset(c, i) + segments[c][i].length <= order[k].to

(* A stimulus delivers each connection's stream whole and in order.        *)
Delivering == stage \in {"interleave", "written"}
Promise == INSTANCE Delivery WITH
  size <- IF Delivering THEN [c \in Conns |-> StreamLength(c)] ELSE <<>>,
  got  <- IF Delivering THEN [c \in Conns |-> Stream(c)] ELSE <<>>
ImplementsDelivery == Promise!Spec

(* No weight table sums to more than 2^64 and garbage.length spans no more *)
(* values than that.                                                       *)
WithinDraws(q) ==
  /\ \A t \in Tables : q.sums[t] <= Draws
  /\ q.garbage.length[2] - q.garbage.length[1] < Draws

(* A file within those bounds is refused or generate() finishes with it,   *)
(* whatever it draws. validate() does not check them: past them a draw may *)
(* not return, and the run then says nothing.                              *)
Finishes == WithinDraws(p) => <>(stage \in {"written", "refused"})
================================================================================
