-------------------------------- MODULE Traffic --------------------------------
(***************************************************************************)
(* bench/stimulus/traffic.py: from one parameter file, the connections,    *)
(* each with its frames and garbage runs, and the chunks that their byte   *)
(* streams are cut into, in delivery order; and what generate.py writes    *)
(* about them. A draw of the generator is a choice from the set of values  *)
(* it can return. What a frame says is abstracted to its length and to the *)
(* fault it carries; a byte is its place in its connection's stream.       *)
(* Connections are numbered from 1 here and from 0 in the code.            *)
(***************************************************************************)
EXTENDS Integers, Sequences, FiniteSets, SequencesExt

CONSTANTS
  Params,     \* the parameter files, records as SCHEMA lists them
  PPM,        \* the denominator of every rate
  MaxConns,   \* what the container's u16 can number
  Overhead,   \* the bytes of a frame that its length field does not count
  FieldLimit, \* the largest value of a length field
  Draws       \* how many values next64 has: 2^64

FAULTS == <<"truncated", "bad_checksum", "length_disagreement", "unknown_type", "flag_lying">>

(* A length field that cannot grow by 4 can shrink by 4.                   *)
ASSUME NumbersAssumption ==
  /\ PPM \in Nat \ {0} /\ MaxConns \in Nat \ {0}
  /\ Overhead \in Nat \ {0} /\ FieldLimit \in Nat /\ FieldLimit >= 7
  /\ Draws \in Nat /\ PPM <= Draws /\ MaxConns <= Draws

(* The weight tables of a parameter file. *)
Tables == {"protocols", "gt06", "delimiters", "versions", "jt808"}

(* Of a weight table the names with a positive weight are kept, as far as  *)
(* they matter, and the sum, in "sums"; "lengths" stands for the weights   *)
(* and ranges that decide how long a frame can be, and "sentences" for a   *)
(* positive weight of that type.                                           *)
ASSUME ParamsAssumption ==
  \A q \in Params :
    /\ q.connections \in Nat /\ q.frames \in Nat
    /\ q.assignment \in {"equal", "uniform"}
    /\ q.protocols \subseteq {"gt06", "jt808"} /\ q.versions \subseteq {2013, 2019}
    /\ q.sums \in [Tables -> Nat]
    /\ q.protocols = {} <=> q.sums["protocols"] = 0
    /\ q.versions = {} <=> q.sums["versions"] = 0
    /\ q.sentences \in BOOLEAN
    /\ q.lengths \subseteq Nat /\ q.lengths # {} /\ \A n \in q.lengths : n > Overhead
    /\ \A f \in ToSet(FAULTS) : q.faults_ppm[f] \in Nat
    /\ q.garbage.rate_ppm \in Nat
    /\ \A range \in {q.garbage.length, q.chunk_size} : range \in Nat \X Nat
    /\ q.interleave \in {"sequential", "round_robin", "uniform"}

VARIABLES
  p,          \* the parameter file
  stage,
  conns,      \* each connection's protocol and version
  counts,     \* how many frames each connection gets
  segments,   \* each connection's frames and garbage runs
  per_conn,   \* each connection's chunks, as ranges [from, to) of its stream
  order,      \* the chunks in delivery order
  pos,        \* how many chunks of each connection are in order
  active      \* the connections that still have chunks

vars == <<p, stage, conns, counts, segments, per_conn, order, pos, active>>

--------------------------------------------------------------------------------
Conns == 1 .. p.connections

Sum(s) == FoldLeft(LAMBDA a, b : a + b, 0, s)

Lengths(segs) == [i \in DOMAIN segs |-> segs[i].length]

(* The length of a connection's stream, and where its i-th segment starts. *)
StreamLength(c) == Sum(Lengths(segments[c]))
Offset(c, i)    == Sum(SubSeq(Lengths(segments[c]), 1, i - 1))

Frames(segs) == {i \in DOMAIN segs : segs[i].kind = "frame"}

(* validate(): at least one weight of each table is positive. *)
Weighted(q) == \A t \in Tables : q.sums[t] > 0

(* The limits that validate() puts on a parameter file. *)
Valid(q) ==
  /\ q.connections \in 1 .. MaxConns /\ q.frames >= q.connections
  /\ Sum([i \in DOMAIN FAULTS |-> q.faults_ppm[FAULTS[i]]]) <= PPM
  /\ q.garbage.rate_ppm <= PPM
  /\ 1 <= q.garbage.length[1] /\ q.garbage.length[1] <= q.garbage.length[2]
  /\ 1 <= q.chunk_size[1] /\ q.chunk_size[1] <= q.chunk_size[2] /\ q.chunk_size[2] <= 65535
  /\ \A n \in q.lengths : n - Overhead <= FieldLimit
  /\ Weighted(q)

--------------------------------------------------------------------------------
(* _fault: one draw u; each eligible name takes its rate off it until one  *)
(* is larger than what is left. Left[i] is what is left before the i-th.   *)
Fault(u, eligible) ==
  LET Left[i \in 1 .. Len(FAULTS)] ==
        IF i = 1 THEN u
        ELSE Left[i - 1] - (IF FAULTS[i - 1] \in eligible THEN p.faults_ppm[FAULTS[i - 1]] ELSE 0)
      hits == {i \in DOMAIN FAULTS : FAULTS[i] \in eligible /\ Left[i] < p.faults_ppm[FAULTS[i]]}
  IN IF hits = {} THEN "none" ELSE FAULTS[CHOOSE i \in hits : \A j \in hits : i <= j]

Eligible(conn, type) ==
  IF type = "sentence" THEN {"truncated"}
  ELSE {"truncated", "bad_checksum", "length_disagreement", "unknown_type"}
         \cup (IF conn.protocol = "jt808" /\ conn.version = 2013 THEN {"flag_lying"} ELSE {})

\* Mutant: the sign drawn is kept.
LengthDelta_Drawn(d, correct, limit) == d

(* The change to a length field, for a draw d of 1 to 4 either way. *)
LengthDelta(d, correct, limit) == IF correct + d \in 0 .. limit THEN d ELSE -d

(* A frame of `whole` bytes of which `length` are sent, and its length     *)
(* field. A truncated frame keeps a proper prefix of at least one byte.    *)
Frame(type, fault, whole, length, field) ==
  [kind |-> "frame", type |-> type, fault |-> fault, whole |-> whole, length |-> length,
   field |-> field]

Garbage(n) ==
  [kind |-> "garbage", type |-> "none", fault |-> "none", whole |-> n, length |-> n, field |-> 0]

(* _truncate: how much of a frame may be kept. *)
Kept(whole) == 1 .. whole - 1

MakeFrames(type, fault, whole) ==
  LET correct == whole - Overhead IN
  CASE fault = "truncated" -> {Frame(type, fault, whole, n, correct) : n \in Kept(whole)}
    [] fault = "length_disagreement" ->
         {Frame(type, fault, whole, whole, correct + LengthDelta(d, correct, FieldLimit)) :
            d \in (-4 .. 4) \ {0}}
    [] OTHER -> {Frame(type, fault, whole, whole, correct)}

--------------------------------------------------------------------------------
\* Mutant: the limit is taken from MASK64, the largest value of next64.
Limit_Mask(n) == (Draws - 1) - ((Draws - 1) % n)

(* prng.below(n) draws until a value is below the largest multiple of n    *)
(* that fits. next64 goes through all of its values, so one that is below  *)
(* a positive limit comes; but past Draws the limit is 0.                  *)
Limit(n) == Draws - (Draws % n)

Returns(n) == Limit(n) > 0

(* Only weights and garbage.length have no upper limit in validate(): the  *)
(* draws that they decide can fail to return. pick() draws below the sum   *)
(* of a table.                                                             *)
ConnectionDrawn(protocol) ==
  /\ Returns(p.sums["protocols"])
  /\ protocol = "jt808" => Returns(p.sums["delimiters"]) /\ Returns(p.sums["versions"])

GarbageDrawn(run) == run # <<>> => Returns(p.garbage.length[2] - p.garbage.length[1] + 1)

(* A JT808 frame's type is drawn before its fault. A GT06 frame's is drawn *)
(* after it, unless the fault is that the type is unknown.                 *)
TypeDrawn(protocol, fault) ==
  IF protocol = "jt808" THEN Returns(p.sums["jt808"])
                        ELSE fault # "unknown_type" => Returns(p.sums["gt06"])

--------------------------------------------------------------------------------
Init ==
  /\ p \in Params
  /\ stage = "validate"
  /\ conns = <<>> /\ counts = <<>> /\ segments = <<>> /\ per_conn = <<>>
  /\ order = <<>> /\ pos = <<>> /\ active = <<>>

(* validate(): a file outside the limits ends the program with code 2. *)
Validate ==
  /\ stage = "validate"
  /\ stage' = IF Valid(p) THEN "connect" ELSE "refused"
  /\ UNCHANGED <<p, conns, counts, segments, per_conn, order, pos, active>>

(* _connection: a protocol and, for JT808, a version (delimiter left out). *)
Connect ==
  /\ stage = "connect"
  /\ IF Len(conns) < p.connections
       THEN /\ \E pr \in p.protocols :
                 /\ ConnectionDrawn(pr)
                 /\ \E v \in IF pr = "jt808" THEN p.versions ELSE {0} :
                      conns' = Append(conns, [protocol |-> pr, version |-> v])
            /\ UNCHANGED <<stage, counts>>
       ELSE /\ stage' = "deal"
            /\ counts' = [c \in Conns |-> 1]
            /\ UNCHANGED conns
  /\ UNCHANGED <<p, segments, per_conn, order, pos, active>>

EqualShares ==
  LET extra == p.frames - p.connections
  IN [c \in Conns |-> 1 + extra \div p.connections
                        + (IF c - 1 < extra % p.connections THEN 1 ELSE 0)]

(* _frames_per_connection, "equal": all at once. *)
DealEqually ==
  /\ stage = "deal" /\ p.assignment = "equal"
  /\ counts' = EqualShares
  /\ stage' = "fill"
  /\ segments' = [c \in Conns |-> <<>>]
  /\ UNCHANGED <<p, conns, per_conn, order, pos, active>>

(* "uniform": one frame at a time. *)
DealUniformly ==
  /\ stage = "deal" /\ p.assignment = "uniform"
  /\ IF Sum(counts) < p.frames
       THEN /\ \E c \in Conns : counts' = [counts EXCEPT ![c] = @ + 1]
            /\ UNCHANGED <<stage, segments>>
       ELSE /\ stage' = "fill"
            /\ segments' = [c \in Conns |-> <<>>]
            /\ UNCHANGED counts
  /\ UNCHANGED <<p, conns, per_conn, order, pos, active>>

(* The connection being filled: the first whose frames are not all made. *)
Unfilled == {c \in Conns : Cardinality(Frames(segments[c])) < counts[c]}
Filling  == CHOOSE c \in Unfilled : \A d \in Unfilled : c <= d

(* _fill, its first frame: the session frame, with no fault drawn. *)
FillSession ==
  /\ stage = "fill" /\ Unfilled # {} /\ segments[Filling] = <<>>
  /\ \E whole \in p.lengths :
       segments' = [segments EXCEPT ![Filling] =
                      <<Frame("session", "none", whole, whole, whole - Overhead)>>]
  /\ UNCHANGED <<p, stage, conns, counts, per_conn, order, pos, active>>

(* The garbage run that a draw below the rate puts before a frame. *)
GarbageRuns ==
  (IF p.garbage.rate_ppm < PPM THEN {<<>>} ELSE {})
    \cup (IF p.garbage.rate_ppm > 0
            THEN {<<Garbage(n)>> : n \in p.garbage.length[1] .. p.garbage.length[2]}
            ELSE {})

FrameTypes(conn) ==
  {"binary"} \cup (IF conn.protocol = "jt808" /\ p.sentences THEN {"sentence"} ELSE {})

(* _fill, every later frame, with the garbage run before it. *)
FillFrame ==
  /\ stage = "fill" /\ Unfilled # {} /\ segments[Filling] # <<>>
  /\ \E run \in GarbageRuns, type \in FrameTypes(conns[Filling]), u \in 0 .. PPM - 1,
        whole \in p.lengths :
       LET conn  == conns[Filling]
           fault == Fault(u, Eligible(conn, type))
       IN /\ GarbageDrawn(run) /\ TypeDrawn(conn.protocol, fault)
          /\ \E frame \in MakeFrames(type, fault, whole) :
               segments' = [segments EXCEPT ![Filling] = @ \o run \o <<frame>>]
  /\ UNCHANGED <<p, stage, conns, counts, per_conn, order, pos, active>>

Filled ==
  /\ stage = "fill" /\ Unfilled = {}
  /\ stage' = "cut"
  /\ per_conn' = [c \in Conns |-> <<>>]
  /\ UNCHANGED <<p, conns, counts, segments, order, pos, active>>

--------------------------------------------------------------------------------
CutTo(c) == IF per_conn[c] = <<>> THEN 0 ELSE Last(per_conn[c]).to

Uncut   == {c \in Conns : CutTo(c) < StreamLength(c)}
Cutting == CHOOSE c \in Uncut : \A d \in Uncut : c <= d

(* A slice ends with its stream. *)
ChunkEnd(c, n) == IF CutTo(c) + n > StreamLength(c) THEN StreamLength(c) ELSE CutTo(c) + n

(* _chunks, one turn of its loop. *)
Cut ==
  /\ stage = "cut" /\ Uncut # {}
  /\ \E n \in p.chunk_size[1] .. p.chunk_size[2] :
       per_conn' = [per_conn EXCEPT ![Cutting] =
                      Append(@, [from |-> CutTo(Cutting), to |-> ChunkEnd(Cutting, n)])]
  /\ UNCHANGED <<p, stage, conns, counts, segments, order, pos, active>>

(* The elements of a set of numbers, in ascending order. *)
Ascending(S) ==
  {s \in [1 .. Cardinality(S) -> S] :
     /\ \A i, j \in DOMAIN s : i < j => s[i] < s[j]
     /\ \A c \in S : \E i \in DOMAIN s : s[i] = c}

(* _interleave, before its loop: every connection that has a chunk. *)
CutAll ==
  /\ stage = "cut" /\ Uncut = {}
  /\ stage' = "interleave"
  /\ pos' = [c \in Conns |-> 0]
  /\ active' \in Ascending({c \in Conns : per_conn[c] # <<>>})
  /\ UNCHANGED <<p, conns, counts, segments, per_conn, order>>

(* The places in active that the mode may take from. *)
Turn == IF p.interleave = "uniform" THEN 1 .. Len(active) ELSE {1}

\* Mutant: round_robin leaves the connection it served at the front.
Served_Stay(k) == active

(* active after active[k] is served: round_robin moves it to the back. *)
Served(k) == IF p.interleave = "round_robin" THEN Append(RemoveAt(active, k), active[k]) ELSE active

\* Mutant: the test for an exhausted connection is one chunk early.
Left_Early(k, served) ==
  IF pos[active[k]] + 2 >= Len(per_conn[active[k]]) THEN RemoveFirst(served, active[k]) ELSE served

(* active.remove(c) once c has no chunk left. *)
Left(k, served) ==
  IF pos[active[k]] + 1 = Len(per_conn[active[k]]) THEN RemoveFirst(served, active[k]) ELSE served

(* _interleave, one turn of its loop. *)
TakeTurn ==
  /\ stage = "interleave" /\ active # <<>>
  /\ \E k \in Turn :
       LET c == active[k]
           chunk == per_conn[c][pos[c] + 1]
       IN /\ order' = Append(order, [conn |-> c, from |-> chunk.from, to |-> chunk.to])
          /\ pos' = [pos EXCEPT ![c] = @ + 1]
          /\ active' = Left(k, Served(k))
  /\ UNCHANGED <<p, stage, conns, counts, segments, per_conn>>

(* generate.py writes its three files. *)
Write ==
  /\ stage = "interleave" /\ active = <<>>
  /\ stage' = "written"
  /\ UNCHANGED <<p, conns, counts, segments, per_conn, order, pos, active>>

(* A draw whose limit is 0: below() never leaves its loop. *)
Spin ==
  /\ \/ /\ stage = "connect" /\ Len(conns) < p.connections
        /\ \E pr \in p.protocols : ~ConnectionDrawn(pr)
     \/ /\ stage = "fill" /\ Unfilled # {} /\ segments[Filling] # <<>>
        /\ \E run \in GarbageRuns, type \in FrameTypes(conns[Filling]), u \in 0 .. PPM - 1 :
             LET conn == conns[Filling]
             IN ~(GarbageDrawn(run) /\ TypeDrawn(conn.protocol, Fault(u, Eligible(conn, type))))
  /\ stage' = "spins"
  /\ UNCHANGED <<p, conns, counts, segments, per_conn, order, pos, active>>

Ended == stage \in {"written", "refused", "spins"} /\ UNCHANGED vars

Next ==
  \/ Validate \/ Connect \/ DealEqually \/ DealUniformly
  \/ FillSession \/ FillFrame \/ Filled
  \/ Cut \/ CutAll \/ TakeTurn \/ Write
  \/ Spin \/ Ended

Spec     == Init /\ [][Next]_vars
(* One thread runs the program, and nothing in it waits: it stops in a     *)
(* stage only where no draw returns.                                       *)
FairSpec == Spec /\ WF_vars(Next)

--------------------------------------------------------------------------------
(* What generate.py writes, and what check.py makes of it.                 *)

Bytes(chunk) == [i \in 1 .. chunk.to - chunk.from |-> chunk.from + i - 1]

(* check.py's loop over the chunks: the stream of a connection, put        *)
(* together from them, and their sizes.                                    *)
ReadBack(c) ==
  FoldLeft(LAMBDA s, d :
             IF d.conn = c
               THEN [stream |-> s.stream \o Bytes(d), sizes |-> Append(s.sizes, d.to - d.from)]
               ELSE s,
           [stream |-> <<>>, sizes |-> <<>>], order)

Stream(c) == ReadBack(c).stream
Sizes(c)  == ReadBack(c).sizes

(* intent_lines: one line per segment, with its offset. *)
Intent(c) ==
  [i \in DOMAIN segments[c] |->
     [segment |-> segments[c][i], offset |-> Offset(c, i), length |-> segments[c][i].length]]

(* realized: the boundaries, each as far on as all the chunks up to it are *)
(* long. A frame is split if the first boundary after its start comes      *)
(* before its end; bisect_right finds it.                                  *)
Ends(c) == [i \in DOMAIN Sizes(c) |-> Sum(SubSeq(Sizes(c), 1, i))]

\* Mutant: bisect_left.
Bisect_Left(b, x) == Cardinality({i \in DOMAIN b : b[i] < x})

Bisect(b, x) == Cardinality({i \in DOMAIN b : b[i] <= x})

IsSplit(c, i) ==
  LET k == Bisect(Ends(c), Offset(c, i)) + 1
  IN k <= Len(Ends(c)) /\ Ends(c)[k] < Offset(c, i) + segments[c][i].length

(* check.py on the sizes of a connection's chunks. *)
SizesPass(c) ==
  /\ \A i \in 1 .. Len(Sizes(c)) - 1 : Sizes(c)[i] \in p.chunk_size[1] .. p.chunk_size[2]
  /\ Sizes(c) # <<>> => Last(Sizes(c)) \in 1 .. p.chunk_size[2]

(* check.py on one intent line: the segment lies in the stream where the   *)
(* line says, garbage follows a frame, the first frame is a session frame  *)
(* with no fault, and a frame is what its fault makes it.                  *)
LinePasses(c, i) ==
  LET line == Intent(c)[i]
      seg  == line.segment
  IN /\ line.offset = Sum(SubSeq(Lengths(segments[c]), 1, i - 1))
     /\ SubSeq(Stream(c), line.offset + 1, line.offset + line.length)
          = [j \in 1 .. line.length |-> line.offset + j - 1]
     /\ seg.kind = "garbage" => i > 1
     /\ i = 1 => seg.fault = "none" /\ seg.type = "session"
     /\ seg.fault = "truncated" <=> seg.length < seg.whole
     /\ seg.kind = "frame" =>
          (seg.fault = "length_disagreement" <=> seg.field # seg.whole - Overhead)

CheckPasses ==
  \A c \in Conns :
    /\ SizesPass(c)
    /\ \A i \in DOMAIN Intent(c) : LinePasses(c, i)
    /\ Sum(Lengths(segments[c])) = Len(Stream(c))
================================================================================
