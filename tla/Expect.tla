-------------------------------- MODULE Expect --------------------------------
(***************************************************************************)
(* The two programs that say what the harness should do, read from the     *)
(* stimulus alone: bench/stimulus/container.py's unpack(), and             *)
(* bench/decoder/expect.py's stub_records().                               *)
(***************************************************************************)
EXTENDS Harness, FiniteSetsExt, SequencesExt

(* The headers unpack() reads: as many chunks as the header claims, in     *)
(* file order.                                                             *)
FileOrder == InOrder(DOMAIN img.chunk)
Claimed   == SubSeq(FileOrder, 1, img.chunks)
PayloadOf(offsets) == MapThenSumSet(LAMBDA o : img.chunk[o].n, offsets)

(* Whether unpack() accepts the file. i != len(blob) is the test that the  *)
(* claimed chunks are the whole file.                                      *)
Unpacks ==
  /\ img.magic /\ img.version = 2 /\ img.header = 20
  /\ \A k \in ConnIds : Protocol(k) \in {PROTO_GT06, PROTO_JT808}
  /\ img.tablePad
  /\ img.chunks = Len(FileOrder)
  /\ \A k \in 1 .. img.chunks :
       LET h == img.chunk[FileOrder[k]]
       IN  h.n >= 1 /\ h.conn < Connections /\ h.pad
  /\ PayloadOf(DOMAIN img.chunk) = img.payload

(* The line of one chunk: the position is what its connection sent before. *)
ChunkLine(o) ==
  LET h == img.chunk[o]
      before == { q \in ToSet(Claimed) : q < o /\ img.chunk[q].conn = h.conn }
  IN  [conn |-> h.conn, protocol |-> Protocol(h.conn),
       fields |-> << [id |-> F_AT,    val |-> PayloadOf(before), digits |-> 0],
                     [id |-> F_BYTES, val |-> o + 4, digits |-> 2 * h.n],
                     [id |-> F_LEN,   val |-> h.n, digits |-> 0] >>]

EndLine(k) ==
  LET all == { q \in ToSet(Claimed) : img.chunk[q].conn = k } IN
  [conn |-> k, protocol |-> Protocol(k),
   fields |-> << [id |-> F_AT,  val |-> PayloadOf(all), digits |-> 0],
                 [id |-> F_LEN, val |-> 0, digits |-> 0] >>]

(* Python's sort is stable: each connection's chunk lines in file order,   *)
(* then its end line.                                                      *)
StubRecords ==
  LET linesOf(k) ==
        LET mine == InOrder({ o \in ToSet(Claimed) : img.chunk[o].conn = k })
        IN  Append([m \in 1 .. Len(mine) |-> ChunkLine(mine[m])], EndLine(k))
  IN  FlattenSeq([k \in 1 .. Connections |-> linesOf(k - 1)])

-----------------------------------------------------------------------------
(* No chunk has more hex digits than a field header can state. *)
Narrow == \A o \in DOMAIN img.chunk : 2 * img.chunk[o].n < Half

(* What the harness accepts, unpack() accepts, except for the file's       *)
(* length, which the harness cannot see; and what the harness refuses,     *)
(* unpack() refuses, except a table of no connections.                     *)
CheckAgreesWithUnpack ==
  /\ pc \notin {"check", "check_chunks", "done"} =>
       (Unpacks <=> h_end = img.len)
  /\ code = 2 => \/ ~Unpacks
                 \/ Connections = 0
                 \/ Connections > MaxConnections

(* A run that prints its end line printed what expect.py predicts, in      *)
(* canonical order, however the connections' chunks were interleaved and   *)
(* however little memory was left.                                         *)
OutputAsExpected ==
  out.end # Unset /\ Narrow => out.lines = StubRecords

(* Every run ends, with one of main's exit codes. *)
Terminates == <>(pc = "done" /\ code # Running)

-----------------------------------------------------------------------------
(* The harness implements CanonicalOutput: a connection's log is what the  *)
(* buffer holds of it, in address order, and a run publishes with its end  *)
(* line.                                                                   *)
Stream(b) == LET f == SortById(b.fields)
             IN  [at |-> f[1].val, len |-> f[Len(f)].val]

LogOf(k) ==
  LET mine == InOrder({ a \in DOMAIN buf : buf[a].conn = k })
  IN  [m \in 1 .. Len(mine) |-> Stream(buf[mine[m]])]

PublishedLine(l) ==
  IF l = Garbled THEN [conn |-> Unset, at |-> Unset, len |-> Unset]
  ELSE [conn |-> l.conn, at |-> l.fields[1].val, len |-> l.fields[Len(l.fields)].val]

Abstract == INSTANCE CanonicalOutput WITH
  N         <- MaxConnections,
  Wide      <- Half \div 2,
  log       <- [k \in 0 .. MaxConnections - 1 |-> LogOf(k)],
  status    <- IF out.end # Unset THEN "published"
               ELSE IF rec_full THEN "lossy" ELSE "open",
  published <- IF out.end = Unset THEN <<>>
               ELSE [m \in 1 .. Len(out.lines) |-> PublishedLine(out.lines[m])]

(* Every run is a run of CanonicalOutput. *)
ImplementsCanonicalOutput == Abstract!Spec
==============================================================================
