------------------------------ MODULE MCHarness ------------------------------
(***************************************************************************)
(* Images for TLC: every well-formed stimulus of a few chunks, each with   *)
(* memory that ends just below, at and just above what it needs; and       *)
(* stimuli with one thing wrong in each.                                   *)
(***************************************************************************)
EXTENDS Expect

CONSTANTS Lengths, MixedLengths, WideLengths

(* The offset pack() gives to the k-th of these chunks. *)
OffsetOf(protocols, chunks, k) ==
  Pad4(20 + Len(protocols))
    + MapThenSumSet(LAMBDA j : 4 + Pad4(chunks[j].n), 1 .. k - 1)

(* The image of what pack() writes, with `room` bytes for records. *)
Pack(protocols, chunks, room) ==
  LET at_(k) == OffsetOf(protocols, chunks, k)
      len    == at_(Len(chunks) + 1)
      offs   == { at_(k) : k \in 1 .. Len(chunks) }
  IN  [magic |-> TRUE, version |-> 2, header |-> 20, tablePad |-> TRUE,
       protocols |-> protocols, chunks |-> Len(chunks), len |-> len,
       payload |-> MapThenSumSet(LAMBDA k : chunks[k].n, 1 .. Len(chunks)),
       chunk |-> [o \in offs |-> chunks[CHOOSE k \in 1 .. Len(chunks) : at_(k) = o]],
       memTop |-> Align16(Align16(len) + 8 * Len(protocols)) + room]

Chunk(lengths) == [n : lengths, conn : {0, 1}, pad : {TRUE}]
Two == <<PROTO_GT06, PROTO_JT808>>

(* A buffer of 1,024 words, the least the harness accepts, under one or    *)
(* two chunks that fill it to within a word either way of each limit.      *)
Tight == { Pack(Two, s, 4096) : s \in SeqOf(Chunk(Lengths), 2) }

(* The limits of the memory check itself. *)
Rooms == { Pack(Two, s, room) : s \in SeqOf(Chunk(Lengths), 1),
                                room \in {4092, 4096, 4100, 8192} }

(* Longer streams, with every interleaving of the two connections. *)
Mixed == { Pack(Two, s, 4096) : s \in SeqOf(Chunk(MixedLengths), 3) }
Small == { Pack(Two, s, 4096) : s \in SeqOf(Chunk({6}), 4) }

Three == <<PROTO_JT808, PROTO_GT06, PROTO_GT06>>
Triple == { Pack(Three, s, 4096) :
              s \in SeqOf([n : {6}, conn : 0 .. 2, pad : {TRUE}], 3) }

(* Chunks whose hex digits do not fit a field header, and room for them. *)
Wides == { Pack(Two, s, 131072) : s \in SeqOf(Chunk(WideLengths), 2) }

(* One thing wrong: in the header, the table, a chunk, or the totals. *)
Good == Pack(Two, << [n |-> 3, conn |-> 1, pad |-> TRUE],
                     [n |-> 4, conn |-> 0, pad |-> TRUE] >>, 4096)
Corrupt ==
  { [Good EXCEPT !.magic = FALSE], [Good EXCEPT !.version = 1],
    [Good EXCEPT !.header = 24], [Good EXCEPT !.tablePad = FALSE],
    [Good EXCEPT !.protocols = <<1, 3>>], [Good EXCEPT !.protocols = <<0, 2>>],
    [Good EXCEPT !.payload = 6], [Good EXCEPT !.payload = 8],
    [Good EXCEPT !.chunks = 1], [Good EXCEPT !.chunks = 1, !.payload = 3],
    [Good EXCEPT !.chunks = 0, !.payload = 0],
    Pack(<<>>, <<>>, 4096), Pack(<<1, 2, 1, 2>>, <<>>, 4096), Pack(<<2>>, <<>>, 4096) }
  \cup { Pack(Two, <<h, [n |-> 5, conn |-> 0, pad |-> TRUE]>>, 4096) :
           h \in [n : {0, 1, 7}, conn : {0, 1, 2}, pad : BOOLEAN] }

MCImages == Tight \cup Rooms \cup Mixed \cup Small \cup Triple \cup Wides \cup Corrupt

-----------------------------------------------------------------------------
(* harness.c says of its formatter: "What it refuses is a record that      *)
(* records.h could not have written." Every record of this decoder is      *)
(* written by records.h, so none should be refused.                        *)
RefusesOnlyForeignRecords == code # 4
==============================================================================
