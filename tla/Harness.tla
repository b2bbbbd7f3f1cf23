------------------------------- MODULE Harness -------------------------------
(***************************************************************************)
(* The decoder benchmark's harness (bench/decoder/harness.c) running the   *)
(* test decoder stub.c over the record buffer of records.h.                *)
(*                                                                         *)
(* One hart runs main(): it checks the linked stimulus, lays memory out,   *)
(* walks the chunks inside the measured window, sorts the records the      *)
(* decoder appended, and prints them. An action is one iteration of one of *)
(* main's loops or the straight code between two loops. The text of the    *)
(* messages, the instret counter and the numerals are left out.            *)
(*                                                                         *)
(* Addresses count from the stimulus's first byte, which stimulus.S puts   *)
(* on a 16-byte boundary. p, h_end and an image's offsets are bytes;       *)
(* rec_next, r, the indexes of buf and base are 32-bit words.              *)
(***************************************************************************)
EXTENDS Records

CONSTANTS
  Images,          \* the linked images: a stimulus, and where memory ends
  MaxConnections,  \* harness.c's limit on connections, 0x10000
  Garbled          \* a line printed from bytes that are no field header

(* A stimulus file as its reader sees it. `chunks`, `payload` and the      *)
(* length of `protocols` are what the header claims; `chunk` maps the      *)
(* offset of each chunk header that pack() wrote to that chunk, and `len`  *)
(* is the file's length. memTop is the -DMEM_TOP of the build.             *)
Chunks == [n : 0 .. Half - 1, conn : 0 .. Half - 1, pad : BOOLEAN]

Pad4(n)    == 4 * ((n + 3) \div 4)
Align16(a) == 16 * ((a + 15) \div 16)

IsImage(m) ==
  /\ m.magic \in BOOLEAN /\ m.tablePad \in BOOLEAN
  /\ m.version \in Nat /\ m.header \in Nat /\ m.chunks \in Nat
  /\ m.payload \in Nat /\ m.len \in Nat /\ m.memTop \in Nat
  /\ m.memTop % 4 = 0
  /\ m.protocols \in Seq(0..255)
  /\ m.chunk \in [DOMAIN m.chunk -> Chunks]
  /\ DOMAIN m.chunk \subseteq Nat

(* pack() puts the chunks end to end, from the end of the table to the end *)
(* of the file.                                                            *)
ChunkEnd(m, o) == o + 4 + Pad4(m.chunk[o].n)

IsPacked(m) ==
  LET offsets == DOMAIN m.chunk
      first   == Pad4(20 + Len(m.protocols))
  IN  /\ IsFiniteSet(offsets)
      /\ first \in offsets \cup {m.len}
      /\ \A o \in offsets :
           /\ first <= o
           /\ ChunkEnd(m, o) <= m.len
           /\ ChunkEnd(m, o) \in offsets \cup {m.len}
           /\ \A q \in offsets : o < q => ChunkEnd(m, o) <= q

ASSUME ImagesAssumption == \A m \in Images : IsImage(m) /\ IsPacked(m)
ASSUME MaxConnectionsAssumption == MaxConnections \in 1 .. Half

(* A garbled line is not one that the formatter makes of a record.         *)
ASSUME GarbledAssumption ==
  Garbled \notin [conn : Nat, protocol : 0..255,
                  fields : Seq([id : Nat, val : Nat, digits : Nat])]

VARIABLES
  img,        \* the image that runs; never changes
  pc,         \* where main() is
  p,          \* byte offset of the next chunk header
  left,       \* chunks left in the walk that is running
  sum,        \* check()'s payload
  h_end,      \* h.end: the offset after the last chunk
  at,         \* conns[c].at: bytes of connection c's stream seen so far
  buf,        \* the closed records, by the word they start at
  rec_next, rec_full,
  c,          \* the connection a per-connection loop is at
  r,          \* the record a pass over the buffer is at
  total, count, start, index,    \* the counting sort
  i,          \* records printed
  out,        \* what was printed: the header's count, the lines, the end line
  code        \* the exit code

chunkVars == <<p, left, sum, h_end>>
bufVars   == <<at, buf, rec_next, rec_full>>
sortVars  == <<c, r, total, count, start, index>>
outVars   == <<i, out, code>>
vars      == <<img, pc, chunkVars, bufVars, sortVars, outVars>>

Running == -1    \* no exit code yet
Unset   == -1    \* a word of memory nothing has written, a line not printed

Connections == Len(img.protocols)
ConnIds     == 0 .. Connections - 1
Protocol(k) == img.protocols[k + 1]

(* A chunk header read at a place where pack() put none reads as zero. *)
HeaderAt(o) == IF o \in DOMAIN img.chunk THEN img.chunk[o]
               ELSE [n |-> 0, conn |-> 0, pad |-> TRUE]

Init ==
  /\ img \in Images
  /\ pc = "check"
  /\ p = 0 /\ left = 0 /\ sum = 0 /\ h_end = 0
  /\ at = <<>> /\ buf = <<>> /\ rec_next = 0 /\ rec_full = FALSE
  /\ c = 0 /\ r = 0 /\ total = 0 /\ count = <<>> /\ start = 0 /\ index = <<>>
  /\ i = 0 /\ out = [records |-> Unset, lines |-> <<>>, end |-> Unset]
  /\ code = Running

(* main returns, or fail() prints why and main returns its code. *)
Exit(n) == pc' = "done" /\ code' = n

-----------------------------------------------------------------------------
(* Before the window: check(). *)

\* Mutant: the padding after the table is not looked at.
TableOK_NoPadding ==
  /\ img.magic /\ img.version = 2 /\ img.header = 20
  /\ Connections # 0 /\ Connections <= MaxConnections
  /\ \A k \in ConnIds : Protocol(k) \in {PROTO_GT06, PROTO_JT808}

TableOK ==
  /\ img.magic /\ img.version = 2 /\ img.header = 20
  /\ Connections # 0 /\ Connections <= MaxConnections
  /\ \A k \in ConnIds : Protocol(k) \in {PROTO_GT06, PROTO_JT808}
  /\ img.tablePad

FirstChunk == Pad4(20 + Connections)

CheckHeader ==
  /\ pc = "check"
  /\ IF TableOK
       THEN /\ pc' = "check_chunks" /\ code' = code
            /\ p' = FirstChunk /\ left' = img.chunks /\ sum' = 0
       ELSE /\ Exit(2)
            /\ UNCHANGED <<p, left, sum>>
  /\ UNCHANGED <<img, h_end, bufVars, sortVars, i, out>>

CheckChunk ==
  /\ pc = "check_chunks" /\ left > 0
  /\ LET h == HeaderAt(p) IN
     IF h.n = 0 \/ h.conn >= Connections \/ ~h.pad
       THEN Exit(2) /\ UNCHANGED <<p, left, sum>>
       ELSE /\ p' = p + 4 + Pad4(h.n)
            /\ left' = left - 1
            /\ sum' = sum + h.n
            /\ UNCHANGED <<pc, code>>
  /\ UNCHANGED <<img, h_end, bufVars, sortVars, i, out>>

CheckPayload ==
  /\ pc = "check_chunks" /\ left = 0
  /\ IF sum # img.payload
       THEN Exit(2) /\ UNCHANGED h_end
       ELSE h_end' = p /\ pc' = "setup" /\ code' = code
  /\ UNCHANGED <<img, p, left, sum, bufVars, sortVars, i, out>>

-----------------------------------------------------------------------------
(* Memory from the end of the stimulus to MEM_TOP: the connections' state  *)
(* (8 bytes each in stub.c), then the records.                             *)

decoder_memory == 8 * Connections
Records0       == Align16(Align16(h_end) + decoder_memory)
base           == Records0 \div 4
rec_limit      == img.memTop \div 4

\* Mutant: c <= connections; the last store lands in the record buffer.
decoder_init_OneTooMany == [k \in 0 .. Connections |-> 0]

(* Every connection starts at offset 0. *)
decoder_init == [k \in ConnIds |-> 0]

(* main's own layout, then decoder_init(). *)
Setup ==
  /\ pc = "setup"
  /\ IF Records0 + 4096 > img.memTop
       THEN Exit(3) /\ UNCHANGED <<at, rec_next, p, left>>
       ELSE /\ pc' = "window" /\ code' = code
            /\ at' = decoder_init
            /\ rec_next' = base
            /\ p' = FirstChunk /\ left' = img.chunks
  /\ UNCHANGED <<img, sum, h_end, buf, rec_full, sortVars, i, out>>

-----------------------------------------------------------------------------
(* The window. A decoder appends a record with rec_open, the field writers *)
(* and rec_close; a record that does not fit only sets rec_full.           *)

\* Mutant: rec_open compares one word short.
Fits_OffByOne(words) == rec_limit - rec_next + 1 >= words

Fits(words) == rec_limit - rec_next >= words

\* Mutants: rec_close forgets rec_next; rec_open forgets rec_full.
AfterRecord_Stays(words) == rec_next
RecordLost_Silent == UNCHANGED <<buf, rec_next, rec_full>>

AfterRecord(words) == rec_next + words
RecordLost == rec_full' = TRUE /\ UNCHANGED <<buf, rec_next>>

(* rec_close: the record's first word, and where the next record starts. *)
CloseRecord(conn, fields, words) ==
  /\ buf' = [a \in DOMAIN buf \cup {rec_next} |->
               IF a = rec_next
                 THEN [words |-> words, conn |-> conn, fields |-> fields,
                       protocol |-> Protocol(conn)]
                 ELSE buf[a]]
  /\ rec_next' = AfterRecord(words)
  /\ UNCHANGED rec_full

\* Mutant: the position is taken after the chunk is added to it.
ChunkFields_AtEnd(conn, o, n) ==
  << rec_u32(F_LEN, n), rec_hex(F_BYTES, o + 4, 2 * n), rec_u32(F_AT, at[conn] + n) >>

(* record_chunk: the fields of a chunk's record, in the order written. *)
ChunkFields(conn, o, n) ==
  << rec_u32(F_LEN, n), rec_hex(F_BYTES, o + 4, 2 * n), rec_u32(F_AT, at[conn]) >>

ChunkReserve(n) == 7 + WordsFor(n)

ChunkRecord(conn, o, n) ==
  IF Fits(ChunkReserve(n))
    THEN LET fs == ChunkFields(conn, o, n)
         IN  CloseRecord(conn, fs, 2 + fs[1].span + fs[2].span + fs[3].span)
    ELSE RecordLost

\* Mutant: the window forgets that chunk data is padded.
WindowStep_NoPadding(n) == 4 + n

WindowStep(n) == 4 + Pad4(n)

DecoderChunk ==
  /\ pc = "window" /\ left > 0
  /\ LET h == HeaderAt(p) IN
     /\ ChunkRecord(h.conn, p, h.n)
     /\ at' = [at EXCEPT ![h.conn] = @ + h.n]
     /\ p' = p + WindowStep(h.n)
  /\ left' = left - 1
  /\ UNCHANGED <<img, pc, sum, h_end, sortVars, outVars>>

(* The walk is over: decoder_end() starts at connection 0. *)
InputEnds ==
  /\ pc = "window" /\ left = 0
  /\ pc' = "decoder_end" /\ c' = 0
  /\ UNCHANGED <<img, chunkVars, bufVars, r, total, count, start, index, outVars>>

\* Mutant: every connection ends where connection 0 does.
EndFields_First(conn) == << rec_u32(F_AT, at[0]), rec_u32(F_LEN, 0) >>

EndFields(conn) == << rec_u32(F_AT, at[conn]), rec_u32(F_LEN, 0) >>
EndReserve == 6

EndRecord(conn) ==
  IF Fits(EndReserve)
    THEN LET fs == EndFields(conn) IN CloseRecord(conn, fs, 2 + fs[1].span + fs[2].span)
    ELSE RecordLost

\* Mutant: the loop does not advance.
DecoderEnd_Stuck ==
  /\ pc = "decoder_end" /\ c < Connections
  /\ EndRecord(c)
  /\ UNCHANGED <<img, pc, chunkVars, at, sortVars, outVars>>

DecoderEnd ==
  /\ pc = "decoder_end" /\ c < Connections
  /\ EndRecord(c)
  /\ c' = c + 1
  /\ UNCHANGED <<img, pc, chunkVars, at, r, total, count, start, index, outVars>>

-----------------------------------------------------------------------------
(* After the window: a stable counting sort by connection. *)

(* No sort, and no output at all, once a record was lost. *)
WindowCloses ==
  /\ pc = "decoder_end" /\ c = Connections
  /\ IF rec_full
       THEN Exit(3) /\ UNCHANGED r
       ELSE pc' = "walk" /\ code' = code /\ r' = base
  /\ UNCHANGED <<img, chunkVars, bufVars, c, total, count, start, index, i, out>>

\* Mutant: a record that ends the buffer is out of range.
OutOfRange_Last(b) ==
  \/ b.words < 2
  \/ r + b.words >= rec_next
  \/ b.conn >= Connections

OutOfRange(b) ==
  \/ b.words < 2
  \/ r + b.words > rec_next
  \/ b.conn >= Connections

WalkRecord ==
  /\ pc = "walk" /\ r < rec_next
  /\ IF OutOfRange(buf[r])
       THEN Exit(4) /\ UNCHANGED <<r, total>>
       ELSE r' = r + buf[r].words /\ total' = total + 1 /\ UNCHANGED <<pc, code>>
  /\ UNCHANGED <<img, chunkVars, bufVars, c, count, start, index, i, out>>

(* The counts and the index go after the records, below MEM_TOP. *)
SortRoom ==
  /\ pc = "walk" /\ r = rec_next
  /\ IF rec_next + Connections + total > rec_limit
       THEN Exit(3) /\ UNCHANGED <<r, count, index>>
       ELSE /\ pc' = "count" /\ code' = code /\ r' = base
            /\ count' = [k \in ConnIds |-> 0]
            /\ index' = [k \in 0 .. total - 1 |-> Unset]
  /\ UNCHANGED <<img, chunkVars, bufVars, c, total, start, i, out>>

CountRecord ==
  /\ pc = "count" /\ r < rec_next
  /\ count' = [count EXCEPT ![buf[r].conn] = @ + 1]
  /\ r' = r + buf[r].words
  /\ UNCHANGED <<img, pc, chunkVars, bufVars, c, total, start, index, outVars>>

CountEnds ==
  /\ pc = "count" /\ r = rec_next
  /\ pc' = "starts" /\ c' = 0 /\ start' = 0
  /\ UNCHANGED <<img, chunkVars, bufVars, r, total, count, index, outVars>>

\* Mutant: start = n for start += n.
NextStart_NoSum == count[c]

NextStart == start + count[c]

(* count[c] becomes the place of connection c's first record. *)
StartOf ==
  /\ pc = "starts" /\ c < Connections
  /\ count' = [count EXCEPT ![c] = start]
  /\ start' = NextStart
  /\ c' = c + 1
  /\ UNCHANGED <<img, pc, chunkVars, bufVars, r, total, index, outVars>>

StartsEnd ==
  /\ pc = "starts" /\ c = Connections
  /\ pc' = "place" /\ r' = base
  /\ UNCHANGED <<img, chunkVars, bufVars, c, total, count, start, index, outVars>>

PlaceRecord ==
  /\ pc = "place" /\ r < rec_next
  /\ LET k == buf[r].conn IN
     /\ index' = [index EXCEPT ![count[k]] = r - base]
     /\ count' = [count EXCEPT ![k] = @ + 1]
  /\ r' = r + buf[r].words
  /\ UNCHANGED <<img, pc, chunkVars, bufVars, c, total, start, outVars>>

-----------------------------------------------------------------------------
(* What each run prints. *)

PutHeader ==
  /\ pc = "place" /\ r = rec_next
  /\ pc' = "print" /\ i' = 0
  /\ out' = [out EXCEPT !.records = total]
  /\ UNCHANGED <<img, chunkVars, bufVars, sortVars, code>>

Line(b) ==
  LET fs == SortById(b.fields) IN
  [conn |-> b.conn, protocol |-> b.protocol,
   fields |-> [k \in 1..Len(fs) |-> Shown(fs[k])]]

Legible(b) == \A k \in 1..Len(b.fields) : StepsExactly(b.fields[k])

(* put_record prints the record whose fields it can step over. *)
PutRecord ==
  /\ pc = "print" /\ i < total
  /\ Legible(buf[base + index[i]])
  /\ out' = [out EXCEPT !.lines = Append(@, Line(buf[base + index[i]]))]
  /\ i' = i + 1
  /\ UNCHANGED <<img, pc, chunkVars, bufVars, sortVars, code>>

(* A field header that does not say how long the field is makes put_record *)
(* read the field's own bytes as headers. What it does then depends on     *)
(* those bytes: it refuses the record, or prints fields nobody wrote.      *)
MisreadRecord ==
  /\ pc = "print" /\ i < total
  /\ ~Legible(buf[base + index[i]])
  /\ \/ Exit(4) /\ UNCHANGED <<out, i>>
     \/ /\ out' = [out EXCEPT !.lines = Append(@, Garbled)]
        /\ i' = i + 1
        /\ UNCHANGED <<pc, code>>
  /\ UNCHANGED <<img, chunkVars, bufVars, sortVars>>

PutEnd ==
  /\ pc = "print" /\ i = total
  /\ out' = [out EXCEPT !.end = total]
  /\ Exit(0)
  /\ UNCHANGED <<img, chunkVars, bufVars, sortVars, i>>

Done == pc = "done" /\ UNCHANGED vars

Next ==
  \/ CheckHeader \/ CheckChunk \/ CheckPayload
  \/ Setup
  \/ DecoderChunk \/ InputEnds \/ DecoderEnd
  \/ WindowCloses \/ WalkRecord \/ SortRoom
  \/ CountRecord \/ CountEnds \/ StartOf \/ StartsEnd \/ PlaceRecord
  \/ PutHeader \/ PutRecord \/ MisreadRecord \/ PutEnd
  \/ Done

Spec     == Init /\ [][Next]_vars
FairSpec == Spec /\ WF_vars(Next)

-----------------------------------------------------------------------------
(* Types. *)

Phases == {"check", "check_chunks", "setup", "window", "decoder_end", "walk",
           "count", "starts", "place", "print", "done"}

Field  == [id : 0 .. F_COUNT - 1, mid : 0..255, hi : 0 .. Half - 1,
           span : Nat, val : Nat]
Record == [words : Nat, conn : ConnIds, protocol : 0..255, fields : Seq(Field)]

(* The phases in which the record buffer exists. *)
BufferPhases == {"window", "decoder_end", "walk", "count", "starts", "place", "print"}

WalkTypes == p \in Nat /\ left \in Nat /\ sum \in Nat /\ h_end \in Nat

BufferTypes ==
  /\ pc \in BufferPhases => at \in [ConnIds -> Nat]
  /\ buf \in [DOMAIN buf -> Record] /\ DOMAIN buf \subseteq Nat
  /\ rec_next \in Nat

SortTypes ==
  /\ c \in Nat /\ r \in Nat /\ total \in Nat /\ start \in Nat
  /\ pc \in {"count", "starts", "place"} => count \in [ConnIds -> Nat]

OutTypes ==
  /\ i \in Nat
  /\ DOMAIN out = {"records", "lines", "end"}
  /\ out.records \in Nat \cup {Unset} /\ out.end \in Nat \cup {Unset}
  /\ code \in {Running, 0, 2, 3, 4}

(* Every variable holds a value of the C type it stands for. *)
TypeOK ==
  /\ IsImage(img) /\ pc \in Phases /\ rec_full \in BOOLEAN
  /\ WalkTypes /\ BufferTypes /\ SortTypes /\ OutTypes

-----------------------------------------------------------------------------
(* Safety. *)

(* The window's walk, which rounds with a mask and trusts every header,    *)
(* reads only headers that check() read and stops where check() stopped.   *)
WindowWalkAgrees ==
  /\ pc = "window" /\ left > 0 => p \in DOMAIN img.chunk
  /\ pc = "window" /\ left = 0 => p = h_end

(* The records lie end to end from base to rec_next, none overlaps another *)
(* or passes rec_limit, and none is too long for the 16 bits that hold its *)
(* length: what the three passes over the buffer take for granted when     *)
(* they step r by r[0] & 0xFFFF. The counts and the index that the sort    *)
(* puts behind the records end below MEM_TOP too.                          *)
Tiled ==
  pc \in BufferPhases =>
    /\ base <= rec_next /\ rec_next <= rec_limit
    /\ rec_next \notin DOMAIN buf
    /\ base \in DOMAIN buf \cup {rec_next}
    /\ \A a \in DOMAIN buf :
         /\ base <= a
         /\ 2 <= buf[a].words /\ buf[a].words < Half
         /\ a + buf[a].words <= rec_next
         /\ a + buf[a].words \in DOMAIN buf \cup {rec_next}
         /\ \A b \in DOMAIN buf : a < b => a + buf[a].words <= b

SortFits ==
  pc \in {"count", "starts", "place", "print"} =>
    rec_next + Connections + total <= rec_limit

BufferTiled == Tiled /\ SortFits

(* A pass over the buffer is always at the first word of a record or at    *)
(* the end, so with a decoder that only uses records.h the length-or-      *)
(* connection refusal never fires: a run that ends with code 4 is          *)
(* put_record's doing, and has printed its header by then.                 *)
PassesStayOnRecords ==
  /\ pc \in {"walk", "count", "place"} => r \in DOMAIN buf \cup {rec_next}
  /\ code = 4 => out.records # Unset

(* A record is never changed or dropped after rec_close, not by a later    *)
(* record, nor by the sort; and once one record did not fit, rec_full      *)
(* stays set though later, smaller records may fit.                        *)
RecordsAreFinal ==
  [][/\ rec_full => rec_full'
     /\ \A a \in DOMAIN buf : a \in DOMAIN buf' /\ buf'[a] = buf[a]]_vars

(* Once placed, the index lists every record once: by connection, and in   *)
(* buffer order within one.                                                *)
SortedStably ==
  pc = "print" =>
    /\ { base + index[j] : j \in 0 .. total - 1 } = DOMAIN buf
    /\ \A j \in 1 .. total - 1 :
         LET a == base + index[j - 1]
             b == base + index[j]
         IN  \/ buf[a].conn < buf[b].conn
             \/ buf[a].conn = buf[b].conn /\ a < b

(* The end line is only printed by a run that lost no record: one record   *)
(* for each chunk and each connection, all of them counted and printed.    *)
EndMeansComplete ==
  out.end # Unset =>
    /\ ~rec_full /\ code = 0
    /\ out.end = img.chunks + Connections
    /\ out.records = out.end
    /\ Len(out.lines) = out.end
==============================================================================
