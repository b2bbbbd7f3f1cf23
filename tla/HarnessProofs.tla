---------------------------- MODULE HarnessProofs ----------------------------
(***************************************************************************)
(* Proofs about Harness for every set of images: the two walks over the    *)
(* chunk headers agree, the record buffer stays tiled by its records, and  *)
(* the passes of the counting sort step from record to record, put every   *)
(* record in its place, and print them all.                                *)
(***************************************************************************)
EXTENDS Harness, TLAPS, FiniteSetTheorems, SequenceTheorems

-----------------------------------------------------------------------------
(* Arithmetic of the layout. *)

(* A chunk's record fills exactly the words record_chunk reserved for it,  *)
(* and its length fits the 16 bits of the record's first word.             *)
LEMMA ReserveExact ==
  ASSUME NEW n \in 0 .. Half - 1
  PROVE  /\ ChunkReserve(n) \in Nat /\ 7 <= ChunkReserve(n) /\ ChunkReserve(n) < Half
         /\ 2 + 2 + (1 + WordsFor((2 * n + 1) \div 2)) + 2 = ChunkReserve(n)
<1>1. n \in Int /\ 0 <= n /\ n <= 65535
  BY SMT DEF Half
<1>2. (2 * n + 1) \div 2 = n
  BY SMT, <1>1
<1>3. WordsFor(n) \in Nat /\ WordsFor(n) <= 16384
  BY SMT, <1>1 DEF WordsFor
<1>4. WordsFor((2 * n + 1) \div 2) = WordsFor(n)
  BY <1>2
<1>5. ChunkReserve(n) \in Nat /\ 7 <= ChunkReserve(n) /\ ChunkReserve(n) < Half
  BY SMT, <1>3 DEF ChunkReserve, Half
<1> QED BY SMT, <1>3, <1>4, <1>5 DEF ChunkReserve

LEMMA PadType == ASSUME NEW n \in Nat PROVE Pad4(n) \in Nat /\ WindowStep(n) \in Nat
BY DEF Pad4, WindowStep

LEMMA BaseType ==
  ASSUME IsImage(img), h_end \in Nat
  PROVE  /\ Connections \in Nat /\ FirstChunk \in Nat
         /\ Records0 \in Nat /\ base \in Nat /\ rec_limit \in Nat
         /\ Records0 + 4096 <= img.memTop => base <= rec_limit
<1>1. Connections \in Nat
  BY DEF IsImage, Connections
<1>2. FirstChunk \in Nat
  BY <1>1, PadType DEF FirstChunk
<1>3. Align16(h_end) \in Nat
  BY DEF Align16
<1>4. Records0 \in Nat
  <2>1. Align16(h_end) + decoder_memory \in Nat
    BY <1>1, <1>3 DEF decoder_memory
  <2> DEFINE a == Align16(h_end) + decoder_memory
  <2>2. Align16(a) \in Nat
    <3> HIDE DEF a
    <3> QED BY <2>1 DEF Align16, a
  <2> QED BY <2>2 DEF Records0
<1>5. img.memTop \in Nat
  BY DEF IsImage
<1>6. base \in Nat /\ rec_limit \in Nat
  BY <1>4, <1>5 DEF base, rec_limit
<1>7. ASSUME Records0 + 4096 <= img.memTop PROVE base <= rec_limit
  BY <1>4, <1>5, <1>7 DEF base, rec_limit
<1> QED BY <1>1, <1>2, <1>4, <1>6, <1>7

LEMMA CounterType ==
  ASSUME NEW S, NEW f \in [S -> Nat], NEW k, NEW d \in Nat
  PROVE  [f EXCEPT ![k] = @ + d] \in [S -> Nat]
<1>1. CASE k \in S
  <2>1. f[k] + d \in Nat
    BY <1>1
  <2> QED BY <1>1, <2>1
<1>2. CASE k \notin S
  BY <1>2
<1> QED BY <1>1, <1>2

LEMMA ElementType ==
  ASSUME NEW T, NEW s \in Seq(T), NEW k \in 1 .. Len(s)
  PROVE  s[k] \in T
OBVIOUS

(* What a header read at any offset can be. *)
LEMMA HeaderType ==
  ASSUME IsImage(img), NEW o
  PROVE  /\ HeaderAt(o) \in Chunks
         /\ HeaderAt(o).n # 0 => o \in DOMAIN img.chunk
<1>1. [n |-> 0, conn |-> 0, pad |-> TRUE] \in Chunks
  BY DEF Chunks, Half
<1>2. CASE o \in DOMAIN img.chunk
  <2>1. img.chunk[o] \in Chunks
    BY <1>2 DEF IsImage
  <2> QED BY <1>2, <2>1 DEF HeaderAt
<1>3. CASE o \notin DOMAIN img.chunk
  BY <1>1, <1>3 DEF HeaderAt
<1> QED BY <1>2, <1>3

-----------------------------------------------------------------------------
(* The inductive invariant.                                                *)
(*                                                                         *)
(* What check() verified it verified at offsets it computed, and the       *)
(* window computes them again. g lists those offsets: g[k] is where the    *)
(* header of chunk k is, and g[n] is the byte after chunk n - 1.           *)
IsWalk(g, n) ==
  /\ g \in [0 .. n -> Nat]
  /\ g[0] = FirstChunk
  /\ \A k \in 0 .. n - 1 :
       /\ HeaderAt(g[k]).n # 0
       /\ HeaderAt(g[k]).conn < Connections
       /\ g[k + 1] = g[k] + WindowStep(HeaderAt(g[k]).n)

(* check() is somewhere on such a walk; after it, the walk is complete and *)
(* the window is somewhere on the same one.                                *)
WalkInv ==
  /\ pc = "check_chunks" =>
       /\ left <= img.chunks
       /\ \E g : IsWalk(g, img.chunks - left) /\ p = g[img.chunks - left]
  /\ pc \in {"setup"} \cup BufferPhases =>
       \E g : /\ IsWalk(g, img.chunks)
              /\ h_end = g[img.chunks]
              /\ pc = "window" => left <= img.chunks /\ p = g[img.chunks - left]

(* The buffer is empty until the window starts to fill it; the header line *)
(* is out once records are printed.                                        *)
OutInv ==
  /\ pc \in {"check", "check_chunks", "setup"} => buf = <<>>
  /\ pc = "print" => out.records # Unset

IInv == TypeOK /\ WalkInv /\ Tiled /\ SortFits /\ PassesStayOnRecords /\ OutInv

LEMMA InitInv == Init => IInv
<1> SUFFICES ASSUME Init PROVE IInv
  OBVIOUS
<1>1. DOMAIN buf = {} /\ buf = <<>>
  BY DEF Init
<1>2. TypeOK
  <2>1. IsImage(img)
    BY ImagesAssumption DEF Init
  <2>2. /\ pc \in Phases /\ pc \notin BufferPhases
        /\ pc \notin {"count", "starts", "place"}
    BY DEF Init, Phases, BufferPhases
  <2>3. buf \in [DOMAIN buf -> Record] /\ DOMAIN buf \subseteq Nat
    BY <1>1
  <2>4. WalkTypes
    BY DEF Init, WalkTypes
  <2>5. BufferTypes
    BY <2>2, <2>3 DEF Init, BufferTypes
  <2>6. SortTypes
    BY <2>2 DEF Init, SortTypes
  <2>7. OutTypes
    BY DEF Init, OutTypes
  <2>8. rec_full \in BOOLEAN
    BY Zenon DEF Init
  <2> QED BY <2>1, <2>2, <2>4, <2>5, <2>6, <2>7, <2>8 DEF TypeOK
<1>3. WalkInv /\ Tiled /\ SortFits
  BY DEF Init, WalkInv, Tiled, SortFits, BufferPhases
<1>4. PassesStayOnRecords
  BY DEF Init, PassesStayOnRecords, Running
<1>5. OutInv
  BY DEF Init, OutInv
<1> QED BY <1>2, <1>3, <1>4, <1>5 DEF IInv

-----------------------------------------------------------------------------
(* Which steps can disturb what. *)

(* A walk depends on the image alone, which no step changes. *)
LEMMA ImageStays == Next => img' = img
BY DEF Next, CheckHeader, CheckChunk, CheckPayload, Setup, DecoderChunk, InputEnds,
       DecoderEnd, WindowCloses, WalkRecord, SortRoom, CountRecord, CountEnds, StartOf,
       StartsEnd, PlaceRecord, PutHeader, PutRecord, MisreadRecord, PutEnd, Done, vars

LEMMA WalkStays ==
  ASSUME img' = img, NEW g, NEW n
  PROVE  IsWalk(g, n)' <=> IsWalk(g, n)
BY DEF IsWalk, HeaderAt, FirstChunk, Connections

LEMMA LayoutStays ==
  ASSUME img' = img
  PROVE  /\ IsImage(img)' <=> IsImage(img)
         /\ Connections' = Connections /\ ConnIds' = ConnIds
         /\ Record' = Record /\ rec_limit' = rec_limit
         /\ h_end' = h_end => Records0' = Records0 /\ base' = base
BY DEF IsImage, Connections, ConnIds, Record, rec_limit, Records0, base, decoder_memory

Walks  == CheckHeader \/ CheckChunk \/ CheckPayload \/ Setup \/ DecoderChunk
Fills  == Setup \/ DecoderChunk \/ DecoderEnd
Passes == WalkRecord \/ SortRoom \/ CountRecord \/ PlaceRecord \/ CountEnds \/ StartOf

LEMMA WalkFrame ==
  Next => \/ Walks
          \/ /\ UNCHANGED chunkVars
             /\ pc' \in BufferPhases => pc \in BufferPhases
             /\ pc' \notin {"check_chunks", "setup", "window"} \/ UNCHANGED pc
BY DEF Next, Walks, InputEnds, chunkVars, BufferPhases, Exit,
       DecoderEnd, WindowCloses, WalkRecord, SortRoom, CountRecord, CountEnds, StartOf,
       StartsEnd, PlaceRecord, PutHeader, PutRecord, MisreadRecord, PutEnd, Done, vars

LEMMA FillFrame ==
  Next => \/ Fills
          \/ /\ UNCHANGED bufVars
             /\ pc' \in BufferPhases => pc \in BufferPhases /\ UNCHANGED h_end
BY DEF Next, Fills, CheckHeader, CheckChunk, CheckPayload, InputEnds, chunkVars, bufVars,
       BufferPhases, Exit, WindowCloses, WalkRecord, SortRoom, CountRecord, CountEnds,
       StartOf, StartsEnd, PlaceRecord, PutHeader, PutRecord, MisreadRecord, PutEnd,
       Done, vars

-----------------------------------------------------------------------------
(* The walks. *)

LEMMA WalkTypesStep == IInv /\ Next => WalkTypes'
<1> SUFFICES ASSUME IInv, Next PROVE WalkTypes'
  OBVIOUS
<1>1. IsImage(img) /\ WalkTypes
  BY DEF IInv, TypeOK
<1>2. FirstChunk \in Nat /\ img.chunks \in Nat
  BY <1>1, BaseType DEF IsImage, WalkTypes
<1>3. CASE CheckHeader
  BY <1>1, <1>2, <1>3 DEF CheckHeader, WalkTypes
<1>4. CASE CheckChunk
  <2>1. HeaderAt(p).n \in Nat
    BY <1>1, HeaderType DEF Chunks
  <2>2. Pad4(HeaderAt(p).n) \in Nat
    BY <2>1, PadType
  <2> QED BY <1>1, <1>4, <2>1, <2>2 DEF CheckChunk, WalkTypes
<1>5. CASE CheckPayload
  BY <1>1, <1>5 DEF CheckPayload, WalkTypes
<1>6. CASE Setup
  BY <1>1, <1>2, <1>6 DEF Setup, WalkTypes
<1>7. CASE DecoderChunk
  <2>1. WindowStep(HeaderAt(p).n) \in Nat
    BY <1>1, HeaderType, PadType DEF Chunks
  <2> QED BY <1>1, <1>7, <2>1 DEF DecoderChunk, WalkTypes
<1>8. CASE UNCHANGED chunkVars
  BY <1>1, <1>8 DEF chunkVars, WalkTypes
<1> QED BY <1>3, <1>4, <1>5, <1>6, <1>7, <1>8, WalkFrame DEF Walks

(* A walk of n chunks, and one good header after them, make one of n + 1.  *)
LEMMA WalkGrows ==
  ASSUME NEW n \in Nat, NEW g, IsWalk(g, n), NEW q \in Nat,
         HeaderAt(g[n]).n # 0, HeaderAt(g[n]).conn < Connections,
         q = g[n] + WindowStep(HeaderAt(g[n]).n)
  PROVE  \E f : IsWalk(f, n + 1) /\ f[n + 1] = q
<1> DEFINE f == [k \in 0 .. n + 1 |-> IF k <= n THEN g[k] ELSE q]
<1>1. f \in [0 .. n + 1 -> Nat]
  BY DEF IsWalk
<1>2. f[0] = FirstChunk /\ f[n + 1] = q /\ \A k \in 0 .. n : f[k] = g[k]
  BY DEF IsWalk
<1>3. ASSUME NEW k \in 0 .. n
      PROVE  /\ HeaderAt(f[k]).n # 0
             /\ HeaderAt(f[k]).conn < Connections
             /\ f[k + 1] = f[k] + WindowStep(HeaderAt(f[k]).n)
  <2>1. CASE k = n
    BY <1>2, <2>1
  <2>2. CASE k \in 0 .. n - 1
    <3>1. f[k] = g[k] /\ f[k + 1] = g[k + 1]
      BY <1>2, <2>2
    <3> QED BY <2>2, <3>1 DEF IsWalk
  <2> QED BY <2>1, <2>2
<1>4. (n + 1) - 1 = n
  OBVIOUS
<1> HIDE DEF f
<1>5. IsWalk(f, n + 1)
  BY <1>1, <1>2, <1>3, <1>4 DEF IsWalk
<1> QED BY <1>2, <1>5

LEMMA WalkInvStep == IInv /\ Next => WalkInv'
<1> SUFFICES ASSUME IInv, Next PROVE WalkInv'
  OBVIOUS
<1>1. IsImage(img) /\ WalkTypes /\ WalkInv
  BY DEF IInv, TypeOK
<1>2. img' = img /\ img.chunks \in Nat /\ FirstChunk \in Nat
  BY <1>1, ImageStays, BaseType DEF IsImage, WalkTypes
<1>3. \A g, n : IsWalk(g, n)' <=> IsWalk(g, n)
  BY <1>2, WalkStays
<1>4. CASE CheckHeader
  <2>1. CASE pc' = "done"
    BY <2>1 DEF WalkInv, BufferPhases
  <2>2. CASE pc' # "done"
    <3>1. pc' = "check_chunks" /\ p' = FirstChunk /\ left' = img.chunks
      BY <1>4, <2>2 DEF CheckHeader, Exit
    <3> DEFINE g == [k \in 0 .. 0 |-> FirstChunk]
    <3>2. IsWalk(g, 0) /\ g[0] = FirstChunk
      BY <1>2 DEF IsWalk
    <3>3. img.chunks - img.chunks = 0
      BY <1>2
    <3>4. left' <= img'.chunks /\ img'.chunks - left' = 0
      BY <1>2, <3>1, <3>3
    <3> HIDE DEF g
    <3>5. \E f : IsWalk(f, 0)' /\ p' = f[0]
      BY <1>3, <3>1, <3>2
    <3> QED BY <3>1, <3>4, <3>5 DEF WalkInv, BufferPhases
  <2> QED BY <2>1, <2>2
<1>5. CASE CheckChunk
  <2>1. CASE pc' = "done"
    BY <2>1 DEF WalkInv, BufferPhases
  <2>2. CASE pc' # "done"
    <3>1. /\ pc = "check_chunks" /\ pc' = pc /\ left > 0 /\ left' = left - 1
          /\ HeaderAt(p).n # 0 /\ ~(HeaderAt(p).conn >= Connections)
          /\ p' = p + 4 + Pad4(HeaderAt(p).n)
      BY <1>5, <2>2 DEF CheckChunk, Exit
    <3>2. HeaderAt(p).n \in Nat /\ HeaderAt(p).conn \in Nat /\ Connections \in Nat
      BY <1>1, HeaderType, BaseType DEF Chunks, WalkTypes
    <3>3. HeaderAt(p).conn < Connections
      BY <3>1, <3>2
    <3>4. p' = p + WindowStep(HeaderAt(p).n) /\ p' \in Nat
      <4>1. Pad4(HeaderAt(p).n) \in Nat
        BY <3>2, PadType
      <4> QED BY <1>1, <3>1, <4>1 DEF WindowStep, WalkTypes
    <3>5. PICK n \in Nat : n = img.chunks - left
      BY <1>1, <1>2, <3>1 DEF WalkInv, WalkTypes
    <3>6. PICK g : IsWalk(g, n) /\ p = g[n]
      BY <1>1, <3>1, <3>5 DEF WalkInv
    <3>7. left' <= img'.chunks /\ img'.chunks - left' = n + 1
      BY <1>1, <1>2, <3>1, <3>5 DEF WalkTypes
    <3>8. PICK f : IsWalk(f, n + 1) /\ f[n + 1] = p'
      BY <3>1, <3>3, <3>4, <3>6, WalkGrows
    <3>9. IsWalk(f, n + 1)'
      BY <1>3, <3>8
    <3> QED BY <3>1, <3>7, <3>8, <3>9 DEF WalkInv, BufferPhases
  <2> QED BY <2>1, <2>2
<1>6. CASE CheckPayload
  <2>1. CASE pc' = "done"
    BY <2>1 DEF WalkInv, BufferPhases
  <2>2. CASE pc' # "done"
    <3>1. pc = "check_chunks" /\ left = 0 /\ h_end' = p /\ pc' = "setup"
      BY <1>6, <2>2 DEF CheckPayload, Exit
    <3>2. img.chunks - left = img.chunks
      BY <1>2, <3>1
    <3>3. PICK g : IsWalk(g, img.chunks) /\ p = g[img.chunks]
      BY <1>1, <3>1, <3>2 DEF WalkInv
    <3>4. IsWalk(g, img.chunks)' /\ h_end' = g[img'.chunks]
      BY <1>2, <1>3, <3>1, <3>3
    <3> QED BY <3>1, <3>4 DEF WalkInv, BufferPhases
  <2> QED BY <2>1, <2>2
<1>7. CASE Setup
  <2>1. CASE pc' = "done"
    BY <2>1 DEF WalkInv, BufferPhases
  <2>2. CASE pc' # "done"
    <3>1. pc = "setup" /\ pc' = "window" /\ p' = FirstChunk /\ left' = img.chunks
          /\ h_end' = h_end
      BY <1>7, <2>2 DEF Setup, Exit
    <3>2. PICK g : IsWalk(g, img.chunks) /\ h_end = g[img.chunks]
      BY <1>1, <3>1 DEF WalkInv
    <3>3. img.chunks - left' = 0 /\ left' <= img.chunks
      BY <1>2, <3>1
    <3>4. p' = g[img.chunks - left']
      BY <3>1, <3>2, <3>3 DEF IsWalk
    <3> QED BY <1>2, <1>3, <3>1, <3>2, <3>3, <3>4 DEF WalkInv, BufferPhases
  <2> QED BY <2>1, <2>2
<1>8. CASE DecoderChunk
  <2> DEFINE n == img.chunks - left
  <2>1. /\ pc = "window" /\ pc' = pc /\ left > 0 /\ left' = left - 1
        /\ h_end' = h_end /\ p' = p + WindowStep(HeaderAt(p).n)
    BY <1>8 DEF DecoderChunk
  <2>2. PICK g : IsWalk(g, img.chunks) /\ h_end = g[img.chunks] /\ p = g[n]
    BY <1>1, <2>1 DEF WalkInv, BufferPhases
  <2>3. n \in 0 .. img.chunks - 1 /\ left' <= img.chunks /\ img.chunks - left' = n + 1
    BY <1>1, <1>2, <2>1 DEF WalkInv, WalkTypes, BufferPhases
  <2> HIDE DEF n
  <2>4. p' = g[n + 1]
    BY <2>1, <2>2, <2>3 DEF IsWalk
  <2> QED BY <1>2, <1>3, <2>1, <2>2, <2>3, <2>4 DEF WalkInv, BufferPhases
<1>9. CASE /\ UNCHANGED chunkVars
           /\ pc' \in BufferPhases => pc \in BufferPhases
           /\ pc' \notin {"check_chunks", "setup", "window"} \/ UNCHANGED pc
  <2>1. h_end' = h_end /\ left' = left /\ p' = p
    BY <1>9 DEF chunkVars
  <2>2. CASE UNCHANGED pc
    BY <1>1, <1>2, <1>3, <2>1, <2>2 DEF WalkInv
  <2>3. CASE pc' \notin {"check_chunks", "setup", "window"}
    BY <1>1, <1>2, <1>3, <1>9, <2>1, <2>3 DEF WalkInv
  <2> QED BY <1>9, <2>2, <2>3
<1> QED BY <1>4, <1>5, <1>6, <1>7, <1>8, <1>9, WalkFrame DEF Walks

-----------------------------------------------------------------------------
(* The record buffer. *)

LEMMA FieldTypes ==
  ASSUME NEW id \in 0 .. F_COUNT - 1, NEW v \in Nat, NEW n \in Nat
  PROVE  /\ rec_u32(id, v) \in Field /\ rec_u32(id, v).span = 2
         /\ rec_hex(id, v, n) \in Field
         /\ rec_hex(id, v, n).span = 1 + WordsFor((n + 1) \div 2)
<1>1. 0 \in 0..255 /\ 0 \in 0 .. Half - 1
  BY SMT DEF Half
<1>2. n % Half \in 0 .. Half - 1
  BY SMT DEF Half
<1>3. WordsFor((n + 1) \div 2) \in Nat
  BY SMT DEF WordsFor
<1>4. rec_u32(id, v) \in Field
  BY <1>1 DEF rec_u32, Field
<1>5. 1 + WordsFor((n + 1) \div 2) \in Nat
  BY <1>3
<1>6. rec_hex(id, v, n) \in Field
  BY <1>1, <1>2, <1>5 DEF rec_hex, Field
<1> QED BY <1>4, <1>6 DEF rec_u32, rec_hex

LEMMA FieldIds == {F_LEN, F_BYTES, F_AT} \subseteq 0 .. F_COUNT - 1
BY DEF F_LEN, F_BYTES, F_AT, F_COUNT

(* Every record the decoder closes was given exactly the words it takes.   *)
LEMMA ChunkCloses ==
  ASSUME IInv, pc = "window", left > 0, ChunkRecord(HeaderAt(p).conn, p, HeaderAt(p).n)
  PROVE  \/ RecordLost
         \/ \E conn \in ConnIds, fields \in Seq(Field), words \in Nat :
              /\ 2 <= words /\ words < Half /\ rec_next + words <= rec_limit
              /\ CloseRecord(conn, fields, words)
<1> DEFINE h  == HeaderAt(p)
           fs == ChunkFields(h.conn, p, h.n)
<1>1. IsImage(img) /\ WalkTypes /\ BufferTypes
  BY DEF IInv, TypeOK
<1>2. h.n \in 0 .. Half - 1 /\ h.conn \in Nat /\ Connections \in Nat
      /\ rec_limit \in Nat
  BY <1>1, HeaderType, BaseType DEF Chunks, WalkTypes
<1>3. h.n \in Nat /\ 2 * h.n \in Nat /\ p + 4 \in Nat
  BY <1>1, <1>2 DEF WalkTypes
<1>4. h.conn \in ConnIds
  <2>1. PICK g : IsWalk(g, img.chunks) /\ left <= img.chunks /\ p = g[img.chunks - left]
    BY DEF IInv, WalkInv, BufferPhases
  <2>2. img.chunks - left \in 0 .. img.chunks - 1
    BY <1>1, <2>1 DEF IsImage, WalkTypes
  <2>3. h.conn < Connections
    BY <2>1, <2>2 DEF IsWalk
  <2> QED BY <1>2, <2>3 DEF ConnIds
<1>5. at[h.conn] \in Nat
  BY <1>1, <1>4 DEF BufferTypes, BufferPhases
<1>6. /\ fs = <<rec_u32(F_LEN, h.n), rec_hex(F_BYTES, p + 4, 2 * h.n),
                rec_u32(F_AT, at[h.conn])>>
      /\ rec_u32(F_LEN, h.n) \in Field /\ rec_hex(F_BYTES, p + 4, 2 * h.n) \in Field
      /\ rec_u32(F_AT, at[h.conn]) \in Field
      /\ rec_u32(F_LEN, h.n).span = 2 /\ rec_u32(F_AT, at[h.conn]).span = 2
      /\ rec_hex(F_BYTES, p + 4, 2 * h.n).span = 1 + WordsFor((2 * h.n + 1) \div 2)
  BY <1>3, <1>5, FieldTypes, FieldIds DEF ChunkFields
<1>7. fs \in Seq(Field)
  <2> HIDE DEF h
  <2> QED BY <1>6
<1>8. 2 + fs[1].span + fs[2].span + fs[3].span = ChunkReserve(h.n)
  <2>1. fs[1].span = 2 /\ fs[3].span = 2
        /\ fs[2].span = 1 + WordsFor((2 * h.n + 1) \div 2)
    <3> HIDE DEF h
    <3> QED BY <1>6
  <2> QED BY <1>2, <2>1, ReserveExact
<1>9. ChunkReserve(h.n) \in Nat /\ 7 <= ChunkReserve(h.n) /\ ChunkReserve(h.n) < Half
  BY <1>2, ReserveExact
<1>10. CASE ~Fits(ChunkReserve(h.n))
  BY <1>10 DEF ChunkRecord
<1>11. CASE Fits(ChunkReserve(h.n))
  <2>1. CloseRecord(h.conn, fs, ChunkReserve(h.n))
    BY <1>8, <1>11 DEF ChunkRecord
  <2>2. rec_next + ChunkReserve(h.n) <= rec_limit /\ 2 <= ChunkReserve(h.n)
    BY <1>1, <1>2, <1>9, <1>11 DEF Fits, BufferTypes
  <2> HIDE DEF h, fs
  <2> QED BY <1>4, <1>7, <1>9, <2>1, <2>2
<1> QED BY <1>10, <1>11

LEMMA EndCloses ==
  ASSUME IInv, pc = "decoder_end", c < Connections, EndRecord(c)
  PROVE  \/ RecordLost
         \/ \E conn \in ConnIds, fields \in Seq(Field), words \in Nat :
              /\ 2 <= words /\ words < Half /\ rec_next + words <= rec_limit
              /\ CloseRecord(conn, fields, words)
<1> DEFINE fs == EndFields(c)
<1>1. IsImage(img) /\ WalkTypes /\ BufferTypes /\ SortTypes
  BY DEF IInv, TypeOK
<1>2. c \in ConnIds /\ rec_limit \in Nat
  BY <1>1, BaseType DEF ConnIds, SortTypes, WalkTypes
<1>3. at[c] \in Nat
  BY <1>1, <1>2 DEF BufferTypes, BufferPhases
<1>4. /\ fs = <<rec_u32(F_AT, at[c]), rec_u32(F_LEN, 0)>>
      /\ rec_u32(F_AT, at[c]) \in Field /\ rec_u32(F_LEN, 0) \in Field
      /\ rec_u32(F_AT, at[c]).span = 2 /\ rec_u32(F_LEN, 0).span = 2
  BY <1>3, FieldTypes, FieldIds DEF EndFields
<1>5. fs \in Seq(Field) /\ 2 + fs[1].span + fs[2].span = 6
  BY <1>4
<1>6. CASE ~Fits(EndReserve)
  BY <1>6 DEF EndRecord
<1>7. CASE Fits(EndReserve)
  <2>1. CloseRecord(c, fs, 6)
    BY <1>5, <1>7 DEF EndRecord
  <2>2. rec_next + 6 <= rec_limit
    BY <1>1, <1>2, <1>7 DEF Fits, EndReserve, BufferTypes
  <2>3. 6 < Half
    BY SMT DEF Half
  <2> HIDE DEF fs
  <2> QED BY <1>2, <1>5, <2>1, <2>2, <2>3
<1> QED BY <1>6, <1>7

(* A record closed at rec_next leaves the buffer tiled.                    *)
LEMMA CloseTiles ==
  ASSUME IInv, pc \in BufferPhases, pc' \in BufferPhases,
         img' = img, h_end' = h_end,
         NEW conn \in ConnIds, NEW fields \in Seq(Field), NEW words \in Nat,
         2 <= words, words < Half, rec_next + words <= rec_limit,
         CloseRecord(conn, fields, words)
  PROVE  /\ Tiled'
         /\ buf' \in [DOMAIN buf' -> Record] /\ DOMAIN buf' \subseteq Nat
         /\ rec_next' \in Nat
<1> DEFINE rec  == [words |-> words, conn |-> conn, fields |-> fields,
                    protocol |-> Protocol(conn)]
           next == rec_next + words
<1>1. IsImage(img) /\ WalkTypes /\ BufferTypes /\ Tiled
  BY DEF IInv, TypeOK
<1>2. base \in Nat /\ rec_limit \in Nat /\ rec_next \in Nat /\ DOMAIN buf \subseteq Nat
  BY <1>1, BaseType DEF WalkTypes, BufferTypes
<1>3. base' = base /\ rec_limit' = rec_limit /\ Record' = Record
  BY LayoutStays
<1>4. rec \in Record
  <2>1. Protocol(conn) \in 0..255
    <3>1. conn + 1 \in 1 .. Len(img.protocols)
      BY <1>1 DEF IsImage, ConnIds, Connections
    <3>2. img.protocols \in Seq(0..255)
      BY <1>1 DEF IsImage
    <3>3. img.protocols[conn + 1] \in 0..255
      BY <3>1, <3>2, ElementType
    <3> QED BY <3>3 DEF Protocol
  <2> QED BY <2>1 DEF Record
<1>5. /\ rec_next' = next /\ next \in Nat /\ rec_next < next
      /\ DOMAIN buf' = DOMAIN buf \cup {rec_next}
      /\ buf'[rec_next] = rec
      /\ \A a \in DOMAIN buf : a # rec_next => buf'[a] = buf[a]
      /\ buf' = [a \in DOMAIN buf \cup {rec_next} |-> buf'[a]]
  BY <1>2 DEF CloseRecord, AfterRecord
<1>6. rec.words = words
  OBVIOUS
<1> HIDE DEF rec, next
<1>7. rec_next \notin DOMAIN buf /\ base <= rec_next /\ base \in DOMAIN buf \cup {rec_next}
  BY <1>1 DEF Tiled
<1>8. \A a \in DOMAIN buf : /\ buf[a] \in Record /\ buf[a].words \in Nat
                            /\ base <= a
                            /\ 2 <= buf[a].words /\ buf[a].words < Half
                            /\ a + buf[a].words <= rec_next
                            /\ a + buf[a].words \in DOMAIN buf \cup {rec_next}
                            /\ \A b \in DOMAIN buf : a < b => a + buf[a].words <= b
  BY <1>1 DEF Tiled, BufferTypes, Record
<1>9. buf' \in [DOMAIN buf' -> Record] /\ DOMAIN buf' \subseteq Nat
  BY <1>2, <1>4, <1>5, <1>7, <1>8
<1>10. base <= next /\ next <= rec_limit /\ base \in DOMAIN buf' \cup {next}
  BY <1>2, <1>5, <1>7 DEF next
<1>11. next \notin DOMAIN buf'
  <2>1. ASSUME NEW a \in DOMAIN buf PROVE a < rec_next
    <3>1. PICK w \in Nat : w = buf[a].words
      BY <1>8
    <3> QED BY <1>2, <1>8, <3>1
  <2> QED BY <1>2, <1>5, <2>1
<1>12. ASSUME NEW a \in DOMAIN buf'
       PROVE  /\ base <= a
              /\ 2 <= buf'[a].words /\ buf'[a].words < Half
              /\ a + buf'[a].words <= next
              /\ a + buf'[a].words \in DOMAIN buf' \cup {next}
              /\ \A b \in DOMAIN buf' : a < b => a + buf'[a].words <= b
  <2>1. CASE a = rec_next
    <3>1. a + buf'[a].words = next
      BY <1>5, <1>6, <2>1 DEF next
    <3>2. \A b \in DOMAIN buf' : ~(a < b)
      BY <1>2, <1>5, <1>8, <2>1
    <3> QED BY <1>2, <1>5, <1>6, <1>7, <2>1, <3>1, <3>2
  <2>2. CASE a \in DOMAIN buf
    <3>1. buf'[a] = buf[a]
      BY <1>5, <1>7, <2>2
    <3>2. a + buf[a].words <= next
      BY <1>2, <1>5, <1>8, <2>2
    <3>3. \A b \in DOMAIN buf' : a < b => a + buf[a].words <= b
      BY <1>5, <1>8, <2>2
    <3>4. a + buf[a].words \in DOMAIN buf'
      BY <1>5, <1>8, <2>2
    <3> QED BY <1>8, <2>2, <3>1, <3>2, <3>3, <3>4
  <2> QED BY <1>5, <2>1, <2>2
<1>13. Tiled'
  BY <1>3, <1>5, <1>10, <1>11, <1>12 DEF Tiled
<1> QED BY <1>2, <1>5, <1>9, <1>13

LEMMA BufferStep == IInv /\ Next => BufferTypes' /\ Tiled'
<1> SUFFICES ASSUME IInv, Next PROVE BufferTypes' /\ Tiled'
  OBVIOUS
<1>1. /\ IsImage(img) /\ WalkTypes /\ BufferTypes /\ Tiled
      /\ SortTypes /\ OutInv
  BY DEF IInv, TypeOK
<1>2. /\ base \in Nat /\ rec_limit \in Nat /\ img' = img
      /\ Records0 + 4096 <= img.memTop => base <= rec_limit
  BY <1>1, BaseType, ImageStays DEF WalkTypes
<1>3. ConnIds' = ConnIds /\ Record' = Record /\ rec_limit' = rec_limit
  BY <1>2, LayoutStays
<1>4. CASE Setup
  <2>1. pc = "setup" /\ buf = <<>> /\ UNCHANGED <<img, h_end, buf>>
    BY <1>1, <1>4 DEF Setup, OutInv
  <2>2. base' = base
    BY <2>1, LayoutStays
  <2>3. DOMAIN buf' = {} /\ buf' \in [DOMAIN buf' -> Record]
    BY <2>1
  <2>4. CASE pc' = "done"
    <3>1. rec_next' = rec_next
      BY <1>4, <2>4 DEF Setup
    <3> QED BY <1>1, <2>3, <2>4, <3>1 DEF BufferTypes, Tiled, BufferPhases
  <2>5. CASE pc' # "done"
    <3>1. /\ Records0 + 4096 <= img.memTop
          /\ rec_next' = base /\ at' = decoder_init
      <4>1. ~(Records0 + 4096 > img.memTop)
        BY <1>4, <2>5 DEF Setup, Exit
      <4>2. Records0 \in Nat /\ img.memTop \in Nat
        BY <1>1, BaseType DEF WalkTypes, IsImage
      <4> QED BY <1>4, <4>1, <4>2 DEF Setup
    <3>2. at' \in [ConnIds' -> Nat]
      BY <1>3, <3>1 DEF decoder_init
    <3>3. BufferTypes'
      BY <1>2, <2>3, <3>1, <3>2 DEF BufferTypes
    <3>4. Tiled'
      BY <1>2, <1>3, <2>2, <2>3, <3>1 DEF Tiled
    <3> QED BY <3>3, <3>4
  <2> QED BY <2>4, <2>5
<1>5. CASE DecoderChunk
  <2>1. /\ pc = "window" /\ left > 0 /\ pc' = pc /\ h_end' = h_end
        /\ ChunkRecord(HeaderAt(p).conn, p, HeaderAt(p).n)
        /\ at' = [at EXCEPT ![HeaderAt(p).conn] = @ + HeaderAt(p).n]
    BY <1>5 DEF DecoderChunk
  <2>2. at' \in [ConnIds' -> Nat]
    <3>1. HeaderAt(p).n \in Nat
      BY <1>1, HeaderType DEF Chunks
    <3>2. at \in [ConnIds -> Nat]
      BY <1>1, <2>1 DEF BufferTypes, BufferPhases
    <3>3. at' \in [ConnIds -> Nat]
      BY <2>1, <3>1, <3>2, CounterType
    <3> QED BY <1>3, <3>3
  <2>3. CASE RecordLost
    <3>1. buf' = buf /\ rec_next' = rec_next /\ base' = base
      BY <1>2, <2>1, <2>3, LayoutStays DEF RecordLost
    <3> QED BY <1>1, <1>3, <2>1, <2>2, <3>1 DEF BufferTypes, Tiled
  <2>4. CASE ~RecordLost
    <3>1. PICK conn \in ConnIds, fields \in Seq(Field), words \in Nat :
              /\ 2 <= words /\ words < Half /\ rec_next + words <= rec_limit
              /\ CloseRecord(conn, fields, words)
      BY <2>1, <2>4, ChunkCloses
    <3>2. /\ Tiled'
          /\ buf' \in [DOMAIN buf' -> Record] /\ DOMAIN buf' \subseteq Nat
          /\ rec_next' \in Nat
      BY <1>2, <2>1, <3>1, CloseTiles DEF BufferPhases
    <3> QED BY <1>3, <2>2, <3>2 DEF BufferTypes
  <2> QED BY <2>3, <2>4
<1>6. CASE DecoderEnd
  <2>1. /\ pc = "decoder_end" /\ c < Connections /\ pc' = pc /\ h_end' = h_end
        /\ EndRecord(c) /\ at' = at
    BY <1>6 DEF DecoderEnd, chunkVars
  <2>2. at' \in [ConnIds' -> Nat]
    BY <1>1, <1>3, <2>1 DEF BufferTypes, BufferPhases
  <2>3. CASE RecordLost
    <3>1. buf' = buf /\ rec_next' = rec_next /\ base' = base
      BY <1>2, <2>1, <2>3, LayoutStays DEF RecordLost
    <3> QED BY <1>1, <1>3, <2>1, <2>2, <3>1 DEF BufferTypes, Tiled
  <2>4. CASE ~RecordLost
    <3>1. PICK conn \in ConnIds, fields \in Seq(Field), words \in Nat :
              /\ 2 <= words /\ words < Half /\ rec_next + words <= rec_limit
              /\ CloseRecord(conn, fields, words)
      BY <2>1, <2>4, EndCloses
    <3>2. /\ Tiled'
          /\ buf' \in [DOMAIN buf' -> Record] /\ DOMAIN buf' \subseteq Nat
          /\ rec_next' \in Nat
      BY <1>2, <2>1, <3>1, CloseTiles DEF BufferPhases
    <3> QED BY <1>3, <2>2, <3>2 DEF BufferTypes
  <2> QED BY <2>3, <2>4
<1>7. CASE /\ UNCHANGED bufVars
           /\ pc' \in BufferPhases => pc \in BufferPhases /\ UNCHANGED h_end
  <2>1. buf' = buf /\ rec_next' = rec_next /\ at' = at
    BY <1>7 DEF bufVars
  <2>2. BufferTypes'
    BY <1>1, <1>3, <1>7, <2>1 DEF BufferTypes
  <2>3. pc' \in BufferPhases => base' = base
    BY <1>2, <1>7, LayoutStays
  <2>4. Tiled'
    BY <1>1, <1>3, <1>7, <2>1, <2>3 DEF Tiled
  <2> QED BY <2>2, <2>4
<1> QED BY <1>4, <1>5, <1>6, <1>7, FillFrame DEF Fills

(* What SortRoom found to fit is not outgrown: no record comes after it.   *)
LEMMA SortFitsStep == IInv /\ Next => SortFits'
<1> SUFFICES ASSUME IInv, Next, pc' \in {"count", "starts", "place", "print"}
             PROVE  rec_next' + Connections' + total' <= rec_limit'
  BY DEF SortFits
<1>1. /\ Connections' = Connections /\ rec_limit' = rec_limit
  BY ImageStays, LayoutStays
<1>2. CASE SortRoom
  <2>1. /\ ~(rec_next + Connections + total > rec_limit)
        /\ rec_next' = rec_next /\ total' = total
    BY <1>2 DEF SortRoom, Exit, bufVars
  <2>2. rec_next \in Nat /\ Connections \in Nat /\ total \in Nat /\ rec_limit \in Nat
    BY BaseType DEF IInv, TypeOK, WalkTypes, BufferTypes, SortTypes
  <2> QED BY <1>1, <2>1, <2>2
<1>3. CASE ~SortRoom
  <2>1. /\ pc \in {"count", "starts", "place", "print"}
        /\ rec_next' = rec_next /\ total' = total
    BY <1>3 DEF Next, CheckHeader, CheckChunk, CheckPayload, Setup, DecoderChunk, InputEnds,
                DecoderEnd, WindowCloses, WalkRecord, CountRecord, CountEnds, StartOf,
                StartsEnd, PlaceRecord, PutHeader, PutRecord, MisreadRecord, PutEnd, Done,
                vars, bufVars, sortVars, Exit
  <2> QED BY <1>1, <2>1 DEF IInv, SortFits
<1> QED BY <1>2, <1>3

-----------------------------------------------------------------------------
(* The passes over the buffer. *)

(* A pass that is not at the end is at a record that is in range.          *)
LEMMA OnRecord ==
  ASSUME IInv, pc \in {"walk", "count", "place"}, r < rec_next
  PROVE  /\ r \in DOMAIN buf /\ buf[r].words \in Nat /\ buf[r].conn \in ConnIds
         /\ r + buf[r].words \in DOMAIN buf \cup {rec_next}
         /\ ~OutOfRange(buf[r])
<1>1. /\ IsImage(img) /\ WalkTypes /\ BufferTypes /\ SortTypes
      /\ Tiled /\ PassesStayOnRecords /\ pc \in BufferPhases
  BY DEF IInv, TypeOK, BufferPhases
<1>2. r \in Nat /\ rec_next \in Nat /\ Connections \in Nat
  BY <1>1, BaseType DEF SortTypes, BufferTypes, WalkTypes
<1>3. r \in DOMAIN buf
  BY <1>1, <1>2 DEF PassesStayOnRecords
<1>4. buf[r] \in Record
  BY <1>1, <1>3 DEF BufferTypes
<1>5. PICK w \in Nat : w = buf[r].words
  BY <1>4 DEF Record
<1>6. PICK k \in ConnIds : k = buf[r].conn
  BY <1>4 DEF Record
<1>7. 2 <= w /\ r + w <= rec_next /\ r + w \in DOMAIN buf \cup {rec_next}
  BY <1>1, <1>3, <1>5 DEF Tiled
<1>8. k \in Nat /\ k < Connections
  BY <1>2 DEF ConnIds
<1>9. ~OutOfRange(buf[r])
  BY <1>2, <1>5, <1>6, <1>7, <1>8 DEF OutOfRange
<1> QED BY <1>3, <1>5, <1>6, <1>7, <1>9

(* Where the passes start. *)
LEMMA AtBase ==
  ASSUME IInv, pc \in BufferPhases
  PROVE  base \in Nat /\ base \in DOMAIN buf \cup {rec_next}
BY BaseType DEF IInv, TypeOK, WalkTypes, Tiled

Sorting == {"count", "starts", "place"}

LEMMA SortFrame ==
  Next => \/ InputEnds \/ DecoderEnd \/ WindowCloses \/ WalkRecord \/ SortRoom
          \/ CountRecord \/ CountEnds \/ StartOf \/ StartsEnd \/ PlaceRecord
          \/ UNCHANGED sortVars /\ (pc' \in Sorting => pc \in Sorting)
BY DEF Next, CheckHeader, CheckChunk, CheckPayload, Setup, DecoderChunk, PutHeader,
       PutRecord, MisreadRecord, PutEnd, Done, vars, sortVars, Sorting, Exit

LEMMA SortTypesStep == IInv /\ Next => SortTypes'
<1> SUFFICES ASSUME IInv, Next PROVE SortTypes'
  OBVIOUS
<1> USE DEF SortTypes
<1>1. SortTypes
  BY DEF IInv, TypeOK
<1>2. ConnIds' = ConnIds
  BY ImageStays, LayoutStays
<1>3. pc \in Sorting => count \in [ConnIds' -> Nat]
  BY <1>1, <1>2 DEF Sorting
<1>4. CASE InputEnds
  BY <1>1, <1>4 DEF InputEnds
<1>5. CASE DecoderEnd
  BY <1>1, <1>5 DEF DecoderEnd
<1>6. CASE WindowCloses
  <2>1. pc = "decoder_end"
    BY <1>6 DEF WindowCloses
  <2>2. base \in Nat
    BY <2>1, AtBase DEF BufferPhases
  <2> QED BY <1>1, <1>6, <2>2 DEF WindowCloses, Exit
<1>7. CASE WalkRecord
  <2>1. pc = "walk" /\ r < rec_next
    BY <1>7 DEF WalkRecord
  <2>2. r + buf[r].words \in Nat
    BY <1>1, <2>1, OnRecord
  <2> QED BY <1>1, <1>7, <2>2 DEF WalkRecord, Exit
<1>8. CASE SortRoom
  <2>1. pc = "walk"
    BY <1>8 DEF SortRoom
  <2>2. base \in Nat
    BY <2>1, AtBase DEF BufferPhases
  <2>3. count' = count \/ count' \in [ConnIds' -> Nat]
    BY <1>2, <1>8 DEF SortRoom
  <2> QED BY <1>1, <1>2, <1>8, <2>2 DEF SortRoom, Exit
<1>9. CASE CountRecord
  <2>1. pc = "count" /\ r < rec_next /\ count \in [ConnIds -> Nat]
    BY <1>1, <1>9 DEF CountRecord
  <2>2. r + buf[r].words \in Nat
    BY <1>1, <2>1, OnRecord
  <2>3. count' \in [ConnIds -> Nat]
    BY <1>9, <2>1, CounterType DEF CountRecord
  <2> QED BY <1>1, <1>2, <1>9, <2>2, <2>3 DEF CountRecord
<1>10. CASE CountEnds
  BY <1>1, <1>2, <1>10 DEF CountEnds
<1>11. CASE StartOf
  <2>1. pc = "starts" /\ count \in [ConnIds -> Nat] /\ c < Connections
    BY <1>1, <1>11 DEF StartOf
  <2>2. c \in ConnIds
    <3>1. Connections \in Nat
      BY BaseType DEF IInv, TypeOK, WalkTypes
    <3> QED BY <1>1, <2>1, <3>1 DEF ConnIds
  <2>3. count[c] \in Nat
    BY <2>1, <2>2
  <2>4. count' \in [ConnIds -> Nat]
    BY <1>1, <1>11, <2>1 DEF StartOf
  <2>5. start' \in Nat
    BY <1>1, <1>11, <2>3 DEF StartOf, NextStart
  <2> QED BY <1>1, <1>2, <1>11, <2>4, <2>5 DEF StartOf
<1>12. CASE StartsEnd
  <2>1. pc = "starts"
    BY <1>12 DEF StartsEnd
  <2>2. base \in Nat
    BY <2>1, AtBase DEF BufferPhases
  <2> QED BY <1>1, <1>2, <1>12, <2>1, <2>2 DEF StartsEnd
<1>13. CASE PlaceRecord
  <2>1. pc = "place" /\ r < rec_next /\ count \in [ConnIds -> Nat]
    BY <1>1, <1>13 DEF PlaceRecord
  <2>2. r + buf[r].words \in Nat
    BY <1>1, <2>1, OnRecord
  <2>3. count' \in [ConnIds -> Nat]
    BY <1>13, <2>1, CounterType DEF PlaceRecord
  <2> QED BY <1>1, <1>2, <1>13, <2>2, <2>3 DEF PlaceRecord
<1>14. CASE UNCHANGED sortVars /\ (pc' \in Sorting => pc \in Sorting)
  BY <1>1, <1>3, <1>14 DEF sortVars, Sorting
<1> QED BY <1>4, <1>5, <1>6, <1>7, <1>8, <1>9, <1>10, <1>11, <1>12, <1>13, <1>14,
           SortFrame

LEMMA PassesStep == IInv /\ Next => PassesStayOnRecords'
<1> SUFFICES ASSUME IInv, Next PROVE PassesStayOnRecords'
  OBVIOUS
<1> DEFINE OnOne == pc \in {"walk", "count", "place"} => r \in DOMAIN buf \cup {rec_next}
           Code4 == code = 4 => out.records # Unset
<1>1. /\ OnOne /\ Code4 /\ OutTypes /\ OutInv
  BY DEF IInv, TypeOK, PassesStayOnRecords
<1>2. OnOne'
  <2>1. CASE WalkRecord \/ CountRecord \/ PlaceRecord
    <3>1. /\ pc \in {"walk", "count", "place"} /\ r < rec_next
          /\ UNCHANGED <<buf, rec_next>>
          /\ r' = r + buf[r].words \/ pc' = "done"
      BY <2>1 DEF WalkRecord, CountRecord, PlaceRecord, bufVars, Exit
    <3>2. r + buf[r].words \in DOMAIN buf \cup {rec_next}
      BY <3>1, OnRecord
    <3> QED BY <3>1, <3>2
  <2>2. CASE WindowCloses \/ SortRoom \/ StartsEnd
    <3>1. /\ pc \in BufferPhases /\ UNCHANGED <<buf, rec_next>>
          /\ r' = base \/ pc' = "done"
      BY <2>2 DEF WindowCloses, SortRoom, StartsEnd, bufVars, Exit, BufferPhases
    <3>2. base \in DOMAIN buf \cup {rec_next}
      BY <3>1, AtBase
    <3> QED BY <3>1, <3>2
  <2>3. CASE pc' \notin {"walk", "count", "place"}
    BY <2>3
  <2>4. CASE UNCHANGED <<pc, r, buf, rec_next>>
    BY <1>1, <2>4
  <2>5. \/ WalkRecord \/ CountRecord \/ PlaceRecord
        \/ WindowCloses \/ SortRoom \/ StartsEnd
        \/ pc' \notin {"walk", "count", "place"}
        \/ UNCHANGED <<pc, r, buf, rec_next>>
    BY DEF Next, CheckHeader, CheckChunk, CheckPayload, Setup, DecoderChunk, InputEnds,
           DecoderEnd, CountEnds, StartOf, PutHeader, PutRecord, MisreadRecord, PutEnd,
           Done, vars, bufVars, sortVars, Exit
  <2> QED BY <2>1, <2>2, <2>3, <2>4, <2>5
<1>3. Code4'
  <2>1. CASE WalkRecord
    <3>1. pc = "walk" /\ r < rec_next
      BY <2>1 DEF WalkRecord
    <3>2. ~OutOfRange(buf[r])
      BY <3>1, OnRecord
    <3> QED BY <1>1, <2>1, <3>2 DEF WalkRecord
  <2>2. CASE PutHeader
    <3>1. /\ out' = [out EXCEPT !.records = total] /\ total \in Nat
      BY <2>2 DEF PutHeader, IInv, TypeOK, SortTypes
    <3>2. out'.records = total /\ total # Unset
      BY <1>1, <3>1 DEF OutTypes, Unset
    <3> QED BY <3>2
  <2>3. CASE PutRecord \/ MisreadRecord \/ PutEnd
    <3>1. pc = "print" /\ out'.records = out.records
      BY <1>1, <2>3 DEF PutRecord, MisreadRecord, PutEnd, OutTypes
    <3> QED BY <1>1, <3>1 DEF OutInv
  <2>4. CASE out' = out /\ (code' = code \/ code' \in {0, 2, 3})
    BY <1>1, <2>4
  <2>5. \/ WalkRecord \/ PutHeader \/ PutRecord \/ MisreadRecord \/ PutEnd
        \/ out' = out /\ (code' = code \/ code' \in {0, 2, 3})
    BY DEF Next, CheckHeader, CheckChunk, CheckPayload, Setup, DecoderChunk, InputEnds,
           DecoderEnd, WindowCloses, SortRoom, CountRecord, CountEnds, StartOf, StartsEnd,
           PlaceRecord, Done, vars, outVars, Exit
  <2> QED BY <2>1, <2>2, <2>3, <2>4, <2>5
<1> QED BY <1>2, <1>3 DEF PassesStayOnRecords

-----------------------------------------------------------------------------
(* The output, and the control. *)

LEMMA OutStep == IInv /\ Next => OutTypes' /\ OutInv'
<1> SUFFICES ASSUME IInv, Next PROVE OutTypes' /\ OutInv'
  OBVIOUS
<1>1. OutTypes /\ OutInv /\ total \in Nat
  BY DEF IInv, TypeOK, SortTypes
<1>2. OutTypes'
  <2>1. CASE PutHeader
    BY <1>1, <2>1 DEF PutHeader, OutTypes
  <2>2. CASE PutRecord
    BY <1>1, <2>2 DEF PutRecord, OutTypes
  <2>3. CASE MisreadRecord
    BY <1>1, <2>3 DEF MisreadRecord, OutTypes, Exit
  <2>4. CASE PutEnd
    BY <1>1, <2>4 DEF PutEnd, OutTypes, Exit
  <2>5. CASE UNCHANGED <<i, out>> /\ (code' = code \/ code' \in {2, 3, 4})
    BY <1>1, <2>5 DEF OutTypes
  <2>6. \/ PutHeader \/ PutRecord \/ MisreadRecord \/ PutEnd
        \/ UNCHANGED <<i, out>> /\ (code' = code \/ code' \in {2, 3, 4})
    BY DEF Next, CheckHeader, CheckChunk, CheckPayload, Setup, DecoderChunk, InputEnds,
           DecoderEnd, WindowCloses, WalkRecord, SortRoom, CountRecord, CountEnds,
           StartOf, StartsEnd, PlaceRecord, Done, vars, outVars, Exit
  <2> QED BY <2>1, <2>2, <2>3, <2>4, <2>5, <2>6
<1>3. OutInv'
  <2>1. CASE PutHeader
    <3>1. out'.records = total /\ total # Unset /\ pc' = "print"
      BY <1>1, <2>1 DEF PutHeader, OutTypes, Unset
    <3> QED BY <3>1 DEF OutInv
  <2>2. CASE PutRecord \/ MisreadRecord
    <3>1. pc = "print" /\ out'.records = out.records /\ pc' \in {"print", "done"}
      BY <1>1, <2>2 DEF PutRecord, MisreadRecord, OutTypes, Exit
    <3> QED BY <1>1, <3>1 DEF OutInv
  <2>3. CASE pc' \notin {"check", "check_chunks", "setup", "print"}
    BY <2>3 DEF OutInv
  <2>4. CASE /\ pc \in {"check", "check_chunks", "setup"} \/ UNCHANGED pc
             /\ pc' = "print" => UNCHANGED <<pc, out>>
             /\ UNCHANGED buf
    BY <1>1, <2>4 DEF OutInv
  <2>5. \/ PutHeader \/ PutRecord \/ MisreadRecord
        \/ pc' \notin {"check", "check_chunks", "setup", "print"}
        \/ /\ pc \in {"check", "check_chunks", "setup"} \/ UNCHANGED pc
           /\ pc' = "print" => UNCHANGED <<pc, out>>
           /\ UNCHANGED buf
    BY DEF Next, CheckHeader, CheckChunk, CheckPayload, Setup, DecoderChunk, InputEnds,
           DecoderEnd, WindowCloses, WalkRecord, SortRoom, CountRecord, CountEnds,
           StartOf, StartsEnd, PlaceRecord, PutEnd, Done, vars, bufVars, outVars, Exit
  <2> QED BY <2>1, <2>2, <2>3, <2>4, <2>5
<1> QED BY <1>2, <1>3

LEMMA ControlStep == IInv /\ Next => pc' \in Phases /\ rec_full' \in BOOLEAN
<1> SUFFICES ASSUME IInv, Next PROVE pc' \in Phases /\ rec_full' \in BOOLEAN
  OBVIOUS
<1>1. pc \in Phases /\ rec_full \in BOOLEAN
  BY DEF IInv, TypeOK
<1>2. pc' \in Phases
  BY <1>1 DEF Next, CheckHeader, CheckChunk, CheckPayload, Setup, DecoderChunk,
       InputEnds, DecoderEnd, WindowCloses, WalkRecord, SortRoom, CountRecord, CountEnds,
       StartOf, StartsEnd, PlaceRecord, PutHeader, PutRecord, MisreadRecord, PutEnd,
       Done, vars, Exit, Phases
<1>3. rec_full' = rec_full \/ rec_full' = TRUE
  <2>1. CASE Setup
    BY <2>1 DEF Setup
  <2>2. CASE DecoderChunk
    BY <2>2 DEF DecoderChunk, ChunkRecord, CloseRecord, RecordLost
  <2>3. CASE DecoderEnd
    BY <2>3 DEF DecoderEnd, EndRecord, CloseRecord, RecordLost
  <2>4. CASE UNCHANGED bufVars
    BY <2>4 DEF bufVars
  <2> QED BY <2>1, <2>2, <2>3, <2>4, FillFrame DEF Fills
<1> QED BY Zenon, <1>1, <1>2, <1>3

LEMMA Inductive == IInv /\ [Next]_vars => IInv'
<1> SUFFICES ASSUME IInv, [Next]_vars PROVE IInv'
  OBVIOUS
<1>1. CASE Next
  <2>1. IsImage(img)'
    BY <1>1, ImageStays, LayoutStays DEF IInv, TypeOK
  <2>2. TypeOK'
    BY <1>1, <2>1, ControlStep, WalkTypesStep, BufferStep, SortTypesStep, OutStep
    DEF TypeOK
  <2> QED BY <1>1, <2>2, WalkInvStep, BufferStep, SortFitsStep, PassesStep, OutStep DEF IInv
<1>2. CASE UNCHANGED vars
  <2>1. /\ img' = img /\ pc' = pc /\ left' = left /\ p' = p /\ h_end' = h_end
        /\ sum' = sum /\ buf' = buf /\ rec_next' = rec_next /\ rec_full' = rec_full
        /\ at' = at /\ c' = c /\ r' = r /\ total' = total /\ count' = count
        /\ start' = start /\ i' = i /\ out' = out /\ code' = code
    BY <1>2 DEF vars, chunkVars, bufVars, sortVars, outVars
  <2>2. base' = base /\ rec_limit' = rec_limit /\ Record' = Record /\ ConnIds' = ConnIds
    BY <2>1, LayoutStays
  <2>3. \A g, n : IsWalk(g, n)' <=> IsWalk(g, n)
    BY <2>1, WalkStays
  <2>4. TypeOK'
    <3>1. IsImage(img)'
      BY <2>1, LayoutStays DEF IInv, TypeOK
    <3>2. pc' \in Phases /\ rec_full' \in BOOLEAN
      BY Zenon, <2>1 DEF IInv, TypeOK
    <3>3. WalkTypes' /\ SortTypes' /\ OutTypes'
      BY <2>1, <2>2 DEF IInv, TypeOK, WalkTypes, SortTypes, OutTypes
    <3>4. BufferTypes'
      BY <2>1, <2>2 DEF IInv, TypeOK, BufferTypes
    <3> QED BY <3>1, <3>2, <3>3, <3>4 DEF TypeOK
  <2>5. WalkInv'
    BY <2>1, <2>3 DEF IInv, WalkInv
  <2>6. Tiled' /\ PassesStayOnRecords' /\ OutInv'
    BY <2>1, <2>2 DEF IInv, Tiled, PassesStayOnRecords, OutInv
  <2>7. SortFits'
    BY <2>1, LayoutStays DEF IInv, SortFits
  <2> QED BY <2>4, <2>5, <2>6, <2>7 DEF IInv
<1> QED BY <1>1, <1>2

-----------------------------------------------------------------------------
(* The results, for every set of images. *)

(* The invariant holds in every state of every run. *)
LEMMA Invariance == Spec => []IInv
BY InitInv, Inductive, PTL DEF Spec

(* Every variable of the harness keeps its C type. *)
THEOREM TypeCorrect == Spec => []TypeOK
<1>1. IInv => TypeOK
  BY DEF IInv
<1> QED BY <1>1, Invariance, PTL

(* The records the decoder writes lie end to end within the buffer, none   *)
(* longer than its 16-bit length can say, and what the sort adds fits.     *)
THEOREM RecordsTile == Spec => []BufferTiled
<1>1. IInv => BufferTiled
  BY DEF IInv, BufferTiled
<1> QED BY <1>1, Invariance, PTL

(* The three passes of the sort step from record to record, and the walk's *)
(* refusal of a record never fires.                                        *)
THEOREM PassesCorrect == Spec => []PassesStayOnRecords
<1>1. IInv => PassesStayOnRecords
  BY DEF IInv
<1> QED BY <1>1, Invariance, PTL

(* The window's walk over the chunks reads the headers check() verified,   *)
(* all of them, and ends where check() ended.                              *)
THEOREM WalksAgree == Spec => []WindowWalkAgrees
<1>1. IInv => WindowWalkAgrees
  <2> SUFFICES ASSUME IInv, pc = "window"
               PROVE  (left > 0 => p \in DOMAIN img.chunk) /\ (left = 0 => p = h_end)
    BY DEF WindowWalkAgrees
  <2>1. /\ IsImage(img) /\ img.chunks \in Nat /\ left \in Nat
    BY DEF IInv, TypeOK, WalkTypes, IsImage
  <2>2. PICK g : /\ IsWalk(g, img.chunks) /\ h_end = g[img.chunks]
                 /\ left <= img.chunks /\ p = g[img.chunks - left]
    BY DEF IInv, WalkInv, BufferPhases
  <2>3. ASSUME left > 0 PROVE p \in DOMAIN img.chunk
    <3>1. img.chunks - left \in 0 .. img.chunks - 1
      BY <2>1, <2>2, <2>3
    <3>2. HeaderAt(p).n # 0
      BY <2>2, <3>1 DEF IsWalk
    <3> QED BY <2>1, <3>2, HeaderType
  <2>4. ASSUME left = 0 PROVE p = h_end
    <3>1. img.chunks - left = img.chunks
      BY <2>1, <2>4
    <3> QED BY <2>2, <3>1
  <2> QED BY <2>3, <2>4
<1> QED BY <1>1, Invariance, PTL

(* No record changes or disappears once closed, and a lost record is never *)
(* forgotten.                                                              *)
THEOREM RecordsFinal == Spec => RecordsAreFinal
<1> DEFINE Keeps == /\ rec_full => rec_full'
                    /\ \A a \in DOMAIN buf : a \in DOMAIN buf' /\ buf'[a] = buf[a]
<1>1. IInv /\ [Next]_vars => [Keeps]_vars
  <2> SUFFICES ASSUME IInv, Next PROVE Keeps
    OBVIOUS
  <2>1. CASE RecordLost \/ UNCHANGED <<buf, rec_full>>
    BY <2>1 DEF RecordLost
  <2>2. ASSUME pc \in BufferPhases,
               NEW conn, NEW fields, NEW words, CloseRecord(conn, fields, words)
        PROVE  Keeps
    <3>1. rec_next \notin DOMAIN buf
      BY <2>2 DEF IInv, Tiled
    <3> QED BY <2>2, <3>1 DEF CloseRecord
  <2>3. CASE DecoderChunk
    BY <2>1, <2>2, <2>3 DEF DecoderChunk, ChunkRecord, BufferPhases
  <2>4. CASE DecoderEnd
    BY <2>1, <2>2, <2>4 DEF DecoderEnd, EndRecord, BufferPhases
  <2>5. CASE Setup
    BY <2>1, <2>5 DEF Setup
  <2>6. CASE UNCHANGED bufVars
    BY <2>1, <2>6 DEF bufVars
  <2> QED BY <2>3, <2>4, <2>5, <2>6, FillFrame DEF Fills
<1>2. [][Keeps]_vars => RecordsAreFinal
  BY PTL DEF RecordsAreFinal
<1> QED BY <1>1, <1>2, Invariance, PTL DEF Spec

-----------------------------------------------------------------------------
(* A run that printed an end line printed one record for every chunk and   *)
(* every connection: the records in the buffer are counted while they are  *)
(* written, again by the pass that walks them, and again by the lines. The *)
(* sort between the two puts every record at the place that the number of  *)
(* records before it gives it.                                             *)

Early    == {"check", "check_chunks", "setup"}
Filling  == {"window", "decoder_end"}
Expected == img.chunks + Connections
Stored   == DOMAIN buf
Passed   == {a \in Stored : a < r}

(* Unless one was lost, each decoder call so far has left one record.      *)
FillCount ==
  /\ IsFiniteSet(Stored)
  /\ pc = "window" => left <= img.chunks /\ (~rec_full => Cardinality(Stored) = img.chunks - left)
  /\ pc = "decoder_end" => c <= Connections /\ (~rec_full => Cardinality(Stored) = img.chunks + c)
  /\ pc = "walk" => ~rec_full /\ Cardinality(Stored) = Expected

(* The walk has counted the records it has passed, in the end all of them. *)
WalkCount ==
  /\ pc \in Early \cup Filling => total = 0
  /\ pc = "walk" => total = Cardinality(Passed)
  /\ pc \in Sorting \cup {"print"} => ~rec_full /\ total = Expected

(* A line for each record that has been printed, and an end line last.     *)
LineCount ==
  /\ out.end # Unset => pc = "done" /\ EndMeansComplete
  /\ pc \notin {"print", "done"} => out.lines = <<>>
  /\ pc = "print" => /\ out.records = total /\ i <= total
                     /\ \E S : out.lines \in Seq(S) /\ Len(out.lines) = i

CountInv == FillCount /\ WalkCount /\ LineCount

LEMMA InitCount == Init => CountInv
<1> SUFFICES ASSUME Init PROVE CountInv
  OBVIOUS
<1>1. Stored = {} /\ pc = "check" /\ total = 0 /\ out.end = Unset /\ out.lines = <<>>
  BY DEF Init, Stored
<1>2. FillCount
  BY <1>1, FS_EmptySet DEF FillCount
<1> QED BY <1>1, <1>2 DEF CountInv, WalkCount, LineCount, Early, Filling, Sorting

(* A record that is closed is one more; one that is lost is remembered.    *)
LEMMA RecordCounts ==
  ASSUME IInv, pc \in BufferPhases, IsFiniteSet(Stored),
         RecordLost \/ \E conn, fields, words : CloseRecord(conn, fields, words)
  PROVE  /\ IsFiniteSet(Stored')
         /\ rec_full' \/ (~rec_full /\ Cardinality(Stored') = Cardinality(Stored) + 1)
            \/ (rec_full /\ rec_full')
<1>1. CASE RecordLost
  BY <1>1 DEF RecordLost, Stored
<1>2. CASE \E conn, fields, words : CloseRecord(conn, fields, words)
  <2>1. Stored' = Stored \cup {rec_next} /\ rec_full' = rec_full
    BY <1>2 DEF CloseRecord, Stored
  <2>2. rec_next \notin Stored
    BY DEF IInv, Tiled, Stored
  <2>3. IsFiniteSet(Stored') /\ Cardinality(Stored') = Cardinality(Stored) + 1
    BY ONLY <2>1, <2>2, IsFiniteSet(Stored), FS_AddElement
  <2>4. rec_full \in BOOLEAN
    BY DEF IInv, TypeOK
  <2> QED BY Zenon, <2>1, <2>3, <2>4
<1> QED BY <1>1, <1>2

LEMMA CountTypes ==
  ASSUME IInv
  PROVE  /\ img.chunks \in Nat /\ Connections \in Nat /\ Expected \in Nat
         /\ left \in Nat /\ c \in Nat /\ r \in Nat /\ i \in Nat /\ total \in Nat
<1>1. IsImage(img) /\ WalkTypes /\ SortTypes /\ OutTypes
  BY DEF IInv, TypeOK
<1>2. img.chunks \in Nat /\ Connections \in Nat
  BY <1>1, BaseType DEF IsImage, WalkTypes
<1> QED BY <1>1, <1>2 DEF WalkTypes, SortTypes, OutTypes, Expected

LEMMA FillStep == IInv /\ CountInv /\ Next => FillCount'
<1> SUFFICES ASSUME IInv, CountInv, Next PROVE FillCount'
  OBVIOUS
<1>1. img' = img /\ Connections' = Connections /\ Expected' = Expected
  BY ImageStays, LayoutStays DEF Expected
<1>2. FillCount
  BY DEF CountInv
<1>3. CASE Setup
  <2>1. buf = <<>> /\ buf' = buf /\ pc' \in {"window", "done"}
        /\ (pc' = "window" => left' = img.chunks)
    BY <1>3 DEF Setup, Exit, IInv, OutInv
  <2>2. Stored' = {} /\ IsFiniteSet(Stored') /\ Cardinality(Stored') = 0
    BY <2>1, FS_EmptySet DEF Stored
  <2>3. img.chunks \in Nat
    BY CountTypes
  <2> QED BY <1>1, <2>1, <2>2, <2>3 DEF FillCount
<1>4. CASE DecoderChunk
  <2>1. /\ pc = "window" /\ pc' = "window" /\ left > 0 /\ left' = left - 1
        /\ RecordLost \/ \E conn, fields, words : CloseRecord(conn, fields, words)
    BY <1>4 DEF DecoderChunk, ChunkRecord
  <2>2. /\ IsFiniteSet(Stored')
        /\ rec_full' \/ (~rec_full /\ Cardinality(Stored') = Cardinality(Stored) + 1)
    BY <1>2, <2>1, RecordCounts DEF FillCount, BufferPhases
  <2>3. left <= img.chunks /\ (~rec_full => Cardinality(Stored) = img.chunks - left)
    BY <1>2, <2>1 DEF FillCount
  <2>4. /\ left' <= img.chunks
        /\ ~rec_full' => Cardinality(Stored') = img.chunks - left'
    BY <2>1, <2>2, <2>3, CountTypes
  <2> QED BY <1>1, <2>1, <2>2, <2>4 DEF FillCount
<1>5. CASE DecoderEnd
  <2>1. /\ pc = "decoder_end" /\ pc' = "decoder_end" /\ c < Connections /\ c' = c + 1
        /\ RecordLost \/ \E conn, fields, words : CloseRecord(conn, fields, words)
    BY <1>5 DEF DecoderEnd, EndRecord
  <2>2. /\ IsFiniteSet(Stored')
        /\ rec_full' \/ (~rec_full /\ Cardinality(Stored') = Cardinality(Stored) + 1)
    BY <1>2, <2>1, RecordCounts DEF FillCount, BufferPhases
  <2>3. ~rec_full => Cardinality(Stored) = img.chunks + c
    BY <1>2, <2>1 DEF FillCount
  <2>4. /\ c' <= Connections
        /\ ~rec_full' => Cardinality(Stored') = img.chunks + c'
    BY <2>1, <2>2, <2>3, CountTypes
  <2> QED BY <1>1, <2>1, <2>2, <2>4 DEF FillCount
<1>6. CASE InputEnds
  <2>1. pc = "window" /\ left = 0 /\ pc' = "decoder_end" /\ c' = 0 /\ buf' = buf /\ rec_full' = rec_full
    BY <1>6 DEF InputEnds, bufVars
  <2>2. Stored' = Stored
    BY <2>1 DEF Stored
  <2>3. 0 <= Connections /\ img.chunks - 0 = img.chunks + 0
    BY CountTypes
  <2> QED BY <1>1, <1>2, <2>1, <2>2, <2>3 DEF FillCount
<1>7. CASE WindowCloses
  <2>1. pc = "decoder_end" /\ c = Connections /\ buf' = buf /\ rec_full' = rec_full
        /\ ((rec_full /\ pc' = "done") \/ (~rec_full /\ pc' = "walk"))
    <3>1. CASE rec_full
      BY <1>7, <3>1 DEF WindowCloses, bufVars, Exit
    <3>2. CASE ~rec_full
      BY <1>7, <3>2 DEF WindowCloses, bufVars
    <3> QED BY <3>1, <3>2
  <2>2. Stored' = Stored
    BY <2>1 DEF Stored
  <2> QED BY <1>1, <1>2, <2>1, <2>2 DEF FillCount, Expected
<1>8. CASE /\ UNCHANGED <<buf, rec_full>>
           /\ pc' \in Filling \cup {"walk"} => UNCHANGED <<pc, left, c>>
  <2>1. Stored' = Stored
    BY <1>8 DEF Stored
  <2> QED BY <1>1, <1>2, <1>8, <2>1 DEF FillCount, Filling
<1>9. \/ Setup \/ DecoderChunk \/ DecoderEnd \/ InputEnds \/ WindowCloses
      \/ /\ UNCHANGED <<buf, rec_full>>
         /\ pc' \in Filling \cup {"walk"} => UNCHANGED <<pc, left, c>>
  BY DEF Next, CheckHeader, CheckChunk, CheckPayload, WalkRecord, SortRoom, CountRecord,
         CountEnds, StartOf, StartsEnd, PlaceRecord, PutHeader, PutRecord, MisreadRecord,
         PutEnd, Done, vars, chunkVars, bufVars, sortVars, outVars, Exit, Filling
<1> QED BY <1>3, <1>4, <1>5, <1>6, <1>7, <1>8, <1>9

(* A pass that starts has passed no record. *)
LEMMA PassNone ==
  ASSUME IInv, pc \in BufferPhases
  PROVE  {a \in Stored : a < base} = {}
<1>1. base \in Nat /\ Stored \subseteq Nat /\ \A a \in Stored : base <= a
  BY AtBase DEF IInv, TypeOK, BufferTypes, Tiled, Stored
<1>2. \A a \in Stored : ~(a < base)
  BY ONLY <1>1
<1> QED BY <1>2

(* A step from a record to the next passes that record and no other. *)
LEMMA PassOne ==
  ASSUME IInv, pc \in {"walk", "count", "place"}, r < rec_next,
         buf' = buf, r' = r + buf[r].words
  PROVE  r \in Stored /\ r \notin Passed /\ Passed' = Passed \cup {r}
<1>1. /\ r \in Stored /\ Stored \subseteq Nat /\ buf[r].words \in Nat
      /\ 2 <= buf[r].words
      /\ \A a \in Stored : r < a => r + buf[r].words <= a
  BY OnRecord DEF IInv, TypeOK, BufferTypes, Tiled, BufferPhases, Stored
<1> DEFINE w == buf[r].words
<1>2. \A a \in Stored : a < r + w <=> a < r \/ a = r
  <2> HIDE DEF w
  <2>1. r \in Nat /\ w \in Nat /\ 2 <= w
    BY <1>1 DEF w
  <2>2. \A a \in Stored : a \in Nat /\ (r < a => r + w <= a)
    BY <1>1 DEF w
  <2> QED BY ONLY <2>1, <2>2
<1>3. Passed' = {a \in Stored : a < r + w}
  BY DEF Passed, Stored
<1>4. Passed' = Passed \cup {r}
  BY <1>1, <1>2, <1>3 DEF Passed
<1>5. r \notin Passed
  BY <1>1 DEF Passed
<1> QED BY <1>1, <1>4, <1>5

(* A pass that has come to the end has passed every record. *)
LEMMA PassAll ==
  ASSUME IInv, pc \in BufferPhases, r = rec_next
  PROVE  Passed = Stored
<1>1. /\ Stored \subseteq Nat /\ rec_next \in Nat
      /\ \A a \in Stored : a + buf[a].words <= rec_next /\ 2 <= buf[a].words
                           /\ buf[a].words \in Nat
  BY DEF IInv, TypeOK, BufferTypes, Tiled, Stored, Record
<1>2. \A a \in Stored : a < rec_next
  <2> SUFFICES ASSUME NEW a \in Stored PROVE a < rec_next
    OBVIOUS
  <2>1. PICK w \in Nat : w = buf[a].words
    BY <1>1
  <2>2. a \in Nat /\ a + w <= rec_next /\ 2 <= w
    BY <1>1, <2>1
  <2> QED BY ONLY <1>1, <2>2
<1> QED BY <1>2 DEF Passed

LEMMA WalkStep == IInv /\ CountInv /\ Next => WalkCount'
<1> SUFFICES ASSUME IInv, CountInv, Next PROVE WalkCount'
  OBVIOUS
<1>1. img' = img /\ Connections' = Connections /\ Expected' = Expected
  BY ImageStays, LayoutStays DEF Expected
<1>2. FillCount /\ WalkCount
  BY DEF CountInv
<1>3. CASE WindowCloses
  <2>1. pc = "decoder_end" /\ buf' = buf /\ total' = total
        /\ (pc' = "done" \/ (pc' = "walk" /\ r' = base))
    <3>1. CASE rec_full
      BY <1>3, <3>1 DEF WindowCloses, bufVars, Exit
    <3>2. CASE ~rec_full
      BY <1>3, <3>2 DEF WindowCloses, bufVars
    <3> QED BY <3>1, <3>2
  <2>2. pc' = "walk" => Passed' = {}
    <3>1. {a \in Stored : a < base} = {}
      BY <2>1, PassNone DEF BufferPhases
    <3> QED BY <2>1, <3>1 DEF Passed, Stored
  <2>3. total = 0
    BY <1>2, <2>1 DEF WalkCount, Filling
  <2> QED BY <2>1, <2>2, <2>3, FS_EmptySet DEF WalkCount, Early, Filling, Sorting
<1>4. CASE WalkRecord
  <2>1. /\ pc = "walk" /\ r < rec_next /\ buf' = buf /\ pc' = pc
        /\ r' = r + buf[r].words /\ total' = total + 1
    <3>1. pc = "walk" /\ r < rec_next
      BY <1>4 DEF WalkRecord
    <3>2. ~OutOfRange(buf[r])
      BY <3>1, OnRecord
    <3> QED BY <1>4, <3>1, <3>2 DEF WalkRecord, bufVars
  <2>2. r \in Stored /\ r \notin Passed /\ Passed' = Passed \cup {r}
    BY <2>1, PassOne
  <2>3. Passed \subseteq Stored
    BY DEF Passed
  <2>5. IsFiniteSet(Passed)
    BY <1>2, <2>3, FS_Subset DEF FillCount
  <2>6. Cardinality(Passed') = Cardinality(Passed) + 1
    BY ONLY <2>2, <2>5, FS_AddElement
  <2>7. total' = Cardinality(Passed')
    BY <1>2, <2>1, <2>6 DEF WalkCount
  <2> QED BY <2>1, <2>7 DEF WalkCount, Early, Filling, Sorting
<1>5. CASE SortRoom
  <2>1. /\ pc = "walk" /\ r = rec_next /\ total' = total /\ rec_full' = rec_full
        /\ pc' \in {"count", "done"}
    BY <1>5 DEF SortRoom, bufVars, Exit
  <2>2. Passed = Stored
    BY <2>1, PassAll DEF BufferPhases
  <2>3. ~rec_full /\ total = Expected
    BY <1>2, <2>1, <2>2 DEF FillCount, WalkCount
  <2> QED BY <1>1, <2>1, <2>3 DEF WalkCount, Early, Filling, Sorting
<1>6. CASE /\ total' = total
           /\ pc' \in Early \cup Filling => pc \in Early \cup Filling
           /\ pc' = "walk" => UNCHANGED <<pc, r, buf>>
           /\ pc' \in Sorting \cup {"print"} => pc \in Sorting \cup {"print"} /\ UNCHANGED rec_full
  <2>1. pc' = "walk" => Passed' = Passed
    BY <1>6 DEF Passed, Stored
  <2> QED BY <1>1, <1>2, <1>6, <2>1 DEF WalkCount, Early, Filling, Sorting
<1>7. \/ WindowCloses \/ WalkRecord \/ SortRoom
      \/ /\ total' = total
         /\ pc' \in Early \cup Filling => pc \in Early \cup Filling
         /\ pc' = "walk" => UNCHANGED <<pc, r, buf>>
         /\ pc' \in Sorting \cup {"print"} => pc \in Sorting \cup {"print"} /\ UNCHANGED rec_full
  BY DEF Next, CheckHeader, CheckChunk, CheckPayload, Setup, DecoderChunk, InputEnds, DecoderEnd,
         CountRecord, CountEnds, StartOf, StartsEnd, PlaceRecord, PutHeader, PutRecord,
         MisreadRecord, PutEnd, Done, vars, chunkVars, bufVars, sortVars, outVars, Exit,
         Early, Filling, Sorting
<1> QED BY <1>3, <1>4, <1>5, <1>6, <1>7

LEMMA LineStep == IInv /\ CountInv /\ Next => LineCount'
<1> SUFFICES ASSUME IInv, CountInv, Next PROVE LineCount'
  OBVIOUS
<1>1. img' = img /\ Connections' = Connections /\ Expected' = Expected
  BY ImageStays, LayoutStays DEF Expected
<1>2. WalkCount /\ LineCount /\ OutTypes
  BY DEF CountInv, IInv, TypeOK
<1>3. CASE PutHeader
  <2>1. /\ pc = "place" /\ pc' = "print" /\ i' = 0 /\ total' = total
        /\ out'.records = total /\ out'.lines = out.lines /\ out'.end = out.end
    BY <1>2, <1>3 DEF PutHeader, OutTypes, sortVars
  <2>2. out.end = Unset /\ out.lines = <<>>
    BY <1>2, <2>1 DEF LineCount
  <2>3. 0 <= total
    BY CountTypes
  <2>4. out'.lines \in Seq({}) /\ Len(out'.lines) = 0
    BY <2>1, <2>2
  <2> QED BY <2>1, <2>2, <2>3, <2>4 DEF LineCount
<1>4. CASE pc = "print" /\ i < total /\ i' = i + 1 /\ pc' = pc /\ total' = total
           /\ \E e : out' = [out EXCEPT !.lines = Append(@, e)]
  <2>1. PICK e : out' = [out EXCEPT !.lines = Append(@, e)]
    BY <1>4
  <2>2. /\ out'.records = out.records /\ out'.end = out.end
        /\ out'.lines = Append(out.lines, e)
    BY <1>2, <2>1 DEF OutTypes
  <2>3. PICK S : out.lines \in Seq(S) /\ Len(out.lines) = i
    BY <1>2, <1>4 DEF LineCount
  <2>4. out.records = total /\ out.end = Unset
    BY <1>2, <1>4 DEF LineCount
  <2>5. out'.lines \in Seq(S \cup {e}) /\ Len(out'.lines) = i + 1
    <3>1. out.lines \in Seq(S \cup {e})
      BY ONLY <2>3, SeqMonotonic
    <3> QED BY ONLY <2>2, <2>3, <3>1, AppendProperties
  <2>6. i + 1 <= total
    BY <1>4, CountTypes
  <2> QED BY <1>4, <2>2, <2>4, <2>5, <2>6 DEF LineCount
<1>5. CASE PutEnd
  <2>1. /\ pc = "print" /\ i = total /\ pc' = "done" /\ code' = 0 /\ rec_full' = rec_full
        /\ out'.records = out.records /\ out'.lines = out.lines /\ out'.end = total
    BY <1>2, <1>5 DEF PutEnd, OutTypes, bufVars, Exit
  <2>2. ~rec_full /\ total = Expected /\ out.records = total /\ Len(out.lines) = i
    BY <1>2, <2>1 DEF WalkCount, LineCount
  <2>3. EndMeansComplete'
    BY <1>1, <2>1, <2>2 DEF EndMeansComplete, Expected
  <2> QED BY <2>1, <2>3 DEF LineCount
<1>6. CASE /\ out' = out /\ (pc' = pc \/ pc # "done")
           /\ pc' = "print" => UNCHANGED <<pc, i, total>>
           /\ pc' # "done" => pc' = "print" \/ pc \notin {"print", "done"}
           /\ pc = "done" => UNCHANGED <<rec_full, code>>
  <2>1. out.end # Unset => pc = "done" /\ EndMeansComplete
    BY <1>2 DEF LineCount
  <2>2. out'.end # Unset => pc' = "done" /\ EndMeansComplete'
    BY <1>1, <1>6, <2>1 DEF EndMeansComplete
  <2> QED BY <1>2, <1>6, <2>2 DEF LineCount
<1>7. CASE PutRecord
  BY <1>4, <1>7 DEF PutRecord, sortVars
<1>8. CASE MisreadRecord
  <2>1. \/ i < total /\ pc = "print" /\ pc' = pc /\ total' = total /\ i' = i + 1
           /\ out' = [out EXCEPT !.lines = Append(@, Garbled)]
        \/ pc = "print" /\ pc' = "done" /\ out' = out
    BY <1>8 DEF MisreadRecord, sortVars, Exit
  <2> QED BY <1>4, <1>6, <2>1
<1>9. \/ PutHeader \/ PutRecord \/ MisreadRecord \/ PutEnd
      \/ /\ out' = out /\ (pc' = pc \/ pc # "done")
         /\ pc' = "print" => UNCHANGED <<pc, i, total>>
         /\ pc' # "done" => pc' = "print" \/ pc \notin {"print", "done"}
         /\ pc = "done" => UNCHANGED <<rec_full, code>>
  BY DEF Next, CheckHeader, CheckChunk, CheckPayload, Setup, DecoderChunk, InputEnds,
         DecoderEnd, WindowCloses, WalkRecord, SortRoom, CountRecord, CountEnds,
         StartOf, StartsEnd, PlaceRecord, Done, vars, bufVars, sortVars, outVars, Exit
<1> QED BY <1>3, <1>5, <1>6, <1>7, <1>8, <1>9

LEMMA StutterCount == CountInv /\ UNCHANGED vars => CountInv'
<1> SUFFICES ASSUME CountInv, UNCHANGED vars PROVE CountInv'
  OBVIOUS
<1>1. UNCHANGED <<img, pc, left, buf, rec_full, c, r, total, i, out, code>>
  BY DEF vars, chunkVars, bufVars, sortVars, outVars
<1>2. UNCHANGED <<Stored, Passed, Expected, Connections>>
  BY <1>1, LayoutStays DEF Stored, Passed, Expected
<1>3. FillCount'
  BY <1>1, <1>2 DEF CountInv, FillCount
<1>4. WalkCount'
  BY <1>1, <1>2 DEF CountInv, WalkCount
<1>5. LineCount'
  BY <1>1, <1>2 DEF CountInv, LineCount, EndMeansComplete
<1> QED BY <1>3, <1>4, <1>5 DEF CountInv

(* A run that prints the end line has lost no record: it printed one for   *)
(* every chunk and one for every connection, and says that many, for every *)
(* set of images and every limit of memory.                                *)
THEOREM EndComplete == Spec => []EndMeansComplete
<1>1. IInv /\ CountInv /\ [Next]_vars => CountInv'
  BY FillStep, WalkStep, LineStep, StutterCount DEF CountInv
<1>2. CountInv => EndMeansComplete
  BY DEF CountInv, LineCount, EndMeansComplete
<1> QED BY <1>1, <1>2, InitCount, Invariance, PTL DEF Spec

(* The elements of a finite set, numbered by how many come before each. *)
LEMMA Ranks ==
  ASSUME NEW S, IsFiniteSet(S), NEW B \in [S -> SUBSET S],
         \A a \in S : a \notin B[a],
         \A a, b \in S : a = b \/ a \in B[b] \/ b \in B[a],
         \A a, b \in S : a \in B[b] => B[a] \subseteq B[b]
  PROVE  /\ \A a \in S : Cardinality(B[a]) \in 0 .. Cardinality(S) - 1
         /\ \A a, b \in S : a \in B[b] <=> Cardinality(B[a]) < Cardinality(B[b])
         /\ \A a, b \in S : Cardinality(B[a]) = Cardinality(B[b]) => a = b
         /\ \A n \in 0 .. Cardinality(S) - 1 : \E a \in S : Cardinality(B[a]) = n
<1> DEFINE N == Cardinality(S)
           card(a) == Cardinality(B[a])
<1>1. N \in Nat
  BY FS_CardinalityType
<1>2. \A a \in S : IsFiniteSet(B[a]) /\ card(a) \in Nat /\ card(a) < N
  <2> SUFFICES ASSUME NEW a \in S PROVE IsFiniteSet(B[a]) /\ card(a) \in Nat /\ card(a) < N
    OBVIOUS
  <2>1. B[a] \in SUBSET S /\ B[a] # S
    OBVIOUS
  <2>2. IsFiniteSet(B[a]) /\ card(a) <= N /\ card(a) # N
    BY <2>1, FS_Subset
  <2>3. card(a) \in Nat
    BY <2>2, FS_CardinalityType
  <2> HIDE DEF N, card
  <2> QED BY <1>1, <2>2, <2>3
<1>3. \A a, b \in S : a \in B[b] => card(a) < card(b)
  <2> SUFFICES ASSUME NEW a \in S, NEW b \in S, a \in B[b] PROVE card(a) < card(b)
    OBVIOUS
  <2>1. B[a] \in SUBSET B[b] /\ B[a] # B[b]
    OBVIOUS
  <2>2. card(a) <= card(b) /\ card(a) # card(b)
    BY <1>2, <2>1, FS_Subset
  <2> HIDE DEF card
  <2> QED BY <1>2, <2>2
<1>4. \A a, b \in S : card(a) = card(b) => a = b
  <2> SUFFICES ASSUME NEW a \in S, NEW b \in S, card(a) = card(b) PROVE a = b
    OBVIOUS
  <2>1. card(a) \in Nat
    BY <1>2
  <2>2. ~(card(a) < card(b)) /\ ~(card(b) < card(a))
    BY <2>1
  <2> QED BY <1>3, <2>2
<1>5. \A a, b \in S : card(a) < card(b) => a \in B[b]
  <2> SUFFICES ASSUME NEW a \in S, NEW b \in S, card(a) < card(b) PROVE a \in B[b]
    OBVIOUS
  <2>1. card(a) \in Nat /\ card(b) \in Nat
    BY <1>2
  <2>2. a # b /\ ~(card(b) < card(a))
    BY <2>1
  <2> QED BY <1>3, <2>2
<1>6. \A n \in 0 .. N - 1 : \E a \in S : card(a) = n
  <2> DEFINE f == [a \in S |-> card(a)]
             T == 0 .. N - 1
  <2>1. f \in [S -> T]
    <3> HIDE DEF N, card
    <3> QED BY <1>1, <1>2
  <2>2. f \in Injection(S, T)
    BY <1>4, <2>1 DEF Injection, IsInjective
  <2>3. IsFiniteSet(T) /\ Cardinality(T) = N
    <3> HIDE DEF N
    <3>1. 0 \in Int /\ N - 1 \in Int
      BY <1>1
    <3>2. IsFiniteSet(T) /\ Cardinality(T) = IF 0 > N - 1 THEN 0 ELSE (N - 1) - 0 + 1
      BY <3>1, FS_Interval
    <3> QED BY <1>1, <3>2
  <2>4. f \in Surjection(S, T)
    BY <2>2, <2>3, FS_Injection
  <2>5. \A n \in T : \E a \in S : f[a] = n
    BY <2>4 DEF Surjection
  <2> QED BY <2>5
<1>7. \A a \in S : card(a) \in 0 .. N - 1
  <2> HIDE DEF N, card
  <2> QED BY <1>1, <1>2
<1> QED BY <1>3, <1>4, <1>5, <1>6, <1>7

-----------------------------------------------------------------------------
(* The counting sort. After it, a record's place in the index is the       *)
(* number of records that come before it: those of earlier connections,    *)
(* and those of its own at lower addresses.                                *)

Of(k)     == {a \in Stored : buf[a].conn = k}
Below(k)  == {a \in Stored : buf[a].conn < k}
Before(a) == {b \in Stored : \/ buf[b].conn < buf[a].conn
                             \/ buf[b].conn = buf[a].conn /\ b < a}
Place(a)  == Cardinality(Before(a))

(* The phases in which the buffer is full of what it will hold. *)
Sorts == {"walk", "count", "starts", "place", "print"}

SortRange ==
  pc \in Sorting \cup {"print"} =>
    total = Cardinality(Stored) /\ DOMAIN index = 0 .. total - 1

(* The first pass counts the records of each connection.                   *)
Counted == pc = "count" => \A k \in ConnIds : count[k] = Cardinality(Of(k) \cap Passed)

(* The sums: up to c, a connection's first place; from c on, its count.    *)
Started ==
  pc = "starts" =>
    /\ c <= Connections /\ start = Cardinality(Below(c))
    /\ \A k \in ConnIds :
         count[k] = IF k < c THEN Cardinality(Below(k)) ELSE Cardinality(Of(k))

(* The second pass puts each record it has passed at its place.            *)
Placed ==
  /\ pc = "place" =>
       /\ \A k \in ConnIds : count[k] = Cardinality(Below(k)) + Cardinality(Of(k) \cap Passed)
       /\ \A a \in Passed : index[Place(a)] = a - base
  /\ pc = "print" => \A a \in Stored : index[Place(a)] = a - base

SortInv == SortRange /\ Counted /\ Started /\ Placed

LEMMA StoredTypes ==
  ASSUME IInv, pc \in Sorts
  PROVE  /\ Stored \subseteq Nat /\ base \in Nat /\ Connections \in Nat
         /\ \A a \in Stored : buf[a].conn \in ConnIds /\ buf[a].conn \in Nat
<1>1. pc \in BufferPhases
  BY DEF Sorts, BufferPhases
<1>2. Connections \in Nat
  BY CountTypes
<1>3. ConnIds \subseteq Nat
  BY <1>2 DEF ConnIds
<1>4. Stored \subseteq Nat /\ \A a \in Stored : buf[a] \in Record
  BY <1>1 DEF IInv, TypeOK, BufferTypes, Stored
<1>5. \A a \in Stored : buf[a].conn \in ConnIds
  BY <1>4 DEF Record
<1> QED BY <1>1, <1>2, <1>3, <1>4, <1>5, AtBase

(* Places are numbered from 0 without a gap, in the order of the sort. *)
LEMMA Places ==
  ASSUME IInv, pc \in Sorts, IsFiniteSet(Stored)
  PROVE  /\ \A a \in Stored : Place(a) \in 0 .. Cardinality(Stored) - 1
         /\ \A a, b \in Stored : Place(a) < Place(b) <=> a \in Before(b)
         /\ \A a, b \in Stored : Place(a) = Place(b) => a = b
         /\ \A n \in 0 .. Cardinality(Stored) - 1 : \E a \in Stored : Place(a) = n
<1> DEFINE B == [a \in Stored |-> Before(a)]
<1>1. B \in [Stored -> SUBSET Stored]
  BY DEF Before
<1> DEFINE k(a) == buf[a].conn
<1>2. \A a \in Stored : a \in Nat /\ k(a) \in Nat
  BY StoredTypes
<1>3. \A a, b \in Stored : a \in B[b] <=> k(a) < k(b) \/ (k(a) = k(b) /\ a < b)
  BY DEF Before
<1> HIDE DEF k, B
<1>4. \A a \in Stored : a \notin B[a]
  BY ONLY <1>2, <1>3
<1>5. \A a, b \in Stored : a = b \/ a \in B[b] \/ b \in B[a]
  BY ONLY <1>2, <1>3
<1>6. \A a, b \in Stored : a \in B[b] => B[a] \subseteq B[b]
  <2> SUFFICES ASSUME NEW a \in Stored, NEW b \in Stored, a \in B[b], NEW d \in B[a]
               PROVE  d \in B[b]
    OBVIOUS
  <2>1. d \in Stored
    BY <1>1
  <2> QED BY <1>2, <1>3, <2>1
<1>7. \A a \in Stored : Place(a) = Cardinality(B[a])
  BY DEF Place, B
<1>8. /\ \A a \in Stored : Cardinality(B[a]) \in 0 .. Cardinality(Stored) - 1
      /\ \A a, b \in Stored : a \in B[b] <=> Cardinality(B[a]) < Cardinality(B[b])
      /\ \A a, b \in Stored : Cardinality(B[a]) = Cardinality(B[b]) => a = b
      /\ \A n \in 0 .. Cardinality(Stored) - 1 : \E a \in Stored : Cardinality(B[a]) = n
  BY <1>1, <1>4, <1>5, <1>6, Ranks, Zenon
<1>9. \A a, b \in Stored : a \in B[b] <=> a \in Before(b)
  BY DEF B
<1> QED BY ONLY <1>7, <1>8, <1>9

LEMMA DisjointSum ==
  ASSUME NEW S, NEW T, NEW U, IsFiniteSet(U), S \subseteq U, T \subseteq U, S \cap T = {}
  PROVE  /\ Cardinality(S \cup T) = Cardinality(S) + Cardinality(T)
         /\ Cardinality(S) \in Nat /\ Cardinality(T) \in Nat
<1>1. IsFiniteSet(S) /\ IsFiniteSet(T)
  BY FS_Subset
<1>2. Cardinality(S \cup T) = Cardinality(S) + Cardinality(T) - Cardinality(S \cap T)
  BY <1>1, FS_Union
<1>3. Cardinality(S \cap T) = 0
  BY FS_EmptySet
<1>4. Cardinality(S) \in Nat /\ Cardinality(T) \in Nat
  BY <1>1, FS_CardinalityType
<1> QED BY ONLY <1>2, <1>3, <1>4

(* A place is counted from the connection's first one. *)
LEMMA PlaceSplits ==
  ASSUME IInv, pc \in Sorts, IsFiniteSet(Stored), NEW a \in Stored
  PROVE  Place(a) = Cardinality(Below(buf[a].conn))
                      + Cardinality({b \in Of(buf[a].conn) : b < a})
<1> DEFINE S == Below(buf[a].conn)
           T == {b \in Of(buf[a].conn) : b < a}
<1>1. Before(a) = S \cup T
  BY DEF Before, Below, Of
<1>2. \A b \in Stored : buf[b].conn \in Nat
  BY StoredTypes
<1>3. S \cap T = {} /\ S \subseteq Stored /\ T \subseteq Stored
  BY <1>2 DEF Below, Of
<1>4. Cardinality(S \cup T) = Cardinality(S) + Cardinality(T)
  <2> HIDE DEF S, T
  <2> QED BY <1>3, DisjointSum
<1> QED BY <1>1, <1>4 DEF Place

(* The first place of the next connection. *)
LEMMA BelowNext ==
  ASSUME IInv, pc \in Sorts, IsFiniteSet(Stored), NEW k \in Nat
  PROVE  Cardinality(Below(k + 1)) = Cardinality(Below(k)) + Cardinality(Of(k))
<1>1. \A b \in Stored : buf[b].conn \in Nat
  BY StoredTypes
<1>2. Below(k + 1) = Below(k) \cup Of(k)
  BY <1>1 DEF Below, Of
<1>3. Below(k) \cap Of(k) = {} /\ Below(k) \subseteq Stored /\ Of(k) \subseteq Stored
  BY <1>1 DEF Below, Of
<1> QED BY <1>2, <1>3, DisjointSum

(* A record that a pass steps over is one more of its connection's. *)
LEMMA OneMore ==
  ASSUME IInv, pc \in {"count", "place"}, IsFiniteSet(Stored), r < rec_next,
         buf' = buf, r' = r + buf[r].words, NEW k
  PROVE  Cardinality(Of(k) \cap Passed')
           = IF k = buf[r].conn THEN Cardinality(Of(k) \cap Passed) + 1
                                ELSE Cardinality(Of(k) \cap Passed)
<1>1. r \in Stored /\ r \notin Passed /\ Passed' = Passed \cup {r}
  BY PassOne
<1>2. CASE k = buf[r].conn
  <2>1. Of(k) \cap Passed' = (Of(k) \cap Passed) \cup {r}
    BY <1>1, <1>2 DEF Of
  <2>2. r \notin Of(k) \cap Passed /\ Of(k) \cap Passed \subseteq Stored
    BY <1>1 DEF Of
  <2>3. IsFiniteSet(Of(k) \cap Passed)
    BY <2>2, FS_Subset
  <2> QED BY <1>2, <2>1, <2>2, <2>3, FS_AddElement
<1>3. CASE k # buf[r].conn
  <2>1. Of(k) \cap Passed' = Of(k) \cap Passed
    BY <1>1, <1>3 DEF Of
  <2> QED BY <1>3, <2>1
<1> QED BY <1>2, <1>3

LEMMA BufferStays ==
  ASSUME buf' = buf
  PROVE  /\ Stored' = Stored
         /\ \A k : Of(k)' = Of(k) /\ Below(k)' = Below(k)
         /\ \A a : Place(a)' = Place(a)
<1>1. Stored' = Stored
  BY DEF Stored
<1>2. \A k : Of(k)' = Of(k) /\ Below(k)' = Below(k)
  BY <1>1 DEF Of, Below
<1>3. \A a : Before(a)' = Before(a)
  BY <1>1 DEF Before
<1> QED BY <1>1, <1>2, <1>3 DEF Place

LEMMA SortRoomStep == IInv /\ CountInv /\ SortRoom => SortInv'
<1> SUFFICES ASSUME IInv, CountInv, SortRoom PROVE SortInv'
  OBVIOUS
<1>1. /\ pc = "walk" /\ r = rec_next /\ total' = total /\ UNCHANGED <<img, h_end, buf>>
      /\ \/ pc' = "done"
         \/ /\ pc' = "count" /\ r' = base
            /\ count' = [k \in ConnIds |-> 0]
            /\ index' = [k \in 0 .. total - 1 |-> Unset]
  BY DEF SortRoom, bufVars, chunkVars, Exit
<1>2. ConnIds' = ConnIds /\ Stored' = Stored /\ base' = base
  BY <1>1, LayoutStays, BufferStays
<1>3. Passed = Stored
  BY <1>1, PassAll DEF BufferPhases
<1>4. total' = Cardinality(Stored')
  BY <1>1, <1>2, <1>3 DEF CountInv, WalkCount
<1>5. ASSUME pc' = "count" PROVE Passed' = {}
  <2>1. {a \in Stored : a < base} = {}
    BY <1>1, PassNone DEF BufferPhases
  <2> QED BY <1>1, <1>2, <1>5, <2>1 DEF Passed
<1>6. SortRange'
  BY <1>1, <1>4 DEF SortRange, Sorting
<1>7. Counted'
  <2> SUFFICES ASSUME pc' = "count", NEW k \in ConnIds
               PROVE  count'[k] = Cardinality(Of(k)' \cap Passed')
    BY <1>2 DEF Counted
  <2>1. Of(k)' \cap Passed' = {}
    BY <1>5
  <2> QED BY <1>1, <2>1, FS_EmptySet
<1> QED BY <1>1, <1>6, <1>7 DEF SortInv, Started, Placed

LEMMA CountRecordStep == IInv /\ CountInv /\ SortInv /\ CountRecord => SortInv'
<1> SUFFICES ASSUME IInv, CountInv, SortInv, CountRecord PROVE SortInv'
  OBVIOUS
<1>1. /\ pc = "count" /\ pc' = "count" /\ r < rec_next /\ r' = r + buf[r].words
      /\ count' = [count EXCEPT ![buf[r].conn] = @ + 1]
      /\ UNCHANGED <<img, h_end, buf, total, index>>
  BY DEF CountRecord, bufVars, chunkVars
<1>2. ConnIds' = ConnIds /\ Stored' = Stored /\ \A k : Of(k)' = Of(k)
  BY <1>1, LayoutStays, BufferStays
<1>3. buf[r].conn \in ConnIds /\ count \in [ConnIds -> Nat]
  BY <1>1, OnRecord DEF IInv, TypeOK, SortTypes
<1>4. \A k \in ConnIds : count[k] = Cardinality(Of(k) \cap Passed)
  BY <1>1 DEF SortInv, Counted
<1>5. \A k \in ConnIds : count'[k] = Cardinality(Of(k) \cap Passed')
  <2> SUFFICES ASSUME NEW k \in ConnIds PROVE count'[k] = Cardinality(Of(k) \cap Passed')
    OBVIOUS
  <2>1. Cardinality(Of(k) \cap Passed')
        = IF k = buf[r].conn THEN Cardinality(Of(k) \cap Passed) + 1
                             ELSE Cardinality(Of(k) \cap Passed)
    BY <1>1, OneMore DEF CountInv, FillCount
  <2>2. count'[k] = IF k = buf[r].conn THEN count[k] + 1 ELSE count[k]
    BY <1>1, <1>3
  <2> QED BY <1>4, <2>1, <2>2
<1>6. SortRange' /\ Counted'
  BY <1>1, <1>2, <1>5 DEF SortInv, SortRange, Counted, Sorting
<1> QED BY <1>1, <1>6 DEF SortInv, Started, Placed

LEMMA CountEndsStep == IInv /\ CountInv /\ SortInv /\ CountEnds => SortInv'
<1> SUFFICES ASSUME IInv, CountInv, SortInv, CountEnds PROVE SortInv'
  OBVIOUS
<1>1. /\ pc = "count" /\ pc' = "starts" /\ r = rec_next /\ c' = 0 /\ start' = 0
      /\ UNCHANGED <<img, h_end, buf, total, index, count>>
  BY DEF CountEnds, bufVars, chunkVars
<1>2. /\ ConnIds' = ConnIds /\ Connections' = Connections /\ Stored' = Stored
      /\ \A k : Of(k)' = Of(k) /\ Below(k)' = Below(k)
  BY <1>1, LayoutStays, BufferStays
<1>3. /\ Connections \in Nat /\ \A a \in Stored : buf[a].conn \in Nat
  BY <1>1, StoredTypes DEF Sorts
<1>4. Passed = Stored
  BY <1>1, PassAll DEF BufferPhases
<1>5. \A k \in ConnIds : count[k] = Cardinality(Of(k))
  <2>1. \A k : Of(k) \cap Passed = Of(k)
    BY <1>4 DEF Of
  <2> QED BY <1>1, <2>1 DEF SortInv, Counted
<1>6. Below(0) = {}
  BY <1>3 DEF Below
<1>7. start' = Cardinality(Below(0))
  BY <1>1, <1>6, FS_EmptySet
<1>8. \A k \in ConnIds : ~(k < c')
  BY <1>1, <1>3 DEF ConnIds
<1>9. Started'
  BY <1>1, <1>2, <1>3, <1>5, <1>7, <1>8 DEF Started
<1> QED BY <1>1, <1>2, <1>9 DEF SortInv, SortRange, Counted, Placed, Sorting

LEMMA StartOfStep == IInv /\ CountInv /\ SortInv /\ StartOf => SortInv'
<1> SUFFICES ASSUME IInv, CountInv, SortInv, StartOf PROVE SortInv'
  OBVIOUS
<1>1. /\ pc = "starts" /\ pc' = "starts" /\ c < Connections /\ c' = c + 1
      /\ count' = [count EXCEPT ![c] = start] /\ start' = start + count[c]
      /\ UNCHANGED <<img, h_end, buf, total, index>>
  BY DEF StartOf, NextStart, bufVars, chunkVars
<1>2. /\ ConnIds' = ConnIds /\ Connections' = Connections /\ Stored' = Stored
      /\ \A k : Of(k)' = Of(k) /\ Below(k)' = Below(k)
  BY <1>1, LayoutStays, BufferStays
<1>3. Connections \in Nat /\ c \in Nat /\ count \in [ConnIds -> Nat]
  BY <1>1, CountTypes DEF IInv, TypeOK, SortTypes
<1>4. c \in ConnIds /\ c + 1 <= Connections /\ ConnIds \subseteq Nat
  BY <1>1, <1>3 DEF ConnIds
<1>5. /\ start = Cardinality(Below(c))
      /\ \A k \in ConnIds :
           count[k] = IF k < c THEN Cardinality(Below(k)) ELSE Cardinality(Of(k))
  BY <1>1 DEF SortInv, Started
<1>6. start' = Cardinality(Below(c + 1))
  <2>1. count[c] = Cardinality(Of(c))
    BY <1>3, <1>4, <1>5
  <2>2. Cardinality(Below(c + 1)) = Cardinality(Below(c)) + Cardinality(Of(c))
    BY <1>1, <1>3, BelowNext DEF Sorts, CountInv, FillCount
  <2> QED BY <1>1, <1>5, <2>1, <2>2
<1>7. \A k \in ConnIds :
        count'[k] = IF k < c + 1 THEN Cardinality(Below(k)) ELSE Cardinality(Of(k))
  <2> SUFFICES ASSUME NEW k \in ConnIds
               PROVE  count'[k] = IF k < c + 1 THEN Cardinality(Below(k))
                                               ELSE Cardinality(Of(k))
    OBVIOUS
  <2>1. CASE k = c
    BY <1>1, <1>3, <1>5, <2>1
  <2>2. CASE k # c
    <3>1. count'[k] = count[k]
      BY <1>1, <1>3, <2>2
    <3>2. k < c + 1 <=> k < c
      BY <1>3, <1>4, <2>2
    <3> QED BY <1>5, <3>1, <3>2
  <2> QED BY <2>1, <2>2
<1>8. Started'
  BY <1>1, <1>2, <1>4, <1>6, <1>7 DEF Started
<1> QED BY <1>1, <1>2, <1>8 DEF SortInv, SortRange, Counted, Placed, Sorting

LEMMA StartsEndStep == IInv /\ CountInv /\ SortInv /\ StartsEnd => SortInv'
<1> SUFFICES ASSUME IInv, CountInv, SortInv, StartsEnd PROVE SortInv'
  OBVIOUS
<1>1. /\ pc = "starts" /\ pc' = "place" /\ c = Connections /\ r' = base
      /\ UNCHANGED <<img, h_end, buf, total, index, count>>
  BY DEF StartsEnd, bufVars, chunkVars
<1>2. /\ ConnIds' = ConnIds /\ base' = base /\ Stored' = Stored
      /\ \A k : Of(k)' = Of(k) /\ Below(k)' = Below(k)
  BY <1>1, LayoutStays, BufferStays
<1>3. Passed' = {}
  <2>1. {a \in Stored : a < base} = {}
    BY <1>1, PassNone DEF BufferPhases
  <2> QED BY <1>1, <1>2, <2>1 DEF Passed
<1>4. Connections \in Nat /\ count \in [ConnIds -> Nat]
  BY <1>1, CountTypes DEF IInv, TypeOK, SortTypes
<1>5. \A k \in ConnIds : count[k] = Cardinality(Below(k)) + 0
  <2> SUFFICES ASSUME NEW k \in ConnIds PROVE count[k] = Cardinality(Below(k)) + 0
    OBVIOUS
  <2>1. k < c
    BY <1>1, <1>4 DEF ConnIds
  <2>2. count[k] = Cardinality(Below(k)) /\ count[k] \in Nat
    BY <1>1, <1>4, <2>1 DEF SortInv, Started
  <2> QED BY <2>2
<1>6. \A k : Cardinality(Of(k)' \cap Passed') = 0
  BY <1>3, FS_EmptySet
<1>7. Placed'
  BY <1>1, <1>2, <1>3, <1>5, <1>6 DEF Placed
<1> QED BY <1>1, <1>2, <1>7 DEF SortInv, SortRange, Counted, Started, Sorting

LEMMA PlaceRecordStep == IInv /\ CountInv /\ SortInv /\ PlaceRecord => SortInv'
<1> SUFFICES ASSUME IInv, CountInv, SortInv, PlaceRecord PROVE SortInv'
  OBVIOUS
<1> DEFINE k0 == buf[r].conn
<1>1. /\ pc = "place" /\ pc' = "place" /\ r < rec_next /\ r' = r + buf[r].words
      /\ index' = [index EXCEPT ![count[k0]] = r - base]
      /\ count' = [count EXCEPT ![k0] = @ + 1]
      /\ UNCHANGED <<img, h_end, buf, total>>
  BY DEF PlaceRecord, bufVars, chunkVars
<1>2. /\ ConnIds' = ConnIds /\ base' = base /\ Stored' = Stored
      /\ \A k : Of(k)' = Of(k) /\ Below(k)' = Below(k)
      /\ \A a : Place(a)' = Place(a)
  BY <1>1, LayoutStays, BufferStays
<1>3. k0 \in ConnIds /\ count \in [ConnIds -> Nat] /\ IsFiniteSet(Stored)
  BY <1>1, OnRecord DEF IInv, TypeOK, SortTypes, CountInv, FillCount
<1>4. /\ \A k \in ConnIds : count[k] = Cardinality(Below(k)) + Cardinality(Of(k) \cap Passed)
      /\ \A a \in Passed : index[Place(a)] = a - base
      /\ total = Cardinality(Stored) /\ DOMAIN index = 0 .. total - 1
  BY <1>1 DEF SortInv, Placed, SortRange, Sorting
<1>5. r \in Stored /\ r \notin Passed /\ Passed' = Passed \cup {r} /\ Passed \subseteq Stored
  BY <1>1, PassOne DEF Passed
<1>6. count[k0] = Place(r) /\ Place(r) \in DOMAIN index
  <2>1. {b \in Of(k0) : b < r} = Of(k0) \cap Passed
    BY DEF Of, Passed
  <2>2. Place(r) = Cardinality(Below(k0)) + Cardinality({b \in Of(k0) : b < r})
    BY <1>1, <1>3, <1>5, PlaceSplits DEF Sorts
  <2>3. Place(r) \in 0 .. total - 1
    BY <1>1, <1>3, <1>4, <1>5, Places DEF Sorts
  <2> QED BY <1>3, <1>4, <2>1, <2>2, <2>3
<1>7. \A k \in ConnIds : count'[k] = Cardinality(Below(k)) + Cardinality(Of(k) \cap Passed')
  <2> SUFFICES ASSUME NEW k \in ConnIds
               PROVE  count'[k] = Cardinality(Below(k)) + Cardinality(Of(k) \cap Passed')
    OBVIOUS
  <2> DEFINE x == Cardinality(Below(k))
             y == Cardinality(Of(k) \cap Passed)
  <2>1. Cardinality(Of(k) \cap Passed') = IF k = k0 THEN y + 1 ELSE y
    BY <1>1, <1>3, OneMore
  <2>2. count'[k] = IF k = k0 THEN count[k] + 1 ELSE count[k]
    BY <1>1, <1>3
  <2>3. x \in Nat /\ y \in Nat
    <3>1. Below(k) \subseteq Stored /\ Of(k) \cap Passed \subseteq Stored
      BY DEF Below, Of
    <3> QED BY <1>3, <3>1, FS_Subset, FS_CardinalityType
  <2>4. count[k] = x + y
    BY <1>4
  <2> HIDE DEF x, y, k0
  <2>5. CASE k = k0
    BY <2>1, <2>2, <2>3, <2>4, <2>5 DEF x
  <2>6. CASE k # k0
    BY <2>1, <2>2, <2>4, <2>6 DEF x
  <2> QED BY <2>5, <2>6
<1>8. \A a \in Passed' : index'[Place(a)] = a - base
  <2> SUFFICES ASSUME NEW a \in Passed' PROVE index'[Place(a)] = a - base
    OBVIOUS
  <2>1. CASE a = r
    BY <1>1, <1>6, <2>1
  <2>2. CASE a \in Passed
    <3>1. a # r /\ a \in Stored
      BY <1>5, <2>2
    <3>2. Place(a) # Place(r)
      BY <1>1, <1>3, <1>5, <3>1, Places DEF Sorts
    <3>3. index'[Place(a)] = index[Place(a)]
      <4>1. Place(a) \in DOMAIN index
        BY <1>1, <1>3, <1>4, <3>1, Places DEF Sorts
      <4> QED BY <1>1, <1>6, <3>2, <4>1
    <3> QED BY <1>4, <2>2, <3>3
  <2> QED BY <1>5, <2>1, <2>2
<1>9. DOMAIN index' = 0 .. total' - 1
  BY <1>1, <1>4
<1>10. Placed'
  BY <1>1, <1>2, <1>7, <1>8 DEF Placed
<1>11. SortRange'
  BY <1>1, <1>2, <1>4, <1>9 DEF SortRange
<1> QED BY <1>1, <1>10, <1>11 DEF SortInv, Counted, Started

LEMMA SortStep == IInv /\ CountInv /\ SortInv /\ Next => SortInv'
<1> SUFFICES ASSUME IInv, CountInv, SortInv, Next PROVE SortInv'
  OBVIOUS
<1>1. CASE PutHeader
  <2>1. /\ pc = "place" /\ pc' = "print" /\ r = rec_next
        /\ UNCHANGED <<img, h_end, buf, total, index>>
    BY <1>1 DEF PutHeader, bufVars, chunkVars, sortVars
  <2>2. base' = base /\ Stored' = Stored /\ \A a : Place(a)' = Place(a)
    BY <2>1, LayoutStays, BufferStays
  <2>3. Passed = Stored
    BY <2>1, PassAll DEF BufferPhases
  <2> QED BY <2>1, <2>2, <2>3 DEF SortInv, SortRange, Counted, Started, Placed, Sorting
<1>2. CASE pc' \notin Sorting \cup {"print"}
  BY <1>2 DEF SortInv, SortRange, Counted, Started, Placed, Sorting
<1>3. CASE pc = "print" /\ pc' = "print" /\ UNCHANGED <<img, h_end, buf, total, index>>
  <2>1. base' = base /\ Stored' = Stored /\ \A a : Place(a)' = Place(a)
    BY <1>3, LayoutStays, BufferStays
  <2> QED BY <1>3, <2>1 DEF SortInv, SortRange, Counted, Started, Placed, Sorting
<1>4. \/ SortRoom \/ CountRecord \/ CountEnds \/ StartOf \/ StartsEnd \/ PlaceRecord \/ PutHeader
      \/ pc' \notin Sorting \cup {"print"}
      \/ pc = "print" /\ pc' = "print" /\ UNCHANGED <<img, h_end, buf, total, index>>
  BY DEF Next, CheckHeader, CheckChunk, CheckPayload, Setup, DecoderChunk, InputEnds,
         DecoderEnd, WindowCloses, WalkRecord, PutRecord, MisreadRecord, PutEnd, Done,
         vars, chunkVars, bufVars, sortVars, Exit, Sorting
<1> QED BY <1>1, <1>2, <1>3, <1>4, SortRoomStep, CountRecordStep, CountEndsStep, StartOfStep,
           StartsEndStep, PlaceRecordStep

LEMMA SortStutter == SortInv /\ UNCHANGED vars => SortInv'
<1> SUFFICES ASSUME SortInv, UNCHANGED vars PROVE SortInv'
  OBVIOUS
<1>1. UNCHANGED <<img, pc, h_end, buf, c, r, total, count, start, index>>
  BY DEF vars, chunkVars, bufVars, sortVars
<1>2. /\ Connections' = Connections /\ ConnIds' = ConnIds /\ base' = base /\ Stored' = Stored
      /\ \A k : Of(k)' = Of(k) /\ Below(k)' = Below(k)
      /\ \A a : Place(a)' = Place(a)
  BY <1>1, LayoutStays, BufferStays
<1>3. Passed' = Passed
  BY <1>1, <1>2 DEF Passed
<1> QED BY <1>1, <1>2, <1>3 DEF SortInv, SortRange, Counted, Started, Placed

(* What the index holds, place by place. *)
LEMMA Indexed ==
  ASSUME IInv, CountInv, SortInv, pc = "print"
  PROVE  /\ total = Cardinality(Stored)
         /\ \A j \in 0 .. total - 1 : /\ base + index[j] \in Stored
                                      /\ Place(base + index[j]) = j
         /\ \A a \in Stored : Place(a) \in 0 .. total - 1 /\ base + index[Place(a)] = a
<1>1. total = Cardinality(Stored) /\ \A a \in Stored : index[Place(a)] = a - base
  BY DEF SortInv, SortRange, Placed
<1>2. Stored \subseteq Nat /\ base \in Nat /\ IsFiniteSet(Stored)
  BY StoredTypes DEF Sorts, CountInv, FillCount
<1>3. \A a \in Stored : base + index[Place(a)] = a
  BY <1>1, <1>2
<1>4. /\ \A a \in Stored : Place(a) \in 0 .. total - 1
      /\ \A n \in 0 .. total - 1 : \E a \in Stored : Place(a) = n
  BY <1>1, <1>2, Places DEF Sorts
<1> QED BY <1>1, <1>3, <1>4

(* When printing starts, the index lists every record in the buffer once,   *)
(* by connection and within one in the order they were written, for every  *)
(* set of images and every number of connections.                          *)
THEOREM SortCorrect == Spec => []SortedStably
<1>1. IInv /\ CountInv /\ SortInv => SortedStably
  <2> SUFFICES ASSUME IInv, CountInv, SortInv, pc = "print" PROVE SortedStably
    BY DEF SortedStably
  <2>1. /\ \A j \in 0 .. total - 1 : base + index[j] \in Stored /\ Place(base + index[j]) = j
        /\ \A a \in Stored : Place(a) \in 0 .. total - 1 /\ base + index[Place(a)] = a
    BY Indexed
  <2>2. { base + index[j] : j \in 0 .. total - 1 } = Stored
    BY <2>1
  <2>3. ASSUME NEW j \in 1 .. total - 1
        PROVE  base + index[j - 1] \in Before(base + index[j])
    <3>1. j - 1 \in 0 .. total - 1 /\ j \in 0 .. total - 1 /\ j - 1 < j
      BY CountTypes
    <3>2. /\ base + index[j - 1] \in Stored /\ base + index[j] \in Stored
          /\ Place(base + index[j - 1]) < Place(base + index[j])
      BY <2>1, <3>1
    <3> QED BY <3>2, Places DEF Sorts, CountInv, FillCount
  <2> QED BY <2>2, <2>3 DEF SortedStably, Stored, Before
<1>2. Init => SortInv
  BY DEF Init, SortInv, SortRange, Counted, Started, Placed, Sorting
<1>3. IInv /\ CountInv /\ SortInv /\ [Next]_vars => SortInv'
  BY SortStep, SortStutter
<1>4. IInv /\ CountInv /\ [Next]_vars => CountInv'
  BY FillStep, WalkStep, LineStep, StutterCount DEF CountInv
<1> QED BY <1>1, <1>2, <1>3, <1>4, InitCount, Invariance, PTL DEF Spec
==============================================================================
