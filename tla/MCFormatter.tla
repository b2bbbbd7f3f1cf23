----------------------------- MODULE MCFormatter -----------------------------
(***************************************************************************)
(* Records for TLC: every record of a few arbitrary words, and every       *)
(* record that records.h's writers lay out with as many fields as f holds, *)
(* and some with one field more.                                           *)
(***************************************************************************)
EXTENDS Formatter, SequencesExt

(* One word of each kind the parse tells apart, among them two ids of one  *)
(* kind, hex headers that reach to, short of and past a record's end, and  *)
(* the three faults a header can have.                                     *)
Word(id, mid, hi) == [id |-> id, mid |-> mid, hi |-> hi]
AnyWord == { Word(F_AT, 0, 0), Word(F_LEN, 0, 0), Word(F_ODOMETER, 0, 0),
             Word(F_BYTES, 0, 0), Word(F_BYTES, 0, 8), Word(F_BYTES, 0, 9),
             Word(F_BYTES, 0, Half - 1),
             Word(F_COUNT, 0, 0), Word(F_AT, 1, 0), Word(F_LEN, 0, 1) }

Rec(words, body) ==
  [words |-> words, type |-> 65535, protocol |-> PROTO_GT06, status |-> ST_STUB,
   at |-> [k \in 2 .. Len(body) + 1 |-> body[k - 1]]]

(* The word after the record is memory that belongs to someone else. *)
Arbitrary == { Rec(n, s) : n \in 2 .. 4, s \in [1 .. 3 -> AnyWord] }

Heads == { [Rec(2, <<>>) EXCEPT !.type = t, !.protocol = q, !.status = s] :
             t \in {0, 255, 256, 65533, 65534, 65535}, q \in 0 .. 3, s \in 5 .. 7 }

(* What the field writers lay out, one sequence of words for each field. *)
Value == Word(F_COUNT, 255, Half - 1)   \* a value word, never a header
Layout(field) == << Word(field.id, field.mid, field.hi) >>
                   \o [k \in 1 .. field.span - 1 |-> Value]
Writes == { rec_u32(id, 0) : id \in {F_AT, F_LAT, F_LEN} }
            \cup { rec_hex(F_DEVICE, 0, n) : n \in {0, 1, 8, 9, 17} }
            \cup { rec_u64(F_ODOMETER, 0) }
WrittenBody(fs) == FlattenSeq([k \in 1 .. Len(fs) |-> Layout(fs[k])])
Records_(sequences) ==
  { LET body == WrittenBody(fs) IN Rec(2 + Len(body), body) : fs \in sequences }
Written  == Records_(SeqOf(Writes, MAX_FIELDS))
Overfull == Records_([1 .. MAX_FIELDS + 1 -> { rec_u32(F_AT, 0), rec_hex(F_DEVICE, 0, 0) }])

MCCandidates == Arbitrary \cup Heads \cup Written \cup Overfull

(* put_record returns: its loops end on every record. *)
Returns == <>(pc = "done")
==============================================================================
