------------------------------- MODULE Records -------------------------------
(***************************************************************************)
(* The record buffer's layout: what records.h writes and how the formatter *)
(* of harness.c measures it again.                                         *)
(*                                                                         *)
(* A field is kept as the parts of its header word (id in bits 0-7, mid in *)
(* bits 8-15, hi in bits 16-31), the words the writer stored (span) and    *)
(* the value it stored (val, a number, or the address of the copied bytes).*)
(***************************************************************************)
EXTENDS Integers, Sequences, FiniteSets

(* The protocol codes of stimulus.bin's table. *)
PROTO_GT06  == 1
PROTO_JT808 == 2

(* Field ids: the position of the name in alphabetical order. *)
F_AT     == 5
F_BYTES  == 7
F_DEVICE == 10
F_LAT    == 20
F_LEN    == 21
F_ODOMETER == 25
F_TEXT   == 33
F_COUNT  == 37

Half == 65536      \* a 16-bit half of a word holds 0 .. Half - 1

(* The kind of a field's value follows from its id alone. *)
IsHex(id) == id \in {F_BYTES, F_DEVICE, F_TEXT}
IsU64(id) == id = F_ODOMETER

(* Words that hold n bytes, zero-padded. *)
WordsFor(n) == (n + 3) \div 4

\* Mutant: an odd digit count loses its last byte.
field_words_EvenOnly(f) ==
    IF IsHex(f.id) THEN 1 + WordsFor(f.hi \div 2)
    ELSE IF IsU64(f.id) THEN 3
    ELSE 2

(* The words the formatter steps over for a field, from its header word. *)
field_words(f) ==
    IF IsHex(f.id) THEN 1 + WordsFor((f.hi + 1) \div 2)
    ELSE IF IsU64(f.id) THEN 3
    ELSE 2

(* What the field writers store. rec_hex shifts the digit count into the   *)
(* upper half of the header word, so only its low 16 bits are kept.        *)
rec_u32(id, value) == [id |-> id, mid |-> 0, hi |-> 0, span |-> 2, val |-> value]

rec_u64(id, value) == [id |-> id, mid |-> 0, hi |-> 0, span |-> 3, val |-> value]

rec_hex(id, bytes, nibbles) ==
    [id |-> id, mid |-> 0, hi |-> nibbles % Half,
     span |-> 1 + WordsFor((nibbles + 1) \div 2), val |-> bytes]

(* The formatter finds the next field where the writer put it. *)
StepsExactly(f) == field_words(f) = f.span

(* A stable sort by id: the field that goes to place k has exactly k - 1   *)
(* fields before it, where equal ids keep the order they were written in.  *)
SortById(fs) ==
    LET before(i) == { j \in 1..Len(fs) : \/ fs[j].id < fs[i].id
                                          \/ fs[j].id = fs[i].id /\ j < i }
    IN  [k \in 1..Len(fs) |->
            fs[CHOOSE i \in 1..Len(fs) : Cardinality(before(i)) = k - 1]]

(* A set of numbers in ascending order. *)
InOrder(S) == [m \in 1 .. Cardinality(S) |->
                 CHOOSE a \in S : Cardinality({ b \in S : b < a }) = m - 1]

(* The text of a field: its name, its value, and how many hex digits. *)
Shown(f) == [id |-> f.id, val |-> f.val, digits |-> f.hi]
==============================================================================
