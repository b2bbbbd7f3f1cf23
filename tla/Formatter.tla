------------------------------ MODULE Formatter ------------------------------
(***************************************************************************)
(* The formatter's put_record() (bench/decoder/harness.c) over any words a *)
(* decoder could leave in the record buffer: it checks a record, finds its *)
(* fields, sorts them by id with an insertion sort, and prints them.       *)
(*                                                                         *)
(* A word is seen as [id, mid, hi], its bits 0-7, 8-15 and 16-31; word k   *)
(* of the record is at[k]. Printing a field shows its place and id.        *)
(***************************************************************************)
EXTENDS Records

CONSTANTS
  Candidates,  \* the records to format: words, type, protocol, status, at
  MAX_FIELDS   \* the size of the array f

ASSUME MaxFieldsAssumption == MAX_FIELDS \in Nat \ {0}

(* A record's length counts its words, and a word's parts are numbers. *)
ASSUME CandidatesAssumption ==
  \A c \in Candidates :
    /\ c.words \in Nat
    /\ \A k \in 2 .. c.words - 1 : c.at[k].id \in 0 .. 255 /\ c.at[k].hi \in 0 .. Half - 1

ST_STUB       == 6
TYPE_SENTENCE == 65534

VARIABLES
  rec,      \* the record r points to; never changes
  pc,
  w,        \* the word the parse is at
  f,        \* the fields found: the word each starts at; C's f[k] is f[k + 1]
  i, j, x,  \* the insertion sort
  shown,    \* the fields printed, by the word each starts at
  refused   \* what is wrong with the record, or ""

vars == <<rec, pc, w, f, i, j, x, shown, refused>>

Header(k) == rec.at[k]
Id(k)     == rec.at[k].id
Words(k)  == field_words(rec.at[k])

Init ==
  /\ rec \in Candidates
  /\ pc = "head" /\ w = 2 /\ f = <<>>
  /\ i = 0 /\ j = 0 /\ x = 0
  /\ shown = <<>> /\ refused = ""

Refuse(why) == refused' = why /\ pc' = "done"

HeadFault ==
  IF rec.protocol \notin {PROTO_GT06, PROTO_JT808} THEN "protocol"
  ELSE IF rec.status > ST_STUB THEN "status"
  ELSE IF rec.protocol = PROTO_GT06 /\ rec.type > 255 /\ rec.type < TYPE_SENTENCE
    THEN "type"
  ELSE ""

CheckHead ==
  /\ pc = "head"
  /\ IF HeadFault # "" THEN Refuse(HeadFault)
     ELSE pc' = "parse" /\ UNCHANGED refused
  /\ UNCHANGED <<rec, w, f, i, j, x, shown>>

\* Mutant: the array's size is not looked at.
FieldFault_NoLimit(h) ==
  IF h.id >= F_COUNT THEN "field id"
  ELSE IF h.mid # 0 \/ (~IsHex(h.id) /\ h.hi # 0) THEN "field header"
  ELSE ""

FieldFault(h) ==
  IF h.id >= F_COUNT \/ Len(f) = MAX_FIELDS THEN "field id"
  ELSE IF h.mid # 0 \/ (~IsHex(h.id) /\ h.hi # 0) THEN "field header"
  ELSE ""

ParseField ==
  /\ pc = "parse" /\ w < rec.words
  /\ IF FieldFault(Header(w)) # "" THEN Refuse(FieldFault(Header(w))) /\ UNCHANGED <<w, f>>
     ELSE /\ f' = Append(f, w)
          /\ w' = w + Words(w)
          /\ UNCHANGED <<pc, refused>>
  /\ UNCHANGED <<rec, i, j, x, shown>>

\* Mutant: a last field may end past its record.
Overruns_Unchecked == FALSE

Overruns == w # rec.words

ParseEnds ==
  /\ pc = "parse" /\ w >= rec.words
  /\ IF Overruns THEN Refuse("overrun") /\ UNCHANGED i
     ELSE pc' = "sort" /\ i' = 1 /\ UNCHANGED refused
  /\ UNCHANGED <<rec, w, f, j, x, shown>>

\* Mutants: the last field is left out; j stays.
Unsorted_ButLast == i < Len(f) - 1
NextJ_Same == j

Unsorted      == i < Len(f)
Greater(a, b) == Id(a) > Id(b)
NextJ         == j - 1

(* for (i = 1; i < n; i++): take x = f[i], shift greater ids up, drop x. *)
Take ==
  /\ pc = "sort" /\ Unsorted
  /\ x' = f[i + 1] /\ j' = i /\ pc' = "shift"
  /\ UNCHANGED <<rec, w, f, i, shown, refused>>

Shift ==
  /\ pc = "shift" /\ j # 0 /\ Greater(f[j], x)
  /\ f' = [f EXCEPT ![j + 1] = f[j]]
  /\ j' = NextJ
  /\ UNCHANGED <<rec, pc, w, i, x, shown, refused>>

Drop ==
  /\ pc = "shift" /\ ~(j # 0 /\ Greater(f[j], x))
  /\ f' = [f EXCEPT ![j + 1] = x]
  /\ i' = i + 1 /\ pc' = "sort"
  /\ UNCHANGED <<rec, w, j, x, shown, refused>>

SortEnds ==
  /\ pc = "sort" /\ ~Unsorted
  /\ pc' = "print" /\ i' = 0
  /\ UNCHANGED <<rec, w, f, j, x, shown, refused>>

PrintField ==
  /\ pc = "print" /\ i < Len(f)
  /\ shown' = Append(shown, f[i + 1])
  /\ i' = i + 1
  /\ UNCHANGED <<rec, pc, w, f, j, x, refused>>

PrintEnds ==
  /\ pc = "print" /\ i = Len(f)
  /\ pc' = "done"
  /\ UNCHANGED <<rec, w, f, i, j, x, shown, refused>>

Done == pc = "done" /\ UNCHANGED vars

Next == \/ CheckHead \/ ParseField \/ ParseEnds
        \/ Take \/ Shift \/ Drop \/ SortEnds
        \/ PrintField \/ PrintEnds
        \/ Done

Spec     == Init /\ [][Next]_vars
FairSpec == Spec /\ WF_vars(Next)

-----------------------------------------------------------------------------
(* Types: f never holds more entries than its array has. *)
TypeOK ==
  /\ pc \in {"head", "parse", "sort", "shift", "print", "done"}
  /\ w \in Nat /\ i \in Nat /\ j \in 0 .. MAX_FIELDS /\ x \in Nat
  /\ f \in Seq(Nat) /\ Len(f) <= MAX_FIELDS
  /\ shown \in Seq(Nat)
  /\ refused \in {"", "protocol", "status", "type", "field id", "field header", "overrun"}

(* The words of the field that starts at word k. *)
Extent(k) == k .. k + Words(k) - 1

(* Every word after the head belongs to one of these fields, and to one    *)
(* only; and they have no other.                                           *)
Tiles(fields) ==
  /\ UNION {Extent(fields[k]) : k \in 1 .. Len(fields)} = 2 .. rec.words - 1
  /\ \A k, m \in 1 .. Len(fields) : k # m => Extent(fields[k]) \cap Extent(fields[m]) = {}

(* Once the parse has accepted a record, every word the printing reads is  *)
(* inside it, and no word after the head belongs to two fields or to none. *)
FieldsTileRecord == pc \in {"sort", "print"} => Tiles(f)

(* By id, and in the order written within an id. *)
Before(a, b) == Id(a) < Id(b) \/ (Id(a) = Id(b) /\ a < b)

(* A record that is printed prints each of its fields once, by id, and in  *)
(* the order written within an id.                                         *)
PrintedInOrder ==
  pc = "done" /\ refused = "" =>
    /\ Tiles(shown)
    /\ \A a, b \in 1 .. Len(shown) : a < b => Before(shown[a], shown[b])

(* What the writer of its id's kind stores, for a field with header h. *)
WrittenAs(h) ==
  IF IsHex(h.id) THEN rec_hex(h.id, 0, h.hi)
  ELSE IF IsU64(h.id) THEN rec_u64(h.id, 0)
  ELSE rec_u32(h.id, 0)

(* The writers lay fields end to end from the head to the record's end,    *)
(* as many as f has room for, and no value is wider than its header can    *)
(* state. A field starts at each word of `starts`.                         *)
LaysOut(starts) ==
  /\ Cardinality(starts) <= MAX_FIELDS
  /\ 2 \in starts \cup {rec.words}
  /\ \A k \in starts :
       LET field == WrittenAs(Header(k)) IN
       /\ field.id < F_COUNT /\ field.mid = Header(k).mid /\ field.hi = Header(k).hi
       /\ k + field.span \in starts \cup {rec.words}

IsWritten == HeadFault = "" /\ \E starts \in SUBSET (2 .. rec.words - 1) : LaysOut(starts)

(* harness.c:90-91, "what it refuses is a record that records.h could not  *)
(* have written": what the writers laid out is printed.                    *)
WrittenIsPrinted == refused # "" => ~IsWritten
==============================================================================
