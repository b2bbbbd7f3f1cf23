--------------------------- MODULE FormatterProofs ---------------------------
(***************************************************************************)
(* Proofs about Formatter for every record and every size of f: a record   *)
(* that passes the parse is covered by its fields, each word once, and it  *)
(* is printed by id, each field once.                                      *)
(***************************************************************************)
EXTENDS Formatter, SequenceTheorems, FiniteSetTheorems, TLAPS

(* Fields that cover the words from 2 up to lim, each once.                *)
Laid(s, lim) ==
  /\ \A k \in 1 .. Len(s) : s[k] \in 2 .. rec.words - 1 /\ s[k] + Words(s[k]) <= lim
  /\ \A p \in 2 .. lim - 1 : \E k \in 1 .. Len(s) : s[k] <= p /\ p < s[k] + Words(s[k])
  /\ \A k, m \in 1 .. Len(s) :
       k # m => s[k] + Words(s[k]) <= s[m] \/ s[m] + Words(s[m]) <= s[k]

(* The first n are sorted; the others are as they were written, after all  *)
(* that precede them.                                                      *)
SortedTo(s, n)  == \A a, b \in 1 .. Len(s) : a < b /\ b <= n => Before(s[a], s[b])
WrittenFrom(s, n) == \A a, b \in 1 .. Len(s) : a < b /\ b > n => s[a] < s[b]

(* While x is out of f its place is j + 1; f still has another field there. *)
Filled == IF pc = "shift" THEN [f EXCEPT ![j + 1] = x] ELSE f

(* The fields before and after the hole are sorted; those after it have    *)
(* greater ids than x, and x was written after all of them.                *)
Hole(s) ==
  /\ i \in 1 .. Len(s) - 1 /\ j \in 0 .. i
  /\ \A a, b \in 1 .. Len(s) :
       a < b /\ b <= i + 1 /\ a # j + 1 /\ b # j + 1 => Before(s[a], s[b])
  /\ \A a \in 1 .. Len(s) : a <= i + 1 /\ a # j + 1 => s[a] < x
  /\ \A a \in 1 .. Len(s) : j + 1 < a /\ a <= i + 1 => Id(s[a]) > Id(x)
  /\ WrittenFrom(s, i + 1)

Parsing  == pc \in {"head", "parse"} => shown = <<>> /\ WrittenFrom(f, 0)
Sorting  == pc = "sort" => /\ i >= 1 /\ (i <= Len(f) \/ Len(f) = 0)
                           /\ shown = <<>> /\ SortedTo(f, i) /\ WrittenFrom(f, i)
Shifting == pc = "shift" => shown = <<>> /\ Hole(Filled)
Printing == pc = "print" => /\ SortedTo(f, Len(f))
                            /\ i <= Len(f) /\ Len(shown) = i
                            /\ \A a \in 1 .. i : shown[a] = f[a]
Printed  == pc = "done" /\ refused = "" => shown = f /\ SortedTo(f, Len(f))
Accepted == pc \in {"sort", "shift", "print"} \/ (pc = "done" /\ refused = "") => w = rec.words

IInv ==
  /\ rec \in Candidates /\ w >= 2 /\ TypeOK
  /\ Laid(Filled, w) /\ Accepted
  /\ Parsing /\ Sorting /\ Shifting /\ Printing /\ Printed

-----------------------------------------------------------------------------
(* Every field has at least its header word.                               *)
LEMMA WordsType ==
  ASSUME rec \in Candidates, NEW k \in 2 .. rec.words - 1
  PROVE  Words(k) \in Nat \ {0} /\ Id(k) \in Nat
<1>1. rec.at[k].id \in 0 .. 255 /\ rec.at[k].hi \in 0 .. Half - 1
  BY CandidatesAssumption
<1>2. \A n \in 0 .. Half - 1 : WordsFor((n + 1) \div 2) \in Nat
  <2>1. \A n \in Nat : n + 1 \in Nat /\ n + 3 \in Nat
    BY ONLY SMT
  <2>2. \A n \in Nat : n \div 2 \in Nat /\ n \div 4 \in Nat
    BY ONLY SMT
  <2>3. \A n \in Nat : (n + 1) \div 2 \in Nat
    BY ONLY <2>1, <2>2, Zenon
  <2>4. \A n \in Nat : WordsFor(n) \in Nat
    BY ONLY <2>1, <2>2, Zenon DEF WordsFor
  <2>5. \A n \in 0 .. Half - 1 : n \in Nat
    BY ONLY DEF Half
  <2> QED BY ONLY <2>3, <2>4, <2>5, Zenon
<1>3. WordsFor((rec.at[k].hi + 1) \div 2) \in Nat
  BY ONLY <1>1, <1>2, Zenon
<1>4. Words(k) \in Nat \ {0}
  <2> DEFINE n == WordsFor((rec.at[k].hi + 1) \div 2)
  <2>1. \/ Words(k) = 1 + n
        \/ Words(k) = 3
        \/ Words(k) = 2
    BY Zenon DEF Words, field_words
  <2>2. n \in Nat
    BY <1>3
  <2> HIDE DEF n
  <2> QED BY ONLY <2>1, <2>2
<1>5. Id(k) \in Nat
  BY <1>1 DEF Id
<1> QED BY <1>4, <1>5

(* Fields that cover the record's words each once tile it.                 *)
LEMMA LaidTiles ==
  ASSUME rec \in Candidates, NEW s \in Seq(Nat), Laid(s, rec.words)
  PROVE  Tiles(s)
<1>1. /\ rec.words \in Nat
      /\ \A k \in 1 .. Len(s) : s[k] \in Nat /\ Words(s[k]) \in Nat
  BY CandidatesAssumption, WordsType DEF Laid
<1>2. \A k \in 1 .. Len(s) : \A p :
        p \in Extent(s[k]) <=> p \in Int /\ s[k] <= p /\ p < s[k] + Words(s[k])
  BY <1>1 DEF Extent
<1>3. UNION {Extent(s[k]) : k \in 1 .. Len(s)} = 2 .. rec.words - 1
  <2>1. ASSUME NEW p \in UNION {Extent(s[k]) : k \in 1 .. Len(s)} PROVE p \in 2 .. rec.words - 1
    <3>1. PICK k \in 1 .. Len(s) : p \in Extent(s[k])
      OBVIOUS
    <3>2. s[k] >= 2 /\ s[k] + Words(s[k]) <= rec.words
      <4>1. s[k] \in 2 .. rec.words - 1 /\ s[k] + Words(s[k]) <= rec.words
        BY Zenon DEF Laid
      <4>2. rec.words \in Int
        BY <1>1
      <4> QED BY ONLY <4>1, <4>2
    <3>3. p \in Int /\ s[k] <= p /\ p < s[k] + Words(s[k])
      BY <1>2, <3>1
    <3>4. rec.words \in Nat /\ s[k] \in Nat /\ Words(s[k]) \in Nat
      BY <1>1
    <3> QED BY ONLY <3>2, <3>3, <3>4
  <2>2. ASSUME NEW p \in 2 .. rec.words - 1 PROVE p \in UNION {Extent(s[k]) : k \in 1 .. Len(s)}
    <3>1. PICK k \in 1 .. Len(s) : s[k] <= p /\ p < s[k] + Words(s[k])
      BY DEF Laid
    <3>2. p \in Extent(s[k])
      BY <1>2, <3>1
    <3> QED BY <3>2
  <2> QED BY <2>1, <2>2
<1>4. ASSUME NEW k \in 1 .. Len(s), NEW m \in 1 .. Len(s), k # m
      PROVE  Extent(s[k]) \cap Extent(s[m]) = {}
  <2>1. s[k] + Words(s[k]) <= s[m] \/ s[m] + Words(s[m]) <= s[k]
    BY <1>4 DEF Laid
  <2>2. ASSUME NEW p \in Extent(s[k]), p \in Extent(s[m]) PROVE FALSE
    <3>1. /\ p \in Int /\ s[k] <= p /\ p < s[k] + Words(s[k])
          /\ s[m] <= p /\ p < s[m] + Words(s[m])
      BY <1>2, <2>2
    <3>2. s[k] \in Nat /\ s[m] \in Nat /\ Words(s[k]) \in Nat /\ Words(s[m]) \in Nat
      BY <1>1, Zenon
    <3> QED BY ONLY <2>1, <3>1, <3>2
  <2> QED BY <2>2
<1> QED BY <1>3, <1>4 DEF Tiles

(* Two fields that trade places cover the same words.                      *)
LEMMA LaidSwap ==
  ASSUME NEW s, NEW t, NEW lim, NEW a \in 1 .. Len(s), NEW b \in 1 .. Len(s), Len(s) \in Nat,
         Len(t) = Len(s), Laid(s, lim), t[a] = s[b], t[b] = s[a],
         \A k \in 1 .. Len(s) : k # a /\ k # b => t[k] = s[k]
  PROVE  Laid(t, lim)
<1> DEFINE other(k) == IF k = a THEN b ELSE IF k = b THEN a ELSE k
<1>1. \A k \in 1 .. Len(s) : other(k) \in 1 .. Len(s) /\ t[k] = s[other(k)] /\ s[k] = t[other(k)]
  OBVIOUS
<1>2. \A k, m \in 1 .. Len(s) : k # m => other(k) # other(m)
  OBVIOUS
<1> HIDE DEF other
<1>3. \A k \in 1 .. Len(t) : t[k] \in 2 .. rec.words - 1 /\ t[k] + Words(t[k]) <= lim
  BY <1>1 DEF Laid
<1>4. ASSUME NEW p \in 2 .. lim - 1
      PROVE  \E k \in 1 .. Len(t) : t[k] <= p /\ p < t[k] + Words(t[k])
  <2>1. PICK k \in 1 .. Len(s) : s[k] <= p /\ p < s[k] + Words(s[k])
    BY DEF Laid
  <2>2. s[k] = t[other(k)] /\ other(k) \in 1 .. Len(t)
    BY <1>1
  <2> QED BY <2>1, <2>2
<1>5. ASSUME NEW k \in 1 .. Len(t), NEW m \in 1 .. Len(t), k # m
      PROVE  t[k] + Words(t[k]) <= t[m] \/ t[m] + Words(t[m]) <= t[k]
  <2>1. /\ other(k) \in 1 .. Len(s) /\ other(m) \in 1 .. Len(s) /\ other(k) # other(m)
        /\ t[k] = s[other(k)] /\ t[m] = s[other(m)]
    BY <1>1, <1>2, <1>5
  <2> QED BY <2>1 DEF Laid
<1> QED BY <1>3, <1>4, <1>5 DEF Laid

-----------------------------------------------------------------------------
(* What the invariant says of the types the steps use.                     *)
LEMMA FieldType ==
  ASSUME IInv
  PROVE  /\ f \in Seq(Nat) /\ Len(f) \in Nat /\ Filled \in Seq(Nat) /\ Len(Filled) = Len(f)
         /\ \A a \in 1 .. Len(f) : f[a] \in Nat
         /\ \A a \in 1 .. Len(f) : Filled[a] = IF pc = "shift" /\ a = j + 1 THEN x ELSE f[a]
         /\ \A a \in 1 .. Len(f) : Filled[a] \in 2 .. rec.words - 1 /\ Id(Filled[a]) \in Nat
                                   /\ Words(Filled[a]) \in Nat \ {0}
         /\ rec.words \in Nat
<1>1. f \in Seq(Nat) /\ j \in 0 .. MAX_FIELDS /\ x \in Nat /\ rec \in Candidates /\ Laid(Filled, w)
  BY DEF IInv, TypeOK
<1>2. Len(f) \in Nat /\ \A a \in 1 .. Len(f) : f[a] \in Nat
  BY <1>1, LenProperties, ElementOfSeq
<1>3. /\ Filled \in Seq(Nat) /\ Len(Filled) = Len(f)
      /\ \A a \in 1 .. Len(f) : Filled[a] = IF pc = "shift" /\ a = j + 1 THEN x ELSE f[a]
  <2>1. CASE pc # "shift"
    BY <1>1, <2>1 DEF Filled
  <2>2. CASE pc = "shift"
    <3>1. Filled = [f EXCEPT ![j + 1] = x]
      BY <2>2 DEF Filled
    <3>2. Len(Filled) = Len(f)
      BY ONLY <1>1, <3>1
    <3>3. j + 1 \in 1 .. Len(f)
      BY <1>1, <1>2, <2>2, <3>2 DEF IInv, Shifting, Hole
    <3> QED BY ONLY <1>1, <2>2, <3>1, <3>3, ExceptSeq
  <2> QED BY <2>1, <2>2
<1>4. \A a \in 1 .. Len(f) : Filled[a] \in 2 .. rec.words - 1
  BY <1>1, <1>3 DEF Laid
<1> QED BY <1>1, <1>2, <1>3, <1>4, WordsType, CandidatesAssumption

(* As long as nothing was taken out, f is what it holds.                   *)
LEMMA FilledIsF == ASSUME pc # "shift" PROVE Filled = f
BY DEF Filled

LEMMA InitInv == Init => IInv
<1> SUFFICES ASSUME Init PROVE IInv
  OBVIOUS
<1>1. f \in Seq(Nat) /\ Len(f) = 0 /\ shown \in Seq(Nat)
  BY EmptySeq DEF Init
<1>2. TypeOK
  <2>1. 0 \in 0 .. MAX_FIELDS /\ 0 <= MAX_FIELDS /\ 2 \in Nat /\ 0 \in Nat
    BY ONLY MaxFieldsAssumption
  <2> QED BY <1>1, <2>1, Zenon DEF Init, TypeOK
<1>3. Filled = f
  BY DEF Init, Filled
<1>4. Laid(f, w)
  <2>1. w = 2
    BY DEF Init
  <2> QED BY ONLY <1>1, <2>1 DEF Laid
<1>5. WrittenFrom(f, 0)
  BY ONLY <1>1 DEF WrittenFrom
<1>6. w >= 2 /\ rec \in Candidates /\ pc = "head" /\ shown = <<>>
  <2>1. w = 2 /\ rec \in Candidates /\ pc = "head" /\ shown = <<>>
    BY Zenon DEF Init
  <2> QED BY ONLY <2>1
<1>7. Accepted /\ Parsing /\ Sorting /\ Shifting /\ Printing /\ Printed
  BY ONLY <1>5, <1>6 DEF Accepted, Parsing, Sorting, Shifting, Printing, Printed
<1> QED BY ONLY <1>2, <1>3, <1>4, <1>6, <1>7 DEF IInv

LEMMA CheckHeadInv == ASSUME IInv, CheckHead PROVE IInv'
<1> USE DEF CheckHead, Refuse
<1>1. HeadFault \in {"", "protocol", "status", "type"}
  BY DEF HeadFault
<1>2. TypeOK'
  BY <1>1 DEF IInv, TypeOK
<1>3. Laid(Filled, w)'
  BY DEF IInv, Filled, Laid, Words
<1>4. Accepted' /\ Printed'
  BY DEF Accepted, Printed
<1>5. Parsing' /\ Sorting' /\ Shifting' /\ Printing'
  BY DEF IInv, Parsing, Sorting, Shifting, Printing, WrittenFrom
<1> QED BY <1>2, <1>3, <1>4, <1>5 DEF IInv

(* The new field begins where the others end.                              *)
LEMMA ParseFieldInv == ASSUME IInv, ParseField PROVE IInv'
<1>1. /\ pc = "parse" /\ w \in Nat /\ w >= 2 /\ w < rec.words
      /\ Filled = f /\ Laid(f, w) /\ WrittenFrom(f, 0) /\ shown = <<>>
  BY DEF IInv, ParseField, TypeOK, Filled, Parsing
<1>2. rec' = rec /\ rec \in Candidates
  BY DEF IInv, ParseField
<1>3. CASE FieldFault(Header(w)) # ""
  <2> USE <1>3 DEF ParseField, Refuse
  <2>1. FieldFault(Header(w)) \in {"field id", "field header"}
    BY DEF FieldFault
  <2>2. TypeOK'
    BY <2>1 DEF IInv, TypeOK
  <2>3. Laid(Filled, w)'
    BY <1>1 DEF Filled, Laid, Words
  <2> QED BY <1>1, <2>1, <2>2, <2>3 DEF IInv, Accepted, Parsing, Sorting, Shifting, Printing, Printed
<1>4. CASE FieldFault(Header(w)) = ""
  <2>1. /\ f' = Append(f, w) /\ w' = w + Words(w) /\ pc' = pc
        /\ UNCHANGED <<rec, i, j, x, shown, refused>>
    BY <1>4 DEF ParseField
  <2>2. Len(f) # MAX_FIELDS
    BY <1>4 DEF FieldFault
  <2>3. Words(w) \in Nat \ {0}
    BY <1>1, <1>2, FieldType, WordsType
  <2>4. f \in Seq(Nat) /\ Len(f) \in Nat /\ \A a \in 1 .. Len(f) : f[a] \in Nat /\ Words(f[a]) \in Nat
    BY <1>1, FieldType
  <2>5. /\ f' \in Seq(Nat) /\ Len(f') = Len(f) + 1
        /\ \A a \in 1 .. Len(f) : f'[a] = f[a]
        /\ f'[Len(f) + 1] = w
    BY ONLY <1>1, <2>1, <2>4, AppendProperties
  <2>6. TypeOK'
    <3>1. Len(f) + 1 <= MAX_FIELDS /\ w' \in Nat
      <4>1. Len(f) <= MAX_FIELDS
        BY DEF IInv, TypeOK
      <4> QED BY ONLY <1>1, <2>1, <2>2, <2>3, <2>4, <4>1, MaxFieldsAssumption
    <3> QED BY <2>1, <2>5, <3>1 DEF IInv, TypeOK
  <2>7. Laid(f', w')
    <3>1. \A a \in 1 .. Len(f) + 1 : f'[a] \in 2 .. rec.words - 1 /\ f'[a] + Words(f'[a]) <= w'
      <4> SUFFICES ASSUME NEW a \in 1 .. Len(f) + 1
                   PROVE  f'[a] \in 2 .. rec.words - 1 /\ f'[a] + Words(f'[a]) <= w'
        OBVIOUS
      <4>1. CASE a \in 1 .. Len(f)
        <5>1. f[a] \in 2 .. rec.words - 1 /\ f[a] + Words(f[a]) <= w
          BY <1>1, <4>1 DEF Laid
        <5>2. f'[a] = f[a] /\ f[a] \in Nat /\ Words(f[a]) \in Nat
          BY <2>4, <2>5, <4>1
        <5> QED BY ONLY <1>1, <2>1, <2>3, <5>1, <5>2
      <4>2. CASE a = Len(f) + 1
        <5>1. rec.words \in Nat
          BY FieldType
        <5> QED BY ONLY <1>1, <2>1, <2>3, <2>5, <4>2, <5>1
      <4> QED BY <2>4, <4>1, <4>2
    <3>2. ASSUME NEW p \in 2 .. w' - 1
          PROVE  \E a \in 1 .. Len(f) + 1 : f'[a] <= p /\ p < f'[a] + Words(f'[a])
      <4>1. CASE p < w
        <5>1. PICK a \in 1 .. Len(f) : f[a] <= p /\ p < f[a] + Words(f[a])
          BY <1>1, <4>1 DEF Laid
        <5> QED BY <2>4, <2>5, <5>1
      <4>2. CASE p >= w
        <5>1. p < w + Words(w)
          BY <1>1, <2>1, <2>3
        <5> QED BY <2>4, <2>5, <4>2, <5>1
      <4> QED BY <1>1, <4>1, <4>2
    <3>3. ASSUME NEW a \in 1 .. Len(f) + 1, NEW b \in 1 .. Len(f) + 1, a # b
          PROVE  f'[a] + Words(f'[a]) <= f'[b] \/ f'[b] + Words(f'[b]) <= f'[a]
      <4>1. CASE a \in 1 .. Len(f) /\ b \in 1 .. Len(f)
        <5>1. f'[a] = f[a] /\ f'[b] = f[b]
          BY <2>5, <4>1
        <5> QED BY <1>1, <3>3, <4>1, <5>1 DEF Laid
      <4>2. CASE a \in 1 .. Len(f) /\ b = Len(f) + 1
        <5>1. f'[a] = f[a] /\ f'[b] = w
          BY <2>5, <4>2
        <5>2. f[a] + Words(f[a]) <= w
          BY <1>1, <4>2 DEF Laid
        <5> QED BY ONLY <5>1, <5>2
      <4>3. CASE a = Len(f) + 1 /\ b \in 1 .. Len(f)
        <5>1. f'[b] = f[b] /\ f'[a] = w
          BY <2>5, <4>3
        <5>2. f[b] + Words(f[b]) <= w
          BY <1>1, <4>3 DEF Laid
        <5> QED BY ONLY <5>1, <5>2
      <4> QED BY ONLY <2>4, <3>3, <4>1, <4>2, <4>3
    <3> QED BY <2>5, <3>1, <3>2, <3>3 DEF Laid
  <2>8. Laid(Filled, w)'
    BY <1>1, <1>2, <2>1, <2>7 DEF Filled, Laid, Words
  <2>9. WrittenFrom(f, 0)'
    <3>1. \A a \in 1 .. Len(f) : f[a] < w
      <4> SUFFICES ASSUME NEW a \in 1 .. Len(f) PROVE f[a] < w
        OBVIOUS
      <4>1. Words(f[a]) \in Nat \ {0}
        BY <1>1, FieldType
      <4>2. f[a] + Words(f[a]) <= w
        BY <1>1 DEF Laid
      <4> QED BY <1>1, <2>4, <4>1, <4>2
    <3>2. ASSUME NEW a \in 1 .. Len(f) + 1, NEW b \in 1 .. Len(f) + 1, a < b
          PROVE  f'[a] < f'[b]
      <4>1. a \in 1 .. Len(f)
        BY ONLY <2>4, <3>2
      <4>2. f'[a] = f[a]
        BY ONLY <2>5, <4>1
      <4>3. CASE b = Len(f) + 1
        BY ONLY <2>5, <3>1, <4>1, <4>2, <4>3
      <4>4. CASE b \in 1 .. Len(f)
        <5>1. f[a] < f[b]
          BY <1>1, <3>2, <4>1, <4>4 DEF WrittenFrom
        <5> QED BY ONLY <2>5, <4>2, <4>4, <5>1
      <4> QED BY ONLY <2>4, <4>3, <4>4
    <3> QED BY ONLY <2>5, <3>2 DEF WrittenFrom
  <2> QED BY <1>1, <1>2, <2>1, <2>3, <2>6, <2>8, <2>9
        DEF IInv, Accepted, Parsing, Sorting, Shifting, Printing, Printed
<1> QED BY <1>3, <1>4

LEMMA ParseEndsInv == ASSUME IInv, ParseEnds PROVE IInv'
<1>1. /\ pc = "parse" /\ pc' \in {"sort", "done"} /\ Laid(f, w) /\ WrittenFrom(f, 0) /\ shown = <<>>
      /\ UNCHANGED <<rec, w, f, j, x, shown>>
  BY DEF IInv, ParseEnds, Filled, Parsing, Refuse
<1>2. TypeOK'
  <2>1. (i' = i \/ i' = 1) /\ refused' \in {refused, "overrun"}
    BY Zenon DEF ParseEnds, Refuse
  <2>2. TypeOK
    BY DEF IInv
  <2>3. i' \in Nat
    <3>1. i \in Nat
      BY ONLY <2>2, Zenon DEF TypeOK
    <3> QED BY ONLY <2>1, <3>1
  <2> QED BY ONLY <1>1, <2>1, <2>2, <2>3, Zenon DEF TypeOK
<1>3. Laid(Filled, w)'
  BY <1>1 DEF Filled, Laid, Words
<1>4. Len(f) \in Nat
  BY FieldType
<1>5. SortedTo(f, 1) /\ WrittenFrom(f, 1)
  BY <1>1, <1>4 DEF SortedTo, WrittenFrom
<1>6. Accepted'
  BY <1>1 DEF Accepted, ParseEnds, Refuse, Overruns
<1>7. Sorting'
  BY <1>1, <1>4, <1>5 DEF Sorting, ParseEnds, Refuse, SortedTo, WrittenFrom, Before, Id
<1>8. Printed'
  BY DEF Printed, ParseEnds, Refuse
<1> QED BY <1>1, <1>2, <1>3, <1>6, <1>7, <1>8 DEF IInv, Parsing, Shifting, Printing

(* Taking x out leaves it where it was.                                    *)
LEMMA TakeInv == ASSUME IInv, Take PROVE IInv'
<1>1. /\ pc = "sort" /\ i \in Nat /\ i >= 1 /\ i < Len(f) /\ shown = <<>>
      /\ SortedTo(f, i) /\ WrittenFrom(f, i) /\ Laid(f, w) /\ Accepted /\ Filled = f
  BY DEF IInv, Take, Unsorted, TypeOK, Sorting, Filled
<1>2. /\ x' = f[i + 1] /\ j' = i /\ pc' = "shift"
      /\ UNCHANGED <<rec, w, f, i, shown, refused>>
  BY DEF Take
<1>3. f \in Seq(Nat) /\ Len(f) \in Nat /\ \A a \in 1 .. Len(f) : f[a] \in Nat
  BY FieldType
<1>4. i + 1 \in 1 .. Len(f)
  BY ONLY <1>1, <1>3
<1>5. TypeOK'
  <2>1. Len(f) <= MAX_FIELDS
    BY DEF IInv, TypeOK
  <2>2. i \in 0 .. MAX_FIELDS
    BY ONLY <1>1, <1>3, <2>1, MaxFieldsAssumption
  <2>3. x' \in Nat
    BY <1>2, <1>3, <1>4
  <2> QED BY <1>2, <2>2, <2>3 DEF IInv, TypeOK
<1>6. Filled' = f
  <2>1. Filled' = [f EXCEPT ![i + 1] = f[i + 1]]
    BY <1>2 DEF Filled
  <2> QED BY ONLY <1>3, <1>4, <2>1
<1>7. Laid(Filled, w)'
  BY <1>1, <1>2, <1>6 DEF Laid, Words
<1>8. Hole(Filled)'
  <2>1. i \in 1 .. Len(f) - 1 /\ i \in 0 .. i
    BY ONLY <1>1, <1>3
  <2>2. \A a, b \in 1 .. Len(f) : a < b /\ b <= i + 1 /\ a # i + 1 /\ b # i + 1 => Before(f[a], f[b])
    <3>1. \A b \in 1 .. Len(f) : b <= i + 1 /\ b # i + 1 => b <= i
      BY ONLY <1>1, <1>3
    <3> QED BY <1>1, <3>1 DEF SortedTo
  <2>3. \A a \in 1 .. Len(f) : a <= i + 1 /\ a # i + 1 => f[a] < f[i + 1]
    BY <1>1, <1>3, <1>4 DEF WrittenFrom
  <2>4. \A a \in 1 .. Len(f) : ~(i + 1 < a /\ a <= i + 1)
    BY ONLY <1>1, <1>3
  <2>5. WrittenFrom(f, i + 1)
    BY <1>1, <1>3 DEF WrittenFrom
  <2>6. Id(x)' = Id(f[i + 1]) /\ \A a, b : Before(a, b)' = Before(a, b)
    BY <1>2 DEF Id, Before
  <2> QED BY <1>2, <1>6, <2>1, <2>2, <2>3, <2>4, <2>5, <2>6 DEF Hole, WrittenFrom
<1>9. Accepted' /\ Shifting'
  BY <1>1, <1>2, <1>8 DEF Accepted, Shifting
<1> QED BY <1>2, <1>5, <1>7, <1>9 DEF IInv, Parsing, Sorting, Printing, Printed

(* Moving a field up moves the hole down: the two trade places in Filled.  *)
LEMMA ShiftInv == ASSUME IInv, Shift PROVE IInv'
<1>1. /\ pc = "shift" /\ j # 0 /\ Id(f[j]) > Id(x) /\ shown = <<>>
      /\ f' = [f EXCEPT ![j + 1] = f[j]] /\ j' = j - 1
      /\ UNCHANGED <<rec, pc, w, i, x, shown, refused>>
  BY DEF Shift, Greater, NextJ, IInv, Shifting
<1>2. /\ rec \in Candidates /\ TypeOK /\ w \in Nat /\ x \in Nat /\ j \in Nat
      /\ Laid(Filled, w) /\ Accepted /\ Hole(Filled)
  <2>1. rec \in Candidates /\ TypeOK /\ Laid(Filled, w) /\ Accepted /\ Hole(Filled)
    BY <1>1, Zenon DEF IInv, Shifting
  <2>2. w \in Nat /\ x \in Nat /\ j \in Nat
    <3>1. w \in Nat /\ x \in Nat /\ j \in 0 .. MAX_FIELDS
      BY <2>1, Zenon DEF TypeOK
    <3> QED BY ONLY <3>1, MaxFieldsAssumption
  <2> QED BY <2>1, <2>2
<1>3. /\ f \in Seq(Nat) /\ Len(f) \in Nat /\ Filled \in Seq(Nat) /\ Len(Filled) = Len(f)
      /\ \A a \in 1 .. Len(f) : f[a] \in Nat
      /\ \A a \in 1 .. Len(f) : Filled[a] = IF a = j + 1 THEN x ELSE f[a]
      /\ \A a \in 1 .. Len(f) : Id(Filled[a]) \in Nat /\ Filled[a] \in Nat
  BY <1>1, FieldType
<1>4. i \in 1 .. Len(f) - 1 /\ j \in 1 .. i
  BY <1>1, <1>2, <1>3 DEF Hole
<1>5. j + 1 \in 1 .. Len(f) /\ j \in 1 .. Len(f) /\ i \in Nat /\ j + 1 <= i + 1
  BY ONLY <1>3, <1>4
<1>6. /\ f' \in Seq(Nat) /\ Len(f') = Len(f)
      /\ \A a \in 1 .. Len(f) : f'[a] = IF a = j + 1 THEN f[j] ELSE f[a]
  <2>1. f[j] \in Nat /\ f \in Seq(Nat) /\ j + 1 \in 1 .. Len(f) /\ f' = [f EXCEPT ![j + 1] = f[j]]
    BY <1>1, <1>3, <1>5
  <2> QED BY ONLY <2>1, ExceptSeq
<1>7. TypeOK'
  <2>1. j' \in 0 .. MAX_FIELDS
    <3>1. j \in 0 .. MAX_FIELDS
      BY <1>2 DEF TypeOK
    <3> QED BY ONLY <1>1, <3>1, MaxFieldsAssumption
  <2> QED BY <1>1, <1>2, <1>6, <2>1 DEF TypeOK
<1> DEFINE G == Filled'
<1>8. /\ Len(G) = Len(f) /\ G \in Seq(Nat)
      /\ \A a \in 1 .. Len(f) : G[a] = IF a = j THEN x ELSE f'[a]
  <2>1. G = [f' EXCEPT ![j] = x]
    <3>1. j' + 1 = j
      BY ONLY <1>1, <1>2
    <3> QED BY <1>1, <3>1 DEF Filled
  <2> QED BY ONLY <1>2, <1>5, <1>6, <2>1, ExceptSeq
<1>9. /\ G[j] = x /\ G[j + 1] = Filled[j] /\ Filled[j] = f[j] /\ Filled[j + 1] = x
      /\ \A a \in 1 .. Len(f) : a # j /\ a # j + 1 => G[a] = Filled[a]
  <2>1. j # j + 1
    BY ONLY <1>2
  <2> QED BY ONLY <1>3, <1>5, <1>6, <1>8, <2>1
<1> HIDE DEF G
<1>10. Laid(G, w)
  BY ONLY <1>2, <1>3, <1>5, <1>8, <1>9, LaidSwap
<1>11. Laid(Filled, w)'
  BY <1>1, <1>10 DEF G, Laid, Words
<1>12. Hole(Filled)'
  <2> DEFINE at(c) == IF c = j + 1 THEN j ELSE IF c = j THEN j + 1 ELSE c
  <2>0. Len(f) \in Nat
    BY <1>3
  <2>1. \A c \in 1 .. Len(f) : at(c) \in 1 .. Len(f) /\ G[c] = Filled[at(c)]
    BY ONLY <1>5, <1>9
  <2>2. \A c \in 1 .. Len(f) : c <= i + 1 <=> at(c) <= i + 1
    BY ONLY <2>0, <1>4, <1>5
  <2>3. \A c \in 1 .. Len(f) : c # j <=> at(c) # j + 1
    BY ONLY <1>5
  <2>4. \A a, b \in 1 .. Len(f) : a < b /\ a # j /\ b # j => at(a) < at(b)
    BY ONLY <1>5
  <2>5. \A a, b \in 1 .. Len(f) : a < b /\ b > i + 1 => at(a) < at(b) /\ at(b) > i + 1
    BY ONLY <2>0, <1>4, <1>5
  <2> HIDE DEF at
  <2>6. i \in 1 .. Len(f) - 1 /\ j - 1 \in 0 .. i /\ (j - 1) + 1 = j
    BY ONLY <1>3, <1>4
  <2>7. \A a, b \in 1 .. Len(f) : a < b /\ b <= i + 1 /\ a # j /\ b # j => Before(G[a], G[b])
    BY <1>2, <1>3, <2>1, <2>2, <2>3, <2>4 DEF Hole
  <2>8. \A a \in 1 .. Len(f) : a <= i + 1 /\ a # j => G[a] < x
    BY <1>2, <1>3, <2>1, <2>2, <2>3 DEF Hole
  <2>9. \A a \in 1 .. Len(f) : j < a /\ a <= i + 1 => Id(G[a]) > Id(x)
    <3> SUFFICES ASSUME NEW a \in 1 .. Len(f), j < a, a <= i + 1 PROVE Id(G[a]) > Id(x)
      OBVIOUS
    <3>1. CASE a = j + 1
      <4>1. G[a] = f[j]
        BY <1>9, <3>1
      <4> QED BY <1>1, <4>1
    <3>2. CASE a # j + 1
      <4>1. j + 1 < a /\ a # j
        BY <1>5, <3>2
      <4>2. G[a] = Filled[a]
        BY <1>9, <3>2, <4>1
      <4> QED BY <1>2, <1>3, <4>1, <4>2 DEF Hole
    <3> QED BY <3>1, <3>2
  <2>10. \A a, b \in 1 .. Len(f) : a < b /\ b > i + 1 => G[a] < G[b]
    BY <1>2, <1>3, <2>1, <2>5 DEF Hole, WrittenFrom
  <2>11. Len(Filled') = Len(f) /\ \A a : Filled'[a] = G[a]
    BY <1>8 DEF G
  <2>12. /\ i' = i /\ x' = x /\ j' = j - 1
         /\ \A a : Id(a)' = Id(a)
         /\ \A a, b : Before(a, b)' = Before(a, b)
    BY <1>1 DEF Id, Before
  <2>13. /\ i' \in 1 .. Len(Filled') - 1 /\ j' \in 0 .. i' /\ j' + 1 = j
    BY ONLY <2>6, <2>11, <2>12
  <2> QED BY ONLY <2>7, <2>8, <2>9, <2>10, <2>11, <2>12, <2>13 DEF Hole, WrittenFrom
<1>13. Accepted' /\ Shifting'
  BY <1>1, <1>2, <1>12 DEF Accepted, Shifting
<1> QED BY <1>1, <1>2, <1>7, <1>11, <1>13 DEF IInv, Parsing, Sorting, Printing, Printed

(* x goes where every field before it comes first, and it comes before     *)
(* every field after it.                                                   *)
LEMMA DropInv == ASSUME IInv, Drop PROVE IInv'
<1>1. /\ pc = "shift" /\ shown = <<>> /\ (j = 0 \/ ~(Id(f[j]) > Id(x)))
      /\ f' = Filled /\ i' = i + 1 /\ pc' = "sort"
      /\ UNCHANGED <<rec, w, j, x, shown, refused>>
  BY DEF Drop, Greater, IInv, Shifting, Filled
<1>2. /\ rec \in Candidates /\ TypeOK /\ w \in Nat /\ x \in Nat /\ j \in Nat
      /\ Laid(Filled, w) /\ Accepted /\ Hole(Filled)
  <2>1. rec \in Candidates /\ TypeOK /\ Laid(Filled, w) /\ Accepted /\ Hole(Filled)
    BY <1>1, Zenon DEF IInv, Shifting
  <2>2. w \in Nat /\ x \in Nat /\ j \in Nat
    <3>1. w \in Nat /\ x \in Nat /\ j \in 0 .. MAX_FIELDS
      BY <2>1, Zenon DEF TypeOK
    <3> QED BY ONLY <3>1, MaxFieldsAssumption
  <2> QED BY <2>1, <2>2
<1>3. /\ Len(f) \in Nat /\ Filled \in Seq(Nat) /\ Len(Filled) = Len(f)
      /\ \A a \in 1 .. Len(f) : Filled[a] = IF a = j + 1 THEN x ELSE f[a]
      /\ \A a \in 1 .. Len(f) : Id(Filled[a]) \in Nat /\ Filled[a] \in Nat
  BY <1>1, FieldType
<1>4. i \in 1 .. Len(f) - 1 /\ j \in 0 .. i
  BY <1>2, <1>3 DEF Hole
<1>5. j + 1 \in 1 .. Len(f) /\ i \in Nat /\ i + 1 <= Len(f) /\ i + 1 >= 1
  BY ONLY <1>3, <1>4
<1>6. Filled[j + 1] = x /\ Id(x) \in Nat
  BY <1>3, <1>5
<1>7. SortedTo(Filled, i + 1)
  <2> SUFFICES ASSUME NEW a \in 1 .. Len(f), NEW b \in 1 .. Len(f), a < b /\ b <= i + 1
               PROVE  Before(Filled[a], Filled[b])
    BY <1>3 DEF SortedTo
  <2>1. CASE a # j + 1 /\ b # j + 1
    BY <1>2, <1>3, <2>1 DEF Hole
  <2>2. CASE a = j + 1
    <3>1. Id(Filled[b]) > Id(x)
      BY <1>2, <1>3, <2>2 DEF Hole
    <3> QED BY <1>3, <1>6, <2>2, <3>1 DEF Before
  <2>3. CASE b = j + 1
    <3>1. a <= j /\ j \in 1 .. Len(f) /\ j # 0 /\ a <= i + 1 /\ a # j + 1 /\ j # j + 1 /\ j <= i + 1
      <4>1. a < j + 1 /\ Len(f) \in Nat
        BY <1>3, <2>3
      <4> QED BY ONLY <1>4, <4>1
    <3>2. Filled[a] < x
      BY <1>2, <1>3, <3>1 DEF Hole
    <3>3. Id(Filled[j]) <= Id(x)
      <4>1. Filled[j] = f[j]
        BY <1>3, <3>1
      <4>2. ~(Id(Filled[j]) > Id(x)) /\ Id(Filled[j]) \in Nat
        BY <1>1, <1>3, <3>1, <4>1
      <4> QED BY ONLY <1>6, <4>2
    <3>4. Id(Filled[a]) <= Id(Filled[j])
      <4>1. CASE a = j
        BY <1>3, <3>1, <4>1
      <4>2. CASE a < j
        <5>1. Before(Filled[a], Filled[j])
          BY <1>2, <1>3, <3>1, <4>2 DEF Hole
        <5> QED BY <1>3, <3>1, <5>1 DEF Before
      <4> QED BY ONLY <3>1, <4>1, <4>2, <1>2
    <3>5. Id(Filled[a]) \in Nat /\ Id(Filled[j]) \in Nat
      BY <1>3, <3>1
    <3>6. Id(Filled[a]) <= Id(x)
      BY ONLY <1>6, <3>3, <3>4, <3>5
    <3> QED BY ONLY <1>6, <2>3, <3>2, <3>5, <3>6 DEF Before
  <2> QED BY <2>1, <2>2, <2>3
<1>8. WrittenFrom(Filled, i + 1)
  BY <1>2 DEF Hole
<1>9. TypeOK'
  <2>1. Len(Filled) <= MAX_FIELDS
    BY <1>2, <1>3 DEF TypeOK
  <2>2. i' \in Nat
    BY ONLY <1>1, <1>5
  <2> QED BY <1>1, <1>2, <1>3, <2>1, <2>2 DEF TypeOK
<1>10. Laid(Filled, w)'
  BY <1>1, <1>2 DEF Filled, Laid, Words
<1>11. Accepted' /\ Sorting'
  <2>1. SortedTo(f, i)' /\ WrittenFrom(f, i)'
    BY <1>1, <1>7, <1>8 DEF SortedTo, WrittenFrom, Before, Id
  <2> QED BY <1>1, <1>2, <1>3, <1>5, <2>1 DEF Accepted, Sorting
<1> QED BY <1>1, <1>2, <1>9, <1>10, <1>11 DEF IInv, Parsing, Shifting, Printing, Printed

LEMMA SortEndsInv == ASSUME IInv, SortEnds PROVE IInv'
<1>1. /\ pc = "sort" /\ ~(i < Len(f)) /\ i \in Nat /\ shown = <<>>
      /\ SortedTo(f, i) /\ Laid(f, w) /\ Accepted
      /\ pc' = "print" /\ i' = 0
      /\ UNCHANGED <<rec, w, f, j, x, shown, refused>>
  BY DEF IInv, SortEnds, Unsorted, TypeOK, Sorting, Filled
<1>2. Len(f) \in Nat
  BY FieldType
<1>3. TypeOK'
  BY <1>1 DEF IInv, TypeOK
<1>4. Laid(Filled, w)'
  BY <1>1 DEF Filled, Laid, Words
<1>5. SortedTo(f, Len(f))'
  BY <1>1, <1>2 DEF SortedTo, Before, Id
<1>6. 0 <= Len(f) /\ Len(shown) = 0
  BY <1>1, <1>2
<1>7. Accepted' /\ Printing'
  BY <1>1, <1>5, <1>6 DEF Accepted, Printing
<1> QED BY <1>1, <1>3, <1>4, <1>7 DEF IInv, Parsing, Sorting, Shifting, Printed

LEMMA PrintFieldInv == ASSUME IInv, PrintField PROVE IInv'
<1>1. /\ pc = "print" /\ i < Len(f) /\ i \in Nat /\ shown \in Seq(Nat) /\ Len(shown) = i
      /\ SortedTo(f, Len(f)) /\ Laid(f, w) /\ Accepted
      /\ \A a \in 1 .. i : shown[a] = f[a]
      /\ shown' = Append(shown, f[i + 1]) /\ i' = i + 1
      /\ UNCHANGED <<rec, pc, w, f, j, x, refused>>
  BY DEF IInv, PrintField, TypeOK, Printing, Filled
<1>2. Len(f) \in Nat /\ \A a \in 1 .. Len(f) : f[a] \in Nat
  BY FieldType
<1>3. f[i + 1] \in Nat /\ i + 1 <= Len(f) /\ i + 1 \in Nat
  <2>1. i + 1 \in 1 .. Len(f)
    BY ONLY <1>1, <1>2
  <2> QED BY ONLY <1>2, <2>1
<1>4. /\ shown' \in Seq(Nat) /\ Len(shown') = i + 1
      /\ \A a \in 1 .. i + 1 : shown'[a] = f[a]
  <2>1. /\ shown' \in Seq(Nat) /\ Len(shown') = i + 1
        /\ \A a \in 1 .. i : shown'[a] = shown[a]
        /\ shown'[i + 1] = f[i + 1]
    BY ONLY <1>1, <1>3, AppendProperties
  <2> QED BY ONLY <1>1, <2>1
<1>5. TypeOK'
  BY <1>1, <1>3, <1>4 DEF IInv, TypeOK
<1>6. Laid(Filled, w)'
  BY <1>1 DEF Filled, Laid, Words
<1>7. SortedTo(f, Len(f))'
  BY <1>1 DEF SortedTo, Before, Id
<1>8. Accepted' /\ Printing'
  BY <1>1, <1>3, <1>4, <1>7 DEF Accepted, Printing
<1> QED BY <1>1, <1>5, <1>6, <1>8 DEF IInv, Parsing, Sorting, Shifting, Printed

LEMMA PrintEndsInv == ASSUME IInv, PrintEnds PROVE IInv'
<1>1. /\ pc = "print" /\ i = Len(f) /\ shown \in Seq(Nat) /\ Len(shown) = i
      /\ SortedTo(f, Len(f)) /\ Laid(f, w) /\ Accepted
      /\ \A a \in 1 .. i : shown[a] = f[a]
      /\ pc' = "done"
      /\ UNCHANGED <<rec, w, f, i, j, x, shown, refused>>
  BY DEF IInv, PrintEnds, TypeOK, Printing, Filled
<1>2. shown = f
  <2>1. f \in Seq(Nat)
    BY FieldType
  <2> QED BY ONLY <1>1, <2>1, SeqEqual
<1>3. TypeOK'
  BY <1>1 DEF IInv, TypeOK
<1>4. Laid(Filled, w)'
  BY <1>1 DEF Filled, Laid, Words
<1>5. SortedTo(f, Len(f))'
  BY <1>1 DEF SortedTo, Before, Id
<1>6. Accepted' /\ Printed'
  BY <1>1, <1>2, <1>5 DEF Accepted, Printed
<1> QED BY <1>1, <1>3, <1>4, <1>6 DEF IInv, Parsing, Sorting, Shifting, Printing

LEMMA StutterInv == ASSUME IInv, UNCHANGED vars PROVE IInv'
<1>1. UNCHANGED <<rec, pc, w, f, i, j, x, shown, refused>>
  BY DEF vars
<1>2. TypeOK'
  BY <1>1 DEF IInv, TypeOK
<1>3. Laid(Filled, w)'
  BY <1>1 DEF IInv, Filled, Laid, Words
<1>4. (Accepted /\ Parsing /\ Sorting /\ Printing /\ Printed)'
  <2>1. WrittenFrom(f, 0)' <=> WrittenFrom(f, 0)
    BY <1>1 DEF WrittenFrom
  <2>2. SortedTo(f, i)' <=> SortedTo(f, i)
    BY <1>1 DEF SortedTo, Before, Id
  <2>3. SortedTo(f, Len(f))' <=> SortedTo(f, Len(f))
    BY <1>1 DEF SortedTo, Before, Id
  <2>4. WrittenFrom(f, i)' <=> WrittenFrom(f, i)
    BY <1>1 DEF WrittenFrom
  <2>5. Accepted' /\ Parsing'
    BY <1>1, <2>1 DEF IInv, Accepted, Parsing
  <2>6. Sorting'
    BY <1>1, <2>2, <2>4 DEF IInv, Sorting
  <2>7. Printing' /\ Printed'
    BY <1>1, <2>3 DEF IInv, Printing, Printed
  <2> QED BY <2>5, <2>6, <2>7
<1>5. Shifting'
  BY <1>1 DEF IInv, Shifting, Hole, Filled, WrittenFrom, Before, Id
<1> QED BY <1>1, <1>2, <1>3, <1>4, <1>5 DEF IInv

LEMMA NextInv == IInv /\ [Next]_vars => IInv'
BY CheckHeadInv, ParseFieldInv, ParseEndsInv, TakeInv, ShiftInv, DropInv, SortEndsInv,
   PrintFieldInv, PrintEndsInv, StutterInv DEF Next, Done

LEMMA InvFields == IInv => FieldsTileRecord
<1> SUFFICES ASSUME IInv, pc \in {"sort", "print"} PROVE Tiles(f)
  BY DEF FieldsTileRecord
<1>1. Laid(f, rec.words) /\ rec \in Candidates /\ f \in Seq(Nat)
  BY DEF IInv, TypeOK, Filled, Accepted
<1> QED BY <1>1, LaidTiles

LEMMA InvPrinted == IInv => PrintedInOrder
<1> SUFFICES ASSUME IInv, pc = "done", refused = ""
             PROVE  /\ Tiles(shown)
                    /\ \A a, b \in 1 .. Len(shown) : a < b => Before(shown[a], shown[b])
  BY DEF PrintedInOrder
<1>1. /\ Laid(f, rec.words) /\ rec \in Candidates /\ f \in Seq(Nat)
      /\ shown = f /\ SortedTo(f, Len(f))
  BY DEF IInv, TypeOK, Filled, Accepted, Printed
<1>2. Tiles(shown)
  BY <1>1, LaidTiles
<1>3. \A b \in 1 .. Len(f) : b <= Len(f)
  <2>1. Len(f) \in Nat
    BY FieldType
  <2> QED BY ONLY <2>1
<1> QED BY <1>1, <1>2, <1>3 DEF SortedTo

(* Whatever words a decoder leaves, f never gets more entries than its     *)
(* array has.                                                              *)
THEOREM TypeCorrect == Spec => []TypeOK
<1>1. IInv => TypeOK
  BY DEF IInv
<1> QED BY <1>1, InitInv, NextInv, PTL DEF Spec

(* A record that passes put_record's checks has every word after its head  *)
(* in exactly one field, and the printing reads none outside it.           *)
THEOREM FieldsTile == Spec => []FieldsTileRecord
BY InitInv, NextInv, InvFields, PTL DEF Spec

(* The insertion sort of put_record is stable and loses no field: what is  *)
(* printed is every field of the record once, by id, and in the order      *)
(* written within an id.                                                   *)
THEOREM PrintsInOrder == Spec => []PrintedInOrder
BY InitInv, NextInv, InvPrinted, PTL DEF Spec

-----------------------------------------------------------------------------
(* The parse of a record that the writers laid out is always at one of its *)
(* fields, or at its end, and f holds no more than the fields before.      *)
AtField ==
  \A starts \in SUBSET (2 .. rec.words - 1) :
    LaysOut(starts) =>
      w \in starts \cup {rec.words} /\ Len(f) <= Cardinality({k \in starts : k < w})

WInv ==
  /\ rec \in Candidates /\ TypeOK
  /\ pc \in {"head", "parse"} => refused = ""
  /\ pc = "head" => w = 2 /\ f = <<>>
  /\ pc = "parse" => AtField
  /\ WrittenIsPrinted

(* The formatter steps over a field by as much as its writer stored.       *)
LEMMA StepsAsWritten ==
  ASSUME NEW k, WrittenAs(Header(k)).hi = Header(k).hi
  PROVE  Words(k) = WrittenAs(Header(k)).span /\ WrittenAs(Header(k)).id = Id(k)
BY DEF Words, field_words, WrittenAs, rec_hex, rec_u64, rec_u32, Header, Id

LEMMA FieldAccepted ==
  ASSUME WInv, pc = "parse", w < rec.words, NEW starts \in SUBSET (2 .. rec.words - 1), LaysOut(starts)
  PROVE  /\ w \in starts /\ FieldFault(Header(w)) = ""
         /\ w + Words(w) \in starts \cup {rec.words}
         /\ Len(f) + 1 <= Cardinality({k \in starts : k < w + Words(w)})
<1>1. rec.words \in Nat /\ w \in Nat /\ Len(f) \in Nat /\ MAX_FIELDS \in Nat
  <2>1. w \in Nat /\ f \in Seq(Nat) /\ rec \in Candidates
    BY Zenon DEF WInv, TypeOK
  <2>2. rec.words \in Nat /\ MAX_FIELDS \in Nat
    BY <2>1, CandidatesAssumption, MaxFieldsAssumption
  <2> QED BY <2>1, <2>2, LenProperties
<1>2. w \in starts /\ Len(f) <= Cardinality({k \in starts : k < w})
  <2>1. w \in starts \cup {rec.words} /\ Len(f) <= Cardinality({k \in starts : k < w})
    BY Zenon DEF WInv, AtField
  <2>2. w # rec.words
    BY <1>1
  <2> QED BY <2>1, <2>2, Zenon
<1> DEFINE field == WrittenAs(Header(w))
           upto == {k \in starts : k < w}
<1>3. field.id < F_COUNT /\ field.mid = Header(w).mid /\ field.hi = Header(w).hi
      /\ w + field.span \in starts \cup {rec.words} /\ Cardinality(starts) <= MAX_FIELDS
  BY <1>2 DEF LaysOut
<1>4. Words(w) = field.span /\ field.id = Id(w)
  BY <1>3, StepsAsWritten
<1>5. Words(w) \in Nat \ {0}
  BY <1>2, WordsType DEF WInv
<1>6. IsFiniteSet(starts)
  <2>1. IsFiniteSet(2 .. rec.words - 1)
    <3>1. 2 \in Int /\ rec.words - 1 \in Int
      BY <1>1
    <3> QED BY <3>1, FS_Interval
  <2> QED BY <2>1, FS_Subset
<1>7. /\ IsFiniteSet(upto) /\ w \notin upto /\ upto \cup {w} \subseteq starts
      /\ upto \cup {w} \subseteq {k \in starts : k < w + Words(w)}
  <2>1. IsFiniteSet(upto)
    BY <1>6, FS_Subset
  <2>2. \A k \in starts : k \in Nat
    BY <1>1
  <2>3. w < w + Words(w) /\ ~(w < w) /\ \A k \in Nat : k < w => k < w + Words(w)
    BY <1>1, <1>5
  <2> QED BY <1>2, <2>1, <2>2, <2>3
<1>8. Cardinality(upto \cup {w}) = Cardinality(upto) + 1 /\ Cardinality(upto) \in Nat
  BY <1>7, FS_AddElement, FS_CardinalityType
<1>9. Cardinality(upto \cup {w}) <= Cardinality(starts) /\ Cardinality(starts) \in Nat
  BY <1>6, <1>7, FS_Subset, FS_CardinalityType
<1>10. Cardinality(upto \cup {w}) <= Cardinality({k \in starts : k < w + Words(w)})
       /\ Cardinality({k \in starts : k < w + Words(w)}) \in Nat
  <2>1. IsFiniteSet({k \in starts : k < w + Words(w)})
    BY <1>6, FS_Subset
  <2> QED BY <1>7, <2>1, FS_Subset, FS_CardinalityType
<1>11. Len(f) # MAX_FIELDS
  BY <1>1, <1>2, <1>3, <1>8, <1>9
<1>12. FieldFault(Header(w)) = ""
  <2>1. Header(w).id < F_COUNT /\ ~(Header(w).id >= F_COUNT)
    <3>1. Header(w).id \in Nat
      BY <1>2, WordsType DEF WInv, Header, Id
    <3> QED BY <1>3, <1>4, <3>1 DEF Header, Id, F_COUNT
  <2>2. Header(w).mid = 0 /\ (~IsHex(Header(w).id) => Header(w).hi = 0)
    BY <1>3 DEF WrittenAs, rec_hex, rec_u64, rec_u32
  <2> QED BY <1>11, <2>1, <2>2 DEF FieldFault
<1>13. Len(f) + 1 <= Cardinality({k \in starts : k < w + Words(w)})
  BY <1>1, <1>2, <1>8, <1>10
<1> QED BY <1>2, <1>3, <1>4, <1>12, <1>13

LEMMA WInvInit == Init => WInv
<1> SUFFICES ASSUME Init PROVE WInv
  OBVIOUS
<1>1. TypeOK /\ rec \in Candidates
  BY InitInv DEF IInv
<1> QED BY <1>1 DEF Init, WInv, WrittenIsPrinted

LEMMA WInvStep == IInv /\ WInv /\ [Next]_vars => WInv'
<1> SUFFICES ASSUME IInv, WInv, [Next]_vars PROVE WInv'
  OBVIOUS
<1>1. TypeOK' /\ rec' \in Candidates
  BY NextInv DEF IInv
<1>2. rec' = rec /\ (IsWritten' <=> IsWritten)
  <2>1. rec' = rec
    BY Zenon DEF Next, Done, vars, CheckHead, ParseField, ParseEnds, Take, Shift, Drop, SortEnds,
                 PrintField, PrintEnds
  <2>2. HeadFault' = HeadFault
    BY <2>1 DEF HeadFault
  <2>3. \A k : Header(k)' = Header(k)
    BY <2>1 DEF Header
  <2>4. \A starts : LaysOut(starts)' <=> LaysOut(starts)
    BY <2>1, <2>3 DEF LaysOut, Header
  <2> QED BY <2>1, <2>2, <2>4, Zenon DEF IsWritten
<1>3. \A starts : LaysOut(starts)' <=> LaysOut(starts)
  BY <1>2 DEF LaysOut, Header
<1>4. CASE CheckHead
  <2>1. pc = "head" /\ w = 2 /\ f = <<>> /\ w' = w /\ f' = f
    BY <1>4 DEF CheckHead, WInv
  <2>2. CASE HeadFault # ""
    BY <1>1, <1>2, <1>4, <2>2 DEF CheckHead, Refuse, WInv, WrittenIsPrinted, IsWritten
  <2>3. CASE HeadFault = ""
    <3>1. pc' = "parse" /\ refused' = refused
      BY <1>4, <2>3 DEF CheckHead
    <3>2. AtField'
      <4> SUFFICES ASSUME NEW starts \in SUBSET (2 .. rec.words - 1), LaysOut(starts)
                   PROVE  2 \in starts \cup {rec.words} /\ 0 <= Cardinality({k \in starts : k < 2})
        BY <1>2, <1>3, <2>1 DEF AtField
      <4>1. {k \in starts : k < 2} = {}
        <5>1. rec.words \in Nat
          BY CandidatesAssumption DEF WInv
        <5>2. \A k \in 2 .. rec.words - 1 : ~(k < 2)
          BY <5>1
        <5> QED BY <5>2
      <4>2. Cardinality({k \in starts : k < 2}) = 0
        BY <4>1, FS_EmptySet
      <4> QED BY <4>2 DEF LaysOut
    <3> QED BY <1>1, <1>2, <2>1, <3>1, <3>2 DEF WInv, WrittenIsPrinted
  <2> QED BY <2>2, <2>3
<1>5. CASE ParseField
  <2>1. pc = "parse" /\ w < rec.words /\ refused = ""
    BY <1>5 DEF ParseField, WInv
  <2>2. CASE FieldFault(Header(w)) # ""
    <3>1. ~IsWritten
      BY <2>1, <2>2, FieldAccepted DEF IsWritten
    <3> QED BY <1>1, <1>2, <1>5, <2>2, <3>1 DEF ParseField, Refuse, WInv, WrittenIsPrinted
  <2>3. CASE FieldFault(Header(w)) = ""
    <3>1. f' = Append(f, w) /\ w' = w + Words(w) /\ pc' = pc /\ refused' = refused
      BY <1>5, <2>3 DEF ParseField
    <3>2. Len(f') = Len(f) + 1
      <4>1. f \in Seq(Nat) /\ w \in Nat
        BY Zenon DEF WInv, TypeOK
      <4> QED BY <3>1, <4>1, AppendProperties
    <3>3. AtField'
      <4> SUFFICES ASSUME NEW starts \in SUBSET (2 .. rec.words - 1), LaysOut(starts)
                   PROVE  /\ w' \in starts \cup {rec.words}
                          /\ Len(f') <= Cardinality({k \in starts : k < w'})
        BY <1>2, <1>3 DEF AtField
      <4> QED BY <2>1, <3>1, <3>2, FieldAccepted
    <3> QED BY <1>1, <1>2, <2>1, <3>1, <3>3 DEF WInv, WrittenIsPrinted
  <2> QED BY <2>2, <2>3
<1>6. CASE ParseEnds
  <2>1. pc = "parse" /\ w >= rec.words /\ refused = ""
    BY <1>6 DEF ParseEnds, WInv
  <2>2. Overruns => ~IsWritten
    <3> SUFFICES ASSUME NEW starts \in SUBSET (2 .. rec.words - 1), LaysOut(starts) PROVE ~Overruns
      BY DEF IsWritten
    <3>1. w \in starts \cup {rec.words}
      BY <2>1 DEF WInv, AtField
    <3>2. rec.words \in Nat /\ w >= rec.words
      BY <2>1, CandidatesAssumption DEF WInv
    <3>3. \A k \in 2 .. rec.words - 1 : ~(k >= rec.words)
      BY <3>2
    <3>4. w = rec.words
      BY <3>1, <3>2, <3>3
    <3> QED BY <3>4 DEF Overruns
  <2> QED BY <1>1, <1>2, <1>6, <2>1, <2>2 DEF ParseEnds, Refuse, WInv, WrittenIsPrinted
<1>7. CASE Take \/ Shift \/ Drop \/ SortEnds \/ PrintField \/ PrintEnds
  <2>1. pc' \notin {"head", "parse"} /\ refused' = refused
    BY <1>7 DEF Take, Shift, Drop, SortEnds, PrintField, PrintEnds
  <2> QED BY <1>1, <1>2, <2>1 DEF WInv, WrittenIsPrinted
<1>8. CASE UNCHANGED vars
  <2>1. AtField' <=> AtField
    BY <1>2, <1>3, <1>8 DEF AtField, vars
  <2> QED BY <1>1, <1>2, <1>8, <2>1 DEF vars, WInv, WrittenIsPrinted
<1> QED BY <1>4, <1>5, <1>6, <1>7, <1>8 DEF Next, Done

(* put_record never refuses what records.h's writers laid out: any fields, *)
(* of any kinds and lengths that their headers can state, repeated or not, *)
(* up to the size of f.                                                    *)
THEOREM WrittenPrinted == Spec => []WrittenIsPrinted
<1>1. WInv => WrittenIsPrinted
  BY DEF WInv
<1> QED BY <1>1, InitInv, NextInv, WInvInit, WInvStep, PTL DEF Spec
==============================================================================
