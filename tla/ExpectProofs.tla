----------------------------- MODULE ExpectProofs -----------------------------
(***************************************************************************)
(* What the harness prints, for every set of images and every limit on     *)
(* connections. Every run of Harness is a run of CanonicalOutput: a record *)
(* that is closed is one more of its connection's log, and what a run      *)
(* prints is the logs, one after another. The harness accepts the files    *)
(* that container.py's unpack() accepts, and prints for them the lines     *)
(* that expect.py predicts.                                                *)
(***************************************************************************)
EXTENDS Expect, HarnessProofs

(* Every set of naturals that is not empty has a least element.            *)
LEMMA NatMin ==
  ASSUME NEW T \in SUBSET Nat, T # {}
  PROVE  \E x \in T : \A y \in T : x <= y
<1> DEFINE R == {ss \in Nat \X Nat : ss[1] < ss[2]}
<1>1. R = OpToRel(<, Nat)
  BY DEF OpToRel
<1>2. IsWellFoundedOn(R, Nat)
  BY <1>1, NatLessThanWellFounded, Zenon
<1>3. PICK x \in T : \A y \in T : <<y, x>> \notin R
  BY <1>2, WFMin
<1>4. \A y \in T : x <= y
  <2> SUFFICES ASSUME NEW y \in T PROVE x <= y
    OBVIOUS
  <2>1. <<y, x>> \notin R
    BY <1>3
  <2> QED BY <2>1
<1> QED BY <1>4

(* A set in ascending order: each number stands behind those below it.     *)
LEMMA InOrderRanks ==
  ASSUME NEW S \in SUBSET Nat, IsFiniteSet(S)
  PROVE  /\ Cardinality(S) \in Nat /\ Len(InOrder(S)) = Cardinality(S)
         /\ InOrder(S) \in [1 .. Cardinality(S) -> S]
         /\ \A m \in 1 .. Cardinality(S) :
              Cardinality({b \in S : b < InOrder(S)[m]}) = m - 1
         /\ \A a \in S : /\ Cardinality({b \in S : b < a}) + 1 \in 1 .. Cardinality(S)
                         /\ InOrder(S)[Cardinality({b \in S : b < a}) + 1] = a
<1> DEFINE B == [a \in S |-> {b \in S : b < a}]
           N == Cardinality(S)
           rank(a) == Cardinality(B[a])
<1>1. B \in [S -> SUBSET S] /\ N \in Nat
  BY FS_CardinalityType
<1>2. /\ \A a \in S : a \notin B[a]
      /\ \A a, b \in S : a = b \/ a \in B[b] \/ b \in B[a]
      /\ \A a, b \in S : a \in B[b] => B[a] \subseteq B[b]
  <2>1. \A a, b \in S : a \in Nat /\ (a \in B[b] <=> a < b)
    OBVIOUS
  <2>2. \A a, b, d \in S : d \in B[a] /\ a \in B[b] => d \in B[b]
    <3> HIDE DEF B
    <3> QED BY ONLY <2>1
  <2>3. \A a, b \in S : a \in B[b] => B[a] \subseteq B[b]
    <3> HIDE DEF B
    <3> QED BY ONLY <1>1, <2>2
  <2>4. \A a, b \in S : a \notin B[a] /\ (a = b \/ a \in B[b] \/ b \in B[a])
    <3> HIDE DEF B
    <3> QED BY ONLY <2>1
  <2> QED BY <2>3, <2>4
<1>3. /\ \A a \in S : rank(a) \in 0 .. N - 1
      /\ \A a, b \in S : rank(a) = rank(b) => a = b
      /\ \A n \in 0 .. N - 1 : \E a \in S : rank(a) = n
  <2> HIDE DEF B
  <2>1. /\ \A a \in S : Cardinality(B[a]) \in 0 .. Cardinality(S) - 1
        /\ \A a, b \in S : Cardinality(B[a]) = Cardinality(B[b]) => a = b
        /\ \A n \in 0 .. Cardinality(S) - 1 : \E a \in S : Cardinality(B[a]) = n
    BY <1>1, <1>2, Ranks, Zenon
  <2> QED BY <2>1
<1>4. InOrder(S) = [m \in 1 .. N |-> CHOOSE a \in S : rank(a) = m - 1]
  <2>1. \A a \in S : rank(a) = Cardinality({b \in S : b < a})
    OBVIOUS
  <2>2. \A m \in 1 .. N : (CHOOSE a \in S : rank(a) = m - 1)
                          = CHOOSE a \in S : Cardinality({b \in S : b < a}) = m - 1
    BY <2>1
  <2> QED BY <2>2 DEF InOrder
<1>5. ASSUME NEW m \in 1 .. N
      PROVE  InOrder(S)[m] \in S /\ rank(InOrder(S)[m]) = m - 1
  <2>1. m - 1 \in 0 .. N - 1
    BY <1>1
  <2>2. InOrder(S)[m] = CHOOSE a \in S : rank(a) = m - 1
    BY <1>4
  <2> HIDE DEF rank
  <2> QED BY <1>3, <2>1, <2>2
<1>6. ASSUME NEW a \in S
      PROVE  rank(a) + 1 \in 1 .. N /\ InOrder(S)[rank(a) + 1] = a
  <2>1. rank(a) \in 0 .. N - 1
    BY <1>3
  <2>2. rank(a) + 1 \in 1 .. N /\ (rank(a) + 1) - 1 = rank(a)
    <3> HIDE DEF rank, N
    <3> QED BY <1>1, <2>1
  <2>3. InOrder(S)[rank(a) + 1] \in S /\ rank(InOrder(S)[rank(a) + 1]) = rank(a)
    BY <1>5, <2>2
  <2> HIDE DEF rank
  <2> QED BY <1>3, <2>2, <2>3
<1>7. InOrder(S) \in [1 .. N -> S] /\ Len(InOrder(S)) = N
  <2>1. InOrder(S) \in [1 .. N -> S]
    <3> HIDE DEF N, rank
    <3> QED BY <1>4, <1>5
  <2>2. InOrder(S) \in Seq(S)
    <3> HIDE DEF N
    <3> QED BY <1>1, <2>1
  <2> HIDE DEF N
  <2> QED BY <1>1, <2>1, <2>2, LenProperties
<1>8. \A m \in 1 .. N : Cardinality({b \in S : b < InOrder(S)[m]}) = m - 1
  BY <1>5
<1>9. \A a \in S : rank(a) = Cardinality({b \in S : b < a})
  OBVIOUS
<1> HIDE DEF rank, B
<1> QED BY <1>1, <1>6, <1>7, <1>8, <1>9

(* A number above all of them comes last.                                  *)
LEMMA InOrderGrows ==
  ASSUME NEW S \in SUBSET Nat, IsFiniteSet(S), NEW x \in Nat, \A b \in S : b < x
  PROVE  /\ Cardinality(S \cup {x}) = Cardinality(S) + 1
         /\ InOrder(S \cup {x})[Cardinality(S) + 1] = x
         /\ \A m \in 1 .. Cardinality(S) : InOrder(S \cup {x})[m] = InOrder(S)[m]
<1> DEFINE T == S \cup {x}
<1>1. x \notin S
  OBVIOUS
<1>2. T \in SUBSET Nat /\ IsFiniteSet(T) /\ Cardinality(T) = Cardinality(S) + 1
  BY <1>1, FS_AddElement
<1>3. \A a \in T : InOrder(T)[Cardinality({b \in T : b < a}) + 1] = a
  <2> HIDE DEF T
  <2> QED BY <1>2, InOrderRanks
<1>4. {b \in T : b < x} = S
  <2>1. \A b \in T : b < x <=> b \in S
    OBVIOUS
  <2> QED BY <2>1
<1>5. InOrder(T)[Cardinality(S) + 1] = x
  BY <1>3, <1>4
<1>6. ASSUME NEW m \in 1 .. Cardinality(S) PROVE InOrder(T)[m] = InOrder(S)[m]
  <2> DEFINE a == InOrder(S)[m]
  <2>1. a \in S /\ Cardinality({b \in S : b < a}) = m - 1
    BY InOrderRanks
  <2> HIDE DEF a
  <2>2. {b \in T : b < a} = {b \in S : b < a}
    BY <2>1
  <2>3. (m - 1) + 1 = m
    BY InOrderRanks
  <2>4. InOrder(T)[m] = a
    BY <1>3, <2>1, <2>2, <2>3
  <2> QED BY <2>4 DEF a
<1> QED BY <1>2, <1>5, <1>6

(* The joins of the first 1 .. n of these sequences. *)
Joins(g, ss, n) == g = [k \in 1 .. n |-> IF k = 1 THEN ss[k] ELSE g[k - 1] \o ss[k]]

(* FlattenSeq has the value its recursion asks for.                        *)
LEMMA Flattens ==
  ASSUME NEW n \in Nat \ {0}, NEW ss, Len(ss) = n
  PROVE  \E g : Joins(g, ss, n) /\ Abstract!FlattenSeq(ss) = g[n]
<1> DEFINE Sat(g, m) == g = [k \in 1 .. m |-> IF k = 1 THEN ss[k] ELSE g[k - 1] \o ss[k]]
           Bad == {m \in Nat \ {0} : ~ \E g : Sat(g, m)}
<1>1. Bad = {}
  <2> SUFFICES ASSUME Bad # {} PROVE FALSE
    OBVIOUS
  <2>1. PICK m \in Bad : \A y \in Bad : m <= y
    <3>1. Bad \in SUBSET Nat
      OBVIOUS
    <3> HIDE DEF Bad
    <3> QED BY <3>1, NatMin
  <2>2. m \in Nat \ {0} /\ ~ \E g : Sat(g, m)
    OBVIOUS
  <2>3. m # 1
    <3>1. [k \in 1 .. 1 |-> ss[1]] = [k \in 1 .. 1 |-> IF k = 1 THEN ss[k] ELSE [j \in 1 .. 1 |-> ss[1]][k - 1] \o ss[k]]
      OBVIOUS
    <3>2. Sat([k \in 1 .. 1 |-> ss[1]], 1)
      BY <3>1
    <3> QED BY <2>2, <3>2
  <2>4. m - 1 \in Nat \ {0} /\ m - 1 \notin Bad
    <3> HIDE DEF Bad
    <3>1. m \in Nat \ {0}
      BY <2>2
    <3>2. m - 1 \in Nat \ {0} /\ ~(m <= m - 1)
      BY <2>3, <3>1
    <3> QED BY <2>1, <3>2
  <2>5. PICK g : Sat(g, m - 1)
    BY <2>4
  <2> DEFINE f == [k \in 1 .. m |-> IF k = m THEN g[m - 1] \o ss[m] ELSE g[k]]
  <2>6. \A k \in 1 .. m : f[k] = IF k = 1 THEN ss[k] ELSE f[k - 1] \o ss[k]
    <3> SUFFICES ASSUME NEW k \in 1 .. m
                 PROVE  f[k] = IF k = 1 THEN ss[k] ELSE f[k - 1] \o ss[k]
      OBVIOUS
    <3>1. CASE k = m
      <4>1. k # 1 /\ k - 1 \in 1 .. m /\ k - 1 # m
        BY <2>2, <2>3, <3>1
      <4>2. f[k - 1] = g[m - 1]
        BY <3>1, <4>1
      <4> QED BY <3>1, <4>1, <4>2
    <3>2. CASE k # m
      <4>1. k \in 1 .. m - 1
        BY <2>2, <3>2
      <4>2. g[k] = IF k = 1 THEN ss[k] ELSE g[k - 1] \o ss[k]
        BY <2>5, <4>1
      <4>3. k # 1 => k - 1 \in 1 .. m /\ k - 1 # m
        BY <2>2, <4>1
      <4> QED BY <3>2, <4>2, <4>3
    <3> QED BY <3>1, <3>2
  <2>7. f = [k \in 1 .. m |-> f[k]]
    OBVIOUS
  <2>8. Sat(f, m)
    <3> HIDE DEF f
    <3> QED BY <2>6, <2>7
  <2> QED BY <2>2, <2>8
<1>2. \E g : Sat(g, n)
  <2>1. n \notin Bad
    BY <1>1
  <2> HIDE DEF Sat
  <2> QED BY <2>1
<1> DEFINE f == CHOOSE g : Sat(g, n)
<1>3. Sat(f, n)
  <2> HIDE DEF Sat
  <2> QED BY <1>2
<1>4. Abstract!FlattenSeq(ss) = f[n]
  BY DEF Abstract!FlattenSeq
<1> HIDE DEF f
<1> QED BY <1>3, <1>4 DEF Joins

LEMMA IsSeq ==
  ASSUME NEW T, NEW n \in Nat, NEW f \in [1 .. n -> T]
  PROVE  f \in Seq(T) /\ Len(f) = n
<1>1. f \in Seq(T)
  OBVIOUS
<1>2. DOMAIN f = 1 .. n /\ DOMAIN f = 1 .. Len(f) /\ Len(f) \in Nat
  BY <1>1, LenProperties
<1> QED BY <1>1, <1>2

LEMMA PrefixIs ==
  ASSUME NEW T, NEW s \in Seq(T), NEW t \in Seq(T), Len(s) <= Len(t),
         \A k \in 1 .. Len(s) : s[k] = t[k]
  PROVE  Abstract!IsPrefix(s, t)
<1> DEFINE n == Len(s)
           u == SubSeq(s, 1, n)
           v == SubSeq(t, 1, n)
<1>1. n \in Nat /\ Len(t) \in Nat
  BY LenProperties
<1>2. \A k \in 1 .. n : s[k] \in T /\ t[k] \in T
  BY <1>1, ElementOfSeq
<1>3. u \in Seq(T) /\ Len(u) = (IF 1 <= n THEN n - 1 + 1 ELSE 0)
      /\ \A k \in 1 .. n - 1 + 1 : u[k] = s[1 + k - 1]
  <2> HIDE DEF n
  <2> QED BY <1>1, <1>2, SubSeqProperties
<1>4. v \in Seq(T) /\ Len(v) = (IF 1 <= n THEN n - 1 + 1 ELSE 0)
      /\ \A k \in 1 .. n - 1 + 1 : v[k] = t[1 + k - 1]
  <2> HIDE DEF n
  <2> QED BY <1>1, <1>2, SubSeqProperties
<1>5. \A k \in 1 .. n : s[k] = t[k]
  OBVIOUS
<1> HIDE DEF n, u, v
<1>6. Len(u) = n /\ Len(v) = n /\ \A k \in 1 .. Len(u) : u[k] = v[k]
  BY ONLY <1>1, <1>3, <1>4, <1>5
<1>7. u = v
  BY ONLY <1>3, <1>4, <1>6, SeqEqual
<1> QED BY <1>7 DEF n, u, v, Abstract!IsPrefix

-----------------------------------------------------------------------------
(* A record as a line and as a stretch of its connection's stream. *)

(* The fields that a stable sort by id puts before field k. *)
Fore(fs, k) == {j \in 1 .. Len(fs) : \/ fs[j].id < fs[k].id
                                     \/ fs[j].id = fs[k].id /\ j < k}

LEMMA SortPlace ==
  ASSUME NEW fs, Len(fs) \in Nat, \A k \in 1 .. Len(fs) : fs[k].id \in Nat
  PROVE  /\ Len(SortById(fs)) = Len(fs) /\ DOMAIN SortById(fs) = 1 .. Len(fs)
         /\ \A k \in 1 .. Len(fs) : SortById(fs)[Cardinality(Fore(fs, k)) + 1] = fs[k]
<1> DEFINE n == Len(fs)
           S == 1 .. n
           B == [k \in S |-> Fore(fs, k)]
           id(k) == fs[k].id
<1>1. SortById(fs) = [m \in S |-> fs[CHOOSE k \in S : Cardinality(Fore(fs, k)) = m - 1]]
  BY DEF SortById, Fore
<1>2. IsFiniteSet(S) /\ Cardinality(S) = n
  <2>1. IsFiniteSet(1 .. n) /\ Cardinality(1 .. n) = (IF 1 > n THEN 0 ELSE n - 1 + 1)
    BY FS_Interval
  <2> QED BY <2>1
<1>3. \A k \in S : id(k) \in Nat /\ k \in Nat
  OBVIOUS
<1>4. B \in [S -> SUBSET S] /\ \A k \in S : B[k] = Fore(fs, k)
  BY DEF Fore
<1>5. \A j, k \in S : j \in B[k] <=> id(j) < id(k) \/ (id(j) = id(k) /\ j < k)
  BY <1>4 DEF Fore
<1>6. n \in Nat
  OBVIOUS
<1> HIDE DEF B, id, n
<1>7. /\ \A k \in S : k \notin B[k]
      /\ \A j, k \in S : j = k \/ j \in B[k] \/ k \in B[j]
  BY ONLY <1>3, <1>5
<1>8. \A j, k \in S : j \in B[k] => B[j] \subseteq B[k]
  <2>1. \A h, j, k \in S : h \in B[j] /\ j \in B[k] => h \in B[k]
    BY ONLY <1>3, <1>5
  <2> QED BY ONLY <1>4, <2>1
<1> HIDE DEF S
<1>9. /\ \A k \in S : Cardinality(B[k]) \in 0 .. n - 1
      /\ \A j, k \in S : Cardinality(B[j]) = Cardinality(B[k]) => j = k
  <2>1. /\ \A k \in S : Cardinality(B[k]) \in 0 .. Cardinality(S) - 1
        /\ \A j, k \in S : Cardinality(B[j]) = Cardinality(B[k]) => j = k
    BY <1>2, <1>4, <1>7, <1>8, Ranks, Zenon
  <2> QED BY <1>2, <2>1
<1> DEFINE rank(k) == Cardinality(Fore(fs, k))
<1>10. \A k \in S : rank(k) \in 0 .. n - 1 /\ \A j \in S : rank(j) = rank(k) => j = k
  BY <1>4, <1>9
<1>11. SortById(fs) = [m \in S |-> fs[CHOOSE k \in S : rank(k) = m - 1]]
  BY <1>1
<1> HIDE DEF rank
<1>12. ASSUME NEW k \in S PROVE SortById(fs)[rank(k) + 1] = fs[k]
  <2>1. rank(k) + 1 \in S /\ (rank(k) + 1) - 1 = rank(k)
    BY <1>6, <1>10 DEF S
  <2>2. (CHOOSE j \in S : rank(j) = rank(k)) = k
    BY <1>10
  <2> QED BY <1>11, <2>1, <2>2
<1>13. DOMAIN SortById(fs) = S /\ Len(SortById(fs)) = n
  <2> DEFINE T == {SortById(fs)[m] : m \in S}
  <2>1. SortById(fs) \in [S -> T] /\ DOMAIN SortById(fs) = S
    BY <1>11
  <2> QED BY <1>6, <2>1, IsSeq DEF S
<1> QED BY <1>12, <1>13 DEF S, n, rank

ChunkShape(n, o, q) ==
  << rec_u32(F_LEN, n), rec_hex(F_BYTES, o, 2 * n), rec_u32(F_AT, q) >>
EndShape(q) == << rec_u32(F_AT, q), rec_u32(F_LEN, 0) >>

LEMMA ChunkStream ==
  ASSUME NEW b, NEW n, NEW o, NEW q, b.fields = ChunkShape(n, o, q)
  PROVE  /\ SortById(b.fields) = << rec_u32(F_AT, q), rec_hex(F_BYTES, o, 2 * n), rec_u32(F_LEN, n) >>
         /\ Stream(b) = [at |-> q, len |-> n]
<1> DEFINE fs == b.fields
           s == SortById(fs)
<1>1. Len(fs) = 3 /\ fs[1] = rec_u32(F_LEN, n) /\ fs[2] = rec_hex(F_BYTES, o, 2 * n) /\ fs[3] = rec_u32(F_AT, q)
  BY DEF ChunkShape
<1>2. fs[1].id = 21 /\ fs[2].id = 7 /\ fs[3].id = 5
  BY <1>1 DEF rec_u32, rec_hex, F_LEN, F_BYTES, F_AT
<1> HIDE DEF fs
<1>3. \A k \in 1 .. 3 : fs[k].id \in Nat
  BY <1>2
<1>4. Len(s) = 3 /\ DOMAIN s = 1 .. 3 /\ \A k \in 1 .. 3 : s[Cardinality(Fore(fs, k)) + 1] = fs[k]
  <2>1. Len(fs) \in Nat /\ \A k \in 1 .. Len(fs) : fs[k].id \in Nat
    BY <1>1, <1>3
  <2>2. /\ Len(s) = Len(fs) /\ DOMAIN s = 1 .. Len(fs)
        /\ \A k \in 1 .. Len(fs) : s[Cardinality(Fore(fs, k)) + 1] = fs[k]
    BY <2>1, SortPlace
  <2> HIDE DEF s
  <2> QED BY <1>1, <2>2
<1>5. Fore(fs, 1) = {2, 3} /\ Fore(fs, 2) = {3} /\ Fore(fs, 3) = {}
  BY <1>1, <1>2 DEF Fore
<1>6. Cardinality({2, 3}) = 2 /\ Cardinality({3}) = 1 /\ Cardinality({}) = 0
  <2>1. Cardinality({3}) = 1 /\ IsFiniteSet({3}) /\ Cardinality({}) = 0
    BY FS_Singleton, FS_EmptySet
  <2>2. Cardinality({3} \cup {2}) = 1 + 1
    BY <2>1, FS_AddElement
  <2>3. {3} \cup {2} = {2, 3}
    OBVIOUS
  <2> QED BY <2>1, <2>2, <2>3
<1> HIDE DEF s
<1>7. s[3] = fs[1] /\ s[2] = fs[2] /\ s[1] = fs[3]
  BY <1>4, <1>5, <1>6
<1>8. s = << fs[3], fs[2], fs[1] >>
  <2>1. s = [k \in DOMAIN s |-> s[k]]
    BY DEF s, SortById
  <2>2. \A k \in 1 .. 3 : s[k] = << fs[3], fs[2], fs[1] >>[k]
    BY <1>7
  <2> QED BY <1>4, <2>1, <2>2
<1>9. Stream(b) = [at |-> s[1].val, len |-> s[3].val]
  BY <1>4 DEF Stream, s, fs
<1> QED BY <1>1, <1>7, <1>8, <1>9 DEF rec_u32, s, fs

LEMMA EndStream ==
  ASSUME NEW b, NEW q, b.fields = EndShape(q)
  PROVE  /\ SortById(b.fields) = << rec_u32(F_AT, q), rec_u32(F_LEN, 0) >>
         /\ Stream(b) = [at |-> q, len |-> 0]
<1> DEFINE fs == b.fields
           s == SortById(fs)
<1>1. Len(fs) = 2 /\ fs[1] = rec_u32(F_AT, q) /\ fs[2] = rec_u32(F_LEN, 0)
  BY DEF EndShape
<1>2. fs[1].id = 5 /\ fs[2].id = 21
  BY <1>1 DEF rec_u32, F_LEN, F_AT
<1> HIDE DEF fs
<1>3. \A k \in 1 .. 2 : fs[k].id \in Nat
  BY <1>2
<1>4. Len(s) = 2 /\ DOMAIN s = 1 .. 2 /\ \A k \in 1 .. 2 : s[Cardinality(Fore(fs, k)) + 1] = fs[k]
  <2>1. Len(fs) \in Nat /\ \A k \in 1 .. Len(fs) : fs[k].id \in Nat
    BY <1>1, <1>3
  <2>2. /\ Len(s) = Len(fs) /\ DOMAIN s = 1 .. Len(fs)
        /\ \A k \in 1 .. Len(fs) : s[Cardinality(Fore(fs, k)) + 1] = fs[k]
    BY <2>1, SortPlace
  <2> HIDE DEF s
  <2> QED BY <1>1, <2>2
<1>5. Fore(fs, 1) = {} /\ Fore(fs, 2) = {1}
  BY <1>1, <1>2 DEF Fore
<1>6. Cardinality({1}) = 1 /\ Cardinality({}) = 0
  BY FS_Singleton, FS_EmptySet
<1> HIDE DEF s
<1>7. s[1] = fs[1] /\ s[2] = fs[2]
  BY <1>4, <1>5, <1>6
<1>8. s = << fs[1], fs[2] >>
  <2>1. s = [k \in DOMAIN s |-> s[k]]
    BY DEF s, SortById
  <2>2. \A k \in 1 .. 2 : s[k] = << fs[1], fs[2] >>[k]
    BY <1>7
  <2> QED BY <1>4, <2>1, <2>2
<1>9. Stream(b) = [at |-> s[1].val, len |-> s[2].val]
  BY <1>4 DEF Stream, s, fs
<1> QED BY <1>1, <1>7, <1>8, <1>9 DEF rec_u32, s, fs

Con(B, k) == {a \in DOMAIN B : B[a].conn = k}
LogIn(B, k) ==
  LET mine == InOrder(Con(B, k))
  IN  [m \in 1 .. Len(mine) |-> Stream(B[mine[m]])]

LEMMA LogIsIn ==
  /\ \A k : LogOf(k) = LogIn(buf, k) /\ Con(buf, k) = Of(k)
  /\ \A k : LogOf(k)' = LogIn(buf', k) /\ Con(buf', k) = Of(k)'
<1>1. \A k : LogOf(k) = LogIn(buf, k) /\ Con(buf, k) = Of(k)
  BY DEF LogOf, LogIn, Con, Of, Stored
<1>2. \A k : LogOf(k)' = LogIn(buf', k) /\ Con(buf', k) = Of(k)'
  BY DEF LogOf, LogIn, Con, Of, Stored
<1> QED BY <1>1, <1>2

LEMMA LogShape ==
  ASSUME NEW B, DOMAIN B \in SUBSET Nat, IsFiniteSet(DOMAIN B), NEW k
  PROVE  /\ Cardinality(Con(B, k)) \in Nat
         /\ Len(LogIn(B, k)) = Cardinality(Con(B, k))
         /\ LogIn(B, k) \in Seq({Stream(B[a]) : a \in DOMAIN B})
         /\ LogIn(B, k) = [m \in 1 .. Cardinality(Con(B, k)) |-> Stream(B[InOrder(Con(B, k))[m]])]
         /\ \A a \in Con(B, k) :
              /\ Cardinality({b \in Con(B, k) : b < a}) + 1 \in 1 .. Cardinality(Con(B, k))
              /\ LogIn(B, k)[Cardinality({b \in Con(B, k) : b < a}) + 1] = Stream(B[a])
<1> DEFINE S == Con(B, k)
           n == Cardinality(S)
           mine == InOrder(S)
           T == {Stream(B[a]) : a \in DOMAIN B}
<1>1. S \in SUBSET Nat /\ IsFiniteSet(S) /\ S \subseteq DOMAIN B
  BY FS_Subset DEF Con
<1>2. /\ n \in Nat /\ Len(mine) = n /\ mine \in [1 .. n -> S]
      /\ \A a \in S : /\ Cardinality({b \in S : b < a}) + 1 \in 1 .. n
                      /\ mine[Cardinality({b \in S : b < a}) + 1] = a
  BY <1>1, InOrderRanks
<1>3. LogIn(B, k) = [m \in 1 .. n |-> Stream(B[mine[m]])]
  BY <1>2 DEF LogIn
<1> HIDE DEF S, n, mine
<1>4. LogIn(B, k) \in [1 .. n -> T]
  BY <1>1, <1>2, <1>3
<1>5. LogIn(B, k) \in Seq(T) /\ Len(LogIn(B, k)) = n
  BY ONLY <1>2, <1>4, IsSeq
<1>6. \A a \in S : LogIn(B, k)[Cardinality({b \in S : b < a}) + 1] = Stream(B[a])
  BY <1>2, <1>3
<1> QED BY <1>2, <1>3, <1>5, <1>6 DEF S, n, mine

LEMMA LogEach ==
  ASSUME NEW B, DOMAIN B \in SUBSET Nat, IsFiniteSet(DOMAIN B), NEW k
  PROVE  LogIn(B, k) = [m \in 1 .. Cardinality(Con(B, k)) |-> Stream(B[InOrder(Con(B, k))[m]])]
<1>1. Con(B, k) \in SUBSET Nat /\ IsFiniteSet(Con(B, k))
  BY FS_Subset DEF Con
<1>2. Len(InOrder(Con(B, k))) = Cardinality(Con(B, k))
  BY <1>1, InOrderRanks
<1> QED BY <1>2 DEF LogIn

LEMMA LogGrows ==
  ASSUME NEW B, DOMAIN B \in SUBSET Nat, IsFiniteSet(DOMAIN B),
         NEW x \in Nat, \A b \in DOMAIN B : b < x,
         NEW C, DOMAIN C = DOMAIN B \cup {x}, \A b \in DOMAIN B : C[b] = B[b]
  PROVE  /\ \A k : k # C[x].conn => LogIn(C, k) = LogIn(B, k)
         /\ Len(LogIn(C, C[x].conn)) = Len(LogIn(B, C[x].conn)) + 1
         /\ Abstract!Last(LogIn(C, C[x].conn)) = Stream(C[x])
         /\ Abstract!IsPrefix(LogIn(B, C[x].conn), LogIn(C, C[x].conn))
<1>1. x \notin DOMAIN B
  OBVIOUS
<1>2. DOMAIN C \in SUBSET Nat /\ IsFiniteSet(DOMAIN C)
  BY FS_AddElement
<1>3. \A k : k # C[x].conn => LogIn(C, k) = LogIn(B, k)
  <2> SUFFICES ASSUME NEW k, k # C[x].conn PROVE LogIn(C, k) = LogIn(B, k)
    OBVIOUS
  <2>1. Con(C, k) = Con(B, k) /\ Con(B, k) \subseteq DOMAIN B
    BY DEF Con
  <2>2. Con(B, k) \in SUBSET Nat /\ IsFiniteSet(Con(B, k))
    BY <2>1, FS_Subset
  <2> DEFINE n == Cardinality(Con(B, k))
             mine == InOrder(Con(B, k))
  <2>3. mine \in [1 .. n -> Con(B, k)]
    BY <2>2, InOrderRanks
  <2>4. LogIn(B, k) = [m \in 1 .. n |-> Stream(B[mine[m]])]
    BY LogEach
  <2>5. LogIn(C, k) = [m \in 1 .. n |-> Stream(C[mine[m]])]
    BY <1>2, <2>1, LogEach
  <2> HIDE DEF n, mine
  <2>6. \A m \in 1 .. n : C[mine[m]] = B[mine[m]]
    BY <2>1, <2>3
  <2> QED BY <2>4, <2>5, <2>6
<1> DEFINE k == C[x].conn
           S == Con(B, k)
           n == Cardinality(S)
<1>4. Con(C, k) = S \cup {x} /\ S \subseteq DOMAIN B
  BY <1>1 DEF Con
<1>5. S \in SUBSET Nat /\ IsFiniteSet(S) /\ \A b \in S : b < x
  BY <1>4, FS_Subset
<1> HIDE DEF k, S
<1>6. /\ n \in Nat /\ InOrder(S) \in [1 .. n -> S]
  BY <1>5, InOrderRanks
<1>7. /\ Cardinality(Con(C, k)) = n + 1
      /\ InOrder(Con(C, k))[n + 1] = x
      /\ \A m \in 1 .. n : InOrder(Con(C, k))[m] = InOrder(S)[m]
  BY <1>4, <1>5, InOrderGrows
<1> DEFINE T == {Stream(B[a]) : a \in DOMAIN B} \cup {Stream(C[a]) : a \in DOMAIN C}
           s == LogIn(B, k)
           t == LogIn(C, k)
<1>8. /\ Len(s) = n /\ s \in Seq({Stream(B[a]) : a \in DOMAIN B})
      /\ s = [m \in 1 .. n |-> Stream(B[InOrder(S)[m]])]
  <2>1. /\ Len(s) = Cardinality(Con(B, k)) /\ s \in Seq({Stream(B[a]) : a \in DOMAIN B})
        /\ s = [m \in 1 .. Cardinality(Con(B, k)) |-> Stream(B[InOrder(Con(B, k))[m]])]
    BY LogShape, Zenon
  <2> QED BY <2>1 DEF S
<1>9. /\ Len(t) = n + 1 /\ t \in Seq({Stream(C[a]) : a \in DOMAIN C})
      /\ t = [m \in 1 .. n + 1 |-> Stream(C[InOrder(Con(C, k))[m]])]
  <2>1. /\ Len(t) = Cardinality(Con(C, k)) /\ t \in Seq({Stream(C[a]) : a \in DOMAIN C})
        /\ t = [m \in 1 .. Cardinality(Con(C, k)) |-> Stream(C[InOrder(Con(C, k))[m]])]
    BY <1>2, LogShape, Zenon
  <2> QED BY <1>7, <2>1
<1>10. s \in Seq(T) /\ t \in Seq(T)
  <2> DEFINE T1 == {Stream(B[a]) : a \in DOMAIN B}
             T2 == {Stream(C[a]) : a \in DOMAIN C}
  <2>1. s \in Seq(T1) /\ t \in Seq(T2) /\ T = T1 \cup T2
    BY <1>8, <1>9
  <2> HIDE DEF s, t, T, T1, T2
  <2>2. T1 \subseteq T /\ T2 \subseteq T
    BY ONLY <2>1
  <2> QED BY ONLY <2>1, <2>2, SeqMonotonic
<1>11. \A m \in 1 .. n : s[m] = t[m]
  <2> SUFFICES ASSUME NEW m \in 1 .. n PROVE s[m] = t[m]
    OBVIOUS
  <2>1. InOrder(S)[m] \in DOMAIN B /\ C[InOrder(S)[m]] = B[InOrder(S)[m]]
    BY <1>4, <1>6
  <2>2. m \in 1 .. n + 1
    BY <1>6
  <2>3. s[m] = Stream(B[InOrder(S)[m]])
    BY <1>8
  <2>4. t[m] = Stream(C[InOrder(S)[m]])
    BY <1>7, <1>9, <2>2
  <2> QED BY <2>1, <2>3, <2>4
<1>12. t[n + 1] = Stream(C[x])
  <2>1. n + 1 \in 1 .. n + 1
    BY <1>6
  <2> QED BY <1>7, <1>9, <2>1
<1> HIDE DEF s, t, T, n
<1>13. Abstract!IsPrefix(s, t)
  <2>1. Len(s) = n /\ Len(t) = n + 1
    BY <1>8, <1>9
  <2>2. Len(s) <= Len(t)
    BY ONLY <1>6, <2>1
  <2>3. \A m \in 1 .. Len(s) : s[m] = t[m]
    BY ONLY <1>11, <2>1
  <2> QED BY ONLY <1>10, <2>2, <2>3, PrefixIs
<1>14. Abstract!Last(t) = Stream(C[x])
  BY <1>9, <1>12 DEF Abstract!Last
<1> QED BY <1>3, <1>8, <1>9, <1>13, <1>14 DEF s, t, k

LEMMA PlaceIn ==
  ASSUME IInv, pc \in Sorts, IsFiniteSet(Stored), NEW a \in Stored
  PROVE  LET k == buf[a].conn
             n == Cardinality({b \in Of(k) : b < a})
         IN  /\ k \in Nat /\ a \in Of(k) /\ Cardinality(Of(k)) \in Nat /\ Cardinality(Below(k)) \in Nat
             /\ n \in 0 .. Cardinality(Of(k)) - 1
             /\ Place(a) = Cardinality(Below(k)) + n
<1> DEFINE k == buf[a].conn
           n == Cardinality({b \in Of(k) : b < a})
<1>1. k \in Nat /\ a \in Of(k) /\ Of(k) \subseteq Stored /\ Below(k) \subseteq Stored /\ Stored \subseteq Nat
  BY StoredTypes DEF Of, Below
<1>2. Of(k) \in SUBSET Nat /\ IsFiniteSet(Of(k)) /\ IsFiniteSet(Below(k))
  BY <1>1, FS_Subset
<1>3. Cardinality(Of(k)) \in Nat /\ n + 1 \in 1 .. Cardinality(Of(k))
  <2> HIDE DEF k
  <2> QED BY <1>1, <1>2, InOrderRanks
<1>4. Cardinality(Below(k)) \in Nat
  BY <1>2, FS_CardinalityType
<1>5. n \in Nat
  <2>1. {b \in Of(k) : b < a} \subseteq Of(k)
    OBVIOUS
  <2> QED BY <1>2, <2>1, FS_Subset, FS_CardinalityType
<1>6. Place(a) = Cardinality(Below(k)) + n
  BY PlaceSplits
<1> HIDE DEF k, n
<1>7. n \in 0 .. Cardinality(Of(k)) - 1
  BY ONLY <1>3, <1>5
<1> QED BY <1>1, <1>3, <1>4, <1>6, <1>7 DEF k, n

(* ss holds a sequence for each connection: E of its records, in order. *)
PerConn(ss, T, E, n) ==
  /\ Len(ss) = n
  /\ \A k \in 0 .. n - 1 :
       /\ ss[k + 1] \in Seq(T) /\ Len(ss[k + 1]) = Cardinality(Of(k))
       /\ \A a \in Of(k) : ss[k + 1][Cardinality({b \in Of(k) : b < a}) + 1] = E[a]

(* The connections' sequences, one after another: each record is at its place. *)
LEMMA FlattenPlaces ==
  ASSUME IInv, pc \in Sorts, IsFiniteSet(Stored),
         NEW T, NEW E \in [Stored -> T], NEW n \in Nat \ {0}, NEW ss, PerConn(ss, T, E, n)
  PROVE  /\ Abstract!FlattenSeq(ss) \in Seq(T)
         /\ Len(Abstract!FlattenSeq(ss)) = Cardinality(Below(n))
         /\ \A a \in Below(n) : Abstract!FlattenSeq(ss)[Place(a) + 1] = E[a]
<1>1. PICK g : Joins(g, ss, n) /\ Abstract!FlattenSeq(ss) = g[n]
  BY Flattens DEF PerConn
<1> DEFINE G == [k \in 0 .. n |-> IF k = 0 THEN <<>> ELSE g[k]]
           card(k) == Cardinality(Below(k))
           Good(k) == /\ G[k] \in Seq(T) /\ Len(G[k]) = card(k)
                      /\ \A a \in Below(k) : Place(a) < card(k) /\ G[k][Place(a) + 1] = E[a]
<1>2. \A k \in 0 .. n - 1 : G[k + 1] = G[k] \o ss[k + 1]
  <2> SUFFICES ASSUME NEW k \in 0 .. n - 1 PROVE G[k + 1] = G[k] \o ss[k + 1]
    OBVIOUS
  <2>1. k + 1 \in 1 .. n /\ k \in 0 .. n /\ k + 1 \in 0 .. n /\ k + 1 # 0 /\ (k + 1) - 1 = k
    OBVIOUS
  <2>2. g[k + 1] = IF k + 1 = 1 THEN ss[k + 1] ELSE g[(k + 1) - 1] \o ss[k + 1]
    BY <1>1, <2>1 DEF Joins
  <2>3. G[k + 1] = g[k + 1] /\ G[k] = IF k = 0 THEN <<>> ELSE g[k]
    BY <2>1
  <2> HIDE DEF G
  <2>4. CASE k = 0
    <3>1. <<>> \o ss[k + 1] = ss[k + 1]
      BY ConcatEmptySeq
    <3> QED BY <2>2, <2>3, <2>4, <3>1
  <2>5. CASE k # 0
    <3>1. k + 1 # 1
      BY <2>5
    <3>2. g[k + 1] = g[k] \o ss[k + 1]
      BY <2>1, <2>2, <3>1, Zenon
    <3> QED BY <2>3, <2>5, <3>2, Zenon
  <2> QED BY <2>4, <2>5
<1>3. Abstract!FlattenSeq(ss) = G[n] /\ G[0] = <<>>
  BY <1>1
<1> HIDE DEF G
<1>4. \A a \in Stored : a \in Nat /\ buf[a].conn \in Nat
  BY StoredTypes
<1>5. \A k \in Nat : card(k) \in Nat /\ Cardinality(Of(k)) \in Nat /\ card(k + 1) = card(k) + Cardinality(Of(k))
  <2> SUFFICES ASSUME NEW k \in Nat
               PROVE  card(k) \in Nat /\ Cardinality(Of(k)) \in Nat /\ card(k + 1) = card(k) + Cardinality(Of(k))
    OBVIOUS
  <2>1. Of(k) \subseteq Stored /\ Below(k) \subseteq Stored
    BY DEF Of, Below
  <2>2. card(k) \in Nat /\ Cardinality(Of(k)) \in Nat
    BY <2>1, FS_Subset, FS_CardinalityType
  <2> QED BY <2>2, BelowNext
<1>6. Good(0)
  <2>1. Below(0) = {}
    BY <1>4 DEF Below
  <2>2. card(0) = 0
    BY <2>1, FS_EmptySet
  <2>3. <<>> \in Seq(T) /\ Len(<<>>) = 0
    OBVIOUS
  <2> QED BY <1>3, <2>1, <2>2, <2>3
<1>7. ASSUME NEW k \in 0 .. n - 1, Good(k) PROVE Good(k + 1)
  <2> DEFINE s == ss[k + 1]
             m == Cardinality(Of(k))
  <2>1. k \in Nat /\ G[k] \in Seq(T) /\ s \in Seq(T) /\ Len(G[k]) = card(k) /\ Len(s) = m
        /\ G[k + 1] = G[k] \o s
    <3>1. k \in Nat
      OBVIOUS
    <3>2. s \in Seq(T) /\ Len(s) = m
      BY DEF PerConn
    <3>3. G[k] \in Seq(T) /\ Len(G[k]) = card(k)
      BY <1>7, Zenon
    <3>4. G[k + 1] = G[k] \o s
      BY <1>2, Zenon
    <3> QED BY <3>1, <3>2, <3>3, <3>4, Zenon
  <2>2. card(k) \in Nat /\ m \in Nat /\ card(k + 1) = card(k) + m
    BY <1>5, <2>1
  <2> HIDE DEF s, m, card
  <2>3. /\ G[k + 1] \in Seq(T) /\ Len(G[k + 1]) = card(k) + m
        /\ \A j \in 1 .. card(k) + m :
             G[k + 1][j] = IF j <= card(k) THEN G[k][j] ELSE s[j - card(k)]
    <3>1. /\ G[k] \o s \in Seq(T) /\ Len(G[k] \o s) = Len(G[k]) + Len(s)
          /\ \A j \in 1 .. Len(G[k]) + Len(s) :
               (G[k] \o s)[j] = IF j <= Len(G[k]) THEN G[k][j] ELSE s[j - Len(G[k])]
      BY ONLY <2>1, ConcatProperties, Zenon
    <3> QED BY ONLY <2>1, <3>1, Zenon
  <2>4. ASSUME NEW a \in Below(k + 1)
        PROVE  Place(a) < card(k + 1) /\ G[k + 1][Place(a) + 1] = E[a]
    <3>1. a \in Stored /\ (a \in Below(k) \/ (a \in Of(k) /\ buf[a].conn = k))
      BY <1>4, <2>1 DEF Below, Of
    <3> DEFINE rank == Cardinality({b \in Of(buf[a].conn) : b < a})
    <3>2. /\ Cardinality(Below(buf[a].conn)) \in Nat
          /\ rank \in 0 .. Cardinality(Of(buf[a].conn)) - 1
          /\ Place(a) = Cardinality(Below(buf[a].conn)) + rank
          /\ Cardinality(Of(buf[a].conn)) \in Nat
      BY <3>1, PlaceIn
    <3> HIDE DEF rank
    <3>3. Place(a) \in Nat
      BY <3>2
    <3>4. CASE a \in Below(k)
      <4>1. Place(a) < card(k) /\ G[k][Place(a) + 1] = E[a]
        BY <1>7, <3>4 DEF card
      <4>2. Place(a) < card(k + 1) /\ Place(a) + 1 \in 1 .. card(k) + m /\ Place(a) + 1 <= card(k)
        BY ONLY <2>2, <3>3, <4>1
      <4> QED BY ONLY <2>3, <4>1, <4>2
    <3>5. CASE a \in Of(k) /\ buf[a].conn = k
      <4>1. rank \in 0 .. m - 1 /\ Place(a) = card(k) + rank
        BY <3>2, <3>5 DEF card, m
      <4>2. /\ Place(a) < card(k + 1) /\ Place(a) + 1 \in 1 .. card(k) + m
            /\ ~(Place(a) + 1 <= card(k)) /\ (Place(a) + 1) - card(k) = rank + 1
        BY ONLY <2>2, <4>1
      <4>3. G[k + 1][Place(a) + 1] = s[rank + 1]
        BY ONLY <2>3, <4>2
      <4>4. s[rank + 1] = E[a]
        BY <3>5 DEF s, rank, PerConn
      <4> QED BY <4>2, <4>3, <4>4
    <3> QED BY <3>1, <3>4, <3>5
  <2> QED BY <2>2, <2>3, <2>4 DEF card
<1> DEFINE Bad == {k \in 0 .. n : ~Good(k)}
<1>8. Bad = {}
  <2> SUFFICES ASSUME Bad # {} PROVE FALSE
    OBVIOUS
  <2>1. Bad \in SUBSET Nat
    OBVIOUS
  <2>2. PICK m \in Bad : \A y \in Bad : m <= y
    <3> HIDE DEF Bad
    <3> QED BY <2>1, NatMin
  <2>3. m \in 0 .. n /\ ~Good(m)
    OBVIOUS
  <2>4. m # 0
    BY <1>6, <2>3
  <2>5. m - 1 \in 0 .. n - 1 /\ m - 1 \in 0 .. n /\ (m - 1) + 1 = m /\ ~(m <= m - 1)
    BY <2>3, <2>4
  <2>6. m - 1 \notin Bad
    <3> HIDE DEF Bad
    <3> QED BY <2>2, <2>5
  <2>7. Good(m - 1)
    BY <2>5, <2>6
  <2> HIDE DEF Good, Bad
  <2> QED BY <1>7, <2>3, <2>5, <2>7
<1>9. Good(n)
  <2>1. n \in 0 .. n /\ n \notin Bad
    BY <1>8
  <2> QED BY <2>1
<1> QED BY <1>3, <1>9

-----------------------------------------------------------------------------
(* The invariant of the refinement. *)

(* check() let no more connections through than the logs are for. *)
Within == pc \notin {"check", "done"} => Connections \in 1 .. MaxConnections

(* A record is of a chunk, or of an end of input. *)
IsChunk(b, n, o, q) == n \in 0 .. Half - 1 /\ o \in Nat /\ q \in Nat /\ b.fields = ChunkShape(n, o, q)
IsEnd(b, q) == q \in Nat /\ b.fields = EndShape(q)
Shape(b) == (\E n, o, q : IsChunk(b, n, o, q)) \/ (\E q : IsEnd(b, q))
Shaped == \A a \in Stored : Shape(buf[a])

(* While no record is lost, at says where a connection's log ends. *)
Continued ==
  pc \in Filling /\ ~rec_full => \A k \in ConnIds : at[k] = Abstract!NextByte(LogOf(k))

(* Each line is its record's, unless that cannot be read. *)
LineAt(j) == LET b == buf[base + index[j]] IN IF Legible(b) THEN Line(b) ELSE Garbled
Printed == pc = "print" => \A j \in 0 .. i - 1 : out.lines[j + 1] = LineAt(j)

SimInv == Within /\ Shaped /\ Continued /\ Printed

(* What a record's line shows of it. *)
LEMMA ShapeType ==
  ASSUME NEW b, Shape(b)
  PROVE  Stream(b).at \in Nat /\ Stream(b).len \in Nat
         /\ Stream(b) = [at |-> Stream(b).at, len |-> Stream(b).len]
<1>1. ASSUME NEW n, NEW o, NEW q, IsChunk(b, n, o, q)
      PROVE  Stream(b) = [at |-> q, len |-> n] /\ q \in Nat /\ n \in Nat
  BY <1>1, ChunkStream DEF IsChunk
<1>2. ASSUME NEW q, IsEnd(b, q)
      PROVE  Stream(b) = [at |-> q, len |-> 0] /\ q \in Nat
  BY <1>2, EndStream DEF IsEnd
<1>3. CASE \E n, o, q : IsChunk(b, n, o, q)
  BY <1>1, <1>3
<1>4. CASE \E q : IsEnd(b, q)
  BY <1>2, <1>4
<1> QED BY <1>3, <1>4 DEF Shape

LEMMA LineShows ==
  ASSUME NEW b, Shape(b), b.conn \in Nat, b.protocol \in 0..255
  PROVE  /\ PublishedLine(Line(b)) = [conn |-> b.conn, at |-> Stream(b).at, len |-> Stream(b).len]
         /\ Legible(b) \/ Stream(b).len >= Half \div 2
<1> DEFINE Shows == [id : Nat, val : Nat, digits : Nat]
           fs == SortById(b.fields)
           ls == [k \in 1 .. Len(fs) |-> Shown(fs[k])]
<1>1. Line(b) = [conn |-> b.conn, protocol |-> b.protocol, fields |-> ls]
  BY DEF Line
<1>2. ASSUME ls \in Seq(Shows) PROVE Line(b) # Garbled
  <2> HIDE DEF ls
  <2>1. Line(b) \in [conn : Nat, protocol : 0..255, fields : Seq(Shows)]
    BY <1>1, <1>2
  <2> QED BY <2>1, GarbledAssumption
<1>3. ASSUME NEW n, NEW o, NEW q, IsChunk(b, n, o, q)
      PROVE  /\ PublishedLine(Line(b)) = [conn |-> b.conn, at |-> q, len |-> n]
             /\ Legible(b) \/ n >= Half \div 2
  <2>1. n \in 0 .. Half - 1 /\ o \in Nat /\ q \in Nat /\ b.fields = ChunkShape(n, o, q)
    BY <1>3 DEF IsChunk
  <2>2. fs = << rec_u32(F_AT, q), rec_hex(F_BYTES, o, 2 * n), rec_u32(F_LEN, n) >>
    BY <2>1, ChunkStream
  <2> DEFINE x == [id |-> F_AT, val |-> q, digits |-> 0]
             y == [id |-> F_BYTES, val |-> o, digits |-> (2 * n) % Half]
             z == [id |-> F_LEN, val |-> n, digits |-> 0]
  <2>3. Shown(rec_u32(F_AT, q)) = x /\ Shown(rec_hex(F_BYTES, o, 2 * n)) = y /\ Shown(rec_u32(F_LEN, n)) = z
    BY DEF Shown, rec_u32, rec_hex
  <2>4. ls = << x, y, z >>
    <3> HIDE DEF fs, x, y, z
    <3>1. fs[1] = rec_u32(F_AT, q) /\ fs[2] = rec_hex(F_BYTES, o, 2 * n) /\ fs[3] = rec_u32(F_LEN, n) /\ Len(fs) = 3
      BY <2>2
    <3>2. \A k \in 1 .. 3 : Shown(fs[k]) = << x, y, z >>[k]
      BY <2>3, <3>1
    <3> QED BY <3>1, <3>2
  <2>5. x \in Shows /\ y \in Shows /\ z \in Shows
    <3>1. (2 * n) % Half \in Nat /\ n \in Nat
      BY <2>1, SMT DEF Half
    <3> QED BY <2>1, <3>1 DEF F_AT, F_BYTES, F_LEN
  <2>6. x.val = q /\ z.val = n
    OBVIOUS
  <2> HIDE DEF x, y, z, ls, Shows
  <2>7. ls \in Seq(Shows) /\ Len(ls) = 3 /\ ls[1] = x /\ ls[3] = z
    BY <2>4, <2>5
  <2>8. PublishedLine(Line(b)) = [conn |-> b.conn, at |-> q, len |-> n]
    <3>1. Line(b).conn = b.conn /\ Line(b).fields = ls
      BY <1>1
    <3>2. Line(b) # Garbled
      BY <1>2, <2>7
    <3>3. PublishedLine(Line(b)) = [conn |-> b.conn, at |-> ls[1].val, len |-> ls[Len(ls)].val]
      BY <3>1, <3>2 DEF PublishedLine
    <3> QED BY <2>6, <2>7, <3>3
  <2>9. ASSUME ~(n >= Half \div 2) PROVE Legible(b)
    <3>1. n \in Nat /\ (2 * n) % Half = 2 * n
      <4>1. n \in Nat /\ n <= Half - 1
        BY <2>1 DEF Half
      <4>2. n < 32768
        BY <2>9, <4>1 DEF Half
      <4> QED BY <4>1, <4>2 DEF Half
    <3>2. StepsExactly(rec_u32(F_LEN, n)) /\ StepsExactly(rec_u32(F_AT, q))
      BY DEF StepsExactly, field_words, rec_u32, IsHex, IsU64, F_LEN, F_AT, F_BYTES, F_DEVICE,
         F_TEXT, F_ODOMETER
    <3>3. StepsExactly(rec_hex(F_BYTES, o, 2 * n))
      BY <3>1 DEF StepsExactly, field_words, rec_hex, IsHex
    <3>4. \A k \in 1 .. Len(ChunkShape(n, o, q)) : StepsExactly(ChunkShape(n, o, q)[k])
      BY <3>2, <3>3 DEF ChunkShape
    <3> QED BY <2>1, <3>4 DEF Legible
  <2> QED BY <2>8, <2>9
<1>4. ASSUME NEW q, IsEnd(b, q)
      PROVE  PublishedLine(Line(b)) = [conn |-> b.conn, at |-> q, len |-> 0] /\ Legible(b)
  <2>1. q \in Nat /\ b.fields = EndShape(q)
    BY <1>4 DEF IsEnd
  <2>2. fs = << rec_u32(F_AT, q), rec_u32(F_LEN, 0) >>
    BY <2>1, EndStream
  <2> DEFINE x == [id |-> F_AT, val |-> q, digits |-> 0]
             z == [id |-> F_LEN, val |-> 0, digits |-> 0]
  <2>3. Shown(rec_u32(F_AT, q)) = x /\ Shown(rec_u32(F_LEN, 0)) = z
    BY DEF Shown, rec_u32
  <2>4. ls = << x, z >>
    <3> HIDE DEF fs, x, z
    <3>1. fs[1] = rec_u32(F_AT, q) /\ fs[2] = rec_u32(F_LEN, 0) /\ Len(fs) = 2
      BY <2>2
    <3>2. \A k \in 1 .. 2 : Shown(fs[k]) = << x, z >>[k]
      BY <2>3, <3>1
    <3> QED BY <3>1, <3>2
  <2>5. x \in Shows /\ z \in Shows
    BY <2>1 DEF F_AT, F_LEN
  <2>6. x.val = q /\ z.val = 0
    OBVIOUS
  <2> HIDE DEF x, z, ls, Shows
  <2>7. ls \in Seq(Shows) /\ Len(ls) = 2 /\ ls[1] = x /\ ls[2] = z
    BY <2>4, <2>5
  <2>8. PublishedLine(Line(b)) = [conn |-> b.conn, at |-> q, len |-> 0]
    <3>1. Line(b).conn = b.conn /\ Line(b).fields = ls
      BY <1>1
    <3>2. Line(b) # Garbled
      BY <1>2, <2>7
    <3>3. PublishedLine(Line(b)) = [conn |-> b.conn, at |-> ls[1].val, len |-> ls[Len(ls)].val]
      BY <3>1, <3>2 DEF PublishedLine
    <3> QED BY <2>6, <2>7, <3>3
  <2>9. Legible(b)
    <3>1. StepsExactly(rec_u32(F_LEN, 0)) /\ StepsExactly(rec_u32(F_AT, q))
      BY DEF StepsExactly, field_words, rec_u32, IsHex, IsU64, F_LEN, F_AT, F_BYTES, F_DEVICE,
         F_TEXT, F_ODOMETER
    <3>2. \A k \in 1 .. Len(EndShape(q)) : StepsExactly(EndShape(q)[k])
      BY <3>1 DEF EndShape
    <3> QED BY <2>1, <3>2 DEF Legible
  <2> QED BY <2>8, <2>9
<1>5. CASE \E n, o, q : IsChunk(b, n, o, q)
  <2>1. PICK n, o, q : IsChunk(b, n, o, q)
    BY <1>5
  <2>2. Stream(b) = [at |-> q, len |-> n]
    BY <2>1, ChunkStream DEF IsChunk
  <2> HIDE DEF fs, ls
  <2> QED BY <1>3, <2>1, <2>2
<1>6. CASE \E q : IsEnd(b, q)
  <2>1. PICK q : IsEnd(b, q)
    BY <1>6
  <2>2. Stream(b) = [at |-> q, len |-> 0]
    BY <2>1, EndStream DEF IsEnd
  <2> HIDE DEF fs, ls
  <2> QED BY <1>4, <2>1, <2>2
<1> QED BY <1>5, <1>6 DEF Shape

-----------------------------------------------------------------------------
(* The steps. *)

(* What a closed record leaves in the buffer. *)
LEMMA CloseGrows ==
  ASSUME IInv, FillCount, pc \in Filling,
         NEW conn \in ConnIds, NEW fields, NEW words, CloseRecord(conn, fields, words)
  PROVE  /\ rec_next \in Nat /\ Stored \in SUBSET Nat /\ IsFiniteSet(Stored)
         /\ \A b \in Stored : b < rec_next
         /\ Stored' = Stored \cup {rec_next} /\ \A b \in Stored : buf'[b] = buf[b]
         /\ buf'[rec_next].conn = conn /\ buf'[rec_next].fields = fields
<1>1. pc \in BufferPhases
  BY DEF Filling, BufferPhases
<1>2. rec_next \in Nat /\ Stored \in SUBSET Nat /\ buf \in [Stored -> Record] /\ IsFiniteSet(Stored)
  BY DEF IInv, TypeOK, BufferTypes, FillCount, Stored
<1>3. /\ rec_next \notin Stored
      /\ \A b \in Stored : 2 <= buf[b].words /\ b + buf[b].words <= rec_next
  BY <1>1 DEF IInv, Tiled, Stored
<1>4. \A b \in Stored : b \in Nat /\ buf[b].words \in Nat
  BY <1>2 DEF Record
<1>5. \A b \in Stored : b < rec_next
  <2> SUFFICES ASSUME NEW b \in Stored PROVE b < rec_next
    OBVIOUS
  <2> DEFINE w == buf[b].words
  <2>1. b \in Nat /\ w \in Nat /\ 2 <= w /\ b + w <= rec_next
    BY <1>3, <1>4
  <2> HIDE DEF w
  <2> QED BY <1>2, <2>1
<1> DEFINE new == [words |-> words, conn |-> conn, fields |-> fields, protocol |-> Protocol(conn)]
<1>6. buf' = [a \in Stored \cup {rec_next} |-> IF a = rec_next THEN new ELSE buf[a]]
  BY DEF CloseRecord, Stored
<1>7. new.conn = conn /\ new.fields = fields
  OBVIOUS
<1> HIDE DEF new
<1>8. Stored' = Stored \cup {rec_next}
  BY <1>6 DEF Stored
<1>9. buf'[rec_next] = new /\ \A b \in Stored : buf'[b] = buf[b]
  BY <1>3, <1>6
<1> QED BY <1>2, <1>5, <1>7, <1>8, <1>9

(* A step that closes a record is a Deliver, and a step that loses one is  *)
(* a Lose or, if one was lost before, nothing.                             *)
LEMMA AbsFrame ==
  /\ Abstract!Conns = 0 .. MaxConnections - 1
  /\ Abstract!vars = << [k \in 0 .. MaxConnections - 1 |-> LogOf(k)],
                        IF out.end # Unset THEN "published" ELSE IF rec_full THEN "lossy" ELSE "open",
                        IF out.end = Unset THEN <<>>
                        ELSE [m \in 1 .. Len(out.lines) |-> PublishedLine(out.lines[m])] >>
BY DEF Abstract!Conns, Abstract!vars

LEMMA LogStays == ASSUME buf' = buf PROVE \A k : LogOf(k)' = LogOf(k)
BY LogIsIn

LEMMA AbsStutter ==
  ASSUME buf' = buf, rec_full' = rec_full,
         (out.end = Unset /\ out'.end = Unset) \/ out' = out
  PROVE  UNCHANGED Abstract!vars
<1>1. \A k : LogOf(k)' = LogOf(k)
  BY LogStays
<1>2. [k \in 0 .. MaxConnections - 1 |-> LogOf(k)]' = [k \in 0 .. MaxConnections - 1 |-> LogOf(k)]
  BY <1>1
<1>3. CASE out.end = Unset /\ out'.end = Unset
  BY <1>2, <1>3 DEF Abstract!vars
<1>4. CASE out' = out
  BY <1>2, <1>4 DEF Abstract!vars
<1> QED BY <1>3, <1>4

LEMMA AbsLose ==
  ASSUME buf' = buf, rec_full' = TRUE, rec_full \in BOOLEAN, out.end = Unset, out' = out
  PROVE  [Abstract!Next]_(Abstract!vars)
<1>1. CASE rec_full
  BY <1>1, AbsStutter
<1>2. CASE ~rec_full
  <2>1. \A k : LogOf(k)' = LogOf(k)
    BY LogStays
  <2>2. [k \in 0 .. MaxConnections - 1 |-> LogOf(k)]' = [k \in 0 .. MaxConnections - 1 |-> LogOf(k)]
    BY <2>1
  <2>3. Abstract!Lose
    BY <1>2, <2>2 DEF Abstract!Lose
  <2> QED BY <2>3 DEF Abstract!Next
<1> QED BY <1>1, <1>2

(* What a closed record does to the logs. *)
LEMMA CloseLogs ==
  ASSUME IInv, FillCount, pc \in Filling, NEW conn \in ConnIds,
         NEW fields, NEW words, CloseRecord(conn, fields, words)
  PROVE  /\ \A k : k # conn => LogOf(k)' = LogOf(k)
         /\ Len(LogOf(conn)') = Len(LogOf(conn)) + 1 /\ LogOf(conn)' # <<>>
         /\ Abstract!Last(LogOf(conn)') = Stream(buf'[rec_next])
         /\ Abstract!IsPrefix(LogOf(conn), LogOf(conn)')
<1> DEFINE B == buf
           C == buf'
           x == rec_next
<1>1. /\ x \in Nat /\ DOMAIN B \in SUBSET Nat /\ IsFiniteSet(DOMAIN B)
      /\ \A b \in DOMAIN B : b < x
      /\ DOMAIN C = DOMAIN B \cup {x} /\ \A b \in DOMAIN B : C[b] = B[b]
      /\ C[x].conn = conn
  BY CloseGrows DEF Stored
<1> HIDE DEF B, C, x
<1>2. /\ \A k : k # C[x].conn => LogIn(C, k) = LogIn(B, k)
      /\ Len(LogIn(C, C[x].conn)) = Len(LogIn(B, C[x].conn)) + 1
      /\ Abstract!Last(LogIn(C, C[x].conn)) = Stream(C[x])
      /\ Abstract!IsPrefix(LogIn(B, C[x].conn), LogIn(C, C[x].conn))
  BY ONLY <1>1, LogGrows, Zenon
<1>3. Len(LogIn(B, C[x].conn)) \in Nat
  BY ONLY <1>1, LogShape
<1>4. LogIn(C, C[x].conn) # <<>>
  BY ONLY <1>2, <1>3
<1> QED BY <1>1, <1>2, <1>4, LogIsIn DEF B, C, x

LEMMA AbsDeliver ==
  ASSUME IInv, FillCount, Within, pc \in Filling,
         NEW conn \in ConnIds, NEW fields, NEW words, CloseRecord(conn, fields, words),
         out.end = Unset, out' = out,
         rec_full \/ Stream(buf'[rec_next]).at = Abstract!NextByte(LogOf(conn))
  PROVE  Abstract!Deliver(conn) /\ conn \in Abstract!Conns
<1> DEFINE logs == [k \in 0 .. MaxConnections - 1 |-> LogOf(k)]
<1>3. /\ \A k : k # conn => LogOf(k)' = LogOf(k)
      /\ Len(LogOf(conn)') = Len(LogOf(conn)) + 1
      /\ Abstract!Last(LogOf(conn)') = Stream(buf'[rec_next])
      /\ Abstract!IsPrefix(LogOf(conn), LogOf(conn)')
  BY CloseLogs
<1>4. conn \in 0 .. MaxConnections - 1
  BY MaxConnectionsAssumption DEF Within, Filling, ConnIds
<1>5. /\ \A k \in 0 .. MaxConnections - 1 : logs[k] = LogOf(k) /\ logs'[k] = LogOf(k)'
  OBVIOUS
<1>6. UNCHANGED << out, rec_full >>
  BY DEF CloseRecord
<1> QED BY <1>3, <1>4, <1>5, <1>6 DEF Abstract!Deliver, Abstract!Conns

LEMMA ConnHere ==
  ASSUME IInv, pc \in Filling
  PROVE  /\ Connections \in Nat /\ ConnIds \subseteq Nat /\ p \in Nat
         /\ at \in [ConnIds -> Nat]
         /\ pc = "window" /\ left > 0 =>
              HeaderAt(p).n \in 0 .. Half - 1 /\ HeaderAt(p).conn \in ConnIds
         /\ pc = "decoder_end" /\ c < Connections => c \in ConnIds
<1>1. IsImage(img) /\ WalkTypes /\ BufferTypes /\ SortTypes
  BY DEF IInv, TypeOK
<1>2. Connections \in Nat /\ ConnIds \subseteq Nat
  BY CountTypes DEF ConnIds
<1>3. p \in Nat /\ left \in Nat /\ c \in Nat /\ at \in [ConnIds -> Nat]
  BY <1>1 DEF WalkTypes, BufferTypes, BufferPhases, SortTypes, Filling
<1>4. ASSUME pc = "window", left > 0
      PROVE  HeaderAt(p).n \in 0 .. Half - 1 /\ HeaderAt(p).conn \in ConnIds
  <2>1. HeaderAt(p).n \in 0 .. Half - 1 /\ HeaderAt(p).conn \in Nat
    BY <1>1, HeaderType DEF Chunks
  <2>2. PICK g : IsWalk(g, img.chunks) /\ left <= img.chunks /\ p = g[img.chunks - left]
    BY <1>4 DEF IInv, WalkInv, BufferPhases
  <2>3. img.chunks - left \in 0 .. img.chunks - 1
    BY <1>1, <1>3, <1>4, <2>2 DEF IsImage
  <2>4. HeaderAt(p).conn < Connections
    BY <2>2, <2>3 DEF IsWalk
  <2> QED BY <1>2, <2>1, <2>4 DEF ConnIds
<1> QED BY <1>2, <1>3, <1>4 DEF ConnIds

(* A decoder call: x more bytes of connection conn, recorded or lost. *)
Call(conn, x) ==
  /\ at' = [at EXCEPT ![conn] = @ + x]
  /\ UNCHANGED << img, out >>
  /\ \/ RecordLost
     \/ \E fields, words : /\ CloseRecord(conn, fields, words)
                           /\ Shape(buf'[rec_next])
                           /\ Stream(buf'[rec_next]) = [at |-> at[conn], len |-> x]

LEMMA Calls ==
  ASSUME IInv, FillCount, pc \in Filling, DecoderChunk \/ DecoderEnd
  PROVE  \E conn \in ConnIds, x \in Nat : Call(conn, x)
<1>1. CASE DecoderChunk
  <2> DEFINE h == HeaderAt(p)
             fs == ChunkFields(h.conn, p, h.n)
             words == 2 + fs[1].span + fs[2].span + fs[3].span
  <2>1. pc = "window" /\ left > 0 /\ ChunkRecord(h.conn, p, h.n) /\ at' = [at EXCEPT ![h.conn] = @ + h.n]
        /\ UNCHANGED << img, out >>
    BY <1>1 DEF DecoderChunk, outVars
  <2>2. h.n \in 0 .. Half - 1 /\ h.conn \in ConnIds /\ p \in Nat /\ at[h.conn] \in Nat
    BY <2>1, ConnHere
  <2>3. h.n \in Nat /\ p + 4 \in Nat
    BY <2>2
  <2>4. fs = ChunkShape(h.n, p + 4, at[h.conn])
    BY DEF ChunkFields, ChunkShape
  <2> HIDE DEF fs
  <2>5. CASE RecordLost
    BY <2>1, <2>2, <2>3, <2>5 DEF Call
  <2>6. CASE CloseRecord(h.conn, fs, words)
    <3>1. buf'[rec_next].fields = fs
      BY <2>2, <2>6, CloseGrows
    <3>2. IsChunk(buf'[rec_next], h.n, p + 4, at[h.conn])
      BY <2>2, <2>3, <2>4, <3>1 DEF IsChunk
    <3>3. Shape(buf'[rec_next])
      BY <3>2 DEF Shape
    <3>4. Stream(buf'[rec_next]) = [at |-> at[h.conn], len |-> h.n]
      BY <2>4, <3>1, ChunkStream
    <3>5. Call(h.conn, h.n)
      BY <2>1, <2>6, <3>3, <3>4 DEF Call
    <3> QED BY <2>2, <2>3, <3>5
  <2> QED BY <2>1, <2>5, <2>6 DEF ChunkRecord, fs
<1>2. CASE DecoderEnd
  <2> DEFINE fs == EndFields(c)
             words == 2 + fs[1].span + fs[2].span
  <2>1. pc = "decoder_end" /\ c < Connections /\ EndRecord(c) /\ at' = at
        /\ UNCHANGED << img, out >>
    BY <1>2 DEF DecoderEnd, outVars
  <2>2. c \in ConnIds /\ at[c] \in Nat /\ at \in [ConnIds -> Nat]
    BY <2>1, ConnHere
  <2>3. at' = [at EXCEPT ![c] = @ + 0]
    BY <2>1, <2>2
  <2>4. fs = EndShape(at[c])
    BY DEF EndFields, EndShape
  <2> HIDE DEF fs
  <2>5. CASE RecordLost
    BY <2>1, <2>2, <2>3, <2>5 DEF Call
  <2>6. CASE CloseRecord(c, fs, words)
    <3>1. buf'[rec_next].fields = fs
      BY <2>2, <2>6, CloseGrows
    <3>2. IsEnd(buf'[rec_next], at[c])
      BY <2>2, <2>4, <3>1 DEF IsEnd
    <3>3. Shape(buf'[rec_next])
      BY <3>2 DEF Shape
    <3>4. Stream(buf'[rec_next]) = [at |-> at[c], len |-> 0]
      BY <2>4, <3>1, EndStream
    <3>5. Call(c, 0)
      BY <2>1, <2>3, <2>6, <3>3, <3>4 DEF Call
    <3> QED BY <2>2, <3>5
  <2> QED BY <2>1, <2>5, <2>6 DEF EndRecord, fs
<1> QED BY <1>1, <1>2

LEMMA CallStep ==
  ASSUME IInv, FillCount, SimInv, pc \in Filling, pc' = pc, NEW conn \in ConnIds, NEW x \in Nat, Call(conn, x)
  PROVE  Shaped' /\ Continued'
<1>1. img' = img /\ Connections' = Connections /\ ConnIds' = ConnIds
  BY DEF Call, Connections, ConnIds
<1>2. at \in [ConnIds -> Nat] /\ at' = [at EXCEPT ![conn] = @ + x]
  BY ConnHere DEF Call
<1>3. CASE RecordLost
  <2>1. buf' = buf /\ rec_full' = TRUE
    BY <1>3 DEF RecordLost
  <2> QED BY <2>1 DEF SimInv, Shaped, Continued, Stored
<1>4. CASE \E fields, words : /\ CloseRecord(conn, fields, words)
                              /\ Shape(buf'[rec_next])
                              /\ Stream(buf'[rec_next]) = [at |-> at[conn], len |-> x]
  <2>1. PICK fields, words : CloseRecord(conn, fields, words)
    BY <1>4
  <2>2. Shape(buf'[rec_next]) /\ Stream(buf'[rec_next]) = [at |-> at[conn], len |-> x]
    BY <1>4
  <2>3. Stored' = Stored \cup {rec_next} /\ \A b \in Stored : buf'[b] = buf[b]
    BY <2>1, CloseGrows
  <2>4. Shaped'
    <3>1. \A b \in Stored' : Shape(buf'[b])
      BY <2>2, <2>3 DEF SimInv, Shaped
    <3> QED BY <3>1 DEF Shaped, Shape, IsChunk, IsEnd
  <2>5. /\ \A k : k # conn => LogOf(k)' = LogOf(k)
        /\ LogOf(conn)' # <<>> /\ Abstract!Last(LogOf(conn)') = Stream(buf'[rec_next])
    BY <2>1, CloseLogs
  <2>6. Continued'
    <3> SUFFICES ASSUME ~rec_full', NEW k \in ConnIds
                 PROVE  at'[k] = Abstract!NextByte(LogOf(k)')
      BY <1>1 DEF Continued, Abstract!NextByte, Abstract!Last
    <3>1. ~rec_full
      BY <2>1 DEF CloseRecord
    <3>2. CASE k = conn
      <4>1. Abstract!NextByte(LogOf(k)') = at[conn] + x
        BY <2>2, <2>5, <3>2 DEF Abstract!NextByte
      <4> QED BY <1>2, <3>2, <4>1
    <3>3. CASE k # conn
      <4>1. at[k] = Abstract!NextByte(LogOf(k))
        BY <3>1 DEF SimInv, Continued
      <4> QED BY <1>2, <2>5, <3>3, <4>1
    <3> QED BY <3>2, <3>3
  <2> QED BY <2>4, <2>6
<1> QED BY <1>3, <1>4 DEF Call

LEMMA WithinStep == IInv /\ Within /\ Next => Within'
<1> SUFFICES ASSUME IInv, Within, Next PROVE Within'
  OBVIOUS
<1>1. Connections' = Connections /\ Connections \in Nat
  BY ImageStays, CountTypes DEF Connections
<1>2. CASE CheckHeader
  <2>1. pc' = "done" \/ TableOK
    BY <1>2 DEF CheckHeader, Exit
  <2>2. TableOK => Connections \in 1 .. MaxConnections
    BY <1>1, MaxConnectionsAssumption DEF TableOK
  <2> QED BY <1>1, <2>1, <2>2 DEF Within
<1>3. CASE pc = "check" => pc' = "check"
  <2>1. pc = "done" => pc' = "done"
    BY DEF Next, CheckHeader, CheckChunk, CheckPayload, Setup, DecoderChunk, InputEnds,
         DecoderEnd, WindowCloses, WalkRecord, SortRoom, CountRecord, CountEnds, StartOf,
         StartsEnd, PlaceRecord, PutHeader, PutRecord, MisreadRecord, PutEnd, Done, vars
  <2> QED BY <1>1, <1>3, <2>1 DEF Within
<1>4. CheckHeader \/ (pc = "check" => pc' = "check")
  BY DEF Next, CheckHeader, CheckChunk, CheckPayload, Setup, DecoderChunk, InputEnds,
         DecoderEnd, WindowCloses, WalkRecord, SortRoom, CountRecord, CountEnds, StartOf,
         StartsEnd, PlaceRecord, PutHeader, PutRecord, MisreadRecord, PutEnd, Done, vars
<1> QED BY <1>2, <1>3, <1>4

LEMMA EmptyLogs ==
  ASSUME buf = <<>>
  PROVE  \A k : LogOf(k) = <<>>
<1>1. \A k : Con(buf, k) = {}
  BY DEF Con
<1>2. \A k : LogIn(buf, k) = [m \in 1 .. 0 |-> Stream(buf[InOrder({})[m]])]
  <2>1. Len(InOrder({})) = 0
    BY InOrderRanks, FS_EmptySet
  <2> QED BY <1>1, <2>1 DEF LogIn
<1>3. \A k : LogIn(buf, k) = <<>>
  BY <1>2
<1> QED BY <1>3, LogIsIn

LEMMA ShapedStep == IInv /\ CountInv /\ SimInv /\ Next => Shaped' /\ Continued'
<1> SUFFICES ASSUME IInv, CountInv, SimInv, Next PROVE Shaped' /\ Continued'
  OBVIOUS
<1>1. CASE DecoderChunk \/ DecoderEnd
  <2>1. pc \in Filling /\ pc' = pc
    BY <1>1 DEF DecoderChunk, DecoderEnd, Filling
  <2>2. PICK conn \in ConnIds, x \in Nat : Call(conn, x)
    BY <1>1, <2>1, Calls DEF CountInv
  <2> QED BY <2>1, <2>2, CallStep DEF CountInv
<1>2. CASE Setup
  <2>1. buf' = buf /\ buf = <<>> /\ Connections' = Connections
    BY <1>2, ImageStays DEF Setup, IInv, OutInv, Connections
  <2>2. Stored' = {}
    BY <2>1 DEF Stored
  <2>3. Shaped'
    BY <2>2 DEF Shaped
  <2>4. Continued'
    <3> SUFFICES ASSUME pc' = "window", NEW k \in ConnIds'
                 PROVE  at'[k] = Abstract!NextByte(LogOf(k)')
      BY <1>2 DEF Setup, Exit, Continued, Filling, Abstract!NextByte, Abstract!Last
    <3>1. at' = [j \in ConnIds |-> 0] /\ k \in ConnIds
      BY <1>2, <2>1 DEF Setup, decoder_init, Exit, ConnIds
    <3>2. LogOf(k)' = <<>>
      BY <2>1, EmptyLogs, LogStays
    <3> QED BY <3>1, <3>2 DEF Abstract!NextByte
  <2> QED BY <2>3, <2>4
<1>3. CASE buf' = buf /\ (pc' \notin Filling \/ (pc \in Filling /\ UNCHANGED << at, rec_full >>))
  <2>1. Connections' = Connections
    BY ImageStays DEF Connections
  <2>2. Stored' = Stored /\ ConnIds' = ConnIds /\ \A k : LogOf(k)' = LogOf(k)
    BY <1>3, <2>1, LogStays DEF Stored, ConnIds
  <2>3. Shaped'
    BY <1>3, <2>2 DEF SimInv, Shaped, Shape, IsChunk, IsEnd
  <2>4. Continued'
    <3> SUFFICES ASSUME pc' \in Filling, ~rec_full', NEW k \in ConnIds
                 PROVE  at'[k] = Abstract!NextByte(LogOf(k)')
      BY <2>2 DEF Continued, Abstract!NextByte, Abstract!Last
    <3>1. at[k] = Abstract!NextByte(LogOf(k))
      BY <1>3 DEF SimInv, Continued
    <3> QED BY <1>3, <2>2, <3>1
  <2> QED BY <2>3, <2>4
<1>4. \/ DecoderChunk \/ DecoderEnd \/ Setup
      \/ buf' = buf /\ (pc' \notin Filling \/ (pc \in Filling /\ UNCHANGED << at, rec_full >>))
  BY DEF Next, CheckHeader, CheckChunk, CheckPayload, InputEnds, WindowCloses, WalkRecord,
         SortRoom, CountRecord, CountEnds, StartOf, StartsEnd, PlaceRecord, PutHeader,
         PutRecord, MisreadRecord, PutEnd, Done, vars, bufVars, Exit, Filling
<1> QED BY <1>1, <1>2, <1>3, <1>4

LEMMA PrintedStep == IInv /\ CountInv /\ SimInv /\ Next => Printed'
<1> SUFFICES ASSUME IInv, CountInv, SimInv, Next, pc' = "print" PROVE Printed'
  BY DEF Printed
<1>1. CASE PutHeader
  <2>1. i' = 0
    BY <1>1 DEF PutHeader
  <2> QED BY <2>1 DEF Printed
<1>2. CASE pc = "print" /\ UNCHANGED << img, h_end, index, buf >>
  <2> DEFINE L == LineAt(i)
  <2>1. base' = base /\ \A j : LineAt(j)' = LineAt(j)
    <3>1. base' = base
      BY <1>2, LayoutStays
    <3> QED BY <1>2, <3>1 DEF LineAt, Line, Legible, StepsExactly
  <2>2. i \in Nat
    BY DEF IInv, TypeOK, OutTypes
  <2>3. PICK S : out.lines \in Seq(S) /\ Len(out.lines) = i
    BY <1>2 DEF CountInv, LineCount
  <2>4. \A j \in 0 .. i - 1 : out.lines[j + 1] = LineAt(j)
    BY <1>2 DEF SimInv, Printed
  <2>5. CASE out'.lines = Append(out.lines, L) /\ i' = i + 1
    <3> HIDE DEF L
    <3>1. \A k \in 1 .. i : out'.lines[k] = out.lines[k]
      <4> DEFINE s == out.lines
      <4>1. s \in Seq(S \cup {L}) /\ Len(s) = i
        BY <2>3, SeqMonotonic
      <4> HIDE DEF s
      <4>2. \A k \in 1 .. i : Append(s, L)[k] = s[k]
        BY ONLY <2>2, <4>1, AppendProperties
      <4> QED BY <2>5, <4>2 DEF s
    <3>2. out'.lines[i + 1] = L
      <4> DEFINE s == out.lines
      <4>1. s \in Seq(S \cup {L}) /\ Len(s) = i
        BY <2>3, SeqMonotonic
      <4> HIDE DEF s
      <4>2. Append(s, L)[i + 1] = L
        BY ONLY <2>2, <4>1, AppendProperties
      <4> QED BY <2>5, <4>2 DEF s
    <3>3. ASSUME NEW j \in 0 .. i' - 1 PROVE out'.lines[j + 1] = LineAt(j)
      <4>1. CASE j = i
        BY <3>2, <4>1 DEF L
      <4>2. CASE j # i
        <5>1. j \in 0 .. i - 1 /\ j + 1 \in 1 .. i
          BY <2>2, <2>5, <4>2
        <5> QED BY <2>4, <3>1, <5>1
      <4> QED BY <4>1, <4>2
    <3> QED BY <2>1, <3>3 DEF Printed
  <2>6. CASE out' = out /\ i' = i
    BY <2>1, <2>4, <2>6 DEF Printed
  <2>7. \/ out'.lines = Append(out.lines, L) /\ i' = i + 1
        \/ out' = out /\ i' = i
    <3>1. CASE PutRecord
      <4>1. L = Line(buf[base + index[i]]) /\ DOMAIN out = {"records", "lines", "end"}
        BY <3>1 DEF PutRecord, LineAt, IInv, TypeOK, OutTypes
      <4> HIDE DEF L
      <4>2. out' = [out EXCEPT !.lines = Append(@, L)] /\ i' = i + 1
        BY <3>1, <4>1 DEF PutRecord
      <4> QED BY <4>1, <4>2
    <3>2. CASE MisreadRecord
      <4>1. L = Garbled /\ DOMAIN out = {"records", "lines", "end"}
        BY <3>2 DEF MisreadRecord, LineAt, IInv, TypeOK, OutTypes
      <4> HIDE DEF L
      <4>2. out' = [out EXCEPT !.lines = Append(@, L)] /\ i' = i + 1
        BY <1>2, <3>2, <4>1 DEF MisreadRecord, Exit
      <4> QED BY <4>1, <4>2
    <3>3. PutRecord \/ MisreadRecord
      BY <1>2 DEF Next, CheckHeader, CheckChunk, CheckPayload, Setup, DecoderChunk, InputEnds,
         DecoderEnd, WindowCloses, WalkRecord, SortRoom, CountRecord, CountEnds, StartOf,
         StartsEnd, PlaceRecord, PutHeader, PutEnd, Done, Exit
    <3> QED BY <3>1, <3>2, <3>3
  <2> QED BY <2>5, <2>6, <2>7
<1>3. PutHeader \/ (pc = "print" /\ UNCHANGED << img, h_end, index, buf >>)
  BY DEF Next, CheckHeader, CheckChunk, CheckPayload, Setup, DecoderChunk, InputEnds,
         DecoderEnd, WindowCloses, WalkRecord, SortRoom, CountRecord, CountEnds, StartOf,
         StartsEnd, PlaceRecord, PutRecord, MisreadRecord, PutEnd, Done, Exit,
         vars, chunkVars, bufVars, sortVars
<1> QED BY <1>1, <1>2, <1>3

(* What a record is in the canonical order. *)
Entry(a) == [conn |-> buf[a].conn, at |-> Stream(buf[a]).at, len |-> Stream(buf[a]).len]

(* The logs one after another hold every record at its place. *)
LEMMA CanonicalPlaces ==
  ASSUME IInv, CountInv, SimInv, pc = "print"
  PROVE  /\ Len(Abstract!Canonical) = Cardinality(Stored)
         /\ \A a \in Stored : Abstract!Canonical[Place(a) + 1] = Entry(a)
<1> DEFINE T == {Entry(a) : a \in Stored}
           E == [a \in Stored |-> Entry(a)]
           N == MaxConnections
           logs == [k \in 0 .. N - 1 |-> LogOf(k)]
           part(k) == [m \in 1 .. Len(LogOf(k)) |->
                         [conn |-> k, at |-> LogOf(k)[m].at, len |-> LogOf(k)[m].len]]
           ss == [j \in 1 .. N |-> part(j - 1)]
<1>1. N \in Nat \ {0} /\ Connections \in 1 .. N
  BY MaxConnectionsAssumption DEF Within, SimInv
<1>2. IsFiniteSet(Stored) /\ Stored \in SUBSET Nat /\ pc \in Sorts
      /\ \A a \in Stored : buf[a].conn \in 0 .. Connections - 1 /\ buf[a].conn \in Nat
  BY StoredTypes DEF CountInv, FillCount, Sorts, ConnIds
<1>3. Abstract!Canonical = Abstract!FlattenSeq(ss)
  <2>1. \A j \in 1 .. N : j - 1 \in 0 .. N - 1
    BY <1>1
  <2>2. \A j \in 1 .. N : logs[j - 1] = LogOf(j - 1)
    BY <2>1
  <2>3. ss = [j \in 1 .. N |-> [m \in 1 .. Len(logs[j - 1]) |->
                [conn |-> j - 1, at |-> logs[j - 1][m].at, len |-> logs[j - 1][m].len]]]
    <3> HIDE DEF logs
    <3> QED BY <2>2
  <2> HIDE DEF ss
  <2> QED BY <2>3 DEF Abstract!Canonical
<1>4. E \in [Stored -> T]
  OBVIOUS
<1>5. ASSUME NEW k \in 0 .. N - 1
      PROVE  /\ part(k) \in Seq(T) /\ Len(part(k)) = Cardinality(Of(k))
             /\ \A a \in Of(k) : part(k)[Cardinality({b \in Of(k) : b < a}) + 1] = E[a]
  <2> DEFINE S == Of(k)
             n == Cardinality(S)
             l == LogOf(k)
  <2>1. S \in SUBSET Nat /\ IsFiniteSet(S) /\ S \subseteq Stored /\ \A a \in S : buf[a].conn = k
    BY <1>2, FS_Subset DEF Of
  <2>2. n \in Nat /\ InOrder(S) \in [1 .. n -> S]
        /\ \A a \in S : /\ Cardinality({b \in S : b < a}) + 1 \in 1 .. n
                        /\ InOrder(S)[Cardinality({b \in S : b < a}) + 1] = a
    BY <2>1, InOrderRanks
  <2>3. Len(l) = n /\ l = [m \in 1 .. n |-> Stream(buf[InOrder(S)[m]])]
    <3>1. Con(buf, k) = S /\ l = LogIn(buf, k)
      BY LogIsIn
    <3>2. DOMAIN buf \in SUBSET Nat /\ IsFiniteSet(DOMAIN buf)
      BY <1>2 DEF Stored
    <3>3. Len(LogIn(buf, k)) = Cardinality(Con(buf, k))
      BY <3>2, LogShape
    <3>4. LogIn(buf, k) = [m \in 1 .. Cardinality(Con(buf, k)) |-> Stream(buf[InOrder(Con(buf, k))[m]])]
      BY <3>2, LogEach
    <3> QED BY <3>1, <3>3, <3>4
  <2> HIDE DEF S, n, l
  <2>4. \A m \in 1 .. n : InOrder(S)[m] \in Stored
                          /\ [conn |-> k, at |-> l[m].at, len |-> l[m].len] = Entry(InOrder(S)[m])
    BY <2>1, <2>2, <2>3 DEF Entry
  <2>5. part(k) = [m \in 1 .. n |-> Entry(InOrder(S)[m])]
    BY <2>3, <2>4 DEF l
  <2> HIDE DEF part
  <2>6. part(k) \in [1 .. n -> T]
    BY <2>4, <2>5
  <2>7. part(k) \in Seq(T) /\ Len(part(k)) = n
    <3> HIDE DEF T
    <3> QED BY ONLY <2>2, <2>6, IsSeq
  <2>8. \A a \in S : part(k)[Cardinality({b \in S : b < a}) + 1] = E[a]
    BY <2>1, <2>2, <2>5
  <2> QED BY <2>7, <2>8 DEF S, n
<1> HIDE DEF part, E, T
<1>6. Len(ss) = N
  BY <1>1
<1>7. \A k \in 0 .. N - 1 : ss[k + 1] = part(k)
  <2> SUFFICES ASSUME NEW k \in 0 .. N - 1 PROVE ss[k + 1] = part(k)
    OBVIOUS
  <2>1. k + 1 \in 1 .. N /\ (k + 1) - 1 = k
    BY <1>1
  <2> QED BY <2>1
<1> HIDE DEF ss, N
<1>8. PerConn(ss, T, E, N)
  BY <1>5, <1>6, <1>7 DEF PerConn
<1>9. /\ Len(Abstract!FlattenSeq(ss)) = Cardinality(Below(N))
      /\ \A a \in Below(N) : Abstract!FlattenSeq(ss)[Place(a) + 1] = E[a]
  BY <1>1, <1>2, <1>4, <1>8, FlattenPlaces
<1>10. Below(N) = Stored
  <2>1. ASSUME NEW a \in Stored PROVE buf[a].conn < N
    <3> DEFINE k == buf[a].conn
    <3>1. k \in 0 .. Connections - 1 /\ k \in Nat
      BY <1>2
    <3> HIDE DEF k
    <3>2. k < N
      BY <1>1, <3>1
    <3> QED BY <3>2 DEF k
  <2> QED BY <2>1 DEF Below
<1> QED BY <1>3, <1>9, <1>10 DEF E

LEMMA AbsPublish ==
  ASSUME IInv, CountInv, SortInv, SimInv, PutEnd
  PROVE  Abstract!Publish
<1>1. /\ pc = "print" /\ i = total /\ out' = [out EXCEPT !.end = total] /\ UNCHANGED << buf, rec_full >>
  BY DEF PutEnd, bufVars
<1>2. /\ DOMAIN out = {"records", "lines", "end"} /\ total \in Nat /\ out.end = Unset /\ ~rec_full
  BY <1>1 DEF IInv, TypeOK, OutTypes, SortTypes, CountInv, LineCount, WalkCount
<1>3. out'.end = total /\ out'.lines = out.lines /\ out'.end # Unset
  BY <1>1, <1>2 DEF Unset
<1>4. Len(out.lines) = total
  BY <1>1 DEF CountInv, LineCount
<1>5. /\ total = Cardinality(Stored)
      /\ \A j \in 0 .. total - 1 : base + index[j] \in Stored /\ Place(base + index[j]) = j
  BY <1>1, Indexed
<1>6. /\ Len(Abstract!Canonical) = Cardinality(Stored)
      /\ \A a \in Stored : Abstract!Canonical[Place(a) + 1] = Entry(a)
  BY <1>1, CanonicalPlaces
<1>7. ASSUME NEW m \in 1 .. total
      PROVE  \/ PublishedLine(out.lines[m]) = Abstract!Canonical[m]
             \/ Abstract!Canonical[m].len >= Half \div 2
  <2> DEFINE j == m - 1
             a == base + index[j]
             b == buf[a]
  <2>1. j \in 0 .. total - 1 /\ j + 1 = m
    BY <1>2
  <2>2. a \in Stored /\ Place(a) = j
    BY <1>5, <2>1
  <2>3. Abstract!Canonical[m] = Entry(a)
    <3> HIDE DEF j, a
    <3> QED BY <1>6, <2>1, <2>2
  <2>4. out.lines[m] = IF Legible(b) THEN Line(b) ELSE Garbled
    <3>1. out.lines[j + 1] = LineAt(j)
      BY <1>1, <2>1 DEF SimInv, Printed
    <3> QED BY <2>1, <3>1 DEF LineAt
  <2>5. b \in Record /\ b.conn \in Nat /\ b.protocol \in 0..255 /\ Shape(b)
    <3> HIDE DEF a
    <3>1. b \in Record
      BY <2>2 DEF IInv, TypeOK, BufferTypes, Stored
    <3>2. b.conn \in Nat
      BY <1>1, <2>2, StoredTypes DEF Sorts
    <3>3. Shape(b)
      BY <2>2 DEF SimInv, Shaped
    <3> QED BY <3>1, <3>2, <3>3 DEF Record
  <2> HIDE DEF j, a
  <2>6. Entry(a) = [conn |-> b.conn, at |-> Stream(b).at, len |-> Stream(b).len]
    BY DEF Entry
  <2> HIDE DEF b
  <2>7. /\ PublishedLine(Line(b)) = [conn |-> b.conn, at |-> Stream(b).at, len |-> Stream(b).len]
        /\ Legible(b) \/ Stream(b).len >= Half \div 2
    BY <2>5, LineShows
  <2> QED BY <2>3, <2>4, <2>6, <2>7
<1>8. \A k : LogOf(k)' = LogOf(k)
  BY <1>1, LogStays
<1>9. [k \in 0 .. MaxConnections - 1 |-> LogOf(k)]' = [k \in 0 .. MaxConnections - 1 |-> LogOf(k)]
  BY <1>8
<1> DEFINE published == [m \in 1 .. Len(out'.lines) |-> PublishedLine(out'.lines[m])]
<1>10. /\ Len(published) = total
       /\ \A m \in 1 .. total : published[m] = PublishedLine(out.lines[m])
  BY <1>2, <1>3, <1>4
<1>11. /\ Len(published) = Len(Abstract!Canonical)
       /\ \A m \in 1 .. Len(Abstract!Canonical) :
            published[m] = Abstract!Canonical[m] \/ Abstract!Canonical[m].len >= Half \div 2
  <2> HIDE DEF published
  <2> QED BY <1>5, <1>6, <1>7, <1>10
<1> QED BY <1>2, <1>3, <1>9, <1>11 DEF Abstract!Publish

LEMMA AbsInit == Init => Abstract!Init
<1> SUFFICES ASSUME Init PROVE Abstract!Init
  OBVIOUS
<1>1. buf = <<>> /\ out.end = Unset /\ rec_full = FALSE
  BY DEF Init
<1>2. \A k : LogOf(k) = <<>>
  BY <1>1, EmptyLogs
<1> QED BY <1>1, <1>2 DEF Abstract!Init, Abstract!Conns

LEMMA AbsStep ==
  IInv /\ CountInv /\ SortInv /\ SimInv /\ Next => [Abstract!Next]_(Abstract!vars)
<1> SUFFICES ASSUME IInv, CountInv, SortInv, SimInv, Next PROVE [Abstract!Next]_(Abstract!vars)
  OBVIOUS
<1>1. CASE DecoderChunk \/ DecoderEnd
  <2>1. pc \in Filling
    BY <1>1 DEF DecoderChunk, DecoderEnd, Filling
  <2>2. PICK conn \in ConnIds, x \in Nat : Call(conn, x)
    BY <1>1, <2>1, Calls DEF CountInv
  <2>3. out' = out /\ out.end = Unset /\ rec_full \in BOOLEAN
    BY <2>1, <2>2 DEF Call, CountInv, LineCount, Filling, IInv, TypeOK
  <2>4. CASE RecordLost
    BY <2>3, <2>4, AbsLose DEF RecordLost
  <2>5. CASE \E fields, words : /\ CloseRecord(conn, fields, words)
                                /\ Shape(buf'[rec_next])
                                /\ Stream(buf'[rec_next]) = [at |-> at[conn], len |-> x]
    <3>1. PICK fields, words : /\ CloseRecord(conn, fields, words)
                               /\ Stream(buf'[rec_next]) = [at |-> at[conn], len |-> x]
      BY <2>5
    <3>2. rec_full \/ Stream(buf'[rec_next]).at = Abstract!NextByte(LogOf(conn))
      BY <2>1, <3>1 DEF SimInv, Continued
    <3>3. Abstract!Deliver(conn) /\ conn \in Abstract!Conns
      BY <2>1, <2>3, <3>1, <3>2, AbsDeliver DEF CountInv, SimInv
    <3> QED BY <3>3 DEF Abstract!Next
  <2> QED BY <2>2, <2>4, <2>5 DEF Call
<1>2. CASE PutEnd
  BY <1>2, AbsPublish DEF Abstract!Next
<1>3. CASE /\ UNCHANGED << buf, rec_full >>
           /\ out'.end = out.end
           /\ pc # "done" \/ out' = out
  <2>1. out' = out \/ (out.end = Unset /\ out'.end = Unset)
    BY <1>3 DEF CountInv, LineCount
  <2> QED BY <1>3, <2>1, AbsStutter
<1>4. \/ DecoderChunk \/ DecoderEnd \/ PutEnd
      \/ /\ UNCHANGED << buf, rec_full >>
         /\ out'.end = out.end
         /\ pc # "done" \/ out' = out
  <2>1. DOMAIN out = {"records", "lines", "end"}
    BY DEF IInv, TypeOK, OutTypes
  <2>2. \/ DecoderChunk \/ DecoderEnd \/ PutEnd \/ PutHeader \/ PutRecord \/ MisreadRecord
        \/ UNCHANGED << buf, rec_full, out >>
    BY DEF Next, CheckHeader, CheckChunk, CheckPayload, Setup, InputEnds, WindowCloses, WalkRecord,
         SortRoom, CountRecord, CountEnds, StartOf, StartsEnd, PlaceRecord,
         Done, vars, bufVars, outVars, Exit
  <2>3. PutHeader \/ PutRecord \/ MisreadRecord =>
          UNCHANGED << buf, rec_full >> /\ out'.end = out.end /\ pc # "done"
    BY <2>1 DEF PutHeader, PutRecord, MisreadRecord, bufVars
  <2> QED BY <2>2, <2>3
<1> QED BY <1>1, <1>2, <1>3, <1>4

LEMMA SimStutter == SimInv /\ UNCHANGED vars => SimInv'
<1> SUFFICES ASSUME SimInv, UNCHANGED vars PROVE SimInv'
  OBVIOUS
<1>1. UNCHANGED << img, pc, h_end, at, buf, rec_full, index, i, out >>
  BY DEF vars, chunkVars, bufVars, sortVars, outVars
<1>2. Connections' = Connections /\ ConnIds' = ConnIds /\ base' = base /\ Stored' = Stored
  BY <1>1, LayoutStays DEF Connections, ConnIds, Stored
<1>3. Within' /\ Shaped'
  BY <1>1, <1>2 DEF SimInv, Within, Shaped, Shape, IsChunk, IsEnd
<1>4. Continued'
  <2>1. \A k : LogOf(k)' = LogOf(k)
    BY <1>1, LogStays
  <2> QED BY <1>1, <1>2, <2>1 DEF SimInv, Continued, Abstract!NextByte, Abstract!Last
<1>5. Printed'
  <2>1. \A j : LineAt(j)' = LineAt(j)
    BY <1>1, <1>2 DEF LineAt, Line, Legible, StepsExactly
  <2> QED BY <1>1, <2>1 DEF SimInv, Printed
<1> QED BY <1>3, <1>4, <1>5 DEF SimInv

LEMMA AbsPause == UNCHANGED vars => UNCHANGED Abstract!vars
<1> SUFFICES ASSUME UNCHANGED vars PROVE UNCHANGED Abstract!vars
  OBVIOUS
<1>1. UNCHANGED << buf, rec_full, out >>
  BY DEF vars, bufVars, outVars
<1> QED BY <1>1, AbsStutter

LEMMA SimInvariance == Spec => [](CountInv /\ SortInv /\ SimInv)
<1>1. Init => SimInv
  BY DEF Init, SimInv, Within, Shaped, Continued, Printed, Stored, Filling
<1>2. Init => SortInv
  BY DEF Init, SortInv, SortRange, Counted, Started, Placed, Sorting
<1>3. IInv /\ CountInv /\ [Next]_vars => CountInv'
  BY FillStep, WalkStep, LineStep, StutterCount DEF CountInv
<1>4. IInv /\ CountInv /\ SortInv /\ [Next]_vars => SortInv'
  BY SortStep, SortStutter
<1>5. IInv /\ CountInv /\ SortInv /\ SimInv /\ [Next]_vars => SimInv'
  BY WithinStep, ShapedStep, PrintedStep, SimStutter DEF SimInv
<1> QED BY <1>1, <1>2, <1>3, <1>4, <1>5, InitCount, Invariance, PTL DEF Spec

(* Every run of the harness is a run of CanonicalOutput: a decoder call    *)
(* adds one record to its connection's log where the log ended, or loses   *)
(* it for good, and what the end line publishes is the logs one after      *)
(* another, but for what a field header cannot state.                      *)
THEOREM OutputCanonical == Spec => ImplementsCanonicalOutput
<1>1. IInv /\ CountInv /\ SortInv /\ SimInv /\ [Next]_vars => [Abstract!Next]_(Abstract!vars)
  BY AbsStep, AbsPause
<1> QED BY <1>1, AbsInit, SimInvariance, Invariance, PTL
           DEF Spec, ImplementsCanonicalOutput, Abstract!Spec

-----------------------------------------------------------------------------
(* Sums over a set of chunks. *)

SumOver(w, S) == MapThenSumSet(LAMBDA o : w[o].n, S)

Pick(s) == CHOOSE x \in s : TRUE

(* g holds the sum of every subset of S that has at most m elements. *)
SumsUpTo(g, w, S, m) ==
  g = [s \in {s \in SUBSET S : Cardinality(s) <= m} |->
         IF s = {} THEN 0 ELSE w[Pick(s)].n + g[s \ {Pick(s)}]]
Sums(g, w, S) == g = [s \in SUBSET S |-> IF s = {} THEN 0 ELSE w[Pick(s)].n + g[s \ {Pick(s)}]]

LEMMA SumIs ==
  ASSUME NEW w, NEW S
  PROVE  SumOver(w, S) = (CHOOSE g : Sums(g, w, S))[S]
BY DEF SumOver, MapThenSumSet, MapThenFoldSet, Sums, Pick

LEMMA PickOne ==
  ASSUME NEW s, IsFiniteSet(s), s # {}
  PROVE  /\ Pick(s) \in s /\ IsFiniteSet(s \ {Pick(s)})
         /\ Cardinality(s) \in Nat \ {0} /\ Cardinality(s \ {Pick(s)}) = Cardinality(s) - 1
<1>1. Pick(s) \in s
  BY DEF Pick
<1>2. IsFiniteSet(s \ {Pick(s)}) /\ Cardinality(s \ {Pick(s)}) = Cardinality(s) - 1
  BY <1>1, FS_RemoveElement
<1>3. Cardinality(s) \in Nat /\ Cardinality(s) # 0
  BY FS_CardinalityType, FS_EmptySet
<1> QED BY <1>1, <1>2, <1>3

LEMMA SumsExist ==
  ASSUME NEW w, NEW S, IsFiniteSet(S)
  PROVE  \E g : Sums(g, w, S)
<1> DEFINE Bad == {m \in Nat : ~ \E g : SumsUpTo(g, w, S, m)}
           D(m) == {s \in SUBSET S : Cardinality(s) <= m}
<1>1. \A s \in SUBSET S : IsFiniteSet(s) /\ Cardinality(s) \in Nat /\ Cardinality(s) <= Cardinality(S)
  BY FS_Subset, FS_CardinalityType
<1>2. Bad = {}
  <2> SUFFICES ASSUME Bad # {} PROVE FALSE
    OBVIOUS
  <2>1. PICK m \in Bad : \A y \in Bad : m <= y
    <3>1. Bad \in SUBSET Nat
      OBVIOUS
    <3> HIDE DEF Bad
    <3> QED BY <3>1, NatMin
  <2>2. m \in Nat /\ ~ \E g : SumsUpTo(g, w, S, m)
    OBVIOUS
  <2>3. m # 0
    <3> SUFFICES ASSUME m = 0 PROVE FALSE
      OBVIOUS
    <3>1. \A s \in D(0) : s = {}
      <4> SUFFICES ASSUME NEW s \in SUBSET S, Cardinality(s) <= 0 PROVE s = {}
        OBVIOUS
      <4>1. Cardinality(s) = 0
        BY <1>1
      <4> QED BY <1>1, <4>1, FS_EmptySet
    <3> DEFINE g == [s \in D(0) |-> 0]
    <3>2. \A s \in D(0) : g[s] = IF s = {} THEN 0 ELSE w[Pick(s)].n + g[s \ {Pick(s)}]
      BY <3>1
    <3>3. g = [s \in D(0) |-> g[s]]
      OBVIOUS
    <3>4. SumsUpTo(g, w, S, 0)
      <4> HIDE DEF g
      <4> QED BY <3>2, <3>3 DEF SumsUpTo
    <3> QED BY <2>2, <3>4
  <2>4. m - 1 \in Nat /\ ~(m <= m - 1)
    BY <2>2, <2>3
  <2>5. m - 1 \notin Bad
    <3> HIDE DEF Bad
    <3> QED BY <2>1, <2>4
  <2>6. PICK g : SumsUpTo(g, w, S, m - 1)
    BY <2>4, <2>5
  <2> DEFINE f == [s \in D(m) |-> IF s = {} THEN 0 ELSE w[Pick(s)].n + g[s \ {Pick(s)}]]
  <2>7. \A s \in D(m - 1) : s \in D(m) /\ g[s] = IF s = {} THEN 0 ELSE w[Pick(s)].n + g[s \ {Pick(s)}]
    <3> SUFFICES ASSUME NEW s \in D(m - 1)
                 PROVE  s \in D(m) /\ g[s] = IF s = {} THEN 0 ELSE w[Pick(s)].n + g[s \ {Pick(s)}]
      OBVIOUS
    <3>1. Cardinality(s) <= m
      BY <1>1, <2>2
    <3> QED BY <2>6, <3>1 DEF SumsUpTo
  <2>8. \A s \in D(m - 1) : f[s] = g[s]
    BY <2>7
  <2>9. \A s \in D(m) : f[s] = IF s = {} THEN 0 ELSE w[Pick(s)].n + f[s \ {Pick(s)}]
    <3> SUFFICES ASSUME NEW s \in D(m), s # {} PROVE f[s] = w[Pick(s)].n + f[s \ {Pick(s)}]
      OBVIOUS
    <3>1. Cardinality(s) \in Nat /\ Cardinality(s \ {Pick(s)}) = Cardinality(s) - 1
      BY <1>1, PickOne
    <3>2. Cardinality(s \ {Pick(s)}) <= m - 1
      BY <2>2, <3>1
    <3>3. s \ {Pick(s)} \in D(m - 1)
      BY <3>2
    <3>4. f[s] = w[Pick(s)].n + g[s \ {Pick(s)}]
      OBVIOUS
    <3> HIDE DEF f, D
    <3> QED BY <2>8, <3>3, <3>4
  <2>10. f = [s \in D(m) |-> f[s]]
    OBVIOUS
  <2>11. SumsUpTo(f, w, S, m)
    <3> HIDE DEF f
    <3> QED BY <2>9, <2>10 DEF SumsUpTo
  <2> QED BY <2>2, <2>11
<1>3. Cardinality(S) \in Nat
  BY FS_CardinalityType
<1>4. PICK g : SumsUpTo(g, w, S, Cardinality(S))
  BY <1>2, <1>3
<1>5. {s \in SUBSET S : Cardinality(s) <= Cardinality(S)} = SUBSET S
  BY <1>1
<1>6. Sums(g, w, S)
  BY <1>4, <1>5 DEF Sums, SumsUpTo
<1> QED BY <1>6

LEMMA SumsAt ==
  ASSUME NEW w, NEW S, NEW g, Sums(g, w, S), NEW s \in SUBSET S
  PROVE  g[s] = IF s = {} THEN 0 ELSE w[Pick(s)].n + g[s \ {Pick(s)}]
BY DEF Sums

LEMMA SumsAgree ==
  ASSUME NEW w, NEW S, NEW U, IsFiniteSet(S), IsFiniteSet(U),
         NEW g, Sums(g, w, S), NEW h, Sums(h, w, U), NEW t \in SUBSET (S \cap U)
  PROVE  g[t] = h[t]
<1> DEFINE Bad == {Cardinality(s) : s \in {s \in SUBSET (S \cap U) : g[s] # h[s]}}
<1>1. \A s \in SUBSET (S \cap U) : IsFiniteSet(s) /\ Cardinality(s) \in Nat
  BY FS_Subset, FS_CardinalityType
<1>2. Bad = {}
  <2> SUFFICES ASSUME Bad # {} PROVE FALSE
    OBVIOUS
  <2>1. Bad \in SUBSET Nat
    BY <1>1
  <2>2. PICK m \in Bad : \A y \in Bad : m <= y
    <3> HIDE DEF Bad
    <3> QED BY <2>1, NatMin
  <2>3. PICK s \in SUBSET (S \cap U) : g[s] # h[s] /\ m = Cardinality(s)
    OBVIOUS
  <2>4. /\ g[s] = IF s = {} THEN 0 ELSE w[Pick(s)].n + g[s \ {Pick(s)}]
        /\ h[s] = IF s = {} THEN 0 ELSE w[Pick(s)].n + h[s \ {Pick(s)}]
    <3>1. s \in SUBSET S /\ s \in SUBSET U
      OBVIOUS
    <3>2. g[s] = IF s = {} THEN 0 ELSE w[Pick(s)].n + g[s \ {Pick(s)}]
      BY <3>1 DEF Sums
    <3>3. h[s] = IF s = {} THEN 0 ELSE w[Pick(s)].n + h[s \ {Pick(s)}]
      BY <3>1 DEF Sums
    <3> QED BY <3>2, <3>3
  <2>5. s # {} /\ g[s \ {Pick(s)}] # h[s \ {Pick(s)}]
    BY <2>3, <2>4
  <2>6. Cardinality(s \ {Pick(s)}) \in Bad
    BY <2>5
  <2>7. m \in Nat /\ Cardinality(s \ {Pick(s)}) = m - 1
    BY <1>1, <2>3, <2>5, PickOne
  <2> HIDE DEF Bad
  <2>8. m <= Cardinality(s \ {Pick(s)})
    BY <2>2, <2>6
  <2> QED BY <2>7, <2>8
<1> QED BY <1>2

LEMMA SumStep ==
  ASSUME NEW w, NEW S, IsFiniteSet(S)
  PROVE  SumOver(w, S) = IF S = {} THEN 0 ELSE w[Pick(S)].n + SumOver(w, S \ {Pick(S)})
<1> DEFINE g == CHOOSE g : Sums(g, w, S)
           T == S \ {Pick(S)}
           h == CHOOSE h : Sums(h, w, T)
<1>1. IsFiniteSet(T)
  BY FS_Subset
<1>2. Sums(g, w, S) /\ Sums(h, w, T)
  BY <1>1, SumsExist
<1>3. SumOver(w, S) = g[S] /\ SumOver(w, T) = h[T]
  BY SumIs
<1> HIDE DEF g, h
<1>4. g[S] = IF S = {} THEN 0 ELSE w[Pick(S)].n + g[T]
  BY <1>2, SumsAt
<1>5. T \in SUBSET (S \cap T)
  OBVIOUS
<1> HIDE DEF T
<1>6. g[T] = h[T]
  BY <1>1, <1>2, <1>5, SumsAgree
<1> QED BY <1>3, <1>4, <1>6 DEF T

LEMMA SumType ==
  ASSUME NEW w, NEW S, IsFiniteSet(S), \A x \in S : w[x].n \in Nat
  PROVE  SumOver(w, S) \in Nat
<1> DEFINE Bad == {Cardinality(s) : s \in {s \in SUBSET S : SumOver(w, s) \notin Nat}}
<1>1. \A s \in SUBSET S : IsFiniteSet(s) /\ Cardinality(s) \in Nat
  BY FS_Subset, FS_CardinalityType
<1>2. Bad = {}
  <2> SUFFICES ASSUME Bad # {} PROVE FALSE
    OBVIOUS
  <2>1. Bad \in SUBSET Nat
    BY <1>1
  <2>2. PICK m \in Bad : \A y \in Bad : m <= y
    <3> HIDE DEF Bad
    <3> QED BY <2>1, NatMin
  <2>3. PICK s \in SUBSET S : SumOver(w, s) \notin Nat /\ m = Cardinality(s)
    OBVIOUS
  <2>4. SumOver(w, s) = IF s = {} THEN 0 ELSE w[Pick(s)].n + SumOver(w, s \ {Pick(s)})
    BY <1>1, SumStep
  <2>5. s # {}
    BY <2>3, <2>4
  <2>6. Pick(s) \in s /\ m \in Nat /\ Cardinality(s \ {Pick(s)}) = m - 1
    BY <1>1, <2>3, <2>5, PickOne
  <2>7. w[Pick(s)].n \in Nat
    BY <2>6
  <2>8. SumOver(w, s \ {Pick(s)}) \notin Nat
    BY <2>3, <2>4, <2>5, <2>7
  <2>9. Cardinality(s \ {Pick(s)}) \in Bad
    BY <2>8
  <2> HIDE DEF Bad
  <2>10. m <= Cardinality(s \ {Pick(s)})
    BY <2>2, <2>9
  <2> QED BY <2>6, <2>10
<1> QED BY <1>2

(* A sum is any one of its terms and the sum of the others. *)
LEMMA SumSplits ==
  ASSUME NEW w, NEW S, IsFiniteSet(S), \A x \in S : w[x].n \in Nat, NEW z \in S
  PROVE  SumOver(w, S) = w[z].n + SumOver(w, S \ {z})
<1> DEFINE Off(s) == \E x \in s : SumOver(w, s) # w[x].n + SumOver(w, s \ {x})
           Bad == {Cardinality(s) : s \in {s \in SUBSET S : Off(s)}}
<1>1. \A s \in SUBSET S : IsFiniteSet(s) /\ Cardinality(s) \in Nat /\ SumOver(w, s) \in Nat
  <2> SUFFICES ASSUME NEW s \in SUBSET S PROVE IsFiniteSet(s) /\ Cardinality(s) \in Nat /\ SumOver(w, s) \in Nat
    OBVIOUS
  <2>1. IsFiniteSet(s) /\ \A x \in s : w[x].n \in Nat
    BY FS_Subset
  <2> QED BY <2>1, FS_CardinalityType, SumType
<1>2. Bad = {}
  <2> SUFFICES ASSUME Bad # {} PROVE FALSE
    OBVIOUS
  <2>1. Bad \in SUBSET Nat
    BY <1>1
  <2>2. PICK m \in Bad : \A y \in Bad : m <= y
    <3> HIDE DEF Bad
    <3> QED BY <2>1, NatMin
  <2>3. PICK s \in SUBSET S : Off(s) /\ m = Cardinality(s)
    OBVIOUS
  <2>4. PICK x \in s : SumOver(w, s) # w[x].n + SumOver(w, s \ {x})
    BY <2>3
  <2> DEFINE y == Pick(s)
  <2>5. SumOver(w, s) = w[y].n + SumOver(w, s \ {y})
    BY <1>1, <2>4, SumStep
  <2>6. y \in s /\ m \in Nat /\ Cardinality(s \ {y}) = m - 1
    BY <1>1, <2>3, <2>4, PickOne
  <2> HIDE DEF y
  <2>7. x # y
    BY <2>4, <2>5
  <2>8. m - 1 \notin Bad
    <3>1. ~(m <= m - 1)
      BY <2>6
    <3> HIDE DEF Bad
    <3> QED BY <2>2, <3>1
  <2>9. \A t \in SUBSET S : Cardinality(t) = m - 1 => ~Off(t)
    BY <2>8
  <2>10. Cardinality(s \ {x}) = m - 1
    BY <1>1, <2>3, FS_RemoveElement
  <2>11. SumOver(w, s \ {y}) = w[x].n + SumOver(w, (s \ {y}) \ {x})
    BY <2>6, <2>7, <2>9
  <2>12. SumOver(w, s \ {x}) = w[y].n + SumOver(w, (s \ {x}) \ {y})
    BY <2>6, <2>7, <2>9, <2>10
  <2>13. (s \ {x}) \ {y} = (s \ {y}) \ {x}
    OBVIOUS
  <2> DEFINE v == SumOver(w, (s \ {x}) \ {y})
             a == w[x].n
             b == w[y].n
  <2>14. v \in Nat /\ a \in Nat /\ b \in Nat
    BY <1>1, <2>6
  <2>15. SumOver(w, s) = b + (a + v) /\ SumOver(w, s) # a + (b + v)
    BY <2>4, <2>5, <2>11, <2>12, <2>13
  <2> HIDE DEF v, a, b
  <2> QED BY <2>14, <2>15
<1>3. Cardinality(S) \notin Bad
  BY <1>2
<1>4. ~Off(S)
  BY <1>3
<1> QED BY <1>4

LEMMA SumEmpty == ASSUME NEW w PROVE SumOver(w, {}) = 0
BY SumStep, FS_EmptySet

LEMMA SumGrows ==
  ASSUME NEW w, NEW S, IsFiniteSet(S), \A x \in S : w[x].n \in Nat,
         NEW z, z \notin S, w[z].n \in Nat
  PROVE  SumOver(w, S \cup {z}) = SumOver(w, S) + w[z].n /\ SumOver(w, S) \in Nat
<1>1. IsFiniteSet(S \cup {z}) /\ \A x \in S \cup {z} : w[x].n \in Nat
  BY FS_AddElement
<1>2. SumOver(w, S \cup {z}) = w[z].n + SumOver(w, (S \cup {z}) \ {z})
  BY <1>1, SumSplits
<1>3. (S \cup {z}) \ {z} = S
  OBVIOUS
<1>4. SumOver(w, S) \in Nat
  BY SumType
<1> DEFINE a == w[z].n
           b == SumOver(w, S)
<1>5. SumOver(w, S \cup {z}) = a + b /\ a \in Nat /\ b \in Nat
  BY <1>2, <1>3, <1>4
<1> HIDE DEF a, b
<1>6. SumOver(w, S \cup {z}) = b + a
  BY <1>5
<1> QED BY <1>4, <1>6 DEF a, b

-----------------------------------------------------------------------------
(* The walk of the chunks: check() reads every header below p, in order. *)

Offsets  == DOMAIN img.chunk
Under(x) == {o \in Offsets : o < x}
Sound(o) == img.chunk[o].n # 0 /\ img.chunk[o].conn < Connections /\ img.chunk[o].pad

(* x is the end of the first k chunks, and they are all sound. *)
Reached(x, k) ==
  /\ x \in Offsets \cup {img.len} /\ Cardinality(Under(x)) = k
  /\ \A o \in Under(x) : Sound(o)

(* The parts of the file that check() and unpack() both look at. *)
Framed ==
  /\ img.magic /\ img.version = 2 /\ img.header = 20
  /\ \A k \in ConnIds : Protocol(k) \in {PROTO_GT06, PROTO_JT808}
  /\ img.tablePad

(* What unpack() accepts; and what check() may refuse. *)
Whole ==
  /\ Framed /\ img.chunks = Cardinality(Offsets)
  /\ \A o \in Offsets : Sound(o)
  /\ SumOver(img.chunk, Offsets) = img.payload
Refusable == ~Whole \/ Connections = 0 \/ Connections > MaxConnections

(* Where check() is, and what it has found when it is done or refuses. *)
ReadSoFar ==
  pc = "check_chunks" =>
    left <= img.chunks /\ Reached(p, img.chunks - left) /\ sum = SumOver(img.chunk, Under(p))
ReadAll ==
  pc \in {"setup"} \cup BufferPhases =>
    Reached(h_end, img.chunks) /\ SumOver(img.chunk, Under(h_end)) = img.payload
Justified == code = 2 => Refusable

ReadInv ==
  /\ img \in Images
  /\ pc \notin {"check", "done"} => TableOK
  /\ ReadSoFar /\ ReadAll /\ Justified

LEMMA OffsetTypes ==
  ASSUME img \in Images
  PROVE  /\ IsImage(img) /\ IsPacked(img) /\ Offsets \in SUBSET Nat /\ IsFiniteSet(Offsets)
         /\ \A o \in Offsets : img.chunk[o].n \in Nat /\ img.chunk[o].conn \in Nat /\ img.chunk[o].pad \in BOOLEAN
                               /\ ChunkEnd(img, o) \in Nat /\ o < ChunkEnd(img, o)
         /\ img.len \in Nat /\ img.chunks \in Nat /\ Connections \in Nat
<1>1. IsImage(img) /\ IsPacked(img)
  BY ImagesAssumption
<1>2. Offsets \in SUBSET Nat /\ IsFiniteSet(Offsets)
  BY <1>1 DEF IsImage, IsPacked, Offsets
<1>3. ASSUME NEW o \in Offsets
      PROVE  img.chunk[o].n \in Nat /\ img.chunk[o].conn \in Nat /\ img.chunk[o].pad \in BOOLEAN
             /\ ChunkEnd(img, o) \in Nat /\ o < ChunkEnd(img, o)
  <2>1. img.chunk[o] \in Chunks
    BY <1>1 DEF IsImage, Offsets
  <2>2. img.chunk[o].n \in Nat /\ img.chunk[o].conn \in Nat /\ img.chunk[o].pad \in BOOLEAN
    BY <2>1 DEF Chunks
  <2>3. Pad4(img.chunk[o].n) \in Nat /\ o \in Nat
    BY <1>2, <2>2, PadType
  <2> QED BY <2>2, <2>3 DEF ChunkEnd
<1>4. img.len \in Nat /\ img.chunks \in Nat /\ Connections \in Nat
  BY <1>1 DEF IsImage, Connections
<1> QED BY <1>1, <1>2, <1>3, <1>4

LEMMA UnderFinite ==
  ASSUME img \in Images, NEW x
  PROVE  /\ Under(x) \subseteq Offsets /\ IsFiniteSet(Under(x)) /\ Cardinality(Under(x)) \in Nat
         /\ Cardinality(Under(x)) = Cardinality(Offsets) => Under(x) = Offsets
<1>1. Under(x) \subseteq Offsets /\ IsFiniteSet(Offsets)
  BY OffsetTypes DEF Under
<1> QED BY <1>1, FS_Subset, FS_CardinalityType

(* Between a chunk and its end there is no other. *)
LEMMA UnderGrows ==
  ASSUME img \in Images, NEW o \in Offsets
  PROVE  /\ Under(ChunkEnd(img, o)) = Under(o) \cup {o} /\ o \notin Under(o)
         /\ Cardinality(Under(ChunkEnd(img, o))) = Cardinality(Under(o)) + 1
         /\ SumOver(img.chunk, Under(ChunkEnd(img, o))) = SumOver(img.chunk, Under(o)) + img.chunk[o].n
         /\ ChunkEnd(img, o) \in Offsets \cup {img.len}
<1>1. /\ o \in Nat /\ \A q \in Offsets : q \in Nat
      /\ ChunkEnd(img, o) \in Nat /\ o < ChunkEnd(img, o)
  BY OffsetTypes
<1>2. /\ \A q \in Offsets : o < q => ChunkEnd(img, o) <= q
      /\ ChunkEnd(img, o) \in Offsets \cup {img.len}
  BY OffsetTypes DEF IsPacked, Offsets
<1> DEFINE e == ChunkEnd(img, o)
<1>3. \A q \in Offsets : q < e <=> q < o \/ q = o
  <2> HIDE DEF e
  <2>1. e \in Nat /\ o < e /\ \A q \in Offsets : o < q => e <= q
    BY <1>1, <1>2 DEF e
  <2> QED BY <1>1, <2>1
<1>4. Under(e) = Under(o) \cup {o} /\ o \notin Under(o)
  <2> HIDE DEF e
  <2>1. \A q : q \in Under(e) <=> q \in Under(o) \/ q = o
    BY <1>3 DEF Under
  <2>2. ~(o < o)
    BY <1>1
  <2> QED BY <2>1, <2>2 DEF Under
<1>5. IsFiniteSet(Under(o)) /\ Under(o) \subseteq Offsets
  BY UnderFinite
<1>6. Cardinality(Under(e)) = Cardinality(Under(o)) + 1
  BY <1>4, <1>5, FS_AddElement
<1>7. SumOver(img.chunk, Under(o) \cup {o}) = SumOver(img.chunk, Under(o)) + img.chunk[o].n
  <2>1. \A q \in Under(o) : img.chunk[q].n \in Nat
    BY <1>5, OffsetTypes
  <2>2. img.chunk[o].n \in Nat
    BY OffsetTypes
  <2> QED BY <1>4, <1>5, <2>1, <2>2, SumGrows
<1> QED BY <1>2, <1>4, <1>6, <1>7

LEMMA UnderFirst ==
  ASSUME img \in Images
  PROVE  Reached(FirstChunk, 0) /\ SumOver(img.chunk, Under(FirstChunk)) = 0
<1>1. IsPacked(img) /\ \A o \in Offsets : o \in Nat
  BY OffsetTypes
<1>2. FirstChunk \in Offsets \cup {img.len} /\ \A o \in Offsets : FirstChunk <= o
  BY <1>1 DEF IsPacked, FirstChunk, Connections, Offsets
<1>3. FirstChunk \in Nat
  BY <1>1, <1>2, OffsetTypes
<1>4. Under(FirstChunk) = {}
  <2>1. \A o \in Offsets : ~(o < FirstChunk)
    <3> SUFFICES ASSUME NEW o \in Offsets PROVE ~(o < FirstChunk)
      OBVIOUS
    <3>1. o \in Nat /\ FirstChunk <= o
      BY <1>1, <1>2
    <3> QED BY ONLY <1>3, <3>1
  <2> QED BY <2>1 DEF Under
<1>5. SumOver(img.chunk, {}) = 0
  BY SumEmpty
<1> QED BY <1>2, <1>4, <1>5, FS_EmptySet DEF Reached

LEMMA UnderLast ==
  ASSUME img \in Images
  PROVE  Under(img.len) = Offsets /\ img.len \notin Offsets
<1>1. \A o \in Offsets : o \in Nat /\ ChunkEnd(img, o) \in Nat /\ o < ChunkEnd(img, o) /\ ChunkEnd(img, o) <= img.len
  BY OffsetTypes DEF IsPacked, Offsets
<1>2. img.len \in Nat
  BY OffsetTypes
<1>3. \A o \in Offsets : o < img.len
  BY <1>1, <1>2
<1>4. ~(img.len < img.len)
  BY <1>2
<1>5. Under(img.len) = Offsets
  BY <1>3 DEF Under
<1> QED BY <1>3, <1>4, <1>5

LEMMA UnpacksIs ==
  ASSUME img \in Images
  PROVE  /\ Unpacks <=> Whole
         /\ TableOK <=> Framed /\ Connections # 0 /\ Connections <= MaxConnections
<1>1. /\ Offsets \in SUBSET Nat /\ IsFiniteSet(Offsets)
      /\ \A o \in Offsets : img.chunk[o].n \in Nat
  BY OffsetTypes
<1> DEFINE N == Cardinality(Offsets)
<1>2. /\ N \in Nat /\ Len(FileOrder) = N /\ FileOrder \in [1 .. N -> Offsets]
      /\ \A o \in Offsets : \E k \in 1 .. N : FileOrder[k] = o
  BY <1>1, InOrderRanks DEF FileOrder, Offsets
<1> HIDE DEF N
<1>3. \A o \in Offsets : Sound(o) <=> /\ img.chunk[o].n >= 1 /\ img.chunk[o].conn < Connections
                                      /\ img.chunk[o].pad
  <2> SUFFICES ASSUME NEW o \in Offsets PROVE img.chunk[o].n # 0 <=> img.chunk[o].n >= 1
    BY DEF Sound
  <2> DEFINE n == img.chunk[o].n
  <2>1. n \in Nat
    BY <1>1
  <2> HIDE DEF n
  <2>2. n # 0 <=> n >= 1
    BY <2>1
  <2> QED BY <2>2 DEF n
<1>4. (\A o \in Offsets : Sound(o)) <=>
        \A k \in 1 .. N : LET h == img.chunk[FileOrder[k]] IN h.n >= 1 /\ h.conn < Connections /\ h.pad
  BY <1>2, <1>3
<1>5. Unpacks <=> /\ Framed /\ img.chunks = N /\ (\A o \in Offsets : Sound(o))
                  /\ PayloadOf(Offsets) = img.payload
  BY <1>2, <1>4 DEF Unpacks, Framed, Offsets
<1>7. PayloadOf(Offsets) = SumOver(img.chunk, Offsets)
  BY DEF PayloadOf, SumOver
<1>6. TableOK <=> Framed /\ Connections # 0 /\ Connections <= MaxConnections
  BY DEF TableOK, Framed
<1> QED BY <1>5, <1>6, <1>7 DEF N, Whole

LEMMA FileStays ==
  ASSUME img' = img
  PROVE  /\ Offsets' = Offsets /\ Connections' = Connections
         /\ (TableOK' <=> TableOK) /\ (Refusable' <=> Refusable)
         /\ Reached(p, img.chunks - left)' <=> Reached(p', img.chunks - left')
         /\ Reached(h_end, img.chunks)' <=> Reached(h_end', img.chunks)
         /\ SumOver(img.chunk, Under(p))' = SumOver(img.chunk, Under(p'))
         /\ SumOver(img.chunk, Under(h_end))' = SumOver(img.chunk, Under(h_end'))
<1>1. Offsets' = Offsets /\ Connections' = Connections /\ ConnIds' = ConnIds
  BY DEF Offsets, Connections, ConnIds
<1>2. TableOK' <=> TableOK
  BY <1>1 DEF TableOK, Protocol
<1>3. Refusable' <=> Refusable
  BY <1>1 DEF Refusable, Whole, Framed, Sound, Protocol
<1>4. /\ Reached(p, img.chunks - left)' <=> Reached(p', img.chunks - left')
      /\ Reached(h_end, img.chunks)' <=> Reached(h_end', img.chunks)
  BY <1>1 DEF Reached, Under, Sound
<1>5. /\ SumOver(img.chunk, Under(p))' = SumOver(img.chunk, Under(p'))
      /\ SumOver(img.chunk, Under(h_end))' = SumOver(img.chunk, Under(h_end'))
  BY <1>1 DEF Under
<1> QED BY <1>1, <1>2, <1>3, <1>4, <1>5

LEMMA HeaderRead ==
  ASSUME NEW o
  PROVE  /\ HeaderAt(o).n # 0 => o \in Offsets
         /\ o \in Offsets => HeaderAt(o) = img.chunk[o]
BY DEF HeaderAt, Offsets

LEMMA CheckHeaderReads == ReadInv /\ CheckHeader => ReadInv'
<1> SUFFICES ASSUME ReadInv, CheckHeader PROVE ReadInv'
  OBVIOUS
<1>1. img \in Images /\ img' = img
  BY DEF ReadInv, CheckHeader
<1>2. img.chunks \in Nat
  BY <1>1, OffsetTypes
<1>3. CASE TableOK
  <2>1. pc' = "check_chunks" /\ code' = code /\ p' = FirstChunk /\ left' = img.chunks /\ sum' = 0
    BY <1>3 DEF CheckHeader
  <2>2. Reached(FirstChunk, 0) /\ SumOver(img.chunk, Under(FirstChunk)) = 0
    BY <1>1, UnderFirst
  <2>3. img.chunks - left' = 0 /\ left' <= img.chunks
    BY <1>2, <2>1
  <2>4. Reached(p', img.chunks - left') /\ sum' = SumOver(img.chunk, Under(p'))
    BY <2>1, <2>2, <2>3
  <2>5. ReadSoFar'
    BY <1>1, <2>3, <2>4, FileStays DEF ReadSoFar
  <2> QED BY <1>1, <1>3, <2>1, <2>5, FileStays DEF ReadInv, ReadAll, Justified, BufferPhases
<1>4. CASE ~TableOK
  <2>1. pc' = "done" /\ code' = 2
    BY <1>4 DEF CheckHeader, Exit
  <2>2. Refusable
    <3>1. ~Framed \/ Connections = 0 \/ ~(Connections <= MaxConnections)
      BY <1>1, <1>4, UnpacksIs
    <3>2. Connections \in Nat /\ MaxConnections \in Nat
      <4>1. MaxConnections \in Nat
        BY MaxConnectionsAssumption
      <4> QED BY <1>1, <4>1, OffsetTypes
    <3>3. ~(Connections <= MaxConnections) => Connections > MaxConnections
      BY <3>2
    <3> QED BY <3>1, <3>3 DEF Refusable, Whole
  <2> QED BY <1>1, <2>1, <2>2, FileStays DEF ReadInv, ReadSoFar, ReadAll, Justified, BufferPhases
<1> QED BY <1>3, <1>4

LEMMA CheckChunkReads == TypeOK /\ ReadInv /\ CheckChunk => ReadInv'
<1> SUFFICES ASSUME TypeOK, ReadInv, CheckChunk PROVE ReadInv'
  OBVIOUS
<1>1. img \in Images /\ img' = img /\ pc = "check_chunks" /\ left > 0
  BY DEF ReadInv, CheckChunk
<1>2. img.chunks \in Nat /\ left \in Nat
  BY <1>1, OffsetTypes DEF TypeOK, WalkTypes
<1>3. left <= img.chunks /\ Reached(p, img.chunks - left) /\ sum = SumOver(img.chunk, Under(p))
      /\ TableOK
  BY <1>1 DEF ReadInv, ReadSoFar
<1> DEFINE h == HeaderAt(p)
<1>4. CASE h.n = 0 \/ h.conn >= Connections \/ ~h.pad
  <2>1. pc' = "done" /\ code' = 2
    BY <1>4 DEF CheckChunk, Exit
  <2>2. CASE p \in Offsets
    <3> DEFINE conn == img.chunk[p].conn
    <3>1. img.chunk[p].n = 0 \/ conn >= Connections \/ ~img.chunk[p].pad
      BY <1>4, <2>2, HeaderRead
    <3>2. conn \in Nat /\ Connections \in Nat
      BY <1>1, <2>2, OffsetTypes
    <3> HIDE DEF conn
    <3>3. conn >= Connections => ~(conn < Connections)
      BY <3>2
    <3>4. ~Sound(p)
      BY <3>1, <3>3 DEF Sound, conn
    <3>5. Refusable
      BY <2>2, <3>4 DEF Refusable, Whole
    <3> QED BY <1>1, <2>1, <3>5, FileStays DEF ReadInv, ReadSoFar, ReadAll, Justified, BufferPhases
  <2>3. CASE p \notin Offsets
    <3>1. Under(p) = Offsets
      BY <1>1, <1>3, <2>3, UnderLast DEF Reached
    <3>2. Cardinality(Offsets) = img.chunks - left
      BY <1>3, <3>1 DEF Reached
    <3>3. img.chunks # Cardinality(Offsets)
      BY <1>1, <1>2, <3>2
    <3>4. Refusable
      BY <3>3 DEF Refusable, Whole
    <3> QED BY <1>1, <2>1, <3>4, FileStays DEF ReadInv, ReadSoFar, ReadAll, Justified, BufferPhases
  <2> QED BY <2>2, <2>3
<1>5. CASE ~(h.n = 0 \/ h.conn >= Connections \/ ~h.pad)
  <2>1. p \in Offsets /\ h = img.chunk[p]
    BY <1>5, HeaderRead
  <2>2. pc' = pc /\ code' = code /\ p' = p + 4 + Pad4(h.n) /\ left' = left - 1 /\ sum' = sum + h.n
    BY <1>5 DEF CheckChunk
  <2>3. p' = ChunkEnd(img, p)
    BY <2>1, <2>2 DEF ChunkEnd
  <2> HIDE DEF h
  <2>4. /\ Under(p') = Under(p) \cup {p} /\ Cardinality(Under(p')) = Cardinality(Under(p)) + 1
        /\ SumOver(img.chunk, Under(p')) = SumOver(img.chunk, Under(p)) + img.chunk[p].n
        /\ p' \in Offsets \cup {img.len}
    BY <1>1, <2>1, <2>3, UnderGrows
  <2>5. Sound(p)
    <3> DEFINE conn == img.chunk[p].conn
    <3>1. conn \in Nat /\ Connections \in Nat
      BY <1>1, <2>1, OffsetTypes
    <3>2. ~(conn >= Connections)
      BY <1>5, <2>1
    <3> HIDE DEF conn
    <3>3. conn < Connections
      BY <3>1, <3>2
    <3> QED BY <1>5, <2>1, <3>3 DEF Sound, conn
  <2>6. img.chunks - left' = (img.chunks - left) + 1 /\ left' <= img.chunks
    BY <1>2, <1>3, <2>2
  <2>7. Reached(p', img.chunks - left')
    BY <1>3, <2>4, <2>5, <2>6 DEF Reached
  <2>8. sum' = SumOver(img.chunk, Under(p'))
    BY <1>3, <2>1, <2>2, <2>4
  <2>9. ReadSoFar'
    BY <1>1, <2>6, <2>7, <2>8, FileStays DEF ReadSoFar
  <2> QED BY <1>1, <1>3, <2>2, <2>9, FileStays DEF ReadInv, ReadAll, Justified, BufferPhases
<1> QED BY <1>4, <1>5

LEMMA CheckPayloadReads == TypeOK /\ ReadInv /\ CheckPayload => ReadInv'
<1> SUFFICES ASSUME TypeOK, ReadInv, CheckPayload PROVE ReadInv'
  OBVIOUS
<1>1. img \in Images /\ img' = img /\ pc = "check_chunks" /\ left = 0
  BY DEF ReadInv, CheckPayload
<1>2. img.chunks - left = img.chunks
  BY <1>1, OffsetTypes
<1>3. Reached(p, img.chunks) /\ sum = SumOver(img.chunk, Under(p)) /\ TableOK
  BY <1>1, <1>2 DEF ReadInv, ReadSoFar
<1>4. CASE sum # img.payload
  <2>1. pc' = "done" /\ code' = 2
    BY <1>4 DEF CheckPayload, Exit
  <2>2. Refusable
    <3> SUFFICES ASSUME img.chunks = Cardinality(Offsets), SumOver(img.chunk, Offsets) = img.payload
                 PROVE  FALSE
      BY DEF Refusable, Whole
    <3>1. Under(p) = Offsets
      BY <1>1, <1>3, UnderFinite DEF Reached
    <3> QED BY <1>3, <1>4, <3>1
  <2> QED BY <1>1, <2>1, <2>2, FileStays DEF ReadInv, ReadSoFar, ReadAll, Justified, BufferPhases
<1>5. CASE sum = img.payload
  <2>1. pc' = "setup" /\ code' = code /\ h_end' = p
    BY <1>5 DEF CheckPayload
  <2>2. Reached(h_end', img.chunks) /\ SumOver(img.chunk, Under(h_end')) = img.payload
    BY <1>3, <1>5, <2>1
  <2>3. ReadAll'
    BY <1>1, <2>2, FileStays DEF ReadAll
  <2> QED BY <1>1, <1>3, <2>1, <2>3, FileStays DEF ReadInv, ReadSoFar, Justified
<1> QED BY <1>4, <1>5

LEMMA ReadStep == TypeOK /\ ReadInv /\ Next => ReadInv'
<1> SUFFICES ASSUME TypeOK, ReadInv, Next PROVE ReadInv'
  OBVIOUS
<1> DEFINE Held == {"setup"} \cup BufferPhases
<1>1. CASE /\ img' = img /\ h_end' = h_end
           /\ pc' # "check_chunks"
           /\ code' = 2 => code = 2
           /\ pc' \in Held => pc \in Held
           /\ pc' \notin {"check", "done"} => pc \notin {"check", "done"}
  BY <1>1, FileStays DEF ReadInv, ReadSoFar, ReadAll, Justified
<1>2. \/ CheckHeader \/ CheckChunk \/ CheckPayload
      \/ /\ img' = img /\ h_end' = h_end
         /\ pc' # "check_chunks" \/ UNCHANGED << pc, left, p, sum, code >>
         /\ code' = 2 => code = 2
         /\ pc' \in Held => pc \in Held
         /\ pc' \notin {"check", "done"} => pc \notin {"check", "done"}
  BY DEF Next, Setup, DecoderChunk, InputEnds,
         DecoderEnd, WindowCloses, WalkRecord, SortRoom, CountRecord, CountEnds, StartOf,
         StartsEnd, PlaceRecord, PutHeader, PutRecord, MisreadRecord, PutEnd, Done, Exit,
         BufferPhases, vars, chunkVars, outVars
<1>3. CASE UNCHANGED << img, pc, left, p, sum, code, h_end >>
  BY <1>3, FileStays DEF ReadInv, ReadSoFar, ReadAll, Justified
<1> QED BY <1>1, <1>2, <1>3, CheckHeaderReads, CheckChunkReads, CheckPayloadReads

LEMMA ReadStutter == ReadInv /\ UNCHANGED vars => ReadInv'
<1> SUFFICES ASSUME ReadInv, UNCHANGED vars PROVE ReadInv'
  OBVIOUS
<1>1. UNCHANGED << img, pc, left, p, sum, code, h_end >>
  BY DEF vars, chunkVars, outVars
<1> QED BY <1>1, FileStays DEF ReadInv, ReadSoFar, ReadAll, Justified

LEMMA ReadInvariance == Spec => []ReadInv
<1>1. Init => ReadInv
  BY DEF Init, ReadInv, ReadSoFar, ReadAll, Justified, BufferPhases, Running
<1>2. IInv /\ ReadInv /\ [Next]_vars => ReadInv'
  BY ReadStep, ReadStutter DEF IInv
<1> QED BY <1>1, <1>2, Invariance, PTL DEF Spec

(* check() in the harness and unpack() in container.py accept the same     *)
(* files, but for bytes after the last chunk, which only unpack() can see, *)
(* and for how many connections there are, which only check() limits.      *)
THEOREM CheckUnpackAgree == Spec => []CheckAgreesWithUnpack
<1>1. TypeOK /\ ReadInv => CheckAgreesWithUnpack
  <2> SUFFICES ASSUME TypeOK, ReadInv PROVE CheckAgreesWithUnpack
    OBVIOUS
  <2>1. img \in Images
    BY DEF ReadInv
  <2>2. ASSUME pc \notin {"check", "check_chunks", "done"} PROVE Unpacks <=> h_end = img.len
    <3>1. TableOK /\ Reached(h_end, img.chunks) /\ SumOver(img.chunk, Under(h_end)) = img.payload
      BY <2>2 DEF ReadInv, ReadAll, TypeOK, Phases, BufferPhases
    <3>2. Framed
      BY <2>1, <3>1, UnpacksIs
    <3>3. ASSUME h_end = img.len PROVE Whole
      <4>1. Under(h_end) = Offsets
        BY <2>1, <3>3, UnderLast
      <4> QED BY <3>1, <3>2, <4>1 DEF Whole, Reached
    <3>4. ASSUME Whole PROVE h_end = img.len
      <4>1. Under(h_end) = Offsets
        BY <2>1, <3>1, <3>4, UnderFinite DEF Whole, Reached
      <4>2. h_end \notin Offsets
        <5> SUFFICES ASSUME h_end \in Offsets PROVE FALSE
          OBVIOUS
        <5>1. h_end \in Nat /\ h_end < h_end
          BY <2>1, <4>1, OffsetTypes DEF Under
        <5> QED BY <5>1
      <4> QED BY <3>1, <4>2 DEF Reached
    <3> QED BY <2>1, <3>3, <3>4, UnpacksIs
  <2> QED BY <2>1, <2>2, UnpacksIs DEF CheckAgreesWithUnpack, ReadInv, Justified, Refusable
<1>2. IInv => TypeOK
  BY DEF IInv
<1> QED BY <1>1, <1>2, ReadInvariance, Invariance, PTL

-----------------------------------------------------------------------------
(* What the buffer holds, told from the file. *)

(* The chunks of connection k below x. *)
Sent(x, k) == {o \in Under(x) : img.chunk[o].conn = k}

(* decoder_end() has been called for connection k. *)
Ended(k) == pc # "window" /\ (pc = "decoder_end" => k < c)

(* What record_chunk writes of the chunk at o, the file's alone. *)
FieldsOf(o, k) == ChunkShape(img.chunk[o].n, o + 4, SumOver(img.chunk, Sent(o, k)))
LastFields(x, k) == EndShape(SumOver(img.chunk, Sent(x, k)))

(* Connection k's records are its chunks, in order, and its end.           *)
Follows(k) ==
  /\ Cardinality(Of(k)) = Cardinality(Sent(p, k)) + (IF Ended(k) THEN 1 ELSE 0)
  /\ \A m \in 1 .. Cardinality(Sent(p, k)) :
       buf[InOrder(Of(k))[m]].fields = FieldsOf(InOrder(Sent(p, k))[m], k)
  /\ Ended(k) => buf[InOrder(Of(k))[Cardinality(Sent(p, k)) + 1]].fields = LastFields(p, k)

Positions == pc \in Filling => \A k \in ConnIds : at[k] = SumOver(img.chunk, Sent(p, k))
Mirrored  == pc \in BufferPhases /\ ~rec_full => \A k \in ConnIds : Follows(k)
Labelled  == \A a \in Stored : buf[a].protocol = Protocol(buf[a].conn)
Walked    == pc \in BufferPhases =>
               Cardinality(Under(p)) = img.chunks - left /\ (pc # "window" => left = 0)

TellInv == Positions /\ Mirrored /\ Labelled /\ Walked

LEMMA SentTypes ==
  ASSUME img \in Images, NEW x, NEW k
  PROVE  /\ Sent(x, k) \subseteq Offsets /\ Sent(x, k) \in SUBSET Nat /\ IsFiniteSet(Sent(x, k))
         /\ Cardinality(Sent(x, k)) \in Nat /\ SumOver(img.chunk, Sent(x, k)) \in Nat
<1>1. Sent(x, k) \subseteq Offsets
  BY DEF Sent, Under
<1>2. Offsets \in SUBSET Nat /\ IsFiniteSet(Offsets) /\ \A o \in Offsets : img.chunk[o].n \in Nat
  BY OffsetTypes
<1>3. IsFiniteSet(Sent(x, k)) /\ Cardinality(Sent(x, k)) \in Nat
  BY <1>1, <1>2, FS_Subset, FS_CardinalityType
<1>4. SumOver(img.chunk, Sent(x, k)) \in Nat
  BY <1>1, <1>2, <1>3, SumType
<1> QED BY <1>1, <1>2, <1>3, <1>4

(* The file does not change, so neither does what is told from it.         *)
LEMMA TellStays ==
  ASSUME img' = img
  PROVE  \A k : /\ Sent(p, k)' = Sent(p', k)
                /\ SumOver(img.chunk, Sent(p, k))' = SumOver(img.chunk, Sent(p', k))
                /\ LastFields(p, k)' = LastFields(p', k)
                /\ \A o : FieldsOf(o, k)' = FieldsOf(o, k)
<1>1. \A k : Sent(p, k)' = Sent(p', k) /\ \A o : Sent(o, k)' = Sent(o, k)
  BY DEF Sent, Under, Offsets
<1>2. \A k : SumOver(img.chunk, Sent(p, k))' = SumOver(img.chunk, Sent(p', k))
  BY <1>1
<1> QED BY <1>1, <1>2 DEF LastFields, FieldsOf

(* Past a chunk, its connection has sent that chunk more.                  *)
LEMMA SentGrows ==
  ASSUME img \in Images, NEW o \in Offsets, NEW k
  PROVE  /\ k # img.chunk[o].conn => Sent(ChunkEnd(img, o), k) = Sent(o, k)
         /\ k = img.chunk[o].conn =>
              /\ Sent(ChunkEnd(img, o), k) = Sent(o, k) \cup {o}
              /\ \A q \in Sent(o, k) : q < o
              /\ SumOver(img.chunk, Sent(ChunkEnd(img, o), k))
                   = SumOver(img.chunk, Sent(o, k)) + img.chunk[o].n
<1>1. Under(ChunkEnd(img, o)) = Under(o) \cup {o} /\ o \notin Under(o)
  BY UnderGrows
<1>2. k # img.chunk[o].conn => Sent(ChunkEnd(img, o), k) = Sent(o, k)
  BY <1>1 DEF Sent
<1>3. ASSUME k = img.chunk[o].conn
      PROVE  /\ Sent(ChunkEnd(img, o), k) = Sent(o, k) \cup {o} /\ o \notin Sent(o, k)
             /\ \A q \in Sent(o, k) : q < o
  BY <1>1, <1>3 DEF Sent, Under
<1>4. ASSUME k = img.chunk[o].conn
      PROVE  SumOver(img.chunk, Sent(o, k) \cup {o}) = SumOver(img.chunk, Sent(o, k)) + img.chunk[o].n
  <2>1. \A q \in Offsets : img.chunk[q].n \in Nat
    BY OffsetTypes
  <2>2. IsFiniteSet(Sent(o, k)) /\ \A q \in Sent(o, k) : img.chunk[q].n \in Nat
    BY <2>1, SentTypes
  <2>3. o \notin Sent(o, k)
    BY <1>3, <1>4
  <2> QED BY <2>1, <2>2, <2>3, SumGrows
<1> QED BY <1>2, <1>3, <1>4

LEMMA OfTypes ==
  ASSUME IInv, IsFiniteSet(Stored), NEW k
  PROVE  /\ Of(k) \in SUBSET Nat /\ Of(k) \subseteq Stored /\ IsFiniteSet(Of(k)) /\ Cardinality(Of(k)) \in Nat
         /\ \A m \in 1 .. Cardinality(Of(k)) : InOrder(Of(k))[m] \in Of(k)
<1>1. Of(k) \subseteq Stored /\ Stored \in SUBSET Nat
  BY DEF Of, IInv, TypeOK, BufferTypes, Stored
<1>2. IsFiniteSet(Of(k)) /\ Cardinality(Of(k)) \in Nat /\ Of(k) \in SUBSET Nat
  BY <1>1, FS_Subset, FS_CardinalityType
<1>3. InOrder(Of(k)) \in [1 .. Cardinality(Of(k)) -> Of(k)]
  BY <1>2, InOrderRanks
<1> QED BY <1>1, <1>2, <1>3

(* A connection that neither sends nor is recorded stays told.             *)
LEMMA FollowsStays ==
  ASSUME IInv, IsFiniteSet(Stored), img \in Images, img' = img, NEW k, Follows(k),
         Sent(p', k) = Sent(p, k), Of(k)' = Of(k), \A a \in Of(k) : buf'[a] = buf[a],
         Ended(k)' <=> Ended(k)
  PROVE  Follows(k)'
<1> DEFINE S == Of(k)
           n == Cardinality(Sent(p, k))
           e == IF Ended(k) THEN 1 ELSE 0
<1>1. /\ Cardinality(S) = n + e /\ n \in Nat
      /\ \A m \in 1 .. n : buf[InOrder(S)[m]].fields = FieldsOf(InOrder(Sent(p, k))[m], k)
      /\ Ended(k) => buf[InOrder(S)[n + 1]].fields = LastFields(p, k)
  BY SentTypes DEF Follows
<1>2. \A m \in 1 .. Cardinality(S) : InOrder(S)[m] \in S
  BY OfTypes
<1>3. Sent(p, k)' = Sent(p, k) /\ LastFields(p, k)' = LastFields(p, k)
      /\ \A o : FieldsOf(o, k)' = FieldsOf(o, k)
  <2>1. LastFields(p', k) = LastFields(p, k)
    BY DEF LastFields
  <2> QED BY <2>1, TellStays
<1>4. (Cardinality(Of(k)) = Cardinality(Sent(p, k)) + (IF Ended(k) THEN 1 ELSE 0))'
  BY <1>1, <1>3
<1>5. \A m \in 1 .. n : buf'[InOrder(S)[m]].fields = FieldsOf(InOrder(Sent(p, k))[m], k)
  <2> HIDE DEF S, n
  <2> SUFFICES ASSUME NEW m \in 1 .. n
               PROVE  buf'[InOrder(S)[m]].fields = FieldsOf(InOrder(Sent(p, k))[m], k)
    OBVIOUS
  <2>1. m \in 1 .. Cardinality(S)
    BY <1>1 DEF e
  <2>2. buf'[InOrder(S)[m]] = buf[InOrder(S)[m]]
    BY <1>2, <2>1 DEF S
  <2> QED BY <1>1, <2>2
<1>6. ASSUME Ended(k) PROVE buf'[InOrder(S)[n + 1]].fields = LastFields(p, k)
  <2>1. n + 1 \in 1 .. Cardinality(S)
    BY <1>1, <1>6
  <2> QED BY <1>1, <1>2, <1>6, <2>1
<1> QED BY <1>3, <1>4, <1>5, <1>6 DEF Follows

(* The records of the connections, when one more is closed.                *)
LEMMA CloseOf ==
  ASSUME IInv, FillCount, pc \in Filling,
         NEW conn \in ConnIds, NEW fields, NEW words, CloseRecord(conn, fields, words)
  PROVE  /\ \A k : k # conn => Of(k)' = Of(k)
         /\ \A a \in Stored : buf'[a] = buf[a]
         /\ Of(conn)' = Of(conn) \cup {rec_next}
         /\ Cardinality(Of(conn)') = Cardinality(Of(conn)) + 1
         /\ InOrder(Of(conn)')[Cardinality(Of(conn)) + 1] = rec_next
         /\ \A m \in 1 .. Cardinality(Of(conn)) :
              InOrder(Of(conn)')[m] = InOrder(Of(conn))[m] /\ InOrder(Of(conn))[m] \in Stored
         /\ buf'[rec_next].fields = fields
<1>1. /\ rec_next \in Nat /\ Stored \in SUBSET Nat /\ IsFiniteSet(Stored)
      /\ \A b \in Stored : b < rec_next
      /\ Stored' = Stored \cup {rec_next} /\ \A b \in Stored : buf'[b] = buf[b]
      /\ buf'[rec_next].conn = conn /\ buf'[rec_next].fields = fields
  BY CloseGrows
<1>2. \A k : Of(k)' = {a \in Stored' : buf'[a].conn = k}
  BY DEF Of
<1>3. \A k : k # conn => Of(k)' = Of(k)
  BY <1>1, <1>2 DEF Of
<1>4. Of(conn)' = Of(conn) \cup {rec_next}
  BY <1>1, <1>2 DEF Of
<1>5. Of(conn) \in SUBSET Nat /\ IsFiniteSet(Of(conn)) /\ Of(conn) \subseteq Stored
      /\ \A m \in 1 .. Cardinality(Of(conn)) : InOrder(Of(conn))[m] \in Of(conn)
  BY <1>1, OfTypes
<1> DEFINE S == Of(conn)
           x == rec_next
<1>6. S \in SUBSET Nat /\ IsFiniteSet(S) /\ x \in Nat /\ \A b \in S : b < x
  BY <1>1, <1>5
<1> HIDE DEF S, x
<1>7. /\ Cardinality(S \cup {x}) = Cardinality(S) + 1
      /\ InOrder(S \cup {x})[Cardinality(S) + 1] = x
      /\ \A m \in 1 .. Cardinality(S) : InOrder(S \cup {x})[m] = InOrder(S)[m]
  BY ONLY <1>6, InOrderGrows
<1> QED BY <1>1, <1>3, <1>4, <1>5, <1>7 DEF S, x

(* One more chunk of its connection, and one more record of it. *)
LEMMA ChunkTold ==
  ASSUME IInv, FillCount, ReadInv, TellInv, DecoderChunk
  PROVE  Positions' /\ Mirrored' /\ Walked'
<1>a. PICK conn : conn = img.chunk[p].conn
  OBVIOUS
<1>b. PICK n : n = img.chunk[p].n
  OBVIOUS
<1> DEFINE fs == ChunkFields(conn, p, n)
           words == 2 + fs[1].span + fs[2].span + fs[3].span
<1>1. /\ pc = "window" /\ left > 0 /\ pc' = pc /\ left' = left - 1 /\ img' = img
      /\ ChunkRecord(HeaderAt(p).conn, p, HeaderAt(p).n)
      /\ at' = [at EXCEPT ![HeaderAt(p).conn] = @ + HeaderAt(p).n]
      /\ p' = p + WindowStep(HeaderAt(p).n)
  BY DEF DecoderChunk
<1>2. img \in Images /\ pc \in Filling /\ pc \in BufferPhases /\ pc' \in BufferPhases
  BY <1>1 DEF ReadInv, Filling, BufferPhases
<1>3. p \in Offsets
  <2>1. PICK g : IsWalk(g, img.chunks) /\ left <= img.chunks /\ p = g[img.chunks - left]
    BY <1>1, <1>2 DEF IInv, WalkInv
  <2>2. img.chunks - left \in 0 .. img.chunks - 1
    BY <1>1, <2>1, CountTypes
  <2> QED BY <2>1, <2>2, HeaderRead DEF IsWalk
<1>4. HeaderAt(p) = img.chunk[p]
  BY <1>3, HeaderRead
<1>5. /\ ChunkRecord(conn, p, n) /\ at' = [at EXCEPT ![conn] = @ + n] /\ p' = ChunkEnd(img, p)
      /\ conn \in ConnIds /\ n \in Nat /\ at \in [ConnIds -> Nat] /\ ConnIds' = ConnIds
  <2>1. p' = ChunkEnd(img, p)
    <3>1. p \in Nat /\ Pad4(n) \in Nat
      BY <1>2, <1>3, <1>b, OffsetTypes, PadType
    <3>2. p' = p + (4 + Pad4(n)) /\ ChunkEnd(img, p) = p + 4 + Pad4(n)
      BY <1>1, <1>4, <1>b DEF WindowStep, ChunkEnd
    <3> QED BY <3>1, <3>2
  <2>2. conn \in ConnIds /\ at \in [ConnIds -> Nat]
    BY <1>1, <1>2, <1>4, <1>a, ConnHere
  <2>3. n \in Nat /\ ConnIds' = ConnIds
    BY <1>1, <1>2, <1>3, <1>b, OffsetTypes, LayoutStays
  <2> QED BY <1>1, <1>4, <1>a, <1>b, <2>1, <2>2, <2>3
<1>6. /\ \A k : k # conn => Sent(p', k) = Sent(p, k)
      /\ Sent(p', conn) = Sent(p, conn) \cup {p} /\ \A q \in Sent(p, conn) : q < p
      /\ SumOver(img.chunk, Sent(p', conn)) = SumOver(img.chunk, Sent(p, conn)) + n
  BY <1>2, <1>3, <1>5, <1>a, <1>b, SentGrows
<1>7. \A k \in ConnIds : at[k] = SumOver(img.chunk, Sent(p, k))
  BY <1>2 DEF TellInv, Positions
<1>8. Positions'
  <2>1. ASSUME NEW k \in ConnIds PROVE at'[k] = SumOver(img.chunk, Sent(p', k))
    <3>1. CASE k = conn
      BY <1>5, <1>6, <1>7, <3>1
    <3>2. CASE k # conn
      BY <1>5, <1>6, <1>7, <3>2
    <3> QED BY <3>1, <3>2
  <2> QED BY <1>1, <1>5, <2>1, TellStays DEF Positions
<1>9. Walked'
  <2>1. Cardinality(Under(p)) = img.chunks - left
    BY <1>2 DEF TellInv, Walked
  <2>2. Cardinality(Under(p')) = Cardinality(Under(p)) + 1
    BY <1>2, <1>3, <1>5, UnderGrows
  <2>3. Cardinality(Under(p')) = img.chunks - left'
    BY <1>1, <2>1, <2>2, CountTypes
  <2>4. Under(p)' = Under(p')
    BY <1>1 DEF Under, Offsets
  <2> QED BY <1>1, <2>3, <2>4 DEF Walked
<1>10. CASE RecordLost
  BY <1>8, <1>9, <1>10 DEF RecordLost, Mirrored
<1>11. CASE CloseRecord(conn, fs, words)
  <2> HIDE DEF fs
  <2> SUFFICES ASSUME ~rec_full', NEW k \in ConnIds PROVE Follows(k)'
    BY <1>5, <1>8, <1>9 DEF Mirrored
  <2>1. ~rec_full /\ Follows(k)
    BY <1>2, <1>11 DEF CloseRecord, TellInv, Mirrored
  <2>2. /\ \A j : j # conn => Of(j)' = Of(j)
        /\ \A a \in Stored : buf'[a] = buf[a]
        /\ Cardinality(Of(conn)') = Cardinality(Of(conn)) + 1
        /\ InOrder(Of(conn)')[Cardinality(Of(conn)) + 1] = rec_next
        /\ \A m \in 1 .. Cardinality(Of(conn)) :
             InOrder(Of(conn)')[m] = InOrder(Of(conn))[m] /\ InOrder(Of(conn))[m] \in Stored
        /\ buf'[rec_next].fields = fs
    BY <1>2, <1>5, <1>11, CloseOf
  <2>3. ~Ended(k) /\ ~Ended(k)'
    BY <1>1 DEF Ended
  <2>4. CASE k # conn
    BY <1>1, <1>2, <1>6, <2>1, <2>2, <2>3, <2>4, FollowsStays DEF FillCount, Of
  <2>5. CASE k = conn
    <3> DEFINE S == Of(conn)
               T == Of(conn)'
               D == Sent(p, conn)
               E == Sent(p', conn)
    <3>1. D \in SUBSET Nat /\ IsFiniteSet(D) /\ Cardinality(D) \in Nat /\ p \in Nat
      BY <1>2, <1>3, SentTypes, OffsetTypes
    <3>2. /\ Cardinality(E) = Cardinality(D) + 1 /\ InOrder(E)[Cardinality(D) + 1] = p
          /\ \A m \in 1 .. Cardinality(D) : InOrder(E)[m] = InOrder(D)[m]
      <4> HIDE DEF D
      <4>1. E = D \cup {p} /\ \A q \in D : q < p
        BY <1>6 DEF D
      <4> HIDE DEF E
      <4> QED BY ONLY <3>1, <4>1, InOrderGrows
    <3>3. /\ Cardinality(S) = Cardinality(D)
          /\ \A m \in 1 .. Cardinality(D) : buf[InOrder(S)[m]].fields = FieldsOf(InOrder(D)[m], conn)
      BY <2>1, <2>3, <2>5, <3>1 DEF Follows
    <3>4. fs = FieldsOf(p, conn)
      BY <1>5, <1>7, <1>b DEF fs, ChunkFields, FieldsOf, ChunkShape
    <3>5. Cardinality(T) = Cardinality(E) + 0
      BY <2>2, <3>1, <3>2, <3>3
    <3>6. ASSUME NEW m \in 1 .. Cardinality(E)
          PROVE  buf'[InOrder(T)[m]].fields = FieldsOf(InOrder(E)[m], conn)
      <4>1. CASE m = Cardinality(D) + 1
        BY <2>2, <3>2, <3>3, <3>4, <4>1
      <4>2. CASE m # Cardinality(D) + 1
        <5>1. m \in 1 .. Cardinality(D)
          BY <3>1, <3>2, <4>2
        <5>2. InOrder(T)[m] = InOrder(S)[m] /\ InOrder(S)[m] \in Stored
          BY <2>2, <3>3, <5>1
        <5>3. buf'[InOrder(T)[m]] = buf[InOrder(S)[m]]
          BY <2>2, <5>2
        <5> QED BY <3>2, <3>3, <5>1, <5>3
      <4> QED BY <4>1, <4>2
    <3>7. Sent(p, conn)' = E /\ \A o : FieldsOf(o, conn)' = FieldsOf(o, conn)
      BY <1>1, TellStays
    <3> QED BY <2>3, <2>5, <3>5, <3>6, <3>7 DEF Follows
  <2> QED BY <2>4, <2>5
<1> QED BY <1>5, <1>8, <1>9, <1>10, <1>11 DEF ChunkRecord, fs

(* The connection that ends has its last record. *)
LEMMA EndTold ==
  ASSUME IInv, FillCount, ReadInv, TellInv, DecoderEnd
  PROVE  Positions' /\ Mirrored' /\ Walked'
<1>a. PICK conn : conn = c
  OBVIOUS
<1> DEFINE fs == EndFields(conn)
           words == 2 + fs[1].span + fs[2].span
<1>1. /\ pc = "decoder_end" /\ c < Connections /\ pc' = pc /\ c' = c + 1
      /\ EndRecord(conn) /\ UNCHANGED << img, p, left, at >>
  BY <1>a DEF DecoderEnd, chunkVars
<1>2. /\ img \in Images /\ pc \in Filling /\ pc \in BufferPhases /\ pc' \in BufferPhases
      /\ conn \in ConnIds /\ c \in Nat /\ ConnIds \subseteq Nat /\ ConnIds' = ConnIds
  BY <1>1, <1>a, ConnHere, CountTypes, LayoutStays DEF ReadInv, Filling, BufferPhases
<1>3. \A k : Sent(p', k) = Sent(p, k)
  BY <1>1
<1>4. \A k \in ConnIds : at[k] = SumOver(img.chunk, Sent(p, k))
  BY <1>2 DEF TellInv, Positions
<1>5. Positions'
  BY <1>1, <1>2, <1>3, <1>4, TellStays DEF Positions
<1>6. Walked'
  <2>1. Under(p)' = Under(p)
    BY <1>1 DEF Under, Offsets
  <2> QED BY <1>1, <1>2, <2>1 DEF TellInv, Walked
<1>7. CASE RecordLost
  BY <1>5, <1>6, <1>7 DEF RecordLost, Mirrored
<1>8. CASE CloseRecord(conn, fs, words)
  <2> HIDE DEF fs
  <2> SUFFICES ASSUME ~rec_full', NEW k \in ConnIds PROVE Follows(k)'
    BY <1>2, <1>5, <1>6 DEF Mirrored
  <2>1. ~rec_full /\ Follows(k)
    BY <1>2, <1>8 DEF CloseRecord, TellInv, Mirrored
  <2>2. /\ \A j : j # conn => Of(j)' = Of(j)
        /\ \A a \in Stored : buf'[a] = buf[a]
        /\ Cardinality(Of(conn)') = Cardinality(Of(conn)) + 1
        /\ InOrder(Of(conn)')[Cardinality(Of(conn)) + 1] = rec_next
        /\ \A m \in 1 .. Cardinality(Of(conn)) :
             InOrder(Of(conn)')[m] = InOrder(Of(conn))[m] /\ InOrder(Of(conn))[m] \in Stored
        /\ buf'[rec_next].fields = fs
    BY <1>2, <1>8, CloseOf
  <2>3. /\ Ended(k) <=> k < c
        /\ Ended(k)' <=> k < c + 1
    BY <1>1 DEF Ended
  <2>4. CASE k # conn
    <3>1. k \in Nat
      BY <1>2
    <3>2. Ended(k)' <=> Ended(k)
      BY <1>2, <1>a, <2>3, <2>4, <3>1
    <3> QED BY <1>1, <1>2, <1>3, <2>1, <2>2, <2>4, <3>2, FollowsStays DEF FillCount, Of
  <2>5. CASE k = conn
    <3> DEFINE S == Of(conn)
               T == Of(conn)'
               D == Sent(p, conn)
    <3>1. Cardinality(D) \in Nat /\ ~Ended(k) /\ Ended(k)'
      BY <1>2, <1>a, <2>3, <2>5, SentTypes
    <3>2. /\ Cardinality(S) = Cardinality(D)
          /\ \A m \in 1 .. Cardinality(D) : buf[InOrder(S)[m]].fields = FieldsOf(InOrder(D)[m], conn)
      BY <2>1, <2>5, <3>1 DEF Follows
    <3>3. fs = LastFields(p, conn)
      BY <1>2, <1>4 DEF fs, EndFields, LastFields, EndShape
    <3>4. Cardinality(T) = Cardinality(D) + 1
      BY <2>2, <3>2
    <3>5. ASSUME NEW m \in 1 .. Cardinality(D)
          PROVE  buf'[InOrder(T)[m]].fields = FieldsOf(InOrder(D)[m], conn)
      <4>1. InOrder(T)[m] = InOrder(S)[m] /\ InOrder(S)[m] \in Stored
        BY <2>2, <3>2
      <4>2. buf'[InOrder(T)[m]] = buf[InOrder(S)[m]]
        BY <2>2, <4>1
      <4> QED BY <3>2, <4>2
    <3>6. buf'[InOrder(T)[Cardinality(D) + 1]].fields = LastFields(p, conn)
      BY <2>2, <3>2, <3>3
    <3>7. /\ Sent(p, conn)' = D /\ LastFields(p, conn)' = LastFields(p, conn)
          /\ \A o : FieldsOf(o, conn)' = FieldsOf(o, conn)
      <4>1. Sent(p, conn)' = Sent(p', conn) /\ LastFields(p, conn)' = LastFields(p', conn)
            /\ \A o : FieldsOf(o, conn)' = FieldsOf(o, conn)
        BY <1>1, TellStays
      <4> QED BY <1>1, <1>3, <4>1
    <3> QED BY <2>5, <3>1, <3>4, <3>5, <3>6, <3>7 DEF Follows
  <2> QED BY <2>4, <2>5
<1> QED BY <1>1, <1>5, <1>6, <1>7, <1>8 DEF EndRecord, fs

(* No chunk is read before the first, and no record is written.            *)
LEMMA SetupTold ==
  ASSUME IInv, ReadInv, Setup
  PROVE  Positions' /\ Mirrored' /\ Walked'
<1>1. /\ img \in Images /\ UNCHANGED << img, buf >> /\ buf = <<>>
      /\ pc' = "done" \/ (/\ pc' = "window" /\ at' = [k \in ConnIds |-> 0]
                          /\ p' = FirstChunk /\ left' = img.chunks)
  BY DEF ReadInv, Setup, decoder_init, Exit, IInv, OutInv
<1>2. CASE pc' = "done"
  BY <1>2 DEF Positions, Mirrored, Walked, Filling, BufferPhases
<1>3. CASE /\ pc' = "window" /\ at' = [k \in ConnIds |-> 0]
           /\ p' = FirstChunk /\ left' = img.chunks
  <2>1. ConnIds' = ConnIds /\ Offsets' = Offsets /\ img.chunks \in Nat
    BY <1>1, LayoutStays, OffsetTypes DEF Offsets
  <2>2. Cardinality(Under(p')) = 0 /\ Under(p') = {}
    <3>1. Cardinality(Under(FirstChunk)) = 0
      BY <1>1, UnderFirst DEF Reached
    <3>2. Under(FirstChunk) = {}
      BY <1>1, <3>1, UnderFinite, FS_EmptySet
    <3> QED BY <1>3, <3>1, <3>2
  <2>3. \A k : Sent(p', k) = {}
    BY <2>2 DEF Sent
  <2>4. \A k : /\ Sent(p, k)' = {} /\ Of(k)' = {} /\ SumOver(img.chunk, Sent(p, k))' = 0
    <3>1. \A k : Sent(p, k)' = Sent(p', k)
                 /\ SumOver(img.chunk, Sent(p, k))' = SumOver(img.chunk, Sent(p', k))
      BY <1>1, TellStays
    <3>2. \A k : Of(k)' = {}
      BY <1>1 DEF Of, Stored
    <3>3. SumOver(img.chunk, {}) = 0
      BY SumEmpty
    <3>4. ASSUME NEW k PROVE Sent(p', k) = {} /\ SumOver(img.chunk, Sent(p', k)) = 0
      BY <2>3, <3>3
    <3> QED BY <3>1, <3>2, <3>4
  <2>5. Positions'
    BY <1>3, <2>1, <2>4 DEF Positions
  <2>6. Mirrored'
    <3>1. \A k : ~Ended(k)'
      BY <1>3 DEF Ended
    <3>2. Cardinality({}) = 0
      BY FS_EmptySet
    <3> QED BY <2>4, <3>1, <3>2 DEF Mirrored, Follows
  <2>7. Walked'
    <3>1. Under(p)' = {}
      BY <1>1, <2>2 DEF Under, Offsets
    <3> QED BY <1>1, <1>3, <2>1, <3>1, FS_EmptySet DEF Walked
  <2> QED BY <2>5, <2>6, <2>7
<1> QED BY <1>1, <1>2, <1>3

(* Later steps leave the buffer as it is. *)
LEMMA LaterTold ==
  ASSUME IInv, FillCount, ReadInv, TellInv, pc \in BufferPhases, UNCHANGED << img, p, left, buf, at, rec_full >>,
         pc' \in BufferPhases => \A k \in ConnIds : Ended(k)' <=> Ended(k),
         pc' \in Filling => pc \in Filling,
         pc' \in BufferPhases \ {"window"} => left = 0
  PROVE  Positions' /\ Mirrored' /\ Walked'
<1>1. /\ img \in Images /\ ConnIds' = ConnIds /\ \A k : Of(k)' = Of(k)
  BY LayoutStays DEF ReadInv, Of, Stored
<1>2. \A k : Sent(p', k) = Sent(p, k)
  OBVIOUS
<1>3. Positions'
  BY <1>1, <1>2, TellStays DEF TellInv, Positions
<1>4. Walked'
  <2>1. Under(p)' = Under(p)
    BY DEF Under, Offsets
  <2> QED BY <2>1 DEF TellInv, Walked
<1>5. Mirrored'
  <2> SUFFICES ASSUME pc' \in BufferPhases, ~rec_full, NEW k \in ConnIds PROVE Follows(k)'
    BY <1>1 DEF Mirrored
  <2>1. Follows(k)
    BY DEF TellInv, Mirrored
  <2> QED BY <1>1, <1>2, <2>1, FollowsStays DEF FillCount
<1> QED BY <1>3, <1>4, <1>5

LEMMA LabelledStep == IInv /\ CountInv /\ TellInv /\ Next => Labelled'
<1> SUFFICES ASSUME IInv, CountInv, TellInv, Next PROVE Labelled'
  OBVIOUS
<1>1. img' = img /\ Labelled
  BY ImageStays DEF TellInv
<1>2. CASE buf' = buf
  BY <1>1, <1>2 DEF Labelled, Stored, Protocol
<1>3. ASSUME NEW conn, NEW fields, NEW words, CloseRecord(conn, fields, words)
      PROVE  Labelled'
  <2> DEFINE new == [words |-> words, conn |-> conn, fields |-> fields, protocol |-> Protocol(conn)]
  <2>1. buf' = [a \in Stored \cup {rec_next} |-> IF a = rec_next THEN new ELSE buf[a]]
    BY <1>3 DEF CloseRecord, Stored
  <2>2. new.protocol = Protocol(new.conn)
    OBVIOUS
  <2> HIDE DEF new
  <2>3. \A a \in Stored \cup {rec_next} : buf'[a].protocol = Protocol(buf'[a].conn)
    BY <1>1, <2>1, <2>2 DEF Labelled
  <2>4. Stored' = Stored \cup {rec_next}
    BY <2>1 DEF Stored
  <2> QED BY <1>1, <2>3, <2>4 DEF Labelled, Protocol
<1>4. buf' = buf \/ \E conn, fields, words : CloseRecord(conn, fields, words)
  <2>1. CASE DecoderChunk
    BY <2>1 DEF DecoderChunk, ChunkRecord, RecordLost
  <2>2. CASE DecoderEnd
    BY <2>2 DEF DecoderEnd, EndRecord, RecordLost
  <2>3. DecoderChunk \/ DecoderEnd \/ buf' = buf
    BY DEF Next, CheckHeader, CheckChunk, CheckPayload, Setup, InputEnds, WindowCloses,
         WalkRecord, SortRoom, CountRecord, CountEnds, StartOf, StartsEnd, PlaceRecord,
         PutHeader, PutRecord, MisreadRecord, PutEnd, Done, vars, bufVars
  <2> QED BY <2>1, <2>2, <2>3
<1> QED BY <1>2, <1>3, <1>4

LEMMA TellStep == IInv /\ CountInv /\ ReadInv /\ TellInv /\ Next => TellInv'
<1> SUFFICES ASSUME IInv, CountInv, ReadInv, TellInv, Next PROVE TellInv'
  OBVIOUS
<1>1. FillCount /\ Labelled'
  BY LabelledStep DEF CountInv
<1>2. CASE DecoderChunk
  BY <1>1, <1>2, ChunkTold DEF TellInv
<1>3. CASE DecoderEnd
  BY <1>1, <1>3, EndTold DEF TellInv
<1>4. CASE Setup
  BY <1>1, <1>4, SetupTold DEF TellInv
<1>5. CASE InputEnds
  <2>1. /\ pc = "window" /\ left = 0 /\ pc' = "decoder_end" /\ c' = 0
        /\ UNCHANGED << img, p, left, buf, at, rec_full >>
    BY <1>5 DEF InputEnds, chunkVars, bufVars
  <2>2. \A k \in ConnIds : ~Ended(k) /\ ~Ended(k)'
    <3>1. \A k \in ConnIds : ~(k < 0)
      BY CountTypes DEF ConnIds
    <3> QED BY <2>1, <3>1 DEF Ended
  <2> QED BY <1>1, <2>1, <2>2, LaterTold DEF TellInv, BufferPhases, Filling
<1>6. CASE WindowCloses
  <2>1. /\ pc = "decoder_end" /\ c = Connections /\ pc' \in {"walk", "done"}
        /\ UNCHANGED << img, p, left, buf, at, rec_full >>
    BY <1>6 DEF WindowCloses, chunkVars, bufVars, Exit
  <2>2. \A k \in ConnIds : Ended(k) /\ (pc' = "walk" => Ended(k)')
    <3>1. \A k \in ConnIds : k < Connections
      BY CountTypes DEF ConnIds
    <3> QED BY <2>1, <3>1 DEF Ended
  <2>3. left = 0
    BY <2>1 DEF TellInv, Walked, BufferPhases
  <2> QED BY <1>1, <2>1, <2>2, <2>3, LaterTold DEF TellInv, BufferPhases, Filling
<1>7. CASE /\ pc \in BufferPhases \ Filling /\ pc' \notin Filling
           /\ UNCHANGED << img, p, left, buf, at, rec_full >>
  <2>1. \A k \in ConnIds : Ended(k) /\ Ended(k)'
    BY <1>7 DEF Ended, Filling
  <2>2. left = 0
    BY <1>7 DEF TellInv, Walked, Filling
  <2> QED BY <1>1, <1>7, <2>1, <2>2, LaterTold DEF TellInv, BufferPhases, Filling
<1>8. CASE pc' \notin BufferPhases
  BY <1>1, <1>8 DEF TellInv, Positions, Mirrored, Walked, Filling, BufferPhases
<1>9. \/ DecoderChunk \/ DecoderEnd \/ Setup \/ InputEnds \/ WindowCloses
      \/ /\ pc \in BufferPhases \ Filling /\ pc' \notin Filling
         /\ UNCHANGED << img, p, left, buf, at, rec_full >>
      \/ pc' \notin BufferPhases
  BY DEF Next, CheckHeader, CheckChunk, CheckPayload, WalkRecord, SortRoom, CountRecord,
       CountEnds, StartOf, StartsEnd, PlaceRecord, PutHeader, PutRecord, MisreadRecord,
       PutEnd, Done, Exit, vars, chunkVars, bufVars, BufferPhases, Filling
<1> QED BY <1>2, <1>3, <1>4, <1>5, <1>6, <1>7, <1>8, <1>9

LEMMA TellStutter == IInv /\ CountInv /\ TellInv /\ UNCHANGED vars => TellInv'
<1> SUFFICES ASSUME IInv, CountInv, TellInv, UNCHANGED vars PROVE TellInv'
  OBVIOUS
<1>1. UNCHANGED << img, pc, p, left, c, at, buf, rec_full >>
  BY DEF vars, chunkVars, bufVars, sortVars
<1>2. /\ Stored' = Stored /\ ConnIds' = ConnIds /\ Under(p)' = Under(p)
      /\ \A k : Of(k)' = Of(k) /\ Sent(p, k)' = Sent(p, k) /\ (Ended(k)' <=> Ended(k))
  BY <1>1, LayoutStays DEF Stored, Of, Sent, Under, Offsets, Ended
<1>3. \A k : LastFields(p, k)' = LastFields(p, k) /\ \A o : FieldsOf(o, k)' = FieldsOf(o, k)
  <2>1. \A k : LastFields(p', k) = LastFields(p, k)
    BY <1>1
  <2> QED BY <1>1, <2>1, TellStays
<1>4. Positions' /\ Labelled' /\ Walked'
  BY <1>1, <1>2 DEF TellInv, Positions, Labelled, Walked, Protocol
<1>5. Mirrored'
  BY <1>1, <1>2, <1>3 DEF TellInv, Mirrored, Follows
<1> QED BY <1>4, <1>5 DEF TellInv

-----------------------------------------------------------------------------
(* What expect.py says of the file, with its sums named. *)

Asked == ToSet(Claimed)
AskedLine(o) ==
  LET h == img.chunk[o]
      before == {q \in Asked : q < o /\ img.chunk[q].conn = h.conn}
  IN  [conn |-> h.conn, protocol |-> Protocol(h.conn),
       fields |-> << [id |-> F_AT,    val |-> SumOver(img.chunk, before), digits |-> 0],
                     [id |-> F_BYTES, val |-> o + 4, digits |-> 2 * h.n],
                     [id |-> F_LEN,   val |-> h.n, digits |-> 0] >>]
AskedEnd(k) ==
  LET all == {q \in Asked : img.chunk[q].conn = k} IN
  [conn |-> k, protocol |-> Protocol(k),
   fields |-> << [id |-> F_AT,  val |-> SumOver(img.chunk, all), digits |-> 0],
                 [id |-> F_LEN, val |-> 0, digits |-> 0] >>]
AskedOf(k) ==
  LET mine == InOrder({o \in Asked : img.chunk[o].conn = k})
  IN  Append([m \in 1 .. Len(mine) |-> AskedLine(mine[m])], AskedEnd(k))
AskedText == FlattenSeq([k \in 1 .. Connections |-> AskedOf(k - 1)])

LEMMA StubIs == StubRecords = AskedText
<1>1. \A S : PayloadOf(S) = SumOver(img.chunk, S)
  BY DEF PayloadOf, SumOver
<1>2. \A o : ChunkLine(o) = AskedLine(o)
  BY <1>1 DEF ChunkLine, AskedLine, Asked
<1>3. \A k : EndLine(k) = AskedEnd(k)
  BY <1>1 DEF EndLine, AskedEnd, Asked
<1> QED BY <1>2, <1>3 DEF StubRecords, AskedText, AskedOf, Asked

LEMMA AskedStays == ASSUME img' = img PROVE AskedText' = AskedText /\ (Narrow' <=> Narrow)
<1>1. Asked' = Asked /\ Connections' = Connections
  BY DEF Asked, Claimed, FileOrder, Connections
<1>2. \A o : AskedLine(o)' = AskedLine(o)
  BY <1>1 DEF AskedLine, Protocol
<1>3. \A k : AskedEnd(k)' = AskedEnd(k)
  BY <1>1 DEF AskedEnd, Protocol
<1>4. \A k : AskedOf(k)' = AskedOf(k)
  BY <1>1, <1>2, <1>3 DEF AskedOf
<1> QED BY <1>1, <1>4 DEF AskedText, Narrow

(* A record's line, when its digit count can be stated. *)
LEMMA ChunkText ==
  ASSUME NEW b, NEW n \in Nat, NEW o, NEW q, 2 * n < Half, b.fields = ChunkShape(n, o, q)
  PROVE  /\ Legible(b)
         /\ Line(b) = [conn |-> b.conn, protocol |-> b.protocol,
                       fields |-> << [id |-> F_AT, val |-> q, digits |-> 0],
                                     [id |-> F_BYTES, val |-> o, digits |-> 2 * n],
                                     [id |-> F_LEN, val |-> n, digits |-> 0] >>]
<1>1. (2 * n) % Half = 2 * n
  BY DEF Half
<1>2. Legible(b)
  <2>1. StepsExactly(rec_u32(F_LEN, n)) /\ StepsExactly(rec_u32(F_AT, q))
    BY DEF StepsExactly, field_words, rec_u32, IsHex, IsU64, F_LEN, F_AT, F_BYTES, F_DEVICE,
       F_TEXT, F_ODOMETER
  <2>2. StepsExactly(rec_hex(F_BYTES, o, 2 * n))
    BY <1>1 DEF StepsExactly, field_words, rec_hex, IsHex
  <2>3. \A k \in 1 .. Len(ChunkShape(n, o, q)) : StepsExactly(ChunkShape(n, o, q)[k])
    BY <2>1, <2>2 DEF ChunkShape
  <2> QED BY <2>3 DEF Legible
<1> DEFINE fs == SortById(b.fields)
           x == [id |-> F_AT, val |-> q, digits |-> 0]
           y == [id |-> F_BYTES, val |-> o, digits |-> 2 * n]
           z == [id |-> F_LEN, val |-> n, digits |-> 0]
<1>3. fs = << rec_u32(F_AT, q), rec_hex(F_BYTES, o, 2 * n), rec_u32(F_LEN, n) >>
  BY ChunkStream
<1>4. Shown(rec_u32(F_AT, q)) = x /\ Shown(rec_hex(F_BYTES, o, 2 * n)) = y /\ Shown(rec_u32(F_LEN, n)) = z
  BY <1>1 DEF Shown, rec_u32, rec_hex
<1>5. [k \in 1 .. Len(fs) |-> Shown(fs[k])] = << x, y, z >>
  <2> HIDE DEF fs, x, y, z
  <2>1. fs[1] = rec_u32(F_AT, q) /\ fs[2] = rec_hex(F_BYTES, o, 2 * n) /\ fs[3] = rec_u32(F_LEN, n) /\ Len(fs) = 3
    BY <1>3
  <2>2. \A k \in 1 .. 3 : Shown(fs[k]) = << x, y, z >>[k]
    BY <1>4, <2>1
  <2> QED BY <2>1, <2>2
<1> QED BY <1>2, <1>5 DEF Line

LEMMA EndText ==
  ASSUME NEW b, NEW q, b.fields = EndShape(q)
  PROVE  /\ Legible(b)
         /\ Line(b) = [conn |-> b.conn, protocol |-> b.protocol,
                       fields |-> << [id |-> F_AT, val |-> q, digits |-> 0],
                                     [id |-> F_LEN, val |-> 0, digits |-> 0] >>]
<1>1. Legible(b)
  <2>1. StepsExactly(rec_u32(F_LEN, 0)) /\ StepsExactly(rec_u32(F_AT, q))
    BY DEF StepsExactly, field_words, rec_u32, IsHex, IsU64, F_LEN, F_AT, F_BYTES, F_DEVICE,
       F_TEXT, F_ODOMETER
  <2>2. \A k \in 1 .. Len(EndShape(q)) : StepsExactly(EndShape(q)[k])
    BY <2>1 DEF EndShape
  <2> QED BY <2>2 DEF Legible
<1> DEFINE fs == SortById(b.fields)
           x == [id |-> F_AT, val |-> q, digits |-> 0]
           z == [id |-> F_LEN, val |-> 0, digits |-> 0]
<1>2. fs = << rec_u32(F_AT, q), rec_u32(F_LEN, 0) >>
  BY EndStream
<1>3. Shown(rec_u32(F_AT, q)) = x /\ Shown(rec_u32(F_LEN, 0)) = z
  BY DEF Shown, rec_u32
<1>4. [k \in 1 .. Len(fs) |-> Shown(fs[k])] = << x, z >>
  <2> HIDE DEF fs, x, z
  <2>1. fs[1] = rec_u32(F_AT, q) /\ fs[2] = rec_u32(F_LEN, 0) /\ Len(fs) = 2
    BY <1>2
  <2>2. \A k \in 1 .. 2 : Shown(fs[k]) = << x, z >>[k]
    BY <1>3, <2>1
  <2> QED BY <2>1, <2>2
<1> QED BY <1>1, <1>4 DEF Line

(* The chunks the header claims are the ones the window walked. *)
LEMMA AskedIs ==
  ASSUME IInv, ReadInv, TellInv, pc \in BufferPhases \ {"window"}
  PROVE  Asked = Under(p)
<1>1. img \in Images /\ Cardinality(Under(p)) = img.chunks
  <2>1. Cardinality(Under(p)) = img.chunks - left /\ left = 0 /\ img.chunks \in Nat
    BY CountTypes DEF TellInv, Walked
  <2> QED BY <2>1 DEF ReadInv
<1> DEFINE S == Offsets
           N == Cardinality(Offsets)
           n == img.chunks
           rank(o) == Cardinality({q \in S : q < o})
<1>2. S \in SUBSET Nat /\ IsFiniteSet(S) /\ Under(p) \subseteq S
  BY <1>1, OffsetTypes, UnderFinite
<1>3. /\ N \in Nat /\ Len(FileOrder) = N /\ FileOrder \in [1 .. N -> S]
      /\ \A m \in 1 .. N : rank(FileOrder[m]) = m - 1
      /\ \A o \in S : rank(o) + 1 \in 1 .. N /\ FileOrder[rank(o) + 1] = o
  BY <1>2, InOrderRanks DEF FileOrder, Offsets
<1>4. n \in Nat /\ n <= N
  BY <1>1, <1>2, CountTypes, FS_Subset
<1>5. p \in Nat
  BY DEF IInv, TypeOK, WalkTypes
<1>6. \A o \in S : o < p <=> rank(o) < n
  <2> SUFFICES ASSUME NEW o \in S PROVE o < p <=> rank(o) < n
    OBVIOUS
  <2> DEFINE R == {q \in S : q < o}
  <2>1. R = Under(o) /\ IsFiniteSet(R) /\ Cardinality(R) \in Nat /\ o \in Nat
    BY <1>1, <1>2, UnderFinite DEF Under
  <2>2. ASSUME o < p PROVE rank(o) < n
    <3>1. \A q \in S : q < o => q < p
      BY ONLY <1>2, <1>5, <2>1, <2>2
    <3>2. ~(o < o)
      BY <2>1
    <3>3. R \subseteq Under(p) /\ o \in Under(p) /\ o \notin R
      BY <2>2, <3>1, <3>2 DEF Under
    <3>4. R \cup {o} \subseteq Under(p) /\ Cardinality(R \cup {o}) = Cardinality(R) + 1
      BY <2>1, <3>3, FS_AddElement
    <3>5. Cardinality(R \cup {o}) <= Cardinality(Under(p))
      BY <1>1, <3>4, UnderFinite, FS_Subset
    <3> QED BY <1>1, <1>4, <2>1, <3>4, <3>5
  <2>3. ASSUME ~(o < p) PROVE ~(rank(o) < n)
    <3>1. \A q \in S : q < p => q < o
      BY ONLY <1>2, <1>5, <2>1, <2>3
    <3>2. Under(p) \subseteq R
      BY <3>1 DEF Under
    <3>3. Cardinality(Under(p)) <= Cardinality(R)
      BY <2>1, <3>2, FS_Subset
    <3> QED BY <1>1, <1>4, <2>1, <3>3
  <2> QED BY <2>2, <2>3
<1> HIDE DEF rank
<1>7. Asked = {FileOrder[m] : m \in 1 .. n}
  <2>1. FileOrder \in Seq(S) /\ Len(FileOrder) = N
    BY ONLY <1>3, IsSeq
  <2> DEFINE t == SubSeq(FileOrder, 1, n)
  <2>2. Len(t) = n /\ DOMAIN t = 1 .. n /\ \A m \in 1 .. n : t[m] = FileOrder[m]
    <3> HIDE DEF S, N, n
    <3>1. /\ SubSeq(FileOrder, 1, n) \in Seq(S) /\ Len(SubSeq(FileOrder, 1, n)) = n
          /\ \A m \in 1 .. n : SubSeq(FileOrder, 1, n)[m] = FileOrder[m]
      BY <1>3, <1>4, <2>1
    <3> QED BY <3>1
  <2> QED BY <2>2 DEF Asked, Claimed, ToSet
<1>8. \A o \in S : rank(o) < n <=> \E m \in 1 .. n : FileOrder[m] = o
  <2> SUFFICES ASSUME NEW o \in S PROVE rank(o) < n <=> \E m \in 1 .. n : FileOrder[m] = o
    OBVIOUS
  <2>1. rank(o) + 1 \in 1 .. N /\ FileOrder[rank(o) + 1] = o /\ rank(o) \in Nat
    <3>1. rank(o) + 1 \in 1 .. N /\ FileOrder[rank(o) + 1] = o
      BY <1>3
    <3>2. rank(o) \in Nat
      BY <1>1, <1>2, UnderFinite DEF rank, Under
    <3> QED BY <3>1, <3>2
  <2>2. ASSUME rank(o) < n PROVE \E m \in 1 .. n : FileOrder[m] = o
    <3>1. rank(o) + 1 \in 1 .. n
      BY <1>4, <2>1, <2>2
    <3> QED BY <2>1, <3>1
  <2>3. ASSUME NEW m \in 1 .. n, FileOrder[m] = o PROVE rank(o) < n
    <3>1. m \in 1 .. N
      BY <1>3, <1>4
    <3>2. rank(o) = m - 1
      BY <1>3, <2>3, <3>1
    <3> QED BY <1>4, <3>2
  <2> QED BY <2>2, <2>3
<1>9. \A m \in 1 .. n : FileOrder[m] \in S
  BY <1>3, <1>4
<1> QED BY <1>6, <1>7, <1>8, <1>9 DEF Under

(* The m-th record of a connection is the m-th line asked of it. *)
LEMMA RecordText ==
  ASSUME IInv, CountInv, ReadInv, TellInv, Narrow, pc = "print",
         NEW k \in ConnIds, NEW a \in Of(k), NEW m, m = Cardinality({b \in Of(k) : b < a}) + 1
  PROVE  /\ Cardinality(Sent(p, k)) \in Nat /\ Cardinality(Of(k)) = Cardinality(Sent(p, k)) + 1
         /\ m \in 1 .. Cardinality(Sent(p, k)) + 1
         /\ Legible(buf[a])
         /\ m <= Cardinality(Sent(p, k)) => Line(buf[a]) = AskedLine(InOrder(Sent(p, k))[m])
         /\ m > Cardinality(Sent(p, k)) => Line(buf[a]) = AskedEnd(k)
<1> DEFINE S == Of(k)
           D == Sent(p, k)
           n == Cardinality(Sent(p, k))
           b == buf[a]
<1>1. img \in Images /\ pc \in BufferPhases \ {"window"} /\ ~rec_full /\ Ended(k)
  BY DEF ReadInv, BufferPhases, CountInv, WalkCount, Ended
<1>2. /\ Cardinality(S) = n + 1
      /\ \A j \in 1 .. n : buf[InOrder(S)[j]].fields = FieldsOf(InOrder(D)[j], k)
      /\ buf[InOrder(S)[n + 1]].fields = LastFields(p, k)
  BY <1>1 DEF TellInv, Mirrored, Follows
<1>3. /\ D \subseteq Offsets /\ D \in SUBSET Nat /\ IsFiniteSet(D) /\ n \in Nat
  BY <1>1, SentTypes
<1>4. S \in SUBSET Nat /\ IsFiniteSet(S) /\ a \in Stored
  BY OfTypes DEF CountInv, FillCount
<1>5. m \in 1 .. n + 1 /\ InOrder(S)[m] = a
  <2>1. m \in 1 .. Cardinality(S) /\ InOrder(S)[m] = a
    BY <1>4, InOrderRanks
  <2> QED BY <1>2, <2>1
<1>6. b.conn = k /\ b.protocol = Protocol(k)
  <2>1. b.conn = k
    BY DEF Of
  <2>2. b.protocol = Protocol(b.conn)
    BY <1>4 DEF TellInv, Labelled
  <2> QED BY <2>1, <2>2
<1>7. Asked = Under(p) /\ p \in Nat
  BY <1>1, AskedIs DEF IInv, TypeOK, WalkTypes
<1>8. ASSUME m <= n PROVE Legible(b) /\ Line(b) = AskedLine(InOrder(D)[m])
  <2>1. PICK o : o = InOrder(D)[m]
    OBVIOUS
  <2>2. m \in 1 .. n
    BY <1>3, <1>5, <1>8
  <2>3. o \in D /\ b.fields = FieldsOf(o, k)
    <3>1. InOrder(D) \in [1 .. n -> D]
      BY <1>3, InOrderRanks
    <3> QED BY <1>2, <1>5, <2>1, <2>2, <3>1
  <2>4. PICK l : l = img.chunk[o].n
    OBVIOUS
  <2>5. l \in Nat /\ 2 * l < Half
    <3>1. o \in Offsets
      BY <1>3, <2>3
    <3> QED BY <1>1, <2>4, <3>1, OffsetTypes DEF Narrow, Offsets
  <2>6. img.chunk[o].conn = k
    BY <2>3 DEF Sent
  <2>7. PICK q : q = SumOver(img.chunk, Sent(o, k))
    OBVIOUS
  <2>8. b.fields = ChunkShape(l, o + 4, q)
    BY <2>3, <2>4, <2>7 DEF FieldsOf
  <2>9. {x \in Asked : x < o /\ img.chunk[x].conn = k} = Sent(o, k)
    <3>1. o < p /\ o \in Nat /\ \A x \in Offsets : x \in Nat
      BY <1>1, <1>3, <2>3, OffsetTypes DEF Sent, Under
    <3>2. \A x \in Offsets : x < o => x < p
      BY ONLY <1>7, <3>1
    <3> QED BY <1>7, <3>2 DEF Sent, Under
  <2>10. AskedLine(o) = [conn |-> k, protocol |-> Protocol(k),
                         fields |-> << [id |-> F_AT, val |-> q, digits |-> 0],
                                       [id |-> F_BYTES, val |-> o + 4, digits |-> 2 * l],
                                       [id |-> F_LEN, val |-> l, digits |-> 0] >>]
    BY <2>4, <2>6, <2>7, <2>9 DEF AskedLine
  <2> HIDE DEF b
  <2>11. /\ Legible(b)
         /\ Line(b) = [conn |-> b.conn, protocol |-> b.protocol,
                       fields |-> << [id |-> F_AT, val |-> q, digits |-> 0],
                                     [id |-> F_BYTES, val |-> o + 4, digits |-> 2 * l],
                                     [id |-> F_LEN, val |-> l, digits |-> 0] >>]
    BY <2>5, <2>8, ChunkText
  <2> QED BY <1>6, <2>1, <2>10, <2>11
<1>9. ASSUME m > n PROVE Legible(b) /\ Line(b) = AskedEnd(k)
  <2>1. m = n + 1
    BY <1>3, <1>5, <1>9
  <2>2. PICK q : q = SumOver(img.chunk, Sent(p, k))
    OBVIOUS
  <2>3. b.fields = EndShape(q)
    BY <1>2, <1>5, <2>1, <2>2 DEF LastFields
  <2>4. {x \in Asked : img.chunk[x].conn = k} = Sent(p, k)
    BY <1>7 DEF Sent
  <2>5. AskedEnd(k) = [conn |-> k, protocol |-> Protocol(k),
                       fields |-> << [id |-> F_AT, val |-> q, digits |-> 0],
                                     [id |-> F_LEN, val |-> 0, digits |-> 0] >>]
    BY <2>2, <2>4 DEF AskedEnd
  <2> HIDE DEF b
  <2> QED BY <1>6, <2>3, <2>5, EndText
<1>10. m <= n \/ m > n
  BY <1>3, <1>5
<1> QED BY <1>2, <1>3, <1>5, <1>8, <1>9, <1>10

Texts == {Line(buf[a]) : a \in Stored}

LEMMA AskedPerConn ==
  ASSUME IInv, CountInv, ReadInv, TellInv, Narrow, pc = "print", NEW k \in ConnIds
  PROVE  /\ AskedOf(k) \in Seq(Texts) /\ Len(AskedOf(k)) = Cardinality(Of(k))
         /\ \A a \in Of(k) : AskedOf(k)[Cardinality({b \in Of(k) : b < a}) + 1] = Line(buf[a])
<1> DEFINE S == Of(k)
           D == Sent(p, k)
           n == Cardinality(Sent(p, k))
           rank(a) == Cardinality({b \in S : b < a}) + 1
           ls == [m \in 1 .. n |-> AskedLine(InOrder(D)[m])]
<1>1. img \in Images /\ pc \in BufferPhases \ {"window"} /\ ~rec_full /\ Ended(k)
  BY DEF ReadInv, BufferPhases, CountInv, WalkCount, Ended
<1>2. D \in SUBSET Nat /\ IsFiniteSet(D) /\ n \in Nat /\ Len(InOrder(D)) = n
  BY <1>1, SentTypes, InOrderRanks
<1>3. S \in SUBSET Nat /\ IsFiniteSet(S) /\ S \subseteq Stored /\ Cardinality(S) = n + 1
  BY <1>1, OfTypes DEF CountInv, FillCount, TellInv, Mirrored, Follows
<1>4. {o \in Asked : img.chunk[o].conn = k} = D
  BY <1>1, AskedIs DEF Sent
<1>5. AskedOf(k) = Append(ls, AskedEnd(k))
  BY <1>2, <1>4 DEF AskedOf
<1>6. \A a \in S : /\ rank(a) \in 1 .. n + 1
                   /\ rank(a) <= n => Line(buf[a]) = AskedLine(InOrder(D)[rank(a)])
                   /\ rank(a) > n => Line(buf[a]) = AskedEnd(k)
  BY RecordText
<1>7. \A m \in 1 .. n + 1 : InOrder(S)[m] \in S /\ rank(InOrder(S)[m]) = m
  <2>1. /\ InOrder(S) \in [1 .. Cardinality(S) -> S]
        /\ \A m \in 1 .. Cardinality(S) : Cardinality({b \in S : b < InOrder(S)[m]}) = m - 1
    BY <1>3, InOrderRanks
  <2> QED BY <1>3, <2>1
<1> HIDE DEF rank
<1>8. ls \in [1 .. n -> Texts] /\ AskedEnd(k) \in Texts
  <2>1. ASSUME NEW m \in 1 .. n PROVE AskedLine(InOrder(D)[m]) \in Texts
    <3>1. PICK a \in S : rank(a) = m
      BY <1>2, <1>7
    <3>2. Line(buf[a]) = AskedLine(InOrder(D)[m])
      BY <1>6, <3>1
    <3> QED BY <1>3, <3>2 DEF Texts
  <2>2. AskedEnd(k) \in Texts
    <3>1. PICK a \in S : rank(a) = n + 1
      BY <1>2, <1>7
    <3>2. Line(buf[a]) = AskedEnd(k)
      BY <1>2, <1>6, <3>1
    <3> QED BY <1>3, <3>2 DEF Texts
  <2> QED BY <2>1, <2>2
<1> DEFINE e == AskedEnd(k)
<1>9. \A m \in 1 .. n : ls[m] = AskedLine(InOrder(D)[m])
  OBVIOUS
<1> HIDE DEF ls, e
<1>10. ls \in Seq(Texts) /\ Len(ls) = n
  BY ONLY <1>2, <1>8, IsSeq
<1>11. /\ Append(ls, e) \in Seq(Texts) /\ Len(Append(ls, e)) = n + 1
       /\ \A m \in 1 .. n : Append(ls, e)[m] = ls[m]
       /\ Append(ls, e)[n + 1] = e
  <2>1. e \in Texts
    BY <1>8 DEF e
  <2> HIDE DEF n
  <2> QED BY ONLY <1>2, <1>10, <2>1, AppendProperties
<1>12. ASSUME NEW a \in S PROVE AskedOf(k)[rank(a)] = Line(buf[a])
  <2>1. CASE rank(a) <= n
    <3>1. rank(a) \in 1 .. n
      BY <1>2, <1>6, <2>1
    <3> QED BY <1>5, <1>6, <1>9, <1>11, <2>1, <3>1 DEF e
  <2>2. CASE ~(rank(a) <= n)
    <3>1. rank(a) = n + 1 /\ rank(a) > n
      BY <1>2, <1>6, <2>2
    <3> QED BY <1>5, <1>6, <1>11, <3>1 DEF e
  <2> QED BY <2>1, <2>2
<1> QED BY <1>3, <1>5, <1>11, <1>12 DEF e, rank

LEMMA PrintedAsAsked ==
  ASSUME IInv, CountInv, SortInv, SimInv, ReadInv, TellInv, Narrow, pc = "print", i = total
  PROVE  out.lines = AskedText
<1> DEFINE E == [a \in Stored |-> Line(buf[a])]
           N == Connections
           ss == [k \in 1 .. N |-> AskedOf(k - 1)]
<1>1. N \in Nat \ {0} /\ IsFiniteSet(Stored) /\ pc \in Sorts /\ total \in Nat
  BY MaxConnectionsAssumption, CountTypes DEF SimInv, Within, CountInv, FillCount, Sorts
<1>2. E \in [Stored -> Texts]
  BY DEF Texts
<1>3. PerConn(ss, Texts, E, N)
  <2>1. ASSUME NEW k \in 0 .. N - 1
        PROVE  /\ ss[k + 1] \in Seq(Texts) /\ Len(ss[k + 1]) = Cardinality(Of(k))
               /\ \A a \in Of(k) : ss[k + 1][Cardinality({b \in Of(k) : b < a}) + 1] = E[a]
    <3>1. k + 1 \in 1 .. N /\ (k + 1) - 1 = k /\ k \in ConnIds
      BY <1>1 DEF ConnIds
    <3>2. ss[k + 1] = AskedOf(k)
      BY <3>1
    <3>3. \A a \in Of(k) : E[a] = Line(buf[a])
      BY DEF Of
    <3> QED BY <3>1, <3>2, <3>3, AskedPerConn
  <2>2. Len(ss) = N
    BY <1>1
  <2> HIDE DEF ss, E, N
  <2> QED BY <2>1, <2>2 DEF PerConn
<1>4. AskedText = Abstract!FlattenSeq(ss)
  BY DEF AskedText, FlattenSeq, Abstract!FlattenSeq
<1>5. Below(N) = Stored
  <2>1. \A a \in Stored : buf[a].conn < N
    <3> SUFFICES ASSUME NEW a \in Stored PROVE buf[a].conn < N
      OBVIOUS
    <3>1. buf[a].conn \in 0 .. N - 1
      BY <1>1, StoredTypes DEF ConnIds
    <3> QED BY <1>1, <3>1
  <2> QED BY <2>1 DEF Below
<1> HIDE DEF ss, E, N
<1>6. /\ AskedText \in Seq(Texts) /\ Len(AskedText) = Cardinality(Stored)
      /\ \A a \in Stored : AskedText[Place(a) + 1] = E[a]
  <2>1. /\ Abstract!FlattenSeq(ss) \in Seq(Texts)
        /\ Len(Abstract!FlattenSeq(ss)) = Cardinality(Below(N))
        /\ \A a \in Below(N) : Abstract!FlattenSeq(ss)[Place(a) + 1] = E[a]
    BY <1>1, <1>2, <1>3, FlattenPlaces
  <2> QED BY <1>4, <1>5, <2>1
<1>7. /\ total = Cardinality(Stored)
      /\ \A j \in 0 .. total - 1 : base + index[j] \in Stored /\ Place(base + index[j]) = j
  BY Indexed
<1>8. PICK X : out.lines \in Seq(X) /\ Len(out.lines) = total
  BY DEF CountInv, LineCount
<1>9. ASSUME NEW m \in 1 .. total PROVE out.lines[m] = AskedText[m]
  <2>1. PICK j \in 0 .. total - 1 : j + 1 = m
    <3>1. m - 1 \in 0 .. total - 1 /\ (m - 1) + 1 = m
      BY <1>1
    <3> QED BY <3>1
  <2>2. PICK a \in Stored : a = base + index[j] /\ Place(a) = j
    BY <1>7
  <2>3. AskedText[m] = Line(buf[a])
    BY <1>6, <2>1, <2>2 DEF E
  <2>4. Legible(buf[a])
    <3>1. PICK k \in ConnIds : k = buf[a].conn
      BY <1>1, StoredTypes
    <3>2. a \in Of(k)
      BY <3>1 DEF Of
    <3> QED BY <3>2, RecordText
  <2>5. out.lines[j + 1] = LineAt(j)
    BY DEF SimInv, Printed
  <2> QED BY <2>1, <2>2, <2>3, <2>4, <2>5 DEF LineAt
<1> DEFINE s == out.lines
           t == AskedText
<1>10. s \in Seq(X \cup Texts) /\ t \in Seq(X \cup Texts) /\ Len(s) = total /\ Len(t) = total
       /\ \A m \in 1 .. total : s[m] = t[m]
  BY <1>6, <1>7, <1>8, <1>9, SeqMonotonic
<1> HIDE DEF s, t
<1>11. s = t
  BY ONLY <1>1, <1>10, SeqEqual
<1> QED BY <1>11 DEF s, t

(* What is printed when the end line is out is what the file asks for.     *)
Kept == out.end # Unset /\ Narrow => out.lines = AskedText

LEMMA KeptStep ==
  IInv /\ CountInv /\ SortInv /\ SimInv /\ ReadInv /\ TellInv /\ Kept /\ Next => Kept'
<1> SUFFICES ASSUME IInv, CountInv, SortInv, SimInv, ReadInv, TellInv, Kept, Next PROVE Kept'
  OBVIOUS
<1>1. AskedText' = AskedText /\ (Narrow' <=> Narrow) /\ DOMAIN out = {"records", "lines", "end"}
  BY ImageStays, AskedStays DEF IInv, TypeOK, OutTypes
<1>2. CASE PutEnd
  <2>1. pc = "print" /\ i = total /\ out' = [out EXCEPT !.end = total]
    BY <1>2 DEF PutEnd
  <2>2. out'.lines = out.lines
    BY <1>1, <2>1
  <2> QED BY <1>1, <2>1, <2>2, PrintedAsAsked DEF Kept
<1>3. CASE out' = out
  BY <1>1, <1>3 DEF Kept
<1>4. CASE pc = "print" /\ out'.end = out.end
  BY <1>4 DEF CountInv, LineCount, Kept
<1>5. CASE PutHeader
  BY <1>1, <1>5 DEF PutHeader, CountInv, LineCount, Kept
<1>6. PutEnd \/ out' = out \/ (pc = "print" /\ out'.end = out.end) \/ PutHeader
  <2>1. PutRecord \/ MisreadRecord => pc = "print" /\ out'.end = out.end
    BY <1>1 DEF PutRecord, MisreadRecord
  <2>2. PutEnd \/ PutHeader \/ PutRecord \/ MisreadRecord \/ out' = out
    BY DEF Next, CheckHeader, CheckChunk, CheckPayload, Setup, DecoderChunk, InputEnds,
         DecoderEnd, WindowCloses, WalkRecord, SortRoom, CountRecord, CountEnds, StartOf,
         StartsEnd, PlaceRecord, Done, vars, outVars
  <2> QED BY <2>1, <2>2
<1> QED BY <1>2, <1>3, <1>4, <1>5, <1>6

(* A run that prints its end line has printed, when no chunk is wider than *)
(* a field header can state, exactly the lines that bench/decoder/         *)
(* expect.py's stub_records() predicts from the stimulus.                  *)
THEOREM OutputExpected == Spec => []OutputAsExpected
<1>1. Kept => OutputAsExpected
  BY StubIs DEF Kept, OutputAsExpected
<1>2. Init => TellInv /\ Kept
  BY DEF Init, TellInv, Positions, Mirrored, Labelled, Walked, Filling, BufferPhases, Stored, Kept
<1>3. Kept /\ UNCHANGED vars => Kept'
  <2> SUFFICES ASSUME Kept, UNCHANGED vars PROVE Kept'
    OBVIOUS
  <2>1. img' = img /\ out' = out
    BY DEF vars, outVars
  <2> QED BY <2>1, AskedStays DEF Kept
<1>4. IInv /\ CountInv /\ ReadInv /\ TellInv /\ [Next]_vars => TellInv'
  BY TellStep, TellStutter
<1>5. IInv /\ CountInv /\ SortInv /\ SimInv /\ ReadInv /\ TellInv /\ Kept /\ [Next]_vars => Kept'
  BY <1>3, KeptStep
<1> QED BY <1>1, <1>2, <1>4, <1>5, SimInvariance, ReadInvariance, Invariance, PTL DEF Spec
===============================================================================
