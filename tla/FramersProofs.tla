----------------------------- MODULE FramersProofs -----------------------------
(***************************************************************************)
(* What framing.py's decoders return, for every stream that the generator  *)
(* can send, of any number of segments, bytes and faults: where the GT06   *)
(* port comes back into step, which frames come out of the JT808 port, and *)
(* that either port, once in step, returns the frame it is at.             *)
(***************************************************************************)
EXTENDS FramersProperties, SequenceTheorems, FiniteSetTheorems, WellFoundedInduction,
        NaturalsInduction, TLAPS

(* Every set of naturals that is not empty has a least element.            *)
LEMMA NatMin ==
  ASSUME NEW T \in SUBSET Nat, T # {}
  PROVE  \E x \in T : \A y \in T : x <= y
<1> DEFINE R == {ss \in Nat \X Nat : ss[1] < ss[2]}
<1>1. R = OpToRel(<, Nat)
  BY DEF OpToRel
<1>2. IsWellFoundedOn(R, Nat)
  BY <1>1, NatLessThanWellFounded, Zenon
<1>3. PICK x \in T : \A y \in T : <<y, x>> \notin R
  BY <1>2, WFMin
<1>4. \A y \in T : x <= y
  <2> SUFFICES ASSUME NEW y \in T PROVE x <= y
    OBVIOUS
  <2>1. <<y, x>> \notin R
    BY <1>3
  <2> QED BY <2>1
<1> QED BY <1>4

LEMMA Induct ==
  ASSUME NEW T \in SUBSET Nat, 0 \in T, \A i \in T : i + 1 \in T
  PROVE  T = Nat
<1> SUFFICES ASSUME Nat \ T # {} PROVE FALSE
  OBVIOUS
<1>1. PICK x \in Nat \ T : \A y \in Nat \ T : x <= y
  <2>1. Nat \ T \in SUBSET Nat
    OBVIOUS
  <2> QED BY <2>1, NatMin
<1>2. x # 0 /\ x - 1 \in Nat /\ x = (x - 1) + 1
  BY <1>1
<1>3. x - 1 \in T
  BY <1>1, <1>2
<1> QED BY <1>1, <1>2, <1>3

(* As far as n. *)
LEMMA InductTo ==
  ASSUME NEW n \in Nat, NEW T, 0 \in T, \A i \in 1 .. n : i - 1 \in T => i \in T
  PROVE  \A i \in 0 .. n : i \in T
<1> DEFINE U == {i \in Nat : i <= n => i \in T}
<1>1. U \in SUBSET Nat /\ 0 \in U
  OBVIOUS
<1>2. ASSUME NEW i \in U PROVE i + 1 \in U
  <2> SUFFICES ASSUME i + 1 <= n PROVE i + 1 \in T
    OBVIOUS
  <2>1. i \in T /\ i + 1 \in 1 .. n /\ (i + 1) - 1 = i
    OBVIOUS
  <2> QED BY <2>1
<1>3. U = Nat
  <2> HIDE DEF U
  <2> QED BY <1>1, <1>2, Induct
<1> QED BY <1>3

(* What an iteration leaves behind: h[i] is what E makes of h[i - 1].      *)
Iterates(h, n, V, b, E) ==
  h \in [0 .. n -> V] /\ h[0] = b /\ \A i \in 1 .. n : h[i] = E[<<h[i - 1], i>>]

LEMMA Iterated ==
  ASSUME NEW n \in Nat, NEW V, NEW b \in V, NEW E \in [V \X (1 .. n) -> V]
  PROVE  \E h : Iterates(h, n, V, b, E)
<1> DEFINE T == {k \in 0 .. n : \E h : Iterates(h, k, V, b, E)}
<1>1. 0 \in T
  <2> DEFINE h == [i \in 0 .. 0 |-> b]
  <2>1. Iterates(h, 0, V, b, E)
    BY DEF Iterates
  <2> QED BY <2>1
<1>2. ASSUME NEW i \in 1 .. n, i - 1 \in T PROVE i \in T
  <2>1. PICK h : Iterates(h, i - 1, V, b, E)
    BY <1>2
  <2> DEFINE g == [j \in 0 .. i |-> IF j = i THEN E[<<h[i - 1], i>>] ELSE h[j]]
  <2>2. h[i - 1] \in V /\ E[<<h[i - 1], i>>] \in V
    BY <2>1 DEF Iterates
  <2>3. \A j \in 0 .. i : j # i => j \in 0 .. i - 1 /\ h[j] \in V
    BY <2>1 DEF Iterates
  <2>4. g \in [0 .. i -> V] /\ g[0] = b
    BY <2>1, <2>2, <2>3 DEF Iterates
  <2>5. ASSUME NEW j \in 1 .. i PROVE g[j] = E[<<g[j - 1], j>>]
    <3>1. j - 1 \in 0 .. i /\ j - 1 # i /\ g[j - 1] = h[j - 1]
      OBVIOUS
    <3>2. CASE j = i
      BY <3>1, <3>2
    <3>3. CASE j # i
      <4>1. j \in 1 .. i - 1 /\ g[j] = h[j]
        BY <3>3
      <4> QED BY <2>1, <3>1, <4>1 DEF Iterates
    <3> QED BY <3>2, <3>3
  <2> HIDE DEF g
  <2>6. Iterates(g, i, V, b, E)
    BY <2>4, <2>5 DEF Iterates
  <2> QED BY <2>6
<1>3. \A i \in 0 .. n : i \in T
  <2> HIDE DEF T
  <2> QED BY <1>1, <1>2, InductTo
<1>4. n \in T
  <2> HIDE DEF T
  <2> QED BY <1>3
<1> QED BY <1>4

-----------------------------------------------------------------------------
(* Lists: sequences of whatever. *)
IsList(s) == \E S : s \in Seq(S)

LEMMA ListIs ==
  ASSUME NEW s, IsList(s)
  PROVE  Len(s) \in Nat /\ DOMAIN s = 1 .. Len(s) /\ (s = <<>> <=> Len(s) = 0)
         /\ s = [i \in 1 .. Len(s) |-> s[i]]
<1>1. PICK S : s \in Seq(S)
  BY DEF IsList
<1> QED BY <1>1

LEMMA ListOver ==
  ASSUME NEW s, IsList(s), NEW S, \A i \in 1 .. Len(s) : s[i] \in S
  PROVE  s \in Seq(S)
BY ListIs

LEMMA Joined ==
  ASSUME NEW s, NEW t, IsList(s), IsList(t)
  PROVE  /\ IsList(s \o t) /\ Len(s \o t) = Len(s) + Len(t)
         /\ \A i \in 1 .. Len(s) : (s \o t)[i] = s[i]
         /\ \A i \in 1 .. Len(t) : (s \o t)[Len(s) + i] = t[i]
<1>1. PICK S : s \in Seq(S)
  BY DEF IsList
<1>2. PICK R : t \in Seq(R)
  BY DEF IsList
<1>3. s \in Seq(S \cup R) /\ t \in Seq(S \cup R)
  BY <1>1, <1>2
<1>4. s \o t \in Seq(S \cup R)
  BY <1>3
<1> QED BY <1>3, <1>4 DEF IsList

LEMMA OneList == ASSUME NEW e PROVE IsList(<<e>>) /\ Len(<<e>>) = 1 /\ <<e>>[1] = e
<1>1. <<e>> \in Seq({e})
  OBVIOUS
<1> QED BY <1>1 DEF IsList

LEMMA NoList == IsList(<<>>) /\ Len(<<>>) = 0
<1>1. <<>> \in Seq({})
  OBVIOUS
<1> QED BY <1>1 DEF IsList

LEMMA OneMore ==
  ASSUME NEW s, IsList(s), NEW e
  PROVE  /\ IsList(Append(s, e)) /\ Len(Append(s, e)) = Len(s) + 1
         /\ Append(s, e)[Len(s) + 1] = e /\ \A i \in 1 .. Len(s) : Append(s, e)[i] = s[i]
<1>1. PICK S : s \in Seq(S)
  BY DEF IsList
<1>2. s \in Seq(S \cup {e})
  BY <1>1
<1>3. Append(s, e) \in Seq(S \cup {e})
  BY <1>2
<1> QED BY <1>2, <1>3 DEF IsList

-----------------------------------------------------------------------------
(* A stream put together from its segments. *)

(* The sizes of the segments, added up. *)
Ends(e, n) ==
  /\ e \in [0 .. n -> Nat] /\ e[0] = 0
  /\ \A i \in 1 .. n : e[i] = e[i - 1] + Len(segs[i].data)

LEMMA EndsAre ==
  ASSUME NEW n \in Nat, \A i \in 1 .. n : Len(segs[i].data) \in Nat
  PROVE  \E e : Ends(e, n) /\ \A k \in 0 .. n : EndOf(k) = e[k]
<1> DEFINE E == [x \in Nat \X (1 .. n) |-> x[1] + Len(segs[x[2]].data)]
<1>1. E \in [Nat \X (1 .. n) -> Nat] /\ \A v \in Nat, i \in 1 .. n : E[<<v, i>>] = v + Len(segs[i].data)
  OBVIOUS
<1> HIDE DEF E
<1>2. PICK e : Iterates(e, n, Nat, 0, E)
  BY <1>1, Iterated
<1>3. Ends(e, n)
  <2>1. \A i \in 1 .. n : e[i - 1] \in Nat
    BY <1>2 DEF Iterates
  <2> QED BY <1>1, <1>2, <2>1 DEF Ends, Iterates
<1>4. ASSUME NEW k \in 0 .. n PROVE EndOf(k) = e[k]
  <2> DEFINE s == [j \in 1 .. k |-> Len(segs[j].data)]
             IsSum(f) == f = [i \in 0 .. k |-> IF i = 0 THEN 0 ELSE f[i - 1] + s[i]]
             f0 == CHOOSE f : IsSum(f)
             g == [i \in 0 .. k |-> e[i]]
  <2>1. Len(s) = k
    BY <1>1
  <2>2. EndOf(k) = f0[k]
    BY <2>1 DEF EndOf, Through
  <2>3. \A i \in 0 .. k : g[i] = IF i = 0 THEN 0 ELSE g[i - 1] + s[i]
    <3> SUFFICES ASSUME NEW i \in 0 .. k PROVE g[i] = IF i = 0 THEN 0 ELSE g[i - 1] + s[i]
      OBVIOUS
    <3>1. CASE i = 0
      BY <1>3, <3>1 DEF Ends
    <3>2. CASE i # 0
      <4>1. i \in 1 .. n /\ i - 1 \in 0 .. k /\ i \in 1 .. k
        BY <3>2
      <4> QED BY <1>3, <3>2, <4>1 DEF Ends
    <3> QED BY <3>1, <3>2
  <2>4. IsSum(g)
    BY <2>3
  <2>5. IsSum(f0)
    <3> HIDE DEF IsSum, g
    <3> QED BY <2>4
  <2> HIDE DEF f0, g
  <2> DEFINE T == {i \in 0 .. k : f0[i] = e[i]}
  <2>6. 0 \in T
    BY <1>3, <2>5 DEF Ends
  <2>7. ASSUME NEW i \in 1 .. k, i - 1 \in T PROVE i \in T
    <3>1. i \in 1 .. n /\ i \in 0 .. k /\ i # 0 /\ f0[i - 1] = e[i - 1]
      BY <2>7
    <3>2. f0[i] = f0[i - 1] + s[i]
      BY <2>5, <3>1
    <3> QED BY <1>3, <3>1, <3>2 DEF Ends
  <2>8. \A i \in 0 .. k : i \in T
    <3>1. k \in Nat
      OBVIOUS
    <3> HIDE DEF T
    <3> QED BY <2>6, <2>7, <3>1, InductTo
  <2>9. k \in T
    <3> HIDE DEF T
    <3> QED BY <2>8
  <2> QED BY <2>2, <2>9
<1> QED BY <1>3, <1>4

LEMMA EndsAscend ==
  ASSUME NEW n \in Nat, NEW e, Ends(e, n), NEW j \in 0 .. n, NEW k \in 0 .. n, j <= k,
         \A i \in 1 .. n : Len(segs[i].data) \in Nat
  PROVE  e[j] <= e[k]
<1> DEFINE T == {i \in 0 .. n : j <= i => e[j] <= e[i]}
<1>1. 0 \in T
  BY DEF Ends
<1>2. ASSUME NEW i \in 1 .. n, i - 1 \in T PROVE i \in T
  <2>1. e[i] = e[i - 1] + Len(segs[i].data) /\ Len(segs[i].data) \in Nat /\ e[i - 1] \in Nat /\ e[i] \in Nat
        /\ e[j] \in Nat
    BY DEF Ends
  <2>2. CASE j = i
    BY <2>1, <2>2
  <2>3. CASE j # i
    BY <1>2, <2>1, <2>3
  <2> QED BY <2>2, <2>3
<1>3. k \in T
  <2>1. \A i \in 0 .. n : i \in T
    <3> HIDE DEF T
    <3> QED BY <1>1, <1>2, InductTo
  <2> QED BY <2>1
<1> QED BY <1>3

(* Lists laid end to end. *)
Laid(h, ss, S) ==
  /\ h \in [0 .. Len(ss) -> Seq(S)] /\ h[0] = <<>>
  /\ \A i \in 1 .. Len(ss) : h[i] = h[i - 1] \o ss[i]

LEMMA FlattenIs ==
  ASSUME NEW S, NEW ss \in Seq(Seq(S))
  PROVE  \E h : Laid(h, ss, S) /\ FlattenSeq(ss) = h[Len(ss)]
<1> DEFINE n == Len(ss)
           E == [x \in Seq(S) \X (1 .. n) |-> x[1] \o ss[x[2]]]
<1>1. n \in Nat /\ DOMAIN ss = 1 .. n /\ \A i \in 1 .. n : ss[i] \in Seq(S)
  BY ElementOfSeq
<1>2. E \in [Seq(S) \X (1 .. n) -> Seq(S)] /\ \A v \in Seq(S), i \in 1 .. n : E[<<v, i>>] = v \o ss[i]
  <2>1. \A v \in Seq(S), i \in 1 .. n : v \o ss[i] \in Seq(S)
    BY <1>1
  <2> QED BY <2>1
<1>3. <<>> \in Seq(S)
  OBVIOUS
<1> HIDE DEF E
<1>4. PICK h : Iterates(h, n, Seq(S), <<>>, E)
  <2> HIDE DEF n
  <2> QED BY <1>1, <1>2, <1>3, Iterated
<1>5. Laid(h, ss, S)
  <2>1. \A i \in 1 .. n : i - 1 \in 0 .. n
    BY <1>1
  <2>2. \A i \in 1 .. n : h[i - 1] \in Seq(S)
    <3> HIDE DEF n
    <3> QED BY <1>4, <2>1 DEF Iterates
  <2> QED BY <1>2, <1>4, <2>2 DEF Iterates, Laid
<1>6. FlattenSeq(ss) = h[n]
  <2>1. CASE n = 0
    BY <1>1, <1>5, <2>1 DEF FlattenSeq, Laid
  <2>2. CASE n # 0
    <3> DEFINE IsFlat(f) == f = [i \in 1 .. n |-> IF i = 1 THEN ss[i] ELSE f[i - 1] \o ss[i]]
               f0 == CHOOSE f : IsFlat(f)
               g == [i \in 1 .. n |-> h[i]]
    <3>1. FlattenSeq(ss) = f0[n]
      BY <1>1, <2>2 DEF FlattenSeq
    <3>2. \A i \in 1 .. n : g[i] = IF i = 1 THEN ss[i] ELSE g[i - 1] \o ss[i]
      <4> SUFFICES ASSUME NEW i \in 1 .. n PROVE g[i] = IF i = 1 THEN ss[i] ELSE g[i - 1] \o ss[i]
        OBVIOUS
      <4>1. CASE i = 1
        <5>1. h[1] = <<>> \o ss[1]
          <6>1. 1 \in 1 .. n /\ 1 - 1 = 0
            BY <1>1, <4>1
          <6> QED BY <1>5, <6>1 DEF Laid
        <5>2. <<>> \o ss[1] = ss[1]
          BY <1>1, <4>1
        <5> QED BY <4>1, <5>1, <5>2
      <4>2. CASE i # 1
        <5>1. i - 1 \in 1 .. n
          BY <1>1, <4>2
        <5>2. h[i] = h[i - 1] \o ss[i]
          BY <1>5 DEF Laid
        <5> QED BY <4>2, <5>1, <5>2
      <4> QED BY <4>1, <4>2
    <3>3. IsFlat(g)
      BY <3>2
    <3>4. IsFlat(f0)
      <4> HIDE DEF IsFlat, g
      <4> QED BY <3>3
    <3> HIDE DEF f0, g
    <3> DEFINE T == {i \in 0 .. n : i # 0 => f0[i] = h[i]}
    <3>5. 0 \in T
      BY <1>1
    <3>6. ASSUME NEW i \in 1 .. n, i - 1 \in T PROVE i \in T
      <4>1. f0[i] = IF i = 1 THEN ss[i] ELSE f0[i - 1] \o ss[i]
        BY <3>4
      <4>2. h[i] = h[i - 1] \o ss[i] /\ h[0] = <<>>
        BY <1>5 DEF Laid
      <4>3. CASE i = 1
        <5>1. <<>> \o ss[1] = ss[1] /\ h[i - 1] = <<>>
          BY <1>1, <4>2, <4>3
        <5>2. f0[i] = h[i]
          BY <4>1, <4>2, <4>3, <5>1
        <5> QED BY <1>1, <5>2
      <4>4. CASE i # 1
        <5>1. i - 1 # 0 /\ f0[i - 1] = h[i - 1]
          BY <1>1, <3>6, <4>4
        <5>2. f0[i] = h[i]
          BY <4>1, <4>2, <4>4, <5>1
        <5> QED BY <1>1, <5>2
      <4> QED BY <4>3, <4>4
    <3>7. \A i \in 0 .. n : i \in T
      <4> HIDE DEF T, n
      <4> QED BY <1>1, <3>5, <3>6, InductTo
    <3>8. f0[n] = h[n]
      BY <1>1, <2>2, <3>7
    <3> QED BY <3>1, <3>8
  <2> QED BY <2>1, <2>2
<1> QED BY <1>5, <1>6

(* Where each of some lists laid end to end is. *)
Places(w, p, ss) ==
  /\ p \in [0 .. Len(ss) -> Nat] /\ p[0] = 0 /\ p[Len(ss)] = Len(w)
  /\ \A k \in 1 .. Len(ss) : /\ p[k] = p[k - 1] + Len(ss[k]) /\ p[k] <= Len(w)
                             /\ \A m \in 1 .. Len(ss[k]) : w[p[k - 1] + m] = ss[k][m]

LEMMA FlatPlaces ==
  ASSUME NEW S, NEW ss \in Seq(Seq(S))
  PROVE  FlattenSeq(ss) \in Seq(S) /\ \E p : Places(FlattenSeq(ss), p, ss)
<1> DEFINE n == Len(ss)
<1>1. n \in Nat /\ \A i \in 1 .. n : ss[i] \in Seq(S) /\ Len(ss[i]) \in Nat
  BY ElementOfSeq, LenProperties
<1>2. PICK h : Laid(h, ss, S) /\ FlattenSeq(ss) = h[n]
  BY FlattenIs
<1> HIDE DEF n
<1> DEFINE p == [i \in 0 .. n |-> Len(h[i])]
           Holds(i) == \A k \in 1 .. i : p[k] <= p[i] /\ \A m \in 1 .. Len(ss[k]) : h[i][p[k - 1] + m] = ss[k][m]
           T == {i \in 0 .. n : Holds(i)}
<1>3. \A i \in 0 .. n : h[i] \in Seq(S)
  BY <1>2 DEF Laid, n
<1>4. p \in [0 .. n -> Nat] /\ \A i \in 0 .. n : p[i] = Len(h[i])
  BY <1>3, LenProperties
<1>5. ASSUME NEW i \in 1 .. n
      PROVE  /\ p[i] = p[i - 1] + Len(ss[i]) /\ p[i - 1] \in Nat
             /\ \A m \in 1 .. p[i - 1] : h[i][m] = h[i - 1][m]
             /\ \A m \in 1 .. Len(ss[i]) : h[i][p[i - 1] + m] = ss[i][m]
  <2> DEFINE a == h[i - 1]
             c == ss[i]
  <2>1. i - 1 \in 0 .. n /\ i \in 0 .. n
    BY <1>1
  <2>2. a \in Seq(S) /\ c \in Seq(S) /\ h[i] = a \o c /\ p[i - 1] = Len(a) /\ p[i] = Len(h[i])
    BY <1>1, <1>2, <1>3, <1>4, <2>1 DEF Laid, n
  <2> HIDE DEF a, c, p
  <2>3. /\ Len(a \o c) = Len(a) + Len(c) /\ Len(a) \in Nat /\ \A m \in 1 .. Len(a) : (a \o c)[m] = a[m]
        /\ \A m \in 1 .. Len(c) : (a \o c)[Len(a) + m] = c[m]
    BY <2>2
  <2> QED BY <2>2, <2>3 DEF a, c
<1>6. p[0] = 0
  <2>1. h[0] = <<>> /\ 0 \in 0 .. n
    BY <1>1, <1>2 DEF Laid, n
  <2> QED BY <1>4, <2>1
<1> HIDE DEF p
<1>7. 0 \in T
  BY <1>1
<1>8. ASSUME NEW i \in 1 .. n, i - 1 \in T PROVE i \in T
  <2>1. i \in 0 .. n /\ i - 1 \in 0 .. n /\ p[i] \in Nat /\ p[i - 1] \in Nat /\ Len(ss[i]) \in Nat
    BY <1>1, <1>4
  <2>2. ASSUME NEW k \in 1 .. i
        PROVE  p[k] <= p[i] /\ \A m \in 1 .. Len(ss[k]) : h[i][p[k - 1] + m] = ss[k][m]
    <3>1. CASE k = i
      BY <1>5, <2>1, <3>1
    <3>2. CASE k # i
      <4>1. k \in 1 .. i - 1 /\ k \in 1 .. n /\ k \in 0 .. n /\ k - 1 \in 0 .. n
        BY <1>1, <2>1, <3>2
      <4>2. p[k] <= p[i - 1] /\ \A m \in 1 .. Len(ss[k]) : h[i - 1][p[k - 1] + m] = ss[k][m]
        BY <1>8, <4>1
      <4>3. p[k] = p[k - 1] + Len(ss[k]) /\ p[k] \in Nat /\ p[k - 1] \in Nat /\ p[i] = p[i - 1] + Len(ss[i])
            /\ Len(ss[k]) \in Nat
        BY <1>1, <1>4, <1>5, <4>1
      <4>4. ASSUME NEW m \in 1 .. Len(ss[k]) PROVE p[k - 1] + m \in 1 .. p[i - 1]
        <5> DEFINE from == p[k - 1]
                   l == Len(ss[k])
                   to == p[i - 1]
        <5>1. from \in Nat /\ l \in Nat /\ to \in Nat /\ from + l <= to /\ m \in 1 .. l
          <6>1. p[k] <= p[i - 1] /\ p[k] = from + l
            BY <4>2, <4>3
          <6> QED BY <2>1, <4>3, <6>1
        <5> HIDE DEF from, l, to
        <5>2. from + m \in 1 .. to
          BY <5>1
        <5> QED BY <5>2 DEF from, to
      <4>5. \A m \in 1 .. Len(ss[k]) : h[i][p[k - 1] + m] = ss[k][m]
        BY <1>5, <4>2, <4>4
      <4> QED BY <2>1, <4>2, <4>3, <4>5
    <3> QED BY <3>1, <3>2
  <2> QED BY <2>1, <2>2
<1>9. Holds(n)
  <2>1. \A i \in 0 .. n : i \in T
    <3> HIDE DEF T
    <3> QED BY <1>1, <1>7, <1>8, InductTo
  <2>2. n \in 0 .. n
    BY <1>1
  <2> QED BY <2>1, <2>2
<1>10. Places(h[n], p, ss)
  <2>1. p[n] = Len(h[n])
    BY <1>1, <1>4
  <2> QED BY <1>4, <1>5, <1>6, <1>9, <2>1 DEF Places, n
<1>11. h[n] \in Seq(S)
  BY <1>1, <1>3
<1> QED BY <1>2, <1>10, <1>11

(* Where the bytes of each segment are in the stream. *)
LEMMA StreamIs ==
  ASSUME NEW S, IsList(segs), \A k \in 1 .. Len(segs) : segs[k].data \in Seq(S)
  PROVE  /\ Stream \in Seq(S) /\ Len(Stream) = EndOf(Len(segs)) /\ EndOf(0) = 0
         /\ \A k \in 0 .. Len(segs) : EndOf(k) \in Nat
         /\ \A k \in 1 .. Len(segs) :
              /\ EndOf(k) = EndOf(k - 1) + Len(segs[k].data)
              /\ \A m \in 1 .. Len(segs[k].data) : Stream[EndOf(k - 1) + m] = segs[k].data[m]
         /\ \A j, k \in 0 .. Len(segs) : j <= k => EndOf(j) <= EndOf(k)
<1> DEFINE n == Len(segs)
           ss == [k \in DOMAIN segs |-> segs[k].data]
<1>1. n \in Nat /\ DOMAIN segs = 1 .. n /\ \A i \in 1 .. n : Len(segs[i].data) \in Nat
  <2>1. n \in Nat /\ DOMAIN segs = 1 .. n
    BY ListIs
  <2>2. \A i \in 1 .. n : Len(segs[i].data) \in Nat
    BY LenProperties
  <2> QED BY <2>1, <2>2
<1>2. ss \in Seq(Seq(S)) /\ Len(ss) = n /\ \A k \in 1 .. n : ss[k] = segs[k].data
  BY <1>1
<1>3. Stream \in Seq(S) /\ \E p : Places(Stream, p, ss)
  BY <1>2, FlatPlaces DEF Stream
<1>4. PICK p : Places(Stream, p, ss)
  BY <1>3
<1>5. PICK e : Ends(e, n) /\ \A k \in 0 .. n : EndOf(k) = e[k]
  <2> HIDE DEF n
  <2> QED BY <1>1, EndsAre
<1> HIDE DEF ss, n
<1>6. /\ e[0] = 0 /\ \A k \in 0 .. n : e[k] \in Nat
      /\ \A k \in 1 .. n : e[k] = e[k - 1] + Len(segs[k].data)
      /\ \A j, k \in 0 .. n : j <= k => e[j] <= e[k]
  <2>1. \A j, k \in 0 .. n : j <= k => e[j] <= e[k]
    BY <1>1, <1>5, EndsAscend
  <2> QED BY <1>5, <2>1 DEF Ends, n
<1>7. /\ p[0] = 0 /\ p[n] = Len(Stream)
      /\ \A k \in 1 .. n : /\ p[k] = p[k - 1] + Len(segs[k].data)
                           /\ \A m \in 1 .. Len(segs[k].data) : Stream[p[k - 1] + m] = segs[k].data[m]
  BY <1>2, <1>4 DEF Places
<1> DEFINE T == {k \in 0 .. n : p[k] = e[k]}
<1>8. 0 \in T
  BY <1>1, <1>6, <1>7
<1>9. ASSUME NEW k \in 1 .. n, k - 1 \in T PROVE k \in T
  BY <1>1, <1>6, <1>7, <1>9
<1>10. \A k \in 0 .. n : k \in T
  <2> HIDE DEF T
  <2> QED BY <1>1, <1>8, <1>9, InductTo
<1>11. \A k \in 0 .. n : p[k] = EndOf(k)
  BY <1>5, <1>10
<1>12. n \in 0 .. n /\ 0 \in 0 .. n /\ \A k \in 1 .. n : k - 1 \in 0 .. n /\ k \in 0 .. n
  BY <1>1
<1>13. Len(Stream) = EndOf(n) /\ EndOf(0) = 0
  BY <1>7, <1>11, <1>12
<1>14. ASSUME NEW k \in 1 .. n
       PROVE  /\ EndOf(k) = EndOf(k - 1) + Len(segs[k].data)
              /\ \A m \in 1 .. Len(segs[k].data) : Stream[EndOf(k - 1) + m] = segs[k].data[m]
  BY <1>7, <1>11, <1>12
<1>15. \A j, k \in 0 .. n : j <= k => EndOf(j) <= EndOf(k)
  BY <1>5, <1>6
<1>16. \A k \in 0 .. n : EndOf(k) \in Nat
  BY <1>5, <1>6
<1> QED BY <1>3, <1>13, <1>14, <1>15, <1>16 DEF n

-----------------------------------------------------------------------------
(* GT06: where the framer comes back into step. *)

(* Every GT06 segment is bytes, and a frame that was not cut is as long as *)
(* one without content at least and ends in a stop.                        *)
Gt06Made ==
  /\ \A k \in 1 .. Len(segs) :
       /\ segs[k].data \in Seq(Byte)
       /\ Untruncated(k) =>
            LET n == Len(segs[k].data) IN
            n >= 10 /\ segs[k].data[n - 1] = 13 /\ segs[k].data[n] = 10
  /\ Untruncated(1) /\ segs[1].data[1] = 120

(* The ends of frames in the stream. *)
LEMMA FrameEndsAre ==
  ASSUME IsList(segs), Len(segs) >= 1, Gt06Made
  PROVE  /\ Stream \in Seq(Byte) /\ Stream[1] = 120
         /\ FrameEnds # {}
         /\ \A x \in FrameEnds : /\ x \in Nat /\ x <= Len(Stream) /\ x >= 10
                                 /\ Stream[x - 1] = 13 /\ Stream[x] = 10
         /\ \A y \in {0} \cup FrameEnds : \A x \in FrameEnds : x > y => x >= y + 10
<1> DEFINE n == Len(segs)
<1>1. n \in Nat /\ DOMAIN segs = 1 .. n /\ n >= 1
  BY ListIs
<1>2. /\ Stream \in Seq(Byte) /\ Len(Stream) = EndOf(n) /\ EndOf(0) = 0
      /\ \A k \in 0 .. n : EndOf(k) \in Nat
      /\ \A k \in 1 .. n :
           /\ EndOf(k) = EndOf(k - 1) + Len(segs[k].data)
           /\ \A m \in 1 .. Len(segs[k].data) : Stream[EndOf(k - 1) + m] = segs[k].data[m]
      /\ \A j, k \in 0 .. n : j <= k => EndOf(j) <= EndOf(k)
  BY StreamIs DEF Gt06Made
<1>3. FrameEnds = {EndOf(k) : k \in {j \in 1 .. n : Untruncated(j)}}
  BY <1>1 DEF FrameEnds
<1>4. ASSUME NEW k \in 1 .. n, Untruncated(k)
      PROVE  /\ EndOf(k) \in Nat /\ EndOf(k - 1) \in Nat /\ EndOf(k) >= EndOf(k - 1) + 10
             /\ EndOf(k) <= Len(Stream) /\ Stream[EndOf(k) - 1] = 13 /\ Stream[EndOf(k)] = 10
  <2> DEFINE d == segs[k].data
  <2>1. d \in Seq(Byte) /\ Len(d) >= 10 /\ d[Len(d) - 1] = 13 /\ d[Len(d)] = 10
    BY <1>4 DEF Gt06Made
  <2>2. k \in 0 .. n /\ k - 1 \in 0 .. n /\ n \in 0 .. n /\ k <= n
    BY <1>1
  <2>3. EndOf(k) = EndOf(k - 1) + Len(d) /\ EndOf(k - 1) \in Nat /\ EndOf(k) \in Nat /\ EndOf(k) <= Len(Stream)
    BY <1>2, <2>2
  <2>4. Len(d) \in Nat
    BY <2>1, LenProperties
  <2>5. \A m \in 1 .. Len(d) : Stream[EndOf(k - 1) + m] = d[m]
    BY <1>2
  <2> HIDE DEF d, n
  <2>6. Len(d) \in 1 .. Len(d) /\ Len(d) - 1 \in 1 .. Len(d)
    BY <2>1, <2>4
  <2>7. Stream[EndOf(k - 1) + Len(d)] = 10 /\ Stream[EndOf(k - 1) + (Len(d) - 1)] = 13
    BY <2>1, <2>5, <2>6
  <2>8. EndOf(k - 1) + (Len(d) - 1) = EndOf(k) - 1
    BY <2>3, <2>4
  <2> QED BY <2>1, <2>3, <2>4, <2>7, <2>8
<1>5. \A x \in FrameEnds : /\ x \in Nat /\ x <= Len(Stream) /\ x >= 10
                           /\ Stream[x - 1] = 13 /\ Stream[x] = 10
  <2> SUFFICES ASSUME NEW k \in 1 .. n, Untruncated(k)
               PROVE  /\ EndOf(k) \in Nat /\ EndOf(k) <= Len(Stream) /\ EndOf(k) >= 10
                      /\ Stream[EndOf(k) - 1] = 13 /\ Stream[EndOf(k)] = 10
    BY <1>3
  <2> QED BY <1>4
<1>6. FrameEnds # {}
  BY <1>1, <1>3 DEF Gt06Made
<1>7. Stream[1] = 120
  <2>1. 1 \in 1 .. n /\ Untruncated(1) /\ segs[1].data[1] = 120 /\ segs[1].data \in Seq(Byte)
        /\ Len(segs[1].data) >= 10
    BY <1>1 DEF Gt06Made
  <2>2. Len(segs[1].data) \in Nat /\ EndOf(1 - 1) = 0
    BY <1>2, <2>1, LenProperties
  <2>3. 1 \in 1 .. Len(segs[1].data)
    BY <2>1, <2>2
  <2> HIDE DEF n
  <2>4. Stream[EndOf(1 - 1) + 1] = 120
    BY <1>2, <2>1, <2>3
  <2> QED BY <2>2, <2>4
<1>8. ASSUME NEW y \in {0} \cup FrameEnds, NEW x \in FrameEnds, x > y PROVE x >= y + 10
  <2>1. PICK k \in 1 .. n : Untruncated(k) /\ x = EndOf(k)
    BY <1>3
  <2>2. CASE y = 0
    BY <1>5, <2>2
  <2>3. CASE y \in FrameEnds
    <3>1. PICK j \in 1 .. n : Untruncated(j) /\ y = EndOf(j)
      BY <1>3, <2>3
    <3>2. j \in 0 .. n /\ k \in 0 .. n /\ k - 1 \in 0 .. n
      BY <1>1
    <3>3. ~(k <= j)
      <4>1. k <= j => x <= y
        BY <1>2, <2>1, <3>1, <3>2
      <4>2. x \in Nat /\ y \in Nat
        BY <1>2, <2>1, <3>1, <3>2
      <4> QED BY <1>8, <4>1, <4>2
    <3>4. j <= k - 1
      BY <3>3
    <3>5. EndOf(j) <= EndOf(k - 1) /\ EndOf(j) \in Nat
      BY <1>2, <3>2, <3>4
    <3> QED BY <1>4, <2>1, <3>1, <3>5
  <2> QED BY <2>2, <2>3
<1> QED BY <1>2, <1>5, <1>6, <1>7, <1>8

LEMMA BytesAreNat == Byte \subseteq Nat
BY DEF Byte

(* Python's slices. *)
LEMMA SliceIs ==
  ASSUME NEW S, NEW b \in Seq(S), NEW i \in Nat, NEW j \in Nat
  PROVE  /\ Slice(b, i, j) \in Seq(S)
         /\ i <= j /\ j <= Len(b) => /\ Len(Slice(b, i, j)) = j - i
                                     /\ \A m \in 1 .. j - i : Slice(b, i, j)[m] = b[i + m]
         /\ i >= Len(b) => Slice(b, i, j) = <<>>
<1> DEFINE k == IF j < Len(b) THEN j ELSE Len(b)
<1>1. Slice(b, i, j) = SubSeq(b, i + 1, k) /\ Len(b) \in Nat /\ k \in Nat /\ k <= Len(b)
  BY DEF Slice
<1>2. j <= Len(b) => k = j
  BY <1>1
<1>3. i >= Len(b) => i + 1 > k
  BY <1>1
<1> HIDE DEF k
<1>4. SubSeq(b, i + 1, k) \in Seq(S)
  <2>1. \A m \in i + 1 .. k : b[m] \in S
    BY <1>1
  <2> QED BY <1>1, <2>1, SubSeqProperties
<1>5. i <= k => Len(SubSeq(b, i + 1, k)) = k - i /\ \A m \in 1 .. k - i : SubSeq(b, i + 1, k)[m] = b[i + m]
  BY <1>1
<1>6. i + 1 > k => SubSeq(b, i + 1, k) = <<>>
  BY <1>1
<1> QED BY <1>1, <1>2, <1>3, <1>4, <1>5, <1>6

LEMMA NumType ==
  ASSUME NEW b \in Seq(Byte), NEW i \in Nat, NEW j \in Nat
  PROVE  Num(b, i, j) \in Nat
<1> DEFINE s == Slice(b, i, j)
           n == Len(s)
           E == [x \in Nat \X (1 .. n) |-> 256 * x[1] + s[x[2]]]
           IsNum(f) == f = [k \in 0 .. n |-> IF k = 0 THEN 0 ELSE 256 * f[k - 1] + s[k]]
           f0 == CHOOSE f : IsNum(f)
<1>1. s \in Seq(Byte) /\ n \in Nat
  <2>1. s \in Seq(Byte)
    BY SliceIs
  <2> QED BY <2>1, LenProperties
<1>2. \A k \in 1 .. n : s[k] \in Nat
  <2> HIDE DEF s
  <2>1. \A k \in 1 .. n : s[k] \in Byte
    BY <1>1, ElementOfSeq
  <2> QED BY <2>1, BytesAreNat
<1>3. Num(b, i, j) = f0[n]
  BY DEF Num, Through
<1> HIDE DEF s, n
<1>4. E \in [Nat \X (1 .. n) -> Nat] /\ \A v \in Nat, k \in 1 .. n : E[<<v, k>>] = 256 * v + s[k]
  BY <1>2
<1> HIDE DEF E
<1>5. PICK h : Iterates(h, n, Nat, 0, E)
  BY <1>1, <1>4, Iterated
<1>6. IsNum(h)
  <2>1. ASSUME NEW k \in 0 .. n PROVE h[k] = IF k = 0 THEN 0 ELSE 256 * h[k - 1] + s[k]
    <3>1. CASE k = 0
      BY <1>5, <3>1 DEF Iterates
    <3>2. CASE k # 0
      <4>1. k \in 1 .. n /\ k - 1 \in 0 .. n
        BY <1>1, <3>2
      <4>2. h[k - 1] \in Nat /\ h[k] = E[<<h[k - 1], k>>]
        BY <1>5, <4>1 DEF Iterates
      <4> QED BY <1>4, <3>2, <4>1, <4>2
    <3> QED BY <3>1, <3>2
  <2>2. h \in [0 .. n -> Nat]
    BY <1>5 DEF Iterates
  <2> QED BY <2>1, <2>2
<1>7. IsNum(f0)
  <2> HIDE DEF IsNum
  <2> QED BY <1>6
<1> HIDE DEF f0
<1> DEFINE T == {k \in 0 .. n : f0[k] \in Nat}
<1>8. 0 \in T
  BY <1>1, <1>7
<1>9. ASSUME NEW k \in 1 .. n, k - 1 \in T PROVE k \in T
  <2>1. k \in 0 .. n /\ k # 0
    BY <1>1
  <2>2. f0[k] = 256 * f0[k - 1] + s[k]
    BY <1>7, <2>1
  <2> QED BY <1>2, <1>9, <2>1, <2>2
<1>10. \A k \in 0 .. n : k \in T
  <2> HIDE DEF T
  <2> QED BY <1>1, <1>8, <1>9, InductTo
<1>11. n \in T
  <2> HIDE DEF T
  <2> QED BY <1>1, <1>10
<1> QED BY <1>3, <1>11

LEMMA Gt06LengthType ==
  ASSUME NEW b \in Seq(Byte), NEW at \in Nat, at + 4 < Len(b)
  PROVE  Gt06Length(b, at) \in Nat /\ Gt06Length(b, at) >= 5
<1>1. b[at + 3] \in Nat
  <2>1. Len(b) \in Nat
    BY LenProperties
  <2>2. at + 3 \in 1 .. Len(b)
    BY <2>1
  <2>3. b[at + 3] \in Byte
    BY <2>2, ElementOfSeq
  <2> QED BY <2>3, BytesAreNat
<1>2. Num(b, at + 2, at + 4) \in Nat
  <2>1. at + 2 \in Nat /\ at + 4 \in Nat
    OBVIOUS
  <2> QED BY <2>1, NumType
<1> DEFINE x == b[at + 3]
           y == Num(b, at + 2, at + 4)
<1>3. Gt06Length(b, at) = 4 + (IF b[at + 1] = 120 THEN 1 + x ELSE 2 + y)
  BY Zenon DEF Gt06Length
<1>4. x \in Nat /\ y \in Nat
  BY <1>1, <1>2, Zenon
<1> HIDE DEF x, y
<1> QED BY <1>3, <1>4

LEMMA LeastIn ==
  ASSUME NEW S \in SUBSET Nat, S # {}
  PROVE  Min(S) \in S /\ \A x \in S : Min(S) <= x
<1>1. \E x \in S : \A y \in S : x <= y
  BY NatMin
<1> QED BY <1>1 DEF Min

(* The places of a stop. *)
LEMMA StopIs ==
  ASSUME NEW b \in Seq(Byte), NEW i \in Nat
  PROVE  /\ Slice(b, i + 1, i + 2) = <<10>> <=> i + 2 <= Len(b) /\ b[i + 2] = 10
         /\ i + 2 <= Len(b) => (Slice(b, i, i + 2) = <<13, 10>> <=> b[i + 1] = 13 /\ b[i + 2] = 10)
<1>1. Len(b) \in Nat /\ i + 1 \in Nat /\ i + 2 \in Nat
  BY LenProperties
<1>2. /\ i + 1 >= Len(b) => Slice(b, i + 1, i + 2) = <<>>
      /\ i + 2 <= Len(b) => /\ Slice(b, i + 1, i + 2) \in Seq(Byte) /\ Len(Slice(b, i + 1, i + 2)) = 1
                            /\ Slice(b, i + 1, i + 2)[1] = b[i + 2]
  <2> DEFINE k == i + 1
             t == Slice(b, k, i + 2)
  <2>1. k \in Nat
    OBVIOUS
  <2> HIDE DEF k
  <2>2. /\ t \in Seq(Byte) /\ (k >= Len(b) => t = <<>>)
        /\ k <= i + 2 /\ i + 2 <= Len(b) =>
             Len(t) = (i + 2) - k /\ \A m \in 1 .. (i + 2) - k : t[m] = b[k + m]
    BY <1>1, <2>1, SliceIs
  <2> HIDE DEF t
  <2>3. (i + 2) - k = 1 /\ k <= i + 2 /\ k + 1 = i + 2
    BY DEF k
  <2>4. i + 2 <= Len(b) => Len(t) = 1 /\ t[1] = b[i + 2]
    BY <2>2, <2>3
  <2> QED BY <2>2, <2>4 DEF t, k
<1>3. i + 2 <= Len(b) => /\ Slice(b, i, i + 2) \in Seq(Byte) /\ Len(Slice(b, i, i + 2)) = 2
                         /\ Slice(b, i, i + 2)[1] = b[i + 1] /\ Slice(b, i, i + 2)[2] = b[i + 2]
  <2> DEFINE t == Slice(b, i, i + 2)
  <2>1. /\ t \in Seq(Byte)
        /\ i <= i + 2 /\ i + 2 <= Len(b) =>
             Len(t) = (i + 2) - i /\ \A m \in 1 .. (i + 2) - i : t[m] = b[i + m]
    BY <1>1, SliceIs
  <2> HIDE DEF t
  <2>2. (i + 2) - i = 2 /\ i <= i + 2
    OBVIOUS
  <2>3. i + 2 <= Len(b) => Len(t) = 2 /\ t[1] = b[i + 1] /\ t[2] = b[i + 2]
    BY <2>1, <2>2
  <2> QED BY <2>1, <2>3 DEF t
<1>4. i + 1 >= Len(b) \/ i + 2 <= Len(b)
  BY <1>1
<1>5. \A s \in Seq(Byte) : /\ Len(s) = 1 => (s = <<10>> <=> s[1] = 10)
                           /\ Len(s) = 2 => (s = <<13, 10>> <=> s[1] = 13 /\ s[2] = 10)
  OBVIOUS
<1>6. <<>> # <<10>> /\ ~(i + 1 >= Len(b) /\ i + 2 <= Len(b))
  BY <1>1
<1> QED BY <1>2, <1>3, <1>4, <1>5, <1>6

(* A decode that begins at the end of a frame, or of nothing, ends at one. *)
LEMMA Realigned ==
  ASSUME IsList(segs), Len(segs) >= 1, Gt06Made, NoStrayStop, NEW at \in {0} \cup FrameEnds
  PROVE  LET f == gt06_decode(Stream, at) IN
         \/ /\ f.status = "frame" /\ f.at = at /\ f.next \in FrameEnds
            /\ \/ f.next - at = Gt06Length(Stream, at)
               \/ \A x \in FrameEnds : x <= at \/ x >= f.next
         \/ /\ f.status = "none" /\ f.next = at
            /\ at \in FrameEnds /\ \A x \in FrameEnds : x <= at
<1> DEFINE b == Stream
           N == Len(b)
           f == gt06_decode(b, at)
           length == Gt06Length(b, at)
<1>1. /\ b \in Seq(Byte) /\ b[1] = 120 /\ FrameEnds # {}
      /\ \A x \in FrameEnds : x \in Nat /\ x <= N /\ x >= 10 /\ b[x - 1] = 13 /\ b[x] = 10
      /\ \A x \in FrameEnds : x > at => x >= at + 10
  BY FrameEndsAre
<1>2. N \in Nat /\ at \in Nat /\ at <= N
  BY <1>1, LenProperties
<1>3. ASSUME NEW i \in Nat, i + 2 <= N, Slice(b, i, i + 2) = <<13, 10>> PROVE i + 2 \in FrameEnds
  <2>1. i \in 0 .. N - 2
    BY <1>2, <1>3
  <2> QED BY <1>3, <2>1 DEF NoStrayStop
<1>4. ASSUME \A x \in FrameEnds : x <= at PROVE at \in FrameEnds
  BY <1>1, <1>4
<1> HIDE DEF b, N
<1>5. CASE N - at < 5
  <2>1. f = None(at)
    BY <1>5 DEF gt06_decode, N
  <2>2. ASSUME NEW x \in FrameEnds PROVE x <= at
    <3>1. x \in Nat /\ x <= N /\ (x > at => x >= at + 10)
      BY <1>1
    <3> QED BY <1>2, <1>5, <3>1
  <2> QED BY <1>4, <2>1, <2>2 DEF None, b
<1> DEFINE Pointed == N - at >= length /\ Slice(b, at + length - 2, at + length) = <<13, 10>>
<1>6. CASE ~(N - at < 5) /\ Pointed
  <2>1. length \in Nat /\ length >= 5
    BY <1>1, <1>2, <1>6, Gt06LengthType DEF N
  <2> HIDE DEF length
  <2>2. at + length - 2 \in Nat /\ (at + length - 2) + 2 = at + length /\ at + length <= N
    BY <1>2, <1>6, <2>1
  <2>3. at + length \in FrameEnds
    BY <1>3, <1>6, <2>2
  <2>4. f = Took(b, at, length)
    BY <1>6 DEF gt06_decode, N, length
  <2>5. ~(length > N - at)
    BY <1>2, <2>1, <2>2
  <2>6. f.status = "frame" /\ f.at = at /\ f.next = at + length
    BY <2>4, <2>5 DEF Took, N
  <2>7. f.next - at = length
    BY <1>2, <2>1, <2>6
  <2> QED BY <2>3, <2>6, <2>7 DEF b, length
<1>7. \A i \in Nat : i \in Stops(b, at) <=>
        at <= i /\ i + 2 <= N /\ i > 0 /\ b[i + 1] = 13 /\ b[i + 2] = 10
  <2> SUFFICES ASSUME NEW i \in Nat
               PROVE  i \in Stops(b, at) <=>
                        at <= i /\ i + 2 <= N /\ i > 0 /\ b[i + 1] = 13 /\ b[i + 2] = 10
    OBVIOUS
  <2>1. Slice(b, i + 1, i + 2) = <<10>> <=> i + 2 <= N /\ b[i + 2] = 10
    <3>1. b \in Seq(Byte)
      BY <1>1
    <3> QED BY <3>1, StopIs DEF N
  <2>2. i \in at .. N - 1 <=> at <= i /\ i < N
    BY <1>2
  <2>3. i + 2 <= N => i < N
    BY <1>2
  <2> QED BY <2>1, <2>2, <2>3 DEF Stops, IndicesOf, N
<1>8. Stops(b, at) \in SUBSET Nat
  <2>1. at .. N - 1 \subseteq Nat
    BY <1>2
  <2> QED BY <2>1 DEF Stops, IndicesOf, N
<1>9. ASSUME NEW x \in FrameEnds, x > at PROVE x - 2 \in Stops(b, at)
  <2>1. /\ x \in Nat /\ x <= N /\ x >= 10 /\ b[x - 1] = 13 /\ b[x] = 10 /\ x >= at + 10
    BY <1>1, <1>9
  <2>2. x - 2 \in Nat /\ at <= x - 2 /\ (x - 2) + 2 = x /\ x - 2 > 0 /\ (x - 2) + 1 = x - 1
    BY <1>2, <2>1
  <2> QED BY <1>7, <2>1, <2>2
<1>10. CASE ~(N - at < 5) /\ ~Pointed /\ Stops(b, at) = {}
  <2>1. f = None(at)
    BY <1>10 DEF gt06_decode, N
  <2>2. \A x \in FrameEnds : x <= at
    BY <1>1, <1>2, <1>9, <1>10
  <2> QED BY <1>4, <2>1, <2>2 DEF None, b
<1>11. CASE ~(N - at < 5) /\ ~Pointed /\ Stops(b, at) # {}
  <2> DEFINE m == Min(Stops(b, at))
  <2>1. m \in Stops(b, at) /\ \A x \in Stops(b, at) : m <= x
    BY <1>8, <1>11, LeastIn
  <2> HIDE DEF m
  <2>2. m \in Nat /\ at <= m /\ m + 2 <= N /\ b[m + 1] = 13 /\ b[m + 2] = 10
    BY <1>7, <1>8, <2>1
  <2>3. Slice(b, m, m + 2) = <<13, 10>>
    BY <1>1, <2>2, StopIs DEF N
  <2>4. m + 2 \in FrameEnds
    BY <1>3, <2>2, <2>3
  <2>5. f = Took(b, at, m + 2 - at)
    BY <1>1, <1>11 DEF gt06_decode, N, m
  <2>6. ~(m + 2 - at > N - at) /\ at + (m + 2 - at) = m + 2
    BY <1>2, <2>2
  <2>7. f.status = "frame" /\ f.at = at /\ f.next = m + 2
    BY <2>5, <2>6 DEF Took, N
  <2>8. ASSUME NEW x \in FrameEnds PROVE x <= at \/ x >= f.next
    <3>1. x \in Nat
      BY <1>1
    <3>2. x > at => m <= x - 2
      BY <1>9, <2>1
    <3> QED BY <1>2, <2>2, <2>7, <3>1, <3>2
  <2> HIDE DEF f
  <2> QED BY <2>4, <2>7, <2>8 DEF f, b
<1> QED BY <1>5, <1>6, <1>10, <1>11

-----------------------------------------------------------------------------
(* GT06: what the encoders make. *)

(* The powers that the encoders divide by. *)
LEMMA Powers ==
  /\ \A m \in Nat : m <= 3 => 256 ^ m \in Nat \ {0}
  /\ \A m \in Nat : m <= 7 => 2 ^ m \in Nat \ {0}
<1>1. 256 ^ 0 = 1 /\ 256 ^ 1 = 256 /\ 256 ^ 2 = 65536 /\ 256 ^ 3 = 16777216
  OBVIOUS
<1>2. ASSUME NEW m \in Nat, m <= 3 PROVE 256 ^ m \in Nat \ {0}
  <2>1. m = 0 \/ m = 1 \/ m = 2 \/ m = 3
    BY <1>2
  <2>2. CASE m = 0
    BY <1>1, <2>2
  <2>3. CASE m = 1
    BY <1>1, <2>3
  <2>4. CASE m = 2
    BY <1>1, <2>4
  <2>5. CASE m = 3
    BY <1>1, <2>5
  <2> QED BY <2>1, <2>2, <2>3, <2>4, <2>5
<1>3. /\ 2 ^ 0 = 1 /\ 2 ^ 1 = 2 /\ 2 ^ 2 = 4 /\ 2 ^ 3 = 8
      /\ 2 ^ 4 = 16 /\ 2 ^ 5 = 32 /\ 2 ^ 6 = 64 /\ 2 ^ 7 = 128
  OBVIOUS
<1>4. ASSUME NEW m \in Nat, m <= 7 PROVE 2 ^ m \in Nat \ {0}
  <2>1. m = 0 \/ m = 1 \/ m = 2 \/ m = 3 \/ m = 4 \/ m = 5 \/ m = 6 \/ m = 7
    BY <1>4
  <2>2. CASE m = 0
    BY <1>3, <2>2
  <2>3. CASE m = 1
    BY <1>3, <2>3
  <2>4. CASE m = 2
    BY <1>3, <2>4
  <2>5. CASE m = 3
    BY <1>3, <2>5
  <2>6. CASE m = 4
    BY <1>3, <2>6
  <2>7. CASE m = 5
    BY <1>3, <2>7
  <2>8. CASE m = 6
    BY <1>3, <2>8
  <2>9. CASE m = 7
    BY <1>3, <2>9
  <2> QED BY <2>1, <2>2, <2>3, <2>4, <2>5, <2>6, <2>7, <2>8, <2>9
<1> QED BY <1>2, <1>4

LEMMA BeType ==
  ASSUME NEW v \in Nat, NEW n \in {2, 3, 4}
  PROVE  Be(v, n) \in Seq(Byte) /\ Len(Be(v, n)) = n
<1>1. ASSUME NEW i \in 1 .. n PROVE (v \div 256 ^ (n - i)) % 256 \in Byte
  <2> DEFINE m == n - i
             p == 256 ^ m
  <2>1. p \in Nat \ {0}
    <3>1. m \in Nat /\ m <= 3
      OBVIOUS
    <3> HIDE DEF m
    <3> QED BY <3>1, Powers
  <2> HIDE DEF p
  <2>2. (v \div p) % 256 \in 0 .. 255
    <3>1. v \div p \in Nat
      BY <2>1
    <3> QED BY <3>1
  <2> QED BY <2>2 DEF p, m, Byte
<1> DEFINE e(i) == (v \div 256 ^ (n - i)) % 256
<1>2. Be(v, n) = [i \in 1 .. n |-> e(i)] /\ \A i \in 1 .. n : e(i) \in Byte
  BY <1>1 DEF Be
<1> HIDE DEF e
<1> QED BY <1>2

LEMMA BcdType ==
  ASSUME NEW d \in Seq(Digit)
  PROVE  bcd(d) \in Seq(Byte) /\ Len(bcd(d)) = Len(d) \div 2
<1> DEFINE e(i) == 16 * d[2 * i - 1] + d[2 * i]
<1>1. Len(d) \in Nat /\ Len(d) \div 2 \in Nat
  <2>1. Len(d) \in Nat
    BY LenProperties
  <2> QED BY <2>1
<1>2. ASSUME NEW i \in 1 .. Len(d) \div 2 PROVE e(i) \in Byte
  <2> DEFINE x == d[2 * i - 1]
             y == d[2 * i]
  <2>1. 2 * i - 1 \in 1 .. Len(d) /\ 2 * i \in 1 .. Len(d)
    BY <1>1
  <2>2. x \in Digit /\ y \in Digit
    BY <2>1, ElementOfSeq
  <2>3. e(i) = 16 * x + y
    OBVIOUS
  <2> HIDE DEF x, y, e
  <2> QED BY <2>2, <2>3 DEF Byte, Digit
<1>3. bcd(d) = [i \in 1 .. Len(d) \div 2 |-> e(i)]
  BY DEF bcd
<1> HIDE DEF e
<1> QED BY <1>1, <1>2, <1>3

LEMMA XorBitsType ==
  ASSUME NEW a \in Byte, NEW b \in Byte
  PROVE  XorBits(a, b) \in Byte
<1> DEFINE bit(k) == ((a \div 2 ^ (8 - k)) + (b \div 2 ^ (8 - k))) % 2
           IsX(f) == f = [k \in 0 .. 8 |-> IF k = 0 THEN 0 ELSE 2 * f[k - 1] + bit(k)]
           f0 == CHOOSE f : IsX(f)
           E == [x \in Nat \X (1 .. 8) |-> 2 * x[1] + bit(x[2])]
<1>1. ASSUME NEW k \in 1 .. 8 PROVE bit(k) \in 0 .. 1
  <2> DEFINE m == 8 - k
             p == 2 ^ m
  <2>1. p \in Nat \ {0} /\ a \in Nat /\ b \in Nat
    <3>1. m \in Nat /\ m <= 7
      OBVIOUS
    <3> HIDE DEF m
    <3> QED BY <3>1, Powers, BytesAreNat
  <2> HIDE DEF p
  <2>2. a \div p \in Nat /\ b \div p \in Nat
    BY <2>1
  <2>3. ((a \div p) + (b \div p)) % 2 \in 0 .. 1
    BY <2>2
  <2> QED BY <2>3 DEF p, m
<1>2. XorBits(a, b) = f0[8]
  BY DEF XorBits
<1> HIDE DEF bit
<1>3. E \in [Nat \X (1 .. 8) -> Nat] /\ \A v \in Nat, k \in 1 .. 8 : E[<<v, k>>] = 2 * v + bit(k)
  BY <1>1
<1> HIDE DEF E
<1>4. PICK h : Iterates(h, 8, Nat, 0, E)
  BY <1>3, Iterated
<1>5. IsX(h)
  <2>1. ASSUME NEW k \in 0 .. 8 PROVE h[k] = IF k = 0 THEN 0 ELSE 2 * h[k - 1] + bit(k)
    <3>1. CASE k = 0
      BY <1>4, <3>1 DEF Iterates
    <3>2. CASE k # 0
      <4>1. k \in 1 .. 8 /\ k - 1 \in 0 .. 8
        BY <3>2
      <4>2. h[k - 1] \in Nat /\ h[k] = E[<<h[k - 1], k>>]
        BY <1>4, <4>1 DEF Iterates
      <4> QED BY <1>3, <3>2, <4>1, <4>2
    <3> QED BY <3>1, <3>2
  <2>2. h \in [0 .. 8 -> Nat]
    BY <1>4 DEF Iterates
  <2> QED BY <2>1, <2>2
<1>6. IsX(f0)
  <2> HIDE DEF IsX
  <2> QED BY <1>5
<1> HIDE DEF f0
<1>7. f0[0] = 0 /\ \A k \in 1 .. 8 : f0[k] = 2 * f0[k - 1] + bit(k)
  BY <1>6
<1>8. /\ f0[1] = 2 * f0[0] + bit(1) /\ f0[2] = 2 * f0[1] + bit(2) /\ f0[3] = 2 * f0[2] + bit(3)
      /\ f0[4] = 2 * f0[3] + bit(4) /\ f0[5] = 2 * f0[4] + bit(5) /\ f0[6] = 2 * f0[5] + bit(6)
      /\ f0[7] = 2 * f0[6] + bit(7) /\ f0[8] = 2 * f0[7] + bit(8)
  BY <1>7
<1>9. f0[1] \in 0 .. 1
  BY <1>1, <1>7, <1>8
<1>10. f0[2] \in 0 .. 3
  BY <1>1, <1>8, <1>9
<1>11. f0[3] \in 0 .. 7
  BY <1>1, <1>8, <1>10
<1>12. f0[4] \in 0 .. 15
  BY <1>1, <1>8, <1>11
<1>13. f0[5] \in 0 .. 31
  BY <1>1, <1>8, <1>12
<1>14. f0[6] \in 0 .. 63
  BY <1>1, <1>8, <1>13
<1>15. f0[7] \in 0 .. 127
  BY <1>1, <1>8, <1>14
<1>16. f0[8] \in 0 .. 255
  BY <1>1, <1>8, <1>15
<1> QED BY <1>2, <1>16 DEF Byte

(* A 16-bit word. *)
Word(x) == x \in Nat /\ x < WORDS

LEMMA WordsIs == WORDS \in Nat /\ \A x \in Int : x < WORDS <=> x <= 65535
BY DEF WORDS

LEMMA XorType ==
  /\ \A a \in Byte, b \in Byte : Xor8(a, b) \in Byte
  /\ \A a, b : Word(a) /\ Word(b) => Word(Xor16(a, b))
<1> DEFINE e(i) == XorBits((i - 1) \div 256, (i - 1) % 256)
           s == [i \in 1 .. WORDS |-> e(i)]
<1>1. ASSUME NEW i \in 1 .. WORDS PROVE e(i) \in Byte
  <2> DEFINE x == (i - 1) \div 256
             y == (i - 1) % 256
  <2>1. i \in Nat /\ i - 1 <= 65535 /\ i >= 1
    BY WordsIs
  <2>2. x \in Byte /\ y \in Byte
    BY <2>1 DEF Byte
  <2> HIDE DEF x, y
  <2>3. XorBits(x, y) \in Byte
    BY <2>2, XorBitsType
  <2> QED BY <2>3 DEF x, y
<1>2. XOR = <<>> \o s
  BY DEF XOR
<1> HIDE DEF e
<1>3. s \in Seq(Byte) /\ Len(s) = WORDS
  BY <1>1, WordsIs
<1>4. \A i \in 1 .. WORDS : XOR[i] \in Byte
  <2> HIDE DEF s
  <2>1. <<>> \o s = s
    BY <1>3
  <2> QED BY <1>2, <1>3, <2>1, ElementOfSeq
<1>5. ASSUME NEW a \in Byte, NEW b \in Byte PROVE Xor8(a, b) \in Byte
  <2>1. a \in Int /\ 0 <= a /\ a <= 255 /\ b \in Int /\ 0 <= b /\ b <= 255
    BY DEF Byte
  <2>2. 256 * a + b + 1 \in Nat /\ 1 <= 256 * a + b + 1 /\ 256 * a + b <= 65535
    BY <2>1
  <2>3. 256 * a + b + 1 \in 1 .. WORDS
    BY <2>1, <2>2, WordsIs
  <2> QED BY <1>4, <2>3 DEF Xor8
<1>6. ASSUME NEW a, NEW b, Word(a), Word(b) PROVE Word(Xor16(a, b))
  <2> DEFINE x == Xor8(a \div 256, b \div 256)
             y == Xor8(a % 256, b % 256)
  <2>1. a \in Nat /\ a <= 65535 /\ b \in Nat /\ b <= 65535
    BY <1>6, WordsIs DEF Word
  <2>2. a \div 256 \in Byte /\ b \div 256 \in Byte /\ a % 256 \in Byte /\ b % 256 \in Byte
    BY <2>1 DEF Byte
  <2>3. x \in Byte /\ y \in Byte
    BY <1>5, <2>2
  <2>4. Xor16(a, b) = 256 * x + y
    BY DEF Xor16
  <2> HIDE DEF x, y
  <2>5. x \in Int /\ 0 <= x /\ x <= 255 /\ y \in Int /\ 0 <= y /\ y <= 255
    BY <2>3 DEF Byte
  <2>6. 256 * x + y \in Nat /\ 256 * x + y <= 65535
    BY <2>5
  <2> QED BY <2>4, <2>6, WordsIs DEF Word
<1> QED BY <1>5, <1>6

LEMMA TableType == \A i \in 1 .. 256 : Word(TABLE[i])
<1> DEFINE W == {x \in Nat : Word(x)}
           Step(c) == IF c % 2 = 1 THEN Xor16(c \div 2, 33800) ELSE c \div 2
           E == [x \in W \X (1 .. 8) |-> Step(x[1])]
           IsCrc(f, i) == f = [k \in 0 .. 8 |-> IF k = 0 THEN i ELSE Step(f[k - 1])]
           Crc(i) == (CHOOSE f : IsCrc(f, i))[8]
           s == [i \in 1 .. 256 |-> Crc(i - 1)]
<1>1. ASSUME NEW x \in W PROVE Step(x) \in W
  <2>1. x \in Nat /\ x <= 65535
    BY WordsIs DEF Word
  <2>2. x \div 2 \in Nat /\ x \div 2 <= 65535
    BY <2>1
  <2>3. Word(x \div 2) /\ Word(33800)
    BY <2>2, WordsIs DEF Word
  <2>4. Word(Xor16(x \div 2, 33800))
    BY <2>3, XorType
  <2>5. \A y : Word(y) => y \in W
    BY DEF Word
  <2> QED BY <2>3, <2>4, <2>5
<1>2. \A x \in W : Word(x)
  OBVIOUS
<1>3. \A i \in 0 .. 255 : i \in W
  BY WordsIs DEF Word
<1>4. TABLE = <<>> \o s
  BY DEF TABLE
<1> HIDE DEF W, Step
<1>5. E \in [W \X (1 .. 8) -> W]
  BY <1>1
<1>6. \A x \in W, k \in 1 .. 8 : E[<<x, k>>] = Step(x)
  OBVIOUS
<1> HIDE DEF E
<1>7. ASSUME NEW i \in 0 .. 255 PROVE Word(Crc(i))
  <2> DEFINE f0 == CHOOSE f : IsCrc(f, i)
  <2>1. PICK h : Iterates(h, 8, W, i, E)
    <3>1. 8 \in Nat /\ i \in W
      BY <1>3
    <3> QED BY <1>5, <3>1, Iterated
  <2>2. IsCrc(h, i)
    <3>1. ASSUME NEW k \in 0 .. 8 PROVE h[k] = IF k = 0 THEN i ELSE Step(h[k - 1])
      <4>1. CASE k = 0
        BY <2>1, <4>1 DEF Iterates
      <4>2. CASE k # 0
        <5>1. k \in 1 .. 8 /\ k - 1 \in 0 .. 8
          BY <4>2
        <5>2. h[k - 1] \in W /\ h[k] = E[<<h[k - 1], k>>]
          BY <2>1, <5>1 DEF Iterates
        <5>3. h[k] = Step(h[k - 1])
          BY <1>6, <5>1, <5>2
        <5> QED BY <4>2, <5>3
      <4> QED BY <4>1, <4>2
    <3>2. h \in [0 .. 8 -> W]
      BY <2>1 DEF Iterates
    <3> QED BY <3>1, <3>2
  <2>3. IsCrc(f0, i)
    <3> HIDE DEF IsCrc
    <3> QED BY <2>2
  <2> HIDE DEF f0
  <2> DEFINE T == {k \in 0 .. 8 : f0[k] \in W}
  <2>4. 0 \in T
    BY <1>3, <2>3
  <2>5. ASSUME NEW k \in 1 .. 8, k - 1 \in T PROVE k \in T
    <3>1. k \in 0 .. 8 /\ k # 0 /\ f0[k - 1] \in W
      BY <2>5
    <3>2. \A j \in 0 .. 8 : f0[j] = IF j = 0 THEN i ELSE Step(f0[j - 1])
      BY <2>3
    <3>3. f0[k] = Step(f0[k - 1])
      BY <3>1, <3>2
    <3> QED BY <1>1, <3>1, <3>3
  <2>6. \A k \in 0 .. 8 : k \in T
    <3>1. 8 \in Nat
      OBVIOUS
    <3> HIDE DEF T
    <3> QED BY <2>4, <2>5, <3>1, InductTo
  <2>7. f0[8] \in W
    BY <2>6
  <2> QED BY <1>2, <2>7 DEF f0
<1> HIDE DEF Crc
<1>8. s \in Seq({Crc(j) : j \in 0 .. 255}) /\ Len(s) = 256
  <2>1. \A i \in 1 .. 256 : i - 1 \in 0 .. 255
    OBVIOUS
  <2> QED BY <2>1
<1>9. ASSUME NEW i \in 1 .. 256 PROVE Word(TABLE[i])
  <2>1. s[i] = Crc(i - 1) /\ i - 1 \in 0 .. 255
    OBVIOUS
  <2>2. Word(Crc(i - 1))
    BY <1>7, <2>1
  <2> HIDE DEF s
  <2>3. <<>> \o s = s
    BY <1>8
  <2> QED BY <1>4, <2>1, <2>2, <2>3
<1> QED BY <1>9

LEMMA CrcType == ASSUME NEW d \in Seq(Byte) PROVE Word(crc_itu(d))
<1> DEFINE W == {x \in Nat : Word(x)}
           n == Len(d)
           most == 65535
           Step(fcs, b) == Xor16(fcs \div 256, TABLE[Xor8(fcs % 256, b) + 1])
           E == [x \in W \X (1 .. n) |-> Step(x[1], d[x[2]])]
           IsCrc(f) == f = [k \in 0 .. n |-> IF k = 0 THEN most ELSE Step(f[k - 1], d[k])]
           f0 == CHOOSE f : IsCrc(f)
<1>1. n \in Nat /\ \A k \in 1 .. n : d[k] \in Byte
  BY LenProperties, ElementOfSeq
<1>2. \A x \in W : Word(x)
  OBVIOUS
<1>3. \A x : Word(x) => x \in W
  BY DEF Word
<1>4. crc_itu(d) = 65535 - f0[n]
  BY DEF crc_itu, Through
<1>5. ASSUME NEW x \in W, NEW b \in Byte PROVE Step(x, b) \in W
  <2> DEFINE y == Xor8(x % 256, b)
             z == TABLE[y + 1]
  <2>1. x \in Nat /\ x <= 65535
    BY <1>2, WordsIs DEF Word
  <2>2. x % 256 \in Byte /\ x \div 256 \in Nat /\ x \div 256 <= 65535
    BY <2>1 DEF Byte
  <2>3. y \in Byte
    BY <2>2, XorType
  <2>4. y + 1 \in 1 .. 256
    <3> HIDE DEF y
    <3> QED BY <2>3 DEF Byte
  <2>5. Word(z)
    <3> HIDE DEF y
    <3> QED BY <2>4, TableType
  <2>6. Word(x \div 256)
    BY <2>2, WordsIs DEF Word
  <2> HIDE DEF z
  <2>7. Word(Xor16(x \div 256, z))
    BY <2>5, <2>6, XorType
  <2> QED BY <1>3, <2>7 DEF z
<1>6. E \in [W \X (1 .. n) -> W]
  <2> HIDE DEF W, n, Step
  <2> QED BY <1>1, <1>5
<1>7. \A x \in W, k \in 1 .. n : E[<<x, k>>] = Step(x, d[k])
  OBVIOUS
<1>8. most \in W
  BY WordsIs DEF Word
<1> HIDE DEF W, E, n, Step, most
<1>9. PICK h : Iterates(h, n, W, most, E)
  BY <1>1, <1>6, <1>8, Iterated
<1>10. IsCrc(h)
  <2>1. ASSUME NEW k \in 0 .. n PROVE h[k] = IF k = 0 THEN most ELSE Step(h[k - 1], d[k])
    <3>1. CASE k = 0
      BY <1>9, <3>1 DEF Iterates
    <3>2. CASE k # 0
      <4>1. k \in 1 .. n /\ k - 1 \in 0 .. n
        BY <1>1, <3>2
      <4>2. h[k - 1] \in W /\ h[k] = E[<<h[k - 1], k>>]
        BY <1>9, <4>1 DEF Iterates
      <4> QED BY <1>7, <3>2, <4>1, <4>2
    <3> QED BY <3>1, <3>2
  <2>2. h \in [0 .. n -> W]
    BY <1>9 DEF Iterates
  <2> QED BY <2>1, <2>2
<1>11. IsCrc(f0)
  <2> HIDE DEF IsCrc
  <2> QED BY <1>10
<1> HIDE DEF f0
<1> DEFINE T == {k \in 0 .. n : f0[k] \in W}
<1>12. 0 \in T
  BY <1>1, <1>8, <1>11
<1>13. ASSUME NEW k \in 1 .. n, k - 1 \in T PROVE k \in T
  <2>1. k \in 0 .. n /\ k # 0 /\ f0[k - 1] \in W /\ d[k] \in Byte
    BY <1>1, <1>13
  <2>2. \A j \in 0 .. n : f0[j] = IF j = 0 THEN most ELSE Step(f0[j - 1], d[j])
    BY <1>11
  <2>3. f0[k] = Step(f0[k - 1], d[k])
    BY <2>1, <2>2
  <2> QED BY <1>5, <2>1, <2>3
<1>14. \A k \in 0 .. n : k \in T
  <2> HIDE DEF T
  <2> QED BY <1>1, <1>12, <1>13, InductTo
<1>15. Word(f0[n])
  <2>1. n \in T
    <3> HIDE DEF T
    <3> QED BY <1>1, <1>14
  <2> QED BY <1>2, <2>1
<1> DEFINE v == f0[n]
<1>16. v \in Nat /\ v <= 65535
  BY <1>15, WordsIs DEF Word
<1> HIDE DEF v
<1>17. 65535 - v \in Nat /\ 65535 - v <= 65535
  BY <1>16
<1>18. Word(65535 - v)
  BY <1>17, WordsIs DEF Word
<1> QED BY <1>4, <1>18 DEF v

IsBytes(s) == s \in Seq(Byte)

(* u is s and then t. *)
IsJoin(u, s, t) ==
  /\ IsBytes(u) /\ Len(u) = Len(s) + Len(t)
  /\ \A i \in 1 .. Len(s) : u[i] = s[i]
  /\ \A i \in 1 .. Len(t) : u[Len(s) + i] = t[i]

LEMMA BytesJoined ==
  ASSUME NEW s, NEW t, IsBytes(s), IsBytes(t)
  PROVE  IsJoin(s \o t, s, t)
BY DEF IsBytes, IsJoin

(* A frame is as long as its content and ten bytes more. *)
Gt06Around(f, content, length) ==
  /\ IsBytes(f) /\ Len(f) = Len(content) + 10 /\ f[1] = 120 /\ f[3] = length
  /\ f[Len(f) - 1] = 13 /\ f[Len(f)] = 10

LEMMA Gt06FrameIs ==
  ASSUME NEW protocol \in Byte, NEW content, IsBytes(content), NEW serial \in Nat,
         NEW length \in Byte, NEW error, Word(error)
  PROVE  Gt06Around(gt06_frame(protocol, content, serial, length, error), content, length)
<1> DEFINE sent == Be(serial, 2)
           covered == <<length, protocol>> \o content \o sent
           crc == Xor16(crc_itu(covered), error)
           sum == Be(crc, 2)
<1>1. IsBytes(sent) /\ Len(sent) = 2
  BY BeType DEF IsBytes
<1> HIDE DEF sent
<1> DEFINE head == <<length, protocol>>
           a == head \o content
<1>2. IsBytes(head) /\ Len(head) = 2 /\ head[1] = length
  BY DEF IsBytes
<1>3. gt06_frame(protocol, content, serial, length, error) = START \o covered \o sum \o STOP
  BY DEF gt06_frame, sent
<1>4. covered = a \o sent
  OBVIOUS
<1> HIDE DEF head, covered
<1>5. IsBytes(a) /\ Len(a) = 2 + Len(content) /\ a[1] = length
  <2>1. IsJoin(a, head, content)
    BY <1>2, BytesJoined
  <2>2. 1 \in 1 .. Len(head)
    BY <1>2
  <2> HIDE DEF a
  <2> QED BY <1>2, <2>1, <2>2 DEF IsJoin
<1> HIDE DEF a
<1>6. IsBytes(covered) /\ Len(covered) = Len(a) + Len(sent) /\ covered[1] = length
  <2>1. IsJoin(covered, a, sent)
    BY <1>1, <1>4, <1>5, BytesJoined
  <2>2. Len(content) \in Nat
    BY LenProperties DEF IsBytes
  <2>3. 1 \in 1 .. Len(a)
    BY <1>5, <2>2
  <2> QED BY <1>5, <2>1, <2>3 DEF IsJoin
<1>7. crc \in Nat
  BY <1>6, CrcType, XorType DEF Word, IsBytes
<1> HIDE DEF crc
<1>8. IsBytes(sum) /\ Len(sum) = 2
  BY <1>7, BeType DEF IsBytes
<1> HIDE DEF sum
<1>9. IsBytes(START) /\ Len(START) = 2 /\ START[1] = 120
  BY DEF START, Byte, IsBytes
<1>10. IsBytes(STOP) /\ Len(STOP) = 2 /\ STOP[1] = 13 /\ STOP[2] = 10
  BY DEF STOP, Byte, IsBytes
<1> DEFINE n == Len(content)
           b == START \o covered
           c == b \o sum
           f == c \o STOP
<1>11. n \in Nat /\ Len(covered) = n + 4
  BY <1>1, <1>5, <1>6, LenProperties DEF IsBytes
<1>12. gt06_frame(protocol, content, serial, length, error) = f
  BY <1>3
<1> HIDE DEF n
<1>13. IsJoin(b, START, covered)
  BY <1>6, <1>9, BytesJoined
<1> HIDE DEF b
<1>14. IsBytes(b) /\ Len(b) = n + 6 /\ b[1] = 120 /\ b[3] = length
  <2>1. 1 \in 1 .. Len(START) /\ 1 \in 1 .. Len(covered) /\ Len(START) + 1 = 3
    BY <1>9, <1>11
  <2>2. b[Len(START) + 1] = covered[1]
    BY <1>13, <2>1 DEF IsJoin
  <2> QED BY <1>6, <1>9, <1>11, <1>13, <2>1, <2>2 DEF IsJoin
<1>15. IsJoin(c, b, sum)
  BY <1>8, <1>14, BytesJoined
<1> HIDE DEF c
<1>16. IsBytes(c) /\ Len(c) = n + 8 /\ c[1] = 120 /\ c[3] = length
  <2>1. 1 \in 1 .. Len(b) /\ 3 \in 1 .. Len(b)
    BY <1>11, <1>14
  <2> QED BY <1>8, <1>11, <1>14, <1>15, <2>1 DEF IsJoin
<1>17. IsJoin(f, c, STOP)
  BY <1>10, <1>16, BytesJoined
<1> HIDE DEF f
<1>18. IsBytes(f) /\ Len(f) = n + 10 /\ f[1] = 120 /\ f[3] = length /\ f[n + 9] = 13 /\ f[n + 10] = 10
  <2>1. 1 \in 1 .. Len(c) /\ 3 \in 1 .. Len(c) /\ Len(c) + 1 = n + 9 /\ Len(c) + 2 = n + 10
    BY <1>11, <1>16
  <2>2. 1 \in 1 .. Len(STOP) /\ 2 \in 1 .. Len(STOP)
    BY <1>10
  <2>3. f[Len(c) + 1] = 13 /\ f[Len(c) + 2] = 10
    BY <1>10, <1>17, <2>2 DEF IsJoin
  <2> QED BY <1>10, <1>11, <1>16, <1>17, <2>1, <2>3 DEF IsJoin
<1>19. n + 10 - 1 = n + 9
  BY <1>11
<1> QED BY <1>12, <1>18, <1>19 DEF n, Gt06Around

LEMMA BetweenIs ==
  ASSUME NEW lo \in Int, NEW hi \in Int, NEW x \in between(lo, hi)
  PROVE  x \in Int /\ lo <= x /\ x <= hi
BY DEF between

LEMMA LoginIs ==
  ASSUME NEW f, f.imei \in Seq(Digit), Len(f.imei) = 15
  PROVE  IsBytes(login_content(f)) /\ Len(login_content(f)) <= 32
<1> DEFINE i == f.imei
           z == <<0>>
           d == z \o i
<1>1. z \in Seq(Digit) /\ Len(z) = 1
  BY DEF Digit
<1>4. login_content(f) = bcd(d)
  BY DEF login_content
<1> HIDE DEF i, z
<1>2. d \in Seq(Digit) /\ Len(d) = 16
  <2>1. i \in Seq(Digit) /\ Len(i) = 15
    BY DEF i
  <2>2. d \in Seq(Digit)
    BY <1>1, <2>1, ConcatProperties
  <2>3. Len(d) = Len(z) + Len(i)
    BY <1>1, <2>1, ConcatProperties
  <2> QED BY <1>1, <2>1, <2>2, <2>3
<1> HIDE DEF d
<1>3. bcd(d) \in Seq(Byte) /\ Len(bcd(d)) = 8
  <2>1. bcd(d) \in Seq(Byte) /\ Len(bcd(d)) = Len(d) \div 2
    BY <1>2, BcdType
  <2> QED BY <1>2, <2>1
<1>5. IsBytes(bcd(d)) /\ Len(bcd(d)) <= 32
  <2> DEFINE e == bcd(d)
  <2>1. e \in Seq(Byte) /\ Len(e) = 8
    BY <1>3
  <2> HIDE DEF e
  <2> QED BY <2>1 DEF IsBytes, e
<1> QED BY <1>4, <1>5

LEMMA StatusIs ==
  ASSUME NEW f \in status_fields
  PROVE  IsBytes(status_content(f)) /\ Len(status_content(f)) <= 32
<1>1. f.voltage \in Byte /\ f.gsm \in Byte /\ f.alarm \in Byte /\ f.language \in Byte
  BY DEF status_fields, Byte
<1>2. f.info \in Byte
  <2>1. f.info \in {64 * a + 8 * b + c : a \in 0 .. 3, b \in 0 .. 4, c \in 0 .. 7}
    BY DEF status_fields
  <2>2. PICK a \in 0 .. 3, b \in 0 .. 4, c \in 0 .. 7 : f.info = 64 * a + 8 * b + c
    BY <2>1
  <2> QED BY <2>2 DEF Byte
<1> QED BY <1>1, <1>2 DEF status_content, IsBytes

LEMMA LocationFields ==
  ASSUME NEW f \in gt06_location_fields
  PROVE  /\ f.time \in Clocks
         /\ f.satellites \in between(0, 15) /\ f.lat \in between(0, 162000000)
         /\ f.lon \in between(0, 324000000) /\ f.speed \in Byte /\ f.course \in between(0, 360)
         /\ f.differential \in Bit /\ f.positioned \in Bit /\ f.west \in Bit /\ f.north \in Bit
         /\ f.mcc \in between(0, 999) /\ f.mnc \in Byte /\ f.lac \in between(1, 65534)
         /\ f.cell \in between(0, 16777215)
BY DEF gt06_location_fields

LEMMA LocationIs ==
  ASSUME NEW f \in gt06_location_fields
  PROVE  IsBytes(gt06_location_content(f)) /\ Len(gt06_location_content(f)) <= 32
<1> DEFINE flags == 8192 * f.differential + 4096 * f.positioned + 2048 * f.west + 1024 * f.north + f.course
           e(i) == 10 * f.time[2 * i - 1] + f.time[2 * i]
           t == [i \in 1 .. 6 |-> e(i)]
           sat == <<192 + f.satellites>>
           lat == Be(f.lat, 4)
           lon == Be(f.lon, 4)
           speed == <<f.speed>>
           course == Be(flags, 2)
           mcc == Be(f.mcc, 2)
           mnc == <<f.mnc>>
           lac == Be(f.lac, 2)
           cell == Be(f.cell, 3)
<1>1. f.lat \in Nat /\ f.lon \in Nat /\ f.mcc \in Nat /\ f.lac \in Nat /\ f.cell \in Nat
  <2>1. f.lat \in between(0, 162000000) /\ f.lon \in between(0, 324000000) /\ f.mcc \in between(0, 999)
        /\ f.lac \in between(1, 65534) /\ f.cell \in between(0, 16777215)
    BY LocationFields
  <2>2. \A lo \in Nat, hi \in Nat : between(lo, hi) \subseteq Nat
    BY DEF between
  <2> QED BY <2>1, <2>2
<1>2. flags \in Nat
  <2>1. f.differential \in Bit /\ f.positioned \in Bit /\ f.west \in Bit /\ f.north \in Bit
        /\ f.course \in between(0, 360)
    BY LocationFields
  <2>2. f.course \in Nat
    BY <2>1, BetweenIs
  <2>3. Bit \subseteq Nat
    BY DEF Bit
  <2>4. f.differential \in Nat /\ f.positioned \in Nat /\ f.west \in Nat /\ f.north \in Nat /\ f.course \in Nat
    BY <2>1, <2>2, <2>3, BetweenIs
  <2>5. \A a, b, c, d, h \in Nat : 8192 * a + 4096 * b + 2048 * c + 1024 * d + h \in Nat
    OBVIOUS
  <2> QED BY <2>4, <2>5
<1>3. \A i \in 1 .. 6 : e(i) \in Byte
  <2>1. f.time \in [1 .. 12 -> Digit]
    BY LocationFields DEF Clocks
  <2> SUFFICES ASSUME NEW i \in 1 .. 6 PROVE e(i) \in Byte
    OBVIOUS
  <2>2. 2 * i - 1 \in 1 .. 12 /\ 2 * i \in 1 .. 12
    OBVIOUS
  <2>3. f.time[2 * i - 1] \in Digit /\ f.time[2 * i] \in Digit
    BY <2>1, <2>2
  <2> QED BY <2>3 DEF Byte, Digit
<1>4. gt06_location_content(f) =
        t \o sat \o lat \o lon \o speed \o course \o mcc \o mnc \o lac \o cell
  BY DEF gt06_location_content
<1> HIDE DEF e, flags
<1>5. IsBytes(t) /\ Len(t) = 6
  BY <1>3 DEF IsBytes
<1>6. IsBytes(sat) /\ Len(sat) = 1
  <2>1. f.satellites \in Int /\ 0 <= f.satellites /\ f.satellites <= 15
    BY LocationFields, BetweenIs
  <2>2. 192 + f.satellites \in Byte
    BY <2>1 DEF Byte
  <2> QED BY <2>2 DEF IsBytes
<1>7. IsBytes(speed) /\ Len(speed) = 1 /\ IsBytes(mnc) /\ Len(mnc) = 1
  BY LocationFields DEF IsBytes
<1>8. IsBytes(lat) /\ Len(lat) = 4 /\ IsBytes(lon) /\ Len(lon) = 4
  BY <1>1, BeType DEF IsBytes
<1>9. IsBytes(mcc) /\ Len(mcc) = 2 /\ IsBytes(lac) /\ Len(lac) = 2 /\ IsBytes(cell) /\ Len(cell) = 3
  BY <1>1, BeType DEF IsBytes
<1>10. IsBytes(course) /\ Len(course) = 2
  BY <1>2, BeType DEF IsBytes
<1> HIDE DEF t, sat, lat, lon, speed, course, mcc, mnc, lac, cell
<1> DEFINE s1 == t \o sat
           s2 == s1 \o lat
           s3 == s2 \o lon
           s4 == s3 \o speed
           s5 == s4 \o course
           s6 == s5 \o mcc
           s7 == s6 \o mnc
           s8 == s7 \o lac
           s9 == s8 \o cell
<1>11. gt06_location_content(f) = s9
  BY <1>4
<1>12. IsBytes(s1) /\ Len(s1) = 7
  <2>1. IsJoin(s1, t, sat)
    BY <1>5, <1>6, BytesJoined
  <2> HIDE DEF s1
  <2> QED BY <1>5, <1>6, <2>1 DEF IsJoin
<1> HIDE DEF s1
<1>13. IsBytes(s2) /\ Len(s2) = 11
  <2>1. IsJoin(s2, s1, lat)
    BY <1>12, <1>8, BytesJoined
  <2> HIDE DEF s2
  <2> QED BY <1>12, <1>8, <2>1 DEF IsJoin
<1> HIDE DEF s2
<1>14. IsBytes(s3) /\ Len(s3) = 15
  <2>1. IsJoin(s3, s2, lon)
    BY <1>13, <1>8, BytesJoined
  <2> HIDE DEF s3
  <2> QED BY <1>13, <1>8, <2>1 DEF IsJoin
<1> HIDE DEF s3
<1>15. IsBytes(s4) /\ Len(s4) = 16
  <2>1. IsJoin(s4, s3, speed)
    BY <1>14, <1>7, BytesJoined
  <2> HIDE DEF s4
  <2> QED BY <1>14, <1>7, <2>1 DEF IsJoin
<1> HIDE DEF s4
<1>16. IsBytes(s5) /\ Len(s5) = 18
  <2>1. IsJoin(s5, s4, course)
    BY <1>15, <1>10, BytesJoined
  <2> HIDE DEF s5
  <2> QED BY <1>15, <1>10, <2>1 DEF IsJoin
<1> HIDE DEF s5
<1>17. IsBytes(s6) /\ Len(s6) = 20
  <2>1. IsJoin(s6, s5, mcc)
    BY <1>16, <1>9, BytesJoined
  <2> HIDE DEF s6
  <2> QED BY <1>16, <1>9, <2>1 DEF IsJoin
<1> HIDE DEF s6
<1>18. IsBytes(s7) /\ Len(s7) = 21
  <2>1. IsJoin(s7, s6, mnc)
    BY <1>17, <1>7, BytesJoined
  <2> HIDE DEF s7
  <2> QED BY <1>17, <1>7, <2>1 DEF IsJoin
<1> HIDE DEF s7
<1>19. IsBytes(s8) /\ Len(s8) = 23
  <2>1. IsJoin(s8, s7, lac)
    BY <1>18, <1>9, BytesJoined
  <2> HIDE DEF s8
  <2> QED BY <1>18, <1>9, <2>1 DEF IsJoin
<1> HIDE DEF s8
<1>20. IsBytes(s9) /\ Len(s9) = 26
  <2>1. IsJoin(s9, s8, cell)
    BY <1>19, <1>9, BytesJoined
  <2> HIDE DEF s9
  <2> QED BY <1>19, <1>9, <2>1 DEF IsJoin
<1> HIDE DEF s9
<1> QED BY <1>11, <1>20

(* What _fill may draw of a type and its fields, or the session's own.     *)
Gt06Drawn(c) ==
  \/ c = Session(conn)
  \/ /\ c.name \in DrawnTypes("gt06") /\ c.fields \in DrawnFields(conn, c.name)
     /\ c.name = "unknown" => c.type \in UnknownNumbers("gt06")

LEMMA Gt06ContentIs ==
  ASSUME conn.protocol = "gt06", IsConnection(conn), NEW c, Gt06Drawn(c)
  PROVE  LET typed == Gt06Types(c) IN
         typed[1] \in Byte /\ IsBytes(typed[2]) /\ Len(typed[2]) <= 32
<1>1. CASE c = Session(conn)
  <2>1. c.name = "login" /\ c.fields.imei = conn.device
    BY <1>1 DEF Session, login_fields
  <2>2. conn.device \in Seq(Digit) /\ Len(conn.device) = 15
    BY DEF IsConnection
  <2>3. Gt06Types(c) = <<1, login_content(c.fields)>>
    BY <2>1 DEF Gt06Types
  <2>4. IsBytes(login_content(c.fields)) /\ Len(login_content(c.fields)) <= 32
    BY <2>1, <2>2, LoginIs
  <2>5. 1 \in Byte
    BY DEF Byte
  <2> DEFINE t == login_content(c.fields)
  <2> HIDE DEF t
  <2>6. Gt06Types(c)[1] = 1 /\ Gt06Types(c)[2] = t
    BY <2>3 DEF t
  <2> QED BY <2>4, <2>5, <2>6 DEF t
<1>2. CASE c.name = "location" /\ c # Session(conn)
  <2>1. c.fields \in gt06_location_fields
    BY <1>2 DEF Gt06Drawn, DrawnFields
  <2>2. Gt06Types(c) = <<18, gt06_location_content(c.fields)>>
    BY <1>2 DEF Gt06Types
  <2>3. IsBytes(gt06_location_content(c.fields)) /\ Len(gt06_location_content(c.fields)) <= 32
    BY <2>1, LocationIs
  <2>4. 18 \in Byte
    BY DEF Byte
  <2> DEFINE t == gt06_location_content(c.fields)
  <2> HIDE DEF t
  <2>5. Gt06Types(c)[1] = 18 /\ Gt06Types(c)[2] = t
    BY <2>2 DEF t
  <2> QED BY <2>3, <2>4, <2>5 DEF t
<1>3. CASE c.name = "status" /\ c # Session(conn)
  <2>1. c.fields \in status_fields
    BY <1>3 DEF Gt06Drawn, DrawnFields
  <2>2. Gt06Types(c) = <<19, status_content(c.fields)>>
    BY <1>3 DEF Gt06Types
  <2>3. IsBytes(status_content(c.fields)) /\ Len(status_content(c.fields)) <= 32
    BY <2>1, StatusIs
  <2>4. 19 \in Byte
    BY DEF Byte
  <2> DEFINE t == status_content(c.fields)
  <2> HIDE DEF t
  <2>5. Gt06Types(c)[1] = 19 /\ Gt06Types(c)[2] = t
    BY <2>2 DEF t
  <2> QED BY <2>3, <2>4, <2>5 DEF t
<1>4. CASE c.name = "unknown" /\ c # Session(conn)
  <2>1. c.fields \in [content : UnknownBytes] /\ c.type \in GT06_UNKNOWN
    BY <1>4 DEF Gt06Drawn, DrawnFields, UnknownNumbers
  <2>2. c.fields.content \in Seq(Byte) /\ Len(c.fields.content) <= 32
    BY <2>1 DEF UnknownBytes
  <2>3. Gt06Types(c) = <<c.type, c.fields.content>>
    BY <1>4 DEF Gt06Types
  <2>4. c.type \in Byte
    BY <2>1 DEF GT06_UNKNOWN, Byte
  <2> QED BY <2>2, <2>3, <2>4 DEF IsBytes
<1> QED BY <1>1, <1>2, <1>3, <1>4 DEF Gt06Drawn, DrawnTypes

(* A segment of a GT06 connection. A frame that was not cut is as long as  *)
(* its length field says, unless that is its fault.                        *)
Gt06Is(s) ==
  /\ s.data \in Seq(Byte)
  /\ s.rec.kind = "frame" /\ s.rec.fault # "truncated" =>
       LET n == Len(s.data) IN
       /\ n >= 10 /\ s.data[1] = 120 /\ s.data[n - 1] = 13 /\ s.data[n] = 10
       /\ s.rec.fault # "length_disagreement" => s.data[3] + 5 = n

LEMMA Gt06WholeIs ==
  ASSUME conn.protocol = "gt06", IsConnection(conn), NEW c, Gt06Drawn(c), NEW counter \in Nat,
         c.fault = "length_disagreement" => c.with \in (-4 .. 4) \ {0},
         c.fault = "bad_checksum" => c.with \in between(1, 65535)
  PROVE  LET s == gt06_segment(conn, counter, c)
             n == Len(s.whole) IN
         /\ s.whole \in Seq(Byte) /\ n \in Nat /\ n >= 10 /\ s.whole[1] = 120
         /\ s.whole[n - 1] = 13 /\ s.whole[n] = 10
         /\ c.fault # "length_disagreement" => s.whole[3] + 5 = n
         /\ s.rec.kind = "frame" /\ s.rec.fault = c.fault
         /\ \A m : [s.rec EXCEPT !.frame_length = m].fault = c.fault
<1> DEFINE typed == Gt06Types(c)
           content == typed[2]
           correct == 5 + Len(content)
           length == IF c.fault = "length_disagreement" THEN correct + LengthChange(c.with, correct, 255)
                     ELSE correct
           error == IF c.fault = "bad_checksum" THEN c.with ELSE 0
           serial == counter % 65536
           f == gt06_frame(typed[1], content, serial, length, error)
<1>1. typed[1] \in Byte /\ IsBytes(content) /\ Len(content) <= 32 /\ Len(content) \in Nat
  <2>1. typed[1] \in Byte /\ IsBytes(content) /\ Len(content) <= 32
    BY Gt06ContentIs
  <2> HIDE DEF typed
  <2> QED BY <2>1, LenProperties DEF IsBytes
<1>2. LET s == gt06_segment(conn, counter, c) IN
      /\ s.whole = f /\ s.rec.kind = "frame" /\ s.rec.fault = c.fault
      /\ \A m : [s.rec EXCEPT !.frame_length = m].fault = c.fault
  <2> DEFINE lf == IF c.fault = "length_disagreement" THEN length ELSE 0
             rec == [FrameRecord(conn, START, typed[1], c.fault, c.fields) EXCEPT
                       !.counter = serial, !.check_error = error, !.length_field = lf]
  <2>1. gt06_segment(conn, counter, c) = [whole |-> f, rec |-> rec]
    BY DEF gt06_segment
  <2> HIDE DEF f, lf, serial, error, typed
  <2>2. rec.kind = "frame" /\ rec.fault = c.fault
    BY DEF FrameRecord
  <2>3. \A m : [rec EXCEPT !.frame_length = m].fault = c.fault
    BY DEF FrameRecord
  <2> HIDE DEF rec
  <2> QED BY <2>1, <2>2, <2>3
<1>3. serial \in Nat
  OBVIOUS
<1> HIDE DEF serial, content
<1>4. c.fault # "length_disagreement" => length = 5 + Len(content)
  OBVIOUS
<1>5. length \in Byte
  <2>1. correct \in Nat /\ 5 <= correct /\ correct <= 37
    BY <1>1
  <2> HIDE DEF correct
  <2>2. CASE c.fault = "length_disagreement"
    <3>1. c.with \in Int /\ -4 <= c.with /\ c.with <= 4
      BY <2>2
    <3>2. correct + LengthChange(c.with, correct, 255) \in 0 .. 255
      BY <2>1, <3>1 DEF LengthChange
    <3> QED BY <2>2, <3>2 DEF Byte
  <2>3. CASE c.fault # "length_disagreement"
    BY <2>1, <2>3 DEF Byte
  <2> QED BY <2>2, <2>3
<1> HIDE DEF length
<1>6. Word(error)
  <2>1. CASE c.fault = "bad_checksum"
    <3>1. c.with \in Int /\ 1 <= c.with /\ c.with <= 65535
      BY <2>1, BetweenIs
    <3> QED BY <2>1, <3>1, WordsIs DEF Word
  <2>2. CASE c.fault # "bad_checksum"
    BY <2>2, WordsIs DEF Word
  <2> QED BY <2>1, <2>2
<1> HIDE DEF error, typed
<1>7. Gt06Around(f, content, length)
  BY <1>1, <1>3, <1>5, <1>6, Gt06FrameIs
<1> HIDE DEF f
<1>8. Len(f) \in Nat /\ Len(f) >= 10 /\ (c.fault # "length_disagreement" => f[3] + 5 = Len(f))
  BY <1>1, <1>4, <1>7 DEF Gt06Around
<1> QED BY <1>2, <1>7, <1>8 DEF IsBytes, Gt06Around

LEMMA Gt06SegmentIs ==
  ASSUME conn.protocol = "gt06", IsConnection(conn), NEW counter \in Nat, NEW c,
         c = Session(conn) \/ IsDrawn(conn, c, Segment(conn, counter, c).whole)
  PROVE  /\ Gt06Is(Segment(conn, counter, c))
         /\ c = Session(conn) => /\ Segment(conn, counter, c).rec.kind = "frame"
                                 /\ Segment(conn, counter, c).rec.fault # "truncated"
<1> DEFINE g == Segment(conn, counter, c)
           s == gt06_segment(conn, counter, c)
<1>1. CASE c # Session(conn) /\ c.name = "garbage"
  <2>1. g = [data |-> c.data, whole |-> <<>>, rec |-> [kind |-> "garbage", alphabet |-> c.alphabet]]
    BY <1>1 DEF Segment
  <2>2. c.data \in Seq(Byte)
    <3>1. c.data \in Seq(IF c.alphabet = "any" THEN Byte ELSE NoSync(conn.protocol))
      BY <1>1 DEF IsDrawn
    <3>2. (IF c.alphabet = "any" THEN Byte ELSE NoSync(conn.protocol)) \subseteq Byte
      BY DEF NoSync
    <3> DEFINE A == IF c.alphabet = "any" THEN Byte ELSE NoSync(conn.protocol)
               d == c.data
    <3> HIDE DEF A, d
    <3>3. d \in Seq(A) /\ A \subseteq Byte
      BY <3>1, <3>2 DEF A, d
    <3>4. d \in Seq(Byte)
      BY <3>3
    <3> QED BY <3>4 DEF d
  <2>3. g.data = c.data /\ g.rec.kind = "garbage"
    BY <2>1
  <2> HIDE DEF g
  <2> QED BY <1>1, <2>2, <2>3 DEF Gt06Is, g
<1>2. CASE ~(c # Session(conn) /\ c.name = "garbage")
  <2>1. Gt06Drawn(c) /\ c.name # "garbage" /\ c.name # "sentence"
    BY <1>2 DEF Gt06Drawn, IsDrawn, Session, DrawnTypes
  <2>2. /\ c.fault = "length_disagreement" => c.with \in (-4 .. 4) \ {0}
        /\ c.fault = "bad_checksum" => c.with \in between(1, 65535)
        /\ c.fault = "truncated" => c.with \in 1 .. Len(g.whole) - 1 /\ c # Session(conn)
    <3>1. CASE c = Session(conn)
      BY <3>1 DEF Session
    <3>2. CASE c # Session(conn)
      <4>1. c.with \in FaultDraws(conn, g.whole, c.fault)
        BY <1>2, <3>2 DEF IsDrawn
      <4> HIDE DEF g
      <4> QED BY <3>2, <4>1 DEF FaultDraws
    <3> QED BY <3>1, <3>2
  <2>3. /\ s.whole \in Seq(Byte) /\ Len(s.whole) \in Nat /\ Len(s.whole) >= 10 /\ s.whole[1] = 120
        /\ s.whole[Len(s.whole) - 1] = 13 /\ s.whole[Len(s.whole)] = 10
        /\ c.fault # "length_disagreement" => s.whole[3] + 5 = Len(s.whole)
        /\ s.rec.kind = "frame" /\ s.rec.fault = c.fault
        /\ \A m : [s.rec EXCEPT !.frame_length = m].fault = c.fault
    BY <2>1, <2>2, Gt06WholeIs
  <2> DEFINE cut == [s.rec EXCEPT !.frame_length = Len(s.whole)]
             part == SubSeq(s.whole, 1, c.with)
  <2>7. cut.fault = c.fault
    BY <2>3
  <2>4. g = IF c.fault = "truncated"
              THEN [data |-> part, whole |-> s.whole, rec |-> cut]
              ELSE [data |-> s.whole, whole |-> s.whole, rec |-> s.rec]
    BY <2>1 DEF Segment
  <2> HIDE DEF s, cut, part
  <2>5. CASE c.fault = "truncated"
    <3>1. g.data = part /\ g.whole = s.whole
      BY <2>4, <2>5
    <3>2. g.rec = cut
      BY <2>4, <2>5
    <3>3. c.with \in 1 .. Len(s.whole) - 1 /\ c # Session(conn)
      BY <2>2, <2>5, <3>1
    <3>4. \A m \in 1 .. c.with : s.whole[m] \in Byte
      BY <2>3, <3>3
    <3>5. part \in Seq(Byte)
      BY <2>3, <3>3, <3>4 DEF part
    <3>6. g.rec.fault = "truncated"
      BY <2>5, <2>7, <3>2
    <3> HIDE DEF g
    <3> QED BY <3>1, <3>3, <3>5, <3>6 DEF Gt06Is, g
  <2>6. CASE c.fault # "truncated"
    <3>1. g.data = s.whole /\ g.rec = s.rec
      BY <2>4, <2>6
    <3> HIDE DEF g
    <3>2. g.rec.kind = "frame" /\ g.rec.fault # "truncated"
      BY <2>3, <2>6, <3>1
    <3>3. Gt06Is(g)
      BY <2>3, <3>1 DEF Gt06Is
    <3> QED BY <3>2, <3>3 DEF g
  <2> QED BY <2>5, <2>6
<1> QED BY <1>1, <1>2

LEMMA CounterType == ASSUME NEW n \in Nat PROVE CounterAfter(n) \in Nat
<1> DEFINE F == {k \in 1 .. n : IsFrame(k)}
<1>1. IsFiniteSet(1 .. n)
  BY FS_Interval
<1>2. Cardinality(F) \in Nat
  BY <1>1, FS_Subset, FS_CardinalityType
<1>3. FirstCounter(conn) \in Nat
  BY DEF FirstCounter
<1> HIDE DEF F
<1>4. FirstCounter(conn) + Cardinality(F) \in Nat
  BY <1>2, <1>3
<1> QED BY <1>4 DEF CounterAfter, F

LEMMA FirstType == FirstCounter(conn) \in Nat
BY DEF FirstCounter

(* What every state of a GT06 connection has. *)
Gt06Segs ==
  /\ IsList(segs) /\ Len(segs) >= 1
  /\ \A k \in 1 .. Len(segs) : Gt06Is(segs[k])
  /\ segs[1].rec.kind = "frame" /\ segs[1].rec.fault # "truncated"

InStep ==
  /\ r \in {0} \cup FrameEnds
  /\ out # <<>> =>
       LET e == Last(out) IN
       /\ e.from \in {0} \cup FrameEnds /\ e.to \in FrameEnds
       /\ \/ e.to - e.from = Gt06Length(Stream, e.from)
          \/ \A x \in FrameEnds : x <= e.from \/ x >= e.to
  /\ pc = "waiting" => r \in FrameEnds /\ \A x \in FrameEnds : x <= r

RInv ==
  /\ conn \in Conns
  /\ conn.protocol = "gt06" =>
       /\ Gt06Segs /\ IsList(out)
       /\ pc = "send" => out = <<>> /\ r = 0
       /\ NoStrayStop => InStep

LEMMA SegsMade == Gt06Segs => IsList(segs) /\ Len(segs) >= 1 /\ Gt06Made
<1> SUFFICES ASSUME Gt06Segs PROVE Gt06Made
  BY DEF Gt06Segs
<1>1. Len(segs) \in Nat
  BY ListIs DEF Gt06Segs
<1>2. ASSUME NEW k \in 1 .. Len(segs)
      PROVE  /\ segs[k].data \in Seq(Byte)
             /\ Untruncated(k) =>
                  LET n == Len(segs[k].data) IN
                  n >= 10 /\ segs[k].data[n - 1] = 13 /\ segs[k].data[n] = 10
  BY DEF Gt06Segs, Gt06Is, Untruncated, IsFrame
<1>3. Untruncated(1) /\ segs[1].data[1] = 120
  <2>1. 1 \in 1 .. Len(segs)
    BY <1>1 DEF Gt06Segs
  <2> QED BY <2>1 DEF Gt06Segs, Gt06Is, Untruncated, IsFrame
<1> QED BY <1>2, <1>3 DEF Gt06Made

LEMMA InitRInv == Init => RInv
<1> SUFFICES ASSUME Init PROVE RInv
  OBVIOUS
<1>1. conn \in Conns /\ out = <<>> /\ r = 0 /\ pc = "send"
  BY DEF Init
<1>2. ASSUME conn.protocol = "gt06" PROVE Gt06Segs
  <2> DEFINE c == Session(conn)
             g == Segment(conn, FirstCounter(conn), c)
  <2>1. IsConnection(conn) /\ FirstCounter(conn) \in Nat
    BY <1>1, ConnsAssumption, FirstType
  <2>2. Gt06Is(g) /\ g.rec.kind = "frame" /\ g.rec.fault # "truncated"
    BY <1>2, <2>1, Gt06SegmentIs
  <2>3. segs = <<g>>
    BY DEF Init
  <2> HIDE DEF g
  <2>4. IsList(segs) /\ Len(segs) = 1 /\ segs[1] = g
    BY <2>3, OneList
  <2> QED BY <2>2, <2>4 DEF Gt06Segs
<1>3. InStep
  BY <1>1 DEF InStep
<1>4. IsList(out)
  BY <1>1, NoList
<1> QED BY <1>1, <1>2, <1>3, <1>4 DEF RInv

LEMMA SendRInv == RInv /\ Send => RInv'
<1> SUFFICES ASSUME RInv, Send PROVE RInv'
  OBVIOUS
<1>1. /\ conn' = conn /\ out' = out /\ r' = r /\ pc' = pc /\ pc = "send" /\ conn \in Conns
  BY DEF RInv, Send
<1> SUFFICES ASSUME conn.protocol = "gt06"
             PROVE  Gt06Segs' /\ IsList(out') /\ out = <<>> /\ r = 0 /\ InStep'
  BY <1>1 DEF RInv
<1>2. Gt06Segs /\ IsList(out) /\ out = <<>> /\ r = 0
  BY <1>1 DEF RInv
<1>3. PICK c : LET g == Segment(conn, CounterAfter(Len(segs)), c) IN
               IsDrawn(conn, c, g.whole) /\ segs' = Append(segs, g)
  BY DEF Send, NextSegment
<1> DEFINE n == Len(segs)
           g == Segment(conn, CounterAfter(n), c)
<1>4. IsConnection(conn) /\ n \in Nat
  BY <1>1, <1>2, ConnsAssumption, ListIs DEF Gt06Segs
<1>5. CounterAfter(n) \in Nat
  BY <1>4, CounterType
<1>6. Gt06Is(g)
  BY <1>3, <1>4, <1>5, Gt06SegmentIs
<1> HIDE DEF g
<1>7. /\ IsList(segs') /\ Len(segs') = n + 1
      /\ segs'[n + 1] = g /\ \A i \in 1 .. n : segs'[i] = segs[i]
  BY <1>2, <1>3, OneMore DEF Gt06Segs, g
<1>8. Gt06Segs'
  <2>1. ASSUME NEW k \in 1 .. n + 1 PROVE Gt06Is(segs'[k])
    <3>1. CASE k = n + 1
      BY <1>6, <1>7, <3>1
    <3>2. CASE k # n + 1
      <4>1. k \in 1 .. n
        BY <1>4, <3>2
      <4> QED BY <1>2, <1>7, <4>1 DEF Gt06Segs
    <3> QED BY <3>1, <3>2
  <2>2. 1 \in 1 .. n /\ n + 1 >= 1
    BY <1>2, <1>4 DEF Gt06Segs
  <2>3. segs'[1] = segs[1]
    BY <1>7, <2>2
  <2> HIDE DEF n
  <2>4. \A k \in 1 .. Len(segs') : Gt06Is(segs'[k])
    BY <1>7, <2>1
  <2> QED BY <1>2, <1>7, <2>2, <2>3, <2>4 DEF Gt06Segs
<1>9. InStep'
  BY <1>1, <1>2 DEF InStep
<1> QED BY <1>1, <1>2, <1>8, <1>9

(* Nothing moves in a stream that is sent. *)
LEMMA StreamKept ==
  ASSUME segs' = segs
  PROVE  /\ Stream' = Stream /\ FrameEnds' = FrameEnds /\ (NoStrayStop' <=> NoStrayStop)
<1>1. Stream' = Stream
  BY DEF Stream
<1>2. \A k : EndOf(k)' = EndOf(k)
  BY DEF EndOf, Through
<1>3. FrameEnds' = FrameEnds
  BY <1>2 DEF FrameEnds, Untruncated, IsFrame
<1> QED BY <1>1, <1>3 DEF NoStrayStop

LEMMA ReturnRInv == RInv /\ Return => RInv'
<1> SUFFICES ASSUME RInv, Return PROVE RInv'
  OBVIOUS
<1>1. conn' = conn /\ segs' = segs /\ pc = "decode" /\ conn \in Conns
  BY DEF RInv, Return
<1> SUFFICES ASSUME conn.protocol = "gt06"
             PROVE  /\ Gt06Segs' /\ IsList(out') /\ pc' # "send" /\ (NoStrayStop' => InStep')
  BY <1>1 DEF RInv
<1> DEFINE f == gt06_decode(Stream, r)
           e == [from |-> f.at, to |-> f.next, frame |-> f.frame]
<1>2. Gt06Segs /\ IsList(out) /\ (NoStrayStop => InStep)
  BY DEF RInv
<1>3. Gt06Segs'
  BY <1>1, <1>2 DEF Gt06Segs
<1>4. /\ r' = f.next
      /\ \/ f.status = "frame" /\ out' = Append(out, e) /\ pc' = pc
         \/ f.status = "none" /\ out' = out /\ pc' = "waiting"
         \/ f.status \notin {"frame", "none"} /\ out' = out /\ pc' = "raised"
  BY DEF Return, decode
<1>5. pc' # "send"
  BY <1>1, <1>4
<1>6. IsList(out')
  <2> HIDE DEF e
  <2>1. IsList(Append(out, e))
    BY <1>2, OneMore
  <2> QED BY <1>2, <1>4, <2>1
<1>7. ASSUME NoStrayStop PROVE InStep'
  <2>1. InStep /\ r \in {0} \cup FrameEnds
    BY <1>2, <1>7 DEF InStep
  <2>2. \/ /\ f.status = "frame" /\ f.at = r /\ f.next \in FrameEnds
           /\ \/ f.next - r = Gt06Length(Stream, r)
              \/ \A x \in FrameEnds : x <= r \/ x >= f.next
        \/ /\ f.status = "none" /\ f.next = r
           /\ r \in FrameEnds /\ \A x \in FrameEnds : x <= r
    BY <1>2, <1>7, <2>1, SegsMade, Realigned
  <2>3. Stream' = Stream /\ FrameEnds' = FrameEnds
    BY <1>1, StreamKept
  <2> HIDE DEF f
  <2>4. CASE f.status = "frame"
    <3>1. out' = Append(out, e) /\ pc' = "decode"
      BY <1>1, <1>4, <2>4
    <3> HIDE DEF e
    <3>2. Last(out') = e
      <4>1. Len(out') = Len(out) + 1 /\ Append(out, e)[Len(out) + 1] = e
        BY <1>2, <3>1, OneMore
      <4> QED BY <3>1, <4>1 DEF Last
    <3>3. e.from = r /\ e.to = f.next
      BY <2>2, <2>4 DEF e
    <3>4. /\ e.from \in {0} \cup FrameEnds /\ e.to \in FrameEnds
          /\ \/ e.to - e.from = Gt06Length(Stream, e.from)
             \/ \A x \in FrameEnds : x <= e.from \/ x >= e.to
      BY <2>1, <2>2, <2>4, <3>3
    <3>5. r' \in {0} \cup FrameEnds
      BY <1>4, <2>2, <2>4
    <3> QED BY <2>3, <3>1, <3>2, <3>4, <3>5 DEF InStep
  <2>5. CASE f.status # "frame"
    <3>1. out' = out /\ r' = r /\ pc' = "waiting" /\ r \in FrameEnds /\ \A x \in FrameEnds : x <= r
      BY <1>4, <2>2, <2>5
    <3> QED BY <2>1, <2>3, <3>1 DEF InStep
  <2> QED BY <2>4, <2>5
<1>8. NoStrayStop' => NoStrayStop
  BY <1>1, StreamKept
<1> QED BY <1>3, <1>5, <1>6, <1>7, <1>8

LEMMA RInvStep == RInv /\ [Next]_vars => RInv'
<1> SUFFICES ASSUME RInv, [Next]_vars PROVE RInv'
  OBVIOUS
<1>1. CASE Send
  BY <1>1, SendRInv
<1>2. CASE Return
  BY <1>2, ReturnRInv
<1>3. CASE Sent \/ Ended \/ UNCHANGED vars
  <2>1. conn' = conn /\ segs' = segs /\ out' = out /\ r' = r
        /\ (pc' = "send" => pc = "send") /\ (pc' = "waiting" => pc = "waiting")
    BY <1>3 DEF Sent, Ended, vars
  <2>2. Stream' = Stream /\ FrameEnds' = FrameEnds /\ (NoStrayStop' <=> NoStrayStop)
    BY <2>1, StreamKept
  <2>3. Gt06Segs => Gt06Segs'
    BY <2>1 DEF Gt06Segs
  <2>4. InStep => InStep'
    BY <2>1, <2>2 DEF InStep
  <2>5. conn' \in Conns <=> conn \in Conns
    BY <2>1
  <2> QED BY <2>1, <2>2, <2>3, <2>4, <2>5 DEF RInv
<1> QED BY <1>1, <1>2, <1>3 DEF Next

LEMMA RInvRealigns == RInv => RealignsAtFrameEnds
<1> SUFFICES ASSUME RInv, conn.protocol = "gt06", NoStrayStop
             PROVE  /\ out # <<>> =>
                         LET e == Last(out) IN
                         /\ e.from \in {0} \cup FrameEnds /\ e.to \in FrameEnds
                         /\ \/ e.to - e.from = Gt06Length(Stream, e.from)
                            \/ \A x \in FrameEnds : x <= e.from \/ x >= e.to
                    /\ pc = "waiting" => r = Max(FrameEnds)
  BY DEF RealignsAtFrameEnds
<1>1. InStep /\ Gt06Segs
  BY DEF RInv
<1>2. FrameEnds \subseteq Nat
  BY <1>1, SegsMade, FrameEndsAre
<1>3. ASSUME r \in FrameEnds, \A x \in FrameEnds : x <= r PROVE r = Max(FrameEnds)
  <2>1. \A x \in FrameEnds : (\A y \in FrameEnds : x >= y) => x = r
    BY <1>2, <1>3
  <2>2. \A y \in FrameEnds : r >= y
    BY <1>2, <1>3
  <2> QED BY <1>3, <2>1, <2>2 DEF Max
<1> QED BY <1>1, <1>3 DEF InStep

(* A GT06 framer that has lost its place in a stream where 0D 0A is found  *)
(* at the ends of frames alone comes back into step at the end of a frame  *)
(* that was not cut, and leaves no such frame waiting: for every number of *)
(* segments, of any bytes, with any fault.                                 *)
THEOREM Realigns == Spec => []RealignsAtFrameEnds
<1>1. Init => RInv
  BY InitRInv
<1>2. RInv /\ [Next]_vars => RInv'
  BY RInvStep
<1>3. RInv => RealignsAtFrameEnds
  BY RInvRealigns
<1> QED BY <1>1, <1>2, <1>3, PTL DEF Spec

-----------------------------------------------------------------------------
(* JT808: what the encoders make is lists, whatever it holds.              *)

LEMMA ListJoined == \A s, t : IsList(s) /\ IsList(t) => IsList(s \o t)
BY Joined

LEMMA OneByte == \A e : IsList(<<e>>)
BY OneList

LEMMA BeList == ASSUME NEW v, NEW n \in Nat PROVE IsList(Be(v, n)) /\ Len(Be(v, n)) = n
<1> DEFINE e(i) == (v \div 256 ^ (n - i)) % 256
<1>1. Be(v, n) = [i \in 1 .. n |-> e(i)]
  BY DEF Be
<1> HIDE DEF e
<1>2. Be(v, n) \in Seq({e(i) : i \in 1 .. n}) /\ Len(Be(v, n)) = n
  BY <1>1
<1> QED BY <1>2 DEF IsList

LEMMA DecimalList == ASSUME NEW v, NEW n \in Nat PROVE IsList(Decimal(v, n)) /\ Len(Decimal(v, n)) = n
<1> DEFINE e(i) == (v \div 10 ^ (n - i)) % 10
<1>1. Decimal(v, n) = [i \in 1 .. n |-> e(i)]
  BY DEF Decimal
<1> HIDE DEF e
<1>2. Decimal(v, n) \in Seq({e(i) : i \in 1 .. n}) /\ Len(Decimal(v, n)) = n
  BY <1>1
<1> QED BY <1>2 DEF IsList

LEMMA BcdList == ASSUME NEW d, IsList(d) PROVE IsList(bcd(d))
<1> DEFINE e(i) == 16 * d[2 * i - 1] + d[2 * i]
           n == Len(d) \div 2
<1>1. n \in Nat
  <2>1. Len(d) \in Nat
    BY ListIs
  <2> QED BY <2>1
<1>2. bcd(d) = [i \in 1 .. n |-> e(i)]
  BY DEF bcd
<1> HIDE DEF e, n
<1>3. bcd(d) \in Seq({e(i) : i \in 1 .. n})
  BY <1>1, <1>2
<1> QED BY <1>3 DEF IsList

LEMMA AsciiList == ASSUME NEW d, IsList(d) PROVE IsList(Ascii(d)) /\ Len(Ascii(d)) = Len(d)
<1> DEFINE e(i) == 48 + d[i]
           n == Len(d)
<1>1. n \in Nat /\ DOMAIN d = 1 .. n
  BY ListIs
<1>2. Ascii(d) = [i \in 1 .. n |-> e(i)]
  BY <1>1 DEF Ascii
<1> HIDE DEF e, n
<1>3. Ascii(d) \in Seq({e(i) : i \in 1 .. n}) /\ Len(Ascii(d)) = n
  BY <1>1, <1>2
<1> QED BY <1>3 DEF IsList, n

LEMMA SubList ==
  ASSUME NEW s, IsList(s), NEW i \in Nat \ {0}, NEW j \in Nat, j <= Len(s)
  PROVE  IsList(SubSeq(s, i, j))
<1>1. PICK S : s \in Seq(S)
  BY DEF IsList
<1>2. Len(s) \in Nat
  BY <1>1
<1>3. \A m \in i .. j : s[m] \in S
  BY <1>1, <1>2
<1>4. SubSeq(s, i, j) \in Seq(S)
  BY <1>1, <1>2, <1>3, SubSeqProperties
<1> QED BY <1>4 DEF IsList

(* Lists that are all over one set. *)
LEMMA OneSet ==
  ASSUME NEW n \in Nat, NEW ss, \A i \in 1 .. n : IsList(ss[i])
  PROVE  \E S : \A i \in 1 .. n : ss[i] \in Seq(S)
<1> DEFINE S == UNION {{ss[i][m] : m \in 1 .. Len(ss[i])} : i \in 1 .. n}
<1>1. ASSUME NEW i \in 1 .. n PROVE ss[i] \in Seq(S)
  <2>1. \A m \in 1 .. Len(ss[i]) : ss[i][m] \in S
    OBVIOUS
  <2> HIDE DEF S
  <2> QED BY <2>1, ListOver
<1> HIDE DEF S
<1> QED BY <1>1

LEMMA FlatList ==
  ASSUME NEW n \in Nat, NEW ss, ss = [i \in 1 .. n |-> ss[i]], \A i \in 1 .. n : IsList(ss[i])
  PROVE  IsList(FlattenSeq(ss))
<1>1. PICK S : \A i \in 1 .. n : ss[i] \in Seq(S)
  BY OneSet
<1>2. ss \in Seq(Seq(S))
  BY <1>1
<1>3. PICK h : Laid(h, ss, S) /\ FlattenSeq(ss) = h[Len(ss)]
  BY <1>2, FlattenIs
<1>4. Len(ss) \in Nat
  BY <1>2, LenProperties
<1>5. FlattenSeq(ss) \in Seq(S)
  BY <1>3, <1>4 DEF Laid
<1> QED BY <1>5 DEF IsList

LEMMA DictIs ==
  ASSUME NEW items, NEW k \in DOMAIN Dict(items)
  PROVE  \E i \in items : i[1] = k /\ Dict(items)[k] = i[2]
<1>1. \E i \in items : i[1] = k
  BY DEF Dict
<1> DEFINE i == CHOOSE i \in items : i[1] = k
<1>2. i \in items /\ i[1] = k
  BY <1>1
<1>3. Dict(items)[k] = i[2]
  BY <1>1 DEF Dict
<1> QED BY <1>2, <1>3

LEMMA ItemsAreNat == \A i \in {1, 2, 37, 43, 48, 49} : ITEMS[i] \in Nat
<1> DEFINE items == {<<1, 4>>, <<2, 2>>, <<37, 4>>, <<43, 4>>, <<48, 1>>, <<49, 1>>}
<1>1. \A i \in items : i[2] \in Nat
  OBVIOUS
<1>2. {i[1] : i \in items} = {1, 2, 37, 43, 48, 49}
  OBVIOUS
<1>3. ITEMS = Dict(items)
  BY DEF ITEMS
<1> HIDE DEF items
<1>4. DOMAIN Dict(items) = {i[1] : i \in items}
  BY DEF Dict
<1>5. ASSUME NEW k \in {1, 2, 37, 43, 48, 49} PROVE ITEMS[k] \in Nat
  <2>1. k \in DOMAIN Dict(items)
    BY <1>2, <1>4
  <2>2. PICK i \in items : Dict(items)[k] = i[2]
    BY <2>1, DictIs
  <2> QED BY <1>1, <1>3, <2>2
<1> QED BY <1>5

LEMMA ClockList == ASSUME NEW t \in Clocks PROVE IsList(t) /\ Len(t) = 12
<1>1. t \in [1 .. 12 -> Digit]
  BY DEF Clocks
<1> DEFINE n == 12
<1>2. t \in [1 .. n -> Digit] /\ n \in Nat
  BY <1>1
<1> HIDE DEF n
<1>3. t \in Seq(Digit) /\ Len(t) = n
  BY <1>2
<1> QED BY <1>3 DEF IsList, n

LEMMA LocationList ==
  ASSUME NEW f, f.time \in Clocks
  PROVE  IsList(jt808_location_body(f))
<1> DEFINE e(i) == IF f.items[i] >= 0 THEN <<i, ITEMS[i]>> \o Be(f.items[i], ITEMS[i]) ELSE <<>>
           ss == [k \in 1 .. 6 |-> e(ITEM_IDS[k])]
           state == f.acc + 2 * f.positioned + 4 * f.south + 8 * f.west
           altitude == f.altitude % 65536
           items == FlattenSeq(ss)
<1>1. \A k \in 1 .. 6 : ITEM_IDS[k] \in {1, 2, 37, 43, 48, 49}
  BY DEF ITEM_IDS
<1>2. \A i \in {1, 2, 37, 43, 48, 49} : IsList(e(i))
  <2> SUFFICES ASSUME NEW i \in {1, 2, 37, 43, 48, 49} PROVE IsList(e(i))
    OBVIOUS
  <2>1. IsList(Be(f.items[i], ITEMS[i]))
    BY ItemsAreNat, BeList
  <2>2. IsList(<<i, ITEMS[i]>>)
    <3>1. <<i, ITEMS[i]>> \in Seq({i, ITEMS[i]})
      OBVIOUS
    <3> QED BY <3>1 DEF IsList
  <2>3. IsList(<<i, ITEMS[i]>> \o Be(f.items[i], ITEMS[i]))
    BY <2>1, <2>2, ListJoined
  <2> QED BY <2>3, NoList
<1>3. jt808_location_body(f) =
        Be(f.alarm, 4) \o Be(state, 4) \o Be(f.lat, 4) \o Be(f.lon, 4) \o Be(altitude, 2) \o Be(f.speed, 2)
        \o Be(f.course, 2) \o bcd(f.time) \o items
  <2>1. DOMAIN ITEM_IDS = 1 .. 6
    BY DEF ITEM_IDS
  <2> QED BY <2>1 DEF jt808_location_body
<1> HIDE DEF e, state, altitude
<1>4. IsList(items)
  <2>1. ss = [k \in 1 .. 6 |-> ss[k]] /\ \A k \in 1 .. 6 : IsList(ss[k])
    BY <1>1, <1>2
  <2>2. 6 \in Nat
    OBVIOUS
  <2> HIDE DEF ss
  <2> QED BY <2>1, <2>2, FlatList
<1>5. \A v : IsList(Be(v, 2)) /\ IsList(Be(v, 4))
  BY BeList
<1>6. IsList(bcd(f.time))
  BY ClockList, BcdList
<1> HIDE DEF items
<1> DEFINE s == Be(f.alarm, 4) \o Be(state, 4) \o Be(f.lat, 4) \o Be(f.lon, 4)
           t == s \o Be(altitude, 2) \o Be(f.speed, 2) \o Be(f.course, 2)
<1>7. IsList(s)
  BY <1>5, ListJoined
<1> HIDE DEF s
<1>8. IsList(t)
  BY <1>5, <1>7, ListJoined
<1> HIDE DEF t
<1>9. IsList(t \o bcd(f.time) \o items)
  BY <1>4, <1>6, <1>8, ListJoined
<1> QED BY <1>3, <1>9 DEF s, t

LEMMA BatchList == ASSUME NEW f \in batch_fields PROVE IsList(batch_body(f))
<1> DEFINE n == Len(f.records)
           Body(k) == jt808_location_body(f.records[k])
           e(k) == Be(Len(Body(k)), 2) \o Body(k)
           ss == [k \in 1 .. n |-> e(k)]
<1>1. f.records \in Seq(jt808_location_fields(20))
  BY DEF batch_fields
<1>2. n \in Nat /\ DOMAIN f.records = 1 .. n /\ \A k \in 1 .. n : f.records[k] \in jt808_location_fields(20)
  BY <1>1, LenProperties, ElementOfSeq
<1>3. ASSUME NEW k \in 1 .. n PROVE IsList(e(k))
  <2>1. f.records[k].time \in Clocks
    BY <1>2 DEF jt808_location_fields
  <2>2. IsList(Body(k))
    BY <2>1, LocationList
  <2>3. IsList(Be(Len(Body(k)), 2))
    BY BeList
  <2> QED BY <2>2, <2>3, ListJoined
<1>4. batch_body(f) = Be(n, 2) \o <<f.archive>> \o FlattenSeq(ss)
  BY <1>2 DEF batch_body
<1> HIDE DEF e, n
<1>5. IsList(FlattenSeq(ss))
  <2>1. ss = [k \in 1 .. n |-> ss[k]] /\ \A k \in 1 .. n : IsList(ss[k])
    BY <1>3
  <2> HIDE DEF ss
  <2> QED BY <1>2, <2>1, FlatList
<1> HIDE DEF ss
<1>6. IsList(Be(n, 2)) /\ IsList(<<f.archive>>)
  BY BeList, OneByte
<1>7. IsList(Be(n, 2) \o <<f.archive>>)
  BY <1>6, ListJoined
<1>8. IsList((Be(n, 2) \o <<f.archive>>) \o FlattenSeq(ss))
  BY <1>5, <1>7, ListJoined
<1> QED BY <1>4, <1>8

LEMMA Location2List == ASSUME NEW f \in location2_fields PROVE IsList(location2_body(f))
<1> DEFINE t == f.time
           lon == Decimal(f.lon, 9)
           flags == <<16 * lon[9] + f.valid + 2 * f.north + 4 * f.east>>
           date == bcd(SubSeq(t, 5, 6) \o SubSeq(t, 3, 4) \o SubSeq(t, 1, 2))
           clock == bcd(SubSeq(t, 7, 12))
           lat == bcd(Decimal(f.lat, 8))
           east == bcd(SubSeq(lon, 1, 8))
           speed == bcd(Decimal(f.speed, 2))
           three == <<f.course, f.rssi, f.satellites>>
<1>1. t \in Clocks
  BY DEF location2_fields
<1>2. location2_body(f) =
        date \o clock \o lat \o east \o flags \o speed \o three \o Be(f.odometer, 4) \o <<f.battery>>
        \o Be(f.cid, 4) \o Be(f.lac, 2) \o <<f.product>> \o Be(f.status, 2) \o Be(f.alarm, 2)
  BY DEF location2_body
<1>3. IsList(t) /\ Len(t) = 12
  BY <1>1, ClockList
<1>4. IsList(lon) /\ Len(lon) = 9 /\ IsList(lat) /\ IsList(speed)
  BY DecimalList, BcdList
<1> HIDE DEF t, lon
<1>5. IsList(SubSeq(t, 5, 6)) /\ IsList(SubSeq(t, 3, 4)) /\ IsList(SubSeq(t, 1, 2))
      /\ IsList(SubSeq(t, 7, 12)) /\ IsList(SubSeq(lon, 1, 8))
  <2>1. \A i \in Nat \ {0}, j \in Nat : j <= 12 => IsList(SubSeq(t, i, j))
    BY <1>3, SubList
  <2>2. \A i \in Nat \ {0}, j \in Nat : j <= 9 => IsList(SubSeq(lon, i, j))
    BY <1>4, SubList
  <2> QED BY <2>1, <2>2
<1>6. IsList(date) /\ IsList(clock) /\ IsList(east)
  <2>1. IsList(SubSeq(t, 5, 6) \o SubSeq(t, 3, 4) \o SubSeq(t, 1, 2))
    BY <1>5, ListJoined
  <2> QED BY <1>5, <2>1, BcdList
<1>7. IsList(flags) /\ IsList(<<f.battery>>) /\ IsList(<<f.product>>)
  BY OneByte
<1>8. IsList(three)
  <2>1. three \in Seq({f.course, f.rssi, f.satellites})
    OBVIOUS
  <2> QED BY <2>1 DEF IsList
<1>9. \A v : IsList(Be(v, 2)) /\ IsList(Be(v, 4))
  BY BeList
<1> HIDE DEF flags, date, clock, lat, east, speed, three
<1> DEFINE s1 == date \o clock \o lat \o east
           s2 == s1 \o flags \o speed \o three
           s3 == s2 \o Be(f.odometer, 4) \o <<f.battery>> \o Be(f.cid, 4)
           s4 == s3 \o Be(f.lac, 2) \o <<f.product>> \o Be(f.status, 2) \o Be(f.alarm, 2)
<1>10. location2_body(f) = s4
  BY <1>2
<1>11. IsList(s1)
  BY <1>4, <1>6, ListJoined
<1> HIDE DEF s1
<1>12. IsList(s2)
  BY <1>4, <1>7, <1>8, <1>11, ListJoined
<1> HIDE DEF s2
<1>13. IsList(s3)
  BY <1>7, <1>9, <1>12, ListJoined
<1> HIDE DEF s3
<1>14. IsList(s4)
  BY <1>7, <1>9, <1>13, ListJoined
<1> QED BY <1>10, <1>14

(* What _fill may draw of a type and its fields, or the session's own, but *)
(* for a sentence.                                                         *)
Jt808Drawn(c) ==
  \/ c = Session(conn)
  \/ /\ c.name \in DrawnTypes("jt808") \ {"sentence"} /\ c.fields \in DrawnFields(conn, c.name)

LEMMA Jt808BodyIs ==
  ASSUME conn.protocol = "jt808", IsConnection(conn), NEW c, Jt808Drawn(c)
  PROVE  IsList(Jt808Types(c)[2])
<1>1. CASE c = Session(conn)
  <2>1. c.name = "auth" /\ c.fields.code = conn.code
    BY <1>1 DEF Session
  <2>2. Jt808Types(c)[2] = conn.code
    BY <2>1 DEF Jt808Types, auth_body
  <2> QED BY <2>2 DEF IsConnection, IsList
<1>2. CASE c.name = "location" /\ c # Session(conn)
  <2>1. c.fields.time \in Clocks
    BY <1>2 DEF Jt808Drawn, DrawnFields, jt808_location_fields
  <2>2. Jt808Types(c)[2] = jt808_location_body(c.fields)
    BY <1>2 DEF Jt808Types
  <2> QED BY <2>1, <2>2, LocationList
<1>3. CASE c.name = "batch" /\ c # Session(conn)
  <2>1. c.fields \in batch_fields
    BY <1>3 DEF Jt808Drawn, DrawnFields
  <2>2. Jt808Types(c)[2] = batch_body(c.fields)
    BY <1>3 DEF Jt808Types
  <2> QED BY <2>1, <2>2, BatchList
<1>4. CASE c.name = "location2" /\ c # Session(conn)
  <2>1. c.fields \in location2_fields
    BY <1>4 DEF Jt808Drawn, DrawnFields
  <2>2. Jt808Types(c)[2] = location2_body(c.fields)
    BY <1>4 DEF Jt808Types
  <2> QED BY <2>1, <2>2, Location2List
<1>5. CASE c.name = "unknown" /\ c # Session(conn)
  <2>1. c.fields.body \in Seq(Byte)
    BY <1>5 DEF Jt808Drawn, DrawnFields, UnknownBytes
  <2>2. Jt808Types(c)[2] = c.fields.body
    BY <1>5 DEF Jt808Types
  <2> QED BY <2>1, <2>2 DEF IsList
<1> QED BY <1>1, <1>2, <1>3, <1>4, <1>5 DEF Jt808Drawn, DrawnTypes

LEMMA PaddedList ==
  ASSUME NEW t, IsList(t), Len(t) = 12, NEW n \in Nat, n >= 6
  PROVE  IsList(Padded(t, n))
<1> DEFINE m == 2 * n - Len(t)
           z == [i \in 1 .. m |-> 0]
<1>1. m \in Nat
  OBVIOUS
<1>2. Padded(t, n) = z \o t
  BY DEF Padded
<1> HIDE DEF m
<1>3. z \in Seq({0})
  BY <1>1
<1>4. IsList(z)
  BY <1>3 DEF IsList
<1> HIDE DEF z
<1> QED BY <1>2, <1>4, ListJoined

-----------------------------------------------------------------------------
(* JT808: how a frame is escaped, and how each reader of it unescapes it.  *)

LEMMA SliceOf ==
  ASSUME NEW b, IsList(b), NEW i \in Nat, NEW j \in Nat, i <= j, j <= Len(b)
  PROVE  Len(Slice(b, i, j)) = j - i /\ \A m \in 1 .. j - i : Slice(b, i, j)[m] = b[i + m]
<1>1. PICK S : b \in Seq(S)
  BY DEF IsList
<1> DEFINE part == Slice(b, i, j)
<1>2. /\ part \in Seq(S)
      /\ i <= j /\ j <= Len(b) => Len(part) = j - i /\ \A m \in 1 .. j - i : part[m] = b[i + m]
  BY <1>1, SliceIs
<1> HIDE DEF part
<1>3. Len(part) = j - i /\ \A m \in 1 .. j - i : part[m] = b[i + m]
  BY <1>2
<1> QED BY <1>3 DEF part

(* A function that both unescaping loops are: what is read at i, then what *)
(* comes from step[i] bytes on.                                            *)
Unfold(f, lo, hi, item, step) ==
  /\ f = [i \in lo .. hi + 2 |-> f[i]]
  /\ \A i \in lo .. hi + 2 : f[i] = IF i > hi THEN <<>> ELSE item[i] \o f[i + step[i]]

Steps(lo, hi, step) ==
  lo \in Nat /\ hi \in Nat /\ lo <= hi + 2 /\ \A i \in lo .. hi : step[i] \in {1, 2}

(* Such a function is.                                                     *)
LEMMA UnfoldExists ==
  ASSUME NEW lo, NEW hi, NEW item, NEW step, Steps(lo, hi, step)
  PROVE  \E f : Unfold(f, lo, hi, item, step)
<1> DEFINE n == hi + 2
           Val(f, i) == IF i > hi THEN <<>> ELSE item[i] \o f[i + step[i]]
           From(f, k) == f = [i \in lo .. n |-> f[i]] /\ \A i \in n - k .. n : f[i] = Val(f, i)
           T == {k \in 0 .. n - lo : \E f : From(f, k)}
<1>1. lo \in Nat /\ hi \in Nat /\ n \in Nat /\ hi < n /\ lo <= n /\ n - lo \in Nat
  BY DEF Steps
<1>2. \A i \in lo .. n : i <= hi => i + step[i] \in lo .. n /\ i + step[i] > i
  <2> SUFFICES ASSUME NEW i \in lo .. n, i <= hi PROVE i + step[i] \in lo .. n /\ i + step[i] > i
    OBVIOUS
  <2>1. step[i] \in {1, 2}
    BY <1>1 DEF Steps
  <2> QED BY <1>1, <2>1
<1>3. \A f, i : i > hi => Val(f, i) = <<>>
  OBVIOUS
<1>4. \A f, g, i : f[i + step[i]] = g[i + step[i]] => Val(f, i) = Val(g, i)
  OBVIOUS
<1> HIDE DEF Val
<1>5. 0 \in T
  <2> DEFINE f == [i \in lo .. n |-> <<>>]
  <2>1. f = [i \in lo .. n |-> f[i]] /\ f[n] = <<>>
    BY <1>1
  <2>2. Val(f, n) = <<>>
    BY <1>1, <1>3
  <2> HIDE DEF f
  <2>3. \A i \in n - 0 .. n : i = n
    BY <1>1
  <2>4. \A i \in n - 0 .. n : f[i] = Val(f, i)
    BY <2>1, <2>2, <2>3
  <2> HIDE DEF n
  <2>5. From(f, 0)
    BY <2>1, <2>4
  <2> QED BY <1>1, <2>5
<1>6. ASSUME NEW k \in 1 .. n - lo, k - 1 \in T PROVE k \in T
  <2> DEFINE j == n - k
  <2>1. j \in lo .. n /\ j \in Nat /\ n - (k - 1) = j + 1
    BY <1>1
  <2>2. PICK f : From(f, k - 1)
    BY <1>6
  <2> DEFINE v == Val(f, j)
             g == [i \in lo .. n |-> IF i = j THEN v ELSE f[i]]
  <2> HIDE DEF v
  <2>3. g = [i \in lo .. n |-> g[i]] /\ g[j] = v /\ \A i \in lo .. n : i # j => g[i] = f[i]
    BY <2>1
  <2> HIDE DEF g
  <2>4. ASSUME NEW i \in j .. n PROVE Val(f, i) = Val(g, i)
    <3>1. i \in lo .. n
      BY <1>1, <2>1
    <3>2. CASE i > hi
      BY <1>3, <3>2
    <3>3. CASE ~(i > hi)
      <4>1. i + step[i] \in lo .. n /\ i + step[i] # j
        BY <1>1, <1>2, <2>1, <3>1, <3>3
      <4>2. f[i + step[i]] = g[i + step[i]]
        BY <2>3, <4>1
      <4> QED BY <1>4, <4>2
    <3> QED BY <3>2, <3>3
  <2>5. ASSUME NEW i \in j .. n PROVE g[i] = Val(g, i)
    <3>1. CASE i = j
      <4>1. g[i] = Val(f, i)
        BY <2>3, <3>1 DEF v
      <4> QED BY <2>4, <4>1
    <3>2. CASE i # j
      <4>1. i \in lo .. n /\ i \in n - (k - 1) .. n
        BY <1>1, <2>1, <3>2
      <4>2. g[i] = f[i] /\ f[i] = Val(f, i)
        BY <2>2, <2>3, <3>2, <4>1
      <4> QED BY <2>4, <4>2
    <3> QED BY <3>1, <3>2
  <2>6. From(g, k)
    BY <2>3, <2>5
  <2> HIDE DEF From
  <2>7. k \in 0 .. n - lo
    BY <1>1
  <2> QED BY <2>6, <2>7
<1>7. \A k \in 0 .. n - lo : k \in T
  <2> HIDE DEF T, n
  <2> QED BY <1>1, <1>5, <1>6, InductTo
<1>8. PICK f : From(f, n - lo)
  <2>1. n - lo \in 0 .. n - lo
    BY <1>1
  <2>2. n - lo \in T
    <3> HIDE DEF T, n
    <3> QED BY <1>7, <2>1
  <2> HIDE DEF From, n
  <2> QED BY <2>2
<1>9. n - (n - lo) = lo
  BY <1>1
<1>10. f = [i \in lo .. n |-> f[i]] /\ \A i \in lo .. n : f[i] = Val(f, i)
  BY <1>8, <1>9
<1>11. Unfold(f, lo, hi, item, step)
  BY <1>10 DEF Unfold, Val
<1> QED BY <1>11

(* What has been read from each place on is a list. *)
LEMMA UnfoldLists ==
  ASSUME NEW lo, NEW hi, NEW item, NEW step, Steps(lo, hi, step), NEW f, Unfold(f, lo, hi, item, step),
         \A i \in lo .. hi : IsList(item[i])
  PROVE  \A i \in lo .. hi + 2 : IsList(f[i])
<1> DEFINE n == hi + 2
           T == {k \in 0 .. n - lo : \A i \in n - k .. n : IsList(f[i])}
<1>1. lo \in Nat /\ hi \in Nat /\ n \in Nat /\ hi < n /\ lo <= n /\ n - lo \in Nat
  BY DEF Steps
<1>2. ASSUME NEW i \in lo .. n, i > hi PROVE IsList(f[i])
  <2>1. f[i] = <<>>
    BY <1>2 DEF Unfold
  <2> QED BY <2>1, NoList
<1>3. 0 \in T
  <2>1. \A i \in n - 0 .. n : i \in lo .. n /\ i > hi
    BY <1>1
  <2>2. \A i \in n - 0 .. n : IsList(f[i])
    BY <1>2, <2>1
  <2> HIDE DEF n
  <2> QED BY <1>1, <2>2
<1>4. ASSUME NEW k \in 1 .. n - lo, k - 1 \in T PROVE k \in T
  <2> SUFFICES ASSUME NEW i \in n - k .. n PROVE IsList(f[i])
    BY <1>1
  <2>1. i \in lo .. n
    BY <1>1
  <2>2. CASE i > hi
    BY <1>2, <2>1, <2>2
  <2>3. CASE ~(i > hi)
    <3>1. i \in lo .. hi /\ step[i] \in {1, 2}
      BY <1>1, <2>1, <2>3 DEF Steps
    <3> DEFINE j == i + step[i]
    <3>2. j \in n - (k - 1) .. n
      BY <1>1, <2>1, <2>3, <3>1
    <3> HIDE DEF j
    <3>3. IsList(f[j])
      BY <1>4, <3>2
    <3>4. f[i] = item[i] \o f[j]
      BY <2>1, <2>3 DEF Unfold, j
    <3> QED BY <3>1, <3>3, <3>4, ListJoined
  <2> QED BY <2>2, <2>3
<1>5. \A k \in 0 .. n - lo : k \in T
  <2> HIDE DEF T, n
  <2> QED BY <1>1, <1>3, <1>4, InductTo
<1>6. n - lo \in 0 .. n - lo /\ n - (n - lo) = lo
  BY <1>1
<1>7. n - lo \in T
  <2> HIDE DEF T, n
  <2> QED BY <1>5, <1>6
<1> QED BY <1>6, <1>7

(* What is left of a list after its first i elements. *)
Rest(s, i) == [m \in 1 .. Len(s) - i |-> s[i + m]]

LEMMA RestIs ==
  ASSUME NEW s, IsList(s), NEW i \in 1 .. Len(s)
  PROVE  Rest(s, i - 1) = <<s[i]>> \o Rest(s, i)
<1>1. PICK S : s \in Seq(S)
  BY DEF IsList
<1> DEFINE n == Len(s)
           a == Rest(s, i - 1)
           one == <<s[i]>>
           c == Rest(s, i)
<1>2. n \in Nat /\ i \in Nat /\ \A m \in 1 .. n : s[m] \in S
  BY <1>1, ElementOfSeq
<1>3. a \in Seq(S) /\ Len(a) = n - (i - 1) /\ \A m \in 1 .. n - (i - 1) : a[m] = s[(i - 1) + m]
  BY <1>2 DEF Rest
<1>4. c \in Seq(S) /\ Len(c) = n - i /\ \A m \in 1 .. n - i : c[m] = s[i + m]
  BY <1>2 DEF Rest
<1>5. one \in Seq(S) /\ Len(one) = 1 /\ one[1] = s[i]
  BY <1>2
<1> HIDE DEF a, one, c
<1> DEFINE u == one \o c
<1>6. u \in Seq(S) /\ Len(u) = 1 + (n - i) /\ u[1] = s[i] /\ \A m \in 1 .. n - i : u[1 + m] = c[m]
  <2>1. u \in Seq(S)
    BY <1>4, <1>5, ConcatProperties
  <2>2. IsList(one) /\ IsList(c)
    BY <1>4, <1>5 DEF IsList
  <2>3. Len(u) = Len(one) + Len(c) /\ (\A m \in 1 .. Len(one) : u[m] = one[m])
        /\ \A m \in 1 .. Len(c) : u[Len(one) + m] = c[m]
    BY <2>2, Joined
  <2> HIDE DEF u, n
  <2>4. 1 \in 1 .. Len(one)
    BY <1>5
  <2> QED BY <1>4, <1>5, <2>1, <2>3, <2>4
<1> HIDE DEF u, n
<1>7. Len(u) = Len(a)
  BY <1>2, <1>3, <1>6
<1>8. ASSUME NEW m \in 1 .. Len(a) PROVE a[m] = u[m]
  <2>1. a[m] = s[(i - 1) + m]
    BY <1>3
  <2>2. CASE m = 1
    BY <1>2, <1>6, <2>1, <2>2
  <2>3. CASE m # 1
    <3> DEFINE j == m - 1
    <3>1. j \in 1 .. n - i /\ 1 + j = m /\ i + j = (i - 1) + m
      BY <1>2, <1>3, <2>3
    <3> HIDE DEF j
    <3>2. u[1 + j] = s[i + j]
      BY <1>4, <1>6, <3>1
    <3> QED BY <2>1, <3>1, <3>2
  <2> QED BY <2>2, <2>3
<1>9. a = u
  BY <1>3, <1>6, <1>7, <1>8
<1> QED BY <1>9 DEF a, u, one, c

(* y, an element read at each of the places q. *)
Spelled(y, q, lo, hi, item, step) ==
  /\ q \in [0 .. Len(y) -> Nat] /\ q[0] = lo /\ q[Len(y)] = hi + 1
  /\ \A i \in 1 .. Len(y) :
       /\ q[i - 1] \in lo .. hi /\ item[q[i - 1]] = <<y[i]>>
       /\ q[i] = q[i - 1] + step[q[i - 1]]

LEMMA SpelledOut ==
  ASSUME NEW lo, NEW hi, NEW item, NEW step, Steps(lo, hi, step), NEW f, Unfold(f, lo, hi, item, step),
         NEW y, IsList(y), NEW q, Spelled(y, q, lo, hi, item, step)
  PROVE  f[lo] = y
<1> DEFINE n == Len(y)
           T == {k \in 0 .. n : f[q[n - k]] = Rest(y, n - k)}
<1>1. n \in Nat /\ lo \in Nat /\ hi \in Nat
  BY ListIs DEF Steps
<1>2. 0 \in T
  <2>1. n - 0 = n /\ hi + 1 \in lo .. hi + 2
    <3>1. q[0] \in Nat /\ (n # 0 => q[0] \in lo .. hi)
      <4>1. n # 0 => 1 \in 1 .. n /\ 1 - 1 = 0
        BY <1>1
      <4> QED BY <1>1, <4>1 DEF Spelled
    <3>2. n = 0 => lo = hi + 1
      BY DEF Spelled
    <3> QED BY <1>1, <3>1, <3>2 DEF Spelled
  <2>2. f[hi + 1] = <<>>
    <3> DEFINE m == hi + 1
    <3>1. m > hi /\ m \in lo .. hi + 2
      BY <1>1, <2>1
    <3> HIDE DEF m
    <3>2. f[m] = <<>>
      BY <3>1 DEF Unfold
    <3> QED BY <3>2 DEF m
  <2>3. Rest(y, n) = <<>>
    BY <1>1 DEF Rest
  <2>4. q[n - 0] = hi + 1
    BY <2>1 DEF Spelled
  <2>5. f[q[n - 0]] = Rest(y, n - 0)
    BY <2>1, <2>2, <2>3, <2>4
  <2> QED BY <1>1, <2>5
<1>3. ASSUME NEW k \in 1 .. n, k - 1 \in T PROVE k \in T
  <2> DEFINE i == n - (k - 1)
             at == q[i - 1]
  <2>1. i \in 1 .. n /\ n - k = i - 1
    BY <1>1
  <2>2. f[q[i]] = Rest(y, i)
    BY <1>3
  <2> HIDE DEF i
  <2>3. at \in lo .. hi /\ item[at] = <<y[i]>> /\ q[i] = at + step[at]
    BY <2>1 DEF Spelled
  <2> HIDE DEF at
  <2>4. at \in lo .. hi + 2 /\ ~(at > hi)
    BY <1>1, <2>3
  <2>5. f[at] = item[at] \o f[at + step[at]]
    BY <2>4 DEF Unfold
  <2>6. f[at] = Rest(y, i - 1)
    BY <2>1, <2>2, <2>3, <2>5, RestIs
  <2> QED BY <2>1, <2>6 DEF at
<1>4. \A k \in 0 .. n : k \in T
  <2> HIDE DEF T, n
  <2> QED BY <1>1, <1>2, <1>3, InductTo
<1>5. n \in 0 .. n /\ n - n = 0
  BY <1>1
<1>6. f[q[0]] = Rest(y, 0)
  <2>1. n \in T
    <3> HIDE DEF T, n
    <3> QED BY <1>4, <1>5
  <2> QED BY <1>5, <2>1
<1>7. Rest(y, 0) = y
  <2>1. y = [m \in 1 .. n |-> y[m]]
    BY ListIs
  <2>2. Rest(y, 0) = [m \in 1 .. n |-> y[m]]
    <3>1. n - 0 = n /\ \A m \in 1 .. n : 0 + m = m
      BY <1>1
    <3> QED BY <3>1 DEF Rest
  <2> QED BY <2>1, <2>2
<1> QED BY <1>6, <1>7 DEF Spelled

(* The escape tables. *)

(* A dictionary whose keys are apart. *)
LEMMA DictAt ==
  ASSUME NEW items, NEW i \in items, \A j \in items : j[1] = i[1] => j = i
  PROVE  i[1] \in DOMAIN Dict(items) /\ Dict(items)[i[1]] = i[2]
<1>1. i[1] \in DOMAIN Dict(items)
  BY DEF Dict
<1>2. PICK j \in items : j[1] = i[1] /\ Dict(items)[i[1]] = j[2]
  BY <1>1, DictIs
<1> QED BY <1>1, <1>2

(* The first bytes of the pairs that the framer unescapes.                 *)
Introduces(d) == {p[1] : p \in DOMAIN UNESCAPE[d]}

IsDelimiter(d) == d \in {126, 231}

(* What a byte is escaped to both readers of it take back, and nothing in  *)
(* it is the delimiter.                                                    *)
TakenBack(d, c) ==
  LET pair == ESCAPE[d][c] IN
  /\ pair = <<pair[1], pair[2]>> /\ pair[1] # d /\ pair[2] # d /\ pair[1] \in Introduces(d)
  /\ pair \in DOMAIN UNESCAPE[d] /\ UNESCAPE[d][pair] = c
  /\ pair \in DOMAIN PAIRS /\ PAIRS[pair] = c

LEMMA TablesAgree ==
  ASSUME NEW d \in {126, 231}
  PROVE  /\ \A c \in DOMAIN ESCAPE[d] : TakenBack(d, c)
         /\ Introduces(d) = (IF d = 231 THEN {230, 62} ELSE {125})
         /\ Introduces(d) \subseteq DOMAIN ESCAPE[d] /\ d \in DOMAIN ESCAPE[d] /\ d \notin Introduces(d)
<1> DEFINE to == IF d = 126 THEN {<<125, <<125, 1>>>>, <<126, <<125, 2>>>>}
                 ELSE {<<230, <<230, 1>>>>, <<231, <<230, 2>>>>, <<62, <<62, 1>>>>, <<61, <<62, 2>>>>}
           back == IF d = 126 THEN {<<<<125, 1>>, 125>>, <<<<125, 2>>, 126>>}
                   ELSE {<<<<230, 1>>, 230>>, <<<<230, 2>>, 231>>, <<<<62, 1>>, 62>>, <<<<62, 2>>, 61>>}
           all == {<<<<230, 1>>, 230>>, <<<<230, 2>>, 231>>, <<<<62, 1>>, 62>>, <<<<62, 2>>, 61>>,
                   <<<<125, 1>>, 125>>, <<<<125, 2>>, 126>>}
<1>1. ESCAPE[d] = Dict(to) /\ UNESCAPE[d] = Dict(back) /\ PAIRS = Dict(all)
  BY DEF ESCAPE, UNESCAPE, PAIRS, STANDARD, ALTERNATIVE
<1>2. \A x \in to : /\ <<x[2], x[1]>> \in back /\ <<x[2], x[1]>> \in all
                    /\ x[2] = <<x[2][1], x[2][2]>> /\ x[2][1] # d /\ x[2][2] # d
  OBVIOUS
<1>3. (\A x, y \in back : x[1] = y[1] => x = y) /\ \A x, y \in all : x[1] = y[1] => x = y
  <2>1. \A x, y \in back : x[1] = y[1] => x = y
    OBVIOUS
  <2>2. \A x, y \in all : x[1] = y[1] => x = y
    OBVIOUS
  <2> QED BY <2>1, <2>2
<1>4. {x[1] : x \in to} = IF d = 126 THEN {125, 126} ELSE {230, 231, 62, 61}
  <2>1. CASE d = 126
    BY <2>1
  <2>2. CASE d = 231
    BY <2>2
  <2> QED BY <2>1, <2>2
<1>5. {x[1][1] : x \in back} = IF d = 231 THEN {230, 62} ELSE {125}
  <2>1. CASE d = 126
    BY <2>1
  <2>2. CASE d = 231
    BY <2>2
  <2> QED BY <2>1, <2>2
<1> HIDE DEF to, back, all
<1>6. \A items : DOMAIN Dict(items) = {x[1] : x \in items}
  BY DEF Dict
<1>7. Introduces(d) = {x[1][1] : x \in back}
  <2>1. DOMAIN UNESCAPE[d] = {x[1] : x \in back}
    BY <1>1, <1>6
  <2>2. {p[1] : p \in {x[1] : x \in back}} = {x[1][1] : x \in back}
    OBVIOUS
  <2> QED BY <2>1, <2>2 DEF Introduces
<1>8. ASSUME NEW c \in DOMAIN ESCAPE[d] PROVE TakenBack(d, c)
  <2>1. PICK x \in to : x[1] = c /\ ESCAPE[d][c] = x[2]
    BY <1>1, DictIs
  <2> DEFINE pair == x[2]
             z == <<pair, c>>
  <2>2. z \in back /\ z \in all /\ pair = <<pair[1], pair[2]>> /\ pair[1] # d /\ pair[2] # d
    BY <1>2, <2>1
  <2>3. z[1] = pair /\ z[2] = c
    OBVIOUS
  <2> HIDE DEF z, pair
  <2>4. pair \in DOMAIN Dict(back) /\ Dict(back)[pair] = c
    BY <1>3, <2>2, <2>3, DictAt
  <2>5. pair \in DOMAIN Dict(all) /\ Dict(all)[pair] = c
    BY <1>3, <2>2, <2>3, DictAt
  <2>6. pair[1] \in Introduces(d)
    BY <1>1, <2>4 DEF Introduces
  <2> QED BY <1>1, <2>1, <2>2, <2>4, <2>5, <2>6 DEF TakenBack, pair
<1>9. Introduces(d) = IF d = 231 THEN {230, 62} ELSE {125}
  <2> DEFINE firsts == {x[1][1] : x \in back}
  <2>1. firsts = IF d = 231 THEN {230, 62} ELSE {125}
    BY <1>5
  <2>2. Introduces(d) = firsts
    BY <1>7
  <2> HIDE DEF firsts
  <2> QED BY <2>1, <2>2
<1>10. DOMAIN ESCAPE[d] = IF d = 126 THEN {125, 126} ELSE {230, 231, 62, 61}
  <2>1. DOMAIN ESCAPE[d] = {x[1] : x \in to}
    BY <1>1, <1>6
  <2> QED BY <1>4, <2>1
<1> QED BY <1>8, <1>9, <1>10

-----------------------------------------------------------------------------
(* The framer's unescaping: what it makes of the byte at i, and how many   *)
(* bytes it takes for it.                                                  *)
UnescapeItem(b, d, lo, hi) ==
  [i \in lo .. hi |->
     IF b[i + 1] \notin Introduces(d) THEN <<b[i + 1]>>
     ELSE LET pair == Slice(b, i, i + 2) IN
          IF pair \in DOMAIN UNESCAPE[d] THEN <<UNESCAPE[d][pair]>> ELSE <<>>]
UnescapeStep(b, d, lo, hi) == [i \in lo .. hi |-> IF b[i + 1] \notin Introduces(d) THEN 1 ELSE 2]

LEMMA UnescapedUnfolds ==
  ASSUME NEW b, NEW at \in Nat, NEW index \in Nat, at <= index
  PROVE  LET d == b[at + 1] IN
         \E f : /\ Unfold(f, at, index, UnescapeItem(b, d, at, index), UnescapeStep(b, d, at, index))
                /\ Unescaped(b, at, index) = f[at]
<1> DEFINE d == b[at + 1]
           pairs == UNESCAPE[d]
           introducers == {p[1] : p \in DOMAIN pairs}
           pairAt(i) == LET pair == Slice(b, i, i + 2) IN
                        IF pair \in DOMAIN pairs THEN <<pairs[pair]>> ELSE <<>>
           IsFrom(f) ==
             f = [i \in at .. index + 2 |->
                    IF i > index THEN <<>>
                    ELSE IF b[i + 1] \notin introducers THEN <<b[i + 1]>> \o f[i + 1]
                    ELSE pairAt(i) \o f[i + 2]]
           f0 == CHOOSE f : IsFrom(f)
           item == UnescapeItem(b, d, at, index)
           step == UnescapeStep(b, d, at, index)
<1>1. Unescaped(b, at, index) = f0[at]
  BY DEF Unescaped
<1>2. introducers = Introduces(d)
  BY DEF Introduces
<1>3. Steps(at, index, step)
  BY DEF Steps, UnescapeStep
<1>4. ASSUME NEW f, NEW i \in at .. index + 2
      PROVE  (IF i > index THEN <<>> ELSE item[i] \o f[i + step[i]])
               = (IF i > index THEN <<>>
                  ELSE IF b[i + 1] \notin introducers THEN <<b[i + 1]>> \o f[i + 1]
                  ELSE pairAt(i) \o f[i + 2])
  <2>1. CASE i > index
    BY <2>1
  <2>2. CASE ~(i > index)
    <3>1. i \in at .. index
      BY <2>2
    <3>2. item[i] = (IF b[i + 1] \notin introducers THEN <<b[i + 1]>> ELSE pairAt(i))
          /\ step[i] = IF b[i + 1] \notin introducers THEN 1 ELSE 2
      <4> HIDE DEF introducers
      <4> QED BY <1>2, <3>1 DEF UnescapeItem, UnescapeStep
    <3> HIDE DEF introducers, pairAt, item, step
    <3> QED BY <2>2, <3>2
  <2> QED BY <2>1, <2>2
<1> HIDE DEF introducers, pairAt, item, step
<1>5. ASSUME NEW f PROVE IsFrom(f) <=> Unfold(f, at, index, item, step)
  <2>1. IsFrom(f) => Unfold(f, at, index, item, step)
    BY <1>4 DEF Unfold
  <2>2. Unfold(f, at, index, item, step) => IsFrom(f)
    BY <1>4 DEF Unfold
  <2> QED BY <2>1, <2>2
<1> HIDE DEF IsFrom
<1>6. \E f : IsFrom(f)
  BY <1>3, <1>5, UnfoldExists
<1>7. IsFrom(f0)
  BY <1>6
<1> HIDE DEF f0
<1> QED BY <1>1, <1>5, <1>7 DEF item, step

(* check.py's: a pair that no alphabet has reads as 256. *)
DestuffItem(b, d) ==
  [i \in 1 .. Len(b) |->
     IF b[i] \notin Introduces(d) THEN <<b[i]>>
     ELSE IF i < Len(b) /\ Slice(b, i - 1, i + 1) \in DOMAIN PAIRS
       THEN <<PAIRS[Slice(b, i - 1, i + 1)]>> ELSE <<256>>]
DestuffStep(b, d) == [i \in 1 .. Len(b) |-> IF b[i] \notin Introduces(d) THEN 1 ELSE 2]

LEMMA DestuffUnfolds ==
  ASSUME NEW b, IsList(b), NEW d, IsDelimiter(d)
  PROVE  \E f : /\ Unfold(f, 1, Len(b), DestuffItem(b, d), DestuffStep(b, d))
                /\ destuff(b, d) = f[1]
<1> SUFFICES ASSUME NEW lo \in Nat, NEW n \in Nat, lo = 1, n = Len(b)
             PROVE  \E f : /\ Unfold(f, lo, n, DestuffItem(b, d), DestuffStep(b, d))
                           /\ destuff(b, d) = f[lo]
  BY ListIs
<1> DEFINE introducers == IF d = 231 THEN {230, 62} ELSE {125}
           pairAt(i) == IF i < n /\ Slice(b, i - 1, i + 1) \in DOMAIN PAIRS
                          THEN <<PAIRS[Slice(b, i - 1, i + 1)]>> ELSE <<256>>
           IsFrom(f) ==
             f = [i \in lo .. n + 2 |->
                    IF i > n THEN <<>>
                    ELSE IF b[i] \notin introducers THEN <<b[i]>> \o f[i + 1]
                    ELSE pairAt(i) \o f[i + 2]]
           f0 == CHOOSE f : IsFrom(f)
           item == DestuffItem(b, d)
           step == DestuffStep(b, d)
<1>1. destuff(b, d) = f0[lo]
  BY DEF destuff
<1>2. introducers = Introduces(d)
  BY TablesAgree DEF IsDelimiter
<1>3. Steps(lo, n, step)
  BY DEF Steps, DestuffStep
<1>4. ASSUME NEW f, NEW i \in lo .. n + 2
      PROVE  (IF i > n THEN <<>> ELSE item[i] \o f[i + step[i]])
               = (IF i > n THEN <<>>
                  ELSE IF b[i] \notin introducers THEN <<b[i]>> \o f[i + 1]
                  ELSE pairAt(i) \o f[i + 2])
  <2>1. CASE i > n
    BY <2>1
  <2>2. CASE ~(i > n)
    <3>1. i \in lo .. n
      BY <2>2
    <3>2. item[i] = (IF b[i] \notin introducers THEN <<b[i]>> ELSE pairAt(i))
          /\ step[i] = IF b[i] \notin introducers THEN 1 ELSE 2
      <4> HIDE DEF introducers
      <4> QED BY <1>2, <3>1 DEF DestuffItem, DestuffStep
    <3> HIDE DEF introducers, pairAt, item, step
    <3> QED BY <2>2, <3>2
  <2> QED BY <2>1, <2>2
<1> HIDE DEF introducers, pairAt, item, step
<1>5. ASSUME NEW f PROVE IsFrom(f) <=> Unfold(f, lo, n, item, step)
  <2>1. IsFrom(f) => Unfold(f, lo, n, item, step)
    BY <1>4 DEF Unfold
  <2>2. ASSUME Unfold(f, lo, n, item, step) PROVE IsFrom(f)
    <3>1. /\ f = [i \in lo .. n + 2 |-> f[i]]
          /\ \A i \in lo .. n + 2 : f[i] = IF i > n THEN <<>> ELSE item[i] \o f[i + step[i]]
      BY <2>2 DEF Unfold
    <3>2. \A i \in lo .. n + 2 :
            f[i] = IF i > n THEN <<>>
                   ELSE IF b[i] \notin introducers THEN <<b[i]>> \o f[i + 1]
                   ELSE pairAt(i) \o f[i + 2]
      BY <1>4, <3>1
    <3> QED BY <3>1, <3>2
  <2> QED BY <2>1, <2>2
<1> HIDE DEF IsFrom
<1>6. \E f : IsFrom(f)
  BY <1>3, <1>5, UnfoldExists
<1>7. IsFrom(f0)
  BY <1>6
<1> HIDE DEF f0
<1> QED BY <1>1, <1>5, <1>7 DEF item, step

-----------------------------------------------------------------------------
(* e is x, escaped: the pieces of it are at the places p. *)
Escaped(e, x, d, p) ==
  /\ IsList(e) /\ IsList(x) /\ p \in [0 .. Len(x) -> Nat] /\ p[0] = 0 /\ p[Len(x)] = Len(e)
  /\ \A i \in 1 .. Len(x) :
       LET at == p[i - 1] IN
       /\ p[i] <= Len(e)
       /\ IF x[i] \in DOMAIN ESCAPE[d]
            THEN p[i] = at + 2 /\ e[at + 1] = ESCAPE[d][x[i]][1] /\ e[at + 2] = ESCAPE[d][x[i]][2]
            ELSE p[i] = at + 1 /\ e[at + 1] = x[i]

LEMMA EscapeIs ==
  ASSUME NEW d, IsDelimiter(d), NEW x, IsList(x)
  PROVE  \E p : Escaped(escape(x, d), x, d, p)
<1> DEFINE table == ESCAPE[d]
           piece(i) == IF x[i] \in DOMAIN table THEN table[x[i]] ELSE <<x[i]>>
           n == Len(x)
           ss == [i \in 1 .. n |-> piece(i)]
           e == FlattenSeq(ss)
<1>1. n \in Nat /\ DOMAIN x = 1 .. n
  BY ListIs
<1>2. escape(x, d) = e
  BY <1>1 DEF escape
<1>3. \A c \in DOMAIN table : IsList(table[c]) /\ Len(table[c]) = 2
  <2>1. \A u, v : IsList(<<u, v>>) /\ Len(<<u, v>>) = 2
    <3> TAKE u, v
    <3>1. <<u, v>> \in Seq({u, v})
      OBVIOUS
    <3> QED BY <3>1 DEF IsList
  <2>2. \A c \in DOMAIN table : table[c] = <<table[c][1], table[c][2]>>
    BY TablesAgree DEF IsDelimiter, TakenBack
  <2> QED BY <2>1, <2>2
<1> HIDE DEF table
<1>4. \A i \in 1 .. n : /\ IsList(piece(i)) /\ Len(piece(i)) = (IF x[i] \in DOMAIN table THEN 2 ELSE 1)
                        /\ x[i] \in DOMAIN table => piece(i) = table[x[i]]
                        /\ x[i] \notin DOMAIN table => piece(i)[1] = x[i]
  BY <1>3, OneList
<1> HIDE DEF n, piece
<1>5. ss = [i \in 1 .. n |-> ss[i]] /\ \A i \in 1 .. n : ss[i] = piece(i) /\ IsList(ss[i])
  BY <1>4
<1> HIDE DEF ss
<1>6. PICK S : \A i \in 1 .. n : ss[i] \in Seq(S)
  BY <1>1, <1>5, OneSet
<1>7. ss \in Seq(Seq(S)) /\ Len(ss) = n
  BY <1>1, <1>5, <1>6
<1>8. e \in Seq(S) /\ \E p : Places(e, p, ss)
  BY <1>7, FlatPlaces
<1>9. PICK p : Places(e, p, ss)
  BY <1>8
<1> HIDE DEF e
<1>10. ASSUME NEW i \in 1 .. n
       PROVE  LET at == p[i - 1] IN
              /\ p[i] <= Len(e)
              /\ IF x[i] \in DOMAIN table
                   THEN p[i] = at + 2 /\ e[at + 1] = table[x[i]][1] /\ e[at + 2] = table[x[i]][2]
                   ELSE p[i] = at + 1 /\ e[at + 1] = x[i]
  <2> DEFINE at == p[i - 1]
  <2>1. p[i] = at + Len(piece(i)) /\ p[i] <= Len(e) /\ \A m \in 1 .. Len(piece(i)) : e[at + m] = piece(i)[m]
    BY <1>5, <1>7, <1>9 DEF Places
  <2> HIDE DEF at
  <2>2. CASE x[i] \in DOMAIN table
    <3>1. Len(piece(i)) = 2 /\ piece(i) = table[x[i]]
      BY <1>4, <2>2
    <3>2. 1 \in 1 .. Len(piece(i)) /\ 2 \in 1 .. Len(piece(i))
      BY <3>1
    <3> QED BY <2>1, <2>2, <3>1, <3>2 DEF at
  <2>3. CASE x[i] \notin DOMAIN table
    <3>1. Len(piece(i)) = 1 /\ piece(i)[1] = x[i]
      BY <1>4, <2>3
    <3>2. 1 \in 1 .. Len(piece(i))
      BY <3>1
    <3> QED BY <2>1, <2>3, <3>1, <3>2 DEF at
  <2> QED BY <2>2, <2>3
<1>11. p \in [0 .. n -> Nat] /\ p[0] = 0 /\ p[n] = Len(e)
  BY <1>7, <1>9 DEF Places
<1>12. IsList(e)
  BY <1>8 DEF IsList
<1>13. Escaped(e, x, d, p)
  BY <1>10, <1>11, <1>12 DEF Escaped, n, table
<1> QED BY <1>2, <1>13

(* No delimiter is left in it. *)
LEMMA NoneInside ==
  ASSUME NEW d, IsDelimiter(d), NEW e, NEW x, NEW p, Escaped(e, x, d, p)
  PROVE  \A m \in 1 .. Len(e) : e[m] # d
<1> DEFINE n == Len(x)
           T == {i \in 0 .. n : \A m \in 1 .. p[i] : e[m] # d}
<1>1. n \in Nat /\ p \in [0 .. n -> Nat] /\ p[0] = 0 /\ p[n] = Len(e)
  BY ListIs DEF Escaped
<1>2. 0 \in T
  BY <1>1
<1>3. ASSUME NEW i \in 1 .. n, i - 1 \in T PROVE i \in T
  <2> DEFINE at == p[i - 1]
             c == x[i]
  <2>1. at \in Nat /\ i \in 0 .. n
    BY <1>1
  <2>2. \A m \in 1 .. at : e[m] # d
    BY <1>3
  <2>3. IF c \in DOMAIN ESCAPE[d]
          THEN p[i] = at + 2 /\ e[at + 1] = ESCAPE[d][c][1] /\ e[at + 2] = ESCAPE[d][c][2]
          ELSE p[i] = at + 1 /\ e[at + 1] = c
    BY DEF Escaped
  <2>4. c \in DOMAIN ESCAPE[d] => ESCAPE[d][c][1] # d /\ ESCAPE[d][c][2] # d
    BY TablesAgree DEF IsDelimiter, TakenBack
  <2>5. c \notin DOMAIN ESCAPE[d] => c # d
    BY TablesAgree DEF IsDelimiter
  <2> HIDE DEF at, c
  <2>6. \A m \in 1 .. p[i] : e[m] # d
    <3>1. CASE c \in DOMAIN ESCAPE[d]
      <4>1. \A m \in 1 .. p[i] : m \in 1 .. at \/ m = at + 1 \/ m = at + 2
        BY <2>1, <2>3, <3>1
      <4> QED BY <2>2, <2>3, <2>4, <3>1, <4>1
    <3>2. CASE c \notin DOMAIN ESCAPE[d]
      <4>1. \A m \in 1 .. p[i] : m \in 1 .. at \/ m = at + 1
        BY <2>1, <2>3, <3>2
      <4> QED BY <2>2, <2>3, <2>5, <3>2, <4>1
    <3> QED BY <3>1, <3>2
  <2> QED BY <2>1, <2>6
<1>4. \A i \in 0 .. n : i \in T
  <2> HIDE DEF T, n
  <2> QED BY <1>1, <1>2, <1>3, InductTo
<1>5. n \in T
  <2> HIDE DEF T, n
  <2> QED BY <1>1, <1>4
<1> QED BY <1>1, <1>5

LEMMA PairSlice ==
  ASSUME NEW b, IsList(b), NEW i \in Nat, i + 2 <= Len(b)
  PROVE  Slice(b, i, i + 2) = <<b[i + 1], b[i + 2]>>
<1>1. PICK S : b \in Seq(S)
  BY DEF IsList
<1> DEFINE j == i + 2
           s == Slice(b, i, j)
<1>2. j \in Nat /\ i <= j /\ j <= Len(b) /\ j - i = 2
  OBVIOUS
<1> HIDE DEF j
<1>3. s \in Seq(S)
  BY <1>1, <1>2, SliceIs
<1>4. Len(s) = j - i /\ \A m \in 1 .. j - i : s[m] = b[i + m]
  BY <1>2, SliceOf
<1> HIDE DEF s
<1>5. Len(s) = 2 /\ s[1] = b[i + 1] /\ s[2] = b[i + 2]
  BY <1>2, <1>4
<1>6. s = <<s[1], s[2]>>
  BY <1>3, <1>5
<1> QED BY <1>5, <1>6 DEF s, j

(* check.py takes the escapes of a frame back. *)
LEMMA DestuffIs ==
  ASSUME NEW d, IsDelimiter(d), NEW e, NEW x, NEW p, Escaped(e, x, d, p)
  PROVE  destuff(e, d) = x
<1> DEFINE n == Len(x)
           l == Len(e)
           item == DestuffItem(e, d)
           step == DestuffStep(e, d)
           q == [i \in 0 .. n |-> p[i] + 1]
<1>1. IsList(e) /\ IsList(x) /\ n \in Nat /\ l \in Nat /\ p \in [0 .. n -> Nat] /\ p[0] = 0 /\ p[n] = l
  BY ListIs DEF Escaped
<1>2. Steps(1, l, step)
  BY <1>1 DEF Steps, DestuffStep
<1>3. q \in [0 .. n -> Nat] /\ q[0] = 1 /\ q[n] = l + 1 /\ \A i \in 0 .. n : q[i] = p[i] + 1
  BY <1>1
<1> HIDE DEF q
<1>4. ASSUME NEW i \in 1 .. n
      PROVE  q[i - 1] \in 1 .. l /\ item[q[i - 1]] = <<x[i]>> /\ q[i] = q[i - 1] + step[q[i - 1]]
  <2> DEFINE at == p[i - 1]
             c == x[i]
             pair == ESCAPE[d][c]
             k == at + 1
  <2>1. at \in Nat /\ p[i] \in Nat /\ q[i - 1] = k /\ q[i] = p[i] + 1
    BY <1>1, <1>3
  <2>2. /\ p[i] <= l
        /\ IF c \in DOMAIN ESCAPE[d]
             THEN p[i] = at + 2 /\ e[k] = pair[1] /\ e[at + 2] = pair[2]
             ELSE p[i] = k /\ e[k] = c
    BY DEF Escaped
  <2>3. /\ c \in DOMAIN ESCAPE[d] => TakenBack(d, c)
        /\ c \notin DOMAIN ESCAPE[d] => c \notin Introduces(d)
    BY TablesAgree DEF IsDelimiter
  <2> HIDE DEF at, c, pair
  <2>4. k \in Nat /\ k \in 1 .. l /\ k - 1 = at /\ k + 1 = at + 2
    BY <1>1, <2>1, <2>2
  <2> HIDE DEF k, l
  <2>5. /\ item[k] = (IF e[k] \notin Introduces(d) THEN <<e[k]>>
                      ELSE IF k < l /\ Slice(e, at, at + 2) \in DOMAIN PAIRS
                        THEN <<PAIRS[Slice(e, at, at + 2)]>> ELSE <<256>>)
        /\ step[k] = (IF e[k] \notin Introduces(d) THEN 1 ELSE 2)
    BY <2>4 DEF DestuffItem, DestuffStep, l
  <2> HIDE DEF item, step
  <2>6. CASE c \in DOMAIN ESCAPE[d]
    <3>1. k < l
      BY <1>1, <2>1, <2>2, <2>4, <2>6
    <3>2. Slice(e, at, at + 2) = pair
      <4>1. at + 2 <= Len(e)
        BY <2>2, <2>6 DEF l
      <4>2. Slice(e, at, at + 2) = <<e[at + 1], e[at + 2]>>
        BY <1>1, <2>1, <4>1, PairSlice
      <4>3. pair = <<pair[1], pair[2]>>
        BY <2>3, <2>6 DEF TakenBack, pair
      <4> QED BY <2>2, <2>6, <4>2, <4>3 DEF k
    <3>3. pair[1] \in Introduces(d) /\ pair \in DOMAIN PAIRS /\ PAIRS[pair] = c
      BY <2>3, <2>6 DEF TakenBack, pair
    <3>4. item[k] = <<c>> /\ step[k] = 2
      BY <2>2, <2>5, <2>6, <3>1, <3>2, <3>3
    <3> QED BY <2>1, <2>2, <2>4, <2>6, <3>4 DEF c
  <2>7. CASE c \notin DOMAIN ESCAPE[d]
    <3>1. item[k] = <<c>> /\ step[k] = 1
      BY <2>2, <2>3, <2>5, <2>7
    <3> QED BY <2>1, <2>2, <2>4, <2>7, <3>1 DEF c
  <2> QED BY <2>6, <2>7
<1>5. Spelled(x, q, 1, l, item, step)
  BY <1>3, <1>4 DEF Spelled
<1>6. PICK f : Unfold(f, 1, l, item, step) /\ destuff(e, d) = f[1]
  BY <1>1, DestuffUnfolds
<1> HIDE DEF n, l, item, step
<1>7. f[1] = x
  BY <1>1, <1>2, <1>5, <1>6, SpelledOut
<1> QED BY <1>6, <1>7

(* A list between two delimiters. *)
Between(w, d, e) ==
  /\ IsList(w) /\ Len(w) = Len(e) + 2 /\ w[1] = d /\ w[Len(e) + 2] = d
  /\ \A m \in 1 .. Len(e) : w[1 + m] = e[m]

LEMMA BetweenDelimiters ==
  ASSUME NEW d, NEW e, IsList(e)
  PROVE  Between(<<d>> \o e \o <<d>>, d, e)
<1> DEFINE one == <<d>>
           s == one \o e
           w == s \o one
<1>1. IsList(one) /\ Len(one) = 1 /\ one[1] = d
  BY OneList
<1>2. <<d>> \o e \o <<d>> = w
  OBVIOUS
<1> HIDE DEF one
<1>3. /\ IsList(s) /\ Len(s) = Len(one) + Len(e) /\ Len(e) \in Nat
      /\ \A m \in 1 .. Len(one) : s[m] = one[m]
      /\ \A m \in 1 .. Len(e) : s[Len(one) + m] = e[m]
  <2>1. IsList(one)
    BY <1>1
  <2>2. IsList(s) /\ Len(s) = Len(one) + Len(e)
    BY <2>1, Joined
  <2>3. \A m \in 1 .. Len(one) : s[m] = one[m]
    BY <2>1, Joined
  <2>4. \A m \in 1 .. Len(e) : s[Len(one) + m] = e[m]
    BY <2>1, Joined
  <2> HIDE DEF s
  <2> QED BY <2>2, <2>3, <2>4, ListIs
<1> HIDE DEF s
<1>4. /\ IsList(w) /\ Len(w) = Len(s) + Len(one)
      /\ \A m \in 1 .. Len(s) : w[m] = s[m]
      /\ \A m \in 1 .. Len(one) : w[Len(s) + m] = one[m]
  <2>1. IsList(s) /\ IsList(one)
    BY <1>1, <1>3
  <2>2. IsList(w) /\ Len(w) = Len(s) + Len(one)
    BY <2>1, Joined
  <2>3. \A m \in 1 .. Len(s) : w[m] = s[m]
    BY <2>1, Joined
  <2>4. \A m \in 1 .. Len(one) : w[Len(s) + m] = one[m]
    BY <2>1, Joined
  <2> HIDE DEF w
  <2> QED BY <2>2, <2>3, <2>4
<1> HIDE DEF w
<1>5. Len(s) = 1 + Len(e) /\ Len(w) = Len(e) + 2 /\ Len(s) + 1 = Len(e) + 2
      /\ 1 \in 1 .. Len(one) /\ 1 \in 1 .. Len(s)
  BY <1>1, <1>3, <1>4
<1>6. w[1] = d /\ w[Len(e) + 2] = d
  BY <1>1, <1>3, <1>4, <1>5
<1>7. ASSUME NEW m \in 1 .. Len(e) PROVE w[1 + m] = e[m]
  <2>1. 1 + m \in 1 .. Len(s)
    BY <1>3, <1>5
  <2>2. w[1 + m] = s[1 + m]
    BY <1>4, <2>1
  <2> QED BY <1>1, <1>3, <2>2
<1>8. Between(w, d, e)
  BY <1>4, <1>5, <1>6, <1>7 DEF Between
<1> QED BY <1>2, <1>8

(* A list between two delimiters, at s in b. *)
Encloses(b, s, d, e) ==
  /\ IsList(b) /\ s + Len(e) + 2 <= Len(b) /\ b[s + 1] = d /\ b[s + Len(e) + 2] = d
  /\ \A m \in 1 .. Len(e) : b[s + 1 + m] = e[m]

(* The framer takes back the escapes of a frame that begins where it is.   *)
LEMMA UnescapedFrame ==
  ASSUME NEW d, IsDelimiter(d), NEW e, NEW x, NEW p, Escaped(e, x, d, p), NEW b, NEW s \in Nat,
         Encloses(b, s, d, e)
  PROVE  Unescaped(b, s, s + Len(e) + 1) = <<d>> \o x \o <<d>>
<1> DEFINE n == Len(x)
           l == Len(e)
           hi == s + l + 1
           item == UnescapeItem(b, d, s, hi)
           step == UnescapeStep(b, d, s, hi)
           y == <<d>> \o x \o <<d>>
           q == [i \in 0 .. n + 2 |-> IF i = 0 THEN s ELSE IF i = n + 2 THEN s + l + 2 ELSE s + 1 + p[i - 1]]
<1>1. IsList(e) /\ IsList(x) /\ n \in Nat /\ l \in Nat /\ p \in [0 .. n -> Nat] /\ p[0] = 0 /\ p[n] = l
  BY ListIs DEF Escaped
<1>2. hi \in Nat /\ s <= hi /\ hi + 1 = s + l + 2
  BY <1>1
<1>3. Steps(s, hi, step)
  BY <1>2 DEF Steps, UnescapeStep
<1>4. IsList(y) /\ Len(y) = n + 2 /\ y[1] = d /\ y[n + 2] = d /\ \A m \in 1 .. n : y[1 + m] = x[m]
  BY <1>1, BetweenDelimiters DEF Between
<1> HIDE DEF y
<1>5. d \notin Introduces(d)
  BY TablesAgree DEF IsDelimiter
<1>6. /\ q \in [0 .. n + 2 -> Nat] /\ q[0] = s /\ q[n + 2] = s + l + 2
      /\ \A i \in 0 .. n : q[i + 1] = s + 1 + p[i]
  <2>1. ASSUME NEW i \in 0 .. n + 2, i # 0, i # n + 2 PROVE i - 1 \in 0 .. n /\ p[i - 1] \in Nat
    BY <1>1, <2>1
  <2>2. q \in [0 .. n + 2 -> Nat]
    BY <1>1, <2>1
  <2>3. q[0] = s /\ q[n + 2] = s + l + 2
    BY <1>1
  <2>4. ASSUME NEW i \in 0 .. n PROVE q[i + 1] = s + 1 + p[i]
    <3>1. i + 1 \in 0 .. n + 2 /\ i + 1 # 0 /\ i + 1 # n + 2 /\ (i + 1) - 1 = i
      BY <1>1
    <3> QED BY <3>1
  <2> QED BY <2>2, <2>3, <2>4
<1> HIDE DEF q
<1>7. \A k \in s .. hi :
        /\ item[k] = (IF b[k + 1] \notin Introduces(d) THEN <<b[k + 1]>>
                      ELSE IF Slice(b, k, k + 2) \in DOMAIN UNESCAPE[d]
                        THEN <<UNESCAPE[d][Slice(b, k, k + 2)]>> ELSE <<>>)
        /\ step[k] = (IF b[k + 1] \notin Introduces(d) THEN 1 ELSE 2)
  <2> HIDE DEF hi
  <2> QED BY DEF UnescapeItem, UnescapeStep
<1> HIDE DEF item, step
<1>8. \A k \in s .. hi : b[k + 1] \notin Introduces(d) => item[k] = <<b[k + 1]>> /\ step[k] = 1
  BY <1>7
<1>9. ASSUME NEW i \in 1 .. n
      PROVE  LET k == q[i] IN k \in s .. hi /\ item[k] = <<x[i]>> /\ q[i + 1] = k + step[k]
  <2> DEFINE at == p[i - 1]
             c == x[i]
             pair == ESCAPE[d][c]
             k == q[i]
  <2>1. at \in Nat /\ p[i] \in Nat /\ k = s + 1 + at /\ q[i + 1] = s + 1 + p[i]
    <3>1. i - 1 \in 0 .. n /\ i \in 0 .. n /\ (i - 1) + 1 = i
      BY <1>1
    <3>2. q[(i - 1) + 1] = s + 1 + p[i - 1]
      BY <1>6, <3>1
    <3> QED BY <1>1, <1>6, <3>1, <3>2
  <2>2. /\ p[i] <= l
        /\ IF c \in DOMAIN ESCAPE[d]
             THEN p[i] = at + 2 /\ e[at + 1] = pair[1] /\ e[at + 2] = pair[2]
             ELSE p[i] = at + 1 /\ e[at + 1] = c
    BY DEF Escaped
  <2>3. /\ c \in DOMAIN ESCAPE[d] => TakenBack(d, c)
        /\ c \notin DOMAIN ESCAPE[d] => c \notin Introduces(d)
    BY TablesAgree DEF IsDelimiter
  <2> HIDE DEF at, c, pair, k
  <2> HIDE DEF l
  <2>4. k \in Nat /\ k \in s .. hi /\ at + 1 \in 1 .. l /\ at + 1 <= p[i]
    <3>1. at + 1 <= p[i]
      BY <2>1, <2>2
    <3>2. at + 1 <= l /\ l \in Nat /\ k = s + 1 + at
      BY <1>1, <2>1, <2>2, <3>1
    <3> QED BY <2>1, <3>1, <3>2
  <2>5. b[k + 1] = e[at + 1]
    <3>1. s + 1 + (at + 1) = k + 1
      BY <2>1
    <3>2. b[s + 1 + (at + 1)] = e[at + 1]
      BY <2>4 DEF Encloses, l
    <3> QED BY <3>1, <3>2
  <2>6. CASE c \in DOMAIN ESCAPE[d]
    <3>1. at + 2 \in 1 .. l /\ s + 1 + (at + 2) = k + 2 /\ k + 2 <= Len(b)
      <4>1. Len(b) \in Nat /\ s + l + 2 <= Len(b) /\ l \in Nat
        BY <1>1, ListIs DEF Encloses, l
      <4>2. at + 2 <= l
        BY <2>2, <2>6
      <4> QED BY <2>1, <4>1, <4>2
    <3>2. b[k + 2] = e[at + 2]
      <4>1. b[s + 1 + (at + 2)] = e[at + 2]
        BY <3>1 DEF Encloses, l
      <4> QED BY <3>1, <4>1
    <3>3. Slice(b, k, k + 2) = pair
      <4>1. Slice(b, k, k + 2) = <<b[k + 1], b[k + 2]>>
        BY <2>4, <3>1, PairSlice DEF Encloses
      <4>2. pair = <<pair[1], pair[2]>>
        BY <2>3, <2>6 DEF TakenBack, pair
      <4> QED BY <2>2, <2>5, <2>6, <3>2, <4>1, <4>2
    <3>4. pair[1] \in Introduces(d) /\ pair \in DOMAIN UNESCAPE[d] /\ UNESCAPE[d][pair] = c
      BY <2>3, <2>6 DEF TakenBack, pair
    <3>5. item[k] = <<c>> /\ step[k] = 2
      BY <1>7, <2>2, <2>4, <2>5, <2>6, <3>3, <3>4
    <3> QED BY <2>1, <2>2, <2>4, <2>6, <3>5 DEF c, k
  <2>7. CASE c \notin DOMAIN ESCAPE[d]
    <3>1. item[k] = <<c>> /\ step[k] = 1
      BY <1>8, <2>2, <2>3, <2>4, <2>5, <2>7
    <3> QED BY <2>1, <2>2, <2>4, <2>7, <3>1 DEF c, k
  <2> QED BY <2>6, <2>7
<1>10. ASSUME NEW i \in 1 .. n + 2
       PROVE  q[i - 1] \in s .. hi /\ item[q[i - 1]] = <<y[i]>> /\ q[i] = q[i - 1] + step[q[i - 1]]
  <2>1. CASE i = 1
    <3>1. s \in s .. hi /\ b[s + 1] = d /\ i - 1 = 0
      BY <1>2, <2>1 DEF Encloses
    <3>2. item[s] = <<d>> /\ step[s] = 1
      BY <1>5, <1>8, <3>1
    <3>3. q[1] = s + 1
      <4>1. 0 \in 0 .. n /\ 0 + 1 = 1
        BY <1>1
      <4>2. q[0 + 1] = s + 1 + p[0]
        BY <1>6, <4>1
      <4> QED BY <1>1, <4>1, <4>2
    <3> QED BY <1>4, <1>6, <2>1, <3>1, <3>2, <3>3
  <2>2. CASE i = n + 2
    <3> DEFINE k == s + 1 + l
    <3>1. q[i - 1] = k
      <4>1. n \in 0 .. n /\ i - 1 = n + 1
        BY <1>1, <2>2
      <4> QED BY <1>1, <1>6, <4>1
    <3>2. k \in s .. hi /\ k + 1 = s + l + 2
      BY <1>1
    <3>5. b[k + 1] = d
      BY <3>2 DEF Encloses
    <3> HIDE DEF k
    <3>3. item[k] = <<d>> /\ step[k] = 1
      BY <1>5, <1>8, <3>2, <3>5
    <3>4. k \in Nat /\ q[i] = k + 1
      BY <1>2, <1>6, <2>2, <3>2
    <3> QED BY <1>4, <2>2, <3>1, <3>2, <3>3, <3>4
  <2>3. CASE i # 1 /\ i # n + 2
    <3> DEFINE j == i - 1
    <3>1. j \in 1 .. n /\ j + 1 = i /\ 1 + j = i
      BY <1>1, <2>3
    <3> HIDE DEF j
    <3>2. q[j] \in s .. hi /\ item[q[j]] = <<x[j]>> /\ q[j + 1] = q[j] + step[q[j]]
      BY <1>9, <3>1
    <3>3. y[1 + j] = x[j]
      BY <1>4, <3>1
    <3> QED BY <3>1, <3>2, <3>3 DEF j
  <2> QED BY <2>1, <2>2, <2>3
<1>11. Spelled(y, q, s, hi, item, step)
  BY <1>2, <1>4, <1>6, <1>10 DEF Spelled
<1>12. PICK f : Unfold(f, s, hi, item, step) /\ Unescaped(b, s, hi) = f[s]
  <2> HIDE DEF hi
  <2>1. \E f : /\ Unfold(f, s, hi, UnescapeItem(b, b[s + 1], s, hi), UnescapeStep(b, b[s + 1], s, hi))
               /\ Unescaped(b, s, hi) = f[s]
    BY <1>2, UnescapedUnfolds
  <2>2. b[s + 1] = d
    BY DEF Encloses
  <2> QED BY <2>1, <2>2 DEF item, step
<1> HIDE DEF hi
<1>13. f[s] = y
  BY <1>3, <1>4, <1>11, <1>12, SpelledOut
<1> QED BY <1>12, <1>13 DEF y, hi, l

-----------------------------------------------------------------------------
(* JT808: what a segment is. *)

(* A binary frame: a list, escaped, between two delimiters. *)
BinaryData(w, d) == \E e, x, p : Escaped(e, x, d, p) /\ Between(w, d, e)

LEMMA BinaryDataIs ==
  ASSUME NEW w, NEW d, BinaryData(w, d)
  PROVE  IsList(w) /\ Len(w) \in Nat /\ Len(w) >= 2 /\ w[1] = d
<1>1. PICK e, x, p : Escaped(e, x, d, p) /\ Between(w, d, e)
  BY DEF BinaryData
<1>2. Len(e) \in Nat
  BY <1>1, ListIs DEF Escaped
<1>3. IsList(w) /\ Len(w) = Len(e) + 2 /\ w[1] = d
  BY <1>1 DEF Between
<1> QED BY <1>2, <1>3

LEMMA Jt808FrameIs ==
  ASSUME conn.protocol = "jt808", IsConnection(conn), NEW type, NEW body, IsList(body), NEW index,
         NEW lie, NEW length, NEW error
  PROVE  LET f == jt808_frame(type, body, conn, index, lie, length, error) IN
         BinaryData(f, conn.delimiter)
<1> DEFINE v2019 == conn.version = 2019
           d == conn.delimiter
           number == length + (IF v2019 \/ lie THEN 16384 ELSE 0)
           version == IF v2019 THEN <<VERSION_2019>> ELSE <<>>
           id == bcd(Padded(conn.device, id_length(conn.delimiter, v2019)))
           serial == IF type \in SHORT_INDEX THEN <<index % 256>> ELSE Be(index % 65536, 2)
           raw == Be(type, 2) \o Be(number, 2) \o version \o id \o serial \o body
           sum == Xor8(Xored(raw), error)
           e == escape(Append(raw, sum), d)
           f == <<d>> \o e \o <<d>>
<1>1. jt808_frame(type, body, conn, index, lie, length, error) = f
  BY DEF jt808_frame
<1>2. d \in {STANDARD, ALTERNATIVE} /\ conn.device \in Seq(Digit) /\ Len(conn.device) = 12
  BY DEF IsConnection
<1>3. IsList(id)
  <2>1. id_length(conn.delimiter, v2019) \in Nat /\ id_length(conn.delimiter, v2019) >= 6
    BY DEF id_length
  <2>2. IsList(conn.device)
    BY <1>2 DEF IsList
  <2> QED BY <1>2, <2>1, <2>2, PaddedList, BcdList
<1>4. IsList(version) /\ IsList(serial)
  BY OneByte, NoList, BeList
<1>5. \A v : IsList(Be(v, 2))
  BY BeList
<1> HIDE DEF v2019, number, version, id, serial
<1>6. IsList(raw)
  BY <1>3, <1>4, <1>5, ListJoined
<1> HIDE DEF raw, sum
<1>7. PICK p : Escaped(e, Append(raw, sum), d, p)
  <2>1. IsList(Append(raw, sum))
    BY <1>6, OneMore
  <2> QED BY <1>2, <2>1, EscapeIs DEF IsDelimiter, STANDARD, ALTERNATIVE
<1> HIDE DEF e
<1>8. Between(f, d, e)
  <2>1. IsList(e)
    BY <1>7 DEF Escaped
  <2> QED BY <2>1, BetweenDelimiters
<1> HIDE DEF f
<1> QED BY <1>1, <1>7, <1>8 DEF BinaryData

(* No closing parenthesis. *)
NoClose(s) == IsList(s) /\ \A i \in 1 .. Len(s) : s[i] # 41

LEMMA NoCloseJoined == ASSUME NEW s, NEW t, NoClose(s), NoClose(t) PROVE NoClose(s \o t)
<1> DEFINE u == s \o t
<1>1. /\ IsList(u) /\ Len(u) = Len(s) + Len(t)
      /\ \A i \in 1 .. Len(s) : u[i] = s[i]
      /\ \A i \in 1 .. Len(t) : u[Len(s) + i] = t[i]
  BY Joined DEF NoClose
<1>2. Len(s) \in Nat /\ Len(t) \in Nat
  BY ListIs DEF NoClose
<1> HIDE DEF u
<1>3. ASSUME NEW i \in 1 .. Len(u) PROVE u[i] # 41
  <2>1. CASE i \in 1 .. Len(s)
    BY <1>1, <2>1 DEF NoClose
  <2>2. CASE i \notin 1 .. Len(s)
    <3> DEFINE j == i - Len(s)
    <3>1. j \in 1 .. Len(t) /\ Len(s) + j = i
      BY <1>1, <1>2, <2>2
    <3> HIDE DEF j
    <3>2. u[Len(s) + j] = t[j] /\ t[j] # 41
      BY <1>1, <3>1 DEF NoClose
    <3> QED BY <3>1, <3>2
  <2> QED BY <2>1, <2>2
<1>4. NoClose(u)
  BY <1>1, <1>3 DEF NoClose
<1> QED BY <1>4 DEF u

LEMMA AsciiNoClose ==
  ASSUME NEW d \in Seq(Digit) PROVE NoClose(Ascii(d))
<1>1. IsList(d)
  BY DEF IsList
<1>2. IsList(Ascii(d)) /\ Len(Ascii(d)) = Len(d)
  BY <1>1, AsciiList
<1>3. ASSUME NEW i \in 1 .. Len(d) PROVE Ascii(d)[i] # 41
  <2>1. d[i] \in Digit /\ i \in DOMAIN d
    BY ElementOfSeq
  <2>2. Ascii(d)[i] = 48 + d[i]
    BY <2>1 DEF Ascii
  <2>3. 48 + d[i] # 41
    BY <2>1 DEF Digit
  <2> QED BY <2>2, <2>3
<1> QED BY <1>2, <1>3 DEF NoClose

LEMMA DecimalDigits == ASSUME NEW v \in Nat PROVE Decimal(v, 3) \in Seq(Digit)
<1>1. 10 ^ 0 = 1 /\ 10 ^ 1 = 10 /\ 10 ^ 2 = 100
  OBVIOUS
<1> DEFINE e(i) == (v \div 10 ^ (3 - i)) % 10
           n == 3
<1>2. ASSUME NEW i \in 1 .. 3 PROVE e(i) \in Digit
  <2> DEFINE m == 3 - i
             p == 10 ^ m
  <2>1. m = 0 \/ m = 1 \/ m = 2
    OBVIOUS
  <2> HIDE DEF m
  <2>5. p \in Nat \ {0}
    <3>1. CASE m = 0
      BY <1>1, <3>1
    <3>2. CASE m = 1
      BY <1>1, <3>2
    <3>3. CASE m = 2
      BY <1>1, <3>3
    <3> QED BY <2>1, <3>1, <3>2, <3>3
  <2> HIDE DEF p
  <2>6. v \div p \in Nat
    BY <2>5
  <2>7. (v \div p) % 10 \in 0 .. 9
    BY <2>6
  <2> QED BY <2>7 DEF p, m, Digit
<1>3. Decimal(v, 3) = [i \in 1 .. n |-> e(i)]
  BY DEF Decimal
<1>4. n \in Nat /\ \A i \in 1 .. n : e(i) \in Digit
  BY <1>2
<1> HIDE DEF e, n
<1>5. [i \in 1 .. n |-> e(i)] \in Seq(Digit)
  BY <1>4
<1> QED BY <1>3, <1>5

LEMMA CommandNoClose == ASSUME NEW c \in Commands PROVE NoClose(c)
<1>1. CASE c = BASE2
  <2>1. c \in Seq(Nat) /\ \A i \in 1 .. Len(c) : c[i] # 41
    BY <1>1 DEF BASE2
  <2> QED BY <2>1 DEF NoClose, IsList
<1>2. CASE c # BASE2
  <2>1. /\ c \in [1 .. 15 -> Byte] /\ SubSeq(c, 1, 7) = RESULT
        /\ c[8] \in 49 .. 57 /\ c[9] = 44 /\ \A i \in 10 .. 15 : c[i] \in 48 .. 57
    BY <1>2 DEF Commands
  <2> DEFINE n == 15
  <2>2. n \in Nat /\ c \in [1 .. n -> Byte]
    BY <2>1
  <2>3. \A i \in 1 .. n : i \in 1 .. 7 \/ i = 8 \/ i = 9 \/ i \in 10 .. 15
    OBVIOUS
  <2>4. n = 15 /\ 7 <= n
    OBVIOUS
  <2> HIDE DEF n
  <2>5. c \in Seq(Byte) /\ Len(c) = n
    BY <2>2
  <2>6. \A i \in 1 .. 7 : c[i] # 41
    <3> DEFINE m == 7
    <3>1. m \in Nat /\ m <= n /\ SubSeq(c, 1, m) = RESULT /\ m >= 1
      BY <2>1, <2>4
    <3>2. \A i \in 1 .. m : RESULT[i] # 41
      BY DEF RESULT
    <3> HIDE DEF m
    <3>3. \A i \in 1 .. m : SubSeq(c, 1, m)[i] = c[i]
      BY <2>2, <2>5, <3>1
    <3>4. \A i \in 1 .. m : c[i] # 41
      BY <3>1, <3>2, <3>3
    <3> QED BY <3>4 DEF m
  <2>7. c[8] # 41 /\ c[9] # 41 /\ \A i \in 10 .. 15 : c[i] # 41
    BY <2>1
  <2>8. \A i \in 1 .. n : c[i] # 41
    BY <2>3, <2>6, <2>7
  <2> QED BY <2>5, <2>8 DEF NoClose, IsList
<1> QED BY <1>1, <1>2

(* A sentence: one opening parenthesis first, and no closing one but last. *)
SentenceData(d) ==
  /\ IsList(d) /\ Len(d) >= 2 /\ d[1] = 40 /\ d[Len(d)] = 41
  /\ \A i \in 1 .. Len(d) - 1 : d[i] # 41

LEMMA SentenceIs ==
  ASSUME NEW t \in Seq(Digit), NEW index \in Nat, NEW command \in Commands
  PROVE  SentenceData(sentence(sentence_fields(t, index, command)))
<1> DEFINE v == index % 1000
           digits == Decimal(v, 3)
           a == Ascii(t)
           b == <<44, 49, 44>>
           d == Ascii(digits)
           comma == <<44>>
           text == a \o b \o d \o comma \o command
           open == <<40>>
           close == <<41>>
           s == open \o text
           w == s \o close
<1>1. v \in Nat
  OBVIOUS
<1>2. sentence(sentence_fields(t, index, command)) = w
  BY DEF sentence, sentence_fields
<1> HIDE DEF v
<1>3. NoClose(a) /\ NoClose(d) /\ NoClose(command)
  BY <1>1, AsciiNoClose, DecimalDigits, CommandNoClose
<1>4. NoClose(b) /\ NoClose(comma) /\ NoClose(open)
  <2>1. b \in Seq(Nat) /\ comma \in Seq(Nat) /\ open \in Seq(Nat)
    OBVIOUS
  <2>2. \A i \in 1 .. Len(b) : b[i] # 41
    OBVIOUS
  <2>3. \A i \in 1 .. Len(comma) : comma[i] # 41
    OBVIOUS
  <2>4. \A i \in 1 .. Len(open) : open[i] # 41
    OBVIOUS
  <2> HIDE DEF b, comma, open
  <2> QED BY <2>1, <2>2, <2>3, <2>4 DEF NoClose, IsList
<1>5. IsList(close) /\ Len(close) = 1 /\ close[1] = 41 /\ Len(open) = 1 /\ open[1] = 40
  BY OneList
<1> HIDE DEF digits, a, b, d, comma, open, close
<1> DEFINE t1 == a \o b
           t2 == t1 \o d
           t3 == t2 \o comma
           t4 == t3 \o command
<1>6. NoClose(t1)
  BY <1>3, <1>4, NoCloseJoined
<1>7. s = open \o t4
  OBVIOUS
<1> HIDE DEF t1
<1>8. NoClose(t2)
  BY <1>3, <1>6, NoCloseJoined
<1> HIDE DEF t2
<1>9. NoClose(t3)
  BY <1>4, <1>8, NoCloseJoined
<1> HIDE DEF t3
<1>10. NoClose(t4)
  BY <1>3, <1>9, NoCloseJoined
<1> HIDE DEF t4, text
<1>11. NoClose(s)
  BY <1>4, <1>7, <1>10, NoCloseJoined
<1>12. Len(s) = 1 + Len(t4) /\ Len(t4) \in Nat /\ s[1] = 40
  <2>1. IsList(open) /\ IsList(t4)
    BY <1>4, <1>10 DEF NoClose
  <2>2. Len(open \o t4) = Len(open) + Len(t4)
    BY <2>1, Joined
  <2>3. \A i \in 1 .. Len(open) : (open \o t4)[i] = open[i]
    BY <2>1, Joined
  <2>4. Len(t4) \in Nat
    BY <2>1, ListIs
  <2> HIDE DEF s
  <2> QED BY <1>5, <1>7, <2>2, <2>3, <2>4
<1> HIDE DEF s
<1>13. IsList(s) /\ Len(s) \in Nat /\ Len(s) >= 1
  BY <1>11, <1>12 DEF NoClose
<1> HIDE DEF w
<1>14. IsList(s) /\ IsList(close)
  BY <1>5, <1>13
<1>15. IsList(s \o close) /\ Len(s \o close) = Len(s) + Len(close)
  BY <1>14, Joined
<1>16. /\ \A i \in 1 .. Len(s) : (s \o close)[i] = s[i]
       /\ \A i \in 1 .. Len(close) : (s \o close)[Len(s) + i] = close[i]
  <2>1. \A i \in 1 .. Len(s) : (s \o close)[i] = s[i]
    BY <1>14, Joined
  <2>2. \A i \in 1 .. Len(close) : (s \o close)[Len(s) + i] = close[i]
    BY <1>14, Joined
  <2> QED BY <2>1, <2>2
<1>17. IsList(w) /\ Len(w) = Len(s) + 1 /\ w[Len(s) + 1] = 41 /\ \A i \in 1 .. Len(s) : w[i] = s[i]
  <2>1. w = s \o close
    BY DEF w
  <2>2. (s \o close)[Len(s) + 1] = 41
    <3>1. 1 \in 1 .. Len(close)
      BY <1>5
    <3>2. (s \o close)[Len(s) + 1] = close[1]
      BY <1>16, <3>1
    <3> QED BY <1>5, <3>2
  <2> QED BY <1>5, <1>15, <1>16, <2>1, <2>2
<1>18. Len(w) - 1 = Len(s) /\ 1 \in 1 .. Len(s)
  BY <1>13, <1>17
<1>19. SentenceData(w)
  BY <1>11, <1>12, <1>13, <1>17, <1>18 DEF SentenceData, NoClose
<1> QED BY <1>2, <1>19
(* A segment of a JT808 connection with that delimiter. A frame, cut or    *)
(* not, opens as its framing says.                                         *)
Opens(data, framing, d) == Len(data) >= 1 /\ data[1] = IF framing = <<40>> THEN 40 ELSE d

Jt808Is(s, d) ==
  /\ IsList(s.data)
  /\ s.rec.kind = "frame" => Opens(s.data, s.rec.framing, d)
  /\ s.rec.kind = "frame" /\ s.rec.fault # "truncated" =>
       IF s.rec.framing = <<40>> THEN SentenceData(s.data) ELSE BinaryData(s.data, d)

LEMMA BinaryIs ==
  ASSUME conn.protocol = "jt808", IsConnection(conn), NEW c, Jt808Drawn(c), NEW counter
  PROVE  LET s == jt808_segment(conn, counter, c) IN
         /\ BinaryData(s.whole, conn.delimiter)
         /\ s.rec.framing # <<40>> /\ s.rec.fault = c.fault
         /\ \A m : /\ [s.rec EXCEPT !.frame_length = m].fault = c.fault
                  /\ [s.rec EXCEPT !.frame_length = m].framing = s.rec.framing
<1> DEFINE typed == Jt808Types(c)
           body == typed[2]
           correct == Len(body)
           length == IF c.fault = "length_disagreement" THEN correct + LengthChange(c.with, correct, 1023)
                     ELSE correct
           error == IF c.fault = "bad_checksum" THEN c.with ELSE 0
           lie == c.fault = "flag_lying"
           f == jt808_frame(typed[1], body, conn, counter, lie, length, error)
           shown == counter % (IF typed[1] \in SHORT_INDEX THEN 256 ELSE 65536)
           pairs == Escapes(f)
           lf == IF c.fault = "length_disagreement" THEN length ELSE 0
           rec == [FrameRecord(conn, <<conn.delimiter>>, typed[1], c.fault, c.fields) EXCEPT
                     !.counter = shown, !.check_error = error, !.escapes = pairs, !.length_field = lf]
<1>1. jt808_segment(conn, counter, c) = [whole |-> f, rec |-> rec]
  BY DEF jt808_segment
<1>2. IsList(body)
  BY Jt808BodyIs
<1> HIDE DEF typed, body, length, error, lie
<1>3. BinaryData(f, conn.delimiter)
  BY <1>2, Jt808FrameIs
<1> HIDE DEF f, shown, pairs, lf
<1>4. <<conn.delimiter>> # <<40>>
  BY DEF IsConnection, STANDARD, ALTERNATIVE
<1>5. rec.framing = <<conn.delimiter>> /\ rec.fault = c.fault
  BY DEF FrameRecord
<1>6. \A m : /\ [rec EXCEPT !.frame_length = m].fault = c.fault
             /\ [rec EXCEPT !.frame_length = m].framing = rec.framing
  BY DEF FrameRecord
<1> HIDE DEF rec
<1> QED BY <1>1, <1>3, <1>4, <1>5, <1>6

LEMMA WholeSentenceIs ==
  ASSUME IsConnection(conn), NEW c, NEW counter \in Nat, c.fields \in [command : Commands]
  PROVE  LET s == sentence_segment(conn, counter, c) IN
         /\ SentenceData(s.whole) /\ s.rec.fault = c.fault /\ s.rec.framing = <<40>>
         /\ \A m : /\ [s.rec EXCEPT !.frame_length = m].fault = c.fault
                  /\ [s.rec EXCEPT !.frame_length = m].framing = <<40>>
<1> DEFINE f == sentence_fields(conn.device, counter, c.fields.command)
           rec == FrameRecord(conn, <<40>>, -1, c.fault, f)
           w == sentence(f)
<1>1. sentence_segment(conn, counter, c) = [whole |-> w, rec |-> rec]
  BY DEF sentence_segment
<1>2. conn.device \in Seq(Digit) /\ c.fields.command \in Commands
  BY DEF IsConnection
<1>3. SentenceData(w)
  BY <1>2, SentenceIs
<1> HIDE DEF f, w
<1>4. /\ rec.fault = c.fault /\ rec.framing = <<40>>
      /\ \A m : /\ [rec EXCEPT !.frame_length = m].fault = c.fault
               /\ [rec EXCEPT !.frame_length = m].framing = <<40>>
  BY DEF FrameRecord
<1> HIDE DEF rec
<1> QED BY <1>1, <1>3, <1>4

(* What is left of a cut list. *)
LEMMA FirstPart ==
  ASSUME NEW s, IsList(s), Len(s) >= 1, NEW n \in 1 .. Len(s) - 1
  PROVE  IsList(SubSeq(s, 1, n)) /\ Len(SubSeq(s, 1, n)) >= 1 /\ SubSeq(s, 1, n)[1] = s[1]
<1>1. Len(s) \in Nat
  BY ListIs
<1>2. PICK S : s \in Seq(S)
  BY DEF IsList
<1>3. SubSeq(s, 1, n) \in Seq(S) /\ Len(SubSeq(s, 1, n)) = n /\ SubSeq(s, 1, n)[1] = s[1]
  BY <1>1, <1>2
<1> QED BY <1>3 DEF IsList

LEMMA Jt808SegmentIs ==
  ASSUME conn.protocol = "jt808", IsConnection(conn), NEW counter \in Nat, NEW c,
         c = Session(conn) \/ IsDrawn(conn, c, Segment(conn, counter, c).whole)
  PROVE  /\ Jt808Is(Segment(conn, counter, c), conn.delimiter)
         /\ c = Session(conn) => /\ Len(Segment(conn, counter, c).data) >= 2
                                 /\ Segment(conn, counter, c).data[1] = conn.delimiter
<1> DEFINE g == Segment(conn, counter, c)
<1>1. CASE c # Session(conn) /\ c.name = "garbage"
  <2>1. g = [data |-> c.data, whole |-> <<>>, rec |-> [kind |-> "garbage", alphabet |-> c.alphabet]]
    BY <1>1 DEF Segment
  <2>2. IsList(c.data)
    BY <1>1 DEF IsDrawn, IsList
  <2>3. g.data = c.data /\ g.rec.kind = "garbage"
    BY <2>1
  <2> HIDE DEF g
  <2> QED BY <1>1, <2>2, <2>3 DEF Jt808Is, g
<1>2. CASE ~(c # Session(conn) /\ c.name = "garbage")
  <2> DEFINE s == IF c.name = "sentence" THEN sentence_segment(conn, counter, c)
                  ELSE jt808_segment(conn, counter, c)
             cut == [s.rec EXCEPT !.frame_length = Len(s.whole)]
             part == SubSeq(s.whole, 1, c.with)
  <2>1. c.name # "garbage" /\ (c = Session(conn) => c.name = "auth" /\ c.fault = "none")
    BY <1>2 DEF Session
  <2>2. g = IF c.fault = "truncated"
              THEN [data |-> part, whole |-> s.whole, rec |-> cut]
              ELSE [data |-> s.whole, whole |-> s.whole, rec |-> s.rec]
    BY <2>1 DEF Segment
  <2>3. g.whole = s.whole
    BY <2>2
  <2>4. c.fault = "truncated" => c.with \in 1 .. Len(s.whole) - 1
    <3>1. CASE c = Session(conn)
      BY <2>1, <3>1
    <3>2. CASE c # Session(conn)
      <4>1. c.with \in FaultDraws(conn, g.whole, c.fault)
        BY <1>2, <3>2 DEF IsDrawn
      <4> HIDE DEF g, s
      <4> QED BY <2>3, <4>1 DEF FaultDraws
    <3> QED BY <3>1, <3>2
  <2>5. CASE c.name = "sentence"
    <3>1. c # Session(conn) /\ c.fields \in [command : Commands]
      BY <1>2, <2>1, <2>5 DEF IsDrawn, DrawnFields
    <3>2. /\ SentenceData(s.whole) /\ s.rec.fault = c.fault /\ s.rec.framing = <<40>>
          /\ cut.fault = c.fault /\ cut.framing = <<40>>
      BY <2>5, <3>1, WholeSentenceIs
    <3>5. IsList(s.whole) /\ Len(s.whole) \in Nat /\ Len(s.whole) >= 1 /\ s.whole[1] = 40
      BY <3>2, ListIs DEF SentenceData
    <3> HIDE DEF s, cut, part
    <3>3. CASE c.fault = "truncated"
      <4>1. g.data = part /\ g.rec = cut
        BY <2>2, <3>3
      <4>2. IsList(part) /\ Len(part) >= 1 /\ part[1] = 40
        BY <2>4, <3>3, <3>5, FirstPart DEF part
      <4>3. Opens(part, cut.framing, conn.delimiter)
        BY <3>2, <4>2 DEF Opens
      <4>4. cut.fault = "truncated"
        BY <3>2, <3>3
      <4> HIDE DEF g
      <4> QED BY <3>1, <4>1, <4>2, <4>3, <4>4 DEF Jt808Is, g
    <3>4. CASE c.fault # "truncated"
      <4>1. g.data = s.whole /\ g.rec = s.rec
        BY <2>2, <3>4
      <4>2. Opens(s.whole, s.rec.framing, conn.delimiter)
        BY <3>2, <3>5 DEF Opens
      <4> HIDE DEF g
      <4> QED BY <3>1, <3>2, <3>5, <4>1, <4>2 DEF Jt808Is, g
    <3> QED BY <3>3, <3>4
  <2>6. CASE c.name # "sentence"
    <3>1. Jt808Drawn(c)
      BY <1>2, <2>1, <2>6 DEF Jt808Drawn, IsDrawn
    <3>2. /\ BinaryData(s.whole, conn.delimiter)
          /\ s.rec.framing # <<40>> /\ s.rec.fault = c.fault
          /\ cut.fault = c.fault /\ cut.framing = s.rec.framing
      BY <2>6, <3>1, BinaryIs
    <3>5. IsList(s.whole) /\ Len(s.whole) \in Nat /\ Len(s.whole) >= 2 /\ s.whole[1] = conn.delimiter
      BY <3>2, BinaryDataIs
    <3> HIDE DEF s, cut, part
    <3>3. CASE c.fault = "truncated"
      <4>1. g.data = part /\ g.rec = cut /\ c # Session(conn)
        BY <2>1, <2>2, <3>3
      <4>2. IsList(part) /\ Len(part) >= 1 /\ part[1] = conn.delimiter
        BY <2>4, <3>3, <3>5, FirstPart DEF part
      <4>3. Opens(part, cut.framing, conn.delimiter)
        BY <3>2, <4>2 DEF Opens
      <4>4. cut.fault = "truncated"
        BY <3>2, <3>3
      <4> HIDE DEF g
      <4> QED BY <4>1, <4>2, <4>3, <4>4 DEF Jt808Is, g
    <3>4. CASE c.fault # "truncated"
      <4>1. g.data = s.whole /\ g.rec = s.rec
        BY <2>2, <3>4
      <4>2. Opens(s.whole, s.rec.framing, conn.delimiter)
        BY <3>2, <3>5 DEF Opens
      <4> HIDE DEF g
      <4> QED BY <3>2, <3>5, <4>1, <4>2 DEF Jt808Is, g
    <3> QED BY <3>3, <3>4
  <2> QED BY <2>5, <2>6
<1> QED BY <1>1, <1>2

-----------------------------------------------------------------------------
(* What the JT808 decoder returns. *)
(* Unescaping a binary frame leaves its opening delimiter first. *)
LEMMA UnescapedIs ==
  ASSUME NEW b, NEW at \in Nat, NEW index \in Nat, at < index, IsDelimiter(b[at + 1])
  PROVE  LET u == Unescaped(b, at, index) IN IsList(u) /\ u[1] = b[at + 1]
<1> DEFINE d == b[at + 1]
           item == UnescapeItem(b, d, at, index)
           step == UnescapeStep(b, d, at, index)
<1>1. PICK f : Unfold(f, at, index, item, step) /\ Unescaped(b, at, index) = f[at]
  <2>1. at <= index /\ at \in Nat /\ index \in Nat
    OBVIOUS
  <2> HIDE DEF item, step
  <2>2. \E f : /\ Unfold(f, at, index, UnescapeItem(b, b[at + 1], at, index), UnescapeStep(b, b[at + 1], at, index))
               /\ Unescaped(b, at, index) = f[at]
    BY <2>1, UnescapedUnfolds
  <2> QED BY <2>2 DEF item, step
<1>2. Steps(at, index, step)
  BY DEF Steps, UnescapeStep
<1>3. \A i \in at .. index : IsList(item[i])
  BY OneList, NoList DEF UnescapeItem
<1>4. at \in at .. index /\ at \in at .. index + 2 /\ at + 1 \in at .. index + 2 /\ ~(at > index)
  OBVIOUS
<1>5. d \notin Introduces(d)
  BY TablesAgree DEF IsDelimiter
<1>6. item[at] = <<d>> /\ step[at] = 1
  BY <1>4, <1>5 DEF UnescapeItem, UnescapeStep
<1> HIDE DEF item, step
<1>7. \A i \in at .. index + 2 : IsList(f[i])
  BY <1>1, <1>2, <1>3, UnfoldLists
<1>8. f[at] = <<d>> \o f[at + 1]
  <2>1. f[at] = item[at] \o f[at + step[at]]
    BY <1>1, <1>4 DEF Unfold
  <2> QED BY <1>6, <2>1
<1> DEFINE one == <<d>>
           rest == f[at + 1]
<1>9. IsList(one) /\ Len(one) = 1 /\ one[1] = d /\ IsList(rest) /\ IsList(f[at])
  BY <1>4, <1>7, OneList
<1> HIDE DEF one, rest
<1>10. \A i \in 1 .. Len(one) : (one \o rest)[i] = one[i]
  BY <1>9, Joined
<1>11. (one \o rest)[1] = d
  <2>1. 1 \in 1 .. Len(one)
    BY <1>9
  <2> QED BY <1>9, <1>10, <2>1
<1> QED BY <1>1, <1>8, <1>9, <1>11 DEF one, rest

LEMMA SkippedIs ==
  ASSUME NEW b, IsList(b), NEW at \in Nat
  PROVE  LET from == Skipped(b, at) IN
         /\ from \in Nat /\ (from < Len(b) => b[from + 1] \in {40, 126, 231})
         /\ at < Len(b) /\ b[at + 1] \in {40, 126, 231} => from = at
<1> DEFINE starts == {i \in at .. Len(b) - 1 : b[i + 1] \in {40, 126, 231}}
           from == Skipped(b, at)
<1>1. Len(b) \in Nat
  BY ListIs
<1>2. starts \in SUBSET Nat
  BY <1>1
<1>3. from = IF starts = {} THEN Len(b) ELSE Min(starts)
  BY DEF Skipped
<1>4. \A i \in starts : i \in at .. Len(b) - 1 /\ b[i + 1] \in {40, 126, 231}
  OBVIOUS
<1>5. at < Len(b) /\ b[at + 1] \in {40, 126, 231} => at \in starts
  BY <1>1
<1> HIDE DEF starts, from
<1>6. CASE starts = {}
  BY <1>1, <1>3, <1>5, <1>6 DEF from
<1>7. CASE starts # {}
  <2>1. from \in starts /\ \A x \in starts : from <= x
    BY <1>2, <1>3, <1>7, LeastIn
  <2>2. from \in Nat /\ at <= from /\ b[from + 1] \in {40, 126, 231}
    BY <1>1, <1>4, <2>1
  <2>3. at \in starts => from = at
    BY <2>1, <2>2
  <2> QED BY <1>5, <2>2, <2>3 DEF from
<1> QED BY <1>6, <1>7

(* A stream that opens with a binary frame. *)
BinaryFirst(b) == b[1] \in {126, 231}

(* With the uncorrected length, what is returned from behind the first     *)
(* byte of a buffer is no sentence: a binary frame keeps its delimiter,    *)
(* and a slice that a sentence's end gave has that end before its last     *)
(* byte.                                                                   *)
LEMMA NotReturned ==
  ASSUME NEW b, IsList(b), BinaryFirst(b), NEW at \in Nat, ~fixed
  PROVE  LET f == jt808_decode(b, at, fixed) IN
         f.next \in Nat /\ (f.status = "frame" => ~SentenceData(f.frame))
<1> DEFINE from == Skipped(b, at)
           first == b[from + 1]
           close == IF first = 40 THEN 41 ELSE first
           ends == IndicesOf(b, from + 1, close)
           m == Min(ends)
           f == jt808_decode(b, at, fixed)
           u == Unescaped(b, from, m)
<1>1. f = IF Len(b) - from < 2 THEN None(from)
          ELSE IF ends = {} THEN None(from)
          ELSE IF first = 40 THEN Took(b, from, SentenceLength(from, m, fixed))
          ELSE [status |-> "frame", at |-> from, next |-> PastFrame(m), frame |-> u]
  BY DEF jt808_decode
<1>2. from \in Nat /\ (from < Len(b) => first \in {40, 126, 231})
  BY SkippedIs
<1>3. Len(b) \in Nat
  BY ListIs
<1>4. ends \in SUBSET Nat /\ \A i \in ends : i \in from + 1 .. Len(b) - 1 /\ b[i + 1] = close
  BY <1>2, <1>3 DEF IndicesOf
<1>5. first = 40 => from # 0
  <2>1. from = 0 => first = b[1]
    BY <1>2
  <2> QED BY <2>1 DEF BinaryFirst
<1> HIDE DEF from, f
<1>6. CASE Len(b) - from < 2 \/ ends = {}
  <2>1. f = None(from)
    BY <1>1, <1>6
  <2> QED BY <1>2, <2>1 DEF None, f
<1>7. CASE ~(Len(b) - from < 2 \/ ends = {})
  <2>1. m \in ends
    BY <1>4, <1>7, LeastIn
  <2>2. m \in Nat /\ from < m /\ m < Len(b) /\ b[m + 1] = close /\ first \in {40, 126, 231}
    BY <1>2, <1>3, <1>4, <2>1
  <2> HIDE DEF ends, m
  <2>3. CASE first = 40
    <3> DEFINE to == from + (m + 1)
               part == Slice(b, from, to)
    <3>1. SentenceLength(from, m, fixed) = m + 1
      BY <2>2 DEF SentenceLength
    <3>2. f = Took(b, from, m + 1)
      BY <1>1, <1>7, <2>3, <3>1
    <3>3. CASE m + 1 > Len(b) - from
      <4>1. f = Raised(from)
        BY <3>2, <3>3 DEF Took
      <4> QED BY <1>2, <4>1 DEF Raised, f
    <3>4. CASE ~(m + 1 > Len(b) - from)
      <4>1. f = [status |-> "frame", at |-> from, next |-> to, frame |-> part]
        BY <3>2, <3>4 DEF Took
      <4>2. to \in Nat /\ from <= to /\ to <= Len(b) /\ to - from = m + 1
        BY <1>2, <1>3, <2>2, <3>4
      <4> HIDE DEF to
      <4>3. from \in Nat /\ to \in Nat
        BY <1>2, <4>2
      <4>4. Len(part) = to - from /\ \A x \in 1 .. to - from : part[x] = b[from + x]
        BY <4>2, <4>3, SliceOf
      <4> HIDE DEF part
      <4>5. Len(part) = m + 1 /\ \A i \in 1 .. m + 1 : part[i] = b[from + i]
        BY <4>2, <4>4
      <4> DEFINE i == m + 1 - from
      <4>6. i \in 1 .. m /\ i \in 1 .. m + 1 /\ from + i = m + 1 /\ (m + 1) - 1 = m
        BY <1>2, <1>5, <2>2, <2>3
      <4> HIDE DEF i
      <4>7. part[i] = 41
        BY <2>2, <2>3, <4>5, <4>6
      <4>8. ~SentenceData(part)
        BY <4>5, <4>6, <4>7 DEF SentenceData
      <4> QED BY <4>1, <4>2, <4>8 DEF f
    <3> QED BY <3>3, <3>4
  <2>4. CASE first # 40
    <3>1. f = [status |-> "frame", at |-> from, next |-> PastFrame(m), frame |-> u]
      BY <1>1, <1>7, <2>4
    <3>2. first \in {126, 231}
      BY <2>2, <2>4
    <3>3. u[1] = first
      BY <1>2, <2>2, <3>2, UnescapedIs DEF IsDelimiter
    <3> HIDE DEF u
    <3>4. ~SentenceData(u)
      BY <2>4, <3>3 DEF SentenceData
    <3>5. PastFrame(m) \in Nat
      BY <2>2 DEF PastFrame
    <3> QED BY <3>1, <3>4, <3>5 DEF f
  <2> QED BY <2>3, <2>4
<1> QED BY <1>6, <1>7

(* Alone in its buffer a sentence comes out whole. *)
LEMMA SentenceAlone ==
  ASSUME NEW d, SentenceData(d), ~fixed
  PROVE  jt808_decode(d, 0, fixed).frame = d
<1> DEFINE n == Len(d)
           ends == IndicesOf(d, 1, 41)
<1>1. IsList(d) /\ n \in Nat /\ n >= 2 /\ d[1] = 40 /\ d[n] = 41 /\ \A i \in 1 .. n - 1 : d[i] # 41
  BY ListIs DEF SentenceData
<1>2. Skipped(d, 0) = 0
  <2>1. 0 \in Nat /\ 0 < Len(d) /\ d[0 + 1] \in {40, 126, 231}
    BY <1>1
  <2> QED BY <1>1, <2>1, SkippedIs
<1>3. Min(ends) = n - 1 /\ ends # {}
  <2>1. ends \in SUBSET Nat /\ n - 1 \in ends
    BY <1>1 DEF IndicesOf
  <2>2. ASSUME NEW i \in ends PROVE i = n - 1
    <3>1. i \in 1 .. n - 1 /\ d[i + 1] = 41
      BY DEF IndicesOf
    <3>2. i # n - 1 => i + 1 \in 1 .. n - 1
      BY <1>1, <3>1
    <3> QED BY <1>1, <3>1, <3>2
  <2> HIDE DEF ends
  <2> QED BY <2>1, <2>2, LeastIn
<1>4. jt808_decode(d, 0, fixed) = Took(d, 0, n)
  <2> DEFINE from == Skipped(d, 0)
             first == d[from + 1]
             close == IF first = 40 THEN 41 ELSE first
             es == IndicesOf(d, from + 1, close)
             w == Took(d, from, SentenceLength(from, Min(es), fixed))
  <2>1. ~(Len(d) - from < 2) /\ es # {} /\ first = 40 => jt808_decode(d, 0, fixed) = w
    BY DEF jt808_decode
  <2> HIDE DEF from
  <2>2. from = 0 /\ from + 1 = 1
    BY <1>2 DEF from
  <2>3. first = 40 /\ es = ends
    BY <1>1, <2>2
  <2>4. ~(Len(d) - from < 2)
    BY <1>1, <2>2
  <2>5. SentenceLength(from, Min(es), fixed) = n
    <3> HIDE DEF es, ends, n
    <3> QED BY <1>1, <1>3, <2>3 DEF SentenceLength
  <2>6. w = Took(d, 0, n)
    BY <2>2, <2>5
  <2> HIDE DEF w, es, ends
  <2> QED BY <1>3, <2>1, <2>3, <2>4, <2>6
<1>5. Took(d, 0, n).frame = Slice(d, 0, n)
  BY <1>1 DEF Took
<1>6. Slice(d, 0, n) = d
  <2>1. Slice(d, 0, n) = SubSeq(d, 1, n)
    BY <1>1 DEF Slice
  <2>2. PICK S : d \in Seq(S)
    BY <1>1 DEF IsList
  <2> QED BY <1>1, <2>1, <2>2
<1> QED BY <1>4, <1>5, <1>6

(* What every state of a JT808 connection with uncorrected sentences has.  *)
Jt808Segs ==
  /\ IsList(segs) /\ Len(segs) >= 1
  /\ \A k \in 1 .. Len(segs) : Jt808Is(segs[k], conn.delimiter)
  /\ Len(segs[1].data) >= 1 /\ segs[1].data[1] \in {126, 231}

NoneReturned == IsList(out) /\ \A i \in 1 .. Len(out) : ~SentenceData(out[i].frame)

SInv ==
  /\ conn \in Conns
  /\ ~fixed => conn.protocol # "gt06" /\ Jt808Segs /\ r \in Nat /\ NoneReturned

LEMMA IsJt808 ==
  ASSUME conn \in Conns, conn.protocol # "gt06"
  PROVE  IsConnection(conn) /\ conn.protocol = "jt808" /\ conn.delimiter \in {126, 231}
<1>1. IsConnection(conn)
  BY ConnsAssumption
<1> QED BY <1>1 DEF IsConnection, STANDARD, ALTERNATIVE

LEMMA InitSInv == Init => SInv
<1> SUFFICES ASSUME Init, ~fixed
             PROVE  conn \in Conns /\ conn.protocol # "gt06" /\ Jt808Segs /\ r \in Nat /\ NoneReturned
  BY DEF SInv, Init
<1>1. conn \in Conns /\ conn.protocol # "gt06" /\ r \in Nat /\ out = <<>>
  BY DEF Init
<1>2. NoneReturned
  BY <1>1, NoList DEF NoneReturned
<1> DEFINE c == Session(conn)
           g == Segment(conn, FirstCounter(conn), c)
<1>3. IsConnection(conn) /\ conn.protocol = "jt808" /\ FirstCounter(conn) \in Nat /\ conn.delimiter \in {126, 231}
  BY <1>1, IsJt808, FirstType
<1>4. Jt808Is(g, conn.delimiter) /\ Len(g.data) >= 2 /\ g.data[1] = conn.delimiter
  BY <1>3, Jt808SegmentIs
<1>5. segs = <<g>>
  BY DEF Init
<1> HIDE DEF g
<1>6. IsList(segs) /\ Len(segs) = 1 /\ segs[1] = g
  BY <1>5, OneList
<1>7. Len(g.data) \in Nat
  BY <1>4, ListIs DEF Jt808Is
<1>8. Len(g.data) >= 1
  BY <1>4, <1>7
<1>9. Jt808Segs
  BY <1>3, <1>4, <1>6, <1>8 DEF Jt808Segs
<1> QED BY <1>1, <1>2, <1>9

LEMMA SendSInv == SInv /\ Send => SInv'
<1> SUFFICES ASSUME SInv, Send PROVE SInv'
  OBVIOUS
<1>1. conn' = conn /\ out' = out /\ r' = r /\ fixed' = fixed /\ conn \in Conns
  BY DEF SInv, Send
<1> SUFFICES ASSUME ~fixed PROVE conn.protocol # "gt06" /\ Jt808Segs' /\ r \in Nat /\ NoneReturned'
  BY <1>1 DEF SInv
<1>2. conn.protocol # "gt06" /\ Jt808Segs /\ r \in Nat /\ NoneReturned
  BY DEF SInv
<1>3. PICK c : LET g == Segment(conn, CounterAfter(Len(segs)), c) IN
               IsDrawn(conn, c, g.whole) /\ segs' = Append(segs, g)
  BY DEF Send, NextSegment
<1> DEFINE n == Len(segs)
           g == Segment(conn, CounterAfter(n), c)
<1>4. IsConnection(conn) /\ conn.protocol = "jt808" /\ n \in Nat
  BY <1>1, <1>2, IsJt808, ListIs DEF Jt808Segs
<1>5. CounterAfter(n) \in Nat
  BY <1>4, CounterType
<1>6. Jt808Is(g, conn.delimiter)
  BY <1>3, <1>4, <1>5, Jt808SegmentIs
<1> HIDE DEF g
<1>7. /\ IsList(segs') /\ Len(segs') = n + 1
      /\ segs'[n + 1] = g /\ \A i \in 1 .. n : segs'[i] = segs[i]
  BY <1>2, <1>3, OneMore DEF Jt808Segs, g
<1>8. ASSUME NEW k \in 1 .. n + 1 PROVE Jt808Is(segs'[k], conn.delimiter)
  <2>1. CASE k = n + 1
    BY <1>6, <1>7, <2>1
  <2>2. CASE k # n + 1
    <3>1. k \in 1 .. n
      BY <1>4, <2>2
    <3> QED BY <1>2, <1>7, <3>1 DEF Jt808Segs
  <2> QED BY <2>1, <2>2
<1>9. 1 \in 1 .. n /\ n + 1 >= 1
  BY <1>2, <1>4 DEF Jt808Segs
<1>10. segs'[1] = segs[1]
  BY <1>7, <1>9
<1> HIDE DEF n
<1>11. \A k \in 1 .. Len(segs') : Jt808Is(segs'[k], conn.delimiter)
  BY <1>7, <1>8
<1>12. Jt808Segs'
  BY <1>1, <1>2, <1>7, <1>9, <1>10, <1>11 DEF Jt808Segs
<1>13. NoneReturned'
  BY <1>1, <1>2 DEF NoneReturned
<1> QED BY <1>2, <1>12, <1>13

LEMMA FirstByte == Jt808Segs => IsList(Stream) /\ BinaryFirst(Stream)
<1> SUFFICES ASSUME Jt808Segs PROVE IsList(Stream) /\ BinaryFirst(Stream)
  OBVIOUS
<1> DEFINE n == Len(segs)
           ss == [k \in 1 .. n |-> segs[k].data]
<1>1. IsList(segs) /\ n \in Nat /\ n >= 1 /\ \A k \in 1 .. n : IsList(ss[k])
  BY ListIs DEF Jt808Segs, Jt808Is
<1>2. PICK S : \A k \in 1 .. n : ss[k] \in Seq(S)
  <2> HIDE DEF n, ss
  <2> QED BY <1>1, OneSet
<1>3. \A k \in 1 .. Len(segs) : segs[k].data \in Seq(S)
  BY <1>2
<1>4. /\ Stream \in Seq(S) /\ EndOf(0) = 0
      /\ \A k \in 1 .. Len(segs) :
           \A m \in 1 .. Len(segs[k].data) : Stream[EndOf(k - 1) + m] = segs[k].data[m]
  BY <1>1, <1>3, StreamIs
<1>5. 1 \in 1 .. Len(segs) /\ 1 \in 1 .. Len(segs[1].data)
  <2>1. Len(segs[1].data) \in Nat
    BY <1>1, ListIs
  <2> QED BY <1>1, <2>1 DEF Jt808Segs
<1>6. Stream[EndOf(1 - 1) + 1] = segs[1].data[1]
  BY <1>4, <1>5
<1>7. EndOf(1 - 1) + 1 = 1
  BY <1>4
<1>8. Stream[1] = segs[1].data[1]
  BY <1>6, <1>7
<1> QED BY <1>4, <1>8 DEF Jt808Segs, IsList, BinaryFirst

LEMMA ReturnSInv == SInv /\ Return => SInv'
<1> SUFFICES ASSUME SInv, Return PROVE SInv'
  OBVIOUS
<1>1. conn' = conn /\ segs' = segs /\ fixed' = fixed /\ conn \in Conns
  BY DEF SInv, Return
<1> SUFFICES ASSUME ~fixed PROVE conn.protocol # "gt06" /\ Jt808Segs' /\ r' \in Nat /\ NoneReturned'
  BY <1>1 DEF SInv
<1>2. conn.protocol # "gt06" /\ Jt808Segs /\ r \in Nat /\ NoneReturned
  BY DEF SInv
<1> DEFINE f == jt808_decode(Stream, r, fixed)
           e == [from |-> f.at, to |-> f.next, frame |-> f.frame]
<1>3. r' = f.next /\ ((f.status = "frame" /\ out' = Append(out, e)) \/ out' = out)
  BY <1>2 DEF Return, decode
<1>4. f.next \in Nat /\ (f.status = "frame" => ~SentenceData(f.frame))
  <2>1. IsList(Stream) /\ BinaryFirst(Stream)
    BY <1>2, FirstByte
  <2> QED BY <1>2, <2>1, NotReturned
<1> HIDE DEF f
<1>5. e.frame = f.frame
  OBVIOUS
<1> HIDE DEF e
<1>6. CASE f.status = "frame" /\ out' = Append(out, e)
  <2> DEFINE n == Len(out)
  <2>1. IsList(out) /\ n \in Nat /\ \A i \in 1 .. n : ~SentenceData(out[i].frame)
    BY <1>2, ListIs DEF NoneReturned
  <2>2. /\ IsList(out') /\ Len(out') = n + 1
        /\ out'[n + 1] = e /\ \A i \in 1 .. n : out'[i] = out[i]
    BY <1>6, <2>1, OneMore
  <2> HIDE DEF n
  <2>3. ASSUME NEW i \in 1 .. n + 1 PROVE ~SentenceData(out'[i].frame)
    <3>1. CASE i = n + 1
      BY <1>4, <1>5, <1>6, <2>2, <3>1
    <3>2. CASE i # n + 1
      <4>1. i \in 1 .. n
        BY <2>1, <3>2
      <4> QED BY <2>1, <2>2, <4>1
    <3> QED BY <3>1, <3>2
  <2>4. NoneReturned'
    BY <2>2, <2>3 DEF NoneReturned
  <2>5. Jt808Segs'
    BY <1>1, <1>2 DEF Jt808Segs
  <2> QED BY <1>2, <1>3, <1>4, <2>4, <2>5
<1>7. CASE out' = out
  <2>1. NoneReturned' /\ Jt808Segs'
    BY <1>1, <1>2, <1>7 DEF NoneReturned, Jt808Segs
  <2> QED BY <1>2, <1>3, <1>4, <2>1
<1> QED BY <1>3, <1>6, <1>7

LEMMA SInvStep == SInv /\ [Next]_vars => SInv'
<1> SUFFICES ASSUME SInv, [Next]_vars PROVE SInv'
  OBVIOUS
<1>1. CASE Send
  BY <1>1, SendSInv
<1>2. CASE Return
  BY <1>2, ReturnSInv
<1>3. CASE Sent \/ Ended \/ UNCHANGED vars
  <2>1. conn' = conn /\ segs' = segs /\ out' = out /\ r' = r /\ fixed' = fixed
    BY <1>3 DEF Sent, Ended, vars
  <2>2. (Jt808Segs => Jt808Segs') /\ (NoneReturned => NoneReturned')
    BY <2>1 DEF Jt808Segs, NoneReturned
  <2> QED BY <2>1, <2>2 DEF SInv
<1> QED BY <1>1, <1>2, <1>3 DEF Next

LEMMA SInvLost == SInv => NoSentenceUncorrected
<1> SUFFICES ASSUME SInv, ~fixed, NEW k \in DOMAIN segs, IsSentence(k), IsWhole(k) PROVE Lost(k)
  BY DEF NoSentenceUncorrected
<1>1. conn.protocol # "gt06" /\ Jt808Segs /\ NoneReturned
  BY DEF SInv
<1>2. k \in 1 .. Len(segs) /\ Len(segs) \in Nat
  BY <1>1, ListIs DEF Jt808Segs
<1>3. SentenceData(segs[k].data)
  BY <1>1, <1>2 DEF Jt808Segs, Jt808Is, IsSentence, IsWhole, IsFrame
<1>4. Alone(k) = segs[k].data
  BY <1>1, <1>3, SentenceAlone DEF Alone
<1>5. {i \in DOMAIN out : out[i].frame = Alone(k)} = {}
  <2>1. DOMAIN out = 1 .. Len(out)
    BY <1>1, ListIs DEF NoneReturned
  <2> QED BY <1>1, <1>3, <1>4, <2>1 DEF NoneReturned
<1>6. Cardinality({i \in DOMAIN out : out[i].frame = Alone(k)}) = 0
  BY <1>5, FS_EmptySet
<1> DEFINE J == {j \in 1 .. k - 1 : IsWhole(j) /\ Alone(j) = Alone(k)}
<1>7. Cardinality(J) \in Nat
  <2>1. IsFiniteSet(1 .. k - 1)
    BY <1>2, FS_Interval
  <2>2. J \subseteq 1 .. k - 1
    OBVIOUS
  <2> HIDE DEF J
  <2> QED BY <2>1, <2>2, FS_Subset, FS_CardinalityType
<1> HIDE DEF J
<1>8. Cardinality(J) >= 0
  BY <1>7
<1> QED BY <1>6, <1>8 DEF Lost, J

(* With the length that Traccar gives a sentence, none ever comes out of a *)
(* JT808 connection: whatever its frames hold, however they are cut, and   *)
(* wherever the framer is. A connection opens with a binary frame, so a    *)
(* sentence is never at the very start of the buffer.                      *)
THEOREM SentencesLost == Spec => []NoSentenceUncorrected
<1>1. Init => SInv
  BY InitSInv
<1>2. SInv /\ [Next]_vars => SInv'
  BY SInvStep
<1>3. SInv => NoSentenceUncorrected
  BY SInvLost
<1> QED BY <1>1, <1>2, <1>3, PTL DEF Spec

-----------------------------------------------------------------------------
(* What a framer in step returns. *)

(* d is at s in b. *)
StandsAt(b, s, d) ==
  /\ IsList(b) /\ IsList(d) /\ s + Len(d) <= Len(b)
  /\ \A m \in 1 .. Len(d) : b[s + m] = d[m]

LEMMA SliceStands ==
  ASSUME NEW b, NEW s \in Nat, NEW d, StandsAt(b, s, d)
  PROVE  Slice(b, s, s + Len(d)) = d
<1> DEFINE n == Len(d)
           j == s + n
           t == Slice(b, s, j)
<1>1. IsList(b) /\ IsList(d) /\ n \in Nat /\ Len(b) \in Nat
  BY ListIs DEF StandsAt
<1>2. j \in Nat /\ s <= j /\ j <= Len(b) /\ j - s = n
  <2>1. j <= Len(b)
    BY DEF StandsAt
  <2> QED BY <1>1, <2>1
<1> HIDE DEF j
<1>3. Len(t) = j - s /\ \A m \in 1 .. j - s : t[m] = b[s + m]
  BY <1>1, <1>2, SliceOf
<1>4. IsList(t)
  <2>1. PICK S : b \in Seq(S)
    BY <1>1 DEF IsList
  <2>2. t \in Seq(S)
    BY <1>2, <2>1, SliceIs
  <2> QED BY <2>2 DEF IsList
<1> HIDE DEF t, n
<1>5. \A m \in 1 .. n : t[m] = d[m]
  BY <1>2, <1>3 DEF StandsAt, n
<1>6. t = [m \in 1 .. n |-> t[m]] /\ d = [m \in 1 .. n |-> d[m]]
  BY <1>1, <1>2, <1>3, <1>4, ListIs DEF n
<1> QED BY <1>5, <1>6 DEF t, j, n

LEMMA TookIs ==
  ASSUME NEW b, NEW at, NEW n, ~(n > Len(b) - at)
  PROVE  Took(b, at, n) = [status |-> "frame", at |-> at, next |-> at + n, frame |-> Slice(b, at, at + n)]
BY DEF Took

(* The GT06 port never raises: no length that it takes leads past the end. *)
LEMMA Gt06Decodes ==
  ASSUME NEW b \in Seq(Byte), NEW at \in Nat
  PROVE  LET f == gt06_decode(b, at) IN
         f.status \in {"frame", "none"} /\ f.next \in Nat /\ f.at = at
<1> DEFINE n == Len(b)
           length == Gt06Length(b, at)
           stops == Stops(b, at)
           first == Min(stops)
           f == gt06_decode(b, at)
           pointed == n - at >= length /\ Slice(b, at + length - 2, at + length) = <<13, 10>>
           unheard == stops = {} \/ (at = 0 /\ b[1] = 13)
           k == first + 2 - at
<1>1. f = IF n - at < 5 THEN None(at) ELSE IF pointed THEN Took(b, at, length)
          ELSE IF unheard THEN None(at) ELSE Took(b, at, k)
  BY DEF gt06_decode
<1>2. n \in Nat
  BY LenProperties
<1>3. None(at).status = "none" /\ None(at).next = at /\ None(at).at = at
  BY DEF None
<1>4. ASSUME NEW m \in Int, ~(m > n - at), at + m \in Nat
      PROVE  Took(b, at, m).status = "frame" /\ Took(b, at, m).next = at + m /\ Took(b, at, m).at = at
  BY <1>4, TookIs
<1>5. n - at >= 5 => length \in Nat
  BY <1>2, Gt06LengthType
<1>6. stops \in SUBSET Nat /\ \A i \in stops : at <= i /\ i + 2 <= n
  <2>1. \A i \in stops : i \in at .. n - 1 /\ Slice(b, i + 1, i + 2) = <<10>>
    BY DEF Stops, IndicesOf
  <2>2. ASSUME NEW i \in stops PROVE i \in Nat /\ at <= i /\ i + 2 <= n
    <3>1. i \in Nat /\ at <= i
      BY <1>2, <2>1
    <3> QED BY <2>1, <3>1, StopIs
  <2> QED BY <2>2
<1>7. stops # {} => first \in stops
  BY <1>6, LeastIn
<1> HIDE DEF n, length, stops, first, f
<1>8. CASE n - at < 5
  BY <1>1, <1>3, <1>8 DEF f
<1>9. CASE ~(n - at < 5) /\ pointed
  <2>1. length \in Int /\ ~(length > n - at) /\ at + length \in Nat
    BY <1>2, <1>5, <1>9
  <2>2. f = Took(b, at, length)
    BY <1>1, <1>9
  <2> QED BY <1>4, <2>1, <2>2 DEF f
<1>10. CASE ~(n - at < 5) /\ ~pointed /\ unheard
  BY <1>1, <1>3, <1>10 DEF f
<1>11. CASE ~(n - at < 5) /\ ~pointed /\ ~unheard
  <2>1. first \in Nat /\ at <= first /\ first + 2 <= n
    BY <1>6, <1>7, <1>11
  <2>2. k \in Int /\ ~(k > n - at) /\ at + k \in Nat
    BY <1>2, <2>1
  <2>3. f = Took(b, at, k)
    BY <1>1, <1>11
  <2> HIDE DEF k
  <2> QED BY <1>4, <2>2, <2>3 DEF f
<1> QED BY <1>8, <1>9, <1>10, <1>11

(* The JT808 port raises for the uncorrected length of a sentence alone.   *)
LEMMA Jt808Decodes ==
  ASSUME NEW b, IsList(b), NEW at \in Nat
  PROVE  LET f == jt808_decode(b, at, fixed) IN
         /\ f.next \in Nat /\ f.at = Skipped(b, at)
         /\ fixed => f.status \in {"frame", "none"}
<1> DEFINE from == Skipped(b, at)
           first == b[from + 1]
           close == IF first = 40 THEN 41 ELSE first
           ends == IndicesOf(b, from + 1, close)
           m == Min(ends)
           n == SentenceLength(from, m, fixed)
           u == Unescaped(b, from, m)
           f == jt808_decode(b, at, fixed)
<1>1. f = IF Len(b) - from < 2 THEN None(from)
          ELSE IF ends = {} THEN None(from)
          ELSE IF first = 40 THEN Took(b, from, n)
          ELSE [status |-> "frame", at |-> from, next |-> PastFrame(m), frame |-> u]
  BY DEF jt808_decode
<1>2. from \in Nat /\ Len(b) \in Nat
  BY SkippedIs, ListIs
<1>3. ends \in SUBSET Nat /\ \A i \in ends : i \in from + 1 .. Len(b) - 1
  BY <1>2 DEF IndicesOf
<1>4. ends # {} => m \in ends
  BY <1>3, LeastIn
<1> HIDE DEF from, f, ends, m, u
<1>5. CASE Len(b) - from < 2 \/ ends = {}
  <2>1. f = None(from)
    BY <1>1, <1>5
  <2> QED BY <1>2, <2>1 DEF None, f, from
<1>6. CASE ~(Len(b) - from < 2 \/ ends = {})
  <2>1. m \in Nat /\ from < m /\ m < Len(b)
    <3>1. m \in from + 1 .. Len(b) - 1
      BY <1>3, <1>4, <1>6
    <3> QED BY <1>2, <3>1
  <2>2. CASE first = 40
    <3>1. f = Took(b, from, n)
      BY <1>1, <1>6, <2>2
    <3>2. n \in Nat /\ (fixed => n = m + 1 - from)
      BY <1>2, <2>1 DEF SentenceLength
    <3> HIDE DEF n
    <3>3. CASE n > Len(b) - from
      <4>1. f = Raised(from)
        BY <3>1, <3>3 DEF Took
      <4>2. ~fixed
        BY <1>2, <2>1, <3>2, <3>3
      <4> QED BY <1>2, <4>1, <4>2 DEF Raised, f, from
    <3>4. CASE ~(n > Len(b) - from)
      <4>1. f.status = "frame" /\ f.at = from /\ f.next = from + n
        BY <3>1, <3>4, TookIs
      <4> QED BY <1>2, <3>2, <4>1 DEF f, from
    <3> QED BY <3>3, <3>4
  <2>3. CASE first # 40
    <3>1. f.status = "frame" /\ f.at = from /\ f.next = m + 1
      BY <1>1, <1>6, <2>3 DEF PastFrame
    <3> QED BY <2>1, <3>1 DEF f, from
  <2> QED BY <2>2, <2>3
<1> QED BY <1>5, <1>6

(* In step at a frame that is as long as its length says, the GT06 port    *)
(* returns it.                                                             *)
LEMMA Gt06InStep ==
  ASSUME NEW b \in Seq(Byte), NEW s \in Nat, NEW d, StandsAt(b, s, d), Len(d) >= 10, d[1] = 120,
         d[3] + 5 = Len(d), d[Len(d) - 1] = 13, d[Len(d)] = 10
  PROVE  LET f == gt06_decode(b, s) IN
         f.status = "frame" /\ f.at = s /\ f.next = s + Len(d) /\ f.frame = d
<1> DEFINE n == Len(d)
           length == Gt06Length(b, s)
           f == gt06_decode(b, s)
<1>1. n \in Nat /\ n >= 10 /\ Len(b) \in Nat /\ s + n <= Len(b)
  BY ListIs DEF StandsAt
<1>2. b[s + 1] = d[1] /\ b[s + 3] = d[3] /\ b[s + (n - 1)] = d[n - 1] /\ b[s + n] = d[n]
  <2>1. 1 \in 1 .. n /\ 3 \in 1 .. n /\ n - 1 \in 1 .. n /\ n \in 1 .. n
    BY <1>1
  <2> QED BY <2>1 DEF StandsAt
<1>3. d[3] \in Nat
  <2>1. s + 3 \in 1 .. Len(b)
    BY <1>1
  <2>2. b[s + 3] \in Byte
    BY <2>1, ElementOfSeq
  <2> QED BY <1>2, <2>2, BytesAreNat
<1>4. length = n
  <2>1. length = 4 + (1 + b[s + 3])
    BY <1>2 DEF Gt06Length
  <2> HIDE DEF length, n
  <2>2. d[3] + 5 = n
    BY DEF n
  <2> QED BY <1>1, <1>2, <1>3, <2>1, <2>2
<1>5. Slice(b, s + length - 2, s + length) = <<13, 10>>
  <2> DEFINE i == s + n - 2
  <2>1. i \in Nat /\ i + 2 = s + n /\ i + 1 = s + (n - 1) /\ i + 2 <= Len(b)
    BY <1>1
  <2> HIDE DEF i
  <2>2. b[i + 1] = 13 /\ b[i + 2] = 10
    BY <1>2, <2>1
  <2>3. Slice(b, i, i + 2) = <<13, 10>>
    BY <2>1, <2>2, StopIs
  <2> HIDE DEF length, n
  <2> QED BY <1>4, <2>1, <2>3 DEF i
<1>6. ~(Len(b) - s < 5) /\ Len(b) - s >= length /\ ~(length > Len(b) - s)
  BY <1>1, <1>4
<1>7. f = Took(b, s, length)
  BY <1>5, <1>6 DEF gt06_decode
<1>8. Slice(b, s, s + n) = d
  BY SliceStands
<1> HIDE DEF f, length, n
<1>9. f.status = "frame" /\ f.at = s /\ f.next = s + n /\ f.frame = d
  BY <1>4, <1>6, <1>7, <1>8, TookIs
<1> QED BY <1>9 DEF f, n

(* The first place of a value, from a place on. *)
IsFirst(last, b, from, value) ==
  /\ IsList(b) /\ from \in Nat /\ last \in from .. Len(b) - 1 /\ b[last + 1] = value
  /\ \A i \in from .. last - 1 : b[i + 1] # value

LEMMA FirstIndex ==
  ASSUME NEW b, NEW from, NEW value, NEW last, IsFirst(last, b, from, value)
  PROVE  Min(IndicesOf(b, from, value)) = last /\ IndicesOf(b, from, value) # {}
<1> DEFINE S == IndicesOf(b, from, value)
<1>1. Len(b) \in Nat /\ from \in Nat /\ last \in Nat /\ from <= last
  BY ListIs DEF IsFirst
<1>2. S \in SUBSET Nat /\ last \in S
  BY <1>1 DEF IndicesOf, IsFirst
<1>3. ASSUME NEW i \in S PROVE i >= last
  <2>1. i \in from .. Len(b) - 1 /\ b[i + 1] = value
    BY DEF IndicesOf
  <2>2. i \notin from .. last - 1
    BY <2>1 DEF IsFirst
  <2> QED BY <1>1, <2>1, <2>2
<1> HIDE DEF S
<1>4. Min(S) \in S /\ Min(S) <= last
  BY <1>2, LeastIn
<1>5. Min(S) \in Nat /\ Min(S) >= last
  BY <1>2, <1>3, <1>4
<1> QED BY <1>1, <1>2, <1>4, <1>5 DEF S

(* In step at a sentence the JT808 port returns it, if its length is       *)
(* corrected or it is the first thing in the buffer.                       *)
LEMMA SentenceInStep ==
  ASSUME NEW b, NEW s \in Nat, NEW d, StandsAt(b, s, d), SentenceData(d), NEW at, Skipped(b, at) = s,
         fixed \/ s = 0
  PROVE  LET f == jt808_decode(b, at, fixed) IN
         f.status = "frame" /\ f.next = s + Len(d) /\ f.frame = d
<1> DEFINE n == Len(d)
           from == Skipped(b, at)
           first == b[from + 1]
           ends == IndicesOf(b, from + 1, IF first = 40 THEN 41 ELSE first)
           f == jt808_decode(b, at, fixed)
           last == s + n - 1
           closes == IndicesOf(b, s + 1, 41)
<1>1. n \in Nat /\ n >= 2 /\ Len(b) \in Nat /\ s + n <= Len(b)
  BY ListIs DEF StandsAt, SentenceData
<1>2. \A m \in 1 .. n : b[s + m] = d[m]
  BY DEF StandsAt
<1>3. d[1] = 40 /\ d[n] = 41 /\ \A m \in 1 .. n - 1 : d[m] # 41
  BY DEF SentenceData
<1>4. b[s + 1] = 40 /\ b[s + n] = 41
  <2>1. 1 \in 1 .. n /\ n \in 1 .. n
    BY <1>1
  <2> QED BY <1>2, <1>3, <2>1
<1> HIDE DEF n
<1>5. last \in Nat /\ last + 1 = s + n /\ s + 1 <= last /\ last <= Len(b) - 1
  BY <1>1
<1> HIDE DEF last
<1>6. last \in s + 1 .. Len(b) - 1 /\ b[last + 1] = 41 /\ s + 1 \in Nat
  BY <1>1, <1>4, <1>5
<1>7. ASSUME NEW i \in s + 1 .. last - 1 PROVE b[i + 1] # 41
  <2> DEFINE m == i + 1 - s
  <2>1. m \in 1 .. n - 1 /\ m \in 1 .. n /\ s + m = i + 1
    BY <1>1, <1>5
  <2> HIDE DEF m
  <2>2. b[s + m] = d[m] /\ d[m] # 41
    BY <1>2, <1>3, <2>1
  <2> QED BY <2>1, <2>2
<1>8. Min(closes) = last /\ closes # {}
  <2> DEFINE k == s + 1
  <2>1. IsList(b) /\ k \in Nat
    BY DEF StandsAt
  <2>2. IsFirst(last, b, k, 41)
    BY <1>6, <1>7, <2>1 DEF IsFirst
  <2>3. closes = IndicesOf(b, k, 41)
    OBVIOUS
  <2> HIDE DEF k, closes
  <2> QED BY <2>2, <2>3, FirstIndex
<1>9. from = s /\ first = 40 /\ ends = closes
  BY <1>4
<1>10. ~(Len(b) - s < 2)
  BY <1>1
<1>11. f = Took(b, s, SentenceLength(s, last, fixed))
  <2> HIDE DEF closes
  <2>1. ~(Len(b) - from < 2) /\ ends # {} /\ first = 40
    BY <1>8, <1>9, <1>10
  <2>2. f = Took(b, from, SentenceLength(from, Min(ends), fixed))
    BY <2>1 DEF jt808_decode
  <2> HIDE DEF f, from, ends
  <2> QED BY <1>8, <1>9, <2>2
<1>12. SentenceLength(s, last, fixed) = n
  BY <1>1, <1>5 DEF SentenceLength
<1>13. ~(n > Len(b) - s)
  BY <1>1
<1>14. Slice(b, s, s + n) = d
  BY SliceStands DEF n
<1> HIDE DEF f
<1> QED BY <1>11, <1>12, <1>13, <1>14, TookIs DEF f, n

(* The port reads on at a whole binary frame, w; and what it answers then. *)
BinaryAt(b, s, w, d, at) ==
  s \in Nat /\ IsDelimiter(d) /\ BinaryData(w, d) /\ StandsAt(b, s, w) /\ Skipped(b, at) = s

ReturnedIs(f, s, w) ==
  /\ f.status = "frame" /\ f.next = s + Len(w)
  /\ f.frame = <<w[1]>> \o destuff(Slice(w, 1, Len(w) - 1), w[1]) \o <<w[1]>>

(* In step at a binary frame the JT808 port returns it, unescaped.         *)
LEMMA BinaryInStep ==
  ASSUME NEW b, NEW s, NEW w, NEW d, NEW at, BinaryAt(b, s, w, d, at)
  PROVE  ReturnedIs(jt808_decode(b, at, fixed), s, w)
<1>0. s \in Nat /\ IsDelimiter(d) /\ BinaryData(w, d) /\ StandsAt(b, s, w) /\ Skipped(b, at) = s
  BY DEF BinaryAt
<1> DEFINE from == Skipped(b, at)
           first == b[from + 1]
           close == IF first = 40 THEN 41 ELSE first
           ends == IndicesOf(b, from + 1, close)
           f == jt808_decode(b, at, fixed)
<1>1. PICK e, x, p : Escaped(e, x, d, p) /\ Between(w, d, e)
  BY <1>0 DEF BinaryData
<1> DEFINE n == Len(e)
           last == s + n + 1
           places == IndicesOf(b, s + 1, d)
<1>2. IsList(b) /\ IsList(w) /\ IsList(e) /\ n \in Nat /\ Len(b) \in Nat /\ Len(w) = n + 2
  BY <1>1, ListIs DEF StandsAt, Escaped, Between
<1>3. s + n + 2 <= Len(b)
  BY <1>0, <1>2 DEF StandsAt
<1>4. \A m \in 1 .. n + 2 : b[s + m] = w[m]
  BY <1>0, <1>2 DEF StandsAt
<1>5. w[1] = d /\ w[n + 2] = d /\ \A m \in 1 .. n : w[1 + m] = e[m]
  BY <1>1 DEF Between
<1> HIDE DEF n
<1>6. b[s + 1] = d /\ b[s + n + 2] = d
  <2>1. 1 \in 1 .. n + 2 /\ n + 2 \in 1 .. n + 2 /\ s + (n + 2) = s + n + 2
    BY <1>0, <1>2
  <2>2. b[s + 1] = w[1] /\ b[s + (n + 2)] = w[n + 2]
    BY <1>4, <2>1
  <2> QED BY <1>5, <2>1, <2>2
<1>7. ASSUME NEW m \in 1 .. n PROVE b[s + 1 + m] = e[m]
  <2>1. 1 + m \in 1 .. n + 2 /\ s + (1 + m) = s + 1 + m
    BY <1>0, <1>2
  <2>2. b[s + (1 + m)] = w[1 + m]
    BY <1>4, <2>1
  <2> QED BY <1>5, <2>1, <2>2
<1>8. Encloses(b, s, d, e)
  BY <1>2, <1>3, <1>6, <1>7 DEF Encloses, n
<1>9. Unescaped(b, s, last) = <<d>> \o x \o <<d>>
  BY <1>0, <1>1, <1>8, UnescapedFrame DEF n
<1>10. Slice(w, 1, Len(w) - 1) = e
  <2>1. 1 + n = Len(w) - 1 /\ 1 + n <= Len(w)
    BY <1>2
  <2>2. StandsAt(w, 1, e)
    BY <1>2, <1>5, <2>1 DEF StandsAt, n
  <2>3. Slice(w, 1, 1 + Len(e)) = e
    BY <2>2, SliceStands
  <2> QED BY <2>1, <2>3 DEF n
<1>11. destuff(e, d) = x
  BY <1>0, <1>1, DestuffIs
<1> HIDE DEF last
<1>12. last \in Nat /\ last + 1 = s + n + 2 /\ s + 1 <= last /\ last <= Len(b) - 1
  BY <1>0, <1>2, <1>3 DEF last
<1>13. Min(places) = last /\ places # {}
  <2>1. last \in s + 1 .. Len(b) - 1 /\ b[last + 1] = d /\ s + 1 \in Nat
    BY <1>0, <1>2, <1>6, <1>12
  <2>2. ASSUME NEW i \in s + 1 .. last - 1 PROVE b[i + 1] # d
    <3> DEFINE m == i - s
    <3>1. m \in 1 .. n /\ s + 1 + m = i + 1
      BY <1>0, <1>2, <1>12
    <3> HIDE DEF m
    <3>2. e[m] # d
      BY <1>0, <1>1, <3>1, NoneInside DEF n
    <3> QED BY <1>7, <3>1, <3>2
  <2> DEFINE k == s + 1
  <2>3. places = IndicesOf(b, k, d)
    OBVIOUS
  <2>4. IsFirst(last, b, k, d)
    BY <1>2, <2>1, <2>2 DEF IsFirst
  <2> HIDE DEF k, places
  <2> QED BY <2>3, <2>4, FirstIndex
<1> HIDE DEF places
<1>14. d # 40
  BY <1>0 DEF IsDelimiter
<1>15. from = s /\ first = d /\ first # 40 /\ ends = places
  BY <1>0, <1>6, <1>14 DEF places
<1>16. ~(Len(b) - s < 2)
  BY <1>0, <1>2, <1>3
<1>17. f = [status |-> "frame", at |-> s, next |-> PastFrame(last), frame |-> Unescaped(b, s, last)]
  <2>1. ~(Len(b) - from < 2) /\ ends # {}
    BY <1>13, <1>15, <1>16
  <2>2. f = [status |-> "frame", at |-> from, next |-> PastFrame(Min(ends)),
             frame |-> Unescaped(b, from, Min(ends))]
    BY <1>15, <2>1 DEF jt808_decode
  <2> HIDE DEF f, from, ends
  <2> QED BY <1>13, <1>15, <2>2
<1>18. PastFrame(last) = s + Len(w)
  BY <1>0, <1>2, <1>12 DEF PastFrame
<1> HIDE DEF f
<1> QED BY <1>5, <1>9, <1>10, <1>11, <1>17, <1>18 DEF f, ReturnedIs

-----------------------------------------------------------------------------
(* The invariant: every segment is as its account says, and what was       *)
(* returned last is what a decode of the stream returns.                   *)

Made(s) == IF conn.protocol = "gt06" THEN Gt06Is(s) ELSE Jt808Is(s, conn.delimiter)

AllMade == IsList(segs) /\ \A k \in 1 .. Len(segs) : Made(segs[k])

Returned ==
  \E at \in Nat : LET f == decode(Stream, at) IN
    f.status = "frame" /\ Last(out) = [from |-> f.at, to |-> f.next, frame |-> f.frame]

CInv ==
  /\ conn \in Conns /\ AllMade /\ r \in Nat /\ IsList(out)
  /\ conn.protocol = "gt06" => fixed
  /\ pc = "send" => out = <<>>
  /\ out # <<>> => Returned
  /\ pc = "raised" => ~fixed

LEMMA SegmentIs ==
  ASSUME conn \in Conns, NEW counter \in Nat, NEW c,
         c = Session(conn) \/ IsDrawn(conn, c, Segment(conn, counter, c).whole)
  PROVE  Made(Segment(conn, counter, c))
<1>1. IsConnection(conn)
  BY ConnsAssumption
<1>2. CASE conn.protocol = "gt06"
  BY <1>1, <1>2, Gt06SegmentIs DEF Made
<1>3. CASE conn.protocol # "gt06"
  BY <1>1, <1>3, IsJt808, Jt808SegmentIs DEF Made
<1> QED BY <1>2, <1>3

(* Each segment is in the stream where the one before it ends. *)
LEMMA SegmentsStand ==
  ASSUME AllMade
  PROVE  /\ IsList(Stream) /\ (conn.protocol = "gt06" => Stream \in Seq(Byte))
         /\ \A k \in 1 .. Len(segs) :
              /\ StartOf(k) \in Nat /\ EndOf(k) = StartOf(k) + Len(segs[k].data)
              /\ StandsAt(Stream, StartOf(k), segs[k].data)
<1> DEFINE n == Len(segs)
           ss == [k \in 1 .. n |-> segs[k].data]
<1>1. IsList(segs) /\ n \in Nat
  BY ListIs DEF AllMade
<1>2. \A k \in 1 .. n : IsList(segs[k].data)
  BY DEF AllMade, Made, Gt06Is, Jt808Is, IsList
<1>3. \A k \in 1 .. n : ss[k] = segs[k].data
  OBVIOUS
<1> HIDE DEF n, ss
<1>4. PICK S : \A k \in 1 .. n : ss[k] \in Seq(S)
  BY <1>1, <1>2, <1>3, OneSet
<1>5. \A k \in 1 .. Len(segs) : segs[k].data \in Seq(S)
  BY <1>3, <1>4 DEF n
<1>6. /\ Stream \in Seq(S) /\ Len(Stream) = EndOf(n)
      /\ \A k \in 0 .. n : EndOf(k) \in Nat
      /\ \A k \in 1 .. n :
           /\ EndOf(k) = EndOf(k - 1) + Len(segs[k].data)
           /\ \A m \in 1 .. Len(segs[k].data) : Stream[EndOf(k - 1) + m] = segs[k].data[m]
      /\ \A j, k \in 0 .. n : j <= k => EndOf(j) <= EndOf(k)
  BY <1>1, <1>5, StreamIs DEF n
<1>7. IsList(Stream)
  BY <1>6 DEF IsList
<1>8. ASSUME conn.protocol = "gt06" PROVE Stream \in Seq(Byte)
  <2>1. \A k \in 1 .. Len(segs) : segs[k].data \in Seq(Byte)
    BY <1>8 DEF AllMade, Made, Gt06Is
  <2> QED BY <1>1, <2>1, StreamIs
<1>9. ASSUME NEW k \in 1 .. n
      PROVE  /\ StartOf(k) \in Nat /\ EndOf(k) = StartOf(k) + Len(segs[k].data)
             /\ StandsAt(Stream, StartOf(k), segs[k].data)
  <2>1. k \in 0 .. n /\ n \in 0 .. n /\ k - 1 \in 0 .. n /\ k <= n
    BY <1>1
  <2>2. StartOf(k) = EndOf(k - 1)
    BY DEF StartOf
  <2>3. EndOf(k) <= Len(Stream)
    BY <1>6, <2>1
  <2> QED BY <1>2, <1>6, <1>7, <2>1, <2>2, <2>3 DEF StandsAt
<1> QED BY <1>7, <1>8, <1>9 DEF n

LEMMA InitCInv == Init => CInv
<1> SUFFICES ASSUME Init PROVE CInv
  OBVIOUS
<1>1. conn \in Conns /\ r \in Nat /\ out = <<>> /\ pc = "send" /\ (conn.protocol = "gt06" => fixed)
  BY DEF Init
<1> DEFINE g == Segment(conn, FirstCounter(conn), Session(conn))
<1>2. Made(g)
  BY <1>1, FirstType, SegmentIs
<1>3. segs = <<g>>
  BY DEF Init
<1> HIDE DEF g
<1>4. AllMade
  BY <1>2, <1>3, OneList DEF AllMade
<1> QED BY <1>1, <1>4, NoList DEF CInv

LEMMA SendCInv == CInv /\ Send => CInv'
<1> SUFFICES ASSUME CInv, Send PROVE CInv'
  OBVIOUS
<1>1. /\ conn' = conn /\ out' = out /\ r' = r /\ fixed' = fixed /\ pc' = pc /\ pc = "send"
      /\ conn \in Conns /\ AllMade /\ r \in Nat /\ IsList(out) /\ out = <<>>
      /\ (conn.protocol = "gt06" => fixed)
  BY DEF CInv, Send
<1>2. PICK c : LET g == Segment(conn, CounterAfter(Len(segs)), c) IN
               IsDrawn(conn, c, g.whole) /\ segs' = Append(segs, g)
  BY DEF Send, NextSegment
<1> DEFINE n == Len(segs)
           g == Segment(conn, CounterAfter(n), c)
<1>3. IsList(segs) /\ n \in Nat
  BY <1>1, ListIs DEF AllMade
<1>4. Made(g)
  <2>1. CounterAfter(n) \in Nat
    BY <1>3, CounterType
  <2> QED BY <1>1, <1>2, <2>1, SegmentIs
<1> HIDE DEF g
<1>5. /\ IsList(segs') /\ Len(segs') = n + 1
      /\ segs'[n + 1] = g /\ \A i \in 1 .. n : segs'[i] = segs[i]
  BY <1>2, <1>3, OneMore DEF g
<1>6. ASSUME NEW k \in 1 .. n + 1 PROVE Made(segs'[k])
  <2>1. CASE k = n + 1
    BY <1>4, <1>5, <2>1
  <2>2. CASE k # n + 1
    <3>1. k \in 1 .. n
      BY <1>3, <2>2
    <3> QED BY <1>1, <1>5, <3>1 DEF AllMade
  <2> QED BY <2>1, <2>2
<1>7. AllMade'
  <2> HIDE DEF n
  <2>1. \A k \in 1 .. Len(segs') : Made(segs'[k])
    BY <1>5, <1>6
  <2>2. \A s : Made(s)' <=> Made(s)
    BY <1>1 DEF Made
  <2> QED BY <1>1, <1>5, <2>1 DEF AllMade, Made
<1> QED BY <1>1, <1>7 DEF CInv

LEMMA ReturnCInv == CInv /\ Return => CInv'
<1> SUFFICES ASSUME CInv, Return PROVE CInv'
  OBVIOUS
<1>1. conn' = conn /\ segs' = segs /\ fixed' = fixed /\ pc = "decode"
  BY DEF Return
<1>2. conn \in Conns /\ AllMade /\ r \in Nat /\ IsList(out) /\ (conn.protocol = "gt06" => fixed)
      /\ (out # <<>> => Returned)
  BY DEF CInv
<1> DEFINE f == decode(Stream, r)
           e == [from |-> f.at, to |-> f.next, frame |-> f.frame]
<1>3. /\ r' = f.next
      /\ \/ f.status = "frame" /\ out' = Append(out, e) /\ pc' = "decode"
         \/ f.status = "none" /\ out' = out /\ pc' = "waiting"
         \/ f.status \notin {"frame", "none"} /\ out' = out /\ pc' = "raised"
  BY <1>1 DEF Return
<1>4. f.next \in Nat /\ (fixed => f.status \in {"frame", "none"})
  <2>1. IsList(Stream) /\ (conn.protocol = "gt06" => Stream \in Seq(Byte))
    BY <1>2, SegmentsStand
  <2>2. CASE conn.protocol = "gt06"
    BY <1>2, <2>1, <2>2, Gt06Decodes DEF decode
  <2>3. CASE conn.protocol # "gt06"
    BY <1>2, <2>1, <2>3, Jt808Decodes DEF decode
  <2> QED BY <2>2, <2>3
<1>5. AllMade' /\ \A at : decode(Stream, at)' = decode(Stream, at)
  <2>1. AllMade'
    BY <1>1, <1>2 DEF AllMade, Made
  <2>2. Stream' = Stream
    BY <1>1, StreamKept
  <2>3. \A at : decode(Stream, at)' = decode(Stream, at)
    BY <1>1, <2>2 DEF decode
  <2> QED BY <2>1, <2>3
<1>6. CASE f.status = "frame"
  <2>1. out' = Append(out, e) /\ pc' = "decode"
    BY <1>3, <1>6
  <2>2. \E at \in Nat : decode(Stream, at)' = f
    BY <1>2, <1>5
  <2> HIDE DEF e
  <2>3. IsList(out') /\ Last(out') = e
    <3>1. IsList(out') /\ Len(out') = Len(out) + 1 /\ out'[Len(out) + 1] = e
      BY <1>2, <2>1, OneMore
    <3> QED BY <3>1 DEF Last
  <2>4. Returned'
    <3> HIDE DEF f
    <3>1. \A at \in Nat : decode(Stream, at)' = f /\ f.status = "frame" => Returned'
      BY <2>3 DEF Returned, e
    <3> QED BY <1>6, <2>2, <3>1
  <2> HIDE DEF f
  <2> QED BY <1>1, <1>2, <1>3, <1>4, <1>5, <2>1, <2>3, <2>4 DEF CInv
<1>7. CASE f.status # "frame"
  <2>1. out' = out /\ pc' \in {"waiting", "raised"} /\ (pc' = "raised" => ~fixed)
    BY <1>3, <1>4, <1>7
  <2> HIDE DEF f
  <2>2. Returned => Returned'
    BY <1>5, <2>1 DEF Returned
  <2> QED BY <1>1, <1>2, <1>3, <1>4, <1>5, <2>1, <2>2 DEF CInv
<1> QED BY <1>6, <1>7

LEMMA CInvStep == CInv /\ [Next]_vars => CInv'
<1> SUFFICES ASSUME CInv, [Next]_vars PROVE CInv'
  OBVIOUS
<1>1. CASE Send
  BY <1>1, SendCInv
<1>2. CASE Return
  BY <1>2, ReturnCInv
<1>3. CASE Sent \/ Ended \/ UNCHANGED vars
  <2>1. conn' = conn /\ segs' = segs /\ out' = out /\ r' = r /\ fixed' = fixed
        /\ (pc' = "send" => pc = "send") /\ (pc' = "raised" => pc = "raised")
    BY <1>3 DEF Sent, Ended, vars
  <2>2. AllMade => AllMade'
    BY <2>1 DEF AllMade, Made
  <2>3. Stream' = Stream
    BY <2>1, StreamKept
  <2>4. \A at : decode(Stream, at)' = decode(Stream, at)
    BY <2>1, <2>3 DEF decode
  <2>5. Returned => Returned'
    BY <2>1, <2>4 DEF Returned
  <2> QED BY <2>1, <2>2, <2>5 DEF CInv
<1> QED BY <1>1, <1>2, <1>3 DEF Next

(* In step at an uncut JT808 frame the port returns it, unescaped.         *)
LEMMA Jt808InStep ==
  ASSUME conn \in Conns, conn.protocol # "gt06", NEW k, Jt808Is(segs[k], conn.delimiter), Untruncated(k),
         NEW b, NEW s \in Nat, StandsAt(b, s, segs[k].data), NEW at, Skipped(b, at) = s,
         IsSentence(k) => fixed \/ s = 0
  PROVE  LET f == jt808_decode(b, at, fixed) IN
         f.status = "frame" /\ f.next = s + Len(segs[k].data) /\ f.frame = Plain(k)
<1> DEFINE d == segs[k].data
           f == jt808_decode(b, at, fixed)
<1>1. segs[k].rec.kind = "frame" /\ segs[k].rec.fault # "truncated"
  BY DEF Untruncated, IsFrame
<1>2. CASE IsSentence(k)
  <2>1. SentenceData(d) /\ Plain(k) = d
    BY <1>1, <1>2 DEF IsSentence, Jt808Is, Plain
  <2> HIDE DEF d
  <2>2. StandsAt(b, s, d)
    BY DEF d
  <2>3. f.status = "frame" /\ f.next = s + Len(d) /\ f.frame = d
    BY <1>2, <2>1, <2>2, SentenceInStep
  <2> QED BY <2>1, <2>3 DEF d
<1>3. CASE ~IsSentence(k)
  <2>1. BinaryData(d, conn.delimiter) /\ IsDelimiter(conn.delimiter)
    BY <1>1, <1>3, IsJt808 DEF IsSentence, IsFrame, Jt808Is, IsDelimiter
  <2>2. Plain(k) = <<d[1]>> \o destuff(Slice(d, 1, Len(d) - 1), d[1]) \o <<d[1]>>
    BY <1>3 DEF Plain
  <2>3. BinaryAt(b, s, d, conn.delimiter, at)
    BY <2>1 DEF BinaryAt
  <2>4. ReturnedIs(jt808_decode(b, at, fixed), s, d)
    <3> HIDE DEF d
    <3> QED BY <2>3, BinaryInStep
  <2>5. f.status = "frame" /\ f.next = s + Len(d)
        /\ f.frame = <<d[1]>> \o destuff(Slice(d, 1, Len(d) - 1), d[1]) \o <<d[1]>>
    BY <2>4 DEF ReturnedIs
  <2> HIDE DEF f, d
  <2> QED BY <2>2, <2>5 DEF f, d
<1> QED BY <1>2, <1>3

LEMMA CInvComesOut == CInv => InStepComesOut
<1> SUFFICES ASSUME CInv PROVE InStepComesOut
  OBVIOUS
<1>1. conn \in Conns /\ AllMade /\ IsList(segs)
  BY DEF CInv, AllMade
<1>2. pc = "raised" => ~fixed
  BY DEF CInv
<1>3. ASSUME NEW k \in DOMAIN segs, out # <<>>, EndsAsItSays(k), Last(out).from = StartOf(k)
      PROVE  Last(out).to = EndOf(k) /\ Last(out).frame = Plain(k)
  <2> DEFINE d == segs[k].data
             s == StartOf(k)
  <2>1. k \in 1 .. Len(segs)
    BY <1>1, ListIs
  <2>2. /\ Made(segs[k]) /\ IsList(Stream) /\ (conn.protocol = "gt06" => Stream \in Seq(Byte))
        /\ s \in Nat /\ EndOf(k) = s + Len(d) /\ StandsAt(Stream, s, d)
    BY <1>1, <2>1, SegmentsStand DEF AllMade
  <2>3. PICK at \in Nat : LET f == decode(Stream, at) IN
          f.status = "frame" /\ Last(out) = [from |-> f.at, to |-> f.next, frame |-> f.frame]
    BY <1>3 DEF CInv, Returned
  <2> DEFINE f == decode(Stream, at)
  <2>4. f.at = s /\ Last(out).to = f.next /\ Last(out).frame = f.frame
    BY <1>3, <2>3
  <2>5. segs[k].rec.kind = "frame" /\ segs[k].rec.fault # "truncated"
    BY <1>3 DEF EndsAsItSays, Untruncated, IsFrame
  <2> HIDE DEF s
  <2>6. CASE conn.protocol = "gt06"
    <3>1. f = gt06_decode(Stream, at)
      BY <2>6 DEF decode
    <3>2. at = s
      BY <2>2, <2>4, <2>6, <3>1, Gt06Decodes
    <3>3. segs[k].rec.fault # "length_disagreement"
      BY <1>3, <2>6 DEF EndsAsItSays
    <3>4. Len(d) >= 10 /\ d[1] = 120 /\ d[3] + 5 = Len(d) /\ d[Len(d) - 1] = 13 /\ d[Len(d)] = 10
      BY <2>2, <2>5, <2>6, <3>3 DEF Made, Gt06Is
    <3>5. Plain(k) = d
      BY <2>6 DEF Plain
    <3> HIDE DEF f, d
    <3> QED BY <2>2, <2>4, <2>6, <3>1, <3>2, <3>4, <3>5, Gt06InStep
  <2>7. CASE conn.protocol # "gt06"
    <3>1. f = jt808_decode(Stream, at, fixed)
      BY <2>7 DEF decode
    <3>2. Skipped(Stream, at) = s
      BY <2>2, <2>3, <2>4, <3>1, Jt808Decodes
    <3>3. Jt808Is(segs[k], conn.delimiter)
      BY <2>2, <2>7 DEF Made
    <3>4. Untruncated(k) /\ (IsSentence(k) => fixed \/ s = 0)
      BY <1>3 DEF EndsAsItSays, s
    <3> HIDE DEF f
    <3> QED BY <1>1, <2>2, <2>4, <2>7, <3>1, <3>2, <3>3, <3>4, Jt808InStep
  <2> QED BY <2>6, <2>7
<1> QED BY <1>2, <1>3 DEF InStepComesOut

(* A framer that is where an uncut frame begins returns that frame,        *)
(* unescaped, and is then where it ends: whatever the frame holds and      *)
(* whatever is around it in the stream. Both escape tables are taken back  *)
(* by the port and by check.py alike. No port raises but for the           *)
(* uncorrected length of a sentence.                                       *)
THEOREM InStepReturned == Spec => []InStepComesOut
<1>1. Init => CInv
  BY InitCInv
<1>2. CInv /\ [Next]_vars => CInv'
  BY CInvStep
<1>3. CInv => InStepComesOut
  BY CInvComesOut
<1> QED BY <1>1, <1>2, <1>3, PTL DEF Spec

-----------------------------------------------------------------------------
(* JT808: which frames a cut one costs. *)

(* The bytes at which the framer starts or stops. *)
Marks == {40, 41, 126, 231}

Opening(k) == IF IsSentence(k) THEN 40 ELSE conn.delimiter
Closing(k) == IF IsSentence(k) THEN 41 ELSE conn.delimiter

(* A JT808 stream in which only the ends of frames look like them. *)
Paired == conn.protocol = "jt808" /\ conn \in Conns /\ fixed /\ AllMade /\ NoStrayDelimiter

(* Where the segments of a stream end. *)
LEMMA EndsOf ==
  ASSUME AllMade
  PROVE  /\ Len(segs) \in Nat /\ IsList(Stream) /\ Len(Stream) = EndOf(Len(segs)) /\ EndOf(0) = 0
         /\ \A k \in 0 .. Len(segs) : EndOf(k) \in Nat
         /\ \A j, k \in 0 .. Len(segs) : j <= k => EndOf(j) <= EndOf(k)
<1> DEFINE n == Len(segs)
           ss == [k \in 1 .. n |-> segs[k].data]
<1>1. IsList(segs) /\ n \in Nat
  BY ListIs DEF AllMade
<1>2. \A k \in 1 .. n : IsList(segs[k].data)
  BY DEF AllMade, Made, Gt06Is, Jt808Is, IsList
<1>3. \A k \in 1 .. n : ss[k] = segs[k].data
  OBVIOUS
<1> HIDE DEF n, ss
<1>4. PICK S : \A k \in 1 .. n : ss[k] \in Seq(S)
  BY <1>1, <1>2, <1>3, OneSet
<1>5. \A k \in 1 .. Len(segs) : segs[k].data \in Seq(S)
  BY <1>3, <1>4 DEF n
<1>6. /\ Stream \in Seq(S) /\ Len(Stream) = EndOf(n) /\ EndOf(0) = 0
      /\ \A k \in 0 .. n : EndOf(k) \in Nat
      /\ \A j, k \in 0 .. n : j <= k => EndOf(j) <= EndOf(k)
  BY <1>1, <1>5, StreamIs DEF n
<1> QED BY <1>1, <1>6 DEF n, IsList

(* What is between the first byte of a frame and its last. *)
LEMMA InnerIs ==
  ASSUME Paired, NEW k \in 1 .. Len(segs), NEW m \in 1 .. Len(segs[k].data),
         IsFrame(k) => m # 1, Untruncated(k) => m # Len(segs[k].data)
  PROVE  segs[k].data[m] \notin Marks
<1> DEFINE d == segs[k].data
           n == Len(d)
<1>1. Jt808Is(segs[k], conn.delimiter)
  BY DEF Paired, AllMade, Made
<1>2. IsList(d) /\ n \in Nat /\ DOMAIN d = 1 .. n
  BY <1>1, ListIs DEF Jt808Is
<1>3. k \in DOMAIN segs
  BY ListIs DEF Paired, AllMade
<1>4. ToSet(Inner(k)) \cap Marks = {}
  BY <1>3 DEF Paired, NoStrayDelimiter, Marks
<1>5. CASE ~IsFrame(k)
  <2>1. Inner(k) = d
    BY <1>5 DEF Inner
  <2>2. d[m] \in ToSet(Inner(k))
    BY <1>2, <2>1 DEF ToSet
  <2> QED BY <1>4, <2>2
<1>6. CASE Untruncated(k)
  <2> DEFINE s == Slice(d, 1, n - 1)
             i == m - 1
  <2>1. m # 1 /\ m # n /\ IsFrame(k)
    BY <1>6 DEF Untruncated
  <2>2. Inner(k) = s
    BY <1>6, <2>1 DEF Inner
  <2>3. 1 \in Nat /\ n - 1 \in Nat /\ 1 <= n - 1 /\ n - 1 <= n /\ i \in 1 .. n - 2 /\ 1 + i = m /\ (n - 1) - 1 = n - 2
    BY <1>2, <2>1
  <2> HIDE DEF n, i
  <2>4. Len(s) = n - 2 /\ s[i] = d[m]
    <3> DEFINE j == n - 1
    <3>1. j \in Nat /\ 1 <= j /\ j <= Len(d) /\ 1 \in Nat
      BY <2>3 DEF n
    <3> HIDE DEF j
    <3>2. Len(Slice(d, 1, j)) = j - 1 /\ \A x \in 1 .. j - 1 : Slice(d, 1, j)[x] = d[1 + x]
      BY <1>2, <3>1, SliceOf
    <3> QED BY <2>3, <3>2 DEF j
  <2>5. IsList(s)
    <3>1. PICK S : d \in Seq(S)
      BY <1>2 DEF IsList
    <3>2. s \in Seq(S)
      BY <2>3, <3>1, SliceIs
    <3> QED BY <3>2 DEF IsList
  <2>6. i \in DOMAIN s
    BY <2>3, <2>4, <2>5, ListIs
  <2> HIDE DEF s
  <2>7. d[m] \in ToSet(Inner(k))
    BY <2>2, <2>4, <2>6 DEF ToSet
  <2> QED BY <1>4, <2>7
<1>7. CASE IsFrame(k) /\ ~Untruncated(k)
  <2> DEFINE s == Tail(d)
             i == m - 1
  <2>1. m # 1
    BY <1>7
  <2>2. Inner(k) = s
    BY <1>7 DEF Inner
  <2>3. i \in 1 .. n - 1 /\ i + 1 = m /\ n >= 1
    BY <1>2, <2>1
  <2>4. PICK S : d \in Seq(S)
    BY <1>2 DEF IsList
  <2> HIDE DEF i
  <2>5. i \in DOMAIN s /\ s[i] = d[m]
    BY <2>3, <2>4
  <2> HIDE DEF s
  <2>6. d[m] \in ToSet(Inner(k))
    BY <2>2, <2>5 DEF ToSet
  <2> QED BY <1>4, <2>6
<1> QED BY <1>5, <1>6, <1>7

(* The bytes of a segment, in the stream. *)
LEMMA MarksAre ==
  ASSUME Paired, NEW k \in 1 .. Len(segs)
  PROVE  /\ StartOf(k) \in Nat /\ EndOf(k) \in Nat /\ StartOf(k) <= EndOf(k) /\ EndOf(k) <= Len(Stream)
         /\ IsFrame(k) => StartOf(k) < EndOf(k) /\ Stream[StartOf(k) + 1] = Opening(k)
         /\ Untruncated(k) => StartOf(k) + 2 <= EndOf(k) /\ Stream[EndOf(k)] = Closing(k)
         /\ \A i \in StartOf(k) + 1 .. EndOf(k) :
              Stream[i] \in Marks => (IsFrame(k) /\ i = StartOf(k) + 1) \/ (Untruncated(k) /\ i = EndOf(k))
<1> DEFINE d == segs[k].data
           n == Len(d)
           s == StartOf(k)
           b == Stream
<1>1. Jt808Is(segs[k], conn.delimiter) /\ AllMade
  BY DEF Paired, AllMade, Made
<1>2. IsList(d) /\ n \in Nat
  BY <1>1, ListIs DEF Jt808Is
<1>3. s \in Nat /\ EndOf(k) = s + n /\ StandsAt(b, s, d)
  BY <1>1, SegmentsStand
<1>4. \A m \in 1 .. n : b[s + m] = d[m]
  BY <1>3 DEF StandsAt
<1>5. s + n <= Len(b) /\ Len(b) \in Nat
  BY <1>3, ListIs DEF StandsAt
<1>6. IsFrame(k) => n >= 1 /\ d[1] = Opening(k)
  BY <1>1 DEF Jt808Is, Opens, IsFrame, IsSentence, Opening
<1>7. Untruncated(k) => n >= 2 /\ d[n] = Closing(k)
  <2> SUFFICES ASSUME Untruncated(k) PROVE n >= 2 /\ d[n] = Closing(k)
    OBVIOUS
  <2>1. IsFrame(k) /\ segs[k].rec.kind = "frame" /\ segs[k].rec.fault # "truncated"
    BY DEF Untruncated, IsFrame
  <2>2. CASE IsSentence(k)
    <3>1. SentenceData(d)
      BY <1>1, <2>1, <2>2 DEF Jt808Is, IsSentence
    <3> QED BY <2>2, <3>1 DEF SentenceData, Closing
  <2>3. CASE ~IsSentence(k)
    <3>1. BinaryData(d, conn.delimiter)
      BY <1>1, <2>1, <2>3 DEF Jt808Is, IsSentence
    <3>2. PICK e, x, p : Escaped(e, x, conn.delimiter, p) /\ Between(d, conn.delimiter, e)
      BY <3>1 DEF BinaryData
    <3>3. Len(e) \in Nat
      BY <3>2, ListIs DEF Escaped
    <3> HIDE DEF d
    <3>4. n = Len(e) + 2 /\ d[Len(e) + 2] = conn.delimiter
      BY <3>2 DEF Between
    <3>5. Closing(k) = conn.delimiter
      BY <2>3 DEF Closing
    <3> QED BY <3>3, <3>4, <3>5
  <2> QED BY <2>2, <2>3
<1>8. \A m \in 1 .. n : d[m] \in Marks => (IsFrame(k) /\ m = 1) \/ (Untruncated(k) /\ m = n)
  BY InnerIs
<1> HIDE DEF n, s, b, d
<1>9. IsFrame(k) => s < s + n /\ b[s + 1] = Opening(k)
  <2> SUFFICES ASSUME IsFrame(k) PROVE s < s + n /\ b[s + 1] = Opening(k)
    OBVIOUS
  <2>1. 1 \in 1 .. n
    BY <1>2, <1>6
  <2> QED BY <1>2, <1>3, <1>4, <1>6, <2>1
<1>10. Untruncated(k) => s + 2 <= s + n /\ b[s + n] = Closing(k)
  <2> SUFFICES ASSUME Untruncated(k) PROVE s + 2 <= s + n /\ b[s + n] = Closing(k)
    OBVIOUS
  <2>1. n \in 1 .. n
    BY <1>2, <1>7
  <2> QED BY <1>2, <1>3, <1>4, <1>7, <2>1
<1>11. ASSUME NEW i \in s + 1 .. s + n, b[i] \in Marks
       PROVE  (IsFrame(k) /\ i = s + 1) \/ (Untruncated(k) /\ i = s + n)
  <2> DEFINE m == i - s
  <2>1. m \in 1 .. n /\ i = s + m
    BY <1>2, <1>3
  <2> HIDE DEF m
  <2>2. d[m] \in Marks
    BY <1>4, <1>11, <2>1
  <2> QED BY <1>2, <1>3, <1>8, <2>1, <2>2
<1>12. StartOf(k) \in Nat /\ EndOf(k) \in Nat /\ StartOf(k) <= EndOf(k) /\ EndOf(k) <= Len(Stream)
  BY <1>2, <1>3, <1>5 DEF s, b
<1> QED BY <1>3, <1>9, <1>10, <1>11, <1>12 DEF s, b

(* Every byte of the stream is in a segment. *)
LEMMA SegmentOf ==
  ASSUME AllMade, NEW j \in 0 .. Len(segs), NEW k \in 0 .. Len(segs), NEW i \in EndOf(j) + 1 .. EndOf(k)
  PROVE  \E m \in j + 1 .. k : i \in StartOf(m) + 1 .. EndOf(m)
<1> DEFINE n == Len(segs)
           T == {m \in 0 .. n : i <= EndOf(m)}
<1>1. /\ n \in Nat /\ \A x \in 0 .. n : EndOf(x) \in Nat
      /\ \A x, y \in 0 .. n : x <= y => EndOf(x) <= EndOf(y)
  BY EndsOf
<1>2. T \in SUBSET Nat /\ k \in T
  <2>1. i <= EndOf(k) /\ k \in 0 .. n
    BY <1>1
  <2> QED BY <1>1, <2>1
<1>3. PICK m \in T : \A y \in T : m <= y
  BY <1>2, NatMin
<1>4. m \in 0 .. n /\ i <= EndOf(m) /\ m <= k
  BY <1>2, <1>3
<1>5. m > j
  <2> SUFFICES ASSUME m <= j PROVE FALSE
    BY <1>1, <1>4
  <2>1. EndOf(m) <= EndOf(j) /\ EndOf(m) \in Nat /\ EndOf(j) \in Nat /\ i >= EndOf(j) + 1 /\ i \in Int
    BY <1>1, <1>4
  <2> QED BY <1>4, <2>1
<1>6. ~(i <= EndOf(m - 1))
  <2>1. m - 1 \in 0 .. n /\ ~(m <= m - 1)
    BY <1>1, <1>4, <1>5
  <2>2. m - 1 \notin T
    BY <1>3, <2>1
  <2> QED BY <2>1, <2>2
<1>7. i \in StartOf(m) + 1 .. EndOf(m)
  <2>1. EndOf(m - 1) \in Nat /\ EndOf(m) \in Nat /\ i \in Int
    <3>1. m - 1 \in 0 .. n
      BY <1>1, <1>4, <1>5
    <3> QED BY <1>1, <1>4, <3>1
  <2> QED BY <1>4, <1>6, <2>1 DEF StartOf
<1>8. m \in j + 1 .. k
  BY <1>1, <1>4, <1>5
<1> QED BY <1>7, <1>8

(* None of some marks is in the segments between two. *)
Without(m, V) == (IsFrame(m) => Opening(m) \notin V) /\ (Untruncated(m) => Closing(m) \notin V)

LEMMA NoneBetween ==
  ASSUME Paired, NEW j \in 0 .. Len(segs), NEW k \in 0 .. Len(segs), NEW V \in SUBSET Marks,
         \A m \in j + 1 .. k : Without(m, V)
  PROVE  \A i \in EndOf(j) + 1 .. EndOf(k) : Stream[i] \notin V
<1> SUFFICES ASSUME NEW i \in EndOf(j) + 1 .. EndOf(k), Stream[i] \in V PROVE FALSE
  OBVIOUS
<1>1. AllMade /\ Len(segs) \in Nat
  BY EndsOf DEF Paired
<1>2. PICK m \in j + 1 .. k : i \in StartOf(m) + 1 .. EndOf(m)
  BY <1>1, SegmentOf
<1>3. m \in 1 .. Len(segs)
  BY <1>1
<1>4. Stream[i] \in Marks
  OBVIOUS
<1>5. CASE IsFrame(m) /\ i = StartOf(m) + 1
  BY <1>2, <1>3, <1>5, MarksAre DEF Without
<1>6. CASE Untruncated(m) /\ i = EndOf(m)
  BY <1>2, <1>3, <1>6, MarksAre DEF Without
<1> QED BY <1>2, <1>3, <1>4, <1>5, <1>6, MarksAre

(* The phases, one segment after the other. *)
PHASES == {"aligned", "swapped", "in a sentence"}

LEMMA PhasesAre ==
  ASSUME NEW n \in Nat
  PROVE  /\ Phase(0) = "aligned" /\ \A k \in 0 .. n : Phase(k) \in PHASES
         /\ \A k \in 1 .. n : Phase(k) = Moved(Phase(k - 1), k)
<1> DEFINE E == [x \in PHASES \X (1 .. n) |-> Moved(x[1], x[2])]
<1>1. \A v \in PHASES, i \in 1 .. n : Moved(v, i) \in PHASES
  BY DEF Moved, PHASES
<1>2. E \in [PHASES \X (1 .. n) -> PHASES] /\ \A v \in PHASES, i \in 1 .. n : E[<<v, i>>] = Moved(v, i)
  BY <1>1
<1> HIDE DEF E
<1>3. "aligned" \in PHASES
  BY DEF PHASES
<1>4. PICK e : Iterates(e, n, PHASES, "aligned", E)
  BY <1>2, <1>3, Iterated
<1>5. /\ e \in [0 .. n -> PHASES] /\ e[0] = "aligned"
      /\ \A i \in 1 .. n : e[i - 1] \in PHASES /\ e[i] = Moved(e[i - 1], i)
  <2>1. e \in [0 .. n -> PHASES] /\ e[0] = "aligned" /\ \A i \in 1 .. n : e[i] = E[<<e[i - 1], i>>]
    BY <1>4 DEF Iterates
  <2>2. \A i \in 1 .. n : e[i - 1] \in PHASES
    BY <2>1
  <2> QED BY <1>2, <2>1, <2>2
<1>6. ASSUME NEW k \in 0 .. n PROVE Phase(k) = e[k]
  <2> DEFINE s == [j \in 1 .. k |-> j]
             IsRun(f) == f = [i \in 0 .. k |-> IF i = 0 THEN "aligned" ELSE Moved(f[i - 1], s[i])]
             f0 == CHOOSE f : IsRun(f)
             g == [i \in 0 .. k |-> e[i]]
  <2>1. Len(s) = k
    OBVIOUS
  <2>2. Phase(k) = f0[k]
    BY <2>1 DEF Phase, Through
  <2>3. \A i \in 0 .. k : g[i] = IF i = 0 THEN "aligned" ELSE Moved(g[i - 1], s[i])
    <3> SUFFICES ASSUME NEW i \in 0 .. k PROVE g[i] = IF i = 0 THEN "aligned" ELSE Moved(g[i - 1], s[i])
      OBVIOUS
    <3>1. CASE i = 0
      BY <1>5, <3>1
    <3>2. CASE i # 0
      <4>1. i \in 1 .. n /\ i - 1 \in 0 .. k /\ i \in 1 .. k /\ i \in 0 .. k
        BY <3>2
      <4>2. g[i] = e[i] /\ g[i - 1] = e[i - 1] /\ s[i] = i
        BY <4>1
      <4>3. e[i] = Moved(e[i - 1], i)
        BY <1>5, <4>1
      <4> HIDE DEF g, s
      <4> QED BY <3>2, <4>2, <4>3
    <3> QED BY <3>1, <3>2
  <2>4. IsRun(g)
    <3>1. g = [i \in 0 .. k |-> g[i]]
      OBVIOUS
    <3> HIDE DEF g
    <3> QED BY <2>3, <3>1
  <2>5. IsRun(f0)
    <3> HIDE DEF IsRun, g
    <3> QED BY <2>4
  <2> HIDE DEF f0, g
  <2> DEFINE T == {i \in 0 .. k : f0[i] = e[i]}
  <2>6. 0 \in T
    BY <1>5, <2>5
  <2>7. ASSUME NEW i \in 1 .. k, i - 1 \in T PROVE i \in T
    <3>1. i \in 1 .. n /\ i \in 0 .. k /\ i # 0 /\ f0[i - 1] = e[i - 1] /\ s[i] = i
      BY <2>7
    <3>2. f0[i] = Moved(f0[i - 1], s[i])
      BY <2>5, <3>1
    <3>3. e[i] = Moved(e[i - 1], i)
      BY <1>5, <3>1
    <3> QED BY <3>1, <3>2, <3>3
  <2>8. \A i \in 0 .. k : i \in T
    <3>1. k \in Nat
      OBVIOUS
    <3> HIDE DEF T
    <3> QED BY <2>6, <2>7, <3>1, InductTo
  <2>9. k \in T
    <3>1. k \in 0 .. k
      OBVIOUS
    <3> HIDE DEF T
    <3> QED BY <2>8, <3>1
  <2> QED BY <2>2, <2>9
<1>7. 0 \in 0 .. n /\ \A k \in 1 .. n : k \in 0 .. n /\ k - 1 \in 0 .. n
  OBVIOUS
<1> QED BY <1>5, <1>6, <1>7

(* A phase that nothing moves is kept. *)
LEMMA PhaseKept ==
  ASSUME NEW j \in Nat, NEW k \in Nat, NEW q, Phase(j) = q, \A m \in j + 1 .. k : Moved(q, m) = q
  PROVE  \A m \in j .. k : Phase(m) = q
<1> DEFINE T == {i \in 0 .. k : j <= i => Phase(i) = q}
<1>1. \A i \in 1 .. k : Phase(i) = Moved(Phase(i - 1), i)
  BY PhasesAre
<1>2. 0 \in T
  BY DEF T
<1>3. ASSUME NEW i \in 1 .. k, i - 1 \in T PROVE i \in T
  <2>1. CASE j = i
    BY <2>1
  <2>2. CASE j < i
    <3>1. j <= i - 1 /\ i \in j + 1 .. k
      BY <2>2
    <3>2. Phase(i - 1) = q /\ Moved(q, i) = q
      BY <1>3, <3>1
    <3> QED BY <1>1, <3>2
  <2>3. CASE j > i
    BY <2>3
  <2> QED BY <2>1, <2>2, <2>3
<1>4. \A i \in 0 .. k : i \in T
  <2> HIDE DEF T
  <2> QED BY <1>2, <1>3, InductTo
<1> SUFFICES ASSUME NEW m \in j .. k PROVE Phase(m) = q
  OBVIOUS
<1>5. m \in 0 .. k /\ j <= m
  OBVIOUS
<1> QED BY <1>4, <1>5

(* The next segment of a kind, if there is one. *)
LEMMA NextOf ==
  ASSUME NEW n \in Nat, NEW C, NEW j \in Nat
  PROVE  \/ \A m \in j + 1 .. n : m \notin C
         \/ \E m \in j + 1 .. n : m \in C /\ \A x \in j + 1 .. m - 1 : x \notin C
<1> DEFINE T == {m \in j + 1 .. n : m \in C}
<1> SUFFICES ASSUME T # {} PROVE \E m \in j + 1 .. n : m \in C /\ \A x \in j + 1 .. m - 1 : x \notin C
  OBVIOUS
<1>1. T \in SUBSET Nat
  OBVIOUS
<1>2. PICK m \in T : \A y \in T : m <= y
  BY <1>1, NatMin
<1>3. m \in j + 1 .. n /\ m \in C
  OBVIOUS
<1>4. \A x \in j + 1 .. m - 1 : x \notin C
  <2> SUFFICES ASSUME NEW x \in j + 1 .. m - 1, x \in C PROVE FALSE
    OBVIOUS
  <2>1. x \in T /\ ~(m <= x)
    BY <1>3
  <2> QED BY <1>2, <2>1
<1> QED BY <1>3, <1>4

-----------------------------------------------------------------------------
(* What the corrected port does with such a stream. *)
Starts == {40, 126, 231}

LEMMA SkipsTo ==
  ASSUME NEW b, IsList(b), NEW at \in Nat, NEW to \in Nat, at <= to, to <= Len(b),
         \A i \in at + 1 .. to : b[i] \notin Starts, to < Len(b) => b[to + 1] \in Starts
  PROVE  Skipped(b, at) = to
<1> DEFINE starts == {i \in at .. Len(b) - 1 : b[i + 1] \in Starts}
<1>1. Len(b) \in Nat
  BY ListIs
<1>2. starts \in SUBSET Nat
  BY <1>1
<1>3. Skipped(b, at) = IF starts = {} THEN Len(b) ELSE Min(starts)
  BY DEF Skipped, Starts
<1>4. \A i \in starts : i >= to
  <2> SUFFICES ASSUME NEW i \in starts, i < to PROVE FALSE
    BY <1>2
  <2>1. i \in at .. Len(b) - 1 /\ b[i + 1] \in Starts
    OBVIOUS
  <2>2. i + 1 \in at + 1 .. to
    BY <1>1, <2>1
  <2> QED BY <2>1, <2>2
<1>5. CASE to < Len(b)
  <2>1. to \in at .. Len(b) - 1
    BY <1>1, <1>5
  <2>2. to \in starts
    BY <1>5, <2>1
  <2> HIDE DEF starts
  <2>3. Min(starts) \in starts /\ Min(starts) <= to /\ Min(starts) >= to /\ Min(starts) \in Nat
    BY <1>2, <1>4, <2>2, LeastIn
  <2> QED BY <1>3, <2>2, <2>3
<1>6. CASE to = Len(b)
  <2>1. starts = {}
    <3> SUFFICES ASSUME NEW i \in starts PROVE FALSE
      OBVIOUS
    <3>1. i >= to /\ i \in at .. Len(b) - 1
      BY <1>4
    <3> QED BY <1>1, <1>6, <3>1
  <2> HIDE DEF starts
  <2> QED BY <1>3, <1>6, <2>1
<1> QED BY <1>1, <1>5, <1>6

(* Where the frame that opens at a place is closed, if it is. *)
Close(b, from) == IF b[from + 1] = 40 THEN 41 ELSE b[from + 1]

LEMMA Waits ==
  ASSUME NEW b, IsList(b), NEW at, Skipped(b, at) \in Nat,
         \A i \in Skipped(b, at) + 2 .. Len(b) : b[i] # Close(b, Skipped(b, at))
  PROVE  jt808_decode(b, at, fixed).status = "none"
<1> DEFINE from == Skipped(b, at)
           first == b[from + 1]
           ends == IndicesOf(b, from + 1, IF first = 40 THEN 41 ELSE first)
           f == jt808_decode(b, at, fixed)
<1>1. Len(b) \in Nat
  BY ListIs
<1>2. ends = {}
  <2> SUFFICES ASSUME NEW i \in ends PROVE FALSE
    OBVIOUS
  <2>1. i \in from + 1 .. Len(b) - 1 /\ b[i + 1] = Close(b, from)
    BY DEF IndicesOf, Close
  <2>2. i + 1 \in from + 2 .. Len(b)
    BY <1>1, <2>1
  <2> QED BY <2>1, <2>2
<1>3. f = None(from)
  BY <1>2 DEF jt808_decode
<1> QED BY <1>3 DEF None

Closes(b, at, last) == Skipped(b, at) \in Nat /\ IsFirst(last, b, Skipped(b, at) + 1, Close(b, Skipped(b, at)))

LEMMA Takes ==
  ASSUME NEW b, NEW at, NEW last, Closes(b, at, last), fixed
  PROVE  LET f == jt808_decode(b, at, fixed) IN
         f.status = "frame" /\ f.at = Skipped(b, at) /\ f.next = last + 1
<1> DEFINE from == Skipped(b, at)
           first == b[from + 1]
           ends == IndicesOf(b, from + 1, Close(b, from))
           f == jt808_decode(b, at, fixed)
           n == SentenceLength(from, last, fixed)
           u == Unescaped(b, from, last)
<1>1. from \in Nat /\ IsList(b) /\ IsFirst(last, b, from + 1, Close(b, from))
  BY DEF Closes, IsFirst
<1>2. Len(b) \in Nat /\ last \in Nat /\ from + 1 <= last /\ last + 1 <= Len(b)
  <2>1. Len(b) \in Nat
    BY <1>1, ListIs
  <2>2. last \in from + 1 .. Len(b) - 1
    BY <1>1 DEF IsFirst
  <2> QED BY <1>1, <2>1, <2>2
<1>3. Min(ends) = last /\ ends # {}
  <2> DEFINE k == from + 1
  <2> HIDE DEF k
  <2>1. IsFirst(last, b, k, Close(b, from))
    BY <1>1 DEF k
  <2>2. ends = IndicesOf(b, k, Close(b, from))
    BY DEF k
  <2> HIDE DEF ends, from
  <2> QED BY <2>1, <2>2, FirstIndex
<1> HIDE DEF ends
<1>4. ~(Len(b) - from < 2)
  BY <1>1, <1>2
<1>5. f = IF first = 40 THEN Took(b, from, n)
          ELSE [status |-> "frame", at |-> from, next |-> PastFrame(last), frame |-> u]
  BY <1>3, <1>4 DEF jt808_decode, ends, Close
<1>6. n = last + 1 - from
  BY DEF SentenceLength
<1> HIDE DEF f, from, n, u
<1>7. CASE first = 40
  <2>1. f = Took(b, from, n) /\ ~(n > Len(b) - from) /\ from + n = last + 1
    BY <1>1, <1>2, <1>5, <1>6, <1>7
  <2>2. f.status = "frame" /\ f.at = from /\ f.next = from + n
    BY <2>1, TookIs
  <2> QED BY <2>1, <2>2 DEF f, from
<1>8. CASE first # 40
  <2>1. f.status = "frame" /\ f.at = from /\ f.next = last + 1
    BY <1>5, <1>8 DEF PastFrame
  <2> QED BY <2>1 DEF f, from
<1> QED BY <1>7, <1>8

-----------------------------------------------------------------------------
(* Where the framer is when it has read n segments: in step, with nothing  *)
(* behind it in segment n that it looks for; or, out of step, behind the   *)
(* first byte of an uncut binary frame.                                    *)
Clear(n, at) == at <= EndOf(n) /\ \A i \in at + 1 .. EndOf(n) : Stream[i] \notin Marks

Place(n, at) ==
  /\ n \in 0 .. Len(segs) /\ at \in Nat
  /\ \/ Phase(n) = "aligned" /\ Clear(n, at)
     \/ /\ Phase(n) = "swapped" /\ n >= 1 /\ Untruncated(n) /\ ~IsSentence(n)
        /\ at = StartOf(n) + 1

(* The framer takes for a frame what opens in segment j and is not closed  *)
(* there.                                                                  *)
Opened(at, j, q) ==
  /\ at \in Nat /\ j \in 1 .. Len(segs) /\ Phase(j) = q
  /\ LET from == Skipped(Stream, at) IN
     /\ from \in Nat /\ from < EndOf(j) /\ \A i \in from + 2 .. EndOf(j) : Stream[i] \notin Marks
     /\ \/ q = "swapped" /\ Stream[from + 1] = conn.delimiter
        \/ q = "in a sentence" /\ Stream[from + 1] = 40

(* What closes it. *)
Closers(q) ==
  IF q = "swapped" THEN {m \in 1 .. Len(segs) : IsFrame(m) /\ ~IsSentence(m)}
  ELSE {m \in 1 .. Len(segs) : Untruncated(m) /\ IsSentence(m)}

ClosingByte(q) == IF q = "swapped" THEN conn.delimiter ELSE 41

IsAstray(q) == q = "swapped" \/ q = "in a sentence"

(* A segment that does not close it holds no such byte, and the phase is   *)
(* the same after it.                                                      *)
LEMMA NotClosing ==
  ASSUME Paired, NEW q, IsAstray(q), NEW m \in 1 .. Len(segs), m \notin Closers(q)
  PROVE  Without(m, {ClosingByte(q)}) /\ Moved(q, m) = q
<1>1. conn.delimiter # 40 /\ conn.delimiter # 41
  BY IsJt808 DEF Paired
<1>2. IsSentence(m) => IsFrame(m)
  BY DEF IsSentence
<1>3. Untruncated(m) => IsFrame(m)
  BY DEF Untruncated
<1>4. CASE q = "swapped"
  <2>1. ~IsFrame(m) \/ IsSentence(m)
    BY <1>4 DEF Closers
  <2>2. Without(m, {conn.delimiter})
    BY <1>1, <1>3, <2>1 DEF Without, Opening, Closing
  <2>3. Moved(q, m) = q
    <3>1. CASE ~IsFrame(m)
      BY <3>1 DEF Moved
    <3>2. CASE IsFrame(m) /\ IsSentence(m)
      <4>1. q # "aligned"
        BY <1>4
      <4> QED BY <1>4, <3>2, <4>1 DEF Moved
    <3> QED BY <2>1, <3>1, <3>2
  <2> QED BY <1>4, <2>2, <2>3 DEF ClosingByte
<1>5. CASE q = "in a sentence"
  <2>1. ~Untruncated(m) \/ ~IsSentence(m)
    BY <1>5 DEF Closers
  <2>2. Without(m, {41})
    BY <1>1, <2>1 DEF Without, Opening, Closing
  <2>3. Moved(q, m) = q
    BY <1>2, <1>5, <2>1 DEF Moved
  <2> QED BY <1>5, <2>2, <2>3 DEF ClosingByte
<1> QED BY <1>4, <1>5 DEF IsAstray

(* Where it closes, and where the framer is then. *)
LEMMA ClosingPlace ==
  ASSUME Paired, NEW q, IsAstray(q), NEW m, m \in Closers(q), Phase(m - 1) = q
  PROVE  \E last \in StartOf(m) .. EndOf(m) - 1 :
           /\ Stream[last + 1] = ClosingByte(q) /\ \A i \in StartOf(m) + 1 .. last : Stream[i] # ClosingByte(q)
           /\ Place(m, last + 1)
<1>1. m \in 1 .. Len(segs) /\ m \in 0 .. Len(segs) /\ m >= 1
  <2>1. Len(segs) \in Nat
    BY EndsOf DEF Paired
  <2> QED BY <2>1 DEF Closers
<1>2. Phase(m) = Moved(q, m)
  <2>1. Len(segs) \in Nat
    BY EndsOf DEF Paired
  <2> QED BY <1>1, <2>1, PhasesAre
<1> DEFINE s == StartOf(m)
           e == EndOf(m)
<1>3. s \in Nat /\ e \in Nat
  BY <1>1, MarksAre
<1>4. IsFrame(m) => s < e /\ Stream[s + 1] = Opening(m)
  BY <1>1, MarksAre
<1>5. Untruncated(m) => IsFrame(m) /\ s + 2 <= e /\ Stream[e] = Closing(m)
  BY <1>1, MarksAre DEF Untruncated
<1>6. \A i \in s + 1 .. e :
        Stream[i] \in Marks => (IsFrame(m) /\ i = s + 1) \/ (Untruncated(m) /\ i = e)
  BY <1>1, MarksAre
<1> SUFFICES \E last \in s .. e - 1 :
               /\ Stream[last + 1] = ClosingByte(q) /\ \A i \in s + 1 .. last : Stream[i] # ClosingByte(q)
               /\ Place(m, last + 1)
  OBVIOUS
<1>7. CASE q = "swapped"
  <2>1. IsFrame(m) /\ ~IsSentence(m)
    BY <1>7 DEF Closers
  <2>2. s \in s .. e - 1 /\ s + 1 \in Nat /\ Stream[s + 1] = ClosingByte(q) /\ s + 1 = StartOf(m) + 1
    <3>1. Stream[s + 1] = ClosingByte(q)
      BY <1>4, <1>7, <2>1 DEF ClosingByte, Opening
    <3> HIDE DEF e
    <3> QED BY <1>3, <1>4, <2>1, <3>1
  <2>3. Place(m, s + 1)
    <3>1. CASE Untruncated(m)
      <4>1. Phase(m) = "swapped"
        BY <1>2, <1>7, <2>1, <3>1 DEF Moved
      <4> HIDE DEF s, e
      <4> QED BY <1>1, <2>1, <2>2, <3>1, <4>1 DEF Place
    <3>2. CASE ~Untruncated(m)
      <4>1. Phase(m) = "aligned"
        BY <1>2, <1>7, <2>1, <3>2 DEF Moved
      <4>2. ASSUME NEW i \in s + 1 + 1 .. e PROVE Stream[i] \notin Marks
        <5> HIDE DEF s, e
        <5>1. i \in s + 1 .. e /\ i # s + 1
          BY <1>3
        <5> QED BY <1>6, <3>2, <5>1
      <4>3. s + 1 <= e
        <5> HIDE DEF s, e
        <5> QED BY <1>3, <1>4, <2>1
      <4>4. Clear(m, s + 1)
        BY <4>2, <4>3 DEF Clear
      <4> HIDE DEF s, e
      <4> QED BY <1>1, <2>2, <4>1, <4>4 DEF Place
    <3> QED BY <3>1, <3>2
  <2> HIDE DEF s, e
  <2>4. \A i \in s + 1 .. s : Stream[i] # ClosingByte(q)
    BY <1>3
  <2> QED BY <2>2, <2>3, <2>4
<1>8. CASE q = "in a sentence"
  <2> DEFINE last == e - 1
  <2>1. Untruncated(m) /\ IsSentence(m) /\ IsFrame(m)
    BY <1>5, <1>8 DEF Closers
  <2>2. last \in s .. e - 1 /\ last + 1 = e
    <3> HIDE DEF s, e
    <3> QED BY <1>3, <1>5, <2>1
  <2>3. Stream[e] = 41 /\ ClosingByte(q) = 41 /\ 41 \in Marks
    BY <1>5, <1>8, <2>1 DEF ClosingByte, Closing, Marks
  <2>4. Stream[s + 1] = 40
    BY <1>4, <2>1 DEF Opening
  <2>5. Phase(m) = "aligned"
    BY <1>2, <1>8, <2>1 DEF Moved
  <2>6. Clear(m, e)
    <3>1. e <= e /\ \A i \in e + 1 .. e : Stream[i] \notin Marks
      <4> HIDE DEF e
      <4> QED BY <1>3
    <3> QED BY <3>1 DEF Clear
  <2>7. Place(m, e)
    BY <1>1, <1>3, <2>5, <2>6 DEF Place
  <2> HIDE DEF s, e, last
  <2>8. ASSUME NEW i \in s + 1 .. last, Stream[i] = 41 PROVE FALSE
    <3>1. i \in s + 1 .. e /\ i # e
      BY <1>3, <2>2
    <3>2. i = s + 1
      BY <1>6, <2>3, <2>8, <3>1
    <3> QED BY <2>4, <2>8, <3>2
  <2> QED BY <2>2, <2>3, <2>7, <2>8
<1> QED BY <1>7, <1>8 DEF IsAstray

-----------------------------------------------------------------------------
(* What one decode does to a framer that has read n segments: it waits,    *)
(* and every uncut frame after them is lost; or it takes bytes up to a     *)
(* place in segment m, and of the uncut frames after n and up to m returns *)
(* exactly the one in step, if there is one.                               *)
Outcome(n, f) ==
  \/ f.status = "none" /\ \A k \in n + 1 .. Len(segs) : Untruncated(k) => Phase(k - 1) # "aligned"
  \/ \E m \in n + 1 .. Len(segs) :
       /\ f.status = "frame" /\ Place(m, f.next)
       /\ f.at \in Nat /\ EndOf(n) <= f.at + 1 /\ f.at < EndOf(m)
       /\ \A k \in n + 1 .. m :
            Untruncated(k) => ((f.at = StartOf(k) /\ f.next = EndOf(k)) <=> Phase(k - 1) = "aligned")

(* The cut frame at which the framer is, and what it has read before it.   *)
Astray(n, at, j, q) ==
  /\ IsAstray(q) /\ Opened(at, j, q) /\ n \in 0 .. j /\ EndOf(n) <= Skipped(Stream, at) + 1
  /\ \A k \in n + 1 .. j : Untruncated(k) => Phase(k - 1) # "aligned"

(* An uncut frame in which the framer is not in step does not come out of  *)
(* a decode of these bytes.                                                *)
LEMMA OpenedIs ==
  ASSUME Paired, NEW at, NEW j, NEW q, IsAstray(q), Opened(at, j, q)
  PROVE  /\ q # "aligned" /\ j \in 1 .. Len(segs) /\ Phase(j) = q
         /\ Skipped(Stream, at) \in Nat /\ Skipped(Stream, at) < EndOf(j)
         /\ Close(Stream, Skipped(Stream, at)) = ClosingByte(q) /\ ClosingByte(q) \in Marks
         /\ \A i \in Skipped(Stream, at) + 2 .. EndOf(j) : Stream[i] # ClosingByte(q)
<1> DEFINE from == Skipped(Stream, at)
<1>1. conn.delimiter # 40 /\ conn.delimiter \in Marks
  BY IsJt808 DEF Paired, Marks
<1>2. /\ j \in 1 .. Len(segs) /\ Phase(j) = q /\ from \in Nat /\ from < EndOf(j)
      /\ \A i \in from + 2 .. EndOf(j) : Stream[i] \notin Marks
  BY DEF Opened
<1>3. \/ q = "swapped" /\ Stream[from + 1] = conn.delimiter
      \/ q = "in a sentence" /\ Stream[from + 1] = 40
  BY DEF Opened
<1> HIDE DEF from
<1>4. q # "aligned"
  BY <1>3
<1>5. Close(Stream, from) = ClosingByte(q) /\ ClosingByte(q) \in Marks
  <2>1. CASE q = "swapped" /\ Stream[from + 1] = conn.delimiter
    BY <1>1, <2>1 DEF Close, ClosingByte
  <2>2. CASE q = "in a sentence" /\ Stream[from + 1] = 40
    BY <2>2 DEF Close, ClosingByte, Marks
  <2> QED BY <1>3, <2>1, <2>2
<1>6. \A i \in from + 2 .. EndOf(j) : Stream[i] # ClosingByte(q)
  BY <1>2, <1>5
<1> QED BY <1>2, <1>4, <1>5, <1>6 DEF from

(* No segment after j closes it. *)
LEMMA NeverCloses ==
  ASSUME Paired, NEW n, NEW at, NEW j, NEW q, Astray(n, at, j, q),
         \A m \in j + 1 .. Len(segs) : m \notin Closers(q)
  PROVE  Outcome(n, jt808_decode(Stream, at, fixed))
<1> DEFINE N == Len(segs)
           from == Skipped(Stream, at)
<1>1. IsAstray(q) /\ Opened(at, j, q) /\ n \in 0 .. j
      /\ \A k \in n + 1 .. j : Untruncated(k) => Phase(k - 1) # "aligned"
  BY DEF Astray
<1>2. /\ q # "aligned" /\ j \in 1 .. N /\ Phase(j) = q /\ from \in Nat /\ from < EndOf(j)
      /\ Close(Stream, from) = ClosingByte(q) /\ ClosingByte(q) \in Marks
      /\ \A i \in from + 2 .. EndOf(j) : Stream[i] # ClosingByte(q)
  BY <1>1, OpenedIs
<1>3. N \in Nat /\ IsList(Stream) /\ Len(Stream) = EndOf(N) /\ EndOf(N) \in Nat /\ EndOf(j) \in Nat
  <2>1. AllMade
    BY DEF Paired
  <2>2. N \in Nat
    BY <2>1, EndsOf
  <2>3. N \in 0 .. N /\ j \in 0 .. N
    BY <1>2, <2>2
  <2> QED BY <2>1, <2>3, EndsOf
<1>4. j \in Nat /\ \A m \in j + 1 .. N : m \in 1 .. N
  BY <1>2, <1>3
<1>5. \A m \in j + 1 .. N : Without(m, {ClosingByte(q)}) /\ Moved(q, m) = q
  BY <1>1, <1>4, NotClosing
<1>6. \A i \in EndOf(j) + 1 .. EndOf(N) : Stream[i] \notin {ClosingByte(q)}
  <2>1. {ClosingByte(q)} \in SUBSET Marks
    BY <1>2
  <2>2. j \in 0 .. N /\ N \in 0 .. N
    BY <1>2, <1>3
  <2> QED BY <1>5, <2>1, <2>2, NoneBetween
<1>7. \A i \in from + 2 .. Len(Stream) : Stream[i] # Close(Stream, from)
  <2> HIDE DEF N, from
  <2> SUFFICES ASSUME NEW i \in from + 2 .. Len(Stream), Stream[i] = ClosingByte(q) PROVE FALSE
    BY <1>2
  <2>1. i \in from + 2 .. EndOf(j) \/ i \in EndOf(j) + 1 .. EndOf(N)
    BY <1>2, <1>3
  <2> QED BY <1>2, <1>6, <2>1
<1>8. jt808_decode(Stream, at, fixed).status = "none"
  BY <1>2, <1>3, <1>7, Waits
<1>9. \A m \in j .. N : Phase(m) = q
  BY <1>2, <1>3, <1>4, <1>5, PhaseKept
<1>10. ASSUME NEW k \in n + 1 .. N, Untruncated(k) PROVE Phase(k - 1) # "aligned"
  <2>1. CASE k <= j
    <3>1. k \in n + 1 .. j
      BY <1>1, <1>4, <2>1
    <3> QED BY <1>1, <1>10, <3>1
  <2>2. CASE k > j
    <3>1. k - 1 \in j .. N
      BY <1>1, <1>3, <1>4, <2>2
    <3> QED BY <1>2, <1>9, <3>1
  <2> QED BY <1>1, <1>4, <2>1, <2>2
<1> QED BY <1>8, <1>10 DEF Outcome

(* Segment m is the first after j that closes it. *)
LEMMA ClosesLater ==
  ASSUME Paired, NEW n, NEW at, NEW j, NEW q, Astray(n, at, j, q),
         NEW m \in j + 1 .. Len(segs), m \in Closers(q), \A x \in j + 1 .. m - 1 : x \notin Closers(q)
  PROVE  Outcome(n, jt808_decode(Stream, at, fixed))
<1> DEFINE N == Len(segs)
           from == Skipped(Stream, at)
           f == jt808_decode(Stream, at, fixed)
           V == ClosingByte(q)
<1>1. IsAstray(q) /\ Opened(at, j, q) /\ n \in 0 .. j /\ EndOf(n) <= from + 1
      /\ \A k \in n + 1 .. j : Untruncated(k) => Phase(k - 1) # "aligned"
  BY DEF Astray
<1>2. /\ q # "aligned" /\ j \in 1 .. N /\ Phase(j) = q /\ from \in Nat /\ from < EndOf(j)
      /\ Close(Stream, from) = V /\ V \in Marks
      /\ \A i \in from + 2 .. EndOf(j) : Stream[i] # V
  BY <1>1, OpenedIs
<1>3. N \in Nat /\ IsList(Stream) /\ AllMade
  BY EndsOf DEF Paired
<1>4. j \in Nat /\ m \in Nat /\ m - 1 \in Nat /\ m \in 1 .. N /\ m - 1 \in 0 .. N /\ j \in 0 .. N
      /\ m - 1 \in j .. m - 1 /\ n \in 0 .. N
  BY <1>1, <1>2, <1>3
<1>5. \A x \in j + 1 .. m - 1 : Without(x, {V}) /\ Moved(q, x) = q
  <2>1. \A x \in j + 1 .. m - 1 : x \in 1 .. N
    BY <1>3, <1>4
  <2> QED BY <1>1, <2>1, NotClosing
<1>6. \A i \in EndOf(j) + 1 .. EndOf(m - 1) : Stream[i] \notin {V}
  <2>1. {V} \in SUBSET Marks
    BY <1>2
  <2> QED BY <1>4, <1>5, <2>1, NoneBetween
<1>7. \A x \in j .. m - 1 : Phase(x) = q
  <2> DEFINE k == m - 1
  <2>1. j \in Nat /\ k \in Nat /\ Phase(j) = q /\ \A x \in j + 1 .. k : Moved(q, x) = q
    BY <1>2, <1>4, <1>5
  <2> HIDE DEF k
  <2>2. \A x \in j .. k : Phase(x) = q
    BY <2>1, PhaseKept
  <2> QED BY <2>2 DEF k
<1>8. Phase(m - 1) = q
  BY <1>4, <1>7
<1>9. PICK last \in StartOf(m) .. EndOf(m) - 1 :
        /\ Stream[last + 1] = V /\ \A i \in StartOf(m) + 1 .. last : Stream[i] # V
        /\ Place(m, last + 1)
  BY <1>1, <1>8, ClosingPlace
<1>10. StartOf(m) = EndOf(m - 1)
  BY DEF StartOf
<1>11. /\ EndOf(n) \in Nat /\ EndOf(j) \in Nat /\ EndOf(m - 1) \in Nat /\ EndOf(m) \in Nat
       /\ EndOf(n) <= EndOf(j) /\ EndOf(j) <= EndOf(m - 1) /\ EndOf(m) <= Len(Stream) /\ Len(Stream) \in Nat
  <2>1. EndOf(n) <= EndOf(j) /\ EndOf(j) <= EndOf(m - 1)
    BY <1>1, <1>3, <1>4, EndsOf
  <2>2. EndOf(n) \in Nat /\ EndOf(j) \in Nat /\ EndOf(m - 1) \in Nat
    BY <1>3, <1>4, EndsOf
  <2>3. EndOf(m) \in Nat /\ EndOf(m) <= Len(Stream)
    BY <1>4, MarksAre
  <2> QED BY <1>3, <2>1, <2>2, <2>3, ListIs
<1>12. last \in Nat /\ EndOf(m - 1) <= last /\ last < EndOf(m)
  BY <1>9, <1>10, <1>11
<1>13. ASSUME NEW i \in from + 2 .. last, Stream[i] = V PROVE FALSE
  <2>1. i \in from + 2 .. EndOf(j) \/ i \in EndOf(j) + 1 .. EndOf(m - 1) \/ i \in StartOf(m) + 1 .. last
    <3> HIDE DEF from
    <3> QED BY <1>2, <1>10, <1>11, <1>12, <1>13
  <2> QED BY <1>2, <1>6, <1>9, <1>13, <2>1
<1>14. Closes(Stream, at, last)
  <2> HIDE DEF from, V
  <2>1. last \in from + 1 .. Len(Stream) - 1
    BY <1>2, <1>11, <1>12
  <2>2. from + 1 \in Nat /\ \A i \in from + 1 .. last - 1 : Stream[i + 1] # V
    <3> SUFFICES ASSUME NEW i \in from + 1 .. last - 1, Stream[i + 1] = V PROVE FALSE
      BY <1>2
    <3>1. i + 1 \in from + 2 .. last
      BY <1>2, <1>12
    <3> QED BY <1>13, <3>1
  <2>3. IsFirst(last, Stream, from + 1, V)
    <3> DEFINE k == from + 1
    <3> HIDE DEF k
    <3>1. last \in k .. Len(Stream) - 1 /\ k \in Nat /\ \A i \in k .. last - 1 : Stream[i + 1] # V
      BY <2>1, <2>2 DEF k
    <3>2. IsFirst(last, Stream, k, V)
      BY <1>3, <1>9, <3>1 DEF IsFirst
    <3> QED BY <3>2 DEF k
  <2> QED BY <1>2, <2>3 DEF Closes, from
<1>15. f.status = "frame" /\ f.at = from /\ f.next = last + 1
  BY <1>14, Takes DEF Paired
<1> HIDE DEF from, f
<1>16. EndOf(j) <= last /\ from < EndOf(j)
  BY <1>2, <1>11, <1>12
<1>17. ASSUME NEW k \in n + 1 .. m, Untruncated(k)
       PROVE  (f.at = StartOf(k) /\ f.next = EndOf(k)) <=> Phase(k - 1) = "aligned"
  <2>1. CASE k <= j
    <3>1. k \in n + 1 .. j /\ k \in 0 .. N
      BY <1>1, <1>4, <2>1
    <3>2. EndOf(k) <= EndOf(j) /\ EndOf(k) \in Nat
      BY <1>3, <1>4, <2>1, <3>1, EndsOf
    <3>3. f.next # EndOf(k)
      BY <1>11, <1>12, <1>15, <1>16, <3>2
    <3>4. Phase(k - 1) # "aligned"
      BY <1>1, <1>17, <3>1
    <3> QED BY <3>3, <3>4
  <2>2. CASE k > j
    <3>1. k - 1 \in j .. m - 1 /\ k - 1 \in 0 .. N /\ j <= k - 1
      BY <1>1, <1>4, <2>2
    <3>2. EndOf(j) <= EndOf(k - 1) /\ EndOf(k - 1) \in Nat
      BY <1>3, <1>4, <3>1, EndsOf
    <3>3. f.at # StartOf(k)
      <4>1. StartOf(k) = EndOf(k - 1)
        BY DEF StartOf
      <4> QED BY <1>2, <1>11, <1>15, <3>2, <4>1
    <3>4. Phase(k - 1) = q
      BY <1>7, <3>1
    <3> QED BY <1>2, <3>3, <3>4
  <2> QED BY <1>1, <1>4, <2>1, <2>2
<1>18. m \in n + 1 .. N /\ Place(m, f.next) /\ f.at \in Nat /\ EndOf(n) <= f.at + 1 /\ f.at < EndOf(m)
  <2>1. m \in n + 1 .. N
    BY <1>1, <1>4
  <2>2. f.at < EndOf(m)
    BY <1>2, <1>11, <1>12, <1>15, <1>16
  <2> QED BY <1>1, <1>2, <1>9, <1>15, <2>1, <2>2
<1>19. Outcome(n, f)
  BY <1>15, <1>17, <1>18 DEF Outcome
<1> QED BY <1>19 DEF f

(* What is taken for a frame where a cut one opens. *)
LEMMA FromAstray ==
  ASSUME Paired, NEW n, NEW at, NEW j, NEW q, Astray(n, at, j, q)
  PROVE  Outcome(n, jt808_decode(Stream, at, fixed))
<1>1. Len(segs) \in Nat /\ j \in Nat
  <2>1. Len(segs) \in Nat
    BY EndsOf DEF Paired
  <2>2. j \in 1 .. Len(segs)
    BY DEF Astray, Opened
  <2> QED BY <2>1, <2>2
<1>2. \/ \A m \in j + 1 .. Len(segs) : m \notin Closers(q)
      \/ \E m \in j + 1 .. Len(segs) : m \in Closers(q) /\ \A x \in j + 1 .. m - 1 : x \notin Closers(q)
  BY <1>1, NextOf
<1>3. CASE \A m \in j + 1 .. Len(segs) : m \notin Closers(q)
  BY <1>3, NeverCloses
<1>4. CASE \E m \in j + 1 .. Len(segs) : m \in Closers(q) /\ \A x \in j + 1 .. m - 1 : x \notin Closers(q)
  BY <1>4, ClosesLater
<1> QED BY <1>2, <1>3, <1>4

(* Behind the first byte of an uncut binary frame, the framer opens one at *)
(* its last.                                                               *)
LEMMA FromSwapped ==
  ASSUME Paired, NEW n \in 1 .. Len(segs), NEW at, Phase(n) = "swapped", Untruncated(n), ~IsSentence(n),
         at = StartOf(n) + 1
  PROVE  Outcome(n, jt808_decode(Stream, at, fixed))
<1> DEFINE s == StartOf(n)
           e == EndOf(n)
           to == e - 1
<1>1. s \in Nat /\ e \in Nat /\ e <= Len(Stream) /\ s + 2 <= e /\ Stream[e] = conn.delimiter
  <2>1. s \in Nat /\ e \in Nat /\ e <= Len(Stream)
    BY MarksAre
  <2>2. s + 2 <= e /\ Stream[e] = Closing(n)
    BY MarksAre
  <2> QED BY <2>1, <2>2 DEF Closing
<1>2. \A i \in s + 1 .. e : Stream[i] \in Marks => i = s + 1 \/ i = e
  BY MarksAre
<1>3. IsList(Stream) /\ Len(segs) \in Nat /\ Len(Stream) \in Nat
  BY EndsOf, ListIs DEF Paired
<1>4. conn.delimiter \in Starts /\ Starts \subseteq Marks
  BY IsJt808 DEF Paired, Starts, Marks
<1> HIDE DEF s, e
<1>5. at \in Nat /\ to \in Nat /\ at <= to /\ to <= Len(Stream) /\ to + 1 = e /\ at = s + 1
  BY <1>1, <1>3 DEF s
<1>6. \A i \in at + 1 .. to : Stream[i] \notin Starts
  <2> SUFFICES ASSUME NEW i \in at + 1 .. to, Stream[i] \in Marks PROVE FALSE
    BY <1>4
  <2>1. i \in s + 1 .. e /\ i # s + 1 /\ i # e
    BY <1>1, <1>5
  <2> QED BY <1>2, <2>1
<1>7. Skipped(Stream, at) = to
  <2> HIDE DEF to
  <2>1. to < Len(Stream) => Stream[to + 1] \in Starts
    BY <1>1, <1>4, <1>5
  <2> QED BY <1>3, <1>5, <1>6, <2>1, SkipsTo
<1>8. Opened(at, n, "swapped")
  <2>1. to < e /\ \A i \in to + 2 .. e : Stream[i] \notin Marks
    BY <1>1, <1>5
  <2>2. Stream[to + 1] = conn.delimiter
    BY <1>1, <1>5
  <2> HIDE DEF to
  <2> QED BY <1>5, <1>7, <2>1, <2>2 DEF Opened, e
<1>9. Astray(n, at, n, "swapped")
  <2>1. IsAstray("swapped")
    BY DEF IsAstray
  <2>2. n \in 0 .. n /\ e <= to + 1 /\ \A k \in n + 1 .. n : Untruncated(k) => Phase(k - 1) # "aligned"
    BY <1>1, <1>3
  <2> HIDE DEF to
  <2> QED BY <1>7, <1>8, <2>1, <2>2 DEF Astray, e
<1> QED BY <1>9, FromAstray

(* In step with nothing left, the framer waits. *)
LEMMA NoneLeft ==
  ASSUME Paired, NEW n \in 0 .. Len(segs), NEW at \in Nat, Clear(n, at),
         \A k \in n + 1 .. Len(segs) : ~IsFrame(k)
  PROVE  Outcome(n, jt808_decode(Stream, at, fixed))
<1> DEFINE N == Len(segs)
<1>1. N \in Nat /\ IsList(Stream) /\ Len(Stream) = EndOf(N) /\ EndOf(N) \in Nat /\ EndOf(n) \in Nat
      /\ EndOf(n) <= EndOf(N) /\ n \in 0 .. N /\ N \in 0 .. N
  <2>1. AllMade
    BY DEF Paired
  <2>2. N \in Nat
    BY <2>1, EndsOf
  <2>3. N \in 0 .. N /\ n \in 0 .. N /\ n <= N
    BY <2>2
  <2>4. EndOf(n) <= EndOf(N)
    BY <2>1, <2>3, EndsOf
  <2>5. IsList(Stream) /\ Len(Stream) = EndOf(N) /\ EndOf(N) \in Nat /\ EndOf(n) \in Nat
    BY <2>1, <2>3, EndsOf
  <2> QED BY <2>2, <2>3, <2>4, <2>5
<1>2. \A i \in EndOf(n) + 1 .. EndOf(N) : Stream[i] \notin Marks
  <2>1. \A k \in n + 1 .. N : Without(k, Marks)
    BY DEF Without, Untruncated
  <2> QED BY <1>1, <2>1, NoneBetween
<1>3. at <= EndOf(n) /\ \A i \in at + 1 .. EndOf(n) : Stream[i] \notin Marks
  BY DEF Clear
<1>4. \A i \in at + 1 .. Len(Stream) : Stream[i] \notin Starts
  <2> HIDE DEF N
  <2> SUFFICES ASSUME NEW i \in at + 1 .. Len(Stream), Stream[i] \in Marks PROVE FALSE
    BY DEF Starts, Marks
  <2>1. i \in at + 1 .. EndOf(n) \/ i \in EndOf(n) + 1 .. EndOf(N)
    BY <1>1, <1>3
  <2> QED BY <1>2, <1>3, <2>1
<1>5. Skipped(Stream, at) = Len(Stream)
  <2> DEFINE to == Len(Stream)
  <2>1. to \in Nat /\ at <= to /\ to <= Len(Stream) /\ ~(to < Len(Stream))
    BY <1>1, <1>3
  <2> QED BY <1>1, <1>4, <2>1, SkipsTo
<1>6. \A i \in Len(Stream) + 2 .. Len(Stream) : Stream[i] # Close(Stream, Len(Stream))
  BY <1>1
<1>7. jt808_decode(Stream, at, fixed).status = "none"
  BY <1>1, <1>5, <1>6, Waits
<1> QED BY <1>7 DEF Outcome, Untruncated

(* Segment j is the first frame behind a framer in step.                   *)
Ahead(n, at, j) ==
  /\ n \in 0 .. Len(segs) /\ at \in Nat /\ Clear(n, at) /\ Phase(n) = "aligned"
  /\ j \in n + 1 .. Len(segs) /\ IsFrame(j) /\ \A k \in n + 1 .. j - 1 : ~IsFrame(k)

LEMMA AheadIs ==
  ASSUME Paired, NEW n, NEW at, NEW j, Ahead(n, at, j)
  PROVE  /\ Skipped(Stream, at) = StartOf(j) /\ Phase(j - 1) = "aligned" /\ j \in 1 .. Len(segs)
         /\ EndOf(n) \in Nat /\ EndOf(n) <= StartOf(j) /\ Len(segs) \in Nat /\ n \in Nat
<1> DEFINE N == Len(segs)
           x == j - 1
<1>1. /\ n \in 0 .. N /\ at \in Nat /\ Phase(n) = "aligned" /\ j \in n + 1 .. N /\ IsFrame(j)
      /\ \A k \in n + 1 .. j - 1 : ~IsFrame(k)
      /\ at <= EndOf(n) /\ \A i \in at + 1 .. EndOf(n) : Stream[i] \notin Marks
  BY DEF Ahead, Clear
<1>2. N \in Nat /\ IsList(Stream) /\ AllMade
  BY EndsOf DEF Paired
<1>3. n \in Nat /\ j \in 1 .. N /\ x \in Nat /\ x \in 0 .. N /\ n <= x /\ x \in n .. x /\ StartOf(j) = EndOf(x)
  BY <1>1, <1>2 DEF StartOf
<1> HIDE DEF x
<1>4. \A k \in n + 1 .. x : ~IsFrame(k)
  BY <1>1 DEF x
<1>5. EndOf(n) <= EndOf(x) /\ EndOf(n) \in Nat /\ EndOf(x) \in Nat
  BY <1>1, <1>2, <1>3, EndsOf
<1>6. \A i \in EndOf(n) + 1 .. EndOf(x) : Stream[i] \notin Marks
  <2>1. \A k \in n + 1 .. x : Without(k, Marks)
    BY <1>4 DEF Without, Untruncated
  <2> QED BY <1>1, <1>3, <2>1, NoneBetween
<1>7. Phase(x) = "aligned"
  <2>1. \A k \in n + 1 .. x : Moved("aligned", k) = "aligned"
    BY <1>4 DEF Moved
  <2>2. \A k \in n .. x : Phase(k) = "aligned"
    BY <1>1, <1>3, <2>1, PhaseKept
  <2> QED BY <1>3, <2>2
<1>8. StartOf(j) < EndOf(j) /\ Stream[StartOf(j) + 1] = Opening(j) /\ EndOf(j) <= Len(Stream) /\ EndOf(j) \in Nat
  BY <1>1, <1>3, MarksAre
<1>9. Opening(j) \in Starts
  BY IsJt808 DEF Paired, Opening, Starts
<1>10. \A i \in at + 1 .. EndOf(x) : Stream[i] \notin Starts
  <2> SUFFICES ASSUME NEW i \in at + 1 .. EndOf(x), Stream[i] \in Marks PROVE FALSE
    BY DEF Starts, Marks
  <2>1. i \in at + 1 .. EndOf(n) \/ i \in EndOf(n) + 1 .. EndOf(x)
    BY <1>1, <1>5
  <2> QED BY <1>1, <1>6, <2>1
<1>11. Skipped(Stream, at) = EndOf(x)
  <2> DEFINE to == EndOf(x)
  <2>1. Len(Stream) \in Nat
    BY <1>2, ListIs
  <2>2. to \in Nat /\ at <= to /\ to <= Len(Stream) /\ Stream[to + 1] \in Starts
    BY <1>1, <1>3, <1>5, <1>8, <1>9, <2>1
  <2> HIDE DEF to
  <2> QED BY <1>1, <1>2, <1>10, <2>2, SkipsTo DEF to
<1>12. Phase(j - 1) = "aligned"
  BY <1>7 DEF x
<1> QED BY <1>2, <1>3, <1>5, <1>11, <1>12

(* It comes out if it was not cut.                                         *)
LEMMA TakesWhole ==
  ASSUME Paired, NEW n, NEW at, NEW j, Ahead(n, at, j), Untruncated(j)
  PROVE  Outcome(n, jt808_decode(Stream, at, fixed))
<1> DEFINE f == jt808_decode(Stream, at, fixed)
           s == StartOf(j)
           e == EndOf(j)
<1>1. /\ Skipped(Stream, at) = s /\ Phase(j - 1) = "aligned" /\ j \in 1 .. Len(segs)
      /\ EndOf(n) \in Nat /\ EndOf(n) <= s /\ Len(segs) \in Nat /\ n \in Nat
  BY AheadIs
<1>2. IsFrame(j) /\ j \in n + 1 .. Len(segs) /\ \A k \in n + 1 .. j - 1 : ~IsFrame(k)
  BY DEF Ahead
<1>3. s \in Nat /\ e \in Nat /\ e <= Len(Stream)
  BY <1>1, MarksAre
<1>4. s + 2 <= e /\ Stream[e] = Closing(j)
  BY <1>1, MarksAre
<1>5. Stream[s + 1] = Opening(j)
  BY <1>1, <1>2, MarksAre
<1>6. \A i \in s + 1 .. e : Stream[i] \in Marks => i = s + 1 \/ i = e
  BY <1>1, MarksAre
<1>7. IsList(Stream) /\ Len(Stream) \in Nat
  BY EndsOf, ListIs DEF Paired
<1>8. conn.delimiter # 40 /\ Closing(j) \in Marks
  BY IsJt808 DEF Paired, Closing, Marks
<1>9. Close(Stream, s) = Closing(j)
  BY <1>5, <1>8 DEF Close, Opening, Closing
<1> DEFINE last == e - 1
           c == s + 1
<1> HIDE DEF s, e
<1>10. last + 1 = e /\ last \in c .. Len(Stream) - 1 /\ c \in Nat
  BY <1>3, <1>4, <1>7
<1>11. \A i \in c .. last - 1 : Stream[i + 1] # Closing(j)
  <2> SUFFICES ASSUME NEW i \in c .. last - 1, Stream[i + 1] = Closing(j) PROVE FALSE
    OBVIOUS
  <2>1. i + 1 \in s + 1 .. e /\ i + 1 # s + 1 /\ i + 1 # e
    BY <1>3, <1>10
  <2> QED BY <1>6, <1>8, <2>1
<1>12. IsFirst(last, Stream, c, Closing(j))
  <2> HIDE DEF last, c
  <2> QED BY <1>4, <1>7, <1>10, <1>11 DEF IsFirst
<1>13. Closes(Stream, at, last)
  <2> HIDE DEF last
  <2> QED BY <1>1, <1>3, <1>9, <1>12 DEF Closes
<1>14. f.status = "frame" /\ f.at = s /\ f.next = e
  <2>1. f.status = "frame" /\ f.at = Skipped(Stream, at) /\ f.next = last + 1
    <3> HIDE DEF last
    <3> QED BY <1>13, Takes DEF Paired
  <2> QED BY <1>1, <1>10, <2>1
<1> HIDE DEF f, last, c
<1>15. Phase(j) = "aligned"
  <2>1. Phase(j) = Moved(Phase(j - 1), j)
    BY <1>1, PhasesAre
  <2> QED BY <1>1, <2>1 DEF Moved
<1>16. Clear(j, e)
  <2>1. e <= e /\ \A i \in e + 1 .. e : Stream[i] \notin Marks
    BY <1>3
  <2> QED BY <2>1 DEF Clear, e
<1>17. Place(j, f.next)
  <2>1. j \in 0 .. Len(segs)
    BY <1>1
  <2> QED BY <1>3, <1>14, <1>15, <1>16, <2>1 DEF Place
<1>18. \A k \in n + 1 .. j :
         Untruncated(k) => ((f.at = StartOf(k) /\ f.next = EndOf(k)) <=> Phase(k - 1) = "aligned")
  <2> SUFFICES ASSUME NEW k \in n + 1 .. j, Untruncated(k)
               PROVE  (f.at = StartOf(k) /\ f.next = EndOf(k)) <=> Phase(k - 1) = "aligned"
    OBVIOUS
  <2>1. k = j
    <3>1. k \in n + 1 .. j - 1 \/ k = j
      BY <1>1
    <3> QED BY <1>2, <3>1 DEF Untruncated
  <2> QED BY <1>1, <1>14, <2>1 DEF s, e
<1>19. f.at \in Nat /\ EndOf(n) <= f.at + 1 /\ f.at < e
  BY <1>1, <1>3, <1>4, <1>14
<1>20. Outcome(n, f)
  BY <1>2, <1>14, <1>17, <1>18, <1>19 DEF Outcome, e
<1> QED BY <1>20 DEF f

(* If it was, the framer takes it for the start of a longer one.           *)
LEMMA TakesCut ==
  ASSUME Paired, NEW n, NEW at, NEW j, Ahead(n, at, j), ~Untruncated(j)
  PROVE  Outcome(n, jt808_decode(Stream, at, fixed))
<1> DEFINE s == StartOf(j)
           e == EndOf(j)
           q == IF IsSentence(j) THEN "in a sentence" ELSE "swapped"
<1>1. /\ Skipped(Stream, at) = s /\ Phase(j - 1) = "aligned" /\ j \in 1 .. Len(segs)
      /\ EndOf(n) \in Nat /\ EndOf(n) <= s /\ Len(segs) \in Nat /\ n \in Nat
  BY AheadIs
<1>2. IsFrame(j) /\ at \in Nat /\ n \in 0 .. j /\ \A k \in n + 1 .. j - 1 : ~IsFrame(k)
  <2>1. IsFrame(j) /\ at \in Nat /\ j \in n + 1 .. Len(segs) /\ \A k \in n + 1 .. j - 1 : ~IsFrame(k)
    BY DEF Ahead
  <2> QED BY <1>1, <2>1
<1>3. s \in Nat /\ e \in Nat
  BY <1>1, MarksAre
<1>4. s < e /\ Stream[s + 1] = Opening(j)
  BY <1>1, <1>2, MarksAre
<1>5. \A i \in s + 1 .. e : Stream[i] \in Marks => i = s + 1
  BY <1>1, MarksAre
<1>6. Phase(j) = q
  <2>1. Phase(j) = Moved("aligned", j)
    BY <1>1, PhasesAre
  <2> QED BY <1>2, <2>1 DEF Moved
<1>7. IsAstray(q)
  BY DEF IsAstray
<1>8. \/ q = "swapped" /\ Stream[s + 1] = conn.delimiter
      \/ q = "in a sentence" /\ Stream[s + 1] = 40
  BY <1>4 DEF Opening
<1> HIDE DEF s, e, q
<1>9. \A i \in s + 2 .. e : Stream[i] \notin Marks
  <2> SUFFICES ASSUME NEW i \in s + 2 .. e, Stream[i] \in Marks PROVE FALSE
    OBVIOUS
  <2>1. i \in s + 1 .. e /\ i # s + 1
    BY <1>3
  <2> QED BY <1>5, <2>1
<1>10. Opened(at, j, q)
  BY <1>1, <1>2, <1>3, <1>4, <1>6, <1>8, <1>9 DEF Opened, e
<1>11. \A k \in n + 1 .. j : Untruncated(k) => Phase(k - 1) # "aligned"
  <2> SUFFICES ASSUME NEW k \in n + 1 .. j, Untruncated(k) PROVE FALSE
    OBVIOUS
  <2>1. k \in n + 1 .. j - 1 \/ k = j
    BY <1>1
  <2> QED BY <1>2, <2>1 DEF Untruncated
<1>12. EndOf(n) <= Skipped(Stream, at) + 1
  BY <1>1, <1>3
<1>13. Astray(n, at, j, q)
  BY <1>2, <1>7, <1>10, <1>11, <1>12 DEF Astray
<1> QED BY <1>13, FromAstray

(* What a decode does wherever the framer is.                              *)
LEMMA Decodes ==
  ASSUME Paired, NEW n, NEW at, Place(n, at)
  PROVE  Outcome(n, jt808_decode(Stream, at, fixed))
<1>1. n \in 0 .. Len(segs) /\ at \in Nat /\ Len(segs) \in Nat
  BY EndsOf DEF Paired, Place
<1>2. CASE Phase(n) = "aligned" /\ Clear(n, at)
  <2> DEFINE C == {k \in 1 .. Len(segs) : IsFrame(k)}
  <2>1. \/ \A k \in n + 1 .. Len(segs) : k \notin C
        \/ \E k \in n + 1 .. Len(segs) : k \in C /\ \A x \in n + 1 .. k - 1 : x \notin C
    <3>1. n \in Nat /\ Len(segs) \in Nat
      BY <1>1
    <3> HIDE DEF C
    <3> QED BY <3>1, NextOf
  <2>2. CASE \A k \in n + 1 .. Len(segs) : k \notin C
    <3>1. \A k \in n + 1 .. Len(segs) : ~IsFrame(k)
      BY <1>1, <2>2
    <3> QED BY <1>1, <1>2, <3>1, NoneLeft
  <2>3. CASE \E k \in n + 1 .. Len(segs) : k \in C /\ \A x \in n + 1 .. k - 1 : x \notin C
    <3>1. PICK j \in n + 1 .. Len(segs) : j \in C /\ \A x \in n + 1 .. j - 1 : x \notin C
      BY <2>3
    <3>2. IsFrame(j) /\ \A x \in n + 1 .. j - 1 : ~IsFrame(x)
      BY <1>1, <3>1
    <3>3. Ahead(n, at, j)
      BY <1>1, <1>2, <3>1, <3>2 DEF Ahead
    <3> HIDE DEF C
    <3> QED BY <3>3, TakesWhole, TakesCut
  <2> QED BY <2>1, <2>2, <2>3
<1>3. CASE ~(Phase(n) = "aligned" /\ Clear(n, at))
  <2>1. Phase(n) = "swapped" /\ n >= 1 /\ Untruncated(n) /\ ~IsSentence(n) /\ at = StartOf(n) + 1
    BY <1>3 DEF Place
  <2>2. n \in 1 .. Len(segs)
    BY <1>1, <2>1
  <2> QED BY <2>1, <2>2, FromSwapped
<1> QED BY <1>2, <1>3

-----------------------------------------------------------------------------
(* The invariant: the framer is in one of those places, and has returned   *)
(* of the uncut frames before it those that were in step.                  *)
Accounted(n) == \A k \in 1 .. n : Untruncated(k) => (ComesOut(k) <=> Phase(k - 1) = "aligned")

Behind(n) == \A i \in DOMAIN out : out[i].from \in Nat /\ out[i].from < EndOf(n)

TakenFrom(e) ==
  \E at \in Nat : LET f == jt808_decode(Stream, at, fixed) IN
    f.status = "frame" /\ e = [from |-> f.at, to |-> f.next, frame |-> f.frame]

Tracked ==
  /\ \A i \in DOMAIN out : TakenFrom(out[i])
  /\ pc = "decode" => \E n : Place(n, r) /\ Accounted(n) /\ Behind(n)
  /\ pc = "waiting" => Accounted(Len(segs))

PInv == CInv /\ (pc = "send" => r = 0) /\ (Paired => Tracked)

(* A frame after where the framer is has not come out yet. *)
LEMMA NotYet ==
  ASSUME Paired, NEW n \in 0 .. Len(segs), Behind(n), NEW k \in n + 1 .. Len(segs)
  PROVE  ~ComesOut(k)
<1>1. AllMade /\ Len(segs) \in Nat
  BY EndsOf DEF Paired
<1>2. n \in 0 .. Len(segs) /\ k - 1 \in 0 .. Len(segs) /\ n <= k - 1
  BY <1>1
<1>3. EndOf(n) <= EndOf(k - 1) /\ EndOf(n) \in Nat /\ EndOf(k - 1) \in Nat
  BY <1>1, <1>2, EndsOf
<1>4. StartOf(k) = EndOf(k - 1)
  BY DEF StartOf
<1> SUFFICES ASSUME NEW i \in DOMAIN out, out[i].from = StartOf(k) PROVE FALSE
  BY DEF ComesOut
<1>5. out[i].from \in Nat /\ out[i].from < EndOf(n)
  BY DEF Behind
<1> QED BY <1>3, <1>4, <1>5

(* What is taken from there on is no frame before it. *)
LEMMA NoMore ==
  ASSUME Paired, NEW n \in 0 .. Len(segs), NEW at \in Nat, EndOf(n) <= at + 1, NEW k \in 1 .. n, Untruncated(k)
  PROVE  at # StartOf(k)
<1>1. AllMade /\ Len(segs) \in Nat
  BY EndsOf DEF Paired
<1>2. k \in 1 .. Len(segs) /\ k \in 0 .. Len(segs) /\ k <= n
  BY <1>1
<1>3. EndOf(k) <= EndOf(n) /\ EndOf(n) \in Nat /\ EndOf(k) \in Nat
  BY <1>1, <1>2, EndsOf
<1>4. StartOf(k) \in Nat /\ StartOf(k) + 2 <= EndOf(k)
  BY <1>2, MarksAre
<1> QED BY <1>3, <1>4

(* Nothing moves in a stream that is sent. *)
LEMMA PlacesKept ==
  ASSUME conn' = conn, segs' = segs, fixed' = fixed
  PROVE  /\ Paired' <=> Paired
         /\ \A n, at : Place(n, at)' <=> Place(n, at)
         /\ \A n : EndOf(n)' = EndOf(n) /\ Phase(n)' = Phase(n)
         /\ \A k : StartOf(k)' = StartOf(k) /\ (Untruncated(k)' <=> Untruncated(k))
         /\ \A e : TakenFrom(e)' <=> TakenFrom(e)
<1>1. Stream' = Stream
  BY StreamKept
<1>2. \A k : EndOf(k)' = EndOf(k)
  BY DEF EndOf, Through
<1>3. \A k : StartOf(k)' = StartOf(k)
  BY <1>2 DEF StartOf
<1>4. \A k : (Untruncated(k)' <=> Untruncated(k)) /\ (IsFrame(k)' <=> IsFrame(k))
             /\ (IsSentence(k)' <=> IsSentence(k))
  BY DEF Untruncated, IsFrame, IsSentence
<1>5. \A k : Phase(k)' = Phase(k)
  BY DEF Phase, Through, Moved, Untruncated, IsFrame, IsSentence
<1>6. Paired' <=> Paired
  BY DEF Paired, AllMade, Made, NoStrayDelimiter, Inner, Untruncated, IsFrame
<1>7. \A n, at : Place(n, at)' <=> Place(n, at)
  <2>1. \A n, at : Clear(n, at)' <=> Clear(n, at)
    BY <1>1, <1>2 DEF Clear
  <2> QED BY <1>3, <1>4, <1>5, <2>1 DEF Place
<1>8. \A e : TakenFrom(e)' <=> TakenFrom(e)
  BY <1>1 DEF TakenFrom
<1> QED BY <1>2, <1>3, <1>4, <1>5, <1>6, <1>7, <1>8

LEMMA InitPInv == Init => PInv
<1> SUFFICES ASSUME Init PROVE PInv
  OBVIOUS
<1>1. CInv
  BY InitCInv
<1>2. pc = "send" /\ r = 0 /\ out = <<>>
  BY DEF Init
<1> QED BY <1>1, <1>2 DEF PInv, Tracked

LEMMA SendPInv == PInv /\ Send => PInv'
<1> SUFFICES ASSUME PInv, Send PROVE PInv'
  OBVIOUS
<1>1. CInv /\ CInv'
  BY SendCInv DEF PInv
<1>2. pc = "send" /\ pc' = "send" /\ r' = r /\ r = 0 /\ out' = out /\ out = <<>>
  BY DEF Send, PInv, CInv
<1> QED BY <1>1, <1>2 DEF PInv, Tracked

LEMMA SentPInv == PInv /\ Sent => PInv'
<1> SUFFICES ASSUME PInv, Sent PROVE PInv'
  OBVIOUS
<1>1. CInv /\ CInv'
  BY CInvStep DEF PInv, Next
<1>2. /\ pc = "send" /\ pc' = "decode" /\ r' = r /\ r = 0 /\ out' = out /\ out = <<>>
      /\ conn' = conn /\ segs' = segs /\ fixed' = fixed
  BY DEF Sent, PInv, CInv
<1>3. ASSUME Paired PROVE Place(0, 0)
  <2>1. Len(segs) \in Nat /\ EndOf(0) = 0
    BY <1>3, EndsOf DEF Paired
  <2>2. 0 \in 0 .. Len(segs) /\ 0 \in Nat /\ \A i \in 0 + 1 .. 0 : Stream[i] \notin Marks
    BY <2>1
  <2>3. Phase(0) = "aligned"
    BY <2>2, PhasesAre
  <2>4. Clear(0, 0)
    BY <2>1, <2>2 DEF Clear
  <2> QED BY <2>2, <2>3, <2>4 DEF Place
<1>4. Accounted(0)' /\ Behind(0)'
  BY <1>2 DEF Accounted, Behind
<1>5. Paired' => Place(0, r)'
  BY <1>2, <1>3, PlacesKept
<1>6. Paired' => Tracked'
  BY <1>2, <1>4, <1>5 DEF Tracked
<1> QED BY <1>1, <1>2, <1>6 DEF PInv

(* A decode that waits, and one that takes bytes. *)
LEMMA WaitsTracked ==
  ASSUME Paired, Tracked, conn' = conn, segs' = segs, fixed' = fixed, out' = out, pc' = "waiting",
         NEW n \in 0 .. Len(segs), Accounted(n), Behind(n),
         \A k \in n + 1 .. Len(segs) : Untruncated(k) => Phase(k - 1) # "aligned"
  PROVE  Tracked'
<1>1. (\A i \in DOMAIN out : TakenFrom(out[i]))'
  BY PlacesKept DEF Tracked
<1>2. Len(segs) \in Nat
  BY EndsOf DEF Paired
<1>3. ASSUME NEW k \in 1 .. Len(segs), Untruncated(k) PROVE ComesOut(k) <=> Phase(k - 1) = "aligned"
  <2>1. CASE k <= n
    <3>1. k \in 1 .. n
      BY <1>2, <2>1
    <3> QED BY <1>3, <3>1 DEF Accounted
  <2>2. CASE k > n
    <3>1. k \in n + 1 .. Len(segs)
      BY <1>2, <2>2
    <3> QED BY <1>3, <3>1, NotYet
  <2> QED BY <1>2, <2>1, <2>2
<1>4. \A k : ComesOut(k)' <=> ComesOut(k)
  BY PlacesKept DEF ComesOut
<1>5. Accounted(Len(segs))'
  BY <1>3, <1>4, PlacesKept DEF Accounted
<1> QED BY <1>1, <1>5 DEF Tracked

LEMMA TakesTracked ==
  ASSUME CInv, CInv', Paired, Tracked, conn' = conn, segs' = segs, fixed' = fixed, pc' = "decode",
         NEW f, f.status = "frame", TakenFrom([from |-> f.at, to |-> f.next, frame |-> f.frame]),
         out' = Append(out, [from |-> f.at, to |-> f.next, frame |-> f.frame]), r' = f.next,
         NEW n \in 0 .. Len(segs), Accounted(n), Behind(n),
         NEW m \in n + 1 .. Len(segs), Place(m, f.next),
         f.at \in Nat, EndOf(n) <= f.at + 1, f.at < EndOf(m),
         \A k \in n + 1 .. m :
            Untruncated(k) => ((f.at = StartOf(k) /\ f.next = EndOf(k)) <=> Phase(k - 1) = "aligned")
  PROVE  Tracked'
<1> DEFINE e == [from |-> f.at, to |-> f.next, frame |-> f.frame]
           x == Len(out)
<1>1. IsList(out) /\ IsList(out') /\ AllMade
  BY DEF CInv
<1>2. e.from = f.at /\ e.to = f.next /\ TakenFrom(e)
  OBVIOUS
<1>3. x \in Nat /\ DOMAIN out = 1 .. x /\ DOMAIN out' = 1 .. x + 1 /\ out'[x + 1] = e
      /\ \A i \in 1 .. x : out'[i] = out[i]
  <2> HIDE DEF e
  <2>1. out' = Append(out, e)
    BY DEF e
  <2>2. Len(out') = x + 1 /\ out'[x + 1] = e /\ \A i \in 1 .. x : out'[i] = out[i]
    BY <1>1, <2>1, OneMore
  <2> QED BY <1>1, <2>2, ListIs
<1> HIDE DEF e, x
<1>4. \A i \in 1 .. x + 1 : i \in 1 .. x \/ i = x + 1
  BY <1>3
<1>5. x + 1 \in 1 .. x + 1 /\ \A i \in 1 .. x : i \in 1 .. x + 1
  BY <1>3
<1>6. (\A i \in DOMAIN out : TakenFrom(out[i]))'
  <2>1. \A i \in DOMAIN out : TakenFrom(out[i])
    BY DEF Tracked
  <2>2. \A i \in DOMAIN out' : TakenFrom(out'[i])
    BY <1>2, <1>3, <1>4, <2>1
  <2> QED BY <2>2, PlacesKept
<1>7. \A k : ComesOut(k)' <=> (ComesOut(k) \/ (f.at = StartOf(k) /\ f.next = EndOf(k)))
  <2> SUFFICES ASSUME NEW k PROVE ComesOut(k)' <=> (ComesOut(k) \/ (f.at = StartOf(k) /\ f.next = EndOf(k)))
    OBVIOUS
  <2>1. StartOf(k)' = StartOf(k) /\ EndOf(k)' = EndOf(k)
    BY PlacesKept
  <2>2. ComesOut(k)' <=> \E i \in 1 .. x + 1 : out'[i].from = StartOf(k) /\ out'[i].to = EndOf(k)
    BY <1>3, <2>1 DEF ComesOut
  <2>3. ComesOut(k) <=> \E i \in 1 .. x : out[i].from = StartOf(k) /\ out[i].to = EndOf(k)
    BY <1>3 DEF ComesOut
  <2> QED BY <1>2, <1>3, <1>4, <1>5, <2>2, <2>3
<1>8. n \in Nat /\ m \in Nat /\ n <= m /\ n \in 0 .. Len(segs) /\ m \in 0 .. Len(segs)
      /\ \A k \in n + 1 .. m : k \in n + 1 .. Len(segs)
  <2>1. Len(segs) \in Nat
    BY EndsOf DEF Paired
  <2> QED BY <2>1
<1>9. ASSUME NEW k \in 1 .. m, Untruncated(k) PROVE ComesOut(k)' <=> Phase(k - 1) = "aligned"
  <2>1. CASE k <= n
    <3>1. k \in 1 .. n
      BY <1>8, <2>1
    <3>2. f.at # StartOf(k)
      BY <1>9, <3>1, NoMore
    <3> QED BY <1>7, <1>9, <3>1, <3>2 DEF Accounted
  <2>2. CASE k > n
    <3>1. k \in n + 1 .. m /\ k \in n + 1 .. Len(segs)
      BY <1>8, <2>2
    <3>2. ~ComesOut(k)
      BY <3>1, NotYet
    <3> QED BY <1>7, <1>9, <3>1, <3>2
  <2> QED BY <1>8, <2>1, <2>2
<1>10. Accounted(m)'
  BY <1>9, PlacesKept DEF Accounted
<1>11. EndOf(n) <= EndOf(m) /\ EndOf(n) \in Nat /\ EndOf(m) \in Nat
  BY <1>1, <1>8, EndsOf
<1>12. Behind(m)'
  <2>1. ASSUME NEW i \in 1 .. x + 1 PROVE out'[i].from \in Nat /\ out'[i].from < EndOf(m)
    <3>1. CASE i = x + 1
      BY <1>2, <1>3, <3>1
    <3>2. CASE i \in 1 .. x
      <4> DEFINE y == out[i].from
                 a == EndOf(n)
                 b == EndOf(m)
      <4>1. out'[i].from = y /\ y \in Nat /\ y < a
        BY <1>3, <3>2 DEF Behind
      <4>2. a <= b /\ a \in Nat /\ b \in Nat
        BY <1>11
      <4> HIDE DEF y, a, b
      <4>3. y < b
        BY <4>1, <4>2
      <4> QED BY <4>1, <4>3 DEF b
    <3> QED BY <1>4, <3>1, <3>2
  <2>2. EndOf(m)' = EndOf(m)
    BY PlacesKept
  <2> QED BY <1>3, <2>1, <2>2 DEF Behind
<1>13. Place(m, r)'
  BY PlacesKept
<1>14. \E y : Place(y, r)' /\ Accounted(y)' /\ Behind(y)'
  BY <1>10, <1>12, <1>13
<1> QED BY <1>6, <1>14 DEF Tracked

LEMMA ReturnPInv == PInv /\ Return => PInv'
<1> SUFFICES ASSUME PInv, Return PROVE PInv'
  OBVIOUS
<1>1. CInv /\ CInv'
  BY ReturnCInv DEF PInv
<1>2. conn' = conn /\ segs' = segs /\ fixed' = fixed /\ pc = "decode"
  BY DEF Return
<1>3. pc' # "send"
  BY <1>2 DEF Return
<1>4. ASSUME Paired PROVE Tracked'
  <2> DEFINE f == jt808_decode(Stream, r, fixed)
             e == [from |-> f.at, to |-> f.next, frame |-> f.frame]
  <2>1. decode(Stream, r) = f
    BY <1>4 DEF decode, Paired
  <2>2. /\ r' = f.next
        /\ \/ f.status = "frame" /\ out' = Append(out, e) /\ pc' = "decode"
           \/ f.status = "none" /\ out' = out /\ pc' = "waiting"
           \/ f.status \notin {"frame", "none"}
    BY <1>2, <2>1 DEF Return
  <2>3. Tracked /\ r \in Nat
    BY <1>1, <1>4 DEF PInv, CInv
  <2>4. PICK n : Place(n, r) /\ Accounted(n) /\ Behind(n)
    BY <1>2, <2>3 DEF Tracked
  <2>5. Outcome(n, f) /\ n \in 0 .. Len(segs)
    BY <1>4, <2>4, Decodes DEF Place
  <2>6. CASE f.status = "none" /\ \A k \in n + 1 .. Len(segs) : Untruncated(k) => Phase(k - 1) # "aligned"
    <3>1. out' = out /\ pc' = "waiting"
      BY <2>2, <2>6
    <3> HIDE DEF f
    <3> QED BY <1>2, <1>4, <2>3, <2>4, <2>5, <2>6, <3>1, WaitsTracked
  <2>7. CASE f.status = "frame" /\ \E m \in n + 1 .. Len(segs) :
               /\ Place(m, f.next) /\ f.at \in Nat /\ EndOf(n) <= f.at + 1 /\ f.at < EndOf(m)
               /\ \A k \in n + 1 .. m :
                    Untruncated(k) => ((f.at = StartOf(k) /\ f.next = EndOf(k)) <=> Phase(k - 1) = "aligned")
    <3>1. out' = Append(out, e) /\ pc' = "decode" /\ r' = f.next
      BY <2>2, <2>7
    <3>2. TakenFrom(e)
      BY <2>3, <2>7 DEF TakenFrom
    <3>3. PICK m \in n + 1 .. Len(segs) :
               /\ Place(m, f.next) /\ f.at \in Nat /\ EndOf(n) <= f.at + 1 /\ f.at < EndOf(m)
               /\ \A k \in n + 1 .. m :
                    Untruncated(k) => ((f.at = StartOf(k) /\ f.next = EndOf(k)) <=> Phase(k - 1) = "aligned")
      BY <2>7
    <3> HIDE DEF f
    <3> QED BY <1>1, <1>2, <1>4, <2>3, <2>4, <2>5, <2>7, <3>1, <3>2, <3>3, TakesTracked
  <2> QED BY <2>5, <2>6, <2>7 DEF Outcome
<1>5. Paired' => Paired
  BY <1>2, PlacesKept
<1> QED BY <1>1, <1>3, <1>4, <1>5 DEF PInv

LEMMA PInvStep == PInv /\ [Next]_vars => PInv'
<1> SUFFICES ASSUME PInv, [Next]_vars PROVE PInv'
  OBVIOUS
<1>1. CInv'
  BY CInvStep DEF PInv
<1>2. CASE Ended \/ UNCHANGED vars
  <2>1. conn' = conn /\ segs' = segs /\ out' = out /\ r' = r /\ fixed' = fixed /\ pc' = pc
    BY <1>2 DEF Ended, vars
  <2>2. Paired' => Paired
    BY <2>1, PlacesKept
  <2>3. Tracked => Tracked'
    <3>1. \A k : ComesOut(k)' <=> ComesOut(k)
      BY <2>1, PlacesKept DEF ComesOut
    <3>2. \A n : Accounted(n) => Accounted(n)'
      BY <2>1, <3>1, PlacesKept DEF Accounted
    <3>3. \A n : Behind(n) => Behind(n)'
      BY <2>1, PlacesKept DEF Behind
    <3> QED BY <2>1, <3>2, <3>3, PlacesKept DEF Tracked
  <2> QED BY <1>1, <2>1, <2>2, <2>3 DEF PInv
<1> QED BY <1>2, SendPInv, SentPInv, ReturnPInv DEF Next

-----------------------------------------------------------------------------
(* What coverage() makes of it.                                            *)
(* A frame that comes out is what it is alone. *)
LEMMA OutAsAlone ==
  ASSUME Paired, NEW k \in 1 .. Len(segs), Untruncated(k), NEW e, TakenFrom(e), e.from = StartOf(k)
  PROVE  e.to = EndOf(k) /\ e.frame = Alone(k)
<1> DEFINE d == segs[k].data
<1>1. /\ conn \in Conns /\ conn.protocol # "gt06" /\ fixed /\ AllMade /\ Jt808Is(segs[k], conn.delimiter)
  BY DEF Paired, AllMade, Made
<1>2. StartOf(k) \in Nat /\ EndOf(k) = StartOf(k) + Len(d) /\ StandsAt(Stream, StartOf(k), d) /\ IsList(Stream)
  BY <1>1, SegmentsStand
<1>3. PICK at \in Nat : LET f == jt808_decode(Stream, at, fixed) IN
        f.status = "frame" /\ e = [from |-> f.at, to |-> f.next, frame |-> f.frame]
  BY DEF TakenFrom
<1> DEFINE f == jt808_decode(Stream, at, fixed)
<1>4. e.from = f.at /\ e.to = f.next /\ e.frame = f.frame
  BY <1>3
<1>5. Skipped(Stream, at) = StartOf(k)
  BY <1>2, <1>3, <1>4, Jt808Decodes
<1>6. f.next = StartOf(k) + Len(d) /\ f.frame = Plain(k)
  BY <1>1, <1>2, <1>5, Jt808InStep
<1>7. jt808_decode(d, 0, fixed).frame = Plain(k)
  <2>1. IsList(d) /\ Len(d) \in Nat /\ Len(d) >= 1 /\ d[1] \in {40, 126, 231}
    <3>1. IsList(d) /\ Len(d) \in Nat
      BY <1>1, ListIs DEF Jt808Is
    <3>2. Len(d) >= 1 /\ d[1] = Opening(k)
      BY <1>1 DEF Jt808Is, Opens, Untruncated, IsFrame, IsSentence, Opening
    <3>3. Opening(k) \in {40, 126, 231}
      BY <1>1, IsJt808 DEF Opening
    <3> QED BY <3>1, <3>2, <3>3
  <2> HIDE DEF d, f
  <2>2. Skipped(d, 0) = 0
    <3>1. 0 \in Nat /\ 0 < Len(d) /\ d[0 + 1] \in {40, 126, 231}
      BY <2>1
    <3> QED BY <2>1, <3>1, SkippedIs
  <2>3. 0 \in Nat /\ StandsAt(d, 0, d)
    BY <2>1 DEF StandsAt
  <2>4. StandsAt(d, 0, segs[k].data)
    BY <2>3 DEF d
  <2> QED BY <1>1, <2>2, <2>3, <2>4, Jt808InStep
<1>8. Alone(k) = Plain(k)
  BY <1>1, <1>7 DEF Alone
<1> HIDE DEF f, d
<1> QED BY <1>2, <1>4, <1>6, <1>8

(* Two uncut frames do not start at one place. *)
LEMMA StartsApart ==
  ASSUME Paired, NEW k \in 1 .. Len(segs), NEW j \in 1 .. k - 1, Untruncated(j)
  PROVE  StartOf(j) # StartOf(k)
<1>1. AllMade /\ Len(segs) \in Nat
  BY EndsOf DEF Paired
<1>2. j \in 1 .. Len(segs) /\ j \in 0 .. Len(segs) /\ k - 1 \in 0 .. Len(segs) /\ j <= k - 1
  BY <1>1
<1>3. EndOf(j) <= EndOf(k - 1) /\ EndOf(j) \in Nat /\ EndOf(k - 1) \in Nat
  BY <1>1, <1>2, EndsOf
<1>4. StartOf(j) \in Nat /\ StartOf(j) + 2 <= EndOf(j) /\ StartOf(k) = EndOf(k - 1)
  BY <1>2, MarksAre DEF StartOf
<1> QED BY <1>3, <1>4

LEMMA LostIs ==
  ASSUME Paired, IsList(out), \A i \in DOMAIN out : TakenFrom(out[i]), NoImpostor,
         NEW k \in 1 .. Len(segs), IsWhole(k)
  PROVE  Lost(k) <=> ~ComesOut(k)
<1> DEFINE I == {i \in DOMAIN out : out[i].frame = Alone(k)}
           J == {j \in 1 .. k - 1 : IsWhole(j) /\ Alone(j) = Alone(k)}
<1>1. IsList(segs) /\ DOMAIN segs = 1 .. Len(segs) /\ Len(segs) \in Nat
  BY ListIs DEF Paired, AllMade
<1>2. \A j : IsWhole(j) => Untruncated(j)
  BY DEF IsWhole, Untruncated
<1>3. Lost(k) <=> Cardinality(J) >= Cardinality(I)
  BY DEF Lost
<1>4. IsFiniteSet(I) /\ IsFiniteSet(J) /\ Cardinality(I) \in Nat /\ Cardinality(J) \in Nat
  <2>1. DOMAIN out = 1 .. Len(out) /\ Len(out) \in Nat
    BY ListIs
  <2>2. IsFiniteSet(1 .. Len(out)) /\ IsFiniteSet(1 .. k - 1)
    BY <1>1, <2>1, FS_Interval
  <2>3. I \subseteq 1 .. Len(out) /\ J \subseteq 1 .. k - 1
    BY <2>1
  <2> HIDE DEF I, J
  <2> QED BY <2>2, <2>3, FS_Subset, FS_CardinalityType
<1>5. CASE ComesOut(k)
  <2>1. PICK i \in DOMAIN out : out[i].from = StartOf(k)
    BY <1>5 DEF ComesOut
  <2>2. out[i].frame = Alone(k)
    BY <1>2, <2>1, OutAsAlone
  <2>3. I # {}
    BY <2>2
  <2>4. J = {}
    <3> SUFFICES ASSUME NEW j \in 1 .. k - 1, IsWhole(j), Alone(j) = Alone(k) PROVE FALSE
      OBVIOUS
    <3>1. j \in DOMAIN segs
      BY <1>1
    <3>2. out[i].from = StartOf(j)
      BY <2>2, <3>1 DEF NoImpostor
    <3> QED BY <1>2, <2>1, <3>2, StartsApart
  <2> HIDE DEF I, J
  <2>5. Cardinality(I) # 0 /\ Cardinality(J) = 0
    BY <1>4, <2>3, <2>4, FS_EmptySet
  <2> QED BY <1>3, <1>4, <1>5, <2>5
<1>6. CASE ~ComesOut(k)
  <2>1. I = {}
    <3> SUFFICES ASSUME NEW i \in DOMAIN out, out[i].frame = Alone(k) PROVE FALSE
      OBVIOUS
    <3>1. out[i].from = StartOf(k)
      BY <1>1 DEF NoImpostor
    <3>2. out[i].to = EndOf(k)
      BY <1>2, <3>1, OutAsAlone
    <3> QED BY <1>6, <3>1, <3>2 DEF ComesOut
  <2> HIDE DEF I, J
  <2>2. Cardinality(I) = 0
    BY <2>1, FS_EmptySet
  <2> QED BY <1>3, <1>4, <1>6, <2>2
<1> QED BY <1>5, <1>6

LEMMA PInvPairing == PInv => PairingLosesRuns
<1> SUFFICES ASSUME PInv, pc = "waiting", conn.protocol = "jt808", fixed, NoStrayDelimiter
             PROVE  /\ \A k \in DOMAIN segs : Untruncated(k) => (ComesOut(k) <=> Phase(k - 1) = "aligned")
                    /\ NoImpostor => \A k \in DOMAIN segs : IsWhole(k) => (Lost(k) <=> ~ComesOut(k))
  BY DEF PairingLosesRuns
<1>1. Paired /\ IsList(out) /\ AllMade
  BY DEF PInv, CInv, Paired
<1>2. Accounted(Len(segs)) /\ \A i \in DOMAIN out : TakenFrom(out[i])
  BY <1>1 DEF PInv, Tracked
<1>3. DOMAIN segs = 1 .. Len(segs)
  BY <1>1, ListIs DEF AllMade
<1> QED BY <1>1, <1>2, <1>3, LostIs DEF Accounted

(* In a JT808 stream where only the ends of frames look like them, and     *)
(* with the sentence's length corrected, frames_of() returns the uncut     *)
(* frames that it meets in step, each cut frame met in step costing it     *)
(* the stream to the next cut binary frame, or to the end of the next      *)
(* uncut sentence, and no other uncut one. They are those coverage() does  *)
(* not count as lost, if no frame made of others' bytes equals one.        *)
THEOREM RunsLost == Spec => []PairingLosesRuns
<1>1. Init => PInv
  BY InitPInv
<1>2. PInv /\ [Next]_vars => PInv'
  BY PInvStep
<1>3. PInv => PairingLosesRuns
  BY PInvPairing
<1> QED BY <1>1, <1>2, <1>3, PTL DEF Spec
=============================================================================
